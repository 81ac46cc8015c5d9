-------------------------------- MODULE Payments --------------------------------
(***************************************************************************)
(* Payments, from creation to ledger, order, refund and settlement         *)
(* (app/services/payments.py, financial.py, payment_provider_service.py,   *)
(* payment_orchestration.py, settlement.py, the signed webhook of          *)
(* app/api/webhooks.py, and the order a payment belongs to).               *)
(*                                                                         *)
(* Every operation holds the payment's row from its first statement to its *)
(* commit, a status query over the call to the provider too, and is one    *)
(* step.  What is hard is their order: three routes set a payment paid,    *)
(* one of them posts it, and a status query overwrites whatever it finds.  *)
(* A call the code answers with an error changes nothing and is no step.   *)
(***************************************************************************)
EXTENDS Naturals, FiniteSets, Functions

CONSTANTS
    Payments,    \* rows of payments that can be created
    Amount,      \* [Payments -> amount in cents]
    Events,      \* external ids of signed webhook events
    PaymentOf,   \* [Events -> the payment_id in the event]
    Sessions,    \* checkout sessions MoPay can open
    OpenedFor,   \* [Sessions -> the payment they are opened for]
    ForOrder,    \* payments that checkout created for a commerce order
    ForRequest,  \* payments with a service_request_id
    Refunds,     \* rows of refunds that can be requested
    NoRefund,    \* a refund is not requested yet
    NoRef,       \* provider_reference is null
    Foreign      \* a provider_reference that MoPay does not know

RefundRow(amounts) == [payment : Payments, amount : amounts, status : {"requested", "succeeded"}]

ASSUME PaymentsAssumption ==
    /\ Amount \in [Payments -> Nat \ {0}]
    /\ PaymentOf \in [Events -> Payments]
    /\ OpenedFor \in [Sessions -> Payments]
    /\ ForOrder \subseteq Payments
    /\ ForRequest \subseteq Payments
    /\ NoRef \notin Sessions \cup {Foreign}
    /\ Foreign \notin Sessions
    /\ IsFiniteSet(Refunds)
    /\ NoRefund \notin RefundRow(Nat)

VARIABLES
    payment,   \* payments: status, provider_reference, captured_at set, refunded_amount
    session,   \* what MoPay says about a session
    hooks,     \* payment_webhook_events
    debits,    \* wallet_ledger_entries: debits of the customer, per payment
    credits,   \* credits of the assigned provider, with their provider_earnings row
    bought,    \* status of the commerce order, of payments in ForOrder
    assigned,  \* payments whose request has an accepted_provider_id
    refund,    \* refunds: payment, amount, status
    journal    \* groups of financial_journal_lines, per payment; settled if not 0

paymentsVars == <<payment, session, hooks, debits, credits, bought, assigned, refund, journal>>

PaymentStatus == {"none", "pending", "authorized", "paid", "failed", "refunded", "cancelled"}
SessionStatus == {"none", "pending", "success", "failed", "cancelled"}
BoughtStatus == {"pending_payment", "paid", "cancelled"}
Ref == Sessions \cup {Foreign}
Payment == [status : PaymentStatus, ref : Ref \cup {NoRef}, captured : BOOLEAN, refunded : Nat]

\* What initiation brings: a session MoPay opens for the payment, or another
\* provider's reference.  Authorization, capture and the webhook store the
\* reference their body names, another payment's session too.
RefsOf(p) == {x \in Sessions : OpenedFor[x] = p} \cup {Foreign}

NoPayment == [status |-> "none", ref |-> NoRef, captured |-> FALSE, refunded |-> 0]

PaymentsInit ==
    /\ payment = [p \in Payments |-> NoPayment]
    /\ session = [x \in Sessions |-> "none"]
    /\ hooks = {}
    /\ debits = [p \in Payments |-> 0]
    /\ credits = [p \in Payments |-> 0]
    /\ bought = [p \in ForOrder |-> "pending_payment"]
    /\ assigned = {}
    /\ refund = [r \in Refunds |-> NoRefund]
    /\ journal = [p \in Payments |-> 0]

-----------------------------------------------------------------------------
(* Mistakes the properties are tested against.                             *)

PostedEachTime(ledger, p) == [ledger EXCEPT ![p] = @ + 1]
EarnedUnposted(p) == [credits EXCEPT ![p] = 1]
OrderForgotten(p) == bought
CapturedUntimed(p, r) == [payment EXCEPT ![p].status = "paid", ![p].ref = r]
CompletableAgain(r) == refund[r] # NoRefund
SettlementAccepts(p) == payment[p].status \in {"paid", "pending"}

-----------------------------------------------------------------------------
(* Creation and the provider. *)

\* create_payment or create_payment_intent; a known reference changes nothing.
\* The intent's risk limits only decide whether it happens.
CreatePayment(p) ==
    /\ payment[p].status = "none"
    /\ payment' = [payment EXCEPT ![p].status = "pending"]
    /\ UNCHANGED <<session, hooks, debits, credits, bought, assigned, refund, journal>>

Payable(p) == payment[p].status \in {"pending", "authorized"}

\* initiate_provider_payment: the provider opens a session, or returns the one
\* it opened for the same idempotency key.
Initiate(p, r) ==
    /\ Payable(p)
    /\ payment' = [payment EXCEPT ![p].ref = r]
    /\ session' = IF r \in Sessions /\ session[r] = "none"
                  THEN [session EXCEPT ![r] = "pending"] ELSE session
    /\ UNCHANGED <<hooks, debits, credits, bought, assigned, refund, journal>>

\* The customer pays on MoPay's page, or does not.
SessionEnds(x, outcome) ==
    /\ session[x] = "pending"
    /\ session' = [session EXCEPT ![x] = outcome]
    /\ UNCHANGED <<payment, hooks, debits, credits, bought, assigned, refund, journal>>

Authorize(p, r) ==
    /\ payment[p].status = "pending"
    /\ payment' = [payment EXCEPT ![p].status = "authorized", ![p].ref = r]
    /\ UNCHANGED <<session, hooks, debits, credits, bought, assigned, refund, journal>>

-----------------------------------------------------------------------------
(* The three routes to paid. *)

\* capture_payment: status, reference and captured_at; no ledger.
Captured(p, r) ==
    [payment EXCEPT ![p].status = "paid", ![p].ref = r, ![p].captured = TRUE]

Capture(p, r) ==
    /\ Payable(p)
    /\ payment' = Captured(p, r)
    /\ UNCHANGED <<session, hooks, debits, credits, bought, assigned, refund, journal>>

\* The mapping of verify_mopay_payment.
Target(p) == IF session[payment[p].ref] = "success" THEN "paid" ELSE session[payment[p].ref]

\* verify_mopay_payment: the status becomes what MoPay answers, whatever it was;
\* no ledger.  A reference MoPay does not know, or has not opened, is an error.
Verify(p) ==
    /\ payment[p].ref \in Sessions
    /\ session[payment[p].ref] # "none"
    /\ payment' = [payment EXCEPT ![p].status = Target(p), ![p].captured = @ \/ Target(p) = "paid"]
    /\ UNCHANGED <<session, hooks, debits, credits, bought, assigned, refund, journal>>

\* post_entry: insert ... on conflict(account_id,reference,direction) do nothing.
Posted(ledger, p) == IF ledger[p] > 0 THEN ledger ELSE [ledger EXCEPT ![p] = @ + 1]

\* The provider assigned at that moment earns; nobody does later.
Earned(p) == IF p \in assigned THEN Posted(credits, p) ELSE credits

\* mark_order_paid, if the order still waits for its payment.
MarkedPaid(p) ==
    IF p \in ForOrder /\ bought[p] = "pending_payment" THEN [bought EXCEPT ![p] = "paid"] ELSE bought

\* payment_webhook with settle_verified_payment.  The handler looks at the
\* payment and the event's id, never at the status the event reports.
WebhookSettles(h, r) ==
    LET p == PaymentOf[h] IN
    /\ h \notin hooks /\ Payable(p)
    /\ hooks' = hooks \cup {h}
    /\ payment' = [payment EXCEPT ![p].status = "paid", ![p].ref = r]
    /\ debits' = Posted(debits, p)
    /\ credits' = Earned(p)
    /\ bought' = MarkedPaid(p)
    /\ UNCHANGED <<session, assigned, refund, journal>>

\* A paid payment is returned as it is, and the event counts as processed.
WebhookFindsPaid(h) ==
    /\ h \notin hooks /\ payment[PaymentOf[h]].status = "paid"
    /\ hooks' = hooks \cup {h}
    /\ UNCHANGED <<payment, session, debits, credits, bought, assigned, refund, journal>>

-----------------------------------------------------------------------------
(* The order and the request of a payment. *)

\* cancel_customer_order: the payment is left as it is.
CancelOrder(p) ==
    /\ payment[p].status # "none" /\ bought[p] = "pending_payment"
    /\ bought' = [bought EXCEPT ![p] = "cancelled"]
    /\ UNCHANGED <<payment, session, hooks, debits, credits, assigned, refund, journal>>

\* accept_offer on the payment's request.
OfferAccepted(p) ==
    /\ p \notin assigned
    /\ assigned' = assigned \cup {p}
    /\ UNCHANGED <<payment, session, hooks, debits, credits, bought, refund, journal>>

-----------------------------------------------------------------------------
(* Refunds and settlement. *)

\* request_refund: outstanding requests are not counted.
RequestRefund(r, p, amount) ==
    /\ refund[r] = NoRefund
    /\ payment[p].status = "paid"
    /\ amount + payment[p].refunded <= Amount[p]
    /\ refund' = [refund EXCEPT ![r] = [payment |-> p, amount |-> amount, status |-> "requested"]]
    /\ UNCHANGED <<payment, session, hooks, debits, credits, bought, assigned, journal>>

Completable(r) == refund[r] # NoRefund /\ refund[r].status = "requested"

\* complete_refund, whatever has become of the payment.
CompleteRefund(r) ==
    LET p == refund[r].payment
        total == payment[p].refunded + refund[r].amount IN
    /\ Completable(r)
    /\ refund' = [refund EXCEPT ![r].status = "succeeded"]
    /\ payment' = [payment EXCEPT ![p].refunded = total,
                                  ![p].status = IF total >= Amount[p] THEN "refunded" ELSE @]
    /\ UNCHANGED <<session, hooks, debits, credits, bought, assigned, journal>>

Unsettled(p) == journal[p] = 0

Capturable(p) == payment[p].status = "paid"

\* settle_payment: three lines and the payment_settlements row.  A line of 0 is
\* refused by the table, so that platform and provider both get something.
SettlePayment(p) ==
    /\ Capturable(p) /\ Unsettled(p)
    /\ Amount[p] > 1
    /\ journal' = [journal EXCEPT ![p] = @ + 1]
    /\ UNCHANGED <<payment, session, hooks, debits, credits, bought, assigned, refund>>

-----------------------------------------------------------------------------

PaymentsNext ==
    \/ \E p \in Payments :
        \/ CreatePayment(p) \/ Verify(p) \/ SettlePayment(p)
        \/ \E r \in RefsOf(p) : Initiate(p, r)
        \/ \E r \in Ref : Authorize(p, r) \/ Capture(p, r)
        \/ \E r \in Refunds, amount \in 1..Amount[p] : RequestRefund(r, p, amount)
    \/ \E x \in Sessions, outcome \in {"success", "failed", "cancelled"} : SessionEnds(x, outcome)
    \/ \E h \in Events :
        \/ WebhookFindsPaid(h)
        \/ \E r \in Ref : WebhookSettles(h, r)
    \/ \E p \in ForOrder : CancelOrder(p)
    \/ \E p \in ForRequest : OfferAccepted(p)
    \/ \E r \in Refunds : CompleteRefund(r)

PaymentsSpec == PaymentsInit /\ [][PaymentsNext]_paymentsVars

-----------------------------------------------------------------------------
(* What the payment engine promises. *)

PaymentsTypeOK ==
    /\ payment \in [Payments -> Payment]
    /\ session \in [Sessions -> SessionStatus]
    /\ hooks \subseteq Events
    /\ debits \in [Payments -> Nat]
    /\ credits \in [Payments -> Nat]
    /\ bought \in [ForOrder -> BoughtStatus]
    /\ assigned \subseteq ForRequest
    /\ refund \in [Refunds -> RefundRow(Nat) \cup {NoRefund}]
    /\ journal \in [Payments -> Nat]

\* A payment is posted once to the customer's account and once at most to the
\* provider's, although a status query can send a paid payment back to pending
\* and a later webhook event settles it again (the unique key of post_entry).
PostedOnce == \A p \in Payments : debits[p] <= 1 /\ credits[p] <= debits[p]

\* README_V07.md:24: a provider earns only after a verified webhook settled the
\* customer's payment, and only one who was assigned: capture, status query and
\* settlement never create an earning.
EarningNeedsWebhook ==
    \A p \in Payments :
        credits[p] > 0 =>
            p \in assigned /\ debits[p] > 0 /\ \E h \in hooks : PaymentOf[h] = p

\* A processed event has its payment in the ledger, unless capture_payment or
\* verify_mopay_payment had set the payment paid before it arrived
\* (settle_verified_payment returns early): only captured_at tells them apart.
ProcessedIsPosted ==
    \A h \in hooks : debits[PaymentOf[h]] > 0 \/ payment[PaymentOf[h]].captured

\* The order is with the merchant only if its payment is in the ledger, and no
\* posted payment leaves its order waiting for it: it is paid, or the customer
\* had cancelled before (mark_order_paid and cancel_customer_order).
OrderFollowsLedger ==
    \A p \in ForOrder :
        /\ bought[p] = "paid" => debits[p] > 0
        /\ debits[p] > 0 => bought[p] # "pending_payment"

Succeeded(p) == {r \in Refunds : refund[r] # NoRefund /\ refund[r].payment = p
                                    /\ refund[r].status = "succeeded"}

\* What each refund gave back of p.
GivenBack(p) == [r \in Refunds |-> IF r \in Succeeded(p) THEN refund[r].amount ELSE 0]

\* refunded_amount is what the refunds that succeeded add up to, a refund
\* completed twice counted once (complete_refund returns early).
RefundsAreCounted ==
    \A p \in Payments : payment[p].refunded = SumFunction(GivenBack(p))

\* The journal has one group of lines per payment, however often and in
\* whatever status between two settlements it is asked for (settle_payment).
SettledOnce == \A p \in Payments : journal[p] <= 1

\* Money is given back, and a settlement written, only for a payment that was
\* paid at some time, by the ledger or by captured_at (request_refund and
\* settle_payment look at the status, which a query may have changed since).
PaidBefore ==
    \A p \in Payments :
        payment[p].refunded > 0 \/ journal[p] > 0 => debits[p] > 0 \/ payment[p].captured

\* financial.py:82, "refund exceeds remaining payment": never more is given back
\* than was paid.
RefundsWithinPayment == \A p \in Payments : payment[p].refunded <= Amount[p]
=============================================================================
