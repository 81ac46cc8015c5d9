---------------------------- MODULE WhatsAppOutbox ----------------------------
(***************************************************************************)
(* The WhatsApp outbox: rows of outbox_messages, the two worker programs   *)
(* that send them (app/services/whatsapp_outbox_worker.py and the older    *)
(* outbox_worker.py, which claim from one table), the transport they call, *)
(* and the delivery receipts the operator posts back.                      *)
(*                                                                         *)
(* A claim is committed before the first send and has no lease.  The call  *)
(* to the transport and the transaction that records its answer are two    *)
(* steps; whatever raises in between sends the row to a later attempt.     *)
(***************************************************************************)
EXTENDS Naturals, FiniteSets

CONSTANTS
    Messages,    \* rows that producers can enqueue, one per idempotency key
    Workers,     \* processes running deliver_once in a loop
    Legacy,      \* the workers that run outbox_worker.py
    MaxSends,    \* the 5 of `attempts>=5`
    BatchLimit,  \* the limit of claim_messages
    Flaky,       \* messages whose sends and marks may fail
    Reported,    \* receipt statuses the transport reports
    MaxCrashes,  \* bound: worker crashes in one behaviour
    NoMessage,   \* a worker is not in the middle of a message
    NoId         \* provider_message_id is null

ASSUME OutboxAssumption ==
    /\ MaxSends \in Nat \ {0}
    /\ BatchLimit \in Nat \ {0}
    /\ MaxCrashes \in Nat
    /\ Legacy \subseteq Workers
    /\ Flaky \subseteq Messages
    /\ {"pending"} \cap Reported = {}
    /\ NoMessage \notin Messages
    /\ NoId \notin Nat

VARIABLES
    outbox,   \* outbox_messages: status, attempts, due, provider id, receipt_status
    ledger,   \* whatsapp_delivery_receipts: <<message, provider id, status>>
    sends,    \* times WhatsApp took the message; the n-th has provider id n
    batch,    \* rows a worker has claimed and not begun
    current,  \* the row a worker is in the middle of
    phase,    \* where the worker is in the loop of deliver_once
    crashes   \* worker crashes so far

vars == <<outbox, ledger, sends, batch, current, phase, crashes>>

Status == {"absent", "pending", "processing", "sent", "failed"}
Row == [status : Status, attempts : Nat, due : BOOLEAN,
        pid : Nat \cup {NoId}, receipt : {"pending", "sent"} \cup Reported]
Phase == {"ready", "accepted", "failing"}

NoRow == [status |-> "absent", attempts |-> 0, due |-> FALSE,
          pid |-> NoId, receipt |-> "pending"]

Init ==
    /\ outbox = [m \in Messages |-> NoRow]
    /\ ledger = {}
    /\ sends = [m \in Messages |-> 0]
    /\ batch = [w \in Workers |-> {}]
    /\ current = [w \in Workers |-> NoMessage]
    /\ phase = [w \in Workers |-> "ready"]
    /\ crashes = 0

-----------------------------------------------------------------------------
(* Mistakes the properties are tested against.                             *)

ClaimableWhileProcessing(row) == row.status \in {"pending", "processing"} /\ row.due
ClaimableOnce(row) == row.status = "pending" /\ row.due /\ row.attempts = 0
MarkedRetryLate(row) ==
    [row EXCEPT !.status = IF row.attempts > MaxSends THEN "failed" ELSE "pending", !.due = FALSE]
MarkedRetryAsLost(row) == [row EXCEPT !.due = FALSE]
MatchedByMessage(m, n) == outbox[m].status # "absent"

-----------------------------------------------------------------------------
(* The row updates. *)

Claimable(row) == row.status = "pending" /\ row.due

\* claim_messages
Claimed(row) == [row EXCEPT !.status = "processing", !.attempts = @ + 1]

\* The exception branch of both workers.
MarkedRetry(row) ==
    [row EXCEPT !.status = IF row.attempts >= MaxSends THEN "failed" ELSE "pending", !.due = FALSE]

\* whatsapp_outbox_worker records the provider's id, outbox_worker does not.
MarkedSent(row, n) == [row EXCEPT !.status = "sent", !.pid = n, !.receipt = "sent"]
MarkedSentLegacy(row) == [row EXCEPT !.status = "sent"]

-----------------------------------------------------------------------------
(* Producers and time. *)

\* enqueue_channel: insert ... on conflict do nothing.
Enqueue(m) ==
    /\ outbox[m].status = "absent"
    /\ outbox' = [outbox EXCEPT ![m].status = "pending", ![m].due = TRUE]
    /\ UNCHANGED <<ledger, sends, batch, current, phase, crashes>>

BackoffEnds(m) ==
    /\ outbox[m].status = "pending"
    /\ ~outbox[m].due
    /\ outbox' = [outbox EXCEPT ![m].due = TRUE]
    /\ UNCHANGED <<ledger, sends, batch, current, phase, crashes>>

-----------------------------------------------------------------------------
(* The workers: deliver_once. *)

ClaimMessages(w, S) ==
    /\ phase[w] = "ready" /\ batch[w] = {}
    /\ S \subseteq {m \in Messages : Claimable(outbox[m])}
    /\ S # {} /\ Cardinality(S) <= BatchLimit
    /\ outbox' = [m \in Messages |-> IF m \in S THEN Claimed(outbox[m]) ELSE outbox[m]]
    /\ batch' = [batch EXCEPT ![w] = S]
    /\ UNCHANGED <<ledger, sends, current, phase, crashes>>

Claim(w) == \E S \in SUBSET Messages : ClaimMessages(w, S)

\* transport.send_*: an HTTP call with a timeout.  WhatsApp takes the message
\* or not, and the worker learns that it did or gets an exception.
Send(w, m, taken, answered) ==
    /\ phase[w] = "ready" /\ m \in batch[w]
    /\ answered => taken
    /\ ~answered => m \in Flaky
    /\ sends' = [sends EXCEPT ![m] = IF taken THEN @ + 1 ELSE @]
    /\ batch' = [batch EXCEPT ![w] = @ \ {m}]
    /\ current' = [current EXCEPT ![w] = m]
    /\ phase' = [phase EXCEPT ![w] = IF answered THEN "accepted" ELSE "failing"]
    /\ UNCHANGED <<outbox, ledger, crashes>>

Done(w) ==
    /\ current' = [current EXCEPT ![w] = NoMessage]
    /\ phase' = [phase EXCEPT ![w] = "ready"]

\* Row, receipt_status and the ledger's first receipt in one transaction.
MarkSent(w) ==
    LET m == current[w] IN
    /\ phase[w] = "accepted" /\ w \notin Legacy
    /\ outbox' = [outbox EXCEPT ![m] = MarkedSent(@, sends[m])]
    /\ ledger' = ledger \cup {<<m, sends[m], "sent">>}
    /\ Done(w)
    /\ UNCHANGED <<sends, batch, crashes>>

MarkSentLegacy(w) ==
    /\ phase[w] = "accepted" /\ w \in Legacy
    /\ outbox' = [outbox EXCEPT ![current[w]] = MarkedSentLegacy(@)]
    /\ Done(w)
    /\ UNCHANGED <<ledger, sends, batch, crashes>>

\* The transaction after the send raises: the row goes back as if not sent.
MarkFails(w) ==
    /\ phase[w] = "accepted" /\ current[w] \in Flaky
    /\ phase' = [phase EXCEPT ![w] = "failing"]
    /\ UNCHANGED <<outbox, ledger, sends, batch, current, crashes>>

MarkRetry(w) ==
    /\ phase[w] = "failing"
    /\ outbox' = [outbox EXCEPT ![current[w]] = MarkedRetry(@)]
    /\ Done(w)
    /\ UNCHANGED <<ledger, sends, batch, crashes>>

\* The process dies, or the update of the exception branch raises; nothing
\* sweeps the rows it had claimed.
Crash(w) ==
    /\ crashes < MaxCrashes
    /\ batch[w] # {} \/ current[w] # NoMessage
    /\ crashes' = crashes + 1
    /\ batch' = [batch EXCEPT ![w] = {}]
    /\ Done(w)
    /\ UNCHANGED <<outbox, ledger, sends>>

-----------------------------------------------------------------------------
(* Receipts. *)

\* The row receive_baileys_receipt finds by provider_message_id.
Matched(m, n) == outbox[m].pid = n

\* The operator reports status s of the n-th send: late, again, out of order,
\* or never.  A receipt without a row is acknowledged and forgotten.
ReceiveReceipt(m, n, s) ==
    /\ n \in 1..sends[m]
    /\ IF Matched(m, n)
       THEN /\ ledger' = ledger \cup {<<m, n, s>>}
            /\ outbox' = [outbox EXCEPT ![m].receipt = s]
       ELSE UNCHANGED <<outbox, ledger>>
    /\ UNCHANGED <<sends, batch, current, phase, crashes>>

-----------------------------------------------------------------------------

Work(w) ==
    \/ \E m \in batch[w], taken, answered \in BOOLEAN : Send(w, m, taken, answered)
    \/ MarkSent(w) \/ MarkSentLegacy(w) \/ MarkFails(w) \/ MarkRetry(w)

Next ==
    \/ \E m \in Messages : Enqueue(m) \/ BackoffEnds(m)
    \/ \E w \in Workers : Claim(w) \/ Work(w) \/ Crash(w)
    \/ \E m \in Messages, n \in 1..MaxSends, s \in Reported : ReceiveReceipt(m, n, s)

Spec == Init /\ [][Next]_vars

\* run_forever never stops, a claimed batch is worked off, backoffs end, and
\* `order by created_at` lets no due row be passed over for ever.
Fairness ==
    /\ \A w \in Workers : WF_vars(Work(w))
    /\ \A m \in Messages :
        /\ WF_vars(BackoffEnds(m))
        /\ SF_vars(\E w \in Workers, S \in SUBSET Messages : m \in S /\ ClaimMessages(w, S))

FairSpec == Spec /\ Fairness

-----------------------------------------------------------------------------
(* What the outbox promises. *)

TypeOK ==
    /\ outbox \in [Messages -> Row]
    /\ ledger \subseteq Messages \X Nat \X ({"sent"} \cup Reported)
    /\ sends \in [Messages -> Nat]
    /\ batch \in [Workers -> SUBSET Messages]
    /\ current \in [Workers -> Messages \cup {NoMessage}]
    /\ phase \in [Workers -> Phase]
    /\ crashes \in 0..MaxCrashes

\* The rows a worker has claimed and not given back.
Holds(w) == batch[w] \cup ({current[w]} \ {NoMessage})

\* A row marked sent was taken by WhatsApp at least once (deliver_once marks
\* only after the transport has answered).
SentWasTaken == \A m \in Messages : outbox[m].status = "sent" => sends[m] > 0

\* A message reaches the phone at most once per counted attempt, and no more
\* than MaxSends times, whatever fails after a send and whichever program
\* retries it (`attempts>=5` in both exception branches).
SendsAreBounded ==
    \A m \in Messages : sends[m] <= outbox[m].attempts /\ outbox[m].attempts <= MaxSends

\* A row in a worker's hands is in processing and in nobody else's: the two
\* programs never send one row side by side (for update skip locked).
ClaimsAreExclusive ==
    \A w \in Workers : \A m \in Holds(w) :
        /\ outbox[m].status = "processing"
        /\ \A v \in Workers \ {w} : m \notin Holds(v)

\* A row stays in processing without a worker only because a process died.
StrandedOnlyByCrash ==
    \A m \in Messages :
        outbox[m].status = "processing" => crashes > 0 \/ \E w \in Workers : m \in Holds(w)

\* A receipt a row shows is in the ledger for the send whose id the row holds,
\* and only a sent row shows one: a receipt of an earlier, failed attempt is
\* never taken for the last one's (receive_baileys_receipt matches by id).
ReceiptIsOfThisSend ==
    \A m \in Messages :
        outbox[m].receipt # "pending" =>
            /\ outbox[m].status = "sent" /\ outbox[m].pid = sends[m]
            /\ <<m, outbox[m].pid, outbox[m].receipt>> \in ledger

\* Sent and failed are final, whatever the other worker still has in hand.
DecidedIsFinal ==
    [][\A m \in Messages :
          outbox[m].status \in {"sent", "failed"} => outbox'[m].status = outbox[m].status]_vars

Decided(m) == outbox[m].status \in {"sent", "failed"}

\* Unless a worker dies, every enqueued message is sent or given up.
DecidedUnlessCrash ==
    \A m \in Messages : outbox[m].status # "absent" ~> (Decided(m) \/ crashes > 0)
=============================================================================
