---------------------------- MODULE RequestDispatch ----------------------------
(***************************************************************************)
(* One service request and its offers (app/services/execution.py,          *)
(* dispatch.py, provider_os.py, agent_execution.py and the routes that     *)
(* call them), with the row locks PostgreSQL takes for them.               *)
(*                                                                         *)
(* Accepting an offer and reassigning a request take several locks one     *)
(* after the other, a dispatch reads the request before it offers it; each *)
(* is a session that stops between its statements.  A transaction that is  *)
(* one statement, or that takes all its locks in its first one, is a step. *)
(* Requests share nothing but the expiry sweep, which treats each alone.   *)
(* The request of a delivery job, which delivery.py also writes, is not    *)
(* one of these.                                                           *)
(***************************************************************************)
EXTENDS Naturals, FiniteSets

CONSTANTS
    Providers,           \* providers of the category within the radius
    Sessions,            \* database sessions of the API and the WhatsApp worker
    LeaseOwners,         \* the sessions whose caller takes dispatch leases
    Limit,               \* offers per wave (limit of create_offers, wave_size)
    TransitionAccepted,  \* does PostgreSQL accept the update of transition_request?
    Request,             \* the lock of the service_requests row
    Nobody,              \* a lock or a lease is free
    NoProvider           \* accepted_provider_id is null

ASSUME DispatchAssumption ==
    /\ Limit \in Nat \ {0}
    /\ LeaseOwners \subseteq Sessions
    /\ TransitionAccepted \in BOOLEAN
    /\ Request \notin Providers
    /\ Nobody \notin Sessions
    /\ NoProvider \notin Providers

VARIABLES
    status,      \* service_requests.status
    acceptedBy,  \* service_requests.accepted_provider_id
    offer,       \* service_offers: status and expires_at<=now(), per provider
    tx,          \* per session: the next statement, the offer it is about, its expired rows
    held,        \* the session that has the row locked
    lease,       \* owner of the row of dispatch_locks
    leaseOver    \* lease_until<=now()

vars == <<status, acceptedBy, offer, tx, held, lease, leaseOver>>
request == <<status, acceptedBy>>
leases == <<lease, leaseOver>>

Locks == Providers \cup {Request}
Open == {"searching", "offered"}
RequestStatus == Open \cup {"accepted", "in_progress", "completed", "cancelled"}
OfferStatus == {"none", "pending", "accepted", "rejected", "expired"}
At == {"idle", "accept_offer", "accept_request", "accept_others",
       "create_offers", "dispatch_wave", "reassign_expire", "reassign_request"}

NoOffer == [status |-> "none", lapsed |-> FALSE]
Offered == [status |-> "pending", lapsed |-> FALSE]
Idle == [at |-> "idle", p |-> NoProvider, mine |-> {}]

Pending == {p \in Providers : offer[p].status = "pending"}
Lapsed == {p \in Pending : offer[p].lapsed}

\* _execute_service_request inserts the request and its first offers in one
\* transaction, offered even when nobody was near.
Init ==
    /\ \E S \in SUBSET Providers :
        /\ Cardinality(S) <= Limit
        /\ offer = [p \in Providers |-> IF p \in S THEN Offered ELSE NoOffer]
    /\ status = "offered"
    /\ acceptedBy = NoProvider
    /\ tx = [s \in Sessions |-> Idle]
    /\ held = [x \in Locks |-> Nobody]
    /\ lease = Nobody
    /\ leaseOver = FALSE

-----------------------------------------------------------------------------
(* Mistakes the properties are tested against.                             *)

AvailableWhenTaken(s) == status # "cancelled"
OfferedToAnybody(S) == [p \in Providers |-> IF p \in S THEN Offered ELSE offer[p]]
WantsRequestUnlocked(s) ==
    {x \in Locks :
        \/ tx[s].at = "accept_offer" /\ x = tx[s].p
        \/ tx[s].at = "accept_others" /\ x \in Pending
        \/ tx[s].at = "reassign_expire" /\ x \in Lapsed
        \/ tx[s].at \in {"create_offers", "dispatch_wave", "reassign_request"} /\ x = Request}

-----------------------------------------------------------------------------
(* Row locks. *)

\* The rows the next statement of a session locks, all at once or none.
\* create_offers and dispatch_wave lock the request through the foreign key of
\* the new offers.
Wants(s) ==
    {x \in Locks :
        \/ tx[s].at = "accept_offer" /\ x = tx[s].p
        \/ tx[s].at \in {"accept_request", "create_offers", "dispatch_wave", "reassign_request"}
              /\ x = Request
        \/ tx[s].at = "accept_others" /\ x \in Pending
        \/ tx[s].at = "reassign_expire" /\ x \in Lapsed}

Blocks(t, s) == t # s /\ \E x \in Wants(s) : held[x] = t

Runs(s, at) == tx[s].at = at /\ \A t \in Sessions : ~Blocks(t, s)

Locked(s) == [x \in Locks |-> IF x \in Wants(s) THEN s ELSE held[x]]

Unlocked(s) == [x \in Locks |-> IF held[x] = s THEN Nobody ELSE held[x]]

\* Commit and rollback: what the caller does with the rows is its own conjunct.
Ends(s) == tx' = [tx EXCEPT ![s] = Idle] /\ held' = Unlocked(s)

Goes(s, at) == tx' = [tx EXCEPT ![s].at = at] /\ held' = Locked(s)

Unlockable(x) == held[x] = Nobody

\* A set of sessions that all wait for one another, and none for no reason.
Deadlocked(D) ==
    LET Waits(E) == E # {} /\ \A s \in E : \E t \in E : Blocks(t, s)
    IN  Waits(D) /\ \A E \in SUBSET D : Waits(E) => E = D

\* PostgreSQL breaks a deadlock by aborting one of its sessions.
AbortVictim(s) ==
    /\ \E D \in SUBSET Sessions : s \in D /\ Deadlocked(D)
    /\ Ends(s)
    /\ UNCHANGED <<request, offer, leases>>

-----------------------------------------------------------------------------
(* accept_offer, from the API or from the WhatsApp router. *)

Begin(s, at, p) ==
    /\ tx[s] = Idle
    /\ tx' = [tx EXCEPT ![s] = [at |-> at, p |-> p, mine |-> {}]]
    /\ UNCHANGED <<request, offer, held, leases>>

BeginAccept(s, p) == offer[p].status # "none" /\ Begin(s, "accept_offer", p)

StillPending(p) == offer[p].status = "pending"

AcceptLocksOffer(s) ==
    /\ Runs(s, "accept_offer")
    /\ StillPending(tx[s].p) /\ ~offer[tx[s].p].lapsed
    /\ Goes(s, "accept_request")
    /\ UNCHANGED <<request, offer, leases>>

AcceptIsLate(s) ==
    /\ Runs(s, "accept_offer")
    /\ ~StillPending(tx[s].p)
    /\ Ends(s)
    /\ UNCHANGED <<request, offer, leases>>

\* The row is set to expired and a ValueError raised: the routes roll back,
\* the WhatsApp router answers with the error and its worker commits.
AcceptIsLapsed(s) ==
    /\ Runs(s, "accept_offer")
    /\ StillPending(tx[s].p) /\ offer[tx[s].p].lapsed
    /\ offer' \in {offer, [offer EXCEPT ![tx[s].p].status = "expired"]}
    /\ Ends(s)
    /\ UNCHANGED <<request, leases>>

Available(s) == status \in Open

AcceptLocksRequest(s) ==
    /\ Runs(s, "accept_request")
    /\ Available(s)
    /\ Goes(s, "accept_others")
    /\ UNCHANGED <<request, offer, leases>>

AcceptIsRefused(s) ==
    /\ Runs(s, "accept_request")
    /\ ~Available(s)
    /\ Ends(s)
    /\ UNCHANGED <<request, offer, leases>>

\* The winner's offer accepted, every other pending one rejected.
Closed(p) ==
    [q \in Providers |->
        IF q = p THEN [offer[q] EXCEPT !.status = "accepted"]
        ELSE IF q \in Pending THEN [offer[q] EXCEPT !.status = "rejected"] ELSE offer[q]]

AcceptCommits(s) ==
    /\ Runs(s, "accept_others")
    /\ offer' = Closed(tx[s].p)
    /\ status' = "accepted"
    /\ acceptedBy' = tx[s].p
    /\ Ends(s)
    /\ UNCHANGED leases

-----------------------------------------------------------------------------
(* Dispatch. *)

\* insert ... on conflict(service_request_id,provider_id) do nothing.
OfferedTo(S) ==
    [p \in Providers |-> IF p \in S /\ offer[p].status = "none" THEN Offered ELSE offer[p]]

\* The candidates of one call, and those of them that had no offer yet.
Candidates(S) == Cardinality(S) <= Limit

NewOf(S) == {p \in S : offer[p].status = "none"}

\* The routes read the status without a lock, and offer in a later statement.
BeginDispatch(s, at) == status \in Open /\ Begin(s, at, NoProvider)

\* create_offers: a searching request is offered, whether anybody was found or not.
CreateOffers(s, S) ==
    /\ Runs(s, "create_offers")
    /\ Candidates(S)
    /\ offer' = OfferedTo(S)
    /\ status' = IF status = "searching" THEN "offered" ELSE status
    /\ Ends(s)
    /\ UNCHANGED <<acceptedBy, leases>>

\* dispatch_wave: offered only if somebody new was found.
AfterWave(new) == IF new # {} /\ status \in Open THEN "offered" ELSE status

DispatchWave(s, S) ==
    /\ Runs(s, "dispatch_wave")
    /\ Candidates(S)
    /\ offer' = OfferedTo(S)
    /\ status' = AfterWave(NewOf(S))
    /\ Ends(s)
    /\ UNCHANGED <<acceptedBy, leases>>

BeginReassign(s) == Begin(s, "reassign_expire", NoProvider)

\* expire_offers for this request; the rows stay locked, the update unseen.
ReassignExpires(s) ==
    /\ Runs(s, "reassign_expire")
    /\ tx' = [tx EXCEPT ![s].at = "reassign_request", ![s].mine = Lapsed]
    /\ held' = Locked(s)
    /\ UNCHANGED <<request, offer, leases>>

\* Somebody can still answer: now() is the start of the transaction.
Alive(s) == Pending \ tx[s].mine # {}

Expired(S) == [p \in Providers |-> IF p \in S THEN [offer[p] EXCEPT !.status = "expired"] ELSE offer[p]]

Reassignable == status = "offered"

ReassignKeeps(s) ==
    /\ Runs(s, "reassign_request")
    /\ ~Reassignable \/ Alive(s)
    /\ offer' = Expired(tx[s].mine)
    /\ Ends(s)
    /\ UNCHANGED <<request, leases>>

\* The request is searching again, and the new wave may find nobody.
ReassignOffers(s, S) ==
    /\ Runs(s, "reassign_request")
    /\ Reassignable /\ ~Alive(s)
    /\ Candidates(S)
    /\ offer' = [p \in Providers |-> IF p \in tx[s].mine THEN Expired(tx[s].mine)[p] ELSE OfferedTo(S)[p]]
    /\ status' = IF NewOf(S) # {} THEN "offered" ELSE "searching"
    /\ Ends(s)
    /\ UNCHANGED <<acceptedBy, leases>>

-----------------------------------------------------------------------------
(* Transactions that are one step. *)

\* expire_offers for every request.
ExpireOffers ==
    /\ \A p \in Lapsed : Unlockable(p)
    /\ offer' = Expired(Lapsed)
    /\ UNCHANGED <<request, tx, held, leases>>

ProviderReject(p) ==
    /\ Unlockable(p) /\ p \in Pending
    /\ offer' = [offer EXCEPT ![p].status = "rejected"]
    /\ UNCHANGED <<request, tx, held, leases>>

\* The table of transition_request.
MayFollow(new) ==
    \/ status = "accepted" /\ new \in {"in_progress", "cancelled"}
    \/ status = "in_progress" /\ new \in {"completed", "cancelled"}
    \/ status \in Open /\ new = "cancelled"

\* transition_request, from the routes or through provider_transition; without
\* an assigned provider only the customer gets past the route, to cancel.
Transition(new) ==
    /\ Unlockable(Request)
    /\ TransitionAccepted /\ MayFollow(new)
    /\ status' = new
    /\ UNCHANGED <<acceptedBy, offer, tx, held, leases>>

\* agent_execution._cancel_request: the offers stay as they are.
CancelRequest ==
    /\ Unlockable(Request)
    /\ status \in Open \cup {"accepted", "in_progress"}
    /\ status' = "cancelled"
    /\ UNCHANGED <<acceptedBy, offer, tx, held, leases>>

\* expires_at passes, whoever has the row locked.
OfferLapses(p) ==
    /\ p \in Pending /\ ~offer[p].lapsed
    /\ offer' = [offer EXCEPT ![p].lapsed = TRUE]
    /\ UNCHANGED <<request, tx, held, leases>>

\* acquire_dispatch_lease, release_dispatch_lease and lease_until.
AcquireLease(s) ==
    /\ s \in LeaseOwners
    /\ lease \in {Nobody, s} \/ leaseOver
    /\ lease' = s /\ leaseOver' = FALSE
    /\ UNCHANGED <<request, offer, tx, held>>

ReleaseLease(s) ==
    /\ lease = s
    /\ lease' = Nobody /\ leaseOver' = FALSE
    /\ UNCHANGED <<request, offer, tx, held>>

LeaseLapses ==
    /\ lease # Nobody /\ ~leaseOver
    /\ leaseOver' = TRUE
    /\ UNCHANGED <<request, offer, tx, held, lease>>

-----------------------------------------------------------------------------

Accept(s) ==
    \/ AcceptLocksOffer(s) \/ AcceptIsLate(s) \/ AcceptIsLapsed(s)
    \/ AcceptLocksRequest(s) \/ AcceptIsRefused(s) \/ AcceptCommits(s)

Dispatch(s) == \E S \in SUBSET Providers : CreateOffers(s, S) \/ DispatchWave(s, S)

Reassign(s) ==
    ReassignExpires(s) \/ ReassignKeeps(s) \/ \E S \in SUBSET Providers : ReassignOffers(s, S)

Begins(s) ==
    \/ \E p \in Providers : BeginAccept(s, p)
    \/ BeginDispatch(s, "create_offers") \/ BeginDispatch(s, "dispatch_wave")
    \/ BeginReassign(s)

Next ==
    \/ \E s \in Sessions :
        \/ Begins(s) \/ Accept(s) \/ Dispatch(s) \/ Reassign(s) \/ AbortVictim(s)
        \/ AcquireLease(s) \/ ReleaseLease(s)
    \/ \E p \in Providers : ProviderReject(p) \/ OfferLapses(p)
    \/ \E new \in RequestStatus : Transition(new)
    \/ ExpireOffers \/ CancelRequest \/ LeaseLapses

Spec == Init /\ [][Next]_vars

-----------------------------------------------------------------------------
(* What dispatch promises. *)

TypeOK ==
    /\ status \in RequestStatus
    /\ acceptedBy \in Providers \cup {NoProvider}
    /\ offer \in [Providers -> [status : OfferStatus, lapsed : BOOLEAN]]
    /\ tx \in [Sessions -> [at : At, p : Providers \cup {NoProvider}, mine : SUBSET Providers]]
    /\ held \in [Locks -> Sessions \cup {Nobody}]
    /\ lease \in Sessions \cup {Nobody}
    /\ leaseOver \in BOOLEAN

\* The accepted offer, the assigned provider and the status of the request tell
\* one story: at most one provider has the job, also when two accept at once
\* or a wave goes out meanwhile (accept_offer, dispatch_wave).
TakenByOne ==
    /\ \A p \in Providers : offer[p].status = "accepted" <=> acceptedBy = p
    /\ acceptedBy # NoProvider => status \notin Open
    /\ status \in {"accepted", "in_progress", "completed"} => acceptedBy # NoProvider

\* An answered offer is never answered again, offered again or expired, although
\* accept_offer writes without looking at the status a second time.
OfferIsFinal ==
    [][\A p \in Providers :
          offer[p].status \in {"accepted", "rejected", "expired"}
              => offer'[p].status = offer[p].status]_vars

\* No stale read of the status sends a taken or cancelled request back.
NeverReopened == [][status \notin Open => status' \notin Open]_vars

\* Sessions wait for one another only in pairs, and always over the request: one
\* is an accept that holds it and asks for the other offers, the other one has
\* an offer and asks for the request.  So accepts of one request, sweeps and
\* waves never wait in a longer ring (accept_offer, reassign_if_needed).
DeadlockIsOverRequest ==
    \A D \in SUBSET Sessions :
        Deadlocked(D) =>
            \E s, t \in D :
                /\ D = {s, t}
                /\ tx[s].at = "accept_others" /\ held[Request] = s
                /\ tx[t].at \in {"accept_request", "reassign_request"}

-----------------------------------------------------------------------------
(* The abstract assignment this one implements. *)

OneJob == INSTANCE Assignment WITH open <- status \in Open, winner <- acceptedBy

\* However sessions overlap, time out and are aborted, the request is taken by one
\* provider who was offered it, or cancelled, and then stays so (accept_offer,
\* reassign_if_needed, transition_request).
ImplementsAssignment == OneJob!Spec
=============================================================================
