-------------------------- MODULE RequestDispatchProofs --------------------------
(***************************************************************************)
(* Proofs about RequestDispatch, for any providers and sessions.           *)
(***************************************************************************)
EXTENDS RequestDispatch, TLAPS

-----------------------------------------------------------------------------
(* Types. *)

OfferRow == [status : OfferStatus, lapsed : BOOLEAN]
Transaction == [at : At, p : Providers \cup {NoProvider}, mine : SUBSET Providers]

\* Updates of one offer that leave it an offer.
LEMMA OfferUpdates ==
    ASSUME NEW row \in OfferRow
    PROVE  /\ \A new \in OfferStatus : [row EXCEPT !.status = new] \in OfferRow
           /\ [row EXCEPT !.lapsed = TRUE] \in OfferRow
  BY DEF OfferRow

\* The operators on all offers of the request keep them well typed.
LEMMA OfferOperators ==
    ASSUME TypeOK
    PROVE  /\ \A p : Closed(p) \in [Providers -> OfferRow]
           /\ \A S \in SUBSET Providers : OfferedTo(S) \in [Providers -> OfferRow]
           /\ \A S \in SUBSET Providers : Expired(S) \in [Providers -> OfferRow]
<1>1. \A q \in Providers : offer[q] \in OfferRow
  BY DEF TypeOK, OfferRow
<1>2. Offered \in OfferRow
  BY DEF Offered, OfferRow, OfferStatus
<1>3. \A q \in Providers : /\ [offer[q] EXCEPT !.status = "accepted"] \in OfferRow
                           /\ [offer[q] EXCEPT !.status = "rejected"] \in OfferRow
                           /\ [offer[q] EXCEPT !.status = "expired"] \in OfferRow
  BY <1>1, OfferUpdates DEF OfferStatus
<1> QED
  BY <1>1, <1>2, <1>3 DEF Closed, OfferedTo, Expired

\* Locking and unlocking rows leaves every lock with a session or nobody.
LEMMA LockOperators ==
    ASSUME TypeOK, NEW s \in Sessions
    PROVE  Locked(s) \in [Locks -> Sessions \cup {Nobody}]
           /\ Unlocked(s) \in [Locks -> Sessions \cup {Nobody}]
  BY DEF TypeOK, Locked, Unlocked

\* A session that ends or goes on keeps tx and held well typed.
LEMMA SessionSteps ==
    ASSUME TypeOK, NEW s \in Sessions
    PROVE  /\ Ends(s) => tx' \in [Sessions -> Transaction] /\ held' \in [Locks -> Sessions \cup {Nobody}]
           /\ \A at \in At : Goes(s, at) =>
                tx' \in [Sessions -> Transaction] /\ held' \in [Locks -> Sessions \cup {Nobody}]
<1>1. Idle \in Transaction
  BY DEF Idle, Transaction, At
<1>2. \A at \in At : [tx[s] EXCEPT !.at = at] \in Transaction
  BY DEF TypeOK, Transaction
<1> QED
  BY <1>1, <1>2, LockOperators DEF Ends, Goes, TypeOK, Transaction

\* The type invariant holds in every reachable state.
THEOREM TypeCorrect == Spec => []TypeOK
<1>1. Init => TypeOK
  <2> HAVE Init
  <2>1. offer \in [Providers -> OfferRow]
    <3> PICK S \in SUBSET Providers :
              offer = [p \in Providers |-> IF p \in S THEN Offered ELSE NoOffer]
      BY DEF Init
    <3> QED
      BY DEF OfferRow, OfferStatus, Offered, NoOffer
  <2>2. tx \in [Sessions -> Transaction]
    BY DEF Init, Idle, Transaction, At
  <2> QED
    BY <2>1, <2>2 DEF Init, TypeOK, RequestStatus, Open, OfferRow, Transaction
<1>2. TypeOK /\ [Next]_vars => TypeOK'
  <2> SUFFICES ASSUME TypeOK, [Next]_vars
               PROVE  TypeOK'
    OBVIOUS
  <2> USE DEF TypeOK
  <2>1. ASSUME NEW s \in Sessions, Begins(s)
        PROVE  TypeOK'
    <3>1. ASSUME NEW at \in At, NEW p \in Providers \cup {NoProvider}, Begin(s, at, p)
          PROVE  TypeOK'
      <4>1. [at |-> at, p |-> p, mine |-> {}] \in Transaction
        BY DEF Transaction
      <4> QED
        BY <3>1, <4>1 DEF Begin, request, leases, Transaction
    <3> QED
      BY <2>1, <3>1 DEF Begins, BeginAccept, BeginDispatch, BeginReassign, At
  <2>2. ASSUME NEW s \in Sessions, Accept(s)
        PROVE  TypeOK'
    <3> USE DEF request, leases, At, Transaction, OfferRow
    <3>1. CASE AcceptLocksOffer(s) \/ AcceptLocksRequest(s)
      BY <3>1, SessionSteps DEF AcceptLocksOffer, AcceptLocksRequest
    <3>2. CASE AcceptIsLate(s) \/ AcceptIsRefused(s)
      BY <3>2, SessionSteps DEF AcceptIsLate, AcceptIsRefused
    <3>3. CASE AcceptIsLapsed(s)
      <4>1. offer' \in [Providers -> OfferRow]
        BY <3>3 DEF AcceptIsLapsed, OfferStatus
      <4> QED
        BY <3>3, <4>1, SessionSteps DEF AcceptIsLapsed
    <3>4. CASE AcceptCommits(s)
      <4>1. acceptedBy' \in Providers \cup {NoProvider}
        BY <3>4 DEF AcceptCommits
      <4>2. offer' \in [Providers -> OfferRow]
        BY <3>4, OfferOperators DEF AcceptCommits
      <4> QED
        BY <3>4, <4>1, <4>2, SessionSteps DEF AcceptCommits, RequestStatus
    <3> QED
      BY <2>2, <3>1, <3>2, <3>3, <3>4 DEF Accept
  <2>3. ASSUME NEW s \in Sessions, NEW S \in SUBSET Providers, CreateOffers(s, S) \/ DispatchWave(s, S)
        PROVE  TypeOK'
    BY <2>3, OfferOperators, SessionSteps
       DEF CreateOffers, DispatchWave, AfterWave, RequestStatus, Open, leases, Transaction, OfferRow
  <2>4. ASSUME NEW s \in Sessions, ReassignExpires(s)
        PROVE  TypeOK'
    <3>1. [tx[s] EXCEPT !.at = "reassign_request", !.mine = Lapsed] \in Transaction
      BY DEF Transaction, At, Lapsed, Pending
    <3>2. tx' = [tx EXCEPT ![s] = [tx[s] EXCEPT !.at = "reassign_request", !.mine = Lapsed]]
      BY <2>4, Zenon DEF ReassignExpires
    <3> QED
      BY <2>4, <3>1, <3>2, LockOperators DEF ReassignExpires, request, leases, Transaction
  <2>5. ASSUME NEW s \in Sessions, ReassignKeeps(s)
        PROVE  TypeOK'
    BY <2>5, OfferOperators, SessionSteps DEF ReassignKeeps, request, leases, Transaction, OfferRow
  <2>6. ASSUME NEW s \in Sessions, NEW S \in SUBSET Providers, ReassignOffers(s, S)
        PROVE  TypeOK'
    <3>1. tx[s].mine \in SUBSET Providers
      OBVIOUS
    <3>2. offer' \in [Providers -> OfferRow]
      BY <2>6, <3>1, OfferOperators DEF ReassignOffers
    <3> QED
      BY <2>6, <3>2, SessionSteps DEF ReassignOffers, RequestStatus, Open, leases, Transaction, OfferRow
  <2>7. ASSUME NEW s \in Sessions, AbortVictim(s) \/ AcquireLease(s) \/ ReleaseLease(s)
        PROVE  TypeOK'
    BY <2>7, SessionSteps DEF AbortVictim, AcquireLease, ReleaseLease, request, leases, Transaction
  <2>8. ASSUME NEW p \in Providers, ProviderReject(p) \/ OfferLapses(p)
        PROVE  TypeOK'
    BY <2>8 DEF ProviderReject, OfferLapses, OfferStatus, request, leases
  <2>9. ASSUME NEW new \in RequestStatus, Transition(new)
        PROVE  TypeOK'
    BY <2>9 DEF Transition, leases
  <2>10. CASE ExpireOffers
    <3>1. Lapsed \in SUBSET Providers
      BY DEF Lapsed, Pending
    <3> QED
      BY <2>10, <3>1, OfferOperators DEF ExpireOffers, request, leases, OfferRow
  <2>11. CASE CancelRequest
    BY <2>11 DEF CancelRequest, RequestStatus, leases
  <2>12. CASE LeaseLapses
    BY <2>12 DEF LeaseLapses, request
  <2>13. CASE UNCHANGED vars
    BY <2>13 DEF vars
  <2> QED
    BY <2>1, <2>2, <2>3, <2>4, <2>5, <2>6, <2>7, <2>8, <2>9, <2>10, <2>11, <2>12, <2>13
       DEF Next, Dispatch, Reassign
<1> QED
  BY <1>1, <1>2, PTL DEF Spec

-----------------------------------------------------------------------------
(* What a session may rely on between its statements: the rows it has       *)
(* locked are its own, and as it found them.                               *)

Keeps(s) ==
    /\ tx[s].at \in {"accept_request", "accept_others"} =>
          /\ tx[s].p \in Providers
          /\ held[tx[s].p] = s
          /\ offer[tx[s].p].status = "pending"
    /\ tx[s].at = "accept_offer" => tx[s].p \in Providers
    /\ tx[s].at = "accept_others" => held[Request] = s /\ status \in Open
    /\ tx[s].at = "reassign_request" =>
          \A p \in tx[s].mine : held[p] = s /\ offer[p].status = "pending"

SessionInv == \A s \in Sessions : Keeps(s)

\* A step of somebody else keeps what a session relies on if it leaves the
\* session, its locks, its pending offers and the request it has locked alone.
LEMMA Untouched ==
    ASSUME TypeOK, NEW s \in Sessions, Keeps(s),
           tx'[s] = tx[s],
           \A x \in Locks : held[x] = s => held'[x] = s,
           \A p \in Providers : held[p] = s /\ offer[p].status = "pending"
                                    => offer'[p].status = "pending",
           held[Request] = s /\ status \in Open => status' \in Open
    PROVE  Keeps(s)'
<1>1. Providers \subseteq Locks /\ Request \in Locks /\ tx[s].mine \subseteq Providers
  BY DEF Locks, TypeOK
<1> QED
  BY <1>1 DEF Keeps

\* Whoever runs has none of the rows it wants locked by another.
LEMMA RunsFreely ==
    ASSUME NEW s \in Sessions, NEW at, Runs(s, at), NEW t \in Sessions \ {s}, NEW x \in Wants(s)
    PROVE  held[x] # t
  BY DEF Runs, Blocks

\* Ending or going on changes neither another session nor what it has locked.
LEMMA OthersKeepLocks ==
    ASSUME TypeOK, NEW s \in Sessions, NEW at, Runs(s, at), NEW t \in Sessions \ {s},
           \/ Ends(s)
           \/ \E next \in At : Goes(s, next)
           \/ held' = Locked(s) /\ \A r \in Sessions \ {s} : tx'[r] = tx[r]
    PROVE  tx'[t] = tx[t] /\ \A x \in Locks : held[x] = t => held'[x] = t
<1>1. tx'[t] = tx[t]
  BY DEF Ends, Goes, TypeOK
<1>2. ASSUME NEW x \in Locks, held[x] = t
      PROVE  held'[x] = t
  <2>1. x \notin Wants(s)
    BY <1>2, RunsFreely
  <2> QED
    BY <1>2, <2>1 DEF Ends, Goes, Locked, Unlocked
<1> QED
  BY <1>1, <1>2

\* A session that has ended relies on nothing.
LEMMA EndedKeeps ==
    ASSUME TypeOK, NEW s \in Sessions, Ends(s)
    PROVE  Keeps(s)' /\ \A t \in Sessions \ {s} : tx'[t] = tx[t]
  BY DEF Ends, Keeps, Idle, TypeOK

\* Every step leaves the locked rows of the other sessions as they were read.
LEMMA SessionInvStep ==
    ASSUME TypeOK, SessionInv, [Next]_vars
    PROVE  SessionInv'
<1>1. \A s \in Sessions : Keeps(s)
  BY DEF SessionInv
<1>2. ASSUME NEW s \in Sessions, Begins(s)
      PROVE  SessionInv'
  <2>1. ASSUME NEW at \in {"accept_offer"}, NEW p \in Providers, Begin(s, at, p)
        PROVE  Keeps(s)'
    BY <2>1 DEF Begin, Keeps, TypeOK
  <2>2. ASSUME NEW at \in {"create_offers", "dispatch_wave", "reassign_expire"},
               Begin(s, at, NoProvider)
        PROVE  Keeps(s)'
    BY <2>2 DEF Begin, Keeps, TypeOK
  <2>3. Keeps(s)'
    BY <1>2, <2>1, <2>2 DEF Begins, BeginAccept, BeginDispatch, BeginReassign
  <2>4. UNCHANGED <<status, offer, held>> /\ \A t \in Sessions \ {s} : tx'[t] = tx[t]
    BY <1>2 DEF Begins, BeginAccept, BeginDispatch, BeginReassign, Begin, request, TypeOK
  <2>5. \A t \in Sessions \ {s} : Keeps(t)'
    BY <2>4, <1>1, Untouched
  <2> QED
    BY <2>3, <2>5 DEF SessionInv
<1>3. ASSUME NEW s \in Sessions, AcceptLocksOffer(s)
      PROVE  SessionInv'
  <2>1. Keeps(s)'
    <3>1. tx[s].p \in Providers /\ tx[s].p \in Wants(s) /\ tx[s].p \in Locks
      BY <1>1, <1>3 DEF AcceptLocksOffer, Runs, Keeps, Wants, Locks
    <3>2. tx'[s].at = "accept_request" /\ tx'[s].p = tx[s].p
      BY <1>3 DEF AcceptLocksOffer, Goes, TypeOK
    <3>3. held'[tx[s].p] = s
      BY <1>3, <3>1 DEF AcceptLocksOffer, Goes, Locked
    <3> QED
      BY <1>3, <3>1, <3>2, <3>3 DEF AcceptLocksOffer, StillPending, Keeps
  <2>2. \A t \in Sessions \ {s} : Keeps(t)'
    BY <1>1, <1>3, OthersKeepLocks, Untouched DEF AcceptLocksOffer, At, request
  <2> QED
    BY <2>1, <2>2 DEF SessionInv
<1>4. ASSUME NEW s \in Sessions, AcceptLocksRequest(s)
      PROVE  SessionInv'
  <2>1. Keeps(s)'
    <3>1. Keeps(s) /\ tx[s].at = "accept_request"
      BY <1>1, <1>4 DEF AcceptLocksRequest, Runs
    <3>2. Request \in Wants(s) /\ Request \in Locks /\ tx[s].p \in Locks
      BY <3>1 DEF Wants, Locks, Keeps
    <3>3. tx'[s].at = "accept_others" /\ tx'[s].p = tx[s].p
      BY <1>4 DEF AcceptLocksRequest, Goes, TypeOK
    <3>4. held'[tx[s].p] = s /\ held'[Request] = s
      BY <1>4, <3>1, <3>2 DEF AcceptLocksRequest, Goes, Locked, Keeps
    <3> QED
      BY <1>4, <3>1, <3>3, <3>4 DEF AcceptLocksRequest, Available, Keeps, request
  <2>2. \A t \in Sessions \ {s} : Keeps(t)'
    BY <1>1, <1>4, OthersKeepLocks, Untouched DEF AcceptLocksRequest, At, request
  <2> QED
    BY <2>1, <2>2 DEF SessionInv
<1>5. ASSUME NEW s \in Sessions, AcceptIsLate(s) \/ AcceptIsRefused(s)
      PROVE  SessionInv'
  <2>1. Ends(s) /\ UNCHANGED <<status, offer>> /\ \E at : Runs(s, at)
    BY <1>5 DEF AcceptIsLate, AcceptIsRefused, request
  <2>2. \A t \in Sessions \ {s} : Keeps(t)'
    BY <1>1, <2>1, OthersKeepLocks, Untouched
  <2> QED
    BY <2>1, <2>2, EndedKeeps DEF SessionInv
<1>6. ASSUME NEW s \in Sessions, AcceptIsLapsed(s)
      PROVE  SessionInv'
  <2>1. Ends(s) /\ UNCHANGED status /\ Runs(s, "accept_offer")
    BY <1>6 DEF AcceptIsLapsed, request
  <2>2. tx[s].p \in Wants(s)
    BY <1>1, <2>1 DEF Runs, Keeps, Wants, Locks
  <2>3. \A t \in Sessions \ {s}, p \in Providers : held[p] = t => offer'[p] = offer[p]
    BY <1>6, <2>1, <2>2, RunsFreely DEF AcceptIsLapsed, TypeOK
  <2>4. \A t \in Sessions \ {s} : Keeps(t)'
    BY <1>1, <2>1, <2>3, OthersKeepLocks, Untouched
  <2> QED
    BY <2>1, <2>4, EndedKeeps DEF SessionInv
<1>7. ASSUME NEW s \in Sessions, AcceptCommits(s)
      PROVE  SessionInv'
  <2>1. Ends(s) /\ Runs(s, "accept_others") /\ offer' = Closed(tx[s].p)
    BY <1>7 DEF AcceptCommits
  <2>2. tx[s].p \in Pending /\ held[Request] = s
    BY <1>1, <2>1 DEF Runs, Keeps, Pending
  <2>3. Pending \subseteq Wants(s)
    BY <2>1 DEF Runs, Wants, Pending, Locks
  <2>4. \A t \in Sessions \ {s}, p \in Providers : held[p] = t => offer'[p] = offer[p]
    BY <2>1, <2>2, <2>3, RunsFreely DEF Closed
  <2>5. \A t \in Sessions \ {s} : Keeps(t)'
    BY <1>1, <2>1, <2>2, <2>4, OthersKeepLocks, Untouched
  <2> QED
    BY <2>1, <2>5, EndedKeeps DEF SessionInv
<1>8. ASSUME NEW s \in Sessions, NEW S \in SUBSET Providers, CreateOffers(s, S) \/ DispatchWave(s, S)
      PROVE  SessionInv'
  <2>1. Ends(s) /\ (\E at : Runs(s, at)) /\ offer' = OfferedTo(S)
    BY <1>8 DEF CreateOffers, DispatchWave
  <2>2. \A p \in Providers : offer[p].status = "pending" => offer'[p].status = "pending"
    BY <2>1 DEF OfferedTo
  <2>3. status \in Open => status' \in Open
    BY <1>8 DEF CreateOffers, DispatchWave, AfterWave, Open
  <2>4. \A t \in Sessions \ {s} : Keeps(t)'
    BY <1>1, <2>1, <2>2, <2>3, OthersKeepLocks, Untouched
  <2> QED
    BY <2>1, <2>4, EndedKeeps DEF SessionInv
<1>9. ASSUME NEW s \in Sessions, ReassignExpires(s)
      PROVE  SessionInv'
  <2>1. /\ Runs(s, "reassign_expire") /\ held' = Locked(s) /\ UNCHANGED <<status, offer>>
        /\ tx' = [tx EXCEPT ![s] = [tx[s] EXCEPT !.at = "reassign_request", !.mine = Lapsed]]
    BY <1>9, Zenon DEF ReassignExpires, request
  <2>2. tx'[s].at = "reassign_request" /\ tx'[s].mine = Lapsed
    BY <2>1 DEF TypeOK
  <2>3. \A r \in Sessions \ {s} : tx'[r] = tx[r]
    BY <2>1 DEF TypeOK
  <2>4. \A p \in Lapsed : p \in Locks /\ p \in Wants(s) /\ offer[p].status = "pending"
    BY <2>1 DEF Runs, Lapsed, Pending, Locks, Wants
  <2>5. Keeps(s)'
    BY <2>1, <2>2, <2>4 DEF Keeps, Locked
  <2>6. \A t \in Sessions \ {s} : Keeps(t)'
    BY <1>1, <2>1, <2>3, OthersKeepLocks, Untouched
  <2> QED
    BY <2>5, <2>6 DEF SessionInv
<1>10. ASSUME NEW s \in Sessions, ReassignKeeps(s)
       PROVE  SessionInv'
  <2>1. Ends(s) /\ Runs(s, "reassign_request") /\ offer' = Expired(tx[s].mine) /\ UNCHANGED status
    BY <1>10 DEF ReassignKeeps, request
  <2>2. \A t \in Sessions \ {s}, p \in Providers : held[p] = t => offer'[p] = offer[p]
    BY <1>1, <2>1 DEF Expired, Runs, Keeps
  <2>3. \A t \in Sessions \ {s} : Keeps(t)'
    BY <1>1, <2>1, <2>2, OthersKeepLocks, Untouched
  <2> QED
    BY <2>1, <2>3, EndedKeeps DEF SessionInv
<1>11. ASSUME NEW s \in Sessions, NEW S \in SUBSET Providers, ReassignOffers(s, S)
       PROVE  SessionInv'
  <2>1. /\ Ends(s) /\ Runs(s, "reassign_request")
        /\ offer' = [p \in Providers |->
                        IF p \in tx[s].mine THEN Expired(tx[s].mine)[p] ELSE OfferedTo(S)[p]]
        /\ status' \in Open
    BY <1>11 DEF ReassignOffers, Open
  <2>2. \A t \in Sessions \ {s}, p \in Providers :
            held[p] = t /\ offer[p].status = "pending" => offer'[p].status = "pending"
    BY <1>1, <2>1 DEF Expired, OfferedTo, Runs, Keeps
  <2>3. \A t \in Sessions \ {s} : Keeps(t)'
    BY <1>1, <2>1, <2>2, OthersKeepLocks, Untouched
  <2> QED
    BY <2>1, <2>3, EndedKeeps DEF SessionInv
<1>12. ASSUME NEW s \in Sessions, AbortVictim(s)
       PROVE  SessionInv'
  <2>1. Ends(s) /\ UNCHANGED <<status, offer>>
    BY <1>12 DEF AbortVictim, request
  <2>2. \A t \in Sessions \ {s} : tx'[t] = tx[t] /\ \A x \in Locks : held[x] = t => held'[x] = t
    BY <2>1, EndedKeeps DEF Ends, Unlocked
  <2>3. \A t \in Sessions \ {s} : Keeps(t)'
    BY <1>1, <2>1, <2>2, Untouched
  <2> QED
    BY <2>1, <2>3, EndedKeeps DEF SessionInv
<1>13. ASSUME UNCHANGED <<status, offer, tx, held>>
       PROVE  SessionInv'
  BY <1>1, <1>13, Untouched DEF SessionInv
<1>14. ASSUME UNCHANGED <<tx, held, status>>,
              \A p \in Providers : offer'[p].status = offer[p].status \/ Unlockable(p)
       PROVE  SessionInv'
  <2>1. \A s \in Sessions, p \in Providers : held[p] = s => offer'[p].status = offer[p].status
    BY <1>14, DispatchAssumption DEF DispatchAssumption, Unlockable
  <2> QED
    BY <1>1, <1>14, <2>1, Untouched DEF SessionInv
<1>15. ASSUME UNCHANGED <<tx, held, offer>>, Unlockable(Request)
       PROVE  SessionInv'
  BY <1>1, <1>15, Untouched, DispatchAssumption DEF DispatchAssumption, SessionInv, Unlockable
<1>16. ASSUME NEW p \in Providers, ProviderReject(p) \/ OfferLapses(p)
       PROVE  SessionInv'
  BY <1>16, <1>14 DEF ProviderReject, OfferLapses, request, TypeOK
<1>17. CASE ExpireOffers
  BY <1>17, <1>14 DEF ExpireOffers, Expired, request
<1>18. ASSUME NEW new \in RequestStatus, Transition(new)
       PROVE  SessionInv'
  BY <1>18, <1>15 DEF Transition
<1>19. CASE (\E s \in Sessions : AcquireLease(s) \/ ReleaseLease(s)) \/ LeaseLapses \/ UNCHANGED vars
  BY <1>19, <1>13 DEF AcquireLease, ReleaseLease, LeaseLapses, vars, request
<1>20. CASE CancelRequest
  BY <1>20, <1>15 DEF CancelRequest
<1> QED
  BY <1>2, <1>3, <1>4, <1>5, <1>6, <1>7, <1>8, <1>9, <1>10, <1>11, <1>12, <1>16, <1>17, <1>18, <1>19, <1>20
     DEF Next, Accept, Dispatch, Reassign

\* Every session finds the rows it has locked as it left them.
THEOREM SessionsKeepLocks == Spec => []SessionInv
<1>1. Init => SessionInv
  BY DEF Init, SessionInv, Keeps, Idle
<1>2. TypeOK /\ SessionInv /\ [Next]_vars => SessionInv'
  BY SessionInvStep
<1> QED
  BY <1>1, <1>2, TypeCorrect, PTL DEF Spec

-----------------------------------------------------------------------------
(* What a step can do to the request and to an offer.                       *)

\* The steps that write the request: a commit of accept_offer takes it, a
\* cancellation or a transition moves it on, all others leave it open or alone.
LEMMA RequestSteps ==
    ASSUME TypeOK, SessionInv, [Next]_vars
    PROVE  \/ \E s \in Sessions : AcceptCommits(s) /\ status \in Open /\ tx[s].p \in Pending
           \/ UNCHANGED acceptedBy /\ status \in Open /\ status' \in Open
           \/ UNCHANGED request
           \/ UNCHANGED acceptedBy /\ status \in Open /\ status' = "cancelled"
           \/ /\ UNCHANGED acceptedBy
              /\ status \in {"accepted", "in_progress"}
              /\ status' \in {"in_progress", "completed", "cancelled"}
<1>1. ASSUME NEW s \in Sessions, AcceptCommits(s)
      PROVE  status \in Open /\ tx[s].p \in Pending
  BY <1>1 DEF AcceptCommits, Runs, SessionInv, Keeps, Pending
<1>2. ASSUME NEW s \in Sessions, NEW S \in SUBSET Providers, CreateOffers(s, S) \/ DispatchWave(s, S)
      PROVE  UNCHANGED request \/ (UNCHANGED acceptedBy /\ status \in Open /\ status' \in Open)
  BY <1>2 DEF CreateOffers, DispatchWave, AfterWave, Open, request
<1>3. ASSUME NEW s \in Sessions, NEW S \in SUBSET Providers, ReassignOffers(s, S)
      PROVE  UNCHANGED acceptedBy /\ status \in Open /\ status' \in Open
  BY <1>3 DEF ReassignOffers, Reassignable, Open
<1>4. ASSUME NEW new \in RequestStatus, Transition(new)
      PROVE  \/ UNCHANGED acceptedBy /\ status \in Open /\ status' = "cancelled"
             \/ /\ UNCHANGED acceptedBy
                /\ status \in {"accepted", "in_progress"}
                /\ status' \in {"in_progress", "completed", "cancelled"}
  BY <1>4 DEF Transition, MayFollow
<1>5. CancelRequest => \/ UNCHANGED acceptedBy /\ status \in Open /\ status' = "cancelled"
                       \/ /\ UNCHANGED acceptedBy
                          /\ status \in {"accepted", "in_progress"}
                          /\ status' \in {"in_progress", "completed", "cancelled"}
  BY DEF CancelRequest
<1> QED
  BY <1>1, <1>2, <1>3, <1>4, <1>5
     DEF Next, Begins, BeginAccept, BeginDispatch, BeginReassign, Begin, Accept, AcceptLocksOffer,
         AcceptIsLate, AcceptIsLapsed, AcceptLocksRequest, AcceptIsRefused, Dispatch, Reassign,
         ReassignExpires, ReassignKeeps, AbortVictim, AcquireLease, ReleaseLease, ProviderReject,
         OfferLapses, ExpireOffers, LeaseLapses, vars, request

\* What becomes of an offer, if nobody takes the request: answered ones stay,
\* and no other is accepted.
LEMMA OfferSteps ==
    ASSUME TypeOK, SessionInv, [Next]_vars, NEW p \in Providers
    PROVE  \/ \E s \in Sessions : AcceptCommits(s)
           \/ offer'[p].status = offer[p].status
           \/ offer[p].status = "none" /\ offer'[p].status = "pending"
           \/ offer[p].status = "pending" /\ offer'[p].status \in {"rejected", "expired"}
<1> DEFINE Fine == \/ offer'[p].status = offer[p].status
                   \/ offer[p].status = "none" /\ offer'[p].status = "pending"
                   \/ offer[p].status = "pending" /\ offer'[p].status \in {"rejected", "expired"}
<1>1. ASSUME NEW S \in SUBSET Providers
      PROVE  \/ OfferedTo(S)[p].status = offer[p].status
             \/ offer[p].status = "none" /\ OfferedTo(S)[p].status = "pending"
  BY DEF OfferedTo, Offered
<1>2. ASSUME NEW S \in SUBSET Pending
      PROVE  \/ Expired(S)[p].status = offer[p].status
             \/ offer[p].status = "pending" /\ Expired(S)[p].status = "expired"
  BY DEF Expired, Pending, TypeOK
<1>3. ASSUME NEW s \in Sessions, tx[s].at = "reassign_request"
      PROVE  tx[s].mine \in SUBSET Pending
  BY <1>3 DEF TypeOK, SessionInv, Keeps, Pending
<1>4. ASSUME NEW s \in Sessions, AcceptIsLapsed(s)
      PROVE  Fine
  BY <1>4 DEF AcceptIsLapsed, StillPending, TypeOK
<1>5. ASSUME NEW s \in Sessions, NEW S \in SUBSET Providers, CreateOffers(s, S) \/ DispatchWave(s, S)
      PROVE  Fine
  BY <1>5, <1>1 DEF CreateOffers, DispatchWave
<1>6. ASSUME NEW s \in Sessions, ReassignKeeps(s)
      PROVE  Fine
  BY <1>6, <1>2, <1>3 DEF ReassignKeeps, Runs
<1>7. ASSUME NEW s \in Sessions, NEW S \in SUBSET Providers, ReassignOffers(s, S)
      PROVE  Fine
  BY <1>7, <1>1, <1>2, <1>3 DEF ReassignOffers, Runs
<1>8. ASSUME NEW q \in Providers, ProviderReject(q) \/ OfferLapses(q)
      PROVE  Fine
  BY <1>8 DEF ProviderReject, OfferLapses, Pending, TypeOK
<1>9. CASE ExpireOffers
  BY <1>9, <1>2 DEF ExpireOffers, Lapsed
<1> QED
  BY <1>4, <1>5, <1>6, <1>7, <1>8, <1>9
     DEF Next, Begins, BeginAccept, BeginDispatch, BeginReassign, Begin, Accept, AcceptLocksOffer,
         AcceptIsLate, AcceptLocksRequest, AcceptIsRefused, Dispatch, Reassign,
         ReassignExpires, AbortVictim, AcquireLease, ReleaseLease, Transition, CancelRequest,
         LeaseLapses, vars

\* The commit of an accept, in full.
LEMMA CommitClosesOffers ==
    ASSUME TypeOK, SessionInv, NEW s \in Sessions, AcceptCommits(s)
    PROVE  /\ tx[s].p \in Pending /\ status \in Open
           /\ status' = "accepted" /\ acceptedBy' = tx[s].p
           /\ offer'[tx[s].p].status = "accepted"
           /\ \A q \in Providers \ {tx[s].p} :
                 offer'[q].status = IF q \in Pending THEN "rejected" ELSE offer[q].status
<1>1. tx[s].p \in Pending /\ status \in Open
  BY DEF AcceptCommits, Runs, SessionInv, Keeps, Pending
<1>2. offer' = Closed(tx[s].p) /\ status' = "accepted" /\ acceptedBy' = tx[s].p
  BY DEF AcceptCommits
<1>3. tx[s].p \in Providers
  BY <1>1 DEF Pending
<1>4. \A q \in Providers : offer[q] \in OfferRow
  BY DEF TypeOK, OfferRow
<1> QED
  BY <1>1, <1>2, <1>3, <1>4 DEF Closed, OfferRow

-----------------------------------------------------------------------------
(* The properties. *)

\* At most one provider has the job, whoever accepts, offers and cancels at once.
THEOREM RequestTakenByOne == Spec => []TakenByOne
<1>1. Init => TakenByOne
  BY DispatchAssumption DEF DispatchAssumption, Init, TakenByOne, NoOffer, Offered, Open
<1>2. TypeOK /\ SessionInv /\ TakenByOne /\ [Next]_vars => TakenByOne'
  <2> SUFFICES ASSUME TypeOK, SessionInv, TakenByOne, [Next]_vars
               PROVE  TakenByOne'
    OBVIOUS
  <2>1. CASE \E s \in Sessions : AcceptCommits(s)
    <3> PICK s \in Sessions : AcceptCommits(s)
      BY <2>1
    <3>1. acceptedBy = NoProvider /\ \A p \in Providers : offer[p].status # "accepted"
      BY CommitClosesOffers, DispatchAssumption DEF DispatchAssumption, TakenByOne, TypeOK
    <3>2. tx[s].p \in Providers
      BY CommitClosesOffers DEF Pending
    <3>3. \A p \in Providers : offer'[p].status = "accepted" <=> acceptedBy' = p
      BY <3>1, <3>2, CommitClosesOffers
    <3> QED
      BY <3>2, <3>3, CommitClosesOffers, DispatchAssumption DEF DispatchAssumption, TakenByOne, Open
  <2>2. CASE ~\E s \in Sessions : AcceptCommits(s)
    <3>1. \A p \in Providers : offer'[p].status = "accepted" <=> offer[p].status = "accepted"
      BY <2>2, OfferSteps
    <3>2. UNCHANGED acceptedBy
      BY <2>2, RequestSteps DEF request
    <3>3. /\ acceptedBy # NoProvider => status' \notin Open
          /\ status' \in {"accepted", "in_progress", "completed"} => acceptedBy # NoProvider
      BY <2>2, RequestSteps DEF request, TakenByOne, Open
    <3> QED
      BY <3>1, <3>2, <3>3 DEF TakenByOne
  <2> QED
    BY <2>1, <2>2
<1> QED
  BY <1>1, <1>2, TypeCorrect, SessionsKeepLocks, PTL DEF Spec

\* An answered offer keeps its answer.
THEOREM OffersAreFinal == Spec => OfferIsFinal
<1>1. TypeOK /\ SessionInv /\ [Next]_vars =>
        [\A p \in Providers :
            offer[p].status \in {"accepted", "rejected", "expired"}
                => offer'[p].status = offer[p].status]_vars
  <2> SUFFICES ASSUME TypeOK, SessionInv, [Next]_vars, NEW p \in Providers,
                      offer[p].status \in {"accepted", "rejected", "expired"}
               PROVE  offer'[p].status = offer[p].status
    OBVIOUS
  <2>1. CASE \E s \in Sessions : AcceptCommits(s)
    <3> PICK s \in Sessions : AcceptCommits(s)
      BY <2>1
    <3>1. p \notin Pending
      BY DEF Pending
    <3> QED
      BY <3>1, CommitClosesOffers
  <2>2. CASE ~\E s \in Sessions : AcceptCommits(s)
    BY <2>2, OfferSteps
  <2> QED
    BY <2>1, <2>2
<1> QED
  BY <1>1, TypeCorrect, SessionsKeepLocks, PTL DEF Spec, OfferIsFinal

\* A request that is taken or called off is never open again.
THEOREM RequestsAreNeverReopened == Spec => NeverReopened
<1>1. TypeOK /\ SessionInv /\ [Next]_vars => [status \notin Open => status' \notin Open]_vars
  BY RequestSteps, CommitClosesOffers DEF request, Open
<1> QED
  BY <1>1, TypeCorrect, SessionsKeepLocks, PTL DEF Spec, NeverReopened

\* The protocol of locks, waves, expiry and deadlock aborts implements Assignment.
THEOREM DispatchImplementsAssignment == Spec => ImplementsAssignment
<1>1. Init => OneJob!Init
  BY DEF Init, OneJob!Init, Open
<1>2. TypeOK /\ SessionInv /\ TakenByOne /\ [Next]_vars => [OneJob!Next]_OneJob!vars
  <2> SUFFICES ASSUME TypeOK, SessionInv, TakenByOne, [Next]_vars
               PROVE  [OneJob!Next]_OneJob!vars
    OBVIOUS
  <2> USE DEF OneJob!Next, OneJob!vars, OneJob!Assign, OneJob!CallOff
  <2>1. CASE \E s \in Sessions : AcceptCommits(s)
    <3> PICK s \in Sessions : AcceptCommits(s)
      BY <2>1
    <3>1. tx[s].p \in Providers /\ status \in Open /\ status' \notin Open
          /\ acceptedBy' = tx[s].p
      BY CommitClosesOffers DEF Pending, Open
    <3> QED
      BY <3>1
  <2>2. CASE UNCHANGED acceptedBy /\ status \in Open /\ status' \in Open
    BY <2>2
  <2>3. CASE UNCHANGED request
    BY <2>3 DEF request
  <2>4. CASE UNCHANGED acceptedBy /\ status \in Open /\ status' = "cancelled"
    BY <2>4 DEF Open
  <2>5. CASE /\ UNCHANGED acceptedBy
             /\ status \in {"accepted", "in_progress"}
             /\ status' \in {"in_progress", "completed", "cancelled"}
    BY <2>5 DEF Open
  <2> QED
    BY <2>1, <2>2, <2>3, <2>4, <2>5, RequestSteps
<1> QED
  BY <1>1, <1>2, TypeCorrect, SessionsKeepLocks, RequestTakenByOne, PTL
     DEF Spec, ImplementsAssignment, OneJob!Spec

-----------------------------------------------------------------------------
(* Who waits for whom.                                                     *)

\* Only a session between two statements of an accept or a reassignment has rows
\* locked, and only an accept that has won has the request.
HoldersInv ==
    \A x \in Locks :
        held[x] # Nobody =>
            /\ tx[held[x]].at \in {"accept_request", "accept_others", "reassign_request"}
            /\ x = Request => tx[held[x]].at = "accept_others"

\* A session that ends has no row left, and no other one gets any.
LEMMA EndedHolders ==
    ASSUME TypeOK, HoldersInv, NEW s \in Sessions, Ends(s)
    PROVE  HoldersInv'
<1>1. ASSUME NEW x \in Locks, held'[x] # Nobody
      PROVE  held'[x] = held[x] /\ held[x] # s /\ held[x] \in Sessions
  BY <1>1 DEF Ends, Unlocked, TypeOK
<1>2. \A t \in Sessions \ {s} : tx'[t] = tx[t]
  BY DEF Ends, TypeOK
<1> QED
  BY <1>1, <1>2 DEF HoldersInv

\* A session that goes on has what it had and what it wanted; one that had the
\* request keeps the place where it may.
LEMMA GoneHolders ==
    ASSUME TypeOK, HoldersInv, NEW s \in Sessions, held' = Locked(s),
           \A t \in Sessions \ {s} : tx'[t] = tx[t],
           tx'[s].at \in {"accept_request", "accept_others", "reassign_request"},
           tx'[s].at = "accept_others" \/ (Request \notin Wants(s) /\ tx[s].at # "accept_others")
    PROVE  HoldersInv'
<1>1. ASSUME NEW x \in Locks, held'[x] # Nobody
      PROVE  held'[x] = s \/ (held'[x] = held[x] /\ held[x] \in Sessions \ {s})
  BY <1>1 DEF Locked, TypeOK
<1>2. ASSUME held'[Request] = s, tx'[s].at # "accept_others"
      PROVE  FALSE
  <2>1. Request \in Locks /\ held[Request] = s
    BY <1>2 DEF Locked, Locks
  <2> QED
    BY <1>2, <2>1, DispatchAssumption DEF HoldersInv
<1> QED
  BY <1>1, <1>2 DEF HoldersInv

\* Every step leaves locks only where the invariant allows them.
LEMMA HoldersStep ==
    ASSUME TypeOK, SessionInv, HoldersInv, [Next]_vars
    PROVE  HoldersInv'
<1>0. Request \notin Providers /\ Nobody \notin Sessions
  BY DispatchAssumption
<1>1. ASSUME NEW s \in Sessions, Begins(s)
      PROVE  HoldersInv'
  <2>1. tx[s] = Idle /\ UNCHANGED held /\ \A t \in Sessions \ {s} : tx'[t] = tx[t]
    BY <1>1 DEF Begins, BeginAccept, BeginDispatch, BeginReassign, Begin, TypeOK
  <2>2. \A x \in Locks : held[x] # Nobody => held[x] \in Sessions \ {s}
    BY <2>1 DEF HoldersInv, Idle, TypeOK
  <2> QED
    BY <2>1, <2>2 DEF HoldersInv
<1>2. ASSUME NEW s \in Sessions, AcceptLocksOffer(s)
      PROVE  HoldersInv'
  <2>1. Runs(s, "accept_offer") /\ Goes(s, "accept_request")
    BY <1>2 DEF AcceptLocksOffer
  <2>2. Request \notin Wants(s)
    BY <1>0, <2>1 DEF Runs, Wants, SessionInv, Keeps
  <2> QED
    BY <2>1, <2>2, GoneHolders DEF Goes, Runs, TypeOK
<1>3. ASSUME NEW s \in Sessions, AcceptLocksRequest(s)
      PROVE  HoldersInv'
  BY <1>3, GoneHolders DEF AcceptLocksRequest, Goes, Runs, TypeOK
<1>4. ASSUME NEW s \in Sessions, ReassignExpires(s)
      PROVE  HoldersInv'
  <2>1. Runs(s, "reassign_expire") /\ held' = Locked(s)
    BY <1>4 DEF ReassignExpires
  <2>2. tx' = [tx EXCEPT ![s] = [tx[s] EXCEPT !.at = "reassign_request", !.mine = Lapsed]]
    BY <1>4, Zenon DEF ReassignExpires
  <2>3. tx'[s].at = "reassign_request" /\ \A t \in Sessions \ {s} : tx'[t] = tx[t]
    BY <2>2 DEF TypeOK
  <2>4. Request \notin Wants(s)
    BY <1>0, <2>1 DEF Runs, Wants, Lapsed, Pending
  <2> QED
    BY <2>1, <2>3, <2>4, GoneHolders DEF Runs
<1>5. ASSUME NEW s \in Sessions, Ends(s)
      PROVE  HoldersInv'
  BY <1>5, EndedHolders
<1>6. ASSUME UNCHANGED <<tx, held>>
      PROVE  HoldersInv'
  BY <1>6 DEF HoldersInv
<1> QED
  BY <1>1, <1>2, <1>3, <1>4, <1>5, <1>6
     DEF Next, vars, Accept, AcceptIsLate, AcceptIsLapsed, AcceptIsRefused, AcceptCommits,
         Dispatch, CreateOffers, DispatchWave, Reassign, ReassignKeeps, ReassignOffers,
         AbortVictim, AcquireLease, ReleaseLease, LeaseLapses, ProviderReject, OfferLapses,
         Transition, ExpireOffers, CancelRequest

\* In a set of sessions that wait for one another for no lesser reason, each one
\* keeps another waiting.
LEMMA EverybodyBlocks ==
    ASSUME NEW D \in SUBSET Sessions, Deadlocked(D), NEW t \in D
    PROVE  \E s \in D : Blocks(t, s)
<1>1. \A s \in D : \E r \in D : Blocks(r, s)
  BY DEF Deadlocked
<1>2. D \ {t} # {}
  BY <1>1 DEF Blocks
<1>3. SUFFICES ASSUME \A s \in D : ~Blocks(t, s)
               PROVE  FALSE
  OBVIOUS
<1>4. \A s \in D \ {t} : \E r \in D \ {t} : Blocks(r, s)
  BY <1>1, <1>3
<1>5. D \ {t} = D
  BY <1>2, <1>4 DEF Deadlocked
<1> QED
  BY <1>5

\* Any number of accepts, waves and reassignments wait for one another in pairs
\* only, and over the request.
THEOREM DeadlocksAreOverRequest == Spec => []DeadlockIsOverRequest
<1>1. Init => HoldersInv
  BY DEF Init, HoldersInv
<1>2. TypeOK /\ SessionInv /\ HoldersInv => DeadlockIsOverRequest
  <2> SUFFICES ASSUME TypeOK, SessionInv, HoldersInv, NEW D \in SUBSET Sessions, Deadlocked(D)
               PROVE  \E s, t \in D :
                          /\ D = {s, t}
                          /\ tx[s].at = "accept_others" /\ held[Request] = s
                          /\ tx[t].at \in {"accept_request", "reassign_request"}
    BY DEF DeadlockIsOverRequest
  <2>0. Nobody \notin Sessions /\ Request \notin Providers
    BY DispatchAssumption
  <2>1. \A s \in D : tx[s].at \in {"accept_request", "accept_others", "reassign_request"}
    BY <2>0, EverybodyBlocks DEF Blocks, Wants, HoldersInv
  <2>2. \A s \in D : \E t \in D : Blocks(t, s)
    BY DEF Deadlocked
  <2>3. \A s \in D : tx[s].at # "accept_others" => Wants(s) = {Request}
    BY <2>1 DEF Wants, Locks
  <2>4. \E s \in D : tx[s].at = "accept_others"
    <3>1. PICK r \in D : TRUE
      BY DEF Deadlocked
    <3>2. PICK s \in D : Blocks(s, r)
      BY <2>2
    <3> QED
      BY <2>0, <2>3, <3>2 DEF Blocks, HoldersInv, Locks
  <2>5. PICK s \in D : tx[s].at = "accept_others"
    BY <2>4
  <2>6. PICK t \in D : Blocks(t, s)
    BY <2>2
  <2>7. held[Request] = s /\ t # s
    BY <2>5, <2>6 DEF SessionInv, Keeps, Blocks
  <2>8. tx[t].at \in {"accept_request", "reassign_request"}
    BY <2>1, <2>7 DEF SessionInv, Keeps
  <2>9. Blocks(s, t)
    BY <2>3, <2>7, <2>8 DEF Blocks
  <2>10. {s, t} = D
    <3>1. \A r \in {s, t} : \E q \in {s, t} : Blocks(q, r)
      BY <2>6, <2>9
    <3>2. {s, t} \in SUBSET D /\ {s, t} # {}
      OBVIOUS
    <3> QED
      BY <3>1, <3>2 DEF Deadlocked
  <2> QED
    BY <2>5, <2>7, <2>8, <2>10
<1> QED
  BY <1>1, <1>2, HoldersStep, TypeCorrect, SessionsKeepLocks, PTL DEF Spec
=============================================================================
