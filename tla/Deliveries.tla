------------------------------- MODULE Deliveries -------------------------------
(***************************************************************************)
(* The delivery of an order: its job, the service request dispatched for   *)
(* it, and the courier (app/services/delivery.py, merchant_transition of   *)
(* merchant_os.py, and the dispatch of RequestDispatch with each of its    *)
(* transactions as one step).  A courier gets the request by accepting an  *)
(* offer or by being assigned the job; neither looks at the other's table. *)
(***************************************************************************)
EXTENDS Orders

CONSTANTS
    Located,    \* carts checked out with delivery coordinates, at a located merchant
    Couriers,
    NoCourier,
    WaveSize    \* the most offers of one wave

ASSUME DeliveriesAssumption ==
    Located \subseteq Carts /\ NoCourier \notin Couriers /\ WaveSize \in Nat

VARIABLES
    job,      \* delivery_jobs: status and courier_provider_id
    proven,   \* jobs with a row in delivery_proofs
    proving,  \* jobs with a proof call between its check and its insert
    request,  \* service_requests of the jobs: status and accepted_provider_id
    offers    \* service_offers: who has a pending one, who ever had one

jobVars == <<job, proven, proving, request, offers>>
vars == <<shopVars, jobVars>>

JobStatus == {"none", "searching", "assigned", "at_pickup", "picked_up", "in_transit",
              "delivered", "failed", "cancelled"}
RequestStatus == {"none", "searching", "offered", "accepted", "in_progress", "completed", "cancelled"}
Open == {"searching", "offered"}

Init ==
    /\ ShopInit
    /\ job = [c \in Carts |-> [status |-> "none", courier |-> NoCourier]]
    /\ proven = {} /\ proving = {}
    /\ request = [c \in Carts |-> [status |-> "none", provider |-> NoCourier]]
    /\ offers = [c \in Carts |-> [pending |-> {}, asked |-> {}]]

-----------------------------------------------------------------------------
(* Mistakes the properties are tested against.                             *)

AssignedAnyway(c, p) == [status |-> "accepted", provider |-> p]
AssignedUnseen(c, p) == request[c]

-----------------------------------------------------------------------------
(* Dispatch of the request. *)

\* dispatch_wave: couriers who never had an offer.
Wave(c, W) ==
    /\ W \subseteq Couriers \ offers[c].asked /\ Cardinality(W) <= WaveSize
    /\ offers' = [offers EXCEPT ![c] = [pending |-> @.pending \cup W, asked |-> @.asked \cup W]]

\* merchant_transition to ready; with coordinates create_delivery_job and the
\* step to out_for_delivery are in the same transaction.
Ready(c, W) ==
    /\ OrderMay(c, "ready")
    /\ IF c \in Located
       THEN /\ OrderMoves(c, "out_for_delivery")
            /\ job' = [job EXCEPT ![c].status = "searching"]
            /\ request' = [request EXCEPT ![c].status = IF W = {} THEN "searching" ELSE "offered"]
            /\ Wave(c, W)
       ELSE OrderMoves(c, "ready") /\ W = {} /\ UNCHANGED <<job, request, offers>>
    /\ UNCHANGED <<proven, proving>>

\* The run route of dispatch.py.
DispatchMore(c, W) ==
    /\ request[c].status \in Open
    /\ Wave(c, W)
    /\ request' = IF W = {} THEN request ELSE [request EXCEPT ![c].status = "offered"]
    /\ UNCHANGED <<shopVars, job, proven, proving>>

\* reassign_if_needed when nobody can answer any more.
Reassign(c, W) ==
    /\ request[c].status = "offered" /\ offers[c].pending = {}
    /\ Wave(c, W)
    /\ request' = [request EXCEPT ![c].status = IF W = {} THEN "searching" ELSE "offered"]
    /\ UNCHANGED <<shopVars, job, proven, proving>>

\* provider_reject and expire_offers.
OfferEnds(c, p) ==
    /\ p \in offers[c].pending
    /\ offers' = [offers EXCEPT ![c].pending = @ \ {p}]
    /\ UNCHANGED <<shopVars, job, proven, proving, request>>

\* accept_offer: every other offer is closed, the job is not told.
AcceptOffer(c, p) ==
    /\ p \in offers[c].pending /\ request[c].status \in Open
    /\ offers' = [offers EXCEPT ![c].pending = {}]
    /\ request' = [request EXCEPT ![c] = [status |-> "accepted", provider |-> p]]
    /\ UNCHANGED <<shopVars, job, proven, proving>>

RequestMoves(c, new) ==
    /\ request' = [request EXCEPT ![c].status = new]
    /\ UNCHANGED <<shopVars, job, proven, proving, offers>>

\* transition_request by the accepted provider or the customer, and
\* _cancel_request.
TransitionRequest(c, new) ==
    /\ \/ request[c].status = "accepted" /\ new \in {"in_progress", "cancelled"}
       \/ request[c].status = "in_progress" /\ new \in {"completed", "cancelled"}
       \/ request[c].status \in Open /\ new = "cancelled"
    /\ RequestMoves(c, new)

-----------------------------------------------------------------------------
(* The job. *)

\* What assign_courier makes of the request: the offers are not told.
Assigned(c, p) ==
    IF request[c].status \in Open THEN [status |-> "accepted", provider |-> p] ELSE request[c]

AssignCourier(c, p) ==
    /\ job[c].status = "searching"
    /\ job' = [job EXCEPT ![c] = [status |-> "assigned", courier |-> p]]
    /\ request' = [request EXCEPT ![c] = Assigned(c, p)]
    /\ UNCHANGED <<shopVars, proven, proving, offers>>

\* TRANSITIONS; a job gets its courier with the status assigned.
JobMay(c, new) ==
    \/ job[c].status = "assigned" /\ new = "at_pickup"
    \/ job[c].status = "at_pickup" /\ new = "picked_up"
    \/ job[c].status = "picked_up" /\ new = "in_transit"
    \/ job[c].status = "in_transit" /\ new = "delivered" /\ c \in proven
    \/ job[c].status \in {"assigned", "at_pickup", "picked_up", "in_transit"} /\ new \in {"failed", "cancelled"}

\* What transition_delivery makes of the request; a failed job leaves it alone.
RequestAfter(c, new) ==
    LET was == request[c].status IN
    CASE new = "picked_up" /\ was = "accepted" -> "in_progress"
      [] new = "delivered" /\ was \in {"accepted", "in_progress"} -> "completed"
      [] new = "cancelled" /\ was # "completed" -> "cancelled"
      [] OTHER -> was

TransitionDelivery(c, new) ==
    /\ JobMay(c, new)
    /\ job' = [job EXCEPT ![c].status = new]
    /\ request' = [request EXCEPT ![c].status = RequestAfter(c, new)]
    /\ UNCHANGED <<shopVars, proven, proving, offers>>

\* add_proof and confirm_delivery_receipt read the status in one statement and
\* insert in another, without a lock between them.
ProofChecks(c) ==
    /\ job[c].status = "in_transit" /\ c \notin proving
    /\ proving' = proving \cup {c}
    /\ UNCHANGED <<shopVars, job, proven, request, offers>>

ProofRecorded(c) ==
    /\ c \in proving
    /\ proving' = proving \ {c} /\ proven' = proven \cup {c}
    /\ UNCHANGED <<shopVars, job, request, offers>>

Next ==
    \/ ShopNext /\ UNCHANGED jobVars
    \/ \E c \in Carts :
        \/ \E W \in SUBSET Couriers : Ready(c, W) \/ DispatchMore(c, W) \/ Reassign(c, W)
        \/ \E p \in Couriers : OfferEnds(c, p) \/ AcceptOffer(c, p) \/ AssignCourier(c, p)
        \/ \E new \in RequestStatus : TransitionRequest(c, new)
        \/ \E new \in JobStatus : TransitionDelivery(c, new)
        \/ ProofChecks(c) \/ ProofRecorded(c)

Spec == Init /\ [][Next]_vars

-----------------------------------------------------------------------------

\* The types of all tables.
TypeOK ==
    /\ ShopTypeOK
    /\ job \in [Carts -> [status : JobStatus, courier : Couriers \cup {NoCourier}]]
    /\ proven \subseteq Carts /\ proving \subseteq Carts
    /\ request \in [Carts -> [status : RequestStatus, provider : Couriers \cup {NoCourier}]]
    /\ offers \in [Carts -> [pending : SUBSET Couriers, asked : SUBSET Couriers]]

\* The job, its order and its request tell one story although each is written
\* by code that does not read the others: a job belongs to an order that left
\* the kitchen; a request whose job has a courier can be taken by nobody else;
\* a delivered or cancelled job leaves no request open or running; delivered is
\* proven (create_delivery_job, assign_courier, transition_delivery).
DeliveryAgrees ==
    \A c \in Carts :
        /\ job[c].status # "none" <=> request[c].status # "none"
        /\ order[c] = "out_for_delivery" => job[c].status # "none"
        /\ job[c].status # "none" => order[c] \in {"out_for_delivery", "completed", "cancelled"}
        /\ job[c].courier # NoCourier => request[c].status \notin Open
        /\ job[c].status \in {"delivered", "cancelled"} => request[c].status \in {"completed", "cancelled"}
        /\ job[c].status = "delivered" => c \in proven

OneCourier(c) ==
    INSTANCE Assignment WITH
        Providers <- Couriers, NoProvider <- NoCourier,
        open <- request[c].status \in Open \cup {"none"}, winner <- request[c].provider

\* Offers and assignment together give a request to one courier, for good: the
\* one who comes second, by either way, changes nothing (accept_offer,
\* assign_courier).
ImplementsAssignment ==
    /\ \A c \in Carts : OneCourier(c)!Init
    /\ [][\A c \in Carts : OneCourier(c)!Next \/ UNCHANGED OneCourier(c)!vars]_vars
=============================================================================
