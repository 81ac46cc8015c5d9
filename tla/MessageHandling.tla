--------------------------- MODULE MessageHandling ---------------------------
(***************************************************************************)
(* What the inbox promises its senders, without rows, leases or workers: a *)
(* recorded event may be handled, events with one message id at most once  *)
(* between them, and an event is answered at most once and only after, or  *)
(* together with, its handling.                                            *)
(***************************************************************************)
EXTENDS Naturals

CONSTANTS
    Events,  \* the events that can be recorded
    MsgOf    \* [Events -> message ids]

VARIABLES
    recorded,  \* events the webhook has acknowledged
    handled,   \* runs of the domain command per event
    answered   \* replies per event

vars == <<recorded, handled, answered>>

Init ==
    /\ recorded = {}
    /\ handled = [k \in Events |-> 0]
    /\ answered = [k \in Events |-> 0]

Record(k) ==
    /\ recorded' = recorded \cup {k}
    /\ UNCHANGED <<handled, answered>>

Handle(k) ==
    /\ k \in recorded
    /\ \A l \in Events : MsgOf[l] = MsgOf[k] => handled[l] = 0
    /\ handled' = [handled EXCEPT ![k] = 1]
    /\ answered' \in {answered, [answered EXCEPT ![k] = 1]}
    /\ UNCHANGED recorded

Answer(k) ==
    /\ handled[k] = 1 /\ answered[k] = 0
    /\ answered' = [answered EXCEPT ![k] = 1]
    /\ UNCHANGED <<recorded, handled>>

Next == \E k \in Events : Record(k) \/ Handle(k) \/ Answer(k)

Spec == Init /\ [][Next]_vars
=============================================================================
