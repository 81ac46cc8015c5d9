------------------------------ MODULE Assignment ------------------------------
(***************************************************************************)
(* What dispatch promises about one service request: it is open until it   *)
(* is given to one provider or called off, and neither is ever undone.     *)
(***************************************************************************)
CONSTANTS Providers, NoProvider

VARIABLES open, winner

vars == <<open, winner>>

Init == open = TRUE /\ winner = NoProvider

Assign(p) == open /\ open' = FALSE /\ winner' = p

CallOff == open /\ open' = FALSE /\ UNCHANGED winner

Next == CallOff \/ \E p \in Providers : Assign(p)

Spec == Init /\ [][Next]_vars
=============================================================================
