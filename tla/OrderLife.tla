------------------------------- MODULE OrderLife -------------------------------
(***************************************************************************)
(* What README_V18.md promises about one order: the merchant works on it   *)
(* only once it is paid, it leaves the kitchen before it leaves the house, *)
(* and an order that is completed or cancelled stays so.                   *)
(***************************************************************************)
VARIABLE stage

Init == stage = "waiting"

Pay == stage = "waiting" /\ stage' = "paid"

Cook == stage = "paid" /\ stage' = "kitchen"

SendOut == stage = "kitchen" /\ stage' = "away"

HandOver == stage \in {"kitchen", "away"} /\ stage' = "completed"

CallOff == stage \notin {"completed", "cancelled"} /\ stage' = "cancelled"

Next == Pay \/ Cook \/ SendOut \/ HandOver \/ CallOff

Spec == Init /\ [][Next]_stage
=============================================================================
