----------------------------- MODULE MCDeliveries -----------------------------
(* An instance of Deliveries for TLC: an order to deliver and one to collect. *)
EXTENDS Deliveries, TLC

CONSTANTS c1, c2, k1, k2

TwoCarts == {c1, c2}
OneEach == [c \in TwoCarts |-> c]
FirstCart == {c1}

AnyCourier == Permutations({k1, k2})
=============================================================================
