------------------------------ MODULE MCPayments ------------------------------
(* Instances of Payments for TLC: an order's payment and a request's. *)
EXTENDS Payments, TLC

CONSTANTS ordered, requested, e1, e2, e3, x1, r1, r2

TwoPayments == {ordered, requested}
OnePayment == {requested}

\* The order costs one cent, too little to be settled.
TwoCents == [p \in TwoPayments |-> IF p = ordered THEN 1 ELSE 2]
TwoCentsOnce == [p \in OnePayment |-> 2]

\* Two events about one payment, one about the other.
ThreeEvents == {e1, e2, e3}
TwiceRequested == [e \in ThreeEvents |-> IF e = e3 THEN ordered ELSE requested]
OneEvent == {e1}
OnceRequested == [e \in OneEvent |-> requested]

SessionOfRequested == [x \in {x1} |-> requested]
OrderedOnly == {ordered}

\* Two events of the same payment, and two refunds, differ in nothing.
AnyEventOrRefund == Permutations({e1, e2}) \cup Permutations({r1, r2})
=============================================================================
