------------------------------ MODULE MCPartnerHub ------------------------------
(* An instance of PartnerHub for TLC: an invite that can get two rows, by three  *)
(* overlapping requests; one event of the first row's webhooks.                  *)
EXTENDS PartnerHub, TLC

CONSTANTS i1, k1, k2, x1, x2, x3, e1

OneInvite == [k \in {k1, k2} |-> i1]
OneDomain == [i \in {i1} |-> "transport"]
OfFirstRow == [e \in {e1} |-> k1]

AnyClient == Permutations({x1, x2, x3})
=============================================================================
