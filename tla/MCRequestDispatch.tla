--------------------------- MODULE MCRequestDispatch ---------------------------
(* An instance of RequestDispatch for TLC. *)
EXTENDS RequestDispatch, TLC

CONSTANTS p1, p2, p3, s1, s2, s3

AnybodyElse == Permutations({p1, p2, p3}) \cup Permutations({s1, s2, s3})
=============================================================================
