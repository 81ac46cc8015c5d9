------------------------------ MODULE MCMediaJobs ------------------------------
(* An instance of MediaJobs for TLC: two contents are clean, one is infected
   and one of no valid type. *)
EXTENDS MediaJobs, TLC

CONSTANTS good, other, virus, odd, o1, o2, r1, r2, u1, u2

AnyCaller ==
    Permutations({good, other}) \cup Permutations({o1, o2})
    \cup Permutations({r1, r2}) \cup Permutations({u1, u2})
=============================================================================
