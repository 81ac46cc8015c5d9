----------------------------- MODULE MCAgentActions -----------------------------
(* Instances of AgentActions for TLC. *)
EXTENDS AgentActions

CONSTANTS m1, m2, c1, c2, r1, r2
=============================================================================
