----------------------------- MODULE MCAdminConsole -----------------------------
(* An instance of AdminConsole for TLC. *)
EXTENDS AdminConsole

CONSTANTS a1, b1, b2
=============================================================================
