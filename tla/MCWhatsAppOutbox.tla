--------------------------- MODULE MCWhatsAppOutbox ---------------------------
(* Instances of WhatsAppOutbox for TLC: one worker of each program. *)
EXTENDS WhatsAppOutbox

CONSTANTS m1, m2, m3, durable, legacy

ThreeMessages == {m1, m2, m3}
TwoMessages == {m1, m2}
BothPrograms == {durable, legacy}
LegacyProgram == {legacy}
=============================================================================
