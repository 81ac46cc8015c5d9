--------------------------- MODULE MCWhatsAppInbox ---------------------------
(* Instances of WhatsAppInbox for TLC. *)
EXTENDS WhatsAppInbox, TLC

CONSTANTS a1, a2, m1, m2, w1, w2

\* One message delivered on two accounts, and a second message on the first.
ThreeEvents == {<<a1, m1>>, <<a2, m1>>, <<a1, m2>>}
TwoEvents == {<<a1, m1>>, <<a1, m2>>}

First == {<<a1, m1>>}
Second == {<<a1, m2>>}

\* The texts of the replies: the same for all three events, or one per message.
OneText == [k \in ThreeEvents |-> "menu"]
TextPerMessage == [k \in TwoEvents |-> MsgId(k)]

AnyWorker == Permutations({w1, w2})
=============================================================================
