-------------------------- MODULE WhatsAppOutboxProofs --------------------------
(***************************************************************************)
(* Proofs about WhatsAppOutbox, for any messages, workers, limits and      *)
(* reported receipts.                                                      *)
(***************************************************************************)
EXTENDS WhatsAppOutbox, TLAPS

-----------------------------------------------------------------------------
(* Types. *)

\* The row operators keep rows well typed.
LEMMA RowOperators ==
    ASSUME NEW row \in Row
    PROVE  /\ Claimed(row) \in Row
           /\ MarkedRetry(row) \in Row
           /\ \A n \in Nat : MarkedSent(row, n) \in Row
           /\ MarkedSentLegacy(row) \in Row
           /\ [row EXCEPT !.due = TRUE] \in Row
           /\ [row EXCEPT !.status = "pending", !.due = TRUE] \in Row
           /\ \A s \in Reported : [row EXCEPT !.receipt = s] \in Row
<1> USE DEF Row, Status
<1>1. Claimed(row) \in Row
  <2>1. row.attempts + 1 \in Nat
    OBVIOUS
  <2> QED
    BY <2>1 DEF Claimed
<1>2. MarkedRetry(row) \in Row
  BY DEF MarkedRetry
<1>3. \A n \in Nat : MarkedSent(row, n) \in Row
  BY DEF MarkedSent
<1>4. MarkedSentLegacy(row) \in Row
  BY DEF MarkedSentLegacy
<1>5. [row EXCEPT !.due = TRUE] \in Row /\ [row EXCEPT !.status = "pending", !.due = TRUE] \in Row
  OBVIOUS
<1>6. \A s \in Reported : [row EXCEPT !.receipt = s] \in Row
  OBVIOUS
<1> QED
  BY <1>1, <1>2, <1>3, <1>4, <1>5, <1>6

\* A worker that is not ready is in the middle of a message.
Busy == \A w \in Workers : phase[w] # "ready" <=> current[w] # NoMessage

\* Every step keeps a worker in the middle of a send with the message it sends.
LEMMA BusyStep ==
    ASSUME TypeOK, Busy, [Next]_vars
    PROVE  Busy'
<1> USE DEF Busy, TypeOK
<1>1. ASSUME NEW w \in Workers, NEW m \in batch[w], NEW taken \in BOOLEAN, NEW answered \in BOOLEAN,
             Send(w, m, taken, answered)
      PROVE  Busy'
  BY <1>1, OutboxAssumption DEF OutboxAssumption, Send
<1>2. ASSUME NEW w \in Workers, MarkSent(w) \/ MarkSentLegacy(w) \/ MarkRetry(w) \/ Crash(w)
      PROVE  Busy'
  <2>1. Done(w)
    BY <1>2 DEF MarkSent, MarkSentLegacy, MarkRetry, Crash
  <2> QED
    BY <2>1 DEF Done
<1>3. ASSUME NEW w \in Workers, MarkFails(w)
      PROVE  Busy'
  BY <1>3 DEF MarkFails
<1>4. ASSUME UNCHANGED <<current, phase>>
      PROVE  Busy'
  BY <1>4
<1> QED
  BY <1>1, <1>2, <1>3, <1>4
     DEF Next, vars, Claim, Work, Enqueue, BackoffEnds, ClaimMessages, ReceiveReceipt

\* The type invariant holds in every reachable state.
THEOREM TypeCorrect == Spec => []TypeOK
<1>1. Init => TypeOK
  BY OutboxAssumption DEF OutboxAssumption, Init, TypeOK, NoRow, Row, Status, Phase
<1>2. TypeOK /\ Busy /\ [Next]_vars => TypeOK'
  <2> SUFFICES ASSUME TypeOK, Busy, [Next]_vars
               PROVE  TypeOK'
    OBVIOUS
  <2> USE DEF TypeOK
  <2>1. ASSUME NEW m \in Messages, Enqueue(m) \/ BackoffEnds(m)
        PROVE  TypeOK'
    <3>1. CASE Enqueue(m)
      <4>1. outbox' = [outbox EXCEPT ![m] = [outbox[m] EXCEPT !.status = "pending", !.due = TRUE]]
        BY <3>1, Zenon DEF Enqueue
      <4>2. [outbox[m] EXCEPT !.status = "pending", !.due = TRUE] \in Row
        BY RowOperators
      <4> QED
        BY <3>1, <4>1, <4>2 DEF Enqueue
    <3>2. CASE BackoffEnds(m)
      <4>1. outbox' = [outbox EXCEPT ![m] = [outbox[m] EXCEPT !.due = TRUE]]
        BY <3>2, Zenon DEF BackoffEnds
      <4>2. [outbox[m] EXCEPT !.due = TRUE] \in Row
        BY RowOperators
      <4> QED
        BY <3>2, <4>1, <4>2 DEF BackoffEnds
    <3> QED
      BY <2>1, <3>1, <3>2
  <2>2. ASSUME NEW w \in Workers, NEW S \in SUBSET Messages, ClaimMessages(w, S)
        PROVE  TypeOK'
    BY <2>2, RowOperators DEF ClaimMessages
  <2>3. ASSUME NEW w \in Workers, NEW m \in batch[w], NEW taken \in BOOLEAN, NEW answered \in BOOLEAN,
               Send(w, m, taken, answered)
        PROVE  TypeOK'
    <3>1. m \in Messages /\ sends[m] + 1 \in Nat
      OBVIOUS
    <3> QED
      BY <2>3, <3>1 DEF Send, Phase
  <2>4. ASSUME NEW w \in Workers, MarkSent(w)
        PROVE  TypeOK'
    <3>1. current[w] \in Messages /\ sends[current[w]] \in Nat
      BY <2>4 DEF MarkSent, Busy
    <3>2. MarkedSent(outbox[current[w]], sends[current[w]]) \in Row
      BY <3>1, RowOperators
    <3>3. ledger' \subseteq Messages \X Nat \X ({"sent"} \cup Reported)
      BY <2>4, <3>1 DEF MarkSent
    <3> QED
      BY <2>4, <3>2, <3>3 DEF MarkSent, Done, Phase
  <2>5. ASSUME NEW w \in Workers, MarkSentLegacy(w) \/ MarkRetry(w)
        PROVE  TypeOK'
    <3>1. current[w] \in Messages
      BY <2>5 DEF MarkSentLegacy, MarkRetry, Busy
    <3>2. /\ MarkedSentLegacy(outbox[current[w]]) \in Row
          /\ MarkedRetry(outbox[current[w]]) \in Row
      BY <3>1, RowOperators
    <3> QED
      BY <2>5, <3>2 DEF MarkSentLegacy, MarkRetry, Done, Phase
  <2>6. ASSUME NEW w \in Workers, MarkFails(w)
        PROVE  TypeOK'
    BY <2>6 DEF MarkFails, Phase
  <2>7. ASSUME NEW w \in Workers, Crash(w)
        PROVE  TypeOK'
    BY <2>7, OutboxAssumption DEF OutboxAssumption, Crash, Done, Phase
  <2>8. ASSUME NEW m \in Messages, NEW n \in 1..MaxSends, NEW s \in Reported, ReceiveReceipt(m, n, s)
        PROVE  TypeOK'
    <3>1. n \in Nat
      BY OutboxAssumption DEF OutboxAssumption
    <3>2. [outbox[m] EXCEPT !.receipt = s] \in Row
      BY RowOperators
    <3>3. outbox' \in [Messages -> Row]
      <4>1. UNCHANGED outbox \/ outbox' = [outbox EXCEPT ![m] = [outbox[m] EXCEPT !.receipt = s]]
        BY <2>8, Zenon DEF ReceiveReceipt
      <4> QED
        BY <3>2, <4>1
    <3>4. ledger' \subseteq Messages \X Nat \X ({"sent"} \cup Reported)
      BY <2>8, <3>1 DEF ReceiveReceipt
    <3> QED
      BY <2>8, <3>3, <3>4 DEF ReceiveReceipt
  <2>9. CASE UNCHANGED vars
    BY <2>9 DEF vars
  <2> QED
    BY <2>1, <2>2, <2>3, <2>4, <2>5, <2>6, <2>7, <2>8, <2>9 DEF Next, Claim, Work
<1>3. Init => Busy
  BY DEF Init, Busy
<1>4. TypeOK /\ Busy /\ [Next]_vars => Busy'
  BY BusyStep
<1> QED
  BY <1>1, <1>2, <1>3, <1>4, PTL DEF Spec

\* A worker past its send always has a message in hand (current of deliver_once).
LEMMA AlwaysBusy == Spec => []Busy
<1>1. Init => Busy
  BY DEF Init, Busy
<1>2. TypeOK /\ Busy /\ [Next]_vars => Busy'
  BY BusyStep
<1> QED
  BY <1>1, <1>2, TypeCorrect, PTL DEF Spec

-----------------------------------------------------------------------------
(* Claims.  A message is in one worker's hands, in one place of its memory, *)
(* and its row is in processing as long as it is.                          *)

OnePlace == \A w \in Workers : current[w] \notin batch[w]

ClaimInv == Busy /\ OnePlace /\ ClaimsAreExclusive /\ StrandedOnlyByCrash

\* A worker that marks a row, whatever it writes, gives it back.
LEMMA MarkKeepsClaims ==
    ASSUME TypeOK, ClaimInv, NEW w \in Workers, phase[w] # "ready", Done(w), batch' = batch,
           crashes' = crashes, NEW row, row.status # "processing",
           outbox' = [outbox EXCEPT ![current[w]] = row]
    PROVE  OnePlace' /\ ClaimsAreExclusive' /\ StrandedOnlyByCrash'
<1> DEFINE m == current[w]
<1>1. m \in Messages /\ m \in Holds(w) /\ m \notin batch[w]
  BY DEF ClaimInv, Busy, OnePlace, TypeOK, Holds
<1>2. /\ Holds(w)' = Holds(w) \ {m}
      /\ \A v \in Workers \ {w} : Holds(v)' = Holds(v) /\ m \notin Holds(v)
  BY <1>1 DEF Done, Holds, TypeOK, ClaimInv, ClaimsAreExclusive
<1>3. \A n \in Messages \ {m} : outbox'[n] = outbox[n]
  BY DEF TypeOK
<1>4. outbox'[m].status # "processing"
  BY <1>1 DEF TypeOK
<1>5. OnePlace'
  BY OutboxAssumption DEF OutboxAssumption, OnePlace, ClaimInv, Done, TypeOK
<1>6. ClaimsAreExclusive'
  <2>1. \A v \in Workers : Holds(v) \subseteq Messages
    BY DEF Holds, TypeOK
  <2> QED
    BY <1>1, <1>2, <1>3, <2>1 DEF ClaimInv, ClaimsAreExclusive
<1>7. StrandedOnlyByCrash'
  BY <1>2, <1>3, <1>4 DEF ClaimInv, StrandedOnlyByCrash
<1> QED
  BY <1>5, <1>6, <1>7

\* Every step keeps the rows in hand in processing and apart from each other.
LEMMA ClaimInvStep ==
    ASSUME TypeOK, ClaimInv, [Next]_vars
    PROVE  ClaimInv'
<1> USE DEF ClaimInv
<1>1. Busy'
  BY BusyStep
<1>2. \A v \in Workers : Holds(v) \subseteq Messages
  BY DEF Holds, TypeOK
<1>3. ASSUME UNCHANGED <<batch, current, crashes>>,
             \A m \in Messages :
                \/ outbox'[m].status = outbox[m].status
                \/ outbox[m].status # "processing" /\ outbox'[m].status # "processing"
      PROVE  OnePlace' /\ ClaimsAreExclusive' /\ StrandedOnlyByCrash'
  BY <1>2, <1>3 DEF OnePlace, ClaimsAreExclusive, StrandedOnlyByCrash, Holds
<1>4. ASSUME NEW m \in Messages, Enqueue(m) \/ BackoffEnds(m)
      PROVE  ClaimInv'
  BY <1>1, <1>3, <1>4 DEF Enqueue, BackoffEnds, TypeOK, Row
<1>5. ASSUME NEW w \in Workers, NEW S \in SUBSET Messages, ClaimMessages(w, S)
      PROVE  ClaimInv'
  <2>1. \A m \in Messages : outbox'[m] = IF m \in S THEN Claimed(outbox[m]) ELSE outbox[m]
    BY <1>5 DEF ClaimMessages
  <2>2. \A m \in S : outbox[m].status = "pending" /\ Claimed(outbox[m]).status = "processing"
    BY <1>5 DEF ClaimMessages, Claimable, Claimed, TypeOK, Row
  <2>3. current[w] = NoMessage
    BY <1>5 DEF ClaimMessages, Busy
  <2>4. Holds(w)' = S /\ Holds(w) = {} /\ \A v \in Workers \ {w} : Holds(v)' = Holds(v)
    BY <1>5, <2>3 DEF ClaimMessages, Holds, TypeOK
  <2>5. OnePlace'
    BY <1>5, <2>3, OutboxAssumption DEF OutboxAssumption, ClaimMessages, OnePlace, TypeOK
  <2>6. ClaimsAreExclusive'
    BY <1>2, <2>1, <2>2, <2>4 DEF ClaimsAreExclusive
  <2>7. StrandedOnlyByCrash'
    BY <1>5, <2>1, <2>2, <2>4 DEF StrandedOnlyByCrash, ClaimMessages
  <2> QED
    BY <1>1, <2>5, <2>6, <2>7
<1>6. ASSUME NEW w \in Workers, NEW m \in batch[w], NEW taken \in BOOLEAN, NEW answered \in BOOLEAN,
             Send(w, m, taken, answered)
      PROVE  ClaimInv'
  <2>1. current[w] = NoMessage /\ m \in Messages
    BY <1>6 DEF Send, Busy, TypeOK
  <2>2. \A v \in Workers : Holds(v)' = Holds(v)
    BY <1>6, <2>1, OutboxAssumption DEF OutboxAssumption, Send, Holds, TypeOK
  <2>3. OnePlace'
    BY <1>6 DEF Send, OnePlace, TypeOK
  <2>4. ClaimsAreExclusive' /\ StrandedOnlyByCrash'
    BY <1>6, <2>2 DEF Send, ClaimsAreExclusive, StrandedOnlyByCrash
  <2> QED
    BY <1>1, <2>3, <2>4
<1>7. ASSUME NEW w \in Workers, MarkSent(w) \/ MarkSentLegacy(w) \/ MarkRetry(w)
      PROVE  ClaimInv'
  <2>1. current[w] \in Messages /\ phase[w] # "ready"
    BY <1>7 DEF MarkSent, MarkSentLegacy, MarkRetry, Busy, TypeOK
  <2>2. outbox[current[w]] \in Row
    BY <2>1 DEF TypeOK
  <2>3. \E row : row.status # "processing" /\ outbox' = [outbox EXCEPT ![current[w]] = row]
    <3>1. CASE MarkSent(w)
      <4>1. MarkedSent(outbox[current[w]], sends[current[w]]).status # "processing"
        BY <2>2 DEF MarkedSent, Row
      <4> QED
        BY <3>1, <4>1 DEF MarkSent
    <3>2. CASE MarkSentLegacy(w)
      <4>1. MarkedSentLegacy(outbox[current[w]]).status # "processing"
        BY <2>2 DEF MarkedSentLegacy, Row
      <4> QED
        BY <3>2, <4>1 DEF MarkSentLegacy
    <3>3. CASE MarkRetry(w)
      <4>1. MarkedRetry(outbox[current[w]]).status # "processing"
        BY <2>2 DEF MarkedRetry, Row
      <4> QED
        BY <3>3, <4>1 DEF MarkRetry
    <3> QED
      BY <1>7, <3>1, <3>2, <3>3
  <2> QED
    BY <1>1, <1>7, <2>1, <2>3, MarkKeepsClaims DEF MarkSent, MarkSentLegacy, MarkRetry
<1>8. ASSUME NEW w \in Workers, MarkFails(w)
      PROVE  ClaimInv'
  BY <1>1, <1>3, <1>8 DEF MarkFails
<1>9. ASSUME NEW w \in Workers, Crash(w)
      PROVE  ClaimInv'
  <2>1. Holds(w)' = {} /\ \A v \in Workers \ {w} : Holds(v)' = Holds(v)
    BY <1>9, OutboxAssumption DEF OutboxAssumption, Crash, Done, Holds, TypeOK
  <2>2. OnePlace'
    BY <1>9 DEF Crash, Done, OnePlace, TypeOK
  <2>3. ClaimsAreExclusive'
    BY <1>9, <2>1 DEF Crash, ClaimsAreExclusive
  <2>4. StrandedOnlyByCrash'
    BY <1>9 DEF Crash, StrandedOnlyByCrash, TypeOK
  <2> QED
    BY <1>1, <2>2, <2>3, <2>4
<1>10. ASSUME NEW m \in Messages, NEW n \in 1..MaxSends, NEW s \in Reported, ReceiveReceipt(m, n, s)
       PROVE  ClaimInv'
  BY <1>1, <1>3, <1>10 DEF ReceiveReceipt, TypeOK, Row
<1>11. CASE UNCHANGED vars
  BY <1>1, <1>3, <1>11 DEF vars
<1> QED
  BY <1>4, <1>5, <1>6, <1>7, <1>8, <1>9, <1>10, <1>11 DEF Next, Claim, Work

\* Workers hold disjoint sets of rows in processing, at all times.
THEOREM ClaimInvariant == Spec => []ClaimInv
<1>1. Init => ClaimInv
  BY OutboxAssumption
     DEF OutboxAssumption, Init, ClaimInv, Busy, OnePlace, ClaimsAreExclusive, StrandedOnlyByCrash, Holds, NoRow
<1>2. TypeOK /\ ClaimInv /\ [Next]_vars => ClaimInv'
  BY ClaimInvStep
<1> QED
  BY <1>1, <1>2, TypeCorrect, PTL DEF Spec

\* No row is in two workers' hands.
THEOREM ClaimsExclude == Spec => []ClaimsAreExclusive
  BY ClaimInvariant, PTL DEF ClaimInv

\* Without a crash every row in processing is in a worker's hands.
THEOREM StrandedByCrash == Spec => []StrandedOnlyByCrash
  BY ClaimInvariant, PTL DEF ClaimInv

-----------------------------------------------------------------------------
(* Sends.  A claim pays for one send in advance, and a row that may still   *)
(* be claimed has an attempt left.                                         *)

SendInv ==
    /\ SendsAreBounded
    /\ \A m \in Messages :
          outbox[m].status \in {"absent", "pending"} => outbox[m].attempts < MaxSends
    /\ \A w \in Workers : \A m \in batch[w] : sends[m] < outbox[m].attempts
    /\ \A w \in Workers : phase[w] = "accepted" => sends[current[w]] > 0
    /\ SentWasTaken

\* Every step keeps the sends paid for by counted attempts.
LEMMA SendInvStep ==
    ASSUME TypeOK, ClaimInv, SendInv, [Next]_vars
    PROVE  SendInv'
<1>1. \A m \in Messages : /\ outbox[m].attempts \in Nat /\ sends[m] \in Nat
                          /\ sends[m] <= outbox[m].attempts /\ outbox[m].attempts <= MaxSends
  BY DEF TypeOK, Row, SendInv, SendsAreBounded
<1>2. MaxSends \in Nat
  BY OutboxAssumption DEF OutboxAssumption
<1>3. \A w \in Workers : phase[w] = "accepted" => current[w] \in Messages
  BY DEF ClaimInv, Busy, TypeOK
<1>4. ASSUME UNCHANGED <<sends, batch, current, phase>>,
             \A m \in Messages : /\ outbox'[m].attempts = outbox[m].attempts
                                 /\ \/ outbox'[m].status = outbox[m].status
                                    \/ outbox[m].status = "absent" /\ outbox'[m].status = "pending"
      PROVE  SendInv'
  <2>1. batch \in [Workers -> SUBSET Messages]
    BY DEF TypeOK
  <2> QED
    BY <1>4, <2>1 DEF SendInv, SendsAreBounded, SentWasTaken
<1>5. ASSUME NEW m \in Messages, Enqueue(m) \/ BackoffEnds(m)
      PROVE  SendInv'
  BY <1>4, <1>5 DEF Enqueue, BackoffEnds, TypeOK, Row
<1>6. ASSUME NEW w \in Workers, NEW S \in SUBSET Messages, ClaimMessages(w, S)
      PROVE  SendInv'
  <2>1. \A m \in Messages : outbox'[m] = IF m \in S THEN Claimed(outbox[m]) ELSE outbox[m]
    BY <1>6 DEF ClaimMessages
  <2>2. \A m \in S : /\ outbox[m].status = "pending"
                     /\ outbox'[m].status = "processing"
                     /\ outbox'[m].attempts = outbox[m].attempts + 1
    BY <1>6, <2>1 DEF ClaimMessages, Claimable, Claimed, TypeOK, Row
  <2>3. UNCHANGED <<sends, current, phase>>
    BY <1>6 DEF ClaimMessages
  <2>4. \A m \in S : outbox[m].attempts + 1 <= MaxSends /\ sends[m] < outbox[m].attempts + 1
    BY <1>1, <1>2, <2>2 DEF SendInv
  <2>5. SendsAreBounded' /\ SentWasTaken'
    BY <1>1, <2>1, <2>2, <2>3, <2>4 DEF SendInv, SendsAreBounded, SentWasTaken
  <2>6. \A m \in Messages :
           outbox'[m].status \in {"absent", "pending"} => outbox'[m].attempts < MaxSends
    BY <2>1, <2>2 DEF SendInv
  <2>7. \A v \in Workers : \A m \in batch'[v] : sends[m] < outbox'[m].attempts
    <3>1. batch' = [batch EXCEPT ![w] = S] /\ batch \in [Workers -> SUBSET Messages]
      BY <1>6 DEF ClaimMessages, TypeOK
    <3>2. \A v \in Workers \ {w} : \A m \in batch[v] : m \notin S
      BY <2>2, <3>1 DEF ClaimInv, ClaimsAreExclusive, Holds
    <3> QED
      BY <2>1, <2>2, <2>4, <3>1, <3>2 DEF SendInv
  <2> QED
    BY <2>3, <2>5, <2>6, <2>7 DEF SendInv
<1>7. ASSUME NEW w \in Workers, NEW m \in batch[w], NEW taken \in BOOLEAN, NEW answered \in BOOLEAN,
             Send(w, m, taken, answered)
      PROVE  SendInv'
  <2>1. m \in Messages /\ sends[m] < outbox[m].attempts /\ batch \in [Workers -> SUBSET Messages]
    BY DEF TypeOK, SendInv
  <2>2. /\ sends' = [sends EXCEPT ![m] = IF taken THEN sends[m] + 1 ELSE sends[m]]
        /\ batch' = [batch EXCEPT ![w] = batch[w] \ {m}]
        /\ current' = [current EXCEPT ![w] = m]
        /\ phase' = [phase EXCEPT ![w] = IF answered THEN "accepted" ELSE "failing"]
        /\ outbox' = outbox
        /\ answered => taken
    BY <1>7 DEF Send
  <2>3. \A n \in Messages : sends'[n] >= sends[n] /\ (n # m => sends'[n] = sends[n])
    BY <1>1, <2>1, <2>2 DEF TypeOK
  <2>4. sends'[m] <= outbox[m].attempts /\ (taken => sends'[m] > 0) /\ sends'[m] \in Nat
    BY <1>1, <2>1, <2>2 DEF TypeOK
  <2>5. SendsAreBounded'
    BY <1>1, <2>2, <2>3, <2>4 DEF SendsAreBounded
  <2>6. SentWasTaken'
    BY <1>1, <2>1, <2>2, <2>3, <2>4 DEF SendInv, SentWasTaken
  <2>7. \A v \in Workers : \A n \in batch'[v] : sends'[n] < outbox'[n].attempts
    <3>1. \A v \in Workers : m \notin batch'[v]
      BY <2>1, <2>2 DEF ClaimInv, ClaimsAreExclusive, Holds
    <3>2. \A v \in Workers : batch'[v] \subseteq batch[v]
      BY <2>1, <2>2
    <3> QED
      BY <2>1, <2>2, <2>3, <3>1, <3>2 DEF SendInv
  <2>8. \A v \in Workers : phase'[v] = "accepted" => sends'[current'[v]] > 0
    <3>1. phase'[w] = "accepted" => sends'[current'[w]] > 0
      BY <2>2, <2>4 DEF TypeOK
    <3>2. ASSUME NEW v \in Workers \ {w}, phase'[v] = "accepted"
          PROVE  sends'[current'[v]] > 0
      <4>1. phase[v] = "accepted" /\ current'[v] = current[v] /\ current[v] \in Messages
        BY <1>3, <2>2, <3>2 DEF TypeOK
      <4> QED
        BY <1>1, <2>3, <2>4, <4>1 DEF SendInv
    <3> QED
      BY <3>1, <3>2
  <2> QED
    BY <2>2, <2>5, <2>6, <2>7, <2>8 DEF SendInv
<1>8. ASSUME NEW w \in Workers, MarkSent(w) \/ MarkSentLegacy(w) \/ MarkRetry(w)
      PROVE  SendInv'
  <2> DEFINE m == current[w]
  <2>1. m \in Messages /\ m \in Holds(w) /\ m \notin batch[w] /\ outbox[m] \in Row
    BY <1>8 DEF MarkSent, MarkSentLegacy, MarkRetry, ClaimInv, Busy, OnePlace, Holds, TypeOK
  <2>2. /\ outbox'[m].attempts = outbox[m].attempts
        /\ outbox'[m].status = "sent" => phase[w] = "accepted"
        /\ outbox'[m].status = "pending" => outbox[m].attempts < MaxSends
        /\ outbox'[m].status # "absent"
    <3>1. CASE MarkSent(w)
      BY <2>1, <3>1 DEF MarkSent, MarkedSent, Row, TypeOK
    <3>2. CASE MarkSentLegacy(w)
      BY <2>1, <3>2 DEF MarkSentLegacy, MarkedSentLegacy, Row, TypeOK
    <3>3. CASE MarkRetry(w)
      <4>1. outbox'[m] = MarkedRetry(outbox[m])
        BY <2>1, <3>3 DEF MarkRetry, TypeOK
      <4> QED
        BY <1>1, <1>2, <2>1, <4>1 DEF MarkedRetry, Row
    <3> QED
      BY <1>8, <3>1, <3>2, <3>3
  <2>3. \A n \in Messages \ {m} : outbox'[n] = outbox[n]
    BY <1>8 DEF MarkSent, MarkSentLegacy, MarkRetry, TypeOK
  <2>4. /\ UNCHANGED <<sends, batch>>
        /\ \A v \in Workers : phase'[v] = "accepted" =>
              v # w /\ phase[v] = "accepted" /\ current'[v] = current[v]
    BY <1>8 DEF MarkSent, MarkSentLegacy, MarkRetry, Done, TypeOK
  <2>5. SendsAreBounded' /\ SentWasTaken'
    BY <2>1, <2>2, <2>3, <2>4 DEF SendInv, SendsAreBounded, SentWasTaken
  <2>6. \A n \in Messages :
           outbox'[n].status \in {"absent", "pending"} => outbox'[n].attempts < MaxSends
    BY <2>2, <2>3 DEF SendInv
  <2>7. \A v \in Workers : \A n \in batch[v] : n \in Messages /\ outbox'[n].attempts = outbox[n].attempts
    BY <2>2, <2>3 DEF TypeOK
  <2> QED
    BY <2>4, <2>5, <2>6, <2>7 DEF SendInv
<1>9. ASSUME NEW w \in Workers, MarkFails(w) \/ Crash(w)
      PROVE  SendInv'
  <2>1. /\ UNCHANGED <<outbox, sends>>
        /\ \A v \in Workers : batch'[v] \subseteq batch[v]
        /\ \A v \in Workers : phase'[v] = "accepted" => phase[v] = "accepted" /\ current'[v] = current[v]
    BY <1>9 DEF MarkFails, Crash, Done, TypeOK
  <2> QED
    BY <2>1 DEF SendInv, SendsAreBounded, SentWasTaken
<1>10. ASSUME NEW m \in Messages, NEW n \in 1..MaxSends, NEW s \in Reported, ReceiveReceipt(m, n, s)
       PROVE  SendInv'
  BY <1>4, <1>10 DEF ReceiveReceipt, TypeOK, Row
<1>11. CASE UNCHANGED vars
  BY <1>4, <1>11 DEF vars
<1> QED
  BY <1>5, <1>6, <1>7, <1>8, <1>9, <1>10, <1>11 DEF Next, Claim, Work

\* A claim has always counted the send before it is made (claim_messages).
THEOREM SendInvariant == Spec => []SendInv
<1>1. Init => SendInv
  BY OutboxAssumption
     DEF OutboxAssumption, Init, SendInv, SendsAreBounded, SentWasTaken, NoRow
<1>2. TypeOK /\ ClaimInv /\ SendInv /\ [Next]_vars => SendInv'
  BY SendInvStep
<1> QED
  BY <1>1, <1>2, TypeCorrect, ClaimInvariant, PTL DEF Spec

\* A message is sent at most once per attempt and at most MaxSends times.
THEOREM SendsBounded == Spec => []SendsAreBounded
  BY SendInvariant, PTL DEF SendInv

\* What is marked sent was taken by WhatsApp.
THEOREM SentWereTaken == Spec => []SentWasTaken
  BY SendInvariant, PTL DEF SendInv

-----------------------------------------------------------------------------
(* Receipts.  Only a sent row has a provider id, that of its last send, and *)
(* a sent row is in nobody's hands to be sent again.                       *)

ReceiptInv ==
    /\ \A m \in Messages :
          /\ outbox[m].status # "sent" => outbox[m].pid = NoId /\ outbox[m].receipt = "pending"
          /\ outbox[m].pid # NoId => outbox[m].pid = sends[m]
          /\ outbox[m].receipt # "pending" => outbox[m].pid # NoId
    /\ ReceiptIsOfThisSend

\* A message in a worker's hands is in processing.
LEMMA HeldIsProcessing ==
    ASSUME TypeOK, ClaimInv, NEW w \in Workers, NEW m \in Holds(w)
    PROVE  m \in Messages /\ outbox[m].status = "processing"
  BY DEF TypeOK, ClaimInv, ClaimsAreExclusive, Holds

\* Every step keeps provider ids and receipts with the rows that were sent.
LEMMA ReceiptInvStep ==
    ASSUME TypeOK, ClaimInv, ReceiptInv, [Next]_vars
    PROVE  ReceiptInv'
<1>1. ASSUME ledger \subseteq ledger', NEW m \in Messages,
             sends'[m] = sends[m] \/ outbox[m].status # "sent",
             outbox'[m].pid = outbox[m].pid, outbox'[m].receipt = outbox[m].receipt,
             outbox[m].status = "sent" => outbox'[m].status = "sent"
      PROVE  /\ outbox'[m].status # "sent" => outbox'[m].pid = NoId /\ outbox'[m].receipt = "pending"
             /\ outbox'[m].pid # NoId => outbox'[m].pid = sends'[m]
             /\ outbox'[m].receipt # "pending" =>
                  /\ outbox'[m].pid # NoId
                  /\ outbox'[m].status = "sent" /\ outbox'[m].pid = sends'[m]
                  /\ <<m, outbox'[m].pid, outbox'[m].receipt>> \in ledger'
  BY <1>1 DEF ReceiptInv, ReceiptIsOfThisSend
<1>2. ASSUME ledger \subseteq ledger',
             \A m \in Messages :
                /\ sends'[m] = sends[m] \/ outbox[m].status # "sent"
                /\ outbox'[m].pid = outbox[m].pid /\ outbox'[m].receipt = outbox[m].receipt
                /\ outbox[m].status = "sent" => outbox'[m].status = "sent"
      PROVE  ReceiptInv'
  BY <1>1, <1>2 DEF ReceiptInv, ReceiptIsOfThisSend
<1>3. ASSUME NEW m \in Messages, Enqueue(m) \/ BackoffEnds(m)
      PROVE  ReceiptInv'
  <2>1. /\ outbox[m].status # "sent" /\ outbox[m] \in Row
        /\ UNCHANGED <<ledger, sends>>
    BY <1>3 DEF Enqueue, BackoffEnds, TypeOK
  <2>2. \/ outbox' = [outbox EXCEPT ![m].status = "pending", ![m].due = TRUE]
        \/ outbox' = [outbox EXCEPT ![m].due = TRUE]
    BY <1>3 DEF Enqueue, BackoffEnds
  <2>3. \A n \in Messages \ {m} : outbox'[n] = outbox[n]
    BY <2>2 DEF TypeOK
  <2>4. outbox'[m].pid = outbox[m].pid /\ outbox'[m].receipt = outbox[m].receipt
    <3>1. CASE outbox' = [outbox EXCEPT ![m].status = "pending", ![m].due = TRUE]
      BY <2>1, <3>1 DEF TypeOK, Row
    <3>2. CASE outbox' = [outbox EXCEPT ![m].due = TRUE]
      BY <2>1, <3>2 DEF TypeOK, Row
    <3> QED
      BY <2>2, <3>1, <3>2
  <2> QED
    BY <1>2, <2>1, <2>3, <2>4
<1>4. ASSUME NEW w \in Workers, NEW S \in SUBSET Messages, ClaimMessages(w, S)
      PROVE  ReceiptInv'
  <2>1. \A m \in S : Claimed(outbox[m]).pid = outbox[m].pid /\ Claimed(outbox[m]).receipt = outbox[m].receipt
                       /\ outbox[m].status = "pending"
    BY <1>4 DEF ClaimMessages, Claimable, Claimed, TypeOK, Row
  <2> QED
    BY <1>2, <1>4, <2>1 DEF ClaimMessages
<1>5. ASSUME NEW w \in Workers, NEW m \in batch[w], NEW taken \in BOOLEAN, NEW answered \in BOOLEAN,
             Send(w, m, taken, answered)
      PROVE  ReceiptInv'
  <2>1. m \in Messages /\ outbox[m].status = "processing"
    BY HeldIsProcessing DEF Holds
  <2>2. UNCHANGED <<outbox, ledger>> /\ \A n \in Messages \ {m} : sends'[n] = sends[n]
    BY <1>5 DEF Send, TypeOK
  <2> QED
    BY <1>2, <2>1, <2>2
<1>6. ASSUME NEW w \in Workers, MarkSentLegacy(w) \/ MarkRetry(w)
      PROVE  ReceiptInv'
  <2>1. current[w] \in Messages /\ outbox[current[w]].status = "processing" /\ outbox[current[w]] \in Row
    BY <1>6, HeldIsProcessing DEF MarkSentLegacy, MarkRetry, ClaimInv, Busy, Holds, TypeOK
  <2>2. \A row \in Row : /\ MarkedSentLegacy(row).pid = row.pid
                         /\ MarkedSentLegacy(row).receipt = row.receipt
                         /\ MarkedRetry(row).pid = row.pid
                         /\ MarkedRetry(row).receipt = row.receipt
    BY DEF MarkedSentLegacy, MarkedRetry, Row
  <2> QED
    BY <1>2, <1>6, <2>1, <2>2 DEF MarkSentLegacy, MarkRetry, TypeOK
<1>7. ASSUME NEW w \in Workers, MarkSent(w)
      PROVE  ReceiptInv'
  <2> DEFINE m == current[w]
  <2>1. m \in Messages /\ outbox[m] \in Row /\ sends[m] \in Nat
    BY <1>7 DEF MarkSent, ClaimInv, Busy, TypeOK
  <2>2. /\ outbox' = [outbox EXCEPT ![m] = MarkedSent(outbox[m], sends[m])]
        /\ ledger' = ledger \cup {<<m, sends[m], "sent">>} /\ sends' = sends
    BY <1>7 DEF MarkSent
  <2>3. outbox'[m].status = "sent" /\ outbox'[m].pid = sends[m] /\ outbox'[m].receipt = "sent"
    BY <2>1, <2>2 DEF MarkedSent, Row, TypeOK
  <2>4. sends[m] # NoId
    BY <2>1, OutboxAssumption DEF OutboxAssumption
  <2>5. \A n \in Messages \ {m} : outbox'[n] = outbox[n]
    BY <2>2 DEF TypeOK
  <2> QED
    BY <2>2, <2>3, <2>4, <2>5 DEF ReceiptInv, ReceiptIsOfThisSend
<1>8. ASSUME NEW w \in Workers, MarkFails(w) \/ Crash(w)
      PROVE  ReceiptInv'
  BY <1>2, <1>8 DEF MarkFails, Crash
<1>9. ASSUME NEW m \in Messages, NEW n \in 1..MaxSends, NEW s \in Reported, ReceiveReceipt(m, n, s)
      PROVE  ReceiptInv'
  <2>1. CASE ~Matched(m, n)
    BY <1>2, <1>9, <2>1 DEF ReceiveReceipt
  <2>2. CASE Matched(m, n)
    <3>1. n # NoId /\ outbox[m].pid = n
      BY <2>2, OutboxAssumption DEF Matched, OutboxAssumption
    <3>2. outbox[m].status = "sent" /\ n = sends[m]
      BY <3>1 DEF ReceiptInv
    <3>3. /\ outbox' = [outbox EXCEPT ![m] = [outbox[m] EXCEPT !.receipt = s]]
          /\ ledger' = ledger \cup {<<m, n, s>>} /\ sends' = sends
      BY <1>9, <2>2, Zenon DEF ReceiveReceipt
    <3>4. outbox'[m].status = "sent" /\ outbox'[m].pid = n /\ outbox'[m].receipt = s
      BY <3>1, <3>2, <3>3 DEF TypeOK, Row
    <3>5. \A l \in Messages \ {m} : outbox'[l] = outbox[l]
      BY <3>3 DEF TypeOK
    <3> QED
      BY <3>1, <3>2, <3>3, <3>4, <3>5 DEF ReceiptInv, ReceiptIsOfThisSend
  <2> QED
    BY <2>1, <2>2
<1>10. CASE UNCHANGED vars
  BY <1>2, <1>10 DEF vars
<1> QED
  BY <1>3, <1>4, <1>5, <1>6, <1>7, <1>8, <1>9, <1>10 DEF Next, Claim, Work

\* Only a sent row has a provider id, and it is the id of its last send.
THEOREM ReceiptInvariant == Spec => []ReceiptInv
<1>1. Init => ReceiptInv
  BY DEF Init, ReceiptInv, ReceiptIsOfThisSend, NoRow
<1>2. TypeOK /\ ClaimInv /\ ReceiptInv /\ [Next]_vars => ReceiptInv'
  BY ReceiptInvStep
<1> QED
  BY <1>1, <1>2, TypeCorrect, ClaimInvariant, PTL DEF Spec

\* The receipt a row shows is of the send the row records.
THEOREM ReceiptsMatchSends == Spec => []ReceiptIsOfThisSend
  BY ReceiptInvariant, PTL DEF ReceiptInv

\* Sent and failed are final: a late mark is of a row its worker still holds.
THEOREM DecisionsAreFinal == Spec => DecidedIsFinal
<1>1. TypeOK /\ ClaimInv /\ [Next]_vars =>
        [\A m \in Messages :
            outbox[m].status \in {"sent", "failed"} => outbox'[m].status = outbox[m].status]_vars
  <2> SUFFICES ASSUME TypeOK, ClaimInv, [Next]_vars, NEW m \in Messages,
                      outbox[m].status \in {"sent", "failed"}
               PROVE  outbox'[m].status = outbox[m].status
    OBVIOUS
  <2>1. ASSUME NEW n \in Messages, Enqueue(n) \/ BackoffEnds(n)
        PROVE  outbox'[m].status = outbox[m].status
    BY <2>1 DEF Enqueue, BackoffEnds, TypeOK, Row
  <2>2. ASSUME NEW w \in Workers, NEW S \in SUBSET Messages, ClaimMessages(w, S)
        PROVE  outbox'[m].status = outbox[m].status
    BY <2>2 DEF ClaimMessages, Claimable
  <2>3. ASSUME NEW w \in Workers, MarkSent(w) \/ MarkSentLegacy(w) \/ MarkRetry(w)
        PROVE  outbox'[m].status = outbox[m].status
    <3>1. current[w] # m
      BY <2>3, HeldIsProcessing DEF MarkSent, MarkSentLegacy, MarkRetry, ClaimInv, Busy, Holds
    <3> QED
      BY <2>3, <3>1 DEF MarkSent, MarkSentLegacy, MarkRetry, TypeOK
  <2>4. ASSUME NEW l \in Messages, NEW n \in 1..MaxSends, NEW s \in Reported, ReceiveReceipt(l, n, s)
        PROVE  outbox'[m].status = outbox[m].status
    BY <2>4 DEF ReceiveReceipt, TypeOK, Row
  <2> QED
    BY <2>1, <2>2, <2>3, <2>4 DEF Next, Claim, Work, Send, MarkFails, Crash, vars
<1> QED
  BY <1>1, TypeCorrect, ClaimInvariant, PTL DEF Spec, DecidedIsFinal
=============================================================================
