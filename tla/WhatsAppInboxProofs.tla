-------------------------- MODULE WhatsAppInboxProofs --------------------------
(***************************************************************************)
(* Proofs about WhatsAppInbox, for any set of events and workers and any   *)
(* values of its constants.                                                *)
(***************************************************************************)
EXTENDS WhatsAppInbox, TLAPS

-----------------------------------------------------------------------------
(* Types. *)

\* The row operators keep rows well typed.
LEMMA RowOperators ==
    ASSUME NEW row \in Row
    PROVE  /\ Recorded(row) \in Row
           /\ Recovered(row) \in Row
           /\ Claimed(row) \in Row
           /\ MarkedProcessed(row) \in Row
           /\ MarkedFailed(row) \in Row
<1> USE DEF Row, Status
<1>1. Recorded(row) \in Row
  BY DEF Recorded
<1>2. Recovered(row) \in Row
  BY DEF Recovered
<1>3. Claimed(row) \in Row
  <2>1. row.attempts + 1 \in Nat
    OBVIOUS
  <2> QED
    BY <2>1 DEF Claimed
<1>4. MarkedProcessed(row) \in Row
  BY DEF MarkedProcessed
<1>5. MarkedFailed(row) \in Row
  BY DEF MarkedFailed
<1> QED
  BY <1>1, <1>2, <1>3, <1>4, <1>5

\* Enqueuing a reply leaves a function to the naturals, whatever the event.
LEMMA ReplyToType ==
    ASSUME TypeOK, NEW k
    PROVE  ReplyTo(k) \in [Events -> Nat]
<1>1. CASE k \in Events
  <2>1. replies[k] + 1 \in Nat
    BY <1>1 DEF TypeOK
  <2> QED
    BY <2>1 DEF TypeOK, ReplyTo
<1>2. CASE k \notin Events
  BY <1>2 DEF TypeOK, ReplyTo
<1> QED
  BY <1>1, <1>2

\* The type invariant holds in every reachable state.
THEOREM TypeCorrect == Spec => []TypeOK
<1>1. Init => TypeOK
  BY InboxAssumption DEF InboxAssumption, Init, TypeOK, NoRow, Row, Status, Phase
<1>2. TypeOK /\ [Next]_vars => TypeOK'
  <2> SUFFICES ASSUME TypeOK, [Next]_vars
               PROVE  TypeOK'
    OBVIOUS
  <2> USE DEF TypeOK
  <2>1. ASSUME NEW k \in Events, Receive(k)
        PROVE  TypeOK'
    BY <2>1, RowOperators DEF Receive
  <2>2. ASSUME NEW k \in Events, BackoffEnds(k)
        PROVE  TypeOK'
    BY <2>2 DEF BackoffEnds, Row
  <2>3. ASSUME NEW k \in Events, LeaseExpires(k)
        PROVE  TypeOK'
    BY <2>3 DEF LeaseExpires, Row
  <2>4. ASSUME NEW w \in Workers, NEW S \in SUBSET Events, DrainClaiming(w, S)
        PROVE  TypeOK'
    <3>1. \A k \in Events : Recovered(inbox[k]) \in Row /\ Claimed(Recovered(inbox[k])) \in Row
      BY RowOperators
    <3>2. inbox' \in [Events -> Row]
      BY <2>4, <3>1 DEF DrainClaiming
    <3>3. {[key |-> k, attempt |-> Recovered(inbox[k]).attempts + 1] : k \in S} \in SUBSET Claim
      BY <3>1 DEF Claim, Row
    <3>4. batch' \in [Workers -> SUBSET Claim]
      BY <2>4, <3>3 DEF DrainClaiming
    <3> QED
      BY <2>4, <3>2, <3>4 DEF DrainClaiming
  <2>5. ASSUME NEW w \in Workers, NEW c \in batch[w],
               \/ ProcessDuplicate(w, c) \/ ProcessFresh(w, c)
               \/ ProcessConfirm(w, c) \/ ProcessFails(w, c)
        PROVE  TypeOK'
    <3>1. c \in Claim /\ c.key \in Events /\ MsgId(c.key) \in MsgIds
      BY DEF Claim, MsgIds
    <3> QED
      BY <2>5, <3>1 DEF ProcessDuplicate, ProcessFresh, ProcessConfirm, ProcessFails,
                        Begin, Phase, ReplyTo
  <2>6. ASSUME NEW w \in Workers, EnqueueReply(w)
        PROVE  TypeOK'
    BY <2>6, ReplyToType DEF EnqueueReply, Phase
  <2>7. ASSUME NEW w \in Workers, StepFails(w)
        PROVE  TypeOK'
    BY <2>7 DEF StepFails, Phase
  <2>8. ASSUME NEW w \in Workers, MarkProcessed(w) \/ MarkFailed(w)
        PROVE  TypeOK'
    BY <2>8, RowOperators DEF MarkProcessed, MarkFailed, Mark, Phase
  <2>9. ASSUME NEW w \in Workers, Crash(w)
        PROVE  TypeOK'
    BY <2>9, InboxAssumption DEF InboxAssumption, Crash, Phase
  <2>10. CASE UNCHANGED vars
    BY <2>10 DEF vars
  <2> QED
    BY <2>1, <2>2, <2>3, <2>4, <2>5, <2>6, <2>7, <2>8, <2>9, <2>10
       DEF Next, Drain, Process, Finish
<1> QED
  BY <1>1, <1>2, PTL DEF Spec
-----------------------------------------------------------------------------
(* The inductive invariant.  The dedup table and the runs of the command    *)
(* tell the same story, a worker past its transaction has its message in   *)
(* the dedup table, and a worker between confirm's commit and the reply is *)
(* the only one that can still enqueue it.                                 *)

DedupInv ==
    \A k \in Events :
        /\ executed[k] \in {0, 1}
        /\ executed[k] = 1 => MsgId(k) \in dedup
        /\ MsgId(k) \in dedup => \E l \in Events : MsgId(l) = MsgId(k) /\ executed[l] = 1
        /\ \A l \in Events : k # l /\ MsgId(k) = MsgId(l) => executed[k] = 0 \/ executed[l] = 0
        /\ inbox[k].status = "processed" => MsgId(k) \in dedup

\* What the outbox holds for the events, by the key of their replies.
OutboxInv ==
    \A k \in Events :
        /\ replies[k] \in {0, executed[k]}
        /\ executed[k] = 1 /\ k \notin Confirms => Enqueued(k)
        /\ \A l \in Events : k # l /\ IdemKey[k] = IdemKey[l] => replies[k] = 0 \/ replies[l] = 0

WorkerInv ==
    \A w \in Workers :
        /\ phase[w] = "ready" <=> current[w] = NoClaim
        /\ phase[w] = "done" => MsgId(current[w].key) \in dedup
        /\ phase[w] = "replying" =>
              /\ current[w].key \in Confirms
              /\ executed[current[w].key] = 1
              /\ replies[current[w].key] = 0
              /\ \A v \in Workers \ {w} :
                    phase[v] = "replying" => current[v].key # current[w].key

LeaseInv ==
    \A w \in Workers : \A c \in Holds(w) :
        /\ inbox[c.key].status # "absent"
        /\ c.attempt <= inbox[c.key].attempts
        /\ \A v \in Workers \ {w} : c \notin Holds(v)

IInv == DedupInv /\ OutboxInv /\ WorkerInv /\ LeaseInv

\* A worker that is not between two events is in the middle of a claimed row.
LEMMA Busy ==
    ASSUME TypeOK, WorkerInv, NEW w \in Workers, phase[w] # "ready"
    PROVE  /\ current[w] \in Claim /\ current[w].key \in Events
           /\ current[w] \in Holds(w)
  BY DEF TypeOK, WorkerInv, Claim, Holds

\* The initial states satisfy it.
LEMMA InitIInv == Init => IInv
  BY DEF Init, IInv, DedupInv, OutboxInv, WorkerInv, LeaseInv, Holds, NoRow

\* A step that runs and answers nothing keeps the outbox as it was.
LEMMA OutboxKept ==
    ASSUME OutboxInv, UNCHANGED <<executed, replies>>
    PROVE  OutboxInv'
  BY DEF OutboxInv, Enqueued

\* What enqueue_channel does for an event that has no reply yet.
LEMMA ReplyToIs ==
    ASSUME TypeOK, OutboxInv, NEW k \in Events, replies[k] = 0
    PROVE  \/ Enqueued(k) /\ ReplyTo(k) = replies
           \/ ~Enqueued(k) /\ ReplyTo(k) = [replies EXCEPT ![k] = 1]
  BY DEF ReplyTo, TypeOK

\* Enqueuing the reply of an event that ran keeps the outbox consistent.
LEMMA OutboxStep ==
    ASSUME TypeOK, OutboxInv, NEW k \in Events, replies[k] = 0,
           executed' = [executed EXCEPT ![k] = 1], executed[k] \in {0, 1},
           replies' = ReplyTo(k) \/ (replies' = replies /\ k \in Confirms)
    PROVE  OutboxInv'
<1>1. \A l \in Events : executed'[l] = IF l = k THEN 1 ELSE executed[l]
  BY DEF TypeOK
<1>2. CASE replies' = replies
  <2>1. \A l \in Events : Enqueued(l)' <=> Enqueued(l)
    BY <1>2 DEF Enqueued
  <2>2. k \in Confirms \/ Enqueued(k)
    BY <1>2, ReplyToIs DEF TypeOK
  <2> QED
    BY <1>1, <1>2, <2>1, <2>2 DEF OutboxInv
<1>3. CASE ~Enqueued(k) /\ replies' = [replies EXCEPT ![k] = 1]
  <2>1. \A l \in Events : replies'[l] = IF l = k THEN 1 ELSE replies[l]
    BY <1>3 DEF TypeOK
  <2>2. \A l \in Events : IdemKey[l] = IdemKey[k] => replies[l] = 0
    BY <1>3 DEF Enqueued, TypeOK
  <2>3. \A l \in Events : Enqueued(l) \/ l = k => Enqueued(l)'
    BY <2>1 DEF Enqueued
  <2>4. ASSUME NEW l \in Events
        PROVE  /\ replies'[l] \in {0, executed'[l]}
               /\ executed'[l] = 1 /\ l \notin Confirms => Enqueued(l)'
    BY <1>1, <2>1, <2>3 DEF OutboxInv
  <2>5. ASSUME NEW l \in Events, NEW m \in Events, l # m, IdemKey[l] = IdemKey[m]
        PROVE  replies'[l] = 0 \/ replies'[m] = 0
    BY <2>1, <2>2, <2>5 DEF OutboxInv
  <2> QED
    BY <2>4, <2>5 DEF OutboxInv
<1> QED
  BY <1>2, <1>3, ReplyToIs
\* Steps that only move the inbox row of one event along, by an operator that
\* neither marks it processed nor forgets it.
LEMMA RowStep ==
    ASSUME TypeOK, IInv,
           UNCHANGED <<dedup, executed, replies, batch, current, phase>>,
           \A k \in Events :
              /\ inbox'[k].status = "processed" => inbox[k].status = "processed"
              /\ inbox[k].status # "absent" => inbox'[k].status # "absent"
              /\ inbox'[k].attempts = inbox[k].attempts
    PROVE  IInv'
<1>1. DedupInv'
  BY DEF IInv, DedupInv, TypeOK
<1>2. WorkerInv'
  BY DEF IInv, WorkerInv
<1>3. LeaseInv'
  <2> SUFFICES ASSUME NEW w \in Workers, NEW c \in Holds(w)'
               PROVE  /\ inbox'[c.key].status # "absent"
                      /\ c.attempt <= inbox'[c.key].attempts
                      /\ \A v \in Workers \ {w} : c \notin Holds(v)'
    BY DEF LeaseInv
  <2>1. c \in Holds(w) /\ c.key \in Events
    BY DEF Holds, TypeOK, Claim
  <2> QED
    BY <2>1 DEF IInv, LeaseInv, Holds
<1>4. OutboxInv'
  BY OutboxKept DEF IInv
<1> QED
  BY <1>1, <1>2, <1>3, <1>4 DEF IInv

\* The transaction of recover_stale_inbox_events and claim_inbox_events keeps IInv.
LEMMA DrainStep ==
    ASSUME TypeOK, IInv, NEW w \in Workers, NEW S \in SUBSET Events, DrainClaiming(w, S)
    PROVE  IInv'
<1> DEFINE swept == [k \in Events |-> Recovered(inbox[k])]
           new == {[key |-> k, attempt |-> swept[k].attempts + 1] : k \in S}
<1>1. \A k \in Events :
         /\ swept[k] \in Row
         /\ swept[k].attempts = inbox[k].attempts
         /\ swept[k].status = "processed" => inbox[k].status = "processed"
         /\ inbox[k].status = "absent" <=> swept[k].status = "absent"
  <2> SUFFICES ASSUME NEW k \in Events
               PROVE  /\ Recovered(inbox[k]) \in Row
                      /\ Recovered(inbox[k]).attempts = inbox[k].attempts
                      /\ Recovered(inbox[k]).status = "processed" => inbox[k].status = "processed"
                      /\ inbox[k].status = "absent" <=> Recovered(inbox[k]).status = "absent"
    OBVIOUS
  <2> QED
    BY RowOperators DEF TypeOK, Recovered, Row
<1>2. \A k \in Events :
         /\ k \in S => inbox'[k].status = "processing" /\ inbox'[k].attempts = inbox[k].attempts + 1
         /\ k \notin S => inbox'[k] = swept[k]
  <2> SUFFICES ASSUME NEW k \in Events
               PROVE  /\ k \in S => /\ inbox'[k].status = "processing"
                                    /\ inbox'[k].attempts = inbox[k].attempts + 1
                      /\ k \notin S => inbox'[k] = swept[k]
    OBVIOUS
  <2>1. inbox'[k] = IF k \in S THEN Claimed(swept[k]) ELSE swept[k]
    BY DEF DrainClaiming
  <2> QED
    BY <1>1, <2>1 DEF Claimed, Row
<1>3. /\ batch[w] = {} /\ current[w] = NoClaim /\ Holds(w) = {}
      /\ batch' = [batch EXCEPT ![w] = new]
      /\ UNCHANGED <<dedup, executed, replies, current, phase>>
  BY DEF DrainClaiming, Holds, IInv, WorkerInv
<1>4. DedupInv'
  BY <1>1, <1>2, <1>3 DEF IInv, DedupInv
<1>5. WorkerInv'
  BY <1>3 DEF IInv, WorkerInv
<1>6. LeaseInv'
  <2>1. Holds(w)' = new
    BY <1>3 DEF Holds, TypeOK
  <2>2. \A v \in Workers \ {w} : Holds(v)' = Holds(v)
    BY <1>3 DEF Holds, TypeOK
  <2>3. \A c \in new : /\ c.key \in Events /\ c.key \in S
                       /\ c.attempt = inbox[c.key].attempts + 1
    <3> SUFFICES ASSUME NEW c \in new
                 PROVE  /\ c.key \in Events /\ c.key \in S
                        /\ c.attempt = inbox[c.key].attempts + 1
      OBVIOUS
    <3>1. PICK k \in S : c = [key |-> k, attempt |-> swept[k].attempts + 1]
      OBVIOUS
    <3>2. k \in Events /\ swept[k].attempts = inbox[k].attempts
      BY <1>1
    <3> HIDE DEF swept, new
    <3> QED
      BY <3>1, <3>2
  <2>4. \A v \in Workers : \A c \in Holds(v) : c.key \in Events /\ c.attempt \in Nat
    BY DEF Holds, TypeOK, Claim
  <2>5. \A k \in Events : inbox[k].attempts \in Nat
    BY DEF TypeOK, Row
  <2>6. ASSUME NEW v \in Workers \ {w}, NEW c \in Holds(v)
        PROVE  /\ inbox'[c.key].status # "absent"
               /\ c.attempt <= inbox'[c.key].attempts
               /\ c \notin new
               /\ \A u \in Workers \ {v} : u # w => c \notin Holds(u)
    <3>1. inbox[c.key].status # "absent" /\ c.attempt <= inbox[c.key].attempts
      BY <2>6 DEF IInv, LeaseInv
    <3>2. c \notin new
      BY <3>1, <2>3, <2>4, <2>5
    <3> QED
      BY <3>1, <3>2, <1>1, <1>2, <2>4, <2>5 DEF IInv, LeaseInv
  <2>7. ASSUME NEW c \in new
        PROVE  /\ inbox'[c.key].status # "absent"
               /\ c.attempt <= inbox'[c.key].attempts
               /\ \A v \in Workers \ {w} : c \notin Holds(v)
    BY <2>3, <2>5, <2>6, <1>2
  <2> HIDE DEF swept, new
  <2> SUFFICES ASSUME NEW v \in Workers, NEW c \in Holds(v)'
               PROVE  /\ inbox'[c.key].status # "absent"
                      /\ c.attempt <= inbox'[c.key].attempts
                      /\ \A u \in Workers \ {v} : c \notin Holds(u)'
    BY DEF LeaseInv
  <2>8. CASE v = w
    BY <2>8, <2>1, <2>2, <2>7
  <2>9. CASE v # w
    BY <2>9, <2>1, <2>2, <2>6
  <2> QED
    BY <2>8, <2>9
<1>7. OutboxInv'
  BY <1>3, OutboxKept DEF IInv
<1> QED
  BY <1>4, <1>5, <1>6, <1>7 DEF IInv

\* Beginning an event moves its claim from the batch to the worker's hands.
LEMMA BeginHolds ==
    ASSUME TypeOK, IInv, NEW w \in Workers, NEW c \in batch[w], NEW p \in Phase, Begin(w, c, p)
    PROVE  /\ c \in Claim /\ c.key \in Events /\ c # NoClaim
           /\ current' = [current EXCEPT ![w] = c] /\ phase' = [phase EXCEPT ![w] = p]
           /\ \A v \in Workers : Holds(v)' = Holds(v)
<1>1. c \in Claim /\ c.key \in Events /\ c # NoClaim
  BY InboxAssumption DEF InboxAssumption, TypeOK, Claim
<1>2. current[w] = NoClaim
  BY DEF Begin, IInv, WorkerInv
<1>3. ASSUME NEW v \in Workers, v # w
      PROVE  Holds(v)' = Holds(v)
  BY <1>3 DEF Begin, Holds, TypeOK
<1>4. Holds(w)' = Holds(w)
  BY <1>1, <1>2 DEF Begin, Holds, TypeOK
<1> QED
  BY <1>1, <1>3, <1>4 DEF Begin

\* The four outcomes of process_inbox_event up to its first commit.
LEMMA ProcessStep ==
    ASSUME TypeOK, IInv, NEW w \in Workers, NEW c \in batch[w],
           \/ ProcessDuplicate(w, c) \/ ProcessFresh(w, c)
           \/ ProcessConfirm(w, c) \/ ProcessFails(w, c)
    PROVE  IInv'
<1>1. PICK p \in {"done", "replying", "failing"} : Begin(w, c, p)
  BY DEF ProcessDuplicate, ProcessFresh, ProcessConfirm, ProcessFails
<1>2. /\ c \in Claim /\ c.key \in Events /\ c # NoClaim
      /\ current' = [current EXCEPT ![w] = c] /\ phase' = [phase EXCEPT ![w] = p]
      /\ \A v \in Workers : Holds(v)' = Holds(v)
  BY <1>1, BeginHolds DEF Phase
<1>3. inbox' = inbox
  BY DEF ProcessDuplicate, ProcessFresh, ProcessConfirm, ProcessFails
<1>4. LeaseInv'
  BY <1>2, <1>3 DEF IInv, LeaseInv
<1>5. CASE ProcessDuplicate(w, c) \/ ProcessFails(w, c)
  <2>1. UNCHANGED <<dedup, executed, replies, inbox>>
    BY <1>5 DEF ProcessDuplicate, ProcessFails
  <2>2. p \in {"done", "failing"} /\ (p = "done" => MsgId(c.key) \in dedup)
    BY <1>1, <1>5, <1>2 DEF ProcessDuplicate, ProcessFails, Begin, FirstSeen, TypeOK
  <2>3. DedupInv'
    BY <2>1 DEF IInv, DedupInv
  <2>4. WorkerInv'
    BY <2>1, <2>2, <1>2 DEF IInv, WorkerInv, TypeOK
  <2>5. OutboxInv'
    BY <2>1, OutboxKept DEF IInv
  <2> QED
    BY <1>4, <2>3, <2>4, <2>5 DEF IInv
<1>6. CASE ProcessFresh(w, c) \/ ProcessConfirm(w, c)
  <2>1. /\ MsgId(c.key) \notin dedup
        /\ dedup' = dedup \cup {MsgId(c.key)}
        /\ executed' = [executed EXCEPT ![c.key] = @ + 1]
    BY <1>6 DEF ProcessFresh, ProcessConfirm, FirstSeen
  <2>2. executed[c.key] = 0 /\ replies[c.key] = 0
    BY <2>1, <1>2 DEF IInv, DedupInv, OutboxInv
  <2>3. executed' = [executed EXCEPT ![c.key] = 1]
    BY <2>1, <2>2, <1>2 DEF TypeOK
  <2>4. \/ p = "done" /\ replies' = ReplyTo(c.key)
        \/ p = "replying" /\ c.key \in Confirms /\ replies' = replies
    <3>1. CASE ProcessFresh(w, c)
      BY <3>1, <1>1, <1>2 DEF ProcessFresh, Begin, TypeOK
    <3>2. CASE ProcessConfirm(w, c)
      BY <3>2, <1>1, <1>2 DEF ProcessConfirm, Begin, TypeOK
    <3> QED
      BY <3>1, <3>2, <1>6
  <2>5. OutboxInv'
    BY <2>2, <2>3, <2>4, <1>2, OutboxStep DEF IInv
  <2>6. \A k \in Events : k # c.key => replies'[k] = replies[k]
    BY <2>4, <2>2, <1>2, ReplyToIs DEF IInv, TypeOK
  <2>7. DedupInv'
    <3> SUFFICES ASSUME NEW k \in Events
                 PROVE  /\ executed'[k] \in {0, 1}
                        /\ executed'[k] = 1 => MsgId(k) \in dedup'
                        /\ MsgId(k) \in dedup' =>
                             \E l \in Events : MsgId(l) = MsgId(k) /\ executed'[l] = 1
                        /\ \A l \in Events : k # l /\ MsgId(k) = MsgId(l) =>
                             executed'[k] = 0 \/ executed'[l] = 0
                        /\ inbox'[k].status = "processed" => MsgId(k) \in dedup'
      BY DEF DedupInv, MsgId
    <3>1. executed'[k] = (IF k = c.key THEN 1 ELSE executed[k])
      BY <2>3 DEF TypeOK
    <3>2. MsgId(k) \in dedup' => \E l \in Events : MsgId(l) = MsgId(k) /\ executed'[l] = 1
      BY <2>1, <2>3, <1>2 DEF IInv, DedupInv, TypeOK
    <3>3. \A l \in Events : k # l /\ MsgId(k) = MsgId(l) => executed'[k] = 0 \/ executed'[l] = 0
      BY <2>1, <2>3, <1>2 DEF IInv, DedupInv, TypeOK
    <3> QED
      BY <3>1, <3>2, <3>3, <2>1, <1>3 DEF IInv, DedupInv
  <2>8. WorkerInv'
    <3> SUFFICES ASSUME NEW v \in Workers
                 PROVE  /\ phase'[v] = "ready" <=> current'[v] = NoClaim
                        /\ phase'[v] = "done" => MsgId(current'[v].key) \in dedup'
                        /\ phase'[v] = "replying" =>
                              /\ current'[v].key \in Confirms
                              /\ executed'[current'[v].key] = 1
                              /\ replies'[current'[v].key] = 0
                              /\ \A u \in Workers \ {v} :
                                    phase'[u] = "replying" => current'[u].key # current'[v].key
      BY DEF WorkerInv, MsgId
    <3>1. \A u \in Workers \ {w} : phase'[u] = phase[u] /\ current'[u] = current[u]
      BY <1>2 DEF TypeOK
    <3>2. phase'[w] = p /\ current'[w] = c
      BY <1>2 DEF TypeOK
    <3>3. \A u \in Workers \ {w} : phase[u] = "replying" =>
             /\ current[u].key \in Events
             /\ executed[current[u].key] = 1
             /\ current[u].key # c.key
      BY <2>2, Busy DEF IInv, WorkerInv
    <3>4. CASE v = w
      BY <3>4, <3>1, <3>2, <3>3, <2>1, <2>2, <2>3, <2>4, <1>2 DEF TypeOK
    <3>5. CASE v # w
      BY <3>5, <3>1, <3>2, <3>3, <2>1, <2>3, <2>6, <1>2 DEF IInv, WorkerInv, TypeOK
    <3> QED
      BY <3>4, <3>5
  <2> QED
    BY <1>4, <2>5, <2>7, <2>8 DEF IInv
<1> QED
  BY <1>5, <1>6

\* The reply of a confirmed action, committed by the one worker that owes it.
LEMMA ReplyStep ==
    ASSUME TypeOK, IInv, NEW w \in Workers, EnqueueReply(w)
    PROVE  IInv'
<1> DEFINE e == current[w].key
<1>1. /\ phase[w] = "replying" /\ e \in Events /\ e \in Confirms
      /\ executed[e] = 1 /\ replies[e] = 0 /\ MsgId(e) \in dedup
  BY Busy DEF EnqueueReply, IInv, WorkerInv, DedupInv
<1>2. /\ replies' = ReplyTo(e)
      /\ phase' = [phase EXCEPT ![w] = "done"]
      /\ UNCHANGED <<inbox, dedup, executed, batch, current>>
  BY DEF EnqueueReply
<1>3. \A v \in Workers : Holds(v)' = Holds(v)
  BY <1>2 DEF Holds
<1>4. DedupInv'
  BY <1>2 DEF IInv, DedupInv
<1>5. OutboxInv'
  <2>1. executed' = [executed EXCEPT ![e] = 1]
    BY <1>1, <1>2 DEF TypeOK
  <2> QED
    BY <2>1, <1>1, <1>2, OutboxStep DEF IInv
<1>6. WorkerInv'
  <2>1. \A v \in Workers \ {w} : phase[v] = "replying" => current[v].key # e
    BY <1>1 DEF IInv, WorkerInv
  <2>2. \A v \in Workers : phase[v] = "replying" => current[v].key \in Events
    BY Busy DEF IInv
  <2>3. \A k \in Events : k # e => replies'[k] = replies[k]
    BY <1>1, <1>2, ReplyToIs DEF IInv, TypeOK
  <2> QED
    BY <1>1, <1>2, <2>1, <2>2, <2>3 DEF IInv, WorkerInv, TypeOK
<1>7. LeaseInv'
  BY <1>2, <1>3 DEF IInv, LeaseInv
<1> QED
  BY <1>4, <1>5, <1>6, <1>7 DEF IInv

\* A failure on the way only sends the worker to mark_inbox_failed.
LEMMA FailStep ==
    ASSUME TypeOK, IInv, NEW w \in Workers, StepFails(w)
    PROVE  IInv'
<1>1. /\ phase[w] # "ready"
      /\ phase' = [phase EXCEPT ![w] = "failing"]
      /\ UNCHANGED <<inbox, dedup, executed, replies, batch, current>>
  BY DEF StepFails
<1>2. DedupInv'
  BY <1>1 DEF IInv, DedupInv
<1>3. WorkerInv'
  BY <1>1 DEF IInv, WorkerInv, TypeOK
<1>4. LeaseInv'
  BY <1>1 DEF IInv, LeaseInv, Holds
<1>5. OutboxInv'
  BY <1>1, OutboxKept DEF IInv
<1> QED
  BY <1>2, <1>3, <1>4, <1>5 DEF IInv

\* Marking a row drops the claim on it, and may find the row under a newer one.
LEMMA MarkStep ==
    ASSUME TypeOK, IInv, NEW w \in Workers, MarkProcessed(w) \/ MarkFailed(w)
    PROVE  IInv'
<1> DEFINE e == current[w].key
<1>1. phase[w] \in {"done", "failing"} /\ e \in Events
  BY Busy DEF MarkProcessed, MarkFailed, IInv
<1>2. PICK row : /\ Mark(w, row)
                 /\ row.attempts = inbox[e].attempts /\ row.status # "absent"
                 /\ row.status = "processed" => MsgId(e) \in dedup
  <2> inbox[e] \in Row
    BY <1>1 DEF TypeOK
  <2>1. CASE MarkProcessed(w)
    <3>1. Mark(w, MarkedProcessed(inbox[e])) /\ MsgId(e) \in dedup
      BY <2>1 DEF MarkProcessed, IInv, WorkerInv
    <3>2. /\ MarkedProcessed(inbox[e]).attempts = inbox[e].attempts
          /\ MarkedProcessed(inbox[e]).status # "absent"
      BY DEF MarkedProcessed, Row
    <3> QED
      BY <3>1, <3>2
  <2>2. CASE MarkFailed(w)
    <3>1. Mark(w, MarkedFailed(inbox[e]))
      BY <2>2 DEF MarkFailed
    <3>2. /\ MarkedFailed(inbox[e]).attempts = inbox[e].attempts
          /\ MarkedFailed(inbox[e]).status \in {"dead_letter", "failed"}
      BY DEF MarkedFailed, Row
    <3> QED
      BY <3>1, <3>2
  <2> QED
    BY <2>1, <2>2
<1>3. /\ inbox' = [inbox EXCEPT ![e] = row]
      /\ current' = [current EXCEPT ![w] = NoClaim]
      /\ phase' = [phase EXCEPT ![w] = "ready"]
      /\ UNCHANGED <<dedup, executed, replies, batch>>
  BY <1>2 DEF Mark
<1>4. DedupInv'
  BY <1>1, <1>2, <1>3 DEF IInv, DedupInv, TypeOK
<1>5. WorkerInv'
  BY <1>3 DEF IInv, WorkerInv, TypeOK
<1>6. \A v \in Workers : Holds(v)' \subseteq Holds(v)
  BY <1>3 DEF Holds, TypeOK
<1>7. LeaseInv'
  <2> SUFFICES ASSUME NEW v \in Workers, NEW c \in Holds(v)'
               PROVE  /\ inbox'[c.key].status # "absent"
                      /\ c.attempt <= inbox'[c.key].attempts
                      /\ \A u \in Workers \ {v} : c \notin Holds(u)'
    BY DEF LeaseInv
  <2>1. c \in Holds(v) /\ c.key \in Events
    BY <1>6 DEF Holds, TypeOK, Claim
  <2>2. inbox'[c.key].status # "absent" /\ inbox'[c.key].attempts = inbox[c.key].attempts
    BY <2>1, <1>1, <1>2, <1>3 DEF IInv, LeaseInv, TypeOK
  <2> QED
    BY <2>1, <2>2, <1>6 DEF IInv, LeaseInv
<1>8. OutboxInv'
  BY <1>3, OutboxKept DEF IInv
<1> QED
  BY <1>4, <1>5, <1>7, <1>8 DEF IInv

\* A crash forgets the claims of one worker.
LEMMA CrashStep ==
    ASSUME TypeOK, IInv, NEW w \in Workers, Crash(w)
    PROVE  IInv'
<1>1. /\ batch' = [batch EXCEPT ![w] = {}]
      /\ current' = [current EXCEPT ![w] = NoClaim]
      /\ phase' = [phase EXCEPT ![w] = "ready"]
      /\ UNCHANGED <<inbox, dedup, executed, replies>>
  BY DEF Crash
<1>2. \A v \in Workers : Holds(v)' \subseteq Holds(v)
  BY <1>1 DEF Holds, TypeOK
<1>3. DedupInv'
  BY <1>1 DEF IInv, DedupInv
<1>4. WorkerInv'
  BY <1>1 DEF IInv, WorkerInv, TypeOK
<1>5. LeaseInv'
  BY <1>1, <1>2 DEF IInv, LeaseInv
<1>6. OutboxInv'
  BY <1>1, OutboxKept DEF IInv
<1> QED
  BY <1>3, <1>4, <1>5, <1>6 DEF IInv

\* The strengthening is inductive.
THEOREM Invariant == Spec => [](TypeOK /\ IInv)
<1>1. TypeOK /\ IInv /\ [Next]_vars => IInv'
  <2> SUFFICES ASSUME TypeOK, IInv, [Next]_vars
               PROVE  IInv'
    OBVIOUS
  <2>1. ASSUME NEW k \in Events, Receive(k) \/ BackoffEnds(k) \/ LeaseExpires(k)
        PROVE  IInv'
    <3>1. ASSUME NEW l \in Events
          PROVE  /\ inbox'[l].status = "processed" => inbox[l].status = "processed"
                 /\ inbox[l].status # "absent" => inbox'[l].status # "absent"
                 /\ inbox'[l].attempts = inbox[l].attempts
      <4>1. inbox \in [Events -> Row] /\ inbox[l] \in Row
        BY DEF TypeOK
      <4>2. CASE Receive(k)
        <5>1. inbox'[l] = IF l = k THEN Recorded(inbox[l]) ELSE inbox[l]
          BY <4>1, <4>2 DEF Receive
        <5> QED
          BY <4>1, <5>1 DEF Recorded, Row
      <4>3. CASE BackoffEnds(k)
        BY <4>1, <4>3 DEF BackoffEnds, Row
      <4>4. CASE LeaseExpires(k)
        BY <4>1, <4>4 DEF LeaseExpires, Row
      <4> QED
        BY <2>1, <4>2, <4>3, <4>4
    <3>2. UNCHANGED <<dedup, executed, replies, batch, current, phase>>
      BY <2>1 DEF Receive, BackoffEnds, LeaseExpires
    <3> QED
      BY <3>1, <3>2, RowStep
  <2>2. ASSUME NEW w \in Workers, Drain(w) \/ Process(w) \/ Finish(w) \/ Crash(w)
        PROVE  IInv'
    <3>1. CASE Drain(w)
      BY <3>1, DrainStep DEF Drain
    <3>2. CASE Process(w)
      BY <3>2, ProcessStep DEF Process
    <3>3. CASE Finish(w)
      BY <3>3, ReplyStep, FailStep, MarkStep DEF Finish
    <3>4. CASE Crash(w)
      BY <3>4, CrashStep
    <3> QED
      BY <2>2, <3>1, <3>2, <3>3, <3>4
  <2>3. CASE UNCHANGED vars
    BY <2>3, OutboxKept DEF vars, IInv, DedupInv, WorkerInv, LeaseInv, Holds
  <2> QED
    BY <2>1, <2>2, <2>3 DEF Next
<1> QED
  BY <1>1, InitIInv, TypeCorrect, PTL DEF Spec

-----------------------------------------------------------------------------
(* What follows. *)

\* AtMostOnce: no message id runs its command twice, on any set of accounts,
\* with any number of workers and crashes.
THEOREM HandledAtMostOnce == Spec => []AtMostOnce
<1>1. TypeOK /\ IInv => AtMostOnce
  BY DEF IInv, DedupInv, AtMostOnce, SameMessage
<1> QED
  BY <1>1, Invariant, PTL

\* ProcessedWasHandled: a late or repeated mark never closes an unhandled row.
THEOREM NoMessageLost == Spec => []ProcessedWasHandled
<1>1. TypeOK /\ IInv => ProcessedWasHandled
  BY DEF IInv, DedupInv, ProcessedWasHandled, SameMessage
<1> QED
  BY <1>1, Invariant, PTL

\* ReplyMatchesCommand: replies never outnumber the commands they answer.
THEOREM RepliesMatch == Spec => []ReplyMatchesCommand
<1>1. TypeOK /\ IInv => ReplyMatchesCommand
  BY DEF IInv, DedupInv, OutboxInv, TypeOK, ReplyMatchesCommand
<1> QED
  BY <1>1, Invariant, PTL

\* LeasesDiffer: one lease of one row is in the hands of one worker.
THEOREM LeasesAreExclusive == Spec => []LeasesDiffer
<1>1. TypeOK /\ IInv => LeasesDiffer
  BY DEF IInv, LeaseInv, LeasesDiffer
<1> QED
  BY <1>1, Invariant, PTL

\* FreshLeaseIsRespected: only the sweep of an expired lease opens a row to
\* another claim; no other step of any process touches its attempts.
THEOREM FreshLeases == Spec => FreshLeaseIsRespected
<1> DEFINE Kept == \A k \in Events :
                      inbox[k].status = "processing" /\ ~inbox[k].stale
                          => inbox'[k].attempts = inbox[k].attempts
<1>1. TypeOK /\ IInv /\ [Next]_vars => [Kept]_vars
  <2> SUFFICES ASSUME TypeOK, IInv, Next, NEW k \in Events,
                      inbox[k].status = "processing", ~inbox[k].stale
               PROVE  inbox'[k].attempts = inbox[k].attempts
    OBVIOUS
  <2> inbox[k] \in Row
    BY DEF TypeOK
  <2>1. ASSUME NEW l \in Events, Receive(l) \/ BackoffEnds(l) \/ LeaseExpires(l)
        PROVE  inbox'[k].attempts = inbox[k].attempts
    BY <2>1 DEF Receive, BackoffEnds, LeaseExpires, Recorded, TypeOK, Row
  <2>2. ASSUME NEW w \in Workers, NEW S \in SUBSET Events, DrainClaiming(w, S)
        PROVE  inbox'[k].attempts = inbox[k].attempts
    <3>1. Recovered(inbox[k]) = inbox[k] /\ ~Claimable(Recovered(inbox[k]))
      BY DEF Recovered, Claimable
    <3> QED
      BY <2>2, <3>1 DEF DrainClaiming
  <2>3. ASSUME NEW w \in Workers, MarkProcessed(w) \/ MarkFailed(w)
        PROVE  inbox'[k].attempts = inbox[k].attempts
    <3>1. \A l \in Events : /\ MarkedProcessed(inbox[l]).attempts = inbox[l].attempts
                            /\ MarkedFailed(inbox[l]).attempts = inbox[l].attempts
      BY DEF MarkedProcessed, MarkedFailed, TypeOK, Row
    <3>2. current[w].key \in Events
      BY <2>3, Busy DEF MarkProcessed, MarkFailed, IInv
    <3> QED
      BY <2>3, <3>1, <3>2 DEF MarkProcessed, MarkFailed, Mark, TypeOK
  <2>4. ASSUME NEW w \in Workers,
               Process(w) \/ EnqueueReply(w) \/ StepFails(w) \/ Crash(w)
        PROVE  inbox' = inbox
    BY <2>4 DEF Process, ProcessDuplicate, ProcessFresh, ProcessConfirm, ProcessFails,
                EnqueueReply, StepFails, Crash
  <2> QED
    BY <2>1, <2>2, <2>3, <2>4 DEF Next, Drain, Finish
<1> QED
  BY <1>1, Invariant, PTL DEF Spec, FreshLeaseIsRespected

-----------------------------------------------------------------------------
(* Without a crash no row is left in processing with nobody to mark it. *)

\* AbandonedOnlyByCrash: claim_inbox_events hands every row it moves to
\* processing to its caller, and drain_once drops a claim only after a mark.
THEOREM NoRowAbandoned == Spec => []AbandonedOnlyByCrash
<1> DEFINE Lease(k) == [key |-> k, attempt |-> inbox[k].attempts]
           Held(k) == \E w \in Workers : Lease(k) \in Holds(w)
<1>1. Init => AbandonedOnlyByCrash
  BY DEF Init, AbandonedOnlyByCrash, NoRow
<1>2. TypeOK /\ IInv /\ AbandonedOnlyByCrash /\ [Next]_vars => AbandonedOnlyByCrash'
  <2> SUFFICES ASSUME TypeOK, IInv, AbandonedOnlyByCrash, [Next]_vars, NEW k \in Events,
                      inbox'[k].status = "processing", ~(crashes' > 0)
               PROVE  \E w \in Workers : Lease(k)' \in Holds(w)'
    BY DEF AbandonedOnlyByCrash
  <2>0. inbox[k] \in Row /\ inbox \in [Events -> Row]
    BY DEF TypeOK
  <2>1. ASSUME NEW l \in Events, Receive(l) \/ BackoffEnds(l) \/ LeaseExpires(l)
        PROVE  Held(k)'
    <3>1. inbox[k].status = "processing" /\ inbox'[k].attempts = inbox[k].attempts
      <4>1. CASE Receive(l)
        <5>1. inbox'[k] = IF k = l THEN Recorded(inbox[k]) ELSE inbox[k]
          BY <2>0, <4>1 DEF Receive
        <5> QED
          BY <2>0, <5>1 DEF Recorded, Row
      <4>2. CASE BackoffEnds(l)
        BY <2>0, <4>2 DEF BackoffEnds, Row
      <4>3. CASE LeaseExpires(l)
        BY <2>0, <4>3 DEF LeaseExpires, Row
      <4> QED
        BY <2>1, <4>1, <4>2, <4>3
    <3>2. UNCHANGED <<batch, current, crashes>>
      BY <2>1 DEF Receive, BackoffEnds, LeaseExpires
    <3> QED
      BY <3>1, <3>2 DEF AbandonedOnlyByCrash, Holds
  <2>2. ASSUME NEW w \in Workers, NEW S \in SUBSET Events, DrainClaiming(w, S)
        PROVE  Held(k)'
    <3> DEFINE row == Recovered(inbox[k])
    <3>1. inbox'[k] = IF k \in S THEN Claimed(row) ELSE row
      BY <2>2 DEF DrainClaiming
    <3>2. row \in Row /\ row.attempts = inbox[k].attempts
      BY <2>0, RowOperators DEF Recovered, Row
    <3>3. UNCHANGED <<current, crashes>> /\ batch[w] = {}
      BY <2>2 DEF DrainClaiming
    <3>4. CASE k \in S
      <4>1. inbox'[k].attempts = row.attempts + 1
        BY <3>1, <3>2, <3>4 DEF Claimed, Row
      <4>2. [key |-> k, attempt |-> row.attempts + 1] \in batch'[w]
        BY <2>2, <3>4 DEF DrainClaiming, TypeOK
      <4> QED
        BY <4>1, <4>2 DEF Holds
    <3>5. CASE k \notin S
      <4>1. inbox[k].status = "processing" /\ inbox'[k].attempts = inbox[k].attempts
        BY <3>1, <3>2, <3>5 DEF Recovered, Row
      <4>2. PICK v \in Workers : Lease(k) \in Holds(v)
        BY <4>1, <3>3 DEF AbandonedOnlyByCrash
      <4>3. Lease(k) \in Holds(v)'
        <5>1. CASE v = w
          BY <5>1, <4>2, <3>3 DEF Holds
        <5>2. CASE v # w
          BY <5>2, <4>2, <2>2 DEF DrainClaiming, Holds, TypeOK
        <5> QED
          BY <5>1, <5>2
      <4> QED
        BY <4>1, <4>3
    <3> QED
      BY <3>4, <3>5
  <2>3. ASSUME NEW w \in Workers, Process(w)
        PROVE  Held(k)'
    <3>1. PICK c \in batch[w], p \in Phase : Begin(w, c, p)
      BY <2>3 DEF Process, ProcessDuplicate, ProcessFresh, ProcessConfirm, ProcessFails, Phase
    <3>2. \A v \in Workers : Holds(v)' = Holds(v)
      BY <3>1, BeginHolds
    <3>3. UNCHANGED <<inbox, crashes>>
      BY <2>3 DEF Process, ProcessDuplicate, ProcessFresh, ProcessConfirm, ProcessFails
    <3> QED
      BY <3>2, <3>3 DEF AbandonedOnlyByCrash
  <2>4. ASSUME NEW w \in Workers, EnqueueReply(w) \/ StepFails(w)
        PROVE  Held(k)'
    BY <2>4 DEF EnqueueReply, StepFails, AbandonedOnlyByCrash, Holds
  <2>5. ASSUME NEW w \in Workers, MarkProcessed(w) \/ MarkFailed(w)
        PROVE  Held(k)'
    <3> DEFINE e == current[w].key
    <3>1. e \in Events /\ inbox[e] \in Row
      BY <2>5, Busy DEF MarkProcessed, MarkFailed, IInv, TypeOK
    <3>2. PICK row : Mark(w, row) /\ row.status # "processing"
      <4>1. /\ MarkedProcessed(inbox[e]).status # "processing"
            /\ MarkedFailed(inbox[e]).status # "processing"
        BY <3>1 DEF MarkedProcessed, MarkedFailed, Row
      <4> QED
        BY <2>5, <4>1 DEF MarkProcessed, MarkFailed
    <3>3. k # e /\ inbox'[k] = inbox[k]
      BY <3>1, <3>2, <2>0 DEF Mark
    <3>4. PICK v \in Workers : Lease(k) \in Holds(v)
      BY <3>2, <3>3 DEF Mark, AbandonedOnlyByCrash
    <3>5. Lease(k) # current[w]
      BY <3>3
    <3>6. Lease(k) \in Holds(v)'
      BY <3>2, <3>4, <3>5 DEF Mark, Holds, TypeOK
    <3> QED
      BY <3>3, <3>6
  <2>6. ASSUME NEW w \in Workers, Crash(w)
        PROVE  FALSE
    BY <2>6 DEF Crash, TypeOK
  <2>7. CASE UNCHANGED vars
    BY <2>7 DEF vars, AbandonedOnlyByCrash, Holds
  <2> QED
    BY <2>1, <2>2, <2>3, <2>4, <2>5, <2>6, <2>7 DEF Next, Drain, Finish
<1> QED
  BY <1>1, <1>2, Invariant, PTL DEF Spec

-----------------------------------------------------------------------------
(* Refinement. *)

\* ImplementsHandling: with the rows, leases, workers and crashes hidden, the
\* inbox is MessageHandling: a webhook's insert records, the transaction that
\* runs the command handles, the separate reply of a confirmed action answers,
\* and every other step is invisible.
THEOREM InboxImplementsHandling == Spec => ImplementsHandling
<1> DEFINE rec == {k \in Events : inbox[k].status # "absent"}
           msg == [k \in Events |-> MsgId(k)]
<1>1. Init => Handling!Init
  BY DEF Init, Handling!Init, NoRow
<1>2. TypeOK /\ IInv /\ [Next]_vars => [Handling!Next]_(Handling!vars)
  <2> SUFFICES ASSUME TypeOK, IInv, [Next]_vars
               PROVE  Handling!Next \/ UNCHANGED <<rec, executed, replies>>
    BY DEF Handling!vars
  <2>0. inbox \in [Events -> Row]
    BY DEF TypeOK
  <2>1. ASSUME NEW k \in Events, Receive(k)
        PROVE  Handling!Record(k)
    <3>1. \A l \in Events : inbox'[l] = IF l = k THEN Recorded(inbox[l]) ELSE inbox[l]
      BY <2>0, <2>1 DEF Receive
    <3>2. Recorded(inbox[k]).status # "absent"
      BY <2>0 DEF Recorded, Row
    <3>3. rec' = rec \cup {k}
      BY <3>1, <3>2
    <3> QED
      BY <2>1, <3>3 DEF Receive, Handling!Record
  <2>2. ASSUME NEW k \in Events, BackoffEnds(k) \/ LeaseExpires(k)
        PROVE  UNCHANGED <<rec, executed, replies>>
    <3>1. \A l \in Events : inbox'[l].status = inbox[l].status
      BY <2>0, <2>2 DEF BackoffEnds, LeaseExpires, Row
    <3> QED
      BY <2>2, <3>1 DEF BackoffEnds, LeaseExpires
  <2>3. ASSUME NEW w \in Workers, NEW S \in SUBSET Events, DrainClaiming(w, S)
        PROVE  UNCHANGED <<rec, executed, replies>>
    <3>1. ASSUME NEW k \in Events
          PROVE  inbox'[k].status = "absent" <=> inbox[k].status = "absent"
      <4>1. /\ Recovered(inbox[k]) \in Row
            /\ Recovered(inbox[k]).status = "absent" <=> inbox[k].status = "absent"
        BY <2>0, RowOperators DEF Recovered, Row
      <4>2. inbox'[k] = IF k \in S THEN Claimed(Recovered(inbox[k])) ELSE Recovered(inbox[k])
        BY <2>3 DEF DrainClaiming
      <4>3. k \in S => Recovered(inbox[k]).status # "absent"
        BY <2>3 DEF DrainClaiming, Claimable
      <4> QED
        BY <4>1, <4>2, <4>3 DEF Claimed, Row
    <3> QED
      BY <2>3, <3>1 DEF DrainClaiming
  <2>4. ASSUME NEW w \in Workers, NEW c \in batch[w],
               ProcessDuplicate(w, c) \/ ProcessFails(w, c)
        PROVE  UNCHANGED <<rec, executed, replies>>
    BY <2>4 DEF ProcessDuplicate, ProcessFails
  <2>5. ASSUME NEW w \in Workers, NEW c \in batch[w],
               ProcessFresh(w, c) \/ ProcessConfirm(w, c)
        PROVE  c.key \in Events /\ Handling!Handle(c.key)
    <3>1. c.key \in Events /\ c \in Holds(w)
      BY DEF TypeOK, Claim, Holds
    <3>2. c.key \in rec
      BY <3>1 DEF IInv, LeaseInv
    <3>3. MsgId(c.key) \notin dedup /\ executed' = [executed EXCEPT ![c.key] = @ + 1]
      BY <2>5 DEF ProcessFresh, ProcessConfirm, FirstSeen
    <3>4. \A l \in Events : msg[l] = msg[c.key] => executed[l] = 0
      BY <3>1, <3>3 DEF IInv, DedupInv
    <3>5. executed' = [executed EXCEPT ![c.key] = 1] /\ replies[c.key] = 0
      <4>1. executed[c.key] = 0
        BY <3>1, <3>4
      <4> QED
        BY <3>1, <3>3, <4>1 DEF TypeOK, IInv, OutboxInv
    <3>6. replies' \in {replies, [replies EXCEPT ![c.key] = 1]}
      <4>1. ReplyTo(c.key) \in {replies, [replies EXCEPT ![c.key] = 1]}
        BY <3>1, <3>5, ReplyToIs DEF IInv
      <4>2. replies' = ReplyTo(c.key) \/ replies' = replies
        BY <2>5 DEF ProcessFresh, ProcessConfirm
      <4> QED
        BY <4>1, <4>2
    <3>7. rec' = rec
      BY <2>5 DEF ProcessFresh, ProcessConfirm
    <3> QED
      BY <3>1, <3>2, <3>4, <3>5, <3>6, <3>7 DEF Handling!Handle
  <2>6. ASSUME NEW w \in Workers, EnqueueReply(w)
        PROVE  \/ current[w].key \in Events /\ Handling!Answer(current[w].key)
               \/ UNCHANGED <<rec, executed, replies>>
    <3>1. /\ current[w].key \in Events
          /\ executed[current[w].key] = 1 /\ replies[current[w].key] = 0
      BY <2>6, Busy DEF EnqueueReply, IInv, WorkerInv
    <3>2. replies' = replies \/ replies' = [replies EXCEPT ![current[w].key] = 1]
      BY <2>6, <3>1, ReplyToIs DEF EnqueueReply, IInv
    <3>3. UNCHANGED <<rec, executed>>
      BY <2>6 DEF EnqueueReply
    <3> QED
      BY <3>1, <3>2, <3>3 DEF Handling!Answer
  <2>7. ASSUME NEW w \in Workers, StepFails(w) \/ Crash(w)
        PROVE  UNCHANGED <<rec, executed, replies>>
    BY <2>7 DEF StepFails, Crash
  <2>8. ASSUME NEW w \in Workers, MarkProcessed(w) \/ MarkFailed(w)
        PROVE  UNCHANGED <<rec, executed, replies>>
    <3> DEFINE e == current[w].key
    <3>1. e \in Events /\ current[w] \in Holds(w) /\ inbox[e] \in Row
      BY <2>0, <2>8, Busy DEF MarkProcessed, MarkFailed, IInv
    <3>2. inbox[e].status # "absent"
      BY <3>1 DEF IInv, LeaseInv
    <3>3. PICK row : Mark(w, row) /\ row.status # "absent"
      <4>1. /\ MarkedProcessed(inbox[e]).status # "absent"
            /\ MarkedFailed(inbox[e]).status # "absent"
        BY <3>1 DEF MarkedProcessed, MarkedFailed, Row
      <4> QED
        BY <2>8, <4>1 DEF MarkProcessed, MarkFailed
    <3>4. rec' = rec
      BY <2>0, <3>1, <3>2, <3>3 DEF Mark
    <3> QED
      BY <3>3, <3>4 DEF Mark
  <2>9. CASE UNCHANGED vars
    BY <2>9 DEF vars
  <2> QED
    BY <2>1, <2>2, <2>3, <2>4, <2>5, <2>6, <2>7, <2>8, <2>9
       DEF Next, Drain, Process, Finish, Handling!Next
<1> QED
  BY <1>1, <1>2, Invariant, PTL DEF Spec, ImplementsHandling, Handling!Spec
=============================================================================
