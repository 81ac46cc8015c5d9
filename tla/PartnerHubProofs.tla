---------------------------- MODULE PartnerHubProofs ----------------------------
(***************************************************************************)
(* Proofs about PartnerHub, for any invites, rows, domains, events and     *)
(* requests in flight.                                                     *)
(***************************************************************************)
EXTENDS PartnerHub, TLAPS

-----------------------------------------------------------------------------
(* Types. *)

\* A request in flight is about a row.
LEMMA CallOfRow ==
    ASSUME TypeOK, NEW c \in Clients, NEW op, Ends(c, op)
    PROVE  call[c] \in Call /\ call[c].of \in Connectors /\ call[c].stale \in BOOLEAN
BY DEF TypeOK, Ends, Call

\* Outdating readers, who are in flight, keeps the requests well typed.
LEMMA OutdatedTyped ==
    ASSUME TypeOK, NEW c \in Clients, NEW readers,
           \A d \in Clients : d \in readers => call[d] # Idle
    PROVE  Outdated(c, readers) \in [Clients -> Call \cup {Idle}]
<1> SUFFICES ASSUME NEW d \in Clients
             PROVE  Outdated(c, readers)[d] \in Call \cup {Idle}
  BY DEF Outdated
<1>1. call[d] \in Call => [call[d] EXCEPT !.stale = TRUE] \in Call
  BY DEF Call
<1> QED
  BY <1>1 DEF Outdated, TypeOK

\* A request starts with a well-typed read.
LEMMA ReadsTyped ==
    ASSUME TypeOK, NEW c \in Clients, NEW k \in Connectors, NEW op \in Operation, Reads(c, k, op)
    PROVE  TypeOK'
<1>1. [of |-> k, op |-> op, stale |-> FALSE] \in Call
  BY DEF Call
<1> QED
  BY <1>1 DEF Reads, TypeOK

\* The type invariant holds in every reachable state.
THEOREM TypeCorrect == Spec => []TypeOK
<1>1. Init => TypeOK
  BY DEF Init, TypeOK, InviteStatus, NoRow, Row, Tested, Ground, Token, Recording
<1>2. TypeOK /\ [Next]_vars => TypeOK'
  <2> SUFFICES ASSUME TypeOK, [Next]_vars
               PROVE  TypeOK'
    OBVIOUS
  <2>1. ASSUME NEW i \in Invites, InviteInserted(i) \/ InviteExpires(i) \/ TokenExpires(i)
        PROVE  TypeOK'
    BY <2>1 DEF InviteInserted, InviteExpires, TokenExpires, TypeOK, InviteStatus, Token
  <2>2. ASSUME NEW c \in Clients, NEW k \in Connectors,
               (\E op \in Operation : Begin(c, k, op)) \/ WebhookArrives(c, k)
        PROVE  TypeOK'
    BY <2>2, ReadsTyped DEF Begin, WebhookArrives, Operation
  <2>3. ASSUME NEW c \in Clients, NEW result \in Tested, EndTest(c, result)
        PROVE  TypeOK'
    <3> DEFINE k == call[c].of
               stale == call[c].stale
    <3>1. k \in Connectors /\ stale \in BOOLEAN
      BY <2>3, CallOfRow DEF EndTest
    <3>2. Earned(k, stale) \in Token /\ Shown(k, stale) \in Ground
      BY <3>1, InviteAssumption DEF Earned, Shown, Token, Ground, TypeOK
    <3>3. token' \in [Invites -> Token]
      BY <2>3, <3>1, <3>2 DEF EndTest, TypeOK
    <3>4. row' \in [Connectors -> Row]
      <4>1. row[k] \in Row
        BY <3>1 DEF TypeOK
      <4> QED
        BY <2>3, <3>1, <3>2, <4>1 DEF EndTest, TypeOK, Row
    <3> QED
      BY <2>3, <3>3, <3>4 DEF EndTest, TypeOK
  <2>4. ASSUME NEW c \in Clients, EndInsert(c)
        PROVE  TypeOK'
    <3>1. call[c].of \in Connectors
      BY <2>4, CallOfRow DEF EndInsert
    <3>2. Reset(call[c].of) \in Row
      BY DEF Reset, NoRow, Row, Tested, Ground
    <3> QED
      BY <2>4, <3>1, <3>2 DEF EndInsert, TypeOK
  <2>5. ASSUME NEW c \in Clients, EndUpdate(c)
        PROVE  TypeOK'
    <3> DEFINE k == call[c].of
               readers == {d \in Clients : call[d] # Idle /\ call[d].of = k}
    <3>1. k \in Connectors /\ InviteOf[k] \in Invites
      BY <2>5, CallOfRow, InviteAssumption DEF EndUpdate
    <3>2. Reset(k) \in Row
      BY DEF Reset, NoRow, Row, Tested, Ground
    <3>3. Outdated(c, readers) \in [Clients -> Call \cup {Idle}]
      BY OutdatedTyped
    <3>4. token' \in [Invites -> Token]
      BY <2>5, <3>1 DEF EndUpdate, TypeOK, Token
    <3> QED
      BY <2>5, <3>1, <3>2, <3>3, <3>4 DEF EndUpdate, TypeOK
  <2>6. ASSUME NEW c \in Clients, EndActivate(c)
        PROVE  TypeOK'
    <3> DEFINE k == call[c].of
               readers == {d \in Clients : Ends(d, "webhook") /\ call[d].of # k
                                            /\ SameDomain(call[d].of, k)}
    <3>1. k \in Connectors /\ InviteOf[k] \in Invites /\ call[c].stale \in BOOLEAN
      BY <2>6, CallOfRow, InviteAssumption DEF EndActivate
    <3>2. EnabledAlone(k, call[c].stale) \in [Connectors -> Row]
      BY <3>1 DEF EnabledAlone, TypeOK, Row, Ground
    <3>3. Outdated(c, readers) \in [Clients -> Call \cup {Idle}]
      BY OutdatedTyped DEF Ends
    <3> QED
      BY <2>6, <3>1, <3>2, <3>3 DEF EndActivate, TypeOK, InviteStatus
  <2>7. ASSUME NEW c \in Clients, NEW e \in Events, NEW verdict \in Verdict,
               EndWebhook(c, e, verdict)
        PROVE  TypeOK'
    <3>1. event' \in [Events -> Recording]
      BY <2>7 DEF EndWebhook, Recorded, Recording, Verdict, TypeOK
    <3> QED
      BY <2>7, <3>1 DEF EndWebhook, TypeOK
  <2>8. ASSUME NEW c \in Clients, Dropped(c)
        PROVE  TypeOK'
    BY <2>8 DEF Dropped, TypeOK
  <2>9. ASSUME UNCHANGED vars
        PROVE  TypeOK'
    BY <2>9 DEF vars, TypeOK
  <2> QED
    BY <2>1, <2>2, <2>3, <2>4, <2>5, <2>6, <2>7, <2>8, <2>9 DEF Next
<1> QED
  BY <1>1, <1>2, PTL DEF Spec

-----------------------------------------------------------------------------
(* What a request still knows when it writes. *)

Justified(k) == row[k].ground # "none"

\* A row that no save has inserted is neither active nor tested.
Blank(k) == ~row[k].saved => ~row[k].enabled /\ row[k].ground = "none"

\* Only an insert is about such a row.
SavedInv ==
    /\ \A k \in Connectors : Blank(k)
    /\ \A c \in Clients : call[c] # Idle /\ call[c].op # "insert" => row[call[c].of].saved

\* The request is over after the step, or about what it was about.
Same(c) ==
    \/ call'[c] = Idle
    \/ call[c] # Idle /\ call'[c].op = call[c].op /\ call'[c].of = call[c].of

\* Outdating ends a request and leaves the others about what they were about.
LEMMA OutdatedSame ==
    ASSUME TypeOK, NEW c \in Clients, NEW readers,
           \A d \in Clients : d \in readers => call[d] # Idle,
           call' = Outdated(c, readers),
           NEW d \in Clients
    PROVE  Same(d)
<1>1. CASE d = c
  BY <1>1 DEF Outdated, Same
<1>2. CASE d # c /\ d \in readers
  <2>1. call[d] # Idle /\ call[d] \in Call
    BY <1>2 DEF TypeOK
  <2> QED
    BY <1>2, <2>1 DEF Outdated, Same, Call
<1>3. CASE d # c /\ d \notin readers
  BY <1>3 DEF Outdated, Same
<1> QED
  BY <1>1, <1>2, <1>3

\* Rows are never taken away, so what a request has read is there when it writes.
LEMMA SavedStep ==
    ASSUME TypeOK, SavedInv, [Next]_vars
    PROVE  SavedInv'
<1> USE DEF SavedInv
<1>1. ASSUME \A k \in Connectors : Blank(k)' /\ (row[k].saved => row'[k].saved),
             \A c \in Clients : Same(c)
      PROVE  SavedInv'
  <2>1. \A c \in Clients : call[c] # Idle => call[c].of \in Connectors
    BY DEF TypeOK, Call
  <2> QED
    BY <1>1, <2>1 DEF Same
<1>2. ASSUME NEW c \in Clients, NEW k \in Connectors, NEW op, Reads(c, k, op),
             op # "insert" => row[k].saved
      PROVE  SavedInv'
  BY <1>2 DEF Reads, TypeOK, Blank
<1>3. ASSUME NEW c \in Clients, NEW k \in Connectors, NEW op \in Operation, Begin(c, k, op)
      PROVE  SavedInv'
  BY <1>2, <1>3 DEF Begin, SavedOf
<1>4. ASSUME NEW c \in Clients, NEW k \in Connectors, WebhookArrives(c, k)
      PROVE  SavedInv'
  BY <1>2, <1>4 DEF WebhookArrives, Loaded, Blank
<1>5. ASSUME NEW c \in Clients, NEW result \in Tested, EndTest(c, result)
      PROVE  SavedInv'
  <2> DEFINE k == call[c].of
  <2>1. k \in Connectors /\ row[k] \in Row /\ row[k].saved
    BY <1>5, CallOfRow DEF EndTest, Ends, TypeOK
  <2>2. row'[k].saved /\ \A j \in Connectors \ {k} : row'[j] = row[j]
    BY <1>5, <2>1 DEF EndTest, Row, TypeOK
  <2>3. \A d \in Clients : Same(d)
    BY <1>5 DEF EndTest, Same, TypeOK
  <2>4. \A j \in Connectors : Blank(j)' /\ (row[j].saved => row'[j].saved)
    BY <2>2 DEF Blank
  <2> QED
    BY <1>1, <2>3, <2>4
<1>6. ASSUME NEW c \in Clients, EndInsert(c)
      PROVE  SavedInv'
  <2>1. \A j \in Connectors : Blank(j)' /\ (row[j].saved => row'[j].saved)
    BY <1>6 DEF EndInsert, Reset, NoRow, Blank, TypeOK
  <2>2. \A d \in Clients : Same(d)
    BY <1>6 DEF EndInsert, Same, TypeOK
  <2> QED
    BY <1>1, <2>1, <2>2
<1>7. ASSUME NEW c \in Clients, EndUpdate(c)
      PROVE  SavedInv'
  <2> DEFINE readers == {d \in Clients : call[d] # Idle /\ call[d].of = call[c].of}
  <2>1. call' = Outdated(c, readers)
    BY <1>7 DEF EndUpdate
  <2>2. \A d \in Clients : d \in readers => call[d] # Idle
    OBVIOUS
  <2>3. \A j \in Connectors : Blank(j)' /\ (row[j].saved => row'[j].saved)
    BY <1>7 DEF EndUpdate, Reset, NoRow, Blank, TypeOK
  <2> HIDE DEF readers
  <2>4. \A d \in Clients : Same(d)
    BY <2>1, <2>2, OutdatedSame
  <2> QED
    BY <1>1, <2>3, <2>4
<1>8. ASSUME NEW c \in Clients, EndActivate(c)
      PROVE  SavedInv'
  <2> DEFINE k == call[c].of
             readers == {d \in Clients : Ends(d, "webhook") /\ call[d].of # k
                                          /\ SameDomain(call[d].of, k)}
  <2>1. call' = Outdated(c, readers)
    BY <1>8 DEF EndActivate
  <2>2. \A d \in Clients : d \in readers => call[d] # Idle
    BY DEF Ends
  <2>3. call[c] # Idle /\ call[c].op = "activate" /\ row' = EnabledAlone(k, call[c].stale)
    BY <1>8 DEF EndActivate, Ends
  <2>4. k \in Connectors /\ row[k].saved
    BY <2>3 DEF TypeOK, Call
  <2>5. ASSUME NEW j \in Connectors
        PROVE  Blank(j)' /\ (row[j].saved => row'[j].saved)
    <3>1. row[j] \in Row
      BY DEF TypeOK
    <3> QED
      BY <2>3, <2>4, <3>1 DEF EnabledAlone, Row, Blank
  <2> HIDE DEF readers
  <2>6. \A d \in Clients : Same(d)
    BY <2>1, <2>2, OutdatedSame
  <2> QED
    BY <1>1, <2>5, <2>6
<1>9. ASSUME UNCHANGED row,
             UNCHANGED call \/ \E c \in Clients : call' = [call EXCEPT ![c] = Idle]
      PROVE  SavedInv'
  BY <1>9 DEF TypeOK, Blank
<1> QED
  BY <1>3, <1>4, <1>5, <1>6, <1>7, <1>8, <1>9
     DEF Next, vars, InviteInserted, InviteExpires, TokenExpires, EndWebhook, Dropped

\* What a row claims of its test it can justify, so can a request that is about to
\* activate it and has read it as it is, and a webhook that has is for an active row.
HubInv ==
    /\ UntestedOnlyBySlip
    /\ \A k \in Connectors : row[k].test = "operation" => Justified(k)
    /\ \A c \in Clients :
          Ends(c, "activate") /\ ~call[c].stale => Justified(call[c].of)
    /\ \A c \in Clients :
          Ends(c, "webhook") /\ ~call[c].stale => row[call[c].of].enabled

\* A request that is not out of date after a step was not before.
LEMMA OutdatedFresh ==
    ASSUME TypeOK, NEW c \in Clients, NEW readers, NEW op,
           \A d \in Clients : d \in readers => call[d] # Idle,
           call' = Outdated(c, readers),
           NEW d \in Clients, Ends(d, op)', ~call'[d].stale
    PROVE  /\ d # c /\ d \notin readers
           /\ call'[d] = call[d]
           /\ Ends(d, op) /\ ~call[d].stale /\ call[d].of \in Connectors
<1>1. call'[d] = Outdated(c, readers)[d] /\ call'[d] # Idle
  BY DEF Ends
<1>2. d # c
  BY <1>1 DEF Outdated
<1>3. d \notin readers
  <2> SUFFICES ASSUME d \in readers PROVE FALSE
    OBVIOUS
  <2>1. call[d] \in Call
    BY DEF TypeOK
  <2> QED
    BY <1>1, <1>2, <2>1 DEF Outdated, Call
<1>4. call'[d] = call[d]
  BY <1>1, <1>2, <1>3 DEF Outdated
<1> QED
  BY <1>2, <1>3, <1>4, CallOfRow DEF Ends

\* Every step keeps what the rows and the requests can justify.
LEMMA HubStep ==
    ASSUME TypeOK, SavedInv, HubInv, [Next]_vars
    PROVE  HubInv'
<1> USE DEF HubInv, UntestedOnlyBySlip, Justified
<1>1. ASSUME NEW i \in Invites, InviteInserted(i) \/ InviteExpires(i) \/ TokenExpires(i)
      PROVE  HubInv'
  BY <1>1 DEF InviteInserted, InviteExpires, TokenExpires, Ends
<1>2. ASSUME NEW c \in Clients, NEW k \in Connectors, NEW op \in Operation, Begin(c, k, op)
      PROVE  HubInv'
  <2>1. op # "webhook" /\ (op = "activate" => row[k].test = "operation")
    BY <1>2 DEF Begin, Ready
  <2>2. call' = [call EXCEPT ![c] = [of |-> k, op |-> op, stale |-> FALSE]] /\ row' = row
    BY <1>2 DEF Begin, Reads
  <2> QED
    BY <2>1, <2>2 DEF Ends, TypeOK
<1>3. ASSUME NEW c \in Clients, NEW k \in Connectors, WebhookArrives(c, k)
      PROVE  HubInv'
  <2>1. call' = [call EXCEPT ![c] = [of |-> k, op |-> "webhook", stale |-> FALSE]]
        /\ row' = row /\ row[k].enabled
    BY <1>3 DEF WebhookArrives, Loaded, Reads
  <2> QED
    BY <2>1 DEF Ends, TypeOK
<1>4. ASSUME NEW c \in Clients, NEW result \in Tested, EndTest(c, result)
      PROVE  HubInv'
  <2>1. PICK k \in Connectors, stale \in BOOLEAN : k = call[c].of /\ stale = call[c].stale
    BY <1>4, CallOfRow DEF EndTest
  <2>2. \A j \in Connectors \ {k} : row'[j] = row[j]
    BY <1>4, <2>1 DEF EndTest, TypeOK
  <2>3. /\ row'[k].test = result
        /\ row'[k].enabled = row[k].enabled
        /\ row'[k].ground = IF result = "operation" THEN Shown(k, stale) ELSE row[k].ground
    <3>1. row[k] \in Row /\ DOMAIN row = Connectors
      BY DEF TypeOK
    <3> QED
      BY <1>4, <2>1, <3>1 DEF EndTest, Executed, Row
  <2>4. Justified(k) => Justified(k)'
    BY <2>3 DEF Shown
  <2>5. row'[k].test = "operation" => Justified(k)'
    BY <2>3 DEF Shown
  <2>6. call' = [call EXCEPT ![c] = Idle]
    BY <1>4 DEF EndTest
  <2> QED
    BY <2>1, <2>2, <2>3, <2>4, <2>5, <2>6, CallOfRow DEF Ends, TypeOK
<1>5. ASSUME NEW c \in Clients, EndInsert(c)
      PROVE  HubInv'
  <2>1. PICK k \in Connectors : k = call[c].of
    BY <1>5, CallOfRow DEF EndInsert
  <2>2. call' = [call EXCEPT ![c] = Idle]
    BY <1>5 DEF EndInsert
  <2>3. CASE row[k].saved
    BY <1>5, <2>1, <2>2, <2>3 DEF EndInsert, Ends, TypeOK
  <2>4. CASE ~row[k].saved
    <3>1. row' = [row EXCEPT ![k] = Reset(k)]
      BY <1>5, <2>1, <2>4 DEF EndInsert
    <3> QED
      BY <2>1, <2>2, <2>4, <3>1, CallOfRow DEF SavedInv, Blank, Reset, NoRow, Ends, TypeOK
  <2> QED
    BY <2>3, <2>4
<1>6. ASSUME NEW c \in Clients, EndUpdate(c)
      PROVE  HubInv'
  <2>1. PICK k \in Connectors : k = call[c].of
    BY <1>6, CallOfRow DEF EndUpdate
  <2> DEFINE readers == {d \in Clients : call[d] # Idle /\ call[d].of = k}
  <2>2. call' = Outdated(c, readers) /\ row' = [row EXCEPT ![k] = Reset(k)]
    BY <1>6, <2>1 DEF EndUpdate
  <2>3. row'[k] = Reset(k) /\ \A j \in Connectors \ {k} : row'[j] = row[j]
    BY <2>2 DEF TypeOK
  <2>4. ASSUME NEW d \in Clients, NEW op, Ends(d, op)', ~call'[d].stale
        PROVE  /\ Ends(d, op) /\ ~call[d].stale /\ call'[d].of = call[d].of
               /\ call[d].of \in Connectors \ {k}
    <3>1. \A x \in Clients : x \in readers => call[x] # Idle
      OBVIOUS
    <3> HIDE DEF readers
    <3>2. d \notin readers /\ call'[d] = call[d] /\ Ends(d, op) /\ ~call[d].stale
          /\ call[d].of \in Connectors
      BY <2>2, <2>4, <3>1, OutdatedFresh
    <3> QED
      BY <3>2 DEF Ends, readers
  <2> QED
    BY <2>3, <2>4 DEF Reset, NoRow
<1>7. ASSUME NEW c \in Clients, EndActivate(c)
      PROVE  HubInv'
  <2>1. PICK k \in Connectors, stale \in BOOLEAN : k = call[c].of /\ stale = call[c].stale
    BY <1>7, CallOfRow DEF EndActivate
  <2> DEFINE readers == {d \in Clients : Ends(d, "webhook") /\ call[d].of # k
                                          /\ SameDomain(call[d].of, k)}
  <2>2. call' = Outdated(c, readers) /\ row' = EnabledAlone(k, stale)
    BY <1>7, <2>1 DEF EndActivate
  <2>3. ASSUME NEW j \in Connectors
        PROVE  /\ row'[j].test = row[j].test
               /\ Justified(j) => Justified(j)'
               /\ row'[j].enabled => row[j].enabled \/ j = k
               /\ j = k => row'[j].enabled /\ (stale => Justified(j)')
               /\ j # k /\ ~SameDomain(j, k) => row'[j].enabled = row[j].enabled
    <3>1. row[j] \in Row
      BY DEF TypeOK
    <3> QED
      BY <2>2, <3>1 DEF EnabledAlone, Row
  <2>4. Justified(k)'
    <3>1. ~stale => Justified(k)
      BY <1>7, <2>1 DEF EndActivate
    <3> QED
      BY <2>3, <3>1
  <2>5. ASSUME NEW d \in Clients, NEW op, Ends(d, op)', ~call'[d].stale
        PROVE  /\ Ends(d, op) /\ ~call[d].stale /\ call'[d].of = call[d].of
               /\ call[d].of \in Connectors
               /\ op = "webhook" /\ call[d].of # k => ~SameDomain(call[d].of, k)
    <3>1. \A x \in Clients : x \in readers => call[x] # Idle
      BY DEF Ends
    <3> HIDE DEF readers
    <3>2. d \notin readers /\ call'[d] = call[d] /\ Ends(d, op) /\ ~call[d].stale
          /\ call[d].of \in Connectors
      BY <2>2, <2>5, <3>1, OutdatedFresh
    <3> QED
      BY <3>2 DEF readers
  <2>6. ASSUME NEW d \in Clients, Ends(d, "webhook")', ~call'[d].stale
        PROVE  row'[call'[d].of].enabled
    BY <2>3, <2>5, <2>6
  <2>7. ASSUME NEW d \in Clients, Ends(d, "activate")', ~call'[d].stale
        PROVE  Justified(call[d].of)' /\ call'[d].of = call[d].of
    BY <2>3, <2>5, <2>7
  <2> QED
    BY <2>3, <2>4, <2>6, <2>7
<1>8. ASSUME NEW c \in Clients,
             Dropped(c) \/ \E e \in Events, verdict \in Verdict : EndWebhook(c, e, verdict)
      PROVE  HubInv'
  <2>1. call' = [call EXCEPT ![c] = Idle] /\ row' = row
    BY <1>8 DEF Dropped, EndWebhook
  <2> QED
    BY <2>1 DEF Ends, TypeOK
<1>9. ASSUME UNCHANGED vars
      PROVE  HubInv'
  BY <1>9 DEF vars, Ends
<1> QED
  BY <1>1, <1>2, <1>3, <1>4, <1>5, <1>6, <1>7, <1>8, <1>9 DEF Next

\* The requests and the rows keep what they can justify, whatever overlaps.
LEMMA HubCorrect == Spec => []HubInv
<1>1. Init => SavedInv /\ HubInv
  BY DEF Init, SavedInv, Blank, HubInv, UntestedOnlyBySlip, NoRow, Ends
<1> QED
  BY <1>1, SavedStep, HubStep, TypeCorrect, PTL DEF Spec

\* An active configuration passed an operation test as it is, or a named slip
\* (a stale test or activation, a cached token) let it through.
THEOREM ActiveIsTested == Spec => []UntestedOnlyBySlip
<1>1. HubInv => UntestedOnlyBySlip
  BY DEF HubInv
<1> QED
  BY <1>1, HubCorrect, PTL

\* A webhook's event comes in as verified only for a connector that is active, or
\* was when the request loaded it.
THEOREM VerifiedIsActive == Spec => VerifiedWhileActive
<1> DEFINE Allowed ==
        \A e \in Events :
            event[e] = "none" /\ event'[e] = "verified" => row[ConnectorOf[e]].enabled
<1>1. TypeOK /\ HubInv /\ [Next]_vars => [Allowed]_vars
  <2> SUFFICES ASSUME TypeOK, HubInv, Next,
                      NEW e \in Events, event[e] = "none", event'[e] = "verified"
               PROVE  row[ConnectorOf[e]].enabled
    OBVIOUS
  <2>1. PICK c \in Clients, f \in Events, verdict \in Verdict : EndWebhook(c, f, verdict)
    BY DEF Next, InviteInserted, InviteExpires, TokenExpires, Begin, WebhookArrives, Reads,
           EndTest, EndInsert, EndUpdate, EndActivate, Dropped
  <2>2. e = f /\ ~call[c].stale
    BY <2>1 DEF EndWebhook, Recorded, TypeOK
  <2> QED
    BY <2>1, <2>2 DEF EndWebhook, HubInv
<1> QED
  BY <1>1, HubCorrect, TypeCorrect, PTL DEF Spec, VerifiedWhileActive

\* However saves, tests and activations overlap, a domain has one active
\* configuration at most.
THEOREM DomainIsUnambiguous == Spec => []OneActivePerDomain
<1> USE DEF OneActivePerDomain, Active
<1>1. Init => OneActivePerDomain
  BY DEF Init, NoRow
<1>2. TypeOK /\ OneActivePerDomain /\ [Next]_vars => OneActivePerDomain'
  <2> SUFFICES ASSUME TypeOK, OneActivePerDomain, [Next]_vars
               PROVE  OneActivePerDomain'
    OBVIOUS
  <2>1. ASSUME \A j \in Connectors : row'[j].enabled => row[j].enabled
        PROVE  OneActivePerDomain'
    BY <2>1
  <2>2. ASSUME NEW c \in Clients, NEW result \in Tested, EndTest(c, result)
        PROVE  OneActivePerDomain'
    <3>1. call[c].of \in Connectors
      BY <2>2, CallOfRow DEF EndTest
    <3>2. \A j \in Connectors : row'[j].enabled = row[j].enabled
      BY <2>2, <3>1 DEF EndTest, TypeOK, Row
    <3> QED
      BY <2>1, <3>2
  <2>3. ASSUME NEW c \in Clients, EndInsert(c) \/ EndUpdate(c)
        PROVE  OneActivePerDomain'
    <3>1. call[c].of \in Connectors
      BY <2>3, CallOfRow DEF EndInsert, EndUpdate
    <3>2. \A j \in Connectors : row'[j].enabled => row[j].enabled
      BY <2>3, <3>1 DEF EndInsert, EndUpdate, Reset, NoRow, TypeOK
    <3> QED
      BY <2>1, <3>2
  <2>4. ASSUME NEW c \in Clients, EndActivate(c)
        PROVE  OneActivePerDomain'
    <3> DEFINE k == call[c].of
    <3>1. k \in Connectors
      BY <2>4, CallOfRow DEF EndActivate
    <3>2. ASSUME NEW j \in Connectors, j # k, row'[j].enabled
          PROVE  row[j].enabled /\ DomainOf[InviteOf[j]] # DomainOf[InviteOf[k]]
      <4>1. row[j] \in Row
        BY DEF TypeOK
      <4> QED
        BY <2>4, <3>2, <4>1 DEF EndActivate, EnabledAlone, SameDomain, Row
    <3> QED
      BY <3>1, <3>2
  <2>5. ASSUME UNCHANGED row
        PROVE  OneActivePerDomain'
    BY <2>5
  <2> QED
    BY <2>2, <2>3, <2>4, <2>5
       DEF Next, vars, InviteInserted, InviteExpires, TokenExpires, Begin, Reads,
           WebhookArrives, EndWebhook, Dropped
<1> QED
  BY <1>1, <1>2, TypeCorrect, PTL DEF Spec
=============================================================================
