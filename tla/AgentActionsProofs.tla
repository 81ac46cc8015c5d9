--------------------------- MODULE AgentActionsProofs ---------------------------
(***************************************************************************)
(* Proofs about AgentActions and the relay of EventRelay, for any          *)
(* messages, confirmations, relays and limits.                             *)
(***************************************************************************)
EXTENDS AgentActions, TLAPS

-----------------------------------------------------------------------------
(* The relay. *)

RelayTypeOK == event \in [Events -> Event] /\ relay \in [Relays -> Batch \cup {Idle}]

\* Attempts are left when an event may be claimed, and each claim pays for a copy.
EventInv ==
    \A e \in Events :
        /\ event[e].status = "none" => event[e] = NoEvent
        /\ event[e].status = "pending" => event[e].attempts < MaxPublishing
        /\ event[e].copies <= event[e].attempts
        /\ event[e].status = "published" => event[e].copies > 0

\* What a relay has in hand is in processing, in nobody else's, and has a copy to
\* go unless it is the one being published.
BatchInv ==
    /\ \A r \in Relays : relay[r] # Idle =>
          /\ relay[r].at = Idle <=> relay[r].after = "none"
          /\ relay[r].at # Idle => relay[r].at \in relay[r].left
          /\ relay[r].after = "sent" => event[relay[r].at].copies > 0
          /\ \A e \in relay[r].left :
                /\ event[e].status = "processing"
                /\ relay[r].at # e => event[e].copies < event[e].attempts
    /\ \A r, q \in Relays :
          r # q /\ relay[r] # Idle /\ relay[q] # Idle => relay[r].left \cap relay[q].left = {}

RelayInv == RelayTypeOK /\ EventInv /\ BatchInv /\ LostOnlyByCrash

\* Events come only from a confirmation.
SameEvents == \A e \in Events : event'[e].status = "none" <=> event[e].status = "none"

\* The numbers of an event.
LEMMA EventNumbers ==
    ASSUME RelayTypeOK, NEW e \in Events
    PROVE  /\ event[e] \in Event /\ MaxPublishing \in Nat /\ MaxPublishing > 0
           /\ event[e].attempts \in Nat /\ event[e].attempts <= MaxPublishing
           /\ event[e].copies \in Nat
<1>1. event[e] \in Event
  BY DEF RelayTypeOK
<1>2. MaxPublishing \in Nat /\ MaxPublishing > 0
  BY PublishingIsBounded DEF PublishingIsBounded
<1>3. event[e].attempts \in 0..MaxPublishing /\ event[e].copies \in Nat
  BY <1>1 DEF Event
<1> QED
  BY <1>1, <1>2, <1>3

\* The invariant bounds attempts and copies.
LEMMA RelayInvImplies == RelayInv => CopiesAreCounted
BY EventNumbers DEF RelayInv, EventInv, CopiesAreCounted

\* What a claim makes of an event.
LEMMA ClaimedEvent ==
    ASSUME NEW x \in Event, x.attempts < MaxPublishing
    PROVE  /\ Claimed(x) \in Event /\ Claimed(x).status = "processing"
           /\ Claimed(x).attempts = x.attempts + 1 /\ Claimed(x).copies = x.copies
<1>1. x.attempts + 1 \in 0..MaxPublishing
  BY PublishingIsBounded DEF PublishingIsBounded, Event
<1> DEFINE n == x.attempts + 1
<1> HIDE DEF n
<1>2. Claimed(x) = [x EXCEPT !.status = "processing", !.attempts = n]
  BY DEF Claimed, n
<1>3. n \in 0..MaxPublishing
  BY <1>1 DEF n
<1>4. /\ Claimed(x) \in Event /\ Claimed(x).status = "processing"
      /\ Claimed(x).attempts = n /\ Claimed(x).copies = x.copies
  BY <1>2, <1>3 DEF Event, EventStatus
<1> QED
  BY <1>4 DEF n

\* What a failure to publish makes of an event in processing.
LEMMA FailedEvent ==
    ASSUME NEW x \in Event
    PROVE  /\ Failed(x) \in Event /\ Failed(x).status \in {"pending", "failed"}
           /\ Failed(x).status = "pending" => x.attempts < MaxPublishing
           /\ Failed(x).attempts = x.attempts /\ Failed(x).copies = x.copies
           /\ Failed(x).lost = x.lost
<1>1. x.attempts \in Nat /\ MaxPublishing \in Nat
  BY PublishingIsBounded DEF PublishingIsBounded, Event
<1>2. CASE x.attempts >= MaxPublishing
  <2>1. Failed(x) = [x EXCEPT !.status = "failed", !.due = FALSE]
    BY <1>2 DEF Failed
  <2> QED
    BY <2>1 DEF Event, EventStatus
<1>3. CASE ~(x.attempts >= MaxPublishing)
  <2>1. Failed(x) = [x EXCEPT !.status = "pending", !.due = FALSE]
    BY <1>3 DEF Failed
  <2>2. x.attempts < MaxPublishing
    BY <1>1, <1>3
  <2> QED
    BY <2>1, <2>2 DEF Event, EventStatus
<1> QED
  BY <1>2, <1>3

\* A claim moves every due event into one new batch.
LEMMA ClaimStep ==
    ASSUME RelayInv, NEW r \in Relays, ClaimEvents(r)
    PROVE  RelayInv' /\ SameEvents
<1> USE PublishingIsBounded, IdleIsElse
    DEF PublishingIsBounded, IdleIsElse, RelayInv, RelayTypeOK, SameEvents
<1> DEFINE batch == [left |-> Claimable, at |-> Idle, after |-> "none"]
<1>1. relay' = [relay EXCEPT ![r] = batch] /\ relay[r] = Idle
  BY DEF ClaimEvents
<1>2. batch \in Batch /\ batch # Idle
  BY DEF Batch, Claimable
<1>3. \A e \in Events \ Claimable : event'[e] = event[e]
  BY DEF ClaimEvents
<1>4. ASSUME NEW e \in Claimable
      PROVE  /\ event'[e] \in Event /\ event[e].status = "pending"
             /\ event'[e].status = "processing" /\ event'[e].attempts = event[e].attempts + 1
             /\ event'[e].copies = event[e].copies
             /\ event[e].copies \in Nat /\ event[e].attempts \in Nat
             /\ event[e].copies <= event[e].attempts
  <2>1. e \in Events /\ event[e].status = "pending"
    BY DEF Claimable
  <2>6. /\ event[e] \in Event /\ MaxPublishing \in Nat
        /\ event[e].attempts \in Nat /\ event[e].attempts <= MaxPublishing
        /\ event[e].copies \in Nat
    BY <2>1, EventNumbers
  <2>2. event'[e] = Claimed(event[e])
    BY <2>1 DEF ClaimEvents
  <2>3. event[e].attempts < MaxPublishing /\ event[e].copies <= event[e].attempts
    BY <2>1 DEF EventInv
  <2>4. /\ Claimed(event[e]) \in Event /\ Claimed(event[e]).status = "processing"
        /\ Claimed(event[e]).attempts = event[e].attempts + 1
        /\ Claimed(event[e]).copies = event[e].copies
    BY <2>3, <2>6, ClaimedEvent
  <2> QED
    BY <2>1, <2>2, <2>3, <2>4, <2>6
<1>5. Claimable \subseteq Events
  BY DEF Claimable
<1>6. RelayTypeOK'
  <2>1. event' \in [Events -> Event]
    <3>1. DOMAIN event' = Events /\ event' = [e \in Events |-> event'[e]]
      BY DEF ClaimEvents
    <3> QED
      BY <1>3, <1>4, <3>1
  <2> QED
    BY <1>1, <1>2, <2>1
<1>7. EventInv'
  <2> SUFFICES ASSUME NEW e \in Events
               PROVE  /\ event'[e].status = "none" => event'[e] = NoEvent
                      /\ event'[e].status = "pending" => event'[e].attempts < MaxPublishing
                      /\ event'[e].copies <= event'[e].attempts
                      /\ event'[e].status = "published" => event'[e].copies > 0
    BY DEF EventInv
  <2> QED
    BY <1>3, <1>4 DEF EventInv
<1>8. BatchInv'
  <2>1. ASSUME NEW q \in Relays, q # r, relay[q] # Idle
        PROVE  relay'[q] = relay[q] /\ \A e \in relay[q].left : e \in Events \ Claimable
    <3>1. relay[q] \in Batch
      BY <2>1
    <3> QED
      BY <1>1, <2>1, <3>1 DEF BatchInv, Claimable, Batch
  <2>2. \A q \in Relays : q # r => relay'[q] = relay[q]
    BY <1>1
  <2>3. relay'[r] = batch
    BY <1>1
  <2>4. \A q \in Relays : q # r /\ relay[q] # Idle => relay[q] \in Batch
    OBVIOUS
  <2>5. ASSUME NEW q \in Relays, relay'[q] # Idle
        PROVE  /\ relay'[q].at = Idle <=> relay'[q].after = "none"
               /\ relay'[q].at # Idle => relay'[q].at \in relay'[q].left
               /\ relay'[q].after = "sent" => event'[relay'[q].at].copies > 0
               /\ \A e \in relay'[q].left :
                     /\ event'[e].status = "processing"
                     /\ relay'[q].at # e => event'[e].copies < event'[e].attempts
    <3>1. CASE q = r
      BY <1>4, <2>3, <3>1
    <3>2. CASE q # r
      BY <1>3, <2>1, <2>2, <2>5, <3>2 DEF BatchInv
    <3> QED
      BY <3>1, <3>2
  <2>6. ASSUME NEW q \in Relays, NEW s \in Relays, q # s, relay'[q] # Idle, relay'[s] # Idle
        PROVE  relay'[q].left \cap relay'[s].left = {}
    BY <2>1, <2>2, <2>3, <2>6 DEF BatchInv
  <2> QED
    BY <2>5, <2>6 DEF BatchInv
<1>9. LostOnlyByCrash'
  <2> SUFFICES ASSUME NEW e \in Events, event'[e].status = "processing"
               PROVE  event'[e].lost \/ \E q \in Relays : relay'[q] # Idle /\ e \in relay'[q].left
    BY DEF LostOnlyByCrash
  <2>1. CASE e \in Claimable
    BY <1>1, <1>2, <2>1
  <2>2. CASE e \notin Claimable
    <3>1. \A q \in Relays : relay[q] # Idle => relay'[q] = relay[q]
      BY <1>1
    <3> QED
      BY <1>3, <2>2, <3>1 DEF LostOnlyByCrash
  <2> QED
    BY <2>1, <2>2
<1> QED
  BY <1>3, <1>4, <1>6, <1>7, <1>8, <1>9

\* One relay does something about one event of its batch, and keeps the others.
LEMMA OneEvent ==
    ASSUME RelayInv, NEW r \in Relays, NEW e \in Events, NEW x \in Event,
           NEW b \in Batch \cup {Idle},
           relay[r] # Idle, e \in relay[r].left,
           event' = [event EXCEPT ![e] = x], relay' = [relay EXCEPT ![r] = b],
           x.status # "none",
           x.status = "pending" => x.attempts < MaxPublishing,
           x.copies <= x.attempts,
           x.status = "published" => x.copies > 0,
           x.status = "processing" => b # Idle /\ e \in b.left,
           b # Idle =>
              /\ b.left \subseteq relay[r].left
              /\ b.at = Idle <=> b.after = "none"
              /\ b.at # Idle => b.at \in b.left
              /\ b.after = "sent" => b.at = e /\ x.copies > 0
              /\ b.at # Idle => b.at = e
              /\ e \in b.left =>
                    /\ x.status = "processing"
                    /\ b.at # e => x.copies < x.attempts
              /\ relay[r].at \in {Idle, e},
           \A f \in relay[r].left \ {e} : b # Idle /\ f \in b.left
    PROVE  RelayInv' /\ SameEvents
<1> USE IdleIsElse DEF IdleIsElse, RelayInv, RelayTypeOK
<1>1. /\ event'[e] = x /\ \A f \in Events \ {e} : event'[f] = event[f]
      /\ relay'[r] = b /\ \A q \in Relays \ {r} : relay'[q] = relay[q]
  OBVIOUS
<1>2. \A q \in Relays : relay[q] # Idle => relay[q] \in Batch /\ relay[q].left \subseteq Events
  BY DEF Batch
<1>3. event[e].status = "processing"
  BY DEF BatchInv
<1>4. RelayTypeOK'
  OBVIOUS
<1>5. EventInv'
  <2> SUFFICES ASSUME NEW f \in Events
               PROVE  /\ event'[f].status = "none" => event'[f] = NoEvent
                      /\ event'[f].status = "pending" => event'[f].attempts < MaxPublishing
                      /\ event'[f].copies <= event'[f].attempts
                      /\ event'[f].status = "published" => event'[f].copies > 0
    BY DEF EventInv
  <2> QED
    BY <1>1 DEF EventInv
<1>6. BatchInv'
  <2>1. \A q \in Relays \ {r} : relay[q] # Idle => e \notin relay[q].left
    BY DEF BatchInv
  <2>2. ASSUME NEW q \in Relays, relay'[q] # Idle
        PROVE  /\ relay'[q].at = Idle <=> relay'[q].after = "none"
               /\ relay'[q].at # Idle => relay'[q].at \in relay'[q].left
               /\ relay'[q].after = "sent" => event'[relay'[q].at].copies > 0
               /\ \A f \in relay'[q].left :
                     /\ event'[f].status = "processing"
                     /\ relay'[q].at # f => event'[f].copies < event'[f].attempts
    <3>1. CASE q = r
      <4>1. ASSUME NEW f \in b.left
            PROVE  /\ event'[f].status = "processing"
                   /\ b.at # f => event'[f].copies < event'[f].attempts
        <5>1. CASE f = e
          BY <1>1, <2>2, <3>1, <5>1
        <5>2. CASE f # e
          <6>1. f \in relay[r].left /\ f \in Events /\ relay[r].at # f
            BY <1>1, <1>2, <2>2, <3>1, <5>2
          <6> QED
            BY <1>1, <5>2, <6>1 DEF BatchInv
        <5> QED
          BY <5>1, <5>2
      <4> QED
        BY <1>1, <2>2, <3>1, <4>1
    <3>2. CASE q # r
      <4>1. relay'[q] = relay[q] /\ relay[q] # Idle /\ relay[q].left \subseteq Events \ {e}
        BY <1>1, <1>2, <2>1, <2>2, <3>2
      <4>2. relay[q].after = "sent" => relay[q].at \in relay[q].left
        BY <4>1 DEF BatchInv
      <4> QED
        BY <1>1, <4>1, <4>2 DEF BatchInv
    <3> QED
      BY <3>1, <3>2
  <2>3. ASSUME NEW q \in Relays, NEW s \in Relays, q # s, relay'[q] # Idle, relay'[s] # Idle
        PROVE  relay'[q].left \cap relay'[s].left = {}
    <3>1. \A t \in {q, s} : relay[t] # Idle /\ relay'[t].left \subseteq relay[t].left
      BY <1>1, <2>3
    <3>2. relay[q].left \cap relay[s].left = {}
      BY <2>3, <3>1 DEF BatchInv
    <3> QED
      BY <3>1, <3>2
  <2> QED
    BY <2>2, <2>3 DEF BatchInv
<1>7. LostOnlyByCrash'
  <2> SUFFICES ASSUME NEW f \in Events, event'[f].status = "processing"
               PROVE  event'[f].lost \/ \E q \in Relays : relay'[q] # Idle /\ f \in relay'[q].left
    BY DEF LostOnlyByCrash
  <2>1. CASE f = e
    BY <1>1, <2>1
  <2>2. CASE f # e
    <3>1. CASE event[f].lost
      BY <1>1, <2>2, <3>1
    <3>2. CASE ~event[f].lost
      <4>1. PICK q \in Relays : relay[q] # Idle /\ f \in relay[q].left
        BY <1>1, <2>2, <3>2 DEF LostOnlyByCrash
      <4> QED
        BY <1>1, <2>2, <4>1
    <3> QED
      BY <3>1, <3>2
  <2> QED
    BY <2>1, <2>2
<1>8. SameEvents
  BY <1>1, <1>3 DEF SameEvents
<1> QED
  BY <1>4, <1>5, <1>6, <1>7, <1>8

\* An event nobody has in hand changes, and the relays do not.
LEMMA FreeEvent ==
    ASSUME RelayInv, NEW e \in Events, NEW x \in Event,
           event' = [event EXCEPT ![e] = x], relay' = relay,
           event[e].status # "processing", x.status \notin {"none", "processing"},
           x.status = "pending" => x.attempts < MaxPublishing,
           x.copies <= x.attempts,
           x.status = "published" => x.copies > 0
    PROVE  RelayInv'
<1> USE IdleIsElse DEF IdleIsElse, RelayInv, RelayTypeOK
<1>1. event'[e] = x /\ \A f \in Events \ {e} : event'[f] = event[f]
  OBVIOUS
<1>2. \A q \in Relays : relay[q] # Idle => relay[q].left \subseteq Events \ {e}
  BY DEF Batch, BatchInv
<1>3. EventInv'
  <2> SUFFICES ASSUME NEW f \in Events
               PROVE  /\ event'[f].status = "none" => event'[f] = NoEvent
                      /\ event'[f].status = "pending" => event'[f].attempts < MaxPublishing
                      /\ event'[f].copies <= event'[f].attempts
                      /\ event'[f].status = "published" => event'[f].copies > 0
    BY DEF EventInv
  <2> QED
    BY <1>1 DEF EventInv
<1>4. BatchInv'
  <2>1. ASSUME NEW q \in Relays, relay[q] # Idle
        PROVE  /\ relay[q].at = Idle <=> relay[q].after = "none"
               /\ relay[q].at # Idle => relay[q].at \in relay[q].left
               /\ relay[q].after = "sent" => event'[relay[q].at].copies > 0
               /\ \A f \in relay[q].left :
                     /\ event'[f].status = "processing"
                     /\ relay[q].at # f => event'[f].copies < event'[f].attempts
    <3>1. relay[q].after = "sent" => relay[q].at \in relay[q].left
      BY <2>1 DEF BatchInv
    <3> QED
      BY <1>1, <1>2, <2>1, <3>1 DEF BatchInv
  <2> QED
    BY <2>1 DEF BatchInv
<1>5. LostOnlyByCrash'
  BY <1>1 DEF LostOnlyByCrash
<1> QED
  BY <1>3, <1>4, <1>5

\* What a relay that has published knows of the event it is at.
LEMMA AtFacts ==
    ASSUME RelayInv, NEW r \in Relays, relay[r] # Idle, relay[r].after # "none"
    PROVE  /\ relay[r] \in Batch /\ relay[r].at \in Events /\ relay[r].at \in relay[r].left
           /\ event[relay[r].at] \in Event /\ event[relay[r].at].status = "processing"
           /\ event[relay[r].at].copies <= event[relay[r].at].attempts
           /\ relay[r].after = "sent" => event[relay[r].at].copies > 0
<1>1. relay[r] \in Batch
  BY DEF RelayInv, RelayTypeOK
<1>2. relay[r].at # Idle /\ relay[r].at \in relay[r].left /\ relay[r].left \subseteq Events
  BY <1>1 DEF RelayInv, BatchInv, Batch
<1>3. relay[r].at \in Events
  BY <1>2
<1> QED
  BY <1>1, <1>2, <1>3 DEF RelayInv, RelayTypeOK, EventInv, BatchInv

\* The batch that Through leaves.
LEMMA ThroughLeaves ==
    ASSUME RelayTypeOK, NEW r \in Relays, relay[r] \in Batch, relay[r].at \in relay[r].left
    PROVE  \E b \in Batch \cup {Idle} :
              /\ Through(r) = [relay EXCEPT ![r] = b]
              /\ b # Idle => /\ b.left = relay[r].left \ {relay[r].at}
                             /\ b.at = Idle /\ b.after = "none"
              /\ b = Idle => relay[r].left \ {relay[r].at} = {}
<1> DEFINE left == relay[r].left \ {relay[r].at}
           next == [left |-> left, at |-> Idle, after |-> "none"]
<1>1. next \in Batch /\ next # Idle
  BY IdleIsElse DEF IdleIsElse, Batch
<1>2. CASE left = {}
  <2>1. Through(r) = [relay EXCEPT ![r] = Idle]
    BY <1>2 DEF Through
  <2> QED
    BY <1>2, <2>1
<1>3. CASE left # {}
  <2>1. Through(r) = [relay EXCEPT ![r] = next]
    BY <1>3 DEF Through
  <2> QED
    BY <1>1, <1>3, <2>1
<1> QED
  BY <1>2, <1>3

\* A copy more at most, paid for by the claim.
LEMMA PublishStep ==
    ASSUME RelayInv, NEW r \in Relays, NEW e \in Events, NEW arrived \in BOOLEAN,
           NEW after \in {"sent", "raised"}, Publish(r, e, arrived, after)
    PROVE  RelayInv' /\ SameEvents
<1>1. /\ relay[r] # Idle /\ relay[r].at = Idle /\ e \in relay[r].left
      /\ after = "sent" => arrived
  BY DEF Publish
<1>2. /\ relay[r] \in Batch /\ event[e] \in Event /\ event[e].status = "processing"
      /\ event[e].copies < event[e].attempts
      /\ event[e].copies \in Nat /\ event[e].attempts \in Nat
  BY <1>1, EventNumbers, IdleIsElse
     DEF IdleIsElse, RelayInv, RelayTypeOK, BatchInv
<1>3. PICK b \in Batch : /\ relay' = [relay EXCEPT ![r] = b]
                         /\ b.left = relay[r].left /\ b.at = e /\ b.after = after
  <2>1. relay' = [relay EXCEPT ![r] = [relay[r] EXCEPT !.at = e, !.after = after]]
    BY DEF Publish
  <2>2. ASSUME NEW y \in Batch
        PROVE  LET b == [y EXCEPT !.at = e, !.after = after] IN
               b \in Batch /\ b.left = y.left /\ b.at = e /\ b.after = after
    BY DEF Batch
  <2> QED
    BY <1>2, <2>1, <2>2, Zenon
<1>4. PICK x \in Event : /\ event' = [event EXCEPT ![e] = x]
                         /\ x.status = "processing" /\ x.attempts = event[e].attempts
                         /\ x.copies <= x.attempts /\ (arrived => x.copies > 0)
  <2>1. CASE arrived
    <3>1. event' = [event EXCEPT ![e] = [event[e] EXCEPT !.copies = event[e].copies + 1]]
      BY <2>1 DEF Publish
    <3>2. ASSUME NEW y \in Event, y.copies < y.attempts
          PROVE  /\ [y EXCEPT !.copies = y.copies + 1] \in Event
                 /\ [y EXCEPT !.copies = y.copies + 1].status = y.status
                 /\ [y EXCEPT !.copies = y.copies + 1].attempts = y.attempts
                 /\ [y EXCEPT !.copies = y.copies + 1].copies <= y.attempts
                 /\ [y EXCEPT !.copies = y.copies + 1].copies > 0
      <4>1. y.copies \in Nat /\ y.attempts \in Nat
        BY PublishingIsBounded DEF PublishingIsBounded, Event
      <4> QED
        BY <3>2, <4>1 DEF Event
    <3> QED
      BY <1>2, <3>1, <3>2
  <2>2. CASE ~arrived
    <3>1. event' = [event EXCEPT ![e] = event[e]]
      BY <2>2 DEF Publish, RelayInv, RelayTypeOK
    <3>2. event[e].copies <= event[e].attempts
      BY <1>2
    <3> QED
      BY <1>2, <2>2, <3>1, <3>2, Zenon
  <2> QED
    BY <2>1, <2>2
<1>5. b # Idle /\ e # Idle
  BY IdleIsElse DEF IdleIsElse
<1>6. /\ x.status # "none"
      /\ x.status = "pending" => x.attempts < MaxPublishing
      /\ x.status = "published" => x.copies > 0
      /\ x.status = "processing" => b # Idle /\ e \in b.left
  BY <1>1, <1>3, <1>4, <1>5
<1>7. /\ b.left \subseteq relay[r].left
      /\ b.at = Idle <=> b.after = "none"
      /\ b.at # Idle => b.at \in b.left
      /\ b.after = "sent" => b.at = e /\ x.copies > 0
      /\ b.at # Idle => b.at = e
      /\ e \in b.left => x.status = "processing" /\ (b.at # e => x.copies < x.attempts)
      /\ relay[r].at \in {Idle, e}
  BY <1>1, <1>3, <1>4, <1>5
<1> QED
  BY <1>1, <1>3, <1>4, <1>5, <1>6, <1>7, OneEvent

\* The event a relay has published leaves its batch as published.
LEMMA MarkPublishedStep ==
    ASSUME RelayInv, NEW r \in Relays, MarkPublished(r)
    PROVE  RelayInv' /\ SameEvents
<1>1. relay[r] # Idle /\ relay[r].after = "sent" /\ relay' = Through(r)
  BY DEF MarkPublished
<1>2. PICK e \in Events : e = relay[r].at
  BY <1>1, AtFacts
<1>3. /\ relay[r] \in Batch /\ e \in relay[r].left /\ event[e] \in Event
      /\ event[e].copies <= event[e].attempts /\ event[e].copies > 0
  BY <1>1, <1>2, AtFacts
<1>4. PICK b \in Batch \cup {Idle} :
         /\ relay' = [relay EXCEPT ![r] = b]
         /\ b # Idle => b.left = relay[r].left \ {e} /\ b.at = Idle /\ b.after = "none"
         /\ b = Idle => relay[r].left \ {e} = {}
  BY <1>1, <1>2, <1>3, ThroughLeaves DEF RelayInv
<1>5. PICK x \in Event : /\ event' = [event EXCEPT ![e] = x]
                         /\ x.status = "published" /\ x.copies = event[e].copies
                         /\ x.attempts = event[e].attempts
  <2>1. event' = [event EXCEPT ![e] = [event[e] EXCEPT !.status = "published"]]
    BY <1>2 DEF MarkPublished
  <2>2. ASSUME NEW y \in Event
        PROVE  /\ [y EXCEPT !.status = "published"] \in Event
               /\ [y EXCEPT !.status = "published"].status = "published"
               /\ [y EXCEPT !.status = "published"].copies = y.copies
               /\ [y EXCEPT !.status = "published"].attempts = y.attempts
    BY DEF Event, EventStatus
  <2> QED
    BY <1>3, <2>1, <2>2
<1>6. relay[r].at \in {Idle, e}
  BY <1>2
<1> QED
  BY <1>1, <1>3, <1>4, <1>5, <1>6, OneEvent

\* Nothing changes for the event, which counts as not published from here.
LEMMA MarkRaisesStep ==
    ASSUME RelayInv, NEW r \in Relays, MarkRaises(r)
    PROVE  RelayInv' /\ SameEvents
<1>1. relay[r] # Idle /\ relay[r].after = "sent"
  BY DEF MarkRaises
<1>2. PICK e \in Events : e = relay[r].at
  BY <1>1, AtFacts
<1>3. /\ relay[r] \in Batch /\ e \in relay[r].left /\ event[e] \in Event
      /\ event[e].status = "processing" /\ event[e].copies <= event[e].attempts
  BY <1>1, <1>2, AtFacts
<1>4. PICK b \in Batch : /\ relay' = [relay EXCEPT ![r] = b]
                         /\ b.left = relay[r].left /\ b.at = e /\ b.after = "raised"
  <2>1. relay' = [relay EXCEPT ![r] = [relay[r] EXCEPT !.after = "raised"]]
    BY DEF MarkRaises
  <2>2. ASSUME NEW y \in Batch
        PROVE  /\ [y EXCEPT !.after = "raised"] \in Batch
               /\ [y EXCEPT !.after = "raised"].left = y.left
               /\ [y EXCEPT !.after = "raised"].at = y.at
               /\ [y EXCEPT !.after = "raised"].after = "raised"
    BY DEF Batch
  <2> QED
    BY <1>2, <1>3, <2>1, <2>2
<1>5. event' = [event EXCEPT ![e] = event[e]]
  BY DEF MarkRaises, RelayInv, RelayTypeOK
<1>6. b # Idle /\ e # Idle /\ relay[r].at \in {Idle, e}
  BY <1>2, IdleIsElse DEF IdleIsElse
<1> QED
  BY <1>1, <1>3, <1>4, <1>5, <1>6, OneEvent

\* The event leaves the batch to wait, with attempts left, or as failed.
LEMMA MarkFailedStep ==
    ASSUME RelayInv, NEW r \in Relays, MarkEventFailed(r)
    PROVE  RelayInv' /\ SameEvents
<1>1. relay[r] # Idle /\ relay[r].after = "raised" /\ relay' = Through(r)
  BY DEF MarkEventFailed
<1>2. PICK e \in Events : e = relay[r].at
  BY <1>1, AtFacts
<1>3. /\ relay[r] \in Batch /\ e \in relay[r].left /\ event[e] \in Event
      /\ event[e].copies <= event[e].attempts
  BY <1>1, <1>2, AtFacts
<1>4. PICK b \in Batch \cup {Idle} :
         /\ relay' = [relay EXCEPT ![r] = b]
         /\ b # Idle => b.left = relay[r].left \ {e} /\ b.at = Idle /\ b.after = "none"
         /\ b = Idle => relay[r].left \ {e} = {}
  BY <1>1, <1>2, <1>3, ThroughLeaves DEF RelayInv
<1>5. event' = [event EXCEPT ![e] = Failed(event[e])]
  BY <1>2 DEF MarkEventFailed
<1>6. /\ Failed(event[e]) \in Event /\ Failed(event[e]).status \in {"pending", "failed"}
      /\ Failed(event[e]).status = "pending" => Failed(event[e]).attempts < MaxPublishing
      /\ Failed(event[e]).copies <= Failed(event[e]).attempts
  BY <1>3, FailedEvent
<1>7. PICK x \in Event : x = Failed(event[e])
  BY <1>6
<1>8. relay[r].at \in {Idle, e}
  BY <1>2
<1> QED
  BY <1>1, <1>3, <1>4, <1>5, <1>6, <1>7, <1>8, OneEvent

\* A delay over, the event may be claimed again.
LEMMA BackoffStep ==
    ASSUME RelayInv, NEW e \in Events, BackoffEnds(e)
    PROVE  RelayInv' /\ SameEvents
<1>1. event[e] \in Event /\ event[e].status = "pending" /\ relay' = relay
  BY DEF BackoffEnds, RelayInv, RelayTypeOK
<1>2. event' = [event EXCEPT ![e] = [event[e] EXCEPT !.due = TRUE]]
  BY DEF BackoffEnds
<1>3. ASSUME NEW y \in Event
      PROVE  /\ [y EXCEPT !.due = TRUE] \in Event
             /\ [y EXCEPT !.due = TRUE].status = y.status
             /\ [y EXCEPT !.due = TRUE].copies = y.copies
             /\ [y EXCEPT !.due = TRUE].attempts = y.attempts
  BY DEF Event
<1>4. PICK x \in Event : /\ x = [event[e] EXCEPT !.due = TRUE]
                         /\ x.status = event[e].status /\ x.copies = event[e].copies
                         /\ x.attempts = event[e].attempts
  BY <1>1, <1>3
<1>5. event[e].attempts < MaxPublishing /\ event[e].copies <= event[e].attempts
  BY <1>1 DEF RelayInv, EventInv
<1>6. RelayInv'
  BY <1>1, <1>2, <1>4, <1>5, FreeEvent
<1>7. SameEvents
  BY <1>1, <1>2, <1>4 DEF SameEvents, RelayInv, RelayTypeOK
<1> QED
  BY <1>6, <1>7

\* A relay that dies leaves its batch in processing, and the others alone.
LEMMA DieStep ==
    ASSUME RelayInv, NEW r \in Relays, RelayDies(r)
    PROVE  RelayInv' /\ SameEvents
<1> USE IdleIsElse DEF IdleIsElse, RelayTypeOK, RelayInv
<1>1. /\ relay[r] # Idle /\ relay' = [relay EXCEPT ![r] = Idle]
      /\ \A e \in Events : event'[e] = IF e \in relay[r].left
                                       THEN [event[e] EXCEPT !.lost = TRUE] ELSE event[e]
      /\ event' = [e \in Events |-> event'[e]]
  BY DEF RelayDies
<1>2. ASSUME NEW y \in Event
      PROVE  /\ [y EXCEPT !.lost = TRUE] \in Event
             /\ [y EXCEPT !.lost = TRUE].status = y.status
             /\ [y EXCEPT !.lost = TRUE].copies = y.copies
             /\ [y EXCEPT !.lost = TRUE].attempts = y.attempts
             /\ [y EXCEPT !.lost = TRUE].lost
  BY DEF Event
<1>3. ASSUME NEW e \in Events
      PROVE  /\ event'[e] \in Event /\ event'[e].status = event[e].status
             /\ event'[e].copies = event[e].copies
             /\ event'[e].attempts = event[e].attempts
             /\ e \in relay[r].left => event'[e].lost
             /\ e \notin relay[r].left => event'[e] = event[e]
  <2>1. event[e] \in Event
    OBVIOUS
  <2> QED
    BY <1>1, <1>2, <2>1
<1>4. \A e \in relay[r].left : e \in Events /\ event[e].status = "processing"
  BY <1>1 DEF Batch, BatchInv
<1>5. \A q \in Relays : relay'[q] # Idle =>
          /\ q # r /\ relay'[q] = relay[q] /\ relay[q] # Idle /\ relay[q].left \subseteq Events
          /\ relay[q].after = "sent" => relay[q].at \in relay[q].left
  BY <1>1 DEF Batch, BatchInv
<1>6. RelayTypeOK'
  BY <1>1, <1>3
<1>7. EventInv'
  <2> SUFFICES ASSUME NEW e \in Events
               PROVE  /\ event'[e].status = "none" => event'[e] = NoEvent
                      /\ event'[e].status = "pending" => event'[e].attempts < MaxPublishing
                      /\ event'[e].copies <= event'[e].attempts
                      /\ event'[e].status = "published" => event'[e].copies > 0
    BY DEF EventInv
  <2> QED
    BY <1>3, <1>4 DEF EventInv
<1>8. BatchInv'
  <2>1. ASSUME NEW q \in Relays, relay'[q] # Idle
        PROVE  /\ relay'[q].at = Idle <=> relay'[q].after = "none"
               /\ relay'[q].at # Idle => relay'[q].at \in relay'[q].left
               /\ relay'[q].after = "sent" => event'[relay'[q].at].copies > 0
               /\ \A e \in relay'[q].left :
                     /\ event'[e].status = "processing"
                     /\ relay'[q].at # e => event'[e].copies < event'[e].attempts
    BY <1>3, <1>5, <2>1 DEF BatchInv
  <2>2. ASSUME NEW q \in Relays, NEW s \in Relays, q # s, relay'[q] # Idle, relay'[s] # Idle
        PROVE  relay'[q].left \cap relay'[s].left = {}
    BY <1>5, <2>2 DEF BatchInv
  <2> QED
    BY <2>1, <2>2 DEF BatchInv
<1>9. LostOnlyByCrash'
  <2> SUFFICES ASSUME NEW e \in Events, event'[e].status = "processing", ~event'[e].lost
               PROVE  \E q \in Relays : relay'[q] # Idle /\ e \in relay'[q].left
    BY DEF LostOnlyByCrash
  <2>1. e \notin relay[r].left /\ event'[e] = event[e]
    BY <1>3
  <2>2. PICK q \in Relays : relay[q] # Idle /\ e \in relay[q].left
    BY <2>1 DEF LostOnlyByCrash
  <2> QED
    BY <1>1, <2>1, <2>2
<1> QED
  BY <1>3, <1>6, <1>7, <1>8, <1>9 DEF SameEvents

\* Every step of a relay.
LEMMA RelayStep ==
    ASSUME RelayInv, RelayNext
    PROVE  RelayInv' /\ SameEvents
<1>1. ASSUME NEW r \in Relays, NEW e \in Events, NEW arrived \in BOOLEAN,
             NEW after \in {"sent", "raised"}, Publish(r, e, arrived, after)
      PROVE  RelayInv' /\ SameEvents
  BY <1>1, PublishStep
<1>2. ASSUME NEW r \in Relays,
             ClaimEvents(r) \/ MarkPublished(r) \/ MarkRaises(r) \/ MarkEventFailed(r)
                \/ RelayDies(r)
      PROVE  RelayInv' /\ SameEvents
  BY <1>2, ClaimStep, MarkPublishedStep, MarkRaisesStep, MarkFailedStep, DieStep
<1>3. ASSUME NEW e \in Events, BackoffEnds(e)
      PROVE  RelayInv' /\ SameEvents
  BY <1>3, BackoffStep
<1> QED
  BY <1>1, <1>2, <1>3 DEF RelayNext, GoesOn

-----------------------------------------------------------------------------
(* The actions. *)

\* A message that waits or was answered has tries left.
MessageInv ==
    \A m \in Events : message[m].status \in {"none", "waiting", "answered"} =>
        message[m].tries < MaxTries

\* A confirmation in flight has locked a pending action, no two of them the same.
LocksInv ==
    /\ \A c \in Confirmers : confirm[c] # Idle => action[confirm[c]] = "pending"
    /\ \A c, d \in Confirmers : confirm[c] # Idle /\ confirm[c] = confirm[d] => c = d

AgentTypeOK ==
    /\ pending \in BOOLEAN
    /\ message \in [Events -> Message]
    /\ action \in [Events -> ActionStatus]
    /\ requests \in [Events -> Nat]
    /\ confirm \in [Confirmers -> Events \cup {Idle}]

IInv == RelayInv /\ AgentTypeOK /\ MessageInv /\ LocksInv /\ RequestsFollowDecisions

\* The invariant holds at the start.
LEMMA InitInv == Init => IInv
<1> SUFFICES ASSUME Init PROVE IInv
  OBVIOUS
<1> USE PublishingIsBounded, TriesAreBounded, IdleIsElse
    DEF PublishingIsBounded, TriesAreBounded, IdleIsElse, Init, RelayInit
<1>1. NoEvent \in Event
  BY DEF NoEvent, Event, EventStatus
<1>2. RelayTypeOK
  BY <1>1 DEF RelayTypeOK
<1>3. EventInv
  <2>1. NoEvent.status = "none" /\ NoEvent.copies = 0 /\ NoEvent.attempts = 0
    BY DEF NoEvent
  <2>2. \A e \in Events : event[e] = NoEvent
    OBVIOUS
  <2> HIDE DEF Init, RelayInit
  <2> SUFFICES ASSUME NEW e \in Events
               PROVE  /\ event[e].status = "none" => event[e] = NoEvent
                      /\ event[e].status = "pending" => event[e].attempts < MaxPublishing
                      /\ event[e].copies <= event[e].attempts
                      /\ event[e].status = "published" => event[e].copies > 0
    BY DEF EventInv
  <2> QED
    BY <2>1, <2>2
<1>4. BatchInv /\ LostOnlyByCrash
  BY DEF BatchInv, LostOnlyByCrash, NoEvent
<1>5. AgentTypeOK
  <2>1. [kind |-> "other", status |-> "none", tries |-> 0] \in Message
    BY DEF Message, Kind
  <2> QED
    BY <2>1 DEF AgentTypeOK, ActionStatus
<1>6. MessageInv /\ LocksInv /\ RequestsFollowDecisions
  BY DEF MessageInv, LocksInv, RequestsFollowDecisions, NoEvent
<1> QED
  BY <1>2, <1>3, <1>4, <1>5, <1>6 DEF IInv, RelayInv

\* What an answer, a failure and a retry make of a message.
LEMMA MessageStep ==
    ASSUME AgentTypeOK, MessageInv, NEW m \in Events,
           \/ \E kind \in Kind : Arrives(m, kind)
           \/ message' = Answered(m) /\ Waits(m)
           \/ HandlingFails(m) \/ SentAgain(m)
    PROVE  message' \in [Events -> Message] /\ MessageInv'
<1> USE TriesAreBounded DEF TriesAreBounded, AgentTypeOK
<1>1. /\ message[m] \in Message /\ MaxTries \in Nat /\ MaxTries > 0
      /\ message[m].tries \in Nat /\ message[m].tries <= MaxTries
  BY DEF Message
<1>2. ASSUME NEW x \in Message, message' = [message EXCEPT ![m] = x],
             x.status = "dead" \/ x.tries < MaxTries
      PROVE  message' \in [Events -> Message] /\ MessageInv'
  BY <1>2 DEF MessageInv
<1>3. CASE \E kind \in Kind : Arrives(m, kind)
  <2>1. PICK kind \in Kind : Arrives(m, kind)
    BY <1>3
  <2>2. message' = [message EXCEPT ![m] =
                      [message[m] EXCEPT !.kind = kind, !.status = "waiting"]]
    BY <2>1, Zenon DEF Arrives
  <2>3. message[m].tries < MaxTries
    BY <2>1 DEF Arrives, MessageInv
  <2>4. ASSUME NEW y \in Message, y.tries < MaxTries
        PROVE  /\ [y EXCEPT !.kind = kind, !.status = "waiting"] \in Message
               /\ [y EXCEPT !.kind = kind, !.status = "waiting"].tries < MaxTries
    BY <2>4 DEF Message
  <2> QED
    BY <1>1, <1>2, <2>2, <2>3, <2>4, Zenon
<1>4. CASE message' = Answered(m) /\ Waits(m)
  <2>1. message' = [message EXCEPT ![m] = [message[m] EXCEPT !.status = "answered"]]
    BY <1>4 DEF Answered
  <2>2. message[m].tries < MaxTries
    BY <1>4 DEF Waits, MessageInv
  <2>3. ASSUME NEW y \in Message, y.tries < MaxTries
        PROVE  /\ [y EXCEPT !.status = "answered"] \in Message
               /\ [y EXCEPT !.status = "answered"].tries < MaxTries
    BY <2>3 DEF Message
  <2> QED
    BY <1>1, <1>2, <2>1, <2>2, <2>3, Zenon
<1>5. CASE HandlingFails(m)
  <2>1. message[m].tries < MaxTries /\ message[m].status = "waiting"
    BY <1>5 DEF HandlingFails, Waits, MessageInv
  <2>2. PICK n \in 0..MaxTries : n = message[m].tries + 1
    BY <1>1, <2>1
  <2>3. message' = [message EXCEPT ![m].tries = n,
                                   ![m].status = IF n >= MaxTries THEN "dead" ELSE @]
    BY <1>5, <2>2 DEF HandlingFails
  <2>4. CASE n >= MaxTries
    <3>1. message' = [message EXCEPT ![m] =
                        [message[m] EXCEPT !.tries = n, !.status = "dead"]]
      BY <2>3, <2>4, Zenon
    <3>2. ASSUME NEW y \in Message
          PROVE  /\ [y EXCEPT !.tries = n, !.status = "dead"] \in Message
                 /\ [y EXCEPT !.tries = n, !.status = "dead"].status = "dead"
      BY DEF Message
    <3> QED
      BY <1>1, <1>2, <3>1, <3>2, Zenon
  <2>5. CASE ~(n >= MaxTries)
    <3>1. message' = [message EXCEPT ![m] =
                        [message[m] EXCEPT !.tries = n, !.status = message[m].status]]
      BY <2>3, <2>5, Zenon
    <3>2. n < MaxTries
      BY <1>1, <2>5
    <3>3. ASSUME NEW y \in Message
          PROVE  /\ [y EXCEPT !.tries = n, !.status = y.status] \in Message
                 /\ [y EXCEPT !.tries = n, !.status = y.status].tries = n
      BY DEF Message
    <3> QED
      BY <1>1, <1>2, <3>1, <3>2, <3>3, Zenon
  <2> QED
    BY <2>4, <2>5
<1>6. CASE SentAgain(m)
  <2>1. message' = [message EXCEPT ![m] = [message[m] EXCEPT !.status = "waiting"]]
    BY <1>6 DEF SentAgain
  <2>2. message[m].tries < MaxTries
    BY <1>6 DEF SentAgain, MessageInv
  <2>3. ASSUME NEW y \in Message, y.tries < MaxTries
        PROVE  /\ [y EXCEPT !.status = "waiting"] \in Message
               /\ [y EXCEPT !.status = "waiting"].tries < MaxTries
    BY <2>3 DEF Message
  <2> QED
    BY <1>1, <1>2, <2>1, <2>2, <2>3, Zenon
<1> QED
  BY <1>3, <1>4, <1>5, <1>6

\* A step that leaves the relays and the events leaves their invariant.
LEMMA RelayStays == ASSUME RelayInv, UNCHANGED relayVars PROVE RelayInv'
BY DEF relayVars, RelayInv, RelayTypeOK, EventInv, BatchInv, LostOnlyByCrash

\* Arriving and handling messages, with a proposal at most: an action that is there
\* stays as it is.
LEMMA HandleStep ==
    ASSUME IInv, NEW m \in Events,
           \/ \E kind \in Kind : Arrives(m, kind)
           \/ Handle(m) \/ SentAgain(m)
    PROVE  IInv'
<1> USE DEF IInv
<1>1. UNCHANGED <<relayVars, requests, confirm>>
  BY DEF Arrives, Handle, AskLocation, Propose, JustReply, HandlingFails, SentAgain
<1>2. RelayInv' /\ UNCHANGED <<event, relay>>
  BY <1>1, RelayStays DEF relayVars
<1>3. message' \in [Events -> Message] /\ MessageInv'
  BY MessageStep DEF Handle, AskLocation, Propose, JustReply
<1>4. pending' \in BOOLEAN
  BY DEF AgentTypeOK, Arrives, Handle, AskLocation, Propose, JustReply, HandlingFails,
         SentAgain
<1>5. \/ action' = action
      \/ action[m] = "none" /\ action' = [action EXCEPT ![m] = "pending"]
  BY DEF AgentTypeOK, Arrives, Handle, AskLocation, Propose, JustReply, HandlingFails,
         SentAgain
<1>6. AgentTypeOK'
  BY <1>1, <1>3, <1>4, <1>5 DEF AgentTypeOK, ActionStatus
<1>7. LocksInv'
  BY <1>1, <1>5 DEF LocksInv, AgentTypeOK
<1>8. RequestsFollowDecisions'
  BY <1>1, <1>2, <1>5 DEF RequestsFollowDecisions, AgentTypeOK
<1> QED
  BY <1>2, <1>3, <1>6, <1>7, <1>8

\* A confirmation locks a pending action that nobody has locked.
LEMMA ConfirmLocksStep ==
    ASSUME IInv, NEW c \in Confirmers, NEW m \in Events, ConfirmLocks(c, m)
    PROVE  IInv'
<1> USE IdleIsElse DEF IdleIsElse, IInv
<1>1. /\ confirm[c] = Idle /\ Unlocked(m) /\ action[m] = "pending"
      /\ confirm' = [confirm EXCEPT ![c] = m]
      /\ UNCHANGED <<relayVars, pending, message, action, requests>>
  BY DEF ConfirmLocks
<1>2. RelayInv' /\ UNCHANGED <<event, relay>>
  BY <1>1, RelayStays DEF relayVars
<1>3. AgentTypeOK'
  BY <1>1 DEF AgentTypeOK
<1>4. LocksInv'
  BY <1>1 DEF LocksInv, AgentTypeOK, Unlocked
<1>5. MessageInv' /\ RequestsFollowDecisions'
  BY <1>1, <1>2 DEF MessageInv, RequestsFollowDecisions
<1> QED
  BY <1>2, <1>3, <1>4, <1>5

\* The commit makes the one request of the action and its event.
LEMMA ConfirmCommitsStep ==
    ASSUME IInv, NEW c \in Confirmers, ConfirmCommits(c)
    PROVE  IInv'
<1> USE IdleIsElse DEF IdleIsElse, IInv
<1>1. PICK m \in Events : m = confirm[c]
  BY DEF AgentTypeOK, ConfirmCommits
<1>2. /\ action' = [action EXCEPT ![m] = "executed"]
      /\ requests' = [requests EXCEPT ![m] = requests[m] + 1]
      /\ event' = [event EXCEPT ![m].status = "pending"]
      /\ confirm' = [confirm EXCEPT ![c] = Idle]
      /\ UNCHANGED <<relay, pending, message>>
  BY <1>1 DEF ConfirmCommits, Enqueued
<1>3. action[m] = "pending"
  BY <1>1 DEF LocksInv
<1>4. requests[m] = 0 /\ event[m].status = "none" /\ event[m] = NoEvent
  BY <1>3 DEF RequestsFollowDecisions, RelayInv, EventInv
<1>5. PICK x \in Event : /\ event' = [event EXCEPT ![m] = x]
                         /\ x.status = "pending" /\ x.attempts = 0 /\ x.copies = 0
  <2>1. event' = [event EXCEPT ![m] = [NoEvent EXCEPT !.status = "pending"]]
    BY <1>2, <1>4
  <2>2. NoEvent \in Event /\ NoEvent.attempts = 0 /\ NoEvent.copies = 0
    BY PublishingIsBounded DEF PublishingIsBounded, NoEvent, Event, EventStatus
  <2>3. ASSUME NEW y \in Event
        PROVE  /\ [y EXCEPT !.status = "pending"] \in Event
               /\ [y EXCEPT !.status = "pending"].status = "pending"
               /\ [y EXCEPT !.status = "pending"].attempts = y.attempts
               /\ [y EXCEPT !.status = "pending"].copies = y.copies
    BY DEF Event, EventStatus
  <2> QED
    BY <2>1, <2>2, <2>3, Zenon
<1>6. RelayInv'
  <2>1. MaxPublishing > 0
    BY PublishingIsBounded DEF PublishingIsBounded
  <2>2. /\ event[m].status # "processing" /\ x.status \notin {"none", "processing"}
        /\ x.status = "pending" => x.attempts < MaxPublishing
        /\ x.copies <= x.attempts
        /\ x.status = "published" => x.copies > 0
    BY <1>4, <1>5, <2>1
  <2> QED
    BY <1>2, <1>5, <2>2, FreeEvent
<1>7. AgentTypeOK'
  BY <1>2 DEF AgentTypeOK, ActionStatus
<1>8. MessageInv'
  BY <1>2 DEF MessageInv
<1>9. LocksInv'
  BY <1>1, <1>2 DEF LocksInv, AgentTypeOK
<1>10. RequestsFollowDecisions'
  BY <1>2, <1>4, <1>5 DEF RequestsFollowDecisions, AgentTypeOK, RelayInv, RelayTypeOK
<1> QED
  BY <1>6, <1>7, <1>8, <1>9, <1>10

\* A rollback leaves the action as it was.
LEMMA RollbackStep ==
    ASSUME IInv, NEW c \in Confirmers, ConfirmRollsBack(c)
    PROVE  IInv'
<1> USE IdleIsElse DEF IdleIsElse, IInv
<1>1. /\ confirm' = [confirm EXCEPT ![c] = Idle]
      /\ UNCHANGED <<relayVars, pending, message, action, requests>>
  BY DEF ConfirmRollsBack
<1>2. RelayInv' /\ UNCHANGED <<event, relay>>
  BY <1>1, RelayStays DEF relayVars
<1>3. AgentTypeOK' /\ LocksInv'
  BY <1>1 DEF AgentTypeOK, LocksInv
<1>4. MessageInv' /\ RequestsFollowDecisions'
  BY <1>1, <1>2 DEF MessageInv, RequestsFollowDecisions
<1> QED
  BY <1>2, <1>3, <1>4

\* Only an action that no confirmation has locked is declined.
LEMMA DeclineStep ==
    ASSUME IInv, NEW m \in Events, Decline(m)
    PROVE  IInv'
<1> USE IdleIsElse DEF IdleIsElse, IInv
<1>1. /\ action[m] = "pending" /\ Unlocked(m)
      /\ action' = [action EXCEPT ![m] = "declined"]
      /\ UNCHANGED <<relayVars, pending, message, requests, confirm>>
  BY DEF Decline
<1>2. RelayInv' /\ UNCHANGED <<event, relay>>
  BY <1>1, RelayStays DEF relayVars
<1>3. AgentTypeOK'
  BY <1>1 DEF AgentTypeOK, ActionStatus
<1>4. LocksInv'
  BY <1>1 DEF LocksInv, AgentTypeOK, Unlocked
<1>5. MessageInv' /\ RequestsFollowDecisions'
  BY <1>1, <1>2 DEF MessageInv, RequestsFollowDecisions, AgentTypeOK
<1> QED
  BY <1>2, <1>3, <1>4, <1>5

\* Every step keeps the invariant.
LEMMA NextInv == IInv /\ [Next]_vars => IInv'
<1> SUFFICES ASSUME IInv, [Next]_vars PROVE IInv'
  OBVIOUS
<1>1. ASSUME NEW m \in Events, NEW kind \in Kind, Arrives(m, kind)
      PROVE  IInv'
  BY <1>1, HandleStep
<1>2. ASSUME NEW m \in Events, Handle(m) \/ SentAgain(m)
      PROVE  IInv'
  BY <1>2, HandleStep
<1>3. ASSUME NEW m \in Events, NEW c \in Confirmers, ConfirmLocks(c, m)
      PROVE  IInv'
  BY <1>3, ConfirmLocksStep
<1>4. ASSUME NEW m \in Events, Decline(m)
      PROVE  IInv'
  BY <1>4, DeclineStep
<1>5. ASSUME NEW c \in Confirmers, ConfirmCommits(c) \/ ConfirmRollsBack(c)
      PROVE  IInv'
  BY <1>5, ConfirmCommitsStep, RollbackStep
<1>6. CASE SessionExpires
  <2>1. RelayInv' /\ UNCHANGED <<event, relay>>
    BY <1>6, RelayStays DEF SessionExpires, relayVars, IInv
  <2> QED
    BY <1>6, <2>1 DEF SessionExpires, IInv, AgentTypeOK, MessageInv, LocksInv,
                      RequestsFollowDecisions
<1>7. CASE RelayNext /\ UNCHANGED agentVars
  <2>1. RelayInv' /\ SameEvents
    BY <1>7, RelayStep DEF IInv
  <2> QED
    BY <1>7, <2>1 DEF agentVars, SameEvents, IInv, AgentTypeOK, MessageInv, LocksInv,
                      RequestsFollowDecisions
<1>8. CASE UNCHANGED vars
  <2>1. RelayInv' /\ UNCHANGED <<event, relay>>
    BY <1>8, RelayStays DEF vars, relayVars, IInv
  <2> QED
    BY <1>8, <2>1 DEF vars, agentVars, IInv, AgentTypeOK, MessageInv, LocksInv,
                      RequestsFollowDecisions
<1> QED
  BY <1>1, <1>2, <1>3, <1>4, <1>5, <1>6, <1>7, <1>8 DEF Next, AgentNext

\* The invariant is one of every behaviour.
LEMMA Inductive == Spec => []IInv
BY InitInv, NextInv, PTL DEF Spec

-----------------------------------------------------------------------------

\* Every variable keeps its type (every action of the agent and of the relay).
THEOREM TypeCorrect == Spec => []TypeOK
<1>1. IInv => TypeOK
  BY DEF IInv, RelayInv, RelayTypeOK, AgentTypeOK, TypeOK
<1> QED
  BY <1>1, Inductive, PTL

\* For any number of messages, redeliveries and overlapping confirmations and
\* declines, an action has one request and one event if it was executed, and none
\* if it was not (create_action, approve_and_execute, confirm).
THEOREM RequestsFollow == Spec => []RequestsFollowDecisions
<1>1. IInv => RequestsFollowDecisions
  BY DEF IInv
<1> QED
  BY <1>1, Inductive, PTL

\* For any number of relays, an event is tried a bounded number of times, with a
\* copy a claim at most, and is published only with a copy on the stream
\* (relay_once, mark_event_failed).
THEOREM CopiesCounted == Spec => []CopiesAreCounted
<1>1. IInv => CopiesAreCounted
  BY RelayInvImplies DEF IInv
<1> QED
  BY <1>1, Inductive, PTL

\* An event stays in processing only in the batch of a running relay, or after the
\* relay that had it died (claim_outbox_events).
THEOREM LostMeansCrash == Spec => []LostOnlyByCrash
<1>1. IInv => LostOnlyByCrash
  BY DEF IInv, RelayInv
<1> QED
  BY <1>1, Inductive, PTL
=============================================================================
