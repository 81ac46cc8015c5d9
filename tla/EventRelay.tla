------------------------------- MODULE EventRelay -------------------------------
(***************************************************************************)
(* Domain events: rows of outbox_events that a relay copies to a Redis     *)
(* stream (app/services/realtime.py, realtime_worker.py). Claim, xadd and  *)
(* mark are three steps, and nothing recovers a claim.                     *)
(*                                                                         *)
(* The consumers acknowledge what they read and do nothing with it.        *)
(***************************************************************************)
EXTENDS Naturals

CONSTANTS
    Events,
    Relays,          \* processes of realtime_worker
    MaxPublishing,   \* attempts after which an event has failed (10 in the code)
    Idle

ASSUME PublishingIsBounded == MaxPublishing \in Nat \ {0}

VARIABLES
    event,  \* outbox_events, and the copies of each on the stream
    relay   \* what each relay still has of its batch, and where it is

EventStatus == {"none", "pending", "processing", "published", "failed"}

\* due: available_at is past. copies and lost are history: entries of the stream,
\* and whether a relay died with the event in its batch.
Event == [status : EventStatus, attempts : 0..MaxPublishing, due : BOOLEAN,
          copies : Nat, lost : BOOLEAN]

NoEvent == [status |-> "none", attempts |-> 0, due |-> TRUE, copies |-> 0, lost |-> FALSE]

\* after: what became of the publication of at, if one has been tried.
Batch == [left : SUBSET Events, at : Events \cup {Idle}, after : {"none", "sent", "raised"}]

ASSUME IdleIsElse == Idle \notin Events /\ Idle \notin Batch

RelayInit ==
    /\ event = [e \in Events |-> NoEvent]
    /\ relay = [r \in Relays |-> Idle]

\* enqueue, in the transaction of what the event tells.
Enqueued(e) == [event EXCEPT ![e].status = "pending"]

-----------------------------------------------------------------------------
(* Mistakes the properties are tested against.                             *)

NeverFailed(ev) == [ev EXCEPT !.status = "pending", !.due = FALSE]
StaysClaimed(ev) == [ev EXCEPT !.due = FALSE]

-----------------------------------------------------------------------------

Claimable == {e \in Events : event[e].status = "pending" /\ event[e].due}

Claimed(ev) == [ev EXCEPT !.status = "processing", !.attempts = @ + 1]

\* claim_outbox_events and its commit.
ClaimEvents(r) ==
    /\ relay[r] = Idle /\ Claimable # {}
    /\ relay' = [relay EXCEPT ![r] = [left |-> Claimable, at |-> Idle, after |-> "none"]]
    /\ event' = [e \in Events |-> IF e \in Claimable THEN Claimed(event[e]) ELSE event[e]]

\* publish_event: xadd, whose answer may be lost.
Publish(r, e, arrived, after) ==
    /\ relay[r] # Idle /\ relay[r].at = Idle /\ e \in relay[r].left
    /\ after \in {"sent", "raised"} /\ (after = "sent" => arrived)
    /\ relay' = [relay EXCEPT ![r].at = e, ![r].after = after]
    /\ event' = IF arrived THEN [event EXCEPT ![e].copies = @ + 1] ELSE event

\* The relay is through with the event it was at.
Through(r) ==
    LET left == relay[r].left \ {relay[r].at} IN
    [relay EXCEPT ![r] =
        IF left = {} THEN Idle ELSE [left |-> left, at |-> Idle, after |-> "none"]]

MarkPublished(r) ==
    /\ relay[r] # Idle /\ relay[r].after = "sent"
    /\ event' = [event EXCEPT ![relay[r].at].status = "published"]
    /\ relay' = Through(r)

\* mark_event_published raises, and the event counts as not published.
MarkRaises(r) ==
    /\ relay[r] # Idle /\ relay[r].after = "sent"
    /\ relay' = [relay EXCEPT ![r].after = "raised"]
    /\ UNCHANGED event

Failed(ev) ==
    [ev EXCEPT !.status = IF ev.attempts >= MaxPublishing THEN "failed" ELSE "pending",
               !.due = FALSE]

MarkEventFailed(r) ==
    /\ relay[r] # Idle /\ relay[r].after = "raised"
    /\ event' = [event EXCEPT ![relay[r].at] = Failed(@)]
    /\ relay' = Through(r)

BackoffEnds(e) ==
    /\ event[e].status = "pending" /\ ~event[e].due
    /\ event' = [event EXCEPT ![e].due = TRUE]
    /\ UNCHANGED relay

\* The relay dies, as it also does when mark_event_failed raises, and is started
\* again.
RelayDies(r) ==
    /\ relay[r] # Idle
    /\ event' = [e \in Events |->
                    IF e \in relay[r].left THEN [event[e] EXCEPT !.lost = TRUE] ELSE event[e]]
    /\ relay' = [relay EXCEPT ![r] = Idle]

\* One pass of the loop of relay_once, or a part of it.
GoesOn(r) ==
    \/ \E e \in Events, arrived \in BOOLEAN, after \in {"sent", "raised"} :
          Publish(r, e, arrived, after)
    \/ MarkPublished(r) \/ MarkRaises(r) \/ MarkEventFailed(r)

RelayNext ==
    \/ \E r \in Relays : ClaimEvents(r) \/ GoesOn(r) \/ RelayDies(r)
    \/ \E e \in Events : BackoffEnds(e)

-----------------------------------------------------------------------------

\* A committed event is tried a bounded number of times, one claim a copy at
\* most, and is published only with a copy on the stream (relay_once,
\* mark_event_failed).
CopiesAreCounted ==
    \A e \in Events :
        /\ event[e].attempts <= MaxPublishing
        /\ event[e].copies <= event[e].attempts
        /\ event[e].status = "published" => event[e].copies > 0

\* An event stays in processing only in the batch of a running relay, or for
\* ever after the relay that had it died (claim_outbox_events).
LostOnlyByCrash ==
    \A e \in Events :
        event[e].status = "processing" =>
            event[e].lost \/ \E r \in Relays : relay[r] # Idle /\ e \in relay[r].left

\* However often the stream or a mark fails, a committed event is published or
\* has failed in the end, unless a relay died with it (relay_once, run_relay).
EventsAreDecided ==
    \A e \in Events :
        event[e].status = "pending" ~>
            event[e].status \in {"published", "failed"} \/ event[e].lost
=============================================================================
