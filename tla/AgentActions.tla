------------------------------ MODULE AgentActions ------------------------------
(***************************************************************************)
(* The agent's proposals: a customer's messages (process_message of        *)
(* app/api/agent.py), their confirmation (confirm, approve_and_execute of  *)
(* agent_execution.py), and the event that goes out with the request       *)
(* (EventRelay).                                                           *)
(*                                                                         *)
(* One customer and one session. A message that raises is rolled back and  *)
(* handled again, a bounded number of times, by the inbox.                 *)
(***************************************************************************)
EXTENDS EventRelay

CONSTANTS
    Confirmers,  \* confirmations that can be in flight together
    MaxTries     \* times the inbox handles a message (8 in the code)

ASSUME TriesAreBounded == MaxTries \in Nat \ {0}

VARIABLES
    pending,   \* the session waits for a location (agent_sessions.state)
    message,   \* messages, by external id
    action,    \* agent_actions; a message's id is the action's idempotency key
    requests,  \* service requests created for each action
    confirm    \* the action whose row each confirmation in flight has locked

relayVars == <<event, relay>>
agentVars == <<pending, message, action, requests, confirm>>
vars == <<relayVars, agentVars>>

\* A service in words, one with coordinates, coordinates alone, anything else.
Kind == {"service", "located", "location", "other"}

Message == [kind : Kind, status : {"none", "waiting", "answered", "dead"}, tries : 0..MaxTries]

ActionStatus == {"none", "pending", "executed", "declined"}

Init ==
    /\ RelayInit
    /\ pending = FALSE
    /\ message = [m \in Events |-> [kind |-> "other", status |-> "none", tries |-> 0]]
    /\ action = [m \in Events |-> "none"]
    /\ requests = [m \in Events |-> 0]
    /\ confirm = [c \in Confirmers |-> Idle]

-----------------------------------------------------------------------------
(* Mistakes the properties are tested against.                             *)

AnyTime(m) == TRUE

-----------------------------------------------------------------------------
(* Messages.                                                               *)

Arrives(m, kind) ==
    /\ message[m].status = "none"
    /\ message' = [message EXCEPT ![m].kind = kind, ![m].status = "waiting"]
    /\ UNCHANGED <<relayVars, pending, action, requests, confirm>>

HasLocation(kind) == kind \in {"located", "location"}

\* create_action is called with trace_id, which it does not take.
Raises(m) == HasLocation(message[m].kind) /\ pending

Waits(m) == message[m].status = "waiting"

Answered(m) == [message EXCEPT ![m].status = "answered"]

\* A service without a location: the session waits for one.
AskLocation(m) ==
    /\ Waits(m) /\ message[m].kind = "service"
    /\ pending' = TRUE
    /\ message' = Answered(m)
    /\ UNCHANGED <<relayVars, action, requests, confirm>>

\* create_action: a key that is there keeps its action as it is.
Propose(m) ==
    /\ Waits(m) /\ message[m].kind = "located" /\ ~Raises(m)
    /\ action' = [action EXCEPT ![m] = IF @ = "none" THEN "pending" ELSE @]
    /\ message' = Answered(m)
    /\ UNCHANGED <<relayVars, pending, requests, confirm>>

JustReply(m) ==
    /\ Waits(m) /\ message[m].kind \in {"location", "other"} /\ ~Raises(m)
    /\ message' = Answered(m)
    /\ UNCHANGED <<relayVars, pending, action, requests, confirm>>

HandlingFails(m) ==
    /\ Waits(m) /\ Raises(m)
    /\ LET tries == message[m].tries + 1 IN
       message' = [message EXCEPT ![m].tries = tries,
                                  ![m].status = IF tries >= MaxTries THEN "dead" ELSE @]
    /\ UNCHANGED <<relayVars, pending, action, requests, confirm>>

\* The client of POST /agent/messages sends a message again.
SentAgain(m) ==
    /\ message[m].status = "answered"
    /\ message' = [message EXCEPT ![m].status = "waiting"]
    /\ UNCHANGED <<relayVars, pending, action, requests, confirm>>

SessionExpires ==
    /\ pending
    /\ pending' = FALSE
    /\ UNCHANGED <<relayVars, message, action, requests, confirm>>

-----------------------------------------------------------------------------
(* Decisions.                                                              *)

\* No transaction holds the row of the action.
Unlocked(m) == \A c \in Confirmers : confirm[c] # m

\* The select for update of approve_and_execute.
ConfirmLocks(c, m) ==
    /\ confirm[c] = Idle /\ Unlocked(m) /\ action[m] = "pending"
    /\ confirm' = [confirm EXCEPT ![c] = m]
    /\ UNCHANGED <<relayVars, pending, message, action, requests>>

\* The request, its event and the receipt, in one commit.
ConfirmCommits(c) ==
    /\ confirm[c] # Idle
    /\ LET m == confirm[c] IN
       /\ action' = [action EXCEPT ![m] = "executed"]
       /\ requests' = [requests EXCEPT ![m] = @ + 1]
       /\ event' = Enqueued(m)
    /\ confirm' = [confirm EXCEPT ![c] = Idle]
    /\ UNCHANGED <<relay, pending, message>>

\* An error, or a crash: the rollback takes the mark failed with it.
ConfirmRollsBack(c) ==
    /\ confirm[c] # Idle
    /\ confirm' = [confirm EXCEPT ![c] = Idle]
    /\ UNCHANGED <<relayVars, pending, message, action, requests>>

Decline(m) ==
    /\ action[m] = "pending" /\ Unlocked(m)
    /\ action' = [action EXCEPT ![m] = "declined"]
    /\ UNCHANGED <<relayVars, pending, message, requests, confirm>>

Handle(m) == AskLocation(m) \/ Propose(m) \/ JustReply(m) \/ HandlingFails(m)

AgentNext ==
    \/ \E m \in Events :
        \/ \E kind \in Kind : Arrives(m, kind)
        \/ \E c \in Confirmers : ConfirmLocks(c, m)
        \/ Handle(m) \/ SentAgain(m) \/ Decline(m)
    \/ \E c \in Confirmers : ConfirmCommits(c) \/ ConfirmRollsBack(c)
    \/ SessionExpires

Next == AgentNext \/ (RelayNext /\ UNCHANGED agentVars)

Spec == Init /\ [][Next]_vars

\* The inbox goes on handling what waits. A relay goes on with its batch, and claims
\* in the order of creation whatever is due; delays end.
FairSpec ==
    /\ Spec
    /\ \A m \in Events : WF_vars(Handle(m)) /\ WF_vars(BackoffEnds(m) /\ UNCHANGED agentVars)
    /\ \A r \in Relays :
          /\ WF_vars(ClaimEvents(r) /\ UNCHANGED agentVars)
          /\ WF_vars(GoesOn(r) /\ UNCHANGED agentVars)

-----------------------------------------------------------------------------

TypeOK ==
    /\ event \in [Events -> Event]
    /\ relay \in [Relays -> Batch \cup {Idle}]
    /\ pending \in BOOLEAN
    /\ message \in [Events -> Message]
    /\ action \in [Events -> ActionStatus]
    /\ requests \in [Events -> Nat]
    /\ confirm \in [Confirmers -> Events \cup {Idle}]

\* However often a proposal is made, confirmed and declined at once, it ends in
\* one request and one event if it was executed, and in none if it was not
\* (create_action, approve_and_execute, confirm).
RequestsFollowDecisions ==
    \A m \in Events :
        /\ requests[m] = IF action[m] = "executed" THEN 1 ELSE 0
        /\ event[m].status # "none" <=> action[m] = "executed"

\* README_V06.md:7 "Persistent agent sessions for location collection.": the
\* location the agent has asked for is answered (process_message).
LocationIsAnswered ==
    \A m \in Events :
        Waits(m) /\ message[m].kind = "location" ~> message[m].status = "answered"
=============================================================================
