---------------------------- MODULE WhatsAppInbox ----------------------------
(***************************************************************************)
(* The durable WhatsApp inbox and the workers that drain it                *)
(* (app/services/whatsapp_reliability.py, whatsapp_inbox_worker.py and the *)
(* two ingress webhooks of app/api/webhooks.py).                           *)
(*                                                                         *)
(* A row of whatsapp_inbox_events is unique per (account, message id); the *)
(* second defence, agent_message_dedup, is unique per message id only.     *)
(* Workers claim rows with a lease, run the domain command and the reply   *)
(* in one transaction, and mark the row in a transaction of its own.  A    *)
(* transaction is one step here: it commits as a whole or changes nothing. *)
(***************************************************************************)
EXTENDS Naturals, FiniteSets

CONSTANTS
    Events,           \* inbox rows that can exist: <<account_key, message id>>
    Workers,          \* processes running whatsapp_inbox_worker.run_forever
    MaxAttempts,      \* MAX_ATTEMPTS of whatsapp_reliability.py
    BatchLimit,       \* the limit of claim_inbox_events
    Poison,           \* events process_inbox_event always rejects (no E.164 sender)
    Flaky,            \* events whose transactions may fail for a passing reason
    Confirms,         \* events that carry a Confirm/Decline button
    IdemKey,          \* [Events -> idempotency key enqueue_channel gives the reply]
    EnqueueAccepted,  \* does PostgreSQL accept the insert of enqueue_channel?
    MaxCrashes,       \* bound: worker crashes in one behaviour
    NoClaim           \* a worker is not in the middle of an event

ASSUME InboxAssumption ==
    /\ MaxAttempts \in Nat \ {0}
    /\ BatchLimit \in Nat \ {0}
    /\ MaxCrashes \in Nat
    /\ Poison \subseteq Events
    /\ Flaky \subseteq Events
    /\ Confirms \subseteq Events
    /\ DOMAIN IdemKey = Events
    /\ EnqueueAccepted \in BOOLEAN
    /\ NoClaim \notin [key : Events, attempt : Nat]

VARIABLES
    inbox,     \* whatsapp_inbox_events: status, attempts, available_at<=now(), lease age
    dedup,     \* agent_message_dedup: message ids of channel 'whatsapp'
    executed,  \* committed runs of the domain command, per event
    replies,   \* outbox_messages rows committed for the event
    batch,     \* rows a worker has claimed and not begun
    current,   \* the claimed row a worker is in the middle of
    phase,     \* where the worker is in the body of drain_once
    crashes    \* worker crashes so far

vars == <<inbox, dedup, executed, replies, batch, current, phase, crashes>>

MsgId(k) == k[2]
MsgIds == {MsgId(k) : k \in Events}

Status == {"absent", "received", "processing", "processed", "failed", "dead_letter"}
Row == [status : Status, attempts : Nat, due : BOOLEAN, stale : BOOLEAN]

\* What `returning e.*` hands to the worker; only mark_inbox_* by id follows.
Claim == [key : Events, attempt : Nat]

Phase == {"ready", "replying", "done", "failing"}

NoRow == [status |-> "absent", attempts |-> 0, due |-> FALSE, stale |-> FALSE]

Init ==
    /\ inbox = [k \in Events |-> NoRow]
    /\ dedup = {}
    /\ executed = [k \in Events |-> 0]
    /\ replies = [k \in Events |-> 0]
    /\ batch = [w \in Workers |-> {}]
    /\ current = [w \in Workers |-> NoClaim]
    /\ phase = [w \in Workers |-> "ready"]
    /\ crashes = 0

-----------------------------------------------------------------------------
(* Mistakes the properties are tested against: each replaces the operator   *)
(* it is named after.                                                      *)

RecoveredNever(row) == row
ClaimableOnce(row) == row.status = "received" /\ row.due
MarkedFailedQuietly(row) ==
    [row EXCEPT !.status = IF row.attempts >= MaxAttempts THEN "processed" ELSE "failed",
                !.due = FALSE, !.stale = FALSE]
MarkedFailedInPlace(row) == [row EXCEPT !.due = FALSE]
FirstSeenAlways(k) == TRUE
ReplyUnkeyed(k) == [replies EXCEPT ![k] = @ + 1]

-----------------------------------------------------------------------------
(* The row updates of whatsapp_reliability.py. *)

\* record_inbox_event: insert ... on conflict do nothing.
Recorded(row) ==
    IF row.status = "absent"
    THEN [row EXCEPT !.status = "received", !.due = TRUE]
    ELSE row

\* recover_stale_inbox_events: no look at attempts.
Recovered(row) ==
    IF row.status = "processing" /\ row.stale
    THEN [row EXCEPT !.status = "failed", !.due = TRUE, !.stale = FALSE]
    ELSE row

Claimable(row) == row.status \in {"received", "failed"} /\ row.due

Claimed(row) ==
    [row EXCEPT !.status = "processing", !.attempts = @ + 1, !.stale = FALSE]

\* mark_inbox_processed and mark_inbox_failed: `where id=:id` and nothing else.
MarkedProcessed(row) == [row EXCEPT !.status = "processed", !.stale = FALSE]

MarkedFailed(row) ==
    [row EXCEPT !.status = IF row.attempts >= MaxAttempts THEN "dead_letter" ELSE "failed",
                !.due = FALSE, !.stale = FALSE]

-----------------------------------------------------------------------------
(* Ingress and time. *)

\* receive_whatsapp / receive_baileys_webhook; a retry of the sender comes here too.
Receive(k) ==
    /\ inbox' = [inbox EXCEPT ![k] = Recorded(@)]
    /\ UNCHANGED <<dedup, executed, replies, batch, current, phase, crashes>>

\* The backoff of a failed event runs out.
BackoffEnds(k) ==
    /\ inbox[k].status = "failed"
    /\ ~inbox[k].due
    /\ inbox' = [inbox EXCEPT ![k].due = TRUE]
    /\ UNCHANGED <<dedup, executed, replies, batch, current, phase, crashes>>

\* locked_at becomes older than stale_seconds, whatever its worker is doing.
LeaseExpires(k) ==
    /\ inbox[k].status = "processing"
    /\ ~inbox[k].stale
    /\ inbox' = [inbox EXCEPT ![k].stale = TRUE]
    /\ UNCHANGED <<dedup, executed, replies, batch, current, phase, crashes>>

-----------------------------------------------------------------------------
(* The worker: drain_once. *)

\* The insert into agent_message_dedup ... on conflict do nothing returned a row.
FirstSeen(k) == MsgId(k) \notin dedup

\* A row of outbox_messages already has the key of k's reply.
Enqueued(k) == \E l \in Events : IdemKey[l] = IdemKey[k] /\ replies[l] > 0

\* enqueue_channel: insert ... on conflict(idempotency_key) do nothing.  The
\* worker passes no key, so that the key is channel:recipient:type:body, and a
\* reply with the text of an earlier one to the same phone is no new row.
ReplyTo(k) == IF Enqueued(k) THEN replies ELSE [replies EXCEPT ![k] = @ + 1]

\* The rows are all the due ones or BatchLimit of them; rows another
\* transaction has locked are skipped, so that the choice is open.
DrainClaiming(w, S) ==
    LET swept == [k \in Events |-> Recovered(inbox[k])]
        claimable == {k \in Events : Claimable(swept[k])}
    IN  /\ phase[w] = "ready" /\ batch[w] = {}
        /\ S \subseteq claimable
        /\ Cardinality(S) <= BatchLimit
        /\ inbox' = [k \in Events |-> IF k \in S THEN Claimed(swept[k]) ELSE swept[k]]
        /\ batch' = [batch EXCEPT ![w] =
                        {[key |-> k, attempt |-> swept[k].attempts + 1] : k \in S}]
        /\ UNCHANGED <<dedup, executed, replies, current, phase, crashes>>

Drain(w) == \E S \in SUBSET Events : DrainClaiming(w, S)

\* The next row of the batch, with the phase its transaction leaves it in.
Begin(w, c, next) ==
    /\ phase[w] = "ready"
    /\ c \in batch[w]
    /\ batch' = [batch EXCEPT ![w] = @ \ {c}]
    /\ current' = [current EXCEPT ![w] = c]
    /\ phase' = [phase EXCEPT ![w] = next]

\* The insert into agent_message_dedup found the id: commit and return.
ProcessDuplicate(w, c) ==
    /\ c.key \notin Poison
    /\ ~FirstSeen(c.key)
    /\ Begin(w, c, "done")
    /\ UNCHANGED <<inbox, dedup, executed, replies, crashes>>

\* Dedup row, domain command and reply in one transaction.
ProcessFresh(w, c) ==
    /\ c.key \notin Poison \cup Confirms
    /\ FirstSeen(c.key)
    /\ EnqueueAccepted
    /\ Begin(w, c, "done")
    /\ dedup' = dedup \cup {MsgId(c.key)}
    /\ executed' = [executed EXCEPT ![c.key] = @ + 1]
    /\ replies' = ReplyTo(c.key)
    /\ UNCHANGED <<inbox, crashes>>

\* A button goes to api/agent.confirm, which commits the session it was given:
\* the dedup row and the action are durable before the reply is enqueued.
ProcessConfirm(w, c) ==
    /\ c.key \in Confirms \ Poison
    /\ FirstSeen(c.key)
    /\ Begin(w, c, "replying")
    /\ dedup' = dedup \cup {MsgId(c.key)}
    /\ executed' = [executed EXCEPT ![c.key] = @ + 1]
    /\ UNCHANGED <<inbox, replies, crashes>>

EnqueueReply(w) ==
    /\ phase[w] = "replying"
    /\ EnqueueAccepted
    /\ replies' = ReplyTo(current[w].key)
    /\ phase' = [phase EXCEPT ![w] = "done"]
    /\ UNCHANGED <<inbox, dedup, executed, batch, current, crashes>>

\* process_inbox_event raises before its first commit: everything rolls back.
ProcessFails(w, c) ==
    /\ \/ c.key \in Poison \cup Flaky
       \/ ~EnqueueAccepted /\ c.key \notin Confirms /\ FirstSeen(c.key)
    /\ Begin(w, c, "failing")
    /\ UNCHANGED <<inbox, dedup, executed, replies, crashes>>

\* An exception after confirm's commit, or in the transaction that marks the row.
StepFails(w) ==
    /\ \/ phase[w] = "replying" /\ (current[w].key \in Flaky \/ ~EnqueueAccepted)
       \/ phase[w] = "done" /\ current[w].key \in Flaky
    /\ phase' = [phase EXCEPT ![w] = "failing"]
    /\ UNCHANGED <<inbox, dedup, executed, replies, batch, current, crashes>>

Mark(w, row) ==
    /\ inbox' = [inbox EXCEPT ![current[w].key] = row]
    /\ current' = [current EXCEPT ![w] = NoClaim]
    /\ phase' = [phase EXCEPT ![w] = "ready"]
    /\ UNCHANGED <<dedup, executed, replies, batch, crashes>>

MarkProcessed(w) ==
    /\ phase[w] = "done"
    /\ Mark(w, MarkedProcessed(inbox[current[w].key]))

MarkFailed(w) ==
    /\ phase[w] = "failing"
    /\ Mark(w, MarkedFailed(inbox[current[w].key]))

\* The process dies, or mark_inbox_failed itself raises and ends run_forever;
\* a new process starts with nothing in memory.
Crash(w) ==
    /\ crashes < MaxCrashes
    /\ batch[w] # {} \/ current[w] # NoClaim
    /\ crashes' = crashes + 1
    /\ batch' = [batch EXCEPT ![w] = {}]
    /\ current' = [current EXCEPT ![w] = NoClaim]
    /\ phase' = [phase EXCEPT ![w] = "ready"]
    /\ UNCHANGED <<inbox, dedup, executed, replies>>

Process(w) ==
    \E c \in batch[w] :
        ProcessDuplicate(w, c) \/ ProcessFresh(w, c) \/ ProcessConfirm(w, c) \/ ProcessFails(w, c)

Finish(w) == EnqueueReply(w) \/ StepFails(w) \/ MarkProcessed(w) \/ MarkFailed(w)

Next ==
    \/ \E k \in Events : Receive(k) \/ BackoffEnds(k) \/ LeaseExpires(k)
    \/ \E w \in Workers : Drain(w) \/ Process(w) \/ Finish(w) \/ Crash(w)

Spec == Init /\ [][Next]_vars

\* run_forever never stops, a claimed batch is always worked off, time passes,
\* and `order by created_at` lets no due row be passed over for ever.
Fairness ==
    /\ \A w \in Workers : WF_vars(Process(w)) /\ WF_vars(Finish(w))
    /\ \A k \in Events :
        /\ WF_vars(BackoffEnds(k)) /\ WF_vars(LeaseExpires(k))
        /\ SF_vars(\E w \in Workers, S \in SUBSET Events : k \in S /\ DrainClaiming(w, S))

FairSpec == Spec /\ Fairness

-----------------------------------------------------------------------------
(* What the inbox promises. *)

TypeOK ==
    /\ inbox \in [Events -> Row]
    /\ dedup \subseteq MsgIds
    /\ executed \in [Events -> Nat]
    /\ replies \in [Events -> Nat]
    /\ batch \in [Workers -> SUBSET Claim]
    /\ current \in [Workers -> Claim \cup {NoClaim}]
    /\ phase \in [Workers -> Phase]
    /\ crashes \in 0..MaxCrashes

SameMessage(k, l) == MsgId(k) = MsgId(l)

\* A message runs its domain command at most once, however often it is
\* delivered, on however many accounts, and whoever reclaims its row
\* (whatsapp_inbox_worker.process_inbox_event, README_V33.md:22).
AtMostOnce ==
    \A k, l \in Events :
        SameMessage(k, l) => executed[k] <= 1 /\ (k # l => executed[k] + executed[l] <= 1)

\* A row marked processed is never a lost message: the command of its message
\* id has committed, on this row or on one with the same id (drain_once marks
\* the row only after process_inbox_event returned).
ProcessedWasHandled ==
    \A k \in Events :
        inbox[k].status = "processed" =>
            \E l \in Events : SameMessage(k, l) /\ executed[l] = 1

\* A reply is enqueued only for a command that ran, one per idempotency key,
\* and a command that ran outside the button path has its key in the outbox:
\* dedup row, command and reply are one transaction.
ReplyMatchesCommand ==
    \A k \in Events :
        /\ replies[k] <= executed[k]
        /\ executed[k] = 1 /\ k \notin Confirms => Enqueued(k)
        /\ \A l \in Events : k # l /\ IdemKey[k] = IdemKey[l] => replies[k] = 0 \/ replies[l] = 0

\* The claims a worker has in memory.
Holds(w) == batch[w] \cup ({current[w]} \ {NoClaim})

\* Two workers hold the same row only under different leases, and no lease is
\* newer than the row (claim_inbox_events counts an attempt per claim).
LeasesDiffer ==
    \A w \in Workers : \A c \in Holds(w) :
        /\ c.attempt <= inbox[c.key].attempts
        /\ \A v \in Workers \ {w} : c \notin Holds(v)

\* A row stays in processing without a worker only because a process died.
AbandonedOnlyByCrash ==
    \A k \in Events :
        inbox[k].status = "processing" =>
            \/ crashes > 0
            \/ \E w \in Workers : [key |-> k, attempt |-> inbox[k].attempts] \in Holds(w)

\* Nobody takes over a row whose lease has not run out.
FreshLeaseIsRespected ==
    [][\A k \in Events :
          inbox[k].status = "processing" /\ ~inbox[k].stale
              => inbox'[k].attempts = inbox[k].attempts]_vars

\* A handled or dead-lettered message is final once every worker that holds it
\* is done: whatever the order of late marks, the row ends in one of the two.
Settles ==
    \A k \in Events :
        inbox[k].status # "absent" ~> [](inbox[k].status \in {"processed", "dead_letter"})

\* A button whose command is committed, whose worker died before the reply, and
\* whose retry is a duplicate.
CutOff(k) ==
    /\ k \in Confirms /\ executed[k] = 1 /\ ~Enqueued(k)
    /\ crashes > 0
    /\ ~\E w \in Workers : phase[w] = "replying" /\ current[w].key = k

\* A recorded message that nothing is wrong with is handled, and the text of its
\* reply reaches the outbox unless its worker died between confirm's commit and
\* the reply (README_V33.md:9-20: webhook, inbox, worker, router, transactional
\* outbox).  It holds for a database that takes the insert of enqueue_channel.
HealthyMessageIsAnswered ==
    \A k \in Events \ (Poison \cup Flaky) :
        inbox[k].status # "absent" ~>
            \E l \in Events :
                SameMessage(k, l) /\ executed[l] = 1 /\ (Enqueued(l) \/ CutOff(l))

-----------------------------------------------------------------------------
(* The abstract inbox this one implements. *)

Handling == INSTANCE MessageHandling
    WITH recorded <- {k \in Events : inbox[k].status # "absent"},
         handled <- executed,
         answered <- replies,
         MsgOf <- [k \in Events |-> MsgId(k)]

\* Leases, retries and crashes notwithstanding, the inbox does what it promises:
\* it handles a recorded message at most once and answers it only after that
\* (process_inbox_event, claim_inbox_events).
ImplementsHandling == Handling!Spec
=============================================================================
