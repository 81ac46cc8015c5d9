-------------------------------- MODULE MediaJobs --------------------------------
(***************************************************************************)
(* The analysis of one media object: the job and the result                *)
(* (app/services/media_intelligence.py, app/api/intelligence.py) and the   *)
(* stream of media_intelligence_worker.py, on the object of MediaObjects.  *)
(*                                                                         *)
(* A job and its result are two rows: a request locks the job first, a run *)
(* the result first; a voice note gets a job with no result. Nothing       *)
(* recovers a job in processing.                                           *)
(***************************************************************************)
EXTENDS MediaObjects, Naturals

CONSTANTS
    Owners,       \* requests of the owner that can be in flight together
    Runners,      \* callers of the endpoints worker/claim and worker/run
    MaxAttempts,  \* claims after which a failed job stays failed (5 in the code)
    MaxRequests   \* bound of the instance on requests for the analysis

ASSUME LimitsAreNatural == MaxAttempts \in Nat \ {0} /\ MaxRequests \in Nat

VARIABLES
    job,      \* the row of media_processing_jobs
    result,   \* media_intelligence_results.status
    request,  \* owners whose transaction has written the job, not yet the result
    runner,   \* the runs: of a job claimed or of any, and how far they are
    stream    \* the entry of the worker's stream

jobVars == <<job, result, request, runner, stream>>
vars == <<objectVars, jobVars>>

JobStatus == {"none", "pending", "processing", "completed", "failed"}

\* due: available_at is past. asked and dropped are history: requests committed
\* and the voice note, and whether a claim ended without a mark.
Job == [status : JobStatus, attempts : 0..(MaxAttempts + MaxRequests), due : BOOLEAN,
        asked : 0..(MaxRequests + 1), dropped : BOOLEAN]

ResultStatus == {"none", "pending", "completed", "failed"}

\* A run that holds the result's row is "locked" first, then "asked" while the
\* provider works; a claim that is not yet run is "waiting".
Run == [claimed : BOOLEAN, at : {"waiting", "locked", "asked", "answered", "refused"}]

ASSUME IdleIsNoRun == Idle \notin Run

Init ==
    /\ ObjectInit
    /\ job = [status |-> "none", attempts |-> 0, due |-> TRUE, asked |-> 0, dropped |-> FALSE]
    /\ result = "none"
    /\ request = {}
    /\ runner = [r \in Runners |-> Idle]
    /\ stream = "empty"

-----------------------------------------------------------------------------
(* Mistakes the properties are tested against.                             *)

KeepsResult == IF result = "none" THEN "pending" ELSE result
FailedUnmarked(j) == j

-----------------------------------------------------------------------------
(* Requests.                                                               *)

JobUnlocked == request = {}

\* baileys_webhook, for a message of type audio: registered, and a job of type
\* transcribe before the bytes are there and without a result.
VoiceNoteArrives ==
    /\ Register
    /\ job.status = "none" /\ JobUnlocked
    /\ job' = [job EXCEPT !.status = "pending", !.asked = @ + 1]
    /\ UNCHANGED <<result, request, runner, stream>>

Running(r) == runner[r] # Idle /\ runner[r].at # "waiting"

ResultUnlocked == \A r \in Runners : ~Running(r)

\* create_intelligence_job as far as the job's row.
AskLocksJob(o) ==
    /\ object.status = "ready" /\ job.asked < MaxRequests
    /\ JobUnlocked
    /\ request' = {o}
    /\ UNCHANGED <<objectVars, job, result, runner, stream>>

\* The result of a new request.
ResultAsked == "pending"

\* The result's row, which a run may hold, and the commit; the first request
\* inserts rows that refer to the object.
AskCommits(o) ==
    /\ o \in request /\ ResultUnlocked
    /\ result = "none" => RowUnlocked
    /\ job' = [job EXCEPT !.status = "pending", !.due = TRUE, !.dropped = FALSE,
                          !.asked = @ + 1]
    /\ result' = ResultAsked
    /\ request' = {}
    /\ UNCHANGED <<objectVars, runner, stream>>

\* An error, a crash, or PostgreSQL ends a deadlock with a run.
AskRollsBack(o) ==
    /\ o \in request
    /\ request' = {}
    /\ UNCHANGED <<objectVars, job, result, runner, stream>>

-----------------------------------------------------------------------------
(* Runs.                                                                   *)

\* claim_intelligence_jobs, which skips locked rows, and its commit.
ClaimJob(r) ==
    /\ runner[r] = Idle
    /\ job.status = "pending" /\ job.due /\ JobUnlocked
    /\ job' = [job EXCEPT !.status = "processing", !.attempts = @ + 1]
    /\ runner' = [runner EXCEPT ![r] = [claimed |-> TRUE, at |-> "waiting"]]
    /\ UNCHANGED <<objectVars, result, request, stream>>

\* The MediaError of process_intelligence_job before its try: run_worker commits,
\* and no one marks the job.
RunFindsNoResult(r) ==
    /\ runner[r] # Idle /\ result = "none"
    /\ runner' = [runner EXCEPT ![r] = Idle]
    /\ UNCHANGED <<objectVars, job, result, request, stream>>

\* run_worker looks at no status: any job can be run, claimed or not.
RunLocksResult(r) ==
    /\ ~Running(r) /\ result # "none" /\ ResultUnlocked
    /\ runner' = [runner EXCEPT ![r] = [claimed |-> runner[r] # Idle, at |-> "locked"]]
    /\ UNCHANGED <<objectVars, job, result, request, stream>>

Moves(r, from, to) ==
    /\ runner[r] # Idle /\ runner[r].at = from
    /\ runner' = [runner EXCEPT ![r].at = to]

\* _media_signed_url: the provider gets a link to what is stored now.
AsksProvider(r) ==
    /\ Moves(r, "locked", "asked")
    /\ shown' = shown \cup {object.content}
    /\ UNCHANGED <<object, stored, upload, grant, job, result, request, stream>>

\* analyze.
ProviderAnswers(r) ==
    /\ Moves(r, "asked", "answered")
    /\ UNCHANGED <<objectVars, job, result, request, stream>>

\* Every later MediaError: of the settings, the storage or the provider.
ProviderRefuses(r) ==
    /\ Moves(r, "locked", "refused") \/ Moves(r, "asked", "refused")
    /\ UNCHANGED <<objectVars, job, result, request, stream>>

Ends(r) == runner' = [runner EXCEPT ![r] = Idle]

JobCompleted(j) == [j EXCEPT !.status = "completed", !.dropped = FALSE]

JobFailed(j) ==
    [j EXCEPT !.status = IF j.attempts >= MaxAttempts THEN "failed" ELSE "pending",
              !.due = FALSE, !.dropped = FALSE]

\* The job's row may be held by a request, and the event's insert refers to the
\* object.
RunCompletes(r) ==
    /\ runner[r] # Idle /\ runner[r].at = "answered"
    /\ JobUnlocked /\ RowUnlocked
    /\ result' = "completed" /\ job' = JobCompleted(job)
    /\ Ends(r)
    /\ UNCHANGED <<objectVars, request, stream>>

\* A MediaError, which run_worker commits.
RunFails(r) ==
    /\ runner[r] # Idle /\ runner[r].at = "refused" /\ JobUnlocked
    /\ result' = "failed" /\ job' = JobFailed(job)
    /\ Ends(r)
    /\ UNCHANGED <<objectVars, request, stream>>

\* Any other error (no connection to the provider, say), a deadlock or a crash:
\* the marks are rolled back; or a claim that is never run.
RunDropped(r) ==
    /\ runner[r] # Idle
    /\ job' = [job EXCEPT !.dropped = @ \/ (job.status = "processing" /\ runner[r].claimed)]
    /\ Ends(r)
    /\ UNCHANGED <<objectVars, result, request, stream>>

BackoffEnds ==
    /\ job.status = "pending" /\ ~job.due
    /\ job' = [job EXCEPT !.due = TRUE]
    /\ UNCHANGED <<objectVars, result, request, runner, stream>>

-----------------------------------------------------------------------------
(* The stream worker.                                                      *)

\* enqueue_pending, every two seconds.
Sweep ==
    /\ job.status = "pending" /\ job.due
    /\ stream' = "queued"
    /\ UNCHANGED <<objectVars, job, result, request, runner>>

\* handle_job looks the entry's job up under "id", a field the sweep does not
\* write, and raises before it claims; consume leaves the entry unacknowledged.
Consume ==
    /\ stream = "queued"
    /\ stream' = "unacknowledged"
    /\ UNCHANGED <<objectVars, job, result, request, runner>>

Next ==
    \/ ObjectNext /\ UNCHANGED jobVars
    \/ VoiceNoteArrives
    \/ \E o \in Owners : AskLocksJob(o) \/ AskCommits(o) \/ AskRollsBack(o)
    \/ \E r \in Runners :
        \/ ClaimJob(r) \/ RunFindsNoResult(r) \/ RunLocksResult(r)
        \/ AsksProvider(r) \/ ProviderAnswers(r) \/ ProviderRefuses(r)
        \/ RunCompletes(r) \/ RunFails(r) \/ RunDropped(r)
    \/ BackoffEnds \/ Sweep \/ Consume

Spec == Init /\ [][Next]_vars

-----------------------------------------------------------------------------

TypeOK ==
    /\ ObjectTypeOK
    /\ job \in Job
    /\ result \in ResultStatus
    /\ request \in SUBSET Owners
    /\ runner \in [Runners -> Run \cup {Idle}]
    /\ stream \in {"empty", "queued", "unacknowledged"}

\* Whoever asks again, claims and runs meanwhile, the result says completed just
\* when the job does, and a job that has failed has no result
\* (create_intelligence_job, process_intelligence_job).
ResultMatchesJob ==
    /\ job.status = "completed" <=> result = "completed"
    /\ job.status = "failed" => result = "failed"

\* A job is claimed more than MaxAttempts times only when it was asked for again
\* (process_intelligence_job).
AttemptsAreBounded == job.attempts + 1 <= MaxAttempts + job.asked \/ job.attempts = 0

\* A job stays in processing only while a runner that claimed it is at it, or
\* because one ended without a mark, or because it is of a voice note nobody has
\* asked the analysis of; then until it is asked for (claim_worker, run_worker,
\* process_intelligence_job, baileys_webhook).
StuckOnlyIfDropped ==
    job.status = "processing" =>
        \/ job.dropped
        \/ \E r \in Runners : runner[r] # Idle /\ runner[r].claimed
        \/ result = "none"
=============================================================================
