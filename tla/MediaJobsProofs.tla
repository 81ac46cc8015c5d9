---------------------------- MODULE MediaJobsProofs ----------------------------
(***************************************************************************)
(* Proofs about MediaJobs and the object of MediaObjects, for any          *)
(* contents, uploads, owners, runners and limits.                          *)
(***************************************************************************)
EXTENDS MediaJobs, TLAPS

-----------------------------------------------------------------------------
(* The object. *)

\* What the settings let through to a reader.
Fit(c) == c \in Contents \ Invalid /\ (Scanner /\ FailClosed => c \notin Infected)

\* An upload has been validated before it is stored and stored before the row
\* points to it.
ObjectInv ==
    /\ ObjectTypeOK
    /\ \A u \in Uploads : At(u, "scanned") \/ At(u, "stored") => Fit(upload[u].content)
    /\ \A u \in Uploads : At(u, "stored") => upload[u].content \in stored
    /\ object.status = "ready" => Fit(object.content) /\ object.content \in stored
    /\ \A c \in shown : Fit(c) /\ c \in stored

\* A shown content is fit: the property of MediaObjects.
LEMMA ObjectInvImplies == ObjectInv => OnlyValidIsShown
BY DEF ObjectInv, OnlyValidIsShown, Fit

\* The admitted verdict says clean, if there is a scanner and it fails closed.
LEMMA AdmittedIsFit ==
    ASSUME NEW c \in Contents, Validated(c), \E verdict \in Verdicts(c) : Admitted(verdict)
    PROVE  Fit(c)
BY DEF Validated, Verdicts, Admitted, Fit

\* Every step of the object keeps its invariant, and a ready object ready.
LEMMA ObjectStep ==
    ASSUME ObjectInv, ObjectNext
    PROVE  ObjectInv' /\ (object.status = "ready" => object'.status = "ready")
<1> USE DEF ObjectInv, ObjectTypeOK, ObjectStatus, At
<1>1. CASE Register
  BY <1>1 DEF Register, Fit
<1>2. ASSUME NEW u \in Uploads, NEW c \in Contents, UploadLocks(u, c)
      PROVE  ObjectInv' /\ object' = object
  <2>1. [content |-> c, at |-> "locked"] \in UploadStep
    BY DEF UploadStep
  <2> QED
    BY <1>2, <2>1 DEF UploadLocks, Fit
<1>3. ASSUME NEW u \in Uploads, UploadScanned(u)
      PROVE  ObjectInv' /\ object' = object
  <2>1. upload[u] \in UploadStep
    BY <1>3 DEF UploadScanned
  <2>2. Fit(upload[u].content)
    BY <1>3, <2>1, AdmittedIsFit DEF UploadScanned, UploadStep
  <2>3. /\ upload' = [upload EXCEPT ![u] = [upload[u] EXCEPT !.at = "scanned"]]
        /\ object' = object /\ stored' = stored /\ grant' = grant /\ shown' = shown
    BY <1>3, Zenon DEF UploadScanned
  <2>4. [upload[u] EXCEPT !.at = "scanned"] \in UploadStep
    BY <2>1 DEF UploadStep
  <2>5. upload' \in [Uploads -> UploadStep \cup {Idle}]
    BY <2>3, <2>4
  <2>6. upload'[u].content = upload[u].content /\ upload'[u].at = "scanned"
    BY <2>1, <2>3 DEF UploadStep
  <2>7. \A v \in Uploads \ {u} : upload'[v] = upload[v]
    BY <2>3
  <2> QED
    BY <2>2, <2>3, <2>5, <2>6, <2>7 DEF Fit
<1>4. ASSUME NEW u \in Uploads, UploadStores(u)
      PROVE  ObjectInv' /\ object' = object
  <2>1. upload[u] \in UploadStep /\ Fit(upload[u].content)
    BY <1>4 DEF UploadStores
  <2>2. /\ upload' = [upload EXCEPT ![u] = [upload[u] EXCEPT !.at = "stored"]]
        /\ stored' = stored \cup {upload[u].content}
        /\ object' = object /\ grant' = grant /\ shown' = shown
    BY <1>4, Zenon DEF UploadStores
  <2>3. [upload[u] EXCEPT !.at = "stored"] \in UploadStep
    BY <2>1 DEF UploadStep
  <2>4. upload' \in [Uploads -> UploadStep \cup {Idle}] /\ stored' \in SUBSET Contents
    BY <2>1, <2>2, <2>3 DEF UploadStep
  <2>5. upload'[u].content = upload[u].content /\ upload'[u].at = "stored"
    BY <2>1, <2>2 DEF UploadStep
  <2>6. \A v \in Uploads \ {u} : upload'[v] = upload[v]
    BY <2>2
  <2> QED
    BY <2>1, <2>2, <2>4, <2>5, <2>6 DEF Fit
<1>5. ASSUME NEW u \in Uploads, UploadCommits(u)
      PROVE  ObjectInv' /\ object'.status = "ready"
  <2>1. upload[u] \in UploadStep /\ Fit(upload[u].content) /\ upload[u].content \in stored
    BY <1>5 DEF UploadCommits
  <2> QED
    BY <1>5, <2>1 DEF UploadCommits, Fit, UploadStep
<1>6. ASSUME NEW u \in Uploads, UploadFails(u)
      PROVE  ObjectInv' /\ object' = object
  BY <1>6 DEF UploadFails, Fit
<1>7. CASE GrantAccess \/ GrantExpires
  BY <1>7 DEF GrantAccess, GrantExpires, Fit
<1>8. CASE Serve
  BY <1>8 DEF Serve, Authorised, Fit
<1> QED
  BY <1>1, <1>2, <1>3, <1>4, <1>5, <1>6, <1>7, <1>8
     DEF ObjectNext, GrantAccess, GrantExpires, Serve, Register

-----------------------------------------------------------------------------
(* The job and its result. *)

\* A claim needs a request, a voice note or a failure that left an attempt; job and
\* result are marked together; a run has a result, and a request a ready object.
JobInv ==
    /\ job.status # "none" => job.asked >= 1
    /\ job.status = "pending" => job.attempts + 2 <= MaxAttempts + job.asked
    /\ AttemptsAreBounded
    /\ job.status = "none" => job.asked = 0 /\ job.attempts = 0 /\ result = "none"
    /\ result = "none" => job.status \in {"none", "pending", "processing"}
    /\ ResultMatchesJob
    /\ request # {} => job.asked < MaxRequests
    /\ request # {} \/ result # "none" => object.status = "ready"
    /\ \A r \in Runners : Running(r) => result # "none"

IInv == ObjectInv /\ TypeOK /\ JobInv /\ StuckOnlyIfDropped

\* The marks of a run keep the job well typed and counted.
LEMMA JobMarks ==
    ASSUME job \in Job, JobInv, job.status # "none"
    PROVE  /\ JobCompleted(job) \in Job
           /\ JobFailed(job) \in Job
           /\ JobFailed(job).attempts = job.attempts
           /\ JobFailed(job).asked = job.asked
           /\ JobFailed(job).status \in {"pending", "failed"}
           /\ JobFailed(job).status = "pending" => job.attempts + 2 <= MaxAttempts + job.asked
<1>1. /\ job.attempts \in Nat /\ job.asked \in Nat
      /\ [job EXCEPT !.status = "completed", !.dropped = FALSE] \in Job
      /\ \A new \in {"pending", "failed"} :
            [job EXCEPT !.status = new, !.due = FALSE, !.dropped = FALSE] \in Job
  <2>1. job.attempts \in Nat /\ job.asked \in Nat
    BY LimitsAreNatural DEF LimitsAreNatural, Job
  <2>2. [job EXCEPT !.status = "completed", !.dropped = FALSE] \in Job
    BY DEF Job, JobStatus
  <2>3. ASSUME NEW new \in {"pending", "failed"}
        PROVE  [job EXCEPT !.status = new, !.due = FALSE, !.dropped = FALSE] \in Job
    BY DEF Job, JobStatus
  <2> QED
    BY <2>1, <2>2, <2>3
<1>2. CASE job.attempts >= MaxAttempts
  <2>1. JobFailed(job) = [job EXCEPT !.status = "failed", !.due = FALSE, !.dropped = FALSE]
    BY <1>2 DEF JobFailed
  <2> QED
    BY <1>1, <2>1 DEF JobCompleted, Job
<1>3. CASE ~(job.attempts >= MaxAttempts)
  <2>1. JobFailed(job) = [job EXCEPT !.status = "pending", !.due = FALSE, !.dropped = FALSE]
    BY <1>3 DEF JobFailed
  <2>2. job.attempts + 2 <= MaxAttempts + job.asked
    BY <1>1, <1>3, LimitsAreNatural DEF LimitsAreNatural, JobInv
  <2> QED
    BY <1>1, <2>1, <2>2 DEF JobCompleted, Job
<1> QED
  BY <1>2, <1>3

\* A step that leaves the job and the result alone, keeps claims claimed and lets
\* nothing run or be asked for that has no result or no ready object.
LEMMA JobUntouched ==
    ASSUME IInv, job' = job, result' = result, request' = request,
           object.status = "ready" => object'.status = "ready",
           \A r \in Runners :
              /\ Running(r)' => result # "none"
              /\ runner[r] # Idle /\ runner[r].claimed => runner'[r] # Idle /\ runner'[r].claimed
    PROVE  JobInv' /\ StuckOnlyIfDropped'
BY DEF IInv, JobInv, AttemptsAreBounded, ResultMatchesJob, StuckOnlyIfDropped

\* Every step of a request keeps the invariant.
LEMMA AskStep ==
    ASSUME IInv, NEW o \in Owners, AskLocksJob(o) \/ AskCommits(o) \/ AskRollsBack(o)
    PROVE  IInv'
<1> USE LimitsAreNatural DEF LimitsAreNatural, IInv, TypeOK
<1>1. ObjectInv'
  BY DEF AskLocksJob, AskCommits, AskRollsBack, objectVars, ObjectInv, ObjectTypeOK, At, Fit
<1>2. CASE AskLocksJob(o)
  BY <1>1, <1>2 DEF AskLocksJob, JobInv, objectVars, AttemptsAreBounded, ResultMatchesJob,
                    StuckOnlyIfDropped, ObjectInv, Running
<1>3. CASE AskCommits(o)
  <2>1. /\ job' = [job EXCEPT !.status = "pending", !.due = TRUE, !.dropped = FALSE,
                              !.asked = job.asked + 1]
        /\ result' = "pending" /\ request' = {} /\ runner' = runner /\ stream' = stream
        /\ object' = object
    BY <1>3 DEF AskCommits, ResultAsked, objectVars
  <2>2. job \in Job /\ job.asked < MaxRequests
    BY <1>3 DEF AskCommits, JobInv
  <2>3. /\ job'.status = "pending" /\ job'.attempts = job.attempts
        /\ job'.asked = job.asked + 1 /\ job' \in Job
    <3>1. job.asked + 1 \in 0..(MaxRequests + 1)
      BY <2>2 DEF Job
    <3>2. \A n \in 0..(MaxRequests + 1) :
              [job EXCEPT !.status = "pending", !.due = TRUE, !.dropped = FALSE, !.asked = n] \in Job
      BY <2>2 DEF Job, JobStatus
    <3> QED
      BY <2>1, <2>2, <3>1, <3>2 DEF Job
  <2>4. JobInv'
    <3>1. job.attempts \in Nat /\ job.asked \in Nat
      BY <2>2 DEF Job
    <3>2. object.status = "ready"
      BY <1>3 DEF AskCommits, JobInv
    <3> QED
      BY <2>1, <2>3, <3>1, <3>2 DEF JobInv, AttemptsAreBounded, ResultMatchesJob, Running
  <2> QED
    BY <1>1, <2>1, <2>3, <2>4 DEF StuckOnlyIfDropped, ResultStatus, ObjectInv
<1>4. CASE AskRollsBack(o)
  BY <1>1, <1>4 DEF AskRollsBack, JobInv, objectVars, AttemptsAreBounded, ResultMatchesJob,
                    StuckOnlyIfDropped, ObjectInv, Running
<1> QED
  BY <1>2, <1>3, <1>4

\* Every step of a runner keeps the invariant.
LEMMA RunStep ==
    ASSUME IInv, NEW r \in Runners,
           \/ ClaimJob(r) \/ RunFindsNoResult(r) \/ RunLocksResult(r)
           \/ AsksProvider(r) \/ ProviderAnswers(r) \/ ProviderRefuses(r)
           \/ RunCompletes(r) \/ RunFails(r) \/ RunDropped(r)
    PROVE  IInv'
<1> USE LimitsAreNatural, IdleIsNoRun DEF LimitsAreNatural, IInv, TypeOK
<1>1. ASSUME UNCHANGED objectVars
      PROVE  ObjectInv' /\ object' = object
  BY <1>1 DEF objectVars, ObjectInv, ObjectTypeOK, At, Fit
<1>2. CASE ClaimJob(r)
  <2>1. /\ job' = [job EXCEPT !.status = "processing", !.attempts = job.attempts + 1]
        /\ runner' = [runner EXCEPT ![r] = [claimed |-> TRUE, at |-> "waiting"]]
        /\ result' = result /\ request' = request /\ stream' = stream
        /\ job.status = "pending" /\ runner[r] = Idle
    BY <1>2 DEF ClaimJob
  <2>2. ObjectInv' /\ object' = object
    BY <1>1, <1>2 DEF ClaimJob
  <2>3. job.attempts \in Nat /\ job.asked \in Nat /\ job.asked <= MaxRequests + 1 /\ job \in Job
    BY DEF Job
  <2>4. /\ job'.status = "processing" /\ job'.attempts = job.attempts + 1
        /\ job'.asked = job.asked /\ job' \in Job
    <3>1. job.attempts + 1 \in 0..(MaxAttempts + MaxRequests)
      BY <2>1, <2>3 DEF JobInv
    <3>2. \A n \in 0..(MaxAttempts + MaxRequests) :
              [job EXCEPT !.status = "processing", !.attempts = n] \in Job
      BY <2>3 DEF Job, JobStatus
    <3> QED
      BY <2>1, <2>3, <3>1, <3>2 DEF Job
  <2>5. [claimed |-> TRUE, at |-> "waiting"] \in Run
    BY DEF Run
  <2>6. runner' \in [Runners -> Run \cup {Idle}]
    BY <2>1, <2>5
  <2>7. \A q \in Runners : Running(q)' => Running(q)
    BY <2>1 DEF Running
  <2>8. JobInv'
    BY <2>1, <2>2, <2>3, <2>4, <2>7 DEF JobInv, AttemptsAreBounded, ResultMatchesJob
  <2>9. runner'[r] # Idle /\ runner'[r].claimed
    BY <2>1, <2>5
  <2> QED
    BY <2>1, <2>2, <2>4, <2>6, <2>8, <2>9 DEF StuckOnlyIfDropped, ObjectInv
<1>3. CASE RunLocksResult(r)
  <2> DEFINE now == [claimed |-> runner[r] # Idle, at |-> "locked"]
  <2>1. /\ runner' = [runner EXCEPT ![r] = now]
        /\ job' = job /\ result' = result /\ request' = request /\ stream' = stream
        /\ result # "none"
    BY <1>3 DEF RunLocksResult
  <2>2. ObjectInv' /\ object' = object
    BY <1>1, <1>3 DEF RunLocksResult
  <2>3. now \in Run
    BY DEF Run
  <2>4. JobInv' /\ StuckOnlyIfDropped'
    BY <2>1, <2>2, <2>3, JobUntouched
  <2> QED
    BY <2>1, <2>2, <2>3, <2>4 DEF ObjectInv
<1>4. ASSUME NEW from \in {"locked", "asked"}, NEW to \in {"asked", "answered", "refused"},
             Moves(r, from, to), job' = job, result' = result, request' = request,
             stream' = stream, ObjectInv', object' = object
      PROVE  IInv'
  <2>1. runner[r] \in Run /\ runner[r].at = from /\ Running(r)
    BY <1>4 DEF Moves, Running
  <2>2. runner' = [runner EXCEPT ![r] = [runner[r] EXCEPT !.at = to]]
    BY <1>4, Zenon DEF Moves
  <2>3. [runner[r] EXCEPT !.at = to] \in Run /\ runner'[r].claimed = runner[r].claimed
    BY <2>1, <2>2 DEF Run
  <2>4. \A q \in Runners : Running(q)' => Running(q)
    BY <2>1, <2>2 DEF Running
  <2>5. JobInv' /\ StuckOnlyIfDropped'
    <3>1. \A q \in Runners :
              runner[q] # Idle /\ runner[q].claimed => runner'[q] # Idle /\ runner'[q].claimed
      BY <2>1, <2>2, <2>3
    <3> QED
      BY <1>4, <2>4, <3>1, JobUntouched DEF JobInv
  <2> QED
    BY <1>4, <2>2, <2>3, <2>5 DEF ObjectInv
<1>5. CASE AsksProvider(r)
  <2>1. /\ Moves(r, "locked", "asked") /\ shown' = shown \cup {object.content}
        /\ UNCHANGED <<object, stored, upload, grant, job, result, request, stream>>
    BY <1>5 DEF AsksProvider
  <2>2. object.status = "ready"
    BY <2>1 DEF Moves, JobInv, Running
  <2>3. ObjectInv'
    BY <2>1, <2>2 DEF ObjectInv, ObjectTypeOK, At, Fit
  <2> QED
    BY <1>4, <2>1, <2>3
<1>6. CASE ProviderAnswers(r) \/ ProviderRefuses(r)
  <2>1. ObjectInv' /\ object' = object
    BY <1>1, <1>6 DEF ProviderAnswers, ProviderRefuses
  <2> QED
    BY <1>4, <1>6, <2>1 DEF ProviderAnswers, ProviderRefuses
<1>7. CASE RunCompletes(r) \/ RunFails(r)
  <2>1. ObjectInv' /\ object' = object
    BY <1>1, <1>7 DEF RunCompletes, RunFails
  <2>2. Running(r)
    BY <1>7 DEF RunCompletes, RunFails, Running
  <2>3. job \in Job /\ job.status # "none" /\ result # "none"
    BY <2>2 DEF JobInv
  <2>4. runner' = [runner EXCEPT ![r] = Idle] /\ request' = request /\ stream' = stream
    BY <1>7 DEF RunCompletes, RunFails, Ends
  <2>5. \A q \in Runners : Running(q)' => Running(q)
    BY <2>4 DEF Running
  <2>6. job.attempts \in Nat /\ job.asked \in Nat
    BY <2>3 DEF Job
  <2>7. CASE RunCompletes(r)
    <3>1. job' = JobCompleted(job) /\ result' = "completed" /\ job' \in Job
      BY <2>3, <2>7, JobMarks DEF RunCompletes
    <3>2. job'.status = "completed" /\ job'.attempts = job.attempts /\ job'.asked = job.asked
      BY <2>3, <3>1 DEF JobCompleted, Job
    <3> QED
      BY <2>1, <2>3, <2>4, <2>5, <2>6, <3>1, <3>2
         DEF JobInv, AttemptsAreBounded, ResultMatchesJob, StuckOnlyIfDropped, ObjectInv, ResultStatus
  <2>8. CASE RunFails(r)
    <3>1. job' = JobFailed(job) /\ result' = "failed" /\ job' \in Job
      BY <2>3, <2>8, JobMarks DEF RunFails
    <3>2. /\ job'.status \in {"pending", "failed"} /\ job'.attempts = job.attempts
          /\ job'.asked = job.asked
          /\ job'.status = "pending" => job.attempts + 2 <= MaxAttempts + job.asked
      BY <2>3, <3>1, JobMarks
    <3> QED
      BY <2>1, <2>3, <2>4, <2>5, <2>6, <3>1, <3>2
         DEF JobInv, AttemptsAreBounded, ResultMatchesJob, StuckOnlyIfDropped, ObjectInv, ResultStatus
  <2> QED
    BY <1>7, <2>7, <2>8
<1>8. CASE RunDropped(r)
  <2> DEFINE dropped == job.dropped \/ (job.status = "processing" /\ runner[r].claimed)
  <2>1. /\ job' = [job EXCEPT !.dropped = dropped]
        /\ runner' = [runner EXCEPT ![r] = Idle]
        /\ result' = result /\ request' = request /\ stream' = stream /\ runner[r] # Idle
    BY <1>8 DEF RunDropped, Ends
  <2>2. ObjectInv' /\ object' = object
    BY <1>1, <1>8 DEF RunDropped
  <2>3. job \in Job /\ runner[r] \in Run /\ dropped \in BOOLEAN
    BY <2>1 DEF Run, Job
  <2>4. /\ job' \in Job /\ job'.dropped = dropped /\ job'.status = job.status
        /\ job'.attempts = job.attempts /\ job'.asked = job.asked
    BY <2>1, <2>3 DEF Job
  <2>5. \A q \in Runners : Running(q)' => Running(q)
    BY <2>1 DEF Running
  <2>6. JobInv'
    BY <2>1, <2>2, <2>4, <2>5 DEF JobInv, AttemptsAreBounded, ResultMatchesJob
  <2>7. StuckOnlyIfDropped'
    BY <2>1, <2>3, <2>4 DEF StuckOnlyIfDropped
  <2> QED
    BY <2>1, <2>2, <2>4, <2>6, <2>7 DEF ObjectInv
<1>9. CASE RunFindsNoResult(r)
  <2>1. /\ runner' = [runner EXCEPT ![r] = Idle] /\ result = "none"
        /\ job' = job /\ result' = result /\ request' = request /\ stream' = stream
    BY <1>9 DEF RunFindsNoResult
  <2>2. ObjectInv' /\ object' = object
    BY <1>1, <1>9 DEF RunFindsNoResult
  <2>3. \A q \in Runners : Running(q)' => Running(q)
    BY <2>1 DEF Running
  <2> QED
    BY <2>1, <2>2, <2>3 DEF JobInv, AttemptsAreBounded, ResultMatchesJob, StuckOnlyIfDropped,
                            ObjectInv
<1> QED
  BY <1>2, <1>3, <1>5, <1>6, <1>7, <1>8, <1>9

\* The arrival of a voice note keeps the invariant.
LEMMA VoiceNoteStep ==
    ASSUME IInv, VoiceNoteArrives
    PROVE  IInv'
<1> USE LimitsAreNatural DEF LimitsAreNatural, IInv, TypeOK
<1>1. ObjectInv' /\ (object.status = "ready" => object'.status = "ready")
  BY ObjectStep DEF VoiceNoteArrives, ObjectNext
<1>2. /\ job' = [job EXCEPT !.status = "pending", !.asked = job.asked + 1]
      /\ job.status = "none" /\ request = {}
      /\ result' = result /\ request' = request /\ runner' = runner /\ stream' = stream
  BY DEF VoiceNoteArrives, JobUnlocked
<1>3. job.asked = 0 /\ job.attempts = 0 /\ result = "none" /\ job \in Job
  BY <1>2 DEF JobInv
<1>4. /\ job'.status = "pending" /\ job'.asked = 1 /\ job'.attempts = 0
      /\ job' \in Job
  <2>1. \A n \in 0..(MaxRequests + 1) : [job EXCEPT !.status = "pending", !.asked = n] \in Job
    BY <1>3 DEF Job, JobStatus
  <2>2. job.asked + 1 = 1 /\ 1 \in 0..(MaxRequests + 1)
    BY <1>3
  <2> QED
    BY <1>2, <1>3, <2>1, <2>2 DEF Job
<1>5. JobInv'
  BY <1>2, <1>3, <1>4 DEF JobInv, AttemptsAreBounded, ResultMatchesJob, Running
<1> QED
  BY <1>1, <1>2, <1>4, <1>5 DEF StuckOnlyIfDropped, ObjectInv

\* Every step keeps the invariant.
LEMMA Step ==
    ASSUME IInv, [Next]_vars
    PROVE  IInv'
<1>1. CASE ObjectNext /\ UNCHANGED jobVars
  <2>1. ObjectInv' /\ (object.status = "ready" => object'.status = "ready")
    BY <1>1, ObjectStep DEF IInv
  <2>2. UNCHANGED <<job, result, request, runner, stream>>
    BY <1>1 DEF jobVars
  <2>3. JobInv' /\ StuckOnlyIfDropped'
    BY <2>1, <2>2, JobUntouched DEF Running, IInv, JobInv
  <2> QED
    BY <2>1, <2>2, <2>3 DEF IInv, TypeOK, ObjectInv
<1>2. ASSUME UNCHANGED objectVars
      PROVE  ObjectInv' /\ object' = object
  BY <1>2 DEF IInv, objectVars, ObjectInv, ObjectTypeOK, At, Fit
<1>3. CASE BackoffEnds
  <2>1. /\ job' = [job EXCEPT !.due = TRUE]
        /\ UNCHANGED <<result, request, runner, stream>>
    BY <1>3 DEF BackoffEnds
  <2>2. ObjectInv' /\ object' = object
    BY <1>2, <1>3 DEF BackoffEnds
  <2>3. /\ job' \in Job /\ job'.status = job.status /\ job'.attempts = job.attempts
        /\ job'.asked = job.asked /\ job'.dropped = job.dropped
    BY <2>1 DEF IInv, TypeOK, Job
  <2> QED
    BY <2>1, <2>2, <2>3 DEF IInv, TypeOK, JobInv, AttemptsAreBounded, ResultMatchesJob,
                            StuckOnlyIfDropped, Running, ObjectInv
<1>4. CASE Sweep \/ Consume \/ UNCHANGED vars
  <2>1. UNCHANGED <<job, result, request, runner>> /\ UNCHANGED objectVars
        /\ stream' \in {stream, "queued", "unacknowledged"}
    BY <1>4 DEF Sweep, Consume, vars, jobVars
  <2>2. ObjectInv' /\ object' = object
    BY <1>2, <2>1
  <2> QED
    BY <2>1, <2>2 DEF IInv, TypeOK, JobInv, AttemptsAreBounded, ResultMatchesJob,
                      StuckOnlyIfDropped, Running, ObjectInv
<1> QED
  BY <1>1, <1>3, <1>4, AskStep, RunStep, VoiceNoteStep DEF Next

\* The invariant holds in every reachable state.
LEMMA Invariance == Spec => []IInv
<1>1. Init => IInv
  BY LimitsAreNatural
     DEF LimitsAreNatural, Init, IInv, ObjectInit, ObjectInv, ObjectTypeOK, ObjectStatus, At,
         TypeOK, Job, JobStatus, ResultStatus, JobInv, AttemptsAreBounded, ResultMatchesJob,
         StuckOnlyIfDropped, Running
<1> QED
  BY <1>1, Step, PTL DEF Spec

\* The type invariant holds in every reachable state.
THEOREM TypeCorrect == Spec => []TypeOK
BY Invariance, PTL DEF IInv

\* Whatever is uploaded, only validated and stored contents are shown, and no
\* infected one while a scanner fails closed.
THEOREM ShownIsValid == Spec => []OnlyValidIsShown
BY Invariance, ObjectInvImplies, PTL DEF IInv

\* The result says completed just when its job does.
THEOREM ResultsMatch == Spec => []ResultMatchesJob
BY Invariance, PTL DEF IInv, JobInv

\* A job is claimed more than MaxAttempts times only when asked for again.
THEOREM AttemptsBounded == Spec => []AttemptsAreBounded
BY Invariance, PTL DEF IInv, JobInv

\* A job in processing has a runner that claimed it, or lost one, or is of a voice
\* note nobody has asked the analysis of.
THEOREM StuckMeansDropped == Spec => []StuckOnlyIfDropped
BY Invariance, PTL DEF IInv
=============================================================================
