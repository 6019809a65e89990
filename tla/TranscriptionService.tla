---- MODULE TranscriptionService ----
(***************************************************************************)
(* The job service: uploads (routes.py), the in-memory queue (queue.py),   *)
(* the workers (worker.py), the job table (database.py) and the process    *)
(* that starts, stops and crashes around them (main.py).                   *)
(*                                                                         *)
(* Disk (table, audio files, dead-letter files) survives a crash, memory   *)
(* does not.  Every durable write is a step of its own, so a crash falls   *)
(* between any two.  The handlers run on one event loop: a coroutine that  *)
(* has made one durable write and goes on to the next without an await     *)
(* keeps the loop (LoopFree), and only a crash comes in between.           *)
(***************************************************************************)
EXTENDS Integers, Sequences, FiniteSets

CONSTANTS Jobs,        \* ids that uploads may draw
          Workers,     \* the worker tasks of one process
          NoJob,       \* what an idle worker holds
          MaxRetries,  \* Settings.max_retries
          RetryDelay,  \* retry_backoff_base_seconds: 0 requeues at once
          Redelivery,  \* may the queue hand out a job more often than it was enqueued?
          Faults,      \* may SQLite or the disk refuse a write?
          Crashes      \* may the process die at any moment?

ASSUME ConstantsAssumption ==
  /\ IsFiniteSet(Jobs)
  /\ MaxRetries \in Nat
  /\ RetryDelay \in Nat
  /\ NoJob \notin Jobs
  /\ Redelivery \in BOOLEAN
  /\ Faults \in BOOLEAN
  /\ Crashes \in BOOLEAN

VARIABLES
  \* on disk
  status,        \* jobs.status, "none" where there is no row
  retryCount,    \* jobs.retry_count
  transVersion,  \* jobs.trans_version: transcripts saved so far
  createdAt,     \* position of the row in (created_at, rowid) order, 0 without a row
  audio,         \* keys whose upload is in object storage
  deadLetter,    \* "attempts" of the job's dead-letter file, 0 without a file
  \* in memory
  phase,         \* of the process: down, booting, up, stopping, aborted
  boot,          \* jobs that recover_unfinished_jobs still has to visit
  queue,         \* InMemoryQueue._queue
  timers,        \* timers[j]: deliver_later tasks pending for j
  req,           \* where the upload that drew id j stands
  wpc, wjob, wretry, \* a worker: its place, its job, retry_count in its Job snapshot
  \* history
  attempts,      \* successful mark_processing calls per job
  acked,         \* jobs answered with 202
  stranded       \* jobs whose in-memory delivery an error path has dropped

disk == <<status, retryCount, transVersion, createdAt, audio, deadLetter>>
row == <<status, retryCount, transVersion, createdAt>>
worker == <<wpc, wjob, wretry>>
delivery == <<queue, timers>>
history == <<attempts, acked, stranded>>
vars == <<disk, phase, boot, delivery, req, worker, history>>

----------------------------------------------------------------------------
(* The operators in this section and the next whose comment begins with    *)
(* "Mutant" are plausible defects of the definition below them; nothing    *)
(* uses them but the checks that a property notices the defect.            *)

(* The job table *)

Terminal == {"completed", "failed"}
Unfinished == {"queued", "processing", "retrying"}
Started == {"processing", "completed", "failed"}   \* its last start is not yet a retry

AllowedFrom == [processing |-> {"queued", "retrying"},
                retrying   |-> {"processing"},
                completed  |-> {"processing"},
                failed     |-> {"queued", "processing", "retrying"}]

\* Mutant: the UPDATE names the job and forgets its status.
AnyStatus(j, target) == status[j] # "none"
\* UPDATE ... WHERE status IN allowed: InvalidTransitionError when it is FALSE.
CanMove(j, target) == status[j] \in AllowedFrom[target]
_transition(j, target) == status' = [status EXCEPT ![j] = target]

mark_processing(j) == _transition(j, "processing") /\ UNCHANGED retryCount
\* Mutant: the UPDATE leaves retry_count as it was.
UncountedRetry(j) == _transition(j, "retrying") /\ UNCHANGED retryCount
mark_retrying(j) == /\ _transition(j, "retrying")
                    /\ retryCount' = [retryCount EXCEPT ![j] = @ + 1]
mark_completed(j) == _transition(j, "completed") /\ UNCHANGED retryCount
mark_failed(j) == _transition(j, "failed") /\ UNCHANGED retryCount

create_job(j) == /\ status' = [status EXCEPT ![j] = "queued"]
                 /\ createdAt' = [createdAt EXCEPT ![j] =
                      1 + Cardinality({k \in Jobs : status[k] # "none"})]

\* Mutant: the version is not written back to the row.
UnversionedSave(j) == UNCHANGED transVersion
save_transcript(j) == transVersion' = [transVersion EXCEPT ![j] = @ + 1]

\* Mutant: a job that waits for its retry is forgotten.
WithoutRetrying == {j \in Jobs : status[j] \in {"queued", "processing"}}
list_unfinished_jobs == {j \in Jobs : status[j] \in Unfinished}

\* Mutant: <= for <.
OneRetryMore(n) == n <= MaxRetries
RetriesLeft(n) == n < MaxRetries

(* Files *)

\* Mutant: the request goes on before the upload is on disk.
UnawaitedSave(j) == UNCHANGED audio
save(j) == audio' = audio \cup {j}

\* Mutant: the record counts the retries, not the attempts.
CountRetries(j, n) == deadLetter' = [deadLetter EXCEPT ![j] = n - 1]
\* Mutant: the temporary file is never renamed.
NeverRenamed(j, n) == UNCHANGED deadLetter
write_dead_letter(j, n) == deadLetter' = [deadLetter EXCEPT ![j] = n]

(* The queue *)

enqueue(j) == queue' = Append(queue, j) /\ UNCHANGED timers
\* Mutant: the early return after the immediate enqueue is missing.
BothWays(j) == queue' = Append(queue, j) /\ timers' = [timers EXCEPT ![j] = @ + 1]
\* Mutant: a delay of zero returns without an enqueue.
NoDelayNoEnqueue(j) == IF RetryDelay = 0
                       THEN UNCHANGED <<queue, timers>>
                       ELSE timers' = [timers EXCEPT ![j] = @ + 1] /\ UNCHANGED queue
enqueue_after(j) == IF RetryDelay = 0
                    THEN enqueue(j)
                    ELSE timers' = [timers EXCEPT ![j] = @ + 1] /\ UNCHANGED queue

(* The event loop *)

Held(w) == wpc[w] \in {"saved", "deadletter"}   \* w is between two durable writes
LoopFree == /\ \A w \in Workers : ~Held(w)
            /\ \A j \in Jobs : req[j] # "created"
WorkersRun == phase \in {"up", "stopping", "aborted"}

----------------------------------------------------------------------------
Init == /\ status = [j \in Jobs |-> "none"]
        /\ retryCount = [j \in Jobs |-> 0]
        /\ transVersion = [j \in Jobs |-> 0]
        /\ createdAt = [j \in Jobs |-> 0]
        /\ audio = {}
        /\ deadLetter = [j \in Jobs |-> 0]
        /\ phase = "down"
        /\ boot = {}
        /\ queue = <<>>
        /\ timers = [j \in Jobs |-> 0]
        /\ req = [j \in Jobs |-> "none"]
        /\ wpc = [w \in Workers |-> "idle"]
        /\ wjob = [w \in Workers |-> NoJob]
        /\ wretry = [w \in Workers |-> 0]
        /\ attempts = [j \in Jobs |-> 0]
        /\ acked = {}
        /\ stranded = {}

----------------------------------------------------------------------------
(* Uploads *)

\* storage.save has put the file under its key; a file that is too large or
\* cannot be written leaves nothing behind, and no step of this model.
SaveAudio(j) == /\ phase = "up" /\ req[j] = "none"
                /\ save(j)
                /\ req' = [req EXCEPT ![j] = "saved"]
                /\ UNCHANGED <<row, deadLetter, phase, boot, delivery, worker, history>>

\* ffprobe says it is not audio: the object is deleted, the answer is 422.
RejectAudio(j) == /\ req[j] = "saved" /\ LoopFree
                  /\ audio' = audio \ {j}
                  /\ req' = [req EXCEPT ![j] = "done"]
                  /\ UNCHANGED <<row, deadLetter, phase, boot, delivery, worker, history>>

CreateJob(j) == /\ req[j] = "saved" /\ LoopFree
                /\ create_job(j)
                /\ req' = [req EXCEPT ![j] = "created"]
                /\ UNCHANGED <<retryCount, transVersion, audio, deadLetter,
                               phase, boot, delivery, worker, history>>

EnqueueJob(j) == /\ req[j] = "created"
                 /\ enqueue(j)
                 /\ acked' = acked \cup {j}
                 /\ req' = [req EXCEPT ![j] = "done"]
                 /\ UNCHANGED <<disk, phase, boot, worker, attempts, stranded>>

\* Deleting a rejected object or inserting the row fails: a 500, the audio stays.
UploadFails(j) == /\ Faults /\ req[j] = "saved" /\ LoopFree
                  /\ req' = [req EXCEPT ![j] = "done"]
                  /\ UNCHANGED <<disk, phase, boot, delivery, worker, history>>

\* create_job has committed its INSERT, and its get_job fails: a 500 for a row
\* that exists and is in no queue.
ReadBackFails(j) == /\ Faults /\ req[j] = "saved" /\ LoopFree
                    /\ create_job(j)
                    /\ req' = [req EXCEPT ![j] = "done"]
                    /\ stranded' = stranded \cup {j}
                    /\ UNCHANGED <<retryCount, transVersion, audio, deadLetter,
                                   phase, boot, delivery, worker, attempts, acked>>

----------------------------------------------------------------------------
(* The queue's own steps *)

TimerFires(j) == /\ WorkersRun /\ LoopFree /\ timers[j] > 0
                 /\ timers' = [timers EXCEPT ![j] = @ - 1]
                 /\ queue' = Append(queue, j)
                 /\ UNCHANGED <<disk, phase, boot, req, worker, history>>

\* A queue that delivers at least once repeats a job; one repeat waits at a time.
Redeliver(j) == /\ Redelivery /\ phase = "up" /\ LoopFree
                /\ status[j] # "none"
                /\ \A i \in DOMAIN queue : queue[i] # j
                /\ queue' = Append(queue, j)
                /\ UNCHANGED <<disk, phase, boot, timers, req, worker, history>>

----------------------------------------------------------------------------
(* A worker: run_forever *)

Finish(w) == /\ wpc' = [wpc EXCEPT ![w] = IF phase = "stopping" THEN "stopped" ELSE "idle"]
             /\ wjob' = [wjob EXCEPT ![w] = NoJob]
             /\ wretry' = [wretry EXCEPT ![w] = 0]

\* The dequeue task has taken a job; the worker task has not resumed yet.
Dequeue(w) == /\ WorkersRun /\ LoopFree /\ wpc[w] = "idle" /\ queue # <<>>
              /\ queue' = Tail(queue)
              /\ wpc' = [wpc EXCEPT ![w] = "dequeued"]
              /\ wjob' = [wjob EXCEPT ![w] = Head(queue)]
              /\ UNCHANGED <<disk, phase, boot, timers, req, wretry, history>>

\* mark_processing: one that cannot claim its job skips it.
Claim(w) ==
  LET j == wjob[w] IN
  /\ wpc[w] = "dequeued" /\ LoopFree
  /\ IF CanMove(j, "processing")
     THEN /\ mark_processing(j)
          /\ wpc' = [wpc EXCEPT ![w] = "running"]
          /\ wretry' = [wretry EXCEPT ![w] = retryCount[j]]
          /\ attempts' = [attempts EXCEPT ![j] = @ + 1]
          /\ UNCHANGED wjob
     ELSE Finish(w) /\ UNCHANGED <<status, retryCount, attempts>>
  /\ UNCHANGED <<transVersion, createdAt, audio, deadLetter, phase, boot, delivery,
                 req, acked, stranded>>

\* The pipeline returns; save_transcript commits the next version.
SaveTranscript(w) ==
  /\ wpc[w] = "running" /\ LoopFree
  /\ save_transcript(wjob[w])
  /\ wpc' = [wpc EXCEPT ![w] = "saved"]
  /\ UNCHANGED <<status, retryCount, createdAt, audio, deadLetter, phase, boot,
                 delivery, req, wjob, wretry, history>>

\* The decision uses the retry_count of the snapshot taken at the claim.
\* InvalidTransitionError escapes to run_forever, which logs it and goes on.
_handle_failure(w, retryable) ==
  LET j == wjob[w] IN
  IF retryable /\ RetriesLeft(wretry[w])
  THEN /\ Finish(w)
       /\ IF CanMove(j, "retrying")
          THEN mark_retrying(j) /\ enqueue_after(j)
          ELSE UNCHANGED <<status, retryCount, delivery>>
  ELSE IF CanMove(j, "failed")
       THEN /\ mark_failed(j)
            /\ wpc' = [wpc EXCEPT ![w] = "deadletter"]
            /\ UNCHANGED <<wjob, wretry, delivery>>
       ELSE Finish(w) /\ UNCHANGED <<status, retryCount, delivery>>

\* The audio is missing, the pipeline raises, or save_transcript does.
AttemptFails(w) ==
  /\ wpc[w] = "running" /\ LoopFree
  /\ \E retryable \in BOOLEAN : _handle_failure(w, retryable)
  /\ UNCHANGED <<transVersion, createdAt, audio, deadLetter, phase, boot, req, history>>

MarkCompleted(w) ==
  /\ wpc[w] = "saved"
  /\ IF CanMove(wjob[w], "completed")
     THEN mark_completed(wjob[w]) /\ Finish(w) /\ UNCHANGED delivery
     ELSE _handle_failure(w, TRUE)
  /\ UNCHANGED <<transVersion, createdAt, audio, deadLetter, phase, boot, req, history>>

\* mark_completed raises an SQLite error, an internal_error, which is retryable.
MarkCompletedFails(w) ==
  /\ Faults /\ wpc[w] = "saved"
  /\ _handle_failure(w, TRUE)
  /\ UNCHANGED <<transVersion, createdAt, audio, deadLetter, phase, boot, req, history>>

\* An OSError is logged and swallowed.
WriteDeadLetter(w) ==
  /\ wpc[w] = "deadletter"
  /\ \/ write_dead_letter(wjob[w], wretry[w] + 1)
     \/ Faults /\ UNCHANGED deadLetter
  /\ Finish(w)
  /\ UNCHANGED <<row, audio, phase, boot, delivery, req, history>>

\* mark_processing, or a mark_* call inside _handle_failure, raises an SQLite
\* error: run_forever logs it, and the job is in no queue any more.
WorkerLosesJob(w) ==
  /\ Faults
  /\ \/ wpc[w] \in {"dequeued", "running"} /\ LoopFree
     \/ wpc[w] = "saved"
  /\ Finish(w)
  /\ stranded' = stranded \cup {wjob[w]}
  /\ UNCHANGED <<disk, phase, boot, delivery, req, attempts, acked>>

WorkerStops(w) == /\ phase = "stopping" /\ LoopFree /\ wpc[w] = "idle"
                  /\ wpc' = [wpc EXCEPT ![w] = "stopped"]
                  /\ UNCHANGED <<disk, phase, boot, delivery, req, wjob, wretry, history>>

----------------------------------------------------------------------------
(* The process: lifespan *)

\* list_unfinished_jobs; the worker tasks exist but recovery never awaits
\* anything that suspends, so they run only after it.
StartProcess == /\ phase = "down"
                /\ phase' = "booting"
                /\ boot' = list_unfinished_jobs
                /\ UNCHANGED <<disk, delivery, req, worker, history>>

\* Mutant: ORDER BY created_at DESC.
NewestFirst(j) == /\ phase = "booting" /\ j \in boot
                  /\ \A k \in boot : createdAt[j] >= createdAt[k]
OldestFirst(j) == /\ phase = "booting" /\ j \in boot
                  /\ \A k \in boot : createdAt[j] <= createdAt[k]

RecoverRequeue(j) ==
  /\ OldestFirst(j)
  /\ \/ status[j] \in {"queued", "retrying"} /\ UNCHANGED <<status, retryCount>>
     \/ status[j] = "processing" /\ RetriesLeft(retryCount[j]) /\ mark_retrying(j)
  /\ enqueue(j)
  /\ boot' = boot \ {j}
  /\ UNCHANGED <<transVersion, createdAt, audio, deadLetter, phase, req, worker, history>>

RecoverFail(j) ==
  /\ OldestFirst(j)
  /\ status[j] = "processing" /\ ~RetriesLeft(retryCount[j])
  /\ mark_failed(j)
  /\ UNCHANGED <<transVersion, createdAt, audio, deadLetter, phase, boot, delivery,
                 req, worker, history>>

RecoverDeadLetter(j) ==
  /\ OldestFirst(j) /\ status[j] = "failed"
  /\ \/ write_dead_letter(j, retryCount[j] + 1)
     \/ Faults /\ UNCHANGED deadLetter
  /\ boot' = boot \ {j}
  /\ UNCHANGED <<row, audio, phase, delivery, req, worker, history>>

\* mark_retrying or mark_failed raises: startup fails, and the worker tasks may
\* run on what is already queued until the process is gone.
RecoveryFails == /\ Faults
                 /\ \E j \in Jobs : OldestFirst(j) /\ status[j] = "processing"
                 /\ phase' = "aborted"
                 /\ boot' = {}
                 /\ UNCHANGED <<disk, delivery, req, worker, history>>

ServiceUp == /\ phase = "booting" /\ boot = {}
             /\ phase' = "up"
             /\ UNCHANGED <<disk, boot, delivery, req, worker, history>>

\* The server has finished its requests before lifespan resumes.
BeginShutdown == /\ phase = "up" /\ LoopFree
                 /\ \A j \in Jobs : req[j] # "saved"
                 /\ phase' = "stopping"
                 /\ UNCHANGED <<disk, boot, delivery, req, worker, history>>

LoseMemory == /\ phase' = "down"
              /\ boot' = {}
              /\ queue' = <<>>
              /\ timers' = [j \in Jobs |-> 0]
              /\ req' = [j \in Jobs |-> IF req[j] = "none" THEN "none" ELSE "done"]
              /\ wpc' = [w \in Workers |-> "idle"]
              /\ wjob' = [w \in Workers |-> NoJob]
              /\ wretry' = [w \in Workers |-> 0]
              /\ stranded' = {}
              /\ UNCHANGED <<disk, attempts, acked>>

\* The workers are done or, after WORKER_SHUTDOWN_TIMEOUT_SECONDS, cancelled;
\* CancelledError is no Exception, so what they ran stays in processing.
ExitProcess == phase \in {"stopping", "aborted"} /\ LoopFree /\ LoseMemory

Crash == Crashes /\ phase # "down" /\ LoseMemory

----------------------------------------------------------------------------
Upload(j) == \/ SaveAudio(j) \/ RejectAudio(j) \/ CreateJob(j) \/ EnqueueJob(j)
             \/ UploadFails(j) \/ ReadBackFails(j)
Deliver(j) == TimerFires(j) \/ Redeliver(j)
Work(w) == \/ Dequeue(w) \/ Claim(w) \/ SaveTranscript(w) \/ AttemptFails(w)
           \/ MarkCompleted(w) \/ MarkCompletedFails(w) \/ WriteDeadLetter(w)
           \/ WorkerLosesJob(w) \/ WorkerStops(w)
Recover(j) == RecoverRequeue(j) \/ RecoverFail(j) \/ RecoverDeadLetter(j)
Process == \/ StartProcess \/ RecoveryFails \/ ServiceUp \/ BeginShutdown
           \/ ExitProcess \/ Crash

Next == \/ \E j \in Jobs : Upload(j) \/ Deliver(j) \/ Recover(j)
        \/ \E w \in Workers : Work(w)
        \/ Process

Spec == Init /\ [][Next]_vars

\* The event loop gives every ready coroutine its turn, engine and ffmpeg calls
\* return, timers fire; no fairness for uploads, shutdowns, crashes or restarts.
Fairness == /\ \A w \in Workers : /\ WF_vars(Dequeue(w)) /\ WF_vars(Claim(w))
                                  /\ WF_vars(SaveTranscript(w) \/ AttemptFails(w))
                                  /\ WF_vars(MarkCompleted(w))
                                  /\ WF_vars(WriteDeadLetter(w))
            /\ \A j \in Jobs : /\ WF_vars(TimerFires(j)) /\ WF_vars(EnqueueJob(j))
                               /\ WF_vars(Recover(j))
            /\ WF_vars(ServiceUp)

FairSpec == Spec /\ Fairness

----------------------------------------------------------------------------
(* Properties *)

TypeOK ==
  /\ status \in [Jobs -> {"none", "queued", "processing", "retrying", "completed", "failed"}]
  /\ retryCount \in [Jobs -> 0..MaxRetries]
  /\ transVersion \in [Jobs -> Nat]
  /\ createdAt \in [Jobs -> Nat]
  /\ audio \subseteq Jobs
  /\ deadLetter \in [Jobs -> 0..MaxRetries+1]
  /\ phase \in {"down", "booting", "up", "stopping", "aborted"}
  /\ boot \subseteq Jobs
  /\ queue \in Seq(Jobs)
  /\ timers \in [Jobs -> Nat]
  /\ req \in [Jobs -> {"none", "saved", "created", "done"}]
  /\ wpc \in [Workers -> {"idle", "dequeued", "running", "saved", "deadletter", "stopped"}]
  /\ wjob \in [Workers -> Jobs \cup {NoJob}]
  /\ wretry \in [Workers -> 0..MaxRetries]
  /\ attempts \in [Jobs -> 0..MaxRetries+1]
  /\ acked \subseteq Jobs
  /\ stranded \subseteq Jobs

Queued(j) == \E i \in DOMAIN queue : queue[i] = j
Owned(j) == \E w \in Workers : wjob[w] = j
Runs(w) == wpc[w] \in {"running", "saved"}

\* However often a job is picked up, one worker at a time runs it, and the
\* snapshot on which that worker will decide retry or failure is the row as it
\* is now (README.md:119, worker.py:83 and 122).
OneRunner ==
  /\ \A v, w \in Workers : (Runs(v) /\ Runs(w) /\ wjob[v] = wjob[w]) => v = w
  /\ \A w \in Workers : Runs(w) => /\ status[wjob[w]] = "processing"
                                   /\ wretry[w] = retryCount[wjob[w]]

\* A job is started at most MaxRetries + 1 times, counted over every restart: the
\* row's retry_count accounts for each start, interrupted ones too (README.md:133).
AttemptsAccounted == \A j \in Jobs :
  /\ attempts[j] <= MaxRetries + 1
  /\ attempts[j] = retryCount[j] + (IF status[j] \in Started THEN 1 ELSE 0)

\* While the service is up, every unfinished job is on its way: in the queue, on a
\* retry timer, with a worker or with its upload.  Only a refused write strands one
\* (queue.py:36-53, worker.py:50-83, main.py:30-52).
NoJobLost == \A j \in Jobs :
  (phase \in {"booting", "up", "stopping"} /\ status[j] \in Unfinished) =>
     \/ Queued(j) \/ timers[j] > 0 \/ Owned(j) \/ req[j] = "created"
     \/ j \in boot \/ j \in stranded

\* No job is on its way twice, and a stranded one not at all: recovery and the
\* retry path put a job back only where nothing else will (main.py:33-51).
Copies(j) == Cardinality({i \in DOMAIN queue : queue[i] = j}) + timers[j]
             + Cardinality({w \in Workers : wjob[w] = j})
             + Cardinality({x \in {1} : req[j] = "created"})
             + Cardinality({x \in {1} : j \in boot})
TrackedOnce == \A j \in Jobs : Copies(j) <= (IF j \in stranded THEN 0 ELSE 1)

\* What a 202 promised is on disk: the row and the audio it points to survive
\* whatever follows, and no row ever lacks its audio (routes.py:65-92).
AcceptedIsDurable == /\ \A j \in acked : status[j] # "none"
                     /\ \A j \in Jobs : status[j] # "none" => j \in audio

\* A completed job has a transcript to serve, and no job has saved more of them
\* than it made attempts (worker.py:98-99).
CompletedHasTranscript == \A j \in Jobs :
  /\ status[j] = "completed" => transVersion[j] >= 1
  /\ transVersion[j] <= attempts[j]

\* A dead-letter file exists only for a failed job and names the number of
\* attempts really made (worker.py:139-140, main.py:36-45).
DeadLetterIsTruthful == \A j \in Jobs :
  deadLetter[j] # 0 => status[j] = "failed" /\ deadLetter[j] = attempts[j]

\* "If it still fails, it's marked failed and a small JSON file is saved in a
\* dead-letter folder" (README.md:133): no failed job is left without its file
\* while the service is up, except between the two writes.
FailedIsDeadLettered == \A j \in Jobs :
  (phase = "up" /\ status[j] = "failed" /\ ~Owned(j)) => deadLetter[j] # 0

\* Recovery queues the jobs it has visited oldest first (database.py:214-221).
RecoveredOldestFirst == phase = "booting" =>
  /\ \A i, k \in DOMAIN queue : i < k => createdAt[queue[i]] < createdAt[queue[k]]
  /\ \A i \in DOMAIN queue : \A j \in boot : createdAt[queue[i]] < createdAt[j]

\* Nothing touches a finished job again: neither a late or repeated delivery, nor
\* a restart, nor save_transcript, which checks no status (database.py:283-323).
FinishedStaysFinished == [][\A j \in Jobs : status[j] \in Terminal =>
                               /\ status'[j] = status[j]
                               /\ transVersion'[j] = transVersion[j]
                               /\ retryCount'[j] = retryCount[j]
                               /\ attempts'[j] = attempts[j]]_vars

\* The service implements the job life cycle it promises.
Lifecycle == INSTANCE JobLifecycle WITH state <- status, tries <- attempts
ImplementsLifecycle == Lifecycle!Spec

\* If the service finally stays up, every job it has a row for, answered or not,
\* is finished, whatever crashes came before (README.md:135).
EveryJobFinishes ==
  <>[](phase = "up") =>
    \A j \in Jobs : [](status[j] # "none" => <>(status[j] \in Terminal))
====
