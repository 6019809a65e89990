---- MODULE TranscriptionService_proofs ----
(***************************************************************************)
(* Proofs about TranscriptionService for every set of jobs and workers and *)
(* every number of retries.                                                *)
(***************************************************************************)
EXTENDS TranscriptionService, SequenceTheorems, FiniteSetTheorems, TLAPS

Status == {"none", "queued", "processing", "retrying", "completed", "failed"}
Place == {"idle", "dequeued", "running", "saved", "deadletter", "stopped"}

\* Where a worker is says what it holds and how far the row of its job has come.
WorkerInv ==
  /\ \A w \in Workers : wpc[w] \notin {"idle", "stopped"} => wjob[w] \in Jobs
  /\ \A w \in Workers : wpc[w] = "deadletter" =>
       status[wjob[w]] = "failed" /\ wretry[w] = retryCount[wjob[w]]
  /\ phase \in {"down", "booting"} => \A w \in Workers : wpc[w] = "idle"

\* An upload that has no row yet draws a fresh id.
UploadInv == \A j \in Jobs : req[j] \in {"none", "saved"} => status[j] = "none"

\* Recovery visits only jobs it found unfinished.
BootInv == /\ boot # {} => phase = "booting"
           /\ \A j \in boot : status[j] \in Unfinished \cup {"failed"}

Inv == TypeOK /\ WorkerInv /\ UploadInv /\ BootInv /\ OneRunner /\ AttemptsAccounted

USE DEF RetriesLeft, save, save_transcript, list_unfinished_jobs

\* The inductive invariant holds where the service starts.
LEMMA InitInv == Init => Inv
BY ConstantsAssumption DEF Init, Inv, TypeOK, WorkerInv, UploadInv, BootInv, OneRunner,
   AttemptsAccounted, Unfinished, Started, Runs

----------------------------------------------------------------------------
(* What the steps of a worker come to where Inv holds: the branches for an *)
(* InvalidTransitionError are left out, for OneRunner makes them           *)
(* unreachable.                                                            *)

Puts(w, place) == /\ wpc' = [wpc EXCEPT ![w] = place]
                  /\ wjob' = wjob
Leaves(w) == /\ wpc' = [wpc EXCEPT ![w] = IF phase = "stopping" THEN "stopped" ELSE "idle"]
             /\ wjob' = [wjob EXCEPT ![w] = NoJob]
             /\ wretry' = [wretry EXCEPT ![w] = 0]

Starts(w) ==
  /\ wpc[w] = "dequeued"
  /\ status[wjob[w]] \in {"queued", "retrying"}
  /\ status' = [status EXCEPT ![wjob[w]] = "processing"]
  /\ attempts' = [attempts EXCEPT ![wjob[w]] = @ + 1]
  /\ Puts(w, "running")
  /\ wretry' = [wretry EXCEPT ![w] = retryCount[wjob[w]]]
  /\ UNCHANGED <<retryCount, queue, timers>>

Skips(w) ==
  /\ wpc[w] = "dequeued"
  /\ status[wjob[w]] \notin {"queued", "retrying"}
  /\ Leaves(w)
  /\ UNCHANGED <<status, retryCount, attempts, queue, timers>>

Retries(w) ==
  /\ Runs(w)
  /\ status[wjob[w]] = "processing" /\ retryCount[wjob[w]] < MaxRetries
  /\ status' = [status EXCEPT ![wjob[w]] = "retrying"]
  /\ retryCount' = [retryCount EXCEPT ![wjob[w]] = @ + 1]
  /\ Leaves(w)
  /\ enqueue_after(wjob[w])
  /\ UNCHANGED attempts

Ends(w, final) ==
  /\ Runs(w)
  /\ status[wjob[w]] = "processing"
  /\ status' = [status EXCEPT ![wjob[w]] = final]
  /\ IF final = "failed" THEN Puts(w, "deadletter") /\ UNCHANGED wretry ELSE Leaves(w)
  /\ UNCHANGED <<retryCount, attempts, queue, timers>>

Rest == <<transVersion, createdAt, audio, deadLetter, phase, boot, req, acked, stranded>>

\* ALLOWED_FROM, spelled out: which moves the guarded UPDATE accepts (database.py:23-30).
LEMMA Allowed ==
  /\ AllowedFrom["processing"] = {"queued", "retrying"}
  /\ AllowedFrom["retrying"] = {"processing"}
  /\ AllowedFrom["completed"] = {"processing"}
  /\ AllowedFrom["failed"] = {"queued", "processing", "retrying"}
BY DEF AllowedFrom

\* mark_processing starts the dequeued job or skips it (worker.py:82-89).
LEMMA ClaimEffect ==
  ASSUME NEW w \in Workers, Claim(w)
  PROVE  (Starts(w) \/ Skips(w)) /\ UNCHANGED Rest
<1>1. CASE CanMove(wjob[w], "processing")
  BY <1>1, Allowed DEF Claim, CanMove, mark_processing, _transition, Starts, Puts, Rest, delivery
<1>2. CASE ~CanMove(wjob[w], "processing")
  BY <1>2, Allowed DEF Claim, CanMove, Finish, Skips, Leaves, Rest, delivery
<1> QED BY <1>1, <1>2

\* _handle_failure, for a job that is processing, retries it or ends it (worker.py:117-150).
LEMMA HandleFailureEffect ==
  ASSUME Inv, NEW w \in Workers, Runs(w), NEW r \in BOOLEAN, _handle_failure(w, r),
         UNCHANGED attempts
  PROVE  Retries(w) \/ Ends(w, "failed")
<1>1. status[wjob[w]] = "processing" /\ wretry[w] = retryCount[wjob[w]]
  BY DEF Inv, OneRunner
<1>2. CanMove(wjob[w], "retrying") /\ CanMove(wjob[w], "failed")
  BY <1>1, Allowed DEF CanMove
<1>3. CASE r /\ wretry[w] < MaxRetries
  BY <1>1, <1>2, <1>3 DEF _handle_failure, mark_retrying, _transition, Finish, Retries, Leaves
<1>4. CASE ~(r /\ wretry[w] < MaxRetries)
  BY <1>1, <1>2, <1>4 DEF _handle_failure, mark_failed, _transition, Ends, Puts, delivery
<1> QED BY <1>3, <1>4

\* A failed attempt retries its job or ends it (worker.py:95-104).
LEMMA AttemptFailsEffect ==
  ASSUME Inv, NEW w \in Workers, AttemptFails(w)
  PROVE  (Retries(w) \/ Ends(w, "failed")) /\ UNCHANGED Rest
<1>1. Runs(w) /\ UNCHANGED attempts /\ UNCHANGED Rest
  BY DEF AttemptFails, Runs, Rest, history
<1>2. PICK r \in BOOLEAN : _handle_failure(w, r)
  BY DEF AttemptFails
<1> QED BY <1>1, <1>2, HandleFailureEffect

\* mark_completed ends the job: the guarded UPDATE cannot refuse it here (worker.py:99).
LEMMA MarkCompletedEffect ==
  ASSUME Inv, NEW w \in Workers, MarkCompleted(w) \/ MarkCompletedFails(w)
  PROVE  (Retries(w) \/ Ends(w, "failed") \/ (wpc[w] = "saved" /\ Ends(w, "completed"))) /\ UNCHANGED Rest
<1>1. Runs(w) /\ UNCHANGED attempts /\ UNCHANGED Rest /\ wpc[w] = "saved"
  BY DEF MarkCompleted, MarkCompletedFails, Runs, Rest, history
<1>2. status[wjob[w]] = "processing" /\ CanMove(wjob[w], "completed")
  BY <1>1, Allowed DEF Inv, OneRunner, CanMove
<1>3. CASE MarkCompleted(w)
  <2>1. mark_completed(wjob[w]) /\ Finish(w) /\ UNCHANGED <<queue, timers>>
    BY <1>2, <1>3 DEF MarkCompleted, delivery
  <2> QED BY <1>1, <1>2, <2>1 DEF mark_completed, _transition, Finish, Ends, Leaves
<1>4. CASE MarkCompletedFails(w)
  BY <1>1, <1>4, HandleFailureEffect DEF MarkCompletedFails
<1> QED BY <1>3, <1>4

----------------------------------------------------------------------------
(* Each of these effects preserves Inv. *)

\* A worker that lets go of its job is well typed.
LEMMA LeavesTyped ==
  ASSUME TypeOK, NEW w \in Workers, Leaves(w)
  PROVE  /\ wpc' \in [Workers -> Place]
         /\ wjob' \in [Workers -> Jobs \cup {NoJob}]
         /\ wretry' \in [Workers -> 0..MaxRetries]
<1>1. (IF phase = "stopping" THEN "stopped" ELSE "idle") \in Place
  BY DEF Place
<1>2. wpc \in [Workers -> Place] /\ wpc' \in [Workers -> Place]
  BY <1>1 DEF TypeOK, Place, Leaves
<1>3. 0 \in 0..MaxRetries
  BY ConstantsAssumption
<1> QED BY <1>2, <1>3 DEF TypeOK, Leaves

\* Starting an attempt preserves the inductive invariant.
LEMMA StartsInv ==
  ASSUME Inv, NEW w \in Workers, Starts(w), UNCHANGED Rest
  PROVE  Inv'
<1> DEFINE j == wjob[w]
<1>1. /\ j \in Jobs /\ boot = {}
      /\ status[j] \in {"queued", "retrying"}
      /\ status' = [status EXCEPT ![j] = "processing"]
      /\ attempts' = [attempts EXCEPT ![j] = @ + 1]
      /\ wpc' = [wpc EXCEPT ![w] = "running"]
      /\ wretry' = [wretry EXCEPT ![w] = retryCount[j]]
      /\ UNCHANGED <<wjob, retryCount, queue, timers>> /\ UNCHANGED Rest
  BY DEF Inv, WorkerInv, BootInv, Starts, Puts
<1> HIDE DEF j
<1>2. retryCount[j] \in 0..MaxRetries /\ attempts[j] \in 0..MaxRetries+1
  BY <1>1 DEF Inv, TypeOK
<1>3. attempts[j] = retryCount[j]
  BY <1>1, <1>2 DEF Inv, Started, AttemptsAccounted
<1>4. attempts[j] + 1 \in 0..MaxRetries+1
  BY <1>2, <1>3, ConstantsAssumption
<1>5. TypeOK'
  BY <1>1, <1>2, <1>4 DEF Inv, TypeOK, Rest
<1>6. WorkerInv'
  <2>1. ASSUME NEW v \in Workers
        PROVE  /\ wpc'[v] \notin {"idle", "stopped"} => wjob'[v] \in Jobs
               /\ wpc'[v] = "deadletter" =>
                    status'[wjob'[v]] = "failed" /\ wretry'[v] = retryCount'[wjob'[v]]
    BY <1>1 DEF j, Inv, TypeOK, WorkerInv
  <2>2. phase' \notin {"down", "booting"}
    BY <1>1 DEF Inv, WorkerInv, Starts, Rest
  <2> QED BY <2>1, <2>2 DEF WorkerInv
<1>7. UploadInv' /\ BootInv'
  BY <1>1 DEF Inv, TypeOK, UploadInv, BootInv, Rest
<1>8. OneRunner'
  BY SMTT(30), <1>1 DEF j, Inv, TypeOK, WorkerInv, OneRunner, Runs
<1>9. AttemptsAccounted'
  BY SMTT(30), <1>1, <1>2, <1>3, ConstantsAssumption DEF Inv, TypeOK, AttemptsAccounted, Started
<1> QED BY <1>5, <1>6, <1>7, <1>8, <1>9 DEF Inv

\* Skipping a job that cannot be claimed preserves it.
LEMMA SkipsInv ==
  ASSUME Inv, NEW w \in Workers, Skips(w), UNCHANGED Rest
  PROVE  Inv'
<1>1. boot = {}
  BY DEF Inv, WorkerInv, BootInv, Skips
<1>2. TypeOK'
  BY ConstantsAssumption DEF Inv, TypeOK, Skips, Leaves, Rest
<1>3. WorkerInv' /\ OneRunner'
  BY DEF Inv, TypeOK, WorkerInv, OneRunner, Runs, Skips, Leaves, Rest
<1>4. UploadInv' /\ BootInv' /\ AttemptsAccounted'
  BY <1>1 DEF Inv, UploadInv, BootInv, AttemptsAccounted, Skips, Rest
<1> QED BY <1>2, <1>3, <1>4 DEF Inv

\* Sending a job to its retry, at once or on a timer, preserves it.
LEMMA RetriesInv ==
  ASSUME Inv, NEW w \in Workers, Retries(w), UNCHANGED Rest
  PROVE  Inv'
<1> DEFINE j == wjob[w]
<1>1. /\ j \in Jobs /\ boot = {} /\ Runs(w)
      /\ status[j] = "processing" /\ retryCount[j] < MaxRetries
      /\ status' = [status EXCEPT ![j] = "retrying"]
      /\ retryCount' = [retryCount EXCEPT ![j] = @ + 1]
      /\ Leaves(w) /\ enqueue_after(j)
      /\ UNCHANGED attempts /\ UNCHANGED Rest
  BY DEF Inv, WorkerInv, BootInv, Runs, Retries
<1> HIDE DEF j
<1>2. retryCount[j] \in 0..MaxRetries /\ attempts[j] \in 0..MaxRetries+1
  BY <1>1 DEF Inv, TypeOK
<1>3. attempts[j] = retryCount[j] + 1
  BY <1>1, <1>2 DEF Inv, Started, AttemptsAccounted
<1>4. retryCount[j] + 1 \in 0..MaxRetries
  BY <1>1, <1>2, ConstantsAssumption
<1>5. queue' \in Seq(Jobs) /\ timers' \in [Jobs -> Nat]
  <2>1. queue \in Seq(Jobs) /\ timers \in [Jobs -> Nat] /\ timers[j] + 1 \in Nat
    BY <1>1 DEF Inv, TypeOK
  <2>2. CASE RetryDelay = 0
    <3>1. queue' = Append(queue, j) /\ timers' = timers
      BY <1>1, <2>2 DEF enqueue_after, enqueue
    <3> QED BY <1>1, <2>1, <3>1, AppendProperties
  <2>3. CASE RetryDelay # 0
    BY <1>1, <2>1, <2>3 DEF enqueue_after
  <2> QED BY <2>2, <2>3
<1>6. TypeOK'
  BY <1>1, <1>4, <1>5, LeavesTyped DEF Inv, TypeOK, Place, Rest
<1>7. WorkerInv'
  <2>1. ASSUME NEW v \in Workers, v # w
        PROVE  wpc'[v] = wpc[v] /\ wjob'[v] = wjob[v] /\ wretry'[v] = wretry[v]
    BY <1>1, <2>1 DEF Leaves, Inv, TypeOK
  <2>2. wpc'[w] \in {"idle", "stopped"} /\ wjob'[w] = NoJob
    BY <1>1 DEF Leaves, Inv, TypeOK
  <2>3. ASSUME NEW v \in Workers, v # w, wjob[v] = j
        PROVE  wpc[v] # "deadletter"
    BY <1>1, <2>3 DEF Inv, WorkerInv
  <2>4. ASSUME NEW v \in Workers
        PROVE  /\ wpc'[v] \notin {"idle", "stopped"} => wjob'[v] \in Jobs
               /\ wpc'[v] = "deadletter" =>
                    status'[wjob'[v]] = "failed" /\ wretry'[v] = retryCount'[wjob'[v]]
    <3>1. CASE v = w BY <2>2, <3>1
    <3>2. CASE v # w
      <4>1. wpc[v] \notin {"idle", "stopped"} => wjob[v] \in Jobs
        BY DEF Inv, WorkerInv
      <4>2. wpc[v] = "deadletter" =>
              /\ wjob[v] # j /\ status[wjob[v]] = "failed"
              /\ wretry[v] = retryCount[wjob[v]]
        BY <2>3, <3>2 DEF Inv, WorkerInv
      <4> QED BY <1>1, <2>1, <3>2, <4>1, <4>2 DEF Inv, TypeOK
    <3> QED BY <3>1, <3>2
  <2>5. phase' = phase /\ phase \notin {"down", "booting"}
    BY <1>1 DEF Inv, WorkerInv, Runs, Rest
  <2> QED BY <2>4, <2>5 DEF WorkerInv
<1>8. UploadInv' /\ BootInv'
  BY <1>1 DEF Inv, TypeOK, UploadInv, BootInv, Rest
<1>9. OneRunner'
  BY <1>1 DEF j, Inv, TypeOK, WorkerInv, OneRunner, Runs, Leaves
<1>10. AttemptsAccounted'
  BY SMTT(30), <1>1, <1>2, <1>3, ConstantsAssumption DEF Inv, TypeOK, AttemptsAccounted, Started
<1> QED BY <1>6, <1>7, <1>8, <1>9, <1>10 DEF Inv

\* Ending a job, completed or failed, preserves it.
LEMMA EndsInv ==
  ASSUME Inv, NEW w \in Workers, NEW final \in {"completed", "failed"}, Ends(w, final),
         UNCHANGED Rest
  PROVE  Inv'
<1> DEFINE j == wjob[w]
<1>1. /\ j \in Jobs /\ boot = {} /\ Runs(w)
      /\ status[j] = "processing"
      /\ status' = [status EXCEPT ![j] = final]
      /\ IF final = "failed" THEN Puts(w, "deadletter") /\ UNCHANGED wretry ELSE Leaves(w)
      /\ UNCHANGED <<retryCount, attempts, queue, timers>> /\ UNCHANGED Rest
      /\ wretry[w] = retryCount[j]
  BY DEF Inv, WorkerInv, BootInv, Runs, Ends, OneRunner
<1> HIDE DEF j
<1>2. TypeOK'
  <2>1. CASE final = "failed"
    BY <1>1, <2>1 DEF Inv, TypeOK, Puts, Rest
  <2>2. CASE final = "completed"
    BY <1>1, <2>2, LeavesTyped DEF Inv, TypeOK, Place, Rest
  <2> QED BY <2>1, <2>2
<1>3. WorkerInv'
  <2>1. phase' \notin {"down", "booting"}
    BY <1>1 DEF Inv, WorkerInv, Runs, Rest
  <2>2. CASE final = "failed"
    <3>1. /\ wpc' = [wpc EXCEPT ![w] = "deadletter"] /\ wjob' = wjob /\ wretry' = wretry
          /\ retryCount' = retryCount /\ status' = [status EXCEPT ![j] = "failed"]
      BY <1>1, <2>2 DEF Puts
    <3>2. wpc' = [v \in Workers |-> IF v = w THEN "deadletter" ELSE wpc[v]]
      BY <3>1 DEF Inv, TypeOK
    <3>3. \A i \in Jobs : status'[i] = IF i = j THEN "failed" ELSE status[i]
      BY <1>1, <3>1 DEF Inv, TypeOK
    <3>4. wjob[w] = j BY DEF j
    <3>5. ASSUME NEW v \in Workers, wpc'[v] \notin {"idle", "stopped"} PROVE wjob'[v] \in Jobs
      <4>1. CASE v = w BY <1>1, <3>1, <3>4, <4>1
      <4>2. CASE v # w
        <5>1. wpc'[v] = wpc[v] BY <3>2, <4>2
        <5> QED BY <3>1, <3>5, <5>1 DEF Inv, WorkerInv
      <4> QED BY <4>1, <4>2
    <3>6. ASSUME NEW v \in Workers, wpc'[v] = "deadletter"
          PROVE  status'[wjob'[v]] = "failed" /\ wretry'[v] = retryCount'[wjob'[v]]
      <4>1. CASE v = w BY <1>1, <3>1, <3>3, <3>4, <4>1
      <4>2. CASE v # w
        <5>1. wpc[v] = "deadletter" BY <3>2, <3>6, <4>2
        <5>2. wjob[v] \in Jobs /\ status[wjob[v]] = "failed" /\ wretry[v] = retryCount[wjob[v]]
          BY <5>1 DEF Inv, WorkerInv
        <5> QED BY <3>1, <3>3, <5>2
      <4> QED BY <4>1, <4>2
    <3> QED BY <2>1, <3>5, <3>6 DEF WorkerInv
  <2>3. CASE final = "completed"
    <3>1. ASSUME NEW v \in Workers, wpc'[v] \notin {"idle", "stopped"}
          PROVE  wpc'[v] = wpc[v] /\ wjob'[v] = wjob[v] /\ wretry'[v] = wretry[v]
      BY <1>1, <2>3, <3>1 DEF Inv, TypeOK, Leaves
    <3>2. \A i \in Jobs : status[i] = "failed" => status'[i] = "failed"
      BY <1>1, <2>3 DEF Inv, TypeOK
    <3> QED BY <1>1, <2>1, <3>1, <3>2 DEF Inv, WorkerInv
  <2> QED BY <2>2, <2>3
<1>4. UploadInv' /\ BootInv'
  BY <1>1 DEF Inv, TypeOK, UploadInv, BootInv, Rest
<1>5. OneRunner'
  <2>1. ASSUME NEW v \in Workers, Runs(v)'
        PROVE  Runs(v) /\ v # w /\ wjob'[v] = wjob[v] /\ wretry'[v] = wretry[v]
    <3>1. CASE final = "failed"
      BY <1>1, <2>1, <3>1 DEF Inv, TypeOK, Runs, Puts
    <3>2. CASE final = "completed"
      BY <1>1, <2>1, <3>2 DEF Inv, TypeOK, Runs, Leaves
    <3> QED BY <3>1, <3>2
  <2>2. ASSUME NEW v \in Workers, Runs(v)'
        PROVE  status'[wjob[v]] = "processing" /\ wretry[v] = retryCount'[wjob[v]]
    BY <1>1, <2>1, <2>2 DEF j, Inv, TypeOK, WorkerInv, OneRunner, Runs
  <2> QED BY <2>1, <2>2 DEF Inv, OneRunner
<1>6. AttemptsAccounted'
  BY <1>1, ConstantsAssumption DEF Inv, TypeOK, AttemptsAccounted, Started
<1> QED BY <1>2, <1>3, <1>4, <1>5, <1>6 DEF Inv

\* Every step of an upload preserves it (routes.py:47-101).
LEMMA UploadInvariant ==
  ASSUME Inv, NEW j \in Jobs, Upload(j)
  PROVE  Inv'
<1>1. CASE SaveAudio(j) \/ RejectAudio(j) \/ UploadFails(j)
  <2>1. /\ audio' \subseteq Jobs
        /\ req' \in [Jobs -> {"none", "saved", "created", "done"}]
        /\ req[j] \in {"none", "saved"}
        /\ \A i \in Jobs \ {j} : req'[i] = req[i]
        /\ UNCHANGED <<row, deadLetter, phase, boot, delivery, worker, history>>
    <3>1. CASE SaveAudio(j)
      BY <3>1 DEF SaveAudio, Inv, TypeOK
    <3>2. CASE RejectAudio(j)
      BY <3>2 DEF RejectAudio, Inv, TypeOK
    <3>3. CASE UploadFails(j)
      BY <3>3 DEF UploadFails, disk, row, Inv, TypeOK
    <3> QED BY <1>1, <3>1, <3>2, <3>3
  <2>2. TypeOK' /\ UploadInv'
    BY <2>1 DEF Inv, TypeOK, UploadInv, row, delivery, worker, history
  <2>3. WorkerInv' /\ BootInv' /\ OneRunner' /\ AttemptsAccounted'
    BY <2>1 DEF Inv, WorkerInv, BootInv, OneRunner, Runs, AttemptsAccounted, row, worker, history
  <2> QED BY <2>2, <2>3 DEF Inv
<1>2. CASE CreateJob(j) \/ ReadBackFails(j)
  <2>1. /\ status[j] = "none"
        /\ create_job(j)
        /\ req' \in [Jobs -> {"none", "saved", "created", "done"}]
        /\ req'[j] \in {"created", "done"}
        /\ \A i \in Jobs \ {j} : req'[i] = req[i]
        /\ stranded' \subseteq Jobs
        /\ UNCHANGED <<retryCount, transVersion, audio, deadLetter, phase, boot, queue, timers,
                       wpc, wjob, wretry, attempts, acked>>
    BY <1>2 DEF CreateJob, ReadBackFails, Inv, TypeOK, UploadInv, delivery, worker, history
  <2>2. status' = [status EXCEPT ![j] = "queued"]
    BY <2>1 DEF create_job
  <2>3. createdAt' \in [Jobs -> Nat]
    <3>1. 1 + Cardinality({k \in Jobs : status[k] # "none"}) \in Nat
      BY ConstantsAssumption, FS_Subset, FS_CardinalityType
    <3> QED BY <2>1, <3>1 DEF create_job, Inv, TypeOK
  <2>4. TypeOK'
    BY <2>1, <2>2, <2>3 DEF Inv, TypeOK
  <2>5. WorkerInv' /\ OneRunner'
    BY <2>1, <2>2 DEF Inv, TypeOK, WorkerInv, OneRunner, Runs
  <2>6. UploadInv' /\ BootInv' /\ AttemptsAccounted'
    BY <2>1, <2>2 DEF Inv, TypeOK, UploadInv, BootInv, AttemptsAccounted, Started, Unfinished
  <2> QED BY <2>4, <2>5, <2>6 DEF Inv
<1>3. CASE EnqueueJob(j)
  <2>1. queue' \in Seq(Jobs)
    BY <1>3, AppendProperties DEF EnqueueJob, enqueue, Inv, TypeOK
  <2> QED BY SMTT(30), <1>3, <2>1 DEF EnqueueJob, enqueue, Inv, TypeOK, WorkerInv, UploadInv, BootInv,
     OneRunner, Runs, AttemptsAccounted, disk, worker
<1> QED BY <1>1, <1>2, <1>3 DEF Upload

\* Every step of the queue preserves it (queue.py:36-53).
LEMMA DeliverInvariant ==
  ASSUME Inv, NEW j \in Jobs, Deliver(j)
  PROVE  Inv'
<1>1. queue' = Append(queue, j) /\ UNCHANGED <<disk, phase, boot, req, worker, history>>
  BY DEF Deliver, TimerFires, Redeliver
<1>2. timers' \in [Jobs -> Nat]
  <2>1. CASE TimerFires(j)
    <3>1. timers \in [Jobs -> Nat] /\ timers[j] - 1 \in Nat
      BY <2>1 DEF TimerFires, Inv, TypeOK
    <3> QED BY <2>1, <3>1 DEF TimerFires
  <2>2. CASE Redeliver(j)
    BY <2>2 DEF Redeliver, Inv, TypeOK
  <2> QED BY <2>1, <2>2 DEF Deliver
<1>3. TypeOK'
  BY <1>1, <1>2, AppendProperties DEF Inv, TypeOK, disk, worker, history
<1>4. WorkerInv' /\ UploadInv' /\ BootInv' /\ OneRunner' /\ AttemptsAccounted'
  BY <1>1 DEF Inv, WorkerInv, UploadInv, BootInv, OneRunner, Runs, AttemptsAccounted, disk,
     worker, history
<1> QED BY <1>3, <1>4 DEF Inv

\* Every step of a worker preserves it (worker.py:50-150).
LEMMA WorkInvariant ==
  ASSUME Inv, NEW w \in Workers, Work(w)
  PROVE  Inv'
<1>1. CASE Dequeue(w)
  <2>1. /\ queue \in Seq(Jobs) /\ queue # <<>>
        /\ queue' = Tail(queue)
        /\ wpc' = [wpc EXCEPT ![w] = "dequeued"]
        /\ wjob' = [wjob EXCEPT ![w] = Head(queue)]
        /\ phase \notin {"down", "booting"}
        /\ UNCHANGED <<disk, phase, boot, timers, req, wretry, history>>
    BY <1>1 DEF Dequeue, Inv, TypeOK, WorkersRun
  <2>2. Head(queue) \in Jobs /\ queue' \in Seq(Jobs)
    BY <2>1, HeadTailProperties
  <2>3. TypeOK'
    BY <2>1, <2>2 DEF Inv, TypeOK, disk, history
  <2>4. WorkerInv' /\ OneRunner'
    BY SMTT(30), <2>1, <2>2 DEF Inv, TypeOK, WorkerInv, OneRunner, Runs, disk
  <2>5. UploadInv' /\ BootInv' /\ AttemptsAccounted'
    BY <2>1 DEF Inv, UploadInv, BootInv, AttemptsAccounted, disk, history
  <2> QED BY <2>3, <2>4, <2>5 DEF Inv
<1>2. CASE Claim(w)
  BY <1>2, ClaimEffect, StartsInv, SkipsInv
<1>3. CASE SaveTranscript(w)
  <2>1. /\ wjob[w] \in Jobs /\ wpc[w] = "running"
        /\ transVersion' = [transVersion EXCEPT ![wjob[w]] = @ + 1]
        /\ wpc' = [wpc EXCEPT ![w] = "saved"]
        /\ UNCHANGED <<status, retryCount, createdAt, audio, deadLetter, phase, boot, queue,
                       timers, req, wjob, wretry, attempts, acked, stranded>>
    BY <1>3 DEF SaveTranscript, Inv, WorkerInv, delivery, history
  <2>2. TypeOK'
    BY SMTT(30), <2>1 DEF Inv, TypeOK
  <2>3. WorkerInv' /\ UploadInv' /\ BootInv' /\ AttemptsAccounted'
    BY <2>1 DEF Inv, TypeOK, WorkerInv, UploadInv, BootInv, AttemptsAccounted
  <2>4. OneRunner'
    BY <2>1 DEF Inv, TypeOK, OneRunner, Runs
  <2> QED BY <2>2, <2>3, <2>4 DEF Inv
<1>4. CASE AttemptFails(w)
  BY <1>4, AttemptFailsEffect, RetriesInv, EndsInv
<1>5. CASE MarkCompleted(w) \/ MarkCompletedFails(w)
  BY <1>5, MarkCompletedEffect, RetriesInv, EndsInv
<1>6. CASE WriteDeadLetter(w)
  <2>1. /\ wpc[w] = "deadletter" /\ Leaves(w)
        /\ deadLetter' = [deadLetter EXCEPT ![wjob[w]] = wretry[w] + 1] \/ deadLetter' = deadLetter
        /\ UNCHANGED <<row, audio, phase, boot, delivery, req, history>>
    BY <1>6 DEF WriteDeadLetter, write_dead_letter, Finish, Leaves
  <2>2. deadLetter' \in [Jobs -> 0..MaxRetries+1]
    <3>1. wretry[w] + 1 \in 0..MaxRetries+1
      BY ConstantsAssumption DEF Inv, TypeOK
    <3>2. deadLetter \in [Jobs -> 0..MaxRetries+1]
      BY DEF Inv, TypeOK
    <3> QED BY <2>1, <3>1, <3>2
  <2>a. /\ wpc' \in [Workers -> Place] /\ wjob' \in [Workers -> Jobs \cup {NoJob}]
        /\ wretry' \in [Workers -> 0..MaxRetries]
    BY <2>1, LeavesTyped DEF Inv
  <2>3. TypeOK'
    BY <2>1, <2>2, <2>a DEF Inv, TypeOK, Place, row, delivery, history
  <2>b. WorkerInv'
    BY <2>1 DEF Inv, TypeOK, WorkerInv, Leaves, row
  <2>4. OneRunner'
    BY <2>1 DEF Inv, TypeOK, OneRunner, Runs, Leaves, row
  <2>5. UploadInv' /\ BootInv' /\ AttemptsAccounted'
    BY <2>1 DEF Inv, UploadInv, BootInv, AttemptsAccounted, row, history
  <2> QED BY <2>3, <2>b, <2>4, <2>5 DEF Inv
<1>7. CASE WorkerLosesJob(w)
  <2>1. /\ wpc[w] \in {"dequeued", "running", "saved"} /\ Leaves(w)
        /\ stranded' = stranded \cup {wjob[w]}
        /\ UNCHANGED <<disk, phase, boot, delivery, req, attempts, acked>>
    BY <1>7 DEF WorkerLosesJob, Finish, Leaves
  <2>2. stranded' \subseteq Jobs
    <3>1. wjob[w] \in Jobs BY <2>1 DEF Inv, WorkerInv
    <3>2. stranded \subseteq Jobs BY DEF Inv, TypeOK
    <3> QED BY <2>1, <3>1, <3>2
  <2>3. TypeOK'
    BY <2>1, <2>2, LeavesTyped DEF Inv, TypeOK, Place, disk, delivery
  <2>4. WorkerInv' /\ OneRunner'
    BY <2>1 DEF Inv, TypeOK, WorkerInv, OneRunner, Runs, Leaves, disk
  <2>5. UploadInv' /\ BootInv' /\ AttemptsAccounted'
    BY <2>1 DEF Inv, UploadInv, BootInv, AttemptsAccounted, disk
  <2> QED BY <2>3, <2>4, <2>5 DEF Inv
<1>8. CASE WorkerStops(w)
  <2>1. /\ phase = "stopping" /\ wpc[w] = "idle"
        /\ wpc' = [wpc EXCEPT ![w] = "stopped"]
        /\ UNCHANGED <<disk, phase, boot, delivery, req, wjob, wretry, history>>
    BY <1>8 DEF WorkerStops
  <2>2. TypeOK'
    BY <2>1 DEF Inv, TypeOK, disk, delivery, history
  <2>3. WorkerInv' /\ OneRunner'
    BY <2>1 DEF Inv, TypeOK, WorkerInv, OneRunner, Runs, disk
  <2>4. UploadInv' /\ BootInv' /\ AttemptsAccounted'
    BY <2>1 DEF Inv, UploadInv, BootInv, AttemptsAccounted, disk, history
  <2> QED BY <2>2, <2>3, <2>4 DEF Inv
<1> QED BY <1>1, <1>2, <1>3, <1>4, <1>5, <1>6, <1>7, <1>8 DEF Work

\* Every step of recovery preserves it (main.py:30-52).
LEMMA RecoverInvariant ==
  ASSUME Inv, NEW j \in Jobs, Recover(j)
  PROVE  Inv'
<1>1. /\ j \in boot /\ phase = "booting"
      /\ \A w \in Workers : wpc[w] = "idle"
      /\ status[j] \in Unfinished \cup {"failed"}
  BY DEF Recover, RecoverRequeue, RecoverFail, RecoverDeadLetter, OldestFirst, Inv, WorkerInv, BootInv
<1>2. UNCHANGED <<transVersion, createdAt, audio, phase, timers, req, worker, history>>
  BY DEF Recover, RecoverRequeue, RecoverFail, RecoverDeadLetter, enqueue, row, delivery
<1>3. CASE RecoverRequeue(j)
  <2>1. /\ queue' = Append(queue, j) /\ boot' = boot \ {j} /\ deadLetter' = deadLetter
    BY <1>3 DEF RecoverRequeue, enqueue
  <2>2. queue' \in Seq(Jobs)
    BY <2>1, AppendProperties DEF Inv, TypeOK
  <2>3. CASE status[j] \in {"queued", "retrying"} /\ UNCHANGED <<status, retryCount>>
    <3>1. TypeOK'
      BY <1>2, <2>1, <2>2, <2>3 DEF Inv, TypeOK, worker, history
    <3>2. WorkerInv' /\ UploadInv' /\ BootInv' /\ OneRunner' /\ AttemptsAccounted'
      BY <1>1, <1>2, <2>1, <2>3 DEF Inv, WorkerInv, UploadInv, BootInv, OneRunner, Runs,
         AttemptsAccounted, worker, history
    <3> QED BY <3>1, <3>2 DEF Inv
  <2>4. CASE status[j] = "processing" /\ retryCount[j] < MaxRetries /\ mark_retrying(j)
    <3>1. /\ status' = [status EXCEPT ![j] = "retrying"]
          /\ retryCount' = [retryCount EXCEPT ![j] = @ + 1]
          /\ retryCount[j] \in 0..MaxRetries /\ retryCount[j] + 1 \in 0..MaxRetries
      BY <2>4, ConstantsAssumption DEF mark_retrying, _transition, Inv, TypeOK
    <3>2. TypeOK'
      BY <1>2, <2>1, <2>2, <3>1 DEF Inv, TypeOK, worker, history
    <3>3. WorkerInv' /\ OneRunner'
      BY <1>1, <1>2 DEF Inv, WorkerInv, OneRunner, Runs, worker
    <3>4. UploadInv' /\ BootInv'
      BY <1>2, <2>1, <2>4, <3>1 DEF Inv, TypeOK, UploadInv, BootInv, Unfinished
    <3>5. attempts[j] = retryCount[j] + 1
      BY <2>4, <3>1 DEF Inv, AttemptsAccounted, Started
    <3>6. AttemptsAccounted'
      BY <1>2, <2>4, <3>1, <3>5 DEF Inv, TypeOK, AttemptsAccounted, Started, history
    <3> QED BY <3>2, <3>3, <3>4, <3>6 DEF Inv
  <2> QED BY <1>3, <2>3, <2>4 DEF RecoverRequeue
<1>4. CASE RecoverFail(j)
  <2>1. /\ status[j] = "processing"
        /\ status' = [status EXCEPT ![j] = "failed"]
        /\ UNCHANGED <<retryCount, deadLetter, boot, queue>>
    BY <1>4 DEF RecoverFail, mark_failed, _transition, delivery
  <2>2. TypeOK'
    BY <1>2, <2>1 DEF Inv, TypeOK, worker, history
  <2>3. WorkerInv' /\ OneRunner'
    BY <1>1, <1>2 DEF Inv, WorkerInv, OneRunner, Runs, worker
  <2>4. UploadInv' /\ BootInv'
    BY <1>2, <2>1 DEF Inv, TypeOK, UploadInv, BootInv
  <2>5. AttemptsAccounted'
    BY <1>2, <2>1 DEF Inv, TypeOK, AttemptsAccounted, Started, history
  <2> QED BY <2>2, <2>3, <2>4, <2>5 DEF Inv
<1>5. CASE RecoverDeadLetter(j)
  <2>1. /\ deadLetter' = [deadLetter EXCEPT ![j] = retryCount[j] + 1] \/ deadLetter' = deadLetter
        /\ boot' = boot \ {j}
        /\ UNCHANGED <<status, retryCount, queue>>
    BY <1>5 DEF RecoverDeadLetter, write_dead_letter, row, delivery
  <2>2. retryCount[j] + 1 \in 0..MaxRetries+1
    BY ConstantsAssumption DEF Inv, TypeOK
  <2>3. TypeOK'
    BY SMTT(30), <1>2, <2>1, <2>2 DEF Inv, TypeOK, worker, history
  <2>4. WorkerInv' /\ UploadInv' /\ BootInv' /\ OneRunner' /\ AttemptsAccounted'
    BY <1>1, <1>2, <2>1 DEF Inv, WorkerInv, UploadInv, BootInv, OneRunner, Runs, AttemptsAccounted,
       worker, history
  <2> QED BY <2>3, <2>4 DEF Inv
<1> QED BY <1>3, <1>4, <1>5 DEF Recover

\* It survives the loss of everything in memory.
LEMMA LoseMemoryInvariant == ASSUME Inv, LoseMemory PROVE Inv'
<1>1. TypeOK'
  <2>1. req' \in [Jobs -> {"none", "saved", "created", "done"}]
    BY DEF LoseMemory
  <2>2. queue' \in Seq(Jobs)
    BY EmptySeq DEF LoseMemory
  <2> QED BY <2>1, <2>2, ConstantsAssumption DEF LoseMemory, Inv, TypeOK, disk
<1>2. WorkerInv' /\ BootInv' /\ OneRunner'
  BY DEF LoseMemory, WorkerInv, BootInv, OneRunner, Runs
<1>3. UploadInv' /\ AttemptsAccounted'
  BY DEF LoseMemory, Inv, TypeOK, UploadInv, AttemptsAccounted, disk
<1> QED BY <1>1, <1>2, <1>3 DEF Inv

\* Every step of the process, start, stop and crash, preserves it (main.py:63-113).
LEMMA ProcessInvariant == ASSUME Inv, Process PROVE Inv'
<1>1. CASE ExitProcess \/ Crash
  BY <1>1, LoseMemoryInvariant DEF ExitProcess, Crash
<1>2. CASE StartProcess
  BY <1>2 DEF StartProcess, Inv, TypeOK, WorkerInv, UploadInv, BootInv, OneRunner, Runs,
     AttemptsAccounted, disk, delivery, worker, history
<1>3. CASE RecoveryFails \/ ServiceUp \/ BeginShutdown
  <2>1. /\ boot' = {}
        /\ phase' \in {"up", "stopping", "aborted"}
        /\ UNCHANGED <<disk, delivery, req, worker, history>>
    BY <1>3 DEF RecoveryFails, ServiceUp, BeginShutdown, Inv, BootInv
  <2> QED BY SMTT(30), <2>1 DEF Inv, TypeOK, WorkerInv, UploadInv, BootInv, OneRunner, Runs,
     AttemptsAccounted, disk, delivery, worker, history
<1> QED BY <1>1, <1>2, <1>3 DEF Process

\* A stuttering step preserves it.
LEMMA StutterInvariant == ASSUME Inv, UNCHANGED vars PROVE Inv'
BY DEF vars, Inv, TypeOK, WorkerInv, UploadInv, BootInv, OneRunner, Runs, AttemptsAccounted,
   disk, delivery, worker, history

\* It is inductive.
LEMMA NextInvariant == Inv /\ [Next]_vars => Inv'
BY UploadInvariant, DeliverInvariant, RecoverInvariant, WorkInvariant, ProcessInvariant,
   StutterInvariant DEF Next

\* It holds in every reachable state.
LEMMA Invariance == Spec => []Inv
<1> QED BY InitInv, NextInvariant, PTL DEF Spec

\* Every variable keeps its type: no counter passes its limit and no status, phase or
\* place of a worker occurs that the code does not know (database.py:15-31).
THEOREM TypeCorrect == Spec => []TypeOK
<1>1. Inv => TypeOK
  BY DEF Inv
<1> QED BY <1>1, Invariance, PTL

\* However often the queue hands out a job, one worker at a time runs it, with a
\* current snapshot (README.md:119).
THEOREM OneRunnerAlways == Spec => []OneRunner
<1>1. Inv => OneRunner
  BY DEF Inv
<1> QED BY <1>1, Invariance, PTL

\* At most MaxRetries + 1 starts, whatever crashes, faults and repeated deliveries
\* there are (README.md:133).
THEOREM AttemptsBounded == Spec => []AttemptsAccounted
<1>1. Inv => AttemptsAccounted
  BY DEF Inv
<1> QED BY <1>1, Invariance, PTL

----------------------------------------------------------------------------
(* The service implements JobLifecycle: every step moves at most one row,  *)
(* along an arrow of the life cycle.                                       *)

\* A step of a worker is a step of the life cycle or changes nothing of it.
LEMMA WorkImplements ==
  ASSUME Inv, NEW w \in Workers, Work(w)
  PROVE  Lifecycle!Next \/ UNCHANGED Lifecycle!vars
<1> USE DEF Lifecycle!Move, Lifecycle!vars
<1>1. CASE UNCHANGED <<status, attempts>>
  BY <1>1
<1>2. ASSUME Starts(w) PROVE Lifecycle!Start(wjob[w]) /\ wjob[w] \in Jobs
  <2>1. /\ wjob[w] \in Jobs /\ retryCount[wjob[w]] \in 0..MaxRetries
        /\ attempts[wjob[w]] \in 0..MaxRetries+1
    BY <1>2 DEF Starts, Inv, TypeOK, WorkerInv
  <2>2. attempts[wjob[w]] = retryCount[wjob[w]]
    BY <1>2, <2>1 DEF Starts, Inv, AttemptsAccounted, Started
  <2> QED BY <1>2, <2>1, <2>2, ConstantsAssumption DEF Starts, Lifecycle!Start
<1>3. ASSUME Retries(w) PROVE Lifecycle!Retry(wjob[w]) /\ wjob[w] \in Jobs
  <2>1. /\ wjob[w] \in Jobs /\ retryCount[wjob[w]] \in 0..MaxRetries
        /\ attempts[wjob[w]] \in 0..MaxRetries+1
    BY <1>3 DEF Retries, Runs, Inv, TypeOK, WorkerInv
  <2>2. attempts[wjob[w]] = retryCount[wjob[w]] + 1
    BY <1>3, <2>1 DEF Retries, Inv, AttemptsAccounted, Started
  <2> QED BY <1>3, <2>1, <2>2, ConstantsAssumption DEF Retries, Lifecycle!Retry
<1>4. ASSUME NEW final \in {"completed", "failed"}, Ends(w, final)
      PROVE  Lifecycle!Complete(wjob[w]) \/ Lifecycle!Fail(wjob[w])
  BY <1>4 DEF Ends, Lifecycle!Complete, Lifecycle!Fail
<1>5. Runs(w) => wjob[w] \in Jobs
  BY DEF Runs, Inv, WorkerInv
<1>6. CASE Claim(w)
  BY <1>1, <1>2, <1>6, ClaimEffect DEF Skips, Lifecycle!Next
<1>7. CASE AttemptFails(w) \/ MarkCompleted(w) \/ MarkCompletedFails(w)
  <2>1. Retries(w) \/ Ends(w, "failed") \/ Ends(w, "completed")
    BY <1>7, AttemptFailsEffect, MarkCompletedEffect
  <2>2. Ends(w, "failed") \/ Ends(w, "completed") => Runs(w)
    BY DEF Ends
  <2> QED BY <1>3, <1>4, <1>5, <2>1, <2>2 DEF Lifecycle!Next
<1>8. CASE Dequeue(w) \/ SaveTranscript(w) \/ WriteDeadLetter(w) \/ WorkerLosesJob(w)
           \/ WorkerStops(w)
  BY <1>1, <1>8 DEF Dequeue, SaveTranscript, WriteDeadLetter, WorkerLosesJob, WorkerStops,
     disk, row, history
<1> QED BY <1>6, <1>7, <1>8 DEF Work

\* So is a step of an upload, of the queue or of recovery.
LEMMA JobStepImplements ==
  ASSUME Inv, NEW j \in Jobs, Upload(j) \/ Deliver(j) \/ Recover(j)
  PROVE  Lifecycle!Next \/ UNCHANGED Lifecycle!vars
<1> USE DEF Lifecycle!Move, Lifecycle!vars
<1>1. CASE UNCHANGED <<status, attempts>>
  BY <1>1
<1>2. CASE CreateJob(j) \/ ReadBackFails(j)
  BY <1>2 DEF CreateJob, ReadBackFails, create_job, history, Inv, UploadInv, Lifecycle!Accept,
     Lifecycle!Next
<1>3. CASE RecoverRequeue(j) /\ status[j] = "processing"
  <2>1. /\ retryCount[j] < MaxRetries /\ mark_retrying(j) /\ UNCHANGED attempts
        /\ retryCount[j] \in 0..MaxRetries /\ attempts[j] \in 0..MaxRetries+1
    BY <1>3 DEF RecoverRequeue, history, Inv, TypeOK
  <2>2. attempts[j] = retryCount[j] + 1
    BY <1>3, <2>1 DEF Inv, AttemptsAccounted, Started
  <2>3. Lifecycle!Retry(j)
    BY <1>3, <2>1, <2>2, ConstantsAssumption DEF mark_retrying, _transition, Lifecycle!Retry
  <2> QED BY <2>3 DEF Lifecycle!Next
<1>4. CASE RecoverFail(j)
  BY <1>4 DEF RecoverFail, mark_failed, _transition, history, Lifecycle!Fail, Lifecycle!Next
<1>5. CASE \/ SaveAudio(j) \/ RejectAudio(j) \/ EnqueueJob(j) \/ UploadFails(j) \/ Deliver(j)
           \/ (RecoverRequeue(j) /\ status[j] # "processing") \/ RecoverDeadLetter(j)
  BY <1>1, <1>5 DEF SaveAudio, RejectAudio, EnqueueJob, UploadFails, Deliver, TimerFires,
     Redeliver, RecoverRequeue, RecoverDeadLetter, disk, row, history
<1> QED BY <1>2, <1>3, <1>4, <1>5 DEF Upload, Recover

\* Starting, stopping and crashing change nothing of the life cycle.
LEMMA ProcessStepImplements == ASSUME Process PROVE UNCHANGED <<status, attempts>>
BY DEF Process, StartProcess, RecoveryFails, ServiceUp, BeginShutdown, ExitProcess, Crash,
   LoseMemory, disk, history

\* The detailed service, with its queue, workers, crashes and faults, implements
\* the life cycle that README.md:80 promises of a job.
THEOREM Implementation == Spec => ImplementsLifecycle
<1>1. Init => Lifecycle!Init
  BY DEF Init, Lifecycle!Init
<1>2. Inv /\ [Next]_vars => [Lifecycle!Next]_Lifecycle!vars
  <2>1. ASSUME Inv, Next PROVE Lifecycle!Next \/ UNCHANGED Lifecycle!vars
    BY <2>1, WorkImplements, JobStepImplements, ProcessStepImplements DEF Next, Lifecycle!vars
  <2>2. ASSUME UNCHANGED vars PROVE UNCHANGED Lifecycle!vars
    BY <2>2 DEF vars, disk, history, Lifecycle!vars
  <2> QED BY <2>1, <2>2
<1> QED BY <1>1, <1>2, Invariance, PTL DEF Spec, ImplementsLifecycle, Lifecycle!Spec

----------------------------------------------------------------------------
(* What is kept on disk for a job belongs together: the row, its audio,    *)
(* its transcripts and its dead-letter file.                               *)

\* The upload stores the audio before it inserts the row, and answers after.
AudioFirst == \A j \in Jobs : /\ req[j] \in {"saved", "created"} => j \in audio
                              /\ req[j] = "created" => status[j] # "none"

\* The running attempt is counted before its transcript is saved.
TranscriptInAttempt == \A w \in Workers :
  /\ wpc[w] = "running" => transVersion[wjob[w]] < attempts[wjob[w]]
  /\ wpc[w] = "saved" => transVersion[wjob[w]] >= 1

DataInv == AcceptedIsDurable /\ CompletedHasTranscript /\ DeadLetterIsTruthful
           /\ AudioFirst /\ TranscriptInAttempt

\* The strengthened data invariant holds where the service starts.
LEMMA DataInit == Init => DataInv
BY DEF Init, DataInv, AcceptedIsDurable, CompletedHasTranscript, DeadLetterIsTruthful,
   AudioFirst, TranscriptInAttempt

\* Every step of an upload preserves it.
LEMMA DataUpload ==
  ASSUME Inv, DataInv, NEW j \in Jobs, Upload(j)
  PROVE  DataInv'
<1>1. CASE SaveAudio(j) \/ UploadFails(j)
  <2>1. /\ audio \subseteq audio'
        /\ (req'[j] = "saved" /\ j \in audio') \/ req'[j] = "done"
        /\ \A i \in Jobs \ {j} : req'[i] = req[i]
        /\ UNCHANGED <<row, deadLetter, worker, history>>
    BY <1>1 DEF SaveAudio, UploadFails, disk, row, Inv, TypeOK
  <2> QED BY <2>1 DEF DataInv, AcceptedIsDurable, CompletedHasTranscript, DeadLetterIsTruthful,
     AudioFirst, TranscriptInAttempt, row, worker, history
<1>2. CASE RejectAudio(j)
  <2>1. /\ status[j] = "none"
        /\ audio' = audio \ {j}
        /\ req' = [req EXCEPT ![j] = "done"]
        /\ UNCHANGED <<row, deadLetter, worker, history>>
    BY <1>2 DEF RejectAudio, Inv, UploadInv
  <2>2. AcceptedIsDurable' /\ AudioFirst'
    BY <2>1 DEF DataInv, AcceptedIsDurable, AudioFirst, row, history, Inv, TypeOK
  <2> QED BY <2>1, <2>2 DEF DataInv, CompletedHasTranscript, DeadLetterIsTruthful,
     TranscriptInAttempt, row, worker, history
<1>3. CASE CreateJob(j) \/ ReadBackFails(j)
  <2>1. /\ j \in audio /\ status[j] = "none"
        /\ status' = [status EXCEPT ![j] = "queued"]
        /\ req'[j] \in {"created", "done"}
        /\ \A i \in Jobs \ {j} : req'[i] = req[i]
        /\ UNCHANGED <<transVersion, audio, deadLetter, wpc, wjob, attempts, acked>>
    BY <1>3 DEF CreateJob, ReadBackFails, create_job, worker, history, Inv, TypeOK, UploadInv,
       DataInv, AudioFirst
  <2>2. AcceptedIsDurable' /\ AudioFirst'
    BY <2>1 DEF Inv, TypeOK, DataInv, AcceptedIsDurable, AudioFirst
  <2>3. CompletedHasTranscript' /\ DeadLetterIsTruthful' /\ TranscriptInAttempt'
    BY <2>1 DEF Inv, TypeOK, DataInv, CompletedHasTranscript, DeadLetterIsTruthful,
       TranscriptInAttempt
  <2> QED BY <2>2, <2>3 DEF DataInv
<1>4. CASE EnqueueJob(j)
  BY <1>4 DEF EnqueueJob, Inv, TypeOK, DataInv, AcceptedIsDurable, CompletedHasTranscript,
     DeadLetterIsTruthful, AudioFirst, TranscriptInAttempt, disk, row, worker
<1> QED BY <1>1, <1>2, <1>3, <1>4 DEF Upload

\* What Inv says of the job a worker holds.
LEMMA HeldJob ==
  ASSUME Inv, NEW w \in Workers, wpc[w] \notin {"idle", "stopped"}
  PROVE  /\ wjob[w] \in Jobs
         /\ transVersion[wjob[w]] \in Nat
         /\ attempts[wjob[w]] \in Nat
         /\ retryCount[wjob[w]] \in Nat
<1>1. wjob[w] \in Jobs
  BY DEF Inv, WorkerInv
<1> QED BY <1>1 DEF Inv, TypeOK

\* Every step of a worker preserves it.
LEMMA DataWork ==
  ASSUME Inv, DataInv, NEW w \in Workers, Work(w)
  PROVE  DataInv'
<1>1. /\ UNCHANGED <<audio, req, acked>>
      /\ \A j \in Jobs : status[j] # "none" <=> status'[j] # "none"
  <2>1. ASSUME Starts(w) \/ Retries(w) \/ Ends(w, "failed") \/ Ends(w, "completed") \/ Skips(w)
        PROVE  \A j \in Jobs : status[j] # "none" <=> status'[j] # "none"
    BY SMTT(30), <2>1 DEF Starts, Skips, Retries, Ends, Runs, Inv, TypeOK, WorkerInv
  <2>2. CASE Claim(w) \/ AttemptFails(w) \/ MarkCompleted(w) \/ MarkCompletedFails(w)
    BY <2>1, <2>2, ClaimEffect, AttemptFailsEffect, MarkCompletedEffect DEF Rest
  <2>3. CASE Dequeue(w) \/ SaveTranscript(w) \/ WriteDeadLetter(w) \/ WorkerLosesJob(w)
             \/ WorkerStops(w)
    BY <2>3 DEF Dequeue, SaveTranscript, WriteDeadLetter, WorkerLosesJob, WorkerStops, disk,
       row, history
  <2> QED BY <2>2, <2>3 DEF Work
<1>2. AcceptedIsDurable' /\ AudioFirst'
  BY <1>1 DEF DataInv, AcceptedIsDurable, AudioFirst, Inv, TypeOK
<1>3. ASSUME Dequeue(w) \/ WorkerLosesJob(w) \/ WorkerStops(w)
      PROVE  CompletedHasTranscript' /\ DeadLetterIsTruthful' /\ TranscriptInAttempt'
  <2>1. /\ UNCHANGED <<disk, attempts>>
        /\ \A v \in Workers : wpc'[v] \in {"running", "saved"} =>
             wpc'[v] = wpc[v] /\ wjob'[v] = wjob[v]
    BY SMTT(30), <1>3 DEF Dequeue, WorkerLosesJob, WorkerStops, Finish, history, Inv, TypeOK
  <2> QED BY <2>1 DEF disk, DataInv, CompletedHasTranscript, DeadLetterIsTruthful,
     TranscriptInAttempt
<1>4. ASSUME SaveTranscript(w)
      PROVE  CompletedHasTranscript' /\ DeadLetterIsTruthful' /\ TranscriptInAttempt'
  <2> DEFINE j == wjob[w]
  <2>a. transVersion[j] \in Nat /\ attempts[j] \in Nat /\ j \in Jobs
    BY <1>4, HeldJob DEF SaveTranscript
  <2>1. /\ j \in Jobs /\ status[j] = "processing"
        /\ transVersion[j] < attempts[j]
        /\ transVersion' = [transVersion EXCEPT ![j] = @ + 1]
        /\ wpc' = [wpc EXCEPT ![w] = "saved"]
        /\ wpc[w] = "running"
        /\ UNCHANGED <<status, deadLetter, wjob, attempts>>
    BY <1>4, <2>a DEF SaveTranscript, history, Inv, OneRunner, Runs, DataInv, TranscriptInAttempt
  <2> HIDE DEF j
  <2>2. CompletedHasTranscript' /\ DeadLetterIsTruthful'
    BY SMTT(30), <2>a, <2>1 DEF Inv, TypeOK, DataInv, CompletedHasTranscript, DeadLetterIsTruthful
  <2>3. ASSUME NEW v \in Workers, v # w, Runs(v)
        PROVE  wjob[v] # j /\ wjob[v] \in Jobs
    BY <2>1, <2>3 DEF j, Runs, Inv, OneRunner, WorkerInv
  <2>4. TranscriptInAttempt'
    BY SMTT(30), <2>a, <2>1, <2>3 DEF j, Runs, Inv, TypeOK, DataInv, TranscriptInAttempt
  <2> QED BY <2>2, <2>4
<1>5. ASSUME WriteDeadLetter(w)
      PROVE  CompletedHasTranscript' /\ DeadLetterIsTruthful' /\ TranscriptInAttempt'
  <2> DEFINE j == wjob[w]
  <2>a. j \in Jobs /\ retryCount[j] \in Nat /\ wpc[w] = "deadletter"
    BY <1>5, HeldJob DEF WriteDeadLetter
  <2>1. /\ j \in Jobs /\ status[j] = "failed" /\ wretry[w] = retryCount[j]
        /\ attempts[j] = retryCount[j] + 1
    BY <2>a DEF Inv, WorkerInv, AttemptsAccounted, Started
  <2>2. /\ deadLetter' = [deadLetter EXCEPT ![j] = attempts[j]] \/ deadLetter' = deadLetter
        /\ UNCHANGED <<status, transVersion, attempts>>
        /\ \A v \in Workers : wpc'[v] \in {"running", "saved"} =>
             wpc'[v] = wpc[v] /\ wjob'[v] = wjob[v]
    BY <1>5, <2>1 DEF WriteDeadLetter, write_dead_letter, Finish, row, history, Inv, TypeOK
  <2> QED BY SMTT(30), <2>1, <2>2 DEF Inv, TypeOK, DataInv, CompletedHasTranscript, DeadLetterIsTruthful,
     TranscriptInAttempt
<1>6. ASSUME Starts(w), UNCHANGED Rest
      PROVE  CompletedHasTranscript' /\ DeadLetterIsTruthful' /\ TranscriptInAttempt'
  <2> DEFINE j == wjob[w]
  <2>a. transVersion[j] \in Nat /\ attempts[j] \in Nat /\ j \in Jobs
    BY <1>6, HeldJob DEF Starts
  <2>1. /\ status[j] \in {"queued", "retrying"}
        /\ transVersion[j] <= attempts[j]
        /\ status' = [status EXCEPT ![j] = "processing"]
        /\ attempts' = [attempts EXCEPT ![j] = @ + 1]
        /\ wpc' = [wpc EXCEPT ![w] = "running"]
        /\ UNCHANGED <<transVersion, deadLetter, wjob>>
    BY <1>6, <2>a DEF Starts, Puts, Rest, DataInv, CompletedHasTranscript
  <2> HIDE DEF j
  <2>2. CompletedHasTranscript' /\ DeadLetterIsTruthful'
    BY <2>a, <2>1 DEF Inv, TypeOK, DataInv, CompletedHasTranscript, DeadLetterIsTruthful
  <2>3. ASSUME NEW v \in Workers, v # w, Runs(v)
        PROVE  wjob[v] # j /\ wjob[v] \in Jobs
    BY <2>1, <2>3 DEF Runs, Inv, OneRunner, WorkerInv
  <2>4. TranscriptInAttempt'
    BY <2>a, <2>1, <2>3 DEF j, Runs, Inv, TypeOK, DataInv, TranscriptInAttempt
  <2> QED BY <2>2, <2>4
<1>7. ASSUME Skips(w) \/ Retries(w) \/ Ends(w, "failed")
             \/ (wpc[w] = "saved" /\ Ends(w, "completed")),
             UNCHANGED Rest
      PROVE  CompletedHasTranscript' /\ DeadLetterIsTruthful' /\ TranscriptInAttempt'
  <2>1. /\ UNCHANGED <<transVersion, deadLetter, attempts>>
        /\ \A v \in Workers : wpc'[v] \in {"running", "saved"} =>
             wpc'[v] = wpc[v] /\ wjob'[v] = wjob[v]
    <3>1. CASE Leaves(w) /\ UNCHANGED attempts
      BY <1>7, <3>1 DEF Leaves, Rest, Inv, TypeOK
    <3>2. CASE Puts(w, "deadletter") /\ UNCHANGED attempts
      BY <1>7, <3>2 DEF Puts, Rest, Inv, TypeOK
    <3> QED BY <1>7, <3>1, <3>2 DEF Skips, Retries, Ends
  <2>2. \A j \in Jobs : /\ status'[j] = "completed" => transVersion[j] >= 1
                        /\ status[j] = "failed" => status'[j] = "failed"
    BY <1>7 DEF Skips, Retries, Ends, Runs, Inv, TypeOK, WorkerInv, DataInv,
       CompletedHasTranscript, TranscriptInAttempt
  <2> QED BY <2>1, <2>2 DEF Inv, TypeOK, DataInv, CompletedHasTranscript, DeadLetterIsTruthful,
     TranscriptInAttempt
<1>8. CASE Claim(w)
  BY <1>2, <1>6, <1>7, <1>8, ClaimEffect DEF DataInv
<1>9. CASE AttemptFails(w) \/ MarkCompleted(w) \/ MarkCompletedFails(w)
  BY <1>2, <1>7, <1>9, AttemptFailsEffect, MarkCompletedEffect DEF DataInv
<1> QED BY <1>2, <1>3, <1>4, <1>5, <1>8, <1>9 DEF Work, DataInv

\* Queue, recovery and process preserve it.
LEMMA DataOthers ==
  ASSUME Inv, DataInv, (\E j \in Jobs : Deliver(j) \/ Recover(j)) \/ Process \/ UNCHANGED vars
  PROVE  DataInv'
<1>1. ASSUME UNCHANGED <<status, transVersion, deadLetter, audio, attempts, acked>>,
             \A j \in Jobs : req'[j] \in {"saved", "created"} => req'[j] = req[j],
             \A w \in Workers : wpc'[w] \in {"running", "saved"} =>
               wpc'[w] = wpc[w] /\ wjob'[w] = wjob[w]
      PROVE  DataInv'
  BY <1>1 DEF DataInv, AcceptedIsDurable, CompletedHasTranscript, DeadLetterIsTruthful,
     AudioFirst, TranscriptInAttempt
<1>2. CASE UNCHANGED vars
  BY <1>1, <1>2 DEF vars, disk, worker, history
<1>3. ASSUME NEW j \in Jobs, Deliver(j) PROVE DataInv'
  BY <1>1, <1>3 DEF Deliver, TimerFires, Redeliver, disk, worker, history
<1>4. CASE Process
  <2>1. CASE LoseMemory
    BY <1>1, <2>1 DEF LoseMemory, disk
  <2>2. CASE UNCHANGED <<disk, req, worker, history>>
    BY <1>1, <2>2 DEF disk, worker, history
  <2> QED BY <1>4, <2>1, <2>2 DEF Process, StartProcess, RecoveryFails, ServiceUp, BeginShutdown,
     ExitProcess, Crash
<1>5. ASSUME NEW j \in Jobs, Recover(j) PROVE DataInv'
  <2>1. /\ UNCHANGED <<transVersion, audio, req, wpc, wjob, attempts, acked>>
        /\ \A w \in Workers : wpc[w] = "idle"
        /\ status[j] # "none"
    BY <1>5 DEF Recover, RecoverRequeue, RecoverFail, RecoverDeadLetter, OldestFirst, worker,
       history, row, Inv, WorkerInv, BootInv, Unfinished
  <2>2. CASE RecoverRequeue(j) \/ RecoverFail(j)
    <3>1. /\ deadLetter' = deadLetter
          /\ \/ status' = status
             \/ status[j] = "processing" /\ status' = [status EXCEPT ![j] = "retrying"]
             \/ status[j] = "processing" /\ status' = [status EXCEPT ![j] = "failed"]
      BY <2>2 DEF RecoverRequeue, RecoverFail, mark_retrying, mark_failed, _transition
    <3> QED BY SMTT(30), <2>1, <3>1 DEF Inv, TypeOK, DataInv, AcceptedIsDurable, CompletedHasTranscript,
       DeadLetterIsTruthful, AudioFirst, TranscriptInAttempt
  <2>3. CASE RecoverDeadLetter(j)
    <3>1. /\ status[j] = "failed" /\ UNCHANGED status
          /\ deadLetter' = [deadLetter EXCEPT ![j] = retryCount[j] + 1] \/ deadLetter' = deadLetter
      BY <2>3 DEF RecoverDeadLetter, write_dead_letter, row
    <3>2. attempts[j] = retryCount[j] + 1
      BY <3>1 DEF Inv, AttemptsAccounted, Started
    <3> QED BY SMTT(30), <2>1, <3>1, <3>2 DEF Inv, TypeOK, DataInv, AcceptedIsDurable,
       CompletedHasTranscript, DeadLetterIsTruthful, AudioFirst, TranscriptInAttempt
  <2> QED BY <1>5, <2>2, <2>3 DEF Recover
<1> QED BY <1>2, <1>3, <1>4, <1>5

\* It holds in every reachable state.
LEMMA DataInvariance == Spec => []DataInv
<1>1. Inv /\ DataInv /\ [Next]_vars => DataInv'
  BY DataUpload, DataWork, DataOthers DEF Next
<1> QED BY <1>1, DataInit, Invariance, PTL DEF Spec

\* A 202 names a row that stays, and every row has its audio (routes.py:65-92).
THEOREM AcceptedAlwaysDurable == Spec => []AcceptedIsDurable
<1>1. DataInv => AcceptedIsDurable
  BY DEF DataInv
<1> QED BY <1>1, DataInvariance, PTL

\* completed is only ever written over a saved transcript (worker.py:98-99).
THEOREM CompletedAlwaysServed == Spec => []CompletedHasTranscript
<1>1. DataInv => CompletedHasTranscript
  BY DEF DataInv
<1> QED BY <1>1, DataInvariance, PTL

\* A dead-letter file tells the truth about its job for ever after
\* (worker.py:139-140, main.py:36-45).
THEOREM DeadLetterAlwaysTruthful == Spec => []DeadLetterIsTruthful
<1>1. DataInv => DeadLetterIsTruthful
  BY DEF DataInv
<1> QED BY <1>1, DataInvariance, PTL
----------------------------------------------------------------------------
(* Dead letters, where no write is refused and the process does not die.   *)

\* A failed job has its file, or someone is between the two writes: its worker, or
\* recovery, which visits a job until the file is written.
FailedInv == \A j \in Jobs : status[j] = "failed" =>
  \/ deadLetter[j] # 0
  \/ \E w \in Workers : wpc[w] = "deadletter" /\ wjob[w] = j
  \/ phase = "booting" /\ j \in boot

\* A step keeps this that fails no job, removes no file and ends none of the two writes.
LEMMA FailedKept ==
  ASSUME FailedInv, UNCHANGED deadLetter,
         \A j \in Jobs : status'[j] = "failed" => status[j] = "failed",
         \A w \in Workers : wpc[w] = "deadletter" => wpc'[w] = "deadletter" /\ wjob'[w] = wjob[w],
         \A j \in boot : (phase = "booting" /\ status[j] = "failed") =>
                           phase' = "booting" /\ j \in boot'
  PROVE  FailedInv'
BY DEF FailedInv

\* A worker's step keeps it: a job fails when its worker goes on to write the file, and that
\* worker leaves when the file is there (worker.py:138-140).
LEMMA FailedWork ==
  ASSUME Inv, FailedInv, ~Faults, NEW w \in Workers, Work(w) PROVE FailedInv'
<1>1. CASE Dequeue(w) \/ SaveTranscript(w) \/ WorkerStops(w)
  <2>1. /\ UNCHANGED <<status, deadLetter, phase, boot>>
        /\ \A v \in Workers : wpc[v] = "deadletter" => wpc'[v] = "deadletter" /\ wjob'[v] = wjob[v]
    BY <1>1 DEF Dequeue, SaveTranscript, WorkerStops, disk, row, Inv, TypeOK
  <2> QED BY <2>1, FailedKept
<1>2. ASSUME Starts(w) \/ Skips(w) \/ Retries(w) \/ Ends(w, "completed"), UNCHANGED Rest
      PROVE  FailedInv'
  <2>1. UNCHANGED <<deadLetter, phase, boot>> BY <1>2 DEF Rest
  <2>2. \A j \in Jobs : status'[j] = "failed" => status[j] = "failed"
    BY <1>2 DEF Starts, Skips, Retries, Ends, Inv, TypeOK
  <2>3. \A v \in Workers : wpc[v] = "deadletter" => wpc'[v] = "deadletter" /\ wjob'[v] = wjob[v]
    BY <1>2 DEF Starts, Skips, Retries, Ends, Puts, Leaves, Runs, Inv, TypeOK
  <2> QED BY <2>1, <2>2, <2>3, FailedKept
<1>3. ASSUME Ends(w, "failed"), UNCHANGED Rest PROVE FailedInv'
  <2>1. /\ UNCHANGED <<deadLetter, phase, boot>> /\ Runs(w)
        /\ status' = [status EXCEPT ![wjob[w]] = "failed"]
        /\ wpc' = [wpc EXCEPT ![w] = "deadletter"] /\ wjob' = wjob
    BY <1>3 DEF Rest, Ends, Puts
  <2> SUFFICES ASSUME NEW j \in Jobs, status'[j] = "failed"
               PROVE  \/ deadLetter[j] # 0
                      \/ \E v \in Workers : wpc'[v] = "deadletter" /\ wjob[v] = j
                      \/ phase = "booting" /\ j \in boot
    BY <2>1 DEF FailedInv
  <2>2. wpc'[w] = "deadletter" /\ \A v \in Workers : wpc[v] = "deadletter" => wpc'[v] = "deadletter"
    BY <2>1 DEF Inv, TypeOK
  <2>3. CASE j = wjob[w] BY <2>2, <2>3
  <2>4. CASE j # wjob[w]
    <3>1. status[j] = "failed" BY <2>1, <2>4 DEF Inv, TypeOK
    <3> QED BY <2>2, <3>1 DEF FailedInv
  <2> QED BY <2>3, <2>4
<1>4. CASE Claim(w) BY <1>2, <1>4, ClaimEffect
<1>5. CASE AttemptFails(w) \/ MarkCompleted(w) \/ MarkCompletedFails(w)
  BY <1>2, <1>3, <1>5, AttemptFailsEffect, MarkCompletedEffect
<1>6. CASE WriteDeadLetter(w)
  <2> DEFINE j == wjob[w]  n == wretry[w] + 1
  <2>1. /\ wpc[w] = "deadletter" /\ deadLetter' = [deadLetter EXCEPT ![j] = n]
        /\ Leaves(w) /\ UNCHANGED <<status, phase, boot>>
    BY <1>6 DEF WriteDeadLetter, write_dead_letter, Finish, Leaves, row
  <2>2. j \in Jobs /\ n # 0
    <3>1. wretry[w] \in 0..MaxRetries /\ j \in Jobs BY <2>1 DEF Inv, TypeOK, WorkerInv
    <3> QED BY <3>1, ConstantsAssumption
  <2> HIDE DEF n
  <2> SUFFICES ASSUME NEW k \in Jobs, status[k] = "failed"
               PROVE  \/ deadLetter'[k] # 0
                      \/ \E v \in Workers : wpc'[v] = "deadletter" /\ wjob'[v] = k
                      \/ phase = "booting" /\ k \in boot
    BY <2>1 DEF FailedInv
  <2>3. CASE k = j BY <2>1, <2>2, <2>3 DEF Inv, TypeOK
  <2>4. CASE k # j
    <3>1. deadLetter'[k] = deadLetter[k] BY <2>1, <2>4 DEF Inv, TypeOK
    <3>2. \A v \in Workers : (wpc[v] = "deadletter" /\ wjob[v] = k) =>
            wpc'[v] = "deadletter" /\ wjob'[v] = k
      BY <2>1, <2>4 DEF Leaves, Inv, TypeOK
    <3> QED BY <3>1, <3>2 DEF FailedInv
  <2> QED BY <2>3, <2>4
<1>7. ~WorkerLosesJob(w) BY DEF WorkerLosesJob
<1> QED BY <1>1, <1>4, <1>5, <1>6, <1>7 DEF Work

\* Uploads, queue, recovery and process keep it (main.py:33-51).
LEMMA FailedOthers ==
  ASSUME Inv, FailedInv, ~Faults, ~Crashes,
         (\E j \in Jobs : Upload(j) \/ Deliver(j) \/ Recover(j)) \/ Process \/ UNCHANGED vars
  PROVE  FailedInv'
<1>1. ASSUME NEW j \in Jobs, Upload(j) PROVE FailedInv'
  <2>1. UNCHANGED <<deadLetter, phase, boot, worker>>
    BY <1>1 DEF Upload, SaveAudio, RejectAudio, CreateJob, EnqueueJob, UploadFails, ReadBackFails, disk
  <2>2. UNCHANGED status \/ status' = [status EXCEPT ![j] = "queued"]
    BY <1>1 DEF Upload, SaveAudio, RejectAudio, CreateJob, EnqueueJob, UploadFails, ReadBackFails,
       create_job, disk, row
  <2>3. \A k \in Jobs : status'[k] = "failed" => status[k] = "failed"
    BY <2>2 DEF Inv, TypeOK
  <2> QED BY <2>1, <2>3, FailedKept DEF worker
<1>2. ASSUME NEW j \in Jobs, Deliver(j) PROVE FailedInv'
  BY <1>2, FailedKept DEF Deliver, TimerFires, Redeliver, disk, row, worker
<1>3. ASSUME NEW j \in Jobs, RecoverRequeue(j) PROVE FailedInv'
  <2>1. /\ UNCHANGED <<deadLetter, phase, worker>> /\ boot' = boot \ {j} /\ status[j] # "failed"
        /\ UNCHANGED status \/ status' = [status EXCEPT ![j] = "retrying"]
    BY <1>3 DEF RecoverRequeue, mark_retrying, _transition
  <2>2. \A k \in Jobs : status'[k] = "failed" => status[k] = "failed"
    BY <2>1 DEF Inv, TypeOK
  <2> QED BY <2>1, <2>2, FailedKept DEF worker, Inv, BootInv
<1>4. ASSUME NEW j \in Jobs, RecoverFail(j) PROVE FailedInv'
  <2>1. /\ UNCHANGED <<deadLetter, phase, boot, worker>> /\ phase = "booting" /\ j \in boot
        /\ status' = [status EXCEPT ![j] = "failed"]
    BY <1>4 DEF RecoverFail, OldestFirst, mark_failed, _transition
  <2>2. \A k \in Jobs \ {j} : status'[k] = status[k] BY <2>1 DEF Inv, TypeOK
  <2> QED BY <2>1, <2>2 DEF FailedInv, worker
<1>5. ASSUME NEW j \in Jobs, RecoverDeadLetter(j) PROVE FailedInv'
  <2> DEFINE n == retryCount[j] + 1
  <2>1. /\ deadLetter' = [deadLetter EXCEPT ![j] = n] /\ boot' = boot \ {j}
        /\ UNCHANGED <<status, phase, worker>>
    BY <1>5 DEF RecoverDeadLetter, write_dead_letter, row
  <2>2. n # 0
    <3>1. retryCount[j] \in 0..MaxRetries BY DEF Inv, TypeOK
    <3> QED BY <3>1, ConstantsAssumption
  <2> HIDE DEF n
  <2>3. deadLetter'[j] # 0 /\ \A k \in Jobs \ {j} : deadLetter'[k] = deadLetter[k]
    BY <2>1, <2>2 DEF Inv, TypeOK
  <2> QED BY <2>1, <2>3 DEF FailedInv, worker
<1>6. CASE Process
  <2>1. CASE StartProcess
    BY <2>1, FailedKept DEF StartProcess, disk, row, worker
  <2>2. CASE ServiceUp \/ BeginShutdown
    <3>1. /\ UNCHANGED <<disk, boot, worker>>
          /\ phase = "booting" => boot = {}
      BY <2>2 DEF ServiceUp, BeginShutdown
    <3> QED BY <3>1, FailedKept DEF disk, row, worker
  <2>3. CASE ExitProcess
    <3>1. UNCHANGED disk /\ phase # "booting" /\ \A w \in Workers : wpc[w] # "deadletter"
      BY <2>3 DEF ExitProcess, LoseMemory, LoopFree, Held
    <3> QED BY <3>1, FailedKept DEF disk, row
  <2>4. ~RecoveryFails /\ ~Crash BY DEF RecoveryFails, Crash
  <2> QED BY <1>6, <2>1, <2>2, <2>3, <2>4 DEF Process
<1>7. CASE UNCHANGED vars
  BY <1>7, FailedKept DEF vars, disk, row, worker
<1> QED BY <1>1, <1>2, <1>3, <1>4, <1>5, <1>6, <1>7 DEF Recover

\* Where no write is refused and the process does not die, every failed job has its
\* dead-letter file once its worker has let go of it, over any number of repeated deliveries
\* and orderly restarts.  A crash between the two writes breaks it (run service_crash), and so
\* does a refused dead-letter write, which is only logged (worker.py:138-181).
THEOREM FailedAlwaysDeadLettered ==
  ASSUME ~Faults, ~Crashes PROVE Spec => []FailedIsDeadLettered
<1>1. Init => FailedInv BY DEF Init, FailedInv
<1>2. Inv /\ FailedInv /\ [Next]_vars => FailedInv'
  BY FailedWork, FailedOthers DEF Next
<1>3. Inv /\ FailedInv => FailedIsDeadLettered
  BY DEF FailedInv, FailedIsDeadLettered, Owned
<1> QED BY <1>1, <1>2, <1>3, Invariance, PTL DEF Spec

----------------------------------------------------------------------------
(* No accepted job drops out of memory unnoticed while the service is up,  *)
(* and none is on its way twice; a finished one is never touched again,    *)
(* and recovery queues jobs in the order of their rows.                    *)

\* Where an unfinished job must be, by what its row says.
Waits(j) == \/ Queued(j) \/ timers[j] > 0 \/ req[j] = "created"
            \/ \E w \in Workers : wpc[w] = "dequeued" /\ wjob[w] = j
IsRun(j) == \E w \in Workers : Runs(w) /\ wjob[w] = j
Tracked(j) == \/ j \in boot \/ j \in stranded
              \/ status[j] = "processing" /\ IsRun(j)
              \/ status[j] \in {"queued", "retrying"} /\ Waits(j)
DeliveryInv == phase \in {"booting", "up", "stopping"} =>
                 \A j \in Jobs : status[j] \in Unfinished => Tracked(j)

\* The inductive form of the delivery property gives the property.
LEMMA DeliveryImpliesNoJobLost == Inv /\ DeliveryInv => NoJobLost
BY DEF Inv, WorkerInv, DeliveryInv, NoJobLost, Tracked, Waits, IsRun, Runs, Owned

\* What is queued after an Append (asyncio.Queue.put).
LEMMA QueuedAppend ==
  ASSUME TypeOK, NEW i \in Jobs, queue' = Append(queue, i)
  PROVE  Queued(i)' /\ \A j \in Jobs : Queued(j) => Queued(j)'
<1>1. /\ queue \in Seq(Jobs)
      /\ Len(queue') = Len(queue) + 1 /\ DOMAIN queue' = 1..Len(queue')
      /\ DOMAIN queue = 1..Len(queue) /\ Len(queue) \in Nat
      /\ queue'[Len(queue) + 1] = i
      /\ \A k \in 1..Len(queue) : queue'[k] = queue[k]
  BY AppendProperties DEF TypeOK
<1> QED BY <1>1 DEF Queued

\* What is queued after the head has been taken (asyncio.Queue.get).
LEMMA QueuedTail ==
  ASSUME TypeOK, queue # <<>>, queue' = Tail(queue)
  PROVE  \A j \in Jobs : Queued(j) => Queued(j)' \/ j = Head(queue)
<1>1. /\ queue \in Seq(Jobs) /\ Len(queue) \in Nat
      /\ Len(queue') = Len(queue) - 1 /\ DOMAIN queue' = 1..Len(queue')
      /\ DOMAIN queue = 1..Len(queue) /\ Head(queue) = queue[1]
      /\ \A k \in 1..Len(queue') : queue'[k] = queue[k + 1]
  BY HeadTailProperties DEF TypeOK
<1>2. ASSUME NEW j \in Jobs, Queued(j), j # Head(queue)
      PROVE  Queued(j)'
  <2>1. PICK k \in 1..Len(queue) : queue[k] = j
    BY <1>1, <1>2 DEF Queued
  <2>2. k - 1 \in 1..Len(queue') /\ queue'[k - 1] = j
    BY <1>1, <1>2, <2>1
  <2> QED BY <1>1, <2>2 DEF Queued
<1> QED BY <1>2

\* A step of a worker loses no job.
LEMMA DeliveryWork ==
  ASSUME Inv, DeliveryInv, NEW w \in Workers, Work(w)
  PROVE  DeliveryInv'
<1> SUFFICES ASSUME phase' \in {"booting", "up", "stopping"}, NEW j \in Jobs,
                    status'[j] \in Unfinished
             PROVE  Tracked(j)'
  BY DEF DeliveryInv
<1>1. UNCHANGED <<phase, boot, req>> /\ stranded \subseteq stranded'
  BY ClaimEffect, AttemptFailsEffect, MarkCompletedEffect DEF Work, Rest, Dequeue, SaveTranscript,
     WriteDeadLetter, WorkerLosesJob, WorkerStops, history
<1>2. ASSUME Starts(w) \/ Skips(w) \/ Retries(w) \/ Ends(w, "failed") \/ Ends(w, "completed")
      PROVE  Tracked(j)'
  <2>1. CASE wjob[w] = j /\ Starts(w)
    <3>1. status'[j] = "processing" /\ Runs(w)' /\ wjob'[w] = j
      BY <2>1 DEF Starts, Puts, Runs, Inv, TypeOK
    <3> QED BY <3>1 DEF Tracked, IsRun
  <2>2. CASE wjob[w] = j /\ Retries(w)
    <3>1. status'[j] = "retrying"
      BY <2>2 DEF Retries, Inv, TypeOK
    <3>2. CASE RetryDelay = 0
      BY <2>2, <3>1, <3>2, QueuedAppend DEF Retries, enqueue_after, enqueue, Inv, Tracked, Waits
    <3>3. CASE RetryDelay # 0
      <4>1. timers'[j] = timers[j] + 1 /\ timers[j] \in Nat
        BY <2>2, <3>3 DEF Retries, enqueue_after, Inv, TypeOK
      <4>2. timers'[j] > 0
        BY <4>1
      <4> QED BY <3>1, <4>2 DEF Tracked, Waits
    <3> QED BY <3>2, <3>3
  <2>3. CASE wjob[w] = j /\ (Ends(w, "failed") \/ Ends(w, "completed"))
    BY <2>3 DEF Ends, Unfinished, Inv, TypeOK
  <2>4. CASE (wjob[w] # j /\ ~Skips(w)) \/ Skips(w)
    <3>1. status'[j] = status[j]
      BY <1>2, <2>4 DEF Starts, Skips, Retries, Ends, Inv, TypeOK
    <3>2. Tracked(j)
      BY <1>1, <3>1 DEF DeliveryInv
    <3>3. \A v \in Workers \ {w} : wpc'[v] = wpc[v] /\ wjob'[v] = wjob[v]
      BY <1>2 DEF Starts, Skips, Retries, Ends, Puts, Leaves, Inv, TypeOK
    <3>4. IsRun(j) => IsRun(j)'
      BY <1>2, <2>4, <3>3 DEF IsRun, Runs, Skips
    <3>5. Queued(j) => Queued(j)'
      <4>1. CASE queue' = queue
        BY <4>1 DEF Queued
      <4>2. CASE queue' = Append(queue, wjob[w]) /\ Runs(w)
        BY <4>2, QueuedAppend DEF Inv, WorkerInv, Runs
      <4> QED BY <1>2, <4>1, <4>2 DEF Starts, Skips, Retries, Ends, enqueue_after, enqueue
    <3>6. timers[j] > 0 => timers'[j] > 0
      <4>1. timers' = timers \/ timers' = [timers EXCEPT ![wjob[w]] = @ + 1]
        BY <1>2 DEF Starts, Skips, Retries, Ends, enqueue_after, enqueue
      <4>2. timers \in [Jobs -> Nat]
        BY DEF Inv, TypeOK
      <4> QED BY <4>1, <4>2
    <3>7. CASE \E v \in Workers \ {w} : wpc[v] = "dequeued" /\ wjob[v] = j
      BY <3>1, <3>3, <3>7, <1>1, <3>2, <3>4 DEF Tracked, Waits
    <3>8. CASE wpc[w] = "dequeued" /\ wjob[w] = j
      <4>1. status[j] \notin {"queued", "retrying"}
        BY <2>4, <3>8 DEF Skips
      <4> QED BY <1>1, <3>1, <3>2, <3>4, <4>1 DEF Tracked
    <3> QED BY <1>1, <3>1, <3>2, <3>4, <3>5, <3>6, <3>7, <3>8 DEF Tracked, Waits
  <2> QED BY <1>2, <2>1, <2>2, <2>3, <2>4
<1>3. CASE Claim(w) \/ AttemptFails(w) \/ MarkCompleted(w) \/ MarkCompletedFails(w)
  BY <1>2, <1>3, ClaimEffect, AttemptFailsEffect, MarkCompletedEffect
<1>4. CASE Dequeue(w)
  <2>1. /\ queue # <<>> /\ queue' = Tail(queue) /\ status' = status /\ timers' = timers
        /\ wpc[w] = "idle" /\ wpc'[w] = "dequeued" /\ wjob'[w] = Head(queue)
        /\ \A v \in Workers \ {w} : wpc'[v] = wpc[v] /\ wjob'[v] = wjob[v]
    BY <1>4 DEF Dequeue, disk, Inv, TypeOK
  <2>2. Queued(j) => Queued(j)' \/ wjob'[w] = j
    BY <2>1, QueuedTail DEF Inv
  <2>3. IsRun(j) => IsRun(j)'
    BY <2>1 DEF IsRun, Runs
  <2>4. Waits(j) => Waits(j)'
    BY <1>1, <2>1, <2>2 DEF Waits
  <2> QED BY <1>1, <2>1, <2>3, <2>4 DEF DeliveryInv, Tracked
<1>5. CASE WorkerLosesJob(w)
  <2>1. /\ UNCHANGED <<status, queue, timers>> /\ stranded' = stranded \cup {wjob[w]}
        /\ \A v \in Workers \ {w} : wpc'[v] = wpc[v] /\ wjob'[v] = wjob[v]
    BY <1>5 DEF WorkerLosesJob, Finish, disk, delivery, Inv, TypeOK
  <2> QED BY <1>1, <2>1 DEF DeliveryInv, Tracked, Waits, IsRun, Runs, Queued
<1>6. CASE SaveTranscript(w) \/ WriteDeadLetter(w) \/ WorkerStops(w)
  <2>1. /\ UNCHANGED <<status, queue, timers>>
        /\ \A v \in Workers : Runs(v) => Runs(v)' /\ wjob'[v] = wjob[v]
        /\ \A v \in Workers : wpc[v] = "dequeued" => wpc'[v] = wpc[v] /\ wjob'[v] = wjob[v]
    BY <1>6 DEF SaveTranscript, WriteDeadLetter, WorkerStops, Finish, Runs, disk, row, delivery,
       Inv, TypeOK
  <2> QED BY <1>1, <2>1 DEF DeliveryInv, Tracked, Waits, IsRun, Queued
<1> QED BY <1>3, <1>4, <1>5, <1>6 DEF Work

\* A step of an upload or of the queue loses no job.
LEMMA DeliveryUpload ==
  ASSUME Inv, DeliveryInv, NEW i \in Jobs, Upload(i) \/ Deliver(i)
  PROVE  DeliveryInv'
<1> SUFFICES ASSUME phase' \in {"booting", "up", "stopping"}, NEW j \in Jobs,
                    status'[j] \in Unfinished
             PROVE  Tracked(j)'
  BY DEF DeliveryInv
<1>1. UNCHANGED <<phase, boot, wpc, wjob>>
  BY DEF Upload, Deliver, SaveAudio, RejectAudio, CreateJob, EnqueueJob, UploadFails,
     ReadBackFails, TimerFires, Redeliver, worker
<1>2. IsRun(j)' = IsRun(j)
  BY <1>1 DEF IsRun, Runs
<1>3. CASE SaveAudio(i) \/ RejectAudio(i) \/ UploadFails(i)
  <2>1. /\ UNCHANGED <<status, queue, timers, stranded>>
        /\ req[j] = "created" => req'[j] = "created"
    BY <1>3 DEF SaveAudio, RejectAudio, UploadFails, disk, row, delivery, history, Inv, TypeOK
  <2> QED BY <1>1, <1>2, <2>1 DEF DeliveryInv, Tracked, Waits, Queued
<1>4. CASE CreateJob(i) \/ ReadBackFails(i)
  <2>1. /\ status' = [status EXCEPT ![i] = "queued"]
        /\ UNCHANGED <<queue, timers>>
        /\ stranded \subseteq stranded'
        /\ req'[i] = "created" \/ i \in stranded'
        /\ \A k \in Jobs \ {i} : req'[k] = req[k]
    BY <1>4 DEF CreateJob, ReadBackFails, create_job, delivery, history, Inv, TypeOK
  <2>2. CASE j = i
    BY <2>1, <2>2 DEF Inv, TypeOK, Tracked, Waits
  <2>3. CASE j # i
    <3>1. /\ status'[j] = status[j] /\ req'[j] = req[j]
          /\ Queued(j)' = Queued(j) /\ timers'[j] = timers[j]
      BY <2>1, <2>3 DEF Inv, TypeOK, Queued
    <3>2. Tracked(j)
      BY <1>1, <3>1 DEF DeliveryInv
    <3> QED BY <1>1, <1>2, <2>1, <3>1, <3>2 DEF Tracked, Waits
  <2> QED BY <2>2, <2>3
<1>5. CASE EnqueueJob(i) \/ TimerFires(i) \/ Redeliver(i)
  <2>1. /\ queue' = Append(queue, i)
        /\ UNCHANGED <<status, stranded>>
        /\ j # i => req'[j] = req[j] /\ timers'[j] = timers[j]
    BY <1>5 DEF EnqueueJob, enqueue, TimerFires, Redeliver, disk, row, history, Inv, TypeOK
  <2>2. Queued(i)' /\ (Queued(j) => Queued(j)')
    BY <2>1, QueuedAppend DEF Inv
  <2> QED BY <1>1, <1>2, <2>1, <2>2 DEF DeliveryInv, Tracked, Waits
<1> QED BY <1>3, <1>4, <1>5 DEF Upload, Deliver

\* A step of recovery or of the process loses no job.
LEMMA DeliveryProcess ==
  ASSUME Inv, DeliveryInv, (\E i \in Jobs : Recover(i)) \/ Process \/ UNCHANGED vars
  PROVE  DeliveryInv'
<1>1. ASSUME phase' \notin {"booting", "up", "stopping"} PROVE DeliveryInv'
  BY <1>1 DEF DeliveryInv
<1>2. CASE StartProcess
  BY <1>2 DEF StartProcess, DeliveryInv, Tracked, disk, row
<1>3. ASSUME phase \in {"booting", "up", "stopping"},
             UNCHANGED <<disk, boot, delivery, req, worker, history>>
      PROVE  DeliveryInv'
  BY <1>3 DEF DeliveryInv, Tracked, Waits, Queued, IsRun, Runs, disk, row, delivery, worker, history
<1>4. CASE Process
  BY <1>1, <1>2, <1>3, <1>4 DEF Process, RecoveryFails, ServiceUp, BeginShutdown, ExitProcess,
     Crash, LoseMemory
<1>5. CASE UNCHANGED vars
  BY <1>1, <1>3, <1>5 DEF vars, DeliveryInv
<1>6. ASSUME NEW i \in Jobs, Recover(i) PROVE DeliveryInv'
  <2>1. /\ phase = "booting" /\ UNCHANGED <<phase, timers, req, wpc, wjob, stranded>>
    BY <1>6 DEF Recover, RecoverRequeue, RecoverFail, RecoverDeadLetter, OldestFirst, enqueue,
       delivery, worker, history
  <2> SUFFICES ASSUME NEW j \in Jobs, status'[j] \in Unfinished
               PROVE  Tracked(j)'
    BY DEF DeliveryInv
  <2>2. IsRun(j)' = IsRun(j)
    BY <2>1 DEF IsRun, Runs
  <2>3. CASE j # i
    <3>1. /\ status'[j] = status[j] /\ (j \in boot => j \in boot')
          /\ queue' = queue \/ queue' = Append(queue, i)
      BY <1>6, <2>3 DEF Recover, RecoverRequeue, RecoverFail, RecoverDeadLetter, enqueue, row,
         delivery, mark_retrying, mark_failed, _transition, Inv, TypeOK
    <3>2. Queued(j) => Queued(j)'
      BY <3>1, QueuedAppend DEF Inv, Queued
    <3> QED BY <2>1, <2>2, <3>1, <3>2 DEF DeliveryInv, Tracked, Waits
  <2>4. CASE j = i /\ RecoverRequeue(i)
    <3>1. Queued(i)' /\ status'[i] \in {"queued", "retrying"}
      BY <2>4, QueuedAppend DEF RecoverRequeue, enqueue, mark_retrying, _transition, Inv, TypeOK
    <3> QED BY <2>4, <3>1 DEF Tracked, Waits
  <2>5. CASE j = i /\ (RecoverFail(i) \/ RecoverDeadLetter(i))
    BY <2>5 DEF RecoverFail, RecoverDeadLetter, mark_failed, _transition, row, Unfinished, Inv, TypeOK
  <2> QED BY <1>6, <2>3, <2>4, <2>5 DEF Recover
<1> QED BY <1>4, <1>5, <1>6

\* While the service is up, every unfinished job is in the queue, on a timer, with
\* a worker or with its upload, unless a refused write stranded it
\* (queue.py:36-53, worker.py:50-150, main.py:30-52).
THEOREM NoJobEverLost == Spec => []NoJobLost
<1>1. Init => DeliveryInv
  BY DEF Init, DeliveryInv
<1>2. Inv /\ DeliveryInv /\ [Next]_vars => DeliveryInv'
  BY DeliveryWork, DeliveryUpload, DeliveryProcess DEF Next
<1> QED BY <1>1, <1>2, DeliveryImpliesNoJobLost, Invariance, PTL DEF Spec

----------------------------------------------------------------------------
\* A step of a worker touches no finished job.
LEMMA WorkKeepsFinished ==
  ASSUME Inv, NEW w \in Workers, Work(w), NEW j \in Jobs, status[j] \in Terminal
  PROVE  /\ status'[j] = status[j] /\ transVersion'[j] = transVersion[j]
         /\ retryCount'[j] = retryCount[j] /\ attempts'[j] = attempts[j]
<1>1. ASSUME Starts(w) \/ Skips(w) \/ Retries(w) \/ Ends(w, "failed") \/ Ends(w, "completed"),
             UNCHANGED Rest
      PROVE  /\ status'[j] = status[j] /\ transVersion'[j] = transVersion[j]
             /\ retryCount'[j] = retryCount[j] /\ attempts'[j] = attempts[j]
  BY SMTT(30), <1>1 DEF Starts, Skips, Retries, Ends, Rest, Terminal, Inv, TypeOK
<1>2. CASE Claim(w) \/ AttemptFails(w) \/ MarkCompleted(w) \/ MarkCompletedFails(w)
  BY <1>1, <1>2, ClaimEffect, AttemptFailsEffect, MarkCompletedEffect
<1>3. CASE SaveTranscript(w)
  <2>1. wjob[w] # j
    BY <1>3 DEF SaveTranscript, Runs, Terminal, Inv, OneRunner
  <2> QED BY <1>3, <2>1 DEF SaveTranscript, history, Inv, TypeOK
<1>4. CASE Dequeue(w) \/ WriteDeadLetter(w) \/ WorkerLosesJob(w) \/ WorkerStops(w)
  BY <1>4 DEF Dequeue, WriteDeadLetter, WorkerLosesJob, WorkerStops, disk, row, history
<1> QED BY <1>2, <1>3, <1>4 DEF Work

\* Nothing touches a finished job again, whatever is delivered late or twice and
\* however often the service restarts (database.py:224-246, 283-323).
THEOREM FinishedForEver == Spec => FinishedStaysFinished
<1> DEFINE Keeps(j) == /\ status'[j] = status[j] /\ transVersion'[j] = transVersion[j]
                       /\ retryCount'[j] = retryCount[j] /\ attempts'[j] = attempts[j]
<1>1. ASSUME Inv, [Next]_vars, NEW j \in Jobs, status[j] \in Terminal
      PROVE  Keeps(j)
  <2>1. ASSUME NEW i \in Jobs, Upload(i) \/ Deliver(i) \/ Recover(i)
        PROVE  Keeps(j)
    <3>1. CASE CreateJob(i) \/ ReadBackFails(i)
      <4>1. i # j
        BY <1>1, <3>1 DEF CreateJob, ReadBackFails, Inv, UploadInv, Terminal
      <4>2. status' = [status EXCEPT ![i] = "queued"] /\ UNCHANGED <<transVersion, retryCount, attempts>>
        BY <3>1 DEF CreateJob, ReadBackFails, create_job, history
      <4> QED BY <4>1, <4>2 DEF Inv, TypeOK
    <3>2. CASE RecoverRequeue(i) \/ RecoverFail(i)
      BY <1>1, <3>2 DEF RecoverRequeue, RecoverFail, mark_retrying, mark_failed, _transition,
         history, Terminal, Inv, TypeOK
    <3>3. CASE \/ SaveAudio(i) \/ RejectAudio(i) \/ EnqueueJob(i) \/ UploadFails(i) \/ Deliver(i)
               \/ RecoverDeadLetter(i)
      BY <3>3 DEF SaveAudio, RejectAudio, EnqueueJob, UploadFails, Deliver, TimerFires, Redeliver,
         RecoverDeadLetter, disk, row, history
    <3> QED BY <2>1, <3>1, <3>2, <3>3 DEF Upload, Recover
  <2>2. CASE Process \/ UNCHANGED vars
    BY <2>2 DEF Process, StartProcess, RecoveryFails, ServiceUp, BeginShutdown, ExitProcess,
       Crash, LoseMemory, vars, disk, row, history
  <2> QED BY <1>1, <2>1, <2>2, WorkKeepsFinished DEF Next
<1>2. Inv /\ [Next]_vars =>
        [\A j \in Jobs : status[j] \in Terminal =>
            /\ status'[j] = status[j]
            /\ transVersion'[j] = transVersion[j]
            /\ retryCount'[j] = retryCount[j]
            /\ attempts'[j] = attempts[j]]_vars
  BY <1>1
<1> QED BY <1>2, Invariance, PTL DEF Spec, FinishedStaysFinished

----------------------------------------------------------------------------
(* The order of recovery.                                                  *)

Rows == {j \in Jobs : status[j] # "none"}

\* No two rows have the same place, and the next place is behind them all.
RankInv == /\ \A j \in Rows : createdAt[j] <= Cardinality(Rows)
           /\ \A i, j \in Rows : i # j => createdAt[i] # createdAt[j]

\* Requests are under way only while the service is up, and before recovery nothing is queued.
QuietInv == /\ \A j \in Jobs : req[j] \in {"saved", "created"} => phase = "up"
            /\ phase = "down" => queue = <<>>

RecoveryInv == RankInv /\ QuietInv /\ RecoveredOldestFirst

\* No worker moves before recovery has ended.
LEMMA NoWorkBefore ==
  ASSUME Inv, NEW w \in Workers, Work(w)
  PROVE  phase \notin {"down", "booting"}
BY DEF Work, Dequeue, Claim, SaveTranscript, AttemptFails, MarkCompleted, MarkCompletedFails,
   WriteDeadLetter, WorkerLosesJob, WorkerStops, WorkersRun, Inv, WorkerInv

\* A worker leaves requests, phase and places alone, and makes no row and removes none.
LEMMA WorkRows ==
  ASSUME Inv, NEW w \in Workers, Work(w)
  PROVE  UNCHANGED <<phase, req, createdAt>> /\ Rows' = Rows
<1>1. ASSUME Starts(w) \/ Skips(w) \/ Retries(w) \/ Ends(w, "failed") \/ Ends(w, "completed")
      PROVE  Rows' = Rows
  <2>1. ASSUME NEW j \in Jobs PROVE status[j] # "none" <=> status'[j] # "none"
    <3>1. status \in [Jobs -> Status] BY DEF Inv, TypeOK, Status
    <3>2. CASE wjob[w] = j BY <1>1, <3>1, <3>2 DEF Starts, Skips, Retries, Ends
    <3>3. CASE wjob[w] # j BY <1>1, <3>1, <3>3 DEF Starts, Skips, Retries, Ends
    <3> QED BY <3>2, <3>3
  <2> QED BY <2>1 DEF Rows
<1>2. CASE Claim(w) \/ AttemptFails(w) \/ MarkCompleted(w) \/ MarkCompletedFails(w)
  <2>1. UNCHANGED <<phase, req, createdAt>>
    BY <1>2 DEF Claim, AttemptFails, MarkCompleted, MarkCompletedFails
  <2> QED BY <1>1, <1>2, <2>1, ClaimEffect, AttemptFailsEffect, MarkCompletedEffect
<1>3. CASE Dequeue(w) \/ SaveTranscript(w) \/ WriteDeadLetter(w) \/ WorkerLosesJob(w) \/ WorkerStops(w)
  <2>1. UNCHANGED <<phase, req, createdAt, status>>
    BY <1>3 DEF Dequeue, SaveTranscript, WriteDeadLetter, WorkerLosesJob, WorkerStops, disk, row
  <2> QED BY <2>1 DEF Rows
<1> QED BY <1>2, <1>3 DEF Work

\* A new row gets the next place.
LEMMA NewRow ==
  ASSUME Inv, RankInv, NEW i \in Jobs, req[i] = "saved", create_job(i)
  PROVE  RankInv'
<1>1. status[i] = "none" /\ i \notin Rows /\ status \in [Jobs -> Status] /\ createdAt \in [Jobs -> Nat]
  BY DEF Inv, UploadInv, TypeOK, Rows, Status
<1>2. /\ Rows' = Rows \cup {i}
      /\ createdAt' = [createdAt EXCEPT ![i] = 1 + Cardinality(Rows)]
  BY <1>1 DEF create_job, Rows
<1>3. IsFiniteSet(Rows)
  <2>1. Rows \subseteq Jobs BY DEF Rows
  <2> QED BY <2>1, ConstantsAssumption, FS_Subset
<1>4. Cardinality(Rows) \in Nat BY <1>3, FS_CardinalityType
<1>5. Cardinality(Rows') = Cardinality(Rows) + 1 BY <1>1, <1>2, <1>3, FS_AddElement
<1>6. createdAt'[i] = 1 + Cardinality(Rows) /\ \A j \in Rows : createdAt'[j] = createdAt[j]
  BY <1>1, <1>2 DEF Rows
<1>7. \A j \in Rows : createdAt[j] \in Nat /\ createdAt[j] <= Cardinality(Rows)
  BY <1>1 DEF Rows, RankInv
<1>8. \A j \in Rows' : createdAt'[j] <= Cardinality(Rows')
  BY <1>2, <1>4, <1>5, <1>6, <1>7
<1>9. ASSUME NEW j \in Rows', NEW k \in Rows', j # k PROVE createdAt'[j] # createdAt'[k]
  <2>1. CASE j \in Rows /\ k \in Rows BY <1>6, <1>9, <2>1 DEF RankInv
  <2>2. CASE j = i BY <1>2, <1>4, <1>6, <1>7, <1>9, <2>2
  <2>3. CASE k = i BY <1>2, <1>4, <1>6, <1>7, <1>9, <2>3
  <2> QED BY <1>2, <2>1, <2>2, <2>3
<1> QED BY <1>8, <1>9 DEF RankInv

\* The places of the rows are those of their inserts, whatever else happens.
LEMMA RankGoesOn == ASSUME Inv, RankInv, [Next]_vars PROVE RankInv'
<1>1. ASSUME UNCHANGED createdAt, Rows' = Rows PROVE RankInv'
  BY <1>1 DEF RankInv
<1>2. ASSUME UNCHANGED <<createdAt, status>> PROVE RankInv'
  BY <1>1, <1>2 DEF Rows
<1>3. ASSUME NEW i \in Jobs, Upload(i) PROVE RankInv'
  <2>1. CASE CreateJob(i) \/ ReadBackFails(i)
    BY <2>1, NewRow DEF CreateJob, ReadBackFails
  <2>2. CASE SaveAudio(i) \/ RejectAudio(i) \/ EnqueueJob(i) \/ UploadFails(i)
    BY <1>2, <2>2 DEF SaveAudio, RejectAudio, EnqueueJob, UploadFails, disk, row
  <2> QED BY <1>3, <2>1, <2>2 DEF Upload
<1>4. ASSUME NEW i \in Jobs, Deliver(i) \/ Recover(i) PROVE RankInv'
  <2>1. CASE Deliver(i) \/ RecoverDeadLetter(i)
    BY <1>2, <2>1 DEF Deliver, TimerFires, Redeliver, RecoverDeadLetter, disk, row
  <2>2. CASE RecoverRequeue(i) \/ RecoverFail(i)
    <3>1. UNCHANGED createdAt /\ (UNCHANGED status \/ \E s \in {"retrying", "failed"} :
             status[i] = "processing" /\ status' = [status EXCEPT ![i] = s])
      BY <2>2 DEF RecoverRequeue, RecoverFail, mark_retrying, mark_failed, _transition
    <3>2. Rows' = Rows
      <4>1. status \in [Jobs -> Status] BY DEF Inv, TypeOK, Status
      <4> QED BY <3>1, <4>1 DEF Rows
    <3> QED BY <1>1, <3>1, <3>2
  <2> QED BY <1>4, <2>1, <2>2 DEF Recover
<1>5. CASE \E w \in Workers : Work(w) BY <1>1, <1>5, WorkRows
<1>6. CASE Process \/ UNCHANGED vars
  BY <1>2, <1>6 DEF Process, StartProcess, RecoveryFails, ServiceUp, BeginShutdown, ExitProcess,
     Crash, LoseMemory, vars, disk
<1> QED BY <1>3, <1>4, <1>5, <1>6 DEF Next

\* Requests end before the service goes down, and memory is lost with it.
LEMMA QuietGoesOn == ASSUME Inv, QuietInv, [Next]_vars PROVE QuietInv'
<1>0. req \in [Jobs -> {"none", "saved", "created", "done"}] BY DEF Inv, TypeOK
<1>1. ASSUME NEW i \in Jobs, Upload(i) PROVE QuietInv'
  <2>1. phase = "up" /\ phase' = "up"
    BY <1>1 DEF Upload, SaveAudio, RejectAudio, CreateJob, EnqueueJob, UploadFails, ReadBackFails,
       QuietInv
  <2> QED BY <2>1 DEF QuietInv
<1>2. ASSUME NEW i \in Jobs, Deliver(i) \/ Recover(i) PROVE QuietInv'
  <2>1. UNCHANGED <<phase, req>> /\ phase # "down"
    BY <1>2 DEF Deliver, TimerFires, Redeliver, WorkersRun, Recover, RecoverRequeue, RecoverFail,
       RecoverDeadLetter, OldestFirst
  <2> QED BY <2>1 DEF QuietInv
<1>3. ASSUME NEW w \in Workers, Work(w) PROVE QuietInv'
  BY <1>3, NoWorkBefore, WorkRows DEF QuietInv
<1>4. CASE StartProcess \/ RecoveryFails \/ ServiceUp
  BY <1>4 DEF StartProcess, RecoveryFails, ServiceUp, OldestFirst, delivery, QuietInv
<1>5. CASE BeginShutdown
  BY <1>0, <1>5 DEF BeginShutdown, LoopFree, delivery, QuietInv
<1>6. CASE ExitProcess \/ Crash
  <2>1. \A j \in Jobs : req'[j] \in {"none", "done"} BY <1>6 DEF ExitProcess, Crash, LoseMemory
  <2>2. phase' = "down" /\ queue' = <<>> BY <1>6 DEF ExitProcess, Crash, LoseMemory
  <2> QED BY <2>1, <2>2 DEF QuietInv
<1>7. CASE UNCHANGED vars BY <1>7 DEF vars, delivery, QuietInv
<1> QED BY <1>1, <1>2, <1>3, <1>4, <1>5, <1>6, <1>7 DEF Next, Process

\* Recovery puts the oldest of those it has still to visit behind those it has visited.
LEMMA OldestFirstGoesOn == ASSUME Inv, RecoveryInv, [Next]_vars PROVE RecoveredOldestFirst'
<1> SUFFICES ASSUME phase' = "booting"
             PROVE  /\ \A i, k \in DOMAIN queue' : i < k => createdAt'[queue'[i]] < createdAt'[queue'[k]]
                    /\ \A i \in DOMAIN queue' : \A j \in boot' : createdAt'[queue'[i]] < createdAt'[j]
  BY DEF RecoveredOldestFirst
<1>1. CASE StartProcess
  <2>1. queue' = <<>> BY <1>1 DEF StartProcess, delivery, RecoveryInv, QuietInv
  <2> QED BY <2>1
<1>2. CASE UNCHANGED vars
  BY <1>2 DEF vars, disk, delivery, RecoveryInv, RecoveredOldestFirst
<1>3. CASE phase = "booting" /\ \E i \in Jobs : Recover(i)
  <2>1. PICK j \in Jobs : Recover(j) BY <1>3
  <2>2. j \in boot /\ \A k \in boot : createdAt[j] <= createdAt[k]
    BY <2>1 DEF Recover, RecoverRequeue, RecoverFail, RecoverDeadLetter, OldestFirst
  <2>3. /\ createdAt' = createdAt
        /\ \/ boot' \subseteq boot /\ queue' = queue
           \/ boot' = boot \ {j} /\ queue' = Append(queue, j)
    BY <2>1 DEF Recover, RecoverRequeue, RecoverFail, RecoverDeadLetter, enqueue, row, delivery
  <2>4. /\ \A i, k \in DOMAIN queue : i < k => createdAt[queue[i]] < createdAt[queue[k]]
        /\ \A i \in DOMAIN queue : \A k \in boot : createdAt[queue[i]] < createdAt[k]
    BY <1>3 DEF RecoveryInv, RecoveredOldestFirst
  <2>5. CASE boot' \subseteq boot /\ queue' = queue BY <2>3, <2>4, <2>5
  <2>6. CASE boot' = boot \ {j} /\ queue' = Append(queue, j)
    <3>1. \A k \in boot \ {j} : createdAt[j] < createdAt[k]
      <4> SUFFICES ASSUME NEW k \in boot \ {j} PROVE createdAt[j] < createdAt[k] OBVIOUS
      <4>1. j \in Rows /\ k \in Rows
        BY <2>2 DEF Inv, TypeOK, BootInv, Unfinished, Rows
      <4>2. createdAt[j] # createdAt[k] BY <4>1 DEF RecoveryInv, RankInv
      <4>3. createdAt[j] \in Nat /\ createdAt[k] \in Nat BY <4>1 DEF Inv, TypeOK, Rows
      <4> QED BY <2>2, <4>2, <4>3
    <3>2. /\ queue \in Seq(Jobs) /\ Len(queue) \in Nat /\ DOMAIN queue = 1..Len(queue)
          /\ DOMAIN queue' = 1..Len(queue) + 1 /\ queue'[Len(queue) + 1] = j
          /\ \A i \in 1..Len(queue) : queue'[i] = queue[i]
      BY <2>6, AppendProperties DEF Inv, TypeOK
    <3>3. ASSUME NEW i \in DOMAIN queue', NEW k \in DOMAIN queue', i < k
          PROVE  createdAt[queue'[i]] < createdAt[queue'[k]]
      <4>1. i \in DOMAIN queue /\ queue'[i] = queue[i] BY <3>2, <3>3
      <4>2. CASE k \in DOMAIN queue BY <2>4, <3>2, <3>3, <4>1, <4>2
      <4>3. CASE k = Len(queue) + 1 BY <2>2, <2>4, <3>2, <4>1, <4>3
      <4> QED BY <3>2, <4>2, <4>3
    <3>4. ASSUME NEW i \in DOMAIN queue', NEW k \in boot \ {j}
          PROVE  createdAt[queue'[i]] < createdAt[k]
      <4>1. CASE i \in DOMAIN queue BY <2>4, <3>2, <4>1
      <4>2. CASE i = Len(queue) + 1 BY <3>1, <3>2, <4>2
      <4> QED BY <3>2, <4>1, <4>2
    <3> QED BY <2>3, <2>6, <3>3, <3>4
  <2> QED BY <2>3, <2>5, <2>6
<1>4. ASSUME NEW i \in Jobs, Upload(i) \/ Deliver(i) PROVE FALSE
  <2>1. phase' = phase
    BY <1>4 DEF Upload, SaveAudio, RejectAudio, CreateJob, EnqueueJob, UploadFails, ReadBackFails,
       Deliver, TimerFires, Redeliver
  <2> QED BY <1>4, <2>1
       DEF Upload, SaveAudio, RejectAudio, CreateJob, EnqueueJob, UploadFails, ReadBackFails,
           Deliver, TimerFires, Redeliver, WorkersRun, RecoveryInv, QuietInv
<1>5. ASSUME NEW w \in Workers, Work(w) PROVE FALSE
  BY <1>5, NoWorkBefore, WorkRows
<1>6. Process => StartProcess
  BY DEF Process, RecoveryFails, ServiceUp, BeginShutdown, ExitProcess, Crash, LoseMemory
<1>7. ASSUME NEW i \in Jobs, Recover(i) PROVE phase = "booting"
  BY <1>7 DEF Recover, RecoverRequeue, RecoverFail, RecoverDeadLetter, OldestFirst
<1> QED BY <1>1, <1>2, <1>3, <1>4, <1>5, <1>6, <1>7 DEF Next

\* At every start recovery queues what it has visited oldest first, before anything that
\* it has still to visit (database.py:214-221, main.py:30-52).
THEOREM AlwaysOldestFirst == Spec => []RecoveredOldestFirst
<1>1. Init => RecoveryInv
  BY DEF Init, RecoveryInv, RankInv, Rows, QuietInv, RecoveredOldestFirst
<1>2. Inv /\ RecoveryInv /\ [Next]_vars => RecoveryInv'
  BY RankGoesOn, QuietGoesOn, OldestFirstGoesOn DEF RecoveryInv
<1>3. RecoveryInv => RecoveredOldestFirst BY DEF RecoveryInv
<1> QED BY <1>1, <1>2, <1>3, Invariance, PTL DEF Spec

----------------------------------------------------------------------------
(* No job is on its way twice.                                             *)

Carried(j) == \E w \in Workers : wjob[w] = j
NoPlace(j) == ~Queued(j) /\ timers[j] = 0 /\ ~Carried(j) /\ req[j] # "created" /\ j \notin boot
OnePlace(j) == /\ Queued(j) => timers[j] = 0 /\ ~Carried(j) /\ req[j] # "created" /\ j \notin boot
               /\ timers[j] # 0 => ~Carried(j) /\ req[j] # "created" /\ j \notin boot
               /\ Carried(j) => req[j] # "created" /\ j \notin boot
               /\ req[j] = "created" => j \notin boot

\* Within each place a job is at most once, and it is in one place at most.
Distinct == \A i, k \in DOMAIN queue : queue[i] = queue[k] => i = k
OneCarrier == \A w, v \in Workers : wjob[w] \in Jobs /\ wjob[w] = wjob[v] => w = v
OneTimer == \A j \in Jobs : timers[j] <= 1
JobOnce(j) == /\ OnePlace(j)
              /\ status[j] = "none" => NoPlace(j) /\ j \notin stranded
              /\ j \in stranded => NoPlace(j)
              /\ phase = "down" => NoPlace(j) /\ j \notin stranded
OnceInv == Distinct /\ OneCarrier /\ OneTimer /\ \A j \in Jobs : JobOnce(j)

\* A set with at most one element.
LEMMA OneAtMost ==
  ASSUME NEW S, \A x, y \in S : x = y
  PROVE  Cardinality(S) = IF S = {} THEN 0 ELSE 1
<1>1. CASE S = {} BY <1>1, FS_EmptySet
<1>2. CASE S # {}
  <2>1. PICK x : S = {x} BY <1>2
  <2> QED BY <1>2, <2>1, FS_Singleton
<1> QED BY <1>1, <1>2

\* Then there is at most one copy of it.
LEMMA OnceCounts == ASSUME Inv, OnceInv PROVE TrackedOnce
<1> SUFFICES ASSUME NEW j \in Jobs PROVE Copies(j) <= (IF j \in stranded THEN 0 ELSE 1)
  BY DEF TrackedOnce
<1> DEFINE Q == {i \in DOMAIN queue : queue[i] = j}
           W == {w \in Workers : wjob[w] = j}
           R == {x \in {1} : req[j] = "created"}
           B == {x \in {1} : j \in boot}
<1>1. Cardinality(Q) = IF Queued(j) THEN 1 ELSE 0
  <2>1. \A x, y \in Q : x = y BY DEF OnceInv, Distinct
  <2>2. Q = {} <=> ~Queued(j) BY DEF Queued
  <2> QED BY <2>1, <2>2, OneAtMost
<1>2. Cardinality(W) = IF Carried(j) THEN 1 ELSE 0
  <2>1. \A x, y \in W : x = y BY DEF OnceInv, OneCarrier
  <2>2. W = {} <=> ~Carried(j) BY DEF Carried
  <2> QED BY <2>1, <2>2, OneAtMost
<1>3. Cardinality(R) = IF req[j] = "created" THEN 1 ELSE 0
  <2>1. \A x, y \in R : x = y OBVIOUS
  <2>2. R = {} <=> req[j] # "created" OBVIOUS
  <2> QED BY <2>1, <2>2, OneAtMost
<1>4. Cardinality(B) = IF j \in boot THEN 1 ELSE 0
  <2>1. \A x, y \in B : x = y OBVIOUS
  <2>2. B = {} <=> j \notin boot OBVIOUS
  <2> QED BY <2>1, <2>2, OneAtMost
<1>5. Copies(j) = Cardinality(Q) + timers[j] + Cardinality(W) + Cardinality(R) + Cardinality(B)
  BY DEF Copies
<1>6. timers[j] \in {0, 1}
  <2>1. timers[j] \in Nat /\ timers[j] <= 1 BY DEF OnceInv, OneTimer, Inv, TypeOK
  <2> QED BY <2>1
<1>7. OnePlace(j) /\ (j \in stranded => NoPlace(j)) BY DEF OnceInv, JobOnce
<1> HIDE DEF Q, W, R, B
<1> QED BY <1>1, <1>2, <1>3, <1>4, <1>5, <1>6, <1>7 DEF OnePlace, NoPlace

\* A job that was not queued is appended (asyncio.Queue.put).
LEMMA AppendOnce ==
  ASSUME TypeOK, Distinct, NEW j \in Jobs, ~Queued(j), queue' = Append(queue, j)
  PROVE  Distinct' /\ \A k \in Jobs : Queued(k)' <=> Queued(k) \/ k = j
<1>1. /\ queue \in Seq(Jobs) /\ Len(queue) \in Nat /\ DOMAIN queue = 1..Len(queue)
      /\ DOMAIN queue' = 1..Len(queue) + 1 /\ queue'[Len(queue) + 1] = j
      /\ \A i \in 1..Len(queue) : queue'[i] = queue[i]
  BY AppendProperties DEF TypeOK
<1>2. \A i \in 1..Len(queue) : queue[i] # j BY <1>1 DEF Queued
<1>3. \A i \in 1..Len(queue) + 1 : i \in 1..Len(queue) \/ i = Len(queue) + 1 BY <1>1
<1>4. Distinct'
  <2>1. ASSUME NEW i \in 1..Len(queue) + 1, NEW k \in 1..Len(queue) + 1, queue'[i] = queue'[k]
        PROVE  i = k
    BY <1>1, <1>2, <1>3, <2>1 DEF Distinct
  <2> QED BY <1>1, <2>1 DEF Distinct
<1>5. ASSUME NEW k \in Jobs PROVE Queued(k)' <=> Queued(k) \/ k = j
  <2>1. Queued(k)' => Queued(k) \/ k = j BY <1>1, <1>3 DEF Queued
  <2>2. Queued(k) => Queued(k)' BY <1>1 DEF Queued
  <2>3. Queued(j)' BY <1>1 DEF Queued
  <2> QED BY <2>1, <2>2, <2>3
<1> QED BY <1>4, <1>5

\* The head is taken (asyncio.Queue.get).
LEMMA TailOnce ==
  ASSUME TypeOK, Distinct, queue # <<>>, queue' = Tail(queue)
  PROVE  /\ Distinct' /\ Head(queue) \in Jobs /\ Queued(Head(queue))
         /\ \A k \in Jobs : Queued(k)' => Queued(k) /\ k # Head(queue)
<1>1. /\ queue \in Seq(Jobs) /\ Len(queue) \in Nat \ {0} /\ DOMAIN queue = 1..Len(queue)
      /\ DOMAIN queue' = 1..Len(queue) - 1 /\ Head(queue) = queue[1] /\ Head(queue) \in Jobs
      /\ \A i \in 1..Len(queue) - 1 : queue'[i] = queue[i + 1]
  BY HeadTailProperties DEF TypeOK
<1>2. Distinct'
  <2>1. ASSUME NEW i \in 1..Len(queue) - 1, NEW k \in 1..Len(queue) - 1, queue'[i] = queue'[k]
        PROVE  i = k
    <3>1. queue[i + 1] = queue[k + 1] /\ i + 1 \in 1..Len(queue) /\ k + 1 \in 1..Len(queue)
      BY <1>1, <2>1
    <3>2. i + 1 = k + 1 BY <1>1, <3>1 DEF Distinct
    <3> QED BY <3>2
  <2> QED BY <1>1, <2>1 DEF Distinct
<1>3. ASSUME NEW k \in Jobs, Queued(k)' PROVE Queued(k) /\ k # Head(queue)
  <2>1. PICK i \in 1..Len(queue) - 1 : queue'[i] = k BY <1>1, <1>3 DEF Queued
  <2>2. queue[i + 1] = k /\ i + 1 \in 1..Len(queue) /\ i + 1 # 1 BY <1>1, <2>1
  <2> QED BY <1>1, <2>2 DEF Queued, Distinct
<1>4. Queued(Head(queue)) BY <1>1 DEF Queued
<1> QED BY <1>1, <1>2, <1>3, <1>4

\* A step that puts j nowhere new.
Stays(j) == /\ Queued(j)' => Queued(j)
            /\ timers'[j] # 0 => timers[j] # 0
            /\ Carried(j)' => Carried(j)
            /\ req'[j] = "created" => req[j] = "created"
            /\ j \in boot' => j \in boot
            /\ j \in stranded' => j \in stranded
            /\ status'[j] = "none" => status[j] = "none"

\* Such a step leaves j in one place at most.
LEMMA StaysOnce ==
  ASSUME NEW j \in Jobs, JobOnce(j), Stays(j), phase' # "down"
  PROVE  JobOnce(j)'
BY DEF JobOnce, OnePlace, NoPlace, Stays

\* A step of a worker that lets go of its job.
LEMMA LeavesOnce ==
  ASSUME TypeOK, OneCarrier, NEW w \in Workers, NEW i \in Jobs, wjob[w] = i,
         wjob' = [wjob EXCEPT ![w] = NoJob]
  PROVE  /\ OneCarrier' /\ ~Carried(i)'
         /\ \A j \in Jobs : Carried(j)' => Carried(j)
<1>1. /\ wjob'[w] = NoJob /\ NoJob \notin Jobs
      /\ \A v \in Workers : v # w => wjob'[v] = wjob[v]
  BY ConstantsAssumption DEF TypeOK
<1>2. OneCarrier' BY <1>1 DEF OneCarrier
<1>3. ~Carried(i)' BY <1>1 DEF OneCarrier, Carried
<1>4. \A j \in Jobs : Carried(j)' => Carried(j) BY <1>1 DEF Carried
<1> QED BY <1>2, <1>3, <1>4

\* A worker hands its job on, to the queue or to a timer, or puts it aside.
LEMMA OnceWork ==
  ASSUME Inv, OnceInv, NEW w \in Workers, Work(w)
  PROVE  OnceInv'
<1>0. PICK j : j = wjob[w] OBVIOUS
<1>1. /\ phase' # "down" /\ UNCHANGED req
      /\ \A k \in Jobs : status'[k] = "none" => status[k] = "none"
  <2>1. \A k \in Jobs : k \in Rows => k \in Rows' BY WorkRows
  <2> QED BY <2>1, WorkRows, NoWorkBefore DEF Rows
<1>2. /\ Distinct /\ OneCarrier /\ OneTimer /\ TypeOK
      /\ \A k \in Jobs : JobOnce(k)
  BY DEF OnceInv, Inv
<1>3. ASSUME UNCHANGED <<queue, timers, boot, stranded>>,
             \/ wjob' = wjob
             \/ j \in Jobs /\ wjob' = [wjob EXCEPT ![w] = NoJob]
      PROVE  OnceInv'
  <2>1. OneCarrier' /\ \A k \in Jobs : Carried(k)' => Carried(k)
    BY <1>0, <1>2, <1>3, LeavesOnce DEF OneCarrier, Carried
  <2>2. Distinct' /\ OneTimer' BY <1>2, <1>3 DEF Distinct, OneTimer
  <2>3. ASSUME NEW k \in Jobs PROVE JobOnce(k)'
    <3>1. Stays(k) BY <1>1, <1>3, <2>1 DEF Stays, Queued
    <3> QED BY <1>1, <1>2, <3>1, StaysOnce
  <2> QED BY <2>1, <2>2, <2>3 DEF OnceInv
<1>4. ASSUME Retries(w), UNCHANGED Rest PROVE OnceInv'
  <2>1. j \in Jobs /\ Carried(j) /\ wjob' = [wjob EXCEPT ![w] = NoJob]
    BY <1>0, <1>4 DEF Retries, Leaves, Runs, Inv, WorkerInv, Carried
  <2>2. OneCarrier' /\ ~Carried(j)' /\ \A k \in Jobs : Carried(k)' => Carried(k)
    BY <1>0, <1>2, <2>1, LeavesOnce
  <2>3. /\ ~Queued(j) /\ timers[j] = 0 /\ req[j] # "created" /\ j \notin boot /\ j \notin stranded
        /\ status[j] # "none" /\ UNCHANGED <<boot, stranded>>
    BY <1>0, <1>2, <1>4, <2>1 DEF JobOnce, OnePlace, NoPlace, Rest
  <2>4. CASE RetryDelay = 0
    <3>1. queue' = Append(queue, j) /\ timers' = timers
      BY <1>0, <1>4, <2>4 DEF Retries, enqueue_after, enqueue
    <3>2. Distinct' /\ \A k \in Jobs : Queued(k)' <=> Queued(k) \/ k = j
      BY <1>2, <2>1, <2>3, <3>1, AppendOnce
    <3>3. OneTimer' BY <1>2, <3>1 DEF OneTimer
    <3>4. ASSUME NEW k \in Jobs PROVE JobOnce(k)'
      <4>1. CASE k = j
        BY <1>1, <2>1, <2>2, <2>3, <3>1, <4>1 DEF JobOnce, OnePlace
      <4>2. CASE k # j
        <5>1. Stays(k) BY <1>1, <2>2, <2>3, <3>1, <3>2, <4>2 DEF Stays
        <5> QED BY <1>1, <1>2, <5>1, StaysOnce
      <4> QED BY <4>1, <4>2
    <3> QED BY <2>2, <3>2, <3>3, <3>4 DEF OnceInv
  <2>5. CASE RetryDelay # 0
    <3>1. queue' = queue /\ timers' = [timers EXCEPT ![j] = @ + 1]
      BY <1>0, <1>4, <2>5 DEF Retries, enqueue_after
    <3>2. timers'[j] = 1 /\ \A k \in Jobs : k # j => timers'[k] = timers[k]
      BY <1>2, <2>1, <2>3, <3>1 DEF TypeOK
    <3>3. Distinct' /\ OneTimer' BY <1>2, <3>1, <3>2 DEF Distinct, OneTimer
    <3>4. \A k \in Jobs : Queued(k)' <=> Queued(k) BY <3>1 DEF Queued
    <3>5. ASSUME NEW k \in Jobs PROVE JobOnce(k)'
      <4>1. CASE k = j
        BY <1>1, <2>1, <2>2, <2>3, <3>4, <4>1 DEF JobOnce, OnePlace
      <4>2. CASE k # j
        <5>1. Stays(k) BY <1>1, <2>2, <2>3, <3>2, <3>4, <4>2 DEF Stays
        <5> QED BY <1>1, <1>2, <5>1, StaysOnce
      <4> QED BY <4>1, <4>2
    <3> QED BY <2>2, <3>3, <3>5 DEF OnceInv
  <2> QED BY <2>4, <2>5
<1>5. ASSUME Starts(w) \/ Skips(w) \/ Ends(w, "failed") \/ Ends(w, "completed"), UNCHANGED Rest
      PROVE  OnceInv'
  <2>1. j \in Jobs BY <1>0, <1>5 DEF Starts, Skips, Ends, Runs, Inv, WorkerInv
  <2>2. UNCHANGED <<queue, timers, boot, stranded>>
    BY <1>5 DEF Starts, Skips, Ends, Rest
  <2>3. wjob' = wjob \/ wjob' = [wjob EXCEPT ![w] = NoJob]
    BY <1>5 DEF Starts, Skips, Ends, Puts, Leaves
  <2> QED BY <1>0, <1>3, <2>1, <2>2, <2>3
<1>6. CASE Claim(w) \/ AttemptFails(w) \/ MarkCompleted(w) \/ MarkCompletedFails(w)
  BY <1>4, <1>5, <1>6, ClaimEffect, AttemptFailsEffect, MarkCompletedEffect
<1>7. CASE SaveTranscript(w) \/ WriteDeadLetter(w) \/ WorkerStops(w)
  <2>1. UNCHANGED <<queue, timers, boot, stranded>>
    BY <1>7 DEF SaveTranscript, WriteDeadLetter, WorkerStops, delivery, history
  <2>2. wjob' = wjob \/ (j \in Jobs /\ wjob' = [wjob EXCEPT ![w] = NoJob])
    <3>1. CASE WriteDeadLetter(w)
      <4>1. wpc[w] = "deadletter" BY <3>1 DEF WriteDeadLetter
      <4>2. j \in Jobs BY <1>0, <4>1 DEF Inv, WorkerInv
      <4> QED BY <1>0, <3>1, <4>2 DEF WriteDeadLetter, Finish
    <3> QED BY <1>7, <3>1 DEF SaveTranscript, WorkerStops
  <2> QED BY <1>3, <2>1, <2>2
<1>8. CASE WorkerLosesJob(w)
  <2>0. wpc[w] \notin {"idle", "stopped"} BY <1>8 DEF WorkerLosesJob
  <2>1. /\ j \in Jobs /\ Carried(j) /\ wjob' = [wjob EXCEPT ![w] = NoJob]
        /\ UNCHANGED <<status, queue, timers, boot>> /\ stranded' = stranded \cup {j}
    <3>1. j \in Jobs /\ Carried(j) BY <1>0, <2>0 DEF Inv, WorkerInv, Carried
    <3> QED BY <1>0, <1>8, <3>1 DEF WorkerLosesJob, Finish, disk, row, delivery
  <2>2. OneCarrier' /\ ~Carried(j)' /\ \A k \in Jobs : Carried(k)' => Carried(k)
    BY <1>0, <1>2, <2>1, LeavesOnce
  <2>3. Distinct' /\ OneTimer' BY <1>2, <2>1 DEF Distinct, OneTimer
  <2>4. ASSUME NEW k \in Jobs PROVE JobOnce(k)'
    <3>1. Queued(k)' <=> Queued(k) BY <2>1 DEF Queued
    <3>2. CASE k = j
      BY <1>1, <1>2, <2>1, <2>2, <3>1, <3>2 DEF JobOnce, OnePlace, NoPlace
    <3>3. CASE k # j
      <4>1. Stays(k) BY <1>1, <2>1, <2>2, <3>1, <3>3 DEF Stays
      <4> QED BY <1>1, <1>2, <4>1, StaysOnce
    <3> QED BY <3>2, <3>3
  <2> QED BY <2>2, <2>3, <2>4 DEF OnceInv
<1>9. CASE Dequeue(w)
  <2>0. PICK h : h = Head(queue) OBVIOUS
  <2>1. /\ queue # <<>> /\ queue' = Tail(queue) /\ wjob' = [wjob EXCEPT ![w] = h]
        /\ UNCHANGED <<status, timers, boot, stranded>>
    BY <2>0, <1>9 DEF Dequeue, disk, history
  <2>2. /\ Distinct' /\ h \in Jobs /\ Queued(h)
        /\ \A k \in Jobs : Queued(k)' => Queued(k) /\ k # h
    BY <1>2, <2>0, <2>1, TailOnce
  <2>3. OneTimer' BY <1>2, <2>1 DEF OneTimer
  <2>4. wjob'[w] = h /\ \A v \in Workers : v # w => wjob'[v] = wjob[v]
    BY <1>2, <2>1 DEF TypeOK
  <2>5. ~Carried(h) /\ timers[h] = 0 /\ req[h] # "created" /\ h \notin boot /\ h \notin stranded
        /\ status[h] # "none"
    BY <1>2, <2>2 DEF JobOnce, OnePlace, NoPlace
  <2>6. OneCarrier' BY <1>2, <2>4, <2>5 DEF OneCarrier, Carried
  <2>7. ASSUME NEW k \in Jobs PROVE JobOnce(k)'
    <3>1. CASE k = h
      BY <1>1, <2>1, <2>2, <2>5, <3>1 DEF JobOnce, OnePlace
    <3>2. CASE k # h
      <4>1. Carried(k)' => Carried(k) BY <2>4, <3>2 DEF Carried
      <4>2. Stays(k) BY <1>1, <2>1, <2>2, <4>1 DEF Stays
      <4> QED BY <1>1, <1>2, <4>2, StaysOnce
    <3> QED BY <3>1, <3>2
  <2> QED BY <2>2, <2>3, <2>6, <2>7 DEF OnceInv
<1> QED BY <1>6, <1>7, <1>8, <1>9 DEF Work

\* Queueing a job that is nowhere else any more.
LEMMA OnceQueued ==
  ASSUME TypeOK, OnceInv, NEW i \in Jobs, queue' = Append(queue, i), ~Queued(i),
         phase' # "down", status'[i] # "none", i \notin stranded',
         timers'[i] = 0, ~Carried(i)', req'[i] # "created", i \notin boot',
         UNCHANGED wjob, OneTimer',
         \A k \in Jobs \ {i} : /\ timers'[k] = timers[k] /\ req'[k] = req[k]
                               /\ k \in boot' => k \in boot
                               /\ k \in stranded' => k \in stranded
                               /\ status'[k] = "none" => status[k] = "none"
  PROVE  OnceInv'
<1>1. Distinct' /\ \A k \in Jobs : Queued(k)' <=> Queued(k) \/ k = i
  BY AppendOnce DEF OnceInv
<1>2. OneCarrier' BY DEF OnceInv, OneCarrier
<1>3. ASSUME NEW k \in Jobs PROVE JobOnce(k)'
  <2>1. CASE k = i BY <2>1 DEF JobOnce, OnePlace
  <2>2. CASE k # i
    <3>1. Carried(k)' => Carried(k) BY DEF Carried
    <3>2. Stays(k) BY <1>1, <2>2, <3>1 DEF Stays
    <3> QED BY <3>2, StaysOnce DEF OnceInv
  <2> QED BY <2>1, <2>2
<1> QED BY <1>1, <1>2, <1>3 DEF OnceInv

\* An upload brings its job into the queue once, a timer brings it back once.
LEMMA OnceUpload ==
  ASSUME Inv, QuietInv, OnceInv, ~Redelivery, NEW i \in Jobs, Upload(i) \/ Deliver(i)
  PROVE  OnceInv'
<1>1. phase' = phase /\ phase # "down" /\ UNCHANGED <<boot, wjob>>
  BY DEF Upload, SaveAudio, RejectAudio, CreateJob, EnqueueJob, UploadFails, ReadBackFails,
     Deliver, TimerFires, Redeliver, WorkersRun, QuietInv, worker
<1>2. /\ Distinct /\ OneCarrier /\ OneTimer /\ TypeOK
      /\ \A k \in Jobs : JobOnce(k)
  BY DEF OnceInv, Inv
<1>3. (\A k \in Jobs : Carried(k)' <=> Carried(k)) /\ OneCarrier'
  BY <1>1, <1>2 DEF Carried, OneCarrier
<1>4. CASE SaveAudio(i) \/ RejectAudio(i) \/ UploadFails(i)
  <2>1. /\ UNCHANGED <<status, queue, timers, stranded>>
        /\ \A k \in Jobs : req'[k] = "created" => req[k] = "created"
    BY <1>2, <1>4 DEF SaveAudio, RejectAudio, UploadFails, disk, row, delivery, history, TypeOK
  <2>2. Distinct' /\ OneTimer' BY <1>2, <2>1 DEF Distinct, OneTimer
  <2>3. ASSUME NEW k \in Jobs PROVE JobOnce(k)'
    <3>1. Stays(k) BY <1>1, <1>3, <2>1 DEF Stays, Queued
    <3> QED BY <1>1, <1>2, <3>1, StaysOnce
  <2> QED BY <1>3, <2>2, <2>3 DEF OnceInv
<1>5. CASE CreateJob(i) \/ ReadBackFails(i)
  <2>1. /\ status[i] = "none" /\ status' = [status EXCEPT ![i] = "queued"]
        /\ UNCHANGED <<queue, timers>>
        /\ \/ req' = [req EXCEPT ![i] = "created"] /\ stranded' = stranded
           \/ req' = [req EXCEPT ![i] = "done"] /\ stranded' = stranded \cup {i}
    BY <1>5 DEF CreateJob, ReadBackFails, create_job, delivery, history, Inv, UploadInv
  <2>2. /\ status'[i] = "queued" /\ \A k \in Jobs : k # i => status'[k] = status[k] /\ req'[k] = req[k]
        /\ \/ req'[i] = "created" /\ i \notin stranded'
           \/ req'[i] = "done" /\ i \in stranded'
    BY <1>2, <2>1 DEF JobOnce, TypeOK
  <2>3. \A k \in Jobs : Queued(k)' <=> Queued(k) BY <2>1 DEF Queued
  <2>4. Distinct' /\ OneTimer' BY <1>2, <2>1 DEF Distinct, OneTimer
  <2>5. ASSUME NEW k \in Jobs PROVE JobOnce(k)'
    <3>1. CASE k = i
      <4>1. NoPlace(i) BY <1>2, <2>1 DEF JobOnce
      <4> QED BY <1>1, <1>3, <2>1, <2>2, <2>3, <3>1, <4>1 DEF JobOnce, OnePlace, NoPlace
    <3>2. CASE k # i
      <4>1. Stays(k) BY <1>1, <1>3, <2>1, <2>2, <2>3, <3>2 DEF Stays
      <4> QED BY <1>1, <1>2, <4>1, StaysOnce
    <3> QED BY <3>1, <3>2
  <2> QED BY <1>3, <2>4, <2>5 DEF OnceInv
<1>6. CASE EnqueueJob(i)
  <2>1. /\ req[i] = "created" /\ queue' = Append(queue, i) /\ req' = [req EXCEPT ![i] = "done"]
        /\ UNCHANGED <<status, timers, stranded>>
    BY <1>6 DEF EnqueueJob, enqueue, disk, row
  <2>2. req'[i] = "done" /\ \A k \in Jobs : k # i => req'[k] = req[k] BY <1>2, <2>1 DEF TypeOK
  <2>3. ~Queued(i) /\ timers[i] = 0 /\ ~Carried(i) /\ i \notin boot /\ i \notin stranded /\ status[i] # "none"
    BY <1>2, <2>1 DEF JobOnce, OnePlace, NoPlace
  <2>4. OneTimer' BY <1>2, <2>1 DEF OneTimer
  <2> QED BY <1>1, <1>2, <1>3, <2>1, <2>2, <2>3, <2>4, OnceQueued
<1>7. CASE TimerFires(i)
  <2>1. /\ timers[i] > 0 /\ queue' = Append(queue, i) /\ timers' = [timers EXCEPT ![i] = @ - 1]
        /\ UNCHANGED <<status, req, stranded>>
    BY <1>7 DEF TimerFires, disk, row, history
  <2>2. timers[i] = 1 /\ timers'[i] = 0 /\ \A k \in Jobs : k # i => timers'[k] = timers[k]
    <3>1. timers[i] \in Nat /\ timers[i] <= 1 BY <1>2 DEF TypeOK, OneTimer
    <3> QED BY <1>2, <2>1, <3>1 DEF TypeOK
  <2>3. ~Queued(i) /\ ~Carried(i) /\ req[i] # "created" /\ i \notin boot /\ i \notin stranded
        /\ status[i] # "none"
    BY <1>2, <2>2 DEF JobOnce, OnePlace, NoPlace
  <2>4. OneTimer' BY <1>2, <2>2 DEF OneTimer
  <2> QED BY <1>1, <1>2, <1>3, <2>1, <2>2, <2>3, <2>4, OnceQueued
<1> QED BY <1>4, <1>5, <1>6, <1>7 DEF Upload, Deliver, Redeliver

\* Recovery hands what it visits to the queue or ends it, and each start begins with nothing.
LEMMA OnceProcess ==
  ASSUME Inv, QuietInv, OnceInv, (\E i \in Jobs : Recover(i)) \/ Process \/ UNCHANGED vars
  PROVE  OnceInv'
<1>1. /\ Distinct /\ OneCarrier /\ OneTimer /\ TypeOK
      /\ \A k \in Jobs : JobOnce(k)
  BY DEF OnceInv, Inv
<1>2. ASSUME UNCHANGED <<status, queue, timers, req, wjob, stranded>>, boot' \subseteq boot,
             phase' # "down" \/ phase' = phase
      PROVE  OnceInv'
  <2>1. Distinct' /\ OneCarrier' /\ OneTimer' BY <1>1, <1>2 DEF Distinct, OneCarrier, OneTimer
  <2>2. ASSUME NEW k \in Jobs PROVE JobOnce(k)'
    <3>1. (Queued(k)' <=> Queued(k)) /\ (Carried(k)' <=> Carried(k)) BY <1>2 DEF Queued, Carried
    <3> QED BY <1>1, <1>2, <3>1 DEF JobOnce, OnePlace, NoPlace
  <2> QED BY <2>1, <2>2 DEF OnceInv
<1>3. CASE StartProcess
  <2>1. /\ phase = "down" /\ phase' = "booting" /\ boot' = {j \in Jobs : status[j] \in Unfinished}
        /\ UNCHANGED <<status, queue, timers, req, wjob, stranded>>
    BY <1>3 DEF StartProcess, disk, row, delivery, worker, history
  <2>2. Distinct' /\ OneCarrier' /\ OneTimer' BY <1>1, <2>1 DEF Distinct, OneCarrier, OneTimer
  <2>3. ASSUME NEW k \in Jobs PROVE JobOnce(k)'
    <3>1. (Queued(k)' <=> Queued(k)) /\ (Carried(k)' <=> Carried(k)) BY <2>1 DEF Queued, Carried
    <3> QED BY <1>1, <2>1, <3>1 DEF JobOnce, OnePlace, NoPlace, Unfinished
  <2> QED BY <2>2, <2>3 DEF OnceInv
<1>4. CASE ExitProcess \/ Crash
  <2>1. /\ phase' = "down" /\ boot' = {} /\ queue' = <<>> /\ stranded' = {}
        /\ timers' = [k \in Jobs |-> 0]
        /\ wjob' = [w \in Workers |-> NoJob]
        /\ \A k \in Jobs : req'[k] # "created"
    BY <1>4 DEF ExitProcess, Crash, LoseMemory
  <2>2. Distinct' /\ OneCarrier' /\ OneTimer'
    BY <2>1, ConstantsAssumption DEF Distinct, OneCarrier, OneTimer
  <2>3. ASSUME NEW k \in Jobs PROVE JobOnce(k)'
    <3>1. ~Queued(k)' /\ ~Carried(k)'
      BY <2>1, ConstantsAssumption DEF Queued, Carried
    <3> QED BY <2>1, <3>1 DEF JobOnce, OnePlace, NoPlace
  <2> QED BY <2>2, <2>3 DEF OnceInv
<1>5. CASE RecoveryFails \/ ServiceUp \/ BeginShutdown \/ UNCHANGED vars
  BY <1>2, <1>5 DEF RecoveryFails, ServiceUp, BeginShutdown, vars, disk, row, delivery, worker, history
<1>6. ASSUME NEW i \in Jobs, Recover(i) PROVE OnceInv'
  <2>1. /\ i \in boot /\ phase' # "down" /\ UNCHANGED <<timers, req, wjob, stranded>>
    BY <1>6 DEF Recover, RecoverRequeue, RecoverFail, RecoverDeadLetter, OldestFirst, enqueue,
       delivery, worker, history
  <2>2. /\ status[i] # "none" /\ status'[i] # "none"
        /\ \A k \in Jobs : k # i => status'[k] = status[k]
    <3>1. /\ status' = status \/ \E s \in {"retrying", "failed"} : status' = [status EXCEPT ![i] = s]
      BY <1>6 DEF Recover, RecoverRequeue, RecoverFail, RecoverDeadLetter, mark_retrying,
         mark_failed, _transition, row
    <3>2. status \in [Jobs -> Status] /\ status[i] # "none"
      BY <2>1 DEF Inv, TypeOK, Status, BootInv, Unfinished
    <3> QED BY <3>1, <3>2
  <2>3. ~Queued(i) /\ timers[i] = 0 /\ ~Carried(i) /\ req[i] # "created" /\ i \notin stranded
    BY <1>1, <2>1 DEF JobOnce, OnePlace, NoPlace
  <2>4. (\A k \in Jobs : Carried(k)' <=> Carried(k)) /\ OneCarrier' /\ OneTimer'
    BY <1>1, <2>1 DEF Carried, OneCarrier, OneTimer
  <2>5. CASE RecoverRequeue(i)
    <3>1. queue' = Append(queue, i) /\ boot' = boot \ {i}
      BY <2>5 DEF RecoverRequeue, enqueue
    <3> QED BY <1>1, <2>1, <2>2, <2>3, <2>4, <3>1, OnceQueued
  <2>6. CASE RecoverFail(i) \/ RecoverDeadLetter(i)
    <3>1. queue' = queue /\ boot' \subseteq boot
      BY <2>6 DEF RecoverFail, RecoverDeadLetter, delivery
    <3>2. Distinct' BY <1>1, <3>1 DEF Distinct
    <3>3. ASSUME NEW k \in Jobs PROVE JobOnce(k)'
      <4>1. Queued(k)' <=> Queued(k) BY <3>1 DEF Queued
      <4>2. Stays(k) BY <2>1, <2>2, <2>4, <3>1, <4>1 DEF Stays
      <4> QED BY <1>1, <2>1, <4>2, StaysOnce
    <3> QED BY <2>4, <3>2, <3>3 DEF OnceInv
  <2> QED BY <1>6, <2>5, <2>6 DEF Recover
<1> QED BY <1>3, <1>4, <1>5, <1>6 DEF Process

\* Unless the queue itself repeats what it delivers, no job is ever on its way twice, and one
\* that a refused write has dropped is not on its way at all (main.py:30-52, queue.py:36-53).
THEOREM TrackedAlwaysOnce == ~Redelivery => (Spec => []TrackedOnce)
<1> SUFFICES ASSUME ~Redelivery PROVE Spec => []TrackedOnce OBVIOUS
<1>1. Init => QuietInv /\ OnceInv
  BY ConstantsAssumption DEF Init, QuietInv, OnceInv, Distinct, OneCarrier, OneTimer, JobOnce,
     OnePlace, NoPlace, Queued, Carried
<1>2. Inv /\ QuietInv /\ OnceInv /\ [Next]_vars => QuietInv' /\ OnceInv'
  BY QuietGoesOn, OnceWork, OnceUpload, OnceProcess DEF Next
<1> QED BY <1>1, <1>2, OnceCounts, Invariance, PTL DEF Spec
====
