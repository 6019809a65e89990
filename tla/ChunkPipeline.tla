---- MODULE ChunkPipeline ----
(***************************************************************************)
(* One TranscriptionPipeline.run (pipeline.py): normalise, then transcribe *)
(* in one pass or split into chunks that are transcribed side by side.     *)
(* Blocking calls run on threads (asyncio.to_thread); a coroutine goes on  *)
(* some time after its thread has ended.  The shutdown of the service may  *)
(* cancel the run at any await, and cancelling does not stop a thread.     *)
(***************************************************************************)
EXTENDS Integers, FiniteSets

CONSTANTS MaxChunks,             \* bound on the chunks of one file
          MaxConcurrent          \* max_concurrent_chunks

ASSUME PipelineAssumption == MaxChunks \in Nat \ {0} /\ MaxConcurrent \in Nat \ {0}

VARIABLES run,      \* where the coroutine is, or how it has ended
          chunks,   \* the chunks of the file, once it has been split
          task,     \* task[c]: the coroutine transcribe_chunk for chunk c
          thread,   \* thread[c]: its engine.transcribe thread; thread[0]: the run's own
          permits,  \* the semaphore's count
          failed,   \* the asyncio.Event
          tmp       \* the temporary directory: whole, partly left behind, or gone

vars == <<run, chunks, task, thread, permits, failed, tmp>>

All == 1..MaxChunks
Ended == {"returned", "raised", "cancelled"}
Settled == {"ok", "error", "skipped"}

Init == /\ run = "normalizing"
        /\ chunks = {}
        /\ task = [c \in All |-> "none"]
        /\ thread = [c \in All \cup {0} |-> IF c = 0 THEN "busy" ELSE "none"]
        /\ permits = MaxConcurrent
        /\ failed = FALSE
        /\ tmp = "whole"

----------------------------------------------------------------------------
\* A thread comes to its end, whoever still waits for it.
ThreadEnds(c) == /\ thread[c] = "busy"
                 /\ \E result \in {"done", "threw"} : thread' = [thread EXCEPT ![c] = result]
                 /\ UNCHANGED <<run, chunks, task, permits, failed, tmp>>

\* Leaving the with block removes the temporary directory, as far as that works: errors
\* of the clean-up are ignored.
End(how) == run' = how /\ tmp' \in {"gone", "left"}

\* The thread of a run that was cancelled goes on in the directory: ffmpeg or the split
\* writes a file there, and makes the directory again if it is gone.
LateFile == /\ run = "cancelled" /\ thread[0] = "busy"
            /\ tmp' = "left"
            /\ UNCHANGED <<run, chunks, task, thread, permits, failed>>

\* normalize_to_wav is done and the length read: short files take one pass, long ones are split.
Normalized == /\ run = "normalizing" /\ thread[0] = "done"
              /\ run' \in {"transcribing", "splitting"}
              /\ thread' = [thread EXCEPT ![0] = "busy"]
              /\ UNCHANGED <<chunks, task, permits, failed, tmp>>

Transcribed == /\ run = "transcribing" /\ thread[0] = "done"
               /\ End("returned")
               /\ UNCHANGED <<chunks, task, thread, permits, failed>>

StepFails == /\ run \in {"normalizing", "transcribing", "splitting"} /\ thread[0] = "threw"
             /\ End("raised")
             /\ UNCHANGED <<chunks, task, thread, permits, failed>>

\* split_into_chunks is done; gather makes one task per chunk.
Split == /\ run = "splitting" /\ thread[0] = "done"
         /\ \E n \in All : chunks' = 1..n
         /\ task' = [c \in All |-> IF c \in chunks' THEN "waiting" ELSE "none"]
         /\ run' = "chunking"
         /\ UNCHANGED <<thread, permits, failed, tmp>>

----------------------------------------------------------------------------
(* Chunks side by side.                                                   *)
(*                                                                         *)
(* Operators whose comment begins with "Mutant" are plausible defects of   *)
(* the definition below them; only the checks of the properties use them.  *)

\* Mutant: a task that finds no permit goes in all the same.
NoPermitNeeded == permits >= 0
Permit == permits > 0

Abandoned == failed

\* Mutant: acquire and release without a with block, and a return in between.
KeptOnReturn == permits - 1
TakenAndGivenBack == permits

\* Mutant: a failing task releases in its handler and again on its way out.
ReleasedTwice(c) == permits + (IF thread[c] = "threw" THEN 2 ELSE 1)
Released(c) == permits + 1

\* The semaphore lets tasks in first come, first served; a task that gets in
\* after a failure gives its permit back at once.
Enter(c) == /\ task[c] = "waiting" /\ Permit
            /\ \A b \in chunks : task[b] = "waiting" => c <= b
            /\ IF Abandoned
               THEN /\ task' = [task EXCEPT ![c] = "skipped"]
                    /\ permits' = TakenAndGivenBack
                    /\ UNCHANGED thread
               ELSE /\ task' = [task EXCEPT ![c] = "running"]
                    /\ permits' = permits - 1
                    /\ thread' = [thread EXCEPT ![c] = "busy"]
            /\ UNCHANGED <<run, chunks, failed, tmp>>

\* The task goes on with what its thread brought.
Resume(c) == /\ task[c] = "running" /\ thread[c] \in {"done", "threw"}
             /\ task' = [task EXCEPT ![c] = IF thread[c] = "done" THEN "ok" ELSE "error"]
             /\ failed' = (failed \/ thread[c] = "threw")
             /\ permits' = Released(c)
             /\ UNCHANGED <<run, chunks, thread, tmp>>

\* Mutant: gather without return_exceptions goes on at the first error.
FirstErrorSuffices == (\A c \in chunks : task[c] \in Settled) \/ (\E c \in chunks : task[c] = "error")
AllSettled == \A c \in chunks : task[c] \in Settled

\* Mutant: only the last outcome is looked at.
LastOutcome == \E c \in chunks : task[c] = "error" /\ \A b \in chunks : b <= c
AnyError == \E c \in chunks : task[c] = "error"

\* gather returns; the first exception is raised, otherwise the outcomes are merged.
Gather == /\ run = "chunking" /\ AllSettled
          /\ End(IF AnyError THEN "raised" ELSE "returned")
          /\ UNCHANGED <<chunks, task, thread, permits, failed>>

\* Cancelled at shutdown: gather cancels its tasks, their threads go on.
Cancel == /\ run \notin Ended
          /\ End("cancelled")
          /\ task' = [c \in All |-> IF task[c] \in {"waiting", "running"}
                                    THEN "cancelled" ELSE task[c]]
          /\ failed' = (failed \/ \E c \in chunks : task[c] = "running")
          /\ permits' = MaxConcurrent
          /\ UNCHANGED <<chunks, thread>>

----------------------------------------------------------------------------
Next == \/ Normalized \/ Transcribed \/ StepFails \/ Split \/ Gather \/ Cancel \/ LateFile
        \/ \E c \in All : Enter(c) \/ Resume(c)
        \/ \E c \in All \cup {0} : ThreadEnds(c)

Spec == Init /\ [][Next]_vars

----------------------------------------------------------------------------
TypeOK == /\ run \in {"normalizing", "transcribing", "splitting", "chunking"} \cup Ended
          /\ chunks \subseteq All
          /\ task \in [All -> {"none", "waiting", "running", "cancelled"} \cup Settled]
          /\ thread \in [All \cup {0} -> {"none", "busy", "done", "threw"}]
          /\ permits \in 0..MaxConcurrent
          /\ failed \in BOOLEAN
          /\ tmp \in {"whole", "left", "gone"}

\* A chunk that was skipped after a failure has the outcome None: it must never
\* reach merge_chunk_results (pipeline.py:81-97).
OnlyWholeResults == (run = "returned" /\ chunks # {}) => \A c \in chunks : task[c] = "ok"

\* No more engine calls at a time than configured, the orphans of a cancelled run
\* included (pipeline.py:78-86).
ThreadsBounded == Cardinality({c \in All : thread[c] = "busy"}) <= MaxConcurrent

\* All files are there as long as a thread may read them; only a cancelled run
\* removes them too early (pipeline.py:54-66, 91-93).
FilesOutliveThreads ==
  \A c \in All \cup {0} : thread[c] = "busy" => tmp = "whole" \/ run = "cancelled"

\* A failed chunk makes the run raise, if it is not cancelled first.
FailureIsRaised == failed ~> run \in {"raised", "cancelled"}

\* The worker that awaits the run gets it back: whatever fails, no chunk waits for ever
\* for a permit or for a lock of the engine (pipeline.py:78-93, engines.py:43-74).
RunEnds == <>(run \in Ended)
====
