---- MODULE TranscribingPipeline ----
(***************************************************************************)
(* ChunkPipeline with the engine its threads call: thread c is in          *)
(* engine.transcribe for chunk c, thread 0 first in ffmpeg and wave and,   *)
(* if the file takes one pass, in engine.transcribe.                       *)
(***************************************************************************)
EXTENDS ChunkPipeline

VARIABLES call, loadLock, useLock, model, fp16

Calls == All \cup {0}
Engine == INSTANCE WhisperEngine WITH Threads <- Calls

inEngine == <<call, loadLock, useLock, model, fp16>>
allVars == <<vars, inEngine>>

PipelineInit == Init /\ Engine!Init

\* A step of the run, without the engine.
Apart(Step) == Step /\ UNCHANGED inEngine

\* A thread of an engine call begins with it and ends with it.
BeginPass == Normalized /\ IF run' = "transcribing" THEN Engine!Called(0) ELSE UNCHANGED inEngine
BeginChunk(c) == Enter(c) /\ IF thread'[c] = "busy" THEN Engine!Called(c) ELSE UNCHANGED inEngine
EngineWorks(c) == /\ Engine!EngineStep(c)
                  /\ IF call'[c] \in {"done", "threw"} THEN ThreadEnds(c) /\ thread'[c] = call'[c]
                                                       ELSE UNCHANGED vars
\* ffmpeg and wave.
FileWorks == ThreadEnds(0) /\ call[0] = "idle" /\ UNCHANGED inEngine
\* Only they write in the directory; the engine reads.
WritesLate == LateFile /\ call[0] = "idle" /\ UNCHANGED inEngine

PipelineNext ==
  \/ BeginPass \/ FileWorks \/ WritesLate
  \/ Apart(Transcribed) \/ Apart(StepFails) \/ Apart(Split) \/ Apart(Gather) \/ Apart(Cancel)
  \/ \E c \in All : BeginChunk(c) \/ Apart(Resume(c))
  \/ \E c \in Calls : EngineWorks(c)

\* The event loop runs what is ready; ffmpeg ends, after half an hour at the latest, the
\* engine is taken to end, and so does the wait for a lock, as every thread takes it once.
PipelineSpec ==
  /\ PipelineInit /\ [][PipelineNext]_allVars
  /\ WF_allVars(BeginPass) /\ WF_allVars(FileWorks)
  /\ WF_allVars(Apart(Transcribed)) /\ WF_allVars(Apart(StepFails))
  /\ WF_allVars(Apart(Split)) /\ WF_allVars(Apart(Gather))
  /\ \A c \in All : WF_allVars(BeginChunk(c)) /\ WF_allVars(Apart(Resume(c)))
  /\ \A c \in Calls : WF_allVars(EngineWorks(c))

----------------------------------------------------------------------------
\* A thread is busy in the engine exactly while its call has not ended.
CallsMatch == \A c \in All :
  thread[c] = (CASE call[c] = "idle" -> "none"
                 [] call[c] \in {"done", "threw"} -> call[c]
                 [] OTHER -> "busy")

PipelineTypeOK == TypeOK /\ Engine!TypeOK /\ CallsMatch

\* The engine's properties, with the threads the pipeline makes, those a cancelled run
\* leaves behind included (engines.py:43-74).
OneModel == Engine!OneModel
UsedSafely == Engine!UsedSafely
====
