---- MODULE TranscribingPipeline_proofs ----
(***************************************************************************)
(* Proofs about ChunkPipeline and TranscribingPipeline for any number of   *)
(* chunks and permits: the pipeline's own safety, and that it uses the     *)
(* engine as WhisperEngine expects.                                        *)
(***************************************************************************)
EXTENDS TranscribingPipeline, FiniteSetTheorems, TLAPS

Whisper == INSTANCE WhisperEngine_proofs WITH Threads <- Calls

OneThread == {"normalizing", "transcribing", "splitting"}
Running == {c \in All : task[c] = "running"}
Busy == {c \in All : thread[c] = "busy"}

\* Which tasks there are in each phase of the run, and that a failure has a chunk.
TaskInv ==
  /\ run \in OneThread => chunks = {} /\ ~failed /\ \A c \in All : task[c] = "none"
  /\ \A c \in All : task[c] \in {"waiting", "running"} => run = "chunking"
  /\ \A c \in All \ chunks : task[c] = "none"
  /\ run = "chunking" => \A c \in chunks : task[c] \in {"waiting", "running"} \cup Settled
  /\ run = "chunking" /\ failed => \E c \in chunks : task[c] = "error"
  /\ run = "chunking" => \A c \in chunks : task[c] = "skipped" => failed

\* A permit is either there or with a running task, and a busy thread has one, unless the
\* run was cancelled: then the threads it leaves behind had theirs.
PermitInv ==
  /\ permits + Cardinality(Running) = MaxConcurrent
  /\ \A c \in All : thread[c] = "busy" => task[c] = "running" \/ run = "cancelled"
  /\ Cardinality(Busy) <= MaxConcurrent

\* The directory stays whole until the run ends, whose own thread is then done.
TmpInv == /\ run \notin Ended => tmp = "whole"
          /\ thread[0] = "busy" => run \in OneThread \cup {"cancelled"}

RunInv == TypeOK /\ TaskInv /\ PermitInv /\ TmpInv /\ OnlyWholeResults

USE PipelineAssumption DEF All, Ended, Settled, OneThread

\* The sets that are counted are finite.
LEMMA CountedSets == /\ IsFiniteSet(Running) /\ Cardinality(Running) \in Nat
                     /\ IsFiniteSet(Busy) /\ Cardinality(Busy) \in Nat
<1>1. IsFiniteSet(1..MaxChunks) BY FS_Interval
<1>2. Running \in SUBSET (1..MaxChunks) /\ Busy \in SUBSET (1..MaxChunks) BY DEF Running, Busy
<1> QED BY <1>1, <1>2, FS_Subset, FS_CardinalityType

\* The invariant holds when the run begins.
LEMMA RunInit == Init => RunInv
<1> SUFFICES ASSUME Init PROVE RunInv
  OBVIOUS
<1>1. Running = {} /\ Busy = {} BY DEF Init, Running, Busy
<1>2. TypeOK
  <2>1. thread \in [All \cup {0} -> {"none", "busy", "done", "threw"}]
    BY DEF Init
  <2>2. task \in [All -> {"none", "waiting", "running", "cancelled"} \cup Settled]
    BY DEF Init
  <2>3. permits \in 0..MaxConcurrent /\ chunks \subseteq All /\ run = "normalizing" BY DEF Init
  <2>4. failed \in BOOLEAN /\ tmp \in {"whole", "left", "gone"} BY DEF Init
  <2> QED BY <2>1, <2>2, <2>3, <2>4 DEF TypeOK
<1>3. TaskInv BY DEF Init, TaskInv
<1>4. PermitInv BY <1>1, FS_EmptySet DEF Init, PermitInv
<1>5. TmpInv BY DEF Init, TmpInv
<1>6. OnlyWholeResults BY DEF Init, OnlyWholeResults
<1> QED BY <1>2, <1>3, <1>4, <1>5, <1>6 DEF RunInv

\* A step that lets no thread begin and no task run keeps the counts.
LEMMA SameCounts ==
  ASSUME PermitInv, permits' = permits, Running' = Running, Busy' \subseteq Busy,
         \A c \in All : thread'[c] = "busy" => thread[c] = "busy",
         \A c \in All : task'[c] = task[c] \/ task[c] # "running",
         run = "cancelled" => run' = "cancelled"
  PROVE  PermitInv'
<1>1. Cardinality(Busy') <= Cardinality(Busy) BY CountedSets, FS_Subset
<1>2. IsFiniteSet(Busy') BY CountedSets, FS_Subset
<1>3. Cardinality(Busy') \in Nat BY <1>2, FS_CardinalityType
<1>4. Cardinality(Busy') <= MaxConcurrent BY <1>1, <1>3, CountedSets DEF PermitInv
<1>5. \A c \in All : thread'[c] = "busy" => task'[c] = "running" \/ run' = "cancelled"
  BY DEF PermitInv
<1> QED BY <1>4, <1>5 DEF PermitInv

\* The steps before the chunks keep the invariant (pipeline.py:51-79).
LEMMA FirstStepsKeepInv ==
  ASSUME RunInv, Normalized \/ Transcribed \/ StepFails \/ Split PROVE RunInv'
<1>0. run \in OneThread /\ chunks = {} /\ ~failed /\ (\A c \in All : task[c] = "none")
  BY DEF RunInv, TaskInv, Normalized, Transcribed, StepFails, Split
<1>1. TypeOK'
  <2>1. CASE Normalized BY <2>1 DEF RunInv, TypeOK, Normalized
  <2>2. CASE Transcribed BY <2>2 DEF RunInv, TypeOK, Transcribed, End
  <2>3. CASE StepFails BY <2>3 DEF RunInv, TypeOK, StepFails, End
  <2>4. CASE Split BY <2>4 DEF RunInv, TypeOK, Split
  <2> QED BY <2>1, <2>2, <2>3, <2>4
<1>2. TaskInv'
  <2>1. CASE Normalized BY <1>0, <2>1 DEF TaskInv, Normalized
  <2>2. CASE Transcribed BY <1>0, <2>2 DEF TaskInv, Transcribed, End
  <2>3. CASE StepFails BY <1>0, <2>3 DEF TaskInv, StepFails, End
  <2>4. CASE Split BY <1>0, <2>4 DEF TaskInv, Split
  <2> QED BY <2>1, <2>2, <2>3, <2>4
<1>3. PermitInv'
  <2>1. \A c \in All : thread'[c] = thread[c] /\ task'[c] # "running"
    BY <1>0 DEF RunInv, TypeOK, Normalized, Transcribed, StepFails, Split
  <2>2. Running' = Running /\ Busy' = Busy BY <1>0, <2>1 DEF Running, Busy
  <2>3. permits' = permits /\ run # "cancelled" /\ \A c \in All : task[c] # "running"
    BY <1>0 DEF Normalized, Transcribed, StepFails, Split
  <2> QED BY <2>1, <2>2, <2>3, SameCounts DEF RunInv
<1>4. TmpInv'
  BY <1>0 DEF RunInv, TmpInv, TypeOK, Normalized, Transcribed, StepFails, Split, End
<1>5. OnlyWholeResults'
  BY <1>0 DEF OnlyWholeResults, Normalized, Transcribed, StepFails, Split, End
<1> QED BY <1>1, <1>2, <1>3, <1>4, <1>5 DEF RunInv

\* A thread that ends keeps the invariant, whoever waits for it.
LEMMA ThreadEndsKeepsInv == ASSUME RunInv, NEW c \in Calls, ThreadEnds(c) PROVE RunInv'
<1> USE DEF Calls
<1>1. TypeOK' BY DEF RunInv, TypeOK, ThreadEnds
<1>2. TaskInv' BY DEF RunInv, TaskInv, ThreadEnds
<1>3. PermitInv'
  <2>1. \A b \in All : thread'[b] = "busy" => thread[b] = "busy"
    BY DEF RunInv, TypeOK, ThreadEnds
  <2>2. Running' = Running /\ Busy' \subseteq Busy BY <2>1 DEF Running, Busy, ThreadEnds
  <2> QED BY <2>1, <2>2, SameCounts DEF RunInv, ThreadEnds
<1>4. TmpInv' BY DEF RunInv, TmpInv, TypeOK, ThreadEnds
<1>5. OnlyWholeResults' BY DEF RunInv, OnlyWholeResults, ThreadEnds
<1> QED BY <1>1, <1>2, <1>3, <1>4, <1>5 DEF RunInv

\* A task that gets in takes a permit or gives it back at once (pipeline.py:81-86).
LEMMA EnterKeepsInv == ASSUME RunInv, NEW c \in All, Enter(c) PROVE RunInv'
<1>0. run = "chunking" /\ run' = run /\ c \notin Running /\ permits \in Nat /\ permits > 0
  BY DEF RunInv, TaskInv, TypeOK, Enter, Running, Permit
<1>1. CASE ~failed
  <2>1. task' = [task EXCEPT ![c] = "running"] /\ permits' = permits - 1
        /\ thread' = [thread EXCEPT ![c] = "busy"] /\ UNCHANGED <<run, chunks, failed, tmp>>
    BY <1>1 DEF Enter, Abandoned
  <2>2. TypeOK' BY <1>0, <2>1 DEF RunInv, TypeOK
  <2>3. TaskInv'
    <3>1. c \in chunks /\ chunks' = chunks /\ run' = run /\ failed' = failed
      BY <2>1 DEF RunInv, TaskInv, Enter
    <3>2. \A b \in All : task'[b] = IF b = c THEN "running" ELSE task[b]
      BY <2>1 DEF RunInv, TypeOK
    <3>3. \A b \in chunks : task[b] # "skipped" BY <1>0, <1>1 DEF RunInv, TaskInv
    <3>4. chunks \subseteq All BY DEF RunInv, TypeOK
    <3> QED BY <1>0, <1>1, <3>1, <3>2, <3>3, <3>4 DEF RunInv, TaskInv
  <2>4. Running' = Running \cup {c} BY <2>1 DEF RunInv, TypeOK, Running
  <2>5. Cardinality(Running') = Cardinality(Running) + 1
    BY <1>0, <2>4, CountedSets, FS_AddElement
  <2>6. \A b \in All : thread'[b] = "busy" => task'[b] = "running"
    BY <1>0, <2>1 DEF RunInv, PermitInv, TypeOK
  <2>7. Busy' \subseteq Running' /\ IsFiniteSet(Running')
    BY <2>4, <2>6, CountedSets, FS_AddElement DEF Busy, Running
  <2>8. Cardinality(Busy') <= Cardinality(Running') /\ Cardinality(Busy') \in Nat
    BY <2>7, FS_Subset, FS_CardinalityType
  <2>9. permits' + Cardinality(Running') = MaxConcurrent /\ permits' \in Nat
    BY <1>0, <2>1, <2>5, CountedSets DEF RunInv, PermitInv
  <2>10. Cardinality(Busy') <= MaxConcurrent
    BY <2>5, <2>8, <2>9, CountedSets
  <2>11. PermitInv' BY <2>6, <2>9, <2>10 DEF PermitInv
  <2>12. TmpInv' /\ OnlyWholeResults'
    BY <1>0, <2>1 DEF RunInv, TmpInv, OnlyWholeResults, TypeOK
  <2> QED BY <2>2, <2>3, <2>11, <2>12 DEF RunInv
<1>2. CASE failed
  <2>1. task' = [task EXCEPT ![c] = "skipped"] /\ UNCHANGED <<run, chunks, failed, tmp, thread, permits>>
    BY <1>2 DEF Enter, Abandoned, TakenAndGivenBack
  <2>2. TypeOK' BY <2>1 DEF RunInv, TypeOK
  <2>3. task[c] = "waiting" BY DEF Enter
  <2>4. TaskInv' BY <1>0, <1>2, <2>1, <2>3 DEF RunInv, TaskInv, TypeOK
  <2>5. Running' = Running /\ Busy' = Busy BY <2>1, <2>3 DEF RunInv, TypeOK, Running, Busy
  <2>6. \A b \in All : task'[b] = task[b] \/ task[b] # "running"
    BY <2>1, <2>3 DEF RunInv, TypeOK
  <2>7. PermitInv' BY <2>1, <2>5, <2>6, SameCounts DEF RunInv
  <2>8. TmpInv' /\ OnlyWholeResults' BY <1>0, <2>1 DEF RunInv, TmpInv, OnlyWholeResults
  <2> QED BY <2>2, <2>4, <2>7, <2>8 DEF RunInv
<1> QED BY <1>1, <1>2

\* A task that goes on gives its permit back (pipeline.py:85-89).
LEMMA ResumeKeepsInv == ASSUME RunInv, NEW c \in All, Resume(c) PROVE RunInv'
<1>0. run = "chunking" /\ run' = run /\ c \in Running /\ thread' = thread
  BY DEF RunInv, TaskInv, Resume, Running
<1>1. Running' = Running \ {c} BY DEF RunInv, TypeOK, Resume, Running
<1>2. Cardinality(Running') = Cardinality(Running) - 1 /\ Cardinality(Running') \in Nat
  <2>1. IsFiniteSet(Running') BY <1>1, CountedSets, FS_RemoveElement
  <2> QED BY <1>0, <1>1, <2>1, CountedSets, FS_RemoveElement, FS_CardinalityType
<1>3. permits' = permits + 1 BY DEF Resume, Released
<1>4. permits' + Cardinality(Running') = MaxConcurrent /\ permits' \in 0..MaxConcurrent
  BY <1>2, <1>3, CountedSets DEF RunInv, PermitInv, TypeOK
<1>5. TypeOK' BY <1>4 DEF RunInv, TypeOK, Resume
<1>6. TaskInv'
  <2>2. failed' => \E b \in chunks : task'[b] = "error"
    <3>1. CASE thread[c] = "threw" /\ c \in chunks BY <3>1 DEF RunInv, TypeOK, Resume
    <3>2. CASE failed BY <1>0, <3>2 DEF RunInv, TaskInv, TypeOK, Resume
    <3>3. c \in chunks BY DEF RunInv, TaskInv, Resume
    <3> QED BY <3>1, <3>2, <3>3 DEF Resume
  <2> QED BY <1>0, <2>2 DEF RunInv, TaskInv, TypeOK, Resume
<1>7. PermitInv'
  <2>1. thread[c] # "busy" BY DEF Resume
  <2>2. Busy' = Busy BY <1>0 DEF Busy
  <2>3. \A b \in All : thread'[b] = "busy" => task'[b] = "running"
    BY <1>0, <2>1 DEF RunInv, PermitInv, TypeOK, Resume
  <2> QED BY <1>4, <2>2, <2>3 DEF RunInv, PermitInv
<1>8. TmpInv' /\ OnlyWholeResults' BY <1>0 DEF RunInv, TmpInv, OnlyWholeResults, Resume
<1> QED BY <1>5, <1>6, <1>7, <1>8 DEF RunInv

\* The end of the gather, and a cancellation, keep the invariant (pipeline.py:91-97).
LEMMA EndKeepsInv == ASSUME RunInv, Gather \/ Cancel PROVE RunInv'
<1>1. CASE Gather
  <2>0. \A c \in All : task[c] # "running" /\ task[c] # "waiting"
    <3>1. \A c \in All \ chunks : task[c] = "none" BY DEF RunInv, TaskInv
    <3> QED BY <1>1, <3>1 DEF Gather, AllSettled
  <2>1. TypeOK' BY <1>1 DEF RunInv, TypeOK, Gather, End
  <2>2. TaskInv' BY <1>1, <2>0 DEF RunInv, TaskInv, Gather, End
  <2>3. PermitInv'
    <3>1. Running' = Running /\ Busy' = Busy BY <1>1 DEF Running, Busy, Gather
    <3> QED BY <1>1, <3>1, SameCounts DEF RunInv, Gather
  <2>4. TmpInv' BY <1>1 DEF RunInv, TmpInv, Gather, End
  <2>5. OnlyWholeResults'
    BY <1>1 DEF RunInv, TaskInv, OnlyWholeResults, Gather, End, AllSettled, AnyError
  <2> QED BY <2>1, <2>2, <2>3, <2>4, <2>5 DEF RunInv
<1>2. CASE Cancel
  <2>1. TypeOK'
    <3>1. failed' \in BOOLEAN
      <4>1. failed \in BOOLEAN BY DEF RunInv, TypeOK
      <4> QED BY <1>2, <4>1, Zenon DEF Cancel
    <3>2. tmp' \in {"whole", "left", "gone"} /\ run' = "cancelled" /\ chunks' = chunks /\ thread' = thread
          /\ permits' = MaxConcurrent
      BY <1>2 DEF Cancel, End
    <3>3. task' \in [All -> {"none", "waiting", "running", "cancelled"} \cup Settled]
      BY <1>2 DEF RunInv, TypeOK, Cancel
    <3> QED BY <3>1, <3>2, <3>3 DEF RunInv, TypeOK
  <2>2. TaskInv' BY <1>2 DEF RunInv, TaskInv, TypeOK, Cancel, End
  <2>3. Running' = {} /\ Busy' = Busy BY <1>2 DEF RunInv, TypeOK, Running, Busy, Cancel
  <2>4. PermitInv' BY <1>2, <2>3, FS_EmptySet DEF RunInv, PermitInv, Cancel, End
  <2>5. TmpInv' BY <1>2 DEF RunInv, TmpInv, Cancel, End
  <2>6. OnlyWholeResults' BY <1>2 DEF OnlyWholeResults, Cancel, End
  <2> QED BY <2>1, <2>2, <2>4, <2>5, <2>6 DEF RunInv
<1> QED BY <1>1, <1>2

\* A late file of a cancelled run changes nothing but the directory (audio.py:95, 175, 204).
LEMMA LateFileKeepsInv == ASSUME RunInv, LateFile PROVE RunInv'
<1>1. TypeOK' BY DEF RunInv, TypeOK, LateFile
<1>2. TaskInv' BY DEF RunInv, TaskInv, LateFile
<1>3. PermitInv'
  <2>1. Running' = Running /\ Busy' = Busy BY DEF Running, Busy, LateFile
  <2> QED BY <2>1, SameCounts DEF RunInv, LateFile
<1>4. TmpInv' /\ OnlyWholeResults' BY DEF RunInv, TmpInv, OnlyWholeResults, LateFile
<1> QED BY <1>1, <1>2, <1>3, <1>4 DEF RunInv

\* Every step of the run, or none, preserves the invariant.
LEMMA RunNext == RunInv /\ [Next]_vars => RunInv'
<1> SUFFICES ASSUME RunInv, [Next]_vars PROVE RunInv'
  OBVIOUS
<1>1. CASE Next
  BY <1>1, FirstStepsKeepInv, ThreadEndsKeepsInv, EnterKeepsInv, ResumeKeepsInv, EndKeepsInv,
     LateFileKeepsInv
  DEF Next, Calls
<1>2. CASE UNCHANGED vars
  BY <1>2 DEF vars, RunInv, TypeOK, TaskInv, PermitInv, TmpInv, OnlyWholeResults, Running, Busy
<1> QED BY <1>1, <1>2

----------------------------------------------------------------------------
(* The pipeline with its engine.                                           *)

\* A step of the pipeline is a step of the run, or none of it.
LEMMA PipelineStepsAreRunSteps == [PipelineNext]_allVars => [Next]_vars
<1> SUFFICES ASSUME [PipelineNext]_allVars PROVE [Next]_vars
  OBVIOUS
<1>1. CASE UNCHANGED allVars BY <1>1 DEF allVars
<1>2. CASE BeginPass \/ FileWorks \/ WritesLate
  BY <1>2 DEF BeginPass, FileWorks, WritesLate, Next
<1>3. CASE Apart(Transcribed) \/ Apart(StepFails) \/ Apart(Split) \/ Apart(Gather) \/ Apart(Cancel)
  BY <1>3 DEF Apart, Next
<1>4. ASSUME NEW c \in All, BeginChunk(c) \/ Apart(Resume(c)) PROVE [Next]_vars
  BY <1>4 DEF BeginChunk, Apart, Next
<1>5. ASSUME NEW c \in Calls, EngineWorks(c) PROVE [Next]_vars
  BY <1>5 DEF EngineWorks, Next, Calls
<1> QED BY <1>1, <1>2, <1>3, <1>4, <1>5 DEF PipelineNext

\* The invariant of the run holds in the pipeline.
LEMMA PipelineRunInv == PipelineSpec => []RunInv
<1>1. PipelineInit => RunInv BY RunInit DEF PipelineInit
<1>2. RunInv /\ [PipelineNext]_allVars => RunInv' BY PipelineStepsAreRunSteps, RunNext
<1> QED BY <1>1, <1>2, PTL DEF PipelineSpec

\* A None of a chunk that was skipped, or a failure, never reaches the merge (pipeline.py:81-97).
THEOREM OnlyWholeResultsMerged == PipelineSpec => []OnlyWholeResults
<1>1. RunInv => OnlyWholeResults BY DEF RunInv
<1> QED BY <1>1, PipelineRunInv, PTL

\* Never more threads in the engine than max_concurrent_chunks, those of a cancelled run
\* included, for any number of chunks (pipeline.py:78-86).
THEOREM ThreadsAlwaysBounded == PipelineSpec => []ThreadsBounded
<1>1. RunInv => ThreadsBounded BY DEF RunInv, PermitInv, ThreadsBounded, Busy
<1> QED BY <1>1, PipelineRunInv, PTL

\* No file is removed while a thread may read it, but for a cancellation (pipeline.py:54-93).
THEOREM FilesAlwaysOutlive == PipelineSpec => []FilesOutliveThreads
<1>1. RunInv => FilesOutliveThreads
  BY DEF RunInv, TaskInv, PermitInv, TmpInv, TypeOK, FilesOutliveThreads
<1> QED BY <1>1, PipelineRunInv, PTL

\* The pipeline uses the engine as WhisperEngine expects: each thread calls it once, and
\* goes through it by its steps alone (pipeline.py:63-86, engines.py:43-75).
THEOREM PipelineImplementsEngine == PipelineSpec => Engine!Spec
<1>1. PipelineInit => Engine!Init BY DEF PipelineInit
<1>2. ASSUME [PipelineNext]_allVars PROVE [Engine!Next]_(Engine!engineVars)
  <2>1. CASE UNCHANGED inEngine BY <2>1 DEF inEngine, Engine!engineVars
  <2>2. CASE UNCHANGED allVars BY <2>1, <2>2 DEF allVars
  <2>3. CASE BeginPass
    <3>1. 0 \in Calls BY DEF Calls
    <3> QED BY <2>1, <2>3, <3>1 DEF BeginPass, Engine!Next
  <2>4. CASE FileWorks \/ WritesLate BY <2>1, <2>4 DEF FileWorks, WritesLate
  <2>5. CASE Apart(Transcribed) \/ Apart(StepFails) \/ Apart(Split) \/ Apart(Gather) \/ Apart(Cancel)
    BY <2>1, <2>5 DEF Apart
  <2>6. ASSUME NEW c \in All, BeginChunk(c) \/ Apart(Resume(c))
        PROVE  [Engine!Next]_(Engine!engineVars)
    <3>1. c \in Calls BY DEF Calls
    <3> QED BY <2>1, <2>6, <3>1 DEF BeginChunk, Apart, Engine!Next
  <2>7. ASSUME NEW c \in Calls, EngineWorks(c) PROVE [Engine!Next]_(Engine!engineVars)
    BY <2>7 DEF EngineWorks, Engine!Next
  <2> QED BY <1>2, <2>2, <2>3, <2>4, <2>5, <2>6, <2>7 DEF PipelineNext
<1> QED BY <1>1, <1>2, PTL DEF PipelineSpec, Engine!Spec

\* What WhisperEngine_proofs says of the engine is about this one.
LEMMA SameEngine ==
  /\ Engine!Init <=> Whisper!Init
  /\ [Engine!Next]_(Engine!engineVars) <=> [Whisper!Next]_(Whisper!engineVars)
  /\ UNCHANGED Engine!engineVars <=> UNCHANGED Whisper!engineVars
  /\ Engine!UsedSafely <=> Whisper!UsedSafely
<1>1. Engine!Init <=> Whisper!Init BY DEF Engine!Init, Whisper!Init
<1>2. Engine!engineVars = Whisper!engineVars BY DEF Engine!engineVars, Whisper!engineVars
<1>3. (Engine!engineVars)' = (Whisper!engineVars)' BY DEF Engine!engineVars, Whisper!engineVars
<1>4. ASSUME NEW t \in Calls
      PROVE  (Engine!Called(t) \/ Engine!EngineStep(t)) <=> (Whisper!Called(t) \/ Whisper!EngineStep(t))
  <2> USE DEF Engine!Goto, Whisper!Goto
  <2>1. Engine!Called(t) <=> Whisper!Called(t) BY DEF Engine!Called, Whisper!Called
  <2>2. Engine!CheckModel(t) <=> Whisper!CheckModel(t) BY DEF Engine!CheckModel, Whisper!CheckModel
  <2>3. Engine!EnterLoad(t) <=> Whisper!EnterLoad(t)
    BY DEF Engine!EnterLoad, Whisper!EnterLoad, Engine!StillMissing, Whisper!StillMissing
  <2>4. Engine!ChooseDevice(t) <=> Whisper!ChooseDevice(t)
    BY DEF Engine!ChooseDevice, Whisper!ChooseDevice, Engine!Device, Whisper!Device
  <2>5. (Engine!Load(t) <=> Whisper!Load(t)) /\ (Engine!LoadFails(t) <=> Whisper!LoadFails(t))
    BY DEF Engine!Load, Whisper!Load, Engine!LoadFails, Whisper!LoadFails, Engine!Device, Whisper!Device
  <2>6. Engine!Use(t) <=> Whisper!Use(t) BY DEF Engine!Use, Whisper!Use, Engine!ModelFree, Whisper!ModelFree
  <2>7. (Engine!Used(t) <=> Whisper!Used(t)) /\ (Engine!Return(t) <=> Whisper!Return(t))
    BY DEF Engine!Used, Whisper!Used, Engine!Return, Whisper!Return
  <2> QED BY <2>1, <2>2, <2>3, <2>4, <2>5, <2>6, <2>7 DEF Engine!EngineStep, Whisper!EngineStep
<1>5. Engine!Next <=> Whisper!Next BY <1>4 DEF Engine!Next, Whisper!Next
<1>6. Engine!UsedSafely <=> Whisper!UsedSafely BY DEF Engine!UsedSafely, Whisper!UsedSafely
<1> QED BY <1>1, <1>2, <1>3, <1>5, <1>6

\* So the threads of the pipeline, those a cancelled run leaves behind included, use one
\* model, one at a time (engines.py:66-74).
THEOREM PipelineUsesModelSafely == PipelineSpec => []UsedSafely
<1>1. Engine!Spec => Whisper!Spec BY SameEngine, PTL DEF Engine!Spec, Whisper!Spec
<1> QED BY <1>1, SameEngine, PipelineImplementsEngine, Whisper!AlwaysUsedSafely, PTL DEF UsedSafely

\* They load it once (engines.py:43-64).
THEOREM PipelineLoadsOnce == PipelineSpec => OneModel
<1>1. Engine!Spec => Whisper!Spec BY SameEngine, PTL DEF Engine!Spec, Whisper!Spec
<1>2. Whisper!OneModel => Engine!OneModel
  BY SameEngine, PTL DEF Whisper!OneModel, Engine!OneModel
<1> QED BY <1>1, <1>2, PipelineImplementsEngine, Whisper!OneModelEver, PTL DEF OneModel

----------------------------------------------------------------------------
(* Calls and threads.                                                      *)

\* Where a call moves to: into the engine, about in it, or out of it.
InCall == {"checking", "waiting", "importing", "cpu", "cuda", "ready", "using", "measuring"}
\* A step of the engine moves one call, from idle or from within the engine.
LEMMA CallMoves ==
  ASSUME Engine!TypeOK, NEW c \in Calls
  PROVE  /\ Engine!Called(c) => /\ call[c] = "idle" /\ call'[c] = "checking"
                                /\ \A b \in Calls \ {c} : call'[b] = call[b]
         /\ Engine!EngineStep(c) => /\ call[c] \in InCall /\ call'[c] \in InCall \cup {"done", "threw"}
                                    /\ \A b \in Calls \ {c} : call'[b] = call[b]
<1> USE DEF Engine!TypeOK, Engine!Place, Engine!Device, Engine!Goto, InCall
<1>1. Engine!Called(c) => /\ call[c] = "idle" /\ call'[c] = "checking"
                          /\ \A b \in Calls \ {c} : call'[b] = call[b]
  BY DEF Engine!Called
<1>2. ASSUME Engine!EngineStep(c)
      PROVE  /\ call[c] \in InCall /\ call'[c] \in InCall \cup {"done", "threw"}
             /\ \A b \in Calls \ {c} : call'[b] = call[b]
  <2>1. CASE Engine!CheckModel(c) BY <2>1 DEF Engine!CheckModel
  <2>2. CASE Engine!EnterLoad(c) BY <2>2 DEF Engine!EnterLoad
  <2>3. CASE Engine!ChooseDevice(c) BY <2>3 DEF Engine!ChooseDevice
  <2>4. CASE Engine!Load(c) BY <2>4 DEF Engine!Load
  <2>5. CASE Engine!LoadFails(c) BY <2>5 DEF Engine!LoadFails
  <2>6. CASE Engine!Use(c) BY <2>6 DEF Engine!Use
  <2>7. CASE Engine!Used(c) BY <2>7 DEF Engine!Used
  <2>8. CASE Engine!Return(c) BY <2>8 DEF Engine!Return
  <2> QED BY <1>2, <2>1, <2>2, <2>3, <2>4, <2>5, <2>6, <2>7, <2>8 DEF Engine!EngineStep
<1> QED BY <1>1, <1>2

\* The engine's calls stay those that the pipeline has made.
LEMMA CallsKeepMatch ==
  ASSUME TypeOK, Engine!TypeOK, CallsMatch, [PipelineNext]_allVars
  PROVE  CallsMatch'
<1> USE DEF CallsMatch, Calls
<1>1. CASE UNCHANGED <<thread, call>> BY <1>1
<1>2. CASE BeginPass
  <2>1. \A c \in All : thread'[c] = thread[c] BY <1>2 DEF BeginPass, Normalized, TypeOK
  <2>2. \A c \in All : call'[c] = call[c] BY <1>2, CallMoves DEF BeginPass, inEngine
  <2> QED BY <2>1, <2>2
<1>3. CASE FileWorks
  <2>1. \A c \in All : thread'[c] = thread[c] BY <1>3 DEF FileWorks, ThreadEnds, TypeOK
  <2> QED BY <1>3, <2>1 DEF FileWorks, inEngine
<1>4. ASSUME NEW c \in All, BeginChunk(c) PROVE CallsMatch'
  <2>1. CASE thread'[c] = "busy"
    <3>1. call'[c] = "checking" /\ \A b \in All \ {c} : call'[b] = call[b]
      BY <1>4, <2>1, CallMoves DEF BeginChunk
    <3>2. \A b \in All \ {c} : thread'[b] = thread[b] BY <1>4 DEF BeginChunk, Enter, TypeOK
    <3> QED BY <2>1, <3>1, <3>2
  <2>2. CASE thread'[c] # "busy"
    <3>1. thread' = thread /\ call' = call
      BY <1>4, <2>2 DEF BeginChunk, Enter, TypeOK, inEngine
    <3> QED BY <3>1
  <2> QED BY <2>1, <2>2
<1>5. ASSUME NEW c \in Calls, EngineWorks(c) PROVE CallsMatch'
  <2>1. /\ call[c] \in InCall /\ call'[c] \in InCall \cup {"done", "threw"}
        /\ \A b \in Calls \ {c} : call'[b] = call[b]
    BY <1>5, CallMoves DEF EngineWorks
  <2>2. CASE call'[c] \in {"done", "threw"}
    <3>1. thread'[c] = call'[c] /\ \A b \in Calls \ {c} : thread'[b] = thread[b]
      BY <1>5, <2>2 DEF EngineWorks, ThreadEnds, TypeOK
    <3> QED BY <2>1, <2>2, <3>1
  <2>3. CASE call'[c] \notin {"done", "threw"}
    <3>1. thread' = thread BY <1>5, <2>3 DEF EngineWorks, vars
    <3> QED BY <2>1, <2>3, <3>1 DEF InCall
  <2> QED BY <2>2, <2>3
<1>6. CASE Apart(Transcribed) \/ Apart(StepFails) \/ Apart(Split) \/ Apart(Gather) \/ Apart(Cancel)
           \/ (\E c \in All : Apart(Resume(c))) \/ WritesLate
  BY <1>1, <1>6 DEF Apart, inEngine, Transcribed, StepFails, Split, Gather, Cancel, Resume,
     WritesLate, LateFile
<1> QED BY <1>1, <1>2, <1>3, <1>4, <1>5, <1>6 DEF PipelineNext, allVars, vars, inEngine

\* The pipeline and the engine keep their types, and a thread counts as busy exactly while
\* its call is in the engine (pipeline.py:63-86, engines.py:43-75).
THEOREM PipelineTypeCorrect == PipelineSpec => []PipelineTypeOK
<1>1. RunInv => TypeOK BY DEF RunInv
<1>2. Engine!Spec => Whisper!Spec BY SameEngine, PTL DEF Engine!Spec, Whisper!Spec
<1>3. Whisper!TypeOK <=> Engine!TypeOK
  BY DEF Whisper!TypeOK, Engine!TypeOK, Whisper!Place, Engine!Place, Whisper!Device, Engine!Device
<1>4. PipelineSpec => []Engine!TypeOK
  BY <1>2, <1>3, PipelineImplementsEngine, Whisper!EngineTypeCorrect, PTL
<1>5. PipelineInit => CallsMatch
  BY DEF PipelineInit, Init, Engine!Init, CallsMatch, Calls
<1>6. TypeOK /\ Engine!TypeOK /\ CallsMatch /\ [PipelineNext]_allVars => CallsMatch'
  BY CallsKeepMatch
<1>7. PipelineSpec => []CallsMatch
  BY <1>1, <1>4, <1>5, <1>6, PipelineRunInv, PTL DEF PipelineSpec
<1> QED BY <1>1, <1>4, <1>7, PipelineRunInv, PTL DEF PipelineTypeOK
====
