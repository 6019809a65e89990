---- MODULE ChunkPlan ----
(***************************************************************************)
(* audio.py: plan_chunks lays windows over a file, one per turn of its     *)
(* loop, and split_into_chunks rounds them to frames.  The settings are    *)
(* in seconds and may be finer than a frame, so windows are counted in     *)
(* ticks and chunks in frames.                                             *)
(***************************************************************************)
EXTENDS Integers, Sequences

CONSTANTS TicksPerFrame,
          Settings   \* files and settings: frames, chunk_length and overlap in ticks

ASSUME PlanAssumption ==
  /\ TicksPerFrame \in Nat \ {0}
  /\ \A p \in Settings : /\ p.frames \in Nat \ {0}
                         /\ p.length \in Nat /\ p.overlap \in Nat
                         /\ p.overlap < p.length      \* config.py, and plan_chunks again

VARIABLES setting,  \* chosen once
          windows,  \* of plan_chunks, in ticks
          planned   \* has its loop returned?

planVars == <<setting, windows, planned>>

PlanInit == /\ setting \in Settings
            /\ windows = <<>>
            /\ planned = FALSE

duration == setting.frames * TicksPerFrame
step == setting.length - setting.overlap

Lesser(a, b) == IF a <= b THEN a ELSE b
Greater(a, b) == IF a >= b THEN a ELSE b

----------------------------------------------------------------------------
(* Operators whose comment begins with "Mutant" are plausible defects of   *)
(* the definition below them; only the checks of the properties use them.  *)

\* Mutant: a start in the file's last window's worth of audio ends the loop.
EarlyStop(end) == {end + step >= duration}
\* Mutant: the loop ends with the first window that lies behind the file.
LateStop(end) == {end - setting.length >= duration}
\* end >= duration, on floats: an exact fit may come out just below the duration.
Reaches(end) == IF end = duration THEN BOOLEAN ELSE {end > duration}

PlanWindow == /\ ~planned
              /\ LET start == Len(windows) * step
                     end == start + setting.length
                 IN  /\ windows' = Append(windows, [start |-> start, end |-> Lesser(end, duration)])
                     /\ planned' \in Reaches(end)
              /\ UNCHANGED setting

PlanSpec == PlanInit /\ [][PlanWindow]_planVars

\* round: to the nearest frame, halves to the even one.
Frame(ticks) == LET below == ticks \div TicksPerFrame
                    rest == 2 * (ticks % TicksPerFrame)
                IN  IF rest > TicksPerFrame \/ (rest = TicksPerFrame /\ below % 2 = 1)
                    THEN below + 1 ELSE below

\* split_into_chunks: what each chunk file holds of the file.
split_into_chunks == [i \in DOMAIN windows |->
  [start |-> Frame(windows[i].start), end |-> Lesser(Frame(windows[i].end), setting.frames)]]

----------------------------------------------------------------------------
PlanTypeOK == /\ setting \in Settings
              /\ windows \in Seq([start : Nat, end : Nat])
              /\ planned \in BOOLEAN

\* The chunks begin with the first frame, end with the last, come in order and leave
\* no hole; neighbours share the configured overlap, to the frame (audio.py:156-201).
ChunksCover == planned =>
  LET chunks == split_into_chunks  n == Len(windows)
  IN  /\ chunks[1].start = 0 /\ chunks[n].end = setting.frames
      /\ \A i \in 1..n : chunks[i].start <= chunks[i].end
      /\ \A i \in 1..n - 1 :
           LET shared == (chunks[i].end - chunks[i + 1].start) * TicksPerFrame
           IN  /\ chunks[i].start <= chunks[i + 1].start /\ chunks[i + 1].start <= chunks[i].end
               /\ shared \in setting.overlap - TicksPerFrame..setting.overlap + TicksPerFrame

\* No chunk is empty, if neighbours share a frame or more (audio.py:159-165).
NoEmptyChunk == (planned /\ setting.overlap >= TicksPerFrame) =>
  \A i \in DOMAIN windows : split_into_chunks[i].start < split_into_chunks[i].end
====
