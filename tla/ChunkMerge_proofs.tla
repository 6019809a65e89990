---- MODULE ChunkMerge_proofs ----
(***************************************************************************)
(* Proofs about ChunkPlan, for files and settings of any size: the chunks  *)
(* cover the file, share the overlap and are not empty.  About the loops   *)
(* of merge.py, for any chunks and any results: nothing is assumed of the  *)
(* engine, not even that its words are in order, nor of the chunks, not    *)
(* even that they were planned.  And about a file from plan to transcript, *)
(* heard by any engine of ChunkMerge.                                      *)
(***************************************************************************)
EXTENDS ChunkMerge, SequenceTheorems, WellFoundedInduction, TLAPS

T == TicksPerFrame

----------------------------------------------------------------------------
(* Arithmetic of the rounding.                                             *)

\* What division and remainder have to do with each other.
LEMMA Division ==
  ASSUME NEW a \in Nat, NEW d \in Nat \ {0}
  PROVE  a \div d \in Nat /\ a % d \in 0..d - 1 /\ d * (a \div d) \in Int /\ a % d = a - d * (a \div d)
<1>1. a \div d \in Nat /\ a % d \in 0..d - 1 OBVIOUS
<1>2. a % d = a - d * (a \div d) BY SMTT(30)
<1>3. d * (a \div d) \in Int BY <1>1
<1> QED BY <1>1, <1>2, <1>3, Zenon

\* A quotient and a remainder are determined by the number.
LEMMA OneQuotient ==
  ASSUME NEW q \in Int, NEW r \in Int, NEW f \in Int, NEW d \in Nat \ {0},
         r = f * d - d * q, 0 <= r, r < d
  PROVE  f = q /\ r = 0
<1>1. CASE f > q
  <2>1. (f - q) * d >= d BY <1>1
  <2> QED BY <2>1
<1>2. CASE f < q
  <2>1. (q - f) * d >= d BY <1>2
  <2> QED BY <2>1
<1> QED BY <1>1, <1>2

\* A time that is a frame is rounded to it.
LEMMA FrameExact == ASSUME NEW f \in Nat, PlanAssumption PROVE Frame(f * T) = f
<1> DEFINE q == (f * T) \div T
           r == (f * T) % T
<1>1. T \in Nat \ {0} /\ f * T \in Nat BY DEF PlanAssumption, T
<1>2. q \in Nat /\ r \in 0..T - 1 /\ r = f * T - T * q BY <1>1, Division
<1>3. Frame(f * T) = IF 2 * r > T \/ (2 * r = T /\ q % 2 = 1) THEN q + 1 ELSE q BY DEF Frame, T
<1> HIDE DEF q, r
<1>4. f = q /\ r = 0 BY <1>1, <1>2, OneQuotient
<1> QED BY <1>1, <1>3, <1>4

\* A rounded time is off by half a frame or less.
LEMMA FrameNear ==
  ASSUME NEW a \in Nat, PlanAssumption
  PROVE  /\ Frame(a) \in Nat
         /\ 2 * (Frame(a) * T) - 2 * a <= T /\ 2 * a - 2 * (Frame(a) * T) <= T
<1> DEFINE q == a \div T
           r == a % T
           f == Frame(a)
<1>1. T \in Nat \ {0} BY DEF PlanAssumption, T
<1>2. q \in Nat /\ r \in 0..T - 1 /\ r = a - T * q BY <1>1, Division
<1>3. f = IF 2 * r > T \/ (2 * r = T /\ q % 2 = 1) THEN q + 1 ELSE q BY DEF Frame, T
<1> HIDE DEF q, r, f
<1>4. CASE f = q
  <2>1. 2 * r <= T BY <1>1, <1>2, <1>3, <1>4
  <2>2. f * T = T * q BY <1>1, <1>2, <1>4
  <2> QED BY <1>1, <1>2, <1>4, <2>1, <2>2 DEF f
<1>5. CASE f = q + 1
  <2>1. 2 * r >= T BY <1>1, <1>2, <1>3, <1>5
  <2>2. f * T = T * q + T BY <1>1, <1>2, <1>5
  <2> QED BY <1>1, <1>2, <1>5, <2>1, <2>2 DEF f
<1> QED BY <1>3, <1>4, <1>5

\* Rounding keeps the order.
LEMMA FrameMonotone ==
  ASSUME NEW a \in Nat, NEW b \in Nat, a <= b, PlanAssumption PROVE Frame(a) <= Frame(b)
<1> DEFINE q == a \div T
           r == a % T
           u == b \div T
           v == b % T
<1>1. T \in Nat \ {0} BY DEF PlanAssumption, T
<1>2. q \in Nat /\ r \in 0..T - 1 /\ r = a - T * q BY <1>1, Division
<1>3. u \in Nat /\ v \in 0..T - 1 /\ v = b - T * u BY <1>1, Division
<1>4. Frame(a) = IF 2 * r > T \/ (2 * r = T /\ q % 2 = 1) THEN q + 1 ELSE q BY DEF Frame, T
<1>5. Frame(b) = IF 2 * v > T \/ (2 * v = T /\ u % 2 = 1) THEN u + 1 ELSE u BY DEF Frame, T
<1> HIDE DEF q, r, u, v
<1>6. q <= u
  <2>1. CASE u < q
    <3>1. (q - u) * T >= T BY <1>1, <1>2, <1>3, <2>1
    <3>2. T * q = T * u + (q - u) * T BY <1>1, <1>2, <1>3
    <3> QED BY <1>1, <1>2, <1>3, <3>1, <3>2
  <2> QED BY <1>2, <1>3, <2>1
<1>7. CASE q = u
  <2>1. r <= v BY <1>1, <1>2, <1>3, <1>7
  <2> QED BY <1>1, <1>2, <1>3, <1>4, <1>5, <1>7, <2>1
<1>8. CASE q < u
  <2>1. Frame(a) <= q + 1 /\ u <= Frame(b) BY <1>2, <1>3, <1>4, <1>5
  <2>2. Frame(a) \in Nat /\ Frame(b) \in Nat BY FrameNear
  <2> QED BY <1>2, <1>3, <1>8, <2>1, <2>2
<1> QED BY <1>2, <1>3, <1>6, <1>7, <1>8

----------------------------------------------------------------------------
(* The loop of plan_chunks.                                                *)

\* Window i, and where it would end if the file went on.
Begin(i) == (i - 1) * step
Reach(i) == Begin(i) + setting.length

\* Every window but the last lies in the file, and the last one of a plan reaches its end.
WindowInv ==
  LET n == Len(windows) IN
  /\ \A i \in 1..n : windows[i] = [start |-> Begin(i), end |-> Lesser(Reach(i), duration)]
  /\ \A i \in 1..n : i < n \/ ~planned => Reach(i) <= duration
  /\ planned => n > 0 /\ Reach(n) >= duration

PlanInv == PlanTypeOK /\ WindowInv

\* What the assumption says of the setting.
LEMMA SettingFacts ==
  ASSUME setting \in Settings, PlanAssumption
  PROVE  /\ T \in Nat \ {0} /\ setting.frames \in Nat \ {0}
         /\ setting.length \in Nat /\ setting.overlap \in Nat
         /\ step \in Nat \ {0} /\ setting.length = step + setting.overlap
         /\ duration \in Nat \ {0} /\ duration = setting.frames * T
BY DEF PlanAssumption, T, step, duration

\* Where windows begin.
LEMMA BeginFacts ==
  ASSUME setting \in Settings, PlanAssumption, NEW i \in Nat \ {0}
  PROVE  Begin(i) \in Nat /\ Reach(i) \in Nat /\ Begin(i + 1) = Begin(i) + step /\ Begin(1) = 0
<1>1. step \in Nat /\ setting.length \in Nat BY SettingFacts
<1> HIDE DEF step
<1>2. (i - 1) * step \in Nat BY <1>1
<1>3. ((i + 1) - 1) * step = (i - 1) * step + step BY <1>1
<1>4. (1 - 1) * step = 0 BY <1>1
<1> QED BY <1>1, <1>2, <1>3, <1>4 DEF Begin, Reach

\* The invariant holds before the loop.
LEMMA PlanBegins == PlanInit => PlanInv
<1> SUFFICES ASSUME PlanInit PROVE PlanInv
  OBVIOUS
<1>1. windows \in Seq([start : Nat, end : Nat]) /\ Len(windows) = 0 BY EmptySeq DEF PlanInit
<1>2. PlanTypeOK BY <1>1 DEF PlanInit, PlanTypeOK
<1>3. WindowInv BY <1>1 DEF PlanInit, WindowInv
<1> QED BY <1>2, <1>3 DEF PlanInv

\* Every turn of the loop preserves it, whichever way the float comparison falls.
LEMMA PlanGoesOn == PlanInv /\ [PlanWindow]_planVars /\ PlanAssumption => PlanInv'
<1> SUFFICES ASSUME PlanInv, [PlanWindow]_planVars, PlanAssumption PROVE PlanInv'
  OBVIOUS
<1>1. CASE UNCHANGED planVars
  BY <1>1 DEF planVars, PlanInv, PlanTypeOK, WindowInv, Begin, Reach, step, duration
<1>2. CASE PlanWindow
  <2> DEFINE n == Len(windows)
             w == [start |-> n * step, end |-> Lesser(n * step + setting.length, duration)]
  <2>1. setting \in Settings /\ windows \in Seq([start : Nat, end : Nat]) /\ n \in Nat
    BY DEF PlanInv, PlanTypeOK
  <2>2. setting' = setting /\ ~planned /\ windows' = Append(windows, w)
        /\ planned' \in Reaches(n * step + setting.length)
    BY <1>2 DEF PlanWindow
  <2>3. n * step \in Nat /\ step \in Nat \ {0} /\ setting.length \in Nat /\ duration \in Nat
    BY <2>1, SettingFacts
  <2>4. w \in [start : Nat, end : Nat] BY <2>3 DEF Lesser
  <2>5. Len(windows') = n + 1 /\ windows'[n + 1] = w /\ \A i \in 1..n : windows'[i] = windows[i]
    BY <2>1, <2>2, <2>4
  <2>6. planned' \in BOOLEAN /\ (planned' => n * step + setting.length >= duration)
        /\ (~planned' => n * step + setting.length <= duration)
    <3> DEFINE e == n * step + setting.length
    <3>1. e \in Nat BY <2>3
    <3>2. planned' \in Reaches(e) BY <2>2
    <3> HIDE DEF e
    <3>3. CASE e = duration
      <4>1. planned' \in BOOLEAN BY <3>2, <3>3 DEF Reaches
      <4> QED BY <2>3, <3>1, <3>3, <4>1 DEF e
    <3>4. CASE e # duration
      <4>1. planned' = (e > duration) BY <3>2, <3>4 DEF Reaches
      <4>2. (e > duration) \in BOOLEAN OBVIOUS
      <4>3. planned' \in BOOLEAN BY <4>1, <4>2, Zenon
      <4>4. planned' <=> e > duration BY <4>1, Zenon
      <4> QED BY <2>3, <3>1, <3>4, <4>3, <4>4 DEF e
    <3> QED BY <3>3, <3>4
  <2>7. PlanTypeOK'
    <3>1. windows' \in Seq([start : Nat, end : Nat]) BY <2>1, <2>2, <2>4
    <3> QED BY <2>1, <2>2, <2>6, <3>1 DEF PlanTypeOK
  <2>8. Begin(n + 1) = n * step /\ Reach(n + 1) = n * step + setting.length
    BY <2>1, <2>3 DEF Begin, Reach
  <2>9. \A i : Begin(i)' = Begin(i) /\ Reach(i)' = Reach(i)
    BY <2>2 DEF Begin, Reach, step
  <2>10. duration' = duration BY <2>2 DEF duration
  <2>11. \A i \in 1..n : /\ windows[i] = [start |-> Begin(i), end |-> Lesser(Reach(i), duration)]
                         /\ Reach(i) <= duration
    BY <2>2 DEF PlanInv, WindowInv
  <2>12. \A i \in 1..n + 1 : i = n + 1 \/ i \in 1..n BY <2>1
  <2> HIDE DEF n
  <2>13. \A i \in 1..n + 1 : windows'[i] = [start |-> Begin(i), end |-> Lesser(Reach(i), duration)]
    BY <2>5, <2>8, <2>11, <2>12 DEF w
  <2>14. \A i \in 1..n + 1 : i < n + 1 \/ ~planned' => Reach(i) <= duration
    <3> SUFFICES ASSUME NEW i \in 1..n + 1, i < n + 1 \/ ~planned' PROVE Reach(i) <= duration
      OBVIOUS
    <3>1. CASE i \in 1..n BY <2>11, <3>1
    <3>2. CASE i = n + 1
      <4>1. ~planned' BY <2>1, <3>2
      <4> QED BY <2>6, <2>8, <3>2, <4>1
    <3> QED BY <2>12, <3>1, <3>2
  <2>15. planned' => n + 1 > 0 /\ Reach(n + 1) >= duration
    BY <2>1, <2>6, <2>8
  <2>16. WindowInv'
    BY <2>5, <2>9, <2>10, <2>13, <2>14, <2>15 DEF WindowInv
  <2> QED BY <2>7, <2>16 DEF PlanInv
<1> QED BY <1>1, <1>2

\* The invariant is one.
LEMMA PlanInvariant == PlanSpec => []PlanInv
<1> QED BY PlanBegins, PlanGoesOn, PlanAssumption, PTL DEF PlanSpec

----------------------------------------------------------------------------
(* What the windows of a plan say of the chunks.                           *)

\* A finished plan: where chunk i begins and ends in the file.
LEMMA ChunkBounds ==
  ASSUME PlanInv, planned, PlanAssumption, NEW i \in 1..Len(windows)
  PROVE  /\ split_into_chunks[i] = [start |-> Frame(Begin(i)),
                                    end |-> Lesser(Frame(Lesser(Reach(i), duration)), setting.frames)]
         /\ Begin(i) \in Nat /\ Reach(i) \in Nat
         /\ Begin(i) < duration \/ i > 1
         /\ i > 1 => Begin(i) <= duration - setting.overlap
         /\ i < Len(windows) => /\ Begin(i + 1) = Begin(i) + step /\ Reach(i) <= duration
                                /\ Reach(i) = Begin(i + 1) + setting.overlap
         /\ i = Len(windows) => Reach(i) >= duration
<1>1. setting \in Settings /\ Len(windows) \in Nat /\ i \in Nat \ {0}
  BY DEF PlanInv, PlanTypeOK
<1>2. windows[i] = [start |-> Begin(i), end |-> Lesser(Reach(i), duration)]
  BY DEF PlanInv, WindowInv
<1>3. Begin(i) \in Nat /\ Reach(i) \in Nat /\ Begin(i + 1) = Begin(i) + step /\ Begin(1) = 0
  BY <1>1, BeginFacts
<1>4. /\ step \in Nat \ {0} /\ setting.length = step + setting.overlap /\ setting.overlap \in Nat
      /\ duration \in Nat \ {0}
  BY <1>1, SettingFacts
<1>5. split_into_chunks[i] = [start |-> Frame(Begin(i)),
                              end |-> Lesser(Frame(Lesser(Reach(i), duration)), setting.frames)]
  <2>1. i \in DOMAIN windows BY DEF PlanInv, PlanTypeOK
  <2> QED BY <1>2, <2>1 DEF split_into_chunks
<1>6. i > 1 => Begin(i) <= duration - setting.overlap
  <2> SUFFICES ASSUME i > 1 PROVE Begin(i) <= duration - setting.overlap
    OBVIOUS
  <2>1. i - 1 \in 1..Len(windows) /\ i - 1 < Len(windows) /\ i - 1 \in Nat \ {0} /\ (i - 1) + 1 = i
    BY <1>1
  <2>2. Reach(i - 1) <= duration BY <2>1 DEF PlanInv, WindowInv
  <2>3. Begin(i) = Begin(i - 1) + step /\ Begin(i - 1) \in Nat BY <1>1, <2>1, BeginFacts
  <2>4. Reach(i - 1) = Begin(i - 1) + setting.length BY DEF Reach
  <2> QED BY SMTT(30), <1>3, <1>4, <2>2, <2>3, <2>4
<1>7. i < Len(windows) => Reach(i) <= duration /\ Reach(i) = Begin(i + 1) + setting.overlap
  <2>1. i < Len(windows) => Reach(i) <= duration BY DEF PlanInv, WindowInv
  <2>2. Reach(i) = Begin(i) + setting.length BY DEF Reach
  <2> QED BY <1>3, <1>4, <2>1, <2>2
<1>8. i = Len(windows) => Reach(i) >= duration BY DEF PlanInv, WindowInv
<1>9. Begin(i) < duration \/ i > 1 BY <1>1, <1>3, <1>4
<1> QED BY <1>3, <1>5, <1>6, <1>7, <1>8, <1>9

\* A chunk in a finished plan: it begins in the file, no chunk ends before it begins,
\* and if chunks share a frame none is empty.
LEMMA ChunkNotBackwards ==
  ASSUME PlanInv, planned, PlanAssumption, NEW i \in 1..Len(windows)
  PROVE  LET b == split_into_chunks[i].start  e == split_into_chunks[i].end
         IN  /\ b \in Nat /\ e \in Nat /\ b <= e
             /\ setting.overlap >= T => b < e
<1> DEFINE s == Begin(i)
           r == Lesser(Reach(i), duration)
           D == duration
           F == setting.frames
           O == setting.overlap
<1>0. setting \in Settings BY DEF PlanInv, PlanTypeOK
<1>1. /\ T \in Nat \ {0} /\ F \in Nat \ {0} /\ O \in Nat /\ step \in Nat \ {0}
      /\ setting.length = step + O /\ D \in Nat \ {0} /\ D = F * T
  BY <1>0, SettingFacts
<1>2. /\ s \in Nat /\ Reach(i) \in Nat /\ (s < D \/ i > 1) /\ (i > 1 => s <= D - O)
      /\ split_into_chunks[i].start = Frame(s) /\ split_into_chunks[i].end = Lesser(Frame(r), F)
  <2>1. split_into_chunks[i] = [start |-> Frame(s), end |-> Lesser(Frame(r), F)] BY ChunkBounds
  <2>2. s \in Nat /\ Reach(i) \in Nat /\ (s < D \/ i > 1) /\ (i > 1 => s <= D - O) BY ChunkBounds
  <2> QED BY <2>1, <2>2
<1>3. Reach(i) = s + step + O BY <1>1, <1>2 DEF Reach
<1>4. s <= r /\ r \in Nat /\ r <= D
  <2>1. O \in Nat /\ step \in Nat \ {0} /\ D \in Nat /\ s \in Nat /\ Reach(i) \in Nat
        /\ (i > 1 => s <= D - O) /\ (s < D \/ i > 1)
    BY <1>1, <1>2
  <2>2. s <= D /\ s <= Reach(i)
    <3> HIDE DEF s, D, O
    <3> QED BY <1>3, <2>1
  <2>3. r = IF Reach(i) <= D THEN Reach(i) ELSE D BY DEF Lesser
  <2> HIDE DEF s, r, D
  <2> QED BY <2>1, <2>2, <2>3
<1>5. r = D \/ r = s + step + O BY <1>3 DEF Lesser
<1> HIDE DEF s, r, D, F, O
<1>6. Frame(D) = F BY <1>1, FrameExact
<1>7. Frame(s) \in Nat /\ Frame(r) \in Nat /\ Frame(s) <= Frame(r) /\ Frame(r) <= F
  BY <1>1, <1>2, <1>4, <1>6, FrameNear, FrameMonotone
<1>8. Lesser(Frame(r), F) = Frame(r) BY <1>1, <1>7 DEF Lesser
<1>9. O >= T => Frame(s) < Frame(r)
  <2> SUFFICES ASSUME O >= T PROVE Frame(s) < Frame(r)
    OBVIOUS
  <2>1. r - s > T \/ (r = D /\ s <= D - T) \/ (r = D /\ i = 1)
    <3>1. i \in Nat \ {0} BY DEF PlanInv, PlanTypeOK
    <3> QED BY <1>1, <1>2, <1>4, <1>5, <3>1
  <2>2. CASE r - s > T
    <3>1. 2 * (Frame(s) * T) - 2 * s <= T /\ 2 * r - 2 * (Frame(r) * T) <= T
      BY <1>2, <1>4, FrameNear
    <3>2. CASE Frame(s) = Frame(r) BY SMTT(30), <1>1, <1>2, <1>4, <1>7, <2>2, <3>1, <3>2
    <3> QED BY <1>7, <3>2
  <2>3. CASE r = D /\ s <= D - T
    <3>1. (F - 1) * T = D - T /\ F - 1 \in Nat BY <1>1
    <3>2. Frame((F - 1) * T) = F - 1 BY <3>1, FrameExact
    <3>3. Frame(s) <= F - 1
      <4>1. D - T \in Nat BY <1>1, <3>1
      <4> QED BY <1>2, <2>3, <3>1, <3>2, <4>1, FrameMonotone
    <3> QED BY <1>1, <1>6, <1>7, <2>3, <3>3
  <2>4. CASE r = D /\ i = 1
    <3>1. s = 0 BY <1>0, <2>4, BeginFacts DEF s
    <3>2. Frame(0) = 0
      <4>1. 0 * T = 0 BY <1>1
      <4> QED BY <4>1, FrameExact
    <3> QED BY <1>1, <1>6, <2>4, <3>1, <3>2
  <2> QED BY <2>1, <2>2, <2>3, <2>4
<1> QED BY <1>2, <1>7, <1>8, <1>9 DEF O

\* Neighbours in a finished plan share the overlap, rounded to frames at both ends.
LEMMA NeighboursShare ==
  ASSUME PlanInv, planned, PlanAssumption, NEW i \in 1..Len(windows) - 1
  PROVE  LET a == split_into_chunks[i]  b == split_into_chunks[i + 1]
         IN  /\ a.start <= b.start /\ b.start <= a.end
             /\ (a.end - b.start) * T \in setting.overlap - T..setting.overlap + T
<1> DEFINE s == Begin(i)
           u == Begin(i + 1)
           r == Reach(i)
           F == setting.frames
           O == setting.overlap
<1>0. setting \in Settings /\ Len(windows) \in Nat BY DEF PlanInv, PlanTypeOK
<1>1. T \in Nat \ {0} /\ F \in Nat \ {0} /\ O \in Nat /\ step \in Nat \ {0} /\ duration = F * T
  BY <1>0, SettingFacts
<1>2. i \in 1..Len(windows) /\ i + 1 \in 1..Len(windows) /\ i < Len(windows) BY <1>0
<1>3. /\ split_into_chunks[i] = [start |-> Frame(s), end |-> Lesser(Frame(Lesser(r, duration)), F)]
      /\ s \in Nat /\ r \in Nat /\ u = s + step /\ r <= duration /\ r = u + O
  <2>1. split_into_chunks[i] = [start |-> Frame(s), end |-> Lesser(Frame(Lesser(r, duration)), F)]
    BY <1>2, ChunkBounds
  <2>2. s \in Nat /\ r \in Nat BY <1>2, ChunkBounds
  <2>3. u = s + step /\ r <= duration /\ r = u + O BY <1>2, ChunkBounds
  <2> QED BY <2>1, <2>2, <2>3
<1>4. split_into_chunks[i + 1].start = Frame(u)
  <2>1. split_into_chunks[i + 1] = [start |-> Frame(u),
          end |-> Lesser(Frame(Lesser(Reach(i + 1), duration)), F)]
    BY <1>2, ChunkBounds
  <2> QED BY <2>1
<1> HIDE DEF s, u, r, F, O
<1>5. Lesser(r, duration) = r BY <1>3 DEF Lesser
<1>6. u \in Nat /\ s <= u BY <1>1, <1>3
<1>7. /\ Frame(s) \in Nat /\ Frame(u) \in Nat /\ Frame(r) \in Nat
      /\ Frame(s) <= Frame(u) /\ Frame(u) <= Frame(r)
  <2>1. u <= r BY <1>1, <1>3, <1>6
  <2> QED BY <1>3, <1>6, <2>1, FrameNear, FrameMonotone
<1>8. Frame(r) <= F
  <2>1. F \in Nat /\ F * T \in Nat BY <1>1
  <2>2. Frame(F * T) = F BY <2>1, FrameExact
  <2> QED BY <1>1, <1>3, <2>1, <2>2, FrameMonotone
<1>9. split_into_chunks[i].start = Frame(s) /\ split_into_chunks[i].end = Frame(r)
  <2>1. Lesser(Frame(r), F) = Frame(r) BY <1>8 DEF Lesser
  <2> QED BY <1>3, <1>5, <2>1
<1>10. /\ 2 * (Frame(r) * T) - 2 * r <= T /\ 2 * r - 2 * (Frame(r) * T) <= T
       /\ 2 * (Frame(u) * T) - 2 * u <= T /\ 2 * u - 2 * (Frame(u) * T) <= T
  BY <1>3, <1>6, FrameNear
<1>11. (Frame(r) - Frame(u)) * T = Frame(r) * T - Frame(u) * T BY <1>1, <1>7
<1>12. Frame(r) * T \in Int /\ Frame(u) * T \in Int BY <1>1, <1>7
<1>13. (Frame(r) - Frame(u)) * T \in O - T..O + T
  <2> DEFINE x == Frame(r) * T
             y == Frame(u) * T
  <2>1. x \in Int /\ y \in Int /\ 2 * x - 2 * r <= T /\ 2 * r - 2 * x <= T
        /\ 2 * y - 2 * u <= T /\ 2 * u - 2 * y <= T
    BY <1>10, <1>12
  <2> HIDE DEF x, y
  <2>2. x - y \in O - T..O + T BY <1>1, <1>3, <1>6, <2>1
  <2> QED BY <1>11, <2>2 DEF x, y
<1> QED BY <1>4, <1>7, <1>9, <1>13 DEF O

\* The first chunk begins with the file, the last ends with it.
LEMMA WholeFile ==
  ASSUME PlanInv, planned, PlanAssumption
  PROVE  split_into_chunks[1].start = 0 /\ split_into_chunks[Len(windows)].end = setting.frames
<1> DEFINE n == Len(windows)
<1>0. setting \in Settings /\ n \in Nat /\ n > 0 BY DEF PlanInv, PlanTypeOK, WindowInv
<1>1. T \in Nat \ {0} /\ setting.frames \in Nat \ {0} /\ duration = setting.frames * T
      /\ duration \in Nat \ {0}
  BY <1>0, SettingFacts
<1>2. 1 \in 1..n /\ n \in 1..n BY <1>0
<1>3. split_into_chunks[1].start = 0
  <2>1. split_into_chunks[1] = [start |-> Frame(Begin(1)),
          end |-> Lesser(Frame(Lesser(Reach(1), duration)), setting.frames)]
    BY <1>2, ChunkBounds
  <2>2. Begin(1) = 0 BY <1>0, BeginFacts
  <2>3. 0 * T = 0 BY <1>1
  <2>4. Frame(0) = 0 BY <2>3, FrameExact
  <2> QED BY <2>1, <2>2, <2>4
<1>4. split_into_chunks[n].end = setting.frames
  <2>1. split_into_chunks[n] = [start |-> Frame(Begin(n)),
          end |-> Lesser(Frame(Lesser(Reach(n), duration)), setting.frames)]
    BY <1>2, ChunkBounds
  <2>2. Reach(n) >= duration /\ Reach(n) \in Nat BY <1>2, ChunkBounds
  <2>3. Lesser(Reach(n), duration) = duration BY <1>1, <2>2 DEF Lesser
  <2>4. Frame(duration) = setting.frames BY <1>1, FrameExact
  <2> QED BY <1>1, <2>1, <2>3, <2>4 DEF Lesser
<1> QED BY <1>3, <1>4

\* Every variable of the plan keeps its type.
THEOREM PlanTypeCorrect == PlanSpec => []PlanTypeOK
<1>1. PlanInv => PlanTypeOK BY DEF PlanInv
<1> QED BY <1>1, PlanInvariant, PTL

\* The chunks of any file under any settings begin with its first frame, end with its last,
\* come in order and share the overlap, however the float comparison that ends the loop
\* falls at an exact fit (audio.py:156-201).
THEOREM ChunksAlwaysCover == PlanSpec => []ChunksCover
<1>1. ASSUME PlanInv PROVE ChunksCover
  <2> SUFFICES ASSUME planned
               PROVE  LET n == Len(windows) IN
                 /\ split_into_chunks[1].start = 0 /\ split_into_chunks[n].end = setting.frames
                 /\ \A i \in 1..n : split_into_chunks[i].start <= split_into_chunks[i].end
                 /\ \A i \in 1..n - 1 :
                      /\ split_into_chunks[i].start <= split_into_chunks[i + 1].start
                      /\ split_into_chunks[i + 1].start <= split_into_chunks[i].end
                      /\ (split_into_chunks[i].end - split_into_chunks[i + 1].start) * T
                           \in setting.overlap - T..setting.overlap + T
    BY DEF ChunksCover, T
  <2> QED BY <1>1, PlanAssumption, WholeFile, ChunkNotBackwards, NeighboursShare
<1> QED BY <1>1, PlanInvariant, PTL

\* With an overlap of a frame or more none of them is empty (audio.py:159-165).
THEOREM NoChunkEverEmpty == PlanSpec => []NoEmptyChunk
<1>1. ASSUME PlanInv PROVE NoEmptyChunk
  <2> SUFFICES ASSUME planned, setting.overlap >= T, NEW i \in DOMAIN windows
               PROVE  split_into_chunks[i].start < split_into_chunks[i].end
    BY DEF NoEmptyChunk, T
  <2>1. i \in 1..Len(windows) BY <1>1 DEF PlanInv, PlanTypeOK
  <2> QED BY <1>1, <2>1, PlanAssumption, ChunkNotBackwards
<1> QED BY <1>1, PlanInvariant, PTL

----------------------------------------------------------------------------
(* The merge.                                                              *)

HeardSegment == [id : Nat, start : Nat, end : Nat, text : Seq(Nat), words : Seq(HeardAs)]

\* The segments of a chunk, under numbers that say which is the earlier of two equal ones.
Listing == UNION {[D -> Result] : D \in SUBSET (Nat \ {0})}

\* merge_chunk_results begins, with one result per chunk.
AnyInput ==
  /\ PlanTypeOK
  /\ results \in Seq(Listing) /\ results # <<>> /\ Len(results) = Len(windows)
  /\ c = 1 /\ todo = DOMAIN results[1] /\ seg = 0 /\ left = {}
  /\ kept = <<>> /\ headCut = FALSE /\ segTailCut = FALSE
  /\ firstInChunk = TRUE /\ lastWord = NoWord /\ keptUntil = NegInf
  /\ tailCut = FALSE /\ segments = <<>>

MergeSpec == AnyInput /\ [][Merge]_vars

----------------------------------------------------------------------------
(* Times.                                                                  *)

\* Rounding to hundredths keeps the order, of the time before every time as well.
LEMMA StampFacts ==
  ASSUME NEW a \in Nat \cup {NegInf}, NEW b \in Nat \cup {NegInf}
  PROVE  Stamp(a) \in Nat /\ (a <= b => Stamp(a) <= Stamp(b))
<1> DEFINE p == (a + 1) \div 3
           q == (b + 1) \div 3
<1>1. a + 1 \in Nat /\ b + 1 \in Nat BY DEF NegInf
<1>2. p \in Nat /\ (a + 1) - 3 * p \in 0..2
  <2>1. (a + 1) % 3 \in 0..2 /\ (a + 1) % 3 = (a + 1) - 3 * p BY <1>1, SMTT(30)
  <2> QED BY <1>1, <2>1
<1>3. q \in Nat /\ (b + 1) - 3 * q \in 0..2
  <2>1. (b + 1) % 3 \in 0..2 /\ (b + 1) % 3 = (b + 1) - 3 * q BY <1>1, SMTT(30)
  <2> QED BY <1>1, <2>1
<1>4. Stamp(a) = 3 * p /\ Stamp(b) = 3 * q BY DEF Stamp
<1> HIDE DEF p, q
<1> QED BY <1>1, <1>2, <1>3, <1>4 DEF NegInf

Below == {p \in Nat \X Nat : p[1] < p[2]}

\* A set of natural numbers has a least one.
LEMMA Least == ASSUME NEW S \in SUBSET Nat, S # {} PROVE \E m \in S : \A n \in S : m <= n
<1>0. IsWellFoundedOn(Below, Nat) BY NatLessThanWellFounded, Zenon DEF OpToRel, Below
<1>1. PICK m \in S : \A n \in S : ~ (<<n, m>> \in Below) BY <1>0, WFMin
<1>2. ASSUME NEW n \in S PROVE m <= n
  <2>1. n \in Nat /\ m \in Nat /\ <<n, m>> \notin Below BY <1>1
  <2>2. ~(n < m) BY <2>1 DEF Below
  <2> QED BY <2>1, <2>2
<1> QED BY <1>2

\* There is always a first one among those still to come.
LEMMA EarliestIn ==
  ASSUME NEW s, NEW S \in SUBSET Nat, S # {}, \A i \in S : s[i].start \in Nat /\ s[i].end \in Nat
  PROVE  Earliest(S, s) \in S
<1> DEFINE A == {s[i].start : i \in S}
<1>1. PICK a \in A : \A x \in A : a <= x
  <2>1. A \in SUBSET Nat /\ A # {} OBVIOUS
  <2> QED BY <2>1, Least
<1> DEFINE S1 == {i \in S : s[i].start = a}
           E == {s[i].end : i \in S1}
<1>2. PICK e \in E : \A x \in E : e <= x
  <2>1. S1 # {} BY <1>1
  <2>2. E \in SUBSET Nat /\ E # {} BY <2>1
  <2> QED BY <2>2, Least
<1> DEFINE S2 == {i \in S1 : s[i].end = e}
<1>3. PICK m \in S2 : \A x \in S2 : m <= x
  <2>1. S2 \in SUBSET Nat /\ S2 # {} BY <1>2
  <2> QED BY <2>1, Least
<1>4. m \in S /\ s[m].start = a /\ s[m].end = e BY <1>3
<1> DEFINE First(i, j) == \/ s[i].start < s[j].start
                          \/ s[i].start = s[j].start /\ s[i].end < s[j].end
                          \/ s[i].start = s[j].start /\ s[i].end = s[j].end /\ i <= j
<1>5. ASSUME NEW j \in S PROVE First(m, j)
  <2>1. a <= s[j].start BY <1>1
  <2>2. CASE s[j].start = a
    <3>1. j \in S1 /\ s[j].end \in E BY <2>2
    <3>2. e <= s[j].end BY <1>2, <3>1
    <3>3. s[j].end = e => m <= j BY <1>3, <3>1
    <3>4. e \in Nat /\ s[j].end \in Nat BY <1>4
    <3> QED BY <1>4, <2>2, <3>2, <3>3, <3>4
  <2>3. CASE s[j].start # a
    <3>1. a \in Nat /\ s[j].start \in Nat BY <1>4
    <3> QED BY <1>4, <2>1, <2>3, <3>1
  <2> QED BY <2>2, <2>3
<1>6. Earliest(S, s) = CHOOSE i \in S : \A j \in S : First(i, j) BY DEF Earliest
<1> HIDE DEF First
<1>7. \E i \in S : \A j \in S : First(i, j) BY <1>4, <1>5
<1> QED BY <1>6, <1>7

\* A chunk begins at a frame of the file.
LEMMA ChunkStart ==
  ASSUME PlanTypeOK, PlanAssumption, NEW i \in DOMAIN windows
  PROVE  chunks[i].start \in Nat
<1> DEFINE a == windows[i].start
<1>1. a \in Nat
  <2>1. windows \in Seq([start : Nat, end : Nat]) BY DEF PlanTypeOK
  <2>2. i \in 1..Len(windows) BY <2>1
  <2>3. windows[i] \in [start : Nat, end : Nat] BY <2>1, <2>2, ElementOfSeq, Zenon
  <2> QED BY <2>3
<1>2. chunks[i].start = Frame(a) BY DEF chunks, split_into_chunks
<1> HIDE DEF a
<1>3. Frame(a) \in {a \div TicksPerFrame, a \div TicksPerFrame + 1} BY DEF Frame
<1>4. a \div TicksPerFrame \in Nat BY <1>1 DEF PlanAssumption
<1> QED BY <1>2, <1>3, <1>4

----------------------------------------------------------------------------
(* Ordered words and timelines.                                            *)

Fits(s) == /\ InOrder(s.words) /\ s.start <= s.end
           /\ \A k \in DOMAIN s.words : s.start <= s.words[k].start /\ s.words[k].end <= s.end
Before(s, t) == /\ s.start <= t.start
                /\ \A a \in DOMAIN s.words : \A b \in DOMAIN t.words :
                     s.words[a].end <= t.words[b].start
Timeline(segs) == \A j \in DOMAIN segs : /\ segs[j].id = j - 1 /\ Fits(segs[j])
                                         /\ \A i \in 1..j - 1 : Before(segs[i], segs[j])

\* No segment begins, and no word ends, after this time.
Reached(segs, time) == \A j \in DOMAIN segs :
  segs[j].start <= time /\ \A a \in DOMAIN segs[j].words : segs[j].words[a].end <= time

\* Words in order, none of which ends before it begins.
Ordered(words) == InOrder(words) /\ \A k \in DOMAIN words : words[k].start <= words[k].end

\* Ordered words lie between the start of the first and the end of the last.
LEMMA OrderedBounds ==
  ASSUME NEW words \in Seq(HeardAs), words # <<>>, Ordered(words)
  PROVE  /\ Len(words) \in DOMAIN words /\ 1 \in DOMAIN words /\ Last(words) = words[Len(words)]
         /\ \A k \in DOMAIN words : /\ words[1].start <= words[k].start
                                    /\ words[k].end <= Last(words).end
<1>1. Len(words) \in Nat \ {0} /\ DOMAIN words = 1..Len(words) OBVIOUS
<1>2. ASSUME NEW k \in DOMAIN words
      PROVE  words[1].start <= words[k].start /\ words[k].end <= words[Len(words)].end
  <2>1. \A i \in DOMAIN words : words[i].start \in Nat /\ words[i].end \in Nat
    <3>1. \A i \in DOMAIN words : words[i] \in HeardAs OBVIOUS
    <3> QED BY <3>1 DEF HeardAs
  <2>2. words[1].start <= words[k].start
    <3>1. CASE k = 1 BY <1>1, <2>1, <3>1
    <3>2. CASE k # 1
      <4>1. words[1].end <= words[k].start BY <1>1, <3>2 DEF Ordered, InOrder
      <4>2. words[1].start <= words[1].end BY <1>1 DEF Ordered
      <4> QED BY <1>1, <2>1, <4>1, <4>2
    <3> QED BY <3>1, <3>2
  <2>3. words[k].end <= words[Len(words)].end
    <3>1. CASE k = Len(words) BY <1>1, <2>1, <3>1
    <3>2. CASE k # Len(words)
      <4>1. words[k].end <= words[Len(words)].start BY <1>1, <3>2 DEF Ordered, InOrder
      <4>2. words[Len(words)].start <= words[Len(words)].end BY <1>1 DEF Ordered
      <4> QED BY <1>1, <2>1, <4>1, <4>2
    <3> QED BY <3>1, <3>2
  <2> QED BY <2>2, <2>3
<1>3. Last(words) = words[Len(words)] BY DEF Last
<1> QED BY <1>1, <1>2, <1>3

\* A timeline grows by a segment that fits and comes after all others.
LEMMA TimelineAppend ==
  ASSUME NEW segs \in Seq(HeardSegment), NEW new, Timeline(segs), new.id = Len(segs),
         Fits(new), \A i \in DOMAIN segs : Before(segs[i], new)
  PROVE  Timeline(Append(segs, new))
<1> DEFINE all == Append(segs, new)
           n == Len(segs)
<1>1. n \in Nat /\ DOMAIN all = 1..n + 1 /\ DOMAIN segs = 1..n OBVIOUS
<1>2. all[n + 1] = new /\ \A i \in 1..n : all[i] = segs[i] OBVIOUS
<1> HIDE DEF all, n
<1>3. ASSUME NEW j \in 1..n + 1
      PROVE  all[j].id = j - 1 /\ Fits(all[j]) /\ \A i \in 1..j - 1 : Before(all[i], all[j])
  <2>1. CASE j = n + 1
    <3>1. all[j] = new BY <1>2, <2>1
    <3>2. \A i \in 1..j - 1 : all[i] = segs[i] /\ i \in DOMAIN segs BY <1>1, <1>2, <2>1
    <3>3. new.id = j - 1 BY <1>1, <2>1 DEF n
    <3> QED BY <3>1, <3>2, <3>3
  <2>2. CASE j \in 1..n
    <3>1. all[j] = segs[j] /\ j \in DOMAIN segs BY <1>1, <1>2, <2>2
    <3>2. \A i \in 1..j - 1 : all[i] = segs[i] BY <1>1, <1>2, <2>2
    <3> QED BY <3>1, <3>2 DEF Timeline
  <2> QED BY <1>1, <2>1, <2>2
<1> QED BY <1>1, <1>3 DEF Timeline, all

\* Its last segment may be replaced by one that fits and comes after the others.
LEMMA TimelineReplace ==
  ASSUME NEW segs \in Seq(HeardSegment), NEW new, Timeline(segs), segs # <<>>,
         new.id = Last(segs).id, Fits(new), \A i \in 1..Len(segs) - 1 : Before(segs[i], new)
  PROVE  Timeline([segs EXCEPT ![Len(segs)] = new])
<1> DEFINE all == [segs EXCEPT ![Len(segs)] = new]
           n == Len(segs)
<1>1. n \in Nat \ {0} /\ DOMAIN all = 1..n /\ DOMAIN segs = 1..n OBVIOUS
<1>2. all[n] = new /\ \A i \in 1..n - 1 : all[i] = segs[i] OBVIOUS
<1>0. new.id = n - 1
  <2>1. Last(segs) = segs[n] BY DEF Last
  <2> QED BY <1>1, <2>1 DEF Timeline
<1> HIDE DEF all, n
<1>3. ASSUME NEW j \in 1..n
      PROVE  all[j].id = j - 1 /\ Fits(all[j]) /\ \A i \in 1..j - 1 : Before(all[i], all[j])
  <2>1. CASE j = n
    <3>1. all[j] = new BY <1>2, <2>1
    <3>2. \A i \in 1..j - 1 : all[i] = segs[i] BY <1>1, <1>2, <2>1
    <3>3. \A i \in 1..j - 1 : Before(segs[i], new) BY <2>1 DEF n
    <3> QED BY <1>0, <2>1, <3>1, <3>2, <3>3
  <2>2. CASE j \in 1..n - 1
    <3>1. all[j] = segs[j] /\ j \in DOMAIN segs BY <1>1, <1>2, <2>2
    <3>2. \A i \in 1..j - 1 : all[i] = segs[i] BY <1>1, <1>2, <2>2
    <3> QED BY <3>1, <3>2 DEF Timeline
  <2> QED BY <1>1, <2>1, <2>2
<1> QED BY <1>1, <1>3 DEF Timeline, all

----------------------------------------------------------------------------
(* Types.                                                                  *)

MergeTypeOK ==
  /\ PlanTypeOK
  /\ results \in Seq(Listing) /\ Len(results) = Len(windows)
  /\ c \in Nat \ {0}
  /\ todo \subseteq IF c \in DOMAIN results THEN DOMAIN results[c] ELSE {}
  /\ seg # 0 => /\ Worded /\ c \in DOMAIN results /\ seg \in DOMAIN results[c]
                /\ left \subseteq DOMAIN results[c][seg].words
  /\ kept \in Seq(HeardAs) /\ keptUntil \in Nat \cup {NegInf}
  /\ segments \in Seq(HeardSegment)

\* What the engine returned for the present chunk, and where the chunk begins.
LEMMA ChunkFacts ==
  ASSUME MergeTypeOK, c \in DOMAIN results, PlanAssumption
  PROVE  /\ chunks[c].start \in Nat
         /\ DOMAIN results[c] \subseteq Nat \ {0}
         /\ \A j \in DOMAIN results[c] :
              /\ results[c][j].start \in Nat /\ results[c][j].end \in Nat
              /\ results[c][j].text \in Seq(Nat) /\ results[c][j].words \in Seq(HeardAs)
<1>1. c \in 1..Len(results) /\ c \in DOMAIN windows
  <2>1. results \in Seq(Listing) /\ windows \in Seq([start : Nat, end : Nat])
    BY DEF MergeTypeOK, PlanTypeOK
  <2> QED BY <2>1 DEF MergeTypeOK
<1>2. results[c] \in Listing
  <2>1. results \in Seq(Listing) BY DEF MergeTypeOK
  <2> QED BY <1>1, <2>1, ElementOfSeq, Zenon
<1>a. PICK D \in SUBSET (Nat \ {0}) : results[c] \in [D -> Result]
  BY <1>2, Zenon DEF Listing
<1>3. ASSUME NEW j \in DOMAIN results[c] PROVE results[c][j] \in Result
  <2> DEFINE r == results[c]
  <2>1. r \in [D -> Result] /\ j \in DOMAIN r BY <1>a
  <2> HIDE DEF r
  <2>2. r[j] \in Result BY <2>1, Zenon
  <2> QED BY <2>2 DEF r
<1>4. chunks[c].start \in Nat BY <1>1, ChunkStart DEF MergeTypeOK
<1>5. DOMAIN results[c] \subseteq Nat \ {0} BY <1>a, Zenon
<1> QED BY <1>3, <1>4, <1>5 DEF Result

\* The present word.
LEMMA WordFacts ==
  ASSUME MergeTypeOK, TakeWord, PlanAssumption
  PROVE  next \in left /\ word \in HeardAs /\ Start \in Nat /\ End \in Nat
<1> DEFINE ws == results[c][seg].words
<1>1. /\ c \in DOMAIN results /\ seg \in DOMAIN results[c] /\ left \subseteq DOMAIN ws
      /\ left # {}
  BY DEF MergeTypeOK, TakeWord
<1>2. ws \in Seq(HeardAs) /\ chunks[c].start \in Nat BY <1>1, ChunkFacts
<1>3. \A j \in left : ws[j] \in HeardAs /\ j \in Nat
  <2> SUFFICES ASSUME NEW j \in left PROVE ws[j] \in HeardAs /\ j \in Nat OBVIOUS
  <2> HIDE DEF ws
  <2>1. j \in 1..Len(ws) BY <1>1, <1>2
  <2> QED BY <1>2, <2>1, ElementOfSeq
<1>4. next = Earliest(left, ws) /\ word = ws[next] BY DEF next, word
<1> HIDE DEF ws
<1>5. \A j \in left : ws[j].start \in Nat /\ ws[j].end \in Nat BY <1>3 DEF HeardAs
<1>6. left \in SUBSET Nat BY <1>3
<1>7. next \in left BY <1>1, <1>4, <1>5, <1>6, EarliestIn
<1>8. word \in HeardAs BY <1>3, <1>4, <1>7
<1>9. word.start \in Nat /\ word.end \in Nat BY <1>8 DEF HeardAs
<1>10. Start \in Nat /\ End \in Nat BY SMTT(30), <1>2, <1>9 DEF Start, End
<1> QED BY <1>7, <1>8, <1>10

\* The next segment.
LEMMA SegmentFacts ==
  ASSUME MergeTypeOK, todo # {}, PlanAssumption
  PROVE  c \in DOMAIN results /\ Earliest(todo, results[c]) \in todo /\ todo \subseteq DOMAIN results[c]
<1>1. c \in DOMAIN results /\ todo \subseteq DOMAIN results[c] BY DEF MergeTypeOK
<1>2. todo \in SUBSET Nat BY <1>1, ChunkFacts
<1>3. \A j \in todo : results[c][j].start \in Nat /\ results[c][j].end \in Nat
  BY <1>1, ChunkFacts
<1> QED BY <1>1, <1>2, <1>3, EarliestIn

\* A text of words.
LEMMA TextType == ASSUME NEW words \in Seq(HeardAs) PROVE TextOf(words) \in Seq(Nat)
<1>1. \A i \in 1..Len(words) : words[i] \in HeardAs BY ElementOfSeq
<1>2. \A i \in 1..Len(words) : words[i].of \in Nat BY <1>1 DEF HeardAs
<1>3. DOMAIN words = 1..Len(words) /\ Len(words) \in Nat OBVIOUS
<1>4. TextOf(words) \in [1..Len(words) -> Nat] BY <1>2, <1>3 DEF TextOf
<1> QED BY <1>3, <1>4, SeqDef

\* A merged segment.
LEMMA MergedFacts ==
  ASSUME NEW segs \in Seq(HeardSegment), NEW j \in DOMAIN segs
  PROVE  /\ segs[j].id \in Nat /\ segs[j].start \in Nat /\ segs[j].end \in Nat
         /\ segs[j].text \in Seq(Nat) /\ segs[j].words \in Seq(HeardAs)
         /\ \A k \in DOMAIN segs[j].words :
              segs[j].words[k].start \in Nat /\ segs[j].words[k].end \in Nat
<1> DEFINE ws == segs[j].words
<1>1. segs[j] \in HeardSegment
  <2>1. j \in 1..Len(segs) OBVIOUS
  <2> QED BY <2>1, ElementOfSeq
<1>2. ws \in Seq(HeardAs) BY <1>1 DEF HeardSegment
<1>3. \A k \in DOMAIN ws : ws[k].start \in Nat /\ ws[k].end \in Nat
  <2> SUFFICES ASSUME NEW k \in DOMAIN ws PROVE ws[k].start \in Nat /\ ws[k].end \in Nat OBVIOUS
  <2> HIDE DEF ws
  <2>1. k \in 1..Len(ws) BY <1>2
  <2>2. ws[k] \in HeardAs BY <1>2, <2>1, ElementOfSeq
  <2> QED BY <2>2 DEF HeardAs
<1> QED BY <1>1, <1>3 DEF HeardSegment

----------------------------------------------------------------------------
(* The inductive invariant: what is merged, and then what is kept of the   *)
(* present segment, comes before the time up to which words are kept.      *)

KeptInv == seg # 0 =>
  /\ Ordered(kept)
  /\ \A k \in DOMAIN kept : kept[k].end <= Stamp(keptUntil) /\ Reached(segments, kept[k].start)

MergeInv == /\ MergeTypeOK /\ Timeline(segments) /\ Reached(segments, Stamp(keptUntil))
            /\ KeptInv

\* A timeline that lies before t lies before every later time.
LEMMA ReachedLater ==
  ASSUME NEW segs \in Seq(HeardSegment), NEW t \in Nat, NEW u \in Nat, t <= u, Reached(segs, t)
  PROVE  Reached(segs, u)
<1> SUFFICES ASSUME NEW j \in DOMAIN segs
             PROVE  segs[j].start <= u /\ \A a \in DOMAIN segs[j].words : segs[j].words[a].end <= u
  BY DEF Reached
<1>1. segs[j].start <= t /\ \A a \in DOMAIN segs[j].words : segs[j].words[a].end <= t
  BY DEF Reached
<1>2. segs[j].start \in Nat /\ \A a \in DOMAIN segs[j].words : segs[j].words[a].end \in Nat
  BY MergedFacts
<1> QED BY <1>1, <1>2

\* A new last segment.
LEMMA ReachedAppend ==
  ASSUME NEW segs \in Seq(HeardSegment), NEW t \in Nat, Reached(segs, t), NEW new,
         new.start <= t, \A a \in DOMAIN new.words : new.words[a].end <= t
  PROVE  Reached(Append(segs, new), t)
<1> DEFINE all == Append(segs, new)
<1>1. ASSUME NEW j \in DOMAIN all
      PROVE  all[j].start <= t /\ \A a \in DOMAIN all[j].words : all[j].words[a].end <= t
  <2>1. CASE j \in DOMAIN segs
    <3>1. all[j] = segs[j] BY <2>1
    <3> QED BY <2>1, <3>1 DEF Reached
  <2>2. CASE j \notin DOMAIN segs
    <3>1. all[j] = new BY <2>2
    <3> QED BY <3>1
  <2> QED BY <2>1, <2>2
<1> QED BY <1>1 DEF Reached

\* Another last segment.
LEMMA ReachedReplace ==
  ASSUME NEW segs \in Seq(HeardSegment), NEW t \in Nat, Reached(segs, t), NEW new,
         new.start <= t, \A a \in DOMAIN new.words : new.words[a].end <= t
  PROVE  Reached([segs EXCEPT ![Len(segs)] = new], t)
<1> DEFINE all == [segs EXCEPT ![Len(segs)] = new]
<1>1. DOMAIN all = DOMAIN segs OBVIOUS
<1>2. ASSUME NEW j \in DOMAIN segs
      PROVE  all[j].start <= t /\ \A a \in DOMAIN all[j].words : all[j].words[a].end <= t
  <2>1. CASE j # Len(segs)
    <3>1. all[j] = segs[j] BY <2>1
    <3> QED BY <3>1 DEF Reached
  <2>2. CASE j = Len(segs)
    <3>1. all[j] = new BY <2>2
    <3> QED BY <3>1
  <2> QED BY <2>1, <2>2
<1> QED BY <1>1, <1>2 DEF Reached

----------------------------------------------------------------------------
(* Steps that leave the merged segments as they are.                       *)

\* A new chunk.
LEMMA NextChunkKeeps == ASSUME MergeInv, NextChunk PROVE MergeInv'
<1>1. /\ UNCHANGED <<setting, windows, planned, results, seg, left, kept, keptUntil, segments>>
      /\ seg = 0 /\ c' = c + 1
      /\ todo' = IF c + 1 \in DOMAIN results THEN DOMAIN results[c + 1] ELSE {}
  BY DEF NextChunk, BeginChunk, heard, inSegment, acrossChunks
<1>2. c' \in Nat \ {0} BY <1>1 DEF MergeInv, MergeTypeOK
<1>3. MergeTypeOK' BY <1>1, <1>2 DEF MergeInv, MergeTypeOK, PlanTypeOK
<1>4. Timeline(segments)' /\ Reached(segments, Stamp(keptUntil))' BY <1>1 DEF MergeInv
<1>5. KeptInv' BY <1>1 DEF KeptInv
<1> QED BY <1>3, <1>4, <1>5 DEF MergeInv

\* A new segment.
LEMMA SegmentBeginsKeeps == ASSUME MergeInv, SegmentBegins, PlanAssumption PROVE MergeInv'
<1>1. /\ UNCHANGED <<setting, windows, planned, results, c, keptUntil, segments>>
      /\ Worded /\ todo # {} /\ seg' = Earliest(todo, results[c]) /\ todo' = todo \ {seg'}
      /\ left' = DOMAIN results[c][seg'].words /\ kept' = <<>>
  BY DEF SegmentBegins, heard, acrossChunks
<1>2. c \in DOMAIN results /\ seg' \in todo /\ todo \subseteq DOMAIN results[c]
  BY <1>1, SegmentFacts DEF MergeInv
<1>3. Worded' BY <1>1 DEF Worded
<1>4. kept' \in Seq(HeardAs) BY <1>1, EmptySeq
<1>5. todo' \subseteq IF c \in DOMAIN results THEN DOMAIN results[c] ELSE {} BY <1>1, <1>2
<1>6. PlanTypeOK' BY <1>1 DEF MergeInv, MergeTypeOK, PlanTypeOK
<1>7. MergeTypeOK'
  <2>1. /\ results' \in Seq(Listing) /\ Len(results') = Len(windows') /\ c' \in Nat \ {0}
        /\ keptUntil' \in Nat \cup {NegInf} /\ segments' \in Seq(HeardSegment)
    BY <1>1 DEF MergeInv, MergeTypeOK
  <2>2. todo' \subseteq IF c' \in DOMAIN results' THEN DOMAIN results'[c'] ELSE {} BY <1>1, <1>5
  <2>3. c' \in DOMAIN results' /\ seg' \in DOMAIN results'[c'] /\ left' \subseteq DOMAIN results'[c'][seg'].words
    BY <1>1, <1>2
  <2> QED BY <1>3, <1>4, <1>6, <2>1, <2>2, <2>3 DEF MergeTypeOK
<1>8. Timeline(segments)' /\ Reached(segments, Stamp(keptUntil))' BY <1>1 DEF MergeInv
<1>9. KeptInv'
  <2>1. DOMAIN kept' = {} BY <1>1
  <2> QED BY <2>1 DEF KeptInv, Ordered, InOrder
<1> QED BY <1>7, <1>8, <1>9 DEF MergeInv

\* A word that is not kept.
LEMMA WordSkippedKeeps ==
  ASSUME MergeInv, left' \subseteq left,
         UNCHANGED <<setting, windows, planned, results, c, todo, seg, kept, keptUntil, segments>>
  PROVE  MergeInv'
<1>1. Worded' = Worded BY DEF Worded
<1>2. MergeTypeOK' BY <1>1 DEF MergeInv, MergeTypeOK, PlanTypeOK
<1>3. Timeline(segments)' /\ Reached(segments, Stamp(keptUntil))' BY DEF MergeInv
<1>4. KeptInv' BY DEF MergeInv, KeptInv
<1> QED BY <1>2, <1>3, <1>4 DEF MergeInv

\* A word more at the end of ordered words.
LEMMA OrderedAppend ==
  ASSUME NEW words \in Seq(HeardAs), Ordered(words), NEW w \in HeardAs, w.start <= w.end,
         \A k \in DOMAIN words : words[k].end <= w.start
  PROVE  Ordered(Append(words, w))
<1> DEFINE all == Append(words, w)
           n == Len(words)
<1>1. n \in Nat /\ DOMAIN all = 1..n + 1 /\ DOMAIN words = 1..n OBVIOUS
<1>2. all[n + 1] = w /\ \A i \in 1..n : all[i] = words[i] OBVIOUS
<1> HIDE DEF all, n
<1>3. ASSUME NEW i \in 1..n + 1, NEW j \in 1..n + 1, i < j PROVE all[i].end <= all[j].start
  <2>1. i \in 1..n /\ all[i] = words[i] BY <1>1, <1>2, <1>3
  <2>2. CASE j = n + 1 BY <1>1, <1>2, <2>1, <2>2
  <2>3. CASE j \in 1..n BY <1>1, <1>2, <1>3, <2>1, <2>3 DEF Ordered, InOrder
  <2> QED BY <1>1, <2>2, <2>3
<1>4. ASSUME NEW i \in 1..n + 1 PROVE all[i].start <= all[i].end
  <2>1. CASE i = n + 1 BY <1>2, <2>1
  <2>2. CASE i \in 1..n BY <1>1, <1>2, <2>2 DEF Ordered
  <2> QED BY <1>1, <2>1, <2>2
<1>5. Ordered(all) BY <1>1, <1>3, <1>4 DEF Ordered, InOrder
<1> QED BY <1>5 DEF all

\* A word that is kept, clamped to the time up to which words are kept.
LEMMA WordKeptKeeps == ASSUME MergeInv, WordKept, PlanAssumption PROVE MergeInv'
<1>1. /\ UNCHANGED <<setting, windows, planned, results, c, todo, seg, segments>>
      /\ TakeWord /\ left' = left \ {next}
  BY DEF WordKept, TakeWord, heard
<1>2. CASE UNCHANGED <<kept, keptUntil>>
  <2>1. left' \subseteq left BY <1>1
  <2> QED BY <1>1, <1>2, <2>1, WordSkippedKeeps
<1>3. CASE ~UNCHANGED <<kept, keptUntil>>
  <2> DEFINE w == [word EXCEPT !.start = Stamp(Clamped), !.end = Stamp(End)]
             t == Stamp(keptUntil)
             u == Stamp(End)
  <2>1. ~(Clamped >= End) /\ kept' = Append(kept, w) /\ keptUntil' = End
    BY <1>3 DEF WordKept
  <2>2. word \in HeardAs /\ Start \in Nat /\ End \in Nat BY <1>1, WordFacts DEF MergeInv
  <2>3. keptUntil \in Nat \cup {NegInf} /\ kept \in Seq(HeardAs) /\ segments \in Seq(HeardSegment)
    BY DEF MergeInv, MergeTypeOK
  <2>4. Clamped \in Nat /\ keptUntil <= Clamped /\ Clamped <= End
    BY <2>1, <2>2, <2>3 DEF Clamped, Greater, NegInf
  <2>5. t \in Nat /\ t <= Stamp(Clamped) /\ Stamp(Clamped) \in Nat /\ u \in Nat /\ Stamp(Clamped) <= u
    BY <2>2, <2>3, <2>4, StampFacts
  <2>6. w \in HeardAs /\ w.start = Stamp(Clamped) /\ w.end = u
    <3>1. word \in [start : Nat, end : Nat, of : Nat, sound : Sounds] BY <2>2 DEF HeardAs
    <3> HIDE DEF u
    <3> QED BY <2>5, <3>1 DEF HeardAs, u
  <2>7. Timeline(segments) /\ Reached(segments, t) BY DEF MergeInv
  <2>8. Ordered(kept) /\ \A k \in DOMAIN kept : kept[k].end <= t /\ Reached(segments, kept[k].start)
    BY <1>1 DEF MergeInv, KeptInv, TakeWord
  <2>9. \A k \in DOMAIN kept : kept[k].end \in Nat
    <3> SUFFICES ASSUME NEW k \in DOMAIN kept PROVE kept[k].end \in Nat OBVIOUS
    <3>1. k \in 1..Len(kept) BY <2>3
    <3>2. kept[k] \in HeardAs BY <2>3, <3>1, ElementOfSeq
    <3> QED BY <3>2 DEF HeardAs
  <2> HIDE DEF w, t, u
  <2>10. Ordered(kept') /\ kept' \in Seq(HeardAs)
    <3>1. \A k \in DOMAIN kept : kept[k].end <= w.start BY <2>5, <2>6, <2>8, <2>9
    <3>2. w.start <= w.end BY <2>5, <2>6
    <3> QED BY <2>1, <2>3, <2>6, <2>8, <3>1, <3>2, OrderedAppend
  <2>11. \A k \in DOMAIN kept' : kept'[k].end <= u /\ Reached(segments, kept'[k].start)
    <3> SUFFICES ASSUME NEW k \in DOMAIN kept'
                 PROVE  kept'[k].end <= u /\ Reached(segments, kept'[k].start)
      OBVIOUS
    <3>1. CASE k \in DOMAIN kept
      <4>1. kept'[k] = kept[k] BY <2>1, <2>3, <3>1
      <4> QED BY <2>5, <2>8, <2>9, <3>1, <4>1
    <3>2. CASE k \notin DOMAIN kept
      <4>1. kept'[k] = w BY <2>1, <2>3, <3>2
      <4>2. Reached(segments, w.start) BY <2>3, <2>5, <2>6, <2>7, ReachedLater
      <4> QED BY <2>5, <2>6, <4>1, <4>2
    <3> QED BY <3>1, <3>2
  <2>12. Reached(segments, u) BY <2>3, <2>5, <2>7, ReachedLater
  <2>13. Stamp(keptUntil)' = u BY <2>1 DEF u, Stamp
  <2>14. MergeTypeOK'
    <3>1. Worded' = Worded BY <1>1 DEF Worded
    <3>2. left' \subseteq left BY <1>1
    <3>3. keptUntil' \in Nat BY <2>1, <2>2
    <3>4. PlanTypeOK' BY <1>1 DEF MergeInv, MergeTypeOK, PlanTypeOK
    <3> QED BY <1>1, <2>10, <3>1, <3>2, <3>3, <3>4 DEF MergeInv, MergeTypeOK
  <2>15. KeptInv' BY <1>1, <2>10, <2>11, <2>13 DEF KeptInv
  <2> QED BY <1>1, <2>7, <2>12, <2>13, <2>14, <2>15 DEF MergeInv
<1> QED BY <1>2, <1>3

----------------------------------------------------------------------------
(* Steps that merge a segment.                                             *)

\* A merged segment changes nothing that is still to come.
LEMMA SegmentMergedTypes ==
  ASSUME MergeTypeOK, segments' \in Seq(HeardSegment), keptUntil' \in Nat \cup {NegInf},
         todo' \subseteq todo, seg' = 0, UNCHANGED <<setting, windows, planned, results, c, kept>>
  PROVE  MergeTypeOK'
<1>1. PlanTypeOK' BY DEF MergeTypeOK, PlanTypeOK
<1> QED BY <1>1 DEF MergeTypeOK

\* The words kept of a segment.
LEMMA KeptFacts ==
  ASSUME MergeInv, seg # 0, kept # <<>>
  PROVE  LET t == Stamp(keptUntil) IN
         /\ kept \in Seq(HeardAs) /\ Ordered(kept) /\ t \in Nat
         /\ 1 \in DOMAIN kept /\ Len(kept) \in DOMAIN kept /\ Last(kept) = kept[Len(kept)]
         /\ \A k \in DOMAIN kept :
              /\ kept[k].start \in Nat /\ kept[k].end \in Nat
              /\ kept[1].start <= kept[k].start /\ kept[k].start <= kept[k].end
              /\ kept[k].end <= Last(kept).end /\ kept[k].end <= t
              /\ Reached(segments, kept[k].start)
<1>1. kept \in Seq(HeardAs) /\ Ordered(kept)
      /\ \A k \in DOMAIN kept : kept[k].end <= Stamp(keptUntil) /\ Reached(segments, kept[k].start)
  BY DEF MergeInv, MergeTypeOK, KeptInv
<1>2. Stamp(keptUntil) \in Nat BY StampFacts DEF MergeInv, MergeTypeOK
<1>3. \A k \in DOMAIN kept : kept[k].start \in Nat /\ kept[k].end \in Nat
  <2> SUFFICES ASSUME NEW k \in DOMAIN kept PROVE kept[k].start \in Nat /\ kept[k].end \in Nat OBVIOUS
  <2>1. k \in 1..Len(kept) BY <1>1
  <2>2. kept[k] \in HeardAs BY <1>1, <2>1, ElementOfSeq
  <2> QED BY <2>2 DEF HeardAs
<1>4. \A k \in DOMAIN kept : kept[k].start <= kept[k].end BY <1>1 DEF Ordered
<1>5. /\ Len(kept) \in DOMAIN kept /\ 1 \in DOMAIN kept /\ Last(kept) = kept[Len(kept)]
      /\ \A k \in DOMAIN kept : kept[1].start <= kept[k].start /\ kept[k].end <= Last(kept).end
  BY <1>1, OrderedBounds
<1> QED BY <1>1, <1>2, <1>3, <1>4, <1>5

\* What is appended begins no later than its words and ends no earlier, but begins after
\* every segment before.
LEMMA AppendKeeps ==
  ASSUME MergeInv, seg # 0, kept # <<>>, seg' = 0,
         UNCHANGED <<setting, windows, planned, results, c, todo, kept, keptUntil>>,
         NEW start \in Nat, NEW end \in Nat, NEW text \in Seq(Nat),
         start <= kept[1].start, Last(kept).end <= end,
         \A i \in DOMAIN segments : segments[i].start <= start,
         segments' = Append(segments, SegmentOf(Len(segments), start, end, text, kept))
  PROVE  MergeInv'
<1> DEFINE new == SegmentOf(Len(segments), start, end, text, kept)
           t == Stamp(keptUntil)
<1>1. new = [id |-> Len(segments), start |-> start, end |-> end, text |-> text, words |-> kept]
  BY DEF SegmentOf
<1>2. segments \in Seq(HeardSegment) /\ Timeline(segments) /\ Reached(segments, t)
  BY DEF MergeInv, MergeTypeOK
<1>3. /\ kept \in Seq(HeardAs) /\ Ordered(kept) /\ t \in Nat
      /\ 1 \in DOMAIN kept /\ Len(kept) \in DOMAIN kept /\ Last(kept) = kept[Len(kept)]
      /\ \A k \in DOMAIN kept :
           /\ kept[k].start \in Nat /\ kept[k].end \in Nat
           /\ kept[1].start <= kept[k].start /\ kept[k].start <= kept[k].end
           /\ kept[k].end <= Last(kept).end /\ kept[k].end <= t
           /\ Reached(segments, kept[k].start)
  BY KeptFacts
<1> HIDE DEF new, t
<1>4. new \in HeardSegment
  <2>1. Len(segments) \in Nat BY <1>2
  <2> QED BY <1>1, <1>3, <2>1 DEF HeardSegment
<1>5. Fits(new)
  <2>1. start <= end BY <1>3
  <2>2. \A k \in DOMAIN kept : start <= kept[k].start /\ kept[k].end <= end BY <1>3
  <2> QED BY <1>1, <1>3, <2>1, <2>2 DEF Fits, Ordered
<1>6. \A i \in DOMAIN segments : Before(segments[i], new)
  <2>1. \A i \in DOMAIN segments : \A a \in DOMAIN segments[i].words : \A b \in DOMAIN kept :
          segments[i].words[a].end <= kept[b].start
    BY <1>3 DEF Reached
  <2> QED BY <1>1, <2>1 DEF Before
<1>7. new.start <= t /\ \A a \in DOMAIN new.words : new.words[a].end <= t BY <1>1, <1>3
<1>8. segments' = Append(segments, new) BY DEF new
<1>9. Timeline(segments')
  <2>1. new.id = Len(segments) BY <1>1
  <2> QED BY <1>2, <1>5, <1>6, <1>8, <2>1, TimelineAppend
<1>10. Reached(segments', t) BY <1>2, <1>3, <1>7, <1>8, ReachedAppend
<1>11. Stamp(keptUntil)' = t BY DEF t, Stamp
<1>12. MergeTypeOK'
  <2>1. segments' \in Seq(HeardSegment) BY <1>2, <1>4, <1>8
  <2>2. MergeTypeOK /\ keptUntil' \in Nat \cup {NegInf} BY DEF MergeInv, MergeTypeOK
  <2> QED BY <2>1, <2>2, SegmentMergedTypes
<1> QED BY <1>9, <1>10, <1>11, <1>12 DEF MergeInv, KeptInv

\* A segment that goes on in the chunk after the cut.
LEMMA JoinKeeps ==
  ASSUME MergeInv, seg # 0, kept # <<>>, seg' = 0, segments # <<>>, segments' = Join,
         UNCHANGED <<setting, windows, planned, results, c, todo, kept, keptUntil>>
  PROVE  MergeInv'
<1> DEFINE n == Len(segments)
           prev == segments[n]
           m == Len(prev.words)
           words == prev.words \o kept
           end == Last(kept).end
           new == SegmentOf(prev.id, prev.start, end, TextOf(words), words)
           t == Stamp(keptUntil)
<1>1. /\ kept \in Seq(HeardAs) /\ Ordered(kept) /\ t \in Nat
      /\ 1 \in DOMAIN kept /\ Len(kept) \in DOMAIN kept /\ Last(kept) = kept[Len(kept)]
      /\ \A k \in DOMAIN kept :
           /\ kept[k].start \in Nat /\ kept[k].end \in Nat
           /\ kept[1].start <= kept[k].start /\ kept[k].start <= kept[k].end
           /\ kept[k].end <= Last(kept).end /\ kept[k].end <= t
           /\ Reached(segments, kept[k].start)
  BY KeptFacts
<1>2. segments \in Seq(HeardSegment) /\ Timeline(segments) /\ Reached(segments, t)
  BY DEF MergeInv, MergeTypeOK
<1>3. n \in Nat \ {0} /\ n \in DOMAIN segments /\ DOMAIN segments = 1..n /\ Last(segments) = prev
  BY <1>2 DEF Last
<1>4. /\ prev.id \in Nat /\ prev.start \in Nat /\ prev.end \in Nat /\ prev.words \in Seq(HeardAs)
      /\ \A k \in DOMAIN prev.words : prev.words[k].start \in Nat /\ prev.words[k].end \in Nat
  BY <1>2, <1>3, MergedFacts
<1>5. Fits(prev) /\ \A i \in 1..n - 1 : Before(segments[i], prev) BY <1>2, <1>3 DEF Timeline
<1>6. \A k \in DOMAIN kept : /\ prev.start <= kept[k].start
                             /\ \A a \in DOMAIN prev.words : prev.words[a].end <= kept[k].start
  BY <1>1, <1>3 DEF Reached
<1>7. segments' = [segments EXCEPT ![n] = new] BY <1>3 DEF Join
<1>8. new = [id |-> prev.id, start |-> prev.start, end |-> end, text |-> TextOf(words), words |-> words]
  BY DEF SegmentOf
<1>9. /\ words \in Seq(HeardAs) /\ m \in Nat /\ DOMAIN prev.words = 1..m
      /\ DOMAIN kept = 1..Len(kept) /\ Len(kept) \in Nat /\ DOMAIN words = 1..m + Len(kept)
      /\ \A k \in 1..m : words[k] = prev.words[k]
      /\ \A k \in DOMAIN words : k \notin 1..m => words[k] = kept[k - m] /\ k - m \in DOMAIN kept
  <2> DEFINE ws == prev.words
  <2>1. ws \in Seq(HeardAs) BY <1>4
  <2> HIDE DEF ws
  <2>2. ws \o kept \in Seq(HeardAs) /\ Len(ws \o kept) = Len(ws) + Len(kept) BY <1>1, <2>1
  <2>3. \A k \in 1..Len(ws) : (ws \o kept)[k] = ws[k] BY <1>1, <2>1
  <2>4. \A k \in 1..Len(ws) + Len(kept) : k \notin 1..Len(ws) =>
          (ws \o kept)[k] = kept[k - Len(ws)] /\ k - Len(ws) \in 1..Len(kept)
    BY <1>1, <2>1
  <2>5. DOMAIN ws = 1..Len(ws) /\ DOMAIN kept = 1..Len(kept) /\ Len(ws) \in Nat /\ Len(kept) \in Nat
        /\ DOMAIN (ws \o kept) = 1..Len(ws) + Len(kept)
    BY <1>1, <2>1, <2>2
  <2> QED BY <2>2, <2>3, <2>4, <2>5 DEF ws
<1> HIDE DEF n, prev, m, words, end, new, t
<1>10. end \in Nat /\ end <= t /\ prev.start <= end /\ \A k \in DOMAIN kept : kept[k].end <= end
  <2>1. end = kept[Len(kept)].end BY <1>1 DEF end
  <2> QED BY <1>1, <1>4, <1>6, <2>1 DEF end
<1>11. \A k \in DOMAIN words : /\ prev.start <= words[k].start /\ words[k].end <= end
                               /\ words[k].end <= t
  <2> SUFFICES ASSUME NEW k \in DOMAIN words
               PROVE  prev.start <= words[k].start /\ words[k].end <= end /\ words[k].end <= t
    OBVIOUS
  <2>1. CASE k \in 1..m
    <3>1. words[k] = prev.words[k] /\ k \in DOMAIN prev.words BY <1>9, <2>1
    <3>2. prev.start <= prev.words[k].start BY <1>5, <3>1 DEF Fits
    <3>3. prev.words[k].end <= kept[1].start /\ kept[1].start <= kept[1].end BY <1>1, <1>6, <3>1
    <3>4. kept[1].end <= end /\ kept[1].end <= t BY <1>1, <1>10
    <3> QED BY SMTT(30), <1>1, <1>4, <1>10, <3>1, <3>2, <3>3, <3>4
  <2>2. CASE k \notin 1..m
    <3>1. words[k] = kept[k - m] /\ k - m \in DOMAIN kept BY <1>9, <2>2
    <3> QED BY <1>1, <1>6, <1>10, <3>1
  <2> QED BY <2>1, <2>2
<1>12. InOrder(words)
  <2> SUFFICES ASSUME NEW i \in DOMAIN words, NEW j \in DOMAIN words, i < j
               PROVE  words[i].end <= words[j].start
    BY DEF InOrder
  <2>1. CASE i \in 1..m /\ j \in 1..m
    <3>1. words[i] = prev.words[i] /\ words[j] = prev.words[j] BY <1>9, <2>1
    <3> QED BY <1>5, <1>9, <2>1, <3>1 DEF Fits, InOrder
  <2>2. CASE i \in 1..m /\ j \notin 1..m
    <3>1. words[i] = prev.words[i] /\ words[j] = kept[j - m] /\ j - m \in DOMAIN kept BY <1>9, <2>2
    <3> QED BY <1>6, <1>9, <2>2, <3>1
  <2>3. CASE i \notin 1..m
    <3>1. i \in 1..m + Len(kept) /\ j \in 1..m + Len(kept) BY <1>9
    <3>2. j \notin 1..m BY <1>9, <2>3, <3>1
    <3>3. /\ words[i] = kept[i - m] /\ i - m \in DOMAIN kept
          /\ words[j] = kept[j - m] /\ j - m \in DOMAIN kept
      BY <1>9, <2>3, <3>2
    <3>4. i - m < j - m BY <1>9, <3>1
    <3> QED BY <1>1, <3>3, <3>4 DEF Ordered, InOrder
  <2> QED BY <2>1, <2>2, <2>3
<1>13. Fits(new) BY <1>8, <1>10, <1>11, <1>12 DEF Fits
<1>14. \A i \in 1..n - 1 : Before(segments[i], new)
  <2> SUFFICES ASSUME NEW i \in 1..n - 1 PROVE Before(segments[i], new) OBVIOUS
  <2>1. segments[i].start <= prev.start BY <1>5 DEF Before
  <2>2. ASSUME NEW a \in DOMAIN segments[i].words, NEW b \in DOMAIN words
        PROVE  segments[i].words[a].end <= words[b].start
    <3>1. CASE b \in 1..m
      <4>1. words[b] = prev.words[b] /\ b \in DOMAIN prev.words BY <1>9, <3>1
      <4> QED BY <1>5, <4>1 DEF Before
    <3>2. CASE b \notin 1..m
      <4>1. words[b] = kept[b - m] /\ b - m \in DOMAIN kept BY <1>9, <3>2
      <4>2. i \in DOMAIN segments BY <1>3
      <4> QED BY <1>1, <4>1, <4>2 DEF Reached
    <3> QED BY <3>1, <3>2
  <2> QED BY <1>8, <2>1, <2>2 DEF Before
<1>15. Timeline(segments')
  <2>1. new.id = Last(segments).id BY <1>3, <1>8
  <2>2. \A i \in 1..Len(segments) - 1 : Before(segments[i], new) BY <1>14 DEF n
  <2>3. segments' = [segments EXCEPT ![Len(segments)] = new] BY <1>7 DEF n
  <2> QED BY <1>2, <1>13, <2>1, <2>2, <2>3, TimelineReplace
<1>16. Reached(segments', t)
  <2>1. prev.start <= t BY <1>2, <1>3 DEF Reached, prev
  <2>2. new.start <= t /\ \A a \in DOMAIN new.words : new.words[a].end <= t
    BY <1>8, <1>11, <2>1
  <2>3. segments' = [segments EXCEPT ![Len(segments)] = new] BY <1>7 DEF n
  <2> QED BY <1>1, <1>2, <2>2, <2>3, ReachedReplace
<1>17. MergeTypeOK'
  <2>1. TextOf(words) \in Seq(Nat) BY <1>9, TextType
  <2>2. new \in HeardSegment BY <1>4, <1>8, <1>9, <1>10, <2>1 DEF HeardSegment
  <2>3. segments' \in Seq(HeardSegment) BY <1>2, <1>3, <1>7, <2>2
  <2>4. MergeTypeOK /\ keptUntil' \in Nat \cup {NegInf} BY DEF MergeInv, MergeTypeOK
  <2> QED BY <2>3, <2>4, SegmentMergedTypes
<1>18. Stamp(keptUntil)' = t BY DEF t, Stamp
<1> QED BY <1>15, <1>16, <1>17, <1>18 DEF MergeInv, KeptInv

\* A segment of which no word is kept, or whose words join the last segment, or that is
\* appended with the bounds of the engine or with its own.
LEMMA SegmentEndsKeeps == ASSUME MergeInv, SegmentEnds, PlanAssumption PROVE MergeInv'
<1>1. /\ UNCHANGED <<setting, windows, planned, results, c, todo, left, kept, keptUntil>>
      /\ seg # 0 /\ seg' = 0
  BY DEF SegmentEnds, heard, inSegment
<1>2. CASE kept = <<>> /\ UNCHANGED segments
  <2>1. segments' \in Seq(HeardSegment) /\ keptUntil' \in Nat \cup {NegInf} /\ MergeTypeOK
    BY <1>1, <1>2 DEF MergeInv, MergeTypeOK
  <2>2. MergeTypeOK' BY <1>1, <2>1, SegmentMergedTypes
  <2>3. Timeline(segments)' /\ Reached(segments, Stamp(keptUntil))' BY <1>1, <1>2 DEF MergeInv
  <2> QED BY <1>1, <2>2, <2>3 DEF MergeInv, KeptInv
<1>3. CASE kept # <<>> /\ Joined /\ segments' = Join
  BY <1>1, <1>3, JoinKeeps DEF Joined
<1> DEFINE s == results[c][seg]
           own == Stamp(s.start + chunks[c].start)
           after == IF segments = <<>> THEN own ELSE Greater(own, Last(segments).end)
<1>4. c \in DOMAIN results /\ seg \in DOMAIN results[c] BY <1>1 DEF MergeInv, MergeTypeOK
<1>5. chunks[c].start \in Nat /\ s.start \in Nat /\ s.end \in Nat /\ s.text \in Seq(Nat)
  BY <1>4, ChunkFacts DEF MergeInv
<1>6. own \in Nat /\ Stamp(s.end + chunks[c].start) \in Nat
  <2>1. s.start + chunks[c].start \in Nat /\ s.end + chunks[c].start \in Nat BY <1>5
  <2> QED BY <2>1, StampFacts
<1>7. segments \in Seq(HeardSegment) /\ Timeline(segments) BY DEF MergeInv, MergeTypeOK
<1>8. ASSUME kept # <<>>
      PROVE  /\ kept \in Seq(HeardAs) /\ kept[1].start \in Nat /\ Last(kept).end \in Nat
             /\ kept[1].start <= Last(kept).end
             /\ \A i \in DOMAIN segments : segments[i].start <= kept[1].start
  <2>1. /\ kept \in Seq(HeardAs) /\ 1 \in DOMAIN kept /\ Len(kept) \in DOMAIN kept
        /\ Last(kept) = kept[Len(kept)]
        /\ \A k \in DOMAIN kept :
             /\ kept[k].start \in Nat /\ kept[k].end \in Nat
             /\ kept[1].start <= kept[k].start /\ kept[k].start <= kept[k].end
             /\ Reached(segments, kept[k].start)
    BY <1>1, <1>8, KeptFacts
  <2>2. kept[1].start <= kept[Len(kept)].end BY <2>1
  <2> QED BY <2>1, <2>2 DEF Reached
<1>9. CASE kept # <<>> /\ segments' = Append(segments, Uncut)
  <2> DEFINE start == Lesser(after, kept[1].start)
             end == Greater(Stamp(s.end + chunks[c].start), Last(kept).end)
  <2>1. Uncut = SegmentOf(Len(segments), start, end, s.text, kept) BY DEF Uncut, WholeStart
  <2>2. after \in Nat /\ \A i \in DOMAIN segments : segments[i].start <= after
    <3>1. CASE segments = <<>> BY <1>6, <3>1
    <3>2. CASE segments # <<>>
      <4> DEFINE n == Len(segments)
      <4>1. n \in DOMAIN segments /\ DOMAIN segments = 1..n /\ n \in Nat /\ Last(segments) = segments[n]
        BY <1>7, <3>2 DEF Last
      <4>2. \A i \in DOMAIN segments : segments[i].start \in Nat /\ segments[i].end \in Nat
        BY <1>7, MergedFacts
      <4>3. \A i \in DOMAIN segments : segments[i].start <= segments[n].start
        <5> SUFFICES ASSUME NEW i \in DOMAIN segments PROVE segments[i].start <= segments[n].start
          OBVIOUS
        <5>1. CASE i = n BY <4>1, <4>2, <5>1
        <5>2. CASE i # n
          <6>1. i \in 1..n - 1 BY <4>1, <5>2
          <6> QED BY <1>7, <4>1, <6>1 DEF Timeline, Before
        <5> QED BY <5>1, <5>2
      <4>4. segments[n].start <= segments[n].end BY <1>7, <4>1 DEF Timeline, Fits
      <4> HIDE DEF n, own
      <4>5. after = Greater(own, segments[n].end) BY <3>2, <4>1
      <4>6. after \in Nat /\ segments[n].end <= after BY <1>6, <4>1, <4>2, <4>5 DEF Greater, own
      <4> QED BY <4>1, <4>2, <4>3, <4>4, <4>6
    <3> QED BY <3>1, <3>2
  <2> HIDE DEF after, own
  <2>3. start \in Nat /\ start <= kept[1].start
        /\ \A i \in DOMAIN segments : segments[i].start <= start
    BY <1>8, <1>9, <2>2 DEF Lesser
  <2>4. end \in Nat /\ Last(kept).end <= end BY <1>6, <1>8, <1>9 DEF Greater
  <2> HIDE DEF start, end
  <2> QED BY <1>1, <1>5, <1>9, <2>1, <2>3, <2>4, AppendKeeps
<1>10. CASE kept # <<>> /\ segments' = Append(segments, Rebuilt)
  <2>1. TextOf(kept) \in Seq(Nat) BY <1>8, <1>10, TextType
  <2>2. /\ kept[1].start \in Nat /\ Last(kept).end \in Nat
        /\ kept[1].start <= kept[1].start /\ Last(kept).end <= Last(kept).end
        /\ \A i \in DOMAIN segments : segments[i].start <= kept[1].start
    BY <1>8, <1>10
  <2> QED BY <1>1, <1>10, <2>1, <2>2, AppendKeeps DEF Rebuilt
<1> HIDE DEF s, own, after
<1> QED BY <1>2, <1>3, <1>9, <1>10 DEF SegmentEnds

\* A segment that is merged whole, without words.
LEMMA MergeSegmentKeeps == ASSUME MergeInv, MergeSegment, PlanAssumption PROVE MergeInv'
<1> DEFINE i == Earliest(todo, results[c])
           s == results[c][i]
           start == s.start + chunks[c].start
           end == s.end + chunks[c].start
           clamped == Greater(start, keptUntil)
           new == SegmentOf(Len(segments), Stamp(clamped), Stamp(end), s.text, <<>>)
           t == Stamp(keptUntil)
           u == Stamp(end)
<1>1. /\ UNCHANGED <<setting, windows, planned, results, c, seg, left, kept>>
      /\ ~Worded /\ todo # {} /\ todo' = todo \ {i}
  BY DEF MergeSegment, heard, inSegment
<1>2. \/ UNCHANGED <<segments, keptUntil>>
      \/ ~(clamped >= end) /\ keptUntil' = end /\ segments' = Append(segments, new)
  BY DEF MergeSegment
<1>3. MergeTypeOK /\ Timeline(segments) /\ Reached(segments, t) BY DEF MergeInv
<1>4. seg = 0 /\ seg' = 0 /\ todo' \subseteq todo BY <1>1, <1>3 DEF MergeTypeOK
<1>5. c \in DOMAIN results /\ i \in DOMAIN results[c] BY <1>1, <1>3, SegmentFacts
<1>6. start \in Nat /\ end \in Nat /\ s.text \in Seq(Nat)
  <2>1. chunks[c].start \in Nat /\ s.start \in Nat /\ s.end \in Nat /\ s.text \in Seq(Nat)
    BY <1>3, <1>5, ChunkFacts
  <2> HIDE DEF s
  <2> QED BY <2>1
<1>7. segments \in Seq(HeardSegment) /\ keptUntil \in Nat \cup {NegInf} BY <1>3 DEF MergeTypeOK
<1> HIDE DEF i, s, start, end
<1>8. CASE UNCHANGED <<segments, keptUntil>>
  <2>1. MergeTypeOK' BY <1>1, <1>3, <1>4, <1>7, <1>8, SegmentMergedTypes
  <2>2. Timeline(segments)' /\ Reached(segments, Stamp(keptUntil))' BY <1>3, <1>8
  <2> QED BY <1>4, <2>1, <2>2 DEF MergeInv, KeptInv
<1>9. CASE ~(clamped >= end) /\ keptUntil' = end /\ segments' = Append(segments, new)
  <2>1. clamped \in Nat /\ keptUntil <= clamped /\ clamped <= end
    BY <1>6, <1>7, <1>9 DEF Greater, NegInf
  <2> HIDE DEF clamped
  <2>2. t \in Nat /\ t <= Stamp(clamped) /\ Stamp(clamped) \in Nat /\ u \in Nat /\ Stamp(clamped) <= u
    BY <1>6, <1>7, <2>1, StampFacts
  <2>3. new = [id |-> Len(segments), start |-> Stamp(clamped), end |-> u, text |-> s.text, words |-> <<>>]
    BY DEF SegmentOf
  <2> HIDE DEF new, t, u
  <2>4. new \in HeardSegment
    <3>1. Len(segments) \in Nat /\ <<>> \in Seq(HeardAs) BY <1>7, EmptySeq
    <3> QED BY <1>6, <2>2, <2>3, <3>1 DEF HeardSegment
  <2>5. Fits(new)
    <3>1. DOMAIN new.words = {} BY <2>3
    <3> QED BY <2>2, <2>3, <3>1 DEF Fits, InOrder
  <2>6. \A j \in DOMAIN segments : Before(segments[j], new)
    <3> SUFFICES ASSUME NEW j \in DOMAIN segments PROVE Before(segments[j], new) OBVIOUS
    <3>1. segments[j].start <= t /\ segments[j].start \in Nat BY <1>3, <1>7, MergedFacts DEF Reached
    <3>2. DOMAIN new.words = {} BY <2>3
    <3> QED BY <2>2, <2>3, <3>1, <3>2 DEF Before
  <2>7. Timeline(segments')
    <3>1. new.id = Len(segments) BY <2>3
    <3> QED BY <1>3, <1>7, <1>9, <2>5, <2>6, <3>1, TimelineAppend
  <2>8. Reached(segments', u)
    <3>1. Reached(segments, u) BY <1>3, <1>7, <2>2, ReachedLater
    <3>2. new.start <= u /\ DOMAIN new.words = {} BY <2>2, <2>3
    <3> QED BY <1>7, <1>9, <2>2, <3>1, <3>2, ReachedAppend
  <2>9. MergeTypeOK'
    <3>1. segments' \in Seq(HeardSegment) BY <1>7, <1>9, <2>4
    <3>2. keptUntil' \in Nat BY <1>6, <1>9
    <3> QED BY <1>1, <1>3, <1>4, <3>1, <3>2, SegmentMergedTypes
  <2>10. Stamp(keptUntil)' = u BY <1>9 DEF u, Stamp
  <2> QED BY <1>4, <2>7, <2>8, <2>9, <2>10 DEF MergeInv, KeptInv
<1> QED BY <1>2, <1>8, <1>9

----------------------------------------------------------------------------
\* The merge begins with the invariant, whatever it is given.
LEMMA MergeInitially == ASSUME AnyInput PROVE MergeInv
<1>1. MergeTypeOK
  <2>1. <<>> \in Seq(HeardAs) /\ <<>> \in Seq(HeardSegment) BY EmptySeq
  <2>2. 1 \in DOMAIN results
    <3>1. results \in Seq(Listing) /\ results # <<>> BY DEF AnyInput
    <3> QED BY <3>1
  <2> QED BY <2>1, <2>2 DEF AnyInput, MergeTypeOK
<1>2. DOMAIN segments = {} BY DEF AnyInput
<1> QED BY <1>1, <1>2 DEF AnyInput, MergeInv, KeptInv, Timeline, Reached

\* Every step of the merge keeps it.
LEMMA MergeStep == ASSUME MergeInv, [Merge]_vars, PlanAssumption PROVE MergeInv'
<1>1. CASE UNCHANGED vars
  <2>1. left' \subseteq left
        /\ UNCHANGED <<setting, windows, planned, results, c, todo, seg, kept, keptUntil, segments>>
    BY <1>1 DEF vars
  <2> QED BY <2>1, WordSkippedKeeps
<1>2. CASE NextChunk BY <1>2, NextChunkKeeps
<1>3. CASE SegmentBegins BY <1>3, SegmentBeginsKeeps
<1>4. CASE WordBeyondCut \/ WordKeptBefore \/ WordHeardTwice
  <2>1. left' \subseteq left
        /\ UNCHANGED <<setting, windows, planned, results, c, todo, seg, kept, keptUntil, segments>>
    BY <1>4 DEF WordBeyondCut, WordKeptBefore, WordHeardTwice, TakeWord, heard, acrossChunks
  <2> QED BY <2>1, WordSkippedKeeps
<1>5. CASE WordKept BY <1>5, WordKeptKeeps
<1>6. CASE SegmentEnds BY <1>6, SegmentEndsKeeps
<1>7. CASE MergeSegment BY <1>7, MergeSegmentKeeps
<1> QED BY <1>1, <1>2, <1>3, <1>4, <1>5, <1>6, <1>7 DEF Merge

\* What has been merged is well formed: words in order, disjoint and inside their segments,
\* segments numbered and in order of start, whatever chunks and results merge_chunk_results
\* is given (merge.py:22-160).
THEOREM AlwaysWellFormed == MergeSpec => []WellFormed
<1>1. MergeInv => WellFormed
  BY DEF MergeInv, WellFormed, Timeline, Fits, Before
<1>2. AnyInput => MergeInv BY MergeInitially
<1>3. MergeInv /\ [Merge]_vars => MergeInv' BY MergeStep, PlanAssumption
<1> QED BY <1>1, <1>2, <1>3, PTL DEF MergeSpec

----------------------------------------------------------------------------
(***************************************************************************)
(* What an engine hears.                                                   *)

\* A set of natural numbers below a bound has a greatest one.
LEMMA Greatest ==
  ASSUME NEW n \in Nat, NEW S \in SUBSET (0..n), S # {} PROVE \E g \in S : \A x \in S : x <= g
<1> DEFINE D == {n - x : x \in S}
<1>1. D \in SUBSET Nat /\ D # {}
  <2>1. \A x \in S : n - x \in Nat OBVIOUS
  <2>2. D \subseteq Nat BY <2>1
  <2> QED BY <2>2
<1>2. PICK d \in D : \A y \in D : d <= y BY <1>1, Least
<1>3. PICK g \in S : d = n - g OBVIOUS
<1>4. \A x \in S : n - g <= n - x BY <1>2, <1>3
<1> QED BY <1>4

\* A rounded time is off by a frame at most, and is not rounded again.
LEMMA StampNear ==
  ASSUME NEW a \in Nat
  PROVE  Stamp(a) \in Nat /\ a - 1 <= Stamp(a) /\ Stamp(a) <= a + 1 /\ Stamp(Stamp(a)) = Stamp(a)
<1> DEFINE p == (a + 1) \div 3
<1>1. p \in Nat /\ (a + 1) - 3 * p \in 0..2
  <2>1. (a + 1) % 3 \in 0..2 /\ (a + 1) % 3 = (a + 1) - 3 * p BY SMTT(30)
  <2> QED BY <2>1
<1>2. Stamp(a) = 3 * p BY DEF Stamp
<1> HIDE DEF p
<1>3. (3 * p + 1) \div 3 = p BY <1>1
<1>4. Stamp(3 * p) = 3 * p BY <1>3 DEF Stamp
<1> QED BY <1>1, <1>2, <1>4

\* The chunks are planned, and what is said and who listens are of this setting.
Ready == PlanInv /\ planned /\ speech \in Recordings(setting) /\ engine \in Engines(setting)

\* The words of a recording are in order and in the file.
LEMMA SpeechFacts ==
  ASSUME Ready, HearingAssumption
  PROVE  /\ speech \in Seq(Spoken) /\ engine \in Engine
         /\ Len(speech) \in Nat /\ DOMAIN speech = 1..Len(speech)
         /\ \A k \in DOMAIN speech : /\ speech[k].start \in Nat /\ speech[k].end \in Nat
                                     /\ speech[k].start < speech[k].end
                                     /\ speech[k].end <= setting.frames
                                     /\ speech[k].sound \in Sounds
         /\ \A j, k \in DOMAIN speech : j < k => speech[j].end <= speech[k].start
         /\ engine.tile \in Nat /\ engine.shift \in Int /\ engine.pad \in Nat
         /\ engine.clipped \in BOOLEAN
<1>1. setting \in Settings BY DEF Ready, PlanInv, PlanTypeOK
<1>2. speech \in Seq(Spoken) /\ engine \in Engine BY <1>1 DEF Ready, HearingAssumption
<1>3. DOMAIN speech = 1..Len(speech) /\ Len(speech) \in Nat BY <1>2
<1>4. \A k \in DOMAIN speech : speech[k] \in Spoken BY <1>2
<1>5. \A k \in DOMAIN speech :
        /\ speech[k].start < speech[k].end /\ speech[k].end <= setting.frames
        /\ \A j \in 1..k - 1 : speech[j].end <= speech[k].start
  BY <1>1 DEF Ready, HearingAssumption
<1>6. ASSUME NEW j \in DOMAIN speech, NEW k \in DOMAIN speech, j < k
      PROVE  speech[j].end <= speech[k].start
  <2>1. j \in 1..k - 1 BY <1>3, <1>6
  <2> QED BY <1>5, <2>1
<1> QED BY <1>2, <1>3, <1>4, <1>5, <1>6 DEF Spoken, Engine

\* Where a chunk lies.
LEMMA PlannedChunk ==
  ASSUME PlanInv, planned, PlanAssumption, NEW i \in DOMAIN windows
  PROVE  /\ chunks[i].start \in Nat /\ chunks[i].end \in Nat /\ chunks[i].start <= chunks[i].end
         /\ i \in 1..Len(windows) /\ i \in Nat \ {0}
<1>1. i \in 1..Len(windows) /\ Len(windows) \in Nat
  BY DEF PlanInv, PlanTypeOK
<1> QED BY <1>1, ChunkNotBackwards DEF chunks

\* The words that are heard in a chunk are neighbours.
LEMMA WithinFacts ==
  ASSUME Ready, PlanAssumption, HearingAssumption, NEW i \in DOMAIN windows
  PROVE  /\ Within(i) \subseteq 1..Len(speech) /\ Len(speech) \in Nat
         /\ \A a, b \in Within(i) : \A k \in a..b : k \in Within(i)
<1>1. Within(i) \subseteq 1..Len(speech) /\ Len(speech) \in Nat BY SpeechFacts DEF Within
<1>2. chunks[i].start \in Nat /\ chunks[i].end \in Nat BY PlannedChunk DEF Ready
<1>3. ASSUME NEW a \in Within(i), NEW b \in Within(i), NEW k \in a..b, k # a, k # b
      PROVE  k \in Within(i)
  <2>1. a \in DOMAIN speech /\ b \in DOMAIN speech /\ k \in DOMAIN speech /\ a < k /\ k < b
    BY <1>1, <1>3, SpeechFacts
  <2>2. /\ speech[a].end <= speech[k].start /\ speech[k].end <= speech[b].start
        /\ speech[a].start < speech[a].end /\ speech[k].start < speech[k].end
        /\ speech[b].start < speech[b].end
        /\ speech[a].start \in Nat /\ speech[a].end \in Nat /\ speech[k].start \in Nat
        /\ speech[k].end \in Nat /\ speech[b].start \in Nat /\ speech[b].end \in Nat
    BY <2>1, SpeechFacts
  <2>3. /\ speech[b].start < chunks[i].end /\ chunks[i].start < speech[a].end
        /\ engine.clipped \/ (Whole(i, a) /\ Whole(i, b))
    BY <1>3 DEF Within
  <2>4. speech[k].start < chunks[i].end /\ chunks[i].start < speech[k].end
    BY SMTT(30), <1>2, <2>2, <2>3
  <2>5. engine.clipped \/ Whole(i, k) BY SMTT(30), <1>2, <2>2, <2>3 DEF Whole
  <2> QED BY <2>1, <2>4, <2>5 DEF Within
<1> QED BY <1>1, <1>3

\* A segment is a run of words that are heard, none of which but the first begins one.
LEMMA RunFacts ==
  ASSUME Ready, PlanAssumption, HearingAssumption, NEW i \in DOMAIN windows, NEW b \in Begins(i)
  PROVE  LET l == LastOf(i, b) IN
         /\ b \in Within(i) /\ l \in Within(i) /\ b <= l
         /\ b \in Nat \ {0} /\ l \in Nat \ {0}
         /\ \A k \in b..l : k \in Within(i) /\ (k # b => k \notin Begins(i))
         /\ l + 1 \in Within(i) => l + 1 \in Begins(i)
<1> DEFINE W == Within(i)
           R == {k \in W : k >= b /\ (k + 1 \notin W \/ k + 1 \in Begins(i))}
           l == LastOf(i, b)
<1>1. W \in SUBSET (0..Len(speech)) /\ W \subseteq Nat \ {0} /\ Len(speech) \in Nat
      /\ \A x, y \in W : \A k \in x..y : k \in W
  BY WithinFacts
<1>2. b \in W /\ Begins(i) \subseteq W BY DEF Begins
<1>3. PICK g \in W : \A x \in W : x <= g
  <2>1. W # {} BY <1>2
  <2> HIDE DEF W
  <2> QED BY <1>1, <2>1, Greatest
<1>4. l = Min(R) BY DEF LastOf
<1> HIDE DEF W, l
<1>5. g \in R
  <2>1. g + 1 \notin W BY <1>1, <1>3
  <2> QED BY <1>1, <1>2, <1>3, <2>1
<1>6. l \in R /\ \A x \in R : l <= x
  <2>1. R \in SUBSET Nat /\ R # {} BY <1>1, <1>5
  <2>2. \E m \in R : \A n \in R : m <= n BY <2>1, Least
  <2> HIDE DEF R
  <2> QED BY <1>4, <2>2 DEF Min
<1>7. ASSUME NEW k \in b..l PROVE k \in W BY <1>1, <1>2, <1>6, <1>7
<1>8. ASSUME NEW k \in b..l, k # b, k \in Begins(i) PROVE FALSE
  <2>1. k - 1 \in b..l /\ (k - 1) + 1 = k /\ k - 1 >= b /\ k - 1 < l BY <1>1, <1>2, <1>6, <1>8
  <2>2. k - 1 \in R BY <1>7, <1>8, <2>1
  <2> QED BY <1>1, <1>6, <2>1, <2>2
<1> QED BY <1>1, <1>2, <1>6, <1>7, <1>8 DEF W, l

\* Every word that is heard is in a segment.
LEMMA Covered ==
  ASSUME Ready, PlanAssumption, HearingAssumption, NEW i \in DOMAIN windows, NEW k \in Within(i)
  PROVE  \E b \in Begins(i) : b <= k /\ k <= LastOf(i, b)
<1> DEFINE W == Within(i)
           B == {b \in Begins(i) : b <= k}
<1>1. W \in SUBSET (0..Len(speech)) /\ W \subseteq Nat \ {0} /\ Len(speech) \in Nat
      /\ \A x, y \in W : \A n \in x..y : n \in W
  BY WithinFacts
<1>2. PICK m \in W : \A x \in W : m <= x
  <2>1. W # {} /\ W \in SUBSET Nat BY <1>1
  <2> HIDE DEF W
  <2> QED BY <2>1, Least
<1>3. m \in Begins(i)
  <2>1. m - 1 \notin W BY <1>1, <1>2
  <2> QED BY <2>1 DEF Begins
<1>4. m \in B BY <1>2, <1>3
<1>5. B \subseteq W BY DEF Begins
<1>6. PICK b \in B : \A x \in B : x <= b
  <2>1. B \in SUBSET (0..Len(speech)) /\ B # {} BY <1>1, <1>4, <1>5
  <2> HIDE DEF B
  <2> QED BY <1>1, <2>1, Greatest
<1>7. b \in Begins(i) /\ b <= k BY <1>6
<1> DEFINE l == LastOf(i, b)
<1>8. l \in W /\ b <= l /\ (l + 1 \in W => l + 1 \in Begins(i)) BY <1>7, RunFacts
<1>9. k <= l
  <2> SUFFICES ASSUME l < k PROVE FALSE BY <1>1, <1>8
  <2> HIDE DEF l
  <2>1. l + 1 \in l..k /\ l + 1 <= k BY <1>1, <1>8
  <2>2. l + 1 \in W BY <1>1, <1>8, <2>1
  <2>3. l + 1 \in B BY <1>8, <2>1, <2>2
  <2>4. l + 1 <= b BY <1>6, <2>3
  <2>5. b \in Nat /\ l \in Nat BY <1>1, <1>5, <1>6, <1>8
  <2> QED BY <1>8, <2>4, <2>5
<1> QED BY <1>7, <1>9

\* A segment ends before the next one begins.
LEMMA RunsApart ==
  ASSUME Ready, PlanAssumption, HearingAssumption, NEW i \in DOMAIN windows,
         NEW a \in Begins(i), NEW b \in Begins(i), a < b
  PROVE  LastOf(i, a) < b
<1>1. /\ a \in Nat /\ LastOf(i, a) \in Nat /\ b \in Nat
      /\ \A k \in a..LastOf(i, a) : k # a => k \notin Begins(i)
  BY RunFacts
<1> QED BY <1>1

\* What a chunk has of a word, on the clock of the file.
HeardFrom(i, k) == Greater(speech[k].start, chunks[i].start)
HeardTo(i, k) == Lesser(speech[k].end, chunks[i].end)

\* When a word is heard: up to the shift and the rounding when it is spoken.
LEMMA HeardWordFacts ==
  ASSUME Ready, PlanAssumption, HearingAssumption, NEW i \in DOMAIN windows, NEW k \in Within(i)
  PROVE  LET w == HeardWord(i, k)  s == chunks[i].start IN
         /\ w \in HeardAs
         /\ w.start \in Nat /\ w.end \in Nat
         /\ w.start = Stamp(Greater(HeardFrom(i, k) - s + Shift(i), 0))
         /\ w.end = Stamp(Greater(HeardTo(i, k) - s + Shift(i), 0))
         /\ HeardFrom(i, k) \in Nat /\ HeardTo(i, k) \in Nat /\ s \in Nat /\ Shift(i) \in Int
         /\ s <= HeardFrom(i, k) /\ HeardFrom(i, k) <= HeardTo(i, k)
         /\ w.start + s >= HeardFrom(i, k) + Lesser(Shift(i), 0) - 1
         /\ w.start + s <= HeardFrom(i, k) + Greater(Shift(i), 0) + 1
         /\ w.end + s >= HeardTo(i, k) + Lesser(Shift(i), 0) - 1
         /\ w.end + s <= HeardTo(i, k) + Greater(Shift(i), 0) + 1
<1> DEFINE w == HeardWord(i, k)
           s == chunks[i].start
           e == chunks[i].end
           from == HeardFrom(i, k)
           to == HeardTo(i, k)
           p == Greater(from - s + Shift(i), 0)
           q == Greater(to - s + Shift(i), 0)
<1>1. s \in Nat /\ e \in Nat /\ s <= e BY PlannedChunk DEF Ready
<1>2. /\ speech[k].start \in Nat /\ speech[k].end \in Nat /\ speech[k].start < speech[k].end
      /\ speech[k].sound \in Sounds /\ k \in Nat
      /\ speech[k].start < e /\ s < speech[k].end
  BY SpeechFacts DEF Within
<1>3. Shift(i) \in Int BY SpeechFacts DEF Shift
<1>4. w = [start |-> Stamp(p), end |-> Stamp(q), of |-> IF Whole(i, k) THEN k ELSE 0,
           sound |-> IF Whole(i, k) THEN speech[k].sound ELSE Clipped]
  BY DEF HeardWord, HeardFrom, HeardTo
<1>5. from \in Nat /\ to \in Nat /\ s <= from /\ from <= to
  BY <1>1, <1>2 DEF HeardFrom, HeardTo, Greater, Lesser
<1> DEFINE lo == Lesser(Shift(i), 0)
           hi == Greater(Shift(i), 0)
<1>6. p \in Nat /\ q \in Nat /\ p + s >= from + lo /\ p + s <= from + hi
      /\ q + s >= to + lo /\ q + s <= to + hi /\ lo \in Int /\ hi \in Nat
  <2> HIDE DEF s, from, to
  <2> QED BY SMTT(30), <1>1, <1>3, <1>5 DEF Greater, Lesser
<1> HIDE DEF s, e, from, to, p, q, lo, hi
<1> DEFINE a == Stamp(p)
           b == Stamp(q)
<1>7. a \in Nat /\ p - 1 <= a /\ a <= p + 1 /\ b \in Nat /\ q - 1 <= b /\ b <= q + 1
  BY <1>6, StampNear
<1> HIDE DEF a, b
<1>8. w \in HeardAs /\ w.start = a /\ w.end = b
  <2>1. (IF Whole(i, k) THEN k ELSE 0) \in Nat BY <1>2
  <2>2. (IF Whole(i, k) THEN speech[k].sound ELSE Clipped) \in Sounds
    <3>1. Clipped \in Sounds BY DEF HearingAssumption
    <3> QED BY <1>2, <3>1, Zenon
  <2> QED BY <1>4, <1>7, <2>1, <2>2 DEF HeardAs, a, b
<1>9. a + s >= from + lo - 1 /\ a + s <= from + hi + 1 /\ b + s >= to + lo - 1 /\ b + s <= to + hi + 1
  BY <1>1, <1>5, <1>6, <1>7
<1> HIDE DEF w
<1> QED BY <1>1, <1>3, <1>5, <1>7, <1>8, <1>9 DEF a, b, s, from, to, p, q, lo, hi, w

\* Words are heard in the order in which they are spoken.
LEMMA HeardInOrder ==
  ASSUME Ready, PlanAssumption, HearingAssumption, NEW i \in DOMAIN windows,
         NEW j \in Within(i), NEW k \in Within(i)
  PROVE  /\ j <= k => /\ HeardWord(i, j).start <= HeardWord(i, k).start
                       /\ HeardWord(i, j).end <= HeardWord(i, k).end
         /\ j < k => HeardWord(i, j).end <= HeardWord(i, k).start
<1>0. j \in DOMAIN speech /\ k \in DOMAIN speech /\ j \in Nat /\ k \in Nat
  BY WithinFacts, SpeechFacts
<1>1. /\ chunks[i].start \in Nat /\ chunks[i].end \in Nat /\ Shift(i) \in Int
      /\ HeardFrom(i, j) \in Nat /\ HeardTo(i, j) \in Nat
      /\ HeardFrom(i, k) \in Nat /\ HeardTo(i, k) \in Nat
  <2>1. chunks[i].end \in Nat BY PlannedChunk DEF Ready
  <2> QED BY <2>1, HeardWordFacts
<1> DEFINE At(t) == Stamp(Greater(t - chunks[i].start + Shift(i), 0))
<1>2. /\ HeardWord(i, j).start = At(HeardFrom(i, j)) /\ HeardWord(i, j).end = At(HeardTo(i, j))
      /\ HeardWord(i, k).start = At(HeardFrom(i, k)) /\ HeardWord(i, k).end = At(HeardTo(i, k))
  BY HeardWordFacts
<1>3. ASSUME NEW t \in Nat, NEW u \in Nat, t <= u PROVE At(t) <= At(u)
  <2> DEFINE a == Greater(t - chunks[i].start + Shift(i), 0)
             b == Greater(u - chunks[i].start + Shift(i), 0)
             s == chunks[i].start
             h == Shift(i)
  <2>1. a \in Nat /\ b \in Nat /\ a <= b
    <3>1. a = Greater(t - s + h, 0) /\ b = Greater(u - s + h, 0) /\ s \in Nat /\ h \in Int BY <1>1
    <3> HIDE DEF a, b, s, h
    <3> QED BY <1>3, <3>1 DEF Greater
  <2> HIDE DEF a, b
  <2>2. Stamp(a) <= Stamp(b) BY <2>1, StampFacts
  <2> QED BY <2>2 DEF a, b
<1> HIDE DEF At
<1>4. CASE j = k
  <2>1. HeardFrom(i, k) <= HeardFrom(i, k) /\ HeardTo(i, k) <= HeardTo(i, k) BY <1>1
  <2> QED BY <1>0, <1>1, <1>2, <1>3, <1>4, <2>1
<1>5. CASE j < k
  <2>1. /\ speech[j].end <= speech[k].start /\ speech[j].start < speech[j].end
        /\ speech[k].start < speech[k].end
        /\ speech[j].start \in Nat /\ speech[j].end \in Nat
        /\ speech[k].start \in Nat /\ speech[k].end \in Nat
    BY <1>0, <1>5, SpeechFacts
  <2>2. /\ HeardFrom(i, j) <= HeardFrom(i, k) /\ HeardTo(i, j) <= HeardTo(i, k)
        /\ HeardTo(i, j) <= HeardFrom(i, k)
    BY SMTT(30), <1>1, <2>1 DEF HeardFrom, HeardTo, Greater, Lesser
  <2> QED BY <1>0, <1>1, <1>2, <1>3, <1>5, <2>2
<1> QED BY <1>0, <1>4, <1>5

\* What an engine hears in a chunk are segments (engines.py:77-107).
LEMMA HeardTyped ==
  ASSUME Ready, PlanAssumption, HearingAssumption, NEW i \in DOMAIN windows
  PROVE  Heard(i) \in Listing
<1>1. Begins(i) \subseteq Nat \ {0} BY WithinFacts DEF Begins
<1>2. ASSUME NEW b \in Begins(i) PROVE Heard(i)[b] \in Result
  <2> DEFINE l == LastOf(i, b)
             ws == HeardWords(i, b)
             from == Greater(HeardWord(i, b).start - 3 * engine.pad, 0)
             to == HeardWord(i, l).end + 3 * engine.pad
  <2>1. /\ b \in Within(i) /\ l \in Within(i) /\ b <= l /\ b \in Nat /\ l \in Nat
        /\ \A k \in b..l : k \in Within(i)
    BY RunFacts
  <2>2. engine.pad \in Nat BY SpeechFacts
  <2>3. HeardWord(i, b).start \in Nat /\ HeardWord(i, l).end \in Nat BY <2>1, HeardWordFacts
  <2>4. from \in Nat /\ to \in Nat
    <3> DEFINE x == HeardWord(i, b).start
               y == HeardWord(i, l).end
    <3> HIDE DEF x, y
    <3> QED BY <2>2, <2>3 DEF Greater, x, y
  <2>5. ws \in Seq(HeardAs)
    <3>1. \A j \in 1..l - b + 1 : b + j - 1 \in b..l BY <2>1
    <3>2. \A j \in 1..l - b + 1 : HeardWord(i, b + j - 1) \in HeardAs
      BY <2>1, <3>1, HeardWordFacts
    <3>3. ws = [j \in 1..l - b + 1 |-> HeardWord(i, b + j - 1)] /\ l - b + 1 \in Nat
      BY <2>1 DEF HeardWords
    <3> HIDE DEF ws, l
    <3> QED BY <3>2, <3>3
  <2>6. TextOf(ws) \in Seq(Nat) BY <2>5, TextType
  <2>7. (IF i \in engine.wordless THEN <<>> ELSE ws) \in Seq(HeardAs)
    <3>1. <<>> \in Seq(HeardAs) BY EmptySeq
    <3> QED BY <2>5, <3>1, Zenon
  <2>8. Heard(i)[b] = [start |-> from, end |-> to, text |-> TextOf(ws),
                       words |-> IF i \in engine.wordless THEN <<>> ELSE ws]
    BY DEF Heard
  <2> HIDE DEF from, to, ws
  <2> QED BY <2>4, <2>6, <2>7, <2>8 DEF Result
<1>3. DOMAIN Heard(i) = Begins(i) /\ Heard(i) = [b \in Begins(i) |-> Heard(i)[b]]
  BY DEF Heard
<1>4. Heard(i) \in [Begins(i) -> Result] BY <1>2, <1>3
<1> QED BY <1>1, <1>4 DEF Listing

\* So are MockEngine's, equal ones from the start of a chunk to its end (engines.py:125-148).
LEMMA TilesTyped ==
  ASSUME Ready, PlanAssumption, HearingAssumption, engine.tile # 0, NEW i \in DOMAIN windows
  PROVE  Tiles(i) \in Listing
<1> DEFINE length == chunks[i].end - chunks[i].start
           tile == engine.tile
           n == (length + tile - 1) \div tile
           segment(j) == [start |-> Stamp((j - 1) * tile), end |-> Stamp(Lesser(j * tile, length)),
                          text |-> <<0>>, words |-> <<>>]
<1>1. length \in Nat
  <2>1. chunks[i].start \in Nat /\ chunks[i].end \in Nat /\ chunks[i].start <= chunks[i].end
    BY PlannedChunk DEF Ready
  <2> QED BY <2>1
<1>2. tile \in Nat \ {0} BY SpeechFacts
<1>3. Tiles(i) = [j \in 1..n |-> segment(j)] BY DEF Tiles
<1> HIDE DEF length, tile
<1>4. n \in Nat
  <2> DEFINE a == length + tile - 1
  <2>1. a \in Nat BY <1>1, <1>2
  <2> HIDE DEF a
  <2>2. a \div tile \in Nat BY <1>2, <2>1, SMTT(30)
  <2> QED BY <2>2 DEF a
<1>5. ASSUME NEW j \in 1..n PROVE segment(j) \in Result
  <2> DEFINE from == (j - 1) * tile
             to == Lesser(j * tile, length)
  <2>1. j - 1 \in Nat /\ j \in Nat BY <1>4
  <2>2. from \in Nat /\ j * tile \in Nat BY <1>2, <2>1, SMTT(30)
  <2>3. to \in Nat BY <1>1, <2>2 DEF Lesser
  <2> HIDE DEF from, to
  <2>4. Stamp(from) \in Nat /\ Stamp(to) \in Nat BY <2>2, <2>3, StampFacts
  <2>5. <<0>> \in Seq(Nat) /\ <<>> \in Seq(HeardAs) BY EmptySeq
  <2>6. segment(j) = [start |-> Stamp(from), end |-> Stamp(to), text |-> <<0>>, words |-> <<>>]
    BY DEF from, to
  <2> HIDE DEF segment
  <2> QED BY <2>4, <2>5, <2>6 DEF Result
<1> HIDE DEF n, segment
<1>6. 1..n \subseteq Nat \ {0} /\ Tiles(i) \in [1..n -> Result] BY <1>3, <1>4, <1>5
<1> QED BY <1>6 DEF Listing

\* What the file and its engine are is chosen once; the results are what the engine hears.
HearInv ==
  /\ speech \in Recordings(setting) /\ engine \in Engines(setting)
  /\ c # 0 => /\ planned
              /\ results = [i \in DOMAIN windows |-> IF engine.tile = 0 THEN Heard(i) ELSE Tiles(i)]

\* They are results, whichever engine it is.
EngineTyped == c # 0 => results \in Seq(Listing)

\* What an engine hears of a typed plan is a result for every chunk.
LEMMA ResultsTyped ==
  ASSUME PlanInv, HearInv, PlanAssumption, HearingAssumption PROVE EngineTyped
<1> SUFFICES ASSUME c # 0 PROVE results \in Seq(Listing) BY DEF EngineTyped
<1> DEFINE r(i) == IF engine.tile = 0 THEN Heard(i) ELSE Tiles(i)
<1>1. Ready /\ results = [i \in DOMAIN windows |-> r(i)] BY DEF HearInv, Ready
<1>2. DOMAIN windows = 1..Len(windows) /\ Len(windows) \in Nat BY DEF PlanInv, PlanTypeOK
<1>3. ASSUME NEW i \in DOMAIN windows PROVE r(i) \in Listing
  BY <1>1, HeardTyped, TilesTyped
<1> HIDE DEF r
<1> QED BY <1>1, <1>2, <1>3

\* What is heard does not change while file and plan do not.
LEMMA HeardOnce ==
  UNCHANGED <<setting, windows, speech, engine>> =>
    \A i : Heard(i)' = Heard(i) /\ Tiles(i)' = Tiles(i)
<1> SUFFICES ASSUME UNCHANGED <<setting, windows, speech, engine>>, NEW i
             PROVE  Heard(i)' = Heard(i) /\ Tiles(i)' = Tiles(i)
  OBVIOUS
<1>1. chunks' = chunks BY DEF chunks, split_into_chunks
<1>2. \A k : Whole(i, k)' <=> Whole(i, k) BY <1>1 DEF Whole
<1>3. Within(i)' = Within(i) BY <1>1, <1>2 DEF Within
<1>4. Begins(i)' = Begins(i) BY <1>3 DEF Begins
<1>5. \A k : HeardWord(i, k)' = HeardWord(i, k) BY <1>1, <1>2 DEF HeardWord, Shift
<1>6. \A b : LastOf(i, b)' = LastOf(i, b) BY <1>3, <1>4 DEF LastOf
<1>7. \A b : HeardWords(i, b)' = HeardWords(i, b) BY <1>5, <1>6 DEF HeardWords
<1>8. Heard(i)' = Heard(i) BY <1>4, <1>5, <1>6, <1>7 DEF Heard
<1>9. Tiles(i)' = Tiles(i) BY <1>1 DEF Tiles
<1> QED BY <1>8, <1>9
----------------------------------------------------------------------------
(* The same from the plan of the chunks on.                                *)

\* Nothing is merged while chunks are planned and heard; the plan does not change afterwards.
FileInv ==
  /\ PlanInv /\ HearInv
  /\ \/ /\ c = 0 /\ results = <<>> /\ todo = {} /\ seg = 0 /\ left = {} /\ kept = <<>>
        /\ headCut = FALSE /\ segTailCut = FALSE /\ firstInChunk = TRUE /\ lastWord = NoWord
        /\ keptUntil = NegInf /\ tailCut = FALSE /\ segments = <<>>
     \/ c # 0 /\ planned /\ MergeInv

\* Hearing and merging leave the plan alone.
LEMMA PlanLeftAlone == Merge \/ Transcribe \/ UNCHANGED vars => UNCHANGED planVars
BY DEF Merge, NextChunk, SegmentBegins, WordBeyondCut, WordKeptBefore, WordHeardTwice,
       WordKept, SegmentEnds, MergeSegment, Transcribe, heard, vars, planVars

\* There is nothing to merge before the engine has heard the file.
LEMMA MergeAfterHearing == FileInv /\ Merge => c # 0
<1> SUFFICES ASSUME FileInv, Merge, c = 0 PROVE FALSE OBVIOUS
<1>1. results = <<>> /\ todo = {} /\ seg = 0 BY DEF FileInv
<1>2. ~Worded BY <1>1 DEF Worded
<1> QED BY <1>1, <1>2
     DEF Merge, NextChunk, SegmentBegins, WordBeyondCut, WordKeptBefore, WordHeardTwice,
         WordKept, TakeWord, SegmentEnds, MergeSegment

\* The way of a file begins with its invariant.
LEMMA FileBegins == Init => FileInv
BY PlanBegins DEF Init, FileInv, HearInv

\* The plan is laid, then heard, then left alone, whatever else happens.
LEMMA HearingGoesOn ==
  FileInv /\ [Next]_vars /\ PlanAssumption /\ HearingAssumption => PlanInv' /\ HearInv' /\ EngineTyped'
<1> SUFFICES ASSUME FileInv, [Next]_vars, PlanAssumption, HearingAssumption
             PROVE  PlanInv' /\ HearInv' /\ EngineTyped'
  OBVIOUS
<1>1. PlanInv'
  <2>1. [PlanWindow]_planVars BY PlanLeftAlone DEF Next, Plan
  <2> QED BY <2>1, PlanGoesOn DEF FileInv
<1>2. UNCHANGED <<setting, speech, engine>>
  BY DEF Next, Plan, PlanWindow, Transcribe, Merge, NextChunk, SegmentBegins, WordBeyondCut,
     WordKeptBefore, WordHeardTwice, WordKept, SegmentEnds, MergeSegment, heard, vars
<1>3. HearInv'
  <2>1. CASE Plan
    <3>1. ~planned /\ c' = c BY <2>1 DEF Plan, PlanWindow
    <3>2. c = 0 BY <3>1 DEF FileInv
    <3> QED BY <1>2, <3>1, <3>2 DEF FileInv, HearInv
  <2>2. CASE Transcribe
    <3>1. /\ planned' = planned /\ planned /\ windows' = windows
          /\ results' = [i \in DOMAIN windows |-> IF engine.tile = 0 THEN Heard(i) ELSE Tiles(i)]
      BY <2>2 DEF Transcribe
    <3>2. \A i : Heard(i)' = Heard(i) /\ Tiles(i)' = Tiles(i) BY <1>2, <3>1, HeardOnce
    <3> QED BY <1>2, <3>1, <3>2 DEF FileInv, HearInv
  <2>3. CASE Merge \/ UNCHANGED vars
    <3>1. UNCHANGED <<setting, windows, planned, speech, engine, results>>
      BY <2>3 DEF Merge, NextChunk, SegmentBegins, WordBeyondCut, WordKeptBefore,
         WordHeardTwice, WordKept, SegmentEnds, MergeSegment, heard, vars
    <3>2. \A i : Heard(i)' = Heard(i) /\ Tiles(i)' = Tiles(i) BY <3>1, HeardOnce
    <3>3. c # 0 \/ c' = c BY <2>3, MergeAfterHearing DEF vars
    <3> QED BY <3>1, <3>2, <3>3 DEF FileInv, HearInv
  <2> QED BY <2>1, <2>2, <2>3 DEF Next
<1>4. EngineTyped' BY <1>1, <1>3, ResultsTyped, PTL
<1> QED BY <1>1, <1>3, <1>4

\* Every step of a file keeps it.
LEMMA FileGoesOn ==
  FileInv /\ [Next]_vars /\ PlanAssumption /\ HearingAssumption => FileInv'
<1> SUFFICES ASSUME FileInv, [Next]_vars, PlanAssumption, HearingAssumption PROVE FileInv'
  OBVIOUS
<1>0. PlanInv' /\ HearInv' /\ EngineTyped' BY HearingGoesOn
<1>1. CASE Plan
  <2>1. ~planned BY <1>1 DEF Plan, PlanWindow
  <2>2. UNCHANGED <<results, c, todo, seg, left, kept, headCut, segTailCut, firstInChunk,
                    lastWord, keptUntil, tailCut, segments>>
    BY <1>1 DEF Plan, inSegment, acrossChunks
  <2> QED BY <1>0, <2>1, <2>2 DEF FileInv
<1>2. CASE Transcribe
  <2>1. /\ planned /\ c = 0 /\ c' = 1 /\ todo' = DOMAIN results'[1] /\ UNCHANGED planVars
        /\ UNCHANGED <<seg, firstInChunk, left, kept, headCut, segTailCut, lastWord, keptUntil,
                       tailCut, segments>>
    BY <1>2 DEF Transcribe, inSegment, acrossChunks, planVars
  <2>2. PlanTypeOK' BY <1>0 DEF PlanInv
  <2>3. results' \in Seq(Listing) BY <1>0, <2>1 DEF EngineTyped
  <2>4. DOMAIN results' = DOMAIN windows' BY <1>2, <2>1 DEF Transcribe, planVars
  <2>5. windows' \in Seq([start : Nat, end : Nat]) /\ Len(windows') > 0
    <3>1. planned' BY <2>1 DEF planVars
    <3> QED BY <1>0, <3>1 DEF PlanInv, PlanTypeOK, WindowInv
  <2>6. Len(results') = Len(windows') /\ results' # <<>>
    <3>1. 1..Len(results') = 1..Len(windows') BY <2>3, <2>4, <2>5
    <3> QED BY <2>3, <2>5, <3>1
  <2>7. AnyInput' BY <2>1, <2>2, <2>3, <2>6 DEF AnyInput, FileInv
  <2>8. MergeInv' BY <2>7, MergeInitially, PTL
  <2> QED BY <1>0, <2>1, <2>8 DEF FileInv, planVars
<1>3. CASE Merge
  <2>1. UNCHANGED planVars BY <1>3, PlanLeftAlone
  <2>2. c # 0 BY <1>3, MergeAfterHearing
  <2>3. planned /\ MergeInv BY <2>2 DEF FileInv
  <2>4. MergeInv' BY <1>3, <2>3, MergeStep
  <2>5. c' # 0 BY <1>3, <2>2, <2>4 DEF MergeInv, MergeTypeOK
  <2> QED BY <1>0, <2>1, <2>3, <2>4, <2>5 DEF FileInv, planVars
<1>4. CASE UNCHANGED vars
  <2>1. CASE c = 0 BY <1>0, <1>4, <2>1 DEF FileInv, vars
  <2>2. CASE c # 0
    <3>1. planned /\ MergeInv BY <2>2 DEF FileInv
    <3>2. MergeInv' BY <1>4, <3>1, MergeStep
    <3> QED BY <1>0, <1>4, <2>2, <3>1, <3>2 DEF FileInv, vars
  <2> QED BY <2>1, <2>2
<1> QED BY <1>1, <1>2, <1>3, <1>4 DEF Next

\* The invariant is one.
LEMMA FileInvariant == Spec => []FileInv
<1> QED BY FileBegins, FileGoesOn, PlanAssumption, HearingAssumption, PTL DEF Spec

\* The whole way of a file, whoever listens: what has been merged is well formed
\* (audio.py:156-201, engines.py:77-148, merge.py:22-160).
THEOREM TranscriptAlwaysWellFormed == Spec => []WellFormed
<1>1. FileInv => WellFormed
  BY DEF FileInv, HearInv, EngineTyped, MergeInv, WellFormed, Timeline, Fits, Before
<1> QED BY <1>1, FileInvariant, PTL

\* What happens to a file is, of its plan, the loop of plan_chunks alone (pipeline.py:70-97).
THEOREM FilePlanned == Spec => PlanSpec
<1>1. Init => PlanInit BY DEF Init
<1>2. [Next]_vars => [PlanWindow]_planVars BY PlanLeftAlone DEF Next, Plan
<1> QED BY <1>1, <1>2, PTL DEF Spec, PlanSpec

\* So the chunks that are heard cover the file (audio.py:156-201).
THEOREM FileAlwaysCovered == Spec => []ChunksCover
BY FilePlanned, ChunksAlwaysCover, PTL

\* And with an overlap of a frame or more the engine is given none that is empty.
THEOREM NothingEmptyHeard == Spec => []NoEmptyChunk
BY FilePlanned, NoChunkEverEmpty, PTL
----------------------------------------------------------------------------
(* Types, from the plan to the end of the merge.                           *)

\* What the invariant of the file does not say of the variables: the two inputs stay what
\* they were, the loop ends behind the last chunk, and the merge remembers words and cuts.
MemoryInv ==
  /\ speech \in Seq(Spoken) /\ engine \in Engine
  /\ c \in 0..Len(results) + 1 /\ (c = 0 <=> results = <<>>)
  /\ {headCut, segTailCut, firstInChunk, tailCut} \subseteq BOOLEAN
  /\ lastWord \in HeardAs \cup {NoWord}

\* It holds before the plan is laid.
LEMMA MemoryBegins == Init => MemoryInv
<1> SUFFICES ASSUME Init PROVE MemoryInv OBVIOUS
<1>1. speech \in Seq(Spoken) /\ engine \in Engine
  <2>1. setting \in Settings BY DEF Init, PlanInit
  <2>2. Recordings(setting) \subseteq Seq(Spoken) /\ Engines(setting) \subseteq Engine
    BY <2>1, HearingAssumption
  <2> QED BY <2>2 DEF Init
<1>2. results = <<>> /\ c = 0 /\ Len(results) = 0 BY DEF Init
<1>3. headCut = FALSE /\ segTailCut = FALSE /\ firstInChunk = TRUE /\ tailCut = FALSE
      /\ lastWord = NoWord
  BY DEF Init
<1>4. 0 \in 0..Len(results) + 1 BY <1>2
<1> QED BY <1>1, <1>2, <1>3, <1>4 DEF MemoryInv

\* The last word kept is a word with its times on the clock of the file.
LEMMA LastWordTyped ==
  ASSUME MergeInv, WordKept, PlanAssumption PROVE lastWord' = lastWord \/ lastWord' \in HeardAs
<1> SUFFICES ASSUME lastWord' # lastWord PROVE lastWord' \in HeardAs OBVIOUS
<1>1. TakeWord /\ ~(Clamped >= End)
      /\ lastWord' = [word EXCEPT !.start = Stamp(Clamped), !.end = Stamp(End)]
  BY DEF WordKept
<1>2. word \in HeardAs /\ Start \in Nat /\ End \in Nat BY <1>1, WordFacts DEF MergeInv
<1>3. keptUntil \in Nat \cup {NegInf} BY DEF MergeInv, MergeTypeOK
<1>4. Clamped \in Nat BY <1>2, <1>3 DEF Clamped, Greater, NegInf
<1>5. Stamp(Clamped) \in Nat /\ Stamp(End) \in Nat BY <1>2, <1>4, StampFacts
<1> DEFINE from == Stamp(Clamped)  to == Stamp(End)
<1>6. from \in Nat /\ to \in Nat BY <1>5
<1>7. lastWord' = [word EXCEPT !.start = from, !.end = to] BY <1>1
<1> HIDE DEF from, to
<1> QED BY <1>2, <1>6, <1>7 DEF HeardAs

\* Every step of the file keeps it.
LEMMA MemoryGoesOn ==
  FileInv /\ MemoryInv /\ [Next]_vars /\ PlanAssumption /\ HearingAssumption => MemoryInv'
<1> SUFFICES ASSUME FileInv, MemoryInv, [Next]_vars, PlanAssumption, HearingAssumption
             PROVE  MemoryInv'
  OBVIOUS
<1>1. CASE Plan \/ UNCHANGED vars
  BY <1>1 DEF Plan, vars, inSegment, acrossChunks, MemoryInv
<1>2. CASE Transcribe
  <2>1. /\ c' = 1 /\ DOMAIN results' = DOMAIN windows
        /\ UNCHANGED <<speech, engine, headCut, segTailCut, firstInChunk, tailCut, lastWord>>
    BY <1>2 DEF Transcribe, inSegment, acrossChunks
  <2>2. results' \in Seq(Listing) BY <2>1, HearingGoesOn DEF EngineTyped
  <2>3. windows \in Seq([start : Nat, end : Nat]) /\ Len(windows) > 0
    BY <1>2 DEF Transcribe, FileInv, PlanInv, PlanTypeOK, WindowInv
  <2>4. Len(results') = Len(windows)
    <3>1. 1..Len(results') = 1..Len(windows) BY <2>1, <2>2, <2>3
    <3> QED BY <2>2, <2>3, <3>1
  <2>5. c' \in 0..Len(results') + 1 /\ c' # 0 /\ results' # <<>>
    BY <2>1, <2>2, <2>3, <2>4
  <2> QED BY <2>1, <2>5 DEF MemoryInv
<1>3. CASE Merge
  <2>1. c # 0 BY <1>3, MergeAfterHearing
  <2>2. MergeInv /\ results \in Seq(Listing) /\ c \in Nat \ {0}
    BY <2>1 DEF FileInv, MergeInv, MergeTypeOK
  <2>3. UNCHANGED <<speech, engine, results>>
    BY <1>3 DEF Merge, NextChunk, SegmentBegins, WordBeyondCut, WordKeptBefore, WordHeardTwice,
       WordKept, SegmentEnds, MergeSegment, heard
  <2>4. c' \in 0..Len(results) + 1 /\ c' # 0
    <3>1. CASE NextChunk
      BY <2>2, <3>1 DEF NextChunk, BeginChunk
    <3>2. CASE UNCHANGED c BY <2>1, <3>2 DEF MemoryInv
    <3> QED BY <1>3, <3>1, <3>2 DEF Merge, SegmentBegins, WordBeyondCut, WordKeptBefore,
         WordHeardTwice, WordKept, SegmentEnds, MergeSegment
  <2>5. {headCut', segTailCut', firstInChunk', tailCut'} \subseteq BOOLEAN
    BY <1>3 DEF Merge, NextChunk, BeginChunk, SegmentBegins, WordBeyondCut, WordKeptBefore,
       WordHeardTwice, HeadMarked, WordKept, SegmentEnds, MergeSegment, inSegment, acrossChunks, MemoryInv
  <2>6. lastWord' \in HeardAs \cup {NoWord}
    <3>1. CASE WordKept BY <2>2, <3>1, LastWordTyped DEF MemoryInv
    <3>2. CASE UNCHANGED lastWord BY <3>2 DEF MemoryInv
    <3> QED BY <1>3, <3>1, <3>2 DEF Merge, NextChunk, SegmentBegins, WordBeyondCut,
         WordKeptBefore, WordHeardTwice, SegmentEnds, MergeSegment, acrossChunks
  <2> QED BY <2>1, <2>3, <2>4, <2>5, <2>6 DEF MemoryInv
<1> QED BY <1>1, <1>2, <1>3 DEF Next

\* Every variable of plan, hearing and merge keeps its type: the loops never look behind the
\* last chunk, segment or word, whatever is spoken and heard (audio.py:156-201, merge.py:22-160).
THEOREM MergeTypeCorrect == Spec => []TypeOK
<1>1. ASSUME FileInv, MemoryInv PROVE TypeOK
  <2>1. CASE c = 0
    <3>1. <<>> \in Seq(Listing) /\ <<>> \in Seq(HeardAs) /\ <<>> \in Seq(HeardSegment)
      BY EmptySeq
    <3>2. c \notin DOMAIN results
      <4>1. results \in Seq(Listing) BY <1>1, <2>1, <3>1 DEF FileInv
      <4> QED BY <2>1, <4>1
    <3> QED BY <1>1, <2>1, <3>1, <3>2 DEF FileInv, MemoryInv, PlanInv, TypeOK, HeardSegment
  <2>2. CASE c # 0
    <3>1. MergeTypeOK BY <1>1, <2>2 DEF FileInv, MergeInv
    <3>2. results \in Seq(Listing) /\ windows \in Seq([start : Nat, end : Nat])
          /\ Len(results) = Len(windows)
      BY <3>1 DEF MergeTypeOK, PlanTypeOK
    <3>3. DOMAIN results = DOMAIN windows BY <3>2
    <3>4. ASSUME NEW i \in DOMAIN results, NEW j \in DOMAIN results[i]
          PROVE  j \in Nat \ {0} /\ results[i][j] \in Result
      <4>1. results[i] \in Listing BY <3>2
      <4> QED BY <4>1 DEF Listing
    <3> QED BY <1>1, <2>2, <3>1, <3>3, <3>4 DEF MergeTypeOK, MemoryInv, TypeOK, HeardSegment
  <2> QED BY <2>1, <2>2
<1>2. FileInv /\ MemoryInv /\ [Next]_vars => MemoryInv'
  BY MemoryGoesOn, PlanAssumption, HearingAssumption
<1> QED BY <1>1, <1>2, FileInvariant, MemoryBegins, PTL DEF Spec
====
