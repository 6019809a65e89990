---- MODULE ChunkMergeContents_proofs ----
(***************************************************************************)
(* What the merged transcript contains, for files, chunks and engines of   *)
(* any kind: every word of clear speech once (WordsKeptOnce), and without  *)
(* word timings the whole file up to half a segment at a seam              *)
(* (FallbackGap).                                                          *)
(***************************************************************************)
EXTENDS ChunkMerge_proofs

----------------------------------------------------------------------------
(* The transcript as segments are merged.                                  *)

\* The texts up to each of the first n, one after the other.
Flattened(f, n, ss) == f = [i \in 1..n |-> IF i = 1 THEN ss[i] ELSE f[i - 1] \o ss[i]]

\* They exist.
LEMMA FlattenedExists ==
  ASSUME NEW ss, NEW n \in Nat PROVE \E f : Flattened(f, n, ss)
<1> DEFINE S == {k \in 0..n : ~ \E f : Flattened(f, k, ss)}
<1> SUFFICES ASSUME n \in S PROVE FALSE OBVIOUS
<1>1. PICK k \in S : \A j \in S : k <= j
  <2>1. S \in SUBSET Nat /\ S # {} OBVIOUS
  <2> HIDE DEF S
  <2> QED BY <2>1, Least
<1>2. k # 0
  <2>1. Flattened([i \in 1..0 |-> 0], 0, ss) BY DEF Flattened
  <2> QED BY <1>1, <2>1
<1>3. k - 1 \in 0..n /\ k - 1 \notin S /\ k \in 1..n BY <1>1, <1>2
<1>4. PICK f : Flattened(f, k - 1, ss) BY <1>3
<1> DEFINE g == [i \in 1..k |-> IF i = k THEN IF k = 1 THEN ss[k] ELSE f[k - 1] \o ss[k] ELSE f[i]]
<1>5. ASSUME NEW i \in 1..k PROVE g[i] = IF i = 1 THEN ss[i] ELSE g[i - 1] \o ss[i]
  <2>1. CASE i = k
    <3>1. k # 1 => k - 1 \in 1..k /\ k - 1 # k BY <1>3
    <3> QED BY <2>1, <3>1
  <2>2. CASE i # k
    <3>1. i \in 1..k - 1 BY <1>3, <2>2
    <3>2. f[i] = IF i = 1 THEN ss[i] ELSE f[i - 1] \o ss[i] BY <1>4, <3>1 DEF Flattened
    <3>3. i # 1 => i - 1 \in 1..k /\ i - 1 # k BY <1>3, <3>1
    <3> QED BY <2>2, <3>2, <3>3
  <2> QED BY <2>1, <2>2
<1>6. g = [i \in 1..k |-> IF i = 1 THEN ss[i] ELSE g[i - 1] \o ss[i]]
  <2>1. g = [i \in 1..k |-> g[i]] OBVIOUS
  <2> HIDE DEF g
  <2> QED BY <1>5, <2>1
<1>7. Flattened(g, k, ss) BY <1>6 DEF Flattened
<1> QED BY <1>1, <1>7

\* The first k texts are the same.
Agree(k, ss, tt) == \A i \in 1..k : ss[i] = tt[i]
\* Texts that agree come to the same as far as they agree.
LEMMA FlattenedUnique ==
  ASSUME NEW m \in Nat, NEW n \in Nat, NEW k \in 1..m, k \in 1..n, NEW f, NEW g, NEW ss, NEW tt,
         Flattened(f, m, ss), Flattened(g, n, tt), Agree(k, ss, tt)
  PROVE  f[k] = g[k]
<1> DEFINE S == {i \in 1..k : f[i] # g[i]}
<1> SUFFICES ASSUME k \in S PROVE FALSE OBVIOUS
<1>1. PICK j \in S : \A i \in S : j <= i
  <2>1. S \in SUBSET Nat /\ S # {} OBVIOUS
  <2> HIDE DEF S
  <2> QED BY <2>1, Least
<1>2. j \in 1..k /\ j \in 1..m /\ j \in 1..n BY <1>1
<1>3. f[j] = (IF j = 1 THEN ss[j] ELSE f[j - 1] \o ss[j])
      /\ g[j] = (IF j = 1 THEN tt[j] ELSE g[j - 1] \o tt[j])
  BY <1>2 DEF Flattened
<1>4. j # 1 => f[j - 1] = g[j - 1]
  <2>1. j # 1 => j - 1 \in 1..k /\ j - 1 < j BY <1>2
  <2>2. j # 1 => j - 1 \notin S BY <1>1, <1>2, <2>1
  <2> QED BY <2>1, <2>2
<1>5. ss[j] = tt[j] BY <1>2 DEF Agree
<1> QED BY <1>1, <1>2, <1>3, <1>4, <1>5

\* They are sequences as the texts are.
LEMMA FlattenedTyped ==
  ASSUME NEW n \in Nat, NEW ss, NEW f, Flattened(f, n, ss), \A i \in 1..n : ss[i] \in Seq(Nat)
  PROVE  \A i \in 1..n : f[i] \in Seq(Nat)
<1> DEFINE S == {i \in 1..n : f[i] \notin Seq(Nat)}
<1> SUFFICES ASSUME S # {} PROVE FALSE OBVIOUS
<1>1. PICK j \in S : \A i \in S : j <= i
  <2>1. S \in SUBSET Nat OBVIOUS
  <2> HIDE DEF S
  <2> QED BY <2>1, Least
<1>2. f[j] = IF j = 1 THEN ss[j] ELSE f[j - 1] \o ss[j] BY <1>1 DEF Flattened
<1>3. j # 1 => j - 1 \in 1..n /\ j - 1 < j BY <1>1
<1>4. j # 1 => f[j - 1] \in Seq(Nat)
  <2>1. j # 1 => j - 1 \notin S BY <1>1, <1>3
  <2> QED BY <1>3, <2>1
<1>5. ss[j] \in Seq(Nat) /\ f[j] \notin Seq(Nat) BY <1>1
<1>6. CASE j = 1 BY <1>2, <1>5, <1>6
<1>7. CASE j # 1
  <2>1. f[j - 1] \o ss[j] \in Seq(Nat) BY <1>4, <1>5, <1>7, ConcatProperties
  <2> QED BY <1>2, <1>5, <1>7, <2>1
<1> QED BY <1>6, <1>7

\* The text of all of them is the last of these.
LEMMA FlattenLast ==
  ASSUME NEW ss \in Seq(Seq(Nat)), NEW f, Flattened(f, Len(ss), ss)
  PROVE  /\ FlattenSeq(ss) = IF ss = <<>> THEN <<>> ELSE f[Len(ss)]
         /\ FlattenSeq(ss) \in Seq(Nat)
<1> DEFINE n == Len(ss)
           h == CHOOSE g : Flattened(g, n, ss)
<1>1. n \in Nat /\ (n = 0 <=> ss = <<>>) OBVIOUS
<1>2. FlattenSeq(ss) = IF n = 0 THEN ss ELSE h[n] BY DEF FlattenSeq, Flattened
<1>3. Flattened(h, n, ss)
  <2>1. \E g : Flattened(g, n, ss) OBVIOUS
  <2> QED BY <2>1
<1> HIDE DEF n, h
<1>4. n # 0 => h[n] = f[n]
  <2>1. Flattened(f, n, ss) BY DEF n
  <2>2. n # 0 => n \in 1..n BY <1>1
  <2>3. Agree(n, ss, ss) BY DEF Agree
  <2> QED BY <1>1, <1>3, <2>1, <2>2, <2>3, FlattenedUnique
<1>5. n # 0 => h[n] \in Seq(Nat)
  <2>1. \A i \in 1..n : ss[i] \in Seq(Nat) BY DEF n
  <2>2. \A i \in 1..n : h[i] \in Seq(Nat) BY <1>1, <1>3, <2>1, FlattenedTyped
  <2> QED BY <1>1, <2>2
<1>6. <<>> \in Seq(Nat) BY EmptySeq
<1> QED BY <1>1, <1>2, <1>4, <1>5, <1>6 DEF n

\* Another one comes behind.
LEMMA FlattenAppend ==
  ASSUME NEW ss \in Seq(Seq(Nat)), NEW t \in Seq(Nat)
  PROVE  FlattenSeq(ss) \in Seq(Nat) /\ FlattenSeq(Append(ss, t)) = FlattenSeq(ss) \o t
<1> DEFINE n == Len(ss)
           tt == Append(ss, t)
<1>1. n \in Nat /\ tt \in Seq(Seq(Nat)) /\ Len(tt) = n + 1 /\ tt # <<>> /\ tt[n + 1] = t
      /\ \A i \in 1..n : tt[i] = ss[i]
  BY AppendProperties
<1>2. PICK f : Flattened(f, n, ss) BY <1>1, FlattenedExists
<1>3. PICK g : Flattened(g, n + 1, tt)
  <2>1. n + 1 \in Nat BY <1>1
  <2> HIDE DEF n, tt
  <2> QED BY <2>1, FlattenedExists
<1>4. FlattenSeq(ss) = (IF ss = <<>> THEN <<>> ELSE f[n]) /\ FlattenSeq(ss) \in Seq(Nat)
  BY <1>2, FlattenLast
<1>5. FlattenSeq(tt) = g[n + 1] BY <1>1, <1>3, FlattenLast
<1>8. n = 0 <=> ss = <<>> OBVIOUS
<1>9. <<>> \o t = t BY ConcatEmptySeq
<1> HIDE DEF n, tt
<1>6. g[n + 1] = IF n + 1 = 1 THEN t ELSE g[n] \o t
  <2>1. n + 1 \in 1..n + 1 /\ (n + 1) - 1 = n BY <1>1
  <2> QED BY <1>1, <1>3, <2>1 DEF Flattened
<1>7. n # 0 => g[n] = f[n]
  <2>1. n # 0 => n \in 1..n /\ n \in 1..n + 1 /\ n + 1 \in Nat BY <1>1
  <2>2. Agree(n, ss, tt) BY <1>1 DEF Agree
  <2> QED BY <1>1, <1>2, <1>3, <2>1, <2>2, FlattenedUnique
<1>10. CASE n = 0
  <2>1. FlattenSeq(ss) = <<>> /\ FlattenSeq(tt) = t BY <1>4, <1>5, <1>6, <1>8, <1>10
  <2> QED BY <1>4, <1>9, <2>1 DEF tt
<1>11. CASE n # 0
  <2>1. n + 1 # 1 BY <1>1, <1>11
  <2> QED BY <1>4, <1>5, <1>6, <1>7, <1>8, <1>11, <2>1 DEF tt
<1> QED BY <1>10, <1>11

\* Two texts one after the other.
LEMMA TwoTexts ==
  ASSUME NEW x \in Seq(Nat), NEW y \in Seq(Nat)
  PROVE  /\ x \o y \in Seq(Nat) /\ Len(x \o y) = Len(x) + Len(y)
         /\ Len(x) \in Nat /\ Len(y) \in Nat
         /\ \A i \in 1..Len(x) : (x \o y)[i] = x[i]
         /\ \A i \in 1..Len(y) : (x \o y)[Len(x) + i] = y[i]
BY ConcatProperties

\* It is all the same in which order three are put together.
LEMMA ThreeTexts ==
  ASSUME NEW x \in Seq(Nat), NEW y \in Seq(Nat), NEW z \in Seq(Nat)
  PROVE  x \o (y \o z) = (x \o y) \o z
<1> DEFINE yz == y \o z
           xy == x \o y
<1>1. /\ yz \in Seq(Nat) /\ Len(yz) = Len(y) + Len(z) /\ Len(y) \in Nat /\ Len(z) \in Nat
      /\ \A i \in 1..Len(y) : yz[i] = y[i]
      /\ \A i \in 1..Len(z) : yz[Len(y) + i] = z[i]
  BY TwoTexts
<1>2. /\ xy \in Seq(Nat) /\ Len(xy) = Len(x) + Len(y) /\ Len(x) \in Nat
      /\ \A i \in 1..Len(x) : xy[i] = x[i]
      /\ \A i \in 1..Len(y) : xy[Len(x) + i] = y[i]
  BY TwoTexts
<1> HIDE DEF yz, xy
<1> DEFINE l == x \o yz
           r == xy \o z
<1>3. /\ l \in Seq(Nat) /\ Len(l) = Len(x) + Len(yz)
      /\ \A i \in 1..Len(x) : l[i] = x[i]
      /\ \A i \in 1..Len(yz) : l[Len(x) + i] = yz[i]
  BY <1>1, TwoTexts
<1>4. /\ r \in Seq(Nat) /\ Len(r) = Len(xy) + Len(z)
      /\ \A i \in 1..Len(xy) : r[i] = xy[i]
      /\ \A i \in 1..Len(z) : r[Len(xy) + i] = z[i]
  BY <1>2, TwoTexts
<1> HIDE DEF l, r
<1> DEFINE a == Len(x)
           b == Len(y)
           d == Len(z)
<1>5. a \in Nat /\ b \in Nat /\ d \in Nat /\ Len(l) = a + b + d /\ Len(r) = a + b + d
      /\ Len(xy) = a + b /\ Len(yz) = b + d
  BY <1>1, <1>2, <1>3, <1>4
<1>6. \A i \in 1..a : l[i] = x[i] /\ r[i] = x[i]
  <2> SUFFICES ASSUME NEW i \in 1..a PROVE l[i] = x[i] /\ r[i] = x[i] OBVIOUS
  <2>1. i \in 1..Len(xy) BY <1>5
  <2> QED BY <1>2, <1>3, <1>4, <2>1
<1>7. \A i \in 1..b : l[a + i] = y[i] /\ r[a + i] = y[i]
  <2> SUFFICES ASSUME NEW i \in 1..b PROVE l[a + i] = y[i] /\ r[a + i] = y[i] OBVIOUS
  <2>1. i \in 1..Len(yz) /\ a + i \in 1..Len(xy) BY <1>5
  <2>2. l[a + i] = yz[i] /\ yz[i] = y[i] BY <1>1, <1>3, <2>1
  <2>3. r[a + i] = xy[a + i] /\ xy[a + i] = y[i] BY <1>2, <1>4, <2>1
  <2> QED BY <2>2, <2>3
<1>8. \A i \in 1..d : l[a + (b + i)] = z[i] /\ r[a + (b + i)] = z[i]
  <2> SUFFICES ASSUME NEW i \in 1..d PROVE l[a + (b + i)] = z[i] /\ r[a + (b + i)] = z[i] OBVIOUS
  <2>1. b + i \in 1..Len(yz) /\ (a + b) + i = a + (b + i) BY <1>5
  <2>2. l[a + (b + i)] = yz[b + i] /\ yz[b + i] = z[i] BY <1>1, <1>3, <2>1
  <2>3. r[(a + b) + i] = z[i] BY <1>4, <1>5
  <2> QED BY <2>1, <2>2, <2>3
<1> HIDE DEF a, b, d
<1>9. ASSUME NEW i \in 1..Len(l) PROVE l[i] = r[i]
  <2>1. i \in Nat /\ (i \in 1..a \/ i - a \in 1..b \/ (i - a) - b \in 1..d) BY <1>5
  <2>2. i = a + (i - a) /\ i = a + (b + ((i - a) - b)) BY <1>5, <2>1
  <2>3. CASE i \in 1..a BY <1>6, <2>3
  <2>4. CASE i - a \in 1..b BY <1>7, <2>2, <2>4
  <2>5. CASE (i - a) - b \in 1..d BY <1>8, <2>2, <2>5
  <2> QED BY <2>1, <2>3, <2>4, <2>5
<1>10. l = r BY <1>3, <1>4, <1>5, <1>9, SeqEqual
<1> QED BY <1>10 DEF l, r, yz, xy

\* What goes on in the last one comes behind as well.
LEMMA FlattenJoin ==
  ASSUME NEW ss \in Seq(Seq(Nat)), NEW t \in Seq(Nat), ss # <<>>
  PROVE  FlattenSeq([ss EXCEPT ![Len(ss)] = ss[Len(ss)] \o t]) = FlattenSeq(ss) \o t
<1> DEFINE n == Len(ss)
           u == ss[n] \o t
           tt == [ss EXCEPT ![n] = u]
<1>1. n \in Nat \ {0} /\ ss[n] \in Seq(Nat) OBVIOUS
<1>2. u \in Seq(Nat) BY <1>1
<1>3. tt \in Seq(Seq(Nat)) /\ Len(tt) = n /\ tt # <<>> /\ tt[n] = u
      /\ \A i \in 1..n - 1 : tt[i] = ss[i]
  <2> HIDE DEF u
  <2> QED BY <1>1, <1>2
<1>4. PICK f : Flattened(f, n, ss) BY <1>1, FlattenedExists
<1>5. PICK g : Flattened(g, n, tt) BY <1>1, FlattenedExists
<1>6. FlattenSeq(ss) = f[n] BY <1>4, FlattenLast
<1>7. FlattenSeq(tt) = g[n] BY <1>3, <1>5, FlattenLast
<1> HIDE DEF tt, u
<1>8. f[n] = (IF n = 1 THEN ss[n] ELSE f[n - 1] \o ss[n]) /\ g[n] = (IF n = 1 THEN u ELSE g[n - 1] \o u)
  <2>1. n \in 1..n BY <1>1
  <2> QED BY <1>3, <1>4, <1>5, <2>1 DEF Flattened
<1>9. n # 1 => f[n - 1] = g[n - 1] /\ f[n - 1] \in Seq(Nat)
  <2> SUFFICES ASSUME n # 1 PROVE f[n - 1] = g[n - 1] /\ f[n - 1] \in Seq(Nat) OBVIOUS
  <2>1. n - 1 \in Nat /\ n - 1 <= n /\ n - 1 \in 1..n - 1 /\ n - 1 \in 1..n
    <3> HIDE DEF n
    <3> QED BY <1>1
  <2>2. f[n - 1] = g[n - 1]
    <3>1. Agree(n - 1, ss, tt) BY <1>3 DEF Agree
    <3>2. n \in Nat BY <1>1
    <3> HIDE DEF n
    <3> QED BY <1>4, <1>5, <2>1, <3>1, <3>2, FlattenedUnique
  <2>3. \A i \in 1..n : f[i] \in Seq(Nat)
    <3>1. \A i \in 1..n : ss[i] \in Seq(Nat) OBVIOUS
    <3> HIDE DEF n
    <3> QED BY <1>1, <1>4, <3>1, FlattenedTyped
  <2> QED BY <2>1, <2>2, <2>3
<1>10. n # 1 => f[n - 1] \o u = (f[n - 1] \o ss[n]) \o t
  <2> SUFFICES ASSUME n # 1 PROVE f[n - 1] \o u = (f[n - 1] \o ss[n]) \o t OBVIOUS
  <2> DEFINE x == f[n - 1]
             y == ss[n]
  <2>1. x \in Seq(Nat) /\ y \in Seq(Nat) BY <1>1, <1>9
  <2> HIDE DEF x, y
  <2>2. x \o (y \o t) = (x \o y) \o t BY <2>1, ThreeTexts
  <2> QED BY <2>2 DEF x, y, u
<1> QED BY <1>6, <1>7, <1>8, <1>9, <1>10 DEF tt, u

----------------------------------------------------------------------------
(* Every word is kept once: what an engine hears of clear speech, chunk by *)
(* chunk, and where the words lie to the cuts.                             *)

\* What an engine has heard is known, and the words are those the overlaps were made for.
Listened == /\ Ready /\ Clear
            /\ results \in Seq(Listing) /\ Len(results) = Len(windows)
            /\ \A i \in DOMAIN windows : results[i] = Heard(i)

\* A word as a chunk has it, on the clock of the file.
HeardStart(i, k) == HeardWord(i, k).start + chunks[i].start
HeardEnd(i, k) == HeardWord(i, k).end + chunks[i].start
HeardBeyond(i, k) ==
  i < Len(results) /\ HeardStart(i, k) + HeardEnd(i, k) >= chunks[i + 1].start + chunks[i].end

\* The most a chunk is early, and late.
Early(i) == Lesser(Shift(i), 0)
Late(i) == Greater(Shift(i), 0)

\* No two chunks are further apart than the shift.
LEMMA ShiftFacts ==
  ASSUME Ready, HearingAssumption, NEW i \in Nat, NEW j \in Nat
  PROVE  /\ Shift(i) \in Int /\ Early(i) \in Int /\ Late(i) \in Int
         /\ Early(i) <= 0 /\ 0 <= Late(i)
         /\ Late(i) - Early(j) <= Size(engine.shift)
         /\ Late(i) <= Size(Shift(i)) /\ -Early(i) <= Size(Shift(i))
         /\ Size(engine.shift) \in Nat /\ Size(Shift(i)) \in Nat
<1> DEFINE a == engine.shift
           x == Shift(i)
           y == Shift(j)
<1>1. a \in Int BY SpeechFacts
<1>2. (x = a \/ x = 0) /\ (y = a \/ y = 0) BY DEF Shift
<1>3. Early(i) = Lesser(x, 0) /\ Late(i) = Greater(x, 0) /\ Early(j) = Lesser(y, 0)
  BY DEF Early, Late
<1> HIDE DEF a, x, y
<1> QED BY <1>1, <1>2, <1>3 DEF Size, Greater, Lesser, a, x, y

\* A word is long enough for the timings, or else only the last of two chunks is late.
LEMMA LongFacts ==
  ASSUME Listened, HearingAssumption, NEW k \in DOMAIN speech
  PROVE  LET z == Size(engine.shift) IN
    /\ speech[k].end - speech[k].start > 2 + z
    /\ \/ speech[k].end - speech[k].start > 2 * (2 + z)
       \/ engine.shift > 0 /\ Len(windows) = 2
    /\ \A i \in DOMAIN windows :
         engine.clipped /\ speech[k].start < chunks[i].start /\ chunks[i].start < speech[k].end
           => speech[k].end - chunks[i].start > 2 * (2 + z)
<1> DEFINE z == Size(engine.shift)
           l == speech[k].end - speech[k].start
<1>1. z \in Nat
  <2>1. 0 \in Nat OBVIOUS
  <2> QED BY <2>1, ShiftFacts DEF Listened
<1>2. Timing = 2 + z BY DEF Timing
<1>3. l > 2 * Timing \/ (engine.shift > 0 /\ Len(windows) = 2 /\ l > Timing)
  BY DEF Listened, Clear
<1>4. \A i \in DOMAIN windows :
        engine.clipped /\ speech[k].start < chunks[i].start /\ chunks[i].start < speech[k].end
          => speech[k].end - chunks[i].start > 2 * Timing
  BY DEF Listened, Clear
<1>5. l \in Int BY SpeechFacts DEF Listened
<1> HIDE DEF z, l
<1>6. l > 2 + z /\ (l > 2 * (2 + z) \/ (engine.shift > 0 /\ Len(windows) = 2))
  BY <1>1, <1>2, <1>3, <1>5
<1> QED BY <1>2, <1>4, <1>6 DEF z, l

\* A word is shorter than what two neighbouring chunks share.
LEMMA CutFacts ==
  ASSUME Listened, PlanAssumption, HearingAssumption, NEW k \in DOMAIN speech,
         NEW i \in DOMAIN windows, i < Len(windows)
  PROVE  /\ speech[k].end - speech[k].start + 2 * Size(Shift(i)) < chunks[i].end - chunks[i + 1].start
         /\ chunks[i].start <= chunks[i + 1].start /\ chunks[i + 1].start < chunks[i].end
         /\ chunks[i + 1].start \in Nat /\ i + 1 \in DOMAIN windows
<1>1. i \in 1..Len(windows) - 1 /\ i \in Nat /\ i + 1 \in 1..Len(windows) /\ i + 1 \in DOMAIN windows
  BY DEF Listened, Ready, PlanInv, PlanTypeOK
<1>2. speech[k].end - speech[k].start + 2 * Size(Shift(i)) < chunks[i].end - chunks[i + 1].start
  BY <1>1 DEF Listened, Clear
<1>3. chunks[i].start <= chunks[i + 1].start
  BY <1>1, NeighboursShare DEF Listened, Ready, chunks
<1>4. chunks[i + 1].start \in Nat /\ chunks[i].end \in Nat
  BY <1>1, PlannedChunk DEF Listened, Ready
<1>5. Size(Shift(i)) \in Nat BY <1>1, ShiftFacts DEF Listened
<1>6. speech[k].end \in Nat /\ speech[k].start \in Nat /\ speech[k].start < speech[k].end
  BY SpeechFacts DEF Listened
<1> DEFINE a == speech[k].end - speech[k].start
           b == Size(Shift(i))
           e == chunks[i].end
           s == chunks[i + 1].start
<1>7. a \in Nat /\ b \in Nat /\ e \in Nat /\ s \in Nat /\ a + 2 * b < e - s
  BY <1>2, <1>4, <1>5, <1>6
<1> HIDE DEF a, b, e, s
<1>8. s < e BY <1>7
<1> QED BY <1>1, <1>2, <1>3, <1>4, <1>8 DEF s, e

\* When a word is heard, on the clock of the file.
LEMMA TimeFacts ==
  ASSUME Listened, PlanAssumption, HearingAssumption, NEW i \in DOMAIN windows, NEW k \in Within(i)
  PROVE  /\ HeardStart(i, k) \in Nat /\ HeardEnd(i, k) \in Nat
         /\ HeardStart(i, k) >= HeardFrom(i, k) + Early(i) - 1
         /\ HeardStart(i, k) <= HeardFrom(i, k) + Late(i) + 1
         /\ HeardEnd(i, k) >= HeardTo(i, k) + Early(i) - 1
         /\ HeardEnd(i, k) <= HeardTo(i, k) + Late(i) + 1
         /\ k \in DOMAIN speech /\ speech[k].start < chunks[i].end /\ chunks[i].start < speech[k].end
         /\ speech[k].start \in Nat /\ speech[k].end \in Nat /\ speech[k].start < speech[k].end
         /\ chunks[i].start \in Nat /\ chunks[i].end \in Nat
         /\ HeardFrom(i, k) = (IF speech[k].start >= chunks[i].start THEN speech[k].start
                               ELSE chunks[i].start)
         /\ HeardTo(i, k) = (IF speech[k].end <= chunks[i].end THEN speech[k].end
                             ELSE chunks[i].end)
         /\ Whole(i, k) <=> /\ chunks[i].start <= speech[k].start
                            /\ speech[k].end <= chunks[i].end
<1>1. Ready /\ i \in Nat BY PlannedChunk DEF Listened, Ready
<1>2. /\ k \in DOMAIN speech /\ speech[k].start < chunks[i].end /\ chunks[i].start < speech[k].end
      /\ speech[k].start \in Nat /\ speech[k].end \in Nat /\ speech[k].start < speech[k].end
  BY <1>1, SpeechFacts DEF Within
<1>3. chunks[i].start \in Nat /\ chunks[i].end \in Nat BY PlannedChunk DEF Listened, Ready
<1>4. /\ HeardWord(i, k).start \in Nat /\ HeardWord(i, k).end \in Nat
      /\ HeardStart(i, k) >= HeardFrom(i, k) + Early(i) - 1
      /\ HeardStart(i, k) <= HeardFrom(i, k) + Late(i) + 1
      /\ HeardEnd(i, k) >= HeardTo(i, k) + Early(i) - 1
      /\ HeardEnd(i, k) <= HeardTo(i, k) + Late(i) + 1
  BY <1>1, HeardWordFacts DEF HeardStart, HeardEnd, Early, Late
<1>5. HeardStart(i, k) \in Nat /\ HeardEnd(i, k) \in Nat
  BY <1>3, <1>4 DEF HeardStart, HeardEnd
<1>6. HeardFrom(i, k) = (IF speech[k].start >= chunks[i].start THEN speech[k].start
                         ELSE chunks[i].start)
  BY DEF HeardFrom, Greater
<1>7. HeardTo(i, k) = (IF speech[k].end <= chunks[i].end THEN speech[k].end ELSE chunks[i].end)
  BY DEF HeardTo, Lesser
<1> QED BY <1>2, <1>3, <1>4, <1>5, <1>6, <1>7 DEF Whole

\* A word that is cut off at the end of a chunk lies beyond the cut.
LEMMA CutOffBeyond ==
  ASSUME Listened, PlanAssumption, HearingAssumption, NEW i \in DOMAIN windows,
         i < Len(windows), NEW k \in Within(i), chunks[i].end < speech[k].end
  PROVE  HeardBeyond(i, k)
<1> DEFINE S == HeardStart(i, k)
           E == HeardEnd(i, k)
           a == speech[k].start
           b == speech[k].end
           s == chunks[i].start
           e == chunks[i].end
           t == chunks[i + 1].start
           z == Size(Shift(i))
<1>1. /\ S \in Nat /\ E \in Nat /\ a \in Nat /\ b \in Nat /\ s \in Nat /\ e \in Nat
      /\ S >= HeardFrom(i, k) + Early(i) - 1 /\ E >= HeardTo(i, k) + Early(i) - 1
      /\ HeardFrom(i, k) = (IF a >= s THEN a ELSE s) /\ HeardTo(i, k) = (IF b <= e THEN b ELSE e)
      /\ k \in DOMAIN speech
  BY TimeFacts
<1>2. i \in Nat /\ Ready BY PlannedChunk DEF Listened, Ready
<1>3. b - a + 2 * z < e - t /\ s <= t /\ t \in Nat /\ t < e BY <1>1, CutFacts
<1>4. Early(i) \in Int /\ -Early(i) <= z /\ z \in Nat BY <1>2, ShiftFacts
<1>5. S + E >= t + e
  <2>1. e < b OBVIOUS
  <2>2. S >= HeardFrom(i, k) - z - 1 /\ E >= HeardTo(i, k) - z - 1 /\ HeardTo(i, k) = e
    <3> DEFINE h == HeardFrom(i, k)
               g == HeardTo(i, k)
               y == Early(i)
    <3>1. h \in Nat /\ g = e /\ e \in Nat /\ S \in Nat /\ E \in Nat
          /\ S >= h + y - 1 /\ E >= g + y - 1
      BY <1>1, <2>1
    <3>2. y \in Int /\ -y <= z /\ z \in Nat BY <1>4
    <3> HIDE DEF S, E, a, b, s, e, t, z, h, g, y
    <3>3. S >= h - z - 1 /\ E >= g - z - 1 BY <3>1, <3>2
    <3> QED BY <3>1, <3>3 DEF h, g
  <2>3. HeardFrom(i, k) = IF a >= s THEN a ELSE s BY <1>1
  <2> HIDE DEF S, E, a, b, s, e, t, z
  <2>4. HeardFrom(i, k) >= t + 2 * z + 2
    BY <1>1, <1>3, <1>4, <2>1, <2>3
  <2> QED BY <1>1, <1>3, <1>4, <2>2, <2>4
<1>6. Len(results) = Len(windows) BY DEF Listened
<1> QED BY <1>5, <1>6 DEF HeardBeyond

\* So what is not beyond the cut and begins in the chunk is there as a whole.
LEMMA WholeBeforeCut ==
  ASSUME Listened, PlanAssumption, HearingAssumption, NEW i \in DOMAIN windows,
         NEW k \in Within(i), chunks[i].start <= speech[k].start, ~HeardBeyond(i, k)
  PROVE  Whole(i, k)
<1>1. CASE i < Len(windows)
  <2>1. ~(chunks[i].end < speech[k].end) BY <1>1, CutOffBeyond
  <2> QED BY <2>1, TimeFacts
<1>2. CASE ~(i < Len(windows))
  <2>1. i = Len(windows) BY <1>2 DEF Listened, Ready, PlanInv, PlanTypeOK
  <2>2. chunks[i].end = setting.frames BY <2>1, WholeFile DEF Listened, Ready, chunks
  <2>3. k \in DOMAIN speech BY TimeFacts
  <2>4. speech[k].end <= setting.frames BY <2>3, SpeechFacts DEF Listened
  <2> QED BY <2>2, <2>4, TimeFacts
<1> QED BY <1>1, <1>2

\* A word that begins in a chunk, and is beyond its cut or not heard in it, begins in the next.
LEMMA BeginsLater ==
  ASSUME Listened, PlanAssumption, HearingAssumption, NEW i \in DOMAIN windows,
         i < Len(windows), NEW k \in DOMAIN speech, chunks[i].start <= speech[k].start,
         k \in Within(i) => HeardBeyond(i, k)
  PROVE  chunks[i + 1].start <= speech[k].start
<1> DEFINE S == HeardStart(i, k)
           E == HeardEnd(i, k)
           a == speech[k].start
           b == speech[k].end
           s == chunks[i].start
           e == chunks[i].end
           t == chunks[i + 1].start
           z == Size(Shift(i))
<1>1. i \in Nat /\ Ready /\ s \in Nat /\ e \in Nat BY PlannedChunk DEF Listened, Ready
<1>2. a \in Nat /\ b \in Nat /\ a < b BY <1>1, SpeechFacts
<1>3. b - a + 2 * z < e - t /\ s <= t /\ t \in Nat /\ t < e BY CutFacts
<1>4. Late(i) \in Int /\ Late(i) <= z /\ z \in Nat BY <1>1, ShiftFacts
<1>5. CASE e < b
  <2> HIDE DEF a, b, e, t, z
  <2>1. t <= a BY <1>1, <1>2, <1>3, <1>4, <1>5
  <2> QED BY <2>1 DEF a, t
<1>6. CASE b <= e /\ k \in Within(i)
  <2>1. /\ S \in Nat /\ E \in Nat /\ S <= HeardFrom(i, k) + Late(i) + 1
        /\ E <= HeardTo(i, k) + Late(i) + 1 /\ HeardFrom(i, k) = a /\ HeardTo(i, k) = b
    BY <1>2, <1>6, TimeFacts
  <2>2. S + E >= t + e BY <1>6 DEF HeardBeyond
  <2> HIDE DEF S, E, a, b, e, t, z
  <2>3. t <= a BY <1>1, <1>2, <1>3, <1>4, <2>1, <2>2
  <2> QED BY <2>3 DEF a, t
<1>7. CASE b <= e /\ k \notin Within(i)
  <2>1. Whole(i, k) BY <1>7 DEF Whole
  <2>2. ~(a < e /\ s < b) BY <1>7, <2>1 DEF Within
  <2>3. s <= a OBVIOUS
  <2> HIDE DEF a, b, s, e, t
  <2>4. FALSE BY <1>1, <1>2, <1>7, <2>2, <2>3
  <2> QED BY <2>4
<1>8. e < b \/ b <= e
  <2> HIDE DEF b, e
  <2> QED BY <1>1, <1>2
<1> QED BY <1>5, <1>6, <1>7, <1>8

\* The last chunk has all words that begin in it.
LEMMA AllInLast ==
  ASSUME Listened, PlanAssumption, HearingAssumption, NEW i \in DOMAIN windows,
         i = Len(windows), NEW k \in DOMAIN speech, chunks[i].start <= speech[k].start
  PROVE  k \in Within(i) /\ ~HeardBeyond(i, k)
<1>1. chunks[i].end = setting.frames BY WholeFile DEF Listened, Ready, chunks
<1>2. speech[k].end <= chunks[i].end /\ speech[k].start < speech[k].end
      /\ speech[k].end \in Nat /\ speech[k].start \in Nat
  BY <1>1, SpeechFacts DEF Listened
<1>3. chunks[i].start \in Nat /\ chunks[i].end \in Nat BY PlannedChunk DEF Listened, Ready
<1>4. speech[k].start < chunks[i].end /\ chunks[i].start < speech[k].end BY <1>2, <1>3
<1>5. Whole(i, k) BY <1>2 DEF Whole
<1>6. Len(results) = i /\ i \in Nat BY PlannedChunk DEF Listened, Ready
<1> QED BY <1>4, <1>5, <1>6 DEF Within, HeardBeyond

\* No gap: before a word that is heard, every word is heard that begins in the chunk.
LEMMA NoneMissed ==
  ASSUME Listened, PlanAssumption, HearingAssumption, NEW i \in DOMAIN windows,
         NEW k \in Within(i), NEW j \in DOMAIN speech, j < k, chunks[i].start <= speech[j].start
  PROVE  j \in Within(i)
<1>1. k \in DOMAIN speech /\ speech[k].start < chunks[i].end /\ speech[k].start \in Nat
      /\ chunks[i].start \in Nat /\ chunks[i].end \in Nat
  BY TimeFacts
<1>2. speech[j].end <= speech[k].start /\ speech[j].start < speech[j].end
      /\ speech[j].start \in Nat /\ speech[j].end \in Nat
  BY <1>1, SpeechFacts DEF Listened
<1>3. speech[j].start < chunks[i].end /\ chunks[i].start < speech[j].end
      /\ speech[j].end <= chunks[i].end
  BY <1>1, <1>2
<1> QED BY <1>3 DEF Within, Whole

\* Beyond the cut is everything after what is.
LEMMA BeyondOn ==
  ASSUME Listened, PlanAssumption, HearingAssumption, NEW i \in DOMAIN windows,
         NEW j \in Within(i), NEW k \in Within(i), j <= k, HeardBeyond(i, j)
  PROVE  HeardBeyond(i, k)
<1> DEFINE S == HeardStart(i, k)
           E == HeardEnd(i, k)
           P == HeardStart(i, j)
           Q == HeardEnd(i, j)
           x == chunks[i + 1].start + chunks[i].end
           s == chunks[i].start
<1>1. Ready BY DEF Listened
<1>2. HeardWord(i, j).start <= HeardWord(i, k).start /\ HeardWord(i, j).end <= HeardWord(i, k).end
  BY <1>1, HeardInOrder
<1>3. /\ HeardWord(i, j).start \in Nat /\ HeardWord(i, k).start \in Nat
      /\ HeardWord(i, j).end \in Nat /\ HeardWord(i, k).end \in Nat /\ s \in Nat
  BY <1>1, HeardWordFacts
<1>4. P <= S /\ Q <= E /\ P \in Nat /\ Q \in Nat /\ S \in Nat /\ E \in Nat
  <2> DEFINE w == HeardWord(i, j).start
             x2 == HeardWord(i, j).end
             y == HeardWord(i, k).start
             y2 == HeardWord(i, k).end
  <2>1. P = w + s /\ Q = x2 + s /\ S = y + s /\ E = y2 + s BY DEF HeardStart, HeardEnd
  <2> HIDE DEF w, x2, y, y2, S, E, P, Q, s
  <2>2. w <= y /\ x2 <= y2 BY <1>2 DEF w, x2, y, y2
  <2>3. w \in Nat /\ x2 \in Nat /\ y \in Nat /\ y2 \in Nat /\ s \in Nat
    BY <1>3 DEF w, x2, y, y2
  <2> QED BY <2>1, <2>2, <2>3
<1>5. i < Len(results) /\ P + Q >= x BY DEF HeardBeyond
<1>6. x \in Nat
  <2>1. i < Len(windows) BY <1>5 DEF Listened
  <2>2. j \in DOMAIN speech BY TimeFacts
  <2>3. chunks[i + 1].start \in Nat /\ chunks[i].end \in Nat BY <2>1, <2>2, CutFacts, TimeFacts
  <2> QED BY <2>3
<1> HIDE DEF S, E, P, Q, x
<1>7. S + E >= x BY <1>4, <1>5, <1>6
<1> QED BY <1>5, <1>7 DEF HeardBeyond, S, E, x

\* A word heard as a whole begins before it ends.
LEMMA HeardLong ==
  ASSUME Listened, PlanAssumption, HearingAssumption, NEW i \in DOMAIN windows,
         NEW k \in Within(i), Whole(i, k)
  PROVE  HeardStart(i, k) < HeardEnd(i, k)
<1> DEFINE S == HeardStart(i, k)
           E == HeardEnd(i, k)
           a == speech[k].start
           b == speech[k].end
           z == Size(engine.shift)
<1>1. i \in Nat /\ Ready BY PlannedChunk DEF Listened, Ready
<1>2. /\ S \in Nat /\ E \in Nat /\ a \in Nat /\ b \in Nat
      /\ S <= a + Late(i) + 1 /\ E >= b + Early(i) - 1 /\ k \in DOMAIN speech
  BY TimeFacts
<1>3. b - a > 2 + z BY <1>2, LongFacts
<1>4. Early(i) \in Int /\ Late(i) \in Int /\ Late(i) - Early(i) <= z /\ z \in Nat
  BY <1>1, ShiftFacts
<1> DEFINE l == Late(i)
           y == Early(i)
<1>5. l \in Int /\ y \in Int /\ l - y <= z /\ S <= a + l + 1 /\ E >= b + y - 1
  BY <1>2, <1>4
<1>6. S \in Nat /\ E \in Nat /\ a \in Nat /\ b \in Nat BY <1>2
<1> HIDE DEF S, E, a, b, z, l, y
<1>7. S < E BY <1>3, <1>4, <1>5, <1>6
<1> QED BY <1>7 DEF S, E

\* The next word, in the same chunk or a later one, comes after the time up to which words
\* are kept: it is not dropped, and not clamped to nothing.
LEMMA NextIsNew ==
  ASSUME Listened, PlanAssumption, HearingAssumption,
         NEW i \in DOMAIN windows, NEW j \in DOMAIN windows, i <= j,
         NEW m \in Within(i), Whole(i, m), NEW k \in Within(j), Whole(j, k), m < k
  PROVE  /\ HeardStart(j, k) + HeardEnd(j, k) >= 2 * HeardEnd(i, m)
         /\ HeardEnd(i, m) < HeardEnd(j, k)
<1> DEFINE S == HeardStart(j, k)
           E == HeardEnd(j, k)
           K == HeardEnd(i, m)
           a == speech[k].start
           b == speech[k].end
           u == speech[m].end
           z == Size(engine.shift)
<1>1. i \in Nat /\ j \in Nat /\ Ready BY PlannedChunk DEF Listened, Ready
<1>2. /\ S \in Nat /\ E \in Nat /\ a \in Nat /\ b \in Nat /\ k \in DOMAIN speech
      /\ S >= a + Early(j) - 1 /\ E >= b + Early(j) - 1
  BY TimeFacts
<1>3. K \in Nat /\ u \in Nat /\ K <= u + Late(i) + 1 /\ m \in DOMAIN speech BY TimeFacts
<1>4. u <= a /\ a < b BY <1>1, <1>2, <1>3, SpeechFacts
<1>5. b - a > 2 + z /\ (b - a > 2 * (2 + z) \/ (engine.shift > 0 /\ Len(windows) = 2))
  BY <1>2, LongFacts
<1>6. Early(j) \in Int /\ Late(i) \in Int /\ Late(i) - Early(j) <= z /\ z \in Nat /\ Early(j) <= 0
  BY <1>1, ShiftFacts
<1>7. K < E
  <2> DEFINE l == Late(i)
             y == Early(j)
  <2>1. l \in Int /\ y \in Int /\ l - y <= z /\ z \in Nat BY <1>6
  <2>2. K <= u + l + 1 /\ E >= b + y - 1 /\ u <= a /\ b - a > 2 + z
    BY <1>2, <1>3, <1>4, <1>5
  <2>3. K \in Nat /\ E \in Nat /\ u \in Nat /\ a \in Nat /\ b \in Nat BY <1>2, <1>3
  <2> HIDE DEF S, E, K, a, b, u, z, l, y
  <2> QED BY <2>1, <2>2, <2>3
<1>8. CASE i = j
  <2>1. HeardWord(j, m).end <= HeardWord(j, k).start BY <1>1, <1>8, HeardInOrder
  <2>2. HeardWord(j, m).end \in Nat /\ HeardWord(j, k).start \in Nat /\ chunks[j].start \in Nat
    BY <1>1, <1>8, HeardWordFacts
  <2>3. K = HeardWord(j, m).end + chunks[j].start /\ S = HeardWord(j, k).start + chunks[j].start
    BY <1>8 DEF HeardStart, HeardEnd
  <2> HIDE DEF S, E, K
  <2>4. K <= S
    <3> DEFINE x == HeardWord(j, m).end
               y == HeardWord(j, k).start
               s == chunks[j].start
    <3>1. K = x + s /\ S = y + s /\ x <= y /\ x \in Nat /\ y \in Nat /\ s \in Nat
      BY <2>1, <2>2, <2>3
    <3> HIDE DEF x, y, s
    <3> QED BY <3>1
  <2>5. S + E >= 2 * K
    <3>1. S \in Nat /\ E \in Nat /\ K \in Nat BY <1>2, <1>3 DEF S, E, K
    <3> QED BY <1>7, <2>4, <3>1
  <2> QED BY <1>7, <2>5 DEF S, E, K
<1>9. CASE b - a > 2 * (2 + z)
  <2> HIDE DEF S, E, K, a, b, u, z
  <2>1. S + E >= 2 * K
    <3> DEFINE l == Late(i)
               y == Early(j)
    <3>1. /\ S >= a + y - 1 /\ E >= b + y - 1 /\ K <= u + l + 1 /\ u <= a
          /\ y \in Int /\ l \in Int /\ l - y <= z /\ z \in Nat
      BY <1>2, <1>3, <1>4, <1>6
    <3>2. S \in Nat /\ E \in Nat /\ K \in Nat /\ a \in Nat /\ b \in Nat /\ u \in Nat
      BY <1>2, <1>3
    <3> HIDE DEF l, y
    <3> QED BY <1>9, <3>1, <3>2
  <2> QED BY <1>7, <2>1 DEF S, E, K
<1>10. CASE i # j /\ engine.shift > 0 /\ Len(windows) = 2
  <2>1. i = 1 /\ j = 2
    <3>1. i \in 1..2 /\ j \in 1..2 BY <1>10, PlannedChunk DEF Listened, Ready
    <3> QED BY <1>10, <3>1
  <2>2. engine.shift \in Int BY <1>1, SpeechFacts
  <2>3. Shift(i) = 0 /\ Shift(j) = engine.shift /\ z = engine.shift
    <3>1. 1 % 2 # 0 /\ 2 % 2 = 0 OBVIOUS
    <3>2. Shift(1) = 0 /\ Shift(2) = engine.shift BY <3>1 DEF Shift
    <3>3. engine.shift >= -engine.shift BY <1>10, <2>2
    <3> QED BY <2>1, <3>2, <3>3 DEF Size, Greater
  <2>4. Late(i) = 0 /\ Early(j) = 0 /\ z > 0
    BY <1>10, <2>2, <2>3 DEF Late, Early, Greater, Lesser
  <2> HIDE DEF S, E, K, a, b, u, z
  <2>5. S + E >= 2 * K BY <1>2, <1>3, <1>4, <1>5, <1>6, <2>4
  <2> QED BY <1>7, <2>5 DEF S, E, K
<1> QED BY <1>5, <1>8, <1>9, <1>10

\* The end of a heard word is rounded once, from an integer.
LEMMA StampedEnd ==
  ASSUME Ready, PlanAssumption, HearingAssumption, NEW i \in DOMAIN windows, NEW k \in Within(i)
  PROVE  LET d == HeardTo(i, k) - chunks[i].start + Shift(i) IN
         /\ HeardWord(i, k).end = Stamp(Greater(d, 0))
         /\ d \in Int /\ HeardWord(i, k).end \in Nat
<1>1. /\ HeardTo(i, k) \in Nat /\ chunks[i].start \in Nat /\ Shift(i) \in Int
      /\ HeardWord(i, k).end = Stamp(Greater(HeardTo(i, k) - chunks[i].start + Shift(i), 0))
      /\ HeardWord(i, k).end \in Nat
  BY HeardWordFacts
<1> QED BY <1>1

\* A word heard again in a later chunk is dropped; only the last one kept may be so late
\* that it is not, but then it begins before it has ended where it was kept.
LEMMA AgainIsOld ==
  ASSUME Listened, PlanAssumption, HearingAssumption,
         NEW i \in DOMAIN windows, NEW j \in DOMAIN windows, i < j,
         NEW m \in Within(i), Whole(i, m), NEW k \in Within(j), k <= m, ~HeardBeyond(j, k)
  PROVE  \/ HeardStart(j, k) + HeardEnd(j, k) < 2 * HeardEnd(i, m)
         \/ /\ k = m /\ Whole(j, k) /\ HeardStart(j, k) < HeardEnd(i, m)
            /\ Stamp(HeardEnd(i, m)) = HeardEnd(i, m)
<1> DEFINE S == HeardStart(j, k)
           E == HeardEnd(j, k)
           K == HeardEnd(i, m)
           a == speech[k].start
           b == speech[k].end
           u == speech[m].end
           s == chunks[j].start
           e == chunks[j].end
           z == Size(engine.shift)
<1>1. i \in Nat /\ j \in Nat /\ Ready BY PlannedChunk DEF Listened, Ready
<1>2. /\ S \in Nat /\ E \in Nat /\ a \in Nat /\ b \in Nat /\ a < b /\ k \in DOMAIN speech
      /\ s \in Nat /\ e \in Nat /\ a < e /\ s < b
      /\ S <= HeardFrom(j, k) + Late(j) + 1 /\ E <= HeardTo(j, k) + Late(j) + 1
      /\ HeardFrom(j, k) = (IF a >= s THEN a ELSE s) /\ HeardTo(j, k) = (IF b <= e THEN b ELSE e)
  BY TimeFacts
<1>3. K \in Nat /\ u \in Nat /\ K >= u + Early(i) - 1 /\ m \in DOMAIN speech BY TimeFacts
<1>4. k = m \/ k < m
  <2>1. DOMAIN speech = 1..Len(speech) /\ Len(speech) \in Nat BY <1>1, SpeechFacts
  <2>2. k \in Nat /\ m \in Nat BY <1>2, <1>3, <2>1
  <2> QED BY <2>2
<1>5. b <= u
  <2>1. k < m => b <= speech[m].start /\ speech[m].start < u /\ speech[m].start \in Nat
    BY <1>1, <1>2, <1>3, SpeechFacts
  <2>2. k = m => b = u OBVIOUS
  <2> HIDE DEF b, u
  <2> QED BY <1>2, <1>3, <1>4, <2>1, <2>2
<1>6. /\ Early(i) \in Int /\ Late(j) \in Int /\ Late(j) - Early(i) <= z /\ z \in Nat
  BY <1>1, ShiftFacts
<1>7. /\ b - a > 2 + z
      /\ b - a > 2 * (2 + z) \/ (engine.shift > 0 /\ Len(windows) = 2)
      /\ engine.clipped /\ a < s /\ s < b => b - s > 2 * (2 + z)
  BY <1>2, LongFacts
<1>8. HeardTo(j, k) <= b BY <1>2
<1>9. ASSUME b - HeardFrom(j, k) > 2 * (2 + z) PROVE S + E < 2 * K
  <2> DEFINE f == HeardFrom(j, k)
             g == HeardTo(j, k)
             l == Late(j)
             h == Early(i)
  <2>1. f \in Nat /\ g \in Nat BY <1>2
  <2>2. S <= f + l + 1 /\ E <= g + l + 1 /\ S \in Nat /\ E \in Nat /\ b \in Nat BY <1>2
  <2>3. b - f > 2 * (2 + z) /\ g <= b BY <1>8, <1>9
  <2>4. K \in Nat /\ u \in Nat /\ K >= u + h - 1 BY <1>3
  <2>5. l \in Int /\ h \in Int /\ l - h <= z /\ z \in Nat BY <1>6
  <2> HIDE DEF S, E, K, b, u, z, f, g, l, h
  <2>6. S + E <= f + b + 2 * l + 2 BY <2>1, <2>2, <2>3, <2>5
  <2>7. S + E < 2 * b - 2 * z + 2 * l - 2 BY <2>1, <2>2, <2>3, <2>5, <2>6
  <2>8. 2 * K >= 2 * b - 2 * z + 2 * l - 2 BY <1>5, <2>2, <2>4, <2>5
  <2> QED BY <2>2, <2>4, <2>5, <2>7, <2>8
<1>10. CASE ~(a >= s)
  <2>1. ~Whole(j, k) BY <1>10 DEF Whole
  <2>2. engine.clipped BY <2>1 DEF Within
  <2>3. a < s BY <1>2, <1>10
  <2>4. b - s > 2 * (2 + z) BY <1>2, <1>7, <2>2, <2>3
  <2> QED BY <1>2, <1>9, <1>10, <2>4
<1>11. CASE a >= s /\ b - a > 2 * (2 + z) BY <1>2, <1>9, <1>11
<1>12. CASE a >= s /\ engine.shift > 0 /\ Len(windows) = 2
  <2>1. i = 1 /\ j = 2
    <3>1. i \in 1..2 /\ j \in 1..2 BY <1>12, PlannedChunk DEF Listened, Ready
    <3> QED BY <3>1
  <2>2. engine.shift \in Int BY <1>1, SpeechFacts
  <2>3. Shift(i) = 0 /\ Shift(j) = engine.shift /\ z = engine.shift
    <3>1. 1 % 2 # 0 /\ 2 % 2 = 0 OBVIOUS
    <3>2. Shift(1) = 0 /\ Shift(2) = engine.shift BY <3>1 DEF Shift
    <3>3. engine.shift >= -engine.shift BY <1>12, <2>2
    <3> QED BY <2>1, <3>2, <3>3 DEF Size, Greater
  <2>4. Early(i) = 0 /\ Late(j) = z /\ z > 0
    BY <1>12, <2>2, <2>3 DEF Late, Early, Greater, Lesser
  <2>5. HeardFrom(j, k) = a BY <1>2, <1>12
  <2>6. HeardTo(j, k) \in Nat BY <1>2
  <2>7. CASE k < m
    <3>1. b + 2 + z < u
      <4>1. b <= speech[m].start /\ speech[m].start \in Nat BY <1>1, <1>2, <1>3, <2>7, SpeechFacts
      <4>2. u - speech[m].start > 2 + z BY <1>3, LongFacts
      <4> DEFINE v == speech[m].start
      <4>3. b <= v /\ v \in Nat /\ u - v > 2 + z /\ b \in Nat /\ u \in Nat /\ z \in Nat
        BY <1>2, <1>3, <1>6, <4>1, <4>2
      <4> HIDE DEF b, u, z, v
      <4> QED BY <4>3
    <3> HIDE DEF S, E, K, a, b, u, z
    <3>2. S + E < 2 * K
      <4> DEFINE l == Late(j)
                 y == Early(i)
                 h == HeardFrom(j, k)
                 g == HeardTo(j, k)
      <4>1. /\ y = 0 /\ l = z /\ h = a /\ z \in Nat /\ g \in Nat /\ g <= b
            /\ S <= h + l + 1 /\ E <= g + l + 1 /\ K >= u + y - 1 /\ b - a > 2 + z
        BY <1>2, <1>3, <1>6, <1>7, <1>8, <2>4, <2>5, <2>6
      <4>2. /\ S \in Nat /\ E \in Nat /\ K \in Nat /\ a \in Nat /\ b \in Nat /\ u \in Nat
        BY <1>2, <1>3 DEF S, E, K, a, b, u
      <4> HIDE DEF l, y, h, g
      <4> QED BY <3>1, <4>1, <4>2
    <3> QED BY <3>2 DEF S, E, K
  <2>8. CASE k = m
    <3>1. Whole(j, k)
      <4>1. s <= a BY <1>2, <1>12
      <4> QED BY <4>1, WholeBeforeCut
    <3>2. S < K
      <4>1. b = u BY <2>8
      <4> DEFINE l == Late(j)
                 y == Early(i)
                 h == HeardFrom(j, k)
      <4>2. y = 0 /\ l = z /\ h = a /\ z \in Nat BY <1>6, <2>4, <2>5
      <4>3. S <= h + l + 1 /\ K >= u + y - 1 /\ b - a > 2 + z BY <1>2, <1>3, <1>7
      <4>4. /\ S \in Nat /\ K \in Nat /\ a \in Nat /\ b \in Nat /\ u \in Nat
        BY <1>2, <1>3
      <4> HIDE DEF S, E, K, a, b, u, z, l, y, h
      <4> QED BY <4>1, <4>2, <4>3, <4>4
    <3>3. Stamp(K) = K
      <4>1. chunks[1].start = 0 BY WholeFile DEF Listened, Ready, chunks
      <4> DEFINE x == Greater(HeardTo(i, m) - chunks[i].start + Shift(i), 0)
                 w == HeardWord(i, m).end
      <4>2. w = Stamp(x) /\ HeardTo(i, m) - chunks[i].start + Shift(i) \in Int /\ w \in Nat
        BY <1>1, StampedEnd
      <4>3. x \in Nat BY <4>2 DEF Greater
      <4>4. K = w + 0 BY <2>1, <4>1 DEF HeardEnd
      <4> HIDE DEF x, w, K
      <4>5. Stamp(Stamp(x)) = Stamp(x) BY <4>3, StampNear
      <4> QED BY <4>2, <4>4, <4>5
    <3> QED BY <2>8, <3>1, <3>2, <3>3
  <2> QED BY <1>4, <2>7, <2>8
<1> QED BY <1>7, <1>10, <1>11, <1>12

----------------------------------------------------------------------------
(* Which segment and which word comes next.                                *)

\* Where both times go up with the number, the first in time has the least number.
LEMMA EarliestLeast ==
  ASSUME NEW s, NEW S \in SUBSET Nat, S # {},
         \A i \in S : s[i].start \in Nat /\ s[i].end \in Nat,
         \A i, j \in S : i < j => s[i].start <= s[j].start /\ s[i].end <= s[j].end
  PROVE  Earliest(S, s) \in S /\ \A j \in S : Earliest(S, s) <= j
<1> DEFINE e == Earliest(S, s)
           First(i, j) == \/ s[i].start < s[j].start
                          \/ s[i].start = s[j].start /\ s[i].end < s[j].end
                          \/ s[i].start = s[j].start /\ s[i].end = s[j].end /\ i <= j
<1>1. e = CHOOSE i \in S : \A j \in S : First(i, j) BY DEF Earliest
<1>2. PICK m \in S : \A j \in S : m <= j BY Least
<1>3. ASSUME NEW j \in S PROVE First(m, j)
  <2>1. m <= j /\ m \in Nat /\ j \in Nat BY <1>2
  <2>2. m = j \/ m < j BY <2>1
  <2>3. s[m].start \in Nat /\ s[m].end \in Nat /\ s[j].start \in Nat /\ s[j].end \in Nat OBVIOUS
  <2>4. s[m].start <= s[j].start /\ s[m].end <= s[j].end
    <3>1. CASE m < j BY <3>1
    <3>2. CASE m = j
      <4> DEFINE a == s[j].start
                 b == s[j].end
      <4>1. a \in Nat /\ b \in Nat BY <2>3
      <4> HIDE DEF a, b
      <4>2. a <= a /\ b <= b BY <4>1
      <4> QED BY <3>2, <4>2 DEF a, b
    <3> QED BY <2>2, <3>1, <3>2
  <2> DEFINE a == s[m].start
             b == s[m].end
             x == s[j].start
             y == s[j].end
  <2>5. a <= x /\ b <= y /\ a \in Nat /\ b \in Nat /\ x \in Nat /\ y \in Nat BY <2>3, <2>4
  <2> HIDE DEF a, b, x, y
  <2>6. a < x \/ (a = x /\ b < y) \/ (a = x /\ b = y /\ m <= j) BY <2>1, <2>5
  <2> QED BY <2>6 DEF a, b, x, y
<1> HIDE DEF e, First
<1>4. \E i \in S : \A j \in S : First(i, j) BY <1>3
<1>5. e \in S /\ \A j \in S : First(e, j) BY <1>1, <1>4
<1>6. ASSUME m < e PROVE FALSE
  <2>1. s[m].start <= s[e].start /\ s[m].end <= s[e].end BY <1>5, <1>6
  <2>2. First(e, m) BY <1>5
  <2>3. s[m].start \in Nat /\ s[m].end \in Nat /\ s[e].start \in Nat /\ s[e].end \in Nat BY <1>5
  <2>4. ~(e <= m)
    <3>1. e \in Nat /\ m \in Nat BY <1>5
    <3> QED BY <1>6, <3>1
  <2>5. s[e].start < s[m].start \/ s[e].end < s[m].end BY <2>2, <2>4 DEF First
  <2> QED BY <2>1, <2>3, <2>5
<1>7. e = m
  <2>1. e \in Nat /\ m \in Nat /\ m <= e BY <1>2, <1>5
  <2> QED BY <1>6, <2>1
<1> QED BY <1>2, <1>5, <1>7 DEF e

\* What is heard of a chunk, segment by segment.
LEMMA SegmentsHeard ==
  ASSUME Listened, PlanAssumption, HearingAssumption, NEW i \in DOMAIN windows
  PROVE  /\ DOMAIN results[i] = Begins(i) /\ i \in DOMAIN results
         /\ \A b \in Begins(i) :
              /\ results[i][b].text = TextOf(HeardWords(i, b))
              /\ results[i][b].words = HeardWords(i, b)
              /\ LastOf(i, b) - b + 1 \in Nat \ {0}
              /\ Len(HeardWords(i, b)) = LastOf(i, b) - b + 1
              /\ DOMAIN HeardWords(i, b) = 1..LastOf(i, b) - b + 1
              /\ \A j \in 1..LastOf(i, b) - b + 1 : HeardWords(i, b)[j] = HeardWord(i, b + j - 1)
         /\ \A b \in Begins(i) : results[i][b].start \in Nat /\ results[i][b].end \in Nat
         /\ \A a, b \in Begins(i) : a < b => /\ results[i][a].start <= results[i][b].start
                                             /\ results[i][a].end <= results[i][b].end
<1>1. Ready /\ results[i] = Heard(i) BY DEF Listened
<1>2. DOMAIN results[i] = Begins(i) BY <1>1 DEF Heard
<1>3. i \in DOMAIN results
  <2>1. i \in 1..Len(windows) BY PlannedChunk DEF Listened, Ready
  <2> QED BY <2>1 DEF Listened
<1>4. ASSUME NEW b \in Begins(i)
      PROVE  /\ results[i][b].text = TextOf(HeardWords(i, b))
             /\ results[i][b].words = HeardWords(i, b)
  <2>1. /\ results[i][b].text = TextOf(HeardWords(i, b))
        /\ results[i][b].words = IF i \in engine.wordless THEN <<>> ELSE HeardWords(i, b)
    BY <1>1 DEF Heard
  <2>2. results[i][b].words # <<>> BY <1>2, <1>3 DEF Listened, Clear, Worded
  <2> QED BY <2>1, <2>2
<1>5. ASSUME NEW b \in Begins(i)
      PROVE  /\ LastOf(i, b) - b + 1 \in Nat \ {0}
             /\ Len(HeardWords(i, b)) = LastOf(i, b) - b + 1
             /\ DOMAIN HeardWords(i, b) = 1..LastOf(i, b) - b + 1
             /\ \A j \in 1..LastOf(i, b) - b + 1 : HeardWords(i, b)[j] = HeardWord(i, b + j - 1)
  <2> DEFINE n == LastOf(i, b) - b + 1
  <2>1. n \in Nat \ {0} BY <1>1, RunFacts
  <2>2. HeardWords(i, b) = [j \in 1..n |-> HeardWord(i, b + j - 1)] BY DEF HeardWords
  <2> HIDE DEF n
  <2>3. Len(HeardWords(i, b)) = n /\ DOMAIN HeardWords(i, b) = 1..n
        /\ \A j \in 1..n : HeardWords(i, b)[j] = HeardWord(i, b + j - 1)
    BY <2>1, <2>2
  <2> QED BY <2>1, <2>3 DEF n
<1> DEFINE pad == 3 * engine.pad
           From(b) == HeardWord(i, b).start
           To(b) == HeardWord(i, LastOf(i, b)).end
<1>6. \A b \in Begins(i) : /\ results[i][b].start = Greater(From(b) - pad, 0)
                           /\ results[i][b].end = To(b) + pad
  BY <1>1 DEF Heard
<1>7. pad \in Nat
  <2>1. engine.pad \in Nat BY <1>1, SpeechFacts
  <2> QED BY <2>1
<1>8. \A b \in Begins(i) : From(b) \in Nat /\ To(b) \in Nat
  BY <1>1, RunFacts, HeardWordFacts
<1>9. ASSUME NEW a \in Begins(i), NEW b \in Begins(i), a < b
      PROVE  From(a) <= From(b) /\ To(a) <= To(b)
  <2>1. /\ a \in Within(i) /\ b \in Within(i) /\ LastOf(i, a) \in Within(i)
        /\ LastOf(i, b) \in Within(i) /\ b <= LastOf(i, b)
        /\ a \in Nat /\ b \in Nat /\ LastOf(i, a) \in Nat /\ LastOf(i, b) \in Nat
    BY <1>1, RunFacts
  <2>2. LastOf(i, a) < b BY <1>1, <1>9, RunsApart
  <2>3. a <= b /\ LastOf(i, a) <= LastOf(i, b) BY <1>9, <2>1, <2>2
  <2> QED BY <1>1, <2>1, <2>3, HeardInOrder
<1> HIDE DEF pad, From, To
<1>10. \A b \in Begins(i) : results[i][b].start \in Nat /\ results[i][b].end \in Nat
  <2> SUFFICES ASSUME NEW b \in Begins(i)
               PROVE  results[i][b].start \in Nat /\ results[i][b].end \in Nat
    OBVIOUS
  <2>1. From(b) \in Nat /\ To(b) \in Nat BY <1>8
  <2>2. Greater(From(b) - pad, 0) \in Nat BY <1>7, <2>1 DEF Greater
  <2> QED BY <1>6, <1>7, <2>1, <2>2
<1>11. ASSUME NEW a \in Begins(i), NEW b \in Begins(i), a < b
       PROVE  /\ results[i][a].start <= results[i][b].start
              /\ results[i][a].end <= results[i][b].end
  <2> DEFINE x == From(a)
             y == From(b)
             u == To(a)
             v == To(b)
  <2>1. x \in Nat /\ y \in Nat /\ u \in Nat /\ v \in Nat /\ x <= y /\ u <= v
    BY <1>8, <1>9, <1>11
  <2> HIDE DEF x, y, u, v
  <2>2. Greater(x - pad, 0) <= Greater(y - pad, 0) /\ u + pad <= v + pad
    BY <1>7, <2>1 DEF Greater
  <2> QED BY <1>6, <2>2 DEF x, y, u, v
<1> HIDE DEF From, To
<1>12. /\ \A b \in Begins(i) :
            /\ results[i][b].text = TextOf(HeardWords(i, b))
            /\ results[i][b].words = HeardWords(i, b)
            /\ LastOf(i, b) - b + 1 \in Nat \ {0}
            /\ Len(HeardWords(i, b)) = LastOf(i, b) - b + 1
            /\ DOMAIN HeardWords(i, b) = 1..LastOf(i, b) - b + 1
            /\ \A j \in 1..LastOf(i, b) - b + 1 : HeardWords(i, b)[j] = HeardWord(i, b + j - 1)
  BY <1>4, <1>5
<1> QED BY <1>2, <1>3, <1>10, <1>11, <1>12

\* The next segment is the first of those still to come.
LEMMA NextSegment ==
  ASSUME Listened, PlanAssumption, HearingAssumption, c \in DOMAIN windows,
         todo \subseteq Begins(c), todo # {}
  PROVE  Earliest(todo, results[c]) \in todo /\ \A b \in todo : Earliest(todo, results[c]) <= b
<1>1. Begins(c) \subseteq Nat
  <2>1. Ready BY DEF Listened
  <2>2. Within(c) \subseteq 1..Len(speech) BY <2>1, WithinFacts
  <2> QED BY <2>2 DEF Begins
<1>2. todo \in SUBSET Nat BY <1>1
<1>3. /\ \A b \in todo : results[c][b].start \in Nat /\ results[c][b].end \in Nat
      /\ \A a, b \in todo : a < b => /\ results[c][a].start <= results[c][b].start
                                     /\ results[c][a].end <= results[c][b].end
  BY SegmentsHeard
<1> QED BY <1>2, <1>3, EarliestLeast

\* The word after p is the next one.
LEMMA NextWord ==
  ASSUME Listened, PlanAssumption, HearingAssumption, c \in DOMAIN windows, seg \in Begins(c),
         NEW p \in Nat, seg - 1 <= p,
         left = {j \in 1..LastOf(c, seg) - seg + 1 : seg + j - 1 > p}, left # {}
  PROVE  /\ p + 1 \in Within(c) /\ p + 1 <= LastOf(c, seg)
         /\ word = HeardWord(c, p + 1)
         /\ Start = HeardStart(c, p + 1) /\ End = HeardEnd(c, p + 1)
         /\ left \ {next} = {j \in 1..LastOf(c, seg) - seg + 1 : seg + j - 1 > p + 1}
<1> DEFINE l == LastOf(c, seg)
           ws == results[c][seg].words
           n == p - seg + 2
<1>1. Ready BY DEF Listened
<1>2. /\ seg \in Nat \ {0} /\ l \in Nat /\ seg <= l
      /\ \A k \in seg..l : k \in Within(c)
  BY <1>1, RunFacts
<1>3. ws = HeardWords(c, seg) /\ \A j \in 1..l - seg + 1 : ws[j] = HeardWord(c, seg + j - 1)
  BY SegmentsHeard
<1>4. next = Earliest(left, ws) /\ word = ws[next] BY DEF next, word
<1> HIDE DEF ws, l
<1>5. left \in SUBSET Nat /\ left \subseteq 1..l - seg + 1 BY <1>2 DEF l
<1>6. PICK j0 \in left : TRUE OBVIOUS
<1>7. j0 \in 1..l - seg + 1 /\ seg + j0 - 1 > p BY <1>6 DEF l
<1>8. p + 1 <= l /\ p + 1 \in seg..l /\ n \in 1..l - seg + 1 /\ seg + n - 1 = p + 1
      /\ n \in Nat
  <2>1. seg \in Nat /\ seg # 0 /\ l \in Nat /\ seg <= l /\ seg - 1 <= p BY <1>2
  <2>2. j0 \in Nat /\ j0 <= l - seg + 1 /\ seg + j0 - 1 > p BY <1>7, <2>1
  <2> HIDE DEF l
  <2>3. p + 1 <= l BY <2>1, <2>2
  <2>4. n \in Nat /\ 1 <= n /\ n <= l - seg + 1 /\ seg + n - 1 = p + 1 BY <2>1, <2>3
  <2>5. n \in 1..l - seg + 1 /\ p + 1 \in seg..l BY <2>1, <2>3, <2>4
  <2> QED BY <2>3, <2>4, <2>5
<1>9. n \in left BY <1>2, <1>8 DEF l
<1>10. \A j \in left : j \in 1..l - seg + 1 /\ n <= j
  <2> SUFFICES ASSUME NEW j \in left PROVE j \in 1..l - seg + 1 /\ n <= j OBVIOUS
  <2>1. j \in 1..l - seg + 1 /\ seg + j - 1 > p BY DEF l
  <2>2. j \in Nat /\ seg \in Nat /\ n = p - seg + 2 BY <1>2, <2>1
  <2> HIDE DEF n, l, ws
  <2>3. n <= j BY <2>1, <2>2
  <2> QED BY <2>1, <2>3
<1>11. \A j \in left : ws[j] = HeardWord(c, seg + j - 1) /\ seg + j - 1 \in Within(c)
                       /\ seg + j - 1 \in Nat
  <2> SUFFICES ASSUME NEW j \in left
               PROVE  ws[j] = HeardWord(c, seg + j - 1) /\ seg + j - 1 \in Within(c)
                      /\ seg + j - 1 \in Nat
    OBVIOUS
  <2>1. j \in 1..l - seg + 1 BY <1>10
  <2>2. seg \in Nat /\ l \in Nat BY <1>2
  <2>3. seg + j - 1 \in seg..l /\ seg + j - 1 \in Nat BY <2>1, <2>2
  <2>4. seg + j - 1 \in Within(c) BY <1>2, <2>3
  <2>5. ws[j] = HeardWord(c, seg + j - 1) BY <1>3, <2>1
  <2> QED BY <2>3, <2>4, <2>5
<1>12. \A j \in left : ws[j].start \in Nat /\ ws[j].end \in Nat
  BY <1>1, <1>11, HeardWordFacts
<1>13. ASSUME NEW i \in left, NEW j \in left, i < j
       PROVE  ws[i].start <= ws[j].start /\ ws[i].end <= ws[j].end
  <2>1. i \in Nat /\ j \in Nat BY <1>5
  <2>2. seg + i - 1 <= seg + j - 1 BY <1>2, <1>13, <2>1
  <2> QED BY <1>1, <1>11, <2>2, HeardInOrder
<1>14. next \in left /\ \A j \in left : next <= j
  <2>1. \A i, j \in left : i < j => ws[i].start <= ws[j].start /\ ws[i].end <= ws[j].end
    BY <1>13
  <2>2. left \in SUBSET Nat /\ left # {} BY <1>5
  <2>3. Earliest(left, ws) \in left /\ \A j \in left : Earliest(left, ws) <= j
    BY <1>12, <2>1, <2>2, EarliestLeast
  <2> QED BY <1>4, <2>3
<1>15. next = n
  <2>1. next <= n /\ n <= next /\ next \in Nat BY <1>5, <1>9, <1>10, <1>14
  <2> QED BY <1>8, <2>1
<1>16. word = HeardWord(c, p + 1) BY <1>3, <1>4, <1>8, <1>15
<1>17. Start = HeardStart(c, p + 1) /\ End = HeardEnd(c, p + 1)
  BY <1>16 DEF Start, End, HeardStart, HeardEnd
<1>18. left \ {next} = {j \in 1..l - seg + 1 : seg + j - 1 > p + 1}
  <2>1. ASSUME NEW j \in 1..l - seg + 1
        PROVE  j \in left /\ j # n <=> seg + j - 1 > p + 1
    <3>1. j \in left <=> seg + j - 1 > p BY DEF l
    <3>2. j \in Nat /\ n = p - seg + 2 BY <1>2
    <3> HIDE DEF n
    <3>3. seg + j - 1 > p /\ j # n <=> seg + j - 1 > p + 1 BY <1>2, <3>2
    <3> QED BY <3>1, <3>3
  <2> QED BY <1>5, <1>15, <2>1
<1> QED BY <1>2, <1>8, <1>16, <1>17, <1>18 DEF l

----------------------------------------------------------------------------
(* The inductive invariant: chunk i is merged, its segment that begins     *)
(* with word b or none (0); the words up to p have been looked at, and the *)
(* words up to m are kept.                                                 *)

Position(i, b, p) == i \in DOMAIN results =>
  /\ b = 0 => /\ todo = {x \in Begins(i) : x > p}
              /\ \A k \in Within(i) : k > p => \E x \in todo : x <= k
  /\ b # 0 => /\ b \in Begins(i) /\ b - 1 <= p /\ p <= LastOf(i, b)
              /\ left = {j \in 1..LastOf(i, b) - b + 1 : b + j - 1 > p}
              /\ todo = {x \in Begins(i) : x > b}

\* The last word kept is word m, as some chunk has it that had it whole: an earlier one if
\* this chunk has still to come to it.
Remembered(i, p, m) ==
  /\ m = 0 => lastWord = NoWord /\ keptUntil = NegInf
  /\ m > 0 => /\ lastWord # NoWord /\ lastWord.end = Stamp(keptUntil)
              /\ lastWord.sound = speech[m].sound
              /\ \E j \in DOMAIN windows : /\ j <= i /\ (p < m => j < i)
                                           /\ m \in Within(j) /\ Whole(j, m)
                                           /\ keptUntil = HeardEnd(j, m)
  /\ p < m => firstInChunk

\* The next word begins in this chunk.  Once a later one has been looked at, it lies beyond
\* the cut; behind the last chunk there is no next word.
Expected(i, p, m) ==
  IF i \in DOMAIN results
  THEN /\ m < Len(speech) => chunks[i].start <= speech[m + 1].start
       /\ p > m => m + 1 \in Within(i) /\ HeardBeyond(i, m + 1)
  ELSE m = Len(speech)

\* What is kept of the present segment: the words up to m, all of them if no cut is marked.
KeptWords(i, b, p, m) == b # 0 =>
  /\ Len(kept) <= m
  /\ \A j \in DOMAIN kept : kept[j].of = m - Len(kept) + j
  /\ \A k \in m - Len(kept) + 1..m : Whole(i, k)
  /\ kept # <<>> => p >= m /\ (~segTailCut => p = m)
  /\ ~headCut /\ ~segTailCut => Len(kept) = p - b + 1

\* The merged segments have the words before those, in their text as in their words.
Collected(b, m) ==
  LET q == IF b = 0 THEN m ELSE m - Len(kept)
  IN  /\ Transcript = [k \in 1..q |-> k] /\ WordList = [k \in 1..q |-> k]
      /\ \A j \in DOMAIN segments : segments[j].text = TextOf(segments[j].words)

KeepAt(i, b, p, m) ==
  /\ c = i /\ seg = b
  /\ Position(i, b, p) /\ Remembered(i, p, m) /\ Expected(i, p, m)
  /\ KeptWords(i, b, p, m) /\ Collected(b, m)

InPlace == \E i \in {c}, b \in {seg}, p, m \in 0..Len(speech) : KeepAt(i, b, p, m)

KeepInv == c # 0 /\ Clear /\ ~Repeats => InPlace

Keeping(i, b, p, m) == /\ Listened /\ ~Repeats /\ MergeTypeOK /\ PlanAssumption /\ HearingAssumption
                       /\ p \in 0..Len(speech) /\ m \in 0..Len(speech) /\ KeepAt(i, b, p, m)

\* What is heard does not change while plan, file and engine do not.
LEMMA SameHeard ==
  ASSUME UNCHANGED heard
  PROVE  /\ chunks' = chunks
         /\ \A i : Within(i)' = Within(i) /\ Begins(i)' = Begins(i)
         /\ \A i, k : /\ Whole(i, k)' <=> Whole(i, k)
                      /\ HeardStart(i, k)' = HeardStart(i, k) /\ HeardEnd(i, k)' = HeardEnd(i, k)
                      /\ HeardBeyond(i, k)' <=> HeardBeyond(i, k)
         /\ \A i, b : LastOf(i, b)' = LastOf(i, b) /\ HeardWords(i, b)' = HeardWords(i, b)
         /\ Clear' <=> Clear
         /\ Repeats' <=> Repeats
<1>0. UNCHANGED <<setting, windows, planned, speech, engine, results>> BY DEF heard
<1>1. chunks' = chunks BY <1>0 DEF chunks, split_into_chunks
<1>2. \A i, k : Whole(i, k)' <=> Whole(i, k) BY <1>0, <1>1 DEF Whole
<1>3. \A i : Within(i)' = Within(i) BY <1>0, <1>1, <1>2 DEF Within
<1>4. \A i : Begins(i)' = Begins(i) BY <1>0, <1>3 DEF Begins
<1>5. \A i, k : HeardWord(i, k)' = HeardWord(i, k) BY <1>0, <1>1, <1>2 DEF HeardWord, Shift
<1>6. \A i, b : LastOf(i, b)' = LastOf(i, b) BY <1>3, <1>4 DEF LastOf
<1>7. \A i, b : HeardWords(i, b)' = HeardWords(i, b) BY <1>5, <1>6 DEF HeardWords
<1>8. \A i, k : HeardStart(i, k)' = HeardStart(i, k) /\ HeardEnd(i, k)' = HeardEnd(i, k)
  BY <1>1, <1>5 DEF HeardStart, HeardEnd
<1>9. \A i, k : HeardBeyond(i, k)' <=> HeardBeyond(i, k) BY <1>0, <1>1, <1>8 DEF HeardBeyond
<1>10. Clear' <=> Clear
  <2>1. Worded' <=> Worded BY <1>0 DEF Worded
  <2>2. Timing' = Timing /\ \A i : Size(Shift(i))' = Size(Shift(i))
    BY <1>0 DEF Timing, Size, Shift
  <2> QED BY <1>0, <1>1, <2>1, <2>2 DEF Clear
<1>11. Repeats' <=> Repeats BY <1>0 DEF Repeats
<1> QED BY <1>1, <1>2, <1>3, <1>4, <1>6, <1>7, <1>8, <1>9, <1>10, <1>11

\* The new place.
LEMMA Arrived ==
  ASSUME NEW i, NEW b, NEW p \in 0..Len(speech), NEW m \in 0..Len(speech), speech' = speech,
         KeepAt(i, b, p, m)'
  PROVE  InPlace'
<1>1. c' = i /\ seg' = b BY DEF KeepAt
<1> QED BY <1>1 DEF InPlace

\* The chunks there are.
LEMMA ChunkNumbers ==
  ASSUME Listened
  PROVE  /\ DOMAIN results = DOMAIN windows /\ DOMAIN windows = 1..Len(windows)
         /\ Len(results) = Len(windows) /\ Len(windows) \in Nat
         /\ DOMAIN speech = 1..Len(speech) /\ Len(speech) \in Nat
<1>1. DOMAIN windows = 1..Len(windows) /\ Len(windows) \in Nat
  BY DEF Listened, Ready, PlanInv, PlanTypeOK
<1>2. results \in Seq(Listing) /\ Len(results) = Len(windows) BY DEF Listened
<1>3. DOMAIN results = 1..Len(results) BY <1>2
<1>4. DOMAIN speech = 1..Len(speech) /\ Len(speech) \in Nat
  BY HearingAssumption, SpeechFacts DEF Listened
<1> QED BY <1>1, <1>2, <1>3, <1>4

\* The next word, and how it lies to the cut and to what has been kept.
LEMMA TakenWord ==
  ASSUME NEW i, NEW b, NEW p, NEW m, Keeping(i, b, p, m), TakeWord
  PROVE  /\ i \in DOMAIN windows /\ i \in DOMAIN results /\ b \in Begins(i)
         /\ p + 1 \in Within(i) /\ p + 1 \in 1..Len(speech) /\ p + 1 <= LastOf(i, b)
         /\ word = HeardWord(i, p + 1)
         /\ Start = HeardStart(i, p + 1) /\ End = HeardEnd(i, p + 1)
         /\ BeyondCut(Start, End) <=> HeardBeyond(i, p + 1)
         /\ left \ {next} = {j \in 1..LastOf(i, b) - b + 1 : b + j - 1 > p + 1}
         /\ b # 0
<1>0. Listened /\ MergeTypeOK /\ KeepAt(i, b, p, m) /\ p \in 0..Len(speech)
      /\ PlanAssumption /\ HearingAssumption
  BY DEF Keeping
<1>1. c = i /\ seg = b /\ b # 0 /\ left # {} BY <1>0 DEF KeepAt, TakeWord
<1>2. i \in DOMAIN results /\ i \in DOMAIN windows
      /\ DOMAIN speech = 1..Len(speech) /\ Len(speech) \in Nat
  BY <1>0, <1>1, ChunkNumbers DEF MergeTypeOK
<1>3. /\ b \in Begins(i) /\ b - 1 <= p
      /\ left = {j \in 1..LastOf(i, b) - b + 1 : b + j - 1 > p}
  BY <1>0, <1>1, <1>2 DEF KeepAt, Position
<1>4. p \in Nat BY <1>0, <1>2
<1>5. /\ p + 1 \in Within(i) /\ p + 1 <= LastOf(i, b)
      /\ word = HeardWord(i, p + 1)
      /\ Start = HeardStart(i, p + 1) /\ End = HeardEnd(i, p + 1)
      /\ left \ {next} = {j \in 1..LastOf(i, b) - b + 1 : b + j - 1 > p + 1}
  BY <1>0, <1>1, <1>2, <1>3, <1>4, NextWord
<1>6. p + 1 \in 1..Len(speech) BY <1>2, <1>5 DEF Within
<1>7. BeyondCut(Start, End) <=> HeardBeyond(i, p + 1)
  BY <1>1, <1>5 DEF BeyondCut, HeardBeyond
<1> QED BY <1>1, <1>2, <1>3, <1>5, <1>6, <1>7

\* Once a word has been looked at behind the next one to be kept, all lie beyond the cut.
LEMMA WordBehind ==
  ASSUME NEW i, NEW b, NEW p, NEW m, Keeping(i, b, p, m), TakeWord, m < p
  PROVE  HeardBeyond(i, p + 1)
<1>1. /\ Listened /\ i \in DOMAIN windows /\ i \in DOMAIN results /\ p + 1 \in Within(i)
      /\ PlanAssumption /\ HearingAssumption
  BY TakenWord DEF Keeping
<1>2. m + 1 \in Within(i) /\ HeardBeyond(i, m + 1) BY <1>1 DEF Keeping, KeepAt, Expected
<1>3. m + 1 <= p + 1
  <2>1. p \in 0..Len(speech) /\ m \in 0..Len(speech) BY DEF Keeping
  <2> QED BY <1>1, <2>1, ChunkNumbers
<1> QED BY <1>1, <1>2, <1>3, BeyondOn

\* A word that is kept already is dropped, by its times or as the last one said again.
LEMMA WordAgain ==
  ASSUME NEW i, NEW b, NEW p, NEW m, Keeping(i, b, p, m), TakeWord, p < m,
         ~HeardBeyond(i, p + 1)
  PROVE  BeforeKept(Start, End) \/ (p + 1 = m /\ Twin)
<1>1. /\ Listened /\ i \in DOMAIN windows /\ p + 1 \in Within(i)
      /\ PlanAssumption /\ HearingAssumption
      /\ word = HeardWord(i, p + 1) /\ Start = HeardStart(i, p + 1) /\ End = HeardEnd(i, p + 1)
  BY TakenWord DEF Keeping
<1>2. p \in Nat /\ m \in Nat /\ m > 0 /\ p + 1 <= m
  <2>1. p \in 0..Len(speech) /\ m \in 0..Len(speech) BY DEF Keeping
  <2> QED BY <1>1, <2>1, ChunkNumbers
<1>3. Remembered(i, p, m) BY DEF Keeping, KeepAt
<1>4. PICK j \in DOMAIN windows : /\ j < i /\ m \in Within(j) /\ Whole(j, m)
                                  /\ keptUntil = HeardEnd(j, m)
  BY <1>2, <1>3 DEF Remembered
<1>5. \/ Start + End < 2 * keptUntil
      \/ /\ p + 1 = m /\ Whole(i, p + 1) /\ Start < keptUntil /\ Stamp(keptUntil) = keptUntil
  BY <1>1, <1>2, <1>4, AgainIsOld
<1>6. CASE Start + End < 2 * keptUntil BY <1>6 DEF BeforeKept
<1>7. CASE p + 1 = m /\ Whole(i, p + 1) /\ Start < keptUntil /\ Stamp(keptUntil) = keptUntil
  <2>1. firstInChunk /\ lastWord # NoWord /\ lastWord.end = Stamp(keptUntil)
        /\ lastWord.sound = speech[m].sound
    BY <1>2, <1>3 DEF Remembered
  <2>2. word.sound = speech[m].sound BY <1>1, <1>7 DEF HeardWord
  <2>3. Start < lastWord.end BY <1>7, <2>1
  <2> QED BY <1>7, <2>1, <2>2, <2>3 DEF Twin
<1> QED BY <1>5, <1>6, <1>7

\* The next word to be kept is kept, unless it is beyond the cut.
LEMMA WordNew ==
  ASSUME NEW i, NEW b, NEW p, NEW m, Keeping(i, b, p, m), TakeWord, p = m,
         ~HeardBeyond(i, p + 1)
  PROVE  Whole(i, p + 1) /\ ~BeforeKept(Start, End) /\ ~Twin /\ ~(Clamped >= End)
<1>1. /\ Listened /\ i \in DOMAIN windows /\ i \in DOMAIN results /\ p + 1 \in Within(i)
      /\ PlanAssumption /\ HearingAssumption /\ ~Repeats
      /\ word = HeardWord(i, p + 1) /\ Start = HeardStart(i, p + 1) /\ End = HeardEnd(i, p + 1)
      /\ p + 1 \in 1..Len(speech)
  BY TakenWord DEF Keeping
<1>2. DOMAIN speech = 1..Len(speech) /\ Len(speech) \in Nat /\ p \in Nat /\ m \in Nat
  <2>1. p \in 0..Len(speech) /\ m \in 0..Len(speech) BY DEF Keeping
  <2> QED BY <1>1, <2>1, ChunkNumbers
<1>3. Remembered(i, p, m) /\ Expected(i, p, m) BY DEF Keeping, KeepAt
<1>4. chunks[i].start <= speech[p + 1].start
  <2>1. m < Len(speech) BY <1>1, <1>2
  <2> QED BY <1>1, <1>3, <2>1 DEF Expected
<1>5. Whole(i, p + 1) BY <1>1, <1>4, WholeBeforeCut
<1>6. Start \in Nat /\ End \in Nat /\ Start < End BY <1>1, <1>5, HeardLong, TimeFacts
<1>7. CASE m = 0
  <2>1. lastWord = NoWord /\ keptUntil = -1 BY <1>3, <1>7 DEF Remembered, NegInf
  <2>2. ~BeforeKept(Start, End) /\ ~Twin BY <1>6, <2>1 DEF BeforeKept, Twin
  <2>3. Clamped = Start BY <1>6, <2>1 DEF Clamped, Greater
  <2> QED BY <1>5, <1>6, <2>2, <2>3
<1>8. CASE m # 0
  <2>1. PICK j \in DOMAIN windows : /\ j <= i /\ m \in Within(j) /\ Whole(j, m)
                                    /\ keptUntil = HeardEnd(j, m)
    BY <1>2, <1>3, <1>8 DEF Remembered
  <2>2. Start + End >= 2 * keptUntil /\ keptUntil < End /\ keptUntil \in Nat
    <3>1. m < p + 1 BY <1>2
    <3>2. HeardEnd(j, m) \in Nat BY <1>1, <2>1, TimeFacts
    <3> QED BY <1>1, <1>5, <2>1, <3>1, <3>2, NextIsNew
  <2>3. ~BeforeKept(Start, End) BY <1>6, <2>2 DEF BeforeKept
  <2>4. ~(Clamped >= End) BY <1>6, <2>2 DEF Clamped, Greater
  <2>5. ~Twin
    <3>1. lastWord.sound = speech[m].sound BY <1>2, <1>3, <1>8 DEF Remembered
    <3>2. word.sound = speech[p + 1].sound BY <1>1, <1>5 DEF HeardWord
    <3>3. p + 1 \in 2..Len(speech) /\ (p + 1) - 1 = m BY <1>1, <1>2, <1>8
    <3>4. speech[p + 1].sound # speech[m].sound BY <1>1, <3>3 DEF Repeats
    <3> QED BY <3>1, <3>2, <3>4 DEF Twin
  <2> QED BY <1>5, <2>3, <2>4, <2>5
<1> QED BY <1>7, <1>8

----------------------------------------------------------------------------
(* The steps.                                                              *)

\* The word that was taken has been looked at.
LEMMA PositionOn ==
  ASSUME NEW i, NEW b, NEW p, NEW m, Keeping(i, b, p, m), TakeWord, UNCHANGED heard, todo' = todo
  PROVE  Position(i, b, p + 1)'
<1>1. /\ i \in DOMAIN results /\ b # 0 /\ b \in Begins(i) /\ p + 1 <= LastOf(i, b)
      /\ left' = {j \in 1..LastOf(i, b) - b + 1 : b + j - 1 > p + 1}
  BY TakenWord DEF TakeWord
<1>2. b - 1 <= p /\ todo = {x \in Begins(i) : x > b}
  BY <1>1 DEF Keeping, KeepAt, Position
<1>3. b - 1 <= p + 1
  <2>1. p \in 0..Len(speech) /\ Listened /\ i \in DOMAIN windows
        /\ PlanAssumption /\ HearingAssumption
    BY TakenWord DEF Keeping
  <2>2. p \in Nat /\ b \in Nat BY <1>1, <2>1, ChunkNumbers, RunFacts DEF Listened
  <2> QED BY <1>2, <2>2
<1>4. LastOf(i, b)' = LastOf(i, b) /\ Begins(i)' = Begins(i) BY SameHeard
<1> QED BY <1>1, <1>2, <1>3, <1>4 DEF Position

\* A word is dropped: nothing is kept of the segment yet, or else it lies beyond the cut.
LEMMA WordDropped ==
  ASSUME NEW i, NEW b, NEW p, NEW m, Keeping(i, b, p, m), TakeWord, UNCHANGED heard,
         UNCHANGED <<c, seg, todo, kept, lastWord, keptUntil, segments>>,
         \/ p < m /\ headCut' /\ segTailCut' = segTailCut /\ (p + 1 < m => firstInChunk')
         \/ HeardBeyond(i, p + 1) /\ headCut' = headCut /\ segTailCut' /\ firstInChunk' = firstInChunk
  PROVE  InPlace'
<1>1. /\ Listened /\ i \in DOMAIN windows /\ i \in DOMAIN results /\ p + 1 \in Within(i)
      /\ p + 1 \in 1..Len(speech) /\ b # 0 /\ c = i /\ seg = b /\ m \in 0..Len(speech)
  BY TakenWord DEF Keeping, KeepAt
<1>2. DOMAIN speech = 1..Len(speech) /\ Len(speech) \in Nat /\ p \in Nat /\ m \in Nat
  <2>1. p \in 0..Len(speech) /\ m \in 0..Len(speech) BY DEF Keeping
  <2> QED BY <1>1, <2>1, ChunkNumbers
<1>3. UNCHANGED <<speech, results, windows, chunks>> BY SameHeard DEF heard
<1>4. Position(i, b, p + 1)' BY PositionOn
<1>5. Remembered(i, p, m) /\ Expected(i, p, m) /\ KeptWords(i, b, p, m) /\ Collected(b, m)
  BY DEF Keeping, KeepAt
<1>6. Remembered(i, p + 1, m)'
  <2>1. p + 1 < m => firstInChunk'
    <3>1. p + 1 < m => p < m BY <1>2
    <3> QED BY <1>5, <3>1 DEF Remembered
  <2>2. m > 0 => \E j \in DOMAIN windows : /\ j <= i /\ (p + 1 < m => j < i)
                                           /\ m \in Within(j) /\ Whole(j, m)
                                           /\ keptUntil = HeardEnd(j, m)
    <3>1. p + 1 < m => p < m BY <1>2
    <3> QED BY <1>5, <3>1 DEF Remembered
  <2>3. m > 0 => (\E j \in DOMAIN windows : /\ j <= i /\ (p + 1 < m => j < i)
                                            /\ m \in Within(j) /\ Whole(j, m)
                                            /\ keptUntil = HeardEnd(j, m))'
    BY <1>3, <2>2, SameHeard
  <2> QED BY <1>3, <1>5, <2>1, <2>3 DEF Remembered
<1>7. Expected(i, p + 1, m)'
  <2>1. p + 1 > m => m + 1 \in Within(i) /\ HeardBeyond(i, m + 1)
    <3>1. CASE p > m BY <1>1, <1>5, <3>1 DEF Expected
    <3>2. CASE p = m BY <1>1, <1>2, <3>2
    <3>3. CASE p < m BY <1>2, <3>3
    <3> QED BY <1>2, <3>1, <3>2, <3>3
  <2> QED BY <1>1, <1>3, <1>5, <2>1, SameHeard DEF Expected
<1>8. KeptWords(i, b, p + 1, m)'
  <2>1. CASE p < m /\ headCut'
    <3>1. kept = <<>> BY <1>1, <1>2, <1>5, <2>1 DEF KeptWords
    <3> QED BY <1>1, <1>2, <1>3, <1>5, <2>1, <3>1, SameHeard DEF KeptWords
  <2>2. CASE segTailCut'
    <3>1. kept # <<>> => p + 1 >= m BY <1>1, <1>2, <1>5 DEF KeptWords
    <3> QED BY <1>1, <1>2, <1>3, <1>5, <2>2, <3>1, SameHeard DEF KeptWords
  <2> QED BY <2>1, <2>2
<1>9. Collected(b, m)'
  BY <1>5 DEF Collected, Transcript, WordList
<1>10. KeepAt(i, b, p + 1, m)'
  BY <1>1, <1>4, <1>6, <1>7, <1>8, <1>9 DEF KeepAt
<1>11. p + 1 \in 0..Len(speech) BY <1>1, <1>2
<1> QED BY <1>1, <1>3, <1>10, <1>11, Arrived

\* Where the word stands to those that are kept.
LEMMA Whereabouts ==
  ASSUME NEW i, NEW b, NEW p, NEW m, Keeping(i, b, p, m)
  PROVE  /\ p \in Nat /\ m \in Nat /\ m <= Len(speech) /\ Len(speech) \in Nat
         /\ p < m \/ p = m \/ m < p
         /\ p < m /\ b # 0 => kept = <<>>
<1>1. p \in 0..Len(speech) /\ m \in 0..Len(speech) /\ Listened BY DEF Keeping
<1>2. p \in Nat /\ m \in Nat /\ m <= Len(speech) /\ Len(speech) \in Nat BY <1>1, ChunkNumbers
<1>3. KeptWords(i, b, p, m) BY DEF Keeping, KeepAt
<1>4. p < m /\ b # 0 => kept = <<>> BY <1>2, <1>3 DEF KeptWords
<1> QED BY <1>2, <1>4

\* A word past the cut is dropped: it will be heard again in the next chunk.
LEMMA BeyondCutKeeps ==
  ASSUME NEW i, NEW b, NEW p, NEW m, Keeping(i, b, p, m), WordBeyondCut
  PROVE  InPlace'
<1>1. /\ TakeWord /\ UNCHANGED heard
      /\ UNCHANGED <<c, seg, todo, kept, lastWord, keptUntil, segments>>
      /\ headCut' = headCut /\ segTailCut' /\ firstInChunk' = firstInChunk
      /\ BeyondCut(Start, End)
  BY DEF WordBeyondCut, TakeWord, acrossChunks
<1>2. HeardBeyond(i, p + 1) BY <1>1, TakenWord
<1> QED BY <1>1, <1>2, WordDropped

\* A word of the time already kept is dropped: it is kept already.
LEMMA KeptBeforeKeeps ==
  ASSUME NEW i, NEW b, NEW p, NEW m, Keeping(i, b, p, m), WordKeptBefore
  PROVE  InPlace'
<1>1. /\ TakeWord /\ UNCHANGED heard
      /\ UNCHANGED <<c, seg, todo, kept, lastWord, keptUntil, segments>>
      /\ headCut' = (headCut \/ kept = <<>>) /\ segTailCut' = segTailCut
      /\ firstInChunk' = firstInChunk
      /\ ~BeyondCut(Start, End) /\ BeforeKept(Start, End)
  BY DEF WordKeptBefore, TakeWord, acrossChunks
<1>2. ~HeardBeyond(i, p + 1) /\ b # 0 BY <1>1, TakenWord
<1>3. p < m BY <1>1, <1>2, Whereabouts, WordBehind, WordNew
<1>4. headCut'
  <2>1. kept = <<>> BY <1>2, <1>3, Whereabouts
  <2>2. headCut \/ kept = <<>> BY <2>1
  <2> QED BY <1>1, <2>2, Zenon
<1>5. p + 1 < m => firstInChunk'
  <2>1. p < m => firstInChunk BY DEF Keeping, KeepAt, Remembered
  <2> QED BY <1>1, <1>3, <2>1
<1> QED BY <1>1, <1>3, <1>4, <1>5, WordDropped

\* A word that sounds as the last one kept did is dropped: it is that word.
LEMMA HeardTwiceKeeps ==
  ASSUME NEW i, NEW b, NEW p, NEW m, Keeping(i, b, p, m), WordHeardTwice
  PROVE  InPlace'
<1>1. /\ TakeWord /\ UNCHANGED heard
      /\ UNCHANGED <<c, seg, todo, kept, lastWord, keptUntil, segments>>
      /\ headCut' = (headCut \/ kept = <<>>) /\ segTailCut' = segTailCut
      /\ ~BeyondCut(Start, End) /\ ~BeforeKept(Start, End) /\ Twin
  BY DEF WordHeardTwice, HeadMarked, TakeWord, acrossChunks
<1>2. ~HeardBeyond(i, p + 1) /\ b # 0 BY <1>1, TakenWord
<1>3. p < m BY <1>1, <1>2, Whereabouts, WordBehind, WordNew
<1>4. headCut'
  <2>1. kept = <<>> BY <1>2, <1>3, Whereabouts
  <2>2. headCut \/ kept = <<>> BY <2>1
  <2> QED BY <1>1, <2>2, Zenon
<1>5. p + 1 = m BY <1>1, <1>2, <1>3, WordAgain
<1>6. ~(p + 1 < m) BY <1>5, Whereabouts
<1> QED BY <1>1, <1>3, <1>4, <1>6, WordDropped

\* A word that is kept is the next one, heard as a whole.
LEMMA KeptKeeps ==
  ASSUME NEW i, NEW b, NEW p, NEW m, Keeping(i, b, p, m), WordKept
  PROVE  InPlace'
<1>1. /\ TakeWord /\ UNCHANGED heard
      /\ UNCHANGED <<c, seg, todo, headCut, segTailCut, segments>>
      /\ ~BeyondCut(Start, End) /\ ~BeforeKept(Start, End) /\ ~Twin
  BY DEF WordKept, TakeWord
<1>2. /\ Listened /\ i \in DOMAIN windows /\ i \in DOMAIN results /\ p + 1 \in Within(i)
      /\ p + 1 \in 1..Len(speech) /\ b # 0 /\ c = i /\ seg = b /\ m \in 0..Len(speech)
      /\ PlanAssumption /\ HearingAssumption /\ ~HeardBeyond(i, p + 1)
      /\ word = HeardWord(i, p + 1) /\ End = HeardEnd(i, p + 1)
  BY <1>1, TakenWord DEF Keeping, KeepAt
<1>3. p = m BY <1>1, <1>2, Whereabouts, WordBehind, WordAgain
<1>4. p \in Nat /\ m \in Nat /\ DOMAIN speech = 1..Len(speech) /\ Len(speech) \in Nat
  BY <1>2, Whereabouts, ChunkNumbers
<1>5. Whole(i, p + 1) /\ ~(Clamped >= End) BY <1>1, <1>2, <1>3, WordNew
<1>6. /\ lastWord' = [word EXCEPT !.start = Stamp(Clamped), !.end = Stamp(End)]
      /\ kept' = Append(kept, lastWord') /\ keptUntil' = End
  BY <1>5 DEF WordKept
<1>7. word.of = m + 1 /\ word.sound = speech[m + 1].sound /\ word \in HeardAs
  <2>1. Ready BY <1>2 DEF Listened
  <2>2. word \in HeardAs BY <1>2, <2>1, HeardWordFacts
  <2> QED BY <1>2, <1>3, <1>5, <2>2 DEF HeardWord
<1>8. /\ lastWord'.end = Stamp(keptUntil') /\ lastWord'.of = m + 1
      /\ lastWord'.sound = speech[m + 1].sound
  <2> DEFINE x == Stamp(Clamped)
             y == Stamp(End)
  <2>1. lastWord' = [word EXCEPT !.start = x, !.end = y] BY <1>6
  <2> HIDE DEF x, y
  <2>2. lastWord'.end = y /\ lastWord'.of = word.of /\ lastWord'.sound = word.sound
    BY <1>7, <2>1 DEF HeardAs
  <2> QED BY <1>6, <1>7, <2>2 DEF y
<1>9. lastWord' # NoWord
  <2>1. NoWord.of = 0 BY DEF NoWord
  <2>2. m + 1 # 0 BY <1>4
  <2> QED BY <1>8, <2>1, <2>2
<1>10. UNCHANGED <<speech, results, windows, chunks>> BY <1>1, SameHeard DEF heard
<1>11. Position(i, b, p + 1)' BY <1>1, PositionOn
<1>12. Remembered(i, p, m) /\ Expected(i, p, m) /\ KeptWords(i, b, p, m) /\ Collected(b, m)
  BY DEF Keeping, KeepAt
<1>13. Remembered(i, p + 1, m + 1)'
  <2>1. m + 1 # 0 /\ ~(p + 1 < m + 1) /\ i <= i
    <3>1. i \in Nat BY <1>2, ChunkNumbers
    <3> QED BY <1>3, <1>4, <3>1
  <2>2. keptUntil' = HeardEnd(i, m + 1) /\ m + 1 \in Within(i) /\ Whole(i, m + 1)
    BY <1>2, <1>3, <1>5, <1>6
  <2>3. (\E j \in DOMAIN windows : /\ j <= i /\ (p + 1 < m + 1 => j < i)
                                   /\ m + 1 \in Within(j) /\ Whole(j, m + 1)
                                   /\ keptUntil = HeardEnd(j, m + 1))'
    BY <1>1, <1>2, <1>10, <2>1, <2>2, SameHeard
  <2> QED BY <1>8, <1>9, <1>10, <2>1, <2>3 DEF Remembered
<1>14. Expected(i, p + 1, m + 1)'
  <2>1. m + 1 < Len(speech) => chunks[i].start <= speech[(m + 1) + 1].start
    <3> SUFFICES ASSUME m + 1 < Len(speech)
                 PROVE  chunks[i].start <= speech[(m + 1) + 1].start
      OBVIOUS
    <3>1. m + 1 \in DOMAIN speech /\ (m + 1) + 1 \in DOMAIN speech /\ m + 1 < (m + 1) + 1
      BY <1>4
    <3>2. /\ speech[m + 1].end <= speech[(m + 1) + 1].start
          /\ speech[m + 1].start < speech[m + 1].end
          /\ speech[m + 1].start \in Nat /\ speech[m + 1].end \in Nat
          /\ speech[(m + 1) + 1].start \in Nat
      BY <1>2, <3>1, SpeechFacts DEF Listened
    <3>3. chunks[i].start <= speech[m + 1].start BY <1>3, <1>5 DEF Whole
    <3>4. chunks[i].start \in Nat BY <1>2, TimeFacts
    <3> QED BY <3>2, <3>3, <3>4
  <2>2. ~(p + 1 > m + 1) BY <1>3, <1>4
  <2> QED BY <1>2, <1>10, <2>1, <2>2 DEF Expected
<1>15. kept \in Seq(HeardAs) BY DEF Keeping, MergeTypeOK
<1>16. /\ Len(kept') = Len(kept) + 1 /\ Len(kept) \in Nat
       /\ DOMAIN kept' = 1..Len(kept) + 1 /\ kept'[Len(kept) + 1] = lastWord'
       /\ \A j \in 1..Len(kept) : kept'[j] = kept[j] /\ j \in DOMAIN kept
  BY <1>6, <1>15
<1>17. KeptWords(i, b, p + 1, m + 1)'
  <2>1. /\ Len(kept) <= m /\ \A j \in DOMAIN kept : kept[j].of = m - Len(kept) + j
        /\ \A k \in m - Len(kept) + 1..m : Whole(i, k)
        /\ ~headCut /\ ~segTailCut => Len(kept) = p - b + 1
    BY <1>2, <1>12 DEF KeptWords
  <2> DEFINE n == Len(kept)
  <2>2. n \in Nat /\ Len(kept') = n + 1 BY <1>16
  <2>3. n + 1 <= m + 1 BY <1>4, <2>1, <2>2
  <2>4. ASSUME NEW j \in DOMAIN kept' PROVE kept'[j].of = (m + 1) - (n + 1) + j
    <3>1. j \in 1..n \/ j = n + 1 BY <1>16
    <3>2. CASE j \in 1..n
      <4>1. kept'[j].of = m - n + j BY <1>16, <2>1, <3>2
      <4> QED BY <1>4, <2>2, <3>2, <4>1
    <3>3. CASE j = n + 1
      <4>1. kept'[j].of = m + 1 BY <1>8, <1>16, <3>3
      <4> QED BY <1>4, <2>2, <3>3, <4>1
    <3> QED BY <3>1, <3>2, <3>3
  <2>5. ASSUME NEW k \in (m + 1) - (n + 1) + 1..m + 1 PROVE Whole(i, k)
    <3>1. k \in m - n + 1..m \/ k = m + 1 BY <1>4, <2>2
    <3> QED BY <1>3, <1>5, <2>1, <3>1
  <2>6. p + 1 >= m + 1 /\ p + 1 = m + 1 BY <1>3, <1>4
  <2>7. ~headCut /\ ~segTailCut => n + 1 = (p + 1) - b + 1
    <3>1. b \in Nat
      <4>1. Ready /\ b \in Begins(i) BY <1>1, <1>2, TakenWord DEF Listened
      <4> QED BY <1>2, <4>1, RunFacts
    <3>2. ~headCut /\ ~segTailCut => n = p - b + 1 BY <2>1
    <3> HIDE DEF n
    <3> QED BY <1>4, <2>2, <3>1, <3>2
  <2>8. \A k : Whole(i, k)' <=> Whole(i, k) BY <1>1, SameHeard
  <2> HIDE DEF n
  <2> QED BY <1>1, <1>2, <2>2, <2>3, <2>4, <2>5, <2>6, <2>7, <2>8 DEF KeptWords
<1>18. Collected(b, m + 1)'
  <2>1. (m + 1) - Len(kept') = m - Len(kept) BY <1>4, <1>16
  <2>2. Transcript' = Transcript /\ WordList' = WordList
    BY <1>1 DEF Transcript, WordList
  <2> QED BY <1>1, <1>2, <1>12, <2>1, <2>2 DEF Collected
<1>19. KeepAt(i, b, p + 1, m + 1)'
  BY <1>1, <1>2, <1>11, <1>13, <1>14, <1>17, <1>18 DEF KeepAt
<1>20. p + 1 \in 0..Len(speech) /\ m + 1 \in 0..Len(speech) BY <1>2, <1>3, <1>4
<1> QED BY <1>10, <1>19, <1>20, Arrived

----------------------------------------------------------------------------
(* The text as segments are merged.                                        *)

TextsOf(segs) == [j \in DOMAIN segs |-> segs[j].text]
WordsOf(segs) == [j \in DOMAIN segs |-> TextOf(segs[j].words)]

\* Texts and words of merged segments are sequences of words.
LEMMA TextsTyped ==
  ASSUME NEW segs \in Seq(HeardSegment)
  PROVE  /\ TextsOf(segs) \in Seq(Seq(Nat)) /\ WordsOf(segs) \in Seq(Seq(Nat))
         /\ Len(TextsOf(segs)) = Len(segs) /\ Len(WordsOf(segs)) = Len(segs)
<1> DEFINE n == Len(segs)
<1>1. n \in Nat /\ DOMAIN segs = 1..n OBVIOUS
<1>2. \A j \in 1..n : segs[j].text \in Seq(Nat) /\ TextOf(segs[j].words) \in Seq(Nat)
  BY <1>1, MergedFacts, TextType
<1>3. TextsOf(segs) = [j \in 1..n |-> segs[j].text]
      /\ WordsOf(segs) = [j \in 1..n |-> TextOf(segs[j].words)]
  BY <1>1 DEF TextsOf, WordsOf
<1> HIDE DEF n
<1>4. TextsOf(segs) \in [1..n -> Seq(Nat)] /\ WordsOf(segs) \in [1..n -> Seq(Nat)]
  BY <1>2, <1>3
<1>5. TextsOf(segs) \in Seq(Seq(Nat)) /\ WordsOf(segs) \in Seq(Seq(Nat)) BY <1>1, <1>4, SeqDef
<1>6. Len(TextsOf(segs)) = n /\ Len(WordsOf(segs)) = n BY <1>1, <1>3
<1> QED BY <1>5, <1>6 DEF n

\* A new segment brings its text and its words.
LEMMA TextAppended ==
  ASSUME NEW segs \in Seq(HeardSegment), NEW s \in HeardSegment
  PROVE  /\ FlattenSeq(TextsOf(Append(segs, s))) = FlattenSeq(TextsOf(segs)) \o s.text
         /\ FlattenSeq(WordsOf(Append(segs, s))) = FlattenSeq(WordsOf(segs)) \o TextOf(s.words)
<1> DEFINE n == Len(segs)
           all == Append(segs, s)
<1>1. n \in Nat /\ all \in Seq(HeardSegment) /\ DOMAIN all = 1..n + 1 /\ DOMAIN segs = 1..n
      /\ all[n + 1] = s /\ \A j \in 1..n : all[j] = segs[j]
  OBVIOUS
<1>2. s.text \in Seq(Nat) /\ TextOf(s.words) \in Seq(Nat) BY TextType DEF HeardSegment
<1>3. TextsOf(segs) \in Seq(Seq(Nat)) /\ WordsOf(segs) \in Seq(Seq(Nat))
      /\ Len(TextsOf(segs)) = n /\ Len(WordsOf(segs)) = n
  BY TextsTyped
<1> HIDE DEF all, n
<1>4. TextsOf(all) = Append(TextsOf(segs), s.text)
  <2> DEFINE x == TextsOf(segs)
             y == TextsOf(all)
             z == Append(x, s.text)
  <2>1. z \in Seq(Seq(Nat)) /\ Len(z) = n + 1 /\ z[n + 1] = s.text /\ \A j \in 1..n : z[j] = x[j]
    BY <1>2, <1>3, AppendProperties
  <2>2. \A j \in 1..n : y[j] = x[j] BY <1>1 DEF TextsOf
  <2>3. y[n + 1] = s.text BY <1>1 DEF TextsOf
  <2>4. y \in Seq(Seq(Nat)) /\ Len(y) = n + 1
    <3>1. Len(all) = n + 1 /\ all \in Seq(HeardSegment) BY <1>1
    <3> HIDE DEF x, z
    <3> QED BY <3>1, TextsTyped
  <2> HIDE DEF x, y, z
  <2>5. \A j \in 1..n + 1 : y[j] = z[j]
    <3> SUFFICES ASSUME NEW j \in 1..n + 1 PROVE y[j] = z[j] OBVIOUS
    <3>1. n \in Nat BY <1>1
    <3>2. j \in 1..n \/ j = n + 1 BY <3>1
    <3>3. CASE j \in 1..n BY <2>1, <2>2, <3>3
    <3>4. CASE j = n + 1 BY <2>1, <2>3, <3>4
    <3> QED BY <3>2, <3>3, <3>4
  <2>6. y = z BY <2>1, <2>4, <2>5, SeqEqual
  <2> QED BY <2>6 DEF x, y, z
<1>5. WordsOf(all) = Append(WordsOf(segs), TextOf(s.words))
  <2> DEFINE x == WordsOf(segs)
             y == WordsOf(all)
             t == TextOf(s.words)
             z == Append(x, t)
  <2>1. z \in Seq(Seq(Nat)) /\ Len(z) = n + 1 /\ z[n + 1] = t /\ \A j \in 1..n : z[j] = x[j]
    <3>1. t \in Seq(Nat) /\ x \in Seq(Seq(Nat)) /\ Len(x) = n BY <1>2, <1>3
    <3> HIDE DEF t, x
    <3> QED BY <3>1, AppendProperties
  <2>2. \A j \in 1..n : y[j] = x[j] BY <1>1 DEF WordsOf
  <2>3. y[n + 1] = t BY <1>1 DEF WordsOf
  <2>4. y \in Seq(Seq(Nat)) /\ Len(y) = n + 1
    <3>1. Len(all) = n + 1 /\ all \in Seq(HeardSegment) BY <1>1
    <3> HIDE DEF x, z
    <3> QED BY <3>1, TextsTyped
  <2> HIDE DEF x, y, z, t
  <2>5. \A j \in 1..n + 1 : y[j] = z[j]
    <3> SUFFICES ASSUME NEW j \in 1..n + 1 PROVE y[j] = z[j] OBVIOUS
    <3>1. n \in Nat BY <1>1
    <3>2. j \in 1..n \/ j = n + 1 BY <3>1
    <3>3. CASE j \in 1..n BY <2>1, <2>2, <3>3
    <3>4. CASE j = n + 1 BY <2>1, <2>3, <3>4
    <3> QED BY <3>2, <3>3, <3>4
  <2>6. y = z BY <2>1, <2>4, <2>5, SeqEqual
  <2> QED BY <2>6 DEF x, y, z, t
<1> QED BY <1>2, <1>3, <1>4, <1>5, FlattenAppend DEF all

\* The text of words that go on.
LEMMA TextConcat ==
  ASSUME NEW u \in Seq(HeardAs), NEW v \in Seq(HeardAs)
  PROVE  TextOf(u \o v) = TextOf(u) \o TextOf(v)
<1> DEFINE w == u \o v
           a == Len(u)
           b == Len(v)
<1>1. w \in Seq(HeardAs) /\ Len(w) = a + b /\ a \in Nat /\ b \in Nat
      /\ DOMAIN w = 1..a + b /\ DOMAIN u = 1..a /\ DOMAIN v = 1..b
      /\ \A i \in 1..a + b : w[i] = IF i <= a THEN u[i] ELSE v[i - a]
  BY ConcatProperties
<1> HIDE DEF w, a, b
<1> DEFINE x == TextOf(u)
           y == TextOf(v)
           z == TextOf(w)
<1>2. /\ x = [i \in 1..a |-> u[i].of] /\ y = [i \in 1..b |-> v[i].of]
      /\ z = [i \in 1..a + b |-> w[i].of]
  BY <1>1 DEF TextOf
<1>3. x \in Seq(Nat) /\ y \in Seq(Nat) /\ z \in Seq(Nat) BY <1>1, TextType
<1> HIDE DEF x, y, z
<1>4. Len(x) = a /\ Len(y) = b /\ Len(z) = a + b BY <1>1, <1>2
<1>5. /\ x \o y \in Seq(Nat) /\ Len(x \o y) = a + b
      /\ \A i \in 1..a : (x \o y)[i] = x[i]
      /\ \A i \in 1..b : (x \o y)[a + i] = y[i]
  BY <1>3, <1>4, TwoTexts
<1>6. ASSUME NEW i \in 1..a + b PROVE z[i] = (x \o y)[i]
  <2>1. i \in 1..a \/ (i - a \in 1..b /\ i = a + (i - a)) BY <1>1
  <2>2. CASE i \in 1..a
    <3>1. z[i] = u[i].of /\ x[i] = u[i].of BY <1>1, <1>2, <2>2
    <3> QED BY <1>5, <2>2, <3>1
  <2>3. CASE i - a \in 1..b /\ i = a + (i - a)
    <3>1. ~(i <= a) BY <1>1, <2>3
    <3>2. z[i] = v[i - a].of /\ y[i - a] = v[i - a].of BY <1>1, <1>2, <2>3, <3>1
    <3>3. (x \o y)[a + (i - a)] = y[i - a] BY <1>5, <2>3
    <3> QED BY <2>3, <3>2, <3>3
  <2> QED BY <2>1, <2>2, <2>3
<1> DEFINE r == x \o y
<1>7. r \in Seq(Nat) /\ Len(z) = Len(r) /\ \A i \in 1..Len(z) : z[i] = r[i]
  BY <1>4, <1>5, <1>6
<1> HIDE DEF r
<1>8. z = r BY <1>3, <1>7, SeqEqual
<1> QED BY <1>8 DEF x, y, z, w, r

\* The last merged segment has a text and words.
LEMMA LastMerged ==
  ASSUME NEW segs \in Seq(HeardSegment), segs # <<>>
  PROVE  /\ segs[Len(segs)].words \in Seq(HeardAs) /\ segs[Len(segs)].text \in Seq(Nat)
<1>1. Len(segs) \in DOMAIN segs OBVIOUS
<1> QED BY <1>1, MergedFacts

\* A segment that goes on brings the words that are new.
LEMMA TextJoined ==
  ASSUME NEW segs \in Seq(HeardSegment), segs # <<>>, NEW s, NEW new \in Seq(HeardAs),
         s.words = segs[Len(segs)].words \o new,
         s.text = TextOf(s.words), segs[Len(segs)].text = TextOf(segs[Len(segs)].words)
  PROVE  LET all == [segs EXCEPT ![Len(segs)] = s] IN
         /\ FlattenSeq(TextsOf(all)) = FlattenSeq(TextsOf(segs)) \o TextOf(new)
         /\ FlattenSeq(WordsOf(all)) = FlattenSeq(WordsOf(segs)) \o TextOf(new)
<1> DEFINE n == Len(segs)
           all == [segs EXCEPT ![n] = s]
           t == TextOf(new)
           prev == segs[n]
<1>1. n \in Nat \ {0} /\ DOMAIN segs = 1..n /\ n \in DOMAIN segs /\ DOMAIN all = 1..n
      /\ all[n] = s /\ \A j \in 1..n : j # n => all[j] = segs[j]
  OBVIOUS
<1>2. prev.words \in Seq(HeardAs) /\ prev.text \in Seq(Nat) BY LastMerged
<1>3. TextOf(s.words) = TextOf(prev.words) \o t
  <2>1. s.words = prev.words \o new OBVIOUS
  <2> HIDE DEF prev, n
  <2> QED BY <1>2, <2>1, TextConcat DEF t
<1>4. t \in Seq(Nat) BY TextType
<1>5. TextsOf(segs) \in Seq(Seq(Nat)) /\ WordsOf(segs) \in Seq(Seq(Nat))
      /\ Len(TextsOf(segs)) = n /\ Len(WordsOf(segs)) = n
  BY TextsTyped
<1> HIDE DEF all, n, t
<1>6. TextsOf(all) = [TextsOf(segs) EXCEPT ![n] = TextsOf(segs)[n] \o t]
  <2> DEFINE x == TextsOf(segs)
             y == TextsOf(all)
             v == x[n] \o t
  <2>1. x = [j \in 1..n |-> segs[j].text] /\ y = [j \in 1..n |-> all[j].text]
    BY <1>1 DEF TextsOf
  <2>2. \A j \in 1..n : x[j] = segs[j].text /\ y[j] = all[j].text BY <2>1
  <2>3. y[n] = v
    <3>1. y[n] = s.text /\ x[n] = prev.text BY <1>1, <2>2
    <3>2. s.text = prev.text \o t BY <1>3 DEF n
    <3> QED BY <3>1, <3>2
  <2>4. \A j \in 1..n : j # n => y[j] = x[j] BY <1>1, <2>2
  <2>5. x = [j \in 1..n |-> x[j]] /\ y = [j \in 1..n |-> y[j]] BY <2>1
  <2> HIDE DEF x, y, v
  <2>6. y = [x EXCEPT ![n] = v] BY <1>1, <2>3, <2>4, <2>5
  <2> QED BY <2>6 DEF x, y, v
<1>7. WordsOf(all) = [WordsOf(segs) EXCEPT ![n] = WordsOf(segs)[n] \o t]
  <2> DEFINE x == WordsOf(segs)
             y == WordsOf(all)
             v == x[n] \o t
  <2>1. x = [j \in 1..n |-> TextOf(segs[j].words)] /\ y = [j \in 1..n |-> TextOf(all[j].words)]
    BY <1>1 DEF WordsOf
  <2>2. \A j \in 1..n : x[j] = TextOf(segs[j].words) /\ y[j] = TextOf(all[j].words) BY <2>1
  <2>3. y[n] = v
    <3>1. y[n] = TextOf(s.words) /\ x[n] = TextOf(prev.words) BY <1>1, <2>2
    <3>2. TextOf(s.words) = TextOf(prev.words) \o t BY <1>3 DEF n
    <3> QED BY <3>1, <3>2
  <2>4. \A j \in 1..n : j # n => y[j] = x[j] BY <1>1, <2>2
  <2>5. x = [j \in 1..n |-> x[j]] /\ y = [j \in 1..n |-> y[j]] BY <2>1
  <2> HIDE DEF x, y, v
  <2>6. y = [x EXCEPT ![n] = v] BY <1>1, <2>3, <2>4, <2>5
  <2> QED BY <2>6 DEF x, y, v
<1>8. TextsOf(segs) # <<>> /\ WordsOf(segs) # <<>> BY <1>1, <1>5
<1>9. FlattenSeq(TextsOf(all)) = FlattenSeq(TextsOf(segs)) \o t
  <2> DEFINE x == TextsOf(segs)
  <2>1. x \in Seq(Seq(Nat)) /\ x # <<>> /\ Len(x) = n BY <1>5, <1>8
  <2>2. TextsOf(all) = [x EXCEPT ![Len(x)] = x[Len(x)] \o t] BY <1>6, <2>1
  <2> HIDE DEF x
  <2>3. FlattenSeq([x EXCEPT ![Len(x)] = x[Len(x)] \o t]) = FlattenSeq(x) \o t
    BY <1>4, <2>1, FlattenJoin
  <2>4. FlattenSeq(TextsOf(all)) = FlattenSeq(x) \o t BY <2>2, <2>3, Zenon
  <2> QED BY <2>4 DEF x
<1>10. FlattenSeq(WordsOf(all)) = FlattenSeq(WordsOf(segs)) \o t
  <2> DEFINE x == WordsOf(segs)
  <2>1. x \in Seq(Seq(Nat)) /\ x # <<>> /\ Len(x) = n BY <1>5, <1>8
  <2>2. WordsOf(all) = [x EXCEPT ![Len(x)] = x[Len(x)] \o t] BY <1>7, <2>1
  <2> HIDE DEF x
  <2>3. FlattenSeq([x EXCEPT ![Len(x)] = x[Len(x)] \o t]) = FlattenSeq(x) \o t
    BY <1>4, <2>1, FlattenJoin
  <2>4. FlattenSeq(WordsOf(all)) = FlattenSeq(x) \o t BY <2>2, <2>3, Zenon
  <2> QED BY <2>4 DEF x
<1> QED BY <1>9, <1>10 DEF all, n, t

\* The words up to q, and n more.
LEMMA WordsGoOn ==
  ASSUME NEW q \in Nat, NEW n \in Nat
  PROVE  [k \in 1..q |-> k] \o [j \in 1..n |-> q + j] = [k \in 1..q + n |-> k]
<1> DEFINE x == [k \in 1..q |-> k]
           y == [j \in 1..n |-> q + j]
           z == [k \in 1..q + n |-> k]
<1>1. x \in Seq(Nat) /\ y \in Seq(Nat) /\ z \in Seq(Nat)
      /\ Len(x) = q /\ Len(y) = n /\ Len(z) = q + n
      /\ (\A i \in 1..q : x[i] = i) /\ (\A i \in 1..n : y[i] = q + i)
      /\ \A i \in 1..q + n : z[i] = i
  OBVIOUS
<1> HIDE DEF x, y, z
<1> DEFINE r == x \o y
<1>2. /\ r \in Seq(Nat) /\ Len(r) = q + n
      /\ \A i \in 1..q : r[i] = x[i]
      /\ \A i \in 1..n : r[q + i] = y[i]
  <2>1. r \in Seq(Nat) /\ Len(r) = Len(x) + Len(y)
        /\ (\A i \in 1..Len(x) : r[i] = x[i]) /\ \A i \in 1..Len(y) : r[Len(x) + i] = y[i]
    BY <1>1, TwoTexts
  <2> HIDE DEF r
  <2> QED BY <1>1, <2>1
<1> HIDE DEF r
<1>3. ASSUME NEW i \in 1..Len(r) PROVE r[i] = z[i]
  <2>1. i \in 1..q + n /\ (i \in 1..q \/ (i - q \in 1..n /\ q + (i - q) = i)) BY <1>2
  <2>2. CASE i \in 1..q BY <1>1, <1>2, <2>1, <2>2
  <2>3. CASE i - q \in 1..n /\ q + (i - q) = i
    <3>1. r[q + (i - q)] = q + (i - q) BY <1>1, <1>2, <2>3
    <3> QED BY <1>1, <2>1, <2>3, <3>1
  <2> QED BY <2>1, <2>2, <2>3
<1>4. r = z BY <1>1, <1>2, <1>3, SeqEqual
<1> QED BY <1>4 DEF r, x, y, z

----------------------------------------------------------------------------
\* A segment begins with the first word that has not been looked at.
LEMMA SegmentBeginsInPlace ==
  ASSUME NEW i, NEW b, NEW p, NEW m, Keeping(i, b, p, m), SegmentBegins
  PROVE  InPlace'
<1>1. /\ seg = 0 /\ todo # {} /\ UNCHANGED heard
      /\ seg' = Earliest(todo, results[c]) /\ todo' = todo \ {seg'}
      /\ left' = DOMAIN results[c][seg'].words
      /\ kept' = <<>> /\ headCut' = FALSE /\ segTailCut' = FALSE
      /\ UNCHANGED <<c, firstInChunk, lastWord, keptUntil, segments>>
  BY DEF SegmentBegins, acrossChunks
<1>2. /\ Listened /\ MergeTypeOK /\ PlanAssumption /\ HearingAssumption /\ c = i /\ seg = b
      /\ Position(i, b, p) /\ Remembered(i, p, m) /\ Expected(i, p, m) /\ Collected(b, m)
  BY DEF Keeping, KeepAt
<1>3. i \in DOMAIN results /\ i \in DOMAIN windows /\ b = 0
  BY <1>1, <1>2, ChunkNumbers DEF MergeTypeOK
<1>4. /\ todo = {x \in Begins(i) : x > p}
      /\ \A k \in Within(i) : k > p => \E x \in todo : x <= k
  BY <1>2, <1>3 DEF Position
<1>5. PICK g : g = Earliest(todo, results[i]) OBVIOUS
<1>6. g \in todo /\ \A x \in todo : g <= x
  <2>1. todo \subseteq Begins(i) BY <1>4
  <2> QED BY <1>1, <1>2, <1>3, <1>5, <2>1, NextSegment
<1>7. seg' = g /\ left' = DOMAIN results[i][g].words BY <1>1, <1>2, <1>5
<1>8. g \in Begins(i) /\ g > p BY <1>4, <1>6
<1>9. Ready BY <1>2 DEF Listened
<1>10. /\ g \in Within(i) /\ g \in Nat \ {0} /\ LastOf(i, g) \in Nat /\ g <= LastOf(i, g)
       /\ g \in 1..Len(speech)
  BY <1>3, <1>8, <1>9, <1>2, RunFacts, WithinFacts
<1>11. left' = 1..LastOf(i, g) - g + 1 BY <1>2, <1>3, <1>7, <1>8, SegmentsHeard
<1>12. p \in Nat /\ m \in Nat /\ m <= Len(speech) /\ Len(speech) \in Nat
       /\ DOMAIN speech = 1..Len(speech)
  BY <1>2, Whereabouts, ChunkNumbers
<1>13. UNCHANGED <<speech, results, windows, chunks>> BY <1>1, SameHeard DEF heard
<1>14. p <= g - 1 BY <1>8, <1>10, <1>12
<1>15. Position(i, g, g - 1)'
  <2>1. left' = {j \in 1..LastOf(i, g) - g + 1 : g + j - 1 > g - 1}
    <3>1. \A j \in 1..LastOf(i, g) - g + 1 : g + j - 1 > g - 1 BY <1>10
    <3> QED BY <1>11, <3>1
  <2>2. todo' = {x \in Begins(i) : x > g}
    <3>1. \A x \in Begins(i) : x \in Nat BY <1>2, <1>3, <1>9, RunFacts
    <3>2. \A x \in todo : x # g => x > g BY <1>4, <1>6, <1>10, <3>1
    <3>3. \A x \in Begins(i) : x > g => x > p /\ x # g BY <1>8, <1>10, <1>12, <3>1
    <3> QED BY <1>1, <1>4, <1>7, <3>2, <3>3
  <2>3. Begins(i)' = Begins(i) /\ LastOf(i, g)' = LastOf(i, g) BY <1>1, SameHeard
  <2>4. g # 0 /\ g - 1 <= g - 1 /\ g - 1 <= LastOf(i, g) BY <1>10
  <2> QED BY <1>8, <2>1, <2>2, <2>3, <2>4 DEF Position
<1>16. Remembered(i, g - 1, m)'
  <2>1. g - 1 < m => p < m BY <1>10, <1>12, <1>14
  <2>2. m > 0 => \E j \in DOMAIN windows : /\ j <= i /\ (g - 1 < m => j < i)
                                           /\ m \in Within(j) /\ Whole(j, m)
                                           /\ keptUntil = HeardEnd(j, m)
    BY <1>2, <2>1 DEF Remembered
  <2>3. m > 0 => (\E j \in DOMAIN windows : /\ j <= i /\ (g - 1 < m => j < i)
                                            /\ m \in Within(j) /\ Whole(j, m)
                                            /\ keptUntil = HeardEnd(j, m))'
    BY <1>1, <1>13, <2>2, SameHeard
  <2> QED BY <1>1, <1>2, <1>13, <2>1, <2>3 DEF Remembered
<1>17. Expected(i, g - 1, m)'
  <2>1. g - 1 > m => m + 1 \in Within(i) /\ HeardBeyond(i, m + 1)
    <3> SUFFICES ASSUME g - 1 > m PROVE m + 1 \in Within(i) /\ HeardBeyond(i, m + 1)
      OBVIOUS
    <3>1. CASE p > m BY <1>2, <1>3, <3>1 DEF Expected
    <3>2. CASE ~(p > m)
      <4>1. m + 1 < g /\ m + 1 > p /\ m < Len(speech) /\ m + 1 \in DOMAIN speech
        BY <1>10, <1>12, <3>2
      <4>2. chunks[i].start <= speech[m + 1].start BY <1>2, <1>3, <4>1 DEF Expected
      <4>3. m + 1 \in Within(i) BY <1>2, <1>3, <1>10, <4>1, <4>2, NoneMissed
      <4>4. PICK x \in todo : x <= m + 1 BY <1>4, <4>1, <4>3
      <4>5. g <= x /\ x \in Nat BY <1>2, <1>3, <1>4, <1>6, <1>9, <4>4, RunFacts
      <4> QED BY <1>10, <1>12, <4>1, <4>4, <4>5
    <3> QED BY <3>1, <3>2
  <2> QED BY <1>1, <1>2, <1>3, <1>13, <2>1, SameHeard DEF Expected
<1>18. Len(kept') = 0 /\ DOMAIN kept' = {} BY <1>1
<1>19. KeptWords(i, g, g - 1, m)'
  <2>1. \A k \in m - 0 + 1..m : FALSE BY <1>12
  <2>2. 0 = (g - 1) - g + 1 BY <1>10
  <2> QED BY <1>1, <1>12, <1>18, <2>1, <2>2 DEF KeptWords
<1>20. Collected(g, m)'
  <2>1. m - Len(kept') = m BY <1>12, <1>18
  <2>2. Transcript' = Transcript /\ WordList' = WordList BY <1>1 DEF Transcript, WordList
  <2> QED BY <1>1, <1>2, <1>3, <1>10, <2>1, <2>2 DEF Collected
<1>21. KeepAt(i, g, g - 1, m)'
  BY <1>1, <1>2, <1>7, <1>15, <1>16, <1>17, <1>19, <1>20 DEF KeepAt
<1>22. g - 1 \in 0..Len(speech) /\ m \in 0..Len(speech) BY <1>10, <1>12
<1> QED BY <1>13, <1>21, <1>22, Arrived

\* The merge goes on with the next chunk, in which the next word begins.
LEMMA NextChunkInPlace ==
  ASSUME NEW i, NEW b, NEW p, NEW m, Keeping(i, b, p, m), NextChunk
  PROVE  InPlace'
<1>1. /\ c \in DOMAIN results /\ seg = 0 /\ todo = {} /\ UNCHANGED heard
      /\ c' = c + 1 /\ firstInChunk' = TRUE
      /\ todo' = IF c + 1 \in DOMAIN results THEN DOMAIN results[c + 1] ELSE {}
      /\ UNCHANGED <<seg, kept, lastWord, keptUntil, segments>>
  BY DEF NextChunk, BeginChunk, acrossChunks, inSegment
<1>2. /\ Listened /\ MergeTypeOK /\ PlanAssumption /\ HearingAssumption /\ c = i /\ seg = b
      /\ Position(i, b, p) /\ Remembered(i, p, m) /\ Expected(i, p, m) /\ Collected(b, m)
  BY DEF Keeping, KeepAt
<1>3. /\ i \in DOMAIN results /\ i \in DOMAIN windows /\ b = 0 /\ i \in Nat
      /\ DOMAIN results = DOMAIN windows /\ DOMAIN windows = 1..Len(windows)
      /\ Len(windows) \in Nat
  BY <1>1, <1>2, ChunkNumbers
<1>4. \A k \in Within(i) : ~(k > p) BY <1>1, <1>2, <1>3 DEF Position
<1>5. p \in Nat /\ m \in Nat /\ m <= Len(speech) /\ Len(speech) \in Nat
      /\ DOMAIN speech = 1..Len(speech)
  BY <1>2, Whereabouts, ChunkNumbers
<1>6. UNCHANGED <<speech, results, windows, chunks>> BY <1>1, SameHeard DEF heard
<1> DEFINE h == i + 1
<1>7. h \in Nat /\ (h \in DOMAIN windows <=> i < Len(windows))
      /\ (~(h \in DOMAIN windows) => i = Len(windows))
  BY <1>3
<1>8. c' = h BY <1>1, <1>2
<1>9. m < Len(speech) => /\ m + 1 \in DOMAIN speech /\ chunks[i].start <= speech[m + 1].start
                         /\ m + 1 \in Within(i) => HeardBeyond(i, m + 1)
  <2> SUFFICES ASSUME m < Len(speech)
               PROVE  /\ m + 1 \in DOMAIN speech /\ chunks[i].start <= speech[m + 1].start
                      /\ m + 1 \in Within(i) => HeardBeyond(i, m + 1)
    OBVIOUS
  <2>1. m + 1 \in DOMAIN speech /\ chunks[i].start <= speech[m + 1].start
    BY <1>2, <1>3, <1>5 DEF Expected
  <2>2. p > m => HeardBeyond(i, m + 1) BY <1>2, <1>3 DEF Expected
  <2>3. ~(p > m) => m + 1 > p BY <1>5
  <2> QED BY <1>4, <2>1, <2>2, <2>3
<1>10. Position(h, 0, 0)'
  <2> SUFFICES ASSUME h \in DOMAIN results
               PROVE  /\ todo' = {x \in Begins(h) : x > 0}
                      /\ \A k \in Within(h) : k > 0 => \E x \in todo' : x <= k
    BY <1>1, <1>6, SameHeard DEF Position
  <2>1. h \in DOMAIN windows /\ Ready BY <1>2, <1>3 DEF Listened
  <2>2. todo' = Begins(h) BY <1>1, <1>2, <2>1, SegmentsHeard
  <2>3. \A x \in Begins(h) : x > 0
    <3>1. \A x \in Begins(h) : x \in Nat \ {0} BY <1>2, <2>1, RunFacts
    <3> QED BY <3>1
  <2>4. \A k \in Within(h) : \E x \in Begins(h) : x <= k BY <1>2, <2>1, Covered
  <2> HIDE DEF h
  <2> QED BY <2>2, <2>3, <2>4
<1>11. Remembered(h, 0, m)'
  <2>1. m > 0 => \E j \in DOMAIN windows : /\ j <= h /\ (0 < m => j < h)
                                           /\ m \in Within(j) /\ Whole(j, m)
                                           /\ keptUntil = HeardEnd(j, m)
    <3>1. \A j \in DOMAIN windows : j <= i => j <= h /\ j < h BY <1>3
    <3> QED BY <1>2, <3>1 DEF Remembered
  <2> HIDE DEF h
  <2>2. m > 0 => (\E j \in DOMAIN windows : /\ j <= h /\ (0 < m => j < h)
                                            /\ m \in Within(j) /\ Whole(j, m)
                                            /\ keptUntil = HeardEnd(j, m))'
    BY <1>1, <1>6, <2>1, SameHeard
  <2> QED BY <1>1, <1>2, <1>6, <2>2 DEF Remembered
<1>12. Expected(h, 0, m)'
  <2>1. CASE h \in DOMAIN results
    <3>1. m < Len(speech) => chunks[h].start <= speech[m + 1].start
      BY <1>2, <1>3, <1>7, <1>9, <2>1, BeginsLater
    <3>2. ~(0 > m) BY <1>5
    <3> HIDE DEF h
    <3> QED BY <1>6, <2>1, <3>1, <3>2 DEF Expected
  <2>2. CASE h \notin DOMAIN results
    <3>1. i = Len(windows) BY <1>3, <1>7, <2>2
    <3>2. ~(m < Len(speech)) BY <1>2, <1>3, <1>9, <3>1, AllInLast
    <3>3. m = Len(speech)
      <4> DEFINE n == Len(speech)
      <4>1. m \in Nat /\ n \in Nat /\ m <= n /\ ~(m < n) BY <1>5, <3>2
      <4>2. m = n
        <5> HIDE DEF n
        <5> QED BY <4>1
      <4> QED BY <4>2
    <3> HIDE DEF h
    <3> QED BY <1>6, <2>2, <3>3 DEF Expected
  <2> QED BY <2>1, <2>2
<1> HIDE DEF h
<1>13. KeptWords(h, 0, 0, m)' BY DEF KeptWords
<1>14. Collected(0, m)'
  <2>1. Transcript' = Transcript /\ WordList' = WordList BY <1>1 DEF Transcript, WordList
  <2> QED BY <1>1, <1>2, <1>3, <2>1 DEF Collected
<1>15. KeepAt(h, 0, 0, m)'
  BY <1>1, <1>2, <1>3, <1>8, <1>10, <1>11, <1>12, <1>13, <1>14 DEF KeepAt
<1>16. 0 \in 0..Len(speech) /\ m \in 0..Len(speech) BY <1>5
<1> QED BY <1>6, <1>15, <1>16, Arrived

----------------------------------------------------------------------------
\* A segment ends when all its words have been looked at, and the next one begins behind them.
LEMMA AllLookedAt ==
  ASSUME NEW i, NEW b, NEW p, NEW m, Keeping(i, b, p, m), SegmentEnds
  PROVE  /\ i \in DOMAIN results /\ i \in DOMAIN windows /\ b \in Begins(i) /\ p = LastOf(i, b)
         /\ todo = {x \in Begins(i) : x > p}
         /\ \A k \in Within(i) : k > p => \E x \in todo : x <= k
<1>1. /\ Listened /\ MergeTypeOK /\ PlanAssumption /\ HearingAssumption /\ c = i /\ seg = b
      /\ b # 0 /\ left = {} /\ Position(i, b, p)
  BY DEF Keeping, KeepAt, SegmentEnds
<1>2. i \in DOMAIN results /\ i \in DOMAIN windows /\ Ready
  BY <1>1, ChunkNumbers DEF MergeTypeOK, Listened
<1> DEFINE l == LastOf(i, b)
<1>3. /\ b \in Begins(i) /\ b - 1 <= p /\ p <= l
      /\ left = {j \in 1..l - b + 1 : b + j - 1 > p}
      /\ todo = {x \in Begins(i) : x > b}
  BY <1>1, <1>2 DEF Position
<1>4. b \in Nat \ {0} /\ l \in Nat /\ b <= l /\ p \in Nat
  BY <1>1, <1>2, <1>3, RunFacts, Whereabouts
<1>5. p = l
  <2> SUFFICES ASSUME p < l PROVE FALSE BY <1>3, <1>4
  <2> HIDE DEF l
  <2>1. l - b + 1 \in 1..l - b + 1 /\ b + (l - b + 1) - 1 > p BY <1>3, <1>4
  <2> QED BY <1>1, <1>3, <2>1
<1>6. \A x \in Begins(i) : x \in Nat /\ x <= LastOf(i, x) /\ LastOf(i, x) \in Nat
  BY <1>1, <1>2, RunFacts
<1>7. \A x \in Begins(i) : x > b => x > p BY <1>1, <1>2, <1>3, <1>5, RunsApart
<1>8. \A x \in Begins(i) : x > p => x > b BY <1>3, <1>4, <1>5, <1>6
<1>9. todo = {x \in Begins(i) : x > p} BY <1>3, <1>7, <1>8
<1>10. ASSUME NEW k \in Within(i), k > p PROVE \E x \in todo : x <= k
  <2>1. PICK x \in Begins(i) : x <= k /\ k <= LastOf(i, x) BY <1>1, <1>2, Covered
  <2>2. k \in Nat BY <1>1, <1>2, WithinFacts
  <2>3. LastOf(i, x) > p BY <1>4, <1>6, <1>10, <2>1, <2>2
  <2>4. x > b
    <3>1. x # b BY <1>4, <1>5, <1>6, <2>3
    <3>2. ~(x < b)
      <4> SUFFICES ASSUME x < b PROVE FALSE OBVIOUS
      <4>1. LastOf(i, x) < b BY <1>1, <1>2, <1>3, RunsApart
      <4> QED BY <1>3, <1>4, <1>5, <1>6, <2>3, <4>1
    <3> QED BY <1>4, <1>6, <3>1, <3>2
  <2> QED BY <1>3, <2>1, <2>4
<1> QED BY <1>2, <1>3, <1>5, <1>9, <1>10

\* The text of what is kept of a segment.
LEMMA KeptText ==
  ASSUME NEW i, NEW b, NEW p, NEW m, Keeping(i, b, p, m), b # 0
  PROVE  /\ kept \in Seq(HeardAs) /\ Len(kept) \in Nat /\ m - Len(kept) \in Nat
         /\ TextOf(kept) \in Seq(Nat)
         /\ TextOf(kept) = [j \in 1..Len(kept) |-> (m - Len(kept)) + j]
<1>1. kept \in Seq(HeardAs) /\ KeptWords(i, b, p, m) BY DEF Keeping, KeepAt, MergeTypeOK
<1>2. m \in Nat BY Whereabouts
<1>3. Len(kept) <= m /\ \A j \in DOMAIN kept : kept[j].of = m - Len(kept) + j
  BY <1>1 DEF KeptWords
<1>4. Len(kept) \in Nat /\ DOMAIN kept = 1..Len(kept) BY <1>1
<1>5. m - Len(kept) \in Nat BY <1>2, <1>3, <1>4
<1>6. TextOf(kept) = [j \in 1..Len(kept) |-> (m - Len(kept)) + j]
  BY <1>3, <1>4 DEF TextOf
<1> QED BY <1>1, <1>4, <1>5, <1>6, TextType

\* A segment of which every word is kept has the text of the engine, and that of its words.
LEMMA UncutText ==
  ASSUME NEW i, NEW b, NEW p, NEW m, Keeping(i, b, p, m), SegmentEnds, kept # <<>>,
         ~headCut, ~segTailCut
  PROVE  results[i][b].text = TextOf(kept)
<1>1. /\ Listened /\ PlanAssumption /\ HearingAssumption /\ KeptWords(i, b, p, m) /\ b # 0
  BY DEF Keeping, KeepAt, SegmentEnds
<1>2. i \in DOMAIN results /\ i \in DOMAIN windows /\ b \in Begins(i) /\ p = LastOf(i, b) /\ Ready
  BY <1>1, AllLookedAt DEF Listened
<1>3. /\ \A k \in m - Len(kept) + 1..m : Whole(i, k)
      /\ p = m /\ Len(kept) = p - b + 1
  BY <1>1 DEF KeptWords
<1>4. p \in Nat /\ m \in Nat /\ b \in Nat \ {0} /\ b <= p
  BY <1>1, <1>2, RunFacts, Whereabouts
<1>5. m - Len(kept) = b - 1 /\ LastOf(i, b) - b + 1 = Len(kept)
  <2> DEFINE n == Len(kept)
  <2>1. n \in Nat BY <1>1, KeptText
  <2>2. n = p - b + 1 BY <1>3
  <2> HIDE DEF n
  <2>3. m - n = b - 1 BY <1>3, <1>4, <2>1, <2>2
  <2> QED BY <1>2, <1>3, <2>3 DEF n
<1> DEFINE n == Len(kept)
           ws == HeardWords(i, b)
<1>6. /\ results[i][b].text = TextOf(ws) /\ DOMAIN ws = 1..n
      /\ \A j \in 1..n : ws[j] = HeardWord(i, b + j - 1)
  BY <1>1, <1>2, <1>5, SegmentsHeard
<1>7. TextOf(kept) = [j \in 1..n |-> (b - 1) + j] /\ n \in Nat BY <1>1, <1>5, KeptText
<1>8. ASSUME NEW j \in 1..n PROVE ws[j].of = (b - 1) + j
  <2> DEFINE k == b + j - 1
  <2>1. k = (b - 1) + j /\ k \in m - n + 1..m
    <3>1. m - n = b - 1 /\ n = p - b + 1 /\ p = m BY <1>3, <1>5
    <3> HIDE DEF n, ws
    <3> QED BY <1>4, <1>7, <1>8, <3>1
  <2>2. Whole(i, k) BY <1>3, <2>1
  <2>3. ws[j] = HeardWord(i, k) BY <1>6
  <2>4. HeardWord(i, k).of = k BY <2>2 DEF HeardWord
  <2> QED BY <2>1, <2>3, <2>4
<1> HIDE DEF n, ws
<1>9. TextOf(ws) = [j \in 1..n |-> (b - 1) + j] BY <1>6, <1>8 DEF TextOf
<1> QED BY <1>6, <1>7, <1>9

\* What is merged of a segment has its words, in the text as in the words.
LEMMA WordsCollected ==
  ASSUME NEW i, NEW b, NEW p, NEW m, Keeping(i, b, p, m), SegmentEnds, MergeTypeOK', kept # <<>>
  PROVE  /\ Transcript' = Transcript \o TextOf(kept) /\ WordList' = WordList \o TextOf(kept)
         /\ \A j \in DOMAIN segments' : segments'[j].text = TextOf(segments'[j].words)
<1>1. /\ c = i /\ seg = b /\ b # 0 /\ MergeTypeOK /\ Collected(b, m)
      /\ \/ Joined /\ segments' = Join
         \/ ~headCut /\ ~segTailCut /\ segments' = Append(segments, Uncut)
         \/ segments' = Append(segments, Rebuilt)
  BY DEF Keeping, KeepAt, SegmentEnds
<1>2. /\ segments \in Seq(HeardSegment) /\ segments' \in Seq(HeardSegment) /\ kept \in Seq(HeardAs)
      /\ \A j \in DOMAIN segments : segments[j].text = TextOf(segments[j].words)
  BY <1>1 DEF MergeTypeOK, Collected
<1>3. /\ Transcript = FlattenSeq(TextsOf(segments)) /\ WordList = FlattenSeq(WordsOf(segments))
      /\ Transcript' = FlattenSeq(TextsOf(segments')) /\ WordList' = FlattenSeq(WordsOf(segments'))
  BY DEF Transcript, WordList, TextsOf, WordsOf
<1>4. CASE Joined /\ segments' = Join
  <2> DEFINE n == Len(segments)
             prev == segments[n]
             words == prev.words \o kept
             s == SegmentOf(prev.id, prev.start, Last(kept).end, TextOf(words), words)
  <2>1. segments # <<>> /\ n \in DOMAIN segments /\ DOMAIN segments = 1..n
    BY <1>2, <1>4 DEF Joined
  <2>2. Last(segments) = prev BY DEF Last
  <2>3. segments' = [segments EXCEPT ![n] = s] BY <1>4, <2>2 DEF Join
  <2>4. s.words = words /\ s.text = TextOf(words) BY DEF SegmentOf
  <2>5. prev.text = TextOf(prev.words) BY <1>2, <2>1
  <2> HIDE DEF s
  <2>6. /\ FlattenSeq(TextsOf(segments')) = FlattenSeq(TextsOf(segments)) \o TextOf(kept)
        /\ FlattenSeq(WordsOf(segments')) = FlattenSeq(WordsOf(segments)) \o TextOf(kept)
    <3>1. s.text = TextOf(s.words) /\ s.words = segments[Len(segments)].words \o kept BY <2>4
    <3>2. segments[Len(segments)].text = TextOf(segments[Len(segments)].words) BY <2>5
    <3>3. segments' = [segments EXCEPT ![Len(segments)] = s] BY <2>3
    <3> HIDE DEF words, prev, n
    <3>4. segments \in Seq(HeardSegment) /\ segments # <<>> /\ kept \in Seq(HeardAs) BY <1>2, <2>1
    <3> DEFINE q == [segments EXCEPT ![Len(segments)] = s]
    <3>5. /\ FlattenSeq(TextsOf(q)) = FlattenSeq(TextsOf(segments)) \o TextOf(kept)
          /\ FlattenSeq(WordsOf(q)) = FlattenSeq(WordsOf(segments)) \o TextOf(kept)
      BY <3>1, <3>2, <3>4, TextJoined
    <3>6. segments' = q BY <3>3
    <3> HIDE DEF q
    <3> QED BY <3>5, <3>6, Zenon
  <2>7. ASSUME NEW j \in DOMAIN segments'
        PROVE  segments'[j].text = TextOf(segments'[j].words)
    <3>1. j \in DOMAIN segments /\ segments'[j] = IF j = n THEN s ELSE segments[j]
      BY <1>2, <2>1, <2>3
    <3>2. s.text = TextOf(s.words) BY <2>4
    <3> QED BY <1>2, <3>1, <3>2
  <2> QED BY <1>3, <2>6, <2>7
<1>5. ASSUME NEW s, segments' = Append(segments, s), s.words = kept, s.text = TextOf(kept)
      PROVE  /\ Transcript' = Transcript \o TextOf(kept) /\ WordList' = WordList \o TextOf(kept)
             /\ \A j \in DOMAIN segments' : segments'[j].text = TextOf(segments'[j].words)
  <2> DEFINE n == Len(segments)
  <2>1. n \in Nat /\ DOMAIN segments = 1..n BY <1>2
  <2>2. /\ DOMAIN segments' = 1..n + 1 /\ segments'[n + 1] = s /\ Len(segments') = n + 1
        /\ \A j \in 1..n : segments'[j] = segments[j]
    BY <1>2, <1>5
  <2>3. s \in HeardSegment BY <1>2, <2>1, <2>2, ElementOfSeq
  <2>4. /\ FlattenSeq(TextsOf(segments')) = FlattenSeq(TextsOf(segments)) \o s.text
        /\ FlattenSeq(WordsOf(segments')) = FlattenSeq(WordsOf(segments)) \o TextOf(s.words)
    BY <1>2, <1>5, <2>3, TextAppended
  <2>5. ASSUME NEW j \in DOMAIN segments'
        PROVE  segments'[j].text = TextOf(segments'[j].words)
    <3>1. j \in 1..n \/ j = n + 1 BY <2>1, <2>2
    <3>2. CASE j \in 1..n BY <1>2, <2>1, <2>2, <3>2
    <3>3. CASE j = n + 1 BY <1>5, <2>2, <3>3
    <3> QED BY <3>1, <3>2, <3>3
  <2> QED BY <1>3, <1>5, <2>4, <2>5
<1>6. CASE ~headCut /\ ~segTailCut /\ segments' = Append(segments, Uncut)
  <2>1. results[c][seg].text = TextOf(kept) BY <1>1, <1>6, UncutText
  <2>2. Uncut.words = kept /\ Uncut.text = results[c][seg].text BY DEF Uncut, SegmentOf
  <2> QED BY <1>5, <1>6, <2>1, <2>2
<1>7. CASE segments' = Append(segments, Rebuilt)
  <2>1. Rebuilt.words = kept /\ Rebuilt.text = TextOf(kept) BY DEF Rebuilt, SegmentOf
  <2> QED BY <1>5, <1>7, <2>1
<1> QED BY <1>1, <1>4, <1>6, <1>7

\* Its words are merged when all have been looked at.
LEMMA SegmentEndsInPlace ==
  ASSUME NEW i, NEW b, NEW p, NEW m, Keeping(i, b, p, m), SegmentEnds, MergeTypeOK'
  PROVE  InPlace'
<1>1. /\ seg # 0 /\ seg' = 0 /\ UNCHANGED heard
      /\ UNCHANGED <<c, todo, firstInChunk, lastWord, keptUntil, kept>>
      /\ kept = <<>> => segments' = segments
  BY DEF SegmentEnds, inSegment
<1>2. /\ Listened /\ c = i /\ seg = b /\ b # 0 /\ p \in 0..Len(speech) /\ m \in 0..Len(speech)
      /\ Remembered(i, p, m) /\ Expected(i, p, m) /\ Collected(b, m)
  BY <1>1 DEF Keeping, KeepAt
<1>3. UNCHANGED <<speech, results, windows, chunks>> BY <1>1, SameHeard DEF heard
<1>4. Position(i, 0, p)'
  <2>1. /\ todo' = {x \in Begins(i) : x > p}
        /\ \A k \in Within(i) : k > p => \E x \in todo' : x <= k
    BY <1>1, AllLookedAt
  <2>2. Begins(i)' = Begins(i) /\ Within(i)' = Within(i) BY <1>1, SameHeard
  <2> QED BY <2>1, <2>2 DEF Position
<1>5. Remembered(i, p, m)'
  <2>1. m > 0 => \E j \in DOMAIN windows : /\ j <= i /\ (p < m => j < i)
                                           /\ m \in Within(j) /\ Whole(j, m)
                                           /\ keptUntil = HeardEnd(j, m)
    BY <1>2 DEF Remembered
  <2>2. m > 0 => (\E j \in DOMAIN windows : /\ j <= i /\ (p < m => j < i)
                                            /\ m \in Within(j) /\ Whole(j, m)
                                            /\ keptUntil = HeardEnd(j, m))'
    BY <1>1, <1>3, <2>1, SameHeard
  <2> QED BY <1>1, <1>2, <1>3, <2>2 DEF Remembered
<1>6. Expected(i, p, m)' BY <1>1, <1>2, <1>3, SameHeard DEF Expected
<1>7. KeptWords(i, 0, p, m)' BY DEF KeptWords
<1>8. Collected(0, m)'
  <2> DEFINE n == Len(kept)
             q == m - n
  <2>1. n \in Nat /\ q \in Nat /\ TextOf(kept) = [j \in 1..n |-> q + j] BY <1>2, KeptText
  <2>2. m \in Nat BY Whereabouts
  <2>3. /\ Transcript = [k \in 1..q |-> k] /\ WordList = [k \in 1..q |-> k]
        /\ \A j \in DOMAIN segments : segments[j].text = TextOf(segments[j].words)
    BY <1>2 DEF Collected
  <2>4. CASE kept = <<>>
    <3>1. n = 0 BY <2>4
    <3>2. q = m
      <4> HIDE DEF n
      <4> QED BY <2>2, <3>1
    <3>3. Transcript' = Transcript /\ WordList' = WordList
      BY <1>1, <2>4 DEF Transcript, WordList
    <3> QED BY <1>1, <2>3, <2>4, <3>2, <3>3 DEF Collected
  <2>5. CASE kept # <<>>
    <3>1. /\ Transcript' = Transcript \o TextOf(kept) /\ WordList' = WordList \o TextOf(kept)
          /\ \A j \in DOMAIN segments' : segments'[j].text = TextOf(segments'[j].words)
      BY <2>5, WordsCollected
    <3>2. q + n = m
      <4> HIDE DEF n
      <4> QED BY <2>1, <2>2
    <3>3. [k \in 1..q |-> k] \o [j \in 1..n |-> q + j] = [k \in 1..m |-> k]
      <4> HIDE DEF n, q
      <4> QED BY <2>1, <3>2, WordsGoOn
    <3>4. Transcript' = [k \in 1..m |-> k] /\ WordList' = [k \in 1..m |-> k]
      BY <2>1, <2>3, <3>1, <3>3
    <3> QED BY <3>1, <3>4 DEF Collected
  <2> QED BY <2>4, <2>5
<1>9. KeepAt(i, 0, p, m)'
  BY <1>1, <1>2, <1>4, <1>5, <1>6, <1>7, <1>8 DEF KeepAt
<1> QED BY <1>2, <1>3, <1>9, Arrived

----------------------------------------------------------------------------
(* From the plan to the last word.                                         *)

\* Once the engine has listened, and if it heard clear words, they are listened to.
LEMMA AfterListening == FileInv /\ c # 0 /\ Clear => Listened /\ MergeTypeOK
<1> SUFFICES ASSUME FileInv, c # 0, Clear PROVE Listened /\ MergeTypeOK OBVIOUS
<1>1. /\ PlanInv /\ planned /\ MergeTypeOK
      /\ speech \in Recordings(setting) /\ engine \in Engines(setting)
      /\ results = [i \in DOMAIN windows |-> IF engine.tile = 0 THEN Heard(i) ELSE Tiles(i)]
  BY DEF FileInv, HearInv, MergeInv
<1>2. engine.tile = 0 BY DEF Clear
<1>3. \A i \in DOMAIN windows : results[i] = Heard(i) BY <1>1, <1>2
<1> QED BY <1>1, <1>3 DEF Listened, Ready, MergeTypeOK

\* Nothing is merged yet.
Beginning == /\ FileInv /\ c = 1 /\ Clear
             /\ todo = DOMAIN results[1] /\ seg = 0 /\ kept = <<>> /\ lastWord = NoWord
             /\ keptUntil = NegInf /\ segments = <<>>

\* The first word is expected in the first chunk.
LEMMA FirstInPlace == Beginning /\ PlanAssumption /\ HearingAssumption => InPlace
<1> SUFFICES ASSUME Beginning, PlanAssumption, HearingAssumption PROVE InPlace OBVIOUS
<1>1. /\ FileInv /\ c = 1 /\ Clear /\ todo = DOMAIN results[1] /\ seg = 0 /\ kept = <<>>
      /\ lastWord = NoWord /\ keptUntil = NegInf /\ segments = <<>>
  BY DEF Beginning
<1>2. Listened BY <1>1, AfterListening
<1>3. /\ DOMAIN results = DOMAIN windows /\ DOMAIN windows = 1..Len(windows)
      /\ Len(windows) \in Nat /\ DOMAIN speech = 1..Len(speech) /\ Len(speech) \in Nat
      /\ Ready
  BY <1>2, ChunkNumbers DEF Listened
<1>4. PlanInv /\ planned /\ Len(windows) > 0 BY <1>3 DEF Ready, PlanInv, WindowInv
<1>5. 1 \in DOMAIN windows BY <1>3, <1>4
<1>6. chunks[1].start = 0 BY <1>4, WholeFile DEF chunks
<1>7. Position(1, 0, 0)
  <2>1. todo = Begins(1) BY <1>1, <1>2, <1>5, SegmentsHeard
  <2>2. \A x \in Begins(1) : x > 0
    <3>1. \A x \in Begins(1) : x \in Nat \ {0} BY <1>3, <1>5, RunFacts
    <3> QED BY <3>1
  <2>3. \A k \in Within(1) : \E x \in Begins(1) : x <= k BY <1>3, <1>5, Covered
  <2> QED BY <2>1, <2>2, <2>3 DEF Position
<1>8. Remembered(1, 0, 0) BY <1>1 DEF Remembered
<1>9. Expected(1, 0, 0)
  <2>1. 0 < Len(speech) => chunks[1].start <= speech[0 + 1].start
    <3> SUFFICES ASSUME 0 < Len(speech) PROVE chunks[1].start <= speech[1].start OBVIOUS
    <3>1. 1 \in DOMAIN speech BY <1>3
    <3>2. speech[1].start \in Nat BY <1>3, <3>1, SpeechFacts
    <3> QED BY <1>6, <3>2
  <2> QED BY <1>3, <1>5, <2>1 DEF Expected
<1>10. KeptWords(1, 0, 0, 0) BY DEF KeptWords
<1>11. Collected(0, 0)
  <2>1. DOMAIN segments = {} BY <1>1
  <2>2. FlattenSeq(<<>>) = <<>> BY DEF FlattenSeq
  <2>3. [j \in DOMAIN segments |-> segments[j].text] = <<>>
        /\ [j \in DOMAIN segments |-> TextOf(segments[j].words)] = <<>>
    BY <2>1
  <2>4. Transcript = <<>> /\ WordList = <<>> BY <2>2, <2>3 DEF Transcript, WordList
  <2>5. [k \in 1..0 |-> k] = <<>> OBVIOUS
  <2> QED BY <2>1, <2>4, <2>5 DEF Collected
<1>12. KeepAt(1, 0, 0, 0) BY <1>1, <1>7, <1>8, <1>9, <1>10, <1>11 DEF KeepAt
<1>13. 0 \in 0..Len(speech) BY <1>3
<1> QED BY <1>1, <1>12, <1>13 DEF InPlace

\* Every step of the file keeps the merge in its place.
LEMMA KeepGoesOn ==
  FileInv /\ FileInv' /\ KeepInv /\ [Next]_vars /\ PlanAssumption /\ HearingAssumption => KeepInv'
<1> SUFFICES ASSUME FileInv, FileInv', KeepInv, [Next]_vars, PlanAssumption, HearingAssumption,
                    c' # 0, Clear', ~Repeats'
             PROVE  InPlace'
  BY DEF KeepInv
<1>1. CASE Plan
  <2>1. ~planned /\ c' = c BY <1>1 DEF Plan, PlanWindow
  <2> QED BY <2>1 DEF FileInv
<1>2. CASE Transcribe
  <2>1. /\ c' = 1 /\ todo' = DOMAIN results'[1]
        /\ UNCHANGED <<seg, firstInChunk, kept, lastWord, keptUntil, segments>>
    BY <1>2 DEF Transcribe, inSegment, acrossChunks
  <2>2. /\ seg = 0 /\ kept = <<>> /\ lastWord = NoWord /\ keptUntil = NegInf /\ segments = <<>>
    BY <1>2 DEF Transcribe, FileInv
  <2>3. Beginning' BY <2>1, <2>2 DEF Beginning
  <2> QED BY <2>3, FirstInPlace, PTL
<1>3. CASE Merge \/ UNCHANGED vars
  <2>1. UNCHANGED heard
    BY <1>3 DEF Merge, NextChunk, SegmentBegins, WordBeyondCut, WordKeptBefore, WordHeardTwice,
       WordKept, SegmentEnds, MergeSegment, heard, vars
  <2>2. Clear /\ ~Repeats BY <2>1, SameHeard
  <2>3. c # 0 BY <1>3, MergeAfterHearing DEF vars
  <2>4. Listened /\ MergeTypeOK BY <2>2, <2>3, AfterListening
  <2>5. PICK i \in {c}, b \in {seg}, p \in 0..Len(speech), m \in 0..Len(speech) : KeepAt(i, b, p, m)
    BY <2>2, <2>3 DEF KeepInv, InPlace
  <2>6. Keeping(i, b, p, m) BY <2>2, <2>4, <2>5 DEF Keeping
  <2>7. CASE NextChunk BY <2>6, <2>7, NextChunkInPlace
  <2>8. CASE SegmentBegins BY <2>6, <2>8, SegmentBeginsInPlace
  <2>9. CASE WordBeyondCut BY <2>6, <2>9, BeyondCutKeeps
  <2>10. CASE WordKeptBefore BY <2>6, <2>10, KeptBeforeKeeps
  <2>11. CASE WordHeardTwice BY <2>6, <2>11, HeardTwiceKeeps
  <2>12. CASE WordKept BY <2>6, <2>12, KeptKeeps
  <2>13. CASE SegmentEnds
    <3>1. MergeTypeOK' BY DEF FileInv, MergeInv
    <3> QED BY <2>6, <2>13, <3>1, SegmentEndsInPlace
  <2>14. CASE MergeSegment
    <3>1. Worded BY <2>2 DEF Clear
    <3> QED BY <2>14, <3>1 DEF MergeSegment
  <2>15. CASE UNCHANGED vars
    <3>1. UNCHANGED <<c, seg, todo, left, kept, headCut, segTailCut, firstInChunk, lastWord,
                      keptUntil, segments, speech, results, windows, chunks>>
      BY <2>1, <2>15, SameHeard DEF vars
    <3>2. /\ Position(i, b, p) /\ Remembered(i, p, m) /\ Expected(i, p, m)
          /\ KeptWords(i, b, p, m) /\ Collected(b, m) /\ c = i /\ seg = b
      BY <2>5 DEF KeepAt
    <3>3. Position(i, b, p)' BY <2>1, <3>1, <3>2, SameHeard DEF Position
    <3>4. Remembered(i, p, m)'
      <4>1. m > 0 => \E j \in DOMAIN windows : /\ j <= i /\ (p < m => j < i)
                                               /\ m \in Within(j) /\ Whole(j, m)
                                               /\ keptUntil = HeardEnd(j, m)
        BY <3>2 DEF Remembered
      <4>2. m > 0 => (\E j \in DOMAIN windows : /\ j <= i /\ (p < m => j < i)
                                                /\ m \in Within(j) /\ Whole(j, m)
                                                /\ keptUntil = HeardEnd(j, m))'
        BY <2>1, <3>1, <4>1, SameHeard
      <4> QED BY <3>1, <3>2, <4>2 DEF Remembered
    <3>5. Expected(i, p, m)' BY <2>1, <3>1, <3>2, SameHeard DEF Expected
    <3>6. KeptWords(i, b, p, m)' BY <2>1, <3>1, <3>2, SameHeard DEF KeptWords
    <3>7. Collected(b, m)' BY <3>1, <3>2 DEF Collected, Transcript, WordList
    <3>8. KeepAt(i, b, p, m)' BY <3>1, <3>2, <3>3, <3>4, <3>5, <3>6, <3>7 DEF KeepAt
    <3> QED BY <3>1, <3>8, Arrived
  <2> QED BY <1>3, <2>7, <2>8, <2>9, <2>10, <2>11, <2>12, <2>13, <2>14, <2>15 DEF Merge
<1> QED BY <1>1, <1>2, <1>3 DEF Next

\* The invariant is one.
LEMMA KeepInvariant == Spec => []KeepInv
<1>1. Init => KeepInv BY DEF Init, KeepInv
<1> QED BY <1>1, KeepGoesOn, FileInvariant, PlanAssumption, HearingAssumption, PTL DEF Spec

\* Every word of clear speech without immediate repetition is in the merged transcript once,
\* whole and in its place, in its text as in its words: whatever the length of the file, its
\* chunks and overlap, how far the timings of the chunks drift apart and where the engine
\* splits its segments (merge.py:62-133).
THEOREM EveryWordOnce == Spec => []WordsKeptOnce
<1>1. ASSUME FileInv, KeepInv, PlanAssumption, HearingAssumption PROVE WordsKeptOnce
  <2> SUFFICES ASSUME Merged, Clear, ~Repeats PROVE Transcript = AllOnce /\ WordList = AllOnce
    BY DEF WordsKeptOnce
  <2>1. c # 0 BY <1>1 DEF FileInv, Merged
  <2>2. Listened /\ MergeTypeOK BY <1>1, <2>1, AfterListening
  <2>3. PICK i \in {c}, b \in {seg}, p \in 0..Len(speech), m \in 0..Len(speech) : KeepAt(i, b, p, m)
    BY <1>1, <2>1 DEF KeepInv, InPlace
  <2>4. /\ DOMAIN results = 1..Len(results) /\ DOMAIN speech = 1..Len(speech)
        /\ Len(results) \in Nat
    BY <2>2, ChunkNumbers
  <2>5. c \notin DOMAIN results BY <2>2, <2>4 DEF Merged, MergeTypeOK
  <2>6. seg = 0 BY <2>2, <2>5 DEF MergeTypeOK
  <2>7. i = c /\ b = 0 BY <2>6
  <2>8. m = Len(speech) BY <2>3, <2>5, <2>7 DEF KeepAt, Expected
  <2>9. Transcript = [k \in 1..m |-> k] /\ WordList = [k \in 1..m |-> k]
    BY <2>3, <2>7 DEF KeepAt, Collected
  <2> QED BY <2>4, <2>8, <2>9 DEF AllOnce
<1> QED BY <1>1, KeepInvariant, FileInvariant, PlanAssumption, HearingAssumption, PTL

----------------------------------------------------------------------------
(* MockEngine's segments, from the beginning of a chunk to its end.        *)

\* MockEngine has listened to chunks that begin further apart than rounding moves a time.
Tiled == /\ Ready /\ engine.tile # 0 /\ Apart
         /\ results = [i \in DOMAIN windows |-> Tiles(i)]

Length(i) == chunks[i].end - chunks[i].start
TileCount(i) == (Length(i) + engine.tile - 1) \div engine.tile

\* Where the n-th segment of a chunk ends, on the clock of the file; the 0-th, so to speak,
\* with the beginning of the chunk.
TileEnd(i, n) == Stamp(Lesser(n * engine.tile, Length(i))) + chunks[i].start

\* So many segments of length t cover a chunk of length l, and the last one begins in it.
LEMMA TilesCover ==
  ASSUME NEW l \in Nat, NEW t \in Nat \ {0}
  PROVE  LET q == (l + t - 1) \div t IN
         /\ q \in Nat /\ q * t >= l
         /\ \A j \in 1..q : (j - 1) * t <= l
<1> DEFINE a == l + t - 1
           q == a \div t
           r == a % t
<1>1. a \in Nat OBVIOUS
<1> HIDE DEF a
<1>2. q \in Nat /\ r \in 0..t - 1 /\ t * q \in Int /\ r = a - t * q BY <1>1, Division
<1> HIDE DEF q, r
<1>3. q * t = t * q BY <1>2
<1>4. q * t >= l BY <1>2, <1>3 DEF a
<1>5. ASSUME NEW j \in 1..q PROVE (j - 1) * t <= l
  <2>1. (q - 1) * t = q * t - t BY <1>2
  <2>2. j - 1 \in Nat /\ q - 1 \in Nat /\ j - 1 <= q - 1 BY <1>2
  <2>3. (j - 1) * t <= (q - 1) * t BY <2>2
  <2>4. (q - 1) * t <= l BY <1>2, <1>3, <2>1 DEF a
  <2>5. (j - 1) * t \in Int /\ (q - 1) * t \in Int BY <2>2
  <2> QED BY <2>3, <2>4, <2>5
<1> QED BY <1>2, <1>4, <1>5 DEF q, a

\* What n segments of length t reach of a length l, and what one more reaches.
LEMMA TileReach ==
  ASSUME NEW l \in Nat, NEW t \in Nat \ {0}, NEW n \in Nat
  PROVE  LET x == Lesser(n * t, l)  y == Lesser((n + 1) * t, l) IN
         /\ x \in Nat /\ y \in Nat /\ x <= y /\ y <= x + t /\ y <= l
         /\ n * t <= l => x = n * t
<1> DEFINE u == n * t
           v == (n + 1) * t
<1>1. u \in Nat /\ v = u + t OBVIOUS
<1> HIDE DEF u, v
<1>2. /\ Lesser(u, l) \in Nat /\ Lesser(v, l) \in Nat /\ Lesser(u, l) <= Lesser(v, l)
      /\ Lesser(v, l) <= Lesser(u, l) + t /\ Lesser(v, l) <= l
      /\ u <= l => Lesser(u, l) = u
  BY <1>1 DEF Lesser
<1> QED BY <1>2 DEF u, v

\* Where the segments of a chunk lie.
LEMMA TileFacts ==
  ASSUME Tiled, PlanAssumption, HearingAssumption, NEW i \in DOMAIN windows
  PROVE  /\ engine.tile \in Nat \ {0} /\ TileCount(i) \in Nat
         /\ chunks[i].start \in Nat /\ chunks[i].end \in Nat /\ chunks[i].start <= chunks[i].end
         /\ TileEnd(i, 0) = chunks[i].start
         /\ TileEnd(i, TileCount(i)) >= chunks[i].end - 1
         /\ chunks[i].end - chunks[i].start > 1 => TileEnd(i, TileCount(i)) > chunks[i].start
         /\ \A n \in Nat :
              /\ TileEnd(i, n) \in Nat /\ TileEnd(i, n + 1) \in Nat
              /\ chunks[i].start <= TileEnd(i, n) /\ TileEnd(i, n) <= TileEnd(i, n + 1)
              /\ TileEnd(i, n + 1) <= TileEnd(i, n) + engine.tile + 2
              /\ TileEnd(i, n + 1) <= chunks[i].end + 1
<1> DEFINE l == Length(i)
           t == engine.tile
           b == chunks[i].start
           e == chunks[i].end
           q == TileCount(i)
<1>1. b \in Nat /\ e \in Nat /\ b <= e BY PlannedChunk DEF Tiled, Ready
<1>2. l = e - b /\ l \in Nat BY <1>1 DEF Length
<1>3. t \in Nat \ {0} BY SpeechFacts DEF Tiled
<1>4. q = (l + t - 1) \div t BY DEF TileCount
<1>5. \A n : TileEnd(i, n) = Stamp(Lesser(n * t, l)) + b BY DEF TileEnd
<1> HIDE DEF l, t, b, e, q
<1>6. q \in Nat /\ q * t >= l BY <1>2, <1>3, <1>4, TilesCover
<1>7. ASSUME NEW n \in Nat
      PROVE  /\ TileEnd(i, n) \in Nat /\ TileEnd(i, n + 1) \in Nat
             /\ b <= TileEnd(i, n) /\ TileEnd(i, n) <= TileEnd(i, n + 1)
             /\ TileEnd(i, n + 1) <= TileEnd(i, n) + t + 2
             /\ TileEnd(i, n + 1) <= e + 1
  <2> DEFINE x == Lesser(n * t, l)
             y == Lesser((n + 1) * t, l)
             u == Stamp(x)
             v == Stamp(y)
  <2>1. x \in Nat /\ y \in Nat /\ x <= y /\ y <= x + t /\ y <= l BY <1>2, <1>3, TileReach
  <2>2. TileEnd(i, n) = Stamp(x) + b /\ TileEnd(i, n + 1) = Stamp(y) + b BY <1>5
  <2> HIDE DEF x, y
  <2>3. /\ Stamp(x) \in Nat /\ x - 1 <= Stamp(x) /\ Stamp(x) <= x + 1
        /\ Stamp(y) \in Nat /\ y - 1 <= Stamp(y) /\ Stamp(y) <= y + 1
    BY <2>1, StampNear
  <2>4. Stamp(x) <= Stamp(y) BY <2>1, StampFacts
  <2>5. /\ u \in Nat /\ x - 1 <= u /\ u <= x + 1
        /\ v \in Nat /\ y - 1 <= v /\ v <= y + 1 /\ u <= v
    BY <2>3, <2>4
  <2>6. TileEnd(i, n) = u + b /\ TileEnd(i, n + 1) = v + b BY <2>2
  <2> HIDE DEF u, v
  <2>7. /\ u + b \in Nat /\ v + b \in Nat /\ b <= u + b /\ u + b <= v + b
        /\ v + b <= (u + b) + t + 2 /\ v + b <= e + 1
    BY <1>1, <1>2, <1>3, <2>1, <2>5
  <2> QED BY <2>6, <2>7
<1>8. TileEnd(i, 0) = b
  <2>1. Lesser(0 * t, l) = 0 BY <1>2, <1>3 DEF Lesser
  <2>2. Stamp(0) = 0 BY DEF Stamp
  <2> QED BY <1>1, <1>5, <2>1, <2>2
<1>9. TileEnd(i, q) >= e - 1 /\ (e - b > 1 => TileEnd(i, q) > b)
  <2>1. Lesser(q * t, l) = l
    <3>1. q * t \in Int BY <1>3, <1>6
    <3> QED BY <1>2, <1>6, <3>1 DEF Lesser
  <2>2. TileEnd(i, q) = Stamp(l) + b BY <1>5, <2>1
  <2>3. Stamp(l) \in Nat /\ l - 1 <= Stamp(l) BY <1>2, StampNear
  <2> QED BY <1>1, <1>2, <2>2, <2>3
<1> QED BY <1>1, <1>3, <1>6, <1>7, <1>8, <1>9 DEF b, e, t, q

\* The segments of a chunk join one another.
LEMMA TileAt ==
  ASSUME Tiled, PlanAssumption, HearingAssumption, NEW i \in DOMAIN windows
  PROVE  /\ i \in DOMAIN results /\ DOMAIN results[i] = 1..TileCount(i)
         /\ \A j \in 1..TileCount(i) :
              /\ results[i][j].start \in Nat /\ results[i][j].end \in Nat
              /\ results[i][j].start + chunks[i].start = TileEnd(i, j - 1)
              /\ results[i][j].end + chunks[i].start = TileEnd(i, j)
              /\ results[i][j].words = <<>>
<1> DEFINE l == Length(i)
           t == engine.tile
           q == TileCount(i)
           segment(j) == [start |-> Stamp((j - 1) * t), end |-> Stamp(Lesser(j * t, l)),
                          text |-> <<0>>, words |-> <<>>]
<1>1. t \in Nat \ {0} /\ q \in Nat BY TileFacts
<1>2. l \in Nat
  <2>1. chunks[i].start \in Nat /\ chunks[i].end \in Nat /\ chunks[i].start <= chunks[i].end
    BY TileFacts
  <2> QED BY <2>1 DEF Length
<1>3. results[i] = [j \in 1..q |-> segment(j)]
  <2>1. results[i] = Tiles(i) BY DEF Tiled
  <2> QED BY <2>1 DEF Tiles, TileCount, Length
<1>4. i \in DOMAIN results BY DEF Tiled
<1>5. q = (l + t - 1) \div t BY DEF TileCount
<1> HIDE DEF l, t, q
<1>6. ASSUME NEW j \in 1..q
      PROVE  /\ segment(j).start \in Nat /\ segment(j).end \in Nat
             /\ segment(j).start + chunks[i].start = TileEnd(i, j - 1)
             /\ segment(j).end + chunks[i].start = TileEnd(i, j)
  <2>1. j - 1 \in Nat /\ (j - 1) + 1 = j BY <1>1
  <2>2. (j - 1) * t <= l BY <1>1, <1>2, <1>5, TilesCover
  <2>3. /\ Lesser((j - 1) * t, l) \in Nat /\ Lesser(j * t, l) \in Nat
        /\ Lesser((j - 1) * t, l) = (j - 1) * t
    BY <1>1, <1>2, <2>1, <2>2, TileReach
  <2>4. TileEnd(i, j - 1) = Stamp((j - 1) * t) + chunks[i].start
        /\ TileEnd(i, j) = Stamp(Lesser(j * t, l)) + chunks[i].start
    BY <2>3 DEF TileEnd, t, l
  <2> DEFINE x == Lesser((j - 1) * t, l)
             y == Lesser(j * t, l)
  <2>5. Stamp(x) \in Nat /\ Stamp(y) \in Nat
    <3>1. x \in Nat /\ y \in Nat BY <2>3
    <3> HIDE DEF x, y
    <3> QED BY <3>1, StampNear
  <2>6. segment(j).start = Stamp((j - 1) * t) /\ segment(j).end = Stamp(Lesser(j * t, l)) OBVIOUS
  <2> QED BY <2>3, <2>4, <2>5, <2>6
<1> HIDE DEF segment
<1>7. \A j \in 1..q : results[i][j] = segment(j) BY <1>3
<1>8. \A j \in 1..q : segment(j).words = <<>> BY DEF segment
<1>9. DOMAIN results[i] = 1..q BY <1>3
<1> QED BY <1>4, <1>6, <1>7, <1>8, <1>9 DEF q

\* A later segment ends later.
LEMMA TileMonotone ==
  ASSUME Tiled, PlanAssumption, HearingAssumption, NEW i \in DOMAIN windows,
         NEW n \in Nat, NEW m \in Nat, n <= m
  PROVE  TileEnd(i, n) <= TileEnd(i, m) /\ TileEnd(i, n) \in Nat /\ TileEnd(i, m) \in Nat
<1> DEFINE l == Length(i)
           t == engine.tile
           u == n * t
           v == m * t
<1>1. t \in Nat \ {0} /\ chunks[i].start \in Nat BY TileFacts
<1>2. l \in Nat
  <2>1. chunks[i].start \in Nat /\ chunks[i].end \in Nat /\ chunks[i].start <= chunks[i].end
    BY TileFacts
  <2> QED BY <2>1 DEF Length
<1>3. TileEnd(i, n) = Stamp(Lesser(u, l)) + chunks[i].start
      /\ TileEnd(i, m) = Stamp(Lesser(v, l)) + chunks[i].start
  BY DEF TileEnd
<1> HIDE DEF l, t
<1>4. u \in Nat /\ v \in Nat /\ u <= v
  <2>1. m - n \in Nat /\ (m - n) * t \in Nat BY <1>1
  <2>2. v = u + (m - n) * t BY <1>1
  <2>3. u \in Nat /\ v \in Nat BY <1>1
  <2> HIDE DEF u, v
  <2> QED BY <2>1, <2>2, <2>3
<1> HIDE DEF u, v
<1>5. Lesser(u, l) \in Nat /\ Lesser(v, l) \in Nat /\ Lesser(u, l) <= Lesser(v, l)
  BY <1>2, <1>4 DEF Lesser
<1>6. /\ Stamp(Lesser(u, l)) \in Nat /\ Stamp(Lesser(v, l)) \in Nat
      /\ Stamp(Lesser(u, l)) <= Stamp(Lesser(v, l))
  BY <1>5, StampFacts
<1> QED BY <1>1, <1>3, <1>6

\* None of these segments has words, so the merge does not go by words.
LEMMA NeverWorded == ASSUME Tiled, PlanAssumption, HearingAssumption PROVE ~Worded
<1> SUFFICES ASSUME Worded PROVE FALSE OBVIOUS
<1>1. PICK i \in DOMAIN results : DOMAIN results[i] # {} BY DEF Worded
<1>2. PICK j \in DOMAIN results[i] : TRUE BY <1>1
<1>3. results[i][j].words # <<>> BY DEF Worded
<1>4. i \in DOMAIN windows BY DEF Tiled
<1>5. results[i][j].words = <<>> BY <1>4, TileAt
<1> QED BY <1>3, <1>5

\* Where the segments lie does not change while plan, file and engine do not.
LEMMA SameTiles ==
  ASSUME UNCHANGED heard
  PROVE  /\ UNCHANGED <<setting, windows, planned, engine, results, chunks>>
         /\ Apart' <=> Apart
         /\ \A i : TileCount(i)' = TileCount(i)
         /\ \A i, n : TileEnd(i, n)' = TileEnd(i, n)
<1>1. UNCHANGED <<setting, windows, planned, engine, results>> BY DEF heard
<1>2. chunks' = chunks BY <1>1 DEF chunks, split_into_chunks
<1>3. Apart' <=> Apart BY <1>1, <1>2 DEF Apart
<1>4. \A i : Length(i)' = Length(i) BY <1>2 DEF Length
<1>5. \A i : TileCount(i)' = TileCount(i) BY <1>1, <1>4 DEF TileCount
<1>6. \A i, n : TileEnd(i, n)' = TileEnd(i, n) BY <1>1, <1>2, <1>4 DEF TileEnd
<1> QED BY <1>1, <1>2, <1>3, <1>5, <1>6

----------------------------------------------------------------------------
(* The inductive invariant: how far the transcript lags behind the         *)
(* segments that have been looked at.                                      *)

Small(gap) == 2 * (gap - 4) < engine.tile

KeptTo == IF keptUntil = NegInf THEN 0 ELSE keptUntil
EndOf(segs, j) == IF j = 0 THEN 0 ELSE segs[j].end

\* What is merged begins with the file, has small gaps only, and ends where the last kept
\* segment does.
Seamless ==
  /\ EndOf(segments, Len(segments)) = Stamp(KeptTo)
  /\ segments = <<>> <=> keptUntil = NegInf
  /\ segments # <<>> => segments[1].start = 0
  /\ \A j \in DOMAIN segments : /\ segments[j].start - EndOf(segments, j - 1) >= 0
                                /\ Small(segments[j].start - EndOf(segments, j - 1))

\* A segment whose centre came too early for it to be kept reaches little further than what
\* is kept; a frame may be lost where a chunk begins.
Near(i, n) ==
  /\ IF TileEnd(i, n) > chunks[i].start THEN 2 * (TileEnd(i, n) - KeptTo) < engine.tile + 2
                                        ELSE 2 * (TileEnd(i, n) - KeptTo) < engine.tile + 4
  /\ keptUntil = NegInf => i = 1 /\ TileEnd(i, n) = 0

\* The last segment looked at lies beyond the cut, so the next chunk goes on from there.
PastCut(i, n) ==
  /\ i < Len(windows) /\ n > 0 /\ keptUntil # NegInf
  /\ TileEnd(i, n - 1) + TileEnd(i, n) >= chunks[i + 1].start + chunks[i].end
  /\ 2 * (chunks[i + 1].start - KeptTo) < engine.tile + 4

\* The first n segments of chunk i have been looked at, or all the chunks have.
GapAt(i, n) ==
  /\ c = i /\ Seamless
  /\ i \in DOMAIN windows => /\ n <= TileCount(i)
                             /\ todo = {j \in 1..TileCount(i) : j > n}
                             /\ Near(i, n) \/ PastCut(i, n)
  /\ i \notin DOMAIN windows => /\ 2 * (setting.frames - KeptTo) < engine.tile + 6
                                /\ keptUntil = NegInf => setting.frames = 1

GapPlace == \E i \in {c}, n \in Nat : GapAt(i, n)

GapInv == c # 0 /\ engine.tile > 0 /\ Apart => GapPlace

\* The new place.
LEMMA GapArrived == ASSUME NEW i, NEW n \in Nat, GapAt(i, n)' PROVE GapPlace'
<1>1. c' = i BY DEF GapAt
<1> QED BY <1>1 DEF GapPlace

\* The time up to which something is kept.
LEMMA KeptToFacts ==
  ASSUME MergeTypeOK
  PROVE  /\ KeptTo \in Nat /\ keptUntil \in Nat \cup {NegInf} /\ NegInf = -1
         /\ keptUntil # NegInf => KeptTo = keptUntil
         /\ keptUntil = NegInf => KeptTo = 0
BY DEF MergeTypeOK, KeptTo, NegInf

\* Once MockEngine has listened, its segments are the results.
LEMMA AfterTiling ==
  FileInv /\ HearingAssumption /\ c # 0 /\ engine.tile > 0 /\ Apart => Tiled /\ MergeTypeOK
<1> SUFFICES ASSUME FileInv, HearingAssumption, c # 0, engine.tile > 0, Apart
             PROVE  Tiled /\ MergeTypeOK
  OBVIOUS
<1>1. /\ PlanInv /\ planned /\ MergeTypeOK
      /\ speech \in Recordings(setting) /\ engine \in Engines(setting)
      /\ results = [i \in DOMAIN windows |-> IF engine.tile = 0 THEN Heard(i) ELSE Tiles(i)]
  BY DEF FileInv, HearInv, MergeInv
<1>2. Ready BY <1>1 DEF Ready
<1>3. engine.tile # 0 BY <1>2, SpeechFacts
<1>4. results = [i \in DOMAIN windows |-> Tiles(i)] BY <1>1, <1>3
<1>5. DOMAIN results = DOMAIN windows BY <1>4
<1> QED BY <1>1, <1>2, <1>3, <1>4, <1>5 DEF Tiled

\* A segment that begins a little after the end of the last one goes on from it.
LEMMA SeamlessOn ==
  ASSUME Seamless, segments \in Seq(HeardSegment), NEW new, NEW F \in Nat,
         segments' = Append(segments, new), keptUntil' = F, engine' = engine,
         new.end = Stamp(F), new.start \in Nat, new.start >= Stamp(KeptTo),
         Small(new.start - Stamp(KeptTo)), keptUntil = NegInf => new.start = 0
  PROVE  Seamless'
<1> DEFINE n == Len(segments)
<1>1. /\ n \in Nat /\ Len(segments') = n + 1 /\ DOMAIN segments = 1..n
      /\ DOMAIN segments' = 1..n + 1 /\ segments'[n + 1] = new
      /\ \A j \in 1..n : segments'[j] = segments[j]
  OBVIOUS
<1>2. segments' # <<>> /\ (n = 0 <=> segments = <<>>) OBVIOUS
<1> HIDE DEF n
<1>3. KeptTo' = F /\ keptUntil' # NegInf BY DEF KeptTo, NegInf
<1>4. EndOf(segments', n + 1) = Stamp(F) BY <1>1 DEF EndOf
<1>5. \A j \in 0..n : EndOf(segments', j) = EndOf(segments, j) BY <1>1 DEF EndOf
<1>6. EndOf(segments, n) = Stamp(KeptTo) BY DEF Seamless, n
<1>7. EndOf(segments', Len(segments')) = Stamp(KeptTo)'
  <2>1. Stamp(KeptTo)' = Stamp(F) BY <1>3 DEF Stamp
  <2>2. EndOf(segments', Len(segments')) = Stamp(F) BY <1>1 DEF EndOf
  <2> QED BY <2>1, <2>2
<1>8. segments'[1].start = 0
  <2>1. CASE n = 0 BY <1>1, <1>2, <2>1 DEF Seamless
  <2>2. CASE n # 0
    <3>1. 1 \in 1..n BY <1>1, <2>2
    <3> QED BY <1>1, <1>2, <2>2, <3>1 DEF Seamless
  <2> QED BY <2>1, <2>2
<1>9. ASSUME NEW j \in 1..n + 1
      PROVE  segments'[j].start - EndOf(segments', j - 1) >= 0 /\ Small(segments'[j].start - EndOf(segments', j - 1))
  <2>1. CASE j \in 1..n
    <3>1. j - 1 \in 0..n BY <1>1, <2>1
    <3>2. EndOf(segments', j - 1) = EndOf(segments, j - 1) BY <1>5, <3>1
    <3> QED BY <1>1, <2>1, <3>2 DEF Seamless
  <2>2. CASE j = n + 1
    <3>1. j - 1 = n /\ n \in 0..n BY <1>1, <2>2
    <3>2. EndOf(segments', j - 1) = EndOf(segments, n) BY <1>5, <3>1
    <3>3. Stamp(KeptTo) \in Int
      <4>1. EndOf(segments, n) \in Nat
        <5>1. CASE n = 0 BY <5>1 DEF EndOf
        <5>2. CASE n # 0
          <6>1. n \in DOMAIN segments BY <1>1, <5>2
          <6>2. segments[n].end \in Nat BY <6>1, MergedFacts
          <6> QED BY <5>2, <6>2 DEF EndOf
        <5> QED BY <5>1, <5>2
      <4> QED BY <1>6, <4>1
    <3> QED BY <1>1, <1>6, <2>2, <3>2, <3>3
  <2> QED BY <1>1, <2>1, <2>2
<1>10. \A j \in DOMAIN segments' : /\ segments'[j].start - EndOf(segments', j - 1) >= 0
                                   /\ 2 * (segments'[j].start - EndOf(segments', j - 1) - 4) < engine'.tile
  BY <1>1, <1>9 DEF Small
<1> QED BY <1>2, <1>3, <1>7, <1>8, <1>10 DEF Seamless, Small

\* A place in the merge of MockEngine's segments.
Gapping(i, n) == /\ Tiled /\ MergeTypeOK /\ PlanAssumption /\ HearingAssumption
                 /\ i \in Nat \ {0} /\ n \in Nat /\ GapAt(i, n)

\* Every segment of the chunk has been looked at: it leaves a small gap before the next
\* chunk, or at the end of the file.
LEMMA NextChunkGap ==
  ASSUME NEW i, NEW n, Gapping(i, n), NextChunk PROVE GapPlace'
<1>1. /\ c \in DOMAIN results /\ todo = {} /\ UNCHANGED heard /\ c' = c + 1
      /\ todo' = IF c + 1 \in DOMAIN results THEN DOMAIN results[c + 1] ELSE {}
      /\ UNCHANGED <<keptUntil, segments>>
  BY DEF NextChunk, BeginChunk, acrossChunks
<1>2. /\ Tiled /\ MergeTypeOK /\ PlanAssumption /\ HearingAssumption /\ c = i /\ Seamless
      /\ i \in Nat \ {0} /\ n \in Nat
  BY DEF Gapping, GapAt
<1>3. /\ DOMAIN results = DOMAIN windows /\ DOMAIN windows = 1..Len(windows)
      /\ Len(windows) \in Nat /\ Ready /\ Apart /\ PlanInv /\ planned
  BY <1>2 DEF Tiled, Ready, PlanInv, PlanTypeOK
<1>4. /\ i \in DOMAIN windows /\ n <= TileCount(i) /\ todo = {j \in 1..TileCount(i) : j > n}
      /\ Near(i, n) \/ PastCut(i, n)
  BY <1>1, <1>2, <1>3 DEF Gapping, GapAt
<1> DEFINE t == engine.tile
           b == chunks[i].start
           e == chunks[i].end
           r == TileEnd(i, n)
           k == KeptTo
<1>5. TileCount(i) \in Nat /\ n = TileCount(i)
  <2>1. TileCount(i) \in Nat BY <1>2, <1>4, TileFacts
  <2>2. ~(TileCount(i) > n)
    <3> SUFFICES ASSUME TileCount(i) > n PROVE FALSE OBVIOUS
    <3>1. TileCount(i) \in todo BY <1>2, <1>4, <2>1
    <3> QED BY <1>1, <3>1
  <2> QED BY <1>2, <1>4, <2>1, <2>2
<1>6. /\ t \in Nat \ {0} /\ b \in Nat /\ e \in Nat /\ b <= e
      /\ r \in Nat /\ r >= e - 1 /\ b <= r
  <2>1. t \in Nat \ {0} /\ b \in Nat /\ e \in Nat /\ b <= e BY <1>2, <1>4, TileFacts
  <2>2. r \in Nat /\ b <= r BY <1>2, <1>4, TileFacts
  <2>3. TileEnd(i, TileCount(i)) >= e - 1 BY <1>2, <1>4, TileFacts
  <2> QED BY <1>5, <2>1, <2>2, <2>3
<1>7. k \in Nat BY <1>2, KeptToFacts
<1>8. Near(i, n) => /\ IF r > b THEN 2 * (r - k) < t + 2 ELSE 2 * (r - k) < t + 4
                    /\ keptUntil = NegInf => i = 1 /\ r = 0
  BY DEF Near
<1>9. KeptTo' = k /\ (keptUntil = NegInf)' = (keptUntil = NegInf) BY <1>1 DEF KeptTo
<1>10. Seamless'
  <2>1. \A j : EndOf(segments', j) = EndOf(segments, j) BY <1>1 DEF EndOf
  <2>2. engine' = engine BY <1>1, SameTiles
  <2>3. Stamp(KeptTo)' = Stamp(KeptTo) BY <1>9 DEF Stamp
  <2>4. EndOf(segments', Len(segments')) = EndOf(segments, Len(segments)) BY <1>1
  <2> QED BY <1>1, <1>2, <2>1, <2>2, <2>3, <2>4 DEF Seamless, Small
<1>11. CASE i < Len(windows)
  <2> DEFINE h == i + 1
             d == chunks[h].start
  <2>1. h \in DOMAIN windows /\ h \in Nat /\ h # 1 /\ i \in 1..Len(windows) - 1
    BY <1>2, <1>3, <1>11
  <2>2. d \in Nat /\ TileEnd(h, 0) = d /\ TileCount(h) \in Nat BY <1>2, <2>1, TileFacts
  <2>3. d - b > 1 BY <1>3, <2>1 DEF Apart
  <2>4. d <= e BY <1>2, <1>3, <2>1, NeighboursShare DEF chunks
  <2>5. /\ 2 * (d - k) < t + 4 /\ keptUntil # NegInf
    <3>1. CASE Near(i, n)
      <4> HIDE DEF t, b, e, r, k, d
      <4>1. r > b /\ r >= d - 1 /\ r # 0 BY <1>6, <2>2, <2>3, <2>4
      <4>2. 2 * (r - k) < t + 2 BY <1>8, <3>1, <4>1
      <4> QED BY <1>6, <1>7, <1>8, <2>2, <3>1, <4>1, <4>2
    <3>2. CASE PastCut(i, n) BY <3>2 DEF PastCut
    <3> QED BY <1>4, <3>1, <3>2
  <2>6. Near(h, 0)'
    <3>1. TileEnd(h, 0)' = d /\ chunks'[h].start = d /\ engine' = engine
      BY <1>1, <2>2, SameTiles
    <3> HIDE DEF h, d, k, t
    <3>2. ~(d > d) BY <2>2
    <3> QED BY <1>9, <2>5, <3>1, <3>2 DEF Near, t
  <2>7. todo' = {j \in 1..TileCount(h)' : j > 0}
    <3>1. todo' = DOMAIN results[h] BY <1>1, <1>2, <1>3, <2>1
    <3>2. DOMAIN results[h] = 1..TileCount(h) BY <1>2, <2>1, TileAt
    <3>3. TileCount(h)' = TileCount(h) BY <1>1, SameTiles
    <3> HIDE DEF h
    <3> QED BY <2>2, <3>1, <3>2, <3>3
  <2>8. /\ windows' = windows /\ TileCount(h)' = TileCount(h) BY <1>1, SameTiles
  <2>9. c' = h BY <1>1, <1>2
  <2> HIDE DEF h
  <2>10. GapAt(h, 0)' BY <1>10, <2>1, <2>2, <2>6, <2>7, <2>8, <2>9 DEF GapAt
  <2>11. 0 \in Nat OBVIOUS
  <2> QED BY <2>10, <2>11, GapArrived
<1>12. CASE ~(i < Len(windows))
  <2> DEFINE h == i + 1
             f == setting.frames
  <2>1. i = Len(windows) /\ h \notin DOMAIN windows
    <3> DEFINE q == Len(windows)
    <3>1. i \in 1..q /\ q \in Nat /\ ~(i < q) BY <1>3, <1>4, <1>12
    <3> HIDE DEF q
    <3>2. i = q /\ h \notin 1..q BY <3>1
    <3> HIDE DEF h
    <3> QED BY <1>3, <3>2 DEF q
  <2>2. f = e BY <1>2, <1>3, <2>1, WholeFile DEF chunks
  <2>3. f \in Nat \ {0} BY <1>2, <1>3, SettingFacts DEF PlanInv, PlanTypeOK
  <2>4. Near(i, n) BY <1>4, <1>12 DEF PastCut
  <2>5. 2 * (f - k) < t + 6 /\ (keptUntil = NegInf => f = 1)
    <3> HIDE DEF t, b, e, r, k, f
    <3> QED BY <1>6, <1>7, <1>8, <2>2, <2>3, <2>4
  <2>6. UNCHANGED <<windows, setting, engine>> BY <1>1, SameTiles
  <2>7. c' = h BY <1>1, <1>2
  <2> HIDE DEF h
  <2>8. GapAt(h, 0)'
    BY <1>1, <1>9, <1>10, <2>1, <2>5, <2>6, <2>7 DEF GapAt
  <2>9. 0 \in Nat OBVIOUS
  <2> QED BY <2>8, <2>9, GapArrived
<1> QED BY <1>11, <1>12

\* The segments of a chunk are looked at in their order.
LEMMA NextTile ==
  ASSUME Tiled, MergeTypeOK, PlanAssumption, HearingAssumption,
         NEW i \in DOMAIN windows, NEW n \in Nat, n <= TileCount(i),
         todo = {j \in 1..TileCount(i) : j > n}, todo # {}
  PROVE  n + 1 \in 1..TileCount(i) /\ Earliest(todo, results[i]) = n + 1
<1> DEFINE q == TileCount(i)
           s == results[i]
           g == Earliest(todo, s)
<1>1. q \in Nat /\ chunks[i].start \in Nat BY TileFacts
<1>2. \A j \in 1..q : /\ s[j].start \in Nat /\ s[j].end \in Nat
                      /\ s[j].start + chunks[i].start = TileEnd(i, j - 1)
                      /\ s[j].end + chunks[i].start = TileEnd(i, j)
  BY TileAt
<1>3. ASSUME NEW j \in todo, NEW k \in todo, j < k
      PROVE  s[j].start <= s[k].start /\ s[j].end <= s[k].end
  <2>1. j \in 1..q /\ k \in 1..q OBVIOUS
  <2>2. j - 1 \in Nat /\ k - 1 \in Nat /\ j \in Nat /\ k \in Nat /\ j - 1 <= k - 1 /\ j <= k
    BY <1>1, <1>3, <2>1
  <2>3. TileEnd(i, j - 1) <= TileEnd(i, k - 1) /\ TileEnd(i, j) <= TileEnd(i, k)
    BY <2>2, TileMonotone
  <2>4. /\ s[j].start \in Nat /\ s[j].end \in Nat /\ s[k].start \in Nat /\ s[k].end \in Nat
        /\ s[j].start + chunks[i].start = TileEnd(i, j - 1)
        /\ s[k].start + chunks[i].start = TileEnd(i, k - 1)
        /\ s[j].end + chunks[i].start = TileEnd(i, j)
        /\ s[k].end + chunks[i].start = TileEnd(i, k)
    BY <1>2, <2>1
  <2> DEFINE a == s[j].start  a2 == s[j].end  z == s[k].start  z2 == s[k].end
             b == chunks[i].start
  <2>5. a + b <= z + b /\ a2 + b <= z2 + b BY <2>3, <2>4
  <2>6. a \in Nat /\ a2 \in Nat /\ z \in Nat /\ z2 \in Nat /\ b \in Nat BY <1>1, <2>4
  <2> HIDE DEF a, a2, z, z2, b
  <2>7. a <= z /\ a2 <= z2 BY <2>5, <2>6
  <2> QED BY <2>7 DEF a, a2, z, z2
<1>4. todo \in SUBSET Nat /\ \A j \in todo : s[j].start \in Nat /\ s[j].end \in Nat
  BY <1>1, <1>2
<1> HIDE DEF s
<1>5. g \in todo /\ \A j \in todo : g <= j BY <1>3, <1>4, EarliestLeast
<1>6. g \in 1..q /\ g > n BY <1>5
<1> HIDE DEF g
<1>7. n + 1 \in 1..q /\ n + 1 > n BY <1>1, <1>6
<1>8. n + 1 \in todo BY <1>7
<1>9. g <= n + 1 BY <1>5, <1>8
<1>10. g = n + 1 BY <1>1, <1>6, <1>9
<1> QED BY <1>7, <1>10 DEF g, s

\* A segment is kept, and what is before it is less than half of one, or it is left out and
\* reaches little further than what is kept.
LEMMA MergeSegmentGap ==
  ASSUME NEW i, NEW n, Gapping(i, n), MergeSegment PROVE GapPlace'
<1>1. todo # {} /\ UNCHANGED heard /\ UNCHANGED c BY DEF MergeSegment
<1>2. /\ Tiled /\ MergeTypeOK /\ PlanAssumption /\ HearingAssumption /\ c = i /\ Seamless
      /\ i \in Nat \ {0} /\ n \in Nat
  BY DEF Gapping, GapAt
<1>3. /\ DOMAIN results = DOMAIN windows /\ DOMAIN windows = 1..Len(windows)
      /\ Len(windows) \in Nat /\ Ready /\ Apart /\ PlanInv /\ planned
      /\ Len(results) = Len(windows)
  BY <1>2 DEF Tiled, Ready, PlanInv, PlanTypeOK, MergeTypeOK
<1>4. i \in DOMAIN windows BY <1>1, <1>2, <1>3, SegmentFacts
<1>5. /\ n <= TileCount(i) /\ todo = {j \in 1..TileCount(i) : j > n}
      /\ Near(i, n) \/ PastCut(i, n)
  BY <1>4 DEF Gapping, GapAt
<1>6. n + 1 \in 1..TileCount(i) /\ Earliest(todo, results[i]) = n + 1
  BY <1>1, <1>2, <1>4, <1>5, NextTile
<1> DEFINE t == engine.tile
           b == chunks[i].start
           e == chunks[i].end
           k == KeptTo
           x == TileEnd(i, n)
           y == TileEnd(i, n + 1)
           clamped == Greater(x, keptUntil)
           new == SegmentOf(Len(segments), Stamp(clamped), Stamp(y), results[i][n + 1].text, <<>>)
           Skip == BeforeKept(x, y) \/ BeyondCut(x, y) \/ clamped >= y
<1>7. /\ results[i][n + 1].start + b = x /\ results[i][n + 1].end + b = y
  <2>1. (n + 1) - 1 = n BY <1>2
  <2>2. results[i][n + 1].start + b = TileEnd(i, (n + 1) - 1)
        /\ results[i][n + 1].end + b = y
    BY <1>2, <1>4, <1>6, TileAt
  <2> QED BY <2>1, <2>2
<1>8. /\ todo' = todo \ {n + 1}
      /\ Skip => UNCHANGED <<segments, keptUntil>>
      /\ ~Skip => keptUntil' = y /\ segments' = Append(segments, new)
  BY <1>2, <1>6, <1>7 DEF MergeSegment
<1>9. /\ t \in Nat \ {0} /\ b \in Nat /\ e \in Nat /\ b <= e /\ TileCount(i) \in Nat
      /\ x \in Nat /\ y \in Nat /\ b <= x /\ x <= y /\ y <= x + t + 2 /\ y <= e + 1
  <2>1. t \in Nat \ {0} /\ b \in Nat /\ e \in Nat /\ b <= e /\ TileCount(i) \in Nat
    BY <1>2, <1>4, TileFacts
  <2>2. x \in Nat /\ y \in Nat /\ b <= x /\ x <= y /\ y <= x + t + 2 /\ y <= e + 1
    BY <1>2, <1>4, TileFacts
  <2> QED BY <2>1, <2>2
<1>10. /\ k \in Nat /\ keptUntil \in Nat \cup {NegInf} /\ NegInf = -1
       /\ keptUntil # NegInf => k = keptUntil
       /\ keptUntil = NegInf => k = 0
  BY <1>2, KeptToFacts
<1>11. Near(i, n) => /\ IF x > b THEN 2 * (x - k) < t + 2 ELSE 2 * (x - k) < t + 4
                     /\ keptUntil = NegInf => i = 1 /\ x = 0
  BY DEF Near
<1>12. BeforeKept(x, y) <=> x + y < 2 * keptUntil BY DEF BeforeKept
<1>13. BeyondCut(x, y) <=> i < Len(windows) /\ x + y >= chunks[i + 1].start + e
  BY <1>2, <1>3 DEF BeyondCut
<1>14. clamped = IF x >= keptUntil THEN x ELSE keptUntil BY DEF Greater
<1>15. i < Len(windows) => chunks[i + 1].start \in Nat /\ chunks[i + 1].start - b > 1
  <2> SUFFICES ASSUME i < Len(windows)
               PROVE  chunks[i + 1].start \in Nat /\ chunks[i + 1].start - b > 1
    OBVIOUS
  <2>1. i \in 1..Len(windows) - 1 /\ i + 1 \in DOMAIN windows BY <1>2, <1>3
  <2>2. chunks[i + 1].start \in Nat
    <3> DEFINE h == i + 1
    <3>1. h \in DOMAIN windows BY <2>1
    <3> HIDE DEF h
    <3>2. chunks[h].start \in Nat BY <1>2, <1>3, <3>1, PlannedChunk
    <3> QED BY <3>2 DEF h
  <2> QED BY <1>3, <2>1, <2>2 DEF Apart
\* What remains to be shown of the new place.
<1>16. /\ UNCHANGED <<windows, setting, engine, chunks>>
       /\ TileCount(i)' = TileCount(i) /\ \A j : TileEnd(i, j)' = TileEnd(i, j)
  <2>1. TileEnd(i, n)' = TileEnd(i, n) /\ TileCount(i)' = TileCount(i) /\ i = c BY <1>1, <1>2, SameTiles
  <2> QED BY <1>1, SameTiles
<1>17. n + 1 \in Nat /\ n + 1 <= TileCount(i) /\ c' = i
  BY <1>1, <1>2, <1>6, <1>9
<1>18. todo' = {j \in 1..TileCount(i) : j > n + 1}
  <2> DEFINE q == TileCount(i)
  <2>1. q \in Nat BY <1>9
  <2> HIDE DEF q
  <2>2. {j \in 1..q : j > n} \ {n + 1} = {j \in 1..q : j > n + 1} BY <1>2, <2>1
  <2> QED BY <1>5, <1>8, <2>2 DEF q
<1>19. SUFFICES Seamless' /\ (Near(i, n + 1)' \/ PastCut(i, n + 1)')
  <2> DEFINE m == n + 1
  <2> SUFFICES ASSUME Seamless', Near(i, m)' \/ PastCut(i, m)' PROVE GapPlace' OBVIOUS
  <2>1. m \in Nat /\ m <= TileCount(i)' /\ todo' = {j \in 1..TileCount(i)' : j > m}
    BY <1>16, <1>17, <1>18
  <2> HIDE DEF m
  <2>2. GapAt(i, m)' BY <1>4, <1>16, <1>17, <2>1 DEF GapAt
  <2> QED BY <2>1, <2>2, GapArrived
<1>20. CASE Skip
  <2>1. UNCHANGED <<segments, keptUntil>> BY <1>8, <1>20
  <2>2. KeptTo' = k /\ keptUntil' = keptUntil BY <2>1 DEF KeptTo
  <2>3. Seamless'
    <3>1. Stamp(KeptTo)' = Stamp(KeptTo) BY <2>2 DEF Stamp
    <3>2. EndOf(segments', Len(segments')) = EndOf(segments, Len(segments)) BY <2>1
    <3> QED BY <1>2, <1>16, <2>1, <3>1, <3>2 DEF Seamless, Small
  <2> DEFINE NearNext == /\ 2 * (y - k) < t + 2
                         /\ keptUntil = NegInf => i = 1 /\ y = 0
             d == chunks[i + 1].start
             PastNext == /\ i < Len(windows) /\ keptUntil # NegInf
                         /\ x + y >= d + e /\ 2 * (d - k) < t + 4
  <2>4. Near(i, n) => NearNext \/ PastNext \/ (y = x /\ ~BeforeKept(x, y) /\ ~BeyondCut(x, y))
    <3> SUFFICES ASSUME Near(i, n)
                 PROVE  NearNext \/ PastNext \/ (y = x /\ ~BeforeKept(x, y) /\ ~BeyondCut(x, y))
      OBVIOUS
    <3>1. CASE BeforeKept(x, y)
      <4>1. x + y < 2 * keptUntil BY <1>12, <3>1
      <4> HIDE DEF t, b, e, k, x, y
      <4>2. keptUntil # NegInf /\ k = keptUntil BY <1>9, <1>10, <4>1
      <4>3. 2 * (y - k) < t + 2 BY <1>9, <1>10, <4>1, <4>2
      <4> QED BY <4>2, <4>3
    <3>2. CASE BeyondCut(x, y)
      <4>1. i < Len(windows) /\ x + y >= d + e /\ d \in Nat /\ d - b > 1 BY <1>13, <1>15, <3>2
      <4> HIDE DEF t, b, e, k, x, y, d
      <4>2. x > b /\ x # 0 /\ x >= d - 1 BY <1>9, <4>1
      <4>3. 2 * (x - k) < t + 2 /\ keptUntil # NegInf BY <1>11, <4>2
      <4>4. 2 * (d - k) < t + 4 BY <1>9, <1>10, <4>1, <4>2, <4>3
      <4> QED BY <4>1, <4>3, <4>4
    <3>3. CASE ~BeforeKept(x, y) /\ ~BeyondCut(x, y)
      <4>1. clamped >= y BY <1>20, <3>3
      <4> HIDE DEF t, b, e, k, x, y, clamped
      <4>2. y = x \/ (keptUntil >= y /\ keptUntil # NegInf) BY <1>9, <1>10, <1>14, <4>1
      <4>3. keptUntil >= y /\ keptUntil # NegInf => 2 * (y - k) < t + 2 BY <1>9, <1>10
      <4> QED BY <3>3, <4>2, <4>3
    <3> QED BY <3>1, <3>2, <3>3
  <2>5. CASE Near(i, n) /\ NearNext
    <3> DEFINE m == n + 1
    <3>1. TileEnd(i, m)' = y BY <1>16
    <3>2. chunks'[i].start = b /\ engine'.tile = t BY <1>16
    <3>3. 2 * (y - k) < t + 2 /\ 2 * (y - k) < t + 4
      <4> HIDE DEF t, k, y
      <4> QED BY <1>9, <1>10, <2>5 DEF NearNext
    <3> HIDE DEF m
    <3>4. Near(i, m)' BY <2>2, <2>5, <3>1, <3>2, <3>3 DEF Near
    <3> QED BY <2>3, <3>4 DEF m
  <2>6. CASE Near(i, n) /\ y = x
    <3> DEFINE m == n + 1
    <3>1. TileEnd(i, m)' = y BY <1>16
    <3>2. chunks'[i].start = b /\ engine'.tile = t BY <1>16
    <3> HIDE DEF m
    <3>3. Near(i, m)' BY <1>11, <2>2, <2>6, <3>1, <3>2 DEF Near
    <3> QED BY <2>3, <3>3 DEF m
  <2>7. CASE PastNext
    <3> DEFINE m == n + 1
    <3>1. TileEnd(i, m)' = y /\ TileEnd(i, m - 1)' = x
      <4>1. m - 1 = n BY <1>2
      <4>2. TileEnd(i, m - 1)' = TileEnd(i, m - 1) BY <1>16
      <4> QED BY <1>16, <4>1, <4>2
    <3>2. chunks'[i + 1].start = d /\ chunks'[i].end = e /\ engine'.tile = t /\ windows' = windows
      BY <1>16
    <3>3. m > 0 BY <1>2
    <3> HIDE DEF m
    <3>4. PastCut(i, m)' BY <2>2, <2>7, <3>1, <3>2, <3>3 DEF PastCut
    <3> QED BY <2>3, <3>4 DEF m
  <2>8. PastCut(i, n) => PastNext
    <3> SUFFICES ASSUME PastCut(i, n) PROVE PastNext OBVIOUS
    <3>1. /\ i < Len(windows) /\ n > 0 /\ keptUntil # NegInf
          /\ TileEnd(i, n - 1) + x >= d + e /\ 2 * (d - k) < t + 4
      BY DEF PastCut
    <3>2. n - 1 \in Nat /\ n - 1 <= n BY <1>2, <3>1
    <3>3. TileEnd(i, n - 1) <= x /\ TileEnd(i, n - 1) \in Nat BY <1>2, <1>4, <3>2, TileMonotone
    <3>4. x + y >= d + e
      <4> DEFINE w == TileEnd(i, n - 1)
      <4>1. w \in Nat /\ w <= x /\ w + x >= d + e /\ d \in Nat BY <1>15, <3>1, <3>3
      <4> HIDE DEF w, x, y, d, e
      <4> QED BY <1>9, <4>1
    <3> QED BY <3>1, <3>4
  <2> HIDE DEF NearNext, PastNext
  <2> QED BY <1>5, <2>4, <2>5, <2>6, <2>7, <2>8
<1>21. CASE ~Skip
  <2>1. keptUntil' = y /\ segments' = Append(segments, new) BY <1>8, <1>21
  <2>2. ~BeforeKept(x, y) /\ ~BeyondCut(x, y) /\ ~(clamped >= y) BY <1>21
  <2>3. Near(i, n)
    <3> SUFFICES ASSUME PastCut(i, n) PROVE FALSE BY <1>5
    <3>1. /\ i < Len(windows) /\ n > 0
          /\ TileEnd(i, n - 1) + x >= chunks[i + 1].start + e
      BY DEF PastCut
    <3>2. n - 1 \in Nat /\ n - 1 <= n BY <1>2, <3>1
    <3>3. TileEnd(i, n - 1) <= x /\ TileEnd(i, n - 1) \in Nat BY <1>2, <1>4, <3>2, TileMonotone
    <3>4. x + y >= chunks[i + 1].start + e
      <4> DEFINE w == TileEnd(i, n - 1)
                 d == chunks[i + 1].start
      <4>1. w \in Nat /\ w <= x /\ w + x >= d + e /\ d \in Nat BY <1>15, <3>1, <3>3
      <4>2. x + y >= d + e
        <5> HIDE DEF w, x, y, d, e
        <5> QED BY <1>9, <4>1
      <4> QED BY <4>2
    <3> QED BY <1>13, <2>2, <3>1, <3>4
  <2>4. 2 * (x - k) < t + 4 /\ (keptUntil = NegInf => x = 0)
    <3> HIDE DEF t, b, k, x
    <3> QED BY <1>9, <1>10, <1>11, <2>3
  <2>5. clamped \in Nat /\ k <= clamped /\ (clamped = x \/ clamped = k)
        /\ (keptUntil = NegInf => clamped = 0)
    <3> HIDE DEF k, x, clamped
    <3> QED BY <1>9, <1>10, <1>14, <2>4
  <2>6. 2 * (clamped - k) < t + 4
    <3> HIDE DEF t, k, x, clamped
    <3> QED BY <1>9, <1>10, <2>4, <2>5
  <2>7. /\ Stamp(clamped) \in Nat /\ Stamp(k) \in Nat /\ Stamp(k) <= Stamp(clamped)
        /\ Stamp(clamped) <= clamped + 1 /\ k - 1 <= Stamp(k) /\ Stamp(0) = 0
    <3> HIDE DEF k, clamped
    <3>1. Stamp(0) = 0 BY DEF Stamp
    <3> QED BY <1>10, <2>5, <3>1, StampFacts, StampNear
  <2>8. Small(Stamp(clamped) - Stamp(k))
    <3> DEFINE p == Stamp(clamped)
               q == Stamp(k)
    <3>1. 2 * (p - q - 4) < t
      <4>1. p \in Nat /\ q \in Nat /\ p <= clamped + 1 /\ k - 1 <= q BY <2>7
      <4> HIDE DEF p, q, t, k, clamped
      <4> QED BY <1>9, <1>10, <2>5, <2>6, <4>1
    <3> QED BY <3>1 DEF Small
  <2>9. new.start = Stamp(clamped) /\ new.end = Stamp(y) BY DEF SegmentOf
  <2>10. keptUntil = NegInf => new.start = 0 BY <2>5, <2>7, <2>9
  <2>11. segments \in Seq(HeardSegment) BY <1>2 DEF MergeTypeOK
  <2>12. Seamless'
    <3> HIDE DEF new, clamped, y
    <3> QED BY <1>2, <1>9, <1>16, <2>1, <2>7, <2>8, <2>9, <2>10, <2>11, SeamlessOn DEF k
  <2>13. KeptTo' = y /\ keptUntil' # NegInf
    <3> HIDE DEF y
    <3> QED BY <1>9, <1>10, <2>1 DEF KeptTo, NegInf
  <2>14. Near(i, n + 1)'
    <3> DEFINE m == n + 1
    <3>1. TileEnd(i, m)' = y BY <1>16
    <3>2. engine'.tile = t BY <1>16
    <3>3. 2 * (y - y) < t + 2 /\ 2 * (y - y) < t + 4
      <4> HIDE DEF t, y
      <4> QED BY <1>9
    <3> HIDE DEF m
    <3>4. Near(i, m)' BY <2>13, <3>1, <3>2, <3>3 DEF Near
    <3> QED BY <3>4 DEF m
  <2> QED BY <2>12, <2>14
<1> QED BY <1>20, <1>21

\* MockEngine has listened, and nothing is merged yet.
Unmerged == /\ FileInv /\ c = 1 /\ engine.tile > 0 /\ Apart
            /\ todo = DOMAIN results[1] /\ keptUntil = NegInf /\ segments = <<>>

\* The first segment is expected at the beginning of the file.
LEMMA FirstTile == Unmerged /\ PlanAssumption /\ HearingAssumption => GapPlace
<1> SUFFICES ASSUME Unmerged, PlanAssumption, HearingAssumption PROVE GapPlace OBVIOUS
<1>1. /\ FileInv /\ c = 1 /\ engine.tile > 0 /\ Apart /\ todo = DOMAIN results[1]
      /\ keptUntil = NegInf /\ segments = <<>>
  BY DEF Unmerged
<1>2. Tiled /\ MergeTypeOK BY <1>1, AfterTiling
<1>3. PlanInv /\ planned BY <1>2 DEF Tiled, Ready
<1>4. 1 \in DOMAIN windows
  <2>1. DOMAIN windows = 1..Len(windows) /\ Len(windows) \in Nat /\ Len(windows) > 0
    BY <1>3 DEF PlanInv, PlanTypeOK, WindowInv
  <2> QED BY <2>1
<1>5. chunks[1].start = 0 BY <1>3, WholeFile DEF chunks
<1>6. /\ engine.tile \in Nat \ {0} /\ TileCount(1) \in Nat /\ TileEnd(1, 0) = 0
  BY <1>2, <1>4, <1>5, TileFacts
<1>7. KeptTo = 0 BY <1>1 DEF KeptTo
<1>8. Seamless
  <2>1. Stamp(0) = 0 BY DEF Stamp
  <2>2. Len(segments) = 0 /\ DOMAIN segments = {} BY <1>1
  <2> QED BY <1>1, <1>7, <2>1, <2>2 DEF Seamless, EndOf
<1>9. Near(1, 0) BY <1>5, <1>6, <1>7 DEF Near
<1>10. todo = {j \in 1..TileCount(1) : j > 0}
  <2>1. DOMAIN results[1] = 1..TileCount(1) BY <1>2, <1>4, TileAt
  <2> QED BY <1>1, <1>6, <2>1
<1>11. GapAt(1, 0) BY <1>1, <1>4, <1>6, <1>8, <1>9, <1>10 DEF GapAt
<1> QED BY <1>1, <1>11 DEF GapPlace

\* Every step of the file keeps the gaps small.
LEMMA GapGoesOn ==
  FileInv /\ FileInv' /\ GapInv /\ [Next]_vars /\ PlanAssumption /\ HearingAssumption => GapInv'
<1> SUFFICES ASSUME FileInv, FileInv', GapInv, [Next]_vars, PlanAssumption, HearingAssumption,
                    c' # 0, engine'.tile > 0, Apart'
             PROVE  GapPlace'
  BY DEF GapInv
<1>1. CASE Plan
  <2>1. ~planned /\ c' = c BY <1>1 DEF Plan, PlanWindow
  <2> QED BY <2>1 DEF FileInv
<1>2. CASE Transcribe
  <2>1. /\ c' = 1 /\ todo' = DOMAIN results'[1] /\ UNCHANGED <<keptUntil, segments>>
    BY <1>2 DEF Transcribe, acrossChunks
  <2>2. keptUntil = NegInf /\ segments = <<>> BY <1>2 DEF Transcribe, FileInv
  <2>3. Unmerged' BY <2>1, <2>2 DEF Unmerged
  <2> QED BY <2>3, FirstTile, PTL
<1>3. CASE Merge \/ UNCHANGED vars
  <2>1. UNCHANGED heard
    BY <1>3 DEF Merge, NextChunk, SegmentBegins, WordBeyondCut, WordKeptBefore, WordHeardTwice,
       WordKept, SegmentEnds, MergeSegment, heard, vars
  <2>2. engine.tile > 0 /\ Apart BY <2>1, SameTiles
  <2>3. c # 0 BY <1>3, MergeAfterHearing DEF vars
  <2>4. Tiled /\ MergeTypeOK BY <2>2, <2>3, AfterTiling
  <2>5. ~Worded /\ seg = 0 BY <2>4, NeverWorded DEF MergeTypeOK
  <2>6. PICK i \in {c}, n \in Nat : GapAt(i, n) BY <2>2, <2>3 DEF GapInv, GapPlace
  <2>7. Gapping(i, n) BY <2>4, <2>6 DEF Gapping, MergeTypeOK
  <2>8. CASE NextChunk BY <2>7, <2>8, NextChunkGap
  <2>9. CASE MergeSegment BY <2>7, <2>9, MergeSegmentGap
  <2>10. CASE SegmentBegins \/ WordBeyondCut \/ WordKeptBefore \/ WordHeardTwice \/ WordKept
              \/ SegmentEnds
    BY <2>5, <2>10 DEF SegmentBegins, WordBeyondCut, WordKeptBefore, WordHeardTwice, WordKept,
       TakeWord, SegmentEnds
  <2>11. CASE UNCHANGED vars
    <3>1. UNCHANGED <<c, todo, keptUntil, segments>> BY <2>11 DEF vars, acrossChunks
    <3>2. KeptTo' = KeptTo BY <3>1 DEF KeptTo
    <3>3. UNCHANGED <<setting, windows, engine, chunks>> /\ TileCount(i)' = TileCount(i)
          /\ \A m : TileEnd(i, m)' = TileEnd(i, m)
      <4>1. TileCount(i)' = TileCount(i) /\ i = c BY <2>1, <2>6, <3>1, SameTiles
      <4> QED BY <2>1, SameTiles
    <3>4. Stamp(KeptTo)' = Stamp(KeptTo) BY <3>2 DEF Stamp
    <3>5. Seamless' BY <2>6, <3>1, <3>3, <3>4 DEF GapAt, Seamless, Small
    <3>6. Near(i, n) => Near(i, n)' BY <3>1, <3>2, <3>3 DEF Near
    <3>7. PastCut(i, n) => PastCut(i, n)' BY <3>1, <3>2, <3>3 DEF PastCut
    <3>8. GapAt(i, n)' BY <2>6, <3>1, <3>2, <3>3, <3>5, <3>6, <3>7 DEF GapAt
    <3> QED BY <3>8, GapArrived
  <2> QED BY <1>3, <2>8, <2>9, <2>10, <2>11 DEF Merge
<1> QED BY <1>1, <1>2, <1>3 DEF Next

\* The invariant is one.
LEMMA GapInvariant == Spec => []GapInv
<1>1. Init => GapInv BY DEF Init, GapInv
<1> QED BY <1>1, GapGoesOn, FileInvariant, PlanAssumption, HearingAssumption, PTL DEF Spec

\* Without word timings the transcript covers the file up to half a segment at each seam and
\* at the end, and begins with it: whatever the length of the file, of its chunks and of the
\* segments, and however many chunks there are (merge.py:137-160).
THEOREM SegmentsCoverFile == Spec => []FallbackGap
<1>1. ASSUME FileInv, GapInv, PlanAssumption, HearingAssumption PROVE FallbackGap
  <2> SUFFICES ASSUME Merged, engine.tile > 0, Apart
               PROVE  LET end == [j \in 0..Len(segments) |-> IF j = 0 THEN 0 ELSE segments[j].end]
                      IN  /\ IF segments = <<>> THEN setting.frames = 1 ELSE segments[1].start = 0
                          /\ Small(setting.frames - end[Len(segments)])
                          /\ \A j \in DOMAIN segments :
                               LET gap == segments[j].start - end[j - 1] IN gap >= 0 /\ Small(gap)
    BY DEF FallbackGap, Small
  <2> DEFINE z == Len(segments)
             end == [j \in 0..z |-> IF j = 0 THEN 0 ELSE segments[j].end]
  <2>1. c # 0 BY <1>1 DEF FileInv, Merged
  <2>2. Tiled /\ MergeTypeOK BY <1>1, <2>1, AfterTiling
  <2>3. PICK i \in {c}, n \in Nat : GapAt(i, n) BY <1>1, <2>1 DEF GapInv, GapPlace
  <2>4. z \in Nat /\ DOMAIN segments = 1..z BY <2>2 DEF MergeTypeOK
  <2>5. i \notin DOMAIN windows
    <3>1. DOMAIN windows = 1..Len(windows) /\ Len(results) = Len(windows) /\ Len(windows) \in Nat
      BY <2>2 DEF MergeTypeOK, Tiled, Ready, PlanInv, PlanTypeOK
    <3>2. c > Len(results) /\ c \in Nat BY <2>2 DEF Merged, MergeTypeOK
    <3> QED BY <3>1, <3>2
  <2>6. /\ Seamless /\ 2 * (setting.frames - KeptTo) < engine.tile + 6
        /\ keptUntil = NegInf => setting.frames = 1
    BY <2>3, <2>5 DEF GapAt
  <2>7. \A j \in 0..z : end[j] = EndOf(segments, j) BY DEF EndOf
  <2>8. end[z] = Stamp(KeptTo)
    <3>1. z \in 0..z BY <2>4
    <3> QED BY <2>6, <2>7, <3>1 DEF Seamless
  <2>9. Small(setting.frames - end[z])
    <3> DEFINE s == Stamp(KeptTo)
               f == setting.frames
               k == KeptTo
               t == engine.tile
    <3>1. k \in Nat /\ s \in Nat /\ k - 1 <= s BY <2>2, KeptToFacts, StampNear
    <3>2. f \in Nat BY <1>1, SettingFacts DEF FileInv, PlanInv, PlanTypeOK
    <3>3. t \in Nat BY <1>1, <2>2, SpeechFacts DEF Tiled
    <3>4. 2 * (f - k) < t + 6 BY <2>6
    <3> HIDE DEF s, f, k, t
    <3>5. 2 * (f - s - 4) < t BY <3>1, <3>2, <3>3, <3>4
    <3> QED BY <2>8, <3>5 DEF Small, s, f, t
  <2>10. ASSUME NEW j \in DOMAIN segments
         PROVE  segments[j].start - end[j - 1] >= 0 /\ Small(segments[j].start - end[j - 1])
    <3>1. j - 1 \in 0..z BY <2>4
    <3>2. end[j - 1] = EndOf(segments, j - 1) BY <2>7, <3>1
    <3> QED BY <2>6, <3>2 DEF Seamless
  <2>11. IF segments = <<>> THEN setting.frames = 1 ELSE segments[1].start = 0
    BY <2>6 DEF Seamless
  <2> QED BY <2>9, <2>10, <2>11
<1> QED BY <1>1, GapInvariant, FileInvariant, PlanAssumption, HearingAssumption, PTL
====
