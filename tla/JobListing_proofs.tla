---- MODULE JobListing_proofs ----
(***************************************************************************)
(* Proofs about JobListing for any number of jobs and callers, any page    *)
(* sizes and statuses, and clients that walk for as long as they like.     *)
(***************************************************************************)
EXTENDS JobListing, SequenceTheorems, FiniteSetTheorems, TLAPS

Listed(r) == {r[p] : p \in DOMAIN r}
Once(r) == \A p, q \in DOMAIN r : r[p] = r[q] => p = q

\* A job has one row.
OneRow == Once(rows)

\* Jobs that match and come at or behind the offset: they are still to be sent.
Behind(from) == {j \in Matching : rank(j) >= from}

\* A steady job that the client has passed without getting it cost a job that left.
Passed(from) == {j \in steady \ got : rank(j) < from}
SkipInv == offset >= 0 => steady \subseteq Matching /\ Cardinality(Passed(offset)) <= left

\* Repeats so far, and those that are still to come, each cost a job that entered.
RepeatInv == offset >= 0 =>
  /\ IsFiniteSet(got)
  /\ items - Cardinality(got) + Cardinality(got \cap Behind(offset)) <= entered

BeforeInv == offset = NotYet => got = {} /\ items = 0 /\ left = 0 /\ entered = 0

\* Without a status no job ever leaves.
AnyInv == filter = "any" => left = 0

DoneInv == offset = Done => IsFiniteSet(steady)

ListingInv == TypeOK /\ OneRow /\ SkipInv /\ RepeatInv /\ BeforeInv /\ AnyInv /\ DoneInv
              /\ DriftBounded

USE ListingAssumption

----------------------------------------------------------------------------
(* Numbers and finite sets.                                                *)

Below == {p \in Nat \X Nat : p[1] < p[2]}

\* A set of natural numbers has a least one.
LEMMA Least == ASSUME NEW S \in SUBSET Nat, S # {} PROVE \E m \in S : \A n \in S : m <= n
<1>0. IsWellFoundedOn(Below, Nat) BY NatLessThanWellFounded, Zenon DEF OpToRel, Below
<1>1. PICK m \in S : \A n \in S : ~ (<<n, m>> \in Below) BY <1>0, WFMin
<1>2. ASSUME NEW n \in S PROVE m <= n
  <2>1. n \in Nat /\ m \in Nat /\ <<n, m>> \notin Below BY <1>1
  <2>2. ~(n < m) BY <2>1 DEF Below
  <2> QED BY <2>1, <2>2
<1> QED BY <1>2

\* A set with at most one element more has at most one more.
LEMMA AtMostOneMore ==
  ASSUME NEW A, NEW B, IsFiniteSet(A), \A x, y \in B \ A : x = y
  PROVE  IsFiniteSet(B) /\ Cardinality(B) \in Nat /\ Cardinality(B) <= Cardinality(A) + 1
<1>1. PICK z : B \subseteq A \cup {z} OBVIOUS
<1>2. PICK C : C = A \cup {z} OBVIOUS
<1>3. Cardinality(A) \in Nat BY FS_CardinalityType
<1>4. IsFiniteSet(C) /\ Cardinality(C) = IF z \in A THEN Cardinality(A) ELSE Cardinality(A) + 1
  BY <1>2, FS_AddElement
<1>5. IsFiniteSet(B) /\ Cardinality(B) <= Cardinality(C) BY <1>1, <1>2, <1>4, FS_Subset
<1>6. Cardinality(B) \in Nat BY <1>5, FS_CardinalityType
<1> QED BY <1>3, <1>4, <1>5, <1>6

\* Fewer elements, fewer.
LEMMA NoMore ==
  ASSUME NEW A, NEW B, IsFiniteSet(A), B \subseteq A
  PROVE  /\ IsFiniteSet(B) /\ Cardinality(A) \in Nat /\ Cardinality(B) \in Nat
         /\ Cardinality(B) <= Cardinality(A)
         /\ B # A => Cardinality(B) < Cardinality(A)
<1>1. IsFiniteSet(B) /\ Cardinality(B) <= Cardinality(A) /\ (Cardinality(A) = Cardinality(B) => A = B)
  BY FS_Subset
<1>2. Cardinality(A) \in Nat /\ Cardinality(B) \in Nat BY <1>1, FS_CardinalityType
<1> QED BY <1>1, <1>2

----------------------------------------------------------------------------
(* Ranks in a finite set M that B puts in order.                           *)

Linear(M, B) ==
  /\ IsFiniteSet(M)
  /\ \A x, y \in M : /\ x # y => <<x, y>> \in B \/ <<y, x>> \in B
                     /\ ~(<<x, y>> \in B /\ <<y, x>> \in B)
                     /\ \A z \in M : <<x, y>> \in B /\ <<y, z>> \in B => <<x, z>> \in B

Ahead(M, B, y) == {x \in M : <<x, y>> \in B}
RankIn(M, B, y) == Cardinality(Ahead(M, B, y))

\* A rank is a natural number.
LEMMA RankType ==
  ASSUME NEW M, NEW B, IsFiniteSet(M), NEW y
  PROVE  IsFiniteSet(Ahead(M, B, y)) /\ RankIn(M, B, y) \in Nat
<1>1. Ahead(M, B, y) \subseteq M BY DEF Ahead
<1> QED BY <1>1, NoMore DEF RankIn

\* A row that stands before another has the lower rank.
LEMMA RankGrows ==
  ASSUME NEW M, NEW B, Linear(M, B), NEW x \in M, NEW y \in M, <<x, y>> \in B
  PROVE  RankIn(M, B, x) < RankIn(M, B, y)
<1>1. Ahead(M, B, x) \subseteq Ahead(M, B, y) BY DEF Ahead, Linear
<1>2. x \in Ahead(M, B, y) /\ x \notin Ahead(M, B, x) BY DEF Ahead, Linear
<1>3. IsFiniteSet(Ahead(M, B, y)) BY RankType DEF Linear
<1> QED BY <1>1, <1>2, <1>3, NoMore DEF RankIn

\* Rows with one rank are one row, and the lower rank stands first.
LEMMA RankOnce ==
  ASSUME NEW M, NEW B, Linear(M, B), NEW x \in M, NEW y \in M
  PROVE  /\ RankIn(M, B, x) = RankIn(M, B, y) => x = y
         /\ RankIn(M, B, x) < RankIn(M, B, y) => <<x, y>> \in B
<1>1. RankIn(M, B, x) \in Nat /\ RankIn(M, B, y) \in Nat BY RankType DEF Linear
<1>2. CASE x = y BY <1>1, <1>2
<1>3. CASE <<x, y>> \in B BY <1>1, <1>3, RankGrows
<1>4. CASE <<y, x>> \in B
  <2>1. RankIn(M, B, y) < RankIn(M, B, x) BY <1>4, RankGrows
  <2> QED BY <1>1, <2>1
<1> QED BY <1>2, <1>3, <1>4 DEF Linear

\* No rank is left out below another.
LEMMA NoGap ==
  ASSUME NEW M, NEW B, Linear(M, B), NEW m \in Nat, NEW x \in M, RankIn(M, B, x) >= m
  PROVE  \E y \in M : RankIn(M, B, y) = m
<1>0. \A y \in M : RankIn(M, B, y) \in Nat BY RankType DEF Linear
<1>1. PICK R : R = {r \in Nat : r >= m /\ \E y \in M : RankIn(M, B, y) = r} OBVIOUS
<1>2. RankIn(M, B, x) \in R BY <1>0, <1>1
<1>3. PICK r \in R : \A n \in R : r <= n
  <2>1. R \in SUBSET Nat /\ R # {} BY <1>1, <1>2
  <2> QED BY <2>1, Least
<1>4. PICK y \in M : RankIn(M, B, y) = r BY <1>1, <1>3
<1>5. PICK A : A = Ahead(M, B, y) OBVIOUS
<1>6. ASSUME NEW z \in A PROVE z \in M /\ RankIn(M, B, z) \in 0..m - 1
  <2>1. z \in M /\ <<z, y>> \in B BY <1>5 DEF Ahead
  <2>2. RankIn(M, B, z) < r BY <1>4, <2>1, RankGrows
  <2>3. RankIn(M, B, z) \notin R BY <1>0, <1>1, <1>3, <2>1, <2>2
  <2> QED BY <1>0, <1>1, <2>1, <2>3
<1>7. PICK f : f = [z \in A |-> RankIn(M, B, z)] OBVIOUS
<1>8. f \in Injection(A, 0..m - 1)
  <2>1. f \in [A -> 0..m - 1] BY <1>6, <1>7
  <2>2. ASSUME NEW p \in A, NEW q \in A, f[p] = f[q] PROVE p = q BY <1>6, <1>7, <2>2, RankOnce
  <2> QED BY <2>1, <2>2 DEF Injection, IsInjective
<1>9. Cardinality(A) <= m
  <2>1. IsFiniteSet(0..m - 1) /\ Cardinality(0..m - 1) = m BY FS_Interval
  <2> QED BY <1>8, <2>1, FS_Injection
<1>10. r \in Nat /\ r >= m /\ r = Cardinality(A) BY <1>1, <1>3, <1>4, <1>5 DEF RankIn
<1> QED BY <1>4, <1>9, <1>10

\* A newcomer pushes back by one what is behind it.
LEMMA RankShift ==
  ASSUME NEW M, NEW B, NEW e, e \notin M, IsFiniteSet(M), NEW x
  PROVE  RankIn(M \cup {e}, B, x) = IF <<e, x>> \in B THEN RankIn(M, B, x) + 1
                                                       ELSE RankIn(M, B, x)
<1>1. IsFiniteSet(Ahead(M, B, x)) /\ e \notin Ahead(M, B, x) BY RankType DEF Ahead
<1>2. CASE <<e, x>> \in B
  <2>1. Ahead(M \cup {e}, B, x) = Ahead(M, B, x) \cup {e} BY <1>2 DEF Ahead
  <2> QED BY <1>1, <1>2, <2>1, FS_AddElement DEF RankIn
<1>3. CASE <<e, x>> \notin B
  <2>1. Ahead(M \cup {e}, B, x) = Ahead(M, B, x) BY <1>3 DEF Ahead
  <2> QED BY <1>3, <2>1 DEF RankIn
<1> QED BY <1>2, <1>3

\* So at most one job moves from before a boundary to behind it, or appears there.
LEMMA OnePushed ==
  ASSUME NEW M, NEW B, NEW e, e \notin M, Linear(M \cup {e}, B), NEW m \in Nat,
         NEW x \in M \cup {e}, RankIn(M \cup {e}, B, x) >= m,
         x = e \/ RankIn(M, B, x) < m,
         NEW y \in M \cup {e}, RankIn(M \cup {e}, B, y) >= m,
         y = e \/ RankIn(M, B, y) < m
  PROVE  x = y
<1>0. PICK N : N = M \cup {e} OBVIOUS
<1>1. IsFiniteSet(M) BY NoMore DEF Linear
<1>2. ASSUME NEW z \in M, RankIn(N, B, z) >= m, RankIn(M, B, z) < m
      PROVE  RankIn(N, B, z) = m /\ RankIn(N, B, e) < m
  <2>1. RankIn(M, B, z) \in Nat BY <1>1, RankType
  <2>2. <<e, z>> \in B /\ RankIn(N, B, z) = m BY <1>0, <1>1, <1>2, <2>1, RankShift
  <2>3. RankIn(N, B, e) < RankIn(N, B, z) BY <1>0, <2>2, RankGrows
  <2> QED BY <2>2, <2>3
<1>3. RankIn(N, B, e) \in Nat BY <1>0, RankType DEF Linear
<1>4. CASE x = e BY <1>0, <1>2, <1>3, <1>4
<1>5. CASE y = e BY <1>0, <1>2, <1>3, <1>5
<1>6. CASE x # e /\ y # e
  <2>1. RankIn(N, B, x) = m /\ RankIn(N, B, y) = m BY <1>0, <1>2, <1>6
  <2> QED BY <1>0, <2>1, RankOnce
<1> QED BY <1>4, <1>5, <1>6

----------------------------------------------------------------------------
(* The rows put the jobs in order.                                         *)

AboveIn(r, x, y) == \E q \in DOMAIN r : r[q] = y /\ \E p \in 1..q - 1 : r[p] = x
OrderOf(r) == {xy \in Jobs \X Jobs : AboveIn(r, xy[1], xy[2])}

\* Rows in which each job occurs once order any set of the listed jobs.
LEMMA RowsLinear ==
  ASSUME NEW r \in Seq(Jobs), Once(r), NEW M \in SUBSET Listed(r)
  PROVE  Linear(M, OrderOf(r))
<1>0. Len(r) \in Nat /\ DOMAIN r = 1..Len(r) /\ \A p \in 1..Len(r) : r[p] \in Jobs OBVIOUS
<1>1. IsFiniteSet(Listed(r))
  <2>1. r \in Surjection(1..Len(r), Listed(r)) BY <1>0 DEF Surjection, Listed
  <2> QED BY <1>0, <2>1, FS_Interval, FS_Surjection
<1>2. IsFiniteSet(M) BY <1>1, NoMore
<1>3. \A p, q \in 1..Len(r) : <<r[p], r[q]>> \in OrderOf(r) <=> p < q
  <2> SUFFICES ASSUME NEW p \in 1..Len(r), NEW q \in 1..Len(r)
               PROVE  <<r[p], r[q]>> \in OrderOf(r) <=> p < q
    OBVIOUS
  <2>1. <<r[p], r[q]>> \in OrderOf(r) <=> AboveIn(r, r[p], r[q]) BY <1>0 DEF OrderOf
  <2>2. ASSUME p < q PROVE AboveIn(r, r[p], r[q]) BY <1>0, <2>2 DEF AboveIn
  <2>3. ASSUME AboveIn(r, r[p], r[q]) PROVE p < q
    <3>1. PICK v \in 1..Len(r) : r[v] = r[q] /\ \E u \in 1..v - 1 : r[u] = r[p]
      BY <1>0, <2>3 DEF AboveIn
    <3>2. PICK u \in 1..v - 1 : r[u] = r[p] BY <3>1
    <3>3. v = q /\ u = p BY <1>0, <3>1, <3>2 DEF Once
    <3> QED BY <3>2, <3>3
  <2> QED BY <2>1, <2>2, <2>3
<1>4. ASSUME NEW x \in M, NEW y \in M
      PROVE  /\ x # y => <<x, y>> \in OrderOf(r) \/ <<y, x>> \in OrderOf(r)
             /\ ~(<<x, y>> \in OrderOf(r) /\ <<y, x>> \in OrderOf(r))
             /\ \A z \in M : <<x, y>> \in OrderOf(r) /\ <<y, z>> \in OrderOf(r)
                               => <<x, z>> \in OrderOf(r)
  <2>1. PICK p, q \in 1..Len(r) : x = r[p] /\ y = r[q] BY <1>0 DEF Listed
  <2>2. /\ x # y => <<x, y>> \in OrderOf(r) \/ <<y, x>> \in OrderOf(r)
        /\ ~(<<x, y>> \in OrderOf(r) /\ <<y, x>> \in OrderOf(r))
    BY <1>3, <2>1
  <2>3. ASSUME NEW z \in M, <<x, y>> \in OrderOf(r), <<y, z>> \in OrderOf(r)
        PROVE  <<x, z>> \in OrderOf(r)
    <3>1. PICK w \in 1..Len(r) : z = r[w] BY <1>0 DEF Listed
    <3> QED BY <1>3, <2>1, <2>3, <3>1
  <2> QED BY <2>2, <2>3
<1> QED BY <1>2, <1>4 DEF Linear

\* A row that is inserted leaves the others in their order (ORDER BY, database.py:208).
LEMMA InsertFacts ==
  ASSUME NEW s \in Seq(Jobs), NEW j \in Jobs, NEW place \in 1..Len(s) + 1,
         NEW r, r = InsertRow(place, j), s = rows
  PROVE  /\ r \in Seq(Jobs) /\ Len(r) = Len(s) + 1
         /\ \A i \in 1..Len(r) : r[i] = IF i < place THEN s[i]
                                        ELSE IF i = place THEN j ELSE s[i - 1]
<1>1. PICK a, b : a = SubSeq(s, 1, place - 1) /\ b = SubSeq(s, place, Len(s)) OBVIOUS
<1>2. /\ a \in Seq(Jobs) /\ Len(a) = place - 1 /\ \A i \in 1..place - 1 : a[i] = s[i]
      /\ b \in Seq(Jobs) /\ Len(b) = Len(s) - place + 1
      /\ \A i \in 1..Len(s) - place + 1 : b[i] = s[place + i - 1]
  BY <1>1
<1>3. r = a \o <<j>> \o b BY <1>1 DEF InsertRow, InsertAt
<1>4. PICK c : c = a \o <<j>> OBVIOUS
<1>5. c \in Seq(Jobs) /\ Len(c) = place /\ \A i \in 1..place : c[i] = IF i < place THEN s[i] ELSE j
  BY <1>2, <1>4
<1>6. r = c \o b BY <1>3, <1>4
<1>7. r \in Seq(Jobs) /\ Len(r) = Len(s) + 1
  <2>0. b \in Seq(Jobs) /\ c \in Seq(Jobs) BY <1>2, <1>5
  <2>1. r \in Seq(Jobs) /\ Len(r) = Len(c) + Len(b) BY <1>6, <2>0, ConcatProperties
  <2>2. Len(s) \in Nat OBVIOUS
  <2> QED BY <1>2, <1>5, <2>1, <2>2
<1>8. ASSUME NEW i \in 1..Len(r)
      PROVE  r[i] = IF i < place THEN s[i] ELSE IF i = place THEN j ELSE s[i - 1]
  <2>1. CASE i <= place
    <3>1. r[i] = c[i] BY <1>2, <1>5, <1>6, <1>7, <2>1
    <3> QED BY <1>5, <2>1, <3>1
  <2>2. CASE i > place
    <3>1. r[i] = b[i - place] BY <1>2, <1>5, <1>6, <1>7, <2>2
    <3>2. i - place \in 1..Len(s) - place + 1 BY <1>7, <2>2
    <3>3. b[i - place] = s[place + (i - place) - 1] BY <1>2, <3>2
    <3>4. place + (i - place) - 1 = i - 1 OBVIOUS
    <3> QED BY <2>2, <3>1, <3>3, <3>4
  <2> QED BY <2>1, <2>2
<1> QED BY <1>7, <1>8

\* A row put in between leaves the others in their order.
LEMMA Inserted ==
  ASSUME NEW s \in Seq(Jobs), NEW r \in Seq(Jobs), NEW j \in Jobs, NEW place \in 1..Len(s) + 1,
         Once(s), j \notin Listed(s), Len(r) = Len(s) + 1,
         \A i \in 1..Len(r) : r[i] = IF i < place THEN s[i] ELSE IF i = place THEN j ELSE s[i - 1]
  PROVE  /\ Once(r) /\ Listed(r) = Listed(s) \cup {j}
         /\ \A x, y \in Listed(s) : AboveIn(r, x, y) <=> AboveIn(s, x, y)
<1>0. /\ Len(s) \in Nat /\ DOMAIN s = 1..Len(s) /\ DOMAIN r = 1..Len(s) + 1
      /\ \A p \in 1..Len(s) : s[p] \in Listed(s) /\ s[p] # j
  BY DEF Listed
\* Where an old row is now.
<1> DEFINE Now(p) == IF p < place THEN p ELSE p + 1
<1>1. ASSUME NEW p \in 1..Len(s) PROVE Now(p) \in 1..Len(s) + 1 /\ r[Now(p)] = s[p]
  <2>1. CASE p < place BY <1>0, <2>1
  <2>2. CASE ~(p < place)
    <3>1. p + 1 \in 1..Len(r) /\ ~(p + 1 < place) /\ p + 1 # place /\ (p + 1) - 1 = p BY <1>0, <2>2
    <3> QED BY <1>0, <2>2, <3>1
  <2> QED BY <2>1, <2>2
<1>2. ASSUME NEW i \in 1..Len(s) + 1, i # place
      PROVE  \E p \in 1..Len(s) : i = Now(p) /\ r[i] = s[p]
  <2>1. CASE i < place BY <1>0, <2>1
  <2>2. CASE i > place
    <3>1. i - 1 \in 1..Len(s) /\ Now(i - 1) = i BY <1>0, <2>2
    <3> QED BY <1>0, <2>2, <3>1
  <2> QED BY <1>2, <2>1, <2>2
<1>3. r[place] = j /\ place \in DOMAIN r BY <1>0
<1>4. \A p, q \in 1..Len(s) : /\ Now(p) < Now(q) <=> p < q
                              /\ Now(p) = Now(q) <=> p = q
  OBVIOUS
<1> HIDE DEF Now
<1>5. Once(r)
  <2> SUFFICES ASSUME NEW a \in 1..Len(s) + 1, NEW b \in 1..Len(s) + 1, r[a] = r[b] PROVE a = b
    BY <1>0 DEF Once
  <2>1. CASE a = place \/ b = place BY <1>0, <1>2, <1>3, <2>1
  <2>2. CASE a # place /\ b # place
    <3>1. PICK p, q \in 1..Len(s) : a = Now(p) /\ r[a] = s[p] /\ b = Now(q) /\ r[b] = s[q]
      BY <1>2, <2>2
    <3> QED BY <1>0, <3>1 DEF Once
  <2> QED BY <2>1, <2>2
<1>6. Listed(r) = Listed(s) \cup {j}
  <2>1. ASSUME NEW x \in Listed(s) PROVE x \in Listed(r) BY <1>0, <1>1 DEF Listed
  <2>2. j \in Listed(r) BY <1>3 DEF Listed
  <2>3. ASSUME NEW x \in Listed(r) PROVE x \in Listed(s) \cup {j}
    <3>1. PICK i \in 1..Len(s) + 1 : x = r[i] BY <1>0 DEF Listed
    <3> QED BY <1>0, <1>2, <1>3, <3>1
  <2> QED BY <2>1, <2>2, <2>3
<1>7. ASSUME NEW x \in Listed(s), NEW y \in Listed(s) PROVE AboveIn(r, x, y) <=> AboveIn(s, x, y)
  <2>1. ASSUME AboveIn(s, x, y) PROVE AboveIn(r, x, y)
    <3>1. PICK q \in 1..Len(s) : s[q] = y /\ \E p \in 1..q - 1 : s[p] = x BY <1>0, <2>1 DEF AboveIn
    <3>2. PICK p \in 1..q - 1 : s[p] = x BY <3>1
    <3>3. p \in 1..Len(s) /\ p < q BY <1>0, <3>2
    <3>4. Now(p) \in 1..Now(q) - 1 BY <1>0, <1>1, <1>4, <3>3
    <3> QED BY <1>0, <1>1, <3>1, <3>2, <3>3, <3>4 DEF AboveIn
  <2>2. ASSUME AboveIn(r, x, y) PROVE AboveIn(s, x, y)
    <3>1. PICK b \in 1..Len(s) + 1 : r[b] = y /\ \E a \in 1..b - 1 : r[a] = x
      BY <1>0, <2>2 DEF AboveIn
    <3>2. PICK a \in 1..b - 1 : r[a] = x BY <3>1
    <3>3. a \in 1..Len(s) + 1 /\ a < b BY <1>0, <3>2
    <3>4. x # j /\ y # j OBVIOUS
    <3>5. a # place /\ b # place BY <1>3, <3>1, <3>2, <3>4
    <3>6. PICK q \in 1..Len(s) : b = Now(q) /\ r[b] = s[q] BY <1>2, <3>5
    <3>7. PICK p \in 1..Len(s) : a = Now(p) /\ r[a] = s[p] BY <1>2, <3>3, <3>5
    <3>8. p \in 1..q - 1 BY <1>0, <1>4, <3>3, <3>6, <3>7
    <3> QED BY <1>0, <3>1, <3>2, <3>6, <3>7, <3>8 DEF AboveIn
  <2> QED BY <2>1, <2>2
<1> QED BY <1>5, <1>6, <1>7

----------------------------------------------------------------------------
(* Matching jobs and their ranks.                                          *)

\* The jobs that match are finitely many, in a linear order, ranked in that order.
LEMMA MatchingFacts ==
  ASSUME TypeOK, OneRow
  PROVE  /\ Matching \subseteq Listed(rows) /\ Matching \subseteq Jobs
         /\ Linear(Matching, OrderOf(rows)) /\ IsFiniteSet(Matching)
         /\ \A j \in Jobs : rank(j) = RankIn(Matching, OrderOf(rows), j) /\ rank(j) \in Nat
<1>1. Matching \subseteq Listed(rows) BY DEF Matching, Matches, Listed, TypeOK
<1>2. Matching \subseteq Jobs BY DEF Matching
<1>3. Linear(Matching, OrderOf(rows)) BY <1>1, RowsLinear DEF TypeOK, OneRow
<1>4. IsFiniteSet(Matching) BY <1>3 DEF Linear
<1>5. ASSUME NEW j \in Jobs
      PROVE  rank(j) = RankIn(Matching, OrderOf(rows), j) /\ rank(j) \in Nat
  <2>1. {x \in Matching : Above(x, j)} = Ahead(Matching, OrderOf(rows), j)
    BY <1>2 DEF Ahead, OrderOf, AboveIn, Above
  <2>2. rank(j) = RankIn(Matching, OrderOf(rows), j) BY <2>1 DEF rank, RankIn
  <2> QED BY <1>4, <2>2, RankType
<1> QED BY <1>1, <1>2, <1>3, <1>4, <1>5

\* What may happen to the list while the client thinks: one job enters or leaves, and the
\* others stay in their order.
Moves(e) ==
  /\ TypeOK' /\ OneRow'
  /\ Matching' \subseteq Matching \cup {e} /\ Matching \subseteq Matching' \cup {e}
  /\ \A x, y \in Listed(rows) : AboveIn(rows', x, y) <=> AboveIn(rows, x, y)
  /\ filter = "any" => Matching \subseteq Matching'
  /\ UNCHANGED <<filter, limit, offset, got, items>>
  /\ Observe

\* The types that a change of one job's status keeps.
LEMMA ObserveTypes ==
  ASSUME TypeOK, OneRow, Observe
  PROVE  steady' \subseteq Jobs /\ left' \in Nat
<1>1. IsFiniteSet(Matching) BY MatchingFacts
<1>2. Cardinality(Matching \ Matching') \in Nat BY <1>1, FS_Difference, FS_CardinalityType
<1> QED BY <1>2 DEF Observe, TypeOK

\* A job that is created moves no other job.
LEMMA CreateMoves ==
  ASSUME TypeOK, OneRow, NEW j \in Jobs, create_job(j) PROVE Moves(j)
<1>0. PICK place \in 1..Len(rows) + 1 : rows' = InsertRow(place, j) BY DEF create_job
<1>1. /\ rows \in Seq(Jobs) /\ Len(rows) \in Nat
      /\ state[j] = "none" /\ state' = [state EXCEPT ![j] = "queued"] /\ tries' = tries
      /\ \E caller \in Callers : user' = [user EXCEPT ![j] = caller]
      /\ UNCHANGED <<filter, limit, offset, got, items>> /\ Observe
  <2>1. Life!Accept(j) BY DEF create_job
  <2>2. rows \in Seq(Jobs) /\ Len(rows) \in Nat BY DEF TypeOK
  <2> QED BY <2>1, <2>2 DEF create_job, Life!Accept, Life!Move
<1>2. PICK r : r = rows' OBVIOUS
<1>3. /\ r \in Seq(Jobs) /\ Len(r) = Len(rows) + 1
      /\ \A i \in 1..Len(r) : r[i] = IF i < place THEN rows[i]
                                     ELSE IF i = place THEN j ELSE rows[i - 1]
  BY <1>0, <1>1, <1>2, InsertFacts
<1>4. j \notin Listed(rows) BY <1>1 DEF TypeOK, Listed
<1>5. /\ Once(r) /\ Listed(r) = Listed(rows) \cup {j}
      /\ \A x, y \in Listed(rows) : AboveIn(r, x, y) <=> AboveIn(rows, x, y)
  BY <1>1, <1>3, <1>4, Inserted DEF OneRow
<1>6. Matching \subseteq Matching' /\ Matching' \subseteq Matching \cup {j}
  BY <1>1 DEF Matching, Matches, TypeOK
<1>7. OneRow' BY <1>2, <1>5 DEF OneRow
<1>8. TypeOK'
  <2>1. state' \in [Jobs -> {"none", "queued", "processing", "retrying", "completed", "failed"}]
    BY <1>1 DEF TypeOK
  <2>2. user' \in [Jobs -> Callers] BY <1>1 DEF TypeOK
  <2>3. Listed(r) = {i \in Jobs : state'[i] # "none"} BY <1>1, <1>5 DEF TypeOK, Listed
  <2>4. steady' \subseteq Jobs /\ left' \in Nat BY <1>1, ObserveTypes
  <2>5. entered' \in Nat
    <3>1. IsFiniteSet(Matching' \ Matching)
      <4>1. Matching' \ Matching \subseteq {j} BY <1>6
      <4> QED BY <4>1, NoMore, FS_Singleton
    <3>2. Cardinality(Matching' \ Matching) \in Nat BY <3>1, FS_CardinalityType
    <3> QED BY <1>1, <3>2 DEF Observe, TypeOK
  <2> QED BY <1>1, <1>2, <1>3, <2>1, <2>2, <2>3, <2>4, <2>5 DEF TypeOK, Listed
<1> QED BY <1>1, <1>2, <1>5, <1>6, <1>7, <1>8 DEF Moves

\* A job whose status changes moves no other job.
LEMMA TransitionMoves ==
  ASSUME TypeOK, OneRow, NEW j \in Jobs, _transition(j) PROVE Moves(j)
<1>1. /\ state[j] # "none"
      /\ \E s \in {"processing", "retrying", "completed", "failed"} : state' = [state EXCEPT ![j] = s]
      /\ tries' \in [Jobs -> 0..MaxRetries + 1]
      /\ UNCHANGED <<rows, user, filter, limit, offset, got, items>> /\ Observe
  <2>1. UNCHANGED <<rows, user, filter, limit, offset, got, items>> /\ Observe BY DEF _transition
  <2>2. CASE Life!Start(j)
    <3>1. /\ state[j] \in {"queued", "retrying"} /\ state' = [state EXCEPT ![j] = "processing"]
          /\ tries[j] <= MaxRetries /\ tries' = [tries EXCEPT ![j] = tries[j] + 1]
      BY <2>2 DEF Life!Start, Life!Move
    <3>2. tries[j] + 1 \in 0..MaxRetries + 1 BY <3>1 DEF TypeOK
    <3> QED BY <2>1, <3>1, <3>2 DEF TypeOK
  <2>3. CASE Life!Retry(j) BY <2>1, <2>3 DEF Life!Retry, Life!Move, TypeOK
  <2>4. CASE Life!Complete(j) BY <2>1, <2>4 DEF Life!Complete, Life!Move, TypeOK
  <2>5. CASE Life!Fail(j) BY <2>1, <2>5 DEF Life!Fail, Life!Move, TypeOK
  <2> QED BY <2>2, <2>3, <2>4, <2>5 DEF _transition
<1>2. Matching \subseteq Matching' \cup {j} /\ Matching' \subseteq Matching \cup {j}
  BY <1>1 DEF Matching, Matches, TypeOK
<1>3. filter = "any" => Matching \subseteq Matching' BY <1>1 DEF Matching, Matches, TypeOK
<1>4. OneRow' BY <1>1 DEF OneRow
<1>5. TypeOK'
  <2>1. state' \in [Jobs -> {"none", "queued", "processing", "retrying", "completed", "failed"}]
    BY <1>1 DEF TypeOK
  <2>2. {i \in Jobs : state'[i] # "none"} = {i \in Jobs : state[i] # "none"} BY <1>1 DEF TypeOK
  <2>3. steady' \subseteq Jobs /\ left' \in Nat BY <1>1, ObserveTypes
  <2>4. entered' \in Nat
    <3>1. IsFiniteSet(Matching' \ Matching)
      <4>1. Matching' \ Matching \subseteq {j} BY <1>2
      <4> QED BY <4>1, NoMore, FS_Singleton
    <3>2. Cardinality(Matching' \ Matching) \in Nat BY <3>1, FS_CardinalityType
    <3> QED BY <1>1, <3>2 DEF Observe, TypeOK
  <2> QED BY <1>1, <2>1, <2>2, <2>3, <2>4 DEF TypeOK
<1> QED BY <1>1, <1>2, <1>3, <1>4, <1>5 DEF Moves

----------------------------------------------------------------------------
(* Jobs move while the client is on its way.                               *)

\* The ranks of all jobs before and after, in the order of the rows afterwards.
LEMMA MoveRanks ==
  ASSUME TypeOK, OneRow, NEW e \in Jobs, Moves(e),
         NEW M, M = Matching, NEW N, N = Matching', NEW B, B = OrderOf(rows')
  PROVE  /\ Linear(M, B) /\ Linear(N, B) /\ M \subseteq Jobs /\ N \subseteq Jobs
         /\ \A x \in M : rank(x) = RankIn(M, B, x) /\ rank(x) \in Nat
         /\ \A x \in N : rank(x)' = RankIn(N, B, x) /\ RankIn(N, B, x) \in Nat
<1>1. /\ M \subseteq Listed(rows) /\ M \subseteq Jobs /\ IsFiniteSet(M)
      /\ Linear(M, OrderOf(rows))
      /\ \A j \in Jobs : rank(j) = RankIn(M, OrderOf(rows), j) /\ rank(j) \in Nat
  BY MatchingFacts
<1>2. \A x, y \in M : <<x, y>> \in B <=> <<x, y>> \in OrderOf(rows)
  BY <1>1 DEF Moves, OrderOf
<1>3. Linear(M, B)
  <2>1. ASSUME NEW x \in M, NEW y \in M
        PROVE  /\ x # y => <<x, y>> \in B \/ <<y, x>> \in B
               /\ ~(<<x, y>> \in B /\ <<y, x>> \in B)
               /\ \A z \in M : <<x, y>> \in B /\ <<y, z>> \in B => <<x, z>> \in B
    <3>1. /\ x # y => <<x, y>> \in OrderOf(rows) \/ <<y, x>> \in OrderOf(rows)
          /\ ~(<<x, y>> \in OrderOf(rows) /\ <<y, x>> \in OrderOf(rows))
          /\ \A z \in M : <<x, y>> \in OrderOf(rows) /\ <<y, z>> \in OrderOf(rows)
                           => <<x, z>> \in OrderOf(rows)
      BY <1>1 DEF Linear
    <3>2. <<x, y>> \in B <=> <<x, y>> \in OrderOf(rows) BY <1>2
    <3>3. <<y, x>> \in B <=> <<y, x>> \in OrderOf(rows) BY <1>2
    <3>4. \A z \in M : /\ <<y, z>> \in B <=> <<y, z>> \in OrderOf(rows)
                       /\ <<x, z>> \in B <=> <<x, z>> \in OrderOf(rows)
      BY <1>2
    <3> QED BY <3>1, <3>2, <3>3, <3>4
  <2> QED BY <1>1, <2>1 DEF Linear
<1>4. ASSUME NEW x \in M PROVE rank(x) = RankIn(M, B, x) /\ rank(x) \in Nat
  <2>1. Ahead(M, B, x) = Ahead(M, OrderOf(rows), x) BY <1>2 DEF Ahead
  <2> QED BY <1>1, <2>1 DEF RankIn
<1>5. N \subseteq Listed(rows') /\ N \subseteq Jobs
  BY DEF Moves, Matching, Matches, Listed, TypeOK
<1>6. Linear(N, B)
  <2>1. rows' \in Seq(Jobs) /\ Once(rows') BY DEF Moves, OneRow, TypeOK
  <2> QED BY <1>5, <2>1, RowsLinear
<1>7. ASSUME NEW x \in N PROVE rank(x)' = RankIn(N, B, x) /\ RankIn(N, B, x) \in Nat
  <2>1. {y \in Matching' : Above(y, x)'} = Ahead(N, B, x)
    BY <1>5 DEF Ahead, OrderOf, AboveIn, Above
  <2>2. rank(x)' = RankIn(N, B, x) BY <2>1 DEF rank, RankIn
  <2>3. IsFiniteSet(N) BY <1>6 DEF Linear
  <2> QED BY <2>2, <2>3, RankType
<1> QED BY <1>1, <1>3, <1>4, <1>5, <1>6, <1>7

\* When one job moves, what was skipped and what was repeated stays accounted for.
LEMMA MoveKeeps ==
  ASSUME ListingInv, NEW e \in Jobs, Moves(e), offset \in Nat
  PROVE  SkipInv' /\ RepeatInv'
<1>1. PICK M, N, B : M = Matching /\ N = Matching' /\ B = OrderOf(rows') OBVIOUS
<1>2. /\ Linear(M, B) /\ Linear(N, B) /\ M \subseteq Jobs /\ N \subseteq Jobs
      /\ \A x \in M : rank(x) = RankIn(M, B, x) /\ RankIn(M, B, x) \in Nat
      /\ \A x \in N : rank(x)' = RankIn(N, B, x) /\ RankIn(N, B, x) \in Nat
  <2>1. TypeOK /\ OneRow BY DEF ListingInv
  <2>2. /\ Linear(M, B) /\ Linear(N, B) /\ M \subseteq Jobs /\ N \subseteq Jobs
        /\ \A x \in M : rank(x) = RankIn(M, B, x) /\ rank(x) \in Nat
        /\ \A x \in N : rank(x)' = RankIn(N, B, x) /\ RankIn(N, B, x) \in Nat
    BY <1>1, <2>1, MoveRanks
  <2> QED BY <2>2
<1>3. IsFiniteSet(M) /\ IsFiniteSet(N) BY <1>2 DEF Linear
<1>4. /\ steady' = steady \cap N /\ left' = left + Cardinality(M \ N)
      /\ entered' = entered + Cardinality(N \ M)
      /\ UNCHANGED <<limit, offset, got, items>>
      /\ N \subseteq M \cup {e} /\ M \subseteq N \cup {e}
      /\ left \in Nat /\ entered \in Nat /\ items \in Nat /\ offset \in Nat
  BY <1>1 DEF Moves, Observe, ListingInv, TypeOK
<1>5. /\ steady \subseteq M /\ IsFiniteSet(got) /\ Cardinality(got) \in Nat
      /\ Cardinality(Passed(offset)) <= left
      /\ items - Cardinality(got) + Cardinality(got \cap Behind(offset)) <= entered
  BY <1>1, <1>4, FS_CardinalityType DEF ListingInv, SkipInv, RepeatInv
<1>6. PICK m : m = offset OBVIOUS
<1>7. PICK P, Q : /\ P = {x \in steady \ got : RankIn(M, B, x) < m}
                  /\ Q = {x \in (steady \cap N) \ got : RankIn(N, B, x) < m}
  OBVIOUS
<1>8. P = Passed(offset) /\ Q = Passed(offset)' BY <1>2, <1>4, <1>5, <1>6, <1>7 DEF Passed
<1>9. PICK C, D : /\ C = {x \in got \cap M : RankIn(M, B, x) >= m}
                  /\ D = {x \in got \cap N : RankIn(N, B, x) >= m}
  OBVIOUS
<1>10. C = got \cap Behind(offset) /\ D = (got \cap Behind(offset))'
  BY <1>1, <1>2, <1>4, <1>6, <1>9 DEF Behind
<1>11. /\ IsFiniteSet(P) /\ IsFiniteSet(C) /\ Cardinality(P) \in Nat /\ Cardinality(C) \in Nat
  BY <1>3, <1>5, <1>7, <1>9, NoMore
<1>12. IsFiniteSet(Q) /\ Cardinality(Q) \in Nat /\ Cardinality(Q) <= left'
  <2>1. CASE e \in M /\ e \notin N
    <3>1. M = N \cup {e} /\ M \ N = {e} BY <1>4, <2>1
    <3>2. left' = left + 1 BY <1>4, <3>1, FS_Singleton
    <3>3. ASSUME NEW x \in Q \ P, NEW y \in Q \ P PROVE x = y
      <4>1. /\ x \in N /\ RankIn(N, B, x) < m /\ RankIn(M, B, x) >= m
            /\ y \in N /\ RankIn(N, B, y) < m /\ RankIn(M, B, y) >= m
        BY <1>2, <1>4, <1>5, <1>6, <1>7
      <4> QED BY <1>2, <1>4, <1>6, <2>1, <3>1, <4>1, OnePushed
    <3>4. IsFiniteSet(Q) /\ Cardinality(Q) \in Nat /\ Cardinality(Q) <= Cardinality(P) + 1
      BY <1>11, <3>3, AtMostOneMore
    <3> QED BY <1>4, <1>5, <1>8, <1>11, <3>2, <3>4
  <2>2. CASE e \in M => e \in N
    <3>1. N = M \cup {e} \/ N = M BY <1>4, <2>2
    <3>2. left' = left
      <4>1. M \ N = {} BY <3>1
      <4> QED BY <1>4, <4>1, FS_EmptySet
    <3>3. \A x \in M : RankIn(N, B, x) >= RankIn(M, B, x)
      <4>1. CASE N = M BY <1>2, <4>1
      <4>2. CASE N = M \cup {e} /\ e \notin M
        <5> SUFFICES ASSUME NEW x \in M PROVE RankIn(N, B, x) >= RankIn(M, B, x) OBVIOUS
        <5>1. RankIn(M \cup {e}, B, x) = IF <<e, x>> \in B THEN RankIn(M, B, x) + 1 ELSE RankIn(M, B, x)
          BY <1>3, <4>2, RankShift
        <5> QED BY <1>2, <4>2, <5>1
      <4> QED BY <3>1, <4>1, <4>2
    <3>4. Q \subseteq P
      <4> SUFFICES ASSUME NEW x \in Q PROVE x \in P OBVIOUS
      <4>1. x \in steady /\ x \notin got /\ x \in M /\ x \in N /\ RankIn(N, B, x) < m BY <1>5, <1>7
      <4>2. RankIn(M, B, x) < m BY <1>2, <1>4, <1>6, <3>3, <4>1
      <4> QED BY <1>7, <4>1, <4>2
    <3>5. IsFiniteSet(Q) /\ Cardinality(Q) \in Nat /\ Cardinality(Q) <= Cardinality(P)
      BY <1>11, <3>4, NoMore
    <3> QED BY <1>4, <1>5, <1>8, <1>11, <3>2, <3>5
  <2> QED BY <2>1, <2>2
<1>13. SkipInv'
  <2>1. Cardinality(Passed(offset))' <= left' BY <1>8, <1>12
  <2>2. steady' \subseteq Matching' BY <1>1, <1>4
  <2> QED BY <1>4, <2>1, <2>2 DEF SkipInv
<1>14. Cardinality(D) \in Nat /\ entered' >= entered + (Cardinality(D) - Cardinality(C))
       /\ entered' \in Nat
  <2>1. CASE e \in N /\ e \notin M
    <3>1. N = M \cup {e} /\ N \ M = {e} BY <1>4, <2>1
    <3>2. entered' = entered + 1 BY <1>4, <3>1, FS_Singleton
    <3>3. ASSUME NEW x \in D \ C, NEW y \in D \ C PROVE x = y
      <4>1. /\ x \in N /\ RankIn(N, B, x) >= m /\ (x = e \/ RankIn(M, B, x) < m)
            /\ y \in N /\ RankIn(N, B, y) >= m /\ (y = e \/ RankIn(M, B, y) < m)
        BY <1>2, <1>4, <1>6, <1>9, <3>1
      <4> QED BY <1>2, <1>4, <1>6, <2>1, <3>1, <4>1, OnePushed
    <3>4. IsFiniteSet(D) /\ Cardinality(D) \in Nat /\ Cardinality(D) <= Cardinality(C) + 1
      BY <1>11, <3>3, AtMostOneMore
    <3> QED BY <1>4, <1>11, <3>2, <3>4
  <2>2. CASE e \in N => e \in M
    <3>1. M = N \cup {e} \/ N = M BY <1>4, <2>2
    <3>2. entered' = entered
      <4>1. N \ M = {} BY <3>1
      <4> QED BY <1>4, <4>1, FS_EmptySet
    <3>3. \A x \in N : RankIn(M, B, x) >= RankIn(N, B, x)
      <4>1. CASE N = M BY <1>2, <4>1
      <4>2. CASE M = N \cup {e} /\ e \notin N
        <5> SUFFICES ASSUME NEW x \in N PROVE RankIn(M, B, x) >= RankIn(N, B, x) OBVIOUS
        <5>1. RankIn(N \cup {e}, B, x) = IF <<e, x>> \in B THEN RankIn(N, B, x) + 1 ELSE RankIn(N, B, x)
          BY <1>3, <4>2, RankShift
        <5> QED BY <1>2, <4>2, <5>1
      <4> QED BY <3>1, <4>1, <4>2
    <3>4. D \subseteq C
      <4> SUFFICES ASSUME NEW x \in D PROVE x \in C OBVIOUS
      <4>1. x \in got /\ x \in M /\ x \in N /\ RankIn(N, B, x) >= m BY <1>9, <3>1
      <4>2. RankIn(M, B, x) >= m BY <1>2, <1>4, <1>6, <3>3, <4>1
      <4> QED BY <1>9, <4>1, <4>2
    <3>5. Cardinality(D) \in Nat /\ Cardinality(D) <= Cardinality(C) BY <1>11, <3>4, NoMore
    <3> QED BY <1>4, <1>11, <3>2, <3>5
  <2> QED BY <2>1, <2>2
<1>15. RepeatInv'
  <2>1. items - Cardinality(got) + Cardinality(D) <= entered'
    <3>1. items - Cardinality(got) + Cardinality(C) <= entered BY <1>5, <1>10
    <3> QED BY <1>4, <1>5, <1>11, <1>14, <3>1
  <2>2. items' - Cardinality(got') + Cardinality((got \cap Behind(offset))') <= entered'
    BY <1>4, <1>10, <2>1
  <2>3. IsFiniteSet(got') BY <1>4, <1>5
  <2> QED BY <2>2, <2>3 DEF RepeatInv
<1> QED BY <1>13, <1>15

----------------------------------------------------------------------------
(* A page is answered.                                                     *)

\* Both parts of the invariant, and what the walk has promised when it ends.
LEMMA AnswerKeeps ==
  ASSUME TypeOK, OneRow, NEW from \in Nat, Answer(from),
         IsFiniteSet(got), steady' \subseteq Matching,
         NEW P, P = {x \in steady' \ got : rank(x) < from}, Cardinality(P) <= left,
         NEW G, G = got \cap Behind(from),
         items - Cardinality(got) + Cardinality(G) <= entered
  PROVE  TypeOK' /\ SkipInv' /\ RepeatInv' /\ DoneInv' /\ DriftBounded'
<1>1. /\ Matching \subseteq Jobs /\ IsFiniteSet(Matching) /\ Linear(Matching, OrderOf(rows))
      /\ \A j \in Jobs : rank(j) = RankIn(Matching, OrderOf(rows), j) /\ rank(j) \in Nat
  BY MatchingFacts
<1>2. PICK page : page = list_jobs(from, limit) OBVIOUS
<1>3. /\ got' = got \cup page /\ items' = items + Cardinality(page)
      /\ offset' = IF has_more(from) THEN from + limit ELSE Done
      /\ UNCHANGED <<state, tries, rows, user, filter, limit, left, entered>>
      /\ limit \in Nat /\ limit >= 1 /\ items \in Nat /\ left \in Nat /\ entered \in Nat
  <2>1. /\ got' = got \cup page /\ items' = items + Cardinality(page)
        /\ offset' = IF has_more(from) THEN from + limit ELSE Done
        /\ UNCHANGED <<state, tries, rows, user, filter, limit, left, entered>>
    BY Zenon, <1>2 DEF Answer
  <2>2. limit \in Nat /\ limit >= 1 BY DEF TypeOK
  <2>3. items \in Nat /\ left \in Nat /\ entered \in Nat BY DEF TypeOK
  <2> QED BY <2>1, <2>2, <2>3
<1>4. page = {j \in Matching : rank(j) >= from /\ rank(j) < from + limit}
  BY <1>1, <1>2, <1>3 DEF list_jobs
<1>5. IsFiniteSet(page) /\ page \subseteq Jobs /\ Cardinality(page) \in Nat
  BY <1>1, <1>4, NoMore
<1>6. Cardinality(got) \in Nat /\ IsFiniteSet(G) /\ Cardinality(G) \in Nat /\ IsFiniteSet(got \cap page)
      /\ Cardinality(got \cap page) \in Nat
  BY NoMore
<1>7. IsFiniteSet(P) /\ Cardinality(P) \in Nat /\ IsFiniteSet(steady') BY <1>1, NoMore
<1>8. /\ IsFiniteSet(got') /\ Cardinality(got') \in Nat
      /\ Cardinality(got') = Cardinality(got) + Cardinality(page) - Cardinality(got \cap page)
  BY <1>3, <1>5, FS_Union, FS_CardinalityType
<1>9. got \cap page = G \cap page BY <1>4 DEF Behind
<1>10. PICK H : H = G \ page OBVIOUS
<1>11. Cardinality(H) = Cardinality(G) - Cardinality(got \cap page)
       /\ IsFiniteSet(H) /\ Cardinality(H) \in Nat
  <2>1. Cardinality(H) = Cardinality(G) - Cardinality(G \cap page) /\ IsFiniteSet(H)
    BY <1>6, <1>10, FS_Difference
  <2>2. Cardinality(H) \in Nat BY <2>1, FS_CardinalityType
  <2> QED BY <1>9, <2>1, <2>2
<1>12. items' - Cardinality(got') + Cardinality(H) <= entered
  BY <1>3, <1>5, <1>6, <1>8, <1>11
<1>13. Matching' = Matching /\ \A j : rank(j)' = rank(j)
  <2>1. Matching' = Matching BY <1>3 DEF Matching, Matches
  <2> QED BY <1>3, <2>1 DEF rank, Above
<1>14. TypeOK'
  <2>1. offset' \in Nat \cup {NotYet, Done} BY <1>3
  <2>2. items' \in Nat /\ got' \subseteq Jobs /\ steady' \subseteq Jobs
    BY <1>1, <1>3, <1>5 DEF TypeOK
  <2> QED BY <1>3, <2>1, <2>2 DEF TypeOK
<1>15. CASE has_more(from)
  <2>1. offset' = from + limit /\ from + limit \in Nat /\ offset' # Done /\ offset' >= 0
    BY <1>3, <1>15 DEF Done
  <2>2. PICK Q : Q = {x \in steady' \ got' : rank(x) < from + limit} OBVIOUS
  <2>3. Q = Passed(offset)' BY <1>13, <2>1, <2>2 DEF Passed
  <2>4. Q \subseteq P
    <3> SUFFICES ASSUME NEW x \in Q PROVE x \in P OBVIOUS
    <3>1. x \in steady' /\ x \notin got /\ x \notin page /\ rank(x) < from + limit
      BY <1>3, <2>2
    <3>2. x \in Matching /\ rank(x) \in Nat BY <1>1, <3>1
    <3> QED BY <1>3, <1>4, <3>1, <3>2
  <2>5. Cardinality(Q) <= left /\ Cardinality(Q) \in Nat
    <3>1. Cardinality(Q) <= Cardinality(P) /\ Cardinality(Q) \in Nat BY <1>7, <2>4, NoMore
    <3> QED BY <1>3, <1>7, <3>1
  <2>6. SkipInv' BY <1>3, <1>13, <2>3, <2>5 DEF SkipInv
  <2>7. (got \cap Behind(offset))' = H
    <3>1. (got \cap Behind(offset))' = {x \in got' \cap Matching : rank(x) >= from + limit}
      BY <1>13, <2>1 DEF Behind
    <3>2. H = {x \in got \cap Matching : rank(x) >= from} \ page BY <1>10 DEF Behind
    <3>3. ASSUME NEW x \in Matching
          PROVE  (x \in got' /\ rank(x) >= from + limit) <=> (x \in got /\ rank(x) >= from /\ x \notin page)
      <4>1. rank(x) \in Nat BY <1>1
      <4> QED BY <1>3, <1>4, <4>1
    <3> QED BY <3>1, <3>2, <3>3
  <2>8. RepeatInv' BY <1>3, <1>8, <1>12, <2>7 DEF RepeatInv
  <2>9. DoneInv' /\ DriftBounded' BY <2>1 DEF DoneInv, DriftBounded
  <2> QED BY <1>14, <2>6, <2>8, <2>9
<1>16. CASE ~has_more(from)
  <2>1. offset' = Done /\ ~(offset' >= 0) BY <1>3, <1>16 DEF Done
  <2>2. \A x \in Matching : rank(x) < from + limit
    <3> SUFFICES ASSUME NEW x \in Matching, rank(x) >= from + limit PROVE FALSE
      BY <1>1, <1>3
    <3>1. from + limit \in Nat BY <1>3
    <3>2. PICK y \in Matching : RankIn(Matching, OrderOf(rows), y) = from + limit
      BY <1>1, <3>1, NoGap
    <3>3. rank(y) = from + limit BY <1>1, <3>2
    <3>4. y \in list_jobs(from + limit, 1) BY <1>3, <3>1, <3>3 DEF list_jobs
    <3> QED BY <1>16, <3>4 DEF has_more
  <2>3. steady' \ got' \subseteq P
    <3> SUFFICES ASSUME NEW x \in steady' \ got' PROVE x \in P OBVIOUS
    <3>1. x \in Matching /\ rank(x) \in Nat /\ x \notin page /\ x \notin got BY <1>1, <1>3
    <3>2. rank(x) < from + limit BY <2>2, <3>1
    <3> QED BY <1>3, <1>4, <3>1, <3>2
  <2>4. Cardinality(steady' \ got') <= Cardinality(P) /\ Cardinality(steady' \ got') \in Nat
    BY <1>7, <2>3, NoMore
  <2>5. Cardinality(steady' \ got') <= left' BY <1>3, <1>7, <2>4
  <2>6. items' - Cardinality(got') <= entered' BY <1>3, <1>8, <1>11, <1>12, <1>14 DEF TypeOK
  <2>7. DriftBounded' BY <2>5, <2>6 DEF DriftBounded
  <2>8. SkipInv' /\ RepeatInv' BY <2>1 DEF SkipInv, RepeatInv
  <2>9. DoneInv' BY <1>7 DEF DoneInv
  <2> QED BY <1>14, <2>7, <2>8, <2>9
<1> QED BY <1>15, <1>16

----------------------------------------------------------------------------
(* The invariant.                                                          *)

\* The invariant holds before the first request.
LEMMA ListingInit == Init => ListingInv
<1> SUFFICES ASSUME Init PROVE ListingInv OBVIOUS
<1>0. rows = <<>> /\ offset = NotYet /\ got = {} /\ items = 0 /\ steady = {} /\ left = 0 /\ entered = 0
      /\ NotYet < 0 /\ NotYet # Done
  BY DEF Init, NotYet, Done
<1>1. TypeOK
  <2>1. state = [j \in Jobs |-> "none"] /\ tries = [j \in Jobs |-> 0] BY DEF Init, Life!Init
  <2>2. /\ state \in [Jobs -> {"none", "queued", "processing", "retrying", "completed", "failed"}]
        /\ tries \in [Jobs -> 0..MaxRetries + 1] /\ user \in [Jobs -> Callers]
    BY <2>1 DEF Init
  <2>3. rows \in Seq(Jobs) /\ {rows[i] : i \in DOMAIN rows} = {j \in Jobs : state[j] # "none"}
    BY <1>0, <2>1
  <2> QED BY <1>0, <2>2, <2>3 DEF TypeOK, Init
<1>2. OneRow BY <1>0 DEF OneRow, Once
<1>3. SkipInv /\ RepeatInv BY <1>0 DEF NotYet, SkipInv, RepeatInv
<1>4. BeforeInv /\ AnyInv /\ DoneInv /\ DriftBounded
  BY <1>0 DEF BeforeInv, AnyInv, DoneInv, DriftBounded
<1> QED BY <1>1, <1>2, <1>3, <1>4 DEF ListingInv

\* A job that moves preserves it.
LEMMA MovesInv == ASSUME ListingInv, NEW e \in Jobs, Moves(e) PROVE ListingInv'
<1>1. TypeOK' /\ OneRow' /\ UNCHANGED <<filter, limit, offset, got, items>> /\ Observe
  BY DEF Moves
<1>2. CASE offset \in Nat
  <2>1. SkipInv' /\ RepeatInv' BY <1>2, MoveKeeps
  <2>2. offset' # NotYet /\ offset' # Done BY <1>1, <1>2 DEF NotYet, Done
  <2>3. AnyInv'
    <3> SUFFICES ASSUME filter = "any" PROVE left' = 0 BY <1>1 DEF AnyInv
    <3>1. Matching \ Matching' = {} BY DEF Moves
    <3>2. left' = left + Cardinality(Matching \ Matching') /\ left = 0
      BY <1>1, <1>2 DEF Observe, ListingInv, AnyInv
    <3> QED BY <3>1, <3>2, FS_EmptySet
  <2> QED BY <1>1, <2>1, <2>2, <2>3 DEF ListingInv, BeforeInv, DoneInv, DriftBounded
<1>3. CASE offset \notin Nat
  <2>1. offset < 0 /\ ~(offset >= 0) BY <1>3 DEF ListingInv, TypeOK, NotYet, Done
  <2>2. UNCHANGED <<steady, left, entered>> BY <1>1, <2>1 DEF Observe
  <2>3. SkipInv' /\ RepeatInv' BY <1>1, <2>1 DEF SkipInv, RepeatInv
  <2> QED BY <1>1, <2>2, <2>3 DEF ListingInv, BeforeInv, AnyInv, DoneInv, DriftBounded
<1> QED BY <1>2, <1>3

\* The first page preserves it.
LEMMA FirstPageInv == ListingInv /\ FirstPage => ListingInv'
<1> SUFFICES ASSUME ListingInv, FirstPage PROVE ListingInv' OBVIOUS
<1>1. /\ TypeOK /\ OneRow /\ offset = NotYet /\ got = {} /\ items = 0 /\ left = 0 /\ entered = 0
      /\ Answer(0) /\ steady' = Matching
  BY DEF ListingInv, BeforeInv, FirstPage
<1>2. PICK P, G : P = {x \in steady' \ got : rank(x) < 0} /\ G = got \cap Behind(0) OBVIOUS
<1>3. Matching \subseteq Jobs /\ \A j \in Jobs : rank(j) \in Nat BY <1>1, MatchingFacts
<1>4. P = {} /\ G = {} BY <1>1, <1>2, <1>3
<1>5. IsFiniteSet(got) /\ Cardinality(got) = 0 /\ Cardinality(P) = 0 /\ Cardinality(G) = 0
  BY <1>1, <1>4, FS_EmptySet
<1>6. TypeOK' /\ SkipInv' /\ RepeatInv' /\ DoneInv' /\ DriftBounded'
  <2>1. Cardinality(P) <= left /\ items - Cardinality(got) + Cardinality(G) <= entered
    BY <1>1, <1>5
  <2> QED BY <1>1, <1>2, <1>5, <2>1, AnswerKeeps
<1>7. UNCHANGED <<rows, filter, left>> BY <1>1 DEF Answer
<1>8. OneRow' /\ AnyInv' BY <1>1, <1>7 DEF OneRow, AnyInv
<1>9. BeforeInv'
  <2>1. limit \in Nat BY <1>1 DEF TypeOK
  <2> QED BY <1>1, <2>1 DEF Answer, BeforeInv, NotYet, Done
<1> QED BY <1>6, <1>8, <1>9 DEF ListingInv

\* A further page preserves it.
LEMMA PageInv == ListingInv /\ Page => ListingInv'
<1> SUFFICES ASSUME ListingInv, Page PROVE ListingInv' OBVIOUS
<1>1. /\ TypeOK /\ OneRow /\ AnyInv /\ offset >= 0 /\ offset \in Nat
      /\ Answer(offset) /\ steady' = steady
  BY DEF ListingInv, Page, TypeOK, NotYet, Done
<1>2. PICK P, G : P = Passed(offset) /\ G = got \cap Behind(offset) OBVIOUS
<1>3. /\ IsFiniteSet(got) /\ steady' \subseteq Matching /\ Cardinality(P) <= left
      /\ items - Cardinality(got) + Cardinality(G) <= entered
  BY <1>1, <1>2 DEF ListingInv, SkipInv, RepeatInv
<1>4. P = {x \in steady' \ got : rank(x) < offset} BY <1>1, <1>2 DEF Passed
<1>5. TypeOK' /\ SkipInv' /\ RepeatInv' /\ DoneInv' /\ DriftBounded'
  BY <1>1, <1>2, <1>3, <1>4, AnswerKeeps
<1>6. UNCHANGED <<rows, filter, left>> BY <1>1 DEF Answer
<1>7. OneRow' /\ AnyInv' BY <1>1, <1>6 DEF OneRow, AnyInv
<1>8. BeforeInv'
  <2>1. limit \in Nat BY <1>1 DEF TypeOK
  <2> QED BY <1>1, <2>1 DEF Answer, BeforeInv, NotYet, Done
<1> QED BY <1>5, <1>7, <1>8 DEF ListingInv

\* Every step preserves it.
LEMMA ListingStep == ListingInv /\ [Next]_vars => ListingInv'
<1> SUFFICES ASSUME ListingInv, [Next]_vars PROVE ListingInv' OBVIOUS
<1>1. CASE FirstPage BY <1>1, FirstPageInv
<1>2. CASE Page BY <1>2, PageInv
<1>3. ASSUME NEW j \in Jobs, create_job(j) \/ _transition(j) PROVE ListingInv'
  <2>1. Moves(j) BY <1>3, CreateMoves, TransitionMoves DEF ListingInv
  <2> QED BY <2>1, MovesInv
<1>4. CASE UNCHANGED vars
  <2>1. Matching' = Matching /\ \A j : rank(j)' = rank(j)
    BY <1>4 DEF vars, Matching, Matches, rank, Above
  <2>2. Passed(offset)' = Passed(offset) BY <1>4, <2>1 DEF vars, Passed
  <2>3. (got \cap Behind(offset))' = got \cap Behind(offset) BY <1>4, <2>1 DEF vars, Behind
  <2>4. SkipInv' BY <1>4, <2>1, <2>2 DEF vars, ListingInv, SkipInv
  <2>5. RepeatInv' BY <1>4, <2>3 DEF vars, ListingInv, RepeatInv
  <2>6. TypeOK' /\ OneRow' BY <1>4 DEF vars, ListingInv, TypeOK, OneRow
  <2>7. BeforeInv' /\ AnyInv' /\ DoneInv' /\ DriftBounded'
    BY <1>4 DEF vars, ListingInv, BeforeInv, AnyInv, DoneInv, DriftBounded
  <2> QED BY <2>4, <2>5, <2>6, <2>7 DEF ListingInv
<1> QED BY <1>1, <1>2, <1>3, <1>4 DEF Next

\* It holds in every reachable state.
LEMMA ListingInvariant == Spec => []ListingInv
BY ListingInit, ListingStep, PTL DEF Spec

----------------------------------------------------------------------------
(* The theorems.                                                           *)

\* The variables keep their types and every accepted job has its row, and no other
\* (database.py:155-185).
THEOREM ListingTypeCorrect == Spec => []TypeOK
<1>1. ListingInv => TypeOK BY DEF ListingInv
<1> QED BY <1>1, ListingInvariant, PTL

\* With a status, a walk of any length misses no more jobs than have left the status
\* meanwhile and repeats no more than have entered it (database.py:205-209).
THEOREM DriftAlwaysBounded == Spec => []DriftBounded
<1>1. ListingInv => DriftBounded BY DEF ListingInv
<1> QED BY <1>1, ListingInvariant, PTL

\* Without a status, whoever follows next_offset to its end has seen every job that was
\* there when the walk began, however many were uploaded (routes.py:133-150).
THEOREM NothingEverSkipped == Spec => []NothingSkipped
<1>1. ListingInv => NothingSkipped
  <2> SUFFICES ASSUME ListingInv, offset = Done, filter = "any" PROVE steady \subseteq got
    BY DEF NothingSkipped
  <2>1. Cardinality(steady \ got) <= 0 /\ IsFiniteSet(steady)
    BY DEF ListingInv, DriftBounded, AnyInv, DoneInv
  <2>2. IsFiniteSet(steady \ got) /\ Cardinality(steady \ got) \in Nat
    BY <2>1, FS_Difference, FS_CardinalityType
  <2>3. steady \ got = {} BY <2>1, <2>2, FS_EmptySet
  <2> QED BY <2>3
<1> QED BY <1>1, ListingInvariant, PTL
====
