---- MODULE RateLimiter_proofs ----
(***************************************************************************)
(* Proofs about RateLimiter for any number of threads and keys, any limit, *)
(* window and lag.                                                         *)
(***************************************************************************)
EXTENDS RateLimiter, SequenceTheorems, FiniteSetTheorems, TLAPS

Queue(k) == Deque(hits, k)

\* A thread that waits for the lock has read the clock no longer than lag ago.
ClockInv == \A t \in Threads : pc[t] = "locking" => now[t] <= clock /\ clock <= now[t] + lag

\* Admissions are in order up to lag.
OrderInv == \A k \in Keys : \A i \in 1..Len(admitted[k]) :
  /\ admitted[k][i] <= clock
  /\ \A j \in i..Len(admitted[k]) : admitted[k][i] <= admitted[k][j] + lag

\* q holds the last entries of a, and those it no longer holds are out of the window at time.
Remembers(q, a, time) ==
  /\ Len(q) <= Len(a)
  /\ \A i \in 1..Len(q) : q[i] = a[i + (Len(a) - Len(q))]
  /\ \A i \in 1..Len(a) - Len(q) : a[i] + Window <= time

MemoryInv == \A k \in Keys : Remembers(Queue(k), admitted[k], clock + lag)

\* What a refusal has promised: there will be room, or the oldest hit will have expired.
PromiseInv == \A k \in Keys : promise[k] # -1 =>
  Len(Queue(k)) < MaxRequests \/ Queue(k)[1] + Window <= promise[k]

LimiterInv == TypeOK /\ ClockInv /\ OrderInv /\ MemoryInv /\ PromiseInv
              /\ DequesBounded /\ LimitUpToSkew

USE LimiterAssumption

----------------------------------------------------------------------------
(* Sequences and numbers.                                                  *)

Below == {p \in Nat \X Nat : p[1] < p[2]}

\* A set of natural numbers has a least one.
LEMMA Least == ASSUME NEW S \in SUBSET Nat, S # {} PROVE \E m \in S : \A n \in S : m <= n
<1>0. IsWellFoundedOn(Below, Nat) BY NatLessThanWellFounded, Zenon DEF OpToRel, Below
<1>1. PICK m \in S : \A n \in S : ~ (<<n, m>> \in Below) BY <1>0, WFMin
<1>2. ASSUME NEW n \in S PROVE m <= n
  <2>1. n \in Nat /\ m \in Nat /\ <<n, m>> \notin Below BY <1>1
  <2>2. ~(n < m) BY <2>1 DEF Below
  <2> QED BY <2>1, <2>2
<1> QED BY <1>2

\* r is s without its first d entries.
Without(s, d, r) == /\ d \in 0..Len(s) /\ Len(r) = Len(s) - d
                    /\ \A i \in 1..Len(r) : r[i] = s[i + d]

\* Popping expired hits from the left takes away some, all expired, and leaves a hit that
\* is not expired at the head (rate_limit.py:42-44).
LEMMA FreshFacts ==
  ASSUME NEW s \in Seq(0..MaxTime), NEW n \in 0..MaxTime
  PROVE  /\ Fresh(s, n) \in Seq(0..MaxTime)
         /\ \E d \in 0..Len(s) : /\ Without(s, d, Fresh(s, n))
                                 /\ \A i \in 1..d : Expired(s[i], n)
         /\ Len(Fresh(s, n)) > 0 => ~Expired(Fresh(s, n)[1], n)
<1> DEFINE kept == {i \in 1..Len(s) : \E h \in 1..i : ~Expired(s[h], n)}
           live == {i \in 1..Len(s) : ~Expired(s[i], n)}
<1>0. Fresh(s, n) = SubSeq(s, Len(s) - Cardinality(kept) + 1, Len(s)) BY DEF Fresh
<1>1. Len(s) \in Nat /\ \A i \in 1..Len(s) : s[i] \in 0..MaxTime OBVIOUS
<1> HIDE DEF kept
<1>2. ASSUME NEW d \in 0..Len(s), Cardinality(kept) = Len(s) - d
      PROVE  Fresh(s, n) \in Seq(0..MaxTime) /\ Without(s, d, Fresh(s, n))
  <2>1. Fresh(s, n) = SubSeq(s, d + 1, Len(s)) BY <1>0, <1>1, <1>2
  <2>2. /\ SubSeq(s, d + 1, Len(s)) \in Seq(0..MaxTime)
        /\ Len(SubSeq(s, d + 1, Len(s))) = Len(s) - d
        /\ \A i \in 1..Len(s) - d : SubSeq(s, d + 1, Len(s))[i] = s[d + i]
    BY <1>1
  <2> QED BY <1>1, <2>1, <2>2 DEF Without
<1>3. CASE live = {}
  <2>1. kept = {} BY <1>3 DEF kept
  <2>2. Cardinality(kept) = Len(s) - Len(s) BY <1>1, <2>1, FS_EmptySet
  <2>3. Fresh(s, n) \in Seq(0..MaxTime) /\ Without(s, Len(s), Fresh(s, n))
    BY <1>1, <1>2, <2>2
  <2>4. \A i \in 1..Len(s) : Expired(s[i], n) BY <1>3
  <2>5. Len(Fresh(s, n)) = 0 BY <1>1, <2>3 DEF Without
  <2> QED BY <1>1, <2>3, <2>4, <2>5
<1>4. CASE live # {}
  <2>1. PICK m \in live : \A i \in live : m <= i
    <3>1. live \in SUBSET Nat BY <1>1
    <3> QED BY <1>4, <3>1, Least
  <2>2. m \in 1..Len(s) /\ ~Expired(s[m], n) /\ \A i \in 1..m - 1 : Expired(s[i], n)
    BY <1>1, <2>1
  <2>3. kept = m..Len(s) BY <1>1, <2>2 DEF kept
  <2>4. Cardinality(kept) = Len(s) - (m - 1) BY <1>1, <2>2, <2>3, FS_Interval
  <2>5. m - 1 \in 0..Len(s) BY <1>1, <2>2
  <2>6. Fresh(s, n) \in Seq(0..MaxTime) /\ Without(s, m - 1, Fresh(s, n)) BY <1>2, <2>4, <2>5
  <2>7. Len(Fresh(s, n)) > 0 => Fresh(s, n)[1] = s[m] BY <1>1, <2>2, <2>6 DEF Without
  <2> QED BY <2>2, <2>5, <2>6, <2>7
<1> QED BY <1>3, <1>4

\* Rounding up to whole seconds adds less than one (rate_limit.py:60).
LEMMA RoundsUp ==
  ASSUME NEW a \in Int
  PROVE  /\ WholeSeconds(a) \in Int
         /\ a <= TicksPerSecond * WholeSeconds(a)
         /\ TicksPerSecond * WholeSeconds(a) < a + TicksPerSecond
<1> DEFINE b == a + TicksPerSecond - 1
           q == b \div TicksPerSecond
<1>1. b \in Int /\ TicksPerSecond \in Nat \ {0} OBVIOUS
<1>2. q \in Int /\ b % TicksPerSecond \in 0..TicksPerSecond - 1 BY <1>1
<1>3. b % TicksPerSecond = b - TicksPerSecond * q BY <1>1, SMTT(30)
<1>4. WholeSeconds(a) = q BY DEF WholeSeconds
<1>5. TicksPerSecond * q \in Int BY <1>1, <1>2
<1> QED BY <1>1, <1>2, <1>3, <1>4, <1>5

----------------------------------------------------------------------------
(* What a key's deque remembers of its admissions.                         *)

\* Types of the parts that the lemmas below speak of.
LEMMA Typed ==
  ASSUME TypeOK, NEW k \in Keys
  PROVE  /\ Queue(k) \in Seq(0..MaxTime) /\ Len(Queue(k)) \in Nat
         /\ admitted[k] \in Seq(0..MaxTime) /\ Len(admitted[k]) \in Nat
         /\ clock \in Nat /\ lag \in Nat
<1>1. Queue(k) \in Seq(0..MaxTime)
  <2>1. CASE k \in DOMAIN hits BY <2>1 DEF TypeOK, Queue, Deque
  <2>2. CASE k \notin DOMAIN hits BY <2>2 DEF Queue, Deque
  <2> QED BY <2>1, <2>2
<1>2. admitted[k] \in Seq(0..MaxTime) BY DEF TypeOK
<1>3. clock \in Nat /\ lag \in Nat BY DEF TypeOK
<1> QED BY <1>1, <1>2, <1>3

\* Entries that are too old may go.
LEMMA Forgets ==
  ASSUME TypeOK, NEW a \in Seq(0..MaxTime), NEW q \in Seq(0..MaxTime), NEW r \in Seq(0..MaxTime),
         Remembers(q, a, clock + lag), NEW d \in 0..Len(q), Without(q, d, r),
         \A i \in 1..d : q[i] + Window <= clock + lag
  PROVE  Remembers(r, a, clock + lag)
<1>1. Len(a) \in Nat /\ Len(q) \in Nat /\ Len(r) = Len(q) - d /\ Len(q) <= Len(a)
  BY DEF Without, Remembers
<1>2. \A i \in 1..Len(r) : r[i] = q[i + d] /\ i + d \in 1..Len(q) BY <1>1 DEF Without
<1>3. \A i \in 1..Len(r) : r[i] = a[i + (Len(a) - Len(r))]
  <2> SUFFICES ASSUME NEW i \in 1..Len(r) PROVE r[i] = a[i + (Len(a) - Len(r))] OBVIOUS
  <2>1. r[i] = a[(i + d) + (Len(a) - Len(q))] BY <1>2 DEF Remembers
  <2> QED BY <1>1, <2>1
<1>4. \A i \in 1..Len(a) - Len(r) : a[i] + Window <= clock + lag
  <2> SUFFICES ASSUME NEW i \in 1..Len(a) - Len(r) PROVE a[i] + Window <= clock + lag OBVIOUS
  <2>1. CASE i <= Len(a) - Len(q)
    <3>1. i \in 1..Len(a) - Len(q) BY <1>1, <2>1
    <3> QED BY <3>1 DEF Remembers
  <2>2. CASE i > Len(a) - Len(q)
    <3>0. PICK j : j = i - (Len(a) - Len(q)) OBVIOUS
    <3>1. j \in 1..d /\ j \in 1..Len(q) /\ j + (Len(a) - Len(q)) = i BY <1>1, <2>2, <3>0, SMTT(30)
    <3>2. q[j] = a[i] BY <3>1 DEF Remembers
    <3> QED BY <3>1, <3>2
  <2> QED BY <1>1, <2>1, <2>2
<1> QED BY <1>1, <1>3, <1>4 DEF Remembers

\* The sweep drops only deques whose every entry is too old: it looks at the last, and no
\* other is later by more than lag (rate_limit.py:63-69).
LEMMA SweptFacts ==
  ASSUME LimiterInv, NEW n \in 0..MaxTime, n <= clock, NEW k \in Keys
  PROVE  /\ Deque(Swept(n), k) \in Seq(0..MaxTime)
         /\ Deque(Swept(n), k) = Queue(k) \/ Deque(Swept(n), k) = <<>>
         /\ Remembers(Deque(Swept(n), k), admitted[k], clock + lag)
<1> DEFINE q == Queue(k)
           a == admitted[k]
<1>0. /\ q \in Seq(0..MaxTime) /\ Len(q) \in Nat /\ a \in Seq(0..MaxTime) /\ Len(a) \in Nat
      /\ clock \in Nat /\ lag \in Nat /\ Remembers(q, a, clock + lag)
  BY Typed DEF LimiterInv, MemoryInv
<1> HIDE DEF q, a
<1>1. CASE Deque(Swept(n), k) = q BY <1>0, <1>1 DEF q, a
<1>2. CASE Deque(Swept(n), k) # q
  <2>1. /\ Deque(Swept(n), k) = <<>> /\ k \in DOMAIN hits /\ q = hits[k]
        /\ Stale(q, n) /\ q # <<>>
    BY <1>2 DEF Swept, Deque, Queue, q
  <2>2. q[Len(q)] <= n - Window BY <2>1 DEF Stale, Expired
  <2>3. ASSUME NEW i \in 1..Len(q) PROVE q[i] + Window <= clock + lag
    <3>0. PICK off : off = Len(a) - Len(q) OBVIOUS
    <3>a. Len(q) \in 1..Len(q) /\ Len(q) <= Len(a) BY <1>0 DEF Remembers
    <3>1. q[i] = a[i + off] /\ q[Len(q)] = a[Len(q) + off]
      BY <1>0, <3>a, <3>0 DEF Remembers
    <3>2. i + off \in 1..Len(a) /\ Len(a) \in i + off..Len(a) /\ Len(q) + off = Len(a)
      BY <1>0, <3>0, <3>a
    <3>3. a[i + off] <= a[Len(a)] + lag BY <3>2 DEF LimiterInv, OrderInv, a
    <3>4. a[i + off] \in 0..MaxTime /\ a[Len(a)] \in 0..MaxTime BY <1>0, <3>2
    <3>5. n - Window \in Int /\ n <= clock OBVIOUS
    <3>6. q[i] \in Int /\ q[Len(q)] \in Int /\ q[i] <= q[Len(q)] + lag
      BY <3>1, <3>2, <3>3, <3>4
    <3> QED BY <1>0, <2>2, <3>5, <3>6
  <2>4. Without(q, Len(q), <<>>) /\ <<>> \in Seq(0..MaxTime) BY <1>0 DEF Without
  <2>5. Remembers(<<>>, a, clock + lag)
    <3>1. Len(q) \in 0..Len(q) BY <1>0
    <3> QED BY <1>0, <2>3, <2>4, <3>1, Forgets DEF LimiterInv
  <2> QED BY <2>1, <2>4, <2>5 DEF a
<1> QED BY <1>1, <1>2

\* The deque that check looks at, after the sweep and the popping.
Seen(k, n) == Fresh(Deque(Swept(n), k), n)

\* It remembers all that can still count, and what it forgets is expired.
LEMMA SeenFacts ==
  ASSUME LimiterInv, NEW n \in 0..MaxTime, n <= clock, NEW k \in Keys
  PROVE  /\ Seen(k, n) \in Seq(0..MaxTime) /\ Len(Seen(k, n)) \in Nat
         /\ Remembers(Seen(k, n), admitted[k], clock + lag)
         /\ Len(Seen(k, n)) <= Len(Queue(k))
         /\ Len(Seen(k, n)) > 0 =>
              /\ n < Seen(k, n)[1] + Window
              /\ Len(Seen(k, n)) = Len(Queue(k)) => Seen(k, n)[1] = Queue(k)[1]
<1> DEFINE q == Deque(Swept(n), k)
           s == Fresh(q, n)
<1>1. /\ q \in Seq(0..MaxTime) /\ Remembers(q, admitted[k], clock + lag) /\ (q = Queue(k) \/ q = <<>>)
  BY SweptFacts
<1>2. /\ TypeOK /\ admitted[k] \in Seq(0..MaxTime) /\ clock \in Nat /\ lag \in Nat
      /\ Queue(k) \in Seq(0..MaxTime) /\ Len(Queue(k)) \in Nat
  BY Typed DEF LimiterInv
<1> HIDE DEF q
<1>3. s \in Seq(0..MaxTime) /\ (Len(s) > 0 => ~Expired(s[1], n)) BY <1>1, FreshFacts
<1>4. PICK d \in 0..Len(q) : Without(q, d, s) /\ \A i \in 1..d : Expired(q[i], n)
  BY <1>1, FreshFacts
<1>5. Seen(k, n) = s BY DEF Seen, q
<1> HIDE DEF s
<1>6. \A i \in 1..d : q[i] + Window <= clock + lag
  <2> SUFFICES ASSUME NEW i \in 1..d PROVE q[i] + Window <= clock + lag OBVIOUS
  <2>1. i \in 1..Len(q) BY <1>1
  <2>2. q[i] \in 0..MaxTime BY <1>1, <2>1
  <2> QED BY <1>2, <1>4, <2>2 DEF Expired
<1>7. Remembers(s, admitted[k], clock + lag) BY <1>1, <1>2, <1>3, <1>4, <1>6, Forgets
<1>8. Len(s) \in Nat /\ Len(q) \in Nat /\ Len(s) = Len(q) - d BY <1>1, <1>3, <1>4 DEF Without
<1>9. Len(s) <= Len(Queue(k)) BY <1>1, <1>2, <1>8
<1>10. ASSUME Len(s) > 0
       PROVE  n < s[1] + Window /\ (Len(s) = Len(Queue(k)) => s[1] = Queue(k)[1])
  <2>1. s[1] \in 0..MaxTime BY <1>3, <1>8, <1>10
  <2>2. q = Queue(k) BY <1>1, <1>8, <1>10
  <2>3. s[1] = q[1 + d] BY <1>4, <1>8, <1>10 DEF Without
  <2> QED BY <1>3, <1>8, <1>10, <2>1, <2>2, <2>3 DEF Expired
<1> QED BY <1>3, <1>5, <1>7, <1>8, <1>9, <1>10

----------------------------------------------------------------------------
(* The invariant holds at first and is kept by the clock.                  *)

\* The invariant holds before the first call.
LEMMA LimiterInit == Init => LimiterInv
<1> SUFFICES ASSUME Init PROVE LimiterInv OBVIOUS
<1> USE DEF Init
<1>0. <<>> \in Seq(0..MaxTime) /\ Len(<<>>) = 0 /\ DOMAIN hits = {} OBVIOUS
<1>1. TypeOK
  <2>1. NoMatter \in Keys BY DEF NoMatter
  <2>2. 0 \in 0..MaxTime /\ 0 \in 0..MaxCalls OBVIOUS
  <2> QED BY <1>0, <2>1, <2>2 DEF TypeOK
<1>2. ClockInv BY DEF ClockInv
<1>3. OrderInv BY <1>0 DEF OrderInv
<1>4. MemoryInv
  <2>1. \A k \in Keys : Queue(k) = <<>> BY <1>0 DEF Queue, Deque
  <2> QED BY <1>0, <2>1 DEF MemoryInv, Remembers
<1>5. PromiseInv BY DEF PromiseInv
<1>6. DequesBounded BY <1>0 DEF DequesBounded
<1>7. LimitUpToSkew
  <2> SUFFICES ASSUME NEW k \in Keys, NEW from \in 0..MaxTime
               PROVE  Admissions(k, from, Window - 2 * lag) <= MaxRequests
    BY DEF LimitUpToSkew
  <2>1. Admissions(k, from, Window - 2 * lag) = Cardinality({})
    BY <1>0 DEF Admissions
  <2> QED BY <2>1, FS_EmptySet
<1> QED BY <1>1, <1>2, <1>3, <1>4, <1>5, <1>6, <1>7 DEF LimiterInv

\* The clock preserves it.
LEMMA TickStep == LimiterInv /\ Tick => LimiterInv'
<1> SUFFICES ASSUME LimiterInv, Tick PROVE LimiterInv' OBVIOUS
<1>0. TypeOK /\ clock \in Nat /\ clock' = clock + 1 /\ lag \in Nat
  BY DEF LimiterInv, TypeOK, Tick
<1>1. UNCHANGED <<lag, hits, lastSweep, pc, now, key, calls, admitted, promise>> BY DEF Tick
<1>2. TypeOK' BY <1>0, <1>1 DEF TypeOK, Tick
<1>3. ClockInv'
  <2> SUFFICES ASSUME NEW t \in Threads, pc[t] = "locking"
               PROVE  now[t] <= clock + 1 /\ clock + 1 <= now[t] + lag
    BY <1>0, <1>1 DEF ClockInv
  <2>1. now[t] \in Nat /\ now[t] <= clock BY <1>0 DEF LimiterInv, ClockInv, TypeOK
  <2>2. clock - now[t] < lag BY DEF Tick
  <2> QED BY <1>0, <2>1, <2>2
<1>4. OrderInv'
  <2> SUFFICES ASSUME NEW k \in Keys, NEW i \in 1..Len(admitted[k])
               PROVE  admitted[k][i] <= clock + 1
    BY <1>0, <1>1 DEF LimiterInv, OrderInv
  <2>1. admitted[k][i] <= clock BY DEF LimiterInv, OrderInv
  <2>2. admitted[k][i] \in 0..MaxTime BY <1>0 DEF TypeOK
  <2> QED BY <1>0, <2>1, <2>2
<1>5. MemoryInv'
  <2> SUFFICES ASSUME NEW k \in Keys
               PROVE  Remembers(Queue(k), admitted[k], clock + 1 + lag)
    BY <1>0, <1>1 DEF MemoryInv, Queue
  <2>1. Remembers(Queue(k), admitted[k], clock + lag) BY DEF LimiterInv, MemoryInv
  <2>2. /\ admitted[k] \in Seq(0..MaxTime) /\ Len(admitted[k]) \in Nat /\ Len(Queue(k)) \in Nat
    BY <1>0, Typed
  <2>3. ASSUME NEW i \in 1..Len(admitted[k]) - Len(Queue(k))
        PROVE  admitted[k][i] + Window <= clock + 1 + lag
    <3>1. i \in 1..Len(admitted[k]) BY <2>2
    <3>2. admitted[k][i] \in 0..MaxTime BY <2>2, <3>1
    <3>3. admitted[k][i] + Window <= clock + lag BY <2>1 DEF Remembers
    <3> QED BY <1>0, <3>2, <3>3
  <2> QED BY <2>1, <2>3 DEF Remembers
<1>6. PromiseInv' BY <1>1 DEF LimiterInv, PromiseInv, Queue
<1>7. DequesBounded' BY <1>1 DEF LimiterInv, DequesBounded
<1>8. LimitUpToSkew' BY <1>1 DEF LimiterInv, LimitUpToSkew, Admissions
<1> QED BY <1>2, <1>3, <1>4, <1>5, <1>6, <1>7, <1>8 DEF LimiterInv

\* Reading the clock before the lock preserves it.
LEMMA ReadClockStep ==
  ASSUME LimiterInv, NEW t \in Threads, ReadClock(t) PROVE LimiterInv'
<1>0. TypeOK /\ clock \in Nat /\ clock \in 0..MaxTime /\ lag \in Nat BY DEF LimiterInv, TypeOK
<1>1. UNCHANGED <<clock, lag, hits, lastSweep, admitted, promise>> BY DEF ReadClock
<1>2. TypeOK' BY <1>0 DEF TypeOK, ReadClock
<1>3. ClockInv'
  <2> SUFFICES ASSUME NEW u \in Threads, pc'[u] = "locking"
               PROVE  now'[u] <= clock /\ clock <= now'[u] + lag
    BY <1>1 DEF ClockInv
  <2>1. CASE u = t
    <3>1. now'[u] = clock BY <1>0, <2>1 DEF ReadClock, TypeOK
    <3> QED BY <1>0, <3>1
  <2>2. CASE u # t
    <3>1. pc[u] = "locking" /\ now'[u] = now[u] BY <1>0, <2>2 DEF ReadClock, TypeOK
    <3> QED BY <3>1 DEF LimiterInv, ClockInv
  <2> QED BY <2>1, <2>2
<1>4. OrderInv' BY <1>1 DEF LimiterInv, OrderInv
<1>5. MemoryInv' BY <1>1 DEF LimiterInv, MemoryInv, Queue
<1>6. PromiseInv' BY <1>1 DEF LimiterInv, PromiseInv, Queue
<1>7. DequesBounded' BY <1>1 DEF LimiterInv, DequesBounded
<1>8. LimitUpToSkew' BY <1>1 DEF LimiterInv, LimitUpToSkew, Admissions
<1> QED BY <1>2, <1>3, <1>4, <1>5, <1>6, <1>7, <1>8 DEF LimiterInv

----------------------------------------------------------------------------
(* A decision.                                                             *)

\* The time a thread decides with lies no more than lag in the past.
LEMMA NowFacts ==
  ASSUME LimiterInv, NEW t \in Threads, Decide(t)
  PROVE  /\ pc[t] = "locking" /\ key[t] \in Keys
         /\ now[t] \in 0..MaxTime /\ now[t] <= clock /\ clock <= now[t] + lag
         /\ UNCHANGED <<clock, lag, calls>>
<1>1. pc[t] = "locking" /\ UNCHANGED <<clock, lag, calls>> BY DEF Decide
<1> QED BY <1>1 DEF LimiterInv, TypeOK, ClockInv

\* What becomes of the deques: that of k is stored, the others survive the sweep or go.
Stored(k, n) == /\ DOMAIN hits' \subseteq Keys /\ k \in DOMAIN hits'
                /\ \A x \in Keys \ {k} : Queue(x)' = Deque(Swept(n), x)
                /\ \A x \in DOMAIN hits' \ {k} : x \in DOMAIN hits /\ hits'[x] = hits[x]
                /\ hits'[k] = Queue(k)'

\* The two outcomes of a decision that looks at s.
Admitted(k, n, s) == /\ Len(s) < MaxRequests
                     /\ Queue(k)' = Append(s, n)
                     /\ admitted' = [admitted EXCEPT ![k] = Append(@, n)]
                     /\ promise' = [promise EXCEPT ![k] = -1]
Refused(k, n, s) == /\ Len(s) >= MaxRequests
                    /\ Queue(k)' = s
                    /\ promise' = [promise EXCEPT ![k] = n + TicksPerSecond * retry_after(s, n)]
                    /\ admitted' = admitted

\* A decision stores the hits it saw, and either admits the call or refuses it.
LEMMA Outcomes ==
  ASSUME LimiterInv, NEW t \in Threads, Decide(t),
         NEW k, k = key[t], NEW n, n = now[t], NEW s, s = Seen(k, n)
  PROVE  Stored(k, n) /\ (Admitted(k, n, s) \/ Refused(k, n, s))
<1>0. /\ k \in Keys /\ n \in 0..MaxTime /\ Len(s) \in Nat /\ DOMAIN hits \subseteq Keys
  BY NowFacts, SeenFacts DEF LimiterInv, TypeOK
<1>1. PICK h : h = Swept(n) OBVIOUS
<1>2. DOMAIN h \subseteq DOMAIN hits /\ \A x \in DOMAIN h : h[x] = hits[x] BY <1>1 DEF Swept
<1>3. \/ /\ Room(s) /\ hits' = Store(h, k, Append(s, n))
         /\ admitted' = [admitted EXCEPT ![k] = Append(@, n)]
         /\ promise' = [promise EXCEPT ![k] = -1]
      \/ /\ ~Room(s) /\ hits' = Store(h, k, s)
         /\ promise' = [promise EXCEPT ![k] = n + TicksPerSecond * retry_after(s, n)]
         /\ admitted' = admitted
  BY <1>1 DEF Decide, Seen
<1>4. ASSUME NEW r, hits' = Store(h, k, r)
      PROVE  /\ DOMAIN hits' \subseteq Keys /\ k \in DOMAIN hits'
             /\ \A x \in Keys \ {k} : Queue(x)' = Deque(h, x)
             /\ \A x \in DOMAIN hits' \ {k} : x \in DOMAIN hits /\ hits'[x] = hits[x]
             /\ Queue(k)' = r /\ hits'[k] = r
  <2>1. /\ DOMAIN hits' = DOMAIN h \cup {k}
        /\ \A x \in DOMAIN h \cup {k} : hits'[x] = IF x = k THEN r ELSE h[x]
    BY <1>4 DEF Store
  <2>2. Queue(k)' = r BY <2>1 DEF Queue, Deque
  <2>3. ASSUME NEW x \in Keys \ {k} PROVE Queue(x)' = Deque(h, x) BY <2>1 DEF Queue, Deque
  <2> QED BY <1>0, <1>2, <2>1, <2>2, <2>3
<1>5. CASE Room(s) /\ hits' = Store(h, k, Append(s, n))
  <2>1. PICK r : r = Append(s, n) OBVIOUS
  <2> QED BY <1>0, <1>1, <1>3, <1>4, <1>5, <2>1 DEF Room, Stored, Admitted, Refused
<1>6. CASE ~Room(s) /\ hits' = Store(h, k, s)
  BY <1>0, <1>1, <1>3, <1>4, <1>6 DEF Room, Stored, Admitted, Refused
<1> QED BY <1>3, <1>5, <1>6

\* An admitted request is remembered.
LEMMA Admits ==
  ASSUME TypeOK, NEW a \in Seq(0..MaxTime), NEW r \in Seq(0..MaxTime), NEW n \in 0..MaxTime,
         NEW time, Remembers(r, a, time)
  PROVE  Remembers(Append(r, n), Append(a, n), time)
<1>1. Len(a) \in Nat /\ Len(r) \in Nat /\ Len(r) <= Len(a) BY DEF Remembers
<1>2. PICK b : b = Append(a, n) OBVIOUS
<1>3. PICK q : q = Append(r, n) OBVIOUS
<1>4. /\ Len(b) = Len(a) + 1 /\ b[Len(a) + 1] = n /\ \A i \in 1..Len(a) : b[i] = a[i]
      /\ Len(q) = Len(r) + 1 /\ q[Len(r) + 1] = n /\ \A i \in 1..Len(r) : q[i] = r[i]
  BY <1>2, <1>3
<1>5. \A i \in 1..Len(q) : q[i] = b[i + (Len(b) - Len(q))]
  <2> SUFFICES ASSUME NEW i \in 1..Len(q) PROVE q[i] = b[i + (Len(b) - Len(q))] OBVIOUS
  <2>0. Len(b) - Len(q) = Len(a) - Len(r) BY <1>1, <1>4
  <2>1. CASE i = Len(r) + 1 BY <1>1, <1>4, <2>0, <2>1
  <2>2. CASE i # Len(r) + 1
    <3>1. i \in 1..Len(r) /\ i + (Len(a) - Len(r)) \in 1..Len(a) BY <1>1, <1>4, <2>2
    <3>2. r[i] = a[i + (Len(a) - Len(r))] BY <3>1 DEF Remembers
    <3> QED BY <1>4, <2>0, <3>1, <3>2
  <2> QED BY <2>1, <2>2
<1>6. \A i \in 1..Len(b) - Len(q) : b[i] + Window <= time
  <2> SUFFICES ASSUME NEW i \in 1..Len(b) - Len(q) PROVE b[i] + Window <= time OBVIOUS
  <2>1. i \in 1..Len(a) - Len(r) /\ i \in 1..Len(a) BY <1>1, <1>4
  <2> QED BY <1>4, <2>1 DEF Remembers
<1>7. Remembers(q, b, time) BY <1>1, <1>4, <1>5, <1>6 DEF Remembers
<1> QED BY <1>2, <1>3, <1>7

\* Which admissions fall into a window.
Within(a, W) == {i \in DOMAIN a : a[i] \in W}

\* What lies in a window that ends less than twice the lag before the end of the last
\* admission's is still in the deque, so there is room for it (rate_limit.py:45-53).
LEMMA LimitKept ==
  ASSUME NEW a \in Seq(0..MaxTime), NEW r \in Seq(0..MaxTime), NEW n \in 0..MaxTime,
         NEW time \in Nat, NEW slack \in Nat, Remembers(r, a, time + slack),
         Len(r) < MaxRequests, time <= n + slack,
         NEW from \in 0..MaxTime, NEW W, W = from..from + (Window - 2 * slack) - 1,
         Cardinality(Within(a, W)) <= MaxRequests
  PROVE  Cardinality(Within(Append(a, n), W)) <= MaxRequests
<1>0. PICK b : b = Append(a, n) OBVIOUS
<1>1. /\ Len(a) \in Nat /\ Len(r) \in Nat /\ Len(b) = Len(a) + 1 /\ b[Len(a) + 1] = n
      /\ DOMAIN a = 1..Len(a) /\ DOMAIN b = 1..Len(a) + 1 /\ \A i \in 1..Len(a) : b[i] = a[i]
      /\ Len(r) <= Len(a)
  BY <1>0 DEF Remembers
<1>2. PICK new : new = Within(b, W) OBVIOUS
<1>4. CASE n \notin W
  <2>1. Within(b, W) = Within(a, W) BY <1>1, <1>4 DEF Within
  <2> QED BY <1>0, <2>1
<1>5. CASE n \in W
  <2>0. PICK last : last = Len(a) - Len(r) + 1..Len(a) + 1 OBVIOUS
  <2>1. ASSUME NEW i \in new PROVE i \in last
    <3>1. i \in 1..Len(a) + 1 /\ b[i] \in W BY <1>1, <1>2 DEF Within
    <3>2. CASE i \in 1..Len(a) - Len(r)
      <4>1. a[i] + Window <= time + slack BY <3>2 DEF Remembers
      <4>2. i \in 1..Len(a) BY <1>1, <3>2
      <4>3. a[i] \in 0..MaxTime /\ a[i] \in W BY <1>1, <3>1, <4>2
      <4>4. from <= a[i] /\ n <= from + (Window - 2 * slack) - 1 BY <1>5, <4>3
      <4> QED BY <4>1, <4>3, <4>4
    <3>3. CASE i \notin 1..Len(a) - Len(r) BY <1>1, <2>0, <3>1, <3>3
    <3> QED BY <3>2, <3>3
  <2>2. IsFiniteSet(last) /\ Cardinality(last) = Len(r) + 1 BY <1>1, <2>0, FS_Interval
  <2>3. Cardinality(new) <= Len(r) + 1 BY <2>1, <2>2, FS_Subset
  <2>4. Cardinality(new) \in Nat BY <2>1, <2>2, FS_Subset, FS_CardinalityType
  <2>5. MaxRequests \in Nat OBVIOUS
  <2> QED BY <1>0, <1>1, <1>2, <2>3, <2>4, <2>5
<1> QED BY <1>4, <1>5

\* A refused caller who comes back when told finds the oldest hit expired
\* (rate_limit.py:55-61).
LEMMA LongEnough ==
  ASSUME NEW s \in Seq(0..MaxTime), NEW n \in 0..MaxTime, n < s[1] + Window, Len(s) > 0
  PROVE  \E w \in Nat : /\ w = TicksPerSecond * retry_after(s, n)
                        /\ s[1] + Window <= n + w /\ 0 < w
                        /\ n + w <= MaxTime + Window + TicksPerSecond
<1>1. PICK ticks : ticks = s[1] + Window - n OBVIOUS
<1>2. PICK wait : wait = WholeSeconds(ticks) OBVIOUS
<1>3. s[1] \in 0..MaxTime /\ ticks \in Nat /\ ticks >= 1 BY <1>1
<1>4. wait \in Int /\ ticks <= TicksPerSecond * wait /\ TicksPerSecond * wait < ticks + TicksPerSecond
  BY <1>2, <1>3, RoundsUp
<1>5. retry_after(s, n) = wait
  <2>1. wait >= 1
    <3>1. CASE wait <= 0
      <4>1. TicksPerSecond * wait <= 0 BY <1>4, <3>1
      <4> QED BY <1>3, <1>4, <4>1
    <3> QED BY <1>4, <3>1
  <2> QED BY <1>1, <1>2, <1>4, <2>1 DEF retry_after
<1>6. PICK w : w = TicksPerSecond * wait OBVIOUS
<1>7. w \in Int /\ ticks <= w /\ w < ticks + TicksPerSecond BY <1>4, <1>6
<1>8. w \in Nat /\ s[1] + Window <= n + w /\ 0 < w /\ n + w <= MaxTime + Window + TicksPerSecond
  BY <1>1, <1>3, <1>7
<1> QED BY <1>5, <1>6, <1>8

\* A decision preserves the invariant.
LEMMA DecideStep ==
  ASSUME LimiterInv, NEW t \in Threads, Decide(t) PROVE LimiterInv'
<1>0. PICK k, n : k = key[t] /\ n = now[t] OBVIOUS
<1>1. PICK s : s = Seen(k, n) OBVIOUS
<1>2. /\ k \in Keys /\ n \in 0..MaxTime /\ n <= clock /\ clock <= n + lag
      /\ UNCHANGED <<clock, lag, calls>> /\ TypeOK /\ clock \in Nat /\ lag \in Nat
  BY <1>0, NowFacts DEF LimiterInv, TypeOK
<1>3. /\ s \in Seq(0..MaxTime) /\ Len(s) \in Nat
      /\ Remembers(s, admitted[k], clock + lag)
      /\ Len(s) <= Len(Queue(k))
      /\ Len(s) > 0 => /\ n < s[1] + Window
                       /\ Len(s) = Len(Queue(k)) => s[1] = Queue(k)[1]
  BY <1>1, <1>2, SeenFacts
<1>4. Stored(k, n) /\ (Admitted(k, n, s) \/ Refused(k, n, s)) BY <1>0, <1>1, Outcomes
<1>5. /\ admitted[k] \in Seq(0..MaxTime) /\ Len(admitted[k]) \in Nat
      /\ Len(Queue(k)) \in Nat /\ Len(Queue(k)) <= MaxRequests
  <2>1. CASE k \in DOMAIN hits
    <3>1. Queue(k) = hits[k] BY <2>1 DEF Queue, Deque
    <3> QED BY <1>2, <2>1, <3>1, Typed DEF LimiterInv, DequesBounded
  <2>2. CASE k \notin DOMAIN hits
    <3>1. Queue(k) = <<>> BY <2>2 DEF Queue, Deque
    <3> QED BY <1>2, <3>1, Typed
  <2> QED BY <2>1, <2>2
<1>6. PICK r : r = Queue(k)' OBVIOUS
<1>7. /\ r \in Seq(0..MaxTime) /\ Len(r) \in 1..MaxRequests
      /\ admitted' \in [Keys -> Seq(0..MaxTime)]
      /\ Remembers(r, admitted'[k], clock + lag)
      /\ \A x \in Keys \ {k} : admitted'[x] = admitted[x]
  <2>1. CASE Admitted(k, n, s)
    <3>1. r = Append(s, n) BY <1>6, <2>1 DEF Admitted
    <3>2. r \in Seq(0..MaxTime) /\ Len(r) = Len(s) + 1 BY <1>2, <1>3, <3>1
    <3>3. Append(admitted[k], n) \in Seq(0..MaxTime) BY <1>2, <1>5
    <3>4. admitted'[k] = Append(admitted[k], n) BY <1>2, <2>1 DEF Admitted, TypeOK
    <3>5. Remembers(r, admitted'[k], clock + lag) BY <1>2, <1>3, <1>5, <3>1, <3>4, Admits
    <3>6. admitted' \in [Keys -> Seq(0..MaxTime)] BY <1>2, <2>1, <3>3 DEF Admitted, TypeOK
    <3>7. \A x \in Keys \ {k} : admitted'[x] = admitted[x]
      BY <1>2, <2>1 DEF Admitted, TypeOK
    <3> QED BY <1>3, <2>1, <3>2, <3>5, <3>6, <3>7 DEF Admitted
  <2>2. CASE Refused(k, n, s)
    BY <1>2, <1>3, <1>5, <1>6, <2>2 DEF Refused, TypeOK
  <2> QED BY <1>4, <2>1, <2>2
<1>8. MemoryInv'
  <2> SUFFICES ASSUME NEW x \in Keys
               PROVE  Remembers(Queue(x)', admitted'[x], clock + lag)
    BY <1>2 DEF MemoryInv
  <2>1. CASE x = k BY <1>6, <1>7, <2>1
  <2>2. CASE x # k
    <3>1. Queue(x)' = Deque(Swept(n), x) BY <1>4, <2>2 DEF Stored
    <3>2. Remembers(Deque(Swept(n), x), admitted[x], clock + lag) BY <1>2, SweptFacts
    <3> QED BY <1>7, <2>2, <3>1, <3>2
  <2> QED BY <2>1, <2>2
<1>9. ClockInv'
  <2> SUFFICES ASSUME NEW u \in Threads, pc'[u] = "locking"
               PROVE  now'[u] <= clock /\ clock <= now'[u] + lag
    BY <1>2 DEF ClockInv
  <2>1. u # t /\ pc[u] = "locking" /\ now'[u] = now[u] BY <1>2 DEF Decide, TypeOK
  <2> QED BY <2>1 DEF LimiterInv, ClockInv
<1>10. OrderInv'
  <2> SUFFICES ASSUME NEW x \in Keys, NEW i \in 1..Len(admitted'[x])
               PROVE  /\ admitted'[x][i] <= clock
                      /\ \A j \in i..Len(admitted'[x]) : admitted'[x][i] <= admitted'[x][j] + lag
    BY <1>2 DEF OrderInv
  <2>1. CASE admitted'[x] = admitted[x] BY <2>1 DEF LimiterInv, OrderInv
  <2>2. CASE admitted'[x] # admitted[x]
    <3>1. x = k /\ Admitted(k, n, s) BY <1>4, <1>7, <2>2 DEF Refused
    <3>2. PICK a, b : a = admitted[k] /\ b = admitted'[k] OBVIOUS
    <3>3. b = Append(a, n) BY <1>2, <3>1, <3>2 DEF Admitted, TypeOK
    <3>a. a \in Seq(0..MaxTime) BY <1>5, <3>2
    <3>4. /\ Len(b) = Len(a) + 1 /\ b[Len(a) + 1] = n /\ \A j \in 1..Len(a) : b[j] = a[j]
          /\ Len(a) \in Nat /\ \A j \in 1..Len(a) : a[j] \in 0..MaxTime
      BY <1>2, <3>a, <3>3
    <3>5. \A p \in 1..Len(a) : a[p] <= clock /\ \A j \in p..Len(a) : a[p] <= a[j] + lag
      BY <1>2, <3>2 DEF LimiterInv, OrderInv
    <3>6. i \in 1..Len(a) + 1 BY <3>1, <3>2, <3>4
    <3>7. CASE i = Len(a) + 1 BY <1>2, <3>1, <3>2, <3>4, <3>7
    <3>8. CASE i # Len(a) + 1
      <4>1. i \in 1..Len(a) /\ b[i] = a[i] /\ a[i] <= clock /\ a[i] \in 0..MaxTime
        BY <3>4, <3>5, <3>6, <3>8
      <4>2. ASSUME NEW j \in i..Len(b) PROVE b[i] <= b[j] + lag
        <5>1. CASE j = Len(a) + 1 BY <1>2, <3>4, <4>1, <5>1
        <5>2. CASE j # Len(a) + 1
          <6>1. j \in i..Len(a) /\ j \in 1..Len(a) BY <3>4, <4>1, <5>2
          <6> QED BY <3>4, <3>5, <4>1, <6>1
        <5> QED BY <5>1, <5>2
      <4> QED BY <3>1, <3>2, <4>1, <4>2
    <3> QED BY <3>7, <3>8
  <2> QED BY <2>1, <2>2
<1>11. DequesBounded'
  <2> SUFFICES ASSUME NEW x \in DOMAIN hits' PROVE Len(hits'[x]) \in 1..MaxRequests
    BY DEF DequesBounded
  <2>1. CASE x = k BY <1>4, <1>6, <1>7, <2>1 DEF Stored
  <2>2. CASE x # k BY <1>4, <2>2 DEF Stored, LimiterInv, DequesBounded
  <2> QED BY <2>1, <2>2
<1>12. PICK p : p = n + TicksPerSecond * retry_after(s, n) OBVIOUS
<1>13. Refused(k, n, s) => /\ s[1] + Window <= p /\ n < p /\ p \in Int
                           /\ p <= MaxTime + Window + TicksPerSecond
  <2> SUFFICES ASSUME Refused(k, n, s)
               PROVE  /\ s[1] + Window <= p /\ n < p /\ p \in Int
                      /\ p <= MaxTime + Window + TicksPerSecond
    OBVIOUS
  <2>1. Len(s) > 0 BY <1>3 DEF Refused
  <2>2. PICK w \in Nat : /\ w = TicksPerSecond * retry_after(s, n)
                        /\ s[1] + Window <= n + w /\ 0 < w
                        /\ n + w <= MaxTime + Window + TicksPerSecond
    BY <1>2, <1>3, <2>1, LongEnough
  <2>3. p = n + w BY <1>12, <2>2
  <2>4. n \in Nat BY <1>2
  <2> QED BY <2>2, <2>3, <2>4
<1>14. PromiseInv'
  <2> SUFFICES ASSUME NEW x \in Keys, promise'[x] # -1
               PROVE  Len(Queue(x)') < MaxRequests \/ Queue(x)'[1] + Window <= promise'[x]
    BY DEF PromiseInv
  <2>1. CASE x = k
    <3>1. Refused(k, n, s) BY <1>2, <1>4, <2>1 DEF Admitted, TypeOK
    <3>2. promise'[k] = p /\ Queue(k)' = s BY <1>2, <1>12, <3>1 DEF Refused, TypeOK
    <3> QED BY <1>13, <2>1, <3>1, <3>2
  <2>2. CASE x # k
    <3>1. promise'[x] = promise[x] BY <1>2, <1>4, <2>2 DEF Admitted, Refused, TypeOK
    <3>2. Queue(x)' = Deque(Swept(n), x) BY <1>4, <2>2 DEF Stored
    <3>3. CASE Deque(Swept(n), x) = Queue(x)
      BY <3>1, <3>2, <3>3 DEF LimiterInv, PromiseInv
    <3>4. CASE Deque(Swept(n), x) = <<>>
      <4>1. Len(<<>>) = 0 OBVIOUS
      <4> QED BY <3>2, <3>4, <4>1
    <3> QED BY <1>2, <3>3, <3>4, SweptFacts
  <2> QED BY <2>1, <2>2
<1>15. LimitUpToSkew'
  <2> SUFFICES ASSUME NEW x \in Keys, NEW from \in 0..MaxTime
               PROVE  Admissions(x, from, Window - 2 * lag)' <= MaxRequests
    BY <1>2 DEF LimitUpToSkew
  <2>0. PICK W : W = from..from + (Window - 2 * lag) - 1 OBVIOUS
  <2>1. Admissions(x, from, Window - 2 * lag) = Cardinality(Within(admitted[x], W))
    BY <2>0 DEF Admissions, Within
  <2>2. Admissions(x, from, Window - 2 * lag)' = Cardinality(Within(admitted'[x], W))
    BY <1>2, <2>0 DEF Admissions, Within
  <2>3. Cardinality(Within(admitted[x], W)) <= MaxRequests
    BY <2>1 DEF LimiterInv, LimitUpToSkew
  <2>4. CASE admitted'[x] = admitted[x] BY <2>2, <2>3, <2>4
  <2>5. CASE admitted'[x] # admitted[x]
    <3>1. x = k /\ Admitted(k, n, s) BY <1>4, <1>7, <2>5 DEF Refused
    <3>2. PICK a, b : a = admitted[k] /\ b = admitted'[k] OBVIOUS
    <3>3. b = Append(a, n) BY <1>2, <3>1, <3>2 DEF Admitted, TypeOK
    <3>4. Cardinality(Within(a, W)) <= MaxRequests BY <2>3, <3>1, <3>2
    <3>5. s \in Seq(0..MaxTime) /\ a \in Seq(0..MaxTime) /\ Remembers(s, a, clock + lag) /\ Len(s) < MaxRequests
      BY <1>3, <1>5, <3>1, <3>2 DEF Admitted
    <3>7. Cardinality(Within(Append(a, n), W)) <= MaxRequests
      BY <1>2, <2>0, <3>4, <3>5, LimitKept
    <3> QED BY <2>2, <3>1, <3>2, <3>3, <3>7
  <2> QED BY <2>4, <2>5
<1>16. TypeOK'
  <2>1. DOMAIN hits' \subseteq Keys /\ \A x \in DOMAIN hits' : hits'[x] \in Seq(0..MaxTime)
    BY <1>2, <1>4, <1>6, <1>7 DEF Stored, TypeOK
  <2>2. promise' \in [Keys -> {-1} \cup 1..MaxTime + MaxSkew + Window + TicksPerSecond]
    <3>1. p \in 1..MaxTime + MaxSkew + Window + TicksPerSecond \/ Admitted(k, n, s)
      BY <1>2, <1>4, <1>13
    <3> QED BY <1>2, <1>4, <1>12, <3>1 DEF Admitted, Refused, TypeOK
  <2>3. lastSweep' \in 0..MaxTime BY <1>0, <1>2 DEF Decide, TypeOK
  <2>4. /\ pc' \in [Threads -> {"idle", "locking"}] /\ now' \in [Threads -> 0..MaxTime]
        /\ key' \in [Threads -> Keys]
    <3>1. NoMatter \in Keys BY DEF NoMatter
    <3> QED BY <1>2, <3>1 DEF Decide, TypeOK
  <2> QED BY <1>2, <1>7, <2>1, <2>2, <2>3, <2>4 DEF TypeOK
<1> QED BY <1>8, <1>9, <1>10, <1>11, <1>14, <1>15, <1>16 DEF LimiterInv

----------------------------------------------------------------------------
(* The theorems.                                                           *)

\* Every step preserves it.
LEMMA LimiterStep == LimiterInv /\ [Next]_vars => LimiterInv'
<1> SUFFICES ASSUME LimiterInv, [Next]_vars PROVE LimiterInv' OBVIOUS
<1>1. CASE Tick BY <1>1, TickStep
<1>2. CASE \E t \in Threads : ReadClock(t) BY <1>2, ReadClockStep
<1>3. CASE \E t \in Threads : Decide(t) BY <1>3, DecideStep
<1>4. CASE UNCHANGED vars
  BY <1>4 DEF vars, LimiterInv, TypeOK, ClockInv, OrderInv, MemoryInv, PromiseInv, Queue,
              DequesBounded, LimitUpToSkew, Admissions
<1> QED BY <1>1, <1>2, <1>3, <1>4 DEF Next

\* It holds in every reachable state.
LEMMA LimiterInvariant == Spec => []LimiterInv
BY LimiterInit, LimiterStep, PTL DEF Spec

\* Every variable keeps its type, whatever the number of threads and keys; the time a
\* refusal names lies within a window and a second of the present (rate_limit.py:37-61).
THEOREM LimiterTypeCorrect == Spec => []TypeOK
<1>1. LimiterInv => TypeOK BY DEF LimiterInv
<1> QED BY <1>1, LimiterInvariant, PTL

\* No key's deque ever holds more hits than the limit, and none is kept empty
\* (rate_limit.py:42-53, 63-69).
THEOREM MemoryAlwaysBounded == Spec => []DequesBounded
<1>1. LimiterInv => DequesBounded BY DEF LimiterInv
<1> QED BY <1>1, LimiterInvariant, PTL

\* No window that is shorter than the configured one by twice the lag ever has more than
\* the limit, however threads overtake each other between the clock and the lock; with no
\* lag that is the documented limit (rate_limit.py:37-69).
THEOREM LimitAlwaysKept == Spec => []LimitUpToSkew
<1>1. LimiterInv => LimitUpToSkew BY DEF LimiterInv
<1> QED BY <1>1, LimiterInvariant, PTL

\* Where no thread waits between the clock and the lock, which reading the clock under the
\* lock would bring about, the limit of .env.example:8 holds of every window.
THEOREM FullLimitWithoutLag == Spec => [](lag = 0 => WindowLimit)
<1>1. LimiterInv => (lag = 0 => WindowLimit)
  <2> SUFFICES ASSUME LimiterInv, lag = 0, NEW k \in Keys, NEW from \in 0..MaxTime
               PROVE  Admissions(k, from, Window) <= MaxRequests
    BY DEF WindowLimit
  <2>1. Window - 2 * lag = Window OBVIOUS
  <2> QED BY <2>1 DEF LimiterInv, LimitUpToSkew
<1> QED BY <1>1, LimiterInvariant, PTL

\* Whoever comes back in time finds room.
LEMMA HonestStep ==
  ASSUME LimiterInv, [Next]_vars, NEW t \in Threads,
         pc[t] = "locking", pc'[t] = "idle", promise[key[t]] # -1
  PROVE  now[t] < promise[key[t]] \/ admitted'[key[t]] # admitted[key[t]]
<1>1. Decide(t)
  <2>1. pc[t] # "idle" /\ pc'[t] # pc[t] OBVIOUS
  <2>2. ~Tick /\ ~UNCHANGED vars BY <2>1 DEF Tick, vars
  <2>3. \A u \in Threads : ReadClock(u) => FALSE BY <2>1 DEF ReadClock, LimiterInv, TypeOK
  <2>4. \A u \in Threads : Decide(u) => u = t BY <2>1 DEF Decide, LimiterInv, TypeOK
  <2> QED BY <2>2, <2>3, <2>4 DEF Next
<1>2. PICK k, n : k = key[t] /\ n = now[t] OBVIOUS
<1>3. PICK s : s = Seen(k, n) OBVIOUS
<1>4. k \in Keys /\ n \in 0..MaxTime /\ n <= clock /\ TypeOK
  BY <1>1, <1>2, NowFacts DEF LimiterInv
<1>5. Admitted(k, n, s) \/ Refused(k, n, s) BY <1>1, <1>2, <1>3, Outcomes
<1>6. CASE Admitted(k, n, s)
  <2>1. admitted[k] \in Seq(0..MaxTime) /\ admitted'[k] = Append(admitted[k], n)
    BY <1>4, <1>6 DEF Admitted, TypeOK
  <2>2. Len(admitted'[k]) # Len(admitted[k]) BY <1>4, <2>1
  <2> QED BY <1>2, <2>2
<1>7. CASE Refused(k, n, s)
  <2>1. /\ s \in Seq(0..MaxTime) /\ Len(s) \in Nat /\ Len(s) <= Len(Queue(k)) /\ Len(s) >= MaxRequests
        /\ n < s[1] + Window /\ (Len(s) = Len(Queue(k)) => s[1] = Queue(k)[1])
    BY <1>3, <1>4, <1>7, SeenFacts DEF Refused
  <2>2. k \in DOMAIN hits /\ Queue(k) = hits[k] BY <2>1 DEF Queue, Deque
  <2>3. Len(Queue(k)) \in 1..MaxRequests BY <2>2 DEF LimiterInv, DequesBounded
  <2>4. Len(s) = Len(Queue(k)) /\ s[1] = Queue(k)[1] BY <2>1, <2>3
  <2>5. Queue(k)[1] + Window <= promise[k] BY <1>2, <1>4, <2>1, <2>3, <2>4 DEF LimiterInv, PromiseInv
  <2>6. promise[k] \in Int /\ s[1] \in Int BY <1>4, <2>1, <2>3 DEF TypeOK
  <2> QED BY <1>2, <1>4, <2>1, <2>4, <2>5, <2>6
<1> QED BY <1>5, <1>6, <1>7

\* Whoever comes back no sooner than a refusal told is let in, unless the key has been
\* used meanwhile: by then the oldest hit of the full deque has expired (rate_limit.py:55-61).
THEOREM RetryAfterAlwaysHonest == Spec => RetryAfterHonest
<1> DEFINE Honest == \A t \in Threads :
             (pc[t] = "locking" /\ pc'[t] = "idle" /\ promise[key[t]] # -1) =>
                \/ now[t] < promise[key[t]]
                \/ admitted'[key[t]] # admitted[key[t]]
<1>1. LimiterInv /\ [Next]_vars => [Honest]_vars BY HonestStep
<1> QED BY <1>1, LimiterInvariant, PTL DEF Spec, RetryAfterHonest
====
