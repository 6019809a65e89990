---- MODULE RateLimiter ----
(***************************************************************************)
(* rate_limit.py: one sliding window of admitted requests per API key.     *)
(* require_api_key is a synchronous dependency, so check runs on threads   *)
(* of the server's pool: a thread reads the clock, then takes the lock and *)
(* decides with the time it has read.  Time is counted in ticks.           *)
(***************************************************************************)
EXTENDS Integers, Sequences, FiniteSets

CONSTANTS Threads, Keys,
          MaxRequests, Window,  \* RateLimiter.max_requests, window_seconds in ticks
          TicksPerSecond,       \* Retry-After is in whole seconds
          MaxSkew,              \* bound on lag
          MaxTime, MaxCalls     \* bounds of the model

ASSUME LimiterAssumption ==
  /\ MaxRequests \in Nat \ {0} /\ Window \in Nat \ {0} /\ TicksPerSecond \in Nat \ {0}
  /\ MaxSkew \in Nat /\ MaxTime \in Nat /\ MaxCalls \in Nat
  /\ Keys # {}   \* config.py:98

VARIABLES clock,
          lag,        \* ticks a thread may lie between clock and lock, chosen once
          hits,       \* _hits: the deque of each key that has one
          lastSweep,  \* _last_sweep
          pc, now, key, \* a thread: idle or waiting for the lock, its time, its caller
          calls,
          admitted,   \* history: times of all admitted requests, per key
          promise     \* history: when the last refusal told the caller to come back, or -1

vars == <<clock, lag, hits, lastSweep, pc, now, key, calls, admitted, promise>>

\* The key of an idle thread.
NoMatter == CHOOSE k \in Keys : TRUE

Init == /\ clock = 0
        /\ lag \in 0..MaxSkew
        /\ hits = <<>>
        /\ lastSweep = 0
        /\ pc = [t \in Threads |-> "idle"]
        /\ now = [t \in Threads |-> 0]
        /\ key = [t \in Threads |-> NoMatter]
        /\ calls = 0
        /\ admitted = [k \in Keys |-> <<>>]
        /\ promise = [k \in Keys |-> -1]

\* time.monotonic goes on, but no thread is held up for longer than lag.
Tick == /\ clock < MaxTime
        /\ \A t \in Threads : pc[t] = "locking" => clock - now[t] < lag
        /\ clock' = clock + 1
        /\ UNCHANGED <<lag, hits, lastSweep, pc, now, key, calls, admitted, promise>>

ReadClock(t) == /\ pc[t] = "idle" /\ calls < MaxCalls
                /\ pc' = [pc EXCEPT ![t] = "locking"]
                /\ now' = [now EXCEPT ![t] = clock]
                /\ \E k \in Keys : key' = [key EXCEPT ![t] = k]
                /\ calls' = calls + 1
                /\ UNCHANGED <<clock, lag, hits, lastSweep, admitted, promise>>

----------------------------------------------------------------------------
(* Operators whose comment begins with "Mutant" are plausible defects of   *)
(* the definition below them; only the checks of the properties use them.  *)

\* Mutant: a hit as old as the window still counts.
ExpiredLate(time, n) == time < n - Window
Expired(time, n) == time <= n - Window

\* Mutant: the newest hit stays, the older ones go.
KeepNewest(s, n) == IF s = <<>> THEN s ELSE <<s[Len(s)]>>
\* popleft while the head is expired; a later, older hit behind a fresh one stays.
Fresh(s, n) ==
  LET kept == {i \in 1..Len(s) : \E h \in 1..i : ~Expired(s[h], n)}
  IN  SubSeq(s, Len(s) - Cardinality(kept) + 1, Len(s))

\* Mutant: the sweep looks at the oldest hit of a key.
StaleByHead(s, n) == s = <<>> \/ Expired(s[1], n)
Stale(s, n) == s = <<>> \/ Expired(s[Len(s)], n)

SweepDue(n) == n - lastSweep >= Window

\* _maybe_sweep: one decision per window deletes the keys without a recent hit.
Swept(n) == IF SweepDue(n)
            THEN [k \in {x \in DOMAIN hits : ~Stale(hits[x], n)} |-> hits[k]]
            ELSE hits

Deque(h, k) == IF k \in DOMAIN h THEN h[k] ELSE <<>>
Store(h, k, s) == [x \in DOMAIN h \cup {k} |-> IF x = k THEN s ELSE h[x]]

\* Mutant: rounded down.
WholeSecondsDown(ticks) == ticks \div TicksPerSecond
WholeSeconds(ticks) == (ticks + TicksPerSecond - 1) \div TicksPerSecond

\* Mutant: the time of the window's end, not the time until then.
WaitFromZero(s, n) == WholeSeconds(s[1] + Window)
retry_after(s, n) == LET wait == WholeSeconds(s[1] + Window - n)
                     IN  IF wait > 1 THEN wait ELSE 1

\* Mutant: <= for <.
RoomForOneMore(s) == Len(s) <= MaxRequests
Room(s) == Len(s) < MaxRequests

Decide(t) ==
  LET k == key[t]  n == now[t]
      s == Fresh(Deque(Swept(n), k), n)
  IN
  /\ pc[t] = "locking"
  /\ pc' = [pc EXCEPT ![t] = "idle"]
  /\ now' = [now EXCEPT ![t] = 0] /\ key' = [key EXCEPT ![t] = NoMatter]
  /\ lastSweep' = IF SweepDue(n) THEN n ELSE lastSweep
  /\ \/ /\ Room(s)
        /\ hits' = Store(Swept(n), k, Append(s, n))
        /\ admitted' = [admitted EXCEPT ![k] = Append(@, n)]
        /\ promise' = [promise EXCEPT ![k] = -1]
     \/ /\ ~Room(s)
        /\ hits' = Store(Swept(n), k, s)
        /\ promise' = [promise EXCEPT ![k] = n + TicksPerSecond * retry_after(s, n)]
        /\ UNCHANGED admitted
  /\ UNCHANGED <<clock, lag, calls>>

Next == Tick \/ \E t \in Threads : ReadClock(t) \/ Decide(t)

Spec == Init /\ [][Next]_vars

----------------------------------------------------------------------------
TypeOK == /\ clock \in 0..MaxTime /\ lag \in 0..MaxSkew /\ lastSweep \in 0..MaxTime
          /\ DOMAIN hits \subseteq Keys
          /\ \A k \in DOMAIN hits : hits[k] \in Seq(0..MaxTime)
          /\ pc \in [Threads -> {"idle", "locking"}]
          /\ now \in [Threads -> 0..MaxTime]
          /\ key \in [Threads -> Keys]
          /\ calls \in 0..MaxCalls
          /\ admitted \in [Keys -> Seq(0..MaxTime)]
          /\ promise \in [Keys -> {-1} \cup 1..MaxTime + MaxSkew + Window + TicksPerSecond]

Admissions(k, from, length) ==
  Cardinality({i \in DOMAIN admitted[k] : admitted[k][i] \in from..from + length - 1})

\* "Requests allowed per key per window (sliding window)" (.env.example:8): no
\* window, wherever it begins, has more than MaxRequests admitted requests.
WindowLimit == \A k \in Keys : \A from \in 0..MaxTime :
  Admissions(k, from, Window) <= MaxRequests

\* What the code guarantees when threads overtake each other between the clock and the
\* lock: the limit, in windows shorter by twice the lag (once for the order of the deque
\* the sweep judges by its last entry, once for the time of the thread that comes after
\* the sweep), so the documented limit when no thread lags (rate_limit.py:37-69).
LimitUpToSkew == \A k \in Keys : \A from \in 0..MaxTime :
  Admissions(k, from, Window - 2 * lag) <= MaxRequests

\* Memory per key is bounded by the limit, and no key's deque is empty
\* (rate_limit.py:42-47).
DequesBounded == \A k \in DOMAIN hits : Len(hits[k]) \in 1..MaxRequests

\* Retry-After is long enough, rounding included: whoever comes back when
\* told is let in, unless someone with the same key was let in meanwhile
\* (rate_limit.py:55-61).
RetryAfterHonest == [][\A t \in Threads :
  (pc[t] = "locking" /\ pc'[t] = "idle" /\ promise[key[t]] # -1) =>
     \/ now[t] < promise[key[t]]
     \/ admitted'[key[t]] # admitted[key[t]]]_vars
====
