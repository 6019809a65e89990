---- MODULE JobListing ----
(***************************************************************************)
(* GET /transcriptions (routes.py, JobStore.list_jobs): a client walks     *)
(* through its jobs page by page, newest first, while jobs are uploaded    *)
(* and move through their life cycle.                                      *)
(***************************************************************************)
EXTENDS Integers, FiniteSets, SequencesExt

CONSTANTS Jobs, MaxRetries,
          Callers,      \* ids of API keys; the client has one of them
          Client,
          Filters,      \* statuses the client may ask for, "any" for none
          Limits        \* page sizes it may ask for

ASSUME ListingAssumption == /\ Client \in Callers /\ Limits \subseteq Nat \ {0}
                            /\ MaxRetries \in Nat

VARIABLES state, tries, \* the jobs' life cycle
          rows,         \* the job rows of all callers, newest first
          user,         \* user_id of each
          filter, limit,\* chosen once
          offset,       \* of the client's next request, or
          got,          \* jobs it has been sent, and
          items,        \* how many items that took: a job may come twice
          steady,       \* history: jobs that match the request ever since the first page
          left, entered \* history: how many jobs ceased or began to match since then

vars == <<state, tries, rows, user, filter, limit, offset, got, items, steady, left, entered>>

Life == INSTANCE JobLifecycle

NotYet == -1   \* offset before the first request
Done == -2     \* and after the answer without next_offset

Init == /\ Life!Init
        /\ rows = <<>> /\ user = [j \in Jobs |-> Client]
        /\ filter \in Filters /\ limit \in Limits
        /\ offset = NotYet /\ got = {} /\ items = 0
        /\ steady = {} /\ left = 0 /\ entered = 0

Matches(j) == /\ state[j] # "none" /\ user[j] = Client
              /\ filter = "any" \/ state[j] = filter

Matching == {j \in Jobs : Matches(j)}

\* The row of x comes before that of y.
Above(x, y) == \E q \in DOMAIN rows : rows[q] = y /\ \E p \in 1..q - 1 : rows[p] = x

\* What the walk is compared with; nothing in the code.
Observe == IF offset < 0 THEN UNCHANGED <<steady, left, entered>>
           ELSE /\ steady' = steady \cap Matching'
                /\ left' = left + Cardinality(Matching \ Matching')
                /\ entered' = entered + Cardinality(Matching' \ Matching)

----------------------------------------------------------------------------
(* Operators whose comment begins with "Mutant" are plausible defects of   *)
(* the definition below them; only the checks of the properties use them.  *)

\* Mutant: the new row takes the place of another.
RowReplaced(place, j) == IF place \in DOMAIN rows THEN ReplaceAt(rows, place, j) ELSE Append(rows, j)
InsertRow(place, j) == InsertAt(rows, place, j)

\* A row gets its place by created_at: first, unless the wall clock was set back.
create_job(j) == /\ Life!Accept(j)
                 /\ \E place \in 1..Len(rows) + 1 : rows' = InsertRow(place, j)
                 /\ \E caller \in Callers : user' = [user EXCEPT ![j] = caller]
                 /\ UNCHANGED <<filter, limit, offset, got, items>>
                 /\ Observe

_transition(j) == /\ Life!Start(j) \/ Life!Retry(j) \/ Life!Complete(j) \/ Life!Fail(j)
                  /\ UNCHANGED <<rows, user, filter, limit, offset, got, items>>
                  /\ Observe

\* How many of the matching rows come before a job's: what OFFSET and LIMIT count.
rank(j) == Cardinality({x \in Matching : Above(x, j)})

\* Mutant: the status is looked at after the page has been cut.
FilteredLate(from, size) ==
  {j \in Matching : \E p \in from + 1..from + size : p \in DOMAIN rows /\ rows[p] = j}
list_jobs(from, size) == {j \in Matching : rank(j) \in from..from + size - 1}

\* Mutant: more than one row behind the page.
MoreThanOne(from) == Cardinality(list_jobs(from + limit, 2)) > 1
has_more(from) == list_jobs(from + limit, 1) # {}

\* Both queries in one turn of the event loop.
Answer(from) ==
  /\ got' = got \cup list_jobs(from, limit)
  /\ items' = items + Cardinality(list_jobs(from, limit))
  /\ offset' = IF has_more(from) THEN from + limit ELSE Done
  /\ UNCHANGED <<state, tries, rows, user, filter, limit, left, entered>>

FirstPage == /\ offset = NotYet
             /\ Answer(0)
             /\ steady' = Matching

Page == /\ offset >= 0
        /\ Answer(offset)
        /\ UNCHANGED steady

Next == FirstPage \/ Page \/ \E j \in Jobs : create_job(j) \/ _transition(j)

Spec == Init /\ [][Next]_vars

----------------------------------------------------------------------------
TypeOK == /\ state \in [Jobs -> {"none", "queued", "processing", "retrying", "completed", "failed"}]
          /\ tries \in [Jobs -> 0..MaxRetries + 1]
          /\ rows \in Seq(Jobs) /\ user \in [Jobs -> Callers]
          /\ {rows[i] : i \in DOMAIN rows} = {j \in Jobs : state[j] # "none"}
          /\ filter \in Filters /\ limit \in Limits
          /\ offset \in Nat \cup {NotYet, Done}
          /\ got \subseteq Jobs /\ items \in Nat
          /\ steady \subseteq Jobs /\ left \in Nat /\ entered \in Nat

\* Uploads between two pages push jobs to later pages but never out of the list: without
\* a status, whoever follows next_offset to its end has seen every job that was there
\* when it began (routes.py:133-150, database.py:201-212).
NothingSkipped == (offset = Done /\ filter = "any") => steady \subseteq got

\* With a status, a job is missed for each that ceased to match while the client was
\* on its way, no more; and one comes twice for each that began to (database.py:205-209).
DriftBounded == offset = Done =>
  /\ Cardinality(steady \ got) <= left
  /\ items - Cardinality(got) <= entered
====
