---- MODULE TranscriptStore_proofs ----
(***************************************************************************)
(* Proofs about TranscriptStore for every number of attempts and polls.    *)
(***************************************************************************)
EXTENDS TranscriptStore, SequenceTheorems, TLAPS

Saving == pc \in {"running", "execute", "commit"}

\* The worker's place against the row: an attempt still to save has a version
\* number left for it, and who is retried has an attempt left.
AttemptInv == /\ version = Len(rows)
              /\ version <= attempt
              /\ Saving => version < attempt
              /\ status = "processing" <=> pc # "idle"
              /\ status \in {"queued", "retrying"} => attempt < MaxAttempts
              /\ status = "completed" \/ pc = "saved" => version >= 1

\* Every file that a row names, or is about to name, says what that row's attempt said.
FileInv == /\ large => pc \notin {"idle", "running"}
           /\ (large /\ Locked) => files[NextVersion] = attempt
           /\ \A v \in 1..version : ~rows[v].inline => files[v] = rows[v].content

\* A poll under way has seen the job completed, and nothing is saved after that.
PollInv == \A r \in Readers :
  /\ rpc[r] # "idle" => status = "completed" /\ announced[r] = version
  /\ rpc[r] = "reading" => found[r] = version /\ ~rows[version].inline
  /\ rpc[r] = "answered" => answer[r] = rows[version].content

StoreInv == TypeOK /\ AttemptInv /\ FileInv /\ PollInv

USE StoreAssumption DEF NextVersion, Unlinked, AfterFailure, Shown, Null, Unreadable

\* The invariant holds before the first attempt.
LEMMA StoreInit == Init => StoreInv
<1> SUFFICES ASSUME Init PROVE StoreInv
  OBVIOUS
<1>1. rows \in Seq([inline : BOOLEAN, content : 1..MaxAttempts]) /\ Len(rows) = 0
  BY EmptySeq DEF Init
<1>2. TypeOK
  <2>1. files \in [1..MaxAttempts -> 0..MaxAttempts] /\ answer \in [Readers -> {-1} \cup {0} \cup 1..MaxAttempts]
    BY DEF Init
  <2>2. announced \in [Readers -> 0..MaxAttempts] /\ found \in [Readers -> 0..MaxAttempts]
    BY DEF Init
  <2>3. rpc \in [Readers -> {"idle", "asked", "reading", "answered"}] BY DEF Init
  <2>4. status = "queued" /\ attempt = 0 /\ version = 0 /\ pc = "idle" /\ large = FALSE /\ cutShort = {}
    BY DEF Init
  <2>5. 0 \in 0..MaxAttempts BY DEF StoreAssumption
  <2> QED BY <1>1, <2>1, <2>2, <2>3, <2>4, <2>5 DEF TypeOK
<1> QED BY <1>1, <1>2 DEF Init, StoreInv, AttemptInv, FileInv, PollInv, Saving, Locked

\* The end of an attempt, with the files it leaves: StoreInv only asks that the
\* files of the committed versions stay.
LEMMA EndKeepsInv ==
  ASSUME StoreInv, pc # "idle", EndAttempt, UNCHANGED committed,
         cutShort' \subseteq 1..MaxAttempts,
         files' \in [1..MaxAttempts -> 0..MaxAttempts],
         \A v \in 1..version : files'[v] = files[v]
  PROVE  StoreInv'
<1>1. TypeOK'
  BY DEF StoreInv, TypeOK, EndAttempt, committed, poll
<1>2. status = "processing" /\ status' \in {"retrying", "failed"} /\ pc' = "idle"
      /\ (status' = "retrying" => attempt < MaxAttempts)
  BY DEF StoreInv, AttemptInv, TypeOK, EndAttempt
<1>3. AttemptInv'
  BY <1>2 DEF StoreInv, AttemptInv, TypeOK, EndAttempt, committed, poll, Saving
<1>4. FileInv'
  BY <1>2 DEF StoreInv, FileInv, EndAttempt, committed, Locked
<1>5. PollInv'
  BY <1>2 DEF StoreInv, PollInv, EndAttempt, committed, poll
<1> QED BY <1>1, <1>3, <1>4, <1>5 DEF StoreInv

\* A save under way has a version number left.
LEMMA NextInRange == StoreInv /\ Locked => NextVersion \in 1..MaxAttempts
BY DEF StoreInv, TypeOK, AttemptInv, Saving, Locked

\* Every step of the worker preserves the invariant (database.py:283-331).
LEMMA WorkKeepsInv == ASSUME StoreInv, Work PROVE StoreInv'
<1>1. CASE StartAttempt
  <2>1. TypeOK' BY <1>1 DEF StoreInv, AttemptInv, TypeOK, StartAttempt, committed, poll
  <2>2. AttemptInv' BY <1>1 DEF StoreInv, AttemptInv, TypeOK, StartAttempt, committed, Saving
  <2>3. FileInv' BY <1>1 DEF StoreInv, FileInv, StartAttempt, committed, Locked
  <2>4. PollInv' BY <1>1 DEF StoreInv, PollInv, StartAttempt, committed, poll
  <2> QED BY <2>1, <2>2, <2>3, <2>4 DEF StoreInv
<1>2. CASE AttemptFails
  BY <1>2, EndKeepsInv DEF AttemptFails, StoreInv, TypeOK
<1>3. CASE KeepInline
  <2>0. pc = "running" /\ ~large' BY <1>3 DEF KeepInline, StoreInv, FileInv
  <2>1. TypeOK' BY <1>3 DEF StoreInv, TypeOK, KeepInline, committed, poll
  <2>2. AttemptInv' BY <1>3 DEF StoreInv, AttemptInv, TypeOK, KeepInline, committed, Saving
  <2>3. FileInv' BY <1>3, <2>0 DEF StoreInv, FileInv, KeepInline, committed, Locked
  <2>4. PollInv' BY <1>3 DEF StoreInv, PollInv, KeepInline, committed, poll
  <2> QED BY <2>1, <2>2, <2>3, <2>4 DEF StoreInv
<1>4. CASE WriteFile
  <2>0. NextVersion \in 1..MaxAttempts /\ attempt \in 1..MaxAttempts
    BY <1>4 DEF StoreInv, AttemptInv, TypeOK, WriteFile, Saving
  <2>1. TypeOK' BY <1>4, <2>0 DEF StoreInv, TypeOK, WriteFile, committed, poll
  <2>2. AttemptInv' BY <1>4 DEF StoreInv, AttemptInv, TypeOK, WriteFile, committed, Saving
  <2>3. FileInv'
    BY <1>4, <2>0 DEF StoreInv, FileInv, TypeOK, WriteFile, committed, Locked
  <2>4. PollInv' BY <1>4 DEF StoreInv, PollInv, WriteFile, committed, poll
  <2> QED BY <2>1, <2>2, <2>3, <2>4 DEF StoreInv
<1>5. CASE Execute
  <2>1. TypeOK' BY <1>5 DEF StoreInv, TypeOK, Execute, committed, poll
  <2>2. AttemptInv' BY <1>5 DEF StoreInv, AttemptInv, TypeOK, Execute, committed, Saving
  <2>3. FileInv' BY <1>5 DEF StoreInv, FileInv, Execute, committed, Locked
  <2>4. PollInv' BY <1>5 DEF StoreInv, PollInv, Execute, committed, poll
  <2> QED BY <2>1, <2>2, <2>3, <2>4 DEF StoreInv
<1>6. CASE ExecuteFails
  <2>1. files' \in [1..MaxAttempts -> 0..MaxAttempts]
        /\ \A v \in 1..version : files'[v] = files[v]
    <3>1. files \in [1..MaxAttempts -> 0..MaxAttempts] /\ version \in Nat /\ 0 \in 0..MaxAttempts
      BY DEF StoreInv, TypeOK
    <3>2. CASE large
      <4>1. files' = [files EXCEPT ![version + 1] = 0] BY <1>6, <3>2 DEF ExecuteFails
      <4>2. files' \in [1..MaxAttempts -> 0..MaxAttempts] BY <3>1, <4>1
      <4>3. ASSUME NEW v \in 1..version PROVE files'[v] = files[v]
        <5>1. version + 1 # v BY <3>1
        <5>2. v \in 1..MaxAttempts BY <3>1 DEF StoreInv, TypeOK
        <5> QED BY <3>1, <4>1, <5>1, <5>2
      <4> QED BY <4>2, <4>3
    <3>3. CASE ~large
      BY <1>6, <3>1, <3>3 DEF ExecuteFails
    <3> QED BY <3>2, <3>3
  <2> QED BY <1>6, <2>1, EndKeepsInv DEF ExecuteFails, StoreInv, TypeOK
<1>7. CASE Commit
  <2> DEFINE row == [inline |-> ~large, content |-> attempt]
  <2>0. version \in Nat /\ version < attempt /\ attempt \in 1..MaxAttempts /\ Len(rows) = version
    BY <1>7 DEF StoreInv, AttemptInv, TypeOK, Commit, Saving
  <2>1. row \in [inline : BOOLEAN, content : 1..MaxAttempts]
    BY <2>0 DEF StoreInv, TypeOK
  <2>2. /\ rows' \in Seq([inline : BOOLEAN, content : 1..MaxAttempts])
        /\ Len(rows') = version + 1
        /\ \A v \in 1..version : rows'[v] = rows[v]
        /\ rows'[version + 1] = row
    BY <1>7, <2>0, <2>1, AppendProperties DEF Commit, StoreInv, TypeOK
  <2>3. TypeOK' BY <1>7, <2>0, <2>2 DEF StoreInv, TypeOK, Commit, poll
  <2>4. AttemptInv' BY <1>7, <2>0, <2>2 DEF StoreInv, AttemptInv, TypeOK, Commit, Saving
  <2>5. ASSUME NEW v \in 1..version', ~rows'[v].inline PROVE files'[v] = rows'[v].content
    <3>1. CASE v \in 1..version
      BY <1>7, <2>2, <2>5, <3>1 DEF Commit, StoreInv, FileInv
    <3>2. CASE v = version + 1
      <4>1. rows'[v].inline = ~large /\ rows'[v].content = attempt BY <2>2, <3>2
      <4>2. large BY <2>5, <4>1
      <4>3. files[version + 1] = attempt BY <1>7, <4>2 DEF Commit, StoreInv, FileInv, Locked
      <4> QED BY <1>7, <3>2, <4>1, <4>3 DEF Commit
    <3> QED BY <1>7, <2>0, <3>1, <3>2 DEF Commit
  <2>6. FileInv' BY <1>7, <2>5 DEF FileInv, Commit, Locked
  <2>7. PollInv' BY <1>7 DEF StoreInv, PollInv, AttemptInv, Commit, poll
  <2> QED BY <2>3, <2>4, <2>6, <2>7 DEF StoreInv
<1>8. CASE CommitFails
  <2>1. cutShort' \subseteq 1..MaxAttempts
    BY <1>8, NextInRange DEF CommitFails, LeaveFile, StoreInv, TypeOK, Locked
  <2> QED BY <1>8, <2>1, EndKeepsInv DEF CommitFails, StoreInv, TypeOK
<1>9. CASE MarkCompleted
  <2>1. TypeOK' BY <1>9 DEF StoreInv, TypeOK, MarkCompleted, committed, poll
  <2>2. AttemptInv' BY <1>9 DEF StoreInv, AttemptInv, TypeOK, MarkCompleted, committed, Saving
  <2>3. FileInv' BY <1>9 DEF StoreInv, FileInv, MarkCompleted, committed, Locked
  <2>4. PollInv' BY <1>9 DEF StoreInv, PollInv, MarkCompleted, committed, poll
  <2> QED BY <2>1, <2>2, <2>3, <2>4 DEF StoreInv
<1>10. CASE MarkCompletedFails
  BY <1>10, EndKeepsInv DEF MarkCompletedFails, StoreInv, TypeOK
<1> QED BY <1>1, <1>2, <1>3, <1>4, <1>5, <1>6, <1>7, <1>8, <1>9, <1>10 DEF Work

\* Every step of a poll preserves it (routes.py:110-124, database.py:333-361).
LEMMA PollKeepsInv ==
  ASSUME StoreInv, NEW r \in Readers, SeeJob(r) \/ Select(r) \/ ReadFile(r)
  PROVE  StoreInv'
<1>0. UNCHANGED <<status, attempt, committed, files, worker, cutShort>>
  BY DEF SeeJob, Select, ReadFile
<1>1. version \in 0..MaxAttempts /\ (status = "completed" => version \in DOMAIN rows)
      /\ (\A v \in DOMAIN rows : rows[v] \in [inline : BOOLEAN, content : 1..MaxAttempts])
  <2>1. rows \in Seq([inline : BOOLEAN, content : 1..MaxAttempts]) /\ version = Len(rows)
        /\ version \in 0..MaxAttempts /\ (status = "completed" => version >= 1)
    BY DEF StoreInv, AttemptInv, TypeOK
  <2>2. DOMAIN rows = 1..version BY <2>1, LenProperties
  <2>3. \A v \in 1..version : rows[v] \in [inline : BOOLEAN, content : 1..MaxAttempts]
    BY <2>1, ElementOfSeq
  <2> QED BY <2>1, <2>2, <2>3
<1>2. TypeOK' /\ PollInv'
  <2>1. CASE SeeJob(r)
    BY <1>0, <1>1, <2>1 DEF StoreInv, TypeOK, PollInv, SeeJob, committed, worker
  <2>2. CASE Select(r)
    <3>1. status = "completed" /\ announced[r] = version /\ version \in DOMAIN rows
      BY <1>1, <2>2 DEF StoreInv, PollInv, Select
    <3>2. rows[version].inline \in BOOLEAN /\ rows[version].content \in 1..MaxAttempts
      BY <1>1, <3>1
    <3>3. CASE rows[version].inline
      <4>1. /\ answer' = [answer EXCEPT ![r] = rows[version].content]
            /\ rpc' = [rpc EXCEPT ![r] = "answered"] /\ UNCHANGED announced
            /\ found' = [found EXCEPT ![r] = version]
        BY <2>2, <3>1, <3>3 DEF Select, Answer
      <4>2. TypeOK' BY <1>0, <1>1, <3>2, <4>1 DEF StoreInv, TypeOK, committed, worker
      <4>3. PollInv' BY <1>0, <3>1, <3>2, <4>1 DEF StoreInv, TypeOK, PollInv, committed
      <4> QED BY <4>2, <4>3
    <3>4. CASE ~rows[version].inline
      <4>1. /\ rpc' = [rpc EXCEPT ![r] = "reading"] /\ UNCHANGED <<announced, answer>>
            /\ found' = [found EXCEPT ![r] = version]
        BY <2>2, <3>1, <3>4 DEF Select
      <4>2. TypeOK' BY <1>0, <1>1, <4>1 DEF StoreInv, TypeOK, committed, worker
      <4>3. PollInv' BY <1>0, <3>1, <3>4, <4>1 DEF StoreInv, TypeOK, PollInv, committed
      <4> QED BY <4>2, <4>3
    <3> QED BY <3>3, <3>4
  <2>3. CASE ReadFile(r)
    <3>1. status = "completed" /\ found[r] = version /\ ~rows[version].inline
          /\ version \in DOMAIN rows
      BY <1>1, <2>3 DEF StoreInv, PollInv, ReadFile
    <3>2. rows[version].content \in 1..MaxAttempts BY <1>1, <3>1
    <3>3. version \in 1..version BY <3>1, <1>1 DEF StoreInv, AttemptInv
    <3>4. files[version] = rows[version].content /\ files[version] # 0
      BY <3>1, <3>2, <3>3 DEF StoreInv, FileInv
    <3>5. /\ answer' = [answer EXCEPT ![r] = rows[version].content]
          /\ rpc' = [rpc EXCEPT ![r] = "answered"] /\ UNCHANGED <<announced, found>>
      BY <2>3, <3>1, <3>4 DEF ReadFile, Answer
    <3>6. TypeOK' BY <1>0, <3>2, <3>5 DEF StoreInv, TypeOK, committed, worker
    <3>7. PollInv'
      <4> SUFFICES ASSUME NEW q \in Readers PROVE
            /\ rpc'[q] # "idle" => status' = "completed" /\ announced'[q] = version'
            /\ rpc'[q] = "reading" => found'[q] = version' /\ ~rows'[version'].inline
            /\ rpc'[q] = "answered" => answer'[q] = rows'[version'].content
        BY DEF PollInv
      <4>1. status' = status /\ version' = version /\ rows' = rows
        BY <1>0 DEF committed
      <4>2. CASE q = r BY <2>3, <3>1, <3>5, <4>1, <4>2 DEF StoreInv, TypeOK, PollInv, ReadFile
      <4>3. CASE q # r BY <3>5, <4>1, <4>3 DEF StoreInv, TypeOK, PollInv
      <4> QED BY <4>2, <4>3
    <3> QED BY <3>6, <3>7
  <2> QED BY <2>1, <2>2, <2>3
<1>3. AttemptInv' /\ FileInv'
  BY <1>0 DEF StoreInv, AttemptInv, FileInv, Saving, Locked, committed, worker
<1> QED BY <1>2, <1>3 DEF StoreInv

\* So does a crash with the recovery that follows (main.py:30-52).
LEMMA CrashKeepsInv == ASSUME StoreInv, CrashAndRecover PROVE StoreInv'
<1>0. /\ UNCHANGED <<attempt, committed, files, announced, found, answer>>
      /\ pc' = "idle" /\ ~large' /\ rpc' = [r \in Readers |-> "idle"]
      /\ status' = IF status = "processing" THEN AfterFailure(TRUE) ELSE status
  BY DEF CrashAndRecover
<1>1. cutShort' \subseteq 1..MaxAttempts
  BY NextInRange DEF CrashAndRecover, LeaveFile, StoreInv, TypeOK, Locked
<1>2. TypeOK' BY <1>0, <1>1 DEF StoreInv, TypeOK, committed, CrashAndRecover
<1>3. AttemptInv' BY <1>0 DEF StoreInv, AttemptInv, TypeOK, committed, Saving
<1>4. FileInv' BY <1>0 DEF StoreInv, FileInv, committed, Locked
<1>5. PollInv' BY <1>0 DEF StoreInv, PollInv
<1> QED BY <1>2, <1>3, <1>4, <1>5 DEF StoreInv

\* The invariant is inductive.
LEMMA StoreNext == StoreInv /\ [Next]_vars => StoreInv'
<1>1. ASSUME StoreInv, UNCHANGED vars PROVE StoreInv'
  BY <1>1 DEF StoreInv, TypeOK, AttemptInv, FileInv, PollInv, Saving, Locked,
     vars, committed, worker, poll
<1> QED BY <1>1, WorkKeepsInv, PollKeepsInv, CrashKeepsInv DEF Next

\* It holds in every reachable state.
LEMMA StoreInvariance == Spec => []StoreInv
BY StoreInit, StoreNext, PTL DEF Spec

\* Every variable of the store keeps its type; in particular no version number
\* passes the number of attempts (database.py:283-323).
THEOREM StoreTypeCorrect == Spec => []TypeOK
<1>1. StoreInv => TypeOK BY DEF StoreInv
<1> QED BY <1>1, StoreInvariance, PTL

\* A poll of a completed job is answered with the version it announces, though it
\* reads job, row and file at three different times (routes.py:115-123).
THEOREM AnsweredAsAnnounced == Spec => []AnswerIsAnnounced
<1>1. ASSUME StoreInv PROVE AnswerIsAnnounced
  <2>1. rows \in Seq([inline : BOOLEAN, content : 1..MaxAttempts]) /\ version = Len(rows)
        /\ version \in 0..MaxAttempts /\ (status = "completed" => version >= 1)
    BY <1>1 DEF StoreInv, AttemptInv, TypeOK
  <2>2. status = "completed" => version \in DOMAIN rows BY <2>1
  <2> QED BY <1>1, <2>2 DEF StoreInv, PollInv, AnswerIsAnnounced
<1> QED BY <1>1, StoreInvariance, PTL

----------------------------------------------------------------------------
(* The log of versions *)

\* What readers get is a sequence of attempts, one for each version.
LEMMA VersionsTyped ==
  ASSUME StoreInv
  PROVE  Versions \in Seq(1..MaxAttempts) /\ Len(Versions) = version
<1>1. /\ rows \in Seq([inline : BOOLEAN, content : 1..MaxAttempts])
      /\ version = Len(rows) /\ version \in Nat
      /\ \A v \in 1..version : ~rows[v].inline => files[v] = rows[v].content
  BY DEF StoreInv, TypeOK, AttemptInv, FileInv
<1>2. \A v \in 1..version : rows[v] \in [inline : BOOLEAN, content : 1..MaxAttempts]
  BY <1>1, ElementOfSeq
<1>3. \A v \in 1..version : Content(v) \in 1..MaxAttempts
  BY <1>1, <1>2 DEF Content
<1>4. Versions \in [1..version -> 1..MaxAttempts]
  BY <1>3 DEF Versions
<1> QED BY <1>1, <1>4, SeqDef

\* A step that keeps the committed rows and their files keeps the log.
LEMMA SameVersions ==
  ASSUME UNCHANGED committed, version \in Nat,
         \A v \in 1..version : files'[v] = files[v]
  PROVE  UNCHANGED Versions
BY DEF committed, Versions, Content

\* COMMIT appends the transcript of its attempt to the log.
LEMMA CommitAppends == ASSUME StoreInv, Commit PROVE Log!Save
<1>1. /\ version \in Nat /\ Len(rows) = version /\ attempt \in 1..MaxAttempts
      /\ rows \in Seq([inline : BOOLEAN, content : 1..MaxAttempts])
      /\ large => files[version + 1] = attempt
  BY DEF StoreInv, TypeOK, AttemptInv, FileInv, Saving, Locked, Commit
<1>2. /\ version' = version + 1 /\ files' = files
      /\ \A v \in 1..version : rows'[v] = rows[v]
      /\ rows'[version + 1] = [inline |-> ~large, content |-> attempt]
  <2>1. [inline |-> ~large, content |-> attempt] \in [inline : BOOLEAN, content : 1..MaxAttempts]
    BY <1>1 DEF StoreInv, TypeOK
  <2> QED BY <1>1, <2>1, AppendProperties DEF Commit
<1>3. \A v \in 1..version + 1 :
        Content(v)' = IF v = version + 1 THEN attempt ELSE Content(v)
  <2> SUFFICES ASSUME NEW v \in 1..version + 1
               PROVE  Content(v)' = IF v = version + 1 THEN attempt ELSE Content(v)
    OBVIOUS
  <2>1. Content(v)' = IF rows'[v].inline THEN rows'[v].content ELSE files'[v]
    BY DEF Content
  <2>2. CASE v = version + 1
    <3>1. rows'[v].inline = ~large /\ rows'[v].content = attempt BY <1>2, <2>2
    <3>2. large => files'[v] = attempt BY <1>1, <1>2, <2>2
    <3>3. CASE large BY <2>1, <2>2, <3>1, <3>2, <3>3
    <3>4. CASE ~large BY <2>1, <2>2, <3>1, <3>4
    <3> QED BY <3>3, <3>4
  <2>3. CASE v \in 1..version
    BY <1>1, <1>2, <2>1, <2>3 DEF Content
  <2> QED BY <1>1, <2>2, <2>3
<1>4. Versions \in Seq(1..MaxAttempts) /\ Len(Versions) = version
  BY VersionsTyped
<1>5. /\ Append(Versions, attempt) \in Seq(1..MaxAttempts)
      /\ Len(Append(Versions, attempt)) = version + 1
      /\ \A v \in 1..version : Append(Versions, attempt)[v] = Versions[v]
      /\ Append(Versions, attempt)[version + 1] = attempt
  BY <1>1, <1>4, AppendProperties
<1>6. Versions' = [v \in 1..version + 1 |-> Append(Versions, attempt)[v]]
  <2>1. Versions' = [v \in 1..version + 1 |-> Content(v)']
    BY <1>2 DEF Versions
  <2>2. \A v \in 1..version + 1 : Content(v)' = Append(Versions, attempt)[v]
    <3>1. \A v \in 1..version : Versions[v] = Content(v)
      BY DEF Versions
    <3>2. ASSUME NEW v \in 1..version + 1 PROVE Content(v)' = Append(Versions, attempt)[v]
      <4>1. CASE v = version + 1 BY <1>3, <1>5, <4>1
      <4>2. CASE v \in 1..version BY <1>1, <1>3, <1>5, <3>1, <4>2
      <4>3. v = version + 1 \/ v \in 1..version BY <1>1
      <4> QED BY <4>1, <4>2, <4>3
    <3> QED BY <3>2
  <2> QED BY <2>1, <2>2
<1>7. Append(Versions, attempt) = [v \in 1..version + 1 |-> Append(Versions, attempt)[v]]
  BY <1>1, <1>5, LenProperties
<1> QED BY <1>1, <1>6, <1>7 DEF Log!Save

\* Every other step keeps it.
LEMMA OthersKeepVersions ==
  ASSUME StoreInv, [Next]_vars, ~Commit
  PROVE  UNCHANGED Versions
<1>0. version \in 0..MaxAttempts /\ version <= attempt /\ (Saving => version < attempt)
      /\ attempt \in 0..MaxAttempts /\ files \in [1..MaxAttempts -> 0..MaxAttempts]
  BY DEF StoreInv, TypeOK, AttemptInv
<1>1. UNCHANGED committed /\ \A v \in 1..version : files'[v] = files[v]
  <2>1. CASE WriteFile
    BY <1>0, <2>1 DEF WriteFile, committed
  <2>2. CASE ExecuteFails
    BY <1>0, <2>2 DEF ExecuteFails, committed
  <2>3. CASE UNCHANGED <<committed, files>>
    BY <2>3
  <2>4. ASSUME Work, ~WriteFile, ~ExecuteFails PROVE UNCHANGED <<committed, files>>
    BY <2>4 DEF Work, StartAttempt, AttemptFails, KeepInline, Execute, CommitFails,
       MarkCompleted, MarkCompletedFails
  <2>5. ASSUME NEW r \in Readers, SeeJob(r) \/ Select(r) \/ ReadFile(r)
        PROVE  UNCHANGED <<committed, files>>
    BY <2>5 DEF SeeJob, Select, ReadFile
  <2>6. CrashAndRecover \/ UNCHANGED vars => UNCHANGED <<committed, files>>
    BY DEF CrashAndRecover, vars
  <2> QED BY <2>1, <2>2, <2>3, <2>4, <2>5, <2>6 DEF Next
<1> QED BY <1>0, <1>1, SameVersions

\* The store, with its files, transactions, failures and crashes, implements a
\* log of versions: a version, once readable, stays what it was (README.md:123).
THEOREM StoreImplementsLog == Spec => ImplementsLog
<1>1. Init => Log!Init
  BY DEF Init, Log!Init, Versions
<1>2. StoreInv /\ [Next]_vars => [Log!Save]_Versions
  BY CommitAppends, OthersKeepVersions
<1> QED BY <1>1, <1>2, StoreInvariance, PTL DEF Spec, ImplementsLog, Log!Spec
----------------------------------------------------------------------------
(* Files that no row names *)

\* A version that is not committed has no file, unless a save of it was cut short or is
\* under way; and a transcript kept in its row has none either, unless such a save left it.
OrphanInv == \A v \in 1..MaxAttempts : files[v] # 0 =>
  /\ v > version => v \in cutShort \/ (v = NextVersion /\ large /\ Locked)
  /\ v <= version /\ rows[v].inline => v \in cutShort

\* It holds before the first attempt.
LEMMA OrphanInit == Init => OrphanInv
BY DEF Init, OrphanInv

\* What has been cut short stays so.
LEMMA CutShortGrows == [Next]_vars => cutShort \subseteq cutShort'
BY DEF Next, Work, StartAttempt, AttemptFails, KeepInline, WriteFile, Execute, ExecuteFails,
       Commit, CommitFails, LeaveFile, MarkCompleted, MarkCompletedFails, CrashAndRecover,
       SeeJob, Select, ReadFile, vars

\* Every step preserves it; a commit turns the file of the next version into the file of a
\* row, or, kept inline, finds there only what a save that was cut short has left.
LEMMA OrphanNext == StoreInv /\ OrphanInv /\ [Next]_vars => OrphanInv'
<1> SUFFICES ASSUME StoreInv, OrphanInv, [Next]_vars PROVE OrphanInv'
  OBVIOUS
<1>0. /\ version \in 0..MaxAttempts /\ Len(rows) = version
      /\ rows \in Seq([inline : BOOLEAN, content : 1..MaxAttempts])
      /\ files \in [1..MaxAttempts -> 0..MaxAttempts]
      /\ large => pc \notin {"idle", "running"}
  BY DEF StoreInv, TypeOK, AttemptInv, FileInv
<1>1. ASSUME UNCHANGED <<committed, files, large>>, ~(large /\ Locked /\ ~Locked')
      PROVE  OrphanInv'
  <2>1. cutShort \subseteq cutShort' BY CutShortGrows
  <2>2. version' = version /\ rows' = rows /\ files' = files /\ large' = large
    BY <1>1 DEF committed
  <2> QED BY <1>1, <2>1, <2>2 DEF OrphanInv
<1>2. ASSUME UNCHANGED <<committed, files>>, LeaveFile PROVE OrphanInv'
  <2>1. cutShort \subseteq cutShort' BY CutShortGrows
  <2>2. (large /\ Locked) => NextVersion \in cutShort' BY <1>2 DEF LeaveFile, Locked
  <2>3. version' = version /\ rows' = rows /\ files' = files BY <1>2 DEF committed
  <2> QED BY <2>1, <2>2, <2>3 DEF OrphanInv
<1>3. ASSUME UNCHANGED <<committed, files, cutShort>>, ~(large /\ Locked) PROVE OrphanInv'
  BY <1>3 DEF OrphanInv, committed
<1>4. CASE StartAttempt \/ AttemptFails \/ KeepInline \/ MarkCompleted \/ MarkCompletedFails
  <2>1. UNCHANGED <<committed, files, cutShort>> /\ ~Locked
    BY <1>4 DEF StartAttempt, AttemptFails, KeepInline, MarkCompleted, MarkCompletedFails, Locked
  <2> QED BY <2>1, <1>3
<1>5. CASE WriteFile
  <2>1. files' = [files EXCEPT ![version + 1] = attempt] /\ large' /\ Locked' /\ ~Locked
        /\ UNCHANGED <<version, rows, cutShort>>
    BY <1>5 DEF WriteFile, Locked, committed
  <2> SUFFICES ASSUME NEW v \in 1..MaxAttempts, files'[v] # 0
               PROVE  /\ v > version => v \in cutShort \/ v = version + 1
                      /\ v <= version /\ rows[v].inline => v \in cutShort
    BY <2>1 DEF OrphanInv
  <2>2. CASE v = version + 1 BY <1>0, <2>2
  <2>3. CASE v # version + 1
    <3>1. files[v] # 0 BY <1>0, <2>1, <2>3
    <3> QED BY <2>1, <2>3, <3>1 DEF OrphanInv
  <2> QED BY <2>2, <2>3
<1>6. CASE Execute
  <2>1. UNCHANGED <<committed, files, large>> /\ Locked' BY <1>6 DEF Execute, Locked
  <2> QED BY <2>1, <1>1
<1>7. CASE ExecuteFails
  <2>1. files' = Unlinked /\ UNCHANGED <<version, rows, cutShort>>
    BY <1>7 DEF ExecuteFails, committed
  <2>2. CASE ~large BY <2>1, <2>2, <1>7, <1>3 DEF ExecuteFails
  <2>3. CASE large
    <3>1. files' = [files EXCEPT ![version + 1] = 0] BY <2>1, <2>3
    <3> SUFFICES ASSUME NEW v \in 1..MaxAttempts, files'[v] # 0
                 PROVE  /\ v > version => v \in cutShort
                        /\ v <= version /\ rows[v].inline => v \in cutShort
      BY <2>1 DEF OrphanInv
    <3>2. v # version + 1 BY <1>0, <3>1
    <3>3. files[v] # 0 BY <1>0, <3>1, <3>2
    <3> QED BY <3>2, <3>3 DEF OrphanInv
  <2> QED BY <2>2, <2>3
<1>8. CASE Commit
  <2> DEFINE row == [inline |-> ~large, content |-> attempt]
  <2>1. version' = version + 1 /\ rows' = Append(rows, row) /\ ~Locked' /\ Locked
        /\ UNCHANGED <<files, large, cutShort>>
    BY <1>8 DEF Commit, Locked
  <2>2. rows'[version + 1] = row /\ \A v \in 1..version : rows'[v] = rows[v]
    <3> HIDE DEF row
    <3> QED BY <1>0, <2>1, AppendProperties
  <2> SUFFICES ASSUME NEW v \in 1..MaxAttempts, files[v] # 0
               PROVE  /\ v > version + 1 => v \in cutShort
                      /\ v <= version + 1 /\ rows'[v].inline => v \in cutShort
    BY <2>1 DEF OrphanInv
  <2>3. CASE v > version + 1 BY <1>0, <2>3 DEF OrphanInv
  <2>4. CASE v = version + 1
    <3>1. rows'[v].inline => ~large
      <4>1. rows'[v].inline = ~large BY <2>2, <2>4
      <4> QED BY <4>1
    <3>2. v > version /\ ~(v > version + 1) BY <1>0, <2>4
    <3>3. v \in cutShort \/ large BY <3>2 DEF OrphanInv
    <3> QED BY <3>1, <3>2, <3>3
  <2>5. CASE v <= version
    <3>1. rows'[v] = rows[v] BY <1>0, <2>2, <2>5
    <3> QED BY <1>0, <2>5, <3>1 DEF OrphanInv
  <2> QED BY <1>0, <2>3, <2>4, <2>5
<1>9. CASE CommitFails
  BY <1>9, <1>2 DEF CommitFails
<1>10. ASSUME NEW r \in Readers, SeeJob(r) \/ Select(r) \/ ReadFile(r) PROVE OrphanInv'
  <2>1. UNCHANGED <<committed, files, worker>> BY <1>10 DEF SeeJob, Select, ReadFile
  <2> QED BY <2>1, <1>1 DEF worker, Locked
<1>11. CASE CrashAndRecover
  BY <1>11, <1>2 DEF CrashAndRecover
<1>12. CASE UNCHANGED vars
  BY <1>12, <1>1 DEF vars, worker, Locked
<1> QED BY <1>4, <1>5, <1>6, <1>7, <1>8, <1>9, <1>10, <1>11, <1>12 DEF Next, Work

\* A transcript file that no row names is the trace of a save of that very version which a
\* failed COMMIT or a crash has cut short (database.py:296-331).
THEOREM OrphansAlwaysExplained == Spec => []OrphansExplained
<1>1. ASSUME StoreInv, OrphanInv PROVE OrphansExplained
  <2>1. DOMAIN files = 1..MaxAttempts /\ DOMAIN rows = 1..version /\ version \in Nat
    BY <1>1 DEF StoreInv, TypeOK, AttemptInv
  <2> SUFFICES ASSUME ~Locked, NEW v \in 1..MaxAttempts, Orphan(v) PROVE v \in cutShort
    BY <2>1 DEF OrphansExplained
  <2>2. CASE v > version BY <1>1, <2>2 DEF Orphan, OrphanInv
  <2>3. CASE v <= version
    <3>1. v \in DOMAIN rows BY <2>1, <2>3
    <3> QED BY <1>1, <2>3, <3>1 DEF Orphan, OrphanInv
  <2> QED BY <2>1, <2>2, <2>3
<1> QED BY <1>1, OrphanInit, OrphanNext, StoreInvariance, PTL DEF Spec
====
