---- MODULE TranscriptStore ----
(***************************************************************************)
(* The transcripts of one job: what JobStore.save_transcript does inside   *)
(* (file, rows, commit), with attempts that fail at every stage, crashes,  *)
(* and clients that poll the job (routes.py, get_transcription).           *)
(*                                                                         *)
(* save_transcript runs on the event loop and holds the store's lock from  *)
(* its first statement to the commit; mark_completed follows without an    *)
(* await.  A poll reads the job on the event loop, selects the transcript  *)
(* on a thread under the lock and reads its file outside the lock.         *)
(* An attempt is named by its number, and a transcript by its attempt.     *)
(***************************************************************************)
EXTENDS Integers, Sequences, FiniteSets

CONSTANTS Readers,      \* polls under way at a time
          MaxAttempts,  \* max_retries + 1
          CommitFaults, \* may COMMIT fail?
          Crashes       \* may the process die at any moment?

ASSUME StoreAssumption == /\ MaxAttempts \in Nat \ {0}
                          /\ CommitFaults \in BOOLEAN /\ Crashes \in BOOLEAN

VARIABLES
  status, attempt,  \* jobs.status, jobs.retry_count + 1 once it has been started
  version,          \* jobs.trans_version, committed
  rows,             \* transcripts, committed: rows[v] for version v
  files,            \* files[v]: what <job>.v<v>.json says, 0 if there is none
  pc, large,        \* the worker: its place in the attempt; is content_path set?
  rpc, announced,   \* a poll: its place, trans_version of the job it has read,
  found, answer,    \*   the version it has selected, the transcript it has given
  cutShort          \* history: versions whose save was cut short after its file was there

worker == <<pc, large>>
poll == <<rpc, announced, found, answer>>
committed == <<version, rows>>
vars == <<status, attempt, committed, files, worker, poll, cutShort>>

Null == 0            \* no transcript in the answer
Unreadable == -1     \* TranscriptStorageError

Init == /\ status = "queued" /\ attempt = 0
        /\ version = 0 /\ rows = <<>>
        /\ files = [v \in 1..MaxAttempts |-> 0]
        /\ pc = "idle" /\ large = FALSE
        /\ rpc = [r \in Readers |-> "idle"]
        /\ announced = [r \in Readers |-> 0]
        /\ found = [r \in Readers |-> 0]
        /\ answer = [r \in Readers |-> Null]
        /\ cutShort = {}

----------------------------------------------------------------------------
(* Operators whose comment begins with "Mutant" are plausible defects of   *)
(* the definition below them; only the checks of the properties use them.  *)

\* Mutant: the latest version is written again.
LatestAgain == IF version = 0 THEN 1 ELSE version
NextVersion == version + 1

\* Mutant: no clean-up when a statement fails.
KeptFile == files
Unlinked == IF large THEN [files EXCEPT ![NextVersion] = 0] ELSE files

\* Mutant: a poll shows a transcript as soon as there is one.
AnyVersion == version > 0
Shown == status = "completed"

\* Mutant: <= for <.
OneTryMore(retryable) ==
  IF retryable /\ attempt <= MaxAttempts THEN "retrying" ELSE "failed"
AfterFailure(retryable) ==
  IF retryable /\ attempt < MaxAttempts THEN "retrying" ELSE "failed"

----------------------------------------------------------------------------
(* The worker *)

StartAttempt == /\ pc = "idle" /\ status \in {"queued", "retrying"}
                /\ status' = "processing"
                /\ attempt' = attempt + 1
                /\ pc' = "running"
                /\ UNCHANGED <<committed, files, large, poll, cutShort>>

\* _handle_failure
EndAttempt == /\ \E retryable \in BOOLEAN : status' = AfterFailure(retryable)
              /\ pc' = "idle"
              /\ large' = FALSE
              /\ UNCHANGED <<attempt, poll>>

\* The pipeline raises, or the temporary file of the transcript cannot be written.
AttemptFails == /\ pc = "running"
                /\ EndAttempt
                /\ UNCHANGED <<committed, files, cutShort>>

KeepInline == /\ pc = "running"
              /\ pc' = "execute"
              /\ UNCHANGED <<status, attempt, committed, files, large, poll, cutShort>>

\* _write_transcript_file: os.replace puts the whole file there at once.
WriteFile == /\ pc = "running"
             /\ large' = TRUE
             /\ files' = [files EXCEPT ![NextVersion] = attempt]
             /\ pc' = "execute"
             /\ UNCHANGED <<status, attempt, committed, poll, cutShort>>

\* INSERT and UPDATE, not committed yet; UNIQUE (job_id, version) refuses a second row.
Execute == /\ pc = "execute" /\ NextVersion \notin DOMAIN rows
           /\ pc' = "commit"
           /\ UNCHANGED <<status, attempt, committed, files, large, poll, cutShort>>

\* A statement raises: the file is removed, the transaction rolled back.
ExecuteFails == /\ pc = "execute"
                /\ files' = Unlinked
                /\ EndAttempt
                /\ UNCHANGED <<committed, cutShort>>

Commit == /\ pc = "commit"
          /\ version' = NextVersion
          /\ rows' = Append(rows, [inline |-> ~large, content |-> attempt])
          /\ pc' = "saved"
          /\ UNCHANGED <<status, attempt, files, large, poll, cutShort>>

\* A save that ends here leaves its file behind, if it has written one.
LeaveFile == cutShort' = IF large /\ pc \in {"execute", "commit"}
                         THEN cutShort \cup {NextVersion} ELSE cutShort

\* COMMIT raises at the end of the with statement, outside the try: a roll-back,
\* and nobody removes the file.
CommitFails == /\ CommitFaults /\ pc = "commit"
               /\ LeaveFile
               /\ EndAttempt
               /\ UNCHANGED <<committed, files>>

MarkCompleted == /\ pc = "saved"
                 /\ status' = "completed"
                 /\ pc' = "idle" /\ large' = FALSE
                 /\ UNCHANGED <<attempt, committed, files, poll, cutShort>>

\* The transcript stays, and the next attempt saves another version.
MarkCompletedFails == /\ pc = "saved"
                      /\ EndAttempt
                      /\ UNCHANGED <<committed, files, cutShort>>

----------------------------------------------------------------------------
(* A poll: get_transcription *)

Locked == pc \in {"execute", "commit"}
LoopFree == ~Locked /\ pc # "saved"

SeeJob(r) == /\ rpc[r] \in {"idle", "answered"} /\ LoopFree /\ Shown
             /\ rpc' = [rpc EXCEPT ![r] = "asked"]
             /\ announced' = [announced EXCEPT ![r] = version]
             /\ answer' = [answer EXCEPT ![r] = Null]
             /\ UNCHANGED <<status, attempt, committed, files, worker, found, cutShort>>

Answer(r, what) == /\ rpc' = [rpc EXCEPT ![r] = "answered"]
                   /\ answer' = [answer EXCEPT ![r] = what]

\* The row that the job's trans_version names now, if there is one.
Select(r) ==
  /\ rpc[r] = "asked" /\ ~Locked
  /\ found' = [found EXCEPT ![r] = version]
  /\ \/ version \notin DOMAIN rows /\ Answer(r, Null)
     \/ version \in DOMAIN rows /\ rows[version].inline /\ Answer(r, rows[version].content)
     \/ /\ version \in DOMAIN rows /\ ~rows[version].inline
        /\ rpc' = [rpc EXCEPT ![r] = "reading"] /\ UNCHANGED answer
  /\ UNCHANGED <<status, attempt, committed, files, worker, announced, cutShort>>

ReadFile(r) ==
  /\ rpc[r] = "reading"
  /\ Answer(r, IF files[found[r]] = 0 THEN Unreadable ELSE files[found[r]])
  /\ UNCHANGED <<status, attempt, committed, files, worker, announced, found, cutShort>>

----------------------------------------------------------------------------
\* The process dies and starts again: an open transaction is gone, the polls
\* with it, and recovery counts the interrupted attempt.
CrashAndRecover ==
  /\ Crashes
  /\ status' = IF status = "processing" THEN AfterFailure(TRUE) ELSE status
  /\ LeaveFile
  /\ pc' = "idle" /\ large' = FALSE
  /\ rpc' = [r \in Readers |-> "idle"]
  /\ UNCHANGED <<attempt, committed, files, announced, found, answer>>

Work == \/ StartAttempt \/ AttemptFails \/ KeepInline \/ WriteFile \/ Execute
        \/ ExecuteFails \/ Commit \/ CommitFails \/ MarkCompleted \/ MarkCompletedFails

Next == Work \/ CrashAndRecover \/ \E r \in Readers : SeeJob(r) \/ Select(r) \/ ReadFile(r)

Spec == Init /\ [][Next]_vars

----------------------------------------------------------------------------
TypeOK ==
  /\ status \in {"queued", "processing", "retrying", "completed", "failed"}
  /\ attempt \in 0..MaxAttempts
  /\ version \in 0..MaxAttempts
  /\ rows \in Seq([inline : BOOLEAN, content : 1..MaxAttempts])
  /\ files \in [1..MaxAttempts -> 0..MaxAttempts]
  /\ pc \in {"idle", "running", "execute", "commit", "saved"}
  /\ large \in BOOLEAN
  /\ rpc \in [Readers -> {"idle", "asked", "reading", "answered"}]
  /\ announced \in [Readers -> 0..MaxAttempts]
  /\ found \in [Readers -> 0..MaxAttempts]
  /\ answer \in [Readers -> {Unreadable, Null} \cup 1..MaxAttempts]
  /\ cutShort \subseteq 1..MaxAttempts

\* Whoever polls a completed job gets a transcript, and the one whose version
\* the answer names, though version and content are read at different times and
\* the file outside the lock (routes.py:115-123, database.py:336-361).
AnswerIsAnnounced == \A r \in Readers : rpc[r] = "answered" =>
  /\ announced[r] \in DOMAIN rows
  /\ answer[r] = rows[announced[r]].content

\* A transcript file that no row names is what a failed COMMIT or a crash has
\* left of a save of that version, and of no other (database.py:296-331).
Orphan(v) == files[v] # 0 /\ (v \in DOMAIN rows => rows[v].inline)
OrphansExplained == ~Locked => \A v \in DOMAIN files : Orphan(v) => v \in cutShort

\* "failed save leaves no orphan file" (tests/unit/test_database.py:237).
NoOrphanFile == ~Locked =>
  \A v \in DOMAIN files : ~Orphan(v)

\* The transcripts, files included, are a log of versions: what a committed row
\* points to is there whole and never changes (README.md:123).
Content(v) == IF rows[v].inline THEN rows[v].content ELSE files[v]
Versions == [v \in 1..version |-> Content(v)]
Log == INSTANCE VersionLog WITH Contents <- 1..MaxAttempts, log <- Versions
ImplementsLog == Log!Spec
====
