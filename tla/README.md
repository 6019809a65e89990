# A TLA+ model of the audio transcription service

This directory specifies the service under `app/`: a FastAPI process that accepts
audio, keeps jobs in SQLite, transcribes them in background workers and answers
polls. The modules are written from the code. TLC checks them on small instances,
TLAPS proves the main invariants for every value of the constants. File and line
references such as `worker.py:98` are to `src/app/`.

## 1. The system

| Component | State it keeps | Operations | Talks to |
|---|---|---|---|
| Upload endpoint (`api/routes.py`) | none of its own | `create_transcription`: save audio, probe it, insert the row, enqueue | storage, job table, queue |
| Poll and list endpoints (`api/routes.py`) | none | `get_transcription`, `list_transcriptions`, `health` | job table, transcripts |
| API key and rate limit (`api/dependencies.py`, `infrastructure/rate_limit.py`) | a deque of admission times per key, time of the last sweep | `check`, `_maybe_sweep` | called by every request, on pool threads |
| Job table (`infrastructure/database.py`) | `status`, `retry_count`, `trans_version`, `created_at` per job | `create_job`, `mark_processing/retrying/completed/failed`, `list_unfinished_jobs` | SQLite under one lock |
| Transcript storage (`infrastructure/database.py`) | rows per version, a file for each long transcript | `save_transcript`, `get_transcript` | SQLite, disk |
| Object storage (`infrastructure/storage.py`) | one file per upload | `save`, `as_local_file`, `delete` | disk |
| Queue (`infrastructure/queue.py`) | a FIFO of job ids, pending timers | `enqueue`, `enqueue_after`, `dequeue`, `close` | upload, workers, recovery |
| Workers (`services/worker.py`) | the job they run, its snapshot at the claim | `run_forever`, `_process_once`, `_handle_failure`, dead letters | queue, job table, pipeline |
| Pipeline (`services/pipeline.py`) | temporary directory, semaphore, failure event | `run`, `_transcribe_chunked` | ffmpeg and engine on threads |
| Chunk plan and merge (`services/audio.py`, `transcription/merge.py`) | none | `plan_chunks`, `split_into_chunks`, `merge_chunk_results` | called by the pipeline |
| Engines (`transcription/engines.py`) | the loaded model, two locks | `_get_model`, `transcribe` | called on threads |
| Process (`main.py`) | workers, their tasks | `lifespan`, `recover_unfinished_jobs` | everything |

Everything in memory (queue, timers, workers, limiter) is lost with the process; the
table, the files and the dead letters stay. Request handlers, workers and timers are
coroutines of one event loop. Blocking calls (`storage.save`, ffprobe, ffmpeg, the
engine, `get_transcript`) and the synchronous dependency `require_api_key` run on
threads.

### What is hard

- **Two durable writes without a transaction.** `create_job`/`enqueue`,
  `save_transcript`/`mark_completed`, `mark_failed`/dead letter, transcript
  file/row: a crash fits between any two, and recovery knows only the row.
- **Memory against disk.** A job that is `queued` or `retrying` on disk must be in the
  queue or on a timer in memory. Every error path has to keep that true.
- **Stale reads.** The worker decides about a retry with a snapshot taken before the
  transcription; a poll reads job, row and file at three times.
- **Repeated delivery.** Only the guarded UPDATE of `_transition` keeps two workers
  off one job.
- **Threads.** The limiter reads its clock outside the lock; a cancelled run leaves
  engine threads behind; all threads share one model that the first of them loads.
- **Seams.** Windows are cut from float settings and rounded to frames. A word in the
  overlap of two chunks is heard twice, perhaps clipped, timed a little differently or
  in another sentence, and has to come out once.
- **Pages.** A client walks through a table that grows and changes meanwhile.

`PROJECT.json` lists each of these hazards at its line with the properties that watch it.

### What correctness means, by component

- Job service: a job follows its life cycle, is started at most `max_retries + 1`
  times over all restarts, is run by one worker at a time, is never forgotten while
  the service is up, and is finally completed or failed.
- Durable state: what a 202 promised is on disk; `completed` implies a transcript;
  a dead letter tells the truth; a failed job has one.
- Transcripts: versions form a log that never changes; a poll gets what it announces.
- Rate limiter: the sliding window holds, memory is bounded, Retry-After is honest.
- Pipeline: only whole results are merged, engine threads are bounded, a failure
  stops the rest and is raised, every run ends.
- Engine: one model, loaded once, used by one thread at a time with its own precision.
- Plan and merge: the chunks cover the audio and share the overlap; every word comes out
  once, whole and in order, in the text as in the word list; the timeline is well formed.
- List: a client that follows `next_offset` misses nothing but what changed meanwhile.

## 2. Modules

| Module | Models |
|---|---|
| `JobLifecycle` | abstract: state and number of starts of each job, as a client may rely on them |
| `TranscriptionService` | upload, job table, queue, workers, recovery, shutdown, crash |
| `VersionLog` | abstract: the transcripts of a job as an append-only log |
| `TranscriptStore` | `save_transcript` stage by stage, retries, polls, crashes |
| `JobListing` | `list_transcriptions` and `list_jobs` over jobs that follow `JobLifecycle` |
| `RateLimiter` | `check` and `_maybe_sweep`, called by threads |
| `ChunkPipeline` | one `TranscriptionPipeline.run` with its chunk tasks and threads |
| `WhisperEngine` | `_get_model` and `transcribe`, called by any number of threads |
| `TranscribingPipeline` | the two composed: the threads of a run go through the engine |
| `ChunkPlan` | `plan_chunks` and the frames of `split_into_chunks` |
| `ChunkMerge` | on the plan: what an engine hears in each chunk, and `merge_chunk_results` |
| `MC...` | instances for TLC: symmetry sets, recordings, engines |
| `TranscriptionService_proofs` | types, one runner, attempts, refinement of `JobLifecycle`, durability, transcripts, dead letters; no job lost or on its way twice, finished jobs stay finished, recovery in order |
| `TranscriptStore_proofs` | types, answers of polls, orphans, refinement of `VersionLog` |
| `JobListing_proofs` | types, nothing skipped, drift |
| `RateLimiter_proofs` | types, memory, the limit up to the lag, Retry-After |
| `WhisperEngine_proofs` | types, one model, its safe use |
| `TranscribingPipeline_proofs` | types, whole results, bounded threads, files, refinement of `WhisperEngine` |
| `ChunkMerge_proofs` | coverage, overlap and no empty chunk of a plan; a well-formed timeline for any results; types and timeline from plan to transcript |
| `ChunkMergeContents_proofs` | what is in the transcript: every word once, and the whole file without word timings |

In each module the operators whose comment begins with "Mutant" are plausible defects
of the definition that follows them. No action uses them; they show that a property
notices the defect.

### TranscriptionService

Variables on disk: `status`, `retryCount`, `transVersion`, `createdAt` (a row),
`audio`, `deadLetter`. In memory: `phase` of the process, `boot` (jobs recovery still
has to visit), `queue`, `timers`, `req` (uploads), `wpc`, `wjob`, `wretry` (a worker,
its job, the `retry_count` in its snapshot). History: `attempts`, `acked`, `stranded`.

The table operations are operators with the names of the methods. An action is the
code of a coroutine from one durable write, or one await that really suspends, to the
next. So `_handle_failure` is one step up to `mark_failed` and `WriteDeadLetter` the
next; `SaveTranscript` and `MarkCompleted` are two. Between two such steps of one
coroutine without an await the event loop is not free (`LoopFree`): no other coroutine
runs, but a crash may come. `asyncio.Queue.put` on an unbounded queue never suspends,
which is why recovery runs to its end before the workers start.

`Faults` lets SQLite or the disk refuse any single write: each has its action or
disjunct (`UploadFails`, `ReadBackFails`, `MarkCompletedFails`, `WorkerLosesJob`,
`RecoveryFails`, the second disjuncts of the dead-letter writes, `AttemptFails`).
Where such an error drops the in-memory delivery of a job, `stranded` records it.
`Crashes` lets the process die in any state. `Redelivery` replaces the in-memory
queue by one that repeats jobs, which `JobQueue` as a protocol does not exclude and
`README.md:119` of the service promises to survive.

Abstractions: error codes are retryable or not; backoff lengths only matter as zero
or positive; `createdAt` is the rank of the insert, so the wall clock is taken not to
run backwards between two inserts; a process crash keeps what was written (no loss
of power between a write and its way to the disk).

### TranscriptStore

One job. A transcript is named by the attempt that made it, so a mixed-up version
shows. `save_transcript` is four places: file (or inline), statements executed,
committed, returned. Each can fail: `AttemptFails` before the file, `ExecuteFails`
with the clean-up of the except clause, `CommitFails` outside that clause. Polls read
the job on the event loop, the row under the lock and the file without it.

### JobListing

The jobs of all callers and one client. Jobs move by the actions of `JobLifecycle`, so
the module says nothing of its own about them; `JobListing` adds the rows in their order,
the two queries of a request (the page and the one row behind it, both in one turn of the
event loop) and a client that asks for `next_offset` until there is none. A row may get
its place anywhere, as `created_at` is a wall clock. `steady`, `left` and `entered` are
history: what matched the request ever since it began, and how many jobs came and went.
A page is stated by ranks: the rank of a job is the number of matching rows above its own,
and `LIMIT size OFFSET from` selects the matching jobs of rank `from` to `from + size - 1`.
The client's list is the set `got` and the number of `items` it came in, as a job may come
twice.

### RateLimiter

Time is an integer number of ticks. A thread reads the clock (`ReadClock`), may wait
while others go on, then takes the lock and decides (`Decide`, which includes the
sweep). `lag`, chosen once from 0 to `MaxSkew`, bounds how long it may wait; with lag 0
the behaviours are those of a clock read under the lock. A missing key and an empty deque
are told apart as in the code.

### ChunkPipeline, WhisperEngine and TranscribingPipeline

`ChunkPipeline` is the coroutine `run`, a task and a thread per chunk, the semaphore's
count, the failure event and the temporary directory. A thread ends at its own time; its
task resumes later. `Cancel` is what `lifespan` does to a worker after its timeout.

The directory is `whole` until the run ends, however it ends. The with block ignores errors
of its clean-up, so it may then be `gone` or, all of it or a part, `left`. A thread that a
cancelled run leaves behind in ffmpeg or in the split goes on: it may write there, or make
the directory again when it is gone (`LateFile`, in the composition `WritesLate`). Nothing
in the code removes what is left, and nothing reads it, as the next run of the job has a
directory of its own; so no property says that no temporary file stays, and
`FilesOutliveThreads` says when they must not go.

`WhisperEngine` has a place in `transcribe` for every thread, the two locks, `_model`
and `_fp16`. `CheckModel` is the look without the lock, `EnterLoad` the one with it. The
device is chosen, and `_fp16` written, before the model is loaded; either may raise, which
gives the lock back. The chunk's length is read after the lock has been left.

`TranscribingPipeline` composes them: a thread of a chunk becomes busy with
`Engine!Called` and ends when its call does. Thread 0 runs ffmpeg and, for a short file,
the only call of the engine. Every step of the composition is a step of the engine or
leaves it alone (`PipelineImplementsEngine`).

### ChunkPlan and ChunkMerge

Settings are in seconds and may be finer than a frame of audio, so windows are counted in
ticks and chunks in frames. `Frame` is Python's `round`, halves to even. A float sum may
come out just below the duration it should equal, so at an exact fit `Reaches` allows both
outcomes: the loop may go on for one window more.

`ChunkMerge` chooses a recording (words in order) and an engine. `Heard` is what
`_to_result` makes of a chunk: the words that lie in it, those cut by its edge left out or
heard as another word (`Clipped`), timings shifted by a constant in every other chunk, never
to before the chunk, and rounded to hundredths (three frames here), sentences split
differently in even and odd chunks, padded ends, or no words at all. A segment is named by
the word it begins with (`Begins`, `LastOf`): the results of a chunk are a function of those
words, which the merge sorts by time. `Tiles` is `MockEngine`. The rest is
`merge_chunk_results`, one step per turn of its loops: each of the four things that may
happen to a word is an action with the guard of its branch. A text is the sequence of the
words in it, so a text that differs from its words shows.

## 3. Runs

| Run | Question | Bounds |
|---|---|---|
| `service_faults` | all safety properties and the refinement, with refused writes and crashes | 2 jobs, 2 workers, 2 retries, delayed retries |
| `service_redelivery` | one runner, finished stays finished, no job lost, a dead letter for each failed job, with repeated deliveries and graceful restarts | 2 jobs, 2 workers, 2 retries, immediate retries, no crash |
| `service_liveness` | every job finishes if the service finally stays up | 2 jobs, 2 workers, 1 retry, no symmetry |
| `service_crash` | a dead letter for each failed job, with crashes: violated | 2 jobs, 2 workers, 1 retry |
| `limiter` | the window of `.env.example:8` without lag, what holds of it with lag; memory; Retry-After | 3 threads, 2 keys, limit 2, window 4 ticks, lag 0 or 1, 6 calls in 8 ticks |
| `limiter_skew` | the full window when threads lag: violated | 3 threads, 1 key, window 3 |
| `pipeline` | safety and liveness of one run and the engine under it | up to 5 chunks, 3 permits |
| `store` | versions, polls, orphans, refinement of the log | 4 attempts, 2 polls |
| `store_orphan` | no orphan after a failed save: violated | 4 attempts, 1 poll |
| `merge` | plan, words kept once, timeline, holes without word timings | 3 or 4 words in 2 to 4 chunks, 140 ways to hear them; 144 files for the plan |
| `merge_repeat` | words that are said twice: violated | as `merge`, the middle word repeated |
| `listing` | walks through all pages, with and without a status | 4 jobs, 2 callers, pages of 1 and 2 |

Why these bounds. Two jobs and two workers give every race over one job, every order
of two jobs in queue and recovery, and a job that is run while another recovers. Two
retries separate first, middle and last attempt. Ids draw once, so a run of the model
is finite without further bounds on counters: restarts and crashes may happen any
number of times. In the limiter a window of 4 ticks with a limit of 2 leaves room for
an admission inside, at and behind each end, two ticks per second make the rounding of
Retry-After visible, 8 ticks hold two windows and two sweeps, and two keys let the sweep
of one delete the hits of the other. Five chunks on three permits have two that wait for
a lock while one uses the model, one that waits for a permit, and failures before and
after each. Four attempts are those of the default settings.

In `merge` three frames are a hundredth of a second and two ticks a frame, so that
rounding to either is visible. The scale is that of the code with everything shrunk: a
word has 11 to 13 frames, an overlap 16 or 17, so that a word fits into it and a second
one lies on its edge; the recordings begin and end at every offset to the chunks, with and
without pauses. Engines are early, exact or late by up to a frame, and two are late by a
good part of a word. Short silent files go through all remainders of length, overlap and
step, heard by a listener and by `MockEngine` with tiles of 1 to 5 frames, where rounding
costs most; otherwise it has tiles of 3 to 22 frames in chunks of 20 to 34. In `listing` four
jobs make three pages of two or four of one, and a job can be uploaded, enter and leave
the client's status while it is on its way; what happens after the last page is cut off by
the constraint `Walking`, as nothing there can change the walk.

The runs of everything but the service switch off the deadlock check: the bounded clock
and calls, a finished run, a merged file, a finished job and the end of a walk are ends,
and nothing more happens. In the service runs deadlock is checked: a service that is down
can always start.

### Fairness

`service_liveness` and `pipeline` assume weak fairness only of single steps: a coroutine
that is ready gets its turn of the event loop, a thread's call ends, a timer fires. ffprobe
and ffmpeg end after 30 seconds and 30 minutes at the latest (`audio.py:11-12, 32-40`); the
engine has no timeout in the code, so that it returns is an assumption.
In the pipeline this includes a thread that waits for one of the engine's locks: each takes
each lock once and gives it back, so the lock is finally free for good and weak fairness is
enough. So it is with the permits of the semaphore, which each chunk takes once and gives
back on every path. Uploads, shutdowns, crashes and restarts have no fairness;
`EveryJobFinishes` is stated for behaviours in which the service finally stays up, with any
number of crashes, shutdowns and interrupted attempts before that. No fairness makes an
attempt succeed: an engine that fails for ever leads to `failed`.

### Disagreements found

1. `FailedIsDeadLettered` (`service_crash`): the service's README says a job that
   still fails is marked failed and a JSON file is saved. The row is committed first,
   so a crash in between leaves a failed job without a file for good, since recovery
   looks only at unfinished jobs. Writing the file first would leave at worst a file
   for a job that is tried once more.
2. `WindowLimit` (`limiter_skew`): the clock is read outside the lock, so admission
   times enter the deque out of order and one window can hold a request too many.
   `LimitUpToSkew` states what the code does guarantee: windows shorter by twice the lag,
   once because the caller lags and once because the sweep, run by a caller that does
   not, judges a key by an entry of one that does. Without lag it is the full limit, so
   reading the clock under the lock restores it.
3. `NoOrphanFile` (`store_orphan`): a failed save removes its file only when a
   statement fails, not when COMMIT does. `OrphansExplained` shows that this and a
   crash are the only sources of orphans; `ImplementsLog` that they do no harm to readers.
4. `RepeatsKeptOnce` (`merge_repeat`): the test for a word heard twice compares the text
   and asks whether the word begins before the end of the last one kept. When somebody
   says a word twice in a row, the first time before the cut and the second behind it, and
   the later chunk hears the second one begin a hundredth of a second early, it is taken
   for the first and dropped. The code run on such a case (a word "very" at 16.4 to 17.21
   in one chunk, 1.4 to 2.2 and 2.2 to 3.1 in the next, which begins at 15) keeps one
   "very" of two. `test_transcription.py:357` claims that a repeated word is kept; it uses
   exact timings. `WordsKeptOnce` is what holds of words that are not repeated.

What these runs also showed, without being a disagreement:

- Whole segments may overlap: an uncut segment keeps the engine's padded end, and the next
  one begins with its first word at the latest (`merge.py:109-117`).
  `assert_well_formed_timeline` of `test_transcription.py:391` asks segments to be disjoint
  in the cases it is used for; `WellFormed` asks it of the words and orders the starts.
- An exact fit that a float misses gives one window more, and without an overlap that
  chunk is empty (`chunk_length` 0.3, `overlap` 0, a file of 0.9 s). With an overlap of a
  frame or more it is not: `NoChunkEverEmpty`.
- `Clear` names what `WordsKeptOnce` needs of speech and engine. Each word is shorter than
  each overlap it may lie in, by twice what that chunk is off, so the cut is in no word that
  only one of the two chunks has. Timings of a word may be off by less than half of it. What
  is left of a clipped word at the head of a chunk must be long enough to be told from it. A
  chunk that hears early after one that hears late by half a word loses a word that both
  push over the cut. A late last chunk is harmless, and there the test for a word heard twice
  earns its place.
- `FallbackGap` allows four frames for rounding, besides the half segment. A tile's bounds
  are rounded in its chunk, what is kept is rounded again in the transcript, and a chunk may
  begin a frame behind the place where the last one was cut; tiles of a frame or two need
  all four. Chunks that begin no more than a frame apart are outside it (`Apart`): there
  rounding may carry a tile over a whole chunk.

## 4. Proofs

### The job service and transcripts

For every set of jobs and workers (jobs finite), every number of retries, and with or
without faults, crashes and repeated deliveries (`ConstantsAssumption`):

| Theorem | Says |
|---|---|
| `TypeCorrect` | `Spec => []TypeOK` |
| `OneRunnerAlways` | `Spec => []OneRunner` |
| `AttemptsBounded` | `Spec => []AttemptsAccounted` |
| `Implementation` | `Spec => ImplementsLifecycle` |
| `AcceptedAlwaysDurable`, `CompletedAlwaysServed`, `DeadLetterAlwaysTruthful` | the three data invariants |
| `NoJobEverLost` | `Spec => []NoJobLost` |
| `FinishedForEver` | `Spec => FinishedStaysFinished` |
| `AlwaysOldestFirst` | `Spec => []RecoveredOldestFirst` |
| `TrackedAlwaysOnce` | `~Redelivery => (Spec => []TrackedOnce)` |
| `FailedAlwaysDeadLettered` | without faults and crashes: `Spec => []FailedIsDeadLettered` |

The inductive invariant `Inv` is `TypeOK`, `OneRunner`, `AttemptsAccounted` and three
parts that are needed because none of these is inductive alone: `WorkerInv` (a worker's
place says what it holds; one about to write a dead letter has a failed job and a
current snapshot; nobody works before the service is up), `UploadInv` (an upload
without a row has a fresh id, so `create_job` never overwrites), `BootInv` (recovery
visits only jobs it found unfinished, or has itself just failed). `TypeOK` depends on
`AttemptsAccounted`, since `attempts` stays in its range only because `retryCount`
accounts for it, and that on `OneRunner`, since a retry is decided on the snapshot.
The proof reduces the worker's actions to five effects (`Starts`, `Skips`, `Retries`,
`Ends`, `Leaves`) and shows once for each that it preserves `Inv`. `DataInv` adds that
audio precedes its row and that a worker past `save_transcript` has saved in this
attempt. `DeliveryInv` says by status where an unfinished job must be (`processing`:
with a worker; `queued` or `retrying`: in queue, timer, upload or a worker that has
dequeued it); `NoJobLost` alone does not follow a job from one place to the next.
`RecoveryInv` adds to `RecoveredOldestFirst` that no two rows share a place in the order of
inserts (`RankInv`: no row is ever removed, so the next place is free) and that no request
runs and nothing is queued before recovery begins (`QuietInv`). `OnceInv` says that a job
is in one of the five places at most (`OnePlace`), once in it (`Distinct`, `OneTimer`,
`OneCarrier`), and in none without a row, once stranded, or while the process is down;
`OnceCounts` turns that into the sum of `TrackedOnce`. It needs a queue that repeats
nothing: with `Redelivery` the property is false, as it should be.
`FailedInv` says who still owes a failed job its file: the worker between the two writes, or
recovery, which visits a job until it has written it. `FailedAlwaysDeadLettered` needs its
two hypotheses: a crash loses that debt (`service_crash`), and a refused write of the file
is only logged. Repeated deliveries, shutdowns and restarts are in it.

For every number of attempts and polls (`StoreAssumption`): `StoreTypeCorrect`,
`AnsweredAsAnnounced`, `StoreImplementsLog` and `OrphansAlwaysExplained`. The first three
follow from `StoreInv`: the version is the
number of rows and smaller than the number of the attempt while one is to be saved
(so the next version number is free and in range), every file that a row names, or is
about to name, says what its attempt said, and a poll under way has seen the job
completed, after which nothing is saved. For the orphans `OrphanInv` adds what is known of
files that no row names: a version not yet committed has a file only if a save of it is under
way or was cut short, and one that is kept in its row only if an earlier save of the same
version was.

### Rate limiter

For every number of threads and keys, every limit, window, lag and length of a second
(`LimiterAssumption`; there is at least one key, `config.py:98`): `LimiterTypeCorrect`,
`MemoryAlwaysBounded`, `LimitAlwaysKept`, `RetryAfterAlwaysHonest`, and
`FullLimitWithoutLag`: the documented limit, wherever no thread lags. The bounds `MaxTime`
and `MaxCalls` are constants like the others, so the theorems hold for each of them.

`LimitUpToSkew` counts admissions, of which the code keeps no record: it has the deque of a
key, and drops hits from it. `MemoryInv` is the link. The deque is a suffix of the
admissions of its key, and what is missing is out of the window for whoever may still decide
(`Remembers`, up to the lag). That survives a sweep and a deque that is deleted and begun
anew. `OrderInv` says that admissions are out of order by the lag at most, which follows
from `ClockInv` (who waits for the lock has read the clock within the lag). When a request
is admitted, the deque is shorter than the limit, so the admission that lies `MaxRequests`
places back has been dropped: it is out of the window by the clock plus the lag, and the
request's own time lies up to a lag before the clock, which makes the two lags. `PromiseInv`
ties a refusal to the head of the deque it saw: until somebody is let in with that key,
there is room or the head expires by the time promised, and `RoundsUp` shows that whole
seconds are not too few. `FreshFacts` says what popping expired hits from the left leaves.

### Job list

For every number of jobs and callers, any statuses and page sizes (`ListingAssumption`):
`ListingTypeCorrect`, `NothingEverSkipped`, `DriftAlwaysBounded`. `NothingSkipped` is about
the end of a walk and says nothing of the way there. `SkipInv` counts the steady jobs that the
client has passed without getting them and bounds them by the jobs that have left;
`RepeatInv` counts the repeats so far and those still to come, jobs it has already and that lie
at or behind the offset, and bounds them by the jobs that have entered. One job that leaves
moves the others up by one rank, so one more passes the offset at most; one that enters moves
them down by one. That the ranks of the matching jobs are 0, 1, 2 and so on without a hole
gives the end of the walk: nothing of rank `from + limit` means nothing behind the page.
Without a status nothing ever leaves (`AnyInv`), so nothing is passed.

### Pipeline and engine

For every number of threads, `WhisperEngine_proofs`: `EngineTypeCorrect`,
`AlwaysUsedSafely`, `OneModelEver`. The invariant is `LockInv` (a thread that imports or
loads holds the load lock and there is no model yet, one that transcribes holds the other
lock, and nobody else holds either) and `DeviceInv` (`fp16` belongs to the device of the
model, or of the one being loaded; a thread past loading sees a model). It is `DeviceInv`
that makes the read of `_model` without the lock harmless.

For every number of chunks and permits, `TranscribingPipeline_proofs`:
`PipelineTypeCorrect`, `OnlyWholeResultsMerged`, `ThreadsAlwaysBounded`,
`FilesAlwaysOutlive`, and by `PipelineImplementsEngine` (each step of the composition is one
of the engine or a stutter) the engine's properties for the threads of a run,
`PipelineUsesModelSafely` and `PipelineLoadsOnce`. `RunInv` relates each task to its thread
(`TaskInv`), the permits to the tasks that hold one, cancelled ones included (`PermitInv`),
and the directory to the run, before whose end it stays whole (`TmpInv`).
`PipelineTypeCorrect` includes that a thread is busy exactly while its call is in the engine
(`CallsKeepMatch`).

### Plan and merge

For files and settings of any size (`PlanAssumption`), `ChunkMerge_proofs`:
`PlanTypeCorrect`, `ChunksAlwaysCover` and `NoChunkEverEmpty`, whichever way the float
comparison falls. `WindowInv` says where each window lies, that every window but the last
ends inside the file and that the last reaches its end. `FrameNear`, `FrameMonotone` and
`FrameExact` say what rounding does to it: off by half a frame at most, in order, and exact
where the file ends.

Of the words nothing is assumed there: `AlwaysWellFormed` is about the merge of any chunks
with any results of the right type (`MergeSpec`), however unordered, overlapping or long.
`MergeInv` says that the merged segments form a timeline which lies before `keptUntil`
rounded to hundredths (`Reached`), and that the words kept of the present segment follow it
in order (`KeptInv`); rounding keeps the order (`StampFacts`), and the clamp does the rest.
`TranscriptAlwaysWellFormed` puts the plan and the engine in front of it (`FileInv`): what
`Heard` and `Tiles` return has its type (`ResultsTyped`). `FilePlanned` shows that the file's
way implements `PlanSpec`, so `FileAlwaysCovered` and `NothingEmptyHeard` follow.
`MergeTypeCorrect` is the type invariant of the whole; its `MemoryInv` adds what the merge
remembers from chunk to chunk. All of it holds for the recordings and engines that
`HearingAssumption` allows: words in order, inside the file.

`ChunkMergeContents_proofs` proves what is in the transcript, for files, settings,
recordings and engines of any size.

`EveryWordOnce` (`Spec => []WordsKeptOnce`). The lemmas up to `WordAgain` are about hearing:
with `Clear`, the segments of a chunk come in the order of their words (`NextSegment`,
`NextWord`), a word that the cut parts is beyond it (`CutOffBeyond`) and whole in the next
chunk, a word behind the last one kept is neither before `keptUntil` nor clamped to nothing
(`NextIsNew`), and one heard again is before it or is taken for the last one (`AgainIsOld`).
`KeepInv` then keeps two numbers: `p`, the last word looked at in this chunk, and `m`, the
last word kept in any. `Remembered` says that `lastWord` and `keptUntil` are those of word
`m` in a chunk that has it whole; `Expected`, that word `m + 1` begins in this chunk, and
lies beyond its cut once the merge has gone past it; `KeptWords`, that `kept` has
consecutive words up to `m`, and all of the segment unless a cut is marked; `Collected`, that
the texts of the merged segments, and their words, are exactly the words before those. None
of the four is inductive alone: `headCut` and `tailCut` are right only because of where `p`
and `m` stand to each other, and which word is next is right only because of what was heard
before the cut. The transcript is a concatenation over all segments; that appending a
segment appends its words, and joining one extends the last, is shown by a least
counterexample (`FlattenedUnique`, `FlattenAppend`, `FlattenJoin`).

`SegmentsCoverFile` (`Spec => []FallbackGap`). `GapInv` says how far what is kept may lag
behind the first `n` tiles of chunk `i`, which have been looked at: less than half a tile and
two frames (`Near`), or the last tile is beyond the cut and what is kept reaches the next
chunk's begin but for that much (`PastCut`); and what is merged so far has no larger hole
(`Seamless`). A tile that is dropped because its centre lies before `keptUntil` reaches no
further than half its length behind it (`MergeSegmentGap`). A tile beyond the cut ends in
this chunk, so it begins in the next one: what is kept lacks no more of the next chunk's
begin than it lacked before that tile (`NextChunkGap`).

### Only model-checked

`FailedIsDeadLettered` and `TrackedOnce` beyond the hypotheses of their theorems, where they
are false, and all liveness (`EveryJobFinishes`, `FailureIsRaised`, `RunEnds`), which is out
of the prover's reach. Every invariant and every action property of a passing run has its
theorem.

## 5. Not modelled

- ffmpeg, ffprobe, the speech model, HTTP parsing and formatting: external or without
  state. Their failures are in the models, and what an engine may hear is an input of
  `ChunkMerge`.
- The word timings of `MockEngine`, a test double; its segments are modelled.
- The vote on the language and the duration in `merge_chunk_results`: no other part of the
  result depends on them.
- The `.part` file that a crash inside `storage.save` leaves: its name is in no row and
  nothing reads it. `os.replace` makes an upload appear whole, which is how
  `TranscriptionService` has it. The key check of the storage and the checks of the upload
  before its first write (extension, size) are pure.
- API key comparison, settings, logging, schemas, error answers, health: no state that
  decides anything. The validation of the settings gives the assumptions on the constants.
- Loss of power (no fsync in the code), several processes on one database.

## 6. Plan

Done: the job service and its life cycle, transcripts, limiter, listing, pipeline with
its engine, plan and merge, and the proofs of section 4: of the properties that passing
runs check, all but those named under "Only model-checked". What would come next:

1. Words that are said twice: what an engine must keep of their timings for both to be kept
   (`RepeatsKeptOnce` is false in general), as a property beside `WordsKeptOnce`.
2. The audio file that an upload leaves when it dies before its row is written
   (`routes.py:66`), the one hazard of `PROJECT.json` without a property.
