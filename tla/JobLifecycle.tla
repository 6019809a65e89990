---- MODULE JobLifecycle ----
(***************************************************************************)
(* What the service promises of a transcription job, whatever the workers, *)
(* the queue and the restarts do: a job goes                               *)
(*    queued -> processing -> completed,                                   *)
(* a failed attempt goes through retrying back to processing, at most      *)
(* MaxRetries times, and completed and failed are final.  It is the        *)
(* specification that TranscriptionService implements.                     *)
(***************************************************************************)
EXTENDS Integers

CONSTANTS Jobs,       \* ids a job may get
          MaxRetries  \* retries allowed after the first attempt

VARIABLES state,      \* state[j]: what a poll of job j shows, "none" before it exists
          tries       \* tries[j]: how often a worker has started job j

vars == <<state, tries>>

Init == /\ state = [j \in Jobs |-> "none"]
        /\ tries = [j \in Jobs |-> 0]

Move(j, from, to) == /\ state[j] \in from
                     /\ state' = [state EXCEPT ![j] = to]

Accept(j) == Move(j, {"none"}, "queued") /\ UNCHANGED tries

Start(j) == /\ Move(j, {"queued", "retrying"}, "processing")
            /\ tries[j] <= MaxRetries
            /\ tries' = [tries EXCEPT ![j] = @ + 1]

Retry(j) == /\ Move(j, {"processing"}, "retrying")
            /\ tries[j] <= MaxRetries
            /\ UNCHANGED tries

Complete(j) == Move(j, {"processing"}, "completed") /\ UNCHANGED tries

Fail(j) == Move(j, {"processing"}, "failed") /\ UNCHANGED tries

Next == \E j \in Jobs : Accept(j) \/ Start(j) \/ Retry(j) \/ Complete(j) \/ Fail(j)

Spec == Init /\ [][Next]_vars
====
