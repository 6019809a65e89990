---- MODULE MCTranscriptionService ----
(* TranscriptionService on small sets of jobs and workers. *)
EXTENDS TranscriptionService, TLC

\* Ids and workers are interchangeable; not used where liveness is checked.
JobAndWorkerSymmetry == Permutations(Jobs) \cup Permutations(Workers)
====
