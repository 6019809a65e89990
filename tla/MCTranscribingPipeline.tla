---- MODULE MCTranscribingPipeline ----
(* TranscribingPipeline with a few chunks. *)
EXTENDS TranscribingPipeline, TLC
====
