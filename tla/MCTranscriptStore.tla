---- MODULE MCTranscriptStore ----
(* TranscriptStore with a few attempts and polls. *)
EXTENDS TranscriptStore, TLC

ReaderSymmetry == Permutations(Readers)
====
