---- MODULE VersionLog ----
(***************************************************************************)
(* What the transcripts of a job promise their readers: a log of versions. *)
(* A save adds one version at the end, and no version ever changes.        *)
(***************************************************************************)
EXTENDS Sequences

CONSTANT Contents   \* what a transcript may say

VARIABLE log        \* log[v]: version v as a reader gets it

Init == log = <<>>

Save == \E c \in Contents : log' = Append(log, c)

Spec == Init /\ [][Save]_log
====
