---- MODULE MCJobListing ----
(* JobListing with a few jobs of two callers. *)
EXTENDS JobListing

JobSymmetry == Permutations(Jobs)

\* What happens after the walk is of no interest to it.
Walking == offset # Done
====
