---- MODULE MCRateLimiter ----
(* RateLimiter with few threads, keys and ticks. *)
EXTENDS RateLimiter, TLC

ThreadSymmetry == Permutations(Threads)
====
