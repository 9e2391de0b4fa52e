---------------------------- MODULE MCRateLimiter ----------------------------
(* Values for TLC: the requests are interchangeable.                       *)
EXTENDS RateLimiter, TLC

CallSymmetry == Permutations(Calls)

=============================================================================
