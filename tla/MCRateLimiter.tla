---------------------------- MODULE MCRateLimiter ----------------------------
(* Instances of RateLimiter for TLC: calls are alike.                       *)
EXTENDS RateLimiter, TLC

Alike == Permutations(Calls)
=============================================================================
