--------------------------- MODULE MCRateLimiter ---------------------------
(* One client's requests on two instances: two more than the limit, over a *)
(* window and a tick.                                                      *)
EXTENDS RateLimiter, TLC

CONSTANTS i1, i2, r1, r2, r3, r4

Symmetric == Permutations(Instances) \cup Permutations(Requests)
=============================================================================
