------------------------- MODULE MCAgentLifecycle -------------------------
(* One agent, two instances, and a request or two of each kind.            *)
EXTENDS AgentLifecycle, TLC

CONSTANTS a1, i1, i2, v1, v2, d1, d2, u1

Symmetric == Permutations(Instances) \cup Permutations(Revokes)
=============================================================================
