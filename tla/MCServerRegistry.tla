-------------------------- MODULE MCServerRegistry --------------------------
(* One seeded server and one to be added at run time, two registrations of *)
(* which one lacks its credential, two instances.                          *)
EXTENDS ServerRegistry, TLC

CONSTANTS seeded, added, c1, c2, i1, i2, w1, w2, k1

MCSeed == (seeded :> c1) @@ (added :> None)

Symmetric == Permutations(Writers) \cup Permutations(Instances)
=============================================================================
