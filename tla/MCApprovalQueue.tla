-------------------------- MODULE MCApprovalQueue --------------------------
(***************************************************************************)
(* ApprovalQueue for TLC: the symmetry of its sets of handlers and tools.  *)
(***************************************************************************)
EXTENDS ApprovalQueue, TLC

Symmetry == Permutations(Calls) \cup Permutations(Admins)
              \cup Permutations(Pollers) \cup Permutations(Tools)
=============================================================================
