----------------------------- MODULE MCAuditLog -----------------------------
(* Two batches, of two rows and of one, two instances, and room for two    *)
(* rows in the store.  Rows x1 and x3 have the same time, tool and source. *)
EXTENDS AuditLog

CONSTANTS i1, i2, b1, b2, x1, x2, x3

MCRowsOf == (b1 :> <<x1, x2>>) @@ (b2 :> <<x3>>)

MCKeyOf == (x1 :> 1) @@ (x2 :> 2) @@ (x3 :> 1)

Symmetric == Permutations(Instances)
=============================================================================
