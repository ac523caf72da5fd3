------------------------ MODULE MCIdpProvisioning ------------------------
(* Two creations and a deletion, at either provider, on an API that has    *)
(* one of the two scopes declared.                                         *)
EXTENDS IdpProvisioning

CONSTANTS a1, a2, d1, read, write
=============================================================================
