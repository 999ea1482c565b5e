------------------------- MODULE MCProviderProcess -------------------------
(* One provider with at most one child of its own.                         *)
EXTENDS ProviderProcess

CONSTANTS child, grandchild
=============================================================================
