--------------------------- MODULE MCProviderCache ---------------------------
(***************************************************************************)
(* Small instances of ProviderCache.                                       *)
(***************************************************************************)
EXTENDS ProviderCache

CONSTANTS p1, p2

TwoPayloads == {p1, p2}
==============================================================================
