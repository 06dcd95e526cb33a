------------------------- MODULE MCThreadApprovals -------------------------
(* TLC instances of ThreadApprovals.                                        *)
EXTENDS ThreadApprovals

CONSTANTS p
=============================================================================
