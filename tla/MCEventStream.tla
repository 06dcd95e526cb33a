--------------------------- MODULE MCEventStream ---------------------------
(* TLC instances of EventStream.                                            *)
EXTENDS EventStream

CONSTANTS p1, p2
=============================================================================
