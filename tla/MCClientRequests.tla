-------------------------- MODULE MCClientRequests --------------------------
(* A TLC instance of ClientRequests.                                        *)
EXTENDS ClientRequests

CONSTANTS r1, r2, w1, w2
=============================================================================
