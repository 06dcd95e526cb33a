-------------------------- MODULE MCEffectOutbox --------------------------
(* TLC instances of EffectOutbox: two fibres of one group beside one of    *)
(* each other group, or two fibres of timers alone.                         *)
EXTENDS EffectOutbox, TLC

CONSTANTS t1, t2, f1, f2, f3, f4

AllFibres == (f1 :> "turn") @@ (f2 :> "turn") @@ (f3 :> "replaySafe") @@ (f4 :> "control")
ResumeFibres == (f1 :> "replaySafe") @@ (f2 :> "replaySafe")
=============================================================================
