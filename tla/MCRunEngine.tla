---------------------------- MODULE MCRunEngine ----------------------------
(* Small instances of RunEngine.                                            *)
EXTENDS RunEngine

CONSTANTS t1, t2

\* One thread alone.
Alone == [t \in {t1} |-> {t1}]

\* t2 is a subagent of t1.
Family == [t \in {t1, t2} |-> IF t = t1 THEN {t1, t2} ELSE {t2}]
=============================================================================
