---------------------------- MODULE AbstractLock ----------------------------
(***************************************************************************)
(* What the callers of a mutex are promised: the calls for one key stand   *)
(* in a line, in the order in which they were made.  The first of the line *)
(* has the lock; it leaves when it is through, and any other may give up.  *)
(***************************************************************************)
EXTENDS Naturals, Sequences

CONSTANTS
    Calls,       \* calls of withLock
    Keys,
    KeyOf        \* [Calls -> Keys]

VARIABLE line    \* [Keys -> Seq(Calls)]

Stands(c) == \E i \in 1 .. Len(line[KeyOf[c]]) : line[KeyOf[c]][i] = c

Init == line = [k \in Keys |-> <<>>]

Ask(c) ==
    /\ ~Stands(c)
    /\ line' = [line EXCEPT ![KeyOf[c]] = Append(@, c)]

Leave(c) ==
    /\ line[KeyOf[c]] # <<>> /\ Head(line[KeyOf[c]]) = c
    /\ line' = [line EXCEPT ![KeyOf[c]] = Tail(@)]

\* A call that does not have the lock yet; the order of the others stays.
GiveUp(c) ==
    \E i \in 2 .. Len(line[KeyOf[c]]) :
       /\ line[KeyOf[c]][i] = c
       /\ line' = [line EXCEPT ![KeyOf[c]] =
             [j \in 1 .. Len(@) - 1 |-> IF j < i THEN @[j] ELSE @[j + 1]]]

Next == \E c \in Calls : Ask(c) \/ Leave(c) \/ GiveUp(c)

Spec == Init /\ [][Next]_line
=============================================================================
