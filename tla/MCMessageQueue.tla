--------------------------- MODULE MCMessageQueue ---------------------------
(* TLC instances of MessageQueue.                                           *)
EXTENDS MessageQueue

CONSTANTS m1, m2, m3

\* Agents' commands, starts that fail and starts that are refused, over a crash.
Commanded == [may |-> {"now", "later", "enqueue", "edit", "remove", "fail", "refuse"}, crashes |-> 1]

\* Promotions by persons and agents, texts a provider hands back, Stops.
Promoting == [may |-> {"now", "later", "promote", "person promotes", "person removes", "return", "stop"},
              crashes |-> 0]

\* Promotions by agents over a crash, on a thread that agents feed.
Cut == [may |-> {"enqueue", "edit", "promote", "stop"}, crashes |-> 1]

\* A person's messages and promotions over a crash.
CutOff == [may |-> {"now", "later", "person promotes"}, crashes |-> 1]

\* A person's direct messages over a crash.
Direct == [may |-> {"now"}, crashes |-> 1]

\* A person promotes what is already steering.
Twice == [may |-> {"now", "later", "person promotes", "promote twice"}, crashes |-> 0]

All == {Commanded, Promoting, Cut}
OnlyCutOff == {CutOff}
OnlyDirect == {Direct}
OnlyTwice == {Twice}
OnlyPromoting == {Promoting}
=============================================================================
