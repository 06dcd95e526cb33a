-------------------------- MODULE MCNoticeDelivery --------------------------
(* TLC instances of NoticeDelivery: a chain of three threads, or its first  *)
(* two.                                                                     *)
EXTENDS NoticeDelivery

CONSTANTS top, mid, leaf

ChainParent == (mid :> top) @@ (leaf :> mid) @@ (top :> NoThread)

Nothing ==
    [threads |-> {top, mid}, native |-> {}, background |-> {}, tasks |-> 1,
     asks |-> 0, failures |-> 0, crashes |-> 0, stops |-> 0, returns |-> 0]

\* A chain with a native middle, a failed turn or save, a returned steer and a crash.
Chain ==
    [Nothing EXCEPT !.threads = Threads, !.native = {mid}, !.tasks = 2,
                    !.failures = 1, !.crashes = 1, !.returns = 1]

\* A native parent, a subagent with background work, a person's message and a Stop.
Stopped == [Nothing EXCEPT !.native = {top}, !.background = {mid}, !.asks = 1, !.stops = 1]

SafetySetups == {Chain, Stopped}

\* A person's message, a failure and a crash.
Restarted == [Nothing EXCEPT !.asks = 1, !.failures = 1, !.crashes = 1]

\* A chain with a native middle, background work and failures enough to exhaust a delivery.
Exhausted ==
    [Nothing EXCEPT !.threads = Threads, !.native = {mid}, !.background = {leaf}, !.tasks = 2,
                    !.failures = 2]

LivenessSetups == {Restarted, Exhausted}

\* A notice to a native parent and a crash.
LateNotice == {[Nothing EXCEPT !.native = {top}, !.crashes = 1]}

\* A person's message and a failure, or a crash.
Overtaken == {[Nothing EXCEPT !.asks = 1, !.failures = 1]}
Crashed == {[Nothing EXCEPT !.asks = 1, !.crashes = 1]}
=============================================================================
