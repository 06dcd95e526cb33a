---------------------------- MODULE ThreadMutex ----------------------------
(***************************************************************************)
(* The mutex of a profile's threads: withLock of src/mms/run/ThreadMutex.ts *)
(* with its waiters and their timeouts.  RunEngine takes it around every   *)
(* decision about a thread.  A call may be made inside the function of     *)
(* another one, which then waits for it: on a key of its own ancestors, or *)
(* on keys that two calls take in opposite order, only timeouts help.      *)
(***************************************************************************)
EXTENDS Naturals, Sequences

CONSTANTS
    Calls,       \* calls of withLock; each is made again and again
    Keys,        \* thread ids
    KeyOf,       \* [Calls -> Keys]
    Within,      \* [Calls -> Calls \cup {NoCall}]: whose function makes the call
    NoCall

ASSUME MutexAssumption ==
    /\ NoCall \notin Calls
    /\ KeyOf \in [Calls -> Keys]
    /\ Within \in [Calls -> Calls \cup {NoCall}]

VARIABLES
    locked,      \* keys with an entry
    waiters,     \* Entry.waiters, empty without an entry
    phase        \* where each call is

vars == <<locked, waiters, phase>>

\* "granted": the lock is the call's, its function is not called yet (a microtask).
Phases == {"idle", "waiting", "granted", "inside", "failed"}

Init ==
    /\ locked = {}
    /\ waiters = [k \in Keys |-> <<>>]
    /\ phase = [c \in Calls |-> "idle"]

-----------------------------------------------------------------------------
Owns(c) == phase[c] \in {"granted", "inside"}

\* The call is over, or was never made, and whoever makes it is at it.
Callable(c) ==
    /\ phase[c] \in {"idle", "failed"}
    /\ Within[c] # NoCall => phase[Within[c]] = "inside"

\* acquire: an entry makes the caller wait, whoever it belongs to.
Acquire(c) ==
    LET k == KeyOf[c] IN
    /\ Callable(c)
    /\ IF k \in locked
       THEN /\ waiters' = [waiters EXCEPT ![k] = Append(@, c)]
            /\ phase' = [phase EXCEPT ![c] = "waiting"]
            /\ locked' = locked
       ELSE /\ locked' = locked \cup {k}
            /\ phase' = [phase EXCEPT ![c] = "granted"]
            /\ waiters' = waiters

\* The acquired promise resolves and withLock calls its function.
Enter(c) ==
    /\ phase[c] = "granted"
    /\ phase' = [phase EXCEPT ![c] = "inside"]
    /\ UNCHANGED <<locked, waiters>>

\* Bug: the newest waiter is woken (pop for shift).
BugNewest(c) ==
    LET k == KeyOf[c] IN
    IF waiters[k] = <<>>
    THEN /\ locked' = locked \ {k}
         /\ phase' = [phase EXCEPT ![c] = "idle"]
         /\ waiters' = waiters
    ELSE /\ phase' = [phase EXCEPT ![c] = "idle", ![waiters[k][Len(waiters[k])]] = "granted"]
         /\ waiters' = [waiters EXCEPT ![k] = SubSeq(@, 1, Len(@) - 1)]
         /\ locked' = locked

\* release: the lock goes straight to the waiter that came first.
Released(c) ==
    LET k == KeyOf[c] IN
    IF waiters[k] = <<>>
    THEN /\ locked' = locked \ {k}
         /\ phase' = [phase EXCEPT ![c] = "idle"]
         /\ waiters' = waiters
    ELSE /\ phase' = [phase EXCEPT ![c] = "idle", ![Head(waiters[k])] = "granted"]
         /\ waiters' = [waiters EXCEPT ![k] = Tail(@)]
         /\ locked' = locked

\* The function returned or threw; it had awaited the calls it made.
Leave(c) ==
    /\ phase[c] = "inside"
    /\ \A d \in Calls : Within[d] = c => phase[d] \in {"idle", "failed"}
    /\ Released(c)

\* waiters.splice(i, 1)
Spliced(w, i) == [j \in 1 .. Len(w) - 1 |-> IF j < i THEN w[j] ELSE w[j + 1]]

\* Bug: a call that waits for its own ancestor is waited for.
BugTimedOut(c) == phase[c] = "waiting" /\ ~(Within[c] # NoCall /\ Owns(Within[c]))

\* A waiting call's timer is running; the wake-up clears it.
TimedOut(c) == phase[c] = "waiting"

\* The timer of acquire fires first.
Timeout(c) ==
    /\ TimedOut(c)
    /\ phase' = [phase EXCEPT ![c] = "failed"]
    /\ \E i \in 1 .. Len(waiters[KeyOf[c]]) :
          /\ waiters[KeyOf[c]][i] = c
          /\ waiters' = [waiters EXCEPT ![KeyOf[c]] = Spliced(@, i)]
    /\ UNCHANGED locked

Next == \E c \in Calls : Acquire(c) \/ Enter(c) \/ Leave(c) \/ Timeout(c)

Spec == Init /\ [][Next]_vars

(* Timers fire and microtasks run.  Nothing is assumed of the functions:    *)
(* one may never return.                                                     *)
FairSpec == Spec /\ \A c \in Calls : WF_vars(Enter(c)) /\ WF_vars(Timeout(c))

-----------------------------------------------------------------------------
(* Properties.                                                               *)

\* The variables keep their types.
TypeOK ==
    /\ locked \subseteq Keys
    /\ waiters \in [Keys -> Seq(Calls)]
    /\ phase \in [Calls -> Phases]

\* At most one call of a key has the lock, across wake-ups, timeouts, functions
\* that throw and calls that come in between a release and the woken call's turn.
MutualExclusion ==
    \A c, d \in Calls : Owns(c) /\ Owns(d) /\ KeyOf[c] = KeyOf[d] => c = d

\* An entry has an owner that will release it, and its line holds exactly the
\* calls that wait: a lock handed to a call that has given up would be lost.
LockIsOwned ==
    /\ \A k \in locked : \E c \in Calls : KeyOf[c] = k /\ Owns(c)
    /\ \A c \in Calls : Owns(c) => KeyOf[c] \in locked
    /\ \A k \in Keys : k \notin locked => waiters[k] = <<>>
    /\ \A k \in Keys : \A i \in 1 .. Len(waiters[k]) :
          KeyOf[waiters[k][i]] = k /\ phase[waiters[k][i]] = "waiting"

\* A call settles even if the function ahead of it never returns, waits for the
\* call itself, or two calls hold what the other one waits for.
EveryCallSettles == \A c \in Calls : phase[c] = "waiting" ~> phase[c] # "waiting"

\* The line of a key: the call that has the lock, and those that wait.
LineOf(k) ==
    IF \E c \in Calls : KeyOf[c] = k /\ Owns(c)
    THEN <<CHOOSE c \in Calls : KeyOf[c] = k /\ Owns(c)>> \o waiters[k]
    ELSE waiters[k]

Lock == INSTANCE AbstractLock WITH line <- [k \in Keys |-> LineOf(k)]

\* The calls of a key stand in one line in the order they were made, and nobody
\* overtakes: the mutex implements the abstract lock.
IsALock == Lock!Spec
=============================================================================
