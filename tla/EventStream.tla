---------------------------- MODULE EventStream ----------------------------
(***************************************************************************)
(* The events of a daemon on their way to a window: the rings and the      *)
(* subscribe handshake of src/mms/protocol/server.ts, the cursor of        *)
(* protocol/client.ts, and the connections of main/mms/GuiMmsController.ts *)
(* with their profile switches, reloads and reconnections.  A connection   *)
(* is a socket: frames arrive in order, and are lost when it closes.       *)
(***************************************************************************)
EXTENDS Naturals, Sequences

CONSTANTS
    Profiles,
    Default,        \* the profile of the installation
    RingSize,       \* MMS_PROTOCOL_REPLAY_RING_SIZE
    MaxEvents,      \* bounds: events of a profile,
    MaxConnects,    \* connections,
    MaxSwitches     \* profile switches of a connection

ASSUME StreamAssumption ==
    /\ Default \in Profiles
    /\ RingSize \in Nat \ {0}

VARIABLES
    seq,            \* [Profiles -> Nat]: the sequence of each audience ring
    total,          \* the sequence of the server's own ring
    session,        \* the server's ClientSession
    requests,       \* frames to the server, in order
    wire,           \* frames to the client, in order
    client,         \* the LocalMmsClient and the window's session
    connects,       \* connections made
    fromCursor      \* the base connection subscribes from its cursor, a window from 0

vars == <<seq, total, session, requests, wire, client, connects, fromCursor>>

Larger(a, b) == IF a < b THEN b ELSE a

NewSession == [state |-> "none", audience |-> Default]

\* since, seen and late are history: where the window's view began, the events it was
\* handed, and whether a live one came when it already had it or a newer one.
NewClient ==
    [phase |-> "away", cursor |-> 0, reload |-> FALSE, asked |-> FALSE, loading |-> FALSE,
     inFlight |-> 0, held |-> <<>>, answered |-> <<>>, switches |-> 0,
     since |-> 0, seen |-> {}, loaded |-> [p \in Profiles |-> 0], late |-> FALSE]

Init ==
    /\ seq = [p \in Profiles |-> 0]
    /\ total = 0
    /\ session = NewSession
    /\ requests = <<>>
    /\ wire = <<>>
    /\ client = NewClient
    /\ connects = 0
    /\ fromCursor \in BOOLEAN

Up == client.phase # "away"
Event(p, n) == [type |-> "event", profile |-> p, n |-> n]

-----------------------------------------------------------------------------
(* The server.                                                               *)

\* broadcastEvent: only an active subscriber of the audience is sent the event.
Delivered(p) ==
    IF session.state = "active" /\ session.audience = p
    THEN Append(wire, Event(p, seq[p] + 1)) ELSE wire

\* An event of a profile: both rings count it, its audience's ring delivers it.
Push(p) ==
    /\ seq[p] < MaxEvents
    /\ seq' = [seq EXCEPT ![p] = @ + 1]
    /\ total' = total + 1
    /\ wire' = Delivered(p)
    /\ UNCHANGED <<session, requests, client, connects, fromCursor>>

\* An event of the installation goes to every audience.
PushAll ==
    /\ \A p \in Profiles : seq[p] < MaxEvents
    /\ seq' = [p \in Profiles |-> seq[p] + 1]
    /\ total' = total + 1
    /\ wire' = Delivered(session.audience)
    /\ UNCHANGED <<session, requests, client, connects, fromCursor>>

\* profiles.bind pauses the delivery until the next subscribe.
ServeBind ==
    /\ requests # <<>> /\ Head(requests).type = "bind"
    /\ session' = [state |-> "none", audience |-> Head(requests).profile]
    /\ wire' = Append(wire, [type |-> "bound", profile |-> Head(requests).profile])
    /\ requests' = Tail(requests)
    /\ UNCHANGED <<seq, total, client, connects, fromCursor>>

Oldest(p) == IF seq[p] > RingSize THEN seq[p] - RingSize + 1 ELSE 1

\* Bug: the event before the oldest one is not missed.
BugReplayAfter(p, after) ==
    [gap |-> seq[p] > 0 /\ after + 1 < Oldest(p) - 1, from |-> Larger(Oldest(p), after + 1)]

\* replayAfter: whether events are missing, and the first one of the replay.
ReplayAfter(p, after) ==
    [gap |-> seq[p] > 0 /\ after < Oldest(p) - 1, from |-> Larger(Oldest(p), after + 1)]

\* handleSubscribe is synchronous: its buffer for live events stays empty.  A replay
\* past the byte budget is withheld.
ServeSubscribe ==
    /\ requests # <<>> /\ Head(requests).type = "subscribe"
    /\ LET p == session.audience
           replay == ReplayAfter(p, Head(requests).after)
           Answer(gap, from) ==
              [type |-> "subscribed", profile |-> p, boundary |-> seq[p], gap |-> gap, from |-> from]
       IN \/ wire' = Append(wire, Answer(replay.gap, replay.from))
          \/ /\ replay.from <= seq[p]
             /\ wire' = Append(wire, Answer(TRUE, seq[p] + 1))
    /\ session' = [session EXCEPT !.state = "active"]
    /\ requests' = Tail(requests)
    /\ UNCHANGED <<seq, total, client, connects, fromCursor>>

\* thread.snapshot reads the profile's state at once.
ServeSnapshot ==
    /\ requests # <<>> /\ Head(requests).type = "snapshot"
    /\ wire' = Append(wire, [type |-> "snapshot", profile |-> session.audience, n |-> seq[session.audience]])
    /\ requests' = Tail(requests)
    /\ UNCHANGED <<seq, total, session, client, connects, fromCursor>>

-----------------------------------------------------------------------------
(* The client.                                                               *)

\* connect: the server answers the hello with the sequence of its own ring.
Connect ==
    /\ ~Up /\ connects < MaxConnects
    /\ connects' = connects + 1
    /\ session' = NewSession
    /\ wire' = <<[type |-> "hello", sequence |-> total]>>
    /\ client' = [NewClient EXCEPT !.phase = "connecting",
                                   !.since = IF fromCursor THEN seq[Default] ELSE 0,
                                   !.asked = fromCursor /\ connects > 0]
    /\ UNCHANGED <<seq, total, requests, fromCursor>>

\* A frame that waits at the head of the socket.
Arrives(type) == wire # <<>> /\ Head(wire).type = type /\ wire' = Tail(wire)

\* connectOnce, openWindowSession: the cursor starts at the hello's sequence.
HelloArrives ==
    /\ Arrives("hello")
    /\ client' = [client EXCEPT !.cursor = Head(wire).sequence, !.phase = "binding"]
    /\ requests' = Append(requests, [type |-> "bind", profile |-> Default])
    /\ UNCHANGED <<seq, total, session, connects, fromCursor>>

\* Bound, the connection subscribes; events are held until the answer is through.
BoundArrives ==
    /\ Arrives("bound")
    /\ client' = [client EXCEPT !.inFlight = @ + 1, !.phase = "subscribing"]
    /\ requests' = Append(requests,
          [type |-> "subscribe", after |-> IF fromCursor THEN client.cursor ELSE 0])
    /\ UNCHANGED <<seq, total, session, connects, fromCursor>>

\* deliverEvent
Handed(c, e, replayed) ==
    LET jumped == c.cursor > 0 /\ e.n > c.cursor + 1
        stale == e.n < c.cursor /\ ~replayed
        had == \E s \in c.seen : s[1] = e.profile /\ s[2] >= e.n
    IN [c EXCEPT !.reload = @ \/ jumped,
                 !.cursor = Larger(@, e.n),
                 !.seen = IF stale THEN @ ELSE @ \cup {<<e.profile, e.n>>},
                 !.asked = @ \/ (~stale /\ (c.reload \/ jumped)),
                 !.late = @ \/ (~stale /\ ~replayed /\ had)]

\* Bug: held events are handed over whether or not the replay had them.
BugPastBoundary(e, answer) == TRUE

\* A held event that the replay has already brought is dropped.
PastBoundary(e, answer) == e.n > answer.boundary

\* The events of a replay, or those that were held meanwhile, one after the other.
HandedAll(c, events, answer, replayed) ==
    LET after[i \in 0 .. Len(events)] ==
            IF i = 0 THEN c
            ELSE IF replayed \/ PastBoundary(events[i], answer)
                 THEN Handed(after[i - 1], events[i], replayed) ELSE after[i - 1]
    IN after[Len(events)]

\* handleEnvelope: an event is handed over, or held while a subscribe is in flight.
EventArrives ==
    /\ Arrives("event")
    /\ client' = IF client.inFlight > 0
                 THEN [client EXCEPT !.held = Append(@, Head(wire))]
                 ELSE Handed(client, Head(wire), FALSE)
    /\ UNCHANGED <<seq, total, session, requests, connects, fromCursor>>

\* The promise of the subscribe resolves; its continuation is a microtask, and the
\* frames that came with the answer are handled before it.
SubscribedArrives ==
    /\ Arrives("subscribed")
    /\ client' = [client EXCEPT !.answered = Append(@, Head(wire))]
    /\ UNCHANGED <<seq, total, session, requests, connects, fromCursor>>

\* Bug: the subscribe stays in flight.
BugInFlight(c) == c.inFlight

\* finally
InFlight(c) == c.inFlight - 1

\* The rest of subscribe: the replay, the cursor, then the live events that were held.
Replay(answer) ==
    IF answer.from > answer.boundary THEN <<>>
    ELSE [i \in 1 .. answer.boundary + 1 - answer.from |-> Event(answer.profile, answer.from + i - 1)]

Subscribed ==
    /\ client.answered # <<>>
    /\ LET answer == Head(client.answered)
           replayed == HandedAll([client EXCEPT !.reload = @ \/ answer.gap,
                                                !.answered = Tail(@),
                                                !.held = <<>>], Replay(answer), answer, TRUE)
           caughtUp == [replayed EXCEPT !.cursor = Larger(@, answer.boundary)]
           flushed == HandedAll(caughtUp, client.held, answer, FALSE)
       IN client' = [flushed EXCEPT !.inFlight = InFlight(client), !.phase = "ready",
                                    !.asked = @ \/ (fromCursor /\ flushed.reload)]
    /\ UNCHANGED <<seq, total, session, requests, wire, connects, fromCursor>>

\* A window goes to another profile; switches may overlap.
Switch(p) ==
    /\ client.phase = "ready" /\ ~fromCursor /\ client.switches < MaxSwitches
    /\ client' = [client EXCEPT !.switches = @ + 1]
    /\ requests' = Append(requests, [type |-> "bind", profile |-> p])
    /\ UNCHANGED <<seq, total, session, wire, connects, fromCursor>>

\* snapshotThreadForSender clears the flag and asks for the state as it is.
Reload ==
    /\ client.phase = "ready" /\ client.asked /\ ~client.loading
    /\ client' = [client EXCEPT !.asked = FALSE, !.reload = FALSE, !.loading = TRUE]
    /\ requests' = Append(requests, [type |-> "snapshot"])
    /\ UNCHANGED <<seq, total, session, wire, connects, fromCursor>>

SnapshotArrives ==
    /\ Arrives("snapshot")
    /\ client' = [client EXCEPT !.loading = FALSE,
                                !.loaded[Head(wire).profile] = Larger(@, Head(wire).n)]
    /\ UNCHANGED <<seq, total, session, requests, connects, fromCursor>>

\* Either side closes the connection; the controller makes a new client.
Disconnect ==
    /\ Up
    /\ session' = NewSession
    /\ requests' = <<>> /\ wire' = <<>>
    /\ client' = NewClient
    /\ UNCHANGED <<seq, total, connects, fromCursor>>

\* The daemon restarts: its rings begin again.
Restart ==
    /\ connects < MaxConnects
    /\ seq' = [p \in Profiles |-> 0] /\ total' = 0
    /\ session' = NewSession
    /\ requests' = <<>> /\ wire' = <<>>
    /\ client' = NewClient
    /\ UNCHANGED <<connects, fromCursor>>

Serve == ServeBind \/ ServeSubscribe \/ ServeSnapshot

Receive == HelloArrives \/ BoundArrives \/ EventArrives \/ SubscribedArrives \/ SnapshotArrives

Next ==
    \/ \E p \in Profiles : Push(p) \/ Switch(p)
    \/ PushAll \/ Serve \/ Connect \/ Receive \/ Subscribed \/ Reload \/ Disconnect \/ Restart

Spec == Init /\ [][Next]_vars

(* A connection that stays up carries its frames, the server handles them,  *)
(* and microtasks run.                                                      *)
FairSpec == Spec /\ WF_vars(Serve) /\ WF_vars(Receive) /\ WF_vars(Subscribed)

-----------------------------------------------------------------------------
(* Properties.                                                               *)

Answers == {"hello", "bound", "subscribed", "snapshot"}

\* The variables keep their types.
TypeOK ==
    /\ seq \in [Profiles -> Nat] /\ total \in Nat /\ connects \in Nat
    /\ session \in [state : {"none", "active"}, audience : Profiles]
    /\ \A i \in 1 .. Len(wire) : wire[i].type \in Answers \cup {"event"}
    /\ client.phase \in {"away", "connecting", "binding", "subscribing", "ready"}
    /\ client.cursor \in Nat /\ client.inFlight \in Nat
    /\ client.reload \in BOOLEAN /\ client.asked \in BOOLEAN /\ client.loading \in BOOLEAN
    /\ \A i \in 1 .. Len(client.held) : client.held[i].type = "event"

Coming(p, n) ==
    \/ \E i \in 1 .. Len(wire) : wire[i] = Event(p, n)
    \/ \E i \in 1 .. Len(client.held) : client.held[i] = Event(p, n)

\* The window is subscribed, and none of its requests that would change this is under way.
Settled ==
    /\ client.phase = "ready" /\ session.state = "active"
    /\ client.inFlight = 0 /\ requests = <<>>
    /\ \A i \in 1 .. Len(wire) : wire[i].type \in {"event", "snapshot"}

\* Every event of the window's profile has been handed to it, is covered by a snapshot
\* or on its way to it, or the window knows that it must reload: no event is lost in
\* silence, through the ring's bound, the replay's budget, switches, reloads, lost
\* connections and restarts.
NoSilentGap ==
    Settled =>
       \/ client.reload \/ client.loading
       \/ \A n \in 1 .. seq[session.audience] :
             \/ n <= client.since \/ n <= client.loaded[session.audience]
             \/ <<session.audience, n>> \in client.seen
             \/ Coming(session.audience, n)

\* A live event is handed over once, and never after a newer one: a late one would
\* overwrite what the window shows.
LiveInOrder == ~client.late

\* An event that was sent is shown or asked for again, unless the connection closes.
SentIsShown ==
    \A p \in Profiles : \A n \in 1 .. MaxEvents :
       (Up /\ Coming(p, n)) ~> (~Up \/ <<p, n>> \in client.seen \/ client.reload \/ client.loading)
=============================================================================
