------------------------- MODULE EventStreamProofs -------------------------
(***************************************************************************)
(* The events of a connection come live, once and in order, for every      *)
(* number of profiles, events, connections and switches; and with a single *)
(* profile none is lost in silence.                                        *)
(***************************************************************************)
EXTENDS EventStream, SequenceTheorems, FiniteSetTheorems, FunctionTheorems, WellFoundedInduction, TLAPS

-----------------------------------------------------------------------------
(* Induction along a sequence, from the well-founded order of the naturals.  *)

LEMMA Least ==
  ASSUME NEW S \in SUBSET Nat, S # {}
  PROVE  \E n \in S : \A m \in S : n <= m
<1>1. PICK x \in S : \A y \in S : ~(<<y, x>> \in OpToRel(<, Nat))
  BY NatLessThanWellFounded, WFMin
<1>2. \A y \in S : y \in Nat /\ x \in Nat /\ ~(y < x)
  BY <1>1 DEF OpToRel
<1> QED
  BY <1>2, SMT

\* A set with 0 that has each number after one it has.
LEMMA UpTo ==
  ASSUME NEW n \in Nat, NEW S, 0 \in S, \A k \in 1 .. n : k - 1 \in S => k \in S
  PROVE  \A k \in 0 .. n : k \in S
<1> DEFINE B == {k \in 0 .. n : k \notin S}
<1>1. CASE B # {}
  <2>1. B \in SUBSET Nat
    OBVIOUS
  <2>2. PICK b \in B : \A m \in B : b <= m
    BY <1>1, <2>1, Least
  <2>3. b \in 1 .. n /\ b - 1 \in 0 .. n /\ b - 1 < b
    BY <2>2
  <2>4. b - 1 \in S
    BY <2>2, <2>3
  <2> QED
    BY <2>2, <2>3, <2>4
<1> QED
  BY <1>1

-----------------------------------------------------------------------------
(* Types.                                                                    *)

EventFrame == [type : {"event"}, profile : Profiles, n : Nat]
HelloFrame == [type : {"hello"}, sequence : Nat]
BoundFrame == [type : {"bound"}, profile : Profiles]
AnswerFrame == [type : {"subscribed"}, profile : Profiles, boundary : Nat, gap : BOOLEAN, from : Nat]
SnapshotFrame == [type : {"snapshot"}, profile : Profiles, n : Nat]
Frame == EventFrame \cup HelloFrame \cup BoundFrame \cup AnswerFrame \cup SnapshotFrame

BindRequest == [type : {"bind"}, profile : Profiles]
SubscribeRequest == [type : {"subscribe"}, after : Nat]
SnapshotRequest == [type : {"snapshot"}]
Request == BindRequest \cup SubscribeRequest \cup SnapshotRequest

Phase == {"away", "connecting", "binding", "subscribing", "ready"}

Client ==
    [phase : Phase, cursor : Nat, reload : BOOLEAN, asked : BOOLEAN, loading : BOOLEAN,
     inFlight : Int, held : Seq(EventFrame), answered : Seq(AnswerFrame), switches : Nat,
     since : Nat, seen : SUBSET (Profiles \X Nat), loaded : [Profiles -> Nat], late : BOOLEAN]

Typed ==
    /\ seq \in [Profiles -> Nat] /\ total \in Nat /\ connects \in Nat /\ fromCursor \in BOOLEAN
    /\ session \in [state : {"none", "active"}, audience : Profiles]
    /\ requests \in Seq(Request)
    /\ wire \in Seq(Frame)
    /\ client \in Client

LEMMA Kinds ==
  /\ \A x \in Frame : /\ x.type = "event" => x \in EventFrame
                      /\ x.type = "hello" => x \in HelloFrame
                      /\ x.type = "bound" => x \in BoundFrame
                      /\ x.type = "subscribed" => x \in AnswerFrame
                      /\ x.type = "snapshot" => x \in SnapshotFrame
  /\ \A x \in Request : /\ x.type = "bind" => x \in BindRequest
                        /\ x.type = "subscribe" => x \in SubscribeRequest
                        /\ x.type = "snapshot" => x \in SnapshotRequest
  BY DEF Frame, EventFrame, HelloFrame, BoundFrame, AnswerFrame, SnapshotFrame,
         Request, BindRequest, SubscribeRequest, SnapshotRequest

-----------------------------------------------------------------------------
(* The events handed to a client.                                            *)

\* What a hand-over leaves alone.
Beside(c, d) ==
    /\ d.phase = c.phase /\ d.loading = c.loading /\ d.inFlight = c.inFlight /\ d.held = c.held
    /\ d.answered = c.answered /\ d.switches = c.switches /\ d.since = c.since /\ d.loaded = c.loaded

Stale(c, e, replayed) == e.n < c.cursor /\ ~replayed

LEMMA HandedFacts ==
  ASSUME NEW c \in Client, NEW e \in EventFrame, NEW replayed \in BOOLEAN
  PROVE  LET d == Handed(c, e, replayed) IN
         /\ d \in Client /\ Beside(c, d)
         /\ d.reload = (c.reload \/ (c.cursor > 0 /\ e.n > c.cursor + 1))
         /\ d.cursor = Larger(c.cursor, e.n)
         /\ d.seen = IF Stale(c, e, replayed) THEN c.seen ELSE c.seen \cup {<<e.profile, e.n>>}
         /\ d.late = (c.late \/ (/\ ~Stale(c, e, replayed) /\ ~replayed
                                 /\ \E s \in c.seen : s[1] = e.profile /\ s[2] >= e.n))
<1> DEFINE jumped == c.cursor > 0 /\ e.n > c.cursor + 1
           stale == Stale(c, e, replayed)
           had == \E s \in c.seen : s[1] = e.profile /\ s[2] >= e.n
           r == c.reload \/ jumped
           u == Larger(c.cursor, e.n)
           s == IF stale THEN c.seen ELSE c.seen \cup {<<e.profile, e.n>>}
           a == c.asked \/ (~stale /\ (c.reload \/ jumped))
           l == c.late \/ (~stale /\ ~replayed /\ had)
           d == [c EXCEPT !.reload = r, !.cursor = u, !.seen = s, !.asked = a, !.late = l]
<1>1. Handed(c, e, replayed) = d
  BY DEF Handed, Stale
<1>2. r \in BOOLEAN /\ a \in BOOLEAN /\ l \in BOOLEAN
  BY DEF Client
<1>3. u \in Nat
  BY DEF Client, EventFrame, Larger
<1>4. s \in SUBSET (Profiles \X Nat)
  BY DEF Client, EventFrame
<1> HIDE DEF r, u, s, a, l
<1>5. d \in Client
  BY <1>2, <1>3, <1>4 DEF Client
<1>6. Beside(c, d) /\ d.reload = r /\ d.cursor = u /\ d.seen = s /\ d.late = l
  BY DEF Client, Beside
<1> QED
  BY <1>1, <1>5, <1>6 DEF r, u, s, l

\* The clients after each event of a sequence.
Steps(g, n, c, events, answer, replayed) ==
    g = [i \in 0 .. n |->
           IF i = 0 THEN c
           ELSE IF replayed \/ PastBoundary(events[i], answer)
                THEN Handed(g[i - 1], events[i], replayed) ELSE g[i - 1]]

\* They exist for every length.
LEMMA StepsExist ==
  ASSUME NEW n \in Nat, NEW c, NEW events, NEW answer, NEW replayed
  PROVE  \E g : Steps(g, n, c, events, answer, replayed)
<1> DEFINE Next1(x, i) == IF replayed \/ PastBoundary(events[i], answer)
                          THEN Handed(x, events[i], replayed) ELSE x
           Goes(g, k) == g = [i \in 0 .. k |-> IF i = 0 THEN c ELSE Next1(g[i - 1], i)]
           S == {k \in 0 .. n : \E g : Goes(g, k)}
<1>1. 0 \in S
  <2> DEFINE f == [i \in 0 .. 0 |-> c]
  <2> HIDE DEF Next1
  <2>1. f = [i \in 0 .. 0 |-> IF i = 0 THEN c ELSE Next1(f[i - 1], i)]
    OBVIOUS
  <2> HIDE DEF f
  <2>2. \E g : Goes(g, 0)
    BY <2>1
  <2> QED
    BY <2>2
<1>2. ASSUME NEW k \in 1 .. n, k - 1 \in S PROVE k \in S
  <2>1. PICK g : Goes(g, k - 1)
    BY <1>2
  <2> DEFINE h == [i \in 0 .. k |-> IF i = k THEN Next1(g[k - 1], k) ELSE g[i]]
             b == [i \in 0 .. k |-> IF i = 0 THEN c ELSE Next1(h[i - 1], i)]
  <2> HIDE DEF Next1
  <2>2. ASSUME NEW i \in 0 .. k PROVE h[i] = b[i]
    <3>1. CASE i = k
      <4>1. h[i] = Next1(g[k - 1], k) /\ h[k - 1] = g[k - 1]
        BY <3>1
      <4>2. b[i] = Next1(h[k - 1], k)
        BY <3>1
      <4> QED
        BY <4>1, <4>2
    <3>2. CASE i # k
      <4>1. h[i] = g[i] /\ i \in 0 .. k - 1
        BY <3>2
      <4>2. CASE i = 0
        BY <2>1, <4>1, <4>2
      <4>3. CASE i # 0
        <5>1. i - 1 \in 0 .. k - 1 /\ h[i - 1] = g[i - 1]
          BY <4>1, <4>3
        <5>2. g[i] = Next1(g[i - 1], i)
          BY <2>1, <4>1, <4>3
        <5> QED
          BY <4>1, <4>3, <5>1, <5>2
      <4> QED
        BY <4>2, <4>3
    <3> QED
      BY <3>1, <3>2
  <2>3. h = b
    BY <2>2
  <2> HIDE DEF h
  <2> QED
    BY <2>3
<1> HIDE DEF S
<1>3. n \in S
  BY <1>1, <1>2, UpTo
<1> QED
  BY <1>3 DEF S, Steps

\* What HandedAll computes is the last of them.
LEMMA HandedAllSteps ==
  ASSUME NEW c, NEW events, NEW answer, NEW replayed, Len(events) \in Nat
  PROVE  \E g : /\ g[0] = c
                /\ \A i \in 1 .. Len(events) :
                      g[i] = IF replayed \/ PastBoundary(events[i], answer)
                             THEN Handed(g[i - 1], events[i], replayed) ELSE g[i - 1]
                /\ HandedAll(c, events, answer, replayed) = g[Len(events)]
<1> DEFINE g == CHOOSE g : Steps(g, Len(events), c, events, answer, replayed)
<1>1. Steps(g, Len(events), c, events, answer, replayed)
  BY StepsExist
<1>2. HandedAll(c, events, answer, replayed) = g[Len(events)]
  BY DEF HandedAll, Steps
<1> HIDE DEF g
<1>3. g[0] = c
  BY <1>1 DEF Steps
<1>4. \A i \in 1 .. Len(events) :
         g[i] = IF replayed \/ PastBoundary(events[i], answer)
                THEN Handed(g[i - 1], events[i], replayed) ELSE g[i - 1]
  BY <1>1 DEF Steps
<1> QED
  BY <1>2, <1>3, <1>4

\* A hand-over of several leaves the same alone, and what was seen stays seen.
Grows(c, d) ==
    /\ d \in Client /\ Beside(c, d)
    /\ d.cursor >= c.cursor /\ (c.reload => d.reload) /\ c.seen \subseteq d.seen

LEMMA HandedGrows ==
  ASSUME NEW c \in Client, NEW x \in Client, NEW e \in EventFrame, NEW replayed \in BOOLEAN, Grows(c, x)
  PROVE  Grows(c, Handed(x, e, replayed))
<1> DEFINE d == Handed(x, e, replayed)
<1>1. /\ d \in Client /\ Beside(x, d)
      /\ d.reload = (x.reload \/ (x.cursor > 0 /\ e.n > x.cursor + 1))
      /\ d.cursor = Larger(x.cursor, e.n) /\ x.seen \subseteq d.seen
  BY HandedFacts
<1>2. d.cursor >= x.cursor /\ x.cursor \in Nat /\ c.cursor \in Nat /\ e.n \in Nat /\ d.cursor \in Nat
  BY <1>1, SMTT(30) DEF Larger, Client, EventFrame
<1> HIDE DEF d
<1>3. d.cursor >= c.cursor
  BY <1>2 DEF Grows
<1>4. Beside(c, d)
  BY <1>1 DEF Grows, Beside
<1>5. (c.reload => d.reload) /\ c.seen \subseteq d.seen
  BY <1>1 DEF Grows, Client
<1>6. Grows(c, d)
  BY <1>1, <1>3, <1>4, <1>5 DEF Grows
<1> QED
  BY <1>6 DEF d

\* What comes of handing over the events that pass.
Result(c, events, answer, replayed, d) ==
    LET Passes(j) == replayed \/ PastBoundary(events[j], answer) IN
    /\ Grows(c, d)
    /\ \A s \in d.seen : s \in c.seen
          \/ \E j \in 1 .. Len(events) : Passes(j) /\ s = <<events[j].profile, events[j].n>>
    /\ replayed => /\ d.late = c.late
                   /\ \A j \in 1 .. Len(events) : <<events[j].profile, events[j].n>> \in d.seen
    /\ \A j \in 1 .. Len(events) : Passes(j) => events[j].n <= d.cursor
    /\ d.cursor = c.cursor \/ \E j \in 1 .. Len(events) : Passes(j) /\ d.cursor = events[j].n

LEMMA HandedAllFacts ==
  ASSUME NEW c \in Client, NEW events \in Seq(EventFrame), NEW answer, NEW replayed \in BOOLEAN
  PROVE  Result(c, events, answer, replayed, HandedAll(c, events, answer, replayed))
<1> DEFINE n == Len(events)
           Passes(j) == replayed \/ PastBoundary(events[j], answer)
<1>1. n \in Nat /\ \A i \in 1 .. n : events[i] \in EventFrame
  OBVIOUS
<1>2. PICK g : /\ g[0] = c
               /\ \A i \in 1 .. n :
                     g[i] = IF Passes(i) THEN Handed(g[i - 1], events[i], replayed) ELSE g[i - 1]
               /\ HandedAll(c, events, answer, replayed) = g[n]
  BY <1>1, HandedAllSteps
<1> DEFINE Q(k) ==
       /\ Grows(c, g[k])
       /\ \A s \in g[k].seen : s \in c.seen \/ \E j \in 1 .. n : Passes(j) /\ s = <<events[j].profile, events[j].n>>
       /\ replayed => /\ g[k].late = c.late
                      /\ \A j \in 1 .. k : <<events[j].profile, events[j].n>> \in g[k].seen
       /\ \A j \in 1 .. k : Passes(j) => events[j].n <= g[k].cursor
       /\ g[k].cursor = c.cursor \/ \E j \in 1 .. n : Passes(j) /\ g[k].cursor = events[j].n
       S == {k \in 0 .. n : Q(k)}
<1> HIDE DEF Passes
<1>3. 0 \in S
  BY <1>1, <1>2 DEF Grows, Beside, Client
<1>4. ASSUME NEW k \in 1 .. n, k - 1 \in S PROVE k \in S
  <2>1. k - 1 \in 0 .. n /\ Q(k - 1) /\ events[k] \in EventFrame
    BY <1>1, <1>4
  <2> DEFINE x == g[k - 1]
             d == Handed(x, events[k], replayed)
  <2>2. CASE ~Passes(k)
    <3>1. g[k] = x
      BY <1>2, <2>2
    <3>2. ~replayed
      BY <2>2 DEF Passes
    <3>3. \A j \in 1 .. k : Passes(j) => j \in 1 .. k - 1
      BY <2>2
    <3> QED
      BY <2>1, <3>1, <3>2, <3>3
  <2>3. CASE Passes(k)
    <3>1. g[k] = d
      BY <1>2, <2>3
    <3>2. x \in Client /\ Grows(c, d)
      BY <2>1, HandedGrows DEF Grows
    <3>3. /\ d.cursor = Larger(x.cursor, events[k].n) /\ x.cursor \in Nat /\ events[k].n \in Nat
          /\ d.seen = IF Stale(x, events[k], replayed) THEN x.seen
                      ELSE x.seen \cup {<<events[k].profile, events[k].n>>}
          /\ replayed => d.late = x.late /\ ~Stale(x, events[k], replayed)
      <4>1. x.cursor \in Nat /\ events[k].n \in Nat /\ x.late \in BOOLEAN
        BY <2>1, <3>2 DEF Client, EventFrame
      <4>2. /\ d.cursor = Larger(x.cursor, events[k].n)
            /\ d.seen = IF Stale(x, events[k], replayed) THEN x.seen
                        ELSE x.seen \cup {<<events[k].profile, events[k].n>>}
        BY <2>1, <3>2, HandedFacts
      <4>3. replayed => d.late = x.late /\ ~Stale(x, events[k], replayed)
        BY <2>1, <3>2, <4>1, HandedFacts DEF Stale
      <4> QED
        BY <4>1, <4>2, <4>3
    <3> HIDE DEF d
    <3>4. \A s \in d.seen : s \in c.seen \/ \E j \in 1 .. n : Passes(j) /\ s = <<events[j].profile, events[j].n>>
      BY <2>1, <2>3, <3>3
    <3>5. replayed => /\ d.late = c.late
                      /\ \A j \in 1 .. k : <<events[j].profile, events[j].n>> \in d.seen
      <4>1. ASSUME replayed, NEW j \in 1 .. k PROVE <<events[j].profile, events[j].n>> \in d.seen
        <5>1. CASE j = k
          BY <3>3, <4>1, <5>1
        <5>2. CASE j # k
          <6>1. j \in 1 .. k - 1
            BY <5>2
          <6>2. <<events[j].profile, events[j].n>> \in x.seen
            BY <2>1, <4>1, <6>1
          <6> QED
            BY <3>3, <6>2
        <5> QED
          BY <5>1, <5>2
      <4>2. ASSUME replayed PROVE d.late = c.late
        BY <2>1, <3>3, <4>2
      <4> QED
        BY <4>1, <4>2
    <3>6. ASSUME NEW j \in 1 .. k, Passes(j) PROVE events[j].n <= d.cursor
      <4>1. CASE j = k
        BY <3>3, <4>1 DEF Larger
      <4>2. CASE j # k
        <5>1. events[j].n <= x.cursor /\ events[j].n \in Nat
          <6>1. j \in 1 .. k - 1 /\ events[j] \in EventFrame
            BY <1>1, <4>2
          <6> QED
            BY <2>1, <3>6, <6>1 DEF EventFrame
        <5> QED
          BY <3>3, <5>1 DEF Larger
      <4> QED
        BY <4>1, <4>2
    <3>7. d.cursor = c.cursor \/ \E j \in 1 .. n : Passes(j) /\ d.cursor = events[j].n
      <4>1. d.cursor = x.cursor \/ d.cursor = events[k].n
        BY <3>3 DEF Larger
      <4> QED
        BY <2>1, <2>3, <4>1
    <3> QED
      BY <3>1, <3>2, <3>4, <3>5, <3>6, <3>7
  <2> QED
    BY <2>2, <2>3
<1> HIDE DEF S
<1>5. n \in S
  <2>1. \A k \in 0 .. n : k \in S
    BY <1>1, <1>3, <1>4, UpTo
  <2> QED
    BY <1>1, <2>1
<1>6. Q(n)
  BY <1>5 DEF S
<1> QED
  BY <1>2, <1>6 DEF Passes, Result

LEMMA ReplayFacts ==
  ASSUME NEW a \in AnswerFrame
  PROVE  /\ Replay(a) \in Seq(EventFrame)
         /\ \A i \in 1 .. Len(Replay(a)) :
               /\ Replay(a)[i].profile = a.profile
               /\ a.from <= Replay(a)[i].n /\ Replay(a)[i].n <= a.boundary
         /\ \A n \in a.from .. a.boundary : \E i \in 1 .. Len(Replay(a)) : Replay(a)[i] = Event(a.profile, n)
<1>1. a.boundary \in Nat /\ a.from \in Nat /\ a.profile \in Profiles
  BY DEF AnswerFrame
<1>2. CASE a.from > a.boundary
  <2>1. Replay(a) = <<>> /\ a.from .. a.boundary = {}
    BY <1>1, <1>2 DEF Replay
  <2> QED
    BY <2>1
<1>3. CASE ~(a.from > a.boundary)
  <2> DEFINE k == a.boundary + 1 - a.from
             f == [i \in 1 .. k |-> Event(a.profile, a.from + i - 1)]
  <2>1. k \in Nat
    BY <1>1, <1>3
  <2>2. \A i \in 1 .. k : Event(a.profile, a.from + i - 1) \in EventFrame
    BY <1>1, <2>1 DEF Event, EventFrame
  <2>3. Replay(a) = f
    BY <1>3 DEF Replay
  <2>4. \A i \in 1 .. k : i <= a.boundary + 1 - a.from
    BY <1>1
  <2>5. \A n \in a.from .. a.boundary : n - a.from + 1 \in 1 .. k /\ a.from + (n - a.from + 1) - 1 = n
    BY <1>1
  <2> HIDE DEF k
  <2>6. f \in Seq(EventFrame) /\ Len(f) = k
    BY <2>1, <2>2
  <2>7. \A i \in 1 .. k : f[i].profile = a.profile /\ a.from <= f[i].n /\ f[i].n <= a.boundary
    BY <1>1, <2>4 DEF Event
  <2>8. \A n \in a.from .. a.boundary : f[n - a.from + 1] = Event(a.profile, n)
    BY <1>1, <2>5
  <2> QED
    BY <2>3, <2>5, <2>6, <2>7, <2>8
<1> QED
  BY <1>2, <1>3

\* The continuation of a subscribe.
SubscribedClient(a, d) ==
    /\ d \in Client /\ d.phase = "ready" /\ d.answered = Tail(client.answered) /\ d.held = <<>>
    /\ d.inFlight = client.inFlight - 1 /\ d.since = client.since /\ d.loaded = client.loaded
    /\ d.loading = client.loading

LEMMA SubscribedFacts ==
  ASSUME Typed, Subscribed, InFlight(client) = client.inFlight - 1
  PROVE  \E a, caughtUp, flushed :
         /\ a \in AnswerFrame /\ caughtUp \in Client /\ flushed \in Client
         /\ a = Head(client.answered) /\ client.answered # <<>>
         /\ SubscribedClient(a, client')
         /\ flushed = HandedAll(caughtUp, client.held, a, FALSE)
         /\ client'.cursor = flushed.cursor /\ client'.seen = flushed.seen /\ client'.late = flushed.late
         /\ client'.reload = flushed.reload
         /\ client.seen \subseteq caughtUp.seen /\ caughtUp.late = client.late
         /\ caughtUp.cursor >= client.cursor /\ caughtUp.cursor >= a.boundary
         /\ (client.reload \/ a.gap) => caughtUp.reload
         /\ \A s \in caughtUp.seen : s \in client.seen
                                     \/ (s[1] = a.profile /\ s[2] \in Nat /\ s[2] >= a.from /\ s[2] <= a.boundary)
         /\ \A n \in a.from .. a.boundary : <<a.profile, n>> \in caughtUp.seen
         /\ caughtUp.cursor <= client.cursor \/ caughtUp.cursor <= a.boundary
<1> DEFINE a == Head(client.answered)
           started == [client EXCEPT !.reload = @ \/ a.gap, !.answered = Tail(@), !.held = <<>>]
           replayed == HandedAll(started, Replay(a), a, TRUE)
           caughtUp == [replayed EXCEPT !.cursor = Larger(@, a.boundary)]
           flushed == HandedAll(caughtUp, client.held, a, FALSE)
           d == [flushed EXCEPT !.inFlight = InFlight(client), !.phase = "ready",
                                !.asked = @ \/ (fromCursor /\ flushed.reload)]
<1>1. client' = d /\ client.answered # <<>>
  BY DEF Subscribed
<1>2. /\ client \in Client /\ client.answered \in Seq(AnswerFrame) /\ client.held \in Seq(EventFrame)
      /\ client.inFlight \in Int /\ fromCursor \in BOOLEAN /\ client.cursor \in Nat
      /\ client.reload \in BOOLEAN
  BY DEF Typed, Client
<1>3. /\ a \in AnswerFrame /\ Tail(client.answered) \in Seq(AnswerFrame) /\ a.gap \in BOOLEAN
      /\ a.boundary \in Nat /\ a.from \in Nat
  <2>1. a \in AnswerFrame /\ Tail(client.answered) \in Seq(AnswerFrame)
    BY <1>1, <1>2
  <2> HIDE DEF a
  <2> QED
    BY <2>1 DEF AnswerFrame
<1> HIDE DEF a
<1>4. /\ started \in Client /\ started.held = <<>> /\ started.answered = Tail(client.answered)
      /\ started.reload = (client.reload \/ a.gap) /\ started.cursor = client.cursor
      /\ started.seen = client.seen /\ started.late = client.late /\ started.loading = client.loading
      /\ started.since = client.since /\ started.loaded = client.loaded
  <2>1. (client.reload \/ a.gap) \in BOOLEAN /\ <<>> \in Seq(EventFrame)
    BY <1>2, <1>3
  <2> QED
    BY <1>2, <1>3, <2>1 DEF Client
<1> HIDE DEF started
<1>5. /\ Replay(a) \in Seq(EventFrame)
      /\ \A i \in 1 .. Len(Replay(a)) :
            /\ Replay(a)[i].profile = a.profile
            /\ a.from <= Replay(a)[i].n /\ Replay(a)[i].n <= a.boundary
            /\ Replay(a)[i].n \in Nat
      /\ \A n \in a.from .. a.boundary : \E i \in 1 .. Len(Replay(a)) : Replay(a)[i] = Event(a.profile, n)
  <2>1. \A i \in 1 .. Len(Replay(a)) : Replay(a)[i] \in EventFrame
    BY <1>3, ReplayFacts
  <2> QED
    BY <1>3, <2>1, ReplayFacts DEF EventFrame
<1>6. /\ Grows(started, replayed) /\ replayed.late = started.late
      /\ \A s \in replayed.seen : s \in started.seen \/ \E j \in 1 .. Len(Replay(a)) :
               s = <<Replay(a)[j].profile, Replay(a)[j].n>>
      /\ \A j \in 1 .. Len(Replay(a)) : <<Replay(a)[j].profile, Replay(a)[j].n>> \in replayed.seen
      /\ replayed.cursor = started.cursor \/ \E j \in 1 .. Len(Replay(a)) : replayed.cursor = Replay(a)[j].n
  <2>1. Result(started, Replay(a), a, TRUE, replayed)
    BY <1>4, <1>5, HandedAllFacts
  <2> HIDE DEF replayed
  <2> QED
    BY <2>1 DEF Result
<1> HIDE DEF replayed
<1>7. /\ caughtUp \in Client /\ caughtUp.cursor = Larger(replayed.cursor, a.boundary)
      /\ Beside(replayed, caughtUp) /\ caughtUp.reload = replayed.reload
      /\ caughtUp.seen = replayed.seen /\ caughtUp.late = replayed.late
  <2>1. replayed \in Client /\ Larger(replayed.cursor, a.boundary) \in Nat
    BY <1>3, <1>6 DEF Grows, Client, Larger
  <2> QED
    BY <2>1 DEF Client, Beside
<1> HIDE DEF caughtUp
<1>8. Grows(caughtUp, flushed)
  BY <1>2, <1>7, HandedAllFacts DEF Result
<1> HIDE DEF flushed
<1>9. /\ d \in Client /\ d.phase = "ready" /\ d.inFlight = client.inFlight - 1
      /\ d.held = flushed.held /\ d.answered = flushed.answered /\ d.since = flushed.since
      /\ d.loaded = flushed.loaded /\ d.loading = flushed.loading /\ d.cursor = flushed.cursor
      /\ d.seen = flushed.seen /\ d.late = flushed.late /\ d.reload = flushed.reload
  <2>1. /\ flushed \in Client /\ "ready" \in Phase /\ InFlight(client) \in Int
        /\ (flushed.asked \/ (fromCursor /\ flushed.reload)) \in BOOLEAN
    BY <1>2, <1>8 DEF Grows, Phase, Client
  <2> QED
    BY <2>1 DEF Client
<1>10. SubscribedClient(a, d)
  BY <1>4, <1>6, <1>7, <1>8, <1>9 DEF SubscribedClient, Grows, Beside
<1>11. client.seen \subseteq caughtUp.seen /\ caughtUp.late = client.late
  BY <1>4, <1>6, <1>7 DEF Grows
<1>12. caughtUp.cursor >= client.cursor /\ caughtUp.cursor >= a.boundary
  <2>1. replayed.cursor >= client.cursor /\ replayed.cursor \in Nat
    BY <1>4, <1>6 DEF Grows, Client
  <2> QED
    BY <1>2, <1>3, <1>7, <2>1 DEF Larger
<1>13. client.reload \/ a.gap => caughtUp.reload
  BY <1>4, <1>6, <1>7 DEF Grows
<1>14. \A s \in caughtUp.seen : s \in client.seen
                                \/ (s[1] = a.profile /\ s[2] \in Nat /\ s[2] >= a.from /\ s[2] <= a.boundary)
  BY <1>3, <1>4, <1>5, <1>6, <1>7, SMTT(30)
<1>15. \A n \in a.from .. a.boundary : <<a.profile, n>> \in caughtUp.seen
  <2> TAKE n \in a.from .. a.boundary
  <2>1. PICK i \in 1 .. Len(Replay(a)) : Replay(a)[i] = Event(a.profile, n)
    BY <1>5
  <2>2. Replay(a)[i].profile = a.profile /\ Replay(a)[i].n = n
    BY <2>1 DEF Event
  <2> QED
    BY <1>6, <1>7, <2>2
<1>16. caughtUp.cursor <= client.cursor \/ caughtUp.cursor <= a.boundary
  <2>1. replayed.cursor <= client.cursor \/ replayed.cursor <= a.boundary
    BY <1>2, <1>4, <1>5, <1>6
  <2>2. replayed.cursor \in Nat
    BY <1>6 DEF Grows, Client
  <2> QED
    BY <1>2, <1>3, <1>7, <2>1, <2>2 DEF Larger
<1>17. flushed = HandedAll(caughtUp, client.held, a, FALSE) /\ flushed \in Client
  BY <1>8 DEF flushed, Grows
<1> HIDE DEF d
<1> QED
  <2>1. a = Head(client.answered)
    BY DEF a
  <2> WITNESS a, caughtUp, flushed
  <2> QED
    BY <1>1, <1>3, <1>7, <1>9, <1>10, <1>11, <1>12, <1>13, <1>14, <1>15, <1>16, <1>17, <2>1

-----------------------------------------------------------------------------
(* Every step keeps the types.                                               *)

LEMMA TailFacts ==
  ASSUME NEW T, NEW w \in Seq(T), w # <<>>
  PROVE  /\ Head(w) = w[1] /\ w[1] \in T /\ Tail(w) \in Seq(T) /\ Len(Tail(w)) = Len(w) - 1
         /\ Len(w) \in Nat \ {0}
         /\ \A i \in 1 .. Len(w) - 1 : Tail(w)[i] = w[i + 1] /\ i + 1 \in 1 .. Len(w)
         /\ \A i \in 1 .. Len(w) : w[i] \in T
<1>1. Len(w) \in Nat \ {0} /\ \A i \in 1 .. Len(w) : w[i] \in T
  OBVIOUS
<1>2. Head(w) = w[1] /\ Tail(w) \in Seq(T) /\ Len(Tail(w)) = Len(w) - 1
  OBVIOUS
<1>3. \A i \in 1 .. Len(w) - 1 : Tail(w)[i] = w[i + 1] /\ i + 1 \in 1 .. Len(w)
  OBVIOUS
<1> QED
  BY <1>1, <1>2, <1>3

LEMMA AppendFacts ==
  ASSUME NEW T, NEW w \in Seq(T), NEW x \in T
  PROVE  /\ Append(w, x) \in Seq(T) /\ Len(Append(w, x)) = Len(w) + 1 /\ Len(w) \in Nat
         /\ \A i \in 1 .. Len(w) : Append(w, x)[i] = w[i] /\ w[i] \in T
         /\ Append(w, x)[Len(w) + 1] = x
  OBVIOUS

LEMMA NewClientTyped == NewClient \in Client
<1>1. [p \in Profiles |-> 0] \in [Profiles -> Nat] /\ {} \in SUBSET (Profiles \X Nat)
  OBVIOUS
<1>2. <<>> \in Seq(EventFrame) /\ <<>> \in Seq(AnswerFrame)
  OBVIOUS
<1> QED
  BY <1>1, <1>2 DEF NewClient, Client, Phase

\* What a step of the server or a reset does to the types.
LEMMA FrameTyped ==
  /\ \A p \in Profiles, n \in Nat : Event(p, n) \in Frame /\ Event(p, n) \in EventFrame
  /\ \A p \in Profiles : [type |-> "bound", profile |-> p] \in Frame
  /\ \A p \in Profiles, n \in Nat : [type |-> "snapshot", profile |-> p, n |-> n] \in Frame
  /\ \A p \in Profiles, b \in Nat, g \in BOOLEAN, f \in Nat :
        [type |-> "subscribed", profile |-> p, boundary |-> b, gap |-> g, from |-> f] \in AnswerFrame
  /\ \A n \in Nat : [type |-> "hello", sequence |-> n] \in Frame
  /\ AnswerFrame \subseteq Frame
  /\ \A p \in Profiles : [type |-> "bind", profile |-> p] \in Request
  /\ \A n \in Nat : [type |-> "subscribe", after |-> n] \in Request
  /\ [type |-> "snapshot"] \in Request
  BY DEF Event, Frame, EventFrame, HelloFrame, BoundFrame, AnswerFrame, SnapshotFrame,
         Request, BindRequest, SubscribeRequest, SnapshotRequest

LEMMA ReplayAfterTyped ==
  ASSUME Typed, NEW p \in Profiles, NEW after \in Nat
  PROVE  /\ ReplayAfter(p, after).gap \in BOOLEAN /\ ReplayAfter(p, after).from \in Nat
         /\ ReplayAfter(p, after).gap \/ ReplayAfter(p, after).from = after + 1
         /\ ReplayAfter(p, after).from >= 1
<1>1. seq[p] \in Nat /\ RingSize \in Nat \ {0}
  BY StreamAssumption DEF Typed
<1>2. Oldest(p) \in Nat /\ Oldest(p) >= 1 /\ (seq[p] = 0 => Oldest(p) = 1)
  BY <1>1 DEF Oldest
<1>3. Larger(Oldest(p), after + 1) \in Nat /\ Larger(Oldest(p), after + 1) >= 1
  BY <1>2 DEF Larger
<1>4. ~(seq[p] > 0 /\ after < Oldest(p) - 1) => Larger(Oldest(p), after + 1) = after + 1
  BY <1>1, <1>2 DEF Larger
<1> QED
  BY <1>3, <1>4 DEF ReplayAfter

\* A subscribe is answered from the ring, or told to reload.
Answered(p, after, x) ==
    /\ x \in AnswerFrame /\ x.type = "subscribed" /\ x.profile = p /\ x.boundary = seq[p]
    /\ x.gap \/ x.from = after + 1

LEMMA ServeSubscribeFacts ==
  ASSUME Typed, ServeSubscribe
  PROVE  /\ requests # <<>> /\ requests[1].type = "subscribe" /\ requests[1] \in SubscribeRequest
         /\ requests' = Tail(requests)
         /\ session' = [session EXCEPT !.state = "active"]
         /\ \E x : Answered(session.audience, requests[1].after, x) /\ wire' = Append(wire, x)
         /\ UNCHANGED <<seq, total, client, connects, fromCursor>>
<1> DEFINE p == session.audience
           after == requests[1].after
           replay == ReplayAfter(p, after)
           Answer(gap, from) ==
              [type |-> "subscribed", profile |-> p, boundary |-> seq[p], gap |-> gap, from |-> from]
<1>1. /\ requests # <<>> /\ Head(requests) = requests[1] /\ requests[1] \in Request
      /\ requests[1].type = "subscribe"
  BY DEF ServeSubscribe, Typed
<1>2. requests[1] \in SubscribeRequest /\ after \in Nat /\ p \in Profiles /\ seq[p] \in Nat
  <2>1. requests[1] \in SubscribeRequest
    BY <1>1, Kinds
  <2> QED
    BY <2>1 DEF SubscribeRequest, Typed
<1>3. replay.gap \in BOOLEAN /\ replay.from \in Nat /\ (replay.gap \/ replay.from = after + 1)
  BY <1>2, ReplayAfterTyped
<1>4. \/ wire' = Append(wire, Answer(replay.gap, replay.from))
      \/ wire' = Append(wire, Answer(TRUE, seq[p] + 1))
  BY <1>1 DEF ServeSubscribe
<1> HIDE DEF replay, after, p
<1>5. Answered(p, after, Answer(replay.gap, replay.from))
  BY <1>2, <1>3, FrameTyped DEF Answered
<1>6. Answered(p, after, Answer(TRUE, seq[p] + 1))
  <2>1. seq[p] + 1 \in Nat /\ TRUE \in BOOLEAN
    BY <1>2
  <2> QED
    BY <1>2, <2>1, FrameTyped DEF Answered
<1>7. \E x : Answered(p, after, x) /\ wire' = Append(wire, x)
  <2> HIDE DEF Answer
  <2> QED
    BY <1>4, <1>5, <1>6
<1> QED
  BY <1>1, <1>2, <1>7 DEF ServeSubscribe, p, after

\* The next state of a client that a step changes by hand.
LEMMA ClientWrites ==
  ASSUME NEW c \in Client
  PROVE  /\ c.cursor \in Nat /\ c.since \in Nat /\ c.inFlight \in Int /\ c.switches \in Nat
         /\ c.held \in Seq(EventFrame) /\ c.answered \in Seq(AnswerFrame)
         /\ c.seen \in SUBSET (Profiles \X Nat) /\ c.loaded \in [Profiles -> Nat]
         /\ c.reload \in BOOLEAN /\ c.asked \in BOOLEAN /\ c.loading \in BOOLEAN /\ c.late \in BOOLEAN
         /\ c.phase \in Phase
  BY DEF Client

LEMMA HelloFacts ==
  ASSUME Typed, HelloArrives
  PROVE  /\ wire # <<>> /\ wire[1] \in HelloFrame /\ wire[1].type = "hello" /\ wire' = Tail(wire)
         /\ client' = [client EXCEPT !.cursor = wire[1].sequence, !.phase = "binding"]
         /\ client' \in Client
         /\ requests' = Append(requests, [type |-> "bind", profile |-> Default])
         /\ UNCHANGED <<seq, total, session, connects, fromCursor>>
<1>1. /\ wire # <<>> /\ wire[1] \in Frame /\ wire[1].type = "hello" /\ Head(wire) = wire[1]
      /\ client \in Client
  BY DEF HelloArrives, Arrives, Typed
<1>2. wire[1] \in HelloFrame /\ wire[1].sequence \in Nat
  <2>1. wire[1] \in HelloFrame
    BY <1>1, Kinds
  <2> QED
    BY <2>1 DEF HelloFrame
<1>3. client' = [client EXCEPT !.cursor = wire[1].sequence, !.phase = "binding"]
  BY <1>1 DEF HelloArrives
<1>4. client' \in Client
  BY <1>1, <1>2, <1>3 DEF Client, Phase
<1> QED
  BY <1>1, <1>2, <1>3, <1>4 DEF HelloArrives, Arrives

LEMMA BoundFacts ==
  ASSUME Typed, BoundArrives
  PROVE  /\ wire # <<>> /\ wire[1].type = "bound" /\ wire' = Tail(wire)
         /\ client' = [client EXCEPT !.inFlight = client.inFlight + 1, !.phase = "subscribing"]
         /\ client' \in Client
         /\ requests' = Append(requests,
               [type |-> "subscribe", after |-> IF fromCursor THEN client.cursor ELSE 0])
         /\ UNCHANGED <<seq, total, session, connects, fromCursor>>
<1>1. wire # <<>> /\ Head(wire) = wire[1] /\ wire[1].type = "bound" /\ client \in Client
  BY DEF BoundArrives, Arrives, Typed
<1>2. client' = [client EXCEPT !.inFlight = client.inFlight + 1, !.phase = "subscribing"]
  BY DEF BoundArrives
<1>3. client.inFlight + 1 \in Int /\ "subscribing" \in Phase
  BY <1>1 DEF Client, Phase
<1>4. client' \in Client
  BY <1>1, <1>2, <1>3 DEF Client
<1> QED
  BY <1>1, <1>2, <1>4 DEF BoundArrives, Arrives

LEMMA SnapshotFacts ==
  ASSUME Typed, SnapshotArrives
  PROVE  /\ wire # <<>> /\ wire[1] \in SnapshotFrame /\ wire[1].type = "snapshot" /\ wire' = Tail(wire)
         /\ client' \in Client /\ client'.loading = FALSE
         /\ client'.loaded = [client.loaded EXCEPT ![wire[1].profile] = Larger(@, wire[1].n)]
         /\ client'.phase = client.phase /\ client'.cursor = client.cursor
         /\ client'.reload = client.reload /\ client'.inFlight = client.inFlight
         /\ client'.held = client.held /\ client'.answered = client.answered
         /\ client'.since = client.since /\ client'.seen = client.seen /\ client'.late = client.late
         /\ UNCHANGED <<seq, total, session, requests, connects, fromCursor>>
<1>1. /\ wire # <<>> /\ wire[1] \in Frame /\ wire[1].type = "snapshot" /\ Head(wire) = wire[1]
      /\ client \in Client
  BY DEF SnapshotArrives, Arrives, Typed
<1>2. wire[1] \in SnapshotFrame /\ wire[1].n \in Nat /\ wire[1].profile \in Profiles
  <2>1. wire[1] \in SnapshotFrame
    BY <1>1, Kinds
  <2> QED
    BY <2>1 DEF SnapshotFrame
<1> DEFINE l == [client.loaded EXCEPT ![wire[1].profile] = Larger(@, wire[1].n)]
<1>3. l \in [Profiles -> Nat]
  BY <1>1, <1>2 DEF Client, Larger
<1>4. client' = [client EXCEPT !.loading = FALSE, !.loaded = l]
  BY <1>1 DEF SnapshotArrives, Client
<1> HIDE DEF l
<1>5. client' \in Client /\ client'.loading = FALSE /\ client'.loaded = l
  BY <1>1, <1>3, <1>4 DEF Client
<1>6. /\ client'.phase = client.phase /\ client'.cursor = client.cursor
      /\ client'.reload = client.reload /\ client'.inFlight = client.inFlight
      /\ client'.held = client.held /\ client'.answered = client.answered
      /\ client'.since = client.since /\ client'.seen = client.seen /\ client'.late = client.late
  BY <1>1, <1>4 DEF Client
<1> QED
  BY <1>1, <1>2, <1>5, <1>6 DEF SnapshotArrives, Arrives, l

LEMMA EventFacts ==
  ASSUME Typed, EventArrives
  PROVE  /\ wire # <<>> /\ wire[1] \in EventFrame /\ wire[1].type = "event" /\ wire' = Tail(wire)
         /\ client' \in Client
         /\ \/ /\ client.inFlight > 0
               /\ client' = [client EXCEPT !.held = Append(client.held, wire[1])]
            \/ /\ ~(client.inFlight > 0)
               /\ client' = Handed(client, wire[1], FALSE)
         /\ UNCHANGED <<seq, total, session, requests, connects, fromCursor>>
<1>1. /\ wire # <<>> /\ wire[1] \in Frame /\ wire[1].type = "event" /\ Head(wire) = wire[1]
      /\ client \in Client
  BY DEF EventArrives, Arrives, Typed
<1>2. wire[1] \in EventFrame
  BY <1>1, Kinds
<1>3. \/ /\ client.inFlight > 0
         /\ client' = [client EXCEPT !.held = Append(client.held, wire[1])]
      \/ /\ ~(client.inFlight > 0)
         /\ client' = Handed(client, wire[1], FALSE)
  BY <1>1 DEF EventArrives
<1>4. client' \in Client
  <2>1. Append(client.held, wire[1]) \in Seq(EventFrame)
    BY <1>1, <1>2 DEF Client
  <2>2. [client EXCEPT !.held = Append(client.held, wire[1])] \in Client
    BY <1>1, <2>1 DEF Client
  <2>3. Handed(client, wire[1], FALSE) \in Client
    BY <1>1, <1>2, HandedFacts
  <2> QED
    BY <1>3, <2>2, <2>3
<1> QED
  BY <1>1, <1>2, <1>3, <1>4 DEF EventArrives, Arrives

LEMMA AnswerFacts ==
  ASSUME Typed, SubscribedArrives
  PROVE  /\ wire # <<>> /\ wire[1] \in AnswerFrame /\ wire[1].type = "subscribed" /\ wire' = Tail(wire)
         /\ client' = [client EXCEPT !.answered = Append(client.answered, wire[1])]
         /\ client' \in Client
         /\ UNCHANGED <<seq, total, session, requests, connects, fromCursor>>
<1>1. /\ wire # <<>> /\ wire[1] \in Frame /\ wire[1].type = "subscribed" /\ Head(wire) = wire[1]
      /\ client \in Client
  BY DEF SubscribedArrives, Arrives, Typed
<1>2. wire[1] \in AnswerFrame
  BY <1>1, Kinds
<1>3. client' = [client EXCEPT !.answered = Append(client.answered, wire[1])]
  BY <1>1 DEF SubscribedArrives
<1>4. client' \in Client
  <2>1. Append(client.answered, wire[1]) \in Seq(AnswerFrame)
    BY <1>1, <1>2 DEF Client
  <2> QED
    BY <1>1, <1>3, <2>1 DEF Client
<1> QED
  BY <1>1, <1>2, <1>3, <1>4 DEF SubscribedArrives, Arrives

LEMMA ConnectFacts ==
  ASSUME Typed, Connect
  PROVE  LET c == [NewClient EXCEPT !.phase = "connecting",
                                    !.since = IF fromCursor THEN seq[Default] ELSE 0,
                                    !.asked = fromCursor /\ connects > 0] IN
         client' = c /\ c \in Client /\ connects' \in Nat
<1>1. (IF fromCursor THEN seq[Default] ELSE 0) \in Nat /\ (fromCursor /\ connects > 0) \in BOOLEAN
  BY StreamAssumption DEF Typed
<1>2. NewClient \in Client /\ "connecting" \in Phase
  BY NewClientTyped DEF Phase
<1> DEFINE since == IF fromCursor THEN seq[Default] ELSE 0
           asked == fromCursor /\ connects > 0
           c == [NewClient EXCEPT !.phase = "connecting", !.since = since, !.asked = asked]
<1>3. client' = c
  BY DEF Connect
<1> HIDE DEF since, asked
<1>4. since \in Nat /\ asked \in BOOLEAN
  BY <1>1 DEF since, asked
<1>5. c \in Client
  BY <1>2, <1>4 DEF Client
<1>6. connects' \in Nat
  BY DEF Connect, Typed
<1> QED
  BY <1>3, <1>5, <1>6 DEF since, asked

LEMMA TypedStep ==
  ASSUME Typed, Next
  PROVE  Typed'
<1>0. NewClient \in Client /\ NewSession \in [state : {"none", "active"}, audience : Profiles]
  BY NewClientTyped, StreamAssumption DEF NewSession
<1>1. ASSUME NEW p \in Profiles, Push(p) PROVE Typed'
  <2>1. Event(p, seq[p] + 1) \in Frame
    BY FrameTyped DEF Typed
  <2>2. wire' \in Seq(Frame)
    BY <1>1, <2>1 DEF Push, Delivered, Typed
  <2>3. seq' \in [Profiles -> Nat] /\ total' \in Nat
    BY <1>1 DEF Push, Typed
  <2> QED
    BY <1>1, <2>2, <2>3 DEF Push, Typed
<1>2. ASSUME PushAll PROVE Typed'
  <2>1. Event(session.audience, seq[session.audience] + 1) \in Frame
    BY FrameTyped DEF Typed
  <2>2. wire' \in Seq(Frame)
    BY <1>2, <2>1 DEF PushAll, Delivered, Typed
  <2>3. seq' \in [Profiles -> Nat] /\ total' \in Nat
    BY <1>2 DEF PushAll, Typed
  <2> QED
    BY <1>2, <2>2, <2>3 DEF PushAll, Typed
<1>3. ASSUME ServeBind PROVE Typed'
  <2>1. Head(requests) \in BindRequest
    BY <1>3, Kinds DEF ServeBind, Typed
  <2>2. Head(requests).profile \in Profiles
    BY <2>1 DEF BindRequest
  <2>3. [type |-> "bound", profile |-> Head(requests).profile] \in Frame
    BY <2>2, FrameTyped
  <2> QED
    BY <1>3, <2>2, <2>3 DEF ServeBind, Typed
<1>4. ASSUME ServeSubscribe PROVE Typed'
  <2>1. PICK x : Answered(session.audience, requests[1].after, x) /\ wire' = Append(wire, x)
    BY <1>4, ServeSubscribeFacts
  <2>2. x \in Frame
    BY <2>1, FrameTyped DEF Answered
  <2>3. session' = [session EXCEPT !.state = "active"] /\ requests' = Tail(requests) /\ requests # <<>>
    BY <1>4, ServeSubscribeFacts
  <2>4. UNCHANGED <<seq, total, client, connects, fromCursor>>
    BY <1>4, ServeSubscribeFacts
  <2> QED
    <3>1. session' \in [state : {"none", "active"}, audience : Profiles]
      BY <2>3 DEF Typed
    <3>2. wire' \in Seq(Frame) /\ requests' \in Seq(Request)
      BY <2>1, <2>2, <2>3 DEF Typed
    <3> QED
      BY <2>4, <3>1, <3>2 DEF Typed
<1>5. ASSUME ServeSnapshot PROVE Typed'
  <2>1. [type |-> "snapshot", profile |-> session.audience, n |-> seq[session.audience]] \in Frame
    BY FrameTyped DEF Typed
  <2> QED
    BY <1>5, <2>1 DEF ServeSnapshot, Typed
<1>6. ASSUME Connect PROVE Typed'
  <2>1. client' \in Client /\ connects' \in Nat
    BY <1>6, ConnectFacts
  <2>2. [type |-> "hello", sequence |-> total] \in Frame
    BY FrameTyped DEF Typed
  <2> QED
    BY <1>0, <1>6, <2>1, <2>2 DEF Connect, Typed
<1>7. ASSUME HelloArrives PROVE Typed'
  <2>1. [type |-> "bind", profile |-> Default] \in Request
    BY FrameTyped, StreamAssumption
  <2>2. /\ wire # <<>> /\ wire' = Tail(wire) /\ client' \in Client
        /\ requests' = Append(requests, [type |-> "bind", profile |-> Default])
        /\ UNCHANGED <<seq, total, session, connects, fromCursor>>
    BY <1>7, HelloFacts
  <2> QED
    BY <2>1, <2>2 DEF Typed
<1>8. ASSUME BoundArrives PROVE Typed'
  <2> DEFINE after == IF fromCursor THEN client.cursor ELSE 0
  <2>1. after \in Nat
    BY ClientWrites DEF Typed
  <2> HIDE DEF after
  <2>2. [type |-> "subscribe", after |-> after] \in Request
    BY <2>1, FrameTyped
  <2>3. /\ wire # <<>> /\ wire' = Tail(wire) /\ client' \in Client
        /\ requests' = Append(requests, [type |-> "subscribe", after |-> after])
        /\ UNCHANGED <<seq, total, session, connects, fromCursor>>
    BY <1>8, BoundFacts DEF after
  <2> QED
    BY <2>2, <2>3 DEF Typed
<1>9. ASSUME EventArrives PROVE Typed'
  <2>1. /\ wire # <<>> /\ wire' = Tail(wire) /\ client' \in Client
        /\ UNCHANGED <<seq, total, session, requests, connects, fromCursor>>
    BY <1>9, EventFacts
  <2> QED
    BY <2>1 DEF Typed
<1>10. ASSUME SubscribedArrives PROVE Typed'
  <2>1. /\ wire # <<>> /\ wire' = Tail(wire) /\ client' \in Client
        /\ UNCHANGED <<seq, total, session, requests, connects, fromCursor>>
    BY <1>10, AnswerFacts
  <2> QED
    BY <2>1 DEF Typed
<1>11. ASSUME SnapshotArrives PROVE Typed'
  <2>1. /\ wire # <<>> /\ wire' = Tail(wire) /\ client' \in Client
        /\ UNCHANGED <<seq, total, session, requests, connects, fromCursor>>
    BY <1>11, SnapshotFacts
  <2> QED
    BY <2>1 DEF Typed
<1>12. ASSUME Subscribed PROVE Typed'
  <2>1. client' \in Client
    BY <1>12, SubscribedFacts DEF InFlight, SubscribedClient
  <2> QED
    BY <1>12, <2>1 DEF Subscribed, Typed
<1>13. ASSUME NEW p \in Profiles, Switch(p) PROVE Typed'
  <2>1. client' = [client EXCEPT !.switches = client.switches + 1] /\ client \in Client
    BY <1>13 DEF Switch, Typed
  <2>2. client.switches + 1 \in Nat
    BY <2>1, ClientWrites
  <2>3. client' \in Client
    BY <2>1, <2>2 DEF Client
  <2>4. [type |-> "bind", profile |-> p] \in Request
    BY FrameTyped
  <2>5. /\ requests' = Append(requests, [type |-> "bind", profile |-> p])
        /\ UNCHANGED <<seq, total, session, wire, connects, fromCursor>>
    BY <1>13 DEF Switch
  <2> QED
    BY <2>3, <2>4, <2>5 DEF Typed
<1>14. ASSUME Reload PROVE Typed'
  <2>1. client' \in Client
    BY <1>14 DEF Reload, Client, Typed
  <2>2. [type |-> "snapshot"] \in Request
    BY FrameTyped
  <2>3. /\ requests' = Append(requests, [type |-> "snapshot"])
        /\ UNCHANGED <<seq, total, session, wire, connects, fromCursor>>
    BY <1>14 DEF Reload
  <2> QED
    BY <2>1, <2>2, <2>3 DEF Typed
<1>15. ASSUME Disconnect PROVE Typed'
  BY <1>0, <1>15 DEF Disconnect, Typed
<1>16. ASSUME Restart PROVE Typed'
  BY <1>0, <1>16 DEF Restart, Typed
<1> QED
  BY <1>1, <1>2, <1>3, <1>4, <1>5, <1>6, <1>7, <1>8, <1>9, <1>10, <1>11, <1>12, <1>13, <1>14, <1>15, <1>16
  DEF Next, Serve, Receive

-----------------------------------------------------------------------------
(* The order of the events, for every set of profiles.                       *)

\* What a frame tells its receiver to have, and the events that come after it.
Marked(x) == x.type \in {"event", "subscribed"}
Mark(x) == <<x.profile, IF x.type = "event" THEN x.n ELSE x.boundary>>
Newer(e, s) == e.type = "event" /\ e.profile = s[1] => s[2] < e.n

\* What a client has been handed, holds, or will count as replayed.
Past(c) ==
    c.seen \cup {Mark(c.held[i]) : i \in 1 .. Len(c.held)}
           \cup {Mark(c.answered[i]) : i \in 1 .. Len(c.answered)}

\* Nothing comes after a newer one: on the wire, between the wire and the client, and
\* among the events held, which only a subscribe in flight holds back.
WireOrdered(w, past) ==
    \A j \in 1 .. Len(w) :
       /\ Marked(w[j]) => Mark(w[j])[2] <= seq[w[j].profile]
       /\ \A i \in 1 .. j - 1 : Marked(w[i]) => Newer(w[j], Mark(w[i]))
       /\ \A s \in past : Newer(w[j], s)

HeldOrdered(c) ==
    \A j \in 1 .. Len(c.held) :
       /\ \A i \in 1 .. j - 1 : Newer(c.held[j], Mark(c.held[i]))
       /\ \A s \in c.seen : Newer(c.held[j], s)

Ordered ==
    /\ WireOrdered(wire, Past(client))
    /\ \A s \in Past(client) : s[2] <= seq[s[1]]
    /\ HeldOrdered(client)
    /\ client.inFlight > 0 \/ client.held = <<>>
    /\ ~client.late

LEMMA MarkTyped ==
  /\ \A x \in Frame : Marked(x) => /\ Mark(x) \in Profiles \X Nat /\ x.profile \in Profiles
                                   /\ Mark(x)[1] = x.profile /\ Mark(x)[2] \in Nat
  /\ \A e \in EventFrame : /\ e \in Frame /\ Marked(e) /\ Mark(e) = <<e.profile, e.n>> /\ e.type = "event"
                           /\ e.n \in Nat /\ e.profile \in Profiles
  /\ \A a \in AnswerFrame : /\ a \in Frame /\ Marked(a) /\ Mark(a) = <<a.profile, a.boundary>>
                            /\ a.type # "event" /\ a.boundary \in Nat /\ a.profile \in Profiles
  /\ \A x \in Frame : Marked(x) => x \in EventFrame \/ x \in AnswerFrame
  BY DEF Frame, EventFrame, AnswerFrame, HelloFrame, BoundFrame, SnapshotFrame, Mark, Marked

LEMMA PastTyped ==
  ASSUME NEW c \in Client
  PROVE  Past(c) \subseteq Profiles \X Nat
<1>1. /\ c.seen \subseteq Profiles \X Nat
      /\ \A i \in 1 .. Len(c.held) : c.held[i] \in EventFrame
      /\ \A i \in 1 .. Len(c.answered) : c.answered[i] \in AnswerFrame
  <2>1. c.seen \subseteq Profiles \X Nat /\ c.held \in Seq(EventFrame) /\ c.answered \in Seq(AnswerFrame)
    BY ClientWrites
  <2> QED
    BY <2>1
<1>2. /\ \A i \in 1 .. Len(c.held) : Mark(c.held[i]) \in Profiles \X Nat
      /\ \A i \in 1 .. Len(c.answered) : Mark(c.answered[i]) \in Profiles \X Nat
  BY <1>1, MarkTyped
<1> QED
  BY <1>1, <1>2 DEF Past

\* A frame joins the wire.
LEMMA JoinsOrdered ==
  ASSUME Typed, Typed', Ordered, NEW x \in Frame, wire' = Append(wire, x),
         \A p \in Profiles : seq[p] <= seq'[p],
         Marked(x) => Mark(x)[2] <= seq'[x.profile],
         x.type = "event" => seq[x.profile] < x.n,
         client' = client
  PROVE  Ordered'
<1> DEFINE past == Past(client)
           n == Len(wire)
<1>1. wire \in Seq(Frame) /\ seq \in [Profiles -> Nat] /\ seq' \in [Profiles -> Nat] /\ client \in Client
  BY DEF Typed
<1>2. past \subseteq Profiles \X Nat /\ Past(client') = past
  BY <1>1, PastTyped
<1>3. /\ n \in Nat /\ Len(wire') = n + 1 /\ wire'[n + 1] = x
      /\ \A i \in 1 .. n : wire'[i] = wire[i] /\ wire[i] \in Frame
  BY <1>1, AppendFacts
<1>4. /\ WireOrdered(wire, past)
      /\ \A s \in past : s[2] <= seq[s[1]]
  BY DEF Ordered
<1>5. \A s \in past : s[1] \in Profiles /\ s[2] \in Nat /\ s[2] <= seq'[s[1]]
  BY <1>1, <1>2, <1>4
<1>6. \A s \in past : Newer(x, s)
  <2> TAKE s \in past
  <2>1. s[1] \in Profiles /\ s[2] \in Nat /\ s[2] <= seq[s[1]] /\ seq[s[1]] \in Nat
    BY <1>1, <1>4, <1>5
  <2>2. x.type = "event" => x.n \in Nat
    BY Kinds DEF EventFrame
  <2> QED
    BY <2>1, <2>2 DEF Newer
<1> HIDE DEF past
<1>7. \A i \in 1 .. n : Marked(wire[i]) => Newer(x, Mark(wire[i]))
  <2> SUFFICES ASSUME NEW i \in 1 .. n, Marked(wire[i]), x.type = "event", x.profile = Mark(wire[i])[1]
               PROVE  Mark(wire[i])[2] < x.n
    BY DEF Newer
  <2>1. /\ Mark(wire[i])[1] = wire[i].profile /\ Mark(wire[i])[2] \in Nat /\ wire[i].profile \in Profiles
    BY <1>3, MarkTyped
  <2>2. Mark(wire[i])[2] <= seq[wire[i].profile]
    BY <1>4 DEF WireOrdered
  <2>3. x.n \in Nat /\ seq[x.profile] < x.n /\ seq[wire[i].profile] \in Nat
    BY <1>1, <2>1, Kinds DEF EventFrame
  <2> QED
    BY <2>1, <2>2, <2>3
<1>8. ASSUME NEW j \in 1 .. n PROVE Marked(wire[j]) => Mark(wire[j])[2] <= seq'[wire[j].profile]
  <2> SUFFICES ASSUME Marked(wire[j]) PROVE Mark(wire[j])[2] <= seq'[wire[j].profile]
    OBVIOUS
  <2>1. wire[j].profile \in Profiles /\ Mark(wire[j])[2] \in Nat
    BY <1>3, MarkTyped
  <2>2. Mark(wire[j])[2] <= seq[wire[j].profile]
    BY <1>4 DEF WireOrdered
  <2> QED
    BY <1>1, <2>1, <2>2
<1>9. ASSUME NEW j \in 1 .. n + 1
      PROVE  /\ Marked(wire'[j]) => Mark(wire'[j])[2] <= seq'[wire'[j].profile]
             /\ \A i \in 1 .. j - 1 : Marked(wire'[i]) => Newer(wire'[j], Mark(wire'[i]))
             /\ \A s \in past : Newer(wire'[j], s)
  <2>1. CASE j = n + 1
    <3>1. wire'[j] = x /\ \A i \in 1 .. j - 1 : i \in 1 .. n /\ wire'[i] = wire[i]
      BY <1>3, <2>1
    <3> QED
      BY <1>6, <1>7, <3>1
  <2>2. CASE j # n + 1
    <3>1. j \in 1 .. n
      BY <1>3, <2>2
    <3>2. wire'[j] = wire[j] /\ \A i \in 1 .. j - 1 : i \in 1 .. n /\ wire'[i] = wire[i]
      BY <1>3, <3>1
    <3>3. /\ \A i \in 1 .. j - 1 : Marked(wire[i]) => Newer(wire[j], Mark(wire[i]))
          /\ \A s \in past : Newer(wire[j], s)
      BY <1>4, <3>1 DEF WireOrdered
    <3> QED
      BY <1>8, <3>1, <3>2, <3>3
  <2> QED
    BY <2>1, <2>2
<1>10. WireOrdered(wire, Past(client))'
  BY <1>2, <1>3, <1>9 DEF WireOrdered
<1> QED
  BY <1>2, <1>5, <1>10 DEF Ordered, HeldOrdered

\* A frame leaves the wire for a client that may come to have what it marks.
LEMMA LeavesOrdered ==
  ASSUME Typed, Typed', Ordered, wire # <<>>, wire' = Tail(wire), seq' = seq,
         NEW past, past \subseteq Past(client) \cup (IF Marked(wire[1]) THEN {Mark(wire[1])} ELSE {})
  PROVE  WireOrdered(wire', past) /\ \A s \in past : s[2] <= seq[s[1]]
<1> DEFINE n == Len(wire)
<1>1. /\ wire \in Seq(Frame) /\ n \in Nat \ {0} /\ Len(wire') = n - 1
      /\ \A i \in 1 .. n - 1 : wire'[i] = wire[i + 1] /\ i + 1 \in 1 .. n
      /\ wire[1] \in Frame /\ 1 \in 1 .. n
  <2>1. wire \in Seq(Frame)
    BY DEF Typed
  <2> QED
    BY <2>1, TailFacts
<1>2. WireOrdered(wire, Past(client)) /\ \A s \in Past(client) : s[2] <= seq[s[1]]
  BY DEF Ordered
<1>3. Marked(wire[1]) => /\ Mark(wire[1])[2] <= seq[wire[1].profile] /\ Mark(wire[1])[1] = wire[1].profile
                         /\ \A j \in 2 .. n : Newer(wire[j], Mark(wire[1]))
  <2>1. Marked(wire[1]) => Mark(wire[1])[1] = wire[1].profile
    BY <1>1, MarkTyped
  <2>2. \A j \in 2 .. n : j \in 1 .. n /\ 1 \in 1 .. j - 1
    BY <1>1
  <2> QED
    BY <1>1, <1>2, <2>1, <2>2 DEF WireOrdered
<1>4. \A s \in past : s[2] <= seq[s[1]]
  BY <1>2, <1>3
<1>5. ASSUME NEW j \in 1 .. n - 1
      PROVE  /\ Marked(wire'[j]) => Mark(wire'[j])[2] <= seq[wire'[j].profile]
             /\ \A i \in 1 .. j - 1 : Marked(wire'[i]) => Newer(wire'[j], Mark(wire'[i]))
             /\ \A s \in past : Newer(wire'[j], s)
  <2>1. j + 1 \in 1 .. n /\ j + 1 \in 2 .. n /\ wire'[j] = wire[j + 1]
    BY <1>1
  <2>2. /\ Marked(wire[j + 1]) => Mark(wire[j + 1])[2] <= seq[wire[j + 1].profile]
        /\ \A i \in 1 .. j : Marked(wire[i]) => Newer(wire[j + 1], Mark(wire[i]))
        /\ \A s \in Past(client) : Newer(wire[j + 1], s)
    <3>1. (j + 1) - 1 = j
      OBVIOUS
    <3> QED
      BY <1>2, <2>1, <3>1 DEF WireOrdered
  <2>3. \A i \in 1 .. j - 1 : wire'[i] = wire[i + 1] /\ i + 1 \in 1 .. j
    BY <1>1
  <2>4. \A s \in past : Newer(wire[j + 1], s)
    BY <1>3, <2>1, <2>2
  <2> QED
    BY <2>1, <2>2, <2>3, <2>4
<1> QED
  BY <1>1, <1>4, <1>5 DEF WireOrdered

\* Events handed over in order, none of which was seen or passed, are in order.
LEMMA FlushOrdered ==
  ASSUME NEW c \in Client, NEW events \in Seq(EventFrame), NEW a \in AnswerFrame, ~c.late,
         NEW replayed \in BOOLEAN, ~replayed,
         \A j \in 1 .. Len(events) :
            /\ \A i \in 1 .. j - 1 : Newer(events[j], Mark(events[i]))
            /\ PastBoundary(events[j], a) => \A s \in c.seen : Newer(events[j], s)
  PROVE  ~HandedAll(c, events, a, replayed).late
<1> DEFINE n == Len(events)
           Passes(j) == replayed \/ PastBoundary(events[j], a)
<1>1. n \in Nat /\ \A i \in 1 .. n : events[i] \in EventFrame
  OBVIOUS
<1>2. PICK g : /\ g[0] = c
               /\ \A i \in 1 .. n : g[i] = IF Passes(i) THEN Handed(g[i - 1], events[i], replayed) ELSE g[i - 1]
               /\ HandedAll(c, events, a, replayed) = g[n]
  BY <1>1, HandedAllSteps
<1>10. \A j \in 1 .. n : Passes(j) <=> PastBoundary(events[j], a)
  OBVIOUS
<1> HIDE DEF Passes
<1> DEFINE Q(k) == /\ g[k] \in Client /\ ~g[k].late
                   /\ \A s \in g[k].seen : s \in c.seen \/ \E j \in 1 .. k : s = Mark(events[j])
           S == {k \in 0 .. n : Q(k)}
<1>3. 0 \in S
  BY <1>1, <1>2
<1>4. ASSUME NEW k \in 1 .. n, k - 1 \in S PROVE k \in S
  <2>1. k - 1 \in 0 .. n /\ Q(k - 1) /\ events[k] \in EventFrame
    BY <1>1, <1>4
  <2> DEFINE x == g[k - 1]
             d == Handed(x, events[k], replayed)
  <2>2. CASE ~Passes(k)
    <3>1. g[k] = x /\ \A j \in 1 .. k - 1 : j \in 1 .. k
      BY <1>2, <2>2
    <3> QED
      BY <2>1, <3>1
  <2>3. CASE Passes(k)
    <3>1. g[k] = d
      BY <1>2, <2>3
    <3>2. /\ d \in Client
          /\ d.seen = IF Stale(x, events[k], replayed) THEN x.seen
                      ELSE x.seen \cup {<<events[k].profile, events[k].n>>}
          /\ d.late = (x.late \/ (/\ ~Stale(x, events[k], replayed) /\ ~replayed
                                  /\ \E s \in x.seen : s[1] = events[k].profile /\ s[2] >= events[k].n))
      BY <2>1, HandedFacts
    <3>3. Mark(events[k]) = <<events[k].profile, events[k].n>> /\ events[k].n \in Nat
          /\ events[k].type = "event"
      BY <2>1, MarkTyped
    <3>4. \A s \in d.seen : s \in c.seen \/ \E j \in 1 .. k : s = Mark(events[j])
      <4>1. \A j \in 1 .. k - 1 : j \in 1 .. k
        OBVIOUS
      <4>2. \A s \in d.seen : s \in x.seen \/ s = Mark(events[k])
        BY <3>2, <3>3
      <4>3. k \in 1 .. k
        OBVIOUS
      <4> HIDE DEF d
      <4> QED
        BY <2>1, <4>1, <4>2, <4>3
    <3>5. ASSUME NEW s \in x.seen, s[1] = events[k].profile PROVE ~(s[2] >= events[k].n)
      <4>1. Newer(events[k], s)
        <5>1. CASE s \in c.seen
          BY <1>1, <1>10, <2>3, <5>1
        <5>2. CASE \E j \in 1 .. k - 1 : s = Mark(events[j])
          BY <5>2
        <5> QED
          BY <2>1, <5>1, <5>2
      <4>2. s[2] \in Nat
        BY <2>1, ClientWrites
      <4> QED
        BY <3>3, <3>5, <4>1, <4>2 DEF Newer
    <3> HIDE DEF d
    <3>6. ~d.late
      BY <2>1, <3>2, <3>5
    <3> QED
      BY <2>1, <3>1, <3>2, <3>4, <3>6
  <2> QED
    BY <2>2, <2>3
<1> HIDE DEF S
<1>5. n \in S
  <2>1. \A k \in 0 .. n : k \in S
    BY <1>1, <1>3, <1>4, UpTo
  <2> QED
    BY <1>1, <2>1
<1> QED
  BY <1>2, <1>5 DEF S

\* The rings go on, and nothing else that the order is about.
LEMMA RisesOrdered ==
  ASSUME Typed, Typed', Ordered, wire' = wire, \A p \in Profiles : seq[p] <= seq'[p],
         client'.seen = client.seen, client'.held = client.held, client'.answered = client.answered,
         client'.inFlight = client.inFlight, client'.late = client.late
  PROVE  Ordered'
<1>1. wire \in Seq(Frame) /\ seq \in [Profiles -> Nat] /\ seq' \in [Profiles -> Nat] /\ client \in Client
  BY DEF Typed
<1>2. Past(client) \subseteq Profiles \X Nat /\ Past(client') = Past(client)
  BY <1>1, PastTyped DEF Past
<1>3. WireOrdered(wire, Past(client)) /\ \A s \in Past(client) : s[2] <= seq[s[1]]
  BY DEF Ordered
<1>4. \A s \in Past(client) : s[1] \in Profiles /\ s[2] \in Nat /\ s[2] <= seq'[s[1]]
  BY <1>1, <1>2, <1>3
<1>5. ASSUME NEW j \in 1 .. Len(wire), Marked(wire[j]) PROVE Mark(wire[j])[2] <= seq'[wire[j].profile]
  <2>1. wire[j] \in Frame
    BY <1>1
  <2>2. wire[j].profile \in Profiles /\ Mark(wire[j])[2] \in Nat
    BY <1>5, <2>1, MarkTyped
  <2>3. Mark(wire[j])[2] <= seq[wire[j].profile]
    BY <1>3, <1>5 DEF WireOrdered
  <2> QED
    BY <1>1, <2>2, <2>3
<1>6. WireOrdered(wire, Past(client))'
  BY <1>2, <1>3, <1>5 DEF WireOrdered
<1> QED
  BY <1>2, <1>4, <1>6 DEF Ordered, HeldOrdered

\* The head of the wire leaves, and the client keeps what the order is about.
LEMMA DropsOrdered ==
  ASSUME Typed, Typed', Ordered, wire # <<>>, wire' = Tail(wire), seq' = seq,
         client'.seen = client.seen, client'.held = client.held, client'.answered = client.answered,
         client'.inFlight >= client.inFlight, client'.late = client.late
  PROVE  Ordered'
<1>1. Past(client') = Past(client)
  BY DEF Past
<1>2. WireOrdered(wire', Past(client)) /\ \A s \in Past(client) : s[2] <= seq[s[1]]
  BY LeavesOrdered
<1>3. client.inFlight \in Int /\ client'.inFlight \in Int
  BY DEF Typed, Client
<1> QED
  BY <1>1, <1>2, <1>3 DEF Ordered, HeldOrdered, WireOrdered

LEMMA EventOrdered ==
  ASSUME Typed, Typed', Ordered, EventArrives
  PROVE  Ordered'
<1> DEFINE e == wire[1]
<1>1. /\ wire # <<>> /\ e \in EventFrame /\ wire' = Tail(wire) /\ seq' = seq /\ client \in Client
      /\ \/ /\ client.inFlight > 0
            /\ client' = [client EXCEPT !.held = Append(client.held, e)]
         \/ /\ ~(client.inFlight > 0)
            /\ client' = Handed(client, e, FALSE)
  BY EventFacts DEF Typed
<1>2. /\ e \in Frame /\ Marked(e) /\ Mark(e) = <<e.profile, e.n>> /\ e.type = "event" /\ e.n \in Nat
      /\ e.profile \in Profiles
  BY <1>1, MarkTyped
<1>3. /\ \A s \in Past(client) : Newer(e, s)
      /\ client.seen \subseteq Past(client)
      /\ \A i \in 1 .. Len(client.held) : Mark(client.held[i]) \in Past(client)
  <2>1. 1 \in 1 .. Len(wire)
    <3>1. Len(wire) \in Nat \ {0}
      BY <1>1, TailFacts DEF Typed
    <3> QED
      BY <3>1
  <2> QED
    BY <2>1 DEF Ordered, WireOrdered, Past
<1>4. client.held \in Seq(EventFrame) /\ client.seen \subseteq Profiles \X Nat
  BY <1>1, ClientWrites
<1>5. \/ client.inFlight > 0 \/ client.held = <<>>
  BY DEF Ordered
<1>6. ~client.late /\ HeldOrdered(client)
  BY DEF Ordered
<1>7. \A past : past \subseteq Past(client) \cup {Mark(e)} =>
         WireOrdered(wire', past) /\ \A s \in past : s[2] <= seq[s[1]]
  <2> SUFFICES ASSUME NEW past, past \subseteq Past(client) \cup {Mark(e)}
               PROVE  WireOrdered(wire', past) /\ \A s \in past : s[2] <= seq[s[1]]
    OBVIOUS
  <2>1. past \subseteq Past(client) \cup (IF Marked(wire[1]) THEN {Mark(wire[1])} ELSE {})
    BY <1>2
  <2> QED
    BY <1>1, <2>1, LeavesOrdered
<1> HIDE DEF e
<1>8. CASE client.inFlight > 0 /\ client' = [client EXCEPT !.held = Append(client.held, e)]
  <2> DEFINE m == Len(client.held)
  <2>1. /\ client'.held = Append(client.held, e) /\ client'.seen = client.seen
        /\ client'.answered = client.answered /\ client'.inFlight = client.inFlight
        /\ client'.late = client.late
    BY <1>1, <1>8 DEF Client
  <2>2. /\ m \in Nat /\ Len(client'.held) = m + 1 /\ client'.held[m + 1] = e
        /\ \A i \in 1 .. m : client'.held[i] = client.held[i]
    BY <1>1, <1>4, <2>1, AppendFacts
  <2>3. \A i \in 1 .. Len(client'.held) : Mark(client'.held[i]) \in Past(client) \cup {Mark(e)}
    <3> TAKE i \in 1 .. Len(client'.held)
    <3>1. i = m + 1 \/ i \in 1 .. m
      BY <2>2
    <3> QED
      BY <1>3, <2>2, <3>1
  <2>4. Past(client') \subseteq Past(client) \cup {Mark(e)}
    BY <2>1, <2>3 DEF Past
  <2>5. ASSUME NEW j \in 1 .. m + 1
        PROVE  /\ \A i \in 1 .. j - 1 : Newer(client'.held[j], Mark(client'.held[i]))
               /\ \A s \in client'.seen : Newer(client'.held[j], s)
    <3>1. CASE j = m + 1
      <4>1. \A i \in 1 .. j - 1 : i \in 1 .. m
        BY <2>2, <3>1
      <4> QED
        BY <1>3, <2>1, <2>2, <3>1, <4>1
    <3>2. CASE j # m + 1
      <4>1. j \in 1 .. m /\ \A i \in 1 .. j - 1 : i \in 1 .. m
        BY <2>2, <3>2
      <4> QED
        BY <1>6, <2>1, <2>2, <4>1 DEF HeldOrdered
    <3> QED
      BY <3>1, <3>2
  <2>6. HeldOrdered(client')
    BY <2>2, <2>5 DEF HeldOrdered
  <2>7. WireOrdered(wire', Past(client')) /\ \A s \in Past(client') : s[2] <= seq[s[1]]
    BY <1>7, <2>4
  <2> QED
    BY <1>1, <1>6, <1>8, <2>1, <2>6, <2>7 DEF Ordered, WireOrdered
<1>9. CASE ~(client.inFlight > 0) /\ client' = Handed(client, e, FALSE)
  <2>1. /\ client' \in Client /\ Beside(client, client')
        /\ client'.seen = IF Stale(client, e, FALSE) THEN client.seen
                          ELSE client.seen \cup {<<e.profile, e.n>>}
        /\ client'.late = (client.late \/ (/\ ~Stale(client, e, FALSE) /\ ~FALSE
                                           /\ \E s \in client.seen : s[1] = e.profile /\ s[2] >= e.n))
    <3>1. e \in EventFrame
      BY <1>1 DEF e
    <3> QED
      BY <1>1, <1>9, <3>1, HandedFacts
  <2>2. \A s \in client.seen : ~(s[1] = e.profile /\ s[2] >= e.n)
    <3> SUFFICES ASSUME NEW s \in client.seen, s[1] = e.profile, s[2] >= e.n PROVE FALSE
      OBVIOUS
    <3>1. s[2] < e.n
      BY <1>2, <1>3 DEF Newer
    <3>2. s[2] \in Nat /\ e.n \in Nat
      BY <1>2, <1>4
    <3> QED
      BY <3>1, <3>2
  <2>3. ~client'.late
    BY <1>6, <2>1, <2>2
  <2>4. client'.held = <<>> /\ client'.answered = client.answered /\ client'.seen \subseteq client.seen \cup {Mark(e)}
    BY <1>2, <1>5, <1>9, <2>1 DEF Beside
  <2>5. Past(client') \subseteq Past(client) \cup {Mark(e)}
    BY <1>5, <1>9, <2>4 DEF Past
  <2>6. WireOrdered(wire', Past(client')) /\ \A s \in Past(client') : s[2] <= seq[s[1]]
    BY <1>7, <2>5
  <2> QED
    BY <1>1, <2>3, <2>4, <2>6 DEF Ordered, WireOrdered, HeldOrdered
<1> QED
  BY <1>1, <1>8, <1>9 DEF e

LEMMA AnswerOrdered ==
  ASSUME Typed, Typed', Ordered, SubscribedArrives
  PROVE  Ordered'
<1> DEFINE a == wire[1]
<1>1. /\ wire # <<>> /\ a \in AnswerFrame /\ wire' = Tail(wire) /\ seq' = seq /\ client \in Client
      /\ client' = [client EXCEPT !.answered = Append(client.answered, a)]
  BY AnswerFacts DEF Typed
<1>2. Marked(a) /\ client.answered \in Seq(AnswerFrame)
  BY <1>1, MarkTyped, ClientWrites
<1>3. /\ client'.answered = Append(client.answered, a) /\ client'.held = client.held
      /\ client'.seen = client.seen /\ client'.inFlight = client.inFlight /\ client'.late = client.late
  BY <1>1 DEF Client
<1>4. Past(client') \subseteq Past(client) \cup (IF Marked(wire[1]) THEN {Mark(wire[1])} ELSE {})
  <2>1. /\ Len(client'.answered) = Len(client.answered) + 1 /\ Len(client.answered) \in Nat
        /\ client'.answered[Len(client.answered) + 1] = a
        /\ \A i \in 1 .. Len(client.answered) : client'.answered[i] = client.answered[i]
    BY <1>1, <1>2, <1>3, AppendFacts
  <2>2. \A i \in 1 .. Len(client'.answered) : \/ client'.answered[i] = a
                                              \/ i \in 1 .. Len(client.answered) /\ client'.answered[i] = client.answered[i]
    BY <2>1
  <2> HIDE DEF a
  <2>3. \A i \in 1 .. Len(client'.answered) : Mark(client'.answered[i]) \in Past(client) \cup {Mark(a)}
    BY <2>2 DEF Past
  <2>4. Past(client') \subseteq Past(client) \cup {Mark(a)}
    BY <1>3, <2>3 DEF Past
  <2> QED
    BY <1>2, <2>4 DEF a
<1>5. WireOrdered(wire', Past(client')) /\ \A s \in Past(client') : s[2] <= seq[s[1]]
  BY <1>1, <1>4, LeavesOrdered
<1> QED
  BY <1>1, <1>3, <1>5 DEF Ordered, WireOrdered, HeldOrdered

LEMMA SubscribedOrdered ==
  ASSUME Typed, Typed', Ordered, Subscribed
  PROVE  Ordered'
<1>1. InFlight(client) = client.inFlight - 1
  BY DEF InFlight
<1>2. PICK a, caughtUp, flushed :
         /\ a \in AnswerFrame /\ caughtUp \in Client /\ flushed \in Client
         /\ a = Head(client.answered) /\ client.answered # <<>>
         /\ SubscribedClient(a, client')
         /\ flushed = HandedAll(caughtUp, client.held, a, FALSE)
         /\ client'.seen = flushed.seen /\ client'.late = flushed.late
         /\ caughtUp.late = client.late
         /\ \A s \in caughtUp.seen : s \in client.seen
                                     \/ (s[1] = a.profile /\ s[2] \in Nat /\ s[2] >= a.from /\ s[2] <= a.boundary)
  BY <1>1, SubscribedFacts
<1>3. UNCHANGED <<seq, wire>>
  BY DEF Subscribed
<1>4. /\ client \in Client /\ client.held \in Seq(EventFrame) /\ client.answered \in Seq(AnswerFrame)
      /\ \A i \in 1 .. Len(client.held) : client.held[i] \in EventFrame
      /\ \A i \in 1 .. Len(client.answered) : client.answered[i] \in AnswerFrame
      /\ client.seen \subseteq Profiles \X Nat
  <2>1. client \in Client
    BY DEF Typed
  <2>2. client.held \in Seq(EventFrame) /\ client.answered \in Seq(AnswerFrame) /\ client.seen \subseteq Profiles \X Nat
    BY <2>1, ClientWrites
  <2> QED
    BY <2>1, <2>2
<1>5. /\ WireOrdered(wire, Past(client)) /\ \A s \in Past(client) : s[2] <= seq[s[1]]
      /\ HeldOrdered(client) /\ ~client.late
  BY DEF Ordered
<1>6. /\ Len(client.answered) \in Nat \ {0} /\ a = client.answered[1] /\ Tail(client.answered) \in Seq(AnswerFrame)
      /\ Len(Tail(client.answered)) = Len(client.answered) - 1
      /\ \A i \in 1 .. Len(client.answered) - 1 :
            Tail(client.answered)[i] = client.answered[i + 1] /\ i + 1 \in 1 .. Len(client.answered)
  BY <1>2, <1>4, TailFacts
<1>7. Mark(a) = <<a.profile, a.boundary>> /\ Mark(a) \in Past(client) /\ a.profile \in Profiles /\ a.boundary \in Nat
  <2>1. 1 \in 1 .. Len(client.answered)
    BY <1>6
  <2> QED
    BY <1>2, <1>6, <2>1, MarkTyped DEF Past
\* What the replay brought is no newer than its boundary.
<1>8. ASSUME NEW s \in caughtUp.seen
      PROVE  \/ s \in client.seen
             \/ s[1] = Mark(a)[1] /\ s[2] \in Nat /\ s[2] <= Mark(a)[2]
  BY <1>2, <1>7
<1>9. ~flushed.late
  <2> DEFINE events == client.held
  <2>1. ASSUME NEW j \in 1 .. Len(events)
        PROVE  /\ \A i \in 1 .. j - 1 : Newer(events[j], Mark(events[i]))
               /\ PastBoundary(events[j], a) => \A s \in caughtUp.seen : Newer(events[j], s)
    <3>1. /\ \A i \in 1 .. j - 1 : Newer(events[j], Mark(events[i]))
          /\ \A s \in client.seen : Newer(events[j], s)
      BY <1>5 DEF HeldOrdered
    <3>2. ASSUME PastBoundary(events[j], a), NEW s \in caughtUp.seen PROVE Newer(events[j], s)
      <4>1. CASE s \in client.seen
        BY <3>1, <4>1
      <4>2. CASE s[1] = Mark(a)[1] /\ s[2] \in Nat /\ s[2] <= Mark(a)[2]
        <5>1. events[j].n > a.boundary /\ events[j].n \in Nat
          BY <1>4, <3>2, MarkTyped DEF PastBoundary
        <5> QED
          BY <1>7, <4>2, <5>1 DEF Newer
      <4> QED
        BY <1>8, <4>1, <4>2
    <3> QED
      BY <3>1, <3>2
  <2>2. ~caughtUp.late
    BY <1>2, <1>5
  <2>3. \A replayed \in BOOLEAN : ~replayed => ~HandedAll(caughtUp, events, a, replayed).late
    BY <1>2, <1>4, <2>1, <2>2, FlushOrdered
  <2> QED
    BY <1>2, <2>3
<1>10. ASSUME NEW s \in client'.seen
       PROVE  \/ s \in Past(client)
              \/ s[1] = Mark(a)[1] /\ s[2] \in Nat /\ s[2] <= Mark(a)[2]
  <2>1. Result(caughtUp, client.held, a, FALSE, flushed)
    BY <1>2, <1>4, HandedAllFacts
  <2>2. \/ s \in caughtUp.seen
        \/ \E j \in 1 .. Len(client.held) : s = <<client.held[j].profile, client.held[j].n>>
    BY <1>2, <2>1 DEF Result
  <2>3. CASE s \in caughtUp.seen
    BY <1>8, <2>3 DEF Past
  <2>4. CASE \E j \in 1 .. Len(client.held) : s = <<client.held[j].profile, client.held[j].n>>
    <3>1. PICK j \in 1 .. Len(client.held) : s = <<client.held[j].profile, client.held[j].n>>
      BY <2>4
    <3>2. s = Mark(client.held[j])
      BY <1>4, <3>1, MarkTyped
    <3> QED
      BY <3>2 DEF Past
  <2> QED
    BY <2>2, <2>3, <2>4
<1>11. client'.held = <<>> /\ client'.answered = Tail(client.answered) /\ client'.late = flushed.late
  BY <1>2 DEF SubscribedClient
<1>12. ASSUME NEW s \in Past(client')
       PROVE  \/ s \in Past(client)
              \/ s[1] = Mark(a)[1] /\ s[2] \in Nat /\ s[2] <= Mark(a)[2]
  <2>1. s \in client'.seen \/ \E i \in 1 .. Len(client'.answered) : s = Mark(client'.answered[i])
    BY <1>11 DEF Past
  <2>2. \A i \in 1 .. Len(client'.answered) : Mark(client'.answered[i]) \in Past(client)
    <3> TAKE i \in 1 .. Len(client'.answered)
    <3>1. i + 1 \in 1 .. Len(client.answered) /\ client'.answered[i] = client.answered[i + 1]
      BY <1>6, <1>11
    <3> QED
      BY <3>1 DEF Past
  <2> QED
    BY <1>10, <2>1, <2>2
<1>13. \A s \in Past(client') : s[2] <= seq[s[1]]
  <2> TAKE s \in Past(client')
  <2>1. Mark(a)[2] <= seq[Mark(a)[1]] /\ Mark(a)[2] \in Nat /\ seq[Mark(a)[1]] \in Nat
    BY <1>5, <1>7 DEF Typed
  <2> QED
    BY <1>5, <1>12, <2>1
<1>14. ASSUME NEW j \in 1 .. Len(wire), NEW s \in Past(client') PROVE Newer(wire[j], s)
  <2>1. \A t \in Past(client) : Newer(wire[j], t)
    BY <1>5 DEF WireOrdered
  <2>2. CASE s \in Past(client)
    BY <2>1, <2>2
  <2>3. CASE s[1] = Mark(a)[1] /\ s[2] \in Nat /\ s[2] <= Mark(a)[2]
    <3>1. Newer(wire[j], Mark(a)) /\ Mark(a)[2] \in Nat
      BY <1>7, <2>1
    <3>2. wire[j].type = "event" => wire[j].n \in Nat
      <4>1. wire[j] \in Frame
        BY DEF Typed
      <4> QED
        BY <4>1, Kinds DEF EventFrame
    <3> QED
      BY <2>3, <3>1, <3>2 DEF Newer
  <2> QED
    BY <1>12, <2>2, <2>3
<1>15. WireOrdered(wire, Past(client'))
  BY <1>5, <1>14 DEF WireOrdered
<1> QED
  BY <1>3, <1>9, <1>11, <1>13, <1>15 DEF Ordered, WireOrdered, HeldOrdered

\* A connection that begins again has no events yet.
LEMMA ResetOrdered ==
  ASSUME client'.seen = {}, client'.held = <<>>, client'.answered = <<>>, ~client'.late,
         \A i \in 1 .. Len(wire') : ~Marked(wire'[i]) /\ wire'[i].type # "event"
  PROVE  Ordered'
<1>1. Past(client') = {}
  BY DEF Past
<1> QED
  BY <1>1 DEF Ordered, WireOrdered, HeldOrdered, Newer

LEMMA OrderedStep ==
  ASSUME Typed, Ordered, Next
  PROVE  Ordered'
<1>0. Typed'
  BY TypedStep
<1>1. ASSUME NEW p \in Profiles, Push(p) PROVE Ordered'
  <2>1. /\ seq[p] \in Nat /\ seq' = [seq EXCEPT ![p] = seq[p] + 1] /\ seq \in [Profiles -> Nat]
        /\ client' = client /\ wire' = Delivered(p)
    BY <1>1 DEF Push, Typed
  <2>2. \A q \in Profiles : seq[q] <= seq'[q]
    BY <2>1
  <2>3. CASE wire' = wire
    BY <1>0, <2>1, <2>2, <2>3, RisesOrdered
  <2>4. CASE wire' = Append(wire, Event(p, seq[p] + 1))
    <3> DEFINE x == Event(p, seq[p] + 1)
    <3>1. x \in Frame /\ x \in EventFrame
      BY <2>1, FrameTyped
    <3>2. Mark(x) = <<p, seq[p] + 1>> /\ x.profile = p /\ x.n = seq[p] + 1 /\ seq'[p] = seq[p] + 1
      BY <2>1 DEF Event, Mark
    <3>3. wire' = Append(wire, x)
      BY <2>4
    <3> HIDE DEF x
    <3>4. Mark(x)[2] <= seq'[x.profile] /\ seq[x.profile] < x.n
      BY <2>1, <3>2
    <3> QED
      BY <1>0, <2>1, <2>2, <3>1, <3>3, <3>4, JoinsOrdered
  <2> QED
    BY <2>1, <2>3, <2>4 DEF Delivered
<1>2. ASSUME PushAll PROVE Ordered'
  <2> DEFINE p == session.audience
  <2>1. /\ p \in Profiles /\ seq[p] \in Nat /\ seq' = [q \in Profiles |-> seq[q] + 1] /\ seq \in [Profiles -> Nat]
        /\ client' = client /\ wire' = Delivered(p)
    BY <1>2 DEF PushAll, Typed
  <2>2. \A q \in Profiles : seq[q] <= seq'[q]
    BY <2>1
  <2> HIDE DEF p
  <2>3. CASE wire' = wire
    BY <1>0, <2>1, <2>2, <2>3, RisesOrdered
  <2>4. CASE wire' = Append(wire, Event(p, seq[p] + 1))
    <3> DEFINE x == Event(p, seq[p] + 1)
    <3>1. x \in Frame /\ x \in EventFrame
      BY <2>1, FrameTyped
    <3>2. Mark(x) = <<p, seq[p] + 1>> /\ x.profile = p /\ x.n = seq[p] + 1 /\ seq'[p] = seq[p] + 1
      BY <2>1 DEF Event, Mark
    <3>3. wire' = Append(wire, x)
      BY <2>4
    <3> HIDE DEF x
    <3>4. Mark(x)[2] <= seq'[x.profile] /\ seq[x.profile] < x.n
      BY <2>1, <3>2
    <3> QED
      BY <1>0, <2>1, <2>2, <3>1, <3>3, <3>4, JoinsOrdered
  <2> QED
    BY <2>1, <2>3, <2>4 DEF Delivered
<1>3. \A p \in Profiles : seq[p] <= seq[p] /\ seq[p] \in Nat
  BY DEF Typed
<1>4. ASSUME ServeBind PROVE Ordered'
  <2> DEFINE x == [type |-> "bound", profile |-> Head(requests).profile]
  <2>1. Head(requests) \in BindRequest
    BY <1>4, Kinds DEF ServeBind, Typed
  <2>2. Head(requests).profile \in Profiles
    BY <2>1 DEF BindRequest
  <2>3. x \in Frame /\ ~Marked(x) /\ x.type # "event" /\ wire' = Append(wire, x) /\ UNCHANGED <<seq, client>>
    BY <1>4, <2>2, FrameTyped DEF ServeBind, Marked
  <2> HIDE DEF x
  <2> QED
    BY <1>0, <1>3, <2>3, JoinsOrdered
<1>5. ASSUME ServeSubscribe PROVE Ordered'
  <2>1. PICK x : Answered(session.audience, requests[1].after, x) /\ wire' = Append(wire, x)
    BY <1>5, ServeSubscribeFacts
  <2>2. UNCHANGED <<seq, client>>
    BY <1>5, ServeSubscribeFacts
  <2>3. x \in AnswerFrame /\ x \in Frame /\ x.boundary = seq[x.profile] /\ x.type # "event" /\ x.profile \in Profiles
    BY <2>1, MarkTyped DEF Answered
  <2>4. Mark(x)[2] <= seq'[x.profile]
    BY <1>3, <2>2, <2>3 DEF Mark
  <2> QED
    BY <1>0, <1>3, <2>1, <2>2, <2>3, <2>4, JoinsOrdered
<1>6. ASSUME ServeSnapshot PROVE Ordered'
  <2> DEFINE x == [type |-> "snapshot", profile |-> session.audience, n |-> seq[session.audience]]
  <2>1. x \in Frame
    BY FrameTyped DEF Typed
  <2>2. ~Marked(x) /\ x.type # "event" /\ wire' = Append(wire, x) /\ UNCHANGED <<seq, client>>
    BY <1>6 DEF ServeSnapshot, Marked
  <2> HIDE DEF x
  <2> QED
    BY <1>0, <1>3, <2>1, <2>2, JoinsOrdered
<1>7. ASSUME Connect PROVE Ordered'
  <2>1. client'.seen = {} /\ client'.held = <<>> /\ client'.answered = <<>> /\ ~client'.late
    BY <1>7 DEF Connect, NewClient
  <2>2. Len(wire') = 1 /\ wire'[1].type = "hello"
    BY <1>7 DEF Connect
  <2>3. \A i \in 1 .. Len(wire') : ~Marked(wire'[i]) /\ wire'[i].type # "event"
    BY <2>2 DEF Marked
  <2> QED
    BY <2>1, <2>3, ResetOrdered
<1>8. ASSUME HelloArrives PROVE Ordered'
  <2>1. wire # <<>> /\ wire' = Tail(wire) /\ seq' = seq
        /\ client' = [client EXCEPT !.cursor = wire[1].sequence, !.phase = "binding"]
    BY <1>8, HelloFacts
  <2>2. /\ client'.seen = client.seen /\ client'.held = client.held /\ client'.answered = client.answered
        /\ client'.inFlight = client.inFlight /\ client'.late = client.late /\ client.inFlight \in Int
    BY <2>1 DEF Typed, Client
  <2>3. client'.inFlight >= client.inFlight
    BY <2>2
  <2> QED
    BY <1>0, <2>1, <2>2, <2>3, DropsOrdered
<1>9. ASSUME BoundArrives PROVE Ordered'
  <2>1. wire # <<>> /\ wire' = Tail(wire) /\ seq' = seq
        /\ client' = [client EXCEPT !.inFlight = client.inFlight + 1, !.phase = "subscribing"]
    BY <1>9, BoundFacts
  <2>2. /\ client'.seen = client.seen /\ client'.held = client.held /\ client'.answered = client.answered
        /\ client'.inFlight = client.inFlight + 1 /\ client'.late = client.late /\ client.inFlight \in Int
    BY <2>1 DEF Typed, Client
  <2>3. client'.inFlight >= client.inFlight
    BY <2>2
  <2> QED
    BY <1>0, <2>1, <2>2, <2>3, DropsOrdered
<1>10. ASSUME EventArrives PROVE Ordered'
  BY <1>0, <1>10, EventOrdered
<1>11. ASSUME SubscribedArrives PROVE Ordered'
  BY <1>0, <1>11, AnswerOrdered
<1>12. ASSUME SnapshotArrives PROVE Ordered'
  <2>1. /\ wire # <<>> /\ wire' = Tail(wire) /\ seq' = seq
        /\ client'.seen = client.seen /\ client'.held = client.held /\ client'.answered = client.answered
        /\ client'.inFlight = client.inFlight /\ client'.late = client.late
    BY <1>12, SnapshotFacts
  <2>2. client'.inFlight >= client.inFlight
    BY <2>1 DEF Typed, Client
  <2> QED
    BY <1>0, <2>1, <2>2, DropsOrdered
<1>13. ASSUME Subscribed PROVE Ordered'
  BY <1>0, <1>13, SubscribedOrdered
<1>14. ASSUME NEW p \in Profiles, Switch(p) PROVE Ordered'
  <2>1. /\ wire' = wire /\ seq' = seq /\ client'.seen = client.seen /\ client'.held = client.held
        /\ client'.answered = client.answered /\ client'.inFlight = client.inFlight
        /\ client'.late = client.late
    BY <1>14 DEF Switch, Typed, Client
  <2> QED
    BY <1>0, <1>3, <2>1, RisesOrdered
<1>15. ASSUME Reload PROVE Ordered'
  <2>1. /\ wire' = wire /\ seq' = seq /\ client'.seen = client.seen /\ client'.held = client.held
        /\ client'.answered = client.answered /\ client'.inFlight = client.inFlight
        /\ client'.late = client.late
    BY <1>15 DEF Reload, Typed, Client
  <2> QED
    BY <1>0, <1>3, <2>1, RisesOrdered
<1>16. ASSUME Disconnect \/ Restart PROVE Ordered'
  <2>1. /\ client'.seen = {} /\ client'.held = <<>> /\ client'.answered = <<>> /\ ~client'.late
        /\ wire' = <<>>
    BY <1>16 DEF Disconnect, Restart, NewClient
  <2> QED
    BY <2>1, ResetOrdered
<1> QED
  BY <1>1, <1>2, <1>4, <1>5, <1>6, <1>7, <1>8, <1>9, <1>10, <1>11, <1>12, <1>13, <1>14, <1>15, <1>16
  DEF Next, Serve, Receive

LEMMA OrderedStart == Init => Typed /\ Ordered
<1> SUFFICES ASSUME Init PROVE Typed /\ Ordered
  OBVIOUS
<1>1. client = NewClient /\ NewClient \in Client
  BY NewClientTyped DEF Init
<1>2. seq \in [Profiles -> Nat] /\ session \in [state : {"none", "active"}, audience : Profiles]
  BY StreamAssumption DEF Init, NewSession
<1>3. Typed
  BY <1>1, <1>2 DEF Init, Typed
<1>4. Past(client) = {} /\ client.held = <<>> /\ ~client.late /\ wire = <<>>
  BY DEF Init, NewClient, Past
<1> QED
  BY <1>3, <1>4 DEF Ordered, WireOrdered, HeldOrdered

LEMMA OrderedAlways == Spec => [](Typed /\ Ordered)
<1>1. Typed /\ Ordered /\ [Next]_vars => (Typed /\ Ordered)'
  <2> SUFFICES ASSUME Typed, Ordered, [Next]_vars PROVE (Typed /\ Ordered)'
    OBVIOUS
  <2>1. CASE Next
    BY <2>1, TypedStep, OrderedStep
  <2>2. CASE UNCHANGED vars
    BY <2>2 DEF vars, Typed, Ordered, WireOrdered, HeldOrdered
  <2> QED
    BY <2>1, <2>2
<1> QED
  BY <1>1, OrderedStart, PTL DEF Spec

\* deliverEvent: a live event is handed over once and never after a newer one, with any
\* number of profiles, through the replays, the events held back and the switches.
THEOREM InOrder == Spec => []LiveInOrder
<1>1. Typed /\ Ordered => LiveInOrder
  BY DEF Ordered, LiveInOrder
<1> QED
  BY <1>1, OrderedAlways, PTL

-----------------------------------------------------------------------------
(* The frames that are under way, and how many of a kind.                    *)

In(s) == {s[i] : i \in 1 .. Len(s)}
Count(s, type) == Cardinality({i \in 1 .. Len(s) : s[i].type = type})

LEMMA InFacts ==
  ASSUME NEW T, NEW w \in Seq(T)
  PROVE  /\ \A x \in T : In(Append(w, x)) = In(w) \cup {x}
         /\ w # <<>> => In(Tail(w)) \subseteq In(w) /\ Head(w) \in In(w) /\ w[1] \in In(w)
         /\ w # <<>> => In(w) = In(Tail(w)) \cup {w[1]}
         /\ In(w) \subseteq T /\ In(<<>>) = {}
<1>1. ASSUME NEW x \in T PROVE In(Append(w, x)) = In(w) \cup {x}
  <2> DEFINE v == Append(w, x)
  <2>1. /\ Len(v) = Len(w) + 1 /\ Len(w) \in Nat /\ v[Len(w) + 1] = x
        /\ \A i \in 1 .. Len(w) : v[i] = w[i]
    BY AppendFacts
  <2> HIDE DEF v
  <2>2. \A i \in 1 .. Len(v) : i \in 1 .. Len(w) \/ i = Len(w) + 1
    BY <2>1
  <2>3. Len(w) + 1 \in 1 .. Len(v) /\ \A i \in 1 .. Len(w) : i \in 1 .. Len(v)
    BY <2>1
  <2>4. In(v) \subseteq In(w) \cup {x}
    BY <2>1, <2>2 DEF In
  <2>5. In(w) \cup {x} \subseteq In(v)
    BY <2>1, <2>3 DEF In
  <2> QED
    BY <2>4, <2>5 DEF v
<1>2. ASSUME w # <<>> PROVE In(w) = In(Tail(w)) \cup {w[1]} /\ Head(w) = w[1]
  <2> DEFINE v == Tail(w)
  <2>1. /\ Head(w) = w[1] /\ Len(v) = Len(w) - 1 /\ Len(w) \in Nat \ {0}
        /\ \A i \in 1 .. Len(w) - 1 : v[i] = w[i + 1] /\ i + 1 \in 1 .. Len(w)
    BY <1>2, TailFacts
  <2> HIDE DEF v
  <2>2. \A i \in 1 .. Len(w) : i = 1 \/ (i - 1 \in 1 .. Len(v) /\ w[i] = v[i - 1])
    <3> TAKE i \in 1 .. Len(w)
    <3>1. CASE i # 1
      <4>1. i - 1 \in 1 .. Len(w) - 1 /\ (i - 1) + 1 = i
        BY <2>1, <3>1
      <4> QED
        BY <2>1, <4>1
    <3> QED
      BY <3>1
  <2>3. In(w) \subseteq In(v) \cup {w[1]}
    BY <2>2 DEF In
  <2>4. In(v) \subseteq In(w)
    BY <2>1 DEF In
  <2>5. 1 \in 1 .. Len(w)
    BY <2>1
  <2>6. w[1] \in In(w)
    BY <2>5 DEF In
  <2> QED
    BY <2>1, <2>3, <2>4, <2>6 DEF v
<1>3. In(w) \subseteq T /\ In(<<>>) = {}
  BY DEF In
<1> QED
  BY <1>1, <1>2, <1>3

LEMMA CountFacts ==
  ASSUME NEW T, NEW w \in Seq(T), NEW t
  PROVE  /\ Count(w, t) \in Nat
         /\ \A x \in T : Count(Append(w, x), t) = Count(w, t) + (IF x.type = t THEN 1 ELSE 0)
         /\ w # <<>> => Count(Tail(w), t) = Count(w, t) - (IF w[1].type = t THEN 1 ELSE 0)
         /\ w # <<>> /\ w[1].type = t => Count(w, t) >= 1
<1> DEFINE n == Len(w)
           At(s) == {i \in 1 .. Len(s) : s[i].type = t}
<1>0. \A s : Count(s, t) = Cardinality(At(s))
  BY DEF Count
<1>1. n \in Nat
  OBVIOUS
<1>2. IsFiniteSet(At(w)) /\ Cardinality(At(w)) \in Nat /\ Count(w, t) = Cardinality(At(w))
  <2>1. IsFiniteSet(1 .. n) /\ At(w) \in SUBSET (1 .. n)
    BY <1>1, FS_Interval
  <2>2. IsFiniteSet(At(w))
    BY <2>1, FS_Subset
  <2> QED
    BY <2>2, FS_CardinalityType DEF Count
<1>3. ASSUME NEW x \in T PROVE Count(Append(w, x), t) = Count(w, t) + (IF x.type = t THEN 1 ELSE 0)
  <2> DEFINE v == Append(w, x)
  <2>1. Len(v) = n + 1 /\ v[n + 1] = x /\ \A i \in 1 .. n : v[i] = w[i]
    BY AppendFacts
  <2> HIDE DEF v
  <2>2. At(v) = IF x.type = t THEN At(w) \cup {n + 1} ELSE At(w)
    BY <1>1, <2>1
  <2>3. n + 1 \notin At(w)
    BY <1>1
  <2> HIDE DEF At, n
  <2>4. CASE x.type = t
    <3>1. Cardinality(At(w) \cup {n + 1}) = Cardinality(At(w)) + 1
      BY <1>2, <2>3, FS_AddElement
    <3> QED
      BY <1>0, <1>2, <2>2, <2>4, <3>1 DEF v
  <2>5. CASE x.type # t
    BY <1>0, <1>2, <2>2, <2>5 DEF v
  <2> QED
    BY <2>4, <2>5
<1>4. ASSUME w # <<>>
      PROVE  /\ Count(Tail(w), t) = Count(w, t) - (IF w[1].type = t THEN 1 ELSE 0)
             /\ w[1].type = t => Count(w, t) >= 1
  <2> DEFINE v == Tail(w)
             rest == {i \in 2 .. n : w[i].type = t}
             f == [i \in At(v) |-> i + 1]
  <2>1. /\ Len(v) = n - 1 /\ n \in Nat \ {0} /\ \A i \in 1 .. n - 1 : v[i] = w[i + 1]
    BY <1>4, TailFacts
  <2>2. IsFiniteSet(At(v)) /\ Cardinality(At(v)) \in Nat
    <3>1. IsFiniteSet(1 .. n - 1) /\ At(v) \in SUBSET (1 .. n - 1)
      BY <2>1, FS_Interval
    <3>2. IsFiniteSet(At(v))
      BY <3>1, FS_Subset
    <3> QED
      BY <3>2, FS_CardinalityType
  <2> HIDE DEF v
  <2>3. f \in [At(v) -> rest] /\ \A a, b \in At(v) : f[a] = f[b] => a = b
    BY <2>1
  <2>4. \A r \in rest : \E a \in At(v) : f[a] = r
    <3> TAKE r \in rest
    <3>1. r - 1 \in 1 .. n - 1 /\ (r - 1) + 1 = r
      BY <2>1
    <3>2. r - 1 \in At(v)
      BY <2>1, <3>1
    <3> QED
      BY <3>1, <3>2
  <2> HIDE DEF f, rest, At
  <2>5. f \in Bijection(At(v), rest)
    BY <2>3, <2>4, Fun_IsBij
  <2>6. IsFiniteSet(rest) /\ Cardinality(rest) = Cardinality(At(v))
    BY <2>2, <2>5, FS_Bijection, Fun_ExistsBij
  <2>7. At(w) = (IF w[1].type = t THEN rest \cup {1} ELSE rest) /\ 1 \notin rest
    BY <2>1 DEF At, rest
  <2>8. CASE w[1].type = t
    <3>1. Cardinality(rest \cup {1}) = Cardinality(rest) + 1
      BY <2>6, <2>7, FS_AddElement
    <3> QED
      BY <1>0, <1>2, <2>2, <2>6, <2>7, <2>8, <3>1 DEF v
  <2>9. CASE w[1].type # t
    BY <1>0, <1>2, <2>2, <2>6, <2>7, <2>9 DEF v
  <2> QED
    BY <2>8, <2>9
<1> QED
  BY <1>2, <1>3, <1>4

LEMMA CountEmpty == \A t : Count(<<>>, t) = 0
<1> TAKE t
<1>1. {i \in 1 .. Len(<<>>) : <<>>[i].type = t} = {}
  OBVIOUS
<1> QED
  BY <1>1, FS_EmptySet DEF Count

LEMMA CountNone ==
  ASSUME NEW T, NEW w \in Seq(T), NEW t, Count(w, t) = 0
  PROVE  \A x \in In(w) : x.type # t
<1> SUFFICES ASSUME NEW i \in 1 .. Len(w), w[i].type = t PROVE FALSE
  BY DEF In
<1> DEFINE at == {j \in 1 .. Len(w) : w[j].type = t}
<1>1. IsFiniteSet(1 .. Len(w)) /\ at \in SUBSET (1 .. Len(w)) /\ i \in at
  BY FS_Interval
<1>2. IsFiniteSet(at) /\ Cardinality(at) = 0
  BY <1>1, FS_Subset DEF Count
<1> HIDE DEF at
<1> QED
  BY <1>1, <1>2, FS_EmptySet

\* What was asked and is not answered yet.
Counted ==
    /\ client.inFlight = Count(requests, "subscribe") + Count(wire, "subscribed") + Len(client.answered)
    /\ Count(requests, "snapshot") + Count(wire, "snapshot") = IF client.loading THEN 1 ELSE 0
    /\ fromCursor =>
          Count(requests, "bind") + Count(wire, "bound") = IF client.phase = "binding" THEN 1 ELSE 0

Early == {"away", "connecting", "binding"}

\* The handshake: nothing before the hello, no event and no answer before a subscribe.
Phased ==
    /\ client.phase = "away" => wire = <<>> /\ requests = <<>>
    /\ client.phase = "connecting" => requests = <<>> /\ Len(wire) = 1 /\ wire[1].type = "hello"
    /\ client.phase # "connecting" => \A x \in In(wire) : x.type # "hello"
    /\ client.phase \in Early =>
          /\ session.state = "none" /\ client.answered = <<>> /\ client.held = <<>>
          /\ \A r \in In(requests) : r.type # "subscribe"
          /\ \A x \in In(wire) : ~Marked(x)

LEMMA WireJoins ==
  ASSUME Typed, NEW x \in Frame, wire' = Append(wire, x)
  PROVE  /\ In(wire') = In(wire) \cup {x} /\ wire # wire' /\ wire' # <<>>
         /\ \A t : Count(wire, t) \in Nat /\ Count(wire', t) = Count(wire, t) + (IF x.type = t THEN 1 ELSE 0)
<1>1. wire \in Seq(Frame)
  BY DEF Typed
<1>2. Len(wire') = Len(wire) + 1 /\ Len(wire) \in Nat
  BY <1>1, AppendFacts
<1> QED
  BY <1>1, <1>2, InFacts, CountFacts

LEMMA WireLeaves ==
  ASSUME Typed, wire # <<>>, wire' = Tail(wire)
  PROVE  /\ In(wire') \subseteq In(wire) /\ wire[1] \in In(wire) /\ In(wire) = In(wire') \cup {wire[1]}
         /\ \A t : /\ Count(wire, t) \in Nat /\ Count(wire', t) \in Nat
                   /\ Count(wire', t) = Count(wire, t) - (IF wire[1].type = t THEN 1 ELSE 0)
                   /\ wire[1].type = t => Count(wire, t) >= 1
<1>1. wire \in Seq(Frame) /\ wire' \in Seq(Frame)
  BY TailFacts DEF Typed
<1> QED
  BY <1>1, InFacts, CountFacts

LEMMA RequestJoins ==
  ASSUME Typed, NEW x \in Request, requests' = Append(requests, x)
  PROVE  /\ In(requests') = In(requests) \cup {x} /\ requests' # <<>>
         /\ \A t : /\ Count(requests, t) \in Nat
                   /\ Count(requests', t) = Count(requests, t) + (IF x.type = t THEN 1 ELSE 0)
<1>1. requests \in Seq(Request)
  BY DEF Typed
<1>2. Len(requests') = Len(requests) + 1 /\ Len(requests) \in Nat
  BY <1>1, AppendFacts
<1> QED
  BY <1>1, <1>2, InFacts, CountFacts

LEMMA RequestLeaves ==
  ASSUME Typed, requests # <<>>, requests' = Tail(requests)
  PROVE  /\ In(requests') \subseteq In(requests) /\ Head(requests) = requests[1]
         /\ requests[1] \in In(requests) /\ In(requests) = In(requests') \cup {requests[1]}
         /\ \A t : /\ Count(requests, t) \in Nat /\ Count(requests', t) \in Nat
                   /\ Count(requests', t) = Count(requests, t) - (IF requests[1].type = t THEN 1 ELSE 0)
<1>1. requests \in Seq(Request) /\ requests' \in Seq(Request) /\ Head(requests) = requests[1]
  BY TailFacts DEF Typed
<1> QED
  BY <1>1, InFacts, CountFacts

LEMMA CountsTyped ==
  ASSUME Typed
  PROVE  \A t : Count(wire, t) \in Nat /\ Count(requests, t) \in Nat
  BY CountFacts DEF Typed

\* The frames each step of the server takes and sends.
LEMMA ServeBindFacts ==
  ASSUME Typed, ServeBind
  PROVE  /\ requests # <<>> /\ requests[1].type = "bind" /\ requests' = Tail(requests)
         /\ session'.state = "none"
         /\ \E x \in BoundFrame : x.type = "bound" /\ wire' = Append(wire, x)
         /\ UNCHANGED <<seq, total, client, connects, fromCursor>>
<1>1. requests # <<>> /\ Head(requests) = requests[1] /\ requests[1].type = "bind" /\ requests[1] \in Request
  BY TailFacts DEF ServeBind, Typed
<1>2. requests[1].profile \in Profiles
  BY <1>1, Kinds DEF BindRequest
<1> DEFINE x == [type |-> "bound", profile |-> requests[1].profile]
<1>3. x \in BoundFrame /\ x.type = "bound"
  BY <1>2 DEF BoundFrame
<1>4. wire' = Append(wire, x)
  BY <1>1 DEF ServeBind
<1> HIDE DEF x
<1>5. \E y \in BoundFrame : y.type = "bound" /\ wire' = Append(wire, y)
  BY <1>3, <1>4
<1> QED
  BY <1>1, <1>5 DEF ServeBind

LEMMA ServeSnapshotFacts ==
  ASSUME Typed, ServeSnapshot
  PROVE  /\ requests # <<>> /\ requests[1].type = "snapshot" /\ requests' = Tail(requests)
         /\ \E x \in SnapshotFrame : /\ x.type = "snapshot" /\ x.profile = session.audience
                                     /\ x.n = seq[session.audience] /\ wire' = Append(wire, x)
         /\ UNCHANGED <<seq, total, session, client, connects, fromCursor>>
<1>1. requests # <<>> /\ Head(requests) = requests[1] /\ requests[1].type = "snapshot"
  BY TailFacts DEF ServeSnapshot, Typed
<1> DEFINE x == [type |-> "snapshot", profile |-> session.audience, n |-> seq[session.audience]]
<1>2. x \in SnapshotFrame /\ x.type = "snapshot" /\ x.profile = session.audience /\ x.n = seq[session.audience]
  BY DEF SnapshotFrame, Typed
<1>3. wire' = Append(wire, x)
  BY DEF ServeSnapshot
<1> HIDE DEF x
<1>4. \E y \in SnapshotFrame : /\ y.type = "snapshot" /\ y.profile = session.audience
                               /\ y.n = seq[session.audience] /\ wire' = Append(wire, y)
  BY <1>2, <1>3
<1> QED
  BY <1>1, <1>4 DEF ServeSnapshot

\* An event is counted, and sent to a subscriber of its audience.
LEMMA PushFacts ==
  ASSUME Typed, NEW p \in Profiles, Push(p) \/ (PushAll /\ p = session.audience)
  PROVE  /\ UNCHANGED <<session, requests, client, connects, fromCursor>>
         /\ seq'[p] = seq[p] + 1 /\ total' = total + 1
         /\ \/ /\ ~(session.state = "active" /\ session.audience = p) /\ wire' = wire
            \/ /\ session.state = "active" /\ session.audience = p
               /\ Event(p, seq[p] + 1) \in EventFrame /\ Event(p, seq[p] + 1) \in Frame
               /\ wire' = Append(wire, Event(p, seq[p] + 1))
<1>1. seq[p] + 1 \in Nat
  BY DEF Typed
<1>2. Event(p, seq[p] + 1) \in EventFrame /\ Event(p, seq[p] + 1) \in Frame
  BY <1>1, FrameTyped
<1>3. /\ UNCHANGED <<session, requests, client, connects, fromCursor>> /\ total' = total + 1
      /\ seq'[p] = seq[p] + 1 /\ wire' = Delivered(p)
  BY DEF Push, PushAll, Typed
<1> QED
  BY <1>2, <1>3 DEF Delivered

\* Inputs of the two steps that push.
LEMMA PushStep ==
  ASSUME Typed, (\E p \in Profiles : Push(p)) \/ PushAll
  PROVE  /\ UNCHANGED <<session, requests, client, connects, fromCursor>>
         /\ \/ wire' = wire
            \/ session.state = "active" /\ \E e \in EventFrame : wire' = Append(wire, e)
<1>1. CASE \E p \in Profiles : Push(p)
  <2>1. PICK p \in Profiles : Push(p)
    BY <1>1
  <2> QED
    BY <2>1, PushFacts
<1>2. CASE PushAll
  <2>1. session.audience \in Profiles
    BY DEF Typed
  <2> QED
    BY <1>2, <2>1, PushFacts
<1> QED
  BY <1>1, <1>2

LEMMA PhasedStep ==
  ASSUME Typed, Phased, Next
  PROVE  Phased'
<1>0. client \in Client
  BY DEF Typed
<1>1. ASSUME (\E p \in Profiles : Push(p)) \/ PushAll PROVE Phased'
  <2>1. /\ UNCHANGED <<session, requests, client>>
        /\ \/ wire' = wire
           \/ session.state = "active" /\ \E e \in EventFrame : wire' = Append(wire, e)
    BY <1>1, PushStep
  <2>2. CASE wire' = wire
    BY <2>1, <2>2 DEF Phased
  <2>3. CASE session.state = "active" /\ \E e \in EventFrame : wire' = Append(wire, e)
    <3>1. PICK e \in EventFrame : wire' = Append(wire, e)
      BY <2>3
    <3>2. e \in Frame /\ e.type = "event"
      BY MarkTyped
    <3>3. In(wire') = In(wire) \cup {e}
      BY <3>1, <3>2, WireJoins
    <3>4. client.phase \notin Early
      BY <2>3 DEF Phased
    <3> QED
      BY <2>1, <3>2, <3>3, <3>4 DEF Phased, Early
  <2> QED
    BY <2>1, <2>2, <2>3
<1>2. ASSUME ServeBind PROVE Phased'
  <2>1. /\ requests # <<>> /\ requests' = Tail(requests) /\ session'.state = "none"
        /\ UNCHANGED client
    BY <1>2, ServeBindFacts
  <2>2. PICK x \in BoundFrame : x.type = "bound" /\ wire' = Append(wire, x)
    BY <1>2, ServeBindFacts
  <2>3. In(wire') = In(wire) \cup {x}
    BY <2>2, WireJoins DEF Frame
  <2>4. In(requests') \subseteq In(requests)
    BY <2>1, RequestLeaves
  <2> QED
    BY <2>1, <2>2, <2>3, <2>4 DEF Phased, Marked
<1>3. ASSUME ServeSubscribe PROVE Phased'
  <2>1. requests # <<>> /\ requests[1].type = "subscribe" /\ requests' = Tail(requests) /\ UNCHANGED client
    BY <1>3, ServeSubscribeFacts
  <2>2. PICK x : Answered(session.audience, requests[1].after, x) /\ wire' = Append(wire, x)
    BY <1>3, ServeSubscribeFacts
  <2>3. x \in Frame /\ x.type = "subscribed"
    BY <2>2 DEF Answered, Frame
  <2>4. In(wire') = In(wire) \cup {x}
    BY <2>2, <2>3, WireJoins
  <2>5. requests[1] \in In(requests)
    BY <2>1, RequestLeaves
  <2>6. client.phase \notin Early
    BY <2>1, <2>5 DEF Phased
  <2> QED
    BY <2>1, <2>3, <2>4, <2>6 DEF Phased, Early
<1>4. ASSUME ServeSnapshot PROVE Phased'
  <2>1. /\ requests # <<>> /\ requests' = Tail(requests) /\ UNCHANGED <<session, client>>
    BY <1>4, ServeSnapshotFacts
  <2>2. PICK x \in SnapshotFrame : x.type = "snapshot" /\ wire' = Append(wire, x)
    BY <1>4, ServeSnapshotFacts
  <2>3. In(wire') = In(wire) \cup {x}
    BY <2>2, WireJoins DEF Frame
  <2>4. In(requests') \subseteq In(requests)
    BY <2>1, RequestLeaves
  <2> QED
    BY <2>1, <2>2, <2>3, <2>4 DEF Phased, Marked
<1>5. ASSUME Connect PROVE Phased'
  <2>1. client'.phase = "connecting" /\ client'.answered = <<>> /\ client'.held = <<>> /\ session'.state = "none"
    BY <1>5 DEF Connect, NewClient, NewSession
  <2>2. requests' = <<>>
    BY <1>5 DEF Connect, Up, Phased
  <2>3. Len(wire') = 1 /\ wire'[1].type = "hello"
    BY <1>5 DEF Connect
  <2>4. \A x \in In(wire') : x.type = "hello"
    BY <2>3 DEF In
  <2>5. In(requests') = {}
    BY <2>2 DEF In
  <2> QED
    BY <2>1, <2>2, <2>3, <2>4, <2>5 DEF Phased, Marked
<1>6. ASSUME HelloArrives PROVE Phased'
  <2>1. /\ wire # <<>> /\ wire[1].type = "hello" /\ wire' = Tail(wire)
        /\ client' = [client EXCEPT !.cursor = wire[1].sequence, !.phase = "binding"]
        /\ requests' = Append(requests, [type |-> "bind", profile |-> Default])
        /\ UNCHANGED session
    BY <1>6, HelloFacts
  <2>2. wire[1] \in In(wire)
    BY <2>1, WireLeaves
  <2>3. client.phase = "connecting"
    BY <2>1, <2>2 DEF Phased
  <2>4. Len(wire) = 1 /\ requests = <<>> /\ session.state = "none" /\ client.answered = <<>>
        /\ client.held = <<>>
    BY <2>3 DEF Phased, Early
  <2>5. Len(wire') = 0
    BY <2>1, <2>4, TailFacts DEF Typed
  <2>6. In(wire') = {}
    BY <2>5 DEF In
  <2>7. In(requests') = {[type |-> "bind", profile |-> Default]}
    <3>1. [type |-> "bind", profile |-> Default] \in Request
      BY FrameTyped, StreamAssumption
    <3>2. In(requests) = {}
      BY <2>4 DEF In
    <3> QED
      BY <2>1, <3>1, <3>2, RequestJoins
  <2>8. client'.phase = "binding" /\ client'.answered = <<>> /\ client'.held = <<>>
    BY <1>0, <2>1, <2>4 DEF Client
  <2> QED
    BY <2>1, <2>4, <2>6, <2>7, <2>8 DEF Phased
<1>7. ASSUME BoundArrives PROVE Phased'
  <2>1. /\ wire # <<>> /\ wire[1].type = "bound" /\ wire' = Tail(wire)
        /\ client' = [client EXCEPT !.inFlight = client.inFlight + 1, !.phase = "subscribing"]
    BY <1>7, BoundFacts
  <2>2. client.phase # "connecting"
    BY <2>1 DEF Phased
  <2>3. In(wire') \subseteq In(wire)
    BY <2>1, WireLeaves
  <2>4. client'.phase = "subscribing"
    BY <1>0, <2>1 DEF Client
  <2> QED
    BY <2>2, <2>3, <2>4 DEF Phased, Early
<1>8. ASSUME EventArrives PROVE Phased'
  <2>1. /\ wire # <<>> /\ wire[1] \in EventFrame /\ wire' = Tail(wire) /\ UNCHANGED <<session, requests>>
        /\ \/ client' = [client EXCEPT !.held = Append(client.held, wire[1])]
           \/ client' = Handed(client, wire[1], FALSE)
    BY <1>8, EventFacts
  <2>2. In(wire') \subseteq In(wire) /\ wire[1] \in In(wire) /\ Marked(wire[1])
    BY <2>1, WireLeaves, MarkTyped
  <2>3. client'.phase = client.phase
    <3>1. CASE client' = [client EXCEPT !.held = Append(client.held, wire[1])]
      BY <1>0, <3>1 DEF Client
    <3>2. CASE client' = Handed(client, wire[1], FALSE)
      BY <1>0, <2>1, <3>2, HandedFacts DEF Beside
    <3> QED
      BY <2>1, <3>1, <3>2
  <2>4. client.phase \notin Early
    BY <2>2 DEF Phased
  <2> QED
    BY <2>2, <2>3, <2>4 DEF Phased, Early
<1>9. ASSUME SubscribedArrives PROVE Phased'
  <2>1. /\ wire # <<>> /\ wire[1] \in AnswerFrame /\ wire' = Tail(wire)
        /\ client' = [client EXCEPT !.answered = Append(client.answered, wire[1])]
    BY <1>9, AnswerFacts
  <2>2. In(wire') \subseteq In(wire) /\ wire[1] \in In(wire) /\ Marked(wire[1])
    BY <2>1, WireLeaves, MarkTyped
  <2>3. client'.phase = client.phase
    BY <1>0, <2>1 DEF Client
  <2>4. client.phase \notin Early
    BY <2>2 DEF Phased
  <2> QED
    BY <2>2, <2>3, <2>4 DEF Phased, Early
<1>10. ASSUME SnapshotArrives PROVE Phased'
  <2>1. /\ wire # <<>> /\ wire[1].type = "snapshot" /\ wire' = Tail(wire) /\ UNCHANGED <<session, requests>>
        /\ client'.phase = client.phase /\ client'.answered = client.answered
        /\ client'.held = client.held
    BY <1>10, SnapshotFacts
  <2>2. In(wire') \subseteq In(wire)
    BY <2>1, WireLeaves
  <2>3. client.phase # "connecting" /\ client.phase # "away"
    BY <2>1 DEF Phased
  <2> QED
    BY <2>1, <2>2, <2>3 DEF Phased
<1>11. ASSUME Subscribed PROVE Phased'
  <2>1. client.answered # <<>> /\ wire' = wire
    BY <1>11 DEF Subscribed
  <2>2. client'.phase = "ready"
    <3>1. InFlight(client) = client.inFlight - 1
      BY DEF InFlight
    <3> QED
      BY <1>11, <3>1, SubscribedFacts, ZenonT(40) DEF SubscribedClient
  <2> QED
    BY <2>1, <2>2 DEF Phased, Early
<1>12. ASSUME Reload \/ \E p \in Profiles : Switch(p) PROVE Phased'
  <2>1. client.phase = "ready" /\ client'.phase = "ready" /\ wire' = wire
    BY <1>0, <1>12 DEF Switch, Reload, Client
  <2> QED
    BY <2>1 DEF Phased, Early
<1>13. ASSUME Disconnect \/ Restart PROVE Phased'
  <2>1. /\ client'.phase = "away" /\ client'.answered = <<>> /\ wire' = <<>> /\ requests' = <<>>
        /\ session'.state = "none" /\ client'.held = <<>>
    BY <1>13 DEF Disconnect, Restart, NewClient, NewSession
  <2>2. In(<<>>) = {}
    BY DEF In
  <2> QED
    BY <2>1, <2>2 DEF Phased
<1> QED
  BY <1>1, <1>2, <1>3, <1>4, <1>5, <1>6, <1>7, <1>8, <1>9, <1>10, <1>11, <1>12, <1>13
  DEF Next, Serve, Receive

LEMMA CountedStep ==
  ASSUME Typed, Typed', Phased, Counted, Next
  PROVE  Counted'
<1>0. /\ client \in Client /\ client.inFlight \in Int /\ client.answered \in Seq(AnswerFrame)
      /\ Len(client.answered) \in Nat /\ client.loading \in BOOLEAN /\ fromCursor \in BOOLEAN
  <2>1. client \in Client /\ fromCursor \in BOOLEAN
    BY DEF Typed
  <2>2. client.answered \in Seq(AnswerFrame) /\ client.inFlight \in Int /\ client.loading \in BOOLEAN
    BY <2>1, ClientWrites
  <2> QED
    BY <2>1, <2>2
<1>00. \A t : Count(wire, t) \in Nat /\ Count(requests, t) \in Nat
  BY CountsTyped
<1>1. ASSUME (\E p \in Profiles : Push(p)) \/ PushAll PROVE Counted'
  <2>1. /\ UNCHANGED <<requests, client, fromCursor>>
        /\ \/ wire' = wire
           \/ \E e \in EventFrame : wire' = Append(wire, e)
    BY <1>1, PushStep
  <2>2. CASE wire' = wire
    BY <2>1, <2>2 DEF Counted
  <2>3. CASE \E e \in EventFrame : wire' = Append(wire, e)
    <3>1. PICK e \in EventFrame : wire' = Append(wire, e)
      BY <2>3
    <3>2. e \in Frame /\ e.type = "event"
      BY MarkTyped
    <3>3. \A t : Count(wire', t) = Count(wire, t) + (IF e.type = t THEN 1 ELSE 0)
      BY <3>1, <3>2, WireJoins
    <3>4. \A t \in {"subscribed", "snapshot", "bound"} : Count(wire', t) = Count(wire, t)
      BY <1>00, <3>2, <3>3
    <3> QED
      BY <2>1, <3>4 DEF Counted
  <2> QED
    BY <2>1, <2>2, <2>3
<1>2. ASSUME ServeBind PROVE Counted'
  <2>1. /\ requests # <<>> /\ requests' = Tail(requests) /\ requests[1].type = "bind"
        /\ UNCHANGED <<client, fromCursor>>
    BY <1>2, ServeBindFacts
  <2>2. PICK x \in BoundFrame : x.type = "bound" /\ wire' = Append(wire, x)
    BY <1>2, ServeBindFacts
  <2>3. \A t : Count(wire', t) = Count(wire, t) + (IF x.type = t THEN 1 ELSE 0)
    BY <2>2, WireJoins DEF Frame
  <2>4. \A t : Count(requests', t) = Count(requests, t) - (IF requests[1].type = t THEN 1 ELSE 0)
    BY <2>1, RequestLeaves
  <2>5. /\ Count(wire', "subscribed") = Count(wire, "subscribed") /\ Count(wire', "snapshot") = Count(wire, "snapshot")
        /\ Count(wire', "bound") = Count(wire, "bound") + 1
        /\ Count(requests', "subscribe") = Count(requests, "subscribe")
        /\ Count(requests', "snapshot") = Count(requests, "snapshot")
        /\ Count(requests', "bind") = Count(requests, "bind") - 1
    <3>1. /\ Count(wire', "subscribed") = Count(wire, "subscribed")
          /\ Count(wire', "snapshot") = Count(wire, "snapshot")
          /\ Count(wire', "bound") = Count(wire, "bound") + 1
      BY <1>00, <2>1, <2>2, <2>3, <2>4, SMTT(30)
    <3>2. /\ Count(requests', "subscribe") = Count(requests, "subscribe")
          /\ Count(requests', "snapshot") = Count(requests, "snapshot")
          /\ Count(requests', "bind") = Count(requests, "bind") - 1
      BY <1>00, <2>1, <2>2, <2>3, <2>4
    <3> QED
      BY <3>1, <3>2
  <2> QED
    BY <1>00, <2>1, <2>5 DEF Counted
<1>3. ASSUME ServeSubscribe PROVE Counted'
  <2>1. /\ requests # <<>> /\ requests[1].type = "subscribe" /\ requests' = Tail(requests)
        /\ UNCHANGED <<client, fromCursor>>
    BY <1>3, ServeSubscribeFacts
  <2>2. PICK x : Answered(session.audience, requests[1].after, x) /\ wire' = Append(wire, x)
    BY <1>3, ServeSubscribeFacts
  <2>3. x \in Frame /\ x.type = "subscribed"
    BY <2>2 DEF Answered, Frame
  <2>4. \A t : Count(wire', t) = Count(wire, t) + (IF x.type = t THEN 1 ELSE 0)
    BY <2>2, <2>3, WireJoins
  <2>5. \A t : Count(requests', t) = Count(requests, t) - (IF requests[1].type = t THEN 1 ELSE 0)
    BY <2>1, RequestLeaves
  <2>6. /\ Count(wire', "subscribed") = Count(wire, "subscribed") + 1 /\ Count(wire', "snapshot") = Count(wire, "snapshot")
        /\ Count(wire', "bound") = Count(wire, "bound")
        /\ Count(requests', "subscribe") = Count(requests, "subscribe") - 1
        /\ Count(requests', "snapshot") = Count(requests, "snapshot")
        /\ Count(requests', "bind") = Count(requests, "bind")
    <3>1. /\ Count(wire', "subscribed") = Count(wire, "subscribed") + 1
          /\ Count(wire', "snapshot") = Count(wire, "snapshot")
          /\ Count(wire', "bound") = Count(wire, "bound")
      BY <1>00, <2>1, <2>3, <2>4, <2>5
    <3>2. /\ Count(requests', "subscribe") = Count(requests, "subscribe") - 1
          /\ Count(requests', "snapshot") = Count(requests, "snapshot")
          /\ Count(requests', "bind") = Count(requests, "bind")
      BY <1>00, <2>1, <2>3, <2>4, <2>5
    <3> QED
      BY <3>1, <3>2
  <2>7. client.inFlight = Count(requests', "subscribe") + Count(wire', "subscribed") + Len(client.answered)
    BY <1>0, <1>00, <2>6 DEF Counted
  <2> QED
    BY <2>1, <2>6, <2>7 DEF Counted
<1>4. ASSUME ServeSnapshot PROVE Counted'
  <2>1. /\ requests # <<>> /\ requests' = Tail(requests) /\ requests[1].type = "snapshot"
        /\ UNCHANGED <<client, fromCursor>>
    BY <1>4, ServeSnapshotFacts
  <2>2. PICK x \in SnapshotFrame : x.type = "snapshot" /\ wire' = Append(wire, x)
    BY <1>4, ServeSnapshotFacts
  <2>3. \A t : Count(wire', t) = Count(wire, t) + (IF x.type = t THEN 1 ELSE 0)
    BY <2>2, WireJoins DEF Frame
  <2>4. \A t : Count(requests', t) = Count(requests, t) - (IF requests[1].type = t THEN 1 ELSE 0)
    BY <2>1, RequestLeaves
  <2>5. /\ Count(wire', "subscribed") = Count(wire, "subscribed") /\ Count(wire', "snapshot") = Count(wire, "snapshot") + 1
        /\ Count(wire', "bound") = Count(wire, "bound")
        /\ Count(requests', "subscribe") = Count(requests, "subscribe")
        /\ Count(requests', "snapshot") = Count(requests, "snapshot") - 1
        /\ Count(requests', "bind") = Count(requests, "bind")
    <3>1. /\ Count(wire', "subscribed") = Count(wire, "subscribed")
          /\ Count(wire', "snapshot") = Count(wire, "snapshot") + 1
          /\ Count(wire', "bound") = Count(wire, "bound")
      BY <1>00, <2>1, <2>2, <2>3, <2>4
    <3>2. /\ Count(requests', "subscribe") = Count(requests, "subscribe")
          /\ Count(requests', "snapshot") = Count(requests, "snapshot") - 1
          /\ Count(requests', "bind") = Count(requests, "bind")
      BY <1>00, <2>1, <2>2, <2>3, <2>4
    <3> QED
      BY <3>1, <3>2
  <2>6. Count(requests', "snapshot") + Count(wire', "snapshot") = IF client.loading THEN 1 ELSE 0
    BY <1>00, <2>5 DEF Counted
  <2> QED
    BY <2>1, <2>5, <2>6 DEF Counted
<1>5. ASSUME Connect PROVE Counted'
  <2>1. /\ client'.phase = "connecting" /\ client'.answered = <<>> /\ client'.inFlight = 0
        /\ client'.loading = FALSE
    BY <1>5 DEF Connect, NewClient
  <2>2. requests' = <<>>
    BY <1>5 DEF Connect, Up, Phased
  <2>3. wire' = <<[type |-> "hello", sequence |-> total]>>
    BY <1>5 DEF Connect
  <2>4. \A t \in {"subscribed", "snapshot", "bound"} : Count(wire', t) = 0
    <3> TAKE t \in {"subscribed", "snapshot", "bound"}
    <3>1. {i \in 1 .. Len(wire') : wire'[i].type = t} = {}
      BY <2>3
    <3> QED
      BY <3>1, FS_EmptySet DEF Count
  <2>5. \A t : Count(requests', t) = 0
    BY <2>2, CountEmpty
  <2>6. Len(client'.answered) = 0
    BY <2>1
  <2> QED
    BY <2>1, <2>4, <2>5, <2>6 DEF Counted
<1>6. ASSUME HelloArrives PROVE Counted'
  <2>1. /\ wire # <<>> /\ wire[1].type = "hello" /\ wire' = Tail(wire) /\ UNCHANGED fromCursor
        /\ client' = [client EXCEPT !.cursor = wire[1].sequence, !.phase = "binding"]
        /\ requests' = Append(requests, [type |-> "bind", profile |-> Default])
    BY <1>6, HelloFacts
  <2>2. wire[1] \in In(wire) /\ \A t : Count(wire', t) = Count(wire, t) - (IF wire[1].type = t THEN 1 ELSE 0)
    BY <2>1, WireLeaves
  <2>3. client.phase = "connecting"
    BY <2>1, <2>2 DEF Phased
  <2> DEFINE x == [type |-> "bind", profile |-> Default]
  <2>4. x \in Request /\ x.type = "bind"
    BY FrameTyped, StreamAssumption
  <2>5. requests' = Append(requests, x)
    BY <2>1
  <2> HIDE DEF x
  <2>6. \A t : Count(requests', t) = Count(requests, t) + (IF x.type = t THEN 1 ELSE 0)
    BY <2>4, <2>5, RequestJoins
  <2>7. /\ client'.phase = "binding" /\ client'.answered = client.answered
        /\ client'.inFlight = client.inFlight /\ client'.loading = client.loading
    BY <1>0, <2>1 DEF Client
  <2>8. /\ Count(wire', "subscribed") = Count(wire, "subscribed") /\ Count(wire', "snapshot") = Count(wire, "snapshot")
        /\ Count(wire', "bound") = Count(wire, "bound")
        /\ Count(requests', "subscribe") = Count(requests, "subscribe")
        /\ Count(requests', "snapshot") = Count(requests, "snapshot")
        /\ Count(requests', "bind") = Count(requests, "bind") + 1
    <3>1. /\ Count(wire', "subscribed") = Count(wire, "subscribed")
          /\ Count(wire', "snapshot") = Count(wire, "snapshot")
          /\ Count(wire', "bound") = Count(wire, "bound")
      BY <1>00, <2>1, <2>2, <2>4, <2>6, SMTT(30)
    <3>2. /\ Count(requests', "subscribe") = Count(requests, "subscribe")
          /\ Count(requests', "snapshot") = Count(requests, "snapshot")
          /\ Count(requests', "bind") = Count(requests, "bind") + 1
      BY <1>00, <2>1, <2>2, <2>4, <2>6, SMTT(30)
    <3> QED
      BY <3>1, <3>2
  <2>9. fromCursor => Count(requests', "bind") + Count(wire', "bound") = 1
    BY <1>00, <2>3, <2>8 DEF Counted
  <2> QED
    BY <2>1, <2>7, <2>8, <2>9 DEF Counted
<1>7. ASSUME BoundArrives PROVE Counted'
  <2> DEFINE after == IF fromCursor THEN client.cursor ELSE 0
             x == [type |-> "subscribe", after |-> after]
  <2>1. /\ wire # <<>> /\ wire[1].type = "bound" /\ wire' = Tail(wire) /\ UNCHANGED fromCursor
        /\ client' = [client EXCEPT !.inFlight = client.inFlight + 1, !.phase = "subscribing"]
        /\ requests' = Append(requests, x)
    BY <1>7, BoundFacts
  <2>2. \A t : /\ Count(wire', t) = Count(wire, t) - (IF wire[1].type = t THEN 1 ELSE 0)
               /\ Count(wire', t) \in Nat
    BY <2>1, WireLeaves
  <2>3. after \in Nat
    BY <1>0, ClientWrites
  <2> HIDE DEF after
  <2>4. x \in Request /\ x.type = "subscribe"
    BY <2>3, FrameTyped
  <2> HIDE DEF x
  <2>5. \A t : Count(requests', t) = Count(requests, t) + (IF x.type = t THEN 1 ELSE 0)
    BY <2>1, <2>4, RequestJoins
  <2>6. /\ client'.phase = "subscribing" /\ client'.answered = client.answered
        /\ client'.inFlight = client.inFlight + 1 /\ client'.loading = client.loading
    BY <1>0, <2>1 DEF Client
  <2>7. /\ Count(wire', "subscribed") = Count(wire, "subscribed") /\ Count(wire', "snapshot") = Count(wire, "snapshot")
        /\ Count(wire', "bound") = Count(wire, "bound") - 1
        /\ Count(requests', "subscribe") = Count(requests, "subscribe") + 1
        /\ Count(requests', "snapshot") = Count(requests, "snapshot")
        /\ Count(requests', "bind") = Count(requests, "bind")
    <3>1. /\ Count(wire', "subscribed") = Count(wire, "subscribed")
          /\ Count(wire', "snapshot") = Count(wire, "snapshot")
          /\ Count(wire', "bound") = Count(wire, "bound") - 1
      BY <1>00, <2>1, <2>2, <2>4, <2>5, SMTT(30)
    <3>2. /\ Count(requests', "subscribe") = Count(requests, "subscribe") + 1
          /\ Count(requests', "snapshot") = Count(requests, "snapshot")
          /\ Count(requests', "bind") = Count(requests, "bind")
      BY <1>00, <2>1, <2>2, <2>4, <2>5, SMTT(30)
    <3> QED
      BY <3>1, <3>2
  <2>8. fromCursor => Count(requests', "bind") + Count(wire', "bound") = 0
    <3>1. Count(requests, "bind") \in Nat /\ Count(wire', "bound") \in Nat /\ Count(wire, "bound") \in Nat
      BY <1>00, <2>2
    <3> QED
      BY <3>1, <2>7 DEF Counted
  <2>9. client'.inFlight = Count(requests', "subscribe") + Count(wire', "subscribed") + Len(client'.answered)
    BY <1>0, <1>00, <2>6, <2>7, SMTT(30) DEF Counted
  <2> QED
    BY <2>1, <2>6, <2>7, <2>8, <2>9 DEF Counted
<1>8. ASSUME EventArrives PROVE Counted'
  <2>1. /\ wire # <<>> /\ wire[1] \in EventFrame /\ wire' = Tail(wire) /\ UNCHANGED <<requests, fromCursor>>
        /\ wire[1].type = "event"
        /\ \/ client' = [client EXCEPT !.held = Append(client.held, wire[1])]
           \/ client' = Handed(client, wire[1], FALSE)
    BY <1>8, EventFacts
  <2>2. \A t : Count(wire', t) = Count(wire, t) - (IF wire[1].type = t THEN 1 ELSE 0)
    BY <2>1, WireLeaves
  <2>3. /\ client'.phase = client.phase /\ client'.inFlight = client.inFlight
        /\ client'.answered = client.answered /\ client'.loading = client.loading
    <3>1. CASE client' = [client EXCEPT !.held = Append(client.held, wire[1])]
      BY <1>0, <3>1 DEF Client
    <3>2. CASE client' = Handed(client, wire[1], FALSE)
      BY <1>0, <2>1, <3>2, HandedFacts DEF Beside
    <3> QED
      BY <2>1, <3>1, <3>2
  <2>4. \A t \in {"subscribed", "snapshot", "bound"} : Count(wire', t) = Count(wire, t)
    BY <1>00, <2>1, <2>2
  <2> QED
    BY <2>1, <2>3, <2>4 DEF Counted
<1>9. ASSUME SubscribedArrives PROVE Counted'
  <2>1. /\ wire # <<>> /\ wire[1] \in AnswerFrame /\ wire[1].type = "subscribed" /\ wire' = Tail(wire)
        /\ client' = [client EXCEPT !.answered = Append(client.answered, wire[1])]
        /\ UNCHANGED <<requests, fromCursor>>
    BY <1>9, AnswerFacts
  <2>2. \A t : Count(wire', t) = Count(wire, t) - (IF wire[1].type = t THEN 1 ELSE 0)
    BY <2>1, WireLeaves
  <2>3. /\ client'.phase = client.phase /\ client'.inFlight = client.inFlight
        /\ client'.answered = Append(client.answered, wire[1]) /\ client'.loading = client.loading
    BY <1>0, <2>1 DEF Client
  <2>4. Len(client'.answered) = Len(client.answered) + 1
    BY <1>0, <2>1, <2>3, AppendFacts
  <2>5. /\ Count(wire', "subscribed") = Count(wire, "subscribed") - 1
        /\ Count(wire', "snapshot") = Count(wire, "snapshot") /\ Count(wire', "bound") = Count(wire, "bound")
    BY <1>00, <2>1, <2>2, SMTT(30)
  <2>6. client'.inFlight = Count(requests', "subscribe") + Count(wire', "subscribed") + Len(client'.answered)
    BY <1>0, <1>00, <2>1, <2>3, <2>4, <2>5 DEF Counted
  <2> QED
    BY <2>1, <2>3, <2>5, <2>6 DEF Counted
<1>10. ASSUME SnapshotArrives PROVE Counted'
  <2>1. /\ wire # <<>> /\ wire[1].type = "snapshot" /\ wire' = Tail(wire) /\ UNCHANGED <<requests, fromCursor>>
        /\ client'.phase = client.phase /\ client'.answered = client.answered
        /\ client'.inFlight = client.inFlight /\ client'.loading = FALSE
    BY <1>10, SnapshotFacts
  <2>2. \A t : /\ Count(wire', t) = Count(wire, t) - (IF wire[1].type = t THEN 1 ELSE 0)
               /\ Count(wire', t) \in Nat
    BY <2>1, WireLeaves
  <2>3. /\ Count(wire', "subscribed") = Count(wire, "subscribed")
        /\ Count(wire', "snapshot") = Count(wire, "snapshot") - 1 /\ Count(wire', "bound") = Count(wire, "bound")
    BY <1>00, <2>1, <2>2, SMTT(40)
  <2>4. /\ requests' = requests /\ Count(wire, "snapshot") = Count(wire', "snapshot") + 1
        /\ Count(requests, "snapshot") \in Nat /\ Count(wire', "snapshot") \in Nat
    BY <1>00, <2>1, <2>2, <2>3
  <2>5. Count(requests, "snapshot") + Count(wire, "snapshot") = IF client.loading THEN 1 ELSE 0
    BY DEF Counted
  <2>6. Count(requests', "snapshot") + Count(wire', "snapshot") = 0
    BY <2>4, <2>5
  <2> QED
    BY <2>1, <2>3, <2>6 DEF Counted
<1>11. ASSUME Subscribed PROVE Counted'
  <2>1. client.answered # <<>> /\ UNCHANGED <<wire, requests, fromCursor>>
    BY <1>11 DEF Subscribed
  <2>2. /\ client'.phase = "ready" /\ client'.answered = Tail(client.answered)
        /\ client'.inFlight = client.inFlight - 1 /\ client'.loading = client.loading
    <3>1. InFlight(client) = client.inFlight - 1
      BY DEF InFlight
    <3> QED
      BY <1>11, <3>1, SubscribedFacts DEF SubscribedClient
  <2>3. Len(client'.answered) = Len(client.answered) - 1
    BY <1>0, <2>1, <2>2, TailFacts
  <2>4. client.phase # "binding"
    BY <2>1 DEF Phased, Early
  <2>5. client'.inFlight = Count(requests', "subscribe") + Count(wire', "subscribed") + Len(client'.answered)
    BY <1>0, <1>00, <2>1, <2>2, <2>3 DEF Counted
  <2> QED
    BY <2>1, <2>2, <2>4, <2>5 DEF Counted
<1>12. ASSUME NEW p \in Profiles, Switch(p) PROVE Counted'
  <2> DEFINE x == [type |-> "bind", profile |-> p]
  <2>1. x \in Request /\ x.type = "bind"
    BY FrameTyped
  <2>2. requests' = Append(requests, x) /\ UNCHANGED <<wire, fromCursor>> /\ ~fromCursor
    BY <1>12 DEF Switch
  <2> HIDE DEF x
  <2>3. \A t : Count(requests', t) = Count(requests, t) + (IF x.type = t THEN 1 ELSE 0)
    BY <2>1, <2>2, RequestJoins
  <2>4. \A t \in {"subscribe", "snapshot"} : Count(requests', t) = Count(requests, t)
    BY <1>00, <2>1, <2>3
  <2>5. client'.inFlight = client.inFlight /\ client'.answered = client.answered /\ client'.loading = client.loading
    BY <1>0, <1>12 DEF Switch, Client
  <2> QED
    BY <2>2, <2>4, <2>5 DEF Counted
<1>13. ASSUME Reload PROVE Counted'
  <2> DEFINE x == [type |-> "snapshot"]
  <2>1. x \in Request /\ x.type = "snapshot"
    BY FrameTyped
  <2>2. requests' = Append(requests, x) /\ UNCHANGED <<wire, fromCursor>> /\ ~client.loading
    BY <1>13 DEF Reload
  <2> HIDE DEF x
  <2>3. \A t : Count(requests', t) = Count(requests, t) + (IF x.type = t THEN 1 ELSE 0)
    BY <2>1, <2>2, RequestJoins
  <2>4. /\ Count(requests', "subscribe") = Count(requests, "subscribe")
        /\ Count(requests', "bind") = Count(requests, "bind")
        /\ Count(requests', "snapshot") = Count(requests, "snapshot") + 1
    BY <1>00, <2>1, <2>3
  <2>5. /\ client'.inFlight = client.inFlight /\ client'.answered = client.answered /\ client'.loading = TRUE
        /\ client'.phase = client.phase
    BY <1>0, <1>13 DEF Reload, Client
  <2>6. Count(requests', "snapshot") + Count(wire', "snapshot") = 1
    BY <1>00, <2>2, <2>4 DEF Counted
  <2> QED
    BY <2>2, <2>4, <2>5, <2>6 DEF Counted
<1>14. ASSUME Disconnect \/ Restart PROVE Counted'
  <2>1. /\ client'.phase = "away" /\ client'.answered = <<>> /\ wire' = <<>> /\ requests' = <<>>
        /\ client'.inFlight = 0 /\ client'.loading = FALSE
    BY <1>14 DEF Disconnect, Restart, NewClient
  <2>2. Len(client'.answered) = 0
    BY <2>1
  <2> QED
    BY <2>1, <2>2, CountEmpty DEF Counted
<1> QED
  BY <1>1, <1>2, <1>3, <1>4, <1>5, <1>6, <1>7, <1>8, <1>9, <1>10, <1>11, <1>12, <1>13, <1>14
  DEF Next, Serve, Receive

\* The handshake and its counts, in every state.
Handshake == Typed /\ Ordered /\ Phased /\ Counted

LEMMA HandshakeStart == Init => Handshake
<1> SUFFICES ASSUME Init PROVE Handshake
  OBVIOUS
<1>1. /\ client.phase = "away" /\ client.answered = <<>> /\ client.inFlight = 0 /\ client.loading = FALSE
      /\ wire = <<>> /\ requests = <<>> /\ session.state = "none" /\ client.held = <<>>
  BY DEF Init, NewClient, NewSession
<1>2. In(<<>>) = {} /\ Len(client.answered) = 0
  BY <1>1 DEF In
<1>3. Phased
  BY <1>1, <1>2 DEF Phased
<1>4. Counted
  BY <1>1, <1>2, CountEmpty DEF Counted
<1> QED
  BY <1>3, <1>4, OrderedStart DEF Handshake

LEMMA HandshakeStep == Handshake /\ [Next]_vars => Handshake'
<1> SUFFICES ASSUME Handshake, [Next]_vars PROVE Handshake'
  OBVIOUS
<1>1. CASE Next
  <2>1. Typed' /\ Ordered' /\ Phased'
    BY <1>1, TypedStep, OrderedStep, PhasedStep DEF Handshake
  <2> QED
    BY <1>1, <2>1, CountedStep DEF Handshake
<1>2. CASE UNCHANGED vars
  BY <1>2 DEF vars, Handshake, Typed, Ordered, WireOrdered, HeldOrdered, Phased, Counted
<1> QED
  BY <1>1, <1>2

LEMMA HandshakeAlways == Spec => []Handshake
  BY HandshakeStart, HandshakeStep, PTL DEF Spec

\* A subscribe is in flight as long as its answer is not through.
LEMMA InFlightCounted ==
  ASSUME Handshake
  PROVE  /\ client.inFlight \in Nat
         /\ client.inFlight = 0 => /\ client.answered = <<>> /\ client.held = <<>>
                                   /\ \A x \in In(wire) : x.type # "subscribed"
<1>1. \A t : Count(wire, t) \in Nat /\ Count(requests, t) \in Nat
  BY CountsTyped DEF Handshake
<1>2. client.answered \in Seq(AnswerFrame) /\ client \in Client
  BY ClientWrites DEF Handshake, Typed
<1>3. client.inFlight \in Nat
  BY <1>1, <1>2 DEF Handshake, Counted
<1>4. ASSUME client.inFlight = 0 PROVE Len(client.answered) = 0 /\ Count(wire, "subscribed") = 0
  BY <1>1, <1>2, <1>4 DEF Handshake, Counted
<1>5. ASSUME client.inFlight = 0, NEW x \in In(wire), x.type = "subscribed" PROVE FALSE
  BY <1>4, <1>5, CountNone DEF Handshake, Typed
<1>6. client.inFlight = 0 => client.held = <<>>
  BY <1>3 DEF Handshake, Ordered
<1> QED
  BY <1>2, <1>3, <1>4, <1>5, <1>6

\* The variables keep their types: no answer comes without a subscribe in flight.
THEOREM TypeCorrect == Spec => []TypeOK
<1>1. Handshake => TypeOK
  <2> SUFFICES ASSUME Handshake PROVE TypeOK
    OBVIOUS
  <2>1. client \in Client /\ client.inFlight \in Nat
    BY InFlightCounted DEF Handshake, Typed
  <2>2. /\ client.phase \in Phase /\ client.cursor \in Nat /\ client.reload \in BOOLEAN
        /\ client.asked \in BOOLEAN /\ client.loading \in BOOLEAN /\ client.held \in Seq(EventFrame)
    BY <2>1, ClientWrites
  <2>3. \A i \in 1 .. Len(client.held) : client.held[i].type = "event"
    <3>1. \A i \in 1 .. Len(client.held) : client.held[i] \in EventFrame
      BY <2>2
    <3> QED
      BY <3>1, MarkTyped
  <2>4. \A i \in 1 .. Len(wire) : wire[i].type \in Answers \cup {"event"}
    <3>1. \A x \in Frame : x.type \in Answers \cup {"event"}
      BY DEF Frame, EventFrame, HelloFrame, BoundFrame, AnswerFrame, SnapshotFrame, Answers
    <3>2. \A i \in 1 .. Len(wire) : wire[i] \in Frame
      BY DEF Handshake, Typed
    <3> QED
      BY <3>1, <3>2
  <2> QED
    BY <2>1, <2>2, <2>3, <2>4 DEF Handshake, Typed, TypeOK, Phase
<1> QED
  BY <1>1, HandshakeAlways, PTL

-----------------------------------------------------------------------------
(* Nothing is lost in silence, with one profile.  With more the connection   *)
(* has one cursor for several rings: StreamProfiles shows what is lost then. *)

OneProfile == Profiles = {Default}

\* A subscribe asks for everything since the view began, and its answer brings it or says
\* that it does not.
Whole(a, since) == a.gap \/ a.from = since + 1

Asking ==
    /\ total = seq[Default] /\ client.cursor <= seq[Default]
    /\ ~fromCursor => client.since = 0
    /\ client.phase = "connecting" =>
          wire[1].sequence <= total /\ (fromCursor => wire[1].sequence = client.since)
    /\ client.phase = "binding" /\ fromCursor => client.cursor = client.since
    /\ \A r \in In(requests) : r.type = "subscribe" => r.after = client.since
    /\ \A x \in In(wire) : x.type = "subscribed" => Whole(x, client.since)
    /\ \A a \in In(client.answered) : Whole(a, client.since)

LEMMA SeqTyped ==
  ASSUME Typed
  PROVE  seq[Default] \in Nat /\ client \in Client /\ client.cursor \in Nat
  BY StreamAssumption, ClientWrites DEF Typed

\* With one profile both rings count the same events.
LEMMA OnePush ==
  ASSUME OneProfile, Typed, (\E p \in Profiles : Push(p)) \/ PushAll
  PROVE  /\ UNCHANGED <<session, requests, client, connects, fromCursor>>
         /\ seq'[Default] = seq[Default] + 1 /\ total' = total + 1
         /\ \/ session.state # "active" /\ wire' = wire
            \/ /\ session.state = "active"
               /\ \E e \in EventFrame : e.n = seq[Default] + 1 /\ wire' = Append(wire, e)
<1>1. session.audience = Default /\ Default \in Profiles
  BY DEF OneProfile, Typed
<1>2. Push(Default) \/ (PushAll /\ Default = session.audience)
  BY <1>1 DEF OneProfile
<1>3. Event(Default, seq[Default] + 1).n = seq[Default] + 1
  BY DEF Event
<1> QED
  BY <1>1, <1>2, <1>3, PushFacts

\* No event, boundary or snapshot is ahead of the ring.
LEMMA Behind ==
  ASSUME OneProfile, Handshake
  PROVE  /\ \A x \in In(wire) : Marked(x) => Mark(x)[2] <= seq[Default]
         /\ \A i \in 1 .. Len(client.held) : client.held[i].n <= seq[Default]
         /\ \A a \in In(client.answered) : a.boundary <= seq[Default]
<1>1. client.held \in Seq(EventFrame) /\ client.answered \in Seq(AnswerFrame) /\ wire \in Seq(Frame)
  BY ClientWrites DEF Handshake, Typed
<1>2. ASSUME NEW i \in 1 .. Len(wire), Marked(wire[i]) PROVE Mark(wire[i])[2] <= seq[Default]
  <2>1. wire[i].profile = Default
    <3>1. wire[i] \in Frame
      BY <1>1
    <3> QED
      BY <1>2, <3>1, MarkTyped DEF OneProfile
  <2> QED
    BY <1>2, <2>1 DEF Handshake, Ordered, WireOrdered
<1>3. \A s \in Past(client) : s[2] <= seq[Default]
  <2> TAKE s \in Past(client)
  <2>1. s[1] = Default
    <3>1. client \in Client
      BY DEF Handshake, Typed
    <3>2. s \in Profiles \X Nat
      BY <3>1, PastTyped
    <3> QED
      BY <3>2 DEF OneProfile
  <2> QED
    BY <2>1 DEF Handshake, Ordered
<1>4. ASSUME NEW i \in 1 .. Len(client.held) PROVE client.held[i].n <= seq[Default]
  <2>1. Mark(client.held[i]) = <<client.held[i].profile, client.held[i].n>>
    BY <1>1, MarkTyped
  <2>2. Mark(client.held[i]) \in Past(client)
    BY DEF Past
  <2> QED
    BY <1>3, <2>1, <2>2
<1>5. ASSUME NEW i \in 1 .. Len(client.answered) PROVE client.answered[i].boundary <= seq[Default]
  <2>1. Mark(client.answered[i]) = <<client.answered[i].profile, client.answered[i].boundary>>
    BY <1>1, MarkTyped
  <2>2. Mark(client.answered[i]) \in Past(client)
    BY DEF Past
  <2> QED
    BY <1>3, <2>1, <2>2
<1> QED
  BY <1>2, <1>4, <1>5 DEF In

LEMMA AskingStep ==
  ASSUME OneProfile, Handshake, Asking, Next
  PROVE  Asking'
<1>0. Typed /\ Phased /\ Counted /\ client \in Client /\ client.cursor \in Nat /\ seq[Default] \in Nat
      /\ total \in Nat
  BY SeqTyped DEF Handshake, Typed
<1>1. ASSUME (\E p \in Profiles : Push(p)) \/ PushAll PROVE Asking'
  <2>1. /\ UNCHANGED <<session, requests, client, fromCursor>>
        /\ seq'[Default] = seq[Default] + 1 /\ total' = total + 1
        /\ \/ session.state # "active" /\ wire' = wire
           \/ /\ session.state = "active"
              /\ \E e \in EventFrame : e.n = seq[Default] + 1 /\ wire' = Append(wire, e)
    BY <1>0, <1>1, OnePush
  <2>2. total' = seq'[Default] /\ client'.cursor <= seq'[Default]
    BY <1>0, <2>1 DEF Asking
  <2>3. CASE wire' = wire
    <3>1. client.phase = "connecting" => wire[1].sequence \in Nat
      <4>1. client.phase = "connecting" => wire # <<>> /\ wire[1].type = "hello"
        BY <1>0, SMTT(30) DEF Phased
      <4>2. wire # <<>> => wire[1] \in Frame
        BY <1>0, TailFacts DEF Typed
      <4> QED
        BY <4>1, <4>2, Kinds DEF HelloFrame
    <3>2. client.phase = "connecting" => wire[1].sequence <= total'
      BY <1>0, <2>1, <3>1 DEF Asking
    <3> QED
      BY <2>1, <2>2, <2>3, <3>2 DEF Asking
  <2>4. CASE session.state = "active" /\ \E e \in EventFrame : wire' = Append(wire, e)
    <3>1. PICK e \in EventFrame : wire' = Append(wire, e)
      BY <2>4
    <3>2. e \in Frame /\ e.type = "event"
      BY MarkTyped
    <3>3. In(wire') = In(wire) \cup {e}
      BY <1>0, <3>1, <3>2, WireJoins
    <3>4. client.phase # "connecting"
      BY <1>0, <2>4 DEF Phased, Early
    <3> QED
      BY <2>1, <2>2, <3>2, <3>3, <3>4 DEF Asking
  <2> QED
    BY <2>1, <2>3, <2>4
<1>2. ASSUME NEW x \in Frame, wire' = Append(wire, x), x.type = "subscribed" => Whole(x, client.since),
             requests # <<>>, requests' = Tail(requests), UNCHANGED <<seq, total, client, fromCursor>>
      PROVE  Asking'
  <2>1. In(wire') = In(wire) \cup {x}
    BY <1>0, <1>2, WireJoins
  <2>2. In(requests') \subseteq In(requests)
    BY <1>0, <1>2, RequestLeaves
  <2>3. client.phase # "connecting"
    BY <1>0, <1>2 DEF Phased
  <2> QED
    BY <1>2, <2>1, <2>2, <2>3 DEF Asking
<1>3. ASSUME ServeBind PROVE Asking'
  <2>1. PICK x \in BoundFrame : x.type = "bound" /\ wire' = Append(wire, x)
    BY <1>0, <1>3, ServeBindFacts
  <2>2. x \in Frame
    BY DEF Frame
  <2>3. requests # <<>> /\ requests' = Tail(requests) /\ UNCHANGED <<seq, total, client, fromCursor>>
    BY <1>0, <1>3, ServeBindFacts
  <2> QED
    BY <1>2, <2>1, <2>2, <2>3
<1>4. ASSUME ServeSubscribe PROVE Asking'
  <2>1. PICK x : Answered(session.audience, requests[1].after, x) /\ wire' = Append(wire, x)
    BY <1>0, <1>4, ServeSubscribeFacts
  <2>2. requests # <<>> /\ requests[1].type = "subscribe" /\ requests' = Tail(requests)
        /\ UNCHANGED <<seq, total, client, fromCursor>>
    BY <1>0, <1>4, ServeSubscribeFacts
  <2>3. requests[1].after = client.since
    <3>1. requests[1] \in In(requests)
      BY <1>0, <2>2, RequestLeaves
    <3> QED
      BY <2>2, <3>1 DEF Asking
  <2>4. x \in Frame /\ Whole(x, client.since)
    BY <2>1, <2>3 DEF Answered, Whole, Frame
  <2> QED
    BY <1>2, <2>1, <2>2, <2>4
<1>5. ASSUME ServeSnapshot PROVE Asking'
  <2>1. PICK x \in SnapshotFrame : x.type = "snapshot" /\ wire' = Append(wire, x)
    BY <1>0, <1>5, ServeSnapshotFacts
  <2>2. x \in Frame
    BY DEF Frame
  <2>3. requests # <<>> /\ requests' = Tail(requests) /\ UNCHANGED <<seq, total, client, fromCursor>>
    BY <1>0, <1>5, ServeSnapshotFacts
  <2> QED
    BY <1>2, <2>1, <2>2, <2>3
<1>6. ASSUME Connect PROVE Asking'
  <2>1. /\ client'.phase = "connecting" /\ client'.answered = <<>> /\ client'.cursor = 0
        /\ client'.since = IF fromCursor THEN seq[Default] ELSE 0
    BY <1>6 DEF Connect, NewClient
  <2>2. requests' = <<>> /\ UNCHANGED <<seq, total, fromCursor>>
    BY <1>0, <1>6 DEF Connect, Up, Phased
  <2>3. wire' = <<[type |-> "hello", sequence |-> total]>>
    BY <1>6 DEF Connect
  <2>4. Len(wire') = 1 /\ wire'[1].type = "hello" /\ wire'[1].sequence = total
    BY <2>3
  <2>5. In(requests') = {} /\ In(client'.answered) = {} /\ \A x \in In(wire') : x.type = "hello"
    BY <2>1, <2>2, <2>4 DEF In
  <2> QED
    BY <1>0, <2>1, <2>2, <2>4, <2>5 DEF Asking
<1>7. ASSUME HelloArrives PROVE Asking'
  <2>1. /\ wire # <<>> /\ wire[1].type = "hello" /\ wire' = Tail(wire) /\ wire[1] \in HelloFrame
        /\ client' = [client EXCEPT !.cursor = wire[1].sequence, !.phase = "binding"]
        /\ requests' = Append(requests, [type |-> "bind", profile |-> Default])
        /\ UNCHANGED <<seq, total, fromCursor>>
    BY <1>0, <1>7, HelloFacts
  <2>2. wire[1] \in In(wire) /\ In(wire') \subseteq In(wire)
    BY <1>0, <2>1, WireLeaves
  <2>3. client.phase = "connecting"
    BY <1>0, <2>1, <2>2 DEF Phased
  <2>4. wire[1].sequence <= seq[Default] /\ (fromCursor => wire[1].sequence = client.since)
    BY <2>3 DEF Asking
  <2>5. In(requests') = In(requests) \cup {[type |-> "bind", profile |-> Default]}
    <3>1. [type |-> "bind", profile |-> Default] \in Request
      BY FrameTyped, StreamAssumption
    <3> QED
      BY <1>0, <2>1, <3>1, RequestJoins
  <2>6. /\ client'.phase = "binding" /\ client'.answered = client.answered
        /\ client'.cursor = wire[1].sequence /\ client'.since = client.since
    BY <1>0, <2>1 DEF Client
  <2> QED
    BY <2>1, <2>2, <2>4, <2>5, <2>6 DEF Asking
<1>8. ASSUME BoundArrives PROVE Asking'
  <2> DEFINE after == IF fromCursor THEN client.cursor ELSE 0
             x == [type |-> "subscribe", after |-> after]
  <2>1. /\ wire # <<>> /\ wire[1].type = "bound" /\ wire' = Tail(wire) /\ UNCHANGED <<seq, total, fromCursor>>
        /\ client' = [client EXCEPT !.inFlight = client.inFlight + 1, !.phase = "subscribing"]
        /\ requests' = Append(requests, x)
    BY <1>0, <1>8, BoundFacts
  <2>2. In(wire') \subseteq In(wire) /\ Count(wire, "bound") >= 1 /\ Count(wire, "bound") \in Nat
    BY <1>0, <2>1, WireLeaves
  <2>3. fromCursor => client.phase = "binding"
    <3>1. Count(requests, "bind") \in Nat
      BY <1>0, CountsTyped
    <3> QED
      BY <1>0, <2>2, <3>1 DEF Counted
  <2>4. after = client.since /\ after \in Nat
    <3>1. client.since \in Nat
      BY <1>0, ClientWrites
    <3> QED
      BY <2>3, <3>1 DEF Asking
  <2> HIDE DEF after
  <2>5. x \in Request /\ x.type = "subscribe" /\ x.after = client.since
    BY <2>4, FrameTyped
  <2> HIDE DEF x
  <2>6. In(requests') = In(requests) \cup {x}
    BY <1>0, <2>1, <2>5, RequestJoins
  <2>7. /\ client'.phase = "subscribing" /\ client'.answered = client.answered
        /\ client'.cursor = client.cursor /\ client'.since = client.since
    BY <1>0, <2>1 DEF Client
  <2> QED
    BY <2>1, <2>2, <2>5, <2>6, <2>7 DEF Asking
<1>9. ASSUME EventArrives PROVE Asking'
  <2>1. /\ wire # <<>> /\ wire[1] \in EventFrame /\ wire' = Tail(wire)
        /\ UNCHANGED <<seq, total, requests, fromCursor>>
        /\ \/ client' = [client EXCEPT !.held = Append(client.held, wire[1])]
           \/ client' = Handed(client, wire[1], FALSE)
    BY <1>0, <1>9, EventFacts
  <2>2. In(wire') \subseteq In(wire) /\ wire[1] \in In(wire)
    BY <1>0, <2>1, WireLeaves
  <2>3. wire[1].n <= seq[Default] /\ wire[1].n \in Nat
    <3>1. Marked(wire[1]) /\ Mark(wire[1])[2] = wire[1].n /\ wire[1].n \in Nat
      BY <2>1, MarkTyped
    <3> QED
      BY <2>2, <3>1, Behind
  <2>4. /\ client'.phase = client.phase /\ client'.since = client.since /\ client'.answered = client.answered
        /\ client'.cursor <= seq[Default]
    <3>1. CASE client' = [client EXCEPT !.held = Append(client.held, wire[1])]
      BY <1>0, <3>1 DEF Client, Asking
    <3>2. CASE client' = Handed(client, wire[1], FALSE)
      <4>1. Beside(client, client') /\ client'.cursor = Larger(client.cursor, wire[1].n)
        BY <1>0, <2>1, <3>2, HandedFacts
      <4> QED
        BY <2>3, <4>1 DEF Beside, Larger, Asking
    <3> QED
      BY <2>1, <3>1, <3>2
  <2>5. client.phase \notin Early
    BY <1>0, <2>1, <2>2, MarkTyped DEF Phased
  <2> QED
    BY <2>1, <2>2, <2>4, <2>5 DEF Asking, Early
<1>10. ASSUME SubscribedArrives PROVE Asking'
  <2>1. /\ wire # <<>> /\ wire[1] \in AnswerFrame /\ wire[1].type = "subscribed" /\ wire' = Tail(wire)
        /\ client' = [client EXCEPT !.answered = Append(client.answered, wire[1])]
        /\ UNCHANGED <<seq, total, requests, fromCursor>>
    BY <1>0, <1>10, AnswerFacts
  <2>2. In(wire') \subseteq In(wire) /\ wire[1] \in In(wire)
    BY <1>0, <2>1, WireLeaves
  <2>3. /\ client'.phase = client.phase /\ client'.since = client.since /\ client'.cursor = client.cursor
        /\ client'.answered = Append(client.answered, wire[1])
    BY <1>0, <2>1 DEF Client
  <2>4. In(client'.answered) = In(client.answered) \cup {wire[1]}
    BY <1>0, <2>1, <2>3, InFacts, ClientWrites
  <2>5. client.phase # "connecting"
    BY <1>0, <2>1, <2>2, MarkTyped DEF Phased, Early
  <2> QED
    BY <2>1, <2>2, <2>3, <2>4, <2>5 DEF Asking
<1>11. ASSUME SnapshotArrives PROVE Asking'
  <2>1. /\ wire # <<>> /\ wire[1].type = "snapshot" /\ wire' = Tail(wire)
        /\ UNCHANGED <<seq, total, requests, fromCursor>>
        /\ client'.phase = client.phase /\ client'.answered = client.answered
        /\ client'.since = client.since /\ client'.cursor = client.cursor
    BY <1>0, <1>11, SnapshotFacts
  <2>2. In(wire') \subseteq In(wire)
    BY <1>0, <2>1, WireLeaves
  <2>3. client.phase # "connecting"
    BY <1>0, <2>1 DEF Phased
  <2> QED
    BY <2>1, <2>2, <2>3 DEF Asking
<1>12. ASSUME Subscribed PROVE Asking'
  <2>0. InFlight(client) = client.inFlight - 1
    BY DEF InFlight
  <2>1. PICK a, caughtUp, flushed :
           /\ a \in AnswerFrame /\ caughtUp \in Client /\ flushed \in Client
           /\ a = Head(client.answered) /\ client.answered # <<>>
           /\ SubscribedClient(a, client')
           /\ flushed = HandedAll(caughtUp, client.held, a, FALSE)
           /\ client'.cursor = flushed.cursor
           /\ caughtUp.cursor <= client.cursor \/ caughtUp.cursor <= a.boundary
    BY <1>0, <1>12, <2>0, SubscribedFacts
  <2>2. client.held \in Seq(EventFrame) /\ client.answered \in Seq(AnswerFrame)
    BY <1>0, ClientWrites
  <2>3. In(client'.answered) \subseteq In(client.answered) /\ a \in In(client.answered)
    BY <2>1, <2>2, InFacts DEF SubscribedClient
  <2>4. caughtUp.cursor \in Nat /\ caughtUp.cursor <= seq[Default] /\ a.boundary \in Nat
    <3>1. a.boundary <= seq[Default]
      BY <2>3, Behind
    <3>2. a.boundary \in Nat /\ caughtUp.cursor \in Nat
      BY <2>1, MarkTyped, ClientWrites
    <3> QED
      BY <1>0, <2>1, <3>1, <3>2 DEF Asking
  <2>5. flushed.cursor = caughtUp.cursor \/ \E j \in 1 .. Len(client.held) : flushed.cursor = client.held[j].n
    <3>1. Result(caughtUp, client.held, a, FALSE, flushed)
      BY <2>1, <2>2, HandedAllFacts
    <3> QED
      BY <3>1 DEF Result
  <2>6. client'.cursor <= seq[Default]
    BY <2>1, <2>4, <2>5, Behind
  <2>7. UNCHANGED <<seq, total, requests, wire, fromCursor>>
    BY <1>12 DEF Subscribed
  <2> QED
    BY <2>1, <2>3, <2>6, <2>7 DEF Asking, SubscribedClient
<1>13. ASSUME Reload \/ \E p \in Profiles : Switch(p) PROVE Asking'
  <2>1. /\ client.phase = "ready" /\ client'.phase = "ready" /\ client'.answered = client.answered
        /\ client'.since = client.since /\ client'.cursor = client.cursor
        /\ UNCHANGED <<seq, total, wire, fromCursor>>
    BY <1>0, <1>13 DEF Switch, Reload, Client
  <2>2. \E x \in Request : x.type # "subscribe" /\ requests' = Append(requests, x)
    <3>1. CASE Reload
      BY <3>1, FrameTyped DEF Reload
    <3>2. ASSUME NEW p \in Profiles, Switch(p)
          PROVE  \E x \in Request : x.type # "subscribe" /\ requests' = Append(requests, x)
      <4> DEFINE x == [type |-> "bind", profile |-> p]
      <4>1. x \in Request /\ x.type # "subscribe" /\ requests' = Append(requests, x)
        BY <3>2, FrameTyped DEF Switch
      <4> HIDE DEF x
      <4> QED
        BY <4>1
    <3> QED
      BY <1>13, <3>1, <3>2
  <2>3. PICK x \in Request : x.type # "subscribe" /\ requests' = Append(requests, x)
    BY <2>2
  <2>4. In(requests') = In(requests) \cup {x}
    BY <1>0, <2>3, RequestJoins
  <2> QED
    BY <2>1, <2>3, <2>4 DEF Asking
<1>14. ASSUME Disconnect \/ Restart PROVE Asking'
  <2>1. /\ client'.phase = "away" /\ client'.answered = <<>> /\ wire' = <<>> /\ requests' = <<>>
        /\ client'.cursor = 0 /\ client'.since = 0
    BY <1>14 DEF Disconnect, Restart, NewClient
  <2>2. total' = seq'[Default] /\ seq'[Default] \in Nat
    BY <1>0, <1>14, StreamAssumption DEF Disconnect, Restart, Asking
  <2>3. In(<<>>) = {}
    BY DEF In
  <2> QED
    BY <2>1, <2>2, <2>3 DEF Asking
<1> QED
  BY <1>1, <1>3, <1>4, <1>5, <1>6, <1>7, <1>8, <1>9, <1>10, <1>11, <1>12, <1>13, <1>14
  DEF Next, Serve, Receive

\* The events that are shown, held or on their way follow each other: one before them is
\* passed, is brought by an answer, or comes first.
KnownTo(c, n, k) ==
    \/ n <= c.cursor
    \/ \E a \in In(c.answered) : n <= a.boundary
    \/ \E i \in 1 .. k : c.held[i].n = n

Covers(x, n) == (x.type = "event" /\ x.n = n) \/ (x.type = "subscribed" /\ n <= x.boundary)
OnWay(c, w, n, k) == KnownTo(c, n, Len(c.held)) \/ \E i \in 1 .. k : Covers(w[i], n)

Contiguous ==
    /\ \A j \in 1 .. Len(client.held) : \A n \in 1 .. client.held[j].n - 1 : KnownTo(client, n, j - 1)
    /\ \A j \in 1 .. Len(wire) :
          wire[j].type = "event" => \A n \in 1 .. wire[j].n - 1 : OnWay(client, wire, n, j - 1)
    /\ session.state = "active" => \A n \in 1 .. seq[Default] : OnWay(client, wire, n, Len(wire))

LEMMA JoinsContiguous ==
  ASSUME Typed, Contiguous, NEW x \in Frame, wire' = Append(wire, x), client' = client,
         x.type = "event" => \A n \in 1 .. x.n - 1 : OnWay(client, wire, n, Len(wire)),
         session'.state = "active" =>
            \A n \in 1 .. seq'[Default] : OnWay(client, wire, n, Len(wire)) \/ Covers(x, n)
  PROVE  Contiguous'
<1> DEFINE m == Len(wire)
<1>1. m \in Nat /\ Len(wire') = m + 1 /\ wire'[m + 1] = x /\ \A i \in 1 .. m : wire'[i] = wire[i]
  BY AppendFacts DEF Typed
<1>2. \A n, k : k \in 0 .. m => (OnWay(client, wire, n, k) => OnWay(client', wire', n, k))
  BY <1>1 DEF OnWay
<1>3. \A n : OnWay(client, wire, n, m) \/ Covers(x, n) => OnWay(client', wire', n, m + 1)
  <2> SUFFICES ASSUME NEW n, OnWay(client, wire, n, m) \/ Covers(x, n) PROVE OnWay(client', wire', n, m + 1)
    OBVIOUS
  <2>1. CASE Covers(x, n)
    <3>1. m + 1 \in 1 .. m + 1
      BY <1>1
    <3> QED
      BY <1>1, <2>1, <3>1 DEF OnWay
  <2>2. CASE OnWay(client, wire, n, m)
    <3>1. \A i \in 1 .. m : i \in 1 .. m + 1
      BY <1>1
    <3> QED
      BY <1>1, <2>2, <3>1 DEF OnWay
  <2> QED
    BY <2>1, <2>2
<1>4. ASSUME NEW j \in 1 .. m + 1, wire'[j].type = "event", NEW n \in 1 .. wire'[j].n - 1
      PROVE  OnWay(client', wire', n, j - 1)
  <2>1. CASE j = m + 1
    <3>1. OnWay(client, wire, n, m) /\ j - 1 = m /\ m \in 0 .. m
      BY <1>1, <1>4, <2>1
    <3> QED
      BY <1>2, <3>1
  <2>2. CASE j # m + 1
    <3>1. j \in 1 .. m /\ j - 1 \in 0 .. m /\ wire'[j] = wire[j]
      BY <1>1, <2>2
    <3>2. OnWay(client, wire, n, j - 1)
      BY <1>4, <3>1 DEF Contiguous
    <3> QED
      BY <1>2, <3>1, <3>2
  <2> QED
    BY <2>1, <2>2
<1> QED
  BY <1>1, <1>3, <1>4 DEF Contiguous

\* The head of the wire leaves for a client that knows of it.
LEMMA LeavesContiguous ==
  ASSUME Typed, Contiguous, wire # <<>>, wire' = Tail(wire), UNCHANGED <<seq, session>>,
         \A n \in Nat : KnownTo(client, n, Len(client.held)) \/ Covers(wire[1], n)
                        => KnownTo(client', n, Len(client'.held)),
         \A j \in 1 .. Len(client'.held) : \A n \in 1 .. client'.held[j].n - 1 : KnownTo(client', n, j - 1)
  PROVE  Contiguous'
<1> DEFINE m == Len(wire)
<1>1. m \in Nat \ {0} /\ Len(wire') = m - 1 /\ \A i \in 1 .. m - 1 : wire'[i] = wire[i + 1] /\ i + 1 \in 1 .. m
  BY TailFacts DEF Typed
<1>2. ASSUME NEW n \in Nat, NEW k \in 0 .. m - 1, OnWay(client, wire, n, k + 1)
      PROVE  OnWay(client', wire', n, k)
  <2>1. CASE KnownTo(client, n, Len(client.held))
    BY <2>1 DEF OnWay
  <2>2. CASE \E i \in 1 .. k + 1 : Covers(wire[i], n)
    <3>1. PICK i \in 1 .. k + 1 : Covers(wire[i], n)
      BY <2>2
    <3>2. CASE i = 1
      BY <3>1, <3>2 DEF OnWay
    <3>3. CASE i # 1
      <4>1. i - 1 \in 1 .. k /\ i - 1 \in 1 .. m - 1 /\ (i - 1) + 1 = i
        BY <1>1, <3>3
      <4>2. wire'[i - 1] = wire[i]
        BY <1>1, <4>1
      <4> QED
        BY <3>1, <4>1, <4>2 DEF OnWay
    <3> QED
      BY <3>2, <3>3
  <2> QED
    BY <1>2, <2>1, <2>2 DEF OnWay
<1>3. ASSUME NEW j \in 1 .. m - 1, wire'[j].type = "event", NEW n \in 1 .. wire'[j].n - 1
      PROVE  OnWay(client', wire', n, j - 1)
  <2>1. j + 1 \in 1 .. m /\ wire'[j] = wire[j + 1] /\ (j + 1) - 1 = j /\ j - 1 \in 0 .. m - 1 /\ (j - 1) + 1 = j
    BY <1>1
  <2>2. OnWay(client, wire, n, (j + 1) - 1)
    BY <1>3, <2>1 DEF Contiguous
  <2> QED
    BY <1>2, <2>1, <2>2
<1>4. ASSUME session'.state = "active", NEW n \in 1 .. seq'[Default] PROVE OnWay(client', wire', n, m - 1)
  <2>1. OnWay(client, wire, n, m) /\ m - 1 \in 0 .. m - 1 /\ (m - 1) + 1 = m
    BY <1>1, <1>4 DEF Contiguous
  <2> QED
    BY <1>2, <2>1
<1> QED
  BY <1>1, <1>3, <1>4 DEF Contiguous

\* The wire stays, and the client forgets nothing.
LEMMA StaysContiguous ==
  ASSUME Typed, Contiguous, wire' = wire, session' = session \/ session'.state # "active",
         session'.state = "active" => seq' = seq,
         \A n \in Nat : KnownTo(client, n, Len(client.held)) => KnownTo(client', n, Len(client'.held)),
         \A j \in 1 .. Len(client'.held) : \A n \in 1 .. client'.held[j].n - 1 : KnownTo(client', n, j - 1)
  PROVE  Contiguous'
<1>1. \A n \in Nat : \A k : OnWay(client, wire, n, k) => OnWay(client', wire', n, k)
  BY DEF OnWay
<1>2. ASSUME NEW j \in 1 .. Len(wire), wire[j].type = "event", NEW n \in 1 .. wire[j].n - 1
      PROVE  OnWay(client', wire', n, j - 1)
  BY <1>1, <1>2 DEF Contiguous
<1>3. ASSUME session'.state = "active", NEW n \in 1 .. seq'[Default] PROVE OnWay(client', wire', n, Len(wire))
  BY <1>1, <1>3 DEF Contiguous
<1> QED
  BY <1>2, <1>3 DEF Contiguous

\* A connection without events.
LEMMA QuietContiguous ==
  ASSUME client'.held = <<>>, session'.state # "active", \A x \in In(wire') : x.type # "event"
  PROVE  Contiguous'
<1>1. \A j \in 1 .. Len(wire') : wire'[j].type # "event"
  BY DEF In
<1> QED
  BY <1>1 DEF Contiguous

LEMMA ContiguousStep ==
  ASSUME OneProfile, Handshake, Asking, Contiguous, Next
  PROVE  Contiguous'
<1>0. /\ Typed /\ Phased /\ Counted /\ client \in Client /\ client.cursor \in Nat /\ seq[Default] \in Nat
      /\ client.held \in Seq(EventFrame) /\ client.answered \in Seq(AnswerFrame) /\ Len(client.held) \in Nat
      /\ session.audience = Default
  <2>1. Typed /\ client \in Client /\ session.audience = Default
    BY DEF Handshake, Typed, OneProfile
  <2>2. client.held \in Seq(EventFrame) /\ client.answered \in Seq(AnswerFrame)
    BY <2>1, ClientWrites
  <2> QED
    BY <2>1, <2>2, SeqTyped DEF Handshake
<1>00. \A j \in 1 .. Len(client.held) : \A n \in 1 .. client.held[j].n - 1 : KnownTo(client, n, j - 1)
  BY DEF Contiguous
<1>1. ASSUME (\E p \in Profiles : Push(p)) \/ PushAll PROVE Contiguous'
  <2>1. /\ UNCHANGED <<session, client>> /\ seq'[Default] = seq[Default] + 1
        /\ \/ session.state # "active" /\ wire' = wire
           \/ /\ session.state = "active"
              /\ \E e \in EventFrame : e.n = seq[Default] + 1 /\ wire' = Append(wire, e)
    BY <1>0, <1>1, OnePush
  <2>2. CASE session.state # "active" /\ wire' = wire
    BY <1>0, <1>00, <2>1, <2>2, StaysContiguous
  <2>3. CASE session.state = "active" /\ \E e \in EventFrame : e.n = seq[Default] + 1 /\ wire' = Append(wire, e)
    <3>1. PICK e \in EventFrame : e.n = seq[Default] + 1 /\ wire' = Append(wire, e)
      BY <2>3
    <3>2. e \in Frame /\ e.type = "event"
      BY MarkTyped
    <3>3. \A n \in 1 .. seq[Default] : OnWay(client, wire, n, Len(wire))
      BY <2>3 DEF Contiguous
    <3>4. \A n \in 1 .. e.n - 1 : OnWay(client, wire, n, Len(wire))
      BY <1>0, <3>1, <3>3
    <3>5. \A n \in 1 .. seq'[Default] : OnWay(client, wire, n, Len(wire)) \/ Covers(e, n)
      <4> TAKE n \in 1 .. seq'[Default]
      <4>1. n \in 1 .. seq[Default] \/ n = e.n
        BY <1>0, <2>1, <3>1
      <4> QED
        BY <3>2, <3>3, <4>1 DEF Covers
    <3> QED
      BY <1>0, <2>1, <3>1, <3>2, <3>4, <3>5, JoinsContiguous
  <2> QED
    BY <2>1, <2>2, <2>3
<1>2. ASSUME ServeBind PROVE Contiguous'
  <2>1. PICK x \in BoundFrame : x.type = "bound" /\ wire' = Append(wire, x)
    BY <1>0, <1>2, ServeBindFacts
  <2>2. x \in Frame /\ x.type # "event"
    BY <2>1 DEF Frame
  <2>3. session'.state # "active" /\ client' = client
    BY <1>0, <1>2, ServeBindFacts
  <2> QED
    BY <1>0, <2>1, <2>2, <2>3, JoinsContiguous
<1>3. ASSUME ServeSubscribe PROVE Contiguous'
  <2>1. PICK x : Answered(session.audience, requests[1].after, x) /\ wire' = Append(wire, x)
    BY <1>0, <1>3, ServeSubscribeFacts
  <2>2. x \in Frame /\ x.type = "subscribed" /\ x.boundary = seq[Default]
    BY <1>0, <2>1 DEF Answered, Frame
  <2>3. UNCHANGED <<seq, client>>
    BY <1>0, <1>3, ServeSubscribeFacts
  <2>4. \A n \in 1 .. seq'[Default] : Covers(x, n)
    BY <1>0, <2>2, <2>3 DEF Covers
  <2> QED
    BY <1>0, <2>1, <2>2, <2>3, <2>4, JoinsContiguous
<1>4. ASSUME ServeSnapshot PROVE Contiguous'
  <2>1. PICK x \in SnapshotFrame : x.type = "snapshot" /\ wire' = Append(wire, x)
    BY <1>0, <1>4, ServeSnapshotFacts
  <2>2. x \in Frame /\ x.type # "event"
    BY <2>1 DEF Frame
  <2>3. UNCHANGED <<seq, session, client>>
    BY <1>0, <1>4, ServeSnapshotFacts
  <2>4. session.state = "active" => \A n \in 1 .. seq[Default] : OnWay(client, wire, n, Len(wire))
    BY DEF Contiguous
  <2> QED
    BY <1>0, <2>1, <2>2, <2>3, <2>4, JoinsContiguous
<1>5. ASSUME Connect PROVE Contiguous'
  <2>1. client'.held = <<>> /\ session'.state # "active"
    BY <1>5 DEF Connect, NewClient, NewSession
  <2>2. Len(wire') = 1 /\ wire'[1].type = "hello"
    BY <1>5 DEF Connect
  <2>3. \A x \in In(wire') : x.type # "event"
    BY <2>2 DEF In
  <2> QED
    BY <2>1, <2>3, QuietContiguous
<1>6. ASSUME HelloArrives PROVE Contiguous'
  <2>1. /\ wire # <<>> /\ wire[1].type = "hello" /\ wire' = Tail(wire) /\ UNCHANGED session
        /\ client' = [client EXCEPT !.cursor = wire[1].sequence, !.phase = "binding"]
    BY <1>0, <1>6, HelloFacts
  <2>2. wire[1] \in In(wire) /\ In(wire') \subseteq In(wire)
    BY <1>0, <2>1, WireLeaves
  <2>3. client.phase = "connecting"
    BY <1>0, <2>1, <2>2 DEF Phased
  <2>4. client.held = <<>> /\ session.state = "none" /\ \A x \in In(wire) : ~Marked(x)
    BY <1>0, <2>3 DEF Phased, Early
  <2>5. client'.held = <<>> /\ session'.state # "active"
    BY <1>0, <2>1, <2>4 DEF Client
  <2>6. \A x \in In(wire') : x.type # "event"
    BY <2>2, <2>4 DEF Marked
  <2> QED
    BY <2>5, <2>6, QuietContiguous
<1>7. ASSUME BoundArrives PROVE Contiguous'
  <2>1. /\ wire # <<>> /\ wire[1].type = "bound" /\ wire' = Tail(wire) /\ UNCHANGED <<seq, session>>
        /\ client' = [client EXCEPT !.inFlight = client.inFlight + 1, !.phase = "subscribing"]
    BY <1>0, <1>7, BoundFacts
  <2>2. client'.cursor = client.cursor /\ client'.answered = client.answered /\ client'.held = client.held
    BY <1>0, <2>1 DEF Client
  <2>3. \A n : ~Covers(wire[1], n)
    BY <2>1 DEF Covers
  <2>4. \A n, k : KnownTo(client', n, k) = KnownTo(client, n, k)
    BY <2>2 DEF KnownTo
  <2> QED
    BY <1>0, <1>00, <2>1, <2>2, <2>3, <2>4, LeavesContiguous
<1>8. ASSUME EventArrives PROVE Contiguous'
  <2> DEFINE e == wire[1]
  <2>1. /\ wire # <<>> /\ e \in EventFrame /\ wire' = Tail(wire) /\ UNCHANGED <<seq, session>>
        /\ \/ client' = [client EXCEPT !.held = Append(client.held, e)]
           \/ /\ ~(client.inFlight > 0)
              /\ client' = Handed(client, e, FALSE)
    BY <1>0, <1>8, EventFacts
  <2>2. e.type = "event" /\ e.n \in Nat /\ e \in EventFrame
    BY <2>1, MarkTyped
  <2>3. \A n \in 1 .. e.n - 1 : KnownTo(client, n, Len(client.held))
    <3>1. 1 \in 1 .. Len(wire)
      BY <1>0, <2>1, TailFacts DEF Typed
    <3>2. \A n \in 1 .. e.n - 1 : OnWay(client, wire, n, 1 - 1)
      BY <2>2, <3>1 DEF Contiguous
    <3> QED
      BY <3>2 DEF OnWay
  <2>4. \A n : Covers(e, n) => n = e.n
    BY <2>2 DEF Covers
  <2> HIDE DEF e
  <2>5. CASE client' = [client EXCEPT !.held = Append(client.held, e)]
    <3> DEFINE m == Len(client.held)
    <3>1. client'.cursor = client.cursor /\ client'.answered = client.answered
          /\ client'.held = Append(client.held, e)
      BY <1>0, <2>5 DEF Client
    <3>2. /\ m \in Nat /\ Len(client'.held) = m + 1 /\ client'.held[m + 1] = e
          /\ \A i \in 1 .. m : client'.held[i] = client.held[i]
      BY <1>0, <2>2, <3>1, AppendFacts
    <3>3. \A n, k : k \in 0 .. m + 1 => (KnownTo(client, n, IF k > m THEN m ELSE k) => KnownTo(client', n, k))
      <4> SUFFICES ASSUME NEW n, NEW k \in 0 .. m + 1, KnownTo(client, n, IF k > m THEN m ELSE k)
                   PROVE  KnownTo(client', n, k)
        OBVIOUS
      <4>1. CASE \E i \in 1 .. (IF k > m THEN m ELSE k) : client.held[i].n = n
        <5>1. PICK i \in 1 .. (IF k > m THEN m ELSE k) : client.held[i].n = n
          BY <4>1
        <5>2. i \in 1 .. k /\ i \in 1 .. m
          BY <3>2
        <5> QED
          BY <3>2, <5>1, <5>2 DEF KnownTo
      <4>2. CASE n <= client.cursor \/ \E a \in In(client.answered) : n <= a.boundary
        BY <3>1, <4>2 DEF KnownTo
      <4> QED
        BY <4>1, <4>2 DEF KnownTo
    <3>4. \A n \in Nat : KnownTo(client, n, m) \/ Covers(e, n) => KnownTo(client', n, m + 1)
      <4> SUFFICES ASSUME NEW n \in Nat, KnownTo(client, n, m) \/ Covers(e, n) PROVE KnownTo(client', n, m + 1)
        OBVIOUS
      <4>1. m + 1 \in 0 .. m + 1 /\ m + 1 \in 1 .. m + 1 /\ (IF m + 1 > m THEN m ELSE m + 1) = m
        BY <3>2
      <4>2. CASE KnownTo(client, n, m)
        BY <3>3, <4>1, <4>2
      <4>3. CASE Covers(e, n)
        BY <2>4, <3>2, <4>1, <4>3 DEF KnownTo
      <4> QED
        BY <4>2, <4>3
    <3>5. ASSUME NEW j \in 1 .. m + 1, NEW n \in 1 .. client'.held[j].n - 1 PROVE KnownTo(client', n, j - 1)
      <4>1. j - 1 \in 0 .. m + 1 /\ (IF j - 1 > m THEN m ELSE j - 1) = j - 1
        BY <3>2
      <4>2. KnownTo(client, n, j - 1)
        <5>1. CASE j = m + 1
          <6>1. j - 1 = m
            BY <3>2, <5>1
          <6> QED
            BY <2>3, <3>2, <5>1, <6>1
        <5>2. CASE j # m + 1
          <6>1. j \in 1 .. m
            BY <3>2, <5>2
          <6> QED
            BY <1>00, <3>2, <6>1
        <5> QED
          BY <5>1, <5>2
      <4> QED
        BY <3>3, <4>1, <4>2
    <3> QED
      BY <1>0, <2>1, <3>2, <3>4, <3>5, LeavesContiguous DEF e
  <2>6. CASE ~(client.inFlight > 0) /\ client' = Handed(client, e, FALSE)
    <3>1. client.held = <<>>
      BY <2>6 DEF Handshake, Ordered
    <3>2. Beside(client, client') /\ client'.cursor = Larger(client.cursor, e.n)
      BY <1>0, <2>2, <2>6, HandedFacts
    <3>3. client'.held = <<>> /\ client'.answered = client.answered
          /\ client'.cursor \in Nat /\ client'.cursor >= client.cursor /\ client'.cursor >= e.n
      BY <1>0, <2>2, <3>1, <3>2 DEF Beside, Larger
    <3>4. ASSUME NEW n \in Nat, KnownTo(client, n, Len(client.held)) \/ Covers(e, n)
          PROVE  KnownTo(client', n, Len(client'.held))
      <4>1. n <= client.cursor \/ n = e.n \/ \E a \in In(client.answered) : n <= a.boundary
        BY <2>4, <3>1, <3>4 DEF KnownTo
      <4> QED
        BY <1>0, <2>2, <3>3, <4>1 DEF KnownTo
    <3> QED
      BY <1>0, <2>1, <3>3, <3>4, LeavesContiguous DEF e
  <2> QED
    BY <2>1, <2>5, <2>6 DEF e
<1>9. ASSUME SubscribedArrives PROVE Contiguous'
  <2>1. /\ wire # <<>> /\ wire[1] \in AnswerFrame /\ wire[1].type = "subscribed" /\ wire' = Tail(wire)
        /\ client' = [client EXCEPT !.answered = Append(client.answered, wire[1])]
        /\ UNCHANGED <<seq, session>>
    BY <1>0, <1>9, AnswerFacts
  <2>2. client'.cursor = client.cursor /\ client'.held = client.held
        /\ client'.answered = Append(client.answered, wire[1])
    BY <1>0, <2>1 DEF Client
  <2>3. In(client'.answered) = In(client.answered) \cup {wire[1]}
    BY <1>0, <2>1, <2>2, InFacts
  <2>4. \A n : Covers(wire[1], n) => n <= wire[1].boundary
    BY <2>1 DEF Covers
  <2>5. \A n, k : KnownTo(client, n, k) \/ Covers(wire[1], n) => KnownTo(client', n, k)
    BY <2>2, <2>3, <2>4 DEF KnownTo
  <2> QED
    BY <1>0, <1>00, <2>1, <2>2, <2>5, LeavesContiguous
<1>10. ASSUME SnapshotArrives PROVE Contiguous'
  <2>1. /\ wire # <<>> /\ wire[1].type = "snapshot" /\ wire' = Tail(wire) /\ UNCHANGED <<seq, session>>
        /\ client'.answered = client.answered /\ client'.cursor = client.cursor /\ client'.held = client.held
    BY <1>0, <1>10, SnapshotFacts
  <2>2. \A n : ~Covers(wire[1], n)
    BY <2>1 DEF Covers
  <2>3. \A n, k : KnownTo(client', n, k) = KnownTo(client, n, k)
    BY <2>1 DEF KnownTo
  <2> QED
    BY <1>0, <1>00, <2>1, <2>2, <2>3, LeavesContiguous
<1>11. ASSUME Subscribed PROVE Contiguous'
  <2>0. InFlight(client) = client.inFlight - 1
    BY DEF InFlight
  <2>1. PICK a, caughtUp, flushed :
           /\ a \in AnswerFrame /\ caughtUp \in Client /\ flushed \in Client
           /\ a = Head(client.answered) /\ client.answered # <<>>
           /\ SubscribedClient(a, client')
           /\ flushed = HandedAll(caughtUp, client.held, a, FALSE)
           /\ client'.cursor = flushed.cursor
           /\ caughtUp.cursor >= client.cursor /\ caughtUp.cursor >= a.boundary
    BY <1>0, <1>11, <2>0, SubscribedFacts
  <2>2. client'.held = <<>> /\ In(client.answered) = In(client'.answered) \cup {a} /\ a.boundary \in Nat
    <3>1. a = client.answered[1]
      BY <1>0, <2>1, TailFacts
    <3> QED
      BY <1>0, <2>1, <3>1, InFacts, MarkTyped DEF SubscribedClient
  <2>3. /\ flushed.cursor >= caughtUp.cursor /\ flushed.cursor \in Nat /\ caughtUp.cursor \in Nat
        /\ \A j \in 1 .. Len(client.held) : PastBoundary(client.held[j], a) => client.held[j].n <= flushed.cursor
    <3>1. Result(caughtUp, client.held, a, FALSE, flushed)
      BY <1>0, <2>1, HandedAllFacts
    <3>2. flushed.cursor \in Nat /\ caughtUp.cursor \in Nat
      BY <2>1, ClientWrites
    <3> QED
      BY <3>1, <3>2 DEF Result, Grows
  <2>4. client'.cursor \in Nat /\ client'.cursor >= client.cursor /\ client'.cursor >= a.boundary
    <3>1. client'.cursor = flushed.cursor /\ caughtUp.cursor >= client.cursor /\ caughtUp.cursor >= a.boundary
      BY <2>1
    <3> QED
      BY <1>0, <2>2, <2>3, <3>1
  <2>5. ASSUME NEW n \in Nat, KnownTo(client, n, Len(client.held)) PROVE KnownTo(client', n, Len(client'.held))
    <3>1. CASE n <= client.cursor
      <4>1. n <= client'.cursor
        BY <1>0, <2>4, <3>1
      <4> QED
        BY <4>1 DEF KnownTo
    <3>2. CASE \E b \in In(client.answered) : n <= b.boundary
      <4>1. n <= a.boundary \/ \E b \in In(client'.answered) : n <= b.boundary
        BY <2>2, <3>2
      <4>2. n <= a.boundary => n <= client'.cursor
        BY <2>2, <2>4
      <4> QED
        BY <4>1, <4>2 DEF KnownTo
    <3>3. CASE \E i \in 1 .. Len(client.held) : client.held[i].n = n
      <4>1. PICK i \in 1 .. Len(client.held) : client.held[i].n = n
        BY <3>3
      <4>2. n <= client'.cursor
        <5>1. CASE n > a.boundary
          <6>1. PastBoundary(client.held[i], a)
            BY <4>1, <5>1 DEF PastBoundary
          <6> QED
            BY <2>1, <2>3, <4>1, <6>1
        <5>2. CASE ~(n > a.boundary)
          BY <2>2, <2>4, <5>2
        <5> QED
          BY <5>1, <5>2
      <4> QED
        BY <4>2 DEF KnownTo
    <3> QED
      BY <2>5, <3>1, <3>2, <3>3 DEF KnownTo
  <2>6. UNCHANGED <<seq, session, wire>>
    BY <1>11 DEF Subscribed
  <2> QED
    BY <1>0, <2>2, <2>5, <2>6, StaysContiguous
<1>12. ASSUME Reload \/ \E p \in Profiles : Switch(p) PROVE Contiguous'
  <2>1. /\ client'.answered = client.answered /\ client'.held = client.held /\ client'.cursor = client.cursor
        /\ UNCHANGED <<seq, session, wire>>
    BY <1>0, <1>12 DEF Switch, Reload, Client
  <2>2. \A n, k : KnownTo(client', n, k) = KnownTo(client, n, k)
    BY <2>1 DEF KnownTo
  <2> QED
    BY <1>0, <1>00, <2>1, <2>2, StaysContiguous
<1>13. ASSUME Disconnect \/ Restart PROVE Contiguous'
  <2>1. client'.held = <<>> /\ wire' = <<>> /\ session'.state # "active"
    BY <1>13 DEF Disconnect, Restart, NewClient, NewSession
  <2>2. In(<<>>) = {}
    BY DEF In
  <2> QED
    BY <2>1, <2>2, QuietContiguous
<1> QED
  BY <1>1, <1>2, <1>3, <1>4, <1>5, <1>6, <1>7, <1>8, <1>9, <1>10, <1>11, <1>12, <1>13
  DEF Next, Serve, Receive

\* What the cursor of a client passed on its way from c to d was shown or is brought yet,
\* unless the client was told to reload.
Passed(c, d, brought) ==
    d.reload \/ \A n \in c.cursor + 1 .. d.cursor : <<Default, n>> \in d.seen \/ n \in brought

\* Held events are handed over one after the other.
LEMMA FlushShown ==
  ASSUME OneProfile, NEW c \in Client, NEW events \in Seq(EventFrame), NEW a \in AnswerFrame,
         NEW replayed \in BOOLEAN, ~replayed, c.cursor >= a.boundary, NEW brought,
         c.cursor = 0 => \A j \in 1 .. Len(events) : \A n \in 1 .. events[j].n - 1 :
                            n \in brought \/ \E i \in 1 .. j - 1 : events[i].n = n
  PROVE  Passed(c, HandedAll(c, events, a, replayed), brought)
<1> DEFINE m == Len(events)
           Passes(j) == replayed \/ PastBoundary(events[j], a)
<1>1. m \in Nat /\ (\A i \in 1 .. m : events[i] \in EventFrame /\ events[i].n \in Nat /\ events[i].profile = Default)
      /\ a.boundary \in Nat /\ c.cursor \in Nat
  BY MarkTyped, ClientWrites DEF OneProfile
<1>2. PICK g : /\ g[0] = c
               /\ \A i \in 1 .. m : g[i] = IF Passes(i) THEN Handed(g[i - 1], events[i], replayed) ELSE g[i - 1]
               /\ HandedAll(c, events, a, replayed) = g[m]
  BY <1>1, HandedAllSteps
<1>3. \A j \in 1 .. m : Passes(j) <=> events[j].n > a.boundary
  BY DEF PastBoundary
<1> HIDE DEF Passes
<1> DEFINE Q(k) == /\ g[k] \in Client /\ g[k].cursor >= c.cursor
                   /\ \A j \in 1 .. k : Passes(j) => events[j].n <= g[k].cursor
                   /\ Passed(c, g[k], brought)
           S == {k \in 0 .. m : Q(k)}
<1>4. 0 \in S
  <2>1. Passed(c, c, brought)
    BY <1>1 DEF Passed
  <2> QED
    BY <1>1, <1>2, <2>1
<1>5. ASSUME NEW k \in 1 .. m, k - 1 \in S PROVE k \in S
  <2>1. k - 1 \in 0 .. m /\ Q(k - 1) /\ events[k] \in EventFrame /\ events[k].n \in Nat
    BY <1>1, <1>5
  <2> DEFINE x == g[k - 1]
             e == events[k]
             d == Handed(x, e, replayed)
  <2>2. CASE ~Passes(k)
    <3>1. g[k] = x /\ \A j \in 1 .. k : Passes(j) => j \in 1 .. k - 1
      BY <1>2, <2>2
    <3> QED
      BY <2>1, <3>1
  <2>3. CASE Passes(k)
    <3>1. g[k] = d
      BY <1>2, <2>3
    <3>2. /\ d \in Client /\ d.reload = (x.reload \/ (x.cursor > 0 /\ e.n > x.cursor + 1))
          /\ d.cursor = Larger(x.cursor, e.n) /\ x.cursor \in Nat /\ x.reload \in BOOLEAN
          /\ d.seen = IF Stale(x, e, replayed) THEN x.seen ELSE x.seen \cup {<<e.profile, e.n>>}
      <4>1. x \in Client /\ x.cursor \in Nat /\ x.reload \in BOOLEAN /\ e \in EventFrame /\ x.cursor >= c.cursor
        BY <2>1, ClientWrites
      <4> HIDE DEF x, e
      <4> QED
        BY <4>1, HandedFacts, ZenonT(40)
    <3>3. e.n > a.boundary /\ e.profile = Default /\ e.n \in Nat /\ x.cursor >= c.cursor
      BY <1>1, <1>3, <2>1, <2>3
    <3> HIDE DEF d
    <3>4. d.cursor >= x.cursor /\ d.cursor >= e.n /\ d.cursor \in Nat /\ d.cursor >= c.cursor
      BY <1>1, <3>2, <3>3 DEF Larger
    <3>5. \A j \in 1 .. k : Passes(j) => events[j].n <= d.cursor
      <4> SUFFICES ASSUME NEW j \in 1 .. k, Passes(j) PROVE events[j].n <= d.cursor
        OBVIOUS
      <4>1. CASE j = k
        BY <3>3, <3>4, <4>1
      <4>2. CASE j # k
        <5>1. j \in 1 .. k - 1 /\ events[j].n \in Nat
          BY <1>1, <4>2
        <5>2. events[j].n <= x.cursor
          BY <2>1, <5>1
        <5> QED
          BY <3>2, <3>4, <5>1, <5>2
      <4> QED
        BY <4>1, <4>2
    <3>6. ASSUME ~d.reload, NEW n \in c.cursor + 1 .. d.cursor PROVE <<Default, n>> \in d.seen \/ n \in brought
      <4>1. ~x.reload /\ ~(x.cursor > 0 /\ e.n > x.cursor + 1)
        BY <3>2, <3>6
      <4>2. n \in Nat /\ n >= 1 /\ n > c.cursor
        BY <1>1, <3>6
      <4>3. CASE n <= x.cursor
        <5>1. n \in c.cursor + 1 .. x.cursor
          BY <1>1, <3>2, <4>2, <4>3
        <5> QED
          BY <2>1, <3>2, <4>1, <5>1 DEF Passed
      <4>4. CASE n > x.cursor /\ n = e.n
        <5>1. ~Stale(x, e, replayed)
          BY <3>2, <3>3, <4>4 DEF Stale
        <5> QED
          BY <3>2, <3>3, <4>4, <5>1
      <4>5. CASE n > x.cursor /\ n # e.n
        <5>1. n < e.n /\ x.cursor = 0
          BY <3>2, <3>3, <3>6, <4>1, <4>2, <4>5 DEF Larger
        <5>2. c.cursor = 0 /\ a.boundary = 0 /\ n \in 1 .. e.n - 1
          BY <1>1, <3>3, <4>2, <5>1
        <5>3. n \in brought \/ \E i \in 1 .. k - 1 : events[i].n = n
          BY <5>2
        <5>4. ASSUME NEW i \in 1 .. k - 1, events[i].n = n PROVE FALSE
          <6>1. i \in 1 .. m /\ Passes(i)
            BY <1>1, <1>3, <4>2, <5>2, <5>4
          <6>2. events[i].n <= x.cursor
            BY <2>1, <6>1
          <6> QED
            BY <4>2, <5>1, <5>4, <6>2
        <5> QED
          BY <5>3, <5>4
      <4> QED
        BY <3>2, <4>2, <4>3, <4>4, <4>5
    <3>7. Passed(c, d, brought)
      BY <3>6 DEF Passed
    <3> QED
      BY <3>1, <3>2, <3>4, <3>5, <3>7
  <2> QED
    BY <2>2, <2>3
<1> HIDE DEF S
<1>6. m \in S
  <2>1. \A k \in 0 .. m : k \in S
    BY <1>1, <1>4, <1>5, UpTo
  <2> QED
    BY <1>1, <2>1
<1> QED
  BY <1>2, <1>6 DEF S

\* An event that the cursor has passed is in the view, or what is under way brings it or
\* tells the client to reload.
Has(c, n) == n <= c.since \/ n <= c.loaded[Default] \/ <<Default, n>> \in c.seen
Brings(x, n) ==
    \/ x.type = "subscribed" /\ (x.gap \/ n <= x.boundary)
    \/ x.type = "snapshot" /\ n <= x.n

Due(c, rs, w, n) ==
    \/ Has(c, n)
    \/ \E r \in In(rs) : r.type \in {"subscribe", "snapshot"}
    \/ \E x \in In(c.answered) \cup In(w) : Brings(x, n)

Shown ==
    client.phase \notin Early /\ ~client.reload => \A n \in 1 .. client.cursor : Due(client, requests, wire, n)

\* A step that leaves the cursor and takes nothing away.
LEMMA KeepsShown ==
  ASSUME Shown, client'.phase = client.phase, client'.reload = client.reload, client'.cursor = client.cursor,
         \A n \in 1 .. client.cursor : Due(client, requests, wire, n) => Due(client', requests', wire', n)
  PROVE  Shown'
  BY DEF Shown

\* A subscribe or a snapshot is asked for: everything comes.
LEMMA AsksShown ==
  ASSUME NEW r \in In(requests'), r.type \in {"subscribe", "snapshot"}
  PROVE  Shown'
  BY DEF Shown, Due

\* A frame that brings all that the cursor has passed.
LEMMA AnswersShown ==
  ASSUME NEW x \in In(wire'), \A n \in 1 .. client'.cursor : Brings(x, n)
  PROVE  Shown'
<1>1. \A n \in 1 .. client'.cursor : \E y \in In(client'.answered) \cup In(wire') : Brings(y, n)
  OBVIOUS
<1> QED
  BY <1>1 DEF Shown, Due

\* An event that is handed over when no subscribe is in flight: a gap before it is seen.
LEMMA HandedShown ==
  ASSUME OneProfile, Handshake, Contiguous, Shown, wire # <<>>, wire[1] \in EventFrame, wire' = Tail(wire),
         UNCHANGED requests, client.inFlight = 0, client' = Handed(client, wire[1], FALSE)
  PROVE  Shown'
<1> DEFINE e == wire[1]
<1>0. Typed /\ client \in Client /\ client.cursor \in Nat /\ e \in EventFrame /\ e \in In(wire)
      /\ e.type = "event" /\ e.n \in Nat /\ e.profile = Default /\ client.reload \in BOOLEAN
  <2>1. Typed /\ client \in Client /\ client.cursor \in Nat
    BY SeqTyped DEF Handshake
  <2>2. e \in In(wire)
    BY <2>1, WireLeaves
  <2>3. client.reload \in BOOLEAN
    BY <2>1, ClientWrites
  <2> QED
    BY <2>1, <2>2, <2>3, MarkTyped DEF OneProfile
<1>1. In(wire) = In(wire') \cup {e}
  BY <1>0, WireLeaves
<1>2. client.answered = <<>> /\ In(<<>>) = {}
  BY InFlightCounted DEF In
<1>3. \A n \in 1 .. e.n - 1 : n <= client.cursor
  <2>1. 1 \in 1 .. Len(wire)
    BY <1>0, TailFacts DEF Typed
  <2>2. \A n \in 1 .. e.n - 1 : OnWay(client, wire, n, 1 - 1)
    BY <1>0, <2>1 DEF Contiguous
  <2>3. client.held = <<>>
    BY InFlightCounted
  <2> QED
    BY <1>2, <2>2, <2>3 DEF OnWay, KnownTo
<1>4. /\ Beside(client, client')
      /\ client'.reload = (client.reload \/ (client.cursor > 0 /\ e.n > client.cursor + 1))
      /\ client'.cursor = Larger(client.cursor, e.n)
      /\ client'.seen = IF Stale(client, e, FALSE) THEN client.seen ELSE client.seen \cup {<<e.profile, e.n>>}
  BY <1>0, HandedFacts
<1> HIDE DEF e
<1> DEFINE reached == Larger(client.cursor, e.n)
<1>5. ASSUME client'.phase \notin Early, ~client'.reload, NEW n \in 1 .. reached
      PROVE  Due(client', requests', wire', n)
  <2>0. n \in Nat /\ n >= 1 /\ n <= reached
    BY <1>0 DEF Larger
  <2>1. CASE n <= client.cursor
    <3>0. n \in 1 .. client.cursor /\ ~client.reload /\ client.phase \notin Early
      <4>1. n \in 1 .. client.cursor
        BY <1>0, <2>0, <2>1
      <4>2. client.phase \notin Early
        BY <1>4, <1>5 DEF Beside
      <4>3. ~client.reload
        BY <1>0, <1>4, <1>5
      <4> QED
        BY <4>1, <4>2, <4>3
    <3>1. Due(client, requests, wire, n)
      BY <3>0 DEF Shown
    <3>2. Has(client, n) => Has(client', n)
      BY <1>4 DEF Has, Beside
    <3>3. ~Brings(e, n)
      BY <1>0 DEF Brings
    <3> QED
      BY <1>1, <1>4, <3>1, <3>2, <3>3 DEF Due, Beside
  <2>2. CASE ~(n <= client.cursor)
    <3>1. n = e.n
      <4>1. n <= e.n
        BY <1>0, <2>0, <2>2 DEF Larger
      <4>2. ~(n \in 1 .. e.n - 1)
        BY <1>3, <2>2
      <4> QED
        BY <1>0, <2>0, <4>1, <4>2
    <3>2. ~Stale(client, e, FALSE)
      BY <1>0, <2>2, <3>1 DEF Stale
    <3>3. <<Default, n>> \in client'.seen
      BY <1>0, <1>4, <3>1, <3>2
    <3> QED
      BY <3>3 DEF Due, Has
  <2> QED
    BY <2>1, <2>2
<1> QED
  BY <1>4, <1>5 DEF Shown

\* The rest of a subscribe: what the cursor passes was in the view, in the replay or held.
LEMMA SubscribedShown ==
  ASSUME OneProfile, Handshake, Asking, Contiguous, Shown, Subscribed
  PROVE  Shown'
<1>0. /\ Typed /\ client \in Client /\ client.cursor \in Nat /\ client.since \in Nat
      /\ client.held \in Seq(EventFrame) /\ client.answered \in Seq(AnswerFrame)
  <2>1. Typed /\ client \in Client /\ client.cursor \in Nat
    BY SeqTyped DEF Handshake
  <2> QED
    BY <2>1, ClientWrites
<1>1. InFlight(client) = client.inFlight - 1 /\ UNCHANGED <<requests, wire>>
  BY DEF InFlight, Subscribed
<1>2. PICK a, caughtUp, flushed :
         /\ a \in AnswerFrame /\ caughtUp \in Client /\ flushed \in Client
         /\ a = Head(client.answered) /\ client.answered # <<>>
         /\ SubscribedClient(a, client')
         /\ flushed = HandedAll(caughtUp, client.held, a, FALSE)
         /\ client'.cursor = flushed.cursor /\ client'.seen = flushed.seen
         /\ client'.reload = flushed.reload
         /\ client.seen \subseteq caughtUp.seen
         /\ caughtUp.cursor >= client.cursor /\ caughtUp.cursor >= a.boundary
         /\ (client.reload \/ a.gap) => caughtUp.reload
         /\ \A n \in a.from .. a.boundary : <<a.profile, n>> \in caughtUp.seen
         /\ caughtUp.cursor <= client.cursor \/ caughtUp.cursor <= a.boundary
  BY <1>0, <1>1, SubscribedFacts, ZenonT(40)
<1>3. /\ a.boundary \in Nat /\ a.profile = Default /\ caughtUp.cursor \in Nat /\ flushed.cursor \in Nat
      /\ a.type = "subscribed" /\ a \in In(client.answered)
      /\ In(client.answered) = In(client'.answered) \cup {a}
      /\ \A b \in In(client.answered) : b.type = "subscribed" /\ b.boundary \in Nat
  <2>1. a = client.answered[1] /\ client'.answered = Tail(client.answered)
    BY <1>0, <1>2, TailFacts DEF SubscribedClient
  <2>2. /\ In(client.answered) \subseteq AnswerFrame /\ a \in In(client.answered)
        /\ In(client.answered) = In(client'.answered) \cup {a}
    BY <1>0, <1>2, <2>1, InFacts
  <2>3. \A b \in AnswerFrame : b.type = "subscribed" /\ b.boundary \in Nat
    BY DEF AnswerFrame
  <2>4. a.profile = Default
    BY <1>2, MarkTyped DEF OneProfile
  <2>5. caughtUp.cursor \in Nat /\ flushed.cursor \in Nat
    BY <1>2, ClientWrites
  <2> QED
    BY <1>2, <2>2, <2>3, <2>4, <2>5
<1>4. client.phase \notin Early
  BY <1>2 DEF Handshake, Phased
<1>5. Grows(caughtUp, flushed)
  <2>1. Result(caughtUp, client.held, a, FALSE, flushed)
    BY <1>0, <1>2, HandedAllFacts
  <2> QED
    BY <2>1 DEF Result
<1> DEFINE brought == {n \in Nat : \E b \in In(client'.answered) : n <= b.boundary}
<1>6. Passed(caughtUp, flushed, brought)
  <2>1. ASSUME caughtUp.cursor = 0, NEW j \in 1 .. Len(client.held), NEW n \in 1 .. client.held[j].n - 1
        PROVE  n \in brought \/ \E i \in 1 .. j - 1 : client.held[i].n = n
    <3>1. KnownTo(client, n, j - 1)
      BY <2>1 DEF Contiguous
    <3>2. n \in Nat /\ n >= 1
      <4>1. client.held[j] \in EventFrame
        BY <1>0
      <4> QED
        BY <4>1, MarkTyped
    <3>3. ~(n <= client.cursor) /\ ~(n <= a.boundary)
      BY <1>0, <1>2, <1>3, <2>1, <3>2
    <3>4. (\E b \in In(client'.answered) : n <= b.boundary) \/ \E i \in 1 .. j - 1 : client.held[i].n = n
      BY <1>3, <3>1, <3>3 DEF KnownTo
    <3> QED
      BY <3>2, <3>4
  <2> HIDE DEF brought
  <2>2. \A replayed \in BOOLEAN : ~replayed => Passed(caughtUp, HandedAll(caughtUp, client.held, a, replayed), brought)
    BY <1>0, <1>2, <2>1, FlushShown
  <2> QED
    BY <1>2, <2>2
<1>7. ASSUME ~client'.reload, NEW n \in 1 .. flushed.cursor PROVE Due(client', requests', wire', n)
  <2>1. ~client.reload /\ ~a.gap /\ ~flushed.reload
    BY <1>2, <1>5, <1>7 DEF Grows
  <2>2. a.from = client.since + 1
    BY <1>3, <2>1 DEF Asking, Whole
  <2>3. caughtUp.seen \subseteq client'.seen /\ client'.since = client.since /\ client'.loaded = client.loaded
    BY <1>2, <1>5 DEF Grows, SubscribedClient
  <2>4. CASE n <= a.boundary
    <3>1. n <= client.since \/ n \in a.from .. a.boundary
      BY <1>0, <1>2, <1>3, <2>2, <2>4
    <3>2. n <= client'.since \/ <<Default, n>> \in client'.seen
      BY <1>2, <1>3, <2>3, <3>1
    <3> QED
      BY <3>2 DEF Due, Has
  <2>5. CASE n <= client.cursor /\ ~(n <= a.boundary)
    <3>1. n \in 1 .. client.cursor
      BY <1>0, <1>2, <1>3, <2>5
    <3>2. Due(client, requests, wire, n)
      BY <1>4, <2>1, <3>1 DEF Shown
    <3>3. Has(client, n) => Has(client', n)
      BY <1>2, <2>3 DEF Has
    <3>4. ~Brings(a, n)
      BY <1>3, <2>1, <2>5 DEF Brings
    <3> QED
      BY <1>1, <1>3, <3>2, <3>3, <3>4 DEF Due
  <2>6. CASE ~(n <= client.cursor) /\ ~(n <= a.boundary)
    <3>0. n \in Nat /\ n <= flushed.cursor
      BY <1>3
    <3>1. n \in caughtUp.cursor + 1 .. flushed.cursor
      <4>1. n > caughtUp.cursor
        BY <1>0, <1>2, <1>3, <2>6, <3>0
      <4> QED
        BY <1>3, <3>0, <4>1
    <3>2. <<Default, n>> \in flushed.seen \/ n \in brought
      BY <1>6, <2>1, <3>1 DEF Passed
    <3>3. CASE <<Default, n>> \in flushed.seen
      BY <1>2, <3>3 DEF Due, Has
    <3>4. CASE n \in brought
      <4>1. PICK b \in In(client'.answered) : n <= b.boundary
        BY <3>4
      <4>2. Brings(b, n)
        BY <1>3, <4>1 DEF Brings
      <4> QED
        BY <4>1, <4>2 DEF Due
    <3> QED
      BY <3>2, <3>3, <3>4
  <2> QED
    BY <2>4, <2>5, <2>6
<1> QED
  BY <1>2, <1>7 DEF Shown

LEMMA ShownStep ==
  ASSUME OneProfile, Handshake, Asking, Contiguous, Shown, Next
  PROVE  Shown'
<1>0. /\ Typed /\ Phased /\ client \in Client /\ client.cursor \in Nat /\ seq[Default] \in Nat
      /\ session.audience = Default /\ client.cursor <= seq[Default]
  <2>1. Typed /\ session.audience = Default
    BY DEF Handshake, Typed, OneProfile
  <2> QED
    BY <2>1, SeqTyped DEF Handshake, Asking
<1>1. ASSUME (\E p \in Profiles : Push(p)) \/ PushAll PROVE Shown'
  <2>1. /\ UNCHANGED <<requests, client>>
        /\ wire' = wire \/ \E e \in EventFrame : wire' = Append(wire, e)
    BY <1>0, <1>1, OnePush
  <2>2. In(wire) \subseteq In(wire')
    BY <1>0, <2>1, MarkTyped, WireJoins
  <2>3. \A n : Due(client, requests, wire, n) => Due(client', requests', wire', n)
    BY <2>1, <2>2 DEF Due
  <2> QED
    BY <2>1, <2>3, KeepsShown
<1>2. ASSUME ServeBind PROVE Shown'
  <2>1. /\ requests # <<>> /\ requests[1].type = "bind" /\ requests' = Tail(requests) /\ UNCHANGED client
        /\ \E x \in BoundFrame : wire' = Append(wire, x)
    BY <1>0, <1>2, ServeBindFacts
  <2>2. In(wire) \subseteq In(wire')
    BY <1>0, <2>1, WireJoins DEF Frame
  <2>3. In(requests) = In(requests') \cup {requests[1]}
    BY <1>0, <2>1, InFacts DEF Typed
  <2>4. \A n : Due(client, requests, wire, n) => Due(client', requests', wire', n)
    BY <2>1, <2>2, <2>3 DEF Due
  <2> QED
    BY <2>1, <2>4, KeepsShown
<1>3. ASSUME ServeSubscribe PROVE Shown'
  <2>1. UNCHANGED client /\ \E x : Answered(session.audience, requests[1].after, x) /\ wire' = Append(wire, x)
    BY <1>0, <1>3, ServeSubscribeFacts
  <2>2. PICK x : Answered(session.audience, requests[1].after, x) /\ wire' = Append(wire, x)
    BY <2>1
  <2>3. x \in Frame /\ x.type = "subscribed" /\ x.boundary = seq[Default]
    BY <1>0, <2>2 DEF Answered, Frame
  <2>4. x \in In(wire')
    BY <1>0, <2>2, <2>3, WireJoins
  <2>5. \A n \in 1 .. client'.cursor : Brings(x, n)
    BY <1>0, <2>1, <2>3 DEF Brings
  <2> QED
    BY <2>4, <2>5, AnswersShown
<1>4. ASSUME ServeSnapshot PROVE Shown'
  <2>1. /\ UNCHANGED client
        /\ \E x \in SnapshotFrame : /\ x.type = "snapshot" /\ x.n = seq[session.audience]
                                    /\ wire' = Append(wire, x)
    BY <1>0, <1>4, ServeSnapshotFacts
  <2>2. PICK x \in SnapshotFrame : x.type = "snapshot" /\ x.n = seq[Default] /\ wire' = Append(wire, x)
    BY <1>0, <2>1
  <2>3. x \in In(wire')
    BY <1>0, <2>2, WireJoins DEF Frame
  <2>4. \A n \in 1 .. client'.cursor : Brings(x, n)
    BY <1>0, <2>1, <2>2 DEF Brings
  <2> QED
    BY <2>3, <2>4, AnswersShown
<1>5. ASSUME Connect \/ HelloArrives \/ Disconnect \/ Restart PROVE Shown'
  <2>1. client'.phase \in Early
    <3>1. CASE Connect
      BY <3>1 DEF Connect, NewClient, Early
    <3>2. CASE HelloArrives
      BY <1>0, <3>2, HelloFacts DEF Client, Early
    <3>3. CASE Disconnect \/ Restart
      BY <3>3 DEF Disconnect, Restart, NewClient, Early
    <3> QED
      BY <1>5, <3>1, <3>2, <3>3
  <2> QED
    BY <2>1 DEF Shown
<1>6. ASSUME BoundArrives PROVE Shown'
  <2> DEFINE after == IF fromCursor THEN client.cursor ELSE 0
             x == [type |-> "subscribe", after |-> after]
  <2>1. requests' = Append(requests, x) /\ after \in Nat
    BY <1>0, <1>6, BoundFacts
  <2> HIDE DEF after
  <2>2. x \in Request /\ x.type = "subscribe"
    BY <2>1, FrameTyped
  <2> HIDE DEF x
  <2>3. x \in In(requests')
    BY <1>0, <2>1, <2>2, RequestJoins
  <2> QED
    BY <2>2, <2>3, AsksShown
<1>7. ASSUME EventArrives PROVE Shown'
  <2>1. /\ wire # <<>> /\ wire[1] \in EventFrame /\ wire[1].type = "event" /\ wire' = Tail(wire)
        /\ UNCHANGED requests
        /\ \/ client' = [client EXCEPT !.held = Append(client.held, wire[1])]
           \/ /\ ~(client.inFlight > 0)
              /\ client' = Handed(client, wire[1], FALSE)
    BY <1>0, <1>7, EventFacts
  <2>2. CASE client' = [client EXCEPT !.held = Append(client.held, wire[1])]
    <3>1. /\ client'.phase = client.phase /\ client'.reload = client.reload /\ client'.cursor = client.cursor
          /\ client'.since = client.since /\ client'.loaded = client.loaded /\ client'.seen = client.seen
          /\ client'.answered = client.answered
      BY <1>0, <2>2 DEF Client
    <3>2. In(wire) = In(wire') \cup {wire[1]} /\ \A n : ~Brings(wire[1], n)
      BY <1>0, <2>1, WireLeaves DEF Brings
    <3>3. \A n : Due(client, requests, wire, n) => Due(client', requests', wire', n)
      BY <2>1, <3>1, <3>2 DEF Due, Has
    <3> QED
      BY <3>1, <3>3, KeepsShown
  <2>3. CASE ~(client.inFlight > 0) /\ client' = Handed(client, wire[1], FALSE)
    <3>1. client.inFlight = 0
      BY <2>3, InFlightCounted
    <3> QED
      BY <2>1, <2>3, <3>1, HandedShown
  <2> QED
    BY <2>1, <2>2, <2>3
<1>8. ASSUME SubscribedArrives PROVE Shown'
  <2>1. /\ wire # <<>> /\ wire[1] \in AnswerFrame /\ wire' = Tail(wire) /\ UNCHANGED requests
        /\ client' = [client EXCEPT !.answered = Append(client.answered, wire[1])]
    BY <1>0, <1>8, AnswerFacts
  <2>2. /\ client'.phase = client.phase /\ client'.reload = client.reload /\ client'.cursor = client.cursor
        /\ client'.since = client.since /\ client'.loaded = client.loaded /\ client'.seen = client.seen
        /\ client'.answered = Append(client.answered, wire[1])
    BY <1>0, <2>1 DEF Client
  <2>3. In(wire) = In(wire') \cup {wire[1]} /\ In(client'.answered) = In(client.answered) \cup {wire[1]}
    BY <1>0, <2>1, <2>2, WireLeaves, InFacts, ClientWrites
  <2>4. \A n : Due(client, requests, wire, n) => Due(client', requests', wire', n)
    BY <2>1, <2>2, <2>3 DEF Due, Has
  <2> QED
    BY <2>2, <2>4, KeepsShown
<1>9. ASSUME SnapshotArrives PROVE Shown'
  <2> DEFINE x == wire[1]
  <2>1. /\ wire # <<>> /\ x \in SnapshotFrame /\ x.type = "snapshot" /\ wire' = Tail(wire)
        /\ client'.loaded = [client.loaded EXCEPT ![x.profile] = Larger(@, x.n)]
        /\ client'.phase = client.phase /\ client'.cursor = client.cursor
        /\ client'.reload = client.reload /\ client'.answered = client.answered
        /\ client'.since = client.since /\ client'.seen = client.seen
        /\ UNCHANGED requests
    BY <1>0, <1>9, SnapshotFacts
  <2>2. In(wire) = In(wire') \cup {x}
    BY <1>0, <2>1, WireLeaves
  <2> HIDE DEF x
  <2>3. x.profile = Default /\ x.n \in Nat /\ client.loaded \in [Profiles -> Nat] /\ Default \in Profiles
    BY <1>0, <2>1, ClientWrites DEF OneProfile, SnapshotFrame
  <2>4. client'.loaded[Default] = Larger(client.loaded[Default], x.n) /\ client.loaded[Default] \in Nat
    BY <2>1, <2>3
  <2>5. \A n \in Nat : /\ Brings(x, n) => n <= client'.loaded[Default]
                       /\ n <= client.loaded[Default] => n <= client'.loaded[Default]
    BY <2>1, <2>3, <2>4 DEF Brings, Larger
  <2>6. \A n \in Nat : Due(client, requests, wire, n) => Due(client', requests', wire', n)
    BY <2>1, <2>2, <2>5 DEF Due, Has
  <2>7. \A n \in 1 .. client.cursor : n \in Nat
    BY <1>0
  <2> QED
    BY <2>1, <2>6, <2>7, KeepsShown
<1>10. ASSUME NEW p \in Profiles, Switch(p) PROVE Shown'
  <2> DEFINE x == [type |-> "bind", profile |-> p]
  <2>1. /\ requests' = Append(requests, x) /\ x \in Request /\ UNCHANGED wire
        /\ client' = [client EXCEPT !.switches = @ + 1]
    BY <1>10, FrameTyped DEF Switch
  <2> HIDE DEF x
  <2>2. In(requests) \subseteq In(requests')
    BY <1>0, <2>1, RequestJoins
  <2>3. /\ client'.phase = client.phase /\ client'.reload = client.reload /\ client'.cursor = client.cursor
        /\ client'.since = client.since /\ client'.loaded = client.loaded /\ client'.seen = client.seen
        /\ client'.answered = client.answered
    BY <1>0, <2>1 DEF Client
  <2>4. \A n : Due(client, requests, wire, n) => Due(client', requests', wire', n)
    BY <2>1, <2>2, <2>3 DEF Due, Has
  <2> QED
    BY <2>3, <2>4, KeepsShown
<1>11. ASSUME Reload PROVE Shown'
  <2> DEFINE x == [type |-> "snapshot"]
  <2>1. requests' = Append(requests, x) /\ x \in Request /\ x.type = "snapshot"
    BY <1>11, FrameTyped DEF Reload
  <2> HIDE DEF x
  <2>2. x \in In(requests')
    BY <1>0, <2>1, RequestJoins
  <2> QED
    BY <2>1, <2>2, AsksShown
<1>12. ASSUME Subscribed PROVE Shown'
  BY <1>12, SubscribedShown
<1> QED
  BY <1>1, <1>2, <1>3, <1>4, <1>5, <1>6, <1>7, <1>8, <1>9, <1>10, <1>11, <1>12
  DEF Next, Serve, Receive

\* The start, and a step that changes nothing.
Complete == Handshake /\ Asking /\ Contiguous /\ Shown

LEMMA CompleteStart ==
  ASSUME OneProfile, Init
  PROVE  Complete
<1>1. Handshake
  BY HandshakeStart
<1>2. /\ client.phase = "away" /\ client.since = 0 /\ client.cursor = 0 /\ client.held = <<>>
      /\ client.answered = <<>> /\ total = 0 /\ seq[Default] = 0 /\ session.state # "active"
  BY StreamAssumption DEF Init, NewClient, NewSession
<1>3. requests = <<>> /\ wire = <<>> /\ In(<<>>) = {}
  BY DEF Init, In
<1>4. Asking
  BY <1>2, <1>3 DEF Asking
<1>5. Contiguous
  BY <1>2, <1>3 DEF Contiguous
<1>6. Shown
  BY <1>2 DEF Shown, Early
<1> QED
  BY <1>1, <1>4, <1>5, <1>6 DEF Complete

LEMMA CompleteStep ==
  ASSUME OneProfile, Complete, [Next]_vars
  PROVE  Complete'
<1>1. Handshake /\ Asking /\ Contiguous /\ Shown
  BY DEF Complete
<1>2. CASE Next
  <2>1. Handshake' /\ Asking' /\ Contiguous' /\ Shown'
    BY <1>1, <1>2, HandshakeStep, AskingStep, ContiguousStep, ShownStep
  <2> QED
    BY <2>1 DEF Complete
<1>3. CASE UNCHANGED vars
  <2>1. Handshake'
    BY <1>1, <1>3, HandshakeStep
  <2>2. Asking' /\ Contiguous' /\ Shown'
    BY <1>1, <1>3 DEF vars, Asking, Contiguous, Shown
  <2> QED
    BY <2>1, <2>2 DEF Complete
<1> QED
  BY <1>2, <1>3

\* Every event of the window's profile was handed to it, is covered by a snapshot or on its
\* way to it, or the window knows that it must reload: through the ring's bound, the
\* replay's budget, reloads, lost connections and restarts no event is lost in silence.
THEOREM NothingLostInSilence ==
  ASSUME OneProfile
  PROVE  Spec => []NoSilentGap
<1>1. Complete => NoSilentGap
  <2> SUFFICES ASSUME Complete, Settled, ~client.reload, ~client.loading,
                      NEW n \in 1 .. seq[session.audience]
               PROVE  \/ n <= client.since \/ n <= client.loaded[session.audience]
                      \/ <<session.audience, n>> \in client.seen
                      \/ Coming(session.audience, n)
    BY DEF NoSilentGap
  <2>1. /\ Handshake /\ Typed /\ Counted /\ Contiguous /\ Shown /\ session.audience = Default
        /\ client \in Client /\ client.cursor \in Nat /\ seq[Default] \in Nat /\ n \in Nat
    BY SeqTyped DEF Complete, Handshake, Typed, OneProfile
  <2>2. client.held = <<>> /\ client.answered = <<>> /\ In(<<>>) = {} /\ \A x \in In(wire) : x.type # "subscribed"
    BY <2>1, InFlightCounted DEF Settled, In
  <2>3. \A x \in In(wire) : x.type # "snapshot"
    <3>1. Count(wire, "snapshot") = 0
      BY <2>1, CountsTyped DEF Counted
    <3> QED
      BY <2>1, <3>1, CountNone DEF Typed
  <2>4. OnWay(client, wire, n, Len(wire))
    BY <2>1 DEF Contiguous, Settled
  <2>5. CASE n <= client.cursor
    <3>1. Due(client, requests, wire, n)
      BY <2>1, <2>5 DEF Shown, Settled, Early
    <3>2. Has(client, n)
      BY <2>2, <2>3, <3>1 DEF Due, Brings, Settled
    <3> QED
      BY <2>1, <3>2 DEF Has
  <2>6. CASE \E i \in 1 .. Len(wire) : Covers(wire[i], n)
    <3>1. PICK i \in 1 .. Len(wire) : Covers(wire[i], n)
      BY <2>6
    <3>2. wire[i] \in Frame /\ wire[i] \in In(wire)
      BY <2>1 DEF Typed, In
    <3>3. wire[i].type = "event" /\ wire[i].n = n
      BY <2>2, <3>1, <3>2 DEF Covers
    <3>4. wire[i] \in EventFrame /\ wire[i].profile = Default
      BY <3>2, <3>3, Kinds, MarkTyped DEF OneProfile
    <3>5. wire[i] = Event(Default, n)
      BY <3>3, <3>4 DEF EventFrame, Event
    <3> QED
      BY <2>1, <3>5 DEF Coming
  <2> QED
    BY <2>2, <2>4, <2>5, <2>6 DEF OnWay, KnownTo
<1>2. Init => Complete
  BY CompleteStart
<1>3. Complete /\ [Next]_vars => Complete'
  BY CompleteStep
<1> QED
  BY <1>1, <1>2, <1>3, PTL DEF Spec
=============================================================================
