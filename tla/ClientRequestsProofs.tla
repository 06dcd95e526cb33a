------------------------ MODULE ClientRequestsProofs ------------------------
(* A change is applied at most once, and no slot is left unused while calls  *)
(* wait, for any number of calls, slots, places in line and retries.         *)
EXTENDS ClientRequests, FiniteSetTheorems, TLAPS

Request == [request : Calls \X Nat, stage : {"admitted", "done"}, answer : SUBSET Changes]
Answer == [call : Calls, attempt : Nat, ok : BOOLEAN, answer : SUBSET Changes]

\* The types, with those of the frames.
Typed ==
    /\ TypeOK
    /\ slotWaiters \in Seq(Calls)
    /\ requests \in Seq(Calls \X Nat)
    /\ responses \in Seq(Answer)
    /\ running \in SUBSET Request
    /\ \A c \in Calls : calls[c].phase = "joined" => c \in Reads

\* The line holds the calls that wait, each once.
InLine ==
    /\ \A i \in 1 .. Len(slotWaiters) : calls[slotWaiters[i]].phase = "waiting"
    /\ \A c \in Calls : calls[c].phase = "waiting" => \E i \in 1 .. Len(slotWaiters) : slotWaiters[i] = c
    /\ \A i, j \in 1 .. Len(slotWaiters) : slotWaiters[i] = slotWaiters[j] => i = j

\* No more calls are sent than there are slots, and no fewer while calls wait.
SlotsUsed ==
    /\ Cardinality(Sent(calls)) <= Slots
    /\ slotWaiters # <<>> => Cardinality(Sent(calls)) = Slots

\* Where the request of a call, or its answer, is under way.
AskedFor(c) == {i \in 1 .. Len(requests) : requests[i][1] = c}
RunningFor(c) == {e \in running : e.request[1] = c}
ToldOf(c) == {i \in 1 .. Len(responses) : responses[i].call = c}

\* It is under way once, and then the call was sent.
Once(c) ==
    /\ \A i, j \in AskedFor(c) : i = j
    /\ \A e, f \in RunningFor(c) : e = f
    /\ \A i, j \in ToldOf(c) : i = j
    /\ AskedFor(c) # {} => RunningFor(c) = {} /\ ToldOf(c) = {}
    /\ RunningFor(c) # {} => ToldOf(c) = {}
    /\ AskedFor(c) # {} \/ RunningFor(c) # {} \/ ToldOf(c) # {} => calls[c].phase \in {"sent", "failed"}

\* A change was not applied as long as it can still be asked again.
Unapplied(c) ==
    /\ applied[c] <= 1
    /\ calls[c].phase \in {"idle", "waiting", "backoff", "refused"} => applied[c] = 0
    /\ AskedFor(c) # {} => applied[c] = 0
    /\ \A e \in RunningFor(c) : e.stage = "admitted" => applied[c] = 0
    /\ \A i \in ToldOf(c) : ~responses[i].ok => applied[c] = 0

Carried == \A c \in Changes : Once(c) /\ Unapplied(c)

Inv == Typed /\ InLine /\ SlotsUsed /\ Carried

Call == [phase : Phases, attempt : 0 .. Retries, owner : Calls \cup {NoCall},
         answer : SUBSET Changes, asked : SUBSET Changes]

-----------------------------------------------------------------------------
(* Sequences and sets.                                                       *)

\* What append does to a sequence.
LEMMA AppendFacts ==
  ASSUME NEW S, NEW w \in Seq(S), NEW e \in S
  PROVE  /\ Append(w, e) \in Seq(S) /\ Len(Append(w, e)) = Len(w) + 1 /\ Len(w) \in Nat
         /\ \A i \in 1 .. Len(w) : Append(w, e)[i] = w[i]
         /\ Append(w, e)[Len(w) + 1] = e
         /\ \A i \in 1 .. Len(w) + 1 : i \in 1 .. Len(w) \/ i = Len(w) + 1
  OBVIOUS

\* What shift does to a sequence.
LEMMA TailFacts ==
  ASSUME NEW S, NEW w \in Seq(S), w # <<>>
  PROVE  /\ Len(w) \in Nat \ {0} /\ Head(w) = w[1] /\ Head(w) \in S
         /\ Tail(w) \in Seq(S) /\ Len(Tail(w)) = Len(w) - 1
         /\ \A i \in 1 .. Len(w) - 1 : Tail(w)[i] = w[i + 1] /\ i + 1 \in 1 .. Len(w)
         /\ \A i \in 1 .. Len(w) : i = 1 \/ (i - 1 \in 1 .. Len(w) - 1 /\ Tail(w)[i - 1] = w[i])
  OBVIOUS

\* What splice does to a sequence.
LEMMA SplicedFacts ==
  ASSUME NEW S, NEW w \in Seq(S), NEW n \in 1 .. Len(w)
  PROVE  /\ Spliced(w, n) \in Seq(S) /\ Len(Spliced(w, n)) = Len(w) - 1
         /\ \A i \in 1 .. Len(w) - 1 : Spliced(w, n)[i] = IF i < n THEN w[i] ELSE w[i + 1]
<1>1. Len(w) \in Nat /\ Len(w) - 1 \in Nat
  OBVIOUS
<1>2. \A i \in 1 .. Len(w) - 1 : (IF i < n THEN w[i] ELSE w[i + 1]) \in S
  OBVIOUS
<1> QED
  BY <1>1, <1>2 DEF Spliced

\* The calls are finitely many.
LEMMA CallsFinite ==
  ASSUME RequestAssumption
  PROVE  IsFiniteSet(Calls)
  BY FS_Union DEF RequestAssumption, Calls

\* So are those that were sent.
LEMMA SentFinite ==
  ASSUME RequestAssumption, NEW t
  PROVE  IsFiniteSet(Sent(t)) /\ Cardinality(Sent(t)) \in Nat
<1>1. Sent(t) \in SUBSET Calls
  BY DEF Sent
<1> QED
  BY <1>1, CallsFinite, FS_Subset, FS_CardinalityType

\* One call more is sent.
LEMMA OneMoreSent ==
  ASSUME RequestAssumption, NEW t, NEW u, NEW c \in Calls, t[c].phase # "sent", u[c].phase = "sent",
         \A d \in Calls \ {c} : u[d].phase = "sent" <=> t[d].phase = "sent"
  PROVE  Cardinality(Sent(u)) = Cardinality(Sent(t)) + 1
<1>1. Sent(u) = Sent(t) \cup {c} /\ c \notin Sent(t)
  BY DEF Sent
<1> QED
  BY <1>1, SentFinite, FS_AddElement

\* As many calls are sent as before.
LEMMA SameSent ==
  ASSUME NEW t, NEW u, \A d \in Calls : u[d].phase = "sent" <=> t[d].phase = "sent"
  PROVE  Sent(u) = Sent(t)
  BY DEF Sent

-----------------------------------------------------------------------------
(* What a client's operation does to the calls.                              *)

Over == {"answered", "refused", "failed"}

\* Beside a call, only those that share its answer change, and come to an end.
Apart(t, u, c) ==
    \A d \in Calls \ {c} : u[d].phase = t[d].phase \/ (t[d].phase = "joined" /\ u[d].phase \in Over)

\* The end of a call ends it and those that share its answer, and moves no other.
LEMMA EndedFacts ==
  ASSUME NEW t \in [Calls -> Call], NEW c \in Calls, NEW phase \in Over, NEW answer \in SUBSET Changes
  PROVE  /\ Ended(t, c, phase, answer) \in [Calls -> Call]
         /\ Ended(t, c, phase, answer)[c].phase = phase
         /\ Apart(t, Ended(t, c, phase, answer), c)
<1>1. phase \in Phases
  BY DEF Over, Phases
<1>2. \A d \in Calls : [t[d] EXCEPT !.phase = phase, !.answer = answer] \in Call
  BY <1>1 DEF Call
<1>3. \A d \in Calls : [t[d] EXCEPT !.phase = phase, !.answer = answer].phase = phase
  BY DEF Call
<1> QED
  BY <1>2, <1>3 DEF Ended, Apart

\* A refusal ends the call or makes it wait for another attempt.
LEMMA RefusedFacts ==
  ASSUME RequestAssumption, NEW t \in [Calls -> Call], NEW c \in Calls
  PROVE  /\ Refused(t, c) \in [Calls -> Call]
         /\ Refused(t, c)[c].phase \in {"backoff", "refused"}
         /\ Apart(t, Refused(t, c), c)
<1>1. CASE t[c].attempt < Retries
  <2> DEFINE u == [t[c] EXCEPT !.phase = "backoff", !.attempt = @ + 1]
  <2>1. Refused(t, c) = [t EXCEPT ![c] = u]
    BY <1>1 DEF Refused, Call
  <2>2. u \in Call /\ u.phase = "backoff"
    <3>1. t[c].attempt + 1 \in 0 .. Retries
      BY <1>1 DEF RequestAssumption, Call
    <3> QED
      BY <3>1 DEF Call, Phases
  <2> QED
    BY <2>1, <2>2 DEF Apart
<1>2. CASE ~(t[c].attempt < Retries)
  <2>1. Refused(t, c) = Ended(t, c, "refused", {})
    BY <1>2 DEF Refused
  <2> QED
    BY <2>1, EndedFacts DEF Over
<1> QED
  BY <1>1, <1>2

-----------------------------------------------------------------------------
(* The steps of a client.                                                    *)

Unsent == {"idle", "waiting", "backoff"}

\* A step of the client that sends at most one request, of a call that was not sent,
\* and gives up no call whose request is under way.
LEMMA ClientKeeps ==
  ASSUME Inv, NEW w \in Calls, NEW n \in Nat,
         running' = running, applied' = applied,
         responses' = responses \/ (responses # <<>> /\ responses' = Tail(responses)),
         \/ requests' = requests
         \/ /\ requests' = Append(requests, <<w, n>>)
            /\ calls[w].phase \in Unsent /\ calls'[w].phase = "sent",
         \A c \in Changes : AskedFor(c) # {} \/ RunningFor(c) # {} \/ ToldOf(c)' # {}
                               => calls'[c].phase \in {"sent", "failed"},
         \A c \in Changes : calls'[c].phase \in {"idle", "waiting", "backoff", "refused"} => applied[c] = 0
  PROVE  Carried'
<1> SUFFICES ASSUME NEW c \in Changes
             PROVE  Once(c)' /\ Unapplied(c)'
  BY DEF Carried
<1>1. Once(c) /\ Unapplied(c) /\ requests \in Seq(Calls \X Nat) /\ responses \in Seq(Answer)
  BY DEF Inv, Carried, Typed
<1>2. RunningFor(c)' = RunningFor(c)
  BY DEF RunningFor
<1>3. /\ \A i, j \in ToldOf(c)' : i = j
      /\ ToldOf(c)' # {} => ToldOf(c) # {}
      /\ \A i \in ToldOf(c)' : ~responses'[i].ok => applied[c] = 0
  <2>1. CASE responses' = responses
    BY <1>1, <2>1 DEF ToldOf, Once, Unapplied
  <2>2. CASE responses # <<>> /\ responses' = Tail(responses)
    <3>1. \A i \in ToldOf(c)' : i \in Nat /\ i + 1 \in ToldOf(c) /\ responses'[i] = responses[i + 1]
      BY <1>1, <2>2, TailFacts DEF ToldOf
    <3>2. \A i, j \in ToldOf(c)' : i = j
      <4> SUFFICES ASSUME NEW i \in ToldOf(c)', NEW j \in ToldOf(c)'
                   PROVE  i = j
        OBVIOUS
      <4>1. i \in Nat /\ j \in Nat /\ i + 1 = j + 1
        BY <1>1, <3>1 DEF Once
      <4> QED
        BY <4>1
    <3> QED
      BY <1>1, <3>1, <3>2 DEF Unapplied
  <2> QED
    BY <2>1, <2>2
<1>4. CASE requests' = requests
  <2>1. AskedFor(c)' = AskedFor(c)
    BY <1>4 DEF AskedFor
  <2> QED
    BY <1>1, <1>2, <1>3, <2>1 DEF Once, Unapplied
<1>5. CASE /\ requests' = Append(requests, <<w, n>>)
           /\ calls[w].phase \in Unsent /\ calls'[w].phase = "sent"
  <2>1. CASE c = w
    <3>1. /\ AskedFor(c) = {} /\ RunningFor(c) = {} /\ ToldOf(c) = {} /\ applied[c] = 0
          /\ calls[c].phase \notin {"sent", "failed"}
      BY <1>1, <1>5, <2>1 DEF Once, Unapplied, Unsent
    <3>2. \A i \in AskedFor(c)' : i = Len(requests) + 1
      <4>1. <<w, n>> \in Calls \X Nat
        OBVIOUS
      <4>2. ASSUME NEW i \in AskedFor(c)', i \in 1 .. Len(requests)
            PROVE  FALSE
        BY <1>1, <1>5, <3>1, <4>1, <4>2, AppendFacts DEF AskedFor
      <4> QED
        BY <1>1, <1>5, <4>1, <4>2, AppendFacts DEF AskedFor
    <3>3. ToldOf(c)' = {}
      BY <1>3, <3>1
    <3> QED
      BY <1>2, <1>3, <1>5, <2>1, <3>1, <3>2, <3>3 DEF Once, Unapplied
  <2>2. CASE c # w
    <3>1. AskedFor(c)' = AskedFor(c)
      <4>1. <<w, n>> \in Calls \X Nat /\ <<w, n>>[1] # c
        BY <2>2
      <4>2. ASSUME NEW i
            PROVE  i \in AskedFor(c)' <=> i \in AskedFor(c)
        <5>1. CASE i \in 1 .. Len(requests)
          <6>1. i \in 1 .. Len(requests') /\ requests'[i] = requests[i]
            BY <1>1, <1>5, <4>1, <5>1, AppendFacts
          <6> QED
            BY <5>1, <6>1 DEF AskedFor
        <5>2. CASE i \notin 1 .. Len(requests)
          BY <1>1, <1>5, <4>1, <5>2, AppendFacts DEF AskedFor
        <5> QED
          BY <5>1, <5>2
      <4> QED
        BY <4>2
    <3> QED
      BY <1>1, <1>2, <1>3, <3>1 DEF Once, Unapplied
  <2> QED
    BY <2>1, <2>2
<1> QED
  BY <1>4, <1>5

\* The calls that wait stay in line.
LEMMA LineStays ==
  ASSUME Inv, slotWaiters' = slotWaiters,
         \A d \in Calls : calls'[d].phase = "waiting" <=> calls[d].phase = "waiting"
  PROVE  InLine'
<1>1. slotWaiters \in Seq(Calls) /\ \A i \in 1 .. Len(slotWaiters) : slotWaiters[i] \in Calls
  BY DEF Inv, Typed
<1> QED
  BY <1>1 DEF Inv, InLine

\* A call is sent, waits or is refused.
LEMMA RequestOnceInv ==
  ASSUME RequestAssumption, Inv, NEW t \in [Calls -> Call], NEW c \in Calls,
         calls[c].phase \in {"idle", "backoff"}, \A d \in Calls : t[d].phase = calls[d].phase,
         RequestOnce(t, c), UNCHANGED <<connected, running, responses, applied>>,
         shared' \in Reads \cup {NoCall}
  PROVE  Inv'
<1>1. Sent(t) = Sent(calls)
  BY SameSent
<1>2. t[c].attempt \in Nat /\ <<c, t[c].attempt>> \in Calls \X Nat
  BY DEF Call
<1>3. slotWaiters \in Seq(Calls) /\ requests \in Seq(Calls \X Nat)
  BY DEF Inv, Typed
<1>4. \A d \in Changes : /\ AskedFor(d) # {} \/ RunningFor(d) # {} \/ ToldOf(d) # {} => calls[d].phase \in {"sent", "failed"}
                         /\ calls[d].phase \in {"idle", "waiting", "backoff", "refused"} => applied[d] = 0
                         /\ calls[d].phase # "joined" /\ d \in Calls /\ d \notin Reads
  BY DEF Inv, Carried, Once, Unapplied, Typed, Calls, RequestAssumption
<1>5. Cardinality(Sent(calls)) \in Nat /\ Slots \in Nat
  BY SentFinite DEF RequestAssumption
<1>6. \A d \in Changes : ToldOf(d)' = ToldOf(d)
  BY DEF ToldOf
<1>7. CASE ~(Cardinality(Sent(t)) >= Slots \/ slotWaiters # <<>>)
  <2>1. /\ calls' = [t EXCEPT ![c].phase = "sent"] /\ requests' = Append(requests, <<c, t[c].attempt>>)
        /\ slotWaiters' = slotWaiters
    BY <1>7 DEF RequestOnce
  <2>2. calls' \in [Calls -> Call] /\ calls'[c].phase = "sent" /\ \A d \in Calls \ {c} : calls'[d].phase = calls[d].phase
    BY <2>1, ZenonT(40) DEF Call, Phases
  <2>3. Typed'
    <3>1. requests' \in Seq(Calls \X Nat)
      BY <1>2, <1>3, <2>1
    <3>2. \A d \in Calls : calls'[d].phase = "joined" => d \in Reads
      BY <2>2 DEF Inv, Typed
    <3> QED
      BY <2>1, <2>2, <3>1, <3>2 DEF Inv, Typed, TypeOK, Call
  <2>4. InLine'
    BY <2>1, <2>2, LineStays
  <2>5. SlotsUsed'
    <3>1. Cardinality(Sent(calls')) = Cardinality(Sent(calls)) + 1
      BY <2>2, OneMoreSent
    <3> QED
      BY <1>1, <1>5, <1>7, <2>1, <3>1 DEF SlotsUsed
  <2>6. Carried'
    <3>1. \A d \in Changes : AskedFor(d) # {} \/ RunningFor(d) # {} \/ ToldOf(d)' # {}
                               => calls'[d].phase \in {"sent", "failed"}
      BY <1>4, <1>6, <2>2
    <3>2. \A d \in Changes : calls'[d].phase \in {"idle", "waiting", "backoff", "refused"} => applied[d] = 0
      BY <1>4, <2>2
    <3> QED
      BY <1>2, <2>1, <2>2, <3>1, <3>2, ClientKeeps DEF Unsent
  <2> QED
    BY <2>3, <2>4, <2>5, <2>6 DEF Inv
<1>8. CASE (Cardinality(Sent(t)) >= Slots \/ slotWaiters # <<>>) /\ Len(slotWaiters) < MaxWaiting
  <2>1. /\ calls' = [t EXCEPT ![c].phase = "waiting"] /\ slotWaiters' = Append(slotWaiters, c)
        /\ requests' = requests
    BY <1>8 DEF RequestOnce
  <2>2. calls' \in [Calls -> Call] /\ calls'[c].phase = "waiting" /\ \A d \in Calls \ {c} : calls'[d].phase = calls[d].phase
    BY <2>1, ZenonT(40) DEF Call, Phases
  <2>3. Typed'
    <3>1. slotWaiters' \in Seq(Calls) /\ \A i \in 1 .. Len(slotWaiters') : slotWaiters'[i] \in Calls
      BY <1>3, <2>1
    <3> QED
      BY <2>1, <2>2, <3>1 DEF Inv, Typed, TypeOK, Call
  <2>4. InLine'
    <3>1. \A i \in 1 .. Len(slotWaiters) : slotWaiters[i] \in Calls /\ slotWaiters[i] # c
      BY <1>3 DEF Inv, InLine
    <3>2. \A i \in 1 .. Len(slotWaiters') : i \in 1 .. Len(slotWaiters) \/ i = Len(slotWaiters) + 1
      BY <1>3, <2>1, AppendFacts
    <3>3. slotWaiters'[Len(slotWaiters) + 1] = c /\ \A i \in 1 .. Len(slotWaiters) : slotWaiters'[i] = slotWaiters[i]
      BY <1>3, <2>1, AppendFacts
    <3>4. Len(slotWaiters) \in Nat /\ Len(slotWaiters') = Len(slotWaiters) + 1
      BY <1>3, <2>1, AppendFacts
    <3>5. \A i \in 1 .. Len(slotWaiters') : calls'[slotWaiters'[i]].phase = "waiting"
      BY <2>2, <3>1, <3>2, <3>3 DEF Inv, InLine
    <3>6. \A d \in Calls : calls'[d].phase = "waiting" => \E i \in 1 .. Len(slotWaiters') : slotWaiters'[i] = d
      <4> SUFFICES ASSUME NEW d \in Calls, calls'[d].phase = "waiting"
                   PROVE  \E i \in 1 .. Len(slotWaiters') : slotWaiters'[i] = d
        OBVIOUS
      <4>1. CASE d = c
        <5>1. Len(slotWaiters) + 1 \in 1 .. Len(slotWaiters')
          BY <3>4
        <5> QED
          BY <3>3, <4>1, <5>1
      <4>2. CASE d # c
        <5>1. PICK i \in 1 .. Len(slotWaiters) : slotWaiters[i] = d
          BY <2>2, <4>2 DEF Inv, InLine
        <5>2. i \in 1 .. Len(slotWaiters')
          BY <3>4
        <5> QED
          BY <3>3, <5>1, <5>2
      <4> QED
        BY <4>1, <4>2
    <3>7. \A i, j \in 1 .. Len(slotWaiters') : slotWaiters'[i] = slotWaiters'[j] => i = j
      BY <3>1, <3>2, <3>3 DEF Inv, InLine
    <3> QED
      BY <3>5, <3>6, <3>7 DEF InLine
  <2>5. SlotsUsed'
    <3>1. Sent(calls') = Sent(calls)
      BY <2>2, SameSent
    <3> QED
      BY <1>1, <1>5, <1>8, <3>1 DEF Inv, SlotsUsed
  <2>6. Carried'
    <3>1. \A d \in Changes : AskedFor(d) # {} \/ RunningFor(d) # {} \/ ToldOf(d)' # {}
                               => calls'[d].phase \in {"sent", "failed"}
      BY <1>4, <1>6, <2>2
    <3>2. \A d \in Changes : calls'[d].phase \in {"idle", "waiting", "backoff", "refused"} => applied[d] = 0
      BY <1>4, <2>2
    <3> QED
      BY <1>2, <2>1, <3>1, <3>2, ClientKeeps
  <2> QED
    BY <2>3, <2>4, <2>5, <2>6 DEF Inv
<1>9. CASE (Cardinality(Sent(t)) >= Slots \/ slotWaiters # <<>>) /\ ~(Len(slotWaiters) < MaxWaiting)
  <2>1. calls' = Refused(t, c) /\ slotWaiters' = slotWaiters /\ requests' = requests
    BY <1>9 DEF RequestOnce
  <2>2. /\ calls' \in [Calls -> Call] /\ calls'[c].phase \in {"backoff", "refused"}
        /\ \A d \in Calls \ {c} : calls'[d].phase = calls[d].phase \/ (calls[d].phase = "joined" /\ calls'[d].phase \in Over)
    BY <2>1, RefusedFacts DEF Apart
  <2>3. Typed'
    <3>1. \A d \in Calls : calls'[d].phase = "joined" => d \in Reads
      BY <2>2 DEF Inv, Typed, Over
    <3> QED
      BY <2>1, <2>2, <3>1 DEF Inv, Typed, TypeOK, Call
  <2>4. InLine'
    BY <2>1, <2>2, LineStays DEF Over
  <2>5. SlotsUsed'
    <3>1. Sent(calls') = Sent(calls)
      BY <2>2, SameSent DEF Over
    <3> QED
      BY <2>1, <3>1 DEF Inv, SlotsUsed
  <2>6. Carried'
    <3>1. \A d \in Changes : AskedFor(d) # {} \/ RunningFor(d) # {} \/ ToldOf(d)' # {}
                               => calls'[d].phase \in {"sent", "failed"}
      BY <1>4, <1>6, <2>2
    <3>2. \A d \in Changes : calls'[d].phase \in {"idle", "waiting", "backoff", "refused"} => applied[d] = 0
      BY <1>4, <2>2
    <3> QED
      BY <1>2, <2>1, <3>1, <3>2, ClientKeeps
  <2> QED
    BY <2>3, <2>4, <2>5, <2>6 DEF Inv
<1> QED
  BY <1>7, <1>8, <1>9

\* The oldest waiting call takes the slot that a call has left.
LEMMA AdmitWaitersInv ==
  ASSUME RequestAssumption, Inv, NEW t \in [Calls -> Call], NEW c \in Calls,
         calls[c].phase = "sent", t[c].phase \in {"answered", "failed", "backoff", "refused"}, Apart(calls, t, c),
         AdmitWaiters(t), UNCHANGED <<running, applied>>, shared' \in Reads \cup {NoCall}, connected' \in BOOLEAN,
         responses' = responses \/ (responses # <<>> /\ responses' = Tail(responses)),
         c \in Changes /\ (AskedFor(c) # {} \/ RunningFor(c) # {} \/ ToldOf(c)' # {}) => t[c].phase = "failed",
         c \in Changes /\ t[c].phase \in {"backoff", "refused"} => applied[c] = 0
  PROVE  Inv'
<1>1. slotWaiters \in Seq(Calls) /\ requests \in Seq(Calls \X Nat) /\ responses \in Seq(Answer)
  BY DEF Inv, Typed
<1>2. \A d \in Changes : /\ AskedFor(d) # {} \/ RunningFor(d) # {} \/ ToldOf(d) # {} => calls[d].phase \in {"sent", "failed"}
                         /\ calls[d].phase \in {"idle", "waiting", "backoff", "refused"} => applied[d] = 0
                         /\ calls[d].phase # "joined" /\ d \in Calls /\ d \notin Reads
  BY DEF Inv, Carried, Once, Unapplied, Typed, Calls, RequestAssumption
<1>3. Cardinality(Sent(calls)) = Cardinality(Sent(t)) + 1 /\ Cardinality(Sent(t)) \in Nat /\ Slots \in Nat
  <2>1. t[c].phase # "sent" /\ \A d \in Calls \ {c} : calls[d].phase = "sent" <=> t[d].phase = "sent"
    BY DEF Apart, Over
  <2> QED
    BY <2>1, OneMoreSent, SentFinite DEF RequestAssumption
<1>4. responses' \in Seq(Answer)
  <2>1. CASE responses # <<>> /\ responses' = Tail(responses)
    BY <1>1, <2>1, TailFacts
  <2> QED
    BY <1>1, <2>1
<1>5. \A d \in Changes : ToldOf(d)' # {} => ToldOf(d) # {}
  <2> SUFFICES ASSUME NEW d \in Changes, NEW i \in ToldOf(d)'
               PROVE  ToldOf(d) # {}
    OBVIOUS
  <2>1. CASE responses' = responses
    BY <2>1 DEF ToldOf
  <2>2. CASE responses # <<>> /\ responses' = Tail(responses)
    <3>1. i + 1 \in ToldOf(d)
      BY <1>1, <2>2, TailFacts DEF ToldOf
    <3> QED
      BY <3>1
  <2> QED
    BY <2>1, <2>2
<1>6. \A d \in Calls : (calls[d].phase = "joined" \/ t[d].phase = "joined") => d \in Reads
  BY DEF Inv, Typed, Apart, Over
<1>7. \A d \in Changes : /\ AskedFor(d) # {} \/ RunningFor(d) # {} \/ ToldOf(d)' # {} => t[d].phase \in {"sent", "failed"}
                         /\ t[d].phase \in {"idle", "waiting", "backoff", "refused"} => applied[d] = 0
  BY <1>2, <1>5 DEF Apart
<1>8. CASE slotWaiters # <<>> /\ Cardinality(Sent(t)) < Slots
  <2> DEFINE w == Head(slotWaiters)
  <2>1. /\ calls' = [t EXCEPT ![w].phase = "sent"] /\ requests' = Append(requests, <<w, t[w].attempt>>)
        /\ slotWaiters' = Tail(slotWaiters)
    BY <1>8 DEF AdmitWaiters
  <2>2. /\ w \in Calls /\ w = slotWaiters[1] /\ 1 \in 1 .. Len(slotWaiters) /\ Len(slotWaiters) \in Nat
        /\ slotWaiters' \in Seq(Calls) /\ Len(slotWaiters') = Len(slotWaiters) - 1
        /\ \A i \in 1 .. Len(slotWaiters') : slotWaiters'[i] = slotWaiters[i + 1] /\ i + 1 \in 1 .. Len(slotWaiters)
        /\ \A i \in 1 .. Len(slotWaiters) : i = 1 \/ (i - 1 \in 1 .. Len(slotWaiters') /\ slotWaiters'[i - 1] = slotWaiters[i])
    BY <1>1, <1>8, <2>1, TailFacts
  <2>3. calls[w].phase = "waiting" /\ t[w].phase = "waiting" /\ w # c
    BY <2>2 DEF Inv, InLine, Apart
  <2>4. t[w].attempt \in Nat
    BY <2>2 DEF Call
  <2> HIDE DEF w
  <2>5. calls' \in [Calls -> Call] /\ calls'[w].phase = "sent" /\ \A d \in Calls \ {w} : calls'[d].phase = t[d].phase
    <3>1. [t[w] EXCEPT !.phase = "sent"] \in Call /\ [t[w] EXCEPT !.phase = "sent"].phase = "sent"
      BY <2>2 DEF Call, Phases
    <3> QED
      BY <2>1, <2>2, <3>1
  <2>6. Typed'
    <3>1. requests' \in Seq(Calls \X Nat)
      BY <1>1, <2>1, <2>2, <2>4
    <3>2. \A d \in Calls : calls'[d].phase = "joined" => d \in Reads
      BY <1>6, <2>5
    <3>3. \A i \in 1 .. Len(slotWaiters') : slotWaiters'[i] \in Calls
      BY <2>2
    <3> QED
      BY <1>4, <2>2, <2>5, <3>1, <3>2, <3>3 DEF Inv, Typed, TypeOK, Call
  <2>7. InLine'
    <3>1. \A i \in 1 .. Len(slotWaiters) : /\ slotWaiters[i] \in Calls /\ calls[slotWaiters[i]].phase = "waiting"
                                           /\ slotWaiters[i] = w => i = 1
      BY <1>1, <2>2 DEF Inv, InLine
    <3>2. \A i \in 1 .. Len(slotWaiters') : calls'[slotWaiters'[i]].phase = "waiting"
      <4> SUFFICES ASSUME NEW i \in 1 .. Len(slotWaiters')
                   PROVE  calls'[slotWaiters'[i]].phase = "waiting"
        OBVIOUS
      <4>1. i \in Nat \ {0} /\ i + 1 # 1
        BY <2>2
      <4>2. slotWaiters'[i] \in Calls /\ slotWaiters'[i] # w /\ calls[slotWaiters'[i]].phase = "waiting"
        BY <2>2, <3>1, <4>1
      <4>3. slotWaiters'[i] # c
        BY <4>2
      <4> QED
        BY <2>5, <4>2, <4>3 DEF Apart
    <3>3. \A d \in Calls : calls'[d].phase = "waiting" => \E i \in 1 .. Len(slotWaiters') : slotWaiters'[i] = d
      <4> SUFFICES ASSUME NEW d \in Calls, calls'[d].phase = "waiting"
                   PROVE  \E i \in 1 .. Len(slotWaiters') : slotWaiters'[i] = d
        OBVIOUS
      <4>1. d # w /\ d # c /\ calls[d].phase = "waiting"
        BY <2>3, <2>5 DEF Apart, Over
      <4>2. PICK i \in 1 .. Len(slotWaiters) : slotWaiters[i] = d
        BY <4>1 DEF Inv, InLine
      <4>3. i # 1
        BY <2>2, <4>1, <4>2
      <4> QED
        BY <2>2, <4>2, <4>3
    <3>4. \A i, j \in 1 .. Len(slotWaiters') : slotWaiters'[i] = slotWaiters'[j] => i = j
      <4> SUFFICES ASSUME NEW i \in 1 .. Len(slotWaiters'), NEW j \in 1 .. Len(slotWaiters'),
                          slotWaiters'[i] = slotWaiters'[j]
                   PROVE  i = j
        OBVIOUS
      <4>1. i \in Nat /\ j \in Nat /\ i + 1 = j + 1
        BY <2>2 DEF Inv, InLine
      <4> QED
        BY <4>1
    <3> QED
      BY <3>2, <3>3, <3>4 DEF InLine
  <2>8. SlotsUsed'
    <3>1. Cardinality(Sent(calls')) = Cardinality(Sent(t)) + 1
      BY <2>2, <2>3, <2>5, OneMoreSent
    <3>2. slotWaiters # <<>> => Cardinality(Sent(calls)) = Slots
      BY DEF Inv, SlotsUsed
    <3> QED
      BY <1>3, <1>8, <3>1, <3>2 DEF SlotsUsed
  <2>9. Carried'
    <3>1. \A d \in Changes : AskedFor(d) # {} \/ RunningFor(d) # {} \/ ToldOf(d)' # {}
                               => calls'[d].phase \in {"sent", "failed"}
      BY <1>2, <1>7, <2>5
    <3>2. \A d \in Changes : calls'[d].phase \in {"idle", "waiting", "backoff", "refused"} => applied[d] = 0
      BY <1>2, <1>7, <2>5
    <3> QED
      BY <2>1, <2>2, <2>3, <2>4, <2>5, <3>1, <3>2, ClientKeeps DEF Unsent
  <2> QED
    BY <2>6, <2>7, <2>8, <2>9 DEF Inv
<1>9. CASE ~(slotWaiters # <<>> /\ Cardinality(Sent(t)) < Slots)
  <2>1. calls' = t /\ requests' = requests /\ slotWaiters' = slotWaiters
    BY <1>9 DEF AdmitWaiters
  <2>2. Typed'
    BY <1>1, <1>4, <1>6, <2>1 DEF Inv, Typed, TypeOK, Call
  <2>3. InLine'
    <3>1. \A d \in Calls : calls'[d].phase = "waiting" <=> calls[d].phase = "waiting"
      BY <2>1 DEF Apart, Over
    <3> QED
      BY <2>1, <3>1, LineStays
  <2>4. SlotsUsed'
    <3>1. Cardinality(Sent(calls)) <= Slots
      BY DEF Inv, SlotsUsed
    <3>2. slotWaiters = <<>>
      BY <1>3, <1>9, <3>1
    <3> QED
      BY <1>3, <2>1, <3>1, <3>2 DEF SlotsUsed
  <2>5. Carried'
    <3>1. 0 \in Nat
      OBVIOUS
    <3> QED
      BY <1>7, <2>1, <3>1, ClientKeeps
  <2> QED
    BY <2>2, <2>3, <2>4, <2>5 DEF Inv
<1> QED
  BY <1>8, <1>9

\* The records of calls are typed, and no change shares an answer.
LEMMA Types ==
  ASSUME Inv
  PROVE  /\ calls \in [Calls -> Call] /\ shared \in Reads \cup {NoCall} /\ connected \in BOOLEAN
         /\ responses \in Seq(Answer) /\ requests \in Seq(Calls \X Nat) /\ slotWaiters \in Seq(Calls)
         /\ running \in SUBSET Request /\ applied \in [Changes -> Nat]
         /\ \A d \in Changes : calls[d].phase # "joined" \/ d \in Reads
  BY DEF Inv, Typed, TypeOK, Call, Calls

\* A change is asked.
LEMMA AskChangeInv ==
  ASSUME RequestAssumption, Inv, NEW c \in Changes, AskChange(c)
  PROVE  Inv'
<1>1. c \in Calls /\ calls \in [Calls -> Call] /\ calls[c].phase = "idle"
  BY Types DEF AskChange, Calls
<1>2. Answered \in SUBSET Changes
  BY DEF Answered
<1>3. Asked(c) \in [Calls -> Call] /\ \A d \in Calls : Asked(c)[d].phase = calls[d].phase
  <2>1. [calls[c] EXCEPT !.asked = Answered] \in Call /\ [calls[c] EXCEPT !.asked = Answered].phase = calls[c].phase
    BY <1>1, <1>2 DEF Call
  <2> QED
    BY <1>1, <2>1 DEF Asked
<1> QED
  BY <1>1, <1>3, RequestOnceInv DEF AskChange

\* A read is asked, or shares the answer of another.
LEMMA AskReadInv ==
  ASSUME RequestAssumption, Inv, NEW c \in Reads, AskRead(c)
  PROVE  Inv'
<1>1. c \in Calls /\ calls \in [Calls -> Call] /\ calls[c].phase = "idle"
  BY Types DEF AskRead, Calls
<1>2. Answered \in SUBSET Changes
  BY DEF Answered
<1>3. Asked(c) \in [Calls -> Call] /\ \A d \in Calls : Asked(c)[d].phase = calls[d].phase
  <2>1. [calls[c] EXCEPT !.asked = Answered] \in Call /\ [calls[c] EXCEPT !.asked = Answered].phase = calls[c].phase
    BY <1>1, <1>2 DEF Call
  <2> QED
    BY <1>1, <2>1 DEF Asked
<1>4. CASE shared = NoCall
  BY <1>1, <1>3, <1>4, RequestOnceInv DEF AskRead
<1>5. CASE shared # NoCall
  <2> DEFINE u == [Asked(c)[c] EXCEPT !.phase = "joined", !.owner = shared]
  <2>1. calls' = [Asked(c) EXCEPT ![c] = u] /\ UNCHANGED <<shared, slotWaiters, requests, connected, running, responses, applied>>
    BY <1>5 DEF AskRead
  <2>2. shared \in Calls
    BY <1>5, Types DEF Calls
  <2>3. u \in Call /\ u.phase = "joined"
    <3> DEFINE v == Asked(c)[c]
    <3>1. v \in Call
      BY <1>1, <1>3
    <3> HIDE DEF v
    <3>2. [v EXCEPT !.phase = "joined", !.owner = shared] \in Call
      BY <2>2, <3>1 DEF Call, Phases
    <3>3. [v EXCEPT !.phase = "joined", !.owner = shared].phase = "joined"
      BY <3>1 DEF Call
    <3> QED
      BY <3>2, <3>3 DEF v
  <2> HIDE DEF u
  <2>4. calls' \in [Calls -> Call] /\ calls'[c].phase = "joined" /\ \A d \in Calls \ {c} : calls'[d].phase = calls[d].phase
    BY <1>1, <1>3, <2>1, <2>3
  <2>5. Typed'
    <3>1. \A d \in Calls : calls'[d].phase = "joined" => d \in Reads
      BY <2>4 DEF Inv, Typed
    <3> QED
      BY <2>1, <2>4, <3>1 DEF Inv, Typed, TypeOK, Call
  <2>6. InLine'
    BY <1>1, <2>1, <2>4, LineStays
  <2>7. SlotsUsed'
    <3>1. Sent(calls') = Sent(calls)
      BY <1>1, <2>4, SameSent
    <3> QED
      BY <2>1, <3>1 DEF Inv, SlotsUsed
  <2>8. Carried'
    <3>1. \A d \in Changes : calls'[d].phase = calls[d].phase
      BY <2>4 DEF Calls, RequestAssumption
    <3>2. \A d \in Changes : AskedFor(d)' = AskedFor(d) /\ RunningFor(d)' = RunningFor(d) /\ ToldOf(d)' = ToldOf(d)
      BY <2>1 DEF AskedFor, RunningFor, ToldOf
    <3> QED
      BY <2>1, <3>1, <3>2 DEF Inv, Carried, Once, Unapplied
  <2> QED
    BY <2>5, <2>6, <2>7, <2>8 DEF Inv
<1> QED
  BY <1>4, <1>5

\* A step that ends calls which were neither sent nor in line, and sends nothing.
LEMMA EndsInv ==
  ASSUME RequestAssumption, Inv, calls' \in [Calls -> Call],
         NEW c \in Calls, calls[c].phase = "backoff", calls'[c].phase = "failed", Apart(calls, calls', c),
         shared' \in Reads \cup {NoCall}, UNCHANGED <<connected, running, responses, applied, slotWaiters, requests>>
  PROVE  Inv'
<1>1. Typed'
  <2>1. \A d \in Calls : calls'[d].phase = "joined" => d \in Reads
    BY DEF Inv, Typed, Apart, Over
  <2> QED
    BY <2>1 DEF Inv, Typed, TypeOK, Call
<1>2. InLine'
  <2>1. \A d \in Calls : calls'[d].phase = "waiting" <=> calls[d].phase = "waiting"
    BY DEF Apart, Over
  <2> QED
    BY <2>1, LineStays
<1>3. SlotsUsed'
  <2>1. Sent(calls') = Sent(calls)
    BY SameSent DEF Apart, Over
  <2> QED
    BY <2>1 DEF Inv, SlotsUsed
<1>4. Carried'
  <2>1. \A d \in Changes : calls'[d].phase = calls[d].phase \/ (d = c)
    BY DEF Inv, Typed, Apart, Calls, RequestAssumption
  <2>2. \A d \in Changes : AskedFor(d)' = AskedFor(d) /\ RunningFor(d)' = RunningFor(d) /\ ToldOf(d)' = ToldOf(d)
    BY DEF AskedFor, RunningFor, ToldOf
  <2> QED
    BY <2>1, <2>2 DEF Inv, Carried, Once, Unapplied
<1> QED
  BY <1>1, <1>2, <1>3, <1>4 DEF Inv

\* The delay of a retry is over.
LEMMA RetryInv ==
  ASSUME RequestAssumption, Inv, NEW c \in Calls, Retry(c)
  PROVE  Inv'
<1>1. calls \in [Calls -> Call] /\ calls[c].phase = "backoff" /\ shared' \in Reads \cup {NoCall}
  BY Types DEF Retry, Forgotten
<1>2. CASE connected
  BY <1>1, <1>2, RequestOnceInv DEF Retry
<1>3. CASE ~connected
  <2>1. calls' = Ended(calls, c, "failed", {}) /\ UNCHANGED <<connected, running, responses, applied, slotWaiters, requests>>
    BY <1>3 DEF Retry
  <2> QED
    BY <1>1, <2>1, EndedFacts, EndsInv DEF Over
<1> QED
  BY <1>2, <1>3

\* An answer, or a refusal, arrives.
LEMMA ResponseArrivesInv ==
  ASSUME RequestAssumption, Inv, ResponseArrives
  PROVE  Inv'
<1>0. /\ responses # <<>> /\ responses' = Tail(responses) /\ UNCHANGED <<connected, running, applied>>
      /\ responses \in Seq(Answer)
  BY Types DEF ResponseArrives
<1> PICK r \in Answer : r = Head(responses)
  BY <1>0, TailFacts
<1> PICK c \in Calls : c = r.call
  BY DEF Answer
<1>1. /\ r = responses[1] /\ 1 \in 1 .. Len(responses) /\ Tail(responses) \in Seq(Answer)
      /\ r.answer \in SUBSET Changes
  BY <1>0, TailFacts DEF Answer
<1>2. calls \in [Calls -> Call] /\ shared \in Reads \cup {NoCall} /\ connected \in BOOLEAN
  BY Types
<1>3. c \in Changes => /\ 1 \in ToldOf(c) /\ AskedFor(c) = {} /\ RunningFor(c) = {} /\ ToldOf(c)' = {}
                       /\ ~r.ok => applied[c] = 0
  <2> SUFFICES ASSUME c \in Changes
               PROVE  /\ 1 \in ToldOf(c) /\ AskedFor(c) = {} /\ RunningFor(c) = {} /\ ToldOf(c)' = {}
                      /\ ~r.ok => applied[c] = 0
    OBVIOUS
  <2>1. 1 \in ToldOf(c)
    BY <1>0, <1>1 DEF ToldOf
  <2>2. Once(c) /\ Unapplied(c)
    BY DEF Inv, Carried
  <2>3. \A i \in ToldOf(c)' : i \in Nat \ {0} /\ i + 1 \in ToldOf(c)
    BY <1>0, TailFacts DEF ToldOf
  <2>4. \A i \in ToldOf(c)' : i + 1 = 1 /\ i \in Nat \ {0}
    BY <2>1, <2>2, <2>3 DEF Once
  <2>5. ToldOf(c)' = {}
    BY <2>4
  <2> QED
    BY <1>1, <2>1, <2>2, <2>5 DEF Once, Unapplied
<1>4. CASE calls[c].phase = "sent" /\ calls[c].attempt = r.attempt /\ r.ok
  <2>1. AdmitWaiters(Ended(calls, c, "answered", r.answer)) /\ shared' = Forgotten(c)
    BY <1>4 DEF ResponseArrives
  <2>2. shared' \in Reads \cup {NoCall}
    BY <1>2, <2>1 DEF Forgotten
  <2> DEFINE t == Ended(calls, c, "answered", r.answer)
  <2>3. t \in [Calls -> Call] /\ t[c].phase = "answered" /\ Apart(calls, t, c)
    BY <1>1, <1>2, EndedFacts DEF Over
  <2> HIDE DEF t
  <2>4. AdmitWaiters(t)
    BY <2>1 DEF t
  <2> QED
    BY <1>0, <1>1, <1>2, <1>3, <1>4, <2>2, <2>3, <2>4, AdmitWaitersInv
<1>5. CASE calls[c].phase = "sent" /\ calls[c].attempt = r.attempt /\ ~r.ok
  <2>1. AdmitWaiters(Refused(calls, c)) /\ shared' = StillShared(c)
    BY <1>5 DEF ResponseArrives
  <2>2. shared' \in Reads \cup {NoCall}
    BY <1>2, <2>1 DEF Forgotten, StillShared
  <2> DEFINE t == Refused(calls, c)
  <2>3. t \in [Calls -> Call] /\ t[c].phase \in {"backoff", "refused"} /\ Apart(calls, t, c)
    BY <1>1, <1>2, RefusedFacts
  <2> HIDE DEF t
  <2>4. AdmitWaiters(t)
    BY <2>1 DEF t
  <2> QED
    BY <1>0, <1>1, <1>2, <1>3, <1>5, <2>2, <2>3, <2>4, AdmitWaitersInv
<1>6. CASE ~(calls[c].phase = "sent" /\ calls[c].attempt = r.attempt)
  <2>1. UNCHANGED <<calls, shared, slotWaiters, requests>>
    BY <1>6 DEF ResponseArrives
  <2>2. Typed'
    BY <1>0, <1>1, <2>1 DEF Inv, Typed, TypeOK
  <2>3. InLine' /\ SlotsUsed'
    BY <2>1 DEF Inv, InLine, SlotsUsed
  <2>4. Carried'
    <3>1. \A d \in Changes : ToldOf(d)' # {} => ToldOf(d) # {}
      <4> SUFFICES ASSUME NEW d \in Changes, NEW i \in ToldOf(d)'
                   PROVE  ToldOf(d) # {}
        OBVIOUS
      <4>1. i + 1 \in ToldOf(d)
        BY <1>0, TailFacts DEF ToldOf
      <4> QED
        BY <4>1
    <3>2. \A d \in Changes : AskedFor(d) # {} \/ RunningFor(d) # {} \/ ToldOf(d)' # {}
                               => calls'[d].phase \in {"sent", "failed"}
      BY <2>1, <3>1 DEF Inv, Carried, Once
    <3>3. \A d \in Changes : calls'[d].phase \in {"idle", "waiting", "backoff", "refused"} => applied[d] = 0
      BY <2>1 DEF Inv, Carried, Unapplied
    <3>4. 0 \in Nat
      OBVIOUS
    <3> QED
      BY <1>0, <2>1, <3>2, <3>3, <3>4, ClientKeeps
  <2> QED
    BY <2>2, <2>3, <2>4 DEF Inv
<1> QED
  BY <1>4, <1>5, <1>6

\* A call leaves the line, or the slot it has.
LEMMA TimeoutInv ==
  ASSUME RequestAssumption, Inv, NEW c \in Calls, Timeout(c)
  PROVE  Inv'
<1>1. /\ calls \in [Calls -> Call] /\ slotWaiters \in Seq(Calls) /\ shared' \in Reads \cup {NoCall}
      /\ connected' \in BOOLEAN /\ calls[c].phase \in {"sent", "waiting"}
      /\ UNCHANGED <<connected, running, responses, applied>>
  BY Types DEF Timeout, Timed, Forgotten
<1> DEFINE t == Ended(calls, c, "failed", {})
<1>2. t \in [Calls -> Call] /\ t[c].phase = "failed" /\ Apart(calls, t, c)
  BY <1>1, EndedFacts DEF Over
<1>3. CASE calls[c].phase = "sent"
  <2>1. AdmitWaiters(t)
    BY <1>3 DEF Timeout
  <2> HIDE DEF t
  <2> QED
    BY <1>1, <1>2, <1>3, <2>1, AdmitWaitersInv
<1>4. CASE calls[c].phase = "waiting"
  <2>1. calls' = t /\ LeaveLine(c) /\ requests' = requests
    BY <1>4 DEF Timeout
  <2> HIDE DEF t
  <2> PICK n \in 1 .. Len(slotWaiters) : slotWaiters[n] = c /\ slotWaiters' = Spliced(slotWaiters, n)
    BY <2>1 DEF LeaveLine
  <2>2. /\ Len(slotWaiters) \in Nat /\ n \in Nat \ {0} /\ slotWaiters' \in Seq(Calls)
        /\ Len(slotWaiters') = Len(slotWaiters) - 1
        /\ \A i \in 1 .. Len(slotWaiters') : slotWaiters'[i] = IF i < n THEN slotWaiters[i] ELSE slotWaiters[i + 1]
    <3>1. /\ Spliced(slotWaiters, n) \in Seq(Calls) /\ Len(Spliced(slotWaiters, n)) = Len(slotWaiters) - 1
          /\ \A i \in 1 .. Len(slotWaiters) - 1 :
                Spliced(slotWaiters, n)[i] = IF i < n THEN slotWaiters[i] ELSE slotWaiters[i + 1]
      BY <1>1, SplicedFacts
    <3>2. Len(slotWaiters) \in Nat /\ n \in Nat \ {0}
      BY <1>1
    <3> QED
      BY <3>1, <3>2
  <2>3. \A i \in 1 .. Len(slotWaiters) : slotWaiters[i] \in Calls /\ calls[slotWaiters[i]].phase = "waiting"
                                         /\ (slotWaiters[i] = c => i = n)
    BY <1>1 DEF Inv, InLine
  <2>4. \A d \in Calls : /\ calls'[d].phase = "waiting" => d # c /\ calls[d].phase = "waiting"
                         /\ calls[d].phase = "waiting" /\ d # c => calls'[d].phase = "waiting"
                         /\ calls'[d].phase = "joined" => d \in Reads
                         /\ calls'[d].phase = "sent" <=> calls[d].phase = "sent"
    BY <1>2, <1>4, <2>1 DEF Apart, Over, Inv, Typed
  <2>5. Typed'
    BY <1>1, <1>2, <2>1, <2>2, <2>4, SMTT(30) DEF Inv, Typed, TypeOK, Call
  <2>6. InLine'
    <3>1. \A i \in 1 .. Len(slotWaiters') : calls'[slotWaiters'[i]].phase = "waiting"
      <4> SUFFICES ASSUME NEW i \in 1 .. Len(slotWaiters')
                   PROVE  calls'[slotWaiters'[i]].phase = "waiting"
        OBVIOUS
      <4>1. CASE i < n
        <5>1. i \in 1 .. Len(slotWaiters) /\ i # n /\ slotWaiters'[i] = slotWaiters[i]
          BY <2>2, <4>1
        <5> QED
          BY <2>3, <2>4, <5>1
      <4>2. CASE ~(i < n)
        <5>1. i + 1 \in 1 .. Len(slotWaiters) /\ i + 1 # n /\ slotWaiters'[i] = slotWaiters[i + 1]
          BY <2>2, <4>2
        <5> QED
          BY <2>3, <2>4, <5>1
      <4> QED
        BY <4>1, <4>2
    <3>2. \A d \in Calls : calls'[d].phase = "waiting" => \E i \in 1 .. Len(slotWaiters') : slotWaiters'[i] = d
      <4> SUFFICES ASSUME NEW d \in Calls, calls'[d].phase = "waiting"
                   PROVE  \E i \in 1 .. Len(slotWaiters') : slotWaiters'[i] = d
        OBVIOUS
      <4>1. PICK k \in 1 .. Len(slotWaiters) : slotWaiters[k] = d
        BY <2>4 DEF Inv, InLine
      <4>2. k # n
        BY <2>4, <4>1
      <4>3. CASE k < n
        <5>1. k \in 1 .. Len(slotWaiters') /\ slotWaiters'[k] = slotWaiters[k]
          BY <2>2, <4>3
        <5> QED
          BY <4>1, <5>1
      <4>4. CASE ~(k < n)
        <5>1. k - 1 \in 1 .. Len(slotWaiters') /\ ~(k - 1 < n) /\ k - 1 + 1 = k
          BY <2>2, <4>2, <4>4
        <5>2. slotWaiters'[k - 1] = slotWaiters[k]
          BY <2>2, <5>1
        <5> QED
          BY <4>1, <5>1, <5>2
      <4> QED
        BY <4>3, <4>4
    <3>3. \A i, j \in 1 .. Len(slotWaiters') : slotWaiters'[i] = slotWaiters'[j] => i = j
      <4> SUFFICES ASSUME NEW i \in 1 .. Len(slotWaiters'), NEW j \in 1 .. Len(slotWaiters'),
                          slotWaiters'[i] = slotWaiters'[j]
                   PROVE  i = j
        OBVIOUS
      <4> DEFINE k(x) == IF x < n THEN x ELSE x + 1
      <4>1. \A x \in 1 .. Len(slotWaiters') : k(x) \in 1 .. Len(slotWaiters) /\ slotWaiters'[x] = slotWaiters[k(x)]
        BY <2>2
      <4>2. k(i) = k(j) => i = j
        BY <2>2
      <4> HIDE DEF k
      <4>3. k(i) = k(j)
        BY <4>1 DEF Inv, InLine
      <4> QED
        BY <4>2, <4>3
    <3> QED
      BY <3>1, <3>2, <3>3 DEF InLine
  <2>7. SlotsUsed'
    <3>1. Sent(calls') = Sent(calls)
      BY <2>4, SameSent
    <3>2. slotWaiters # <<>>
      BY <2>2
    <3> QED
      BY <3>1, <3>2 DEF Inv, SlotsUsed
  <2>8. Carried'
    <3>1. \A d \in Changes : d \in Calls /\ calls[d].phase # "joined"
      BY DEF Inv, Typed, Calls, RequestAssumption
    <3>2. \A d \in Changes : d = c \/ calls'[d].phase = calls[d].phase
      BY <1>2, <2>1, <3>1 DEF Apart
    <3>3. \A d \in Changes : ToldOf(d)' = ToldOf(d)
      BY <1>1 DEF ToldOf
    <3>4. \A d \in Changes : AskedFor(d) # {} \/ RunningFor(d) # {} \/ ToldOf(d)' # {}
                               => calls'[d].phase \in {"sent", "failed"}
      BY <1>2, <2>1, <3>2, <3>3 DEF Inv, Carried, Once
    <3>5. \A d \in Changes : calls'[d].phase \in {"idle", "waiting", "backoff", "refused"} => applied[d] = 0
      BY <1>2, <2>1, <3>2 DEF Inv, Carried, Unapplied
    <3>6. 0 \in Nat
      OBVIOUS
    <3> QED
      BY <1>1, <2>1, <3>4, <3>5, <3>6, ClientKeeps
  <2> QED
    BY <2>5, <2>6, <2>7, <2>8 DEF Inv
<1> QED
  BY <1>1, <1>3, <1>4

\* The connection is lost.
LEMMA DisconnectInv ==
  ASSUME RequestAssumption, Inv, Disconnect
  PROVE  Inv'
<1>1. /\ calls \in [Calls -> Call] /\ shared \in Reads \cup {NoCall}
      /\ connected' = FALSE /\ slotWaiters' = <<>> /\ requests' = <<>> /\ responses' = <<>>
      /\ running' = running /\ applied' = applied /\ shared' \in Reads \cup {NoCall}
  BY Types DEF Disconnect
<1>2. \A d \in Calls : [calls[d] EXCEPT !.phase = "failed"] \in Call
                       /\ [calls[d] EXCEPT !.phase = "failed"].phase = "failed"
  BY <1>1 DEF Call, Phases
<1>3. /\ calls' \in [Calls -> Call]
      /\ \A d \in Calls : /\ calls'[d].phase \in {calls[d].phase, "failed"}
                          /\ calls[d].phase \in {"sent", "waiting"} => calls'[d].phase = "failed"
  BY <1>1, <1>2 DEF Disconnect
<1>4. Typed'
  <2>1. \A d \in Calls : calls'[d].phase = "joined" => d \in Reads
    BY <1>3 DEF Inv, Typed
  <2>2. TypeOK'
    <3>1. connected' \in BOOLEAN
      BY <1>1, Zenon
    <3>2. applied' \in [Changes -> Nat] /\ \A i \in 1 .. Len(slotWaiters') : slotWaiters'[i] \in Calls
      BY <1>1, Types
    <3> QED
      BY <1>1, <1>3, <3>1, <3>2 DEF TypeOK, Call
  <2>3. /\ slotWaiters' \in Seq(Calls) /\ requests' \in Seq(Calls \X Nat) /\ responses' \in Seq(Answer)
        /\ running' \in SUBSET Request
    BY <1>1, Types
  <2> QED
    BY <2>1, <2>2, <2>3 DEF Typed
<1>5. InLine'
  BY <1>1, <1>3 DEF InLine
<1>6. SlotsUsed'
  <2>1. Sent(calls') = {}
    BY <1>3 DEF Sent
  <2> QED
    BY <1>1, <2>1, FS_EmptySet DEF SlotsUsed, RequestAssumption
<1>7. Carried'
  <2> SUFFICES ASSUME NEW d \in Changes
               PROVE  Once(d)' /\ Unapplied(d)'
    BY DEF Carried
  <2>1. AskedFor(d)' = {} /\ RunningFor(d)' = RunningFor(d) /\ ToldOf(d)' = {}
    BY <1>1 DEF AskedFor, RunningFor, ToldOf
  <2>2. d \in Calls /\ Once(d) /\ Unapplied(d)
    BY DEF Inv, Carried, Calls
  <2> QED
    BY <1>1, <1>3, <2>1, <2>2 DEF Once, Unapplied
<1> QED
  BY <1>4, <1>5, <1>6, <1>7 DEF Inv
-----------------------------------------------------------------------------
(* The steps of the server.                                                  *)

\* The steps of the server leave the client alone.
LEMMA ClientRests ==
  ASSUME RequestAssumption, Inv, UNCHANGED <<calls, shared, slotWaiters, connected>>,
         requests' \in Seq(Calls \X Nat), responses' \in Seq(Answer), running' \in SUBSET Request,
         applied' \in [Changes -> Nat], Carried'
  PROVE  Inv'
<1>1. Typed'
  BY DEF Inv, Typed, TypeOK
<1>2. InLine' /\ SlotsUsed'
  BY DEF Inv, InLine, SlotsUsed
<1> QED
  BY <1>1, <1>2 DEF Inv

\* What the server writes is appended.
LEMMA Told ==
  ASSUME responses \in Seq(Answer), NEW a \in Answer, responses' = Append(responses, a), NEW c
  PROVE  /\ a.call # c => ToldOf(c)' = ToldOf(c)
         /\ ToldOf(c) = {} => \A i \in ToldOf(c)' : i = Len(responses) + 1 /\ responses'[i] = a
         /\ \A i \in ToldOf(c) : responses'[i] = responses[i]
<1>1. /\ Len(responses) \in Nat /\ Len(responses') = Len(responses) + 1
      /\ responses'[Len(responses) + 1] = a
      /\ \A i \in 1 .. Len(responses) : responses'[i] = responses[i]
      /\ \A i \in 1 .. Len(responses) + 1 : i \in 1 .. Len(responses) \/ i = Len(responses) + 1
  BY AppendFacts
<1>2. ASSUME a.call # c, NEW i
      PROVE  i \in ToldOf(c)' <=> i \in ToldOf(c)
  <2>1. CASE i \in 1 .. Len(responses)
    <3>1. i \in 1 .. Len(responses') /\ responses'[i] = responses[i]
      BY <1>1, <2>1
    <3> QED
      BY <2>1, <3>1 DEF ToldOf
  <2>2. CASE i \notin 1 .. Len(responses)
    BY <1>1, <1>2, <2>2 DEF ToldOf
  <2> QED
    BY <2>1, <2>2
<1>3. ASSUME ToldOf(c) = {}, NEW i \in ToldOf(c)'
      PROVE  i = Len(responses) + 1 /\ responses'[i] = a
  <2>1. i \notin 1 .. Len(responses)
    BY <1>1, <1>3 DEF ToldOf
  <2> QED
    BY <1>1, <2>1 DEF ToldOf
<1>4. \A i \in ToldOf(c) : responses'[i] = responses[i]
  BY <1>1 DEF ToldOf
<1>5. a.call # c => ToldOf(c)' = ToldOf(c)
  BY <1>2
<1> QED
  BY <1>3, <1>4, <1>5

\* The server runs a request or refuses it.
LEMMA AdmitInv ==
  ASSUME RequestAssumption, Inv, Admit
  PROVE  Inv'
<1>1. /\ requests # <<>> /\ requests' = Tail(requests) /\ running' = Admitted(Head(requests))
      /\ UNCHANGED <<calls, shared, slotWaiters, connected, applied>>
      /\ requests \in Seq(Calls \X Nat) /\ responses \in Seq(Answer) /\ running \in SUBSET Request
      /\ applied \in [Changes -> Nat]
  BY Types DEF Admit
<1> PICK r \in Calls \X Nat : r = Head(requests)
  BY <1>1, TailFacts
<1>2. r = requests[1] /\ 1 \in 1 .. Len(requests) /\ requests' \in Seq(Calls \X Nat) /\ r[1] \in Calls /\ r[2] \in Nat
  BY <1>1, TailFacts
<1>3. \A d : \A i \in AskedFor(d)' : i \in Nat \ {0} /\ i + 1 \in AskedFor(d)
  BY <1>1, TailFacts DEF AskedFor
<1>4. \A d \in Changes : \A i, j \in AskedFor(d)' : i = j
  <2> SUFFICES ASSUME NEW d \in Changes, NEW i \in AskedFor(d)', NEW j \in AskedFor(d)'
               PROVE  i = j
    OBVIOUS
  <2>1. i + 1 = j + 1 /\ i \in Nat /\ j \in Nat
    BY <1>3 DEF Inv, Carried, Once
  <2> QED
    BY <2>1
<1>5. \A d \in Changes : AskedFor(d)' # {} => AskedFor(d) # {} /\ r[1] # d
  <2> SUFFICES ASSUME NEW d \in Changes, NEW i \in AskedFor(d)'
               PROVE  AskedFor(d) # {} /\ r[1] # d
    OBVIOUS
  <2>1. i + 1 \in AskedFor(d) /\ i + 1 # 1
    BY <1>3
  <2>2. r[1] = d => 1 \in AskedFor(d)
    BY <1>2 DEF AskedFor
  <2> QED
    BY <2>1, <2>2 DEF Inv, Carried, Once
<1>6. r[1] \in Changes => AskedFor(r[1]) # {}
  BY <1>2 DEF AskedFor
<1>7. CASE Cardinality(running) >= Slots
  <2> DEFINE a == Response(r, FALSE, {})
  <2>1. running' = running /\ responses' = Append(responses, a)
    BY <1>1, <1>7 DEF Admit, Admitted
  <2>2. a \in Answer /\ a.call = r[1] /\ ~a.ok
    BY <1>2 DEF Response, Answer
  <2> HIDE DEF a
  <2>3. responses' \in Seq(Answer)
    BY <1>1, <2>1, <2>2
  <2>4. Carried'
    <3> SUFFICES ASSUME NEW d \in Changes
                 PROVE  Once(d)' /\ Unapplied(d)'
      BY DEF Carried
    <3>1. Once(d) /\ Unapplied(d) /\ RunningFor(d)' = RunningFor(d)
      BY <2>1 DEF Inv, Carried, RunningFor
    <3>2. CASE r[1] = d
      <4>1. AskedFor(d) # {} /\ AskedFor(d)' = {} /\ RunningFor(d) = {} /\ ToldOf(d) = {} /\ applied[d] = 0
        BY <1>5, <1>6, <3>1, <3>2 DEF Once, Unapplied
      <4>2. \A i \in ToldOf(d)' : i = Len(responses) + 1 /\ responses'[i] = a
        BY <1>1, <2>1, <2>2, <4>1, Told
      <4> QED
        BY <1>1, <3>1, <4>1, <4>2 DEF Once, Unapplied
    <3>3. CASE r[1] # d
      <4>1. ToldOf(d)' = ToldOf(d) /\ \A i \in ToldOf(d) : responses'[i] = responses[i]
        BY <1>1, <2>1, <2>2, <3>3, Told
      <4> QED
        BY <1>1, <1>4, <1>5, <3>1, <4>1, SMTT(30) DEF Once, Unapplied
    <3> QED
      BY <3>2, <3>3
  <2> QED
    BY <1>1, <1>2, <2>1, <2>3, <2>4, ClientRests
<1>8. CASE ~(Cardinality(running) >= Slots)
  <2> DEFINE e == [request |-> r, stage |-> "admitted", answer |-> {}]
  <2>1. running' = running \cup {e} /\ responses' = responses
    BY <1>1, <1>8 DEF Admit, Admitted
  <2>2. e \in Request /\ e.request = r /\ e.stage = "admitted"
    BY DEF Request
  <2> HIDE DEF e
  <2>3. running' \in SUBSET Request
    BY <1>1, <2>1, <2>2
  <2>4. Carried'
    <3> SUFFICES ASSUME NEW d \in Changes
                 PROVE  Once(d)' /\ Unapplied(d)'
      BY DEF Carried
    <3>1. Once(d) /\ Unapplied(d) /\ ToldOf(d)' = ToldOf(d)
      BY <2>1 DEF Inv, Carried, ToldOf
    <3>2. CASE r[1] = d
      <4>1. AskedFor(d) # {} /\ AskedFor(d)' = {} /\ RunningFor(d) = {} /\ ToldOf(d) = {} /\ applied[d] = 0
        BY <1>5, <1>6, <3>1, <3>2 DEF Once, Unapplied
      <4>2. RunningFor(d)' = {e}
        BY <2>1, <2>2, <3>2, <4>1 DEF RunningFor
      <4> QED
        BY <1>1, <2>1, <2>2, <3>1, <4>1, <4>2 DEF Once, Unapplied
    <3>3. CASE r[1] # d
      <4>1. RunningFor(d)' = RunningFor(d)
        BY <2>1, <2>2, <3>3 DEF RunningFor
      <4> QED
        BY <1>1, <1>4, <1>5, <2>1, <3>1, <4>1 DEF Once, Unapplied
    <3> QED
      BY <3>2, <3>3
  <2> QED
    BY <1>1, <1>2, <2>1, <2>3, <2>4, ClientRests
<1> QED
  BY <1>7, <1>8

\* A handler does its work.
LEMMA ExecuteInv ==
  ASSUME RequestAssumption, Inv, NEW e \in running, Execute(e)
  PROVE  Inv'
<1> DEFINE c == e.request[1]
           f == [e EXCEPT !.stage = "done", !.answer = IF c \in Reads THEN State ELSE {}]
<1>1. /\ e.stage = "admitted" /\ applied' = (IF c \in Changes THEN [applied EXCEPT ![c] = @ + 1] ELSE applied)
      /\ running' = (running \ {e}) \cup {f}
      /\ UNCHANGED <<calls, shared, slotWaiters, connected, requests, responses>>
  BY DEF Execute
<1>2. /\ requests \in Seq(Calls \X Nat) /\ responses \in Seq(Answer) /\ running \in SUBSET Request
      /\ applied \in [Changes -> Nat] /\ e \in Request /\ c \in Calls
  BY Types DEF Request
<1>3. f \in Request /\ f.request = e.request /\ f.stage = "done"
  <2>1. (IF c \in Reads THEN State ELSE {}) \in SUBSET Changes
    BY DEF State
  <2> HIDE DEF c
  <2> QED
    BY <1>2, <2>1 DEF Request
<1> HIDE DEF f
<1>4. applied' \in [Changes -> Nat] /\ \A d \in Changes : applied'[d] = IF d = c THEN applied[d] + 1 ELSE applied[d]
  <2> HIDE DEF c
  <2> QED
    BY <1>1, <1>2
<1>5. Carried'
  <2> SUFFICES ASSUME NEW d \in Changes
               PROVE  Once(d)' /\ Unapplied(d)'
    BY DEF Carried
  <2>1. Once(d) /\ Unapplied(d) /\ AskedFor(d)' = AskedFor(d) /\ ToldOf(d)' = ToldOf(d)
    BY <1>1 DEF Inv, Carried, AskedFor, ToldOf
  <2>2. CASE c = d
    <3>1. /\ e \in RunningFor(d) /\ AskedFor(d) = {} /\ ToldOf(d) = {} /\ applied[d] = 0
          /\ calls[d].phase \in {"sent", "failed"} /\ RunningFor(d) = {e}
      BY <1>1, <2>1, <2>2 DEF RunningFor, Once, Unapplied
    <3>2. RunningFor(d)' = {f}
      BY <1>1, <1>3, <2>2, <3>1 DEF RunningFor
    <3>3. applied'[d] = 1
      BY <1>4, <2>2, <3>1
    <3> QED
      BY <1>1, <1>3, <2>1, <3>1, <3>2, <3>3 DEF Once, Unapplied
  <2>3. CASE c # d
    <3>1. RunningFor(d)' = RunningFor(d)
      BY <1>1, <1>3, <2>3 DEF RunningFor
    <3> QED
      BY <1>1, <1>4, <2>1, <2>3, <3>1 DEF Once, Unapplied
  <2> QED
    BY <2>2, <2>3
<1> QED
  BY <1>1, <1>2, <1>3, <1>4, <1>5, ClientRests

\* Its answer is written.
LEMMA RespondInv ==
  ASSUME RequestAssumption, Inv, NEW e \in running, Respond(e)
  PROVE  Inv'
<1> DEFINE a == Response(e.request, TRUE, e.answer)
<1>1. /\ running' = running \ {e} /\ responses' \in {responses, Append(responses, a)}
      /\ UNCHANGED <<calls, shared, slotWaiters, connected, requests, applied>>
  BY Zenon DEF Respond
<1>2. /\ requests \in Seq(Calls \X Nat) /\ responses \in Seq(Answer) /\ running \in SUBSET Request
      /\ applied \in [Changes -> Nat] /\ e \in Request
  BY Types
<1>3. a \in Answer /\ a.call = e.request[1] /\ a.ok
  BY <1>2 DEF Response, Answer, Request
<1> HIDE DEF a
<1>4. responses' \in Seq(Answer)
  <2>1. Append(responses, a) \in Seq(Answer)
    BY <1>2, <1>3, AppendFacts
  <2> QED
    BY <1>1, <1>2, <2>1
<1>5. Carried'
  <2> SUFFICES ASSUME NEW d \in Changes
               PROVE  Once(d)' /\ Unapplied(d)'
    BY DEF Carried
  <2>1. Once(d) /\ Unapplied(d) /\ AskedFor(d)' = AskedFor(d) /\ RunningFor(d)' \in SUBSET RunningFor(d)
    BY <1>1 DEF Inv, Carried, AskedFor, RunningFor
  <2>2. CASE responses' = responses
    <3>1. ToldOf(d)' = ToldOf(d)
      BY <2>2 DEF ToldOf
    <3> QED
      BY <1>1, <2>1, <2>2, <3>1 DEF Once, Unapplied
  <2>3. CASE responses' = Append(responses, a) /\ a.call # d
    <3>1. ToldOf(d)' = ToldOf(d) /\ \A i \in ToldOf(d) : responses'[i] = responses[i]
      BY <1>2, <1>3, <2>3, Told
    <3> QED
      BY <1>1, <2>1, <3>1 DEF Once, Unapplied
  <2>4. CASE responses' = Append(responses, a) /\ a.call = d
    <3>1. /\ e \in RunningFor(d) /\ AskedFor(d) = {} /\ ToldOf(d) = {} /\ RunningFor(d) = {e}
          /\ calls[d].phase \in {"sent", "failed"}
      BY <1>3, <2>1, <2>4 DEF RunningFor, Once
    <3>2. RunningFor(d)' = {}
      BY <1>1, <3>1 DEF RunningFor
    <3>3. \A i \in ToldOf(d)' : i = Len(responses) + 1 /\ responses'[i] = a
      BY <1>2, <1>3, <2>4, <3>1, Told, SMTT(30)
    <3> QED
      BY <1>1, <1>3, <2>1, <3>1, <3>2, <3>3 DEF Once, Unapplied
  <2> QED
    BY <1>1, <2>2, <2>3, <2>4
<1> QED
  BY <1>1, <1>2, <1>4, <1>5, ClientRests

-----------------------------------------------------------------------------
(* The invariant, and what follows from it.                                  *)

\* Nothing is asked at first.
LEMMA InitInv ==
  ASSUME RequestAssumption, Init
  PROVE  Inv
<1>1. NewCall \in Call /\ NewCall.phase = "idle"
  BY DEF NewCall, Call, Phases, RequestAssumption
<1>2. calls \in [Calls -> Call] /\ \A c \in Calls : calls[c].phase = "idle"
  BY <1>1 DEF Init
<1>3. Typed
  <2>1. shared \in Reads \cup {NoCall} /\ running \in SUBSET Request /\ applied \in [Changes -> Nat]
    BY DEF Init
  <2>2. connected \in BOOLEAN
    BY Zenon DEF Init
  <2>3. slotWaiters \in Seq(Calls) /\ requests \in Seq(Calls \X Nat) /\ responses \in Seq(Answer)
    BY DEF Init
  <2>4. \A i \in 1 .. Len(slotWaiters) : slotWaiters[i] \in Calls
    BY DEF Init
  <2> QED
    BY <1>2, <2>1, <2>2, <2>3, <2>4 DEF Typed, TypeOK, Call
<1>4. InLine
  BY <1>2 DEF Init, InLine
<1>5. SlotsUsed
  <2>1. Sent(calls) = {}
    BY <1>2 DEF Sent
  <2>2. slotWaiters = <<>>
    BY DEF Init
  <2> QED
    BY <2>1, <2>2, FS_EmptySet DEF SlotsUsed, RequestAssumption
<1>6. Carried
  <2>1. \A c \in Changes : c \in Calls /\ AskedFor(c) = {} /\ RunningFor(c) = {} /\ ToldOf(c) = {} /\ applied[c] = 0
    BY DEF Init, AskedFor, RunningFor, ToldOf, Calls
  <2> QED
    BY <1>2, <2>1 DEF Carried, Once, Unapplied
<1> QED
  BY <1>3, <1>4, <1>5, <1>6 DEF Inv

\* A step keeps the invariant.
LEMMA StepInv ==
  ASSUME RequestAssumption, Inv, [Next]_vars
  PROVE  Inv'
<1>1. CASE UNCHANGED vars
  <2>1. UNCHANGED <<calls, shared, slotWaiters, connected, requests, running, responses, applied>>
    BY <1>1 DEF vars
  <2>2. Carried'
    <3>1. \A c \in Changes : AskedFor(c)' = AskedFor(c) /\ RunningFor(c)' = RunningFor(c) /\ ToldOf(c)' = ToldOf(c)
      BY <2>1 DEF AskedFor, RunningFor, ToldOf
    <3> QED
      BY <2>1, <3>1 DEF Inv, Carried, Once, Unapplied
  <2> QED
    BY <2>1, <2>2, Types, ClientRests
<1>2. CASE Next
  BY <1>2, AskChangeInv, AskReadInv, RetryInv, TimeoutInv, ExecuteInv, RespondInv, AdmitInv,
     ResponseArrivesInv, DisconnectInv DEF Next
<1> QED
  BY <1>1, <1>2

\* The invariant holds in every state.
LEMMA AlwaysInv == Spec => []Inv
<1>1. Init => Inv
  BY RequestAssumption, InitInv
<1>2. Inv /\ [Next]_vars => Inv'
  BY RequestAssumption, StepInv
<1> QED
  BY <1>1, <1>2, PTL DEF Spec

\* The variables of client.ts and server.ts keep their types: a shared read is always a
\* read, and only calls stand in line.
THEOREM TypeCorrect == Spec => []TypeOK
<1>1. Inv => TypeOK
  BY DEF Inv, Typed
<1> QED
  BY <1>1, AlwaysInv, PTL

\* The retries of requestWithOverloadRetry never run a change twice, and a caller that is
\* told of an overload knows that its change was not applied.
THEOREM ChangesAppliedOnce == Spec => []RetrySafe
<1>1. Inv => RetrySafe
  BY DEF Inv, Carried, Unapplied, RetrySafe
<1> QED
  BY <1>1, AlwaysInv, PTL

\* Each end of requestOnce hands its slot on: calls wait only behind a full set of slots.
THEOREM NoSlotIdle == Spec => []NoIdleSlot
<1>1. Inv => NoIdleSlot
  BY DEF Inv, InLine, SlotsUsed, NoIdleSlot
<1> QED
  BY <1>1, AlwaysInv, PTL
=============================================================================
