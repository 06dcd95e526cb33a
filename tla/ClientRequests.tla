--------------------------- MODULE ClientRequests ---------------------------
(***************************************************************************)
(* The request layer between a window and the daemon: the slots, waiting   *)
(* calls, timeouts, overload retries and shared reads of                   *)
(* src/mms/protocol/client.ts, and the admission of requests by            *)
(* protocol/server.ts.  Handlers run concurrently and answer in any order, *)
(* late or never.                                                          *)
(***************************************************************************)
EXTENDS Naturals, Sequences, FiniteSets

CONSTANTS
    Reads,          \* calls of one and the same shared read
    Changes,        \* calls that change what it returns
    NoCall,
    Slots,          \* MMS_PROTOCOL_MAX_PENDING_REQUESTS, of the client and of the server
    MaxWaiting,     \* MMS_CLIENT_MAX_WAITING_REQUESTS
    Retries         \* Len(OVERLOAD_RETRY_DELAYS_MS)

ASSUME RequestAssumption ==
    /\ Reads \cap Changes = {} /\ NoCall \notin Reads \cup Changes
    /\ IsFiniteSet(Reads) /\ IsFiniteSet(Changes)
    /\ Slots \in Nat \ {0} /\ MaxWaiting \in Nat /\ Retries \in Nat

Calls == Reads \cup Changes

VARIABLES
    calls,          \* [Calls -> record]: what the caller sees
    shared,         \* sharedReads of the one key: the call whose answer is shared
    slotWaiters,    \* calls waiting for a slot
    connected,
    requests,       \* frames to the server: <<call, attempt>>
    running,        \* requests the server has admitted: stage and what was read
    responses,      \* frames to the client
    applied         \* history: how often a change was applied

vars == <<calls, shared, slotWaiters, connected, requests, running, responses, applied>>

\* asked is history: the changes that had been answered when the call was made.
NewCall == [phase |-> "idle", attempt |-> 0, owner |-> NoCall, answer |-> {}, asked |-> {}]

Init ==
    /\ calls = [c \in Calls |-> NewCall]
    /\ shared = NoCall
    /\ slotWaiters = <<>>
    /\ connected = TRUE
    /\ requests = <<>> /\ running = {} /\ responses = <<>>
    /\ applied = [c \in Changes |-> 0]

State == {c \in Changes : applied[c] > 0}
Answered == {c \in Changes : calls[c].phase = "answered"}
Sent(t) == {c \in Calls : t[c].phase = "sent"}

-----------------------------------------------------------------------------
(* The client.                                                               *)

\* The call and those that share its answer come to the same end.
Ended(t, c, phase, answer) ==
    [d \in Calls |-> IF d = c \/ (t[d].phase = "joined" /\ t[d].owner = c)
                     THEN [t[d] EXCEPT !.phase = phase, !.answer = answer] ELSE t[d]]

\* The sharing of a read ends with it.
Forgotten(c) == IF shared = c THEN NoCall ELSE shared

\* A refusal for overload is retried after a delay, and ends the call after the last.
Refused(t, c) ==
    IF t[c].attempt < Retries
    THEN [t EXCEPT ![c].phase = "backoff", ![c].attempt = @ + 1]
    ELSE Ended(t, c, "refused", {})

StillShared(c) == IF calls[c].attempt < Retries THEN shared ELSE Forgotten(c)

\* requestOnce: into a free slot, behind the calls that wait for one, or refused.
RequestOnce(t, c) ==
    LET full == Cardinality(Sent(t)) >= Slots \/ slotWaiters # <<>> IN
    IF ~full
    THEN /\ calls' = [t EXCEPT ![c].phase = "sent"]
         /\ requests' = Append(requests, <<c, t[c].attempt>>)
         /\ UNCHANGED slotWaiters
    ELSE IF Len(slotWaiters) < MaxWaiting
    THEN /\ calls' = [t EXCEPT ![c].phase = "waiting"]
         /\ slotWaiters' = Append(slotWaiters, c)
         /\ UNCHANGED requests
    ELSE /\ calls' = Refused(t, c)
         /\ UNCHANGED <<slotWaiters, requests>>

Asked(c) == [calls EXCEPT ![c].asked = Answered]

\* request: a change ends the sharing of the reads in flight.
AskChange(c) ==
    /\ calls[c].phase = "idle" /\ connected
    /\ shared' = NoCall
    /\ RequestOnce(Asked(c), c)
    /\ UNCHANGED <<connected, running, responses, applied>>

\* A read takes the answer of the one in flight, if there is one.
AskRead(c) ==
    /\ calls[c].phase = "idle" /\ connected
    /\ IF shared # NoCall
       THEN /\ calls' = [Asked(c) EXCEPT ![c].phase = "joined", ![c].owner = shared]
            /\ UNCHANGED <<shared, slotWaiters, requests>>
       ELSE /\ RequestOnce(Asked(c), c)
            /\ shared' = IF calls'[c].phase = "refused" THEN NoCall ELSE c
    /\ UNCHANGED <<connected, running, responses, applied>>

\* The delay of a retry is over.
Retry(c) ==
    /\ calls[c].phase = "backoff"
    /\ IF connected
       THEN /\ RequestOnce(calls, c)
            /\ shared' = IF calls'[c].phase = "refused" THEN Forgotten(c) ELSE shared
       ELSE /\ calls' = Ended(calls, c, "failed", {})
            /\ shared' = Forgotten(c)
            /\ UNCHANGED <<slotWaiters, requests>>
    /\ UNCHANGED <<connected, running, responses, applied>>

\* Bug: nobody looks at the line.
BugAdmitWaiters(t) == calls' = t /\ UNCHANGED <<requests, slotWaiters>>

\* admitWaiters: the oldest waiting call takes the slot that t has freed.
AdmitWaiters(t) ==
    IF slotWaiters # <<>> /\ Cardinality(Sent(t)) < Slots
    THEN LET w == Head(slotWaiters) IN
         /\ calls' = [t EXCEPT ![w].phase = "sent"]
         /\ requests' = Append(requests, <<w, t[w].attempt>>)
         /\ slotWaiters' = Tail(slotWaiters)
    ELSE calls' = t /\ UNCHANGED <<requests, slotWaiters>>

\* handleResponse; an answer to an attempt that is over is dropped.
ResponseArrives ==
    /\ responses # <<>>
    /\ responses' = Tail(responses)
    /\ LET r == Head(responses)
           c == r.call
       IN IF calls[c].phase = "sent" /\ calls[c].attempt = r.attempt
          THEN IF r.ok
               THEN /\ AdmitWaiters(Ended(calls, c, "answered", r.answer))
                    /\ shared' = Forgotten(c)
               ELSE /\ AdmitWaiters(Refused(calls, c))
                    /\ shared' = StillShared(c)
          ELSE UNCHANGED <<calls, shared, slotWaiters, requests>>
    /\ UNCHANGED <<connected, running, applied>>

\* Bug: the timer is cleared when the call gets its slot.
BugTimed(c) == calls[c].phase = "waiting"

\* The timer counts from the call, waiting included.
Timed(c) == calls[c].phase \in {"sent", "waiting"}

Spliced(s, n) == [i \in 1 .. Len(s) - 1 |-> IF i < n THEN s[i] ELSE s[i + 1]]
LeaveLine(c) ==
    \E n \in 1 .. Len(slotWaiters) : slotWaiters[n] = c /\ slotWaiters' = Spliced(slotWaiters, n)

\* A timeout frees the client's slot or its place in the line; the server goes on.
Timeout(c) ==
    /\ Timed(c)
    /\ shared' = Forgotten(c)
    /\ IF calls[c].phase = "sent"
       THEN AdmitWaiters(Ended(calls, c, "failed", {}))
       ELSE /\ calls' = Ended(calls, c, "failed", {})
            /\ LeaveLine(c)
            /\ UNCHANGED requests
    /\ UNCHANGED <<connected, running, responses, applied>>

\* onDisconnect: what is in flight or waits fails, whether or not the server ran it.
Disconnect ==
    /\ connected
    /\ connected' = FALSE
    /\ LET Lost(d) == calls[d].phase \in {"sent", "waiting"}
       IN /\ calls' = [d \in Calls |->
                IF Lost(d) \/ (calls[d].phase = "joined" /\ Lost(calls[d].owner))
                THEN [calls[d] EXCEPT !.phase = "failed"] ELSE calls[d]]
          /\ shared' = IF shared # NoCall /\ Lost(shared) THEN NoCall ELSE shared
    /\ slotWaiters' = <<>>
    /\ requests' = <<>> /\ responses' = <<>>
    /\ UNCHANGED <<running, applied>>

-----------------------------------------------------------------------------
(* The server.                                                               *)

Response(r, ok, answer) == [call |-> r[1], attempt |-> r[2], ok |-> ok, answer |-> answer]

\* Bug: a request over the limit is refused and runs all the same.
BugAdmitted(r) == running \cup {[request |-> r, stage |-> "admitted", answer |-> {}]}

\* What is running when r was looked at.
Admitted(r) ==
    IF Cardinality(running) >= Slots THEN running
    ELSE running \cup {[request |-> r, stage |-> "admitted", answer |-> {}]}

\* admitFrame: past the limit a request is refused before it runs.
Admit ==
    /\ requests # <<>>
    /\ requests' = Tail(requests)
    /\ running' = Admitted(Head(requests))
    /\ responses' = IF Cardinality(running) >= Slots
                    THEN Append(responses, Response(Head(requests), FALSE, {})) ELSE responses
    /\ UNCHANGED <<calls, shared, slotWaiters, connected, applied>>

\* A handler does its work: a change is applied, a read reads.
Execute(e) ==
    /\ e \in running /\ e.stage = "admitted"
    /\ LET c == e.request[1] IN
       /\ applied' = IF c \in Changes THEN [applied EXCEPT ![c] = @ + 1] ELSE applied
       /\ running' = (running \ {e}) \cup
             {[e EXCEPT !.stage = "done", !.answer = IF c \in Reads THEN State ELSE {}]}
    /\ UNCHANGED <<calls, shared, slotWaiters, connected, requests, responses>>

\* Its answer is written, if the connection is still there.
Respond(e) ==
    /\ e \in running /\ e.stage = "done"
    /\ running' = running \ {e}
    /\ responses' = IF connected THEN Append(responses, Response(e.request, TRUE, e.answer)) ELSE responses
    /\ UNCHANGED <<calls, shared, slotWaiters, connected, requests, applied>>

Next ==
    \/ \E c \in Changes : AskChange(c)
    \/ \E c \in Reads : AskRead(c)
    \/ \E c \in Calls : Retry(c) \/ Timeout(c)
    \/ \E e \in running : Execute(e) \/ Respond(e)
    \/ Admit \/ ResponseArrives \/ Disconnect

Spec == Init /\ [][Next]_vars

(* Timers fire.  Nothing is assumed of the server.                          *)
FairSpec == Spec /\ \A c \in Calls : WF_vars(Retry(c)) /\ WF_vars(Timeout(c))

-----------------------------------------------------------------------------
(* Properties.                                                               *)

Phases == {"idle", "waiting", "sent", "backoff", "joined", "answered", "refused", "failed"}

\* The variables keep their types.
TypeOK ==
    /\ calls \in [Calls -> [phase : Phases, attempt : 0 .. Retries, owner : Calls \cup {NoCall},
                            answer : SUBSET Changes, asked : SUBSET Changes]]
    /\ shared \in Reads \cup {NoCall} /\ connected \in BOOLEAN
    /\ \A i \in 1 .. Len(slotWaiters) : slotWaiters[i] \in Calls
    /\ applied \in [Changes -> Nat]

\* A change is applied at most once however often its request was refused and retried,
\* and never when its caller was told that the daemon is overloaded.
RetrySafe ==
    \A c \in Changes : applied[c] <= 1 /\ (calls[c].phase = "refused" => applied[c] = 0)

\* Calls wait only while every slot is taken, and the line holds exactly the calls that
\* wait: no timeout, refusal or lost answer leaves a slot unused.
NoIdleSlot ==
    /\ slotWaiters # <<>> => Cardinality(Sent(calls)) = Slots
    /\ \A c \in Calls : calls[c].phase = "waiting"
          <=> \E i \in 1 .. Len(slotWaiters) : slotWaiters[i] = c

\* A read asked after a change was answered sees the change.
ReadSeesChange ==
    \A c \in Reads : calls[c].phase = "answered" => calls[c].asked \subseteq calls[c].answer

\* Every call comes to an end, with a daemon that answers late or never.
EveryCallEnds ==
    \A c \in Calls : calls[c].phase # "idle" ~> calls[c].phase \in {"answered", "refused", "failed"}
=============================================================================
