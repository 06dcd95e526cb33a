---------------------------- MODULE EffectOutbox ----------------------------
(***************************************************************************)
(* The durable effect outbox of the run engine, the fibres of the effect   *)
(* worker that drain it, and the daemon generations that own its leases.   *)
(*                                                                         *)
(*   src/mms/run/EffectOutbox.ts   the effects table and its transitions   *)
(*   src/mms/run/EffectWorker.ts   the fibres: claim, execute, settle      *)
(*   src/mms/run/DaemonEpoch.ts    one row per boot                        *)
(*                                                                         *)
(* Time is abstracted to what the code compares: whether available_at has  *)
(* passed (due) and whether lease_expires_at has passed (lease).  A lease  *)
(* is wall-clock time while an execution's deadline is a timer of the      *)
(* process, so a machine that sleeps can let a lease expire under an       *)
(* execution that goes on.                                                 *)
(***************************************************************************)
EXTENDS Naturals

CONSTANTS
    Threads,             \* threads that have effects
    Fibres,              \* worker fibres
    FibreGroup,          \* [Fibres -> LaneClasses]: what each fibre may claim
    EnqueueKinds,        \* kinds the engine enqueues in this instance
    DefaultMaxAttempts,  \* DEFAULT_EFFECT_MAX_ATTEMPTS
    MaxRows,             \* bound: rows of the effects table
    MaxEpoch,            \* bound: boots of the daemon
    MaxDefers            \* bound: deferrals of one row

Kinds == {"turn.start", "turn.interrupt", "turn.steer", "request.respond", "run.resume"}
LaneClasses == {"turn", "control", "replaySafe"}

ASSUME OutboxAssumption ==
    /\ Threads # {}
    /\ FibreGroup \in [Fibres -> LaneClasses]
    /\ EnqueueKinds \subseteq Kinds
    /\ DefaultMaxAttempts \in Nat \ {0}
    /\ MaxRows \in Nat
    /\ MaxEpoch \in Nat
    /\ MaxDefers \in Nat

Rows == 1 .. MaxRows
NoRow == 0

-----------------------------------------------------------------------------
(* EFFECT_KIND_SPEC: class, lane and retry budget are fixed by the kind.    *)

ReplaySafe(k) == k = "run.resume"

\* Kinds that drive a model turn or deliver user input: never retried.
OneShotKinds == {"turn.start", "turn.steer", "request.respond"}

MaxAttempts(k) == IF k \in OneShotKinds THEN 1 ELSE DefaultMaxAttempts

ControlKinds == {"turn.interrupt", "turn.steer", "request.respond"}

\* The fibre group that claims the kind (effectLaneClass).
LaneClass(k) ==
    CASE k = "turn.start"     -> "turn"
      [] k \in ControlKinds   -> "control"
      [] OTHER                -> "replaySafe"

\* The per-thread lane the kind queues in.  The title lane has no producer.
Lane(k) ==
    CASE k \in ControlKinds   -> "control"
      [] k = "run.resume"     -> "resume"
      [] OTHER                -> "thread"

-----------------------------------------------------------------------------
VARIABLES
    effects,    \* the effects table, by rowid
    fibre,      \* what each fibre executes, and which of its signals fired
    inFlight,   \* EffectWorker.running: the execution cancelInFlight aborts
    unwinding,  \* rows whose executor outlives the race that gave up on it
    worker,     \* "running", "stopping" or "stopped"
    epoch,      \* newest daemon_epochs row, 0 before the first boot
    up,         \* the daemon process is alive
    ended,      \* the newest epoch row has its ended_at
    \* history, read by the properties only
    claims,     \* how often each row was claimed
    begun       \* how often an executor got past its deferral checks

vars == <<effects, fibre, inFlight, unwinding, worker, epoch, up, ended, claims, begun>>

EffectStatus == {"absent", "pending", "running", "succeeded", "failed", "cancelled"}
Terminal == {"succeeded", "failed", "cancelled"}
NoOwner == 0

Effect == [thread : Threads, kind : Kinds, status : EffectStatus, attempts : Nat,
           due : BOOLEAN, owner : Nat, lease : BOOLEAN, defers : Nat]

\* claim: the number of the claim the fibre works for.
Execution == [row : Rows \cup {NoRow}, claim : Nat, begun : BOOLEAN,
              cancelled : BOOLEAN, lost : BOOLEAN]

Idle == [row |-> NoRow, claim |-> 0, begun |-> FALSE, cancelled |-> FALSE, lost |-> FALSE]

NoEffect == [thread |-> CHOOSE t \in Threads : TRUE, kind |-> "turn.start",
             status |-> "absent", attempts |-> 0, due |-> FALSE, owner |-> NoOwner,
             lease |-> FALSE, defers |-> 0]

Init ==
    /\ effects = [r \in Rows |-> NoEffect]
    /\ fibre = [f \in Fibres |-> Idle]
    /\ inFlight = [r \in Rows |-> {}]
    /\ unwinding = {}
    /\ worker = "stopped"
    /\ epoch = 0
    /\ up = FALSE
    /\ ended = TRUE
    /\ claims = [r \in Rows |-> 0]
    /\ begun = [r \in Rows |-> 0]

-----------------------------------------------------------------------------
(* The transitions of one row, as EffectOutbox writes them.                 *)

(* Next to some definitions stands a form of it with a plausible bug, named  *)
(* for the bug; nothing uses it but the mutation runs.                       *)

SameLane(r, q) ==
    /\ effects[r].thread = effects[q].thread
    /\ Lane(effects[r].kind) = Lane(effects[q].kind)

\* Bug: the lane looks at live leases only, not at earlier pending rows.
ClaimableOutOfOrder(r) ==
    /\ effects[r].status = "pending" /\ effects[r].due
    /\ \A q \in Rows \ {r} : SameLane(r, q) => ~(effects[q].status = "running" /\ effects[q].lease)

\* Nothing else in the lane is live: no running row with an unexpired lease and
\* no earlier pending row, even one that waits out a backoff or a deferral.
Claimable(r) ==
    /\ effects[r].status = "pending"
    /\ effects[r].due
    /\ \A q \in Rows \ {r} : SameLane(r, q) =>
          /\ ~(effects[q].status = "running" /\ effects[q].lease)
          /\ ~(effects[q].status = "pending" /\ q < r)

Claimed(e) ==
    [e EXCEPT !.status = "running", !.attempts = @ + 1, !.owner = epoch, !.lease = TRUE]

\* The compare-and-set of every settlement: still running, still this owner.
\* The owner names the daemon, not the fibre.
Holds(r) == effects[r].status = "running" /\ effects[r].owner = epoch

Succeeded(e) == [e EXCEPT !.status = "succeeded", !.lease = FALSE]

\* Bug: an attempt too many.
RetryOrFailOffByOne(e) ==
    IF e.attempts > MaxAttempts(e.kind)
    THEN [e EXCEPT !.status = "failed", !.lease = FALSE]
    ELSE [e EXCEPT !.status = "pending", !.due = FALSE, !.owner = NoOwner, !.lease = FALSE]

RetryOrFail(e) ==
    IF e.attempts >= MaxAttempts(e.kind)
    THEN [e EXCEPT !.status = "failed", !.lease = FALSE]
    ELSE [e EXCEPT !.status = "pending", !.due = FALSE, !.owner = NoOwner, !.lease = FALSE]

\* The attempt of a deferral is not counted.
Deferred(e) ==
    [e EXCEPT !.status = "pending", !.attempts = IF @ = 0 THEN 0 ELSE @ - 1,
              !.due = FALSE, !.owner = NoOwner, !.lease = FALSE, !.defers = @ + 1]

CancelRecord(e) == [e EXCEPT !.status = "cancelled", !.lease = FALSE]

-----------------------------------------------------------------------------
(* The engine's commands, while the daemon serves.                          *)

\* enqueue: the next rowid.
Enqueue(t, k) ==
    /\ up /\ worker = "running"
    /\ k \in EnqueueKinds
    /\ \E r \in Rows :
          /\ effects[r].status = "absent"
          /\ \A q \in Rows : q < r => effects[q].status # "absent"
          /\ effects' = [effects EXCEPT ![r] =
                [NoEffect EXCEPT !.thread = t, !.kind = k, !.status = "pending", !.due = TRUE]]
    /\ UNCHANGED <<fibre, inFlight, unwinding, worker, epoch, up, ended, claims, begun>>

\* Bug: the cancel only settles the row and leaves the execution alone.
AbortNothing(r) == fibre

\* cancelInFlight: aborts the local execution the running map knows.
AbortInFlight(r) ==
    [f \in Fibres |->
        IF f \in inFlight[r] THEN [fibre[f] EXCEPT !.cancelled = TRUE] ELSE fibre[f]]

\* cancelQueuedRun: a Stop or a delegation cancel ends a turn.start that is
\* pending or already claimed, without a lease check.
CancelTurn(r) ==
    /\ up /\ worker = "running"
    /\ effects[r].kind = "turn.start"
    /\ effects[r].status \in {"pending", "running"}
    /\ effects' = [effects EXCEPT ![r] = CancelRecord(@)]
    /\ fibre' = IF effects[r].status = "running" THEN AbortInFlight(r) ELSE fibre
    /\ UNCHANGED <<inFlight, unwinding, worker, epoch, up, ended, claims, begun>>

\* stopSubtree (steers), endPause and requestResume (resume timers): only a
\* pending row, and no execution to abort.
CancelPending(r) ==
    /\ up /\ worker = "running"
    /\ effects[r].kind \in {"turn.steer", "run.resume"}
    /\ effects[r].status = "pending"
    /\ effects' = [effects EXCEPT ![r] = CancelRecord(@)]
    /\ UNCHANGED <<fibre, inFlight, unwinding, worker, epoch, up, ended, claims, begun>>

-----------------------------------------------------------------------------
(* A worker fibre.                                                          *)

Executing(f) == fibre[f].row # NoRow

\* claimNext: one UPDATE over the kinds of the fibre's group.  Which lane goes
\* first (ORDER BY available_at) is left open.
Claim(f) ==
    /\ up /\ worker = "running"
    /\ ~Executing(f)
    /\ \E r \in Rows :
          /\ Claimable(r)
          /\ LaneClass(effects[r].kind) = FibreGroup[f]
          /\ effects' = [effects EXCEPT ![r] = Claimed(@)]
          /\ claims' = [claims EXCEPT ![r] = @ + 1]
          /\ fibre' = [fibre EXCEPT ![f] = [Idle EXCEPT !.row = r, !.claim = claims[r] + 1]]
          /\ inFlight' = [inFlight EXCEPT ![r] = {f}]
    /\ UNCHANGED <<unwinding, worker, epoch, up, ended, begun>>

\* The executor found its thread free and does the work.
Begin(f) ==
    /\ Executing(f) /\ ~fibre[f].begun
    /\ ~fibre[f].cancelled /\ ~fibre[f].lost /\ worker = "running"
    /\ fibre' = [fibre EXCEPT ![f].begun = TRUE]
    /\ begun' = [begun EXCEPT ![fibre[f].row] = @ + 1]
    /\ UNCHANGED <<effects, inFlight, unwinding, worker, epoch, up, ended, claims>>

\* The renew timer.  A row that is no longer this daemon's, or a write that
\* throws, loses the lease for this execution.
Renew(f) ==
    /\ Executing(f)
    /\ \/ /\ Holds(fibre[f].row)
          /\ effects' = [effects EXCEPT ![fibre[f].row].lease = TRUE]
          /\ fibre' = fibre
       \/ /\ fibre' = [fibre EXCEPT ![f].lost = TRUE]
          /\ effects' = effects
    /\ UNCHANGED <<inFlight, unwinding, worker, epoch, up, ended, claims, begun>>

\* The finally block: the execution leaves the running map, whoever is in it.
Release(f) ==
    /\ fibre' = [fibre EXCEPT ![f] = Idle]
    /\ inFlight' = [inFlight EXCEPT ![fibre[f].row] = {}]

\* No abort signal of the execution has fired.
NoSignal(f) == ~fibre[f].cancelled /\ ~fibre[f].lost /\ worker = "running"

\* The row the fibre works for, as its settlement will read it.
Row(f) == effects[fibre[f].row]

Settle(f, e) ==
    effects' = IF Holds(fibre[f].row) THEN [effects EXCEPT ![fibre[f].row] = e] ELSE effects

\* The executor resolved.
Succeed(f) ==
    /\ Executing(f) /\ fibre[f].begun /\ NoSignal(f)
    /\ Settle(f, Succeeded(Row(f)))
    /\ Release(f)
    /\ UNCHANGED <<unwinding, worker, epoch, up, ended, claims, begun>>

\* EffectDeferredError: the turn's thread is busy with another turn.
Defer(f) ==
    /\ Executing(f) /\ ~fibre[f].begun /\ NoSignal(f)
    /\ effects[fibre[f].row].kind = "turn.start"
    /\ effects[fibre[f].row].defers < MaxDefers
    /\ Settle(f, Deferred(Row(f)))
    /\ Release(f)
    /\ UNCHANGED <<unwinding, worker, epoch, up, ended, claims, begun>>

\* The executor threw, or the deadline fired and the executor is left behind.
Fail(f) ==
    /\ Executing(f) /\ NoSignal(f)
    /\ Settle(f, RetryOrFail(Row(f)))
    /\ Release(f)
    /\ unwinding' \in {unwinding, unwinding \cup {fibre[f].row}}
    /\ UNCHANGED <<worker, epoch, up, ended, claims, begun>>

\* An abort signal fired: the fibre moves on, its executor may still unwind.
\* Lost lease and worker stop write nothing; cancelInFlight cancels by CAS.
Abandon(f) ==
    /\ Executing(f) /\ ~NoSignal(f)
    /\ IF ~fibre[f].lost /\ worker = "running"
       THEN Settle(f, CancelRecord(Row(f)))
       ELSE effects' = effects
    /\ Release(f)
    /\ unwinding' = unwinding \cup {fibre[f].row}
    /\ UNCHANGED <<worker, epoch, up, ended, claims, begun>>

\* The settling transaction itself threw: a warning, no write.  The row stays
\* running until its lease expires or the next boot.
SettleThrows(f) ==
    /\ Executing(f) /\ NoSignal(f)
    /\ Release(f)
    /\ UNCHANGED <<effects, unwinding, worker, epoch, up, ended, claims, begun>>

\* An executor that was left behind settles at last.
Unwound(r) ==
    /\ r \in unwinding
    /\ unwinding' = unwinding \ {r}
    /\ UNCHANGED <<effects, fibre, inFlight, worker, epoch, up, ended, claims, begun>>

-----------------------------------------------------------------------------
(* Time, and rule 1 of the reconciler.                                      *)

LeaseExpires(r) ==
    /\ effects[r].status = "running" /\ effects[r].lease
    /\ effects' = [effects EXCEPT ![r].lease = FALSE]
    /\ UNCHANGED <<fibre, inFlight, unwinding, worker, epoch, up, ended, claims, begun>>

BecomesDue(r) ==
    /\ effects[r].status = "pending" /\ ~effects[r].due
    /\ effects' = [effects EXCEPT ![r].due = TRUE]
    /\ UNCHANGED <<fibre, inFlight, unwinding, worker, epoch, up, ended, claims, begun>>

\* Bug: the reconciler looks for leases that are still good.
ExpiredInverted(e) == e.status = "running" /\ e.lease

Expired(e) == e.status = "running" /\ ~e.lease

ReclaimExpired ==
    /\ up /\ worker = "running"
    /\ \E r \in Rows : Expired(effects[r])
    /\ effects' = [r \in Rows |-> IF Expired(effects[r]) THEN RetryOrFail(effects[r]) ELSE effects[r]]
    /\ UNCHANGED <<fibre, inFlight, unwinding, worker, epoch, up, ended, claims, begun>>

-----------------------------------------------------------------------------
(* Daemon life: stop, crash, boot.                                          *)

\* EffectWorker.stop aborts every execution.
StopWorker ==
    /\ up /\ worker = "running" /\ epoch < MaxEpoch
    /\ worker' = "stopping"
    /\ UNCHANGED <<effects, fibre, inFlight, unwinding, epoch, up, ended, claims, begun>>

\* stop() returned: every fibre left its loop and every executor settled.
WorkerStopped ==
    /\ up /\ worker = "stopping"
    /\ \A f \in Fibres : ~Executing(f)
    /\ unwinding = {}
    /\ worker' = "stopped"
    /\ UNCHANGED <<effects, fibre, inFlight, unwinding, epoch, up, ended, claims, begun>>

\* finishStop writes ended_at, then the process exits.
EndEpoch ==
    /\ up /\ worker = "stopped"
    /\ ended' = TRUE
    /\ up' = FALSE
    /\ UNCHANGED <<effects, fibre, inFlight, unwinding, worker, epoch, claims, begun>>

\* Only what is in the database survives.
Crash ==
    /\ up /\ epoch < MaxEpoch
    /\ up' = FALSE
    /\ worker' = "stopped"
    /\ fibre' = [f \in Fibres |-> Idle]
    /\ inFlight' = [r \in Rows |-> {}]
    /\ unwinding' = {}
    /\ UNCHANGED <<effects, epoch, ended, claims, begun>>

\* Bug: boot leaves a replay-safe row that was running as it is.
RecoveredProcessBoundOnly(e) ==
    IF ~ReplaySafe(e.kind) /\ e.status \in {"pending", "running"} THEN CancelRecord(e) ELSE e

\* cancelProcessBound and requeueRunningReplaySafe, on one row.
Recovered(e) ==
    IF ReplaySafe(e.kind)
    THEN IF e.status = "running"
         THEN [e EXCEPT !.status = "pending", !.due = TRUE, !.owner = NoOwner, !.lease = FALSE]
         ELSE e
    ELSE IF e.status \in {"pending", "running"} THEN CancelRecord(e) ELSE e

\* reconcileOnBoot is one transaction; the worker starts after it.
Boot ==
    /\ ~up /\ epoch < MaxEpoch
    /\ epoch' = epoch + 1
    /\ ended' = FALSE
    /\ up' = TRUE
    /\ worker' = "running"
    /\ effects' = [r \in Rows |-> Recovered(effects[r])]
    /\ UNCHANGED <<fibre, inFlight, unwinding, claims, begun>>

-----------------------------------------------------------------------------
Next ==
    \/ \E t \in Threads, k \in Kinds : Enqueue(t, k)
    \/ \E r \in Rows :
          \/ CancelTurn(r) \/ CancelPending(r)
          \/ Unwound(r) \/ LeaseExpires(r) \/ BecomesDue(r)
    \/ \E f \in Fibres :
          \/ Claim(f) \/ Begin(f) \/ Renew(f)
          \/ Succeed(f) \/ Defer(f) \/ Fail(f) \/ Abandon(f) \/ SettleThrows(f)
    \/ ReclaimExpired
    \/ StopWorker \/ WorkerStopped \/ EndEpoch \/ Crash \/ Boot

Spec == Init /\ [][Next]_vars

\* No execution is left that would renew the lease.
Orphaned(r) == \A f \in Fibres : fibre[f].row # r

\* Every fibre keeps claiming (commit notifications, the next available_at and a
\* 30 s poll wake it), every execution ends by its deadline at the latest, time
\* passes for a lease nobody renews, the reconciler runs every 5 s, and a daemon that is down is started.
Fairness ==
    /\ \A f \in Fibres :
          /\ WF_vars(Claim(f))
          /\ WF_vars(Fail(f))
          /\ WF_vars(Abandon(f))
    /\ \A r \in Rows :
          /\ WF_vars(Unwound(r))
          /\ WF_vars(BecomesDue(r))
          /\ WF_vars(Orphaned(r) /\ LeaseExpires(r))
    /\ WF_vars(ReclaimExpired)
    /\ WF_vars(WorkerStopped)
    /\ WF_vars(EndEpoch)
    /\ WF_vars(Boot)

FairSpec == Spec /\ Fairness

-----------------------------------------------------------------------------
(* Properties.                                                              *)

\* Only a running row has a live lease, and a pending one has no owner left: the
\* compare-and-set of a later claim's settlement rests on both.
TypeOK ==
    /\ effects \in [Rows -> Effect]
    /\ \A r \in Rows :
          /\ effects[r].lease => effects[r].status = "running"
          /\ effects[r].status = "pending" => effects[r].owner = NoOwner
    /\ fibre \in [Fibres -> Execution]
    /\ inFlight \in [Rows -> SUBSET Fibres]
    /\ unwinding \subseteq Rows
    /\ worker \in {"running", "stopping", "stopped"}
    /\ epoch \in Nat
    /\ up \in BOOLEAN
    /\ ended \in BOOLEAN
    /\ claims \in [Rows -> Nat]
    /\ begun \in [Rows -> Nat]

\* A timed-out turn.start must not re-run the model, and a steer or an answer
\* must not be delivered twice, whatever crashes, lease losses, deferrals and
\* restarts its row goes through (types.ts, EFFECT_KIND_SPEC).
OneShotRunsOnce ==
    \A r \in Rows : effects[r].kind \in OneShotKinds => begun[r] <= 1

\* A lane is first in, first out: no row of a lane is ever claimed while an
\* earlier one of the lane still waits for its first claim.
LaneFIFO ==
    \A r, q \in Rows :
        /\ q < r /\ SameLane(q, r)
        /\ effects[r].status # "absent" /\ claims[r] > 0
        => claims[q] > 0 \/ effects[q].status = "cancelled"

\* A turn.start cancelled while claimed aborts its local execution, so it never
\* reaches its provider afterwards: cancelInFlight finds the right execution.
CancelReachesExecution ==
    \A f \in Fibres :
        /\ Executing(f)
        /\ effects[fibre[f].row].kind = "turn.start"
        /\ effects[fibre[f].row].status = "cancelled"
        => fibre[f].cancelled

\* While a daemon serves, no row is left running for a dead generation, and an
\* epoch that ended cleanly has no execution that could still write.
NoDeadOwner ==
    /\ up => \A r \in Rows : effects[r].status = "running" => effects[r].owner = epoch
    /\ ended => unwinding = {} /\ \A f \in Fibres : ~Executing(f)

\* A settled row never moves again.
SettledIsFinal ==
    [][\A r \in Rows : effects[r].status \in Terminal => effects'[r] = effects[r]]_effects

\* Every effect ends: whatever crashes or hangs, the leases, the deadline and
\* the boot bring each row to a terminal status.
EveryEffectSettles ==
    \A r \in Rows : effects[r].status = "pending" ~> effects[r].status \in Terminal

\* SPEC 12.4 rule 1: "the stuck fibre's result is discarded by the CAS".
StuckResultDiscarded ==
    [][\A f \in Fibres :
         /\ Executing(f) /\ fibre'[f] # fibre[f] /\ fibre'[f].row = NoRow
         /\ up'
         /\ fibre[f].claim # claims[fibre[f].row]
         => effects' = effects]_vars
=============================================================================
