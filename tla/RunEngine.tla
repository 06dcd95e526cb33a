----------------------------- MODULE RunEngine -----------------------------
(***************************************************************************)
(* The runs of a profile: their states, the commands and hooks that write  *)
(* them, usage-limit pauses with their resume timers, Stops of a thread    *)
(* and what is below it, the reconciler's repairs and boot recovery.       *)
(*                                                                         *)
(*   src/mms/run/RunEngine.ts      commands, mark hooks, pause, Stop, boot *)
(*   src/mms/run/RunStore.ts       the compare-and-set writes              *)
(*   src/mms/run/terminal.ts       the one terminal write                  *)
(*   src/mms/run/Reconciler.ts     rules 2, 3 and 5                        *)
(*   src/mms/orchestrator/OrchestratorService.ts                           *)
(*                                 the turn of a run, the resume executor  *)
(*                                                                         *)
(* Every engine call is synchronous, so it is one step; turns, timers, the *)
(* reconciler and clients interleave between calls.  A turn is its caller  *)
(* of the hooks: it may call them in any order the engine accepts, and it  *)
(* may hang.  The effects table is reduced to the effects of a run that    *)
(* the engine reads (EffectOutbox has the table).                          *)
(***************************************************************************)
EXTENDS Integers, FiniteSets

CONSTANTS
    Threads,     \* threads of the profile
    Subtree,     \* [Threads -> SUBSET Threads]: a thread and its subagents, at any depth
    Admitted,    \* sources of the work that arrives in this instance
    MaxRuns,     \* bound: runs ever created
    MaxStops,    \* bound: Stops of one thread's subtree
    MaxBoots     \* bound: boots of the daemon

Sends == {"person", "schedule", "agent"}
Sources == Sends \cup {"wake", "resume", "undo"}

ASSUME RunAssumption ==
    /\ Threads # {}
    /\ Subtree \in [Threads -> SUBSET Threads]
    /\ \A t \in Threads : t \in Subtree[t]
    /\ Admitted \subseteq Sends \cup {"wake", "undo"}
    /\ {MaxRuns, MaxStops, MaxBoots} \subseteq Nat

Runs == 1 .. MaxRuns

\* FENCED_SOURCES, as far as they are modelled.
Fenced == {"wake", "resume"}

\* What never starts beside a pause: fenced work, scheduled runs, agents' messages.
PauseHeld == Fenced \cup {"schedule", "agent"}

Active == {"starting", "running", "finalizing"}

\* "finished" is what the turn itself reported: completed or failed.
Terminal == {"finished", "interrupted", "cancelled", "uncertain"}
RunStatus == {"absent", "queued", "paused"} \cup Active \cup Terminal

Live == {"pending", "running"}
InLane == Live \cup {"claimed"}

-----------------------------------------------------------------------------
VARIABLES
    runs,        \* the runs table, in creation order, with each run's effects
    known,       \* RunEngine.epochs against the store's epoch of the run
    turn,        \* what this process holds for a run, from its send to the end of its turn
    stale,       \* OrchestratorService.staleRuns: runs whose turn writes no more
    generation,  \* thread_stop_generations
    up,          \* the daemon process is alive
    ended,       \* the newest daemon epoch has its ended_at
    boots        \* number of daemon epochs

vars == <<runs, known, turn, stale, generation, up, ended, boots>>

NoRun == 0

\* Every write of a run raises its epoch.  What the engine remembers of a run is
\* nothing, the epoch the store holds, or an older one (which it never becomes
\* current again): the numbers themselves are left out.
Memory == {"unknown", "current", "behind"}

\* What nothing reads of a run any more (how an effect of an ended run settled,
\* its tool calls) is left at its first value.
\* A send between its commit and its turn or queue item ("held" behind a pause),
\* the session's admission while the turn.start waits, the turn before and after
\* its run starts.
Turn == {"none", "sending", "held", "admitted", "preparing", "live"}

Run == [thread : Threads, source : Sources, status : RunStatus,
        gen : Nat,              \* stop_generation it was admitted at
        stop : BOOLEAN,         \* outcome.stopRequested
        unsafe : BOOLEAN,       \* a non-idempotent tool call is started
        viaQueue : BOOLEAN,     \* the message queue carries it
        continues : Runs \cup {NoRun},
        \* turn.start; "dead": cancelled while the run is still queued, "done": over otherwise.
        start : {"none", "dead", "done"} \cup Live,
        interrupt : {"none", "done"} \cup Live,
        \* A pause continues by itself, does not (any more), or was handed over.
        pause : {"none", "timed", "untimed", "resumed"},
        \* A run.resume effect, automatic or by Resume now.  It is in the lane as
        \* "pending", "claimed" until its executor has acted, then "running".
        timer : {"none", "failed"} \cup InLane,
        manual : {"none", "failed"} \cup InLane,
        item : {"none", "auto", "now"}]          \* its continue message on the queue

NoRunYet == [thread |-> CHOOSE t \in Threads : TRUE, source |-> "person", status |-> "absent",
             gen |-> 0, stop |-> FALSE, unsafe |-> FALSE, viaQueue |-> FALSE,
             continues |-> NoRun, start |-> "none", interrupt |-> "none",
             pause |-> "none", timer |-> "none", manual |-> "none", item |-> "none"]

Init ==
    /\ runs = [r \in Runs |-> NoRunYet]
    /\ known = [r \in Runs |-> "unknown"]
    /\ turn = [r \in Runs |-> "none"]
    /\ stale = {}
    /\ generation = [t \in Threads |-> 0]
    /\ up = FALSE
    /\ ended = TRUE
    /\ boots = 0

-----------------------------------------------------------------------------
(* Reading the table.                                                       *)

IsActive(r) == runs[r].status \in Active
OfThread(t) == {r \in Runs : runs[r].status # "absent" /\ runs[r].thread = t}
ActiveOn(t) == {r \in OfThread(t) : IsActive(r)}
PausedOn(t) == {r \in OfThread(t) : runs[r].status = "paused"}
Next1(r) == runs[r].status = "absent" /\ \A q \in Runs : q < r => runs[q].status # "absent"

\* isRunAdmissionStale
AdmissionStale(r) == runs[r].gen < generation[runs[r].thread]
IsFenced(r) == runs[r].source \in Fenced /\ AdmissionStale(r)

\* session.isTurnRunning, hasLocalTurn: the thread's session is admitted to a turn.
\* A local action does not ask for it.
SessionBusy(t) ==
    \E q \in OfThread(t) :
       runs[q].source # "undo" /\ turn[q] \in {"admitted", "preparing", "live"}

-----------------------------------------------------------------------------
(* Writing one run.  The forms named Bug... have a plausible bug and are     *)
(* used by no action.                                                       *)

Idle(e) == IF e \in Live THEN e ELSE "none"

\* writeTerminalRun.  Its effects settle by themselves.
Ended(x, s) ==
    [x EXCEPT !.status = s, !.gen = 0, !.stop = FALSE, !.unsafe = FALSE, !.viaQueue = FALSE,
              !.start = Idle(@), !.interrupt = Idle(@)]

Cancelled(e) == IF e = "pending" THEN "none" ELSE e

\* Bug: the run that is handed over is marked so, and not ended.
BugPauseOver(x, by) ==
    IF by = "resumed" THEN [x EXCEPT !.pause = by]
    ELSE [Ended(x, "cancelled") EXCEPT !.pause = "none"]

\* What becomes of the pause that "by" ends: handed over, or over.
PauseOver(x, by) ==
    [Ended(x, IF by = "resumed" THEN "interrupted" ELSE "cancelled") EXCEPT
        !.pause = IF by = "resumed" THEN by ELSE "none"]

\* Bug: the pause ends and leaves its timer pending.
BugPauseEndedTimerLeft(x, by) == PauseOver(x, by)

\* endPause: a pending timer goes with the pause, a running one settles itself.
PauseEnded(x, by) ==
    [PauseOver(x, by) EXCEPT !.timer = IF @ \in {"claimed", "running"} THEN @ ELSE "none",
                             !.manual = IF @ \in {"claimed", "running"} THEN @ ELSE "none"]

\* Bug: the automatic timer goes, the pause still shows its time.
BugPauseStaleShowsTime(x) == [x EXCEPT !.timer = Cancelled(@)]

\* endPause with 'stale': still paused, only the automatic timer goes.
PauseStale(x) ==
    IF x.pause = "timed" THEN [x EXCEPT !.pause = "untimed", !.timer = Cancelled(@)] ELSE x

\* cancelQueuedRun: the run with its live turn.start.
QueuedCancelled(x) == [Ended(x, "cancelled") EXCEPT !.start = "none"]

\* createRun: admitted at its thread's generation.
Created(t, s) ==
    [NoRunYet EXCEPT !.thread = t, !.source = s, !.status = "queued", !.gen = generation[t]]

\* epochs.delete
Forgotten(S) == [r \in Runs |-> IF r \in S THEN "unknown" ELSE known[r]]

\* epochs.set in a hook.
Remembered(S) == [r \in Runs |-> IF r \in S THEN "current" ELSE known[r]]

\* A write of the store that the engine's memory does not hear of.
Overtaken(S) ==
    [r \in Runs |-> IF r \in S /\ known[r] = "current" THEN "behind" ELSE known[r]]

\* Bug: the writer does not tell the engine's memory of the new epoch.
BugNotFollowed(S) == Overtaken(S)

\* epochs.set after a write outside the hooks, if the engine has the run.
Followed(S) ==
    [r \in Runs |-> IF r \in S /\ known[r] # "unknown" THEN "current" ELSE known[r]]

\* Bug: a terminal run can be written again.
BugAlwaysWritable(r) == TRUE

\* requireCasTarget: terminal states are final.
Writable(r) == runs[r].status \notin Terminal

\* mark: the epoch this engine last wrote must still be the stored one.
EpochHolds(r) == known[r] # "behind"

-----------------------------------------------------------------------------
(* Commands that create runs.                                               *)

\* commitSend.  A person's message on a paused thread waits behind the pause, or
\* ends it (a retry, Continue); schedules and agents are refused there.
Send(t, s, behind) ==
    /\ up /\ s \in Admitted \cap Sends
    /\ s \in PauseHeld => PausedOn(t) = {}
    /\ behind => PausedOn(t) # {}
    /\ \E n \in Runs :
          /\ Next1(n)
          /\ runs' = [r \in Runs |->
                IF r = n THEN Created(t, s)
                ELSE IF r \in PausedOn(t) /\ ~behind THEN PauseEnded(runs[r], "over") ELSE runs[r]]
          /\ turn' = [turn EXCEPT ![n] = IF behind THEN "held" ELSE "sending"]
    /\ known' = IF behind THEN known ELSE Forgotten(PausedOn(t))
    /\ UNCHANGED <<stale, generation, up, ended, boots>>

\* The send comes back from the engine, after an await: it puts its message on the
\* queue (it must when the session is busy or the pause holds it), or admits the
\* session and records the turn.start.  It does not look at its run again.
SendPlaced(r, queue) ==
    /\ up /\ turn[r] \in {"sending", "held"}
    /\ queue \/ (turn[r] = "sending" /\ ~SessionBusy(runs[r].thread))
    /\ runs' = [runs EXCEPT ![r] =
          IF queue THEN [@ EXCEPT !.viaQueue = (runs[r].status = "queued")]
          ELSE [@ EXCEPT !.start = "pending"]]
    /\ turn' = [turn EXCEPT ![r] = IF queue THEN "none" ELSE "admitted"]
    /\ UNCHANGED <<known, stale, generation, up, ended, boots>>

\* Reconciler rule 4: pending inbox rows of a thread that is neither active nor
\* paused and has no wake waiting.
Wake(t) ==
    /\ up /\ "wake" \in Admitted
    /\ ActiveOn(t) = {} /\ PausedOn(t) = {}
    /\ ~\E r \in OfThread(t) : runs[r].source = "wake" /\ runs[r].status = "queued"
    /\ \E n \in Runs :
          /\ Next1(n)
          /\ runs' = [runs EXCEPT ![n] = [Created(t, "wake") EXCEPT !.start = "pending"]]
    /\ UNCHANGED <<known, turn, stale, generation, up, ended, boots>>

\* runLocalAction (undo, revert), first half: the run is created under the
\* thread's mutex; markStarting follows when the lock has been released.
LocalAction(t) ==
    /\ up /\ "undo" \in Admitted /\ ActiveOn(t) = {}
    /\ \E n \in Runs :
          /\ Next1(n)
          /\ runs' = [runs EXCEPT ![n] = Created(t, "undo")]
          /\ turn' = [turn EXCEPT ![n] = "preparing"]
    /\ UNCHANGED <<known, stale, generation, up, ended, boots>>

\* The message queue admits the session for a run it carries (a drain, or its
\* recovery after a restart); a pause lets only its own continue turn through.
DrainQueue(r) ==
    /\ up /\ runs[r].status = "queued" /\ runs[r].viaQueue
    /\ ~SessionBusy(runs[r].thread) /\ PausedOn(runs[r].thread) = {}
    /\ runs' = [runs EXCEPT ![r].start = "pending"]
    /\ turn' = [turn EXCEPT ![r] = "admitted"]
    /\ UNCHANGED <<known, stale, generation, up, ended, boots>>

\* A queue item that no drain has claimed leaves the queue without running.
CancelQueued(r) ==
    /\ up /\ runs[r].status = "queued" /\ runs[r].viaQueue /\ turn[r] = "none"
    /\ runs' = [runs EXCEPT ![r] = Ended(@, "cancelled")]
    /\ known' = Forgotten({r})
    /\ UNCHANGED <<turn, stale, generation, up, ended, boots>>

-----------------------------------------------------------------------------
(* The turn of a run: its turn.start is claimed and executed.               *)

\* The lane lets one turn.start of a thread execute at a time (which one comes
\* first is left open here).
Claimable(r) ==
    /\ up /\ runs[r].start = "pending"
    /\ \A q \in OfThread(runs[r].thread) : runs[q].start # "running"

\* What the executor refuses before it does anything: a run that is no longer
\* queued, a fenced run a Stop came after, held work beside a pause.
RefusedAtStart(r) ==
    \/ runs[r].status # "queued"
    \/ IsFenced(r)
    \/ runs[r].source \in {"wake", "schedule"} /\ PausedOn(runs[r].thread) # {}

\* A wake finds its thread busy: an active run, or a turn that has not let go.
BusyWake(r) ==
    /\ runs[r].source = "wake"
    /\ ActiveOn(runs[r].thread) # {} \/ SessionBusy(runs[r].thread)

\* A turn.start that holds no admission (rule 5 wrote it) finds the session
\* admitted to another turn.
Collides(r) == turn[r] = "none" /\ runs[r].source # "wake" /\ SessionBusy(runs[r].thread)

TurnStart(r) ==
    /\ Claimable(r) /\ ~RefusedAtStart(r) /\ ~BusyWake(r) /\ ~Collides(r)
    /\ runs' = [runs EXCEPT ![r].start = "running"]
    /\ turn' = [turn EXCEPT ![r] = "preparing"]
    /\ UNCHANGED <<known, stale, generation, up, ended, boots>>

\* The run ends cancelled if it is still queued, and the admission its send held is
\* released.  A wake is refused too when nothing is left for it to deliver, and when
\* another turn waits behind it on a busy thread (otherwise it is deferred).
TurnStartRefused(r) ==
    /\ Claimable(r)
    /\ RefusedAtStart(r) \/ runs[r].source = "wake"
    /\ LET x == [runs[r] EXCEPT !.start = "none"] IN
          runs' = [runs EXCEPT ![r] = IF x.status = "queued" THEN Ended(x, "cancelled") ELSE x]
    /\ known' = IF runs[r].status = "queued" THEN Forgotten({r}) ELSE known
    /\ turn' = [turn EXCEPT ![r] = IF @ = "admitted" THEN "none" ELSE @]
    /\ UNCHANGED <<stale, generation, up, ended, boots>>

\* "An orchestrator turn is already running": the run ends failed.
TurnStartCollides(r) ==
    /\ Claimable(r) /\ ~RefusedAtStart(r) /\ Collides(r)
    /\ runs' = [runs EXCEPT ![r] = Ended([@ EXCEPT !.start = "none"], "finished")]
    /\ known' = Forgotten({r})
    /\ UNCHANGED <<turn, stale, generation, up, ended, boots>>

\* Bug: the thread's active run is not looked at.
BugMayStartBesideActive(r) ==
    /\ runs[r].status = "queued"
    /\ runs[r].source \in PauseHeld => PausedOn(runs[r].thread) = {}

\* markStarting's conditions: queued, the thread not active, nothing held beside
\* a pause.
MayStart(r) ==
    /\ runs[r].status = "queued"
    /\ ActiveOn(runs[r].thread) = {}
    /\ runs[r].source \in PauseHeld => PausedOn(runs[r].thread) = {}

\* Bug: a message that outlived a Stop keeps the generation it was admitted at.
BugStartedOldGeneration(x) ==
    [x EXCEPT !.status = "starting", !.viaQueue = FALSE, !.start = Idle(@)]

\* A person's run that waited out a Stop starts as new intent.
Started(x) ==
    [x EXCEPT !.status = "starting", !.viaQueue = FALSE, !.start = Idle(@),
              !.gen = IF x.source \in Fenced THEN @ ELSE generation[x.thread]]

\* The run starts as x, which ends a pause of its thread.
StartsAs(r, x) ==
    LET paused == PausedOn(runs[r].thread) IN
       /\ runs' = [q \in Runs |->
             IF q = r THEN x
             ELSE IF q \in paused THEN PauseEnded(runs[q], "over") ELSE runs[q]]
       /\ known' = [Forgotten(paused) EXCEPT ![r] = "current"]
       /\ turn' = [turn EXCEPT ![r] = "live"]

MarkStarting(r) ==
    /\ up /\ turn[r] = "preparing" /\ MayStart(r) /\ runs[r].source # "undo"
    /\ StartsAs(r, Started(runs[r]))
    /\ UNCHANGED <<stale, generation, up, ended, boots>>

\* starting -> running
Running(x) == [x EXCEPT !.status = "running"]

\* runLocalAction, second half: starting and running without an await between.
LocalActionStarts(r) ==
    /\ up /\ turn[r] = "preparing" /\ MayStart(r) /\ runs[r].source = "undo"
    /\ StartsAs(r, Running(Started(runs[r])))
    /\ UNCHANGED <<stale, generation, up, ended, boots>>

\* The turn fails before it starts (its preparation, or markStarting refuses):
\* the run ends failed unless something already ended it, or its message goes back
\* to the queue.
PreparationFails(r) ==
    /\ up /\ turn[r] = "preparing" /\ runs[r].source # "undo"
    /\ \E requeued \in BOOLEAN :
          LET x == [runs[r] EXCEPT !.start = "none"]
              ends == x.status = "queued" /\ ~(requeued /\ x.viaQueue) IN
             /\ runs' = [runs EXCEPT ![r] = IF ends THEN Ended(x, "finished") ELSE x]
             /\ known' = IF ends THEN Forgotten({r}) ELSE known
    /\ turn' = [turn EXCEPT ![r] = "none"]
    /\ UNCHANGED <<stale, generation, up, ended, boots>>

\* markStarting refuses a local action: the error goes to its caller, the run
\* stays as it is.
LocalActionRefused(r) ==
    /\ up /\ turn[r] = "preparing" /\ runs[r].source = "undo" /\ ~MayStart(r)
    /\ turn' = [turn EXCEPT ![r] = "none"]
    /\ UNCHANGED <<runs, known, stale, generation, up, ended, boots>>

\* A hook of a live turn reaches the store.
Hook(r) == up /\ turn[r] = "live" /\ r \notin stale /\ EpochHolds(r)

\* The epoch moved under the turn: it stops writing this run.
StaleHook(r) ==
    /\ up /\ turn[r] = "live" /\ runs[r].source # "undo" /\ r \notin stale /\ ~EpochHolds(r)
    /\ stale' = stale \cup {r}
    /\ UNCHANGED <<runs, known, turn, generation, up, ended, boots>>

MarkRunning(r) ==
    /\ Hook(r) /\ runs[r].status = "starting"
    /\ runs' = [runs EXCEPT ![r] = Running(@)]
    /\ known' = Remembered({r})
    /\ UNCHANGED <<turn, stale, generation, up, ended, boots>>

MarkFinalizing(r) ==
    /\ Hook(r) /\ runs[r].status = "running" /\ runs[r].source # "undo"
    /\ runs' = [runs EXCEPT ![r].status = "finalizing"]
    /\ known' = Remembered({r})
    /\ UNCHANGED <<turn, stale, generation, up, ended, boots>>

\* markTerminal refuses a paused run.
MarkTerminal(r, s) ==
    /\ Hook(r) /\ s \in {"finished", "interrupted"}
    /\ runs[r].status # "paused" /\ runs[r].source # "undo" /\ Writable(r)
    /\ runs' = [runs EXCEPT ![r] = Ended(@, s)]
    /\ known' = Forgotten({r})
    /\ UNCHANGED <<turn, stale, generation, up, ended, boots>>

\* The turn returned or threw: settleRunAfterTurn, settleLocalAction, and the
\* settlement of its effect.  A turn that went stale records nothing, and a write
\* the database refuses is logged and lost (stored FALSE).
TurnEnds(r) ==
    /\ up /\ turn[r] = "live"
    /\ \E stored \in BOOLEAN :
          LET writes == stored /\ r \notin stale /\ EpochHolds(r) /\ IsActive(r)
              x == [runs[r] EXCEPT !.start = "none"] IN
             /\ runs' = [runs EXCEPT ![r] = IF writes THEN Ended(x, "finished") ELSE x]
             /\ known' = IF writes \/ (stored /\ runs[r].source = "undo")
                         THEN Forgotten({r}) ELSE known
    /\ turn' = [turn EXCEPT ![r] = "none"]
    /\ stale' = stale \ {r}
    /\ UNCHANGED <<generation, up, ended, boots>>

\* A non-idempotent tool call starts, or commits or fails (where a crash can follow).
ToolCall(r) ==
    /\ up /\ boots < MaxBoots /\ turn[r] = "live" /\ runs[r].status = "running" /\ runs[r].source # "undo"
    /\ runs' = [runs EXCEPT ![r].unsafe = ~@]
    /\ UNCHANGED <<known, turn, stale, generation, up, ended, boots>>

\* The effect ends without its executor: deadline, lost lease.
StartDeadline(r) ==
    /\ up /\ runs[r].start = "running"
    /\ runs' = [runs EXCEPT ![r].start = IF runs[r].status = "queued" THEN "done" ELSE "none"]
    /\ UNCHANGED <<known, turn, stale, generation, up, ended, boots>>

-----------------------------------------------------------------------------
(* Usage-limit pauses.                                                      *)

\* Bug: a run being stopped can be paused.
BugPausable(r) == runs[r].status \in {"running", "finalizing"}

\* A run being stopped is never paused: the Stop wins.
Pausable(r) == runs[r].status \in {"running", "finalizing"} /\ ~runs[r].stop

\* pauseRun, with a timer (timed) or without.  A pending timer of another run of
\* the thread that is not paused is dead and cancelled first.
Pause(r, timed) ==
    /\ Hook(r) /\ Pausable(r) /\ runs[r].source # "undo"
    /\ PausedOn(runs[r].thread) = {}
    /\ runs' = [q \in Runs |->
          IF q = r
          THEN [runs[q] EXCEPT
                   !.status = "paused",
                   !.pause = IF timed THEN "timed" ELSE "untimed",
                   !.timer = IF timed THEN "pending" ELSE @]
          ELSE IF timed /\ q \in OfThread(runs[r].thread) /\ runs[q].status # "paused"
               THEN [runs[q] EXCEPT !.timer = Cancelled(@), !.manual = Cancelled(@)]
               ELSE runs[q]]
    /\ known' = Remembered({r})
    /\ UNCHANGED <<turn, stale, generation, up, ended, boots>>

\* runs.resumeNow: a pending automatic timer is replaced, a running one does not
\* take the press, a live manual one is returned as it is.
ResumeNow(r) ==
    /\ up /\ runs[r].status = "paused"
    /\ runs[r].manual \notin InLane
    /\ runs' = [runs EXCEPT ![r].timer = Cancelled(@), ![r].manual = "pending"]
    /\ UNCHANGED <<known, turn, stale, generation, up, ended, boots>>

\* runs.cancelPause, and the end of a deleted thread's pause.
CancelPause(r) ==
    /\ up /\ runs[r].status = "paused"
    /\ runs' = [runs EXCEPT ![r] = [PauseEnded(@, "over") EXCEPT !.item = "none"]]
    /\ known' = Forgotten({r})
    /\ UNCHANGED <<turn, stale, generation, up, ended, boots>>

\* Bug: each of the run's own timers waits for the other.
BugResumeLaneFree(r, k) ==
    \A q \in OfThread(runs[r].thread), other \in {"timer", "manual"} :
       <<q, other>> # <<r, k>> => runs[q][other] \notin InLane

\* The resume lane of the thread, first-in, first-out, one at a time: the timers of
\* an earlier run come first, and Resume now after the run's automatic timer.
ResumeLaneFree(r, k) ==
    /\ \A q \in OfThread(runs[r].thread), other \in {"timer", "manual"} :
          /\ runs[q][other] \notin {"claimed", "running"}
          /\ q < r => runs[q][other] \notin InLane
    /\ k = "manual" => runs[r].timer \notin InLane

TimerClaimed(r, k) ==
    /\ up /\ runs[r][k] = "pending" /\ ResumeLaneFree(r, k)
    /\ runs' = [runs EXCEPT ![r][k] = "claimed"]
    /\ UNCHANGED <<known, turn, stale, generation, up, ended, boots>>

\* The wakes of a thread that still wait for their turn.start.
WaitingWakes(t) == {q \in OfThread(t) : runs[q].source = "wake" /\ runs[q].start = "pending"}

WakeDropped(x) ==
    IF x.status = "queued" THEN QueuedCancelled(x) ELSE [x EXCEPT !.start = "none"]

\* executeResumeEffect on a paused run: the thread's waiting wakes go back to
\* their rows, and the continue message is written; Resume now takes an automatic
\* one over.  With written FALSE it could not be written, on any attempt.
ResumePrepared(r, k, written) ==
    [q \in Runs |->
        IF q = r
        THEN [runs[q] EXCEPT
                 ![k] = IF written THEN "running" ELSE "failed",
                 !.item = IF ~written THEN @ ELSE IF k = "manual" THEN "now"
                          ELSE IF @ = "none" THEN "auto" ELSE @]
        ELSE IF q \in WaitingWakes(runs[r].thread) THEN WakeDropped(runs[q]) ELSE runs[q]]

TimerFires(r, k) ==
    /\ up /\ runs[r][k] = "claimed" /\ runs[r].status = "paused"
    /\ \E written \in BOOLEAN : runs' = ResumePrepared(r, k, written)
    /\ known' = Followed({r})
    /\ UNCHANGED <<turn, stale, generation, up, ended, boots>>

\* An automatic timer more than 24 hours late continues nothing.
TimerStale(r) ==
    /\ up /\ runs[r].timer = "claimed" /\ runs[r].status = "paused"
    /\ runs' = [runs EXCEPT ![r] =
          [PauseStale(@) EXCEPT !.timer = "running", !.item = "none"]]
    /\ known' = IF runs[r].pause = "timed" THEN Followed({r}) ELSE known
    /\ UNCHANGED <<turn, stale, generation, up, ended, boots>>

\* The pause ended before its timer: a continue message nobody admitted goes.
TimerFindsPauseEnded(r, k) ==
    /\ up /\ runs[r][k] = "claimed" /\ runs[r].status # "paused"
    /\ runs' = [runs EXCEPT ![r] =
          [runs[r] EXCEPT ![k] = "running", !.item = IF runs[r].pause = "resumed" THEN @ ELSE "none"]]
    /\ UNCHANGED <<known, turn, stale, generation, up, ended, boots>>

TimerSettles(r, k) ==
    /\ up /\ runs[r][k] = "running"
    /\ runs' = [runs EXCEPT ![r][k] = "none"]
    /\ UNCHANGED <<known, turn, stale, generation, up, ended, boots>>

\* commitSend of a continue turn: only for the pause it was queued for.
Resumable(r) == runs[r].status = "paused"

\* The queue drains the continue message (admitResumeItem): the continuation is
\* created and the pause ends in one transaction, and its turn.start follows (a
\* crash between the two leaves the message, and it is replayed); otherwise the
\* message is retired.
AdmitResume(r) ==
    /\ up /\ runs[r].item # "none" /\ ~SessionBusy(runs[r].thread)
    /\ \/ /\ Resumable(r) /\ (runs[r].item = "now" \/ runs[r].pause = "timed")
          /\ \E n \in Runs :
                /\ Next1(n)
                /\ runs' = [runs EXCEPT
                      ![r] = [PauseEnded(@, "resumed") EXCEPT !.item = "none"],
                      ![n] = [Created(runs[r].thread, "resume") EXCEPT
                                 !.viaQueue = TRUE, !.start = "pending", !.continues = r]]
                /\ turn' = [turn EXCEPT ![n] = "admitted"]
          /\ known' = Forgotten({r})
       \/ /\ runs[r].status = "paused" /\ runs[r].item = "auto"
          /\ runs' = [runs EXCEPT ![r] = [PauseStale(@) EXCEPT !.item = "none"]]
          /\ known' = IF runs[r].pause = "timed" THEN Followed({r}) ELSE known
          /\ turn' = turn
       \/ /\ ~Resumable(r)
          /\ runs' = [runs EXCEPT ![r].item = "none"]
          /\ known' = known /\ turn' = turn
    /\ UNCHANGED <<stale, generation, up, ended, boots>>

-----------------------------------------------------------------------------
(* Stops.                                                                   *)

\* casRunOutcome: the Stop is recorded on the active run.
StopNoted(x) == [x EXCEPT !.stop = TRUE]

\* The interrupt a run being stopped needs.
Interrupting(x) == [x EXCEPT !.interrupt = IF @ \in Live THEN @ ELSE "pending"]

\* commitControl: the Stop of one run, by task_cancel.  Any other run is ignored.
StopRun(r) ==
    /\ up
    /\ IsActive(r) \/ runs[r].status = "paused"
    /\ runs' = [runs EXCEPT ![r] = IF IsActive(r) THEN StopNoted(@) ELSE PauseEnded(@, "over")]
    /\ known' = IF IsActive(r) THEN Followed({r}) ELSE Forgotten({r})
    /\ UNCHANGED <<turn, stale, generation, up, ended, boots>>

\* stopChildRun enqueues the interrupt after the mutex has been released.
InterruptStopped(r) ==
    /\ up /\ runs[r].stop /\ IsActive(r) /\ runs[r].interrupt = "none"
    /\ runs' = [runs EXCEPT ![r] = Interrupting(@)]
    /\ UNCHANGED <<known, turn, stale, generation, up, ended, boots>>

\* survivesStop: what a person sent stays queued, unless the queue is cleared.
SurvivesStop(r, clear) == ~clear /\ runs[r].source \notin Fenced

\* One run of the subtree at the instant of the Stop.
StoppedBy(r, clear) ==
    LET x == runs[r] IN
       IF x.status = "paused" THEN PauseEnded(x, "over")
       ELSE IF x.status = "queued" /\ ~SurvivesStop(r, clear) THEN QueuedCancelled(x)
       ELSE IF IsActive(r) THEN Interrupting(IF x.stop THEN x ELSE StopNoted(x))
       ELSE x

\* bumpStopGenerations
GenerationsRaised(t) ==
    [u \in Threads |-> generation[u] + IF u \in Subtree[t] THEN 1 ELSE 0]

\* stopSubtree, one transaction over the thread and everything below it.
StopThread(t, clear) ==
    /\ up /\ \A u \in Subtree[t] : generation[u] < MaxStops
    /\ generation' = GenerationsRaised(t)
    /\ LET set == {r \in Runs : runs[r].status # "absent" /\ runs[r].thread \in Subtree[t]}
           over == {r \in set : StoppedBy(r, clear).status \in Terminal /\ Writable(r)}
           noted == {r \in set : IsActive(r) /\ ~runs[r].stop} IN
          /\ runs' = [r \in Runs |-> IF r \in set THEN StoppedBy(r, clear) ELSE runs[r]]
          /\ known' = [r \in Runs |-> IF r \in noted THEN Followed(noted)[r] ELSE Forgotten(over)[r]]
    /\ UNCHANGED <<turn, stale, up, ended, boots>>

\* turn.interrupt: a live turn, or a provider session the adapter reaches, is told
\* to stop and ends in its own time; when there is none the run is settled here.
InterruptSettles(r) ==
    /\ up /\ runs[r].interrupt \in Live
    /\ \E reached \in BOOLEAN :
          LET x == [runs[r] EXCEPT !.interrupt = IF IsActive(r) THEN "done" ELSE "none"]
              settles == /\ IsActive(r) /\ EpochHolds(r)
                         /\ ~reached /\ ~SessionBusy(runs[r].thread) IN
             /\ runs' = [runs EXCEPT ![r] = IF settles THEN Ended(x, "interrupted") ELSE x]
             /\ known' = IF settles THEN Forgotten({r}) ELSE known
    /\ UNCHANGED <<turn, stale, generation, up, ended, boots>>

-----------------------------------------------------------------------------
(* The reconciler.  It writes the store without the engine's memory.        *)

\* Bug: the rule looks at runs that are running and forgets finalizing ones.
BugSilent(r) == runs[r].status = "running"

Silent(r) == runs[r].status \in {"running", "finalizing"}

\* Rule 2: no effect executes for the run and it has been silent for its window.
\* A local action beats for itself while it executes.
StaleRun(r) ==
    /\ up /\ Silent(r) /\ "running" \notin {runs[r].start, runs[r].interrupt}
    /\ runs[r].source = "undo" => turn[r] = "none"
    /\ runs' = [runs EXCEPT ![r] = Ended(@, "interrupted")]
    /\ known' = Overtaken({r})
    /\ UNCHANGED <<turn, stale, generation, up, ended, boots>>

\* Bug: a Stop whose interrupt was never enqueued is waited for.
BugInterruptOver(r) == runs[r].interrupt = "done"

InterruptOver(r) == runs[r].interrupt \notin Live

\* Rule 3: the interrupt is over and the run is not.
ForcedInterrupt(r) ==
    /\ up /\ runs[r].stop /\ runs[r].status \notin Terminal /\ InterruptOver(r)
    /\ runs' = [runs EXCEPT ![r] = Ended(@, "interrupted")]
    /\ known' = Overtaken({r})
    /\ UNCHANGED <<turn, stale, generation, up, ended, boots>>

\* Bug: only a run that never had a turn.start is taken for stranded.
BugStranded(r) == runs[r].status = "queued" /\ runs[r].start = "none" /\ ~runs[r].viaQueue

\* strandedQueuedRuns: the turn.start died, nobody else recovers it.
Stranded(r) ==
    /\ runs[r].status = "queued" /\ runs[r].start = "dead"
    /\ ~runs[r].viaQueue /\ runs[r].source # "wake"
    /\ ActiveOn(runs[r].thread) = {}

\* Rule 5.
RestartQueued(r) ==
    /\ up /\ Stranded(r)
    /\ runs' = [runs EXCEPT ![r].start = "pending"]
    /\ UNCHANGED <<known, turn, stale, generation, up, ended, boots>>

-----------------------------------------------------------------------------
(* The daemon process.                                                      *)

Gone ==
    /\ up' = FALSE
    /\ turn' = [r \in Runs |-> "none"]
    /\ stale' = {}
    /\ known' = [r \in Runs |-> "unknown"]

Crash ==
    /\ up /\ boots < MaxBoots
    /\ Gone
    /\ UNCHANGED <<runs, generation, ended, boots>>

\* abandonTurnStart: a turn.start that waits with its send's admission is cancelled.
Abandoned(x) ==
    IF x.status # "queued" THEN [x EXCEPT !.start = "none"]
    ELSE IF x.viaQueue THEN [x EXCEPT !.start = "dead"]
    ELSE [Ended(x, "interrupted") EXCEPT !.start = "none"]

\* A stop of the profile that drained: its turns are over, those that never started
\* are abandoned, and the epoch gets its ended_at.
Shutdown ==
    /\ up /\ boots < MaxBoots
    /\ \A r \in Runs : turn[r] \in {"none", "admitted"}
    /\ runs' = [r \in Runs |-> IF turn[r] = "admitted" THEN Abandoned(runs[r]) ELSE runs[r]]
    /\ ended' = TRUE
    /\ Gone
    /\ UNCHANGED <<generation, boots>>

\* cancelProcessBound and requeueRunningReplaySafe, for the effects of one run.
EffectsRecovered(x) ==
    [x EXCEPT !.start = IF @ \notin Live THEN @ ELSE IF x.status = "queued" THEN "dead" ELSE "none",
              !.interrupt = IF @ \in Live THEN "none" ELSE @,
              !.timer = IF @ \in InLane THEN "pending" ELSE @,
              !.manual = IF @ \in InLane THEN "pending" ELSE @]

\* recoverOrphanedFollowUps: a scheduled run that a crash cut off before its
\* turn.start or queue item was written.
Orphaned(x) ==
    x.status = "queued" /\ x.source = "schedule" /\ x.start = "none" /\ ~x.viaQueue

\* Bug: a turn cut off with a tool call in flight is recovered like any other.
BugRecovered(x) ==
    LET y == EffectsRecovered(x) IN
       CASE x.status \in Active -> Ended(y, "interrupted")
         [] (x.status = "queued" /\ x.source = "wake") \/ Orphaned(x) -> Ended(y, "cancelled")
         [] OTHER -> y

\* reconcileOnBoot, for one run.
Recovered(x) ==
    LET y == EffectsRecovered(x) IN
       CASE x.status \in Active -> Ended(y, IF ~ended /\ x.unsafe THEN "uncertain" ELSE "interrupted")
         [] (x.status = "queued" /\ x.source = "wake") \/ Orphaned(x) -> Ended(y, "cancelled")
         [] OTHER -> y

Boot ==
    /\ ~up
    /\ up' = TRUE
    /\ boots' = boots + 1
    /\ ended' = FALSE
    /\ runs' = [r \in Runs |-> Recovered(runs[r])]
    /\ UNCHANGED <<known, turn, stale, generation>>

-----------------------------------------------------------------------------
Next ==
    \/ \E t \in Threads :
          \/ \E s \in Sends, behind \in BOOLEAN : Send(t, s, behind)
          \/ Wake(t)
          \/ LocalAction(t)
          \/ \E clear \in BOOLEAN : StopThread(t, clear)
    \/ \E r \in Runs :
          \/ \E queue \in BOOLEAN : SendPlaced(r, queue)
          \/ DrainQueue(r)
          \/ CancelQueued(r)
          \/ TurnStart(r)
          \/ TurnStartRefused(r)
          \/ TurnStartCollides(r)
          \/ MarkStarting(r)
          \/ PreparationFails(r)
          \/ LocalActionStarts(r)
          \/ LocalActionRefused(r)
          \/ StaleHook(r)
          \/ MarkRunning(r)
          \/ MarkFinalizing(r)
          \/ \E s \in {"finished", "interrupted"} : MarkTerminal(r, s)
          \/ TurnEnds(r)
          \/ ToolCall(r)
          \/ StartDeadline(r)
          \/ \E timed \in BOOLEAN : Pause(r, timed)
          \/ ResumeNow(r)
          \/ CancelPause(r)
          \/ \E k \in {"timer", "manual"} :
                TimerClaimed(r, k) \/ TimerFires(r, k) \/ TimerFindsPauseEnded(r, k) \/ TimerSettles(r, k)
          \/ TimerStale(r)
          \/ AdmitResume(r)
          \/ StopRun(r)
          \/ InterruptStopped(r)
          \/ InterruptSettles(r)
          \/ StaleRun(r)
          \/ ForcedInterrupt(r)
          \/ RestartQueued(r)
    \/ Crash
    \/ Shutdown
    \/ Boot

Spec == Init /\ [][Next]_vars

(* The daemon's own timers are fair: the effect worker's deadlines and polls, *)
(* the reconciler's interval, a supervisor that starts the daemon again.     *)
(* Nothing is assumed of providers and people, and of turns only that one    *)
(* which has paused its run, and so has its provider's answer, returns.      *)
(* Rule 2 is fair only for a run with no turn: a turn's events are           *)
(* heartbeats that hold it off.                                              *)
Fairness ==
    /\ WF_vars(Boot)
    /\ \A r \in Runs :
          /\ WF_vars(StartDeadline(r))
          /\ WF_vars(InterruptSettles(r))
          /\ WF_vars(turn[r] = "none" /\ StaleRun(r))
          /\ WF_vars(ForcedInterrupt(r))
          /\ WF_vars(RestartQueued(r))
          /\ WF_vars(LocalActionStarts(r) \/ LocalActionRefused(r))
          /\ \A k \in {"timer", "manual"} :
                /\ WF_vars(TimerClaimed(r, k))
                /\ WF_vars(TimerFires(r, k) \/ TimerFindsPauseEnded(r, k) \/ (k = "timer" /\ TimerStale(r)))
                /\ WF_vars(TimerSettles(r, k))
          /\ WF_vars(runs[r].status = "paused" /\ TurnEnds(r))
          /\ WF_vars(AdmitResume(r))

FairSpec == Spec /\ Fairness

-----------------------------------------------------------------------------
(* Types.                                                                   *)

\* The variables keep their types.
TypeOK ==
    /\ runs \in [Runs -> Run]
    /\ known \in [Runs -> Memory]
    /\ turn \in [Runs -> Turn]
    /\ stale \subseteq Runs
    /\ generation \in [Threads -> Nat]
    /\ up \in BOOLEAN /\ ended \in BOOLEAN
    /\ boots \in Nat

-----------------------------------------------------------------------------
(* Safety.                                                                  *)

\* A thread has at most one run that is active or paused (the unique indexes of
\* the schema are the last defence: no step of the engine relies on them).
OneOwnerPerThread ==
    \A p, q \in Runs :
       /\ runs[p].status \in Active \cup {"paused"}
       /\ runs[q].status \in Active \cup {"paused"}
       /\ runs[p].thread = runs[q].thread
       => p = q

\* Whatever the engine remembers of a run that can still change is what the
\* store holds, whoever wrote last: otherwise the live turn's next hook is a
\* stale write, the turn goes silent and its result is lost.
EngineEpochCurrent ==
    \A r \in Runs : runs[r].status \notin Terminal => EpochHolds(r)

\* A paused run that shows a time it continues at has something left that will
\* continue it, or failed visibly: a timer, Resume now, or the queued message.
PausePromise ==
    \A r \in Runs : runs[r].status = "paused" /\ runs[r].pause = "timed" =>
       \/ InLane \cap {runs[r].timer, runs[r].manual} # {}
       \/ runs[r].item # "none"
       \/ "failed" \in {runs[r].timer, runs[r].manual}

\* Whoever ends a pause takes the timers that wait for it along: one left behind
\* holds the thread's resume lane for hours and refuses the next pause its own.
\* (Boot may queue a timer again that was executing; that one is due at once.)
NoTimerOutlivesPause ==
    [][\A r \in Runs : runs[r].status = "paused" /\ runs'[r].status # "paused" =>
          "pending" \notin {runs'[r].timer, runs'[r].manual}]_vars

\* A Stop reaches everything that existed below its thread: what is active there
\* and was not told to stop was admitted (or started by a person) after it, and
\* no pause and no queued work of a parent outlives it.
StopReachesAll ==
    \A r \in Runs :
       \/ runs[r].status \in Active /\ ~runs[r].stop
       \/ runs[r].status = "paused"
       \/ runs[r].status = "queued" /\ runs[r].source \in Fenced
       => ~AdmissionStale(r)

\* A run that is stopping is not handed over to a continuation: its Stop would
\* end nothing, and the continue turn would bring the work back.
StopWinsPause == \A r \in Runs : runs[r].stop => runs[r].pause = "none"

\* A pause is continued by exactly one run, and only a pause that ended as
\* resumed is: timer, Resume now and a re-executed effect never start two.
HandedOverOnce ==
    \A r \in Runs :
       Cardinality({n \in Runs : runs[n].continues = r}) = IF runs[r].pause = "resumed" THEN 1 ELSE 0

\* A run that ended keeps its end, whoever writes late: a turn that outlived its
\* run, the reconciler, a second Stop, boot.
TerminalIsFinal ==
    [][\A r \in Runs : runs[r].status \in Terminal =>
          runs'[r].status = runs[r].status]_vars

\* After a crash with a non-idempotent tool call in flight the run is uncertain,
\* so nothing repeats the call without a person; after a drained stop it is not.
CrashUncertain ==
    [][\A r \in Runs : runs[r].status \in Active /\ boots' > boots =>
          (runs'[r].status = "uncertain" <=> runs[r].unsafe /\ ~ended)]_vars

-----------------------------------------------------------------------------
(* Liveness, under FairSpec.                                                *)

\* A run that was told to stop ends, whatever its turn does.
StoppedRunEnds ==
    \A r \in Runs : (runs[r].stop /\ IsActive(r)) ~> runs[r].status \in Terminal

\* A run whose turn is gone without having recorded its end is ended.
SilentRunEnds ==
    \A r \in Runs : (turn[r] = "none" /\ runs[r].status \in {"running", "finalizing"}) ~> runs[r].status \in Terminal

\* A queued send whose turn.start died is started again while its thread is idle.
StrandedRunRestarts ==
    \A r \in Runs :
       (/\ runs[r].status = "queued" /\ runs[r].start = "dead"
        /\ runs[r].source = "person" /\ ~runs[r].viaQueue)
          ~> \/ runs[r].status # "queued"
             \/ runs[r].start \in Live
             \/ ActiveOn(runs[r].thread) # {}

\* A pause with a time on it ends, or shows that it will not end by itself.
TimedPauseEnds ==
    \A r \in Runs :
       (runs[r].status = "paused" /\ runs[r].pause = "timed")
          ~> \/ runs[r].status # "paused" \/ runs[r].pause # "timed"
             \/ "failed" \in {runs[r].timer, runs[r].manual}
             \/ runs[MaxRuns].status # "absent"

-----------------------------------------------------------------------------
(* What the comments of the code say and the code does not do.              *)

\* A local action is created and marked running, or ends (the comment of
\* runLocalAction): its run does not stay queued.
LocalActionLeavesQueue ==
    \A r \in Runs :
       (runs[r].source = "undo" /\ runs[r].status = "queued") ~> runs[r].status # "queued"

\* Held work that was admitted before a pause waits for its end (the comment of
\* PAUSE_HELD_SOURCES), also one that rule 5 started again after a restart: nothing
\* but a Stop or a cancelled queue item ends it.
HeldWorkWaits ==
    [][\A r \in Runs :
          /\ runs[r].status = "queued" /\ runs[r].source = "schedule" /\ ~runs[r].viaQueue
          /\ runs[r].start = "pending" /\ turn[r] = "none"
          /\ PausedOn(runs[r].thread) # {}
          /\ generation' = generation /\ up'
          => runs'[r].status = "queued"]_vars

\* The session's admission is held for a turn.start that will be claimed and let
\* it go (startTurn: "until the executor runs"; ThreadSession.turnAdmitted).
AdmissionIsOwned ==
    \A r \in Runs : turn[r] = "admitted" => runs[r].start \in Live

\* A queued run that never had a turn.start is on the message queue, or its send is
\* still at it (the comment of strandedQueuedRuns).
UnstartedIsWaiting ==
    \A r \in Runs :
       up /\ runs[r].status = "queued" /\ runs[r].source # "undo" /\ runs[r].start = "none"
          => runs[r].viaQueue \/ turn[r] \in {"sending", "held"}
=============================================================================
