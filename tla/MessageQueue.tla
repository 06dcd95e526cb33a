---------------------------- MODULE MessageQueue ----------------------------
(***************************************************************************)
(* The message queue of one thread: the queue file with its claims         *)
(* (queue/), the journal of agents' commands in the run database           *)
(* (queue/queueJournal.ts), and the drains, turns and steers of            *)
(* orchestrator/OrchestratorService.ts that consume the queue.  One        *)
(* process owns the thread, so an operation is a sequence of writes that   *)
(* only the end of the process can cut short: an action computes the       *)
(* states of the disk after each write, and either all of them happen or   *)
(* a crash leaves one of them for the next boot.                           *)
(***************************************************************************)
EXTENDS Naturals, FiniteSets, Sequences, SequencesExt

CONSTANTS
    Messages,           \* texts a person sends or an agent queues
    None,
    Setups,             \* what a behaviour may have: [may, crashes]
    MaxCommands,        \* bound: commands of agents
    MaxDrains,          \* bound: texts a provider was handed and has not answered for
    MaxFaults,          \* bound: transactions of a command's effects that fail
    MaxAttempts         \* QUEUE_COMMAND_MAX_ATTEMPTS

ASSUME QueueAssumption == /\ MaxAttempts \in Nat \ {0} /\ None \notin Messages
                          /\ MaxFaults \in Nat /\ MaxCommands \in Nat

VARIABLES
    disk,       \* the queue file, the command journal, the runs and the transcript
    turn,       \* memory: the drain, admission or live turn, and its steers
    setup,      \* the operations and crashes still allowed
    faults      \* failed transactions so far

vars == <<disk, turn, setup, faults>>

\* The run a person's send makes, and the one a drain makes for an item without a run.
Runs == Messages \X {"sent", "made"}

\* own: the item names the run of its send; bound: the run a promotion was checked
\* against; live: the process that claimed it is alive.
NoItem == [state |-> "absent", own |-> FALSE, bound |-> None, live |-> FALSE]
Queued(own) == [NoItem EXCEPT !.state = "pending", !.own = own]

\* held: pendingSteer; drained: drainedExternalSteerIds; drains: what was handed to the
\* provider, by token.
NoTurn == [phase |-> "idle", item |-> None, run |-> None, held |-> {}, drained |-> {}, drains |-> {}]

Init ==
    /\ disk = [file |-> [m \in Messages |-> NoItem],
               journal |-> <<>>,
               runs |-> [r \in Runs |-> "none"],
               starts |-> {},                           \* direct sends with a turn.start
               story |-> [m \in Messages |-> 0],        \* how often a text is in the context
               accepted |-> {},                         \* acceptedQueueItemIds
               steers |-> {},                           \* acceptedSteerItemIds
               gone |-> {},                             \* history: removed, or refused a start
               torn |-> [m \in Messages |-> 0]]         \* history: readings of direct sends that a crash cut
    /\ turn = NoTurn /\ setup \in Setups /\ faults = 0

May(op) == op \in setup.may

Active(d) == IF \E r \in Runs : d.runs[r] = "active" THEN CHOOSE r \in Runs : d.runs[r] = "active" ELSE None

\* Only runs that still wait end with their item.
Cancelled(runs, set) == [r \in Runs |-> IF r \in set /\ runs[r] = "queued" THEN "cancelled" ELSE runs[r]]

Demoted(item) == IF item.state = "steering" THEN [item EXCEPT !.state = "pending", !.bound = None] ELSE item

-----------------------------------------------------------------------------
(* The journal of agents' commands.                                          *)

BugEdited(item) == item
Edited(item) == IF item.state = "pending" THEN [item EXCEPT !.own = FALSE] ELSE item

Promoted(item, run) ==
    IF item.state \in {"pending", "steering"}
    THEN [item EXCEPT !.state = "steering", !.own = FALSE, !.bound = run] ELSE item

\* Idempotent against its own effect: an entry met again after a crash changes nothing.
ApplyIntent(d, c) ==
    LET item == d.file[c.item]
        next == CASE c.op = "enqueue" -> IF item = NoItem THEN Queued(FALSE) ELSE item
                  [] c.op = "edit" -> Edited(item)
                  [] c.op = "remove" -> IF item.state = "claimed" THEN item ELSE NoItem
                  [] c.op = "promote" -> IF Active(d) # c.bound THEN [Demoted(item) EXCEPT !.own = FALSE]
                                         ELSE Promoted(item, c.bound)
    IN [d EXCEPT !.file[c.item] = next,
                 !.gone = IF next = NoItem /\ item # NoItem THEN @ \union {c.item} ELSE @]

\* An edit that found its message claimed or steering cancels no run.
ToCancel(d, c) == IF c.op = "edit" /\ d.file[c.item].state # "pending" THEN {} ELSE c.cancels

BugFinished(d, n, cancels, commits) ==
    [d EXCEPT !.runs = IF commits THEN Cancelled(@, cancels) ELSE @, !.journal[n].status = "applied"]
\* The effects and the marker are one transaction; a failure counts against the entry.
Finished(d, n, cancels, commits) ==
    IF commits THEN [d EXCEPT !.runs = Cancelled(@, cancels), !.journal[n].status = "applied"]
    ELSE [d EXCEPT !.journal[n].attempts = @ + 1,
                   !.journal[n].status = IF d.journal[n].attempts + 1 >= MaxAttempts THEN "failed"
                                         ELSE "effects_pending"]

BugUnfinished(d) == {n \in DOMAIN d.journal : d.journal[n].status = "pending"}
Unfinished(d) == {n \in DOMAIN d.journal : d.journal[n].status \in {"pending", "effects_pending"}}

\* What the recovery of an entry writes.
Finishing(d, n, commits) ==
    LET c == d.journal[n]
        saved == ApplyIntent(d, c)
    IN IF c.status = "pending" THEN <<saved, Finished(saved, n, ToCancel(d, c), commits)>>
       ELSE <<Finished(d, n, c.cancels, commits)>>

\* The disk after each write of a recovery, oldest entry first; it precedes every change.
Recovery(start, failing) ==
    LET done[n \in 0..Len(start.journal)] ==
            IF n = 0 THEN <<start>>
            ELSE IF n \notin Unfinished(start) THEN done[n - 1]
            ELSE done[n - 1] \o Finishing(Last(done[n - 1]), n, n \notin failing)
    IN IF Unfinished(start) = {} THEN <<start>> ELSE done[Len(start.journal)]

\* The entries whose effects do not commit this time.
Failing == {set \in SUBSET (Unfinished(disk) \union {Len(disk.journal) + 1}) : faults + Cardinality(set) <= MaxFaults}

-----------------------------------------------------------------------------
(* A sequence of writes, and the crash that cuts it short.                   *)

\* A direct send whose turn.start has not marked its run yet: boot cancels the effect, which strands it.
Unmarked(d) == {m \in d.starts : d.runs[<<m, "sent">>] = "queued"}

\* Boot ends what was active; the claims of the process before have a dead owner.
Booted(d) ==
    [d EXCEPT !.runs = [r \in Runs |-> IF @[r] = "active" THEN "ended" ELSE @[r]],
              !.file = [m \in Messages |-> [@[m] EXCEPT !.live = FALSE]],
              !.torn = [m \in Messages |-> IF m \in Unmarked(d) THEN d.story[m] ELSE @[m]]]

Writes(disks, next, failing) ==
    /\ faults' = faults + Cardinality(failing)
    /\ \E written \in {disks} :
       \/ disk' = Last(written) /\ turn' = next /\ UNCHANGED setup
       \/ /\ setup.crashes > 0 /\ setup' = [setup EXCEPT !.crashes = @ - 1]
          /\ \E n \in 1..Len(written) - 1 : disk' = Booted(written[n])
          /\ turn' = NoTurn

Restart ==
    /\ setup.crashes > 0 /\ setup' = [setup EXCEPT !.crashes = @ - 1]
    /\ disk' = Booted(disk) /\ turn' = NoTurn /\ UNCHANGED faults

\* The timer of a failed entry, and the repair at boot.
Repair ==
    /\ Unfinished(disk) # {}
    /\ \E failing \in Failing : /\ failing \subseteq Unfinished(disk)
                                /\ Writes(Recovery(disk, failing), turn, failing)

-----------------------------------------------------------------------------
(* What persons and agents do to the queue.                                  *)

Fresh(m) ==
    /\ disk.runs[<<m, "sent">>] = "none"
    /\ \A n \in DOMAIN disk.journal : ~(disk.journal[n].op = "enqueue" /\ disk.journal[n].item = m)

Steered(t, m) == [t EXCEPT !.held = @ \union {m}]

\* An idle thread takes a person's message as a turn, past whatever is queued.
SendNow(m) ==
    /\ May("now") /\ Fresh(m) /\ turn.phase = "idle"
    /\ LET sent == [disk EXCEPT !.runs[<<m, "sent">>] = "queued"]
       IN Writes(<<disk, sent, [sent EXCEPT !.starts = @ \union {m}]>>,
                 [NoTurn EXCEPT !.phase = "ready", !.run = <<m, "sent">>], {})

\* The reconciler starts a stranded run again, with the payload of its turn.start (queuedStarts): as a turn
\* of its own (executeTurnStartEffect), or it fails against one that was admitted meanwhile
\* (runTurnOnSession).  A live turn has the lane.
RestartSend(m) ==
    /\ m \in Unmarked(disk) /\ turn.run # <<m, "sent">> /\ turn.phase # "live"
    /\ IF turn.phase = "idle"
       THEN /\ turn' = [NoTurn EXCEPT !.phase = "ready", !.run = <<m, "sent">>]
            /\ UNCHANGED <<disk, setup, faults>>
       ELSE Writes(<<disk, [disk EXCEPT !.runs[<<m, "sent">>] = "ended", !.gone = @ \union {m}]>>, turn, {})

SendLater(m) ==
    /\ May("later") /\ Fresh(m) /\ turn.phase # "idle"
    /\ \E failing \in Failing :
        LET sent == [disk EXCEPT !.runs[<<m, "sent">>] = "queued"]
            past == Recovery(sent, failing)
        IN /\ failing \subseteq Unfinished(disk)
           /\ Writes(<<disk>> \o past \o <<[Last(past) EXCEPT !.file[m] = Queued(TRUE)]>>, turn, failing)

Planned(d, op, m) ==
    [op |-> op, item |-> m, status |-> "pending", attempts |-> 0,
     bound |-> IF op = "promote" THEN Active(d) ELSE None,
     cancels |-> IF d.file[m].own THEN {<<m, "sent">>} ELSE {}]

\* Checked against the recovered queue, journaled, applied to the file, finished.
Command(op, m) ==
    /\ May(op) /\ Len(disk.journal) < MaxCommands
    /\ \E failing \in Failing :
        LET past == Recovery(disk, failing)
            d == Last(past)
            n == Len(d.journal) + 1
            c == Planned(d, op, m)
            entered == [d EXCEPT !.journal = Append(@, c)]
            applied == ApplyIntent(entered, c)
        IN /\ IF op = "enqueue" THEN Fresh(m) ELSE d.file[m].state = "pending"
           /\ op = "promote" => turn.phase = "live"
           /\ Writes(past \o <<entered, applied, Finished(applied, n, c.cancels, n \notin failing)>>,
                     IF op = "promote" THEN Steered(turn, m) ELSE turn, failing)

\* A person's change is not journaled: the run is cancelled after the save.
PersonRemoves(m) ==
    /\ May("person removes") /\ disk.file[m].state \in {"pending", "steering"}
    /\ \E failing \in Failing :
        LET past == Recovery(disk, failing)
            d == Last(past)
            saved == [d EXCEPT !.file[m] = NoItem, !.gone = @ \union {m}]
            own == IF d.file[m].own THEN {<<m, "sent">>} ELSE {}
        IN /\ failing \subseteq Unfinished(disk) /\ d.file[m].state \in {"pending", "steering"}
           /\ Writes(past \o <<saved, [saved EXCEPT !.runs = Cancelled(@, own)]>>, turn, failing)

PersonPromotes(m) ==
    /\ May("person promotes") /\ turn.phase = "live"
    /\ \E failing \in Failing :
        LET past == Recovery(disk, failing)
            d == Last(past)
            saved == [d EXCEPT !.file[m] = Promoted(@, turn.run)]
            own == IF d.file[m].own THEN {<<m, "sent">>} ELSE {}
        IN /\ failing \subseteq Unfinished(disk)
           /\ \/ d.file[m].state = "pending"
              \/ d.file[m].state = "steering" /\ May("promote twice")
           /\ Writes(past \o <<saved, [saved EXCEPT !.runs = Cancelled(@, own)]>>, Steered(turn, m), failing)

-----------------------------------------------------------------------------
(* A drain claims a message and hands it to a turn.                          *)

BugReclaimed(d, m) ==
    LET item == d.file[m] IN
    IF item.state # "claimed" \/ item.live THEN item ELSE [item EXCEPT !.state = "pending"]
\* A claim whose message is in the transcript is complete, whoever holds it.
Reclaimed(d, m) ==
    LET item == d.file[m] IN
    CASE item.state # "claimed" -> item
      [] item.state = "claimed" /\ m \in d.accepted -> NoItem
      [] item.state = "claimed" /\ m \notin d.accepted /\ item.live -> item
      [] OTHER -> [item EXCEPT !.state = "pending"]

\* With no ids to drop, every steer goes.
DropSteerItems(file, ids) ==
    [m \in Messages |-> IF file[m].state = "steering" /\ (ids = {} \/ m \in ids) THEN NoItem ELSE file[m]]

Cleaned(d) ==
    LET kept == DropSteerItems([m \in Messages |-> Reclaimed(d, m)], d.steers)
    IN [d EXCEPT !.file = [m \in Messages |-> Demoted(kept[m])]]

\* Which pending message is the first one is left open.
Drain ==
    /\ turn.phase = "idle"
    /\ \E failing \in Failing :
        LET past == Recovery(disk, failing)
            d == Cleaned(Last(past))
            waiting == {m \in Messages : d.file[m].state = "pending"}
        IN /\ failing \subseteq Unfinished(disk)
           /\ \/ waiting = {} /\ Writes(Append(past, d), turn, failing)
              \/ \E m \in waiting :
                    Writes(Append(past, [d EXCEPT !.file[m].state = "claimed", !.file[m].live = TRUE]),
                           [NoTurn EXCEPT !.phase = IF d.file[m].own THEN "ready" ELSE "claimed",
                                          !.item = m,
                                          !.run = <<m, IF d.file[m].own THEN "sent" ELSE "made">>], failing)

\* The receipt of "queue:<item>" answers with the run a drain before made.
EnsureRun ==
    /\ turn.phase = "claimed"
    /\ disk' = [disk EXCEPT !.runs[turn.run] = IF @ = "none" THEN "queued" ELSE @]
    /\ turn' = [turn EXCEPT !.phase = "ready"]
    /\ UNCHANGED <<setup, faults>>

Completed(d, m) == IF d.file[m].state = "claimed" THEN [d EXCEPT !.file[m] = NoItem] ELSE d

\* The message and its id are accepted in one write, then the claim is completed, then the
\* run is marked starting.
Accept ==
    /\ turn.phase = "ready" /\ disk.runs[turn.run] = "queued"
    /\ \E failing \in Failing :
        LET m == turn.run[1]
            accepted == [disk EXCEPT !.story[m] = @ + 1,
                                     !.accepted = IF turn.item = None THEN @ ELSE @ \union {m}]
            past == IF turn.item = None THEN <<accepted>> ELSE Recovery(accepted, failing)
            completed == IF turn.item = None THEN <<>> ELSE <<Completed(Last(past), m)>>
            d == [Last(past \o completed) EXCEPT !.accepted = @ \ {m}]
        IN /\ failing \subseteq (IF turn.item = None THEN {} ELSE Unfinished(disk))
           /\ Writes(<<disk>> \o past \o completed \o <<d, [d EXCEPT !.runs[turn.run] = "active"]>>,
                     [turn EXCEPT !.phase = "live", !.item = None], failing)

\* A turn.start that may not start any more (its thread expired, it was admitted before a
\* Stop), or whose run has ended: the run ends and its message leaves the queue.
SkipUnstartable ==
    /\ turn.phase = "ready" /\ (May("refuse") \/ disk.runs[turn.run] # "queued")
    /\ \E failing \in Failing :
        LET refused == IF disk.runs[turn.run] # "queued" THEN disk
                       ELSE [disk EXCEPT !.runs[turn.run] = "cancelled", !.gone = @ \union {turn.run[1]}]
            past == Recovery(refused, failing) IN
        /\ failing \subseteq Unfinished(disk)
        /\ Writes(<<disk>> \o (IF turn.item = None THEN <<refused>>
                                ELSE Append(past, Completed(Last(past), turn.item))),
                  NoTurn, failing)

\* A turn that fails before it accepts: the claim is given back, the run stays with it.
Unstarted ==
    /\ May("fail") /\ turn.phase = "ready" /\ turn.item # None /\ disk.runs[turn.run] = "queued"
    /\ \E failing \in Failing :
        LET past == Recovery(disk, failing) IN
        /\ failing \subseteq Unfinished(disk)
        /\ Writes(Append(past, [Last(past) EXCEPT !.file[turn.item].state = "pending",
                                                  !.file[turn.item].live = FALSE]), NoTurn, failing)

-----------------------------------------------------------------------------
(* The steers of a live turn.                                                *)

MayTake(item, run) == item.bound = run

\* The turn's own steers and the promoted messages bound to its run; a message bound to
\* another run goes back before any text is taken.
DrainSteers ==
    /\ turn.phase = "live" /\ Cardinality(turn.drains) < MaxDrains
    /\ \E failing \in Failing :
        LET others == {m \in Messages : disk.file[m].state = "steering"} \ (turn.held \union turn.drained)
            taken == turn.held \union {m \in others : MayTake(disk.file[m], turn.run)}
            back == {m \in others : ~MayTake(disk.file[m], turn.run)}
            past == Recovery(disk, failing)
            d == [Last(past) EXCEPT !.file = [m \in Messages |-> IF m \in back THEN Demoted(@[m]) ELSE @[m]]]
        IN /\ taken \union back # {}
           /\ failing \subseteq (IF back = {} THEN {} ELSE Unfinished(disk))
           /\ Writes(IF back = {} THEN <<disk>> ELSE Append(past, d),
                     [turn EXCEPT !.held = {}, !.drained = @ \union taken,
                                  !.drains = IF taken = {} THEN @ ELSE @ \union {taken}], failing)

\* steerAccepted: the text and the ids of everything drained are made durable, then those
\* items are dropped, then the ids.
SteersTaken(texts) ==
    /\ turn.phase = "live" /\ texts \in turn.drains
    /\ \E failing \in Failing :
        LET durable == [disk EXCEPT !.story = [m \in Messages |-> IF m \in texts THEN @[m] + 1 ELSE @[m]],
                                    !.steers = @ \union turn.drained]
            past == Recovery(durable, failing)
            acked == [Last(past) EXCEPT !.file = DropSteerItems(@, turn.drained)]
        IN /\ failing \subseteq (IF turn.drained = {} THEN {} ELSE Unfinished(disk))
           /\ Writes(IF turn.drained = {} THEN <<disk, durable>>
                     ELSE <<disk>> \o past \o <<acked, [acked EXCEPT !.steers = @ \ turn.drained]>>,
                     [turn EXCEPT !.drained = {}, !.drains = @ \ {texts}], failing)

SteersReturned(texts) ==
    /\ May("return") /\ turn.phase = "live" /\ texts \in turn.drains
    /\ turn' = [turn EXCEPT !.held = @ \union texts, !.drained = @ \ texts, !.drains = @ \ {texts}]
    /\ UNCHANGED <<disk, setup, faults>>

\* What was never read goes back: demoted in place, or queued again if it is gone.
Settled(d, unread) ==
    [d EXCEPT !.file = [m \in Messages |-> IF m \notin unread THEN @[m]
                                           ELSE IF @[m] = NoItem THEN Queued(FALSE) ELSE Demoted(@[m])]]

TurnEnds ==
    /\ turn.phase = "live" /\ turn.drains = {}
    /\ \E failing \in Failing :
        LET ended == [disk EXCEPT !.runs[turn.run] = "ended"]
            past == Recovery(ended, failing)
        IN /\ failing \subseteq (IF turn.held = {} THEN {} ELSE Unfinished(disk))
           /\ Writes(IF turn.held = {} THEN <<disk, ended>>
                     ELSE <<disk>> \o Append(past, Settled(Last(past), turn.held)), NoTurn, failing)

\* A Stop, or a provider that fails: what was handed over or held is forgotten.
TurnStops ==
    /\ May("stop") /\ turn.phase = "live"
    /\ Writes(<<disk, [disk EXCEPT !.runs[turn.run] = "ended"]>>, NoTurn, {})

-----------------------------------------------------------------------------
Next ==
    \/ \E m \in Messages : \/ SendNow(m) \/ RestartSend(m) \/ SendLater(m) \/ PersonRemoves(m) \/ PersonPromotes(m)
                           \/ \E op \in {"enqueue", "edit", "remove", "promote"} : Command(op, m)
    \/ Drain \/ EnsureRun \/ Accept \/ SkipUnstartable \/ Unstarted
    \/ DrainSteers \/ TurnEnds \/ TurnStops
    \/ \E texts \in turn.drains : SteersTaken(texts) \/ SteersReturned(texts)
    \/ Restart \/ Repair

Spec == Init /\ [][Next]_vars

\* A failed entry schedules a repair, boot makes one, and both come again while one is due.
FairSpec == Spec /\ WF_vars(Repair)

-----------------------------------------------------------------------------
(* Properties.                                                               *)

\* A text reaches the model once: as the message of a turn or as a steer, whatever crashed
\* between the transcript and the queue file.  Only a direct send that a crash cut between its
\* transcript and the mark on its run is read once more, by the restart of that run.
ReadOnce == \A m \in Messages : disk.story[m] <= 1 + disk.torn[m]

\* The same without that exception, which the restart breaks.
EachTextOnce == \A m \in Messages : disk.story[m] <= 1

Left(m) == disk.file[m] # NoItem /\ disk'.file[m] = NoItem
Read(m) == disk'.story[m] > 0

\* A message that waits or is claimed leaves the queue only when the conversation has it or
\* someone removed it.
NothingLost ==
    [][\A m \in Messages : Left(m) /\ disk.file[m].state # "steering" => Read(m) \/ m \in disk'.gone]_vars

\* So does a message that was promoted: a turn that ends without reading it leaves it queued
\* (the comment of promoteQueueItemToSteer).
PromotedIsKept ==
    [][\A m \in Messages : Left(m) /\ disk.file[m].state = "steering" => Read(m) \/ m \in disk'.gone]_vars

\* The queue and the runs agree: a finished command has ended the run its message gave up,
\* and the run of a message that waits still waits.
RunsFollowItems ==
    /\ \A n \in DOMAIN disk.journal :
          disk.journal[n].status = "applied" => \A r \in disk.journal[n].cancels : disk.runs[r] # "queued"
    /\ \A m \in Messages :
          disk.file[m].state = "pending" /\ disk.file[m].own /\ m \notin disk.gone =>
              disk.runs[<<m, "sent">>] = "queued"

\* A command that was journaled is applied or given up.
EveryCommandEnds ==
    \A n \in 1..MaxCommands :
        Len(disk.journal) = n ~>
            n \in DOMAIN disk.journal /\ disk.journal[n].status \in {"applied", "failed"}

\* A message that was removed is not read afterwards.
RemovedIsGone == [][\A m \in disk.gone : disk'.story[m] = disk.story[m]]_vars
=============================================================================
