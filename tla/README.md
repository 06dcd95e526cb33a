# TLA+ models of Mousse's daemon

Mousse is a local orchestrator of coding agents. One daemon per profile (the MMS process) owns the
threads, their runs and their queues; the GUI, the CLI and remote clients are thin and only send
commands (`docs/ARCHITECTURE.md`). The part of it that is hardest to get right is the run engine,
`src/src/mms/run/`: SQLite tables for runs, effects, notices and approvals, written by commands, by the
hooks of live turns, by a worker's fibres, by a reconciler and by boot recovery
(`docs/run-engine/SPEC.md`: invariants in §2, lifecycle in §5, effects in §12, boot in §12.5). Around
it stand a mutex, a message queue in files, and a protocol that carries commands and events between the
daemon and its windows. These modules model that engine and what stands around it, check it with TLC on
small instances, and prove main safety properties for every instance with TLAPS.

Paths below are relative to `src/src/mms/` unless they start with `docs/`.

| file | what it is |
| --- | --- |
| `EffectOutbox.tla` | the effects table, the worker's fibres, daemon epochs |
| `RunEngine.tla` | runs, turns, usage-limit pauses, Stops, the reconciler, boot |
| `NoticeDelivery.tla` | delegated tasks, the notices that carry their results, wakes, steers, queue items |
| `ThreadApprovals.tla` | approval requests, standing rules, continuations after a restart |
| `ThreadMutex.tla`, `AbstractLock.tla` | the mutex of a thread, and the lock it implements |
| `EventStream.tla` | the event rings, the subscribe handshake, a window's cursor |
| `ClientRequests.tla` | the request layer of a client: slots, timeouts, retries, shared reads |
| `MessageQueue.tla` | a thread's message queue: queue file, command journal, drains, promotions, steers |
| `MC*.tla`, `*.cfg` | the TLC instances |
| `EffectOutboxProofs.tla`, `RunEngineProofs.tla`, `ThreadMutexProofs.tla`, `ClientRequestsProofs.tla`, `ThreadApprovalsProofs.tla`, `EventStreamProofs.tla`, `NoticeDeliveryProofs.tla`, `NoticeReadProofs.tla` | the theorems |
| `PROJECT.json` | components, runs, the source lines of every definition, hazards, findings, theorems |

To check: `tlc -config RunPauses.cfg MCRunEngine.tla`, `tlapm RunEngineProofs.tla`. The instances that
`PROJECT.json` lists are those of section 4; the other `.cfg` files reproduce the disagreements of
section 5, each with one property that TLC finds violated.

## 1. The system

### 1.1 Inventory

**Effect outbox and worker** (`run/EffectOutbox.ts`, `run/EffectWorker.ts`). State: the `effects`
table (kind, lane, status, attempts, available_at, lease owner and expiry); in memory the fibres, the
`running` map of abort controllers, the executors that outlived the race that gave up on them.
Operations: enqueue, claimNext, renewLease, succeed, fail, defer, cancel, reclaimExpired,
cancelProcessBound and requeueRunningReplaySafe at boot, and the worker's cancelInFlight and stop. Hard:
executions outlive deadlines and leases; a cancel is a transaction followed by an abort; boot meets
the table of a daemon that died anywhere. Correct when: effects that drive a model or deliver user
input run at most once; a lane is first in, first out; a cancel reaches the execution; nothing stays
leased to a dead daemon; a settled row is settled; every effect settles in the end.

**Runs, pauses and Stops** (`run/RunEngine.ts`, `RunStore.ts`, `terminal.ts`, `stopGeneration.ts`).
State: the `runs` table with an epoch per row, the stop generation of each thread, and the engine's own
memory of epochs. Operations: commitSend, the mark hooks of a turn, pauseRun, endPause,
requestResume, stopSubtree, commitControl, cancelQueuedRun, runLocalAction, reconcileOnBoot. Hard:
the engine is synchronous but everything around it is not, so any two commands may come between two
hooks of a turn. Correct when: a thread has one owner; the engine's memory of an epoch is never
behind for a run that can still change; ends are final; a pause that names a time is continued once
or shows that it will not be; a Stop reaches all that existed and nothing that came after.

**Reconciler** (`run/Reconciler.ts`, `strandedRuns.ts`). No state of its own; every 5 s six rules
repair what the others lost: expired leases (1), silent runs (2), Stops whose interrupt is over (3),
pending inbox rows (4), stranded queued runs (5), tool calls of ended runs (6). It writes the store
without the engine's memory, while turns are alive.

**Daemon epochs** (`run/DaemonEpoch.ts`). One row per boot; `ended_at` only after a drained stop. Its
absence is how boot knows of a crash.

**Sessions and the orchestrator** (`orchestrator/ThreadSession.ts`, `orchestrator/OrchestratorService.ts`).
In memory: `turnAdmitted` and the active turn of a thread, `staleRuns`, the steers a turn holds, the
registries of a turn. It is the executor of `turn.start`, `turn.steer`, `turn.interrupt` and
`run.resume`, the caller of all hooks, and the drain of the queue. Hard: awaits between the commit of a
send and the admission of its turn; the same admission is released by executors, refusals, drains and
shutdown. Correct when: an admission is held for a turn that exists; whatever its turn does, a run ends.

**Delegations, inbox, hold, wake** (`run/Delegations.ts`, `Inbox.ts`, `delegation/`). State: lineage,
delegation and inbox rows. A subagent's result is published when the subagent is no longer busy (five
inputs, `delegation/hold.ts`), delivered by a wake, a steer, a queue item or a person's turn, given back
when that delivery fails, and acknowledged. Correct when: published once and not early, read once,
never lost when its carrier dies, given up only with a notice.

**Thread approvals** (`run/ThreadApprovals.ts`, `orchestrator/UserQuestionService.ts`). Approval rows,
standing rules, continuation grants; in memory the callbacks of the providers that wait. Correct when: an
allow lets one call run; an answer given after a restart reaches the thread once; a Stop retires what
nobody may use any more; a card that is shown can be answered.

**Thread mutex** (`run/ThreadMutex.ts`). A FIFO lock per key with a timeout. Correct when: one holder,
hand-over in order, no lost lock when a waiter times out at the hand-over, no call waits for ever.

**Message queue, journal, execution lease** (`queue/`). `queue.json` per thread with claims, a command
journal in the run database, a lock file per thread that several processes create and reclaim. Correct
when: an item runs once across the three stores; a command is applied once; two processes never own a
thread. **Daemon ownership** (`ownership/MmsOwnerLease.ts`) has the shape of the execution lease, one
level up.

**Protocol** (`protocol/`, `main/mms/GuiMmsController.ts`): a ring per profile with a sequence and a bound,
a handshake that replays what a client missed, a cursor in the client, windows that switch profiles over
one connection; and requests with slots, a line, timeouts and retries. Correct when: no event is lost in
silence or shown late; a change is applied once; every call ends.

**Tool invocations** (`run/ToolInvocations.ts`): a row per call, `started` before, `committed` or
`failed` after. **Hand-offs** (`run/handoff/`): forks and merge-backs as one-shot transfers.
**Scheduled jobs** (`scheduled/`): occurrences reserved, started and settled by runs. **Workflow engine**
(`workflows/engine/`): a durable interpreter of its own. **Bots, bridge, network, spaces**: subsystems
over the engine. **Harness and providers**: external agents. **GUI, CLI, Electron, sshd helper**: clients.

`PROJECT.json` lists them all with a status, and the hazards at their lines.

### 1.2 How the parts meet

A send commits a run and its event in one transaction, then, after an await, either puts its message on
the queue or admits the session and enqueues `turn.start`. A fibre claims the effect; the executor
checks the run again, prepares, and calls `markStarting`, which makes the run the thread's owner. The
turn then calls the hooks, each a compare-and-set on the epoch the engine remembers. A usage limit
turns a running run into a paused one with a `run.resume` effect; the effect's executor writes a
continue message to the queue; the drain of that message creates the continuation and ends the pause
in one transaction. A Stop raises the generation of a thread and everything below it, ends paused
and queued work, marks what is active, and enqueues interrupts. The reconciler and boot repair the
rest.

A turn may delegate: a run of the child, a task row for its parent. When the child is quiet the task
publishes and an inbox row waits for the parent: rule 4 gives it to a wake run of an idle parent or to a
`turn.steer` of a live one, and a steer that misses its turn becomes a queue item. A tool call that needs
consent asks through an approval row and a callback; a restart turns what was open into something that
continues the thread. The decisions about one thread are made under its mutex. Each commit pushes
events into the ring of the profile, and the windows, which asked for all this with requests, show them.

## 2. What is modelled

### 2.1 `EffectOutbox`

| model | code |
| --- | --- |
| `effects` | the table; `due` is "available_at has passed", `lease` is "lease_expires_at has not" |
| `fibre`, `inFlight` | what each fibre executes; `EffectWorker.running`, which `cancelInFlight` looks at |
| `unwinding` | executors left behind by a deadline or an abort, which `stop` waits for |
| `worker`, `epoch`, `up`, `ended` | the worker's life, the newest `daemon_epochs` row |
| `claims`, `begun` | history, for the properties only |

One action per operation: `Enqueue`, `CancelTurn`, `CancelPending`; a fibre's `Claim`, `Begin`, `Renew`
and the five ends of an execution (`Succeed`, `Defer`, `Fail`, `Abandon`, `SettleThrows`); `ReclaimExpired`
(rule 1); `LeaseExpires` and `BecomesDue` (time); `StopWorker`, `WorkerStopped`, `EndEpoch`, `Crash`,
`Boot`. A lease is wall-clock time and a deadline is a timer of the process, so a lease can expire under
an execution that goes on (a machine that slept): both orders are in the model. Left out: event rows,
payloads, the order in which `claimNext` picks among free lanes (left open), and the number of fibres
per lane class (a constant).

### 2.2 `RunEngine`

| model | code |
| --- | --- |
| `runs` | the row, plus the effects the engine reads of it: `start`, `interrupt`, the automatic and the manual `run.resume` (`timer`, `manual`), and its continue message on the queue (`item`) |
| `known` | `RunEngine.epochs`, reduced to whether what is remembered is what is stored |
| `turn` | what the process holds for a run: send under way, session admitted, preparing, live |
| `stale` | `OrchestratorService.staleRuns` |
| `generation` | `thread_stop_generations` |
| `up`, `ended`, `boots` | the process, the newest epoch's `ended_at`, the number of boots |

An engine call is synchronous and so one step, with everything it calls. Everything else interleaves:
the send between its commit and its placement (`Send`, `SendPlaced`), the turn's hooks in any order
the engine accepts, timers in their four stages (`TimerClaimed`, `TimerFires` or `TimerStale` or
`TimerFindsPauseEnded`, `TimerSettles`), the two halves of a local action, the Stop of a run and its
interrupt, the reconciler's rules, crash, drained shutdown and boot. What is abstracted:

- Epochs. Every write raises the epoch, so only "the engine's is the stored one" matters. Writers fall
  in three kinds, each an operator: `Remembered` and `Followed` tell the engine, `Overtaken` does not.
- The effects table. A run's effects are fields with the part of their state the engine reads; which
  pending `turn.start` of a thread comes first is left open (that the lane is FIFO is a theorem of
  `EffectOutbox`).
- The end of a run. `completed` and `failed` are one status, "finished"; what nothing reads of an ended
  run any more goes back to its first value.
- Time. The silence window of rule 2 may end at any moment, also for a live turn that said nothing; only
  local actions beat for themselves.
- A turn's end may find the database refusing its write (`stored` FALSE): the code logs and goes on.
- `ToolCall` is enabled only where a crash can still follow, because only boot reads the bit. `Shutdown`
  waits for the turns, as the drained stop does; a stop that gives up on them is a `Crash`.

Not in `RunEngine`: receipts and replays of commands, forks and merge-backs, steers, delegation and inbox
rows (a wake is a run that may come whenever the guard of rule 4 allows it; the rows are
`NoticeDelivery`), the queue item's own life (`viaQueue` is one bit), the path that takes an item past a
drain for a wake or a continuation, thread deletion, bot and definition turns, the retired direct Pi route.

For a schedule, `Send` and `SendPlaced` are apart only by microtasks in the code; the model allows
anything between them, which adds behaviours and hides none.

### 2.3 `NoticeDelivery`

| model | code |
| --- | --- |
| `db` | the run database: runs with their `turn.start`, `turn.steer` effects, tasks (delegations), inbox rows |
| `queue` | the queue file of each thread: items that carry a steer's rows or a person's message, and their claims |
| `turn` | a live turn: the steers it holds unread, those the provider took, a person's steer, whether it was aborted |
| `background` | threads whose provider still runs background work |
| `setup` | what a behaviour may have: threads, providers with native steers or background work, and how many tasks, messages, failures, crashes, Stops and returned steers are left |

A transaction of the code is one step and one operator on `db` (`WriteTerminal`, `Restore`, `WakeThreads`,
`StopWrites`); `Settle` is `settleHold`, called where the code calls it and nowhere else. `Busy` has the
five inputs of `delegation/hold.ts`. A row names its carrier (`by`: a `turn.start`, a steer, a queue item),
and `ToItems` and `ToStart` re-point it as `redirectDelivery` does. `Reconcile` is rule 4 with the rows whose
back-off is over left open; `CrashAndBoot` is a crash followed by the recovery's steps in their order
(`CancelProcessBound`, `CutOff`, `OrphanedChildren`, `RecoverWakes`, `OrphanedFollowUps`,
`RecoverQueuedRows`). What is abstracted or left out: text and the notices' wording; a turn that was
aborted ends "stopped" whatever its provider still says; one person's steer per turn; remote subagents,
the questions a subagent asks its parent, wake policies other than `always`, the integration of a
subagent's workspace, and usage-limit pauses (which are `RunEngine`).

### 2.4 `ThreadApprovals`

| model | code |
| --- | --- |
| `rows` | `approval_requests` of one thread: fingerprint, run, status, `path` (`live` or `continue`), decision and who made it (forgotten once it is delivered: no step reads it then), whether it was delivered, the run that carries it, whether its grant was spent |
| `rules` | the standing rules "Always for this thread" |
| `runs` | the thread's runs as far as approvals read them |
| `effects` | pending `request.respond` effects |
| `waiter` | `UserQuestionService.pending`: a provider's callback, and whether its row was settled meanwhile |
| `due`, `resume` | continuations on their way to `commitSend`; the last step of boot |
| `told` | undelivered answers of which the thread says that they continued nothing (a line of `noteProviderNotice`), since the last boot |
| `acts`, `stopped`, `voided` | history: how often an allow let a tool run, what was asked before a Stop |

One action per operation: `Ask`, `Answer` (with the siblings that "Always" allows), `Respond`, `Reconcile`,
`Withdraw`, `Send` (which denies what is pending and takes along what nobody delivered), `Schedule`,
`Continue` and `Refuse`, `Stop` and `CloseStopped`, `Restart`, `Resume`, `RevokeRule`, and the starts and
ends of runs. `Stop` is the transaction of `stopSubtree`, and `CloseStopped` the two that follow it in the
same turn of the event loop: nothing but the end of the process comes in between.
`startApprovalContinuation` sends without waiting and catches a refusal: `Continue` is a send that is
admitted, that replays an earlier one or finds nothing left to deliver, and `Refuse` any other refusal (the
thread is deleted, expired or a bot's, the transaction fails). A refusal keeps no receipt, so the answer
stays undelivered, the thread says so, and another request of the run, a message, a Stop or the next boot
meets it again. Boot does the same for the answers of a run that may have run a tool: it tells the thread
and leaves the Continue to a person. `NoAnswerForgotten` says that an answer never stays behind without one
of these; it does not promise that the work goes on. The line in the transcript is taken to be written:
`noteProviderNotice` only logs when it cannot be. A turn that was told to stop ignores late answers, so an
allow counts only while its turn works. Not modelled: questions (the same table without grants), permission
modes and the rights of an agent that answers, what a fingerprint is made of, usage-limit pauses, the abort
that a denying message also causes, and questions kept in memory only.

### 2.5 `ThreadMutex` and `AbstractLock`

`locked` and `waiters` are the entries of the map and their lines; `phase` says where a call is.
`Acquire`, `Enter` (the microtask between the hand-over and the function), `Leave` (the function returned
or threw), `Timeout`. `Within` lets a call be made inside the function of another one, which is how a
thread waits for itself. `AbstractLock` is what callers are promised: one line per key, the first has the
lock, anyone behind may give up; `IsALock` is the refinement, with the line of a key read as its holder
followed by its waiters.

### 2.6 `EventStream`

`seq` and `total` are the rings of the profiles and the server's own ring; `session` is the server's
`ClientSession`; `requests` and `wire` are the two directions of a socket, in order and lost when it
closes; `client` is `LocalMmsClient` with the window's session: its cursor, whether a reload is due, the
subscribes in flight, the events held meanwhile, the answers whose continuation (a microtask) has not run.
`since`, `seen` and `late` are history. The controller's base connection subscribes from its cursor, a
window from 0 (`fromCursor`). `Switch` binds another profile over the same connection, and switches may
overlap. `ServeSubscribe` may withhold a replay (the byte budget). A snapshot is the profile's state when
the server reads it. Payloads, thread filters and the GUI's own
store are left out, and so is a subscribe that fails or times out while its connection lives.

### 2.7 `ClientRequests`

`calls` is what each caller sees (waiting for a slot, sent, between two attempts, sharing another call's
answer, over), `shared` the one key of `sharedReads`, `slotWaiters` the line, `requests` and `responses` the
socket, `running` what the server has admitted. The server admits a request or refuses it for overload
before it runs; handlers finish in any order or never. `applied` counts how often a change ran, and
`asked` remembers the changes that had been answered when a read was asked. A server that is gone is
`Disconnect`; the next connection is a new client.

### 2.8 `MessageQueue`

| model | code |
| --- | --- |
| `disk.file` | `queue.json` of one thread: per message whether it waits, is claimed or steering, whether it names its send's run (`own`), the run a promotion was bound to, whether the process that claimed it lives |
| `disk.journal` | `queue_commands`: what each agent's command changes, the runs it cancels, `pending`, `effects_pending`, `applied` or `failed` |
| `disk.runs`, `disk.story` | the runs of the messages; how often a text is in the transcript |
| `disk.starts`, `disk.torn` | direct sends that recorded their `turn.start`; history: how often the text of such a send was in the transcript when boot found its run still queued |
| `disk.accepted`, `disk.steers` | `acceptedQueueItemIds`, `acceptedSteerItemIds` |
| `turn` | the drain, admission or live turn, with `pendingSteer` (`held`), `drainedExternalSteerIds` (`drained`) and what the provider was handed and has not answered for (`drains`) |

An operation on the queue writes the file, the database and the transcript one after the other, in one
process that owns the thread, under the thread's lifecycle gate. An action therefore computes the disk after
each of its writes (`Writes`), and either all of them happen or a crash leaves one. `Recovery`, which redoes
unfinished commands oldest first and may find their effects failing again, precedes every change, as
`mutateDurableQueue` has it. `RestartSend` is rule 5 of the reconciler for a direct send that a crash
stranded (`run/strandedRuns.ts`, `run/Reconciler.ts:256`, then `executeTurnStartEffect`): the run is
accepted once more with the same payload, or fails if a drain or another send was admitted before it.
Messages of the queue are left to the next drain, as in the code. Left out: the order of the queue and
`reorder` (which pending message a drain takes is open), a person's edit, replays of a command's key
(`QueueCommands.begin` answers them from the journal), permissions, workflow items, attachments. A write of
the file itself does not fail.

Definitions named `Bug...` (and `...OffByOne`, `...OutOfOrder` and the like in `EffectOutbox`) stand next to
the definition they distort. No action uses them: they are what the mutation runs put in place of the
original, to show that each property can fail.

## 3. Hazards and properties

| hazard | properties |
| --- | --- |
| a one-shot effect executed twice through deadline, deferral, reclaim or restart | `OneShotRunsOnce` |
| a lane overtaken while its head waits out a backoff | `LaneFIFO` |
| rows leased to a dead daemon; writes after an ended epoch | `NoDeadOwner` |
| a stale claim's result that settles the claim after it | `StuckResultDiscarded` (section 5, 8: it does) |
| a hung executor or a crash that leaves an effect for ever | `EveryEffectSettles` |
| two owners of a thread | `OneOwnerPerThread` |
| a writer that does not tell the engine's memory, so the turn goes silent | `EngineEpochCurrent` |
| a run that comes back after its end | `TerminalIsFinal` |
| a tool call repeated after a crash | `CrashUncertain` |
| a pause that shows a time and is continued by nothing, or twice | `PausePromise`, `TimedPauseEnds`, `HandedOverOnce` |
| a timer that outlives its pause and holds the resume lane | `NoTimerOutlivesPause` |
| work that survives a Stop; a Stop that a usage limit undoes | `StopReachesAll`, `StopWinsPause` |
| a run whose interrupt, turn or `turn.start` was lost | `StoppedRunEnds`, `SilentRunEnds`, `StrandedRunRestarts` |
| a result published early, late or never; an answer replaced after its publication | `HoldIsCurrent`, `AnswerIsFinal`, `TaskEnds` |
| a notice lost with its carrier, read twice, or moved from carrier to carrier for ever | `ReadOnce`, `NoticeEnds` |
| a redelivery count spent by what is no failure; a message ended by boot with its run | `GivesUpAfterFailures`, `MessageKept` (section 5, 14 and 15) |
| an allow used twice, or after a Stop | `ActedOnce`, `NothingAfterStop` |
| a card whose answer nobody can use; an answer that is forgotten or whose continuation is refused, or two continuations of one run | `CardIsCurrent`, `NoAnswerForgotten`, `AnswersTogether` |
| a lock lost when a waiter times out at the hand-over; calls that wait for each other | `IsALock`, `EveryCallSettles` |
| events lost in silence or shown late around a subscribe, a lost connection, a second subscribe | `NoSilentGap`, `LiveInOrder`, `SentIsShown` |
| events compared with the cursor of another ring after a switch of profile | `NoSilentGap` with two profiles (section 5, 7: it fails) |
| a change applied twice by a retry; calls that wait beside a free slot, or for ever | `RetrySafe`, `NoIdleSlot`, `EveryCallEnds` |
| a shared read older than a change its caller has seen | `ReadSeesChange` (section 5, 12: it is) |
| a text read twice or lost between file, database and transcript | `ReadOnce`, `NothingLost` (`MessageQueue`; a direct send is read twice, section 5, 17) |
| a command whose effects are lost, or undone by what comes between | `RunsFollowItems`, `EveryCommandEnds` |

## 4. Runs

All with two TLC workers; distinct states in parentheses.

| run | instance | shows |
| --- | --- | --- |
| `outbox` (329,493) | 1 thread, 2 rows of turn, timer or interrupt, 4 fibres (2 turn, 1 timer, 1 control), 2 epochs, 2 attempts, 1 deferral, fair | one execution of a one-shot, cancel, no dead owner, FIFO, every effect settles |
| `run_lifecycle` | 1 thread, 2 runs (person, undo), 1 Stop, 2 boots, fair | epochs, finality, crash recovery, the four liveness properties |
| `run_pauses` (3,733,064) | 1 thread, 3 runs (person, agent, schedule), 1 boot | one owner, the promise of a pause, one continuation, no timer left |
| `run_stops` (1,261,485) | a thread and its subagent, 2 runs (person, wake), 1 Stop, 1 boot | Stops |
| `delivery_safety` (248,910) | three threads in a line, 2 tasks, or a native parent with a Stop and a steer | publication, one reading, final answers |
| `delivery_liveness` (111,854) | the line with failures, background work and a native middle, or a message, a failure and a crash, fair | every task ends, every notice ends |
| `approvals` (1,279,862) | 2 requests for one fingerprint, 3 runs, 1 Stop, 1 restart, fair | allows, Stops, cards, continuations, answers that are refused |
| `mutex` (704) | 6 calls on 2 keys, two inside others and one of those inside its own key, fair | refines `AbstractLock`, every call settles, no deadlock |
| `stream` (24,793) | 1 profile, 4 events, ring of 2, 2 connections, 2 switches, fair | the cursor, the handshake and the reloads |
| `requests` (431,362) | 2 reads of one key, 2 changes, 2 slots, 1 place in line, 1 retry, fair | retries, slots, shared reads |
| `queue` (596,072) | 3 messages, 2 commands, 2 failures of effects, 2 attempts; with starts that fail, with promotions and Stops, or with promotions over a crash; stranded sends restarted; fair | one reading, nothing lost, runs and queue agree, commands end |
| `queue_promoted` | a person's promotion and a Stop | section 5, 1 |

**Why the bounds are enough.** A lane's order is a relation of two rows, so two rows and two fibres of one
group already race for everything; two epochs give a crash in any state, a recovery and work after it; two
attempts distinguish a retry from a last attempt; one deferral gives back one attempt, which is what could
make a one-shot run twice. `run_pauses` has three runs because a pause involves the paused run, its
continuation and a message that ends the pause or waits behind it. `run_stops` has two threads because a
Stop of a tree differs from one of a thread only in that. `run_lifecycle` needs a second boot to see what
recovery left. A line of three threads has a subagent that is itself a parent, whose own task keeps it busy;
one redelivery distinguishes a delivery that is retried from one that is given up. Two requests make the
siblings of an answer and of a continuation; the third run of `approvals` is what a continuation or a later
message becomes. A ring of two loses events to a reader who is three behind; two switches over one connection
overlap, and a second connection meets what the first left. Two slots and one place in line are the smallest
that can be full, free and refused. The mutex has a waiter that is itself a holder, and a nested call that
waits for its own caller. Three messages are one that runs, one that waits and one that is steered; two
commands can be on the journal at once, and two attempts distinguish a retry from a command given up. What
the theorems of section 6 state does not depend on any bound.

**Deadlock** is checked in `mutex` only. The other instances may use up their rows, runs, events or
crashes and stop.

Bounds are constants, and each appears in the guard of the action it caps: `MaxRows`, `MaxEpoch`,
`MaxDefers`, `MaxRuns`, `MaxStops`, `MaxBoots`, `MaxCrashes`, `MaxEvents`, `MaxConnects`, `MaxSwitches`,
`MaxCommands`, `MaxDrains`, `MaxFaults`; in `NoticeDelivery` and `MessageQueue` a `setup` lists what a
behaviour may still do. `DefaultMaxAttempts`, `MaxAttempts`, `MaxRedeliveries`, `RingSize`, `Slots`,
`MaxWaiting` and `Retries` are constants of the code with small values.

**Fairness** is weak throughout: no timer of the daemon is entitled to more than being enabled for long
enough.

- `EffectOutbox`: fibres keep claiming (commit notifications, the next `available_at`, a 30 s poll),
  executions end by their deadline or by an abort, a lease nobody renews expires, the reconciler runs every
  5 s, and a supervisor starts a daemon that is down. Succeeding is not fair: executors may hang for ever.
- `RunEngine`: boot, the deadline of a `turn.start`, the interrupt's effect, rule 2 for a run whose turn is
  gone, rules 3 and 5, the second half of a local action, the timers, the drain of a continue message, and
  the return of a turn whose run was paused (its provider had already answered).
- `NoticeDelivery`: rule 4 of the reconciler, background work that ends, and `Progress` of a thread: what is
  queued is started or settled, and a turn that was told to do a thing does it or fails. A person need not
  send anything.
- `ThreadApprovals`: one fairness for all that is owed (the effects of an answer, the reconciler, the send of a
  continuation, which may be admitted or refused, the last step of boot, the transactions after a Stop): each
  step uses up a part of it. Nobody need answer, and no send need be admitted.
- `ThreadMutex`: a call that was handed the lock enters, a timer fires. The function of a call need not end.
- `EventStream`: the server serves what it was sent, the window takes what arrives, a continuation runs. The
  connection may go and never come back.
- `ClientRequests`: the back-off and the time limit of a request. The server need not answer.
- `MessageQueue`: the repair that a failed command schedules, and the one at boot.

Nothing else is assumed of turns, providers, servers or people.

## 5. Where code and comments disagree

`PROJECT.json` lists the first as a finding with the lines it contradicts. Each of the others has a
configuration file whose one property TLC finds violated.

1. `QueuePromoted.cfg`, `PromotedIsKept` (a bug of the code): `scheduleQueueDrain` calls `dropSteerItems` with
   the accepted ids, and with none of them `dropSteerItems` drops every steering item. A promoted message
   whose turn is stopped, fails or crashes before it reads it is deleted by the next drain. The comment of
   `promoteQueueItemToSteer` (`orchestrator/OrchestratorService.ts:7172`) says that it becomes pending again.
2. `QueueDrains.cfg`, `PromotedIsKept`: a turn that has handed two texts to its provider acknowledges both
   items when the first is accepted; if the second is not, its item is gone.
3. `QueueCutOff.cfg`, `ReadOnce`: after a crash between the write of `acceptedSteerItemIds` and the drop of the
   items, a direct send's turn demotes the steering item before any drain has looked at those ids, and the
   text is read again.
4. `QueueTwice.cfg`, `ReadOnce`: promoting an item that is already steering adds it to the turn's steers once
   more; when the first copy has been handed over, its text is delivered twice.
5. `QueueRemoved.cfg`, `RemovedIsGone`: removing a steering item deletes it from the file but not from the
   turn's memory; the model reads it.
6. `RunAdmission.cfg`, `AdmissionIsOwned` (a bug of the code): a Stop that cancels a `turn.start` still pending
   (`run/RunEngine.ts:1008`) leaves the session admitted to it. It takes a Stop that clears the queue, or a
   Stop of fenced work such as a continue turn, while the effect waits. The thread looks busy, and its
   messages only queue, until the daemon restarts; `orchestrator/OrchestratorService.ts:3838` says that the
   effect path always holds the admission until the executor runs.
7. `StreamProfiles.cfg`, `NoSilentGap` with two profiles: the `hello_ok` of a connection carries the sequence of
   the server's own ring, which counts the events of every profile, and the client makes it its cursor
   (`protocol/client.ts:421`). The events of its own profile lie below it, and `deliverEvent`
   (`protocol/client.ts:763`) drops them as already seen. `protocol/server.ts:121` says that event cursors are
   scoped to the profile.
8. `OutboxStuckResult.cfg`, `StuckResultDiscarded`: the settlement's compare-and-set names the daemon, not the
   claim. An executor that outlived its lease settles the claim that replaced it in the same daemon;
   `SPEC.md` §12.4 says that its result is discarded. Of the kinds that drive or feed a turn none can be
   claimed twice, so it is a timer or an interrupt that is settled early by its predecessor.
9. `RunLocalAction.cfg`, `LocalActionLeavesQueue`: the run of an undo is created under the mutex and started
   after it. A crash or another run in between leaves it queued for ever (`run/RunEngine.ts:1660`).
10. `RunHeldWork.cfg`, `HeldWorkWaits`: a scheduled run admitted before a pause and started again during it
    (rule 5) is cancelled; the comment of `PAUSE_HELD_SOURCES` (`run/delegation/sources.ts:50`) says it waits.
11. `RunOrphanedSend.cfg`, `UnstartedIsWaiting`: a crash between the commit of a person's send and its
    `turn.start` or queue item leaves a queued run that nothing starts or ends; `run/strandedRuns.ts:17` takes
    for granted that such a run waits on the queue.
12. `RequestShared.cfg`, `ReadSeesChange`: shared reads are forgotten when a change is asked, not when it is
    answered. A read asked after the answer joins one that was sent before it and sees the older state.
13. `DeliveryOrphan.cfg`, `QueuedRunIsStarted`: a crash between the run made for a claimed queue item and its
    `turn.start` leaves a run that nothing starts when the item is consumed by other means; its thread looks
    busy and a task of it never ends. `delivery_liveness` therefore has no crash in a line of three threads.
14. `DeliveryGivesUp.cfg`, `GivesUpAfterFailures`: a wake that is overtaken by a turn admitted before it spends
    one of the attempts that `SPEC.md` §14 gives to failures.
15. `DeliveryMessages.cfg`, `MessageKept`: boot ends the queued run of a task although its message waits on the
    queue; the drain then finds the run ended and the message is lost.
16. `ApprovalsStop.cfg`, `NothingAfterRecordedStop`: the transaction of a Stop and the one that retires its
    approvals are two; a crash between them lets boot continue the run that was stopped.
17. `QueueRestart.cfg`, `EachTextOnce`: a direct send whose daemon ends between the save of its transcript
    (`orchestrator/OrchestratorService.ts:9826`) and the mark on its run (9890) leaves a queued run whose
    `turn.start` boot cancels. The reconciler (`run/Reconciler.ts:256`) starts it again with the same payload, and
    `acceptTurnUserInput` appends the text again; only messages of the queue carry an id that would tell. No
    comment or test says otherwise. `ReadOnce` of the run `queue` allows this reading and no other: `torn`
    counts what was in the transcript when boot found such a run.

Seen while reading, without a configuration of their own: the drain at start-up passes by a queue that holds
only steering items; the receipt `queue:<item>` answers with an earlier run after an edit; a person's removal
or promotion that crashes before `cancelQueuedRuns` leaves the message's run queued; a turn that fails before
`markStarting` with the write of its end refused stays in `starting` until the next boot.

## 6. Proofs

Checked by TLAPS with Z3, Zenon and LS4. The only assumptions are those of the modules' constants,
`OutboxAssumption`, `RunAssumption`, `MutexAssumption`, `RequestAssumption`, `StreamAssumption` and
`DeliveryAssumption`: that the bounds are naturals, the sources known ones, a fibre's group a lane class, a
thread part of its own subtree, a call's key a key, the calls of a client finitely many and each a read or a
change, that there is a slot, that the installation's profile is a profile, that a ring holds an event, that a
thread's parent is a thread or none, and that what may happen in a setup is counted in naturals. TLC evaluates
them in every run. `SettledIsFinal` and the type invariants are proved and have no run of their own.

### 6.1 `EffectOutboxProofs`

`OneShotOnce`, `LanesAreFIFO`, `CancelReaches`, `LeasesAreServed`, `SettledStays` and `TypeCorrect`, for any
number of threads, rows, fibres, attempts and boots. The invariant is

    Inv == TypeOK /\ RowOrder /\ DaemonInv /\ OneShotInv /\ LaneFIFO /\ CancelReachesExecution

`LaneFIFO` is not inductive alone: a row nobody inserted must not have been claimed, and rowids must grow
(`RowOrder`). `OneShotRunsOnce` needs that a pending one-shot row has attempts 0 and no execution, that a
running one has spent its only attempt, and that at most one fibre executes it, the one `inFlight` names
(`OneShotInv`): then a failure or a reclaim always finds no attempt left, and only a deferral, which
precedes the work, gives one back. `CancelReachesExecution` needs that last part too. `DaemonInv` ties
executions and owners to a living daemon.

Nearly all actions are *quiet*: a row settles, waits again or is renewed, a fibre goes idle or learns of a
cancel, `claims` and `begun` stay. `Quiet` says so without naming an action; four lemmas show that a quiet
step keeps each part, one short lemma per action shows that it is quiet, and only `Enqueue`, `Claim` and
`Begin` need a proof of their own.

### 6.2 `RunEngineProofs`: runs and boots

`TypeCorrect`, `OneOwner`, `EpochsCurrent`, `EndIsFinal` and `UncertainAfterCrash`, for any number of threads,
runs, Stops and boots and any tree of subagents. The invariant is

    RunInv == TypeOK /\ OneOwnerPerThread /\ EngineEpochCurrent

Every action is a *good step*: either it makes no run the owner of a thread, or it makes one so that
does so alone (`markStarting` of a thread without an active run, which ends the pause it finds); it
leaves the engine's memory holding (`MemoryHolds`: who writes without telling the engine only ends runs);
and the rest stays typed. The lemmas about the writers (`Ended`, `PauseEnded`, `Started`, `Recovered` and so
on) are stated once, of one run; the actions then only say which runs they write. `EndIsFinal` and
`UncertainAfterCrash` are action properties, proved from the same invariant action by action.
`OneOwner` shows that the unique indexes of the schema are a second line of defence: no step relies on them.

### 6.3 `RunEngineProofs`: pauses and Stops

`StopBeatsPause`, `TimersGoWithPause`, `StopReaches`, `PausePromiseKept` and `OneContinuation`, for any number of
threads, runs, Stops and boots. The first three follow from one relation between a run
before and after a step, `Change(x, y)`, which every step keeps for every run (`NextPause`):

- a run that is being stopped is active, and only a run that is or was paused has a pause (`Apart`);
- work that a Stop would end or tell carries its thread's newest generation (`Reached`);
- a run that leaves the pause leaves no pending timer.

The invariant is `RunInv /\ AllApart /\ AllReached`, where `AllReached` says `StopReachesAll` run by run.
`StopWinsPause` is not inductive alone: an active run with a pause left on it could be told to stop, which
`Apart` excludes; `NoTimerOutlivesPause` is an action property, and its last case is the forced interrupt of a
run with a Stop, which `Apart` shows not to be paused. Every action but the Stop leaves the generations
alone (`OnlyStopsRaise`), so `Change` carries `Reached` over; for the Stop itself `StoppedOutOfReach` shows
that whatever it leaves in its subtree is told to stop, over, or queued by a person, and other threads keep
their generation.

The second half of the module proves `PausePromiseKept` and `OneContinuation`. Its invariant is `ResumeInv`, in
three parts:

- `Promised`, of one run: a timer that has acted (`running`) counts for nothing, because it settles without
  leaving anything. So what keeps the time of a pause is a timer that waits, is claimed or failed, or the message,
  and `PausePromise` alone would break when a timer settles.
- `Settled`, of one run: only a run that ended was handed over, so that a run that is paused was not, and a run
  that does not exist yet continues none.
- `Handed`: a pause that was handed over has one continuation, any other run none.

Every action but the admission of a continuation (`HandsOver`) is a step `Carries(x, y)` for every run: it keeps
the first two parts, whom the run continues, and whether it was handed over. Such steps leave the set of
continuations as it is (`CarriesInv`); the admission adds one to a set that was empty (`HandsOverInv`).

### 6.4 `ThreadMutexProofs`

`Excludes`, `NoLockIsLost` and `TypeCorrect`, and `Implements`, the refinement of `AbstractLock`, for any calls,
keys and nesting. The invariant is

    Inv == TypeOK /\ MutualExclusion /\ LockIsOwned /\ StandsOnce

`LockIsOwned` says that an entry of the map belongs to exactly one call that will release it and that its
line holds calls that wait; `StandsOnce`, that no call stands in a line twice. Without the second a timeout
could splice the wrong place of a line, and without the first a hand-over could go to a call that had given
up: the line of a key, read as its owner followed by its waiters, would lose its head. The refinement then
has one step per action: `Acquire` joins a line, `Leave` drops its first, `Timeout` gives up a place behind
the first, `Enter` stutters.

### 6.5 `ClientRequestsProofs`

`ChangesAppliedOnce`, `NoSlotIdle` and `TypeCorrect`, for any number of calls, slots, places in line and
retries. The invariant is

    Inv == Typed /\ InLine /\ SlotsUsed /\ Carried

`Carried` follows a change through the frames: it is under way at most once, as a request, as a handler that
runs or as an answer (`Once`), only while its call is sent or has been given up, and while it can still be
asked again it has not been applied (`Unapplied`). That is why the attempt in a late answer is never needed
for safety of changes: a refusal leaves nothing behind, and a call whose answer may come late is never
retried. `SlotsUsed` is a statement about cardinalities: each call that leaves a slot (`AdmitWaitersInv`) takes
the sent calls one down and the head of the line takes them up again; a client's call that neither gets a
slot nor a place changes neither. `InLine`, the line holds each waiting call once, is what the timeout's
splice needs. `EveryCallEnds` is liveness and stays with TLC.

### 6.6 `ThreadApprovalsProofs`

`AllowsActOnce`, `CardsAreCurrent`, `AnswersStayTogether`, `StopsEndApprovals` and `TypeCorrect`, for any
number of requests, runs, rules, Stops, crashes and continuations. The invariant is

    Inv == TypeOK /\ AllSound /\ AllFit /\ AllOver /\ StopSeen /\ AllPrepared /\ AllContinue

- `Sound` is about one row. There are two ways for an allow to reach its call: the waiting provider
  (`path = "live"`) and the grant of a continuation (`path = "continue"`). A row with a provider has not acted,
  a row on the second path has no provider, and a grant that is still to be spent has not acted. `ActedOnce`
  alone says nothing about which of the two is still open.
- `Fits` relates a row to its run: a card is live only while its run is active and its provider waits, and a
  row waits for a continuation only of a dead run. It gives `CardIsCurrent`.
- `Over` says what a Stop leaves of a row it has closed; `StopSeen`, that the runs a Stop in progress found
  are aborted, so that they cannot ask again before it closes their rows.
- `Prepared` and `Continues` hold the answers of a dead run together: a continuation is under way only when none
  of its run's requests is pending, with the ids of all that were not delivered (`Complete`), and once it is
  admitted it is the only one and nothing is left for another.

Each step is shown to be a `RowStep` for every row and a `RunStep` for every run (`Grows`): answers, the path
"continue", deliveries and spent grants are never taken back. From that `OverKept` and `CompleteKept` carry the
last three parts over every action that does not write them. `NoAnswerForgotten` is liveness and stays with TLC.

### 6.7 `EventStreamProofs`

`TypeCorrect`, `InOrder` and `NothingLostInSilence`, for any ring, budget, number of events, connections, switches
and reloads. The invariant is `Complete == Handshake /\ Asking /\ Contiguous /\ Shown`, of which the first
part, `Handshake == Typed /\ Ordered /\ Phased /\ Counted`, holds for any set of profiles:

- `Ordered`: on the wire, between the wire and the client, and among the events held, no event follows one of
  its profile that is as new, nor an answer whose boundary covers it; and events are held only while a subscribe
  is in flight. `LiveInOrder` is its last part and says nothing of what is under way.
- `Phased`: no event and no answer before the subscribe, no frame but the hello before the hello.
- `Counted`: each subscribe in flight is a request, an answer on the wire or an answered promise; each snapshot
  and (on the base connection) each bind likewise. So when none is in flight nothing is held, and an answer never
  comes without one.

The other parts are about one profile, and need it: with more, a connection has one cursor for several rings, and
`StreamProfiles` shows that an event is lost in silence then (section 5). They say

- `Asking`: the cursor is not ahead of the ring, and every subscribe asks for what came since the view began, so
  that its answer either replays all of it or reports a gap;
- `Contiguous`: an event that is held or on its way comes after all the ones before it, or those are behind the
  cursor or in an answer. Without it an event could be passed when the cursor is 0, where `deliverEvent` does not
  look for a jump;
- `Shown`: what the cursor has passed was handed over or covered by a snapshot, unless a request or answer under
  way brings it or the client knows that it must reload.

What a subscribe's replay and its flush of held events do is a recursive function over a sequence of any length
(`HandedAll`). `UpTo` is induction over its index, stated with a set (a fact that holds of 0, and of k when it
holds of k - 1, holds up to n) and proved from the least element of a set of naturals; `HandedAllFacts` (the cursor, the
window's events and the flags at the end), `FlushOrdered` and `FlushShown` follow by it.

### 6.8 `NoticeDeliveryProofs`

`TypeCorrect` and `HoldsAreCurrent`, for any threads and tree of them, setups, tasks, notices, steers, queue
items, Stops and crashes. A task of a subagent that has nothing left to do has to be published by whoever took
away the last thing to do, and five inputs in three stores can be the last. The invariant is

    Inv == TypeInv /\ HoldIsCurrent
    TypeInv == Typed(db) /\ TurnsTyped(db, turn) /\ QueuesTyped(db, queue) /\ SetupTyped

The types are more than shapes: `Typed` says that what the tables refer to is there (the run of a task and of a
steer, the carrier of a notice) and that a run and a steer carry notices of their own thread only; `TurnsTyped`
and `QueuesTyped` say the like of turns and queue items. Without these references a write for one thread could
change what another one waits for.

- `Held(d, memory, t)` is the property of one thread, `Untouched(d, e, t)` that the rows `t` is judged by did not
  change, `Beside(d, e, t)` that a step changed those of no thread but `t`. `StaysHeld` carries `Held` over for the
  threads that a step does not write.
- `SettleHolds` is about the others: a settlement leaves a thread held that it settled or that was held. If the
  thread is still busy nothing is published; if it is quiet all its tasks are, so that it waits for none. Its
  parent gets a notice and is busy with it, so that a publication never has to be followed by a settlement of
  the parent. While a run of a thread has not ended the thread is held anyway (`RunHolds`), which covers the
  actions that settle nothing.
- A Stop, a reconciler pass and a boot write several threads and settle all of them at the end. For a Stop
  `SubtreeFacts` gives what the proof needs of the tree: whoever is in a subtree below its root has its parent in
  it, so that only the parent of the root is left to be told of the tasks a Stop cancels.

The model has no recursive definition: `Subtree` is the smallest set that is closed under children, and
`InOrder` and `ItemsAt` put a set of numbers, and the items at some places of a queue, in their order.

### 6.9 `NoticeReadProofs`

`NoticesReadOnce`: no notice is shown by two completed turns, and one that a delivery acknowledged was shown by
the turn that completed it, for any threads and tree of them, tasks, notices, steers, failures, Stops and
crashes. A notice changes carriers (a wake's `turn.start`, a steer, the queue item an unread steer became, the run of
that item) and is given back by each of them, while the text that shows it is copied at each hand-over and is not
taken back. So the property is about two copies: who the row says has it, and whose prompt shows it. The
invariant is `Inv /\ ReadInv`, with `Inv` of 6.8 and `ReadInv` the conjunction over the threads of `Apart`, which
relates the rows of a thread to its runs, its steers, its queue and its turn:

- `RowRead`: a row that is not acknowledged was read by nobody, one that a delivery acknowledged by one run;
- `RunApart`: what the prompt of a run with a pending `turn.start` shows is this run's, or was settled while it was still
  the queue item's; what a queued run has been handed its prompt shows; no two runs are made for one item;
- `SteerApart`: a steer and the item it became have no notices but the ones the steer was for;
- `TurnApart`: the steers a live turn holds belong to nothing else, what their texts show is theirs, and the rows
  of exactly those whose text the provider took are marked with their steer;
- `ItemApart`: what a claimed item's run is about to show is the item's.

`ReadOnce` alone is not inductive for any of these reasons: for instance a turn could complete with a steer that had
also become a queue item, and the item's run would show the notice again.

Most steps hand nothing over. `Eases(d, e, t, items, x)` says what they may do: rows stay as they are, are settled unread
or are given back unless they are due to be shown (`Due`), runs end, steers are cancelled. `EasesKeeps` shows once
that this keeps `Apart`; Stops, settlements, the reconciler, boot and `task_status` follow (`Standing` carries
types and `AllApart` over the writes of one transaction). Hand-overs have a lemma each: a wake and a steer that take
what is pending (`WokenApart`, `SteeredApart`), a steer read by the provider or returned, a turn's unread steers that
become an item (`SettleTurnReads`), a claimed item and its run (`DrainReads`, `StartItemReads`), and the completion that
acknowledges what its run and the steers it took still hold (`CompletedApart`, with `ShownFacts`: what the completed
run showed is what its carriers have, up to rows that were settled meanwhile).

`AnswersAreFinal`: once a task has published, every notice its subagent had by then has given up, was settled by a Stop or
`task_status`, or was acknowledged with no read after the run the answer is the result of. At the settlement this is what
`childBusy` and the choice of the latest run say; the work is that nothing later undoes it. The invariant is
`Inv /\ ReadInv /\ AnswerInv`, with `AnswerInv` the conjunction of

- `Final`: the task a notice publishes has ended, and every earlier notice of its subagent is `Closed` with respect to the
  result of that task. `Ages` says what no step takes back (an acknowledged row stays acknowledged, as waived as it was
  and with its reads; a task that ended keeps its result; a new row publishes no task unless a settlement wrote it), and
  `AgesFinal` shows once that it keeps `Final`;
- `RowsCarried`: a delivered notice has a carrier whose run was not told to stop, a steer that is done was held by a turn,
  and the runs in `reads` are terminal and started;
- `RunsCarried`: the active run of a thread is the one its turn is of, it has started, and it is halted when the turn is aborted; a
  run that ended as `stopped` was halted.

The last two are there for the case where `Final` could break at birth: `Actionable` does not count a
`delivered` notice whose carrier's run ended as `stopped`, nor one of a completed steer that no turn held, so a child could
be found not busy over a notice that is still open. `RowsCarried` and `RunsCarried` say that there is no such notice: what
has a notice was not told to stop, and what ended as stopped was. So the notices of a child that is not busy
are acknowledged or have given up (`QuietClosed`). That every read is at most the result follows from the runs in `reads` being among those the
result is the last of (`LatestIsLast`). `SettleAnswers` is the settlement, and every step is a transaction (`CalmAnswers`
when it hands nothing over, `HandedAnswers` when it does) followed by one.

### 6.10 Only model-checked

The safety of `MessageQueue` (`ReadOnce`, `RunsFollowItems` and its action properties) is model-checked and not proved: its
invariant has to relate the queue file, the journal, the transcript and the database over crashes between any two of their
writes, and is left. Liveness under
fairness and `ENABLED` are out of this prover's reach and stay with TLC: `EveryEffectSettles`, `StoppedRunEnds`,
`SilentRunEnds`, `StrandedRunRestarts`, `TimedPauseEnds`, `EveryCallSettles`, `SentIsShown`, `EveryCallEnds`, `TaskEnds`,
`NoticeEnds`, `NoAnswerForgotten` and `EveryCommandEnds`. That `StreamProfiles` finds an event lost is a run,
not a theorem: `NothingLostInSilence` is stated for one profile.

## 7. Plan

| step | module | what | status |
| --- | --- | --- | --- |
| 1 | `EffectOutbox` | table, worker, epochs; six theorems | done |
| 2 | `RunEngine` | runs, turns, pauses, Stops, reconciler, boot; ten theorems | done |
| 3 | `NoticeDelivery` | lineage, hold, publication, inbox, wake, steer, queue items; four theorems | done |
| 4 | `ThreadApprovals` | requests, two answerers, Stop, restart, continuation grants; five theorems | done |
| 5 | `ThreadMutex` | the lock with timeouts, a refinement of an abstract lock, with theorems | done |
| 6 | `EventStream`, `ClientRequests` | the protocol: events and requests; three theorems about each | done |
| 7 | `MessageQueue` | claims, journal, drains, steers, recovery | done |
| 8 | owner files | lock files, reclaim, reused process ids (`ThreadExecutionLease`, `MmsOwnerLease`) | open |
| 9 | the safety of steps 3 and 7 as theorems | the three safety invariants of step 3 are; `MessageQueue` is left | part done |
| 10 | `RunEngine` composed with `EffectOutbox` and `MessageQueue` | so that FIFO, cancellation and the item's life are shared instead of left open | open |
| 11 | scheduled occurrences, transfers, tool rows (rule 6) | small modules | open |
| 12 | workflow engine, network sync | systems of their own | open |

## 8. Not modelled, and why

Providers, harnesses and MCP servers are external: a turn may answer, fail or hang. Git, worktrees,
transcripts, formatting and the GUI keep no state that the properties read. The database check
(`run/fsck/`) states invariants over the same tables and has no behaviour. SQLite itself is trusted:
a transaction is atomic and durable. So are the file system's rename and exclusive creation.

Of the modelled parts: receipts and replays of commands are left out (a command arrives once), as are
remote subagents, questions of subagents to their parents, wake policies other than `always`, permission
modes, the order of the queue and workflow items on it. One process is assumed to own a profile and a
thread; the files that decide it are step 8. Scheduled jobs, hand-offs, the workflow engine, bots, the bridge,
the network and spaces are subsystems over the engine whose own state no module reads; the workflow engine and
the network are as large as what is modelled here. `PROJECT.json` says so at each.
