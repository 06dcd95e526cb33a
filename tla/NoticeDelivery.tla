--------------------------- MODULE NoticeDelivery ---------------------------
(***************************************************************************)
(* Delegated tasks and the notices that carry their results up a tree of   *)
(* threads: the hold of a task (run/delegation/hold.ts), the inbox rows    *)
(* (run/Inbox.ts), the wakes and steers that deliver them and what gives   *)
(* them back (run/delegation/wake.ts, run/terminal.ts), the steers a turn  *)
(* holds and the queue items they become (orchestrator/                    *)
(* OrchestratorService.ts), Stops of a subtree and the recovery at boot.   *)
(* db is the run database: a transaction is one step of it.  queue is a    *)
(* file; turn and background are memory.                                   *)
(***************************************************************************)
EXTENDS Naturals, Sequences, FiniteSets, SequencesExt

CONSTANTS
    Threads, Parent, NoThread,  \* the tree of threads: Parent[t] is a thread or NoThread
    MaxRedeliveries,            \* MAX_INBOX_REDELIVERIES
    Setups                      \* what a behaviour may have: see the variable setup

ASSUME DeliveryAssumption ==
    /\ Parent \in [Threads -> Threads \cup {NoThread}]
    /\ \A s \in Setups : s \in [threads : SUBSET Threads, native : SUBSET Threads, background : SUBSET Threads,
                                tasks : Nat, asks : Nat, failures : Nat, crashes : Nat, stops : Nat, returns : Nat]
    /\ MaxRedeliveries \in Nat

VARIABLES
    db,             \* runs and steers of each thread, tasks, inbox
    queue,          \* [Threads -> Seq of queue items]
    turn,           \* the live turn of each thread
    background,     \* threads with provider background work
    setup           \* threads that are there, whose provider takes steers in a live turn (native)
                    \* or has background work, and the bounds: tasks, and how many of a person's
                    \* messages, failed turns and writes, crashes, Stops and returned steers are left

vars == <<db, queue, turn, background, setup>>

Nobody == [kind |-> "none", n |-> 0]
StartOf(i) == [kind |-> "start", n |-> i]
SteerOf(j) == [kind |-> "steer", n |-> j]
ItemOf(j) == [kind |-> "item", n |-> j]

\* A run with its turn.start; rows are the notices its prompt shows, item the queue item it is for.
\* at orders the turn.starts of a thread.
NewRun(source, rows, item) ==
    [source |-> source, status |-> "queued", start |-> "none", at |-> 0, rows |-> rows, item |-> item,
     halted |-> FALSE, started |-> FALSE]

\* reads, waived and failures are history: the completed runs that showed the row, whether a
\* Stop or task_status settled it, and how many of its deliveries failed.
NewRow(t, k) ==
    [to |-> t, task |-> k, status |-> "pending", by |-> Nobody, tries |-> 1, held |-> 0, taken |-> 0,
     gaveUp |-> FALSE, reads |-> {}, waived |-> FALSE, failures |-> 0]

NoTurn == [run |-> 0, unread |-> {}, plain |-> FALSE, taken |-> {}, aborted |-> FALSE]

Root == CHOOSE t \in Threads : Parent[t] = NoThread

Init ==
    /\ db = [runs |-> [t \in Threads |->
                        IF t = Root THEN <<[NewRun("person", {}, 0)
                                            EXCEPT !.status = "active", !.start = "running",
                                                   !.started = TRUE]>> ELSE <<>>],
             steers |-> [t \in Threads |-> <<>>], tasks |-> <<>>, inbox |-> <<>>]
    /\ queue = [t \in Threads |-> <<>>]
    /\ turn = [t \in Threads |-> IF t = Root THEN [NoTurn EXCEPT !.run = 1] ELSE NoTurn]
    /\ background = {}
    /\ setup \in Setups

\* A run gets a turn.start, behind those of its thread.
Enqueue(runs, i) ==
    [runs EXCEPT ![i].start = "pending",
                 ![i].at = 1 + Max({runs[n].at : n \in DOMAIN runs})]

Spend(what) == /\ setup[what] > 0
               /\ setup' = [setup EXCEPT ![what] = @ - 1]

Terminal == {"completed", "failed", "stopped", "cut", "cancelled"}
InFlight == {"pending", "running"}

Rows(d, t) == {k \in DOMAIN d.inbox : d.inbox[k].to = t}
Pending(d, t) == {k \in Rows(d, t) : d.inbox[k].status = "pending"}

Own(d, rows, owner) == {k \in rows : d.inbox[k].status = "delivered" /\ d.inbox[k].by = owner}
OfSteers(d, t, steers) == UNION {Own(d, d.steers[t][j].rows, SteerOf(j)) : j \in steers}
ActiveRuns(d, t) == {i \in DOMAIN d.runs[t] : d.runs[t][i].status = "active"}
QueuedRuns(d, t) == {i \in DOMAIN d.runs[t] : d.runs[t][i].status = "queued"}
UnreadSteers(tn, t) == tn[t].run # 0 /\ ~tn[t].aborted /\ (tn[t].unread # {} \/ tn[t].plain)

\* What the hold predicate reads outside the database.
Memory(tn, bg) == {t \in Threads : UnreadSteers(tn, t) \/ t \in bg}

-----------------------------------------------------------------------------
(* The inbox: every change of a row, without the settlement that follows it. *)

Acknowledge(d, rows, waived) ==
    [d EXCEPT !.inbox = [k \in DOMAIN d.inbox |->
        IF k \in rows /\ d.inbox[k].status # "acknowledged"
        THEN [d.inbox[k] EXCEPT !.status = "acknowledged", !.waived = waived] ELSE d.inbox[k]]]

\* A count is kept as far as it is compared.
Counted(n) == IF n > MaxRedeliveries THEN n ELSE n + 1

\* markPendingAgain: the row's next time pending is counted.
PendingAgain(d, rows, failed) ==
    [d EXCEPT !.inbox = [k \in DOMAIN d.inbox |->
        IF k \in rows /\ d.inbox[k].status = "delivered"
        THEN [d.inbox[k] EXCEPT !.status = "pending", !.by = Nobody, !.tries = Counted(@),
                                !.failures = IF failed THEN Counted(@) ELSE @] ELSE d.inbox[k]]]

\* release: it is not.
Release(d, own) ==
    [d EXCEPT !.inbox = [k \in DOMAIN d.inbox |->
        IF k \in own THEN [d.inbox[k] EXCEPT !.status = "pending", !.by = Nobody] ELSE d.inbox[k]]]

\* redirectDelivery: from a steer to the queue item it became, from an item to its turn.start.
ToItems(d, own) ==
    [d EXCEPT !.inbox = [k \in DOMAIN d.inbox |->
        IF k \in own THEN [d.inbox[k] EXCEPT !.by = ItemOf(@.n)] ELSE d.inbox[k]]]
ToStart(d, own, i) ==
    [d EXCEPT !.inbox = [k \in DOMAIN d.inbox |->
        IF k \in own THEN [d.inbox[k] EXCEPT !.by = StartOf(i)] ELSE d.inbox[k]]]

MarkHeld(d, own) ==
    [d EXCEPT !.inbox = [k \in DOMAIN d.inbox |->
        IF k \in own THEN [d.inbox[k] EXCEPT !.held = d.inbox[k].by.n] ELSE d.inbox[k]]]

MarkTaken(d, own, taken) ==
    [d EXCEPT !.inbox = [k \in DOMAIN d.inbox |->
        IF k \in own THEN [d.inbox[k] EXCEPT !.taken = IF taken THEN d.inbox[k].by.n ELSE 0]
        ELSE d.inbox[k]]]

-----------------------------------------------------------------------------
(* The hold of a task.                                                       *)

\* The run whose end decides what a delivered row is: its turn.start's, or the one its steer joined.
CarrierRun(d, row) ==
    IF row.by.kind = "start" THEN d.runs[row.to][row.by.n]
    ELSE d.runs[row.to][d.steers[row.to][row.by.n].run]

ByEffect(row) == row.by.kind \in {"start", "steer"}

LegacySteer(d, row) ==
    /\ row.by.kind = "steer" /\ row.held = 0 /\ row.taken = 0
    /\ d.steers[row.to][row.by.n].status = "succeeded"
    /\ CarrierRun(d, row).status = "completed"

\* Mutants: a delivered row counts as read; a row delivery has given up counts as one to come.
BugActionable(d, row) == row.status = "pending" /\ ~row.gaveUp
BugActionableForEver(d, row) ==
    \/ row.status = "pending"
    \/ /\ row.status = "delivered" /\ row.by # Nobody
       /\ ~(ByEffect(row) /\ CarrierRun(d, row).status = "stopped")
       /\ ~LegacySteer(d, row)

Actionable(d, row) ==
    \/ row.status = "pending" /\ ~row.gaveUp
    \/ /\ row.status = "delivered" /\ ~row.gaveUp /\ row.by # Nobody
       /\ ~(ByEffect(row) /\ CarrierRun(d, row).status = "stopped")
       /\ ~LegacySteer(d, row)

DeliveryInFlight(d, t) ==
    \/ \E i \in DOMAIN d.runs[t] : d.runs[t][i].source = "wake" /\ d.runs[t][i].start \in InFlight
    \/ \E j \in DOMAIN d.steers[t] : d.steers[t][j].status = "pending"

RunningInto(d, t) == {k \in DOMAIN d.tasks : d.tasks[k].child = t /\ d.tasks[k].status = "running"}

Busy(d, memory, t) ==
    \/ \E i \in DOMAIN d.runs[t] : d.runs[t][i].status \notin Terminal
    \/ \E c \in Threads : Parent[c] = t /\ RunningInto(d, c) # {}
    \/ \E k \in Rows(d, t) : Actionable(d, d.inbox[k])
    \/ DeliveryInFlight(d, t)
    \/ t \in memory

LatestResultRun(d, k) ==
    LET t == d.tasks[k].child
        sources == {i \in DOMAIN d.runs[t] :
                      /\ d.runs[t][i].status \in Terminal
                      /\ d.runs[t][i].started \/ i = d.tasks[k].run}
    IN IF sources = {} THEN 0 ELSE CHOOSE i \in sources : \A other \in sources : other <= i

\* A notice the child waited for that could not be delivered fails the task.
Undelivered(d, k) ==
    \E r \in Rows(d, d.tasks[k].child) :
        d.inbox[r].status = "delivered" /\ d.inbox[r].gaveUp /\ r > d.tasks[k].since

\* A set of numbers in their order: the n-th has n - 1 of them before it.
InOrder(S) == [n \in 1 .. Cardinality(S) |-> CHOOSE k \in S : Cardinality({x \in S : x < k}) = n - 1]

\* The items at these positions of a queue, in their order.
ItemsAt(items, positions) == [n \in 1 .. Cardinality(positions) |-> items[InOrder(positions)[n]]]

\* settleHold: the tasks into a thread that is not busy publish together, a row each for the parent.
\* A published task makes its parent no less busy, so the threads settle at once.
Settle(d, memory, threads) ==
    LET quiet == {t \in threads : RunningInto(d, t) # {} /\ ~Busy(d, memory, t)}
        published == UNION {RunningInto(d, t) : t \in quiet}
        ended == InOrder(published)
    IN [d EXCEPT
          !.tasks = [k \in DOMAIN d.tasks |->
              IF k \in published
              THEN [d.tasks[k] EXCEPT !.status = "published",
                       !.result = IF Undelivered(d, k) THEN 0 ELSE LatestResultRun(d, k)]
              ELSE d.tasks[k]],
          !.inbox = @ \o [n \in DOMAIN ended |-> NewRow(Parent[d.tasks[ended[n]].child], ended[n])]]

\* Mutants: a steer counts as read when the turn only held it; the rows of steers are forgotten.
BugDeliveredByRun(d, t, i) ==
    {k \in Rows(d, t) :
        LET row == d.inbox[k] IN
        /\ row.status = "delivered"
        /\ \/ row.by = StartOf(i)
           \/ row.by.kind = "steer" /\ d.steers[t][row.by.n].run = i}
BugDeliveredByStart(d, t, i) ==
    {k \in Rows(d, t) : d.inbox[k].status = "delivered" /\ d.inbox[k].by = StartOf(i)}

\* The rows a completed run delivered: its turn.start's, and those of a steer the model read.
DeliveredByRun(d, t, i) ==
    {k \in Rows(d, t) :
        LET row == d.inbox[k] IN
        /\ row.status = "delivered"
        /\ \/ row.by = StartOf(i)
           \/ /\ row.by.kind = "steer" /\ row.taken = row.by.n
              /\ d.steers[t][row.by.n].run = i}

\* A mutant: the end of a run does not settle the tasks that waited for it.
BugWriteTerminal(d, memory, t, i, status) ==
    LET ended == [d EXCEPT !.runs[t][i].status = status]
    IN IF status = "completed" THEN Acknowledge(ended, DeliveredByRun(ended, t, i), FALSE) ELSE ended

WriteTerminal(d, memory, t, i, status) ==
    LET ended == [d EXCEPT !.runs[t][i].status = status]
        read == IF status = "completed" THEN Acknowledge(ended, DeliveredByRun(ended, t, i), FALSE)
                ELSE ended
    IN Settle(read, memory, {t})

-----------------------------------------------------------------------------
(* Rows whose delivery did not happen, and the wakes of the reconciler.      *)

DeliveryFailed(d, row) ==
    /\ row.status = "delivered" /\ ByEffect(row)
    /\ LET run == CarrierRun(d, row)
           steer == d.steers[row.to][row.by.n]
           broken == run.status \in Terminal \ {"completed", "stopped"}
       IN IF row.by.kind = "start" THEN run.start = "cancelled" \/ broken
          ELSE \/ steer.status = "cancelled" \/ broken
               \/ /\ steer.status = "succeeded" /\ run.status = "completed"
                  /\ row.held = row.by.n /\ row.taken # row.by.n

FailedRows(d) == {k \in DOMAIN d.inbox : DeliveryFailed(d, d.inbox[k]) /\ ~d.inbox[k].gaveUp}

\* restoreUndeliveredRows: a row whose back-off is not over waits for a later pass.
Restore(d, memory, due) ==
    LET spent == {k \in FailedRows(d) : d.inbox[k].tries > MaxRedeliveries}
        flagged == [d EXCEPT !.inbox = [k \in DOMAIN d.inbox |->
                      IF k \in spent THEN [d.inbox[k] EXCEPT !.gaveUp = TRUE, !.failures = Counted(@)]
                      ELSE d.inbox[k]]]
    IN Settle(PendingAgain(flagged, (due \cap FailedRows(d)) \ spent, TRUE), memory, Threads)

IdleWakes(d, t) ==
    {i \in DOMAIN d.runs[t] :
        /\ d.runs[t][i].source = "wake" /\ d.runs[t][i].start = "pending"
        /\ \A k \in d.runs[t][i].rows : d.inbox[k].status = "acknowledged"}

\* A pending wake whose rows were all read first ends without running.
CancelAcknowledgedWakes(d, memory, threads) ==
    Settle([d EXCEPT !.runs = [t \in Threads |-> [i \in DOMAIN d.runs[t] |->
               IF t \in threads /\ i \in IdleWakes(d, t)
               THEN [d.runs[t][i] EXCEPT !.start = "cancelled", !.status = "cancelled"]
               ELSE d.runs[t][i]]]], memory, threads)

\* wakeThreads: a wake run for an idle thread with pending rows, a steer for a live native one.
WakeThreads(d) ==
    LET waiting == {t \in Threads : Pending(d, t) # {}}
        woken == {t \in waiting : ActiveRuns(d, t) = {} /\ \A i \in QueuedRuns(d, t) : d.runs[t][i].source # "wake"}
        steered == {t \in waiting \cap setup.native : \E i \in ActiveRuns(d, t) : ~d.runs[t][i].halted}
        Carrier(t) == IF t \in woken THEN StartOf(Len(d.runs[t]) + 1) ELSE SteerOf(Len(d.steers[t]) + 1)
    IN [d EXCEPT
          !.runs = [t \in Threads |->
              IF t \in woken
              THEN Enqueue(Append(d.runs[t], NewRun("wake", Pending(d, t), 0)), Len(d.runs[t]) + 1)
              ELSE d.runs[t]],
          !.steers = [t \in Threads |->
              IF t \in steered
              THEN Append(d.steers[t], [run |-> CHOOSE i \in ActiveRuns(d, t) : TRUE,
                                        status |-> "pending", rows |-> Pending(d, t)])
              ELSE d.steers[t]],
          !.inbox = [k \in DOMAIN d.inbox |->
              LET row == d.inbox[k] IN
              IF row.status = "pending" /\ row.to \in woken \cup steered
              THEN [row EXCEPT !.status = "delivered", !.by = Carrier(row.to)] ELSE row]]

Reconcile(due) ==
    /\ due \subseteq FailedRows(db)
    /\ \E restored \in {Restore(db, Memory(turn, background), due)} :
          \E cancelled \in {CancelAcknowledgedWakes(restored, Memory(turn, background), Threads)} :
             db' = WakeThreads(cancelled)
    /\ UNCHANGED <<queue, turn, background, setup>>

-----------------------------------------------------------------------------
(* Turns.                                                                    *)

\* A turn of the thread has been asked for and has not started.
Admitted(t) ==
    \/ \E i \in DOMAIN db.runs[t] : db.runs[t][i].source # "wake" /\ db.runs[t][i].start = "pending"
    \/ \E n \in DOMAIN queue[t] : queue[t][n].claimed
TurnRunning(t) == turn[t].run # 0 \/ Admitted(t)

LiveTurn(t) == turn[t].run # 0 /\ db.runs[t][turn[t].run].status = "active"

\* The delegating agent's tool call: a run of the child with its turn.start, and the task.
Delegate(c) ==
    /\ Parent[c] # NoThread /\ LiveTurn(Parent[c]) /\ ~turn[Parent[c]].aborted
    /\ ~db.runs[Parent[c]][turn[Parent[c]].run].halted
    /\ c \in setup.threads /\ Len(db.tasks) < setup.tasks
    /\ ~TurnRunning(c) /\ queue[c] = <<>>
    /\ db' = [db EXCEPT
                !.runs[c] = Enqueue(Append(@, NewRun("task", {}, 0)), Len(@) + 1),
                !.tasks = Append(@, [child |-> c, run |-> Len(db.runs[c]) + 1, status |-> "running",
                                     result |-> 0, since |-> Len(db.inbox)])]
    /\ UNCHANGED <<queue, turn, background, setup>>

\* A person's message: to a subagent it is a task of its parent as well; to a busy thread a queue item.
Ask(t) ==
    /\ Parent[t] # NoThread => \E k \in DOMAIN db.tasks : db.tasks[k].child = t
    /\ Spend("asks")
    /\ LET i == Len(db.runs[t]) + 1
           direct == ~TurnRunning(t) /\ queue[t] = <<>>
           asked == Append(db.runs[t], NewRun("person", {}, 0))
           sent == [db EXCEPT !.runs[t] = IF direct THEN Enqueue(asked, i) ELSE asked]
       IN /\ db' = IF Parent[t] = NoThread THEN sent
                   ELSE [sent EXCEPT !.tasks =
                           Append(@, [child |-> t, run |-> i, status |-> "running",
                                      result |-> 0, since |-> Len(db.inbox)])]
          /\ queue' = IF direct THEN queue
                      ELSE [queue EXCEPT ![t] = Append(@, [steer |-> 0, run |-> i, claimed |-> FALSE])]
    /\ UNCHANGED <<turn, background>>

NextStart(t, i) ==
    /\ i \in DOMAIN db.runs[t] /\ db.runs[t][i].start = "pending"
    /\ turn[t].run = 0
    /\ \A other \in DOMAIN db.runs[t] :
          /\ db.runs[t][other].start # "running"
          /\ db.runs[t][other].start = "pending" => db.runs[t][i].at <= db.runs[t][other].at

Starts(d, t, i, rows) ==
    /\ db' = [d EXCEPT !.runs[t][i] = [@ EXCEPT !.start = "running", !.status = "active",
                                                !.started = TRUE, !.rows = rows]]
    /\ turn' = [turn EXCEPT ![t] = [NoTurn EXCEPT !.run = i]]

\* The turn of a send or of a queue item; the item is consumed when the turn accepts its input.
StartTurn(t, i) ==
    /\ NextStart(t, i) /\ db.runs[t][i].source # "wake"
    /\ Starts(db, t, i, db.runs[t][i].rows)
    /\ queue' = [queue EXCEPT ![t] = ItemsAt(@, {n \in DOMAIN @ : ~@[n].claimed})]
    /\ UNCHANGED <<background, setup>>

\* executeWakeEffect: a turn shows the rows nobody has read yet.  The wake ends without one when there
\* are none, or when it holds up the turn.start of an admitted turn; else it is deferred while one is admitted.
StartWake(t, i) ==
    LET wake == db.runs[t][i]
        rows == {k \in wake.rows : db.inbox[k].status # "acknowledged"}
        ended == [db EXCEPT !.runs[t][i].start = "succeeded"]
        memory == Memory(turn, background)
    IN /\ NextStart(t, i) /\ wake.source = "wake"
       /\ \/ /\ rows # {} /\ ~Admitted(t)
             /\ Starts(db, t, i, rows)
          \/ /\ rows = {} \/ \E other \in DOMAIN db.runs[t] \ {i} : db.runs[t][other].start = "pending"
             /\ db' = Settle(PendingAgain(WriteTerminal(ended, memory, t, i, "cancelled"), rows, FALSE),
                             memory, {t})
             /\ UNCHANGED turn
       /\ UNCHANGED <<queue, background, setup>>

\* A person steers the live turn: text in the turn's memory.
SteerByPerson(t) ==
    /\ LiveTurn(t) /\ ~turn[t].aborted /\ ~turn[t].plain
    /\ Spend("asks")
    /\ turn' = [turn EXCEPT ![t].plain = TRUE]
    /\ UNCHANGED <<db, queue, background>>

\* executeTurnSteerEffect: the live turn holds the steer, or it becomes a queue item with its rows.
ExecuteSteer(t, j) ==
    LET steer == db.steers[t][j]
        own == Own(db, steer.rows, SteerOf(j))
        done == [db EXCEPT !.steers[t][j] = [@ EXCEPT !.status = "succeeded", !.rows = own]]
        memory == Memory(turn, background)
    IN /\ j \in DOMAIN db.steers[t] /\ steer.status = "pending"
       /\ CASE db.runs[t][steer.run].halted ->
                 /\ db' = Settle(Release(done, own), memory, {t})
                 /\ UNCHANGED <<queue, turn>>
            [] ~db.runs[t][steer.run].halted /\ own = {} ->
                 /\ db' = Settle(done, memory, {t})
                 /\ UNCHANGED <<queue, turn>>
            [] ~db.runs[t][steer.run].halted /\ own # {} /\ LiveTurn(t) /\ ~turn[t].aborted
               /\ turn[t].run = steer.run ->
                 /\ turn' = [turn EXCEPT ![t].unread = @ \cup {j}]
                 /\ db' = MarkHeld(done, own)
                 /\ UNCHANGED queue
            [] OTHER ->
                 /\ queue' = [queue EXCEPT ![t] = Append(@, [steer |-> j, run |-> 0, claimed |-> FALSE])]
                 /\ db' = Settle(ToItems(done, own), memory, {t})
                 /\ UNCHANGED turn
       /\ UNCHANGED <<background, setup>>

\* drainSteerForSession: the provider takes what the turn holds.
ReadSteers(t) ==
    /\ LiveTurn(t) /\ UnreadSteers(turn, t)
    /\ turn' = [turn EXCEPT ![t] = [@ EXCEPT !.unread = {}, !.plain = FALSE, !.taken = turn[t].taken \cup turn[t].unread]]
    /\ db' = MarkTaken(db, OfSteers(db, t, turn[t].unread), TRUE)
    /\ UNCHANGED <<queue, background, setup>>

\* returnSteer: the provider could not give the text to its turn.
ReturnSteer(t, j) ==
    /\ LiveTurn(t) /\ j \in turn[t].taken
    /\ Spend("returns")
    /\ turn' = [turn EXCEPT ![t] = [@ EXCEPT !.taken = turn[t].taken \ {j}, !.unread = turn[t].unread \cup {j}]]
    /\ db' = MarkTaken(db, OfSteers(db, t, {j}), FALSE)
    /\ UNCHANGED <<queue, background>>

\* The terminal write of the turn's run. What it showed is history only.
EndRun(t, status) ==
    LET i == turn[t].run
        shown == db.runs[t][i].rows \cup UNION {db.steers[t][j].rows : j \in turn[t].taken}
        seen == [db EXCEPT !.inbox = [k \in DOMAIN db.inbox |->
                   IF status = "completed" /\ k \in shown
                   THEN [db.inbox[k] EXCEPT !.reads = @ \cup {i}] ELSE db.inbox[k]]]
    IN /\ LiveTurn(t)
       /\ turn[t].aborted <=> status = "stopped"
       /\ IF status = "failed" THEN Spend("failures") ELSE UNCHANGED setup
       /\ db' = WriteTerminal(seen, Memory(turn, background), t, i, status)
       /\ UNCHANGED <<queue, turn, background>>

\* settleActiveTurn and the end of the turn.start: what the turn never read goes on as turns of its
\* own, in the order it came; when an item cannot be saved its rows are pending again.
SettleTurn(t, saved) ==
    LET i == turn[t].run
        had == UnreadSteers(turn, t)
        carried == IF had THEN turn[t].unread ELSE {}
        plain == had /\ turn[t].plain
        quiet == [turn EXCEPT ![t] = NoTurn]
        own == OfSteers(db, t, carried)
        moved == IF saved THEN ToItems(db, own) ELSE Release(db, own)
        followed == IF plain
                    THEN [moved EXCEPT !.runs[t] = Append(@,
                             [NewRun("followup", {}, 0)
                              EXCEPT !.status = IF saved THEN "queued" ELSE "cancelled"])]
                    ELSE moved
        items == [n \in 1..Cardinality(carried) |->
                    [steer |-> InOrder(carried)[n], run |-> 0, claimed |-> FALSE]]
        text == IF plain THEN <<[steer |-> 0, run |-> Len(followed.runs[t]), claimed |-> FALSE]>> ELSE <<>>
    IN /\ i # 0 /\ db.runs[t][i].status \in Terminal
       /\ ~saved => had
       /\ IF saved THEN UNCHANGED setup ELSE Spend("failures")
       /\ turn' = quiet
       /\ queue' = IF saved THEN [queue EXCEPT ![t] = @ \o items \o text] ELSE queue
       /\ db' = Settle([followed EXCEPT !.runs[t][i].start = IF @ = "running" THEN "succeeded" ELSE @],
                       Memory(quiet, background), {t})
       /\ UNCHANGED background

-----------------------------------------------------------------------------
(* The queue of a thread.                                                    *)

RunOfItem(t, item) ==
    IF item.steer = 0 THEN item.run
    ELSE LET ensured == {i \in DOMAIN db.runs[t] : db.runs[t][i].item = item.steer}
         IN IF ensured = {} THEN Len(db.runs[t]) + 1 ELSE CHOOSE i \in ensured : TRUE

\* A drain claims the first item.  One that carries notices is rebuilt from the rows it still owns,
\* and dropped when there are none; its run is made under the item's request id.
Drain(t) ==
    LET item == Head(queue[t])
        own == IF item.steer = 0 THEN {} ELSE Own(db, db.steers[t][item.steer].rows, ItemOf(item.steer))
        i == RunOfItem(t, item)
    IN /\ queue[t] # <<>> /\ ~TurnRunning(t)
       /\ IF item.steer # 0 /\ own = {}
          THEN /\ queue' = [queue EXCEPT ![t] = Tail(@)]
               /\ UNCHANGED db
          ELSE /\ queue' = [queue EXCEPT ![t][1].claimed = TRUE]
               /\ db' = IF i \in DOMAIN db.runs[t] THEN [db EXCEPT !.runs[t][i].rows = own]
                        ELSE [db EXCEPT !.runs[t] = Append(@, NewRun("late", own, item.steer))]
       /\ UNCHANGED <<turn, background, setup>>

\* Its turn.start is recorded and the rows follow it; a run that has ended takes the item with it.
StartItem(t) ==
    LET item == Head(queue[t])
        i == RunOfItem(t, item)
        queued == db.runs[t][i].status = "queued"
        started == IF queued THEN [db EXCEPT !.runs[t] = Enqueue(@, i)]
                   ELSE [db EXCEPT !.runs[t][i].start = "succeeded"]
    IN /\ queue[t] # <<>> /\ item.claimed /\ db.runs[t][i].start \notin InFlight
       /\ db' = Settle(IF item.steer = 0 THEN started
                       ELSE ToStart(started, Own(db, db.runs[t][i].rows, ItemOf(item.steer)), i),
                       Memory(turn, background), {t})
       /\ queue' = IF queued THEN queue ELSE [queue EXCEPT ![t] = Tail(@)]
       /\ UNCHANGED <<turn, background, setup>>

\* Reconciler rule 5: a person's send whose turn.start died with the daemon.
RestartSend(t, i) ==
    /\ i \in DOMAIN db.runs[t] /\ ActiveRuns(db, t) = {}
    /\ db.runs[t][i].source = "person" /\ db.runs[t][i].status = "queued" /\ db.runs[t][i].start = "cancelled"
    /\ \A n \in DOMAIN queue[t] : queue[t][n].run # i
    /\ db' = [db EXCEPT !.runs[t] = Enqueue(@, i)]
    /\ UNCHANGED <<queue, turn, background, setup>>

-----------------------------------------------------------------------------
(* Reads, background work, Stops and restarts.                               *)

\* task_status in a turn of the parent.
TaskStatus(k) ==
    /\ k \in DOMAIN db.tasks /\ db.tasks[k].status = "published"
    /\ LET p == Parent[db.tasks[k].child] IN
       /\ LiveTurn(p)
       /\ db' = CancelAcknowledgedWakes(
                   Acknowledge([db EXCEPT !.tasks[k].status = "acknowledged"],
                               {r \in Rows(db, p) : db.inbox[r].task = k}, TRUE),
                   Memory(turn, background), {p})
    /\ UNCHANGED <<queue, turn, background, setup>>

StartBackground(t) ==
    /\ t \in setup.background \ background /\ LiveTurn(t)
    /\ background' = background \cup {t}
    /\ UNCHANGED <<db, queue, turn, setup>>

EndBackground(t) ==
    /\ t \in background
    /\ background' = background \ {t}
    /\ db' = Settle(db, Memory(turn, background'), {t})
    /\ UNCHANGED <<queue, turn, setup>>

\* The thread and everything below it: the smallest set with it that a child of its members
\* is in.
Subtree(t) ==
    {c \in Threads : \A set \in SUBSET Threads :
        t \in set /\ (\A x \in Threads : Parent[x] \in set => x \in set) => c \in set}

\* Queued work is cancelled but a person's messages wait on; a live run is told to stop.
StoppedRun(run) ==
    CASE run.status = "queued" /\ run.source \notin {"person", "followup"} ->
           [run EXCEPT !.status = "cancelled", !.start = IF @ \in InFlight THEN "cancelled" ELSE @]
      [] run.status = "active" -> [run EXCEPT !.halted = TRUE]
      [] OTHER -> run

OutlivesStop(item) == item.claimed \/ item.steer = 0

\* The transaction of a Stop: tasks into the subtree are cancelled, the owner outside it told first,
\* the rows of the subtree settled, its queued work cancelled and its live runs told to stop.
StopWrites(d, t) ==
    LET below == Subtree(t)
        stopped == {k \in DOMAIN d.tasks : d.tasks[k].child \in below /\ d.tasks[k].status = "running"}
        owed == {k \in stopped : Parent[d.tasks[k].child] \notin below}
        told == [d EXCEPT
                   !.inbox = @ \o [n \in 1..Cardinality(owed) |-> NewRow(Parent[t], 0)],
                   !.tasks = [k \in DOMAIN d.tasks |->
                      IF k \in stopped THEN [d.tasks[k] EXCEPT !.status = "cancelled"] ELSE d.tasks[k]]]
        quiet == Acknowledge(told, UNION {Rows(told, c) : c \in below}, TRUE)
    IN [quiet EXCEPT
          !.runs = [c \in Threads |-> IF c \notin below THEN quiet.runs[c]
                                      ELSE [i \in DOMAIN quiet.runs[c] |-> StoppedRun(quiet.runs[c][i])]],
          !.steers = [c \in Threads |->
             [j \in DOMAIN quiet.steers[c] |->
                LET steer == quiet.steers[c][j] IN
                IF c \in below /\ steer.status = "pending" /\ quiet.runs[c][steer.run].status = "active"
                THEN [steer EXCEPT !.status = "cancelled"] ELSE steer]]]

\* The host then aborts the live turns and removes the queue items that deliver notices.
Stop(t) ==
    /\ Spend("stops")
    /\ LET below == Subtree(t)
           aborted == [c \in Threads |->
                         IF c \in below /\ LiveTurn(c) THEN [turn[c] EXCEPT !.aborted = TRUE] ELSE turn[c]]
       IN /\ turn' = aborted
          /\ db' = Settle(StopWrites(db, t), Memory(aborted, background), Threads)
          /\ queue' = [c \in Threads |->
                         IF c \in below
                         THEN ItemsAt(queue[c], {n \in DOMAIN queue[c] : OutlivesStop(queue[c][n])})
                         ELSE queue[c]]
    /\ UNCHANGED background

\* The runs of each step of boot recovery.
CutOff(d) == [t \in Threads |-> ActiveRuns(d, t)]
OrphanedChildren(d) ==
    [t \in Threads |-> {d.tasks[k].run : k \in RunningInto(d, t)} \cap QueuedRuns(d, t)]

QueuedWakes(d) == [t \in Threads |-> {i \in QueuedRuns(d, t) : d.runs[t][i].source = "wake"}]
OrphanedFollowUps(d) ==
    [t \in Threads |->
        {i \in QueuedRuns(d, t) :
            /\ d.runs[t][i].source = "followup" /\ d.runs[t][i].start = "none"
            /\ \A n \in DOMAIN queue[t] : queue[t][n].run # i}]

\* A thread is busy until the last of its runs has ended, so one settlement of it is enough.
EndAll(d, runs, status) ==
    Settle([d EXCEPT !.runs = [t \in Threads |-> [i \in DOMAIN d.runs[t] |->
                  [d.runs[t][i] EXCEPT !.status = IF i \in runs[t] THEN status ELSE @]]]],
              {}, {t \in Threads : runs[t] # {}})

CancelProcessBound(d) ==
    [d EXCEPT
       !.runs = [t \in Threads |-> [i \in DOMAIN d.runs[t] |->
           [d.runs[t][i] EXCEPT !.start = IF @ \in InFlight THEN "cancelled" ELSE @]]],
       !.steers = [t \in Threads |-> [j \in DOMAIN d.steers[t] |->
           [d.steers[t][j] EXCEPT !.status = IF @ = "pending" THEN "cancelled" ELSE @]]]]

\* recoverWakesOnBoot: the rows of a wake that never started, then every other delivery cut off.
RecoverWakes(d) ==
    LET wakes == QueuedWakes(d)
        rows == UNION {UNION {d.runs[t][i].rows : i \in wakes[t]} : t \in Threads}
    IN Restore(PendingAgain(EndAll(d, wakes, "cancelled"), rows, TRUE), {}, DOMAIN d.inbox)

\* recoverQueuedRows: rows of a queue item that is gone.
RecoverQueuedRows(d) ==
    [d EXCEPT !.inbox = [k \in DOMAIN d.inbox |->
        LET row == d.inbox[k] IN
        IF /\ row.status = "delivered" /\ row.by.kind = "item"
           /\ \A n \in DOMAIN queue[row.to] : queue[row.to][n].steer # row.by.n
        THEN [row EXCEPT !.status = "pending", !.by = Nobody] ELSE row]]

CrashAndBoot ==
    /\ Spend("crashes")
    /\ LET cancelled == CancelProcessBound(db)
           cut == EndAll(cancelled, CutOff(cancelled), "cut")
           orphaned == EndAll(cut, OrphanedChildren(cut), "cut")
           woken == Settle(RecoverWakes(orphaned), {}, Threads)
           followed == EndAll(woken, OrphanedFollowUps(woken), "cancelled")
       IN db' = RecoverQueuedRows(followed)
    /\ turn' = [t \in Threads |-> NoTurn]
    /\ background' = {}
    /\ queue' = [t \in Threads |-> [n \in DOMAIN queue[t] |-> [queue[t][n] EXCEPT !.claimed = FALSE]]]

-----------------------------------------------------------------------------
Next ==
    \/ \E due \in SUBSET FailedRows(db) : Reconcile(due)
    \/ CrashAndBoot
    \/ \E t \in Threads :
        \/ Delegate(t) \/ Ask(t) \/ SteerByPerson(t)
        \/ \E i \in DOMAIN db.runs[t] : StartTurn(t, i) \/ StartWake(t, i) \/ RestartSend(t, i)
        \/ \E j \in DOMAIN db.steers[t] : ExecuteSteer(t, j) \/ ReturnSteer(t, j)
        \/ ReadSteers(t)
        \/ \E status \in {"completed", "failed", "stopped"} : EndRun(t, status)
        \/ \E saved \in BOOLEAN : SettleTurn(t, saved)
        \/ Drain(t) \/ StartItem(t)
        \/ StartBackground(t) \/ EndBackground(t)
        \/ Stop(t)
    \/ \E k \in DOMAIN db.tasks : TaskStatus(k)

Spec == Init /\ [][Next]_vars

\* What a thread's own machinery goes on doing: its effects run, its turns end and settle, its queue drains.
Progress(t) ==
    \/ \E i \in DOMAIN db.runs[t] : StartTurn(t, i) \/ StartWake(t, i) \/ RestartSend(t, i)
    \/ \E j \in DOMAIN db.steers[t] : ExecuteSteer(t, j)
    \/ EndRun(t, "completed") \/ EndRun(t, "stopped")
    \/ SettleTurn(t, TRUE)
    \/ Drain(t) \/ StartItem(t)

\* The worker, the providers' turns and the reconciler's timer go on; a turn ends without failing again
\* once the failures are used up.
FairSpec ==
    /\ Spec
    /\ WF_vars(Reconcile(FailedRows(db)))
    /\ \A t \in Threads : WF_vars(Progress(t)) /\ WF_vars(EndBackground(t))

-----------------------------------------------------------------------------
(* Properties.                                                               *)

Statuses == {"queued", "active"} \cup Terminal

TypeOK ==
    /\ \A t \in Threads : \A i \in DOMAIN db.runs[t] :
          /\ db.runs[t][i].status \in Statuses
          /\ db.runs[t][i].start \in {"none", "succeeded", "cancelled"} \cup InFlight
          /\ db.runs[t][i].rows \subseteq Rows(db, t)
    /\ \A t \in Threads : \A j \in DOMAIN db.steers[t] :
          db.steers[t][j].run \in DOMAIN db.runs[t] /\ db.steers[t][j].rows \subseteq Rows(db, t)
    /\ \A k \in DOMAIN db.tasks :
          db.tasks[k].run \in DOMAIN db.runs[db.tasks[k].child]
          /\ db.tasks[k].status \in {"running", "published", "acknowledged", "cancelled"}
    /\ \A k \in DOMAIN db.inbox :
          LET row == db.inbox[k] IN
          /\ row.to \in Threads /\ row.status \in {"pending", "delivered", "acknowledged"}
          /\ row.by.kind = "start" => row.by.n \in DOMAIN db.runs[row.to]
          /\ row.by.kind \in {"steer", "item"} => row.by.n \in DOMAIN db.steers[row.to]
    /\ \A t \in Threads : turn[t].run \in 0..Len(db.runs[t])
    /\ background \subseteq setup.background

\* No task waits for a settlement nobody will make: whatever ends the last reason to hold a task
\* publishes it in the same step, so a running task's subagent is always busy (settleHold is called
\* at every change of what childBusy reads).
HoldIsCurrent == \A t \in Threads : RunningInto(db, t) # {} => Busy(db, Memory(turn, background), t)

\* An answer is final: when a task has published, every notice its subagent had by then was read, in
\* a run no later than the one the answer is from, or settled by a Stop or task_status, or has given
\* up and failed the task.
AnswerIsFinal ==
    \A k \in DOMAIN db.inbox :
        LET task == db.inbox[k].task IN
        task # 0 =>
            \A r \in 1..(k - 1) :
                db.inbox[r].to = db.tasks[task].child =>
                    \/ db.inbox[r].gaveUp \/ db.inbox[r].waived
                    \/ /\ db.inbox[r].status = "acknowledged"
                       /\ \/ db.tasks[task].result = 0
                          \/ \A i \in db.inbox[r].reads : i <= db.tasks[task].result

\* A notice is read once: no two completed turns showed it, and one that was acknowledged by a
\* delivery was shown by the turn that completed it, whatever carriers it changed in between.
ReadOnce ==
    \A k \in DOMAIN db.inbox :
        LET row == db.inbox[k] IN
        /\ Cardinality(row.reads) <= 1
        /\ row.status = "acknowledged" /\ ~row.waived => Cardinality(row.reads) = 1

\* A queued run has something that will start or end it: a turn.start, a queue item, rule 5.
QueuedRunIsStarted ==
    \A t \in Threads : \A i \in DOMAIN db.runs[t] :
        db.runs[t][i].status = "queued" =>
            \/ db.runs[t][i].start \in InFlight
            \/ db.runs[t][i].source = "person" /\ db.runs[t][i].start = "cancelled"
            \/ \E n \in DOMAIN queue[t] : RunOfItem(t, queue[t][n]) = i

\* A person's message on the queue is never lost before its turn: the run it waits under has not ended,
\* whatever stops, fails or restarts around it (docs/run-engine/SPEC.md, rule 5: "left alone").
MessageKept ==
    \A t \in Threads : \A n \in DOMAIN queue[t] :
        queue[t][n].steer = 0 => db.runs[t][queue[t][n].run].status \notin Terminal

\* Delivery gives up on a row only after more than MAX_INBOX_REDELIVERIES deliveries of it failed or
\* were cut off.
GivesUpAfterFailures == \A k \in DOMAIN db.inbox : db.inbox[k].gaveUp => db.inbox[k].failures > MaxRedeliveries

\* A parent never waits for ever: every task publishes or is cancelled.  The tasks of a behaviour are
\* bounded, so each of them ends exactly when from some point on none runs.
TaskEnds == <>[](\A k \in DOMAIN db.tasks : db.tasks[k].status # "running")

\* A notice is never silently stuck: each is acknowledged or its delivery gives up and says so.
NoticeEnds == <>[](\A k \in DOMAIN db.inbox : db.inbox[k].status = "acknowledged" \/ db.inbox[k].gaveUp)
=============================================================================
