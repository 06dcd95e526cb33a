-------------------------- MODULE ThreadApprovals --------------------------
(***************************************************************************)
(* The saved approval requests of one thread: run/ThreadApprovals.ts with  *)
(* the callbacks of orchestrator/UserQuestionService.ts, the sends that    *)
(* deny or deliver requests (RunEngine.commitSend), the continuations, the *)
(* Stops and the boot of orchestrator/OrchestratorService.ts.  rows, runs, *)
(* effects and rules are in the run database; waiter and due are memory.   *)
(***************************************************************************)
EXTENDS Naturals, FiniteSets, Sequences

CONSTANTS
    Prints,                             \* fingerprints of exact requests
    MaxRows, MaxRuns,                   \* bounds: requests, runs,
    MaxStops, MaxCrashes                \* Stops, restarts

VARIABLES
    rows,       \* approval_requests, in the order they were asked
    rules,      \* fingerprints with an "Always for this thread" rule
    runs,       \* the thread's runs
    effects,    \* rows with a request.respond to run
    waiter,     \* a row's provider callback: UserQuestionService.pending, settledWaiters
    due,        \* continuations under way to their admission: [of, ids]
    told,       \* undelivered answers the thread was told about, since the last boot: they continued nothing
    resume,     \* resumeUndeliveredApprovals is due (setImmediate after boot)
    stopping,   \* a Stop is recorded and the thread's requests are not closed yet
    used,       \* Stops and restarts so far
    acts,       \* history: how often the allow of a row let a tool run
    stopped,    \* history: rows asked before a Stop was recorded
    voided      \* history: rows asked before a Stop that closed them

vars == <<rows, rules, runs, effects, waiter, due, told, resume, stopping, used, acts, stopped, voided>>
history == <<told, stopping, used, stopped, voided>>

NewRow(p, i) ==
    [print |-> p, run |-> i, status |-> "pending", path |-> "live", uncertain |-> FALSE,
     decision |-> "none", by |-> "none", delivered |-> FALSE, bound |-> 0, spent |-> FALSE]

\* continues is the dead run whose answers the run was started for, or 0.
NewRun(source, of) == [source |-> source, status |-> "queued", continues |-> of, aborted |-> FALSE]

Init ==
    /\ rows = <<>> /\ rules = {} /\ effects = {} /\ waiter = <<>>
    /\ runs = <<[NewRun("person", 0) EXCEPT !.status = "active"]>>
    /\ due = {} /\ told = {} /\ resume = FALSE /\ stopping = FALSE
    /\ used = [stops |-> 0, crashes |-> 0]
    /\ acts = <<>> /\ stopped = {} /\ voided = {}

Active == {i \in DOMAIN runs : runs[i].status = "active"}
Dead == {"interrupted", "uncertain"}
Pending == {r \in DOMAIN rows : rows[r].status = "pending"}
Undelivered(db) == {r \in DOMAIN db : db[r].status = "answered" /\ ~db[r].delivered}
Waiting(db) == {r \in Undelivered(db) : db[r].path = "continue"}

\* The turn that asks still works on what it is told.
Working(i) == runs[i].status = "active" /\ ~runs[i].aborted

-----------------------------------------------------------------------------
(* Asking.                                                                   *)

Grants(i, p) ==
    {r \in DOMAIN rows : /\ rows[r].bound = i /\ rows[r].print = p
                         /\ rows[r].decision = "allow" /\ ~rows[r].spent}

\* requestAnswers: a grant of the run, then a rule of the thread, then a new request.
Ask(i, p) ==
    /\ Working(i)
    /\ \/ /\ \E r \in Grants(i, p) :
                /\ \A s \in Grants(i, p) : r <= s
                /\ rows' = [rows EXCEPT ![r].spent = TRUE]
                /\ acts' = [acts EXCEPT ![r] = @ + 1]
          /\ UNCHANGED waiter
       \/ /\ Grants(i, p) = {} /\ ~(p \in rules /\ runs[i].source = "person")
          /\ Len(rows) < MaxRows
          /\ rows' = Append(rows, NewRow(p, i))
          /\ waiter' = Append(waiter, "asked")
          /\ acts' = Append(acts, 0)
    /\ UNCHANGED <<rules, runs, effects, due, resume, history>>

\* A mutant: nobody asks whether the run has other requests open.
BugContinuationDue(db, a) ==
    LET ready == {r \in Waiting(db) : db[r].run = a}
    IN IF \E r \in ready : db[r].by = "user" THEN {[of |-> a, ids |-> ready]} ELSE {}

\* The turn that carries the answers of a dead run, once none of its requests is pending; answers
\* of agents alone wait for a person.
ContinuationDue(db, a) ==
    LET ready == {r \in Waiting(db) : db[r].run = a}
    IN IF /\ \A r \in DOMAIN db : db[r].run = a => db[r].status # "pending"
          /\ \E r \in ready : db[r].by = "user"
       THEN {[of |-> a, ids |-> ready]} ELSE {}

Answered(row, decision, who) == [row EXCEPT !.status = "answered", !.decision = decision, !.by = who]

\* A row is delivered; who answered it and what the crash left of its run are read no more.
Delivered(row) == [row EXCEPT !.delivered = TRUE, !.by = "none", !.uncertain = FALSE]

\* What a callback that is told an answer lets run.
Acts(r, decision) == IF decision = "allow" /\ Working(rows[r].run) THEN 1 ELSE 0

\* settle: the only place a request is answered.  "Always" makes a rule and allows the identical
\* requests that wait beside it, whose callbacks are told at once (settleSaved).
Answer(r, decision, who) ==
    /\ r \in Pending
    /\ decision = "always" => who = "user" /\ runs[rows[r].run].source = "person"
    /\ LET meaning == IF decision = "reject" THEN "reject" ELSE "allow"
           siblings == {s \in Pending \ {r} : decision = "always" /\ rows[s].print = rows[r].print
                                              /\ rows[s].path = "live"}
           answered == [s \in DOMAIN rows |->
                           CASE s = r -> Answered(rows[s], meaning, who)
                             [] s \in siblings -> Delivered(Answered(rows[s], meaning, who))
                             [] OTHER -> rows[s]]
       IN /\ rows' = answered
          /\ acts' = [s \in DOMAIN rows |-> acts[s] + IF s \in siblings THEN Acts(s, meaning) ELSE 0]
          /\ waiter' = [s \in DOMAIN rows |-> CASE s \in siblings -> "none"
                                                [] s = r /\ waiter[s] = "asked" -> "settled"
                                                [] OTHER -> waiter[s]]
          /\ effects' = effects \cup {s \in siblings \cup {r} : rows[s].path = "live"}
          /\ due' = IF rows[r].path = "continue" THEN due \cup ContinuationDue(answered, rows[r].run) ELSE due
    /\ rules' = IF decision = "always" THEN rules \cup {rows[r].print} ELSE rules
    /\ UNCHANGED <<runs, resume, history>>

RevokeRule(p) ==
    /\ p \in rules /\ rules' = rules \ {p}
    /\ UNCHANGED <<rows, runs, effects, waiter, due, resume, acts, history>>

\* A mutant: the row does not learn that its answer arrived.
BugDeliver(r) ==
    /\ waiter' = [waiter EXCEPT ![r] = "none"]
    /\ acts' = [acts EXCEPT ![r] = @ + Acts(r, rows[r].decision)]
    /\ UNCHANGED rows

\* deliver: the callback gets the answer of its row once, and the row is delivered.
Deliver(r) ==
    /\ waiter' = [waiter EXCEPT ![r] = "none"]
    /\ IF rows[r].status = "answered"
       THEN /\ rows' = [rows EXCEPT ![r] = Delivered(@)]
            /\ acts' = [acts EXCEPT ![r] = @ + Acts(r, rows[r].decision)]
       ELSE UNCHANGED <<rows, acts>>

\* The request.respond effect: a row without a callback is not its business.
Respond(r) ==
    /\ r \in effects
    /\ effects' = effects \ {r}
    /\ IF waiter[r] = "settled" THEN Deliver(r) ELSE UNCHANGED <<rows, waiter, acts>>
    /\ UNCHANGED <<rules, runs, due, resume, history>>

\* reconcileThread, reconcileRequest: a callback whose row was settled behind the service's back.
Reconcile(r) ==
    /\ r \in DOMAIN rows /\ waiter[r] = "asked" /\ rows[r].status # "pending"
    /\ Deliver(r)
    /\ UNCHANGED <<rules, runs, effects, due, resume, history>>

Cancelled(db, which) ==
    [r \in DOMAIN db |-> IF r \in which /\ db[r].status = "pending"
                         THEN [db[r] EXCEPT !.status = "cancelled"] ELSE db[r]]

\* closeDurable: the provider withdraws its request, or the limit of an unattended run passes.
Withdraw(r) ==
    /\ r \in Pending /\ waiter[r] = "asked"
    /\ rows' = Cancelled(rows, {r})
    /\ waiter' = [waiter EXCEPT ![r] = "none"]
    /\ UNCHANGED <<rules, runs, effects, due, resume, acts, history>>

-----------------------------------------------------------------------------
(* Runs.                                                                     *)

StartRun(i) ==
    /\ i \in DOMAIN runs /\ runs[i].status = "queued" /\ Active = {}
    /\ runs' = [runs EXCEPT ![i].status = "active"]
    /\ UNCHANGED <<rows, rules, effects, waiter, due, resume, acts, history>>

\* A mutant: requests outlive their run.
BugAskedBy(i) == {}
AskedBy(i) == {r \in Pending : rows[r].run = i}

\* writeRunTerminal: a run's requests never outlive it while the daemon lives; the event closes
\* their callbacks.
EndRun(i) ==
    /\ i \in Active
    /\ runs' = [runs EXCEPT ![i].status = "ended"]
    /\ rows' = Cancelled(rows, AskedBy(i))
    /\ waiter' = [r \in DOMAIN waiter |-> IF r \in AskedBy(i) THEN "none" ELSE waiter[r]]
    /\ UNCHANGED <<rules, effects, due, resume, acts, history>>

\* bindDelivery
Bound(db, ids, i) ==
    [r \in DOMAIN db |-> IF r \in ids \cap Undelivered(db)
                         THEN [Delivered(db[r]) EXCEPT !.bound = i] ELSE db[r]]

\* A person's message denies what is pending and takes along what no turn was given yet, in the
\* transaction of its admission.
Send ==
    /\ Len(runs) < MaxRuns
    /\ LET denied == [r \in DOMAIN rows |-> IF r \in Pending THEN Answered(rows[r], "reject", "user") ELSE rows[r]]
       IN rows' = Bound(denied, Pending \cup Waiting(denied), Len(runs) + 1)
    /\ runs' = Append(runs, NewRun("person", 0))
    /\ told' = {}
    /\ UNCHANGED <<rules, effects, waiter, due, resume, acts, stopping, used, stopped, voided>>

\* A scheduled run (preemptQuestions: false) answers nothing.
Schedule ==
    /\ Len(runs) < MaxRuns
    /\ runs' = Append(runs, NewRun("schedule", 0))
    /\ UNCHANGED <<rows, rules, effects, waiter, due, resume, acts, history>>

\* startApprovalContinuation, commitSend: a second continuation of a run is a replay, and one that
\* would deliver nothing is refused without a word.
Continue(d) ==
    /\ d \in due /\ due' = due \ {d}
    /\ IF (\E i \in DOMAIN runs : runs[i].continues = d.of) \/ d.ids \cap Undelivered(rows) = {}
       THEN UNCHANGED <<rows, runs, told>>
       ELSE /\ Len(runs) < MaxRuns
            /\ rows' = Bound(rows, d.ids, Len(runs) + 1)
            /\ runs' = Append(runs, NewRun("person", d.of))
            /\ told' = told \ d.ids
    /\ UNCHANGED <<rules, effects, waiter, resume, acts, stopping, used, stopped, voided>>

\* A mutant: a refusal is only logged.
BugRefuse(d) ==
    /\ d \in due /\ due' = due \ {d}
    /\ UNCHANGED <<rows, rules, runs, effects, waiter, resume, acts, history>>

\* Any other refusal of the send (the thread is deleted, expired or a bot's, the database is busy) keeps
\* no receipt; the thread says that its answer could not continue it.
Refuse(d) ==
    /\ d \in due /\ due' = due \ {d}
    /\ told' = told \cup d.ids
    /\ UNCHANGED <<rows, rules, runs, effects, waiter, resume, acts, stopping, used, stopped, voided>>

-----------------------------------------------------------------------------
(* Stops and restarts.                                                       *)

Allowed(row) == row.status = "answered" /\ row.decision = "allow"

\* A mutant: a grant that was not used survives.
BugRetired(db) ==
    [r \in DOMAIN db |-> IF db[r].status = "answered" THEN Delivered(db[r]) ELSE db[r]]

\* retireDelivery: an answer nobody delivered is retired, a grant nobody used is spent.
Retired(db) ==
    [r \in DOMAIN db |->
        IF db[r].status = "answered" /\ (~db[r].delivered \/ (Allowed(db[r]) /\ db[r].bound # 0))
        THEN [Delivered(db[r]) EXCEPT !.spent = @ \/ Allowed(db[r])] ELSE db[r]]

\* stopSubtree: the transaction of a Stop marks the live turn, and what a person or a schedule sent
\* stays queued (survivesStop) unless the queue is cleared.
Stop(clearQueue) ==
    /\ used.stops < MaxStops
    /\ used' = [used EXCEPT !.stops = @ + 1]
    /\ runs' = [i \in DOMAIN runs |->
                  CASE runs[i].status = "active" -> [runs[i] EXCEPT !.aborted = TRUE]
                    [] runs[i].status = "queued" /\ clearQueue -> [runs[i] EXCEPT !.status = "ended"]
                    [] OTHER -> runs[i]]
    /\ stopping' = TRUE /\ stopped' = DOMAIN rows
    /\ UNCHANGED <<rows, rules, effects, waiter, due, told, resume, acts, voided>>

\* The same Stop, in transactions of their own: the thread's requests are closed and what is still
\* armed is retired.  Only the end of the process comes in between.
CloseStopped ==
    /\ stopping /\ stopping' = FALSE
    /\ rows' = Retired(Cancelled(rows, Pending))
    /\ waiter' = [r \in DOMAIN waiter |-> IF r \in Pending THEN "none" ELSE waiter[r]]
    /\ voided' = DOMAIN rows /\ told' = {}
    /\ UNCHANGED <<rules, runs, effects, due, resume, used, acts, stopped>>

CutOff(row) == row.status = "pending" \/ (row.status = "answered" /\ ~row.delivered /\ row.path = "live")

\* recoverOnBoot: what waited for a provider of the dead process can only continue the thread.
Recovered(row, run) ==
    IF ~CutOff(row) THEN row
    ELSE IF row.status = "pending" /\ (run.source = "schedule" \/ run.status \notin Dead)
    THEN [row EXCEPT !.status = "cancelled"]
    ELSE IF run.status \in Dead
    THEN [row EXCEPT !.path = "continue", !.uncertain = run.status = "uncertain"]
    ELSE Delivered(row)

\* The daemon dies or is stopped, and boots.
Restart(status) ==
    /\ used.crashes < MaxCrashes
    /\ used' = [used EXCEPT !.crashes = @ + 1]
    /\ LET cut == [i \in DOMAIN runs |-> IF i \in Active THEN [runs[i] EXCEPT !.status = status] ELSE runs[i]]
       IN /\ runs' = cut
          /\ rows' = [r \in DOMAIN rows |-> Recovered(rows[r], cut[rows[r].run])]
    /\ effects' = {} /\ due' = {} /\ told' = {} /\ resume' = TRUE /\ stopping' = FALSE
    /\ waiter' = [r \in DOMAIN waiter |-> "none"]
    /\ UNCHANGED <<rules, acts, stopped, voided>>

\* resumeUndeliveredApprovals: answers that were committed before the restart continue their threads;
\* of a run that may have run a tool the thread is told, and a person has to continue it.
Resume ==
    /\ resume /\ resume' = FALSE
    /\ LET ready == UNION {ContinuationDue(rows, i) : i \in DOMAIN runs}
           unsafe == {d \in ready : \E r \in d.ids : rows[r].uncertain}
       IN /\ due' = due \cup (ready \ unsafe)
          /\ told' = told \cup UNION {d.ids : d \in unsafe}
    /\ UNCHANGED <<rows, rules, runs, effects, waiter, acts, stopping, used, stopped, voided>>

-----------------------------------------------------------------------------
Work ==
    \/ \E i \in DOMAIN runs : EndRun(i) \/ StartRun(i) \/ \E p \in Prints : Ask(i, p)
    \/ \E r \in DOMAIN rows :
          \/ \E decision \in {"allow", "always", "reject"}, who \in {"user", "agent"} : Answer(r, decision, who)
          \/ Respond(r) \/ Reconcile(r) \/ Withdraw(r)
    \/ \E p \in Prints : RevokeRule(p)
    \/ Send \/ Schedule
    \/ \E d \in due : Continue(d) \/ Refuse(d)
    \/ \E clearQueue \in BOOLEAN : Stop(clearQueue)
    \/ Resume

Next ==
    \/ ~stopping /\ Work
    \/ CloseStopped
    \/ \E status \in Dead : Restart(status)

Spec == Init /\ [][Next]_vars

\* What the daemon owes: the worker runs its effects, promises resolve, a send is admitted or refused,
\* boot's last step comes and a Stop is finished.
Owed ==
    \/ ~stopping /\ \/ \E r \in effects : Respond(r)
                    \/ \E r \in DOMAIN rows : Reconcile(r)
                    \/ \E d \in due : Continue(d) \/ Refuse(d)
                    \/ Resume
    \/ CloseStopped

\* Each step uses up a part of it, so that nothing is put off for ever and fairness of the whole is enough.
FairSpec == Spec /\ WF_vars(Owed)

-----------------------------------------------------------------------------
(* Properties.                                                               *)

Row == [print : Prints, run : Nat, status : {"pending", "answered", "cancelled"},
        path : {"live", "continue"}, uncertain : BOOLEAN, decision : {"none", "allow", "reject"},
        by : {"none", "user", "agent"}, delivered : BOOLEAN, bound : Nat, spent : BOOLEAN]
Run == [source : {"person", "schedule"}, status : {"queued", "active", "ended"} \cup Dead,
        continues : Nat, aborted : BOOLEAN]

\* The variables keep their types, and every request is of a run.
TypeOK ==
    /\ rows \in Seq(Row) /\ runs \in Seq(Run) /\ rules \in SUBSET Prints
    /\ waiter \in Seq({"asked", "settled", "none"}) /\ Len(waiter) = Len(rows)
    /\ acts \in Seq(Nat) /\ Len(acts) = Len(rows)
    /\ \A r \in DOMAIN rows : rows[r].run \in DOMAIN runs
    /\ effects \in SUBSET DOMAIN rows /\ told \in SUBSET DOMAIN rows
    /\ stopped \in SUBSET DOMAIN rows /\ voided \in SUBSET DOMAIN rows
    /\ due \in SUBSET [of : DOMAIN runs, ids : SUBSET DOMAIN rows]
    /\ resume \in BOOLEAN /\ stopping \in BOOLEAN
    /\ used \in [stops : Nat, crashes : Nat]

\* An allow lets one tool call run, in whatever way it comes: by the provider that waited, or by the
\* grant of the run that was started to deliver it, across restarts between any two steps.
ActedOnce == \A r \in DOMAIN rows : acts[r] <= 1

\* Nothing that was asked or decided before a Stop that closed the thread's requests is acted on after
\* it: not by a waiting provider, a queued run that carries an allow, the next boot or a later run.
NothingAfterStop == [][\A r \in voided : acts'[r] = acts[r]]_vars

\* The same of every Stop that was recorded ("neither the next boot nor a later run can act on a decision
\* that came before the Stop", retireDelivery).  It fails when the process ends between Stop and
\* CloseStopped: the boot continues the run the Stop was for.
NothingAfterRecordedStop == [][\A r \in stopped : acts'[r] = acts[r]]_vars

\* A card that is shown can be answered: a request that waits for a provider has its callback and a run
\* that is active, and one that would continue the thread is of a run that a restart cut off.
CardIsCurrent ==
    \A r \in Pending :
        IF rows[r].path = "live" THEN waiter[r] = "asked" /\ rows[r].run \in Active
        ELSE runs[rows[r].run].status \in Dead

\* A dead run is continued once, with all of its answers: none of its requests is still open, and none
\* of its answers is left over.
AnswersTogether ==
    \A a \in DOMAIN runs :
        LET next == {i \in DOMAIN runs : runs[i].continues = a} IN
        /\ Cardinality(next) <= 1
        /\ next # {} => \A r \in DOMAIN rows : rows[r].run = a => rows[r].status # "pending" /\ r \notin Undelivered(rows)

\* No answer of a person is forgotten: it is given to its provider or to a run that carries it, a Stop
\* retires it, or its thread says, after the last boot, that it continued nothing.  Only another request
\* of the same run holds it back (startApprovalContinuation: "so the thread says so").
NoAnswerForgotten ==
    \A r \in 1..MaxRows :
        (r \in DOMAIN rows /\ r \in Undelivered(rows) /\ rows[r].by = "user")
           ~> /\ r \in DOMAIN rows
              /\ rows[r].delivered \/ r \in told \/ \E s \in Pending : rows[s].run = rows[r].run
=============================================================================
