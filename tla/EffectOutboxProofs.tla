------------------------- MODULE EffectOutboxProofs -------------------------
(***************************************************************************)
(* Proofs about EffectOutbox, for every number of threads, fibres, rows,   *)
(* boots and attempts.                                                     *)
(***************************************************************************)
EXTENDS EffectOutbox, TLAPS

\* Rows are inserted in order, and a row nobody inserted was never touched.
RowOrder ==
    \A r \in Rows :
        /\ effects[r].status = "absent" =>
              /\ claims[r] = 0 /\ begun[r] = 0
              /\ \A f \in Fibres : fibre[f].row # r
              /\ \A q \in Rows : r < q => effects[q].status = "absent"
        /\ effects[r].status \in {"running", "succeeded", "failed"} => claims[r] > 0

\* Executions live inside a running process; leases belong to its generation.
DaemonInv ==
    /\ worker = "running" => up
    /\ ~up => unwinding = {} /\ \A f \in Fibres : fibre[f].row = NoRow
    /\ worker = "stopped" => unwinding = {} /\ \A f \in Fibres : fibre[f].row = NoRow
    /\ ended => ~up
    /\ up => \A r \in Rows : effects[r].status = "running" => effects[r].owner = epoch

\* A one-shot row is claimed by one fibre at a time, and work that began on it
\* has used up its only attempt.
OneShotInv ==
    \A r \in Rows : effects[r].kind \in OneShotKinds =>
        /\ begun[r] <= 1
        /\ effects[r].status = "pending" =>
              /\ effects[r].attempts = 0 /\ begun[r] = 0
              /\ \A f \in Fibres : fibre[f].row # r
        /\ effects[r].status = "running" => effects[r].attempts = 1
        /\ \A f \in Fibres : fibre[f].row = r =>
              /\ ~fibre[f].begun => begun[r] = 0
              /\ inFlight[r] = {f}
              /\ \A g \in Fibres : fibre[g].row = r => g = f

\* The inductive invariant.
Inv ==
    /\ TypeOK
    /\ RowOrder
    /\ DaemonInv
    /\ OneShotInv
    /\ LaneFIFO
    /\ CancelReachesExecution

-----------------------------------------------------------------------------
\* The initial state satisfies the invariant.
LEMMA InitInv == Init => Inv
<1> SUFFICES ASSUME Init PROVE Inv
  OBVIOUS
<1> USE DEF Init
<1>1. NoEffect \in Effect
  BY OutboxAssumption DEF NoEffect, Effect, Kinds, EffectStatus, NoOwner
<1>2. Idle \in Execution
  BY DEF Idle, Execution, NoRow
<1>3. TypeOK
  BY <1>1, <1>2 DEF TypeOK, NoEffect
<1>4. RowOrder
  <2> SUFFICES ASSUME NEW r \in Rows
               PROVE  /\ effects[r].status = "absent" /\ claims[r] = 0 /\ begun[r] = 0
                      /\ \A f \in Fibres : fibre[f].row # r
                      /\ \A q \in Rows : effects[q].status = "absent"
    BY DEF RowOrder
  <2>1. r # NoRow
    BY OutboxAssumption DEF Rows, NoRow
  <2> QED
    BY <2>1 DEF NoEffect, Idle
<1>5. DaemonInv
  BY DEF DaemonInv, Idle
<1>6. OneShotInv
  BY DEF OneShotInv, NoEffect, Idle, Rows, NoRow
<1>7. LaneFIFO
  BY DEF LaneFIFO, NoEffect
<1>8. CancelReachesExecution
  BY DEF CancelReachesExecution, Executing, Idle
<1> QED
  BY <1>3, <1>4, <1>5, <1>6, <1>7, <1>8 DEF Inv

-----------------------------------------------------------------------------
\* What the writes of EffectOutbox do to a row: the record stays an effect, its
\* identity stays, and only a claim leaves it with a live lease.
LEMMA RowWrites ==
  ASSUME NEW e \in Effect, epoch \in Nat
  PROVE  /\ Claimed(e) \in Effect
         /\ \A d \in {Succeeded(e), RetryOrFail(e), Deferred(e), CancelRecord(e)} :
               /\ d \in Effect /\ d.thread = e.thread /\ d.kind = e.kind
               /\ ~d.lease
               /\ d.status = "pending" => d.owner = NoOwner
               /\ d.status \in {"pending", "succeeded", "failed", "cancelled"}
         /\ Recovered(e) \in Effect
         /\ Recovered(e).thread = e.thread /\ Recovered(e).kind = e.kind
<1>0. e.attempts \in Nat /\ e.attempts + 1 \in Nat /\ e.defers + 1 \in Nat
      /\ (IF e.attempts = 0 THEN 0 ELSE e.attempts - 1) \in Nat
  BY DEF Effect
<1>1. Claimed(e) \in Effect
  BY <1>0 DEF Claimed, Effect, EffectStatus
<1>2. /\ Succeeded(e) \in Effect /\ Succeeded(e).thread = e.thread /\ Succeeded(e).kind = e.kind
      /\ ~Succeeded(e).lease /\ Succeeded(e).status = "succeeded"
  BY DEF Succeeded, Effect, EffectStatus
<1>3. /\ RetryOrFail(e) \in Effect /\ RetryOrFail(e).thread = e.thread /\ RetryOrFail(e).kind = e.kind
      /\ ~RetryOrFail(e).lease
      /\ \/ RetryOrFail(e).status = "failed"
         \/ RetryOrFail(e).status = "pending" /\ RetryOrFail(e).owner = NoOwner
  BY DEF RetryOrFail, Effect, EffectStatus, NoOwner
<1>4. /\ Deferred(e) \in Effect /\ Deferred(e).thread = e.thread /\ Deferred(e).kind = e.kind
      /\ ~Deferred(e).lease /\ Deferred(e).status = "pending" /\ Deferred(e).owner = NoOwner
  BY <1>0 DEF Deferred, Effect, EffectStatus, NoOwner
<1>5. /\ CancelRecord(e) \in Effect /\ CancelRecord(e).thread = e.thread /\ CancelRecord(e).kind = e.kind
      /\ ~CancelRecord(e).lease /\ CancelRecord(e).status = "cancelled"
  BY DEF CancelRecord, Effect, EffectStatus
<1>6. /\ Recovered(e) \in Effect
      /\ Recovered(e).thread = e.thread /\ Recovered(e).kind = e.kind
  BY <1>5 DEF Recovered, Effect, EffectStatus, NoOwner
<1> QED
  BY <1>1, <1>2, <1>3, <1>4, <1>5, <1>6

\* What a settlement leaves behind: its row as one of the writes, or nothing.
LEMMA SettleEffect ==
  ASSUME TypeOK, NEW f \in Fibres, Executing(f),
         \/ Settle(f, Succeeded(Row(f))) \/ Settle(f, RetryOrFail(Row(f)))
         \/ Settle(f, Deferred(Row(f))) \/ Settle(f, CancelRecord(Row(f)))
  PROVE  /\ fibre[f].row \in Rows
         /\ effects' \in [Rows -> Effect]
         /\ \A r \in Rows :
               /\ effects'[r].thread = effects[r].thread
               /\ effects'[r].kind = effects[r].kind
               /\ \/ effects'[r] = effects[r]
                  \/ /\ r = fibre[f].row /\ effects[r].status = "running"
                     /\ ~effects'[r].lease
                     /\ effects'[r].status \in {"pending", "succeeded", "failed", "cancelled"}
                     /\ effects'[r].status = "pending" => effects'[r].owner = NoOwner
<1> DEFINE r0 == fibre[f].row
           e0 == effects[r0]
           W == {Succeeded(e0), RetryOrFail(e0), Deferred(e0), CancelRecord(e0)}
<1>1. r0 \in Rows /\ e0 \in Effect /\ epoch \in Nat
  BY DEF TypeOK, Execution, Executing
<1>2. effects' = effects
      \/ /\ e0.status = "running"
         /\ \E d \in W : effects' = [effects EXCEPT ![r0] = d]
  BY DEF Settle, Holds, Row
<1>3. CASE effects' = effects
  BY <1>1, <1>3 DEF TypeOK
<1>4. ASSUME e0.status = "running", NEW d \in W, effects' = [effects EXCEPT ![r0] = d]
      PROVE  /\ effects' \in [Rows -> Effect]
             /\ \A r \in Rows : effects'[r] = IF r = r0 THEN d ELSE effects[r]
             /\ d.thread = e0.thread /\ d.kind = e0.kind /\ ~d.lease
             /\ d.status \in {"pending", "succeeded", "failed", "cancelled"}
             /\ d.status = "pending" => d.owner = NoOwner
  <2>1. /\ d \in Effect /\ d.thread = e0.thread /\ d.kind = e0.kind /\ ~d.lease
        /\ d.status \in {"pending", "succeeded", "failed", "cancelled"}
        /\ d.status = "pending" => d.owner = NoOwner
    <3> HIDE DEF e0
    <3> QED
      BY <1>1, <1>4, RowWrites
  <2> QED
    BY <2>1, <1>1, <1>4 DEF TypeOK
<1> QED
  BY <1>1, <1>2, <1>3, <1>4

\* An execution that is released leaves every other fibre alone.
LEMMA ReleaseEffect ==
  ASSUME TypeOK, NEW f \in Fibres, Executing(f), Release(f)
  PROVE  /\ fibre' \in [Fibres -> Execution]
         /\ inFlight' \in [Rows -> SUBSET Fibres]
         /\ \A g \in Fibres : fibre'[g] = IF g = f THEN Idle ELSE fibre[g]
         /\ \A r \in Rows : inFlight'[r] = IF r = fibre[f].row THEN {} ELSE inFlight[r]
<1>1. Idle \in Execution
  BY DEF Idle, Execution, NoRow
<1> QED
  BY <1>1 DEF TypeOK, Release

\* Every step keeps the types.
LEMMA TypeStep == TypeOK /\ [Next]_vars => TypeOK'
<1> SUFFICES ASSUME TypeOK, [Next]_vars PROVE TypeOK'
  OBVIOUS
<1> USE DEF TypeOK
<1>0. Idle \in Execution /\ NoEffect \in Effect /\ epoch \in Nat
  BY OutboxAssumption
  DEF Idle, Execution, NoRow, NoEffect, Effect, Kinds, EffectStatus, NoOwner
<1>1. ASSUME NEW t \in Threads, NEW k \in Kinds, Enqueue(t, k) PROVE TypeOK'
  <2> DEFINE new == [NoEffect EXCEPT !.thread = t, !.kind = k, !.status = "pending", !.due = TRUE]
  <2>1. new \in Effect /\ ~new.lease /\ new.owner = NoOwner
    BY OutboxAssumption DEF NoEffect, Effect, Kinds, EffectStatus, NoOwner
  <2>2. PICK r \in Rows : effects' = [effects EXCEPT ![r] = new]
    BY <1>1 DEF Enqueue
  <2> HIDE DEF new
  <2> QED
    BY <1>1, <2>1, <2>2 DEF Enqueue
<1>2. ASSUME NEW r \in Rows, CancelTurn(r) PROVE TypeOK'
  <2>1. effects' = [effects EXCEPT ![r] = CancelRecord(effects[r])]
    BY <1>2 DEF CancelTurn
  <2>2. fibre' \in [Fibres -> Execution]
    BY <1>2, ZenonT(40) DEF CancelTurn, AbortInFlight, Execution
  <2> QED
    BY <1>2, <2>1, <2>2, RowWrites DEF CancelTurn
<1>3. ASSUME NEW r \in Rows, CancelPending(r) PROVE TypeOK'
  <2>1. effects' = [effects EXCEPT ![r] = CancelRecord(effects[r])]
    BY <1>3 DEF CancelPending
  <2> QED
    BY <1>3, <2>1, RowWrites DEF CancelPending
<1>4. ASSUME NEW r \in Rows, Unwound(r) PROVE TypeOK'
  BY <1>4 DEF Unwound
<1>5. ASSUME NEW r \in Rows, LeaseExpires(r) PROVE TypeOK'
  BY <1>5 DEF LeaseExpires, Effect
<1>6. ASSUME NEW r \in Rows, BecomesDue(r) PROVE TypeOK'
  BY <1>6, ZenonT(40) DEF BecomesDue, Effect
<1>7. ASSUME NEW f \in Fibres, Claim(f) PROVE TypeOK'
  <2>1. PICK r \in Rows : /\ Claimable(r)
                          /\ effects' = [effects EXCEPT ![r] = Claimed(effects[r])]
                          /\ claims' = [claims EXCEPT ![r] = claims[r] + 1]
                          /\ fibre' = [fibre EXCEPT ![f] = [Idle EXCEPT !.row = r, !.claim = claims[r] + 1]]
                          /\ inFlight' = [inFlight EXCEPT ![r] = {f}]
    BY <1>7 DEF Claim
  <2>2. [Idle EXCEPT !.row = r, !.claim = claims[r] + 1] \in Execution
    <3>1. claims[r] + 1 \in Nat
      OBVIOUS
    <3> QED
      BY <3>1 DEF Execution, Idle
  <2>3. Claimed(effects[r]) \in Effect /\ Claimed(effects[r]).status = "running"
    <3>1. Claimed(effects[r]) \in Effect
      BY RowWrites, <1>0
    <3>2. ASSUME NEW e \in Effect PROVE Claimed(e).status = "running"
      BY DEF Claimed, Effect
    <3> QED
      BY <3>1, <3>2
  <2> QED
    BY <1>7, <2>1, <2>2, <2>3 DEF Claim
<1>8. ASSUME NEW f \in Fibres, Begin(f) PROVE TypeOK'
  <2>1. fibre[f].row \in Rows /\ [fibre[f] EXCEPT !.begun = TRUE] \in Execution
    BY <1>8 DEF Begin, Executing, Execution
  <2> QED
    BY <1>8, <2>1 DEF Begin
<1>9. ASSUME NEW f \in Fibres, Renew(f) PROVE TypeOK'
  <2>1. fibre[f].row \in Rows /\ [fibre[f] EXCEPT !.lost = TRUE] \in Execution
    BY <1>9 DEF Renew, Executing, Execution
  <2>2. CASE Holds(fibre[f].row) /\ effects' = [effects EXCEPT ![fibre[f].row].lease = TRUE] /\ fibre' = fibre
    <3>1. ASSUME NEW e \in Effect PROVE [e EXCEPT !.lease = TRUE] \in Effect
      BY DEF Effect
    <3> QED
      BY <1>9, <2>1, <2>2, <3>1 DEF Renew, Holds, Effect
  <2>3. CASE fibre' = [fibre EXCEPT ![f].lost = TRUE] /\ effects' = effects
    BY <1>9, <2>1, <2>3 DEF Renew
  <2> QED
    BY <1>9, <2>2, <2>3 DEF Renew
<1>10. ASSUME NEW f \in Fibres, Succeed(f) PROVE TypeOK'
  BY <1>10, SettleEffect, ReleaseEffect DEF Succeed
<1>11. ASSUME NEW f \in Fibres, Defer(f) PROVE TypeOK'
  BY <1>11, SettleEffect, ReleaseEffect DEF Defer
<1>12. ASSUME NEW f \in Fibres, Fail(f) PROVE TypeOK'
  BY <1>12, SettleEffect, ReleaseEffect DEF Fail
<1>13. ASSUME NEW f \in Fibres, Abandon(f) PROVE TypeOK'
  <2>1. fibre[f].row \in Rows
    BY <1>13 DEF Abandon, Executing, Execution
  <2> QED
    BY <1>13, <2>1, SettleEffect, ReleaseEffect DEF Abandon
<1>14. ASSUME NEW f \in Fibres, SettleThrows(f) PROVE TypeOK'
  BY <1>14, ReleaseEffect DEF SettleThrows
<1>15. ASSUME ReclaimExpired PROVE TypeOK'
  <2>1. \A r \in Rows : effects'[r] = IF Expired(effects[r]) THEN RetryOrFail(effects[r]) ELSE effects[r]
    BY <1>15 DEF ReclaimExpired
  <2>2. effects' \in [Rows -> Effect]
    BY <1>15, RowWrites DEF ReclaimExpired
  <2> QED
    BY <1>15, <2>1, <2>2, RowWrites DEF ReclaimExpired
<1>16. CASE StopWorker \/ WorkerStopped \/ EndEpoch
  BY <1>16 DEF StopWorker, WorkerStopped, EndEpoch
<1>17. CASE Crash
  BY <1>17, <1>0 DEF Crash
<1>18. CASE Boot
  <2>1. \A r \in Rows : effects'[r] = Recovered(effects[r])
    BY <1>18 DEF Boot
  <2>2. effects' \in [Rows -> Effect]
    BY <1>18, RowWrites DEF Boot
  <2>3. ASSUME NEW e \in Effect, e.lease => e.status = "running", e.status = "pending" => e.owner = NoOwner
        PROVE  /\ Recovered(e).lease => Recovered(e).status = "running"
               /\ Recovered(e).status = "pending" => Recovered(e).owner = NoOwner
    BY <2>3, RowWrites DEF Recovered, CancelRecord, Effect
  <2>4. \A r \in Rows :
          /\ effects'[r].lease => effects'[r].status = "running"
          /\ effects'[r].status = "pending" => effects'[r].owner = NoOwner
    BY <2>1, <2>3
  <2>5. epoch' = epoch + 1 /\ ended' = FALSE /\ up' = TRUE /\ worker' = "running"
    BY <1>18 DEF Boot
  <2>6. epoch' \in Nat
    BY <1>0, <2>5
  <2>7. /\ fibre' \in [Fibres -> Execution] /\ inFlight' \in [Rows -> SUBSET Fibres]
        /\ unwinding' \subseteq Rows
        /\ claims' \in [Rows -> Nat] /\ begun' \in [Rows -> Nat]
    BY <1>18 DEF Boot
  <2>8. up' \in BOOLEAN /\ ended' \in BOOLEAN /\ worker' \in {"running", "stopping", "stopped"}
    BY <2>5, Zenon
  <2> QED
    BY <2>2, <2>4, <2>6, <2>7, <2>8
<1>19. CASE UNCHANGED vars
  BY <1>19 DEF vars
<1> QED
  BY <1>1, <1>2, <1>3, <1>4, <1>5, <1>6, <1>7, <1>8, <1>9, <1>10, <1>11, <1>12, <1>13, <1>14,
     <1>15, <1>16, <1>17, <1>18, <1>19 DEF Next

\* The outbox keeps its types and lease discipline whatever happens.
THEOREM TypeCorrect == Spec => []TypeOK
<1>1. Init => TypeOK
  BY InitInv DEF Inv
<1> QED
  BY <1>1, TypeStep, PTL DEF Spec

-----------------------------------------------------------------------------
(* Claims, one-shot effects and cancels.  Most steps only let go: a row      *)
(* settles or waits again, an execution ends or learns of a cancel.          *)

\* What such a step does to a row.
QuietRow(e, d) ==
    /\ d.thread = e.thread /\ d.kind = e.kind
    /\ e.status \in Terminal => d = e
    /\ \/ d.status = e.status /\ d.attempts = e.attempts
       \/ e.status = "running" /\ d.status \in {"pending", "succeeded", "failed", "cancelled"}
       \/ e.status = "pending" /\ d.status = "cancelled"

\* What it does to the fibres.
QuietFibres ==
    \A f \in Fibres :
       \/ fibre'[f] = Idle
       \/ /\ fibre'[f].row = fibre[f].row /\ fibre'[f].begun = fibre[f].begun
          /\ fibre[f].cancelled => fibre'[f].cancelled

\* A one-shot row that waits again has not begun, and is no fibre's any more; the
\* executions that go on are still the registered ones.
QuietOneShot ==
    \A r \in Rows : effects[r].kind \in OneShotKinds =>
       /\ \A f \in Fibres : fibre'[f].row = r => inFlight'[r] = inFlight[r]
       /\ effects[r].status = "running" /\ effects'[r].status = "pending" =>
             /\ effects'[r].attempts = 0
             /\ \E f \in Fibres : fibre[f].row = r /\ ~fibre[f].begun /\ fibre'[f] = Idle

\* A turn that is cancelled tells its execution.
QuietCancel ==
    \A r \in Rows, f \in Fibres :
       /\ effects[r].kind = "turn.start" /\ fibre'[f].row = r
       /\ effects[r].status # "cancelled" /\ effects'[r].status = "cancelled"
       => fibre'[f].cancelled

\* No row is inserted, claimed or begun: what most steps are, and all of them keep Claims.
Quiet ==
    /\ \A r \in Rows : QuietRow(effects[r], effects'[r])
    /\ QuietFibres /\ QuietOneShot /\ QuietCancel
    /\ claims' = claims /\ begun' = begun

\* The parts of the invariant that are about rows and their executions.
Claims == RowOrder /\ OneShotInv /\ LaneFIFO /\ CancelReachesExecution

\* No row has the number of an idle fibre's.
LEMMA IdleHasNoRow == Idle.row \notin Rows /\ Idle.row = NoRow
  BY OutboxAssumption DEF Idle, Rows, NoRow

\* A quiet step keeps the order of the table.
LEMMA QuietRowOrder ==
  ASSUME TypeOK, RowOrder, Quiet
  PROVE  RowOrder'
<1>1. SUFFICES ASSUME NEW r \in Rows
               PROVE  /\ effects'[r].status = "absent" =>
                            /\ claims'[r] = 0 /\ begun'[r] = 0
                            /\ \A f \in Fibres : fibre'[f].row # r
                            /\ \A q \in Rows : r < q => effects'[q].status = "absent"
                      /\ effects'[r].status \in {"running", "succeeded", "failed"} => claims'[r] > 0
  BY DEF RowOrder
<1>2. \A q \in Rows : QuietRow(effects[q], effects'[q])
  BY DEF Quiet
<1>3. ASSUME effects'[r].status = "absent"
      PROVE  /\ claims'[r] = 0 /\ begun'[r] = 0
             /\ \A f \in Fibres : fibre'[f].row # r
             /\ \A q \in Rows : r < q => effects'[q].status = "absent"
  <2>1. effects[r].status = "absent"
    BY <1>2, <1>3 DEF QuietRow
  <2>2. \A f \in Fibres : fibre'[f].row # r
    BY <2>1, IdleHasNoRow DEF RowOrder, Quiet, QuietFibres
  <2>3. \A q \in Rows : r < q => effects'[q].status = "absent"
    BY <1>2, <2>1 DEF RowOrder, QuietRow
  <2> QED
    BY <2>1, <2>2, <2>3 DEF RowOrder, Quiet
<1>4. ASSUME effects'[r].status \in {"running", "succeeded", "failed"}
      PROVE  claims'[r] > 0
  <2>1. effects[r].status \in {"running", "succeeded", "failed"}
    BY <1>2, <1>4 DEF QuietRow
  <2> QED
    BY <2>1 DEF RowOrder, Quiet
<1> QED
  BY <1>3, <1>4

\* A quiet step keeps what a one-shot row has used up.
LEMMA QuietOneShotInv ==
  ASSUME TypeOK, OneShotInv, Quiet
  PROVE  OneShotInv'
<1>1. SUFFICES ASSUME NEW r \in Rows, effects'[r].kind \in OneShotKinds
               PROVE  /\ begun'[r] <= 1
                      /\ effects'[r].status = "pending" =>
                            /\ effects'[r].attempts = 0 /\ begun'[r] = 0
                            /\ \A f \in Fibres : fibre'[f].row # r
                      /\ effects'[r].status = "running" => effects'[r].attempts = 1
                      /\ \A f \in Fibres : fibre'[f].row = r =>
                            /\ ~fibre'[f].begun => begun'[r] = 0
                            /\ inFlight'[r] = {f}
                            /\ \A g \in Fibres : fibre'[g].row = r => g = f
  BY DEF OneShotInv
<1>2. QuietRow(effects[r], effects'[r]) /\ begun' = begun
  BY DEF Quiet
<1>3. effects[r].kind \in OneShotKinds
  BY <1>1, <1>2 DEF QuietRow
<1>4. \A f \in Fibres : fibre'[f].row = r =>
         fibre[f].row = r /\ fibre'[f].begun = fibre[f].begun /\ inFlight'[r] = inFlight[r]
  BY <1>3, IdleHasNoRow DEF Quiet, QuietFibres, QuietOneShot
<1>5. /\ begun[r] <= 1
      /\ effects[r].status = "pending" =>
            /\ effects[r].attempts = 0 /\ begun[r] = 0
            /\ \A f \in Fibres : fibre[f].row # r
      /\ effects[r].status = "running" => effects[r].attempts = 1
      /\ \A f \in Fibres : fibre[f].row = r =>
            /\ ~fibre[f].begun => begun[r] = 0
            /\ inFlight[r] = {f}
            /\ \A g \in Fibres : fibre[g].row = r => g = f
  BY <1>3 DEF OneShotInv
<1>6. ASSUME effects'[r].status = "pending"
      PROVE  effects'[r].attempts = 0 /\ begun'[r] = 0 /\ \A f \in Fibres : fibre'[f].row # r
  <2>1. CASE effects[r].status = "pending"
    BY <1>2, <1>4, <1>5, <1>6, <2>1 DEF QuietRow
  <2>2. CASE effects[r].status # "pending"
    <3>1. effects[r].status = "running"
      BY <1>2, <1>6, <2>2 DEF QuietRow
    <3>2. PICK f \in Fibres : fibre[f].row = r /\ ~fibre[f].begun /\ fibre'[f] = Idle
      BY <1>3, <1>6, <3>1 DEF Quiet, QuietOneShot
    <3>3. begun[r] = 0 /\ \A g \in Fibres : fibre'[g].row # r
      BY <1>4, <1>5, <3>2, IdleHasNoRow
    <3>4. effects'[r].attempts = 0
      BY <1>3, <1>6, <3>1 DEF Quiet, QuietOneShot
    <3> QED
      BY <1>2, <3>3, <3>4
  <2> QED
    BY <2>1, <2>2
<1>7. effects'[r].status = "running" => effects'[r].attempts = 1
  BY <1>2, <1>5 DEF QuietRow
<1>8. \A f \in Fibres : fibre'[f].row = r =>
         /\ ~fibre'[f].begun => begun'[r] = 0
         /\ inFlight'[r] = {f}
         /\ \A g \in Fibres : fibre'[g].row = r => g = f
  BY <1>2, <1>4, <1>5
<1> QED
  BY <1>2, <1>5, <1>6, <1>7, <1>8

\* A quiet step keeps the order of the first claims.
LEMMA QuietLaneFIFO ==
  ASSUME TypeOK, RowOrder, LaneFIFO, Quiet
  PROVE  LaneFIFO'
<1>1. SUFFICES ASSUME NEW r \in Rows, NEW q \in Rows, q < r, SameLane(q, r)',
                      effects'[r].status # "absent", claims'[r] > 0
               PROVE  claims'[q] > 0 \/ effects'[q].status = "cancelled"
  BY DEF LaneFIFO
<1>2. QuietRow(effects[r], effects'[r]) /\ QuietRow(effects[q], effects'[q]) /\ claims' = claims
  BY DEF Quiet
<1>3. SameLane(q, r) /\ effects[r].status # "absent" /\ claims[r] > 0
  BY <1>1, <1>2 DEF QuietRow, SameLane
<1>4. claims[q] > 0 \/ effects[q].status = "cancelled"
  BY <1>1, <1>3 DEF LaneFIFO
<1> QED
  BY <1>2, <1>4 DEF QuietRow

\* A quiet step leaves no cancelled turn that runs on unaware.
LEMMA QuietCancelReaches ==
  ASSUME TypeOK, CancelReachesExecution, Quiet
  PROVE  CancelReachesExecution'
<1>1. SUFFICES ASSUME NEW f \in Fibres, Executing(f)', effects'[fibre'[f].row].kind = "turn.start",
                      effects'[fibre'[f].row].status = "cancelled"
               PROVE  fibre'[f].cancelled
  BY DEF CancelReachesExecution
<1> DEFINE r == fibre'[f].row
<1>2. fibre'[f] # Idle
  BY <1>1, IdleHasNoRow DEF Executing
<1>3. r = fibre[f].row /\ (fibre[f].cancelled => fibre'[f].cancelled)
  BY <1>2 DEF Quiet, QuietFibres
<1>4. Executing(f) /\ r \in Rows
  BY <1>1, <1>3 DEF Executing, TypeOK, Execution
<1>5. QuietRow(effects[r], effects'[r])
  BY <1>4 DEF Quiet
<1>6. CASE effects[r].status = "cancelled"
  BY <1>1, <1>3, <1>4, <1>5, <1>6 DEF CancelReachesExecution, QuietRow
<1>7. CASE effects[r].status # "cancelled"
  BY <1>1, <1>4, <1>5, <1>7 DEF Quiet, QuietCancel, QuietRow
<1> QED
  BY <1>6, <1>7

\* A quiet step keeps every part of the invariant that is about claims.
LEMMA QuietKeeps ==
  ASSUME TypeOK, Claims, Quiet
  PROVE  Claims'
  BY QuietRowOrder, QuietOneShotInv, QuietLaneFIFO, QuietCancelReaches DEF Claims

\* A step that changes no row, no fibre and no registration.
LEMMA SameQuiet ==
  ASSUME TypeOK, UNCHANGED <<effects, fibre, inFlight, claims, begun>>
  PROVE  Quiet
  BY DEF Quiet, QuietRow, QuietFibres, QuietOneShot, QuietCancel

\* An execution of a one-shot row that is released was the only one.
LEMMA ReleaseQuiet ==
  ASSUME TypeOK, OneShotInv, NEW f \in Fibres, Executing(f), Release(f),
         \A r \in Rows : QuietRow(effects[r], effects'[r]),
         \A r \in Rows : effects[r].status = "running" /\ effects'[r].status # "running" => r = fibre[f].row,
         \A r \in Rows : effects[r].status = "pending" => effects'[r].status = "pending",
         LET r == fibre[f].row IN
            effects[r].kind \in OneShotKinds /\ effects[r].status = "running" /\ effects'[r].status = "pending"
               => effects'[r].attempts = 0 /\ ~fibre[f].begun,
         claims' = claims, begun' = begun
  PROVE  Quiet
<1>1. /\ \A g \in Fibres : fibre'[g] = IF g = f THEN Idle ELSE fibre[g]
      /\ \A r \in Rows : inFlight'[r] = IF r = fibre[f].row THEN {} ELSE inFlight[r]
  BY ReleaseEffect
<1>2. QuietFibres
  BY <1>1 DEF QuietFibres
<1>3. \A r \in Rows, g \in Fibres : fibre'[g].row = r => g # f /\ fibre[g].row = r
  BY <1>1, IdleHasNoRow
<1>4. \A r \in Rows, g \in Fibres : effects[r].kind \in OneShotKinds /\ fibre'[g].row = r => r # fibre[f].row
  BY <1>3 DEF OneShotInv
<1>5. QuietOneShot
  BY <1>1, <1>4 DEF QuietOneShot
<1>6. \A r \in Rows : effects[r].status # "cancelled" /\ effects'[r].status = "cancelled" => r = fibre[f].row
  BY DEF QuietRow
<1>7. QuietCancel
  BY <1>4, <1>6 DEF QuietCancel, OneShotKinds
<1> QED
  BY <1>2, <1>5, <1>7 DEF Quiet

\* A settlement of that execution, by whichever of its writes.
LEMMA SettleQuiet ==
  ASSUME TypeOK, OneShotInv, NEW f \in Fibres, Executing(f), Release(f),
         \/ Settle(f, Succeeded(Row(f))) \/ Settle(f, RetryOrFail(Row(f)))
         \/ ~fibre[f].begun /\ Settle(f, Deferred(Row(f)))
         \/ Settle(f, CancelRecord(Row(f))),
         claims' = claims, begun' = begun
  PROVE  Quiet
<1> DEFINE r0 == fibre[f].row
           e0 == effects[r0]
<1>1. /\ r0 \in Rows
      /\ \A r \in Rows :
            /\ effects'[r].thread = effects[r].thread
            /\ effects'[r].kind = effects[r].kind
            /\ \/ effects'[r] = effects[r]
               \/ /\ r = r0 /\ effects[r].status = "running"
                  /\ effects'[r].status \in {"pending", "succeeded", "failed", "cancelled"}
  BY SettleEffect
<1>2. \A r \in Rows : QuietRow(effects[r], effects'[r])
  BY <1>1 DEF QuietRow, Terminal
<1>3. \A r \in Rows : effects[r].status = "running" /\ effects'[r].status # "running" => r = r0
  BY <1>1
<1>4. \A r \in Rows : effects[r].status = "pending" => effects'[r].status = "pending"
  BY <1>1
<1>5. ASSUME e0.kind \in OneShotKinds, e0.status = "running", effects'[r0].status = "pending"
      PROVE  effects'[r0].attempts = 0 /\ ~fibre[f].begun
  <2>1. e0 \in Effect /\ e0.attempts = 1 /\ effects \in [Rows -> Effect]
    BY <1>1, <1>5 DEF TypeOK, OneShotInv
  <2>2. effects' # effects
    BY <1>5
  <2>3. \/ effects'[r0] = Succeeded(e0) \/ effects'[r0] = RetryOrFail(e0)
        \/ ~fibre[f].begun /\ effects'[r0] = Deferred(e0)
        \/ effects'[r0] = CancelRecord(e0)
    BY <1>1, <2>1, <2>2 DEF Settle, Row
  <2>4. ASSUME NEW e \in Effect, e.kind \in OneShotKinds, e.attempts = 1
        PROVE  /\ Succeeded(e).status = "succeeded" /\ RetryOrFail(e).status = "failed"
               /\ CancelRecord(e).status = "cancelled" /\ Deferred(e).attempts = 0
    BY <2>4 DEF Succeeded, RetryOrFail, CancelRecord, Deferred, MaxAttempts, Effect
  <2> HIDE DEF e0
  <2>5. /\ Succeeded(e0).status = "succeeded" /\ RetryOrFail(e0).status = "failed"
        /\ CancelRecord(e0).status = "cancelled" /\ Deferred(e0).attempts = 0
    BY <1>5, <2>1, <2>4
  <2> QED
    BY <1>5, <2>3, <2>5
<1> QED
  BY <1>2, <1>3, <1>4, <1>5, ReleaseQuiet

\* A success is quiet.
LEMMA SucceedQuiet ==
  ASSUME TypeOK, OneShotInv, NEW f \in Fibres, Succeed(f)
  PROVE  Quiet
  BY SettleQuiet DEF Succeed

\* A deferral is quiet: it happens before the work began.
LEMMA DeferQuiet ==
  ASSUME TypeOK, OneShotInv, NEW f \in Fibres, Defer(f)
  PROVE  Quiet
  BY SettleQuiet DEF Defer

\* A failure is quiet: a one-shot row has no attempt left.
LEMMA FailQuiet ==
  ASSUME TypeOK, OneShotInv, NEW f \in Fibres, Fail(f)
  PROVE  Quiet
  BY SettleQuiet DEF Fail

\* Nothing is written when a lost lease, a stop of the worker or a failed
\* transaction ends an execution.
LEMMA UnwrittenQuiet ==
  ASSUME TypeOK, OneShotInv, NEW f \in Fibres, Executing(f), Release(f), effects' = effects,
         claims' = claims, begun' = begun
  PROVE  Quiet
<1>1. \A r \in Rows : QuietRow(effects[r], effects'[r])
  BY DEF QuietRow
<1> QED
  BY <1>1, ReleaseQuiet

\* An aborted execution is quiet.
LEMMA AbandonQuiet ==
  ASSUME TypeOK, OneShotInv, NEW f \in Fibres, Abandon(f)
  PROVE  Quiet
<1>1. CASE Settle(f, CancelRecord(Row(f)))
  BY <1>1, SettleQuiet DEF Abandon
<1>2. CASE effects' = effects
  BY <1>2, UnwrittenQuiet DEF Abandon
<1> QED
  BY <1>1, <1>2 DEF Abandon

\* A settlement that throws is quiet.
LEMMA SettleThrowsQuiet ==
  ASSUME TypeOK, OneShotInv, NEW f \in Fibres, SettleThrows(f)
  PROVE  Quiet
  BY UnwrittenQuiet DEF SettleThrows

\* A Stop cancels the turn's row and aborts the one execution it has.
LEMMA CancelTurnQuiet ==
  ASSUME TypeOK, OneShotInv, NEW r \in Rows, CancelTurn(r)
  PROVE  Quiet
<1>1. /\ effects' = [effects EXCEPT ![r] = CancelRecord(effects[r])]
      /\ effects[r].status \in {"pending", "running"} /\ effects[r].kind = "turn.start"
      /\ fibre' = IF effects[r].status = "running" THEN AbortInFlight(r) ELSE fibre
      /\ inFlight' = inFlight /\ claims' = claims /\ begun' = begun
  BY DEF CancelTurn
<1>2. \A q \in Rows : effects'[q] = IF q = r THEN CancelRecord(effects[r]) ELSE effects[q]
  BY <1>1 DEF TypeOK
<1>3. /\ CancelRecord(effects[r]).status = "cancelled"
      /\ CancelRecord(effects[r]).thread = effects[r].thread /\ CancelRecord(effects[r]).kind = effects[r].kind
  BY DEF CancelRecord, TypeOK, Effect
<1>4. \A q \in Rows : QuietRow(effects[q], effects'[q])
  BY <1>1, <1>2, <1>3 DEF QuietRow, Terminal
<1>5. \A f \in Fibres : /\ fibre'[f].row = fibre[f].row /\ fibre'[f].begun = fibre[f].begun
                        /\ fibre[f].cancelled => fibre'[f].cancelled
                        /\ effects[r].status = "running" /\ f \in inFlight[r] => fibre'[f].cancelled
  BY <1>1 DEF AbortInFlight, TypeOK, Execution
<1>6. QuietFibres
  BY <1>5 DEF QuietFibres
<1>7. QuietOneShot
  BY <1>1, <1>2, <1>3 DEF QuietOneShot
<1>8. \A f \in Fibres : fibre[f].row = r => effects[r].status = "running" /\ f \in inFlight[r]
  BY <1>1 DEF OneShotInv, OneShotKinds
<1>9. QuietCancel
  BY <1>2, <1>5, <1>8 DEF QuietCancel
<1> QED
  BY <1>1, <1>4, <1>6, <1>7, <1>9 DEF Quiet

\* The cancel of a pending steer or timer is quiet.
LEMMA CancelPendingQuiet ==
  ASSUME TypeOK, NEW r \in Rows, CancelPending(r)
  PROVE  Quiet
<1>1. /\ effects' = [effects EXCEPT ![r] = CancelRecord(effects[r])]
      /\ effects[r].status = "pending" /\ effects[r].kind # "turn.start"
      /\ fibre' = fibre /\ inFlight' = inFlight /\ claims' = claims /\ begun' = begun
  BY DEF CancelPending
<1>2. \A q \in Rows : effects'[q] = IF q = r THEN CancelRecord(effects[r]) ELSE effects[q]
  BY <1>1 DEF TypeOK
<1>3. /\ CancelRecord(effects[r]).status = "cancelled"
      /\ CancelRecord(effects[r]).thread = effects[r].thread /\ CancelRecord(effects[r]).kind = effects[r].kind
  BY DEF CancelRecord, TypeOK, Effect
<1> QED
  BY <1>1, <1>2, <1>3 DEF Quiet, QuietRow, QuietFibres, QuietOneShot, QuietCancel, Terminal

\* Time and the lease write fields that the invariant does not read.
LEMMA FieldQuiet ==
  ASSUME TypeOK, NEW r \in Rows, NEW e \in Effect,
         e.thread = effects[r].thread, e.kind = effects[r].kind,
         e.status = effects[r].status, e.attempts = effects[r].attempts, e.status \in {"pending", "running"},
         effects' = [effects EXCEPT ![r] = e], fibre' = fibre, inFlight' = inFlight,
         claims' = claims, begun' = begun
  PROVE  Quiet
<1>1. \A q \in Rows : effects'[q] = IF q = r THEN e ELSE effects[q]
  BY DEF TypeOK
<1> QED
  BY <1>1 DEF Quiet, QuietRow, QuietFibres, QuietOneShot, QuietCancel, Terminal

\* The end of a lease is quiet.
LEMMA LeaseExpiresQuiet ==
  ASSUME TypeOK, NEW r \in Rows, LeaseExpires(r)
  PROVE  Quiet
<1> DEFINE e == [effects[r] EXCEPT !.lease = FALSE]
<1>1. /\ e \in Effect /\ e.thread = effects[r].thread /\ e.kind = effects[r].kind
      /\ e.status = effects[r].status /\ e.attempts = effects[r].attempts
  BY DEF TypeOK, Effect
<1>2. effects' = [effects EXCEPT ![r] = e]
  BY DEF LeaseExpires
<1> HIDE DEF e
<1> QED
  BY <1>1, <1>2, FieldQuiet DEF LeaseExpires

\* The end of a wait is quiet.
LEMMA BecomesDueQuiet ==
  ASSUME TypeOK, NEW r \in Rows, BecomesDue(r)
  PROVE  Quiet
<1> DEFINE e == [effects[r] EXCEPT !.due = TRUE]
<1>1. /\ e \in Effect /\ e.thread = effects[r].thread /\ e.kind = effects[r].kind
      /\ e.status = effects[r].status /\ e.attempts = effects[r].attempts
  BY DEF TypeOK, Effect
<1>2. effects' = [effects EXCEPT ![r] = e]
  BY DEF BecomesDue
<1> HIDE DEF e
<1> QED
  BY <1>1, <1>2, FieldQuiet DEF BecomesDue

\* A renewal, kept or lost, is quiet.
LEMMA RenewQuiet ==
  ASSUME TypeOK, NEW f \in Fibres, Renew(f)
  PROVE  Quiet
<1>1. CASE Holds(fibre[f].row) /\ effects' = [effects EXCEPT ![fibre[f].row].lease = TRUE] /\ fibre' = fibre
  <2> DEFINE r == fibre[f].row
             e == [effects[r] EXCEPT !.lease = TRUE]
  <2>1. r \in Rows
    BY DEF Renew, Executing, TypeOK, Execution
  <2>2. /\ e \in Effect /\ e.thread = effects[r].thread /\ e.kind = effects[r].kind
        /\ e.status = effects[r].status /\ e.attempts = effects[r].attempts
    BY <2>1, ZenonT(40) DEF TypeOK, Effect
  <2>3. effects' = [effects EXCEPT ![r] = e]
    BY <1>1
  <2>4. effects[r].status = "running"
    BY <1>1 DEF Holds
  <2> HIDE DEF r, e
  <2> QED
    BY <1>1, <2>1, <2>2, <2>3, <2>4, FieldQuiet DEF Renew
<1>2. CASE fibre' = [fibre EXCEPT ![f].lost = TRUE] /\ effects' = effects
  <2>1. \A g \in Fibres : /\ fibre'[g].row = fibre[g].row /\ fibre'[g].begun = fibre[g].begun
                          /\ fibre'[g].cancelled = fibre[g].cancelled
    BY <1>2 DEF TypeOK, Execution
  <2> QED
    BY <1>2, <2>1 DEF Renew, Quiet, QuietRow, QuietFibres, QuietOneShot, QuietCancel
<1> QED
  BY <1>1, <1>2 DEF Renew

\* Rule 1: a one-shot row with an expired lease has used its attempt and fails.
LEMMA ReclaimQuiet ==
  ASSUME TypeOK, OneShotInv, ReclaimExpired
  PROVE  Quiet
<1>1. \A r \in Rows : effects'[r] = IF Expired(effects[r]) THEN RetryOrFail(effects[r]) ELSE effects[r]
  BY DEF ReclaimExpired
<1>2. ASSUME NEW e \in Effect
      PROVE  /\ RetryOrFail(e).thread = e.thread /\ RetryOrFail(e).kind = e.kind
             /\ RetryOrFail(e).status \in {"pending", "failed"}
             /\ e.kind \in OneShotKinds /\ e.attempts = 1 => RetryOrFail(e).status = "failed"
  BY DEF RetryOrFail, MaxAttempts, Effect
<1>3. \A r \in Rows : effects[r] \in Effect
  BY DEF TypeOK
<1>4. \A r \in Rows : QuietRow(effects[r], effects'[r]) /\ (effects'[r].status = "cancelled" => effects[r].status = "cancelled")
  BY <1>1, <1>2, <1>3 DEF QuietRow, Expired, Terminal
<1>5. QuietFibres
  BY DEF ReclaimExpired, QuietFibres
<1>6. \A r \in Rows : effects[r].kind \in OneShotKinds /\ effects[r].status = "running" => effects[r].attempts = 1
  BY DEF OneShotInv
<1>7. \A r \in Rows : effects[r].kind \in OneShotKinds /\ effects[r].status = "running" => effects'[r].status # "pending"
  BY <1>1, <1>2, <1>3, <1>6 DEF Expired
<1>8. QuietOneShot
  BY <1>7 DEF ReclaimExpired, QuietOneShot
<1>9. QuietCancel
  BY <1>4 DEF QuietCancel
<1> QED
  BY <1>4, <1>5, <1>8, <1>9 DEF Quiet, ReclaimExpired

\* A crash is quiet: it forgets every execution.
LEMMA CrashQuiet ==
  ASSUME TypeOK, Crash
  PROVE  Quiet
<1>1. \A f \in Fibres : fibre'[f] = Idle
  BY DEF Crash
<1>2. QuietFibres
  BY <1>1 DEF QuietFibres
<1>3. \A r \in Rows, f \in Fibres : fibre'[f].row # r
  BY <1>1, IdleHasNoRow
<1> QED
  BY <1>2, <1>3 DEF Crash, Quiet, QuietRow, QuietOneShot, QuietCancel

\* Boot is quiet: it cancels one-shot rows and requeues replay-safe ones.
LEMMA BootQuiet ==
  ASSUME TypeOK, DaemonInv, Boot
  PROVE  Quiet
<1>1. \A r \in Rows : effects'[r] = Recovered(effects[r])
  BY DEF Boot
<1>2. ASSUME NEW e \in Effect
      PROVE  QuietRow(e, Recovered(e)) /\ (e.kind \in OneShotKinds => Recovered(e).status # "pending")
  BY DEF QuietRow, Recovered, CancelRecord, ReplaySafe, OneShotKinds, Terminal, Effect
<1>3. \A r \in Rows : /\ QuietRow(effects[r], effects'[r])
                      /\ effects[r].kind \in OneShotKinds => effects'[r].status # "pending"
  BY <1>1, <1>2 DEF TypeOK
<1>4. \A r \in Rows, f \in Fibres : fibre'[f].row # r
  BY OutboxAssumption DEF Boot, DaemonInv, Rows, NoRow
<1>5. QuietOneShot
  BY <1>3 DEF QuietOneShot, Boot
<1>6. QuietCancel
  BY <1>4 DEF QuietCancel
<1>7. QuietFibres /\ claims' = claims /\ begun' = begun
  BY DEF Boot, QuietFibres
<1> QED
  BY <1>3, <1>5, <1>6, <1>7 DEF Quiet

-----------------------------------------------------------------------------
(* The three steps that are not quiet.                                      *)

\* A new row is the last of the table and pending.
LEMMA EnqueueKeeps ==
  ASSUME TypeOK, Claims, NEW t \in Threads, NEW k \in Kinds, Enqueue(t, k)
  PROVE  Claims'
<1> DEFINE new == [NoEffect EXCEPT !.thread = t, !.kind = k, !.status = "pending", !.due = TRUE]
<1>1. PICK n \in Rows : /\ effects[n].status = "absent"
                        /\ \A q \in Rows : q < n => effects[q].status # "absent"
                        /\ effects' = [effects EXCEPT ![n] = new]
  BY DEF Enqueue
<1>2. new.status = "pending" /\ new.attempts = 0 /\ new.kind = k
  BY DEF NoEffect
<1> HIDE DEF new
<1>3. \A r \in Rows : effects'[r] = IF r = n THEN new ELSE effects[r]
  BY <1>1 DEF TypeOK
<1>4. fibre' = fibre /\ inFlight' = inFlight /\ claims' = claims /\ begun' = begun
  BY DEF Enqueue
<1>5. /\ claims[n] = 0 /\ begun[n] = 0
      /\ \A f \in Fibres : fibre[f].row # n
      /\ \A q \in Rows : n < q => effects[q].status = "absent"
  BY <1>1 DEF Claims, RowOrder
<1>6. RowOrder'
  <2>1. \A r \in Rows : effects'[r].status = "absent" => r # n /\ effects[r].status = "absent" /\ ~(r < n)
    BY <1>1, <1>2, <1>3
  <2>2. \A r \in Rows : effects'[r].status \in {"running", "succeeded", "failed"}
                           => effects[r].status \in {"running", "succeeded", "failed"}
    BY <1>2, <1>3
  <2>3. \A r, q \in Rows : effects'[r].status = "absent" /\ r < q => effects'[q].status = "absent"
    BY <1>3, <2>1 DEF Claims, RowOrder
  <2> QED
    BY <1>4, <2>1, <2>2, <2>3 DEF Claims, RowOrder
<1>7. OneShotInv'
  <2>1. ASSUME NEW r \in Rows, effects'[r].kind \in OneShotKinds
        PROVE  /\ begun[r] <= 1
               /\ effects'[r].status = "pending" =>
                     /\ effects'[r].attempts = 0 /\ begun[r] = 0
                     /\ \A f \in Fibres : fibre[f].row # r
               /\ effects'[r].status = "running" => effects'[r].attempts = 1
               /\ \A f \in Fibres : fibre[f].row = r =>
                     /\ ~fibre[f].begun => begun[r] = 0
                     /\ inFlight[r] = {f}
                     /\ \A g \in Fibres : fibre[g].row = r => g = f
    <3>1. CASE r = n
      BY <1>2, <1>3, <1>5, <3>1
    <3>2. CASE r # n
      BY <1>3, <2>1, <3>2 DEF Claims, OneShotInv
    <3> QED
      BY <3>1, <3>2
  <2> QED
    BY <1>4, <2>1 DEF OneShotInv
<1>8. LaneFIFO'
  <2>1. SUFFICES ASSUME NEW r \in Rows, NEW q \in Rows, q < r, SameLane(q, r)',
                        effects'[r].status # "absent", claims[r] > 0
                 PROVE  claims[q] > 0 \/ effects'[q].status = "cancelled"
    BY <1>4 DEF LaneFIFO
  <2>2. r # n /\ q # n
    BY <1>3, <1>5, <2>1
  <2>3. SameLane(q, r) /\ effects[r].status # "absent" /\ effects'[q] = effects[q]
    BY <1>3, <2>1, <2>2 DEF SameLane
  <2> QED
    BY <2>1, <2>3 DEF Claims, LaneFIFO
<1>9. CancelReachesExecution'
  <2>1. \A f \in Fibres : Executing(f) => fibre[f].row \in Rows /\ fibre[f].row # n
    BY <1>5 DEF Executing, TypeOK, Execution
  <2> QED
    BY <1>3, <1>4, <2>1 DEF Claims, CancelReachesExecution, Executing
<1> QED
  BY <1>6, <1>7, <1>8, <1>9 DEF Claims

\* A claim takes the oldest row of a lane, for a fibre that is free.
LEMMA ClaimKeeps ==
  ASSUME TypeOK, Claims, NEW f \in Fibres, Claim(f)
  PROVE  Claims'
<1>1. PICK n \in Rows : /\ Claimable(n)
                        /\ effects' = [effects EXCEPT ![n] = Claimed(effects[n])]
                        /\ claims' = [claims EXCEPT ![n] = claims[n] + 1]
                        /\ fibre' = [fibre EXCEPT ![f] = [Idle EXCEPT !.row = n, !.claim = claims[n] + 1]]
                        /\ inFlight' = [inFlight EXCEPT ![n] = {f}]
  BY DEF Claim
<1>2. /\ Claimed(effects[n]).status = "running" /\ Claimed(effects[n]).attempts = effects[n].attempts + 1
      /\ Claimed(effects[n]).thread = effects[n].thread /\ Claimed(effects[n]).kind = effects[n].kind
  BY DEF Claimed, TypeOK, Effect
<1>3. \A r \in Rows : effects'[r] = IF r = n THEN Claimed(effects[n]) ELSE effects[r]
  BY <1>1 DEF TypeOK
<1>4. effects[n].status = "pending" /\ begun' = begun /\ fibre[f].row = NoRow
  BY <1>1 DEF Claimable, Claim, Executing
<1>5. /\ \A r \in Rows : claims'[r] = IF r = n THEN claims[n] + 1 ELSE claims[r]
      /\ \A r \in Rows : inFlight'[r] = IF r = n THEN {f} ELSE inFlight[r]
      /\ \A r \in Rows : claims[r] \in Nat
  BY <1>1 DEF TypeOK
<1>6. \A g \in Fibres : /\ g # f => fibre'[g] = fibre[g]
                        /\ g = f => fibre'[g].row = n /\ ~fibre'[g].begun /\ ~fibre'[g].cancelled
  BY <1>1 DEF TypeOK, Idle
<1>7. RowOrder'
  <2>1. \A r \in Rows : effects'[r].status = "absent" => r # n /\ effects[r].status = "absent"
    BY <1>2, <1>3
  <2>2. \A r \in Rows : effects'[r].status \in {"running", "succeeded", "failed"} => claims'[r] > 0
    BY <1>3, <1>5 DEF Claims, RowOrder
  <2>3. \A r, q \in Rows : effects'[r].status = "absent" /\ r < q => effects'[q].status = "absent"
    BY <1>3, <1>4, <2>1 DEF Claims, RowOrder
  <2>4. \A r \in Rows : effects'[r].status = "absent" =>
           claims'[r] = 0 /\ begun'[r] = 0 /\ \A g \in Fibres : fibre'[g].row # r
    BY <1>4, <1>5, <1>6, <2>1 DEF Claims, RowOrder
  <2> QED
    BY <2>2, <2>3, <2>4 DEF RowOrder
<1>8. OneShotInv'
  <2>1. SUFFICES ASSUME NEW r \in Rows, effects'[r].kind \in OneShotKinds
                 PROVE  /\ begun'[r] <= 1
                        /\ effects'[r].status = "pending" =>
                              /\ effects'[r].attempts = 0 /\ begun'[r] = 0
                              /\ \A g \in Fibres : fibre'[g].row # r
                        /\ effects'[r].status = "running" => effects'[r].attempts = 1
                        /\ \A g \in Fibres : fibre'[g].row = r =>
                              /\ ~fibre'[g].begun => begun'[r] = 0
                              /\ inFlight'[r] = {g}
                              /\ \A h \in Fibres : fibre'[h].row = r => h = g
    BY DEF OneShotInv
  <2>2. CASE r = n
    <3>1. effects[n].kind \in OneShotKinds
      BY <1>2, <1>3, <2>1, <2>2
    <3>2. effects[n].attempts = 0 /\ begun[n] = 0 /\ \A g \in Fibres : fibre[g].row # n
      BY <1>4, <3>1 DEF Claims, OneShotInv
    <3>3. effects'[r].status = "running" /\ effects'[r].attempts = 1
      BY <1>2, <1>3, <2>2, <3>2
    <3>4. \A g \in Fibres : fibre'[g].row = r => g = f
      BY <1>6, <2>2, <3>2
    <3> QED
      BY <1>4, <1>5, <2>2, <3>2, <3>3, <3>4
  <2>3. CASE r # n
    <3>1. effects'[r] = effects[r] /\ inFlight'[r] = inFlight[r] /\ begun'[r] = begun[r]
      BY <1>3, <1>4, <1>5, <2>3
    <3>2. \A g \in Fibres : fibre'[g].row = r => g # f /\ fibre'[g] = fibre[g]
      BY <1>6, <2>3
    <3> QED
      BY <2>1, <3>1, <3>2 DEF Claims, OneShotInv
  <2> QED
    BY <2>2, <2>3
<1>9. LaneFIFO'
  <2>1. SUFFICES ASSUME NEW r \in Rows, NEW q \in Rows, q < r, SameLane(q, r)',
                        effects'[r].status # "absent", claims'[r] > 0
                 PROVE  claims'[q] > 0 \/ effects'[q].status = "cancelled"
    BY DEF LaneFIFO
  <2>2. SameLane(q, r)
    BY <1>2, <1>3, <2>1 DEF SameLane
  <2>3. CASE r = n
    <3>1. effects[q].status # "pending" /\ q # n
      BY <1>1, <2>1, <2>2, <2>3 DEF Claimable, SameLane, Rows
    <3>2. effects[q].status # "absent"
      BY <1>4, <2>1, <2>3 DEF Claims, RowOrder
    <3>3. effects[q].status \in {"running", "succeeded", "failed", "cancelled"}
      BY <3>1, <3>2 DEF TypeOK, Effect, EffectStatus
    <3> QED
      BY <1>3, <1>5, <3>1, <3>3 DEF Claims, RowOrder
  <2>4. CASE r # n
    <3>1. claims[q] > 0 \/ effects[q].status = "cancelled"
      BY <1>3, <1>5, <2>1, <2>2, <2>4 DEF Claims, LaneFIFO
    <3> QED
      BY <1>3, <1>4, <1>5, <3>1
  <2> QED
    BY <2>3, <2>4
<1>10. CancelReachesExecution'
  <2>1. SUFFICES ASSUME NEW g \in Fibres, Executing(g)', effects'[fibre'[g].row].kind = "turn.start",
                        effects'[fibre'[g].row].status = "cancelled"
                 PROVE  fibre'[g].cancelled
    BY DEF CancelReachesExecution
  <2>2. g # f
    BY <1>2, <1>3, <1>6, <2>1
  <2>3. fibre'[g] = fibre[g] /\ fibre[g].row \in Rows
    BY <1>6, <2>1, <2>2 DEF Executing, TypeOK, Execution
  <2>4. effects'[fibre[g].row] = effects[fibre[g].row]
    BY <1>2, <1>3, <2>1, <2>3
  <2> QED
    BY <2>1, <2>3, <2>4 DEF Claims, CancelReachesExecution, Executing
<1> QED
  BY <1>7, <1>8, <1>9, <1>10 DEF Claims

\* Work begins in the one execution of a row that has not begun.
LEMMA BeginKeeps ==
  ASSUME TypeOK, Claims, NEW f \in Fibres, Begin(f)
  PROVE  Claims'
<1> DEFINE n == fibre[f].row
<1>1. /\ n \in Rows /\ ~fibre[f].begun
      /\ effects' = effects /\ inFlight' = inFlight /\ claims' = claims
      /\ begun' = [begun EXCEPT ![n] = begun[n] + 1]
      /\ fibre' = [fibre EXCEPT ![f].begun = TRUE]
  BY DEF Begin, Executing, TypeOK, Execution
<1>2. \A r \in Rows : begun'[r] = IF r = n THEN begun[n] + 1 ELSE begun[r]
  BY <1>1 DEF TypeOK
<1>3. \A g \in Fibres : /\ fibre'[g].row = fibre[g].row /\ fibre'[g].cancelled = fibre[g].cancelled
                        /\ g # f => fibre'[g] = fibre[g]
                        /\ g = f => fibre'[g].begun
  BY <1>1 DEF TypeOK, Execution
<1> HIDE DEF n
<1>4. \A g \in Fibres : Executing(g)' <=> Executing(g)
  BY <1>3 DEF Executing
<1>5. effects[n].status # "absent"
  BY <1>1 DEF Claims, RowOrder, n
<1>6. RowOrder'
  <2>1. \A r \in Rows : effects'[r].status = "absent" => r # n
    BY <1>1, <1>5
  <2> QED
    BY <1>1, <1>2, <1>3, <2>1 DEF Claims, RowOrder
<1>7. OneShotInv'
  <2>1. SUFFICES ASSUME NEW r \in Rows, effects[r].kind \in OneShotKinds
                 PROVE  /\ begun'[r] <= 1
                        /\ effects[r].status = "pending" =>
                              /\ effects[r].attempts = 0 /\ begun'[r] = 0
                              /\ \A g \in Fibres : fibre'[g].row # r
                        /\ effects[r].status = "running" => effects[r].attempts = 1
                        /\ \A g \in Fibres : fibre'[g].row = r =>
                              /\ ~fibre'[g].begun => begun'[r] = 0
                              /\ inFlight[r] = {g}
                              /\ \A h \in Fibres : fibre'[h].row = r => h = g
    BY <1>1 DEF OneShotInv
  <2>2. CASE r = n
    <3>1. /\ begun[r] = 0 /\ effects[r].status # "pending" /\ inFlight[r] = {f}
          /\ \A g \in Fibres : fibre[g].row = r => g = f
      BY <1>1, <2>1, <2>2 DEF Claims, OneShotInv, n
    <3>2. begun'[r] = 1
      BY <1>2, <2>2, <3>1
    <3>3. effects[r].status = "running" => effects[r].attempts = 1
      BY <2>1 DEF Claims, OneShotInv
    <3> QED
      BY <1>3, <3>1, <3>2, <3>3
  <2>3. CASE r # n
    <3>1. begun'[r] = begun[r]
      BY <1>2, <2>3
    <3>2. \A g \in Fibres : fibre'[g].row = r => g # f /\ fibre[g].row = r /\ fibre'[g] = fibre[g]
      BY <1>3, <2>3 DEF n
    <3> QED
      BY <2>1, <3>1, <3>2 DEF Claims, OneShotInv
  <2> QED
    BY <2>2, <2>3
<1>8. LaneFIFO'
  BY <1>1 DEF Claims, LaneFIFO, SameLane
<1>9. CancelReachesExecution'
  BY <1>1, <1>3, <1>4 DEF Claims, CancelReachesExecution
<1> QED
  BY <1>6, <1>7, <1>8, <1>9 DEF Claims

-----------------------------------------------------------------------------
(* The daemon's own part of the invariant.                                  *)

\* Executions and leases stay inside the daemon that serves.
LEMMA DaemonKeeps ==
  ASSUME TypeOK, DaemonInv, Next
  PROVE  DaemonInv'
<1> DEFINE Owned(e) == e.status = "running" => e.owner = epoch
           None == unwinding = {} /\ \A f \in Fibres : fibre[f].row = NoRow
<1>1. /\ worker = "running" => up
      /\ ~up => None
      /\ worker = "stopped" => None
      /\ ended => ~up
      /\ up => \A r \in Rows : Owned(effects[r])
  BY DEF DaemonInv
<1>2. ASSUME \A r \in Rows : Owned(effects'[r]), UNCHANGED <<fibre, unwinding, worker, epoch, up, ended>>
      PROVE  DaemonInv'
  BY <1>1, <1>2 DEF DaemonInv
<1>3. \A e \in Effect : \A d \in {Succeeded(e), RetryOrFail(e), Deferred(e), CancelRecord(e)} : d.status # "running"
  BY RowWrites DEF TypeOK
<1>4. \A r \in Rows : effects[r] \in Effect
  BY DEF TypeOK
<1>5. ASSUME NEW t \in Threads, NEW k \in Kinds, Enqueue(t, k)
      PROVE  DaemonInv'
  <2>1. \A r \in Rows : effects'[r] = effects[r] \/ effects'[r].status = "pending"
    BY <1>5 DEF Enqueue, NoEffect, TypeOK
  <2> QED
    BY <1>1, <1>2, <1>5, <2>1 DEF Enqueue
<1>6. ASSUME NEW r \in Rows, CancelTurn(r)
      PROVE  DaemonInv'
  <2>1. \A q \in Rows : effects'[q] = effects[q] \/ effects'[q].status # "running"
    BY <1>3, <1>4, <1>6 DEF CancelTurn, TypeOK
  <2>2. \A f \in Fibres : fibre'[f].row = fibre[f].row
    BY <1>6 DEF CancelTurn, AbortInFlight, TypeOK, Execution
  <2> QED
    BY <1>1, <1>6, <2>1, <2>2 DEF CancelTurn, DaemonInv
<1>7. ASSUME NEW r \in Rows, CancelPending(r)
      PROVE  DaemonInv'
  <2>1. \A q \in Rows : effects'[q] = effects[q] \/ effects'[q].status # "running"
    BY <1>3, <1>4, <1>7 DEF CancelPending, TypeOK
  <2> QED
    BY <1>1, <1>2, <1>7, <2>1 DEF CancelPending
<1>8. ASSUME NEW r \in Rows, Unwound(r)
      PROVE  DaemonInv'
  BY <1>1, <1>8 DEF Unwound, DaemonInv
<1>9. ASSUME NEW r \in Rows, LeaseExpires(r) \/ BecomesDue(r)
      PROVE  DaemonInv'
  <2>1. ASSUME NEW l \in BOOLEAN, effects' = [effects EXCEPT ![r].lease = l]
        PROVE  \A q \in Rows : effects'[q].status = effects[q].status /\ effects'[q].owner = effects[q].owner
    BY <2>1 DEF TypeOK, Effect
  <2>2. ASSUME NEW l \in BOOLEAN, effects' = [effects EXCEPT ![r].due = l]
        PROVE  \A q \in Rows : effects'[q].status = effects[q].status /\ effects'[q].owner = effects[q].owner
    BY <2>2 DEF TypeOK, Effect
  <2>3. \A q \in Rows : effects'[q].status = effects[q].status /\ effects'[q].owner = effects[q].owner
    BY <1>9, <2>1, <2>2 DEF LeaseExpires, BecomesDue
  <2>4. UNCHANGED <<fibre, unwinding, worker, epoch, up, ended>>
    BY <1>9 DEF LeaseExpires, BecomesDue
  <2>5. up => \A q \in Rows : Owned(effects'[q])
    BY <1>1, <2>3, <2>4
  <2> QED
    BY <1>1, <2>4, <2>5 DEF DaemonInv
<1>10. ASSUME NEW f \in Fibres, Claim(f)
       PROVE  DaemonInv'
  <2>1. PICK n \in Rows : effects' = [effects EXCEPT ![n] = Claimed(effects[n])]
    BY <1>10 DEF Claim
  <2>2. \A e \in Effect : Claimed(e).owner = epoch
    BY DEF Claimed, Effect
  <2>3. \A q \in Rows : effects'[q] = effects[q] \/ effects'[q].owner = epoch
    BY <1>4, <2>1, <2>2 DEF TypeOK
  <2> QED
    BY <1>1, <1>10, <2>3 DEF Claim, DaemonInv
<1>11. ASSUME NEW f \in Fibres, Begin(f) \/ Renew(f)
       PROVE  DaemonInv'
  <2>1. \A g \in Fibres : fibre'[g].row = fibre[g].row
    <3>1. CASE fibre' = fibre
      BY <3>1
    <3>2. CASE fibre' = [fibre EXCEPT ![f].begun = TRUE]
      BY <3>2 DEF TypeOK, Execution
    <3>3. CASE fibre' = [fibre EXCEPT ![f].lost = TRUE]
      BY <3>3 DEF TypeOK, Execution
    <3> QED
      BY <1>11, <3>1, <3>2, <3>3 DEF Begin, Renew
  <2>2. fibre[f].row \in Rows
    BY <1>11 DEF Begin, Renew, Executing, TypeOK, Execution
  <2>3. \A q \in Rows : effects'[q].status = effects[q].status /\ effects'[q].owner = effects[q].owner
    <3>1. CASE effects' = effects
      BY <3>1
    <3>2. CASE effects' = [effects EXCEPT ![fibre[f].row].lease = TRUE]
      BY <2>2, <3>2 DEF TypeOK, Effect
    <3> QED
      BY <1>11, <3>1, <3>2 DEF Begin, Renew
  <2>4. UNCHANGED <<unwinding, worker, epoch, up, ended>>
    BY <1>11 DEF Begin, Renew
  <2>5. up => \A q \in Rows : Owned(effects'[q])
    BY <1>1, <2>3, <2>4
  <2> QED
    BY <1>1, <2>1, <2>4, <2>5 DEF DaemonInv
<1>12. ASSUME NEW f \in Fibres, Executing(f), Release(f),
              \A r \in Rows : effects'[r] = effects[r] \/ effects'[r].status # "running",
              UNCHANGED <<worker, epoch, up, ended>>
       PROVE  DaemonInv'
  <2>1. up /\ worker # "stopped"
    BY <1>1, <1>12 DEF Executing
  <2>2. ~ended
    BY <1>1, <2>1
  <2> QED
    BY <1>1, <1>12, <2>1, <2>2 DEF DaemonInv
<1>13. ASSUME NEW f \in Fibres, Executing(f),
              \/ Settle(f, Succeeded(Row(f))) \/ Settle(f, RetryOrFail(Row(f)))
              \/ Settle(f, Deferred(Row(f))) \/ Settle(f, CancelRecord(Row(f)))
       PROVE  \A r \in Rows : effects'[r] = effects[r] \/ effects'[r].status # "running"
  BY <1>13, SettleEffect
<1>14. ASSUME NEW f \in Fibres, Succeed(f) \/ Defer(f) \/ Fail(f) \/ Abandon(f) \/ SettleThrows(f)
       PROVE  DaemonInv'
  <2>1. Executing(f) /\ Release(f) /\ UNCHANGED <<worker, epoch, up, ended>>
    BY <1>14 DEF Succeed, Defer, Fail, Abandon, SettleThrows
  <2>2. \/ effects' = effects
        \/ Settle(f, Succeeded(Row(f))) \/ Settle(f, RetryOrFail(Row(f)))
        \/ Settle(f, Deferred(Row(f))) \/ Settle(f, CancelRecord(Row(f)))
    BY <1>14 DEF Succeed, Defer, Fail, Abandon, SettleThrows
  <2>3. \A r \in Rows : effects'[r] = effects[r] \/ effects'[r].status # "running"
    BY <1>13, <2>1, <2>2
  <2> QED
    BY <1>12, <2>1, <2>3
<1>15. CASE ReclaimExpired
  <2>1. \A r \in Rows : effects'[r] = effects[r] \/ effects'[r].status # "running"
    BY <1>3, <1>4, <1>15 DEF ReclaimExpired
  <2> QED
    BY <1>1, <1>2, <1>15, <2>1 DEF ReclaimExpired
<1>16. CASE StopWorker
  BY <1>1, <1>16 DEF StopWorker, DaemonInv
<1>17. CASE WorkerStopped
  BY <1>1, <1>17 DEF WorkerStopped, DaemonInv, Executing
<1>18. CASE EndEpoch
  BY <1>1, <1>18 DEF EndEpoch, DaemonInv
<1>19. CASE Crash
  BY <1>1, <1>19 DEF Crash, DaemonInv, Idle
<1>20. CASE Boot
  <2>1. \A e \in Effect : Recovered(e).status # "running"
    BY DEF Recovered, CancelRecord, Effect, EffectStatus
  <2>2. \A r \in Rows : effects'[r].status # "running"
    BY <1>4, <1>20, <2>1 DEF Boot
  <2> QED
    BY <1>1, <1>20, <2>2 DEF Boot, DaemonInv
<1> QED
  BY <1>5, <1>6, <1>7, <1>8, <1>9, <1>10, <1>11, <1>14, <1>15, <1>16, <1>17, <1>18, <1>19, <1>20 DEF Next

-----------------------------------------------------------------------------
(* The theorems.                                                            *)

\* Every step is quiet or one of the three others.
LEMMA NextQuiet ==
  ASSUME TypeOK, DaemonInv, OneShotInv, Next
  PROVE  \/ Quiet
         \/ \E t \in Threads, k \in Kinds : Enqueue(t, k)
         \/ \E f \in Fibres : Claim(f) \/ Begin(f)
<1>1. \A r \in Rows : CancelTurn(r) \/ CancelPending(r) \/ LeaseExpires(r) \/ BecomesDue(r) => Quiet
  BY CancelTurnQuiet, CancelPendingQuiet, LeaseExpiresQuiet, BecomesDueQuiet
<1>2. \A f \in Fibres : Renew(f) \/ Succeed(f) \/ Defer(f) \/ Fail(f) \/ Abandon(f) \/ SettleThrows(f) => Quiet
  BY RenewQuiet, SucceedQuiet, DeferQuiet, FailQuiet, AbandonQuiet, SettleThrowsQuiet
<1>3. \A r \in Rows : Unwound(r) => Quiet
  BY SameQuiet DEF Unwound
<1>4. StopWorker \/ WorkerStopped \/ EndEpoch => Quiet
  BY SameQuiet DEF StopWorker, WorkerStopped, EndEpoch
<1>5. ReclaimExpired \/ Crash \/ Boot => Quiet
  BY ReclaimQuiet, CrashQuiet, BootQuiet
<1> QED
  BY <1>1, <1>2, <1>3, <1>4, <1>5 DEF Next

\* Every step keeps the invariant.
LEMMA NextInv == Inv /\ [Next]_vars => Inv'
<1> SUFFICES ASSUME Inv, [Next]_vars PROVE Inv'
  OBVIOUS
<1>1. TypeOK /\ DaemonInv /\ OneShotInv /\ Claims
  BY DEF Inv, Claims
<1>2. TypeOK'
  BY <1>1, TypeStep
<1>3. CASE Next
  <2>1. DaemonInv'
    BY <1>1, <1>3, DaemonKeeps
  <2>2. Claims'
    BY <1>1, <1>3, NextQuiet, QuietKeeps, EnqueueKeeps, ClaimKeeps, BeginKeeps
  <2> QED
    BY <1>2, <2>1, <2>2 DEF Inv, Claims
<1>4. CASE UNCHANGED vars
  <2>1. Quiet
    BY <1>1, <1>4, SameQuiet DEF vars
  <2>2. Claims'
    BY <1>1, <2>1, QuietKeeps
  <2>3. DaemonInv'
    BY <1>1, <1>4 DEF DaemonInv, vars
  <2> QED
    BY <1>2, <2>2, <2>3 DEF Inv, Claims
<1> QED
  BY <1>3, <1>4

\* The invariant holds in every reachable state.
LEMMA AlwaysInv == Spec => []Inv
  BY InitInv, NextInv, PTL DEF Spec

\* A turn, a steer or an answer reaches its provider at most once, whatever crashes,
\* deadlines, deferrals and restarts its row goes through: its one attempt is spent
\* by the claim, and only a deferral before the work began gives it back.
THEOREM OneShotOnce == Spec => []OneShotRunsOnce
<1>1. Inv => OneShotRunsOnce
  BY DEF Inv, OneShotInv, OneShotRunsOnce
<1> QED
  BY <1>1, AlwaysInv, PTL

\* Within a lane effects are first claimed in the order they were enqueued, across
\* backoff, deferrals, retries and restarts.
THEOREM LanesAreFIFO == Spec => []LaneFIFO
<1>1. Inv => LaneFIFO
  BY DEF Inv
<1> QED
  BY <1>1, AlwaysInv, PTL

\* A turn that is cancelled while a fibre executes it aborts that execution.
THEOREM CancelReaches == Spec => []CancelReachesExecution
<1>1. Inv => CancelReachesExecution
  BY DEF Inv
<1> QED
  BY <1>1, AlwaysInv, PTL

\* No row is left running for a daemon that is gone, and a daemon that ended its
\* epoch has no execution left.
THEOREM LeasesAreServed == Spec => []NoDeadOwner
<1>1. Inv => NoDeadOwner
  BY DEF Inv, DaemonInv, NoDeadOwner, Executing
<1> QED
  BY <1>1, AlwaysInv, PTL

\* A settled effect never moves again: a late result, a cancel and boot all find
\* the row no longer running.
THEOREM SettledStays == Spec => SettledIsFinal
<1> DEFINE Kept == \A r \in Rows : effects[r].status \in Terminal => effects'[r] = effects[r]
<1>1. Inv /\ [Next]_vars => [Kept]_effects
  <2> SUFFICES ASSUME Inv, Next PROVE Kept
    BY DEF vars
  <2>1. CASE Quiet
    BY <2>1 DEF Quiet, QuietRow
  <2>2. CASE \E t \in Threads, k \in Kinds : Enqueue(t, k)
    BY <2>2 DEF Enqueue, Terminal, Inv, TypeOK
  <2>3. CASE \E f \in Fibres : Claim(f) \/ Begin(f)
    BY <2>3 DEF Claim, Begin, Claimable, Terminal, Inv, TypeOK
  <2> QED
    BY <2>1, <2>2, <2>3, NextQuiet DEF Inv
<1> QED
  BY <1>1, AlwaysInv, PTL DEF Spec, SettledIsFinal
=============================================================================
