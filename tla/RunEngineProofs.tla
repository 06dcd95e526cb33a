-------------------------- MODULE RunEngineProofs --------------------------
(* What the runs of a profile keep, for every number of threads, runs, Stops *)
(* and boots: types, one owner of a thread, the engine's memory of epochs,   *)
(* and the finality of an ended run; that a run being stopped is never       *)
(* paused, that the end of a pause takes its timers along, that a Stop       *)
(* reaches everything below its thread, and that a usage-limit pause keeps   *)
(* the time it shows or fails visibly, with exactly one run to continue it.  *)
EXTENDS RunEngine, TLAPS, FiniteSetTheorems

\* A run that holds its thread.
Owns(x) == x.status \in Active \cup {"paused"}

\* The write makes a run of a run and leaves it on its thread.
Rewrites(x, y) == y \in Run /\ y.thread = x.thread

\* It also leaves the run's status alone.
Keeps(x, y) == Rewrites(x, y) /\ y.status = x.status

\* What almost every write does to a status: nothing, except that it ends the run.
KeepsOrEnds(x, y) ==
    Rewrites(x, y) /\ (y.status = x.status \/ (x.status \notin Terminal /\ y.status \in Terminal))

StartState == {"none", "dead", "done"} \cup Live
InterruptState == {"none", "done"} \cup Live
TimerState == {"none", "failed"} \cup InLane

-----------------------------------------------------------------------------
(* The statuses.                                                            *)

\* An active run and a paused one have not ended.
LEMMA StatusFacts ==
  /\ {"finished", "interrupted", "cancelled", "uncertain"} \subseteq Terminal
  /\ Terminal \subseteq RunStatus /\ Active \subseteq RunStatus
  /\ {"absent", "queued", "paused"} \subseteq RunStatus
  /\ {"starting", "running", "finalizing"} \subseteq Active
  /\ Active \cap Terminal = {}
  /\ {"absent", "queued", "paused"} \cap (Terminal \cup Active) = {}
  BY DEF Terminal, RunStatus, Active

-----------------------------------------------------------------------------
(* Writing the fields of a run.                                             *)

\* Writing the status, and nothing else.
LEMMA StatusWrite ==
  ASSUME NEW x \in Run, NEW s \in RunStatus
  PROVE  LET y == [x EXCEPT !.status = s] IN Rewrites(x, y) /\ y.status = s
  BY DEF Run, Rewrites

\* Writing what became of the turn.start.
LEMMA StartWrite ==
  ASSUME NEW x \in Run, NEW a \in StartState
  PROVE  Keeps(x, [x EXCEPT !.start = a])
  BY DEF Run, Rewrites, Keeps, StartState

\* Writing what became of the interrupt.
LEMMA InterruptWrite ==
  ASSUME NEW x \in Run, NEW a \in InterruptState
  PROVE  Keeps(x, [x EXCEPT !.interrupt = a])
  BY DEF Run, Rewrites, Keeps, InterruptState

\* Writing whether the message queue carries the run.
LEMMA QueueWrite ==
  ASSUME NEW x \in Run, NEW b \in BOOLEAN
  PROVE  Keeps(x, [x EXCEPT !.viaQueue = b])
  BY DEF Run, Rewrites, Keeps

\* Writing the Stop and the open tool call.
LEMMA FlagWrite ==
  ASSUME NEW x \in Run, NEW b \in BOOLEAN
  PROVE  Keeps(x, [x EXCEPT !.stop = b]) /\ Keeps(x, [x EXCEPT !.unsafe = b])
  BY DEF Run, Rewrites, Keeps

\* Writing the kind of the pause.
LEMMA PauseWrite ==
  ASSUME NEW x \in Run, NEW p \in {"none", "timed", "untimed", "resumed"}
  PROVE  Keeps(x, [x EXCEPT !.pause = p])
  BY DEF Run, Rewrites, Keeps

\* Writing the continue message.
LEMMA ItemWrite ==
  ASSUME NEW x \in Run, NEW i \in {"none", "auto", "now"}
  PROVE  Keeps(x, [x EXCEPT !.item = i])
  BY DEF Run, Rewrites, Keeps

\* Writing the timers, one or both.
LEMMA TimersWrite ==
  ASSUME NEW x \in Run, NEW a \in TimerState, NEW b \in TimerState
  PROVE  /\ Keeps(x, [x EXCEPT !.timer = a])
         /\ Keeps(x, [x EXCEPT !.manual = b])
         /\ Keeps(x, [x EXCEPT !.timer = a, !.manual = b])
<1>1. Keeps(x, [x EXCEPT !.timer = a])
  BY DEF Run, Rewrites, Keeps, TimerState
<1>2. Keeps(x, [x EXCEPT !.manual = b])
  BY DEF Run, Rewrites, Keeps, TimerState
<1>3. Keeps(x, [x EXCEPT !.timer = a, !.manual = b])
  BY DEF Run, Rewrites, Keeps, TimerState
<1> QED
  BY <1>1, <1>2, <1>3

\* Writing a timer together with the continue message.
LEMMA TimerItemWrite ==
  ASSUME NEW x \in Run, NEW a \in TimerState, NEW i \in {"none", "auto", "now"}
  PROVE  /\ Keeps(x, [x EXCEPT !.timer = a, !.item = i])
         /\ Keeps(x, [x EXCEPT !.manual = a, !.item = i])
<1>1. Keeps(x, [x EXCEPT !.timer = a, !.item = i])
  BY ZenonT(40) DEF Run, Rewrites, Keeps, TimerState
<1>2. Keeps(x, [x EXCEPT !.manual = a, !.item = i])
  BY ZenonT(40) DEF Run, Rewrites, Keeps, TimerState
<1> QED
  BY <1>1, <1>2

-----------------------------------------------------------------------------
(* The writers.                                                             *)

\* What is left of an effect keeps its type.
LEMMA EffectValues ==
  ASSUME NEW x \in Run
  PROVE  /\ x.start \in StartState /\ Idle(x.start) \in StartState
         /\ x.interrupt \in InterruptState /\ Idle(x.interrupt) \in InterruptState
         /\ x.timer \in TimerState /\ Cancelled(x.timer) \in TimerState
         /\ x.manual \in TimerState /\ Cancelled(x.manual) \in TimerState
  BY DEF Idle, Cancelled, Run, StartState, InterruptState, TimerState

\* The unwritten run is a run.
LEMMA NoRunYetType == NoRunYet \in Run /\ NoRunYet.status = "absent"
<1>1. (CHOOSE t \in Threads : TRUE) \in Threads
  BY RunAssumption
<1>2. "person" \in Sources
  BY DEF Sources, Sends
<1> QED
  BY <1>1, <1>2, StatusFacts DEF NoRunYet, Run

\* The terminal write.
LEMMA EndedType ==
  ASSUME NEW x \in Run, NEW s \in Terminal
  PROVE  Rewrites(x, Ended(x, s)) /\ Ended(x, s).status = s
<1>1. s \in RunStatus
  BY StatusFacts
<1>2. Idle(x.start) \in StartState /\ Idle(x.interrupt) \in InterruptState
  BY EffectValues
<1>3. Ended(x, s) \in Run
  BY <1>1, <1>2, ZenonT(40) DEF Ended, Run, StartState, InterruptState
<1>4. Ended(x, s).status = s
  BY <1>1, <1>2 DEF Ended, Run, StartState, InterruptState
<1>5. Ended(x, s).thread = x.thread
  BY <1>1, <1>2 DEF Ended, Run, StartState, InterruptState
<1> QED
  BY <1>3, <1>4, <1>5 DEF Rewrites

\* A run that starts.
LEMMA StartedType ==
  ASSUME NEW x \in Run, generation \in [Threads -> Nat]
  PROVE  /\ Rewrites(x, Started(x)) /\ Started(x).status = "starting"
         /\ Rewrites(x, Running(Started(x))) /\ Running(Started(x)).status = "running"
<1> DEFINE g == IF x.source \in Fenced THEN x.gen ELSE generation[x.thread]
           a == Idle(x.start)
<1>1. {"starting", "running"} \subseteq RunStatus
  BY StatusFacts
<1>2. g \in Nat
  BY DEF Run
<1>3. a \in StartState
  BY EffectValues
<1>4. ASSUME NEW h \in Nat, NEW b \in StartState
      PROVE  LET y == [x EXCEPT !.status = "starting", !.viaQueue = FALSE, !.start = b, !.gen = h] IN
             Rewrites(x, y) /\ y.status = "starting"
  BY <1>1, ZenonT(40) DEF Run, Rewrites, StartState
<1>5. Rewrites(x, Started(x)) /\ Started(x).status = "starting"
  BY <1>2, <1>3, <1>4 DEF Started
<1>6. Started(x) \in Run /\ Started(x).thread = x.thread
  BY <1>5 DEF Rewrites
<1>7. Rewrites(Started(x), Running(Started(x))) /\ Running(Started(x)).status = "running"
  BY <1>1, <1>6, StatusWrite DEF Running
<1> QED
  BY <1>5, <1>6, <1>7 DEF Rewrites

\* A run that is admitted.
LEMMA CreatedType ==
  ASSUME NEW t \in Threads, NEW s \in Sources, generation \in [Threads -> Nat]
  PROVE  Created(t, s) \in Run /\ Created(t, s).status = "queued"
<1>1. "queued" \in RunStatus /\ generation[t] \in Nat
  BY StatusFacts
<1> QED
  BY <1>1, NoRunYetType DEF Created, Run

\* The end of a pause.
LEMMA PauseOverType ==
  ASSUME NEW x \in Run, NEW by \in {"over", "resumed"}
  PROVE  Rewrites(x, PauseOver(x, by)) /\ PauseOver(x, by).status \in Terminal
<1> DEFINE s == IF by = "resumed" THEN "interrupted" ELSE "cancelled"
           p == IF by = "resumed" THEN by ELSE "none"
           y == Ended(x, s)
<1>1. s \in Terminal
  BY StatusFacts
<1>2. Rewrites(x, y) /\ y.status = s
  BY <1>1, EndedType
<1>3. p \in {"none", "timed", "untimed", "resumed"}
  OBVIOUS
<1>4. y \in Run
  BY <1>2 DEF Rewrites
<1>5. Keeps(y, [y EXCEPT !.pause = p])
  BY <1>3, <1>4, PauseWrite
<1>6. PauseOver(x, by) = [y EXCEPT !.pause = p]
  BY DEF PauseOver
<1> HIDE DEF s, p, y
<1> QED
  BY <1>1, <1>2, <1>5, <1>6 DEF Rewrites, Keeps

\* The end of a pause takes its timers along.
LEMMA PauseEndedType ==
  ASSUME NEW x \in Run, NEW by \in {"over", "resumed"}
  PROVE  Rewrites(x, PauseEnded(x, by)) /\ PauseEnded(x, by).status \in Terminal
<1> DEFINE y == PauseOver(x, by)
           a == IF y.timer \in {"claimed", "running"} THEN y.timer ELSE "none"
           b == IF y.manual \in {"claimed", "running"} THEN y.manual ELSE "none"
<1>1. Rewrites(x, y) /\ y.status \in Terminal
  BY PauseOverType
<1> HIDE DEF y
<1>2. y \in Run
  BY <1>1 DEF Rewrites
<1>3. a \in TimerState /\ b \in TimerState
  BY <1>2, EffectValues DEF TimerState
<1>4. Keeps(y, [y EXCEPT !.timer = a, !.manual = b])
  BY <1>2, <1>3, TimersWrite
<1>5. PauseEnded(x, by) = [y EXCEPT !.timer = a, !.manual = b]
  BY DEF PauseEnded, y
<1> HIDE DEF a, b
<1> QED
  BY <1>1, <1>4, <1>5 DEF Rewrites, Keeps

\* A pause that shows no time any more is still a pause.
LEMMA PauseStaleType ==
  ASSUME NEW x \in Run
  PROVE  Keeps(x, PauseStale(x))
<1>1. [x EXCEPT !.pause = "untimed"] \in Run /\ Keeps(x, [x EXCEPT !.pause = "untimed"])
  BY PauseWrite DEF Keeps, Rewrites
<1>2. Cancelled(x.timer) \in TimerState
  BY EffectValues
<1>3. Keeps([x EXCEPT !.pause = "untimed"], [[x EXCEPT !.pause = "untimed"] EXCEPT !.timer = Cancelled(x.timer)])
  BY <1>1, <1>2, TimersWrite
<1>4. [[x EXCEPT !.pause = "untimed"] EXCEPT !.timer = Cancelled(x.timer)]
        = [x EXCEPT !.pause = "untimed", !.timer = Cancelled(@)]
  BY DEF Run
<1>5. Keeps(x, x)
  BY DEF Keeps, Rewrites
<1> QED
  BY <1>1, <1>3, <1>4, <1>5 DEF PauseStale, Keeps, Rewrites

\* A queued run that is cancelled ends.
LEMMA QueuedCancelledType ==
  ASSUME NEW x \in Run
  PROVE  Rewrites(x, QueuedCancelled(x)) /\ QueuedCancelled(x).status = "cancelled"
<1> DEFINE y == Ended(x, "cancelled")
<1>1. "cancelled" \in Terminal /\ "none" \in StartState
  BY StatusFacts DEF StartState
<1>2. Rewrites(x, y) /\ y.status = "cancelled"
  BY <1>1, EndedType
<1>3. QueuedCancelled(x) = [y EXCEPT !.start = "none"]
  BY DEF QueuedCancelled
<1> HIDE DEF y
<1>4. Keeps(y, [y EXCEPT !.start = "none"])
  BY <1>1, <1>2, StartWrite DEF Rewrites
<1> QED
  BY <1>2, <1>3, <1>4 DEF Rewrites, Keeps

\* The effects of a run at boot.
LEMMA EffectsRecoveredType ==
  ASSUME NEW x \in Run
  PROVE  Keeps(x, EffectsRecovered(x))
<1> DEFINE a == IF x.start \notin Live THEN x.start ELSE IF x.status = "queued" THEN "dead" ELSE "none"
           b == IF x.interrupt \in Live THEN "none" ELSE x.interrupt
           c == IF x.timer \in InLane THEN "pending" ELSE x.timer
           d == IF x.manual \in InLane THEN "pending" ELSE x.manual
<1>1. a \in StartState /\ b \in InterruptState
  <2>1. x.start \in StartState /\ x.interrupt \in InterruptState
    BY EffectValues
  <2> QED
    BY <2>1 DEF StartState, InterruptState
<1>2. c \in TimerState /\ d \in TimerState
  <2>1. x.timer \in TimerState /\ x.manual \in TimerState
    BY EffectValues
  <2> QED
    BY <2>1 DEF TimerState, InLane, Live
<1>3. ASSUME NEW e \in StartState, NEW f \in InterruptState, NEW g \in TimerState, NEW h \in TimerState
      PROVE  Keeps(x, [x EXCEPT !.start = e, !.interrupt = f, !.timer = g, !.manual = h])
  <2> DEFINE z == [x EXCEPT !.start = e, !.interrupt = f, !.timer = g, !.manual = h]
  <2>1. z \in Run
    BY ZenonT(40) DEF Run, StartState, InterruptState, TimerState
  <2>2. z.thread = x.thread /\ z.status = x.status
    BY DEF Run
  <2> QED
    BY <2>1, <2>2 DEF Rewrites, Keeps
<1>4. EffectsRecovered(x) = [x EXCEPT !.start = a, !.interrupt = b, !.timer = c, !.manual = d]
  BY DEF EffectsRecovered
<1> HIDE DEF a, b, c, d
<1>5. Keeps(x, [x EXCEPT !.start = a, !.interrupt = b, !.timer = c, !.manual = d])
  BY <1>1, <1>2, <1>3
<1> QED
  BY <1>4, <1>5

\* Boot ends a run or leaves its status alone.
LEMMA RecoveredType ==
  ASSUME NEW x \in Run
  PROVE  KeepsOrEnds(x, Recovered(x))
<1> DEFINE y == EffectsRecovered(x)
           open == (x.status = "queued" /\ x.source = "wake") \/ Orphaned(x)
           u == IF ~ended /\ x.unsafe THEN "uncertain" ELSE "interrupted"
<1>1. Keeps(x, y)
  BY EffectsRecoveredType
<1>2. u \in Terminal /\ "cancelled" \in Terminal
  BY StatusFacts
<1>3. \A s \in Terminal : Rewrites(y, Ended(y, s)) /\ Ended(y, s).status = s
  BY <1>1, EndedType DEF Keeps, Rewrites
<1>4. open => x.status = "queued"
  BY DEF Orphaned
<1>5. x.status \in Active \/ open => x.status \notin Terminal
  BY <1>4, StatusFacts
<1>6. Recovered(x) = CASE x.status \in Active -> Ended(y, u) [] open -> Ended(y, "cancelled") [] OTHER -> y
  BY DEF Recovered
<1> HIDE DEF y, open, u
<1>7. CASE x.status \in Active /\ ~open
  BY <1>1, <1>2, <1>3, <1>5, <1>6, <1>7 DEF KeepsOrEnds, Keeps, Rewrites
<1>8. CASE open /\ x.status \notin Active
  BY <1>1, <1>2, <1>3, <1>5, <1>6, <1>8 DEF KeepsOrEnds, Keeps, Rewrites
<1>9. CASE x.status \notin Active /\ ~open
  BY <1>1, <1>6, <1>9 DEF KeepsOrEnds, Keeps, Rewrites
<1>10. ~(open /\ x.status \in Active)
  BY <1>4, StatusFacts DEF open
<1> QED
  BY <1>7, <1>8, <1>9, <1>10

-----------------------------------------------------------------------------
(* What a step of the engine does, in terms that the invariants need.       *)

\* No ownership is gained, and an end is kept.
Passive(x, y) ==
    /\ y \in Run
    /\ Owns(y) => Owns(x) /\ y.thread = x.thread
    /\ x.status \in Terminal => y.status = x.status

\* Every run is written passively.
NoNewOwner ==
    /\ runs' \in [Runs -> Run]
    /\ \A q \in Runs : Passive(runs[q], runs'[q])

\* r starts on a thread with no active run, and takes over from a paused one.
NewOwner(r) ==
    /\ runs' \in [Runs -> Run]
    /\ runs[r].status = "queued" /\ ActiveOn(runs[r].thread) = {}
    /\ runs'[r].thread = runs[r].thread
    /\ \A q \in Runs \ {r} :
          /\ Passive(runs[q], runs'[q])
          /\ q \in PausedOn(runs[r].thread) => ~Owns(runs'[q])

\* The engine's memory falls behind only of a run that has ended.
MemoryHolds ==
    /\ known' \in [Runs -> Memory]
    /\ \A q \in Runs : known'[q] = "behind" => known[q] = "behind" \/ runs'[q].status \in Terminal

\* The other variables keep their types.
RestTyped ==
    /\ turn' \in [Runs -> Turn]
    /\ stale' \subseteq Runs
    /\ generation' \in [Threads -> Nat]
    /\ up' \in BOOLEAN /\ ended' \in BOOLEAN
    /\ boots' \in Nat

\* All that the invariants need to know of a step.
GoodStep ==
    /\ NoNewOwner \/ \E r \in Runs : NewOwner(r)
    /\ MemoryHolds
    /\ RestTyped

\* A write that keeps the status is passive.
LEMMA KeepsPassive ==
  ASSUME NEW x, NEW y, Keeps(x, y)
  PROVE  Passive(x, y)
  BY DEF Keeps, Rewrites, Passive, Owns

\* A write that ends a run is passive, and the run owns nothing after it.
LEMMA EndsPassive ==
  ASSUME NEW x, NEW y, Rewrites(x, y), y.status \in Terminal, x.status \notin Terminal
  PROVE  Passive(x, y) /\ ~Owns(y)
  BY StatusFacts DEF Rewrites, Passive, Owns

\* What boot does to a run is passive.
LEMMA KeepsOrEndsPassive ==
  ASSUME NEW x, NEW y, KeepsOrEnds(x, y)
  PROVE  Passive(x, y)
<1>1. CASE y.status = x.status
  BY <1>1, KeepsPassive DEF KeepsOrEnds, Keeps
<1>2. CASE y.status # x.status
  BY <1>2, EndsPassive DEF KeepsOrEnds
<1> QED
  BY <1>1, <1>2

\* A run that is not written is kept.
LEMMA KeepsItself ==
  ASSUME NEW x \in Run
  PROVE  Keeps(x, x) /\ Passive(x, x)
  BY KeepsPassive DEF Keeps, Rewrites

\* One run is written.
LEMMA OneWrite ==
  ASSUME TypeOK, NEW r \in Runs, NEW y, Passive(runs[r], y), runs' = [runs EXCEPT ![r] = y]
  PROVE  NoNewOwner
<1>1. y \in Run
  BY DEF Passive
<1>2. \A q \in Runs : runs[q] \in Run /\ Passive(runs[q], runs[q])
  BY KeepsItself DEF TypeOK
<1> QED
  BY <1>1, <1>2 DEF TypeOK, NoNewOwner

\* No run is written.
LEMMA NoWrite ==
  ASSUME TypeOK, runs' = runs
  PROVE  NoNewOwner
  BY KeepsItself DEF TypeOK, NoNewOwner

\* What the writers do to the engine's memory.
LEMMA MemoryWrites ==
  ASSUME TypeOK, NEW S
  PROVE  /\ known' = known => MemoryHolds
         /\ known' = Forgotten(S) => MemoryHolds
         /\ known' = Remembered(S) => MemoryHolds
         /\ known' = Followed(S) => MemoryHolds
<1>1. known' = known => MemoryHolds
  BY DEF TypeOK, MemoryHolds
<1>2. known' = Forgotten(S) => MemoryHolds
  BY DEF TypeOK, MemoryHolds, Forgotten, Memory
<1>3. known' = Remembered(S) => MemoryHolds
  BY DEF TypeOK, MemoryHolds, Remembered, Memory
<1>4. known' = Followed(S) => MemoryHolds
  BY DEF TypeOK, MemoryHolds, Followed, Memory
<1> QED
  BY <1>1, <1>2, <1>3, <1>4

\* A write behind the engine's back is harmless where it ends the run.
LEMMA MemoryOvertaken ==
  ASSUME TypeOK, NEW r \in Runs, known' = Overtaken({r}), runs'[r].status \in Terminal
  PROVE  MemoryHolds
  BY DEF TypeOK, MemoryHolds, Overtaken, Memory

\* An ended run keeps its end.
LEMMA FinalKept ==
  ASSUME TypeOK, GoodStep
  PROVE  \A r \in Runs : runs[r].status \in Terminal => runs'[r].status = runs[r].status
<1>1. CASE NoNewOwner
  BY <1>1 DEF NoNewOwner, Passive
<1>2. ASSUME NEW n \in Runs, NewOwner(n)
      PROVE  \A r \in Runs : runs[r].status \in Terminal => runs'[r].status = runs[r].status
  <2>1. runs[n].status \notin Terminal
    BY <1>2, StatusFacts DEF NewOwner
  <2>2. \A r \in Runs \ {n} : Passive(runs[r], runs'[r])
    BY <1>2 DEF NewOwner
  <2> QED
    BY <2>1, <2>2 DEF Passive
<1> QED
  BY <1>1, <1>2 DEF GoodStep

\* A thread keeps its one owner.
LEMMA OwnerKept ==
  ASSUME TypeOK, OneOwnerPerThread, GoodStep
  PROVE  OneOwnerPerThread'
<1> USE DEF Owns
<1>0. \A p, q \in Runs : Owns(runs[p]) /\ Owns(runs[q]) /\ runs[p].thread = runs[q].thread => p = q
  BY DEF OneOwnerPerThread
<1>1. SUFFICES ASSUME NEW p \in Runs, NEW q \in Runs, Owns(runs'[p]), Owns(runs'[q]),
                      runs'[p].thread = runs'[q].thread
               PROVE  p = q
  BY DEF OneOwnerPerThread
<1>2. CASE NoNewOwner
  BY <1>0, <1>1, <1>2 DEF NoNewOwner, Passive
<1>3. ASSUME NEW n \in Runs, NewOwner(n)
      PROVE  p = q
  <2>1. \A r \in Runs \ {n} : Owns(runs'[r]) => Owns(runs[r]) /\ runs'[r].thread = runs[r].thread
    BY <1>3 DEF NewOwner, Passive
  <2>2. \A r \in Runs \ {n} : Owns(runs'[r]) => runs'[r].thread # runs'[n].thread
    <3>1. SUFFICES ASSUME NEW r \in Runs \ {n}, Owns(runs'[r]), runs'[r].thread = runs'[n].thread
                   PROVE  FALSE
      OBVIOUS
    <3>2. Owns(runs[r]) /\ runs[r].thread = runs[n].thread
      BY <1>3, <2>1, <3>1 DEF NewOwner
    <3>3. r \notin ActiveOn(runs[n].thread) /\ r \notin PausedOn(runs[n].thread)
      BY <1>3, <3>1 DEF NewOwner
    <3>4. runs[r].status # "absent"
      BY <3>2, StatusFacts
    <3> QED
      BY <3>2, <3>3, <3>4 DEF ActiveOn, PausedOn, OfThread, IsActive
  <2> QED
    BY <1>0, <1>1, <2>1, <2>2
<1> QED
  BY <1>2, <1>3 DEF GoodStep

\* The engine's memory stays current for what can still change.
LEMMA EpochKept ==
  ASSUME TypeOK, EngineEpochCurrent, GoodStep
  PROVE  EngineEpochCurrent'
<1>1. \A r \in Runs : runs'[r].status \notin Terminal => runs[r].status \notin Terminal
  BY FinalKept
<1>2. \A r \in Runs : known'[r] = "behind" => known[r] = "behind" \/ runs'[r].status \in Terminal
  BY DEF GoodStep, MemoryHolds
<1> QED
  BY <1>1, <1>2 DEF EngineEpochCurrent, EpochHolds

\* The types are kept.
LEMMA TypeKept ==
  ASSUME TypeOK, GoodStep
  PROVE  TypeOK'
<1>1. runs' \in [Runs -> Run]
  BY DEF GoodStep, NoNewOwner, NewOwner
<1> QED
  BY <1>1 DEF TypeOK, GoodStep, MemoryHolds, RestTyped

-----------------------------------------------------------------------------
(* Sends, wakes, the queue.                                                 *)

\* The end of every pause of a thread.
LEMMA PauseEndsPassive ==
  ASSUME TypeOK, NEW q \in Runs, runs[q].status = "paused", NEW by \in {"over", "resumed"}
  PROVE  Passive(runs[q], PauseEnded(runs[q], by)) /\ ~Owns(PauseEnded(runs[q], by))
<1>1. runs[q] \in Run /\ runs[q].status \notin Terminal
  BY StatusFacts DEF TypeOK
<1> QED
  BY <1>1, PauseEndedType, EndsPassive

\* A new run owns nothing yet.
LEMMA CreatedPassive ==
  ASSUME TypeOK, NEW n \in Runs, Next1(n), NEW t \in Threads, NEW s \in Sources
  PROVE  Created(t, s) \in Run /\ Passive(runs[n], Created(t, s)) /\ Created(t, s).status = "queued"
<1>1. Created(t, s) \in Run /\ Created(t, s).status = "queued"
  BY CreatedType DEF TypeOK
<1> QED
  BY <1>1, StatusFacts DEF Passive, Owns, Next1

\* A committed send is a good step.
LEMMA SendStep ==
  ASSUME TypeOK, NEW t \in Threads, NEW s \in Sends, NEW behind \in BOOLEAN, Send(t, s, behind)
  PROVE  GoodStep
<1>1. PICK n \in Runs :
        /\ Next1(n)
        /\ runs' = [r \in Runs |->
              IF r = n THEN Created(t, s)
              ELSE IF r \in PausedOn(t) /\ ~behind THEN PauseEnded(runs[r], "over") ELSE runs[r]]
        /\ turn' = [turn EXCEPT ![n] = IF behind THEN "held" ELSE "sending"]
  BY DEF Send
<1>2. NoNewOwner
  <2>1. Passive(runs[n], Created(t, s))
    BY <1>1, CreatedPassive DEF Sources
  <2>2. \A r \in PausedOn(t) : Passive(runs[r], PauseEnded(runs[r], "over"))
    BY PauseEndsPassive DEF PausedOn, OfThread
  <2>3. \A r \in Runs : Passive(runs[r], runs[r])
    BY KeepsItself DEF TypeOK
  <2>4. \A r \in Runs : Passive(runs[r], runs'[r])
    BY <1>1, <2>1, <2>2, <2>3
  <2> QED
    BY <1>1, <2>4 DEF NoNewOwner, Passive
<1>3. MemoryHolds
  BY MemoryWrites DEF Send
<1>4. RestTyped
  BY <1>1 DEF Send, TypeOK, RestTyped, Turn
<1> QED
  BY <1>2, <1>3, <1>4 DEF GoodStep

\* A send put on the queue or admitted is a good step.
LEMMA SendPlacedStep ==
  ASSUME TypeOK, NEW r \in Runs, NEW queue \in BOOLEAN, SendPlaced(r, queue)
  PROVE  GoodStep
<1> DEFINE b == (runs[r].status = "queued")
           y == IF queue THEN [runs[r] EXCEPT !.viaQueue = b] ELSE [runs[r] EXCEPT !.start = "pending"]
<1>1. Keeps(runs[r], y)
  BY QueueWrite, StartWrite DEF TypeOK, StartState, Live
<1>2. runs' = [runs EXCEPT ![r] = y]
  BY DEF SendPlaced
<1> HIDE DEF y
<1>3. NoNewOwner
  BY <1>1, <1>2, KeepsPassive, OneWrite
<1>4. MemoryHolds
  BY MemoryWrites DEF SendPlaced
<1>5. RestTyped
  BY DEF SendPlaced, TypeOK, RestTyped, Turn
<1> QED
  BY <1>3, <1>4, <1>5 DEF GoodStep

\* The reconciler's wake is a good step.
LEMMA WakeStep ==
  ASSUME TypeOK, NEW t \in Threads, Wake(t)
  PROVE  GoodStep
<1>1. PICK n \in Runs :
        Next1(n) /\ runs' = [runs EXCEPT ![n] = [Created(t, "wake") EXCEPT !.start = "pending"]]
  BY DEF Wake
<1>2. NoNewOwner
  <2>1. Created(t, "wake") \in Run /\ Created(t, "wake").status = "queued"
    BY <1>1, CreatedPassive DEF Sources
  <2>2. Keeps(Created(t, "wake"), [Created(t, "wake") EXCEPT !.start = "pending"])
    BY <2>1, StartWrite DEF StartState, Live
  <2>3. Passive(runs[n], [Created(t, "wake") EXCEPT !.start = "pending"])
    BY <1>1, <2>1, <2>2, StatusFacts DEF Passive, Owns, Keeps, Rewrites, Next1
  <2> QED
    BY <1>1, <2>3, OneWrite
<1>3. MemoryHolds
  BY MemoryWrites DEF Wake
<1>4. RestTyped
  BY DEF Wake, TypeOK, RestTyped
<1> QED
  BY <1>2, <1>3, <1>4 DEF GoodStep

\* The first half of a local action is a good step.
LEMMA LocalActionStep ==
  ASSUME TypeOK, NEW t \in Threads, LocalAction(t)
  PROVE  GoodStep
<1>1. PICK n \in Runs :
        /\ Next1(n)
        /\ runs' = [runs EXCEPT ![n] = Created(t, "undo")]
        /\ turn' = [turn EXCEPT ![n] = "preparing"]
  BY DEF LocalAction
<1>2. NoNewOwner
  BY <1>1, CreatedPassive, OneWrite DEF Sources
<1>3. MemoryHolds
  BY MemoryWrites DEF LocalAction
<1>4. RestTyped
  BY <1>1 DEF LocalAction, TypeOK, RestTyped, Turn
<1> QED
  BY <1>2, <1>3, <1>4 DEF GoodStep

\* A drain of the queue is a good step.
LEMMA DrainQueueStep ==
  ASSUME TypeOK, NEW r \in Runs, DrainQueue(r)
  PROVE  GoodStep
<1>1. Keeps(runs[r], [runs[r] EXCEPT !.start = "pending"])
  BY StartWrite DEF TypeOK, StartState, Live
<1>2. runs' = [runs EXCEPT ![r] = [runs[r] EXCEPT !.start = "pending"]]
  BY DEF DrainQueue
<1>3. NoNewOwner
  BY <1>1, <1>2, KeepsPassive, OneWrite
<1>4. MemoryHolds
  BY MemoryWrites DEF DrainQueue
<1>5. RestTyped
  BY DEF DrainQueue, TypeOK, RestTyped, Turn
<1> QED
  BY <1>3, <1>4, <1>5 DEF GoodStep

\* A cancelled queue item is a good step.
LEMMA CancelQueuedStep ==
  ASSUME TypeOK, NEW r \in Runs, CancelQueued(r)
  PROVE  GoodStep
<1>1. runs[r] \in Run /\ runs[r].status \notin Terminal /\ "cancelled" \in Terminal
  BY StatusFacts DEF TypeOK, CancelQueued
<1>2. Passive(runs[r], Ended(runs[r], "cancelled"))
  BY <1>1, EndedType, EndsPassive
<1>3. NoNewOwner
  BY <1>2, OneWrite DEF CancelQueued
<1>4. MemoryHolds
  BY MemoryWrites DEF CancelQueued
<1>5. RestTyped
  BY DEF CancelQueued, TypeOK, RestTyped
<1> QED
  BY <1>3, <1>4, <1>5 DEF GoodStep

-----------------------------------------------------------------------------
(* The turn of a run.                                                       *)

\* A turn.start that is over, with what it ends.
LEMMA StartGone ==
  ASSUME TypeOK, NEW r \in Runs, NEW s \in Terminal
  PROVE  LET x == [runs[r] EXCEPT !.start = "none"] IN
         /\ Passive(runs[r], x)
         /\ runs[r].status \notin Terminal => Passive(runs[r], Ended(x, s))
<1> DEFINE x == [runs[r] EXCEPT !.start = "none"]
<1>1. runs[r] \in Run
  BY DEF TypeOK
<1>2. Keeps(runs[r], x)
  BY <1>1, StartWrite DEF StartState
<1> HIDE DEF x
<1>3. Rewrites(x, Ended(x, s)) /\ Ended(x, s).status = s
  BY <1>2, EndedType DEF Keeps, Rewrites
<1>4. Rewrites(runs[r], Ended(x, s))
  BY <1>2, <1>3 DEF Keeps, Rewrites
<1>5. Passive(runs[r], x)
  BY <1>2, KeepsPassive
<1>6. runs[r].status \notin Terminal => Passive(runs[r], Ended(x, s))
  BY <1>3, <1>4, EndsPassive
<1> QED
  BY <1>5, <1>6 DEF x

\* A claimed turn.start is a good step.
LEMMA TurnStartStep ==
  ASSUME TypeOK, NEW r \in Runs, TurnStart(r)
  PROVE  GoodStep
<1>1. Keeps(runs[r], [runs[r] EXCEPT !.start = "running"])
  BY StartWrite DEF TypeOK, StartState, Live
<1>2. runs' = [runs EXCEPT ![r] = [runs[r] EXCEPT !.start = "running"]]
  BY DEF TurnStart
<1>3. NoNewOwner
  BY <1>1, <1>2, KeepsPassive, OneWrite
<1>4. MemoryHolds
  BY MemoryWrites DEF TurnStart
<1>5. RestTyped
  BY DEF TurnStart, TypeOK, RestTyped, Turn
<1> QED
  BY <1>3, <1>4, <1>5 DEF GoodStep

\* A refused turn.start is a good step.
LEMMA TurnStartRefusedStep ==
  ASSUME TypeOK, NEW r \in Runs, TurnStartRefused(r)
  PROVE  GoodStep
<1> DEFINE x == [runs[r] EXCEPT !.start = "none"]
           y == IF x.status = "queued" THEN Ended(x, "cancelled") ELSE x
<1>1. runs' = [runs EXCEPT ![r] = y]
  BY DEF TurnStartRefused
<1>2. x.status = runs[r].status
  BY DEF TypeOK, Run
<1>3. "cancelled" \in Terminal /\ (runs[r].status = "queued" => runs[r].status \notin Terminal)
  BY StatusFacts
<1>4. Passive(runs[r], y)
  BY <1>2, <1>3, StartGone
<1> HIDE DEF x, y
<1>5. NoNewOwner
  BY <1>1, <1>4, OneWrite
<1>6. MemoryHolds
  BY MemoryWrites DEF TurnStartRefused
<1>7. RestTyped
  BY DEF TurnStartRefused, TypeOK, RestTyped, Turn
<1> QED
  BY <1>5, <1>6, <1>7 DEF GoodStep

\* A turn.start that finds a turn running is a good step.
LEMMA TurnStartCollidesStep ==
  ASSUME TypeOK, NEW r \in Runs, TurnStartCollides(r)
  PROVE  GoodStep
<1> DEFINE y == Ended([runs[r] EXCEPT !.start = "none"], "finished")
<1>1. runs' = [runs EXCEPT ![r] = y]
  BY DEF TurnStartCollides
<1>2. "finished" \in Terminal /\ runs[r].status \notin Terminal
  BY StatusFacts DEF TurnStartCollides, RefusedAtStart
<1>3. Passive(runs[r], y)
  BY <1>2, StartGone
<1> HIDE DEF y
<1>4. NoNewOwner
  BY <1>1, <1>3, OneWrite
<1>5. MemoryHolds
  BY MemoryWrites DEF TurnStartCollides
<1>6. RestTyped
  BY DEF TurnStartCollides, TypeOK, RestTyped
<1> QED
  BY <1>4, <1>5, <1>6 DEF GoodStep

\* Whatever starts a run takes its thread over.
LEMMA StartsAsStep ==
  ASSUME TypeOK, NEW r \in Runs, MayStart(r), NEW x, Rewrites(runs[r], x), StartsAs(r, x)
  PROVE  NewOwner(r) /\ MemoryHolds /\ turn' \in [Runs -> Turn]
<1> DEFINE paused == PausedOn(runs[r].thread)
<1>1. /\ runs' = [q \in Runs |->
            IF q = r THEN x ELSE IF q \in paused THEN PauseEnded(runs[q], "over") ELSE runs[q]]
      /\ known' = [Forgotten(paused) EXCEPT ![r] = "current"]
      /\ turn' = [turn EXCEPT ![r] = "live"]
  BY DEF StartsAs
<1>2. \A q \in paused : /\ Passive(runs[q], PauseEnded(runs[q], "over"))
                        /\ ~Owns(PauseEnded(runs[q], "over"))
  BY PauseEndsPassive DEF PausedOn, OfThread
<1>3. \A q \in Runs : Passive(runs[q], runs[q])
  BY KeepsItself DEF TypeOK
<1> HIDE DEF paused
<1>4. x \in Run /\ x.thread = runs[r].thread
  BY DEF Rewrites
<1>5. \A q \in Runs \ {r} : Passive(runs[q], runs'[q]) /\ (q \in paused => ~Owns(runs'[q]))
  BY <1>1, <1>2, <1>3
<1>6. runs' \in [Runs -> Run] /\ runs'[r].thread = runs[r].thread
  BY <1>1, <1>4, <1>5 DEF Passive
<1>7. NewOwner(r)
  BY <1>5, <1>6 DEF NewOwner, MayStart, paused
<1>8. MemoryHolds
  BY <1>1 DEF MemoryHolds, TypeOK, Forgotten, Memory
<1>9. turn' \in [Runs -> Turn]
  BY <1>1 DEF TypeOK, Turn
<1> QED
  BY <1>7, <1>8, <1>9

\* markStarting is a good step.
LEMMA MarkStartingStep ==
  ASSUME TypeOK, NEW r \in Runs, MarkStarting(r)
  PROVE  GoodStep
<1>1. Rewrites(runs[r], Started(runs[r]))
  BY StartedType DEF TypeOK
<1>2. NewOwner(r) /\ MemoryHolds /\ turn' \in [Runs -> Turn]
  BY <1>1, StartsAsStep DEF MarkStarting
<1> QED
  BY <1>2 DEF MarkStarting, GoodStep, RestTyped, TypeOK

\* The second half of a local action is a good step.
LEMMA LocalActionStartsStep ==
  ASSUME TypeOK, NEW r \in Runs, LocalActionStarts(r)
  PROVE  GoodStep
<1>1. Rewrites(runs[r], Running(Started(runs[r])))
  BY StartedType DEF TypeOK
<1>2. NewOwner(r) /\ MemoryHolds /\ turn' \in [Runs -> Turn]
  BY <1>1, StartsAsStep DEF LocalActionStarts
<1> QED
  BY <1>2 DEF LocalActionStarts, GoodStep, RestTyped, TypeOK

\* A turn that fails before it starts is a good step.
LEMMA PreparationFailsStep ==
  ASSUME TypeOK, NEW r \in Runs, PreparationFails(r)
  PROVE  GoodStep
<1> DEFINE x == [runs[r] EXCEPT !.start = "none"]
           ends(q) == x.status = "queued" /\ ~(q /\ x.viaQueue)
           y(q) == IF ends(q) THEN Ended(x, "finished") ELSE x
<1>1. PICK q \in BOOLEAN :
         /\ runs' = [runs EXCEPT ![r] = y(q)]
         /\ known' = IF ends(q) THEN Forgotten({r}) ELSE known
  BY DEF PreparationFails
<1>2. x.status = runs[r].status
  BY DEF TypeOK, Run
<1>3. "finished" \in Terminal /\ (runs[r].status = "queued" => runs[r].status \notin Terminal)
  BY StatusFacts
<1>4. Passive(runs[r], y(q))
  BY <1>2, <1>3, StartGone
<1> HIDE DEF y, ends
<1>5. NoNewOwner
  BY <1>1, <1>4, OneWrite
<1>6. MemoryHolds
  BY <1>1, MemoryWrites
<1>7. RestTyped
  BY DEF PreparationFails, TypeOK, RestTyped, Turn
<1> QED
  BY <1>5, <1>6, <1>7 DEF GoodStep

\* A local action that is refused is a good step.
LEMMA LocalActionRefusedStep ==
  ASSUME TypeOK, NEW r \in Runs, LocalActionRefused(r)
  PROVE  GoodStep
<1>1. NoNewOwner /\ MemoryHolds
  BY NoWrite, MemoryWrites DEF LocalActionRefused
<1>2. RestTyped
  BY DEF LocalActionRefused, TypeOK, RestTyped, Turn
<1> QED
  BY <1>1, <1>2 DEF GoodStep

\* A hook that finds its epoch overtaken is a good step.
LEMMA StaleHookStep ==
  ASSUME TypeOK, NEW r \in Runs, StaleHook(r)
  PROVE  GoodStep
<1>1. NoNewOwner /\ MemoryHolds
  BY NoWrite, MemoryWrites DEF StaleHook
<1>2. RestTyped
  BY DEF StaleHook, TypeOK, RestTyped
<1> QED
  BY <1>1, <1>2 DEF GoodStep

\* A hook that moves an active run on.
LEMMA HookStep ==
  ASSUME TypeOK, NEW r \in Runs, Owns(runs[r]), NEW s \in Active,
         runs' = [runs EXCEPT ![r] = [runs[r] EXCEPT !.status = s]],
         known' = Remembered({r}), UNCHANGED <<turn, stale, generation, up, ended, boots>>
  PROVE  GoodStep
<1> DEFINE y == [runs[r] EXCEPT !.status = s]
<1>1. s \in RunStatus
  BY StatusFacts
<1>2. Rewrites(runs[r], y)
  BY <1>1, StatusWrite DEF TypeOK
<1>3. runs[r].status \notin Terminal
  BY StatusFacts DEF Owns
<1>4. Passive(runs[r], y)
  BY <1>2, <1>3 DEF Passive, Rewrites
<1> HIDE DEF y
<1>5. NoNewOwner
  BY <1>4, OneWrite DEF y
<1>6. MemoryHolds
  BY MemoryWrites
<1>7. RestTyped
  BY DEF TypeOK, RestTyped
<1> QED
  BY <1>5, <1>6, <1>7 DEF GoodStep

\* markRunning is a good step.
LEMMA MarkRunningStep ==
  ASSUME TypeOK, NEW r \in Runs, MarkRunning(r)
  PROVE  GoodStep
<1>1. Owns(runs[r]) /\ "running" \in Active
  BY StatusFacts DEF MarkRunning, Owns
<1>2. runs' = [runs EXCEPT ![r] = [runs[r] EXCEPT !.status = "running"]]
  BY DEF MarkRunning, Running
<1> QED
  BY <1>1, <1>2, HookStep DEF MarkRunning

\* markFinalizing is a good step.
LEMMA MarkFinalizingStep ==
  ASSUME TypeOK, NEW r \in Runs, MarkFinalizing(r)
  PROVE  GoodStep
<1>1. Owns(runs[r]) /\ "finalizing" \in Active
  BY StatusFacts DEF MarkFinalizing, Owns
<1>2. runs' = [runs EXCEPT ![r] = [runs[r] EXCEPT !.status = "finalizing"]]
  BY DEF MarkFinalizing
<1> QED
  BY <1>1, <1>2, HookStep DEF MarkFinalizing

\* markTerminal is a good step.
LEMMA MarkTerminalStep ==
  ASSUME TypeOK, NEW r \in Runs, NEW s, MarkTerminal(r, s)
  PROVE  GoodStep
<1>1. s \in Terminal /\ runs[r] \in Run /\ runs[r].status \notin Terminal
  BY StatusFacts DEF MarkTerminal, Writable, TypeOK
<1>2. Passive(runs[r], Ended(runs[r], s))
  BY <1>1, EndedType, EndsPassive
<1>3. NoNewOwner
  BY <1>2, OneWrite DEF MarkTerminal
<1>4. MemoryHolds
  BY MemoryWrites DEF MarkTerminal
<1>5. RestTyped
  BY DEF MarkTerminal, TypeOK, RestTyped
<1> QED
  BY <1>3, <1>4, <1>5 DEF GoodStep

\* The end of a turn is a good step.
LEMMA TurnEndsStep ==
  ASSUME TypeOK, NEW r \in Runs, TurnEnds(r)
  PROVE  GoodStep
<1> DEFINE x == [runs[r] EXCEPT !.start = "none"]
           writes(b) == b /\ r \notin stale /\ EpochHolds(r) /\ IsActive(r)
           y(b) == IF writes(b) THEN Ended(x, "finished") ELSE x
<1>1. PICK b \in BOOLEAN :
         /\ runs' = [runs EXCEPT ![r] = y(b)]
         /\ known' = IF writes(b) \/ (b /\ runs[r].source = "undo") THEN Forgotten({r}) ELSE known
  BY DEF TurnEnds
<1>2. "finished" \in Terminal /\ (writes(b) => runs[r].status \notin Terminal)
  BY StatusFacts DEF IsActive
<1>3. Passive(runs[r], y(b))
  BY <1>2, StartGone
<1> HIDE DEF y, writes
<1>4. NoNewOwner
  BY <1>1, <1>3, OneWrite
<1>5. MemoryHolds
  BY <1>1, MemoryWrites
<1>6. RestTyped
  BY DEF TurnEnds, TypeOK, RestTyped, Turn
<1> QED
  BY <1>4, <1>5, <1>6 DEF GoodStep

\* A tool call that starts or ends is a good step.
LEMMA ToolCallStep ==
  ASSUME TypeOK, NEW r \in Runs, ToolCall(r)
  PROVE  GoodStep
<1> DEFINE b == ~runs[r].unsafe
<1>1. runs[r] \in Run
  BY DEF TypeOK
<1>2. b \in BOOLEAN
  OBVIOUS
<1> HIDE DEF b
<1>3. Keeps(runs[r], [runs[r] EXCEPT !.unsafe = b])
  BY <1>1, <1>2, FlagWrite
<1>4. runs' = [runs EXCEPT ![r] = [runs[r] EXCEPT !.unsafe = b]]
  BY DEF ToolCall, b
<1>5. NoNewOwner
  BY <1>3, <1>4, KeepsPassive, OneWrite
<1>6. MemoryHolds
  BY MemoryWrites DEF ToolCall
<1>7. RestTyped
  BY DEF ToolCall, TypeOK, RestTyped
<1> QED
  BY <1>5, <1>6, <1>7 DEF GoodStep

\* The deadline of a turn.start is a good step.
LEMMA StartDeadlineStep ==
  ASSUME TypeOK, NEW r \in Runs, StartDeadline(r)
  PROVE  GoodStep
<1> DEFINE a == IF runs[r].status = "queued" THEN "done" ELSE "none"
<1>1. a \in StartState
  BY DEF StartState
<1>2. Keeps(runs[r], [runs[r] EXCEPT !.start = a])
  BY <1>1, StartWrite DEF TypeOK
<1>3. runs' = [runs EXCEPT ![r] = [runs[r] EXCEPT !.start = a]]
  BY DEF StartDeadline
<1> HIDE DEF a
<1>4. NoNewOwner
  BY <1>2, <1>3, KeepsPassive, OneWrite
<1>5. MemoryHolds
  BY MemoryWrites DEF StartDeadline
<1>6. RestTyped
  BY DEF StartDeadline, TypeOK, RestTyped
<1> QED
  BY <1>4, <1>5, <1>6 DEF GoodStep

-----------------------------------------------------------------------------
(* Pauses.                                                                  *)

\* pauseRun is a good step.
LEMMA PauseStep ==
  ASSUME TypeOK, NEW r \in Runs, NEW timed \in BOOLEAN, Pause(r, timed)
  PROVE  GoodStep
<1> DEFINE p == IF timed THEN "timed" ELSE "untimed"
           a == IF timed THEN "pending" ELSE runs[r].timer
           y == [runs[r] EXCEPT !.status = "paused", !.pause = p, !.timer = a]
           z(q) == [runs[q] EXCEPT !.timer = Cancelled(runs[q].timer), !.manual = Cancelled(runs[q].manual)]
<1>1. runs' = [q \in Runs |->
         IF q = r THEN y
         ELSE IF timed /\ q \in OfThread(runs[r].thread) /\ runs[q].status # "paused" THEN z(q) ELSE runs[q]]
  BY DEF Pause
<1>2. Passive(runs[r], y)
  <2>1. runs[r].status \in Active /\ runs[r].status \notin Terminal
    BY StatusFacts DEF Pause, Pausable
  <2>2. a \in TimerState /\ runs[r] \in Run
    BY EffectValues DEF TypeOK, TimerState, InLane, Live
  <2>3. p \in {"none", "timed", "untimed", "resumed"} /\ "paused" \in RunStatus
    BY StatusFacts
  <2> HIDE DEF p, a
  <2>4. y \in Run
    BY <2>2, <2>3 DEF Run, TimerState
  <2>5. y.status = "paused" /\ y.thread = runs[r].thread
    BY <2>2, <2>3 DEF Run
  <2> HIDE DEF y
  <2> QED
    BY <2>1, <2>4, <2>5 DEF Passive, Owns
<1>3. \A q \in Runs : Passive(runs[q], z(q)) /\ Passive(runs[q], runs[q])
  <2>1. SUFFICES ASSUME NEW q \in Runs PROVE Passive(runs[q], z(q)) /\ Passive(runs[q], runs[q])
    OBVIOUS
  <2>2. runs[q] \in Run /\ Cancelled(runs[q].timer) \in TimerState /\ Cancelled(runs[q].manual) \in TimerState
    BY EffectValues DEF TypeOK
  <2>3. Keeps(runs[q], z(q))
    BY <2>2, TimersWrite
  <2> QED
    BY <2>2, <2>3, KeepsPassive, KeepsItself
<1> HIDE DEF y, z
<1>4. NoNewOwner
  <2>1. \A q \in Runs : Passive(runs[q], runs'[q])
    BY <1>1, <1>2, <1>3
  <2> QED
    BY <1>1, <2>1 DEF NoNewOwner, Passive
<1>5. MemoryHolds
  BY MemoryWrites DEF Pause
<1>6. RestTyped
  BY DEF Pause, TypeOK, RestTyped
<1> QED
  BY <1>4, <1>5, <1>6 DEF GoodStep

\* Resume now is a good step.
LEMMA ResumeNowStep ==
  ASSUME TypeOK, NEW r \in Runs, ResumeNow(r)
  PROVE  GoodStep
<1> DEFINE a == Cancelled(runs[r].timer)
<1>1. runs[r] \in Run /\ a \in TimerState /\ "pending" \in TimerState
  BY EffectValues DEF TypeOK, TimerState, InLane, Live
<1>2. runs' = [runs EXCEPT ![r] = [runs[r] EXCEPT !.timer = a, !.manual = "pending"]]
  BY <1>1 DEF ResumeNow, TypeOK, Run
<1> HIDE DEF a
<1>3. Keeps(runs[r], [runs[r] EXCEPT !.timer = a, !.manual = "pending"])
  BY <1>1, TimersWrite
<1>4. NoNewOwner
  BY <1>2, <1>3, KeepsPassive, OneWrite
<1>5. MemoryHolds
  BY MemoryWrites DEF ResumeNow
<1>6. RestTyped
  BY DEF ResumeNow, TypeOK, RestTyped
<1> QED
  BY <1>4, <1>5, <1>6 DEF GoodStep

\* A pause that ends together with its continue message.
LEMMA PauseItemGone ==
  ASSUME TypeOK, NEW r \in Runs, runs[r].status = "paused", NEW by \in {"over", "resumed"}
  PROVE  LET y == [PauseEnded(runs[r], by) EXCEPT !.item = "none"] IN Passive(runs[r], y)
<1> DEFINE x == PauseEnded(runs[r], by)
           y == [x EXCEPT !.item = "none"]
<1>1. Rewrites(runs[r], x) /\ x.status \in Terminal
  BY PauseEndedType DEF TypeOK
<1>2. Keeps(x, y)
  BY <1>1, ItemWrite DEF Rewrites
<1>3. runs[r].status \notin Terminal
  BY StatusFacts
<1> HIDE DEF x, y
<1>4. Rewrites(runs[r], y) /\ y.status \in Terminal
  BY <1>1, <1>2 DEF Keeps, Rewrites
<1>5. Passive(runs[r], y)
  BY <1>3, <1>4, EndsPassive
<1> QED
  BY <1>5 DEF x, y

\* A cancelled pause is a good step.
LEMMA CancelPauseStep ==
  ASSUME TypeOK, NEW r \in Runs, CancelPause(r)
  PROVE  GoodStep
<1> DEFINE y == [PauseEnded(runs[r], "over") EXCEPT !.item = "none"]
<1>1. Passive(runs[r], y)
  BY PauseItemGone DEF CancelPause
<1>2. runs' = [runs EXCEPT ![r] = y]
  BY DEF CancelPause
<1> HIDE DEF y
<1>3. NoNewOwner
  BY <1>1, <1>2, OneWrite
<1>4. MemoryHolds
  BY MemoryWrites DEF CancelPause
<1>5. RestTyped
  BY DEF CancelPause, TypeOK, RestTyped
<1> QED
  BY <1>3, <1>4, <1>5 DEF GoodStep

\* A timer of a run moves on.
LEMMA TimerMoves ==
  ASSUME TypeOK, NEW r \in Runs, NEW k \in {"timer", "manual"}, NEW a \in TimerState,
         runs' = [runs EXCEPT ![r] = [runs[r] EXCEPT ![k] = a]]
  PROVE  NoNewOwner
<1>1. runs[r] \in Run
  BY DEF TypeOK
<1>2. CASE k = "timer"
  <2>1. runs' = [runs EXCEPT ![r] = [runs[r] EXCEPT !.timer = a]]
    BY <1>2
  <2> QED
    BY <1>1, <2>1, TimersWrite, KeepsPassive, OneWrite
<1>3. CASE k = "manual"
  <2>1. runs' = [runs EXCEPT ![r] = [runs[r] EXCEPT !.manual = a]]
    BY <1>3
  <2> QED
    BY <1>1, <2>1, TimersWrite, KeepsPassive, OneWrite
<1> QED
  BY <1>2, <1>3

\* A claimed resume timer is a good step.
LEMMA TimerClaimedStep ==
  ASSUME TypeOK, NEW r \in Runs, NEW k \in {"timer", "manual"}, TimerClaimed(r, k)
  PROVE  GoodStep
<1>1. NoNewOwner
  BY TimerMoves DEF TimerClaimed, TimerState, InLane
<1>2. MemoryHolds
  BY MemoryWrites DEF TimerClaimed
<1>3. RestTyped
  BY DEF TimerClaimed, TypeOK, RestTyped
<1> QED
  BY <1>1, <1>2, <1>3 DEF GoodStep

\* A settled resume timer is a good step.
LEMMA TimerSettlesStep ==
  ASSUME TypeOK, NEW r \in Runs, NEW k \in {"timer", "manual"}, TimerSettles(r, k)
  PROVE  GoodStep
<1>1. NoNewOwner
  BY TimerMoves DEF TimerSettles, TimerState
<1>2. MemoryHolds
  BY MemoryWrites DEF TimerSettles
<1>3. RestTyped
  BY DEF TimerSettles, TypeOK, RestTyped
<1> QED
  BY <1>1, <1>2, <1>3 DEF GoodStep

\* A timer of a run moves on and leaves a continue message, or none.
LEMMA TimerItemMoves ==
  ASSUME NEW x \in Run, NEW k \in {"timer", "manual"}, NEW a \in TimerState, NEW i \in {"none", "auto", "now"}
  PROVE  Passive(x, [x EXCEPT ![k] = a, !.item = i])
<1>1. CASE k = "timer"
  <2>1. [x EXCEPT ![k] = a, !.item = i] = [x EXCEPT !.timer = a, !.item = i]
    BY <1>1
  <2> QED
    BY <2>1, TimerItemWrite, KeepsPassive
<1>2. CASE k = "manual"
  <2>1. [x EXCEPT ![k] = a, !.item = i] = [x EXCEPT !.manual = a, !.item = i]
    BY <1>2
  <2> QED
    BY <2>1, TimerItemWrite, KeepsPassive
<1> QED
  BY <1>1, <1>2

\* A timer whose pause has ended is a good step.
LEMMA TimerFindsPauseEndedStep ==
  ASSUME TypeOK, NEW r \in Runs, NEW k \in {"timer", "manual"}, TimerFindsPauseEnded(r, k)
  PROVE  GoodStep
<1> DEFINE i == IF runs[r].pause = "resumed" THEN runs[r].item ELSE "none"
           y == [runs[r] EXCEPT ![k] = "running", !.item = i]
<1>1. runs[r] \in Run
  BY DEF TypeOK
<1>2. i \in {"none", "auto", "now"} /\ "running" \in TimerState
  BY <1>1 DEF Run, TimerState, InLane, Live
<1>3. runs' = [runs EXCEPT ![r] = y]
  BY <1>1 DEF TimerFindsPauseEnded, TypeOK, Run
<1> HIDE DEF i
<1>4. Passive(runs[r], y)
  BY <1>1, <1>2, TimerItemMoves
<1> HIDE DEF y
<1>5. NoNewOwner
  BY <1>3, <1>4, OneWrite
<1>6. MemoryHolds
  BY MemoryWrites DEF TimerFindsPauseEnded
<1>7. RestTyped
  BY DEF TimerFindsPauseEnded, TypeOK, RestTyped
<1> QED
  BY <1>5, <1>6, <1>7 DEF GoodStep

\* A wake that goes back to its rows.
LEMMA WakeDroppedPassive ==
  ASSUME TypeOK, NEW q \in Runs
  PROVE  Passive(runs[q], WakeDropped(runs[q]))
<1>1. CASE runs[q].status = "queued"
  <2>1. runs[q] \in Run /\ runs[q].status \notin Terminal /\ "cancelled" \in Terminal
    BY <1>1, StatusFacts DEF TypeOK
  <2> QED
    BY <1>1, <2>1, QueuedCancelledType, EndsPassive DEF WakeDropped
<1>2. CASE runs[q].status # "queued"
  BY <1>2, StartGone, StatusFacts DEF WakeDropped
<1> QED
  BY <1>1, <1>2

\* A timer that fires is a good step.
LEMMA TimerFiresStep ==
  ASSUME TypeOK, NEW r \in Runs, NEW k \in {"timer", "manual"}, TimerFires(r, k)
  PROVE  GoodStep
<1>1. PICK written \in BOOLEAN : runs' = ResumePrepared(r, k, written)
  BY DEF TimerFires
<1> DEFINE a == IF written THEN "running" ELSE "failed"
           i == IF ~written THEN runs[r].item ELSE IF k = "manual" THEN "now"
                ELSE IF runs[r].item = "none" THEN "auto" ELSE runs[r].item
           y == [runs[r] EXCEPT ![k] = a, !.item = i]
<1>2. runs[r] \in Run
  BY DEF TypeOK
<1>3. runs[r].item \in {"none", "auto", "now"}
  BY <1>2 DEF Run
<1>4. a \in TimerState
  BY DEF TimerState, InLane, Live
<1>5. i \in {"none", "auto", "now"}
  BY <1>3
<1>6. \A q \in Runs : Passive(runs[q], WakeDropped(runs[q])) /\ Passive(runs[q], runs[q])
  BY WakeDroppedPassive, KeepsItself DEF TypeOK
<1>7. runs' = [q \in Runs |-> IF q = r THEN y
                 ELSE IF q \in WaitingWakes(runs[r].thread) THEN WakeDropped(runs[q]) ELSE runs[q]]
  BY <1>1, <1>2 DEF ResumePrepared, Run
<1> HIDE DEF a, i
<1>8. Passive(runs[r], y)
  BY <1>2, <1>4, <1>5, TimerItemMoves
<1> HIDE DEF y
<1>9. \A q \in Runs : Passive(runs[q], runs'[q])
  BY <1>6, <1>7, <1>8
<1>10. NoNewOwner
  BY <1>7, <1>9 DEF NoNewOwner, Passive
<1>11. MemoryHolds
  BY MemoryWrites DEF TimerFires
<1>12. RestTyped
  BY DEF TimerFires, TypeOK, RestTyped
<1> QED
  BY <1>10, <1>11, <1>12 DEF GoodStep

\* A timer that is a day late is a good step.
LEMMA TimerStaleStep ==
  ASSUME TypeOK, NEW r \in Runs, TimerStale(r)
  PROVE  GoodStep
<1> DEFINE x == PauseStale(runs[r])
           y == [x EXCEPT !.timer = "running", !.item = "none"]
<1>1. Keeps(runs[r], x) /\ "running" \in TimerState
  BY PauseStaleType DEF TypeOK, TimerState, InLane, Live
<1>2. runs' = [runs EXCEPT ![r] = y]
  BY DEF TimerStale
<1> HIDE DEF x
<1>3. Keeps(x, y)
  BY <1>1, TimerItemWrite DEF Keeps, Rewrites
<1> HIDE DEF y
<1>4. Keeps(runs[r], y)
  BY <1>1, <1>3 DEF Keeps, Rewrites
<1>5. NoNewOwner
  BY <1>2, <1>4, KeepsPassive, OneWrite
<1>6. MemoryHolds
  BY MemoryWrites DEF TimerStale
<1>7. RestTyped
  BY DEF TimerStale, TypeOK, RestTyped
<1> QED
  BY <1>5, <1>6, <1>7 DEF GoodStep

\* The continue message at the head of the queue is a good step.
LEMMA AdmitResumeStep ==
  ASSUME TypeOK, NEW r \in Runs, AdmitResume(r)
  PROVE  GoodStep
<1> DEFINE gone == [runs[r] EXCEPT !.item = "none"]
           late == [PauseStale(runs[r]) EXCEPT !.item = "none"]
           over == [PauseEnded(runs[r], "resumed") EXCEPT !.item = "none"]
           next == [Created(runs[r].thread, "resume") EXCEPT !.viaQueue = TRUE, !.start = "pending", !.continues = r]
           Continues(n) ==
              /\ Resumable(r) /\ Next1(n)
              /\ runs' = [runs EXCEPT ![r] = over, ![n] = next]
              /\ turn' = [turn EXCEPT ![n] = "admitted"]
              /\ known' = Forgotten({r})
           Late ==
              /\ runs' = [runs EXCEPT ![r] = late]
              /\ known' = IF runs[r].pause = "timed" THEN Followed({r}) ELSE known
              /\ turn' = turn
           Retired ==
              /\ runs' = [runs EXCEPT ![r] = gone]
              /\ known' = known /\ turn' = turn
<1>1. (\E n \in Runs : Continues(n)) \/ Late \/ Retired
  BY DEF AdmitResume
<1>2. runs[r] \in Run /\ runs[r].thread \in Threads /\ "none" \in {"none", "auto", "now"}
  BY DEF TypeOK, Run
<1>3. stale' \subseteq Runs /\ generation' \in [Threads -> Nat] /\ up' \in BOOLEAN /\ ended' \in BOOLEAN /\ boots' \in Nat
  BY DEF AdmitResume, TypeOK
<1>4. ASSUME NEW n \in Runs, Continues(n)
      PROVE  GoodStep
  <2>1. Passive(runs[r], over)
    BY <1>4, PauseItemGone DEF Resumable
  <2>2. n # r
    BY <1>4, StatusFacts DEF Next1, Resumable
  <2>3. Created(runs[r].thread, "resume") \in Run /\ Created(runs[r].thread, "resume").status = "queued"
    BY <1>2, <1>4, CreatedPassive DEF Sources
  <2>4. next \in Run /\ next.status = "queued"
    <3> DEFINE c == Created(runs[r].thread, "resume")
    <3> HIDE DEF c
    <3>1. ASSUME c \in Run, c.status = "queued"
          PROVE  LET z == [c EXCEPT !.viaQueue = TRUE, !.start = "pending", !.continues = r] IN
                 z \in Run /\ z.status = "queued"
      BY <3>1 DEF Run, Live
    <3> QED
      BY <2>3, <3>1 DEF c
  <2>5. Passive(runs[n], next)
    BY <1>4, <2>4, StatusFacts DEF Passive, Owns, Next1
  <2>6. \A q \in Runs : Passive(runs[q], runs[q])
    BY KeepsItself DEF TypeOK
  <2>7. runs' = [runs EXCEPT ![r] = over, ![n] = next] /\ over \in Run
    BY <1>4, <2>1 DEF Passive
  <2>8. NoNewOwner
    <3> HIDE DEF over, next
    <3>1. \A q \in Runs : runs'[q] = IF q = n THEN next ELSE IF q = r THEN over ELSE runs[q]
      BY <2>2, <2>7 DEF TypeOK
    <3>2. \A q \in Runs : Passive(runs[q], runs'[q])
      BY <2>1, <2>5, <2>6, <3>1
    <3>3. runs' \in [Runs -> Run]
      BY <2>4, <2>7 DEF TypeOK
    <3> QED
      BY <3>2, <3>3 DEF NoNewOwner
  <2>9. MemoryHolds
    BY <1>4, MemoryWrites
  <2>10. turn' \in [Runs -> Turn]
    BY <1>4 DEF TypeOK, Turn
  <2> QED
    BY <1>3, <2>8, <2>9, <2>10 DEF GoodStep, RestTyped
<1>5. CASE Late
  <2>1. Keeps(runs[r], PauseStale(runs[r]))
    BY <1>2, PauseStaleType
  <2>2. Keeps(PauseStale(runs[r]), late)
    BY <2>1, ItemWrite DEF Keeps, Rewrites
  <2> HIDE DEF late
  <2>3. Keeps(runs[r], late)
    BY <2>1, <2>2 DEF Keeps, Rewrites
  <2>4. NoNewOwner
    BY <1>5, <2>3, KeepsPassive, OneWrite
  <2>5. MemoryHolds
    BY <1>5, MemoryWrites
  <2> QED
    BY <1>3, <1>5, <2>4, <2>5 DEF GoodStep, RestTyped, TypeOK
<1>6. CASE Retired
  <2>1. Keeps(runs[r], gone)
    BY <1>2, ItemWrite
  <2> HIDE DEF gone
  <2>2. NoNewOwner
    BY <1>6, <2>1, KeepsPassive, OneWrite
  <2>3. MemoryHolds
    BY <1>6, MemoryWrites
  <2> QED
    BY <1>3, <1>6, <2>2, <2>3 DEF GoodStep, RestTyped, TypeOK
<1> HIDE DEF Continues, Late, Retired
<1> QED
  BY <1>1, <1>4, <1>5, <1>6

-----------------------------------------------------------------------------
(* Stops.                                                                   *)

\* A Stop and its interrupt are noted on a run.
LEMMA NotedType ==
  ASSUME NEW x \in Run
  PROVE  /\ Keeps(x, StopNoted(x)) /\ Keeps(x, Interrupting(x))
         /\ Keeps(x, Interrupting(StopNoted(x)))
<1>1. ASSUME NEW z \in Run
      PROVE  Keeps(z, Interrupting(z))
  <2> DEFINE a == IF z.interrupt \in Live THEN z.interrupt ELSE "pending"
  <2>1. a \in InterruptState
    BY EffectValues DEF InterruptState, Live
  <2>2. Interrupting(z) = [z EXCEPT !.interrupt = a]
    BY DEF Interrupting
  <2> HIDE DEF a
  <2> QED
    BY <2>1, <2>2, InterruptWrite
<1>2. Keeps(x, StopNoted(x))
  BY FlagWrite DEF StopNoted
<1>3. Keeps(StopNoted(x), Interrupting(StopNoted(x)))
  BY <1>1, <1>2 DEF Keeps, Rewrites
<1> QED
  BY <1>1, <1>2, <1>3 DEF Keeps, Rewrites

\* The Stop of one run is a good step.
LEMMA StopRunStep ==
  ASSUME TypeOK, NEW r \in Runs, StopRun(r)
  PROVE  GoodStep
<1> DEFINE y == IF IsActive(r) THEN StopNoted(runs[r]) ELSE PauseEnded(runs[r], "over")
<1>1. Passive(runs[r], y)
  <2>1. CASE IsActive(r)
    BY <2>1, NotedType, KeepsPassive DEF TypeOK
  <2>2. CASE ~IsActive(r)
    BY <2>2, PauseEndsPassive DEF StopRun
  <2> QED
    BY <2>1, <2>2
<1>2. runs' = [runs EXCEPT ![r] = y]
  BY DEF StopRun
<1> HIDE DEF y
<1>3. NoNewOwner
  BY <1>1, <1>2, OneWrite
<1>4. MemoryHolds
  BY MemoryWrites DEF StopRun
<1>5. RestTyped
  BY DEF StopRun, TypeOK, RestTyped
<1> QED
  BY <1>3, <1>4, <1>5 DEF GoodStep

\* The interrupt after a Stop is a good step.
LEMMA InterruptStoppedStep ==
  ASSUME TypeOK, NEW r \in Runs, InterruptStopped(r)
  PROVE  GoodStep
<1>1. Passive(runs[r], Interrupting(runs[r]))
  BY NotedType, KeepsPassive DEF TypeOK
<1>2. NoNewOwner
  BY <1>1, OneWrite DEF InterruptStopped
<1>3. MemoryHolds
  BY MemoryWrites DEF InterruptStopped
<1>4. RestTyped
  BY DEF InterruptStopped, TypeOK, RestTyped
<1> QED
  BY <1>2, <1>3, <1>4 DEF GoodStep

\* One run of a stopped subtree.
LEMMA StoppedByPassive ==
  ASSUME TypeOK, NEW r \in Runs, NEW clear \in BOOLEAN
  PROVE  Passive(runs[r], StoppedBy(r, clear))
<1>1. runs[r] \in Run
  BY DEF TypeOK
<1>2. CASE runs[r].status = "paused"
  BY <1>2, PauseEndsPassive DEF StoppedBy
<1>3. CASE runs[r].status = "queued" /\ ~SurvivesStop(r, clear)
  <2>1. runs[r].status \notin Terminal /\ "cancelled" \in Terminal /\ runs[r].status # "paused"
    BY <1>3, StatusFacts
  <2> QED
    BY <1>1, <1>3, <2>1, QueuedCancelledType, EndsPassive DEF StoppedBy
<1>4. CASE runs[r].status # "paused" /\ ~(runs[r].status = "queued" /\ ~SurvivesStop(r, clear)) /\ IsActive(r)
  <2>1. StoppedBy(r, clear) \in {Interrupting(runs[r]), Interrupting(StopNoted(runs[r]))}
    BY <1>4 DEF StoppedBy
  <2> QED
    BY <1>1, <2>1, NotedType, KeepsPassive
<1>5. CASE runs[r].status # "paused" /\ ~(runs[r].status = "queued" /\ ~SurvivesStop(r, clear)) /\ ~IsActive(r)
  BY <1>1, <1>5, KeepsItself DEF StoppedBy
<1> QED
  BY <1>2, <1>3, <1>4, <1>5

\* The Stop of a subtree is a good step.
LEMMA StopThreadStep ==
  ASSUME TypeOK, NEW t \in Threads, NEW clear \in BOOLEAN, StopThread(t, clear)
  PROVE  GoodStep
<1>1. \A q \in Runs : Passive(runs[q], StoppedBy(q, clear)) /\ Passive(runs[q], runs[q])
  BY StoppedByPassive, KeepsItself DEF TypeOK
<1> DEFINE set == {r \in Runs : runs[r].status # "absent" /\ runs[r].thread \in Subtree[t]}
           over == {r \in set : StoppedBy(r, clear).status \in Terminal /\ Writable(r)}
           noted == {r \in set : IsActive(r) /\ ~runs[r].stop}
<1>2. /\ runs' = [r \in Runs |-> IF r \in set THEN StoppedBy(r, clear) ELSE runs[r]]
      /\ known' = [r \in Runs |-> IF r \in noted THEN Followed(noted)[r] ELSE Forgotten(over)[r]]
  BY DEF StopThread
<1> HIDE DEF set, over, noted
<1>3. NoNewOwner
  <2>1. \A q \in Runs : Passive(runs[q], runs'[q])
    BY <1>1, <1>2
  <2> QED
    BY <1>2, <2>1 DEF NoNewOwner, Passive
<1>4. MemoryHolds
  BY <1>2 DEF MemoryHolds, Followed, Forgotten, TypeOK, Memory
<1>5. generation' \in [Threads -> Nat]
  <2>1. \A u \in Threads : generation[u] + (IF u \in Subtree[t] THEN 1 ELSE 0) \in Nat
    BY DEF TypeOK
  <2> QED
    BY <2>1 DEF StopThread, GenerationsRaised
<1>6. RestTyped
  BY <1>5 DEF StopThread, TypeOK, RestTyped
<1> QED
  BY <1>3, <1>4, <1>6 DEF GoodStep

\* The interrupt is a good step.
LEMMA InterruptSettlesStep ==
  ASSUME TypeOK, NEW r \in Runs, InterruptSettles(r)
  PROVE  GoodStep
<1> DEFINE a == IF IsActive(r) THEN "done" ELSE "none"
           x == [runs[r] EXCEPT !.interrupt = a]
           settles(b) == IsActive(r) /\ EpochHolds(r) /\ ~b /\ ~SessionBusy(runs[r].thread)
           y(b) == IF settles(b) THEN Ended(x, "interrupted") ELSE x
<1>1. PICK b \in BOOLEAN :
        /\ runs' = [runs EXCEPT ![r] = y(b)]
        /\ known' = IF settles(b) THEN Forgotten({r}) ELSE known
  BY DEF InterruptSettles
<1>2. a \in InterruptState
  BY DEF InterruptState
<1> HIDE DEF a
<1>3. Keeps(runs[r], x)
  BY <1>2, InterruptWrite DEF TypeOK
<1> HIDE DEF x
<1>4. "interrupted" \in Terminal /\ (settles(b) => runs[r].status \notin Terminal)
  BY StatusFacts DEF IsActive
<1> HIDE DEF settles
<1>5. Rewrites(x, Ended(x, "interrupted")) /\ Ended(x, "interrupted").status = "interrupted"
  BY <1>3, <1>4, EndedType DEF Keeps, Rewrites
<1>6. Rewrites(runs[r], Ended(x, "interrupted"))
  BY <1>3, <1>5 DEF Keeps, Rewrites
<1>7. Passive(runs[r], y(b))
  BY <1>3, <1>4, <1>5, <1>6, EndsPassive, KeepsPassive
<1> HIDE DEF y
<1>8. NoNewOwner
  BY <1>1, <1>7, OneWrite
<1>9. MemoryHolds
  BY <1>1, MemoryWrites
<1>10. RestTyped
  BY DEF InterruptSettles, TypeOK, RestTyped
<1> QED
  BY <1>8, <1>9, <1>10 DEF GoodStep

-----------------------------------------------------------------------------
(* The reconciler and the process.                                          *)

\* The reconciler ends a run behind the engine's back.
LEMMA ForcedEnd ==
  ASSUME TypeOK, NEW r \in Runs, runs[r].status \notin Terminal,
         runs' = [runs EXCEPT ![r] = Ended(runs[r], "interrupted")], known' = Overtaken({r})
  PROVE  NoNewOwner /\ MemoryHolds
<1>1. runs[r] \in Run /\ "interrupted" \in Terminal
  BY StatusFacts DEF TypeOK
<1>2. Rewrites(runs[r], Ended(runs[r], "interrupted")) /\ Ended(runs[r], "interrupted").status = "interrupted"
  BY <1>1, EndedType
<1>3. NoNewOwner
  BY <1>1, <1>2, EndsPassive, OneWrite
<1>4. runs'[r].status \in Terminal
  BY <1>1, <1>2 DEF TypeOK
<1> QED
  BY <1>3, <1>4, MemoryOvertaken

\* Rule 2 is a good step.
LEMMA StaleRunStep ==
  ASSUME TypeOK, NEW r \in Runs, StaleRun(r)
  PROVE  GoodStep
<1>1. runs[r].status \notin Terminal
  BY StatusFacts DEF StaleRun, Silent
<1>2. NoNewOwner /\ MemoryHolds
  BY <1>1, ForcedEnd DEF StaleRun
<1> QED
  BY <1>2 DEF StaleRun, TypeOK, RestTyped, GoodStep

\* Rule 3 is a good step.
LEMMA ForcedInterruptStep ==
  ASSUME TypeOK, NEW r \in Runs, ForcedInterrupt(r)
  PROVE  GoodStep
<1>1. NoNewOwner /\ MemoryHolds
  BY ForcedEnd DEF ForcedInterrupt
<1> QED
  BY <1>1 DEF ForcedInterrupt, TypeOK, RestTyped, GoodStep

\* Rule 5 is a good step.
LEMMA RestartQueuedStep ==
  ASSUME TypeOK, NEW r \in Runs, RestartQueued(r)
  PROVE  GoodStep
<1>1. Keeps(runs[r], [runs[r] EXCEPT !.start = "pending"])
  BY StartWrite DEF TypeOK, StartState, Live
<1>2. runs' = [runs EXCEPT ![r] = [runs[r] EXCEPT !.start = "pending"]]
  BY DEF RestartQueued
<1>3. NoNewOwner
  BY <1>1, <1>2, KeepsPassive, OneWrite
<1>4. MemoryHolds
  BY MemoryWrites DEF RestartQueued
<1> QED
  BY <1>3, <1>4 DEF RestartQueued, TypeOK, RestTyped, GoodStep

\* The process forgets what it remembered.
LEMMA GoneTyped ==
  ASSUME TypeOK, Gone
  PROVE  MemoryHolds /\ turn' \in [Runs -> Turn] /\ stale' \subseteq Runs /\ up' \in BOOLEAN
<1>1. MemoryHolds
  BY DEF Gone, MemoryHolds, Memory
<1>2. turn' \in [Runs -> Turn] /\ stale' \subseteq Runs /\ up' \in BOOLEAN
  BY DEF Gone, Turn
<1> QED
  BY <1>1, <1>2

\* A crash is a good step.
LEMMA CrashStep ==
  ASSUME TypeOK, Crash
  PROVE  GoodStep
<1>1. NoNewOwner
  BY NoWrite DEF Crash
<1> QED
  BY <1>1, GoneTyped DEF Crash, TypeOK, RestTyped, GoodStep

\* A turn.start abandoned at shutdown is passive for its run.
LEMMA AbandonedPassive ==
  ASSUME TypeOK, NEW r \in Runs
  PROVE  Passive(runs[r], Abandoned(runs[r]))
<1>1. runs[r] \in Run
  BY DEF TypeOK
<1>2. CASE runs[r].status # "queued"
  BY <1>2, StartGone, StatusFacts DEF Abandoned
<1>3. CASE runs[r].status = "queued" /\ runs[r].viaQueue
  BY <1>1, <1>3, StartWrite, KeepsPassive DEF Abandoned, StartState
<1>4. CASE runs[r].status = "queued" /\ ~runs[r].viaQueue
  <2> DEFINE x == Ended(runs[r], "interrupted")
  <2>1. "interrupted" \in Terminal /\ runs[r].status \notin Terminal
    BY <1>4, StatusFacts
  <2>2. Rewrites(runs[r], x) /\ x.status = "interrupted"
    BY <1>1, <2>1, EndedType
  <2>3. Abandoned(runs[r]) = [x EXCEPT !.start = "none"]
    BY <1>4 DEF Abandoned
  <2> HIDE DEF x
  <2>4. Keeps(x, [x EXCEPT !.start = "none"])
    BY <2>2, StartWrite DEF Rewrites, StartState
  <2>5. Rewrites(runs[r], Abandoned(runs[r])) /\ Abandoned(runs[r]).status \in Terminal
    BY <2>1, <2>2, <2>3, <2>4 DEF Keeps, Rewrites
  <2> QED
    BY <2>1, <2>5, EndsPassive
<1> QED
  BY <1>2, <1>3, <1>4

\* A stop that drained is a good step.
LEMMA ShutdownStep ==
  ASSUME TypeOK, Shutdown
  PROVE  GoodStep
<1>1. runs' = [r \in Runs |-> IF turn[r] = "admitted" THEN Abandoned(runs[r]) ELSE runs[r]]
  BY DEF Shutdown
<1>2. \A q \in Runs : Passive(runs[q], runs'[q])
  BY <1>1, AbandonedPassive, KeepsItself DEF TypeOK
<1>3. NoNewOwner
  BY <1>1, <1>2 DEF NoNewOwner, Passive
<1> QED
  BY <1>3, GoneTyped DEF Shutdown, TypeOK, RestTyped, GoodStep

\* Boot is a good step.
LEMMA BootStep ==
  ASSUME TypeOK, Boot
  PROVE  GoodStep
<1>1. runs' = [r \in Runs |-> Recovered(runs[r])]
  BY DEF Boot
<1>2. \A q \in Runs : Passive(runs[q], runs'[q])
  BY <1>1, RecoveredType, KeepsOrEndsPassive DEF TypeOK
<1>3. NoNewOwner
  BY <1>1, <1>2 DEF NoNewOwner, Passive
<1>4. MemoryHolds
  BY MemoryWrites DEF Boot
<1>5. boots' \in Nat
  BY DEF Boot, TypeOK
<1>6. turn' \in [Runs -> Turn] /\ stale' \subseteq Runs /\ generation' \in [Threads -> Nat]
  BY DEF Boot, TypeOK
<1>7. up' \in BOOLEAN /\ ended' \in BOOLEAN
  BY DEF Boot
<1>8. RestTyped
  BY <1>5, <1>6, <1>7 DEF RestTyped
<1> QED
  BY <1>3, <1>4, <1>8 DEF GoodStep

-----------------------------------------------------------------------------
(* The theorems.                                                            *)

\* Every step of the engine is of that kind.
LEMMA NextStep ==
  ASSUME TypeOK, Next
  PROVE  GoodStep
<1>1. ASSUME NEW t \in Threads,
             \/ \E s \in Sends, behind \in BOOLEAN : Send(t, s, behind)
             \/ Wake(t)
             \/ LocalAction(t)
             \/ \E clear \in BOOLEAN : StopThread(t, clear)
      PROVE  GoodStep
  BY <1>1, SendStep, WakeStep, LocalActionStep, StopThreadStep
<1>2. ASSUME NEW r \in Runs,
             \/ \E queue \in BOOLEAN : SendPlaced(r, queue)
             \/ DrainQueue(r)
             \/ CancelQueued(r)
             \/ TurnStart(r)
             \/ TurnStartRefused(r)
             \/ TurnStartCollides(r)
             \/ MarkStarting(r)
             \/ PreparationFails(r)
             \/ LocalActionStarts(r)
             \/ LocalActionRefused(r)
      PROVE  GoodStep
  BY <1>2, SendPlacedStep, DrainQueueStep, CancelQueuedStep, TurnStartStep, TurnStartRefusedStep,
     TurnStartCollidesStep, MarkStartingStep, PreparationFailsStep, LocalActionStartsStep,
     LocalActionRefusedStep
<1>3. ASSUME NEW r \in Runs,
             \/ StaleHook(r)
             \/ MarkRunning(r)
             \/ MarkFinalizing(r)
             \/ \E s \in {"finished", "interrupted"} : MarkTerminal(r, s)
             \/ TurnEnds(r)
             \/ ToolCall(r)
             \/ StartDeadline(r)
      PROVE  GoodStep
  BY <1>3, StaleHookStep, MarkRunningStep, MarkFinalizingStep, MarkTerminalStep, TurnEndsStep,
     ToolCallStep, StartDeadlineStep
<1>4. ASSUME NEW r \in Runs,
             \/ \E timed \in BOOLEAN : Pause(r, timed)
             \/ ResumeNow(r)
             \/ CancelPause(r)
             \/ \E k \in {"timer", "manual"} :
                   TimerClaimed(r, k) \/ TimerFires(r, k) \/ TimerFindsPauseEnded(r, k) \/ TimerSettles(r, k)
             \/ TimerStale(r)
             \/ AdmitResume(r)
      PROVE  GoodStep
  BY <1>4, PauseStep, ResumeNowStep, CancelPauseStep, TimerClaimedStep, TimerFiresStep,
     TimerFindsPauseEndedStep, TimerSettlesStep, TimerStaleStep, AdmitResumeStep
<1>5. ASSUME NEW r \in Runs,
             \/ StopRun(r)
             \/ InterruptStopped(r)
             \/ InterruptSettles(r)
             \/ StaleRun(r)
             \/ ForcedInterrupt(r)
             \/ RestartQueued(r)
      PROVE  GoodStep
  BY <1>5, StopRunStep, InterruptStoppedStep, InterruptSettlesStep, StaleRunStep, ForcedInterruptStep,
     RestartQueuedStep
<1>6. ASSUME Crash \/ Shutdown \/ Boot
      PROVE  GoodStep
  BY <1>6, CrashStep, ShutdownStep, BootStep
<1> QED
  BY <1>1, <1>2, <1>3, <1>4, <1>5, <1>6 DEF Next

\* The three invariants that the theorems use of a state.
RunInv == TypeOK /\ OneOwnerPerThread /\ EngineEpochCurrent

\* A new profile has the invariant.
LEMMA InitRunInv == Init => RunInv
<1> SUFFICES ASSUME Init PROVE RunInv
  OBVIOUS
<1>1. \A r \in Runs : runs[r] = NoRunYet /\ NoRunYet \in Run /\ NoRunYet.status = "absent"
  BY NoRunYetType DEF Init
<1>2. TypeOK
  BY <1>1 DEF Init, TypeOK, Memory, Turn
<1>3. OneOwnerPerThread
  BY <1>1, StatusFacts DEF OneOwnerPerThread
<1>4. EngineEpochCurrent
  BY DEF Init, EngineEpochCurrent, EpochHolds
<1> QED
  BY <1>2, <1>3, <1>4 DEF RunInv

\* Every step keeps the invariant: each is a good step.
LEMMA NextRunInv == RunInv /\ [Next]_vars => RunInv'
<1> SUFFICES ASSUME RunInv, [Next]_vars PROVE RunInv'
  OBVIOUS
<1>1. CASE Next
  BY <1>1, NextStep, TypeKept, OwnerKept, EpochKept DEF RunInv
<1>2. CASE UNCHANGED vars
  BY <1>2 DEF RunInv, vars, TypeOK, OneOwnerPerThread, EngineEpochCurrent, EpochHolds
<1> QED
  BY <1>1, <1>2

\* The invariant holds in every reachable state.
LEMMA AlwaysRunInv == Spec => []RunInv
  BY InitRunInv, NextRunInv, PTL DEF Spec

\* Whatever the number of threads, runs, Stops and boots, the variables keep their
\* types (the tables of the run engine).
THEOREM TypeCorrect == Spec => []TypeOK
<1>1. RunInv => TypeOK
  BY DEF RunInv
<1> QED
  BY <1>1, AlwaysRunInv, PTL

\* A thread never has two runs that are active or paused: markStarting looks at the
\* thread's active run and takes over from its paused one, and nothing else makes a
\* run active.
THEOREM OneOwner == Spec => []OneOwnerPerThread
<1>1. RunInv => OneOwnerPerThread
  BY DEF RunInv
<1> QED
  BY <1>1, AlwaysRunInv, PTL

\* Nobody writes a run that can still change behind the engine's back: the
\* reconciler, which does not tell the engine of its writes, only ends runs.
THEOREM EpochsCurrent == Spec => []EngineEpochCurrent
<1>1. RunInv => EngineEpochCurrent
  BY DEF RunInv
<1> QED
  BY <1>1, AlwaysRunInv, PTL

\* An ended run keeps its end whatever comes late: its own turn, the reconciler,
\* another Stop, an interrupt, boot.
THEOREM EndIsFinal == Spec => TerminalIsFinal
<1> DEFINE Kept == \A r \in Runs : runs[r].status \in Terminal => runs'[r].status = runs[r].status
<1>1. RunInv /\ [Next]_vars => [Kept]_vars
  <2> SUFFICES ASSUME RunInv, Next PROVE Kept
    OBVIOUS
  <2> QED
    BY NextStep, FinalKept DEF RunInv
<1> QED
  BY <1>1, AlwaysRunInv, PTL DEF Spec, TerminalIsFinal

\* Only a boot begins a daemon epoch.
LEMMA OnlyBootBegins ==
  ASSUME Next, ~Boot
  PROVE  boots' = boots
<1>1. ASSUME NEW t \in Threads,
             \/ \E s \in Sends, behind \in BOOLEAN : Send(t, s, behind)
             \/ Wake(t)
             \/ LocalAction(t)
             \/ \E clear \in BOOLEAN : StopThread(t, clear)
      PROVE  boots' = boots
  BY <1>1 DEF Send, Wake, LocalAction, StopThread
<1>2. ASSUME NEW r \in Runs,
             \/ \E queue \in BOOLEAN : SendPlaced(r, queue)
             \/ DrainQueue(r)
             \/ CancelQueued(r)
             \/ TurnStart(r)
             \/ TurnStartRefused(r)
             \/ TurnStartCollides(r)
             \/ MarkStarting(r)
             \/ PreparationFails(r)
             \/ LocalActionStarts(r)
             \/ LocalActionRefused(r)
             \/ StaleHook(r)
             \/ MarkRunning(r)
             \/ MarkFinalizing(r)
             \/ \E s \in {"finished", "interrupted"} : MarkTerminal(r, s)
             \/ TurnEnds(r)
             \/ ToolCall(r)
             \/ StartDeadline(r)
      PROVE  boots' = boots
  BY <1>2 DEF SendPlaced, DrainQueue, CancelQueued, TurnStart, TurnStartRefused, TurnStartCollides,
     MarkStarting, PreparationFails, LocalActionStarts, LocalActionRefused, StaleHook, MarkRunning,
     MarkFinalizing, MarkTerminal, TurnEnds, ToolCall, StartDeadline
<1>3. ASSUME NEW r \in Runs,
             \/ \E timed \in BOOLEAN : Pause(r, timed)
             \/ ResumeNow(r)
             \/ CancelPause(r)
             \/ \E k \in {"timer", "manual"} :
                   TimerClaimed(r, k) \/ TimerFires(r, k) \/ TimerFindsPauseEnded(r, k) \/ TimerSettles(r, k)
             \/ TimerStale(r)
             \/ AdmitResume(r)
             \/ StopRun(r)
             \/ InterruptStopped(r)
             \/ InterruptSettles(r)
             \/ StaleRun(r)
             \/ ForcedInterrupt(r)
             \/ RestartQueued(r)
      PROVE  boots' = boots
  BY <1>3 DEF Pause, ResumeNow, CancelPause, TimerClaimed, TimerFires, TimerFindsPauseEnded,
     TimerSettles, TimerStale, AdmitResume, StopRun, InterruptStopped, InterruptSettles, StaleRun,
     ForcedInterrupt, RestartQueued
<1>4. ASSUME Crash \/ Shutdown
      PROVE  boots' = boots
  BY <1>4 DEF Crash, Shutdown
<1> QED
  BY <1>1, <1>2, <1>3, <1>4 DEF Next

\* How boot ends an active run.
LEMMA ActiveRecovered ==
  ASSUME NEW x \in Run, x.status \in Active
  PROVE  Recovered(x).status = "uncertain" <=> ~ended /\ x.unsafe
<1> DEFINE y == EffectsRecovered(x)
           u == IF ~ended /\ x.unsafe THEN "uncertain" ELSE "interrupted"
           open == (x.status = "queued" /\ x.source = "wake") \/ Orphaned(x)
<1>1. Recovered(x) = CASE x.status \in Active -> Ended(y, u) [] open -> Ended(y, "cancelled") [] OTHER -> y
  BY DEF Recovered
<1>2. ~open
  BY StatusFacts DEF Orphaned
<1>3. u \in Terminal
  BY StatusFacts
<1>4. u = "uncertain" <=> ~ended /\ x.unsafe
  OBVIOUS
<1>5. y \in Run
  BY EffectsRecoveredType DEF Keeps, Rewrites
<1> HIDE DEF y, u, open
<1>6. Ended(y, u).status = u
  BY <1>3, <1>5, EndedType
<1> QED
  BY <1>1, <1>2, <1>4, <1>6

\* A turn cut off with a non-idempotent tool call in flight is uncertain after a
\* crash, and only then: a stop that drained leaves the run interrupted.
THEOREM UncertainAfterCrash == Spec => CrashUncertain
<1> DEFINE Step ==
             \A r \in Runs : runs[r].status \in Active /\ boots' > boots =>
                (runs'[r].status = "uncertain" <=> runs[r].unsafe /\ ~ended)
<1>1. RunInv /\ [Next]_vars => [Step]_vars
  <2> SUFFICES ASSUME RunInv, Next PROVE Step
    OBVIOUS
  <2>1. CASE Boot
    <3>1. SUFFICES ASSUME NEW r \in Runs, runs[r].status \in Active
                   PROVE  runs'[r].status = "uncertain" <=> runs[r].unsafe /\ ~ended
      OBVIOUS
    <3>2. runs'[r] = Recovered(runs[r])
      BY <2>1 DEF Boot
    <3>3. runs[r] \in Run
      BY DEF RunInv, TypeOK
    <3>4. Recovered(runs[r]).status = "uncertain" <=> ~ended /\ runs[r].unsafe
      BY <3>1, <3>3, ActiveRecovered
    <3> QED
      BY <3>2, <3>4
  <2>2. CASE ~Boot
    <3>1. boots' = boots /\ boots \in Nat
      BY <2>2, OnlyBootBegins DEF RunInv, TypeOK
    <3>2. ~(boots' > boots)
      BY <3>1
    <3> QED
      BY <3>2
  <2> QED
    BY <2>1, <2>2
<1> QED
  BY <1>1, AlwaysRunInv, PTL DEF Spec, CrashUncertain

-----------------------------------------------------------------------------
(* Stops and pauses.                                                        *)

\* Only an active run is being stopped, and only a run that is or was paused has
\* a pause.
Apart(x) ==
    /\ x.stop => x.status \in Active
    /\ x.pause # "none" => x.status \in {"paused"} \cup Terminal

\* What a Stop of its thread ends or tells: work that goes on, a pause, and work
\* queued on behalf of a parent.
InReach(x) ==
    \/ x.status \in Active /\ ~x.stop
    \/ x.status = "paused"
    \/ x.status = "queued" /\ x.source \in Fenced

\* Such a run was admitted, or started by a person, after the thread's last Stop.
Reached(x) == InReach(x) => ~(x.gen < generation[x.thread])

\* What every step does to a run: it keeps the Stop apart from the pause, lets no
\* timer outlive a pause, and brings nothing back that a Stop has reached.
Change(x, y) ==
    /\ Apart(x) => Apart(y)
    /\ Reached(x) => Reached(y)
    /\ Apart(x) /\ x.status = "paused" /\ y.status # "paused" =>
          "pending" \notin {y.timer, y.manual}

ChangeAll == \A r \in Runs : Change(runs[r], runs'[r])

\* A write that touches neither the status, the Stop, the pause nor the admission.
Untouched(x, y) ==
    /\ y.status = x.status /\ y.stop = x.stop /\ y.pause = x.pause
    /\ y.gen = x.gen /\ y.thread = x.thread /\ y.source = x.source

-----------------------------------------------------------------------------
(* The writers of one run.                                                  *)

\* Such a write changes nothing that matters here.
LEMMA UntouchedChange ==
  ASSUME NEW x, NEW y, Untouched(x, y)
  PROVE  Change(x, y)
  BY DEF Untouched, Change, Apart, Reached, InReach

\* A run that ends, and whose timers go if it was paused.
LEMMA TerminalChange ==
  ASSUME NEW x, NEW y, y.status \in Terminal, y.stop = FALSE,
         x.status = "paused" => "pending" \notin {y.timer, y.manual}
  PROVE  Change(x, y)
<1>1. y.status \notin Active /\ y.status # "paused" /\ y.status # "queued"
  BY StatusFacts
<1> QED
  BY <1>1 DEF Change, Apart, Reached, InReach

\* Writing an effect, a flag or the message of a run.
LEMMA FieldUntouched ==
  ASSUME NEW x \in Run, NEW a
  PROVE  /\ Untouched(x, [x EXCEPT !.start = a])
         /\ Untouched(x, [x EXCEPT !.interrupt = a])
         /\ Untouched(x, [x EXCEPT !.timer = a])
         /\ Untouched(x, [x EXCEPT !.manual = a])
         /\ Untouched(x, [x EXCEPT !.item = a])
         /\ Untouched(x, [x EXCEPT !.viaQueue = a])
         /\ Untouched(x, [x EXCEPT !.unsafe = a])
  BY DEF Untouched, Run

\* Writing a timer and the other timer, or the message.
LEMMA FieldsUntouched ==
  ASSUME NEW x \in Run, NEW a, NEW b
  PROVE  /\ Untouched(x, [x EXCEPT !.timer = a, !.manual = b])
         /\ Untouched(x, [x EXCEPT !.timer = a, !.item = b])
         /\ Untouched(x, [x EXCEPT !.manual = a, !.item = b])
  BY DEF Untouched, Run

\* The end of a run that is not paused, which may come with its turn.start.
LEMMA EndedChange ==
  ASSUME NEW x \in Run, NEW z \in Run, Untouched(x, z), x.status # "paused", NEW s \in Terminal
  PROVE  Change(x, Ended(z, s))
<1>1. Ended(z, s).status = s /\ Ended(z, s).stop = FALSE
  BY DEF Ended, Run
<1> QED
  BY <1>1, TerminalChange

\* The end of a run's pause: no timer of it is left pending.
LEMMA PauseEndedChange ==
  ASSUME NEW x \in Run, NEW by \in {"over", "resumed"}
  PROVE  /\ PauseEnded(x, by).status \in Terminal /\ PauseEnded(x, by).stop = FALSE
         /\ "pending" \notin {PauseEnded(x, by).timer, PauseEnded(x, by).manual}
         /\ Change(x, PauseEnded(x, by))
<1> DEFINE y == PauseOver(x, by)
           a == IF y.timer \in {"claimed", "running"} THEN y.timer ELSE "none"
           b == IF y.manual \in {"claimed", "running"} THEN y.manual ELSE "none"
           s == IF by = "resumed" THEN "interrupted" ELSE "cancelled"
           p == IF by = "resumed" THEN by ELSE "none"
<1>1. s \in Terminal
  BY StatusFacts
<1>2. Ended(x, s) \in Run /\ Ended(x, s).status = s
  BY <1>1, EndedType DEF Rewrites
<1>3. Ended(x, s).stop = FALSE
  BY DEF Ended, Run
<1>4. y = [Ended(x, s) EXCEPT !.pause = p]
  BY DEF PauseOver
<1>5. \A z \in Run : [z EXCEPT !.pause = p].status = z.status /\ [z EXCEPT !.pause = p].stop = z.stop
  BY DEF Run
<1>6. y \in Run /\ y.status \in Terminal
  BY PauseOverType DEF Rewrites
<1>7. y.stop = FALSE
  BY <1>2, <1>3, <1>4, <1>5
<1>8. PauseEnded(x, by) = [y EXCEPT !.timer = a, !.manual = b]
  BY DEF PauseEnded
<1>9. a # "pending" /\ b # "pending"
  OBVIOUS
<1> HIDE DEF y, a, b, s, p
<1>10. LET w == [y EXCEPT !.timer = a, !.manual = b] IN
      Untouched(y, w) /\ w.timer = a /\ w.manual = b
  BY <1>6 DEF Untouched, Run
<1>11. /\ Untouched(y, PauseEnded(x, by))
       /\ PauseEnded(x, by).timer = a /\ PauseEnded(x, by).manual = b
  BY <1>8, <1>10
<1> QED
  BY <1>6, <1>7, <1>9, <1>11, TerminalChange DEF Untouched

\* A message of the pause that goes with it.
LEMMA PauseAndItemChange ==
  ASSUME NEW x \in Run, NEW by \in {"over", "resumed"}
  PROVE  Change(x, [PauseEnded(x, by) EXCEPT !.item = "none"])
<1> DEFINE y == PauseEnded(x, by)
<1>1. y \in Run
  BY PauseEndedType DEF Rewrites
<1>2. ASSUME NEW z \in Run
      PROVE  LET w == [z EXCEPT !.item = "none"] IN
             Untouched(z, w) /\ w.timer = z.timer /\ w.manual = z.manual
  BY DEF Untouched, Run
<1>3. y.status \in Terminal /\ y.stop = FALSE /\ "pending" \notin {y.timer, y.manual}
  BY PauseEndedChange
<1> HIDE DEF y
<1>4. LET w == [y EXCEPT !.item = "none"] IN
      /\ w.status \in Terminal /\ w.stop = FALSE /\ "pending" \notin {w.timer, w.manual}
  BY <1>1, <1>2, <1>3 DEF Untouched
<1> QED
  BY <1>4, TerminalChange DEF y

\* The end of a pause is one as long as it has a time on it.
LEMMA PauseStaleChange ==
  ASSUME NEW x \in Run, x.status = "paused"
  PROVE  LET y == PauseStale(x) IN
         /\ y.status = "paused" /\ y.stop = x.stop
         /\ y.gen = x.gen /\ y.thread = x.thread /\ y.source = x.source
  BY DEF PauseStale, Run

\* A new run is not being stopped, has no pause and is admitted now.
LEMMA CreatedFacts ==
  ASSUME NEW t \in Threads, NEW s, generation \in [Threads -> Nat]
  PROVE  LET y == Created(t, s) IN
         /\ y.status = "queued" /\ y.stop = FALSE /\ y.pause = "none"
         /\ ~(y.gen < generation[y.thread])
<1>1. Created(t, s).gen = generation[t] /\ Created(t, s).thread = t
  BY DEF Created, NoRunYet
<1>2. ~(generation[t] < generation[t])
  OBVIOUS
<1>3. LET y == Created(t, s) IN y.status = "queued" /\ y.stop = FALSE /\ y.pause = "none"
  BY DEF Created, NoRunYet
<1> QED
  BY <1>1, <1>2, <1>3

\* A run that is taken into the table, started or not.
LEMMA NewChange ==
  ASSUME NEW x, x.status = "absent", NEW z, z.stop = FALSE, z.pause = "none",
         ~(z.gen < generation[z.thread]), NEW y, Untouched(z, y)
  PROVE  Change(x, y)
  BY DEF Change, Apart, Reached, InReach, Untouched

\* A queued run starts.
LEMMA StartedChange ==
  ASSUME NEW x \in Run, x.status = "queued", generation \in [Threads -> Nat]
  PROVE  /\ Change(x, Started(x)) /\ Change(x, Running(Started(x)))
<1>1. ASSUME NEW b, NEW h
      PROVE  LET y == [x EXCEPT !.status = "starting", !.viaQueue = FALSE, !.start = b, !.gen = h] IN
             /\ y.stop = x.stop /\ y.pause = x.pause
             /\ y.gen = h /\ y.thread = x.thread /\ y.source = x.source
  BY DEF Run
<1> DEFINE g == IF x.source \in Fenced THEN x.gen ELSE generation[x.thread]
<1>2. LET y == Started(x) IN
      /\ y.stop = x.stop /\ y.pause = x.pause
      /\ y.gen = g /\ y.thread = x.thread /\ y.source = x.source
  BY <1>1 DEF Started
<1>3. Started(x) \in Run /\ Started(x).status = "starting"
  BY StartedType DEF Rewrites
<1>4. ASSUME NEW z \in Run
      PROVE  LET w == Running(z) IN
             /\ w.stop = z.stop /\ w.pause = z.pause /\ w.status = "running"
             /\ w.gen = z.gen /\ w.thread = z.thread /\ w.source = z.source
  BY DEF Running, Run
<1>5. LET w == Running(Started(x)) IN
      /\ w.stop = x.stop /\ w.pause = x.pause /\ w.status = "running"
      /\ w.gen = g /\ w.thread = x.thread /\ w.source = x.source
  BY <1>2, <1>3, <1>4
<1>6. x.thread \in Threads /\ ~(generation[x.thread] < generation[x.thread])
  BY DEF Run
<1>7. x.source \in Fenced => InReach(x)
  BY DEF InReach
<1>8. Reached(x) => ~(g < generation[x.thread])
  BY <1>6, <1>7 DEF Reached
<1> HIDE DEF g
<1>9. ASSUME NEW w, w.status \in {"starting", "running"}, w.stop = x.stop, w.pause = x.pause,
             w.gen = g, w.thread = x.thread
      PROVE  Change(x, w)
  <2>1. Apart(x) => Apart(w)
    BY <1>9, StatusFacts DEF Apart
  <2>2. Reached(x) => Reached(w)
    BY <1>8, <1>9 DEF Reached
  <2> QED
    BY <2>1, <2>2 DEF Change
<1> QED
  BY <1>2, <1>3, <1>5, <1>9

-----------------------------------------------------------------------------
(* The actions.                                                             *)

\* One run is written.
LEMMA OneChange ==
  ASSUME TypeOK, NEW r \in Runs, NEW y, Change(runs[r], y), runs' = [runs EXCEPT ![r] = y]
  PROVE  ChangeAll
  BY UntouchedChange DEF TypeOK, ChangeAll, Untouched

\* No run is written.
LEMMA SameChange ==
  ASSUME runs' = runs
  PROVE  ChangeAll
  BY UntouchedChange DEF ChangeAll, Untouched

\* Runs are created: by a send, which may end the pause it finds, a wake, a local
\* action.
LEMMA CreationChange ==
  ASSUME TypeOK, NEW t \in Threads,
         \/ \E s \in Sends, behind \in BOOLEAN : Send(t, s, behind)
         \/ Wake(t) \/ LocalAction(t)
  PROVE  ChangeAll
<1>1. ASSUME NEW s \in Sends, NEW behind \in BOOLEAN, Send(t, s, behind)
      PROVE  ChangeAll
  <2>1. PICK n \in Runs :
          /\ Next1(n)
          /\ runs' = [r \in Runs |->
                IF r = n THEN Created(t, s)
                ELSE IF r \in PausedOn(t) /\ ~behind THEN PauseEnded(runs[r], "over") ELSE runs[r]]
    BY <1>1 DEF Send
  <2>2. Change(runs[n], Created(t, s))
    BY <2>1, NewChange, CreatedFacts DEF Next1, TypeOK, Untouched
  <2>3. \A r \in Runs : Change(runs[r], PauseEnded(runs[r], "over")) /\ Change(runs[r], runs[r])
    BY PauseEndedChange, UntouchedChange DEF TypeOK, Untouched
  <2> QED
    BY <2>1, <2>2, <2>3 DEF ChangeAll
<1>2. CASE Wake(t)
  <2>1. PICK n \in Runs :
          Next1(n) /\ runs' = [runs EXCEPT ![n] = [Created(t, "wake") EXCEPT !.start = "pending"]]
    BY <1>2 DEF Wake
  <2>2. "wake" \in Sources
    BY DEF Sources
  <2>3. Created(t, "wake") \in Run
    BY <2>2, CreatedType DEF TypeOK
  <2>4. Untouched(Created(t, "wake"), [Created(t, "wake") EXCEPT !.start = "pending"])
    BY <2>3, FieldUntouched
  <2>5. Change(runs[n], [Created(t, "wake") EXCEPT !.start = "pending"])
    BY <2>1, <2>4, NewChange, CreatedFacts DEF Next1, TypeOK
  <2> QED
    BY <2>1, <2>5, OneChange
<1>3. CASE LocalAction(t)
  <2>1. PICK n \in Runs : Next1(n) /\ runs' = [runs EXCEPT ![n] = Created(t, "undo")]
    BY <1>3 DEF LocalAction
  <2>2. Change(runs[n], Created(t, "undo"))
    BY <2>1, NewChange, CreatedFacts DEF Next1, TypeOK, Untouched
  <2> QED
    BY <2>1, <2>2, OneChange
<1> QED
  BY <1>1, <1>2, <1>3

\* The writes of a turn's way to its start and of its effects leave Stop and pause alone.
LEMMA PlainChange ==
  ASSUME TypeOK, NEW r \in Runs,
         \/ \E queue \in BOOLEAN : SendPlaced(r, queue)
         \/ DrainQueue(r) \/ TurnStart(r) \/ LocalActionRefused(r) \/ StaleHook(r)
         \/ ToolCall(r) \/ StartDeadline(r) \/ RestartQueued(r) \/ InterruptStopped(r)
         \/ ResumeNow(r)
         \/ \E k \in {"timer", "manual"} :
               TimerClaimed(r, k) \/ TimerFindsPauseEnded(r, k) \/ TimerSettles(r, k)
  PROVE  ChangeAll
<1> DEFINE x == runs[r]
<1>1. x \in Run
  BY DEF TypeOK
<1>2. ASSUME NEW y, Untouched(x, y), runs' = [runs EXCEPT ![r] = y]
      PROVE  ChangeAll
  BY <1>2, OneChange, UntouchedChange
<1>3. /\ \A a : Untouched(x, [x EXCEPT !.start = a]) /\ Untouched(x, [x EXCEPT !.interrupt = a])
      /\ \A a : Untouched(x, [x EXCEPT !.timer = a]) /\ Untouched(x, [x EXCEPT !.manual = a])
      /\ \A a : Untouched(x, [x EXCEPT !.viaQueue = a]) /\ Untouched(x, [x EXCEPT !.unsafe = a])
      /\ \A a, b : Untouched(x, [x EXCEPT !.timer = a, !.manual = b])
      /\ \A a, b : Untouched(x, [x EXCEPT !.timer = a, !.item = b])
      /\ \A a, b : Untouched(x, [x EXCEPT !.manual = a, !.item = b])
  BY <1>1, FieldUntouched, FieldsUntouched
<1>4. ASSUME NEW queue \in BOOLEAN, SendPlaced(r, queue)
      PROVE  ChangeAll
  <2>1. CASE queue
    BY <1>2, <1>3, <1>4, <2>1 DEF SendPlaced
  <2>2. CASE ~queue
    BY <1>2, <1>3, <1>4, <2>2 DEF SendPlaced
  <2> QED
    BY <2>1, <2>2
<1>5. CASE DrainQueue(r) \/ TurnStart(r) \/ StartDeadline(r) \/ RestartQueued(r)
  BY <1>2, <1>3, <1>5 DEF DrainQueue, TurnStart, StartDeadline, RestartQueued
<1>6. CASE LocalActionRefused(r) \/ StaleHook(r)
  BY <1>6, SameChange DEF LocalActionRefused, StaleHook
<1>7. CASE ToolCall(r)
  BY <1>2, <1>3, <1>7 DEF ToolCall
<1>8. CASE InterruptStopped(r)
  BY <1>2, <1>3, <1>8 DEF InterruptStopped, Interrupting
<1>9. CASE ResumeNow(r)
  <2>1. runs' = [runs EXCEPT ![r] = [x EXCEPT !.timer = Cancelled(x.timer), !.manual = "pending"]]
    BY <1>1, <1>9 DEF ResumeNow, TypeOK, Run
  <2> HIDE DEF x
  <2> QED
    BY <1>2, <1>3, <2>1
<1>10. ASSUME NEW k \in {"timer", "manual"}, NEW a, runs' = [runs EXCEPT ![r][k] = a]
       PROVE  ChangeAll
  <2>1. CASE k = "timer"
    <3>1. runs' = [runs EXCEPT ![r] = [x EXCEPT !.timer = a]]
      BY <1>10, <2>1
    <3> HIDE DEF x
    <3> QED
      BY <1>2, <1>3, <3>1
  <2>2. CASE k = "manual"
    <3>1. runs' = [runs EXCEPT ![r] = [x EXCEPT !.manual = a]]
      BY <1>10, <2>2
    <3> HIDE DEF x
    <3> QED
      BY <1>2, <1>3, <3>1
  <2> QED
    BY <2>1, <2>2
<1>11. ASSUME NEW k \in {"timer", "manual"}, TimerFindsPauseEnded(r, k)
       PROVE  ChangeAll
  <2> DEFINE i == IF x.pause = "resumed" THEN x.item ELSE "none"
  <2>1. runs' = [runs EXCEPT ![r] = [x EXCEPT ![k] = "running", !.item = i]]
    BY <1>11 DEF TimerFindsPauseEnded
  <2> HIDE DEF x, i
  <2>2. CASE k = "timer"
    <3>1. runs' = [runs EXCEPT ![r] = [x EXCEPT !.timer = "running", !.item = i]]
      BY <2>1, <2>2
    <3> QED
      BY <1>2, <1>3, <3>1
  <2>3. CASE k = "manual"
    <3>1. runs' = [runs EXCEPT ![r] = [x EXCEPT !.manual = "running", !.item = i]]
      BY <2>1, <2>3
    <3> QED
      BY <1>2, <1>3, <3>1
  <2> QED
    BY <2>2, <2>3
<1>12. ASSUME NEW k \in {"timer", "manual"}, TimerClaimed(r, k) \/ TimerSettles(r, k)
       PROVE  ChangeAll
  BY <1>10, <1>12 DEF TimerClaimed, TimerSettles
<1> QED
  BY <1>4, <1>5, <1>6, <1>7, <1>8, <1>9, <1>11, <1>12

\* The end of a run that is not paused: refused, failed, reported, lost or forced.
LEMMA EndChange ==
  ASSUME TypeOK, NEW r \in Runs, Apart(runs[r]),
         \/ CancelQueued(r) \/ TurnStartRefused(r) \/ TurnStartCollides(r) \/ PreparationFails(r)
         \/ \E s \in {"finished", "interrupted"} : MarkTerminal(r, s)
         \/ TurnEnds(r) \/ InterruptSettles(r) \/ StaleRun(r) \/ ForcedInterrupt(r)
  PROVE  ChangeAll
<1> DEFINE x == runs[r]
           u == [x EXCEPT !.start = "none"]
<1>1. x \in Run /\ u \in Run /\ Untouched(x, u) /\ Untouched(x, x)
  BY StartWrite, FieldUntouched, SMTT(30) DEF TypeOK, Keeps, Rewrites, StartState, Untouched
<1>2. ASSUME NEW y, Untouched(x, y), runs' = [runs EXCEPT ![r] = y]
      PROVE  ChangeAll
  BY <1>2, OneChange, UntouchedChange
<1>3. ASSUME NEW z \in Run, Untouched(x, z), NEW s \in Terminal, x.status # "paused",
             runs' = [runs EXCEPT ![r] = Ended(z, s)]
      PROVE  ChangeAll
  BY <1>1, <1>3, EndedChange, OneChange
<1>4. /\ {"cancelled", "finished", "interrupted"} \subseteq Terminal
      /\ x.stop \/ IsActive(r) \/ x.status = "queued" => x.status # "paused"
  BY StatusFacts DEF Apart, IsActive
<1>5. u.status = x.status
  BY <1>1 DEF Untouched
<1>6. CASE CancelQueued(r)
  <2>1. runs' = [runs EXCEPT ![r] = Ended(x, "cancelled")] /\ x.status # "paused"
    BY <1>4, <1>6 DEF CancelQueued
  <2> QED
    BY <1>1, <1>3, <1>4, <2>1
<1>7. CASE TurnStartRefused(r)
  <2>1. runs' = [runs EXCEPT ![r] = IF u.status = "queued" THEN Ended(u, "cancelled") ELSE u]
    BY <1>7 DEF TurnStartRefused
  <2> HIDE DEF u
  <2>2. CASE u.status = "queued"
    BY <1>1, <1>3, <1>4, <1>5, <2>1, <2>2
  <2>3. CASE u.status # "queued"
    BY <1>1, <1>2, <2>1, <2>3
  <2> QED
    BY <2>2, <2>3
<1>8. CASE TurnStartCollides(r)
  <2>1. runs' = [runs EXCEPT ![r] = Ended(u, "finished")] /\ x.status = "queued"
    BY <1>8 DEF TurnStartCollides, RefusedAtStart
  <2> HIDE DEF u
  <2> QED
    BY <1>1, <1>3, <1>4, <2>1
<1>9. CASE PreparationFails(r)
  <2> DEFINE ends(q) == u.status = "queued" /\ ~(q /\ u.viaQueue)
  <2>1. PICK q \in BOOLEAN : runs' = [runs EXCEPT ![r] = IF ends(q) THEN Ended(u, "finished") ELSE u]
    BY <1>9 DEF PreparationFails
  <2> HIDE DEF u
  <2>2. CASE ends(q)
    BY <1>1, <1>3, <1>4, <1>5, <2>1, <2>2
  <2>3. CASE ~ends(q)
    BY <1>1, <1>2, <2>1, <2>3
  <2> QED
    BY <2>2, <2>3
<1>10. ASSUME NEW s \in {"finished", "interrupted"}, MarkTerminal(r, s)
       PROVE  ChangeAll
  <2>1. runs' = [runs EXCEPT ![r] = Ended(x, s)] /\ x.status # "paused" /\ s \in Terminal
    BY <1>4, <1>10 DEF MarkTerminal
  <2> QED
    BY <1>1, <1>3, <2>1
<1>11. CASE TurnEnds(r)
  <2>1. \/ runs' = [runs EXCEPT ![r] = u]
        \/ IsActive(r) /\ runs' = [runs EXCEPT ![r] = Ended(u, "finished")]
    BY <1>11 DEF TurnEnds
  <2> HIDE DEF u
  <2> QED
    BY <1>1, <1>2, <1>3, <1>4, <2>1
<1>12. CASE InterruptSettles(r)
  <2> DEFINE a == IF IsActive(r) THEN "done" ELSE "none"
             v == [x EXCEPT !.interrupt = a]
  <2>1. v \in Run /\ Untouched(x, v)
    BY <1>1, InterruptWrite, FieldUntouched DEF Keeps, Rewrites, InterruptState
  <2>2. \/ runs' = [runs EXCEPT ![r] = v]
        \/ IsActive(r) /\ runs' = [runs EXCEPT ![r] = Ended(v, "interrupted")]
    BY <1>12 DEF InterruptSettles
  <2> HIDE DEF v
  <2> QED
    BY <1>2, <1>3, <1>4, <2>1, <2>2
<1>13. CASE StaleRun(r) \/ ForcedInterrupt(r)
  <2>1. runs' = [runs EXCEPT ![r] = Ended(x, "interrupted")] /\ x.status # "paused"
    BY <1>4, <1>13 DEF StaleRun, ForcedInterrupt, Silent
  <2> QED
    BY <1>1, <1>3, <1>4, <2>1
<1> QED
  BY <1>6, <1>7, <1>8, <1>9, <1>10, <1>11, <1>12, <1>13

\* A queued run starts, and a pause of its thread ends.
LEMMA StartChange ==
  ASSUME TypeOK, NEW r \in Runs, MarkStarting(r) \/ LocalActionStarts(r)
  PROVE  ChangeAll
<1>1. /\ Change(runs[r], Started(runs[r])) /\ Change(runs[r], Running(Started(runs[r])))
  BY StartedChange DEF MarkStarting, LocalActionStarts, MayStart, TypeOK
<1>2. \A q \in Runs : Change(runs[q], PauseEnded(runs[q], "over")) /\ Change(runs[q], runs[q])
  BY PauseEndedChange, UntouchedChange DEF TypeOK, Untouched
<1>3. ASSUME NEW x, Change(runs[r], x), StartsAs(r, x)
      PROVE  ChangeAll
  <2>1. runs' = [q \in Runs |->
              IF q = r THEN x
              ELSE IF q \in PausedOn(runs[r].thread) THEN PauseEnded(runs[q], "over") ELSE runs[q]]
    BY <1>3 DEF StartsAs
  <2> QED
    BY <1>2, <1>3, <2>1 DEF ChangeAll
<1> QED
  BY <1>1, <1>3 DEF MarkStarting, LocalActionStarts

\* An active run moves on to another active status.
LEMMA ActiveChange ==
  ASSUME TypeOK, NEW r \in Runs, MarkRunning(r) \/ MarkFinalizing(r)
  PROVE  ChangeAll
<1>1. PICK s \in {"running", "finalizing"} :
         IsActive(r) /\ runs' = [runs EXCEPT ![r] = [runs[r] EXCEPT !.status = s]]
  BY StatusFacts DEF MarkRunning, MarkFinalizing, Running, IsActive
<1> DEFINE y == [runs[r] EXCEPT !.status = s]
<1>2. /\ y.status = s /\ y.stop = runs[r].stop /\ y.pause = runs[r].pause
      /\ y.gen = runs[r].gen /\ y.thread = runs[r].thread
  BY DEF TypeOK, Run
<1>3. s \in Active
  BY <1>1, StatusFacts
<1>4. runs[r].status \in Active /\ runs[r].status # "paused" /\ runs[r].status \notin Terminal
  BY <1>1, StatusFacts DEF IsActive
<1> HIDE DEF y
<1>5. Change(runs[r], y)
  BY <1>2, <1>3, <1>4, StatusFacts DEF Change, Apart, Reached, InReach
<1> QED
  BY <1>1, <1>5, OneChange DEF y

\* A run is paused: not one that is being stopped.
LEMMA PauseChange ==
  ASSUME TypeOK, NEW r \in Runs, NEW timed \in BOOLEAN, Pause(r, timed)
  PROVE  ChangeAll
<1> DEFINE p == IF timed THEN "timed" ELSE "untimed"
           a == IF timed THEN "pending" ELSE runs[r].timer
           y == [runs[r] EXCEPT !.status = "paused", !.pause = p, !.timer = a]
           Quit(q) == [runs[q] EXCEPT !.timer = Cancelled(runs[q].timer), !.manual = Cancelled(runs[q].manual)]
<1>1. runs' = [q \in Runs |->
          IF q = r THEN y
          ELSE IF timed /\ q \in OfThread(runs[r].thread) /\ runs[q].status # "paused"
               THEN Quit(q) ELSE runs[q]]
  BY DEF Pause
<1>2. ~runs[r].stop /\ runs[r].status # "paused" /\ runs[r].status \in Active
  BY StatusFacts DEF Pause, Pausable
<1>3. /\ y.status = "paused" /\ y.stop = runs[r].stop
      /\ y.gen = runs[r].gen /\ y.thread = runs[r].thread
  BY DEF TypeOK, Run
<1>4. Change(runs[r], y)
  BY <1>2, <1>3 DEF Change, Apart, Reached, InReach
<1>5. ASSUME NEW q \in Runs
      PROVE  Change(runs[q], Quit(q)) /\ Change(runs[q], runs[q])
  <2> DEFINE c == Cancelled(runs[q].timer)
             d == Cancelled(runs[q].manual)
  <2>1. runs[q] \in Run
    BY DEF TypeOK
  <2>2. Quit(q) = [runs[q] EXCEPT !.timer = c, !.manual = d]
    OBVIOUS
  <2> HIDE DEF c, d
  <2>3. Untouched(runs[q], [runs[q] EXCEPT !.timer = c, !.manual = d])
    BY <2>1, FieldsUntouched
  <2> QED
    BY <2>2, <2>3, UntouchedChange DEF Untouched
<1> HIDE DEF y, Quit
<1> QED
  BY <1>1, <1>4, <1>5 DEF ChangeAll

\* A write that leaves the pause of a paused run as it is, after another that did.
LEMMA StillPausedChange ==
  ASSUME NEW x \in Run, NEW z \in Run, x.status = "paused", z.status = "paused",
         z.stop = x.stop, z.gen = x.gen, z.thread = x.thread, NEW y, Untouched(z, y)
  PROVE  Change(x, y)
  BY DEF Change, Apart, Reached, InReach, Untouched

\* An ended run whose effects are written once more.
LEMMA EndedThenChange ==
  ASSUME NEW x \in Run, NEW s \in Terminal, x.status # "paused", NEW y, Untouched(Ended(x, s), y)
  PROVE  Change(x, y)
<1>1. Ended(x, s).status = s /\ Ended(x, s).stop = FALSE
  BY DEF Ended, Run
<1> QED
  BY <1>1, TerminalChange DEF Untouched

\* A cancelled queued run.
LEMMA QueuedCancelledChange ==
  ASSUME NEW x \in Run, x.status = "queued"
  PROVE  Change(x, QueuedCancelled(x))
<1>1. "cancelled" \in Terminal
  BY StatusFacts
<1>2. Ended(x, "cancelled") \in Run
  BY <1>1, EndedType DEF Rewrites
<1>3. Untouched(Ended(x, "cancelled"), QueuedCancelled(x))
  BY <1>2, FieldUntouched DEF QueuedCancelled
<1> QED
  BY <1>1, <1>3, EndedThenChange

\* A Stop, and its interrupt, noted on an active run.
LEMMA NotedChange ==
  ASSUME NEW x \in Run, x.status \in Active
  PROVE  /\ Change(x, StopNoted(x)) /\ Change(x, Interrupting(x))
         /\ Change(x, Interrupting(StopNoted(x)))
<1>1. ASSUME NEW z \in Run
      PROVE  Untouched(z, Interrupting(z))
  <2> DEFINE a == IF z.interrupt \in Live THEN z.interrupt ELSE "pending"
  <2>1. Interrupting(z) = [z EXCEPT !.interrupt = a]
    BY DEF Interrupting
  <2> HIDE DEF a
  <2> QED
    BY <2>1, FieldUntouched
<1>2. StopNoted(x) \in Run
  BY NotedType DEF Keeps, Rewrites
<1>3. LET y == StopNoted(x) IN y.status = x.status /\ y.pause = x.pause /\ y.stop = TRUE
  BY DEF StopNoted, Run
<1>4. Change(x, StopNoted(x))
  BY <1>3, StatusFacts DEF Change, Apart, Reached, InReach
<1>5. Change(x, Interrupting(StopNoted(x)))
  BY <1>1, <1>2, <1>3, StatusFacts DEF Change, Apart, Reached, InReach, Untouched
<1> QED
  BY <1>1, <1>4, <1>5, UntouchedChange

\* A timer fires, or is stale: the run stays paused, waiting wakes are dropped.
LEMMA TimerChange ==
  ASSUME TypeOK, NEW r \in Runs,
         (\E k \in {"timer", "manual"} : TimerFires(r, k)) \/ TimerStale(r)
  PROVE  ChangeAll
<1>1. \A q \in Runs : runs[q] \in Run /\ Change(runs[q], runs[q])
  BY UntouchedChange DEF TypeOK, Untouched
<1>2. ASSUME NEW q \in Runs
      PROVE  Change(runs[q], WakeDropped(runs[q]))
  <2>1. CASE runs[q].status = "queued"
    BY <1>1, <2>1, QueuedCancelledChange DEF WakeDropped
  <2>2. CASE runs[q].status # "queued"
    <3>1. WakeDropped(runs[q]) = [runs[q] EXCEPT !.start = "none"]
      BY <2>2 DEF WakeDropped
    <3> QED
      BY <1>1, <3>1, FieldUntouched, UntouchedChange, ZenonT(40)
  <2> QED
    BY <2>1, <2>2
<1>3. ASSUME NEW k \in {"timer", "manual"}, TimerFires(r, k)
      PROVE  ChangeAll
  <2>1. PICK written \in BOOLEAN : runs' = ResumePrepared(r, k, written)
    BY <1>3 DEF TimerFires
  <2> DEFINE a == IF written THEN "running" ELSE "failed"
             i == IF ~written THEN runs[r].item ELSE IF k = "manual" THEN "now"
                  ELSE IF runs[r].item = "none" THEN "auto" ELSE runs[r].item
             y == [runs[r] EXCEPT ![k] = a, !.item = i]
  <2>2. runs' = [q \in Runs |->
           IF q = r THEN y
           ELSE IF q \in WaitingWakes(runs[r].thread) THEN WakeDropped(runs[q]) ELSE runs[q]]
    BY <2>1 DEF ResumePrepared
  <2>3. Change(runs[r], y)
    <3> HIDE DEF a, i
    <3>1. CASE k = "timer"
      <4>1. y = [runs[r] EXCEPT !.timer = a, !.item = i]
        BY <3>1
      <4> QED
        BY <1>1, <4>1, FieldsUntouched, UntouchedChange
    <3>2. CASE k = "manual"
      <4>1. y = [runs[r] EXCEPT !.manual = a, !.item = i]
        BY <3>2
      <4> QED
        BY <1>1, <4>1, FieldsUntouched, UntouchedChange
    <3> QED
      BY <3>1, <3>2
  <2> HIDE DEF y
  <2> QED
    BY <1>1, <1>2, <2>2, <2>3 DEF ChangeAll
<1>4. CASE TimerStale(r)
  <2> DEFINE z == PauseStale(runs[r])
             y == [z EXCEPT !.timer = "running", !.item = "none"]
  <2>1. runs' = [runs EXCEPT ![r] = y] /\ runs[r].status = "paused"
    BY <1>4 DEF TimerStale
  <2>2. z \in Run /\ z.status = "paused" /\ z.stop = runs[r].stop /\ z.gen = runs[r].gen /\ z.thread = runs[r].thread
    BY <1>1, <2>1, PauseStaleType, PauseStaleChange DEF Keeps, Rewrites
  <2> HIDE DEF z
  <2>3. Untouched(z, y)
    BY <2>2, FieldsUntouched
  <2> HIDE DEF y
  <2>4. Change(runs[r], y)
    BY <1>1, <2>1, <2>2, <2>3, StillPausedChange
  <2> QED
    BY <2>1, <2>4, OneChange
<1> QED
  BY <1>3, <1>4

\* A pause is cancelled, or its run stopped.
LEMMA RunStopChange ==
  ASSUME TypeOK, NEW r \in Runs, CancelPause(r) \/ StopRun(r)
  PROVE  ChangeAll
<1>1. runs[r] \in Run
  BY DEF TypeOK
<1>2. CASE CancelPause(r)
  BY <1>1, <1>2, PauseAndItemChange, OneChange DEF CancelPause
<1>3. CASE StopRun(r) /\ IsActive(r)
  <2>1. Change(runs[r], StopNoted(runs[r]))
    BY <1>1, <1>3, NotedChange DEF IsActive
  <2> QED
    BY <1>3, <2>1, OneChange DEF StopRun
<1>4. CASE StopRun(r) /\ ~IsActive(r)
  BY <1>1, <1>4, PauseEndedChange, OneChange DEF StopRun
<1> QED
  BY <1>2, <1>3, <1>4

\* The Stop of a subtree.
LEMMA StopThreadChange ==
  ASSUME TypeOK, NEW t \in Threads, NEW clear \in BOOLEAN, StopThread(t, clear)
  PROVE  ChangeAll
<1>1. \A q \in Runs : runs[q] \in Run /\ Change(runs[q], runs[q])
  BY UntouchedChange DEF TypeOK, Untouched
<1>2. ASSUME NEW q \in Runs
      PROVE  Change(runs[q], StoppedBy(q, clear))
  <2>1. CASE runs[q].status = "paused"
    BY <1>1, <2>1, PauseEndedChange DEF StoppedBy
  <2>2. CASE runs[q].status = "queued" /\ ~SurvivesStop(q, clear)
    BY <1>1, <2>2, QueuedCancelledChange DEF StoppedBy
  <2>3. CASE runs[q].status # "paused" /\ ~(runs[q].status = "queued" /\ ~SurvivesStop(q, clear)) /\ IsActive(q)
    <3>1. StoppedBy(q, clear) \in {Interrupting(runs[q]), Interrupting(StopNoted(runs[q]))}
      BY <2>3 DEF StoppedBy
    <3> QED
      BY <1>1, <2>3, <3>1, NotedChange DEF IsActive
  <2>4. CASE runs[q].status # "paused" /\ ~(runs[q].status = "queued" /\ ~SurvivesStop(q, clear)) /\ ~IsActive(q)
    BY <1>1, <2>4 DEF StoppedBy
  <2> QED
    BY <2>1, <2>2, <2>3, <2>4
<1>3. \A q \in Runs : runs'[q] \in {StoppedBy(q, clear), runs[q]}
  BY DEF StopThread
<1> QED
  BY <1>1, <1>2, <1>3 DEF ChangeAll

\* A turn.start abandoned at shutdown.
LEMMA AbandonedChange ==
  ASSUME NEW x \in Run
  PROVE  Change(x, Abandoned(x))
<1>1. "interrupted" \in Terminal
  BY StatusFacts
<1>2. Ended(x, "interrupted") \in Run
  BY <1>1, EndedType DEF Rewrites
<1>3. Untouched(Ended(x, "interrupted"), [Ended(x, "interrupted") EXCEPT !.start = "none"])
  BY <1>2, FieldUntouched
<1>4. x.status = "queued" => Change(x, [Ended(x, "interrupted") EXCEPT !.start = "none"])
  BY <1>1, <1>3, EndedThenChange
<1>5. Change(x, [x EXCEPT !.start = "none"]) /\ Change(x, [x EXCEPT !.start = "dead"])
  BY FieldUntouched, UntouchedChange
<1>6. \/ Abandoned(x) \in {[x EXCEPT !.start = "none"], [x EXCEPT !.start = "dead"]}
      \/ /\ x.status = "queued"
         /\ Abandoned(x) = [Ended(x, "interrupted") EXCEPT !.start = "none"]
  BY DEF Abandoned
<1> QED
  BY <1>4, <1>5, <1>6

\* What boot does to a run.
LEMMA RecoveredChange ==
  ASSUME NEW x \in Run
  PROVE  Change(x, Recovered(x))
<1> DEFINE y == EffectsRecovered(x)
           u == IF ~ended /\ x.unsafe THEN "uncertain" ELSE "interrupted"
           open == (x.status = "queued" /\ x.source = "wake") \/ Orphaned(x)
<1>1. Recovered(x) = CASE x.status \in Active -> Ended(y, u) [] open -> Ended(y, "cancelled") [] OTHER -> y
  BY DEF Recovered
<1>2. x.status \in Active \/ open => x.status # "paused"
  BY StatusFacts DEF Orphaned
<1>3. u \in Terminal /\ "cancelled" \in Terminal
  BY StatusFacts
<1>4. y \in Run
  BY EffectsRecoveredType DEF Keeps, Rewrites
<1>5. Untouched(x, y)
  <2> DEFINE a == IF x.start \notin Live THEN x.start ELSE IF x.status = "queued" THEN "dead" ELSE "none"
             b == IF x.interrupt \in Live THEN "none" ELSE x.interrupt
             c == IF x.timer \in InLane THEN "pending" ELSE x.timer
             d == IF x.manual \in InLane THEN "pending" ELSE x.manual
  <2>1. y = [x EXCEPT !.start = a, !.interrupt = b, !.timer = c, !.manual = d]
    BY DEF EffectsRecovered
  <2> HIDE DEF y, a, b, c, d
  <2> QED
    BY <2>1 DEF Untouched, Run
<1> HIDE DEF y, u, open
<1>6. CASE x.status \in Active
  BY <1>1, <1>2, <1>3, <1>4, <1>5, <1>6, EndedChange
<1>7. CASE x.status \notin Active /\ open
  BY <1>1, <1>2, <1>3, <1>4, <1>5, <1>7, EndedChange
<1>8. CASE x.status \notin Active /\ ~open
  BY <1>1, <1>5, <1>8, UntouchedChange
<1> QED
  BY <1>6, <1>7, <1>8

\* Crash, drained stop and boot.
LEMMA DaemonChange ==
  ASSUME TypeOK, Crash \/ Shutdown \/ Boot
  PROVE  ChangeAll
<1>1. \A q \in Runs : /\ Change(runs[q], runs[q]) /\ Change(runs[q], Abandoned(runs[q]))
                      /\ Change(runs[q], Recovered(runs[q]))
  BY AbandonedChange, RecoveredChange, UntouchedChange DEF TypeOK, Untouched
<1>2. \/ runs' = runs
      \/ \A q \in Runs : runs'[q] \in {runs[q], Abandoned(runs[q])}
      \/ \A q \in Runs : runs'[q] = Recovered(runs[q])
  BY DEF Crash, Shutdown, Boot
<1> QED
  BY <1>1, <1>2 DEF ChangeAll

\* The continue message: the pause ends and its continuation is created, or the
\* message is retired.
LEMMA AdmitResumeChange ==
  ASSUME TypeOK, NEW r \in Runs, AdmitResume(r)
  PROVE  ChangeAll
<1> DEFINE gone == [runs[r] EXCEPT !.item = "none"]
           late == [PauseStale(runs[r]) EXCEPT !.item = "none"]
           over == [PauseEnded(runs[r], "resumed") EXCEPT !.item = "none"]
           next == [Created(runs[r].thread, "resume") EXCEPT !.viaQueue = TRUE, !.start = "pending", !.continues = r]
<1>1. \/ \E n \in Runs : Resumable(r) /\ Next1(n) /\ runs' = [runs EXCEPT ![r] = over, ![n] = next]
      \/ runs[r].status = "paused" /\ runs' = [runs EXCEPT ![r] = late]
      \/ runs' = [runs EXCEPT ![r] = gone]
  BY DEF AdmitResume
<1>2. runs[r] \in Run /\ runs[r].thread \in Threads
  BY DEF TypeOK, Run
<1>3. Change(runs[r], gone)
  BY <1>2, FieldUntouched, UntouchedChange
<1>4. Change(runs[r], over)
  BY <1>2, PauseAndItemChange
<1>5. ASSUME runs[r].status = "paused"
      PROVE  Change(runs[r], late)
  <2> DEFINE z == PauseStale(runs[r])
  <2>1. z \in Run /\ z.status = "paused" /\ z.stop = runs[r].stop /\ z.gen = runs[r].gen /\ z.thread = runs[r].thread
    BY <1>2, <1>5, PauseStaleType, PauseStaleChange DEF Keeps, Rewrites
  <2> HIDE DEF z
  <2>2. Untouched(z, [z EXCEPT !.item = "none"])
    BY <2>1, FieldUntouched
  <2> QED
    BY <1>2, <1>5, <2>1, <2>2, StillPausedChange DEF z
<1>6. ASSUME NEW n \in Runs, Next1(n)
      PROVE  Change(runs[n], next)
  <2> DEFINE c == Created(runs[r].thread, "resume")
  <2>1. c \in Run /\ c.stop = FALSE /\ c.pause = "none" /\ ~(c.gen < generation[c.thread])
    BY <1>2, CreatedType, CreatedFacts DEF TypeOK, Sources
  <2> HIDE DEF c
  <2>2. Untouched(c, [c EXCEPT !.viaQueue = TRUE, !.start = "pending", !.continues = r])
    BY <2>1 DEF Untouched, Run
  <2> QED
    BY <1>6, <2>1, <2>2, NewChange DEF Next1, c
<1>7. \A q \in Runs : Change(runs[q], runs[q])
  BY UntouchedChange DEF Untouched
<1> HIDE DEF gone, late, over, next
<1>8. ASSUME NEW n \in Runs, Resumable(r), Next1(n), runs' = [runs EXCEPT ![r] = over, ![n] = next]
      PROVE  ChangeAll
  <2>1. n # r
    BY <1>8, StatusFacts DEF Next1, Resumable
  <2>2. \A q \in Runs : runs'[q] = IF q = n THEN next ELSE IF q = r THEN over ELSE runs[q]
    BY <1>8, <2>1 DEF TypeOK
  <2> QED
    BY <1>4, <1>6, <1>7, <1>8, <2>2 DEF ChangeAll
<1> QED
  BY <1>1, <1>3, <1>5, <1>8, OneChange

-----------------------------------------------------------------------------
(* The theorems.                                                            *)

\* The Stop and the pause of every run are apart.
AllApart == \A r \in Runs : Apart(runs[r])

\* Every step changes every run as stated.
LEMMA NextPause ==
  ASSUME TypeOK, AllApart, Next
  PROVE  ChangeAll
<1>1. ASSUME NEW t \in Threads,
             \/ \E s \in Sends, behind \in BOOLEAN : Send(t, s, behind)
             \/ Wake(t)
             \/ LocalAction(t)
      PROVE  ChangeAll
  BY <1>1, CreationChange
<1>2. ASSUME NEW t \in Threads, NEW clear \in BOOLEAN, StopThread(t, clear)
      PROVE  ChangeAll
  BY <1>2, StopThreadChange
<1>3. ASSUME NEW r \in Runs,
             \/ \E queue \in BOOLEAN : SendPlaced(r, queue)
             \/ DrainQueue(r) \/ TurnStart(r) \/ LocalActionRefused(r) \/ StaleHook(r)
             \/ ToolCall(r) \/ StartDeadline(r) \/ RestartQueued(r) \/ InterruptStopped(r)
             \/ ResumeNow(r)
             \/ \E k \in {"timer", "manual"} :
                   TimerClaimed(r, k) \/ TimerFindsPauseEnded(r, k) \/ TimerSettles(r, k)
      PROVE  ChangeAll
  BY <1>3, PlainChange
<1>4. ASSUME NEW r \in Runs,
             \/ CancelQueued(r) \/ TurnStartRefused(r) \/ TurnStartCollides(r) \/ PreparationFails(r)
             \/ \E s \in {"finished", "interrupted"} : MarkTerminal(r, s)
             \/ TurnEnds(r) \/ InterruptSettles(r) \/ StaleRun(r) \/ ForcedInterrupt(r)
      PROVE  ChangeAll
  BY <1>4, EndChange DEF AllApart
<1>5. ASSUME NEW r \in Runs,
             \/ MarkStarting(r) \/ LocalActionStarts(r)
             \/ MarkRunning(r) \/ MarkFinalizing(r)
             \/ \E timed \in BOOLEAN : Pause(r, timed)
             \/ CancelPause(r) \/ StopRun(r)
             \/ (\E k \in {"timer", "manual"} : TimerFires(r, k)) \/ TimerStale(r)
             \/ AdmitResume(r)
      PROVE  ChangeAll
  BY <1>5, StartChange, ActiveChange, PauseChange, RunStopChange, TimerChange, AdmitResumeChange
<1>6. ASSUME Crash \/ Shutdown \/ Boot
      PROVE  ChangeAll
  BY <1>6, DaemonChange
<1> QED
  BY <1>1, <1>2, <1>3, <1>4, <1>5, <1>6 DEF Next

\* The Stop and the pause of a run stay apart.
LEMMA AlwaysApart == Spec => [](RunInv /\ AllApart)
<1>1. Init => AllApart
  BY DEF Init, NoRunYet, AllApart, Apart
<1>2. RunInv /\ AllApart /\ [Next]_vars => AllApart'
  <2> SUFFICES ASSUME RunInv, AllApart, [Next]_vars PROVE AllApart'
    OBVIOUS
  <2>1. CASE Next
    BY <2>1, NextPause DEF RunInv, ChangeAll, Change, AllApart
  <2>2. CASE UNCHANGED vars
    BY <2>2 DEF vars, AllApart
  <2> QED
    BY <2>1, <2>2
<1> QED
  BY <1>1, <1>2, AlwaysRunInv, PTL DEF Spec

\* A run that is being stopped is not paused and not handed over, whatever order
\* the usage limit, the Stop and the timer come in: pauseRun refuses it, and a Stop
\* of a paused run ends the pause.
THEOREM StopBeatsPause == Spec => []StopWinsPause
<1>1. AllApart => StopWinsPause
  BY StatusFacts DEF AllApart, Apart, StopWinsPause
<1> QED
  BY <1>1, AlwaysApart, PTL

\* Whatever ends a pause (a message, its continuation, a cancel, a Stop) leaves no
\* timer of it pending, so none holds the thread's resume lane; nothing else ends one.
THEOREM TimersGoWithPause == Spec => NoTimerOutlivesPause
<1> DEFINE TimersGone == \A r \in Runs : runs[r].status = "paused" /\ runs'[r].status # "paused" =>
                       "pending" \notin {runs'[r].timer, runs'[r].manual}
<1>1. RunInv /\ AllApart /\ [Next]_vars => [TimersGone]_vars
  <2> SUFFICES ASSUME RunInv, AllApart, Next PROVE TimersGone
    OBVIOUS
  <2> QED
    BY NextPause DEF RunInv, ChangeAll, Change, AllApart
<1> QED
  BY <1>1, AlwaysApart, PTL DEF Spec, NoTimerOutlivesPause

\* No work that a Stop has reached goes on, waits for a timer or waits in the queue
\* on behalf of a parent.
AllReached == \A r \in Runs : Reached(runs[r])

\* Only a Stop of a thread raises generations.
LEMMA OnlyStopsRaise ==
  ASSUME Next, \A t \in Threads, clear \in BOOLEAN : ~StopThread(t, clear)
  PROVE  generation' = generation
<1>1. ASSUME NEW t \in Threads,
             \/ \E s \in Sends, behind \in BOOLEAN : Send(t, s, behind)
             \/ Wake(t)
             \/ LocalAction(t)
      PROVE  generation' = generation
  BY <1>1 DEF Send, Wake, LocalAction
<1>2. ASSUME NEW r \in Runs,
             \/ \E queue \in BOOLEAN : SendPlaced(r, queue)
             \/ DrainQueue(r)
             \/ CancelQueued(r)
             \/ TurnStart(r)
             \/ TurnStartRefused(r)
             \/ TurnStartCollides(r)
             \/ MarkStarting(r)
             \/ PreparationFails(r)
             \/ LocalActionStarts(r)
             \/ LocalActionRefused(r)
             \/ StaleHook(r)
             \/ MarkRunning(r)
             \/ MarkFinalizing(r)
             \/ \E s \in {"finished", "interrupted"} : MarkTerminal(r, s)
             \/ TurnEnds(r)
             \/ ToolCall(r)
             \/ StartDeadline(r)
      PROVE  generation' = generation
  BY <1>2 DEF SendPlaced, DrainQueue, CancelQueued, TurnStart, TurnStartRefused, TurnStartCollides,
     MarkStarting, PreparationFails, LocalActionStarts, LocalActionRefused, StaleHook, MarkRunning,
     MarkFinalizing, MarkTerminal, TurnEnds, ToolCall, StartDeadline
<1>3. ASSUME NEW r \in Runs,
             \/ \E timed \in BOOLEAN : Pause(r, timed)
             \/ ResumeNow(r)
             \/ CancelPause(r)
             \/ \E k \in {"timer", "manual"} :
                   TimerClaimed(r, k) \/ TimerFires(r, k) \/ TimerFindsPauseEnded(r, k) \/ TimerSettles(r, k)
             \/ TimerStale(r)
             \/ AdmitResume(r)
             \/ StopRun(r)
             \/ InterruptStopped(r)
             \/ InterruptSettles(r)
             \/ StaleRun(r)
             \/ ForcedInterrupt(r)
             \/ RestartQueued(r)
      PROVE  generation' = generation
  BY <1>3 DEF Pause, ResumeNow, CancelPause, TimerClaimed, TimerFires, TimerFindsPauseEnded,
     TimerSettles, TimerStale, AdmitResume, StopRun, InterruptStopped, InterruptSettles, StaleRun,
     ForcedInterrupt, RestartQueued
<1>4. ASSUME Crash \/ Shutdown \/ Boot
      PROVE  generation' = generation
  BY <1>4 DEF Crash, Shutdown, Boot, Gone
<1> QED
  BY <1>1, <1>2, <1>3, <1>4 DEF Next

\* What a Stop leaves of a run of the subtree is told to stop, over, or a person's.
LEMMA StoppedOutOfReach ==
  ASSUME TypeOK, NEW q \in Runs, NEW clear \in BOOLEAN
  PROVE  ~InReach(StoppedBy(q, clear))
<1> DEFINE x == runs[q]
           y == StoppedBy(q, clear)
<1>1. x \in Run
  BY DEF TypeOK
<1>2. \A z : z.status \in Terminal => ~InReach(z)
  BY StatusFacts DEF InReach
<1>3. CASE x.status = "paused"
  <2>1. y = PauseEnded(x, "over")
    BY <1>3 DEF StoppedBy
  <2> QED
    BY <1>1, <1>2, <2>1, PauseEndedChange
<1>4. CASE x.status = "queued" /\ ~SurvivesStop(q, clear)
  <2>1. y = QueuedCancelled(x)
    BY <1>4 DEF StoppedBy
  <2>2. "cancelled" \in Terminal
    BY StatusFacts
  <2>3. Ended(x, "cancelled") \in Run /\ Ended(x, "cancelled").status = "cancelled"
    BY <1>1, <2>2, EndedType DEF Rewrites
  <2>4. QueuedCancelled(x).status = "cancelled"
    BY <2>3, FieldUntouched DEF QueuedCancelled, Untouched
  <2> QED
    BY <1>2, <2>1, <2>2, <2>4
<1>5. CASE x.status = "queued" /\ SurvivesStop(q, clear)
  <2>1. y = x /\ x.source \notin Fenced
    BY <1>5, StatusFacts DEF StoppedBy, SurvivesStop, IsActive
  <2> QED
    BY <1>5, <2>1, StatusFacts DEF InReach
<1>6. CASE x.status # "queued" /\ x.status # "paused" /\ IsActive(q)
  <2> DEFINE z == IF x.stop THEN x ELSE StopNoted(x)
             a == IF z.interrupt \in Live THEN z.interrupt ELSE "pending"
  <2>1. y = [z EXCEPT !.interrupt = a]
    BY <1>6 DEF StoppedBy, Interrupting
  <2>2. StopNoted(x) \in Run /\ StopNoted(x).stop = TRUE /\ StopNoted(x).status = x.status
    BY <1>1, NotedType DEF Keeps, Rewrites, StopNoted, Run
  <2>3. z \in Run /\ z.stop = TRUE /\ z.status = x.status
    BY <1>1, <2>2 DEF Run
  <2> HIDE DEF z, a
  <2>4. [z EXCEPT !.interrupt = a].stop = TRUE /\ [z EXCEPT !.interrupt = a].status = x.status
    BY <2>3, FieldUntouched DEF Untouched
  <2> HIDE DEF y, x
  <2> QED
    BY <1>6, <2>1, <2>4 DEF InReach, y
<1>7. CASE x.status # "queued" /\ x.status # "paused" /\ ~IsActive(q)
  <2>1. y = x
    BY <1>7 DEF StoppedBy
  <2> QED
    BY <1>7, <2>1 DEF InReach, IsActive
<1> QED
  BY <1>3, <1>4, <1>5, <1>6, <1>7

\* Behind a Stop's raised generation stands nothing that it would have ended.
LEMMA StopThreadReaches ==
  ASSUME TypeOK, AllReached, NEW t \in Threads, NEW clear \in BOOLEAN, StopThread(t, clear)
  PROVE  AllReached'
<1> SUFFICES ASSUME NEW q \in Runs PROVE Reached(runs[q])'
  BY DEF AllReached
<1>1. runs[q] \in Run /\ runs[q].thread \in Threads
  BY DEF TypeOK, Run
<1>2. generation'[runs[q].thread] =
         generation[runs[q].thread] + IF runs[q].thread \in Subtree[t] THEN 1 ELSE 0
  BY <1>1 DEF StopThread, GenerationsRaised
<1>3. runs'[q] = IF runs[q].status # "absent" /\ runs[q].thread \in Subtree[t]
                 THEN StoppedBy(q, clear) ELSE runs[q]
  BY DEF StopThread
<1>4. CASE runs[q].status = "absent"
  BY <1>3, <1>4, StatusFacts DEF Reached, InReach
<1>5. CASE runs[q].status # "absent" /\ runs[q].thread \in Subtree[t]
  <2>1. ~InReach(runs'[q])
    BY <1>3, <1>5, StoppedOutOfReach
  <2> QED
    BY <2>1 DEF Reached, InReach
<1>6. CASE runs[q].thread \notin Subtree[t]
  <2>1. runs'[q] = runs[q]
    BY <1>3, <1>6
  <2>2. generation'[runs[q].thread] = generation[runs[q].thread]
    BY <1>1, <1>2, <1>6 DEF TypeOK
  <2>3. Reached(runs[q])
    BY DEF AllReached
  <2> QED
    BY <2>1, <2>2, <2>3 DEF Reached, InReach
<1> QED
  BY <1>4, <1>5, <1>6

\* A Stop reaches everything below its thread and nothing brings that back: not a
\* late turn.start, a timer, a wake that waits, a drain of the queue or boot.
THEOREM StopReaches == Spec => []StopReachesAll
<1>1. Init => AllReached
  BY DEF Init, NoRunYet, AllReached, Reached, InReach, Active
<1>2. RunInv /\ AllApart /\ AllReached /\ [Next]_vars => AllReached'
  <2> SUFFICES ASSUME RunInv, AllApart, AllReached, [Next]_vars PROVE AllReached'
    OBVIOUS
  <2>1. CASE \E t \in Threads, clear \in BOOLEAN : StopThread(t, clear)
    BY <2>1, StopThreadReaches DEF RunInv
  <2>2. CASE Next /\ ~\E t \in Threads, clear \in BOOLEAN : StopThread(t, clear)
    <3>1. generation' = generation
      BY <2>2, OnlyStopsRaise
    <3>2. ASSUME NEW r \in Runs
          PROVE  Reached(runs[r])'
      <4>1. Change(runs[r], runs'[r]) /\ Reached(runs[r])
        BY <2>2, NextPause DEF RunInv, ChangeAll, AllReached
      <4> QED
        BY <3>1, <4>1 DEF Change, Reached, InReach
    <3> QED
      BY <3>2 DEF AllReached
  <2>3. CASE UNCHANGED vars
    BY <2>3 DEF vars, AllReached, Reached, InReach
  <2> QED
    BY <2>1, <2>2, <2>3
<1>3. AllReached => StopReachesAll
  BY DEF AllReached, Reached, InReach, StopReachesAll, AdmissionStale
<1> QED
  BY <1>1, <1>2, <1>3, AlwaysApart, PTL DEF Spec

-----------------------------------------------------------------------------
(* How a usage-limit pause is continued.                                     *)

\* What still acts for a pause: a timer whose executor has not acted, one that failed
\* for all to see, or the message.  An executor that has acted counts for nothing: it
\* has left a message, or taken the time off the pause.
Kept(x) ==
    \/ x.item # "none"
    \/ {"pending", "claimed", "failed"} \cap {x.timer, x.manual} # {}

Promised(x) == x.status = "paused" /\ x.pause = "timed" => Kept(x)

\* Only a run that ended was handed over, and no run continues another before it exists.
Settled(x) ==
    /\ x.pause = "resumed" => x.status \in Terminal
    /\ x.status = "absent" => x.continues = NoRun

\* What every step but the admission of a continuation does to a run.
Carries(x, y) ==
    /\ Promised(x) => Promised(y)
    /\ Settled(x) => /\ Settled(y)
                     /\ y.continues = x.continues
                     /\ y.pause = "resumed" <=> x.pause = "resumed"

CarriesAll == \A r \in Runs : Carries(runs[r], runs'[r])

\* A write that touches neither the status nor the pause.
Beside(x, y) == y.status = x.status /\ y.pause = x.pause /\ y.continues = x.continues

\* One that does not touch what acts for the pause either.
LeftAlone(x, y) == Beside(x, y) /\ y.item = x.item /\ y.timer = x.timer /\ y.manual = x.manual

-----------------------------------------------------------------------------
(* The kinds of writes.                                                     *)

\* Such a write changes nothing that matters here.
LEMMA LeftAloneCarries ==
  ASSUME NEW x, NEW y, LeftAlone(x, y)
  PROVE  Carries(x, y)
  BY DEF LeftAlone, Beside, Carries, Promised, Kept, Settled

\* A write to what acts for a pause.
LEMMA BesideCarries ==
  ASSUME NEW x, NEW y, Beside(x, y), x.status = "paused" /\ Promised(x) => Promised(y)
  PROVE  Carries(x, y)
  BY DEF Beside, Carries, Promised, Settled

\* A run ends or moves on, and keeps what it is to other runs.
LEMMA MovedCarries ==
  ASSUME NEW x, NEW y, y.pause = x.pause, y.continues = x.continues,
         y.status \in Terminal \/ (y.status \in Active /\ x.status \notin Terminal)
  PROVE  Carries(x, y)
  BY StatusFacts DEF Carries, Promised, Settled

\* The pause of a run is over.
LEMMA OverCarries ==
  ASSUME NEW x, NEW y, x.status = "paused", y.pause = "none", y.continues = x.continues, y.status \in Terminal
  PROVE  Carries(x, y)
  BY StatusFacts DEF Carries, Promised, Settled

\* A run is created that continues none.
LEMMA NewCarries ==
  ASSUME NEW x, x.status = "absent", NEW y, y.status = "queued", y.pause = "none", y.continues = NoRun
  PROVE  Carries(x, y)
  BY StatusFacts DEF Carries, Promised, Settled

\* Writing an effect, a flag, a timer or the message of a run.
LEMMA FieldLeftAlone ==
  ASSUME NEW x \in Run
  PROVE  /\ LeftAlone(x, x)
         /\ \A a : /\ LeftAlone(x, [x EXCEPT !.start = a]) /\ LeftAlone(x, [x EXCEPT !.interrupt = a])
                   /\ LeftAlone(x, [x EXCEPT !.stop = a]) /\ LeftAlone(x, [x EXCEPT !.viaQueue = a])
                   /\ LeftAlone(x, [x EXCEPT !.unsafe = a])
  BY DEF LeftAlone, Beside, Run

\* The terminal write.
LEMMA EndedFields ==
  ASSUME NEW x \in Run, NEW s \in Terminal
  PROVE  /\ Ended(x, s) \in Run /\ Ended(x, s).status = s
         /\ Ended(x, s).pause = x.pause /\ Ended(x, s).continues = x.continues
<1>1. Ended(x, s).pause = x.pause /\ Ended(x, s).continues = x.continues
  BY DEF Ended, Run
<1> QED
  BY <1>1, EndedType DEF Rewrites

\* A run that ends, alone or with its effects.
LEMMA EndedCarries ==
  ASSUME NEW x \in Run, NEW z \in Run, LeftAlone(x, z), NEW s \in Terminal, NEW y, LeftAlone(Ended(z, s), y)
  PROVE  Carries(x, y)
  BY EndedFields, MovedCarries DEF LeftAlone, Beside

\* The end of a pause, with or without its message.
LEMMA PauseEndedFields ==
  ASSUME NEW x \in Run, NEW by \in {"over", "resumed"}
  PROVE  \A y \in {PauseEnded(x, by), [PauseEnded(x, by) EXCEPT !.item = "none"]} :
            /\ y.status \in Terminal /\ y.continues = x.continues
            /\ y.pause = IF by = "resumed" THEN by ELSE "none"
<1> DEFINE s == IF by = "resumed" THEN "interrupted" ELSE "cancelled"
           p == IF by = "resumed" THEN by ELSE "none"
           u == Ended(x, s)
           v == PauseOver(x, by)
           a == IF v.timer \in {"claimed", "running"} THEN v.timer ELSE "none"
           b == IF v.manual \in {"claimed", "running"} THEN v.manual ELSE "none"
           w == PauseEnded(x, by)
<1>1. s \in Terminal
  BY StatusFacts
<1>2. u \in Run /\ u.continues = x.continues
  BY <1>1, EndedFields
<1>3. v = [u EXCEPT !.pause = p]
  BY DEF PauseOver
<1>4. v \in Run /\ v.status \in Terminal
  BY PauseOverType DEF Rewrites
<1>5. w \in Run /\ w = [v EXCEPT !.timer = a, !.manual = b]
  BY PauseEndedType DEF Rewrites, PauseEnded
<1> HIDE DEF s, p, u, v, a, b, w
<1>6. v.pause = p /\ v.continues = x.continues
  BY <1>2, <1>3 DEF Run
<1>7. w.status = v.status /\ w.pause = v.pause /\ w.continues = v.continues
  BY <1>4, <1>5 DEF Run
<1>8. LET y == [w EXCEPT !.item = "none"] IN y.status = w.status /\ y.pause = w.pause /\ y.continues = w.continues
  BY <1>5 DEF Run
<1>9. w.status \in Terminal /\ w.pause = p /\ w.continues = x.continues
  BY <1>4, <1>6, <1>7
<1>10. \A y \in {w, [w EXCEPT !.item = "none"]} : y.status \in Terminal /\ y.pause = p /\ y.continues = x.continues
  BY <1>8, <1>9
<1> QED
  BY <1>10 DEF w, p

\* The end of a pause that nobody continues.
LEMMA PauseEndedCarries ==
  ASSUME NEW x \in Run, x.status = "paused"
  PROVE  /\ Carries(x, PauseEnded(x, "over"))
         /\ Carries(x, [PauseEnded(x, "over") EXCEPT !.item = "none"])
<1>1. ASSUME NEW y \in {PauseEnded(x, "over"), [PauseEnded(x, "over") EXCEPT !.item = "none"]}
      PROVE  Carries(x, y)
  <2>1. y.status \in Terminal /\ y.continues = x.continues /\ y.pause = "none"
    BY PauseEndedFields
  <2> QED
    BY <2>1, OverCarries
<1> QED
  BY <1>1

\* A pause that is stale shows no time, whatever else is written with it.
LEMMA PauseStaleCarries ==
  ASSUME NEW x \in Run, x.status = "paused", NEW y,
         LET z == PauseStale(x) IN
            y.status = z.status /\ y.pause = z.pause /\ y.continues = z.continues
  PROVE  Carries(x, y)
<1> DEFINE c == Cancelled(x.timer)
<1>1. PauseStale(x) = IF x.pause = "timed" THEN [x EXCEPT !.pause = "untimed", !.timer = c] ELSE x
  BY DEF PauseStale
<1> HIDE DEF c
<1>2. LET w == [x EXCEPT !.pause = "untimed", !.timer = c] IN
      w.status = x.status /\ w.pause = "untimed" /\ w.continues = x.continues
  BY DEF Run
<1>3. /\ y.status = x.status /\ y.continues = x.continues
      /\ y.pause = IF x.pause = "timed" THEN "untimed" ELSE x.pause
  BY <1>1, <1>2
<1>4. x.status = "paused" => x.status \notin Terminal /\ x.status # "absent"
  BY StatusFacts
<1> QED
  BY <1>3, <1>4 DEF Carries, Promised, Settled

\* A cancelled queued run.
LEMMA QueuedCancelledCarries ==
  ASSUME NEW x \in Run
  PROVE  Carries(x, QueuedCancelled(x))
<1>1. "cancelled" \in Terminal
  BY StatusFacts
<1>2. LeftAlone(Ended(x, "cancelled"), QueuedCancelled(x))
  BY <1>1, EndedFields, FieldLeftAlone DEF QueuedCancelled
<1> QED
  BY <1>1, <1>2, FieldLeftAlone, EndedCarries

-----------------------------------------------------------------------------
(* The actions.                                                             *)

\* One run is written.
LEMMA OneCarries ==
  ASSUME TypeOK, NEW r \in Runs, NEW y, Carries(runs[r], y), runs' = [runs EXCEPT ![r] = y]
  PROVE  CarriesAll
  BY FieldLeftAlone, LeftAloneCarries DEF TypeOK, CarriesAll

\* No run is written.
LEMMA SameCarries ==
  ASSUME TypeOK, runs' = runs
  PROVE  CarriesAll
  BY FieldLeftAlone, LeftAloneCarries DEF TypeOK, CarriesAll

\* What a new run is.
LEMMA CreatedFields ==
  ASSUME NEW t, NEW s
  PROVE  LET y == Created(t, s) IN
         y.status = "queued" /\ y.pause = "none" /\ y.continues = NoRun
  BY DEF Created, NoRunYet

\* Runs are created: by a send, which may end the pause it finds, a wake, a local
\* action.
LEMMA CreationCarries ==
  ASSUME TypeOK, NEW t \in Threads,
         \/ \E s \in Sends, behind \in BOOLEAN : Send(t, s, behind)
         \/ Wake(t) \/ LocalAction(t)
  PROVE  CarriesAll
<1>1. ASSUME NEW s \in Sends, NEW behind \in BOOLEAN, Send(t, s, behind)
      PROVE  CarriesAll
  <2>1. PICK n \in Runs :
          /\ Next1(n)
          /\ runs' = [r \in Runs |->
                IF r = n THEN Created(t, s)
                ELSE IF r \in PausedOn(t) /\ ~behind THEN PauseEnded(runs[r], "over") ELSE runs[r]]
    BY <1>1 DEF Send
  <2>2. Carries(runs[n], Created(t, s))
    BY <2>1, NewCarries, CreatedFields DEF Next1
  <2>3. \A r \in Runs : /\ r \in PausedOn(t) => Carries(runs[r], PauseEnded(runs[r], "over"))
                        /\ Carries(runs[r], runs[r])
    BY PauseEndedCarries, FieldLeftAlone, LeftAloneCarries DEF TypeOK, PausedOn
  <2> QED
    BY <2>1, <2>2, <2>3 DEF CarriesAll
<1>2. CASE Wake(t)
  <2> DEFINE c == Created(t, "wake")
             y == [c EXCEPT !.start = "pending"]
  <2>1. PICK n \in Runs : Next1(n) /\ runs' = [runs EXCEPT ![n] = y]
    BY <1>2 DEF Wake
  <2>2. "wake" \in Sources
    BY DEF Sources
  <2>3. c \in Run /\ c.status = "queued" /\ c.pause = "none" /\ c.continues = NoRun
    BY <2>2, CreatedType, CreatedFields DEF TypeOK
  <2> HIDE DEF c
  <2>4. LeftAlone(c, y)
    BY <2>3, FieldLeftAlone
  <2> HIDE DEF y
  <2>5. Carries(runs[n], y)
    BY <2>1, <2>3, <2>4, NewCarries DEF Next1, LeftAlone, Beside
  <2> QED
    BY <2>1, <2>5, OneCarries
<1>3. CASE LocalAction(t)
  <2>1. PICK n \in Runs : Next1(n) /\ runs' = [runs EXCEPT ![n] = Created(t, "undo")]
    BY <1>3 DEF LocalAction
  <2>2. Carries(runs[n], Created(t, "undo"))
    BY <2>1, NewCarries, CreatedFields DEF Next1
  <2> QED
    BY <2>1, <2>2, OneCarries
<1> QED
  BY <1>1, <1>2, <1>3

\* The writes of a turn's way to its start and of its effects leave pauses alone.
LEMMA PlainCarries ==
  ASSUME TypeOK, NEW r \in Runs,
         \/ \E queue \in BOOLEAN : SendPlaced(r, queue)
         \/ DrainQueue(r) \/ TurnStart(r) \/ LocalActionRefused(r) \/ StaleHook(r)
         \/ ToolCall(r) \/ StartDeadline(r) \/ RestartQueued(r) \/ InterruptStopped(r)
  PROVE  CarriesAll
<1> DEFINE x == runs[r]
<1>1. x \in Run
  BY DEF TypeOK
<1>2. ASSUME NEW y, LeftAlone(x, y), runs' = [runs EXCEPT ![r] = y]
      PROVE  CarriesAll
  BY <1>2, OneCarries, LeftAloneCarries
<1>3. \A a : /\ LeftAlone(x, [x EXCEPT !.start = a]) /\ LeftAlone(x, [x EXCEPT !.interrupt = a])
             /\ LeftAlone(x, [x EXCEPT !.viaQueue = a]) /\ LeftAlone(x, [x EXCEPT !.unsafe = a])
  BY <1>1, FieldLeftAlone
<1>4. ASSUME NEW queue \in BOOLEAN, SendPlaced(r, queue)
      PROVE  CarriesAll
  <2>1. CASE queue
    BY <1>2, <1>3, <1>4, <2>1 DEF SendPlaced
  <2>2. CASE ~queue
    BY <1>2, <1>3, <1>4, <2>2 DEF SendPlaced
  <2> QED
    BY <2>1, <2>2
<1>5. CASE DrainQueue(r) \/ TurnStart(r) \/ StartDeadline(r) \/ RestartQueued(r)
  BY <1>2, <1>3, <1>5 DEF DrainQueue, TurnStart, StartDeadline, RestartQueued
<1>6. CASE LocalActionRefused(r) \/ StaleHook(r)
  BY <1>6, SameCarries DEF LocalActionRefused, StaleHook
<1>7. CASE ToolCall(r)
  BY <1>2, <1>3, <1>7 DEF ToolCall
<1>8. CASE InterruptStopped(r)
  BY <1>2, <1>3, <1>8 DEF InterruptStopped, Interrupting
<1> QED
  BY <1>4, <1>5, <1>6, <1>7, <1>8

\* The end of a run: refused, failed, reported, lost or forced.
LEMMA EndCarries ==
  ASSUME TypeOK, NEW r \in Runs,
         \/ CancelQueued(r) \/ TurnStartRefused(r) \/ TurnStartCollides(r) \/ PreparationFails(r)
         \/ \E s \in {"finished", "interrupted"} : MarkTerminal(r, s)
         \/ TurnEnds(r) \/ InterruptSettles(r) \/ StaleRun(r) \/ ForcedInterrupt(r)
  PROVE  CarriesAll
<1> DEFINE x == runs[r]
           u == [x EXCEPT !.start = "none"]
           a == IF IsActive(r) THEN "done" ELSE "none"
           v == [x EXCEPT !.interrupt = a]
<1>1. x \in Run /\ u \in Run /\ v \in Run
  BY StartWrite, InterruptWrite DEF TypeOK, Keeps, Rewrites, StartState, InterruptState
<1>2. LeftAlone(x, x) /\ LeftAlone(x, u) /\ LeftAlone(x, v)
  BY <1>1, FieldLeftAlone
<1>3. \/ \E z \in {u, v} : runs' = [runs EXCEPT ![r] = z]
      \/ \E z \in {x, u, v}, s \in {"finished", "interrupted", "cancelled"} :
            runs' = [runs EXCEPT ![r] = Ended(z, s)]
  <2>1. CASE CancelQueued(r) \/ StaleRun(r) \/ ForcedInterrupt(r)
    BY <2>1 DEF CancelQueued, StaleRun, ForcedInterrupt
  <2>2. CASE \E s \in {"finished", "interrupted"} : MarkTerminal(r, s)
    BY <2>2 DEF MarkTerminal
  <2>3. CASE TurnStartRefused(r) \/ TurnStartCollides(r)
    BY <2>3 DEF TurnStartRefused, TurnStartCollides
  <2>4. CASE PreparationFails(r) \/ TurnEnds(r)
    BY <2>4 DEF PreparationFails, TurnEnds
  <2>5. CASE InterruptSettles(r)
    BY <2>5 DEF InterruptSettles
  <2> QED
    BY <2>1, <2>2, <2>3, <2>4, <2>5
<1>4. {"finished", "interrupted", "cancelled"} \subseteq Terminal
  BY StatusFacts
<1> HIDE DEF x, u, v
<1>5. \A z \in {x, u, v}, s \in Terminal : Carries(x, Ended(z, s))
  BY <1>1, <1>2, EndedFields, FieldLeftAlone, EndedCarries
<1>6. \A z \in {u, v} : Carries(x, z)
  BY <1>2, LeftAloneCarries
<1> QED
  BY <1>3, <1>4, <1>5, <1>6, OneCarries DEF x

\* A run that starts, or moves on.
LEMMA StartedFields ==
  ASSUME NEW x \in Run, generation \in [Threads -> Nat]
  PROVE  \A y \in {Started(x), Running(Started(x))} :
            y.status \in Active /\ y.pause = x.pause /\ y.continues = x.continues
<1> DEFINE g == IF x.source \in Fenced THEN x.gen ELSE generation[x.thread]
           b == Idle(x.start)
           y == Started(x)
<1>1. y \in Run /\ y.status = "starting"
  BY StartedType DEF Rewrites
<1>2. y = [x EXCEPT !.status = "starting", !.viaQueue = FALSE, !.start = b, !.gen = g]
  BY DEF Started
<1> HIDE DEF g, b, y
<1>3. y.pause = x.pause /\ y.continues = x.continues
  BY <1>2 DEF Run
<1>4. Running(y).status = "running" /\ Running(y).pause = y.pause /\ Running(y).continues = y.continues
  BY <1>1 DEF Running, Run
<1> QED
  BY <1>1, <1>3, <1>4, StatusFacts DEF y

\* A queued run starts, and a pause of its thread ends.
LEMMA StartCarries ==
  ASSUME TypeOK, NEW r \in Runs, MarkStarting(r) \/ LocalActionStarts(r)
  PROVE  CarriesAll
<1>1. runs[r].status = "queued" /\ runs[r].status \notin Terminal
  BY StatusFacts DEF MarkStarting, LocalActionStarts, MayStart
<1>2. /\ Carries(runs[r], Started(runs[r])) /\ Carries(runs[r], Running(Started(runs[r])))
  BY <1>1, StartedFields, MovedCarries DEF TypeOK
<1>3. \A q \in Runs : /\ q \in PausedOn(runs[r].thread) => Carries(runs[q], PauseEnded(runs[q], "over"))
                      /\ Carries(runs[q], runs[q])
  BY PauseEndedCarries, FieldLeftAlone, LeftAloneCarries DEF TypeOK, PausedOn
<1>4. ASSUME NEW x, Carries(runs[r], x), StartsAs(r, x)
      PROVE  CarriesAll
  <2>1. runs' = [q \in Runs |->
              IF q = r THEN x
              ELSE IF q \in PausedOn(runs[r].thread) THEN PauseEnded(runs[q], "over") ELSE runs[q]]
    BY <1>4 DEF StartsAs
  <2> QED
    BY <1>3, <1>4, <2>1 DEF CarriesAll
<1> QED
  BY <1>2, <1>4 DEF MarkStarting, LocalActionStarts

\* An active run moves on to another active status.
LEMMA ActiveCarries ==
  ASSUME TypeOK, NEW r \in Runs, MarkRunning(r) \/ MarkFinalizing(r)
  PROVE  CarriesAll
<1>1. PICK s \in {"running", "finalizing"} :
         IsActive(r) /\ runs' = [runs EXCEPT ![r] = [runs[r] EXCEPT !.status = s]]
  BY StatusFacts DEF MarkRunning, MarkFinalizing, Running, IsActive
<1> DEFINE y == [runs[r] EXCEPT !.status = s]
<1>2. y.status = s /\ y.pause = runs[r].pause /\ y.continues = runs[r].continues
  BY DEF TypeOK, Run
<1>3. s \in Active /\ runs[r].status \notin Terminal
  BY <1>1, StatusFacts DEF IsActive
<1> HIDE DEF y
<1>4. Carries(runs[r], y)
  BY <1>2, <1>3, MovedCarries
<1> QED
  BY <1>1, <1>4, OneCarries DEF y

\* A run is paused: with a time on it only together with its timer.
LEMMA PauseCarries ==
  ASSUME TypeOK, NEW r \in Runs, NEW timed \in BOOLEAN, Pause(r, timed)
  PROVE  CarriesAll
<1> DEFINE p == IF timed THEN "timed" ELSE "untimed"
           a == IF timed THEN "pending" ELSE runs[r].timer
           y == [runs[r] EXCEPT !.status = "paused", !.pause = p, !.timer = a]
           Quit(q) == [runs[q] EXCEPT !.timer = Cancelled(runs[q].timer), !.manual = Cancelled(runs[q].manual)]
<1>1. runs' = [q \in Runs |->
          IF q = r THEN y
          ELSE IF timed /\ q \in OfThread(runs[r].thread) /\ runs[q].status # "paused"
               THEN Quit(q) ELSE runs[q]]
  BY DEF Pause
<1>2. runs[r].status \notin Terminal /\ runs[r].status # "absent"
  BY StatusFacts DEF Pause, Pausable
<1>3. /\ y.status = "paused" /\ y.pause = p /\ y.continues = runs[r].continues
      /\ y.timer = a
  BY DEF TypeOK, Run
<1>4. Carries(runs[r], y)
  <2>1. p = "timed" => a = "pending"
    OBVIOUS
  <2>2. p # "resumed"
    OBVIOUS
  <2> HIDE DEF y, p, a
  <2>3. Promised(y)
    BY <1>3, <2>1 DEF Promised, Kept
  <2> QED
    BY <1>2, <1>3, <2>2, <2>3, StatusFacts DEF Carries, Settled
<1>5. ASSUME NEW q \in Runs, runs[q].status # "paused"
      PROVE  Carries(runs[q], Quit(q))
  <2> DEFINE c == Cancelled(runs[q].timer)
             d == Cancelled(runs[q].manual)
  <2>1. runs[q] \in Run
    BY DEF TypeOK
  <2>2. Quit(q) = [runs[q] EXCEPT !.timer = c, !.manual = d]
    OBVIOUS
  <2> HIDE DEF c, d
  <2>3. Beside(runs[q], [runs[q] EXCEPT !.timer = c, !.manual = d])
    BY <2>1 DEF Beside, Run
  <2> QED
    BY <1>5, <2>2, <2>3, BesideCarries
<1>6. \A q \in Runs : Carries(runs[q], runs[q])
  BY FieldLeftAlone, LeftAloneCarries DEF TypeOK
<1> HIDE DEF y, Quit
<1> QED
  BY <1>1, <1>4, <1>5, <1>6 DEF CarriesAll

\* Writing a timer, the other or the message of a run.
LEMMA TimerBeside ==
  ASSUME NEW x \in Run, NEW a, NEW b
  PROVE  /\ LET y == [x EXCEPT !.timer = a] IN
            Beside(x, y) /\ y.timer = a /\ y.manual = x.manual /\ y.item = x.item
         /\ LET y == [x EXCEPT !.manual = a] IN
            Beside(x, y) /\ y.timer = x.timer /\ y.manual = a /\ y.item = x.item
         /\ LET y == [x EXCEPT !.timer = a, !.item = b] IN
            Beside(x, y) /\ y.timer = a /\ y.manual = x.manual /\ y.item = b
         /\ LET y == [x EXCEPT !.manual = a, !.item = b] IN
            Beside(x, y) /\ y.timer = x.timer /\ y.manual = a /\ y.item = b
  BY DEF Beside, Run

\* A run's timer is claimed, executed or settled, and Resume now replaces it: what acted
\* is gone only when a message is there.
LEMMA LaneCarries ==
  ASSUME TypeOK, NEW r \in Runs,
         \/ ResumeNow(r)
         \/ \E k \in {"timer", "manual"} :
               TimerClaimed(r, k) \/ TimerFindsPauseEnded(r, k) \/ TimerSettles(r, k)
  PROVE  CarriesAll
<1> DEFINE x == runs[r]
<1>1. x \in Run
  BY DEF TypeOK
<1>2. ASSUME NEW y, Beside(x, y), x.status = "paused" /\ Promised(x) => Promised(y), runs' = [runs EXCEPT ![r] = y]
      PROVE  CarriesAll
  BY <1>2, OneCarries, BesideCarries
<1>3. CASE ResumeNow(r)
  <2> DEFINE c == Cancelled(x.timer)
             y == [x EXCEPT !.timer = c, !.manual = "pending"]
  <2>1. runs' = [runs EXCEPT ![r] = y]
    BY <1>1, <1>3 DEF ResumeNow, TypeOK, Run
  <2> HIDE DEF x, c
  <2>2. Beside(x, y) /\ y.manual = "pending"
    BY <1>1 DEF Beside, Run
  <2> HIDE DEF y
  <2>3. Promised(y)
    BY <2>2 DEF Promised, Kept
  <2> QED
    BY <1>2, <2>1, <2>2, <2>3 DEF x
<1>4. ASSUME NEW k \in {"timer", "manual"}, NEW a, runs' = [runs EXCEPT ![r][k] = a],
             \/ x[k] = "running"
             \/ a = "claimed"
      PROVE  CarriesAll
  <2>1. CASE k = "timer"
    <3> DEFINE y == [x EXCEPT !.timer = a]
    <3>1. runs' = [runs EXCEPT ![r] = y] /\ (x.timer = "running" \/ a = "claimed")
      BY <1>4, <2>1
    <3> HIDE DEF x
    <3>2. Beside(x, y) /\ y.timer = a /\ y.manual = x.manual /\ y.item = x.item
      BY <1>1, TimerBeside, ZenonT(40)
    <3> HIDE DEF y
    <3>3. Promised(x) => Promised(y)
      BY <3>1, <3>2 DEF Promised, Kept, Beside
    <3> QED
      BY <1>2, <3>1, <3>2, <3>3 DEF x
  <2>2. CASE k = "manual"
    <3> DEFINE y == [x EXCEPT !.manual = a]
    <3>1. runs' = [runs EXCEPT ![r] = y] /\ (x.manual = "running" \/ a = "claimed")
      BY <1>4, <2>2
    <3> HIDE DEF x
    <3>2. Beside(x, y) /\ y.timer = x.timer /\ y.manual = a /\ y.item = x.item
      BY <1>1, TimerBeside
    <3> HIDE DEF y
    <3>3. Promised(x) => Promised(y)
      BY <3>1, <3>2 DEF Promised, Kept, Beside
    <3> QED
      BY <1>2, <3>1, <3>2, <3>3 DEF x
  <2> QED
    BY <2>1, <2>2
<1>5. ASSUME NEW k \in {"timer", "manual"}, TimerClaimed(r, k) \/ TimerSettles(r, k)
      PROVE  CarriesAll
  BY <1>4, <1>5 DEF TimerClaimed, TimerSettles
<1>6. ASSUME NEW k \in {"timer", "manual"}, TimerFindsPauseEnded(r, k)
      PROVE  CarriesAll
  <2> DEFINE i == IF x.pause = "resumed" THEN x.item ELSE "none"
  <2>1. runs' = [runs EXCEPT ![r] = [x EXCEPT ![k] = "running", !.item = i]] /\ x.status # "paused"
    BY <1>6 DEF TimerFindsPauseEnded
  <2> HIDE DEF x, i
  <2>2. CASE k = "timer"
    <3> DEFINE y == [x EXCEPT !.timer = "running", !.item = i]
    <3>1. runs' = [runs EXCEPT ![r] = y]
      BY <2>1, <2>2
    <3>2. Beside(x, y)
      BY <1>1, TimerBeside
    <3> HIDE DEF y
    <3> QED
      BY <1>2, <2>1, <3>1, <3>2 DEF x
  <2>3. CASE k = "manual"
    <3> DEFINE y == [x EXCEPT !.manual = "running", !.item = i]
    <3>1. runs' = [runs EXCEPT ![r] = y]
      BY <2>1, <2>3
    <3>2. Beside(x, y)
      BY <1>1, TimerBeside
    <3> HIDE DEF y
    <3> QED
      BY <1>2, <2>1, <3>1, <3>2 DEF x
  <2> QED
    BY <2>2, <2>3
<1> QED
  BY <1>3, <1>5, <1>6

\* A timer fires: it leaves its message or fails for all to see.  A stale one takes the
\* time off the pause.  Waiting wakes are dropped.
LEMMA TimerCarries ==
  ASSUME TypeOK, NEW r \in Runs,
         (\E k \in {"timer", "manual"} : TimerFires(r, k)) \/ TimerStale(r)
  PROVE  CarriesAll
<1>1. \A q \in Runs : runs[q] \in Run /\ Carries(runs[q], runs[q])
  BY FieldLeftAlone, LeftAloneCarries DEF TypeOK
<1>2. ASSUME NEW q \in Runs
      PROVE  Carries(runs[q], WakeDropped(runs[q]))
  BY <1>1, QueuedCancelledCarries, FieldLeftAlone, LeftAloneCarries DEF WakeDropped
<1>3. ASSUME NEW k \in {"timer", "manual"}, TimerFires(r, k)
      PROVE  CarriesAll
  <2>1. PICK written \in BOOLEAN : runs' = ResumePrepared(r, k, written)
    BY <1>3 DEF TimerFires
  <2> DEFINE a == IF written THEN "running" ELSE "failed"
             i == IF ~written THEN runs[r].item ELSE IF k = "manual" THEN "now"
                  ELSE IF runs[r].item = "none" THEN "auto" ELSE runs[r].item
             y == [runs[r] EXCEPT ![k] = a, !.item = i]
  <2>2. runs' = [q \in Runs |->
           IF q = r THEN y
           ELSE IF q \in WaitingWakes(runs[r].thread) THEN WakeDropped(runs[q]) ELSE runs[q]]
    BY <2>1 DEF ResumePrepared
  <2>3. a = "failed" \/ i # "none"
    OBVIOUS
  <2> DEFINE x == runs[r]
  <2>4. Carries(x, y)
    <3>3. x \in Run
      BY <1>1
    <3> HIDE DEF a, i, x
    <3>1. CASE k = "timer"
      <4>1. y = [x EXCEPT !.timer = a, !.item = i]
        BY <3>1 DEF x
      <4>2. LET w == [x EXCEPT !.timer = a, !.item = i] IN
            Beside(x, w) /\ w.timer = a /\ w.item = i
        BY <3>3 DEF Beside, Run
      <4> HIDE DEF y
      <4>3. Promised(y)
        BY <2>3, <4>1, <4>2 DEF Promised, Kept
      <4> QED
        BY <4>1, <4>2, <4>3, BesideCarries
    <3>2. CASE k = "manual"
      <4>1. y = [x EXCEPT !.manual = a, !.item = i]
        BY <3>2 DEF x
      <4>2. LET w == [x EXCEPT !.manual = a, !.item = i] IN
            Beside(x, w) /\ w.manual = a /\ w.item = i
        BY <3>3 DEF Beside, Run
      <4> HIDE DEF y
      <4>3. Promised(y)
        BY <2>3, <4>1, <4>2 DEF Promised, Kept
      <4> QED
        BY <4>1, <4>2, <4>3, BesideCarries
    <3> QED
      BY <3>1, <3>2
  <2> HIDE DEF y
  <2> QED
    BY <1>1, <1>2, <2>2, <2>4 DEF CarriesAll
<1>4. CASE TimerStale(r)
  <2> DEFINE z == PauseStale(runs[r])
             y == [z EXCEPT !.timer = "running", !.item = "none"]
  <2>1. runs' = [runs EXCEPT ![r] = y] /\ runs[r].status = "paused"
    BY <1>4 DEF TimerStale
  <2>2. z \in Run
    BY <1>1, PauseStaleType DEF Keeps, Rewrites
  <2> HIDE DEF z
  <2>3. Beside(z, y)
    BY <2>2, TimerBeside
  <2> HIDE DEF y
  <2>4. Carries(runs[r], y)
    BY <1>1, <2>1, <2>3, PauseStaleCarries DEF Beside, z
  <2> QED
    BY <2>1, <2>4, OneCarries
<1> QED
  BY <1>3, <1>4

\* A pause is cancelled, or its run stopped.
LEMMA RunStopCarries ==
  ASSUME TypeOK, NEW r \in Runs, CancelPause(r) \/ StopRun(r)
  PROVE  CarriesAll
<1>1. runs[r] \in Run
  BY DEF TypeOK
<1>2. CASE CancelPause(r)
  BY <1>1, <1>2, PauseEndedCarries, OneCarries DEF CancelPause
<1>3. CASE StopRun(r) /\ IsActive(r)
  <2>1. Carries(runs[r], StopNoted(runs[r]))
    BY <1>1, FieldLeftAlone, LeftAloneCarries DEF StopNoted
  <2> QED
    BY <1>3, <2>1, OneCarries DEF StopRun
<1>4. CASE StopRun(r) /\ ~IsActive(r)
  BY <1>1, <1>4, PauseEndedCarries, OneCarries DEF StopRun
<1> QED
  BY <1>2, <1>3, <1>4

\* The Stop of a subtree.
LEMMA StopThreadCarries ==
  ASSUME TypeOK, NEW t \in Threads, NEW clear \in BOOLEAN, StopThread(t, clear)
  PROVE  CarriesAll
<1>1. \A q \in Runs : runs[q] \in Run /\ Carries(runs[q], runs[q])
  BY FieldLeftAlone, LeftAloneCarries DEF TypeOK
<1>2. ASSUME NEW x \in Run
      PROVE  LeftAlone(x, Interrupting(x)) /\ LeftAlone(x, Interrupting(StopNoted(x)))
  <2>1. ASSUME NEW z \in Run
        PROVE  LeftAlone(z, Interrupting(z))
    <3> DEFINE a == IF z.interrupt \in Live THEN z.interrupt ELSE "pending"
    <3>1. Interrupting(z) = [z EXCEPT !.interrupt = a]
      BY DEF Interrupting
    <3> HIDE DEF a
    <3> QED
      BY <3>1, FieldLeftAlone
  <2>2. StopNoted(x) \in Run
    BY NotedType DEF Keeps, Rewrites
  <2>3. LeftAlone(x, StopNoted(x))
    BY FieldLeftAlone DEF StopNoted
  <2> QED
    BY <2>1, <2>2, <2>3 DEF LeftAlone, Beside
<1>3. ASSUME NEW q \in Runs
      PROVE  Carries(runs[q], StoppedBy(q, clear))
  <2>1. CASE runs[q].status = "paused"
    BY <1>1, <2>1, PauseEndedCarries DEF StoppedBy
  <2>2. CASE runs[q].status # "paused"
    <3>1. StoppedBy(q, clear) \in {QueuedCancelled(runs[q]), Interrupting(runs[q]),
                                   Interrupting(StopNoted(runs[q])), runs[q]}
      BY <2>2 DEF StoppedBy
    <3> QED
      BY <1>1, <1>2, <3>1, QueuedCancelledCarries, LeftAloneCarries
  <2> QED
    BY <2>1, <2>2
<1>4. \A q \in Runs : runs'[q] \in {StoppedBy(q, clear), runs[q]}
  BY DEF StopThread
<1> QED
  BY <1>1, <1>3, <1>4 DEF CarriesAll

\* A turn.start abandoned at shutdown.
LEMMA AbandonedCarries ==
  ASSUME NEW x \in Run
  PROVE  Carries(x, Abandoned(x))
<1>1. "interrupted" \in Terminal
  BY StatusFacts
<1>2. Ended(x, "interrupted") \in Run
  BY <1>1, EndedFields
<1>3. Carries(x, [Ended(x, "interrupted") EXCEPT !.start = "none"])
  BY <1>1, <1>2, FieldLeftAlone, EndedCarries
<1>4. Carries(x, [x EXCEPT !.start = "none"]) /\ Carries(x, [x EXCEPT !.start = "dead"])
  BY FieldLeftAlone, LeftAloneCarries
<1>5. Abandoned(x) \in {[x EXCEPT !.start = "none"], [x EXCEPT !.start = "dead"],
                        [Ended(x, "interrupted") EXCEPT !.start = "none"]}
  BY DEF Abandoned
<1> QED
  BY <1>3, <1>4, <1>5

\* What boot does to a run: a timer that was claimed or executing waits again, and the
\* time of a pause stays covered.
LEMMA RecoveredCarries ==
  ASSUME NEW x \in Run
  PROVE  Carries(x, Recovered(x))
<1> DEFINE y == EffectsRecovered(x)
           u == IF ~ended /\ x.unsafe THEN "uncertain" ELSE "interrupted"
           open == (x.status = "queued" /\ x.source = "wake") \/ Orphaned(x)
           a == IF x.start \notin Live THEN x.start ELSE IF x.status = "queued" THEN "dead" ELSE "none"
           b == IF x.interrupt \in Live THEN "none" ELSE x.interrupt
           c == IF x.timer \in InLane THEN "pending" ELSE x.timer
           d == IF x.manual \in InLane THEN "pending" ELSE x.manual
<1>1. Recovered(x) = CASE x.status \in Active -> Ended(y, u) [] open -> Ended(y, "cancelled") [] OTHER -> y
  BY DEF Recovered
<1>2. open => x.status \notin Active
  BY StatusFacts DEF Orphaned
<1>3. u \in Terminal /\ "cancelled" \in Terminal
  BY StatusFacts
<1>4. y = [x EXCEPT !.start = a, !.interrupt = b, !.timer = c, !.manual = d]
  BY DEF EffectsRecovered
<1>5. /\ x.timer \in {"pending", "claimed", "failed"} => c \in {"pending", "claimed", "failed"}
      /\ x.manual \in {"pending", "claimed", "failed"} => d \in {"pending", "claimed", "failed"}
  OBVIOUS
<1>6. y \in Run
  BY EffectsRecoveredType DEF Keeps, Rewrites
<1> HIDE DEF y, u, open, a, b, c, d
<1>7. Beside(x, y) /\ y.item = x.item /\ y.timer = c /\ y.manual = d
  BY <1>4 DEF Beside, Run
<1>8. Carries(x, y)
  <2>1. Kept(x) => Kept(y)
    BY <1>5, <1>7 DEF Kept
  <2> QED
    BY <1>7, <2>1, BesideCarries DEF Promised, Beside
<1>9. ASSUME NEW s \in Terminal
      PROVE  Carries(x, Ended(y, s))
  <2>1. Ended(y, s).status = s /\ Ended(y, s).pause = x.pause /\ Ended(y, s).continues = x.continues
    BY <1>6, <1>7, EndedFields DEF Beside
  <2> QED
    BY <2>1, MovedCarries
<1> QED
  BY <1>1, <1>2, <1>3, <1>8, <1>9

\* Crash, drained stop and boot.
LEMMA DaemonCarries ==
  ASSUME TypeOK, Crash \/ Shutdown \/ Boot
  PROVE  CarriesAll
<1>1. \A q \in Runs : /\ Carries(runs[q], runs[q]) /\ Carries(runs[q], Abandoned(runs[q]))
                      /\ Carries(runs[q], Recovered(runs[q]))
  BY AbandonedCarries, RecoveredCarries, FieldLeftAlone, LeftAloneCarries DEF TypeOK
<1>2. \/ runs' = runs
      \/ \A q \in Runs : runs'[q] \in {runs[q], Abandoned(runs[q])}
      \/ \A q \in Runs : runs'[q] = Recovered(runs[q])
  BY DEF Crash, Shutdown, Boot
<1> QED
  BY <1>1, <1>2 DEF CarriesAll

-----------------------------------------------------------------------------
(* The admission of a continuation.                                         *)

\* The pause of r ends as resumed, and the new run n continues r.
HandsOver(r, n) ==
    /\ n # r /\ runs[r].status = "paused" /\ runs[n].status = "absent"
    /\ runs'[r].status \in Terminal /\ runs'[r].pause = "resumed" /\ runs'[r].continues = runs[r].continues
    /\ runs'[n].status = "queued" /\ runs'[n].pause = "none" /\ runs'[n].continues = r
    /\ \A q \in Runs \ {r, n} : runs'[q] = runs[q]

\* The continue message is drained: the pause is handed over, or shows no time any more,
\* or is over and only the message is retired.
LEMMA AdmitResumeHands ==
  ASSUME TypeOK, NEW r \in Runs, AdmitResume(r)
  PROVE  CarriesAll \/ \E n \in Runs : HandsOver(r, n)
<1> DEFINE gone == [runs[r] EXCEPT !.item = "none"]
           late == [PauseStale(runs[r]) EXCEPT !.item = "none"]
           over == [PauseEnded(runs[r], "resumed") EXCEPT !.item = "none"]
           c == Created(runs[r].thread, "resume")
           next == [c EXCEPT !.viaQueue = TRUE, !.start = "pending", !.continues = r]
<1>1. \/ \E n \in Runs : Resumable(r) /\ Next1(n) /\ runs' = [runs EXCEPT ![r] = over, ![n] = next]
      \/ runs[r].status = "paused" /\ runs' = [runs EXCEPT ![r] = late]
      \/ ~Resumable(r) /\ runs' = [runs EXCEPT ![r] = gone]
  BY DEF AdmitResume
<1>2. runs[r] \in Run /\ runs[r].thread \in Threads
  BY DEF TypeOK, Run
<1>3. CASE \E n \in Runs : Resumable(r) /\ Next1(n) /\ runs' = [runs EXCEPT ![r] = over, ![n] = next]
  <2>1. PICK n \in Runs : Resumable(r) /\ Next1(n) /\ runs' = [runs EXCEPT ![r] = over, ![n] = next]
    BY <1>3
  <2>2. over.status \in Terminal /\ over.continues = runs[r].continues /\ over.pause = "resumed"
    BY <1>2, PauseEndedFields
  <2>3. c \in Run /\ c.status = "queued" /\ c.pause = "none"
    BY <1>2, CreatedType, CreatedFields DEF TypeOK, Sources
  <2> HIDE DEF over, c
  <2>4. next.status = "queued" /\ next.pause = "none" /\ next.continues = r
    BY <2>3 DEF Run
  <2> HIDE DEF next
  <2>5. n # r /\ runs[r].status = "paused" /\ runs[n].status = "absent"
    BY <2>1, StatusFacts DEF Next1, Resumable
  <2>6. \A q \in Runs : runs'[q] = IF q = n THEN next ELSE IF q = r THEN over ELSE runs[q]
    BY <2>1, <2>5 DEF TypeOK
  <2>7. HandsOver(r, n)
    BY <2>2, <2>4, <2>5, <2>6 DEF HandsOver
  <2> QED
    BY <2>7
<1>4. CASE runs[r].status = "paused" /\ runs' = [runs EXCEPT ![r] = late]
  <2> DEFINE z == PauseStale(runs[r])
  <2>1. z \in Run
    BY <1>2, PauseStaleType DEF Keeps, Rewrites
  <2> HIDE DEF z
  <2>2. LET y == [z EXCEPT !.item = "none"] IN y.status = z.status /\ y.pause = z.pause /\ y.continues = z.continues
    BY <2>1 DEF Run
  <2>3. Carries(runs[r], late)
    BY <1>2, <1>4, <2>2, PauseStaleCarries DEF z
  <2> HIDE DEF late
  <2> QED
    BY <1>4, <2>3, OneCarries
<1>5. CASE ~Resumable(r) /\ runs' = [runs EXCEPT ![r] = gone]
  <2>1. Beside(runs[r], gone)
    BY <1>2 DEF Beside, Run
  <2> HIDE DEF gone
  <2>2. Carries(runs[r], gone)
    BY <1>5, <2>1, BesideCarries DEF Resumable
  <2> QED
    BY <1>5, <2>2, OneCarries
<1> QED
  BY <1>1, <1>3, <1>4, <1>5

\* Every step changes every run as stated, or hands a pause over.
LEMMA NextResume ==
  ASSUME TypeOK, Next
  PROVE  CarriesAll \/ \E r, n \in Runs : HandsOver(r, n)
<1>1. ASSUME NEW t \in Threads,
             \/ \E s \in Sends, behind \in BOOLEAN : Send(t, s, behind)
             \/ Wake(t)
             \/ LocalAction(t)
             \/ \E clear \in BOOLEAN : StopThread(t, clear)
      PROVE  CarriesAll
  BY <1>1, CreationCarries, StopThreadCarries
<1>2. ASSUME NEW r \in Runs,
             \/ \E queue \in BOOLEAN : SendPlaced(r, queue)
             \/ DrainQueue(r) \/ TurnStart(r) \/ LocalActionRefused(r) \/ StaleHook(r)
             \/ ToolCall(r) \/ StartDeadline(r) \/ RestartQueued(r) \/ InterruptStopped(r)
      PROVE  CarriesAll
  BY <1>2, PlainCarries
<1>3. ASSUME NEW r \in Runs,
             \/ CancelQueued(r) \/ TurnStartRefused(r) \/ TurnStartCollides(r) \/ PreparationFails(r)
             \/ \E s \in {"finished", "interrupted"} : MarkTerminal(r, s)
             \/ TurnEnds(r) \/ InterruptSettles(r) \/ StaleRun(r) \/ ForcedInterrupt(r)
      PROVE  CarriesAll
  BY <1>3, EndCarries
<1>4. ASSUME NEW r \in Runs,
             \/ MarkStarting(r) \/ LocalActionStarts(r)
             \/ MarkRunning(r) \/ MarkFinalizing(r)
             \/ \E timed \in BOOLEAN : Pause(r, timed)
             \/ CancelPause(r) \/ StopRun(r)
      PROVE  CarriesAll
  BY <1>4, StartCarries, ActiveCarries, PauseCarries, RunStopCarries
<1>5. ASSUME NEW r \in Runs,
             \/ ResumeNow(r)
             \/ \E k \in {"timer", "manual"} :
                   TimerClaimed(r, k) \/ TimerFires(r, k) \/ TimerFindsPauseEnded(r, k) \/ TimerSettles(r, k)
             \/ TimerStale(r)
      PROVE  CarriesAll
  BY <1>5, LaneCarries, TimerCarries
<1>6. ASSUME Crash \/ Shutdown \/ Boot
      PROVE  CarriesAll
  BY <1>6, DaemonCarries
<1> QED
  BY <1>1, <1>2, <1>3, <1>4, <1>5, <1>6, AdmitResumeHands DEF Next

-----------------------------------------------------------------------------
(* The invariant, and what follows from it.                                 *)

\* The runs that continue r.
Continuations(r) == {n \in Runs : runs[n].continues = r}

\* A pause that was handed over has one of them, any other run none.
Handed(r) ==
    IF runs[r].pause = "resumed" THEN \E n \in Runs : Continuations(r) = {n}
    ELSE Continuations(r) = {}

ResumeInv ==
    /\ \A r \in Runs : Promised(runs[r])
    /\ \A r \in Runs : Settled(runs[r])
    /\ \A r \in Runs : Handed(r)

\* Such steps leave the continuations as they are.
LEMMA CarriesInv ==
  ASSUME ResumeInv, CarriesAll
  PROVE  ResumeInv'
<1>1. ASSUME NEW q \in Runs
      PROVE  /\ Promised(runs'[q]) /\ Settled(runs'[q])
             /\ runs'[q].continues = runs[q].continues
             /\ runs'[q].pause = "resumed" <=> runs[q].pause = "resumed"
  BY DEF ResumeInv, CarriesAll, Carries
<1>2. ASSUME NEW r \in Runs
      PROVE  Handed(r)'
  <2>1. Continuations(r)' = Continuations(r)
    BY <1>1 DEF Continuations
  <2>2. Handed(r)
    BY DEF ResumeInv
  <2> QED
    BY <1>1, <2>1, <2>2 DEF Handed
<1>3. /\ \A r \in Runs : Promised(runs[r])'
      /\ \A r \in Runs : Settled(runs[r])'
  BY <1>1 DEF Promised, Kept, Settled
<1> QED
  BY <1>2, <1>3 DEF ResumeInv

\* The admission gives the pause its one continuation: the run was paused, so that it had
\* none, and the new run continued nothing.
LEMMA HandsOverInv ==
  ASSUME ResumeInv, NEW r \in Runs, NEW n \in Runs, HandsOver(r, n)
  PROVE  ResumeInv'
<1>1. Settled(runs[r]) /\ Settled(runs[n]) /\ Handed(r) /\ Handed(n)
  BY DEF ResumeInv
<1>2. runs[r].pause # "resumed" /\ runs[n].continues = NoRun /\ runs[n].pause # "resumed"
  BY <1>1, StatusFacts DEF HandsOver, Settled
<1>3. ASSUME NEW q \in Runs
      PROVE  Promised(runs[q])' /\ Settled(runs[q])'
  <2>1. CASE q \notin {r, n}
    BY <2>1 DEF HandsOver, ResumeInv, Promised, Kept, Settled
  <2>2. CASE q \in {r, n}
    BY <2>2, StatusFacts DEF HandsOver, Promised, Settled
  <2> QED
    BY <2>1, <2>2
<1>4. Continuations(r)' = {n}
  <2>1. Continuations(r) = {}
    BY <1>1, <1>2 DEF Handed
  <2> QED
    BY <2>1 DEF Continuations, HandsOver
<1>5. ASSUME NEW q \in Runs \ {r}
      PROVE  Continuations(q)' = Continuations(q)
  <2>1. q # NoRun
    BY RunAssumption DEF Runs, NoRun
  <2> QED
    BY <1>2, <2>1 DEF Continuations, HandsOver
<1>6. ASSUME NEW q \in Runs
      PROVE  Handed(q)'
  <2>1. CASE q = r
    BY <1>4, <2>1 DEF Handed, HandsOver
  <2>2. CASE q # r
    <3>1. runs'[q].pause = "resumed" <=> runs[q].pause = "resumed"
      BY <1>2, <2>2 DEF HandsOver
    <3>2. Handed(q)
      BY DEF ResumeInv
    <3> QED
      BY <1>5, <2>2, <3>1, <3>2 DEF Handed
  <2> QED
    BY <2>1, <2>2
<1> QED
  BY <1>3, <1>6 DEF ResumeInv

\* The invariant holds in every reachable state.
LEMMA AlwaysResumeInv == Spec => []ResumeInv
<1>1. Init => ResumeInv
  <2> SUFFICES ASSUME Init PROVE ResumeInv
    OBVIOUS
  <2>1. \A r \in Runs : runs[r] = NoRunYet
    BY DEF Init
  <2>2. NoRunYet.pause = "none" /\ NoRunYet.continues = NoRun /\ NoRunYet.status = "absent"
    BY DEF NoRunYet
  <2>3. \A r \in Runs : r # NoRun
    BY RunAssumption DEF Runs, NoRun
  <2> QED
    BY <2>1, <2>2, <2>3 DEF ResumeInv, Promised, Settled, Handed, Continuations
<1>2. RunInv /\ ResumeInv /\ [Next]_vars => ResumeInv'
  <2> SUFFICES ASSUME RunInv, ResumeInv, [Next]_vars PROVE ResumeInv'
    OBVIOUS
  <2>1. CASE Next
    BY <2>1, NextResume, CarriesInv, HandsOverInv DEF RunInv
  <2>2. CASE UNCHANGED vars
    BY <2>2 DEF vars, ResumeInv, Promised, Kept, Settled, Handed, Continuations
  <2> QED
    BY <2>1, <2>2
<1> QED
  BY <1>1, <1>2, AlwaysRunInv, PTL DEF Spec

\* A paused run that shows a time has a timer, a message or a visible failure: pauseRun,
\* Resume now, the resume executor on every attempt, a stale timer, the drain of the
\* message and boot each leave one, or take the time off the pause.
THEOREM PausePromiseKept == Spec => []PausePromise
<1>1. ResumeInv => PausePromise
  BY DEF ResumeInv, Promised, Kept, PausePromise, InLane, Live
<1> QED
  BY <1>1, AlwaysResumeInv, PTL

\* A pause is continued by exactly one run, and only one that ended as resumed is:
\* commitSend creates the continuation and ends the pause in one transaction.
THEOREM OneContinuation == Spec => []HandedOverOnce
<1>1. ASSUME ResumeInv, NEW r \in Runs
      PROVE  Cardinality({n \in Runs : runs[n].continues = r}) = IF runs[r].pause = "resumed" THEN 1 ELSE 0
  <2>1. Handed(r)
    BY <1>1 DEF ResumeInv
  <2>2. CASE runs[r].pause = "resumed"
    <3>1. PICK n \in Runs : Continuations(r) = {n}
      BY <2>1, <2>2 DEF Handed
    <3> QED
      BY <2>2, <3>1, FS_Singleton DEF Continuations
  <2>3. CASE runs[r].pause # "resumed"
    BY <2>1, <2>3, FS_EmptySet DEF Handed, Continuations
  <2> QED
    BY <2>2, <2>3
<1>2. ResumeInv => HandedOverOnce
  BY <1>1 DEF HandedOverOnce
<1> QED
  BY <1>2, AlwaysResumeInv, PTL
=============================================================================
