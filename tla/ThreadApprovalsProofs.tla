------------------------ MODULE ThreadApprovalsProofs ------------------------
(* An allow runs one call, a Stop ends what was asked before it, every card   *)
(* can be answered and a dead run is continued once, for any number of        *)
(* requests, runs, Stops and restarts.                                        *)
EXTENDS ThreadApprovals, FiniteSetTheorems, TLAPS

\* What a request has done and may still do: the call it allows runs once, by its waiting
\* provider or by a grant.
Sound(x, w, n) ==
    /\ n <= 1
    /\ x.status = "pending" => x.bound = 0 /\ ~x.delivered /\ ~x.spent /\ w # "settled"
    /\ x.status # "answered" => x.decision = "none"
    /\ w # "none" => x.path = "live" /\ n = 0
    /\ ~x.delivered => n = 0 /\ x.bound = 0
    /\ x.bound # 0 /\ x.decision = "allow" => x.path = "continue"
    /\ x.bound # 0 /\ x.decision = "allow" /\ ~x.spent => n = 0

\* A request and its run.
Fits(x, w, y) ==
    /\ y.status # "queued"
    /\ x.path = "continue" => y.status \in Dead
    /\ x.status = "pending" /\ x.path = "live" => w = "asked" /\ y.status = "active"
    /\ x.status = "answered" /\ ~x.delivered /\ x.path = "live" => y.status \notin Dead

\* A request that a Stop has closed.
Over(x, y) ==
    /\ x.status # "pending"
    /\ ~(y.status = "active" /\ ~y.aborted)
    /\ x.decision = "allow" => x.delivered /\ (x.bound = 0 \/ x.spent)

AllSound == \A r \in DOMAIN rows : Sound(rows[r], waiter[r], acts[r])
AllFit == \A r \in DOMAIN rows : Fits(rows[r], waiter[r], runs[rows[r].run])
AllOver == \A r \in voided : Over(rows[r], runs[rows[r].run])
StopSeen == stopping => \A i \in DOMAIN runs : runs[i].status = "active" => runs[i].aborted

\* The answers of a dead run are complete, and those that no turn was given are ids.
Complete(db, a, ids) ==
    \A r \in DOMAIN db : db[r].run = a => db[r].status # "pending" /\ (r \in Undelivered(db) => r \in ids)

Prepared(d) ==
    /\ runs[d.of].status \in Dead
    /\ \A r \in d.ids : rows[r].path = "continue"
    /\ Complete(rows, d.of, d.ids)
AllPrepared == \A d \in due : Prepared(d)

\* A run that continues another is the only one, and has all of its answers.
Continues(i) ==
    LET a == runs[i].continues IN
    a # 0 => /\ a \in DOMAIN runs /\ runs[a].status \in Dead
             /\ \A j \in DOMAIN runs : runs[j].continues = a => j = i
             /\ Complete(rows, a, {})
AllContinue == \A i \in DOMAIN runs : Continues(i)

Inv == TypeOK /\ AllSound /\ AllFit /\ AllOver /\ StopSeen /\ AllPrepared /\ AllContinue

-----------------------------------------------------------------------------
(* Sequences, rows and runs.                                                 *)

\* What append does to a sequence.
LEMMA AppendFacts ==
  ASSUME NEW S, NEW w \in Seq(S), NEW e \in S
  PROVE  /\ Append(w, e) \in Seq(S) /\ Len(Append(w, e)) = Len(w) + 1 /\ Len(w) \in Nat
         /\ DOMAIN Append(w, e) = DOMAIN w \cup {Len(w) + 1} /\ Len(w) + 1 \notin DOMAIN w
         /\ \A i \in DOMAIN w : Append(w, e)[i] = w[i]
         /\ Append(w, e)[Len(w) + 1] = e
  OBVIOUS

\* What map does to a sequence.
LEMMA MapFacts ==
  ASSUME NEW S, NEW T, NEW w \in Seq(S), NEW f \in [DOMAIN w -> T]
  PROVE  f \in Seq(T) /\ Len(f) = Len(w) /\ DOMAIN f = DOMAIN w
<1>1. DOMAIN w = 1 .. Len(w) /\ Len(w) \in Nat
  OBVIOUS
<1>2. f \in [1 .. Len(w) -> T]
  BY <1>1
<1> QED
  BY <1>1, <1>2

\* What a step may do to a row, and to a run.
RowStep(x, y) ==
    /\ y.run = x.run
    /\ x.status # "pending" => y.status = x.status /\ y.decision = x.decision
    /\ x.path = "continue" => y.path = "continue"
    /\ x.delivered => y.delivered /\ y.bound = x.bound
    /\ x.spent => y.spent

RunStep(x, y) ==
    /\ y.continues = x.continues
    /\ x.aborted => y.aborted
    /\ x.status # "queued" => y.status # "queued"
    /\ x.status \notin {"queued", "active"} => y.status = x.status

Grows ==
    /\ DOMAIN rows \subseteq DOMAIN rows' /\ DOMAIN runs \subseteq DOMAIN runs'
    /\ \A r \in DOMAIN rows : RowStep(rows[r], rows'[r])
    /\ \A r \in DOMAIN rows' \ DOMAIN rows : runs'[rows'[r].run].status = "active"
    /\ \A i \in DOMAIN runs : RunStep(runs[i], runs'[i])

\* The answers of a dead run stay complete.
LEMMA CompleteKept ==
  ASSUME Grows, NEW a \in DOMAIN runs, runs[a].status \in Dead, NEW ids, Complete(rows, a, ids)
  PROVE  Complete(rows', a, ids) /\ runs'[a].status \in Dead
<1>1. runs'[a].status = runs[a].status
  BY DEF Grows, RunStep, Dead
<1> SUFFICES ASSUME NEW r \in DOMAIN rows', rows'[r].run = a
             PROVE  rows'[r].status # "pending" /\ (r \in Undelivered(rows') => r \in ids)
  BY <1>1 DEF Complete
<1>2. r \in DOMAIN rows
  BY <1>1 DEF Grows, Dead
<1>3. rows[r].run = a /\ RowStep(rows[r], rows'[r])
  BY <1>2 DEF Grows, RowStep
<1>4. rows[r].status # "pending" /\ (r \in Undelivered(rows) => r \in ids)
  BY <1>2, <1>3 DEF Complete
<1> QED
  BY <1>2, <1>3, <1>4 DEF RowStep, Undelivered

\* So what a Stop has closed stays closed.
LEMMA OverKept ==
  ASSUME Inv, TypeOK', Grows, voided' = voided
  PROVE  AllOver'
<1> SUFFICES ASSUME NEW r \in voided
             PROVE  Over(rows'[r], runs'[rows'[r].run])
  BY DEF AllOver
<1>1. r \in DOMAIN rows /\ Over(rows[r], runs[rows[r].run]) /\ rows[r].run \in DOMAIN runs
  BY DEF Inv, TypeOK, AllOver
<1>2. Fits(rows[r], waiter[r], runs[rows[r].run]) /\ Sound(rows[r], waiter[r], acts[r])
  BY <1>1 DEF Inv, AllFit, AllSound
<1>3. RowStep(rows[r], rows'[r]) /\ RunStep(runs[rows[r].run], runs'[rows[r].run])
  BY <1>1 DEF Grows
<1>4. rows'[r].run = rows[r].run
  BY <1>3 DEF RowStep
<1> QED
  BY <1>1, <1>2, <1>3, <1>4 DEF Over, Fits, RowStep, RunStep

\* And continuations under way stay prepared.
LEMMA PreparedKept ==
  ASSUME Inv, TypeOK', Grows, \A d \in due' \ due : Prepared(d)'
  PROVE  AllPrepared'
<1> SUFFICES ASSUME NEW d \in due', d \in due
             PROVE  Prepared(d)'
  BY DEF AllPrepared
<1>1. Prepared(d) /\ d.of \in DOMAIN runs /\ d.ids \subseteq DOMAIN rows
  BY DEF Inv, AllPrepared, TypeOK
<1>2. Complete(rows', d.of, d.ids) /\ runs'[d.of].status \in Dead
  BY <1>1, CompleteKept DEF Prepared
<1>3. \A r \in d.ids : rows'[r].path = "continue"
  BY <1>1 DEF Prepared, Grows, RowStep
<1> QED
  BY <1>2, <1>3 DEF Prepared

\* Runs that continue another keep all of its answers.
LEMMA ContinuesKept ==
  ASSUME Inv, Grows, NEW i \in DOMAIN runs,
         runs[i].continues # 0 => \A j \in DOMAIN runs' \ DOMAIN runs : runs'[j].continues # runs[i].continues
  PROVE  Continues(i)'
<1> SUFFICES ASSUME runs'[i].continues # 0
             PROVE  Continues(i)'
  BY DEF Continues
<1> PICK a : a = runs[i].continues
  OBVIOUS
<1>1. runs'[i].continues = a /\ \A j \in DOMAIN runs : runs'[j].continues = runs[j].continues
  BY DEF Grows, RunStep
<1>2. /\ a \in DOMAIN runs /\ runs[a].status \in Dead /\ Complete(rows, a, {})
      /\ \A j \in DOMAIN runs : runs[j].continues = a => j = i
  BY <1>1 DEF Inv, AllContinue, Continues
<1>3. Complete(rows', a, {}) /\ runs'[a].status \in Dead /\ a \in DOMAIN runs'
  BY <1>2, CompleteKept DEF Grows
<1>4. \A j \in DOMAIN runs' : runs'[j].continues = a => j = i
  BY <1>1, <1>2
<1> QED
  BY <1>1, <1>3, <1>4 DEF Continues

\* A step that starts no continuation.
LEMMA StepKeeps ==
  ASSUME Inv, TypeOK', Grows, voided' = voided, \A d \in due' \ due : Prepared(d)',
         \A j \in DOMAIN runs' \ DOMAIN runs : runs'[j].continues = 0,
         AllSound', AllFit', StopSeen'
  PROVE  Inv'
<1>1. AllOver' /\ AllPrepared'
  BY OverKept, PreparedKept
<1>2. AllContinue'
  <2> SUFFICES ASSUME NEW i \in DOMAIN runs'
               PROVE  Continues(i)'
    BY DEF AllContinue
  <2>1. CASE i \in DOMAIN runs
    BY <2>1, ContinuesKept
  <2>2. CASE i \notin DOMAIN runs
    BY <2>2 DEF Continues
  <2> QED
    BY <2>1, <2>2
<1> QED
  BY <1>1, <1>2 DEF Inv

-----------------------------------------------------------------------------
(* Asking and answering.                                                     *)

\* What the invariant says of each row.
LEMMA Types ==
  ASSUME Inv
  PROVE  /\ rows \in Seq(Row) /\ runs \in Seq(Run) /\ waiter \in Seq({"asked", "settled", "none"}) /\ acts \in Seq(Nat)
         /\ DOMAIN rows = 1 .. Len(rows) /\ DOMAIN runs = 1 .. Len(runs)
         /\ DOMAIN waiter = DOMAIN rows /\ DOMAIN acts = DOMAIN rows
         /\ Len(waiter) = Len(rows) /\ Len(acts) = Len(rows)
         /\ \A i \in DOMAIN runs : runs[i] \in Run /\ i \in Nat \ {0}
         /\ \A r \in DOMAIN rows : rows[r] \in Row /\ acts[r] \in Nat /\ waiter[r] \in {"asked", "settled", "none"}
         /\ \A r \in DOMAIN rows : rows[r].run \in DOMAIN runs
         /\ due \in SUBSET [of : DOMAIN runs, ids : SUBSET DOMAIN rows] /\ told \in SUBSET DOMAIN rows
<1>1. /\ rows \in Seq(Row) /\ runs \in Seq(Run) /\ waiter \in Seq({"asked", "settled", "none"}) /\ acts \in Seq(Nat)
      /\ Len(waiter) = Len(rows) /\ Len(acts) = Len(rows)
  BY DEF Inv, TypeOK
<1>2. /\ \A r \in DOMAIN rows : rows[r].run \in DOMAIN runs
      /\ due \in SUBSET [of : DOMAIN runs, ids : SUBSET DOMAIN rows] /\ told \in SUBSET DOMAIN rows
  BY DEF Inv, TypeOK
<1>3. /\ DOMAIN rows = 1 .. Len(rows) /\ DOMAIN runs = 1 .. Len(runs)
      /\ DOMAIN waiter = DOMAIN rows /\ DOMAIN acts = DOMAIN rows
  BY <1>1
<1>4. \A i \in DOMAIN runs : runs[i] \in Run /\ i \in Nat \ {0}
  BY <1>1, <1>3
<1>5. \A r \in DOMAIN rows : rows[r] \in Row /\ acts[r] \in Nat /\ waiter[r] \in {"asked", "settled", "none"}
  BY <1>1, <1>3
<1> QED
  BY <1>1, <1>2, <1>3, <1>4, <1>5

\* The parts of the invariant about one row.
LEMMA RowFacts ==
  ASSUME Inv, NEW r \in DOMAIN rows
  PROVE  Sound(rows[r], waiter[r], acts[r]) /\ Fits(rows[r], waiter[r], runs[rows[r].run])
  BY DEF Inv, AllSound, AllFit

\* Rows and runs that stay make a step.
LEMMA Same ==
  ASSUME NEW x
  PROVE  RowStep(x, x) /\ RunStep(x, x)
  BY DEF RowStep, RunStep

\* One row changes, with its callback and its history.
LEMMA OneRow ==
  ASSUME Inv, NEW r \in DOMAIN rows, NEW y \in Row, NEW w \in {"asked", "settled", "none"}, NEW n \in Nat,
         rows' = [rows EXCEPT ![r] = y], waiter' = [waiter EXCEPT ![r] = w], acts' = [acts EXCEPT ![r] = n],
         UNCHANGED <<rules, runs, due, resume, history>>, effects' \in SUBSET effects,
         RowStep(rows[r], y), Sound(y, w, n), Fits(y, w, runs[rows[r].run])
  PROVE  Inv'
<1>1. /\ rows' \in Seq(Row) /\ Len(rows') = Len(rows) /\ DOMAIN rows' = DOMAIN rows
      /\ waiter' \in Seq({"asked", "settled", "none"}) /\ Len(waiter') = Len(waiter)
      /\ acts' \in Seq(Nat) /\ Len(acts') = Len(acts)
  BY Types
<1>2. \A s \in DOMAIN rows : s # r => rows'[s] = rows[s] /\ waiter'[s] = waiter[s] /\ acts'[s] = acts[s]
  BY Types
<1>3. rows'[r] = y /\ waiter'[r] = w /\ acts'[r] = n
  BY Types
<1>4. \A s \in DOMAIN rows : RowStep(rows[s], rows'[s])
  BY <1>2, <1>3, Same
<1>5. \A s \in DOMAIN rows : rows'[s].run = rows[s].run
  BY <1>4 DEF RowStep
<1>6. TypeOK'
  BY <1>1, <1>5 DEF Inv, TypeOK, history
<1>7. AllSound'
  BY <1>1, <1>2, <1>3, RowFacts DEF AllSound
<1>8. AllFit'
  BY <1>1, <1>2, <1>3, <1>5, RowFacts DEF AllFit
<1>9. Grows
  BY <1>1, <1>4, Same DEF Grows
<1>10. StopSeen'
  BY DEF Inv, StopSeen, history
<1> QED
  BY <1>6, <1>7, <1>8, <1>9, <1>10, StepKeeps DEF history

\* A tool call asks: a grant lets it run, or a new request is saved.
LEMMA AskInv ==
  ASSUME Inv, NEW i \in DOMAIN runs, NEW p \in Prints, Ask(i, p)
  PROVE  Inv'
<1>1. Working(i) /\ UNCHANGED <<rules, runs, effects, due, resume, history>>
  BY DEF Ask
<1>2. CASE Grants(i, p) # {}
  <2> PICK r \in Grants(i, p) : /\ rows' = [rows EXCEPT ![r].spent = TRUE]
                                /\ acts' = [acts EXCEPT ![r] = @ + 1]
                                /\ waiter' = waiter
    BY <1>2 DEF Ask
  <2>1. /\ r \in DOMAIN rows /\ rows[r].bound = i /\ rows[r].decision = "allow" /\ ~rows[r].spent
        /\ rows[r] \in Row /\ acts[r] \in Nat /\ i # 0 /\ waiter[r] \in {"asked", "settled", "none"}
    BY Types DEF Grants
  <2> DEFINE y == [rows[r] EXCEPT !.spent = TRUE]
  <2>2. /\ y \in Row /\ y.spent /\ y.run = rows[r].run /\ y.status = rows[r].status /\ y.decision = rows[r].decision
        /\ y.path = rows[r].path /\ y.bound = rows[r].bound /\ y.delivered = rows[r].delivered
    BY <2>1 DEF Row
  <2>3. rows' = [rows EXCEPT ![r] = y] /\ acts' = [acts EXCEPT ![r] = acts[r] + 1] /\ waiter' = [waiter EXCEPT ![r] = waiter[r]]
    BY Types
  <2> HIDE DEF y
  <2>4. /\ acts[r] = 0 /\ rows[r].path = "continue" /\ rows[r].delivered /\ rows[r].status = "answered" /\ waiter[r] = "none"
    BY <2>1, RowFacts DEF Sound, Row
  <2>5. RowStep(rows[r], y) /\ Sound(y, waiter[r], acts[r] + 1)
    BY <2>1, <2>2, <2>4 DEF RowStep, Sound
  <2>6. Fits(y, waiter[r], runs[rows[r].run])
    BY <2>1, <2>2, RowFacts DEF Fits
  <2>7. acts[r] + 1 \in Nat /\ effects' \in SUBSET effects /\ UNCHANGED <<rules, runs, due, resume, history>>
    BY <1>1, <2>1
  <2> QED
    BY <2>1, <2>2, <2>3, <2>5, <2>6, <2>7, OneRow
<1>3. CASE Grants(i, p) = {}
  <2> DEFINE x == NewRow(p, i)
             n == Len(rows) + 1
  <2>1. rows' = Append(rows, x) /\ waiter' = Append(waiter, "asked") /\ acts' = Append(acts, 0)
    BY <1>3 DEF Ask
  <2>2. /\ x \in Row /\ x.run = i /\ x.status = "pending" /\ x.path = "live" /\ x.decision = "none"
        /\ ~x.delivered /\ x.bound = 0 /\ ~x.spent
    BY Types DEF NewRow, Row
  <2> HIDE DEF x
  <2>3. /\ rows' \in Seq(Row) /\ Len(rows') = n /\ DOMAIN rows' = DOMAIN rows \cup {n} /\ n \notin DOMAIN rows
        /\ \A r \in DOMAIN rows : rows'[r] = rows[r]
        /\ rows'[n] = x
    BY <2>1, <2>2, Types, AppendFacts
  <2>4. /\ waiter' \in Seq({"asked", "settled", "none"}) /\ Len(waiter') = n
        /\ \A r \in DOMAIN rows : waiter'[r] = waiter[r]
        /\ waiter'[n] = "asked"
    BY <2>1, Types, AppendFacts
  <2>5. /\ acts' \in Seq(Nat) /\ Len(acts') = n
        /\ \A r \in DOMAIN rows : acts'[r] = acts[r]
        /\ acts'[n] = 0
    BY <2>1, Types, AppendFacts
  <2> HIDE DEF n
  <2>6. TypeOK'
    <3>1. \A r \in DOMAIN rows' : rows'[r].run \in DOMAIN runs'
      BY <1>1, <2>2, <2>3, Types
    <3>2. /\ effects' \in SUBSET DOMAIN rows' /\ stopped' \in SUBSET DOMAIN rows' /\ voided' \in SUBSET DOMAIN rows'
          /\ told' \in SUBSET DOMAIN rows'
          /\ due' \in SUBSET [of : DOMAIN runs', ids : SUBSET DOMAIN rows']
      BY <1>1, <2>3 DEF Inv, TypeOK, history
    <3> QED
      BY <1>1, <2>3, <2>4, <2>5, <3>1, <3>2 DEF Inv, TypeOK, history
  <2>7. AllSound'
    <3>1. Sound(x, "asked", 0)
      BY <2>2 DEF Sound
    <3> QED
      BY <2>3, <2>4, <2>5, <3>1, RowFacts DEF AllSound
  <2>8. AllFit'
    <3>1. Fits(x, "asked", runs[i])
      BY <1>1, <2>2 DEF Fits, Working
    <3> QED
      BY <1>1, <2>2, <2>3, <2>4, <3>1, RowFacts DEF AllFit
  <2>9. Grows
    BY <1>1, <2>2, <2>3, Same DEF Grows, Working
  <2>10. StopSeen'
    BY <1>1 DEF Inv, StopSeen, history
  <2> QED
    BY <1>1, <2>6, <2>7, <2>8, <2>9, <2>10, StepKeeps DEF history
<1> QED
  BY <1>2, <1>3

\* Rows change where they stand, and runs change or are appended.
RowsChange ==
    /\ rows' \in [DOMAIN rows -> Row] /\ waiter' \in [DOMAIN rows -> {"asked", "settled", "none"}]
    /\ acts' \in [DOMAIN rows -> Nat]
    /\ runs' \in Seq(Run) /\ DOMAIN runs \subseteq DOMAIN runs'
    /\ \A i \in DOMAIN runs : RunStep(runs[i], runs'[i])
    /\ rules' \in SUBSET Prints /\ effects' \in SUBSET DOMAIN rows
    /\ stopped' \in SUBSET DOMAIN rows /\ voided' \in SUBSET DOMAIN rows /\ told' \in SUBSET DOMAIN rows
    /\ resume' \in BOOLEAN /\ stopping' \in BOOLEAN /\ used' \in [stops : Nat, crashes : Nat]
    /\ \A d \in due' \ due : d \in [of : DOMAIN runs', ids : SUBSET DOMAIN rows]
    /\ \A r \in DOMAIN rows : /\ RowStep(rows[r], rows'[r])
                              /\ Sound(rows'[r], waiter'[r], acts'[r])
                              /\ Fits(rows'[r], waiter'[r], runs'[rows[r].run])

\* Rows that each make a step and leave the runs alone keep the types and every row sound and fitting.
LEMMA ChangeFacts ==
  ASSUME Inv, RowsChange
  PROVE  TypeOK' /\ Grows /\ AllSound' /\ AllFit'
<1>1. /\ rows' \in Seq(Row) /\ Len(rows') = Len(rows) /\ DOMAIN rows' = DOMAIN rows
      /\ waiter' \in Seq({"asked", "settled", "none"}) /\ Len(waiter') = Len(rows)
      /\ acts' \in Seq(Nat) /\ Len(acts') = Len(rows)
  <2>0. /\ rows \in Seq(Row) /\ rows' \in [DOMAIN rows -> Row] /\ acts' \in [DOMAIN rows -> Nat]
        /\ waiter' \in [DOMAIN rows -> {"asked", "settled", "none"}]
    BY Types DEF RowsChange
  <2>1. rows' \in Seq(Row) /\ Len(rows') = Len(rows) /\ DOMAIN rows' = DOMAIN rows
    BY <2>0, MapFacts
  <2>2. waiter' \in Seq({"asked", "settled", "none"}) /\ Len(waiter') = Len(rows)
    BY <2>0, MapFacts
  <2>3. acts' \in Seq(Nat) /\ Len(acts') = Len(rows)
    BY <2>0, MapFacts
  <2> QED
    BY <2>1, <2>2, <2>3
<1>2. \A r \in DOMAIN rows : rows'[r].run = rows[r].run /\ rows[r].run \in DOMAIN runs'
  BY Types DEF RowsChange, RowStep
<1>3. due' \in SUBSET [of : DOMAIN runs', ids : SUBSET DOMAIN rows']
  <2>1. \A d \in due : d \in [of : DOMAIN runs', ids : SUBSET DOMAIN rows']
    BY <1>1, Types DEF RowsChange
  <2> QED
    BY <1>1, <2>1 DEF RowsChange
<1>4. TypeOK'
  BY <1>1, <1>2, <1>3 DEF RowsChange, TypeOK
<1>5. Grows
  BY <1>1 DEF RowsChange, Grows
<1>6. AllSound' /\ AllFit'
  BY <1>1, <1>2 DEF RowsChange, AllSound, AllFit
<1> QED
  BY <1>4, <1>5, <1>6

\* Such a step keeps the invariant unless it closes what a Stop found or starts a continuation.
LEMMA ChangeInv ==
  ASSUME Inv, RowsChange, voided' = voided, \A d \in due' \ due : Prepared(d)',
         \A j \in DOMAIN runs' \ DOMAIN runs : runs'[j].continues = 0, StopSeen'
  PROVE  Inv'
  BY ChangeFacts, StepKeeps

\* What settling does to a row.
LEMMA AnsweredFacts ==
  ASSUME NEW x \in Row, NEW decision \in {"allow", "reject"}, NEW who \in {"user", "agent"}
  PROVE  LET y == Answered(x, decision, who) IN
         /\ y \in Row /\ y.run = x.run /\ y.status = "answered" /\ y.path = x.path /\ y.decision = decision
         /\ y.by = who /\ y.delivered = x.delivered /\ y.bound = x.bound /\ y.spent = x.spent /\ y.uncertain = x.uncertain
  BY DEF Answered, Row

\* What delivery does to a row.
LEMMA DeliveredFacts ==
  ASSUME NEW x \in Row
  PROVE  LET y == Delivered(x) IN
         /\ y \in Row /\ y.run = x.run /\ y.status = x.status /\ y.path = x.path /\ y.decision = x.decision
         /\ y.delivered /\ y.bound = x.bound /\ y.spent = x.spent
  BY DEF Delivered, Row

\* A continuation is made ready with all the answers of a dead run.
LEMMA DueFacts ==
  ASSUME NEW w, DOMAIN w = DOMAIN rows', w = rows', TypeOK', AllFit', NEW a, NEW d \in ContinuationDue(w, a)
  PROVE  /\ d.of = a /\ a \in DOMAIN runs' /\ d.ids \subseteq DOMAIN rows' /\ Prepared(d)'
         /\ d = [of |-> a, ids |-> {r \in Waiting(w) : w[r].run = a}]
<1> DEFINE ready == {r \in Waiting(w) : w[r].run = a}
<1>1. /\ d = [of |-> a, ids |-> ready] /\ ready # {}
      /\ \A r \in DOMAIN w : w[r].run = a => w[r].status # "pending"
  BY DEF ContinuationDue
<1>2. \A r \in ready : /\ r \in DOMAIN rows' /\ rows'[r].path = "continue" /\ rows'[r].run = a
                       /\ a \in DOMAIN runs' /\ runs'[a].status \in Dead
  BY DEF Waiting, Undelivered, TypeOK, AllFit, Fits
<1>3. a \in DOMAIN runs' /\ runs'[a].status \in Dead
  BY <1>1, <1>2
<1>4. ASSUME NEW r \in DOMAIN rows', rows'[r].run = a, r \in Undelivered(rows')
      PROVE  r \in ready
  <2>1. rows'[r].status = "answered" /\ ~rows'[r].delivered /\ rows'[r] \in Row
    BY <1>4 DEF Undelivered, TypeOK
  <2>2. rows'[r].path = "continue"
    BY <1>3, <1>4, <2>1 DEF AllFit, Fits, Row
  <2> QED
    BY <1>4, <2>2 DEF Waiting
<1> HIDE DEF ready
<1>5. d.of = a /\ d.ids = ready
  BY <1>1
<1>6. Complete(rows', a, ready)
  BY <1>1, <1>4 DEF Complete
<1>7. Prepared(d)'
  BY <1>2, <1>3, <1>5, <1>6 DEF Prepared
<1> QED
  BY <1>1, <1>2, <1>3, <1>5, <1>7 DEF ready

\* A continuation that is due names its run and rows of it.
LEMMA DueTyped ==
  ASSUME NEW w, NEW R, NEW a \in R, NEW d \in ContinuationDue(w, a)
  PROVE  d \in [of : R, ids : SUBSET DOMAIN w]
<1> DEFINE ready == {r \in Waiting(w) : w[r].run = a}
<1>1. d = [of |-> a, ids |-> ready]
  BY DEF ContinuationDue
<1>2. ready \in SUBSET DOMAIN w
  BY DEF Waiting, Undelivered
<1> HIDE DEF ready
<1> QED
  BY <1>1, <1>2

\* A request is answered, and "Always" answers the identical ones beside it.
LEMMA AnswerInv ==
  ASSUME Inv, NEW r \in DOMAIN rows, NEW decision \in {"allow", "always", "reject"}, NEW who \in {"user", "agent"},
         Answer(r, decision, who)
  PROVE  Inv'
<1> DEFINE meaning == IF decision = "reject" THEN "reject" ELSE "allow"
           siblings == {s \in Pending \ {r} : decision = "always" /\ rows[s].print = rows[r].print /\ rows[s].path = "live"}
           x(s) == Answered(rows[s], meaning, who)
           more(s) == IF s \in siblings THEN Acts(s, meaning) ELSE 0
<1>1. /\ rows' = [s \in DOMAIN rows |-> CASE s = r -> x(s) [] s \in siblings -> Delivered(x(s)) [] OTHER -> rows[s]]
      /\ acts' = [s \in DOMAIN rows |-> acts[s] + more(s)]
      /\ waiter' = [s \in DOMAIN rows |-> CASE s \in siblings -> "none"
                                            [] s = r /\ waiter[s] = "asked" -> "settled"
                                            [] OTHER -> waiter[s]]
      /\ effects' = effects \cup {s \in siblings \cup {r} : rows[s].path = "live"}
      /\ due' = IF rows[r].path = "continue" THEN due \cup ContinuationDue(rows', rows[r].run) ELSE due
      /\ rules' = IF decision = "always" THEN rules \cup {rows[r].print} ELSE rules
      /\ UNCHANGED <<runs, resume, stopping, used, stopped, voided, told>>
      /\ r \in Pending
  BY DEF Answer, history
<1>2. r \notin siblings /\ siblings \subseteq DOMAIN rows
  BY DEF Pending
<1>3. \A s \in siblings : rows[s].status = "pending" /\ rows[s].path = "live"
  BY DEF Pending
<1>4. meaning \in {"allow", "reject"} /\ \A s \in DOMAIN rows : more(s) \in {0, 1} /\ (s \notin siblings => more(s) = 0)
  BY DEF Acts
<1> HIDE DEF meaning, siblings, more
<1>5. \A s \in DOMAIN rows :
         /\ x(s) \in Row /\ x(s).run = rows[s].run /\ x(s).status = "answered" /\ x(s).path = rows[s].path
         /\ x(s).decision = meaning /\ x(s).delivered = rows[s].delivered /\ x(s).bound = rows[s].bound
         /\ x(s).spent = rows[s].spent
  BY <1>4, Types, AnsweredFacts
<1> HIDE DEF x
<1>6. \A s \in DOMAIN rows :
         /\ Delivered(x(s)) \in Row /\ Delivered(x(s)).run = rows[s].run /\ Delivered(x(s)).status = "answered"
         /\ Delivered(x(s)).path = rows[s].path /\ Delivered(x(s)).decision = meaning /\ Delivered(x(s)).delivered
         /\ Delivered(x(s)).bound = rows[s].bound /\ Delivered(x(s)).spent = rows[s].spent
  BY <1>5, DeliveredFacts
<1>7. /\ rows'[r] = x(r) /\ waiter'[r] = (IF waiter[r] = "asked" THEN "settled" ELSE waiter[r]) /\ acts'[r] = acts[r]
  BY <1>1, <1>2, <1>4, Types
<1>8. \A s \in siblings : rows'[s] = Delivered(x(s)) /\ waiter'[s] = "none" /\ acts'[s] = acts[s] + more(s)
  BY <1>1, <1>2
<1>9. \A s \in DOMAIN rows : s # r /\ s \notin siblings => rows'[s] = rows[s] /\ waiter'[s] = waiter[s] /\ acts'[s] = acts[s]
  BY <1>1, <1>4, Types
<1>10. /\ RowStep(rows[r], rows'[r]) /\ Sound(rows'[r], waiter'[r], acts'[r])
       /\ Fits(rows'[r], waiter'[r], runs[rows[r].run])
  <2>1. rows[r].status = "pending" /\ Sound(rows[r], waiter[r], acts[r]) /\ Fits(rows[r], waiter[r], runs[rows[r].run])
    BY <1>1, RowFacts DEF Pending
  <2>2. RowStep(rows[r], x(r))
    BY <1>5, <2>1 DEF RowStep, Sound
  <2>3. Sound(x(r), waiter'[r], acts[r])
    BY <1>5, <1>7, <2>1 DEF Sound
  <2>4. Fits(x(r), waiter'[r], runs[rows[r].run])
    BY <1>5, <1>7, <2>1 DEF Fits, Dead
  <2> QED
    BY <1>7, <2>2, <2>3, <2>4
<1>11. \A s \in siblings : /\ RowStep(rows[s], rows'[s]) /\ Sound(rows'[s], waiter'[s], acts'[s])
                           /\ Fits(rows'[s], waiter'[s], runs[rows[s].run])
  <2> SUFFICES ASSUME NEW s \in siblings
               PROVE  /\ RowStep(rows[s], rows'[s]) /\ Sound(rows'[s], waiter'[s], acts'[s])
                      /\ Fits(rows'[s], waiter'[s], runs[rows[s].run])
    OBVIOUS
  <2>1. /\ rows[s].status = "pending" /\ s \in DOMAIN rows /\ acts[s] \in Nat
        /\ Sound(rows[s], waiter[s], acts[s]) /\ Fits(rows[s], waiter[s], runs[rows[s].run])
    BY <1>2, <1>3, RowFacts, Types
  <2>2. RowStep(rows[s], Delivered(x(s)))
    BY <1>6, <2>1 DEF RowStep, Sound
  <2>3. Sound(Delivered(x(s)), "none", acts[s] + more(s))
    BY <1>4, <1>6, <2>1 DEF Sound
  <2>4. Fits(Delivered(x(s)), "none", runs[rows[s].run])
    BY <1>6, <2>1 DEF Fits
  <2> QED
    BY <1>8, <2>2, <2>3, <2>4
<1>12. \A s \in DOMAIN rows : /\ RowStep(rows[s], rows'[s]) /\ Sound(rows'[s], waiter'[s], acts'[s])
                              /\ Fits(rows'[s], waiter'[s], runs'[rows[s].run])
  BY <1>1, <1>9, <1>10, <1>11, RowFacts, Same
<1>13. /\ rows' \in [DOMAIN rows -> Row] /\ waiter' \in [DOMAIN rows -> {"asked", "settled", "none"}]
       /\ acts' \in [DOMAIN rows -> Nat]
  <2>1. \A s \in DOMAIN rows : rows'[s] \in Row /\ waiter'[s] \in {"asked", "settled", "none"} /\ acts'[s] \in Nat
    <3>1. \A s \in DOMAIN rows : s = r \/ s \in siblings \/ (s # r /\ s \notin siblings)
      OBVIOUS
    <3> QED
      BY <1>4, <1>5, <1>6, <1>7, <1>8, <1>9, <3>1, Types
  <2> QED
    BY <1>1, <2>1
<1>14. \A s \in DOMAIN rows : rows[s].print \in Prints
  BY Types DEF Row
<1>15. rules' \in SUBSET Prints /\ effects' \in SUBSET DOMAIN rows
  BY <1>1, <1>2, <1>14 DEF Inv, TypeOK
<1> DEFINE a == rows[r].run
<1>16. a \in DOMAIN runs /\ due' \ due \subseteq ContinuationDue(rows', a)
  BY <1>1, Types
<1>17. \A d \in ContinuationDue(rows', a) : d \in [of : DOMAIN runs', ids : SUBSET DOMAIN rows]
  <2>1. DOMAIN rows' = DOMAIN rows /\ runs' = runs
    BY <1>1, <1>13
  <2> QED
    BY <1>16, <2>1, DueTyped
<1>18. RowsChange
  BY <1>1, <1>12, <1>13, <1>15, <1>16, <1>17, Types, Same DEF RowsChange, Inv, TypeOK
<1>19. \A d \in ContinuationDue(rows', a) : Prepared(d)'
  BY <1>18, ChangeFacts, DueFacts
<1>20. StopSeen'
  BY <1>1 DEF Inv, StopSeen
<1> QED
  BY <1>1, <1>16, <1>18, <1>19, <1>20, ChangeInv

\* Rows, callbacks and histories that stay.
LEMMA RowsStay ==
  ASSUME Inv, UNCHANGED <<rows, waiter, acts>>,
         \A r \in DOMAIN rows : Fits(rows[r], waiter[r], runs'[rows[r].run])
  PROVE  /\ rows' \in [DOMAIN rows -> Row] /\ waiter' \in [DOMAIN rows -> {"asked", "settled", "none"}]
         /\ acts' \in [DOMAIN rows -> Nat]
         /\ \A r \in DOMAIN rows : /\ RowStep(rows[r], rows'[r])
                                   /\ Sound(rows'[r], waiter'[r], acts'[r])
                                   /\ Fits(rows'[r], waiter'[r], runs'[rows[r].run])
<1>1. \A r \in DOMAIN rows : RowStep(rows[r], rows'[r]) /\ Sound(rows[r], waiter[r], acts[r])
  BY Same, RowFacts
<1>2. /\ rows \in [DOMAIN rows -> Row] /\ waiter \in [DOMAIN rows -> {"asked", "settled", "none"}]
      /\ acts \in [DOMAIN rows -> Nat]
  BY Types
<1> QED
  BY <1>1, <1>2

\* A rule is revoked.
LEMMA RevokeRuleInv ==
  ASSUME Inv, NEW p, RevokeRule(p)
  PROVE  Inv'
<1>1. UNCHANGED <<rows, runs, effects, waiter, due, resume, acts, stopping, used, stopped, voided, told>> /\ rules' \in SUBSET Prints
  BY DEF RevokeRule, history, Inv, TypeOK
<1>2. RowsChange
  BY <1>1, RowsStay, RowFacts, Types, Same DEF RowsChange, Inv, TypeOK
<1>3. StopSeen'
  BY <1>1 DEF Inv, StopSeen
<1> QED
  BY <1>1, <1>2, <1>3, ChangeInv

\* A callback gets the answer of its row.
LEMMA DeliverInv ==
  ASSUME Inv, NEW r \in DOMAIN rows, waiter[r] # "none", rows[r].status # "pending", Deliver(r),
         UNCHANGED <<rules, runs, due, resume, history>>, effects' \in SUBSET effects
  PROVE  Inv'
<1>1. /\ rows[r] \in Row /\ acts[r] = 0 /\ rows[r].path = "live" /\ waiter' = [waiter EXCEPT ![r] = "none"]
      /\ Sound(rows[r], waiter[r], acts[r]) /\ Fits(rows[r], waiter[r], runs[rows[r].run])
  BY Types, RowFacts DEF Deliver, Sound
<1>2. CASE rows[r].status = "answered"
  <2> DEFINE y == Delivered(rows[r])
             n == acts[r] + Acts(r, rows[r].decision)
  <2>1. rows' = [rows EXCEPT ![r] = y] /\ acts' = [acts EXCEPT ![r] = n]
    BY <1>2 DEF Deliver
  <2>2. /\ y \in Row /\ y.run = rows[r].run /\ y.status = rows[r].status /\ y.path = rows[r].path
        /\ y.decision = rows[r].decision /\ y.delivered /\ y.bound = rows[r].bound /\ y.spent = rows[r].spent
    BY <1>1, DeliveredFacts
  <2>3. n \in {0, 1}
    BY <1>1 DEF Acts
  <2> HIDE DEF y, n
  <2>4. RowStep(rows[r], y)
    BY <1>1, <1>2, <2>2 DEF RowStep, Sound
  <2>5. Sound(y, "none", n)
    BY <1>1, <1>2, <2>2, <2>3 DEF Sound
  <2>6. Fits(y, "none", runs[rows[r].run])
    BY <1>1, <1>2, <2>2 DEF Fits
  <2>7. n \in Nat
    BY <2>3
  <2> QED
    BY <1>1, <2>1, <2>2, <2>4, <2>5, <2>6, <2>7, OneRow
<1>3. CASE rows[r].status # "answered"
  <2>1. rows' = [rows EXCEPT ![r] = rows[r]] /\ acts' = [acts EXCEPT ![r] = acts[r]]
    BY <1>3, Types DEF Deliver
  <2>2. RowStep(rows[r], rows[r]) /\ Sound(rows[r], "none", acts[r]) /\ Fits(rows[r], "none", runs[rows[r].run])
    BY <1>1, <1>3, Same DEF Sound, Fits
  <2>3. acts[r] \in Nat
    BY Types
  <2> QED
    BY <1>1, <2>1, <2>2, <2>3, OneRow
<1> QED
  BY <1>2, <1>3

\* The waiting provider takes the answer it was given.
LEMMA RespondInv ==
  ASSUME Inv, NEW r \in DOMAIN rows, Respond(r)
  PROVE  Inv'
<1>1. UNCHANGED <<rules, runs, due, resume, stopping, used, stopped, voided, told>> /\ effects' \in SUBSET effects
  BY DEF Respond, history
<1>2. CASE waiter[r] = "settled"
  <2>1. rows[r].status # "pending"
    BY <1>2, RowFacts DEF Sound
  <2> QED
    BY <1>1, <1>2, <2>1, DeliverInv DEF Respond, history
<1>3. CASE waiter[r] # "settled"
  <2>1. UNCHANGED <<rows, waiter, acts>>
    BY <1>3 DEF Respond
  <2>2. RowsChange
    BY <1>1, <2>1, RowsStay, RowFacts, Types, Same DEF RowsChange, Inv, TypeOK
  <2>3. StopSeen'
    BY <1>1 DEF Inv, StopSeen
  <2> QED
    BY <1>1, <2>2, <2>3, ChangeInv
<1> QED
  BY <1>2, <1>3

\* The reconciler delivers what the callback did not.
LEMMA ReconcileInv ==
  ASSUME Inv, NEW r \in DOMAIN rows, Reconcile(r)
  PROVE  Inv'
  BY DeliverInv DEF Reconcile

\* What closing does to rows.
LEMMA CancelledFacts ==
  ASSUME NEW w \in Seq(Row), NEW which
  PROVE  LET f == Cancelled(w, which) IN
         /\ f \in [DOMAIN w -> Row]
         /\ \A r \in DOMAIN w :
               IF r \in which /\ w[r].status = "pending"
               THEN /\ f[r].status = "cancelled" /\ f[r].run = w[r].run /\ f[r].path = w[r].path
                    /\ f[r].decision = w[r].decision /\ f[r].delivered = w[r].delivered
                    /\ f[r].bound = w[r].bound /\ f[r].spent = w[r].spent
               ELSE f[r] = w[r]
<1> DEFINE y(r) == [w[r] EXCEPT !.status = "cancelled"]
<1>1. \A r \in DOMAIN w :
         /\ y(r) \in Row /\ y(r).status = "cancelled" /\ y(r).run = w[r].run /\ y(r).path = w[r].path
         /\ y(r).decision = w[r].decision /\ y(r).delivered = w[r].delivered
         /\ y(r).bound = w[r].bound /\ y(r).spent = w[r].spent
  <2> SUFFICES ASSUME NEW r \in DOMAIN w, w[r] \in Row
               PROVE  /\ y(r) \in Row /\ y(r).status = "cancelled" /\ y(r).run = w[r].run /\ y(r).path = w[r].path
                      /\ y(r).decision = w[r].decision /\ y(r).delivered = w[r].delivered
                      /\ y(r).bound = w[r].bound /\ y(r).spent = w[r].spent
    OBVIOUS
  <2> QED
    BY DEF Row
<1>2. Cancelled(w, which) = [r \in DOMAIN w |-> IF r \in which /\ w[r].status = "pending" THEN y(r) ELSE w[r]]
  BY DEF Cancelled
<1> HIDE DEF y
<1> QED
  BY <1>1, <1>2

\* A request that is closed fits a run that is over.
LEMMA ClosedFacts ==
  ASSUME NEW x, NEW z, NEW w, NEW n, NEW y, Sound(x, w, n), x.status = "pending",
         z.status = "cancelled", z.run = x.run, z.path = x.path, z.decision = x.decision,
         z.delivered = x.delivered, z.bound = x.bound, z.spent = x.spent
  PROVE  RowStep(x, z) /\ Sound(z, "none", n)
  BY DEF Sound, RowStep

\* The provider withdraws its request.
LEMMA WithdrawInv ==
  ASSUME Inv, NEW r \in DOMAIN rows, Withdraw(r)
  PROVE  Inv'
<1>1. /\ rows[r].status = "pending" /\ rows' = Cancelled(rows, {r}) /\ waiter' = [waiter EXCEPT ![r] = "none"]
      /\ UNCHANGED <<rules, runs, effects, due, resume, acts, stopping, used, stopped, voided, told>>
  BY DEF Withdraw, history, Pending
<1>2. /\ rows' \in [DOMAIN rows -> Row] /\ \A s \in DOMAIN rows : s # r => rows'[s] = rows[s]
      /\ rows'[r].status = "cancelled" /\ rows'[r].run = rows[r].run /\ rows'[r].path = rows[r].path
      /\ rows'[r].decision = rows[r].decision /\ rows'[r].delivered = rows[r].delivered
      /\ rows'[r].bound = rows[r].bound /\ rows'[r].spent = rows[r].spent
  BY <1>1, Types, CancelledFacts
<1> PICK y \in Row : y = rows'[r]
  BY <1>2
<1>3. rows' = [rows EXCEPT ![r] = y] /\ acts' = [acts EXCEPT ![r] = acts[r]] /\ acts[r] \in Nat
  <2>1. rows \in [DOMAIN rows -> Row] /\ acts \in [DOMAIN rows -> Nat] /\ acts' = acts
    BY <1>1, Types
  <2>2. rows' = [rows EXCEPT ![r] = y]
    BY <1>2, <2>1
  <2>3. acts' = [acts EXCEPT ![r] = acts[r]] /\ acts[r] \in Nat
    BY <2>1
  <2> QED
    BY <2>2, <2>3
<1>4. RowStep(rows[r], y) /\ Sound(y, "none", acts[r])
  BY <1>1, <1>2, RowFacts, ClosedFacts
<1>5. Fits(y, "none", runs[rows[r].run])
  BY <1>1, <1>2, RowFacts DEF Fits
<1> QED
  BY <1>1, <1>3, <1>4, <1>5, OneRow DEF history

-----------------------------------------------------------------------------
(* Runs and messages.                                                        *)

\* A queued run starts.
LEMMA StartRunInv ==
  ASSUME Inv, ~stopping, NEW i \in DOMAIN runs, StartRun(i)
  PROVE  Inv'
<1> DEFINE y == [runs[i] EXCEPT !.status = "active"]
<1>1. /\ runs[i].status = "queued" /\ runs' = [runs EXCEPT ![i] = y]
      /\ UNCHANGED <<rows, rules, effects, waiter, due, resume, acts, stopping, used, stopped, voided, told>>
  BY DEF StartRun, history
<1>2. y \in Run /\ y.continues = runs[i].continues /\ y.aborted = runs[i].aborted
  BY Types DEF Run
<1>3. RunStep(runs[i], y)
  <2>1. y.status = "active"
    BY Types DEF Run
  <2> HIDE DEF y
  <2> QED
    BY <1>1, <1>2, <2>1 DEF RunStep
<1> HIDE DEF y
<1>4. /\ runs' \in Seq(Run) /\ DOMAIN runs' = DOMAIN runs /\ runs'[i] = y
      /\ \A j \in DOMAIN runs : j # i => runs'[j] = runs[j]
  BY <1>1, <1>2, Types
<1>5. \A j \in DOMAIN runs : RunStep(runs[j], runs'[j])
  BY <1>3, <1>4, Same
<1>6. \A r \in DOMAIN rows : rows[r].run # i /\ Fits(rows[r], waiter[r], runs[rows[r].run])
  BY <1>1, RowFacts DEF Fits
<1>7. RowsChange
  <2>1. \A r \in DOMAIN rows : Fits(rows[r], waiter[r], runs'[rows[r].run])
    BY <1>4, <1>6, Types
  <2> QED
    BY <1>1, <1>4, <1>5, <2>1, RowsStay, Types DEF RowsChange, Inv, TypeOK
<1> QED
  BY <1>1, <1>4, <1>7, ChangeInv DEF StopSeen

\* A run ends, and closes what it asked.
LEMMA EndRunInv ==
  ASSUME Inv, ~stopping, NEW i, EndRun(i)
  PROVE  Inv'
<1> DEFINE y == [runs[i] EXCEPT !.status = "ended"]
<1>1. /\ i \in DOMAIN runs /\ runs[i].status = "active" /\ runs' = [runs EXCEPT ![i] = y]
      /\ rows' = Cancelled(rows, AskedBy(i))
      /\ waiter' = [r \in DOMAIN waiter |-> IF r \in AskedBy(i) THEN "none" ELSE waiter[r]]
      /\ UNCHANGED <<rules, effects, due, resume, acts, stopping, used, stopped, voided, told>>
  BY DEF EndRun, history, Active
<1>2. y \in Run /\ y.continues = runs[i].continues /\ y.aborted = runs[i].aborted /\ y.status = "ended"
  BY <1>1, Types DEF Run
<1> HIDE DEF y
<1>3. RunStep(runs[i], y)
  BY <1>1, <1>2 DEF RunStep
<1>4. /\ runs' \in Seq(Run) /\ DOMAIN runs' = DOMAIN runs /\ runs'[i] = y
      /\ \A j \in DOMAIN runs : j # i => runs'[j] = runs[j]
  BY <1>1, <1>2, Types
<1>5. \A j \in DOMAIN runs : RunStep(runs[j], runs'[j])
  BY <1>3, <1>4, Same
<1>6. /\ rows' \in [DOMAIN rows -> Row]
      /\ \A r \in DOMAIN rows : r \notin AskedBy(i) => rows'[r] = rows[r]
      /\ \A r \in AskedBy(i) : /\ rows'[r].status = "cancelled" /\ rows'[r].run = rows[r].run /\ rows'[r].path = rows[r].path
                               /\ rows'[r].decision = rows[r].decision /\ rows'[r].delivered = rows[r].delivered
                               /\ rows'[r].bound = rows[r].bound /\ rows'[r].spent = rows[r].spent
                               /\ rows[r].status = "pending" /\ rows[r].run = i /\ r \in DOMAIN rows
  BY <1>1, Types, CancelledFacts DEF AskedBy, Pending
<1>7. \A r \in DOMAIN rows : waiter'[r] = IF r \in AskedBy(i) THEN "none" ELSE waiter[r]
  BY <1>1, Types
<1>8. waiter' \in [DOMAIN rows -> {"asked", "settled", "none"}] /\ acts' \in [DOMAIN rows -> Nat]
  BY <1>1, Types
<1>9. ASSUME NEW r \in DOMAIN rows
      PROVE  /\ RowStep(rows[r], rows'[r]) /\ Sound(rows'[r], waiter'[r], acts'[r])
             /\ Fits(rows'[r], waiter'[r], runs'[rows[r].run])
  <2>1. CASE r \in AskedBy(i)
    <3>1. RowStep(rows[r], rows'[r]) /\ Sound(rows'[r], "none", acts[r])
      BY <1>6, <2>1, RowFacts, ClosedFacts
    <3>2. Fits(rows'[r], "none", y)
      BY <1>1, <1>2, <1>6, <2>1, RowFacts DEF Fits, Dead
    <3> QED
      BY <1>1, <1>4, <1>6, <1>7, <2>1, <3>1, <3>2
  <2>2. CASE r \notin AskedBy(i) /\ rows[r].run = i
    <3>1. rows[r].status # "pending" /\ Fits(rows[r], waiter[r], runs[i])
      BY <2>2, RowFacts DEF AskedBy, Pending
    <3>2. Fits(rows[r], waiter[r], y)
      BY <1>1, <1>2, <3>1 DEF Fits, Dead
    <3> QED
      BY <1>1, <1>4, <1>6, <1>7, <2>2, <3>2, RowFacts, Same
  <2>3. CASE r \notin AskedBy(i) /\ rows[r].run # i
    BY <1>1, <1>4, <1>6, <1>7, <2>3, RowFacts, Same, Types
  <2> QED
    BY <2>1, <2>2, <2>3
<1>10. RowsChange
  BY <1>1, <1>4, <1>5, <1>6, <1>8, <1>9 DEF RowsChange, Inv, TypeOK
<1> QED
  BY <1>1, <1>4, <1>10, ChangeInv DEF StopSeen

\* A run is appended.
LEMMA NewRunFacts ==
  ASSUME Inv, NEW source \in {"person", "schedule"}, NEW of \in Nat, runs' = Append(runs, NewRun(source, of))
  PROVE  /\ runs' \in Seq(Run) /\ DOMAIN runs' = DOMAIN runs \cup {Len(runs) + 1} /\ Len(runs) + 1 \notin DOMAIN runs
         /\ Len(runs) + 1 \in Nat /\ runs'[Len(runs) + 1].continues = of
         /\ \A i \in DOMAIN runs : runs'[i] = runs[i] /\ RunStep(runs[i], runs'[i])
<1>1. NewRun(source, of) \in Run /\ NewRun(source, of).continues = of
  BY DEF NewRun, Run
<1>2. /\ runs' \in Seq(Run) /\ DOMAIN runs' = DOMAIN runs \cup {Len(runs) + 1} /\ Len(runs) + 1 \notin DOMAIN runs
      /\ Len(runs) \in Nat
      /\ \A i \in DOMAIN runs : runs'[i] = runs[i]
      /\ runs'[Len(runs) + 1] = NewRun(source, of)
  BY <1>1, Types, AppendFacts
<1> QED
  BY <1>1, <1>2, Same

\* A scheduled message.
LEMMA ScheduleInv ==
  ASSUME Inv, ~stopping, Schedule
  PROVE  Inv'
<1>1. /\ UNCHANGED <<rows, rules, effects, waiter, due, resume, acts, stopping, used, stopped, voided, told>>
      /\ runs' = Append(runs, NewRun("schedule", 0))
  BY DEF Schedule, history
<1>2. /\ runs' \in Seq(Run) /\ DOMAIN runs' = DOMAIN runs \cup {Len(runs) + 1} /\ runs'[Len(runs) + 1].continues = 0
      /\ \A i \in DOMAIN runs : runs'[i] = runs[i] /\ RunStep(runs[i], runs'[i])
  BY <1>1, NewRunFacts
<1>3. RowsChange
  <2>1. \A r \in DOMAIN rows : Fits(rows[r], waiter[r], runs'[rows[r].run])
    BY <1>2, RowFacts, Types
  <2> QED
    BY <1>1, <1>2, <2>1, RowsStay, Types DEF RowsChange, Inv, TypeOK
<1> QED
  BY <1>1, <1>2, <1>3, ChangeInv DEF StopSeen

\* What binding answers to a run does.
LEMMA BoundFacts ==
  ASSUME NEW w, NEW D, w \in [D -> Row], NEW ids, NEW i \in Nat
  PROVE  LET f == Bound(w, ids, i) IN
         /\ f \in [D -> Row]
         /\ \A r \in D :
               IF r \in ids /\ w[r].status = "answered" /\ ~w[r].delivered
               THEN /\ f[r].delivered /\ f[r].bound = i /\ f[r].run = w[r].run /\ f[r].status = w[r].status
                    /\ f[r].path = w[r].path /\ f[r].decision = w[r].decision /\ f[r].spent = w[r].spent
               ELSE f[r] = w[r]
<1> DEFINE y(r) == [Delivered(w[r]) EXCEPT !.bound = i]
<1>1. ASSUME NEW r \in D
      PROVE  /\ y(r) \in Row /\ y(r).delivered /\ y(r).bound = i /\ y(r).run = w[r].run /\ y(r).status = w[r].status
             /\ y(r).path = w[r].path /\ y(r).decision = w[r].decision /\ y(r).spent = w[r].spent
  <2> DEFINE v == Delivered(w[r])
  <2>1. /\ v \in Row /\ v.delivered /\ v.run = w[r].run /\ v.status = w[r].status
        /\ v.path = w[r].path /\ v.decision = w[r].decision /\ v.spent = w[r].spent
    BY DeliveredFacts
  <2> HIDE DEF v
  <2>2. LET z == [v EXCEPT !.bound = i] IN
        /\ z \in Row /\ z.delivered /\ z.bound = i /\ z.run = w[r].run /\ z.status = w[r].status
        /\ z.path = w[r].path /\ z.decision = w[r].decision /\ z.spent = w[r].spent
    BY <2>1 DEF Row
  <2> QED
    BY <2>2 DEF v
<1>2. Bound(w, ids, i) = [r \in D |-> IF r \in ids /\ w[r].status = "answered" /\ ~w[r].delivered THEN y(r) ELSE w[r]]
  BY DEF Bound, Undelivered
<1> HIDE DEF y
<1> QED
  BY <1>1, <1>2

\* A person's message denies what is pending and takes the answers along.
LEMMA SendInv ==
  ASSUME Inv, ~stopping, Send
  PROVE  Inv'
<1> DEFINE x(r) == Answered(rows[r], "reject", "user")
           denied == [r \in DOMAIN rows |-> IF r \in Pending THEN x(r) ELSE rows[r]]
           n == Len(runs) + 1
           ids == Pending \cup Waiting(denied)
<1>1. /\ rows' = Bound(denied, ids, n) /\ runs' = Append(runs, NewRun("person", 0))
      /\ told' = {}
      /\ UNCHANGED <<rules, effects, waiter, due, resume, acts, stopping, used, stopped, voided>>
  BY DEF Send
<1>2. /\ runs' \in Seq(Run) /\ DOMAIN runs' = DOMAIN runs \cup {n} /\ runs'[n].continues = 0 /\ n \in Nat
      /\ \A i \in DOMAIN runs : runs'[i] = runs[i] /\ RunStep(runs[i], runs'[i])
  BY <1>1, NewRunFacts
<1>3. \A r \in DOMAIN rows :
         /\ x(r) \in Row /\ x(r).run = rows[r].run /\ x(r).status = "answered" /\ x(r).path = rows[r].path
         /\ x(r).decision = "reject" /\ x(r).delivered = rows[r].delivered /\ x(r).bound = rows[r].bound
         /\ x(r).spent = rows[r].spent
  BY Types, AnsweredFacts
<1> HIDE DEF x
<1>4. denied \in [DOMAIN rows -> Row] /\ \A r \in DOMAIN rows : denied[r] = IF r \in Pending THEN x(r) ELSE rows[r]
  BY <1>3, Types
<1>5. \A r \in DOMAIN rows : r \in ids <=> (rows[r].status = "pending" \/ (rows[r].status = "answered" /\ ~rows[r].delivered
                                                                          /\ rows[r].path = "continue"))
  BY <1>3, <1>4 DEF Pending, Waiting, Undelivered
<1> HIDE DEF denied, n, ids
<1>6. /\ rows' \in [DOMAIN rows -> Row]
      /\ \A r \in DOMAIN rows :
            IF r \in ids /\ denied[r].status = "answered" /\ ~denied[r].delivered
            THEN /\ rows'[r].delivered /\ rows'[r].bound = n /\ rows'[r].run = denied[r].run /\ rows'[r].status = denied[r].status
                 /\ rows'[r].path = denied[r].path /\ rows'[r].decision = denied[r].decision /\ rows'[r].spent = denied[r].spent
            ELSE rows'[r] = denied[r]
  BY <1>1, <1>2, <1>4, BoundFacts
<1>7. ASSUME NEW r \in DOMAIN rows
      PROVE  RowStep(rows[r], rows'[r]) /\ Sound(rows'[r], waiter[r], acts[r]) /\ Fits(rows'[r], waiter[r], runs[rows[r].run])
  <2>1. CASE rows[r].status = "pending"
    <3>1. /\ rows'[r].status = "answered" /\ rows'[r].delivered /\ rows'[r].bound = n /\ rows'[r].decision = "reject"
          /\ rows'[r].run = rows[r].run /\ rows'[r].path = rows[r].path /\ rows'[r].spent = rows[r].spent
      BY <1>3, <1>4, <1>5, <1>6, <2>1, RowFacts DEF Pending, Sound
    <3> QED
      BY <2>1, <3>1, RowFacts DEF RowStep, Sound, Fits
  <2>2. CASE rows[r].status # "pending" /\ r \in ids
    <3>1. /\ rows'[r].status = "answered" /\ rows'[r].delivered /\ rows'[r].bound = n
          /\ rows'[r].decision = rows[r].decision /\ rows'[r].run = rows[r].run /\ rows'[r].path = "continue"
          /\ rows'[r].spent = rows[r].spent /\ rows[r].status = "answered" /\ ~rows[r].delivered /\ rows[r].path = "continue"
      BY <1>4, <1>5, <1>6, <2>2 DEF Pending
    <3> QED
      BY <3>1, RowFacts DEF RowStep, Sound, Fits
  <2>3. CASE rows[r].status # "pending" /\ r \notin ids
    BY <1>4, <1>6, <2>3, RowFacts, Same DEF Pending
  <2> QED
    BY <2>1, <2>2, <2>3
<1>8. RowsChange
  <2>1. waiter' \in [DOMAIN rows -> {"asked", "settled", "none"}] /\ acts' \in [DOMAIN rows -> Nat]
    BY <1>1, Types
  <2>2. \A r \in DOMAIN rows : Fits(rows'[r], waiter'[r], runs'[rows[r].run])
    BY <1>1, <1>2, <1>7, Types
  <2> QED
    BY <1>1, <1>2, <1>6, <1>7, <2>1, <2>2 DEF RowsChange, Inv, TypeOK
<1> QED
  BY <1>1, <1>2, <1>8, ChangeInv DEF StopSeen

\* The answers of a dead run are given to the run that continues it.
LEMMA ContinueInv ==
  ASSUME Inv, ~stopping, NEW d \in due, Continue(d)
  PROVE  Inv'
<1>1. /\ due' \in SUBSET due /\ told' \in SUBSET DOMAIN rows
      /\ UNCHANGED <<rules, effects, waiter, resume, acts, stopping, used, stopped, voided>>
  BY Types DEF Continue
<1>2. CASE UNCHANGED <<rows, runs>>
  <2>1. RowsChange
    BY <1>1, <1>2, RowsStay, RowFacts, Types, Same DEF RowsChange, Inv, TypeOK
  <2> QED
    BY <1>1, <1>2, <2>1, ChangeInv DEF StopSeen
<1>3. CASE ~UNCHANGED <<rows, runs>>
  <2> DEFINE n == Len(runs) + 1
  <2> PICK a \in DOMAIN runs : a = d.of
    BY Types
  <2> PICK ids \in SUBSET DOMAIN rows : ids = d.ids
    BY Types
  <2>1. /\ \A i \in DOMAIN runs : runs[i].continues # a
        /\ rows' = Bound(rows, ids, n) /\ runs' = Append(runs, NewRun("person", a))
    BY <1>3 DEF Continue
  <2>2. /\ runs[a].status \in Dead /\ Complete(rows, a, ids) /\ \A r \in ids : rows[r].path = "continue"
    BY DEF Inv, AllPrepared, Prepared
  <2>3. /\ runs' \in Seq(Run) /\ DOMAIN runs' = DOMAIN runs \cup {n} /\ n \notin DOMAIN runs /\ n \in Nat
        /\ runs'[n].continues = a /\ a \in Nat \ {0}
        /\ \A i \in DOMAIN runs : runs'[i] = runs[i] /\ RunStep(runs[i], runs'[i])
    BY <2>1, Types, NewRunFacts
  <2> HIDE DEF n
  <2>4. /\ rows' \in [DOMAIN rows -> Row]
        /\ \A r \in DOMAIN rows :
              IF r \in ids /\ rows[r].status = "answered" /\ ~rows[r].delivered
              THEN /\ rows'[r].delivered /\ rows'[r].bound = n /\ rows'[r].run = rows[r].run /\ rows'[r].status = rows[r].status
                   /\ rows'[r].path = rows[r].path /\ rows'[r].decision = rows[r].decision /\ rows'[r].spent = rows[r].spent
              ELSE rows'[r] = rows[r]
    <3>1. rows \in [DOMAIN rows -> Row]
      BY Types
    <3> QED
      BY <2>1, <2>3, <3>1, BoundFacts
  <2>5. ASSUME NEW r \in DOMAIN rows
        PROVE  RowStep(rows[r], rows'[r]) /\ Sound(rows'[r], waiter[r], acts[r]) /\ Fits(rows'[r], waiter[r], runs[rows[r].run])
    <3>1. CASE r \in ids /\ rows[r].status = "answered" /\ ~rows[r].delivered
      BY <2>2, <2>4, <3>1, RowFacts DEF RowStep, Sound, Fits
    <3>2. CASE ~(r \in ids /\ rows[r].status = "answered" /\ ~rows[r].delivered)
      BY <2>4, <3>2, RowFacts, Same
    <3> QED
      BY <3>1, <3>2
  <2>6. RowsChange
    <3>1. waiter' \in [DOMAIN rows -> {"asked", "settled", "none"}] /\ acts' \in [DOMAIN rows -> Nat]
      BY <1>1, Types
    <3>2. \A r \in DOMAIN rows : Fits(rows'[r], waiter'[r], runs'[rows[r].run])
      BY <1>1, <2>3, <2>5, Types
    <3> QED
      BY <1>1, <2>3, <2>4, <2>5, <3>1, <3>2 DEF RowsChange, Inv, TypeOK
  <2>7. TypeOK' /\ Grows /\ AllSound' /\ AllFit'
    BY <2>6, ChangeFacts
  <2>8. AllOver' /\ AllPrepared'
    BY <1>1, <2>7, OverKept, PreparedKept
  <2>9. AllContinue'
    <3> SUFFICES ASSUME NEW i \in DOMAIN runs'
                 PROVE  Continues(i)'
      BY DEF AllContinue
    <3>1. CASE i \in DOMAIN runs
      BY <2>1, <2>3, <2>7, <3>1, ContinuesKept
    <3>2. CASE i = n
      <4>1. Complete(rows', a, ids) /\ runs'[a].status \in Dead
        BY <2>2, <2>7, CompleteKept
      <4>2. \A r \in ids : r \notin Undelivered(rows')
        BY <2>4 DEF Undelivered
      <4>3. Complete(rows', a, {})
        BY <4>1, <4>2 DEF Complete
      <4>4. \A j \in DOMAIN runs' : runs'[j].continues = a => j = n
        BY <2>1, <2>3
      <4> QED
        BY <2>3, <3>2, <4>1, <4>3, <4>4 DEF Continues
    <3> QED
      BY <2>3, <3>1, <3>2
  <2> QED
    BY <1>1, <2>7, <2>8, <2>9 DEF Inv, StopSeen
<1> QED
  BY <1>2, <1>3

-----------------------------------------------------------------------------
(* Stops and restarts.                                                       *)

\* A continuation that is refused leaves its answers where they are.
LEMMA RefuseInv ==
  ASSUME Inv, ~stopping, NEW d \in due, Refuse(d)
  PROVE  Inv'
<1>1. /\ due' \in SUBSET due /\ told' \in SUBSET DOMAIN rows
      /\ UNCHANGED <<rows, rules, runs, effects, waiter, resume, acts, stopping, used, stopped, voided>>
  BY Types DEF Refuse
<1>2. RowsChange
  BY <1>1, RowsStay, RowFacts, Types, Same DEF RowsChange, Inv, TypeOK
<1> QED
  BY <1>1, <1>2, ChangeInv DEF StopSeen

\* A Stop marks the run that is active.
LEMMA StopInv ==
  ASSUME Inv, NEW clearQueue \in BOOLEAN, Stop(clearQueue)
  PROVE  Inv'
<1> DEFINE x(i) == [runs[i] EXCEPT !.aborted = TRUE]
           y(i) == [runs[i] EXCEPT !.status = "ended"]
<1>1. /\ runs' = [i \in DOMAIN runs |-> CASE runs[i].status = "active" -> x(i)
                                          [] runs[i].status = "queued" /\ clearQueue -> y(i)
                                          [] OTHER -> runs[i]]
      /\ used' = [used EXCEPT !.stops = @ + 1] /\ stopping' = TRUE /\ stopped' = DOMAIN rows
      /\ UNCHANGED <<rows, rules, effects, waiter, due, resume, acts, voided, told>>
  BY DEF Stop
<1>2. ASSUME NEW i \in DOMAIN runs
      PROVE  /\ x(i) \in Run /\ x(i).aborted /\ x(i).status = runs[i].status /\ x(i).continues = runs[i].continues
             /\ y(i) \in Run /\ y(i).aborted = runs[i].aborted /\ y(i).status = "ended" /\ y(i).continues = runs[i].continues
  BY Types DEF Run
<1> HIDE DEF x, y
<1>3. ASSUME NEW i \in DOMAIN runs
      PROVE  /\ runs[i].status = "active" => runs'[i] = x(i)
             /\ runs[i].status # "active" => runs'[i] = runs[i] \/ (runs[i].status = "queued" /\ runs'[i] = y(i))
  BY <1>1
<1>4. runs' \in Seq(Run) /\ DOMAIN runs' = DOMAIN runs
  <2>1. runs' \in [DOMAIN runs -> Run]
    BY <1>1, <1>2, Types
  <2> QED
    BY <2>1, Types, MapFacts
<1>5. \A i \in DOMAIN runs : RunStep(runs[i], runs'[i])
  BY <1>2, <1>3, Same DEF RunStep
<1>6. \A r \in DOMAIN rows : Fits(rows[r], waiter[r], runs'[rows[r].run])
  <2> SUFFICES ASSUME NEW r \in DOMAIN rows
               PROVE  Fits(rows[r], waiter[r], runs'[rows[r].run])
    OBVIOUS
  <2>1. rows[r].run \in DOMAIN runs /\ Fits(rows[r], waiter[r], runs[rows[r].run])
    BY Types, RowFacts
  <2>2. runs'[rows[r].run].status = runs[rows[r].run].status
    BY <1>2, <1>3, <2>1 DEF Fits
  <2> QED
    BY <2>1, <2>2 DEF Fits
<1>7. used' \in [stops : Nat, crashes : Nat] /\ stopping' \in BOOLEAN
  <2>1. used \in [stops : Nat, crashes : Nat]
    BY DEF Inv, TypeOK
  <2>2. used' \in [stops : Nat, crashes : Nat]
    BY <1>1, <2>1
  <2>3. stopping' \in BOOLEAN
    BY <1>1, Zenon
  <2> QED
    BY <2>2, <2>3
<1>8. RowsChange
  BY <1>1, <1>4, <1>5, <1>6, <1>7, RowsStay, Types DEF RowsChange, Inv, TypeOK
<1>9. StopSeen'
  <2>1. \A i \in DOMAIN runs' : runs'[i].status = "active" => runs'[i].aborted
    BY <1>2, <1>3, <1>4
  <2> QED
    BY <2>1 DEF StopSeen
<1> QED
  BY <1>1, <1>4, <1>8, <1>9, ChangeInv

\* What the end of a Stop does to a row.
LEMMA RetiredFacts ==
  ASSUME NEW w, NEW D, w \in [D -> Row]
  PROVE  LET f == Retired(w) IN
         /\ f \in [D -> Row]
         /\ \A r \in D :
               IF w[r].status = "answered" /\ (~w[r].delivered \/ (w[r].decision = "allow" /\ w[r].bound # 0))
               THEN /\ f[r].delivered /\ f[r].bound = w[r].bound /\ f[r].run = w[r].run /\ f[r].status = w[r].status
                    /\ f[r].path = w[r].path /\ f[r].decision = w[r].decision
                    /\ w[r].spent \/ w[r].decision = "allow" => f[r].spent
               ELSE f[r] = w[r]
<1> DEFINE y(r) == [Delivered(w[r]) EXCEPT !.spent = @ \/ Allowed(w[r])]
<1>1. ASSUME NEW r \in D, w[r].status = "answered"
      PROVE  /\ y(r) \in Row /\ y(r).delivered /\ y(r).bound = w[r].bound /\ y(r).run = w[r].run /\ y(r).status = w[r].status
             /\ y(r).path = w[r].path /\ y(r).decision = w[r].decision
             /\ w[r].spent \/ w[r].decision = "allow" => y(r).spent
  <2> DEFINE v == Delivered(w[r])
             u == v.spent \/ Allowed(w[r])
  <2>1. /\ v \in Row /\ v.delivered /\ v.bound = w[r].bound /\ v.run = w[r].run /\ v.status = w[r].status
        /\ v.path = w[r].path /\ v.decision = w[r].decision /\ v.spent = w[r].spent
    BY DeliveredFacts
  <2>2. u \in BOOLEAN
    OBVIOUS
  <2>3. w[r].spent \/ w[r].decision = "allow" => u
    BY <1>1, <2>1 DEF Allowed
  <2>4. y(r) = [v EXCEPT !.spent = u]
    OBVIOUS
  <2> HIDE DEF v, u, y
  <2>5. LET z == [v EXCEPT !.spent = u] IN
        /\ z \in Row /\ z.delivered /\ z.bound = w[r].bound /\ z.run = w[r].run /\ z.status = w[r].status
        /\ z.path = w[r].path /\ z.decision = w[r].decision /\ z.spent = u
    BY <2>1, <2>2 DEF Row
  <2> QED
    BY <2>3, <2>4, <2>5
<1>2. Retired(w) = [r \in D |-> IF w[r].status = "answered" /\ (~w[r].delivered \/ (w[r].decision = "allow" /\ w[r].bound # 0))
                                THEN y(r) ELSE w[r]]
  BY DEF Retired, Allowed
<1> HIDE DEF y
<1> QED
  BY <1>1, <1>2

\* The Stop closes the requests and retires what is armed.
LEMMA CloseStoppedInv ==
  ASSUME Inv, CloseStopped
  PROVE  Inv'
<1> DEFINE closed == Cancelled(rows, Pending)
<1>1. /\ stopping /\ stopping' = FALSE /\ rows' = Retired(closed) /\ voided' = DOMAIN rows
      /\ waiter' = [r \in DOMAIN waiter |-> IF r \in Pending THEN "none" ELSE waiter[r]]
      /\ told' = {} /\ UNCHANGED <<rules, runs, effects, due, resume, used, acts, stopped>>
  BY DEF CloseStopped
<1>2. /\ closed \in [DOMAIN rows -> Row]
      /\ \A r \in DOMAIN rows : rows[r].status # "pending" => closed[r] = rows[r]
      /\ \A r \in DOMAIN rows : rows[r].status = "pending" =>
            /\ closed[r].status = "cancelled" /\ closed[r].run = rows[r].run /\ closed[r].path = rows[r].path
            /\ closed[r].decision = rows[r].decision /\ closed[r].delivered = rows[r].delivered
            /\ closed[r].bound = rows[r].bound /\ closed[r].spent = rows[r].spent
  <2>1. rows \in Seq(Row)
    BY Types
  <2>2. \A r \in DOMAIN rows : r \in Pending <=> rows[r].status = "pending"
    BY DEF Pending
  <2> HIDE DEF closed
  <2>3. closed = Cancelled(rows, Pending)
    BY DEF closed
  <2> QED
    BY <2>1, <2>2, <2>3, CancelledFacts
<1> HIDE DEF closed
<1>3. /\ rows' \in [DOMAIN rows -> Row]
      /\ \A r \in DOMAIN rows :
            IF closed[r].status = "answered" /\ (~closed[r].delivered \/ (closed[r].decision = "allow" /\ closed[r].bound # 0))
            THEN /\ rows'[r].delivered /\ rows'[r].bound = closed[r].bound /\ rows'[r].run = closed[r].run
                 /\ rows'[r].status = closed[r].status /\ rows'[r].path = closed[r].path
                 /\ rows'[r].decision = closed[r].decision
                 /\ closed[r].spent \/ closed[r].decision = "allow" => rows'[r].spent
            ELSE rows'[r] = closed[r]
  BY <1>1, <1>2, RetiredFacts
<1>4. \A r \in DOMAIN rows : waiter'[r] = IF r \in Pending THEN "none" ELSE waiter[r]
  BY <1>1, Types
<1>5. ASSUME NEW r \in DOMAIN rows
      PROVE  /\ RowStep(rows[r], rows'[r]) /\ Sound(rows'[r], waiter'[r], acts[r])
             /\ Fits(rows'[r], waiter'[r], runs[rows[r].run]) /\ Over(rows'[r], runs[rows[r].run])
  <2>1. ~(runs[rows[r].run].status = "active" /\ ~runs[rows[r].run].aborted)
    BY <1>1, Types DEF Inv, StopSeen
  <2>2. CASE rows[r].status = "pending"
    <3>1. waiter'[r] = "none" /\ rows'[r] = closed[r]
      BY <1>2, <1>3, <1>4, <2>2 DEF Pending
    <3>2. RowStep(rows[r], closed[r]) /\ Sound(closed[r], "none", acts[r])
      BY <1>2, <2>2, RowFacts, ClosedFacts
    <3>3. Fits(closed[r], "none", runs[rows[r].run])
      BY <1>2, <2>2, RowFacts DEF Fits
    <3>4. Over(closed[r], runs[rows[r].run])
      BY <1>2, <2>1, <2>2, RowFacts DEF Over, Sound
    <3> QED
      BY <3>1, <3>2, <3>3, <3>4
  <2>3. CASE /\ rows[r].status = "answered"
             /\ ~rows[r].delivered \/ (rows[r].decision = "allow" /\ rows[r].bound # 0)
    <3>1. /\ waiter'[r] = waiter[r]
          /\ rows'[r].delivered /\ rows'[r].bound = rows[r].bound /\ rows'[r].run = rows[r].run
          /\ rows'[r].status = "answered" /\ rows'[r].path = rows[r].path
          /\ rows'[r].decision = rows[r].decision
          /\ rows[r].spent \/ rows[r].decision = "allow" => rows'[r].spent
      BY <1>2, <1>3, <1>4, <2>3 DEF Pending
    <3>2. RowStep(rows[r], rows'[r])
      BY <2>3, <3>1, RowFacts DEF RowStep
    <3>3. Sound(rows'[r], waiter'[r], acts[r])
      BY <2>3, <3>1, RowFacts DEF Sound
    <3>4. Fits(rows'[r], waiter'[r], runs[rows[r].run])
      BY <2>3, <3>1, RowFacts DEF Fits
    <3>5. Over(rows'[r], runs[rows[r].run])
      BY <2>1, <3>1 DEF Over
    <3> QED
      BY <3>2, <3>3, <3>4, <3>5
  <2>4. CASE /\ rows[r].status # "pending"
             /\ ~(rows[r].status = "answered" /\ (~rows[r].delivered \/ (rows[r].decision = "allow" /\ rows[r].bound # 0)))
    <3>1. rows'[r] = rows[r] /\ waiter'[r] = waiter[r]
      BY <1>2, <1>3, <1>4, <2>4 DEF Pending
    <3>2. Over(rows[r], runs[rows[r].run])
      BY <2>1, <2>4, RowFacts DEF Over, Sound
    <3> QED
      BY <3>1, <3>2, RowFacts, Same
  <2> QED
    BY <2>2, <2>3, <2>4
<1>6. RowsChange
  <2>1. waiter' \in [DOMAIN rows -> {"asked", "settled", "none"}] /\ acts' \in [DOMAIN rows -> Nat]
    BY <1>1, Types
  <2>2. stopping' \in BOOLEAN
    BY <1>1, Zenon
  <2> QED
    BY <1>1, <1>3, <1>5, <2>1, <2>2, Types, Same DEF RowsChange, Inv, TypeOK
<1>7. TypeOK' /\ Grows /\ AllSound' /\ AllFit'
  BY <1>6, ChangeFacts
<1>8. AllPrepared'
  BY <1>1, <1>7, PreparedKept
<1>9. AllContinue'
  BY <1>1, <1>7, ContinuesKept DEF AllContinue
<1>10. AllOver'
  <2>1. \A r \in DOMAIN rows : rows'[r].run = rows[r].run
    BY <1>5 DEF RowStep
  <2> QED
    BY <1>1, <1>5, <2>1 DEF AllOver
<1> QED
  BY <1>1, <1>7, <1>8, <1>9, <1>10 DEF Inv, StopSeen

\* What boot does to a row.
LEMMA RecoveredFacts ==
  ASSUME NEW x \in Row, NEW y \in Run, NEW w, NEW n, Sound(x, w, n), y.status # "queued",
         x.path = "continue" => y.status \in Dead
  PROVE  LET z == Recovered(x, y) IN z \in Row /\ RowStep(x, z) /\ Sound(z, "none", n) /\ Fits(z, "none", y)
<1> DEFINE z1 == [x EXCEPT !.status = "cancelled"]
           z2 == [x EXCEPT !.path = "continue", !.uncertain = y.status = "uncertain"]
           z3 == Delivered(x)
<1>1. /\ z1 \in Row /\ z1.status = "cancelled" /\ z1.run = x.run /\ z1.path = x.path /\ z1.decision = x.decision
      /\ z1.delivered = x.delivered /\ z1.bound = x.bound /\ z1.spent = x.spent
  BY DEF Row
<1>2. /\ z2 \in Row /\ z2.status = x.status /\ z2.run = x.run /\ z2.path = "continue" /\ z2.decision = x.decision
      /\ z2.delivered = x.delivered /\ z2.bound = x.bound /\ z2.spent = x.spent
  <2> DEFINE u == (y.status = "uncertain")
  <2>1. u \in BOOLEAN
    OBVIOUS
  <2> HIDE DEF u
  <2>2. /\ [x EXCEPT !.path = "continue", !.uncertain = u] \in Row
        /\ LET z == [x EXCEPT !.path = "continue", !.uncertain = u] IN
           /\ z.status = x.status /\ z.run = x.run /\ z.path = "continue" /\ z.decision = x.decision
           /\ z.delivered = x.delivered /\ z.bound = x.bound /\ z.spent = x.spent
    BY <2>1 DEF Row
  <2> QED
    BY <2>2 DEF u
<1>3. /\ z3 \in Row /\ z3.status = x.status /\ z3.run = x.run /\ z3.path = x.path /\ z3.decision = x.decision
      /\ z3.delivered /\ z3.bound = x.bound /\ z3.spent = x.spent
  BY DeliveredFacts
<1>4. /\ ~CutOff(x) => Recovered(x, y) = x
      /\ CutOff(x) => \/ Recovered(x, y) = z1 /\ x.status = "pending"
                      \/ Recovered(x, y) = z2 /\ y.status \in Dead
                      \/ Recovered(x, y) = z3 /\ x.status = "answered" /\ ~x.delivered
  BY DEF Recovered, CutOff
<1>5. CutOff(x) => x.status = "pending" \/ (x.status = "answered" /\ ~x.delivered /\ x.path = "live")
  BY DEF CutOff
<1> HIDE DEF z1, z2, z3
<1>6. CASE ~CutOff(x)
  <2>1. x.status # "pending" /\ ~(x.status = "answered" /\ ~x.delivered /\ x.path = "live")
    BY <1>6 DEF CutOff
  <2> QED
    BY <1>4, <1>6, <2>1, Same DEF Sound, Fits
<1>7. CASE CutOff(x) /\ Recovered(x, y) = z1 /\ x.status = "pending"
  BY <1>1, <1>7 DEF RowStep, Sound, Fits
<1>8. CASE CutOff(x) /\ Recovered(x, y) = z2 /\ y.status \in Dead
  BY <1>2, <1>5, <1>8 DEF RowStep, Sound, Fits
<1>9. CASE CutOff(x) /\ Recovered(x, y) = z3 /\ x.status = "answered" /\ ~x.delivered
  BY <1>3, <1>9 DEF RowStep, Sound, Fits
<1> QED
  BY <1>4, <1>6, <1>7, <1>8, <1>9

\* The daemon dies and boots.
LEMMA RestartInv ==
  ASSUME Inv, NEW status \in Dead, Restart(status)
  PROVE  Inv'
<1> DEFINE y(i) == [runs[i] EXCEPT !.status = status]
<1>1. /\ runs' = [i \in DOMAIN runs |-> IF runs[i].status = "active" THEN y(i) ELSE runs[i]]
      /\ rows' = [r \in DOMAIN rows |-> Recovered(rows[r], runs'[rows[r].run])]
      /\ used' = [used EXCEPT !.crashes = @ + 1]
      /\ effects' = {} /\ due' = {} /\ told' = {} /\ resume' = TRUE /\ stopping' = FALSE
      /\ waiter' = [r \in DOMAIN waiter |-> "none"]
      /\ UNCHANGED <<rules, acts, stopped, voided>>
  <2>1. \A i \in DOMAIN runs : i \in Active <=> runs[i].status = "active"
    BY DEF Active
  <2> QED
    BY <2>1 DEF Restart
<1>2. ASSUME NEW i \in DOMAIN runs
      PROVE  y(i) \in Run /\ y(i).status = status /\ y(i).continues = runs[i].continues /\ y(i).aborted = runs[i].aborted
  <2>1. runs[i] \in Run /\ status \in {"interrupted", "uncertain"}
    BY Types DEF Dead
  <2> QED
    BY <2>1 DEF Run, Dead
<1> HIDE DEF y
<1>3. runs' \in Seq(Run) /\ DOMAIN runs' = DOMAIN runs
  <2>1. runs' \in [DOMAIN runs -> Run]
    BY <1>1, <1>2, Types
  <2> QED
    BY <2>1, Types, MapFacts
<1>4. \A i \in DOMAIN runs : runs'[i] = IF runs[i].status = "active" THEN y(i) ELSE runs[i]
  BY <1>1
<1>5. \A i \in DOMAIN runs : RunStep(runs[i], runs'[i])
  BY <1>2, <1>4, Same DEF RunStep, Dead
<1>6. ASSUME NEW r \in DOMAIN rows
      PROVE  /\ rows'[r] \in Row /\ RowStep(rows[r], rows'[r]) /\ Sound(rows'[r], "none", acts[r])
             /\ Fits(rows'[r], "none", runs'[rows[r].run])
  <2> DEFINE z == runs'[rows[r].run]
  <2>1. z \in Run /\ rows[r] \in Row /\ rows[r].run \in DOMAIN runs
    BY <1>3, Types
  <2>2. z.status # "queued" /\ (rows[r].path = "continue" => z.status \in Dead)
    BY <1>2, <1>4, <2>1, RowFacts DEF Fits, Dead
  <2>3. rows'[r] = Recovered(rows[r], z)
    BY <1>1
  <2> HIDE DEF z
  <2> QED
    BY <2>1, <2>2, <2>3, RowFacts, RecoveredFacts DEF z
<1>7. used' \in [stops : Nat, crashes : Nat] /\ stopping' \in BOOLEAN /\ resume' \in BOOLEAN
  <2>1. used \in [stops : Nat, crashes : Nat]
    BY DEF Inv, TypeOK
  <2>2. used' \in [stops : Nat, crashes : Nat]
    BY <1>1, <2>1
  <2>3. stopping' \in BOOLEAN /\ resume' \in BOOLEAN
    BY <1>1, Zenon
  <2> QED
    BY <2>2, <2>3
<1>8. RowsChange
  <2>1. \A r \in DOMAIN rows : waiter'[r] = "none"
    BY <1>1, Types
  <2>2. waiter' \in [DOMAIN rows -> {"asked", "settled", "none"}] /\ acts' \in [DOMAIN rows -> Nat]
    BY <1>1, Types
  <2>3. rows' \in [DOMAIN rows -> Row]
    BY <1>1, <1>6
  <2> QED
    BY <1>1, <1>3, <1>5, <1>6, <1>7, <2>1, <2>2, <2>3 DEF RowsChange, Inv, TypeOK
<1> QED
  BY <1>1, <1>3, <1>8, ChangeInv DEF StopSeen

\* Boot continues what was answered before it.
LEMMA ResumeInv ==
  ASSUME Inv, ~stopping, Resume
  PROVE  Inv'
<1>1. UNCHANGED <<rows, rules, runs, effects, waiter, acts, stopping, used, stopped, voided>> /\ resume' = FALSE
  BY DEF Resume
<1> DEFINE ready == UNION {ContinuationDue(rows, i) : i \in DOMAIN runs}
           unsafe == {d \in ready : \E r \in d.ids : rows[r].uncertain}
<1>0. due' = due \cup (ready \ unsafe) /\ told' = told \cup UNION {d.ids : d \in unsafe}
  BY DEF Resume
<1>2. \A d \in due' \ due : \E i \in DOMAIN runs : d \in ContinuationDue(rows, i)
  BY <1>0
<1>5. told' \in SUBSET DOMAIN rows
  <2>1. \A d \in ready : d.ids \in SUBSET DOMAIN rows
    BY DueTyped
  <2> QED
    BY <1>0, <2>1, Types
<1> HIDE DEF ready, unsafe
<1>3. RowsChange
  <2>1. \A d \in due' \ due : d \in [of : DOMAIN runs', ids : SUBSET DOMAIN rows]
    BY <1>1, <1>2, DueTyped
  <2>2. resume' \in BOOLEAN
    BY <1>1, Zenon
  <2> QED
    BY <1>1, <1>5, <2>1, <2>2, RowsStay, RowFacts, Types, Same DEF RowsChange, Inv, TypeOK
<1>4. \A d \in due' \ due : Prepared(d)'
  <2> SUFFICES ASSUME NEW d \in due' \ due
               PROVE  Prepared(d)'
    OBVIOUS
  <2> PICK i \in DOMAIN runs : d \in ContinuationDue(rows, i)
    BY <1>2
  <2>1. TypeOK' /\ AllFit' /\ rows = rows' /\ DOMAIN rows = DOMAIN rows'
    BY <1>1, <1>3, ChangeFacts
  <2> QED
    BY <2>1, DueFacts
<1> QED
  BY <1>1, <1>3, <1>4, ChangeInv DEF StopSeen

-----------------------------------------------------------------------------
(* The invariant, and what follows from it.                                  *)

\* The invariant holds of a thread whose first run has just started.
LEMMA InitInv == Init => Inv
<1> SUFFICES ASSUME Init
             PROVE  Inv
  OBVIOUS
<1> DEFINE y == [NewRun("person", 0) EXCEPT !.status = "active"]
<1>1. y \in Run /\ y.continues = 0
  BY DEF NewRun, Run
<1>2. runs = <<y>> /\ rows = <<>> /\ waiter = <<>> /\ acts = <<>> /\ due = {} /\ told = {} /\ voided = {}
  BY DEF Init
<1>3. resume \in BOOLEAN /\ stopping \in BOOLEAN /\ ~stopping
  BY Zenon DEF Init
<1> HIDE DEF y
<1>4. TypeOK
  <2>1. runs \in Seq(Run) /\ rows \in Seq(Row) /\ waiter \in Seq({"asked", "settled", "none"}) /\ acts \in Seq(Nat)
    BY <1>1, <1>2
  <2>2. used \in [stops : Nat, crashes : Nat] /\ rules = {} /\ effects = {} /\ stopped = {}
    BY DEF Init
  <2> QED
    BY <1>2, <1>3, <2>1, <2>2 DEF TypeOK
<1>5. AllSound /\ AllFit /\ AllOver /\ StopSeen /\ AllPrepared
  BY <1>2, <1>3 DEF AllSound, AllFit, AllOver, StopSeen, AllPrepared
<1>6. AllContinue
  BY <1>1, <1>2 DEF AllContinue, Continues
<1> QED
  BY <1>4, <1>5, <1>6 DEF Inv

\* A stutter keeps the invariant.
LEMMA StillInv ==
  ASSUME Inv, UNCHANGED vars
  PROVE  Inv'
<1>1. UNCHANGED <<rows, rules, runs, effects, waiter, due, resume, stopping, used, acts, stopped, voided, told>>
  BY DEF vars
<1>2. RowsChange
  BY <1>1, RowsStay, RowFacts, Types, Same DEF RowsChange, Inv, TypeOK
<1> QED
  BY <1>1, <1>2, ChangeInv DEF Inv, StopSeen

\* Every step keeps the invariant.
LEMMA StepInv == Inv /\ [Next]_vars => Inv'
<1> SUFFICES ASSUME Inv, [Next]_vars
             PROVE  Inv'
  OBVIOUS
<1>1. CASE ~stopping /\ Work
  BY <1>1, EndRunInv, StartRunInv, AskInv, AnswerInv, RespondInv, ReconcileInv, WithdrawInv, RevokeRuleInv,
     SendInv, ScheduleInv, ContinueInv, RefuseInv, StopInv, ResumeInv DEF Work
<1>2. CASE CloseStopped
  BY <1>2, CloseStoppedInv
<1>3. CASE \E status \in Dead : Restart(status)
  BY <1>3, RestartInv
<1>4. CASE UNCHANGED vars
  BY <1>4, StillInv
<1> QED
  BY <1>1, <1>2, <1>3, <1>4 DEF Next

\* The invariant holds always.
LEMMA AlwaysInv == Spec => []Inv
  BY InitInv, StepInv, PTL DEF Spec

\* The rows of approval_requests and the memory of UserQuestionService keep their types, and a
\* request is always of a run of its thread.
THEOREM TypeCorrect == Spec => []TypeOK
<1>1. Inv => TypeOK
  BY DEF Inv
<1> QED
  BY <1>1, AlwaysInv, PTL

\* An allow of ThreadApprovals.ts lets one tool call run, by the waiting provider or by a grant,
\* whatever is answered, stopped, restarted and continued in between.
THEOREM AllowsActOnce == Spec => []ActedOnce
<1>1. Inv => ActedOnce
  BY DEF Inv, AllSound, Sound, ActedOnce
<1> QED
  BY <1>1, AlwaysInv, PTL

\* settleForSend, recoverOnBoot, writeTerminalRun and retireDelivery leave no card that nobody
\* can answer.
THEOREM CardsAreCurrent == Spec => []CardIsCurrent
<1>1. Inv => CardIsCurrent
  <2> SUFFICES ASSUME Inv, NEW r \in Pending
               PROVE  IF rows[r].path = "live" THEN waiter[r] = "asked" /\ rows[r].run \in Active
                      ELSE runs[rows[r].run].status \in Dead
    BY DEF CardIsCurrent
  <2>1. /\ r \in DOMAIN rows /\ rows[r].status = "pending" /\ rows[r].run \in DOMAIN runs
        /\ rows[r].path \in {"live", "continue"}
    BY Types DEF Pending, Row
  <2> QED
    BY <2>1, RowFacts DEF Fits, Active
<1> QED
  BY <1>1, AlwaysInv, PTL

\* A set without two different members has at most one.
LEMMA AtMostOne ==
  ASSUME NEW S, \A x, y \in S : x = y
  PROVE  Cardinality(S) <= 1
<1>1. CASE S = {}
  BY <1>1, FS_EmptySet
<1>2. CASE S # {}
  <2> PICK x \in S : TRUE
    BY <1>2
  <2>1. S = {x}
    OBVIOUS
  <2> QED
    BY <2>1, FS_Singleton
<1> QED
  BY <1>1, <1>2

\* startApprovalContinuation continues a dead run once and with all of its answers.
THEOREM AnswersStayTogether == Spec => []AnswersTogether
<1>1. Inv => AnswersTogether
  <2> SUFFICES ASSUME Inv, NEW a \in DOMAIN runs
               PROVE  LET next == {i \in DOMAIN runs : runs[i].continues = a} IN
                      /\ Cardinality(next) <= 1
                      /\ next # {} => \A r \in DOMAIN rows : rows[r].run = a => rows[r].status # "pending"
                                                                             /\ r \notin Undelivered(rows)
    BY DEF AnswersTogether
  <2> DEFINE next == {i \in DOMAIN runs : runs[i].continues = a}
  <2>1. a # 0 /\ \A i \in next : Continues(i)
    BY Types DEF Inv, AllContinue
  <2>2. \A i, j \in next : i = j
    BY <2>1 DEF Continues
  <2>3. next # {} => Complete(rows, a, {})
    BY <2>1 DEF Continues
  <2>4. Cardinality(next) <= 1
    <3> HIDE DEF next
    <3> QED
      BY <2>2, AtMostOne
  <2> QED
    BY <2>3, <2>4 DEF Complete
<1> QED
  BY <1>1, AlwaysInv, PTL

\* What a finished Stop found is acted on by no step.
LEMMA VoidedRests ==
  ASSUME Inv, [Next]_vars, NEW r \in voided
  PROVE  acts'[r] = acts[r]
<1>1. /\ r \in DOMAIN rows /\ Over(rows[r], runs[rows[r].run])
      /\ Sound(rows[r], waiter[r], acts[r]) /\ rows[r] \in Row /\ acts[r] \in Nat
  BY Types, RowFacts DEF Inv, TypeOK, AllOver
<1>2. \A decision : Acts(r, decision) = 0
  BY <1>1 DEF Acts, Working, Over
<1>3. CASE acts' = acts
  BY <1>3
<1>4. CASE \E i \in DOMAIN runs, p \in Prints : Ask(i, p)
  <2> PICK i \in DOMAIN runs, p \in Prints : Ask(i, p)
    BY <1>4
  <2>1. CASE Grants(i, p) # {}
    <3>1. PICK s \in Grants(i, p) : acts' = [acts EXCEPT ![s] = @ + 1]
      BY <2>1 DEF Ask
    <3>2. s # r
      BY <1>1, Types DEF Grants, Over, Sound
    <3> QED
      BY <1>1, <3>1, <3>2, Types
  <2>2. CASE Grants(i, p) = {}
    <3>1. acts' = Append(acts, 0)
      BY <2>2 DEF Ask
    <3> QED
      BY <1>1, <3>1, Types, AppendFacts
  <2> QED
    BY <2>1, <2>2
<1>5. ASSUME NEW s \in DOMAIN rows, Deliver(s)
      PROVE  acts'[r] = acts[r]
  <2>1. acts' = acts \/ acts' = [acts EXCEPT ![s] = @ + Acts(s, rows[s].decision)]
    BY <1>5 DEF Deliver
  <2> QED
    BY <1>1, <1>2, <2>1, Types
<1>6. CASE \E s \in DOMAIN rows, decision \in {"allow", "always", "reject"}, who \in {"user", "agent"} : Answer(s, decision, who)
  <2> PICK s \in DOMAIN rows, decision \in {"allow", "always", "reject"}, who \in {"user", "agent"} : Answer(s, decision, who)
    BY <1>6
  <2> DEFINE siblings == {z \in Pending \ {s} : decision = "always" /\ rows[z].print = rows[s].print /\ rows[z].path = "live"}
             meaning == IF decision = "reject" THEN "reject" ELSE "allow"
  <2>1. acts' = [z \in DOMAIN rows |-> acts[z] + IF z \in siblings THEN Acts(z, meaning) ELSE 0]
    BY DEF Answer
  <2>2. r \notin siblings
    BY <1>1 DEF Pending, Over
  <2> HIDE DEF siblings
  <2> QED
    BY <1>1, <2>1, <2>2
<1>7. CASE \E s \in DOMAIN rows : Respond(s)
  <2> PICK s \in DOMAIN rows : Respond(s)
    BY <1>7
  <2>1. Deliver(s) \/ acts' = acts
    BY DEF Respond
  <2> QED
    BY <1>3, <1>5, <2>1
<1>8. CASE \E s \in DOMAIN rows : Reconcile(s)
  BY <1>5, <1>8 DEF Reconcile
<1>9. CASE UNCHANGED vars
  BY <1>3, <1>9 DEF vars
<1>10. CASE CloseStopped \/ (\E status \in Dead : Restart(status))
  BY <1>3, <1>10 DEF CloseStopped, Restart
<1>11. CASE ~stopping /\ Work
  <2>1. ASSUME NEW i, EndRun(i) \/ StartRun(i)
        PROVE  acts' = acts
    BY <2>1 DEF EndRun, StartRun
  <2>2. ASSUME NEW s, Withdraw(s) \/ RevokeRule(s) \/ Continue(s) \/ Refuse(s) \/ Stop(s)
        PROVE  acts' = acts
    BY <2>2 DEF Withdraw, RevokeRule, Continue, Refuse, Stop
  <2>3. ASSUME Send \/ Schedule \/ Resume
        PROVE  acts' = acts
    BY <2>3 DEF Send, Schedule, Resume
  <2> QED
    BY <1>3, <1>4, <1>6, <1>7, <1>8, <1>11, <2>1, <2>2, <2>3 DEF Work
<1> QED
  BY <1>9, <1>10, <1>11 DEF Next

\* retireDelivery and the cancelled requests of a Stop: nothing that was asked before it is acted on
\* after it, by a provider that still waits, a queued run, the next boot or a later turn.
THEOREM StopsEndApprovals == Spec => NothingAfterStop
<1>1. Inv /\ [Next]_vars => \A r \in voided : acts'[r] = acts[r]
  BY VoidedRests
<1>2. Inv /\ [Next]_vars => [\A r \in voided : acts'[r] = acts[r]]_vars
  BY <1>1
<1> QED
  BY <1>2, AlwaysInv, PTL DEF Spec, NothingAfterStop
=============================================================================
