------------------------ MODULE NoticeDeliveryProofs ------------------------
(***************************************************************************)
(* The hold of a task is always current, for every tree of threads and     *)
(* every number of tasks, notices, failures, crashes and Stops.            *)
(***************************************************************************)
EXTENDS NoticeDelivery, SequenceTheorems, FiniteSetTheorems, WellFoundedInduction, TLAPS

-----------------------------------------------------------------------------
(* Sets of naturals.                                                         *)

LEMMA Least ==
  ASSUME NEW S \in SUBSET Nat, S # {}
  PROVE  \E n \in S : \A m \in S : n <= m
<1>1. PICK x \in S : \A y \in S : ~(<<y, x>> \in OpToRel(<, Nat))
  BY NatLessThanWellFounded, WFMin
<1>2. \A y \in S : y \in Nat /\ x \in Nat /\ ~(y < x)
  BY <1>1 DEF OpToRel
<1> QED
  BY <1>2, SMT

LEMMA Greatest ==
  ASSUME NEW n \in Nat, NEW S \in SUBSET Nat, S # {}, \A x \in S : x <= n
  PROVE  \E x \in S : \A y \in S : y <= x
<1> DEFINE B == {b \in Nat : \A y \in S : y <= b}
<1>1. B \in SUBSET Nat /\ n \in B
  OBVIOUS
<1>2. PICK b \in B : \A c \in B : b <= c
  <2> HIDE DEF B
  <2> QED
    BY <1>1, Least
<1>3. CASE b \in S
  BY <1>2, <1>3
<1>4. CASE b \notin S
  <2>1. PICK s \in S : TRUE
    OBVIOUS
  <2>2. s \in Nat /\ b \in Nat /\ s <= b /\ s # b
    BY <1>2, <1>4, <2>1
  <2>3. b - 1 \in Nat /\ b - 1 < b
    BY <2>2
  <2>4. \A y \in S : y \in Nat /\ y <= b /\ y # b
    BY <1>2, <1>4
  <2>5. b - 1 \in B
    BY <2>2, <2>3, <2>4
  <2>6. b <= b - 1
    BY <1>2, <2>5
  <2> QED
    BY <2>2, <2>6
<1> QED
  BY <1>3, <1>4

\* A finite set of naturals in its order has each of them once.
LEMMA InOrderFacts ==
  ASSUME NEW S \in SUBSET Nat, IsFiniteSet(S)
  PROVE  /\ Cardinality(S) \in Nat
         /\ InOrder(S) \in [1 .. Cardinality(S) -> S]
         /\ \A k \in S : \E n \in 1 .. Cardinality(S) : InOrder(S)[n] = k
<1> DEFINE Before(k) == {x \in S : x < k}
           N == Cardinality(S)
<1>1. N \in Nat
  BY FS_CardinalityType
<1>2. \A k \in S : IsFiniteSet(Before(k)) /\ Cardinality(Before(k)) \in Nat /\ Cardinality(Before(k)) < N
  <2> TAKE k \in S
  <2>1. Before(k) \subseteq S /\ k \notin Before(k)
    OBVIOUS
  <2>2. IsFiniteSet(Before(k)) /\ Cardinality(Before(k)) <= N /\ (Cardinality(Before(k)) = N => Before(k) = S)
    BY <2>1, FS_Subset
  <2>3. Cardinality(Before(k)) \in Nat
    BY <2>2, FS_CardinalityType
  <2> QED
    BY <1>1, <2>1, <2>2, <2>3
<1>3. ASSUME NEW k \in S, NEW l \in S, k < l PROVE Cardinality(Before(k)) < Cardinality(Before(l))
  <2>0. k \in Nat /\ l \in Nat /\ \A x \in S : x \in Nat /\ (x < k => x < l)
    BY <1>3
  <2>1. Before(k) \subseteq Before(l)
    BY <2>0
  <2>4. k \in Before(l) /\ k \notin Before(k)
    BY <1>3, <2>0
  <2>2. IsFiniteSet(Before(l))
    BY <1>2
  <2> HIDE DEF Before
  <2>3. Cardinality(Before(k)) <= Cardinality(Before(l)) /\ Cardinality(Before(k)) # Cardinality(Before(l))
    BY <2>1, <2>2, <2>4, FS_Subset
  <2> QED
    BY <1>2, <2>3
<1>4. \A k \in S, l \in S : Cardinality(Before(k)) = Cardinality(Before(l)) => k = l
  <2> TAKE k \in S, l \in S
  <2>1. k \in Nat /\ l \in Nat
    OBVIOUS
  <2>2. k = l \/ k < l \/ l < k
    BY <2>1
  <2> QED
    BY <1>2, <1>3, <2>2
<1> DEFINE place == [k \in S |-> Cardinality(Before(k)) + 1]
<1>5. \A k \in S : place[k] \in 1 .. N /\ place[k] - 1 = Cardinality(Before(k))
  BY <1>1, <1>2
<1>6. place \in Injection(S, 1 .. N)
  <2>1. place \in [S -> 1 .. N]
    BY <1>5
  <2>2. \A k \in S, l \in S : place[k] = place[l] => k = l
    BY <1>4, <1>5
  <2> QED
    BY <2>1, <2>2 DEF Injection, IsInjective
<1>7. IsFiniteSet(1 .. N) /\ Cardinality(1 .. N) = N
  BY <1>1, FS_Interval
<1>8. place \in Surjection(S, 1 .. N)
  <2> HIDE DEF place, N
  <2> QED
    BY <1>6, <1>7, FS_Injection DEF N
<1>9. \A n \in 1 .. N : \E k \in S : place[k] = n
  BY <1>8 DEF Surjection
<1> DEFINE at(n) == CHOOSE k \in S : Cardinality(Before(k)) = n - 1
<1>10. InOrder(S) = [n \in 1 .. N |-> at(n)]
  BY Zenon DEF InOrder
<1>11. \A n \in 1 .. N : at(n) \in S /\ Cardinality(Before(at(n))) = n - 1
  <2> TAKE n \in 1 .. N
  <2>1. \E k \in S : Cardinality(Before(k)) = n - 1
    BY <1>5, <1>9
  <2> HIDE DEF Before
  <2> QED
    BY <2>1
<1> HIDE DEF at, N, Before
<1>12. \A k \in S : \E n \in 1 .. N : at(n) = k
  <2> TAKE k \in S
  <2>1. place[k] \in 1 .. N /\ Cardinality(Before(k)) = place[k] - 1
    BY <1>5
  <2>2. at(place[k]) \in S /\ Cardinality(Before(at(place[k]))) = place[k] - 1
    BY <2>1, <1>11
  <2> QED
    BY <2>1, <2>2, <1>4
<1>13. InOrder(S) \in [1 .. N -> S] /\ \A n \in 1 .. N : InOrder(S)[n] = at(n)
  BY <1>10, <1>11
<1> QED
  BY <1>1, <1>12, <1>13 DEF N

\* The greatest number of a sequence's.
LEMMA MaxOf ==
  ASSUME NEW n \in Nat, n # 0, NEW f \in [1 .. n -> Nat]
  PROVE  Max({f[i] : i \in 1 .. n}) \in Nat
<1> DEFINE Bounded(m) == \E b \in Nat : \A i \in 1 .. m : f[i] <= b
           Unbounded == {m \in 0 .. n : ~Bounded(m)}
<1>1. Bounded(n)
  <2> SUFFICES ASSUME Unbounded # {} PROVE FALSE
    <3>1. n \in 0 .. n
      OBVIOUS
    <3>2. Unbounded = {} => Bounded(n)
      <4> HIDE DEF Bounded
      <4> QED
        BY <3>1
    <3> QED
      BY <3>2
  <2>1. Unbounded \in SUBSET Nat
    OBVIOUS
  <2>2. PICK m \in Unbounded : \A l \in Unbounded : m <= l
    <3> HIDE DEF Unbounded
    <3> QED
      BY <2>1, Least
  <2>3. m \in 0 .. n /\ ~Bounded(m)
    OBVIOUS
  <2>4. Bounded(0)
    <3>1. \A i \in 1 .. 0 : f[i] <= 0
      OBVIOUS
    <3> QED
      BY <3>1
  <2>5. m # 0
    BY <2>3, <2>4
  <2>6. m - 1 \in 0 .. n /\ ~(m <= m - 1) /\ m \in 1 .. n
    BY <2>3, <2>5
  <2>7. Bounded(m - 1)
    BY <2>2, <2>6
  <2>8. PICK b \in Nat : \A i \in 1 .. (m - 1) : f[i] <= b
    BY <2>7
  <2>9. f[m] \in Nat
    BY <2>6
  <2> HIDE DEF Bounded, Unbounded
  <2> DEFINE c == IF f[m] <= b THEN b ELSE f[m]
  <2>10. c \in Nat /\ b <= c /\ f[m] <= c
    <3>1. CASE f[m] <= b
      BY <2>9, <3>1
    <3>2. CASE ~(f[m] <= b)
      <4>1. c = f[m]
        BY <3>2
      <4> HIDE DEF c
      <4> QED
        BY <2>9, <3>2, <4>1
    <3> QED
      BY <3>1, <3>2
  <2>11. \A i \in 1 .. m : f[i] <= c
    <3> TAKE i \in 1 .. m
    <3>1. i \in 1 .. n /\ f[i] \in Nat
      BY <2>6
    <3>2. CASE i = m
      BY <2>10, <3>2
    <3>3. CASE i \in 1 .. (m - 1)
      <4>1. f[i] <= b
        BY <2>8, <3>3
      <4> HIDE DEF c
      <4> QED
        BY <2>10, <3>1, <4>1
    <3> QED
      BY <2>6, <3>2, <3>3
  <2> QED
    BY <2>3, <2>10, <2>11 DEF Bounded
<1>2. PICK b \in Nat : \A i \in 1 .. n : f[i] <= b
  BY <1>1
<1> DEFINE S == {f[i] : i \in 1 .. n}
<1>3. S \in SUBSET Nat /\ \A x \in S : x <= b
  BY <1>2
<1>4. 1 \in 1 .. n
  OBVIOUS
<1>5. S # {}
  BY <1>4
<1>6. PICK x \in S : \A y \in S : y <= x
  <2> HIDE DEF S
  <2> QED
    BY <1>3, <1>5, Greatest
<1>7. \A y \in S : x >= y
  BY <1>3, <1>6
<1>8. Max(S) \in S
  <2> HIDE DEF S
  <2> QED
    BY <1>7 DEF Max
<1> QED
  BY <1>3, <1>8

\* What follows a sequence comes after its last element.
LEMMA Behind ==
  ASSUME NEW S, NEW a \in Seq(S), NEW b \in Seq(S)
  PROVE  LET c == a \o b
         IN /\ c \in Seq(S) /\ DOMAIN c = 1 .. (Len(a) + Len(b))
            /\ \A r \in 1 .. Len(a) : c[r] = a[r]
            /\ \A r \in (Len(a) + 1) .. (Len(a) + Len(b)) : r - Len(a) \in 1 .. Len(b) /\ c[r] = b[r - Len(a)]
<1> DEFINE c == a \o b
           m == Len(a)
           n == Len(b)
<1>1. m \in Nat /\ n \in Nat
  BY LenProperties
<1>2. /\ c \in Seq(S) /\ Len(c) = m + n
      /\ \A i \in 1 .. m + n : c[i] = IF i <= m THEN a[i] ELSE b[i - m]
  BY ConcatProperties, Zenon
<1> HIDE DEF c, m, n
<1>3. DOMAIN c = 1 .. (m + n)
  BY <1>2, LenProperties
<1>4. \A r \in 1 .. m : r \in 1 .. m + n /\ r <= m
  BY <1>1
<1>5. \A r \in (m + 1) .. (m + n) : r \in 1 .. m + n /\ ~(r <= m) /\ r - m \in 1 .. n
  BY <1>1
<1> QED
  BY <1>2, <1>3, <1>4, <1>5 DEF c, m, n

-----------------------------------------------------------------------------
(* The types of the run database, and what its records refer to.             *)

Run ==
    [source : {"person", "task", "wake", "late", "followup"}, status : Statuses,
     start : {"none", "succeeded", "cancelled"} \cup InFlight, at : Nat, rows : SUBSET Nat,
     item : Nat, halted : BOOLEAN, started : BOOLEAN]

Steer == [run : Nat, status : {"pending", "succeeded", "cancelled"}, rows : SUBSET Nat]

Task ==
    [child : Threads, run : Nat, status : {"running", "published", "acknowledged", "cancelled"},
     result : Nat, since : Nat]

Row ==
    [to : Threads, task : Nat, status : {"pending", "delivered", "acknowledged"},
     by : [kind : {"none", "start", "steer", "item"}, n : Nat], tries : Nat, held : Nat, taken : Nat,
     gaveUp : BOOLEAN, reads : SUBSET Nat, waived : BOOLEAN, failures : Nat]

DB ==
    [runs : [Threads -> Seq(Run)], steers : [Threads -> Seq(Steer)], tasks : Seq(Task),
     inbox : Seq(Row)]

\* The notices of a run, of a steer and of the thread they are for.
RunLinked(d, t, run) == run.rows \subseteq Rows(d, t)
SteerLinked(d, t, steer) == steer.run \in DOMAIN d.runs[t] /\ steer.rows \subseteq Rows(d, t)
TaskLinked(d, task) == Parent[task.child] \in Threads /\ task.run \in DOMAIN d.runs[task.child]
RowLinked(d, row) ==
    /\ row.by.kind = "start" => row.by.n \in DOMAIN d.runs[row.to]
    /\ row.by.kind \in {"steer", "item"} => row.by.n \in DOMAIN d.steers[row.to]

Typed(d) ==
    /\ d \in DB
    /\ \A t \in Threads : \A i \in DOMAIN d.runs[t] : RunLinked(d, t, d.runs[t][i])
    /\ \A t \in Threads : \A j \in DOMAIN d.steers[t] : SteerLinked(d, t, d.steers[t][j])
    /\ \A k \in DOMAIN d.tasks : TaskLinked(d, d.tasks[k])
    /\ \A k \in DOMAIN d.inbox : RowLinked(d, d.inbox[k])

LEMMA Parts ==
  ASSUME NEW d \in DB
  PROVE  /\ d = [runs |-> d.runs, steers |-> d.steers, tasks |-> d.tasks, inbox |-> d.inbox]
         /\ \A t \in Threads :
              /\ d.runs[t] \in Seq(Run) /\ DOMAIN d.runs[t] = 1 .. Len(d.runs[t])
              /\ Len(d.runs[t]) \in Nat /\ \A i \in DOMAIN d.runs[t] : d.runs[t][i] \in Run
              /\ d.steers[t] \in Seq(Steer) /\ DOMAIN d.steers[t] = 1 .. Len(d.steers[t])
              /\ Len(d.steers[t]) \in Nat /\ \A j \in DOMAIN d.steers[t] : d.steers[t][j] \in Steer
         /\ d.tasks \in Seq(Task) /\ DOMAIN d.tasks = 1 .. Len(d.tasks) /\ Len(d.tasks) \in Nat
         /\ \A k \in DOMAIN d.tasks : d.tasks[k] \in Task
         /\ d.inbox \in Seq(Row) /\ DOMAIN d.inbox = 1 .. Len(d.inbox) /\ Len(d.inbox) \in Nat
         /\ \A k \in DOMAIN d.inbox : d.inbox[k] \in Row
<1>1. /\ d.runs \in [Threads -> Seq(Run)] /\ d.steers \in [Threads -> Seq(Steer)]
      /\ d.tasks \in Seq(Task) /\ d.inbox \in Seq(Row)
      /\ d = [runs |-> d.runs, steers |-> d.steers, tasks |-> d.tasks, inbox |-> d.inbox]
  BY DEF DB
<1>2. \A S : \A q \in Seq(S) : Len(q) \in Nat /\ DOMAIN q = 1 .. Len(q) /\ \A i \in DOMAIN q : q[i] \in S
  BY LenProperties, ElementOfSeq
<1> QED
  BY <1>1, <1>2

\* A function on an interval from 1 is a sequence.
LEMMA IsSeq ==
  ASSUME NEW S, NEW n \in Nat, NEW f \in [1 .. n -> S]
  PROVE  f \in Seq(S) /\ Len(f) = n /\ DOMAIN f = 1 .. n
<1>1. f \in Seq(S)
  BY SeqDef
<1>2. DOMAIN f = 1 .. n
  OBVIOUS
<1>3. Len(f) \in Nat /\ DOMAIN f = 1 .. Len(f)
  BY <1>1, LenProperties
<1>4. Len(f) = n
  BY <1>2, <1>3
<1> QED
  BY <1>1, <1>2, <1>4

\* One table is replaced: what refers to it still finds what it refers to.
LEMMA RunsReplaced ==
  ASSUME NEW d, Typed(d), NEW runs \in [Threads -> Seq(Run)],
         \A t \in Threads : DOMAIN d.runs[t] \subseteq DOMAIN runs[t],
         \A t \in Threads : \A i \in DOMAIN runs[t] : RunLinked(d, t, runs[t][i])
  PROVE  /\ Typed([d EXCEPT !.runs = runs])
         /\ \A t \in Threads : Rows([d EXCEPT !.runs = runs], t) = Rows(d, t)
<1> DEFINE e == [d EXCEPT !.runs = runs]
<1>1. /\ e \in DB /\ e.runs = runs /\ e.steers = d.steers /\ e.tasks = d.tasks /\ e.inbox = d.inbox
  BY DEF Typed, DB
<1> HIDE DEF e
<1>2. \A t \in Threads : Rows(e, t) = Rows(d, t)
  BY <1>1 DEF Rows
<1>3. \A t \in Threads : \A i \in DOMAIN e.runs[t] : RunLinked(e, t, e.runs[t][i])
  BY <1>1, <1>2 DEF RunLinked
<1>4. \A t \in Threads : \A j \in DOMAIN e.steers[t] : SteerLinked(e, t, e.steers[t][j])
  BY <1>1, <1>2 DEF Typed, SteerLinked
<1>5. \A k \in DOMAIN e.tasks : TaskLinked(e, e.tasks[k])
  BY <1>1, Parts DEF Typed, TaskLinked, Task
<1>6. \A k \in DOMAIN e.inbox : RowLinked(e, e.inbox[k])
  BY <1>1, Parts DEF Typed, RowLinked, Row
<1>7. Typed(e)
  BY <1>1, <1>3, <1>4, <1>5, <1>6 DEF Typed
<1> QED
  BY <1>2, <1>7 DEF e

LEMMA SteersReplaced ==
  ASSUME NEW d, Typed(d), NEW steers \in [Threads -> Seq(Steer)],
         \A t \in Threads : DOMAIN d.steers[t] \subseteq DOMAIN steers[t],
         \A t \in Threads : \A j \in DOMAIN steers[t] : SteerLinked(d, t, steers[t][j])
  PROVE  /\ Typed([d EXCEPT !.steers = steers])
         /\ \A t \in Threads : Rows([d EXCEPT !.steers = steers], t) = Rows(d, t)
<1> DEFINE e == [d EXCEPT !.steers = steers]
<1>1. /\ e \in DB /\ e.runs = d.runs /\ e.steers = steers /\ e.tasks = d.tasks /\ e.inbox = d.inbox
  BY DEF Typed, DB
<1> HIDE DEF e
<1>2. \A t \in Threads : Rows(e, t) = Rows(d, t)
  BY <1>1 DEF Rows
<1>3. \A t \in Threads : \A i \in DOMAIN e.runs[t] : RunLinked(e, t, e.runs[t][i])
  BY <1>1, <1>2 DEF Typed, RunLinked
<1>4. \A t \in Threads : \A j \in DOMAIN e.steers[t] : SteerLinked(e, t, e.steers[t][j])
  BY <1>1, <1>2 DEF SteerLinked
<1>5. \A k \in DOMAIN e.tasks : TaskLinked(e, e.tasks[k])
  BY <1>1 DEF Typed, TaskLinked
<1>6. \A k \in DOMAIN e.inbox : RowLinked(e, e.inbox[k])
  BY <1>1, Parts DEF Typed, RowLinked, Row
<1>7. Typed(e)
  BY <1>1, <1>3, <1>4, <1>5, <1>6 DEF Typed
<1> QED
  BY <1>2, <1>7 DEF e

LEMMA TasksReplaced ==
  ASSUME NEW d, Typed(d), NEW tasks \in Seq(Task), \A k \in DOMAIN tasks : TaskLinked(d, tasks[k])
  PROVE  /\ Typed([d EXCEPT !.tasks = tasks])
         /\ \A t \in Threads : Rows([d EXCEPT !.tasks = tasks], t) = Rows(d, t)
<1> DEFINE e == [d EXCEPT !.tasks = tasks]
<1>1. /\ e \in DB /\ e.runs = d.runs /\ e.steers = d.steers /\ e.tasks = tasks /\ e.inbox = d.inbox
  BY DEF Typed, DB
<1> HIDE DEF e
<1>2. \A t \in Threads : Rows(e, t) = Rows(d, t)
  BY <1>1 DEF Rows
<1>3. \A t \in Threads : \A i \in DOMAIN e.runs[t] : RunLinked(e, t, e.runs[t][i])
  BY <1>1, <1>2 DEF Typed, RunLinked
<1>4. \A t \in Threads : \A j \in DOMAIN e.steers[t] : SteerLinked(e, t, e.steers[t][j])
  BY <1>1, <1>2 DEF Typed, SteerLinked
<1>5. \A k \in DOMAIN e.tasks : TaskLinked(e, e.tasks[k])
  BY <1>1 DEF TaskLinked
<1>6. \A k \in DOMAIN e.inbox : RowLinked(e, e.inbox[k])
  BY <1>1 DEF Typed, RowLinked
<1>7. Typed(e)
  BY <1>1, <1>3, <1>4, <1>5, <1>6 DEF Typed
<1> QED
  BY <1>2, <1>7 DEF e

\* Rows change, and new ones may follow: each stays its thread's.
LEMMA InboxReplaced ==
  ASSUME NEW d, Typed(d), NEW inbox \in Seq(Row),
         DOMAIN d.inbox \subseteq DOMAIN inbox,
         \A k \in DOMAIN d.inbox : inbox[k].to = d.inbox[k].to,
         \A k \in DOMAIN inbox : RowLinked(d, inbox[k])
  PROVE  /\ Typed([d EXCEPT !.inbox = inbox])
         /\ \A t \in Threads : Rows(d, t) \subseteq Rows([d EXCEPT !.inbox = inbox], t)
         /\ DOMAIN inbox = DOMAIN d.inbox =>
              \A t \in Threads : Rows([d EXCEPT !.inbox = inbox], t) = Rows(d, t)
<1> DEFINE e == [d EXCEPT !.inbox = inbox]
<1>1. /\ e \in DB /\ e.runs = d.runs /\ e.steers = d.steers /\ e.tasks = d.tasks /\ e.inbox = inbox
  BY DEF Typed, DB
<1> HIDE DEF e
<1>2. \A t \in Threads : Rows(d, t) \subseteq Rows(e, t)
  BY <1>1 DEF Rows
<1>3. \A t \in Threads : \A i \in DOMAIN e.runs[t] : RunLinked(e, t, e.runs[t][i])
  BY <1>1, <1>2 DEF Typed, RunLinked
<1>4. \A t \in Threads : \A j \in DOMAIN e.steers[t] : SteerLinked(e, t, e.steers[t][j])
  BY <1>1, <1>2 DEF Typed, SteerLinked
<1>5. \A k \in DOMAIN e.tasks : TaskLinked(e, e.tasks[k])
  BY <1>1 DEF Typed, TaskLinked
<1>6. \A k \in DOMAIN e.inbox : RowLinked(e, e.inbox[k])
  BY <1>1 DEF RowLinked
<1>7. Typed(e)
  BY <1>1, <1>3, <1>4, <1>5, <1>6 DEF Typed
<1>8. DOMAIN inbox = DOMAIN d.inbox => \A t \in Threads : Rows(e, t) = Rows(d, t)
  BY <1>1 DEF Rows
<1> QED
  BY <1>2, <1>7, <1>8 DEF e

-----------------------------------------------------------------------------
(* The changes of the inbox.                                                 *)

\* Only these rows change, and each stays its thread's.
RewriteOf(d, e, rows) ==
    /\ Typed(e)
    /\ e.runs = d.runs /\ e.steers = d.steers /\ e.tasks = d.tasks /\ DOMAIN e.inbox = DOMAIN d.inbox
    /\ \A k \in DOMAIN d.inbox : e.inbox[k].to = d.inbox[k].to
    /\ \A k \in DOMAIN d.inbox \ rows : e.inbox[k] = d.inbox[k]
    /\ \A t \in Threads : Rows(e, t) = Rows(d, t)

LEMMA Rewritten ==
  ASSUME NEW d, Typed(d), NEW rows, NEW box \in [DOMAIN d.inbox -> Row],
         \A k \in DOMAIN d.inbox : box[k].to = d.inbox[k].to /\ RowLinked(d, box[k]),
         \A k \in DOMAIN d.inbox \ rows : box[k] = d.inbox[k]
  PROVE  RewriteOf(d, [d EXCEPT !.inbox = box], rows)
<1> DEFINE e == [d EXCEPT !.inbox = box]
<1>1. DOMAIN d.inbox = 1 .. Len(d.inbox) /\ Len(d.inbox) \in Nat
  BY Parts DEF Typed
<1>2. box \in Seq(Row) /\ DOMAIN box = DOMAIN d.inbox
  BY <1>1, IsSeq
<1>3. Typed(e) /\ \A t \in Threads : Rows(e, t) = Rows(d, t)
  BY <1>2, InboxReplaced
<1>4. e.runs = d.runs /\ e.steers = d.steers /\ e.tasks = d.tasks /\ e.inbox = box
  BY DEF Typed, DB
<1> QED
  BY <1>2, <1>3, <1>4 DEF RewriteOf

LEMMA CountedNat ==
  ASSUME NEW n \in Nat
  PROVE  Counted(n) \in Nat
BY DeliveryAssumption DEF Counted

LEMMA AcknowledgeRewrites ==
  ASSUME NEW d, Typed(d), NEW rows, NEW waived \in BOOLEAN
  PROVE  RewriteOf(d, Acknowledge(d, rows, waived), rows)
<1> DEFINE row(k) == [d.inbox[k] EXCEPT !.status = "acknowledged", !.waived = waived]
           box == [k \in DOMAIN d.inbox |-> IF k \in rows /\ d.inbox[k].status # "acknowledged" THEN row(k) ELSE d.inbox[k]]
<1>1. \A k \in DOMAIN d.inbox : d.inbox[k] \in Row /\ RowLinked(d, d.inbox[k])
  BY Parts DEF Typed
<1>2. \A k \in DOMAIN d.inbox : k \in rows /\ d.inbox[k].status # "acknowledged" => row(k) \in Row /\ row(k).to = d.inbox[k].to /\ RowLinked(d, row(k))
  <2> TAKE k \in DOMAIN d.inbox
  <2> HAVE k \in rows /\ d.inbox[k].status # "acknowledged"
  <2>1. d.inbox[k] \in Row /\ RowLinked(d, d.inbox[k])
    BY <1>1
  <2> QED
    BY <2>1 DEF Row, RowLinked, Nobody
<1>3. Acknowledge(d, rows, waived) = [d EXCEPT !.inbox = box]
  BY DEF Acknowledge
<1> HIDE DEF row
<1>4. /\ box \in [DOMAIN d.inbox -> Row]
      /\ \A k \in DOMAIN d.inbox : box[k].to = d.inbox[k].to /\ RowLinked(d, box[k])
      /\ \A k \in DOMAIN d.inbox \ rows : box[k] = d.inbox[k]
  BY <1>1, <1>2
<1> HIDE DEF box
<1> QED
  BY <1>3, <1>4, Rewritten

LEMMA PendingAgainRewrites ==
  ASSUME NEW d, Typed(d), NEW rows, NEW failed \in BOOLEAN
  PROVE  RewriteOf(d, PendingAgain(d, rows, failed), rows)
<1> DEFINE row(k) == [d.inbox[k] EXCEPT !.status = "pending", !.by = Nobody, !.tries = Counted(@),
                                       !.failures = IF failed THEN Counted(@) ELSE @]
           box == [k \in DOMAIN d.inbox |-> IF k \in rows /\ d.inbox[k].status = "delivered" THEN row(k) ELSE d.inbox[k]]
<1>1. \A k \in DOMAIN d.inbox : d.inbox[k] \in Row /\ RowLinked(d, d.inbox[k])
  BY Parts DEF Typed
<1>2. \A k \in DOMAIN d.inbox : k \in rows /\ d.inbox[k].status = "delivered" => row(k) \in Row /\ row(k).to = d.inbox[k].to /\ RowLinked(d, row(k))
  <2> TAKE k \in DOMAIN d.inbox
  <2> HAVE k \in rows /\ d.inbox[k].status = "delivered"
  <2>1. d.inbox[k] \in Row /\ RowLinked(d, d.inbox[k])
    BY <1>1
  <2>2. Counted(d.inbox[k].tries) \in Nat /\ Counted(d.inbox[k].failures) \in Nat
    BY <2>1, CountedNat DEF Row
  <2> QED
    BY <2>1, <2>2 DEF Row, RowLinked, Nobody
<1>3. PendingAgain(d, rows, failed) = [d EXCEPT !.inbox = box]
  BY DEF PendingAgain
<1> HIDE DEF row
<1>4. /\ box \in [DOMAIN d.inbox -> Row]
      /\ \A k \in DOMAIN d.inbox : box[k].to = d.inbox[k].to /\ RowLinked(d, box[k])
      /\ \A k \in DOMAIN d.inbox \ rows : box[k] = d.inbox[k]
  BY <1>1, <1>2
<1> HIDE DEF box
<1> QED
  BY <1>3, <1>4, Rewritten

LEMMA ReleaseRewrites ==
  ASSUME NEW d, Typed(d), NEW own
  PROVE  RewriteOf(d, Release(d, own), own)
<1> DEFINE row(k) == [d.inbox[k] EXCEPT !.status = "pending", !.by = Nobody]
           box == [k \in DOMAIN d.inbox |-> IF k \in own THEN row(k) ELSE d.inbox[k]]
<1>1. \A k \in DOMAIN d.inbox : d.inbox[k] \in Row /\ RowLinked(d, d.inbox[k])
  BY Parts DEF Typed
<1>2. \A k \in DOMAIN d.inbox : k \in own => row(k) \in Row /\ row(k).to = d.inbox[k].to /\ RowLinked(d, row(k))
  <2> TAKE k \in DOMAIN d.inbox
  <2> HAVE k \in own
  <2>1. d.inbox[k] \in Row /\ RowLinked(d, d.inbox[k])
    BY <1>1
  <2> QED
    BY <2>1 DEF Row, RowLinked, Nobody
<1>3. Release(d, own) = [d EXCEPT !.inbox = box]
  BY DEF Release
<1> HIDE DEF row
<1>4. /\ box \in [DOMAIN d.inbox -> Row]
      /\ \A k \in DOMAIN d.inbox : box[k].to = d.inbox[k].to /\ RowLinked(d, box[k])
      /\ \A k \in DOMAIN d.inbox \ own : box[k] = d.inbox[k]
  BY <1>1, <1>2
<1> HIDE DEF box
<1> QED
  BY <1>3, <1>4, Rewritten

LEMMA ToItemsRewrites ==
  ASSUME NEW d, Typed(d), NEW own,
         \A k \in own \cap DOMAIN d.inbox : d.inbox[k].by.kind \in {"steer", "item"}
  PROVE  RewriteOf(d, ToItems(d, own), own)
<1> DEFINE row(k) == [d.inbox[k] EXCEPT !.by = ItemOf(@.n)]
           box == [k \in DOMAIN d.inbox |-> IF k \in own THEN row(k) ELSE d.inbox[k]]
<1>1. \A k \in DOMAIN d.inbox : d.inbox[k] \in Row /\ RowLinked(d, d.inbox[k])
  BY Parts DEF Typed
<1>2. \A k \in DOMAIN d.inbox : k \in own => row(k) \in Row /\ row(k).to = d.inbox[k].to /\ RowLinked(d, row(k))
  <2> TAKE k \in DOMAIN d.inbox
  <2> HAVE k \in own
  <2>1. d.inbox[k] \in Row /\ RowLinked(d, d.inbox[k])
    BY <1>1
  <2>2. d.inbox[k].by.kind \in {"steer", "item"} /\ d.inbox[k].by.n \in Nat
    BY <2>1 DEF Row
  <2> QED
    BY <2>1, <2>2 DEF Row, RowLinked, ItemOf
<1>3. ToItems(d, own) = [d EXCEPT !.inbox = box]
  BY DEF ToItems
<1> HIDE DEF row
<1>4. /\ box \in [DOMAIN d.inbox -> Row]
      /\ \A k \in DOMAIN d.inbox : box[k].to = d.inbox[k].to /\ RowLinked(d, box[k])
      /\ \A k \in DOMAIN d.inbox \ own : box[k] = d.inbox[k]
  BY <1>1, <1>2
<1> HIDE DEF box
<1> QED
  BY <1>3, <1>4, Rewritten

LEMMA ToStartRewrites ==
  ASSUME NEW d, Typed(d), NEW own, NEW i \in Nat,
         \A k \in own \cap DOMAIN d.inbox : i \in DOMAIN d.runs[d.inbox[k].to]
  PROVE  RewriteOf(d, ToStart(d, own, i), own)
<1> DEFINE row(k) == [d.inbox[k] EXCEPT !.by = StartOf(i)]
           box == [k \in DOMAIN d.inbox |-> IF k \in own THEN row(k) ELSE d.inbox[k]]
<1>1. \A k \in DOMAIN d.inbox : d.inbox[k] \in Row /\ RowLinked(d, d.inbox[k])
  BY Parts DEF Typed
<1>2. \A k \in DOMAIN d.inbox : k \in own => row(k) \in Row /\ row(k).to = d.inbox[k].to /\ RowLinked(d, row(k))
  <2> TAKE k \in DOMAIN d.inbox
  <2> HAVE k \in own
  <2>1. d.inbox[k] \in Row /\ RowLinked(d, d.inbox[k])
    BY <1>1
  <2> QED
    BY <2>1 DEF Row, RowLinked, StartOf
<1>3. ToStart(d, own, i) = [d EXCEPT !.inbox = box]
  BY DEF ToStart
<1> HIDE DEF row
<1>4. /\ box \in [DOMAIN d.inbox -> Row]
      /\ \A k \in DOMAIN d.inbox : box[k].to = d.inbox[k].to /\ RowLinked(d, box[k])
      /\ \A k \in DOMAIN d.inbox \ own : box[k] = d.inbox[k]
  BY <1>1, <1>2
<1> HIDE DEF box
<1> QED
  BY <1>3, <1>4, Rewritten

LEMMA MarkHeldRewrites ==
  ASSUME NEW d, Typed(d), NEW own
  PROVE  RewriteOf(d, MarkHeld(d, own), own)
<1> DEFINE row(k) == [d.inbox[k] EXCEPT !.held = d.inbox[k].by.n]
           box == [k \in DOMAIN d.inbox |-> IF k \in own THEN row(k) ELSE d.inbox[k]]
<1>1. \A k \in DOMAIN d.inbox : d.inbox[k] \in Row /\ RowLinked(d, d.inbox[k])
  BY Parts DEF Typed
<1>2. \A k \in DOMAIN d.inbox : k \in own => row(k) \in Row /\ row(k).to = d.inbox[k].to /\ RowLinked(d, row(k))
  <2> TAKE k \in DOMAIN d.inbox
  <2> HAVE k \in own
  <2>1. d.inbox[k] \in Row /\ RowLinked(d, d.inbox[k])
    BY <1>1
  <2> QED
    BY <2>1 DEF Row, RowLinked, Nobody
<1>3. MarkHeld(d, own) = [d EXCEPT !.inbox = box]
  BY DEF MarkHeld
<1> HIDE DEF row
<1>4. /\ box \in [DOMAIN d.inbox -> Row]
      /\ \A k \in DOMAIN d.inbox : box[k].to = d.inbox[k].to /\ RowLinked(d, box[k])
      /\ \A k \in DOMAIN d.inbox \ own : box[k] = d.inbox[k]
  BY <1>1, <1>2
<1> HIDE DEF box
<1> QED
  BY <1>3, <1>4, Rewritten

LEMMA MarkTakenRewrites ==
  ASSUME NEW d, Typed(d), NEW own, NEW taken \in BOOLEAN
  PROVE  RewriteOf(d, MarkTaken(d, own, taken), own)
<1> DEFINE row(k) == [d.inbox[k] EXCEPT !.taken = IF taken THEN d.inbox[k].by.n ELSE 0]
           box == [k \in DOMAIN d.inbox |-> IF k \in own THEN row(k) ELSE d.inbox[k]]
<1>1. \A k \in DOMAIN d.inbox : d.inbox[k] \in Row /\ RowLinked(d, d.inbox[k])
  BY Parts DEF Typed
<1>2. \A k \in DOMAIN d.inbox : k \in own => row(k) \in Row /\ row(k).to = d.inbox[k].to /\ RowLinked(d, row(k))
  <2> TAKE k \in DOMAIN d.inbox
  <2> HAVE k \in own
  <2>1. d.inbox[k] \in Row /\ RowLinked(d, d.inbox[k])
    BY <1>1
  <2> QED
    BY <2>1 DEF Row, RowLinked, Nobody
<1>3. MarkTaken(d, own, taken) = [d EXCEPT !.inbox = box]
  BY DEF MarkTaken
<1> HIDE DEF row
<1>4. /\ box \in [DOMAIN d.inbox -> Row]
      /\ \A k \in DOMAIN d.inbox : box[k].to = d.inbox[k].to /\ RowLinked(d, box[k])
      /\ \A k \in DOMAIN d.inbox \ own : box[k] = d.inbox[k]
  BY <1>1, <1>2
<1> HIDE DEF box
<1> QED
  BY <1>3, <1>4, Rewritten

-----------------------------------------------------------------------------
(* The settlement of a hold.                                                 *)

Quiet(d, memory, threads) == {t \in threads : RunningInto(d, t) # {} /\ ~Busy(d, memory, t)}
Published(d, memory, threads) == UNION {RunningInto(d, t) : t \in Quiet(d, memory, threads)}

LEMMA LatestNat ==
  ASSUME NEW d, Typed(d), NEW k \in DOMAIN d.tasks
  PROVE  LatestResultRun(d, k) \in Nat
<1> DEFINE t == d.tasks[k].child
           sources == {i \in DOMAIN d.runs[t] : /\ d.runs[t][i].status \in Terminal
                                                /\ d.runs[t][i].started \/ i = d.tasks[k].run}
<1>1. t \in Threads
  BY Parts DEF Typed, Task
<1>2. DOMAIN d.runs[t] = 1 .. Len(d.runs[t]) /\ Len(d.runs[t]) \in Nat
  BY <1>1, Parts DEF Typed
<1>3. sources \in SUBSET Nat /\ \A i \in sources : i <= Len(d.runs[t])
  <2>1. \A i \in 1 .. Len(d.runs[t]) : i \in Nat /\ i <= Len(d.runs[t])
    BY <1>2
  <2>2. sources \subseteq 1 .. Len(d.runs[t])
    BY <1>2
  <2> HIDE DEF sources, t
  <2> QED
    BY <2>1, <2>2
<1>4. LatestResultRun(d, k) = IF sources = {} THEN 0
                              ELSE CHOOSE i \in sources : \A other \in sources : other <= i
  BY DEF LatestResultRun
<1> HIDE DEF sources, t
<1>5. sources # {} => \E i \in sources : \A other \in sources : other <= i
  BY <1>2, <1>3, Greatest
<1>6. sources # {} => (CHOOSE i \in sources : \A other \in sources : other <= i) \in sources
  BY <1>5
<1>7. CASE sources = {}
  BY <1>4, <1>7
<1>8. CASE sources # {}
  BY <1>3, <1>4, <1>6, <1>8
<1> QED
  BY <1>7, <1>8

\* The tasks that publish have a row each, behind those that were there.
SettledFrom(d, e, published) ==
    /\ e.runs = d.runs /\ e.steers = d.steers
    /\ published \subseteq DOMAIN d.tasks
    /\ DOMAIN e.tasks = DOMAIN d.tasks
    /\ \A k \in DOMAIN d.tasks \ published : e.tasks[k] = d.tasks[k]
    /\ \A k \in published :
         /\ d.tasks[k].status = "running"
         /\ e.tasks[k] = [d.tasks[k] EXCEPT !.status = "published",
                            !.result = IF Undelivered(d, k) THEN 0 ELSE LatestResultRun(d, k)]
    /\ DOMAIN d.inbox \subseteq DOMAIN e.inbox
    /\ \A r \in DOMAIN d.inbox : e.inbox[r] = d.inbox[r]
    /\ \A r \in DOMAIN e.inbox \ DOMAIN d.inbox :
         \E k \in published : e.inbox[r] = NewRow(Parent[d.tasks[k].child], k)
    /\ \A k \in published :
         \E r \in DOMAIN e.inbox \ DOMAIN d.inbox : e.inbox[r] = NewRow(Parent[d.tasks[k].child], k)

LEMMA SettleFacts ==
  ASSUME NEW d, Typed(d), NEW memory, NEW threads \in SUBSET Threads
  PROVE  /\ Typed(Settle(d, memory, threads))
         /\ SettledFrom(d, Settle(d, memory, threads), Published(d, memory, threads))
<1> DEFINE published == Published(d, memory, threads)
           ended == InOrder(published)
           settled(k) == [d.tasks[k] EXCEPT !.status = "published",
                            !.result = IF Undelivered(d, k) THEN 0 ELSE LatestResultRun(d, k)]
           tasks == [k \in DOMAIN d.tasks |-> IF k \in published THEN settled(k) ELSE d.tasks[k]]
           notice(k) == NewRow(Parent[d.tasks[k].child], k)
           notices == [n \in DOMAIN ended |-> notice(ended[n])]
           N == Cardinality(published)
           e == [d EXCEPT !.tasks = tasks, !.inbox = d.inbox \o notices]
<1>0. Settle(d, memory, threads) = e
  BY Zenon DEF Settle, Published, Quiet
<1>1. /\ DOMAIN d.tasks = 1 .. Len(d.tasks) /\ Len(d.tasks) \in Nat
      /\ \A k \in DOMAIN d.tasks : d.tasks[k] \in Task /\ TaskLinked(d, d.tasks[k])
      /\ d.inbox \in Seq(Row) /\ DOMAIN d.inbox = 1 .. Len(d.inbox) /\ Len(d.inbox) \in Nat
  BY Parts DEF Typed
<1>2. published \subseteq DOMAIN d.tasks /\ \A k \in published : d.tasks[k].status = "running"
  BY DEF Published, Quiet, RunningInto
<1>3. published \in SUBSET Nat /\ IsFiniteSet(published)
  <2>1. IsFiniteSet(1 .. Len(d.tasks))
    BY <1>1, FS_Interval
  <2> QED
    BY <1>1, <1>2, <2>1, FS_Subset
<1>4. /\ N \in Nat /\ ended \in [1 .. N -> published]
      /\ \A k \in published : \E n \in 1 .. N : ended[n] = k
  <2> HIDE DEF published
  <2> QED
    BY <1>3, InOrderFacts
<1> HIDE DEF published, ended, N
<1>5. \A k \in published : settled(k) \in Task /\ TaskLinked(d, settled(k))
  <2> TAKE k \in published
  <2>1. d.tasks[k] \in Task /\ TaskLinked(d, d.tasks[k]) /\ LatestResultRun(d, k) \in Nat
    BY <1>1, <1>2, LatestNat
  <2>2. (IF Undelivered(d, k) THEN 0 ELSE LatestResultRun(d, k)) \in Nat
    BY <2>1
  <2> QED
    BY <2>1, <2>2 DEF Task, TaskLinked
<1>6. \A k \in published : notice(k) \in Row /\ RowLinked(d, notice(k))
  <2> TAKE k \in published
  <2>1. Parent[d.tasks[k].child] \in Threads /\ k \in Nat
    BY <1>1, <1>2, <1>3 DEF TaskLinked
  <2> QED
    BY <2>1 DEF NewRow, Row, RowLinked, Nobody
<1> HIDE DEF settled, notice
<1>7. tasks \in Seq(Task) /\ DOMAIN tasks = DOMAIN d.tasks /\ \A k \in DOMAIN tasks : TaskLinked(d, tasks[k])
  <2>1. tasks \in [1 .. Len(d.tasks) -> Task]
    BY <1>1, <1>5
  <2>2. \A k \in DOMAIN d.tasks : TaskLinked(d, tasks[k])
    BY <1>1, <1>5
  <2> HIDE DEF tasks
  <2> QED
    BY <1>1, <2>1, <2>2, IsSeq
<1> DEFINE f == [d EXCEPT !.tasks = tasks]
<1>8. Typed(f)
  <2> HIDE DEF tasks
  <2> QED
    BY <1>7, TasksReplaced
<1>9. /\ f.runs = d.runs /\ f.steers = d.steers /\ f.tasks = tasks /\ f.inbox = d.inbox
  BY DEF Typed, DB
<1>10. notices \in Seq(Row) /\ Len(notices) = N
  <2>1. notices \in [1 .. N -> Row]
    BY <1>4, <1>6
  <2> HIDE DEF notices
  <2> QED
    BY <1>4, <2>1, IsSeq
<1>11. /\ \A n \in 1 .. N : notices[n] = notice(ended[n]) /\ ended[n] \in published
  BY <1>4
<1> DEFINE inbox == d.inbox \o notices
<1> HIDE DEF notices
<1>12. /\ inbox \in Seq(Row) /\ DOMAIN inbox = 1 .. (Len(d.inbox) + N)
       /\ \A r \in 1 .. Len(d.inbox) : inbox[r] = d.inbox[r]
       /\ \A r \in (Len(d.inbox) + 1) .. (Len(d.inbox) + N) :
            r - Len(d.inbox) \in 1 .. N /\ inbox[r] = notices[r - Len(d.inbox)]
  <2> HIDE DEF e, f, tasks, N
  <2>1. /\ inbox \in Seq(Row) /\ DOMAIN inbox = 1 .. (Len(d.inbox) + Len(notices))
        /\ \A r \in 1 .. Len(d.inbox) : inbox[r] = d.inbox[r]
        /\ \A r \in (Len(d.inbox) + 1) .. (Len(d.inbox) + Len(notices)) :
             r - Len(d.inbox) \in 1 .. Len(notices) /\ inbox[r] = notices[r - Len(d.inbox)]
    <3> DEFINE a == d.inbox
    <3>1. a \in Seq(Row) /\ notices \in Seq(Row) /\ inbox = a \o notices
      BY <1>1, <1>10
    <3> HIDE DEF a, inbox
    <3>2. /\ a \o notices \in Seq(Row) /\ DOMAIN (a \o notices) = 1 .. (Len(a) + Len(notices))
          /\ \A r \in 1 .. Len(a) : (a \o notices)[r] = a[r]
          /\ \A r \in (Len(a) + 1) .. (Len(a) + Len(notices)) :
               r - Len(a) \in 1 .. Len(notices) /\ (a \o notices)[r] = notices[r - Len(a)]
      BY <3>1, Behind
    <3> QED
      BY <3>1, <3>2 DEF a
  <2> HIDE DEF inbox
  <2> QED
    BY <1>10, <2>1
<1> HIDE DEF inbox
<1>13. /\ DOMAIN d.inbox \subseteq DOMAIN inbox
       /\ \A r \in DOMAIN d.inbox : inbox[r] = d.inbox[r]
       /\ \A r \in DOMAIN inbox \ DOMAIN d.inbox : \E k \in published : inbox[r] = notice(k)
  <2>1. DOMAIN d.inbox \subseteq DOMAIN inbox /\ \A r \in DOMAIN d.inbox : inbox[r] = d.inbox[r]
    BY <1>1, <1>4, <1>12
  <2>2. \A r \in DOMAIN inbox \ DOMAIN d.inbox : r \in (Len(d.inbox) + 1) .. (Len(d.inbox) + N)
    BY <1>1, <1>4, <1>12
  <2>3. \A r \in DOMAIN inbox \ DOMAIN d.inbox :
          inbox[r] = notice(ended[r - Len(d.inbox)]) /\ ended[r - Len(d.inbox)] \in published
    BY <2>2, <1>11, <1>12
  <2> QED
    BY <2>1, <2>3
<1>14. \A k \in published : \E r \in DOMAIN inbox \ DOMAIN d.inbox : inbox[r] = notice(k)
  <2> TAKE k \in published
  <2>1. PICK n \in 1 .. N : ended[n] = k
    BY <1>4
  <2>2. /\ Len(d.inbox) + n \in (Len(d.inbox) + 1) .. (Len(d.inbox) + N)
        /\ Len(d.inbox) + n \in DOMAIN inbox /\ Len(d.inbox) + n \notin DOMAIN d.inbox
        /\ Len(d.inbox) + n - Len(d.inbox) = n
    BY <1>1, <1>4, <1>12
  <2>3. inbox[Len(d.inbox) + n] = notice(k)
    BY <2>1, <2>2, <1>11, <1>12
  <2> QED
    BY <2>2, <2>3
<1>15. \A r \in DOMAIN inbox : RowLinked(f, inbox[r])
  <2> TAKE r \in DOMAIN inbox
  <2>1. CASE r \in DOMAIN d.inbox
    BY <2>1, <1>8, <1>9, <1>13 DEF Typed
  <2>2. CASE r \notin DOMAIN d.inbox
    BY <2>2, <1>6, <1>9, <1>13 DEF RowLinked
  <2> QED
    BY <2>1, <2>2
<1>16. e = [f EXCEPT !.inbox = inbox]
  BY DEF inbox, Typed, DB
<1> HIDE DEF f
<1>17. Typed([f EXCEPT !.inbox = inbox])
  BY <1>8, <1>9, <1>12, <1>13, <1>15, InboxReplaced
<1>18. e.runs = d.runs /\ e.steers = d.steers /\ e.tasks = tasks /\ e.inbox = inbox
  BY DEF inbox, Typed, DB
<1> HIDE DEF e
<1>19. /\ \A k \in DOMAIN d.tasks \ published : tasks[k] = d.tasks[k]
       /\ \A k \in published : tasks[k] = settled(k)
  BY <1>2
<1> HIDE DEF tasks
<1>20. /\ Typed(e) /\ e.runs = d.runs /\ e.steers = d.steers /\ published \subseteq DOMAIN d.tasks
       /\ DOMAIN e.tasks = DOMAIN d.tasks /\ \A k \in DOMAIN d.tasks \ published : e.tasks[k] = d.tasks[k]
       /\ \A k \in published : d.tasks[k].status = "running" /\ e.tasks[k] = settled(k)
  BY <1>2, <1>7, <1>16, <1>17, <1>18, <1>19
<1>21. /\ DOMAIN d.inbox \subseteq DOMAIN e.inbox /\ \A r \in DOMAIN d.inbox : e.inbox[r] = d.inbox[r]
       /\ \A r \in DOMAIN e.inbox \ DOMAIN d.inbox : \E k \in published : e.inbox[r] = notice(k)
       /\ \A k \in published : \E r \in DOMAIN e.inbox \ DOMAIN d.inbox : e.inbox[r] = notice(k)
  BY <1>13, <1>14, <1>18
<1>22. SettledFrom(d, e, published)
  BY <1>20, <1>21 DEF SettledFrom, settled, notice
<1> QED
  BY <1>0, <1>20, <1>22 DEF published

-----------------------------------------------------------------------------
(* What keeps a task held.                                                   *)

Held(d, memory, t) == RunningInto(d, t) # {} => Busy(d, memory, t)

\* Nothing that a thread's hold reads in its own tables is different.
Untouched(d, e, t) ==
    /\ e.runs[t] = d.runs[t] /\ e.steers[t] = d.steers[t]
    /\ \A k \in Rows(d, t) : k \in DOMAIN e.inbox /\ e.inbox[k] = d.inbox[k]

\* A step of one thread.
Beside(d, e, t) ==
    /\ e.tasks = d.tasks
    /\ \A u \in Threads \ {t} : Untouched(d, e, u)

LEMMA ActionableKept ==
  ASSUME NEW d, NEW e, NEW t, Untouched(d, e, t), NEW k \in Rows(d, t)
  PROVE  k \in Rows(e, t) /\ (Actionable(e, e.inbox[k]) <=> Actionable(d, d.inbox[k]))
<1>1. e.inbox[k] = d.inbox[k] /\ d.inbox[k].to = t /\ k \in DOMAIN e.inbox
  BY DEF Untouched, Rows
<1>2. e.runs[t] = d.runs[t] /\ e.steers[t] = d.steers[t]
  BY DEF Untouched
<1>3. CarrierRun(e, d.inbox[k]) = CarrierRun(d, d.inbox[k])
  BY <1>1, <1>2 DEF CarrierRun
<1>4. LegacySteer(e, d.inbox[k]) <=> LegacySteer(d, d.inbox[k])
  BY <1>1, <1>2, <1>3 DEF LegacySteer
<1> QED
  BY <1>1, <1>3, <1>4 DEF Actionable, Rows

\* An untouched thread stays held while its tasks and those it waits for are what they were.
LEMMA StaysHeld ==
  ASSUME NEW d, NEW e, NEW m, NEW m2, NEW t \in Threads, Held(d, m, t), Untouched(d, e, t),
         RunningInto(e, t) # {} => RunningInto(d, t) # {},
         \A c \in Threads : Parent[c] = t /\ RunningInto(d, c) # {} => RunningInto(e, c) # {},
         t \in m => t \in m2
  PROVE  Held(e, m2, t)
<1> SUFFICES ASSUME RunningInto(e, t) # {} PROVE Busy(e, m2, t)
  BY DEF Held
<1>1. Busy(d, m, t)
  BY DEF Held
<1>2. e.runs[t] = d.runs[t] /\ e.steers[t] = d.steers[t]
  BY DEF Untouched
<1>3. CASE \E i \in DOMAIN d.runs[t] : d.runs[t][i].status \notin Terminal
  BY <1>2, <1>3 DEF Busy
<1>4. CASE \E c \in Threads : Parent[c] = t /\ RunningInto(d, c) # {}
  BY <1>4 DEF Busy
<1>5. CASE \E k \in Rows(d, t) : Actionable(d, d.inbox[k])
  BY <1>5, ActionableKept DEF Busy
<1>6. CASE DeliveryInFlight(d, t)
  BY <1>2, <1>6 DEF Busy, DeliveryInFlight
<1>7. CASE t \in m
  BY <1>7 DEF Busy
<1> QED
  BY <1>1, <1>3, <1>4, <1>5, <1>6, <1>7 DEF Busy

LEMMA BesideHeld ==
  ASSUME NEW d, NEW e, NEW m, NEW m2, NEW t, NEW u \in Threads \ {t}, Beside(d, e, t), Held(d, m, u),
         u \in m => u \in m2
  PROVE  Held(e, m2, u)
<1>1. \A c : RunningInto(e, c) = RunningInto(d, c)
  BY DEF Beside, RunningInto
<1>2. Untouched(d, e, u)
  BY DEF Beside
<1> QED
  BY <1>1, <1>2, StaysHeld

LEMMA BesideTwice ==
  ASSUME NEW d, NEW e, NEW f, NEW t, Beside(d, e, t), Beside(e, f, t)
  PROVE  Beside(d, f, t)
<1> SUFFICES ASSUME NEW u \in Threads \ {t} PROVE Untouched(d, f, u)
  BY DEF Beside
<1>1. Untouched(d, e, u) /\ Untouched(e, f, u)
  BY DEF Beside
<1>2. \A k \in Rows(d, u) : k \in Rows(e, u)
  BY <1>1 DEF Untouched, Rows
<1> QED
  BY <1>1, <1>2 DEF Untouched

LEMMA RewriteBeside ==
  ASSUME NEW d, NEW e, NEW rows, NEW t, RewriteOf(d, e, rows), rows \subseteq Rows(d, t)
  PROVE  Beside(d, e, t)
BY DEF RewriteOf, Beside, Untouched, Rows

\* A settlement leaves no thread it settles with a task that nothing holds, and no other thread that
\* was held without a hold: a task it publishes is a notice to come for the parent.
LEMMA SettleHolds ==
  ASSUME NEW d, Typed(d), NEW m, NEW threads \in SUBSET Threads, NEW t \in Threads,
         t \in threads \/ Held(d, m, t)
  PROVE  Held(Settle(d, m, threads), m, t)
<1> DEFINE e == Settle(d, m, threads)
           published == Published(d, m, threads)
<1>1. SettledFrom(d, e, published)
  BY SettleFacts
<1>2. \A k \in DOMAIN d.tasks : d.tasks[k] \in Task
  BY Parts DEF Typed
<1> HIDE DEF e, published
<1>3. \A k \in published : e.tasks[k].status = "published"
  <2> SUFFICES ASSUME NEW k \in published PROVE e.tasks[k].status = "published"
    OBVIOUS
  <2> DEFINE result == IF Undelivered(d, k) THEN 0 ELSE LatestResultRun(d, k)
  <2>1. k \in DOMAIN d.tasks /\ e.tasks[k] = [d.tasks[k] EXCEPT !.status = "published", !.result = result]
    BY <1>1 DEF SettledFrom
  <2>2. d.tasks[k] \in Task
    BY <1>2, <2>1
  <2> HIDE DEF result
  <2> QED
    BY <2>1, <2>2 DEF Task
<1>4. \A c : RunningInto(e, c) = RunningInto(d, c) \ published
  <2>1. DOMAIN e.tasks = DOMAIN d.tasks /\ \A k \in DOMAIN d.tasks \ published : e.tasks[k] = d.tasks[k]
    BY <1>1 DEF SettledFrom
  <2> QED
    BY <1>3, <2>1 DEF RunningInto
<1> SUFFICES ASSUME RunningInto(e, t) # {} PROVE Busy(e, m, t)
  BY DEF Held, e
<1>5. PICK k \in RunningInto(e, t) : TRUE
  OBVIOUS
<1>6. k \in RunningInto(d, t) /\ k \notin published
  BY <1>4
<1>7. Busy(d, m, t)
  <2>1. CASE Held(d, m, t)
    BY <1>6, <2>1 DEF Held
  <2>2. CASE t \in threads /\ ~Busy(d, m, t)
    BY <1>6, <2>2 DEF published, Published, Quiet
  <2> QED
    BY <2>1, <2>2
<1>8. CASE \E c \in Threads : Parent[c] = t /\ RunningInto(d, c) # {}
  <2>1. PICK c \in Threads : Parent[c] = t /\ RunningInto(d, c) # {}
    BY <1>8
  <2>2. CASE RunningInto(e, c) # {}
    BY <2>1, <2>2 DEF Busy
  <2>3. CASE RunningInto(e, c) = {}
    <3>1. PICK l \in RunningInto(d, c) : l \in published
      BY <1>4, <2>1, <2>3
    <3>2. d.tasks[l].child = c
      BY DEF RunningInto
    <3>3. PICK r \in DOMAIN e.inbox : e.inbox[r] = NewRow(t, l)
      BY <1>1, <2>1, <3>1, <3>2 DEF SettledFrom
    <3>4. e.inbox[r].to = t /\ e.inbox[r].status = "pending" /\ e.inbox[r].gaveUp = FALSE
      BY <3>3 DEF NewRow
    <3>5. r \in Rows(e, t) /\ Actionable(e, e.inbox[r])
      BY <3>4 DEF Rows, Actionable
    <3> QED
      BY <3>5 DEF Busy
  <2> QED
    BY <2>2, <2>3
<1>9. Untouched(d, e, t)
  BY <1>1 DEF SettledFrom, Untouched, Rows
<1>10. CASE \E r \in Rows(d, t) : Actionable(d, d.inbox[r])
  BY <1>9, <1>10, ActionableKept DEF Busy
<1>11. CASE \E i \in DOMAIN d.runs[t] : d.runs[t][i].status \notin Terminal
  BY <1>1, <1>11 DEF SettledFrom, Busy
<1>12. CASE DeliveryInFlight(d, t)
  BY <1>1, <1>12 DEF SettledFrom, Busy, DeliveryInFlight
<1>13. CASE t \in m
  BY <1>13 DEF Busy
<1> QED
  BY <1>7, <1>8, <1>10, <1>11, <1>12, <1>13 DEF Busy

\* The rule of most steps: they touch one thread and settle it.
LEMMA SettlesOne ==
  ASSUME NEW d, NEW e, Typed(e), NEW m, NEW m2, NEW t \in Threads, Beside(d, e, t),
         \A u \in Threads \ {t} : Held(d, m, u) /\ (u \in m => u \in m2)
  PROVE  \A u \in Threads : Held(Settle(e, m2, {t}), m2, u)
<1> TAKE u \in Threads
<1>1. u = t \/ Held(e, m2, u)
  BY BesideHeld
<1> QED
  BY <1>1, SettleHolds

-----------------------------------------------------------------------------
(* The changes of one run or one steer.                                      *)

\* Runs and steers are never removed, and a run stays the run of its queue item.
Grows(d, e) ==
    \A t \in Threads :
        /\ DOMAIN d.runs[t] \subseteq DOMAIN e.runs[t]
        /\ DOMAIN d.steers[t] \subseteq DOMAIN e.steers[t]
        /\ \A i \in DOMAIN d.runs[t] : e.runs[t][i].item = d.runs[t][i].item

LEMMA GrowsTwice ==
  ASSUME NEW d, NEW e, NEW f, Grows(d, e), Grows(e, f)
  PROVE  Grows(d, f)
BY DEF Grows

LEMMA RewriteGrows ==
  ASSUME NEW d, NEW e, NEW rows, RewriteOf(d, e, rows)
  PROVE  Grows(d, e)
BY DEF RewriteOf, Grows

LEMMA SettleGrows ==
  ASSUME NEW d, Typed(d), NEW memory, NEW threads \in SUBSET Threads
  PROVE  Grows(d, Settle(d, memory, threads))
BY SettleFacts DEF SettledFrom, Grows

\* The runs of one thread become these.
RunsOf(d, e, t, runs) ==
    /\ Typed(e) /\ Beside(d, e, t) /\ Grows(d, e)
    /\ e.runs[t] = runs /\ e.steers = d.steers /\ e.tasks = d.tasks /\ e.inbox = d.inbox
    /\ \A u \in Threads \ {t} : e.runs[u] = d.runs[u]
    /\ \A u \in Threads : Rows(e, u) = Rows(d, u)

LEMMA RunsChanged ==
  ASSUME NEW d, Typed(d), NEW t \in Threads, NEW runs \in Seq(Run),
         \A i \in DOMAIN d.runs[t] : i \in DOMAIN runs /\ runs[i].item = d.runs[t][i].item,
         \A i \in DOMAIN runs : runs[i].rows \subseteq Rows(d, t)
  PROVE  RunsOf(d, [d EXCEPT !.runs[t] = runs], t, runs)
<1> DEFINE all == [d.runs EXCEPT ![t] = runs]
           e == [d EXCEPT !.runs = all]
<1>1. d.runs \in [Threads -> Seq(Run)]
  BY DEF Typed, DB
<1>2. /\ all \in [Threads -> Seq(Run)] /\ all[t] = runs
      /\ \A u \in Threads \ {t} : all[u] = d.runs[u]
  BY <1>1
<1> HIDE DEF all
<1>3. \A u \in Threads : DOMAIN d.runs[u] \subseteq DOMAIN all[u]
  BY <1>2
<1>4. \A u \in Threads : \A i \in DOMAIN all[u] : RunLinked(d, u, all[u][i])
  BY <1>2 DEF RunLinked, Typed
<1>5. Typed(e) /\ \A u \in Threads : Rows(e, u) = Rows(d, u)
  BY <1>2, <1>3, <1>4, RunsReplaced
<1>6. e.runs = all /\ e.steers = d.steers /\ e.tasks = d.tasks /\ e.inbox = d.inbox
  BY DEF Typed, DB
<1> HIDE DEF e
<1>7. Beside(d, e, t)
  BY <1>2, <1>6 DEF Beside, Untouched, Rows
<1>8. Grows(d, e)
  BY <1>2, <1>6 DEF Grows
<1>9. e = [d EXCEPT !.runs[t] = runs]
  BY DEF e, all
<1>10. RunsOf(d, e, t, runs)
  BY <1>2, <1>5, <1>6, <1>7, <1>8 DEF RunsOf
<1> QED
  BY <1>9, <1>10

LEMMA RunChanged ==
  ASSUME NEW d, Typed(d), NEW t \in Threads, NEW i \in DOMAIN d.runs[t], NEW run \in Run,
         run.item = d.runs[t][i].item, run.rows \subseteq Rows(d, t)
  PROVE  RunsOf(d, [d EXCEPT !.runs[t][i] = run], t, [d.runs[t] EXCEPT ![i] = run])
<1> DEFINE runs == [d.runs[t] EXCEPT ![i] = run]
<1>1. d.runs[t] \in Seq(Run)
  BY Parts DEF Typed
<1>2. runs \in Seq(Run) /\ DOMAIN runs = DOMAIN d.runs[t]
  BY <1>1, ExceptSeq
<1>3. \A n \in DOMAIN d.runs[t] : runs[n] = IF n = i THEN run ELSE d.runs[t][n]
  OBVIOUS
<1>4. \A n \in DOMAIN d.runs[t] : d.runs[t][n].rows \subseteq Rows(d, t)
  BY DEF Typed, RunLinked
<1> HIDE DEF runs
<1>5. RunsOf(d, [d EXCEPT !.runs[t] = runs], t, runs)
  BY <1>2, <1>3, <1>4, RunsChanged
<1> QED
  BY <1>5 DEF runs

LEMMA RunAdded ==
  ASSUME NEW d, Typed(d), NEW t \in Threads, NEW run \in Run, run.rows \subseteq Rows(d, t)
  PROVE  /\ RunsOf(d, [d EXCEPT !.runs[t] = Append(@, run)], t, Append(d.runs[t], run))
         /\ DOMAIN Append(d.runs[t], run) = DOMAIN d.runs[t] \cup {Len(d.runs[t]) + 1}
         /\ Append(d.runs[t], run)[Len(d.runs[t]) + 1] = run
         /\ \A i \in DOMAIN d.runs[t] : Append(d.runs[t], run)[i] = d.runs[t][i]
<1> DEFINE runs == Append(d.runs[t], run)
<1>1. d.runs[t] \in Seq(Run) /\ DOMAIN d.runs[t] = 1 .. Len(d.runs[t]) /\ Len(d.runs[t]) \in Nat
  BY Parts DEF Typed
<1>2. /\ runs \in Seq(Run) /\ Len(runs) = Len(d.runs[t]) + 1
      /\ runs[Len(d.runs[t]) + 1] = run /\ \A i \in 1 .. Len(d.runs[t]) : runs[i] = d.runs[t][i]
  BY <1>1, AppendProperties
<1>3. DOMAIN runs = 1 .. (Len(d.runs[t]) + 1)
  BY <1>2, LenProperties
<1> HIDE DEF runs
<1>4. DOMAIN runs = DOMAIN d.runs[t] \cup {Len(d.runs[t]) + 1}
  BY <1>1, <1>3
<1>5. \A n \in DOMAIN d.runs[t] : d.runs[t][n].rows \subseteq Rows(d, t)
  BY DEF Typed, RunLinked
<1>6. RunsOf(d, [d EXCEPT !.runs[t] = runs], t, runs)
  BY <1>1, <1>2, <1>4, <1>5, RunsChanged
<1>7. [d EXCEPT !.runs[t] = Append(@, run)] = [d EXCEPT !.runs[t] = runs]
  BY DEF runs
<1> QED
  BY <1>1, <1>2, <1>4, <1>6, <1>7 DEF runs

\* The steers of one thread become these.
SteersOf(d, e, t, steers) ==
    /\ Typed(e) /\ Beside(d, e, t) /\ Grows(d, e)
    /\ e.steers[t] = steers /\ e.runs = d.runs /\ e.tasks = d.tasks /\ e.inbox = d.inbox
    /\ \A u \in Threads : Rows(e, u) = Rows(d, u)

LEMMA SteerChanged ==
  ASSUME NEW d, Typed(d), NEW t \in Threads, NEW j \in DOMAIN d.steers[t], NEW steer \in Steer,
         SteerLinked(d, t, steer)
  PROVE  SteersOf(d, [d EXCEPT !.steers[t][j] = steer], t, [d.steers[t] EXCEPT ![j] = steer])
<1> DEFINE steers == [d.steers[t] EXCEPT ![j] = steer]
           all == [d.steers EXCEPT ![t] = steers]
           e == [d EXCEPT !.steers = all]
<1>1. d.steers \in [Threads -> Seq(Steer)] /\ d.steers[t] \in Seq(Steer)
  BY Parts DEF Typed, DB
<1>2. steers \in Seq(Steer) /\ DOMAIN steers = DOMAIN d.steers[t]
  BY <1>1, ExceptSeq
<1>3. \A n \in DOMAIN d.steers[t] : steers[n] = IF n = j THEN steer ELSE d.steers[t][n]
  OBVIOUS
<1> HIDE DEF steers
<1>4. /\ all \in [Threads -> Seq(Steer)] /\ all[t] = steers
      /\ \A u \in Threads \ {t} : all[u] = d.steers[u]
  BY <1>1, <1>2
<1> HIDE DEF all
<1>5. \A u \in Threads : DOMAIN d.steers[u] \subseteq DOMAIN all[u]
  BY <1>2, <1>4
<1>6. \A u \in Threads : \A n \in DOMAIN all[u] : SteerLinked(d, u, all[u][n])
  BY <1>2, <1>3, <1>4 DEF Typed
<1>7. Typed(e) /\ \A u \in Threads : Rows(e, u) = Rows(d, u)
  BY <1>4, <1>5, <1>6, SteersReplaced
<1>8. e.runs = d.runs /\ e.steers = all /\ e.tasks = d.tasks /\ e.inbox = d.inbox
  BY DEF Typed, DB
<1> HIDE DEF e
<1>9. Beside(d, e, t)
  BY <1>4, <1>8 DEF Beside, Untouched, Rows
<1>10. Grows(d, e)
  BY <1>5, <1>8 DEF Grows
<1>11. e = [d EXCEPT !.steers[t][j] = steer]
  BY DEF e, all, steers
<1>12. SteersOf(d, e, t, steers)
  BY <1>4, <1>7, <1>8, <1>9, <1>10 DEF SteersOf
<1> QED
  BY <1>11, <1>12 DEF steers

\* A turn.start is behind those of its thread.
LEMMA Enqueued ==
  ASSUME NEW runs \in Seq(Run), NEW i \in DOMAIN runs
  PROVE  \E at \in Nat : Enqueue(runs, i) = [runs EXCEPT ![i] = [runs[i] EXCEPT !.start = "pending", !.at = at]]
<1>1. DOMAIN runs = 1 .. Len(runs) /\ Len(runs) \in Nat /\ \A n \in DOMAIN runs : runs[n] \in Run
  BY LenProperties, ElementOfSeq
<1> DEFINE f == [n \in 1 .. Len(runs) |-> runs[n].at]
           at == 1 + Max({runs[n].at : n \in DOMAIN runs})
<1>2. f \in [1 .. Len(runs) -> Nat] /\ Len(runs) # 0
  BY <1>1 DEF Run
<1>3. {runs[n].at : n \in DOMAIN runs} = {f[n] : n \in 1 .. Len(runs)}
  BY <1>1
<1> HIDE DEF f
<1>4. Max({f[n] : n \in 1 .. Len(runs)}) \in Nat
  BY <1>1, <1>2, MaxOf
<1>5. at \in Nat
  <2>1. Max({runs[n].at : n \in DOMAIN runs}) \in Nat
    BY <1>3, <1>4, Zenon
  <2> QED
    BY <2>1
<1>6. Enqueue(runs, i) = [runs EXCEPT ![i] = [runs[i] EXCEPT !.start = "pending", !.at = at]]
  <2> HIDE DEF at
  <2>1. Enqueue(runs, i) = [runs EXCEPT ![i].start = "pending", ![i].at = at]
    BY DEF Enqueue, at
  <2>2. runs \in [1 .. Len(runs) -> Run] /\ runs[i] \in Run
    BY <1>1
  <2> QED
    BY <2>1, <2>2, <1>1
<1> QED
  BY <1>5, <1>6

-----------------------------------------------------------------------------
(* The invariant.                                                            *)

Item == [steer : Nat, run : Nat, claimed : BOOLEAN]
Turn == [run : Nat, unread : SUBSET Nat, plain : BOOLEAN, taken : SUBSET Nat, aborted : BOOLEAN]

TurnLinked(d, t, tn) ==
    /\ tn.run \in 0 .. Len(d.runs[t])
    /\ tn.unread \cup tn.taken \subseteq DOMAIN d.steers[t]

\* A claimed item has its run, whether a person's message or notices.
ItemLinked(d, t, item) ==
    IF item.steer = 0 THEN item.run \in DOMAIN d.runs[t]
    ELSE /\ item.steer \in DOMAIN d.steers[t]
         /\ item.claimed => \E i \in DOMAIN d.runs[t] : d.runs[t][i].item = item.steer

TurnsTyped(d, tn) == tn \in [Threads -> Turn] /\ \A t \in Threads : TurnLinked(d, t, tn[t])
QueuesTyped(d, q) ==
    /\ q \in [Threads -> Seq(Item)]
    /\ \A t \in Threads : \A n \in DOMAIN q[t] : ItemLinked(d, t, q[t][n])

SetupTyped ==
    /\ setup \in [threads : SUBSET Threads, native : SUBSET Threads, background : SUBSET Threads,
                  tasks : Nat, asks : Nat, failures : Nat, crashes : Nat, stops : Nat, returns : Nat]
    /\ background \subseteq setup.background

TypeInv ==
    /\ Typed(db)
    /\ TurnsTyped(db, turn)
    /\ QueuesTyped(db, queue)
    /\ SetupTyped

Inv == TypeInv /\ HoldIsCurrent

LEMMA HoldMeansHeld == HoldIsCurrent <=> \A t \in Threads : Held(db, Memory(turn, background), t)
BY DEF HoldIsCurrent, Held

LEMMA TypedTypeOK == TypeInv => TypeOK
<1> SUFFICES ASSUME TypeInv PROVE TypeOK
  OBVIOUS
<1>1. Typed(db) /\ db \in DB
  BY DEF TypeInv, Typed
<1>2. \A t \in Threads : \A i \in DOMAIN db.runs[t] : db.runs[t][i] \in Run /\ RunLinked(db, t, db.runs[t][i])
  BY <1>1, Parts DEF Typed
<1>3. \A t \in Threads : \A j \in DOMAIN db.steers[t] : SteerLinked(db, t, db.steers[t][j])
  BY <1>1 DEF Typed
<1>4. \A k \in DOMAIN db.tasks : db.tasks[k] \in Task /\ TaskLinked(db, db.tasks[k])
  BY <1>1, Parts DEF Typed
<1>5. \A k \in DOMAIN db.inbox : db.inbox[k] \in Row /\ RowLinked(db, db.inbox[k])
  BY <1>1, Parts DEF Typed
<1>6. \A t \in Threads : turn[t].run \in 0..Len(db.runs[t])
  BY DEF TypeInv, TurnsTyped, TurnLinked
<1>7. background \subseteq setup.background
  BY DEF TypeInv, SetupTyped
<1>8. \A t \in Threads : \A i \in DOMAIN db.runs[t] :
        /\ db.runs[t][i].status \in Statuses
        /\ db.runs[t][i].start \in {"none", "succeeded", "cancelled"} \cup InFlight
        /\ db.runs[t][i].rows \subseteq Rows(db, t)
  BY <1>2 DEF Run, RunLinked
<1>9. \A t \in Threads : \A j \in DOMAIN db.steers[t] :
        db.steers[t][j].run \in DOMAIN db.runs[t] /\ db.steers[t][j].rows \subseteq Rows(db, t)
  BY <1>3 DEF SteerLinked
<1>10. \A k \in DOMAIN db.tasks :
         /\ db.tasks[k].run \in DOMAIN db.runs[db.tasks[k].child]
         /\ db.tasks[k].status \in {"running", "published", "acknowledged", "cancelled"}
  BY <1>4 DEF Task, TaskLinked
<1>11. \A k \in DOMAIN db.inbox :
         /\ db.inbox[k].to \in Threads /\ db.inbox[k].status \in {"pending", "delivered", "acknowledged"}
         /\ db.inbox[k].by.kind = "start" => db.inbox[k].by.n \in DOMAIN db.runs[db.inbox[k].to]
         /\ db.inbox[k].by.kind \in {"steer", "item"} => db.inbox[k].by.n \in DOMAIN db.steers[db.inbox[k].to]
  BY <1>5 DEF Row, RowLinked
<1> QED
  BY <1>6, <1>7, <1>8, <1>9, <1>10, <1>11 DEF TypeOK

LEMMA TurnsGrow ==
  ASSUME NEW d, NEW e, Typed(d), Typed(e), Grows(d, e), NEW tn, TurnsTyped(d, tn)
  PROVE  TurnsTyped(e, tn)
<1> SUFFICES ASSUME NEW t \in Threads PROVE TurnLinked(e, t, tn[t])
  BY DEF TurnsTyped
<1>1. DOMAIN d.runs[t] \subseteq DOMAIN e.runs[t] /\ DOMAIN d.steers[t] \subseteq DOMAIN e.steers[t]
  BY DEF Grows
<1>2. TurnLinked(d, t, tn[t]) /\ tn[t].run \in Nat
  BY DEF TurnsTyped, Turn
<1>3. /\ DOMAIN d.runs[t] = 1 .. Len(d.runs[t]) /\ Len(d.runs[t]) \in Nat
      /\ DOMAIN e.runs[t] = 1 .. Len(e.runs[t]) /\ Len(e.runs[t]) \in Nat
  BY Parts DEF Typed
<1>4. tn[t].run \in 0 .. Len(e.runs[t])
  <2>1. CASE tn[t].run = 0
    BY <1>3, <2>1
  <2>2. CASE tn[t].run # 0
    <3>1. tn[t].run \in DOMAIN d.runs[t]
      BY <1>2, <1>3, <2>2 DEF TurnLinked
    <3> QED
      BY <1>1, <1>3, <3>1
  <2> QED
    BY <2>1, <2>2
<1> QED
  BY <1>1, <1>2, <1>4 DEF TurnLinked

LEMMA QueuesGrow ==
  ASSUME NEW d, NEW e, Grows(d, e), NEW q, QueuesTyped(d, q)
  PROVE  QueuesTyped(e, q)
<1> SUFFICES ASSUME NEW t \in Threads, NEW n \in DOMAIN q[t] PROVE ItemLinked(e, t, q[t][n])
  BY DEF QueuesTyped
<1>1. ItemLinked(d, t, q[t][n])
  BY DEF QueuesTyped
<1> QED
  BY <1>1 DEF ItemLinked, Grows

\* The queues of one thread become these items.
LEMMA QueueChanged ==
  ASSUME NEW d, NEW q, QueuesTyped(d, q), NEW t \in Threads, NEW items \in Seq(Item),
         \A n \in DOMAIN items : ItemLinked(d, t, items[n])
  PROVE  QueuesTyped(d, [q EXCEPT ![t] = items])
<1> DEFINE q2 == [q EXCEPT ![t] = items]
<1>1. q2 \in [Threads -> Seq(Item)] /\ q2[t] = items /\ \A u \in Threads \ {t} : q2[u] = q[u]
  BY DEF QueuesTyped
<1> HIDE DEF q2
<1>2. QueuesTyped(d, q2)
  BY <1>1 DEF QueuesTyped
<1> QED
  BY <1>2 DEF q2

LEMMA TurnChanged ==
  ASSUME NEW d, NEW tn, TurnsTyped(d, tn), NEW t \in Threads, NEW x \in Turn, TurnLinked(d, t, x)
  PROVE  TurnsTyped(d, [tn EXCEPT ![t] = x])
<1> DEFINE tn2 == [tn EXCEPT ![t] = x]
<1>1. tn2 \in [Threads -> Turn] /\ tn2[t] = x /\ \A u \in Threads \ {t} : tn2[u] = tn[u]
  BY DEF TurnsTyped
<1> HIDE DEF tn2
<1>2. TurnsTyped(d, tn2)
  BY <1>1 DEF TurnsTyped
<1> QED
  BY <1>2 DEF tn2

LEMMA ItemsFacts ==
  ASSUME NEW q, NEW d, QueuesTyped(d, q), NEW t \in Threads
  PROVE  /\ q[t] \in Seq(Item) /\ DOMAIN q[t] = 1 .. Len(q[t]) /\ Len(q[t]) \in Nat
         /\ \A n \in DOMAIN q[t] : q[t][n] \in Item /\ ItemLinked(d, t, q[t][n])
         /\ q[t] # <<>> => /\ 1 \in DOMAIN q[t] /\ Head(q[t]) = q[t][1]
                           /\ Head(q[t]) \in Item /\ ItemLinked(d, t, Head(q[t]))
<1>1. q[t] \in Seq(Item) /\ \A n \in DOMAIN q[t] : ItemLinked(d, t, q[t][n])
  BY DEF QueuesTyped
<1>2. DOMAIN q[t] = 1 .. Len(q[t]) /\ Len(q[t]) \in Nat /\ \A n \in DOMAIN q[t] : q[t][n] \in Item
  BY <1>1, LenProperties, ElementOfSeq
<1>3. q[t] # <<>> => 1 \in DOMAIN q[t] /\ Head(q[t]) = q[t][1]
  BY <1>1, <1>2, EmptySeq, HeadTailProperties
<1> QED
  BY <1>1, <1>2, <1>3

LEMMA SpendKeeps ==
  ASSUME SetupTyped, NEW what \in {"asks", "failures", "crashes", "stops", "returns"}, Spend(what)
  PROVE  /\ setup' \in [threads : SUBSET Threads, native : SUBSET Threads, background : SUBSET Threads,
                        tasks : Nat, asks : Nat, failures : Nat, crashes : Nat, stops : Nat, returns : Nat]
         /\ setup'.background = setup.background
<1>1. setup[what] \in Nat /\ setup[what] > 0 /\ setup' = [setup EXCEPT ![what] = setup[what] - 1]
  BY DEF SetupTyped, Spend
<1>2. setup[what] - 1 \in Nat
  BY <1>1
<1> QED
  BY <1>1, <1>2 DEF SetupTyped

-----------------------------------------------------------------------------
(* Sends: the steps that make runs and tasks.                                *)

LEMMA InvParts ==
  ASSUME Inv
  PROVE  /\ Typed(db) /\ TurnsTyped(db, turn) /\ QueuesTyped(db, queue) /\ SetupTyped
         /\ \A t \in Threads : Held(db, Memory(turn, background), t)
BY HoldMeansHeld DEF Inv, TypeInv

LEMMA InvNext ==
  ASSUME Typed(db'), TurnsTyped(db', turn'), QueuesTyped(db', queue'), SetupTyped',
         \A t \in Threads : Held(db', Memory(turn', background'), t)
  PROVE  Inv'
BY DEF Inv, TypeInv, HoldIsCurrent, Held

\* A thread with a run that has not ended is held, whatever else is so.
LEMMA RunHolds ==
  ASSUME NEW d, NEW m, NEW t, NEW i \in DOMAIN d.runs[t], d.runs[t][i].status \notin Terminal
  PROVE  Held(d, m, t)
BY DEF Held, Busy

LEMMA LiveFacts ==
  ASSUME Typed(db), TurnsTyped(db, turn), NEW t \in Threads, LiveTurn(t)
  PROVE  /\ turn[t].run \in DOMAIN db.runs[t] /\ db.runs[t][turn[t].run].status = "active"
         /\ db.runs[t][turn[t].run].status \notin Terminal
<1>1. turn[t].run # 0 /\ db.runs[t][turn[t].run].status = "active"
  BY DEF LiveTurn
<1>2. turn[t].run \in 0 .. Len(db.runs[t])
  BY DEF TurnsTyped, TurnLinked
<1>3. DOMAIN db.runs[t] = 1 .. Len(db.runs[t]) /\ Len(db.runs[t]) \in Nat
  BY Parts DEF Typed
<1>4. turn[t].run \in DOMAIN db.runs[t]
  BY <1>1, <1>2, <1>3
<1> QED
  BY <1>1, <1>4 DEF Terminal

LEMMA MemoryKept ==
  ASSUME NEW tn, NEW tn2, NEW bg, NEW bg2, NEW u \in Threads, tn2[u] = tn[u], u \in bg => u \in bg2
  PROVE  u \in Memory(tn, bg) => u \in Memory(tn2, bg2)
BY DEF Memory, UnreadSteers

LEMMA NewRunType ==
  ASSUME NEW source \in {"person", "task", "wake", "late", "followup"}, NEW rows \in SUBSET Nat,
         NEW item \in Nat
  PROVE  /\ NewRun(source, rows, item) \in Run
         /\ NewRun(source, rows, item).status = "queued" /\ NewRun(source, rows, item).rows = rows
         /\ NewRun(source, rows, item).item = item /\ NewRun(source, rows, item).source = source
BY DEF NewRun, Run, Statuses, Terminal, InFlight

LEMMA NewStart ==
  ASSUME NEW old \in Seq(Run), NEW run \in Run
  PROVE  LET i == Len(old) + 1
             runs == Enqueue(Append(old, run), i)
         IN /\ runs \in Seq(Run) /\ DOMAIN runs = DOMAIN old \cup {i} /\ i \notin DOMAIN old
            /\ \A n \in DOMAIN old : runs[n] = old[n]
            /\ \E at \in Nat : runs[i] = [run EXCEPT !.start = "pending", !.at = at]
<1> DEFINE i == Len(old) + 1
           asked == Append(old, run)
           runs == Enqueue(asked, i)
<1>1. /\ asked \in Seq(Run) /\ Len(asked) = i /\ asked[i] = run
      /\ \A n \in 1 .. Len(old) : asked[n] = old[n]
  BY AppendProperties
<1>2. DOMAIN old = 1 .. Len(old) /\ Len(old) \in Nat /\ DOMAIN asked = 1 .. Len(asked)
  BY <1>1, LenProperties
<1> HIDE DEF asked
<1>3. DOMAIN asked = DOMAIN old \cup {i} /\ i \notin DOMAIN old
  BY <1>1, <1>2
<1>4. PICK at \in Nat : runs = [asked EXCEPT ![i] = [asked[i] EXCEPT !.start = "pending", !.at = at]]
  <2>1. asked \in Seq(Run) /\ i \in DOMAIN asked
    BY <1>1, <1>3
  <2> HIDE DEF i
  <2> QED
    BY <2>1, Enqueued, Zenon
<1> DEFINE started == [run EXCEPT !.start = "pending", !.at = at]
<1>5. started \in Run
  BY DEF Run, InFlight
<1> HIDE DEF runs, i, started
<1>6. runs = [asked EXCEPT ![i] = started]
  BY <1>1, <1>4 DEF started
<1>7. runs \in Seq(Run) /\ DOMAIN runs = DOMAIN asked
  BY <1>1, <1>3, <1>5, <1>6, ExceptSeq
<1>8. runs[i] = started /\ \A n \in DOMAIN old : runs[n] = old[n]
  BY <1>1, <1>2, <1>3, <1>6
<1> QED
  BY <1>3, <1>7, <1>8 DEF runs, asked, i, started

\* A task is added for a thread.
LEMMA TaskAdded ==
  ASSUME NEW d, Typed(d), NEW task \in Task, TaskLinked(d, task)
  PROVE  LET e == [d EXCEPT !.tasks = Append(@, task)]
         IN /\ Typed(e) /\ Grows(d, e) /\ e.runs = d.runs /\ e.inbox = d.inbox /\ e.steers = d.steers
            /\ \A u : Untouched(d, e, u)
            /\ \A u : u # task.child => RunningInto(e, u) = RunningInto(d, u)
            /\ \A u : RunningInto(d, u) # {} => RunningInto(e, u) # {}
<1> DEFINE tasks == Append(d.tasks, task)
           e == [d EXCEPT !.tasks = tasks]
<1>1. /\ d.tasks \in Seq(Task) /\ DOMAIN d.tasks = 1 .. Len(d.tasks) /\ Len(d.tasks) \in Nat
      /\ \A k \in DOMAIN d.tasks : TaskLinked(d, d.tasks[k])
  BY Parts DEF Typed
<1>2. /\ tasks \in Seq(Task) /\ Len(tasks) = Len(d.tasks) + 1 /\ tasks[Len(d.tasks) + 1] = task
      /\ \A k \in 1 .. Len(d.tasks) : tasks[k] = d.tasks[k]
  BY <1>1, AppendProperties
<1>3. DOMAIN tasks = 1 .. (Len(d.tasks) + 1)
  BY <1>2, LenProperties
<1> HIDE DEF tasks
<1>4. DOMAIN tasks = DOMAIN d.tasks \cup {Len(d.tasks) + 1}
  BY <1>1, <1>3
<1>5. \A k \in DOMAIN tasks : TaskLinked(d, tasks[k])
  BY <1>1, <1>2, <1>4
<1>6. Typed(e)
  BY <1>2, <1>5, TasksReplaced
<1>7. e.runs = d.runs /\ e.inbox = d.inbox /\ e.steers = d.steers /\ e.tasks = tasks
  BY DEF Typed, DB
<1> HIDE DEF e
<1>8. Grows(d, e)
  BY <1>7 DEF Grows
<1>9. \A u : Untouched(d, e, u)
  BY <1>7 DEF Untouched, Rows
<1>10. \A u : u # task.child => RunningInto(e, u) = RunningInto(d, u)
  BY <1>1, <1>2, <1>4, <1>7 DEF RunningInto
<1>11. \A u : RunningInto(d, u) # {} => RunningInto(e, u) # {}
  BY <1>1, <1>2, <1>4, <1>7 DEF RunningInto
<1> QED
  BY <1>6, <1>7, <1>8, <1>9, <1>10, <1>11 DEF e, tasks

\* A thread gets runs, one of which has not ended, and a task: the others are held as before.
LEMMA SendHolds ==
  ASSUME NEW d, Typed(d), NEW m, NEW t \in Threads, NEW f, NEW runs, RunsOf(d, f, t, runs),
         \A u \in Threads : Held(d, m, u), NEW i \in DOMAIN runs, runs[i].status \notin Terminal,
         NEW e, e.runs = f.runs, \A u : Untouched(f, e, u),
         \A u : u # t => RunningInto(e, u) = RunningInto(f, u),
         \A u : RunningInto(f, u) # {} => RunningInto(e, u) # {}
  PROVE  \A u \in Threads : Held(e, m, u)
<1> TAKE u \in Threads
<1>1. f.runs[t] = runs /\ Beside(d, f, t)
  BY DEF RunsOf
<1>2. CASE u = t
  BY <1>1, <1>2, RunHolds
<1>3. CASE u # t
  <2>1. Held(f, m, u)
    BY <1>1, <1>3, BesideHeld
  <2> QED
    BY <1>3, <2>1, StaysHeld
<1> QED
  BY <1>2, <1>3

LEMMA TaskType ==
  ASSUME NEW c \in Threads, NEW run \in Nat, NEW since \in Nat
  PROVE  [child |-> c, run |-> run, status |-> "running", result |-> 0, since |-> since] \in Task
BY DEF Task

\* Only the owner is held by more, and the subagent has a run.
LEMMA DelegateStep ==
  ASSUME Inv, NEW c \in Threads, Delegate(c)
  PROVE  Inv'
<1>0. Typed(db) /\ \A t \in Threads : Held(db, Memory(turn, background), t)
  BY InvParts
<1> DEFINE i == Len(db.runs[c]) + 1
           new == NewRun("task", {}, 0)
           runs == Enqueue(Append(db.runs[c], new), i)
           f == [db EXCEPT !.runs[c] = runs]
           task == [child |-> c, run |-> i, status |-> "running", result |-> 0, since |-> Len(db.inbox)]
           e == [f EXCEPT !.tasks = Append(@, task)]
<1>1. Parent[c] \in Threads
  BY DeliveryAssumption DEF Delegate
<1>2. db.runs[c] \in Seq(Run) /\ Len(db.runs[c]) \in Nat /\ Len(db.inbox) \in Nat
  BY <1>0, Parts DEF Typed
<1>3. new \in Run /\ new.status = "queued" /\ new.rows = {}
  BY NewRunType
<1> HIDE DEF new
<1>4. /\ runs \in Seq(Run) /\ DOMAIN runs = DOMAIN db.runs[c] \cup {i} /\ i \notin DOMAIN db.runs[c]
      /\ \A n \in DOMAIN db.runs[c] : runs[n] = db.runs[c][n]
      /\ \E at \in Nat : runs[i] = [new EXCEPT !.start = "pending", !.at = at]
  BY <1>2, <1>3, NewStart
<1>5. runs[i].rows = {} /\ runs[i].status = "queued"
  BY <1>3, <1>4 DEF Run
<1> HIDE DEF runs
<1>6. RunsOf(db, f, c, runs)
  <2>1. \A n \in DOMAIN db.runs[c] : db.runs[c][n].rows \subseteq Rows(db, c)
    BY <1>0 DEF Typed, RunLinked
  <2>2. \A n \in DOMAIN runs : runs[n].rows \subseteq Rows(db, c)
    BY <1>4, <1>5, <2>1
  <2> QED
    BY <1>0, <1>4, <2>2, RunsChanged
<1>7. Typed(f) /\ Grows(db, f) /\ f.tasks = db.tasks /\ f.inbox = db.inbox /\ f.runs[c] = runs
  BY <1>6 DEF RunsOf
<1>8. db' = e
  BY <1>0, <1>7 DEF Delegate, runs, new, Typed, DB
<1> HIDE DEF f
<1>9. task \in Task /\ TaskLinked(f, task) /\ task.child = c
  <2>1. task \in Task
    <3>1. i \in Nat
      BY <1>2
    <3> HIDE DEF i
    <3> QED
      BY <1>2, <3>1, TaskType
  <2> QED
    BY <1>1, <1>4, <1>7, <2>1 DEF TaskLinked
<1> HIDE DEF task, i
<1>10. /\ Typed(e) /\ Grows(f, e) /\ e.runs = f.runs
       /\ \A u : Untouched(f, e, u)
       /\ \A u : u # c => RunningInto(e, u) = RunningInto(f, u)
       /\ \A u : RunningInto(f, u) # {} => RunningInto(e, u) # {}
  BY <1>7, <1>9, TaskAdded
<1> HIDE DEF e
<1>11. \A u \in Threads : Held(e, Memory(turn, background), u)
  <2>1. i \in DOMAIN runs /\ runs[i].status \notin Terminal
    BY <1>4, <1>5 DEF Terminal
  <2> QED
    BY <1>0, <1>6, <1>10, <2>1, SendHolds
<1>12. Grows(db, e)
  BY <1>7, <1>10, GrowsTwice
<1>13. UNCHANGED <<queue, turn, background, setup>>
  BY DEF Delegate
<1>14. TurnsTyped(e, turn) /\ QueuesTyped(e, queue)
  BY <1>0, <1>10, <1>12, InvParts, TurnsGrow, QueuesGrow
<1>15. SetupTyped'
  BY <1>13, InvParts DEF SetupTyped
<1> QED
  BY <1>8, <1>10, <1>11, <1>13, <1>14, <1>15, InvNext

LEMMA AddedItem ==
  ASSUME NEW d, NEW q, QueuesTyped(d, q), NEW t \in Threads, NEW item \in Item, ItemLinked(d, t, item)
  PROVE  QueuesTyped(d, [q EXCEPT ![t] = Append(@, item)])
<1> DEFINE items == Append(q[t], item)
<1>1. q[t] \in Seq(Item) /\ \A n \in DOMAIN q[t] : ItemLinked(d, t, q[t][n])
  BY DEF QueuesTyped
<1>2. /\ items \in Seq(Item) /\ Len(items) = Len(q[t]) + 1 /\ items[Len(q[t]) + 1] = item
      /\ \A n \in 1 .. Len(q[t]) : items[n] = q[t][n]
  BY <1>1, AppendProperties
<1>3. /\ DOMAIN items = 1 .. (Len(q[t]) + 1) /\ DOMAIN q[t] = 1 .. Len(q[t]) /\ Len(q[t]) \in Nat
  BY <1>1, <1>2, LenProperties
<1> HIDE DEF items
<1>4. \A n \in DOMAIN items : n \in DOMAIN q[t] \/ n = Len(q[t]) + 1
  BY <1>3
<1>5. \A n \in DOMAIN items : ItemLinked(d, t, items[n])
  BY <1>1, <1>2, <1>3, <1>4
<1>6. QueuesTyped(d, [q EXCEPT ![t] = items])
  BY <1>2, <1>5, QueueChanged
<1> QED
  BY <1>6 DEF items

\* The message's run is there before its turn, and to a subagent it is a task.
LEMMA AskStep ==
  ASSUME Inv, NEW t \in Threads, Ask(t)
  PROVE  Inv'
<1>0. Typed(db) /\ \A u \in Threads : Held(db, Memory(turn, background), u)
  BY InvParts
<1> DEFINE i == Len(db.runs[t]) + 1
           direct == ~TurnRunning(t) /\ queue[t] = <<>>
           new == NewRun("person", {}, 0)
           asked == Append(db.runs[t], new)
           runs == IF direct THEN Enqueue(asked, i) ELSE asked
           f == [db EXCEPT !.runs[t] = runs]
           task == [child |-> t, run |-> i, status |-> "running", result |-> 0, since |-> Len(db.inbox)]
           e == IF Parent[t] = NoThread THEN f ELSE [f EXCEPT !.tasks = Append(@, task)]
           item == [steer |-> 0, run |-> i, claimed |-> FALSE]
<1>2. db.runs[t] \in Seq(Run) /\ Len(db.runs[t]) \in Nat /\ Len(db.inbox) \in Nat
      /\ DOMAIN db.runs[t] = 1 .. Len(db.runs[t])
  BY <1>0, Parts DEF Typed
<1>3. new \in Run /\ new.status = "queued" /\ new.rows = {}
  BY NewRunType
<1> HIDE DEF new
<1>4. /\ runs \in Seq(Run) /\ DOMAIN runs = DOMAIN db.runs[t] \cup {i}
      /\ \A n \in DOMAIN db.runs[t] : runs[n] = db.runs[t][n]
      /\ runs[i].rows = {} /\ runs[i].status = "queued"
  <2>1. CASE direct
    <3> DEFINE started == Enqueue(asked, i)
    <3>1. /\ started \in Seq(Run) /\ DOMAIN started = DOMAIN db.runs[t] \cup {i}
          /\ \A n \in DOMAIN db.runs[t] : started[n] = db.runs[t][n]
          /\ \E at \in Nat : started[i] = [new EXCEPT !.start = "pending", !.at = at]
      BY <1>2, <1>3, NewStart
    <3> HIDE DEF started
    <3>2. started[i].rows = {} /\ started[i].status = "queued"
      BY <1>3, <3>1 DEF Run
    <3>3. runs = started
      BY <2>1 DEF started
    <3> QED
      BY <3>1, <3>2, <3>3
  <2>2. CASE ~direct
    <3>1. runs = asked
      BY <2>2
    <3>2. /\ asked \in Seq(Run) /\ Len(asked) = i /\ asked[i] = new
          /\ \A n \in 1 .. Len(db.runs[t]) : asked[n] = db.runs[t][n]
      BY <1>2, <1>3, AppendProperties
    <3>3. DOMAIN asked = 1 .. i
      BY <3>2, LenProperties
    <3> HIDE DEF runs, asked
    <3>4. DOMAIN asked = DOMAIN db.runs[t] \cup {i}
      BY <1>2, <3>3
    <3> QED
      BY <1>2, <1>3, <3>1, <3>2, <3>4
  <2> QED
    BY <2>1, <2>2
<1> HIDE DEF runs, direct
<1>6. RunsOf(db, f, t, runs)
  <2>1. \A n \in DOMAIN db.runs[t] : db.runs[t][n].rows \subseteq Rows(db, t)
    BY <1>0 DEF Typed, RunLinked
  <2>2. \A n \in DOMAIN runs : runs[n].rows \subseteq Rows(db, t)
    BY <1>4, <2>1
  <2> QED
    BY <1>0, <1>4, <2>2, RunsChanged
<1>7. Typed(f) /\ Grows(db, f) /\ f.tasks = db.tasks /\ f.inbox = db.inbox /\ f.runs[t] = runs
  BY <1>6 DEF RunsOf
<1>8. db' = e /\ queue' = IF direct THEN queue ELSE [queue EXCEPT ![t] = Append(@, item)]
  <2>1. db' = IF Parent[t] = NoThread THEN f ELSE [f EXCEPT !.tasks = Append(db.tasks, task)]
    BY <1>0 DEF Ask, runs, direct, new, Typed, DB
  <2> QED
    BY <1>7, <2>1 DEF Ask, direct
<1> HIDE DEF f
<1>9. i \in Nat /\ i \in DOMAIN runs
  BY <1>2, <1>4
<1> HIDE DEF i
<1>10. task \in Task /\ task.child = t
  BY <1>2, <1>9, TaskType
<1>11. Parent[t] # NoThread => TaskLinked(f, task)
  BY <1>7, <1>9, DeliveryAssumption DEF TaskLinked
<1> HIDE DEF task
<1>12. /\ Typed(e) /\ Grows(f, e) /\ e.runs = f.runs
       /\ \A u : Untouched(f, e, u)
       /\ \A u : u # t => RunningInto(e, u) = RunningInto(f, u)
       /\ \A u : RunningInto(f, u) # {} => RunningInto(e, u) # {}
  <2>1. CASE Parent[t] = NoThread
    <3>1. e = f
      BY <2>1
    <3> QED
      BY <1>7, <3>1 DEF Grows, Untouched, Rows
  <2>2. CASE Parent[t] # NoThread
    <3>1. e = [f EXCEPT !.tasks = Append(@, task)]
      BY <2>2
    <3> QED
      BY <1>7, <1>10, <1>11, <2>2, <3>1, TaskAdded
  <2> QED
    BY <2>1, <2>2
<1> HIDE DEF e
<1>13. \A u \in Threads : Held(e, Memory(turn, background), u)
  <2>1. i \in DOMAIN runs /\ runs[i].status \notin Terminal
    BY <1>4, <1>9 DEF Terminal
  <2> QED
    BY <1>0, <1>6, <1>12, <2>1, SendHolds
<1>14. Grows(db, e)
  BY <1>7, <1>12, GrowsTwice
<1>15. turn' = turn /\ background' = background /\ Spend("asks")
  BY DEF Ask
<1>16. TurnsTyped(e, turn) /\ QueuesTyped(e, queue)
  BY <1>0, <1>12, <1>14, InvParts, TurnsGrow, QueuesGrow
<1>17. QueuesTyped(e, queue')
  <2>1. item \in Item
    BY <1>9 DEF Item
  <2>2. ItemLinked(e, t, item)
    BY <1>7, <1>9, <1>12 DEF ItemLinked
  <2> HIDE DEF item
  <2>3. QueuesTyped(e, [queue EXCEPT ![t] = Append(@, item)])
    BY <1>16, <2>1, <2>2, AddedItem
  <2> QED
    BY <1>8, <1>16, <2>3
<1>18. SetupTyped'
  BY <1>15, InvParts, SpendKeeps DEF SetupTyped
<1> QED
  BY <1>8, <1>12, <1>13, <1>15, <1>16, <1>17, <1>18, InvNext

\* Text in a live turn's memory.
LEMMA SteerByPersonStep ==
  ASSUME Inv, NEW t \in Threads, SteerByPerson(t)
  PROVE  Inv'
<1>1. /\ db' = db /\ queue' = queue /\ background' = background /\ Spend("asks")
      /\ turn' = [turn EXCEPT ![t].plain = TRUE] /\ LiveTurn(t)
  BY DEF SteerByPerson
<1>2. turn[t] \in Turn /\ TurnLinked(db, t, turn[t]) /\ turn \in [Threads -> Turn]
  BY InvParts DEF TurnsTyped
<1> DEFINE x == [turn[t] EXCEPT !.plain = TRUE]
<1>3. x \in Turn /\ TurnLinked(db, t, x) /\ turn' = [turn EXCEPT ![t] = x]
  BY <1>1, <1>2 DEF Turn, TurnLinked
<1>4. TurnsTyped(db, turn')
  BY <1>3, InvParts, TurnChanged
<1>5. \A u \in Threads : Held(db, Memory(turn', background), u)
  <2> TAKE u \in Threads
  <2>1. CASE u = t
    BY <1>1, <2>1, InvParts, LiveFacts, RunHolds
  <2>2. CASE u # t
    <3>1. u \in Memory(turn, background) => u \in Memory(turn', background)
      BY <1>2, <1>3, <2>2, MemoryKept
    <3> QED
      BY <3>1, InvParts DEF Held, Busy
  <2> QED
    BY <2>1, <2>2
<1>6. SetupTyped'
  BY <1>1, InvParts, SpendKeeps DEF SetupTyped
<1> QED
  BY <1>1, <1>4, <1>5, <1>6, InvParts, InvNext

-----------------------------------------------------------------------------
(* Turns that start.                                                         *)

LEMMA ItemsAtFacts ==
  ASSUME NEW q, NEW d, QueuesTyped(d, q), NEW t \in Threads, NEW positions \in SUBSET DOMAIN q[t]
  PROVE  /\ QueuesTyped(d, [q EXCEPT ![t] = ItemsAt(q[t], positions)])
         /\ ItemsAt(q[t], positions) \in Seq(Item)
         /\ \A n \in DOMAIN ItemsAt(q[t], positions) : ItemLinked(d, t, ItemsAt(q[t], positions)[n])
<1> DEFINE N == Cardinality(positions)
           order == InOrder(positions)
           items == ItemsAt(q[t], positions)
<1>1. /\ DOMAIN q[t] = 1 .. Len(q[t]) /\ Len(q[t]) \in Nat
      /\ \A n \in DOMAIN q[t] : q[t][n] \in Item /\ ItemLinked(d, t, q[t][n])
  BY ItemsFacts
<1>2. positions \in SUBSET Nat /\ IsFiniteSet(positions)
  <2>1. IsFiniteSet(1 .. Len(q[t]))
    BY <1>1, FS_Interval
  <2> QED
    BY <1>1, <2>1, FS_Subset
<1>3. N \in Nat /\ order \in [1 .. N -> positions]
  BY <1>2, InOrderFacts
<1>4. items = [n \in 1 .. N |-> q[t][order[n]]]
  BY DEF ItemsAt
<1> HIDE DEF items, N, order
<1>5. items \in [1 .. N -> Item] /\ \A n \in 1 .. N : ItemLinked(d, t, items[n])
  BY <1>1, <1>3, <1>4
<1>6. items \in Seq(Item) /\ DOMAIN items = 1 .. N
  BY <1>3, <1>5, IsSeq
<1>7. QueuesTyped(d, [q EXCEPT ![t] = items])
  BY <1>5, <1>6, QueueChanged
<1> QED
  BY <1>5, <1>6, <1>7 DEF items

\* A step of a thread that has a run afterwards, and a step of a thread that settles it.
LEMMA BusyAction ==
  ASSUME Inv, NEW t \in Threads, NEW e, Typed(e), Beside(db, e, t),
         NEW i \in DOMAIN e.runs[t], e.runs[t][i].status \notin Terminal, NEW tn, NEW bg,
         \A u \in Threads \ {t} : tn[u] = turn[u] /\ (u \in background => u \in bg)
  PROVE  \A u \in Threads : Held(e, Memory(tn, bg), u)
<1> TAKE u \in Threads
<1>1. CASE u = t
  BY <1>1, RunHolds
<1>2. CASE u # t
  <2>1. u \in Memory(turn, background) => u \in Memory(tn, bg)
    BY <1>2, MemoryKept
  <2>2. Held(db, Memory(turn, background), u)
    BY InvParts
  <2> QED
    BY <1>2, <2>1, <2>2, BesideHeld
<1> QED
  BY <1>1, <1>2

LEMMA SettlesAction ==
  ASSUME Inv, NEW t \in Threads, NEW e, Typed(e), Grows(db, e), Beside(db, e, t), NEW tn, NEW bg,
         \A u \in Threads \ {t} : tn[u] = turn[u] /\ (u \in background => u \in bg)
  PROVE  LET f == Settle(e, Memory(tn, bg), {t})
         IN /\ Typed(f) /\ Grows(db, f) /\ f.runs = e.runs /\ f.steers = e.steers
            /\ \A u \in Threads : Held(f, Memory(tn, bg), u)
<1> DEFINE m == Memory(tn, bg)
           f == Settle(e, m, {t})
<1>1. \A u \in Threads \ {t} : u \in Memory(turn, background) => u \in m
  BY MemoryKept
<1>2. \A u \in Threads : Held(db, Memory(turn, background), u)
  BY InvParts
<1> HIDE DEF m
<1>3. \A u \in Threads : Held(f, m, u)
  BY <1>1, <1>2, SettlesOne
<1>4. Typed(f) /\ SettledFrom(e, f, Published(e, m, {t}))
  BY SettleFacts
<1>5. Grows(e, f)
  BY SettleGrows
<1>6. Grows(db, f)
  BY <1>5, GrowsTwice
<1> QED
  BY <1>3, <1>4, <1>6 DEF SettledFrom, m

LEMMA NoTurnType ==
  ASSUME NEW d, NEW t, NEW i \in 0 .. Len(d.runs[t]), Len(d.runs[t]) \in Nat
  PROVE  /\ NoTurn \in Turn /\ [NoTurn EXCEPT !.run = i] \in Turn
         /\ TurnLinked(d, t, NoTurn) /\ TurnLinked(d, t, [NoTurn EXCEPT !.run = i])
<1>1. i \in Nat /\ 0 \in 0 .. Len(d.runs[t])
  OBVIOUS
<1>2. NoTurn \in Turn /\ [NoTurn EXCEPT !.run = i] \in Turn
  BY <1>1 DEF NoTurn, Turn
<1>3. /\ NoTurn.run = 0 /\ NoTurn.unread \cup NoTurn.taken = {}
      /\ [NoTurn EXCEPT !.run = i].run = i
      /\ [NoTurn EXCEPT !.run = i].unread \cup [NoTurn EXCEPT !.run = i].taken = {}
  BY DEF NoTurn
<1> QED
  BY <1>1, <1>2, <1>3 DEF TurnLinked

\* A turn of one of the thread's runs.
LEMMA StartsStep ==
  ASSUME Inv, NEW t \in Threads, NEW i \in DOMAIN db.runs[t], NEW rows \in SUBSET Rows(db, t),
         Starts(db, t, i, rows)
  PROVE  /\ Typed(db') /\ Grows(db, db') /\ TurnsTyped(db', turn')
         /\ \A u \in Threads : Held(db', Memory(turn', background), u)
<1>0. Typed(db) /\ TurnsTyped(db, turn)
  BY InvParts
<1> DEFINE run == [db.runs[t][i] EXCEPT !.start = "running", !.status = "active", !.started = TRUE,
                                        !.rows = rows]
           e == [db EXCEPT !.runs[t][i] = run]
<1>1. /\ db.runs[t][i] \in Run /\ DOMAIN db.inbox \subseteq Nat
      /\ DOMAIN db.runs[t] = 1 .. Len(db.runs[t]) /\ Len(db.runs[t]) \in Nat
  BY <1>0, Parts DEF Typed
<1>2. rows \in SUBSET Nat
  BY <1>1 DEF Rows
<1>3. run \in Run /\ run.item = db.runs[t][i].item /\ run.rows = rows /\ run.status = "active"
  BY <1>1, <1>2 DEF Run, Statuses, InFlight
<1>4. db' = e
  BY <1>0 DEF Starts
<1> HIDE DEF run
<1>5. RunsOf(db, e, t, [db.runs[t] EXCEPT ![i] = run])
  BY <1>0, <1>3, RunChanged
<1> HIDE DEF e
<1>6. Typed(e) /\ Beside(db, e, t) /\ Grows(db, e) /\ e.runs[t] = [db.runs[t] EXCEPT ![i] = run]
  BY <1>5 DEF RunsOf
<1>7. i \in DOMAIN e.runs[t] /\ e.runs[t][i].status \notin Terminal
  BY <1>3, <1>6 DEF Terminal
<1>8. turn' = [turn EXCEPT ![t] = [NoTurn EXCEPT !.run = i]] /\ turn \in [Threads -> Turn]
  BY <1>0 DEF Starts, TurnsTyped
<1>9. \A u \in Threads : Held(e, Memory(turn', background), u)
  <2>1. \A u \in Threads \ {t} : turn'[u] = turn[u]
    BY <1>8
  <2> QED
    BY <1>6, <1>7, <2>1, BusyAction
<1>10. TurnsTyped(e, turn')
  <2>1. TurnsTyped(e, turn)
    BY <1>0, <1>6, TurnsGrow
  <2>2. DOMAIN e.runs[t] = 1 .. Len(e.runs[t]) /\ Len(e.runs[t]) \in Nat
    BY <1>6, Parts DEF Typed
  <2>3. i \in 0 .. Len(e.runs[t])
    BY <1>7, <2>2
  <2>4. [NoTurn EXCEPT !.run = i] \in Turn /\ TurnLinked(e, t, [NoTurn EXCEPT !.run = i])
    BY <2>2, <2>3, NoTurnType
  <2> QED
    BY <1>8, <2>1, <2>4, TurnChanged
<1> QED
  BY <1>4, <1>6, <1>9, <1>10

LEMMA StartTurnStep ==
  ASSUME Inv, NEW t \in Threads, NEW i \in DOMAIN db.runs[t], StartTurn(t, i)
  PROVE  Inv'
<1>1. /\ Starts(db, t, i, db.runs[t][i].rows) /\ background' = background /\ setup' = setup
      /\ queue' = [queue EXCEPT ![t] = ItemsAt(@, {n \in DOMAIN @ : ~@[n].claimed})]
  BY DEF StartTurn
<1>2. db.runs[t][i].rows \in SUBSET Rows(db, t)
  BY InvParts DEF Typed, RunLinked
<1>3. /\ Typed(db') /\ Grows(db, db') /\ TurnsTyped(db', turn')
      /\ \A u \in Threads : Held(db', Memory(turn', background), u)
  BY <1>1, <1>2, StartsStep
<1>4. QueuesTyped(db, queue) /\ QueuesTyped(db', queue)
  BY <1>3, InvParts, QueuesGrow
<1>5. QueuesTyped(db', queue')
  <2> DEFINE positions == {n \in DOMAIN queue[t] : ~queue[t][n].claimed}
  <2>1. queue' = [queue EXCEPT ![t] = ItemsAt(queue[t], positions)]
    BY <1>1
  <2>2. positions \in SUBSET DOMAIN queue[t]
    OBVIOUS
  <2> HIDE DEF positions
  <2> QED
    BY <1>4, <2>1, <2>2, ItemsAtFacts
<1>6. SetupTyped'
  BY <1>1, InvParts DEF SetupTyped
<1> QED
  BY <1>1, <1>3, <1>5, <1>6, InvNext

LEMMA WriteTerminalFacts ==
  ASSUME NEW d, Typed(d), NEW m, NEW t \in Threads, NEW i \in DOMAIN d.runs[t], NEW status \in Terminal,
         NEW m0, \A u \in Threads \ {t} : Held(d, m0, u) /\ (u \in m0 => u \in m)
  PROVE  LET e == WriteTerminal(d, m, t, i, status)
         IN /\ Typed(e) /\ Grows(d, e)
            /\ e.runs = [d.runs EXCEPT ![t][i].status = status] /\ e.steers = d.steers
            /\ \A u \in Threads : Rows(d, u) \subseteq Rows(e, u)
            /\ \A u \in Threads : Held(e, m, u)
<1> DEFINE run == [d.runs[t][i] EXCEPT !.status = status]
           ended == [d EXCEPT !.runs[t][i] = run]
           read == IF status = "completed" THEN Acknowledge(ended, DeliveredByRun(ended, t, i), FALSE)
                   ELSE ended
           e == Settle(read, m, {t})
<1>1. d.runs[t][i] \in Run /\ d.runs[t][i].rows \subseteq Rows(d, t)
  BY Parts DEF Typed, RunLinked
<1>2. run \in Run /\ run.item = d.runs[t][i].item /\ run.rows \subseteq Rows(d, t)
  BY <1>1 DEF Run, Statuses
<1>3. /\ ended = [d EXCEPT !.runs[t][i].status = status]
      /\ ended.runs = [d.runs EXCEPT ![t][i].status = status] /\ ended.steers = d.steers
  BY DEF Typed, DB
<1>4. WriteTerminal(d, m, t, i, status) = e
  BY <1>3 DEF WriteTerminal
<1> HIDE DEF run
<1>5. RunsOf(d, ended, t, [d.runs[t] EXCEPT ![i] = run])
  BY <1>2, RunChanged
<1> HIDE DEF ended
<1>6. Typed(ended) /\ Beside(d, ended, t) /\ Grows(d, ended) /\ \A u \in Threads : Rows(ended, u) = Rows(d, u)
  BY <1>5 DEF RunsOf
<1>7. /\ Typed(read) /\ Beside(d, read, t) /\ Grows(d, read) /\ read.runs = ended.runs
      /\ read.steers = ended.steers /\ \A u \in Threads : Rows(read, u) = Rows(ended, u)
  <2>1. CASE status # "completed"
    BY <1>6, <2>1
  <2>2. CASE status = "completed"
    <3> DEFINE rows == DeliveredByRun(ended, t, i)
    <3>1. rows \subseteq Rows(ended, t)
      BY DEF DeliveredByRun
    <3>2. read = Acknowledge(ended, rows, FALSE)
      BY <2>2
    <3> HIDE DEF rows, read
    <3>3. RewriteOf(ended, read, rows)
      BY <1>6, <3>2, AcknowledgeRewrites
    <3>4. Beside(ended, read, t) /\ Grows(ended, read)
      BY <3>1, <3>3, RewriteBeside, RewriteGrows
    <3> QED
      BY <1>6, <3>3, <3>4, BesideTwice, GrowsTwice DEF RewriteOf
  <2> QED
    BY <2>1, <2>2
<1> HIDE DEF read
<1>8. \A u \in Threads : Held(e, m, u)
  BY <1>7, SettlesOne
<1>9. Typed(e) /\ SettledFrom(read, e, Published(read, m, {t})) /\ Grows(read, e)
  BY <1>7, SettleFacts, SettleGrows
<1> HIDE DEF e
<1>10. \A u \in Threads : Rows(read, u) \subseteq Rows(e, u)
  BY <1>9 DEF SettledFrom, Rows
<1>11. /\ Typed(e) /\ Grows(d, e) /\ e.runs = ended.runs /\ e.steers = ended.steers
       /\ \A u \in Threads : Rows(d, u) \subseteq Rows(e, u)
  BY <1>6, <1>7, <1>9, <1>10, GrowsTwice DEF SettledFrom
<1> QED
  BY <1>3, <1>4, <1>8, <1>11

\* A wake starts its turn, or ends without one and gives its rows back.
LEMMA StartWakeStep ==
  ASSUME Inv, NEW t \in Threads, NEW i \in DOMAIN db.runs[t], StartWake(t, i)
  PROVE  Inv'
<1>0. Typed(db) /\ TurnsTyped(db, turn) /\ QueuesTyped(db, queue)
  BY InvParts
<1> DEFINE rows == {k \in db.runs[t][i].rows : db.inbox[k].status # "acknowledged"}
           memory == Memory(turn, background)
           run == [db.runs[t][i] EXCEPT !.start = "succeeded"]
           ended == [db EXCEPT !.runs[t][i] = run]
           written == WriteTerminal(ended, memory, t, i, "cancelled")
           again == PendingAgain(written, rows, FALSE)
<1>1. queue' = queue /\ background' = background /\ setup' = setup
  BY DEF StartWake
<1>2. db.runs[t][i] \in Run /\ rows \subseteq Rows(db, t) /\ db.runs[t][i].rows \subseteq Rows(db, t)
  BY <1>0, Parts DEF Typed, RunLinked
<1>3. CASE Starts(db, t, i, rows)
  <2> HIDE DEF rows
  <2>1. /\ Typed(db') /\ Grows(db, db') /\ TurnsTyped(db', turn')
        /\ \A u \in Threads : Held(db', Memory(turn', background), u)
    BY <1>2, <1>3, StartsStep
  <2>2. QueuesTyped(db', queue)
    BY <1>0, <2>1, QueuesGrow
  <2>3. SetupTyped'
    BY <1>1, InvParts DEF SetupTyped
  <2> QED
    BY <1>1, <2>1, <2>2, <2>3, InvNext
<1>4. CASE turn' = turn /\ db' = Settle(PendingAgain(WriteTerminal([db EXCEPT !.runs[t][i].start = "succeeded"], memory, t, i, "cancelled"), rows, FALSE), memory, {t})
  <2>1. run \in Run /\ run.item = db.runs[t][i].item /\ run.rows \subseteq Rows(db, t)
    BY <1>2 DEF Run, InFlight
  <2>2. ended = [db EXCEPT !.runs[t][i].start = "succeeded"]
    BY <1>0 DEF Typed, DB
  <2>3. db' = Settle(again, memory, {t})
    BY <1>4, <2>2
  <2> HIDE DEF run, rows
  <2>4. RunsOf(db, ended, t, [db.runs[t] EXCEPT ![i] = run])
    BY <1>0, <2>1, RunChanged
  <2> HIDE DEF ended, memory
  <2>5. /\ Typed(ended) /\ Beside(db, ended, t) /\ Grows(db, ended)
        /\ \A u \in Threads : Rows(ended, u) = Rows(db, u)
        /\ i \in DOMAIN ended.runs[t]
    BY <2>4 DEF RunsOf
  <2>6. \A u \in Threads \ {t} : Held(ended, memory, u)
    <3>1. \A u \in Threads : Held(db, memory, u)
      BY InvParts DEF memory
    <3> QED
      BY <2>5, <3>1, BesideHeld
  <2>7. /\ Typed(written) /\ Grows(ended, written)
        /\ \A u \in Threads : Rows(ended, u) \subseteq Rows(written, u)
        /\ \A u \in Threads : Held(written, memory, u)
    <3>1. "cancelled" \in Terminal
      BY DEF Terminal
    <3> QED
      BY <2>5, <2>6, <3>1, WriteTerminalFacts
  <2> HIDE DEF written
  <2>8. RewriteOf(written, again, rows) /\ rows \subseteq Rows(written, t)
    BY <1>2, <2>5, <2>7, PendingAgainRewrites
  <2> HIDE DEF again
  <2>9. Typed(again) /\ Beside(written, again, t) /\ Grows(written, again)
    BY <2>8, RewriteBeside, RewriteGrows DEF RewriteOf
  <2>10. \A u \in Threads : Held(Settle(again, memory, {t}), memory, u)
    BY <2>7, <2>9, SettlesOne
  <2>11. Typed(db') /\ Grows(again, db')
    BY <2>3, <2>9, SettleFacts, SettleGrows
  <2>12. Grows(db, db')
    BY <2>5, <2>7, <2>9, <2>11, GrowsTwice
  <2>13. TurnsTyped(db', turn) /\ QueuesTyped(db', queue)
    BY <1>0, <2>11, <2>12, TurnsGrow, QueuesGrow
  <2>14. SetupTyped'
    BY <1>1, InvParts DEF SetupTyped
  <2>15. \A u \in Threads : Held(db', Memory(turn', background'), u)
    BY <1>1, <1>4, <2>3, <2>10 DEF memory
  <2> QED
    BY <1>1, <1>4, <2>11, <2>13, <2>14, <2>15, InvNext
<1> QED
  BY <1>3, <1>4 DEF StartWake

\* Rule 5 of the reconciler: the run is queued and has a turn.start again.
LEMMA RestartSendStep ==
  ASSUME Inv, NEW t \in Threads, NEW i \in DOMAIN db.runs[t], RestartSend(t, i)
  PROVE  Inv'
<1>0. Typed(db) /\ TurnsTyped(db, turn) /\ QueuesTyped(db, queue)
  BY InvParts
<1>1. /\ db.runs[t] \in Seq(Run) /\ db.runs[t][i] \in Run /\ db.runs[t][i].rows \subseteq Rows(db, t)
  BY <1>0, Parts DEF Typed, RunLinked
<1>2. /\ db' = [db EXCEPT !.runs[t] = Enqueue(@, i)] /\ db.runs[t][i].status = "queued"
      /\ UNCHANGED <<queue, turn, background, setup>>
  BY DEF RestartSend
<1>3. PICK at \in Nat : Enqueue(db.runs[t], i) = [db.runs[t] EXCEPT ![i] = [db.runs[t][i] EXCEPT !.start = "pending", !.at = at]]
  BY <1>1, Enqueued
<1> DEFINE run == [db.runs[t][i] EXCEPT !.start = "pending", !.at = at]
           e == [db EXCEPT !.runs[t][i] = run]
<1>4. run \in Run /\ run.item = db.runs[t][i].item /\ run.rows \subseteq Rows(db, t) /\ run.status = "queued"
  BY <1>1, <1>2 DEF Run, InFlight
<1> HIDE DEF run
<1>5. db' = e
  BY <1>2, <1>3 DEF run
<1>6. RunsOf(db, e, t, [db.runs[t] EXCEPT ![i] = run])
  BY <1>0, <1>4, RunChanged
<1> HIDE DEF e
<1>7. Typed(e) /\ Beside(db, e, t) /\ Grows(db, e) /\ e.runs[t] = [db.runs[t] EXCEPT ![i] = run]
  BY <1>6 DEF RunsOf
<1>8. i \in DOMAIN e.runs[t] /\ e.runs[t][i].status \notin Terminal
  BY <1>4, <1>7 DEF Terminal
<1>9. \A u \in Threads : Held(e, Memory(turn, background), u)
  BY <1>7, <1>8, BusyAction
<1>10. TurnsTyped(e, turn) /\ QueuesTyped(e, queue)
  BY <1>0, <1>7, TurnsGrow, QueuesGrow
<1>11. SetupTyped'
  BY <1>2, InvParts DEF SetupTyped
<1> QED
  BY <1>2, <1>5, <1>7, <1>9, <1>10, <1>11, InvNext

-----------------------------------------------------------------------------
(* Steers, and the end of a run.                                             *)

LEMMA OfSteersFacts ==
  ASSUME NEW d, Typed(d), NEW t \in Threads, NEW steers \in SUBSET DOMAIN d.steers[t]
  PROVE  /\ OfSteers(d, t, steers) \subseteq Rows(d, t)
         /\ \A k \in OfSteers(d, t, steers) : d.inbox[k].by.kind = "steer"
<1>1. \A j \in steers : d.steers[t][j].rows \subseteq Rows(d, t)
  BY DEF Typed, SteerLinked
<1>2. \A j \in steers : SteerOf(j).kind = "steer"
  BY DEF SteerOf
<1> QED
  BY <1>1, <1>2 DEF OfSteers, Own

LEMMA TurnFacts ==
  ASSUME NEW d, NEW tn, TurnsTyped(d, tn), NEW t \in Threads
  PROVE  /\ tn \in [Threads -> Turn] /\ tn[t] \in Turn
         /\ tn[t].unread \subseteq DOMAIN d.steers[t] /\ tn[t].taken \subseteq DOMAIN d.steers[t]
         /\ tn[t].run \in 0 .. Len(d.runs[t])
BY DEF TurnsTyped, TurnLinked

\* The live turn's memory and rows change, and the turn goes on.
LEMMA LiveStep ==
  ASSUME Inv, NEW t \in Threads, LiveTurn(t), NEW e, Typed(e), Beside(db, e, t), Grows(db, e),
         e.runs = db.runs, NEW x \in Turn, TurnLinked(e, t, x),
         db' = e, turn' = [turn EXCEPT ![t] = x], queue' = queue, background' = background, SetupTyped'
  PROVE  Inv'
<1>0. Typed(db) /\ TurnsTyped(db, turn) /\ QueuesTyped(db, queue)
  BY InvParts
<1>1. turn[t].run \in DOMAIN e.runs[t] /\ e.runs[t][turn[t].run].status \notin Terminal
  BY <1>0, LiveFacts
<1>2. \A u \in Threads \ {t} : turn'[u] = turn[u]
  BY <1>0 DEF TurnsTyped
<1>3. \A u \in Threads : Held(e, Memory(turn', background), u)
  BY <1>1, <1>2, BusyAction
<1>4. TurnsTyped(e, turn')
  BY <1>0, TurnsGrow, TurnChanged
<1>5. QueuesTyped(e, queue)
  BY <1>0, QueuesGrow
<1> QED
  BY <1>3, <1>4, <1>5, InvNext

LEMMA ReadSteersStep ==
  ASSUME Inv, NEW t \in Threads, ReadSteers(t)
  PROVE  Inv'
<1>0. Typed(db) /\ TurnsTyped(db, turn)
  BY InvParts
<1> DEFINE own == OfSteers(db, t, turn[t].unread)
           e == MarkTaken(db, own, TRUE)
           x == [turn[t] EXCEPT !.unread = {}, !.plain = FALSE, !.taken = @ \cup turn[t].unread]
<1>1. /\ LiveTurn(t) /\ queue' = queue /\ background' = background /\ setup' = setup
      /\ db' = e /\ turn' = [turn EXCEPT ![t] = x]
  BY DEF ReadSteers
<1>2. own \subseteq Rows(db, t)
  BY <1>0, TurnFacts, OfSteersFacts
<1>3. RewriteOf(db, e, own)
  <2> HIDE DEF own
  <2> QED
    BY <1>0, MarkTakenRewrites
<1> HIDE DEF e, own
<1>4. Typed(e) /\ Beside(db, e, t) /\ Grows(db, e) /\ e.runs = db.runs /\ e.steers = db.steers
  BY <1>2, <1>3, RewriteBeside, RewriteGrows DEF RewriteOf
<1>5. x \in Turn
  <2>1. turn[t] \in Turn
    BY <1>0, TurnFacts
  <2>2. turn[t].taken \cup turn[t].unread \in SUBSET Nat
    BY <2>1 DEF Turn
  <2> QED
    BY <2>1, <2>2 DEF Turn
<1>6. TurnLinked(e, t, x)
  <2>1. /\ turn[t] \in Turn /\ turn[t].run \in 0 .. Len(db.runs[t])
        /\ turn[t].unread \subseteq DOMAIN db.steers[t] /\ turn[t].taken \subseteq DOMAIN db.steers[t]
    BY <1>0, TurnFacts
  <2>2. x.run = turn[t].run /\ x.unread \cup x.taken \subseteq DOMAIN db.steers[t]
    BY <2>1 DEF Turn
  <2> QED
    BY <1>4, <2>1, <2>2 DEF TurnLinked
<1>7. SetupTyped'
  BY <1>1, InvParts DEF SetupTyped
<1> HIDE DEF x
<1> QED
  BY <1>1, <1>4, <1>5, <1>6, <1>7, LiveStep

LEMMA ReturnSteerStep ==
  ASSUME Inv, NEW t \in Threads, NEW j \in DOMAIN db.steers[t], ReturnSteer(t, j)
  PROVE  Inv'
<1>0. Typed(db) /\ TurnsTyped(db, turn)
  BY InvParts
<1> DEFINE own == OfSteers(db, t, {j})
           e == MarkTaken(db, own, FALSE)
           x == [turn[t] EXCEPT !.taken = @ \ {j}, !.unread = @ \cup {j}]
<1>1. /\ LiveTurn(t) /\ queue' = queue /\ background' = background /\ Spend("returns")
      /\ db' = e /\ turn' = [turn EXCEPT ![t] = x]
  BY DEF ReturnSteer
<1>2. own \subseteq Rows(db, t)
  BY <1>0, OfSteersFacts
<1>3. RewriteOf(db, e, own)
  <2> HIDE DEF own
  <2> QED
    BY <1>0, MarkTakenRewrites
<1> HIDE DEF e, own
<1>4. Typed(e) /\ Beside(db, e, t) /\ Grows(db, e) /\ e.runs = db.runs /\ e.steers = db.steers
  BY <1>2, <1>3, RewriteBeside, RewriteGrows DEF RewriteOf
<1>5. j \in Nat
  BY <1>0, Parts DEF Typed
<1>6. x \in Turn
  <2>1. turn[t] \in Turn
    BY <1>0, TurnFacts
  <2>2. turn[t].taken \ {j} \in SUBSET Nat /\ turn[t].unread \cup {j} \in SUBSET Nat
    BY <1>5, <2>1 DEF Turn
  <2> QED
    BY <2>1, <2>2 DEF Turn
<1>7. TurnLinked(e, t, x)
  <2>1. /\ turn[t] \in Turn /\ turn[t].run \in 0 .. Len(db.runs[t])
        /\ turn[t].unread \subseteq DOMAIN db.steers[t] /\ turn[t].taken \subseteq DOMAIN db.steers[t]
    BY <1>0, TurnFacts
  <2>2. x.run = turn[t].run /\ x.unread \cup x.taken \subseteq DOMAIN db.steers[t]
    BY <2>1 DEF Turn
  <2> QED
    BY <1>4, <2>1, <2>2 DEF TurnLinked
<1>8. SetupTyped'
  BY <1>1, InvParts, SpendKeeps DEF SetupTyped
<1> HIDE DEF x
<1> QED
  BY <1>1, <1>4, <1>6, <1>7, <1>8, LiveStep

\* A steer is held by its turn, given back, or becomes a queue item with its rows.
LEMMA ExecuteSteerStep ==
  ASSUME Inv, NEW t \in Threads, NEW j \in DOMAIN db.steers[t], ExecuteSteer(t, j)
  PROVE  Inv'
<1>0. Typed(db) /\ TurnsTyped(db, turn) /\ QueuesTyped(db, queue)
  BY InvParts
<1> DEFINE own == Own(db, db.steers[t][j].rows, SteerOf(j))
           steer == [db.steers[t][j] EXCEPT !.status = "succeeded", !.rows = own]
           done == [db EXCEPT !.steers[t][j] = steer]
           memory == Memory(turn, background)
           item == [steer |-> j, run |-> 0, claimed |-> FALSE]
           x == [turn[t] EXCEPT !.unread = @ \cup {j}]
<1>1. /\ background' = background /\ setup' = setup
      /\ \/ db' = Settle(Release(done, own), memory, {t}) /\ queue' = queue /\ turn' = turn
         \/ db' = Settle(done, memory, {t}) /\ queue' = queue /\ turn' = turn
         \/ LiveTurn(t) /\ db' = MarkHeld(done, own) /\ queue' = queue /\ turn' = [turn EXCEPT ![t] = x]
         \/ db' = Settle(ToItems(done, own), memory, {t}) /\ turn' = turn
            /\ queue' = [queue EXCEPT ![t] = Append(@, item)]
  BY DEF ExecuteSteer
<1>2. /\ db.steers[t][j] \in Steer /\ SteerLinked(db, t, db.steers[t][j])
      /\ DOMAIN db.inbox \subseteq Nat /\ j \in Nat /\ j # 0
  BY <1>0, Parts DEF Typed
<1>3. own \subseteq Rows(db, t) /\ \A k \in own : db.inbox[k].by.kind = "steer"
  BY <1>2 DEF Own, SteerLinked, SteerOf
<1>4. steer \in Steer /\ SteerLinked(db, t, steer)
  <2>1. own \in SUBSET Nat
    BY <1>2, <1>3 DEF Rows
  <2> HIDE DEF own
  <2> QED
    BY <1>2, <1>3, <2>1 DEF Steer, SteerLinked
<1> HIDE DEF own, steer
<1>5. SteersOf(db, done, t, [db.steers[t] EXCEPT ![j] = steer])
  BY <1>0, <1>4, SteerChanged
<1> HIDE DEF done
<1>6. /\ Typed(done) /\ Beside(db, done, t) /\ Grows(db, done) /\ done.runs = db.runs
      /\ done.inbox = db.inbox /\ \A u \in Threads : Rows(done, u) = Rows(db, u)
      /\ j \in DOMAIN done.steers[t]
  BY <1>5 DEF SteersOf
<1>7. ASSUME NEW e, RewriteOf(done, e, own)
      PROVE  /\ Typed(e) /\ Beside(db, e, t) /\ Grows(db, e) /\ e.runs = db.runs
             /\ j \in DOMAIN e.steers[t]
  <2>1. own \subseteq Rows(done, t)
    BY <1>3, <1>6
  <2>2. Beside(done, e, t) /\ Grows(done, e)
    BY <1>7, <2>1, RewriteBeside, RewriteGrows
  <2> QED
    BY <1>6, <1>7, <2>2, BesideTwice, GrowsTwice DEF RewriteOf
<1>8. ASSUME NEW e, Typed(e), Beside(db, e, t), Grows(db, e), j \in DOMAIN e.steers[t],
             db' = Settle(e, memory, {t}), turn' = turn,
             queue' = queue \/ queue' = [queue EXCEPT ![t] = Append(@, item)]
      PROVE  Inv'
  <2>1. /\ Typed(db') /\ Grows(db, db') /\ db'.steers = e.steers
        /\ \A u \in Threads : Held(db', memory, u)
    <3> DEFINE f == Settle(e, memory, {t})
    <3>1. /\ Typed(f) /\ Grows(db, f) /\ f.runs = e.runs /\ f.steers = e.steers
          /\ \A u \in Threads : Held(f, memory, u)
      BY <1>8, SettlesAction
    <3> HIDE DEF f
    <3>2. db' = f
      BY <1>8 DEF f
    <3> QED
      BY <3>1, <3>2
  <2>2. TurnsTyped(db', turn) /\ QueuesTyped(db', queue)
    BY <1>0, <2>1, TurnsGrow, QueuesGrow
  <2>3. item \in Item /\ ItemLinked(db', t, item)
    BY <1>2, <1>8, <2>1 DEF Item, ItemLinked
  <2> HIDE DEF item
  <2>4. QueuesTyped(db', queue')
    BY <1>8, <2>2, <2>3, AddedItem
  <2>5. SetupTyped'
    BY <1>1, InvParts DEF SetupTyped
  <2> QED
    BY <1>1, <1>8, <2>1, <2>2, <2>4, <2>5, InvNext
<1>9. CASE db' = Settle(Release(done, own), memory, {t}) /\ queue' = queue /\ turn' = turn
  <2>1. RewriteOf(done, Release(done, own), own)
    BY <1>6, ReleaseRewrites
  <2> HIDE DEF memory, item
  <2> QED
    BY <1>7, <1>8, <1>9, <2>1
<1>10. CASE db' = Settle(done, memory, {t}) /\ queue' = queue /\ turn' = turn
  <2> HIDE DEF memory, item
  <2> QED
    BY <1>6, <1>8, <1>10
<1>11. CASE /\ db' = Settle(ToItems(done, own), memory, {t}) /\ turn' = turn
            /\ queue' = [queue EXCEPT ![t] = Append(@, item)]
  <2>1. \A k \in own \cap DOMAIN done.inbox : done.inbox[k].by.kind \in {"steer", "item"}
    BY <1>3, <1>6
  <2>2. RewriteOf(done, ToItems(done, own), own)
    BY <1>6, <2>1, ToItemsRewrites
  <2> HIDE DEF memory, item
  <2> QED
    BY <1>7, <1>8, <1>11, <2>2
<1>12. CASE LiveTurn(t) /\ db' = MarkHeld(done, own) /\ queue' = queue /\ turn' = [turn EXCEPT ![t] = x]
  <2>1. RewriteOf(done, MarkHeld(done, own), own)
    BY <1>6, MarkHeldRewrites
  <2>2. /\ Typed(db') /\ Beside(db, db', t) /\ Grows(db, db') /\ db'.runs = db.runs
        /\ j \in DOMAIN db'.steers[t]
    BY <1>7, <1>12, <2>1
  <2>3. x \in Turn
    <3>1. turn[t] \in Turn
      BY <1>0, TurnFacts
    <3>2. turn[t].unread \cup {j} \in SUBSET Nat
      BY <1>2, <3>1 DEF Turn
    <3> QED
      BY <3>1, <3>2 DEF Turn
  <2>4. TurnLinked(db', t, turn[t])
    BY <1>0, <2>2, TurnsGrow DEF TurnsTyped
  <2>5. turn[t] \in Turn
    BY <1>0, TurnFacts
  <2>6. TurnLinked(db', t, x)
    BY <2>2, <2>4, <2>5 DEF TurnLinked, Turn
  <2>7. SetupTyped'
    BY <1>1, InvParts DEF SetupTyped
  <2> HIDE DEF x
  <2> QED
    BY <1>1, <1>12, <2>2, <2>3, <2>6, <2>7, LiveStep
<1> QED
  BY <1>1, <1>9, <1>10, <1>11, <1>12

\* The terminal write of a turn's run.
LEMMA EndRunStep ==
  ASSUME Inv, NEW t \in Threads, NEW status \in {"completed", "failed", "stopped"}, EndRun(t, status)
  PROVE  Inv'
<1>0. Typed(db) /\ TurnsTyped(db, turn) /\ QueuesTyped(db, queue)
  BY InvParts
<1> DEFINE i == turn[t].run
           shown == db.runs[t][i].rows \cup UNION {db.steers[t][j].rows : j \in turn[t].taken}
           box == [k \in DOMAIN db.inbox |->
                     IF status = "completed" /\ k \in shown
                     THEN [db.inbox[k] EXCEPT !.reads = @ \cup {i}] ELSE db.inbox[k]]
           seen == [db EXCEPT !.inbox = box]
           memory == Memory(turn, background)
<1>1. /\ LiveTurn(t) /\ db' = WriteTerminal(seen, memory, t, i, status)
      /\ UNCHANGED <<queue, turn, background>>
      /\ Spend("failures") \/ UNCHANGED setup
  BY DEF EndRun
<1>2. i \in DOMAIN db.runs[t] /\ i \in Nat
  <2>1. i \in DOMAIN db.runs[t]
    BY <1>0, <1>1, LiveFacts
  <2>2. DOMAIN db.runs[t] = 1 .. Len(db.runs[t])
    BY <1>0, Parts DEF Typed
  <2> QED
    BY <2>1, <2>2
<1>3. shown \subseteq Rows(db, t)
  BY <1>0, <1>2, TurnFacts DEF Typed, RunLinked, SteerLinked
<1> HIDE DEF shown, i
<1>4. /\ box \in [DOMAIN db.inbox -> Row]
      /\ \A k \in DOMAIN db.inbox : box[k].to = db.inbox[k].to /\ RowLinked(db, box[k])
      /\ \A k \in DOMAIN db.inbox \ shown : box[k] = db.inbox[k]
  <2>1. \A k \in DOMAIN db.inbox : db.inbox[k] \in Row /\ RowLinked(db, db.inbox[k])
    BY <1>0, Parts DEF Typed
  <2>2. \A k \in DOMAIN db.inbox :
          /\ box[k] \in Row /\ box[k].to = db.inbox[k].to /\ box[k].by = db.inbox[k].by
    <3> TAKE k \in DOMAIN db.inbox
    <3>1. [db.inbox[k] EXCEPT !.reads = @ \cup {i}] \in Row
      BY <1>2, <2>1 DEF Row
    <3> QED
      BY <2>1, <3>1 DEF Row
  <2>3. \A k \in DOMAIN db.inbox \ shown : box[k] = db.inbox[k]
    OBVIOUS
  <2>4. box = [k \in DOMAIN db.inbox |-> box[k]]
    OBVIOUS
  <2> HIDE DEF box
  <2> QED
    BY <2>1, <2>2, <2>3, <2>4 DEF RowLinked
<1> HIDE DEF box
<1>5. RewriteOf(db, seen, shown)
  BY <1>0, <1>4, Rewritten
<1> HIDE DEF seen
<1>6. Typed(seen) /\ Beside(db, seen, t) /\ Grows(db, seen) /\ i \in DOMAIN seen.runs[t]
  BY <1>2, <1>3, <1>5, RewriteBeside, RewriteGrows DEF RewriteOf
<1>7. \A u \in Threads \ {t} : Held(seen, memory, u)
  <2>1. \A u \in Threads : Held(db, memory, u)
    BY InvParts
  <2> HIDE DEF memory
  <2> QED
    BY <1>6, <2>1, BesideHeld
<1>8. Typed(db') /\ Grows(seen, db') /\ \A u \in Threads : Held(db', memory, u)
  <2>1. status \in Terminal
    BY DEF Terminal
  <2> HIDE DEF memory
  <2> QED
    BY <1>1, <1>6, <1>7, <2>1, WriteTerminalFacts
<1>9. Grows(db, db')
  BY <1>6, <1>8, GrowsTwice
<1>10. TurnsTyped(db', turn) /\ QueuesTyped(db', queue)
  BY <1>0, <1>8, <1>9, TurnsGrow, QueuesGrow
<1>11. SetupTyped'
  BY <1>1, InvParts, SpendKeeps DEF SetupTyped
<1> QED
  BY <1>1, <1>8, <1>10, <1>11, InvNext

-----------------------------------------------------------------------------
(* The end of a turn, and the queue of a thread.                             *)

LEMMA LinkedConcat ==
  ASSUME NEW d, NEW t, NEW a \in Seq(Item), NEW b \in Seq(Item),
         \A n \in DOMAIN a : ItemLinked(d, t, a[n]), \A n \in DOMAIN b : ItemLinked(d, t, b[n])
  PROVE  a \o b \in Seq(Item) /\ \A n \in DOMAIN (a \o b) : ItemLinked(d, t, (a \o b)[n])
<1> DEFINE c == a \o b
<1>1. /\ c \in Seq(Item) /\ Len(c) = Len(a) + Len(b)
      /\ \A n \in 1 .. Len(a) : c[n] = a[n]
      /\ \A n \in (Len(a) + 1) .. (Len(a) + Len(b)) : c[n] = b[n - Len(a)]
  BY ConcatProperties
<1>2. /\ DOMAIN a = 1 .. Len(a) /\ Len(a) \in Nat /\ DOMAIN b = 1 .. Len(b) /\ Len(b) \in Nat
      /\ DOMAIN c = 1 .. Len(c)
  BY <1>1, LenProperties
<1> HIDE DEF c
<1>3. \A n \in DOMAIN c : ItemLinked(d, t, c[n])
  <2> TAKE n \in DOMAIN c
  <2>1. CASE n \in 1 .. Len(a)
    BY <1>1, <1>2, <2>1
  <2>2. CASE n \in (Len(a) + 1) .. (Len(a) + Len(b))
    <3>1. n - Len(a) \in DOMAIN b
      BY <1>2, <2>2
    <3> QED
      BY <1>1, <2>2, <3>1
  <2> QED
    BY <1>1, <1>2, <2>1, <2>2
<1> QED
  BY <1>1, <1>3 DEF c

LEMMA LinkedTail ==
  ASSUME NEW d, NEW t, NEW a \in Seq(Item), a # <<>>, \A n \in DOMAIN a : ItemLinked(d, t, a[n])
  PROVE  Tail(a) \in Seq(Item) /\ \A n \in DOMAIN Tail(a) : ItemLinked(d, t, Tail(a)[n])
<1>1. /\ Tail(a) \in Seq(Item) /\ Len(Tail(a)) = Len(a) - 1
      /\ \A n \in 1 .. Len(Tail(a)) : Tail(a)[n] = a[n + 1]
  BY HeadTailProperties
<1>2. DOMAIN a = 1 .. Len(a) /\ Len(a) \in Nat /\ DOMAIN Tail(a) = 1 .. Len(Tail(a))
  BY <1>1, LenProperties
<1>3. \A n \in DOMAIN Tail(a) : n + 1 \in DOMAIN a
  BY <1>1, <1>2
<1> QED
  BY <1>1, <1>2, <1>3

\* What the turn never read becomes items of its own, or its rows are pending again.
LEMMA SettleTurnStep ==
  ASSUME Inv, NEW t \in Threads, NEW saved \in BOOLEAN, SettleTurn(t, saved)
  PROVE  Inv'
<1>0. Typed(db) /\ TurnsTyped(db, turn) /\ QueuesTyped(db, queue)
  BY InvParts
<1> DEFINE i == turn[t].run
           had == UnreadSteers(turn, t)
           carried == IF had THEN turn[t].unread ELSE {}
           plain == had /\ turn[t].plain
           quiet == [turn EXCEPT ![t] = NoTurn]
           own == OfSteers(db, t, carried)
           moved == IF saved THEN ToItems(db, own) ELSE Release(db, own)
           follow == [NewRun("followup", {}, 0) EXCEPT !.status = IF saved THEN "queued" ELSE "cancelled"]
           followed == IF plain THEN [moved EXCEPT !.runs[t] = Append(@, follow)] ELSE moved
           order == InOrder(carried)
           items == [n \in 1 .. Cardinality(carried) |-> [steer |-> order[n], run |-> 0, claimed |-> FALSE]]
           textItem == [steer |-> 0, run |-> Len(followed.runs[t]), claimed |-> FALSE]
           text == IF plain THEN <<textItem>> ELSE <<>>
           ended == [followed EXCEPT !.runs[t][i].start = IF @ = "running" THEN "succeeded" ELSE @]
<1>1. /\ i # 0 /\ (Spend("failures") \/ UNCHANGED setup)
      /\ turn' = quiet /\ background' = background
      /\ queue' = IF saved THEN [queue EXCEPT ![t] = @ \o items \o text] ELSE queue
      /\ db' = Settle(ended, Memory(quiet, background), {t})
  BY DEF SettleTurn
<1>2. carried \in SUBSET DOMAIN db.steers[t]
  BY <1>0, TurnFacts
<1>3. own \subseteq Rows(db, t) /\ \A k \in own : db.inbox[k].by.kind = "steer"
  <2> HIDE DEF carried
  <2> QED
    BY <1>0, <1>2, OfSteersFacts
<1> HIDE DEF own
<1>4. RewriteOf(db, moved, own)
  <2>1. RewriteOf(db, Release(db, own), own)
    BY <1>0, ReleaseRewrites
  <2>2. RewriteOf(db, ToItems(db, own), own)
    <3>1. \A k \in own \cap DOMAIN db.inbox : db.inbox[k].by.kind \in {"steer", "item"}
      BY <1>3
    <3> QED
      BY <1>0, <3>1, ToItemsRewrites
  <2> QED
    BY <2>1, <2>2
<1> HIDE DEF moved
<1>5. /\ Typed(moved) /\ Beside(db, moved, t) /\ Grows(db, moved) /\ moved.runs = db.runs
      /\ moved.steers = db.steers
  BY <1>3, <1>4, RewriteBeside, RewriteGrows DEF RewriteOf
<1>6. i \in DOMAIN moved.runs[t] /\ i \in Nat
  <2>1. DOMAIN db.runs[t] = 1 .. Len(db.runs[t]) /\ Len(db.runs[t]) \in Nat
    BY <1>0, Parts DEF Typed
  <2>2. i \in 0 .. Len(db.runs[t]) /\ i # 0
    BY <1>0, <1>1, TurnFacts
  <2> HIDE DEF i
  <2> QED
    BY <1>5, <2>1, <2>2
<1> HIDE DEF i, plain
<1>7. /\ Typed(followed) /\ Beside(db, followed, t) /\ Grows(db, followed)
      /\ followed.steers = db.steers /\ i \in DOMAIN followed.runs[t]
      /\ plain => Len(followed.runs[t]) \in DOMAIN followed.runs[t]
  <2>1. CASE ~plain
    BY <1>5, <1>6, <2>1
  <2>2. CASE plain
    <3>1. follow \in Run /\ follow.rows \subseteq Rows(moved, t)
      <4>1. /\ NewRun("followup", {}, 0) \in Run /\ NewRun("followup", {}, 0).rows = {}
        BY NewRunType
      <4> QED
        BY <4>1 DEF Run, Statuses, Terminal
    <3> HIDE DEF follow
    <3> DEFINE more == Append(moved.runs[t], follow)
    <3>2. /\ RunsOf(moved, [moved EXCEPT !.runs[t] = Append(@, follow)], t, more)
          /\ DOMAIN more = DOMAIN moved.runs[t] \cup {Len(moved.runs[t]) + 1}
      <4>1. Typed(moved)
        BY <1>5
      <4> QED
        BY <3>1, <4>1, RunAdded, ZenonT(40)
    <3>3. RunsOf(moved, followed, t, more)
      BY <2>2, <3>2
    <3>4. moved.runs[t] \in Seq(Run)
      BY <1>5, Parts DEF Typed
    <3>5. Len(more) = Len(moved.runs[t]) + 1
      BY <3>1, <3>4, AppendProperties
    <3> HIDE DEF more, followed
    <3>6. /\ Typed(followed) /\ Beside(moved, followed, t) /\ Grows(moved, followed)
          /\ followed.runs[t] = more /\ followed.steers = moved.steers
      BY <3>3 DEF RunsOf
    <3> QED
      BY <1>5, <1>6, <3>2, <3>5, <3>6, BesideTwice, GrowsTwice
  <2> QED
    BY <2>1, <2>2
<1> HIDE DEF followed
<1> DEFINE run == [followed.runs[t][i] EXCEPT !.start = IF @ = "running" THEN "succeeded" ELSE @]
<1>8. followed.runs[t][i] \in Run /\ followed.runs[t][i].rows \subseteq Rows(followed, t)
  BY <1>7, Parts DEF Typed, RunLinked
<1>9. run \in Run /\ run.item = followed.runs[t][i].item /\ run.rows \subseteq Rows(followed, t)
  BY <1>8 DEF Run, InFlight
<1>10. ended = [followed EXCEPT !.runs[t][i] = run]
  BY <1>7 DEF Typed, DB
<1> HIDE DEF run
<1>11. RunsOf(followed, ended, t, [followed.runs[t] EXCEPT ![i] = run])
  BY <1>7, <1>9, <1>10, RunChanged
<1> HIDE DEF ended
<1>12. /\ Typed(ended) /\ Beside(db, ended, t) /\ Grows(db, ended) /\ ended.steers = db.steers
       /\ plain => Len(followed.runs[t]) \in DOMAIN ended.runs[t]
  BY <1>7, <1>11, BesideTwice, GrowsTwice DEF RunsOf
<1>13. /\ quiet[t] = NoTurn /\ \A u \in Threads \ {t} : quiet[u] = turn[u]
  BY <1>0 DEF TurnsTyped
<1>14. TurnsTyped(db, quiet)
  <2>1. 0 \in 0 .. Len(db.runs[t]) /\ Len(db.runs[t]) \in Nat
    BY <1>0, Parts DEF Typed
  <2>2. NoTurn \in Turn /\ TurnLinked(db, t, NoTurn)
    BY <2>1, NoTurnType
  <2> QED
    BY <1>0, <2>2, TurnChanged
<1> HIDE DEF quiet
<1>15. /\ Typed(db') /\ Grows(db, db') /\ db'.steers = db.steers /\ db'.runs = ended.runs
       /\ \A u \in Threads : Held(db', Memory(quiet, background), u)
  <2> DEFINE f == Settle(ended, Memory(quiet, background), {t})
  <2>1. /\ Typed(f) /\ Grows(db, f) /\ f.runs = ended.runs /\ f.steers = ended.steers
        /\ \A u \in Threads : Held(f, Memory(quiet, background), u)
    BY <1>12, <1>13, SettlesAction
  <2> HIDE DEF f
  <2>2. db' = f
    BY <1>1 DEF f
  <2> QED
    BY <1>12, <2>1, <2>2
<1>16. TurnsTyped(db', quiet) /\ QueuesTyped(db', queue)
  BY <1>0, <1>14, <1>15, TurnsGrow, QueuesGrow
<1>17. items \in Seq(Item) /\ \A n \in DOMAIN items : ItemLinked(db', t, items[n])
  <2> DEFINE N == Cardinality(carried)
  <2>1. DOMAIN db.steers[t] = 1 .. Len(db.steers[t]) /\ Len(db.steers[t]) \in Nat
    BY <1>0, Parts DEF Typed
  <2>2. carried \in SUBSET Nat /\ IsFiniteSet(carried)
    <3>1. IsFiniteSet(1 .. Len(db.steers[t]))
      BY <2>1, FS_Interval
    <3> HIDE DEF carried
    <3> QED
      BY <1>2, <2>1, <3>1, FS_Subset
  <2> HIDE DEF carried
  <2>3. N \in Nat /\ order \in [1 .. N -> carried]
    BY <2>2, InOrderFacts
  <2> HIDE DEF N, order
  <2>4. \A n \in 1 .. N : order[n] \in carried /\ order[n] # 0 /\ order[n] \in Nat /\ order[n] \in DOMAIN db'.steers[t]
    BY <1>2, <1>15, <2>1, <2>3
  <2>5. items = [n \in 1 .. N |-> [steer |-> order[n], run |-> 0, claimed |-> FALSE]]
    BY DEF N
  <2> HIDE DEF items
  <2>6. items \in [1 .. N -> Item]
    BY <2>4, <2>5 DEF Item
  <2>7. \A n \in 1 .. N : ItemLinked(db', t, items[n])
    BY <2>4, <2>5 DEF ItemLinked
  <2> QED
    BY <2>3, <2>6, <2>7, IsSeq
<1>18. text \in Seq(Item) /\ \A n \in DOMAIN text : ItemLinked(db', t, text[n])
  <2>1. CASE ~plain
    <3>1. text = <<>>
      BY <2>1
    <3> HIDE DEF text
    <3> QED
      BY <3>1, EmptySeq
  <2>2. CASE plain
    <3>1. Len(followed.runs[t]) \in DOMAIN db'.runs[t] /\ Len(followed.runs[t]) \in Nat
      BY <1>7, <1>12, <1>15, <2>2, Parts DEF Typed
    <3>2. textItem \in Item /\ ItemLinked(db', t, textItem)
      BY <3>1 DEF Item, ItemLinked
    <3>3. text = <<textItem>>
      BY <2>2
    <3> HIDE DEF text, textItem
    <3>4. text \in Seq(Item) /\ DOMAIN text = {1} /\ text[1] = textItem
      BY <3>2, <3>3
    <3> QED
      BY <3>2, <3>4
  <2> QED
    BY <2>1, <2>2
<1> HIDE DEF items, text
<1>19. QueuesTyped(db', queue')
  <2>1. queue[t] \in Seq(Item) /\ \A n \in DOMAIN queue[t] : ItemLinked(db', t, queue[t][n])
    BY <1>16 DEF QueuesTyped
  <2> DEFINE more == queue[t] \o items
             all == more \o text
  <2>2. more \in Seq(Item) /\ \A n \in DOMAIN more : ItemLinked(db', t, more[n])
    BY <1>17, <2>1, LinkedConcat
  <2> HIDE DEF more
  <2>3. all \in Seq(Item) /\ \A n \in DOMAIN all : ItemLinked(db', t, all[n])
    BY <1>18, <2>2, LinkedConcat
  <2> HIDE DEF all
  <2>4. QueuesTyped(db', [queue EXCEPT ![t] = all])
    BY <1>16, <2>3, QueueChanged
  <2>5. queue' = IF saved THEN [queue EXCEPT ![t] = all] ELSE queue
    BY <1>1 DEF all, more
  <2> QED
    BY <1>16, <2>4, <2>5
<1>20. SetupTyped'
  BY <1>1, InvParts, SpendKeeps DEF SetupTyped
<1> QED
  BY <1>1, <1>15, <1>16, <1>19, <1>20, InvNext

\* Runs whose status, source and turn.start are what they were hold their thread as before.
LEMMA RunsKeepHold ==
  ASSUME NEW d, Typed(d), NEW e, NEW m, NEW t \in Threads, Held(d, m, t),
         e.tasks = d.tasks, e.inbox = d.inbox, e.steers = d.steers,
         \A i \in DOMAIN d.runs[t] :
            /\ i \in DOMAIN e.runs[t] /\ e.runs[t][i].status = d.runs[t][i].status
            /\ e.runs[t][i].source = d.runs[t][i].source /\ e.runs[t][i].start = d.runs[t][i].start
  PROVE  Held(e, m, t)
<1>1. \A c : RunningInto(e, c) = RunningInto(d, c)
  BY DEF RunningInto
<1>2. Rows(e, t) = Rows(d, t)
  BY DEF Rows
<1>3. ASSUME NEW k \in Rows(d, t), Actionable(d, d.inbox[k])
      PROVE  Actionable(e, e.inbox[k])
  <2> DEFINE row == d.inbox[k]
  <2>1. row.to = t /\ RowLinked(d, row) /\ e.inbox[k] = row
    BY DEF Rows, Typed
  <2>2. \A j \in DOMAIN d.steers[t] : d.steers[t][j].run \in DOMAIN d.runs[t]
    BY DEF Typed, SteerLinked
  <2> HIDE DEF row
  <2>3. ByEffect(row) => CarrierRun(e, row).status = CarrierRun(d, row).status
    <3>1. CASE row.by.kind = "start"
      <4>1. row.by.n \in DOMAIN d.runs[t]
        BY <2>1, <3>1 DEF RowLinked
      <4> QED
        BY <2>1, <3>1, <4>1 DEF CarrierRun
    <3>2. CASE row.by.kind = "steer"
      <4>1. row.by.n \in DOMAIN d.steers[t]
        BY <2>1, <3>2 DEF RowLinked
      <4>2. d.steers[t][row.by.n].run \in DOMAIN d.runs[t]
        BY <2>2, <4>1
      <4> QED
        <5> DEFINE i == d.steers[t][row.by.n].run
        <5>1. CarrierRun(d, row) = d.runs[t][i] /\ CarrierRun(e, row) = e.runs[t][i]
          BY <2>1, <3>2 DEF CarrierRun
        <5> HIDE DEF i
        <5> QED
          BY <4>2, <5>1 DEF i
    <3> QED
      BY <3>1, <3>2 DEF ByEffect
  <2>4. LegacySteer(e, row) <=> LegacySteer(d, row)
    BY <2>1, <2>3 DEF LegacySteer, ByEffect
  <2> QED
    BY <1>3, <2>1, <2>3, <2>4 DEF Actionable, row
<1>4. DeliveryInFlight(d, t) => DeliveryInFlight(e, t)
  BY DEF DeliveryInFlight
<1>5. (\E i \in DOMAIN d.runs[t] : d.runs[t][i].status \notin Terminal)
        => \E i \in DOMAIN e.runs[t] : e.runs[t][i].status \notin Terminal
  OBVIOUS
<1> QED
  BY <1>1, <1>2, <1>3, <1>4, <1>5 DEF Held, Busy

LEMMA RunOfItemFacts ==
  ASSUME Typed(db), NEW t \in Threads, NEW item \in Item, ItemLinked(db, t, item)
  PROVE  /\ RunOfItem(t, item) \in Nat
         /\ item.steer = 0 => RunOfItem(t, item) \in DOMAIN db.runs[t]
         /\ item.steer # 0 /\ RunOfItem(t, item) \in DOMAIN db.runs[t] =>
              db.runs[t][RunOfItem(t, item)].item = item.steer
         /\ item.claimed => RunOfItem(t, item) \in DOMAIN db.runs[t]
<1> DEFINE ensured == {i \in DOMAIN db.runs[t] : db.runs[t][i].item = item.steer}
           n == Len(db.runs[t]) + 1
<1>1. DOMAIN db.runs[t] = 1 .. Len(db.runs[t]) /\ Len(db.runs[t]) \in Nat
  BY Parts DEF Typed
<1>2. n \in Nat /\ n \notin DOMAIN db.runs[t]
  BY <1>1
<1>3. RunOfItem(t, item) = IF item.steer = 0 THEN item.run
                           ELSE IF ensured = {} THEN n ELSE CHOOSE i \in ensured : TRUE
  BY DEF RunOfItem
<1>4. CASE item.steer = 0
  <2>1. item.run \in DOMAIN db.runs[t] /\ item.run \in Nat
    BY <1>1, <1>4 DEF ItemLinked
  <2> QED
    BY <1>3, <1>4, <2>1
<1>5. CASE item.steer # 0 /\ ensured = {}
  <2>1. ~item.claimed
    BY <1>5 DEF ItemLinked
  <2>2. RunOfItem(t, item) = n
    BY <1>3, <1>5
  <2> QED
    BY <1>2, <1>5, <2>1, <2>2
<1>6. CASE item.steer # 0 /\ ensured # {}
  <2>1. RunOfItem(t, item) = CHOOSE i \in ensured : TRUE
    BY <1>3, <1>6
  <2>2. RunOfItem(t, item) \in ensured
    BY <1>6, <2>1
  <2> QED
    BY <1>1, <1>6, <2>2
<1> QED
  BY <1>4, <1>5, <1>6

LEMMA ClaimedHead ==
  ASSUME NEW d, NEW q, QueuesTyped(d, q), NEW t \in Threads, q[t] # <<>>,
         Head(q[t]).steer # 0 => \E i \in DOMAIN d.runs[t] : d.runs[t][i].item = Head(q[t]).steer
  PROVE  QueuesTyped(d, [q EXCEPT ![t][1].claimed = TRUE])
<1> DEFINE item == [q[t][1] EXCEPT !.claimed = TRUE]
           items == [q[t] EXCEPT ![1] = item]
<1>1. /\ q[t] \in Seq(Item) /\ 1 \in DOMAIN q[t] /\ Head(q[t]) = q[t][1] /\ q[t][1] \in Item
      /\ \A n \in DOMAIN q[t] : ItemLinked(d, t, q[t][n])
  BY ItemsFacts
<1>2. item \in Item /\ item.steer = q[t][1].steer /\ item.run = q[t][1].run
  BY <1>1 DEF Item
<1>3. ItemLinked(d, t, item)
  BY <1>1, <1>2 DEF ItemLinked
<1> HIDE DEF item
<1>4. items \in Seq(Item) /\ DOMAIN items = DOMAIN q[t]
  BY <1>1, <1>2, ExceptSeq
<1>5. \A n \in DOMAIN items : ItemLinked(d, t, items[n])
  BY <1>1, <1>3, <1>4
<1> HIDE DEF items
<1>6. QueuesTyped(d, [q EXCEPT ![t] = items])
  BY <1>4, <1>5, QueueChanged
<1> QED
  BY <1>6 DEF items, item

\* A drain drops an item with nothing to show, or claims it and makes its run.
LEMMA DrainStep ==
  ASSUME Inv, NEW t \in Threads, Drain(t)
  PROVE  Inv'
<1>0. Typed(db) /\ TurnsTyped(db, turn) /\ QueuesTyped(db, queue)
  BY InvParts
<1> DEFINE item == Head(queue[t])
           own == IF item.steer = 0 THEN {} ELSE Own(db, db.steers[t][item.steer].rows, ItemOf(item.steer))
           i == RunOfItem(t, item)
           run == [db.runs[t][i] EXCEPT !.rows = own]
           late == NewRun("late", own, item.steer)
           shown == [db EXCEPT !.runs[t][i] = run]
           made == [db EXCEPT !.runs[t] = Append(@, late)]
<1>1. /\ queue[t] # <<>> /\ turn' = turn /\ background' = background /\ setup' = setup
      /\ \/ db' = db /\ queue' = [queue EXCEPT ![t] = Tail(@)]
         \/ /\ queue' = [queue EXCEPT ![t][1].claimed = TRUE]
            /\ db' = IF i \in DOMAIN db.runs[t] THEN [db EXCEPT !.runs[t][i].rows = own] ELSE made
  BY DEF Drain
<1>2. /\ queue[t] \in Seq(Item) /\ item \in Item /\ ItemLinked(db, t, item)
      /\ \A n \in DOMAIN queue[t] : ItemLinked(db, t, queue[t][n])
  BY <1>0, <1>1, ItemsFacts
<1>3. own \subseteq Rows(db, t) /\ own \in SUBSET Nat
  <2>1. item.steer # 0 => db.steers[t][item.steer].rows \subseteq Rows(db, t)
    BY <1>0, <1>2 DEF Typed, SteerLinked, ItemLinked
  <2>2. own \subseteq Rows(db, t)
    BY <2>1 DEF Own
  <2>3. DOMAIN db.inbox \subseteq Nat
    BY <1>0, Parts DEF Typed
  <2> QED
    BY <2>2, <2>3 DEF Rows
<1>4. /\ i \in Nat /\ (item.steer = 0 => i \in DOMAIN db.runs[t])
      /\ item.steer # 0 /\ i \in DOMAIN db.runs[t] => db.runs[t][i].item = item.steer
  BY <1>0, <1>2, RunOfItemFacts
<1>5. SetupTyped'
  BY <1>1, InvParts DEF SetupTyped
<1>6. CASE db' = db /\ queue' = [queue EXCEPT ![t] = Tail(@)]
  <2>1. Tail(queue[t]) \in Seq(Item) /\ \A n \in DOMAIN Tail(queue[t]) : ItemLinked(db, t, Tail(queue[t])[n])
    BY <1>1, <1>2, LinkedTail
  <2>2. QueuesTyped(db, queue')
    BY <1>0, <1>6, <2>1, QueueChanged
  <2> QED
    BY <1>1, <1>5, <1>6, <2>2, InvParts, InvNext
<1> HIDE DEF own, i
<1>7. CASE i \in DOMAIN db.runs[t] /\ db' = [db EXCEPT !.runs[t][i].rows = own]
           /\ queue' = [queue EXCEPT ![t][1].claimed = TRUE]
  <2>1. db.runs[t][i] \in Run
    BY <1>0, <1>7, Parts DEF Typed
  <2>2. /\ run \in Run /\ run.item = db.runs[t][i].item /\ run.rows \subseteq Rows(db, t)
        /\ run.status = db.runs[t][i].status /\ run.source = db.runs[t][i].source
        /\ run.start = db.runs[t][i].start
    BY <1>3, <2>1 DEF Run
  <2>3. db' = shown
    BY <1>0, <1>7 DEF Typed, DB
  <2> HIDE DEF run
  <2>4. RunsOf(db, shown, t, [db.runs[t] EXCEPT ![i] = run])
    BY <1>0, <1>7, <2>2, RunChanged
  <2> HIDE DEF shown
  <2>5. /\ Typed(db') /\ Beside(db, db', t) /\ Grows(db, db') /\ db'.steers = db.steers
        /\ db'.tasks = db.tasks /\ db'.inbox = db.inbox
        /\ db'.runs[t] = [db.runs[t] EXCEPT ![i] = run]
    BY <2>3, <2>4 DEF RunsOf
  <2>6. \A u \in Threads : Held(db', Memory(turn, background), u)
    <3> TAKE u \in Threads
    <3>1. Held(db, Memory(turn, background), u)
      BY InvParts
    <3>2. CASE u = t
      <4>1. \A n \in DOMAIN db.runs[t] :
              /\ n \in DOMAIN db'.runs[t] /\ db'.runs[t][n].status = db.runs[t][n].status
              /\ db'.runs[t][n].source = db.runs[t][n].source /\ db'.runs[t][n].start = db.runs[t][n].start
        BY <2>2, <2>5
      <4> QED
        BY <1>0, <2>5, <3>1, <3>2, <4>1, RunsKeepHold
    <3>3. CASE u # t
      BY <2>5, <3>1, <3>3, BesideHeld
    <3> QED
      BY <3>2, <3>3
  <2>7. TurnsTyped(db', turn) /\ QueuesTyped(db', queue)
    BY <1>0, <2>5, TurnsGrow, QueuesGrow
  <2>8. item.steer # 0 => db'.runs[t][i].item = item.steer /\ i \in DOMAIN db'.runs[t]
    BY <1>4, <1>7, <2>2, <2>5
  <2>9. QueuesTyped(db', queue')
    BY <1>1, <1>7, <2>7, <2>8, ClaimedHead
  <2> QED
    BY <1>1, <1>5, <2>5, <2>6, <2>7, <2>9, InvNext
<1>8. CASE i \notin DOMAIN db.runs[t] /\ db' = made /\ queue' = [queue EXCEPT ![t][1].claimed = TRUE]
  <2>1. late \in Run /\ late.status = "queued" /\ late.rows = own /\ late.item = item.steer
    BY <1>2, <1>3, NewRunType DEF Item
  <2> HIDE DEF late
  <2> DEFINE more == Append(db.runs[t], late)
             n == Len(db.runs[t]) + 1
  <2>2. RunsOf(db, made, t, more) /\ DOMAIN more = DOMAIN db.runs[t] \cup {n} /\ more[n] = late
    <3>1. Typed(db) /\ late \in Run /\ late.rows \subseteq Rows(db, t)
      BY <1>0, <1>3, <2>1
    <3>2. db.runs[t] \in Seq(Run) /\ DOMAIN db.runs[t] = 1 .. Len(db.runs[t]) /\ Len(db.runs[t]) \in Nat
      BY <3>1, Parts DEF Typed
    <3>3. /\ more \in Seq(Run) /\ Len(more) = n /\ more[n] = late
          /\ \A x \in DOMAIN db.runs[t] : more[x] = db.runs[t][x]
      BY <3>1, <3>2, AppendProperties
    <3> HIDE DEF more, n
    <3>4. DOMAIN more = 1 .. n
      BY <3>3, LenProperties
    <3>5. DOMAIN more = DOMAIN db.runs[t] \cup {n} /\ more[n] = late
      BY <3>2, <3>3, <3>4 DEF n
    <3> USE DEF more
    <3>6. made = [db EXCEPT !.runs[t] = more]
      OBVIOUS
    <3> HIDE DEF more, made, n
    <3>7. \A x \in DOMAIN db.runs[t] : db.runs[t][x].rows \subseteq Rows(db, t)
      BY <3>1 DEF Typed, RunLinked
    <3>8. RunsOf(db, made, t, more)
      BY <3>1, <3>3, <3>6, <3>7, <3>5, RunsChanged
    <3> QED
      BY <3>8, <3>5
  <2> HIDE DEF made, more
  <2>3. Typed(db') /\ Beside(db, db', t) /\ Grows(db, db') /\ db'.runs[t] = more
    BY <1>8, <2>2 DEF RunsOf
  <2>4. n \in DOMAIN db'.runs[t] /\ db'.runs[t][n].status \notin Terminal /\ db'.runs[t][n].item = item.steer
    BY <2>1, <2>2, <2>3 DEF Terminal
  <2> HIDE DEF n
  <2>5. \A u \in Threads : Held(db', Memory(turn, background), u)
    BY <2>3, <2>4, BusyAction
  <2>6. TurnsTyped(db', turn) /\ QueuesTyped(db', queue)
    BY <1>0, <2>3, TurnsGrow, QueuesGrow
  <2>7. QueuesTyped(db', queue')
    BY <1>1, <1>8, <2>4, <2>6, ClaimedHead
  <2> QED
    BY <1>1, <1>5, <2>3, <2>5, <2>6, <2>7, InvNext
<1> QED
  BY <1>1, <1>6, <1>7, <1>8

\* The item's turn.start is recorded and its rows follow it.
LEMMA StartItemStep ==
  ASSUME Inv, NEW t \in Threads, StartItem(t)
  PROVE  Inv'
<1>0. Typed(db) /\ TurnsTyped(db, turn) /\ QueuesTyped(db, queue)
  BY InvParts
<1> DEFINE item == Head(queue[t])
           i == RunOfItem(t, item)
           queued == db.runs[t][i].status = "queued"
           started == IF queued THEN [db EXCEPT !.runs[t] = Enqueue(@, i)]
                      ELSE [db EXCEPT !.runs[t][i].start = "succeeded"]
           own == Own(db, db.runs[t][i].rows, ItemOf(item.steer))
           e == IF item.steer = 0 THEN started ELSE ToStart(started, own, i)
           memory == Memory(turn, background)
<1>1. /\ queue[t] # <<>> /\ item.claimed /\ turn' = turn /\ background' = background /\ setup' = setup
      /\ db' = Settle(e, memory, {t})
      /\ queue' = queue \/ queue' = [queue EXCEPT ![t] = Tail(@)]
  BY DEF StartItem
<1>2. /\ queue[t] \in Seq(Item) /\ item \in Item /\ ItemLinked(db, t, item)
  BY <1>0, <1>1, ItemsFacts
<1>3. i \in Nat /\ i \in DOMAIN db.runs[t]
  BY <1>0, <1>1, <1>2, RunOfItemFacts
<1> HIDE DEF i, item
<1>4. /\ db.runs[t] \in Seq(Run) /\ db.runs[t][i] \in Run /\ db.runs[t][i].rows \subseteq Rows(db, t)
  BY <1>0, <1>3, Parts DEF Typed, RunLinked
<1>5. \E run \in Run : /\ run.item = db.runs[t][i].item /\ run.rows \subseteq Rows(db, t)
                       /\ started = [db EXCEPT !.runs[t][i] = run]
  <2>1. CASE queued
    <3>1. PICK at \in Nat : Enqueue(db.runs[t], i) = [db.runs[t] EXCEPT ![i] = [db.runs[t][i] EXCEPT !.start = "pending", !.at = at]]
      BY <1>3, <1>4, Enqueued
    <3> DEFINE run == [db.runs[t][i] EXCEPT !.start = "pending", !.at = at]
    <3>2. run \in Run /\ run.item = db.runs[t][i].item /\ run.rows \subseteq Rows(db, t)
      BY <1>4 DEF Run, InFlight
    <3>3. started = [db EXCEPT !.runs[t][i] = run]
      BY <2>1, <3>1
    <3> QED
      BY <3>2, <3>3
  <2>2. CASE ~queued
    <3> DEFINE run == [db.runs[t][i] EXCEPT !.start = "succeeded"]
    <3>1. run \in Run /\ run.item = db.runs[t][i].item /\ run.rows \subseteq Rows(db, t)
      BY <1>4 DEF Run, InFlight
    <3>2. started = [db EXCEPT !.runs[t][i] = run]
      BY <1>0, <1>3, <2>2 DEF Typed, DB
    <3> QED
      BY <3>1, <3>2
  <2> QED
    BY <2>1, <2>2
<1>6. PICK run \in Run : /\ run.item = db.runs[t][i].item /\ run.rows \subseteq Rows(db, t)
                         /\ started = [db EXCEPT !.runs[t][i] = run]
  BY <1>5
<1>7. RunsOf(db, started, t, [db.runs[t] EXCEPT ![i] = run])
  BY <1>0, <1>3, <1>6, RunChanged
<1> HIDE DEF started, own
<1>8. /\ Typed(started) /\ Beside(db, started, t) /\ Grows(db, started) /\ i \in DOMAIN started.runs[t]
      /\ started.inbox = db.inbox /\ \A u \in Threads : Rows(started, u) = Rows(db, u)
  BY <1>3, <1>7 DEF RunsOf
<1>9. own \subseteq Rows(db, t) /\ \A k \in own : db.inbox[k].to = t
  BY <1>4 DEF own, Own, Rows
<1>10. RewriteOf(started, ToStart(started, own, i), own)
  <2>1. \A k \in own \cap DOMAIN started.inbox : i \in DOMAIN started.runs[started.inbox[k].to]
    BY <1>8, <1>9
  <2> QED
    BY <1>3, <1>8, <2>1, ToStartRewrites
<1>11. Typed(e) /\ Beside(db, e, t) /\ Grows(db, e)
  <2>1. CASE item.steer = 0
    BY <1>8, <2>1
  <2>2. CASE item.steer # 0
    <3>1. e = ToStart(started, own, i)
      BY <2>2
    <3> HIDE DEF e
    <3>2. Typed(e) /\ Beside(started, e, t) /\ Grows(started, e)
      BY <1>8, <1>9, <1>10, <3>1, RewriteBeside, RewriteGrows DEF RewriteOf
    <3> QED
      BY <1>8, <3>2, BesideTwice, GrowsTwice
  <2> QED
    BY <2>1, <2>2
<1> HIDE DEF e
<1>12. Typed(db') /\ Grows(db, db') /\ \A u \in Threads : Held(db', memory, u)
  <2> DEFINE f == Settle(e, memory, {t})
  <2>1. Typed(f) /\ Grows(db, f) /\ \A u \in Threads : Held(f, memory, u)
    BY <1>11, SettlesAction
  <2> HIDE DEF f
  <2>2. db' = f
    BY <1>1 DEF f
  <2> QED
    BY <2>1, <2>2
<1>13. TurnsTyped(db', turn) /\ QueuesTyped(db', queue)
  BY <1>0, <1>12, TurnsGrow, QueuesGrow
<1>14. QueuesTyped(db', [queue EXCEPT ![t] = Tail(@)])
  <2>1. \A n \in DOMAIN queue[t] : ItemLinked(db', t, queue[t][n])
    BY <1>13 DEF QueuesTyped
  <2>2. Tail(queue[t]) \in Seq(Item) /\ \A n \in DOMAIN Tail(queue[t]) : ItemLinked(db', t, Tail(queue[t])[n])
    BY <1>1, <1>2, <2>1, LinkedTail
  <2> QED
    BY <1>13, <2>2, QueueChanged
<1>15. SetupTyped'
  BY <1>1, InvParts DEF SetupTyped
<1> QED
  BY <1>1, <1>12, <1>13, <1>14, <1>15, InvNext

-----------------------------------------------------------------------------
(* Background work, reads and Stops.                                         *)

LEMMA StartBackgroundStep ==
  ASSUME Inv, NEW t \in Threads, StartBackground(t)
  PROVE  Inv'
<1>1. /\ UNCHANGED <<db, queue, turn, setup>> /\ background' = background \cup {t}
      /\ t \in setup.background /\ LiveTurn(t)
  BY DEF StartBackground
<1>2. \A u \in Threads : Held(db, Memory(turn, background'), u)
  <2> TAKE u \in Threads
  <2>1. u \in Memory(turn, background) => u \in Memory(turn, background')
    BY <1>1 DEF Memory
  <2> QED
    BY <2>1, InvParts DEF Held, Busy
<1>3. SetupTyped'
  BY <1>1, InvParts DEF SetupTyped
<1> QED
  BY <1>1, <1>2, <1>3, InvParts, InvNext

LEMMA BesideItself ==
  ASSUME NEW d, NEW t
  PROVE  Beside(d, d, t) /\ Grows(d, d)
BY DEF Beside, Untouched, Rows, Grows

LEMMA EndBackgroundStep ==
  ASSUME Inv, NEW t \in Threads, EndBackground(t)
  PROVE  Inv'
<1>0. Typed(db) /\ TurnsTyped(db, turn) /\ QueuesTyped(db, queue)
  BY InvParts
<1> DEFINE less == background \ {t}
           f == Settle(db, Memory(turn, less), {t})
<1>1. UNCHANGED <<queue, turn, setup>> /\ background' = less /\ db' = f
  BY DEF EndBackground
<1>2. \A u \in Threads \ {t} : turn[u] = turn[u] /\ (u \in background => u \in less)
  OBVIOUS
<1> HIDE DEF less
<1>3. Typed(f) /\ Grows(db, f) /\ \A u \in Threads : Held(f, Memory(turn, less), u)
  BY <1>0, <1>2, BesideItself, SettlesAction
<1> HIDE DEF f
<1>4. TurnsTyped(f, turn) /\ QueuesTyped(f, queue)
  BY <1>0, <1>3, TurnsGrow, QueuesGrow
<1>5. SetupTyped'
  BY <1>1, InvParts DEF SetupTyped, less
<1> QED
  BY <1>1, <1>3, <1>4, <1>5, InvNext

\* Statuses of tasks change but none is running that was not.
LEMMA TaskChanged ==
  ASSUME NEW d, Typed(d), NEW k \in DOMAIN d.tasks, d.tasks[k].status # "running",
         NEW status \in {"published", "acknowledged", "cancelled"}
  PROVE  LET e == [d EXCEPT !.tasks[k].status = status]
         IN /\ Typed(e) /\ Grows(d, e) /\ e.inbox = d.inbox /\ e.runs = d.runs
            /\ \A u \in Threads : Rows(e, u) = Rows(d, u) /\ Untouched(d, e, u)
            /\ \A c : RunningInto(e, c) = RunningInto(d, c)
<1> DEFINE task == [d.tasks[k] EXCEPT !.status = status]
           tasks == [d.tasks EXCEPT ![k] = task]
           e == [d EXCEPT !.tasks = tasks]
<1>1. /\ d.tasks \in Seq(Task) /\ d.tasks[k] \in Task
      /\ \A n \in DOMAIN d.tasks : TaskLinked(d, d.tasks[n])
  BY Parts DEF Typed
<1>2. task \in Task /\ TaskLinked(d, task) /\ task.status # "running"
  BY <1>1 DEF Task, TaskLinked
<1> HIDE DEF task
<1>3. tasks \in Seq(Task) /\ DOMAIN tasks = DOMAIN d.tasks
  BY <1>1, <1>2, ExceptSeq
<1>4. tasks[k] = task /\ \A n \in DOMAIN d.tasks \ {k} : tasks[n] = d.tasks[n]
  OBVIOUS
<1> HIDE DEF tasks
<1>5. \A n \in DOMAIN tasks : TaskLinked(d, tasks[n])
  BY <1>1, <1>2, <1>3, <1>4
<1>6. Typed(e) /\ \A u \in Threads : Rows(e, u) = Rows(d, u)
  BY <1>3, <1>5, TasksReplaced
<1>7. e.tasks = tasks /\ e.inbox = d.inbox /\ e.runs = d.runs /\ e.steers = d.steers
  BY DEF Typed, DB
<1>8. e = [d EXCEPT !.tasks[k].status = status]
  BY DEF tasks, task, Typed, DB
<1> HIDE DEF e
<1>9. Grows(d, e) /\ \A u \in Threads : Untouched(d, e, u)
  BY <1>7 DEF Grows, Untouched, Rows
<1>10. \A c : RunningInto(e, c) = RunningInto(d, c)
  BY <1>2, <1>3, <1>4, <1>7 DEF RunningInto
<1> QED
  BY <1>6, <1>7, <1>8, <1>9, <1>10

\* A pending wake that ends: only threads that settle are different.
LEMMA CancelWakesFacts ==
  ASSUME NEW d, Typed(d), NEW m, NEW threads \in SUBSET Threads
  PROVE  LET e == CancelAcknowledgedWakes(d, m, threads)
         IN /\ Typed(e) /\ Grows(d, e)
            /\ \A u \in Threads : u \in threads \/ Held(d, m, u) => Held(e, m, u)
<1> DEFINE ended(t, i) == [d.runs[t][i] EXCEPT !.start = "cancelled", !.status = "cancelled"]
           runs == [t \in Threads |-> [i \in DOMAIN d.runs[t] |->
                      IF t \in threads /\ i \in IdleWakes(d, t) THEN ended(t, i) ELSE d.runs[t][i]]]
           f == [d EXCEPT !.runs = runs]
           e == Settle(f, m, threads)
<1>1. CancelAcknowledgedWakes(d, m, threads) = e
  BY DEF CancelAcknowledgedWakes
<1>2. \A t \in Threads : /\ DOMAIN d.runs[t] = 1 .. Len(d.runs[t]) /\ Len(d.runs[t]) \in Nat
                         /\ \A i \in DOMAIN d.runs[t] : d.runs[t][i] \in Run /\ d.runs[t][i].rows \subseteq Rows(d, t)
  BY Parts DEF Typed, RunLinked
<1>3. \A t \in Threads : \A i \in DOMAIN d.runs[t] :
        /\ ended(t, i) \in Run /\ ended(t, i).rows \subseteq Rows(d, t)
        /\ ended(t, i).item = d.runs[t][i].item
  <2> SUFFICES ASSUME NEW t \in Threads, NEW i \in DOMAIN d.runs[t]
               PROVE  /\ ended(t, i) \in Run /\ ended(t, i).rows \subseteq Rows(d, t)
                      /\ ended(t, i).item = d.runs[t][i].item
    OBVIOUS
  <2>1. d.runs[t][i] \in Run /\ d.runs[t][i].rows \subseteq Rows(d, t)
    BY <1>2
  <2> QED
    BY <2>1 DEF Run, Statuses, Terminal
<1> HIDE DEF ended
<1>4. \A t \in Threads :
        /\ runs[t] \in [1 .. Len(d.runs[t]) -> Run]
        /\ \A i \in DOMAIN d.runs[t] : runs[t][i].rows \subseteq Rows(d, t) /\ runs[t][i].item = d.runs[t][i].item
  BY <1>2, <1>3
<1>5. \A t \in Threads \ threads : runs[t] = d.runs[t]
  <2> TAKE t \in Threads \ threads
  <2>1. d.runs[t] \in Seq(Run)
    BY Parts DEF Typed
  <2>2. d.runs[t] = [i \in DOMAIN d.runs[t] |-> d.runs[t][i]]
    BY <2>1, <1>2
  <2> QED
    BY <2>2
<1>6. runs = [t \in Threads |-> runs[t]]
  OBVIOUS
<1> HIDE DEF runs
<1>7. \A t \in Threads : runs[t] \in Seq(Run) /\ DOMAIN runs[t] = DOMAIN d.runs[t]
  BY <1>2, <1>4, IsSeq
<1>8. runs \in [Threads -> Seq(Run)]
  BY <1>6, <1>7
<1>9. \A t \in Threads : \A i \in DOMAIN runs[t] : RunLinked(d, t, runs[t][i])
  BY <1>4, <1>7 DEF RunLinked
<1>10. Typed(f)
  BY <1>7, <1>8, <1>9, RunsReplaced
<1>11. f.runs = runs /\ f.steers = d.steers /\ f.tasks = d.tasks /\ f.inbox = d.inbox
  BY DEF Typed, DB
<1> HIDE DEF f
<1>12. Grows(d, f)
  BY <1>4, <1>7, <1>11 DEF Grows
<1>13. Typed(e) /\ Grows(d, e)
  BY <1>10, <1>12, SettleFacts, SettleGrows, GrowsTwice
<1>14. \A u \in Threads : u \in threads \/ Held(d, m, u) => Held(e, m, u)
  <2> TAKE u \in Threads
  <2>1. CASE u \in threads
    BY <1>10, <2>1, SettleHolds
  <2>2. CASE u \notin threads /\ Held(d, m, u)
    <3>1. Untouched(d, f, u)
      BY <1>5, <1>11, <2>2 DEF Untouched, Rows
    <3>2. \A c : RunningInto(f, c) = RunningInto(d, c)
      BY <1>11 DEF RunningInto
    <3>3. Held(f, m, u)
      BY <2>2, <3>1, <3>2, StaysHeld
    <3> QED
      BY <1>10, <3>3, SettleHolds
  <2> QED
    BY <2>1, <2>2
<1> QED
  BY <1>1, <1>13, <1>14

\* A turn of the parent reads a published task itself.
LEMMA TaskStatusStep ==
  ASSUME Inv, NEW k \in DOMAIN db.tasks, TaskStatus(k)
  PROVE  Inv'
<1>0. Typed(db) /\ TurnsTyped(db, turn) /\ QueuesTyped(db, queue)
  BY InvParts
<1> DEFINE p == Parent[db.tasks[k].child]
           read == [db EXCEPT !.tasks[k].status = "acknowledged"]
           rows == {r \in Rows(db, p) : db.inbox[r].task = k}
           acked == Acknowledge(read, rows, TRUE)
           memory == Memory(turn, background)
           e == CancelAcknowledgedWakes(acked, memory, {p})
<1>1. /\ UNCHANGED <<queue, turn, background, setup>> /\ db.tasks[k].status = "published"
      /\ db' = e
  BY DEF TaskStatus
<1>2. p \in Threads
  BY <1>0 DEF Typed, TaskLinked
<1>3. /\ Typed(read) /\ Grows(db, read) /\ \A u \in Threads : Rows(read, u) = Rows(db, u) /\ Untouched(db, read, u)
      /\ \A c : RunningInto(read, c) = RunningInto(db, c)
  BY <1>0, <1>1, TaskChanged
<1>4. rows \subseteq Rows(read, p)
  BY <1>2, <1>3
<1> HIDE DEF read, rows, p
<1>5. RewriteOf(read, acked, rows)
  BY <1>3, AcknowledgeRewrites
<1> HIDE DEF acked
<1>6. Typed(acked) /\ Beside(read, acked, p) /\ Grows(read, acked)
  BY <1>4, <1>5, RewriteBeside, RewriteGrows DEF RewriteOf
<1>7. \A u \in Threads \ {p} : Held(acked, memory, u)
  <2> TAKE u \in Threads \ {p}
  <2>1. Held(db, memory, u)
    BY InvParts
  <2>2. Held(read, memory, u)
    BY <1>3, <2>1, StaysHeld
  <2> QED
    BY <1>6, <2>2, BesideHeld
<1> HIDE DEF memory
<1>8. Typed(e) /\ Grows(acked, e) /\ \A u \in Threads : Held(e, memory, u)
  BY <1>2, <1>6, <1>7, CancelWakesFacts
<1> HIDE DEF e
<1>9. Grows(db, e)
  BY <1>3, <1>6, <1>8, GrowsTwice
<1>10. TurnsTyped(e, turn) /\ QueuesTyped(e, queue)
  BY <1>0, <1>8, <1>9, TurnsGrow, QueuesGrow
<1>11. SetupTyped'
  BY <1>1, InvParts DEF SetupTyped
<1> QED
  BY <1>1, <1>8, <1>10, <1>11, InvNext DEF memory


-----------------------------------------------------------------------------
(* Stops.                                                                    *)

LEMMA SubtreeFacts ==
  ASSUME NEW t \in Threads
  PROVE  /\ Subtree(t) \subseteq Threads
         /\ \A c \in Subtree(t) : c # t => Parent[c] \in Subtree(t)
<1>1. Subtree(t) \subseteq Threads
  BY DEF Subtree
<1> SUFFICES ASSUME NEW c \in Subtree(t), c # t, Parent[c] \notin Subtree(t)
             PROVE  FALSE
  BY <1>1
<1> DEFINE rest == {x \in Subtree(t) : x # c}
<1>2. rest \in SUBSET Threads
  BY <1>1
<1>3. t \in rest
  BY DEF Subtree
<1>4. \A x \in Threads : Parent[x] \in rest => x \in rest
  <2> SUFFICES ASSUME NEW x \in Threads, Parent[x] \in rest PROVE x \in rest
    OBVIOUS
  <2>1. Parent[x] \in Subtree(t) /\ x # c
    OBVIOUS
  <2>2. x \in Subtree(t)
    <3> SUFFICES ASSUME NEW set \in SUBSET Threads, t \in set,
                        \A y \in Threads : Parent[y] \in set => y \in set
                 PROVE  x \in set
      BY DEF Subtree
    <3>1. Parent[x] \in set
      BY <2>1 DEF Subtree
    <3> QED
      BY <3>1
  <2> QED
    BY <2>1, <2>2
<1>5. c \in rest
  <2> HIDE DEF rest
  <2> QED
    BY <1>2, <1>3, <1>4 DEF Subtree
<1> QED
  BY <1>5

LEMMA StoppedRunFacts ==
  ASSUME NEW run \in Run
  PROVE  StoppedRun(run) \in Run /\ StoppedRun(run).rows = run.rows /\ StoppedRun(run).item = run.item
<1>1. CASE run.status = "queued" /\ run.source \notin {"person", "followup"}
  <2>1. StoppedRun(run) = [run EXCEPT !.status = "cancelled",
                                      !.start = IF run.start \in InFlight THEN "cancelled" ELSE run.start]
    BY <1>1 DEF StoppedRun
  <2> QED
    BY <2>1 DEF Run, Statuses, Terminal
<1>2. CASE run.status = "active"
  <2>1. StoppedRun(run) = [run EXCEPT !.halted = TRUE]
    BY <1>2 DEF StoppedRun
  <2> QED
    BY <2>1 DEF Run
<1>3. CASE ~(run.status = "queued" /\ run.source \notin {"person", "followup"}) /\ run.status # "active"
  BY <1>3 DEF StoppedRun
<1> QED
  BY <1>1, <1>2, <1>3

\* Rows are added behind those that are there.
LEMMA RowsAdded ==
  ASSUME NEW d, Typed(d), NEW notices \in Seq(Row), \A n \in DOMAIN notices : RowLinked(d, notices[n])
  PROVE  LET e == [d EXCEPT !.inbox = d.inbox \o notices]
         IN /\ Typed(e) /\ Grows(d, e)
            /\ e.runs = d.runs /\ e.steers = d.steers /\ e.tasks = d.tasks
            /\ \A u \in Threads : Rows(d, u) \subseteq Rows(e, u)
<1> DEFINE N == Len(notices)
           inbox == d.inbox \o notices
           e == [d EXCEPT !.inbox = inbox]
<1>1. d.inbox \in Seq(Row) /\ DOMAIN d.inbox = 1 .. Len(d.inbox) /\ Len(d.inbox) \in Nat
  BY Parts DEF Typed
<1>2. N \in Nat /\ DOMAIN notices = 1 .. N
  BY LenProperties
<1>3. /\ inbox \in Seq(Row) /\ DOMAIN inbox = 1 .. (Len(d.inbox) + N)
      /\ \A r \in 1 .. Len(d.inbox) : inbox[r] = d.inbox[r]
      /\ \A r \in (Len(d.inbox) + 1) .. (Len(d.inbox) + N) :
           r - Len(d.inbox) \in 1 .. N /\ inbox[r] = notices[r - Len(d.inbox)]
  BY <1>1, <1>2, Behind
<1> HIDE DEF inbox, N
<1>4. DOMAIN d.inbox \subseteq DOMAIN inbox /\ \A r \in DOMAIN d.inbox : inbox[r] = d.inbox[r]
  BY <1>1, <1>2, <1>3
<1>5. \A r \in DOMAIN inbox : RowLinked(d, inbox[r])
  <2> TAKE r \in DOMAIN inbox
  <2>1. CASE r \in DOMAIN d.inbox
    BY <1>4, <2>1 DEF Typed
  <2>2. CASE r \notin DOMAIN d.inbox
    <3>1. r \in (Len(d.inbox) + 1) .. (Len(d.inbox) + N)
      BY <1>1, <1>2, <1>3, <2>2
    <3> QED
      BY <1>2, <1>3, <3>1
  <2> QED
    BY <2>1, <2>2
<1>6. Typed(e) /\ \A u \in Threads : Rows(d, u) \subseteq Rows(e, u)
  BY <1>3, <1>4, <1>5, InboxReplaced
<1>7. e.runs = d.runs /\ e.steers = d.steers /\ e.tasks = d.tasks
  BY DEF Typed, DB
<1> HIDE DEF e
<1>8. Grows(d, e)
  BY <1>7 DEF Grows
<1> QED
  BY <1>6, <1>7, <1>8 DEF e, inbox

\* What a Stop writes before it settles the subtree: the tasks into it end, and the owner outside is told.
StopTold(d, t) ==
    LET below == Subtree(t)
        stopped == {k \in DOMAIN d.tasks : d.tasks[k].child \in below /\ d.tasks[k].status = "running"}
        owed == {k \in stopped : Parent[d.tasks[k].child] \notin below}
    IN [d EXCEPT
          !.inbox = @ \o [n \in 1..Cardinality(owed) |-> NewRow(Parent[t], 0)],
          !.tasks = [k \in DOMAIN d.tasks |->
             IF k \in stopped THEN [d.tasks[k] EXCEPT !.status = "cancelled"] ELSE d.tasks[k]]]

LEMMA StopToldFacts ==
  ASSUME NEW d, Typed(d), NEW t \in Threads
  PROVE  LET told == StopTold(d, t)
         IN /\ Typed(told) /\ Grows(d, told) /\ told.runs = d.runs /\ told.steers = d.steers
            /\ DOMAIN d.inbox \subseteq DOMAIN told.inbox
            /\ \A r \in DOMAIN d.inbox : told.inbox[r] = d.inbox[r]
            /\ \A r \in DOMAIN told.inbox \ DOMAIN d.inbox : told.inbox[r] = NewRow(Parent[t], 0)
<1> DEFINE below == Subtree(t)
           stopped == {k \in DOMAIN d.tasks : d.tasks[k].child \in below /\ d.tasks[k].status = "running"}
           owed == {k \in stopped : Parent[d.tasks[k].child] \notin below}
           N == Cardinality(owed)
           over(k) == [d.tasks[k] EXCEPT !.status = "cancelled"]
           tasks == [k \in DOMAIN d.tasks |-> IF k \in stopped THEN over(k) ELSE d.tasks[k]]
           notices == [n \in 1 .. N |-> NewRow(Parent[t], 0)]
           told == [d EXCEPT !.inbox = @ \o notices, !.tasks = tasks]
<1>1. StopTold(d, t) = told
  BY DEF StopTold
<1>2. /\ DOMAIN d.tasks = 1 .. Len(d.tasks) /\ Len(d.tasks) \in Nat
      /\ \A k \in DOMAIN d.tasks : d.tasks[k] \in Task /\ TaskLinked(d, d.tasks[k])
  BY Parts DEF Typed
<1>3. tasks \in Seq(Task) /\ \A k \in DOMAIN tasks : TaskLinked(d, tasks[k])
  <2>1. \A k \in DOMAIN d.tasks : over(k) \in Task /\ TaskLinked(d, over(k))
    BY <1>2 DEF Task, TaskLinked
  <2> HIDE DEF over, stopped
  <2>2. tasks \in [1 .. Len(d.tasks) -> Task] /\ \A k \in 1 .. Len(d.tasks) : TaskLinked(d, tasks[k])
    BY <1>2, <2>1
  <2> HIDE DEF tasks
  <2> QED
    BY <1>2, <2>2, IsSeq
<1>4. N \in Nat /\ (owed = {} => N = 0)
  <2>1. owed \subseteq DOMAIN d.tasks
    OBVIOUS
  <2> HIDE DEF owed
  <2>2. IsFiniteSet(owed)
    <3>1. IsFiniteSet(1 .. Len(d.tasks))
      <4>1. 1 \in Int /\ Len(d.tasks) \in Int
        BY <1>2
      <4> QED
        BY <4>1, FS_Interval, Zenon
    <3> QED
      BY <1>2, <2>1, <3>1, FS_Subset
  <2> QED
    BY <2>2, FS_CardinalityType, FS_EmptySet
<1>5. owed # {} => Parent[t] \in Threads
  <2> SUFFICES ASSUME NEW k \in owed PROVE Parent[t] \in Threads
    OBVIOUS
  <2>1. d.tasks[k].child = t
    BY SubtreeFacts
  <2> QED
    BY <1>2, <2>1 DEF TaskLinked
<1>6. notices \in [1 .. N -> Row] /\ \A n \in 1 .. N : RowLinked([d EXCEPT !.tasks = tasks], notices[n])
  <2>1. CASE owed = {}
    <3>1. N = 0
      BY <1>4, <2>1
    <3> HIDE DEF N, owed
    <3>2. 1 .. N = {}
      BY <3>1
    <3> HIDE DEF tasks
    <3> QED
      BY <3>2
  <2>2. CASE owed # {}
    <3>1. NewRow(Parent[t], 0) \in Row /\ RowLinked([d EXCEPT !.tasks = tasks], NewRow(Parent[t], 0))
      <4> HIDE DEF tasks
      <4> QED
        BY <1>5, <2>2 DEF NewRow, Row, RowLinked, Nobody
    <3> HIDE DEF N, tasks
    <3> QED
      BY <3>1
  <2> QED
    BY <2>1, <2>2
<1> DEFINE ended == [d EXCEPT !.tasks = tasks]
<1> HIDE DEF N, notices, tasks
<1>7. Typed(ended) /\ ended.inbox = d.inbox /\ ended.runs = d.runs /\ ended.steers = d.steers
  BY <1>3, TasksReplaced DEF Typed, DB
<1>8. told = [ended EXCEPT !.inbox = ended.inbox \o notices]
  BY <1>7 DEF Typed, DB
<1>9. notices \in Seq(Row) /\ DOMAIN notices = 1 .. N
  BY <1>4, <1>6, IsSeq
<1>10. \A n \in DOMAIN notices : RowLinked(ended, notices[n])
  BY <1>6, <1>9
<1> HIDE DEF ended, told
<1>11. Typed(told) /\ Grows(ended, told) /\ told.runs = d.runs /\ told.steers = d.steers
  BY <1>7, <1>8, <1>9, <1>10, RowsAdded
<1>12. /\ d.inbox \in Seq(Row) /\ DOMAIN d.inbox = 1 .. Len(d.inbox) /\ Len(d.inbox) \in Nat
       /\ told.inbox = d.inbox \o notices
  BY <1>7, <1>8, Parts DEF Typed
<1>13. Len(notices) \in Nat /\ DOMAIN notices = 1 .. Len(notices) /\ \A n \in 1 .. N : notices[n] = NewRow(Parent[t], 0)
  BY <1>9, LenProperties DEF notices
<1>14. /\ DOMAIN told.inbox = 1 .. (Len(d.inbox) + Len(notices))
       /\ \A r \in 1 .. Len(d.inbox) : told.inbox[r] = d.inbox[r]
       /\ \A r \in (Len(d.inbox) + 1) .. (Len(d.inbox) + Len(notices)) :
            r - Len(d.inbox) \in 1 .. Len(notices) /\ told.inbox[r] = notices[r - Len(d.inbox)]
  BY <1>9, <1>12, Behind
<1>15. DOMAIN d.inbox \subseteq DOMAIN told.inbox /\ \A r \in DOMAIN d.inbox : told.inbox[r] = d.inbox[r]
  BY <1>12, <1>13, <1>14
<1>16. ASSUME NEW r \in DOMAIN told.inbox \ DOMAIN d.inbox PROVE told.inbox[r] = NewRow(Parent[t], 0)
  <2>1. r \in (Len(d.inbox) + 1) .. (Len(d.inbox) + Len(notices))
    BY <1>12, <1>13, <1>14
  <2> QED
    BY <1>9, <1>13, <1>14, <2>1
<1>17. Grows(d, told)
  BY <1>7, <1>11 DEF Grows
<1> QED
  BY <1>1, <1>11, <1>15, <1>16, <1>17

LEMMA StopWritesFacts ==
  ASSUME NEW d, Typed(d), NEW t \in Threads
  PROVE  Typed(StopWrites(d, t)) /\ Grows(d, StopWrites(d, t))
<1> DEFINE below == Subtree(t)
           told == StopTold(d, t)
           rows == UNION {Rows(told, c) : c \in below}
           quiet == Acknowledge(told, rows, TRUE)
           runs == [c \in Threads |-> IF c \notin below THEN quiet.runs[c]
                                      ELSE [i \in DOMAIN quiet.runs[c] |-> StoppedRun(quiet.runs[c][i])]]
           spared(c, j) == ~(/\ c \in below /\ quiet.steers[c][j].status = "pending"
                             /\ quiet.runs[c][quiet.steers[c][j].run].status = "active")
           steers == [c \in Threads |-> [j \in DOMAIN quiet.steers[c] |->
                        IF spared(c, j) THEN quiet.steers[c][j]
                        ELSE [quiet.steers[c][j] EXCEPT !.status = "cancelled"]]]
           e == [quiet EXCEPT !.runs = runs, !.steers = steers]
<1>1. StopWrites(d, t) = e
  BY ZenonT(40) DEF StopWrites, StopTold
<1>11. Typed(told) /\ Grows(d, told) /\ told.runs = d.runs /\ told.steers = d.steers
  BY StopToldFacts
<1> HIDE DEF told
<1> HIDE DEF rows
<1>12. RewriteOf(told, quiet, rows)
  BY <1>11, AcknowledgeRewrites
<1> HIDE DEF quiet
<1>13. Typed(quiet) /\ quiet.runs = d.runs /\ quiet.steers = d.steers
  BY <1>11, <1>12 DEF RewriteOf
<1>14. /\ \A c \in Threads : DOMAIN quiet.runs[c] = 1 .. Len(quiet.runs[c]) /\ Len(quiet.runs[c]) \in Nat
                             /\ quiet.runs[c] \in Seq(Run)
       /\ \A c \in Threads : \A i \in DOMAIN quiet.runs[c] :
            quiet.runs[c][i] \in Run /\ quiet.runs[c][i].rows \subseteq Rows(quiet, c)
       /\ \A c \in Threads : DOMAIN quiet.steers[c] = 1 .. Len(quiet.steers[c]) /\ Len(quiet.steers[c]) \in Nat
       /\ \A c \in Threads : \A j \in DOMAIN quiet.steers[c] :
            quiet.steers[c][j] \in Steer /\ SteerLinked(quiet, c, quiet.steers[c][j])
  BY <1>13, Parts DEF Typed, RunLinked
<1> HIDE DEF below
<1>15. \A c \in Threads :
         /\ runs[c] \in Seq(Run) /\ DOMAIN runs[c] = DOMAIN quiet.runs[c]
         /\ \A i \in DOMAIN runs[c] : runs[c][i].rows = quiet.runs[c][i].rows /\ runs[c][i].item = quiet.runs[c][i].item
  <2> TAKE c \in Threads
  <2>1. CASE c \notin below
    <3>1. runs[c] = quiet.runs[c]
      BY <2>1
    <3> HIDE DEF runs
    <3> QED
      BY <1>14, <3>1
  <2>2. CASE c \in below
    <3>1. runs[c] = [i \in 1 .. Len(quiet.runs[c]) |-> StoppedRun(quiet.runs[c][i])]
      BY <1>14, <2>2
    <3>2. \A i \in 1 .. Len(quiet.runs[c]) :
            /\ StoppedRun(quiet.runs[c][i]) \in Run
            /\ StoppedRun(quiet.runs[c][i]).rows = quiet.runs[c][i].rows
            /\ StoppedRun(quiet.runs[c][i]).item = quiet.runs[c][i].item
      BY <1>14, StoppedRunFacts
    <3> HIDE DEF runs
    <3>3. runs[c] \in [1 .. Len(quiet.runs[c]) -> Run]
      BY <3>1, <3>2
    <3>4. runs[c] \in Seq(Run) /\ DOMAIN runs[c] = DOMAIN quiet.runs[c]
      BY <1>14, <3>3, IsSeq
    <3> QED
      BY <1>14, <3>1, <3>2, <3>4
  <2> QED
    BY <2>1, <2>2
<1>16. runs = [c \in Threads |-> runs[c]]
  OBVIOUS
<1>17. \A c \in Threads : \A j \in DOMAIN quiet.steers[c] :
         /\ [quiet.steers[c][j] EXCEPT !.status = "cancelled"] \in Steer
         /\ SteerLinked(quiet, c, [quiet.steers[c][j] EXCEPT !.status = "cancelled"])
  <2> SUFFICES ASSUME NEW c \in Threads, NEW j \in DOMAIN quiet.steers[c]
               PROVE  /\ [quiet.steers[c][j] EXCEPT !.status = "cancelled"] \in Steer
                      /\ SteerLinked(quiet, c, [quiet.steers[c][j] EXCEPT !.status = "cancelled"])
    OBVIOUS
  <2>1. quiet.steers[c][j] \in Steer /\ SteerLinked(quiet, c, quiet.steers[c][j])
    BY <1>14
  <2> QED
    BY <2>1 DEF Steer, SteerLinked
<1> HIDE DEF runs, spared
<1>18. \A c \in Threads :
         /\ steers[c] \in [1 .. Len(quiet.steers[c]) -> Steer]
         /\ \A j \in 1 .. Len(quiet.steers[c]) : SteerLinked(quiet, c, steers[c][j])
  BY <1>14, <1>17
<1>19. steers = [c \in Threads |-> steers[c]]
  OBVIOUS
<1> HIDE DEF steers
<1>20. \A c \in Threads : steers[c] \in Seq(Steer) /\ DOMAIN steers[c] = DOMAIN quiet.steers[c]
  BY <1>14, <1>18, IsSeq
<1>21. runs \in [Threads -> Seq(Run)] /\ steers \in [Threads -> Seq(Steer)]
  BY <1>15, <1>16, <1>19, <1>20
<1> DEFINE f == [quiet EXCEPT !.runs = runs]
<1>22. \A c \in Threads : \A i \in DOMAIN runs[c] : RunLinked(quiet, c, runs[c][i])
  BY <1>14, <1>15 DEF RunLinked
<1>23. Typed(f) /\ f.runs = runs /\ f.steers = quiet.steers /\ \A c \in Threads : Rows(f, c) = Rows(quiet, c)
  BY <1>13, <1>15, <1>21, <1>22, RunsReplaced DEF Typed, DB
<1>24. e = [f EXCEPT !.steers = steers]
  BY <1>13 DEF Typed, DB
<1>25. e.runs = runs /\ e.steers = steers
  BY <1>13 DEF Typed, DB
<1> HIDE DEF f, e
<1>26. \A c \in Threads : \A j \in DOMAIN steers[c] : SteerLinked(f, c, steers[c][j])
  BY <1>14, <1>15, <1>18, <1>20, <1>23 DEF SteerLinked
<1>27. Typed(e)
  BY <1>20, <1>21, <1>23, <1>24, <1>26, SteersReplaced
<1>28. Grows(d, e)
  BY <1>13, <1>15, <1>20, <1>25 DEF Grows
<1> QED
  BY <1>1, <1>27, <1>28

LEMMA StopStep ==
  ASSUME Inv, NEW t \in Threads, Stop(t)
  PROVE  Inv'
<1>0. Typed(db) /\ TurnsTyped(db, turn) /\ QueuesTyped(db, queue) /\ SetupTyped
  BY InvParts
<1> DEFINE below == Subtree(t)
           aborted == [c \in Threads |->
                         IF c \in below /\ LiveTurn(c) THEN [turn[c] EXCEPT !.aborted = TRUE] ELSE turn[c]]
           left(c) == {n \in DOMAIN queue[c] : OutlivesStop(queue[c][n])}
           items == [c \in Threads |-> IF c \in below THEN ItemsAt(queue[c], left(c)) ELSE queue[c]]
           memory == Memory(aborted, background)
           e == StopWrites(db, t)
           f == Settle(e, memory, Threads)
<1>1. /\ Spend("stops") /\ turn' = aborted /\ queue' = items /\ UNCHANGED background /\ db' = f
  BY DEF Stop
<1>2. SetupTyped'
  BY <1>0, <1>1, SpendKeeps DEF SetupTyped
<1>3. Typed(e) /\ Grows(db, e)
  BY <1>0, StopWritesFacts
<1> HIDE DEF e, memory
<1>4. Typed(f) /\ Grows(e, f) /\ \A u \in Threads : Held(f, memory, u)
  BY <1>3, SettleFacts, SettleGrows, SettleHolds
<1> HIDE DEF f
<1>5. Grows(db, f)
  BY <1>3, <1>4, GrowsTwice
<1>6. TurnsTyped(f, turn) /\ QueuesTyped(f, queue)
  BY <1>0, <1>4, <1>5, TurnsGrow, QueuesGrow
<1>7. TurnsTyped(f, aborted)
  <2>1. \A c \in Threads : turn[c] \in Turn /\ TurnLinked(f, c, turn[c])
    BY <1>6 DEF TurnsTyped
  <2>2. \A c \in Threads : LET x == [turn[c] EXCEPT !.aborted = TRUE] IN x \in Turn /\ TurnLinked(f, c, x)
    BY <2>1 DEF Turn, TurnLinked
  <2> QED
    BY <2>1, <2>2 DEF TurnsTyped
<1>8. QueuesTyped(f, items)
  <2>1. \A c \in Threads :
          /\ ItemsAt(queue[c], left(c)) \in Seq(Item)
          /\ \A n \in DOMAIN ItemsAt(queue[c], left(c)) : ItemLinked(f, c, ItemsAt(queue[c], left(c))[n])
    BY <1>6, ItemsAtFacts
  <2>2. \A c \in Threads : queue[c] \in Seq(Item) /\ \A n \in DOMAIN queue[c] : ItemLinked(f, c, queue[c][n])
    BY <1>6 DEF QueuesTyped
  <2> HIDE DEF left, below
  <2>3. \A c \in Threads : items[c] \in Seq(Item) /\ \A n \in DOMAIN items[c] : ItemLinked(f, c, items[c][n])
    BY <2>1, <2>2
  <2>4. items = [c \in Threads |-> items[c]]
    OBVIOUS
  <2> HIDE DEF items
  <2> QED
    BY <2>3, <2>4 DEF QueuesTyped
<1> QED
  BY <1>1, <1>2, <1>4, <1>7, <1>8, InvNext DEF memory

-----------------------------------------------------------------------------
(* The reconciler.                                                           *)

LEMMA RestoreFacts ==
  ASSUME NEW d, Typed(d), NEW m, NEW due
  PROVE  LET e == Restore(d, m, due)
         IN /\ Typed(e) /\ Grows(d, e) /\ e.runs = d.runs /\ e.steers = d.steers
            /\ \A u \in Threads : Held(e, m, u)
<1> DEFINE spent == {k \in FailedRows(d) : d.inbox[k].tries > MaxRedeliveries}
           over(k) == [d.inbox[k] EXCEPT !.gaveUp = TRUE, !.failures = Counted(@)]
           box == [k \in DOMAIN d.inbox |-> IF k \in spent THEN over(k) ELSE d.inbox[k]]
           flagged == [d EXCEPT !.inbox = box]
           rows == (due \cap FailedRows(d)) \ spent
           again == PendingAgain(flagged, rows, TRUE)
           e == Settle(again, m, Threads)
<1>1. Restore(d, m, due) = e
  BY Zenon DEF Restore
<1>2. \A k \in DOMAIN d.inbox : d.inbox[k] \in Row /\ RowLinked(d, d.inbox[k])
  BY Parts DEF Typed
<1>3. \A k \in DOMAIN d.inbox : over(k) \in Row /\ over(k).to = d.inbox[k].to /\ over(k).by = d.inbox[k].by
  <2> SUFFICES ASSUME NEW k \in DOMAIN d.inbox
               PROVE  over(k) \in Row /\ over(k).to = d.inbox[k].to /\ over(k).by = d.inbox[k].by
    OBVIOUS
  <2>1. d.inbox[k] \in Row /\ Counted(d.inbox[k].failures) \in Nat
    BY <1>2, CountedNat DEF Row
  <2> QED
    BY <2>1 DEF Row
<1> HIDE DEF over, spent
<1>4. /\ box \in [DOMAIN d.inbox -> Row]
      /\ \A k \in DOMAIN d.inbox : box[k].to = d.inbox[k].to /\ RowLinked(d, box[k])
      /\ \A k \in DOMAIN d.inbox \ spent : box[k] = d.inbox[k]
  BY <1>2, <1>3 DEF RowLinked
<1> HIDE DEF box
<1>5. RewriteOf(d, flagged, spent)
  BY <1>4, Rewritten
<1> HIDE DEF flagged, rows
<1>6. Typed(flagged) /\ RewriteOf(flagged, again, rows)
  <2>1. Typed(flagged)
    BY <1>5 DEF RewriteOf
  <2> QED
    BY <2>1, PendingAgainRewrites
<1> HIDE DEF again
<1>7. Typed(again) /\ Grows(d, again) /\ again.runs = d.runs /\ again.steers = d.steers
  BY <1>5, <1>6, RewriteGrows, GrowsTwice DEF RewriteOf
<1>8. Typed(e) /\ Grows(again, e) /\ e.runs = again.runs /\ e.steers = again.steers
  BY <1>7, SettleFacts, SettleGrows DEF SettledFrom
<1>9. \A u \in Threads : Held(e, m, u)
  BY <1>7, SettleHolds
<1> HIDE DEF e
<1>10. Grows(d, e)
  BY <1>7, <1>8, GrowsTwice
<1> QED
  BY <1>1, <1>7, <1>8, <1>9, <1>10

\* A thread woken has a wake, a thread steered its live run, and any other thread is as it was.
LEMMA WakeThreadsFacts ==
  ASSUME NEW d, Typed(d), NEW m, \A u \in Threads : Held(d, m, u)
  PROVE  LET e == WakeThreads(d)
         IN Typed(e) /\ Grows(d, e) /\ \A u \in Threads : Held(e, m, u)
<1> DEFINE waiting == {t \in Threads : Pending(d, t) # {}}
           woken == {t \in waiting : ActiveRuns(d, t) = {} /\ \A i \in QueuedRuns(d, t) : d.runs[t][i].source # "wake"}
           steered == {t \in waiting \cap setup.native : \E i \in ActiveRuns(d, t) : ~d.runs[t][i].halted}
           Carrier(t) == IF t \in woken THEN StartOf(Len(d.runs[t]) + 1) ELSE SteerOf(Len(d.steers[t]) + 1)
           steer(t) == [run |-> CHOOSE i \in ActiveRuns(d, t) : TRUE, status |-> "pending", rows |-> Pending(d, t)]
           wake(t) == NewRun("wake", Pending(d, t), 0)
           woke(t) == Enqueue(Append(d.runs[t], wake(t)), Len(d.runs[t]) + 1)
           runs == [t \in Threads |-> IF t \in woken THEN woke(t) ELSE d.runs[t]]
           steers == [t \in Threads |-> IF t \in steered THEN Append(d.steers[t], steer(t)) ELSE d.steers[t]]
           taken(k) == d.inbox[k].status = "pending" /\ d.inbox[k].to \in woken \cup steered
           carried(k) == [d.inbox[k] EXCEPT !.status = "delivered", !.by = Carrier(d.inbox[k].to)]
           box == [k \in DOMAIN d.inbox |-> IF taken(k) THEN carried(k) ELSE d.inbox[k]]
           e == [d EXCEPT !.runs = runs, !.steers = steers, !.inbox = box]
<1>1. WakeThreads(d) = e
  BY Zenon DEF WakeThreads
<1>2. /\ \A t \in Threads : /\ d.runs[t] \in Seq(Run) /\ DOMAIN d.runs[t] = 1 .. Len(d.runs[t]) /\ Len(d.runs[t]) \in Nat
                            /\ d.steers[t] \in Seq(Steer) /\ DOMAIN d.steers[t] = 1 .. Len(d.steers[t])
                            /\ Len(d.steers[t]) \in Nat
      /\ DOMAIN d.inbox = 1 .. Len(d.inbox) /\ Len(d.inbox) \in Nat
      /\ \A k \in DOMAIN d.inbox : d.inbox[k] \in Row /\ RowLinked(d, d.inbox[k])
      /\ \A t \in Threads : \A i \in DOMAIN d.runs[t] : d.runs[t][i].rows \subseteq Rows(d, t)
      /\ \A t \in Threads : \A j \in DOMAIN d.steers[t] : SteerLinked(d, t, d.steers[t][j])
  BY Parts DEF Typed, RunLinked
<1>3. \A t \in Threads : Pending(d, t) \subseteq Rows(d, t) /\ Pending(d, t) \in SUBSET Nat
  BY <1>2 DEF Pending, Rows
<1>4. woken \subseteq Threads /\ steered \subseteq Threads
      /\ \A t \in steered : ActiveRuns(d, t) # {} /\ t \notin woken
  OBVIOUS
<1> HIDE DEF woken, steered
<1>5. \A t \in Threads :
        /\ wake(t) \in Run /\ wake(t).status = "queued" /\ wake(t).rows \subseteq Rows(d, t)
  BY <1>3, NewRunType
<1> HIDE DEF wake
<1>6. \A t \in Threads :
        LET n == Len(d.runs[t]) + 1
        IN /\ woke(t) \in Seq(Run) /\ DOMAIN woke(t) = DOMAIN d.runs[t] \cup {n} /\ n \notin DOMAIN d.runs[t]
           /\ \A i \in DOMAIN d.runs[t] : woke(t)[i] = d.runs[t][i]
           /\ \E at \in Nat : woke(t)[n] = [wake(t) EXCEPT !.start = "pending", !.at = at]
  <2> TAKE t \in Threads
  <2>1. d.runs[t] \in Seq(Run) /\ wake(t) \in Run
    BY <1>2, <1>5
  <2> QED
    BY <2>1, NewStart
<1> HIDE DEF woke
<1>7. \A t \in Threads :
        LET n == Len(d.runs[t]) + 1 IN woke(t)[n].rows \subseteq Rows(d, t) /\ woke(t)[n].status = "queued"
  <2> TAKE t \in Threads
  <2> DEFINE n == Len(d.runs[t]) + 1
  <2>1. PICK at \in Nat : woke(t)[n] = [wake(t) EXCEPT !.start = "pending", !.at = at]
    BY <1>6
  <2> QED
    BY <1>5, <2>1 DEF Run
<1>8. \A t \in Threads :
        /\ runs[t] \in Seq(Run) /\ DOMAIN d.runs[t] \subseteq DOMAIN runs[t]
        /\ \A i \in DOMAIN d.runs[t] : runs[t][i] = d.runs[t][i]
        /\ \A i \in DOMAIN runs[t] : runs[t][i].rows \subseteq Rows(d, t)
        /\ t \in woken => /\ Len(d.runs[t]) + 1 \in DOMAIN runs[t]
                          /\ runs[t][Len(d.runs[t]) + 1].status = "queued"
        /\ t \notin woken => runs[t] = d.runs[t]
  <2> TAKE t \in Threads
  <2>1. CASE t \in woken
    <3>1. runs[t] = woke(t)
      BY <2>1
    <3> HIDE DEF runs
    <3> DEFINE n == Len(d.runs[t]) + 1
    <3>2. /\ runs[t] \in Seq(Run) /\ DOMAIN runs[t] = DOMAIN d.runs[t] \cup {n}
          /\ \A i \in DOMAIN d.runs[t] : runs[t][i] = d.runs[t][i]
      BY <1>6, <3>1
    <3>3. runs[t][n].rows \subseteq Rows(d, t) /\ runs[t][n].status = "queued"
      BY <1>7, <3>1
    <3> HIDE DEF n
    <3>4. n \in DOMAIN runs[t] /\ \A i \in DOMAIN runs[t] : runs[t][i].rows \subseteq Rows(d, t)
      BY <1>2, <3>2, <3>3
    <3> QED
      BY <2>1, <3>2, <3>3, <3>4 DEF n
  <2>2. CASE t \notin woken
    <3>1. runs[t] = d.runs[t]
      BY <2>2
    <3> HIDE DEF runs
    <3> QED
      BY <1>2, <2>2, <3>1
  <2> QED
    BY <2>1, <2>2
<1>9. runs \in [Threads -> Seq(Run)]
  BY <1>8
<1> HIDE DEF runs
<1> DEFINE f == [d EXCEPT !.runs = runs]
<1>10. Typed(f) /\ \A t \in Threads : Rows(f, t) = Rows(d, t)
  BY <1>8, <1>9, RunsReplaced DEF RunLinked
<1>11. f.runs = runs /\ f.steers = d.steers /\ f.inbox = d.inbox /\ f.tasks = d.tasks
  BY DEF Typed, DB
<1>12. \A t \in steered : steer(t) \in Steer /\ SteerLinked(f, t, steer(t))
  <2> SUFFICES ASSUME NEW t \in steered PROVE steer(t) \in Steer /\ SteerLinked(f, t, steer(t))
    OBVIOUS
  <2>1. steer(t).run \in ActiveRuns(d, t)
    BY <1>4
  <2>2. steer(t).run \in DOMAIN d.runs[t] /\ steer(t).run \in Nat
    BY <1>2, <1>4, <2>1 DEF ActiveRuns
  <2>3. steer(t).rows = Pending(d, t) /\ steer(t).status = "pending"
    OBVIOUS
  <2>4. steer(t) = [run |-> steer(t).run, status |-> steer(t).status, rows |-> steer(t).rows]
    OBVIOUS
  <2> HIDE DEF steer, f
  <2> QED
    BY <1>3, <1>4, <1>8, <1>10, <1>11, <2>2, <2>3, <2>4 DEF SteerLinked, Steer
<1> HIDE DEF steer
<1>13. \A t \in Threads :
         /\ steers[t] \in Seq(Steer) /\ DOMAIN d.steers[t] \subseteq DOMAIN steers[t]
         /\ \A j \in DOMAIN steers[t] : SteerLinked(f, t, steers[t][j])
         /\ t \in steered => Len(d.steers[t]) + 1 \in DOMAIN steers[t]
         /\ t \notin steered => steers[t] = d.steers[t]
  <2> TAKE t \in Threads
  <2>1. \A j \in DOMAIN d.steers[t] : SteerLinked(f, t, d.steers[t][j])
    BY <1>10, <1>11 DEF Typed
  <2>2. CASE t \in steered
    <3> DEFINE more == Append(d.steers[t], steer(t))
    <3>1. steers[t] = more
      BY <2>2
    <3>2. /\ more \in Seq(Steer) /\ Len(more) = Len(d.steers[t]) + 1
          /\ more[Len(d.steers[t]) + 1] = steer(t) /\ \A j \in 1 .. Len(d.steers[t]) : more[j] = d.steers[t][j]
      BY <1>2, <1>12, <2>2, AppendProperties
    <3>3. DOMAIN more = 1 .. (Len(d.steers[t]) + 1)
      <4> HIDE DEF more
      <4> QED
        BY <3>2, LenProperties
    <3> HIDE DEF steers, more, f
    <3>4. DOMAIN more = DOMAIN d.steers[t] \cup {Len(d.steers[t]) + 1}
      BY <1>2, <3>3
    <3> QED
      BY <1>2, <1>12, <2>1, <2>2, <3>1, <3>2, <3>4
  <2>3. CASE t \notin steered
    <3>1. steers[t] = d.steers[t]
      BY <2>3
    <3> HIDE DEF steers, f
    <3> QED
      BY <1>2, <2>1, <2>3, <3>1
  <2> QED
    BY <2>2, <2>3
<1>14. steers \in [Threads -> Seq(Steer)]
  BY <1>13
<1> HIDE DEF steers
<1> DEFINE g == [f EXCEPT !.steers = steers]
<1>15. g.runs = runs /\ g.steers = steers /\ g.inbox = d.inbox /\ g.tasks = d.tasks
  BY <1>10, <1>11 DEF Typed, DB
<1>16. Typed(g) /\ \A t \in Threads : Rows(g, t) = Rows(d, t)
  <2> HIDE DEF f
  <2> QED
    BY <1>10, <1>11, <1>13, <1>14, SteersReplaced
<1>17. \A k \in DOMAIN d.inbox : taken(k) =>
         /\ carried(k) \in Row /\ carried(k).to = d.inbox[k].to
         /\ RowLinked(g, carried(k))
  <2> SUFFICES ASSUME NEW k \in DOMAIN d.inbox, taken(k)
               PROVE  carried(k) \in Row /\ carried(k).to = d.inbox[k].to /\ RowLinked(g, carried(k))
    OBVIOUS
  <2> DEFINE u == d.inbox[k].to
  <2>1. d.inbox[k] \in Row /\ u \in Threads
    BY <1>2 DEF Row
  <2>2. carried(k) \in Row /\ carried(k).to = u /\ carried(k).by = Carrier(u)
    <3>1. Carrier(u) \in [kind : {"none", "start", "steer", "item"}, n : Nat]
      <4> DEFINE i == Len(d.runs[u]) + 1
                 j == Len(d.steers[u]) + 1
      <4>1. i \in Nat /\ j \in Nat
        <5>1. \A t \in Threads : Len(d.runs[t]) \in Nat /\ Len(d.steers[t]) \in Nat
          BY <1>2
        <5>2. \A n \in Nat : n + 1 \in Nat
          OBVIOUS
        <5> QED
          BY <2>1, <5>1, <5>2
      <4>2. Carrier(u) = IF u \in woken THEN StartOf(i) ELSE SteerOf(j)
        OBVIOUS
      <4> HIDE DEF i, j, Carrier, u
      <4>3. /\ StartOf(i) \in [kind : {"none", "start", "steer", "item"}, n : Nat]
            /\ SteerOf(j) \in [kind : {"none", "start", "steer", "item"}, n : Nat]
        BY <4>1 DEF StartOf, SteerOf
      <4> QED
        BY <4>2, <4>3
    <3> DEFINE by == Carrier(u)
    <3>2. carried(k) = [d.inbox[k] EXCEPT !.status = "delivered", !.by = by]
      OBVIOUS
    <3> HIDE DEF by, carried
    <3>3. by \in [kind : {"none", "start", "steer", "item"}, n : Nat]
      BY <3>1 DEF by
    <3> HIDE DEF Carrier
    <3>4. carried(k) \in Row /\ carried(k).to = u /\ carried(k).by = by
      BY <2>1, <3>2, <3>3 DEF Row
    <3> QED
      BY <3>4 DEF by
  <2>3. CASE u \in woken
    <3>1. Carrier(u) = [kind |-> "start", n |-> Len(d.runs[u]) + 1]
      BY <2>3 DEF StartOf
    <3> HIDE DEF carried, g, Carrier
    <3> QED
      BY <1>8, <1>15, <2>1, <2>2, <2>3, <3>1 DEF RowLinked
  <2>4. CASE u \notin woken
    <3>1. Carrier(u) = [kind |-> "steer", n |-> Len(d.steers[u]) + 1] /\ u \in steered
      BY <2>4 DEF SteerOf
    <3> HIDE DEF carried, g, Carrier
    <3> QED
      BY <1>13, <1>15, <2>1, <2>2, <2>4, <3>1 DEF RowLinked
  <2> QED
    BY <2>2, <2>3, <2>4
<1>18. \A k \in DOMAIN d.inbox : RowLinked(g, d.inbox[k])
  BY <1>15, <1>16 DEF Typed
<1> HIDE DEF carried
<1>19. /\ box \in [DOMAIN d.inbox -> Row]
       /\ \A k \in DOMAIN d.inbox : box[k].to = d.inbox[k].to /\ RowLinked(g, box[k])
       /\ \A k \in DOMAIN d.inbox : d.inbox[k].to \notin woken \cup steered => box[k] = d.inbox[k]
  <2> HIDE DEF g, f
  <2> QED
    BY <1>2, <1>17, <1>18
<1>20. DOMAIN box = DOMAIN d.inbox
  OBVIOUS
<1> HIDE DEF box
<1>21. e = [g EXCEPT !.inbox = box]
  BY <1>11, <1>15 DEF Typed, DB
<1>22. e.runs = runs /\ e.steers = steers /\ e.inbox = box /\ e.tasks = d.tasks
  BY DEF Typed, DB
<1> HIDE DEF f, g, e
<1>23. Typed(e)
  <2>1. RewriteOf(g, [g EXCEPT !.inbox = box], DOMAIN g.inbox)
    BY <1>15, <1>16, <1>19, Rewritten
  <2> QED
    BY <1>21, <2>1 DEF RewriteOf
<1>24. Grows(d, e)
  BY <1>8, <1>13, <1>22 DEF Grows
<1>25. \A u \in Threads : Held(e, m, u)
  <2> TAKE u \in Threads
  <2>1. CASE u \in woken
    BY <1>8, <1>22, <2>1, RunHolds DEF Terminal
  <2>2. CASE u \in steered
    <3>1. PICK i \in DOMAIN d.runs[u] : d.runs[u][i].status = "active"
      BY <1>4, <2>2 DEF ActiveRuns
    <3> QED
      BY <1>4, <1>8, <1>22, <2>2, <3>1, RunHolds DEF Terminal
  <2>3. CASE u \notin woken \cup steered
    <3>1. Untouched(d, e, u)
      BY <1>8, <1>13, <1>19, <1>20, <1>22, <2>3 DEF Untouched, Rows
    <3>2. \A c : RunningInto(e, c) = RunningInto(d, c)
      BY <1>22 DEF RunningInto
    <3> QED
      BY <3>1, <3>2, StaysHeld
  <2> QED
    BY <2>1, <2>2, <2>3
<1> QED
  BY <1>1, <1>23, <1>24, <1>25

LEMMA ReconcileStep ==
  ASSUME Inv, NEW due, Reconcile(due)
  PROVE  Inv'
<1>0. Typed(db) /\ TurnsTyped(db, turn) /\ QueuesTyped(db, queue)
  BY InvParts
<1> DEFINE memory == Memory(turn, background)
           restored == Restore(db, memory, due)
           cancelled == CancelAcknowledgedWakes(restored, memory, Threads)
           e == WakeThreads(cancelled)
<1>1. UNCHANGED <<queue, turn, background, setup>> /\ db' = e
  BY DEF Reconcile
<1>2. SetupTyped'
  BY <1>1, InvParts DEF SetupTyped
<1> HIDE DEF memory
<1>3. Typed(restored) /\ Grows(db, restored)
  BY <1>0, RestoreFacts
<1> HIDE DEF restored
<1>4. Typed(cancelled) /\ Grows(restored, cancelled) /\ \A u \in Threads : Held(cancelled, memory, u)
  BY <1>3, CancelWakesFacts
<1> HIDE DEF cancelled
<1>5. Typed(e) /\ Grows(cancelled, e) /\ \A u \in Threads : Held(e, memory, u)
  BY <1>4, WakeThreadsFacts
<1> HIDE DEF e
<1>6. Grows(db, e)
  BY <1>3, <1>4, <1>5, GrowsTwice
<1>7. TurnsTyped(e, turn) /\ QueuesTyped(e, queue)
  BY <1>0, <1>5, <1>6, TurnsGrow, QueuesGrow
<1> QED
  BY <1>1, <1>2, <1>5, <1>7, InvNext DEF memory

-----------------------------------------------------------------------------
(* A crash and the recovery at boot.                                         *)

\* What the file of the database holds is kept, with nothing running in the process.
LEMMA CancelProcessBoundFacts ==
  ASSUME NEW d, Typed(d)
  PROVE  Typed(CancelProcessBound(d)) /\ Grows(d, CancelProcessBound(d))
<1> DEFINE cut(r) == [r EXCEPT !.start = IF r.start \in InFlight THEN "cancelled" ELSE r.start]
           dropped(s) == [s EXCEPT !.status = IF s.status = "pending" THEN "cancelled" ELSE s.status]
           runs == [t \in Threads |-> [i \in DOMAIN d.runs[t] |-> cut(d.runs[t][i])]]
           steers == [t \in Threads |-> [j \in DOMAIN d.steers[t] |-> dropped(d.steers[t][j])]]
           e == [d EXCEPT !.runs = runs, !.steers = steers]
<1>1. CancelProcessBound(d) = e
  BY DEF CancelProcessBound
<1>2. /\ \A t \in Threads : /\ DOMAIN d.runs[t] = 1 .. Len(d.runs[t]) /\ Len(d.runs[t]) \in Nat
                            /\ DOMAIN d.steers[t] = 1 .. Len(d.steers[t]) /\ Len(d.steers[t]) \in Nat
      /\ \A t \in Threads : \A i \in DOMAIN d.runs[t] :
           d.runs[t][i] \in Run /\ d.runs[t][i].rows \subseteq Rows(d, t)
      /\ \A t \in Threads : \A j \in DOMAIN d.steers[t] :
           d.steers[t][j] \in Steer /\ SteerLinked(d, t, d.steers[t][j])
  BY Parts DEF Typed, RunLinked
<1>3. \A r \in Run : cut(r) \in Run /\ cut(r).rows = r.rows /\ cut(r).item = r.item
  BY DEF Run
<1>4. \A s \in Steer : dropped(s) \in Steer /\ dropped(s).rows = s.rows /\ dropped(s).run = s.run
  BY DEF Steer
<1> HIDE DEF cut, dropped
<1>5. \A t \in Threads :
        /\ runs[t] \in [1 .. Len(d.runs[t]) -> Run]
        /\ \A i \in DOMAIN d.runs[t] : runs[t][i].rows = d.runs[t][i].rows /\ runs[t][i].item = d.runs[t][i].item
        /\ steers[t] \in [1 .. Len(d.steers[t]) -> Steer]
        /\ \A j \in DOMAIN d.steers[t] : steers[t][j].rows = d.steers[t][j].rows /\ steers[t][j].run = d.steers[t][j].run
  BY <1>2, <1>3, <1>4
<1>6. runs = [t \in Threads |-> runs[t]] /\ steers = [t \in Threads |-> steers[t]]
  OBVIOUS
<1> HIDE DEF runs, steers
<1>7. \A t \in Threads :
        /\ runs[t] \in Seq(Run) /\ DOMAIN runs[t] = DOMAIN d.runs[t]
        /\ steers[t] \in Seq(Steer) /\ DOMAIN steers[t] = DOMAIN d.steers[t]
  BY <1>2, <1>5, IsSeq
<1>8. runs \in [Threads -> Seq(Run)] /\ steers \in [Threads -> Seq(Steer)]
  BY <1>6, <1>7
<1> DEFINE f == [d EXCEPT !.runs = runs]
<1>9. \A t \in Threads : \A i \in DOMAIN runs[t] : RunLinked(d, t, runs[t][i])
  BY <1>2, <1>5, <1>7 DEF RunLinked
<1>10. Typed(f) /\ f.runs = runs /\ f.steers = d.steers /\ \A t \in Threads : Rows(f, t) = Rows(d, t)
  BY <1>7, <1>8, <1>9, RunsReplaced DEF Typed, DB
<1>11. e = [f EXCEPT !.steers = steers] /\ e.runs = runs /\ e.steers = steers
  BY DEF Typed, DB
<1> HIDE DEF f, e
<1>12. \A t \in Threads : \A j \in DOMAIN steers[t] : SteerLinked(f, t, steers[t][j])
  BY <1>2, <1>5, <1>7, <1>10 DEF SteerLinked
<1>13. Typed(e)
  BY <1>7, <1>8, <1>10, <1>11, <1>12, SteersReplaced
<1>14. Grows(d, e)
  BY <1>5, <1>7, <1>11 DEF Grows
<1> QED
  BY <1>1, <1>13, <1>14

LEMMA EndAllFacts ==
  ASSUME NEW d, Typed(d), NEW runs, NEW status \in Terminal
  PROVE  LET e == EndAll(d, runs, status)
         IN /\ Typed(e) /\ Grows(d, e)
            /\ (\A u \in Threads : Held(d, {}, u)) => \A u \in Threads : Held(e, {}, u)
<1> DEFINE over(t, i) == [d.runs[t][i] EXCEPT !.status = IF i \in runs[t] THEN status ELSE @]
           ended == [t \in Threads |-> [i \in DOMAIN d.runs[t] |-> over(t, i)]]
           threads == {t \in Threads : runs[t] # {}}
           f == [d EXCEPT !.runs = ended]
           e == Settle(f, {}, threads)
<1>1. EndAll(d, runs, status) = e
  BY DEF EndAll
<1>2. /\ \A t \in Threads : DOMAIN d.runs[t] = 1 .. Len(d.runs[t]) /\ Len(d.runs[t]) \in Nat /\ d.runs[t] \in Seq(Run)
      /\ \A t \in Threads : \A i \in DOMAIN d.runs[t] :
           d.runs[t][i] \in Run /\ d.runs[t][i].rows \subseteq Rows(d, t)
  BY Parts DEF Typed, RunLinked
<1>3. \A t \in Threads : \A i \in DOMAIN d.runs[t] :
        /\ over(t, i) \in Run /\ over(t, i).rows = d.runs[t][i].rows /\ over(t, i).item = d.runs[t][i].item
        /\ runs[t] = {} => over(t, i) = d.runs[t][i]
  <2> SUFFICES ASSUME NEW t \in Threads, NEW i \in DOMAIN d.runs[t]
               PROVE  /\ over(t, i) \in Run /\ over(t, i).rows = d.runs[t][i].rows
                      /\ over(t, i).item = d.runs[t][i].item
                      /\ runs[t] = {} => over(t, i) = d.runs[t][i]
    OBVIOUS
  <2>1. d.runs[t][i] \in Run
    BY <1>2
  <2>2. over(t, i) \in Run /\ over(t, i).rows = d.runs[t][i].rows /\ over(t, i).item = d.runs[t][i].item
    BY <2>1 DEF Run, Statuses
  <2>3. ASSUME runs[t] = {} PROVE over(t, i) = d.runs[t][i]
    BY <2>1, <2>3 DEF Run
  <2> QED
    BY <2>2, <2>3
<1> HIDE DEF over
<1>4. \A t \in Threads :
        /\ ended[t] \in [1 .. Len(d.runs[t]) -> Run]
        /\ \A i \in DOMAIN d.runs[t] : ended[t][i].rows = d.runs[t][i].rows /\ ended[t][i].item = d.runs[t][i].item
  BY <1>2, <1>3
<1>5. \A t \in Threads : runs[t] = {} => ended[t] = d.runs[t]
  <2> SUFFICES ASSUME NEW t \in Threads, runs[t] = {} PROVE ended[t] = d.runs[t]
    OBVIOUS
  <2>1. d.runs[t] = [i \in DOMAIN d.runs[t] |-> d.runs[t][i]]
    BY <1>2
  <2>2. ended[t] = [i \in DOMAIN d.runs[t] |-> d.runs[t][i]]
    BY <1>3
  <2> QED
    BY <2>1, <2>2
<1>6. ended = [t \in Threads |-> ended[t]]
  OBVIOUS
<1> HIDE DEF ended
<1>7. \A t \in Threads : ended[t] \in Seq(Run) /\ DOMAIN ended[t] = DOMAIN d.runs[t]
  BY <1>2, <1>4, IsSeq
<1>8. ended \in [Threads -> Seq(Run)]
  BY <1>6, <1>7
<1>9. \A t \in Threads : \A i \in DOMAIN ended[t] : RunLinked(d, t, ended[t][i])
  BY <1>2, <1>4, <1>7 DEF RunLinked
<1>10. Typed(f)
  BY <1>7, <1>8, <1>9, RunsReplaced
<1>11. f.runs = ended /\ f.steers = d.steers /\ f.tasks = d.tasks /\ f.inbox = d.inbox
  BY DEF Typed, DB
<1> HIDE DEF f
<1>12. Grows(d, f)
  BY <1>4, <1>7, <1>11 DEF Grows
<1>13. threads \in SUBSET Threads
  OBVIOUS
<1>14. Typed(e) /\ Grows(d, e)
  <2> HIDE DEF threads
  <2> QED
    BY <1>10, <1>12, <1>13, SettleFacts, SettleGrows, GrowsTwice
<1>15. ASSUME NEW u \in Threads, Held(d, {}, u) PROVE Held(e, {}, u)
  <2>1. CASE u \in threads
    <3> HIDE DEF threads
    <3> QED
      BY <1>10, <1>13, <2>1, SettleHolds
  <2>2. CASE u \notin threads
    <3>1. Untouched(d, f, u)
      BY <1>5, <1>11, <2>2 DEF Untouched, Rows
    <3>2. \A c : RunningInto(f, c) = RunningInto(d, c)
      BY <1>11 DEF RunningInto
    <3>3. Held(f, {}, u)
      BY <1>15, <3>1, <3>2, StaysHeld
    <3> HIDE DEF threads
    <3> QED
      BY <1>10, <1>13, <3>3, SettleHolds
  <2> QED
    BY <2>1, <2>2
<1> QED
  BY <1>1, <1>14, <1>15

\* A row of an item that is gone is pending: one that was to come still is.
LEMMA RecoverQueuedRowsFacts ==
  ASSUME NEW d, Typed(d), NEW m, \A u \in Threads : Held(d, m, u)
  PROVE  LET e == RecoverQueuedRows(d)
         IN Typed(e) /\ Grows(d, e) /\ \A u \in Threads : Held(e, m, u)
<1> DEFINE lost(k) == /\ d.inbox[k].status = "delivered" /\ d.inbox[k].by.kind = "item"
                      /\ \A n \in DOMAIN queue[d.inbox[k].to] : queue[d.inbox[k].to][n].steer # d.inbox[k].by.n
           back(k) == [d.inbox[k] EXCEPT !.status = "pending", !.by = Nobody]
           box == [k \in DOMAIN d.inbox |-> IF lost(k) THEN back(k) ELSE d.inbox[k]]
           e == [d EXCEPT !.inbox = box]
<1>1. RecoverQueuedRows(d) = e
  BY DEF RecoverQueuedRows
<1>2. \A k \in DOMAIN d.inbox : d.inbox[k] \in Row /\ RowLinked(d, d.inbox[k])
  BY Parts DEF Typed
<1>3. \A k \in DOMAIN d.inbox :
        /\ back(k) \in Row /\ back(k).to = d.inbox[k].to /\ RowLinked(d, back(k))
        /\ back(k).status = "pending" /\ back(k).gaveUp = d.inbox[k].gaveUp
  <2> SUFFICES ASSUME NEW k \in DOMAIN d.inbox
               PROVE  /\ back(k) \in Row /\ back(k).to = d.inbox[k].to /\ RowLinked(d, back(k))
                      /\ back(k).status = "pending" /\ back(k).gaveUp = d.inbox[k].gaveUp
    OBVIOUS
  <2>1. d.inbox[k] \in Row
    BY <1>2
  <2> QED
    BY <2>1 DEF Row, RowLinked, Nobody
<1> HIDE DEF back
<1>4. /\ box \in [DOMAIN d.inbox -> Row]
      /\ \A k \in DOMAIN d.inbox : box[k].to = d.inbox[k].to /\ RowLinked(d, box[k])
  BY <1>2, <1>3
<1>5. \A k \in DOMAIN d.inbox : box[k] = d.inbox[k] \/ (lost(k) /\ box[k] = back(k))
  OBVIOUS
<1> HIDE DEF box
<1>6. RewriteOf(d, e, DOMAIN d.inbox)
  BY <1>4, Rewritten
<1>7. e.inbox = box
  BY DEF Typed, DB
<1> HIDE DEF e
<1>8. \A k \in DOMAIN d.inbox : Actionable(d, d.inbox[k]) => Actionable(e, e.inbox[k])
  <2> SUFFICES ASSUME NEW k \in DOMAIN d.inbox, Actionable(d, d.inbox[k]) PROVE Actionable(e, e.inbox[k])
    OBVIOUS
  <2>1. CASE box[k] = d.inbox[k]
    BY <1>6, <1>7, <2>1 DEF RewriteOf, Actionable, LegacySteer, CarrierRun
  <2>2. CASE lost(k) /\ box[k] = back(k)
    BY <1>3, <1>7, <2>2 DEF Actionable
  <2> QED
    BY <1>5, <2>1, <2>2
<1>9. \A u \in Threads : Held(e, m, u)
  <2> TAKE u \in Threads
  <2>1. Held(d, m, u) /\ \A c : RunningInto(e, c) = RunningInto(d, c)
    BY <1>6 DEF RewriteOf, RunningInto
  <2>2. Rows(e, u) = Rows(d, u) /\ Rows(d, u) \subseteq DOMAIN d.inbox
    BY <1>6 DEF RewriteOf, Rows
  <2>3. DeliveryInFlight(d, u) => DeliveryInFlight(e, u)
    BY <1>6 DEF RewriteOf, DeliveryInFlight
  <2>4. Busy(d, m, u) => Busy(e, m, u)
    BY <1>6, <1>8, <2>1, <2>2, <2>3 DEF Busy, RewriteOf
  <2> QED
    BY <2>1, <2>4 DEF Held
<1> QED
  BY <1>1, <1>6, <1>9, RewriteGrows DEF RewriteOf

\* The queues as the file keeps them: nothing is claimed.
LEMMA UnclaimedQueues ==
  ASSUME NEW d, NEW q, QueuesTyped(d, q)
  PROVE  QueuesTyped(d, [t \in Threads |-> [n \in DOMAIN q[t] |-> [q[t][n] EXCEPT !.claimed = FALSE]]])
<1> DEFINE free(t, n) == [q[t][n] EXCEPT !.claimed = FALSE]
           items == [t \in Threads |-> [n \in DOMAIN q[t] |-> free(t, n)]]
<1>1. \A t \in Threads : /\ DOMAIN q[t] = 1 .. Len(q[t]) /\ Len(q[t]) \in Nat
                         /\ \A n \in DOMAIN q[t] : q[t][n] \in Item /\ ItemLinked(d, t, q[t][n])
  BY ItemsFacts
<1>2. \A t \in Threads : \A n \in DOMAIN q[t] : free(t, n) \in Item /\ ItemLinked(d, t, free(t, n))
  <2> SUFFICES ASSUME NEW t \in Threads, NEW n \in DOMAIN q[t]
               PROVE  free(t, n) \in Item /\ ItemLinked(d, t, free(t, n))
    OBVIOUS
  <2>1. q[t][n] \in Item /\ ItemLinked(d, t, q[t][n])
    BY <1>1
  <2> QED
    BY <2>1 DEF Item, ItemLinked
<1> HIDE DEF free
<1>3. \A t \in Threads :
        /\ items[t] \in [1 .. Len(q[t]) -> Item]
        /\ \A n \in 1 .. Len(q[t]) : ItemLinked(d, t, items[t][n])
  BY <1>1, <1>2
<1>4. items = [t \in Threads |-> items[t]]
  OBVIOUS
<1> HIDE DEF items
<1>5. \A t \in Threads : items[t] \in Seq(Item) /\ DOMAIN items[t] = 1 .. Len(q[t])
  BY <1>1, <1>3, IsSeq
<1>6. QueuesTyped(d, items)
  BY <1>3, <1>4, <1>5 DEF QueuesTyped
<1> QED
  BY <1>6 DEF items, free

LEMMA CrashAndBootStep ==
  ASSUME Inv, CrashAndBoot
  PROVE  Inv'
<1>0. Typed(db) /\ TurnsTyped(db, turn) /\ QueuesTyped(db, queue) /\ SetupTyped
  BY InvParts
<1> DEFINE cancelled == CancelProcessBound(db)
           cut == EndAll(cancelled, CutOff(cancelled), "cut")
           orphaned == EndAll(cut, OrphanedChildren(cut), "cut")
           wakes == QueuedWakes(orphaned)
           dropped == EndAll(orphaned, wakes, "cancelled")
           rows == UNION {UNION {orphaned.runs[t][i].rows : i \in wakes[t]} : t \in Threads}
           again == PendingAgain(dropped, rows, TRUE)
           restored == Restore(again, {}, DOMAIN orphaned.inbox)
           woken == Settle(restored, {}, Threads)
           followed == EndAll(woken, OrphanedFollowUps(woken), "cancelled")
           e == RecoverQueuedRows(followed)
           items == [t \in Threads |-> [n \in DOMAIN queue[t] |-> [queue[t][n] EXCEPT !.claimed = FALSE]]]
           none == [t \in Threads |-> NoTurn]
<1>1. Spend("crashes") /\ db' = e /\ turn' = none /\ background' = {} /\ queue' = items
  BY Zenon DEF CrashAndBoot, RecoverWakes
<1>2. SetupTyped'
  BY <1>0, <1>1, SpendKeeps DEF SetupTyped
<1>3. Typed(cancelled) /\ Grows(db, cancelled)
  BY <1>0, CancelProcessBoundFacts
<1> HIDE DEF cancelled
<1>4. "cut" \in Terminal /\ "cancelled" \in Terminal
  BY DEF Terminal
<1>5. Typed(cut) /\ Grows(cancelled, cut)
  BY <1>3, <1>4, EndAllFacts
<1> HIDE DEF cut
<1>6. Typed(orphaned) /\ Grows(cut, orphaned)
  BY <1>4, <1>5, EndAllFacts
<1> HIDE DEF orphaned
<1>7. Typed(dropped) /\ Grows(orphaned, dropped)
  BY <1>4, <1>6, EndAllFacts
<1> HIDE DEF dropped, rows
<1>8. RewriteOf(dropped, again, rows)
  BY <1>7, PendingAgainRewrites
<1> HIDE DEF again
<1>9. Typed(again) /\ Grows(dropped, again)
  BY <1>8, RewriteGrows DEF RewriteOf
<1>10. Typed(restored) /\ Grows(again, restored)
  BY <1>9, RestoreFacts
<1> HIDE DEF restored
<1>11. Typed(woken) /\ Grows(restored, woken) /\ \A u \in Threads : Held(woken, {}, u)
  BY <1>10, SettleFacts, SettleGrows, SettleHolds
<1> HIDE DEF woken
<1>12. Typed(followed) /\ Grows(woken, followed) /\ \A u \in Threads : Held(followed, {}, u)
  BY <1>4, <1>11, EndAllFacts
<1> HIDE DEF followed
<1>13. Typed(e) /\ Grows(followed, e) /\ \A u \in Threads : Held(e, {}, u)
  BY <1>12, RecoverQueuedRowsFacts
<1> HIDE DEF e
<1>14. Grows(db, orphaned) /\ Grows(orphaned, restored) /\ Grows(restored, e)
  <2>1. Grows(db, cut)
    BY <1>3, <1>5, GrowsTwice
  <2>2. Grows(db, orphaned)
    BY <1>6, <2>1, GrowsTwice
  <2>3. Grows(orphaned, again)
    BY <1>7, <1>9, GrowsTwice
  <2>4. Grows(orphaned, restored)
    BY <1>10, <2>3, GrowsTwice
  <2>5. Grows(restored, followed)
    BY <1>11, <1>12, GrowsTwice
  <2> QED
    BY <1>13, <2>2, <2>4, <2>5, GrowsTwice
<1>15. Grows(db, e)
  BY <1>14, GrowsTwice
<1>16. QueuesTyped(e, items)
  BY <1>0, <1>15, QueuesGrow, UnclaimedQueues
<1>17. TurnsTyped(e, none)
  <2>1. \A t \in Threads : Len(e.runs[t]) \in Nat
    BY <1>13, Parts DEF Typed
  <2>2. \A t \in Threads : NoTurn \in Turn /\ TurnLinked(e, t, NoTurn)
    BY <2>1 DEF NoTurn, Turn, TurnLinked
  <2> HIDE DEF NoTurn
  <2> QED
    BY <2>2 DEF TurnsTyped
<1>18. \A u \in Threads : Held(e, Memory(turn', background'), u)
  BY <1>13 DEF Held, Busy
<1> QED
  BY <1>1, <1>2, <1>13, <1>16, <1>17, <1>18, InvNext

-----------------------------------------------------------------------------
(* The theorems.                                                             *)

LEMMA InitInv ==
  ASSUME Init
  PROVE  Inv
<1> USE DEF Init
<1> DEFINE first == [NewRun("person", {}, 0) EXCEPT !.status = "active", !.start = "running", !.started = TRUE]
<1>1. first \in Run /\ first.rows = {}
  BY DEF NewRun, Run, Statuses, Terminal, InFlight
<1> HIDE DEF first
<1> DEFINE runs == [t \in Threads |-> IF t = Root THEN <<first>> ELSE <<>>]
           steers == [t \in Threads |-> <<>>]
<1>2. db = [runs |-> runs, steers |-> steers, tasks |-> <<>>, inbox |-> <<>>]
  BY DEF first
<1>3. <<first>> \in Seq(Run) /\ DOMAIN <<first>> = {1} /\ Len(<<first>>) = 1 /\ <<first>>[1] = first
  BY <1>1
<1>4. \A t \in Threads :
        /\ runs[t] \in Seq(Run)
        /\ \A i \in DOMAIN runs[t] : runs[t][i].rows = {}
        /\ t = Root => Len(runs[t]) = 1
        /\ Len(runs[t]) \in Nat
  <2> TAKE t \in Threads
  <2>1. CASE t = Root
    <3>1. runs[t] = <<first>>
      BY <2>1
    <3> HIDE DEF runs
    <3> QED
      BY <1>1, <1>3, <3>1
  <2>2. CASE t # Root
    <3>1. runs[t] = <<>>
      BY <2>2
    <3> HIDE DEF runs
    <3>2. <<>> \in Seq(Run) /\ DOMAIN <<>> = {} /\ Len(<<>>) = 0
      BY EmptySeq
    <3> QED
      BY <2>2, <3>1, <3>2
  <2> QED
    BY <2>1, <2>2
<1>5. steers \in [Threads -> Seq(Steer)] /\ runs \in [Threads -> Seq(Run)] /\ \A t \in Threads : DOMAIN steers[t] = {}
  BY <1>4
<1>6. db.runs = runs /\ db.steers = steers /\ db.tasks = <<>> /\ db.inbox = <<>>
  BY <1>2
<1> HIDE DEF runs, steers
<1>7. Typed(db)
  <2>1. <<>> \in Seq(Task) /\ <<>> \in Seq(Row)
    OBVIOUS
  <2>2. db \in DB
    BY <1>2, <1>5, <2>1 DEF DB
  <2>3. /\ \A t \in Threads : \A i \in DOMAIN db.runs[t] : db.runs[t][i].rows = {}
        /\ \A t \in Threads : DOMAIN db.steers[t] = {}
    BY <1>4, <1>5, <1>6
  <2>4. DOMAIN db.tasks = {} /\ DOMAIN db.inbox = {}
    BY <1>6
  <2> HIDE DEF Init
  <2> QED
    BY <2>2, <2>3, <2>4 DEF Typed, RunLinked
<1>8. TurnsTyped(db, turn)
  <2>1. \A t \in Threads : turn[t] \in Turn /\ TurnLinked(db, t, turn[t])
    <3> TAKE t \in Threads
    <3>1. CASE t = Root
      <4>1. turn[t] = [NoTurn EXCEPT !.run = 1]
        BY <3>1
      <4>2. 1 \in 0 .. Len(db.runs[t])
        BY <1>4, <1>6, <3>1
      <4> HIDE DEF Init
      <4>3. turn[t] = [run |-> 1, unread |-> {}, plain |-> FALSE, taken |-> {}, aborted |-> FALSE]
        BY <4>1 DEF NoTurn
      <4> QED
        BY <4>2, <4>3 DEF Turn, TurnLinked
    <3>2. CASE t # Root
      <4>1. turn[t] = NoTurn
        BY <3>2
      <4>2. Len(db.runs[t]) \in Nat /\ 0 \in 0 .. Len(db.runs[t])
        BY <1>4, <1>6
      <4> HIDE DEF Init
      <4> QED
        BY <4>1, <4>2, NoTurnType
    <3> QED
      BY <3>1, <3>2
  <2>2. turn = [t \in Threads |-> turn[t]]
    OBVIOUS
  <2> HIDE DEF Init
  <2> QED
    BY <2>1, <2>2 DEF TurnsTyped
<1>9. QueuesTyped(db, queue)
  BY DEF QueuesTyped
<1>10. SetupTyped
  BY DeliveryAssumption DEF SetupTyped
<1>11. HoldIsCurrent
  BY <1>6 DEF HoldIsCurrent, RunningInto
<1> HIDE DEF Init
<1> QED
  BY <1>7, <1>8, <1>9, <1>10, <1>11 DEF Inv, TypeInv

LEMMA InvKept ==
  ASSUME Inv, [Next]_vars
  PROVE  Inv'
<1>1. CASE UNCHANGED vars
  BY <1>1 DEF vars, Inv, TypeInv, SetupTyped, HoldIsCurrent
<1>2. ASSUME NEW due, Reconcile(due) PROVE Inv'
  BY <1>2, ReconcileStep
<1>3. CASE CrashAndBoot
  BY <1>3, CrashAndBootStep
<1>4. ASSUME NEW t \in Threads, Delegate(t) \/ Ask(t) \/ SteerByPerson(t) PROVE Inv'
  BY <1>4, DelegateStep, AskStep, SteerByPersonStep
<1>5. ASSUME NEW t \in Threads, NEW i \in DOMAIN db.runs[t], StartTurn(t, i) \/ StartWake(t, i) \/ RestartSend(t, i)
      PROVE Inv'
  BY <1>5, StartTurnStep, StartWakeStep, RestartSendStep
<1>6. ASSUME NEW t \in Threads, NEW j \in DOMAIN db.steers[t], ExecuteSteer(t, j) \/ ReturnSteer(t, j) PROVE Inv'
  BY <1>6, ExecuteSteerStep, ReturnSteerStep
<1>7. ASSUME NEW t \in Threads, ReadSteers(t) PROVE Inv'
  BY <1>7, ReadSteersStep
<1>8. ASSUME NEW t \in Threads, NEW status \in {"completed", "failed", "stopped"}, EndRun(t, status) PROVE Inv'
  BY <1>8, EndRunStep
<1>9. ASSUME NEW t \in Threads, NEW saved \in BOOLEAN, SettleTurn(t, saved) PROVE Inv'
  BY <1>9, SettleTurnStep
<1>10. ASSUME NEW t \in Threads, Drain(t) \/ StartItem(t) PROVE Inv'
  BY <1>10, DrainStep, StartItemStep
<1>11. ASSUME NEW t \in Threads, StartBackground(t) \/ EndBackground(t) PROVE Inv'
  BY <1>11, StartBackgroundStep, EndBackgroundStep
<1>12. ASSUME NEW t \in Threads, Stop(t) PROVE Inv'
  BY <1>12, StopStep
<1>13. ASSUME NEW k \in DOMAIN db.tasks, TaskStatus(k) PROVE Inv'
  BY <1>13, TaskStatusStep
<1> QED
  BY <1>1, <1>2, <1>3, <1>4, <1>5, <1>6, <1>7, <1>8, <1>9, <1>10, <1>11, <1>12, <1>13 DEF Next

LEMMA Invariant == Spec => []Inv
<1>1. Init => Inv
  BY InitInv
<1>2. Inv /\ [Next]_vars => Inv'
  BY InvKept
<1> QED
  BY <1>1, <1>2, PTL DEF Spec

\* Every run, steer, task, row, turn and queue item refers to what is there: a row's carrier to a run or
\* steer of the row's thread, a run and a steer to rows addressed to it, a task to a run of its child,
\* whatever starts, ends, is given back, stopped or cut off by a restart of the daemon.
THEOREM TypeCorrect == Spec => []TypeOK
<1>1. Inv => TypeOK
  BY TypedTypeOK DEF Inv
<1> QED
  BY <1>1, Invariant, PTL

\* No task waits for a settlement nobody will make: at every state of a tree of any size, a subagent with
\* a running task is busy, for whatever ends the last reason to hold the task publishes it in the same
\* step (settleHold in run/delegation/hold.ts, called at every change of what childBusy reads).
THEOREM HoldsAreCurrent == Spec => []HoldIsCurrent
<1>1. Inv => HoldIsCurrent
  BY DEF Inv
<1> QED
  BY <1>1, Invariant, PTL
=============================================================================
