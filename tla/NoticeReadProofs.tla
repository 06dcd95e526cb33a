-------------------------- MODULE NoticeReadProofs --------------------------
(***************************************************************************)
(* A notice is read once, and the answer of a task is final, for every     *)
(* tree of threads and every number of tasks, notices, failures, crashes   *)
(* and Stops.                                                              *)
(***************************************************************************)
EXTENDS NoticeDeliveryProofs

-----------------------------------------------------------------------------
(* Where a notice stands.                                                    *)

\* Nobody has read it, and it is on its way or was settled on the way.
OnItsWay(row) ==
    /\ row.reads = {}
    /\ row.status = "delivered" \/ (row.status = "acknowledged" /\ row.waived)

\* The notices of a thread that a carrier has.
HeldBy(d, t, carrier) == {k \in Rows(d, t) : d.inbox[k].status = "delivered" /\ d.inbox[k].by = carrier}

\* What a run's prompt shows is the run's to show: it was handed to its turn.start, or settled while it was
\* still the queue item's.
PromptUnread(d, t, i) ==
    \A k \in d.runs[t][i].rows :
        /\ OnItsWay(d.inbox[k])
        /\ \/ d.inbox[k].by = StartOf(i)
           \/ /\ d.inbox[k].status = "acknowledged"
              /\ d.runs[t][i].item # 0 /\ d.inbox[k].by = ItemOf(d.runs[t][i].item)

\* What a steer's text shows is the steer's.
SteerUnread(d, t, j) == \A k \in d.steers[t][j].rows : OnItsWay(d.inbox[k]) /\ d.inbox[k].by = SteerOf(j)

\* A claimed item's run is about to show what the item has.
ItemUnread(d, t, i) ==
    /\ \A k \in d.runs[t][i].rows : OnItsWay(d.inbox[k]) /\ d.inbox[k].by = ItemOf(d.runs[t][i].item)
    /\ HeldBy(d, t, ItemOf(d.runs[t][i].item)) \subseteq d.runs[t][i].rows

\* A notice that was not settled was not read, one that a delivery settled was, and none twice.
RowRead(d, t, row) ==
    /\ row.reads = {} \/ \E i \in row.reads : row.reads = {i}
    /\ row.status # "acknowledged" => row.reads = {}
    /\ row.status = "acknowledged" /\ ~row.waived => row.reads # {}
    /\ row.taken \in 0 .. Len(d.steers[t])

Plain == {"person", "followup", "task"}

\* A run that has no notices, or has those of one carrier.
RunStands(d, t, i, run) ==
    /\ run.source \in Plain => run.rows = {} /\ run.item = 0 /\ HeldBy(d, t, StartOf(i)) = {}
    /\ run.source = "wake" => run.item = 0
    /\ run.start = "pending" => run.status = "queued" /\ PromptUnread(d, t, i)
    /\ run.status = "queued" => HeldBy(d, t, StartOf(i)) \subseteq run.rows
    /\ run.item # 0 =>
         /\ run.item \in DOMAIN d.steers[t] /\ d.steers[t][run.item].status = "succeeded"
         /\ \A n \in DOMAIN d.runs[t] : d.runs[t][n].item = run.item => n = i
         /\ run.status = "queued" => HeldBy(d, t, StartOf(i)) = {} \/ HeldBy(d, t, ItemOf(run.item)) = {}
RunApart(d, t, i) == RunStands(d, t, i, d.runs[t][i])

\* What a steer and the item it became deliver is what the steer was for.
SteerApart(d, t, j) ==
    /\ HeldBy(d, t, SteerOf(j)) \cup HeldBy(d, t, ItemOf(j)) \subseteq d.steers[t][j].rows
    /\ d.steers[t][j].status # "succeeded" => HeldBy(d, t, ItemOf(j)) = {}
    /\ d.runs[t][d.steers[t][j].run].status # "queued"

IsLive(d, t, x) == x.run # 0 /\ d.runs[t][x.run].status = "active"

\* The steers a turn holds are nobody else's, and those whose text its provider has taken are marked.
TurnApart(d, t, items, x) ==
    /\ \A j \in x.unread \cup x.taken :
         /\ d.steers[t][j].status = "succeeded"
         /\ \A i \in DOMAIN d.runs[t] : d.runs[t][i].item # j
         /\ \A n \in DOMAIN items : items[n].steer # j
    /\ IsLive(d, t, x) =>
         /\ d.runs[t][x.run].start = "running"
         /\ PromptUnread(d, t, x.run) /\ HeldBy(d, t, StartOf(x.run)) \subseteq d.runs[t][x.run].rows
         /\ \A j \in x.unread \cup x.taken : d.steers[t][j].run = x.run /\ SteerUnread(d, t, j)
         /\ \A j \in x.taken : \A k \in HeldBy(d, t, SteerOf(j)) : d.inbox[k].taken = j
         /\ \A j \in DOMAIN d.steers[t] \ x.taken :
              d.steers[t][j].run = x.run => \A k \in HeldBy(d, t, SteerOf(j)) : d.inbox[k].taken # j

ItemApart(d, t, item) ==
    IF item.steer = 0 THEN d.runs[t][item.run].source \in Plain
    ELSE /\ d.steers[t][item.steer].status = "succeeded"
         /\ item.claimed =>
              \A i \in DOMAIN d.runs[t] :
                 /\ d.runs[t][i].item = item.steer
                 /\ d.runs[t][i].status = "queued" /\ d.runs[t][i].start \notin InFlight
                 => ItemUnread(d, t, i)

\* The carriers of one thread, with its queue and its turn.
Apart(d, t, items, x) ==
    /\ \A k \in Rows(d, t) : RowRead(d, t, d.inbox[k])
    /\ \A i \in DOMAIN d.runs[t] : RunApart(d, t, i)
    /\ \A j \in DOMAIN d.steers[t] : SteerApart(d, t, j)
    /\ TurnApart(d, t, items, x)
    /\ \A n \in DOMAIN items : ItemApart(d, t, items[n])

AllApart(d, q, tn) == \A t \in Threads : Apart(d, t, q[t], tn[t])
ReadInv == AllApart(db, queue, turn)

\* What is asked of a run stays true of a run that is not written, as long as its carriers gain no
\* row, no other run is made for its item and the steer of the item stays handed over.
LEMMA RunApartKept ==
  ASSUME NEW d, NEW e, NEW t, NEW i, RunApart(d, t, i),
         e.runs[t][i] = d.runs[t][i],
         d.runs[t][i].item # 0 => \A m \in DOMAIN e.runs[t] : e.runs[t][m].item = d.runs[t][i].item => m = i,
         HeldBy(e, t, StartOf(i)) \subseteq HeldBy(d, t, StartOf(i)),
         HeldBy(e, t, ItemOf(d.runs[t][i].item)) \subseteq HeldBy(d, t, ItemOf(d.runs[t][i].item)),
         PromptUnread(d, t, i) => PromptUnread(e, t, i),
         DOMAIN e.steers[t] = DOMAIN d.steers[t],
         \A j \in DOMAIN d.steers[t] : d.steers[t][j].status = "succeeded" => e.steers[t][j].status = "succeeded"
  PROVE  RunApart(e, t, i)
<1> DEFINE r == d.runs[t][i]
<1>0. RunStands(d, t, i, r)
  BY DEF RunApart
<1> HIDE DEF r
<1>1. /\ r.source \in Plain => r.rows = {} /\ r.item = 0 /\ HeldBy(d, t, StartOf(i)) = {}
      /\ r.source = "wake" => r.item = 0
      /\ r.start = "pending" => r.status = "queued" /\ PromptUnread(d, t, i)
      /\ r.status = "queued" => HeldBy(d, t, StartOf(i)) \subseteq r.rows
  BY <1>0 DEF RunStands
<1>2. r.item # 0 =>
        /\ r.item \in DOMAIN d.steers[t] /\ d.steers[t][r.item].status = "succeeded"
        /\ r.status = "queued" => HeldBy(d, t, StartOf(i)) = {} \/ HeldBy(d, t, ItemOf(r.item)) = {}
  BY <1>0 DEF RunStands
<1>3. /\ e.runs[t][i] = r
      /\ HeldBy(e, t, StartOf(i)) \subseteq HeldBy(d, t, StartOf(i))
      /\ HeldBy(e, t, ItemOf(r.item)) \subseteq HeldBy(d, t, ItemOf(r.item))
      /\ r.item # 0 => \A m \in DOMAIN e.runs[t] : e.runs[t][m].item = r.item => m = i
  BY DEF r
<1>4. /\ r.source \in Plain => r.rows = {} /\ r.item = 0 /\ HeldBy(e, t, StartOf(i)) = {}
      /\ r.source = "wake" => r.item = 0
      /\ r.start = "pending" => r.status = "queued" /\ PromptUnread(e, t, i)
      /\ r.status = "queued" => HeldBy(e, t, StartOf(i)) \subseteq r.rows
  BY <1>1, <1>3
<1>5. r.item # 0 =>
        /\ r.item \in DOMAIN e.steers[t] /\ e.steers[t][r.item].status = "succeeded"
        /\ \A m \in DOMAIN e.runs[t] : e.runs[t][m].item = r.item => m = i
        /\ r.status = "queued" => HeldBy(e, t, StartOf(i)) = {} \/ HeldBy(e, t, ItemOf(r.item)) = {}
  BY <1>2, <1>3
<1>6. RunStands(e, t, i, r)
  BY <1>4, <1>5 DEF RunStands
<1> QED
  BY <1>3, <1>6 DEF RunApart

\* The same of a steer whose run is written at most to leave the queue.
LEMMA SteerApartKept ==
  ASSUME NEW d, NEW e, NEW t, NEW j, SteerApart(d, t, j), e.steers[t][j] = d.steers[t][j],
         HeldBy(e, t, SteerOf(j)) \subseteq HeldBy(d, t, SteerOf(j)),
         HeldBy(e, t, ItemOf(j)) \subseteq HeldBy(d, t, ItemOf(j)),
         e.runs[t][d.steers[t][j].run].status # "queued"
  PROVE  SteerApart(e, t, j)
BY DEF SteerApart

-----------------------------------------------------------------------------
(* Steps that hand nothing over.                                             *)

\* A row that looks the same, is settled, or is given back.
LooksSame(r, s) ==
    s.status = r.status /\ s.by = r.by /\ s.reads = r.reads /\ s.waived = r.waived /\ s.taken = r.taken
Waived(r, s) ==
    /\ r.status # "acknowledged" /\ s.status = "acknowledged" /\ s.waived
    /\ s.by = r.by /\ s.reads = r.reads /\ s.taken = r.taken
GivenBack(r, s) ==
    /\ r.status = "delivered" /\ s.status = "pending" /\ s.reads = r.reads /\ s.taken = r.taken

NewNotice(row) == row.status = "pending" /\ row.reads = {} /\ row.taken = 0

\* A row of a run that will show it, of a steer of the live turn, or of an item that was claimed.
Due(d, t, items, x, row) ==
    \/ \E i \in DOMAIN d.runs[t] :
         /\ row.by = StartOf(i)
         /\ d.runs[t][i].start = "pending" \/ (IsLive(d, t, x) /\ i = x.run)
    \/ IsLive(d, t, x) /\ \E j \in x.unread \cup x.taken : row.by = SteerOf(j)
    \/ \E n \in DOMAIN items : items[n].claimed /\ row.by = ItemOf(items[n].steer)

RunEases(r, s) ==
    /\ s.source = r.source /\ s.rows = r.rows /\ s.item = r.item
    /\ s.status = r.status \/ s.status \in Terminal
    /\ s.start = "pending" => r.start = "pending" /\ s.status = r.status

SteerEases(r, s) == s.run = r.run /\ s.rows = r.rows /\ (r.status = "succeeded" => s.status = "succeeded")

\* Nothing is handed to a carrier, and what is due to be shown is not given back.
Eases(d, e, t, items, x) ==
    /\ DOMAIN e.runs[t] = DOMAIN d.runs[t]
    /\ \A i \in DOMAIN d.runs[t] : RunEases(d.runs[t][i], e.runs[t][i])
    /\ IsLive(e, t, x) => e.runs[t][x.run].start = d.runs[t][x.run].start
    /\ \A n \in DOMAIN items : items[n].claimed =>
         \A i \in DOMAIN d.runs[t] :
            e.runs[t][i].status = "queued" /\ e.runs[t][i].start \notin InFlight => d.runs[t][i].start \notin InFlight
    /\ DOMAIN e.steers[t] = DOMAIN d.steers[t] /\ Len(e.steers[t]) = Len(d.steers[t])
    /\ \A j \in DOMAIN d.steers[t] : SteerEases(d.steers[t][j], e.steers[t][j])
    /\ Rows(d, t) \subseteq Rows(e, t)
    /\ \A k \in Rows(e, t) \ Rows(d, t) : NewNotice(e.inbox[k])
    /\ \A k \in Rows(d, t) :
         \/ LooksSame(d.inbox[k], e.inbox[k])
         \/ Waived(d.inbox[k], e.inbox[k])
         \/ GivenBack(d.inbox[k], e.inbox[k]) /\ ~Due(e, t, items, x, d.inbox[k])

LEMMA LessHeld ==
  ASSUME NEW d, NEW e, NEW t, NEW items, NEW x, Eases(d, e, t, items, x), NEW carrier
  PROVE  HeldBy(e, t, carrier) \subseteq HeldBy(d, t, carrier)
BY DEF Eases, HeldBy, LooksSame, Waived, GivenBack, NewNotice

LEMMA OnItsWayKept ==
  ASSUME NEW d, NEW e, NEW t, NEW items, NEW x, Eases(d, e, t, items, x), NEW k \in Rows(d, t),
         OnItsWay(d.inbox[k]), Due(e, t, items, x, d.inbox[k]) \/ d.inbox[k].status = "acknowledged"
  PROVE  /\ OnItsWay(e.inbox[k]) /\ e.inbox[k].by = d.inbox[k].by
         /\ d.inbox[k].status = "acknowledged" => e.inbox[k].status = "acknowledged"
         /\ e.inbox[k].taken = d.inbox[k].taken
BY DEF Eases, OnItsWay, LooksSame, Waived, GivenBack

LEMMA EasesKeeps ==
  ASSUME NEW d, NEW e, Typed(d), Typed(e), NEW t \in Threads, NEW items, NEW x, Eases(d, e, t, items, x),
         x.run \in 0 .. Len(d.runs[t]), x.unread \cup x.taken \subseteq DOMAIN d.steers[t],
         \A n \in DOMAIN items : ItemLinked(d, t, items[n]),
         Apart(d, t, items, x)
  PROVE  Apart(e, t, items, x)
<1>1. /\ \A i \in DOMAIN d.runs[t] : d.runs[t][i].rows \subseteq Rows(d, t)
      /\ \A j \in DOMAIN d.steers[t] : d.steers[t][j].rows \subseteq Rows(d, t)
  BY DEF Typed, RunLinked, SteerLinked
<1>2. /\ DOMAIN e.runs[t] = DOMAIN d.runs[t] /\ DOMAIN e.steers[t] = DOMAIN d.steers[t]
      /\ Len(e.steers[t]) = Len(d.steers[t]) /\ Len(d.steers[t]) \in Nat
      /\ DOMAIN d.runs[t] = 1 .. Len(d.runs[t]) /\ Len(d.runs[t]) \in Nat
  BY Parts DEF Eases, Typed
<1>3. \A i \in DOMAIN d.runs[t] : RunEases(d.runs[t][i], e.runs[t][i])
  BY DEF Eases
<1>4. \A j \in DOMAIN d.steers[t] : SteerEases(d.steers[t][j], e.steers[t][j])
  BY DEF Eases
<1>5. \A carrier : HeldBy(e, t, carrier) \subseteq HeldBy(d, t, carrier)
  BY LessHeld
<1>6. ASSUME NEW k \in Rows(e, t) PROVE RowRead(e, t, e.inbox[k])
  <2>1. CASE k \notin Rows(d, t)
    <3>1. NewNotice(e.inbox[k])
      BY <1>6, <2>1 DEF Eases
    <3> QED
      BY <1>2, <3>1 DEF NewNotice, RowRead
  <2>2. CASE k \in Rows(d, t)
    <3>1. RowRead(d, t, d.inbox[k])
      BY <2>2 DEF Apart
    <3>2. LooksSame(d.inbox[k], e.inbox[k]) \/ Waived(d.inbox[k], e.inbox[k]) \/ GivenBack(d.inbox[k], e.inbox[k])
      BY <2>2 DEF Eases
    <3> QED
      BY <1>2, <3>1, <3>2 DEF RowRead, LooksSame, Waived, GivenBack
  <2> QED
    BY <2>1, <2>2
<1>7. IsLive(e, t, x) => IsLive(d, t, x) /\ x.run \in DOMAIN d.runs[t]
  <2> SUFFICES ASSUME IsLive(e, t, x) PROVE IsLive(d, t, x) /\ x.run \in DOMAIN d.runs[t]
    OBVIOUS
  <2>1. x.run \in DOMAIN d.runs[t]
    BY <1>2 DEF IsLive
  <2> QED
    BY <1>3, <2>1 DEF IsLive, RunEases, Terminal
<1>8. ASSUME NEW i \in DOMAIN d.runs[t], PromptUnread(d, t, i),
             e.runs[t][i].start = "pending" \/ (IsLive(e, t, x) /\ i = x.run)
      PROVE  PromptUnread(e, t, i)
  <2> SUFFICES ASSUME NEW k \in e.runs[t][i].rows
               PROVE  /\ OnItsWay(e.inbox[k])
                      /\ \/ e.inbox[k].by = StartOf(i)
                         \/ /\ e.inbox[k].status = "acknowledged"
                            /\ e.runs[t][i].item # 0 /\ e.inbox[k].by = ItemOf(e.runs[t][i].item)
    BY DEF PromptUnread
  <2>1. e.runs[t][i].rows = d.runs[t][i].rows /\ e.runs[t][i].item = d.runs[t][i].item
    BY <1>3 DEF RunEases
  <2>2. /\ k \in Rows(d, t) /\ OnItsWay(d.inbox[k])
        /\ \/ d.inbox[k].by = StartOf(i)
           \/ /\ d.inbox[k].status = "acknowledged"
              /\ d.runs[t][i].item # 0 /\ d.inbox[k].by = ItemOf(d.runs[t][i].item)
    BY <1>1, <1>8, <2>1 DEF PromptUnread
  <2>3. Due(e, t, items, x, d.inbox[k]) \/ d.inbox[k].status = "acknowledged"
    BY <1>2, <1>8, <2>2 DEF Due
  <2> QED
    BY <2>1, <2>2, <2>3, OnItsWayKept
<1>9. ASSUME NEW i \in DOMAIN e.runs[t] PROVE RunApart(e, t, i)
  <2>1. RunApart(d, t, i) /\ RunEases(d.runs[t][i], e.runs[t][i]) /\ i \in DOMAIN d.runs[t]
    BY <1>2, <1>3, <1>9 DEF Apart
  <2> DEFINE r == d.runs[t][i]
             s == e.runs[t][i]
  <2>2. s.source \in Plain => s.rows = {} /\ s.item = 0 /\ HeldBy(e, t, StartOf(i)) = {}
    BY <1>5, <2>1 DEF RunApart, RunStands, RunEases
  <2>3. s.source = "wake" => s.item = 0
    BY <2>1 DEF RunApart, RunStands, RunEases
  <2>4. s.start = "pending" => s.status = "queued" /\ PromptUnread(e, t, i)
    BY <1>8, <2>1 DEF RunApart, RunStands, RunEases
  <2>5. s.status = "queued" => r.status = "queued"
    BY <2>1 DEF RunEases, Terminal
  <2>6. s.status = "queued" => HeldBy(e, t, StartOf(i)) \subseteq s.rows
    BY <1>5, <2>1, <2>5 DEF RunApart, RunStands, RunEases
  <2>7. ASSUME s.item # 0
        PROVE  /\ s.item \in DOMAIN e.steers[t] /\ e.steers[t][s.item].status = "succeeded"
               /\ \A n \in DOMAIN e.runs[t] : e.runs[t][n].item = s.item => n = i
               /\ s.status = "queued" => HeldBy(e, t, StartOf(i)) = {} \/ HeldBy(e, t, ItemOf(s.item)) = {}
    <3>1. s.item = r.item /\ r.item # 0
      BY <2>1, <2>7 DEF RunEases
    <3>2. /\ r.item \in DOMAIN d.steers[t] /\ d.steers[t][r.item].status = "succeeded"
          /\ \A n \in DOMAIN d.runs[t] : d.runs[t][n].item = r.item => n = i
          /\ r.status = "queued" => HeldBy(d, t, StartOf(i)) = {} \/ HeldBy(d, t, ItemOf(r.item)) = {}
      BY <2>1, <3>1 DEF RunApart, RunStands
    <3>3. e.steers[t][r.item].status = "succeeded"
      BY <1>4, <3>2 DEF SteerEases
    <3>4. \A n \in DOMAIN e.runs[t] : e.runs[t][n].item = d.runs[t][n].item
      BY <1>2, <1>3 DEF RunEases
    <3>5. s.status = "queued" => HeldBy(e, t, StartOf(i)) = {} \/ HeldBy(e, t, ItemOf(r.item)) = {}
      BY <1>5, <2>5, <3>2
    <3> HIDE DEF r, s
    <3> QED
      BY <1>2, <3>1, <3>2, <3>3, <3>4, <3>5
  <2> QED
    BY <2>2, <2>3, <2>4, <2>6, <2>7 DEF RunApart, RunStands
<1>10. ASSUME NEW j \in DOMAIN e.steers[t] PROVE SteerApart(e, t, j)
  <2>1. j \in DOMAIN d.steers[t] /\ SteerApart(d, t, j) /\ SteerEases(d.steers[t][j], e.steers[t][j])
    BY <1>2, <1>4, <1>10 DEF Apart
  <2>2. d.steers[t][j].run \in DOMAIN d.runs[t]
    BY <2>1 DEF Typed, SteerLinked
  <2>3. e.runs[t][d.steers[t][j].run].status # "queued"
    BY <1>3, <2>1, <2>2 DEF SteerApart, RunEases, Terminal
  <2> QED
    BY <1>5, <2>1, <2>3 DEF SteerApart, SteerEases
<1>11. TurnApart(e, t, items, x)
  <2>1. TurnApart(d, t, items, x)
    BY DEF Apart
  <2>2. ASSUME NEW j \in x.unread \cup x.taken
        PROVE  /\ e.steers[t][j].status = "succeeded"
               /\ \A i \in DOMAIN e.runs[t] : e.runs[t][i].item # j
               /\ \A n \in DOMAIN items : items[n].steer # j
    <3>1. /\ d.steers[t][j].status = "succeeded" /\ j \in DOMAIN d.steers[t]
          /\ \A i \in DOMAIN d.runs[t] : d.runs[t][i].item # j
          /\ \A n \in DOMAIN items : items[n].steer # j
      BY <2>1, <2>2 DEF TurnApart
    <3>2. \A i \in DOMAIN e.runs[t] : e.runs[t][i].item = d.runs[t][i].item
      BY <1>2, <1>3 DEF RunEases
    <3> QED
      BY <1>2, <1>4, <3>1, <3>2 DEF SteerEases
  <2>3. ASSUME IsLive(e, t, x)
        PROVE  /\ e.runs[t][x.run].start = "running"
               /\ PromptUnread(e, t, x.run) /\ HeldBy(e, t, StartOf(x.run)) \subseteq e.runs[t][x.run].rows
               /\ \A j \in x.unread \cup x.taken : e.steers[t][j].run = x.run /\ SteerUnread(e, t, j)
               /\ \A j \in x.taken : \A k \in HeldBy(e, t, SteerOf(j)) : e.inbox[k].taken = j
               /\ \A j \in DOMAIN e.steers[t] \ x.taken :
                    e.steers[t][j].run = x.run => \A k \in HeldBy(e, t, SteerOf(j)) : e.inbox[k].taken # j
    <3>1. IsLive(d, t, x) /\ x.run \in DOMAIN d.runs[t]
      BY <1>7, <2>3
    <3>2. /\ d.runs[t][x.run].start = "running"
          /\ PromptUnread(d, t, x.run) /\ HeldBy(d, t, StartOf(x.run)) \subseteq d.runs[t][x.run].rows
          /\ \A j \in x.unread \cup x.taken : d.steers[t][j].run = x.run /\ SteerUnread(d, t, j)
          /\ \A j \in x.taken : \A k \in HeldBy(d, t, SteerOf(j)) : d.inbox[k].taken = j
          /\ \A j \in DOMAIN d.steers[t] \ x.taken :
               d.steers[t][j].run = x.run => \A k \in HeldBy(d, t, SteerOf(j)) : d.inbox[k].taken # j
      BY <2>1, <3>1 DEF TurnApart
    <3>3. e.runs[t][x.run].start = "running"
      BY <2>3, <3>2 DEF Eases
    <3>4. PromptUnread(e, t, x.run)
      BY <1>8, <2>3, <3>1, <3>2
    <3>5. HeldBy(e, t, StartOf(x.run)) \subseteq e.runs[t][x.run].rows
      BY <1>3, <1>5, <3>1, <3>2 DEF RunEases
    <3>6. ASSUME NEW j \in x.unread \cup x.taken PROVE e.steers[t][j].run = x.run /\ SteerUnread(e, t, j)
      <4>1. /\ j \in DOMAIN d.steers[t] /\ d.steers[t][j].run = x.run
            /\ e.steers[t][j].run = d.steers[t][j].run /\ e.steers[t][j].rows = d.steers[t][j].rows
        BY <1>4, <3>2, <3>6 DEF SteerEases
      <4>2. ASSUME NEW k \in d.steers[t][j].rows PROVE OnItsWay(e.inbox[k]) /\ e.inbox[k].by = SteerOf(j)
        <5>1. OnItsWay(d.inbox[k]) /\ d.inbox[k].by = SteerOf(j) /\ k \in Rows(d, t)
          BY <1>1, <3>2, <3>6, <4>1, <4>2 DEF SteerUnread
        <5>2. Due(e, t, items, x, d.inbox[k])
          BY <2>3, <3>6, <5>1 DEF Due
        <5> QED
          BY <5>1, <5>2, OnItsWayKept
      <4> QED
        BY <4>1, <4>2 DEF SteerUnread
    <3>7. \A carrier : \A k \in HeldBy(e, t, carrier) : e.inbox[k].taken = d.inbox[k].taken
      BY DEF Eases, HeldBy, LooksSame, Waived, GivenBack, NewNotice
    <3>8. \A j \in x.taken : \A k \in HeldBy(e, t, SteerOf(j)) : e.inbox[k].taken = j
      BY <1>5, <3>2, <3>7
    <3>9. ASSUME NEW j \in DOMAIN e.steers[t] \ x.taken, e.steers[t][j].run = x.run, NEW k \in HeldBy(e, t, SteerOf(j))
          PROVE  e.inbox[k].taken # j
      <4>1. j \in DOMAIN d.steers[t] /\ d.steers[t][j].run = x.run
        BY <1>2, <1>4, <3>9 DEF SteerEases
      <4> QED
        BY <1>5, <3>2, <3>7, <3>9, <4>1
    <3> QED
      BY <3>3, <3>4, <3>5, <3>6, <3>8, <3>9
  <2> QED
    BY <2>2, <2>3 DEF TurnApart
<1>12. ASSUME NEW n \in DOMAIN items PROVE ItemApart(e, t, items[n])
  <2>1. ItemApart(d, t, items[n]) /\ ItemLinked(d, t, items[n])
    BY <1>12 DEF Apart
  <2>2. CASE items[n].steer = 0
    BY <1>3, <2>1, <2>2 DEF ItemApart, ItemLinked, RunEases
  <2>3. CASE items[n].steer # 0
    <3>1. e.steers[t][items[n].steer].status = "succeeded"
      BY <1>4, <2>1, <2>3 DEF ItemApart, ItemLinked, SteerEases
    <3>2. ASSUME items[n].claimed, NEW i \in DOMAIN e.runs[t], e.runs[t][i].item = items[n].steer,
                 e.runs[t][i].status = "queued", e.runs[t][i].start \notin InFlight
          PROVE  ItemUnread(e, t, i)
      <4>1. /\ i \in DOMAIN d.runs[t] /\ d.runs[t][i].item = items[n].steer /\ d.runs[t][i].status = "queued"
            /\ e.runs[t][i].rows = d.runs[t][i].rows /\ e.runs[t][i].item = d.runs[t][i].item
        BY <1>2, <1>3, <3>2 DEF RunEases, Terminal
      <4>2. d.runs[t][i].start \notin InFlight
        BY <1>12, <3>2, <4>1 DEF Eases
      <4>3. ItemUnread(d, t, i)
        BY <2>1, <2>3, <3>2, <4>1, <4>2 DEF ItemApart
      <4>4. ASSUME NEW k \in d.runs[t][i].rows
            PROVE  OnItsWay(e.inbox[k]) /\ e.inbox[k].by = ItemOf(items[n].steer)
        <5>1. OnItsWay(d.inbox[k]) /\ d.inbox[k].by = ItemOf(items[n].steer) /\ k \in Rows(d, t)
          BY <1>1, <4>1, <4>3, <4>4 DEF ItemUnread
        <5>2. Due(e, t, items, x, d.inbox[k])
          BY <1>12, <3>2, <5>1 DEF Due
        <5> QED
          BY <5>1, <5>2, OnItsWayKept
      <4>5. HeldBy(e, t, ItemOf(items[n].steer)) \subseteq d.runs[t][i].rows
        BY <1>5, <4>1, <4>3 DEF ItemUnread
      <4> QED
        BY <4>1, <4>4, <4>5 DEF ItemUnread
    <3> QED
      BY <2>3, <3>1, <3>2 DEF ItemApart
  <2> QED
    BY <2>2, <2>3
<1> QED
  BY <1>6, <1>9, <1>10, <1>11, <1>12 DEF Apart

-----------------------------------------------------------------------------
(* What settles, gives back, or publishes.                                   *)

LEMMA RunEasesItself == \A run : RunEases(run, run)
BY DEF RunEases

LEMMA RewriteEases ==
  ASSUME NEW d, Typed(d), NEW e, NEW rows, RewriteOf(d, e, rows), NEW t \in Threads, NEW items, NEW x,
         \A k \in Rows(d, t) :
            \/ LooksSame(d.inbox[k], e.inbox[k])
            \/ Waived(d.inbox[k], e.inbox[k])
            \/ GivenBack(d.inbox[k], e.inbox[k]) /\ ~Due(d, t, items, x, d.inbox[k])
  PROVE  Eases(d, e, t, items, x)
<1>1. e.runs = d.runs /\ e.steers = d.steers /\ Rows(e, t) = Rows(d, t)
  BY DEF RewriteOf
<1>2. \A r : Due(e, t, items, x, r) <=> Due(d, t, items, x, r)
  BY <1>1 DEF Due, IsLive
<1>3. \A j \in DOMAIN d.steers[t] : SteerEases(d.steers[t][j], e.steers[t][j])
  BY <1>1 DEF SteerEases
<1>4. \A i \in DOMAIN d.runs[t] : RunEases(d.runs[t][i], e.runs[t][i])
  BY <1>1, RunEasesItself
<1> QED
  BY <1>1, <1>2, <1>3, <1>4 DEF Eases

LEMMA AllEase ==
  ASSUME NEW d, NEW e, Typed(d), Typed(e), NEW q, NEW tn, TurnsTyped(d, tn), QueuesTyped(d, q),
         \A t \in Threads : Eases(d, e, t, q[t], tn[t]), AllApart(d, q, tn)
  PROVE  AllApart(e, q, tn)
<1> SUFFICES ASSUME NEW t \in Threads PROVE Apart(e, t, q[t], tn[t])
  BY DEF AllApart
<1>1. tn[t].run \in 0 .. Len(d.runs[t]) /\ tn[t].unread \cup tn[t].taken \subseteq DOMAIN d.steers[t]
  BY DEF TurnsTyped, TurnLinked
<1>2. \A n \in DOMAIN q[t] : ItemLinked(d, t, q[t][n])
  BY DEF QueuesTyped
<1>3. Apart(d, t, q[t], tn[t]) /\ Eases(d, e, t, q[t], tn[t])
  BY DEF AllApart
<1> QED
  BY <1>1, <1>2, <1>3, EasesKeeps

LEMMA NewRowNew == \A to, task : NewNotice(NewRow(to, task))
BY DEF NewNotice, NewRow

\* A publication adds notices that nobody has.
LEMMA SettleEases ==
  ASSUME NEW d, Typed(d), NEW memory, NEW threads \in SUBSET Threads, NEW t \in Threads, NEW items, NEW x
  PROVE  Eases(d, Settle(d, memory, threads), t, items, x)
<1> DEFINE e == Settle(d, memory, threads)
<1>1. SettledFrom(d, e, Published(d, memory, threads))
  BY SettleFacts
<1> HIDE DEF e
<1>2. /\ e.runs = d.runs /\ e.steers = d.steers /\ DOMAIN d.inbox \subseteq DOMAIN e.inbox
      /\ \A k \in DOMAIN d.inbox : e.inbox[k] = d.inbox[k]
  BY <1>1 DEF SettledFrom
<1>3. ASSUME NEW k \in DOMAIN e.inbox \ DOMAIN d.inbox PROVE NewNotice(e.inbox[k])
  <2>1. PICK task \in Published(d, memory, threads) : e.inbox[k] = NewRow(Parent[d.tasks[task].child], task)
    BY <1>1, <1>3 DEF SettledFrom
  <2> QED
    BY <2>1, NewRowNew
<1>4. \A i \in DOMAIN d.runs[t] : RunEases(d.runs[t][i], e.runs[t][i])
  BY <1>2, RunEasesItself
<1>5. \A j \in DOMAIN d.steers[t] : SteerEases(d.steers[t][j], e.steers[t][j])
  BY <1>2 DEF SteerEases
<1>6. Rows(d, t) \subseteq Rows(e, t) /\ \A k \in Rows(e, t) \ Rows(d, t) : k \in DOMAIN e.inbox \ DOMAIN d.inbox
  BY <1>2 DEF Rows
<1>7. \A k \in Rows(e, t) \ Rows(d, t) : NewNotice(e.inbox[k])
  BY <1>3, <1>6
<1>8. \A k \in Rows(d, t) : LooksSame(d.inbox[k], e.inbox[k])
  BY <1>2 DEF Rows, LooksSame
<1> QED
  BY <1>2, <1>4, <1>5, <1>6, <1>7, <1>8 DEF Eases, e

LEMMA SettleApart ==
  ASSUME NEW d, Typed(d), NEW q, NEW tn, TurnsTyped(d, tn), QueuesTyped(d, q), AllApart(d, q, tn),
         NEW memory, NEW threads \in SUBSET Threads
  PROVE  LET e == Settle(d, memory, threads)
         IN Typed(e) /\ TurnsTyped(e, tn) /\ QueuesTyped(e, q) /\ AllApart(e, q, tn)
<1>1. Typed(Settle(d, memory, threads)) /\ Grows(d, Settle(d, memory, threads))
  BY SettleFacts, SettleGrows
<1>2. \A t \in Threads : Eases(d, Settle(d, memory, threads), t, q[t], tn[t])
  BY SettleEases
<1> HIDE DEF AllApart
<1> QED
  BY <1>1, <1>2, AllEase, TurnsGrow, QueuesGrow

LEMMA RewriteApart ==
  ASSUME NEW d, Typed(d), NEW q, NEW tn, TurnsTyped(d, tn), QueuesTyped(d, q), AllApart(d, q, tn),
         NEW e, NEW rows, RewriteOf(d, e, rows),
         \A k \in DOMAIN d.inbox :
            \/ LooksSame(d.inbox[k], e.inbox[k])
            \/ Waived(d.inbox[k], e.inbox[k])
            \/ /\ GivenBack(d.inbox[k], e.inbox[k])
               /\ ~Due(d, d.inbox[k].to, q[d.inbox[k].to], tn[d.inbox[k].to], d.inbox[k])
  PROVE  Typed(e) /\ TurnsTyped(e, tn) /\ QueuesTyped(e, q) /\ AllApart(e, q, tn)
<1>1. Typed(e) /\ Grows(d, e)
  BY RewriteGrows DEF RewriteOf
<1>2. ASSUME NEW t \in Threads PROVE Eases(d, e, t, q[t], tn[t])
  <2>1. \A k \in Rows(d, t) :
            \/ LooksSame(d.inbox[k], e.inbox[k])
            \/ Waived(d.inbox[k], e.inbox[k])
            \/ GivenBack(d.inbox[k], e.inbox[k]) /\ ~Due(d, t, q[t], tn[t], d.inbox[k])
    BY DEF Rows
  <2> QED
    BY <2>1, RewriteEases
<1> QED
  BY <1>1, <1>2, AllEase, TurnsGrow, QueuesGrow

LEMMA AcknowledgeRows ==
  ASSUME NEW d, Typed(d), NEW rows, NEW k \in DOMAIN d.inbox, NEW waived \in BOOLEAN
  PROVE  LET e == Acknowledge(d, rows, waived)
         IN IF k \in rows /\ d.inbox[k].status # "acknowledged"
            THEN e.inbox[k] = [d.inbox[k] EXCEPT !.status = "acknowledged", !.waived = waived]
            ELSE e.inbox[k] = d.inbox[k]
<1> DEFINE box == [n \in DOMAIN d.inbox |-> IF n \in rows /\ d.inbox[n].status # "acknowledged"
                     THEN [d.inbox[n] EXCEPT !.status = "acknowledged", !.waived = waived] ELSE d.inbox[n]]
<1>1. Acknowledge(d, rows, waived) = [d EXCEPT !.inbox = box]
  BY DEF Acknowledge
<1>2. [d EXCEPT !.inbox = box].inbox = box
  BY Parts DEF Typed
<1> QED
  BY <1>1, <1>2

\* What a Stop or task_status settles.
LEMMA WaiveApart ==
  ASSUME NEW d, Typed(d), NEW q, NEW tn, TurnsTyped(d, tn), QueuesTyped(d, q), AllApart(d, q, tn), NEW rows
  PROVE  LET e == Acknowledge(d, rows, TRUE)
         IN Typed(e) /\ TurnsTyped(e, tn) /\ QueuesTyped(e, q) /\ AllApart(e, q, tn)
<1> DEFINE e == Acknowledge(d, rows, TRUE)
<1>1. RewriteOf(d, e, rows)
  BY AcknowledgeRewrites
<1>2. ASSUME NEW k \in DOMAIN d.inbox PROVE LooksSame(d.inbox[k], e.inbox[k]) \/ Waived(d.inbox[k], e.inbox[k])
  <2>1. d.inbox[k] \in Row
    BY Parts DEF Typed
  <2>2. IF k \in rows /\ d.inbox[k].status # "acknowledged"
        THEN e.inbox[k] = [d.inbox[k] EXCEPT !.status = "acknowledged", !.waived = TRUE]
        ELSE e.inbox[k] = d.inbox[k]
    <3>1. TRUE \in BOOLEAN
      OBVIOUS
    <3> QED
      BY <3>1, AcknowledgeRows
  <2> HIDE DEF e
  <2> QED
    BY <2>1, <2>2 DEF LooksSame, Waived, Row
<1> HIDE DEF e
<1> QED
  BY <1>1, <1>2, RewriteApart DEF e

LEMMA PendingAgainApart ==
  ASSUME NEW d, Typed(d), NEW q, NEW tn, TurnsTyped(d, tn), QueuesTyped(d, q), AllApart(d, q, tn),
         NEW rows, NEW failed \in BOOLEAN,
         \A k \in rows \cap DOMAIN d.inbox :
            d.inbox[k].status = "delivered" =>
               ~Due(d, d.inbox[k].to, q[d.inbox[k].to], tn[d.inbox[k].to], d.inbox[k])
  PROVE  LET e == PendingAgain(d, rows, failed)
         IN Typed(e) /\ TurnsTyped(e, tn) /\ QueuesTyped(e, q) /\ AllApart(e, q, tn)
<1> DEFINE e == PendingAgain(d, rows, failed)
           back(row) == [row EXCEPT !.status = "pending", !.by = Nobody, !.tries = Counted(@),
                                    !.failures = IF failed THEN Counted(@) ELSE @]
           box == [k \in DOMAIN d.inbox |->
                     IF k \in rows /\ d.inbox[k].status = "delivered" THEN back(d.inbox[k]) ELSE d.inbox[k]]
<1>1. RewriteOf(d, e, rows)
  BY PendingAgainRewrites
<1>2. e = [d EXCEPT !.inbox = box]
  BY DEF PendingAgain
<1>3. e.inbox = box
  BY <1>2, Parts DEF Typed
<1>4. ASSUME NEW k \in DOMAIN d.inbox
      PROVE  \/ LooksSame(d.inbox[k], e.inbox[k])
             \/ /\ GivenBack(d.inbox[k], e.inbox[k])
                /\ ~Due(d, d.inbox[k].to, q[d.inbox[k].to], tn[d.inbox[k].to], d.inbox[k])
  <2>1. d.inbox[k] \in Row
    BY Parts DEF Typed
  <2>2. CASE k \in rows /\ d.inbox[k].status = "delivered"
    <3>1. e.inbox[k] = back(d.inbox[k])
      BY <1>3, <2>2
    <3>2. back(d.inbox[k]).status = "pending" /\ back(d.inbox[k]).reads = d.inbox[k].reads
          /\ back(d.inbox[k]).taken = d.inbox[k].taken
      BY <2>1 DEF Row
    <3> QED
      BY <2>2, <3>1, <3>2 DEF GivenBack
  <2>3. CASE ~(k \in rows /\ d.inbox[k].status = "delivered")
    BY <1>3, <2>3 DEF LooksSame
  <2> QED
    BY <2>2, <2>3
<1> HIDE DEF e
<1> QED
  BY <1>1, <1>4, RewriteApart DEF e

\* A delivery that failed is nobody's to show.
LEMMA FailedNotDue ==
  ASSUME NEW d, Typed(d), NEW q, NEW tn, TurnsTyped(d, tn), AllApart(d, q, tn), NEW k \in FailedRows(d)
  PROVE  ~Due(d, d.inbox[k].to, q[d.inbox[k].to], tn[d.inbox[k].to], d.inbox[k])
<1> DEFINE row == d.inbox[k]
           t == row.to
           x == tn[t]
<1>1. k \in DOMAIN d.inbox /\ DeliveryFailed(d, row) /\ ByEffect(row) /\ row \in Row /\ t \in Threads
  BY Parts DEF FailedRows, DeliveryFailed, Typed, Row
<1>2. /\ DOMAIN d.runs[t] = 1 .. Len(d.runs[t]) /\ Len(d.runs[t]) \in Nat
      /\ x.run \in 0 .. Len(d.runs[t]) /\ x.unread \cup x.taken \subseteq DOMAIN d.steers[t]
  BY <1>1, Parts DEF Typed, TurnsTyped, TurnLinked
<1>3. Apart(d, t, q[t], x)
  BY <1>1 DEF AllApart
<1> HIDE DEF row, t, x
<1>4. ASSUME NEW i \in DOMAIN d.runs[t], row.by = StartOf(i)
      PROVE  ~(d.runs[t][i].start = "pending" \/ (IsLive(d, t, x) /\ i = x.run))
  <2>1. CarrierRun(d, row) = d.runs[t][i] /\ row.by.kind = "start"
    BY <1>4 DEF StartOf, CarrierRun, t
  <2>2. d.runs[t][i].start = "cancelled" \/ d.runs[t][i].status \in Terminal
    BY <1>1, <2>1 DEF DeliveryFailed
  <2>3. d.runs[t][i].start = "pending" => d.runs[t][i].status = "queued"
    BY <1>3 DEF Apart, RunApart, RunStands
  <2>4. IsLive(d, t, x) => d.runs[t][x.run].start = "running" /\ d.runs[t][x.run].status = "active"
    BY <1>3 DEF Apart, TurnApart, IsLive
  <2> QED
    BY <2>2, <2>3, <2>4 DEF Terminal
<1>5. ASSUME IsLive(d, t, x), NEW j \in x.unread \cup x.taken PROVE row.by # SteerOf(j)
  <2> SUFFICES ASSUME row.by = SteerOf(j) PROVE FALSE
    OBVIOUS
  <2>1. /\ d.steers[t][j].status = "succeeded" /\ d.steers[t][j].run = x.run /\ d.runs[t][x.run].status = "active"
    BY <1>3, <1>5 DEF Apart, TurnApart, IsLive
  <2>2. row.by.kind = "steer" /\ row.by.n = j
    BY DEF SteerOf
  <2>3. CarrierRun(d, row).status = "active"
    BY <2>1, <2>2 DEF CarrierRun, t
  <2>4. d.steers[row.to][row.by.n].status = "succeeded"
    BY <2>1, <2>2 DEF t
  <2> QED
    BY <1>1, <2>2, <2>3, <2>4 DEF DeliveryFailed, Terminal
<1>6. \A j : row.by # ItemOf(j)
  BY <1>1 DEF ByEffect, ItemOf
<1> QED
  BY <1>4, <1>5, <1>6 DEF Due, t, x, row

-----------------------------------------------------------------------------
(* A step of one thread.                                                     *)

LEMMA UntouchedEases ==
  ASSUME NEW d, Typed(d), NEW e, NEW u \in Threads, Untouched(d, e, u), Rows(e, u) = Rows(d, u),
         NEW items, NEW x
  PROVE  Eases(d, e, u, items, x)
<1>1. e.runs[u] = d.runs[u] /\ e.steers[u] = d.steers[u] /\ \A k \in Rows(d, u) : e.inbox[k] = d.inbox[k]
  BY DEF Untouched
<1>2. \A i \in DOMAIN d.runs[u] : RunEases(d.runs[u][i], e.runs[u][i])
  BY <1>1, RunEasesItself
<1>3. \A j \in DOMAIN d.steers[u] : SteerEases(d.steers[u][j], e.steers[u][j])
  BY <1>1 DEF SteerEases
<1>4. \A k \in Rows(d, u) : LooksSame(d.inbox[k], e.inbox[k])
  BY <1>1 DEF LooksSame
<1>5. IsLive(e, u, x) => e.runs[u][x.run].start = d.runs[u][x.run].start
  BY <1>1
<1> QED
  BY <1>1, <1>2, <1>3, <1>4, <1>5 DEF Eases

LEMMA OneThread ==
  ASSUME NEW d, NEW e, Typed(d), Typed(e), NEW q, NEW tn, TurnsTyped(d, tn), QueuesTyped(d, q), AllApart(d, q, tn),
         NEW t \in Threads, Beside(d, e, t), \A u \in Threads \ {t} : Rows(e, u) = Rows(d, u),
         NEW q2, NEW tn2, \A u \in Threads \ {t} : q2[u] = q[u] /\ tn2[u] = tn[u],
         Apart(e, t, q2[t], tn2[t])
  PROVE  AllApart(e, q2, tn2)
<1> SUFFICES ASSUME NEW u \in Threads \ {t} PROVE Apart(e, u, q[u], tn[u])
  BY DEF AllApart
<1>1. Eases(d, e, u, q[u], tn[u])
  BY UntouchedEases DEF Beside
<1>2. tn[u].run \in 0 .. Len(d.runs[u]) /\ tn[u].unread \cup tn[u].taken \subseteq DOMAIN d.steers[u]
  BY DEF TurnsTyped, TurnLinked
<1>3. \A n \in DOMAIN q[u] : ItemLinked(d, u, q[u][n])
  BY DEF QueuesTyped
<1>4. Apart(d, u, q[u], tn[u])
  BY DEF AllApart
<1> QED
  BY <1>1, <1>2, <1>3, <1>4, EasesKeeps

\* The queue of a thread becomes another.
LEMMA ItemsApart ==
  ASSUME NEW d, NEW t, NEW items, NEW x, Apart(d, t, items, x), NEW items2,
         \A n \in DOMAIN items2 :
            \/ \E m \in DOMAIN items :
                  /\ items2[n].steer = items[m].steer /\ items2[n].run = items[m].run
                  /\ items2[n].claimed => items[m].claimed
            \/ ItemApart(d, t, items2[n]) /\ items2[n].steer \notin x.unread \cup x.taken
  PROVE  Apart(d, t, items2, x)
<1>1. ASSUME NEW n \in DOMAIN items2 PROVE ItemApart(d, t, items2[n])
  <2> SUFFICES ASSUME NEW m \in DOMAIN items,
                      items2[n].steer = items[m].steer /\ items2[n].run = items[m].run,
                      items2[n].claimed => items[m].claimed
               PROVE  ItemApart(d, t, items2[n])
    BY <1>1
  <2>1. ItemApart(d, t, items[m])
    BY DEF Apart
  <2> QED
    BY <2>1 DEF ItemApart
<1>2. ASSUME NEW j \in x.unread \cup x.taken, NEW n \in DOMAIN items2 PROVE items2[n].steer # j
  <2>1. \A m \in DOMAIN items : items[m].steer # j
    BY <1>2 DEF Apart, TurnApart
  <2> QED
    BY <1>2, <2>1
<1>3. TurnApart(d, t, items2, x)
  BY <1>2 DEF Apart, TurnApart
<1> QED
  BY <1>1, <1>3 DEF Apart

\* No turn, and one that differs in what the database does not tell.
LEMMA TurnOff ==
  ASSUME NEW d, NEW t, NEW items, NEW x, Apart(d, t, items, x), NEW x2, x2.run = 0,
         x2.unread \cup x2.taken = {}
  PROVE  Apart(d, t, items, x2)
<1>1. TurnApart(d, t, items, x2)
  BY DEF TurnApart, IsLive
<1> QED
  BY <1>1 DEF Apart

LEMMA SameTurn ==
  ASSUME NEW d, NEW t, NEW items, NEW x, Apart(d, t, items, x), NEW x2, x2.run = x.run,
         x2.unread = x.unread, x2.taken = x.taken
  PROVE  Apart(d, t, items, x2)
<1>1. TurnApart(d, t, items, x2)
  BY DEF Apart, TurnApart, IsLive
<1> QED
  BY <1>1 DEF Apart

\* A run that was started has the turn.
LEMMA TurnOn ==
  ASSUME NEW d, NEW t, NEW items, NEW x, Apart(d, t, items, x), NEW i, NEW x2, x2.run = i,
         x2.unread \cup x2.taken = {}, d.runs[t][i].start = "running", PromptUnread(d, t, i),
         HeldBy(d, t, StartOf(i)) \subseteq d.runs[t][i].rows, \A j \in DOMAIN d.steers[t] : d.steers[t][j].run # i
  PROVE  Apart(d, t, items, x2)
<1>1. TurnApart(d, t, items, x2)
  BY DEF TurnApart
<1> QED
  BY <1>1 DEF Apart
-----------------------------------------------------------------------------
(* One run of a thread becomes another, or is added.                         *)

LEMMA OneRunApart ==
  ASSUME NEW d, Typed(d), NEW e, NEW t \in Threads, NEW runs, RunsOf(d, e, t, runs), NEW items, NEW x,
         TurnLinked(d, t, x), \A n \in DOMAIN items : ItemLinked(d, t, items[n]), Apart(d, t, items, x),
         NEW i \in DOMAIN runs,
         \A n \in DOMAIN runs \ {i} : n \in DOMAIN d.runs[t] /\ runs[n] = d.runs[t][n],
         RunApart(e, t, i),
         ~(IsLive(e, t, x) /\ x.run = i),
         i \in DOMAIN d.runs[t] => /\ runs[i].source = d.runs[t][i].source /\ runs[i].item = d.runs[t][i].item
                                   /\ runs[i].status = "queued" => d.runs[t][i].status = "queued",
         i \notin DOMAIN d.runs[t] => runs[i].item = 0 \/ runs[i].item \notin x.unread \cup x.taken,
         \A n \in DOMAIN items :
            /\ items[n].steer # 0 /\ items[n].claimed /\ runs[i].item = items[n].steer
            /\ runs[i].status = "queued" /\ runs[i].start \notin InFlight
            => ItemUnread(e, t, i)
  PROVE  Apart(e, t, items, x)
<1>1. /\ e.runs[t] = runs /\ e.steers = d.steers /\ e.inbox = d.inbox /\ Rows(e, t) = Rows(d, t) /\ Typed(e)
      /\ DOMAIN d.runs[t] \subseteq DOMAIN runs
  BY DEF RunsOf, Grows
<1>2. \A carrier : HeldBy(e, t, carrier) = HeldBy(d, t, carrier)
  BY <1>1 DEF HeldBy
<1>3. \A k \in Rows(e, t) : RowRead(e, t, e.inbox[k])
  BY <1>1 DEF Apart, RowRead
<1>4. \A n \in DOMAIN runs \ {i} : runs[n] = d.runs[t][n] /\ (PromptUnread(e, t, n) <=> PromptUnread(d, t, n))
                                   /\ (ItemUnread(e, t, n) <=> ItemUnread(d, t, n))
  <2> SUFFICES ASSUME NEW n \in DOMAIN runs \ {i}
               PROVE  /\ runs[n] = d.runs[t][n] /\ (PromptUnread(e, t, n) <=> PromptUnread(d, t, n))
                      /\ (ItemUnread(e, t, n) <=> ItemUnread(d, t, n))
    OBVIOUS
  <2>1. e.runs[t][n] = d.runs[t][n]
    BY <1>1
  <2> QED
    BY <1>1, <1>2, <2>1 DEF PromptUnread, ItemUnread
<1>5. ASSUME NEW n \in DOMAIN e.runs[t] PROVE RunApart(e, t, n)
  <2>1. CASE n = i
    BY <2>1
  <2>2. CASE n # i
    <3>1. n \in DOMAIN d.runs[t] /\ e.runs[t][n] = d.runs[t][n] /\ RunApart(d, t, n)
      BY <1>1, <1>5, <2>2 DEF Apart
    <3>2. PromptUnread(e, t, n) <=> PromptUnread(d, t, n)
      BY <1>1, <1>4, <1>5, <2>2
    <3>3. ASSUME e.runs[t][n].item # 0, NEW m \in DOMAIN e.runs[t], e.runs[t][m].item = e.runs[t][n].item
          PROVE  m = n
      <4>1. CASE m = i
        <5>1. runs[i].item # 0 /\ runs[i].item = runs[n].item
          BY <1>1, <3>3, <4>1
        <5> QED
          BY <1>1, <1>5, <3>3, <4>1, <5>1 DEF RunApart, RunStands
      <4>2. CASE m # i
        <5>1. m \in DOMAIN d.runs[t] /\ d.runs[t][m].item = d.runs[t][n].item /\ d.runs[t][n].item # 0
          BY <1>1, <1>4, <3>1, <3>3, <4>2
        <5> QED
          BY <3>1, <5>1 DEF RunApart, RunStands
      <4> QED
        BY <4>1, <4>2
    <3>4. /\ e.steers = d.steers
          /\ HeldBy(e, t, StartOf(n)) \subseteq HeldBy(d, t, StartOf(n))
          /\ HeldBy(e, t, ItemOf(d.runs[t][n].item)) \subseteq HeldBy(d, t, ItemOf(d.runs[t][n].item))
      BY <1>1, <1>2
    <3>5. d.runs[t][n].item # 0 => \A m \in DOMAIN e.runs[t] : e.runs[t][m].item = d.runs[t][n].item => m = n
      BY <3>1, <3>3
    <3> QED
      BY <3>1, <3>2, <3>4, <3>5, RunApartKept
  <2> QED
    BY <2>1, <2>2
<1>6. ASSUME NEW j \in DOMAIN e.steers[t] PROVE SteerApart(e, t, j)
  <2>1. SteerApart(d, t, j) /\ d.steers[t][j].run \in DOMAIN d.runs[t]
    BY <1>1, <1>6 DEF Apart, Typed, SteerLinked
  <2>2. e.runs[t][d.steers[t][j].run].status # "queued"
    BY <1>1, <1>4, <2>1 DEF SteerApart
  <2> QED
    BY <1>1, <1>2, <2>1, <2>2 DEF SteerApart
<1>7. TurnApart(e, t, items, x)
  <2>1. TurnApart(d, t, items, x)
    BY DEF Apart
  <2>2. ASSUME NEW j \in x.unread \cup x.taken, NEW n \in DOMAIN e.runs[t] PROVE e.runs[t][n].item # j
    <3>1. j \in DOMAIN d.steers[t] /\ j # 0
      BY Parts DEF TurnLinked, Typed
    <3>2. \A m \in DOMAIN d.runs[t] : d.runs[t][m].item # j
      BY <2>1, <2>2 DEF TurnApart
    <3> QED
      BY <1>1, <1>4, <2>2, <3>1, <3>2
  <2>3. ASSUME IsLive(e, t, x)
        PROVE  /\ x.run \in DOMAIN runs \ {i} /\ IsLive(d, t, x) /\ e.runs[t][x.run] = d.runs[t][x.run]
               /\ PromptUnread(e, t, x.run) <=> PromptUnread(d, t, x.run)
    <3>1. x.run \in DOMAIN d.runs[t]
      BY <2>3, Parts DEF IsLive, TurnLinked, Typed
    <3>2. x.run \in DOMAIN runs \ {i}
      BY <1>1, <2>3, <3>1
    <3> QED
      BY <1>1, <1>4, <2>3, <3>2 DEF IsLive
  <2>4. \A j \in x.unread \cup x.taken : SteerUnread(e, t, j) <=> SteerUnread(d, t, j)
    BY <1>1 DEF SteerUnread
  <2> QED
    BY <1>1, <1>2, <2>1, <2>2, <2>3, <2>4 DEF TurnApart
<1>8. ASSUME NEW n \in DOMAIN items PROVE ItemApart(e, t, items[n])
  <2>1. ItemApart(d, t, items[n]) /\ ItemLinked(d, t, items[n])
    BY <1>8 DEF Apart
  <2>2. CASE items[n].steer = 0
    <3>1. items[n].run \in DOMAIN d.runs[t] /\ d.runs[t][items[n].run].source \in Plain
      BY <2>1, <2>2 DEF ItemApart, ItemLinked
    <3>2. e.runs[t][items[n].run].source = d.runs[t][items[n].run].source
      BY <1>1, <1>4, <3>1
    <3> QED
      BY <2>2, <3>1, <3>2 DEF ItemApart
  <2>3. CASE items[n].steer # 0
    <3>1. ASSUME items[n].claimed, NEW m \in DOMAIN e.runs[t], e.runs[t][m].item = items[n].steer,
                 e.runs[t][m].status = "queued", e.runs[t][m].start \notin InFlight
          PROVE  ItemUnread(e, t, m)
      <4>1. CASE m = i
        BY <1>1, <1>8, <2>3, <3>1, <4>1
      <4>2. CASE m # i
        <5>1. m \in DOMAIN d.runs[t] /\ e.runs[t][m] = d.runs[t][m]
          BY <1>1, <3>1, <4>2
        <5> QED
          BY <1>1, <1>4, <2>1, <2>3, <3>1, <4>2, <5>1 DEF ItemApart
      <4> QED
        BY <4>1, <4>2
    <3> QED
      BY <1>1, <2>1, <2>3, <3>1 DEF ItemApart
  <2> QED
    BY <2>2, <2>3
<1> QED
  BY <1>1, <1>3, <1>5, <1>6, <1>7, <1>8 DEF Apart
LEMMA NothingForNew ==
  ASSUME NEW d, Typed(d), NEW t \in Threads
  PROVE  /\ \A i : i \notin DOMAIN d.runs[t] => HeldBy(d, t, StartOf(i)) = {}
         /\ \A j : j \notin DOMAIN d.steers[t] => HeldBy(d, t, SteerOf(j)) = {} /\ HeldBy(d, t, ItemOf(j)) = {}
<1>1. \A k \in Rows(d, t) : RowLinked(d, d.inbox[k]) /\ d.inbox[k].to = t
  BY DEF Typed, Rows
<1> QED
  BY <1>1 DEF HeldBy, RowLinked, StartOf, SteerOf, ItemOf

\* A send, a task or a follow-up has no notices.
LEMMA PlainAdded ==
  ASSUME NEW d, Typed(d), NEW e, NEW t \in Threads, NEW runs, RunsOf(d, e, t, runs), NEW items, NEW x,
         TurnLinked(d, t, x), \A n \in DOMAIN items : ItemLinked(d, t, items[n]), Apart(d, t, items, x),
         NEW i, i \notin DOMAIN d.runs[t], DOMAIN runs = DOMAIN d.runs[t] \cup {i},
         \A n \in DOMAIN d.runs[t] : runs[n] = d.runs[t][n],
         runs[i].source \in Plain, runs[i].rows = {}, runs[i].item = 0,
         runs[i].start = "pending" => runs[i].status = "queued"
  PROVE  Apart(e, t, items, x)
<1>1. e.runs[t] = runs /\ e.inbox = d.inbox /\ Rows(e, t) = Rows(d, t)
  BY DEF RunsOf
<1>2. HeldBy(e, t, StartOf(i)) = {}
  BY <1>1, NothingForNew DEF HeldBy
<1>3. RunApart(e, t, i)
  BY <1>1, <1>2 DEF RunApart, RunStands, PromptUnread, Plain
<1>4. ~(IsLive(e, t, x) /\ x.run = i)
  BY Parts DEF IsLive, TurnLinked, Typed
<1>5. \A n \in DOMAIN runs \ {i} : n \in DOMAIN d.runs[t] /\ runs[n] = d.runs[t][n]
  OBVIOUS
<1> QED
  BY <1>3, <1>4, <1>5, OneRunApart

-----------------------------------------------------------------------------
(* Notices that change their carrier.                                        *)

\* A row that goes from one carrier to another.
Carried(r, s) ==
    /\ r.status = "delivered" /\ s.status = "delivered"
    /\ s.reads = r.reads /\ s.waived = r.waived /\ s.taken = r.taken

\* From steers that no run and no turn has to their queue items.
HandedToItems(d, e, t, x, S, own) ==
    /\ own \subseteq Rows(d, t) /\ RewriteOf(d, e, own)
    /\ \A k \in own : /\ Carried(d.inbox[k], e.inbox[k])
                     /\ \E j \in S : d.inbox[k].by = SteerOf(j) /\ e.inbox[k].by = ItemOf(j)
    /\ \A j \in S : /\ d.steers[t][j].status = "succeeded" /\ j \notin x.unread \cup x.taken
                   /\ \A i \in DOMAIN d.runs[t] : d.runs[t][i].item # j

LEMMA MovedToItems ==
  ASSUME NEW d, Typed(d), NEW e, NEW t \in Threads, NEW items, NEW x, TurnLinked(d, t, x), Apart(d, t, items, x),
         NEW S, NEW own, HandedToItems(d, e, t, x, S, own)
  PROVE  Apart(e, t, items, x)
<1>0. /\ own \subseteq Rows(d, t) /\ RewriteOf(d, e, own)
      /\ \A k \in own : /\ Carried(d.inbox[k], e.inbox[k])
                       /\ \E j \in S : d.inbox[k].by = SteerOf(j) /\ e.inbox[k].by = ItemOf(j)
      /\ \A j \in S : /\ d.steers[t][j].status = "succeeded" /\ j \notin x.unread \cup x.taken
                     /\ \A i \in DOMAIN d.runs[t] : d.runs[t][i].item # j
  BY DEF HandedToItems
<1> USE <1>0
<1>1. /\ e.runs = d.runs /\ e.steers = d.steers /\ Rows(e, t) = Rows(d, t)
      /\ \A k \in Rows(d, t) \ own : e.inbox[k] = d.inbox[k]
  BY DEF RewriteOf, Rows
<1>2. \A i, j : StartOf(i) # SteerOf(j) /\ StartOf(i) # ItemOf(j) /\ SteerOf(i) # ItemOf(j)
  BY DEF StartOf, SteerOf, ItemOf
<1>3. \A i, j : (SteerOf(i) = SteerOf(j) => i = j) /\ (ItemOf(i) = ItemOf(j) => i = j)
  BY DEF SteerOf, ItemOf
<1>4. \A i : HeldBy(e, t, StartOf(i)) = HeldBy(d, t, StartOf(i))
  BY <1>1, <1>2 DEF HeldBy
<1>5. \A j : HeldBy(e, t, SteerOf(j)) \subseteq HeldBy(d, t, SteerOf(j))
  BY <1>1, <1>2 DEF HeldBy
<1>6. \A j : j \notin S => HeldBy(e, t, ItemOf(j)) \subseteq HeldBy(d, t, ItemOf(j))
  BY <1>1, <1>2, <1>3 DEF HeldBy
<1>7. \A j : HeldBy(e, t, ItemOf(j)) \subseteq HeldBy(d, t, ItemOf(j)) \cup HeldBy(d, t, SteerOf(j))
  BY <1>1, <1>2, <1>3 DEF HeldBy, Carried
<1>8. ASSUME NEW k \in Rows(d, t), NEW i, NEW j, j \notin S \/ d.inbox[k].status = "acknowledged",
             d.inbox[k].by \in {StartOf(i), SteerOf(j)}
      PROVE  e.inbox[k] = d.inbox[k]
  BY <1>1, <1>2, <1>3, <1>8 DEF Carried
<1>9. ASSUME NEW k \in Rows(d, t), NEW j, d.inbox[k].by = ItemOf(j) \/ d.inbox[k].status = "acknowledged"
      PROVE  e.inbox[k] = d.inbox[k]
  BY <1>1, <1>2, <1>9 DEF Carried
<1>10. ASSUME NEW k \in Rows(e, t) PROVE RowRead(e, t, e.inbox[k])
  <2>1. RowRead(d, t, d.inbox[k])
    BY <1>1, <1>10 DEF Apart
  <2>2. CASE k \in own
    BY <1>1, <2>1, <2>2 DEF RowRead, Carried
  <2>3. CASE k \notin own
    BY <1>1, <1>10, <2>1, <2>3 DEF RowRead
  <2> QED
    BY <2>2, <2>3
<1>11. ASSUME NEW i \in DOMAIN d.runs[t], PromptUnread(d, t, i) PROVE PromptUnread(e, t, i)
  <2> SUFFICES ASSUME NEW k \in d.runs[t][i].rows PROVE e.inbox[k] = d.inbox[k]
    BY <1>1, <1>11 DEF PromptUnread
  <2>1. k \in Rows(d, t) /\ (d.inbox[k].by = StartOf(i) \/ d.inbox[k].status = "acknowledged")
    BY <1>11 DEF PromptUnread, Typed, RunLinked
  <2> QED
    BY <1>1, <1>2, <2>1 DEF Carried
<1>12. ASSUME NEW i \in DOMAIN e.runs[t] PROVE RunApart(e, t, i)
  <2>1. RunApart(d, t, i) /\ i \in DOMAIN d.runs[t]
    BY <1>1, <1>12 DEF Apart
  <2>2. d.runs[t][i].item \notin S
    BY <2>1
  <2> QED
    BY <1>1, <1>4, <1>6, <1>11, <2>1, <2>2 DEF RunApart, RunStands
<1>13. ASSUME NEW j \in DOMAIN e.steers[t] PROVE SteerApart(e, t, j)
  <2>1. SteerApart(d, t, j) /\ j \in DOMAIN d.steers[t]
    BY <1>1, <1>13 DEF Apart
  <2>2. d.steers[t][j].status # "succeeded" => j \notin S
    BY <2>1
  <2> QED
    BY <1>1, <1>5, <1>6, <1>7, <2>1, <2>2 DEF SteerApart
<1>14. TurnApart(e, t, items, x)
  <2>1. TurnApart(d, t, items, x)
    BY DEF Apart
  <2>2. IsLive(e, t, x) => IsLive(d, t, x) /\ x.run \in DOMAIN d.runs[t]
    BY <1>1, Parts DEF IsLive, TurnLinked, Typed
  <2>3. ASSUME NEW j \in x.unread \cup x.taken, SteerUnread(d, t, j) PROVE SteerUnread(e, t, j)
    <3> SUFFICES ASSUME NEW k \in d.steers[t][j].rows PROVE e.inbox[k] = d.inbox[k]
      BY <1>1, <2>3 DEF SteerUnread
    <3>1. k \in Rows(d, t) /\ d.inbox[k].by = SteerOf(j) /\ j \notin S
      BY <2>3 DEF SteerUnread, Typed, SteerLinked, TurnLinked
    <3> QED
      BY <1>1, <1>3, <3>1
  <2>4. \A j : \A k \in HeldBy(e, t, SteerOf(j)) : e.inbox[k].taken = d.inbox[k].taken
    BY <1>1, <1>2 DEF HeldBy
  <2> QED
    BY <1>1, <1>4, <1>5, <1>11, <2>1, <2>2, <2>3, <2>4 DEF TurnApart
<1>15. ASSUME NEW n \in DOMAIN items PROVE ItemApart(e, t, items[n])
  <2>1. ItemApart(d, t, items[n])
    BY <1>15 DEF Apart
  <2>2. ASSUME NEW i \in DOMAIN d.runs[t], ItemUnread(d, t, i) PROVE ItemUnread(e, t, i)
    <3>1. \A k \in d.runs[t][i].rows : e.inbox[k] = d.inbox[k]
      BY <1>9, <2>2 DEF ItemUnread, Typed, RunLinked
    <3>2. HeldBy(e, t, ItemOf(d.runs[t][i].item)) \subseteq HeldBy(d, t, ItemOf(d.runs[t][i].item))
      BY <1>6
    <3> QED
      BY <1>1, <2>2, <3>1, <3>2 DEF ItemUnread
  <2> QED
    BY <1>1, <2>1, <2>2 DEF ItemApart
<1> QED
  BY <1>10, <1>12, <1>13, <1>14, <1>15 DEF Apart
\* From a queue item to the turn.start of its run, before that one is recorded.
LEMMA MovedToStart ==
  ASSUME NEW d, Typed(d), NEW e, NEW t \in Threads, NEW items, NEW x, TurnLinked(d, t, x), Apart(d, t, items, x),
         NEW i \in DOMAIN d.runs[t], d.runs[t][i].item # 0, d.runs[t][i].start \notin InFlight,
         \A n \in DOMAIN items : items[n].steer = d.runs[t][i].item => ~items[n].claimed,
         NEW own \in SUBSET d.runs[t][i].rows, RewriteOf(d, e, own),
         \A k \in own : /\ Carried(d.inbox[k], e.inbox[k])
                        /\ d.inbox[k].by = ItemOf(d.runs[t][i].item) /\ e.inbox[k].by = StartOf(i),
         d.runs[t][i].status = "queued" => HeldBy(d, t, ItemOf(d.runs[t][i].item)) \subseteq own
  PROVE  Apart(e, t, items, x)
<1> DEFINE j == d.runs[t][i].item
<1>1. /\ e.runs = d.runs /\ e.steers = d.steers /\ Rows(e, t) = Rows(d, t) /\ own \subseteq Rows(d, t)
      /\ \A k \in Rows(d, t) \ own : e.inbox[k] = d.inbox[k]
  BY DEF RewriteOf, Rows, Typed, RunLinked
<1>2. \A m, n : StartOf(m) # SteerOf(n) /\ StartOf(m) # ItemOf(n) /\ SteerOf(m) # ItemOf(n)
  BY DEF StartOf, SteerOf, ItemOf
<1>3. \A m, n : (StartOf(m) = StartOf(n) => m = n) /\ (ItemOf(m) = ItemOf(n) => m = n)
  BY DEF StartOf, ItemOf
<1>4. \A n : n # i => HeldBy(e, t, StartOf(n)) \subseteq HeldBy(d, t, StartOf(n))
  BY <1>1, <1>3 DEF HeldBy
<1>5. HeldBy(e, t, StartOf(i)) \subseteq HeldBy(d, t, StartOf(i)) \cup own
  BY <1>1 DEF HeldBy
<1>6. \A n : HeldBy(e, t, SteerOf(n)) \subseteq HeldBy(d, t, SteerOf(n))
  BY <1>1, <1>2 DEF HeldBy
<1>7. \A n : HeldBy(e, t, ItemOf(n)) \subseteq HeldBy(d, t, ItemOf(n)) \ own
  BY <1>1, <1>2 DEF HeldBy
<1>8. ASSUME NEW k \in Rows(d, t),
             \/ \E n : d.inbox[k].by \in {StartOf(n), SteerOf(n)} \/ (d.inbox[k].by = ItemOf(n) /\ n # j)
             \/ d.inbox[k].status = "acknowledged"
      PROVE  e.inbox[k] = d.inbox[k]
  <2> SUFFICES k \notin own
    BY <1>1
  <2> SUFFICES ASSUME k \in own PROVE FALSE
    OBVIOUS
  <2>1. d.inbox[k].status = "delivered" /\ d.inbox[k].by = ItemOf(j)
    BY DEF Carried
  <2> HIDE DEF j
  <2> QED
    BY <1>2, <1>3, <1>8, <2>1
<1>9. i \in DOMAIN d.runs[t] /\ RunApart(d, t, i) /\ \A n \in DOMAIN d.runs[t] : d.runs[t][n].item = j => n = i
  BY DEF Apart, RunApart, RunStands
<1>10. ASSUME NEW k \in Rows(e, t) PROVE RowRead(e, t, e.inbox[k])
  <2>1. RowRead(d, t, d.inbox[k])
    BY <1>1, <1>10 DEF Apart
  <2>2. CASE k \in own
    BY <1>1, <2>1, <2>2 DEF RowRead, Carried
  <2>3. CASE k \notin own
    BY <1>1, <1>10, <2>1, <2>3 DEF RowRead
  <2> QED
    BY <2>2, <2>3
<1>11. ASSUME NEW n \in DOMAIN d.runs[t], PromptUnread(d, t, n) PROVE PromptUnread(e, t, n)
  <2> SUFFICES ASSUME NEW k \in d.runs[t][n].rows PROVE e.inbox[k] = d.inbox[k]
    BY <1>1, <1>11 DEF PromptUnread
  <2>1. k \in Rows(d, t) /\ (d.inbox[k].by = StartOf(n) \/ d.inbox[k].status = "acknowledged")
    BY <1>11 DEF PromptUnread, Typed, RunLinked
  <2> QED
    BY <1>8, <2>1
<1>12. ASSUME NEW n \in DOMAIN e.runs[t] PROVE RunApart(e, t, n)
  <2>1. RunApart(d, t, n) /\ n \in DOMAIN d.runs[t]
    BY <1>1, <1>12 DEF Apart
  <2>2. CASE n # i
    BY <1>1, <1>4, <1>7, <1>11, <2>1, <2>2 DEF RunApart, RunStands
  <2>3. CASE n = i
    <3>1. d.runs[t][i].start # "pending" /\ d.runs[t][i].source \notin Plain
      BY <1>9 DEF InFlight, RunApart, RunStands
    <3>2. d.runs[t][i].status = "queued" => HeldBy(e, t, ItemOf(j)) = {}
      BY <1>7
    <3> QED
      BY <1>1, <1>5, <2>1, <2>3, <3>1, <3>2 DEF RunApart, RunStands
  <2> QED
    BY <2>2, <2>3
<1>13. ASSUME NEW n \in DOMAIN e.steers[t] PROVE SteerApart(e, t, n)
  <2>1. SteerApart(d, t, n) /\ n \in DOMAIN d.steers[t]
    BY <1>1, <1>13 DEF Apart
  <2> QED
    BY <1>1, <1>6, <1>7, <2>1 DEF SteerApart
<1>14. TurnApart(e, t, items, x)
  <2>1. TurnApart(d, t, items, x)
    BY DEF Apart
  <2>2. IsLive(e, t, x) => IsLive(d, t, x) /\ x.run \in DOMAIN d.runs[t] /\ x.run # i
    <3>1. IsLive(e, t, x) => IsLive(d, t, x) /\ x.run \in DOMAIN d.runs[t]
      BY <1>1, Parts DEF IsLive, TurnLinked, Typed
    <3> QED
      BY <2>1, <3>1 DEF TurnApart, InFlight
  <2>3. ASSUME NEW n \in x.unread \cup x.taken, SteerUnread(d, t, n) PROVE SteerUnread(e, t, n)
    <3> SUFFICES ASSUME NEW k \in d.steers[t][n].rows PROVE e.inbox[k] = d.inbox[k]
      BY <1>1, <2>3 DEF SteerUnread
    <3>1. k \in Rows(d, t) /\ d.inbox[k].by = SteerOf(n)
      BY <2>3 DEF SteerUnread, Typed, SteerLinked, TurnLinked
    <3> QED
      BY <1>8, <3>1
  <2>4. \A n : \A k \in HeldBy(e, t, SteerOf(n)) : e.inbox[k].taken = d.inbox[k].taken
    BY <1>1, <1>2 DEF HeldBy
  <2> QED
    BY <1>1, <1>4, <1>6, <1>11, <2>1, <2>2, <2>3, <2>4 DEF TurnApart
<1>15. ASSUME NEW n \in DOMAIN items PROVE ItemApart(e, t, items[n])
  <2>1. ItemApart(d, t, items[n])
    BY <1>15 DEF Apart
  <2>2. ASSUME items[n].steer # j, NEW m \in DOMAIN d.runs[t], d.runs[t][m].item = items[n].steer, ItemUnread(d, t, m)
        PROVE  ItemUnread(e, t, m)
    <3>1. \A k \in d.runs[t][m].rows : k \in Rows(d, t) /\ d.inbox[k].by = ItemOf(d.runs[t][m].item)
      BY <2>2 DEF ItemUnread, Typed, RunLinked
    <3>2. \A k \in d.runs[t][m].rows : e.inbox[k] = d.inbox[k]
      BY <1>8, <2>2, <3>1
    <3>3. HeldBy(e, t, ItemOf(d.runs[t][m].item)) \subseteq HeldBy(d, t, ItemOf(d.runs[t][m].item))
      BY <1>7
    <3> QED
      BY <1>1, <2>2, <3>2, <3>3 DEF ItemUnread
  <2> QED
    BY <1>1, <1>15, <2>1, <2>2 DEF ItemApart
<1> QED
  BY <1>10, <1>12, <1>13, <1>14, <1>15 DEF Apart

\* What the provider takes and gives back: a turn goes on with the steers of S taken, or no longer taken.
MarkedAs(d, e, t, x, x2, S, own) ==
    /\ S \subseteq x.unread \cup x.taken /\ own \subseteq Rows(d, t)
    /\ x2.run = x.run /\ x2.unread \cup x2.taken = x.unread \cup x.taken
    /\ x2.taken = x.taken \cup S \/ x2.taken = x.taken \ S
    /\ RewriteOf(d, e, own)
    /\ \A k \in own :
         /\ e.inbox[k].status = d.inbox[k].status /\ e.inbox[k].by = d.inbox[k].by
         /\ e.inbox[k].reads = d.inbox[k].reads /\ e.inbox[k].waived = d.inbox[k].waived
         /\ \E j \in S : d.inbox[k].by = SteerOf(j) /\ e.inbox[k].taken = IF j \in x2.taken THEN j ELSE 0
    /\ \A j \in S : HeldBy(d, t, SteerOf(j)) \subseteq own

LEMMA TakenMarked ==
  ASSUME NEW d, Typed(d), NEW e, NEW t \in Threads, NEW items, NEW x, TurnLinked(d, t, x), Apart(d, t, items, x),
         NEW S, NEW own, NEW x2, MarkedAs(d, e, t, x, x2, S, own)
  PROVE  Apart(e, t, items, x2)
<1>0. /\ S \subseteq x.unread \cup x.taken /\ own \subseteq Rows(d, t)
      /\ x2.run = x.run /\ x2.unread \cup x2.taken = x.unread \cup x.taken
      /\ x2.taken = x.taken \cup S \/ x2.taken = x.taken \ S
      /\ RewriteOf(d, e, own)
      /\ \A k \in own :
           /\ e.inbox[k].status = d.inbox[k].status /\ e.inbox[k].by = d.inbox[k].by
           /\ e.inbox[k].reads = d.inbox[k].reads /\ e.inbox[k].waived = d.inbox[k].waived
           /\ \E j \in S : d.inbox[k].by = SteerOf(j) /\ e.inbox[k].taken = IF j \in x2.taken THEN j ELSE 0
      /\ \A j \in S : HeldBy(d, t, SteerOf(j)) \subseteq own
  BY DEF MarkedAs
<1> USE <1>0
<1>1. /\ e.runs = d.runs /\ e.steers = d.steers /\ Rows(e, t) = Rows(d, t)
      /\ \A k \in Rows(d, t) \ own : e.inbox[k] = d.inbox[k]
  BY DEF RewriteOf, Rows
<1>2. /\ S \subseteq DOMAIN d.steers[t] /\ DOMAIN d.steers[t] = 1 .. Len(d.steers[t]) /\ Len(d.steers[t]) \in Nat
      /\ \A i, j : SteerOf(i) = SteerOf(j) => i = j
      /\ \A j : SteerOf(j).n = j
  BY Parts DEF TurnLinked, Typed, SteerOf
<1>3. \A k \in Rows(d, t) :
        /\ e.inbox[k].status = d.inbox[k].status /\ e.inbox[k].by = d.inbox[k].by
        /\ e.inbox[k].reads = d.inbox[k].reads /\ e.inbox[k].waived = d.inbox[k].waived
  BY <1>1
<1>4. \A carrier : HeldBy(e, t, carrier) = HeldBy(d, t, carrier)
  BY <1>1, <1>3 DEF HeldBy
<1>5. ASSUME NEW j \in S, NEW k \in HeldBy(d, t, SteerOf(j)) PROVE e.inbox[k].taken = IF j \in x2.taken THEN j ELSE 0
  BY <1>2, <1>5 DEF HeldBy
<1>6. ASSUME NEW j, j \notin S, NEW k \in HeldBy(d, t, SteerOf(j)) PROVE e.inbox[k].taken = d.inbox[k].taken
  BY <1>1, <1>2, <1>6 DEF HeldBy
<1>7. ASSUME NEW k \in Rows(e, t) PROVE RowRead(e, t, e.inbox[k])
  <2>1. RowRead(d, t, d.inbox[k])
    BY <1>1, <1>7 DEF Apart
  <2>2. e.inbox[k].taken \in 0 .. Len(d.steers[t])
    <3>1. CASE k \in own
      <4>1. PICK j \in S : e.inbox[k].taken = IF j \in x2.taken THEN j ELSE 0
        BY <3>1
      <4>2. e.inbox[k].taken \in {0, j}
        BY <4>1
      <4> QED
        BY <1>2, <3>1, <4>2
    <3>2. CASE k \notin own
      BY <1>1, <1>7, <2>1, <3>2 DEF RowRead
    <3> QED
      BY <3>1, <3>2
  <2> QED
    BY <1>1, <1>3, <1>7, <2>1, <2>2 DEF RowRead
<1>8. \A i \in DOMAIN d.runs[t] : /\ PromptUnread(e, t, i) <=> PromptUnread(d, t, i)
                                  /\ ItemUnread(e, t, i) <=> ItemUnread(d, t, i)
  <2> SUFFICES ASSUME NEW i \in DOMAIN d.runs[t]
               PROVE  (PromptUnread(e, t, i) <=> PromptUnread(d, t, i)) /\ (ItemUnread(e, t, i) <=> ItemUnread(d, t, i))
    OBVIOUS
  <2>1. d.runs[t][i].rows \subseteq Rows(d, t)
    BY DEF Typed, RunLinked
  <2> QED
    BY <1>1, <1>3, <1>4, <2>1 DEF PromptUnread, ItemUnread, OnItsWay
<1>9. \A j \in x.unread \cup x.taken : SteerUnread(e, t, j) <=> SteerUnread(d, t, j)
  <2> SUFFICES ASSUME NEW j \in x.unread \cup x.taken PROVE SteerUnread(e, t, j) <=> SteerUnread(d, t, j)
    OBVIOUS
  <2>1. d.steers[t][j].rows \subseteq Rows(d, t)
    BY DEF Typed, SteerLinked, TurnLinked
  <2> QED
    BY <1>1, <1>3, <2>1 DEF SteerUnread, OnItsWay
<1>10. ASSUME NEW i \in DOMAIN e.runs[t] PROVE RunApart(e, t, i)
  <2>1. RunApart(d, t, i) /\ i \in DOMAIN d.runs[t] /\ e.runs = d.runs /\ e.steers = d.steers
    BY <1>1, <1>10 DEF Apart
  <2>2. /\ HeldBy(e, t, StartOf(i)) \subseteq HeldBy(d, t, StartOf(i))
        /\ HeldBy(e, t, ItemOf(d.runs[t][i].item)) \subseteq HeldBy(d, t, ItemOf(d.runs[t][i].item))
        /\ PromptUnread(d, t, i) => PromptUnread(e, t, i)
    BY <1>4, <1>8, <2>1
  <2>3. d.runs[t][i].item # 0 => \A m \in DOMAIN e.runs[t] : e.runs[t][m].item = d.runs[t][i].item => m = i
    BY <2>1 DEF RunApart, RunStands
  <2> QED
    BY <2>1, <2>2, <2>3, RunApartKept
<1>11. ASSUME NEW j \in DOMAIN e.steers[t] PROVE SteerApart(e, t, j)
  <2>1. SteerApart(d, t, j) /\ e.runs = d.runs /\ e.steers = d.steers
    BY <1>1, <1>11 DEF Apart
  <2>2. /\ HeldBy(e, t, SteerOf(j)) \subseteq HeldBy(d, t, SteerOf(j))
        /\ HeldBy(e, t, ItemOf(j)) \subseteq HeldBy(d, t, ItemOf(j))
    BY <1>4
  <2>3. e.runs[t][d.steers[t][j].run].status # "queued"
    BY <2>1 DEF SteerApart
  <2> QED
    BY <2>1, <2>2, <2>3, SteerApartKept
<1>12. TurnApart(e, t, items, x2)
  <2>1. TurnApart(d, t, items, x)
    BY DEF Apart
  <2>2. ASSUME IsLive(e, t, x2)
        PROVE  /\ IsLive(d, t, x) /\ x.run \in DOMAIN d.runs[t]
               /\ \A j \in x2.taken : \A k \in HeldBy(e, t, SteerOf(j)) : e.inbox[k].taken = j
               /\ \A j \in DOMAIN e.steers[t] \ x2.taken :
                    e.steers[t][j].run = x2.run => \A k \in HeldBy(e, t, SteerOf(j)) : e.inbox[k].taken # j
    <3>1. IsLive(d, t, x) /\ x.run \in DOMAIN d.runs[t]
      BY <1>1, <2>2, Parts DEF IsLive, TurnLinked, Typed
    <3>2. ASSUME NEW j \in x2.taken, NEW k \in HeldBy(e, t, SteerOf(j)) PROVE e.inbox[k].taken = j
      <4>1. CASE j \in S
        BY <1>4, <1>5, <3>2, <4>1
      <4>2. CASE j \notin S
        BY <1>4, <1>6, <2>1, <3>1, <3>2, <4>2 DEF TurnApart
      <4> QED
        BY <4>1, <4>2
    <3>3. ASSUME NEW j \in DOMAIN e.steers[t] \ x2.taken, e.steers[t][j].run = x2.run, NEW k \in HeldBy(e, t, SteerOf(j))
          PROVE  e.inbox[k].taken # j
      <4>1. CASE j \in S
        BY <1>1, <1>2, <1>4, <1>5, <3>3, <4>1
      <4>2. CASE j \notin S
        BY <1>1, <1>4, <1>6, <2>1, <3>1, <3>3, <4>2 DEF TurnApart
      <4> QED
        BY <4>1, <4>2
    <3> QED
      BY <3>1, <3>2, <3>3
  <2>3. \A j \in x2.unread \cup x2.taken :
          /\ e.steers[t][j].status = "succeeded"
          /\ \A i \in DOMAIN e.runs[t] : e.runs[t][i].item # j
          /\ \A n \in DOMAIN items : items[n].steer # j
    BY <1>1, <2>1 DEF TurnApart
  <2>4. ASSUME IsLive(e, t, x2)
        PROVE  /\ e.runs[t][x2.run].start = "running"
               /\ PromptUnread(e, t, x2.run) /\ HeldBy(e, t, StartOf(x2.run)) \subseteq e.runs[t][x2.run].rows
               /\ \A j \in x2.unread \cup x2.taken : e.steers[t][j].run = x2.run /\ SteerUnread(e, t, j)
    BY <1>1, <1>4, <1>8, <1>9, <2>1, <2>2, <2>4 DEF TurnApart
  <2> QED
    BY <2>2, <2>3, <2>4 DEF TurnApart
<1>13. ASSUME NEW n \in DOMAIN items PROVE ItemApart(e, t, items[n])
  <2>1. ItemApart(d, t, items[n])
    BY <1>13 DEF Apart
  <2> QED
    BY <1>1, <1>8, <2>1 DEF ItemApart
<1> QED
  BY <1>7, <1>10, <1>11, <1>12, <1>13 DEF Apart
-----------------------------------------------------------------------------
(* A steer is carried out.                                                   *)

LEMMA PendingSteer ==
  ASSUME NEW d, Typed(d), NEW t \in Threads, NEW items, NEW x, Apart(d, t, items, x),
         NEW j \in DOMAIN d.steers[t], d.steers[t][j].status = "pending"
  PROVE  /\ j \notin x.unread \cup x.taken /\ \A i \in DOMAIN d.runs[t] : d.runs[t][i].item # j
         /\ \A n \in DOMAIN items : items[n].steer # j
         /\ \A k : k \in HeldBy(d, t, SteerOf(j)) <=> k \in Own(d, d.steers[t][j].rows, SteerOf(j))
         /\ HeldBy(d, t, ItemOf(j)) = {}
<1>1. j # 0 /\ d.steers[t][j].rows \subseteq Rows(d, t)
  BY Parts DEF Typed, SteerLinked
<1>2. \A i \in DOMAIN d.runs[t] : d.runs[t][i].item # j
  BY <1>1 DEF Apart, RunApart, RunStands
<1>3. \A n \in DOMAIN items : items[n].steer # j
  BY <1>1 DEF Apart, ItemApart
<1>4. j \notin x.unread \cup x.taken
  BY DEF Apart, TurnApart
<1>5. HeldBy(d, t, SteerOf(j)) \subseteq d.steers[t][j].rows /\ HeldBy(d, t, ItemOf(j)) = {}
  BY DEF Apart, SteerApart
<1> QED
  BY <1>1, <1>2, <1>3, <1>4, <1>5 DEF Own, HeldBy

LEMMA SteerDone ==
  ASSUME NEW d, Typed(d), NEW e, NEW t \in Threads, NEW items, NEW x, TurnLinked(d, t, x), Apart(d, t, items, x),
         \A n \in DOMAIN items : ItemLinked(d, t, items[n]),
         NEW j \in DOMAIN d.steers[t], d.steers[t][j].status = "pending", NEW steer,
         steer.run = d.steers[t][j].run, steer.status = "succeeded",
         steer.rows = Own(d, d.steers[t][j].rows, SteerOf(j)),
         SteersOf(d, e, t, [d.steers[t] EXCEPT ![j] = steer])
  PROVE  Apart(e, t, items, x)
<1>1. /\ e.runs = d.runs /\ e.inbox = d.inbox /\ Rows(e, t) = Rows(d, t)
      /\ DOMAIN e.steers[t] = DOMAIN d.steers[t] /\ e.steers[t][j] = steer
      /\ \A n \in DOMAIN d.steers[t] \ {j} : e.steers[t][n] = d.steers[t][n]
  BY DEF SteersOf
<1>2. Len(e.steers[t]) = Len(d.steers[t])
  BY <1>1, Parts DEF SteersOf, Typed
<1>3. \A carrier : HeldBy(e, t, carrier) = HeldBy(d, t, carrier)
  BY <1>1 DEF HeldBy
<1>4. \A i \in DOMAIN d.runs[t] : /\ PromptUnread(e, t, i) <=> PromptUnread(d, t, i)
                                  /\ ItemUnread(e, t, i) <=> ItemUnread(d, t, i)
  BY <1>1, <1>3 DEF PromptUnread, ItemUnread
<1>5. \A n \in DOMAIN d.steers[t] : /\ e.steers[t][n].run = d.steers[t][n].run
                                    /\ d.steers[t][n].status = "succeeded" => e.steers[t][n].status = "succeeded"
  BY <1>1
<1>6. j \notin x.unread \cup x.taken /\ HeldBy(d, t, ItemOf(j)) = {}
      /\ HeldBy(d, t, SteerOf(j)) \subseteq steer.rows
  BY PendingSteer
<1>7. \A k \in Rows(e, t) : RowRead(e, t, e.inbox[k])
  BY <1>1, <1>2 DEF Apart, RowRead
<1>8. ASSUME NEW i \in DOMAIN e.runs[t] PROVE RunApart(e, t, i)
  <2>1. RunApart(d, t, i) /\ i \in DOMAIN d.runs[t] /\ e.runs = d.runs
        /\ DOMAIN e.steers[t] = DOMAIN d.steers[t]
    BY <1>1, <1>8 DEF Apart
  <2>2. /\ HeldBy(e, t, StartOf(i)) \subseteq HeldBy(d, t, StartOf(i))
        /\ HeldBy(e, t, ItemOf(d.runs[t][i].item)) \subseteq HeldBy(d, t, ItemOf(d.runs[t][i].item))
        /\ PromptUnread(d, t, i) => PromptUnread(e, t, i)
    BY <1>3, <1>4, <2>1
  <2>3. \A n \in DOMAIN d.steers[t] : d.steers[t][n].status = "succeeded" => e.steers[t][n].status = "succeeded"
    BY <1>5
  <2>4. d.runs[t][i].item # 0 => \A m \in DOMAIN e.runs[t] : e.runs[t][m].item = d.runs[t][i].item => m = i
    BY <2>1 DEF RunApart, RunStands
  <2> QED
    BY <2>1, <2>2, <2>3, <2>4, RunApartKept
<1>9. ASSUME NEW n \in DOMAIN e.steers[t] PROVE SteerApart(e, t, n)
  <2>1. SteerApart(d, t, n) /\ n \in DOMAIN d.steers[t] /\ e.runs = d.runs
    BY <1>1, <1>9 DEF Apart
  <2>2. /\ HeldBy(e, t, SteerOf(n)) = HeldBy(d, t, SteerOf(n))
        /\ HeldBy(e, t, ItemOf(n)) = HeldBy(d, t, ItemOf(n))
    BY <1>3
  <2>3. e.runs[t][d.steers[t][n].run].status # "queued"
    BY <2>1 DEF SteerApart
  <2>4. CASE n = j
    <3>1. /\ e.steers[t][j] = steer /\ steer.run = d.steers[t][j].run /\ steer.status = "succeeded"
          /\ HeldBy(e, t, ItemOf(j)) = {} /\ HeldBy(e, t, SteerOf(j)) \subseteq steer.rows
      BY <1>1, <1>6, <2>2, <2>4
    <3> QED
      BY <2>3, <2>4, <3>1 DEF SteerApart
  <2>5. CASE n # j
    <3>1. e.steers[t][n] = d.steers[t][n]
      BY <1>1, <2>1, <2>5
    <3> QED
      BY <2>1, <2>2, <2>3, <3>1, SteerApartKept
  <2> QED
    BY <2>4, <2>5
<1>10. TurnApart(e, t, items, x)
  <2>1. TurnApart(d, t, items, x)
    BY DEF Apart
  <2>2. \A n \in x.unread \cup x.taken : n \in DOMAIN d.steers[t] /\ (SteerUnread(e, t, n) <=> SteerUnread(d, t, n))
    BY <1>1, <1>6 DEF SteerUnread, TurnLinked
  <2>3. IsLive(e, t, x) => IsLive(d, t, x) /\ x.run \in DOMAIN d.runs[t]
    BY <1>1, Parts DEF IsLive, TurnLinked, Typed
  <2> QED
    BY <1>1, <1>3, <1>4, <1>5, <2>1, <2>2, <2>3 DEF TurnApart
<1>11. ASSUME NEW n \in DOMAIN items PROVE ItemApart(e, t, items[n])
  <2>1. ItemApart(d, t, items[n]) /\ ItemLinked(d, t, items[n])
    BY <1>11 DEF Apart
  <2> QED
    BY <1>1, <1>4, <1>5, <2>1 DEF ItemApart, ItemLinked
<1> QED
  BY <1>7, <1>8, <1>9, <1>10, <1>11 DEF Apart

LEMMA TurnHolds ==
  ASSUME NEW d, NEW t, NEW items, NEW x, Apart(d, t, items, x), NEW j,
         d.steers[t][j].status = "succeeded", j \notin x.taken,
         \A i \in DOMAIN d.runs[t] : d.runs[t][i].item # j, \A n \in DOMAIN items : items[n].steer # j,
         IsLive(d, t, x) => d.steers[t][j].run = x.run /\ SteerUnread(d, t, j),
         NEW x2, x2.run = x.run, x2.unread = x.unread \cup {j}, x2.taken = x.taken
  PROVE  Apart(d, t, items, x2)
<1>1. TurnApart(d, t, items, x2)
  BY DEF Apart, TurnApart, IsLive
<1> QED
  BY <1>1 DEF Apart
-----------------------------------------------------------------------------
(* What the reconciler and a boot do.                                        *)

\* A database with its queues and its turns.
Standing(d, q, tn) == Typed(d) /\ TurnsTyped(d, tn) /\ QueuesTyped(d, q) /\ AllApart(d, q, tn)

LEMMA AllEaseStanding ==
  ASSUME NEW d, NEW e, NEW q, NEW tn, Standing(d, q, tn), Typed(e), Grows(d, e),
         \A t \in Threads : Eases(d, e, t, q[t], tn[t])
  PROVE  Standing(e, q, tn)
BY AllEase, TurnsGrow, QueuesGrow DEF Standing

LEMMA SettleStanding ==
  ASSUME NEW d, NEW q, NEW tn, Standing(d, q, tn), NEW memory, NEW threads \in SUBSET Threads
  PROVE  Standing(Settle(d, memory, threads), q, tn)
BY SettleApart DEF Standing

\* Runs that end, and turn.starts that end with them.
LEMMA RunsEase ==
  ASSUME NEW d, NEW e, NEW t, NEW items, NEW x, e.steers = d.steers, e.inbox = d.inbox,
         DOMAIN e.runs[t] = DOMAIN d.runs[t],
         \A i \in DOMAIN d.runs[t] :
            /\ RunEases(d.runs[t][i], e.runs[t][i])
            /\ e.runs[t][i].status = d.runs[t][i].status => e.runs[t][i].start = d.runs[t][i].start,
         x.run # 0 => x.run \in DOMAIN d.runs[t]
  PROVE  Eases(d, e, t, items, x)
<1>1. Rows(e, t) = Rows(d, t)
  BY DEF Rows
<1>2. \A j \in DOMAIN d.steers[t] : SteerEases(d.steers[t][j], e.steers[t][j])
  BY DEF SteerEases
<1>3. \A k \in Rows(d, t) : LooksSame(d.inbox[k], e.inbox[k])
  BY DEF LooksSame
<1>4. \A i \in DOMAIN d.runs[t] :
        e.runs[t][i].status \in {"queued", "active"} => e.runs[t][i].start = d.runs[t][i].start
  BY DEF RunEases, Terminal
<1> QED
  BY <1>1, <1>2, <1>3, <1>4 DEF Eases, IsLive

LEMMA CancelWakesStanding ==
  ASSUME NEW d, NEW q, NEW tn, Standing(d, q, tn), NEW m, NEW threads \in SUBSET Threads
  PROVE  Standing(CancelAcknowledgedWakes(d, m, threads), q, tn)
<1> DEFINE ended(t, i) == [d.runs[t][i] EXCEPT !.start = "cancelled", !.status = "cancelled"]
           runs == [t \in Threads |-> [i \in DOMAIN d.runs[t] |->
                      IF t \in threads /\ i \in IdleWakes(d, t) THEN ended(t, i) ELSE d.runs[t][i]]]
           f == [d EXCEPT !.runs = runs]
<1>1. CancelAcknowledgedWakes(d, m, threads) = Settle(f, m, threads)
  BY DEF CancelAcknowledgedWakes
<1>2. Typed(d) /\ \A t \in Threads : /\ DOMAIN d.runs[t] = 1 .. Len(d.runs[t]) /\ Len(d.runs[t]) \in Nat
                                     /\ \A i \in DOMAIN d.runs[t] : d.runs[t][i] \in Run /\ d.runs[t][i].rows \subseteq Rows(d, t)
  BY Parts DEF Standing, Typed, RunLinked
<1>3. \A t \in Threads : \A i \in DOMAIN d.runs[t] :
        /\ ended(t, i) \in Run /\ ended(t, i).rows \subseteq Rows(d, t)
        /\ ended(t, i).item = d.runs[t][i].item /\ RunEases(d.runs[t][i], ended(t, i))
        /\ ended(t, i).status = "cancelled"
  <2> SUFFICES ASSUME NEW t \in Threads, NEW i \in DOMAIN d.runs[t]
               PROVE  /\ ended(t, i) \in Run /\ ended(t, i).rows \subseteq Rows(d, t)
                      /\ ended(t, i).item = d.runs[t][i].item /\ RunEases(d.runs[t][i], ended(t, i))
                      /\ ended(t, i).status = "cancelled"
    OBVIOUS
  <2>1. d.runs[t][i] \in Run /\ d.runs[t][i].rows \subseteq Rows(d, t)
    BY <1>2
  <2> QED
    BY <2>1 DEF Run, Statuses, Terminal, RunEases
<1>4. \A t \in Threads : \A i \in IdleWakes(d, t) : d.runs[t][i].status = "queued"
  <2> SUFFICES ASSUME NEW t \in Threads, NEW i \in IdleWakes(d, t) PROVE d.runs[t][i].status = "queued"
    OBVIOUS
  <2>1. i \in DOMAIN d.runs[t] /\ d.runs[t][i].start = "pending"
    BY DEF IdleWakes
  <2> QED
    BY <2>1 DEF Standing, AllApart, Apart, RunApart, RunStands
<1> HIDE DEF ended
<1>5. \A t \in Threads :
        /\ runs[t] \in [1 .. Len(d.runs[t]) -> Run]
        /\ \A i \in DOMAIN d.runs[t] : runs[t][i].rows \subseteq Rows(d, t) /\ runs[t][i].item = d.runs[t][i].item
        /\ \A i \in DOMAIN d.runs[t] :
             /\ RunEases(d.runs[t][i], runs[t][i])
             /\ runs[t][i].status = d.runs[t][i].status => runs[t][i].start = d.runs[t][i].start
  BY <1>2, <1>3, <1>4, RunEasesItself
<1>6. runs = [t \in Threads |-> runs[t]]
  OBVIOUS
<1> HIDE DEF runs
<1>7. \A t \in Threads : runs[t] \in Seq(Run) /\ DOMAIN runs[t] = DOMAIN d.runs[t]
  BY <1>2, <1>5, IsSeq
<1>8. runs \in [Threads -> Seq(Run)]
  BY <1>6, <1>7
<1>9. Typed(f)
  BY <1>2, <1>5, <1>7, <1>8, RunsReplaced DEF RunLinked
<1>10. f.runs = runs /\ f.steers = d.steers /\ f.inbox = d.inbox
  BY <1>2 DEF Typed, DB
<1> HIDE DEF f
<1>11. Grows(d, f)
  BY <1>5, <1>7, <1>10 DEF Grows
<1>12. ASSUME NEW t \in Threads PROVE Eases(d, f, t, q[t], tn[t])
  <2>1. tn[t].run # 0 => tn[t].run \in DOMAIN d.runs[t]
    BY <1>2 DEF Standing, TurnsTyped, TurnLinked
  <2> QED
    BY <1>5, <1>7, <1>10, <2>1, RunsEase
<1>13. Standing(f, q, tn)
  BY <1>9, <1>11, <1>12, AllEaseStanding
<1> QED
  BY <1>1, <1>13, SettleStanding

LEMMA RestoreStanding ==
  ASSUME NEW d, NEW q, NEW tn, Standing(d, q, tn), NEW m, NEW due
  PROVE  Standing(Restore(d, m, due), q, tn)
<1> DEFINE spent == {k \in FailedRows(d) : d.inbox[k].tries > MaxRedeliveries}
           over(k) == [d.inbox[k] EXCEPT !.gaveUp = TRUE, !.failures = Counted(@)]
           box == [k \in DOMAIN d.inbox |-> IF k \in spent THEN over(k) ELSE d.inbox[k]]
           flagged == [d EXCEPT !.inbox = box]
           rows == (due \cap FailedRows(d)) \ spent
           again == PendingAgain(flagged, rows, TRUE)
<1>1. Restore(d, m, due) = Settle(again, m, Threads)
  BY Zenon DEF Restore
<1>2. Typed(d) /\ \A k \in DOMAIN d.inbox : d.inbox[k] \in Row /\ RowLinked(d, d.inbox[k])
  BY Parts DEF Standing, Typed
<1>3. \A k \in DOMAIN d.inbox :
        over(k) \in Row /\ over(k).to = d.inbox[k].to /\ over(k).by = d.inbox[k].by /\ LooksSame(d.inbox[k], over(k))
  <2> SUFFICES ASSUME NEW k \in DOMAIN d.inbox
               PROVE  /\ over(k) \in Row /\ over(k).to = d.inbox[k].to /\ over(k).by = d.inbox[k].by
                      /\ LooksSame(d.inbox[k], over(k))
    OBVIOUS
  <2>1. d.inbox[k] \in Row /\ Counted(d.inbox[k].failures) \in Nat
    BY <1>2, CountedNat DEF Row
  <2> QED
    BY <2>1 DEF Row, LooksSame
<1> HIDE DEF over, spent
<1>4. /\ box \in [DOMAIN d.inbox -> Row]
      /\ \A k \in DOMAIN d.inbox : box[k].to = d.inbox[k].to /\ RowLinked(d, box[k])
      /\ \A k \in DOMAIN d.inbox \ spent : box[k] = d.inbox[k]
      /\ \A k \in DOMAIN d.inbox : LooksSame(d.inbox[k], box[k])
  BY <1>2, <1>3 DEF RowLinked, LooksSame
<1> HIDE DEF box
<1>5. RewriteOf(d, flagged, spent) /\ flagged.inbox = box
  BY <1>2, <1>4, Rewritten DEF Typed, DB
<1> HIDE DEF flagged, rows
<1>6. Standing(flagged, q, tn)
  BY <1>4, <1>5, RewriteApart DEF Standing
<1>7. ASSUME NEW k \in rows \cap DOMAIN flagged.inbox
      PROVE  ~Due(flagged, flagged.inbox[k].to, q[flagged.inbox[k].to], tn[flagged.inbox[k].to], flagged.inbox[k])
  <2>1. k \in FailedRows(d) /\ k \in DOMAIN d.inbox
    BY DEF rows, FailedRows
  <2>2. ~Due(d, d.inbox[k].to, q[d.inbox[k].to], tn[d.inbox[k].to], d.inbox[k])
    BY <2>1, FailedNotDue DEF Standing
  <2>3. flagged.inbox[k].to = d.inbox[k].to /\ flagged.inbox[k].by = d.inbox[k].by /\ flagged.runs = d.runs
    BY <1>4, <1>5, <2>1 DEF RewriteOf, LooksSame
  <2> QED
    BY <2>2, <2>3 DEF Due, IsLive
<1>8. Standing(again, q, tn)
  <2>1. TRUE \in BOOLEAN
    OBVIOUS
  <2> QED
    BY <1>6, <1>7, <2>1, PendingAgainApart DEF Standing
<1> HIDE DEF again
<1> QED
  BY <1>1, <1>8, SettleStanding
-----------------------------------------------------------------------------
(* Wakes and steers.                                                         *)

\* The pending notices of a thread are handed to a carrier.
HandedTo(d, e, t, carrier) ==
    /\ Rows(e, t) = Rows(d, t)
    /\ \A k \in Rows(d, t) :
         IF d.inbox[k].status = "pending"
         THEN /\ e.inbox[k].status = "delivered" /\ e.inbox[k].by = carrier
              /\ e.inbox[k].reads = d.inbox[k].reads /\ e.inbox[k].waived = d.inbox[k].waived
              /\ e.inbox[k].taken = d.inbox[k].taken
         ELSE e.inbox[k] = d.inbox[k]

WokenTo(d, e, t) ==
    LET n == Len(d.runs[t]) + 1 IN
    /\ e.steers[t] = d.steers[t] /\ DOMAIN e.runs[t] = DOMAIN d.runs[t] \cup {n}
    /\ \A i \in DOMAIN d.runs[t] : e.runs[t][i] = d.runs[t][i]
    /\ e.runs[t][n].source = "wake" /\ e.runs[t][n].status = "queued" /\ e.runs[t][n].start = "pending"
    /\ e.runs[t][n].rows = Pending(d, t) /\ e.runs[t][n].item = 0
    /\ HandedTo(d, e, t, StartOf(n))

SteeredTo(d, e, t) ==
    LET n == Len(d.steers[t]) + 1 IN
    /\ e.runs[t] = d.runs[t]
    /\ DOMAIN e.steers[t] = DOMAIN d.steers[t] \cup {n} /\ Len(e.steers[t]) = n
    /\ \A j \in DOMAIN d.steers[t] : e.steers[t][j] = d.steers[t][j]
    /\ e.steers[t][n].run \in ActiveRuns(d, t) /\ e.steers[t][n].status = "pending"
    /\ e.steers[t][n].rows = Pending(d, t)
    /\ HandedTo(d, e, t, SteerOf(n))

LEMMA HandedRows ==
  ASSUME NEW d, Typed(d), NEW e, NEW t \in Threads, NEW items, NEW x, Apart(d, t, items, x),
         NEW carrier, HandedTo(d, e, t, carrier), HeldBy(d, t, carrier) = {}
  PROVE  /\ \A c : c # carrier => HeldBy(e, t, c) = HeldBy(d, t, c)
         /\ HeldBy(e, t, carrier) = Pending(d, t)
         /\ \A k \in Rows(d, t) : OnItsWay(d.inbox[k]) => e.inbox[k] = d.inbox[k]
         /\ Len(e.steers[t]) >= Len(d.steers[t]) /\ Len(e.steers[t]) \in Nat =>
              \A k \in Rows(e, t) : RowRead(e, t, e.inbox[k])
         /\ \A k \in Pending(d, t) : OnItsWay(e.inbox[k]) /\ e.inbox[k].by = carrier
                                     /\ e.inbox[k].taken \in 0 .. Len(d.steers[t])
<1>1. /\ Rows(e, t) = Rows(d, t)
      /\ \A k \in Rows(d, t) :
           IF d.inbox[k].status = "pending"
           THEN /\ e.inbox[k].status = "delivered" /\ e.inbox[k].by = carrier
                /\ e.inbox[k].reads = d.inbox[k].reads /\ e.inbox[k].waived = d.inbox[k].waived
                /\ e.inbox[k].taken = d.inbox[k].taken
           ELSE e.inbox[k] = d.inbox[k]
  BY DEF HandedTo
<1>2. \A c : c # carrier => HeldBy(e, t, c) = HeldBy(d, t, c)
  BY <1>1 DEF HeldBy
<1>3. HeldBy(e, t, carrier) = Pending(d, t)
  BY <1>1 DEF HeldBy, Pending
<1>4. \A k \in Rows(d, t) : OnItsWay(d.inbox[k]) => e.inbox[k] = d.inbox[k]
  BY <1>1 DEF OnItsWay
<1>5. \A k \in Rows(d, t) : RowRead(d, t, d.inbox[k])
  BY DEF Apart
<1>6. \A k \in Pending(d, t) : OnItsWay(e.inbox[k]) /\ e.inbox[k].by = carrier
                               /\ e.inbox[k].taken \in 0 .. Len(d.steers[t])
  BY <1>1, <1>5 DEF Pending, OnItsWay, RowRead
<1>7. ASSUME Len(e.steers[t]) >= Len(d.steers[t]), Len(e.steers[t]) \in Nat, NEW k \in Rows(e, t)
      PROVE  RowRead(e, t, e.inbox[k])
  <2>1. RowRead(d, t, d.inbox[k]) /\ k \in Rows(d, t) /\ Len(d.steers[t]) \in Nat
    BY <1>1, <1>5, <1>7, Parts DEF Typed
  <2>2. e.inbox[k].taken \in 0 .. Len(e.steers[t])
    BY <1>1, <1>7, <2>1 DEF RowRead
  <2> QED
    BY <1>1, <2>1, <2>2 DEF RowRead
<1> QED
  BY <1>2, <1>3, <1>4, <1>6, <1>7

LEMMA WokenApart ==
  ASSUME NEW d, Typed(d), NEW e, Typed(e), NEW t \in Threads, NEW items, NEW x, TurnLinked(d, t, x),
         \A n \in DOMAIN items : ItemLinked(d, t, items[n]), Apart(d, t, items, x), WokenTo(d, e, t)
  PROVE  Apart(e, t, items, x)
<1> DEFINE n == Len(d.runs[t]) + 1
<1>0. /\ DOMAIN d.runs[t] = 1 .. Len(d.runs[t]) /\ Len(d.runs[t]) \in Nat /\ Len(d.steers[t]) \in Nat
      /\ DOMAIN d.steers[t] = 1 .. Len(d.steers[t])
  BY Parts DEF Typed
<1>1. /\ e.steers[t] = d.steers[t] /\ DOMAIN e.runs[t] = DOMAIN d.runs[t] \cup {n} /\ n \notin DOMAIN d.runs[t]
      /\ \A i \in DOMAIN d.runs[t] : e.runs[t][i] = d.runs[t][i]
      /\ e.runs[t][n].source = "wake" /\ e.runs[t][n].status = "queued" /\ e.runs[t][n].start = "pending"
      /\ e.runs[t][n].rows = Pending(d, t) /\ e.runs[t][n].item = 0
      /\ Rows(e, t) = Rows(d, t)
      /\ HandedTo(d, e, t, StartOf(n))
  BY <1>0 DEF WokenTo, HandedTo
<1> HIDE DEF n
<1>2. HeldBy(d, t, StartOf(n)) = {}
  BY <1>1, NothingForNew
<1>3. /\ \A c : c # StartOf(n) => HeldBy(e, t, c) = HeldBy(d, t, c)
      /\ HeldBy(e, t, StartOf(n)) = Pending(d, t)
      /\ \A k \in Rows(d, t) : OnItsWay(d.inbox[k]) => e.inbox[k] = d.inbox[k]
      /\ \A k \in Rows(e, t) : RowRead(e, t, e.inbox[k])
      /\ \A k \in Pending(d, t) : OnItsWay(e.inbox[k]) /\ e.inbox[k].by = StartOf(n)
  BY <1>0, <1>1, <1>2, HandedRows
<1>4. /\ \A i : i # n => HeldBy(e, t, StartOf(i)) = HeldBy(d, t, StartOf(i))
      /\ \A j : HeldBy(e, t, SteerOf(j)) = HeldBy(d, t, SteerOf(j)) /\ HeldBy(e, t, ItemOf(j)) = HeldBy(d, t, ItemOf(j))
  BY <1>3 DEF StartOf, SteerOf, ItemOf
<1>5. ASSUME NEW i \in DOMAIN d.runs[t]
      PROVE  (PromptUnread(d, t, i) => PromptUnread(e, t, i)) /\ (ItemUnread(d, t, i) => ItemUnread(e, t, i))
  <2>1. d.runs[t][i].rows \subseteq Rows(d, t) /\ e.runs[t][i] = d.runs[t][i]
    BY <1>1 DEF Typed, RunLinked
  <2> QED
    BY <1>3, <1>4, <2>1 DEF PromptUnread, ItemUnread
<1>6. ASSUME NEW i \in DOMAIN e.runs[t] PROVE RunApart(e, t, i)
  <2>1. CASE i = n
    BY <1>1, <1>3, <2>1 DEF RunApart, RunStands, PromptUnread, Plain
  <2>2. CASE i # n
    <3>1. i \in DOMAIN d.runs[t] /\ e.runs[t][i] = d.runs[t][i] /\ RunApart(d, t, i)
      BY <1>1, <1>6, <2>2 DEF Apart
    <3>2. ASSUME d.runs[t][i].item # 0, NEW m \in DOMAIN e.runs[t], e.runs[t][m].item = d.runs[t][i].item PROVE m = i
      <4>1. m \in DOMAIN d.runs[t] /\ d.runs[t][m].item = d.runs[t][i].item
        BY <1>1, <3>2
      <4> QED
        BY <3>1, <3>2, <4>1 DEF RunApart, RunStands
    <3> QED
      BY <1>1, <1>4, <1>5, <2>2, <3>1, <3>2 DEF RunApart, RunStands
  <2> QED
    BY <2>1, <2>2
<1>7. ASSUME NEW j \in DOMAIN e.steers[t] PROVE SteerApart(e, t, j)
  <2>1. SteerApart(d, t, j) /\ d.steers[t][j].run \in DOMAIN d.runs[t]
    BY <1>1, <1>7 DEF Apart, Typed, SteerLinked
  <2> QED
    BY <1>1, <1>4, <2>1 DEF SteerApart
<1>8. TurnApart(e, t, items, x)
  <2>1. TurnApart(d, t, items, x)
    BY DEF Apart
  <2>2. x.unread \cup x.taken \subseteq DOMAIN d.steers[t] /\ 0 \notin DOMAIN d.steers[t]
    BY <1>0 DEF TurnLinked
  <2>3. IsLive(e, t, x) => IsLive(d, t, x) /\ x.run \in DOMAIN d.runs[t] /\ x.run # n
    <3>1. x.run # 0 => x.run \in DOMAIN d.runs[t]
      BY <1>0 DEF TurnLinked
    <3> QED
      BY <1>1, <3>1 DEF IsLive
  <2>4. ASSUME NEW j \in x.unread \cup x.taken, SteerUnread(d, t, j) PROVE SteerUnread(e, t, j)
    <3>1. d.steers[t][j].rows \subseteq Rows(d, t)
      BY <2>2, <2>4 DEF Typed, SteerLinked
    <3> QED
      BY <1>1, <1>3, <2>4, <3>1 DEF SteerUnread
  <2>5. \A j \in x.unread \cup x.taken : \A i \in DOMAIN e.runs[t] : e.runs[t][i].item # j
    BY <1>1, <2>1, <2>2 DEF TurnApart
  <2>6. \A c : \A k \in HeldBy(d, t, c) : e.inbox[k] = d.inbox[k]
    BY <1>1 DEF HeldBy, HandedTo
  <2> QED
    BY <1>1, <1>4, <1>5, <2>1, <2>2, <2>3, <2>4, <2>5, <2>6 DEF TurnApart
<1>9. ASSUME NEW m \in DOMAIN items PROVE ItemApart(e, t, items[m])
  <2>1. ItemApart(d, t, items[m]) /\ ItemLinked(d, t, items[m])
    BY <1>9 DEF Apart
  <2> QED
    BY <1>1, <1>5, <2>1 DEF ItemApart, ItemLinked
<1> QED
  BY <1>3, <1>6, <1>7, <1>8, <1>9 DEF Apart

LEMMA SteeredApart ==
  ASSUME NEW d, Typed(d), NEW e, Typed(e), NEW t \in Threads, NEW items, NEW x, TurnLinked(d, t, x),
         \A n \in DOMAIN items : ItemLinked(d, t, items[n]), Apart(d, t, items, x), SteeredTo(d, e, t)
  PROVE  Apart(e, t, items, x)
<1> DEFINE n == Len(d.steers[t]) + 1
<1>0. /\ DOMAIN d.runs[t] = 1 .. Len(d.runs[t]) /\ Len(d.runs[t]) \in Nat /\ Len(d.steers[t]) \in Nat
      /\ DOMAIN d.steers[t] = 1 .. Len(d.steers[t])
  BY Parts DEF Typed
<1>1. /\ e.runs[t] = d.runs[t] /\ DOMAIN e.steers[t] = DOMAIN d.steers[t] \cup {n} /\ n \notin DOMAIN d.steers[t]
      /\ \A j \in DOMAIN d.steers[t] : e.steers[t][j] = d.steers[t][j]
      /\ e.steers[t][n].run \in DOMAIN d.runs[t] /\ d.runs[t][e.steers[t][n].run].status = "active"
      /\ e.steers[t][n].status = "pending" /\ e.steers[t][n].rows = Pending(d, t)
      /\ Rows(e, t) = Rows(d, t) /\ Len(e.steers[t]) >= Len(d.steers[t]) /\ Len(e.steers[t]) \in Nat
      /\ HandedTo(d, e, t, SteerOf(n)) /\ \A m \in 0 .. Len(d.steers[t]) : m # n
  <2>1. n \notin DOMAIN d.steers[t] /\ n >= Len(d.steers[t]) /\ n \in Nat /\ \A m \in 0 .. Len(d.steers[t]) : m # n
    BY <1>0
  <2>2. /\ e.runs[t] = d.runs[t] /\ DOMAIN e.steers[t] = DOMAIN d.steers[t] \cup {n} /\ Len(e.steers[t]) = n
        /\ \A j \in DOMAIN d.steers[t] : e.steers[t][j] = d.steers[t][j]
        /\ e.steers[t][n].run \in ActiveRuns(d, t) /\ e.steers[t][n].status = "pending"
        /\ e.steers[t][n].rows = Pending(d, t) /\ HandedTo(d, e, t, SteerOf(n))
    BY DEF SteeredTo
  <2>3. Rows(e, t) = Rows(d, t)
    BY <2>2 DEF HandedTo
  <2> HIDE DEF n
  <2> QED
    BY <2>1, <2>2, <2>3 DEF ActiveRuns
<1> HIDE DEF n
<1>2. HeldBy(d, t, SteerOf(n)) = {} /\ HeldBy(d, t, ItemOf(n)) = {}
  BY <1>1, NothingForNew
<1>3. /\ \A c : c # SteerOf(n) => HeldBy(e, t, c) = HeldBy(d, t, c)
      /\ HeldBy(e, t, SteerOf(n)) = Pending(d, t)
      /\ \A k \in Rows(d, t) : OnItsWay(d.inbox[k]) => e.inbox[k] = d.inbox[k]
      /\ \A k \in Rows(e, t) : RowRead(e, t, e.inbox[k])
      /\ \A k \in Pending(d, t) : e.inbox[k].taken \in 0 .. Len(d.steers[t])
  BY <1>0, <1>1, <1>2, HandedRows
<1>4. /\ \A j : j # n => HeldBy(e, t, SteerOf(j)) = HeldBy(d, t, SteerOf(j))
      /\ \A j : HeldBy(e, t, StartOf(j)) = HeldBy(d, t, StartOf(j)) /\ HeldBy(e, t, ItemOf(j)) = HeldBy(d, t, ItemOf(j))
  BY <1>3 DEF StartOf, SteerOf, ItemOf
<1>5. ASSUME NEW i \in DOMAIN d.runs[t]
      PROVE  (PromptUnread(d, t, i) => PromptUnread(e, t, i)) /\ (ItemUnread(d, t, i) => ItemUnread(e, t, i))
  <2>1. d.runs[t][i].rows \subseteq Rows(d, t) /\ e.runs[t][i] = d.runs[t][i]
    BY <1>1 DEF Typed, RunLinked
  <2> QED
    BY <1>3, <1>4, <2>1 DEF PromptUnread, ItemUnread
<1>6. ASSUME NEW i \in DOMAIN e.runs[t] PROVE RunApart(e, t, i)
  <2>1. RunApart(d, t, i) /\ i \in DOMAIN d.runs[t] /\ e.runs[t] = d.runs[t]
    BY <1>1, <1>6 DEF Apart
  <2>2. /\ d.runs[t][i].source \in Plain => d.runs[t][i].rows = {} /\ d.runs[t][i].item = 0
                                              /\ HeldBy(d, t, StartOf(i)) = {}
        /\ d.runs[t][i].source = "wake" => d.runs[t][i].item = 0
        /\ d.runs[t][i].start = "pending" => d.runs[t][i].status = "queued" /\ PromptUnread(d, t, i)
        /\ d.runs[t][i].status = "queued" => HeldBy(d, t, StartOf(i)) \subseteq d.runs[t][i].rows
    BY <2>1 DEF RunApart, RunStands
  <2>3. d.runs[t][i].item # 0 =>
          /\ d.runs[t][i].item \in DOMAIN d.steers[t] /\ d.steers[t][d.runs[t][i].item].status = "succeeded"
          /\ \A m \in DOMAIN d.runs[t] : d.runs[t][m].item = d.runs[t][i].item => m = i
          /\ d.runs[t][i].status = "queued" =>
                HeldBy(d, t, StartOf(i)) = {} \/ HeldBy(d, t, ItemOf(d.runs[t][i].item)) = {}
    BY <2>1 DEF RunApart, RunStands
  <2>4. /\ \A j \in DOMAIN d.steers[t] : j \in DOMAIN e.steers[t] /\ e.steers[t][j] = d.steers[t][j]
        /\ HeldBy(e, t, StartOf(i)) = HeldBy(d, t, StartOf(i))
        /\ HeldBy(e, t, ItemOf(d.runs[t][i].item)) = HeldBy(d, t, ItemOf(d.runs[t][i].item))
        /\ PromptUnread(d, t, i) => PromptUnread(e, t, i)
    BY <1>1, <1>4, <1>5, <2>1
  <2> QED
    BY <2>1, <2>2, <2>3, <2>4 DEF RunApart, RunStands
<1>7. ASSUME NEW j \in DOMAIN e.steers[t] PROVE SteerApart(e, t, j)
  <2>1. CASE j = n
    <3>1. /\ e.steers[t][n].rows = Pending(d, t) /\ e.runs[t][e.steers[t][n].run].status = "active"
      BY <1>1
    <3>2. HeldBy(e, t, SteerOf(n)) = Pending(d, t) /\ HeldBy(e, t, ItemOf(n)) = {}
      BY <1>2, <1>3, <1>4
    <3> QED
      BY <2>1, <3>1, <3>2 DEF SteerApart
  <2>2. CASE j # n
    <3>1. SteerApart(d, t, j) /\ j \in DOMAIN d.steers[t] /\ e.steers[t][j] = d.steers[t][j] /\ e.runs[t] = d.runs[t]
      BY <1>1, <1>7, <2>2 DEF Apart
    <3>2. /\ HeldBy(e, t, SteerOf(j)) \subseteq HeldBy(d, t, SteerOf(j))
          /\ HeldBy(e, t, ItemOf(j)) \subseteq HeldBy(d, t, ItemOf(j))
      BY <1>4, <2>2
    <3>3. e.runs[t][d.steers[t][j].run].status # "queued"
      BY <3>1 DEF SteerApart
    <3> QED
      BY <3>1, <3>2, <3>3, SteerApartKept
  <2> QED
    BY <2>1, <2>2
<1>8. TurnApart(e, t, items, x)
  <2>1. TurnApart(d, t, items, x)
    BY DEF Apart
  <2>2. x.unread \cup x.taken \subseteq DOMAIN d.steers[t]
    BY DEF TurnLinked
  <2>3. IsLive(e, t, x) => IsLive(d, t, x) /\ x.run \in DOMAIN d.runs[t]
    BY <1>0, <1>1 DEF IsLive, TurnLinked
  <2>4. ASSUME NEW j \in x.unread \cup x.taken, SteerUnread(d, t, j) PROVE SteerUnread(e, t, j)
    <3>1. d.steers[t][j].rows \subseteq Rows(d, t) /\ e.steers[t][j] = d.steers[t][j]
      BY <1>1, <2>2, <2>4 DEF Typed, SteerLinked
    <3> QED
      BY <1>3, <2>4, <3>1 DEF SteerUnread
  <2>5. \A c : \A k \in HeldBy(d, t, c) : e.inbox[k] = d.inbox[k]
    BY <1>1 DEF HeldBy, HandedTo
  <2>6. \A k \in HeldBy(e, t, SteerOf(n)) : e.inbox[k].taken # n
    BY <1>1, <1>3
  <2>7. \A j \in x.unread \cup x.taken : e.steers[t][j] = d.steers[t][j] /\ j # n
    BY <1>1, <2>2
  <2>8. ASSUME IsLive(e, t, x)
        PROVE  \A j \in DOMAIN e.steers[t] \ x.taken :
                 e.steers[t][j].run = x.run => \A k \in HeldBy(e, t, SteerOf(j)) : e.inbox[k].taken # j
    <3> SUFFICES ASSUME NEW j \in DOMAIN e.steers[t] \ x.taken, e.steers[t][j].run = x.run
                 PROVE  \A k \in HeldBy(e, t, SteerOf(j)) : e.inbox[k].taken # j
      OBVIOUS
    <3>1. CASE j = n
      BY <2>6, <3>1
    <3>2. CASE j # n
      <4>1. j \in DOMAIN d.steers[t] \ x.taken /\ d.steers[t][j].run = x.run
        BY <1>1, <3>2
      <4> QED
        BY <1>4, <2>1, <2>3, <2>5, <2>8, <3>2, <4>1 DEF TurnApart
    <3> QED
      BY <3>1, <3>2
  <2>9. /\ e.runs[t] = d.runs[t]
        /\ \A i : HeldBy(e, t, StartOf(i)) = HeldBy(d, t, StartOf(i))
        /\ \A j \in x.unread \cup x.taken : /\ HeldBy(e, t, SteerOf(j)) = HeldBy(d, t, SteerOf(j))
                                            /\ HeldBy(e, t, ItemOf(j)) = HeldBy(d, t, ItemOf(j))
    BY <1>1, <1>4, <2>7
  <2>10. ASSUME IsLive(e, t, x)
         PROVE  /\ e.runs[t][x.run].start = "running"
                /\ PromptUnread(e, t, x.run) /\ HeldBy(e, t, StartOf(x.run)) \subseteq e.runs[t][x.run].rows
                /\ \A j \in x.unread \cup x.taken : e.steers[t][j].run = x.run /\ SteerUnread(e, t, j)
                /\ \A j \in x.taken : \A k \in HeldBy(e, t, SteerOf(j)) : e.inbox[k].taken = j
    <3>1. IsLive(d, t, x) /\ x.run \in DOMAIN d.runs[t]
      BY <2>3, <2>10
    <3>2. /\ d.runs[t][x.run].start = "running"
          /\ PromptUnread(d, t, x.run) /\ HeldBy(d, t, StartOf(x.run)) \subseteq d.runs[t][x.run].rows
          /\ \A j \in x.unread \cup x.taken : d.steers[t][j].run = x.run /\ SteerUnread(d, t, j)
          /\ \A j \in x.taken : \A k \in HeldBy(d, t, SteerOf(j)) : d.inbox[k].taken = j
      BY <2>1, <3>1 DEF TurnApart
    <3>3. PromptUnread(e, t, x.run)
      BY <1>5, <3>1, <3>2
    <3> QED
      BY <2>4, <2>5, <2>7, <2>9, <3>2, <3>3
  <2> QED
    BY <2>1, <2>7, <2>8, <2>9, <2>10 DEF TurnApart
<1>9. ASSUME NEW m \in DOMAIN items PROVE ItemApart(e, t, items[m])
  <2>1. ItemApart(d, t, items[m]) /\ ItemLinked(d, t, items[m])
    BY <1>9 DEF Apart
  <2> QED
    BY <1>1, <1>5, <2>1 DEF ItemApart, ItemLinked
<1> QED
  BY <1>3, <1>6, <1>7, <1>8, <1>9 DEF Apart
LEMMA WakeThreadsParts ==
  ASSUME NEW d, Typed(d), NEW t \in Threads
  PROVE  LET e == WakeThreads(d)
         IN (Untouched(d, e, t) /\ Rows(e, t) = Rows(d, t)) \/ WokenTo(d, e, t) \/ SteeredTo(d, e, t)
<1> DEFINE waiting == {u \in Threads : Pending(d, u) # {}}
           woken == {u \in waiting : ActiveRuns(d, u) = {} /\ \A i \in QueuedRuns(d, u) : d.runs[u][i].source # "wake"}
           steered == {u \in waiting \cap setup.native : \E i \in ActiveRuns(d, u) : ~d.runs[u][i].halted}
           Carrier(u) == IF u \in woken THEN StartOf(Len(d.runs[u]) + 1) ELSE SteerOf(Len(d.steers[u]) + 1)
           steer(u) == [run |-> CHOOSE i \in ActiveRuns(d, u) : TRUE, status |-> "pending", rows |-> Pending(d, u)]
           wake(u) == NewRun("wake", Pending(d, u), 0)
           woke(u) == Enqueue(Append(d.runs[u], wake(u)), Len(d.runs[u]) + 1)
           runs == [u \in Threads |-> IF u \in woken THEN woke(u) ELSE d.runs[u]]
           steers == [u \in Threads |-> IF u \in steered THEN Append(d.steers[u], steer(u)) ELSE d.steers[u]]
           taken(k) == d.inbox[k].status = "pending" /\ d.inbox[k].to \in woken \cup steered
           carried(k) == [d.inbox[k] EXCEPT !.status = "delivered", !.by = Carrier(d.inbox[k].to)]
           box == [k \in DOMAIN d.inbox |-> IF taken(k) THEN carried(k) ELSE d.inbox[k]]
           e == [d EXCEPT !.runs = runs, !.steers = steers, !.inbox = box]
<1>1. WakeThreads(d) = e
  BY Zenon DEF WakeThreads
<1>2. e.runs[t] = runs[t] /\ e.steers[t] = steers[t] /\ e.inbox = box
  BY DEF Typed, DB
<1>3. /\ d.runs[t] \in Seq(Run) /\ DOMAIN d.runs[t] = 1 .. Len(d.runs[t]) /\ Len(d.runs[t]) \in Nat
      /\ d.steers[t] \in Seq(Steer) /\ DOMAIN d.steers[t] = 1 .. Len(d.steers[t]) /\ Len(d.steers[t]) \in Nat
      /\ DOMAIN d.inbox \subseteq Nat
      /\ \A k \in DOMAIN d.inbox : d.inbox[k] \in Row
  BY Parts DEF Typed
<1>4. Pending(d, t) \subseteq Rows(d, t) /\ Pending(d, t) \in SUBSET Nat
  BY <1>3 DEF Pending, Rows
<1>5. t \in steered => t \notin woken /\ ActiveRuns(d, t) # {}
  OBVIOUS
<1> HIDE DEF woken, steered
<1>6. \A k \in DOMAIN d.inbox :
        /\ box[k].to = d.inbox[k].to
        /\ IF taken(k)
           THEN /\ box[k].status = "delivered" /\ box[k].by = Carrier(d.inbox[k].to)
                /\ box[k].reads = d.inbox[k].reads /\ box[k].waived = d.inbox[k].waived
                /\ box[k].taken = d.inbox[k].taken
           ELSE box[k] = d.inbox[k]
  <2> SUFFICES ASSUME NEW k \in DOMAIN d.inbox
               PROVE  /\ box[k].to = d.inbox[k].to
                      /\ IF taken(k)
                         THEN /\ box[k].status = "delivered" /\ box[k].by = Carrier(d.inbox[k].to)
                              /\ box[k].reads = d.inbox[k].reads /\ box[k].waived = d.inbox[k].waived
                              /\ box[k].taken = d.inbox[k].taken
                         ELSE box[k] = d.inbox[k]
    OBVIOUS
  <2>1. d.inbox[k] \in Row
    BY <1>3
  <2>2. box[k] = IF taken(k) THEN carried(k) ELSE d.inbox[k]
    OBVIOUS
  <2> DEFINE by == Carrier(d.inbox[k].to)
  <2>3. carried(k) = [d.inbox[k] EXCEPT !.status = "delivered", !.by = by]
    OBVIOUS
  <2> HIDE DEF by, carried, box, taken
  <2>4. /\ carried(k).to = d.inbox[k].to /\ carried(k).status = "delivered" /\ carried(k).by = by
        /\ carried(k).reads = d.inbox[k].reads /\ carried(k).waived = d.inbox[k].waived
        /\ carried(k).taken = d.inbox[k].taken
    BY <2>1, <2>3 DEF Row
  <2> QED
    BY <2>2, <2>4 DEF by
<1>7. DOMAIN box = DOMAIN d.inbox
  OBVIOUS
<1> HIDE DEF box, e
<1>8. Rows(e, t) = Rows(d, t)
  BY <1>2, <1>6, <1>7 DEF Rows
<1>9. ASSUME t \in woken \cup steered PROVE HandedTo(d, e, t, Carrier(t))
  <2> SUFFICES ASSUME NEW k \in Rows(d, t)
               PROVE  IF d.inbox[k].status = "pending"
                      THEN /\ box[k].status = "delivered" /\ box[k].by = Carrier(t)
                           /\ box[k].reads = d.inbox[k].reads /\ box[k].waived = d.inbox[k].waived
                           /\ box[k].taken = d.inbox[k].taken
                      ELSE box[k] = d.inbox[k]
    BY <1>2, <1>8 DEF HandedTo
  <2>1. k \in DOMAIN d.inbox /\ d.inbox[k].to = t
    BY DEF Rows
  <2>2. taken(k) <=> d.inbox[k].status = "pending"
    BY <1>9, <2>1
  <2> HIDE DEF taken, Carrier
  <2> QED
    BY <1>6, <2>1, <2>2
<1>10. CASE t \in woken
  <2> DEFINE n == Len(d.runs[t]) + 1
  <2>1. wake(t) \in Run /\ wake(t).status = "queued" /\ wake(t).rows = Pending(d, t)
        /\ wake(t).item = 0 /\ wake(t).source = "wake"
    BY <1>4, NewRunType
  <2> HIDE DEF wake
  <2>2. /\ DOMAIN woke(t) = DOMAIN d.runs[t] \cup {n} /\ \A i \in DOMAIN d.runs[t] : woke(t)[i] = d.runs[t][i]
        /\ \E at \in Nat : woke(t)[n] = [wake(t) EXCEPT !.start = "pending", !.at = at]
    <3>1. d.runs[t] \in Seq(Run) /\ wake(t) \in Run
      BY <1>3, <2>1
    <3> QED
      BY <3>1, NewStart, Zenon
  <2> HIDE DEF woke, n
  <2>3. /\ woke(t)[n].source = "wake" /\ woke(t)[n].status = "queued" /\ woke(t)[n].start = "pending"
        /\ woke(t)[n].rows = Pending(d, t) /\ woke(t)[n].item = 0
    BY <2>1, <2>2 DEF Run
  <2>4. e.runs[t] = woke(t) /\ e.steers[t] = d.steers[t] /\ Carrier(t) = StartOf(n)
    BY <1>2, <1>5, <1>10 DEF n
  <2>5. HandedTo(d, e, t, StartOf(n))
    BY <1>9, <1>10, <2>4
  <2>6. WokenTo(d, e, t)
    BY <2>2, <2>3, <2>4, <2>5 DEF WokenTo, n
  <2> QED
    BY <1>1, <2>6
<1>11. CASE t \in steered
  <2> DEFINE n == Len(d.steers[t]) + 1
             more == Append(d.steers[t], steer(t))
  <2>1. steer(t).run \in ActiveRuns(d, t) /\ steer(t).status = "pending" /\ steer(t).rows = Pending(d, t)
    BY <1>5, <1>11
  <2>2. ActiveRuns(d, t) \subseteq Nat
    BY <1>3 DEF ActiveRuns
  <2>3. steer(t) \in Steer
    BY <1>4, <2>1, <2>2 DEF Steer
  <2> HIDE DEF steer
  <2>4. /\ more \in Seq(Steer) /\ Len(more) = n /\ more[n] = steer(t)
        /\ \A j \in 1 .. Len(d.steers[t]) : more[j] = d.steers[t][j]
    BY <1>3, <2>3, AppendProperties
  <2>5. DOMAIN more = 1 .. n
    <3> HIDE DEF more, n
    <3> QED
      BY <2>4, LenProperties
  <2>6. DOMAIN more = DOMAIN d.steers[t] \cup {n}
    <3> HIDE DEF more
    <3> QED
      BY <1>3, <2>5
  <2>7. e.runs[t] = d.runs[t] /\ e.steers[t] = more /\ Carrier(t) = SteerOf(n)
    BY <1>2, <1>5, <1>11
  <2>8. HandedTo(d, e, t, SteerOf(n))
    BY <1>9, <1>11, <2>7
  <2> HIDE DEF more
  <2>9. SteeredTo(d, e, t)
    BY <1>3, <2>1, <2>4, <2>6, <2>7, <2>8 DEF SteeredTo
  <2> QED
    BY <1>1, <2>9
<1>12. CASE t \notin woken \cup steered
  <2>1. e.runs[t] = d.runs[t] /\ e.steers[t] = d.steers[t]
    BY <1>2, <1>12
  <2>2. \A k \in Rows(d, t) : k \in DOMAIN e.inbox /\ e.inbox[k] = d.inbox[k]
    BY <1>2, <1>6, <1>7, <1>12 DEF Rows
  <2> QED
    BY <1>1, <1>8, <2>1, <2>2 DEF Untouched
<1> QED
  BY <1>10, <1>11, <1>12

LEMMA WakeThreadsStanding ==
  ASSUME NEW d, NEW q, NEW tn, Standing(d, q, tn), NEW m, \A u \in Threads : Held(d, m, u)
  PROVE  Standing(WakeThreads(d), q, tn)
<1> DEFINE e == WakeThreads(d)
<1>1. Typed(d) /\ Typed(e) /\ Grows(d, e)
  BY WakeThreadsFacts DEF Standing
<1>2. ASSUME NEW t \in Threads PROVE Apart(e, t, q[t], tn[t])
  <2>1. /\ TurnLinked(d, t, tn[t]) /\ \A n \in DOMAIN q[t] : ItemLinked(d, t, q[t][n])
        /\ Apart(d, t, q[t], tn[t])
    BY DEF Standing, TurnsTyped, QueuesTyped, AllApart
  <2>2. (Untouched(d, e, t) /\ Rows(e, t) = Rows(d, t)) \/ WokenTo(d, e, t) \/ SteeredTo(d, e, t)
    BY <1>1, WakeThreadsParts
  <2> HIDE DEF e
  <2>3. CASE Untouched(d, e, t) /\ Rows(e, t) = Rows(d, t)
    <3>1. Eases(d, e, t, q[t], tn[t])
      BY <1>1, <2>3, UntouchedEases
    <3>2. tn[t].run \in 0 .. Len(d.runs[t]) /\ tn[t].unread \cup tn[t].taken \subseteq DOMAIN d.steers[t]
      BY <2>1 DEF TurnLinked
    <3> QED
      BY <1>1, <2>1, <3>1, <3>2, EasesKeeps
  <2>4. CASE WokenTo(d, e, t)
    BY <1>1, <2>1, <2>4, WokenApart
  <2>5. CASE SteeredTo(d, e, t)
    BY <1>1, <2>1, <2>5, SteeredApart
  <2> QED
    BY <2>2, <2>3, <2>4, <2>5
<1> HIDE DEF e
<1> QED
  BY <1>1, <1>2, TurnsGrow, QueuesGrow DEF Standing, AllApart, e
-----------------------------------------------------------------------------
(* A boot.                                                                   *)

\* No turn is there and no item is claimed.
Off(q, tn) ==
    \A t \in Threads : /\ tn[t].run = 0 /\ tn[t].unread \cup tn[t].taken = {}
                       /\ \A n \in DOMAIN q[t] : ~q[t][n].claimed

\* No turn.start is waiting or running.
Asleep(d) == \A t \in Threads : \A i \in DOMAIN d.runs[t] : d.runs[t][i].start \notin InFlight

LEMMA NothingDue ==
  ASSUME NEW d, NEW q, NEW tn, Off(q, tn), Asleep(d), NEW t \in Threads, NEW row
  PROVE  ~Due(d, t, q[t], tn[t], row)
BY DEF Off, Asleep, Due, IsLive, InFlight

LEMMA CancelProcessBoundStanding ==
  ASSUME NEW d, NEW q, NEW tn, Standing(d, q, tn), Off(q, tn)
  PROVE  Standing(CancelProcessBound(d), q, tn) /\ Asleep(CancelProcessBound(d))
<1> DEFINE cut(r) == [r EXCEPT !.start = IF r.start \in InFlight THEN "cancelled" ELSE r.start]
           dropped(s) == [s EXCEPT !.status = IF s.status = "pending" THEN "cancelled" ELSE s.status]
           runs == [t \in Threads |-> [i \in DOMAIN d.runs[t] |-> cut(d.runs[t][i])]]
           steers == [t \in Threads |-> [j \in DOMAIN d.steers[t] |-> dropped(d.steers[t][j])]]
           e == [d EXCEPT !.runs = runs, !.steers = steers]
<1>1. CancelProcessBound(d) = e
  BY DEF CancelProcessBound
<1>2. Typed(d) /\ Typed(e) /\ Grows(d, e)
  BY <1>1, CancelProcessBoundFacts DEF Standing
<1>3. e.runs = runs /\ e.steers = steers /\ e.inbox = d.inbox
  BY <1>2 DEF Typed, DB
<1>4. \A t \in Threads : /\ \A i \in DOMAIN d.runs[t] : d.runs[t][i] \in Run
                         /\ \A j \in DOMAIN d.steers[t] : d.steers[t][j] \in Steer
                         /\ DOMAIN d.steers[t] = 1 .. Len(d.steers[t]) /\ Len(d.steers[t]) \in Nat
                         /\ DOMAIN e.steers[t] = 1 .. Len(e.steers[t]) /\ Len(e.steers[t]) \in Nat
  BY <1>2, Parts DEF Typed
<1>5. \A r \in Run : RunEases(r, cut(r)) /\ cut(r).start \notin InFlight
  BY DEF Run, RunEases, InFlight
<1>6. \A s \in Steer : SteerEases(s, dropped(s))
  BY DEF Steer, SteerEases
<1> HIDE DEF cut, dropped
<1>7. ASSUME NEW t \in Threads
      PROVE  /\ DOMAIN e.runs[t] = DOMAIN d.runs[t]
             /\ \A i \in DOMAIN d.runs[t] : RunEases(d.runs[t][i], e.runs[t][i]) /\ e.runs[t][i].start \notin InFlight
             /\ DOMAIN e.steers[t] = DOMAIN d.steers[t]
             /\ \A j \in DOMAIN d.steers[t] : SteerEases(d.steers[t][j], e.steers[t][j])
  <2>1. /\ runs[t] = [i \in DOMAIN d.runs[t] |-> cut(d.runs[t][i])]
        /\ steers[t] = [j \in DOMAIN d.steers[t] |-> dropped(d.steers[t][j])]
    OBVIOUS
  <2> HIDE DEF e, runs, steers
  <2>2. /\ DOMAIN e.runs[t] = DOMAIN d.runs[t] /\ DOMAIN e.steers[t] = DOMAIN d.steers[t]
        /\ \A i \in DOMAIN d.runs[t] : e.runs[t][i] = cut(d.runs[t][i])
        /\ \A j \in DOMAIN d.steers[t] : e.steers[t][j] = dropped(d.steers[t][j])
    BY <1>3, <2>1
  <2> QED
    BY <1>4, <1>5, <1>6, <2>2
<1> HIDE DEF e
<1>8. Asleep(e)
  BY <1>7 DEF Asleep
<1>9. ASSUME NEW t \in Threads PROVE Eases(d, e, t, q[t], tn[t])
  <2>1. Rows(e, t) = Rows(d, t)
    BY <1>3 DEF Rows
  <2>2. \A k \in Rows(d, t) : LooksSame(d.inbox[k], e.inbox[k])
    BY <1>3 DEF LooksSame
  <2>3. ~IsLive(e, t, tn[t]) /\ \A n \in DOMAIN q[t] : ~q[t][n].claimed
    BY DEF Off, IsLive
  <2>4. Len(e.steers[t]) = Len(d.steers[t])
    BY <1>4, <1>7
  <2> QED
    BY <1>7, <2>1, <2>2, <2>3, <2>4 DEF Eases
<1>10. Standing(e, q, tn)
  BY <1>2, <1>9, AllEaseStanding
<1> QED
  BY <1>1, <1>8, <1>10

LEMMA EndAllStanding ==
  ASSUME NEW d, NEW q, NEW tn, Standing(d, q, tn), Off(q, tn), Asleep(d), NEW runs, NEW status \in Terminal
  PROVE  Standing(EndAll(d, runs, status), q, tn) /\ Asleep(EndAll(d, runs, status))
<1> DEFINE over(t, i) == [d.runs[t][i] EXCEPT !.status = IF i \in runs[t] THEN status ELSE @]
           ended == [t \in Threads |-> [i \in DOMAIN d.runs[t] |-> over(t, i)]]
           threads == {t \in Threads : runs[t] # {}}
           f == [d EXCEPT !.runs = ended]
           e == Settle(f, {}, threads)
<1>1. EndAll(d, runs, status) = e
  BY DEF EndAll
<1>2. Typed(d) /\ \A t \in Threads : /\ DOMAIN d.runs[t] = 1 .. Len(d.runs[t]) /\ Len(d.runs[t]) \in Nat
                                     /\ \A i \in DOMAIN d.runs[t] : d.runs[t][i] \in Run /\ d.runs[t][i].rows \subseteq Rows(d, t)
  BY Parts DEF Standing, Typed, RunLinked
<1>3. \A t \in Threads : \A i \in DOMAIN d.runs[t] :
        /\ over(t, i) \in Run /\ over(t, i).rows \subseteq Rows(d, t) /\ over(t, i).item = d.runs[t][i].item
        /\ over(t, i).start = d.runs[t][i].start /\ RunEases(d.runs[t][i], over(t, i))
  <2> SUFFICES ASSUME NEW t \in Threads, NEW i \in DOMAIN d.runs[t]
               PROVE  /\ over(t, i) \in Run /\ over(t, i).rows \subseteq Rows(d, t)
                      /\ over(t, i).item = d.runs[t][i].item
                      /\ over(t, i).start = d.runs[t][i].start /\ RunEases(d.runs[t][i], over(t, i))
    OBVIOUS
  <2>1. d.runs[t][i] \in Run /\ d.runs[t][i].rows \subseteq Rows(d, t) /\ d.runs[t][i].start # "pending"
    BY <1>2 DEF Asleep, InFlight
  <2> QED
    BY <2>1 DEF Run, Statuses, RunEases
<1> HIDE DEF over
<1>4. \A t \in Threads :
        /\ ended[t] \in [1 .. Len(d.runs[t]) -> Run]
        /\ \A i \in DOMAIN d.runs[t] :
             /\ ended[t][i].rows \subseteq Rows(d, t) /\ ended[t][i].item = d.runs[t][i].item
             /\ ended[t][i].start = d.runs[t][i].start /\ RunEases(d.runs[t][i], ended[t][i])
  BY <1>2, <1>3
<1>5. ended = [t \in Threads |-> ended[t]]
  OBVIOUS
<1> HIDE DEF ended
<1>6. \A t \in Threads : ended[t] \in Seq(Run) /\ DOMAIN ended[t] = DOMAIN d.runs[t]
  BY <1>2, <1>4, IsSeq
<1>7. ended \in [Threads -> Seq(Run)]
  BY <1>5, <1>6
<1>8. Typed(f)
  BY <1>2, <1>4, <1>6, <1>7, RunsReplaced DEF RunLinked
<1>9. f.runs = ended /\ f.steers = d.steers /\ f.inbox = d.inbox
  BY <1>2 DEF Typed, DB
<1> HIDE DEF f
<1>10. Grows(d, f)
  BY <1>4, <1>6, <1>9 DEF Grows
<1>11. ASSUME NEW t \in Threads PROVE Eases(d, f, t, q[t], tn[t])
  <2>1. tn[t].run = 0
    BY DEF Off
  <2> QED
    BY <1>4, <1>6, <1>9, <2>1, RunsEase
<1>12. Standing(f, q, tn) /\ Asleep(f)
  BY <1>4, <1>6, <1>8, <1>9, <1>10, <1>11, AllEaseStanding DEF Asleep
<1>13. threads \in SUBSET Threads
  OBVIOUS
<1> HIDE DEF threads
<1>14. Standing(e, q, tn) /\ e.runs = f.runs
  BY <1>8, <1>12, <1>13, SettleStanding, SettleFacts DEF SettledFrom
<1> QED
  BY <1>1, <1>12, <1>14 DEF Asleep

LEMMA RecoverQueuedRowsStanding ==
  ASSUME NEW d, NEW q, NEW tn, Standing(d, q, tn), Off(q, tn), Asleep(d)
  PROVE  Standing(RecoverQueuedRows(d), q, tn)
<1> DEFINE lost(k) == /\ d.inbox[k].status = "delivered" /\ d.inbox[k].by.kind = "item"
                      /\ \A n \in DOMAIN queue[d.inbox[k].to] : queue[d.inbox[k].to][n].steer # d.inbox[k].by.n
           back(k) == [d.inbox[k] EXCEPT !.status = "pending", !.by = Nobody]
           box == [k \in DOMAIN d.inbox |-> IF lost(k) THEN back(k) ELSE d.inbox[k]]
           e == [d EXCEPT !.inbox = box]
<1>1. RecoverQueuedRows(d) = e
  BY DEF RecoverQueuedRows
<1>2. Typed(d) /\ \A k \in DOMAIN d.inbox : d.inbox[k] \in Row /\ RowLinked(d, d.inbox[k])
  BY Parts DEF Standing, Typed
<1>3. \A k \in DOMAIN d.inbox :
        /\ back(k) \in Row /\ back(k).to = d.inbox[k].to /\ RowLinked(d, back(k))
        /\ d.inbox[k].status = "delivered" => GivenBack(d.inbox[k], back(k))
  <2> SUFFICES ASSUME NEW k \in DOMAIN d.inbox
               PROVE  /\ back(k) \in Row /\ back(k).to = d.inbox[k].to /\ RowLinked(d, back(k))
                      /\ d.inbox[k].status = "delivered" => GivenBack(d.inbox[k], back(k))
    OBVIOUS
  <2>1. d.inbox[k] \in Row
    BY <1>2
  <2> QED
    BY <2>1 DEF Row, RowLinked, Nobody, GivenBack
<1> HIDE DEF back
<1>4. /\ box \in [DOMAIN d.inbox -> Row]
      /\ \A k \in DOMAIN d.inbox : box[k].to = d.inbox[k].to /\ RowLinked(d, box[k])
      /\ \A k \in DOMAIN d.inbox : LooksSame(d.inbox[k], box[k]) \/ GivenBack(d.inbox[k], box[k])
  BY <1>2, <1>3 DEF LooksSame
<1> HIDE DEF box
<1>5. RewriteOf(d, e, DOMAIN d.inbox)
  BY <1>2, <1>4, Rewritten
<1>6. e.inbox = box
  BY <1>2 DEF Typed, DB
<1> HIDE DEF e
<1>7. \A k \in DOMAIN d.inbox :
        ~Due(d, d.inbox[k].to, q[d.inbox[k].to], tn[d.inbox[k].to], d.inbox[k])
  <2> SUFFICES ASSUME NEW k \in DOMAIN d.inbox
               PROVE  ~Due(d, d.inbox[k].to, q[d.inbox[k].to], tn[d.inbox[k].to], d.inbox[k])
    OBVIOUS
  <2>1. d.inbox[k].to \in Threads
    BY <1>2 DEF Row
  <2> QED
    BY <2>1, NothingDue
<1>8. Standing(e, q, tn)
  BY <1>4, <1>5, <1>6, <1>7, RewriteApart DEF Standing
<1> QED
  BY <1>1, <1>8

LEMMA PendingAgainStanding ==
  ASSUME NEW d, NEW q, NEW tn, Standing(d, q, tn), Off(q, tn), Asleep(d), NEW rows, NEW failed \in BOOLEAN
  PROVE  Standing(PendingAgain(d, rows, failed), q, tn) /\ Asleep(PendingAgain(d, rows, failed))
<1>1. ASSUME NEW k \in rows \cap DOMAIN d.inbox
      PROVE  ~Due(d, d.inbox[k].to, q[d.inbox[k].to], tn[d.inbox[k].to], d.inbox[k])
  <2>1. d.inbox[k].to \in Threads
    BY Parts DEF Standing, Typed, Row
  <2> QED
    BY <2>1, NothingDue
<1>2. Standing(PendingAgain(d, rows, failed), q, tn)
  BY <1>1, PendingAgainApart DEF Standing
<1>3. PendingAgain(d, rows, failed).runs = d.runs
  BY PendingAgainRewrites DEF Standing, RewriteOf
<1> QED
  BY <1>2, <1>3 DEF Asleep

\* A boot: what was about to be shown no longer is.
LEMMA BootReads ==
  ASSUME Inv, ReadInv, CrashAndBoot
  PROVE  ReadInv'
<1> DEFINE items == [t \in Threads |-> [n \in DOMAIN queue[t] |-> [queue[t][n] EXCEPT !.claimed = FALSE]]]
           none == [t \in Threads |-> NoTurn]
           cancelled == CancelProcessBound(db)
           cut == EndAll(cancelled, CutOff(cancelled), "cut")
           orphaned == EndAll(cut, OrphanedChildren(cut), "cut")
           wakes == QueuedWakes(orphaned)
           dropped == EndAll(orphaned, wakes, "cancelled")
           rows == UNION {UNION {orphaned.runs[t][i].rows : i \in wakes[t]} : t \in Threads}
           again == PendingAgain(dropped, rows, TRUE)
           restored == Restore(again, {}, DOMAIN orphaned.inbox)
           woken == Settle(restored, {}, Threads)
           followed == EndAll(woken, OrphanedFollowUps(woken), "cancelled")
           e == RecoverQueuedRows(followed)
<1>1. db' = e /\ turn' = none /\ queue' = items
  BY Zenon DEF CrashAndBoot, RecoverWakes
<1>2. Typed(db) /\ QueuesTyped(db, queue) /\ AllApart(db, queue, turn)
  BY InvParts DEF ReadInv
<1>3. \A t \in Threads : /\ DOMAIN queue[t] = 1 .. Len(queue[t])
                         /\ \A n \in DOMAIN queue[t] : queue[t][n] \in Item
  BY <1>2, ItemsFacts
<1>4. \A t \in Threads : /\ DOMAIN items[t] = DOMAIN queue[t]
                         /\ \A n \in DOMAIN queue[t] :
                              /\ items[t][n].steer = queue[t][n].steer /\ items[t][n].run = queue[t][n].run
                              /\ ~items[t][n].claimed
  BY <1>3 DEF Item
<1>5. none \in [Threads -> Turn] /\ \A t \in Threads : none[t].run = 0 /\ none[t].unread \cup none[t].taken = {}
                                                      /\ TurnLinked(db, t, none[t])
  <2>1. NoTurn \in Turn /\ NoTurn.run = 0 /\ NoTurn.unread \cup NoTurn.taken = {}
    BY DEF NoTurn, Turn
  <2>2. \A t \in Threads : Len(db.runs[t]) \in Nat
    BY <1>2, Parts DEF Typed
  <2> HIDE DEF NoTurn
  <2> QED
    BY <2>1, <2>2 DEF TurnLinked
<1>6. QueuesTyped(db, items)
  BY <1>2, UnclaimedQueues
<1> HIDE DEF items, none
<1>7. Off(items, none)
  BY <1>4, <1>5 DEF Off
<1>8. ASSUME NEW t \in Threads PROVE Apart(db, t, items[t], none[t])
  <2>1. Apart(db, t, queue[t], turn[t])
    BY <1>2 DEF AllApart
  <2>2. Apart(db, t, queue[t], none[t])
    BY <1>5, <2>1, TurnOff
  <2> QED
    BY <1>4, <2>2, ItemsApart
<1>9. Standing(db, items, none)
  BY <1>2, <1>5, <1>6, <1>8 DEF Standing, TurnsTyped, AllApart
<1>10. "cut" \in Terminal /\ "cancelled" \in Terminal /\ TRUE \in BOOLEAN
  BY DEF Terminal
<1>11. Standing(cancelled, items, none) /\ Asleep(cancelled)
  BY <1>7, <1>9, CancelProcessBoundStanding
<1> HIDE DEF cancelled
<1>12. Standing(cut, items, none) /\ Asleep(cut)
  BY <1>7, <1>10, <1>11, EndAllStanding
<1> HIDE DEF cut
<1>13. Standing(orphaned, items, none) /\ Asleep(orphaned)
  BY <1>7, <1>10, <1>12, EndAllStanding
<1> HIDE DEF orphaned
<1>14. Standing(dropped, items, none) /\ Asleep(dropped)
  BY <1>7, <1>10, <1>13, EndAllStanding
<1> HIDE DEF dropped, rows
<1>15. Standing(again, items, none) /\ Asleep(again)
  BY <1>7, <1>10, <1>14, PendingAgainStanding
<1> HIDE DEF again
<1>16. Standing(restored, items, none) /\ restored.runs = again.runs
  BY <1>15, RestoreStanding, RestoreFacts DEF Standing
<1> HIDE DEF restored
<1>17. Standing(woken, items, none) /\ woken.runs = restored.runs
  BY <1>16, SettleStanding, SettleFacts DEF Standing, SettledFrom
<1>18. Asleep(woken)
  BY <1>15, <1>16, <1>17 DEF Asleep
<1> HIDE DEF woken
<1>19. Standing(followed, items, none) /\ Asleep(followed)
  BY <1>7, <1>10, <1>17, <1>18, EndAllStanding
<1> HIDE DEF followed
<1>20. Standing(e, items, none)
  BY <1>7, <1>19, RecoverQueuedRowsStanding
<1> QED
  BY <1>1, <1>20 DEF Standing, ReadInv

\* A pass of the reconciler.
LEMMA ReconcileReads ==
  ASSUME Inv, ReadInv, NEW due, Reconcile(due)
  PROVE  ReadInv'
<1> DEFINE m == Memory(turn, background)
           restored == Restore(db, m, due)
           cancelled == CancelAcknowledgedWakes(restored, m, Threads)
<1>1. db' = WakeThreads(cancelled) /\ queue' = queue /\ turn' = turn
  BY DEF Reconcile
<1>2. Standing(db, queue, turn)
  BY InvParts DEF Standing, ReadInv
<1>3. Standing(restored, queue, turn)
  BY <1>2, RestoreStanding
<1> HIDE DEF restored, m
<1>4. Standing(cancelled, queue, turn) /\ \A u \in Threads : Held(cancelled, m, u)
  BY <1>3, CancelWakesStanding, CancelWakesFacts DEF Standing
<1> HIDE DEF cancelled
<1>5. Standing(WakeThreads(cancelled), queue, turn)
  BY <1>4, WakeThreadsStanding
<1> QED
  BY <1>1, <1>5 DEF Standing, ReadInv
-----------------------------------------------------------------------------
(* The steps of one thread.                                                  *)

LEMMA SameTables ==
  ASSUME NEW d, NEW e, Typed(d), Typed(e), NEW q, NEW tn, TurnsTyped(d, tn), QueuesTyped(d, q), AllApart(d, q, tn),
         e.runs = d.runs, e.steers = d.steers, e.inbox = d.inbox
  PROVE  AllApart(e, q, tn)
<1> SUFFICES ASSUME NEW u \in Threads PROVE Eases(d, e, u, q[u], tn[u])
  BY AllEase
<1>1. Untouched(d, e, u) /\ Rows(e, u) = Rows(d, u)
  BY DEF Untouched, Rows
<1> QED
  BY <1>1, UntouchedEases

LEMMA StepReads ==
  ASSUME Inv, ReadInv, Inv', NEW t \in Threads, NEW e, Typed(e), Beside(db, e, t),
         \A u \in Threads \ {t} : Rows(e, u) = Rows(db, u) /\ queue'[u] = queue[u] /\ turn'[u] = turn[u],
         Apart(e, t, queue'[t], turn'[t]),
         db' = e \/ \E m : db' = Settle(e, m, {t})
  PROVE  ReadInv'
<1>1. Typed(db) /\ TurnsTyped(db, turn) /\ QueuesTyped(db, queue) /\ AllApart(db, queue, turn)
  BY InvParts DEF ReadInv
<1>2. Typed(db') /\ TurnsTyped(db', turn') /\ QueuesTyped(db', queue')
  BY DEF Inv, TypeInv
<1>3. AllApart(e, queue', turn')
  BY <1>1, OneThread
<1>4. CASE db' = e
  BY <1>3, <1>4 DEF ReadInv
<1>5. CASE \E m : db' = Settle(e, m, {t})
  <2>1. PICK m : db' = Settle(e, m, {t})
    BY <1>5
  <2>0. {t} \in SUBSET Threads
    OBVIOUS
  <2>2. db'.runs = e.runs /\ db'.steers = e.steers
    <3>1. SettledFrom(e, Settle(e, m, {t}), Published(e, m, {t}))
      BY <2>0, SettleFacts
    <3> QED
      BY <2>1, <3>1 DEF SettledFrom
  <2>3. TurnsTyped(e, turn') /\ QueuesTyped(e, queue')
    BY <1>2, <2>2 DEF TurnsTyped, QueuesTyped, TurnLinked, ItemLinked
  <2>4. AllApart(Settle(e, m, {t}), queue', turn')
    BY <1>3, <2>0, <2>3, SettleApart
  <2> QED
    BY <2>1, <2>4 DEF ReadInv
<1> QED
  BY <1>4, <1>5

\* What a thread has before a step of it.
LEMMA ThreadParts ==
  ASSUME Inv, ReadInv, NEW t \in Threads
  PROVE  /\ Typed(db) /\ TurnLinked(db, t, turn[t]) /\ turn[t] \in Turn /\ Apart(db, t, queue[t], turn[t])
         /\ queue[t] \in Seq(Item) /\ DOMAIN queue[t] = 1 .. Len(queue[t]) /\ Len(queue[t]) \in Nat
         /\ \A n \in DOMAIN queue[t] : queue[t][n] \in Item /\ ItemLinked(db, t, queue[t][n])
         /\ turn \in [Threads -> Turn] /\ queue \in [Threads -> Seq(Item)]
         /\ db.runs[t] \in Seq(Run) /\ DOMAIN db.runs[t] = 1 .. Len(db.runs[t]) /\ Len(db.runs[t]) \in Nat
         /\ DOMAIN db.steers[t] = 1 .. Len(db.steers[t]) /\ Len(db.steers[t]) \in Nat
         /\ DOMAIN db.inbox \subseteq Nat
         /\ \A i \in DOMAIN db.runs[t] : db.runs[t][i] \in Run /\ db.runs[t][i].rows \in SUBSET Rows(db, t)
                                         /\ RunApart(db, t, i)
         /\ \A j \in DOMAIN db.steers[t] : /\ db.steers[t][j] \in Steer /\ db.steers[t][j].rows \in SUBSET Rows(db, t)
                                           /\ db.steers[t][j].run \in DOMAIN db.runs[t] /\ SteerApart(db, t, j)
         /\ 0 \notin turn[t].unread \cup turn[t].taken
<1>1. Typed(db) /\ TurnsTyped(db, turn) /\ QueuesTyped(db, queue) /\ AllApart(db, queue, turn)
  BY InvParts DEF ReadInv
<1>2. /\ DOMAIN db.runs[t] = 1 .. Len(db.runs[t]) /\ Len(db.runs[t]) \in Nat /\ db.runs[t] \in Seq(Run)
      /\ DOMAIN db.steers[t] = 1 .. Len(db.steers[t]) /\ Len(db.steers[t]) \in Nat
      /\ DOMAIN db.inbox \subseteq Nat
      /\ \A i \in DOMAIN db.runs[t] : db.runs[t][i] \in Run
      /\ \A j \in DOMAIN db.steers[t] : db.steers[t][j] \in Steer
  BY <1>1, Parts DEF Typed
<1>3. /\ \A i \in DOMAIN db.runs[t] : db.runs[t][i].rows \in SUBSET Rows(db, t)
      /\ \A j \in DOMAIN db.steers[t] : /\ db.steers[t][j].rows \in SUBSET Rows(db, t)
                                        /\ db.steers[t][j].run \in DOMAIN db.runs[t]
  BY <1>1 DEF Typed, RunLinked, SteerLinked
<1>4. TurnLinked(db, t, turn[t]) /\ turn \in [Threads -> Turn] /\ queue \in [Threads -> Seq(Item)]
  BY <1>1 DEF TurnsTyped, QueuesTyped
<1>5. Apart(db, t, queue[t], turn[t])
  BY <1>1 DEF AllApart
<1>6. 0 \notin turn[t].unread \cup turn[t].taken
  BY <1>2, <1>4 DEF TurnLinked
<1>7. /\ queue[t] \in Seq(Item) /\ DOMAIN queue[t] = 1 .. Len(queue[t]) /\ Len(queue[t]) \in Nat
      /\ \A n \in DOMAIN queue[t] : queue[t][n] \in Item /\ ItemLinked(db, t, queue[t][n])
  BY <1>1, ItemsFacts
<1>8. /\ \A i \in DOMAIN db.runs[t] : RunApart(db, t, i)
      /\ \A j \in DOMAIN db.steers[t] : SteerApart(db, t, j)
  BY <1>5 DEF Apart
<1> QED
  BY <1>1, <1>2, <1>3, <1>4, <1>5, <1>6, <1>7, <1>8

\* Items behind those of a queue, and a queue without its first.
LEMMA ConcatApart ==
  ASSUME NEW d, NEW t, NEW items \in Seq(Item), NEW x, Apart(d, t, items, x), NEW more \in Seq(Item),
         \A n \in DOMAIN more : ItemApart(d, t, more[n]) /\ more[n].steer \notin x.unread \cup x.taken
  PROVE  Apart(d, t, items \o more, x)
<1> DEFINE all == items \o more
<1>1. /\ Len(items) \in Nat /\ DOMAIN items = 1 .. Len(items) /\ Len(more) \in Nat /\ DOMAIN more = 1 .. Len(more)
      /\ Len(all) = Len(items) + Len(more) /\ DOMAIN all = 1 .. Len(all)
      /\ \A n \in 1 .. Len(items) + Len(more) : all[n] = IF n <= Len(items) THEN items[n] ELSE more[n - Len(items)]
  BY ConcatProperties, LenProperties
<1> HIDE DEF all
<1>2. ASSUME NEW n \in DOMAIN all
      PROVE  \/ \E m \in DOMAIN items : all[n] = items[m]
             \/ ItemApart(d, t, all[n]) /\ all[n].steer \notin x.unread \cup x.taken
  <2>1. CASE n <= Len(items)
    <3>1. n \in DOMAIN items /\ all[n] = items[n]
      BY <1>1, <1>2, <2>1
    <3> QED
      BY <3>1
  <2>2. CASE ~(n <= Len(items))
    <3>1. n - Len(items) \in DOMAIN more /\ all[n] = more[n - Len(items)]
      BY <1>1, <1>2, <2>2
    <3> QED
      BY <3>1
  <2> QED
    BY <2>1, <2>2
<1>3. Apart(d, t, all, x)
  BY <1>2, ItemsApart
<1> QED
  BY <1>3 DEF all

LEMMA AppendApart ==
  ASSUME NEW d, NEW t, NEW items \in Seq(Item), NEW x, Apart(d, t, items, x), NEW item \in Item,
         ItemApart(d, t, item), item.steer \notin x.unread \cup x.taken
  PROVE  Apart(d, t, Append(items, item), x)
<1> DEFINE all == Append(items, item)
<1>1. /\ Len(all) = Len(items) + 1 /\ all[Len(items) + 1] = item
      /\ \A n \in 1 .. Len(items) : all[n] = items[n]
      /\ all \in Seq(Item)
  BY AppendProperties
<1> HIDE DEF all
<1>2. /\ DOMAIN items = 1 .. Len(items) /\ Len(items) \in Nat /\ DOMAIN all = 1 .. Len(items) + 1
  BY <1>1, LenProperties
<1>3. \A n \in DOMAIN all : (n \in DOMAIN items /\ all[n] = items[n]) \/ all[n] = item
  BY <1>1, <1>2
<1>4. Apart(d, t, all, x)
  BY <1>3, ItemsApart
<1> QED
  BY <1>4 DEF all

LEMMA TailApart ==
  ASSUME NEW d, NEW t, NEW items \in Seq(Item), items # <<>>, NEW x, Apart(d, t, items, x)
  PROVE  Apart(d, t, Tail(items), x)
<1>1. /\ Tail(items) \in Seq(Item) /\ Len(Tail(items)) = Len(items) - 1
      /\ \A n \in 1 .. Len(Tail(items)) : Tail(items)[n] = items[n + 1]
  BY HeadTailProperties
<1>2. DOMAIN items = 1 .. Len(items) /\ Len(items) \in Nat /\ DOMAIN Tail(items) = 1 .. Len(Tail(items))
  BY <1>1, LenProperties
<1>3. \A n \in DOMAIN Tail(items) : n + 1 \in DOMAIN items /\ Tail(items)[n] = items[n + 1]
  BY <1>1, <1>2
<1> QED
  BY <1>3, ItemsApart

LEMMA ItemsAtOld ==
  ASSUME NEW items \in Seq(Item), NEW positions \in SUBSET DOMAIN items
  PROVE  \A n \in DOMAIN ItemsAt(items, positions) : \E m \in positions : ItemsAt(items, positions)[n] = items[m]
<1>1. DOMAIN items = 1 .. Len(items) /\ Len(items) \in Nat
  BY LenProperties
<1>2. positions \in SUBSET Nat /\ IsFiniteSet(positions)
  <2>1. IsFiniteSet(1 .. Len(items))
    BY <1>1, FS_Interval
  <2> QED
    BY <1>1, <2>1, FS_Subset
<1>3. InOrder(positions) \in [1 .. Cardinality(positions) -> positions]
  BY <1>2, InOrderFacts
<1> QED
  BY <1>3 DEF ItemsAt

\* A queue that keeps some of its items.
LEMMA KeptApart ==
  ASSUME NEW d, NEW t, NEW items \in Seq(Item), NEW x, Apart(d, t, items, x), NEW positions \in SUBSET DOMAIN items
  PROVE  Apart(d, t, ItemsAt(items, positions), x)
<1>1. \A n \in DOMAIN ItemsAt(items, positions) : \E m \in DOMAIN items : ItemsAt(items, positions)[n] = items[m]
  BY ItemsAtOld
<1> QED
  BY <1>1, ItemsApart
-----------------------------------------------------------------------------
(* Sends, and what happens beside the notices.                               *)

\* A task's run has no notices.
LEMMA DelegateReads ==
  ASSUME Inv, ReadInv, NEW c \in Threads, Delegate(c)
  PROVE  ReadInv'
<1>0. Inv'
  BY DelegateStep
<1> DEFINE i == Len(db.runs[c]) + 1
           new == NewRun("task", {}, 0)
           runs == Enqueue(Append(db.runs[c], new), i)
           f == [db EXCEPT !.runs[c] = runs]
           task == [child |-> c, run |-> i, status |-> "running", result |-> 0, since |-> Len(db.inbox)]
<1>1. /\ Typed(db) /\ TurnLinked(db, c, turn[c]) /\ Apart(db, c, queue[c], turn[c]) /\ db.runs[c] \in Seq(Run)
      /\ \A n \in DOMAIN queue[c] : ItemLinked(db, c, queue[c][n])
      /\ \A n \in DOMAIN db.runs[c] : db.runs[c][n].rows \in SUBSET Rows(db, c)
  BY ThreadParts
<1>2. /\ new \in Run /\ new.status = "queued" /\ new.rows = {} /\ new.item = 0 /\ new.source = "task"
  BY NewRunType
<1> HIDE DEF new
<1>3. /\ runs \in Seq(Run) /\ DOMAIN runs = DOMAIN db.runs[c] \cup {i} /\ i \notin DOMAIN db.runs[c]
      /\ \A n \in DOMAIN db.runs[c] : runs[n] = db.runs[c][n]
      /\ \E at \in Nat : runs[i] = [new EXCEPT !.start = "pending", !.at = at]
  BY <1>1, <1>2, NewStart
<1>4. runs[i].rows = {} /\ runs[i].status = "queued" /\ runs[i].item = 0 /\ runs[i].source \in Plain
  BY <1>2, <1>3 DEF Run, Plain
<1>5. db' = [f EXCEPT !.tasks = Append(@, task)]
  <2>1. f.tasks = db.tasks
    BY <1>1 DEF Typed, DB
  <2> QED
    BY <1>1, <2>1 DEF Delegate, new, Typed, DB
<1> HIDE DEF runs
<1>6. RunsOf(db, f, c, runs)
  <2>1. \A n \in DOMAIN runs : runs[n].rows \subseteq Rows(db, c)
    BY <1>1, <1>3, <1>4
  <2> QED
    BY <1>1, <1>3, <2>1, RunsChanged
<1> HIDE DEF i
<1>7. Apart(f, c, queue[c], turn[c])
  BY <1>1, <1>3, <1>4, <1>6, PlainAdded
<1>8. db'.runs = f.runs /\ db'.steers = f.steers /\ db'.inbox = f.inbox
  BY <1>1, <1>5 DEF Typed, DB
<1> HIDE DEF f, task
<1>9. Typed(f) /\ Grows(db, f) /\ Beside(db, f, c) /\ \A u \in Threads : Rows(f, u) = Rows(db, u)
  BY <1>6 DEF RunsOf
<1>10. queue' = queue /\ turn' = turn
  BY DEF Delegate
<1>11. TurnsTyped(db, turn) /\ QueuesTyped(db, queue) /\ AllApart(db, queue, turn) /\ Typed(db')
  BY <1>0, InvParts DEF ReadInv, Inv, TypeInv
<1>12. AllApart(f, queue, turn)
  BY <1>1, <1>7, <1>9, <1>11, OneThread
<1>13. TurnsTyped(f, turn) /\ QueuesTyped(f, queue)
  BY <1>1, <1>9, <1>11, TurnsGrow, QueuesGrow
<1>14. AllApart(db', queue, turn)
  BY <1>8, <1>9, <1>11, <1>12, <1>13, SameTables
<1> QED
  BY <1>10, <1>14 DEF ReadInv

LEMMA AskReads ==
  ASSUME Inv, ReadInv, NEW t \in Threads, Ask(t)
  PROVE  ReadInv'
<1>0. Inv'
  BY AskStep
<1> DEFINE i == Len(db.runs[t]) + 1
           direct == ~TurnRunning(t) /\ queue[t] = <<>>
           new == NewRun("person", {}, 0)
           asked == Append(db.runs[t], new)
           runs == IF direct THEN Enqueue(asked, i) ELSE asked
           f == [db EXCEPT !.runs[t] = runs]
           task == [child |-> t, run |-> i, status |-> "running", result |-> 0, since |-> Len(db.inbox)]
           item == [steer |-> 0, run |-> i, claimed |-> FALSE]
           items == IF direct THEN queue[t] ELSE Append(queue[t], item)
           q2 == [queue EXCEPT ![t] = items]
<1>1. /\ Typed(db) /\ TurnLinked(db, t, turn[t]) /\ Apart(db, t, queue[t], turn[t]) /\ db.runs[t] \in Seq(Run)
      /\ \A n \in DOMAIN queue[t] : ItemLinked(db, t, queue[t][n])
      /\ \A n \in DOMAIN db.runs[t] : db.runs[t][n].rows \in SUBSET Rows(db, t)
      /\ DOMAIN db.runs[t] = 1 .. Len(db.runs[t]) /\ Len(db.runs[t]) \in Nat
      /\ queue \in [Threads -> Seq(Item)] /\ 0 \notin turn[t].unread \cup turn[t].taken
  BY ThreadParts
<1>2. /\ new \in Run /\ new.status = "queued" /\ new.rows = {} /\ new.item = 0 /\ new.source = "person"
      /\ new.start = "none"
  <2>1. new.start = "none"
    BY DEF NewRun
  <2> HIDE DEF new
  <2> QED
    BY <2>1, NewRunType DEF new
<1> HIDE DEF new
<1>3. /\ runs \in Seq(Run) /\ DOMAIN runs = DOMAIN db.runs[t] \cup {i} /\ i \notin DOMAIN db.runs[t]
      /\ \A n \in DOMAIN db.runs[t] : runs[n] = db.runs[t][n]
      /\ runs[i].rows = {} /\ runs[i].status = "queued" /\ runs[i].item = 0 /\ runs[i].source \in Plain
  <2>1. CASE direct
    <3> DEFINE started == Enqueue(asked, i)
    <3>1. /\ started \in Seq(Run) /\ DOMAIN started = DOMAIN db.runs[t] \cup {i} /\ i \notin DOMAIN db.runs[t]
          /\ \A n \in DOMAIN db.runs[t] : started[n] = db.runs[t][n]
          /\ \E at \in Nat : started[i] = [new EXCEPT !.start = "pending", !.at = at]
      BY <1>1, <1>2, NewStart
    <3> HIDE DEF started
    <3>2. started[i].rows = {} /\ started[i].status = "queued" /\ started[i].item = 0 /\ started[i].source \in Plain
      BY <1>2, <3>1 DEF Run, Plain
    <3>3. runs = started
      BY <2>1 DEF started
    <3> QED
      BY <3>1, <3>2, <3>3
  <2>2. CASE ~direct
    <3>1. runs = asked
      BY <2>2
    <3>2. /\ asked \in Seq(Run) /\ Len(asked) = i /\ asked[i] = new
          /\ \A n \in 1 .. Len(db.runs[t]) : asked[n] = db.runs[t][n]
      BY <1>1, <1>2, AppendProperties
    <3>3. DOMAIN asked = 1 .. i
      BY <3>2, LenProperties
    <3> HIDE DEF runs, asked
    <3>4. DOMAIN asked = DOMAIN db.runs[t] \cup {i} /\ i \notin DOMAIN db.runs[t]
      BY <1>1, <3>3
    <3> QED
      BY <1>1, <1>2, <3>1, <3>2, <3>4 DEF Plain
  <2> QED
    BY <2>1, <2>2
<1>4. /\ db' = IF Parent[t] = NoThread THEN f ELSE [f EXCEPT !.tasks = Append(@, task)]
      /\ queue' = q2 /\ turn' = turn
  <2>1. db' = IF Parent[t] = NoThread THEN f ELSE [f EXCEPT !.tasks = Append(db.tasks, task)]
    BY <1>1 DEF Ask, new, Typed, DB
  <2>2. f.tasks = db.tasks
    BY <1>1 DEF Typed, DB
  <2>3. queue' = q2
    BY <1>1 DEF Ask
  <2> QED
    BY <2>1, <2>2, <2>3 DEF Ask
<1> HIDE DEF runs, direct
<1>5. RunsOf(db, f, t, runs)
  <2>1. \A n \in DOMAIN runs : runs[n].rows \subseteq Rows(db, t)
    BY <1>1, <1>3
  <2> QED
    BY <1>1, <1>3, <2>1, RunsChanged
<1> HIDE DEF i
<1>6. Apart(f, t, queue[t], turn[t])
  BY <1>1, <1>3, <1>5, PlainAdded
<1>7. Apart(f, t, q2[t], turn[t])
  <2>1. i \in Nat /\ f.runs[t] = runs
    BY <1>1, <1>5 DEF i, RunsOf
  <2>2. item \in Item /\ ItemApart(f, t, item) /\ item.steer = 0
    BY <1>3, <2>1 DEF Item, ItemApart
  <2> HIDE DEF item, f
  <2>3. Apart(f, t, Append(queue[t], item), turn[t])
    BY <1>1, <1>6, <2>2, AppendApart
  <2> QED
    BY <1>1, <1>6, <2>3
<1>8. db'.runs = f.runs /\ db'.steers = f.steers /\ db'.inbox = f.inbox
  BY <1>1, <1>4 DEF Typed, DB
<1>9. \A u \in Threads \ {t} : q2[u] = queue[u]
  BY <1>1
<1> HIDE DEF f, task, q2
<1>10. Typed(f) /\ Beside(db, f, t) /\ \A u \in Threads : Rows(f, u) = Rows(db, u)
  BY <1>5 DEF RunsOf
<1>11. TurnsTyped(db, turn) /\ QueuesTyped(db, queue) /\ AllApart(db, queue, turn)
       /\ Typed(db') /\ TurnsTyped(db', turn) /\ QueuesTyped(db', q2)
  BY <1>0, <1>4, InvParts DEF ReadInv, Inv, TypeInv
<1>12. AllApart(f, q2, turn)
  BY <1>1, <1>7, <1>9, <1>10, <1>11, OneThread
<1>13. TurnsTyped(f, turn) /\ QueuesTyped(f, q2)
  BY <1>8, <1>11 DEF TurnsTyped, QueuesTyped, TurnLinked, ItemLinked
<1>14. AllApart(db', q2, turn)
  BY <1>8, <1>10, <1>11, <1>12, <1>13, SameTables
<1> QED
  BY <1>4, <1>14 DEF ReadInv

\* A step that leaves the notices alone.
LEMMA QuietReads ==
  ASSUME ReadInv, db' = db, queue' = queue,
         \A u \in Threads : turn'[u].run = turn[u].run /\ turn'[u].unread = turn[u].unread /\ turn'[u].taken = turn[u].taken
  PROVE  ReadInv'
<1> SUFFICES ASSUME NEW u \in Threads PROVE Apart(db, u, queue[u], turn'[u])
  BY DEF ReadInv, AllApart
<1>1. Apart(db, u, queue[u], turn[u])
  BY DEF ReadInv, AllApart
<1> QED
  BY <1>1, SameTurn

LEMMA SteerByPersonReads ==
  ASSUME Inv, ReadInv, NEW t \in Threads, SteerByPerson(t)
  PROVE  ReadInv'
<1>1. turn \in [Threads -> Turn] /\ turn' = [turn EXCEPT ![t].plain = TRUE] /\ db' = db /\ queue' = queue
  BY ThreadParts DEF SteerByPerson
<1>2. \A u \in Threads : turn'[u].run = turn[u].run /\ turn'[u].unread = turn[u].unread /\ turn'[u].taken = turn[u].taken
  BY <1>1 DEF Turn
<1> QED
  BY <1>1, <1>2, QuietReads

LEMMA StartBackgroundReads ==
  ASSUME ReadInv, NEW t \in Threads, StartBackground(t)
  PROVE  ReadInv'
BY QuietReads DEF StartBackground

LEMMA EndBackgroundReads ==
  ASSUME Inv, ReadInv, NEW t \in Threads, EndBackground(t)
  PROVE  ReadInv'
<1>1. Standing(db, queue, turn)
  BY InvParts DEF Standing, ReadInv
<1>2. db' = Settle(db, Memory(turn, background'), {t}) /\ queue' = queue /\ turn' = turn /\ {t} \in SUBSET Threads
  BY DEF EndBackground
<1> QED
  BY <1>1, <1>2, SettleStanding DEF Standing, ReadInv

\* The turn.start of a send is recorded again.
LEMMA RestartSendReads ==
  ASSUME Inv, ReadInv, NEW t \in Threads, NEW i \in DOMAIN db.runs[t], RestartSend(t, i)
  PROVE  ReadInv'
<1>0. Inv'
  BY RestartSendStep
<1>1. /\ Typed(db) /\ TurnLinked(db, t, turn[t]) /\ Apart(db, t, queue[t], turn[t]) /\ db.runs[t] \in Seq(Run)
      /\ \A n \in DOMAIN queue[t] : ItemLinked(db, t, queue[t][n])
      /\ db.runs[t][i] \in Run /\ db.runs[t][i].rows \in SUBSET Rows(db, t) /\ RunApart(db, t, i)
  BY ThreadParts
<1>2. /\ db.runs[t][i].source = "person" /\ db.runs[t][i].status = "queued" /\ queue' = queue /\ turn' = turn
      /\ db' = [db EXCEPT !.runs[t] = Enqueue(@, i)]
  BY DEF RestartSend
<1>3. db.runs[t][i].rows = {} /\ db.runs[t][i].item = 0 /\ HeldBy(db, t, StartOf(i)) = {}
  BY <1>1, <1>2 DEF RunApart, RunStands, Plain
<1>4. PICK at \in Nat : Enqueue(db.runs[t], i) = [db.runs[t] EXCEPT ![i] = [db.runs[t][i] EXCEPT !.start = "pending", !.at = at]]
  BY <1>1, Enqueued
<1> DEFINE run == [db.runs[t][i] EXCEPT !.start = "pending", !.at = at]
           runs == [db.runs[t] EXCEPT ![i] = run]
<1>5. /\ run \in Run /\ run.source = "person" /\ run.status = "queued" /\ run.rows = {} /\ run.item = 0
  BY <1>1, <1>2, <1>3 DEF Run, InFlight
<1>6. db' = [db EXCEPT !.runs[t][i] = run]
  <2>1. db' = [db EXCEPT !.runs[t] = runs]
    BY <1>2, <1>4
  <2> QED
    BY <2>1
<1> HIDE DEF run
<1>7. RunsOf(db, db', t, runs)
  BY <1>1, <1>3, <1>5, <1>6, RunChanged
<1>8. /\ DOMAIN runs = DOMAIN db.runs[t] /\ runs[i] = run /\ \A n \in DOMAIN runs \ {i} : runs[n] = db.runs[t][n]
  OBVIOUS
<1> HIDE DEF runs
<1>9. db'.runs[t] = runs /\ db'.inbox = db.inbox /\ Rows(db', t) = Rows(db, t)
  BY <1>7 DEF RunsOf
<1>10. HeldBy(db', t, StartOf(i)) = {}
  BY <1>3, <1>9 DEF HeldBy
<1>11. RunApart(db', t, i)
  BY <1>5, <1>8, <1>9, <1>10 DEF RunApart, RunStands, PromptUnread
<1>12. ~(IsLive(db', t, turn[t]) /\ turn[t].run = i)
  BY <1>5, <1>8, <1>9 DEF IsLive
<1>13. \A n \in DOMAIN queue[t] : ~(queue[t][n].steer # 0 /\ runs[i].item = queue[t][n].steer)
  BY <1>5, <1>8
<1>14. Apart(db', t, queue[t], turn[t])
  BY <1>1, <1>2, <1>3, <1>5, <1>7, <1>8, <1>11, <1>12, <1>13, OneRunApart
<1>15. Typed(db') /\ Beside(db, db', t) /\ \A u \in Threads : Rows(db', u) = Rows(db, u)
  BY <1>7 DEF RunsOf
<1> QED
  BY <1>0, <1>2, <1>14, <1>15, StepReads
-----------------------------------------------------------------------------
(* Turns that start.                                                         *)

\* One run ends, or its turn.start after it.
LEMMA RunEndsStanding ==
  ASSUME NEW d, NEW q, NEW tn, Standing(d, q, tn), NEW t \in Threads, NEW i \in DOMAIN d.runs[t], NEW run \in Run,
         RunEases(d.runs[t][i], run), run.status \in {"queued", "active"} => run.start = d.runs[t][i].start
  PROVE  LET e == [d EXCEPT !.runs[t][i] = run]
         IN Standing(e, q, tn) /\ RunsOf(d, e, t, [d.runs[t] EXCEPT ![i] = run])
<1> DEFINE runs == [d.runs[t] EXCEPT ![i] = run]
           e == [d EXCEPT !.runs[t][i] = run]
<1>1. Typed(d) /\ d.runs[t][i].rows \subseteq Rows(d, t) /\ run.rows = d.runs[t][i].rows /\ run.item = d.runs[t][i].item
  BY DEF Standing, Typed, RunLinked, RunEases
<1>2. RunsOf(d, e, t, runs)
  BY <1>1, RunChanged
<1> HIDE DEF e
<1>3. DOMAIN runs = DOMAIN d.runs[t] /\ runs[i] = run /\ \A n \in DOMAIN runs \ {i} : runs[n] = d.runs[t][n]
  OBVIOUS
<1> HIDE DEF runs
<1>4. /\ Typed(e) /\ Beside(d, e, t) /\ Grows(d, e) /\ e.runs[t] = runs /\ e.steers = d.steers /\ e.inbox = d.inbox
      /\ \A u \in Threads : Rows(e, u) = Rows(d, u)
  BY <1>2 DEF RunsOf
<1>5. ASSUME NEW u \in Threads PROVE Eases(d, e, u, q[u], tn[u])
  <2>1. CASE u # t
    BY <1>1, <1>4, <2>1, UntouchedEases DEF Beside
  <2>2. CASE u = t
    <3>1. \A n \in DOMAIN d.runs[t] : /\ RunEases(d.runs[t][n], runs[n])
                                      /\ runs[n].status \in {"queued", "active"} => runs[n].start = d.runs[t][n].start
      BY <1>3, RunEasesItself
    <3>2. \A j \in DOMAIN d.steers[t] : SteerEases(d.steers[t][j], e.steers[t][j])
      BY <1>4 DEF SteerEases
    <3>3. \A k \in Rows(d, t) : LooksSame(d.inbox[k], e.inbox[k])
      BY <1>4 DEF LooksSame
    <3>4. IsLive(e, t, tn[t]) => tn[t].run \in DOMAIN d.runs[t] /\ runs[tn[t].run].status = "active"
      <4>1. tn[t].run \in 0 .. Len(d.runs[t]) /\ DOMAIN d.runs[t] = 1 .. Len(d.runs[t]) /\ Len(d.runs[t]) \in Nat
        BY <1>1, Parts DEF Standing, TurnsTyped, TurnLinked, Typed
      <4> QED
        BY <1>4, <4>1 DEF IsLive
    <3> QED
      BY <1>3, <1>4, <2>2, <3>1, <3>2, <3>3, <3>4 DEF Eases
  <2> QED
    BY <2>1, <2>2
<1>6. Standing(e, q, tn)
  BY <1>1, <1>4, <1>5, AllEaseStanding
<1> QED
  BY <1>2, <1>6 DEF e, runs

\* A turn shows what was handed to its turn.start.
LEMMA StartsReads ==
  ASSUME Inv, ReadInv, NEW t \in Threads, NEW i \in DOMAIN db.runs[t], db.runs[t][i].start = "pending", turn[t].run = 0,
         NEW rows \in SUBSET db.runs[t][i].rows, HeldBy(db, t, StartOf(i)) \subseteq rows, Starts(db, t, i, rows),
         NEW items, Apart(db, t, items, turn[t]), \A n \in DOMAIN items : ItemLinked(db, t, items[n])
  PROVE  /\ Typed(db') /\ Beside(db, db', t) /\ \A u \in Threads : Rows(db', u) = Rows(db, u)
         /\ \A u \in Threads \ {t} : turn'[u] = turn[u]
         /\ Apart(db', t, items, turn'[t])
<1> DEFINE run == [db.runs[t][i] EXCEPT !.start = "running", !.status = "active", !.started = TRUE, !.rows = rows]
           runs == [db.runs[t] EXCEPT ![i] = run]
           x == [NoTurn EXCEPT !.run = i]
<1>1. /\ Typed(db) /\ db.runs[t][i] \in Run /\ db.runs[t][i].rows \in SUBSET Rows(db, t) /\ RunApart(db, t, i)
      /\ DOMAIN db.inbox \subseteq Nat /\ turn \in [Threads -> Turn]
      /\ Len(db.runs[t]) \in Nat
      /\ \A j \in DOMAIN db.steers[t] : SteerApart(db, t, j)
  BY ThreadParts
<1>2. db.runs[t][i].status = "queued" /\ PromptUnread(db, t, i)
  BY <1>1 DEF RunApart, RunStands
<1>3. db' = [db EXCEPT !.runs[t][i] = run] /\ turn' = [turn EXCEPT ![t] = x]
  BY <1>1 DEF Starts, Typed, DB
<1>4. rows \in SUBSET Nat
  BY <1>1 DEF Rows
<1>5. /\ run \in Run /\ run.item = db.runs[t][i].item /\ run.rows = rows /\ run.status = "active"
      /\ run.source = db.runs[t][i].source /\ run.start = "running"
  BY <1>1, <1>4 DEF Run, Statuses, InFlight
<1> HIDE DEF run
<1>6. RunsOf(db, db', t, runs)
  BY <1>1, <1>3, <1>5, RunChanged
<1>7. DOMAIN runs = DOMAIN db.runs[t] /\ runs[i] = run /\ \A n \in DOMAIN runs \ {i} : runs[n] = db.runs[t][n]
  OBVIOUS
<1> HIDE DEF runs
<1>8. /\ Typed(db') /\ Beside(db, db', t) /\ db'.runs[t] = runs /\ db'.steers = db.steers /\ db'.inbox = db.inbox
      /\ \A u \in Threads : Rows(db', u) = Rows(db, u)
  BY <1>6 DEF RunsOf
<1>9. \A c : HeldBy(db', t, c) = HeldBy(db, t, c)
  BY <1>8 DEF HeldBy
<1>10. PromptUnread(db', t, i)
  BY <1>2, <1>5, <1>7, <1>8 DEF PromptUnread
<1>11. RunApart(db', t, i)
  <2>1. db.runs[t][i].source \in Plain => rows = {}
    BY <1>1 DEF RunApart, RunStands
  <2>2. \A n \in DOMAIN runs : runs[n].item = db.runs[t][n].item
    BY <1>5, <1>7
  <2> QED
    BY <1>1, <1>5, <1>7, <1>8, <1>9, <2>1, <2>2 DEF RunApart, RunStands
<1>12. NoTurn.run = 0 /\ NoTurn.unread \cup NoTurn.taken = {} /\ TurnLinked(db, t, NoTurn)
       /\ x.run = i /\ x.unread \cup x.taken = {}
  BY <1>1 DEF NoTurn, TurnLinked
<1>13. Apart(db, t, items, NoTurn)
  BY <1>12, TurnOff
<1> HIDE DEF x
<1>14. Apart(db', t, items, NoTurn)
  <2>1. ~(IsLive(db', t, NoTurn) /\ NoTurn.run = i)
    BY <1>12 DEF IsLive
  <2> QED
    BY <1>1, <1>5, <1>6, <1>7, <1>11, <1>12, <1>13, <2>1, OneRunApart
<1>15. \A j \in DOMAIN db'.steers[t] : db'.steers[t][j].run # i
  BY <1>1, <1>2, <1>8 DEF SteerApart
<1>16. Apart(db', t, items, x)
  BY <1>5, <1>7, <1>8, <1>9, <1>10, <1>12, <1>14, <1>15, TurnOn
<1> QED
  BY <1>1, <1>3, <1>8, <1>16

LEMMA StartTurnReads ==
  ASSUME Inv, ReadInv, NEW t \in Threads, NEW i \in DOMAIN db.runs[t], StartTurn(t, i)
  PROVE  ReadInv'
<1>0. Inv'
  BY StartTurnStep
<1> DEFINE positions == {n \in DOMAIN queue[t] : ~queue[t][n].claimed}
           items == ItemsAt(queue[t], positions)
<1>1. /\ Starts(db, t, i, db.runs[t][i].rows) /\ db.runs[t][i].start = "pending" /\ turn[t].run = 0
      /\ queue' = [queue EXCEPT ![t] = items]
  BY DEF StartTurn, NextStart
<1>2. /\ Apart(db, t, queue[t], turn[t]) /\ queue[t] \in Seq(Item) /\ queue \in [Threads -> Seq(Item)]
      /\ RunApart(db, t, i)
  BY ThreadParts
<1>3. positions \in SUBSET DOMAIN queue[t]
  OBVIOUS
<1> HIDE DEF positions
<1>4. Apart(db, t, items, turn[t])
  BY <1>2, <1>3, KeptApart
<1>5. \A n \in DOMAIN items : ItemLinked(db, t, items[n])
  BY <1>3, InvParts, ItemsAtFacts
<1> HIDE DEF items
<1>6. HeldBy(db, t, StartOf(i)) \subseteq db.runs[t][i].rows
  BY <1>1, <1>2 DEF RunApart, RunStands
<1>7. /\ Typed(db') /\ Beside(db, db', t) /\ \A u \in Threads : Rows(db', u) = Rows(db, u)
      /\ \A u \in Threads \ {t} : turn'[u] = turn[u]
      /\ Apart(db', t, items, turn'[t])
  BY <1>1, <1>4, <1>5, <1>6, StartsReads
<1>8. queue'[t] = items /\ \A u \in Threads \ {t} : queue'[u] = queue[u]
  BY <1>1, <1>2
<1> QED
  BY <1>0, <1>7, <1>8, StepReads

\* What a wake shows is what nobody settled first; one that shows nothing gives back what is nobody else's.
LEMMA StartWakeReads ==
  ASSUME Inv, ReadInv, NEW t \in Threads, NEW i \in DOMAIN db.runs[t], StartWake(t, i)
  PROVE  ReadInv'
<1>0. Inv'
  BY StartWakeStep
<1> DEFINE rows == {k \in db.runs[t][i].rows : db.inbox[k].status # "acknowledged"}
           m == Memory(turn, background)
           run == [db.runs[t][i] EXCEPT !.start = "succeeded", !.status = "cancelled"]
           ended == [db EXCEPT !.runs[t][i] = run]
           settled == Settle(ended, m, {t})
           again == PendingAgain(settled, rows, FALSE)
<1>1. queue' = queue /\ db.runs[t][i].start = "pending" /\ turn[t].run = 0 /\ db.runs[t][i].source = "wake"
  BY DEF StartWake, NextStart
<1>2. /\ Typed(db) /\ db.runs[t][i] \in Run /\ db.runs[t][i].rows \in SUBSET Rows(db, t) /\ RunApart(db, t, i)
      /\ Apart(db, t, queue[t], turn[t]) /\ \A n \in DOMAIN queue[t] : ItemLinked(db, t, queue[t][n])
  BY ThreadParts
<1>3. /\ PromptUnread(db, t, i) /\ HeldBy(db, t, StartOf(i)) \subseteq db.runs[t][i].rows /\ db.runs[t][i].item = 0
  BY <1>1, <1>2 DEF RunApart, RunStands
<1>4. CASE Starts(db, t, i, rows)
  <2>1. rows \in SUBSET db.runs[t][i].rows /\ HeldBy(db, t, StartOf(i)) \subseteq rows
    BY <1>3 DEF HeldBy
  <2> HIDE DEF rows
  <2>2. /\ Typed(db') /\ Beside(db, db', t) /\ \A u \in Threads : Rows(db', u) = Rows(db, u)
        /\ \A u \in Threads \ {t} : turn'[u] = turn[u]
        /\ Apart(db', t, queue[t], turn'[t])
    BY <1>1, <1>2, <1>4, <2>1, StartsReads
  <2> QED
    BY <1>0, <1>1, <2>2, StepReads
<1>5. CASE turn' = turn /\ db' = Settle(PendingAgain(WriteTerminal([db EXCEPT !.runs[t][i].start = "succeeded"], m, t, i, "cancelled"), rows, FALSE), m, {t})
  <2>1. /\ run \in Run /\ RunEases(db.runs[t][i], run) /\ run.status = "cancelled" /\ run.start = "succeeded"
    BY <1>2 DEF Run, Statuses, Terminal, InFlight, RunEases
  <2>2. db' = Settle(again, m, {t})
    <3>1. WriteTerminal([db EXCEPT !.runs[t][i].start = "succeeded"], m, t, i, "cancelled") = settled
      BY <1>2 DEF WriteTerminal, Typed, DB
    <3> QED
      BY <1>5, <3>1
  <2>3. {t} \in SUBSET Threads /\ Standing(db, queue, turn)
    BY InvParts DEF Standing, ReadInv
  <2> HIDE DEF run, m
  <2>4. Standing(ended, queue, turn) /\ RunsOf(db, ended, t, [db.runs[t] EXCEPT ![i] = run])
    BY <2>1, <2>3, RunEndsStanding
  <2> HIDE DEF ended
  <2>5. Standing(settled, queue, turn) /\ SettledFrom(ended, settled, Published(ended, m, {t}))
    BY <2>3, <2>4, SettleStanding, SettleFacts DEF Standing
  <2> HIDE DEF settled
  <2>6. /\ settled.runs[t] = [db.runs[t] EXCEPT ![i] = run] /\ \A k \in DOMAIN db.inbox : settled.inbox[k] = db.inbox[k]
    BY <2>4, <2>5 DEF SettledFrom, RunsOf
  <2>7. ASSUME NEW k \in rows \cap DOMAIN settled.inbox
        PROVE  ~Due(settled, settled.inbox[k].to, queue[settled.inbox[k].to], turn[settled.inbox[k].to], settled.inbox[k])
    <3>1. /\ k \in Rows(db, t) /\ settled.inbox[k] = db.inbox[k] /\ db.inbox[k].to = t
          /\ db.inbox[k].by = StartOf(i)
      BY <1>2, <1>3, <2>6 DEF Rows, PromptUnread
    <3>2. settled.runs[t][i].start # "pending" /\ DOMAIN settled.runs[t] = DOMAIN db.runs[t]
      BY <2>1, <2>6
    <3>3. ~IsLive(settled, t, turn[t])
      BY <1>1 DEF IsLive
    <3>4. \A n : (StartOf(n) = StartOf(i) => n = i) /\ StartOf(i) # ItemOf(n)
      BY DEF StartOf, ItemOf
    <3>5. ~Due(settled, t, queue[t], turn[t], db.inbox[k])
      BY <3>1, <3>2, <3>3, <3>4 DEF Due
    <3> QED
      BY <3>1, <3>5
  <2> HIDE DEF rows
  <2>8. Standing(again, queue, turn)
    <3>1. FALSE \in BOOLEAN
      OBVIOUS
    <3> QED
      BY <2>5, <2>7, <3>1, PendingAgainApart DEF Standing
  <2> HIDE DEF again
  <2>9. Standing(Settle(again, m, {t}), queue, turn)
    BY <2>3, <2>8, SettleStanding
  <2> QED
    BY <1>1, <1>5, <2>2, <2>9 DEF Standing, ReadInv
<1> QED
  BY <1>4, <1>5 DEF StartWake
-----------------------------------------------------------------------------
(* Steers: what the provider takes and gives back.                           *)

\* What each change of the inbox does to a row.
LEMMA MarkTakenRows ==
  ASSUME NEW d, Typed(d), NEW own, NEW flag \in BOOLEAN, NEW k \in DOMAIN d.inbox, k \in own
  PROVE  LET s == MarkTaken(d, own, flag).inbox[k]
         IN /\ s.status = d.inbox[k].status /\ s.by = d.inbox[k].by /\ s.reads = d.inbox[k].reads
            /\ s.waived = d.inbox[k].waived /\ s.taken = IF flag THEN d.inbox[k].by.n ELSE 0
<1> DEFINE box == [n \in DOMAIN d.inbox |-> IF n \in own
                     THEN [d.inbox[n] EXCEPT !.taken = IF flag THEN d.inbox[n].by.n ELSE 0] ELSE d.inbox[n]]
<1>1. MarkTaken(d, own, flag).inbox = box /\ d.inbox[k] \in Row
  BY Parts DEF MarkTaken, Typed
<1>2. MarkTaken(d, own, flag).inbox[k] = [d.inbox[k] EXCEPT !.taken = IF flag THEN d.inbox[k].by.n ELSE 0]
  BY <1>1
<1> QED
  BY <1>1, <1>2 DEF Row

LEMMA MarkHeldRows ==
  ASSUME NEW d, Typed(d), NEW own, NEW k \in DOMAIN d.inbox
  PROVE  LooksSame(d.inbox[k], MarkHeld(d, own).inbox[k])
<1> DEFINE box == [n \in DOMAIN d.inbox |-> IF n \in own
                     THEN [d.inbox[n] EXCEPT !.held = d.inbox[n].by.n] ELSE d.inbox[n]]
<1>1. MarkHeld(d, own).inbox = box /\ d.inbox[k] \in Row
  BY Parts DEF MarkHeld, Typed
<1>2. MarkHeld(d, own).inbox[k] = IF k \in own THEN [d.inbox[k] EXCEPT !.held = d.inbox[k].by.n] ELSE d.inbox[k]
  BY <1>1
<1> QED
  BY <1>1, <1>2 DEF Row, LooksSame

LEMMA ReleaseRows ==
  ASSUME NEW d, Typed(d), NEW own, NEW k \in DOMAIN d.inbox
  PROVE  /\ k \in own /\ d.inbox[k].status = "delivered" => GivenBack(d.inbox[k], Release(d, own).inbox[k])
         /\ k \notin own => LooksSame(d.inbox[k], Release(d, own).inbox[k])
<1> DEFINE box == [n \in DOMAIN d.inbox |-> IF n \in own
                     THEN [d.inbox[n] EXCEPT !.status = "pending", !.by = Nobody] ELSE d.inbox[n]]
<1>1. Release(d, own).inbox = box /\ d.inbox[k] \in Row
  BY Parts DEF Release, Typed
<1>2. Release(d, own).inbox[k] = IF k \in own THEN [d.inbox[k] EXCEPT !.status = "pending", !.by = Nobody] ELSE d.inbox[k]
  BY <1>1
<1> QED
  BY <1>1, <1>2 DEF Row, LooksSame, GivenBack

LEMMA ToItemsRows ==
  ASSUME NEW d, Typed(d), NEW own, NEW j, NEW k \in DOMAIN d.inbox, k \in own, d.inbox[k].status = "delivered",
         d.inbox[k].by = SteerOf(j)
  PROVE  Carried(d.inbox[k], ToItems(d, own).inbox[k]) /\ ToItems(d, own).inbox[k].by = ItemOf(j)
<1> DEFINE box == [n \in DOMAIN d.inbox |-> IF n \in own
                     THEN [d.inbox[n] EXCEPT !.by = ItemOf(@.n)] ELSE d.inbox[n]]
<1>1. ToItems(d, own).inbox = box /\ d.inbox[k] \in Row /\ d.inbox[k].by.n = j
  BY Parts DEF ToItems, Typed, SteerOf
<1>2. ToItems(d, own).inbox[k] = [d.inbox[k] EXCEPT !.by = ItemOf(j)]
  BY <1>1
<1> QED
  BY <1>1, <1>2 DEF Row, Carried

LEMMA ToStartRows ==
  ASSUME NEW d, Typed(d), NEW own, NEW i, NEW k \in DOMAIN d.inbox, k \in own, d.inbox[k].status = "delivered"
  PROVE  Carried(d.inbox[k], ToStart(d, own, i).inbox[k]) /\ ToStart(d, own, i).inbox[k].by = StartOf(i)
<1> DEFINE box == [n \in DOMAIN d.inbox |-> IF n \in own
                     THEN [d.inbox[n] EXCEPT !.by = StartOf(i)] ELSE d.inbox[n]]
<1>1. ToStart(d, own, i).inbox = box /\ d.inbox[k] \in Row
  BY Parts DEF ToStart, Typed
<1>2. ToStart(d, own, i).inbox[k] = [d.inbox[k] EXCEPT !.by = StartOf(i)]
  BY <1>1
<1> QED
  BY <1>1, <1>2 DEF Row, Carried

\* The notices of steers are those the steers still have.
LEMMA OfSteersHeld ==
  ASSUME NEW d, Typed(d), NEW t \in Threads, NEW items, NEW x, Apart(d, t, items, x), NEW S \in SUBSET DOMAIN d.steers[t]
  PROVE  /\ OfSteers(d, t, S) \in SUBSET Rows(d, t)
         /\ \A k \in OfSteers(d, t, S) : d.inbox[k].status = "delivered" /\ \E j \in S : d.inbox[k].by = SteerOf(j)
         /\ \A j \in S : HeldBy(d, t, SteerOf(j)) \subseteq OfSteers(d, t, S)
<1>1. OfSteers(d, t, S) \subseteq Rows(d, t)
  BY OfSteersFacts
<1>2. \A k \in OfSteers(d, t, S) : d.inbox[k].status = "delivered" /\ \E j \in S : d.inbox[k].by = SteerOf(j)
  BY DEF OfSteers, Own
<1>3. ASSUME NEW j \in S, NEW k \in HeldBy(d, t, SteerOf(j)) PROVE k \in OfSteers(d, t, S)
  <2>1. SteerApart(d, t, j)
    BY DEF Apart
  <2>2. k \in Own(d, d.steers[t][j].rows, SteerOf(j))
    BY <1>3, <2>1 DEF SteerApart, HeldBy, Own
  <2> QED
    BY <2>2 DEF OfSteers
<1> QED
  BY <1>1, <1>2, <1>3

\* The live turn's steers are marked, and the turn goes on with them.
LEMMA MarkedReads ==
  ASSUME Inv, ReadInv, Inv', NEW t \in Threads, NEW S \in SUBSET (turn[t].unread \cup turn[t].taken),
         NEW x, x.run = turn[t].run, x.unread \cup x.taken = turn[t].unread \cup turn[t].taken,
         \/ x.taken = turn[t].taken \cup S /\ db' = MarkTaken(db, OfSteers(db, t, S), TRUE)
         \/ x.taken = turn[t].taken \ S /\ db' = MarkTaken(db, OfSteers(db, t, S), FALSE),
         turn' = [turn EXCEPT ![t] = x], queue' = queue
  PROVE  ReadInv'
<1> DEFINE own == OfSteers(db, t, S)
<1>1. /\ Typed(db) /\ TurnLinked(db, t, turn[t]) /\ Apart(db, t, queue[t], turn[t])
      /\ turn \in [Threads -> Turn]
  BY ThreadParts
<1>2. S \in SUBSET DOMAIN db.steers[t]
  BY <1>1 DEF TurnLinked
<1>3. /\ own \in SUBSET Rows(db, t)
      /\ \A k \in own : \E j \in S : db.inbox[k].by = SteerOf(j)
      /\ \A j \in S : HeldBy(db, t, SteerOf(j)) \subseteq own
  BY <1>1, <1>2, OfSteersHeld
<1> HIDE DEF own
<1>4. RewriteOf(db, db', own)
  <2>1. RewriteOf(db, MarkTaken(db, own, TRUE), own) /\ RewriteOf(db, MarkTaken(db, own, FALSE), own)
    BY <1>1, MarkTakenRewrites
  <2> QED
    BY <2>1 DEF own
<1>5. \A k \in own : /\ db'.inbox[k].status = db.inbox[k].status /\ db'.inbox[k].by = db.inbox[k].by
                     /\ db'.inbox[k].reads = db.inbox[k].reads /\ db'.inbox[k].waived = db.inbox[k].waived
                     /\ \E j \in S : /\ db.inbox[k].by = SteerOf(j)
                                    /\ db'.inbox[k].taken = IF j \in x.taken THEN j ELSE 0
  <2> SUFFICES ASSUME NEW k \in own
               PROVE  /\ db'.inbox[k].status = db.inbox[k].status /\ db'.inbox[k].by = db.inbox[k].by
                      /\ db'.inbox[k].reads = db.inbox[k].reads /\ db'.inbox[k].waived = db.inbox[k].waived
                      /\ \E j \in S : /\ db.inbox[k].by = SteerOf(j)
                                     /\ db'.inbox[k].taken = IF j \in x.taken THEN j ELSE 0
    OBVIOUS
  <2>1. k \in DOMAIN db.inbox
    BY <1>3 DEF Rows
  <2>2. PICK flag \in BOOLEAN : db' = MarkTaken(db, own, flag) /\ x.taken = IF flag THEN turn[t].taken \cup S ELSE turn[t].taken \ S
    BY DEF own
  <2>3. /\ db'.inbox[k].status = db.inbox[k].status /\ db'.inbox[k].by = db.inbox[k].by
        /\ db'.inbox[k].reads = db.inbox[k].reads /\ db'.inbox[k].waived = db.inbox[k].waived
        /\ db'.inbox[k].taken = IF flag THEN db.inbox[k].by.n ELSE 0
    BY <1>1, <2>1, <2>2, MarkTakenRows
  <2>4. PICK j \in S : db.inbox[k].by = SteerOf(j)
    BY <1>3
  <2>5. db.inbox[k].by.n = j
    BY <2>4 DEF SteerOf
  <2>6. db'.inbox[k].taken = IF j \in x.taken THEN j ELSE 0
    BY <2>2, <2>3, <2>5
  <2> QED
    BY <2>3, <2>4, <2>6
<1>6. Apart(db', t, queue[t], x)
  <2>1. MarkedAs(db, db', t, turn[t], x, S, own)
    BY <1>3, <1>4, <1>5 DEF MarkedAs
  <2> QED
    BY <1>1, <2>1, TakenMarked
<1>7. /\ Typed(db') /\ Beside(db, db', t) /\ \A u \in Threads : Rows(db', u) = Rows(db, u)
  BY <1>3, <1>4, RewriteBeside DEF RewriteOf
<1>8. turn'[t] = x /\ \A u \in Threads \ {t} : turn'[u] = turn[u]
  BY <1>1
<1> QED
  BY <1>6, <1>7, <1>8, StepReads

LEMMA ReadSteersReads ==
  ASSUME Inv, ReadInv, NEW t \in Threads, ReadSteers(t)
  PROVE  ReadInv'
<1> DEFINE x == [turn[t] EXCEPT !.unread = {}, !.plain = FALSE, !.taken = turn[t].taken \cup turn[t].unread]
<1>1. Inv' /\ turn[t] \in Turn
  BY ReadSteersStep, ThreadParts
<1>2. /\ turn' = [turn EXCEPT ![t] = x] /\ queue' = queue
      /\ db' = MarkTaken(db, OfSteers(db, t, turn[t].unread), TRUE)
  BY DEF ReadSteers
<1>3. /\ x.run = turn[t].run /\ x.unread = {} /\ x.taken = turn[t].taken \cup turn[t].unread
  BY <1>1 DEF Turn
<1> HIDE DEF x
<1>4. /\ turn[t].unread \in SUBSET (turn[t].unread \cup turn[t].taken) /\ TRUE \in BOOLEAN
      /\ x.unread \cup x.taken = turn[t].unread \cup turn[t].taken
  BY <1>3
<1> QED
  BY <1>1, <1>2, <1>3, <1>4, MarkedReads

LEMMA ReturnSteerReads ==
  ASSUME Inv, ReadInv, NEW t \in Threads, NEW j \in DOMAIN db.steers[t], ReturnSteer(t, j)
  PROVE  ReadInv'
<1> DEFINE x == [turn[t] EXCEPT !.taken = turn[t].taken \ {j}, !.unread = turn[t].unread \cup {j}]
<1>1. Inv' /\ turn[t] \in Turn
  BY ReturnSteerStep, ThreadParts
<1>2. /\ turn' = [turn EXCEPT ![t] = x] /\ queue' = queue /\ j \in turn[t].taken
      /\ db' = MarkTaken(db, OfSteers(db, t, {j}), FALSE)
  BY DEF ReturnSteer
<1>3. /\ x.run = turn[t].run /\ x.unread = turn[t].unread \cup {j} /\ x.taken = turn[t].taken \ {j}
  BY <1>1 DEF Turn
<1> HIDE DEF x
<1>4. /\ {j} \in SUBSET (turn[t].unread \cup turn[t].taken) /\ FALSE \in BOOLEAN
      /\ x.unread \cup x.taken = turn[t].unread \cup turn[t].taken
  BY <1>2, <1>3
<1> QED
  BY <1>1, <1>2, <1>3, <1>4, MarkedReads

\* A steer is held by the live turn, given back, or its notices go to a queue item.
LEMMA ExecuteSteerReads ==
  ASSUME Inv, ReadInv, NEW t \in Threads, NEW j \in DOMAIN db.steers[t], ExecuteSteer(t, j)
  PROVE  ReadInv'
<1>0. Inv'
  BY ExecuteSteerStep
<1> DEFINE own == Own(db, db.steers[t][j].rows, SteerOf(j))
           steer == [db.steers[t][j] EXCEPT !.status = "succeeded", !.rows = own]
           done == [db EXCEPT !.steers[t][j] = steer]
           memory == Memory(turn, background)
           item == [steer |-> j, run |-> 0, claimed |-> FALSE]
           x == [turn[t] EXCEPT !.unread = turn[t].unread \cup {j}]
           more == Append(queue[t], item)
<1>1. \/ db' = Settle(Release(done, own), memory, {t}) /\ queue' = queue /\ turn' = turn
      \/ db' = Settle(done, memory, {t}) /\ queue' = queue /\ turn' = turn
      \/ /\ db' = MarkHeld(done, own) /\ queue' = queue /\ turn' = [turn EXCEPT ![t] = x]
         /\ turn[t].run = db.steers[t][j].run
      \/ db' = Settle(ToItems(done, own), memory, {t}) /\ turn' = turn /\ queue' = [queue EXCEPT ![t] = more]
  BY DEF ExecuteSteer
<1>2. /\ Typed(db) /\ TurnLinked(db, t, turn[t]) /\ turn[t] \in Turn /\ Apart(db, t, queue[t], turn[t])
      /\ queue[t] \in Seq(Item) /\ \A n \in DOMAIN queue[t] : ItemLinked(db, t, queue[t][n])
      /\ turn \in [Threads -> Turn] /\ queue \in [Threads -> Seq(Item)]
      /\ db.steers[t][j] \in Steer /\ db.steers[t][j].rows \in SUBSET Rows(db, t)
      /\ db.steers[t][j].run \in DOMAIN db.runs[t] /\ DOMAIN db.inbox \subseteq Nat /\ j \in Nat /\ j # 0
  BY ThreadParts
<1>3. db.steers[t][j].status = "pending"
  BY DEF ExecuteSteer
<1>4. /\ j \notin turn[t].unread \cup turn[t].taken /\ \A i \in DOMAIN db.runs[t] : db.runs[t][i].item # j
      /\ \A n \in DOMAIN queue[t] : queue[t][n].steer # j
  BY <1>2, <1>3, PendingSteer
<1>5. /\ own \in SUBSET Rows(db, t)
      /\ \A k \in own : db.inbox[k].status = "delivered" /\ db.inbox[k].by = SteerOf(j)
  BY <1>2 DEF Own
<1>6. /\ steer \in Steer /\ SteerLinked(db, t, steer) /\ steer.run = db.steers[t][j].run
      /\ steer.status = "succeeded" /\ steer.rows = own
  <2>1. own \in SUBSET Nat
    BY <1>2, <1>5 DEF Rows
  <2> HIDE DEF own
  <2> QED
    BY <1>2, <1>5, <2>1 DEF Steer, SteerLinked
<1> HIDE DEF steer
<1>7. SteersOf(db, done, t, [db.steers[t] EXCEPT ![j] = steer])
  BY <1>2, <1>6, SteerChanged
<1> HIDE DEF done
<1>8. Apart(done, t, queue[t], turn[t])
  BY <1>2, <1>3, <1>6, <1>7, SteerDone DEF own
<1> HIDE DEF own, memory, item, x
<1>9. /\ Typed(done) /\ Beside(db, done, t) /\ Grows(db, done) /\ done.runs = db.runs
      /\ done.inbox = db.inbox /\ \A u \in Threads : Rows(done, u) = Rows(db, u)
      /\ DOMAIN done.steers[t] = DOMAIN db.steers[t] /\ done.steers[t][j] = steer
  BY <1>7 DEF SteersOf
<1>10. TurnLinked(done, t, turn[t]) /\ \A n \in DOMAIN queue[t] : ItemLinked(done, t, queue[t][n])
  BY <1>2, <1>9 DEF TurnLinked, ItemLinked
<1>11. own \subseteq Rows(done, t) /\ \A k \in own : k \in DOMAIN done.inbox
  BY <1>5, <1>9 DEF Rows
<1>12. ASSUME NEW e, RewriteOf(done, e, own)
       PROVE  /\ Typed(e) /\ Beside(db, e, t) /\ \A u \in Threads : Rows(e, u) = Rows(db, u)
  <2>1. Beside(done, e, t)
    BY <1>11, <1>12, RewriteBeside
  <2> QED
    BY <1>9, <1>12, <2>1, BesideTwice DEF RewriteOf
<1>13. ASSUME NEW e, RewriteOf(done, e, own),
              \A k \in Rows(done, t) : \/ LooksSame(done.inbox[k], e.inbox[k])
                                       \/ k \in own /\ GivenBack(done.inbox[k], e.inbox[k])
       PROVE  Apart(e, t, queue[t], turn[t])
  <2>1. \A i : SteerOf(j) # StartOf(i) /\ SteerOf(j) # ItemOf(i) /\ (SteerOf(j) = SteerOf(i) => i = j)
    BY DEF StartOf, SteerOf, ItemOf
  <2>2. \A k \in own : ~Due(done, t, queue[t], turn[t], done.inbox[k])
    BY <1>4, <1>5, <1>9, <2>1 DEF Due
  <2>3. Eases(done, e, t, queue[t], turn[t])
    BY <1>9, <1>13, <2>2, RewriteEases
  <2>4. turn[t].run \in 0 .. Len(done.runs[t]) /\ turn[t].unread \cup turn[t].taken \subseteq DOMAIN done.steers[t]
    BY <1>10 DEF TurnLinked
  <2> QED
    BY <1>8, <1>9, <1>10, <1>12, <1>13, <2>3, <2>4, EasesKeeps
<1>14. CASE db' = Settle(Release(done, own), memory, {t}) /\ queue' = queue /\ turn' = turn
  <2> DEFINE e == Release(done, own)
  <2>1. RewriteOf(done, e, own)
    BY <1>9, ReleaseRewrites
  <2>2. \A k \in Rows(done, t) : \/ LooksSame(done.inbox[k], e.inbox[k])
                                 \/ k \in own /\ GivenBack(done.inbox[k], e.inbox[k])
    <3> SUFFICES ASSUME NEW k \in Rows(done, t)
                 PROVE  \/ LooksSame(done.inbox[k], e.inbox[k])
                        \/ k \in own /\ GivenBack(done.inbox[k], e.inbox[k])
      OBVIOUS
    <3>1. k \in DOMAIN done.inbox
      BY DEF Rows
    <3> QED
      BY <1>5, <1>9, <3>1, ReleaseRows
  <2> HIDE DEF e
  <2>3. Apart(e, t, queue[t], turn[t])
    BY <1>13, <2>1, <2>2
  <2>4. Typed(e) /\ Beside(db, e, t) /\ \A u \in Threads : Rows(e, u) = Rows(db, u)
    BY <1>12, <2>1
  <2>5. db' = Settle(e, memory, {t})
    BY <1>14 DEF e
  <2> QED
    BY <1>0, <1>14, <2>3, <2>4, <2>5, StepReads
<1>15. CASE db' = Settle(done, memory, {t}) /\ queue' = queue /\ turn' = turn
  BY <1>0, <1>8, <1>9, <1>15, StepReads
<1>16. CASE /\ db' = MarkHeld(done, own) /\ queue' = queue /\ turn' = [turn EXCEPT ![t] = x]
            /\ turn[t].run = db.steers[t][j].run
  <2>1. RewriteOf(done, db', own)
    BY <1>9, <1>16, MarkHeldRewrites
  <2>2. \A k \in DOMAIN done.inbox : LooksSame(done.inbox[k], db'.inbox[k])
    BY <1>9, <1>16, MarkHeldRows
  <2>3. Apart(db', t, queue[t], turn[t])
    BY <1>13, <2>1, <2>2 DEF Rows
  <2>4. x.run = turn[t].run /\ x.unread = turn[t].unread \cup {j} /\ x.taken = turn[t].taken
    BY <1>2 DEF Turn, x
  <2>5. db'.runs = db.runs /\ db'.steers[t][j] = steer
    BY <1>9, <2>1 DEF RewriteOf
  <2>6. SteerUnread(db', t, j)
    <3> SUFFICES ASSUME NEW k \in own PROVE OnItsWay(db'.inbox[k]) /\ db'.inbox[k].by = SteerOf(j)
      BY <1>6, <2>5 DEF SteerUnread
    <3>1. k \in Rows(db, t) /\ db.inbox[k].status = "delivered" /\ db.inbox[k].by = SteerOf(j)
      BY <1>5
    <3>2. LooksSame(db.inbox[k], db'.inbox[k])
      BY <1>9, <1>11, <2>2
    <3>3. RowRead(db, t, db.inbox[k])
      BY <1>2, <3>1 DEF Apart
    <3> QED
      BY <3>1, <3>2, <3>3 DEF RowRead, LooksSame, OnItsWay
  <2>7. Apart(db', t, queue[t], x)
    BY <1>4, <1>6, <1>16, <2>3, <2>4, <2>5, <2>6, TurnHolds
  <2>8. Typed(db') /\ Beside(db, db', t) /\ \A u \in Threads : Rows(db', u) = Rows(db, u)
    BY <1>12, <2>1
  <2>9. turn'[t] = x /\ \A u \in Threads \ {t} : turn'[u] = turn[u]
    BY <1>2, <1>16
  <2> QED
    BY <1>0, <1>16, <2>7, <2>8, <2>9, StepReads
<1>17. CASE db' = Settle(ToItems(done, own), memory, {t}) /\ turn' = turn /\ queue' = [queue EXCEPT ![t] = more]
  <2> DEFINE e == ToItems(done, own)
  <2>1. RewriteOf(done, e, own)
    <3>1. \A k \in own \cap DOMAIN done.inbox : done.inbox[k].by.kind \in {"steer", "item"}
      BY <1>5, <1>9 DEF SteerOf
    <3> QED
      BY <1>9, <3>1, ToItemsRewrites
  <2>2. \A k \in own : /\ Carried(done.inbox[k], e.inbox[k])
                       /\ done.inbox[k].by = SteerOf(j) /\ e.inbox[k].by = ItemOf(j)
    <3> SUFFICES ASSUME NEW k \in own
                 PROVE  /\ Carried(done.inbox[k], e.inbox[k])
                        /\ done.inbox[k].by = SteerOf(j) /\ e.inbox[k].by = ItemOf(j)
      OBVIOUS
    <3>1. k \in DOMAIN done.inbox /\ done.inbox[k].status = "delivered" /\ done.inbox[k].by = SteerOf(j)
      BY <1>5, <1>9, <1>11
    <3> QED
      BY <1>9, <3>1, ToItemsRows
  <2> HIDE DEF e
  <2>3. HandedToItems(done, e, t, turn[t], {j}, own)
    <3>1. \A k \in own : /\ Carried(done.inbox[k], e.inbox[k])
                         /\ \E n \in {j} : done.inbox[k].by = SteerOf(n) /\ e.inbox[k].by = ItemOf(n)
      BY <2>2
    <3>2. \A n \in {j} : /\ done.steers[t][n].status = "succeeded" /\ n \notin turn[t].unread \cup turn[t].taken
                         /\ \A i \in DOMAIN done.runs[t] : done.runs[t][i].item # n
      BY <1>4, <1>6, <1>9
    <3> QED
      BY <1>11, <2>1, <3>1, <3>2 DEF HandedToItems
  <2>4. Apart(e, t, queue[t], turn[t])
    BY <1>8, <1>9, <1>10, <2>3, MovedToItems
  <2>5. item \in Item /\ ItemApart(e, t, item) /\ item.steer \notin turn[t].unread \cup turn[t].taken
    <3>1. e.steers[t][j].status = "succeeded"
      BY <1>6, <1>9, <2>1 DEF RewriteOf
    <3>2. item \in Item /\ item.steer = j /\ item.claimed = FALSE
      BY <1>2 DEF Item, item
    <3> QED
      BY <1>2, <1>4, <3>1, <3>2 DEF ItemApart
  <2>6. Apart(e, t, more, turn[t])
    BY <1>2, <2>4, <2>5, AppendApart
  <2> HIDE DEF more
  <2>7. queue'[t] = more /\ \A u \in Threads \ {t} : queue'[u] = queue[u]
    BY <1>2, <1>17
  <2>8. Typed(e) /\ Beside(db, e, t) /\ \A u \in Threads : Rows(e, u) = Rows(db, u)
    BY <1>12, <2>1
  <2>9. db' = Settle(e, memory, {t})
    BY <1>17 DEF e
  <2> QED
    BY <1>0, <1>17, <2>6, <2>7, <2>8, <2>9, StepReads
<1> QED
  BY <1>1, <1>14, <1>15, <1>16, <1>17
-----------------------------------------------------------------------------
(* The end of a run.                                                         *)

\* What a turn has shown by its end.
Shown(d, t, x) == d.runs[t][x.run].rows \cup UNION {d.steers[t][j].rows : j \in x.taken}

\* A notice that was shown is on its way, and one that nobody settled yet is the completed run's to acknowledge.
LEMMA ShownFacts ==
  ASSUME NEW d, Typed(d), NEW t \in Threads, NEW items, NEW x, TurnLinked(d, t, x), Apart(d, t, items, x), IsLive(d, t, x)
  PROVE  /\ x.run \in DOMAIN d.runs[t] /\ Shown(d, t, x) \subseteq Rows(d, t)
         /\ \A k \in Shown(d, t, x) :
              /\ OnItsWay(d.inbox[k])
              /\ \/ d.inbox[k].by = StartOf(x.run)
                 \/ \E j : d.inbox[k].by = SteerOf(j)
                 \/ d.runs[t][x.run].item # 0 /\ d.inbox[k].by = ItemOf(d.runs[t][x.run].item)
              /\ d.inbox[k].status = "delivered" => k \in DeliveredByRun(d, t, x.run)
         /\ DeliveredByRun(d, t, x.run) \subseteq Shown(d, t, x)
<1> DEFINE i == x.run
<1>1. i \in DOMAIN d.runs[t]
  BY Parts DEF IsLive, TurnLinked, Typed
<1>2. /\ PromptUnread(d, t, i) /\ HeldBy(d, t, StartOf(i)) \subseteq d.runs[t][i].rows
      /\ \A j \in x.unread \cup x.taken : d.steers[t][j].run = i /\ SteerUnread(d, t, j)
      /\ \A j \in x.taken : \A k \in HeldBy(d, t, SteerOf(j)) : d.inbox[k].taken = j
      /\ \A j \in DOMAIN d.steers[t] \ x.taken :
           d.steers[t][j].run = i => \A k \in HeldBy(d, t, SteerOf(j)) : d.inbox[k].taken # j
  BY DEF Apart, TurnApart
<1>3. x.taken \subseteq DOMAIN d.steers[t]
  BY DEF TurnLinked
<1>4. d.runs[t][i].rows \subseteq Rows(d, t) /\ \A j \in x.taken : d.steers[t][j].rows \subseteq Rows(d, t)
  BY <1>1, <1>3 DEF Typed, RunLinked, SteerLinked
<1>5. Shown(d, t, x) \subseteq Rows(d, t)
  BY <1>4 DEF Shown
<1> HIDE DEF i
<1>6. ASSUME NEW k \in d.runs[t][i].rows
      PROVE  /\ OnItsWay(d.inbox[k])
             /\ \/ d.inbox[k].by = StartOf(i)
                \/ d.runs[t][i].item # 0 /\ d.inbox[k].by = ItemOf(d.runs[t][i].item)
             /\ d.inbox[k].status = "delivered" => k \in DeliveredByRun(d, t, i)
  <2>1. /\ OnItsWay(d.inbox[k]) /\ k \in Rows(d, t)
        /\ \/ d.inbox[k].by = StartOf(i)
           \/ /\ d.inbox[k].status = "acknowledged"
              /\ d.runs[t][i].item # 0 /\ d.inbox[k].by = ItemOf(d.runs[t][i].item)
    BY <1>2, <1>4, <1>6 DEF PromptUnread
  <2> QED
    BY <2>1 DEF DeliveredByRun
<1>7. ASSUME NEW j \in x.taken, NEW k \in d.steers[t][j].rows
      PROVE  /\ OnItsWay(d.inbox[k]) /\ d.inbox[k].by = SteerOf(j)
             /\ d.inbox[k].status = "delivered" => k \in DeliveredByRun(d, t, i)
  <2>1. OnItsWay(d.inbox[k]) /\ d.inbox[k].by = SteerOf(j) /\ k \in Rows(d, t) /\ d.steers[t][j].run = i
    BY <1>2, <1>4, <1>7 DEF SteerUnread
  <2>2. d.inbox[k].status = "delivered" => d.inbox[k].taken = j
    BY <1>2, <1>7, <2>1 DEF HeldBy
  <2>3. SteerOf(j).kind = "steer" /\ SteerOf(j).n = j
    BY DEF SteerOf
  <2> QED
    BY <2>1, <2>2, <2>3 DEF DeliveredByRun
<1>8. ASSUME NEW k \in DeliveredByRun(d, t, i) PROVE k \in Shown(d, t, x)
  <2>1. k \in Rows(d, t) /\ d.inbox[k].status = "delivered"
    BY <1>8 DEF DeliveredByRun
  <2>2. CASE d.inbox[k].by = StartOf(i)
    BY <1>2, <2>1, <2>2 DEF HeldBy, Shown, i
  <2>3. CASE d.inbox[k].by # StartOf(i)
    <3> DEFINE j == d.inbox[k].by.n
    <3>1. d.inbox[k].by.kind = "steer" /\ d.inbox[k].taken = j /\ d.steers[t][j].run = i
      BY <1>8, <2>3 DEF DeliveredByRun
    <3>2. d.inbox[k] \in Row /\ RowLinked(d, d.inbox[k]) /\ d.inbox[k].to = t
      BY <2>1, Parts DEF Typed, Rows
    <3>3. d.inbox[k].by = SteerOf(j) /\ j \in DOMAIN d.steers[t]
      BY <3>1, <3>2 DEF Row, RowLinked, SteerOf
    <3> HIDE DEF j
    <3>4. k \in HeldBy(d, t, SteerOf(j)) /\ SteerApart(d, t, j)
      BY <2>1, <3>3 DEF HeldBy, Apart
    <3>5. j \in x.taken
      BY <1>2, <3>1, <3>3, <3>4
    <3>6. k \in d.steers[t][j].rows
      BY <3>4 DEF SteerApart
    <3> QED
      BY <3>5, <3>6 DEF Shown
  <2> QED
    BY <2>2, <2>3
<1> QED
  BY <1>1, <1>5, <1>6, <1>7, <1>8 DEF i, Shown

\* The run of the live turn completes, and every notice it has shown is acknowledged as read in it.
CompletedAs(d, e, t, x) ==
    /\ e.steers = d.steers /\ DOMAIN e.runs[t] = DOMAIN d.runs[t] /\ Rows(e, t) = Rows(d, t)
    /\ \A n \in DOMAIN d.runs[t] \ {x.run} : e.runs[t][n] = d.runs[t][n]
    /\ e.runs[t][x.run].status = "completed"
    /\ \A n \in DOMAIN d.runs[t] :
         /\ e.runs[t][n].source = d.runs[t][n].source /\ e.runs[t][n].rows = d.runs[t][n].rows
         /\ e.runs[t][n].item = d.runs[t][n].item /\ e.runs[t][n].start = d.runs[t][n].start
    /\ \A k \in Rows(d, t) \ Shown(d, t, x) : e.inbox[k] = d.inbox[k]
    /\ \A k \in Shown(d, t, x) : /\ e.inbox[k].status = "acknowledged" /\ e.inbox[k].reads = {x.run}
                                 /\ e.inbox[k].taken = d.inbox[k].taken

LEMMA CompletedApart ==
  ASSUME NEW d, Typed(d), NEW t \in Threads, NEW items, NEW x, TurnLinked(d, t, x), Apart(d, t, items, x), IsLive(d, t, x),
         \A n \in DOMAIN items : ItemLinked(d, t, items[n]), NEW e, CompletedAs(d, e, t, x)
  PROVE  Apart(e, t, items, x)
<1> DEFINE i == x.run
           shown == Shown(d, t, x)
<1>1. /\ e.steers = d.steers /\ DOMAIN e.runs[t] = DOMAIN d.runs[t] /\ Rows(e, t) = Rows(d, t)
      /\ \A n \in DOMAIN d.runs[t] \ {i} : e.runs[t][n] = d.runs[t][n]
      /\ e.runs[t][i].status = "completed"
      /\ \A n \in DOMAIN d.runs[t] :
           /\ e.runs[t][n].source = d.runs[t][n].source /\ e.runs[t][n].rows = d.runs[t][n].rows
           /\ e.runs[t][n].item = d.runs[t][n].item /\ e.runs[t][n].start = d.runs[t][n].start
      /\ \A k \in Rows(d, t) \ shown : e.inbox[k] = d.inbox[k]
      /\ \A k \in shown : /\ e.inbox[k].status = "acknowledged" /\ e.inbox[k].reads = {i}
                          /\ e.inbox[k].taken = d.inbox[k].taken
  BY DEF CompletedAs
<1>2. /\ i \in DOMAIN d.runs[t] /\ shown \subseteq Rows(d, t)
      /\ \A k \in shown : /\ OnItsWay(d.inbox[k])
                          /\ \/ d.inbox[k].by = StartOf(i)
                             \/ \E j : d.inbox[k].by = SteerOf(j)
                             \/ d.runs[t][i].item # 0 /\ d.inbox[k].by = ItemOf(d.runs[t][i].item)
  BY ShownFacts
<1>3. d.runs[t][i].start = "running" /\ \A n \in DOMAIN d.runs[t] : RunApart(d, t, n)
  BY DEF Apart, TurnApart
<1> HIDE DEF i, shown
<1>4. \A c : HeldBy(e, t, c) \subseteq HeldBy(d, t, c)
  BY <1>1 DEF HeldBy
<1>5. \A m, n : /\ StartOf(m) # SteerOf(n) /\ StartOf(m) # ItemOf(n) /\ SteerOf(m) # ItemOf(n)
                /\ (StartOf(m) = StartOf(n) => m = n) /\ (ItemOf(m) = ItemOf(n) => m = n)
  BY DEF StartOf, SteerOf, ItemOf
<1>6. ASSUME NEW n \in DOMAIN d.runs[t] \ {i}, NEW k \in Rows(d, t),
             \/ d.inbox[k].by = StartOf(n)
             \/ d.runs[t][n].item # 0 /\ d.inbox[k].by = ItemOf(d.runs[t][n].item)
      PROVE  e.inbox[k] = d.inbox[k]
  <2>1. d.runs[t][n].item # 0 => d.runs[t][n].item # d.runs[t][i].item
    <3>1. RunApart(d, t, n) /\ i \in DOMAIN d.runs[t] /\ n # i
      BY <1>2, <1>3, <1>6
    <3>2. d.runs[t][n].item # 0 => \A m \in DOMAIN d.runs[t] : d.runs[t][m].item = d.runs[t][n].item => m = n
      BY <3>1 DEF RunApart, RunStands
    <3> QED
      BY <3>1, <3>2
  <2>2. k \notin shown
    BY <1>2, <1>5, <1>6, <2>1
  <2> QED
    BY <1>1, <2>2
<1>7. ASSUME NEW k \in Rows(e, t) PROVE RowRead(e, t, e.inbox[k])
  <2>1. RowRead(d, t, d.inbox[k]) /\ k \in Rows(d, t)
    BY <1>1, <1>7 DEF Apart
  <2>2. CASE k \in shown
    BY <1>1, <2>1, <2>2 DEF RowRead
  <2>3. CASE k \notin shown
    BY <1>1, <2>1, <2>3 DEF RowRead
  <2> QED
    BY <2>2, <2>3
<1>8. ASSUME NEW n \in DOMAIN e.runs[t] PROVE RunApart(e, t, n)
  <2>1. n \in DOMAIN d.runs[t] /\ RunApart(d, t, n)
    BY <1>1, <1>3, <1>8
  <2>2. CASE n = i
    <3>1. /\ e.steers = d.steers /\ DOMAIN e.runs[t] = DOMAIN d.runs[t]
          /\ e.runs[t][i].source = d.runs[t][i].source /\ e.runs[t][i].rows = d.runs[t][i].rows
          /\ e.runs[t][i].item = d.runs[t][i].item
          /\ e.runs[t][i].start # "pending" /\ e.runs[t][i].status # "queued"
          /\ HeldBy(e, t, StartOf(i)) \subseteq HeldBy(d, t, StartOf(i))
      BY <1>1, <1>3, <1>4, <2>1, <2>2
    <3>2. \A m \in DOMAIN d.runs[t] : e.runs[t][m].item = d.runs[t][m].item
      BY <1>1
    <3>3. RunApart(d, t, i)
      BY <2>1, <2>2
    <3>4. /\ d.runs[t][i].source \in Plain => d.runs[t][i].rows = {} /\ d.runs[t][i].item = 0
                                              /\ HeldBy(d, t, StartOf(i)) = {}
          /\ d.runs[t][i].source = "wake" => d.runs[t][i].item = 0
      BY <3>3 DEF RunApart, RunStands
    <3>5. d.runs[t][i].item # 0 =>
            /\ d.runs[t][i].item \in DOMAIN d.steers[t] /\ d.steers[t][d.runs[t][i].item].status = "succeeded"
            /\ \A m \in DOMAIN d.runs[t] : d.runs[t][m].item = d.runs[t][i].item => m = i
      BY <3>3 DEF RunApart, RunStands
    <3>6. e.runs[t][i].item # 0 =>
            /\ e.runs[t][i].item \in DOMAIN e.steers[t] /\ e.steers[t][e.runs[t][i].item].status = "succeeded"
            /\ \A m \in DOMAIN e.runs[t] : e.runs[t][m].item = e.runs[t][i].item => m = i
      BY <3>1, <3>2, <3>5
    <3>7. /\ e.runs[t][i].source \in Plain => e.runs[t][i].rows = {} /\ e.runs[t][i].item = 0
                                              /\ HeldBy(e, t, StartOf(i)) = {}
          /\ e.runs[t][i].source = "wake" => e.runs[t][i].item = 0
      BY <3>1, <3>4
    <3>8. e.runs[t][i].start # "pending" /\ e.runs[t][i].status # "queued"
      BY <3>1
    <3>9. RunApart(e, t, i)
      BY <3>6, <3>7, <3>8 DEF RunApart, RunStands
    <3> QED
      BY <2>2, <3>9
  <2>3. CASE n # i
    <3>1. e.runs[t][n] = d.runs[t][n] /\ d.runs[t][n].rows \subseteq Rows(d, t)
      BY <1>1, <2>1, <2>3 DEF Typed, RunLinked
    <3>2. PromptUnread(d, t, n) => PromptUnread(e, t, n)
      BY <1>6, <2>1, <2>3, <3>1 DEF PromptUnread
    <3>3. /\ e.steers = d.steers /\ DOMAIN e.runs[t] = DOMAIN d.runs[t]
          /\ \A m \in DOMAIN d.runs[t] : e.runs[t][m].item = d.runs[t][m].item
      BY <1>1
    <3>4. /\ HeldBy(e, t, StartOf(n)) \subseteq HeldBy(d, t, StartOf(n))
          /\ HeldBy(e, t, ItemOf(d.runs[t][n].item)) \subseteq HeldBy(d, t, ItemOf(d.runs[t][n].item))
      BY <1>4
    <3>5. RunApart(d, t, n)
      BY <2>1
    <3>6. d.runs[t][n].item # 0 => \A m \in DOMAIN d.runs[t] : d.runs[t][m].item = d.runs[t][n].item => m = n
      BY <3>5 DEF RunApart, RunStands
    <3>7. d.runs[t][n].item # 0 => \A m \in DOMAIN e.runs[t] : e.runs[t][m].item = d.runs[t][n].item => m = n
      BY <3>3, <3>6
    <3> QED
      BY <3>1, <3>2, <3>3, <3>4, <3>5, <3>7, RunApartKept
  <2> QED
    BY <2>2, <2>3
<1>9. ASSUME NEW j \in DOMAIN e.steers[t] PROVE SteerApart(e, t, j)
  <2>1. SteerApart(d, t, j) /\ d.steers[t][j].run \in DOMAIN d.runs[t]
    BY <1>1, <1>9 DEF Apart, Typed, SteerLinked
  <2>2. d.runs[t][d.steers[t][j].run].status # "queued"
    BY <2>1 DEF SteerApart
  <2>3. e.runs[t][d.steers[t][j].run].status # "queued" /\ e.steers = d.steers
    BY <1>1, <2>1, <2>2
  <2>4. /\ HeldBy(e, t, SteerOf(j)) \subseteq HeldBy(d, t, SteerOf(j))
        /\ HeldBy(e, t, ItemOf(j)) \subseteq HeldBy(d, t, ItemOf(j))
    BY <1>4
  <2> QED
    BY <2>1, <2>3, <2>4, SteerApartKept
<1>10. TurnApart(e, t, items, x)
  <2>1. ~IsLive(e, t, x)
    BY <1>1 DEF IsLive, i
  <2>2. TurnApart(d, t, items, x)
    BY DEF Apart
  <2> QED
    BY <1>1, <2>1, <2>2 DEF TurnApart
<1>11. ASSUME NEW n \in DOMAIN items PROVE ItemApart(e, t, items[n])
  <2>1. ItemApart(d, t, items[n])
    BY <1>11 DEF Apart
  <2>2. CASE items[n].steer = 0
    <3>1. items[n].run \in DOMAIN d.runs[t]
      BY <1>11, <2>2 DEF ItemLinked
    <3> QED
      BY <1>1, <2>1, <2>2, <3>1 DEF ItemApart
  <2>3. CASE items[n].steer # 0
    <3>1. ASSUME items[n].claimed, NEW m \in DOMAIN e.runs[t], e.runs[t][m].item = items[n].steer,
                 e.runs[t][m].status = "queued", e.runs[t][m].start \notin InFlight
          PROVE  ItemUnread(e, t, m)
      <4>1. m \in DOMAIN d.runs[t] \ {i} /\ e.runs[t][m] = d.runs[t][m] /\ d.runs[t][m].item # 0
        BY <1>1, <2>3, <3>1
      <4>2. ItemUnread(d, t, m) /\ d.runs[t][m].rows \subseteq Rows(d, t)
        BY <2>1, <2>3, <3>1, <4>1 DEF ItemApart, Typed, RunLinked
      <4>3. \A k \in d.runs[t][m].rows : e.inbox[k] = d.inbox[k]
        BY <1>6, <4>1, <4>2 DEF ItemUnread
      <4>4. HeldBy(e, t, ItemOf(d.runs[t][m].item)) \subseteq d.runs[t][m].rows
        BY <1>4, <4>2 DEF ItemUnread
      <4> QED
        BY <4>1, <4>2, <4>3, <4>4 DEF ItemUnread
    <3> QED
      BY <1>1, <2>1, <2>3, <3>1 DEF ItemApart
  <2> QED
    BY <2>2, <2>3
<1> QED
  BY <1>7, <1>8, <1>9, <1>10, <1>11 DEF Apart

\* What a completed turn has shown was read in it, and by no other.
LEMMA EndRunReads ==
  ASSUME Inv, ReadInv, NEW t \in Threads, NEW status \in {"completed", "failed", "stopped"}, EndRun(t, status)
  PROVE  ReadInv'
<1>0. Inv'
  BY EndRunStep
<1> DEFINE x == turn[t]
           i == x.run
           shown == Shown(db, t, x)
           box == [k \in DOMAIN db.inbox |->
                     IF status = "completed" /\ k \in shown
                     THEN [db.inbox[k] EXCEPT !.reads = @ \cup {i}] ELSE db.inbox[k]]
           seen == [db EXCEPT !.inbox = box]
           m == Memory(turn, background)
           run == [db.runs[t][i] EXCEPT !.status = status]
           ended == [seen EXCEPT !.runs[t][i].status = status]
           read == IF status = "completed" THEN Acknowledge(ended, DeliveredByRun(ended, t, i), FALSE) ELSE ended
<1>1. LiveTurn(t) /\ db' = WriteTerminal(seen, m, t, i, status) /\ queue' = queue /\ turn' = turn
  BY DEF EndRun, Shown
<1>2. /\ Typed(db) /\ TurnLinked(db, t, x) /\ Apart(db, t, queue[t], x)
      /\ \A n \in DOMAIN queue[t] : ItemLinked(db, t, queue[t][n])
      /\ IsLive(db, t, x)
  BY <1>1, ThreadParts DEF LiveTurn, IsLive
<1>3. i \in DOMAIN db.runs[t] /\ shown \subseteq Rows(db, t) /\ i \in Nat
  BY <1>2, ShownFacts, Parts DEF Typed
<1>4. db.runs[t][i] \in Run /\ db.runs[t][i].rows \subseteq Rows(db, t) /\ db.runs[t][i].start = "running"
  BY <1>2, <1>3, Parts DEF Typed, RunLinked, Apart, TurnApart
<1>5. db' = Settle(read, m, {t})
  BY <1>1 DEF WriteTerminal
<1>6. run \in Run /\ run.status = status /\ RunEases(db.runs[t][i], run) /\ status \in Terminal
  BY <1>4 DEF Run, Statuses, Terminal, RunEases
<1>7. CASE status # "completed"
  <2>1. read = [db EXCEPT !.runs[t][i] = run]
    <3>1. box = db.inbox
      <4>1. box = [k \in DOMAIN db.inbox |-> db.inbox[k]]
        BY <1>7
      <4>2. db.inbox = [k \in DOMAIN db.inbox |-> db.inbox[k]]
        <5>1. db.inbox \in Seq(Row)
          BY <1>2, Parts DEF Typed
        <5>2. db.inbox \in [1 .. Len(db.inbox) -> Row]
          BY <5>1, LenProperties
        <5> QED
          BY <5>2
      <4> HIDE DEF box
      <4> QED
        BY <4>1, <4>2
    <3>2. read = [db EXCEPT !.runs[t][i].status = status]
      BY <1>2, <1>7, <3>1 DEF Typed, DB
    <3> QED
      BY <3>2
  <2> HIDE DEF run, x, i, m, read
  <2>2. Standing(db, queue, turn) /\ {t} \in SUBSET Threads
    BY InvParts DEF Standing, ReadInv
  <2>3. run.status \notin {"queued", "active"}
    BY <1>6 DEF Terminal
  <2>4. Standing([db EXCEPT !.runs[t][i] = run], queue, turn)
    BY <1>3, <1>6, <2>2, <2>3, RunEndsStanding
  <2>5. Standing(read, queue, turn)
    BY <2>1, <2>4
  <2>6. Standing(Settle(read, m, {t}), queue, turn)
    BY <2>2, <2>5, SettleStanding
  <2> QED
    BY <1>1, <1>5, <2>6 DEF Standing, ReadInv
<1>8. CASE status = "completed"
  <2> DEFINE own == DeliveredByRun(ended, t, i)
  <2>1. /\ \A k \in DOMAIN db.inbox : db.inbox[k] \in Row /\ RowLinked(db, db.inbox[k])
    BY <1>2, Parts DEF Typed
  <2>2. \A k \in DOMAIN db.inbox :
          /\ box[k] \in Row /\ box[k].to = db.inbox[k].to /\ box[k].by = db.inbox[k].by
          /\ box[k].status = db.inbox[k].status /\ box[k].taken = db.inbox[k].taken
          /\ k \notin shown => box[k] = db.inbox[k]
          /\ k \in shown => box[k].reads = db.inbox[k].reads \cup {i}
    <3> TAKE k \in DOMAIN db.inbox
    <3>1. CASE k \in shown
      <4>1. box[k] = [db.inbox[k] EXCEPT !.reads = db.inbox[k].reads \cup {i}]
        BY <1>8, <3>1
      <4>2. db.inbox[k].reads \cup {i} \in SUBSET Nat
        BY <1>3, <2>1 DEF Row
      <4> HIDE DEF box
      <4> QED
        BY <2>1, <3>1, <4>1, <4>2 DEF Row
    <3>2. CASE k \notin shown
      BY <2>1, <3>2
    <3> QED
      BY <3>1, <3>2
  <2>3. seen.inbox = box /\ seen.runs = db.runs /\ seen.steers = db.steers
    BY <1>2 DEF Typed, DB
  <2>4. RewriteOf(db, seen, shown)
    <3>1. box = [k \in DOMAIN db.inbox |-> box[k]]
      OBVIOUS
    <3> HIDE DEF box
    <3>2. box \in [DOMAIN db.inbox -> Row]
      BY <2>2, <3>1
    <3> HIDE DEF shown
    <3> QED
      BY <1>2, <2>1, <2>2, <3>2, Rewritten DEF RowLinked
  <2> HIDE DEF box
  <2>5. RunsOf(seen, ended, t, [db.runs[t] EXCEPT ![i] = run])
    <3>1. ended = [seen EXCEPT !.runs[t][i] = run]
      BY <2>3
    <3>2. run.item = seen.runs[t][i].item /\ run.rows \subseteq Rows(seen, t)
      BY <1>4, <1>6, <2>3, <2>4 DEF RewriteOf, RunEases
    <3> HIDE DEF run, seen, ended, i, x
    <3> QED
      BY <1>3, <1>6, <2>3, <2>4, <3>1, <3>2, RunChanged DEF RewriteOf
  <2> HIDE DEF ended, seen
  <2>6. /\ Typed(seen) /\ Typed(ended) /\ ended.inbox = box /\ ended.steers = db.steers
        /\ \A u \in Threads : Rows(ended, u) = Rows(db, u)
        /\ ended.runs[t] = [db.runs[t] EXCEPT ![i] = run] /\ Beside(db, ended, t)
    <3>1. Beside(db, seen, t)
      BY <1>3, <2>4, RewriteBeside
    <3>2. Beside(seen, ended, t)
      BY <2>5 DEF RunsOf
    <3>3. Beside(db, ended, t)
      BY <3>1, <3>2, BesideTwice
    <3> QED
      BY <2>3, <2>4, <2>5, <3>3 DEF RewriteOf, RunsOf
  <2> HIDE DEF x, i
  <2>7. own = DeliveredByRun(db, t, i)
    <3>1. \A k \in Rows(db, t) : /\ ended.inbox[k].status = db.inbox[k].status /\ ended.inbox[k].by = db.inbox[k].by
                                 /\ ended.inbox[k].taken = db.inbox[k].taken
      BY <2>2, <2>6 DEF Rows
    <3> QED
      BY <2>6, <3>1 DEF DeliveredByRun
  <2>8. own \subseteq shown /\ \A k \in shown : OnItsWay(db.inbox[k]) /\ (db.inbox[k].status = "delivered" => k \in own)
    BY <1>2, <2>7, ShownFacts DEF i, shown
  <2> HIDE DEF own, shown
  <2>9. read = Acknowledge(ended, own, FALSE)
    BY <1>8 DEF own
  <2> HIDE DEF read
  <2>10. RewriteOf(ended, read, own)
    BY <2>6, <2>9, AcknowledgeRewrites
  <2>11. \A k \in DOMAIN db.inbox :
           IF k \in own /\ box[k].status # "acknowledged"
           THEN read.inbox[k] = [box[k] EXCEPT !.status = "acknowledged", !.waived = FALSE]
           ELSE read.inbox[k] = box[k]
    <3> TAKE k \in DOMAIN db.inbox
    <3>1. FALSE \in BOOLEAN /\ k \in DOMAIN ended.inbox
      BY <2>4, <2>3, <2>6 DEF RewriteOf
    <3>2. IF k \in own /\ ended.inbox[k].status # "acknowledged"
          THEN Acknowledge(ended, own, FALSE).inbox[k] = [ended.inbox[k] EXCEPT !.status = "acknowledged", !.waived = FALSE]
          ELSE Acknowledge(ended, own, FALSE).inbox[k] = ended.inbox[k]
      <4> DEFINE f == [n \in DOMAIN ended.inbox |-> IF n \in own /\ ended.inbox[n].status # "acknowledged"
                        THEN [ended.inbox[n] EXCEPT !.status = "acknowledged", !.waived = FALSE] ELSE ended.inbox[n]]
      <4>1. Acknowledge(ended, own, FALSE) = [ended EXCEPT !.inbox = f]
        BY DEF Acknowledge
      <4>2. [ended EXCEPT !.inbox = f].inbox = f
        BY <2>6, Parts DEF Typed
      <4> QED
        BY <3>1, <4>1, <4>2
    <3> QED
      BY <2>6, <2>9, <3>2
  <2>12. \A k \in Rows(db, t) \ shown : read.inbox[k] = db.inbox[k]
    BY <2>2, <2>8, <2>11 DEF Rows
  <2>13. ASSUME NEW k \in shown
         PROVE  /\ read.inbox[k].status = "acknowledged" /\ read.inbox[k].reads = {i}
                /\ read.inbox[k].taken = db.inbox[k].taken
    <3>1. k \in DOMAIN db.inbox /\ OnItsWay(db.inbox[k])
      BY <1>3, <2>8, <2>13 DEF Rows
    <3>2. /\ box[k] \in Row /\ box[k].status = db.inbox[k].status /\ box[k].taken = db.inbox[k].taken
          /\ box[k].reads = {i}
      BY <2>2, <2>13, <3>1 DEF OnItsWay
    <3>3. k \in own \/ box[k].status = "acknowledged"
      BY <2>8, <2>13, <3>1, <3>2 DEF OnItsWay
    <3> QED
      BY <2>11, <3>1, <3>2, <3>3 DEF Row
  <2>14. CompletedAs(db, read, t, x)
    <3>1. read.steers = db.steers /\ read.runs[t] = [db.runs[t] EXCEPT ![i] = run] /\ Rows(read, t) = Rows(db, t)
      BY <2>6, <2>10 DEF RewriteOf
    <3>2. /\ run.source = db.runs[t][i].source /\ run.rows = db.runs[t][i].rows /\ run.item = db.runs[t][i].item
          /\ run.start = db.runs[t][i].start
      BY <1>4 DEF Run
    <3> HIDE DEF run
    <3> QED
      BY <1>3, <1>6, <1>8, <2>12, <2>13, <3>1, <3>2 DEF CompletedAs, i, shown
  <2>15. Apart(read, t, queue[t], x)
    BY <1>2, <2>14, CompletedApart
  <2>16. Typed(read) /\ Beside(db, read, t) /\ \A u \in Threads : Rows(read, u) = Rows(db, u)
    <3>1. Beside(ended, read, t)
      BY <1>3, <2>6, <2>8, <2>10, RewriteBeside
    <3> QED
      BY <2>6, <2>10, <3>1, BesideTwice DEF RewriteOf
  <2> QED
    BY <1>0, <1>1, <1>5, <2>15, <2>16, StepReads DEF x
<1> QED
  BY <1>7, <1>8
-----------------------------------------------------------------------------
(* The end of a turn.                                                        *)

\* What the turn never showed goes to queue items, or is pending again.
LEMMA UnreadMoved ==
  ASSUME NEW d, Typed(d), NEW t \in Threads, NEW items, NEW x, TurnLinked(d, t, x), Apart(d, t, items, x),
         \A n \in DOMAIN items : ItemLinked(d, t, items[n]), NEW S \in SUBSET x.unread, NEW saved \in BOOLEAN
  PROVE  LET own == OfSteers(d, t, S)
             e == IF saved THEN ToItems(d, own) ELSE Release(d, own)
         IN /\ own \subseteq Rows(d, t) /\ RewriteOf(d, e, own)
            /\ Apart(e, t, items, NoTurn)
<1> DEFINE own == OfSteers(d, t, S)
<1>1. S \in SUBSET DOMAIN d.steers[t]
  BY DEF TurnLinked
<1>2. /\ own \in SUBSET Rows(d, t)
      /\ \A k \in own : d.inbox[k].status = "delivered" /\ \E j \in S : d.inbox[k].by = SteerOf(j)
  BY <1>1, OfSteersHeld
<1> HIDE DEF own
<1>3. \A j \in S : /\ d.steers[t][j].status = "succeeded"
                   /\ \A i \in DOMAIN d.runs[t] : d.runs[t][i].item # j
  BY DEF Apart, TurnApart
<1>4. NoTurn.run = 0 /\ NoTurn.unread \cup NoTurn.taken = {}
  BY DEF NoTurn
<1>5. Apart(d, t, items, NoTurn)
  BY <1>4, TurnOff
<1>6. TurnLinked(d, t, NoTurn)
  BY <1>4, Parts DEF TurnLinked, Typed
<1>7. own \subseteq DOMAIN d.inbox
  BY <1>2 DEF Rows
<1>8. CASE saved
  <2> DEFINE e == ToItems(d, own)
  <2>1. RewriteOf(d, e, own)
    <3>1. \A k \in own \cap DOMAIN d.inbox : d.inbox[k].by.kind \in {"steer", "item"}
      <4>1. \A j : SteerOf(j).kind = "steer"
        BY DEF SteerOf
      <4> QED
        BY <1>2, <4>1
    <3> QED
      BY <3>1, ToItemsRewrites
  <2>2. ASSUME NEW k \in own
        PROVE  /\ Carried(d.inbox[k], e.inbox[k])
               /\ \E j \in S : d.inbox[k].by = SteerOf(j) /\ e.inbox[k].by = ItemOf(j)
    <3>1. k \in DOMAIN d.inbox /\ d.inbox[k].status = "delivered"
      BY <1>2, <1>7, <2>2
    <3>2. PICK j \in S : d.inbox[k].by = SteerOf(j)
      BY <1>2, <2>2
    <3>3. Carried(d.inbox[k], e.inbox[k]) /\ e.inbox[k].by = ItemOf(j)
      BY <2>2, <3>1, <3>2, ToItemsRows
    <3> QED
      BY <3>2, <3>3
  <2> HIDE DEF e
  <2>3. \A j \in S : j \notin NoTurn.unread \cup NoTurn.taken
    BY <1>4
  <2>4. HandedToItems(d, e, t, NoTurn, S, own)
    BY <1>2, <1>3, <2>1, <2>2, <2>3 DEF HandedToItems
  <2>5. Apart(e, t, items, NoTurn)
    BY <1>5, <1>6, <2>4, MovedToItems
  <2> QED
    BY <1>2, <1>8, <2>1, <2>5 DEF e, own
<1>9. CASE ~saved
  <2> DEFINE e == Release(d, own)
  <2>1. RewriteOf(d, e, own)
    BY ReleaseRewrites
  <2>2. ASSUME NEW k \in Rows(d, t)
        PROVE  \/ LooksSame(d.inbox[k], e.inbox[k])
               \/ Waived(d.inbox[k], e.inbox[k])
               \/ GivenBack(d.inbox[k], e.inbox[k]) /\ ~Due(d, t, items, NoTurn, d.inbox[k])
    <3>1. k \in DOMAIN d.inbox
      BY <2>2 DEF Rows
    <3>2. CASE k \notin own
      BY <3>1, <3>2, ReleaseRows
    <3>3. CASE k \in own
      <4>1. GivenBack(d.inbox[k], e.inbox[k])
        BY <1>2, <3>1, <3>3, ReleaseRows
      <4>2. PICK j \in S : d.inbox[k].by = SteerOf(j)
        BY <1>2, <3>3
      <4>3. \A i : SteerOf(j) # StartOf(i) /\ SteerOf(j) # ItemOf(i)
        BY DEF SteerOf, StartOf, ItemOf
      <4>4. ~IsLive(d, t, NoTurn)
        BY <1>4 DEF IsLive
      <4>5. ~Due(d, t, items, NoTurn, d.inbox[k])
        BY <4>2, <4>3, <4>4 DEF Due
      <4> QED
        BY <4>1, <4>5
    <3> QED
      BY <3>2, <3>3
  <2> HIDE DEF e
  <2>3. Eases(d, e, t, items, NoTurn)
    BY <2>1, <2>2, RewriteEases
  <2>4. NoTurn.run \in 0 .. Len(d.runs[t]) /\ NoTurn.unread \cup NoTurn.taken \subseteq DOMAIN d.steers[t]
    BY <1>6 DEF TurnLinked
  <2>5. Typed(e)
    BY <2>1 DEF RewriteOf
  <2>6. Apart(e, t, items, NoTurn)
    BY <1>5, <2>3, <2>4, <2>5, EasesKeeps
  <2> QED
    BY <1>2, <1>9, <2>1, <2>6 DEF e, own
<1> QED
  BY <1>8, <1>9

\* The turn.start of a run that has ended ends.
LEMMA StartEnds ==
  ASSUME NEW d, Typed(d), NEW e, Typed(e), NEW t \in Threads, NEW items, Apart(d, t, items, NoTurn),
         \A n \in DOMAIN items : ItemLinked(d, t, items[n]),
         NEW i \in DOMAIN d.runs[t], NEW run, d.runs[t][i].status \in Terminal,
         run.status = d.runs[t][i].status, run.source = d.runs[t][i].source, run.rows = d.runs[t][i].rows,
         run.item = d.runs[t][i].item, run.start = "pending" => d.runs[t][i].start = "pending",
         RunsOf(d, e, t, [d.runs[t] EXCEPT ![i] = run])
  PROVE  Apart(e, t, items, NoTurn)
<1>1. NoTurn.run = 0 /\ NoTurn.unread \cup NoTurn.taken = {}
  BY DEF NoTurn
<1>2. /\ e.runs[t] = [d.runs[t] EXCEPT ![i] = run] /\ e.steers = d.steers /\ e.inbox = d.inbox
      /\ Rows(e, t) = Rows(d, t)
  BY DEF RunsOf
<1>3. DOMAIN e.runs[t] = DOMAIN d.runs[t] /\ e.runs[t][i] = run /\ \A n \in DOMAIN d.runs[t] \ {i} : e.runs[t][n] = d.runs[t][n]
  BY <1>2
<1>4. \A n \in DOMAIN d.runs[t] : RunEases(d.runs[t][n], e.runs[t][n])
  BY <1>3, RunEasesItself DEF RunEases
<1>5. \A n \in DOMAIN d.runs[t] : e.runs[t][n].status = "queued" => n # i
  BY <1>3 DEF Terminal
<1>6. \A j \in DOMAIN d.steers[t] : SteerEases(d.steers[t][j], e.steers[t][j])
  BY <1>2 DEF SteerEases
<1>7. \A k \in Rows(d, t) : LooksSame(d.inbox[k], e.inbox[k])
  BY <1>2 DEF LooksSame
<1>8. ~IsLive(e, t, NoTurn)
  BY <1>1 DEF IsLive
<1>9. Eases(d, e, t, items, NoTurn)
  BY <1>2, <1>3, <1>4, <1>5, <1>6, <1>7, <1>8 DEF Eases
<1>10. NoTurn.run \in 0 .. Len(d.runs[t]) /\ NoTurn.unread \cup NoTurn.taken \subseteq DOMAIN d.steers[t]
  BY <1>1, Parts DEF Typed
<1> QED
  BY <1>9, <1>10, EasesKeeps

\* A run without notices is added.
OneMore(d, e, t, run) ==
    LET n == Len(d.runs[t]) + 1
    IN /\ n \notin DOMAIN d.runs[t] /\ DOMAIN e.runs[t] = DOMAIN d.runs[t] \cup {n} /\ Len(e.runs[t]) = n
       /\ e.runs[t][n] = run /\ \A m \in DOMAIN d.runs[t] : e.runs[t][m] = d.runs[t][m]

LEMMA OneRunAdded ==
  ASSUME NEW d, Typed(d), NEW t \in Threads, NEW run \in Run, run.rows \subseteq Rows(d, t)
  PROVE  LET e == [d EXCEPT !.runs[t] = Append(@, run)]
         IN RunsOf(d, e, t, Append(d.runs[t], run)) /\ OneMore(d, e, t, run)
<1> DEFINE e == [d EXCEPT !.runs[t] = Append(@, run)]
           n == Len(d.runs[t]) + 1
           more == Append(d.runs[t], run)
<1>1. /\ RunsOf(d, e, t, more)
      /\ DOMAIN more = DOMAIN d.runs[t] \cup {n} /\ more[n] = run
      /\ \A m \in DOMAIN d.runs[t] : more[m] = d.runs[t][m]
  BY RunAdded
<1>2. d.runs[t] \in Seq(Run) /\ n \notin DOMAIN d.runs[t]
  BY Parts DEF Typed
<1>3. Len(more) = n
  BY <1>2, AppendProperties
<1> HIDE DEF e, n, more
<1>4. e.runs[t] = more
  BY <1>1 DEF RunsOf
<1>5. OneMore(d, e, t, run)
  BY <1>1, <1>2, <1>3, <1>4 DEF OneMore, n
<1> QED
  BY <1>1, <1>5 DEF e, more

LEMMA PlainRunAdded ==
  ASSUME NEW d, Typed(d), NEW t \in Threads, NEW items, NEW x, TurnLinked(d, t, x), Apart(d, t, items, x),
         \A n \in DOMAIN items : ItemLinked(d, t, items[n]), NEW run \in Run,
         run.source \in Plain, run.rows = {}, run.item = 0, run.start # "pending"
  PROVE  LET e == [d EXCEPT !.runs[t] = Append(@, run)]
         IN RunsOf(d, e, t, Append(d.runs[t], run)) /\ Apart(e, t, items, x) /\ OneMore(d, e, t, run)
<1> DEFINE e == [d EXCEPT !.runs[t] = Append(@, run)]
           n == Len(d.runs[t]) + 1
           more == Append(d.runs[t], run)
<1>1. run.rows \subseteq Rows(d, t)
  OBVIOUS
<1>2. RunsOf(d, e, t, more) /\ OneMore(d, e, t, run)
  BY <1>1, OneRunAdded
<1> HIDE DEF e, n, more
<1>3. e.runs[t] = more
  BY <1>2 DEF RunsOf
<1>4. /\ n \notin DOMAIN d.runs[t] /\ DOMAIN more = DOMAIN d.runs[t] \cup {n} /\ more[n] = run
      /\ \A m \in DOMAIN d.runs[t] : more[m] = d.runs[t][m]
  BY <1>2, <1>3 DEF OneMore, n
<1>5. Apart(e, t, items, x)
  BY <1>2, <1>4, PlainAdded
<1> QED
  BY <1>2, <1>5 DEF e, more

\* A turn settles: its own notices stand, its unread ones go on as items behind the queue.
LEMMA SettleTurnReads ==
  ASSUME Inv, ReadInv, NEW t \in Threads, NEW saved \in BOOLEAN, SettleTurn(t, saved)
  PROVE  ReadInv'
<1>0. Inv' /\ turn[t].run # 0
  BY SettleTurnStep DEF SettleTurn
<1> DEFINE i == turn[t].run
           had == UnreadSteers(turn, t)
           carried == IF had THEN turn[t].unread ELSE {}
           plain == had /\ turn[t].plain
           quiet == [turn EXCEPT ![t] = NoTurn]
           own == OfSteers(db, t, carried)
           moved == IF saved THEN ToItems(db, own) ELSE Release(db, own)
           follow == [NewRun("followup", {}, 0) EXCEPT !.status = IF saved THEN "queued" ELSE "cancelled"]
           followed == IF plain THEN [moved EXCEPT !.runs[t] = Append(@, follow)] ELSE moved
           order == InOrder(carried)
           items == [n \in 1 .. Cardinality(carried) |-> [steer |-> order[n], run |-> 0, claimed |-> FALSE]]
           textItem == [steer |-> 0, run |-> Len(followed.runs[t]), claimed |-> FALSE]
           text == IF plain THEN <<textItem>> ELSE <<>>
           ended == [followed EXCEPT !.runs[t][i].start = IF @ = "running" THEN "succeeded" ELSE @]
           kept == queue[t]
<1>1. /\ i # 0 /\ db.runs[t][i].status \in Terminal
      /\ turn' = quiet
      /\ queue' = IF saved THEN [queue EXCEPT ![t] = @ \o items \o text] ELSE queue
      /\ db' = Settle(ended, Memory(quiet, background), {t})
  BY DEF SettleTurn
<1>2. /\ Typed(db) /\ TurnLinked(db, t, turn[t]) /\ turn[t] \in Turn /\ Apart(db, t, kept, turn[t])
      /\ kept \in Seq(Item) /\ \A n \in DOMAIN kept : ItemLinked(db, t, kept[n])
      /\ turn \in [Threads -> Turn] /\ queue \in [Threads -> Seq(Item)]
      /\ DOMAIN db.runs[t] = 1 .. Len(db.runs[t]) /\ Len(db.runs[t]) \in Nat
      /\ DOMAIN db.steers[t] = 1 .. Len(db.steers[t]) /\ Len(db.steers[t]) \in Nat
  BY ThreadParts
<1>3. carried \in SUBSET turn[t].unread /\ carried \in SUBSET DOMAIN db.steers[t]
  BY <1>2 DEF TurnLinked
<1> HIDE DEF carried, plain, kept
<1>4. own \subseteq Rows(db, t) /\ RewriteOf(db, moved, own) /\ Apart(moved, t, kept, NoTurn)
  BY <1>2, <1>3, UnreadMoved
<1>5. \A j \in carried : db.steers[t][j].status = "succeeded"
  BY <1>2, <1>3 DEF Apart, TurnApart
<1> HIDE DEF own, moved
<1>6. /\ Typed(moved) /\ Beside(db, moved, t) /\ Grows(db, moved) /\ moved.runs = db.runs
      /\ moved.steers = db.steers /\ \A u \in Threads : Rows(moved, u) = Rows(db, u)
  BY <1>2, <1>4, RewriteBeside, RewriteGrows DEF RewriteOf
<1>7. i \in DOMAIN moved.runs[t] /\ i \in Nat
  BY <1>0, <1>2, <1>6 DEF TurnLinked
<1>8. TurnLinked(moved, t, NoTurn) /\ \A n \in DOMAIN kept : ItemLinked(moved, t, kept[n])
  <2>1. 0 \in 0 .. Len(moved.runs[t])
    BY <1>2, <1>6
  <2> QED
    BY <1>2, <1>6, <2>1 DEF TurnLinked, ItemLinked, NoTurn
<1> HIDE DEF i
<1>9. /\ Typed(followed) /\ Beside(db, followed, t) /\ Grows(db, followed)
      /\ followed.steers = db.steers /\ i \in DOMAIN followed.runs[t] /\ followed.runs[t][i] = db.runs[t][i]
      /\ plain => /\ Len(followed.runs[t]) \in DOMAIN followed.runs[t] \ {i}
                  /\ followed.runs[t][Len(followed.runs[t])].source \in Plain
      /\ Apart(followed, t, kept, NoTurn)
      /\ \A u \in Threads : Rows(followed, u) = Rows(db, u)
      /\ \A n \in DOMAIN kept : ItemLinked(followed, t, kept[n])
  <2>1. CASE ~plain
    BY <1>4, <1>6, <1>7, <1>8, <2>1
  <2>2. CASE plain
    <3>1. /\ follow \in Run /\ follow.rows = {} /\ follow.source = "followup" /\ follow.item = 0
          /\ follow.start # "pending"
      <4>1. /\ NewRun("followup", {}, 0) \in Run /\ NewRun("followup", {}, 0).rows = {}
            /\ NewRun("followup", {}, 0).source = "followup" /\ NewRun("followup", {}, 0).item = 0
        BY NewRunType
      <4>2. NewRun("followup", {}, 0).start = "none"
        BY DEF NewRun
      <4> QED
        BY <4>1, <4>2 DEF Run, Statuses, Terminal
    <3> HIDE DEF follow
    <3> DEFINE n == Len(moved.runs[t]) + 1
               more == Append(moved.runs[t], follow)
               f == [moved EXCEPT !.runs[t] = Append(@, follow)]
    <3>2. RunsOf(moved, f, t, more) /\ Apart(f, t, kept, NoTurn) /\ OneMore(moved, f, t, follow)
      <4>1. follow.source \in Plain
        BY <3>1 DEF Plain
      <4> HIDE DEF followed
      <4> QED
        BY <1>4, <1>6, <1>8, <3>1, <4>1, PlainRunAdded
    <3>3. followed = f
      BY <2>2
    <3> HIDE DEF more, followed, n, f
    <3>7. /\ Typed(followed) /\ Beside(moved, followed, t) /\ Grows(moved, followed)
          /\ followed.steers = moved.steers
          /\ \A u \in Threads : Rows(followed, u) = Rows(moved, u)
      BY <3>2, <3>3 DEF RunsOf
    <3>8. Beside(db, followed, t) /\ Grows(db, followed)
      BY <1>6, <3>7, BesideTwice, GrowsTwice
    <3>9. /\ i \in DOMAIN followed.runs[t] /\ followed.runs[t][i] = db.runs[t][i]
          /\ Len(followed.runs[t]) = n /\ n \in DOMAIN followed.runs[t] \ {i}
          /\ followed.runs[t][n].source \in Plain
      BY <1>6, <1>7, <3>1, <3>2, <3>3 DEF Plain, OneMore, n
    <3>10. \A m \in DOMAIN kept : ItemLinked(followed, t, kept[m])
      BY <1>8, <3>2, <3>3, <3>7 DEF ItemLinked, OneMore
    <3> QED
      BY <1>6, <3>2, <3>3, <3>7, <3>8, <3>9, <3>10
  <2> QED
    BY <2>1, <2>2
<1> HIDE DEF followed
<1> DEFINE run == [followed.runs[t][i] EXCEPT !.start = IF @ = "running" THEN "succeeded" ELSE @]
<1>10. followed.runs[t][i] \in Run /\ followed.runs[t][i].rows \subseteq Rows(followed, t)
  BY <1>9, Parts DEF Typed, RunLinked
<1>11. /\ run \in Run /\ run.item = followed.runs[t][i].item /\ run.rows = followed.runs[t][i].rows
       /\ run.status = followed.runs[t][i].status /\ run.source = followed.runs[t][i].source
       /\ run.start = "pending" => followed.runs[t][i].start = "pending"
  BY <1>10 DEF Run, InFlight
<1>12. ended = [followed EXCEPT !.runs[t][i] = run]
  BY <1>9 DEF Typed, DB
<1> HIDE DEF run
<1>13. RunsOf(followed, ended, t, [followed.runs[t] EXCEPT ![i] = run])
  BY <1>9, <1>10, <1>11, <1>12, RunChanged
<1> HIDE DEF ended
<1>14. /\ Typed(ended) /\ Beside(db, ended, t) /\ ended.steers = db.steers
       /\ \A u \in Threads : Rows(ended, u) = Rows(db, u)
       /\ plain => ended.runs[t][Len(followed.runs[t])].source \in Plain
  BY <1>9, <1>13, BesideTwice DEF RunsOf
<1>15. Apart(ended, t, kept, NoTurn)
  <2>1. followed.runs[t][i].status \in Terminal
    BY <1>1, <1>9 DEF i
  <2> QED
    BY <1>9, <1>11, <1>13, <1>14, <2>1, StartEnds
<1>16. quiet[t] = NoTurn /\ \A u \in Threads \ {t} : quiet[u] = turn[u]
  BY <1>2
<1>17. CASE ~saved
  <2>1. queue'[t] = kept /\ turn'[t] = NoTurn /\ \A u \in Threads \ {t} : queue'[u] = queue[u] /\ turn'[u] = turn[u]
    BY <1>1, <1>16, <1>17 DEF kept
  <2> HIDE DEF quiet
  <2> QED
    BY <1>0, <1>1, <1>14, <1>15, <2>1, StepReads
<1>18. CASE saved
  <2>1. NoTurn.unread \cup NoTurn.taken = {}
    BY DEF NoTurn
  <2>2. /\ items \in Seq(Item)
        /\ \A n \in DOMAIN items : ItemApart(ended, t, items[n])
    <3> DEFINE N == Cardinality(carried)
    <3>1. carried \in SUBSET Nat /\ IsFiniteSet(carried)
      <4>1. IsFiniteSet(1 .. Len(db.steers[t]))
        BY <1>2, FS_Interval
      <4> QED
        BY <1>2, <1>3, <4>1, FS_Subset
    <3>2. N \in Nat /\ order \in [1 .. N -> carried]
      BY <3>1, InOrderFacts
    <3> HIDE DEF N, order
    <3>3. \A n \in 1 .. N : order[n] \in carried /\ order[n] # 0 /\ order[n] \in Nat
      BY <1>2, <1>3, <3>2
    <3>4. items = [n \in 1 .. N |-> [steer |-> order[n], run |-> 0, claimed |-> FALSE]]
      BY DEF N
    <3> HIDE DEF items
    <3>5. items \in [1 .. N -> Item]
      BY <3>3, <3>4 DEF Item
    <3>6. \A n \in 1 .. N : ItemApart(ended, t, items[n])
      BY <1>5, <1>14, <3>3, <3>4 DEF ItemApart
    <3> QED
      BY <3>2, <3>5, <3>6, IsSeq
  <2>3. text \in Seq(Item) /\ \A n \in DOMAIN text : ItemApart(ended, t, text[n])
    <3>1. CASE ~plain
      <4>1. text = <<>>
        BY <3>1
      <4> HIDE DEF text
      <4> QED
        BY <4>1, EmptySeq
    <3>2. CASE plain
      <4>1. Len(followed.runs[t]) \in Nat /\ ended.runs[t][Len(followed.runs[t])].source \in Plain
        BY <1>9, <1>14, <3>2, Parts DEF Typed
      <4>2. textItem \in Item /\ ItemApart(ended, t, textItem)
        BY <4>1 DEF Item, ItemApart
      <4>3. text = <<textItem>>
        BY <3>2
      <4> HIDE DEF text, textItem
      <4>4. text \in Seq(Item) /\ DOMAIN text = {1} /\ text[1] = textItem
        BY <4>2, <4>3
      <4> QED
        BY <4>2, <4>4
    <3> QED
      BY <3>1, <3>2
  <2> HIDE DEF items, text
  <2> DEFINE more == kept \o items
             all == more \o text
  <2>4. more \in Seq(Item) /\ Apart(ended, t, more, NoTurn)
    <3>1. more \in Seq(Item)
      BY <1>2, <2>2, ConcatProperties
    <3>2. Apart(ended, t, kept \o items, NoTurn)
      BY <1>2, <1>15, <2>1, <2>2, ConcatApart
    <3> QED
      BY <3>1, <3>2
  <2> HIDE DEF more
  <2>5. Apart(ended, t, more \o text, NoTurn)
    BY <2>1, <2>3, <2>4, ConcatApart
  <2>6. Apart(ended, t, all, NoTurn)
    BY <2>5
  <2> HIDE DEF all
  <2>7. queue' = [queue EXCEPT ![t] = all]
    BY <1>1, <1>18 DEF all, more, kept
  <2>8. queue'[t] = all /\ turn'[t] = NoTurn /\ \A u \in Threads \ {t} : queue'[u] = queue[u] /\ turn'[u] = turn[u]
    BY <1>1, <1>2, <1>16, <2>7
  <2> HIDE DEF quiet
  <2> QED
    BY <1>0, <1>1, <1>14, <2>6, <2>8, StepReads
<1> QED
  BY <1>17, <1>18
-----------------------------------------------------------------------------
(* The queue of a thread.                                                    *)

\* The first item of a queue is claimed.
LEMMA ClaimedApart ==
  ASSUME NEW d, NEW t, NEW items \in Seq(Item), items # <<>>, NEW x, Apart(d, t, items, x),
         items[1].steer # 0 =>
            \A i \in DOMAIN d.runs[t] :
               /\ d.runs[t][i].item = items[1].steer
               /\ d.runs[t][i].status = "queued" /\ d.runs[t][i].start \notin InFlight
               => ItemUnread(d, t, i)
  PROVE  Apart(d, t, [items EXCEPT ![1].claimed = TRUE], x)
<1> DEFINE item == [items[1] EXCEPT !.claimed = TRUE]
           all == [items EXCEPT ![1] = item]
<1>1. 1 \in DOMAIN items /\ items[1] \in Item
  BY LenProperties, EmptySeq
<1>2. item.steer = items[1].steer /\ item.run = items[1].run /\ item.claimed
  BY <1>1 DEF Item
<1>3. ItemApart(d, t, items[1]) /\ items[1].steer \notin x.unread \cup x.taken
  BY <1>1 DEF Apart, TurnApart
<1> HIDE DEF item
<1>4. ItemApart(d, t, item) /\ item.steer \notin x.unread \cup x.taken
  BY <1>2, <1>3 DEF ItemApart
<1>5. DOMAIN all = DOMAIN items /\ all[1] = item /\ \A n \in DOMAIN items \ {1} : all[n] = items[n]
  BY <1>1
<1> HIDE DEF all
<1>6. ASSUME NEW n \in DOMAIN all
      PROVE  \/ \E m \in DOMAIN items : all[n] = items[m]
             \/ ItemApart(d, t, all[n]) /\ all[n].steer \notin x.unread \cup x.taken
  BY <1>4, <1>5
<1>7. Apart(d, t, all, x)
  BY <1>6, ItemsApart
<1> QED
  BY <1>7 DEF all, item

\* The run of an item is the only one that is for it.
LEMMA RunOfItemApart ==
  ASSUME Typed(db), NEW t \in Threads, NEW item \in Item, ItemLinked(db, t, item), NEW items, NEW x,
         Apart(db, t, items, x), item.steer # 0
  PROVE  \A n \in DOMAIN db.runs[t] : db.runs[t][n].item = item.steer => n = RunOfItem(t, item)
<1> DEFINE ensured == {i \in DOMAIN db.runs[t] : db.runs[t][i].item = item.steer}
<1> SUFFICES ASSUME NEW n \in ensured PROVE n = RunOfItem(t, item)
  OBVIOUS
<1>1. RunOfItem(t, item) = CHOOSE i \in ensured : TRUE
  BY DEF RunOfItem
<1>2. RunOfItem(t, item) \in ensured
  BY <1>1
<1>3. RunApart(db, t, RunOfItem(t, item))
  BY <1>2 DEF Apart
<1> QED
  BY <1>2, <1>3 DEF RunApart, RunStands

\* A drain gives the run of an item the notices the item has.
LEMMA DrainReads ==
  ASSUME Inv, ReadInv, NEW t \in Threads, Drain(t)
  PROVE  ReadInv'
<1>0. Inv' /\ queue[t] # <<>>
  BY DrainStep DEF Drain
<1> DEFINE items == queue[t]
           x == turn[t]
           item == Head(items)
           own == IF item.steer = 0 THEN {} ELSE Own(db, db.steers[t][item.steer].rows, ItemOf(item.steer))
           i == RunOfItem(t, item)
           run == [db.runs[t][i] EXCEPT !.rows = own]
           late == NewRun("late", own, item.steer)
           shown == [db EXCEPT !.runs[t][i] = run]
           made == [db EXCEPT !.runs[t] = Append(@, late)]
           claimed == [items EXCEPT ![1].claimed = TRUE]
<1>1. /\ items # <<>> /\ turn' = turn /\ ~TurnRunning(t)
      /\ \/ db' = db /\ queue' = [queue EXCEPT ![t] = Tail(@)]
         \/ /\ queue' = [queue EXCEPT ![t][1].claimed = TRUE]
            /\ item.steer # 0 => own # {}
            /\ db' = IF i \in DOMAIN db.runs[t] THEN [db EXCEPT !.runs[t][i].rows = own] ELSE made
  BY DEF Drain
<1>2. /\ Typed(db) /\ TurnLinked(db, t, x) /\ Apart(db, t, items, x)
      /\ items \in Seq(Item) /\ \A n \in DOMAIN items : items[n] \in Item /\ ItemLinked(db, t, items[n])
      /\ turn \in [Threads -> Turn] /\ queue \in [Threads -> Seq(Item)]
      /\ DOMAIN db.runs[t] = 1 .. Len(db.runs[t]) /\ Len(db.runs[t]) \in Nat
      /\ \A n \in DOMAIN db.runs[t] : db.runs[t][n] \in Run /\ RunApart(db, t, n)
      /\ DOMAIN db.inbox \subseteq Nat
  BY ThreadParts
<1>3. item = items[1] /\ 1 \in DOMAIN items /\ item \in Item /\ ItemLinked(db, t, item)
  BY <1>0, <1>2, LenProperties, EmptySeq
<1>4. x.run = 0 /\ \A n \in DOMAIN items : ~items[n].claimed
  BY <1>1 DEF TurnRunning, Admitted
<1>5. \A n \in DOMAIN db.runs[t] : db.runs[t][n].start = "pending" => db.runs[t][n].source = "wake"
  BY <1>1 DEF TurnRunning, Admitted
<1> HIDE DEF items, x
<1>6. ItemApart(db, t, item) /\ item.steer \notin x.unread \cup x.taken
  BY <1>2, <1>3 DEF Apart, TurnApart
<1>7. /\ i \in Nat /\ (item.steer = 0 => i \in DOMAIN db.runs[t] /\ i = item.run)
      /\ item.steer # 0 /\ i \in DOMAIN db.runs[t] => db.runs[t][i].item = item.steer
  BY <1>2, <1>3, RunOfItemFacts DEF RunOfItem
<1>8. item.steer # 0 => \A n \in DOMAIN db.runs[t] : db.runs[t][n].item = item.steer => n = i
  <2> HIDE DEF item
  <2> QED
    BY <1>2, <1>3, RunOfItemApart
<1>9. item.steer # 0 =>
        /\ item.steer \in DOMAIN db.steers[t] /\ db.steers[t][item.steer].status = "succeeded"
        /\ own \in SUBSET Rows(db, t) /\ own = HeldBy(db, t, ItemOf(item.steer))
        /\ \A k \in own : OnItsWay(db.inbox[k]) /\ db.inbox[k].by = ItemOf(item.steer)
  <2> SUFFICES ASSUME item.steer # 0
               PROVE  /\ item.steer \in DOMAIN db.steers[t] /\ db.steers[t][item.steer].status = "succeeded"
                      /\ own \in SUBSET Rows(db, t) /\ own = HeldBy(db, t, ItemOf(item.steer))
                      /\ \A k \in own : OnItsWay(db.inbox[k]) /\ db.inbox[k].by = ItemOf(item.steer)
    OBVIOUS
  <2>1. item.steer \in DOMAIN db.steers[t] /\ db.steers[t][item.steer].status = "succeeded"
    BY <1>3, <1>6 DEF ItemLinked, ItemApart
  <2>2. SteerApart(db, t, item.steer) /\ db.steers[t][item.steer].rows \subseteq Rows(db, t)
    BY <1>2, <2>1 DEF Apart, Typed, SteerLinked
  <2>3. own = HeldBy(db, t, ItemOf(item.steer))
    BY <2>2 DEF SteerApart, HeldBy, Own
  <2> HIDE DEF own
  <2>4. \A k \in own : RowRead(db, t, db.inbox[k])
    BY <1>2, <2>3 DEF HeldBy, Apart
  <2> QED
    BY <2>1, <2>3, <2>4 DEF HeldBy, RowRead, OnItsWay
<1>10. item.steer = 0 => own = {}
  OBVIOUS
<1> HIDE DEF own, i, item, claimed
<1>11. ASSUME NEW e, NEW runs, NEW n \in DOMAIN runs, RunsOf(db, e, t, runs), Apart(e, t, items, x),
              queue' = [queue EXCEPT ![t] = claimed], db' = e,
              \A m \in DOMAIN runs : m # n => m \in DOMAIN db.runs[t] /\ runs[m] = db.runs[t][m],
              item.steer # 0 => /\ runs[n].rows = own /\ runs[n].item = item.steer
                                /\ \A m \in DOMAIN db.runs[t] : db.runs[t][m].item = item.steer => m = n
       PROVE  ReadInv'
  <2>1. /\ e.runs[t] = runs /\ e.inbox = db.inbox /\ \A u \in Threads : Rows(e, u) = Rows(db, u)
        /\ Typed(e) /\ Beside(db, e, t)
    BY <1>11 DEF RunsOf
  <2>2. item.steer # 0 => \A m \in DOMAIN e.runs[t] : e.runs[t][m].item = item.steer => ItemUnread(e, t, m)
    <3> SUFFICES ASSUME item.steer # 0, NEW m \in DOMAIN e.runs[t], e.runs[t][m].item = item.steer
                 PROVE  ItemUnread(e, t, m)
      OBVIOUS
    <3>1. m = n
      BY <1>11, <2>1
    <3>2. HeldBy(e, t, ItemOf(item.steer)) = own
      BY <1>9, <2>1 DEF HeldBy
    <3> QED
      BY <1>9, <1>11, <2>1, <3>1, <3>2 DEF ItemUnread
  <2>3. Apart(e, t, claimed, x)
    BY <1>1, <1>2, <1>3, <1>11, <2>2, ClaimedApart DEF claimed
  <2>4. queue'[t] = claimed /\ turn'[t] = x /\ \A u \in Threads \ {t} : queue'[u] = queue[u] /\ turn'[u] = turn[u]
    BY <1>1, <1>2, <1>11 DEF x
  <2> QED
    BY <1>0, <1>11, <2>1, <2>3, <2>4, StepReads
<1>12. CASE db' = db /\ queue' = [queue EXCEPT ![t] = Tail(@)]
  <2>1. Apart(db, t, Tail(items), x)
    BY <1>1, <1>2, TailApart
  <2>2. queue'[t] = Tail(items) /\ turn'[t] = x /\ \A u \in Threads \ {t} : queue'[u] = queue[u] /\ turn'[u] = turn[u]
    BY <1>1, <1>2, <1>12 DEF x, items
  <2>3. Beside(db, db, t)
    BY BesideItself
  <2> QED
    BY <1>0, <1>2, <1>12, <2>1, <2>2, <2>3, StepReads
<1>13. CASE /\ i \in DOMAIN db.runs[t] /\ db' = [db EXCEPT !.runs[t][i].rows = own]
            /\ queue' = [queue EXCEPT ![t] = claimed] /\ (item.steer # 0 => own # {})
  <2> DEFINE runs == [db.runs[t] EXCEPT ![i] = run]
  <2>1. db.runs[t][i] \in Run /\ RunApart(db, t, i)
    BY <1>2, <1>13
  <2>2. own \in SUBSET Rows(db, t) /\ own \in SUBSET Nat
    BY <1>2, <1>9, <1>10 DEF Rows
  <2>3. /\ run \in Run /\ run.item = db.runs[t][i].item /\ run.rows = own
        /\ run.status = db.runs[t][i].status /\ run.source = db.runs[t][i].source
        /\ run.start = db.runs[t][i].start
    BY <2>1, <2>2 DEF Run
  <2>4. db' = shown
    BY <1>2, <1>13 DEF Typed, DB
  <2> HIDE DEF run
  <2>5. RunsOf(db, shown, t, runs)
    BY <1>2, <1>13, <2>2, <2>3, RunChanged
  <2>6. /\ DOMAIN runs = DOMAIN db.runs[t] /\ runs[i] = run /\ i \in DOMAIN runs
        /\ \A n \in DOMAIN runs : n # i => n \in DOMAIN db.runs[t] /\ runs[n] = db.runs[t][n]
    BY <1>13
  <2> HIDE DEF runs, shown
  <2>7. /\ shown.runs[t] = runs /\ shown.steers = db.steers /\ \A c : HeldBy(shown, t, c) = HeldBy(db, t, c)
    BY <2>5 DEF RunsOf, HeldBy
  <2>8. db.runs[t][i].source \in Plain => item.steer = 0
    <3>1. db.runs[t][i].source \in Plain => db.runs[t][i].item = 0
      BY <2>1 DEF RunApart, RunStands
    <3> QED
      BY <1>7, <1>13, <3>1
  <2>9. item.steer = 0 => db.runs[t][i].source \in Plain
    BY <1>6, <1>7 DEF ItemApart
  <2>10. run.start # "pending"
    <3>1. db.runs[t][i].source = "wake" => db.runs[t][i].item = 0
      BY <2>1 DEF RunApart, RunStands
    <3> QED
      BY <1>5, <1>7, <1>13, <2>3, <2>9, <3>1 DEF Plain
  <2>11. run.status = "queued" => HeldBy(db, t, StartOf(i)) \subseteq own
    <3>1. CASE item.steer = 0
      BY <2>1, <2>9, <3>1 DEF RunApart, RunStands
    <3>2. CASE item.steer # 0
      <4>1. run.status = "queued" => HeldBy(db, t, StartOf(i)) = {} \/ HeldBy(db, t, ItemOf(item.steer)) = {}
        BY <1>7, <1>13, <2>1, <2>3, <3>2 DEF RunApart, RunStands
      <4> QED
        BY <1>9, <1>13, <3>2, <4>1
    <3> QED
      BY <3>1, <3>2
  <2>12. RunApart(shown, t, i)
    <3>1. \A n \in DOMAIN runs : runs[n].item = db.runs[t][n].item
      BY <2>3, <2>6
    <3> DEFINE r == db.runs[t][i]
    <3>0. /\ RunStands(db, t, i, r) /\ run.item = r.item /\ run.status = r.status /\ run.source = r.source
          /\ r.source \in Plain => run.rows = {}
      BY <1>10, <2>1, <2>3, <2>8 DEF RunApart
    <3> HIDE DEF r
    <3>2. /\ r.source \in Plain => r.item = 0 /\ HeldBy(db, t, StartOf(i)) = {}
          /\ r.source = "wake" => r.item = 0
      BY <3>0 DEF RunStands
    <3>3. r.item # 0 =>
            /\ r.item \in DOMAIN db.steers[t] /\ db.steers[t][r.item].status = "succeeded"
            /\ \A n \in DOMAIN db.runs[t] : db.runs[t][n].item = r.item => n = i
            /\ r.status = "queued" => HeldBy(db, t, StartOf(i)) = {} \/ HeldBy(db, t, ItemOf(r.item)) = {}
      BY <3>0 DEF RunStands
    <3>4. /\ run.source \in Plain => run.rows = {} /\ run.item = 0 /\ HeldBy(shown, t, StartOf(i)) = {}
          /\ run.source = "wake" => run.item = 0
          /\ run.status = "queued" => HeldBy(shown, t, StartOf(i)) \subseteq run.rows
      BY <2>3, <2>7, <2>11, <3>0, <3>2
    <3>5. run.item # 0 =>
            /\ run.item \in DOMAIN shown.steers[t] /\ shown.steers[t][run.item].status = "succeeded"
            /\ \A n \in DOMAIN runs : runs[n].item = run.item => n = i
            /\ run.status = "queued" =>
                  HeldBy(shown, t, StartOf(i)) = {} \/ HeldBy(shown, t, ItemOf(run.item)) = {}
      BY <2>6, <2>7, <3>0, <3>1, <3>3
    <3>6. shown.runs[t] = runs /\ runs[i] = run
      BY <2>6, <2>7
    <3> QED
      <4>1. \A n \in DOMAIN shown.runs[t] : run.item # 0 /\ shown.runs[t][n].item = run.item => n = i
        BY <3>5, <3>6
      <4>2. RunStands(shown, t, i, run)
        BY <2>10, <3>4, <3>5, <4>1 DEF RunStands
      <4> QED
        BY <3>6, <4>2 DEF RunApart
  <2>13. ~IsLive(shown, t, x)
    BY <1>4 DEF IsLive
  <2>14. Apart(shown, t, items, x)
    BY <1>2, <1>4, <2>3, <2>5, <2>6, <2>12, <2>13, OneRunApart
  <2> QED
    BY <1>7, <1>8, <1>11, <1>13, <2>3, <2>4, <2>5, <2>6, <2>14
<1>14. CASE /\ i \notin DOMAIN db.runs[t] /\ db' = made /\ queue' = [queue EXCEPT ![t] = claimed]
  <2> DEFINE more == Append(db.runs[t], late)
             n == Len(db.runs[t]) + 1
  <2>1. item.steer # 0 /\ item.steer \in Nat /\ own \in SUBSET Rows(db, t) /\ own \in SUBSET Nat
    BY <1>2, <1>3, <1>7, <1>9, <1>14 DEF Rows, Item
  <2>2. late \in Run /\ late.rows = own /\ late.item = item.steer /\ late.source = "late"
    BY <2>1, NewRunType
  <2>3. late.start = "none"
    BY DEF NewRun
  <2> HIDE DEF late
  <2>4. RunsOf(db, made, t, more) /\ OneMore(db, made, t, late)
    <3>1. late.rows \subseteq Rows(db, t)
      BY <2>1, <2>2
    <3> QED
      BY <1>2, <2>2, <3>1, OneRunAdded
  <2> HIDE DEF more, n, made
  <2>5. /\ RunsOf(db, made, t, more)
        /\ DOMAIN more = DOMAIN db.runs[t] \cup {n} /\ more[n] = late
        /\ \A m \in DOMAIN db.runs[t] : more[m] = db.runs[t][m]
    BY <2>4 DEF OneMore, RunsOf, n
  <2>6. n \notin DOMAIN db.runs[t]
    BY <1>2 DEF n
  <2>7. /\ made.runs[t] = more /\ made.steers = db.steers /\ \A c : HeldBy(made, t, c) = HeldBy(db, t, c)
    BY <2>5 DEF RunsOf, HeldBy
  <2>8. \A m \in DOMAIN db.runs[t] : db.runs[t][m].item # item.steer
    BY <1>8, <1>14, <2>1
  <2>9. HeldBy(made, t, StartOf(n)) = {}
    BY <1>2, <2>6, <2>7, NothingForNew
  <2>10. RunApart(made, t, n)
    <3>1. \A m \in DOMAIN more : more[m].item = item.steer => m = n
      BY <2>5, <2>8
    <3> QED
      BY <1>9, <2>1, <2>2, <2>3, <2>5, <2>7, <2>9, <3>1 DEF RunApart, RunStands, Plain
  <2>11. ~IsLive(made, t, x)
    BY <1>4 DEF IsLive
  <2>12. Apart(made, t, items, x)
    <3>1. n \in DOMAIN more /\ \A m \in DOMAIN more \ {n} : m \in DOMAIN db.runs[t] /\ more[m] = db.runs[t][m]
      BY <2>5
    <3>2. more[n].item \notin x.unread \cup x.taken
      BY <1>6, <2>2, <2>5
    <3>3. /\ Typed(db) /\ RunsOf(db, made, t, more) /\ TurnLinked(db, t, x) /\ Apart(db, t, items, x)
          /\ \A m \in DOMAIN items : ItemLinked(db, t, items[m])
      BY <1>2, <2>5
    <3>4. ~(IsLive(made, t, x) /\ x.run = n)
      BY <2>11
    <3>5. n \in DOMAIN db.runs[t] => /\ more[n].source = db.runs[t][n].source /\ more[n].item = db.runs[t][n].item
                                     /\ more[n].status = "queued" => db.runs[t][n].status = "queued"
      BY <2>6
    <3>6. n \notin DOMAIN db.runs[t] => more[n].item = 0 \/ more[n].item \notin x.unread \cup x.taken
      BY <3>2
    <3>7. \A m \in DOMAIN items :
            /\ items[m].steer # 0 /\ items[m].claimed /\ more[n].item = items[m].steer
            /\ more[n].status = "queued" /\ more[n].start \notin InFlight
            => ItemUnread(made, t, n)
      BY <1>4
    <3> HIDE DEF items, x
    <3> QED
      BY <2>10, <3>1, <3>3, <3>4, <3>5, <3>6, <3>7, OneRunApart
  <2> QED
    BY <1>11, <1>14, <2>2, <2>5, <2>8, <2>12
<1> QED
  BY <1>1, <1>12, <1>13, <1>14 DEF claimed, items

\* The turn.start of a run is recorded, or the run has ended.
RunStarts(r, s) ==
    /\ s.source = r.source /\ s.rows = r.rows /\ s.item = r.item /\ s.status = r.status
    /\ s.start = IF r.status = "queued" THEN "pending" ELSE "succeeded"

LEMMA NotLive ==
  ASSUME NEW d, NEW e, NEW t, NEW items, NEW x, Apart(d, t, items, x), NEW i,
         d.runs[t][i].start \notin InFlight, e.runs[t][i].status = d.runs[t][i].status
  PROVE  ~(IsLive(e, t, x) /\ x.run = i)
<1> SUFFICES ASSUME IsLive(e, t, x), x.run = i PROVE FALSE
  OBVIOUS
<1>1. IsLive(d, t, x)
  BY DEF IsLive
<1>2. d.runs[t][i].start = "running"
  BY <1>1 DEF Apart, TurnApart
<1> QED
  BY <1>2 DEF InFlight

\* The notices of an item go to the turn.start of its run.
LEMMA ItemStarted ==
  ASSUME NEW d, Typed(d), NEW t \in Threads, NEW items, NEW x, TurnLinked(d, t, x), Apart(d, t, items, x),
         \A n \in DOMAIN items : ItemLinked(d, t, items[n]),
         \A n \in DOMAIN items : items[n] \in Item,
         NEW i \in DOMAIN d.runs[t], d.runs[t][i].item # 0, d.runs[t][i].start \notin InFlight,
         d.runs[t][i].status = "queued" => ItemUnread(d, t, i),
         NEW run \in Run, RunStarts(d.runs[t][i], run),
         NEW s, RunsOf(d, s, t, [d.runs[t] EXCEPT ![i] = run])
  PROVE  LET own == Own(d, d.runs[t][i].rows, ItemOf(d.runs[t][i].item))
             e == ToStart(s, own, i)
         IN own \subseteq Rows(d, t) /\ RewriteOf(s, e, own) /\ Apart(e, t, items, x)
<1> DEFINE r == d.runs[t][i]
           own == Own(d, r.rows, ItemOf(r.item))
           e == ToStart(s, own, i)
           mid == ToStart(d, own, i)
           runs == [d.runs[t] EXCEPT ![i] = run]
           open == [n \in DOMAIN items |-> IF items[n].steer = r.item THEN [items[n] EXCEPT !.claimed = FALSE]
                                           ELSE items[n]]
<1>1. /\ r \in Run /\ r.rows \subseteq Rows(d, t) /\ RunApart(d, t, i) /\ i \in Nat
  BY Parts DEF Typed, RunLinked, Apart
<1>2. /\ Typed(s) /\ s.steers = d.steers /\ s.tasks = d.tasks /\ s.inbox = d.inbox /\ s.runs[t] = runs
      /\ Beside(d, s, t) /\ Grows(d, s)
      /\ \A u \in Threads \ {t} : s.runs[u] = d.runs[u]
      /\ \A u \in Threads : Rows(s, u) = Rows(d, u)
  BY DEF RunsOf
<1>3. DOMAIN runs = DOMAIN d.runs[t] /\ runs[i] = run /\ \A n \in DOMAIN d.runs[t] \ {i} : runs[n] = d.runs[t][n]
  OBVIOUS
<1>4. /\ run.source = r.source /\ run.rows = r.rows /\ run.item = r.item /\ run.status = r.status
      /\ run.start = IF r.status = "queued" THEN "pending" ELSE "succeeded"
  BY DEF RunStarts
<1> HIDE DEF runs
<1>5. /\ own \in SUBSET r.rows
      /\ \A k \in own : d.inbox[k].status = "delivered" /\ d.inbox[k].by = ItemOf(r.item)
      /\ \A k \in r.rows \ own : ~(d.inbox[k].status = "delivered" /\ d.inbox[k].by = ItemOf(r.item))
  BY DEF Own
<1> HIDE DEF own
<1>6. \A k \in own : k \in DOMAIN d.inbox /\ d.inbox[k].to = t
  BY <1>1, <1>5 DEF Rows
<1> HIDE DEF r
<1>7. RewriteOf(d, mid, own)
  <2>1. \A k \in own \cap DOMAIN d.inbox : i \in DOMAIN d.runs[d.inbox[k].to]
    BY <1>6
  <2> QED
    BY <1>1, <2>1, ToStartRewrites
<1>8. RewriteOf(s, e, own)
  <2>1. \A k \in own \cap DOMAIN s.inbox : i \in DOMAIN s.runs[s.inbox[k].to]
    BY <1>2, <1>3, <1>6
  <2> QED
    BY <1>1, <1>2, <2>1, ToStartRewrites
<1>9. e.inbox = mid.inbox
  BY <1>2 DEF ToStart, Typed, DB
<1>10. \A k \in own : Carried(d.inbox[k], mid.inbox[k]) /\ mid.inbox[k].by = StartOf(i)
  <2> HIDE DEF mid
  <2> SUFFICES ASSUME NEW k \in own
               PROVE  Carried(d.inbox[k], mid.inbox[k]) /\ mid.inbox[k].by = StartOf(i)
    OBVIOUS
  <2>1. k \in DOMAIN d.inbox /\ d.inbox[k].status = "delivered"
    BY <1>5, <1>6
  <2> QED
    BY <2>1, ToStartRows DEF mid
<1> HIDE DEF e, mid
<1>11. /\ DOMAIN open = DOMAIN items
       /\ \A n \in DOMAIN items : /\ open[n].steer = items[n].steer /\ open[n].run = items[n].run
                                  /\ items[n].steer = r.item => ~open[n].claimed
                                  /\ open[n].claimed => items[n].claimed
                                  /\ items[n].steer # r.item => open[n].claimed = items[n].claimed
  BY DEF Item
<1> HIDE DEF open
<1>12. Apart(d, t, open, x)
  BY <1>11, ItemsApart
<1>13. /\ Typed(mid) /\ mid.runs = d.runs /\ mid.steers = d.steers /\ mid.tasks = d.tasks
       /\ \A u \in Threads : Rows(mid, u) = Rows(d, u)
       /\ \A k \in DOMAIN d.inbox \ own : mid.inbox[k] = d.inbox[k]
  BY <1>7 DEF RewriteOf
<1>14. Apart(mid, t, open, x)
  <2>1. \A n \in DOMAIN open : open[n].steer = d.runs[t][i].item => ~open[n].claimed
    BY <1>11 DEF r
  <2>2. own \in SUBSET d.runs[t][i].rows
    BY <1>5 DEF r
  <2>3. \A k \in own : /\ Carried(d.inbox[k], mid.inbox[k])
                       /\ d.inbox[k].by = ItemOf(d.runs[t][i].item) /\ mid.inbox[k].by = StartOf(i)
    BY <1>5, <1>10 DEF r
  <2>4. d.runs[t][i].status = "queued" => HeldBy(d, t, ItemOf(d.runs[t][i].item)) \subseteq own
    BY <1>5 DEF r, ItemUnread, HeldBy
  <2> QED
    BY <1>7, <1>12, <2>1, <2>2, <2>3, <2>4, MovedToStart
<1>15. /\ Typed(e) /\ e.runs = s.runs /\ e.steers = d.steers /\ e.tasks = d.tasks
       /\ \A u \in Threads : Rows(e, u) = Rows(d, u)
  BY <1>2, <1>8 DEF RewriteOf
<1>16. RunsOf(mid, e, t, runs)
  <2>1. Beside(mid, e, t)
    BY <1>2, <1>9, <1>13, <1>15 DEF Beside, Untouched, Rows
  <2>2. Grows(mid, e)
    BY <1>2, <1>13, <1>15 DEF Grows
  <2> QED
    BY <1>2, <1>9, <1>13, <1>15, <2>1, <2>2 DEF RunsOf
<1>17. r.status = "queued" => PromptUnread(e, t, i)
  <2> SUFFICES ASSUME r.status = "queued", NEW k \in r.rows
               PROVE  /\ OnItsWay(e.inbox[k])
                      /\ \/ e.inbox[k].by = StartOf(i)
                         \/ e.inbox[k].status = "acknowledged" /\ r.item # 0 /\ e.inbox[k].by = ItemOf(r.item)
    BY <1>2, <1>3, <1>4, <1>15 DEF PromptUnread
  <2>1. OnItsWay(d.inbox[k]) /\ d.inbox[k].by = ItemOf(r.item) /\ k \in DOMAIN d.inbox
    BY <1>1 DEF ItemUnread, r, Rows
  <2>2. CASE k \in own
    BY <1>9, <1>10, <2>1, <2>2 DEF Carried, OnItsWay
  <2>3. CASE k \notin own
    <3>1. e.inbox[k] = d.inbox[k] /\ d.inbox[k].status = "acknowledged"
      BY <1>5, <1>9, <1>13, <2>1, <2>3 DEF OnItsWay
    <3> QED
      BY <2>1, <3>1 DEF r
  <2> QED
    BY <2>2, <2>3
<1>18. \A c : HeldBy(e, t, c) = HeldBy(mid, t, c)
  BY <1>9, <1>13, <1>15 DEF HeldBy
<1>19. RunApart(e, t, i)
  <2>1. RunApart(mid, t, i)
    BY <1>13, <1>14 DEF Apart
  <2>2. e.runs[t][i] = run /\ mid.runs[t][i] = r /\ r.item # 0
    BY <1>2, <1>3, <1>13, <1>15 DEF r
  <2>3. \A n \in DOMAIN e.runs[t] : n \in DOMAIN mid.runs[t] /\ e.runs[t][n].item = mid.runs[t][n].item
    BY <1>2, <1>3, <1>4, <1>13, <1>15 DEF r
  <2> QED
    BY <1>4, <1>13, <1>15, <1>17, <1>18, <2>1, <2>2, <2>3 DEF RunApart, RunStands
<1>20. ~(IsLive(e, t, x) /\ x.run = i)
  BY <1>2, <1>3, <1>4, <1>15, NotLive DEF r
<1>21. Apart(e, t, open, x)
  <2>1. TurnLinked(mid, t, x) /\ \A n \in DOMAIN open : ItemLinked(mid, t, open[n])
    BY <1>11, <1>13 DEF TurnLinked, ItemLinked
  <2>2. i \in DOMAIN runs /\ \A n \in DOMAIN runs \ {i} : n \in DOMAIN mid.runs[t] /\ runs[n] = mid.runs[t][n]
    BY <1>3, <1>13
  <2>3. /\ i \in DOMAIN mid.runs[t] /\ runs[i].source = mid.runs[t][i].source /\ runs[i].item = mid.runs[t][i].item
        /\ runs[i].status = mid.runs[t][i].status /\ runs[i].item = r.item
    BY <1>3, <1>4, <1>13 DEF r
  <2>4. \A n \in DOMAIN open :
           /\ open[n].steer # 0 /\ open[n].claimed /\ runs[i].item = open[n].steer
           /\ runs[i].status = "queued" /\ runs[i].start \notin InFlight
           => ItemUnread(e, t, i)
    BY <1>11, <2>3
  <2>5. /\ i \in DOMAIN mid.runs[t] => /\ runs[i].source = mid.runs[t][i].source /\ runs[i].item = mid.runs[t][i].item
                                       /\ runs[i].status = "queued" => mid.runs[t][i].status = "queued"
        /\ i \notin DOMAIN mid.runs[t] => runs[i].item = 0 \/ runs[i].item \notin x.unread \cup x.taken
    BY <2>3
  <2> QED
    BY <1>13, <1>14, <1>16, <1>19, <1>20, <2>1, <2>2, <2>4, <2>5, OneRunApart
<1>22. ASSUME NEW n \in DOMAIN items
       PROVE  \/ \E m \in DOMAIN open :
                    /\ items[n].steer = open[m].steer /\ items[n].run = open[m].run
                    /\ items[n].claimed => open[m].claimed
              \/ ItemApart(e, t, items[n]) /\ items[n].steer \notin x.unread \cup x.taken
  <2>1. CASE items[n].steer # r.item
    BY <1>11, <2>1
  <2>2. CASE items[n].steer = r.item
    <3>1. ItemApart(d, t, items[n]) /\ items[n].steer \notin x.unread \cup x.taken
      BY DEF Apart, TurnApart
    <3>2. \A m \in DOMAIN e.runs[t] : e.runs[t][m].item = r.item => m = i
      <4>1. \A m \in DOMAIN d.runs[t] : d.runs[t][m].item = r.item => m = i
        BY <1>1 DEF RunApart, RunStands, r
      <4> QED
        BY <1>2, <1>3, <1>15, <4>1
    <3>3. ~(e.runs[t][i].status = "queued" /\ e.runs[t][i].start \notin InFlight)
      BY <1>2, <1>3, <1>4, <1>15 DEF InFlight
    <3>4. r.item # 0
      BY DEF r
    <3> QED
      BY <1>15, <2>2, <3>1, <3>2, <3>3, <3>4 DEF ItemApart
  <2> QED
    BY <2>1, <2>2
<1>23. Apart(e, t, items, x)
  BY <1>21, <1>22, ItemsApart
<1> QED
  BY <1>1, <1>5, <1>8, <1>23 DEF e, own, r

\* A person's message, or what a turn never read, is started.
LEMMA PlainStarted ==
  ASSUME NEW d, Typed(d), NEW t \in Threads, NEW items, NEW x, TurnLinked(d, t, x), Apart(d, t, items, x),
         \A n \in DOMAIN items : ItemLinked(d, t, items[n]),
         NEW i \in DOMAIN d.runs[t], d.runs[t][i].source \in Plain, d.runs[t][i].start \notin InFlight,
         NEW run \in Run, RunStarts(d.runs[t][i], run),
         NEW e, RunsOf(d, e, t, [d.runs[t] EXCEPT ![i] = run])
  PROVE  Apart(e, t, items, x)
<1> DEFINE r == d.runs[t][i]
           runs == [d.runs[t] EXCEPT ![i] = run]
<1>1. RunApart(d, t, i)
  BY DEF Apart
<1>2. /\ e.steers = d.steers /\ e.inbox = d.inbox /\ e.runs[t] = runs /\ Rows(e, t) = Rows(d, t)
  BY DEF RunsOf
<1>3. DOMAIN runs = DOMAIN d.runs[t] /\ runs[i] = run /\ \A n \in DOMAIN d.runs[t] \ {i} : runs[n] = d.runs[t][n]
  OBVIOUS
<1>4. /\ run.source = r.source /\ run.rows = {} /\ run.item = 0 /\ run.status = r.status
      /\ run.start = IF r.status = "queued" THEN "pending" ELSE "succeeded"
      /\ HeldBy(d, t, StartOf(i)) = {}
  BY <1>1 DEF RunStarts, RunApart, RunStands
<1> HIDE DEF runs
<1>5. HeldBy(e, t, StartOf(i)) = {}
  BY <1>2, <1>4 DEF HeldBy
<1>6. RunApart(e, t, i)
  <2>1. e.runs[t][i] = run
    BY <1>2, <1>3
  <2>2. PromptUnread(e, t, i)
    BY <1>4, <2>1 DEF PromptUnread
  <2>3. HeldBy(e, t, StartOf(i)) \subseteq run.rows /\ (run.start = "pending" => run.status = "queued")
    BY <1>4, <1>5
  <2> QED
    BY <1>4, <1>5, <2>1, <2>2, <2>3 DEF RunApart, RunStands
<1>7. ~(IsLive(e, t, x) /\ x.run = i)
  BY <1>2, <1>3, <1>4, NotLive
<1>8. i \in DOMAIN runs /\ \A n \in DOMAIN runs \ {i} : n \in DOMAIN d.runs[t] /\ runs[n] = d.runs[t][n]
  BY <1>3
<1>9. i \in DOMAIN d.runs[t] => /\ runs[i].source = d.runs[t][i].source /\ runs[i].item = d.runs[t][i].item
                                /\ runs[i].status = "queued" => d.runs[t][i].status = "queued"
  BY <1>3, <1>4 DEF RunStarts
<1>10. \A n \in DOMAIN items :
         /\ items[n].steer # 0 /\ items[n].claimed /\ runs[i].item = items[n].steer
         /\ runs[i].status = "queued" /\ runs[i].start \notin InFlight
         => ItemUnread(e, t, i)
  BY <1>3, <1>4
<1> QED
  BY <1>6, <1>7, <1>8, <1>9, <1>10, OneRunApart DEF runs

LEMMA StartItemReads ==
  ASSUME Inv, ReadInv, NEW t \in Threads, StartItem(t)
  PROVE  ReadInv'
<1>0. Inv'
  BY StartItemStep
<1> DEFINE items == queue[t]
           x == turn[t]
           item == Head(items)
           i == RunOfItem(t, item)
           queued == db.runs[t][i].status = "queued"
           started == IF queued THEN [db EXCEPT !.runs[t] = Enqueue(@, i)]
                      ELSE [db EXCEPT !.runs[t][i].start = "succeeded"]
           own == Own(db, db.runs[t][i].rows, ItemOf(item.steer))
           e == IF item.steer = 0 THEN started ELSE ToStart(started, own, i)
           memory == Memory(turn, background)
           runs(run) == [db.runs[t] EXCEPT ![i] = run]
<1>1. /\ items # <<>> /\ item.claimed /\ turn' = turn /\ db.runs[t][i].start \notin InFlight
      /\ db' = Settle(e, memory, {t})
      /\ queue' = queue \/ queue' = [queue EXCEPT ![t] = Tail(@)]
  BY DEF StartItem
<1>2. /\ Typed(db) /\ TurnLinked(db, t, x) /\ Apart(db, t, items, x)
      /\ items \in Seq(Item) /\ \A n \in DOMAIN items : items[n] \in Item /\ ItemLinked(db, t, items[n])
      /\ turn \in [Threads -> Turn] /\ queue \in [Threads -> Seq(Item)]
      /\ \A n \in DOMAIN db.runs[t] : db.runs[t][n] \in Run /\ db.runs[t][n].rows \subseteq Rows(db, t)
      /\ db.runs[t] \in Seq(Run)
  BY ThreadParts
<1>3. item = items[1] /\ 1 \in DOMAIN items /\ item \in Item /\ ItemLinked(db, t, item)
  <2>1. items # <<>> /\ items \in Seq(Item)
    BY <1>1, <1>2
  <2> HIDE DEF items
  <2>2. item = items[1] /\ 1 \in DOMAIN items
    BY <2>1, LenProperties, EmptySeq
  <2>3. \A n \in DOMAIN items : items[n] \in Item /\ ItemLinked(db, t, items[n])
    BY <1>2
  <2> HIDE DEF item
  <2> QED
    BY <2>2, <2>3
<1> HIDE DEF items, x
<1>4. ItemApart(db, t, item)
  BY <1>2, <1>3 DEF Apart
<1>5. /\ i \in Nat /\ i \in DOMAIN db.runs[t]
      /\ item.steer = 0 => i = item.run
      /\ item.steer # 0 => db.runs[t][i].item = item.steer
  BY <1>1, <1>2, <1>3, RunOfItemFacts DEF RunOfItem
<1> HIDE DEF i, item
<1>6. db.runs[t][i] \in Run
  BY <1>2, <1>5
<1>7. \E run \in Run : RunStarts(db.runs[t][i], run) /\ started = [db EXCEPT !.runs[t][i] = run]
  <2>1. CASE queued
    <3>1. PICK at \in Nat : Enqueue(db.runs[t], i) = [db.runs[t] EXCEPT ![i] = [db.runs[t][i] EXCEPT !.start = "pending", !.at = at]]
      <4>1. db.runs[t] \in Seq(Run) /\ i \in DOMAIN db.runs[t]
        BY <1>2, <1>5
      <4> QED
        BY <4>1, Enqueued
    <3> DEFINE run == [db.runs[t][i] EXCEPT !.start = "pending", !.at = at]
    <3>2. run \in Run /\ RunStarts(db.runs[t][i], run)
      BY <1>6, <2>1 DEF Run, InFlight, RunStarts
    <3>3. started = [db EXCEPT !.runs[t][i] = run]
      BY <2>1, <3>1
    <3> QED
      BY <3>2, <3>3
  <2>2. CASE ~queued
    <3> DEFINE run == [db.runs[t][i] EXCEPT !.start = "succeeded"]
    <3>1. run \in Run /\ RunStarts(db.runs[t][i], run)
      BY <1>6, <2>2 DEF Run, InFlight, RunStarts
    <3>2. started = [db EXCEPT !.runs[t][i] = run]
      BY <1>2, <1>5, <2>2 DEF Typed, DB
    <3> QED
      BY <3>1, <3>2
  <2> QED
    BY <2>1, <2>2
<1>8. PICK run \in Run : RunStarts(db.runs[t][i], run) /\ started = [db EXCEPT !.runs[t][i] = run]
  BY <1>7
<1> HIDE DEF started
<1>9. RunsOf(db, started, t, [db.runs[t] EXCEPT ![i] = run])
  <2>1. run.item = db.runs[t][i].item /\ run.rows \subseteq Rows(db, t)
    BY <1>2, <1>5, <1>8 DEF RunStarts
  <2> QED
    BY <1>2, <1>5, <1>8, <2>1, RunChanged
<1>10. Typed(e) /\ Beside(db, e, t) /\ (\A u \in Threads : Rows(e, u) = Rows(db, u)) /\ Apart(e, t, items, x)
  <2>0. /\ Typed(started) /\ Beside(db, started, t) /\ \A u \in Threads : Rows(started, u) = Rows(db, u)
    BY <1>9 DEF RunsOf
  <2>1. CASE item.steer = 0
    <3>1. db.runs[t][i].source \in Plain
      BY <1>4, <1>5, <2>1 DEF ItemApart
    <3>2. Apart(started, t, items, x)
      BY <1>1, <1>2, <1>5, <1>8, <1>9, <3>1, PlainStarted
    <3> QED
      BY <2>0, <2>1, <3>2
  <2>2. CASE item.steer # 0
    <3>1. e = ToStart(started, own, i) /\ own = Own(db, db.runs[t][i].rows, ItemOf(db.runs[t][i].item))
      BY <1>5, <2>2
    <3> HIDE DEF e, own
    <3>2. db.runs[t][i].status = "queued" => ItemUnread(db, t, i)
      BY <1>1, <1>4, <1>5, <2>2 DEF ItemApart
    <3>3. own \subseteq Rows(db, t) /\ RewriteOf(started, e, own) /\ Apart(e, t, items, x)
      <4>1. db.runs[t][i].item # 0
        BY <1>5, <2>2
      <4> QED
        BY <1>1, <1>2, <1>5, <1>8, <1>9, <3>1, <3>2, <4>1, ItemStarted
    <3>4. Beside(started, e, t)
      BY <2>0, <3>3, RewriteBeside
    <3> QED
      BY <2>0, <3>3, <3>4, BesideTwice DEF RewriteOf
  <2> QED
    BY <2>1, <2>2
<1> HIDE DEF e
<1>11. Apart(e, t, Tail(items), x)
  BY <1>1, <1>2, <1>10, TailApart
<1>12. /\ queue'[t] = items \/ queue'[t] = Tail(items)
       /\ turn'[t] = x /\ \A u \in Threads \ {t} : queue'[u] = queue[u] /\ turn'[u] = turn[u]
  BY <1>1, <1>2 DEF items, x
<1>13. Apart(e, t, queue'[t], turn'[t])
  BY <1>10, <1>11, <1>12
<1> QED
  BY <1>0, <1>1, <1>10, <1>12, <1>13, StepReads
-----------------------------------------------------------------------------
(* Tasks read outside a turn, and Stops.                                     *)

\* A task whose status the parent's turn reads is acknowledged: its notices are settled unread.
LEMMA TaskStatusReads ==
  ASSUME Inv, ReadInv, NEW k \in DOMAIN db.tasks, TaskStatus(k)
  PROVE  ReadInv'
<1>0. Standing(db, queue, turn)
  BY InvParts DEF Standing, ReadInv
<1> DEFINE p == Parent[db.tasks[k].child]
           read == [db EXCEPT !.tasks[k].status = "acknowledged"]
           rows == {r \in Rows(db, p) : db.inbox[r].task = k}
           acked == Acknowledge(read, rows, TRUE)
           memory == Memory(turn, background)
           e == CancelAcknowledgedWakes(acked, memory, {p})
<1>1. /\ UNCHANGED <<queue, turn>> /\ db.tasks[k].status = "published" /\ db' = e
  BY DEF TaskStatus
<1>2. Typed(db) /\ {p} \in SUBSET Threads
  BY <1>0 DEF Standing, Typed, TaskLinked
<1>3. Typed(read) /\ Grows(db, read)
  BY <1>1, <1>2, TaskChanged
<1>4. read.runs = db.runs /\ read.steers = db.steers /\ read.inbox = db.inbox
  BY <1>2 DEF Typed, DB
<1> HIDE DEF read, rows, p
<1>5. TurnsTyped(read, turn) /\ QueuesTyped(read, queue)
  BY <1>0, <1>3, TurnsGrow, QueuesGrow DEF Standing
<1>6. AllApart(read, queue, turn)
  BY <1>0, <1>3, <1>4, SameTables DEF Standing
<1>7. Standing(acked, queue, turn)
  BY <1>3, <1>5, <1>6, WaiveApart DEF Standing
<1> HIDE DEF acked, memory
<1>8. Standing(e, queue, turn)
  BY <1>2, <1>7, CancelWakesStanding
<1> QED
  BY <1>1, <1>8 DEF Standing, ReadInv

\* A Stop hands nothing over: it tells the owner of the subtree, settles its rows, and ends its queued work.
LEMMA StopToldStanding ==
  ASSUME NEW d, NEW q, NEW tn, Standing(d, q, tn), NEW t \in Threads
  PROVE  Standing(StopTold(d, t), q, tn)
<1> DEFINE told == StopTold(d, t)
<1>1. /\ Typed(told) /\ Grows(d, told) /\ told.runs = d.runs /\ told.steers = d.steers
      /\ DOMAIN d.inbox \subseteq DOMAIN told.inbox
      /\ \A r \in DOMAIN d.inbox : told.inbox[r] = d.inbox[r]
      /\ \A r \in DOMAIN told.inbox \ DOMAIN d.inbox : told.inbox[r] = NewRow(Parent[t], 0)
  BY StopToldFacts DEF Standing
<1> HIDE DEF told
<1>2. ASSUME NEW c \in Threads PROVE Eases(d, told, c, q[c], tn[c])
  <2>1. Rows(d, c) \subseteq Rows(told, c)
    BY <1>1 DEF Rows
  <2>2. \A k \in Rows(told, c) \ Rows(d, c) : NewNotice(told.inbox[k])
    <3>1. \A k \in Rows(told, c) \ Rows(d, c) : k \in DOMAIN told.inbox \ DOMAIN d.inbox
      BY <1>1 DEF Rows
    <3> QED
      BY <1>1, <3>1, NewRowNew
  <2>3. \A k \in Rows(d, c) : LooksSame(d.inbox[k], told.inbox[k])
    BY <1>1 DEF Rows, LooksSame
  <2>4. /\ \A i \in DOMAIN d.runs[c] : RunEases(d.runs[c][i], told.runs[c][i])
        /\ \A j \in DOMAIN d.steers[c] : SteerEases(d.steers[c][j], told.steers[c][j])
    BY <1>1, RunEasesItself DEF SteerEases
  <2> QED
    BY <1>1, <2>1, <2>2, <2>3, <2>4 DEF Eases
<1>3. Standing(told, q, tn)
  BY <1>1, <1>2, AllEaseStanding
<1> QED
  BY <1>3 DEF told

LEMMA StoppedRunEases ==
  ASSUME NEW run \in Run
  PROVE  /\ RunEases(run, StoppedRun(run))
         /\ StoppedRun(run).status = run.status => StoppedRun(run).start = run.start
<1>1. CASE run.status = "queued" /\ run.source \notin {"person", "followup"}
  <2>1. StoppedRun(run) = [run EXCEPT !.status = "cancelled",
                                      !.start = IF run.start \in InFlight THEN "cancelled" ELSE run.start]
    BY <1>1 DEF StoppedRun
  <2>2. /\ StoppedRun(run).status = "cancelled" /\ StoppedRun(run).source = run.source
        /\ StoppedRun(run).rows = run.rows /\ StoppedRun(run).item = run.item
        /\ StoppedRun(run).start # "pending"
    BY <2>1 DEF Run, InFlight
  <2> QED
    BY <1>1, <2>2 DEF RunEases, Terminal
<1>2. CASE run.status = "active"
  <2>1. StoppedRun(run) = [run EXCEPT !.halted = TRUE]
    BY <1>2 DEF StoppedRun
  <2> QED
    BY <2>1 DEF Run, RunEases
<1>3. CASE ~(run.status = "queued" /\ run.source \notin {"person", "followup"}) /\ run.status # "active"
  BY <1>3, RunEasesItself DEF StoppedRun
<1> QED
  BY <1>1, <1>2, <1>3

\* Runs and steers that a Stop ends, over rows it has settled.
LEMMA EndedEases ==
  ASSUME NEW d, Typed(d), NEW e, Typed(e), e.inbox = d.inbox, NEW c \in Threads, NEW items, NEW x, TurnLinked(d, c, x),
         DOMAIN e.runs[c] = DOMAIN d.runs[c],
         \A i \in DOMAIN d.runs[c] : e.runs[c][i] = d.runs[c][i] \/ e.runs[c][i] = StoppedRun(d.runs[c][i]),
         DOMAIN e.steers[c] = DOMAIN d.steers[c],
         \A j \in DOMAIN d.steers[c] :
            \/ e.steers[c][j] = d.steers[c][j]
            \/ d.steers[c][j].status = "pending" /\ e.steers[c][j] = [d.steers[c][j] EXCEPT !.status = "cancelled"]
  PROVE  Eases(d, e, c, items, x)
<1>1. /\ \A i \in DOMAIN d.runs[c] : d.runs[c][i] \in Run
      /\ \A j \in DOMAIN d.steers[c] : d.steers[c][j] \in Steer
      /\ DOMAIN d.steers[c] = 1 .. Len(d.steers[c]) /\ Len(d.steers[c]) \in Nat
      /\ DOMAIN e.steers[c] = 1 .. Len(e.steers[c]) /\ Len(e.steers[c]) \in Nat
  BY Parts DEF Typed
<1>2. \A i \in DOMAIN d.runs[c] :
        /\ RunEases(d.runs[c][i], e.runs[c][i])
        /\ e.runs[c][i].status = d.runs[c][i].status => e.runs[c][i].start = d.runs[c][i].start
  BY <1>1, StoppedRunEases, RunEasesItself
<1>3. IsLive(e, c, x) => e.runs[c][x.run].start = d.runs[c][x.run].start
  <2> SUFFICES ASSUME IsLive(e, c, x) PROVE e.runs[c][x.run].start = d.runs[c][x.run].start
    OBVIOUS
  <2>1. x.run \in DOMAIN d.runs[c] /\ e.runs[c][x.run].status = "active"
    BY DEF IsLive, TurnLinked
  <2>2. e.runs[c][x.run].status = d.runs[c][x.run].status
    BY <1>2, <2>1 DEF RunEases, Terminal
  <2> QED
    BY <1>2, <2>1, <2>2
<1>4. \A i \in DOMAIN d.runs[c] :
        e.runs[c][i].status = "queued" /\ e.runs[c][i].start \notin InFlight => d.runs[c][i].start \notin InFlight
  BY <1>2 DEF RunEases, Terminal
<1>5. \A j \in DOMAIN d.steers[c] : SteerEases(d.steers[c][j], e.steers[c][j])
  <2>1. \A s \in Steer :
          /\ SteerEases(s, s)
          /\ s.status = "pending" => SteerEases(s, [s EXCEPT !.status = "cancelled"])
    BY DEF Steer, SteerEases
  <2> SUFFICES ASSUME NEW j \in DOMAIN d.steers[c] PROVE SteerEases(d.steers[c][j], e.steers[c][j])
    OBVIOUS
  <2>2. d.steers[c][j] \in Steer
    BY <1>1
  <2>3. CASE e.steers[c][j] = d.steers[c][j]
    BY <2>1, <2>2, <2>3
  <2>4. CASE d.steers[c][j].status = "pending" /\ e.steers[c][j] = [d.steers[c][j] EXCEPT !.status = "cancelled"]
    BY <2>1, <2>2, <2>4, Zenon
  <2> QED
    BY <2>3, <2>4, Zenon
<1>6. Len(e.steers[c]) = Len(d.steers[c])
  BY <1>1
<1>7. Rows(e, c) = Rows(d, c) /\ \A k \in Rows(d, c) : LooksSame(d.inbox[k], e.inbox[k])
  BY DEF Rows, LooksSame
<1> QED
  BY <1>2, <1>3, <1>4, <1>5, <1>6, <1>7 DEF Eases

LEMMA StopWritesStanding ==
  ASSUME NEW d, NEW q, NEW tn, Standing(d, q, tn), NEW t \in Threads
  PROVE  Standing(StopWrites(d, t), q, tn)
<1> DEFINE below == Subtree(t)
           told == StopTold(d, t)
           rows == UNION {Rows(told, c) : c \in below}
           quiet == Acknowledge(told, rows, TRUE)
           runs == [c \in Threads |-> IF c \notin below THEN quiet.runs[c]
                                      ELSE [i \in DOMAIN quiet.runs[c] |-> StoppedRun(quiet.runs[c][i])]]
           spared(c, j) == ~(/\ c \in below /\ quiet.steers[c][j].status = "pending"
                             /\ quiet.runs[c][quiet.steers[c][j].run].status = "active")
           steers == [c \in Threads |-> [j \in DOMAIN quiet.steers[c] |->
                        IF spared(c, j) THEN quiet.steers[c][j]
                        ELSE [quiet.steers[c][j] EXCEPT !.status = "cancelled"]]]
           e == [quiet EXCEPT !.runs = runs, !.steers = steers]
<1>1. StopWrites(d, t) = e
  BY ZenonT(40) DEF StopWrites, StopTold
<1>2. Standing(told, q, tn)
  BY StopToldStanding
<1> HIDE DEF told, rows
<1>3. Standing(quiet, q, tn)
  BY <1>2, WaiveApart DEF Standing
<1> HIDE DEF quiet
<1>4. Typed(d) /\ Typed(quiet) /\ \A c \in Threads : TurnLinked(quiet, c, tn[c])
  BY <1>3 DEF Standing, TurnsTyped
<1>5. Typed(e)
  <2> HIDE DEF e
  <2> QED
    BY <1>1, <1>4, StopWritesFacts
<1>6. e.runs = runs /\ e.steers = steers /\ e.inbox = quiet.inbox
  BY <1>4 DEF Typed, DB
<1> HIDE DEF e, below
<1>7. ASSUME NEW c \in Threads
      PROVE  /\ DOMAIN e.runs[c] = DOMAIN quiet.runs[c]
             /\ \A i \in DOMAIN quiet.runs[c] :
                  e.runs[c][i] = quiet.runs[c][i] \/ e.runs[c][i] = StoppedRun(quiet.runs[c][i])
  <2>1. e.runs[c] = IF c \notin below THEN quiet.runs[c]
                    ELSE [i \in DOMAIN quiet.runs[c] |-> StoppedRun(quiet.runs[c][i])]
    BY <1>6
  <2> QED
    BY <2>1
<1>8. ASSUME NEW c \in Threads
      PROVE  /\ DOMAIN e.steers[c] = DOMAIN quiet.steers[c]
             /\ \A j \in DOMAIN quiet.steers[c] :
                  \/ e.steers[c][j] = quiet.steers[c][j]
                  \/ /\ quiet.steers[c][j].status = "pending"
                     /\ e.steers[c][j] = [quiet.steers[c][j] EXCEPT !.status = "cancelled"]
  <2>1. e.steers[c] = [j \in DOMAIN quiet.steers[c] |->
                        IF spared(c, j) THEN quiet.steers[c][j]
                        ELSE [quiet.steers[c][j] EXCEPT !.status = "cancelled"]]
    BY <1>6
  <2>2. \A j : ~spared(c, j) => quiet.steers[c][j].status = "pending"
    OBVIOUS
  <2> HIDE DEF spared, steers
  <2> QED
    BY <2>1, <2>2
<1> HIDE DEF runs, steers, spared
<1>9. \A c \in Threads : Eases(quiet, e, c, q[c], tn[c])
  <2> TAKE c \in Threads
  <2> QED
    BY <1>4, <1>5, <1>6, <1>7, <1>8, EndedEases
<1>10. Grows(quiet, e)
  BY <1>9 DEF Grows, Eases, RunEases
<1>11. Standing(e, q, tn)
  BY <1>3, <1>5, <1>9, <1>10, AllEaseStanding
<1> QED
  BY <1>1, <1>11

\* The turns below are aborted, and the items that carry notices and were not claimed leave their queues.
LEMMA StopReads ==
  ASSUME Inv, ReadInv, NEW t \in Threads, Stop(t)
  PROVE  ReadInv'
<1>0. Standing(db, queue, turn) /\ Inv'
  BY InvParts, StopStep DEF Standing, ReadInv
<1> DEFINE below == Subtree(t)
           aborted == [c \in Threads |->
                         IF c \in below /\ LiveTurn(c) THEN [turn[c] EXCEPT !.aborted = TRUE] ELSE turn[c]]
           left(c) == {n \in DOMAIN queue[c] : OutlivesStop(queue[c][n])}
           items == [c \in Threads |-> IF c \in below THEN ItemsAt(queue[c], left(c)) ELSE queue[c]]
           memory == Memory(aborted, background)
           e == StopWrites(db, t)
           f == Settle(e, memory, Threads)
<1>1. turn' = aborted /\ queue' = items /\ db' = f
  BY DEF Stop
<1>2. Threads \in SUBSET Threads
  OBVIOUS
<1>3. Standing(e, queue, turn)
  BY <1>0, StopWritesStanding
<1> HIDE DEF e, memory
<1>4. Standing(f, queue, turn)
  BY <1>2, <1>3, SettleStanding
<1> HIDE DEF f
<1>5. ASSUME NEW c \in Threads PROVE Apart(f, c, items[c], aborted[c])
  <2>1. Apart(f, c, queue[c], turn[c]) /\ turn[c] \in Turn /\ queue[c] \in Seq(Item)
    BY <1>4 DEF Standing, AllApart, TurnsTyped, QueuesTyped
  <2>2. left(c) \in SUBSET DOMAIN queue[c]
    OBVIOUS
  <2>3. items[c] = queue[c] \/ items[c] = ItemsAt(queue[c], left(c))
    OBVIOUS
  <2>4. aborted[c].run = turn[c].run /\ aborted[c].unread = turn[c].unread /\ aborted[c].taken = turn[c].taken
    BY <2>1 DEF Turn
  <2> HIDE DEF left, items, aborted
  <2>5. Apart(f, c, items[c], turn[c])
    BY <2>1, <2>2, <2>3, KeptApart
  <2> QED
    BY <2>4, <2>5, SameTurn
<1> HIDE DEF items, aborted
<1> QED
  BY <1>1, <1>5 DEF ReadInv, AllApart

-----------------------------------------------------------------------------
(* The theorem.                                                              *)

LEMMA InitReads ==
  ASSUME Init
  PROVE  ReadInv
<1> DEFINE first == [NewRun("person", {}, 0) EXCEPT !.status = "active", !.start = "running", !.started = TRUE]
<1>1. /\ first.source = "person" /\ first.status = "active" /\ first.start = "running"
      /\ first.rows = {} /\ first.item = 0
  BY DEF NewRun
<1>2. /\ db.runs = [t \in Threads |-> IF t = Root THEN <<first>> ELSE <<>>]
      /\ db.steers = [t \in Threads |-> <<>>] /\ db.inbox = <<>>
      /\ queue = [t \in Threads |-> <<>>]
      /\ turn = [t \in Threads |-> IF t = Root THEN [NoTurn EXCEPT !.run = 1] ELSE NoTurn]
  BY DEF Init
<1> HIDE DEF first
<1> SUFFICES ASSUME NEW t \in Threads PROVE Apart(db, t, queue[t], turn[t])
  BY DEF ReadInv, AllApart
<1>3. DOMAIN db.steers[t] = {} /\ DOMAIN queue[t] = {}
  BY <1>2
<1>4. DOMAIN db.inbox = {}
  BY <1>2
<1>5. Rows(db, t) = {} /\ \A c : HeldBy(db, t, c) = {}
  BY <1>4 DEF Rows, HeldBy
<1>6. \A i \in DOMAIN db.runs[t] : i = 1 /\ db.runs[t][i] = first
  BY <1>2
<1>7. turn[t].unread = {} /\ turn[t].taken = {} /\ (turn[t].run # 0 => turn[t].run = 1 /\ db.runs[t] = <<first>>)
  BY <1>2 DEF NoTurn
<1>8. \A i \in DOMAIN db.runs[t] : RunApart(db, t, i)
  BY <1>1, <1>5, <1>6 DEF RunApart, RunStands, Plain, PromptUnread
<1>9. TurnApart(db, t, queue[t], turn[t])
  <2>1. turn[t].unread \cup turn[t].taken = {}
    BY <1>7
  <2>2. IsLive(db, t, turn[t]) => db.runs[t][turn[t].run] = first
    BY <1>7 DEF IsLive
  <2> QED
    BY <1>1, <1>3, <1>5, <2>1, <2>2 DEF TurnApart, PromptUnread
<1> QED
  BY <1>3, <1>5, <1>8, <1>9 DEF Apart

LEMMA ReadKept ==
  ASSUME Inv, ReadInv, [Next]_vars
  PROVE  ReadInv'
<1>1. CASE UNCHANGED vars
  BY <1>1 DEF vars, ReadInv
<1>2. ASSUME NEW due, Reconcile(due) PROVE ReadInv'
  BY <1>2, ReconcileReads
<1>3. CASE CrashAndBoot
  BY <1>3, BootReads
<1>4. ASSUME NEW t \in Threads, Delegate(t) \/ Ask(t) \/ SteerByPerson(t) PROVE ReadInv'
  BY <1>4, DelegateReads, AskReads, SteerByPersonReads
<1>5. ASSUME NEW t \in Threads, NEW i \in DOMAIN db.runs[t], StartTurn(t, i) \/ StartWake(t, i) \/ RestartSend(t, i)
      PROVE ReadInv'
  BY <1>5, StartTurnReads, StartWakeReads, RestartSendReads
<1>6. ASSUME NEW t \in Threads, NEW j \in DOMAIN db.steers[t], ExecuteSteer(t, j) \/ ReturnSteer(t, j) PROVE ReadInv'
  BY <1>6, ExecuteSteerReads, ReturnSteerReads
<1>7. ASSUME NEW t \in Threads, ReadSteers(t) PROVE ReadInv'
  BY <1>7, ReadSteersReads
<1>8. ASSUME NEW t \in Threads, NEW status \in {"completed", "failed", "stopped"}, EndRun(t, status) PROVE ReadInv'
  BY <1>8, EndRunReads
<1>9. ASSUME NEW t \in Threads, NEW saved \in BOOLEAN, SettleTurn(t, saved) PROVE ReadInv'
  BY <1>9, SettleTurnReads
<1>10. ASSUME NEW t \in Threads, Drain(t) \/ StartItem(t) PROVE ReadInv'
  BY <1>10, DrainReads, StartItemReads
<1>11. ASSUME NEW t \in Threads, StartBackground(t) \/ EndBackground(t) PROVE ReadInv'
  BY <1>11, StartBackgroundReads, EndBackgroundReads
<1>12. ASSUME NEW t \in Threads, Stop(t) PROVE ReadInv'
  BY <1>12, StopReads
<1>13. ASSUME NEW k \in DOMAIN db.tasks, TaskStatus(k) PROVE ReadInv'
  BY <1>13, TaskStatusReads
<1> QED
  BY <1>1, <1>2, <1>3, <1>4, <1>5, <1>6, <1>7, <1>8, <1>9, <1>10, <1>11, <1>12, <1>13 DEF Next

LEMMA ReadInvariant == Spec => [](Inv /\ ReadInv)
<1>1. Init => Inv /\ ReadInv
  BY InitInv, InitReads
<1>2. Inv /\ ReadInv /\ [Next]_vars => (Inv /\ ReadInv)'
  BY InvKept, ReadKept
<1> QED
  BY <1>1, <1>2, PTL DEF Spec

\* A row's reads are as many as they should be.
LEMMA ReadsCounted ==
  ASSUME Inv, ReadInv
  PROVE  ReadOnce
<1> SUFFICES ASSUME NEW k \in DOMAIN db.inbox
             PROVE  /\ Cardinality(db.inbox[k].reads) <= 1
                    /\ db.inbox[k].status = "acknowledged" /\ ~db.inbox[k].waived
                         => Cardinality(db.inbox[k].reads) = 1
  BY DEF ReadOnce
<1>1. db.inbox[k] \in Row
  BY InvParts, Parts DEF Typed
<1>2. db.inbox[k].to \in Threads /\ k \in Rows(db, db.inbox[k].to)
  BY <1>1 DEF Row, Rows
<1>3. RowRead(db, db.inbox[k].to, db.inbox[k])
  BY <1>2 DEF ReadInv, AllApart, Apart
<1>4. db.inbox[k].reads = {} \/ \E i : db.inbox[k].reads = {i}
  BY <1>3 DEF RowRead
<1>5. db.inbox[k].reads = {} => Cardinality(db.inbox[k].reads) = 0
  BY FS_EmptySet
<1>6. (\E i : db.inbox[k].reads = {i}) => Cardinality(db.inbox[k].reads) = 1
  BY FS_Singleton
<1>7. Cardinality(db.inbox[k].reads) = 0 \/ Cardinality(db.inbox[k].reads) = 1
  BY <1>4, <1>5, <1>6, Zenon
<1>8. db.inbox[k].status = "acknowledged" /\ ~db.inbox[k].waived => db.inbox[k].reads # {}
  BY <1>3 DEF RowRead
<1>9. db.inbox[k].status = "acknowledged" /\ ~db.inbox[k].waived => Cardinality(db.inbox[k].reads) = 1
  BY <1>4, <1>6, <1>8, Zenon
<1> QED
  BY <1>7, <1>9

\* A notice is shown once: however turns fail, steers are returned and promoted to queue items, Stops
\* settle rows, the reconciler gives rows back and the daemon crashes and boots, no two completed turns
\* of a thread showed a notice, and one that a delivery acknowledged was shown by the turn that
\* completed it (acknowledgeDeliveredRows in run/terminal.ts, which acknowledges what the carriers of a
\* completed run still hold).
THEOREM NoticesReadOnce == Spec => []ReadOnce
<1>1. Inv /\ ReadInv => ReadOnce
  BY ReadsCounted
<1> QED
  BY <1>1, ReadInvariant, PTL

-----------------------------------------------------------------------------
(* The answer of a task is final.                                            *)

\* A notice that an answer need not wait for: given up, settled by a Stop or task_status, or read in a
\* run no later than the one the answer is from.
Closed(row, result) ==
    \/ row.gaveUp
    \/ /\ row.status = "acknowledged"
       /\ row.waived \/ result = 0 \/ \A i \in row.reads : i <= result

\* A notice of an answer: its task has ended, with everything its subagent had by then closed.
Answered(d, k) ==
    LET task == d.inbox[k].task IN
    task # 0 =>
        /\ task \in DOMAIN d.tasks /\ d.tasks[task].status # "running"
        /\ \A r \in 1 .. (k - 1) : d.inbox[r].to = d.tasks[task].child => Closed(d.inbox[r], d.tasks[task].result)

Final(d) == \A k \in DOMAIN d.inbox : Answered(d, k)

\* What has a notice can still show it: it is a carrier, whose run was not told to stop, and a steer that
\* is done was held by a turn.  The turns that showed it are over.
RowCarried(runs, steers, row) ==
    /\ row.status = "delivered" =>
         /\ row.by.kind # "none"
         /\ row.by.kind = "start" => ~runs[row.by.n].halted
         /\ row.by.kind = "steer" =>
              ~runs[steers[row.by.n].run].halted /\ (steers[row.by.n].status = "succeeded" => row.held # 0)
         /\ row.by.kind = "item" => \A i \in DOMAIN runs : runs[i].item = row.by.n => ~runs[i].halted
    /\ \A i \in row.reads : i \in DOMAIN runs /\ runs[i].status \in Terminal /\ runs[i].started

\* The one active run of a thread is its turn's; a run ends as stopped when it was told to.
RunCarried(run, i, x) ==
    /\ run.status = "stopped" => run.halted
    /\ run.status = "active" => run.started /\ x.run = i /\ (x.aborted => run.halted)

RowsCarried(d) == \A k \in DOMAIN d.inbox : RowCarried(d.runs[d.inbox[k].to], d.steers[d.inbox[k].to], d.inbox[k])
RunsCarried(d, tn) == \A t \in Threads : \A i \in DOMAIN d.runs[t] : RunCarried(d.runs[t][i], i, tn[t])

Answers(d, tn) == Typed(d) /\ Final(d) /\ RowsCarried(d) /\ RunsCarried(d, tn)
AnswerInv == Final(db) /\ RowsCarried(db) /\ RunsCarried(db, turn)

\* What no step takes back of a notice and of a task.
RowAges(r, s) ==
    /\ s.to = r.to /\ s.task = r.task /\ (r.gaveUp => s.gaveUp)
    /\ r.status = "acknowledged" => /\ s.status = "acknowledged" /\ s.waived = r.waived
                                    /\ s.waived \/ s.reads = r.reads
TaskAges(a, b) == b.child = a.child /\ (a.status # "running" => b.status # "running" /\ b.result = a.result)

Ages(d, e) ==
    /\ DOMAIN d.tasks \subseteq DOMAIN e.tasks /\ \A k \in DOMAIN d.tasks : TaskAges(d.tasks[k], e.tasks[k])
    /\ DOMAIN d.inbox \subseteq DOMAIN e.inbox /\ \A k \in DOMAIN d.inbox : RowAges(d.inbox[k], e.inbox[k])
    /\ \A k \in DOMAIN e.inbox \ DOMAIN d.inbox : e.inbox[k].task = 0

\* A step that hands nothing over, starts no run and tells none to stop.
RunCalm(r, s) ==
    /\ s.item = r.item /\ s.halted = r.halted /\ s.started = r.started
    /\ r.status \in Terminal => s.status \in Terminal
    /\ s.status \in {"active", "stopped"} => s.status = r.status
FreshRun(run) == ~run.halted /\ run.status \notin {"active", "stopped"}
SteerCalm(r, s) == s.run = r.run /\ (s.status = "succeeded" => r.status = "succeeded")
RowCalm(r, s) ==
    /\ s.reads = r.reads
    /\ s.status = "delivered" => r.status = "delivered" /\ s.by = r.by /\ (s.held = r.held \/ s.held # 0)

RunsCalm(runs, to) ==
    /\ DOMAIN runs \subseteq DOMAIN to /\ \A i \in DOMAIN runs : RunCalm(runs[i], to[i])
    /\ \A i \in DOMAIN to \ DOMAIN runs : FreshRun(to[i])
SteersCalm(steers, to) == \A j \in DOMAIN steers : SteerCalm(steers[j], to[j])
Calm(d, e) ==
    /\ \A t \in Threads : RunsCalm(d.runs[t], e.runs[t]) /\ SteersCalm(d.steers[t], e.steers[t])
    /\ \A k \in DOMAIN d.inbox : RowCalm(d.inbox[k], e.inbox[k])
    /\ \A k \in DOMAIN e.inbox \ DOMAIN d.inbox : e.inbox[k].status = "pending" /\ e.inbox[k].reads = {}

\* An answer stays final as notices are closed and tasks added.
LEMMA AgesFinal ==
  ASSUME NEW d, Typed(d), NEW e, Typed(e), Ages(d, e), Final(d)
  PROVE  Final(e)
<1>1. /\ DOMAIN d.inbox = 1 .. Len(d.inbox) /\ Len(d.inbox) \in Nat
      /\ DOMAIN e.inbox = 1 .. Len(e.inbox) /\ Len(e.inbox) \in Nat
  BY Parts DEF Typed
<1> SUFFICES ASSUME NEW k \in DOMAIN e.inbox, e.inbox[k].task # 0
             PROVE  /\ e.inbox[k].task \in DOMAIN e.tasks /\ e.tasks[e.inbox[k].task].status # "running"
                    /\ \A r \in 1 .. (k - 1) :
                         e.inbox[r].to = e.tasks[e.inbox[k].task].child =>
                            Closed(e.inbox[r], e.tasks[e.inbox[k].task].result)
  BY DEF Final, Answered
<1>2. k \in DOMAIN d.inbox
  BY DEF Ages
<1>3. e.inbox[k].task = d.inbox[k].task
  BY <1>2 DEF Ages, RowAges
<1> DEFINE n == d.inbox[k].task
<1>4. /\ n \in DOMAIN d.tasks /\ d.tasks[n].status # "running"
      /\ \A r \in 1 .. (k - 1) : d.inbox[r].to = d.tasks[n].child => Closed(d.inbox[r], d.tasks[n].result)
  BY <1>2, <1>3 DEF Final, Answered
<1> HIDE DEF n
<1>5. /\ n \in DOMAIN e.tasks /\ e.tasks[n].child = d.tasks[n].child
      /\ e.tasks[n].status # "running" /\ e.tasks[n].result = d.tasks[n].result
  BY <1>4 DEF Ages, TaskAges
<1>6. ASSUME NEW r \in 1 .. (k - 1), e.inbox[r].to = e.tasks[n].child
      PROVE  Closed(e.inbox[r], e.tasks[n].result)
  <2>1. r \in DOMAIN d.inbox
    BY <1>1, <1>2
  <2>2. RowAges(d.inbox[r], e.inbox[r])
    BY <2>1 DEF Ages
  <2>3. Closed(d.inbox[r], d.tasks[n].result)
    BY <1>4, <1>5, <1>6, <2>2 DEF RowAges
  <2> QED
    BY <1>5, <2>2, <2>3 DEF RowAges, Closed
<1> QED
  BY <1>3, <1>5, <1>6 DEF n

\* What has a notice still has it when nothing is handed over.
LEMMA RowStaysCarried ==
  ASSUME NEW runs, NEW to, RunsCalm(runs, to), NEW steers, NEW after,
         NEW r, NEW s, RowCalm(r, s), RowCarried(runs, steers, r),
         s.status = "delivered" /\ r.by.kind = "steer" => SteerCalm(steers[r.by.n], after[r.by.n]),
         r.by.kind = "start" => r.by.n \in DOMAIN runs,
         r.by.kind \in {"steer", "item"} => r.by.n \in DOMAIN steers,
         \A j \in DOMAIN steers : steers[j].run \in DOMAIN runs
  PROVE  RowCarried(to, after, s)
<1>1. \A i \in s.reads : i \in DOMAIN to /\ to[i].status \in Terminal /\ to[i].started
  BY DEF RowCarried, RowCalm, RunsCalm, RunCalm
<1>2. ASSUME s.status = "delivered"
      PROVE  /\ s.by.kind # "none"
             /\ s.by.kind = "start" => ~to[s.by.n].halted
             /\ s.by.kind = "steer" =>
                  ~to[after[s.by.n].run].halted /\ (after[s.by.n].status = "succeeded" => s.held # 0)
             /\ s.by.kind = "item" => \A i \in DOMAIN to : to[i].item = s.by.n => ~to[i].halted
  <2>1. r.status = "delivered" /\ s.by = r.by /\ (s.held = r.held \/ s.held # 0)
    BY <1>2 DEF RowCalm
  <2>2. s.by.kind # "none"
    BY <2>1 DEF RowCarried
  <2>3. ASSUME s.by.kind = "start" PROVE ~to[s.by.n].halted
    BY <2>1, <2>3 DEF RowCarried, RunsCalm, RunCalm
  <2>4. ASSUME s.by.kind = "steer"
        PROVE  ~to[after[s.by.n].run].halted /\ (after[s.by.n].status = "succeeded" => s.held # 0)
    <3>1. s.by.n \in DOMAIN steers /\ SteerCalm(steers[s.by.n], after[s.by.n]) /\ steers[s.by.n].run \in DOMAIN runs
      BY <1>2, <2>1, <2>4
    <3>2. ~runs[steers[s.by.n].run].halted /\ (steers[s.by.n].status = "succeeded" => r.held # 0)
      BY <2>1, <2>4 DEF RowCarried
    <3> QED
      BY <2>1, <3>1, <3>2 DEF SteerCalm, RunsCalm, RunCalm
  <2>5. ASSUME s.by.kind = "item", NEW i \in DOMAIN to, to[i].item = s.by.n PROVE ~to[i].halted
    BY <2>1, <2>5 DEF RowCarried, RunsCalm, RunCalm, FreshRun
  <2> QED
    BY <2>2, <2>3, <2>4, <2>5
<1> QED
  BY <1>1, <1>2 DEF RowCarried

\* A new notice is nowhere yet.
LEMMA NewRowCarried ==
  ASSUME NEW runs, NEW steers, NEW row, row.status = "pending", row.reads = {}
  PROVE  RowCarried(runs, steers, row)
BY DEF RowCarried

\* A row, its carrier and the run of a steer are of the row's thread.
LEMMA LinkedRow ==
  ASSUME NEW d, Typed(d), NEW k \in DOMAIN d.inbox
  PROVE  LET row == d.inbox[k]
         IN /\ row \in Row /\ row.to \in Threads
            /\ row.by.kind = "start" => row.by.n \in DOMAIN d.runs[row.to]
            /\ row.by.kind \in {"steer", "item"} => row.by.n \in DOMAIN d.steers[row.to]
            /\ \A j \in DOMAIN d.steers[row.to] : d.steers[row.to][j].run \in DOMAIN d.runs[row.to]
<1>1. d.inbox[k] \in Row /\ d.inbox[k].to \in Threads /\ RowLinked(d, d.inbox[k])
  BY Parts DEF Typed, Row
<1>2. \A t \in Threads : \A j \in DOMAIN d.steers[t] : d.steers[t][j].run \in DOMAIN d.runs[t]
  BY DEF Typed, SteerLinked
<1> QED
  BY <1>1, <1>2 DEF RowLinked

\* The runs of a step that starts none and tells none to stop.
LEMMA RunsStayCarried ==
  ASSUME NEW d, NEW e, NEW tn, RunsCarried(d, tn), \A t \in Threads : RunsCalm(d.runs[t], e.runs[t])
  PROVE  RunsCarried(e, tn)
<1> SUFFICES ASSUME NEW t \in Threads, NEW i \in DOMAIN e.runs[t] PROVE RunCarried(e.runs[t][i], i, tn[t])
  BY DEF RunsCarried
<1>1. RunsCalm(d.runs[t], e.runs[t])
  OBVIOUS
<1>2. CASE i \in DOMAIN d.runs[t]
  <2>1. RunCalm(d.runs[t][i], e.runs[t][i]) /\ RunCarried(d.runs[t][i], i, tn[t])
    BY <1>1, <1>2 DEF RunsCalm, RunsCarried
  <2> QED
    BY <2>1 DEF RunCalm, RunCarried
<1>3. CASE i \notin DOMAIN d.runs[t]
  <2>1. FreshRun(e.runs[t][i])
    BY <1>1, <1>3 DEF RunsCalm
  <2> QED
    BY <2>1 DEF FreshRun, RunCarried
<1> QED
  BY <1>2, <1>3

\* A step that hands nothing over.
LEMMA CalmAnswers ==
  ASSUME NEW d, NEW e, NEW tn, Answers(d, tn), Typed(e), Ages(d, e), Calm(d, e)
  PROVE  Answers(e, tn)
<1>1. Final(e)
  BY AgesFinal DEF Answers
<1>2. ASSUME NEW k \in DOMAIN e.inbox PROVE RowCarried(e.runs[e.inbox[k].to], e.steers[e.inbox[k].to], e.inbox[k])
  <2>1. CASE k \in DOMAIN d.inbox
    <3> DEFINE t == d.inbox[k].to
    <3>1. /\ t \in Threads
          /\ d.inbox[k].by.kind = "start" => d.inbox[k].by.n \in DOMAIN d.runs[t]
          /\ d.inbox[k].by.kind \in {"steer", "item"} => d.inbox[k].by.n \in DOMAIN d.steers[t]
          /\ \A j \in DOMAIN d.steers[t] : d.steers[t][j].run \in DOMAIN d.runs[t]
      BY <2>1, LinkedRow DEF Answers
    <3>2. RowCarried(d.runs[t], d.steers[t], d.inbox[k])
      BY <2>1 DEF Answers, RowsCarried
    <3>3. e.inbox[k].to = t
      BY <2>1 DEF Ages, RowAges
    <3> HIDE DEF t
    <3>4. /\ RunsCalm(d.runs[t], e.runs[t]) /\ SteersCalm(d.steers[t], e.steers[t])
          /\ RowCalm(d.inbox[k], e.inbox[k])
      BY <2>1, <3>1 DEF Calm
    <3>5. d.inbox[k].by.kind = "steer" => SteerCalm(d.steers[t][d.inbox[k].by.n], e.steers[t][d.inbox[k].by.n])
      BY <3>1, <3>4 DEF SteersCalm
    <3>6. RowCarried(e.runs[t], e.steers[t], e.inbox[k])
      BY <3>1, <3>2, <3>4, <3>5, RowStaysCarried
    <3> QED
      BY <3>3, <3>6
  <2>2. CASE k \notin DOMAIN d.inbox
    BY <2>2, NewRowCarried DEF Calm
  <2> QED
    BY <2>1, <2>2
<1>3. RunsCarried(e, tn)
  BY RunsStayCarried DEF Answers, Calm
<1> QED
  BY <1>1, <1>2, <1>3 DEF Answers, RowsCarried

-----------------------------------------------------------------------------
(* A publication.                                                            *)

\* The result of a task is no earlier than any run of its subagent that is over.
LEMMA LatestIsLast ==
  ASSUME NEW d, Typed(d), NEW k \in DOMAIN d.tasks, NEW i \in DOMAIN d.runs[d.tasks[k].child],
         d.runs[d.tasks[k].child][i].status \in Terminal, d.runs[d.tasks[k].child][i].started
  PROVE  i <= LatestResultRun(d, k)
<1> DEFINE t == d.tasks[k].child
           sources == {n \in DOMAIN d.runs[t] : /\ d.runs[t][n].status \in Terminal
                                                /\ d.runs[t][n].started \/ n = d.tasks[k].run}
<1>1. t \in Threads
  BY Parts DEF Typed, Task
<1>2. DOMAIN d.runs[t] = 1 .. Len(d.runs[t]) /\ Len(d.runs[t]) \in Nat
  BY <1>1, Parts DEF Typed
<1>3. sources \in SUBSET Nat /\ \A n \in sources : n <= Len(d.runs[t])
  <2>1. \A n \in 1 .. Len(d.runs[t]) : n \in Nat /\ n <= Len(d.runs[t])
    BY <1>2
  <2>2. sources \subseteq 1 .. Len(d.runs[t])
    BY <1>2
  <2> HIDE DEF sources, t
  <2> QED
    BY <2>1, <2>2
<1>4. i \in sources
  OBVIOUS
<1>5. LatestResultRun(d, k) = IF sources = {} THEN 0
                              ELSE CHOOSE n \in sources : \A other \in sources : other <= n
  BY DEF LatestResultRun
<1> HIDE DEF sources, t
<1>6. \E n \in sources : \A other \in sources : other <= n
  BY <1>2, <1>3, <1>4, Greatest
<1>7. \A other \in sources : other <= (CHOOSE n \in sources : \A o \in sources : o <= n)
  BY <1>6
<1> QED
  BY <1>4, <1>5, <1>7

\* A subagent with nothing left to do has closed its notices: none is pending, none is on its way, and what
\* has been read was read in runs that are over.
LEMMA QuietClosed ==
  ASSUME NEW d, NEW tn, Answers(d, tn), NEW memory, NEW p \in DOMAIN d.tasks,
         ~Busy(d, memory, d.tasks[p].child), NEW r \in Rows(d, d.tasks[p].child)
  PROVE  Closed(d.inbox[r], IF Undelivered(d, p) THEN 0 ELSE LatestResultRun(d, p))
<1> DEFINE t == d.tasks[p].child
           row == d.inbox[r]
           runs == d.runs[t]
           steers == d.steers[t]
<1>1. r \in DOMAIN d.inbox /\ row.to = t
  BY DEF Rows
<1>2. /\ row \in Row /\ t \in Threads
      /\ row.by.kind = "start" => row.by.n \in DOMAIN runs
      /\ row.by.kind = "steer" => row.by.n \in DOMAIN steers
      /\ \A j \in DOMAIN steers : steers[j].run \in DOMAIN runs
  BY <1>1, LinkedRow DEF Answers
<1>3. ~Actionable(d, row)
  BY DEF Busy
<1>4. RowCarried(runs, steers, row)
  BY <1>1 DEF Answers, RowsCarried
<1>5. \A i \in DOMAIN runs : runs[i].status = "stopped" => runs[i].halted
  BY <1>2 DEF Answers, RunsCarried, RunCarried
<1>6. \A i \in DOMAIN runs : runs[i].status \in Terminal /\ runs[i].started => i <= LatestResultRun(d, p)
  BY LatestIsLast DEF Answers
<1> DEFINE result == IF Undelivered(d, p) THEN 0 ELSE LatestResultRun(d, p)
<1>7. /\ row.by.kind = "start" => CarrierRun(d, row) = runs[row.by.n]
      /\ row.by.kind = "steer" => CarrierRun(d, row) = runs[steers[row.by.n].run]
      /\ LegacySteer(d, row) => row.by.kind = "steer" /\ row.held = 0 /\ steers[row.by.n].status = "succeeded"
  BY <1>1 DEF CarrierRun, LegacySteer
<1>11. result = 0 \/ \A i \in DOMAIN runs : runs[i].status \in Terminal /\ runs[i].started => i <= result
  BY <1>6
<1>12. Closed(d.inbox[r], result) <=> Closed(row, result)
  OBVIOUS
<1> HIDE DEF t, row, runs, steers, result
<1>13. row.gaveUp \in BOOLEAN /\ row.waived \in BOOLEAN /\ row.status \in {"pending", "delivered", "acknowledged"}
  BY <1>2 DEF Row
<1>8. ASSUME row.status = "pending" PROVE Closed(row, result)
  BY <1>3, <1>8, <1>13 DEF Actionable, Closed
<1>9. ASSUME row.status = "delivered" PROVE Closed(row, result)
  <2>1. row.by # Nobody
    BY <1>4, <1>9 DEF RowCarried, Nobody
  <2>2. ~LegacySteer(d, row)
    BY <1>4, <1>7, <1>9 DEF RowCarried
  <2>3. ~(ByEffect(row) /\ CarrierRun(d, row).status = "stopped")
    BY <1>2, <1>4, <1>5, <1>7, <1>9 DEF RowCarried, ByEffect
  <2> QED
    BY <1>3, <1>9, <1>13, <2>1, <2>2, <2>3 DEF Actionable, Closed
<1>10. ASSUME row.status = "acknowledged" PROVE Closed(row, result)
  BY <1>4, <1>10, <1>11 DEF RowCarried, Closed
<1>14. Closed(row, result)
  BY <1>8, <1>9, <1>10, <1>13
<1> QED
  BY <1>12, <1>14 DEF result

\* What publishes is final: its subagent is not busy, so its notices are closed, and the other tasks that
\* publish with it have other parents.
LEMMA SettleAnswers ==
  ASSUME NEW d, NEW tn, Answers(d, tn), NEW memory, NEW threads \in SUBSET Threads
  PROVE  Answers(Settle(d, memory, threads), tn)
<1> DEFINE e == Settle(d, memory, threads)
           published == Published(d, memory, threads)
           result(p) == IF Undelivered(d, p) THEN 0 ELSE LatestResultRun(d, p)
<1>1. Typed(d) /\ Typed(e) /\ SettledFrom(d, e, published)
  BY SettleFacts DEF Answers
<1>2. ASSUME NEW p \in published
      PROVE  p \in DOMAIN d.tasks /\ p \in RunningInto(d, d.tasks[p].child) /\ ~Busy(d, memory, d.tasks[p].child)
  BY DEF Published, Quiet, RunningInto
<1> HIDE DEF e, published
<1>3. /\ e.runs = d.runs /\ e.steers = d.steers /\ DOMAIN d.inbox \subseteq DOMAIN e.inbox
      /\ \A r \in DOMAIN d.inbox : e.inbox[r] = d.inbox[r]
      /\ \A r \in DOMAIN e.inbox \ DOMAIN d.inbox :
           \E p \in published : e.inbox[r] = NewRow(Parent[d.tasks[p].child], p)
      /\ \A n \in DOMAIN d.tasks \ published : e.tasks[n] = d.tasks[n]
      /\ DOMAIN e.tasks = DOMAIN d.tasks
  BY <1>1 DEF SettledFrom
<1>4. ASSUME NEW p \in published
      PROVE  e.tasks[p].child = d.tasks[p].child /\ e.tasks[p].status = "published" /\ e.tasks[p].result = result(p)
  <2>1. d.tasks[p] \in Task /\ e.tasks[p] = [d.tasks[p] EXCEPT !.status = "published", !.result = result(p)]
    BY <1>1, <1>2, Parts DEF SettledFrom, Typed
  <2> HIDE DEF result
  <2> QED
    BY <2>1 DEF Task
<1>5. \A to, task : LET row == NewRow(to, task) IN row.to = to /\ row.task = task /\ row.status = "pending" /\ row.reads = {}
  BY DEF NewRow
<1>6. /\ DOMAIN d.inbox = 1 .. Len(d.inbox) /\ Len(d.inbox) \in Nat
      /\ DOMAIN e.inbox = 1 .. Len(e.inbox) /\ Len(e.inbox) \in Nat
  BY <1>1, Parts DEF Typed
<1>7. ASSUME NEW k \in DOMAIN d.inbox PROVE Answered(e, k)
  <2> SUFFICES ASSUME d.inbox[k].task # 0
               PROVE  LET n == d.inbox[k].task IN
                      /\ n \in DOMAIN e.tasks /\ e.tasks[n].status # "running"
                      /\ \A r \in 1 .. (k - 1) : e.inbox[r].to = e.tasks[n].child => Closed(e.inbox[r], e.tasks[n].result)
    BY <1>3 DEF Answered
  <2> DEFINE n == d.inbox[k].task
  <2>1. /\ n \in DOMAIN d.tasks /\ d.tasks[n].status # "running"
        /\ \A r \in 1 .. (k - 1) : d.inbox[r].to = d.tasks[n].child => Closed(d.inbox[r], d.tasks[n].result)
    BY DEF Answers, Final, Answered
  <2> HIDE DEF n
  <2>2. n \notin published
    BY <2>1, <1>1 DEF SettledFrom
  <2>3. \A r \in 1 .. (k - 1) : e.inbox[r] = d.inbox[r]
    BY <1>3, <1>6
  <2>4. e.tasks[n] = d.tasks[n] /\ n \in DOMAIN e.tasks
    BY <1>3, <2>1, <2>2
  <2> QED
    BY <2>1, <2>3, <2>4 DEF n
<1>8. ASSUME NEW k \in DOMAIN e.inbox \ DOMAIN d.inbox PROVE Answered(e, k)
  <2>1. PICK p \in published : e.inbox[k] = NewRow(Parent[d.tasks[p].child], p)
    BY <1>3
  <2>2. e.inbox[k].task = p
    BY <1>5, <2>1
  <2> DEFINE c == d.tasks[p].child
  <2>3. p \in DOMAIN d.tasks /\ p \in RunningInto(d, c) /\ ~Busy(d, memory, c) /\ e.tasks[p].child = c
        /\ e.tasks[p].status = "published" /\ e.tasks[p].result = result(p)
    BY <1>2, <1>4
  <2>4. ASSUME NEW r \in 1 .. (k - 1), e.inbox[r].to = c PROVE Closed(e.inbox[r], result(p))
    <3>1. r \in DOMAIN e.inbox
      BY <1>6
    <3>2. CASE r \in DOMAIN d.inbox
      <4>1. e.inbox[r] = d.inbox[r] /\ r \in Rows(d, c)
        BY <1>3, <2>4, <3>2 DEF Rows
      <4>2. Closed(d.inbox[r], result(p))
        BY <2>3, <4>1, QuietClosed
      <4> HIDE DEF result
      <4> QED
        BY <4>1, <4>2
    <3>3. CASE r \notin DOMAIN d.inbox
      <4>1. PICK o \in published : e.inbox[r] = NewRow(Parent[d.tasks[o].child], o)
        BY <1>3, <3>1, <3>3
      <4>2. Parent[d.tasks[o].child] = c
        BY <1>5, <2>4, <4>1
      <4>3. o \in DOMAIN d.tasks /\ o \in RunningInto(d, d.tasks[o].child) /\ d.tasks[o].child \in Threads
        BY <1>1, <1>2, Parts DEF Typed, Task
      <4>4. Busy(d, memory, c)
        BY <4>2, <4>3 DEF Busy
      <4> QED
        BY <2>3, <4>4
    <3> QED
      BY <3>2, <3>3
  <2> HIDE DEF result, c
  <2> QED
    BY <1>3, <2>2, <2>3, <2>4 DEF Answered
<1>9. Final(e)
  BY <1>7, <1>8 DEF Final
<1>10. RowsCarried(e)
  <2> SUFFICES ASSUME NEW k \in DOMAIN e.inbox PROVE RowCarried(e.runs[e.inbox[k].to], e.steers[e.inbox[k].to], e.inbox[k])
    BY DEF RowsCarried
  <2>1. CASE k \in DOMAIN d.inbox
    BY <1>3, <2>1 DEF Answers, RowsCarried
  <2>2. CASE k \notin DOMAIN d.inbox
    BY <1>3, <1>5, <2>2, NewRowCarried
  <2> QED
    BY <2>1, <2>2
<1>11. RunsCarried(e, tn)
  BY <1>3 DEF Answers, RunsCarried
<1> QED
  BY <1>1, <1>9, <1>10, <1>11 DEF Answers, e

-----------------------------------------------------------------------------
(* The changes of the inbox and of a run.                                    *)

\* What stays as it is.
LEMMA RowCalmItself == \A row : RowAges(row, row) /\ RowCalm(row, row)
BY DEF RowAges, RowCalm

LEMMA RunCalmItself == \A run : RunCalm(run, run)
BY DEF RunCalm

LEMMA SteersCalmItself == \A steers : SteersCalm(steers, steers)
BY DEF SteersCalm, SteerCalm

LEMMA RunsCalmItself == \A runs : RunsCalm(runs, runs)
BY RunCalmItself DEF RunsCalm

\* An inbox whose rows change calmly.
LEMMA RewriteAnswers ==
  ASSUME NEW d, NEW tn, Answers(d, tn), NEW e, NEW rows, RewriteOf(d, e, rows),
         \A k \in DOMAIN d.inbox : RowAges(d.inbox[k], e.inbox[k]) /\ RowCalm(d.inbox[k], e.inbox[k])
  PROVE  Answers(e, tn)
<1>1. Typed(e) /\ e.runs = d.runs /\ e.steers = d.steers /\ e.tasks = d.tasks /\ DOMAIN e.inbox = DOMAIN d.inbox
  BY DEF RewriteOf
<1>2. Ages(d, e)
  BY <1>1 DEF Ages, TaskAges
<1>3. Calm(d, e)
  BY <1>1, RunsCalmItself, SteersCalmItself DEF Calm
<1> QED
  BY <1>1, <1>2, <1>3, CalmAnswers

\* Rows are acknowledged: what was closed stays closed.
LEMMA AcknowledgeAnswers ==
  ASSUME NEW d, NEW tn, Answers(d, tn), NEW rows, NEW waived \in BOOLEAN
  PROVE  Answers(Acknowledge(d, rows, waived), tn)
<1> DEFINE e == Acknowledge(d, rows, waived)
<1>1. Typed(d) /\ RewriteOf(d, e, rows)
  BY AcknowledgeRewrites DEF Answers
<1>2. ASSUME NEW k \in DOMAIN d.inbox PROVE RowAges(d.inbox[k], e.inbox[k]) /\ RowCalm(d.inbox[k], e.inbox[k])
  <2>1. d.inbox[k] \in Row
    BY <1>1, Parts DEF Typed
  <2>2. IF k \in rows /\ d.inbox[k].status # "acknowledged"
        THEN e.inbox[k] = [d.inbox[k] EXCEPT !.status = "acknowledged", !.waived = waived]
        ELSE e.inbox[k] = d.inbox[k]
    BY <1>1, AcknowledgeRows
  <2> HIDE DEF e
  <2>3. CASE e.inbox[k] = d.inbox[k]
    BY <2>3, RowCalmItself
  <2>4. CASE /\ d.inbox[k].status # "acknowledged"
             /\ e.inbox[k] = [d.inbox[k] EXCEPT !.status = "acknowledged", !.waived = waived]
    BY <2>1, <2>4 DEF Row, RowAges, RowCalm
  <2> QED
    BY <2>2, <2>3, <2>4
<1> HIDE DEF e
<1> QED
  BY <1>1, <1>2, RewriteAnswers DEF e

\* Rows are given back by a delivery that failed.
LEMMA PendingAgainAnswers ==
  ASSUME NEW d, NEW tn, Answers(d, tn), NEW rows, NEW failed \in BOOLEAN
  PROVE  Answers(PendingAgain(d, rows, failed), tn)
<1> DEFINE e == PendingAgain(d, rows, failed)
           back(row) == [row EXCEPT !.status = "pending", !.by = Nobody, !.tries = Counted(@),
                                    !.failures = IF failed THEN Counted(@) ELSE @]
           box == [k \in DOMAIN d.inbox |->
                     IF k \in rows /\ d.inbox[k].status = "delivered" THEN back(d.inbox[k]) ELSE d.inbox[k]]
<1>1. Typed(d) /\ RewriteOf(d, e, rows)
  BY PendingAgainRewrites DEF Answers
<1>2. e = [d EXCEPT !.inbox = box]
  BY DEF PendingAgain
<1>3. e.inbox = box
  BY <1>1, <1>2, Parts DEF Typed
<1>4. ASSUME NEW k \in DOMAIN d.inbox PROVE RowAges(d.inbox[k], e.inbox[k]) /\ RowCalm(d.inbox[k], e.inbox[k])
  <2>1. d.inbox[k] \in Row
    BY <1>1, Parts DEF Typed
  <2>2. e.inbox[k] = IF k \in rows /\ d.inbox[k].status = "delivered" THEN back(d.inbox[k]) ELSE d.inbox[k]
    BY <1>3
  <2>3. /\ back(d.inbox[k]).status = "pending" /\ back(d.inbox[k]).reads = d.inbox[k].reads
        /\ back(d.inbox[k]).to = d.inbox[k].to /\ back(d.inbox[k]).task = d.inbox[k].task
        /\ back(d.inbox[k]).gaveUp = d.inbox[k].gaveUp
    BY <2>1 DEF Row
  <2> HIDE DEF e, box, back
  <2> QED
    BY <2>2, <2>3, RowCalmItself DEF RowAges, RowCalm
<1> HIDE DEF e
<1> QED
  BY <1>1, <1>4, RewriteAnswers DEF e

\* A carrier lets its rows go.
LEMMA ReleaseAnswers ==
  ASSUME NEW d, NEW tn, Answers(d, tn), NEW own, \A k \in own : d.inbox[k].status = "delivered"
  PROVE  Answers(Release(d, own), tn)
<1> DEFINE e == Release(d, own)
           back(row) == [row EXCEPT !.status = "pending", !.by = Nobody]
           box == [k \in DOMAIN d.inbox |-> IF k \in own THEN back(d.inbox[k]) ELSE d.inbox[k]]
<1>1. Typed(d) /\ RewriteOf(d, e, own)
  BY ReleaseRewrites DEF Answers
<1>2. e = [d EXCEPT !.inbox = box]
  BY DEF Release
<1>3. e.inbox = box
  BY <1>1, <1>2, Parts DEF Typed
<1>4. ASSUME NEW k \in DOMAIN d.inbox PROVE RowAges(d.inbox[k], e.inbox[k]) /\ RowCalm(d.inbox[k], e.inbox[k])
  <2>1. d.inbox[k] \in Row
    BY <1>1, Parts DEF Typed
  <2>2. e.inbox[k] = IF k \in own THEN back(d.inbox[k]) ELSE d.inbox[k]
    BY <1>3
  <2>3. /\ back(d.inbox[k]).status = "pending" /\ back(d.inbox[k]).reads = d.inbox[k].reads
        /\ back(d.inbox[k]).to = d.inbox[k].to /\ back(d.inbox[k]).task = d.inbox[k].task
        /\ back(d.inbox[k]).gaveUp = d.inbox[k].gaveUp
    BY <2>1 DEF Row
  <2> HIDE DEF e, box, back
  <2> QED
    BY <2>2, <2>3, RowCalmItself DEF RowAges, RowCalm
<1> HIDE DEF e
<1> QED
  BY <1>1, <1>4, RewriteAnswers DEF e

\* The rows of steers a provider takes, or gives back, are marked.
LEMMA MarkTakenAnswers ==
  ASSUME NEW d, NEW tn, Answers(d, tn), NEW own, NEW taken \in BOOLEAN
  PROVE  Answers(MarkTaken(d, own, taken), tn)
<1> DEFINE e == MarkTaken(d, own, taken)
           marked(row) == [row EXCEPT !.taken = IF taken THEN row.by.n ELSE 0]
           box == [k \in DOMAIN d.inbox |-> IF k \in own THEN marked(d.inbox[k]) ELSE d.inbox[k]]
<1>1. Typed(d) /\ RewriteOf(d, e, own)
  BY MarkTakenRewrites DEF Answers
<1>2. e = [d EXCEPT !.inbox = box]
  BY DEF MarkTaken
<1>3. e.inbox = box
  BY <1>1, <1>2, Parts DEF Typed
<1>4. ASSUME NEW k \in DOMAIN d.inbox PROVE RowAges(d.inbox[k], e.inbox[k]) /\ RowCalm(d.inbox[k], e.inbox[k])
  <2>1. d.inbox[k] \in Row
    BY <1>1, Parts DEF Typed
  <2>2. e.inbox[k] = IF k \in own THEN marked(d.inbox[k]) ELSE d.inbox[k]
    BY <1>3
  <2>3. LET s == marked(d.inbox[k]) IN
        /\ s.status = d.inbox[k].status /\ s.reads = d.inbox[k].reads /\ s.to = d.inbox[k].to
        /\ s.task = d.inbox[k].task /\ s.gaveUp = d.inbox[k].gaveUp /\ s.waived = d.inbox[k].waived
        /\ s.by = d.inbox[k].by /\ s.held = d.inbox[k].held
    BY <2>1 DEF Row
  <2> HIDE DEF e, box, marked
  <2> QED
    BY <2>2, <2>3, RowCalmItself DEF RowAges, RowCalm
<1> HIDE DEF e
<1> QED
  BY <1>1, <1>4, RewriteAnswers DEF e

\* The runs of one thread change and none starts or is told to stop.
LEMMA RunsOfAnswers ==
  ASSUME NEW d, NEW tn, Answers(d, tn), NEW e, NEW t \in Threads, NEW runs, RunsOf(d, e, t, runs),
         RunsCalm(d.runs[t], runs)
  PROVE  Answers(e, tn)
<1>1. /\ Typed(e) /\ e.runs[t] = runs /\ e.steers = d.steers /\ e.tasks = d.tasks /\ e.inbox = d.inbox
      /\ \A u \in Threads \ {t} : e.runs[u] = d.runs[u]
  BY DEF RunsOf
<1>2. Ages(d, e)
  BY <1>1, RowCalmItself DEF Ages, TaskAges
<1>3. Calm(d, e)
  BY <1>1, RunsCalmItself, SteersCalmItself, RowCalmItself DEF Calm
<1> QED
  BY <1>1, <1>2, <1>3, CalmAnswers

-----------------------------------------------------------------------------
(* The reconciler and a boot.                                                *)

\* Runs of any threads are written and none starts or is told to stop.
LEMMA RunsWrittenAnswer ==
  ASSUME NEW d, NEW tn, Answers(d, tn), NEW runs, runs = [t \in Threads |-> runs[t]],
         \A t \in Threads :
            /\ runs[t] \in [DOMAIN d.runs[t] -> Run]
            /\ \A i \in DOMAIN d.runs[t] : runs[t][i].rows = d.runs[t][i].rows /\ RunCalm(d.runs[t][i], runs[t][i])
  PROVE  Answers([d EXCEPT !.runs = runs], tn)
<1> DEFINE e == [d EXCEPT !.runs = runs]
<1>1. /\ Typed(d)
      /\ \A t \in Threads : /\ DOMAIN d.runs[t] = 1 .. Len(d.runs[t]) /\ Len(d.runs[t]) \in Nat
                            /\ \A i \in DOMAIN d.runs[t] : d.runs[t][i].rows \subseteq Rows(d, t)
  BY Parts DEF Answers, Typed, RunLinked
<1>2. \A t \in Threads : runs[t] \in Seq(Run) /\ DOMAIN runs[t] = DOMAIN d.runs[t]
  <2> TAKE t \in Threads
  <2>1. runs[t] \in [1 .. Len(d.runs[t]) -> Run] /\ Len(d.runs[t]) \in Nat /\ DOMAIN d.runs[t] = 1 .. Len(d.runs[t])
    BY <1>1
  <2> QED
    BY <2>1, IsSeq
<1>3. runs \in [Threads -> Seq(Run)]
  BY <1>2
<1>4. Typed(e)
  <2>1. \A t \in Threads : \A i \in DOMAIN runs[t] : RunLinked(d, t, runs[t][i])
    BY <1>1, <1>2 DEF RunLinked
  <2> QED
    BY <1>1, <1>2, <1>3, <2>1, RunsReplaced
<1>5. e.runs = runs /\ e.steers = d.steers /\ e.tasks = d.tasks /\ e.inbox = d.inbox
  BY <1>1 DEF Typed, DB
<1> HIDE DEF e
<1>6. Ages(d, e)
  BY <1>5, RowCalmItself DEF Ages, TaskAges
<1>7. \A t \in Threads : RunsCalm(d.runs[t], e.runs[t])
  BY <1>2, <1>5 DEF RunsCalm
<1>8. Calm(d, e)
  BY <1>5, <1>7, SteersCalmItself, RowCalmItself DEF Calm
<1> QED
  BY <1>4, <1>6, <1>8, CalmAnswers DEF e

\* Wakes whose rows were all acknowledged are cancelled.
LEMMA CancelWakesAnswers ==
  ASSUME NEW d, NEW tn, Answers(d, tn), NEW m, NEW threads \in SUBSET Threads
  PROVE  Answers(CancelAcknowledgedWakes(d, m, threads), tn)
<1> DEFINE ended(t, i) == [d.runs[t][i] EXCEPT !.start = "cancelled", !.status = "cancelled"]
           runs == [t \in Threads |-> [i \in DOMAIN d.runs[t] |->
                      IF t \in threads /\ i \in IdleWakes(d, t) THEN ended(t, i) ELSE d.runs[t][i]]]
           f == [d EXCEPT !.runs = runs]
<1>1. CancelAcknowledgedWakes(d, m, threads) = Settle(f, m, threads)
  BY DEF CancelAcknowledgedWakes
<1>2. \A t \in Threads : \A i \in DOMAIN d.runs[t] : d.runs[t][i] \in Run
  BY Parts DEF Answers, Typed
<1>3. \A run \in Run : LET over == [run EXCEPT !.start = "cancelled", !.status = "cancelled"]
                       IN over \in Run /\ over.rows = run.rows /\ RunCalm(run, over)
  BY DEF Run, Statuses, Terminal, RunCalm
<1>4. \A t \in Threads : \A i \in DOMAIN d.runs[t] :
        ended(t, i) \in Run /\ ended(t, i).rows = d.runs[t][i].rows /\ RunCalm(d.runs[t][i], ended(t, i))
  BY <1>2, <1>3
<1> HIDE DEF ended
<1>5. \A t \in Threads :
        /\ runs[t] \in [DOMAIN d.runs[t] -> Run]
        /\ \A i \in DOMAIN d.runs[t] : runs[t][i].rows = d.runs[t][i].rows /\ RunCalm(d.runs[t][i], runs[t][i])
  BY <1>2, <1>4, RunCalmItself
<1>6. runs = [t \in Threads |-> runs[t]]
  OBVIOUS
<1> HIDE DEF runs
<1>7. Answers(f, tn)
  BY <1>5, <1>6, RunsWrittenAnswer
<1> HIDE DEF f
<1> QED
  BY <1>1, <1>7, SettleAnswers

\* Runs a boot finds under way end.
LEMMA EndAllAnswers ==
  ASSUME NEW d, NEW tn, Answers(d, tn), NEW ending, NEW status \in Terminal \ {"stopped"}
  PROVE  LET e == EndAll(d, ending, status)
         IN /\ Answers(e, tn)
            /\ \A t \in Threads :
                 /\ DOMAIN e.runs[t] = DOMAIN d.runs[t]
                 /\ \A i \in DOMAIN d.runs[t] : e.runs[t][i].status = IF i \in ending[t] THEN status ELSE d.runs[t][i].status
<1> DEFINE over(t, i) == [d.runs[t][i] EXCEPT !.status = IF i \in ending[t] THEN status ELSE @]
           runs == [t \in Threads |-> [i \in DOMAIN d.runs[t] |-> over(t, i)]]
           threads == {t \in Threads : ending[t] # {}}
           f == [d EXCEPT !.runs = runs]
<1>1. EndAll(d, ending, status) = Settle(f, {}, threads)
  BY DEF EndAll
<1>2. \A t \in Threads : \A i \in DOMAIN d.runs[t] : d.runs[t][i] \in Run
  BY Parts DEF Answers, Typed
<1>3. \A run \in Run, ends \in BOOLEAN :
         LET ended == [run EXCEPT !.status = IF ends THEN status ELSE @]
         IN /\ ended \in Run /\ ended.rows = run.rows /\ RunCalm(run, ended)
            /\ ended.status = IF ends THEN status ELSE run.status
  BY DEF Run, Statuses, Terminal, RunCalm
<1>4. \A t \in Threads : \A i \in DOMAIN d.runs[t] :
        /\ over(t, i) \in Run /\ over(t, i).rows = d.runs[t][i].rows /\ RunCalm(d.runs[t][i], over(t, i))
        /\ over(t, i).status = IF i \in ending[t] THEN status ELSE d.runs[t][i].status
  <2> SUFFICES ASSUME NEW t \in Threads, NEW i \in DOMAIN d.runs[t]
               PROVE  /\ over(t, i) \in Run /\ over(t, i).rows = d.runs[t][i].rows /\ RunCalm(d.runs[t][i], over(t, i))
                      /\ over(t, i).status = IF i \in ending[t] THEN status ELSE d.runs[t][i].status
    OBVIOUS
  <2>1. d.runs[t][i] \in Run /\ (i \in ending[t]) \in BOOLEAN
    BY <1>2
  <2> QED
    BY <1>3, <2>1
<1> HIDE DEF over
<1>5. \A t \in Threads :
        /\ runs[t] \in [DOMAIN d.runs[t] -> Run]
        /\ \A i \in DOMAIN d.runs[t] : runs[t][i].rows = d.runs[t][i].rows /\ RunCalm(d.runs[t][i], runs[t][i])
        /\ \A i \in DOMAIN d.runs[t] : runs[t][i].status = IF i \in ending[t] THEN status ELSE d.runs[t][i].status
  BY <1>4
<1>6. runs = [t \in Threads |-> runs[t]] /\ threads \in SUBSET Threads
  OBVIOUS
<1> HIDE DEF runs, threads
<1>7. Answers(f, tn) /\ f.runs = runs
  BY <1>5, <1>6, RunsWrittenAnswer DEF Answers, Typed, DB
<1> HIDE DEF f
<1>8. Answers(Settle(f, {}, threads), tn) /\ Settle(f, {}, threads).runs = f.runs
  BY <1>6, <1>7, SettleAnswers, SettleFacts DEF Answers, SettledFrom
<1> QED
  BY <1>1, <1>5, <1>7, <1>8

\* After a crash no turn.start is in flight; the runs keep their status.
LEMMA CancelProcessBoundAnswers ==
  ASSUME NEW d, NEW tn, Answers(d, tn)
  PROVE  Answers(CancelProcessBound(d), tn)
<1> DEFINE cut(r) == [r EXCEPT !.start = IF @ \in InFlight THEN "cancelled" ELSE @]
           dropped(s) == [s EXCEPT !.status = IF @ = "pending" THEN "cancelled" ELSE @]
           runs == [t \in Threads |-> [i \in DOMAIN d.runs[t] |-> cut(d.runs[t][i])]]
           steers == [t \in Threads |-> [j \in DOMAIN d.steers[t] |-> dropped(d.steers[t][j])]]
           e == [d EXCEPT !.runs = runs, !.steers = steers]
<1>1. CancelProcessBound(d) = e
  BY DEF CancelProcessBound
<1>2. Typed(d) /\ Typed(e)
  BY <1>1, CancelProcessBoundFacts DEF Answers
<1>3. e.runs = runs /\ e.steers = steers /\ e.inbox = d.inbox /\ e.tasks = d.tasks
  BY <1>2 DEF Typed, DB
<1>4. \A t \in Threads : /\ \A i \in DOMAIN d.runs[t] : d.runs[t][i] \in Run
                         /\ \A j \in DOMAIN d.steers[t] : d.steers[t][j] \in Steer
  BY <1>2, Parts DEF Typed
<1>5. (\A r \in Run : RunCalm(r, cut(r))) /\ (\A s \in Steer : SteerCalm(s, dropped(s)))
  BY DEF Run, RunCalm, Steer, SteerCalm
<1> HIDE DEF cut, dropped
<1>6. ASSUME NEW t \in Threads PROVE RunsCalm(d.runs[t], e.runs[t]) /\ SteersCalm(d.steers[t], e.steers[t])
  <2>1. /\ runs[t] = [i \in DOMAIN d.runs[t] |-> cut(d.runs[t][i])]
        /\ steers[t] = [j \in DOMAIN d.steers[t] |-> dropped(d.steers[t][j])]
    OBVIOUS
  <2> HIDE DEF e, runs, steers
  <2> QED
    BY <1>3, <1>4, <1>5, <2>1 DEF RunsCalm, SteersCalm
<1> HIDE DEF e
<1>7. Ages(d, e)
  BY <1>3, RowCalmItself DEF Ages, TaskAges
<1>8. Calm(d, e)
  BY <1>3, <1>6, RowCalmItself DEF Calm
<1> QED
  BY <1>1, <1>2, <1>7, <1>8, CalmAnswers

\* Rows of queue items that are gone are given back at a boot.
LEMMA RecoverQueuedRowsAnswers ==
  ASSUME NEW d, NEW tn, Answers(d, tn)
  PROVE  Answers(RecoverQueuedRows(d), tn)
<1> DEFINE lost(k) == /\ d.inbox[k].status = "delivered" /\ d.inbox[k].by.kind = "item"
                      /\ \A n \in DOMAIN queue[d.inbox[k].to] : queue[d.inbox[k].to][n].steer # d.inbox[k].by.n
           own == {k \in DOMAIN d.inbox : lost(k)}
           back(k) == [d.inbox[k] EXCEPT !.status = "pending", !.by = Nobody]
<1>1. RecoverQueuedRows(d) = [d EXCEPT !.inbox = [k \in DOMAIN d.inbox |-> IF lost(k) THEN back(k) ELSE d.inbox[k]]]
  BY DEF RecoverQueuedRows
<1>2. Release(d, own) = [d EXCEPT !.inbox = [k \in DOMAIN d.inbox |-> IF k \in own THEN back(k) ELSE d.inbox[k]]]
  BY DEF Release
<1>3. \A k \in DOMAIN d.inbox : k \in own <=> lost(k)
  OBVIOUS
<1>4. \A k \in own : d.inbox[k].status = "delivered"
  OBVIOUS
<1> HIDE DEF lost, back, own
<1>5. [k \in DOMAIN d.inbox |-> IF k \in own THEN back(k) ELSE d.inbox[k]]
        = [k \in DOMAIN d.inbox |-> IF lost(k) THEN back(k) ELSE d.inbox[k]]
  BY <1>3
<1>6. RecoverQueuedRows(d) = Release(d, own)
  BY <1>1, <1>2, <1>5, Zenon
<1> QED
  BY <1>4, <1>6, ReleaseAnswers

\* Rows are given up, or made pending again.
LEMMA RestoreAnswers ==
  ASSUME NEW d, NEW tn, Answers(d, tn), NEW m, NEW due
  PROVE  Answers(Restore(d, m, due), tn)
<1> DEFINE spent == {k \in FailedRows(d) : d.inbox[k].tries > MaxRedeliveries}
           over(k) == [d.inbox[k] EXCEPT !.gaveUp = TRUE, !.failures = Counted(@)]
           box == [k \in DOMAIN d.inbox |-> IF k \in spent THEN over(k) ELSE d.inbox[k]]
           flagged == [d EXCEPT !.inbox = box]
           rows == (due \cap FailedRows(d)) \ spent
           again == PendingAgain(flagged, rows, TRUE)
<1>1. Restore(d, m, due) = Settle(again, m, Threads)
  BY Zenon DEF Restore
<1>2. Typed(d) /\ \A k \in DOMAIN d.inbox : d.inbox[k] \in Row /\ RowLinked(d, d.inbox[k])
  BY Parts DEF Answers, Typed
<1>3. \A k \in DOMAIN d.inbox :
        /\ over(k) \in Row /\ over(k).to = d.inbox[k].to /\ over(k).by = d.inbox[k].by
        /\ RowAges(d.inbox[k], over(k)) /\ RowCalm(d.inbox[k], over(k))
  <2> SUFFICES ASSUME NEW k \in DOMAIN d.inbox
               PROVE  /\ over(k) \in Row /\ over(k).to = d.inbox[k].to /\ over(k).by = d.inbox[k].by
                      /\ RowAges(d.inbox[k], over(k)) /\ RowCalm(d.inbox[k], over(k))
    OBVIOUS
  <2>1. d.inbox[k] \in Row /\ Counted(d.inbox[k].failures) \in Nat
    BY <1>2, CountedNat DEF Row
  <2> QED
    BY <2>1 DEF Row, RowAges, RowCalm
<1> HIDE DEF over, spent
<1>4. /\ box \in [DOMAIN d.inbox -> Row]
      /\ \A k \in DOMAIN d.inbox : box[k].to = d.inbox[k].to /\ RowLinked(d, box[k])
      /\ \A k \in DOMAIN d.inbox \ spent : box[k] = d.inbox[k]
      /\ \A k \in DOMAIN d.inbox : RowAges(d.inbox[k], box[k]) /\ RowCalm(d.inbox[k], box[k])
  BY <1>2, <1>3, RowCalmItself DEF RowLinked
<1> HIDE DEF box
<1>5. RewriteOf(d, flagged, spent) /\ flagged.inbox = box
  BY <1>2, <1>4, Rewritten DEF Typed, DB
<1> HIDE DEF flagged, rows
<1>6. Answers(flagged, tn)
  BY <1>4, <1>5, RewriteAnswers
<1>7. Answers(again, tn) /\ Threads \in SUBSET Threads
  <2>1. TRUE \in BOOLEAN
    OBVIOUS
  <2> QED
    BY <1>6, <2>1, PendingAgainAnswers
<1> HIDE DEF again
<1> QED
  BY <1>1, <1>7, SettleAnswers

\* A steer behind those that are there.
LEMMA SteerAppended ==
  ASSUME NEW f \in Seq(Steer), NEW steer \in Steer
  PROVE  Append(f, steer)[Len(f) + 1] = steer /\ \A j \in DOMAIN f : Append(f, steer)[j] = f[j]
<1>1. DOMAIN f = 1 .. Len(f) /\ Len(f) \in Nat
  BY LenProperties
<1>2. Append(f, steer)[Len(f) + 1] = steer /\ \A j \in 1 .. Len(f) : Append(f, steer)[j] = f[j]
  BY AppendProperties
<1> QED
  BY <1>1, <1>2

\* The wake of an idle thread is a run of its own, and the steer of a live one joins its active run, the only
\* one, which was not told to stop.
LEMMA WakeThreadsAnswers ==
  ASSUME NEW d, NEW tn, Answers(d, tn), Typed(WakeThreads(d))
  PROVE  Answers(WakeThreads(d), tn)
<1> DEFINE waiting == {u \in Threads : Pending(d, u) # {}}
           woken == {u \in waiting : ActiveRuns(d, u) = {} /\ \A i \in QueuedRuns(d, u) : d.runs[u][i].source # "wake"}
           steered == {u \in waiting \cap setup.native : \E i \in ActiveRuns(d, u) : ~d.runs[u][i].halted}
           Carrier(u) == IF u \in woken THEN StartOf(Len(d.runs[u]) + 1) ELSE SteerOf(Len(d.steers[u]) + 1)
           steer(u) == [run |-> CHOOSE i \in ActiveRuns(d, u) : TRUE, status |-> "pending", rows |-> Pending(d, u)]
           wake(u) == NewRun("wake", Pending(d, u), 0)
           woke(u) == Enqueue(Append(d.runs[u], wake(u)), Len(d.runs[u]) + 1)
           runs == [u \in Threads |-> IF u \in woken THEN woke(u) ELSE d.runs[u]]
           steers == [u \in Threads |-> IF u \in steered THEN Append(d.steers[u], steer(u)) ELSE d.steers[u]]
           taken(k) == d.inbox[k].status = "pending" /\ d.inbox[k].to \in woken \cup steered
           carried(k) == [d.inbox[k] EXCEPT !.status = "delivered", !.by = Carrier(d.inbox[k].to)]
           box == [k \in DOMAIN d.inbox |-> IF taken(k) THEN carried(k) ELSE d.inbox[k]]
           e == [d EXCEPT !.runs = runs, !.steers = steers, !.inbox = box]
<1>1. WakeThreads(d) = e
  BY Zenon DEF WakeThreads
<1>2. e.runs = runs /\ e.steers = steers /\ e.inbox = box /\ e.tasks = d.tasks
  BY DEF Answers, Typed, DB
<1>3. /\ \A u \in Threads : /\ d.runs[u] \in Seq(Run) /\ DOMAIN d.runs[u] = 1 .. Len(d.runs[u]) /\ Len(d.runs[u]) \in Nat
                            /\ d.steers[u] \in Seq(Steer) /\ DOMAIN d.steers[u] = 1 .. Len(d.steers[u])
                            /\ Len(d.steers[u]) \in Nat
      /\ \A k \in DOMAIN d.inbox : d.inbox[k] \in Row
      /\ DOMAIN d.inbox \subseteq Nat
  BY Parts DEF Answers, Typed
<1>4. woken \subseteq Threads /\ steered \subseteq Threads
  OBVIOUS
<1>5. ASSUME NEW u \in steered
      PROVE  steer(u).run \in DOMAIN d.runs[u] /\ ~d.runs[u][steer(u).run].halted /\ steer(u).status = "pending"
  <2>1. PICK i \in ActiveRuns(d, u) : ~d.runs[u][i].halted
    OBVIOUS
  <2>2. \A n \in ActiveRuns(d, u) : n = tn[u].run
    BY DEF ActiveRuns, Answers, RunsCarried, RunCarried
  <2>3. (CHOOSE n \in ActiveRuns(d, u) : TRUE) \in ActiveRuns(d, u)
    BY <2>1
  <2> QED
    BY <2>1, <2>2, <2>3 DEF ActiveRuns
<1> HIDE DEF woken, steered, e
<1>6. ASSUME NEW u \in Threads
      PROVE  LET n == Len(d.runs[u]) + 1
             IN /\ DOMAIN woke(u) = DOMAIN d.runs[u] \cup {n} /\ \A i \in DOMAIN d.runs[u] : woke(u)[i] = d.runs[u][i]
                /\ FreshRun(woke(u)[n])
  <2> DEFINE n == Len(d.runs[u]) + 1
  <2>1. Pending(d, u) \in SUBSET Nat
    BY <1>3 DEF Pending, Rows
  <2>2. wake(u) \in Run /\ wake(u).status = "queued" /\ ~wake(u).halted
    BY <2>1, NewRunType DEF NewRun
  <2> HIDE DEF wake
  <2>3. /\ DOMAIN woke(u) = DOMAIN d.runs[u] \cup {n} /\ \A i \in DOMAIN d.runs[u] : woke(u)[i] = d.runs[u][i]
        /\ \E at \in Nat : woke(u)[n] = [wake(u) EXCEPT !.start = "pending", !.at = at]
    <3>1. d.runs[u] \in Seq(Run) /\ wake(u) \in Run
      BY <1>3, <2>2
    <3> QED
      BY <3>1, NewStart, Zenon
  <2> HIDE DEF woke, n
  <2>4. FreshRun(woke(u)[n])
    BY <2>2, <2>3 DEF Run, FreshRun
  <2> QED
    BY <2>3, <2>4 DEF n
<1>7. ASSUME NEW u \in steered
      PROVE  /\ steers[u][Len(d.steers[u]) + 1] = steer(u)
             /\ \A j \in DOMAIN d.steers[u] : steers[u][j] = d.steers[u][j]
  <2> HIDE DEF Carrier, wake, woke, runs, taken, carried, box
  <2>1. u \in Threads /\ steers[u] = Append(d.steers[u], steer(u))
    BY <1>4
  <2> HIDE DEF steers
  <2>2. steer(u) \in Steer
    <3>1. Pending(d, u) \in SUBSET Nat /\ steer(u).run \in Nat
      BY <1>3, <1>5, <2>1 DEF Pending, Rows
    <3> QED
      BY <3>1 DEF Steer
  <2> HIDE DEF steer
  <2>3. d.steers[u] \in Seq(Steer)
    BY <1>3, <2>1
  <2> QED
    BY <2>1, <2>2, <2>3, SteerAppended
<1>8. ASSUME NEW u \in Threads
      PROVE  /\ RunsCalm(d.runs[u], e.runs[u]) /\ SteersCalm(d.steers[u], e.steers[u])
             /\ u \in woken => FreshRun(e.runs[u][Len(d.runs[u]) + 1])
             /\ u \in steered => e.steers[u][Len(d.steers[u]) + 1] = steer(u)
  <2> HIDE DEF Carrier, wake, woke, steer, taken, carried, box
  <2>1. runs[u] = (IF u \in woken THEN woke(u) ELSE d.runs[u]) /\ (u \notin steered => steers[u] = d.steers[u])
    OBVIOUS
  <2> HIDE DEF runs, steers
  <2>2. e.runs[u] = runs[u] /\ e.steers[u] = steers[u]
    BY <1>2
  <2>3. RunsCalm(d.runs[u], e.runs[u]) /\ (u \in woken => FreshRun(e.runs[u][Len(d.runs[u]) + 1]))
    <3>1. CASE u \in woken
      BY <1>6, <2>1, <2>2, <3>1, RunCalmItself DEF RunsCalm
    <3>2. CASE u \notin woken
      BY <2>1, <2>2, <3>2, RunsCalmItself
    <3> QED
      BY <3>1, <3>2
  <2>4. SteersCalm(d.steers[u], e.steers[u]) /\ (u \in steered => e.steers[u][Len(d.steers[u]) + 1] = steer(u))
    <3>1. CASE u \in steered
      <4>1. /\ e.steers[u][Len(d.steers[u]) + 1] = steer(u)
            /\ \A j \in DOMAIN d.steers[u] : e.steers[u][j] = d.steers[u][j]
        BY <1>7, <2>2, <3>1
      <4> QED
        BY <4>1 DEF SteersCalm, SteerCalm
    <3>2. CASE u \notin steered
      BY <2>1, <2>2, <3>2, SteersCalmItself
    <3> QED
      BY <3>1, <3>2
  <2> QED
    BY <2>3, <2>4
<1> HIDE DEF runs, steers, woke
<1>9. ASSUME NEW k \in DOMAIN d.inbox
      PROVE  /\ RowAges(d.inbox[k], e.inbox[k]) /\ e.inbox[k].reads = d.inbox[k].reads
             /\ taken(k) => e.inbox[k].by = Carrier(d.inbox[k].to)
             /\ ~taken(k) => e.inbox[k] = d.inbox[k]
  <2>1. d.inbox[k] \in Row
    BY <1>3
  <2>2. e.inbox[k] = IF taken(k) THEN carried(k) ELSE d.inbox[k]
    BY <1>2
  <2> DEFINE by == Carrier(d.inbox[k].to)
  <2>3. carried(k) = [d.inbox[k] EXCEPT !.status = "delivered", !.by = by]
    OBVIOUS
  <2>4. taken(k) => d.inbox[k].status = "pending"
    OBVIOUS
  <2> HIDE DEF by, carried, box, taken
  <2>5. /\ carried(k).to = d.inbox[k].to /\ carried(k).task = d.inbox[k].task /\ carried(k).by = by
        /\ carried(k).reads = d.inbox[k].reads /\ carried(k).gaveUp = d.inbox[k].gaveUp
    BY <2>1, <2>3 DEF Row
  <2>6. RowAges(d.inbox[k], e.inbox[k]) /\ e.inbox[k].reads = d.inbox[k].reads
    BY <2>2, <2>4, <2>5, RowCalmItself DEF RowAges
  <2> QED
    BY <2>2, <2>5, <2>6 DEF by
<1>10. DOMAIN e.inbox = DOMAIN d.inbox
  BY <1>2
<1> HIDE DEF box
<1>11. Ages(d, e)
  BY <1>2, <1>9, <1>10 DEF Ages, TaskAges
<1>12. RunsCarried(e, tn)
  BY <1>8, RunsStayCarried DEF Answers
<1>13. ASSUME NEW k \in DOMAIN d.inbox PROVE RowCarried(e.runs[e.inbox[k].to], e.steers[e.inbox[k].to], e.inbox[k])
  <2> DEFINE u == d.inbox[k].to
  <2>1. /\ u \in Threads /\ d.inbox[k] \in Row
        /\ d.inbox[k].by.kind = "start" => d.inbox[k].by.n \in DOMAIN d.runs[u]
        /\ d.inbox[k].by.kind \in {"steer", "item"} => d.inbox[k].by.n \in DOMAIN d.steers[u]
        /\ \A j \in DOMAIN d.steers[u] : d.steers[u][j].run \in DOMAIN d.runs[u]
    BY LinkedRow DEF Answers
  <2>2. e.inbox[k].to = u
    BY <1>9 DEF RowAges
  <2>3. RowCarried(d.runs[u], d.steers[u], d.inbox[k])
    BY DEF Answers, RowsCarried
  <2>4. RunsCalm(d.runs[u], e.runs[u]) /\ SteersCalm(d.steers[u], e.steers[u])
    BY <1>8, <2>1
  <2>5. CASE ~taken(k)
    <3>1. e.inbox[k] = d.inbox[k]
      BY <1>9, <2>5
    <3>2. RowCalm(d.inbox[k], e.inbox[k])
      BY <3>1, RowCalmItself
    <3>3. d.inbox[k].by.kind = "steer" => SteerCalm(d.steers[u][d.inbox[k].by.n], e.steers[u][d.inbox[k].by.n])
      BY <2>1, <2>4 DEF SteersCalm
    <3> HIDE DEF u
    <3>4. RowCarried(e.runs[u], e.steers[u], e.inbox[k])
      BY <2>1, <2>3, <2>4, <3>2, <3>3, RowStaysCarried
    <3> QED
      BY <2>2, <3>4
  <2>6. CASE taken(k)
    <3>1. u \in woken \cup steered /\ e.inbox[k].by = Carrier(u) /\ e.inbox[k].reads = d.inbox[k].reads
      BY <1>9, <2>6
    <3> HIDE DEF u, taken
    <3>2. \A i \in e.inbox[k].reads : i \in DOMAIN e.runs[u] /\ e.runs[u][i].status \in Terminal /\ e.runs[u][i].started
      BY <2>3, <2>4, <3>1 DEF RowCarried, RunsCalm, RunCalm
    <3>3. CASE u \in woken
      <4>1. e.inbox[k].by.kind = "start" /\ e.inbox[k].by.n = Len(d.runs[u]) + 1
        BY <3>1, <3>3 DEF StartOf
      <4>2. ~e.runs[u][Len(d.runs[u]) + 1].halted
        BY <1>8, <2>1, <3>3 DEF FreshRun
      <4> HIDE DEF Carrier
      <4> QED
        BY <2>2, <3>2, <4>1, <4>2 DEF RowCarried
    <3>4. CASE u \notin woken
      <4>1. e.inbox[k].by.kind = "steer" /\ e.inbox[k].by.n = Len(d.steers[u]) + 1 /\ u \in steered
        BY <3>1, <3>4 DEF SteerOf
      <4>2. /\ e.steers[u][Len(d.steers[u]) + 1] = steer(u)
            /\ steer(u).run \in DOMAIN d.runs[u] /\ ~d.runs[u][steer(u).run].halted /\ steer(u).status = "pending"
        BY <1>5, <1>8, <2>1, <4>1
      <4> HIDE DEF Carrier, steer
      <4>3. ~e.runs[u][steer(u).run].halted
        BY <2>4, <4>2 DEF RunsCalm, RunCalm
      <4> QED
        BY <2>2, <3>2, <4>1, <4>2, <4>3 DEF RowCarried
    <3> QED
      BY <3>3, <3>4
  <2> QED
    BY <2>5, <2>6
<1>14. Final(e)
  BY <1>1, <1>11, AgesFinal DEF Answers
<1> QED
  BY <1>1, <1>10, <1>12, <1>13, <1>14 DEF Answers, RowsCarried

-----------------------------------------------------------------------------
(* The reconciler, boots, sends, and what happens beside the notices.        *)

\* The invariant, of the current state.
LEMMA AnswersNow ==
  ASSUME Inv, AnswerInv
  PROVE  Answers(db, turn)
BY InvParts DEF AnswerInv, Answers

\* A step may settle what it leaves: the tasks into threads that are idle by then.
LEMMA AnswersNext ==
  ASSUME NEW e, Answers(e, turn'), db' = e \/ \E m : \E threads \in SUBSET Threads : db' = Settle(e, m, threads)
  PROVE  AnswerInv'
<1>1. Answers(db', turn')
  BY SettleAnswers
<1> QED
  BY <1>1 DEF Answers, AnswerInv

\* What the turns are told apart by here.
LEMMA TurnsAnswer ==
  ASSUME NEW d, NEW tn, Answers(d, tn), NEW tn2,
         \A t \in Threads : tn2[t].run = tn[t].run /\ (tn2[t].aborted => tn[t].aborted)
  PROVE  Answers(d, tn2)
BY DEF Answers, RunsCarried, RunCarried

\* A task is added.
LEMMA TaskAddedAnswers ==
  ASSUME NEW d, NEW tn, Answers(d, tn), NEW task \in Task, TaskLinked(d, task)
  PROVE  Answers([d EXCEPT !.tasks = Append(@, task)], tn)
<1> DEFINE tasks == Append(d.tasks, task)
           e == [d EXCEPT !.tasks = Append(@, task)]
<1>1. Typed(d) /\ Typed(e) /\ e.runs = d.runs /\ e.inbox = d.inbox /\ e.steers = d.steers
  BY TaskAdded DEF Answers
<1>2. d.tasks \in Seq(Task) /\ DOMAIN d.tasks = 1 .. Len(d.tasks) /\ Len(d.tasks) \in Nat
  BY <1>1, Parts DEF Typed
<1>3. Len(tasks) = Len(d.tasks) + 1 /\ tasks \in Seq(Task) /\ \A k \in 1 .. Len(d.tasks) : tasks[k] = d.tasks[k]
  BY <1>2, AppendProperties
<1>4. DOMAIN tasks = 1 .. (Len(d.tasks) + 1)
  BY <1>3, LenProperties
<1>5. e.tasks = tasks
  BY <1>1 DEF Typed, DB
<1> HIDE DEF e, tasks
<1>6. Ages(d, e)
  <2>1. DOMAIN d.tasks \subseteq DOMAIN e.tasks /\ \A k \in DOMAIN d.tasks : e.tasks[k] = d.tasks[k]
    BY <1>2, <1>3, <1>4, <1>5
  <2> QED
    BY <1>1, <2>1, RowCalmItself DEF Ages, TaskAges
<1>7. Calm(d, e)
  BY <1>1, RunsCalmItself, SteersCalmItself, RowCalmItself DEF Calm
<1>8. Answers(e, tn)
  BY <1>1, <1>6, <1>7, CalmAnswers
<1> QED
  BY <1>8 DEF e

\* The reconciler gives rows back, gives up on others, and wakes threads.
LEMMA ReconcileAnswers ==
  ASSUME Inv, AnswerInv, NEW due, Reconcile(due)
  PROVE  AnswerInv'
<1> DEFINE m == Memory(turn, background)
           restored == Restore(db, m, due)
           cancelled == CancelAcknowledgedWakes(restored, m, Threads)
<1>1. db' = WakeThreads(cancelled) /\ turn' = turn
  BY DEF Reconcile
<1>2. Answers(restored, turn) /\ Threads \in SUBSET Threads
  BY AnswersNow, RestoreAnswers
<1> HIDE DEF restored, m
<1>3. Answers(cancelled, turn) /\ \A u \in Threads : Held(cancelled, m, u)
  BY <1>2, CancelWakesAnswers, CancelWakesFacts DEF Answers
<1> HIDE DEF cancelled
<1>4. Typed(WakeThreads(cancelled))
  BY <1>3, WakeThreadsFacts DEF Answers
<1>5. Answers(WakeThreads(cancelled), turn)
  BY <1>3, <1>4, WakeThreadsAnswers
<1> QED
  BY <1>1, <1>5 DEF Answers, AnswerInv

\* A boot first ends the runs the crash cut off, so no turn has a run any more.
LEMMA CutOffAnswers ==
  ASSUME NEW d, NEW tn, Answers(d, tn), NEW none
  PROVE  Answers(EndAll(d, CutOff(d), "cut"), none)
<1> DEFINE ending == CutOff(d)
           e == EndAll(d, ending, "cut")
<1>1. "cut" \in Terminal \ {"stopped"} /\ "cut" # "active"
  BY DEF Terminal
<1>2. ASSUME NEW t \in Threads PROVE ending[t] = ActiveRuns(d, t)
  BY DEF CutOff
<1> HIDE DEF ending
<1>3. /\ Answers(e, tn)
      /\ \A t \in Threads :
           /\ DOMAIN e.runs[t] = DOMAIN d.runs[t]
           /\ \A i \in DOMAIN d.runs[t] : e.runs[t][i].status = IF i \in ending[t] THEN "cut" ELSE d.runs[t][i].status
  BY <1>1, EndAllAnswers
<1> HIDE DEF e
<1>4. \A t \in Threads : \A i \in DOMAIN e.runs[t] : e.runs[t][i].status # "active"
  BY <1>1, <1>2, <1>3 DEF ActiveRuns
<1>5. RunsCarried(e, none)
  BY <1>3, <1>4 DEF Answers, RunsCarried, RunCarried
<1> QED
  BY <1>3, <1>5 DEF Answers, e, ending

\* A crash loses what is in memory; the boot ends what was under way.
LEMMA BootAnswers ==
  ASSUME Inv, AnswerInv, CrashAndBoot
  PROVE  AnswerInv'
<1> DEFINE none == [t \in Threads |-> NoTurn]
           cancelled == CancelProcessBound(db)
           cut == EndAll(cancelled, CutOff(cancelled), "cut")
           orphaned == EndAll(cut, OrphanedChildren(cut), "cut")
           wakes == QueuedWakes(orphaned)
           dropped == EndAll(orphaned, wakes, "cancelled")
           rows == UNION {UNION {orphaned.runs[t][i].rows : i \in wakes[t]} : t \in Threads}
           again == PendingAgain(dropped, rows, TRUE)
           restored == Restore(again, {}, DOMAIN orphaned.inbox)
           woken == Settle(restored, {}, Threads)
           followed == EndAll(woken, OrphanedFollowUps(woken), "cancelled")
           e == RecoverQueuedRows(followed)
<1>1. db' = e /\ turn' = none
  BY Zenon DEF CrashAndBoot, RecoverWakes
<1>2. /\ "cut" \in Terminal \ {"stopped"} /\ "cancelled" \in Terminal \ {"stopped"} /\ TRUE \in BOOLEAN
      /\ Threads \in SUBSET Threads
  BY DEF Terminal
<1> HIDE DEF none
<1>3. Answers(cancelled, turn)
  BY AnswersNow, CancelProcessBoundAnswers
<1> HIDE DEF cancelled
<1>4. Answers(cut, none)
  BY <1>3, CutOffAnswers
<1> HIDE DEF cut
<1>5. Answers(orphaned, none)
  BY <1>2, <1>4, EndAllAnswers
<1> HIDE DEF orphaned
<1>6. Answers(dropped, none)
  BY <1>2, <1>5, EndAllAnswers
<1> HIDE DEF dropped, rows
<1>7. Answers(again, none)
  BY <1>2, <1>6, PendingAgainAnswers
<1> HIDE DEF again
<1>8. Answers(restored, none)
  BY <1>7, RestoreAnswers
<1> HIDE DEF restored
<1>9. Answers(woken, none)
  BY <1>2, <1>8, SettleAnswers
<1> HIDE DEF woken
<1>10. Answers(followed, none)
  BY <1>2, <1>9, EndAllAnswers
<1> HIDE DEF followed
<1>11. Answers(e, none)
  BY <1>10, RecoverQueuedRowsAnswers
<1> QED
  BY <1>1, <1>11 DEF Answers, AnswerInv

\* A run that a send or an item makes.
LEMMA FreshAdded ==
  ASSUME NEW old, NEW runs, NEW i, DOMAIN runs = DOMAIN old \cup {i},
         \A n \in DOMAIN old : runs[n] = old[n], FreshRun(runs[i])
  PROVE  RunsCalm(old, runs)
BY RunCalmItself DEF RunsCalm

\* A task is delegated: its run is new.
LEMMA DelegateAnswers ==
  ASSUME Inv, AnswerInv, NEW c \in Threads, Delegate(c)
  PROVE  AnswerInv'
<1> DEFINE i == Len(db.runs[c]) + 1
           new == NewRun("task", {}, 0)
           runs == Enqueue(Append(db.runs[c], new), i)
           f == [db EXCEPT !.runs[c] = runs]
           task == [child |-> c, run |-> i, status |-> "running", result |-> 0, since |-> Len(db.inbox)]
<1>1. /\ Answers(db, turn) /\ Typed(db) /\ db.runs[c] \in Seq(Run) /\ Len(db.runs[c]) \in Nat /\ Len(db.inbox) \in Nat
      /\ Parent[c] \in Threads
      /\ \A n \in DOMAIN db.runs[c] : db.runs[c][n].rows \subseteq Rows(db, c)
  BY InvParts, AnswersNow, Parts, DeliveryAssumption DEF Delegate, Typed, RunLinked
<1>2. new \in Run /\ new.rows = {} /\ FreshRun(new)
  BY NewRunType DEF NewRun, FreshRun
<1> HIDE DEF new
<1>3. /\ runs \in Seq(Run) /\ DOMAIN runs = DOMAIN db.runs[c] \cup {i} /\ i \notin DOMAIN db.runs[c]
      /\ \A n \in DOMAIN db.runs[c] : runs[n] = db.runs[c][n]
      /\ \E at \in Nat : runs[i] = [new EXCEPT !.start = "pending", !.at = at]
  BY <1>1, <1>2, NewStart
<1>4. runs[i].rows = {} /\ FreshRun(runs[i])
  BY <1>2, <1>3 DEF Run, FreshRun
<1>5. db' = [f EXCEPT !.tasks = Append(@, task)] /\ turn' = turn
  <2>1. f.tasks = db.tasks
    BY <1>1 DEF Typed, DB
  <2> QED
    BY <1>1, <2>1 DEF Delegate, new, Typed, DB
<1>6. i \in Nat /\ i \in DOMAIN runs
  BY <1>1, <1>3
<1> HIDE DEF runs, i
<1>7. RunsOf(db, f, c, runs)
  <2>1. \A n \in DOMAIN runs : runs[n].rows \subseteq Rows(db, c)
    BY <1>1, <1>3, <1>4
  <2> QED
    BY <1>1, <1>3, <2>1, RunsChanged
<1> HIDE DEF f
<1>8. Answers(f, turn)
  <2>1. RunsCalm(db.runs[c], runs)
    BY <1>3, <1>4, FreshAdded
  <2> QED
    BY <1>1, <1>7, <2>1, RunsOfAnswers
<1>9. task \in Task /\ TaskLinked(f, task)
  <2>1. task \in Task
    BY <1>1, <1>6, TaskType
  <2> QED
    BY <1>1, <1>6, <1>7, <2>1 DEF TaskLinked, RunsOf
<1> HIDE DEF task
<1>10. Answers([f EXCEPT !.tasks = Append(@, task)], turn)
  BY <1>8, <1>9, TaskAddedAnswers
<1> QED
  BY <1>5, <1>10 DEF Answers, AnswerInv

\* One run of a thread changes calmly.
LEMMA OneRunCalm ==
  ASSUME NEW runs, NEW i \in DOMAIN runs, NEW run, RunCalm(runs[i], run)
  PROVE  RunsCalm(runs, [runs EXCEPT ![i] = run])
BY RunCalmItself DEF RunsCalm

\* A subagent asks its parent: the notice is new.
LEMMA AskAnswers ==
  ASSUME Inv, AnswerInv, NEW t \in Threads, Ask(t)
  PROVE  AnswerInv'
<1> DEFINE i == Len(db.runs[t]) + 1
           direct == ~TurnRunning(t) /\ queue[t] = <<>>
           new == NewRun("person", {}, 0)
           asked == Append(db.runs[t], new)
           runs == IF direct THEN Enqueue(asked, i) ELSE asked
           f == [db EXCEPT !.runs[t] = runs]
           task == [child |-> t, run |-> i, status |-> "running", result |-> 0, since |-> Len(db.inbox)]
<1>1. /\ Answers(db, turn) /\ Typed(db) /\ db.runs[t] \in Seq(Run) /\ Len(db.runs[t]) \in Nat /\ Len(db.inbox) \in Nat
      /\ DOMAIN db.runs[t] = 1 .. Len(db.runs[t])
      /\ \A n \in DOMAIN db.runs[t] : db.runs[t][n].rows \subseteq Rows(db, t)
  BY InvParts, AnswersNow, Parts DEF Typed, RunLinked
<1>2. new \in Run /\ new.rows = {} /\ FreshRun(new)
  BY NewRunType DEF NewRun, FreshRun
<1> HIDE DEF new
<1>3. /\ runs \in Seq(Run) /\ DOMAIN runs = DOMAIN db.runs[t] \cup {i}
      /\ \A n \in DOMAIN db.runs[t] : runs[n] = db.runs[t][n]
      /\ runs[i].rows = {} /\ FreshRun(runs[i])
  <2>1. CASE direct
    <3> DEFINE started == Enqueue(asked, i)
    <3>1. /\ started \in Seq(Run) /\ DOMAIN started = DOMAIN db.runs[t] \cup {i}
          /\ \A n \in DOMAIN db.runs[t] : started[n] = db.runs[t][n]
          /\ \E at \in Nat : started[i] = [new EXCEPT !.start = "pending", !.at = at]
      BY <1>1, <1>2, NewStart
    <3> HIDE DEF started
    <3>2. started[i].rows = {} /\ FreshRun(started[i])
      BY <1>2, <3>1 DEF Run, FreshRun
    <3>3. runs = started
      BY <2>1 DEF started
    <3> QED
      BY <3>1, <3>2, <3>3
  <2>2. CASE ~direct
    <3>1. runs = asked
      BY <2>2
    <3>2. /\ asked \in Seq(Run) /\ Len(asked) = i /\ asked[i] = new
          /\ \A n \in 1 .. Len(db.runs[t]) : asked[n] = db.runs[t][n]
      BY <1>1, <1>2, AppendProperties
    <3>3. DOMAIN asked = 1 .. i
      BY <3>2, LenProperties
    <3> HIDE DEF runs, asked
    <3>4. DOMAIN asked = DOMAIN db.runs[t] \cup {i}
      BY <1>1, <3>3
    <3> QED
      BY <1>1, <1>2, <3>1, <3>2, <3>4
  <2> QED
    BY <2>1, <2>2
<1>4. db' = (IF Parent[t] = NoThread THEN f ELSE [f EXCEPT !.tasks = Append(@, task)]) /\ turn' = turn
  <2>1. db' = IF Parent[t] = NoThread THEN f ELSE [f EXCEPT !.tasks = Append(db.tasks, task)]
    BY <1>1 DEF Ask, new, Typed, DB
  <2>2. f.tasks = db.tasks
    BY <1>1 DEF Typed, DB
  <2> QED
    BY <2>1, <2>2 DEF Ask
<1>5. i \in Nat /\ i \in DOMAIN runs
  BY <1>1, <1>3
<1> HIDE DEF runs, direct, i
<1>6. RunsOf(db, f, t, runs)
  <2>1. \A n \in DOMAIN runs : runs[n].rows \subseteq Rows(db, t)
    BY <1>1, <1>3
  <2> QED
    BY <1>1, <1>3, <2>1, RunsChanged
<1> HIDE DEF f
<1>7. Answers(f, turn)
  <2>1. RunsCalm(db.runs[t], runs)
    BY <1>3, FreshAdded
  <2> QED
    BY <1>1, <1>6, <2>1, RunsOfAnswers
<1>8. ASSUME Parent[t] # NoThread PROVE Answers([f EXCEPT !.tasks = Append(@, task)], turn)
  <2>1. task \in Task
    BY <1>1, <1>5, TaskType
  <2>2. TaskLinked(f, task)
    BY <1>5, <1>6, <1>8, DeliveryAssumption DEF TaskLinked, RunsOf
  <2> HIDE DEF task
  <2> QED
    BY <1>7, <2>1, <2>2, TaskAddedAnswers
<1>9. Answers(db', turn)
  BY <1>4, <1>7, <1>8
<1> QED
  BY <1>4, <1>9 DEF Answers, AnswerInv

\* A person's steer and the background work of a provider change no notice.
LEMMA SteerByPersonAnswers ==
  ASSUME Inv, AnswerInv, NEW t \in Threads, SteerByPerson(t)
  PROVE  AnswerInv'
<1>1. turn \in [Threads -> Turn] /\ turn' = [turn EXCEPT ![t].plain = TRUE] /\ db' = db
  BY InvParts DEF SteerByPerson, TurnsTyped
<1>2. \A u \in Threads : turn'[u].run = turn[u].run /\ turn'[u].aborted = turn[u].aborted
  BY <1>1 DEF Turn
<1>3. Answers(db, turn')
  BY <1>2, AnswersNow, TurnsAnswer
<1> QED
  BY <1>1, <1>3 DEF Answers, AnswerInv

LEMMA StartBackgroundAnswers ==
  ASSUME AnswerInv, NEW t \in Threads, StartBackground(t)
  PROVE  AnswerInv'
BY DEF StartBackground, AnswerInv

LEMMA EndBackgroundAnswers ==
  ASSUME Inv, AnswerInv, NEW t \in Threads, EndBackground(t)
  PROVE  AnswerInv'
<1>1. db' = Settle(db, Memory(turn, background'), {t}) /\ turn' = turn /\ {t} \in SUBSET Threads
  BY DEF EndBackground
<1>2. Answers(db, turn')
  BY <1>1, AnswersNow
<1> QED
  BY <1>1, <1>2, AnswersNext

\* The turn.start of a send is recorded again.
LEMMA RestartSendAnswers ==
  ASSUME Inv, AnswerInv, NEW t \in Threads, NEW i \in DOMAIN db.runs[t], RestartSend(t, i)
  PROVE  AnswerInv'
<1>1. /\ Answers(db, turn) /\ Typed(db) /\ db.runs[t] \in Seq(Run) /\ db.runs[t][i] \in Run
      /\ db.runs[t][i].rows \subseteq Rows(db, t)
  BY InvParts, AnswersNow, Parts DEF Typed, RunLinked
<1>2. turn' = turn /\ db' = [db EXCEPT !.runs[t] = Enqueue(@, i)]
  BY DEF RestartSend
<1>3. PICK at \in Nat : Enqueue(db.runs[t], i) = [db.runs[t] EXCEPT ![i] = [db.runs[t][i] EXCEPT !.start = "pending", !.at = at]]
  BY <1>1, Enqueued
<1> DEFINE run == [db.runs[t][i] EXCEPT !.start = "pending", !.at = at]
           runs == [db.runs[t] EXCEPT ![i] = run]
<1>4. run \in Run /\ run.item = db.runs[t][i].item /\ run.rows = db.runs[t][i].rows /\ RunCalm(db.runs[t][i], run)
  BY <1>1 DEF Run, InFlight, RunCalm
<1>5. db' = [db EXCEPT !.runs[t][i] = run]
  <2>1. db' = [db EXCEPT !.runs[t] = runs]
    BY <1>2, <1>3
  <2> QED
    BY <2>1
<1> HIDE DEF run
<1>6. RunsOf(db, db', t, runs)
  BY <1>1, <1>4, <1>5, RunChanged
<1>7. RunsCalm(db.runs[t], runs)
  BY <1>4, OneRunCalm
<1> HIDE DEF runs
<1>8. Answers(db', turn)
  BY <1>1, <1>6, <1>7, RunsOfAnswers
<1> QED
  BY <1>2, <1>8 DEF Answers, AnswerInv

\* The turn reads the steers it holds.
LEMMA ReadSteersAnswers ==
  ASSUME Inv, AnswerInv, NEW t \in Threads, ReadSteers(t)
  PROVE  AnswerInv'
<1>1. /\ turn' = [turn EXCEPT ![t] = [@ EXCEPT !.unread = {}, !.plain = FALSE, !.taken = turn[t].taken \cup turn[t].unread]]
      /\ db' = MarkTaken(db, OfSteers(db, t, turn[t].unread), TRUE) /\ turn \in [Threads -> Turn] /\ TRUE \in BOOLEAN
  BY InvParts DEF ReadSteers, TurnsTyped
<1>2. \A u \in Threads : turn'[u].run = turn[u].run /\ turn'[u].aborted = turn[u].aborted
  BY <1>1 DEF Turn
<1>3. Answers(db, turn')
  BY <1>2, AnswersNow, TurnsAnswer
<1>4. Answers(db', turn')
  BY <1>1, <1>3, MarkTakenAnswers
<1> QED
  BY <1>4 DEF Answers, AnswerInv

\* A provider returns a steer it has not read.
LEMMA ReturnSteerAnswers ==
  ASSUME Inv, AnswerInv, NEW t \in Threads, NEW j \in DOMAIN db.steers[t], ReturnSteer(t, j)
  PROVE  AnswerInv'
<1>1. /\ turn' = [turn EXCEPT ![t] = [@ EXCEPT !.taken = turn[t].taken \ {j}, !.unread = turn[t].unread \cup {j}]]
      /\ db' = MarkTaken(db, OfSteers(db, t, {j}), FALSE) /\ turn \in [Threads -> Turn] /\ FALSE \in BOOLEAN
  BY InvParts DEF ReturnSteer, TurnsTyped
<1>2. \A u \in Threads : turn'[u].run = turn[u].run /\ turn'[u].aborted = turn[u].aborted
  BY <1>1 DEF Turn
<1>3. Answers(db, turn')
  BY <1>2, AnswersNow, TurnsAnswer
<1>4. Answers(db', turn')
  BY <1>1, <1>3, MarkTakenAnswers
<1> QED
  BY <1>4 DEF Answers, AnswerInv
-----------------------------------------------------------------------------
(* Turns that start.                                                         *)

\* A run starts as the turn of a thread that had none.  It was queued, so no notice has been read in it.
LEMMA StartsAnswers ==
  ASSUME Inv, ReadInv, AnswerInv, NEW t \in Threads, NEW i \in DOMAIN db.runs[t], db.runs[t][i].start = "pending",
         turn[t].run = 0, NEW rows \in SUBSET db.runs[t][i].rows, Starts(db, t, i, rows)
  PROVE  AnswerInv'
<1> DEFINE run == [db.runs[t][i] EXCEPT !.start = "running", !.status = "active", !.started = TRUE, !.rows = rows]
           runs == [db.runs[t] EXCEPT ![i] = run]
           x == [NoTurn EXCEPT !.run = i]
<1>1. /\ Answers(db, turn) /\ Typed(db) /\ db.runs[t][i] \in Run /\ db.runs[t][i].rows \in SUBSET Rows(db, t)
      /\ RunApart(db, t, i) /\ DOMAIN db.inbox \subseteq Nat /\ turn \in [Threads -> Turn]
      /\ i \in Nat /\ i # 0
  BY AnswersNow, ThreadParts
<1>2. db.runs[t][i].status = "queued"
  BY <1>1 DEF RunApart, RunStands
<1>3. db' = [db EXCEPT !.runs[t][i] = run] /\ turn' = [turn EXCEPT ![t] = x]
  BY <1>1 DEF Starts, Typed, DB
<1>4. rows \in SUBSET Nat
  BY <1>1 DEF Rows
<1>5. /\ run \in Run /\ run.item = db.runs[t][i].item /\ run.rows = rows /\ run.status = "active"
      /\ run.started /\ run.halted = db.runs[t][i].halted
  BY <1>1, <1>4 DEF Run, Statuses, InFlight
<1> HIDE DEF run
<1>6. RunsOf(db, db', t, runs)
  BY <1>1, <1>3, <1>5, RunChanged
<1>7. DOMAIN runs = DOMAIN db.runs[t] /\ runs[i] = run /\ \A n \in DOMAIN runs \ {i} : runs[n] = db.runs[t][n]
  OBVIOUS
<1>8. x.run = i /\ ~x.aborted
  BY DEF NoTurn
<1>9. turn'[t] = x /\ \A u \in Threads \ {t} : turn'[u] = turn[u]
  BY <1>1, <1>3
<1> HIDE DEF runs, x
<1>10. /\ Typed(db') /\ db'.runs[t] = runs /\ db'.steers = db.steers /\ db'.inbox = db.inbox /\ db'.tasks = db.tasks
       /\ \A u \in Threads \ {t} : db'.runs[u] = db.runs[u]
  BY <1>6 DEF RunsOf
<1>11. Final(db')
  BY <1>1, <1>10 DEF Answers, Final, Answered
<1>12. ASSUME NEW k \in DOMAIN db.inbox PROVE RowCarried(db'.runs[db.inbox[k].to], db.steers[db.inbox[k].to], db.inbox[k])
  <2> DEFINE row == db.inbox[k]
             u == row.to
  <2>1. /\ u \in Threads
        /\ row.by.kind = "start" => row.by.n \in DOMAIN db.runs[u]
        /\ row.by.kind \in {"steer", "item"} => row.by.n \in DOMAIN db.steers[u]
        /\ \A j \in DOMAIN db.steers[u] : db.steers[u][j].run \in DOMAIN db.runs[u]
    BY <1>1, LinkedRow
  <2>2. RowCarried(db.runs[u], db.steers[u], row)
    BY <1>1 DEF Answers, RowsCarried
  <2> HIDE DEF u
  <2>3. CASE u # t
    BY <1>10, <2>1, <2>2, <2>3 DEF u
  <2>4. CASE u = t
    <3>1. /\ \A n \in DOMAIN runs : runs[n].halted = db.runs[t][n].halted /\ runs[n].item = db.runs[t][n].item
          /\ \A n \in DOMAIN runs : db.runs[t][n].status \in Terminal => runs[n] = db.runs[t][n]
      BY <1>2, <1>5, <1>7 DEF Terminal
    <3> HIDE DEF row
    <3>2. RowCarried(runs, db.steers[t], row)
      BY <1>7, <2>1, <2>2, <2>4, <3>1 DEF RowCarried
    <3> QED
      BY <1>10, <2>4, <3>2 DEF u, row
  <2> QED
    BY <2>3, <2>4
<1>13. ASSUME NEW u \in Threads, NEW n \in DOMAIN db'.runs[u] PROVE RunCarried(db'.runs[u][n], n, turn'[u])
  <2>1. CASE u # t
    BY <1>1, <1>9, <1>10, <1>13, <2>1 DEF Answers, RunsCarried
  <2>2. CASE u = t /\ n = i
    BY <1>5, <1>7, <1>8, <1>9, <1>10, <2>2 DEF RunCarried
  <2>3. CASE u = t /\ n # i
    <3>1. RunCarried(db.runs[t][n], n, turn[t]) /\ runs[n] = db.runs[t][n] /\ n \in DOMAIN db.runs[t]
      BY <1>1, <1>7, <1>10, <1>13, <2>3 DEF Answers, RunsCarried
    <3>2. n # 0
      BY <1>1, <3>1, Parts DEF Typed
    <3>3. db.runs[t][n].status # "active"
      BY <3>1, <3>2 DEF RunCarried
    <3> QED
      BY <1>10, <2>3, <3>1, <3>3 DEF RunCarried
  <2> QED
    BY <2>1, <2>2, <2>3
<1> QED
  BY <1>10, <1>11, <1>12, <1>13 DEF AnswerInv, RowsCarried, RunsCarried

\* A turn.start, of a send or of a wake.
LEMMA StartTurnAnswers ==
  ASSUME Inv, ReadInv, AnswerInv, NEW t \in Threads, NEW i \in DOMAIN db.runs[t], StartTurn(t, i)
  PROVE  AnswerInv'
<1>1. /\ Starts(db, t, i, db.runs[t][i].rows) /\ db.runs[t][i].start = "pending" /\ turn[t].run = 0
  BY DEF StartTurn, NextStart
<1> QED
  BY <1>1, StartsAnswers

LEMMA StartWakeAnswers ==
  ASSUME Inv, ReadInv, AnswerInv, NEW t \in Threads, NEW i \in DOMAIN db.runs[t], StartWake(t, i)
  PROVE  AnswerInv'
<1> DEFINE rows == {k \in db.runs[t][i].rows : db.inbox[k].status # "acknowledged"}
           m == Memory(turn, background)
           run == [db.runs[t][i] EXCEPT !.start = "succeeded", !.status = "cancelled"]
           runs == [db.runs[t] EXCEPT ![i] = run]
           ended == [db EXCEPT !.runs[t][i] = run]
           settled == Settle(ended, m, {t})
           again == PendingAgain(settled, rows, FALSE)
<1>1. db.runs[t][i].start = "pending" /\ turn[t].run = 0
  BY DEF StartWake, NextStart
<1>2. /\ Typed(db) /\ db.runs[t][i] \in Run /\ db.runs[t][i].rows \in SUBSET Rows(db, t) /\ Answers(db, turn)
  BY ThreadParts, AnswersNow
<1>3. CASE Starts(db, t, i, rows)
  <2>1. rows \in SUBSET db.runs[t][i].rows
    OBVIOUS
  <2> HIDE DEF rows
  <2> QED
    BY <1>1, <1>3, <2>1, StartsAnswers
<1>4. CASE turn' = turn /\ db' = Settle(PendingAgain(WriteTerminal([db EXCEPT !.runs[t][i].start = "succeeded"], m, t, i, "cancelled"), rows, FALSE), m, {t})
  <2>1. /\ run \in Run /\ run.item = db.runs[t][i].item /\ run.rows = db.runs[t][i].rows /\ RunCalm(db.runs[t][i], run)
    BY <1>2 DEF Run, Statuses, Terminal, InFlight, RunCalm
  <2>2. db' = Settle(again, m, {t})
    <3>1. WriteTerminal([db EXCEPT !.runs[t][i].start = "succeeded"], m, t, i, "cancelled") = settled
      BY <1>2 DEF WriteTerminal, Typed, DB
    <3> QED
      BY <1>4, <3>1
  <2>3. {t} \in SUBSET Threads /\ FALSE \in BOOLEAN
    OBVIOUS
  <2> HIDE DEF run, m, rows
  <2>4. RunsOf(db, ended, t, runs)
    BY <1>2, <2>1, RunChanged
  <2>5. RunsCalm(db.runs[t], runs)
    BY <2>1, OneRunCalm
  <2> HIDE DEF ended, runs
  <2>6. Answers(ended, turn)
    BY <1>2, <2>4, <2>5, RunsOfAnswers
  <2>7. Answers(settled, turn)
    BY <2>3, <2>6, SettleAnswers
  <2> HIDE DEF settled
  <2>8. Answers(again, turn)
    BY <2>3, <2>7, PendingAgainAnswers
  <2> HIDE DEF again
  <2> QED
    BY <1>4, <2>2, <2>3, <2>8, AnswersNext
<1> QED
  BY <1>3, <1>4 DEF StartWake

-----------------------------------------------------------------------------
(* Notices that change their carrier.                                        *)

\* What stays of a notice when its carrier changes.
SameNotice(r, s) ==
    s.to = r.to /\ s.task = r.task /\ s.gaveUp = r.gaveUp /\ s.reads = r.reads /\ s.waived = r.waived

\* A row that a turn.start takes over.
LEMMA ToStartRow ==
  ASSUME NEW d, Typed(d), NEW own, NEW k \in DOMAIN d.inbox, k \in own, NEW i
  PROVE  LET s == ToStart(d, own, i).inbox[k]
         IN SameNotice(d.inbox[k], s) /\ s.status = d.inbox[k].status /\ s.by = StartOf(i)
<1> DEFINE row == d.inbox[k]
           start == [n \in DOMAIN d.inbox |-> IF n \in own THEN [d.inbox[n] EXCEPT !.by = StartOf(i)] ELSE d.inbox[n]]
<1>1. row \in Row /\ \A box : [d EXCEPT !.inbox = box].inbox = box
  BY Parts DEF Typed
<1>2. ToStart(d, own, i).inbox = start
  BY <1>1 DEF ToStart
<1>3. start[k] = [row EXCEPT !.by = StartOf(i)]
  OBVIOUS
<1> HIDE DEF start
<1>4. LET s == [row EXCEPT !.by = StartOf(i)] IN SameNotice(row, s) /\ s.status = row.status /\ s.by = StartOf(i)
  BY <1>1 DEF Row, SameNotice
<1> HIDE DEF row
<1>5. ToStart(d, own, i).inbox[k] = [row EXCEPT !.by = StartOf(i)]
  BY <1>2, <1>3
<1> QED
  BY <1>4, <1>5 DEF row

\* A row that was delivered has one carrier after another, or none.
LEMMA CarriersChange ==
  ASSUME NEW d, Typed(d), NEW own, NEW k \in DOMAIN d.inbox, k \in own
  PROVE  /\ LET s == Release(d, own).inbox[k] IN SameNotice(d.inbox[k], s) /\ s.status = "pending"
         /\ LET s == ToItems(d, own).inbox[k]
            IN SameNotice(d.inbox[k], s) /\ s.status = d.inbox[k].status /\ s.by = ItemOf(d.inbox[k].by.n)
         /\ LET s == MarkHeld(d, own).inbox[k]
            IN /\ SameNotice(d.inbox[k], s) /\ s.status = d.inbox[k].status /\ s.by = d.inbox[k].by
               /\ s.held = d.inbox[k].by.n
<1> DEFINE row == d.inbox[k]
           released == [n \in DOMAIN d.inbox |->
                          IF n \in own THEN [d.inbox[n] EXCEPT !.status = "pending", !.by = Nobody] ELSE d.inbox[n]]
           items == [n \in DOMAIN d.inbox |-> IF n \in own THEN [d.inbox[n] EXCEPT !.by = ItemOf(@.n)] ELSE d.inbox[n]]
           held == [n \in DOMAIN d.inbox |-> IF n \in own THEN [d.inbox[n] EXCEPT !.held = d.inbox[n].by.n] ELSE d.inbox[n]]
<1>1. row \in Row /\ \A box : [d EXCEPT !.inbox = box].inbox = box
  BY Parts DEF Typed
<1>2. /\ Release(d, own).inbox = released /\ ToItems(d, own).inbox = items
      /\ MarkHeld(d, own).inbox = held
  BY <1>1 DEF Release, ToItems, MarkHeld
<1>3. /\ released[k] = [row EXCEPT !.status = "pending", !.by = Nobody]
      /\ items[k] = [row EXCEPT !.by = ItemOf(row.by.n)]
      /\ held[k] = [row EXCEPT !.held = row.by.n]
  OBVIOUS
<1> HIDE DEF released, items, held
<1>4. /\ SameNotice(row, [row EXCEPT !.status = "pending", !.by = Nobody])
      /\ [row EXCEPT !.status = "pending", !.by = Nobody].status = "pending"
  BY <1>1 DEF Row, SameNotice
<1>5. \A carrier : LET s == [row EXCEPT !.by = carrier]
                   IN SameNotice(row, s) /\ s.status = row.status /\ s.by = carrier
  BY <1>1 DEF Row, SameNotice
<1>6. LET s == [row EXCEPT !.held = row.by.n]
      IN SameNotice(row, s) /\ s.status = row.status /\ s.by = row.by /\ s.held = row.by.n
  BY <1>1 DEF Row, SameNotice
<1> HIDE DEF row
<1>7. /\ Release(d, own).inbox[k] = [row EXCEPT !.status = "pending", !.by = Nobody]
      /\ ToItems(d, own).inbox[k] = [row EXCEPT !.by = ItemOf(row.by.n)]
      /\ MarkHeld(d, own).inbox[k] = [row EXCEPT !.held = row.by.n]
  BY <1>2, <1>3
<1>8. LET s == Release(d, own).inbox[k] IN SameNotice(row, s) /\ s.status = "pending"
  BY <1>4, <1>7
<1>9. LET s == ToItems(d, own).inbox[k]
       IN SameNotice(row, s) /\ s.status = row.status /\ s.by = ItemOf(row.by.n)
  BY <1>5, <1>7
<1>10. LET s == MarkHeld(d, own).inbox[k]
       IN SameNotice(row, s) /\ s.status = row.status /\ s.by = row.by /\ s.held = row.by.n
  BY <1>6, <1>7
<1> QED
  BY <1>8, <1>9, <1>10 DEF row

\* Notices that are handed on to a carrier whose run was not told to stop; the steers of the others stay.
LEMMA HandedAnswers ==
  ASSUME NEW d, NEW tn, Answers(d, tn), NEW e, Typed(e), e.runs = d.runs, e.tasks = d.tasks,
         DOMAIN e.inbox = DOMAIN d.inbox, NEW own, \A k \in DOMAIN d.inbox \ own : e.inbox[k] = d.inbox[k],
         \A k \in own : /\ d.inbox[k].status = "delivered" /\ SameNotice(d.inbox[k], e.inbox[k])
                       /\ RowCarried(d.runs[d.inbox[k].to], e.steers[d.inbox[k].to], e.inbox[k]),
         \A k \in DOMAIN d.inbox \ own :
            d.inbox[k].status = "delivered" /\ d.inbox[k].by.kind = "steer" =>
              SteerCalm(d.steers[d.inbox[k].to][d.inbox[k].by.n], e.steers[d.inbox[k].to][d.inbox[k].by.n])
  PROVE  Answers(e, tn)
<1>1. Ages(d, e)
  <2>1. ASSUME NEW k \in DOMAIN d.inbox PROVE RowAges(d.inbox[k], e.inbox[k])
    <3>1. CASE k \in own
      BY <3>1 DEF SameNotice, RowAges
    <3>2. CASE k \notin own
      BY <3>2, RowCalmItself
    <3> QED
      BY <3>1, <3>2
  <2> QED
    BY <2>1 DEF Ages, TaskAges
<1>2. Final(e) /\ Typed(d)
  BY <1>1, AgesFinal DEF Answers
<1>3. ASSUME NEW k \in DOMAIN d.inbox PROVE RowCarried(e.runs[e.inbox[k].to], e.steers[e.inbox[k].to], e.inbox[k])
  <2>1. CASE k \in own
    BY <2>1 DEF SameNotice
  <2>2. CASE k \notin own
    <3> DEFINE t == d.inbox[k].to
               row == d.inbox[k]
    <3>1. /\ row.by.kind = "start" => row.by.n \in DOMAIN d.runs[t]
          /\ row.by.kind \in {"steer", "item"} => row.by.n \in DOMAIN d.steers[t]
          /\ \A j \in DOMAIN d.steers[t] : d.steers[t][j].run \in DOMAIN d.runs[t]
      BY <1>2, LinkedRow
    <3>2. RowCarried(d.runs[t], d.steers[t], row) /\ e.inbox[k] = row
      BY <2>2 DEF Answers, RowsCarried
    <3>3. row.status = "delivered" /\ row.by.kind = "steer" => SteerCalm(d.steers[t][row.by.n], e.steers[t][row.by.n])
      BY <2>2
    <3>4. RunsCalm(d.runs[t], d.runs[t]) /\ RowCalm(row, row)
      BY RunsCalmItself, RowCalmItself
    <3>5. row.to = t
      OBVIOUS
    <3> HIDE DEF t, row
    <3>6. RowCarried(d.runs[t], e.steers[t], row)
      BY <3>1, <3>2, <3>3, <3>4, RowStaysCarried
    <3> QED
      BY <3>2, <3>5, <3>6
  <2> QED
    BY <2>1, <2>2
<1> QED
  BY <1>2, <1>3 DEF Answers, RowsCarried, RunsCarried

\* A steer is done: what it has is held by a turn, goes to a queue item, or is pending again.
LEMMA ExecuteSteerAnswers ==
  ASSUME Inv, ReadInv, AnswerInv, NEW t \in Threads, NEW j \in DOMAIN db.steers[t], ExecuteSteer(t, j)
  PROVE  AnswerInv'
<1> DEFINE own == Own(db, db.steers[t][j].rows, SteerOf(j))
           steer == [db.steers[t][j] EXCEPT !.status = "succeeded", !.rows = own]
           done == [db EXCEPT !.steers[t][j] = steer]
           memory == Memory(turn, background)
           x == [turn[t] EXCEPT !.unread = turn[t].unread \cup {j}]
<1>1. \/ db' = Settle(Release(done, own), memory, {t}) /\ turn' = turn
      \/ db' = Settle(done, memory, {t}) /\ own = {} /\ turn' = turn
      \/ db' = MarkHeld(done, own) /\ turn' = [turn EXCEPT ![t] = x]
      \/ db' = Settle(ToItems(done, own), memory, {t}) /\ turn' = turn
  BY DEF ExecuteSteer
<1>2. /\ Typed(db) /\ turn[t] \in Turn /\ Apart(db, t, queue[t], turn[t]) /\ turn \in [Threads -> Turn]
      /\ db.steers[t][j] \in Steer /\ db.steers[t][j].rows \in SUBSET Rows(db, t)
      /\ db.steers[t][j].run \in DOMAIN db.runs[t] /\ DOMAIN db.inbox \subseteq Nat /\ j \in Nat /\ j # 0
      /\ Answers(db, turn)
  BY ThreadParts, AnswersNow
<1>3. db.steers[t][j].status = "pending"
  BY DEF ExecuteSteer
<1>4. /\ \A i \in DOMAIN db.runs[t] : db.runs[t][i].item # j
      /\ \A k : k \in HeldBy(db, t, SteerOf(j)) <=> k \in own
  BY <1>2, <1>3, PendingSteer
<1>5. /\ own \in SUBSET Rows(db, t)
      /\ \A k \in own : db.inbox[k].status = "delivered" /\ db.inbox[k].by = SteerOf(j)
  BY <1>2 DEF Own
<1>6. /\ steer \in Steer /\ SteerLinked(db, t, steer) /\ steer.run = db.steers[t][j].run
  <2>1. own \in SUBSET Nat
    BY <1>2, <1>5 DEF Rows
  <2> HIDE DEF own
  <2> QED
    BY <1>2, <1>5, <2>1 DEF Steer, SteerLinked
<1> HIDE DEF steer
<1>7. SteersOf(db, done, t, [db.steers[t] EXCEPT ![j] = steer])
  BY <1>2, <1>6, SteerChanged
<1> HIDE DEF done
<1> HIDE DEF own, memory, x
<1>8. /\ Typed(done) /\ done.runs = db.runs /\ done.inbox = db.inbox /\ done.tasks = db.tasks
      /\ done.steers[t][j] = steer /\ \A n \in DOMAIN db.steers[t] \ {j} : done.steers[t][n] = db.steers[t][n]
      /\ \A u \in Threads \ {t} : done.steers[u] = db.steers[u]
  BY <1>7 DEF SteersOf, Beside, Untouched
<1>9. ASSUME NEW k \in DOMAIN db.inbox \ own, db.inbox[k].status = "delivered", db.inbox[k].by.kind = "steer"
      PROVE  SteerCalm(db.steers[db.inbox[k].to][db.inbox[k].by.n], done.steers[db.inbox[k].to][db.inbox[k].by.n])
  <2> DEFINE row == db.inbox[k]
  <2>1. row \in Row /\ row.to \in Threads /\ row.by.n \in DOMAIN db.steers[row.to]
    BY <1>2, <1>9, LinkedRow
  <2>2. row.by = SteerOf(row.by.n)
    BY <1>9, <2>1 DEF Row, SteerOf
  <2>3. ~(row.to = t /\ row.by.n = j)
    BY <1>4, <1>9, <2>2 DEF HeldBy, Rows
  <2> HIDE DEF row
  <2>4. done.steers[row.to][row.by.n] = db.steers[row.to][row.by.n]
    BY <1>8, <2>1, <2>3
  <2> QED
    BY <2>4 DEF row, SteerCalm
<1>10. ASSUME NEW k \in own
       PROVE  /\ k \in DOMAIN db.inbox /\ k \in DOMAIN done.inbox /\ db.inbox[k].to = t
              /\ db.inbox[k].status = "delivered" /\ db.inbox[k].by.n = j
              /\ ~db.runs[t][done.steers[t][j].run].halted
              /\ \A i \in db.inbox[k].reads :
                   i \in DOMAIN db.runs[t] /\ db.runs[t][i].status \in Terminal /\ db.runs[t][i].started
  <2>1. k \in DOMAIN db.inbox /\ db.inbox[k].to = t /\ db.inbox[k].status = "delivered" /\ db.inbox[k].by = SteerOf(j)
    BY <1>5, <1>10 DEF Rows
  <2>2. RowCarried(db.runs[t], db.steers[t], db.inbox[k])
    BY <1>2, <2>1 DEF Answers, RowsCarried
  <2>3. SteerOf(j).kind = "steer" /\ SteerOf(j).n = j
    BY DEF SteerOf
  <2> QED
    BY <1>6, <1>8, <2>1, <2>2, <2>3 DEF RowCarried
<1>11. ASSUME NEW e, RewriteOf(done, e, own),
              \A k \in own : SameNotice(db.inbox[k], e.inbox[k]) /\ RowCarried(db.runs[t], done.steers[t], e.inbox[k])
       PROVE  Answers(e, turn)
  <2>1. /\ Typed(e) /\ e.runs = db.runs /\ e.tasks = db.tasks /\ e.steers = done.steers
        /\ DOMAIN e.inbox = DOMAIN db.inbox /\ \A k \in DOMAIN db.inbox \ own : e.inbox[k] = db.inbox[k]
    BY <1>8, <1>11 DEF RewriteOf
  <2>2. \A k \in own : /\ db.inbox[k].status = "delivered" /\ SameNotice(db.inbox[k], e.inbox[k])
                       /\ RowCarried(db.runs[db.inbox[k].to], e.steers[db.inbox[k].to], e.inbox[k])
    BY <1>10, <1>11, <2>1
  <2>3. \A k \in DOMAIN db.inbox \ own :
            db.inbox[k].status = "delivered" /\ db.inbox[k].by.kind = "steer" =>
              SteerCalm(db.steers[db.inbox[k].to][db.inbox[k].by.n], e.steers[db.inbox[k].to][db.inbox[k].by.n])
    BY <1>9, <2>1
  <2> QED
    BY <1>2, <2>1, <2>2, <2>3, HandedAnswers
<1>12. {t} \in SUBSET Threads
  OBVIOUS
<1>13. CASE db' = Settle(Release(done, own), memory, {t}) /\ turn' = turn
  <2> DEFINE e == Release(done, own)
  <2>1. RewriteOf(done, e, own)
    BY <1>8, ReleaseRewrites
  <2>2. ASSUME NEW k \in own
        PROVE  SameNotice(db.inbox[k], e.inbox[k]) /\ RowCarried(db.runs[t], done.steers[t], e.inbox[k])
    <3>1. SameNotice(db.inbox[k], e.inbox[k]) /\ e.inbox[k].status = "pending"
      BY <1>8, <1>10, <2>2, CarriersChange
    <3> HIDE DEF e
    <3> QED
      BY <1>10, <2>2, <3>1 DEF SameNotice, RowCarried
  <2> HIDE DEF e
  <2>3. Answers(e, turn')
    BY <1>11, <1>13, <2>1, <2>2
  <2> QED
    BY <1>12, <1>13, <2>3, AnswersNext DEF e
<1>14. CASE db' = Settle(done, memory, {t}) /\ own = {} /\ turn' = turn
  <2>1. RewriteOf(done, done, own)
    BY <1>8 DEF RewriteOf
  <2>2. Answers(done, turn')
    BY <1>11, <1>14, <2>1
  <2> QED
    BY <1>12, <1>14, <2>2, AnswersNext
<1>15. CASE db' = MarkHeld(done, own) /\ turn' = [turn EXCEPT ![t] = x]
  <2> DEFINE e == MarkHeld(done, own)
  <2>1. RewriteOf(done, e, own)
    BY <1>8, MarkHeldRewrites
  <2>2. ASSUME NEW k \in own
        PROVE  SameNotice(db.inbox[k], e.inbox[k]) /\ RowCarried(db.runs[t], done.steers[t], e.inbox[k])
    <3>0. LET s == MarkHeld(done, own).inbox[k]
          IN SameNotice(done.inbox[k], s) /\ s.by = done.inbox[k].by /\ s.held = done.inbox[k].by.n
      BY <1>8, <1>10, <2>2, CarriersChange
    <3>1. /\ SameNotice(db.inbox[k], e.inbox[k]) /\ e.inbox[k].by = db.inbox[k].by /\ e.inbox[k].held = j
      BY <1>8, <1>10, <2>2, <3>0
    <3> HIDE DEF e
    <3>2. db.inbox[k].by.kind = "steer" /\ db.inbox[k].by.n = j
      BY <1>5, <2>2 DEF SteerOf
    <3> QED
      BY <1>2, <1>10, <2>2, <3>1, <3>2 DEF SameNotice, RowCarried
  <2> HIDE DEF e
  <2>3. Answers(e, turn)
    BY <1>11, <2>1, <2>2
  <2>4. \A u \in Threads : turn'[u].run = turn[u].run /\ turn'[u].aborted = turn[u].aborted
    BY <1>2, <1>15 DEF Turn, x
  <2>5. Answers(e, turn')
    BY <2>3, <2>4, TurnsAnswer
  <2> QED
    BY <1>15, <2>5, AnswersNext DEF e
<1>16. CASE db' = Settle(ToItems(done, own), memory, {t}) /\ turn' = turn
  <2> DEFINE e == ToItems(done, own)
  <2>1. RewriteOf(done, e, own)
    <3>1. \A k \in own \cap DOMAIN done.inbox : done.inbox[k].by.kind \in {"steer", "item"}
      BY <1>5, <1>8 DEF SteerOf
    <3> QED
      BY <1>8, <3>1, ToItemsRewrites
  <2>2. ASSUME NEW k \in own
        PROVE  SameNotice(db.inbox[k], e.inbox[k]) /\ RowCarried(db.runs[t], done.steers[t], e.inbox[k])
    <3>0. LET s == ToItems(done, own).inbox[k]
          IN SameNotice(done.inbox[k], s) /\ s.by = ItemOf(done.inbox[k].by.n)
      BY <1>8, <1>10, <2>2, CarriersChange
    <3>1. SameNotice(db.inbox[k], e.inbox[k]) /\ e.inbox[k].by = ItemOf(j)
      BY <1>8, <1>10, <2>2, <3>0
    <3> HIDE DEF e
    <3>2. ItemOf(j).kind = "item" /\ ItemOf(j).n = j
      BY DEF ItemOf
    <3> QED
      BY <1>4, <1>10, <2>2, <3>1, <3>2 DEF SameNotice, RowCarried
  <2> HIDE DEF e
  <2>3. Answers(e, turn')
    BY <1>11, <1>16, <2>1, <2>2
  <2> QED
    BY <1>12, <1>16, <2>3, AnswersNext DEF e
<1> QED
  BY <1>1, <1>13, <1>14, <1>15, <1>16

-----------------------------------------------------------------------------
(* The ends of runs and of turns.                                            *)

\* A carrier and a read stay what they are as a run of the thread ends.
LEMMA RowOverEnded ==
  ASSUME NEW runs, NEW to, DOMAIN to = DOMAIN runs,
         \A n \in DOMAIN to : to[n].halted = runs[n].halted /\ to[n].item = runs[n].item,
         \A n \in DOMAIN to : runs[n].status \in Terminal => to[n].status \in Terminal,
         \A n \in DOMAIN to : to[n].started = runs[n].started,
         NEW steers, NEW row, RowCarried(runs, steers, row),
         row.by.kind = "start" => row.by.n \in DOMAIN runs,
         row.by.kind \in {"steer", "item"} => row.by.n \in DOMAIN steers,
         \A j \in DOMAIN steers : steers[j].run \in DOMAIN runs
  PROVE  RowCarried(to, steers, row)
<1>1. \A i \in row.reads : i \in DOMAIN to /\ to[i].status \in Terminal /\ to[i].started
  BY DEF RowCarried
<1>2. CASE row.status = "delivered"
  <2>1. row.by.kind = "start" => ~to[row.by.n].halted
    BY <1>2 DEF RowCarried
  <2>2. row.by.kind = "steer" => ~to[steers[row.by.n].run].halted
    BY <1>2 DEF RowCarried
  <2>3. row.by.kind = "item" => \A i \in DOMAIN to : to[i].item = row.by.n => ~to[i].halted
    BY <1>2 DEF RowCarried
  <2> QED
    BY <1>1, <1>2, <2>1, <2>2, <2>3 DEF RowCarried
<1>3. CASE row.status # "delivered"
  BY <1>1, <1>3 DEF RowCarried
<1> QED
  BY <1>2, <1>3

\* The run of the live turn ends, as stopped only when it was told to; what it showed was read in it.
LEMMA EndRunAnswers ==
  ASSUME Inv, ReadInv, AnswerInv, NEW t \in Threads, NEW status \in {"completed", "failed", "stopped"}, EndRun(t, status)
  PROVE  AnswerInv'
<1> DEFINE x == turn[t]
           i == x.run
           shown == Shown(db, t, x)
           box == [k \in DOMAIN db.inbox |->
                     IF status = "completed" /\ k \in shown
                     THEN [db.inbox[k] EXCEPT !.reads = @ \cup {i}] ELSE db.inbox[k]]
           seen == [db EXCEPT !.inbox = box]
           m == Memory(turn, background)
           run == [db.runs[t][i] EXCEPT !.status = status]
           runs == [db.runs[t] EXCEPT ![i] = run]
           ended == [seen EXCEPT !.runs[t][i].status = status]
           read == IF status = "completed" THEN Acknowledge(ended, DeliveredByRun(ended, t, i), FALSE) ELSE ended
<1>1. /\ LiveTurn(t) /\ db' = WriteTerminal(seen, m, t, i, status) /\ turn' = turn
      /\ status = "stopped" => x.aborted
  BY DEF EndRun, Shown
<1>2. /\ Typed(db) /\ TurnLinked(db, t, x) /\ Apart(db, t, queue[t], x) /\ Answers(db, turn)
      /\ IsLive(db, t, x) /\ db.runs[t][i].status = "active"
  BY <1>1, ThreadParts, AnswersNow DEF LiveTurn, IsLive
<1>3. i \in DOMAIN db.runs[t] /\ shown \subseteq Rows(db, t) /\ i \in Nat
  BY <1>2, ShownFacts, Parts DEF Typed
<1>4. db.runs[t][i] \in Run /\ db.runs[t][i].rows \subseteq Rows(db, t)
  BY <1>2, <1>3, Parts DEF Typed, RunLinked
<1>5. db' = Settle(read, m, {t}) /\ {t} \in SUBSET Threads /\ FALSE \in BOOLEAN
  BY <1>1 DEF WriteTerminal
<1>6. db.runs[t][i].started /\ (x.aborted => db.runs[t][i].halted)
  BY <1>2, <1>3 DEF Answers, RunsCarried, RunCarried
<1>7. /\ run \in Run /\ run.status = status /\ status \in Terminal /\ run.item = db.runs[t][i].item
      /\ run.rows = db.runs[t][i].rows /\ run.halted = db.runs[t][i].halted /\ run.started = db.runs[t][i].started
  BY <1>4 DEF Run, Statuses, Terminal
<1>8. \A k \in shown : OnItsWay(db.inbox[k])
  BY <1>2, ShownFacts
<1>9. \A k \in DOMAIN db.inbox : db.inbox[k] \in Row /\ RowLinked(db, db.inbox[k])
  BY <1>2, Parts DEF Typed
<1>10. ASSUME NEW k \in DOMAIN db.inbox
       PROVE  /\ box[k] \in Row
              /\ box[k].status = db.inbox[k].status /\ box[k].by = db.inbox[k].by /\ box[k].held = db.inbox[k].held
              /\ box[k].to = db.inbox[k].to /\ box[k].task = db.inbox[k].task
              /\ box[k].gaveUp = db.inbox[k].gaveUp /\ box[k].waived = db.inbox[k].waived
              /\ k \notin shown => box[k] = db.inbox[k]
              /\ box[k].reads = db.inbox[k].reads \/ (k \in shown /\ box[k].reads = db.inbox[k].reads \cup {i})
  <2>1. db.inbox[k] \in Row /\ db.inbox[k].reads \cup {i} \in SUBSET Nat
    BY <1>3, <1>9, <1>10 DEF Row
  <2>2. CASE status = "completed" /\ k \in shown
    <3>1. box[k] = [db.inbox[k] EXCEPT !.reads = db.inbox[k].reads \cup {i}]
      BY <2>2
    <3> HIDE DEF box
    <3> QED
      BY <2>1, <2>2, <3>1 DEF Row
  <2>3. CASE ~(status = "completed" /\ k \in shown)
    <3>1. box[k] = db.inbox[k]
      BY <2>3
    <3> HIDE DEF box
    <3> QED
      BY <2>1, <3>1 DEF Row
  <2> QED
    BY <2>2, <2>3
<1>11. seen.inbox = box /\ seen.runs = db.runs /\ seen.steers = db.steers /\ seen.tasks = db.tasks
  BY <1>2 DEF Typed, DB
<1>12. RewriteOf(db, seen, shown)
  <2>1. box = [k \in DOMAIN db.inbox |-> box[k]]
    OBVIOUS
  <2> HIDE DEF box
  <2>2. box \in [DOMAIN db.inbox -> Row]
    BY <1>10, <2>1
  <2> HIDE DEF shown
  <2> QED
    BY <1>2, <1>9, <1>10, <2>2, Rewritten DEF RowLinked
<1> HIDE DEF box
<1>13. RunsOf(seen, ended, t, runs)
  <2>1. ended = [seen EXCEPT !.runs[t][i] = run]
    BY <1>11
  <2>2. run.item = seen.runs[t][i].item /\ run.rows \subseteq Rows(seen, t)
    BY <1>4, <1>7, <1>11, <1>12 DEF RewriteOf
  <2> HIDE DEF run, seen, ended, i, x
  <2> QED
    BY <1>3, <1>7, <1>11, <1>12, <2>1, <2>2, RunChanged DEF RewriteOf
<1>14. DOMAIN runs = DOMAIN db.runs[t] /\ runs[i] = run /\ \A n \in DOMAIN runs \ {i} : runs[n] = db.runs[t][n]
  BY <1>3
<1> HIDE DEF ended, seen, run, runs
<1>15. /\ Typed(ended) /\ ended.inbox = box /\ ended.steers = db.steers /\ ended.tasks = db.tasks
       /\ DOMAIN ended.inbox = DOMAIN db.inbox /\ ended.runs[t] = runs
       /\ \A u \in Threads \ {t} : ended.runs[u] = db.runs[u]
  BY <1>11, <1>12, <1>13 DEF RunsOf, RewriteOf
<1>16. Final(ended)
  <2>1. ASSUME NEW k \in DOMAIN db.inbox PROVE RowAges(db.inbox[k], ended.inbox[k])
    BY <1>8, <1>10, <1>15 DEF RowAges, OnItsWay
  <2>2. Ages(db, ended)
    BY <1>15, <2>1 DEF Ages, TaskAges
  <2> QED
    BY <1>2, <1>15, <2>2, AgesFinal DEF Answers
<1>17. ASSUME NEW k \in DOMAIN db.inbox PROVE RowCarried(ended.runs[ended.inbox[k].to], db.steers[ended.inbox[k].to], ended.inbox[k])
  <2> DEFINE row == db.inbox[k]
             s == ended.inbox[k]
             u == row.to
  <2>1. /\ u \in Threads
        /\ row.by.kind = "start" => row.by.n \in DOMAIN db.runs[u]
        /\ row.by.kind \in {"steer", "item"} => row.by.n \in DOMAIN db.steers[u]
        /\ \A j \in DOMAIN db.steers[u] : db.steers[u][j].run \in DOMAIN db.runs[u]
    BY <1>2, <1>17, LinkedRow
  <2>2. RowCarried(db.runs[u], db.steers[u], row)
    BY <1>2, <1>17 DEF Answers, RowsCarried
  <2>3. /\ s.to = u /\ s.status = row.status /\ s.by = row.by /\ s.held = row.held
        /\ s.reads = row.reads \/ (u = t /\ s.reads = row.reads \cup {i})
    BY <1>3, <1>10, <1>15, <1>17 DEF Rows
  <2> HIDE DEF u, row, s, i
  <2>4. CASE u # t
    <3>1. ended.runs[u] = db.runs[u] /\ s.reads = row.reads
      BY <1>15, <2>1, <2>3, <2>4
    <3>2. RowCarried(db.runs[u], db.steers[u], s)
      BY <2>2, <2>3, <3>1 DEF RowCarried
    <3> QED
      BY <2>3, <3>1, <3>2 DEF s
  <2>5. CASE u = t
    <3>1. /\ \A n \in DOMAIN runs : runs[n].halted = db.runs[t][n].halted /\ runs[n].item = db.runs[t][n].item
          /\ \A n \in DOMAIN runs : db.runs[t][n].status \in Terminal => runs[n].status \in Terminal
          /\ \A n \in DOMAIN runs : runs[n].started = db.runs[t][n].started
          /\ runs[i].status \in Terminal /\ runs[i].started
      BY <1>6, <1>7, <1>14 DEF i
    <3>2. RowCarried(runs, db.steers[t], row)
      <4>1. /\ RowCarried(db.runs[t], db.steers[t], row)
            /\ row.by.kind = "start" => row.by.n \in DOMAIN db.runs[t]
            /\ row.by.kind \in {"steer", "item"} => row.by.n \in DOMAIN db.steers[t]
            /\ \A j \in DOMAIN db.steers[t] : db.steers[t][j].run \in DOMAIN db.runs[t]
        BY <2>1, <2>2, <2>5
      <4> QED
        BY <1>14, <3>1, <4>1, RowOverEnded
    <3>3. i \in DOMAIN runs
      BY <1>3, <1>14 DEF i
    <3>4. RowCarried(runs, db.steers[t], s)
      BY <2>3, <3>1, <3>2, <3>3 DEF RowCarried
    <3> QED
      BY <1>15, <2>3, <2>5, <3>4 DEF s
  <2> QED
    BY <2>4, <2>5
<1>18. ASSUME NEW u \in Threads, NEW n \in DOMAIN ended.runs[u] PROVE RunCarried(ended.runs[u][n], n, turn[u])
  <2>1. CASE u # t
    BY <1>2, <1>15, <1>18, <2>1 DEF Answers, RunsCarried
  <2>2. CASE u = t /\ n = i
    BY <1>1, <1>6, <1>7, <1>14, <1>15, <2>2 DEF RunCarried
  <2>3. CASE u = t /\ n # i
    BY <1>2, <1>14, <1>15, <1>18, <2>3 DEF Answers, RunsCarried
  <2> QED
    BY <2>1, <2>2, <2>3
<1>19. Answers(ended, turn)
  BY <1>15, <1>16, <1>17, <1>18 DEF Answers, RowsCarried, RunsCarried
<1>20. Answers(read, turn)
  BY <1>5, <1>19, AcknowledgeAnswers
<1> HIDE DEF read, m
<1> QED
  BY <1>1, <1>5, <1>20, AnswersNext

\* What a turn never read goes to queue items that have no run yet, or is pending again.
LEMMA UnreadAnswers ==
  ASSUME NEW d, NEW tn, Answers(d, tn), NEW t \in Threads, NEW items, NEW x, TurnLinked(d, t, x), Apart(d, t, items, x),
         NEW S \in SUBSET x.unread, NEW saved \in BOOLEAN,
         LET own == OfSteers(d, t, S)
         IN RewriteOf(d, IF saved THEN ToItems(d, own) ELSE Release(d, own), own)
  PROVE  LET own == OfSteers(d, t, S)
         IN Answers(IF saved THEN ToItems(d, own) ELSE Release(d, own), tn)
<1> DEFINE own == OfSteers(d, t, S)
           e == ToItems(d, own)
<1>1. S \in SUBSET DOMAIN d.steers[t] /\ Typed(d)
  BY DEF TurnLinked, Answers
<1>2. /\ own \in SUBSET Rows(d, t)
      /\ \A k \in own : d.inbox[k].status = "delivered" /\ \E j \in S : d.inbox[k].by = SteerOf(j)
  BY <1>1, OfSteersHeld
<1>3. \A j \in S : \A i \in DOMAIN d.runs[t] : d.runs[t][i].item # j
  BY DEF Apart, TurnApart
<1>4. RewriteOf(d, IF saved THEN ToItems(d, own) ELSE Release(d, own), own)
  OBVIOUS
<1> HIDE DEF own
<1>5. CASE ~saved
  <2>1. Answers(Release(d, own), tn)
    BY <1>2, ReleaseAnswers
  <2> QED
    BY <1>5, <2>1 DEF own
<1>6. CASE saved
  <2>1. RewriteOf(d, e, own)
    BY <1>4, <1>6
  <2>2. ASSUME NEW k \in own
        PROVE  /\ d.inbox[k].status = "delivered" /\ SameNotice(d.inbox[k], e.inbox[k])
               /\ RowCarried(d.runs[d.inbox[k].to], e.steers[d.inbox[k].to], e.inbox[k])
    <3>1. k \in DOMAIN d.inbox /\ d.inbox[k].to = t /\ d.inbox[k].status = "delivered"
      BY <1>2, <2>2 DEF Rows
    <3>2. PICK j \in S : d.inbox[k].by = SteerOf(j)
      BY <1>2, <2>2
    <3>3. SteerOf(j).n = j /\ ItemOf(j).kind = "item" /\ ItemOf(j).n = j
      BY DEF SteerOf, ItemOf
    <3>4. SameNotice(d.inbox[k], e.inbox[k]) /\ e.inbox[k].by = ItemOf(d.inbox[k].by.n)
      BY <1>1, <2>2, <3>1, CarriersChange
    <3> HIDE DEF e
    <3>5. e.inbox[k].by.kind = "item" /\ e.inbox[k].by.n = j
      BY <3>2, <3>3, <3>4
    <3>6. RowCarried(d.runs[t], d.steers[t], d.inbox[k])
      BY <3>1 DEF Answers, RowsCarried
    <3>7. RowCarried(d.runs[t], e.steers[t], e.inbox[k])
      BY <1>3, <3>4, <3>5, <3>6 DEF SameNotice, RowCarried
    <3> QED
      BY <3>1, <3>4, <3>7
  <2> HIDE DEF e
  <2>3. /\ Typed(e) /\ e.runs = d.runs /\ e.tasks = d.tasks /\ e.steers = d.steers
        /\ DOMAIN e.inbox = DOMAIN d.inbox /\ \A k \in DOMAIN d.inbox \ own : e.inbox[k] = d.inbox[k]
    BY <2>1 DEF RewriteOf
  <2>4. \A k \in DOMAIN d.inbox \ own :
            d.inbox[k].status = "delivered" /\ d.inbox[k].by.kind = "steer" =>
              SteerCalm(d.steers[d.inbox[k].to][d.inbox[k].by.n], e.steers[d.inbox[k].to][d.inbox[k].by.n])
    BY <2>3 DEF SteerCalm
  <2>5. Answers(e, tn)
    BY <2>2, <2>3, <2>4, HandedAnswers
  <2> QED
    BY <1>6, <2>5 DEF e, own
<1> QED
  BY <1>5, <1>6

\* A turn is over once its run is: no run of the thread is active any more.
LEMMA TurnOverAnswers ==
  ASSUME NEW d, NEW tn, Answers(d, tn), NEW t \in Threads, NEW i \in DOMAIN d.runs[t],
         d.runs[t][i].status # "active", tn[t].run = i, NEW tn2, \A u \in Threads \ {t} : tn2[u] = tn[u]
  PROVE  Answers(d, tn2)
<1>1. ASSUME NEW u \in Threads, NEW n \in DOMAIN d.runs[u] PROVE RunCarried(d.runs[u][n], n, tn2[u])
  <2>1. RunCarried(d.runs[u][n], n, tn[u])
    BY <1>1 DEF Answers, RunsCarried
  <2>2. CASE u # t
    BY <2>1, <2>2
  <2>3. CASE u = t
    BY <2>1, <2>3 DEF RunCarried
  <2> QED
    BY <2>2, <2>3
<1> QED
  BY <1>1 DEF Answers, RunsCarried

\* A turn settles, and its unread notices go on to whatever delivers them next.
LEMMA SettleTurnAnswers ==
  ASSUME Inv, ReadInv, AnswerInv, NEW t \in Threads, NEW saved \in BOOLEAN, SettleTurn(t, saved)
  PROVE  AnswerInv'
<1> DEFINE i == turn[t].run
           had == UnreadSteers(turn, t)
           carried == IF had THEN turn[t].unread ELSE {}
           plain == had /\ turn[t].plain
           quiet == [turn EXCEPT ![t] = NoTurn]
           own == OfSteers(db, t, carried)
           moved == IF saved THEN ToItems(db, own) ELSE Release(db, own)
           follow == [NewRun("followup", {}, 0) EXCEPT !.status = IF saved THEN "queued" ELSE "cancelled"]
           followed == IF plain THEN [moved EXCEPT !.runs[t] = Append(@, follow)] ELSE moved
           ended == [followed EXCEPT !.runs[t][i].start = IF @ = "running" THEN "succeeded" ELSE @]
<1>1. /\ i # 0 /\ db.runs[t][i].status \in Terminal
      /\ turn' = quiet /\ db' = Settle(ended, Memory(quiet, background), {t})
  BY DEF SettleTurn
<1>2. /\ Typed(db) /\ TurnLinked(db, t, turn[t]) /\ Apart(db, t, queue[t], turn[t])
      /\ \A n \in DOMAIN queue[t] : ItemLinked(db, t, queue[t][n])
      /\ turn \in [Threads -> Turn] /\ DOMAIN db.runs[t] = 1 .. Len(db.runs[t]) /\ Len(db.runs[t]) \in Nat
      /\ Answers(db, turn)
  BY ThreadParts, AnswersNow
<1>3. carried \in SUBSET turn[t].unread
  OBVIOUS
<1> HIDE DEF carried, plain
<1>4. RewriteOf(db, moved, own)
  BY <1>2, <1>3, UnreadMoved
<1>5. Answers(moved, turn)
  BY <1>2, <1>3, <1>4, UnreadAnswers
<1> HIDE DEF own, moved
<1>6. i \in DOMAIN db.runs[t] /\ moved.runs = db.runs /\ Typed(moved)
  <2> HIDE DEF had, quiet, follow, followed, ended
  <2>1. i \in DOMAIN db.runs[t]
    BY <1>1, <1>2 DEF TurnLinked
  <2> QED
    BY <1>4, <2>1 DEF RewriteOf
<1>7. /\ Answers(followed, turn) /\ i \in DOMAIN followed.runs[t] /\ followed.runs[t][i] = db.runs[t][i]
  <2>1. CASE ~plain
    BY <1>5, <1>6, <2>1
  <2>2. CASE plain
    <3>1. follow \in Run /\ follow.rows = {} /\ FreshRun(follow)
      <4>1. NewRun("followup", {}, 0) \in Run /\ NewRun("followup", {}, 0).rows = {} /\ ~NewRun("followup", {}, 0).halted
        BY NewRunType DEF NewRun
      <4> QED
        BY <4>1 DEF Run, Statuses, Terminal, FreshRun
    <3> HIDE DEF follow
    <3> DEFINE more == Append(moved.runs[t], follow)
               f == [moved EXCEPT !.runs[t] = Append(@, follow)]
    <3>2. RunsOf(moved, f, t, more) /\ OneMore(moved, f, t, follow)
      <4>1. follow.rows \subseteq Rows(moved, t)
        BY <3>1
      <4> HIDE DEF followed
      <4> QED
        BY <1>6, <3>1, <4>1, OneRunAdded
    <3>3. followed = f
      BY <2>2
    <3> HIDE DEF more, followed, f, i
    <3>4. RunsCalm(moved.runs[t], more)
      <4>1. f.runs[t] = more
        BY <3>2 DEF RunsOf
      <4>2. /\ DOMAIN more = DOMAIN moved.runs[t] \cup {Len(moved.runs[t]) + 1} /\ more[Len(moved.runs[t]) + 1] = follow
            /\ \A m \in DOMAIN moved.runs[t] : more[m] = moved.runs[t][m]
        BY <3>2, <4>1 DEF OneMore
      <4> QED
        BY <3>1, <4>2, FreshAdded
    <3>5. Answers(f, turn)
      BY <1>5, <3>2, <3>4, RunsOfAnswers
    <3>6. i \in DOMAIN f.runs[t] /\ f.runs[t][i] = db.runs[t][i]
      BY <1>6, <3>2 DEF OneMore
    <3> QED
      BY <3>3, <3>5, <3>6
  <2> QED
    BY <2>1, <2>2
<1> HIDE DEF followed
<1> DEFINE run == [followed.runs[t][i] EXCEPT !.start = IF @ = "running" THEN "succeeded" ELSE @]
           runs == [followed.runs[t] EXCEPT ![i] = run]
<1>8. Typed(followed) /\ followed.runs[t][i] \in Run /\ followed.runs[t][i].rows \subseteq Rows(followed, t)
  BY <1>7, Parts DEF Typed, RunLinked, Answers
<1>9. /\ run \in Run /\ run.item = followed.runs[t][i].item /\ run.rows = followed.runs[t][i].rows
      /\ run.status = followed.runs[t][i].status /\ RunCalm(followed.runs[t][i], run)
  BY <1>8 DEF Run, InFlight, RunCalm
<1>10. ended = [followed EXCEPT !.runs[t][i] = run]
  BY <1>8 DEF Typed, DB
<1> HIDE DEF run
<1>11. RunsOf(followed, ended, t, runs)
  BY <1>7, <1>8, <1>9, <1>10, RunChanged
<1>12. RunsCalm(followed.runs[t], runs)
  BY <1>7, <1>9, OneRunCalm
<1>13. i \in DOMAIN runs /\ runs[i] = run
  BY <1>7
<1> HIDE DEF runs, ended
<1>14. Answers(ended, turn)
  BY <1>7, <1>11, <1>12, RunsOfAnswers
<1>15. i \in DOMAIN ended.runs[t] /\ ended.runs[t][i].status # "active"
  BY <1>1, <1>7, <1>9, <1>11, <1>13 DEF RunsOf, Terminal
<1>16. \A u \in Threads \ {t} : quiet[u] = turn[u]
  BY <1>2
<1> HIDE DEF quiet
<1>17. Answers(ended, turn')
  BY <1>1, <1>14, <1>15, <1>16, TurnOverAnswers
<1>18. {t} \in SUBSET Threads
  OBVIOUS
<1> QED
  BY <1>1, <1>17, <1>18, AnswersNext

-----------------------------------------------------------------------------
(* The queue of a thread, and task_status.                                   *)

\* A drain drops an item, gives its run the notices to show, or makes a run nobody has told to stop.
LEMMA DrainAnswers ==
  ASSUME Inv, ReadInv, AnswerInv, NEW t \in Threads, Drain(t)
  PROVE  AnswerInv'
<1>0. queue[t] # <<>>
  BY DEF Drain
<1> DEFINE items == queue[t]
           item == Head(items)
           own == IF item.steer = 0 THEN {} ELSE Own(db, db.steers[t][item.steer].rows, ItemOf(item.steer))
           i == RunOfItem(t, item)
           run == [db.runs[t][i] EXCEPT !.rows = own]
           late == NewRun("late", own, item.steer)
           shown == [db EXCEPT !.runs[t][i] = run]
           made == [db EXCEPT !.runs[t] = Append(@, late)]
<1>1. /\ turn' = turn
      /\ db' = db \/ db' = IF i \in DOMAIN db.runs[t] THEN [db EXCEPT !.runs[t][i].rows = own] ELSE made
  BY DEF Drain
<1>2. /\ Typed(db) /\ items \in Seq(Item) /\ \A n \in DOMAIN items : items[n] \in Item /\ ItemLinked(db, t, items[n])
      /\ \A n \in DOMAIN db.runs[t] : db.runs[t][n] \in Run
      /\ \A j \in DOMAIN db.steers[t] : db.steers[t][j].rows \in SUBSET Rows(db, t)
      /\ DOMAIN db.inbox \subseteq Nat /\ Answers(db, turn)
  BY ThreadParts, AnswersNow
<1>3. item = items[1] /\ 1 \in DOMAIN items
  BY <1>0, <1>2, LenProperties, EmptySeq
<1> HIDE DEF items
<1>4. item \in Item /\ ItemLinked(db, t, item)
  <2> HIDE DEF item
  <2> QED
    BY <1>2, <1>3
<1>5. own \in SUBSET Rows(db, t) /\ own \in SUBSET Nat
  <2>1. item.steer # 0 => item.steer \in DOMAIN db.steers[t]
    BY <1>4 DEF ItemLinked
  <2> HIDE DEF item
  <2> QED
    BY <1>2, <2>1 DEF Own, Rows
<1>6. item.steer \in Nat
  BY <1>4 DEF Item
<1> HIDE DEF own, i, item
<1>7. CASE db' = db
  BY <1>1, <1>2, <1>7 DEF Answers, AnswerInv
<1>8. CASE i \in DOMAIN db.runs[t] /\ db' = [db EXCEPT !.runs[t][i].rows = own]
  <2> DEFINE runs == [db.runs[t] EXCEPT ![i] = run]
  <2>1. db.runs[t][i] \in Run
    BY <1>2, <1>8
  <2>2. /\ run \in Run /\ run.item = db.runs[t][i].item /\ run.rows = own /\ RunCalm(db.runs[t][i], run)
    BY <1>5, <2>1 DEF Run, RunCalm
  <2>3. db' = shown
    BY <1>2, <1>8 DEF Typed, DB
  <2> HIDE DEF run
  <2>4. RunsOf(db, shown, t, runs)
    BY <1>2, <1>5, <1>8, <2>2, RunChanged
  <2>5. RunsCalm(db.runs[t], runs)
    BY <1>8, <2>2, OneRunCalm
  <2> HIDE DEF runs, shown
  <2>6. Answers(shown, turn)
    BY <1>2, <2>4, <2>5, RunsOfAnswers
  <2> QED
    BY <1>1, <2>3, <2>6 DEF Answers, AnswerInv
<1>9. CASE db' = made
  <2> DEFINE more == Append(db.runs[t], late)
  <2>1. late \in Run /\ late.rows = own /\ FreshRun(late)
    BY <1>5, <1>6, NewRunType DEF NewRun, FreshRun
  <2> HIDE DEF late
  <2>2. RunsOf(db, made, t, more) /\ OneMore(db, made, t, late)
    BY <1>2, <1>5, <2>1, OneRunAdded
  <2> HIDE DEF more, made
  <2>3. RunsCalm(db.runs[t], more)
    <3>1. made.runs[t] = more
      BY <2>2 DEF RunsOf
    <3>2. /\ DOMAIN more = DOMAIN db.runs[t] \cup {Len(db.runs[t]) + 1} /\ more[Len(db.runs[t]) + 1] = late
          /\ \A m \in DOMAIN db.runs[t] : more[m] = db.runs[t][m]
      BY <2>2, <3>1 DEF OneMore
    <3> QED
      BY <2>1, <3>2, FreshAdded
  <2>4. Answers(made, turn)
    BY <1>2, <2>2, <2>3, RunsOfAnswers
  <2> QED
    BY <1>1, <1>9, <2>4 DEF Answers, AnswerInv
<1> QED
  BY <1>1, <1>7, <1>8, <1>9

\* The notices of an item go to the turn.start of its run, which nobody has told to stop.
LEMMA StartItemAnswers ==
  ASSUME Inv, ReadInv, AnswerInv, NEW t \in Threads, StartItem(t)
  PROVE  AnswerInv'
<1> DEFINE items == queue[t]
           item == Head(items)
           i == RunOfItem(t, item)
           queued == db.runs[t][i].status = "queued"
           started == IF queued THEN [db EXCEPT !.runs[t] = Enqueue(@, i)]
                      ELSE [db EXCEPT !.runs[t][i].start = "succeeded"]
           own == Own(db, db.runs[t][i].rows, ItemOf(item.steer))
           e == IF item.steer = 0 THEN started ELSE ToStart(started, own, i)
           memory == Memory(turn, background)
<1>1. /\ items # <<>> /\ item.claimed /\ turn' = turn /\ db' = Settle(e, memory, {t})
      /\ {t} \in SUBSET Threads
  BY DEF StartItem
<1>2. /\ Typed(db) /\ items \in Seq(Item) /\ \A n \in DOMAIN items : items[n] \in Item /\ ItemLinked(db, t, items[n])
      /\ \A n \in DOMAIN db.runs[t] : db.runs[t][n] \in Run /\ db.runs[t][n].rows \subseteq Rows(db, t)
      /\ db.runs[t] \in Seq(Run) /\ Answers(db, turn)
  BY ThreadParts, AnswersNow
<1> HIDE DEF items
<1>3. item = items[1] /\ 1 \in DOMAIN items
  BY <1>1, <1>2, LenProperties, EmptySeq
<1>4. item \in Item /\ ItemLinked(db, t, item)
  <2> HIDE DEF item
  <2> QED
    BY <1>2, <1>3
<1>5. /\ i \in Nat /\ i \in DOMAIN db.runs[t] /\ (item.steer # 0 => db.runs[t][i].item = item.steer)
  BY <1>1, <1>2, <1>4, RunOfItemFacts
<1> HIDE DEF i, item
<1>6. db.runs[t][i] \in Run
  BY <1>2, <1>5
<1>7. \E run \in Run : /\ RunCalm(db.runs[t][i], run) /\ run.rows = db.runs[t][i].rows
                       /\ started = [db EXCEPT !.runs[t][i] = run]
  <2>1. CASE queued
    <3>1. PICK at \in Nat : Enqueue(db.runs[t], i) = [db.runs[t] EXCEPT ![i] = [db.runs[t][i] EXCEPT !.start = "pending", !.at = at]]
      <4>1. db.runs[t] \in Seq(Run) /\ i \in DOMAIN db.runs[t]
        BY <1>2, <1>5
      <4> QED
        BY <4>1, Enqueued
    <3> DEFINE run == [db.runs[t][i] EXCEPT !.start = "pending", !.at = at]
    <3>2. run \in Run /\ RunCalm(db.runs[t][i], run) /\ run.rows = db.runs[t][i].rows
      BY <1>6 DEF Run, InFlight, RunCalm
    <3>3. started = [db EXCEPT !.runs[t][i] = run]
      BY <2>1, <3>1
    <3> QED
      BY <3>2, <3>3
  <2>2. CASE ~queued
    <3> DEFINE run == [db.runs[t][i] EXCEPT !.start = "succeeded"]
    <3>1. run \in Run /\ RunCalm(db.runs[t][i], run) /\ run.rows = db.runs[t][i].rows
      BY <1>6 DEF Run, InFlight, RunCalm
    <3>2. started = [db EXCEPT !.runs[t][i] = run]
      BY <1>2, <1>5, <2>2 DEF Typed, DB
    <3> QED
      BY <3>1, <3>2
  <2> QED
    BY <2>1, <2>2
<1>8. PICK run \in Run : /\ RunCalm(db.runs[t][i], run) /\ run.rows = db.runs[t][i].rows
                         /\ started = [db EXCEPT !.runs[t][i] = run]
  BY <1>7
<1> HIDE DEF started
<1> DEFINE runs == [db.runs[t] EXCEPT ![i] = run]
<1>9. RunsOf(db, started, t, runs)
  <2>1. run.item = db.runs[t][i].item /\ run.rows \subseteq Rows(db, t)
    BY <1>2, <1>5, <1>8 DEF RunCalm
  <2> QED
    BY <1>2, <1>5, <1>8, <2>1, RunChanged
<1>10. RunsCalm(db.runs[t], runs) /\ runs[i] = run
  BY <1>5, <1>8, OneRunCalm
<1> HIDE DEF runs
<1>11. Answers(started, turn)
  BY <1>2, <1>9, <1>10, RunsOfAnswers
<1>12. /\ Typed(started) /\ started.inbox = db.inbox /\ started.runs[t] = runs
       /\ i \in DOMAIN started.runs[t] /\ started.runs[t][i].item = db.runs[t][i].item
  BY <1>5, <1>8, <1>9, <1>10 DEF RunsOf, RunCalm, RunsCalm
<1>13. CASE item.steer = 0
  BY <1>1, <1>11, <1>13, AnswersNext
<1>14. CASE item.steer # 0
  <2>1. e = ToStart(started, own, i)
    BY <1>14
  <2>2. \A k \in own : /\ k \in DOMAIN db.inbox /\ db.inbox[k].to = t /\ db.inbox[k].status = "delivered"
                       /\ db.inbox[k].by = ItemOf(item.steer)
    BY <1>2, <1>5 DEF Own, Rows
  <2> HIDE DEF own, e
  <2>3. RewriteOf(started, e, own)
    BY <1>5, <1>12, <2>1, <2>2, ToStartRewrites
  <2>4. ASSUME NEW k \in own
        PROVE  /\ started.inbox[k].status = "delivered" /\ SameNotice(started.inbox[k], e.inbox[k])
               /\ RowCarried(started.runs[started.inbox[k].to], e.steers[started.inbox[k].to], e.inbox[k])
    <3>1. k \in DOMAIN started.inbox /\ started.inbox[k].to = t /\ started.inbox[k].status = "delivered"
          /\ started.inbox[k].by = ItemOf(item.steer)
      BY <1>12, <2>2, <2>4
    <3>2. RowCarried(started.runs[t], started.steers[t], started.inbox[k])
      BY <1>11, <3>1 DEF Answers, RowsCarried
    <3>3. ItemOf(item.steer).kind = "item" /\ ItemOf(item.steer).n = item.steer
      BY DEF ItemOf
    <3>4. ~started.runs[t][i].halted
      <4>1. started.inbox[k].by.kind = "item" /\ started.inbox[k].by.n = item.steer
        BY <3>1, <3>3
      <4>2. \A n \in DOMAIN started.runs[t] : started.runs[t][n].item = item.steer => ~started.runs[t][n].halted
        BY <3>1, <3>2, <4>1 DEF RowCarried
      <4>3. i \in DOMAIN started.runs[t] /\ started.runs[t][i].item = item.steer
        BY <1>5, <1>12, <1>14
      <4> QED
        BY <4>2, <4>3
    <3>5. SameNotice(started.inbox[k], e.inbox[k]) /\ e.inbox[k].by = StartOf(i)
      <4>1. /\ SameNotice(started.inbox[k], ToStart(started, own, i).inbox[k])
            /\ ToStart(started, own, i).inbox[k].by = StartOf(i)
        <5>1. Typed(started) /\ k \in DOMAIN started.inbox /\ k \in own
          BY <1>12, <2>4, <3>1
        <5>2. LET s == ToStart(started, own, i).inbox[k]
              IN SameNotice(started.inbox[k], s) /\ s.status = started.inbox[k].status /\ s.by = StartOf(i)
          BY <5>1, ToStartRow
        <5> QED
          BY <5>2, Zenon
      <4> QED
        BY <2>1, <4>1
    <3>6. StartOf(i).kind = "start" /\ StartOf(i).n = i
      BY DEF StartOf
    <3>7. RowCarried(started.runs[t], e.steers[t], e.inbox[k])
      BY <3>2, <3>4, <3>5, <3>6 DEF SameNotice, RowCarried
    <3> QED
      BY <3>1, <3>5, <3>7
  <2>5. /\ Typed(e) /\ e.runs = started.runs /\ e.tasks = started.tasks /\ e.steers = started.steers
        /\ DOMAIN e.inbox = DOMAIN started.inbox
        /\ \A k \in DOMAIN started.inbox \ own : e.inbox[k] = started.inbox[k]
    BY <2>3 DEF RewriteOf
  <2>6. \A k \in DOMAIN started.inbox \ own :
            started.inbox[k].status = "delivered" /\ started.inbox[k].by.kind = "steer" =>
              SteerCalm(started.steers[started.inbox[k].to][started.inbox[k].by.n],
                        e.steers[started.inbox[k].to][started.inbox[k].by.n])
    BY <2>5 DEF SteerCalm
  <2>7. Answers(e, turn)
    BY <1>11, <2>4, <2>5, <2>6, HandedAnswers
  <2> QED
    BY <1>1, <2>7, AnswersNext
<1> QED
  BY <1>13, <1>14

\* A task whose status the parent's turn reads is acknowledged, with its notices.
LEMMA TaskStatusAnswers ==
  ASSUME Inv, AnswerInv, NEW k \in DOMAIN db.tasks, TaskStatus(k)
  PROVE  AnswerInv'
<1> DEFINE p == Parent[db.tasks[k].child]
           task == [db.tasks[k] EXCEPT !.status = "acknowledged"]
           read == [db EXCEPT !.tasks[k].status = "acknowledged"]
           rows == {r \in Rows(db, p) : db.inbox[r].task = k}
           acked == Acknowledge(read, rows, TRUE)
           m == Memory(turn, background)
<1>1. /\ turn' = turn /\ db.tasks[k].status = "published" /\ TRUE \in BOOLEAN
      /\ db' = CancelAcknowledgedWakes(acked, m, {p})
  BY DEF TaskStatus
<1>2. Answers(db, turn) /\ Typed(db)
  BY AnswersNow DEF Answers
<1>3. {p} \in SUBSET Threads /\ db.tasks[k] \in Task /\ db.tasks \in Seq(Task)
  BY <1>2, Parts DEF Typed, TaskLinked
<1>4. Typed(read)
  BY <1>1, <1>2, TaskChanged
<1>5. /\ read.runs = db.runs /\ read.steers = db.steers /\ read.inbox = db.inbox
      /\ read.tasks = [db.tasks EXCEPT ![k] = task]
  BY <1>2 DEF Typed, DB
<1>6. TaskAges(db.tasks[k], task)
  BY <1>3 DEF Task, TaskAges
<1> HIDE DEF read, rows, p, task
<1>7. /\ DOMAIN read.tasks = DOMAIN db.tasks
      /\ \A n \in DOMAIN db.tasks : TaskAges(db.tasks[n], read.tasks[n])
  BY <1>5, <1>6 DEF TaskAges
<1>8. Ages(db, read)
  BY <1>5, <1>7, RowCalmItself DEF Ages
<1>9. Calm(db, read)
  BY <1>5, RunsCalmItself, SteersCalmItself, RowCalmItself DEF Calm
<1>10. Answers(read, turn)
  BY <1>2, <1>4, <1>8, <1>9, CalmAnswers
<1>11. Answers(acked, turn)
  BY <1>1, <1>10, AcknowledgeAnswers
<1> HIDE DEF acked, m
<1>12. Answers(db', turn)
  BY <1>1, <1>3, <1>11, CancelWakesAnswers
<1> QED
  BY <1>1, <1>12 DEF Answers, AnswerInv

-----------------------------------------------------------------------------
(* A Stop.                                                                   *)

\* A Stop ends the tasks into the subtree, and tells its owner.
LEMMA StopToldAnswers ==
  ASSUME NEW d, NEW tn, Answers(d, tn), NEW t \in Threads
  PROVE  Answers(StopTold(d, t), tn)
<1> DEFINE told == StopTold(d, t)
           below == Subtree(t)
           stopped == {k \in DOMAIN d.tasks : d.tasks[k].child \in below /\ d.tasks[k].status = "running"}
           owed == {k \in stopped : Parent[d.tasks[k].child] \notin below}
           over(k) == [d.tasks[k] EXCEPT !.status = "cancelled"]
           tasks == [k \in DOMAIN d.tasks |-> IF k \in stopped THEN over(k) ELSE d.tasks[k]]
           notices == [n \in 1 .. Cardinality(owed) |-> NewRow(Parent[t], 0)]
<1>1. /\ Typed(told) /\ told.runs = d.runs /\ told.steers = d.steers
      /\ DOMAIN d.inbox \subseteq DOMAIN told.inbox
      /\ \A r \in DOMAIN d.inbox : told.inbox[r] = d.inbox[r]
      /\ \A r \in DOMAIN told.inbox \ DOMAIN d.inbox : told.inbox[r] = NewRow(Parent[t], 0)
  BY StopToldFacts DEF Answers
<1>2. told = [d EXCEPT !.inbox = @ \o notices, !.tasks = tasks]
  BY DEF StopTold
<1> HIDE DEF notices, tasks
<1>3. told.tasks = tasks
  BY <1>2 DEF Answers, Typed, DB
<1> HIDE DEF told
<1>4. \A k \in DOMAIN d.tasks : TaskAges(d.tasks[k], tasks[k]) /\ DOMAIN tasks = DOMAIN d.tasks
  <2> SUFFICES ASSUME NEW k \in DOMAIN d.tasks PROVE TaskAges(d.tasks[k], tasks[k]) /\ DOMAIN tasks = DOMAIN d.tasks
    OBVIOUS
  <2>1. d.tasks[k] \in Task
    BY Parts DEF Answers, Typed
  <2>2. TaskAges(d.tasks[k], d.tasks[k]) /\ (d.tasks[k].status = "running" => TaskAges(d.tasks[k], over(k)))
    BY <2>1 DEF Task, TaskAges
  <2>3. /\ tasks[k] = IF k \in stopped THEN over(k) ELSE d.tasks[k]
        /\ DOMAIN tasks = DOMAIN d.tasks
    BY DEF tasks
  <2>4. k \in stopped => d.tasks[k].status = "running"
    OBVIOUS
  <2> HIDE DEF stopped, over
  <2> QED
    BY <2>2, <2>3, <2>4
<1>5. DOMAIN tasks = DOMAIN d.tasks
  BY DEF tasks
<1>6. /\ NewRow(Parent[t], 0).task = 0 /\ NewRow(Parent[t], 0).status = "pending"
      /\ NewRow(Parent[t], 0).reads = {}
  BY DEF NewRow
<1>7. Ages(d, told)
  <2>1. \A k \in DOMAIN d.inbox : RowAges(d.inbox[k], told.inbox[k])
    BY <1>1, RowCalmItself
  <2> QED
    BY <1>1, <1>3, <1>4, <1>5, <1>6, <2>1 DEF Ages
<1>8. Calm(d, told)
  <2>1. \A k \in DOMAIN d.inbox : RowCalm(d.inbox[k], told.inbox[k])
    BY <1>1, RowCalmItself
  <2> QED
    BY <1>1, <1>6, <2>1, RunsCalmItself, SteersCalmItself DEF Calm
<1>9. Answers(told, tn)
  BY <1>1, <1>7, <1>8, CalmAnswers
<1> QED
  BY <1>9 DEF told

\* A run a Stop touches is cancelled before it began, or told to stop.
LEMMA StoppedRunStops ==
  ASSUME NEW run \in Run, NEW i, NEW x, NEW y, RunCarried(run, i, x), y.run = x.run
  PROVE  /\ run.status \in Terminal => StoppedRun(run) = run
         /\ RunCarried(StoppedRun(run), i, y)
<1>1. CASE run.status = "queued" /\ run.source \notin {"person", "followup"}
  <2>1. StoppedRun(run) = [run EXCEPT !.status = "cancelled",
                                      !.start = IF run.start \in InFlight THEN "cancelled" ELSE run.start]
    BY <1>1 DEF StoppedRun
  <2>2. StoppedRun(run).status = "cancelled"
    BY <2>1 DEF Run
  <2> QED
    BY <1>1, <2>2 DEF Terminal, RunCarried
<1>2. CASE run.status = "active"
  <2>1. StoppedRun(run) = [run EXCEPT !.halted = TRUE]
    BY <1>2 DEF StoppedRun
  <2>2. /\ StoppedRun(run).status = "active" /\ StoppedRun(run).halted
        /\ StoppedRun(run).started = run.started
    BY <1>2, <2>1 DEF Run
  <2> QED
    BY <1>2, <2>2 DEF Terminal, RunCarried
<1>3. CASE ~(run.status = "queued" /\ run.source \notin {"person", "followup"}) /\ run.status # "active"
  <2>1. StoppedRun(run) = run
    BY <1>3 DEF StoppedRun
  <2> QED
    BY <1>3, <2>1 DEF RunCarried
<1> QED
  BY <1>1, <1>2, <1>3

\* The subtree's rows are settled, its queued work cancelled, its live runs told to stop and its turns aborted.
LEMMA StopWritesAnswers ==
  ASSUME NEW d, NEW tn, Answers(d, tn), NEW t \in Threads, NEW after,
         \A c \in Threads : after[c].run = tn[c].run /\ (c \notin Subtree(t) => after[c] = tn[c])
  PROVE  Answers(StopWrites(d, t), after)
<1> DEFINE below == Subtree(t)
           told == StopTold(d, t)
           rows == UNION {Rows(told, c) : c \in below}
           quiet == Acknowledge(told, rows, TRUE)
           runs == [c \in Threads |-> IF c \notin below THEN quiet.runs[c]
                                      ELSE [i \in DOMAIN quiet.runs[c] |-> StoppedRun(quiet.runs[c][i])]]
           spared(c, j) == ~(/\ c \in below /\ quiet.steers[c][j].status = "pending"
                             /\ quiet.runs[c][quiet.steers[c][j].run].status = "active")
           steers == [c \in Threads |-> [j \in DOMAIN quiet.steers[c] |->
                        IF spared(c, j) THEN quiet.steers[c][j]
                        ELSE [quiet.steers[c][j] EXCEPT !.status = "cancelled"]]]
           e == [quiet EXCEPT !.runs = runs, !.steers = steers]
<1>1. StopWrites(d, t) = e
  BY ZenonT(40) DEF StopWrites, StopTold
<1>2. Answers(told, tn)
  BY StopToldAnswers
<1> HIDE DEF told
<1>3. \A k \in DOMAIN told.inbox : told.inbox[k].to \in below => k \in rows
  BY DEF Rows
<1> HIDE DEF rows
<1>4. Typed(told) /\ Typed(d) /\ TRUE \in BOOLEAN
  BY <1>2 DEF Answers
<1>5. Answers(quiet, tn) /\ RewriteOf(told, quiet, rows)
  BY <1>2, <1>4, AcknowledgeAnswers, AcknowledgeRewrites
<1>6. ASSUME NEW k \in DOMAIN told.inbox, k \in rows
      PROVE  quiet.inbox[k].status = "acknowledged" /\ quiet.inbox[k].to = told.inbox[k].to
  <2>1. told.inbox[k] \in Row
    BY <1>4, Parts DEF Typed
  <2>2. IF k \in rows /\ told.inbox[k].status # "acknowledged"
        THEN quiet.inbox[k] = [told.inbox[k] EXCEPT !.status = "acknowledged", !.waived = TRUE]
        ELSE quiet.inbox[k] = told.inbox[k]
    BY <1>4, AcknowledgeRows
  <2> HIDE DEF quiet
  <2> QED
    BY <1>6, <2>1, <2>2 DEF Row
<1>7. \A k \in DOMAIN told.inbox : quiet.inbox[k].to = told.inbox[k].to
  <2> SUFFICES ASSUME NEW k \in DOMAIN told.inbox PROVE quiet.inbox[k].to = told.inbox[k].to
    OBVIOUS
  <2>1. told.inbox[k] \in Row
    BY <1>4, Parts DEF Typed
  <2>2. IF k \in rows /\ told.inbox[k].status # "acknowledged"
        THEN quiet.inbox[k] = [told.inbox[k] EXCEPT !.status = "acknowledged", !.waived = TRUE]
        ELSE quiet.inbox[k] = told.inbox[k]
    BY <1>4, AcknowledgeRows
  <2> HIDE DEF quiet
  <2> QED
    BY <2>1, <2>2 DEF Row
<1> HIDE DEF quiet
<1>8. \A k \in DOMAIN quiet.inbox : quiet.inbox[k].to \in below => quiet.inbox[k].status = "acknowledged"
  BY <1>3, <1>5, <1>6, <1>7 DEF RewriteOf
<1>9. Typed(quiet)
  BY <1>5 DEF Answers
<1>10. Typed(e)
  <2> HIDE DEF e
  <2> QED
    BY <1>1, <1>4, StopWritesFacts
<1>11. e.runs = runs /\ e.steers = steers /\ e.inbox = quiet.inbox /\ e.tasks = quiet.tasks
  BY <1>9 DEF Typed, DB
<1> HIDE DEF e, below
<1>12. ASSUME NEW c \in Threads
       PROVE  /\ DOMAIN e.runs[c] = DOMAIN quiet.runs[c]
              /\ c \notin below => e.runs[c] = quiet.runs[c] /\ e.steers[c] = quiet.steers[c]
              /\ c \in below => \A i \in DOMAIN quiet.runs[c] : e.runs[c][i] = StoppedRun(quiet.runs[c][i])
  <2>1. \A j : c \notin below => spared(c, j)
    OBVIOUS
  <2> HIDE DEF spared
  <2>2. runs[c] = IF c \notin below THEN quiet.runs[c]
                  ELSE [i \in DOMAIN quiet.runs[c] |-> StoppedRun(quiet.runs[c][i])]
    <3> HIDE DEF steers
    <3> QED
      OBVIOUS
  <2> HIDE DEF runs
  <2>3. steers[c] = [j \in DOMAIN quiet.steers[c] |->
                       IF spared(c, j) THEN quiet.steers[c][j]
                       ELSE [quiet.steers[c][j] EXCEPT !.status = "cancelled"]]
    OBVIOUS
  <2> HIDE DEF steers
  <2>4. e.runs[c] = runs[c] /\ e.steers[c] = steers[c]
    BY <1>11
  <2>5. quiet.steers[c] \in Seq(Steer)
    BY <1>9 DEF Typed, DB
  <2>6. quiet.steers[c] = [j \in DOMAIN quiet.steers[c] |-> quiet.steers[c][j]]
    BY <2>5
  <2>7. c \notin below => steers[c] = quiet.steers[c]
    BY <2>1, <2>3, <2>6
  <2> QED
    BY <2>2, <2>4, <2>7
<1> HIDE DEF runs, steers, spared
<1>13. ASSUME NEW c \in Threads, NEW i \in DOMAIN e.runs[c] PROVE RunCarried(e.runs[c][i], i, after[c])
  <2>1. i \in DOMAIN quiet.runs[c]
    BY <1>12
  <2>2. quiet.runs[c][i] \in Run /\ RunCarried(quiet.runs[c][i], i, tn[c])
    BY <1>5, <1>9, <2>1, Parts DEF Answers, RunsCarried, Typed
  <2>3. CASE c \notin below
    BY <1>12, <2>2, <2>3 DEF below
  <2>4. CASE c \in below
    <3>1. e.runs[c][i] = StoppedRun(quiet.runs[c][i]) /\ after[c].run = tn[c].run
      BY <1>12, <2>1, <2>4
    <3> QED
      BY <2>2, <3>1, StoppedRunStops
  <2> QED
    BY <2>3, <2>4
<1>14. ASSUME NEW k \in DOMAIN e.inbox
       PROVE  RowCarried(e.runs[e.inbox[k].to], e.steers[e.inbox[k].to], e.inbox[k])
  <2> DEFINE row == quiet.inbox[k]
             c == row.to
  <2>1. e.inbox[k] = row /\ k \in DOMAIN quiet.inbox
    BY <1>11
  <2>2. RowCarried(quiet.runs[c], quiet.steers[c], row) /\ row \in Row
    BY <1>5, <1>9, <2>1, Parts DEF Answers, RowsCarried, Typed
  <2>3. c \in Threads
    BY <2>2 DEF Row
  <2>4. c \in below => row.status = "acknowledged"
    BY <1>8, <2>1
  <2> HIDE DEF row, c
  <2>5. CASE c \notin below
    <3>1. e.runs[c] = quiet.runs[c] /\ e.steers[c] = quiet.steers[c]
      BY <1>12, <2>3, <2>5
    <3> QED
      BY <2>1, <2>2, <3>1 DEF c
  <2>6. CASE c \in below
    <3>1. ASSUME NEW i \in row.reads
          PROVE  i \in DOMAIN e.runs[c] /\ e.runs[c][i].status \in Terminal /\ e.runs[c][i].started
      <4>1. i \in DOMAIN quiet.runs[c] /\ quiet.runs[c][i].status \in Terminal /\ quiet.runs[c][i].started
        BY <2>2 DEF RowCarried
      <4>2. quiet.runs[c][i] \in Run /\ RunCarried(quiet.runs[c][i], i, tn[c])
        BY <1>5, <1>9, <2>3, <4>1, Parts DEF Answers, RunsCarried, Typed
      <4>3. StoppedRun(quiet.runs[c][i]) = quiet.runs[c][i]
        BY <4>1, <4>2, StoppedRunStops
      <4> QED
        BY <1>12, <2>3, <2>6, <4>1, <4>3
    <3>2. row.status # "delivered"
      BY <2>4, <2>6
    <3>3. RowCarried(e.runs[c], e.steers[c], row)
      BY <3>1, <3>2 DEF RowCarried
    <3> QED
      BY <2>1, <3>3 DEF c
  <2> QED
    BY <2>5, <2>6
<1>15. Final(e)
  BY <1>5, <1>11 DEF Answers, Final, Answered
<1>16. Answers(e, after)
  BY <1>10, <1>13, <1>14, <1>15 DEF Answers, RowsCarried, RunsCarried
<1> QED
  BY <1>1, <1>16

\* A Stop leaves every answer final: what it settles, it waives.
LEMMA StopAnswers ==
  ASSUME Inv, AnswerInv, NEW t \in Threads, Stop(t)
  PROVE  AnswerInv'
<1> DEFINE below == Subtree(t)
           aborted == [c \in Threads |->
                         IF c \in below /\ LiveTurn(c) THEN [turn[c] EXCEPT !.aborted = TRUE] ELSE turn[c]]
           memory == Memory(aborted, background)
           e == StopWrites(db, t)
<1>1. turn' = aborted /\ db' = Settle(e, memory, Threads) /\ Threads \in SUBSET Threads
  BY DEF Stop
<1>2. Answers(db, turn) /\ \A c \in Threads : turn[c] \in Turn
  BY AnswersNow, InvParts DEF TurnsTyped
<1> HIDE DEF memory
<1>3. \A c \in Threads : aborted[c].run = turn[c].run /\ (c \notin Subtree(t) => aborted[c] = turn[c])
  <2> SUFFICES ASSUME NEW c \in Threads
               PROVE  aborted[c].run = turn[c].run /\ (c \notin below => aborted[c] = turn[c])
    OBVIOUS
  <2> HIDE DEF below
  <2> QED
    BY <1>2 DEF Turn
<1> HIDE DEF aborted, below
<1>4. Answers(e, turn')
  BY <1>1, <1>2, <1>3, StopWritesAnswers
<1> HIDE DEF e
<1> QED
  BY <1>1, <1>4, AnswersNext

-----------------------------------------------------------------------------
(* The theorem of the answers.                                               *)

\* The first run is the root's, under way in its turn, and there are no notices.
LEMMA InitAnswers ==
  ASSUME Init
  PROVE  AnswerInv
<1> DEFINE first == [NewRun("person", {}, 0) EXCEPT !.status = "active", !.start = "running", !.started = TRUE]
<1>1. first.status = "active" /\ first.started
  BY DEF NewRun
<1>2. /\ db.runs = [t \in Threads |-> IF t = Root THEN <<first>> ELSE <<>>] /\ db.inbox = <<>>
      /\ turn = [t \in Threads |-> IF t = Root THEN [NoTurn EXCEPT !.run = 1] ELSE NoTurn]
  BY DEF Init
<1> HIDE DEF first
<1>3. DOMAIN db.inbox = {}
  BY <1>2
<1>4. ASSUME NEW t \in Threads, NEW i \in DOMAIN db.runs[t] PROVE RunCarried(db.runs[t][i], i, turn[t])
  <2>1. t = Root /\ i = 1 /\ db.runs[t][i] = first
    BY <1>2
  <2>2. turn[t].run = 1 /\ ~turn[t].aborted
    BY <1>2, <2>1 DEF NoTurn
  <2> QED
    BY <1>1, <2>1, <2>2 DEF RunCarried
<1> QED
  BY <1>3, <1>4 DEF AnswerInv, Final, RowsCarried, RunsCarried

\* Every step keeps the answers final.
LEMMA AnswerKept ==
  ASSUME Inv, ReadInv, AnswerInv, [Next]_vars
  PROVE  AnswerInv'
<1>1. CASE UNCHANGED vars
  BY <1>1 DEF vars, AnswerInv
<1>2. ASSUME NEW due, Reconcile(due) PROVE AnswerInv'
  BY <1>2, ReconcileAnswers
<1>3. CASE CrashAndBoot
  BY <1>3, BootAnswers
<1>4. ASSUME NEW t \in Threads, Delegate(t) \/ Ask(t) \/ SteerByPerson(t) PROVE AnswerInv'
  BY <1>4, DelegateAnswers, AskAnswers, SteerByPersonAnswers
<1>5. ASSUME NEW t \in Threads, NEW i \in DOMAIN db.runs[t], StartTurn(t, i) \/ StartWake(t, i) \/ RestartSend(t, i)
      PROVE AnswerInv'
  BY <1>5, StartTurnAnswers, StartWakeAnswers, RestartSendAnswers
<1>6. ASSUME NEW t \in Threads, NEW j \in DOMAIN db.steers[t], ExecuteSteer(t, j) \/ ReturnSteer(t, j) PROVE AnswerInv'
  BY <1>6, ExecuteSteerAnswers, ReturnSteerAnswers
<1>7. ASSUME NEW t \in Threads, ReadSteers(t) PROVE AnswerInv'
  BY <1>7, ReadSteersAnswers
<1>8. ASSUME NEW t \in Threads, NEW status \in {"completed", "failed", "stopped"}, EndRun(t, status) PROVE AnswerInv'
  BY <1>8, EndRunAnswers
<1>9. ASSUME NEW t \in Threads, NEW saved \in BOOLEAN, SettleTurn(t, saved) PROVE AnswerInv'
  BY <1>9, SettleTurnAnswers
<1>10. ASSUME NEW t \in Threads, Drain(t) \/ StartItem(t) PROVE AnswerInv'
  BY <1>10, DrainAnswers, StartItemAnswers
<1>11. ASSUME NEW t \in Threads, StartBackground(t) \/ EndBackground(t) PROVE AnswerInv'
  BY <1>11, StartBackgroundAnswers, EndBackgroundAnswers
<1>12. ASSUME NEW t \in Threads, Stop(t) PROVE AnswerInv'
  BY <1>12, StopAnswers
<1>13. ASSUME NEW k \in DOMAIN db.tasks, TaskStatus(k) PROVE AnswerInv'
  BY <1>13, TaskStatusAnswers
<1> QED
  BY <1>1, <1>2, <1>3, <1>4, <1>5, <1>6, <1>7, <1>8, <1>9, <1>10, <1>11, <1>12, <1>13 DEF Next

\* The invariant of the answers holds of every reachable state.
LEMMA AnswerInvariant == Spec => [](Inv /\ ReadInv /\ AnswerInv)
<1>1. Init => Inv /\ ReadInv /\ AnswerInv
  BY InitInv, InitReads, InitAnswers
<1>2. Inv /\ ReadInv /\ AnswerInv /\ [Next]_vars => (Inv /\ ReadInv /\ AnswerInv)'
  BY InvKept, ReadKept, AnswerKept
<1> QED
  BY <1>1, <1>2, PTL DEF Spec

\* What was closed before an answer is what the answer need not wait for.
LEMMA FinalAnswers ==
  ASSUME AnswerInv
  PROVE  AnswerIsFinal
BY DEF AnswerInv, Final, Answered, Closed, AnswerIsFinal

\* The answer of a task is final: for any threads, parents and budgets, while runs complete, fail, are
\* stopped and steered, the reconciler gives rows back and the daemon crashes and boots, every notice that
\* was in the subagent's inbox before its answer was given up, settled by a Stop or task_status, or
\* acknowledged with no read after the run the answer is the result of.  A task is published only while
\* its subagent is not busy (settleWaitingDelegations and childBusy in delegation/hold.ts), and no later
\* step reopens a notice it counted as settled.
THEOREM AnswersAreFinal == Spec => []AnswerIsFinal
<1>1. AnswerInv => AnswerIsFinal
  BY FinalAnswers
<1> QED
  BY <1>1, AnswerInvariant, PTL

=============================================================================
