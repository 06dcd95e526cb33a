------------------------- MODULE ThreadMutexProofs -------------------------
(* The mutex excludes, owns its entries and implements the abstract lock,    *)
(* for any number of calls and keys and any nesting of calls.                *)
EXTENDS ThreadMutex, TLAPS

\* A call stands in its line once.
StandsOnce ==
    \A k \in Keys : \A i, j \in 1 .. Len(waiters[k]) : waiters[k][i] = waiters[k][j] => i = j

Inv == TypeOK /\ MutualExclusion /\ LockIsOwned /\ StandsOnce

-----------------------------------------------------------------------------
(* Sequences.                                                                *)

\* What append does to a sequence.
LEMMA AppendFacts ==
  ASSUME NEW S, NEW w \in Seq(S), NEW e \in S
  PROVE  /\ Append(w, e) \in Seq(S) /\ Len(Append(w, e)) = Len(w) + 1
         /\ \A i \in 1 .. Len(w) : Append(w, e)[i] = w[i]
         /\ Append(w, e)[Len(w) + 1] = e
  OBVIOUS

\* What shift does to a sequence.
LEMMA TailFacts ==
  ASSUME NEW S, NEW w \in Seq(S), w # <<>>
  PROVE  /\ Len(w) \in Nat \ {0} /\ Head(w) = w[1] /\ Head(w) \in S
         /\ Tail(w) \in Seq(S) /\ Len(Tail(w)) = Len(w) - 1
         /\ \A i \in 1 .. Len(w) - 1 : Tail(w)[i] = w[i + 1]
  OBVIOUS

\* What splice does to a sequence.
LEMMA SplicedFacts ==
  ASSUME NEW S, NEW w \in Seq(S), NEW i \in 1 .. Len(w)
  PROVE  /\ Spliced(w, i) \in Seq(S) /\ Len(Spliced(w, i)) = Len(w) - 1
         /\ \A j \in 1 .. Len(w) - 1 : Spliced(w, i)[j] = IF j < i THEN w[j] ELSE w[j + 1]
<1>1. Len(w) \in Nat /\ Len(w) - 1 \in Nat
  OBVIOUS
<1>2. \A j \in 1 .. Len(w) - 1 : (IF j < i THEN w[j] ELSE w[j + 1]) \in S
  OBVIOUS
<1> QED
  BY <1>1, <1>2 DEF Spliced

-----------------------------------------------------------------------------
(* The invariant.                                                            *)

\* A call asks for a lock.
LEMMA AcquireInv ==
  ASSUME MutexAssumption, Inv, NEW c \in Calls, Acquire(c)
  PROVE  Inv'
<1> DEFINE k == KeyOf[c]
<1>1. k \in Keys /\ waiters[k] \in Seq(Calls)
  BY DEF MutexAssumption, Inv, TypeOK
<1>2. phase[c] \in {"idle", "failed"}
  BY DEF Acquire, Callable
<1>3. CASE k \in locked
  <2>1. /\ waiters' = [waiters EXCEPT ![k] = Append(waiters[k], c)]
        /\ phase' = [phase EXCEPT ![c] = "waiting"] /\ locked' = locked
    BY <1>3 DEF Acquire
  <2>2. TypeOK'
    BY <1>1, <2>1 DEF Inv, TypeOK, Phases
  <2>3. \A d \in Calls : Owns(d)' <=> Owns(d)
    BY <1>2, <2>1 DEF Inv, TypeOK, Owns
  <2>4. MutualExclusion'
    BY <2>3 DEF Inv, MutualExclusion
  <2>5. waiters'[k] = Append(waiters[k], c) /\ \A q \in Keys \ {k} : waiters'[q] = waiters[q]
    BY <1>1, <2>1 DEF Inv, TypeOK
  <2>6. LockIsOwned'
    <3>1. \A q \in locked' : \E d \in Calls : KeyOf[d] = q /\ Owns(d)'
      BY <2>1, <2>3 DEF Inv, LockIsOwned
    <3>2. \A d \in Calls : Owns(d)' => KeyOf[d] \in locked'
      BY <2>1, <2>3 DEF Inv, LockIsOwned
    <3>3. \A q \in Keys : q \notin locked' => waiters'[q] = <<>>
      BY <1>3, <2>1, <2>5 DEF Inv, LockIsOwned
    <3>4. ASSUME NEW q \in Keys, NEW i \in 1 .. Len(waiters'[q])
          PROVE  KeyOf[waiters'[q][i]] = q /\ phase'[waiters'[q][i]] = "waiting"
      <4>1. CASE q = k /\ i = Len(waiters[k]) + 1
        BY <1>1, <2>1, <2>5, <4>1, AppendFacts DEF Inv, TypeOK
      <4>2. CASE q # k \/ i # Len(waiters[k]) + 1
        <5>1. CASE q = k
          <6>1. Len(waiters[k]) \in Nat /\ Len(waiters'[k]) = Len(waiters[k]) + 1
            BY <1>1, <2>5, AppendFacts
          <6>2. i \in 1 .. Len(waiters[k])
            BY <4>2, <5>1, <6>1
          <6>3. waiters'[k][i] = waiters[k][i] /\ waiters[k][i] \in Calls
            BY <1>1, <2>5, <6>2, AppendFacts
          <6> QED
            BY <2>1, <5>1, <6>2, <6>3 DEF Inv, LockIsOwned, TypeOK
        <5>2. CASE q # k
          <6>1. waiters'[q] = waiters[q] /\ waiters[q] \in Seq(Calls)
            BY <2>5, <5>2 DEF Inv, TypeOK
          <6> QED
            BY <2>1, <3>4, <6>1 DEF Inv, LockIsOwned, TypeOK
        <5> QED
          BY <5>1, <5>2
      <4> QED
        BY <4>1, <4>2
    <3> QED
      BY <3>1, <3>2, <3>3, <3>4 DEF LockIsOwned
  <2>7. StandsOnce'
    <3>1. ASSUME NEW q \in Keys, NEW i \in 1 .. Len(waiters'[q]), NEW j \in 1 .. Len(waiters'[q]),
                 waiters'[q][i] = waiters'[q][j]
          PROVE  i = j
      <4>1. CASE q # k
        BY <2>5, <3>1, <4>1 DEF Inv, StandsOnce
      <4>2. CASE q = k
        <5>1. \A l \in 1 .. Len(waiters[k]) : waiters[k][l] # c /\ waiters'[k][l] = waiters[k][l]
          BY <1>1, <1>2, <2>5, AppendFacts DEF Inv, LockIsOwned
        <5>2. Len(waiters'[k]) = Len(waiters[k]) + 1 /\ waiters'[k][Len(waiters[k]) + 1] = c
          BY <1>1, <2>5, AppendFacts
        <5>3. Len(waiters[k]) \in Nat
          BY <1>1
        <5> HIDE DEF k
        <5>4. i \in 1 .. Len(waiters[k]) \/ i = Len(waiters[k]) + 1
          BY <4>2, <5>2, <5>3
        <5>5. j \in 1 .. Len(waiters[k]) \/ j = Len(waiters[k]) + 1
          BY <4>2, <5>2, <5>3
        <5> QED
          BY <1>1, <3>1, <4>2, <5>1, <5>2, <5>4, <5>5 DEF Inv, StandsOnce
      <4> QED
        BY <4>1, <4>2
    <3> QED
      BY <3>1 DEF StandsOnce
  <2> QED
    BY <2>2, <2>4, <2>6, <2>7 DEF Inv
<1>4. CASE k \notin locked
  <2>1. /\ locked' = locked \cup {k} /\ phase' = [phase EXCEPT ![c] = "granted"] /\ waiters' = waiters
    BY <1>4 DEF Acquire
  <2>2. TypeOK'
    BY <1>1, <2>1 DEF Inv, TypeOK, Phases
  <2>3. \A d \in Calls : Owns(d)' <=> (Owns(d) \/ d = c)
    BY <2>1 DEF Inv, TypeOK, Owns
  <2>4. \A d \in Calls : KeyOf[d] = k => ~Owns(d)
    BY <1>4 DEF Inv, LockIsOwned
  <2>5. MutualExclusion'
    BY <2>3, <2>4 DEF Inv, MutualExclusion
  <2>6. LockIsOwned'
    <3>1. \A q \in Keys : \A i \in 1 .. Len(waiters[q]) : waiters[q][i] \in Calls /\ waiters[q][i] # c
      BY <1>2 DEF Inv, TypeOK, LockIsOwned
    <3>2. \A q \in Keys : \A i \in 1 .. Len(waiters[q]) :
             KeyOf[waiters[q][i]] = q /\ phase'[waiters[q][i]] = "waiting"
      BY <2>1, <3>1 DEF Inv, TypeOK, LockIsOwned
    <3> QED
      BY <2>1, <2>3, <3>2 DEF Inv, LockIsOwned
  <2> QED
    BY <2>1, <2>2, <2>5, <2>6 DEF Inv, StandsOnce
<1> QED
  BY <1>3, <1>4

\* A call that has the lock calls its function.
LEMMA EnterInv ==
  ASSUME MutexAssumption, Inv, NEW c \in Calls, Enter(c)
  PROVE  Inv'
<1>1. phase[c] = "granted" /\ phase' = [phase EXCEPT ![c] = "inside"] /\ locked' = locked /\ waiters' = waiters
  BY DEF Enter
<1>2. TypeOK'
  BY <1>1 DEF Inv, TypeOK, Phases
<1>3. \A d \in Calls : (Owns(d)' <=> Owns(d)) /\ (phase[d] = "waiting" => phase'[d] = "waiting")
  BY <1>1 DEF Inv, TypeOK, Owns
<1>4. LockIsOwned'
  BY <1>1, <1>3 DEF Inv, TypeOK, LockIsOwned
<1> QED
  BY <1>1, <1>2, <1>3, <1>4 DEF Inv, MutualExclusion, StandsOnce

\* A lock is released, to the first that waits if there is one.
LEMMA LeaveInv ==
  ASSUME MutexAssumption, Inv, NEW c \in Calls, Leave(c)
  PROVE  Inv'
<1> DEFINE k == KeyOf[c]
<1>1. k \in Keys /\ waiters[k] \in Seq(Calls) /\ phase[c] = "inside" /\ Owns(c) /\ k \in locked
  BY DEF MutexAssumption, Inv, TypeOK, Leave, Owns, LockIsOwned
<1>2. CASE waiters[k] = <<>>
  <2>1. locked' = locked \ {k} /\ phase' = [phase EXCEPT ![c] = "idle"] /\ waiters' = waiters
    BY <1>2 DEF Leave, Released
  <2>2. TypeOK'
    BY <2>1 DEF Inv, TypeOK, Phases
  <2>3. \A d \in Calls : Owns(d)' <=> (Owns(d) /\ d # c)
    BY <2>1 DEF Inv, TypeOK, Owns
  <2>4. LockIsOwned'
    <3>1. \A q \in locked' : \E d \in Calls : KeyOf[d] = q /\ Owns(d)'
      BY <2>1, <2>3 DEF Inv, LockIsOwned
    <3>2. \A d \in Calls : Owns(d)' => KeyOf[d] \in locked'
      BY <1>1, <2>1, <2>3 DEF Inv, LockIsOwned, MutualExclusion
    <3>3. \A q \in Keys : \A i \in 1 .. Len(waiters[q]) : waiters[q][i] \in Calls /\ waiters[q][i] # c
      BY <1>1 DEF Inv, TypeOK, LockIsOwned
    <3> QED
      BY <1>2, <2>1, <3>1, <3>2, <3>3 DEF Inv, TypeOK, LockIsOwned
  <2> QED
    BY <2>1, <2>2, <2>3, <2>4 DEF Inv, MutualExclusion, StandsOnce
<1>3. CASE waiters[k] # <<>>
  <2> DEFINE h == Head(waiters[k])
             w == Tail(waiters[k])
  <2>1. /\ phase' = [phase EXCEPT ![c] = "idle", ![h] = "granted"]
        /\ waiters' = [waiters EXCEPT ![k] = w] /\ locked' = locked
    BY <1>3 DEF Leave, Released
  <2>2. /\ h = waiters[k][1] /\ h \in Calls /\ 1 \in 1 .. Len(waiters[k])
        /\ w \in Seq(Calls) /\ Len(w) = Len(waiters[k]) - 1
        /\ \A i \in 1 .. Len(w) : w[i] = waiters[k][i + 1] /\ i + 1 \in 1 .. Len(waiters[k])
    BY <1>1, <1>3, TailFacts
  <2>3. KeyOf[h] = k /\ phase[h] = "waiting" /\ h # c
    BY <1>1, <2>2 DEF Inv, LockIsOwned
  <2>4. \A i \in 1 .. Len(w) : w[i] # h
    BY <1>1, <2>2 DEF Inv, StandsOnce
  <2> HIDE DEF h, w
  <2>5. TypeOK'
    BY <2>1, <2>2 DEF Inv, TypeOK, Phases
  <2>6. \A d \in Calls : Owns(d)' <=> ((Owns(d) /\ d # c) \/ d = h)
    BY <2>1, <2>2, <2>3 DEF Inv, TypeOK, Owns
  <2>7. MutualExclusion'
    BY <1>1, <2>3, <2>6 DEF Inv, MutualExclusion
  <2>8. waiters'[k] = w /\ \A q \in Keys \ {k} : waiters'[q] = waiters[q]
    BY <1>1, <2>1 DEF Inv, TypeOK
  <2>9. LockIsOwned'
    <3>1. \A q \in locked' : \E d \in Calls : KeyOf[d] = q /\ Owns(d)'
      BY <2>1, <2>2, <2>3, <2>6 DEF Inv, LockIsOwned
    <3>2. \A d \in Calls : Owns(d)' => KeyOf[d] \in locked'
      BY <1>1, <2>1, <2>3, <2>6 DEF Inv, LockIsOwned
    <3>3. \A q \in Keys : q \notin locked' => waiters'[q] = <<>>
      BY <1>1, <2>1, <2>8 DEF Inv, LockIsOwned
    <3>4. ASSUME NEW q \in Keys, NEW i \in 1 .. Len(waiters'[q])
          PROVE  KeyOf[waiters'[q][i]] = q /\ phase'[waiters'[q][i]] = "waiting"
      <4>1. /\ waiters'[q][i] \in Calls /\ KeyOf[waiters'[q][i]] = q
            /\ phase[waiters'[q][i]] = "waiting" /\ waiters'[q][i] # h
        <5>1. CASE q = k
          <6>1. i \in 1 .. Len(w) /\ waiters'[q][i] = w[i]
            BY <2>8, <3>4, <5>1
          <6>2. w[i] = waiters[k][i + 1] /\ i + 1 \in 1 .. Len(waiters[k]) /\ w[i] # h /\ w[i] \in Calls
            BY <2>2, <2>4, <6>1
          <6> QED
            BY <1>1, <5>1, <6>1, <6>2 DEF Inv, LockIsOwned
        <5>2. CASE q # k
          BY <2>3, <2>8, <3>4, <5>2 DEF Inv, TypeOK, LockIsOwned
        <5> QED
          BY <5>1, <5>2
      <4> QED
        BY <1>1, <2>1, <4>1 DEF Inv, TypeOK
    <3> QED
      BY <3>1, <3>2, <3>3, <3>4 DEF LockIsOwned
  <2>10. StandsOnce'
    <3>1. ASSUME NEW i \in 1 .. Len(w), NEW j \in 1 .. Len(w), w[i] = w[j]
          PROVE  i = j
      <4>1. Len(w) \in Nat
        BY <2>2
      <4>2. i + 1 = j + 1
        BY <1>1, <2>2, <3>1 DEF Inv, StandsOnce
      <4> QED
        BY <4>1, <4>2
    <3> QED
      BY <2>8, <3>1 DEF Inv, StandsOnce
  <2> QED
    BY <2>5, <2>7, <2>9, <2>10 DEF Inv
<1> QED
  BY <1>2, <1>3

\* A call gives up and leaves its line.
LEMMA TimeoutInv ==
  ASSUME MutexAssumption, Inv, NEW c \in Calls, Timeout(c)
  PROVE  Inv'
<1> DEFINE k == KeyOf[c]
<1>1. k \in Keys /\ waiters[k] \in Seq(Calls) /\ phase[c] = "waiting"
  BY DEF MutexAssumption, Inv, TypeOK, Timeout, TimedOut
<1>2. PICK n \in 1 .. Len(waiters[k]) :
         waiters[k][n] = c /\ waiters' = [waiters EXCEPT ![k] = Spliced(waiters[k], n)]
  BY DEF Timeout
<1>3. phase' = [phase EXCEPT ![c] = "failed"] /\ locked' = locked
  BY DEF Timeout
<1> DEFINE w == Spliced(waiters[k], n)
           at(i) == IF i < n THEN i ELSE i + 1
<1>4. /\ w \in Seq(Calls) /\ Len(w) = Len(waiters[k]) - 1 /\ Len(w) \in Nat
      /\ \A i \in 1 .. Len(w) : at(i) \in 1 .. Len(waiters[k]) /\ at(i) # n /\ w[i] = waiters[k][at(i)]
  <2>1. Len(waiters[k]) \in Nat
    BY <1>1
  <2> QED
    <3>1. w \in Seq(Calls) /\ Len(w) = Len(waiters[k]) - 1
      BY <1>1, SplicedFacts
    <3>2. \A i \in 1 .. Len(w) : w[i] = waiters[k][at(i)]
      BY <1>1, <3>1, SplicedFacts
    <3>3. \A i \in 1 .. Len(w) : at(i) \in 1 .. Len(waiters[k]) /\ at(i) # n
      BY <2>1, <3>1
    <3>4. Len(w) \in Nat
      BY <3>1
    <3> QED
      BY <3>1, <3>2, <3>3, <3>4
<1>5. \A i, j \in 1 .. Len(w) : at(i) = at(j) => i = j
  BY <1>4
<1>6. waiters'[k] = w /\ \A q \in Keys \ {k} : waiters'[q] = waiters[q]
  BY <1>1, <1>2 DEF Inv, TypeOK
<1> HIDE DEF w, at
<1>7. TypeOK'
  BY <1>1, <1>2, <1>3, <1>4 DEF Inv, TypeOK, Phases, w
<1>8. \A d \in Calls : Owns(d)' <=> Owns(d)
  BY <1>1, <1>3 DEF Inv, TypeOK, Owns
<1>9. LockIsOwned'
  <2>1. ASSUME NEW q \in Keys, NEW i \in 1 .. Len(waiters'[q])
        PROVE  KeyOf[waiters'[q][i]] = q /\ phase'[waiters'[q][i]] = "waiting"
    <3>1. /\ waiters'[q][i] \in Calls /\ KeyOf[waiters'[q][i]] = q
          /\ phase[waiters'[q][i]] = "waiting" /\ waiters'[q][i] # c
      <4>1. CASE q = k
        <5>1. i \in 1 .. Len(w) /\ waiters'[q][i] = w[i]
          BY <1>6, <2>1, <4>1
        <5>2. w[i] = waiters[k][at(i)] /\ at(i) \in 1 .. Len(waiters[k]) /\ at(i) # n /\ w[i] \in Calls
          BY <1>4, <5>1
        <5>3. waiters[k][at(i)] # c
          BY <1>1, <1>2, <5>2 DEF Inv, StandsOnce
        <5> QED
          BY <1>1, <4>1, <5>1, <5>2, <5>3 DEF Inv, LockIsOwned
      <4>2. CASE q # k
        BY <1>6, <2>1, <4>2 DEF Inv, TypeOK, LockIsOwned
      <4> QED
        BY <4>1, <4>2
    <3> QED
      BY <1>3, <3>1 DEF Inv, TypeOK
  <2>2. \A q \in Keys : q \notin locked' => waiters'[q] = <<>>
    <3>1. k \in locked
      BY <1>1, <1>2 DEF Inv, LockIsOwned
    <3> QED
      BY <1>3, <1>6, <3>1 DEF Inv, LockIsOwned
  <2> QED
    BY <1>3, <1>8, <2>1, <2>2 DEF Inv, LockIsOwned
<1>10. StandsOnce'
  <2>1. ASSUME NEW i \in 1 .. Len(w), NEW j \in 1 .. Len(w), w[i] = w[j]
        PROVE  i = j
    <3>1. at(i) \in 1 .. Len(waiters[k]) /\ at(j) \in 1 .. Len(waiters[k])
      BY <1>4, <2>1
    <3>2. waiters[k][at(i)] = waiters[k][at(j)]
      BY <1>4, <2>1
    <3>3. at(i) = at(j)
      BY <1>1, <3>1, <3>2 DEF Inv, StandsOnce
    <3> QED
      BY <1>5, <2>1, <3>3
  <2> QED
    BY <1>6, <2>1 DEF Inv, StandsOnce
<1> QED
  BY <1>7, <1>8, <1>9, <1>10 DEF Inv, MutualExclusion

\* The invariant holds.
LEMMA AlwaysInv == Spec => []Inv
<1>1. Init => Inv
  BY DEF Init, Inv, TypeOK, Phases, MutualExclusion, LockIsOwned, StandsOnce, Owns
<1>2. Inv /\ [Next]_vars => Inv'
  <2> SUFFICES ASSUME Inv, [Next]_vars PROVE Inv'
    OBVIOUS
  <2>1. CASE Next
    BY <2>1, MutexAssumption, AcquireInv, EnterInv, LeaveInv, TimeoutInv DEF Next
  <2>2. CASE UNCHANGED vars
    BY <2>2 DEF vars, Inv, TypeOK, MutualExclusion, LockIsOwned, StandsOnce, Owns
  <2> QED
    BY <2>1, <2>2
<1> QED
  BY <1>1, <1>2, PTL DEF Spec

\* Keys, lines and phases keep their types.
THEOREM TypeCorrect == Spec => []TypeOK
<1>1. Inv => TypeOK
  BY DEF Inv
<1> QED
  BY <1>1, AlwaysInv, PTL

\* withLock excludes: two functions never run for one key.
THEOREM Excludes == Spec => []MutualExclusion
<1>1. Inv => MutualExclusion
  BY DEF Inv
<1> QED
  BY <1>1, AlwaysInv, PTL

\* No lock is lost: an entry belongs to a call that releases it, and its line
\* holds calls that wait.
THEOREM NoLockIsLost == Spec => []LockIsOwned
<1>1. Inv => LockIsOwned
  BY DEF Inv
<1> QED
  BY <1>1, AlwaysInv, PTL

-----------------------------------------------------------------------------
(* The mutex implements the abstract lock.                                   *)

\* Putting the owner in front of its line.
LEMMA ConsFacts ==
  ASSUME NEW S, NEW o \in S, NEW w \in Seq(S)
  PROVE  /\ <<o>> \o w \in Seq(S) /\ Len(<<o>> \o w) = Len(w) + 1
         /\ (<<o>> \o w)[1] = o /\ <<o>> \o w # <<>>
         /\ \A i \in 1 .. Len(w) : (<<o>> \o w)[i + 1] = w[i]
  OBVIOUS

\* Two sequences are equal if they are so everywhere.
LEMMA SeqEqual ==
  ASSUME NEW S, NEW v \in Seq(S), NEW w \in Seq(S), Len(v) = Len(w),
         \A i \in 1 .. Len(v) : v[i] = w[i]
  PROVE  v = w
  OBVIOUS

\* The operations of a waiting line are those of the line behind its owner.
LEMMA ConsOperations ==
  ASSUME NEW S, NEW o \in S, NEW w \in Seq(S)
  PROVE  /\ Head(<<o>> \o w) = o /\ Tail(<<o>> \o w) = w
         /\ \A c \in S : <<o>> \o Append(w, c) = Append(<<o>> \o w, c)
         /\ w # <<>> => <<Head(w)>> \o Tail(w) = w
<1>1. Len(w) \in Nat
  OBVIOUS
<1>2. Head(<<o>> \o w) = o
  BY ConsFacts
<1>3. Tail(<<o>> \o w) = w
  <2>1. /\ Tail(<<o>> \o w) \in Seq(S) /\ Len(Tail(<<o>> \o w)) = Len(w)
        /\ \A i \in 1 .. Len(w) : Tail(<<o>> \o w)[i] = (<<o>> \o w)[i + 1]
    BY <1>1, ConsFacts, TailFacts
  <2> QED
    BY <2>1, ConsFacts, SeqEqual
<1>4. ASSUME NEW c \in S
      PROVE  <<o>> \o Append(w, c) = Append(<<o>> \o w, c)
  <2> DEFINE v == Append(w, c)
             x == <<o>> \o w
  <2>1. v \in Seq(S) /\ Len(v) = Len(w) + 1 /\ v[Len(w) + 1] = c /\ \A i \in 1 .. Len(w) : v[i] = w[i]
    BY AppendFacts
  <2>2. x \in Seq(S) /\ Len(x) = Len(w) + 1 /\ x[1] = o /\ \A i \in 1 .. Len(w) : x[i + 1] = w[i]
    BY ConsFacts
  <2> HIDE DEF v, x
  <2>3. /\ <<o>> \o v \in Seq(S) /\ Len(<<o>> \o v) = Len(w) + 2 /\ (<<o>> \o v)[1] = o
        /\ \A i \in 1 .. Len(w) + 1 : (<<o>> \o v)[i + 1] = v[i]
    BY <1>1, <2>1, ConsFacts
  <2>4. /\ Append(x, c) \in Seq(S) /\ Len(Append(x, c)) = Len(w) + 2
        /\ Append(x, c)[Len(w) + 2] = c /\ \A i \in 1 .. Len(w) + 1 : Append(x, c)[i] = x[i]
    BY <1>1, <2>2, AppendFacts
  <2>5. ASSUME NEW i \in 1 .. Len(w) + 2
        PROVE  (<<o>> \o v)[i] = Append(x, c)[i]
    <3>1. CASE i = 1
      BY <1>1, <2>2, <2>3, <2>4, <3>1
    <3>2. CASE i = Len(w) + 2
      <4>1. (<<o>> \o v)[Len(w) + 1 + 1] = c
        BY <1>1, <2>1, <2>3
      <4>2. Len(w) + 1 + 1 = Len(w) + 2
        BY <1>1
      <4>3. (<<o>> \o v)[Len(w) + 2] = c
        BY <4>1, <4>2
      <4>4. (<<o>> \o v)[i] = c /\ Append(x, c)[i] = c
        BY <2>4, <3>2, <4>3
      <4> QED
        BY <4>4
    <3>3. CASE i # 1 /\ i # Len(w) + 2
      <4>1. i - 1 \in 1 .. Len(w) /\ (i - 1) + 1 = i /\ i - 1 \in 1 .. Len(w) + 1 /\ i \in 1 .. Len(w) + 1
        BY <1>1, <3>3
      <4>2. (<<o>> \o v)[(i - 1) + 1] = w[i - 1] /\ x[(i - 1) + 1] = w[i - 1]
        BY <2>1, <2>2, <2>3, <4>1
      <4> QED
        BY <2>4, <4>1, <4>2
    <3> QED
      BY <3>1, <3>2, <3>3
  <2>6. <<o>> \o v = Append(x, c)
    BY <2>3, <2>4, <2>5, SeqEqual
  <2> QED
    BY <2>6 DEF v, x
<1>5. ASSUME w # <<>>
      PROVE  <<Head(w)>> \o Tail(w) = w
  <2> DEFINE v == Tail(w)
             h == Head(w)
  <2>1. /\ h = w[1] /\ h \in S /\ v \in Seq(S) /\ Len(v) = Len(w) - 1
        /\ \A i \in 1 .. Len(w) - 1 : v[i] = w[i + 1]
    BY <1>5, TailFacts
  <2> HIDE DEF v, h
  <2>2. /\ <<h>> \o v \in Seq(S) /\ Len(<<h>> \o v) = Len(w) /\ (<<h>> \o v)[1] = h
        /\ \A i \in 1 .. Len(v) : (<<h>> \o v)[i + 1] = v[i]
    BY <1>1, <2>1, ConsFacts
  <2>3. ASSUME NEW i \in 1 .. Len(w)
        PROVE  (<<h>> \o v)[i] = w[i]
    <3>1. CASE i = 1
      BY <2>1, <2>2, <3>1
    <3>2. CASE i # 1
      <4>1. i - 1 \in 1 .. Len(v) /\ i - 1 \in 1 .. Len(w) - 1 /\ (i - 1) + 1 = i
        BY <1>1, <2>1, <3>2
      <4>2. (<<h>> \o v)[(i - 1) + 1] = v[i - 1] /\ v[i - 1] = w[(i - 1) + 1]
        BY <2>1, <2>2, <4>1
      <4> QED
        BY <4>1, <4>2
    <3> QED
      BY <3>1, <3>2
  <2>4. <<h>> \o v = w
    BY <2>2, <2>3, SeqEqual
  <2> QED
    BY <2>4 DEF v, h
<1> QED
  BY <1>2, <1>3, <1>4, <1>5

\* splice behind the owner is splice of the whole line, one place further on.
LEMMA ConsSpliced ==
  ASSUME NEW S, NEW o \in S, NEW w \in Seq(S), NEW n \in 1 .. Len(w)
  PROVE  <<o>> \o Spliced(w, n) = Spliced(<<o>> \o w, n + 1)
<1> DEFINE v == Spliced(w, n)
           x == <<o>> \o w
<1>1. Len(w) \in Nat
  OBVIOUS
<1>2. /\ v \in Seq(S) /\ Len(v) = Len(w) - 1
      /\ \A j \in 1 .. Len(w) - 1 : v[j] = IF j < n THEN w[j] ELSE w[j + 1]
  BY SplicedFacts
<1>3. x \in Seq(S) /\ Len(x) = Len(w) + 1 /\ x[1] = o /\ \A i \in 1 .. Len(w) : x[i + 1] = w[i]
  BY ConsFacts
<1> HIDE DEF v, x
<1>4. n + 1 \in 1 .. Len(x)
  BY <1>1, <1>3
<1>5. /\ Spliced(x, n + 1) \in Seq(S) /\ Len(Spliced(x, n + 1)) = Len(w)
      /\ \A j \in 1 .. Len(w) : Spliced(x, n + 1)[j] = IF j < n + 1 THEN x[j] ELSE x[j + 1]
  <2>1. Len(x) - 1 = Len(w)
    BY <1>1, <1>3
  <2> QED
    BY <1>3, <1>4, <2>1, SplicedFacts
<1>6. /\ <<o>> \o v \in Seq(S) /\ Len(<<o>> \o v) = Len(w) /\ (<<o>> \o v)[1] = o
      /\ \A i \in 1 .. Len(v) : (<<o>> \o v)[i + 1] = v[i]
  BY <1>1, <1>2, ConsFacts
<1>7. ASSUME NEW i \in 1 .. Len(w)
      PROVE  (<<o>> \o v)[i] = Spliced(x, n + 1)[i]
  <2>1. CASE i = 1
    BY <1>3, <1>5, <1>6, <2>1
  <2>2. CASE i # 1
    <3>1. i - 1 \in 1 .. Len(v) /\ i - 1 \in 1 .. Len(w) - 1 /\ i - 1 \in 1 .. Len(w) /\ (i - 1) + 1 = i
      BY <1>1, <1>2, <2>2
    <3>2. (<<o>> \o v)[i] = IF i - 1 < n THEN w[i - 1] ELSE w[(i - 1) + 1]
      BY <1>2, <1>6, <3>1
    <3>3. Spliced(x, n + 1)[i] = IF i < n + 1 THEN x[i] ELSE x[i + 1]
      BY <1>5
    <3>4. x[i] = w[i - 1] /\ x[i + 1] = w[i]
      BY <1>3, <3>1
    <3> QED
      BY <3>1, <3>2, <3>3, <3>4
  <2> QED
    BY <2>1, <2>2
<1>8. <<o>> \o v = Spliced(x, n + 1)
  BY <1>5, <1>6, <1>7, SeqEqual
<1> QED
  BY <1>8 DEF v, x

\* The line of a key whose lock a call has, and of one that is free.
LEMMA LineFacts ==
  ASSUME Inv
  PROVE  /\ \A c \in Calls : Owns(c) => LineOf(KeyOf[c]) = <<c>> \o waiters[KeyOf[c]]
         /\ \A k \in Keys : (\A c \in Calls : KeyOf[c] = k => ~Owns(c)) => LineOf(k) = waiters[k]
<1>1. ASSUME NEW c \in Calls, Owns(c)
      PROVE  LineOf(KeyOf[c]) = <<c>> \o waiters[KeyOf[c]]
  <2>1. \A d \in Calls : KeyOf[d] = KeyOf[c] /\ Owns(d) => d = c
    BY <1>1 DEF Inv, MutualExclusion
  <2>2. (CHOOSE d \in Calls : KeyOf[d] = KeyOf[c] /\ Owns(d)) = c
    BY <1>1, <2>1
  <2> QED
    BY <1>1, <2>2 DEF LineOf
<1> QED
  BY <1>1 DEF LineOf

\* The same after a step.
LEMMA LineFactsNext ==
  ASSUME Inv'
  PROVE  /\ \A c \in Calls : Owns(c)' => LineOf(KeyOf[c])' = <<c>> \o waiters'[KeyOf[c]]
         /\ \A k \in Keys : (\A c \in Calls : KeyOf[c] = k => ~Owns(c)') => LineOf(k)' = waiters'[k]
<1>1. ASSUME NEW c \in Calls, Owns(c)'
      PROVE  LineOf(KeyOf[c])' = <<c>> \o waiters'[KeyOf[c]]
  <2>1. \A d \in Calls : KeyOf[d] = KeyOf[c] /\ Owns(d)' => d = c
    BY <1>1 DEF Inv, MutualExclusion
  <2>2. (CHOOSE d \in Calls : KeyOf[d] = KeyOf[c] /\ Owns(d)') = c
    BY <1>1, <2>1
  <2> QED
    BY <1>1, <2>2 DEF LineOf
<1> QED
  BY <1>1 DEF LineOf

\* A step that changes one key's line.
LEMMA OneLine ==
  ASSUME Inv, Inv', NEW k \in Keys,
         \A q \in Keys \ {k} : waiters'[q] = waiters[q],
         \A d \in Calls : KeyOf[d] # k => (Owns(d)' <=> Owns(d))
  PROVE  [q \in Keys |-> LineOf(q)'] = [[q \in Keys |-> LineOf(q)] EXCEPT ![k] = LineOf(k)']
<1>1. ASSUME NEW q \in Keys, q # k
      PROVE  LineOf(q)' = LineOf(q)
  <2>1. CASE \E d \in Calls : KeyOf[d] = q /\ Owns(d)
    <3>1. PICK d \in Calls : KeyOf[d] = q /\ Owns(d)
      BY <2>1
    <3>2. Owns(d)'
      BY <1>1, <3>1
    <3>3. LineOf(q) = <<d>> \o waiters[q]
      BY <3>1, LineFacts
    <3>4. LineOf(q)' = <<d>> \o waiters'[q]
      BY <3>1, <3>2, LineFactsNext
    <3> QED
      BY <1>1, <3>3, <3>4
  <2>2. CASE \A d \in Calls : KeyOf[d] = q => ~Owns(d)
    <3>1. \A d \in Calls : KeyOf[d] = q => ~Owns(d)'
      BY <1>1, <2>2
    <3>2. LineOf(q) = waiters[q] /\ LineOf(q)' = waiters'[q]
      BY <2>2, <3>1, LineFacts, LineFactsNext
    <3> QED
      BY <1>1, <3>2
  <2> QED
    BY <2>1, <2>2
<1> QED
  BY <1>1

\* The mapped line.
Lines == [k \in Keys |-> LineOf(k)]

\* Every step of the mutex is one of the abstract lock, or none.
LEMMA StepImplements ==
  ASSUME MutexAssumption, Inv, Inv', Next
  PROVE  Lock!Next \/ Lines' = Lines
<1> USE DEF Lines
<1>1. ASSUME NEW c \in Calls, Acquire(c)
      PROVE  Lock!Ask(c)
  <2> DEFINE k == KeyOf[c]
  <2>1. k \in Keys /\ waiters[k] \in Seq(Calls) /\ waiters'[k] \in Seq(Calls) /\ ~Owns(c) /\ phase[c] # "waiting"
    BY <1>1 DEF MutexAssumption, Inv, TypeOK, Acquire, Callable, Owns
  <2>2. CASE k \in locked
    <3>1. /\ waiters' = [waiters EXCEPT ![k] = Append(waiters[k], c)]
          /\ phase' = [phase EXCEPT ![c] = "waiting"]
      BY <1>1, <2>2 DEF Acquire
    <3>2. \A d \in Calls : Owns(d)' <=> Owns(d)
      BY <2>1, <3>1 DEF Inv, TypeOK, Owns
    <3>3. PICK o \in Calls : KeyOf[o] = k /\ Owns(o)
      BY <2>2 DEF Inv, LockIsOwned
    <3>4. waiters'[k] = Append(waiters[k], c) /\ \A q \in Keys \ {k} : waiters'[q] = waiters[q]
      BY <2>1, <3>1 DEF Inv, TypeOK
    <3>5. LineOf(k) = <<o>> \o waiters[k] /\ LineOf(k)' = <<o>> \o Append(waiters[k], c)
      <4>1. LineOf(k) = <<o>> \o waiters[k]
        BY <3>3, LineFacts
      <4>2. Owns(o)'
        BY <3>2, <3>3
      <4>3. LineOf(k)' = <<o>> \o waiters'[k]
        BY <3>3, <4>2, LineFactsNext
      <4> QED
        BY <3>4, <4>1, <4>3
    <3>6. LineOf(k)' = Append(LineOf(k), c)
      BY <2>1, <3>5, ConsOperations
    <3>7. Lines' = [Lines EXCEPT ![k] = LineOf(k)']
      BY <2>1, <3>2, <3>4, OneLine
    <3>8. ASSUME NEW i \in 1 .. Len(Lines[k]) PROVE Lines[k][i] # c
      <4>1. Lines[k] = <<o>> \o waiters[k] /\ Len(Lines[k]) = Len(waiters[k]) + 1 /\ Len(waiters[k]) \in Nat
        BY <2>1, <3>5, ConsFacts
      <4>2. CASE i = 1
        BY <2>1, <3>3, <4>1, <4>2, ConsFacts
      <4>3. CASE i # 1
        <5>1. i - 1 \in 1 .. Len(waiters[k]) /\ (i - 1) + 1 = i
          BY <3>8, <4>1, <4>3
        <5>2. Lines[k][i] = waiters[k][i - 1]
          BY <2>1, <4>1, <5>1, ConsFacts
        <5> QED
          BY <2>1, <5>1, <5>2 DEF Inv, LockIsOwned
      <4> QED
        BY <4>2, <4>3
    <3> HIDE DEF k
    <3>9. Lines[k] = LineOf(k)
      BY <2>1
    <3> HIDE DEF Lines
    <3>10. Lines' = [Lines EXCEPT ![k] = Append(Lines[k], c)]
      BY <3>6, <3>7, <3>9
    <3> QED
      BY <3>8, <3>10 DEF Lock!Ask, Lock!Stands, Lines, k
  <2>3. CASE k \notin locked
    <3>1. waiters' = waiters /\ phase' = [phase EXCEPT ![c] = "granted"]
      BY <1>1, <2>3 DEF Acquire
    <3>2. \A d \in Calls : Owns(d)' <=> (Owns(d) \/ d = c)
      BY <3>1 DEF Inv, TypeOK, Owns
    <3>3. waiters[k] = <<>> /\ \A d \in Calls : KeyOf[d] = k => ~Owns(d)
      BY <2>1, <2>3 DEF Inv, LockIsOwned
    <3>4. LineOf(k) = <<>>
      BY <2>1, <3>3, LineFacts
    <3>5. LineOf(k)' = <<c>> \o <<>>
      BY <3>1, <3>2, <3>3, LineFactsNext
    <3>6. LineOf(k)' = Append(LineOf(k), c)
      BY <3>4, <3>5
    <3>7. Lines' = [Lines EXCEPT ![k] = LineOf(k)']
      BY <2>1, <3>1, <3>2, OneLine
    <3>8. Lines[k] = LineOf(k)
      BY <2>1
    <3> HIDE DEF Lines
    <3>9. Lines' = [Lines EXCEPT ![k] = Append(Lines[k], c)] /\ Len(Lines[k]) = 0
      BY <3>4, <3>6, <3>7, <3>8
    <3> QED
      BY <3>9 DEF Lock!Ask, Lock!Stands, Lines
  <2> QED
    BY <2>2, <2>3
<1>2. ASSUME NEW c \in Calls, Enter(c)
      PROVE  Lines' = Lines
  <2>1. waiters' = waiters /\ \A d \in Calls : Owns(d)' <=> Owns(d)
    BY <1>2 DEF Enter, Inv, TypeOK, Owns
  <2>2. KeyOf[c] \in Keys
    BY DEF MutexAssumption
  <2>3. Lines' = [Lines EXCEPT ![KeyOf[c]] = LineOf(KeyOf[c])']
    BY <2>1, <2>2, OneLine
  <2>4. Owns(c)
    BY <1>2 DEF Enter, Owns
  <2>5. LineOf(KeyOf[c])' = LineOf(KeyOf[c])
    BY <2>1, <2>4, LineFacts, LineFactsNext
  <2> QED
    BY <2>2, <2>3, <2>5
<1>3. ASSUME NEW c \in Calls, Leave(c)
      PROVE  Lock!Leave(c)
  <2> DEFINE k == KeyOf[c]
  <2>1. k \in Keys /\ waiters[k] \in Seq(Calls) /\ phase[c] = "inside" /\ Owns(c)
    BY <1>3 DEF MutexAssumption, Inv, TypeOK, Leave, Owns
  <2>2. LineOf(k) = <<c>> \o waiters[k]
    BY <2>1, LineFacts
  <2>3. LineOf(k) # <<>> /\ Head(LineOf(k)) = c /\ Tail(LineOf(k)) = waiters[k]
    BY <2>1, <2>2, ConsFacts, ConsOperations
  <2>4. /\ \A q \in Keys \ {k} : waiters'[q] = waiters[q]
        /\ \A d \in Calls : KeyOf[d] # k => (Owns(d)' <=> Owns(d))
        /\ LineOf(k)' = waiters[k]
    <3>1. CASE waiters[k] = <<>>
      <4>1. phase' = [phase EXCEPT ![c] = "idle"] /\ waiters' = waiters
        BY <1>3, <3>1 DEF Leave, Released
      <4>2. \A d \in Calls : Owns(d)' <=> (Owns(d) /\ d # c)
        BY <4>1 DEF Inv, TypeOK, Owns
      <4>3. \A d \in Calls : KeyOf[d] = k => ~Owns(d)'
        BY <2>1, <4>2 DEF Inv, MutualExclusion
      <4> QED
        BY <2>1, <4>1, <4>2, <4>3, LineFactsNext
    <3>2. CASE waiters[k] # <<>>
      <4> DEFINE h == Head(waiters[k])
                 w == Tail(waiters[k])
      <4>1. /\ phase' = [phase EXCEPT ![c] = "idle", ![h] = "granted"]
            /\ waiters' = [waiters EXCEPT ![k] = w]
        BY <1>3, <3>2 DEF Leave, Released
      <4>2. h = waiters[k][1] /\ h \in Calls /\ w \in Seq(Calls) /\ 1 \in 1 .. Len(waiters[k])
        BY <2>1, <3>2, TailFacts
      <4>3. <<h>> \o w = waiters[k]
        BY <2>1, <3>2, ConsOperations
      <4>4. KeyOf[h] = k /\ phase[h] = "waiting"
        BY <2>1, <4>2 DEF Inv, LockIsOwned
      <4> HIDE DEF h, w
      <4>5. \A d \in Calls : Owns(d)' <=> ((Owns(d) /\ d # c) \/ d = h)
        BY <2>1, <4>1, <4>2, <4>4 DEF Inv, TypeOK, Owns
      <4>6. waiters'[k] = w /\ \A q \in Keys \ {k} : waiters'[q] = waiters[q]
        BY <2>1, <4>1 DEF Inv, TypeOK
      <4>7. LineOf(k)' = <<h>> \o w
        BY <4>2, <4>4, <4>5, <4>6, LineFactsNext
      <4> QED
        BY <4>3, <4>4, <4>5, <4>6, <4>7
    <3> QED
      BY <3>1, <3>2
  <2>5. Lines' = [Lines EXCEPT ![k] = LineOf(k)']
    BY <2>1, <2>4, OneLine
  <2>6. Lines[k] = LineOf(k)
    BY <2>1
  <2> HIDE DEF Lines
  <2>7. Lines' = [Lines EXCEPT ![k] = Tail(Lines[k])] /\ Lines[k] # <<>> /\ Head(Lines[k]) = c
    BY <2>3, <2>4, <2>5, <2>6
  <2> QED
    BY <2>7 DEF Lock!Leave, Lines
<1>4. ASSUME NEW c \in Calls, Timeout(c)
      PROVE  Lock!GiveUp(c)
  <2> DEFINE k == KeyOf[c]
  <2>1. k \in Keys /\ waiters[k] \in Seq(Calls) /\ phase[c] = "waiting" /\ Len(waiters[k]) \in Nat
    BY <1>4 DEF MutexAssumption, Inv, TypeOK, Timeout, TimedOut
  <2>2. PICK n \in 1 .. Len(waiters[k]) :
           waiters[k][n] = c /\ waiters' = [waiters EXCEPT ![k] = Spliced(waiters[k], n)]
    BY <1>4 DEF Timeout
  <2>3. phase' = [phase EXCEPT ![c] = "failed"]
    BY <1>4 DEF Timeout
  <2>4. \A d \in Calls : Owns(d)' <=> Owns(d)
    BY <2>1, <2>3 DEF Inv, TypeOK, Owns
  <2>5. PICK o \in Calls : KeyOf[o] = k /\ Owns(o)
    BY <2>1, <2>2 DEF Inv, LockIsOwned
  <2>6. waiters'[k] = Spliced(waiters[k], n) /\ \A q \in Keys \ {k} : waiters'[q] = waiters[q]
    BY <2>1, <2>2 DEF Inv, TypeOK
  <2>7. LineOf(k) = <<o>> \o waiters[k] /\ LineOf(k)' = <<o>> \o Spliced(waiters[k], n)
    <3>1. LineOf(k) = <<o>> \o waiters[k]
      BY <2>5, LineFacts
    <3>2. Owns(o)'
      BY <2>4, <2>5
    <3>3. LineOf(k)' = <<o>> \o waiters'[k]
      BY <2>5, <3>2, LineFactsNext
    <3> QED
      BY <2>6, <3>1, <3>3
  <2>8. LineOf(k)' = Spliced(LineOf(k), n + 1)
    <3>1. <<o>> \o Spliced(waiters[k], n) = Spliced(<<o>> \o waiters[k], n + 1)
      BY <2>1, ConsSpliced, SMTT(30)
    <3> QED
      BY <2>7, <3>1
  <2>9. Len(LineOf(k)) = Len(waiters[k]) + 1 /\ LineOf(k)[n + 1] = c
    BY <2>1, <2>2, <2>7, ConsFacts
  <2>10. n + 1 \in 2 .. Len(LineOf(k))
    BY <2>1, <2>9
  <2>11. Lines' = [Lines EXCEPT ![k] = LineOf(k)']
    BY <2>1, <2>4, <2>6, OneLine
  <2>12. Lines[k] = LineOf(k)
    BY <2>1
  <2> HIDE DEF Lines
  <2>13. /\ n + 1 \in 2 .. Len(Lines[k]) /\ Lines[k][n + 1] = c
         /\ Lines' = [Lines EXCEPT ![k] = Spliced(Lines[k], n + 1)]
    BY <2>8, <2>9, <2>10, <2>11, <2>12
  <2>14. Lines' = [Lines EXCEPT ![k] = [j \in 1 .. Len(Lines[k]) - 1 |->
                      IF j < n + 1 THEN Lines[k][j] ELSE Lines[k][j + 1]]]
    BY <2>13 DEF Spliced
  <2> QED
    BY <2>13, <2>14 DEF Lock!GiveUp, Lines
<1> QED
  BY <1>1, <1>2, <1>3, <1>4 DEF Next, Lock!Next

\* withLock is the abstract lock: calls for a key stand in one line, in the order
\* in which they were made, and nobody overtakes.
THEOREM Implements == Spec => IsALock
<1>1. Init => Lock!Init
  <2> SUFFICES ASSUME Init PROVE Lock!Init
    OBVIOUS
  <2>1. \A k \in Keys : LineOf(k) = <<>>
    BY DEF Init, LineOf, Owns
  <2> QED
    BY <2>1 DEF Lock!Init
<1>2. Inv /\ Inv' /\ [Next]_vars => [Lock!Next]_([k \in Keys |-> LineOf(k)])
  <2> SUFFICES ASSUME Inv, Inv', [Next]_vars
               PROVE  Lock!Next \/ Lines' = Lines
    BY DEF Lines
  <2>1. CASE Next
    BY <2>1, MutexAssumption, StepImplements
  <2>2. CASE UNCHANGED vars
    BY <2>2 DEF vars, Lines, LineOf, Owns
  <2> QED
    BY <2>1, <2>2
<1> QED
  BY <1>1, <1>2, AlwaysInv, PTL DEF Spec, IsALock, Lock!Spec
=============================================================================
