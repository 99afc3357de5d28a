---------------------------- MODULE IoQueueProofs ----------------------------
(***************************************************************************)
(* Proofs about the I/O queue for every set of callers, every size and     *)
(* every set of bytes.                                                     *)
(***************************************************************************)
EXTENDS IoQueue, ListLemmas, FiniteSetTheorems

\* The mutex: who touches the ring owns it.
RingExclusion ==
    \A t \in Task : pc[t] \in {"in", "advance", "unlock"} <=> owner = t

\* A task sleeps only at the top of the loops of sema_down and mutex_lock.
SleepersAtTop ==
    \A t \in Task : status[t] = "BLOCKED" => pc[t] \in {"down", "lock"}

\* A task waits for the semaphore its call takes from.
WaitersTake ==
    \A l \in {"item", "slot"} : \A t \in Range(waiters[l]) : Takes(t) = l

\* What a call has in its hands between its two accesses to the ring.
ArgumentsHeld ==
    /\ \A t \in Putter : pc[t] \in {"down", "downsleep", "lock", "locksleep", "in", "advance"}
                            => data[t] \in Value
    /\ \A t \in Putter : pc[t] = "advance" => data[t] = buf[head]
    /\ \A t \in Getter : pc[t] = "advance" => data[t] = buf[tail]

\* At any time finitely many calls are under way: each step begins one at most.
FiniteCalls ==
    \A S \in {Putter, Getter} : IsFiniteSet(Entering(S)) /\ IsFiniteSet(Leaving(S))

\* The inductive invariant.
IInv == /\ TypeOK /\ FiniteCalls /\ CountersMatchRing
        /\ RingExclusion /\ ArgumentsHeld
        /\ SleepersAtTop /\ WaitersTake /\ WaitersSound

-----------------------------------------------------------------------------
(* The ring *)

\* NEXT_POS as a case distinction.
LEMMA NextIndexValue ==
    ASSUME NEW i \in 0..(Size - 1)
    PROVE  NextIndex(i) = IF i = Size - 1 THEN 0 ELSE i + 1
<1>1. Size \in Nat \ {0}
  BY IoQueueAssumption
<1>2. CASE i = Size - 1
  BY <1>1, <1>2 DEF NextIndex
<1>3. CASE i # Size - 1
  <2>1. i + 1 \in 0..(Size - 1)
    BY <1>1, <1>3
  <2> QED BY <1>1, <1>3, <2>1 DEF NextIndex
<1> QED BY <1>2, <1>3

\* ioq_len counts to one less than the size, and goes up with head and down
\* with tail (ioqueue.c:30-39, 61, 78).
LEMMA LenMoves ==
    ASSUME head \in 0..(Size - 1), tail \in 0..(Size - 1)
    PROVE  /\ IoqLen \in 0..(Size - 1)
           /\ IoqLen < Size - 1 /\ head' = NextIndex(head) /\ tail' = tail
                => IoqLen' = IoqLen + 1
           /\ IoqLen > 0 /\ tail' = NextIndex(tail) /\ head' = head
                => IoqLen' = IoqLen - 1
<1>1. Size \in Nat \ {0}
  BY IoQueueAssumption
<1>2. IoqLen \in 0..(Size - 1)
  BY <1>1 DEF IoqLen
<1>3. ASSUME IoqLen < Size - 1, head' = NextIndex(head), tail' = tail
      PROVE  IoqLen' = IoqLen + 1
  BY <1>1, <1>3, NextIndexValue DEF IoqLen
<1>4. ASSUME IoqLen > 0, tail' = NextIndex(tail), head' = head
      PROVE  IoqLen' = IoqLen - 1
  BY <1>1, <1>4, NextIndexValue DEF IoqLen
<1> QED BY <1>2, <1>3, <1>4

-----------------------------------------------------------------------------
(* The calls under way *)

EnterPC == {"lock", "locksleep", "in", "advance"}
LeavePC == {"unlock", "up"}

\* A step of t changes the number of calls that have a unit of a semaphore by t.
LEMMA CallsMove ==
    ASSUME NEW S, pc \in [Task -> PC], S \subseteq Task,
           IsFiniteSet(Entering(S)), IsFiniteSet(Leaving(S)),
           NEW t \in Task, NEW a \in PC, NEW b \in PC, Goto(t, a, b)
    PROVE  /\ IsFiniteSet(Entering(S)')
           /\ Cardinality(Entering(S)') = Cardinality(Entering(S))
                + (IF t \in S /\ b \in EnterPC THEN 1 ELSE 0)
                - (IF t \in S /\ a \in EnterPC THEN 1 ELSE 0)
           /\ IsFiniteSet(Leaving(S)')
           /\ Cardinality(Leaving(S)') = Cardinality(Leaving(S))
                + (IF t \in S /\ b \in LeavePC THEN 1 ELSE 0)
                - (IF t \in S /\ a \in LeavePC THEN 1 ELSE 0)
<1> USE DEF Goto, EnterPC, LeavePC
<1>1. /\ t \in Entering(S) <=> t \in S /\ a \in EnterPC
      /\ t \in Leaving(S) <=> t \in S /\ a \in LeavePC
  BY DEF Entering, Leaving
<1>2. /\ Entering(S)' = IF t \in S /\ b \in EnterPC THEN Entering(S) \cup {t}
                                                    ELSE Entering(S) \ {t}
      /\ Leaving(S)' = IF t \in S /\ b \in LeavePC THEN Leaving(S) \cup {t}
                                                   ELSE Leaving(S) \ {t}
  BY DEF Entering, Leaving
<1>3. Cardinality(Entering(S)) \in Nat /\ Cardinality(Leaving(S)) \in Nat
  BY FS_CardinalityType
<1>4. /\ IsFiniteSet(Entering(S) \cup {t}) /\ IsFiniteSet(Entering(S) \ {t})
      /\ Cardinality(Entering(S) \cup {t}) =
            IF t \in Entering(S) THEN Cardinality(Entering(S)) ELSE Cardinality(Entering(S)) + 1
      /\ Cardinality(Entering(S) \ {t}) =
            IF t \in Entering(S) THEN Cardinality(Entering(S)) - 1 ELSE Cardinality(Entering(S))
  BY FS_AddElement, FS_RemoveElement
<1>5. /\ IsFiniteSet(Leaving(S) \cup {t}) /\ IsFiniteSet(Leaving(S) \ {t})
      /\ Cardinality(Leaving(S) \cup {t}) =
            IF t \in Leaving(S) THEN Cardinality(Leaving(S)) ELSE Cardinality(Leaving(S)) + 1
      /\ Cardinality(Leaving(S) \ {t}) =
            IF t \in Leaving(S) THEN Cardinality(Leaving(S)) - 1 ELSE Cardinality(Leaving(S))
  BY FS_AddElement, FS_RemoveElement
<1> HIDE DEF EnterPC, LeavePC
<1>6. /\ IsFiniteSet(Entering(S)')
      /\ Cardinality(Entering(S)') = Cardinality(Entering(S))
           + (IF t \in S /\ b \in EnterPC THEN 1 ELSE 0)
           - (IF t \in S /\ a \in EnterPC THEN 1 ELSE 0)
  BY <1>1, <1>2, <1>3, <1>4
<1>7. /\ IsFiniteSet(Leaving(S)')
      /\ Cardinality(Leaving(S)') = Cardinality(Leaving(S))
           + (IF t \in S /\ b \in LeavePC THEN 1 ELSE 0)
           - (IF t \in S /\ a \in LeavePC THEN 1 ELSE 0)
  BY <1>1, <1>2, <1>3, <1>5
<1> QED BY <1>6, <1>7

\* Each step moves one call.
LEMMA StepGoto ==
    ASSUME NEW t \in Task, CallPut(t) \/ CallGet(t) \/ Step(t)
    PROVE  \E a, b \in PC : Goto(t, a, b)
BY DEF PC, CallPut, CallGet, Step, Down, Lock, Sleep, Store, Fetch, Advance, Unlock, Up

\* A step of one task changes one call.
LEMMA FiniteCallsKept ==
    ASSUME TypeOK, FiniteCalls, NEW t \in Task, CallPut(t) \/ CallGet(t) \/ Step(t)
    PROVE  FiniteCalls'
<1>1. PICK a \in PC, b \in PC : Goto(t, a, b)
  BY StepGoto
<1>2. Putter \subseteq Task /\ Getter \subseteq Task /\ pc \in [Task -> PC]
  BY DEF Task, TypeOK
<1>3. IsFiniteSet(Entering(Putter)') /\ IsFiniteSet(Leaving(Putter)')
  BY <1>1, <1>2, CallsMove DEF FiniteCalls
<1>4. IsFiniteSet(Entering(Getter)') /\ IsFiniteSet(Leaving(Getter)')
  BY <1>1, <1>2, CallsMove DEF FiniteCalls
<1> QED BY <1>3, <1>4 DEF FiniteCalls

\* The numbers CountersMatchRing adds up are natural numbers.
LEMMA CallsCounted ==
    ASSUME FiniteCalls
    PROVE  /\ Cardinality(Entering(Putter)) \in Nat /\ Cardinality(Leaving(Putter)) \in Nat
           /\ Cardinality(Entering(Getter)) \in Nat /\ Cardinality(Leaving(Getter)) \in Nat
BY FS_CardinalityType DEF FiniteCalls

\* A call with a unit of a semaphore is one of those that are counted.
LEMMA CallCounts ==
    ASSUME FiniteCalls, NEW S \in {Putter, Getter}, NEW t \in S
    PROVE  /\ pc[t] \in EnterPC => Cardinality(Entering(S)) >= 1
           /\ pc[t] \in LeavePC => Cardinality(Leaving(S)) >= 1
<1>1. /\ Cardinality(Entering(S)) \in Nat /\ Cardinality(Leaving(S)) \in Nat
      /\ Entering(S) # {} => Cardinality(Entering(S)) # 0
      /\ Leaving(S) # {} => Cardinality(Leaving(S)) # 0
  BY FS_CardinalityType, FS_EmptySet DEF FiniteCalls
<1>2. /\ pc[t] \in EnterPC => t \in Entering(S)
      /\ pc[t] \in LeavePC => t \in Leaving(S)
  BY DEF Entering, Leaving, EnterPC, LeavePC
<1> QED BY <1>1, <1>2

\* The counters follow the ring through every step: a unit is taken before head or
\* tail moves, and given back behind it (ioqueue.c:57-66, 73-82).
LEMMA CountersKept ==
    ASSUME TypeOK, FiniteCalls, CountersMatchRing,
           NEW t \in Task, CallPut(t) \/ CallGet(t) \/ Step(t)
    PROVE  CountersMatchRing'
<1> DEFINE EP == Cardinality(Entering(Putter))
           EG == Cardinality(Entering(Getter))
           LP == Cardinality(Leaving(Putter))
           LG == Cardinality(Leaving(Getter))
<1>1. /\ Putter \subseteq Task /\ Getter \subseteq Task /\ Task = Putter \cup Getter
      /\ Putter \cap Getter = {} /\ pc \in [Task -> PC] /\ Size \in Nat \ {0}
  BY IoQueueAssumption DEF Task, TypeOK
<1>2. EP \in Nat /\ EG \in Nat /\ LP \in Nat /\ LG \in Nat /\ IoqLen \in 0..(Size - 1)
  BY CallsCounted, LenMoves DEF TypeOK
<1>3. /\ count["item"] = IoqLen - LP - EG /\ count["slot"] = Size - 1 - IoqLen - LG - EP
      /\ count["item"] \in Nat /\ count["slot"] \in Nat
  BY <1>1 DEF CountersMatchRing, TypeOK
<1> SUFFICES /\ count'["item"] = IoqLen' - LP' - EG'
             /\ count'["slot"] = Size - 1 - IoqLen' - LG' - EP'
  BY DEF CountersMatchRing
<1>4. ASSUME NEW a \in PC, NEW b \in PC, Goto(t, a, b)
      PROVE  /\ EP' = EP + (IF t \in Putter /\ b \in EnterPC THEN 1 ELSE 0)
                         - (IF t \in Putter /\ a \in EnterPC THEN 1 ELSE 0)
             /\ LP' = LP + (IF t \in Putter /\ b \in LeavePC THEN 1 ELSE 0)
                         - (IF t \in Putter /\ a \in LeavePC THEN 1 ELSE 0)
             /\ EG' = EG + (IF t \in Getter /\ b \in EnterPC THEN 1 ELSE 0)
                         - (IF t \in Getter /\ a \in EnterPC THEN 1 ELSE 0)
             /\ LG' = LG + (IF t \in Getter /\ b \in LeavePC THEN 1 ELSE 0)
                         - (IF t \in Getter /\ a \in LeavePC THEN 1 ELSE 0)
  <2>1. IsFiniteSet(Entering(Putter)) /\ IsFiniteSet(Leaving(Putter))
    BY DEF FiniteCalls
  <2>2. IsFiniteSet(Entering(Getter)) /\ IsFiniteSet(Leaving(Getter))
    BY DEF FiniteCalls
  <2>3. /\ EP' = EP + (IF t \in Putter /\ b \in EnterPC THEN 1 ELSE 0)
                    - (IF t \in Putter /\ a \in EnterPC THEN 1 ELSE 0)
        /\ LP' = LP + (IF t \in Putter /\ b \in LeavePC THEN 1 ELSE 0)
                    - (IF t \in Putter /\ a \in LeavePC THEN 1 ELSE 0)
    BY <1>1, <1>4, <2>1, CallsMove
  <2>4. /\ EG' = EG + (IF t \in Getter /\ b \in EnterPC THEN 1 ELSE 0)
                    - (IF t \in Getter /\ a \in EnterPC THEN 1 ELSE 0)
        /\ LG' = LG + (IF t \in Getter /\ b \in LeavePC THEN 1 ELSE 0)
                    - (IF t \in Getter /\ a \in LeavePC THEN 1 ELSE 0)
    BY <1>1, <1>4, <2>2, CallsMove
  <2> QED BY <2>3, <2>4
<1>5. UNCHANGED <<head, tail>> => IoqLen' = IoqLen
  BY DEF IoqLen
<1> HIDE DEF EP, EG, LP, LG
<1>6. CASE CallPut(t) \/ CallGet(t)
  <2>1. Goto(t, "out", "down") /\ UNCHANGED <<head, tail, count>>
    BY <1>6 DEF CallPut, CallGet, ring
  <2> QED BY <1>2, <1>3, <1>4, <1>5, <2>1 DEF PC, EnterPC, LeavePC
<1>7. CASE Down(t)
  <2>1. CASE count[Takes(t)] > 0
    <3>1. /\ Goto(t, "down", "lock") /\ UNCHANGED <<head, tail>>
          /\ count' = [count EXCEPT ![Takes(t)] = @ - 1]
      BY <1>7, <2>1 DEF Down, ring
    <3>2. IF t \in Putter
          THEN count'["slot"] = count["slot"] - 1 /\ count'["item"] = count["item"]
          ELSE count'["item"] = count["item"] - 1 /\ count'["slot"] = count["slot"]
      BY <3>1 DEF Takes, TypeOK
    <3> QED BY <1>1, <1>2, <1>3, <1>4, <1>5, <3>1, <3>2 DEF PC, EnterPC, LeavePC
  <2>2. CASE ~(count[Takes(t)] > 0)
    <3>1. Goto(t, "down", "downsleep") /\ UNCHANGED <<head, tail, count>>
      BY <1>7, <2>2 DEF Down, ring
    <3> QED BY <1>2, <1>3, <1>4, <1>5, <3>1 DEF PC, EnterPC, LeavePC
  <2> QED BY <2>1, <2>2
<1>8. CASE Lock(t) \/ Sleep(t) \/ Store(t) \/ Fetch(t)
  <2>1. UNCHANGED <<head, tail, count>>
    BY <1>8 DEF Lock, Sleep, Store, Fetch, ring
  <2>2. PICK a \in PC, b \in PC : /\ Goto(t, a, b)
                                  /\ a \in EnterPC <=> b \in EnterPC
                                  /\ a \notin LeavePC /\ b \notin LeavePC
    BY <1>8 DEF Lock, Sleep, Store, Fetch, PC, EnterPC, LeavePC
  <2> QED BY <1>2, <1>3, <1>4, <1>5, <2>1, <2>2
<1>9. CASE Advance(t)
  <2>1. Goto(t, "advance", "unlock") /\ count' = count
    BY <1>9 DEF Advance
  <2>2. pc[t] \in EnterPC
    BY <2>1 DEF Goto, EnterPC
  <2>3. CASE t \in Putter
    <3>1. EP >= 1
      BY <2>2, <2>3, CallCounts DEF EP
    <3>2. IoqLen' = IoqLen + 1
      <4>1. IoqLen < Size - 1
        BY <1>1, <1>2, <1>3, <3>1
      <4> QED BY <1>9, <2>3, <4>1, LenMoves DEF Advance, TypeOK
    <3>3. t \notin Getter
      BY <1>1, <2>3
    <3>4. EP' = EP - 1 /\ LP' = LP + 1 /\ EG' = EG /\ LG' = LG
      BY <1>2, <1>4, <2>1, <2>3, <3>3 DEF PC, EnterPC, LeavePC
    <3> QED BY <1>2, <1>3, <2>1, <3>2, <3>4, IoQueueAssumption
  <2>4. CASE t \in Getter
    <3>1. EG >= 1
      BY <2>2, <2>4, CallCounts DEF EG
    <3>2. IoqLen' = IoqLen - 1
      <4>1. IoqLen > 0
        BY <1>1, <1>2, <1>3, <3>1
      <4> QED BY <1>1, <1>9, <2>4, <4>1, LenMoves DEF Advance, TypeOK
    <3>3. t \notin Putter
      BY <1>1, <2>4
    <3>4. EG' = EG - 1 /\ LG' = LG + 1 /\ EP' = EP /\ LP' = LP
      BY <1>2, <1>4, <2>1, <2>4, <3>3 DEF PC, EnterPC, LeavePC
    <3> QED BY <1>2, <1>3, <2>1, <3>2, <3>4, IoQueueAssumption
  <2> QED BY <1>1, <2>3, <2>4
<1>10. CASE Unlock(t)
  <2>1. Goto(t, "unlock", "up") /\ UNCHANGED <<head, tail, count>>
    BY <1>10 DEF Unlock, ring
  <2> QED BY <1>2, <1>3, <1>4, <1>5, <2>1 DEF PC, EnterPC, LeavePC
<1>11. CASE Up(t)
  <2>1. /\ Goto(t, "up", "out") /\ UNCHANGED <<head, tail>>
        /\ count' = [count EXCEPT ![Gives(t)] = @ + 1]
    BY <1>11 DEF Up, ring
  <2>2. IF t \in Putter
        THEN count'["item"] = count["item"] + 1 /\ count'["slot"] = count["slot"]
        ELSE count'["slot"] = count["slot"] + 1 /\ count'["item"] = count["item"]
    BY <2>1 DEF Gives, TypeOK
  <2> QED BY <1>1, <1>2, <1>3, <1>4, <1>5, <2>1, <2>2 DEF PC, EnterPC, LeavePC
<1> QED BY <1>6, <1>7, <1>8, <1>9, <1>10, <1>11 DEF Step

-----------------------------------------------------------------------------
(* The lists of waiters *)

Lists == {"item", "slot", "mlock"}

\* sema_down and mutex_lock link a task that is not linked (lock.c:101, 146).
LEMMA EnqueueLinks ==
    ASSUME TypeOK, WaitersSound, NEW l \in Lists, NEW t \in Task,
           t \notin Range(waiters[l]), Enqueue(t, l)
    PROVE  /\ waiters' \in [Lists -> Seq(Task)]
           /\ \A m \in Lists : /\ ListDistinct(waiters'[m])
                               /\ Range(waiters'[m]) = IF m = l THEN Range(waiters[l]) \cup {t}
                                                                ELSE Range(waiters[m])
<1>1. waiters[l] \in Seq(Task) /\ ListDistinct(waiters[l]) /\ waiters \in [Lists -> Seq(Task)]
  BY DEF TypeOK, WaitersSound, Lists
<1>2. /\ ListAppend(waiters[l], t) \in Seq(Task)
      /\ ListDistinct(ListAppend(waiters[l], t))
      /\ Range(ListAppend(waiters[l], t)) = Range(waiters[l]) \cup {t}
  BY <1>1, AppendFresh
<1>3. waiters' = [waiters EXCEPT ![l] = ListAppend(waiters[l], t)]
  BY DEF Enqueue
<1>4. \A m \in Lists : ListDistinct(waiters[m])
  BY DEF WaitersSound, Lists
<1>5. \A m \in Lists : waiters'[m] = IF m = l THEN ListAppend(waiters[l], t) ELSE waiters[m]
  BY <1>1, <1>3
<1>6. waiters' \in [Lists -> Seq(Task)]
  BY <1>1, <1>2, <1>3
<1> QED BY <1>2, <1>4, <1>5, <1>6

\* A task is linked in one list at most.
LEMMA OneList ==
    ASSUME WaitersTake, WaitersSound, NEW l \in Lists, NEW m \in Lists,
           NEW t, t \in Range(waiters[l]), t \in Range(waiters[m])
    PROVE  l = m
<1>1. CASE l = "mlock" \/ m = "mlock"
  <2>1. \A n \in Lists : t \in Range(waiters[n]) =>
           (n = "mlock" <=> pc[t] \in {"lock", "locksleep"})
    BY DEF WaitersSound, Lists
  <2> QED BY <1>1, <2>1
<1>2. CASE l # "mlock" /\ m # "mlock"
  <2>1. l \in {"item", "slot"} /\ m \in {"item", "slot"}
    BY <1>2 DEF Lists
  <2>2. t \in Range(waiters[l]) /\ t \in Range(waiters[m])
    OBVIOUS
  <2>3. Takes(t) = l /\ Takes(t) = m
    BY <2>1, <2>2 DEF WaitersTake
  <2> QED BY <2>3
<1> QED BY <1>1, <1>2

\* The woken task leaves the only list it is in: those that stay linked sleep on
\* (lock.c:120-121, 165-166).
LEMMA WakeFirstUnlinks ==
    ASSUME TypeOK, WaitersTake, WaitersSound, NEW l \in Lists, WakeFirst(l)
    PROVE  /\ waiters' \in [Lists -> Seq(Task)]
           /\ status' \in [Task -> {"RUNNABLE", "BLOCKED"}]
           /\ \A t \in Task : status'[t] = "BLOCKED" => status[t] = "BLOCKED"
           /\ \A m \in Lists : /\ ListDistinct(waiters'[m])
                               /\ \A t \in Range(waiters'[m]) : /\ t \in Range(waiters[m])
                                                                /\ status'[t] = status[t]
<1>1. /\ waiters \in [Lists -> Seq(Task)] /\ status \in [Task -> {"RUNNABLE", "BLOCKED"}]
      /\ \A m \in Lists : ListDistinct(waiters[m])
  BY DEF TypeOK, WaitersSound, Lists
<1>2. CASE waiters[l] = <<>>
  BY <1>1, <1>2 DEF WakeFirst
<1>3. CASE waiters[l] # <<>>
  <2> DEFINE h == Head(waiters[l])
  <2>1. /\ h \in Task /\ h \in Range(waiters[l]) /\ Tail(waiters[l]) \in Seq(Task)
        /\ ListDistinct(Tail(waiters[l]))
        /\ Range(Tail(waiters[l])) = Range(waiters[l]) \ {h}
    BY <1>1, <1>3, PopDistinct
  <2>2. /\ waiters' = [waiters EXCEPT ![l] = Tail(waiters[l])]
        /\ status' = [status EXCEPT ![h] = "RUNNABLE"]
    BY <1>3 DEF WakeFirst
  <2> HIDE DEF h
  <2>3. \A m \in Lists : waiters'[m] = IF m = l THEN Tail(waiters[l]) ELSE waiters[m]
    BY <1>1, <2>2
  <2>4. waiters' \in [Lists -> Seq(Task)]
    BY <1>1, <2>1, <2>2
  <2>5. /\ status' \in [Task -> {"RUNNABLE", "BLOCKED"}]
        /\ \A t \in Task : status'[t] = "BLOCKED" => status[t] = "BLOCKED"
    BY <1>1, <2>1, <2>2
  <2>6. ASSUME NEW m \in Lists
        PROVE  /\ ListDistinct(waiters'[m])
               /\ \A t \in Range(waiters'[m]) : t \in Range(waiters[m]) /\ status'[t] = status[t]
    <3>1. ListDistinct(waiters'[m])
      BY <1>1, <2>1, <2>3
    <3>2. ASSUME NEW t \in Range(waiters'[m]) PROVE t \in Range(waiters[m]) /\ t # h
      <4>1. CASE m = l
        BY <2>1, <2>3, <3>2, <4>1
      <4>2. CASE m # l
        <5>1. t \in Range(waiters[m])
          BY <2>3, <3>2, <4>2
        <5> QED BY <2>1, <4>2, <5>1, OneList
      <4> QED BY <4>1, <4>2
    <3>3. \A t \in Range(waiters[m]) : t \in Task
      BY <1>1, RangeOfSeq
    <3> QED BY <1>1, <2>2, <3>1, <3>2, <3>3
  <2> QED BY <2>4, <2>5, <2>6
<1> QED BY <1>2, <1>3

-----------------------------------------------------------------------------
(* The invariant *)

\* An empty queue that nobody calls.
LEMMA InitIInv == Init => IInv
<1> SUFFICES ASSUME Init PROVE IInv
  OBVIOUS
<1>1. Size \in Nat \ {0} /\ Putter \cap Getter = {} /\ NULL \notin Task /\ Task = Putter \cup Getter
  BY IoQueueAssumption DEF Task
<1>2. \A l \in Lists : waiters[l] = <<>> /\ Range(waiters[l]) = {} /\ ListDistinct(waiters[l])
  BY EmptyRange DEF Init, Lists, ListDistinct, IsInjective
<1>3. /\ Entering(Putter) = {} /\ Entering(Getter) = {}
      /\ Leaving(Putter) = {} /\ Leaving(Getter) = {}
  BY <1>1 DEF Init, Entering, Leaving
<1>4. TypeOK
  <2>1. waiters \in [{"item", "slot", "mlock"} -> Seq(Task)]
    BY DEF Init
  <2>2. head \in 0..(Size - 1) /\ tail \in 0..(Size - 1)
    BY <1>1 DEF Init
  <2>3. count \in [{"item", "slot"} -> 0..(Size - 1)]
    BY <1>1 DEF Init
  <2> QED BY <2>1, <2>2, <2>3 DEF Init, TypeOK, PC
<1>5. FiniteCalls /\ CountersMatchRing
  <2>1. IsFiniteSet({}) /\ Cardinality({}) = 0
    BY FS_EmptySet
  <2>2. IoqLen = 0 /\ count["item"] = 0 /\ count["slot"] = Size - 1
    BY <1>1 DEF Init, IoqLen
  <2> QED BY <1>1, <1>3, <2>1, <2>2 DEF FiniteCalls, CountersMatchRing
<1>6. RingExclusion /\ ArgumentsHeld /\ SleepersAtTop
  BY <1>1 DEF Init, RingExclusion, ArgumentsHeld, SleepersAtTop
<1>7. WaitersTake /\ WaitersSound
  BY <1>2 DEF WaitersTake, WaitersSound, Lists
<1> QED BY <1>4, <1>5, <1>6, <1>7 DEF IInv

\* sema_up never counts beyond the bytes of the ring: it gives back what its call
\* took from the other semaphore.
LEMMA UpBounded ==
    ASSUME TypeOK, FiniteCalls, CountersMatchRing, NEW t \in Task, pc[t] = "up"
    PROVE  count[Gives(t)] + 1 \in 0..(Size - 1)
<1>1. Size \in Nat \ {0} /\ IoqLen \in 0..(Size - 1)
  BY IoQueueAssumption, LenMoves DEF TypeOK
<1>2. /\ Cardinality(Entering(Putter)) \in Nat /\ Cardinality(Leaving(Putter)) \in Nat
      /\ Cardinality(Entering(Getter)) \in Nat /\ Cardinality(Leaving(Getter)) \in Nat
  BY CallsCounted
<1>3. count["item"] \in Nat /\ count["slot"] \in Nat
  BY <1>1 DEF TypeOK
<1>4. CASE t \in Putter
  <2>1. Cardinality(Leaving(Putter)) >= 1
    BY <1>4, CallCounts DEF LeavePC
  <2> QED BY <1>1, <1>2, <1>3, <1>4, <2>1 DEF Gives, CountersMatchRing
<1>5. CASE t \in Getter /\ t \notin Putter
  <2>1. Cardinality(Leaving(Getter)) >= 1
    BY <1>5, CallCounts DEF LeavePC
  <2> QED BY <1>1, <1>2, <1>3, <1>5, <2>1 DEF Gives, CountersMatchRing
<1> QED BY <1>4, <1>5 DEF Task

\* A count is never taken below zero, and the ring indices stay inside.
LEMMA TypeKept ==
    ASSUME TypeOK, FiniteCalls, CountersMatchRing, WaitersTake, WaitersSound,
           NEW t \in Task, CallPut(t) \/ CallGet(t) \/ Step(t)
    PROVE  TypeOK'
<1> USE DEF TypeOK, Goto, PC, ring
<1>1. CASE CallPut(t) \/ CallGet(t)
  BY <1>1 DEF CallPut, CallGet
<1>2. CASE Down(t)
  <2>1. CASE count[Takes(t)] > 0
    <3>1. count' \in [{"item", "slot"} -> 0..(Size - 1)]
      BY <1>2, <2>1, IoQueueAssumption DEF Down, Takes
    <3> QED BY <1>2, <2>1, <3>1 DEF Down
  <2>2. CASE ~(count[Takes(t)] > 0)
    <3>1. Takes(t) \in Lists /\ Enqueue(t, Takes(t))
      BY <1>2, <2>2 DEF Down, Takes, Lists
    <3>2. t \notin Range(waiters[Takes(t)])
      BY <1>2, <3>1 DEF Down, Runnable, WaitersSound, Lists
    <3>3. waiters' \in [{"item", "slot", "mlock"} -> Seq(Task)]
      BY <3>1, <3>2, EnqueueLinks DEF Lists
    <3> QED BY <1>2, <2>2, <3>3 DEF Down
  <2> QED BY <2>1, <2>2
<1>3. CASE Lock(t)
  <2>1. CASE owner = NULL
    BY <1>3, <2>1 DEF Lock
  <2>2. CASE owner # NULL
    <3>1. "mlock" \in Lists /\ Enqueue(t, "mlock")
      BY <1>3, <2>2 DEF Lock, Lists
    <3>2. t \notin Range(waiters["mlock"])
      BY <1>3 DEF Lock, Runnable, WaitersSound
    <3>3. waiters' \in [{"item", "slot", "mlock"} -> Seq(Task)]
      BY <3>1, <3>2, EnqueueLinks DEF Lists
    <3> QED BY <1>3, <2>2, <3>3 DEF Lock
  <2> QED BY <2>1, <2>2
<1>4. CASE Sleep(t)
  BY <1>4 DEF Sleep
<1>5. CASE Store(t) \/ Fetch(t)
  BY <1>5 DEF Store, Fetch
<1>6. CASE Advance(t)
  <2>1. /\ NextIndex(head) = IF head = Size - 1 THEN 0 ELSE head + 1
        /\ NextIndex(tail) = IF tail = Size - 1 THEN 0 ELSE tail + 1
    BY NextIndexValue
  <2>2. head' \in 0..(Size - 1) /\ tail' \in 0..(Size - 1)
    BY <1>6, <2>1, IoQueueAssumption DEF Advance
  <2> QED BY <1>6, <2>2 DEF Advance
<1>7. CASE Unlock(t)
  <2>1. /\ waiters' \in [{"item", "slot", "mlock"} -> Seq(Task)]
        /\ status' \in [Task -> {"RUNNABLE", "BLOCKED"}]
    BY <1>7, WakeFirstUnlinks DEF Unlock, Lists
  <2> QED BY <1>7, <2>1 DEF Unlock
<1>8. CASE Up(t)
  <2>1. /\ waiters' \in [{"item", "slot", "mlock"} -> Seq(Task)]
        /\ status' \in [Task -> {"RUNNABLE", "BLOCKED"}]
    BY <1>8, WakeFirstUnlinks DEF Up, Lists, Gives
  <2>2. count' \in [{"item", "slot"} -> 0..(Size - 1)]
    BY <1>8, UpBounded DEF Up, Gives
  <2> QED BY <1>8, <2>1, <2>2 DEF Up
<1> QED BY <1>1, <1>2, <1>3, <1>4, <1>5, <1>6, <1>7, <1>8 DEF Step

\* The mutex lets one call at a time touch the ring (ioqueue.c:56-64, 73-81).
LEMMA RingExclusionKept ==
    ASSUME TypeOK, RingExclusion, NEW t \in Task, CallPut(t) \/ CallGet(t) \/ Step(t)
    PROVE  RingExclusion'
<1> USE IoQueueAssumption DEF TypeOK, RingExclusion, Goto
<1>1. CASE CallPut(t) \/ CallGet(t)
  BY <1>1 DEF CallPut, CallGet
<1>2. CASE Down(t) \/ Sleep(t) \/ Up(t)
  BY <1>2 DEF Down, Sleep, Up
<1>3. CASE Lock(t)
  BY <1>3 DEF Lock
<1>4. CASE Store(t) \/ Fetch(t) \/ Advance(t)
  BY <1>4 DEF Store, Fetch, Advance
<1>5. CASE Unlock(t)
  BY <1>5 DEF Unlock
<1> QED BY <1>1, <1>2, <1>3, <1>4, <1>5 DEF Step

\* What a call stored or fetched stays under its index until the index moves on:
\* nobody else is inside (ioqueue.c:60-61, 77-78).
LEMMA ArgumentsHeldKept ==
    ASSUME TypeOK, RingExclusion, ArgumentsHeld,
           NEW t \in Task, CallPut(t) \/ CallGet(t) \/ Step(t)
    PROVE  ArgumentsHeld'
<1> USE IoQueueAssumption DEF TypeOK, ArgumentsHeld, Goto, ring, Task
<1>1. CASE CallPut(t) \/ CallGet(t)
  BY <1>1 DEF CallPut, CallGet
<1>2. CASE Down(t) \/ Lock(t) \/ Sleep(t)
  BY <1>2 DEF Down, Lock, Sleep
<1>3. CASE Unlock(t) \/ Up(t)
  BY <1>3 DEF Unlock, Up
<1>4. \A u \in Task : pc[t] \in {"in", "advance"} /\ pc[u] = "advance" => u = t
  BY DEF RingExclusion
<1>5. CASE Store(t)
  BY <1>4, <1>5 DEF Store
<1>6. CASE Fetch(t)
  BY <1>4, <1>6 DEF Fetch
<1>7. CASE Advance(t)
  BY <1>4, <1>7 DEF Advance
<1> QED BY <1>1, <1>2, <1>3, <1>5, <1>6, <1>7 DEF Step

\* Who is put to sleep goes on at the top of its loop.
LEMMA SleepersAtTopKept ==
    ASSUME TypeOK, WaitersTake, WaitersSound, SleepersAtTop,
           NEW t \in Task, CallPut(t) \/ CallGet(t) \/ Step(t)
    PROVE  SleepersAtTop'
<1> USE DEF TypeOK, SleepersAtTop, Goto, Runnable
<1>1. CASE CallPut(t) \/ CallGet(t)
  BY <1>1 DEF CallPut, CallGet
<1>2. CASE Down(t) \/ Lock(t)
  BY <1>2 DEF Down, Lock
<1>3. CASE Sleep(t)
  BY <1>3 DEF Sleep
<1>4. CASE Store(t) \/ Fetch(t) \/ Advance(t)
  BY <1>4 DEF Store, Fetch, Advance
<1>5. CASE Unlock(t)
  <2>1. \A u \in Task : status'[u] = "BLOCKED" => status[u] = "BLOCKED"
    BY <1>5, WakeFirstUnlinks DEF Unlock, Lists
  <2> QED BY <1>5, <2>1 DEF Unlock
<1>6. CASE Up(t)
  <2>1. \A u \in Task : status'[u] = "BLOCKED" => status[u] = "BLOCKED"
    BY <1>6, WakeFirstUnlinks DEF Up, Lists, Gives
  <2> QED BY <1>6, <2>1 DEF Up
<1> QED BY <1>1, <1>2, <1>3, <1>4, <1>5, <1>6 DEF Step

\* A task waits only on what its next step takes.
LEMMA WaitersTakeKept ==
    ASSUME TypeOK, WaitersTake, WaitersSound,
           NEW t \in Task, CallPut(t) \/ CallGet(t) \/ Step(t)
    PROVE  WaitersTake'
<1>1. CASE Down(t)
  <2>1. CASE count[Takes(t)] > 0
    BY <1>1, <2>1 DEF Down, WaitersTake
  <2>2. CASE ~(count[Takes(t)] > 0)
    <3>1. Takes(t) \in Lists /\ Enqueue(t, Takes(t))
      BY <1>1, <2>2 DEF Down, Takes, Lists
    <3>2. t \notin Range(waiters[Takes(t)])
      BY <1>1, <3>1 DEF Down, Runnable, Goto, WaitersSound, Lists
    <3>3. \A m \in {"item", "slot"} :
             Range(waiters'[m]) = IF m = Takes(t) THEN Range(waiters[m]) \cup {t}
                                                  ELSE Range(waiters[m])
      BY <3>1, <3>2, EnqueueLinks DEF Lists
    <3> QED BY <3>3 DEF WaitersTake
  <2> QED BY <2>1, <2>2
<1>2. CASE Lock(t)
  BY <1>2 DEF Lock, Enqueue, WaitersTake, TypeOK
<1>3. CASE Unlock(t) \/ Up(t)
  <2>1. \A m \in {"item", "slot"} : \A u \in Range(waiters'[m]) : u \in Range(waiters[m])
    BY <1>3, WakeFirstUnlinks DEF Unlock, Up, Gives, Lists
  <2> QED BY <2>1 DEF WaitersTake
<1>4. CASE CallPut(t) \/ CallGet(t) \/ Sleep(t) \/ Store(t) \/ Fetch(t) \/ Advance(t)
  BY <1>4 DEF CallPut, CallGet, Sleep, Store, Fetch, Advance, WaitersTake
<1> QED BY <1>1, <1>2, <1>3, <1>4 DEF Step

\* A task is linked where it is about to sleep or sleeps, and it goes on only when
\* it has been unlinked (lock.c:101, 120, 146, 165).
LEMMA WaitersSoundKept ==
    ASSUME TypeOK, SleepersAtTop, WaitersTake, WaitersSound,
           NEW t \in Task, CallPut(t) \/ CallGet(t) \/ Step(t)
    PROVE  WaitersSound'
<1> DEFINE Asleep(l, p, s) ==
        \/ p = (IF l = "mlock" THEN "locksleep" ELSE "downsleep")
        \/ p = (IF l = "mlock" THEN "lock" ELSE "down") /\ s = "BLOCKED"
<1>1. \A l \in Lists : /\ ListDistinct(waiters[l])
                       /\ \A u \in Range(waiters[l]) : u \in Task /\ Asleep(l, pc[u], status[u])
  BY RangeOfSeq DEF WaitersSound, Lists, TypeOK
<1> SUFFICES \A l \in Lists : /\ ListDistinct(waiters'[l])
                              /\ \A u \in Range(waiters'[l]) : Asleep(l, pc'[u], status'[u])
  BY DEF WaitersSound, Lists
<1>2. pc \in [Task -> PC] /\ status \in [Task -> {"RUNNABLE", "BLOCKED"}]
  BY DEF TypeOK
<1>3. CASE Down(t) \/ Lock(t)
  <2>1. CASE UNCHANGED waiters
    <3>1. /\ status' = status /\ status[t] = "RUNNABLE"
          /\ \A u \in Task : u # t => pc'[u] = pc[u]
          /\ pc[t] \in {"down", "lock"}
      BY <1>2, <1>3 DEF Down, Lock, Goto, Runnable
    <3>2. \A l \in Lists : t \notin Range(waiters[l])
      BY <1>1, <3>1
    <3> QED BY <1>1, <2>1, <3>1, <3>2
  <2>2. CASE ~UNCHANGED waiters
    <3>1. PICK l \in Lists : /\ Enqueue(t, l)
                             /\ pc[t] = (IF l = "mlock" THEN "lock" ELSE "down")
                             /\ pc' = [pc EXCEPT ![t] = IF l = "mlock" THEN "locksleep"
                                                                      ELSE "downsleep"]
      BY <1>3, <2>2 DEF Down, Lock, Goto, Takes, Lists
    <3>2. status' = status /\ status[t] = "RUNNABLE"
      BY <1>3 DEF Down, Lock, Runnable
    <3>3. \A m \in Lists : t \notin Range(waiters[m])
      BY <1>1, <3>1, <3>2
    <3>4. \A m \in Lists : /\ ListDistinct(waiters'[m])
                           /\ Range(waiters'[m]) = IF m = l THEN Range(waiters[l]) \cup {t}
                                                            ELSE Range(waiters[m])
      BY <3>1, <3>3, EnqueueLinks
    <3>5. pc'[t] = (IF l = "mlock" THEN "locksleep" ELSE "downsleep")
      BY <1>2, <3>1
    <3>6. \A u \in Task : u # t => pc'[u] = pc[u]
      BY <1>2, <3>1
    <3> QED BY <1>1, <3>2, <3>3, <3>4, <3>5, <3>6
  <2> QED BY <2>1, <2>2
<1>4. CASE Sleep(t)
  <2>1. /\ waiters' = waiters /\ pc[t] \in {"downsleep", "locksleep"}
        /\ pc'[t] = (IF pc[t] = "downsleep" THEN "down" ELSE "lock") /\ status'[t] = "BLOCKED"
        /\ \A u \in Task : u # t => pc'[u] = pc[u] /\ status'[u] = status[u]
    BY <1>2, <1>4 DEF Sleep, Goto
  <2> QED BY <1>1, <2>1
<1>5. CASE Unlock(t) \/ Up(t)
  <2>1. \A l \in Lists : /\ ListDistinct(waiters'[l])
                         /\ \A u \in Range(waiters'[l]) : /\ u \in Range(waiters[l])
                                                          /\ status'[u] = status[u]
    BY <1>5, WakeFirstUnlinks DEF Unlock, Up, Gives, Lists
  <2>2. /\ pc[t] \in {"unlock", "up"}
        /\ \A u \in Task : u # t => pc'[u] = pc[u]
    BY <1>2, <1>5 DEF Unlock, Up, Goto
  <2>3. \A l \in Lists : t \notin Range(waiters[l])
    BY <1>1, <2>2
  <2> QED BY <1>1, <2>1, <2>2, <2>3
<1>6. CASE CallPut(t) \/ CallGet(t) \/ Store(t) \/ Fetch(t) \/ Advance(t)
  <2>1. /\ UNCHANGED <<waiters, status>> /\ pc[t] \in {"out", "in", "advance"}
        /\ \A u \in Task : u # t => pc'[u] = pc[u]
    BY <1>2, <1>6 DEF CallPut, CallGet, Store, Fetch, Advance, Goto
  <2>2. \A l \in Lists : t \notin Range(waiters[l])
    BY <1>1, <2>1
  <2> QED BY <1>1, <2>1, <2>2
<1> QED BY <1>3, <1>4, <1>5, <1>6 DEF Step

-----------------------------------------------------------------------------
(* The theorems *)

\* The invariant holds in every reachable state.
THEOREM Invariance == Spec => []IInv
<1>1. IInv /\ [Next]_vars => IInv'
  <2> SUFFICES ASSUME IInv, [Next]_vars PROVE IInv'
    OBVIOUS
  <2>1. ASSUME NEW t \in Task, CallPut(t) \/ CallGet(t) \/ Step(t) PROVE IInv'
    BY <2>1, TypeKept, FiniteCallsKept, CountersKept, RingExclusionKept, ArgumentsHeldKept,
       SleepersAtTopKept, WaitersTakeKept, WaitersSoundKept DEF IInv
  <2>2. CASE UNCHANGED vars
    BY <2>2 DEF vars, ring, IInv, TypeOK, FiniteCalls, Entering, Leaving, CountersMatchRing, IoqLen,
                RingExclusion, ArgumentsHeld, SleepersAtTop, WaitersTake, WaitersSound
  <2> QED BY <2>1, <2>2 DEF Next
<1> QED BY InitIInv, <1>1, PTL DEF Spec

\* head and tail stay in the ring and the counters between 0 and size - 1: no call
\* of sema_up counts a slot or a byte twice (ioqueue.c, lock.c:96, 118).
THEOREM TypeCorrect == Spec => []TypeOK
<1>1. IInv => TypeOK
  BY DEF IInv
<1> QED BY <1>1, Invariance, PTL

\* The two semaphores count the free slots and the bytes of the ring, less those
\* in the hands of calls under way (ioqueue.c:54-84).
THEOREM CountersSound == Spec => []CountersMatchRing
<1>1. IInv => CountersMatchRing
  BY DEF IInv
<1> QED BY <1>1, Invariance, PTL

\* No waiter record is linked twice or outlives the call it belongs to.
THEOREM WaitListsSound == Spec => []WaitersSound
<1>1. IInv => WaitersSound
  BY DEF IInv
<1> QED BY <1>1, Invariance, PTL

-----------------------------------------------------------------------------
(* The queue is a bounded FIFO *)

\* The i-th byte of the ring, counted from tail.
Slot(i) == IF tail + i - 1 < Size THEN tail + i - 1 ELSE tail + i - 1 - Size

\* Slot as the modulus that the abstract queue is read off with.
LEMMA SlotValue ==
    ASSUME TypeOK, NEW i \in 1..Size
    PROVE  (tail + i - 1) % Size = Slot(i) /\ Slot(i) \in 0..(Size - 1)
<1>1. Size \in Nat \ {0} /\ tail \in 0..(Size - 1)
  BY IoQueueAssumption DEF TypeOK
<1>2. CASE tail + i - 1 < Size
  BY <1>1, <1>2 DEF Slot
<1>3. CASE ~(tail + i - 1 < Size)
  <2>1. tail + i - 1 - Size \in 0..(Size - 1)
    BY <1>1, <1>3
  <2> QED BY <1>1, <1>3, <2>1 DEF Slot
<1> QED BY <1>2, <1>3

ContentsListed ==
    /\ IoqLen \in 0..(Size - 1)
    /\ Contents \in Seq(Value \cup {NoValue})
    /\ Len(Contents) = IoqLen
    /\ \A i \in 1..IoqLen : Contents[i] = buf[Slot(i)]

\* The stored bytes, oldest first, are a sequence as long as ioq_len says.
LEMMA ContentsSeq == TypeOK => ContentsListed
<1> SUFFICES ASSUME TypeOK PROVE ContentsListed
  OBVIOUS
<1>1. Size \in Nat \ {0} /\ IoqLen \in 0..(Size - 1)
  BY IoQueueAssumption, LenMoves DEF TypeOK
<1>2. \A i \in 1..IoqLen : i \in 1..Size
  BY <1>1
<1>3. \A i \in 1..IoqLen : (tail + i - 1) % Size = Slot(i) /\ Slot(i) \in 0..(Size - 1)
  BY <1>2, SlotValue
<1>4. Contents = [i \in 1..IoqLen |-> buf[Slot(i)]]
  BY <1>3 DEF Contents
<1>5. \A i \in 1..IoqLen : buf[Slot(i)] \in Value \cup {NoValue}
  BY <1>3 DEF TypeOK
<1> HIDE DEF Contents, Slot, IoqLen
<1>6. Contents \in Seq(Value \cup {NoValue}) /\ Len(Contents) = IoqLen
  BY <1>1, <1>4, <1>5
<1> QED BY <1>1, <1>4, <1>6 DEF ContentsListed

\* Store writes outside of the bytes that are stored (ioqueue.c:60).
LEMMA StoreOutside ==
    ASSUME TypeOK, NEW i \in 1..IoqLen
    PROVE  Slot(i) # head
<1>1. Size \in Nat \ {0} /\ IoqLen \in 0..(Size - 1)
  BY IoQueueAssumption, LenMoves DEF TypeOK
<1> QED BY <1>1 DEF Slot, IoqLen, TypeOK

\* The slot after the last stored byte is at head.
LEMMA HeadSlot ==
    ASSUME TypeOK
    PROVE  Slot(IoqLen + 1) = head
<1>1. Size \in Nat \ {0} /\ IoqLen \in 0..(Size - 1)
  BY IoQueueAssumption, LenMoves DEF TypeOK
<1> QED BY <1>1 DEF Slot, IoqLen, TypeOK

\* The step of head past a stored byte appends it (ioqueue.c:60-61).
LEMMA AdvanceAppends ==
    ASSUME TypeOK, TypeOK', NEW v \in Value, v = buf[head], IoqLen < Size - 1,
           head' = NextIndex(head), UNCHANGED <<tail, buf>>
    PROVE  Contents' = Append(Contents, v)
<1>1. ContentsListed /\ ContentsListed'
  BY ContentsSeq, PTL
<1>2. IoqLen' = IoqLen + 1 /\ IoqLen \in Nat
  BY <1>1, LenMoves DEF TypeOK, ContentsListed
<1> DEFINE s == Contents
           n == IoqLen
           V == Value \cup {NoValue}
<1>3. /\ s \in Seq(V) /\ Len(s) = n /\ s' \in Seq(V) /\ Len(s') = n + 1 /\ n \in Nat
      /\ \A i \in 1..n : s[i] = buf[Slot(i)]
      /\ \A i \in 1..(n + 1) : s'[i] = buf'[Slot(i)']
  BY <1>1, <1>2 DEF ContentsListed
<1>4. \A i : Slot(i)' = Slot(i)
  BY DEF Slot
<1>5. Slot(n + 1) = head
  BY HeadSlot
<1> HIDE DEF s, n, V
<1>6. v \in V
  BY DEF V
<1>7. /\ Append(s, v) \in Seq(V) /\ Len(Append(s, v)) = n + 1
      /\ \A i \in 1..n : Append(s, v)[i] = s[i]
      /\ Append(s, v)[n + 1] = v
  BY <1>3, <1>6, AppendProperties
<1>8. \A i \in 1..(n + 1) : s'[i] = Append(s, v)[i]
  <2> SUFFICES ASSUME NEW i \in 1..(n + 1) PROVE s'[i] = Append(s, v)[i]
    OBVIOUS
  <2>1. s'[i] = buf[Slot(i)]
    BY <1>3, <1>4
  <2>2. CASE i = n + 1
    BY <1>5, <1>7, <2>1, <2>2
  <2>3. CASE i # n + 1
    <3>1. i \in 1..n
      BY <1>3, <2>3
    <3> QED BY <1>3, <1>7, <2>1, <3>1
  <2> QED BY <2>2, <2>3
<1>9. s' = Append(s, v)
  BY <1>3, <1>7, <1>8, SeqEqual
<1> QED BY <1>9 DEF s

\* The step of tail past a fetched byte takes the oldest one out (ioqueue.c:77-78).
LEMMA AdvanceTakes ==
    ASSUME TypeOK, TypeOK', IoqLen > 0,
           tail' = NextIndex(tail), UNCHANGED <<head, buf>>
    PROVE  Contents # <<>> /\ Contents' = Tail(Contents) /\ Head(Contents) = buf[tail]
<1>1. ContentsListed /\ ContentsListed'
  BY ContentsSeq, PTL
<1>2. IoqLen' = IoqLen - 1 /\ IoqLen \in Nat
  BY <1>1, LenMoves DEF TypeOK, ContentsListed
<1> DEFINE s == Contents
           n == IoqLen
           V == Value \cup {NoValue}
<1>3. /\ s \in Seq(V) /\ Len(s) = n /\ s' \in Seq(V) /\ Len(s') = n - 1 /\ n \in Nat \ {0}
      /\ n < Size
      /\ \A i \in 1..n : s[i] = buf[Slot(i)]
      /\ \A i \in 1..(n - 1) : s'[i] = buf[Slot(i)']
  <2>1. n \in Nat \ {0} /\ n < Size
    BY <1>1, IoQueueAssumption DEF ContentsListed
  <2>2. s \in Seq(V) /\ Len(s) = n /\ (\A i \in 1..n : s[i] = buf[Slot(i)])
    BY <1>1 DEF ContentsListed
  <2>3. s' \in Seq(V) /\ Len(s') = n - 1 /\ (\A i \in 1..(n - 1) : s'[i] = buf[Slot(i)'])
    BY <1>1, <1>2 DEF ContentsListed
  <2> QED BY <2>1, <2>2, <2>3
<1>4. \A i \in 1..(n - 1) : Slot(i)' = Slot(i + 1)
  <2>1. Size \in Nat \ {0} /\ tail \in 0..(Size - 1)
    BY IoQueueAssumption DEF TypeOK
  <2>2. tail' = IF tail = Size - 1 THEN 0 ELSE tail + 1
    BY <2>1, NextIndexValue
  <2> HIDE DEF n
  <2> QED BY <1>3, <2>1, <2>2 DEF Slot
<1>5. Slot(1) = tail
  BY IoQueueAssumption DEF Slot, TypeOK
<1> HIDE DEF s, n, V
<1>6. s # <<>>
  BY <1>3, EmptySeq
<1>7. /\ Tail(s) \in Seq(V) /\ Len(Tail(s)) = n - 1 /\ Head(s) = s[1]
      /\ \A i \in 1..(n - 1) : Tail(s)[i] = s[i + 1]
  BY <1>3, <1>6, HeadTailProperties
<1>8. \A i \in 1..(n - 1) : s'[i] = Tail(s)[i]
  BY <1>3, <1>4, <1>7
<1>9. s' = Tail(s)
  BY <1>3, <1>7, <1>8, SeqEqual
<1>10. Head(s) = buf[tail]
  BY <1>3, <1>5, <1>7
<1> QED BY <1>6, <1>9, <1>10 DEF s

\* A byte is written outside of those that are stored.
LEMMA StoreKeepsContents ==
    ASSUME TypeOK, TypeOK', NEW t \in Task, Store(t)
    PROVE  Contents' = Contents
<1>1. ContentsListed /\ ContentsListed'
  BY ContentsSeq, PTL
<1>2. IoqLen' = IoqLen /\ \A i : Slot(i)' = Slot(i)
  BY DEF Store, IoqLen, Slot
<1>3. ASSUME NEW i \in 1..IoqLen PROVE buf'[Slot(i)] = buf[Slot(i)]
  <2>1. Slot(i) # head
    BY StoreOutside
  <2>2. buf' = [buf EXCEPT ![head] = data[t]] /\ buf \in [0..(Size - 1) -> Value \cup {NoValue}]
    BY DEF Store, TypeOK
  <2>3. i \in 1..Size
    BY <1>1, IoQueueAssumption DEF ContentsListed
  <2>4. Slot(i) \in 0..(Size - 1)
    BY <2>3, SlotValue
  <2> QED BY <2>1, <2>2, <2>4
<1>4. /\ Contents \in Seq(Value \cup {NoValue}) /\ Contents' \in Seq(Value \cup {NoValue})
      /\ Len(Contents) = IoqLen /\ Len(Contents') = IoqLen
      /\ \A i \in 1..IoqLen : Contents'[i] = Contents[i]
  BY <1>1, <1>2, <1>3 DEF ContentsListed
<1> HIDE DEF Contents, IoqLen
<1> QED BY <1>4, SeqEqual

\* The I/O queue implements a bounded FIFO: bytes come out in the order they went
\* in, each one once, for every number of readers and writers (ioqueue.c:54-84).
THEOREM Refinement == Spec => ImplementsFifo
<1>1. Init => Fifo!Init
  <2> SUFFICES ASSUME Init PROVE Fifo!Init
    OBVIOUS
  <2>1. IoqLen = 0
    BY IoQueueAssumption DEF Init, IoqLen
  <2>2. Contents = <<>>
    BY <2>1 DEF Contents
  <2> QED BY <2>2 DEF Init, Fifo!Init
<1>2. IInv /\ IInv' /\ [Next]_vars => [Fifo!Next]_<<Contents, got>>
  <2> SUFFICES ASSUME IInv, IInv', Next
               PROVE  Fifo!Next \/ UNCHANGED <<Contents, got>>
    BY DEF vars, ring, Contents, IoqLen
  <2>1. PICK t \in Task : CallPut(t) \/ CallGet(t) \/ Step(t)
    BY DEF Next
  <2>2. TypeOK /\ TypeOK'
    BY DEF IInv
  <2>3. /\ IoqLen \in 0..(Size - 1) /\ Size \in Nat \ {0}
        /\ Cardinality(Entering(Putter)) \in Nat /\ Cardinality(Leaving(Putter)) \in Nat
        /\ Cardinality(Entering(Getter)) \in Nat /\ Cardinality(Leaving(Getter)) \in Nat
    BY <2>2, CallsCounted, LenMoves, IoQueueAssumption DEF IInv, TypeOK
  <2>4. /\ count["item"] = IoqLen - Cardinality(Leaving(Putter)) - Cardinality(Entering(Getter))
        /\ count["slot"] = Size - 1 - IoqLen
                             - Cardinality(Leaving(Getter)) - Cardinality(Entering(Putter))
        /\ count["item"] \in Nat /\ count["slot"] \in Nat
    BY <2>3 DEF IInv, CountersMatchRing, TypeOK
  <2>5. CASE Advance(t) /\ t \in Putter
    <3>1. pc[t] = "advance" /\ data[t] \in Value /\ data[t] = buf[head]
      BY <2>5 DEF Advance, Goto, IInv, ArgumentsHeld
    <3>2. Cardinality(Entering(Putter)) >= 1
      BY <2>5, <3>1, CallCounts DEF IInv, EnterPC
    <3>3. IoqLen < Size - 1
      BY <2>3, <2>4, <3>2
    <3>4. Contents' = Append(Contents, data[t])
      BY <2>2, <2>5, <3>1, <3>3, AdvanceAppends DEF Advance
    <3>5. Len(Contents) < Size - 1
      BY <2>2, <3>3, ContentsSeq DEF ContentsListed
    <3> QED BY <2>5, <3>1, <3>4, <3>5 DEF Advance, Fifo!Next, Fifo!Put
  <2>6. CASE Advance(t) /\ t \notin Putter
    <3>1. pc[t] = "advance" /\ t \in Getter /\ data[t] = buf[tail]
      BY <2>6 DEF Advance, Goto, IInv, ArgumentsHeld, Task
    <3>2. Cardinality(Entering(Getter)) >= 1
      BY <3>1, CallCounts DEF IInv, EnterPC
    <3>3. IoqLen > 0
      BY <2>3, <2>4, <3>2
    <3>4. Contents # <<>> /\ Contents' = Tail(Contents) /\ Head(Contents) = data[t]
      BY <2>2, <2>6, <3>1, <3>3, AdvanceTakes DEF Advance
    <3> QED BY <2>6, <3>4 DEF Advance, Fifo!Next, Fifo!Get
  <2>7. CASE Store(t)
    BY <2>2, <2>7, StoreKeepsContents DEF Store
  <2>8. CASE ~Advance(t) /\ ~Store(t)
    <3>1. UNCHANGED <<head, tail, buf, got>>
      BY <2>1, <2>8 DEF Step, CallPut, CallGet, Down, Lock, Sleep, Fetch, Unlock, Up, ring
    <3> QED BY <3>1 DEF Contents, IoqLen
  <2> QED BY <2>5, <2>6, <2>7, <2>8
<1> QED BY <1>1, <1>2, Invariance, PTL DEF Spec, ImplementsFifo, Fifo!Spec
=============================================================================
