----------------------------- MODULE MutexProofs -----------------------------
(***************************************************************************)
(* Proofs about the mutex for every set of tasks.                          *)
(***************************************************************************)
EXTENDS Mutex, ListLemmas

\* The spin lock is 1 while a task is in a critical section of lock.c, and
\* there is at most one such task: each xchg that read 0 wrote 1.
SpinExclusion ==
    /\ \A t \in Task : Spinning(t) => slock = 1
    /\ \A t, u \in Task : Spinning(t) /\ Spinning(u) => t = u

\* The owner a task has read is still the owner when it acts on it.
TestCurrent == \A t \in Task : pc[t] = "take" => owner = NULL

\* A task sleeps only at the top of the mutex_lock loop.
SleepersLock == \A t \in Task : status[t] = "BLOCKED" => pc[t] = "lock"

\* The inductive invariant.  SpinExclusion is what keeps two tasks from testing
\* the owner at once, so that TestCurrent holds until the assignment, and
\* SleepersLock what makes a woken task leave the list.
IInv == /\ TypeOK /\ SpinExclusion /\ TestCurrent /\ MutualExclusion
        /\ SleepersLock /\ WaitListSound

-----------------------------------------------------------------------------
\* A mutex that nobody calls.
LEMMA InitIInv == Init => IInv
<1> SUFFICES ASSUME Init PROVE IInv
  OBVIOUS
<1> USE MutexAssumption
<1>1. Range(wait_list) = {}
  BY EmptyRange DEF Init
<1>2. ListDistinct(wait_list)
  BY DEF Init, ListDistinct, IsInjective
<1>3. TypeOK
  BY DEF Init, TypeOK, Status, PC
<1>4. SpinExclusion /\ TestCurrent /\ MutualExclusion /\ SleepersLock
  BY DEF Init, SpinExclusion, TestCurrent, MutualExclusion, SleepersLock, Spinning, Holding
<1> QED BY <1>1, <1>2, <1>3, <1>4 DEF IInv, WaitListSound

\* No step gives a variable a value of another kind.
LEMMA TypeKept == ASSUME TypeOK, [Next]_vars PROVE TypeOK'
<1> USE MutexAssumption DEF TypeOK, Status, PC, Goto, Runnable, SpinLock, SpinUnlock
<1>1. ASSUME NEW t \in Task, Call(t) PROVE TypeOK'
  BY <1>1 DEF Call
<1>2. ASSUME NEW t \in Task, LockSpin(t) PROVE TypeOK'
  BY <1>2 DEF LockSpin
<1>3. ASSUME NEW t \in Task, LockTake(t) PROVE TypeOK'
  BY <1>3 DEF LockTake
<1>4. ASSUME NEW t \in Task, LockEnqueue(t) PROVE TypeOK'
  BY <1>4, AppendProperties DEF LockEnqueue, ListAppend
<1>5. ASSUME NEW t \in Task, LockEnter(t) PROVE TypeOK'
  BY <1>5 DEF LockEnter
<1>6. ASSUME NEW t \in Task, LockRelease(t) PROVE TypeOK'
  BY <1>6 DEF LockRelease
<1>7. ASSUME NEW t \in Task, LockBlock(t) PROVE TypeOK'
  BY <1>7 DEF LockBlock
<1>8. ASSUME NEW t \in Task, Leave(t) PROVE TypeOK'
  BY <1>8 DEF Leave
<1>9. ASSUME NEW t \in Task, UnlockSpin(t) PROVE TypeOK'
  BY <1>9 DEF UnlockSpin
<1>10. ASSUME NEW t \in Task, UnlockClear(t) PROVE TypeOK'
  BY <1>10 DEF UnlockClear
<1>11. ASSUME NEW t \in Task, UnlockWake(t) PROVE TypeOK'
  <2>1. wait_list # <<>> => Tail(wait_list) \in Seq(Task)
    BY HeadTailProperties
  <2> QED BY <1>11, <2>1 DEF UnlockWake, Unblock, ListPop
<1>12. ASSUME NEW t \in Task, UnlockRelease(t) PROVE TypeOK'
  BY <1>12 DEF UnlockRelease
<1>13. ASSUME NEW t \in Task, LockTest(t) PROVE TypeOK'
  BY <1>13 DEF LockTest
<1>14. CASE UNCHANGED vars
  BY <1>14 DEF vars
<1> QED
  BY <1>1, <1>2, <1>3, <1>4, <1>5, <1>6, <1>7, <1>8, <1>9, <1>10, <1>11, <1>12,
     <1>13, <1>14 DEF Next, Step

\* No step lets a second task past the xchg (lock.c:44-64).
LEMMA SpinExclusionKept ==
    ASSUME TypeOK, SpinExclusion, NEW t \in Task, Call(t) \/ Step(t)
    PROVE  SpinExclusion'
<1> USE DEF TypeOK, SpinExclusion, Spinning, Goto
<1>1. CASE LockSpin(t) \/ UnlockSpin(t)
  BY <1>1 DEF LockSpin, UnlockSpin, SpinLock
<1>2. CASE LockEnter(t) \/ LockRelease(t) \/ UnlockRelease(t)
  BY <1>2 DEF LockEnter, LockRelease, UnlockRelease, SpinUnlock
<1>3. CASE Call(t) \/ LockTest(t) \/ LockTake(t) \/ LockEnqueue(t) \/ LockBlock(t) \/ Leave(t)
  BY <1>3 DEF Call, LockTest, LockTake, LockEnqueue, LockBlock, Leave
<1>4. CASE UnlockClear(t) \/ UnlockWake(t)
  BY <1>4 DEF UnlockClear, UnlockWake
<1> QED BY <1>1, <1>2, <1>3, <1>4 DEF Step

\* Nobody changes the owner between its test and its assignment by another task:
\* who would has the spin lock (lock.c:139-140, 160).
LEMMA TestCurrentKept ==
    ASSUME TypeOK, SpinExclusion, TestCurrent, NEW t \in Task, Call(t) \/ Step(t)
    PROVE  TestCurrent'
<1> USE DEF TypeOK, TestCurrent, Goto
<1>1. CASE LockTake(t) \/ UnlockClear(t)
  BY <1>1 DEF LockTake, UnlockClear, SpinExclusion, Spinning
<1>2. CASE Call(t) \/ LockSpin(t) \/ LockTest(t) \/ LockEnqueue(t) \/ LockEnter(t)
  BY <1>2 DEF Call, LockSpin, LockTest, LockEnqueue, LockEnter
<1>3. CASE LockRelease(t) \/ LockBlock(t) \/ Leave(t)
  BY <1>3 DEF LockRelease, LockBlock, Leave
<1>4. CASE UnlockSpin(t) \/ UnlockWake(t) \/ UnlockRelease(t)
  BY <1>4 DEF UnlockSpin, UnlockWake, UnlockRelease
<1> QED BY <1>1, <1>2, <1>3, <1>4 DEF Step

\* The owner field changes only in the hands of the task that holds both locks
\* (lock.c:139-140, 160).
LEMMA MutualExclusionKept ==
    ASSUME TypeOK, TestCurrent, MutualExclusion, NEW t \in Task, Call(t) \/ Step(t)
    PROVE  MutualExclusion'
<1> USE MutexAssumption DEF TypeOK, MutualExclusion, Holding, Goto
<1>1. CASE LockTake(t)
  BY <1>1 DEF LockTake, TestCurrent
<1>2. CASE UnlockClear(t)
  BY <1>2 DEF UnlockClear
<1>3. CASE Call(t) \/ LockSpin(t) \/ LockTest(t) \/ LockEnqueue(t) \/ LockEnter(t) \/ LockRelease(t)
  BY <1>3 DEF Call, LockSpin, LockTest, LockEnqueue, LockEnter, LockRelease
<1>4. CASE LockBlock(t) \/ Leave(t) \/ UnlockSpin(t) \/ UnlockWake(t) \/ UnlockRelease(t)
  BY <1>4 DEF LockBlock, Leave, UnlockSpin, UnlockWake, UnlockRelease
<1> QED BY <1>1, <1>2, <1>3, <1>4 DEF Step

\* Who is put to sleep goes on at the top of the loop.
LEMMA SleepersLockKept ==
    ASSUME TypeOK, SleepersLock, NEW t \in Task, Call(t) \/ Step(t)
    PROVE  SleepersLock'
<1> USE DEF TypeOK, SleepersLock, Goto, Runnable, Status
<1>1. CASE LockBlock(t)
  BY <1>1 DEF LockBlock
<1>2. CASE UnlockWake(t)
  BY <1>2 DEF UnlockWake, Unblock
<1>3. CASE Call(t) \/ LockSpin(t) \/ LockTest(t) \/ LockTake(t) \/ LockEnqueue(t) \/ LockEnter(t)
  BY <1>3 DEF Call, LockSpin, LockTest, LockTake, LockEnqueue, LockEnter
<1>4. CASE LockRelease(t) \/ Leave(t) \/ UnlockSpin(t) \/ UnlockClear(t) \/ UnlockRelease(t)
  BY <1>4 DEF LockRelease, Leave, UnlockSpin, UnlockClear, UnlockRelease
<1> QED BY <1>1, <1>2, <1>3, <1>4 DEF Step

\* Only mutex_lock links a task, and a task is unlinked before it goes on
\* (lock.c:146, 165).
LEMMA WaitListSoundKept ==
    ASSUME TypeOK, SleepersLock, WaitListSound, NEW t \in Task, Call(t) \/ Step(t)
    PROVE  WaitListSound'
<1> USE DEF TypeOK, WaitListSound, Goto, Runnable
<1>1. CASE LockEnqueue(t)
  <2>1. t \notin Range(wait_list)
    BY <1>1 DEF LockEnqueue
  <2>2. /\ ListDistinct(wait_list')
        /\ Range(wait_list') = Range(wait_list) \cup {t}
    BY <1>1, <2>1, AppendFresh DEF LockEnqueue
  <2> QED BY <1>1, <2>2, RangeOfSeq DEF LockEnqueue
<1>2. CASE UnlockWake(t)
  <2>1. CASE wait_list = <<>>
    BY <1>2, <2>1, EmptyRange DEF UnlockWake
  <2>2. CASE wait_list # <<>>
    <3>1. /\ ListDistinct(wait_list')
          /\ Range(wait_list') = Range(wait_list) \ {Head(wait_list)}
      BY <1>2, <2>2, PopDistinct DEF UnlockWake, ListPop
    <3>2. \A u \in Range(wait_list') : u \in Task /\ u # t /\ pc'[u] = pc[u]
                                          /\ status'[u] = status[u]
      BY <1>2, <2>2, <3>1, RangeOfSeq DEF UnlockWake, Unblock
    <3> QED BY <3>1, <3>2
  <2> QED BY <2>1, <2>2
<1>3. CASE LockRelease(t) \/ LockBlock(t)
  BY <1>3, RangeOfSeq DEF LockRelease, LockBlock
<1>4. CASE Call(t) \/ LockSpin(t) \/ LockTest(t) \/ LockTake(t) \/ LockEnter(t)
  BY <1>4, RangeOfSeq DEF Call, LockSpin, LockTest, LockTake, LockEnter
<1>5. CASE Leave(t) \/ UnlockSpin(t) \/ UnlockClear(t) \/ UnlockRelease(t)
  BY <1>5, RangeOfSeq DEF Leave, UnlockSpin, UnlockClear, UnlockRelease
<1> QED BY <1>1, <1>2, <1>3, <1>4, <1>5 DEF Step

-----------------------------------------------------------------------------
\* The invariant holds in every reachable state.
THEOREM Invariance == Spec => []IInv
<1>1. IInv /\ [Next]_vars => IInv'
  <2> SUFFICES ASSUME IInv, [Next]_vars PROVE IInv'
    OBVIOUS
  <2>1. ASSUME NEW t \in Task, Call(t) \/ Step(t) PROVE IInv'
    BY <2>1, TypeKept, SpinExclusionKept, TestCurrentKept, MutualExclusionKept,
       SleepersLockKept, WaitListSoundKept DEF IInv
  <2>2. CASE UNCHANGED vars
    BY <2>2 DEF vars, IInv, TypeOK, SpinExclusion, Spinning, TestCurrent,
                MutualExclusion, Holding, SleepersLock, WaitListSound
  <2> QED BY <2>1, <2>2 DEF Next
<1> QED BY InitIInv, <1>1, PTL DEF Spec

\* Every field keeps its type: the wait list holds tasks, the spin lock a bit.
THEOREM TypeCorrect == Spec => []TypeOK
<1>1. IInv => TypeOK
  BY DEF IInv
<1> QED BY <1>1, Invariance, PTL

\* At most one task is between mutex_lock and mutex_unlock, and owner names it.
THEOREM MutexExcludes == Spec => []MutualExclusion
<1>1. IInv => MutualExclusion
  BY DEF IInv
<1> QED BY <1>1, Invariance, PTL

\* No waiter on the list outlives the stack frame it is in, or is linked twice.
THEOREM WaitersSound == Spec => []WaitListSound
<1>1. IInv => WaitListSound
  BY DEF IInv
<1> QED BY <1>1, Invariance, PTL

\* The mutex of lock.c implements the abstract mutex.
THEOREM Refinement == Spec => ImplementsAbstractMutex
<1>1. Init => Abs!Init
  BY DEF Init, Abs!Init
<1>2. IInv /\ [Next]_vars => [Abs!Next]_owner
  <2> SUFFICES ASSUME IInv, Next PROVE Abs!Next \/ owner' = owner
    BY DEF vars
  <2>1. PICK t \in Task : Call(t) \/ Step(t)
    BY DEF Next
  <2>2. CASE LockTake(t)
    BY <2>2 DEF LockTake, Goto, IInv, TestCurrent, Abs!Next, Abs!Acquire
  <2>3. CASE UnlockClear(t)
    <3>1. owner = t
      BY <2>3 DEF UnlockClear, Goto, IInv, MutualExclusion, Holding
    <3> QED BY <2>3, <3>1 DEF UnlockClear, Abs!Next, Abs!Release
  <2>4. CASE ~LockTake(t) /\ ~UnlockClear(t)
    BY <2>1, <2>4 DEF Step, Call, LockSpin, LockTest, LockEnqueue, LockEnter, LockRelease, LockBlock,
                      Leave, UnlockSpin, UnlockWake, UnlockRelease
  <2> QED BY <2>2, <2>3, <2>4
<1> QED BY <1>1, <1>2, Invariance, PTL DEF Spec, ImplementsAbstractMutex, Abs!Spec
=============================================================================
