-------------------------------- MODULE Mutex --------------------------------
(***************************************************************************)
(* The sleeping mutex of lock.c over its spin lock, one memory access per  *)
(* step.  The CPU may be taken from a task between any two steps (only     *)
(* kthread_block and kthread_unblock run with interrupts off), so any task *)
(* that is not asleep may take the next one.                               *)
(***************************************************************************)
EXTENDS TaskList

CONSTANTS Task, NULL

ASSUME MutexAssumption == NULL \notin Task

VARIABLES slock,      \* mlock->slock.value
          owner,      \* mlock->owner
          wait_list,  \* mlock->wait_list: one stack-allocated waiter a task
          status,     \* task->status, as far as a lock sees it
          pc          \* where each task is in mutex_lock and mutex_unlock

vars == <<slock, owner, wait_list, status, pc>>

\* A READY and a RUNNING task can both take the next step; only sleep matters.
Status == {"RUNNABLE", "BLOCKED"}

PC == {"out",      \* does not use the mutex
       "lock",     \* mutex_lock: spin_lock(&mlock->slock)
       "test",     \* NULL == mlock->owner ?
       "take",     \* yes: mlock->owner = task
      "got",      \* spin_unlock, break
      "enqueue",  \* no: list_append of the waiter
       "queued",   \* spin_unlock
       "block",    \* kthread_block(TASK_BLOCKED)
       "in",       \* between mutex_lock and mutex_unlock
       "unlock",   \* mutex_unlock: spin_lock(&mlock->slock)
       "clear",    \* mlock->owner = NULL
       "wake",     \* pop a waiter and unblock its task
       "release"}  \* spin_unlock

Goto(t, from, to) == pc[t] = from /\ pc' = [pc EXCEPT ![t] = to]

Runnable(t) == status[t] = "RUNNABLE"

Init ==
    /\ slock = 0
    /\ owner = NULL
    /\ wait_list = <<>>
    /\ status = [t \in Task |-> "RUNNABLE"]
    /\ pc = [t \in Task |-> "out"]

-----------------------------------------------------------------------------
\* Mutants: spin_lock that does not look at the exchanged value, or that counts
\* the lockers; list_pop that leaves the waiter linked.
SpinBlindly(t) == slock' = 1
SpinCount(t) == slock' = slock + 1
PeekOnly(list) == list

\* spin_lock: the xchg that finds 0.  One that finds 1 changes nothing and
\* yields, so waiting for the lock is not a step.
SpinLock(t) == slock = 0 /\ slock' = 1

SpinUnlock(t) == slock' = 0

\* list_pop.
ListPop(list) == Tail(list)

\* kthread_unblock: wakes a task only if it is asleep already.
Unblock(t) == status' = [status EXCEPT ![t] = "RUNNABLE"]

-----------------------------------------------------------------------------
(* mutex_lock *)

\* Any caller of mutex_lock.
Call(t) ==
    /\ Runnable(t) /\ Goto(t, "out", "lock")
    /\ UNCHANGED <<slock, owner, wait_list, status>>

LockSpin(t) ==
    /\ Runnable(t) /\ Goto(t, "lock", "test")
    /\ SpinLock(t)
    /\ UNCHANGED <<owner, wait_list, status>>

\* What owner is may be out of date by the next step, but for the spin lock.
LockTest(t) ==
    /\ Runnable(t) /\ Goto(t, "test", IF owner = NULL THEN "take" ELSE "enqueue")
    /\ UNCHANGED <<slock, owner, wait_list, status>>

LockTake(t) ==
    /\ Runnable(t) /\ Goto(t, "take", "got")
    /\ owner' = t
    /\ UNCHANGED <<slock, wait_list, status>>

LockEnqueue(t) ==
    /\ Runnable(t) /\ Goto(t, "enqueue", "queued")
    /\ wait_list' = ListAppend(wait_list, t)
    /\ UNCHANGED <<slock, owner, status>>

LockEnter(t) ==
    /\ Runnable(t) /\ Goto(t, "got", "in")
    /\ SpinUnlock(t)
    /\ UNCHANGED <<owner, wait_list, status>>

LockRelease(t) ==
    /\ Runnable(t) /\ Goto(t, "queued", "block")
    /\ SpinUnlock(t)
    /\ UNCHANGED <<owner, wait_list, status>>

\* Back at the top of the loop, once somebody unblocks it.
LockBlock(t) ==
    /\ Runnable(t) /\ Goto(t, "block", "lock")
    /\ status' = [status EXCEPT ![t] = "BLOCKED"]
    /\ UNCHANGED <<slock, owner, wait_list>>

-----------------------------------------------------------------------------
(* mutex_unlock *)

UnlockSpin(t) ==
    /\ Runnable(t)
    /\ Goto(t, "unlock", "clear")
    /\ SpinLock(t)
    /\ UNCHANGED <<owner, wait_list, status>>

\* The holder's own code between the two calls ends.
Leave(t) ==
    /\ Runnable(t) /\ Goto(t, "in", "unlock")
    /\ UNCHANGED <<slock, owner, wait_list, status>>

UnlockKeepsOwner(t) ==
    /\ Runnable(t) /\ Goto(t, "clear", "wake")
    /\ UNCHANGED <<slock, owner, wait_list, status>>

UnlockClear(t) ==
    /\ Runnable(t) /\ Goto(t, "clear", "wake")
    /\ owner' = NULL
    /\ UNCHANGED <<slock, wait_list, status>>

UnlockWake(t) ==
    /\ Runnable(t) /\ Goto(t, "wake", "release")
    /\ IF wait_list = <<>>
       THEN UNCHANGED <<wait_list, status>>
       ELSE /\ wait_list' = ListPop(wait_list)
            /\ Unblock(Head(wait_list))
    /\ UNCHANGED <<slock, owner>>

UnlockRelease(t) ==
    /\ Runnable(t) /\ Goto(t, "release", "out")
    /\ SpinUnlock(t)
    /\ UNCHANGED <<owner, wait_list, status>>

\* Every step a task takes once it has called mutex_lock.
Step(t) ==
    \/ LockSpin(t) \/ LockTest(t) \/ LockTake(t) \/ LockEnqueue(t) \/ LockEnter(t)
    \/ LockRelease(t) \/ LockBlock(t)
    \/ Leave(t) \/ UnlockSpin(t) \/ UnlockClear(t) \/ UnlockWake(t) \/ UnlockRelease(t)

Next == \E t \in Task : Call(t) \/ Step(t)

Spec == Init /\ [][Next]_vars

\* The round-robin scheduler gives every runnable task the CPU again and again
\* (NoStarvation of Sched), and no critical section lasts forever.
FairSpec == Spec /\ \A t \in Task : WF_vars(Step(t))

-----------------------------------------------------------------------------
TypeOK ==
    /\ slock \in {0, 1}
    /\ owner \in Task \cup {NULL}
    /\ wait_list \in Seq(Task)
    /\ status \in [Task -> Status]
    /\ pc \in [Task -> PC]

\* Where a task holds the mutex, from the assignment of owner to its reset.
Holding(t) == pc[t] \in {"got", "in", "unlock", "clear"}

\* Where a task holds the spin lock.
Spinning(t) ==
    pc[t] \in {"test", "take", "got", "enqueue", "queued", "clear", "wake", "release"}

\* Two tasks never hold the mutex at once, and its owner field names the one
\* that does (lock.c:139-144).
MutualExclusion == \A t \in Task : Holding(t) <=> owner = t

\* The waiters on the list live on the stacks of tasks inside mutex_lock, so a
\* linked waiter whose task has left, or one linked twice, is a wild pointer:
\* each listed task is between its list_append and the end of its sleep.
WaitListSound ==
    /\ ListDistinct(wait_list)
    /\ \A t \in Range(wait_list) :
          \/ pc[t] \in {"queued", "block"}
          \/ pc[t] = "lock" /\ status[t] = "BLOCKED"

\* Whoever owns the mutex gives it back, however many tasks fight it for the
\* spin lock on the way (lock.c:155-174).
OwnerReleases == \A t \in Task : owner = t ~> owner # t

\* The mutex implements its promise.
Abs == INSTANCE AbstractMutex WITH holder <- owner
ImplementsAbstractMutex == Abs!Spec
=============================================================================
