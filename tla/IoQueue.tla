------------------------------- MODULE IoQueue -------------------------------
(***************************************************************************)
(* ioqueue.c: a ring of bytes guarded by two counting semaphores and a     *)
(* mutex.  The spin-locked section of each lock.c operation is one step    *)
(* (SpinExclusion of MutexProofs), but falling asleep is a step of its     *)
(* own: lock.c drops the spin lock before it calls kthread_block.          *)
(***************************************************************************)
EXTENDS TaskList, FiniteSets

CONSTANTS Putter, Getter,   \* tasks that call ioq_put and tasks that call ioq_get
          Value, NoValue,   \* the bytes that matter, and none of them
          NULL,             \* no owner
          Size              \* ioq->size

Task == Putter \cup Getter

ASSUME IoQueueAssumption ==
    /\ Putter \cap Getter = {}
    /\ NULL \notin Task
    /\ NoValue \notin Value
    /\ Size \in Nat \ {0}

VARIABLES buf, head, tail,  \* the ring
          count,            \* item.count and slot.count
          owner,            \* mlock.owner
          waiters,          \* the wait_list of item, slot and mlock
          status, pc,
          data,             \* the argument of ioq_put
          got               \* what ioq_get has read

ring == <<buf, head, tail>>
vars == <<ring, count, owner, waiters, status, pc, data, got>>

PC == {"out", "down", "downsleep", "lock", "locksleep", "in", "advance", "unlock", "up"}

\* The semaphore an operation takes a unit from, and the one it gives it to.
Takes(t) == IF t \in Putter THEN "slot" ELSE "item"
Gives(t) == IF t \in Putter THEN "item" ELSE "slot"

Goto(t, from, to) == pc[t] = from /\ pc' = [pc EXCEPT ![t] = to]
Runnable(t) == status[t] = "RUNNABLE"

\* ioq_init.
Init ==
    /\ buf = [i \in 0..(Size - 1) |-> NoValue]
    /\ head = 0 /\ tail = 0
    /\ count = [item |-> 0, slot |-> Size - 1]
    /\ owner = NULL
    /\ waiters = [l \in {"item", "slot", "mlock"} |-> <<>>]
    /\ status = [t \in Task |-> "RUNNABLE"]
    /\ pc = [t \in Task |-> "out"]
    /\ data = [t \in Task |-> NoValue]
    /\ got = [t \in Task |-> NoValue]

-----------------------------------------------------------------------------
(* lock.c *)

Enqueue(t, l) == waiters' = [waiters EXCEPT ![l] = ListAppend(@, t)]

\* Mutant: the waiter that is woken stays linked.
WakeLinked(l) ==
    IF waiters[l] = <<>>
    THEN UNCHANGED <<waiters, status>>
    ELSE /\ status' = [status EXCEPT ![Head(waiters[l])] = "RUNNABLE"]
         /\ UNCHANGED waiters

\* The tail of sema_up and mutex_unlock: the first waiter leaves the list, and
\* kthread_unblock wakes it if it is asleep by now.
WakeFirst(l) ==
    IF waiters[l] = <<>>
    THEN UNCHANGED <<waiters, status>>
    ELSE /\ waiters' = [waiters EXCEPT ![l] = Tail(@)]
         /\ status' = [status EXCEPT ![Head(waiters[l])] = "RUNNABLE"]

\* Mutants: sema_down that tests count >= 0, mutex_lock that takes an owned
\* mutex, sema_up that only wakes.
DownOffByOne(t) ==
    /\ Runnable(t) /\ Goto(t, "down", "lock")
    /\ count' = [count EXCEPT ![Takes(t)] = @ - 1]
    /\ UNCHANGED <<ring, owner, waiters, status, data, got>>
LockOwned(t) ==
    /\ Runnable(t) /\ Goto(t, "lock", "in")
    /\ owner' = t
    /\ UNCHANGED <<ring, count, waiters, status, data, got>>
UpOnlyWakes(t) ==
    /\ Runnable(t) /\ Goto(t, "up", "out")
    /\ WakeFirst(Gives(t))
    /\ UNCHANGED <<ring, count, owner, data, got>>

\* sema_down, one turn of its loop.
Down(t) ==
    /\ Runnable(t)
    /\ IF count[Takes(t)] > 0
       THEN /\ Goto(t, "down", "lock")
            /\ count' = [count EXCEPT ![Takes(t)] = @ - 1]
            /\ UNCHANGED waiters
       ELSE /\ Goto(t, "down", "downsleep")
            /\ Enqueue(t, Takes(t))
            /\ UNCHANGED count
    /\ UNCHANGED <<ring, owner, status, data, got>>

\* mutex_lock, one turn of its loop.
Lock(t) ==
    /\ Runnable(t)
    /\ IF owner = NULL
       THEN /\ Goto(t, "lock", "in")
            /\ owner' = t
            /\ UNCHANGED waiters
       ELSE /\ Goto(t, "lock", "locksleep")
            /\ Enqueue(t, "mlock")
            /\ UNCHANGED owner
    /\ UNCHANGED <<ring, count, status, data, got>>

\* kthread_block in either loop, which then starts over.
Sleep(t) ==
    /\ Runnable(t)
    /\ Goto(t, "downsleep", "down") \/ Goto(t, "locksleep", "lock")
    /\ status' = [status EXCEPT ![t] = "BLOCKED"]
    /\ UNCHANGED <<ring, count, owner, waiters, data, got>>

Unlock(t) ==
    /\ Runnable(t) /\ Goto(t, "unlock", "up")
    /\ owner' = NULL
    /\ WakeFirst("mlock")
    /\ UNCHANGED <<ring, count, data, got>>

\* sema_up, the last call of ioq_put and ioq_get.
Up(t) ==
    /\ Runnable(t) /\ Goto(t, "up", "out")
    /\ count' = [count EXCEPT ![Gives(t)] = @ + 1]
    /\ WakeFirst(Gives(t))
    /\ UNCHANGED <<ring, owner, data, got>>

-----------------------------------------------------------------------------
(* ioqueue.c *)

NextIndex(i) == (i + 1) % Size

CallPut(t) ==
    /\ t \in Putter
    /\ Goto(t, "out", "down")
    /\ \E v \in Value : data' = [data EXCEPT ![t] = v]
    /\ UNCHANGED <<ring, count, owner, waiters, status, got>>

CallGet(t) ==
    /\ t \in Getter
    /\ Goto(t, "out", "down")
    /\ UNCHANGED <<ring, count, owner, waiters, status, data, got>>

\* ioq->buf[ioq->head] = data, under the mutex.
Store(t) ==
    /\ t \in Putter /\ Runnable(t)
    /\ Goto(t, "in", "advance")
    /\ buf' = [buf EXCEPT ![head] = data[t]]
    /\ UNCHANGED <<head, tail, count, owner, waiters, status, data, got>>

\* data = ioq->buf[ioq->tail], under the mutex.
Fetch(t) ==
    /\ t \in Getter /\ Runnable(t)
    /\ Goto(t, "in", "advance")
    /\ data' = [data EXCEPT ![t] = buf[tail]]
    /\ UNCHANGED <<ring, count, owner, waiters, status, got>>

\* The index moves past the byte that was stored or fetched; data is not read
\* again, except as the result of ioq_get.
Advance(t) ==
    /\ Runnable(t) /\ Goto(t, "advance", "unlock")
    /\ IF t \in Putter
       THEN head' = NextIndex(head) /\ UNCHANGED <<tail, got>>
       ELSE /\ tail' = NextIndex(tail)
            /\ got' = [got EXCEPT ![t] = data[t]]
            /\ UNCHANGED head
    /\ data' = [data EXCEPT ![t] = NoValue]
    /\ UNCHANGED <<buf, count, owner, waiters, status>>

\* Every step of a call under way.
Step(t) ==
    \/ Down(t) \/ Lock(t) \/ Sleep(t)
    \/ Store(t) \/ Fetch(t) \/ Advance(t)
    \/ Unlock(t) \/ Up(t)

Next == \E t \in Task : CallPut(t) \/ CallGet(t) \/ Step(t)

Spec == Init /\ [][Next]_vars

-----------------------------------------------------------------------------
\* ioq_len.
IoqLen == IF head >= tail THEN head - tail ELSE Size - (tail - head)

\* The bytes between tail and head, oldest first.
Contents == [i \in 1..IoqLen |-> buf[(tail + i - 1) % Size]]

TypeOK ==
    /\ buf \in [0..(Size - 1) -> Value \cup {NoValue}]
    /\ head \in 0..(Size - 1) /\ tail \in 0..(Size - 1)
    /\ count \in [{"item", "slot"} -> 0..(Size - 1)]
    /\ owner \in Task \cup {NULL}
    /\ waiters \in [{"item", "slot", "mlock"} -> Seq(Task)]
    /\ status \in [Task -> {"RUNNABLE", "BLOCKED"}]
    /\ pc \in [Task -> PC]
    /\ data \in [Task -> Value \cup {NoValue}]
    /\ got \in [Task -> Value \cup {NoValue}]

\* Calls that hold a unit of a semaphore and have not touched the ring yet, and
\* those that have and still owe a unit to the other semaphore.
Entering(S) == {t \in S : pc[t] \in {"lock", "locksleep", "in", "advance"}}
Leaving(S) == {t \in S : pc[t] \in {"unlock", "up"}}

\* The ring and the two counters never drift apart: every slot and every item
\* is either counted or in the hands of a call under way (ioqueue.c:54-84).
CountersMatchRing ==
    /\ count["item"] = IoqLen - Cardinality(Leaving(Putter)) - Cardinality(Entering(Getter))
    /\ count["slot"] = Size - 1 - IoqLen
                         - Cardinality(Leaving(Getter)) - Cardinality(Entering(Putter))

\* A waiter record lies on the stack of a task in sema_down or mutex_lock: it is
\* listed once, in one list, and not after its call has gone on.
WaitersSound ==
    \A l \in {"item", "slot", "mlock"} :
        /\ ListDistinct(waiters[l])
        /\ \A t \in Range(waiters[l]) :
              \/ pc[t] = (IF l = "mlock" THEN "locksleep" ELSE "downsleep")
              \/ pc[t] = (IF l = "mlock" THEN "lock" ELSE "down") /\ status[t] = "BLOCKED"

\* An ioqueue is a bounded FIFO of Size - 1 bytes.
Fifo == INSTANCE BoundedFifo WITH queue <- Contents, Capacity <- Size - 1
ImplementsFifo == Fifo!Spec

=============================================================================
