-------------------------------- MODULE Sched --------------------------------
(***************************************************************************)
(* The round-robin scheduler: thread.c (task life cycle), sched.c          *)
(* (schedule) and the scheduling half of timer.c.  Every operation here    *)
(* runs with interrupts disabled, so each one is a single step.            *)
(***************************************************************************)
EXTENDS TaskList

CONSTANTS Task,    \* every task_struct the system may ever run
          Idle,    \* g_idle_task
          Main,    \* g_main_task
          Slice,   \* SCHED_RR_TIME_SLICE
          Nobody   \* what elem2entry makes of a NULL list element

ASSUME SchedAssumption ==
    /\ Idle \in Task /\ Main \in Task /\ Idle # Main
    /\ Nobody \notin Task
    /\ Slice \in Nat

VARIABLES status,  \* task->status
          ready,   \* task_ready_list, head first
          all,     \* the members of task_all_list
          slice,   \* task->time_slice
          cur      \* kthread_current(): the owner of the stack in use

vars == <<status, ready, all, slice, cur>>

\* What kthread_block accepts and kthread_unblock wakes.
Asleep == {"BLOCKED", "WAITING", "HANGING"}

\* "NEW" stands for a page that is not yet a scheduled task_struct.
Status == Asleep \cup {"NEW", "RUNNING", "READY", "DIED"}

-----------------------------------------------------------------------------
\* After kthread_init: idle queued, main on the CPU but on no ready list.
Init ==
    /\ status = [t \in Task |-> IF t = Idle THEN "READY"
                                ELSE IF t = Main THEN "RUNNING" ELSE "NEW"]
    /\ ready = <<Idle>>
    /\ all = {Idle, Main}
    /\ slice = [t \in Task |-> Slice]
    /\ cur = Main

\* Mutants: an expired task goes back to the head; idle is never woken, or is
\* woken while one task can still run; a slice is used past its end; a task
\* that is awake already is queued once more.
RequeueAtHead(st, rd) == IF st[cur] = "RUNNING" THEN ListPush(rd, cur) ELSE rd
WakeNobody(st, rd) == rd
WakeIdleEarly(st, rd) ==
    IF Len(rd) <= 1 /\ st[Idle] \in Asleep THEN ListPush(rd, Idle) ELSE rd

\* A task that did not give up the CPU itself is READY again, at the tail.
Requeue(st, rd) == IF st[cur] = "RUNNING" THEN ListAppend(rd, cur) ELSE rd
Requeued(st) == IF st[cur] = "RUNNING" THEN [st EXCEPT ![cur] = "READY"] ELSE st

\* kthread_unblock(g_idle_task) when nothing else can run.
WakeIdle(st, rd) ==
    IF rd = <<>> /\ st[Idle] \in Asleep THEN ListPush(rd, Idle) ELSE rd

\* schedule(), entered with the statuses st and the ready list rd its caller
\* has left.  Popping an empty list would switch to Nobody.
Queue(st, rd) == WakeIdle(Requeued(st), Requeue(st, rd))
Schedule(st, rd) ==
    LET queue == Queue(st, rd)
        next  == IF queue = <<>> THEN Nobody ELSE Head(queue)
    IN  /\ cur' = next
        /\ status' = [Requeued(st) EXCEPT ![next] = "RUNNING"]
        /\ ready' = IF queue = <<>> THEN queue ELSE Tail(queue)
        /\ slice' = IF st[cur] = "RUNNING" THEN [slice EXCEPT ![cur] = Slice] ELSE slice

-----------------------------------------------------------------------------
\* kthread_run: a created task enters both lists.
Run(t) ==
    /\ cur \in Task
    /\ t \notin all /\ t # Main
    /\ status' = [status EXCEPT ![t] = "READY"]
    /\ slice' = [slice EXCEPT ![t] = Slice]
    /\ ready' = ListAppend(ready, t)
    /\ all' = all \cup {t}
    /\ UNCHANGED cur

\* kthread_block; the idle thread only ever passes TASK_BLOCKED.
Block(stat) ==
    /\ cur \in Task
    /\ stat \in Asleep
    /\ cur = Idle => stat = "BLOCKED"
    /\ Schedule([status EXCEPT ![cur] = stat], ready)
    /\ UNCHANGED all

UnblockUnchecked(t) ==
    /\ t \in all \ {Idle}
    /\ status' = [status EXCEPT ![t] = "READY"]
    /\ ready' = ListPush(ready, t)
    /\ UNCHANGED <<all, slice, cur>>

\* kthread_unblock, called by the running task or by an interrupt handler on
\* its stack.  A task that is not asleep is left alone: no step.
Unblock(t) ==
    /\ t \in all \ {Idle}
    /\ status[t] \in Asleep
    /\ status' = [status EXCEPT ![t] = "READY"]
    /\ ready' = ListPush(ready, t)
    /\ UNCHANGED <<all, slice, cur>>

\* kthread_yield: queued by itself, so schedule() does not queue it again.
Yield ==
    /\ cur \in Task
    /\ Schedule([status EXCEPT ![cur] = "READY"], ListAppend(ready, cur))
    /\ UNCHANGED all

TickPastZero ==
    /\ cur \in Task
    /\ slice' = [slice EXCEPT ![cur] = @ - 1]
    /\ UNCHANGED <<status, ready, all, cur>>

\* timer_handler: one tick of the running task's slice, or the end of it.
Tick ==
    /\ cur \in Task
    /\ IF slice[cur] = 0
       THEN Schedule(status, ready) /\ UNCHANGED all
       ELSE /\ slice' = [slice EXCEPT ![cur] = @ - 1]
            /\ UNCHANGED <<status, ready, all, cur>>

\* kthread_exit, which only main calls (main.c): it leaves both lists and never
\* comes back.
Exit ==
    /\ cur = Main
    /\ Schedule([status EXCEPT ![Main] = "DIED"], ListDrop(ready, Main))
    /\ all' = all \ {Main}

\* The scheduling half of process_exit: a parent removes a hanging child.
Reap(t) ==
    /\ cur \in Task \ {t, Idle}
    /\ t \in all \ {Idle, Main}
    /\ status[t] = "HANGING"
    /\ status' = [status EXCEPT ![t] = "DIED"]
    /\ ready' = ListDrop(ready, t)
    /\ all' = all \ {t}
    /\ UNCHANGED <<slice, cur>>

Next ==
    \/ \E t \in Task : Run(t) \/ Unblock(t) \/ Reap(t)
    \/ \E stat \in Asleep : Block(stat)
    \/ Yield
    \/ Tick
    \/ Exit

\* The timer keeps interrupting: the code turns interrupts off only for the
\* length of one operation.
Spec == Init /\ [][Next]_vars /\ WF_vars(Tick)

-----------------------------------------------------------------------------
\* Every variable has its type, and a CPU always has an owner: schedule() never
\* pops an empty list and a slice is never taken below zero.
TypeOK ==
    /\ status \in [Task -> Status]
    /\ ready \in Seq(Task)
    /\ all \in SUBSET Task
    /\ slice \in [Task -> 0..Slice]
    /\ cur \in Task

\* The ready list holds each READY task once and nothing else: what the status
\* checks of kthread_unblock and schedule are for, since an element linked twice
\* corrupts the list.
ReadyListExact ==
    /\ ListDistinct(ready)
    /\ Range(ready) = {t \in Task : status[t] = "READY"}

\* Exactly the task whose stack the CPU uses is RUNNING, and it is a listed
\* task: nobody is switched to after kthread_exit or process_exit removed it.
OneOnCpu ==
    /\ {t \in Task : status[t] = "RUNNING"} = {cur}
    /\ cur \in all

\* schedule() wakes the idle thread only when it is the one thing left to run.
IdleIsLastResort ==
    [][status[Idle] \in Asleep /\ status'[Idle] \notin Asleep
         => cur' = Idle /\ ready' = <<>>]_vars

\* No ready task waits forever, although kthread_unblock lets the tasks it
\* wakes overtake the whole list: the slice of an overtaker is not refilled by
\* sleeping, so it runs out and sends it to the tail.
NoStarvation == \A t \in Task : status[t] = "READY" ~> status[t] = "RUNNING"
=============================================================================
