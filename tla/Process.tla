------------------------------- MODULE Process -------------------------------
(***************************************************************************)
(* The process life cycle of process.c: sys_fork, sys_exit, sys_wait and   *)
(* process_exit.  They run in the kernel with interrupts enabled, so the   *)
(* timer may take the CPU between any two of the steps below.  A walk over *)
(* task_all_list visits one task per step, while others change the list.   *)
(***************************************************************************)
EXTENDS TaskList

CONSTANTS Task,    \* the task_struct pages processes live in
          InitTask,\* the init process (usr_init.c), which never exits
          NoTask,
          MaxPid,  \* bound: the pids of the pool (PID_BITMAP_LEN * 8 in the code)
          MaxForks \* bound: the calls of sys_fork

ASSUME ProcessAssumption ==
    /\ InitTask \in Task
    /\ NoTask \notin Task
    /\ MaxPid \in Nat /\ MaxPid >= 1 /\ MaxForks \in Nat

VARIABLES status,   \* task->status; RUNNABLE is READY or RUNNING
          cur,      \* who keeps the CPU although it is HANGING, or NoTask
          halted,   \* a page fault in the kernel has stopped the machine
          all,      \* task_all_list
          pid, ppid,\* task->pid and task->ppid; 0 stands for -1
          used,     \* the bits set in g_pid_pool
          pc,       \* where each task is in its system call
          at,       \* cur_elem of a walk over task_all_list
          hasChild, \* sys_wait's local variable
          parent,   \* sys_exit's local variable
          victim,   \* the child sys_wait is reaping
          strayed,  \* history: the page a walk stands at has become another task
          forks     \* history: the calls of sys_fork

walk == <<at, hasChild>>
ids == <<pid, ppid, used>>
history == <<strayed, forks>>
vars == <<status, cur, halted, all, ids, pc, walk, parent, victim, history>>

\* DIED is also what a page without a process is in.
Status == {"RUNNABLE", "WAITING", "HANGING", "DIED"}

PC == {"user",
       "wait_walk",   \* sys_wait: at a task of task_all_list
       "wait_again",  \* sys_wait: woken, before the next walk
       "wait_block",  \* sys_wait: kthread_block(TASK_WAITING)
       "reap_pid",    \* process_exit: pid_release
       "reap_list",   \* process_exit: DIED, off the lists, pages freed
       "exit_walk",   \* sys_exit: at a task of task_all_list
       "exit_check",  \* sys_exit: TASK_WAITING == parent->status ?
       "exit_hang",   \* sys_exit: child->status = TASK_HANGING
       "exit_wake",   \* sys_exit: kthread_unblock(parent)
       "exit_block",  \* sys_exit: kthread_block(TASK_HANGING)
       "exited"}      \* behind that call, where nothing is left to run

Pid == 1..MaxPid

Goto(t, from, to) == pc[t] = from /\ pc' = [pc EXCEPT ![t] = to]

Listed == Range(all)
Place(c) == CHOOSE i \in DOMAIN all : all[i] = c

\* sys_wait and sys_exit match tasks by pid.
ChildrenOf(t) == {c \in Listed : ppid[c] = pid[t]}

Init ==
    /\ status = [t \in Task |-> IF t = InitTask THEN "RUNNABLE" ELSE "DIED"]
    /\ cur = NoTask /\ halted = FALSE
    /\ all = <<InitTask>>
    /\ pid = [t \in Task |-> IF t = InitTask THEN 1 ELSE 0]
    /\ ppid = [t \in Task |-> 0]
    /\ used = {1}
    /\ pc = [t \in Task |-> "user"]
    /\ at = [t \in Task |-> NoTask]
    /\ hasChild = [t \in Task |-> FALSE]
    /\ parent = [t \in Task |-> NoTask]
    /\ victim = [t \in Task |-> NoTask]
    /\ strayed = FALSE /\ forks = 0

-----------------------------------------------------------------------------
(* The scheduler: any task on the ready list may be next, at any step (Sched  *)
(* has its order)                                                            *)

CanRun(t) == IF cur = NoTask THEN status[t] = "RUNNABLE" ELSE cur = t

\* The timer takes the CPU from a task that has made itself HANGING: it is not put
\* back on the ready list (sched.c:36).
Preempt ==
    /\ cur # NoTask /\ cur' = NoTask
    /\ UNCHANGED <<status, halted, all, ids, pc, walk, parent, victim, history>>

-----------------------------------------------------------------------------
(* sys_fork *)

\* The lowest free bit of g_pid_pool.
PidAcquire(p) ==
    /\ p \in Pid \ used /\ \A q \in Pid \ used : p <= q
    /\ used' = used \cup {p}

\* Mutant: the page of a process that waits to be reaped counts as free.
CreateOnZombie(c, p, parentPid) ==
    /\ status[c] \in {"DIED", "HANGING"}
    /\ PidAcquire(p)
    /\ pid' = [pid EXCEPT ![c] = p]
    /\ ppid' = [ppid EXCEPT ![c] = parentPid]
    /\ pc' = [pc EXCEPT ![c] = "user"]

\* kthread_create takes the page and the pid, and process_copy sets ppid.
Create(c, p, parentPid) ==
    /\ status[c] = "DIED" /\ c \notin Listed
    /\ PidAcquire(p)
    /\ pid' = [pid EXCEPT ![c] = p]
    /\ ppid' = [ppid EXCEPT ![c] = parentPid]
    /\ pc' = [pc EXCEPT ![c] = "user"]

\* The child is invisible until kthread_run, the last call of sys_fork.
Fork(t) ==
    /\ CanRun(t) /\ pc[t] = "user"
    /\ \E c \in Task, p \in Pid :
          /\ Create(c, p, pid[t])
          /\ status' = [status EXCEPT ![c] = "RUNNABLE"]
          /\ all' = ListAppend(all, c)
          /\ strayed' = (strayed \/ \E u \in Task : at[u] = c)
    /\ forks < MaxForks /\ forks' = forks + 1
    /\ UNCHANGED <<cur, halted, walk, parent, victim>>

-----------------------------------------------------------------------------
(* Walks over task_all_list *)

StartWalk(t) == at' = [at EXCEPT ![t] = Head(all)]

\* The next task of the list, or NoTask for its tail.
NextOf(c) == IF Place(c) = Len(all) THEN NoTask ELSE all[Place(c) + 1]
Advance(t) == at' = [at EXCEPT ![t] = NextOf(at[t])]
AtLast(t) == NextOf(at[t]) = NoTask

\* The page of a task that process_exit has freed is not mapped, and neither is
\* page 0: a walk whose task is gone, and a parent that is gone or was never
\* found, fault in the kernel, and so does a process that is woken behind sys_exit,
\* without its memory; a fault stops the machine (interrupt.c:63).
Fault(t) ==
    /\ CanRun(t)
    /\ \/ pc[t] \in {"wait_walk", "exit_walk"} /\ at[t] \notin Listed
       \/ pc[t] \in {"exit_check", "exit_wake"} /\ parent[t] \notin Listed
       \/ pc[t] = "exited"
    /\ halted' = TRUE
    /\ UNCHANGED <<status, cur, all, ids, pc, walk, parent, victim, history>>

-----------------------------------------------------------------------------
(* sys_exit *)

\* Mutant: the pid goes back to the pool before anybody has reaped the process.
ExitCallFreesPid(t) ==
    /\ CanRun(t) /\ t # InitTask /\ Goto(t, "user", "exit_walk")
    /\ StartWalk(t)
    /\ used' = used \ {pid[t]}
    /\ UNCHANGED <<status, cur, halted, all, pid, ppid, hasChild, parent, victim, history>>

ExitCall(t) ==
    /\ CanRun(t) /\ t # InitTask /\ Goto(t, "user", "exit_walk")
    /\ StartWalk(t)
    /\ UNCHANGED <<status, cur, halted, all, ids, hasChild, parent, victim, history>>

\* Mutant: only the children that hang already go to init.
ExitVisitHanging(t) ==
    LET c == at[t]
        adopted == [ppid EXCEPT ![c] =
                       IF @ = pid[t] /\ status[c] = "HANGING" THEN pid[InitTask] ELSE @]
    IN  /\ CanRun(t) /\ c \in Listed
        /\ Goto(t, "exit_walk", IF AtLast(t) THEN "exit_check" ELSE "exit_walk")
        /\ ppid' = adopted
        /\ parent' = [parent EXCEPT ![t] = IF pid[c] = adopted[t] THEN c ELSE @]
        /\ Advance(t)
        /\ UNCHANGED <<status, cur, halted, all, pid, used, hasChild, victim, history>>

\* A child goes to init, and the parent is remembered.  After the walk the address
\* space and the files are released.
ExitVisit(t) ==
    LET c == at[t]
        adopted == [ppid EXCEPT ![c] = IF @ = pid[t] THEN pid[InitTask] ELSE @]
    IN  /\ CanRun(t) /\ c \in Listed
        /\ Goto(t, "exit_walk", IF AtLast(t) THEN "exit_check" ELSE "exit_walk")
        /\ ppid' = adopted
        /\ parent' = [parent EXCEPT ![t] = IF pid[c] = adopted[t] THEN c ELSE @]
        /\ Advance(t)
        /\ UNCHANGED <<status, cur, halted, all, pid, used, hasChild, victim, history>>

ExitCheck(t) ==
    /\ CanRun(t) /\ parent[t] \in Listed
    /\ Goto(t, "exit_check",
            IF status[parent[t]] = "WAITING" THEN "exit_hang" ELSE "exit_block")
    /\ parent' = [parent EXCEPT ![t] = IF status[@] = "WAITING" THEN @ ELSE NoTask]
    /\ UNCHANGED <<status, cur, halted, all, ids, walk, victim, history>>

ExitHang(t) ==
    /\ CanRun(t) /\ Goto(t, "exit_hang", "exit_wake")
    /\ status' = [status EXCEPT ![t] = "HANGING"]
    /\ cur' = t
    /\ UNCHANGED <<halted, all, ids, walk, parent, victim, history>>

\* kthread_unblock wakes whatever sleeps in that page by now.
ExitWake(t) ==
    /\ CanRun(t) /\ parent[t] \in Listed /\ Goto(t, "exit_wake", "exit_block")
    /\ status' = [status EXCEPT ![parent[t]] =
                      IF @ \in {"WAITING", "HANGING"} THEN "RUNNABLE" ELSE @]
    /\ parent' = [parent EXCEPT ![t] = NoTask]
    /\ UNCHANGED <<cur, halted, all, ids, walk, victim, history>>

ExitBlock(t) ==
    /\ CanRun(t) /\ Goto(t, "exit_block", "exited")
    /\ status' = [status EXCEPT ![t] = "HANGING"]
    /\ cur' = NoTask
    /\ UNCHANGED <<halted, all, ids, walk, parent, victim, history>>

-----------------------------------------------------------------------------
(* sys_wait *)

\* One turn of its loop begins.
WaitCall(t) ==
    /\ CanRun(t) /\ \E from \in {"user", "wait_again"} : Goto(t, from, "wait_walk")
    /\ StartWalk(t)
    /\ hasChild' = [hasChild EXCEPT ![t] = FALSE]
    /\ UNCHANGED <<status, cur, halted, all, ids, parent, victim, history>>

\* A hanging child is reaped.  Mutant: any hanging process is.
WaitFindAny(t) ==
    LET c == at[t]
    IN  /\ CanRun(t) /\ c \in Listed /\ status[c] = "HANGING"
        /\ Goto(t, "wait_walk", "reap_pid")
        /\ victim' = [victim EXCEPT ![t] = c]
        /\ at' = [at EXCEPT ![t] = NoTask]
        /\ UNCHANGED <<status, cur, halted, all, ids, hasChild, parent, history>>
WaitFind(t) ==
    LET c == at[t]
    IN  /\ CanRun(t) /\ c \in Listed /\ ppid[c] = pid[t] /\ status[c] = "HANGING"
        /\ Goto(t, "wait_walk", "reap_pid")
        /\ victim' = [victim EXCEPT ![t] = c]
        /\ at' = [at EXCEPT ![t] = NoTask]
        /\ UNCHANGED <<status, cur, halted, all, ids, hasChild, parent, history>>

\* Mutant: the children that come before the last task are forgotten.
WaitPassForgets(t) ==
    LET c == at[t]
        found == ppid[c] = pid[t]
    IN  /\ CanRun(t) /\ c \in Listed /\ ~(found /\ status[c] = "HANGING")
        /\ Goto(t, "wait_walk", IF ~AtLast(t) THEN "wait_walk"
                                ELSE IF found THEN "wait_block" ELSE "user")
        /\ hasChild' = [hasChild EXCEPT ![t] = found]
        /\ Advance(t)
        /\ UNCHANGED <<status, cur, halted, all, ids, parent, victim, history>>

\* Any other task is passed; at the end of the list the call returns -1 or, with
\* live children, goes to sleep.
WaitPass(t) ==
    LET c == at[t]
        found == hasChild[t] \/ ppid[c] = pid[t]
    IN  /\ CanRun(t) /\ c \in Listed /\ ~(ppid[c] = pid[t] /\ status[c] = "HANGING")
        /\ Goto(t, "wait_walk", IF ~AtLast(t) THEN "wait_walk"
                                ELSE IF found THEN "wait_block" ELSE "user")
        /\ hasChild' = [hasChild EXCEPT ![t] = ~AtLast(t) /\ found]
        /\ Advance(t)
        /\ UNCHANGED <<status, cur, halted, all, ids, parent, victim, history>>

WaitBlock(t) ==
    /\ CanRun(t) /\ Goto(t, "wait_block", "wait_again")
    /\ status' = [status EXCEPT ![t] = "WAITING"]
    /\ UNCHANGED <<cur, halted, all, ids, walk, parent, victim, history>>

ReapPid(t) ==
    /\ CanRun(t) /\ Goto(t, "reap_pid", "reap_list")
    /\ used' = used \ {pid[victim[t]]}
    /\ UNCHANGED <<status, cur, halted, all, pid, ppid, walk, parent, victim, history>>

\* Unlinked and freed; a walk that stands there and moves on in between is one that
\* moved on before.
ReapList(t) ==
    /\ CanRun(t) /\ pc[t] = "reap_list"
    /\ pc' = [pc EXCEPT ![t] = "user", ![victim[t]] = "user"]
    /\ status' = [status EXCEPT ![victim[t]] = "DIED"]
    /\ all' = ListDrop(all, victim[t])
    /\ victim' = [victim EXCEPT ![t] = NoTask]
    /\ pid' = [pid EXCEPT ![victim[t]] = 0]
    /\ ppid' = [ppid EXCEPT ![victim[t]] = 0]
    /\ parent' = [parent EXCEPT ![victim[t]] = NoTask]
    /\ UNCHANGED <<cur, halted, used, walk, history>>

-----------------------------------------------------------------------------
\* The steps of the system calls.
Step(t) ==
    \/ ExitCall(t) \/ ExitVisit(t) \/ ExitCheck(t) \/ ExitHang(t) \/ ExitWake(t)
    \/ ExitBlock(t)
    \/ WaitCall(t) \/ WaitFind(t) \/ WaitPass(t) \/ WaitBlock(t)
    \/ ReapPid(t) \/ ReapList(t) \/ Fault(t)

Next ==
    /\ ~halted
    /\ Preempt \/ \E t \in Task : Fork(t) \/ Step(t)

Spec == Init /\ [][Next]_vars

\* A task that can run again and again gets the CPU again and again (NoStarvation of
\* Sched) and goes on in its system call; no process has to start one.
FairSpec ==
    /\ Spec
    /\ \A t \in Task : SF_vars(~halted /\ pc[t] # "user" /\ Step(t))

-----------------------------------------------------------------------------
TypeOK ==
    /\ status \in [Task -> Status]
    /\ cur \in Task \cup {NoTask}
    /\ halted \in BOOLEAN
    /\ Listed \subseteq Task /\ ListDistinct(all)
    /\ pid \in [Task -> 0..MaxPid] /\ ppid \in [Task -> 0..MaxPid]
    /\ used \in SUBSET Pid
    /\ pc \in [Task -> PC]
    /\ at \in [Task -> Task \cup {NoTask}] /\ hasChild \in [Task -> BOOLEAN]
    /\ parent \in [Task -> Task \cup {NoTask}]
    /\ victim \in [Task -> Task \cup {NoTask}]
    /\ strayed \in BOOLEAN /\ forks \in 0..MaxForks

\* The tasks sys_wait has begun to take apart.
Dying == {victim[t] : t \in Task} \ {NoTask}

\* A process in or behind the walk of sys_exit that has passed c adopts and reaps
\* it no more.
Passed(t, c) ==
    \/ pc[t] \in {"exit_check", "exit_hang", "exit_wake", "exit_block", "exited"}
    \/ pc[t] = "exit_walk" /\ at[t] \in Listed /\ Place(c) < Place(at[t])

\* Every listed process has a listed parent that can still call wait for it, or
\* whose sys_exit has still to come to it and give it to init, however the list
\* changes under the walk (process.c:739-754).
NoOrphan ==
    ~strayed => \A c \in Listed \ {InitTask} :
        \E p \in Listed : pid[p] = ppid[c] /\ ~Passed(p, c)

\* No two listed processes answer to one pid, which would misdirect wait and
\* exit, although process_exit gives the pid back before it unlinks the task.
LivePidsUnique ==
    \A t, u \in Listed \ Dying : pid[t] = pid[u] => t = u

\* No process is taken apart by two others, or after it left the list, and
\* nobody who takes one apart is being taken apart itself (process.c:711-716).
OneReaper ==
    \A t, u \in Task :
        victim[t] # NoTask =>
            /\ victim[t] \in Listed
            /\ victim[t] = victim[u] => t = u
            /\ t \notin Dying

\* The pid pool and the list agree: a pid is taken exactly as long as a process
\* carries it and nobody has started to reap that process.
PoolMatchesList ==
    used = {pid[t] : t \in {t \in Listed : \A u \in Task : victim[u] = t => pc[u] = "reap_pid"}}

\* When sys_wait returns -1 the process has no child, although the list changed
\* during its walk (process.c:722-723).  Only init may miss one: another process may
\* hand it a child that it has passed.
WaitTruthful ==
    [][~strayed => \A t \in Task \ {InitTask} :
          pc[t] = "wait_walk" /\ pc'[t] = "user" => ChildrenOf(t) = {}]_vars

-----------------------------------------------------------------------------
\* "Wait for the parent process to perform reaping" (process.c:769): a process
\* that has ended is reaped if its parent sits in wait.
Sits(p, c) == p \in Listed /\ pid[p] = ppid[c] /\ status[p] = "WAITING"
WaitingParentReaps ==
    \A p, c \in Task :
        (status[c] = "HANGING" /\ Sits(p, c)) ~> ~(status[c] = "HANGING" /\ Sits(p, c))
=============================================================================
