----------------------------- MODULE SchedProofs -----------------------------
(***************************************************************************)
(* Proofs about the scheduler for every set of tasks and every slice.      *)
(***************************************************************************)
EXTENDS Sched, ListLemmas

\* A task is on task_all_list exactly while it is a live task, and the idle
\* thread always is: what makes it available when nothing else can run.
AllListExact ==
    /\ \A t \in Task : t \in all <=> status[t] \notin {"NEW", "DIED"}
    /\ Idle \in all

\* The inductive invariant: the three checked ones need AllListExact, for Run
\* (an unlisted task is not ready) and for schedule (idle can be woken).
IInv == TypeOK /\ ReadyListExact /\ OneOnCpu /\ AllListExact

\* What a caller must have established before it calls schedule().
Consistent(st, rd) ==
    /\ st \in [Task -> Status]
    /\ rd \in Seq(Task)
    /\ ListDistinct(rd)
    /\ Range(rd) = {t \in Task : st[t] = "READY"}
    /\ \A t \in Task : st[t] = "RUNNING" => t = cur
    /\ st[Idle] \in Asleep \cup {"READY", "RUNNING"}

-----------------------------------------------------------------------------
\* schedule() puts a running task back and, if that leaves the list empty, the
\* idle thread, so that there is a head to pop.
LEMMA QueueNotEmpty ==
    ASSUME NEW st, NEW rd, Consistent(st, rd), cur \in Task
    PROVE  /\ Queue(st, rd) \in Seq(Task) /\ Queue(st, rd) # <<>>
           /\ ListDistinct(Queue(st, rd))
           /\ \A t \in Range(Queue(st, rd)) :
                 Requeued(st)[t] = "READY" \/ (t = Idle /\ Queue(st, rd) = <<Idle>>)
           /\ \A t \in Task : Requeued(st)[t] = "READY" => t \in Range(Queue(st, rd))
<1> USE SchedAssumption
<1>1. /\ Requeue(st, rd) \in Seq(Task) /\ ListDistinct(Requeue(st, rd))
      /\ Range(Requeue(st, rd)) = {t \in Task : Requeued(st)[t] = "READY"}
      /\ Requeued(st)[Idle] \in Asleep \cup {"READY"}
  <2>1. CASE st[cur] = "RUNNING"
    <3>1. cur \notin Range(rd)
      BY <2>1 DEF Consistent
    <3>2. /\ Requeue(st, rd) \in Seq(Task) /\ ListDistinct(Requeue(st, rd))
          /\ Range(Requeue(st, rd)) = Range(rd) \cup {cur}
      BY <2>1, <3>1, AppendFresh DEF Consistent, Requeue
    <3> QED BY <2>1, <3>2 DEF Consistent, Requeued, Asleep
  <2>2. CASE st[cur] # "RUNNING"
    BY <2>2 DEF Consistent, Requeue, Requeued
  <2> QED BY <2>1, <2>2
<1>2. CASE Requeue(st, rd) = <<>>
  <2>1. Range(Requeue(st, rd)) = {}
    BY <1>2, EmptyRange
  <2>2. Requeued(st)[Idle] \in Asleep
    BY <1>1, <2>1
  <2>3. Queue(st, rd) = ListPush(Requeue(st, rd), Idle) /\ Queue(st, rd) = <<Idle>>
    BY <1>2, <2>2 DEF Queue, WakeIdle, ListPush
  <2>4. /\ Queue(st, rd) \in Seq(Task) /\ Queue(st, rd) # <<>>
        /\ ListDistinct(Queue(st, rd)) /\ Range(Queue(st, rd)) = {Idle}
    <3>1. PICK q \in Seq(Task) : q = Requeue(st, rd) /\ ListDistinct(q) /\ Range(q) = {}
      BY <1>1, <2>1
    <3>2. Idle \in Task /\ Idle \notin Range(q)
      BY <3>1
    <3>3. /\ ListPush(q, Idle) \in Seq(Task) /\ ListPush(q, Idle) # <<>>
          /\ ListDistinct(ListPush(q, Idle)) /\ Range(ListPush(q, Idle)) = Range(q) \cup {Idle}
      BY <3>1, <3>2, PushFresh
    <3> QED BY <2>3, <3>1, <3>3
  <2> QED BY <1>1, <2>1, <2>3, <2>4
<1>3. CASE Requeue(st, rd) # <<>>
  <2>1. Queue(st, rd) = Requeue(st, rd)
    BY <1>3 DEF Queue, WakeIdle
  <2> QED BY <1>1, <1>3, <2>1
<1> QED BY <1>2, <1>3

\* What a call of schedule() leaves behind (sched.c:32-67).
LEMMA ScheduleStep ==
    ASSUME NEW st, NEW rd, Consistent(st, rd), cur \in Task,
           slice \in [Task -> 0..Slice], Schedule(st, rd)
    PROVE  /\ status' \in [Task -> Status] /\ ready' \in Seq(Task)
           /\ slice' \in [Task -> 0..Slice] /\ cur' \in Task
           /\ ReadyListExact'
           /\ {t \in Task : status'[t] = "RUNNING"} = {cur'}
           /\ st[cur'] \notin {"NEW", "DIED"}
           /\ \A t \in Task : status'[t] \in {"NEW", "DIED"} <=> st[t] \in {"NEW", "DIED"}
<1> DEFINE queue == Queue(st, rd)
           next == Head(queue)
           rest == Tail(queue)
<1>1. /\ queue \in Seq(Task) /\ queue # <<>> /\ ListDistinct(queue)
      /\ \A t \in Range(queue) :
            Requeued(st)[t] = "READY" \/ (t = Idle /\ queue = <<Idle>>)
      /\ \A t \in Task : Requeued(st)[t] = "READY" => t \in Range(queue)
  BY QueueNotEmpty
<1>2. /\ cur' = next
      /\ status' = [Requeued(st) EXCEPT ![next] = "RUNNING"]
      /\ ready' = rest
      /\ slice' = IF st[cur] = "RUNNING" THEN [slice EXCEPT ![cur] = Slice] ELSE slice
  BY <1>1 DEF Schedule
<1> HIDE DEF queue
<1>3. /\ next \in Task /\ next \in Range(queue)
      /\ rest \in Seq(Task) /\ ListDistinct(rest)
      /\ Range(rest) = Range(queue) \ {next}
  BY <1>1, PopDistinct
<1>4. /\ Requeued(st) \in [Task -> Status]
      /\ \A t \in Task : Requeued(st)[t] # "RUNNING"
      /\ \A t \in Task : Requeued(st)[t] \in {"NEW", "DIED"} <=> st[t] \in {"NEW", "DIED"}
  BY DEF Consistent, Requeued, Status
<1>5. Range(queue) \subseteq Task
  BY <1>1, RangeOfSeq
<1>6. Requeued(st)[next] \notin {"NEW", "DIED"}
  <2>1. CASE next = Idle
    BY <2>1, <1>4, SchedAssumption DEF Consistent, Asleep
  <2>2. CASE Requeued(st)[next] = "READY"
    BY <2>2
  <2> QED BY <1>1, <1>3, <2>1, <2>2
<1>7. \A t \in Range(rest) : Requeued(st)[t] = "READY"
  <2>1. queue = <<Idle>> => Range(queue) = {Idle}
    BY SingletonRange
  <2> QED BY <1>1, <1>3, <2>1
<1> HIDE DEF next, rest
<1>8. status' \in [Task -> Status]
  BY <1>2, <1>4 DEF Status
<1>9. Range(ready') = {t \in Task : status'[t] = "READY"}
  BY <1>1, <1>2, <1>3, <1>4, <1>5, <1>7
<1>10. {t \in Task : status'[t] = "RUNNING"} = {cur'}
  BY <1>2, <1>3, <1>4
<1>11. slice' \in [Task -> 0..Slice]
  BY <1>2, SchedAssumption
<1>12. \A t \in Task : status'[t] \in {"NEW", "DIED"} <=> st[t] \in {"NEW", "DIED"}
  BY <1>2, <1>3, <1>4, <1>6
<1> QED
  BY <1>2, <1>3, <1>4, <1>6, <1>8, <1>9, <1>10, <1>11, <1>12 DEF ReadyListExact

\* schedule() leaves a sleeping idle thread asleep unless it runs it, and then
\* the ready list is empty (sched.c:43-45).
LEMMA ScheduleIdle ==
    ASSUME NEW st, NEW rd, Consistent(st, rd), cur \in Task, st[Idle] \in Asleep,
           Schedule(st, rd)
    PROVE  status'[Idle] \in Asleep \/ (cur' = Idle /\ ready' = <<>>)
<1>1. /\ Queue(st, rd) \in Seq(Task) /\ Queue(st, rd) # <<>>
      /\ ListDistinct(Queue(st, rd))
      /\ \A t \in Range(Queue(st, rd)) :
            Requeued(st)[t] = "READY" \/ (t = Idle /\ Queue(st, rd) = <<Idle>>)
  BY QueueNotEmpty
<1>2. Head(Queue(st, rd)) \in Range(Queue(st, rd))
  BY <1>1, PopDistinct
<1>3. /\ cur' = Head(Queue(st, rd)) /\ ready' = Tail(Queue(st, rd))
      /\ status' = [Requeued(st) EXCEPT ![Head(Queue(st, rd))] = "RUNNING"]
  BY <1>1 DEF Schedule
<1>4. Requeued(st)[Idle] \in Asleep /\ Requeued(st) \in [Task -> Status]
  BY SchedAssumption DEF Consistent, Requeued, Asleep, Status
<1>5. CASE Queue(st, rd) = <<Idle>>
  BY <1>3, <1>5
<1>6. CASE Queue(st, rd) # <<Idle>>
  <2>1. Head(Queue(st, rd)) # Idle
    BY <1>1, <1>2, <1>4, <1>6 DEF Asleep
  <2> QED BY <1>3, <1>4, <2>1, SchedAssumption
<1> QED BY <1>5, <1>6

-----------------------------------------------------------------------------
\* The state after kthread_init satisfies the invariant.
LEMMA InitIInv == Init => IInv
<1> SUFFICES ASSUME Init PROVE IInv
  OBVIOUS
<1> USE SchedAssumption
<1>1. Range(ready) = {Idle}
  BY SingletonRange DEF Init
<1>2. ListDistinct(ready) /\ ready \in Seq(Task)
  BY DEF Init, ListDistinct, IsInjective
<1>3. TypeOK
  BY <1>2 DEF Init, TypeOK, Status, Asleep
<1>4. ReadyListExact /\ OneOnCpu /\ AllListExact
  BY <1>1, <1>2 DEF Init, ReadyListExact, OneOnCpu, AllListExact
<1> QED BY <1>3, <1>4 DEF IInv

\* What the invariant says of one state, in the terms the steps need.
LEMMA IInvFacts ==
    ASSUME IInv
    PROVE  /\ TypeOK /\ ReadyListExact /\ OneOnCpu /\ AllListExact
           /\ cur \in Task /\ status[cur] = "RUNNING"
           /\ \A t \in Task : status[t] = "RUNNING" => t = cur
           /\ \A t \in Task : t \in Range(ready) <=> status[t] = "READY"
           /\ status[Idle] \in Asleep \cup {"READY", "RUNNING"}
BY SchedAssumption
   DEF IInv, TypeOK, ReadyListExact, OneOnCpu, AllListExact, Status, Asleep

\* A step that ends in schedule() and changes no task_all_list entry.
LEMMA ScheduleKeepsIInv ==
    ASSUME IInv, NEW st, NEW rd, Consistent(st, rd), Schedule(st, rd), UNCHANGED all,
           \A t \in Task : st[t] \in {"NEW", "DIED"} <=> status[t] \in {"NEW", "DIED"}
    PROVE  IInv'
<1>1. /\ status' \in [Task -> Status] /\ ready' \in Seq(Task)
      /\ slice' \in [Task -> 0..Slice] /\ cur' \in Task /\ ReadyListExact'
      /\ {t \in Task : status'[t] = "RUNNING"} = {cur'}
      /\ st[cur'] \notin {"NEW", "DIED"}
      /\ \A t \in Task : status'[t] \in {"NEW", "DIED"} <=> st[t] \in {"NEW", "DIED"}
  BY ScheduleStep, IInvFacts DEF TypeOK
<1> QED BY <1>1, IInvFacts DEF IInv, TypeOK, OneOnCpu, AllListExact

\* kthread_run queues a task that is on no list.
LEMMA RunKeepsIInv ==
    ASSUME IInv, NEW t \in Task, Run(t) PROVE IInv'
<1>1. t \notin Range(ready) /\ status[t] \in {"NEW", "DIED"} /\ t # cur
  BY IInvFacts DEF Run, AllListExact
<1>2. /\ ready' \in Seq(Task) /\ ListDistinct(ready')
      /\ Range(ready') = Range(ready) \cup {t}
  BY <1>1, AppendFresh, IInvFacts DEF Run, TypeOK, ReadyListExact
<1>3. TypeOK'
  BY <1>2, IInvFacts, SchedAssumption DEF Run, TypeOK, Status
<1>4. ReadyListExact'
  BY <1>2, IInvFacts DEF Run, TypeOK, ReadyListExact
<1>5. OneOnCpu' /\ AllListExact'
  BY <1>1, IInvFacts DEF Run, TypeOK, OneOnCpu, AllListExact
<1> QED BY <1>3, <1>4, <1>5 DEF IInv

\* kthread_unblock queues a sleeper.
LEMMA UnblockKeepsIInv ==
    ASSUME IInv, NEW t \in Task, Unblock(t) PROVE IInv'
<1>1. t \notin Range(ready) /\ t # cur
  BY IInvFacts DEF Unblock, Asleep
<1>2. /\ ready' \in Seq(Task) /\ ListDistinct(ready')
      /\ Range(ready') = Range(ready) \cup {t}
  BY <1>1, PushFresh, IInvFacts DEF Unblock, TypeOK, ReadyListExact
<1>3. TypeOK'
  BY <1>2, IInvFacts DEF Unblock, TypeOK, Status
<1>4. ReadyListExact'
  BY <1>2, IInvFacts DEF Unblock, TypeOK, ReadyListExact
<1>5. OneOnCpu' /\ AllListExact'
  BY <1>1, IInvFacts DEF Unblock, TypeOK, OneOnCpu, AllListExact, Asleep
<1> QED BY <1>3, <1>4, <1>5 DEF IInv

\* A task that is taken apart was not on the ready list.
LEMMA ReapKeepsIInv ==
    ASSUME IInv, NEW t \in Task, Reap(t) PROVE IInv'
<1>1. t \notin Range(ready) /\ t # cur /\ t # Idle
  BY IInvFacts DEF Reap
<1>2. UNCHANGED ready
  BY <1>1, DropAbsent DEF Reap
<1> QED
  BY <1>1, <1>2, IInvFacts
     DEF Reap, IInv, TypeOK, ReadyListExact, OneOnCpu, AllListExact, Status

\* kthread_block leaves a list that schedule can pop.
LEMMA BlockKeepsIInv ==
    ASSUME IInv, NEW stat \in Asleep, Block(stat) PROVE IInv'
<1> DEFINE st == [status EXCEPT ![cur] = stat]
<1>1. Consistent(st, ready)
  BY IInvFacts DEF Consistent, TypeOK, ReadyListExact, Status, Asleep
<1>2. \A t \in Task : st[t] \in {"NEW", "DIED"} <=> status[t] \in {"NEW", "DIED"}
  BY IInvFacts DEF TypeOK, Asleep
<1>3. Schedule(st, ready) /\ UNCHANGED all
  BY DEF Block
<1> HIDE DEF st
<1> QED BY <1>1, <1>2, <1>3, ScheduleKeepsIInv

\* kthread_yield goes to the end of the list.
LEMMA YieldKeepsIInv ==
    ASSUME IInv, Yield PROVE IInv'
<1> DEFINE st == [status EXCEPT ![cur] = "READY"]
           rd == ListAppend(ready, cur)
<1>1. /\ rd \in Seq(Task) /\ ListDistinct(rd) /\ Range(rd) = Range(ready) \cup {cur}
  BY IInvFacts, AppendFresh DEF TypeOK, ReadyListExact
<1>2. Consistent(st, rd)
  BY <1>1, IInvFacts DEF Consistent, TypeOK, ReadyListExact, Status
<1>3. \A t \in Task : st[t] \in {"NEW", "DIED"} <=> status[t] \in {"NEW", "DIED"}
  BY IInvFacts DEF TypeOK
<1>4. Schedule(st, rd) /\ UNCHANGED all
  BY DEF Yield
<1> HIDE DEF st, rd
<1> QED BY <1>2, <1>3, <1>4, ScheduleKeepsIInv

\* The tick counts down, or ends the slice.
LEMMA TickKeepsIInv ==
    ASSUME IInv, Tick PROVE IInv'
<1>1. CASE slice[cur] = 0
  <2>1. Consistent(status, ready)
    BY IInvFacts DEF Consistent, TypeOK, ReadyListExact
  <2> QED BY <1>1, <2>1, ScheduleKeepsIInv DEF Tick
<1>2. CASE slice[cur] # 0
  <2>1. slice' \in [Task -> 0..Slice]
    BY <1>2, IInvFacts, SchedAssumption DEF Tick, TypeOK
  <2> QED
    BY <1>2, <2>1 DEF Tick, IInv, TypeOK, ReadyListExact, OneOnCpu, AllListExact
<1> QED BY <1>1, <1>2

\* The main thread gives up for good.
LEMMA ExitKeepsIInv ==
    ASSUME IInv, Exit PROVE IInv'
<1> DEFINE st == [status EXCEPT ![Main] = "DIED"]
<1>1. ListDrop(ready, Main) = ready
  BY IInvFacts, DropAbsent DEF Exit
<1>2. Consistent(st, ready)
  BY IInvFacts, SchedAssumption DEF Exit, Consistent, TypeOK, ReadyListExact, Status
<1>3. /\ status' \in [Task -> Status] /\ ready' \in Seq(Task)
      /\ slice' \in [Task -> 0..Slice] /\ cur' \in Task /\ ReadyListExact'
      /\ {t \in Task : status'[t] = "RUNNING"} = {cur'}
      /\ st[cur'] \notin {"NEW", "DIED"}
      /\ \A t \in Task : status'[t] \in {"NEW", "DIED"} <=> st[t] \in {"NEW", "DIED"}
  BY <1>1, <1>2, ScheduleStep, IInvFacts DEF Exit, TypeOK
<1> QED
  BY <1>3, IInvFacts, SchedAssumption DEF Exit, IInv, TypeOK, OneOnCpu, AllListExact

-----------------------------------------------------------------------------
\* The invariant holds in every reachable state.
THEOREM Invariance == Spec => []IInv
<1>1. IInv /\ [Next]_vars => IInv'
  <2> SUFFICES ASSUME IInv, [Next]_vars PROVE IInv'
    OBVIOUS
  <2>1. ASSUME NEW t \in Task, Run(t) \/ Unblock(t) \/ Reap(t) PROVE IInv'
    BY <2>1, RunKeepsIInv, UnblockKeepsIInv, ReapKeepsIInv
  <2>2. ASSUME NEW stat \in Asleep, Block(stat) PROVE IInv'
    BY <2>2, BlockKeepsIInv
  <2>3. CASE UNCHANGED vars
    BY <2>3 DEF vars, IInv, TypeOK, ReadyListExact, OneOnCpu, AllListExact
  <2> QED
    BY <2>1, <2>2, <2>3, YieldKeepsIInv, TickKeepsIInv, ExitKeepsIInv DEF Next
<1> QED BY InitIInv, <1>1, PTL DEF Spec

\* There is always a task on the CPU, its slice is never negative, and the
\* variables keep their types (schedule never pops an empty list).
THEOREM TypeCorrect == Spec => []TypeOK
<1>1. IInv => TypeOK
  BY DEF IInv
<1> QED BY <1>1, Invariance, PTL

\* The ready list is exactly the READY tasks, each linked once.
THEOREM ReadyListSound == Spec => []ReadyListExact
<1>1. IInv => ReadyListExact
  BY DEF IInv
<1> QED BY <1>1, Invariance, PTL

\* Exactly one task is RUNNING: the listed one whose stack the CPU uses.
THEOREM CpuSound == Spec => []OneOnCpu
<1>1. IInv => OneOnCpu
  BY DEF IInv
<1> QED BY <1>1, Invariance, PTL


\* One step wakes the idle thread only by switching to it.
LEMMA IdleStep ==
    ASSUME IInv, Next, status[Idle] \in Asleep
    PROVE  status'[Idle] \in Asleep \/ (cur' = Idle /\ ready' = <<>>)
<1>1. ASSUME NEW t \in Task, Run(t) \/ Unblock(t) \/ Reap(t)
      PROVE  status'[Idle] \in Asleep
  BY <1>1, IInvFacts, SchedAssumption
     DEF Run, Unblock, Reap, AllListExact, TypeOK, Asleep
<1>2. ASSUME NEW stat \in Asleep, Block(stat)
      PROVE  status'[Idle] \in Asleep \/ (cur' = Idle /\ ready' = <<>>)
  <2> DEFINE st == [status EXCEPT ![cur] = stat]
  <2>1. Consistent(st, ready) /\ st[Idle] \in Asleep
    BY IInvFacts, SchedAssumption
       DEF Consistent, TypeOK, ReadyListExact, Status, Asleep
  <2>2. Schedule(st, ready)
    BY <1>2 DEF Block
  <2> HIDE DEF st
  <2> QED BY <2>1, <2>2, ScheduleIdle, IInvFacts
<1>3. CASE Yield
  <2> DEFINE st == [status EXCEPT ![cur] = "READY"]
             rd == ListAppend(ready, cur)
  <2>1. /\ rd \in Seq(Task) /\ ListDistinct(rd) /\ Range(rd) = Range(ready) \cup {cur}
    BY IInvFacts, AppendFresh DEF TypeOK, ReadyListExact
  <2>2. cur # Idle
    BY IInvFacts DEF Asleep
  <2>3. Consistent(st, rd) /\ st[Idle] \in Asleep
    BY <2>1, <2>2, IInvFacts, SchedAssumption
       DEF Consistent, TypeOK, ReadyListExact, Status
  <2>4. Schedule(st, rd)
    BY <1>3 DEF Yield
  <2> HIDE DEF st, rd
  <2> QED BY <2>3, <2>4, ScheduleIdle, IInvFacts
<1>4. CASE Tick
  <2>1. Consistent(status, ready)
    BY IInvFacts DEF Consistent, TypeOK, ReadyListExact
  <2> QED BY <1>4, <2>1, ScheduleIdle, IInvFacts DEF Tick
<1>5. CASE Exit
  <2> DEFINE st == [status EXCEPT ![Main] = "DIED"]
  <2>1. ListDrop(ready, Main) = ready
    BY <1>5, IInvFacts, DropAbsent DEF Exit
  <2>2. Consistent(st, ready) /\ st[Idle] \in Asleep
    BY <1>5, IInvFacts, SchedAssumption
       DEF Exit, Consistent, TypeOK, ReadyListExact, Status
  <2>3. Schedule(st, ready)
    BY <1>5, <2>1 DEF Exit
  <2> HIDE DEF st
  <2> QED BY <2>2, <2>3, ScheduleIdle, IInvFacts
<1> QED BY <1>1, <1>2, <1>3, <1>4, <1>5 DEF Next

\* The idle thread takes the CPU out of its sleep only when nothing else can run.
THEOREM IdleSound == Spec => IdleIsLastResort
<1>1. IInv /\ [Next]_vars =>
        [status[Idle] \in Asleep /\ status'[Idle] \notin Asleep
           => cur' = Idle /\ ready' = <<>>]_vars
  BY IdleStep
<1> QED BY <1>1, Invariance, PTL DEF Spec, IdleIsLastResort
=============================================================================
