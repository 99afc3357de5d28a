---------------------------- MODULE ProcessProofs ----------------------------
(***************************************************************************)
(* Proofs about the process life cycle for every set of task_struct pages  *)
(* and every length of the pid pool.                                       *)
(***************************************************************************)
EXTENDS Process, ListLemmas

\* The steps of sys_exit, and those behind child->status = TASK_HANGING.
ExitTail == {"exit_wake", "exit_block", "exited"}
ExitPC == {"exit_walk", "exit_check", "exit_hang"} \cup ExitTail

\* task_all_list has the pages with a process; a free page is in no call.
ListedAlive ==
    /\ all \in Seq(Task)
    /\ \A t \in Task : t \in Listed <=> status[t] # "DIED"
    /\ \A t \in Task \ Listed : pc[t] = "user"

InitStays == InitTask \in Listed /\ pc[InitTask] \notin ExitPC

\* Who hangs, or keeps the CPU although it hangs, has no walk of its own to go on with.
HangersAtEnd ==
    /\ \A t \in Task : status[t] = "HANGING" => pc[t] \in ExitTail
    /\ cur # NoTask => cur \in Listed /\ pc[cur] \in ExitTail

\* process_exit is called by the parent, on a child that hangs.
VictimsHang ==
    \A t \in Task :
        /\ victim[t] # NoTask <=> pc[t] \in {"reap_pid", "reap_list"}
        /\ victim[t] # NoTask => /\ victim[t] \in Listed
                                 /\ pc[victim[t]] \in ExitTail
                                 /\ ppid[victim[t]] = pid[t]

\* A process has its pid until process_exit has given it back.
HoldsPid(t) == t \in Listed /\ \A u \in Task : victim[u] = t => pc[u] = "reap_pid"

PidsUnique == \A t, u \in Task : HoldsPid(t) /\ HoldsPid(u) /\ pid[t] = pid[u] => t = u

\* What sys_wait has walked past without finding a child.
WalkMissesNone ==
    ~strayed => \A t \in Task \ {InitTask} :
        pc[t] = "wait_walk" /\ ~hasChild[t] /\ at[t] \in Listed =>
            \A c \in ChildrenOf(t) : ~(Place(c) < Place(at[t]))

\* The inductive invariant.
IInv == /\ TypeOK /\ ListedAlive /\ InitStays /\ HangersAtEnd /\ VictimsHang
        /\ PidsUnique /\ PoolMatchesList /\ NoOrphan /\ WalkMissesNone

-----------------------------------------------------------------------------
\* At start-up there is init alone.
LEMMA InitIInv == Init => IInv
<1> SUFFICES ASSUME Init PROVE IInv
  OBVIOUS
<1> USE ProcessAssumption
<1>1. Listed = {InitTask} /\ all \in Seq(Task) /\ ListDistinct(all)
  <2>1. Range(<<InitTask>>) = {InitTask}
    BY SingletonRange
  <2> QED BY <2>1 DEF Init, Listed, ListDistinct, IsInjective
<1>2. TypeOK
  <2>1. pid \in [Task -> 0..MaxPid] /\ ppid \in [Task -> 0..MaxPid] /\ used \in SUBSET Pid
    BY DEF Init, Pid
  <2>2. forks \in 0..MaxForks
    BY DEF Init
  <2>3. strayed \in BOOLEAN
    BY DEF Init
  <2> QED BY <1>1, <2>1, <2>2, <2>3 DEF Init, TypeOK, Status, PC
<1>3. ListedAlive /\ InitStays /\ HangersAtEnd /\ VictimsHang
  BY <1>1 DEF Init, ListedAlive, InitStays, HangersAtEnd, VictimsHang, ExitPC, ExitTail
<1>4. PidsUnique
  BY <1>1 DEF Init, PidsUnique, HoldsPid
<1>5. PoolMatchesList
  BY <1>1 DEF Init, PoolMatchesList
<1>6. NoOrphan /\ WalkMissesNone
  BY <1>1 DEF Init, NoOrphan, WalkMissesNone
<1> QED BY <1>2, <1>3, <1>4, <1>5, <1>6 DEF IInv

\* Who runs is on the list.
LEMMA Runners ==
    ASSUME ListedAlive, HangersAtEnd, NEW t \in Task, CanRun(t)
    PROVE  t \in Listed /\ (pc[t] \notin ExitTail => cur = NoTask)
BY DEF ListedAlive, HangersAtEnd, CanRun

\* sys_fork links a page that is not on the list, with a pid that is free
\* (process.c:634-650, thread.c:166-218).
LEMMA ForkLinks ==
    ASSUME TypeOK, ListedAlive, HangersAtEnd, NEW t \in Task, Fork(t)
    PROVE  /\ t \in Listed /\ pc[t] = "user" /\ cur = NoTask
           /\ \E c \in Task, p \in Pid \ used :
                 /\ c \notin Listed /\ c # t /\ pc[c] = "user"
                 /\ all' = ListAppend(all, c)
                 /\ all' \in Seq(Task) /\ ListDistinct(all') /\ Listed' = Listed \cup {c}
                 /\ used' = used \cup {p}
                 /\ pid' = [pid EXCEPT ![c] = p] /\ ppid' = [ppid EXCEPT ![c] = pid[t]]
                 /\ status' = [status EXCEPT ![c] = "RUNNABLE"]
                 /\ pc' = pc
                 /\ strayed' = (strayed \/ \E u \in Task : at[u] = c)
                 /\ UNCHANGED <<cur, walk, parent, victim>>
<1>1. t \in Listed /\ pc[t] = "user" /\ cur = NoTask
  BY Runners DEF Fork, ExitTail
<1>2. PICK c \in Task, p \in Pid : /\ Create(c, p, pid[t])
                                  /\ status' = [status EXCEPT ![c] = "RUNNABLE"]
                                  /\ all' = ListAppend(all, c)
                                  /\ strayed' = (strayed \/ \E u \in Task : at[u] = c)
  BY DEF Fork
<1>3. all \in Seq(Task) /\ ListDistinct(all) /\ c \notin Range(all)
  BY <1>2 DEF Create, TypeOK, ListedAlive, Listed
<1>4. all' \in Seq(Task) /\ ListDistinct(all') /\ Range(all') = Range(all) \cup {c}
  BY <1>2, <1>3, AppendFresh
<1>5. pc[c] = "user" /\ pc' = pc
  BY <1>2, <1>3 DEF Create, ListedAlive, Listed, TypeOK
<1> QED BY <1>1, <1>2, <1>3, <1>4, <1>5 DEF Fork, Create, PidAcquire, Listed

\* process_exit unlinks the child that was found hanging, which is not the caller,
\* and no reaper itself (process.c:525-545).
LEMMA ReapUnlinks ==
    ASSUME TypeOK, ListedAlive, HangersAtEnd, VictimsHang, NEW t \in Task, ReapList(t)
    PROVE  /\ t \in Listed /\ pc[t] = "reap_list" /\ cur = NoTask
           /\ victim[t] \in Listed /\ victim[t] # t /\ victim[t] \in Task
           /\ pc[victim[t]] \in ExitTail /\ victim[victim[t]] = NoTask
           /\ all' \in Seq(Task) /\ ListDistinct(all') /\ Listed' = Listed \ {victim[t]}
<1>1. t \in Listed /\ pc[t] = "reap_list" /\ cur = NoTask
  BY Runners DEF ReapList, ExitTail
<1>2. victim[t] \in Listed /\ victim[t] \in Task /\ pc[victim[t]] \in ExitTail
  BY <1>1 DEF VictimsHang, TypeOK
<1>3. victim[t] # t /\ victim[victim[t]] = NoTask
  BY <1>1, <1>2 DEF VictimsHang, ExitTail
<1>4. all' \in Seq(Task) /\ ListDistinct(all') /\ Range(all') = Range(all) \ {victim[t]}
  BY <1>2, DropPresent DEF ReapList, ListedAlive, TypeOK, Listed
<1> QED BY <1>1, <1>2, <1>3, <1>4 DEF Listed

\* Everything else leaves the list and the pids alone, and who is reaped.
LEMMA OthersKeepList ==
    ASSUME NEW t \in Task, Step(t), ~ReapList(t)
    PROVE  UNCHANGED <<all, pid, strayed, forks>> /\ Listed' = Listed
BY DEF Step, ExitCall, ExitVisit, ExitCheck, ExitHang, ExitWake, ExitBlock, WaitCall, WaitFind,
       WaitPass, WaitBlock, ReapPid, Fault, ids, history, Listed

\* A walk goes from a listed task to a listed task or ends.
LEMMA NextOfType ==
    ASSUME TypeOK, ListedAlive, NEW c \in Listed
    PROVE  NextOf(c) \in Task \cup {NoTask}
<1>1. all \in Seq(Task) /\ ListDistinct(all)
  BY DEF ListedAlive, TypeOK
<1>2. Place(c) \in 1..Len(all) /\ Len(all) \in Nat
  BY <1>1, PositionOf, LenProperties DEF Place, Position, Listed
<1>3. CASE Place(c) = Len(all)
  BY <1>3 DEF NextOf
<1>4. CASE Place(c) # Len(all)
  <2>1. Place(c) + 1 \in 1..Len(all)
    BY <1>2, <1>4
  <2>2. all[Place(c) + 1] \in Task
    BY <1>1, <2>1, ElementOfSeq
  <2> QED BY <1>4, <2>2 DEF NextOf
<1> QED BY <1>3, <1>4

\* A walk starts at a listed task.
LEMMA HeadListed ==
    ASSUME TypeOK, ListedAlive, InitStays
    PROVE  Head(all) \in Task /\ Head(all) \in Listed /\ Place(Head(all)) = 1
<1>1. all \in Seq(Task) /\ ListDistinct(all) /\ all # <<>>
  BY EmptyRange DEF ListedAlive, TypeOK, InitStays, Listed
<1>2. Len(all) \in Nat \ {0} /\ Head(all) = all[1] /\ DOMAIN all = 1..Len(all)
  BY <1>1, EmptySeq, LenProperties, HeadTailProperties
<1>3. Head(all) \in Task /\ Head(all) \in Range(all)
  BY <1>1, PopDistinct
<1>4. 1 \in 1..Len(all) /\ all[1] = Head(all)
  BY <1>2
<1>5. Place(Head(all)) = Position(all, Head(all))
  BY DEF Place, Position
<1> QED BY <1>1, <1>3, <1>4, <1>5, PositionOf DEF Listed

\* No step gives a variable a value of another kind.
LEMMA TypeKept ==
    ASSUME TypeOK, ListedAlive, InitStays, HangersAtEnd, VictimsHang,
           NEW t \in Task, Fork(t) \/ Step(t)
    PROVE  TypeOK'
<1>1. CASE Fork(t)
  <2>1. PICK c \in Task, p \in Pid \ used :
             /\ ListDistinct(all') /\ Listed' = Listed \cup {c}
             /\ used' = used \cup {p}
             /\ pid' = [pid EXCEPT ![c] = p] /\ ppid' = [ppid EXCEPT ![c] = pid[t]]
             /\ status' = [status EXCEPT ![c] = "RUNNABLE"]
             /\ pc' = pc
             /\ UNCHANGED <<cur, walk, parent, victim>>
    BY <1>1, ForkLinks
  <2>2. pid' \in [Task -> 0..MaxPid] /\ ppid' \in [Task -> 0..MaxPid] /\ used' \in SUBSET Pid
    BY <2>1, ProcessAssumption DEF TypeOK, Pid
  <2>3. strayed' \in BOOLEAN /\ forks' \in 0..MaxForks /\ halted' \in BOOLEAN
    BY <1>1, ProcessAssumption DEF Fork, TypeOK
  <2> QED BY <2>1, <2>2, <2>3 DEF TypeOK, Status, walk
<1>2. CASE ReapList(t)
  <2>1. victim[t] \in Task /\ ListDistinct(all') /\ Listed' \subseteq Task
    BY <1>2, ReapUnlinks DEF TypeOK
  <2>2. pid' \in [Task -> 0..MaxPid] /\ ppid' \in [Task -> 0..MaxPid]
    BY <1>2, <2>1, ProcessAssumption DEF TypeOK, ReapList
  <2> QED BY <1>2, <2>1, <2>2 DEF TypeOK, ReapList, walk, history, Status, PC
<1>3. CASE Step(t) /\ ~ReapList(t)
  <2> USE DEF TypeOK, Status, PC, Goto, walk, ids, history
  <2>1. /\ Listed' \subseteq Task /\ ListDistinct(all')
        /\ UNCHANGED <<all, pid, strayed, forks>>
    BY <1>3, OthersKeepList
  <2>2. Head(all) \in Task
    BY HeadListed
  <2>3. CASE ExitCall(t) \/ WaitCall(t)
    <3>1. at' = [at EXCEPT ![t] = Head(all)]
      BY <2>3 DEF ExitCall, WaitCall, StartWalk
    <3>2. at' \in [Task -> Task \cup {NoTask}]
      BY <2>2, <3>1
    <3>3. hasChild' \in [Task -> BOOLEAN] /\ pc' \in [Task -> PC]
      BY <2>3 DEF ExitCall, WaitCall
    <3> QED BY <2>1, <2>3, <3>2, <3>3 DEF ExitCall, WaitCall
  <2>4. CASE ExitVisit(t)
    <3>1. at[t] \in Listed /\ NextOf(at[t]) \in Task \cup {NoTask} /\ at[t] \in Task
      BY <2>4, NextOfType DEF ExitVisit
    <3>2. pid[InitTask] \in 0..MaxPid
      BY ProcessAssumption
    <3>3. ppid' \in [Task -> 0..MaxPid]
      BY <2>4, <3>1, <3>2 DEF ExitVisit
    <3> QED BY <2>1, <2>4, <3>1, <3>3 DEF ExitVisit, Advance
  <2>5. CASE WaitPass(t)
    <3>1. at[t] \in Listed /\ NextOf(at[t]) \in Task \cup {NoTask}
      BY <2>5, NextOfType DEF WaitPass
    <3>2. hasChild' \in [Task -> BOOLEAN]
      BY <2>5 DEF WaitPass
    <3> QED BY <2>1, <2>5, <3>1, <3>2 DEF WaitPass, Advance
  <2>6. CASE ExitCheck(t) \/ ExitHang(t)
    BY <2>1, <2>6 DEF ExitCheck, ExitHang
  <2>7. CASE ExitWake(t) \/ ExitBlock(t)
    BY <2>1, <2>7 DEF ExitWake, ExitBlock
  <2>8. CASE WaitFind(t) \/ WaitBlock(t)
    BY <2>1, <2>8 DEF WaitFind, WaitBlock
  <2>9. CASE ReapPid(t) \/ Fault(t)
    BY <2>1, <2>9 DEF ReapPid, Fault
  <2> QED BY <1>3, <2>3, <2>4, <2>5, <2>6, <2>7, <2>8, <2>9 DEF Step
<1> QED BY <1>1, <1>2, <1>3

\* A page joins the list with its process and leaves it with it.
LEMMA ListedAliveKept ==
    ASSUME TypeOK, ListedAlive, HangersAtEnd, VictimsHang, NEW t \in Task, Fork(t) \/ Step(t)
    PROVE  ListedAlive'
<1>1. CASE Fork(t)
  <2>1. PICK c \in Task, p \in Pid \ used :
             /\ all' \in Seq(Task) /\ Listed' = Listed \cup {c}
             /\ status' = [status EXCEPT ![c] = "RUNNABLE"]
             /\ pc' = pc
    BY <1>1, ForkLinks
  <2> QED BY <2>1 DEF ListedAlive, TypeOK
<1>2. CASE ReapList(t)
  <2>1. /\ victim[t] \in Task /\ pc[victim[t]] \in ExitTail /\ t \in Listed
        /\ all' \in Seq(Task) /\ Listed' = Listed \ {victim[t]}
    BY <1>2, ReapUnlinks
  <2>2. /\ status' = [status EXCEPT ![victim[t]] = "DIED"]
        /\ pc' = [pc EXCEPT ![t] = "user", ![victim[t]] = "user"]
    BY <1>2 DEF ReapList
  <2> QED BY <2>1, <2>2 DEF ListedAlive, TypeOK
<1>3. CASE Step(t) /\ ~ReapList(t)
  <2>1. all' = all /\ Listed' = Listed
    BY <1>3, OthersKeepList
  <2>2. t \in Listed
    BY <1>3, Runners DEF Step, ExitCall, ExitVisit, ExitCheck, ExitHang, ExitWake, ExitBlock,
       WaitCall, WaitFind, WaitPass, WaitBlock, ReapPid, Fault
  <2>3. \A u \in Task : /\ u # t => pc'[u] = pc[u]
                        /\ status[u] = "DIED" <=> status'[u] = "DIED"
    <3> USE DEF Goto, TypeOK, ListedAlive
    <3>1. CASE ExitCall(t) \/ ExitVisit(t) \/ ExitCheck(t) \/ WaitCall(t)
      BY <3>1 DEF ExitCall, ExitVisit, ExitCheck, WaitCall
    <3>2. CASE ExitHang(t) \/ ExitBlock(t) \/ WaitBlock(t)
      BY <2>2, <3>2 DEF ExitHang, ExitBlock, WaitBlock
    <3>3. CASE ExitWake(t)
      BY <3>3 DEF ExitWake
    <3>4. CASE WaitFind(t) \/ WaitPass(t) \/ ReapPid(t) \/ Fault(t)
      BY <3>4 DEF WaitFind, WaitPass, ReapPid, Fault
    <3> QED BY <1>3, <3>1, <3>2, <3>3, <3>4 DEF Step
  <2> QED BY <2>1, <2>2, <2>3 DEF ListedAlive
<1> QED BY <1>1, <1>2, <1>3

\* Nobody reaps init, and it does not exit.
LEMMA InitStaysKept ==
    ASSUME TypeOK, ListedAlive, InitStays, HangersAtEnd, VictimsHang,
           NEW t \in Task, Fork(t) \/ Step(t)
    PROVE  InitStays'
<1>1. CASE Fork(t)
  <2>1. PICK c \in Task, p \in Pid \ used : Listed' = Listed \cup {c} /\ pc' = pc
    BY <1>1, ForkLinks
  <2> QED BY <2>1 DEF InitStays
<1>2. CASE ReapList(t)
  <2>1. pc[victim[t]] \in ExitTail /\ Listed' = Listed \ {victim[t]}
    BY <1>2, ReapUnlinks
  <2>2. pc' = [pc EXCEPT ![t] = "user", ![victim[t]] = "user"]
    BY <1>2 DEF ReapList
  <2> QED BY <2>1, <2>2, ProcessAssumption DEF InitStays, TypeOK, ExitPC, ExitTail
<1>3. CASE Step(t) /\ ~ReapList(t)
  <2>1. Listed' = Listed
    BY <1>3, OthersKeepList
  <2>2. pc'[InitTask] \notin ExitPC
    BY <1>3, ProcessAssumption
       DEF InitStays, TypeOK, ExitPC, ExitTail, Goto, Step, ExitCall, ExitVisit, ExitCheck,
           ExitHang, ExitWake, ExitBlock, WaitCall, WaitFind, WaitPass, WaitBlock, ReapPid, Fault
  <2> QED BY <2>1, <2>2 DEF InitStays
<1> QED BY <1>1, <1>2, <1>3

\* A process that is HANGING does nothing any more but leave sys_exit.
LEMMA HangersAtEndKept ==
    ASSUME TypeOK, ListedAlive, HangersAtEnd, VictimsHang, NEW t \in Task, Fork(t) \/ Step(t)
    PROVE  HangersAtEnd'
<1> USE ProcessAssumption DEF TypeOK, HangersAtEnd
<1>1. CASE Fork(t)
  <2>1. PICK c \in Task, p \in Pid \ used :
             /\ Listed' = Listed \cup {c} /\ pc' = pc /\ cur' = cur /\ cur = NoTask
             /\ status' = [status EXCEPT ![c] = "RUNNABLE"]
    BY <1>1, ForkLinks
  <2> QED BY <2>1
<1>2. CASE ReapList(t)
  <2>1. /\ victim[t] \in Task /\ t \in Listed /\ pc[t] = "reap_list" /\ cur = NoTask
    BY <1>2, ReapUnlinks
  <2>2. /\ pc' = [pc EXCEPT ![t] = "user", ![victim[t]] = "user"]
        /\ status' = [status EXCEPT ![victim[t]] = "DIED"]
        /\ cur' = cur
    BY <1>2 DEF ReapList
  <2> QED BY <2>1, <2>2 DEF ExitTail
<1>3. CASE Step(t) /\ ~ReapList(t)
  <2>1. Listed' = Listed
    BY <1>3, OthersKeepList
  <2>2. CanRun(t) => t \in Listed /\ (pc[t] \notin ExitTail => cur = NoTask)
    BY Runners
  <2> USE DEF Goto, ExitTail
  <2>3. CASE ExitCall(t) \/ ExitVisit(t) \/ ExitCheck(t) \/ WaitCall(t)
    BY <2>1, <2>2, <2>3 DEF ExitCall, ExitVisit, ExitCheck, WaitCall
  <2>4. CASE ExitHang(t) \/ ExitBlock(t) \/ WaitBlock(t)
    BY <2>1, <2>2, <2>4 DEF ExitHang, ExitBlock, WaitBlock
  <2>5. CASE ExitWake(t)
    BY <2>1, <2>2, <2>5 DEF ExitWake
  <2>6. CASE WaitFind(t) \/ WaitPass(t) \/ ReapPid(t)
    BY <2>1, <2>2, <2>6 DEF WaitFind, WaitPass, ReapPid
  <2>7. CASE Fault(t)
    BY <2>1, <2>7 DEF Fault
  <2> QED BY <1>3, <2>3, <2>4, <2>5, <2>6, <2>7 DEF Step
<1> QED BY <1>1, <1>2, <1>3

-----------------------------------------------------------------------------
(* Who has a pid *)

\* A process that is not at the end of sys_exit is not being reaped.
LEMMA CallersHoldPid ==
    ASSUME VictimsHang, NEW t \in Task, t \in Listed, pc[t] \notin ExitTail
    PROVE  HoldsPid(t)
BY ProcessAssumption DEF VictimsHang, HoldsPid

\* Two processes do not reap one child: it has one parent.
LEMMA OneVictim ==
    ASSUME ListedAlive, VictimsHang, PidsUnique, NEW t \in Task, NEW u \in Task,
           victim[t] # NoTask, victim[u] = victim[t]
    PROVE  t = u
<1>1. /\ pc[t] \in {"reap_pid", "reap_list"} /\ pc[u] \in {"reap_pid", "reap_list"}
      /\ pid[t] = pid[u]
  BY DEF VictimsHang
<1>2. t \in Listed /\ u \in Listed
  BY <1>1 DEF ListedAlive
<1>3. HoldsPid(t) /\ HoldsPid(u)
  BY <1>1, <1>2, CallersHoldPid DEF ExitTail
<1> QED BY <1>1, <1>3 DEF PidsUnique

\* Steps of t that are not about victims.
LEMMA OthersKeepVictims ==
    ASSUME TypeOK, VictimsHang, NEW t \in Task,
           Step(t), ~ReapList(t), ~ReapPid(t), ~WaitFind(t)
    PROVE  /\ victim' = victim
           /\ \A u \in Task : u # t => pc'[u] = pc[u]
           /\ pc[t] \in ExitTail => pc'[t] \in ExitTail
           /\ pc'[t] \in {"reap_pid", "reap_list"} <=> pc[t] \in {"reap_pid", "reap_list"}
           /\ victim[t] # NoTask => pc'[t] = pc[t]
<1> USE DEF TypeOK, VictimsHang, Goto, ExitTail
<1>1. CASE ExitCall(t) \/ ExitVisit(t) \/ ExitCheck(t) \/ ExitHang(t)
  BY <1>1 DEF ExitCall, ExitVisit, ExitCheck, ExitHang
<1>2. CASE ExitWake(t) \/ ExitBlock(t) \/ Fault(t)
  BY <1>2 DEF ExitWake, ExitBlock, Fault
<1>3. CASE WaitCall(t) \/ WaitPass(t) \/ WaitBlock(t)
  BY <1>3 DEF WaitCall, WaitPass, WaitBlock
<1> QED BY <1>1, <1>2, <1>3 DEF Step

\* The child that sys_wait finds is nobody else's victim (process.c:698-716).
LEMMA FoundIsFresh ==
    ASSUME TypeOK, ListedAlive, HangersAtEnd, VictimsHang, PidsUnique,
           NEW t \in Task, WaitFind(t)
    PROVE  /\ at[t] \in Listed /\ at[t] \in Task /\ pc[at[t]] \in ExitTail /\ ppid[at[t]] = pid[t]
           /\ at[t] # t /\ victim[t] = NoTask /\ pc[t] = "wait_walk" /\ t \in Listed
           /\ \A u \in Task : victim[u] # at[t]
<1>1. /\ at[t] \in Listed /\ ppid[at[t]] = pid[t] /\ status[at[t]] = "HANGING"
      /\ pc[t] = "wait_walk" /\ CanRun(t)
  BY DEF WaitFind, Goto
<1>2. at[t] \in Task /\ pc[at[t]] \in ExitTail /\ t \in Listed
  BY <1>1, Runners DEF TypeOK, HangersAtEnd
<1>3. victim[t] = NoTask /\ at[t] # t
  BY <1>1, <1>2 DEF VictimsHang, ExitTail
<1>4. ASSUME NEW u \in Task, victim[u] = at[t] PROVE FALSE
  <2>1. pc[u] \in {"reap_pid", "reap_list"} /\ pid[u] = pid[t]
    BY <1>1, <1>2, <1>4, ProcessAssumption DEF VictimsHang
  <2>2. u \in Listed
    BY <2>1 DEF ListedAlive
  <2>3. HoldsPid(u) /\ HoldsPid(t)
    BY <1>1, <1>2, <2>1, <2>2, CallersHoldPid DEF ExitTail
  <2> QED BY <1>1, <2>1, <2>3 DEF PidsUnique
<1> QED BY <1>1, <1>2, <1>3, <1>4

\* A pid changes hands in sys_fork and in the pid_release of process_exit.
LEMMA HoldersMove ==
    ASSUME TypeOK, ListedAlive, HangersAtEnd, VictimsHang, PidsUnique, NEW t \in Task
    PROVE  /\ \A c \in Task : (/\ c \notin Listed
                               /\ Listed' = Listed \cup {c} /\ pc' = pc /\ victim' = victim)
                 => \A x \in Task : HoldsPid(x)' <=> HoldsPid(x) \/ x = c
           /\ ReapPid(t) => \A x \in Task : HoldsPid(x)' <=> HoldsPid(x) /\ x # victim[t]
           /\ Step(t) /\ ~ReapPid(t) => \A x \in Task : HoldsPid(x)' <=> HoldsPid(x)
<1>1. ASSUME NEW c \in Task, c \notin Listed, Listed' = Listed \cup {c}, pc' = pc,
             victim' = victim, NEW x \in Task
      PROVE  HoldsPid(x)' <=> HoldsPid(x) \/ x = c
  BY <1>1, ProcessAssumption DEF HoldsPid, VictimsHang
<1>2. ASSUME ReapPid(t), NEW x \in Task
      PROVE  HoldsPid(x)' <=> HoldsPid(x) /\ x # victim[t]
  <2>1. /\ Listed' = Listed /\ victim' = victim
        /\ pc[t] = "reap_pid" /\ pc' = [pc EXCEPT ![t] = "reap_list"] /\ victim[t] # NoTask
    BY <1>2 DEF ReapPid, Goto, VictimsHang, Listed
  <2>2. \A u \in Task : victim[u] = victim[t] => u = t
    BY <2>1, OneVictim
  <2> QED BY <2>1, <2>2 DEF HoldsPid, TypeOK
<1>3. ASSUME Step(t), ~ReapPid(t), NEW x \in Task
      PROVE  HoldsPid(x)' <=> HoldsPid(x)
  <2>1. CASE ReapList(t)
    <3>1. PICK v \in Task :
                /\ v = victim[t] /\ Listed' = Listed \ {v} /\ pc[t] = "reap_list" /\ v # t
                /\ victim[v] = NoTask
      BY <2>1, ReapUnlinks
    <3>2. /\ pc' = [pc EXCEPT ![t] = "user", ![v] = "user"]
          /\ victim' = [victim EXCEPT ![t] = NoTask]
      BY <2>1, <3>1 DEF ReapList
    <3>3. ~HoldsPid(v) /\ ~HoldsPid(v)'
      BY <3>1, <3>2 DEF HoldsPid
    <3>4. \A u \in Task : u # t /\ u # v => pc'[u] = pc[u] /\ victim'[u] = victim[u]
      BY <3>1, <3>2 DEF TypeOK
    <3>5. victim'[t] = NoTask /\ victim'[v] = NoTask
      BY <3>1, <3>2 DEF TypeOK
    <3>6. x # v => (HoldsPid(x)' <=> HoldsPid(x))
      BY <3>1, <3>4, <3>5, ProcessAssumption DEF HoldsPid
    <3> QED BY <3>3, <3>6
  <2>2. CASE WaitFind(t)
    <3>1. /\ Listed' = Listed /\ at[t] \in Task /\ victim[t] = NoTask
          /\ pc' = [pc EXCEPT ![t] = "reap_pid"] /\ victim' = [victim EXCEPT ![t] = at[t]]
          /\ \A u \in Task : victim[u] # at[t]
      BY <2>2, FoundIsFresh DEF WaitFind, Goto, Listed
    <3> QED BY <3>1, ProcessAssumption DEF HoldsPid, TypeOK
  <2>3. CASE ~ReapList(t) /\ ~WaitFind(t)
    <3>1. Listed' = Listed /\ victim' = victim
      BY <1>3, <2>3, OthersKeepList, OthersKeepVictims
    <3>2. \A u \in Task : victim[u] # NoTask => pc'[u] = pc[u]
      BY <1>3, <2>3, OthersKeepVictims
    <3> QED BY <3>1, <3>2, ProcessAssumption DEF HoldsPid
  <2> QED BY <2>1, <2>2, <2>3
<1> QED BY <1>1, <1>2, <1>3

\* What a task takes apart stays HANGING, listed and without a pid meanwhile.
LEMMA VictimsHangKept ==
    ASSUME TypeOK, ListedAlive, HangersAtEnd, VictimsHang, PidsUnique,
           NEW t \in Task, Fork(t) \/ Step(t)
    PROVE  VictimsHang'
<1> USE ProcessAssumption
<1>1. CASE Fork(t)
  <2>1. PICK c \in Task, p \in Pid \ used :
             /\ c \notin Listed /\ pc[c] = "user"
             /\ Listed' = Listed \cup {c} /\ pc' = pc /\ victim' = victim
             /\ pid' = [pid EXCEPT ![c] = p] /\ ppid' = [ppid EXCEPT ![c] = pid[t]]
    BY <1>1, ForkLinks
  <2> QED BY <2>1 DEF VictimsHang, TypeOK
<1>2. CASE ReapList(t)
  <2>1. PICK v \in Task :
              /\ v = victim[t] /\ Listed' = Listed \ {v} /\ v # t /\ victim[v] = NoTask
              /\ pc[t] = "reap_list" /\ pc[v] \in ExitTail
    BY <1>2, ReapUnlinks
  <2>2. /\ pc' = [pc EXCEPT ![t] = "user", ![v] = "user"]
        /\ victim' = [victim EXCEPT ![t] = NoTask]
        /\ pid' = [pid EXCEPT ![v] = 0] /\ ppid' = [ppid EXCEPT ![v] = 0]
    BY <1>2, <2>1 DEF ReapList
  <2>3. \A u \in Task : u # t /\ u # v => /\ pc'[u] = pc[u] /\ victim'[u] = victim[u]
                                         /\ pid'[u] = pid[u] /\ ppid'[u] = ppid[u]
    BY <2>1, <2>2 DEF TypeOK
  <2>4. \A u \in Task : victim[u] # NoTask /\ u # t => victim[u] # v /\ victim[u] # t /\ u # v
    BY <2>1, OneVictim DEF VictimsHang, ExitTail
  <2>5. /\ victim'[t] = NoTask /\ pc'[t] = "user" /\ victim'[v] = NoTask /\ pc'[v] = "user"
    BY <2>1, <2>2 DEF TypeOK
  <2>6. \A u \in Task : victim[u] \in Task \cup {NoTask}
    BY DEF TypeOK
  <2>7. ASSUME NEW u \in Task
        PROVE  /\ victim'[u] # NoTask <=> pc'[u] \in {"reap_pid", "reap_list"}
               /\ victim'[u] # NoTask => /\ victim'[u] \in Listed'
                                         /\ pc'[victim'[u]] \in ExitTail
                                         /\ ppid'[victim'[u]] = pid'[u]
    <3>1. CASE u = t \/ u = v
      BY <2>5, <3>1
    <3>2. CASE u # t /\ u # v
      BY <2>1, <2>3, <2>4, <2>6, <3>2 DEF VictimsHang
    <3> QED BY <3>1, <3>2
  <2> QED BY <2>7 DEF VictimsHang
<1>3. CASE WaitFind(t)
  <2>1. /\ at[t] \in Listed /\ at[t] \in Task /\ pc[at[t]] \in ExitTail /\ ppid[at[t]] = pid[t]
        /\ at[t] # t /\ victim[t] = NoTask
    BY <1>3, FoundIsFresh
  <2>2. /\ pc' = [pc EXCEPT ![t] = "reap_pid"] /\ victim' = [victim EXCEPT ![t] = at[t]]
        /\ Listed' = Listed /\ pid' = pid /\ ppid' = ppid /\ pc[t] = "wait_walk"
    BY <1>3 DEF WaitFind, Goto, Listed, ids
  <2>3. \A u \in Task : victim[u] # t
    BY <2>2 DEF VictimsHang, ExitTail
  <2> QED BY <2>1, <2>2, <2>3 DEF VictimsHang, TypeOK
<1>4. CASE ReapPid(t)
  <2>1. /\ pc[t] = "reap_pid" /\ pc' = [pc EXCEPT ![t] = "reap_list"]
        /\ Listed' = Listed /\ UNCHANGED <<pid, ppid, victim>>
    BY <1>4 DEF ReapPid, Goto, Listed
  <2>2. \A u \in Task : victim[u] # t
    BY <2>1 DEF VictimsHang, ExitTail
  <2> QED BY <2>1, <2>2 DEF VictimsHang, TypeOK
<1>5. CASE ExitVisit(t)
  <2>1. /\ pc[t] = "exit_walk" /\ Listed' = Listed /\ UNCHANGED <<pid, victim>>
        /\ \A u \in Task : ppid'[u] = ppid[u] \/ ppid[u] = pid[t]
        /\ CanRun(t)
    BY <1>5 DEF ExitVisit, Goto, Listed, TypeOK
  <2>2. HoldsPid(t)
    BY <2>1, Runners, CallersHoldPid DEF ExitTail
  <2>3. ASSUME NEW u \in Task, victim[u] # NoTask PROVE ppid'[victim[u]] = ppid[victim[u]]
    <3>1. pc[u] \in {"reap_pid", "reap_list"} /\ ppid[victim[u]] = pid[u] /\ victim[u] \in Task
      BY <2>3 DEF VictimsHang, TypeOK
    <3>2. HoldsPid(u)
      BY <3>1, CallersHoldPid DEF ExitTail, ListedAlive
    <3>3. pid[u] # pid[t]
      BY <2>1, <2>2, <3>1, <3>2 DEF PidsUnique
    <3> QED BY <2>1, <3>1, <3>3
  <2>4. /\ \A u \in Task : u # t => pc'[u] = pc[u]
        /\ pc[t] \in ExitTail => pc'[t] \in ExitTail
        /\ pc'[t] \in {"reap_pid", "reap_list"} <=> pc[t] \in {"reap_pid", "reap_list"}
    BY <1>5 DEF ExitVisit, Goto, TypeOK, ExitTail
  <2>5. \A u \in Task : victim[u] # NoTask => pc'[victim[u]] \in ExitTail
    BY <2>4 DEF VictimsHang, TypeOK
  <2> QED BY <2>1, <2>3, <2>4, <2>5 DEF VictimsHang
<1>6. CASE Step(t) /\ ~ReapList(t) /\ ~WaitFind(t) /\ ~ReapPid(t) /\ ~ExitVisit(t)
  <2>1. /\ Listed' = Listed /\ UNCHANGED <<pid, victim>>
        /\ \A u \in Task : u # t => pc'[u] = pc[u]
        /\ pc[t] \in ExitTail => pc'[t] \in ExitTail
        /\ pc'[t] \in {"reap_pid", "reap_list"} <=> pc[t] \in {"reap_pid", "reap_list"}
    BY <1>6, OthersKeepList, OthersKeepVictims
  <2>2. ppid' = ppid
    BY <1>6 DEF Step, ExitCall, ExitCheck, ExitHang, ExitWake, ExitBlock, WaitCall, WaitPass,
                WaitBlock, Fault, ids
  <2>3. \A u \in Task : victim[u] # NoTask => pc'[victim[u]] \in ExitTail
    BY <2>1 DEF VictimsHang, TypeOK
  <2> QED BY <2>1, <2>2, <2>3 DEF VictimsHang
<1> QED BY <1>1, <1>2, <1>3, <1>4, <1>5, <1>6

\* pid_acquire gives out a free bit, and a bit is freed when nobody answers to it any
\* more (thread.c:320-343, process.c:530).
LEMMA PidsKept ==
    ASSUME TypeOK, ListedAlive, HangersAtEnd, VictimsHang, PidsUnique, PoolMatchesList,
           NEW t \in Task, Fork(t) \/ Step(t)
    PROVE  PidsUnique' /\ PoolMatchesList'
<1> DEFINE H == {x \in Task : HoldsPid(x)}
<1>1. /\ PoolMatchesList <=> used = {pid[x] : x \in H}
      /\ PoolMatchesList' <=> used' = {pid'[x] : x \in H'}
  <2>1. /\ Listed \subseteq Task
        /\ H = {x \in Listed : \A u \in Task : victim[u] = x => pc[u] = "reap_pid"}
    BY DEF HoldsPid, TypeOK
  <2>2. Listed' \subseteq Task
    <3>1. CASE Fork(t)
      BY <2>1, <3>1, ForkLinks
    <3>2. CASE ReapList(t)
      BY <2>1, <3>2, ReapUnlinks
    <3>3. CASE Step(t) /\ ~ReapList(t)
      BY <2>1, <3>3, OthersKeepList
    <3> QED BY <3>1, <3>2, <3>3
  <2>3. H' = {x \in Listed' : \A u \in Task : victim'[u] = x => pc'[u] = "reap_pid"}
    BY <2>2 DEF HoldsPid
  <2> QED BY <2>1, <2>3 DEF PoolMatchesList
<1>2. /\ PidsUnique <=> \A x, y \in H : pid[x] = pid[y] => x = y
      /\ PidsUnique' <=> \A x, y \in H' : pid'[x] = pid'[y] => x = y
  BY DEF PidsUnique
<1>3. CASE Fork(t)
  <2>1. PICK c \in Task, p \in Pid \ used :
             /\ c \notin Listed
             /\ Listed' = Listed \cup {c} /\ pc' = pc /\ victim' = victim
             /\ pid' = [pid EXCEPT ![c] = p]
             /\ used' = used \cup {p}
    BY <1>3, ForkLinks
  <2>2. H' = H \cup {c} /\ c \notin H
    BY <2>1, HoldersMove DEF HoldsPid
  <2>3. pid'[c] = p /\ \A x \in H : pid'[x] = pid[x]
    BY <2>1, <2>2 DEF TypeOK
  <2> HIDE DEF H
  <2> QED BY <1>1, <1>2, <2>1, <2>2, <2>3
<1>4. CASE ReapPid(t)
  <2>1. H' = H \ {victim[t]}
    BY <1>4, HoldersMove
  <2>2. victim[t] \in H
    <3>1. pc[t] = "reap_pid" /\ victim[t] # NoTask /\ victim[t] \in Listed /\ victim[t] \in Task
      BY <1>4 DEF ReapPid, Goto, VictimsHang, TypeOK
    <3>2. \A u \in Task : victim[u] = victim[t] => u = t
      BY <3>1, OneVictim
    <3> QED BY <3>1, <3>2 DEF HoldsPid
  <2>3. pid' = pid /\ used' = used \ {pid[victim[t]]}
    BY <1>4 DEF ReapPid
  <2> HIDE DEF H
  <2> QED BY <1>1, <1>2, <2>1, <2>2, <2>3
<1>5. CASE Step(t) /\ ~ReapPid(t)
  <2>1. H' = H
    BY <1>5, HoldersMove
  <2>2. used' = used
    BY <1>5 DEF Step, ExitCall, ExitVisit, ExitCheck, ExitHang, ExitWake, ExitBlock, WaitCall,
                WaitFind, WaitPass, WaitBlock, ReapList, Fault, ids
  <2>3. \A x \in H : pid'[x] = pid[x]
    <3>1. CASE ReapList(t)
      <4>1. pid' = [pid EXCEPT ![victim[t]] = 0] /\ victim[t] \notin H
        BY <3>1 DEF ReapList, HoldsPid
      <4> QED BY <4>1 DEF TypeOK
    <3>2. CASE ~ReapList(t)
      BY <1>5, <3>2, OthersKeepList
    <3> QED BY <3>1, <3>2
  <2> HIDE DEF H
  <2> QED BY <1>1, <1>2, <2>1, <2>2, <2>3
<1> QED BY <1>3, <1>4, <1>5

-----------------------------------------------------------------------------
(* Walks and the order of the list *)

\* The place of a listed task in the list.
LEMMA PlaceOf ==
    ASSUME TypeOK, ListedAlive, NEW x \in Listed
    PROVE  /\ Place(x) \in 1..Len(all) /\ Len(all) \in Nat
           /\ all[Place(x)] = x
           /\ \A i \in 1..Len(all) : all[i] = x => i = Place(x)
<1>1. all \in Seq(Task) /\ ListDistinct(all) /\ x \in Range(all)
  BY DEF ListedAlive, TypeOK, Listed
<1>2. Place(x) = Position(all, x)
  BY DEF Place, Position
<1> QED BY <1>1, <1>2, PositionOf, LenProperties

\* cur_elem->next is the element behind cur_elem, and at the tail everybody has been
\* passed.
LEMMA NextOfOrder ==
    ASSUME TypeOK, ListedAlive, NEW c \in Listed, NEW x \in Listed
    PROVE  /\ NextOf(c) = NoTask => x = c \/ Place(x) < Place(c)
           /\ NextOf(c) # NoTask =>
                 /\ NextOf(c) \in Listed
                 /\ Place(x) < Place(NextOf(c)) => x = c \/ Place(x) < Place(c)
<1>1. all \in Seq(Task) /\ NoTask \notin Task /\ DOMAIN all = 1..Len(all)
  BY ProcessAssumption, LenProperties DEF ListedAlive
<1>2. /\ Place(c) \in 1..Len(all) /\ Place(x) \in 1..Len(all) /\ Len(all) \in Nat
      /\ all[Place(c)] = c /\ all[Place(x)] = x
  BY PlaceOf
<1>3. CASE Place(c) = Len(all)
  <2>1. NextOf(c) = NoTask
    BY <1>3 DEF NextOf
  <2>2. Place(x) = Place(c) => x = c
    BY <1>2
  <2> QED BY <1>2, <1>3, <2>1, <2>2
<1>4. CASE Place(c) # Len(all)
  <2>1. Place(c) + 1 \in 1..Len(all) /\ NextOf(c) = all[Place(c) + 1]
    BY <1>2, <1>4 DEF NextOf
  <2>2. NextOf(c) \in Task /\ NextOf(c) \in Listed
    BY <1>1, <2>1, ElementOfSeq DEF Listed, Range
  <2>3. Place(NextOf(c)) = Place(c) + 1
    BY <2>1, <2>2, PlaceOf
  <2>4. Place(x) = Place(c) => x = c
    BY <1>2
  <2> QED BY <1>1, <1>2, <2>2, <2>3, <2>4
<1> QED BY <1>3, <1>4

\* list_append and list_remove keep the order of the others.
LEMMA OrderKept ==
    ASSUME TypeOK, ListedAlive, NEW c \in Task
    PROVE  /\ c \notin Listed /\ all' = ListAppend(all, c) =>
                 /\ \A x, y \in Listed : Place(x)' < Place(y)' <=> Place(x) < Place(y)
                 /\ \A y \in Listed : ~(Place(c)' < Place(y)')
           /\ c \in Listed /\ all' = ListDrop(all, c) =>
                 \A x, y \in Listed \ {c} : Place(x)' < Place(y)' <=> Place(x) < Place(y)
<1>1. all \in Seq(Task) /\ ListDistinct(all)
  BY DEF ListedAlive, TypeOK
<1>2. \A x : Place(x) = Position(all, x) /\ Place(x)' = Position(all', x)
  BY DEF Place, Position
<1>3. ASSUME c \notin Listed, all' = ListAppend(all, c)
      PROVE  /\ \A x, y \in Listed : Place(x)' < Place(y)' <=> Place(x) < Place(y)
             /\ \A y \in Listed : ~(Place(c)' < Place(y)')
  <2>1. /\ \A x \in Listed : Position(all', x) = Position(all, x)
        /\ \A x \in Listed : Position(all, x) < Position(all', c)
    BY <1>1, <1>3, AppendPosition DEF Listed
  <2>2. ListDistinct(all') /\ all' \in Seq(Task) /\ Range(all') = Range(all) \cup {c}
    BY <1>1, <1>3, AppendFresh DEF Listed
  <2>3. Position(all', c) \in 1..Len(all') /\ Len(all') \in Nat
    BY <2>2, PositionOf, LenProperties
  <2>4. \A x \in Listed : Position(all, x) \in 1..Len(all) /\ Len(all) \in Nat
    BY <1>1, PositionOf, LenProperties DEF Listed
  <2>5. \A x \in Listed : ~(Position(all', c) < Position(all, x))
    BY <2>1, <2>3, <2>4
  <2> QED BY <1>2, <2>1, <2>5
<1>4. ASSUME c \in Listed, all' = ListDrop(all, c)
      PROVE  \A x, y \in Listed \ {c} : Place(x)' < Place(y)' <=> Place(x) < Place(y)
  BY <1>1, <1>2, <1>4, DropPresent DEF Listed
<1> QED BY <1>3, <1>4

\* A parent that leaves has handed on every child its walk has passed.
LEMMA NoOrphanKept ==
    ASSUME TypeOK, ListedAlive, InitStays, HangersAtEnd, VictimsHang, NoOrphan,
           NEW t \in Task, Fork(t) \/ Step(t)
    PROVE  NoOrphan'
<1> SUFFICES ASSUME ~strayed', NEW d \in Listed', d # InitTask
             PROVE  \E q \in Listed' : pid'[q] = ppid'[d] /\ ~Passed(q, d)'
  BY DEF NoOrphan
<1>1. Listed \subseteq Task
  BY DEF TypeOK
<1>2. CASE Fork(t)
  <2>1. PICK c \in Task, p \in Pid \ used :
             /\ c \notin Listed /\ c # t
             /\ all' = ListAppend(all, c) /\ Listed' = Listed \cup {c}
             /\ pid' = [pid EXCEPT ![c] = p] /\ ppid' = [ppid EXCEPT ![c] = pid[t]]
             /\ pc' = pc /\ strayed' = (strayed \/ \E u \in Task : at[u] = c)
             /\ UNCHANGED walk
    BY <1>2, ForkLinks
  <2>2. t \in Listed /\ pc[t] = "user" /\ at' = at
    BY <1>2, <2>1, ForkLinks DEF walk
  <2>3. CASE d = c
    <3>1. pid'[t] = ppid'[d] /\ ~Passed(t, d)'
      BY <2>1, <2>2, <2>3 DEF TypeOK, Passed
    <3> QED BY <2>1, <2>2, <3>1
  <2>4. CASE d # c
    <3>1. PICK q \in Listed : pid[q] = ppid[d] /\ ~Passed(q, d)
      BY <2>1, <2>4 DEF NoOrphan
    <3>2. pid'[q] = ppid'[d]
      BY <1>1, <2>1, <2>4, <3>1 DEF TypeOK
    <3>3. at[q] \in Listed' => at[q] \in Listed
      BY <1>1, <2>1
    <3>4. at[q] \in Listed => (Place(d)' < Place(at[q])' <=> Place(d) < Place(at[q]))
      <4>1. \A x, y \in Listed : Place(x)' < Place(y)' <=> Place(x) < Place(y)
        BY <2>1, OrderKept
      <4> QED BY <2>1, <2>2, <2>4, <4>1
    <3>5. ~Passed(q, d)'
      BY <2>1, <2>2, <3>1, <3>3, <3>4 DEF Passed
    <3> QED BY <2>1, <3>2, <3>5
  <2> QED BY <2>3, <2>4
<1>3. CASE ReapList(t)
  <2>1. PICK v \in Task :
              /\ v = victim[t] /\ v \in Listed /\ Listed' = Listed \ {v} /\ v # t
              /\ pc[v] \in ExitTail
    BY <1>3, ReapUnlinks
  <2>2. /\ pc' = [pc EXCEPT ![t] = "user", ![v] = "user"]
        /\ all' = ListDrop(all, v)
        /\ pid' = [pid EXCEPT ![v] = 0] /\ ppid' = [ppid EXCEPT ![v] = 0]
        /\ at' = at /\ strayed' = strayed
    BY <1>3, <2>1 DEF ReapList, walk, history
  <2>3. PICK q \in Listed : pid[q] = ppid[d] /\ ~Passed(q, d)
    BY <2>1, <2>2 DEF NoOrphan
  <2>4. q # v /\ d # v /\ q \in Task /\ d \in Task
    BY <1>1, <2>1, <2>3 DEF Passed, ExitTail
  <2>5. pid'[q] = ppid'[d] /\ pc'[q] \in {pc[q], "user"} /\ q \in Listed'
    BY <2>1, <2>2, <2>3, <2>4 DEF TypeOK
  <2>6. at[q] \in Listed' => (Place(d)' < Place(at[q])' <=> Place(d) < Place(at[q]))
    <3>1. \A x, y \in Listed \ {v} : Place(x)' < Place(y)' <=> Place(x) < Place(y)
      BY <2>1, <2>2, OrderKept
    <3> QED BY <2>1, <2>2, <2>4, <3>1
  <2>7. ~Passed(q, d)'
    BY <2>1, <2>2, <2>3, <2>5, <2>6 DEF Passed
  <2> QED BY <2>5, <2>7
<1>4. CASE Step(t) /\ ~ReapList(t)
  <2>1. all' = all /\ pid' = pid /\ strayed' = strayed /\ Listed' = Listed
    BY <1>4, OthersKeepList
  <2>2. PICK q \in Listed : pid[q] = ppid[d] /\ ~Passed(q, d)
    BY <2>1 DEF NoOrphan
  <2>3. \A x : Place(x)' = Place(x)
    BY <2>1 DEF Place
  <2>4. q \in Task /\ d \in Task /\ d \in Listed
    BY <1>1, <2>1
  <2>5. CASE ExitVisit(t)
    <3> DEFINE c == at[t]
    <3>1. /\ c \in Listed /\ pc[t] = "exit_walk"
          /\ ppid' = [ppid EXCEPT ![c] = IF @ = pid[t] THEN pid[InitTask] ELSE @]
          /\ at' = [at EXCEPT ![t] = NextOf(c)]
          /\ pc' = [pc EXCEPT ![t] = IF NextOf(c) = NoTask THEN "exit_check" ELSE "exit_walk"]
      BY <2>5 DEF ExitVisit, Goto, Advance, AtLast
    <3>2. CASE d = c /\ ppid[d] = pid[t]
      <4>1. ppid'[d] = pid[InitTask]
        BY <2>4, <3>1, <3>2 DEF TypeOK
      <4>2. InitTask \in Listed /\ pc'[InitTask] \notin ExitPC
        BY <3>1, ProcessAssumption DEF InitStays, ExitPC, TypeOK
      <4>3. ~Passed(InitTask, d)'
        BY <4>2 DEF Passed, ExitPC, ExitTail
      <4> QED BY <2>1, <4>1, <4>2, <4>3
    <3>3. CASE ~(d = c /\ ppid[d] = pid[t])
      <4>1. ppid'[d] = ppid[d]
        BY <2>4, <3>1, <3>3 DEF TypeOK
      <4>2. CASE q # t
        <5>1. pc'[q] = pc[q] /\ at'[q] = at[q]
          BY <2>4, <3>1, <4>2 DEF TypeOK
        <5>2. ~Passed(q, d)'
          BY <2>1, <2>2, <2>3, <5>1 DEF Passed
        <5> QED BY <2>1, <2>2, <4>1, <5>2
      <4>3. CASE q = t
        <5>1. d # c
          BY <2>2, <3>3, <4>3
        <5>2. ~(Place(d) < Place(c))
          BY <2>2, <3>1, <4>3 DEF Passed
        <5>3. NextOf(c) # NoTask /\ ~(Place(d) < Place(NextOf(c)))
          BY <2>4, <3>1, <5>1, <5>2, NextOfOrder
        <5>4. pc'[t] = "exit_walk" /\ at'[t] = NextOf(c)
          BY <3>1, <5>3 DEF TypeOK
        <5>5. ~Passed(t, d)'
          BY <2>3, <5>3, <5>4 DEF Passed
        <5> QED BY <2>1, <2>2, <4>1, <4>3, <5>5
      <4> QED BY <4>2, <4>3
    <3> QED BY <3>2, <3>3
  <2>6. CASE ExitCall(t)
    <3>1. at' = [at EXCEPT ![t] = Head(all)] /\ ppid' = ppid /\ pc' = [pc EXCEPT ![t] = "exit_walk"]
      BY <2>6 DEF ExitCall, StartWalk, Goto, ids
    <3>2. ~(Place(d) < Place(Head(all)))
      BY <2>4, HeadListed, PlaceOf
    <3>3. ~Passed(q, d)'
      BY <2>1, <2>2, <2>3, <2>4, <3>1, <3>2 DEF Passed, TypeOK
    <3> QED BY <2>1, <2>2, <3>1, <3>3
  <2>7. CASE ~ExitVisit(t) /\ ~ExitCall(t)
    <3>1. ppid' = ppid
      BY <1>4, <2>7 DEF Step, ExitCheck, ExitHang, ExitWake, ExitBlock, WaitCall, WaitFind, WaitPass,
                        WaitBlock, ReapPid, Fault, ids
    <3>2. CASE ExitCheck(t) \/ ExitHang(t) \/ ExitWake(t) \/ ExitBlock(t)
      <4>1. /\ pc[t] \in {"exit_check", "exit_hang", "exit_wake", "exit_block"} /\ at' = at
            /\ \A u \in Task : u # t => pc'[u] = pc[u]
        BY <3>2 DEF ExitCheck, ExitHang, ExitWake, ExitBlock, Goto, walk, TypeOK
      <4>2. q # t
        BY <2>2, <4>1 DEF Passed
      <4>3. ~Passed(q, d)'
        BY <2>1, <2>2, <2>3, <2>4, <4>1, <4>2 DEF Passed
      <4> QED BY <2>1, <2>2, <3>1, <4>3
    <3>3. CASE WaitCall(t) \/ WaitFind(t) \/ WaitPass(t) \/ WaitBlock(t) \/ ReapPid(t)
      <4>1. /\ pc'[t] \notin ExitPC
            /\ \A u \in Task : u # t => pc'[u] = pc[u] /\ at'[u] = at[u]
        <5>1. CASE WaitCall(t)
          BY <5>1 DEF WaitCall, StartWalk, Goto, TypeOK, ExitPC, ExitTail
        <5>2. CASE WaitFind(t)
          BY <5>2 DEF WaitFind, Goto, TypeOK, ExitPC, ExitTail
        <5>3. CASE WaitPass(t)
          BY <5>3 DEF WaitPass, Advance, Goto, TypeOK, ExitPC, ExitTail
        <5>4. CASE WaitBlock(t) \/ ReapPid(t)
          BY <5>4 DEF WaitBlock, ReapPid, Goto, TypeOK, ExitPC, ExitTail, walk
        <5> QED BY <3>3, <5>1, <5>2, <5>3, <5>4
      <4>2. ~Passed(q, d)'
        BY <2>1, <2>2, <2>3, <2>4, <4>1 DEF Passed, ExitPC, ExitTail
      <4> QED BY <2>1, <2>2, <3>1, <4>2
    <3>4. CASE Fault(t)
      <4>1. pc' = pc /\ at' = at
        BY <3>4 DEF Fault, walk
      <4>2. ~Passed(q, d)'
        BY <2>1, <2>2, <2>3, <4>1 DEF Passed
      <4> QED BY <2>1, <2>2, <3>1, <4>2
    <3> QED BY <1>4, <2>7, <3>2, <3>3, <3>4 DEF Step
  <2> QED BY <2>5, <2>6, <2>7
<1> QED BY <1>2, <1>3, <1>4

\* A child never moves in front of the place its parent has walked to: list_append puts
\* it at the end, and only init is given children (process.c:694-723, 742-744).
LEMMA WalkMissesNoneKept ==
    ASSUME TypeOK, ListedAlive, InitStays, HangersAtEnd, VictimsHang, PidsUnique, WalkMissesNone,
           NEW t \in Task, Fork(t) \/ Step(t)
    PROVE  WalkMissesNone'
<1> SUFFICES ASSUME ~strayed', NEW u \in Task \ {InitTask}, pc'[u] = "wait_walk",
                    ~hasChild'[u], NEW w \in Listed', at'[u] = w,
                    NEW x \in Listed', ppid'[x] = pid'[u]
             PROVE  ~(Place(x)' < Place(w)')
  BY DEF WalkMissesNone, ChildrenOf, Place
<1>1. Listed \subseteq Task
  BY DEF TypeOK
<1>2. ASSUME ~strayed, pc[u] = "wait_walk", ~hasChild[u], at[u] \in Listed, x \in Listed,
             ppid[x] = pid[u]
      PROVE  ~(Place(x) < Place(at[u]))
  BY <1>2 DEF WalkMissesNone, ChildrenOf
<1>3. CASE Fork(t)
  <2>1. PICK c \in Task, p \in Pid \ used :
             /\ c \notin Listed /\ pc[c] = "user"
             /\ all' = ListAppend(all, c) /\ Listed' = Listed \cup {c}
             /\ pid' = [pid EXCEPT ![c] = p] /\ ppid' = [ppid EXCEPT ![c] = pid[t]]
             /\ pc' = pc /\ strayed' = (strayed \/ \E v \in Task : at[v] = c)
             /\ UNCHANGED walk
    BY <1>3, ForkLinks
  <2>2. at' = at /\ hasChild' = hasChild /\ ~strayed /\ at[u] \in Listed /\ u # c
    BY <2>1 DEF walk
  <2>3. /\ \A y, z \in Listed : Place(y)' < Place(z)' <=> Place(y) < Place(z)
        /\ \A z \in Listed : ~(Place(c)' < Place(z)')
    BY <2>1, OrderKept
  <2>4. CASE x = c
    BY <2>2, <2>3, <2>4
  <2>5. CASE x # c
    <3>1. x \in Listed /\ ppid[x] = pid[u]
      BY <1>1, <2>1, <2>2, <2>5 DEF TypeOK
    <3> QED BY <1>2, <2>1, <2>2, <2>3, <3>1
  <2> QED BY <2>4, <2>5
<1>4. CASE ReapList(t)
  <2>1. PICK v \in Task :
              v = victim[t] /\ v \in Listed /\ Listed' = Listed \ {v} /\ v # t
    BY <1>4, ReapUnlinks
  <2>2. /\ pc' = [pc EXCEPT ![t] = "user", ![v] = "user"]
        /\ all' = ListDrop(all, v)
        /\ pid' = [pid EXCEPT ![v] = 0] /\ ppid' = [ppid EXCEPT ![v] = 0]
        /\ at' = at /\ hasChild' = hasChild /\ strayed' = strayed
    BY <1>4, <2>1 DEF ReapList, walk, history
  <2>3. u # v /\ u # t
    BY <2>1, <2>2 DEF TypeOK
  <2>4. pc[u] = "wait_walk" /\ pid'[u] = pid[u] /\ ppid'[x] = ppid[x]
    BY <1>1, <2>1, <2>2, <2>3 DEF TypeOK
  <2>5. \A y, z \in Listed \ {v} : Place(y)' < Place(z)' <=> Place(y) < Place(z)
    BY <2>1, <2>2, OrderKept
  <2> QED BY <1>2, <2>1, <2>2, <2>4, <2>5
<1>5. CASE Step(t) /\ ~ReapList(t)
  <2>1. all' = all /\ pid' = pid /\ strayed' = strayed /\ Listed' = Listed
    BY <1>5, OthersKeepList
  <2>2. \A y : Place(y)' = Place(y)
    BY <2>1 DEF Place
  <2>3. x \in Listed /\ x \in Task
    BY <1>1, <2>1
  <2>4. CASE ExitVisit(t)
    <3>1. /\ pc[t] = "exit_walk" /\ pc'[t] \in {"exit_check", "exit_walk"}
          /\ \A v \in Task : v # t => pc'[v] = pc[v] /\ at'[v] = at[v]
          /\ \A y \in Task : ppid'[y] = ppid[y] \/ ppid'[y] = pid[InitTask]
          /\ hasChild' = hasChild
      BY <2>4 DEF ExitVisit, Goto, Advance, TypeOK
    <3>2. u # t
      BY <3>1
    <3>3. pc[u] = "wait_walk" /\ at[u] = at'[u]
      BY <3>1, <3>2
    <3>4. HoldsPid(u) /\ HoldsPid(InitTask)
      <4>1. u \in Listed /\ InitTask \in Listed
        BY <3>3 DEF ListedAlive, InitStays
      <4> QED BY <3>3, <4>1, CallersHoldPid, ProcessAssumption DEF InitStays, ExitPC, ExitTail
    <3>5. pid[u] # pid[InitTask]
      BY <3>4, ProcessAssumption DEF PidsUnique
    <3>6. ppid[x] = pid[u]
      BY <2>1, <2>3, <3>1, <3>5
    <3> QED BY <1>2, <2>1, <2>2, <2>3, <3>1, <3>3, <3>6
  <2>5. CASE ~ExitVisit(t)
    <3>1. ppid' = ppid
      BY <1>5, <2>5 DEF Step, ExitCall, ExitCheck, ExitHang, ExitWake, ExitBlock, WaitCall, WaitFind,
                        WaitPass, WaitBlock, ReapPid, Fault, ids
    <3>2. CASE u # t
      <4>1. pc'[u] = pc[u] /\ at'[u] = at[u] /\ hasChild'[u] = hasChild[u]
        <5> USE <3>2 DEF TypeOK, Goto, walk, StartWalk, Advance
        <5>1. CASE ExitCall(t) \/ ExitCheck(t) \/ ExitHang(t) \/ ExitWake(t) \/ ExitBlock(t)
          BY <5>1 DEF ExitCall, ExitCheck, ExitHang, ExitWake, ExitBlock
        <5>2. CASE WaitCall(t)
          BY <5>2 DEF WaitCall
        <5>3. CASE WaitPass(t)
          BY <5>3 DEF WaitPass
        <5>4. CASE WaitFind(t) \/ WaitBlock(t) \/ ReapPid(t) \/ Fault(t)
          BY <5>4 DEF WaitFind, WaitBlock, ReapPid, Fault
        <5> QED BY <1>5, <2>5, <5>1, <5>2, <5>3, <5>4 DEF Step
      <4> QED BY <1>2, <2>1, <2>2, <2>3, <3>1, <4>1
    <3>3. CASE u = t /\ WaitCall(t)
      <4>1. at'[u] = Head(all)
        BY <3>3 DEF WaitCall, StartWalk, TypeOK
      <4> QED BY <2>2, <2>3, <4>1, HeadListed, PlaceOf
    <3>4. CASE u = t /\ WaitPass(t)
      <4>1. /\ pc[t] = "wait_walk" /\ at[t] \in Listed /\ at'[t] = NextOf(at[t])
            /\ pc'[t] = "wait_walk" => ~AtLast(t)
            /\ hasChild'[t] = (~AtLast(t) /\ (hasChild[t] \/ ppid[at[t]] = pid[t]))
        BY <3>4 DEF WaitPass, Goto, Advance, TypeOK
      <4>2. ~hasChild[t] /\ ppid[at[t]] # pid[t] /\ NextOf(at[t]) # NoTask
        BY <3>4, <4>1 DEF AtLast
      <4>3. x # at[t] /\ ~(Place(x) < Place(at[t]))
        BY <1>2, <2>1, <2>3, <3>1, <3>4, <4>1, <4>2
      <4>4. ~(Place(x) < Place(NextOf(at[t])))
        BY <2>3, <4>1, <4>2, <4>3, NextOfOrder
      <4> QED BY <2>2, <3>4, <4>1, <4>4
    <3>5. CASE u = t /\ ~WaitCall(t) /\ ~WaitPass(t)
      <4>1. pc'[t] # "wait_walk" \/ Fault(t)
        BY <1>5, <2>5, <3>5 DEF Step, ExitCall, ExitCheck, ExitHang, ExitWake, ExitBlock, WaitFind,
                                WaitBlock, ReapPid, Goto, TypeOK
      <4>2. Fault(t)
        BY <3>5, <4>1
      <4>3. pc' = pc /\ at' = at /\ hasChild' = hasChild
        BY <4>2 DEF Fault, walk
      <4> QED BY <1>2, <2>1, <2>2, <2>3, <3>1, <4>3
    <3> QED BY <3>2, <3>3, <3>4, <3>5
  <2> QED BY <2>4, <2>5
<1> QED BY <1>3, <1>4, <1>5

\* The timer changes only who runs.
LEMMA PreemptKeeps == ASSUME IInv, Preempt PROVE IInv'
<1> USE DEF Preempt, ids, walk, history
<1>1. Listed' = Listed /\ (\A x : Place(x)' = Place(x)) /\ (\A x : HoldsPid(x)' <=> HoldsPid(x))
  BY DEF Listed, Place, HoldsPid
<1>2. TypeOK'
  BY <1>1 DEF IInv, TypeOK
<1>3. ListedAlive' /\ InitStays' /\ HangersAtEnd' /\ VictimsHang' /\ PidsUnique'
  BY <1>1 DEF IInv, ListedAlive, InitStays, HangersAtEnd, VictimsHang, PidsUnique
<1>4. PoolMatchesList'
  BY <1>1 DEF IInv, PoolMatchesList
<1>5. NoOrphan'
  BY <1>1 DEF IInv, NoOrphan, Passed
<1>6. WalkMissesNone'
  BY <1>1 DEF IInv, WalkMissesNone, ChildrenOf
<1> QED BY <1>2, <1>3, <1>4, <1>5, <1>6 DEF IInv

-----------------------------------------------------------------------------
(* The theorems *)

\* The invariant holds in every reachable state.
THEOREM Invariance == Spec => []IInv
<1>1. IInv /\ [Next]_vars => IInv'
  <2> SUFFICES ASSUME IInv, [Next]_vars PROVE IInv'
    OBVIOUS
  <2>1. ASSUME NEW t \in Task, Fork(t) \/ Step(t) PROVE IInv'
    BY <2>1, TypeKept, ListedAliveKept, InitStaysKept, HangersAtEndKept, VictimsHangKept,
       PidsKept, NoOrphanKept, WalkMissesNoneKept DEF IInv
  <2>2. CASE Preempt
    BY <2>2, PreemptKeeps
  <2>3. CASE UNCHANGED vars
    <3> USE <2>3 DEF vars, ids, walk, history
    <3>1. Listed' = Listed /\ (\A x : Place(x)' = Place(x)) /\ (\A x : HoldsPid(x)' <=> HoldsPid(x))
      BY DEF Listed, Place, HoldsPid
    <3>2. TypeOK'
      BY <3>1 DEF IInv, TypeOK
    <3>3. ListedAlive' /\ InitStays' /\ HangersAtEnd' /\ VictimsHang' /\ PidsUnique'
      BY <3>1 DEF IInv, ListedAlive, InitStays, HangersAtEnd, VictimsHang, PidsUnique
    <3>4. PoolMatchesList'
      BY <3>1 DEF IInv, PoolMatchesList
    <3>5. NoOrphan'
      BY <3>1 DEF IInv, NoOrphan, Passed
    <3>6. WalkMissesNone'
      BY <3>1 DEF IInv, WalkMissesNone, ChildrenOf
    <3> QED BY <3>2, <3>3, <3>4, <3>5, <3>6 DEF IInv
  <2> QED BY <2>1, <2>2, <2>3 DEF Next
<1> QED BY InitIInv, <1>1, PTL DEF Spec

\* task_all_list links each task_struct once, and every pid and status is in its range.
THEOREM TypeCorrect == Spec => []TypeOK
<1>1. IInv => TypeOK
  BY DEF IInv
<1> QED BY <1>1, Invariance, PTL

\* Every process has a parent that can still reap it, or whose sys_exit has still to
\* give it to init (process.c:739-754).
THEOREM ChildrenKept == Spec => []NoOrphan
<1>1. IInv => NoOrphan
  BY DEF IInv
<1> QED BY <1>1, Invariance, PTL

\* Two processes that are not being reaped never have the same pid, although the pid of
\* a process is free before it is unlinked (process.c:530-537).
THEOREM PidsDistinct == Spec => []LivePidsUnique
<1>1. IInv => LivePidsUnique
  <2> SUFFICES ASSUME IInv, NEW t \in Listed \ Dying, NEW u \in Listed \ Dying, pid[t] = pid[u]
               PROVE  t = u
    BY DEF LivePidsUnique
  <2>1. t \in Task /\ u \in Task /\ NoTask \notin Task
    BY ProcessAssumption DEF IInv, TypeOK
  <2>2. HoldsPid(t) /\ HoldsPid(u)
    BY <2>1 DEF HoldsPid, Dying
  <2> QED BY <2>1, <2>2 DEF IInv, PidsUnique
<1> QED BY <1>1, Invariance, PTL

\* process_exit is called once for each child, by its parent, and by nobody who is
\* being reaped (process.c:711-716).
THEOREM ReapedOnce == Spec => []OneReaper
<1>1. IInv => OneReaper
  <2> SUFFICES ASSUME IInv, NEW t \in Task, NEW u \in Task, victim[t] # NoTask
               PROVE  /\ victim[t] \in Listed
                      /\ victim[t] = victim[u] => t = u
                      /\ t \notin Dying
    BY DEF OneReaper
  <2>1. victim[t] \in Listed /\ (victim[t] = victim[u] => t = u)
    BY OneVictim DEF IInv, VictimsHang
  <2>2. ASSUME NEW w \in Task, victim[w] = t PROVE FALSE
    BY <2>2, ProcessAssumption DEF IInv, VictimsHang, ExitTail
  <2> QED BY <2>1, <2>2 DEF Dying
<1> QED BY <1>1, Invariance, PTL

\* A bit of the pid pool is set exactly as long as a process that is not being taken
\* apart carries the pid (thread.c:320-343).
THEOREM PoolExact == Spec => []PoolMatchesList
<1>1. IInv => PoolMatchesList
  BY DEF IInv
<1> QED BY <1>1, Invariance, PTL

\* sys_wait returns -1 only to a process without children (process.c:722-723).
THEOREM WaitSays == Spec => WaitTruthful
<1>1. IInv /\ [Next]_vars =>
         [~strayed => \A t \in Task \ {InitTask} :
             pc[t] = "wait_walk" /\ pc'[t] = "user" => ChildrenOf(t) = {}]_vars
  <2> SUFFICES ASSUME IInv, Next, ~strayed, NEW t \in Task \ {InitTask},
                      pc[t] = "wait_walk", pc'[t] = "user", NEW x \in ChildrenOf(t)
               PROVE  FALSE
    OBVIOUS
  <2>1. TypeOK /\ ListedAlive /\ HangersAtEnd /\ VictimsHang /\ WalkMissesNone
    BY DEF IInv
  <2>2. PICK u \in Task : Fork(u) \/ Step(u)
    BY DEF Next, Preempt
  <2>3. CASE Fork(u)
    BY <2>1, <2>3, ForkLinks
  <2>4. CASE ReapList(u)
    <3>1. victim[u] \in Task /\ pc[victim[u]] \in ExitTail /\ pc[u] = "reap_list"
      BY <2>1, <2>4, ReapUnlinks
    <3>2. pc' = [pc EXCEPT ![u] = "user", ![victim[u]] = "user"]
      BY <2>4 DEF ReapList
    <3> QED BY <2>1, <3>1, <3>2 DEF TypeOK, ExitTail
  <2>5. CASE WaitPass(u)
    <3>1. u = t
      BY <2>1, <2>5 DEF WaitPass, Goto, TypeOK
    <3>2. /\ at[t] \in Listed /\ NextOf(at[t]) = NoTask /\ ~hasChild[t] /\ ppid[at[t]] # pid[t]
      BY <2>1, <2>5, <3>1 DEF WaitPass, Goto, TypeOK, AtLast
    <3>3. x \in Listed /\ ppid[x] = pid[t]
      BY DEF ChildrenOf
    <3>4. x # at[t] /\ ~(Place(x) < Place(at[t]))
      BY <2>1, <3>2, <3>3 DEF WalkMissesNone
    <3> QED BY <2>1, <3>2, <3>3, <3>4, NextOfOrder
  <2>6. CASE Step(u) /\ ~ReapList(u) /\ ~WaitPass(u)
    BY <2>1, <2>6 DEF Step, ExitCall, ExitVisit, ExitCheck, ExitHang, ExitWake, ExitBlock, WaitCall,
                      WaitFind, WaitBlock, ReapPid, Fault, Goto, TypeOK
  <2> QED BY <2>2, <2>3, <2>4, <2>5, <2>6
<1> QED BY <1>1, Invariance, PTL DEF Spec, WaitTruthful
=============================================================================
