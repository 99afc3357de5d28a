------------------------------ MODULE DiskProofs ------------------------------
(***************************************************************************)
(* Proofs about the disk driver for every set of tasks, every length of a  *)
(* call and every length of a command.                                     *)
(***************************************************************************)
EXTENDS Disk, SequenceTheorems, TLAPS

DataTyped ==
    /\ req \in [Task -> [op : Op, dev : Dev, lba : Nat, left : Nat]]
    /\ done \in [Task -> Nat]
    /\ reg \in [dev : Dev, lba : Nat]
    /\ drive \in [phase : {"idle", "busy", "drq"}, op : Op, dev : Dev, at : Nat, left : Nat]
    /\ valid \subseteq present

\* A task between mutex_lock and mutex_unlock, or Main in the part of the boot that
\* takes no mutex.
Using(t) == pc[t] \notin {"out", "lock"}
Identifying(t) == Using(t) /\ req[t].op = "identify"

ChannelOwned ==
    /\ \A t \in Task : Using(t) /\ req[t].op # "identify" <=> owner = t
    /\ \A t \in Task : Identifying(t) => t = Main /\ boot \in 1..2 /\ owner = NoTask
    /\ boot \in 0..2 => \A t \in Task \ {Main} : pc[t] = "out"
    /\ \A t \in Task : pc[t] = "lock" => req[t].op # "identify"

\* The spin lock of the semaphore is taken exactly inside of sema_down.
SpinOwned == \A t \in Task : pc[t] = "down_in" <=> slock = t

\* A caller that has a command with the drive, and one that has none.
Given(t) == pc[t] \in {"poll", "data"} \/ (InDown(t) /\ req[t].op # "write")
NotGiven(t) == Using(t) /\ ~Given(t)

\* The arguments of a call on its way to the drive.
CallsReach ==
    /\ \A t \in Task : pc[t] # "data" => done[t] = 0
    /\ \A t \in Task : pc[t] = "data" => done[t] < Each(t)
    /\ \A t \in Task : pc[t] \notin {"out", "unlock"} => req[t].left >= 1
    /\ \A t \in Task : Using(t) /\ pc[t] # "drive" => reg.dev = req[t].dev
    /\ \A t \in Task : pc[t] = "cmd" /\ req[t].op # "identify" => reg.lba = req[t].lba
    /\ \A t \in Task : pc[t] # "out" /\ req[t].op # "identify" => req[t].dev \in valid
    /\ \A t \in Task : pc[t] = "end" => req[t].dev \in present

\* What the drive is doing is what its one caller has asked for.
DriveFollows ==
    /\ \A t \in Task : NotGiven(t) => drive.phase = "idle"
    /\ drive.phase # "idle" => drive.dev \in present /\ \E t \in Task : Given(t)
    /\ \A t \in Task : Given(t) =>
          \/ WorksFor(t)
          \/ pc[t] = "poll" /\ req[t].op = "identify" /\ req[t].dev \notin present
                /\ drive.phase = "idle"
    /\ \A t \in Task : pc[t] = "data" \/ (InDown(t) /\ req[t].op = "identify")
                          => drive.phase = "drq"

\* The interrupt of the identify command comes before its status is good, and nobody
\* takes its token away.
IdentifyAnswered ==
    \A t \in Task : pc[t] = "poll" /\ req[t].op = "identify" /\ drive.phase = "drq"
                       => count > 0 \/ irq

\* The inductive invariant.
IInv == /\ TypeOK /\ DataTyped /\ ChannelOwned /\ SpinOwned /\ CallsReach /\ DriveFollows
        /\ IdentifyAnswered /\ AnswerOutstanding

-----------------------------------------------------------------------------
\* Before the drives are identified nothing is under way.
LEMMA InitIInv == Init => IInv
<1> SUFFICES ASSUME Init PROVE IInv
  OBVIOUS
<1> USE DiskAssumption
<1>1. TypeOK
  <2>1. \A t \in Task : req[t].op \in Op /\ req[t].dev \in Dev
    BY DEF Init, Op, Dev, Call
  <2>2. count \in Nat /\ waiters \in Seq(Task) /\ boot \in 0..3
    BY DEF Init
  <2>3. drive.phase \in {"idle", "busy", "drq"}
    BY DEF Init, Idle
  <2>4. irq \in BOOLEAN
    BY DEF Init
  <2> QED BY <2>1, <2>2, <2>3, <2>4 DEF Init, TypeOK, PC
<1>2. DataTyped
  BY DEF Init, DataTyped, Op, Dev, Call, Idle
<1>3. ChannelOwned /\ SpinOwned
  BY DEF Init, ChannelOwned, SpinOwned, Using, Identifying, Call
<1>4. CallsReach
  BY DEF Init, CallsReach, Using
<1>5. DriveFollows /\ IdentifyAnswered /\ AnswerOutstanding
  BY DEF Init, DriveFollows, IdentifyAnswered, AnswerOutstanding, NotGiven, Given, Using, InDown, Idle
<1> QED BY <1>1, <1>2, <1>3, <1>4, <1>5 DEF IInv

\* One task at a time is past mutex_lock; the boot counts as one of them.
LEMMA OneCaller ==
    ASSUME ChannelOwned, NEW t \in Task, NEW u \in Task, Using(t), Using(u)
    PROVE  t = u
BY DiskAssumption DEF ChannelOwned, Identifying

\* The fields of the records a step changes.
LEMMA RunEnds ==
    ASSUME DataTyped, NEW t \in Task, EndRun(t)
    PROVE  /\ req' \in [Task -> [op : Op, dev : Dev, lba : Nat, left : Nat]]
           /\ \A u \in Task : u # t => req'[u] = req[u]
           /\ req[t].op = "identify" => req'[t] = Call("read", req[t].dev, 0, 1)
           /\ req[t].op # "identify" => /\ req'[t].op = req[t].op /\ req'[t].dev = req[t].dev
                                        /\ req'[t].lba = req[t].lba
                                        /\ req'[t].left = req[t].left - Each(t)
<1>1. req[t] \in [op : Op, dev : Dev, lba : Nat, left : Nat]
  BY DEF DataTyped
<1>2. req[t].left - Each(t) \in Nat
  BY <1>1, DiskAssumption DEF Each
<1>3. CASE req[t].op = "identify"
  <2>1. req' = [req EXCEPT ![t] = Call("read", req[t].dev, 0, 1)]
    BY <1>3 DEF EndRun
  <2>2. Call("read", req[t].dev, 0, 1) \in [op : Op, dev : Dev, lba : Nat, left : Nat]
    BY <1>1 DEF Call, Op
  <2> QED BY <1>3, <2>1, <2>2 DEF DataTyped
<1>4. CASE req[t].op # "identify"
  <2> DEFINE r == [req[t] EXCEPT !.left = req[t].left - Each(t)]
  <2>1. req' = [req EXCEPT ![t] = r]
    BY <1>4 DEF EndRun
  <2>2. /\ r \in [op : Op, dev : Dev, lba : Nat, left : Nat]
        /\ r.op = req[t].op /\ r.dev = req[t].dev /\ r.lba = req[t].lba
        /\ r.left = req[t].left - Each(t)
    BY <1>1, <1>2
  <2> HIDE DEF r
  <2> QED BY <1>4, <2>1, <2>2 DEF DataTyped
<1> QED BY <1>3, <1>4

\* What a command, an answer and a sector do to the drive.
LEMMA DriveMoves ==
    ASSUME DataTyped
    PROVE  /\ Ready => /\ drive' \in [phase : {"idle", "busy", "drq"}, op : Op, dev : Dev, at : Nat, left : Nat]
                       /\ drive'.phase = "drq" /\ drive'.op = drive.op /\ drive'.dev = drive.dev
                       /\ drive'.at = drive.at /\ drive'.left = drive.left
           /\ Move /\ drive.left > 1 =>
                       /\ drive' \in [phase : {"idle", "busy", "drq"}, op : Op, dev : Dev, at : Nat, left : Nat]
                       /\ drive'.phase = drive.phase /\ drive'.op = drive.op /\ drive'.dev = drive.dev
                       /\ drive'.at = drive.at + 1 /\ drive'.left = drive.left - 1
           /\ Move /\ ~(drive.left > 1) => drive' = Idle
<1>1. drive \in [phase : {"idle", "busy", "drq"}, op : Op, dev : Dev, at : Nat, left : Nat]
  BY DEF DataTyped
<1>2. ASSUME Ready
      PROVE  /\ drive' \in [phase : {"idle", "busy", "drq"}, op : Op, dev : Dev, at : Nat, left : Nat]
             /\ drive'.phase = "drq" /\ drive'.op = drive.op /\ drive'.dev = drive.dev
             /\ drive'.at = drive.at /\ drive'.left = drive.left
  <2>1. drive' = [drive EXCEPT !.phase = "drq"]
    BY <1>2 DEF Ready
  <2> QED BY <1>1, <2>1
<1>3. ASSUME Move, drive.left > 1
      PROVE  /\ drive' \in [phase : {"idle", "busy", "drq"}, op : Op, dev : Dev, at : Nat, left : Nat]
             /\ drive'.phase = drive.phase /\ drive'.op = drive.op /\ drive'.dev = drive.dev
             /\ drive'.at = drive.at + 1 /\ drive'.left = drive.left - 1
  <2>1. drive' = [drive EXCEPT !.at = @ + 1, !.left = @ - 1]
    BY <1>3 DEF Move
  <2>2. drive.at + 1 \in Nat /\ drive.left - 1 \in Nat
    BY <1>1, <1>3
  <2> QED BY <1>1, <2>1, <2>2
<1>4. Move /\ ~(drive.left > 1) => drive' = Idle
  BY DEF Move
<1> QED BY <1>2, <1>3, <1>4

\* The handler wakes who sleeps, and never who spins under it (thread.c:267-286).
LEMMA WakeFirstMoves ==
    ASSUME TypeOK, WakeFirst
    PROVE  /\ waiters' \in Seq(Task)
           /\ status' \in [Task -> {"RUNNABLE", "BLOCKED", "SPINS"}]
           /\ \A t \in Task : status[t] = "SPINS" => status'[t] = "SPINS"
<1>1. CASE waiters = <<>>
  BY <1>1 DEF WakeFirst, TypeOK
<1>2. CASE waiters # <<>>
  <2>1. Head(waiters) \in Task /\ Tail(waiters) \in Seq(Task)
    BY <1>2, HeadTailProperties DEF TypeOK
  <2>2. /\ waiters' = Tail(waiters)
        /\ status' = [status EXCEPT ![Head(waiters)] = IF @ = "BLOCKED" THEN "RUNNABLE" ELSE @]
    BY <1>2 DEF WakeFirst
  <2> QED BY <2>1, <2>2 DEF TypeOK
<1> QED BY <1>1, <1>2

\* No step gives a variable a value of another kind.
LEMMA TypeKept == ASSUME TypeOK, DataTyped, SpinOwned, [Next]_vars PROVE TypeOK'
<1> USE DiskAssumption DEF TypeOK, At, Goto, PC, sema, call, hardware
<1>1. CASE Ready
  <2>1. drive'.phase \in {"idle", "busy", "drq"}
    BY <1>1, DriveMoves
  <2>2. irq' \in BOOLEAN
    BY <1>1 DEF Ready
  <2> QED BY <1>1, <2>1, <2>2 DEF Ready
<1>2. CASE Irq
  <2>1. waiters' \in Seq(Task) /\ status' \in [Task -> {"RUNNABLE", "BLOCKED", "SPINS"}]
    BY <1>2, WakeFirstMoves DEF Irq
  <2>2. count' \in Nat
    BY <1>2 DEF Irq
  <2>3. irq' \in BOOLEAN
    BY <1>2 DEF Irq
  <2> QED BY <1>2, <2>1, <2>2, <2>3 DEF Irq
<1>3. CASE IrqSpins
  BY <1>3 DEF IrqSpins
<1>4. CASE Identify
  BY <1>4 DEF Identify, Call, Op, Dev
<1>5. ASSUME NEW t \in Task, Begin(t) PROVE TypeOK'
  <2>1. PICK op \in {"read", "write"}, dev \in valid, lba \in 0..LastLba, n \in 1..MaxSectors :
             req' = [req EXCEPT ![t] = Call(op, dev, lba, n)]
    BY <1>5 DEF Begin
  <2>2. \A u \in Task : req'[u].op \in Op /\ req'[u].dev \in Dev
    BY <2>1 DEF Call, Op, Dev, DataTyped
  <2> QED BY <1>5, <2>2 DEF Begin
<1>6. ASSUME NEW t \in Task, Lock(t) \/ Poll(t) \/ Unlock(t) PROVE TypeOK'
  <2>1. CASE Lock(t) \/ Poll(t)
    BY <2>1 DEF Lock, Poll
  <2>2. CASE Unlock(t)
    <3>1. \A u \in Task : req'[u].op \in Op /\ req'[u].dev \in Dev
      BY <2>2 DEF Unlock, Call, Op, Dev, DataTyped
    <3> QED BY <2>2, <3>1 DEF Unlock
  <2> QED BY <1>6, <2>1, <2>2
<1>7. ASSUME NEW t \in Task, SetDrive(t) \/ SetLba(t) PROVE TypeOK'
  BY <1>7 DEF SetDrive, SetLba, SetReg
<1>8. ASSUME NEW t \in Task, SetCmd(t) PROVE TypeOK'
  BY <1>8 DEF SetCmd, Accept
<1>9. ASSUME NEW t \in Task, Data(t) PROVE TypeOK'
  BY <1>9 DEF Data, Move, Idle, DataTyped
<1>10. ASSUME NEW t \in Task, SpinLock(t) PROVE TypeOK'
  BY <1>10 DEF SpinLock
<1>11. ASSUME NEW t \in Task, Down(t) PROVE TypeOK'
  <2>1. AfterIrq(t) \in PC
    BY DEF AfterIrq, Op
  <2>2. ListAppend(waiters, t) \in Seq(Task)
    BY AppendProperties DEF ListAppend
  <2> QED BY <1>11, <2>1, <2>2 DEF Down
<1>12. ASSUME NEW t \in Task, Sleep(t) PROVE TypeOK'
  BY <1>12 DEF Sleep
<1>13. ASSUME NEW t \in Task, EndRun(t) PROVE TypeOK'
  <2>1. \A u \in Task : req'[u].op \in Op /\ req'[u].dev \in Dev
    BY <1>13, RunEnds DEF DataTyped
  <2> QED BY <1>13, <2>1 DEF EndRun
<1>14. CASE UNCHANGED vars
  BY <1>14 DEF vars
<1> QED
  BY <1>1, <1>2, <1>3, <1>4, <1>5, <1>6, <1>7, <1>8, <1>9, <1>10, <1>11, <1>12, <1>13, <1>14
     DEF Next, Step

\* Addresses and counts of a call and of the drive stay numbers.
LEMMA DataTypedKept ==
    ASSUME TypeOK, DataTyped, CallsReach, [Next]_vars
    PROVE  DataTyped'
<1> USE DiskAssumption DEF DataTyped
<1>1. CASE Ready
  BY <1>1, DriveMoves DEF Ready, call
<1>2. CASE Irq \/ IrqSpins
  BY <1>2 DEF Irq, IrqSpins, call
<1>3. CASE Identify
  <2>1. Call("identify", boot, 0, 1) \in [op : Op, dev : Dev, lba : Nat, left : Nat]
    BY <1>3 DEF Identify, Call, Op
  <2> QED BY <1>3, <2>1 DEF Identify, hardware
<1>4. ASSUME NEW t \in Task, Begin(t) PROVE DataTyped'
  <2>1. PICK op \in {"read", "write"}, dev \in valid, lba \in 0..LastLba, n \in 1..MaxSectors :
             req' = [req EXCEPT ![t] = Call(op, dev, lba, n)]
    BY <1>4 DEF Begin
  <2>2. Call(op, dev, lba, n) \in [op : Op, dev : Dev, lba : Nat, left : Nat]
    BY DEF Call, Op, TypeOK
  <2> QED BY <1>4, <2>1, <2>2 DEF Begin, hardware
<1>5. ASSUME NEW t \in Task, Lock(t) \/ Poll(t) \/ SpinLock(t) \/ Down(t) \/ Sleep(t) PROVE DataTyped'
  BY <1>5 DEF Lock, Poll, SpinLock, Down, Sleep, call, hardware
<1>6. ASSUME NEW t \in Task, SetDrive(t) PROVE DataTyped'
  <2>1. reg' \in [dev : Dev, lba : Nat]
    BY <1>6 DEF SetDrive, SetReg, TypeOK
  <2> QED BY <1>6, <2>1 DEF SetDrive, SetReg, call
<1>7. ASSUME NEW t \in Task, SetLba(t) PROVE DataTyped'
  <2>1. reg' \in [dev : Dev, lba : Nat]
    BY <1>7 DEF SetLba, SetReg
  <2> QED BY <1>7, <2>1 DEF SetLba, SetReg, call
<1>8. ASSUME NEW t \in Task, SetCmd(t) PROVE DataTyped'
  <2>1. Each(t) \in Nat
    BY DEF Each
  <2>2. drive' \in [phase : {"idle", "busy", "drq"}, op : Op, dev : Dev, at : Nat, left : Nat]
    BY <1>8, <2>1 DEF SetCmd, Accept
  <2> QED BY <1>8, <2>2 DEF SetCmd, Accept, call
<1>9. ASSUME NEW t \in Task, Data(t) PROVE DataTyped'
  <2>1. Idle \in [phase : {"idle", "busy", "drq"}, op : Op, dev : Dev, at : Nat, left : Nat]
    BY DEF Idle, Op, Dev
  <2>2. drive' \in [phase : {"idle", "busy", "drq"}, op : Op, dev : Dev, at : Nat, left : Nat]
    BY <1>9, <2>1, DriveMoves DEF Data
  <2>3. done' \in [Task -> Nat]
    BY <1>9 DEF Data
  <2> QED BY <1>9, <2>2, <2>3 DEF Data, Move
<1>10. ASSUME NEW t \in Task, EndRun(t) PROVE DataTyped'
  <2>1. valid' \subseteq present
    BY <1>10 DEF EndRun, At, CallsReach
  <2> QED BY <1>10, <2>1, RunEnds DEF EndRun, hardware
<1>11. ASSUME NEW t \in Task, Unlock(t) PROVE DataTyped'
  <2>1. Call("read", 0, 0, 0) \in [op : Op, dev : Dev, lba : Nat, left : Nat]
    BY DEF Call, Op, Dev
  <2> QED BY <1>11, <2>1 DEF Unlock, hardware
<1>12. CASE UNCHANGED vars
  BY <1>12 DEF vars, call, hardware
<1> QED
  BY <1>1, <1>2, <1>3, <1>4, <1>5, <1>6, <1>7, <1>8, <1>9, <1>10, <1>11, <1>12 DEF Next, Step

\* mutex_lock lets one caller at the registers of the channel; while the boot uses them
\* without it nobody else has been started (ide.c:258-307, 321, 375).
LEMMA ChannelOwnedKept ==
    ASSUME TypeOK, DataTyped, ChannelOwned, [Next]_vars
    PROVE  ChannelOwned'
<1> USE DiskAssumption DEF ChannelOwned, Identifying, Using, At, Goto
<1>1. CASE Ready \/ Irq \/ IrqSpins
  BY <1>1 DEF Ready, Irq, IrqSpins, call
<1>2. CASE Identify
  <2>1. /\ boot \in 0..1 /\ boot' = boot + 1 /\ boot' \in 1..2
        /\ pc[Main] = "out" /\ pc' = [pc EXCEPT ![Main] = "drive"] /\ owner' = owner
        /\ req'[Main].op = "identify"
        /\ \A t \in Task : t # Main => req'[t] = req[t]
    BY <1>2 DEF Identify, Dev, DataTyped, Call
  <2>2. \A t \in Task : pc[t] = "out"
    BY <2>1
  <2>3. owner = NoTask
    BY <2>2 DEF TypeOK
  <2> QED BY <2>1, <2>2, <2>3 DEF TypeOK
<1>3. ASSUME NEW t \in Task, Begin(t) PROVE ChannelOwned'
  <2>1. /\ pc[t] = "out" /\ pc' = [pc EXCEPT ![t] = "lock"] /\ owner' = owner /\ boot' = 3
        /\ req'[t].op # "identify"
        /\ \A u \in Task : u # t => req'[u] = req[u]
    BY <1>3 DEF Begin, DataTyped, Call
  <2>2. boot = 3 \/ \A u \in Task : pc[u] = "out"
    BY <1>3 DEF Begin
  <2>3. \A u \in Task : ~Identifying(u)
    BY <2>2
  <2> QED BY <2>1, <2>3 DEF TypeOK
<1>4. ASSUME NEW t \in Task, Lock(t) PROVE ChannelOwned'
  BY <1>4 DEF Lock, call, TypeOK
<1>5. ASSUME NEW t \in Task, Unlock(t) PROVE ChannelOwned'
  <2>1. /\ pc[t] = "unlock" /\ pc' = [pc EXCEPT ![t] = "out"] /\ owner' = NoTask /\ boot' = boot
        /\ req'[t].op # "identify"
        /\ \A u \in Task : u # t => req'[u] = req[u]
    BY <1>5 DEF Unlock, DataTyped, Call
  <2>2. \A u \in Task : Using(u) => u = t
    BY <2>1, OneCaller
  <2> QED BY <2>1, <2>2 DEF TypeOK
<1>6. ASSUME NEW t \in Task, EndRun(t) PROVE ChannelOwned'
  <2>1. CASE req[t].op = "identify"
    <3>1. /\ pc[t] = "end" /\ pc' = [pc EXCEPT ![t] = "lock"] /\ owner' = owner /\ boot' = boot
      BY <1>6, <2>1 DEF EndRun
    <3>2. req'[t] = Call("read", req[t].dev, 0, 1) /\ \A u \in Task : u # t => req'[u] = req[u]
      BY <1>6, <2>1, RunEnds
    <3>3. req'[t].op # "identify"
      BY <3>2 DEF Call
    <3>4. t = Main /\ owner = NoTask
      BY <2>1, <3>1
    <3> QED BY <3>1, <3>2, <3>3, <3>4 DEF TypeOK
  <2>2. CASE req[t].op # "identify"
    <3>1. /\ pc[t] = "end" /\ owner' = owner /\ boot' = boot
          /\ pc' = [pc EXCEPT ![t] = "lba"] \/ pc' = [pc EXCEPT ![t] = "unlock"]
          /\ \A u \in Task : req'[u].op = req[u].op
      BY <1>6, <2>2, RunEnds DEF EndRun
    <3> QED BY <3>1 DEF TypeOK
  <2> QED BY <2>1, <2>2
<1>7. ASSUME NEW t \in Task, SetDrive(t) \/ SetLba(t) \/ SetCmd(t) \/ Data(t) PROVE ChannelOwned'
  BY <1>7 DEF SetDrive, SetLba, SetCmd, Data, call, TypeOK
<1>8. ASSUME NEW t \in Task, SpinLock(t) \/ Sleep(t) \/ Poll(t) PROVE ChannelOwned'
  BY <1>8 DEF SpinLock, Sleep, Poll, call, TypeOK
<1>9. ASSUME NEW t \in Task, Down(t) PROVE ChannelOwned'
  BY <1>9 DEF Down, AfterIrq, call, TypeOK, Op
<1>10. CASE UNCHANGED vars
  BY <1>10 DEF vars, call
<1> QED
  BY <1>1, <1>2, <1>3, <1>4, <1>5, <1>6, <1>7, <1>8, <1>9, <1>10 DEF Next, Step

\* sema_down enters and leaves its spin lock in the order the code has it, and the
\* handler takes it only when nobody has it (lock.c:73-119).
LEMMA SpinOwnedKept == ASSUME TypeOK, SpinOwned, [Next]_vars PROVE SpinOwned'
<1> USE DiskAssumption DEF SpinOwned, TypeOK, At, Goto
<1>1. CASE Ready \/ Irq \/ IrqSpins
  BY <1>1 DEF Ready, Irq, IrqSpins, sema
<1>2. CASE Identify
  BY <1>2 DEF Identify, sema
<1>3. ASSUME NEW t \in Task, Begin(t) PROVE SpinOwned'
  BY <1>3 DEF Begin, sema
<1>4. ASSUME NEW t \in Task, Lock(t) \/ Poll(t) \/ Unlock(t) \/ EndRun(t) \/ Sleep(t) PROVE SpinOwned'
  BY <1>4 DEF Lock, Poll, Unlock, EndRun, Sleep, sema
<1>5. ASSUME NEW t \in Task, SetDrive(t) \/ SetLba(t) \/ SetCmd(t) \/ Data(t) PROVE SpinOwned'
  BY <1>5 DEF SetDrive, SetLba, SetCmd, Data, sema
<1>6. ASSUME NEW t \in Task, SpinLock(t) PROVE SpinOwned'
  BY <1>6 DEF SpinLock
<1>7. ASSUME NEW t \in Task, Down(t) PROVE SpinOwned'
  <2>1. AfterIrq(t) # "down_in"
    BY DEF AfterIrq, Op
  <2> QED BY <1>7, <2>1 DEF Down
<1>8. CASE UNCHANGED vars
  BY <1>8 DEF vars, sema
<1> QED BY <1>1, <1>2, <1>3, <1>4, <1>5, <1>6, <1>7, <1>8 DEF Next, Step

\* A command is for one sector at least.
LEMMA EachPositive ==
    ASSUME DataTyped, NEW t \in Task
    PROVE  Each(t) \in Nat /\ Each(t) <= req[t].left /\ (req[t].left >= 1 => Each(t) >= 1)
BY DiskAssumption DEF Each, DataTyped

\* What a call wants does not change under way, and the registers hold it when the
\* command is given (ide.c:60-108, 320-339, 374-393).
LEMMA CallsReachKept ==
    ASSUME TypeOK, DataTyped, ChannelOwned, CallsReach, DriveFollows, [Next]_vars
    PROVE  CallsReach'
<1> USE DiskAssumption DEF CallsReach, At, Goto, Using
<1>1. CASE Ready \/ Irq \/ IrqSpins
  BY <1>1 DEF Ready, Irq, IrqSpins, call, Each
<1>2. CASE Identify
  <2>1. /\ pc' = [pc EXCEPT ![Main] = "drive"] /\ pc[Main] = "out"
        /\ req' = [req EXCEPT ![Main] = Call("identify", boot, 0, 1)]
        /\ done' = done /\ reg' = reg /\ valid' = valid /\ present' = present
    BY <1>2 DEF Identify, hardware
  <2>2. /\ \A u \in Task : u # Main => req'[u] = req[u] /\ pc'[u] = pc[u] /\ Each(u)' = Each(u)
        /\ pc'[Main] = "drive" /\ req'[Main].op = "identify" /\ req'[Main].left = 1
    BY <2>1 DEF TypeOK, DataTyped, Call, Each
  <2> QED BY <2>1, <2>2
<1>3. ASSUME NEW t \in Task, Begin(t) PROVE CallsReach'
  <2>1. PICK op \in {"read", "write"}, dev \in valid, lba \in 0..LastLba, n \in 1..MaxSectors :
             req' = [req EXCEPT ![t] = Call(op, dev, lba, n)]
    BY <1>3 DEF Begin
  <2>2. /\ pc' = [pc EXCEPT ![t] = "lock"] /\ pc[t] = "out"
        /\ done' = done /\ reg' = reg /\ valid' = valid /\ present' = present
    BY <1>3 DEF Begin, hardware
  <2>3. /\ \A u \in Task : u # t => req'[u] = req[u] /\ pc'[u] = pc[u] /\ Each(u)' = Each(u)
        /\ pc'[t] = "lock" /\ req'[t].dev \in valid /\ req'[t].left >= 1
    BY <2>1, <2>2 DEF TypeOK, DataTyped, Call, Each
  <2> QED BY <2>2, <2>3
<1>4. ASSUME NEW t \in Task, Lock(t) \/ Poll(t) \/ SpinLock(t) \/ Sleep(t) PROVE CallsReach'
  <2>1. /\ done' = done /\ reg' = reg /\ valid' = valid /\ present' = present /\ req' = req
        /\ \A u \in Task : Each(u)' = Each(u)
    BY <1>4 DEF Lock, Poll, SpinLock, Sleep, call, hardware, Each
  <2>2. CASE Lock(t) \/ SpinLock(t) \/ Sleep(t)
    <3>1. /\ \A u \in Task : u # t => pc'[u] = pc[u]
          /\ \/ pc[t] = "lock" /\ pc'[t] = "drive"
             \/ pc[t] = "down" /\ pc'[t] = "down_in"
             \/ pc[t] = "down_sleep" /\ pc'[t] = "down"
      BY <2>2 DEF Lock, SpinLock, Sleep, TypeOK
    <3> QED BY <2>1, <3>1
  <2>3. CASE Poll(t)
    <3>1. /\ \A u \in Task : u # t => pc'[u] = pc[u]
          /\ pc[t] = "poll" /\ pc'[t] \in {"data", "down", "out"}
      BY <2>3 DEF Poll, TypeOK
    <3>2. done[t] < Each(t)
      BY <3>1, EachPositive
    <3> QED BY <2>1, <3>1, <3>2
  <2> QED BY <1>4, <2>2, <2>3
<1>5. ASSUME NEW t \in Task, SetDrive(t) \/ SetLba(t) PROVE CallsReach'
  <2>1. /\ done' = done /\ valid' = valid /\ present' = present /\ req' = req
        /\ \A u \in Task : Each(u)' = Each(u)
    BY <1>5 DEF SetDrive, SetLba, SetReg, call, Each
  <2>2. pc[t] \in {"drive", "lba"} /\ drive.phase = "idle"
    BY <1>5 DEF SetDrive, SetLba, DriveFollows, NotGiven, Given, InDown
  <2>3. \A u \in Task : u # t => pc'[u] = pc[u] /\ pc'[u] \in {"out", "lock"}
    BY <1>5, <2>2, OneCaller DEF SetDrive, SetLba, TypeOK
  <2>4. CASE SetDrive(t)
    <3>1. /\ pc[t] = "drive" /\ reg'.dev = req[t].dev
          /\ pc'[t] = "lba" \/ (pc'[t] = "cmd" /\ req[t].op = "identify")
      BY <2>2, <2>4 DEF SetDrive, SetReg, DataTyped, TypeOK
    <3> QED BY <2>1, <2>3, <3>1
  <2>5. CASE SetLba(t)
    <3>1. /\ pc[t] = "lba" /\ reg'.lba = req[t].lba /\ reg'.dev = reg.dev /\ pc'[t] = "cmd"
      BY <2>2, <2>5 DEF SetLba, SetReg, DataTyped, TypeOK
    <3> QED BY <2>1, <2>3, <3>1
  <2> QED BY <1>5, <2>4, <2>5
<1>6. ASSUME NEW t \in Task, SetCmd(t) PROVE CallsReach'
  <2>1. /\ done' = done /\ reg' = reg /\ valid' = valid /\ present' = present /\ req' = req
        /\ \A u \in Task : Each(u)' = Each(u)
        /\ pc[t] = "cmd" /\ pc'[t] \in {"down", "poll"}
        /\ \A u \in Task : u # t => pc'[u] = pc[u]
    BY <1>6 DEF SetCmd, Accept, call, Each, TypeOK
  <2> QED BY <2>1
<1>7. ASSUME NEW t \in Task, Data(t) PROVE CallsReach'
  <2>1. /\ reg' = reg /\ valid' = valid /\ present' = present /\ req' = req
        /\ \A u \in Task : Each(u)' = Each(u)
        /\ pc[t] = "data"
        /\ \A u \in Task : u # t => pc'[u] = pc[u] /\ done'[u] = done[u]
    BY <1>7 DEF Data, Move, call, Each, TypeOK, DataTyped
  <2>2. \/ done[t] + 1 = Each(t) /\ done'[t] = 0 /\ pc'[t] \in {"down", "end"}
        \/ done[t] + 1 # Each(t) /\ done'[t] = done[t] + 1 /\ pc'[t] = "data"
    BY <1>7 DEF Data, TypeOK, DataTyped
  <2>3. done[t] \in Nat /\ Each(t) \in Nat /\ done[t] < Each(t)
    BY <2>1, EachPositive DEF DataTyped
  <2>4. req[t].dev \in present
    BY <2>1 DEF DriveFollows, Given, WorksFor
  <2> QED BY <2>1, <2>2, <2>3, <2>4
<1>8. ASSUME NEW t \in Task, Down(t) PROVE CallsReach'
  <2>1. /\ done' = done /\ reg' = reg /\ valid' = valid /\ present' = present /\ req' = req
        /\ \A u \in Task : Each(u)' = Each(u)
        /\ pc[t] = "down_in"
        /\ \A u \in Task : u # t => pc'[u] = pc[u]
    BY <1>8 DEF Down, call, hardware, Each, TypeOK
  <2>2. \/ pc'[t] \in {"poll", "down_sleep"}
        \/ pc'[t] = "end" /\ req[t].op = "write"
        \/ pc'[t] = "data"
    BY <1>8 DEF Down, AfterIrq, TypeOK, Op
  <2>3. done[t] < Each(t)
    BY <2>1, EachPositive
  <2>4. req[t].op = "write" => req[t].dev \in present
    BY <2>1 DEF DataTyped
  <2> QED BY <2>1, <2>2, <2>3, <2>4
<1>9. ASSUME NEW t \in Task, EndRun(t) PROVE CallsReach'
  <2>1. /\ done' = done /\ reg' = reg /\ present' = present /\ pc[t] = "end"
        /\ \A u \in Task : u # t => pc'[u] = pc[u]
    BY <1>9 DEF EndRun, hardware, TypeOK
  <2>2. \A u \in Task : u # t => req'[u] = req[u] /\ Each(u)' = Each(u)
    BY <1>9, RunEnds DEF Each
  <2>3. CASE req[t].op = "identify"
    <3>1. pc'[t] = "lock" /\ valid' = valid \cup {req[t].dev}
      BY <1>9, <2>3 DEF EndRun, TypeOK
    <3>2. req'[t] = Call("read", req[t].dev, 0, 1)
      BY <1>9, <2>3, RunEnds
    <3>3. req'[t].dev = req[t].dev /\ req'[t].left = 1
      BY <3>2 DEF Call
    <3> QED BY <2>1, <2>2, <3>1, <3>3
  <2>4. CASE req[t].op # "identify"
    <3>1. /\ valid' = valid
          /\ pc'[t] = IF req[t].left - Each(t) > 0 THEN "lba" ELSE "unlock"
      BY <1>9, <2>4 DEF EndRun, TypeOK
    <3>2. /\ req'[t].op = req[t].op /\ req'[t].dev = req[t].dev
          /\ req'[t].left = req[t].left - Each(t)
      BY <1>9, <2>4, RunEnds
    <3>3. req[t].left - Each(t) \in Int
      BY EachPositive DEF DataTyped
    <3> QED BY <2>1, <2>2, <2>4, <3>1, <3>2, <3>3
  <2> QED BY <2>3, <2>4
<1>10. ASSUME NEW t \in Task, Unlock(t) PROVE CallsReach'
  <2>1. /\ done' = done /\ reg' = reg /\ valid' = valid /\ present' = present
        /\ pc[t] = "unlock" /\ pc'[t] = "out"
        /\ \A u \in Task : u # t => pc'[u] = pc[u] /\ req'[u] = req[u] /\ Each(u)' = Each(u)
    BY <1>10 DEF Unlock, hardware, TypeOK, DataTyped, Each
  <2> QED BY <2>1
<1>11. CASE UNCHANGED vars
  BY <1>11 DEF vars, call, hardware, Each
<1> QED
  BY <1>1, <1>2, <1>3, <1>4, <1>5, <1>6, <1>7, <1>8, <1>9, <1>10, <1>11 DEF Next, Step

\* Nobody else uses the channel while a task does; so what the drive does is up to it.
LEMMA OneFollowed ==
    ASSUME DriveFollows, NEW t \in Task,
           \A u \in Task : u # t => ~Using(u)',
           NotGiven(t)' => drive'.phase = "idle",
           drive'.phase # "idle" => drive'.dev \in present' /\ Given(t)',
           Given(t)' => \/ WorksFor(t)'
                        \/ pc'[t] = "poll" /\ req'[t].op = "identify" /\ req'[t].dev \notin present'
                              /\ drive'.phase = "idle",
           pc'[t] = "data" \/ (InDown(t)' /\ req'[t].op = "identify") => drive'.phase = "drq"
    PROVE  DriveFollows'
<1>1. \A u \in Task : u # t => ~Given(u)' /\ ~NotGiven(u)' /\ pc'[u] # "data" /\ ~InDown(u)'
  BY DEF Using, Given, NotGiven, InDown
<1> QED BY <1>1 DEF DriveFollows

\* A caller that has found nobody in its way finds the drive idle.
LEMMA IdleUnused ==
    ASSUME DataTyped, DriveFollows, \A u \in Task : ~Using(u)
    PROVE  drive.phase = "idle"
BY DEF DriveFollows, Given, Using, InDown

\* A command is given to an idle drive and taken by one that is there; the drive is
\* idle again with the last sector of the run (ide.c:336-352, 390-406).
LEMMA DriveFollowsKept ==
    ASSUME TypeOK, DataTyped, ChannelOwned, CallsReach, DriveFollows, [Next]_vars
    PROVE  DriveFollows'
<1> USE DEF At, Goto
<1>1. CASE Ready
  <2>1. /\ drive.phase = "busy" /\ drive'.phase = "drq" /\ drive'.op = drive.op /\ drive'.dev = drive.dev
        /\ drive'.at = drive.at /\ drive'.left = drive.left
        /\ pc' = pc /\ req' = req /\ done' = done /\ present' = present
    BY <1>1, DriveMoves DEF Ready, call
  <2>2. \A u \in Task : Each(u)' = Each(u)
    BY <2>1 DEF Each
  <2> QED BY <2>1, <2>2 DEF DriveFollows, Given, NotGiven, Using, InDown, WorksFor
<1>2. CASE Irq \/ IrqSpins
  BY <1>2 DEF Irq, IrqSpins, call, DriveFollows, Given, NotGiven, Using, InDown, WorksFor, Each
<1>3. CASE Identify
  <2>1. /\ pc[Main] = "out" /\ boot \in 0..2 /\ pc' = [pc EXCEPT ![Main] = "drive"]
        /\ drive' = drive
    BY <1>3 DEF Identify, hardware, Dev
  <2>2. \A u \in Task : pc[u] = "out"
    BY <2>1, DiskAssumption DEF ChannelOwned
  <2>3. drive'.phase = "idle"
    BY <2>1, <2>2, IdleUnused DEF Using
  <2>4. pc'[Main] = "drive" /\ \A u \in Task : u # Main => pc'[u] = "out"
    BY <2>1, <2>2, DiskAssumption DEF TypeOK
  <2> QED BY <2>3, <2>4 DEF DriveFollows, Given, NotGiven, Using, InDown
<1>4. ASSUME NEW t \in Task, Begin(t) PROVE DriveFollows'
  <2>1. PICK op \in {"read", "write"}, dev \in valid, lba \in 0..LastLba, n \in 1..MaxSectors :
             req' = [req EXCEPT ![t] = Call(op, dev, lba, n)]
    BY <1>4 DEF Begin
  <2>2. /\ pc' = [pc EXCEPT ![t] = "lock"] /\ pc[t] = "out" /\ done' = done
        /\ drive' = drive /\ present' = present
    BY <1>4 DEF Begin, hardware
  <2>3. /\ \A u \in Task : u # t => req'[u] = req[u] /\ pc'[u] = pc[u] /\ Each(u)' = Each(u)
        /\ pc'[t] = "lock"
    BY <2>1, <2>2 DEF TypeOK, DataTyped, Each
  <2> QED BY <2>2, <2>3 DEF DriveFollows, Given, NotGiven, Using, InDown, WorksFor
<1>5. ASSUME NEW t \in Task, Lock(t) PROVE DriveFollows'
  <2>1. pc[t] = "lock" /\ pc' = [pc EXCEPT ![t] = "drive"] /\ owner = NoTask /\ drive' = drive
    BY <1>5 DEF Lock, hardware
  <2>2. \A u \in Task : ~Using(u)
    BY <2>1, DiskAssumption DEF ChannelOwned, Identifying, Using
  <2>3. drive'.phase = "idle"
    BY <2>1, <2>2, IdleUnused
  <2>4. pc'[t] = "drive" /\ \A u \in Task : u # t => ~Using(u)'
    BY <2>1, <2>2 DEF TypeOK, Using
  <2> QED BY <2>3, <2>4, OneFollowed DEF Given, Using, InDown
<1>6. ASSUME NEW t \in Task, SetDrive(t) \/ SetLba(t) PROVE DriveFollows'
  <2>1. /\ pc[t] \in {"drive", "lba"} /\ pc'[t] \in {"cmd", "lba"} /\ drive' = drive
        /\ \A u \in Task : u # t => pc'[u] = pc[u]
    BY <1>6 DEF SetDrive, SetLba, SetReg, TypeOK
  <2>2. drive.phase = "idle"
    BY <2>1 DEF DriveFollows, NotGiven, Given, Using, InDown
  <2>3. \A u \in Task : u # t => ~Using(u)'
    BY <2>1, OneCaller DEF Using
  <2> QED BY <2>1, <2>2, <2>3, OneFollowed DEF Given, InDown
<1>7. ASSUME NEW t \in Task, SetCmd(t) PROVE DriveFollows'
  <2>1. /\ pc[t] = "cmd" /\ pc'[t] = (IF req[t].op = "read" THEN "down" ELSE "poll")
        /\ req' = req /\ done' = done /\ present' = present
        /\ \A u \in Task : u # t => pc'[u] = pc[u]
    BY <1>7 DEF SetCmd, Accept, call, TypeOK
  <2>2. drive.phase = "idle"
    BY <2>1 DEF DriveFollows, NotGiven, Given, Using, InDown
  <2>3. \A u \in Task : u # t => ~Using(u)'
    BY <2>1, OneCaller DEF Using
  <2>4. reg.dev = req[t].dev /\ done[t] = 0 /\ (req[t].op # "identify" => reg.lba = req[t].lba)
    BY <2>1 DEF CallsReach, Using
  <2>5. Each(t)' = Each(t) /\ Each(t) \in Nat /\ req[t].lba \in Nat /\ req[t].op \in Op
    BY <2>1, EachPositive DEF Each, DataTyped
  <2>6. CASE reg.dev \in present
    <3>1. drive' = [phase |-> "busy", op |-> req[t].op, dev |-> reg.dev, at |-> reg.lba, left |-> Each(t)]
      BY <1>7, <2>2, <2>6 DEF SetCmd, Accept
    <3>2. WorksFor(t)'
      BY <2>1, <2>4, <2>5, <3>1 DEF WorksFor
    <3>3. drive'.phase = "busy" /\ drive'.dev \in present' /\ Given(t)' /\ ~NotGiven(t)'
      BY <2>1, <2>5, <2>6, <3>1 DEF Given, NotGiven, InDown, Op
    <3>4. ~(pc'[t] = "data" \/ (InDown(t)' /\ req'[t].op = "identify"))
      BY <2>1 DEF InDown
    <3> QED BY <2>3, <3>2, <3>3, <3>4, OneFollowed
  <2>7. CASE reg.dev \notin present
    <3>1. drive' = drive /\ req[t].op = "identify"
      BY <1>7, <2>1, <2>4, <2>7 DEF SetCmd, Accept, CallsReach, DataTyped
    <3>2. pc'[t] = "poll"
      BY <2>1, <3>1
    <3> QED BY <2>1, <2>2, <2>3, <2>4, <2>7, <3>1, <3>2, OneFollowed DEF Given, NotGiven, InDown
  <2> QED BY <2>6, <2>7
<1>8. ASSUME NEW t \in Task, Poll(t) PROVE DriveFollows'
  <2>1. /\ pc[t] = "poll" /\ req' = req /\ done' = done /\ present' = present /\ drive' = drive
        /\ \A u \in Task : u # t => pc'[u] = pc[u]
        /\ Each(t)' = Each(t)
    BY <1>8 DEF Poll, call, hardware, TypeOK, Each
  <2>2. \A u \in Task : u # t => ~Using(u)'
    BY <2>1, OneCaller DEF Using
  <2>3. \/ pc'[t] \in {"data", "down"} /\ drive.phase = "drq" /\ (pc'[t] = "down" => req[t].op = "identify")
        \/ pc'[t] = "out" /\ drive.phase = "idle"
    BY <1>8 DEF Poll, TypeOK, DataTyped
  <2>4. CASE pc'[t] \in {"data", "down"}
    <3>1. WorksFor(t)
      BY <2>1, <2>3, <2>4 DEF DriveFollows, Given
    <3>2. WorksFor(t)'
      BY <2>1, <3>1 DEF WorksFor
    <3>3. drive'.dev \in present' /\ Given(t)' /\ ~NotGiven(t)'
      BY <2>1, <2>3, <2>4 DEF DriveFollows, Given, NotGiven, InDown
    <3> QED BY <2>1, <2>2, <2>3, <2>4, <3>2, <3>3, OneFollowed
  <2>5. CASE pc'[t] = "out"
    BY <2>1, <2>2, <2>3, <2>5, OneFollowed DEF Given, InDown
  <2> QED BY <2>3, <2>4, <2>5
<1>9. ASSUME NEW t \in Task, Data(t) PROVE DriveFollows'
  <2>1. /\ pc[t] = "data" /\ req' = req /\ present' = present /\ Move
        /\ \A u \in Task : u # t => pc'[u] = pc[u]
        /\ Each(t)' = Each(t)
    BY <1>9 DEF Data, Move, call, TypeOK, Each
  <2>2. \A u \in Task : u # t => ~Using(u)'
    BY <2>1, OneCaller DEF Using
  <2>3. WorksFor(t) /\ drive.phase = "drq" /\ drive.dev \in present
    BY <2>1 DEF DriveFollows, Given, WorksFor
  <2>4. /\ done[t] \in Nat /\ Each(t) \in Nat /\ done[t] < Each(t)
        /\ drive.left = Each(t) - done[t]
    BY <2>1, <2>3, EachPositive DEF DataTyped, CallsReach, WorksFor
  <2>5. CASE done[t] + 1 = Each(t)
    <3>1. drive'.phase = "idle"
      BY <2>1, <2>4, <2>5, DriveMoves DEF Idle
    <3>2. \/ pc'[t] = "down" /\ req[t].op = "write"
          \/ pc'[t] = "end"
      BY <1>9, <2>5 DEF Data, TypeOK
    <3> QED BY <2>1, <2>2, <3>1, <3>2, OneFollowed DEF Given, NotGiven, InDown
  <2>6. CASE done[t] + 1 # Each(t)
    <3>1. /\ drive'.phase = drive.phase /\ drive'.op = drive.op /\ drive'.dev = drive.dev
          /\ drive'.at = drive.at + 1 /\ drive'.left = drive.left - 1
      BY <2>1, <2>4, <2>6, DriveMoves
    <3>2. done'[t] = done[t] + 1 /\ pc'[t] = "data"
      BY <1>9, <2>6 DEF Data, TypeOK, DataTyped
    <3>3. WorksFor(t)'
      BY <2>1, <2>3, <2>4, <3>1, <3>2 DEF WorksFor, DataTyped
    <3> QED BY <2>1, <2>2, <2>3, <3>1, <3>2, <3>3, OneFollowed DEF Given, NotGiven, InDown
  <2> QED BY <2>5, <2>6
<1>10. ASSUME NEW t \in Task, SpinLock(t) \/ Sleep(t) PROVE DriveFollows'
  <2>1. /\ req' = req /\ done' = done /\ present' = present /\ drive' = drive
        /\ \A u \in Task : Each(u)' = Each(u)
        /\ \A u \in Task : u # t => pc'[u] = pc[u]
        /\ pc[t] \in {"down", "down_sleep"} /\ pc'[t] \in {"down", "down_in"}
    BY <1>10 DEF SpinLock, Sleep, call, hardware, TypeOK, Each
  <2>2. \A u \in Task : /\ Given(u)' = Given(u) /\ NotGiven(u)' = NotGiven(u) /\ InDown(u)' = InDown(u)
                        /\ pc'[u] \in {"poll", "data"} <=> pc[u] \in {"poll", "data"}
                        /\ pc'[u] = "poll" <=> pc[u] = "poll"
    BY <2>1 DEF Given, NotGiven, Using, InDown
  <2>3. \A u \in Task : WorksFor(u)' = WorksFor(u)
    BY <2>1 DEF WorksFor
  <2> QED BY <2>1, <2>2, <2>3 DEF DriveFollows
<1>11. ASSUME NEW t \in Task, Down(t) PROVE DriveFollows'
  <2>1. /\ pc[t] = "down_in" /\ req' = req /\ done' = done /\ present' = present /\ drive' = drive
        /\ Each(t)' = Each(t)
        /\ \A u \in Task : u # t => pc'[u] = pc[u]
    BY <1>11 DEF Down, call, hardware, TypeOK, Each
  <2>2. \A u \in Task : u # t => ~Using(u)'
    BY <2>1, OneCaller DEF Using
  <2>3. \/ pc'[t] = "down_sleep"
        \/ pc'[t] = "poll" /\ req[t].op = "read"
        \/ pc'[t] = "end" /\ req[t].op = "write"
        \/ pc'[t] = "data" /\ req[t].op = "identify"
    BY <1>11 DEF Down, AfterIrq, TypeOK, Op
  <2>4. CASE req[t].op = "write"
    BY <2>1, <2>2, <2>3, <2>4, OneFollowed DEF DriveFollows, Given, NotGiven, Using, InDown
  <2>5. CASE req[t].op # "write"
    <3>1. Given(t) /\ Given(t)' /\ ~NotGiven(t)' /\ InDown(t)
      BY <2>1, <2>3, <2>5 DEF Given, NotGiven, InDown
    <3>2. WorksFor(t) /\ drive.dev \in present /\ (req[t].op = "identify" => drive.phase = "drq")
      BY <2>1, <3>1 DEF DriveFollows, WorksFor
    <3>3. WorksFor(t)'
      BY <2>1, <3>2 DEF WorksFor
    <3> QED BY <2>1, <2>2, <2>3, <3>1, <3>2, <3>3, OneFollowed
  <2> QED BY <2>4, <2>5
<1>12. ASSUME NEW t \in Task, EndRun(t) \/ Unlock(t) PROVE DriveFollows'
  <2>1. /\ pc[t] \in {"end", "unlock"} /\ drive' = drive /\ present' = present
        /\ \A u \in Task : u # t => pc'[u] = pc[u]
        /\ pc'[t] \in {"lock", "lba", "unlock", "out"}
    BY <1>12 DEF EndRun, Unlock, hardware, TypeOK
  <2>2. drive.phase = "idle"
    BY <2>1 DEF DriveFollows, NotGiven, Given, Using, InDown
  <2>3. \A u \in Task : u # t => ~Using(u)'
    BY <2>1, OneCaller DEF Using
  <2> QED BY <2>1, <2>2, <2>3, OneFollowed DEF Given, InDown
<1>13. CASE UNCHANGED vars
  BY <1>13 DEF vars, call, hardware, DriveFollows, Given, NotGiven, Using, InDown, WorksFor, Each
<1> QED
  BY <1>1, <1>2, <1>3, <1>4, <1>5, <1>6, <1>7, <1>8, <1>9, <1>10, <1>11, <1>12, <1>13 DEF Next, Step

\* The one step that spends a token is that of the task that waited for it, the one that
\* loses an interrupt leaves the task it strikes spinning, and before each wait a command
\* or a sector has raised an interrupt or will (ide.c:139-152, 183, 342, 406).
LEMMA AnswersKept ==
    ASSUME IInv, [Next]_vars
    PROVE  (IdentifyAnswered /\ AnswerOutstanding)'
<1> USE DEF At, Goto
<1> DEFINE Answered == IdentifyAnswered /\ AnswerOutstanding
<1>0. TypeOK /\ DataTyped /\ ChannelOwned /\ SpinOwned /\ CallsReach /\ DriveFollows /\ Answered
  BY DEF IInv
<1>1. CASE Ready
  <2>1. /\ drive.phase = "busy" /\ drive'.op = drive.op
        /\ pc' = pc /\ req' = req /\ status' = status /\ count' = count
        /\ irq' = (irq \/ drive.op # "write")
    BY <1>0, <1>1, DriveMoves DEF Ready, call, sema
  <2>2. \A t \in Task : pc[t] = "poll" /\ req[t].op = "identify" => drive.op # "write"
    BY <1>0, <2>1 DEF DriveFollows, Given, WorksFor
  <2> QED BY <1>0, <2>1, <2>2 DEF IdentifyAnswered, AnswerOutstanding, InDown
<1>2. CASE Irq
  <2>1. count' > 0
    BY <1>0, <1>2 DEF Irq, TypeOK
  <2> QED BY <2>1 DEF IdentifyAnswered, AnswerOutstanding
<1>3. CASE IrqSpins
  <2>1. slock \in Task /\ pc[slock] = "down_in" /\ pc' = pc
    BY <1>0, <1>3 DEF IrqSpins, TypeOK, SpinOwned
  <2>2. status'[slock] = "SPINS"
    BY <1>0, <1>3, <2>1 DEF IrqSpins, TypeOK
  <2>3. \A u \in Task : pc'[u] = "poll" \/ InDown(u)' => u = slock
    BY <1>0, <2>1, OneCaller DEF Using, InDown
  <2> QED BY <2>1, <2>2, <2>3 DEF IdentifyAnswered, AnswerOutstanding
<1>4. ASSUME NEW t \in Task, status' = status, count' = count, irq' = irq, drive' = drive,
             \A u \in Task : u # t => pc'[u] = pc[u] /\ req'[u] = req[u],
             pc'[t] # "poll" /\ ~InDown(t)'
      PROVE  Answered'
  BY <1>0, <1>4 DEF IdentifyAnswered, AnswerOutstanding, InDown
<1> HIDE DEF Answered
<1>5. CASE Identify
  <2>1. pc'[Main] = "drive" /\ \A u \in Task : u # Main => pc'[u] = pc[u] /\ req'[u] = req[u]
    BY <1>0, <1>5, DiskAssumption DEF Identify, TypeOK, DataTyped
  <2>2. pc'[Main] # "poll" /\ ~InDown(Main)'
    BY <2>1 DEF InDown
  <2>3. status' = status /\ count' = count /\ irq' = irq /\ drive' = drive
    BY <1>5 DEF Identify, sema, hardware
  <2>4. Main \in Task
    BY DiskAssumption
  <2> QED BY <1>4, <2>1, <2>2, <2>3, <2>4 DEF Answered
<1>6. ASSUME NEW t \in Task, Begin(t) PROVE Answered'
  <2>1. PICK op \in {"read", "write"}, dev \in valid, lba \in 0..LastLba, n \in 1..MaxSectors :
             req' = [req EXCEPT ![t] = Call(op, dev, lba, n)]
    BY <1>6 DEF Begin
  <2>2. pc'[t] = "lock" /\ \A u \in Task : u # t => pc'[u] = pc[u] /\ req'[u] = req[u]
    BY <1>0, <1>6, <2>1 DEF Begin, TypeOK, DataTyped
  <2>3. pc'[t] # "poll" /\ ~InDown(t)'
    BY <2>2 DEF InDown
  <2> QED BY <1>4, <1>6, <2>2, <2>3 DEF Begin, sema, hardware
<1>7. ASSUME NEW t \in Task, Lock(t) \/ SetDrive(t) \/ SetLba(t) \/ EndRun(t) \/ Unlock(t)
      PROVE  Answered'
  <2>1. /\ pc'[t] \in {"drive", "cmd", "lba", "lock", "unlock", "out"}
        /\ \A u \in Task : u # t => pc'[u] = pc[u]
        /\ status' = status /\ count' = count /\ irq' = irq /\ drive' = drive
    BY <1>0, <1>7 DEF Lock, SetDrive, SetLba, SetReg, EndRun, Unlock, TypeOK, sema, hardware
  <2>2. \A u \in Task : u # t => req'[u] = req[u]
    <3>1. CASE EndRun(t)
      BY <1>0, <3>1, RunEnds
    <3>2. CASE ~EndRun(t)
      BY <1>0, <1>7, <3>2 DEF Lock, SetDrive, SetLba, Unlock, call, DataTyped
    <3> QED BY <3>1, <3>2
  <2>3. pc'[t] # "poll" /\ ~InDown(t)'
    BY <2>1 DEF InDown
  <2> QED BY <1>4, <2>1, <2>2, <2>3
<1>8. ASSUME NEW t \in Task, pc[t] \notin {"out", "lock"},
             \A u \in Task : u # t => pc'[u] = pc[u],
             pc'[t] = "poll" /\ req'[t].op = "identify" /\ drive'.phase = "drq" => count' > 0 \/ irq',
             InDown(t)' => \/ count' > 0 \/ irq' \/ status'[t] = "SPINS"
                           \/ drive'.phase = "busy" /\ drive'.op # "write"
      PROVE  Answered'
  <2>1. \A u \in Task : u # t => pc'[u] \in {"out", "lock"}
    BY <1>0, <1>8, OneCaller DEF Using
  <2> QED BY <1>8, <2>1 DEF Answered, IdentifyAnswered, AnswerOutstanding, InDown
<1>9. ASSUME NEW t \in Task, SetCmd(t) PROVE Answered'
  <2>1. /\ pc[t] = "cmd" /\ pc'[t] = (IF req[t].op = "read" THEN "down" ELSE "poll") /\ req' = req
        /\ \A u \in Task : u # t => pc'[u] = pc[u]
    BY <1>0, <1>9 DEF SetCmd, call, TypeOK
  <2>2. drive.phase = "idle" /\ reg.dev = req[t].dev
    BY <1>0, <2>1 DEF DriveFollows, NotGiven, Given, Using, InDown, CallsReach
  <2>3. drive'.phase # "drq"
    BY <1>9, <2>2 DEF SetCmd, Accept
  <2>4. req[t].op = "read" => drive'.phase = "busy" /\ drive'.op # "write"
    BY <1>0, <1>9, <2>1, <2>2 DEF SetCmd, Accept, CallsReach, DataTyped
  <2> QED BY <1>8, <2>1, <2>3, <2>4 DEF InDown
<1>10. ASSUME NEW t \in Task, Poll(t) PROVE Answered'
  <2>1. /\ pc[t] = "poll" /\ count' = count /\ irq' = irq
        /\ \A u \in Task : u # t => pc'[u] = pc[u]
        /\ pc'[t] # "poll"
        /\ InDown(t)' => req[t].op = "identify" /\ drive.phase = "drq"
    BY <1>0, <1>10 DEF Poll, sema, hardware, TypeOK, InDown
  <2>2. InDown(t)' => count' > 0 \/ irq'
    BY <1>0, <2>1 DEF Answered, IdentifyAnswered
  <2> QED BY <1>8, <2>1, <2>2
<1>11. ASSUME NEW t \in Task, Data(t) PROVE Answered'
  <2>1. /\ pc[t] = "data" /\ pc'[t] # "poll"
        /\ \A u \in Task : u # t => pc'[u] = pc[u]
        /\ InDown(t)' => req[t].op = "write"
        /\ irq' = (irq \/ drive.op = "write" \/ drive.left > 1)
    BY <1>0, <1>11 DEF Data, Move, TypeOK, InDown
  <2>2. drive.op = req[t].op
    BY <1>0, <2>1 DEF DriveFollows, Given, WorksFor
  <2> QED BY <1>8, <2>1, <2>2
<1>12. ASSUME NEW t \in Task, SpinLock(t) \/ Sleep(t) PROVE Answered'
  <2>1. /\ pc[t] \in {"down", "down_sleep"} /\ pc'[t] \in {"down", "down_in"}
        /\ count' = count /\ irq' = irq /\ drive' = drive /\ status[t] = "RUNNABLE"
        /\ \A u \in Task : u # t => pc'[u] = pc[u]
    BY <1>0, <1>12 DEF SpinLock, Sleep, sema, hardware, TypeOK
  <2>2. count > 0 \/ irq \/ (drive.phase = "busy" /\ drive.op # "write")
    BY <1>0, <2>1 DEF Answered, AnswerOutstanding, InDown
  <2> QED BY <1>8, <2>1, <2>2
<1>13. ASSUME NEW t \in Task, Down(t) PROVE Answered'
  <2>1. /\ pc[t] = "down_in" /\ irq' = irq /\ drive' = drive /\ status[t] = "RUNNABLE" /\ req' = req
        /\ \A u \in Task : u # t => pc'[u] = pc[u]
    BY <1>0, <1>13 DEF Down, call, hardware, TypeOK
  <2>2. count > 0 \/ irq \/ (drive.phase = "busy" /\ drive.op # "write")
    BY <1>0, <2>1 DEF Answered, AnswerOutstanding, InDown
  <2>3. CASE count > 0
    <3>1. pc'[t] = AfterIrq(t)
      BY <1>0, <1>13, <2>3 DEF Down, TypeOK
    <3>2. ~InDown(t)' /\ (pc'[t] = "poll" => req[t].op # "identify")
      BY <1>0, <3>1 DEF AfterIrq, InDown, TypeOK, Op
    <3> QED BY <1>8, <2>1, <3>2
  <2>4. CASE ~(count > 0)
    <3>1. pc'[t] = "down_sleep" /\ count' = count
      BY <1>0, <1>13, <2>4 DEF Down, TypeOK
    <3> QED BY <1>8, <2>1, <2>2, <3>1
  <2> QED BY <2>3, <2>4
<1>14. CASE UNCHANGED vars
  BY <1>0, <1>14 DEF vars, call, hardware, sema, Answered, IdentifyAnswered, AnswerOutstanding, InDown
<1> QED
  BY <1>1, <1>2, <1>3, <1>5, <1>6, <1>7, <1>9, <1>10, <1>11, <1>12, <1>13, <1>14
     DEF Next, Step, Answered

-----------------------------------------------------------------------------
\* IInv holds in every state: callers, channel, semaphore and drive agree about the
\* command that is under way (ide.c:137-178, 330-441).
THEOREM Invariance == Spec => []IInv
<1>1. Init => IInv
  BY InitIInv
<1>2. IInv /\ [Next]_vars => IInv'
  BY TypeKept, DataTypedKept, ChannelOwnedKept, SpinOwnedKept, CallsReachKept, DriveFollowsKept,
     AnswersKept DEF IInv
<1> QED BY <1>1, <1>2, PTL DEF Spec

\* Every value has its type in every reachable state.
THEOREM TypeCorrect == Spec => []TypeOK
<1>1. IInv => TypeOK
  BY DEF IInv
<1> QED BY <1>1, Invariance, PTL

\* A command that has been given is being worked at while its caller polls or waits, for
\* any number of callers: no register is set and no command given while the drive works
\* at another's (ide.c:336-342, 390-400).
THEOREM CommandsTaken == Spec => []CommandTaken
<1>1. IInv => CommandTaken
  <2> SUFFICES ASSUME IInv, NEW t \in Task, pc[t] = "poll" \/ (InDown(t) /\ req[t].op = "read")
               PROVE  \/ WorksFor(t)
                      \/ req[t].op = "identify" /\ req[t].dev \notin present /\ drive.phase = "idle"
    BY DEF CommandTaken
  <2>1. Given(t)
    BY DEF Given
  <2> QED BY <2>1 DEF IInv, DriveFollows
<1> QED BY <1>1, Invariance, PTL

\* What passes the data register is the sector its caller means, for every length of the
\* call and of a command, whatever tokens the semaphore has left (ide.c:342-352, 396-403).
THEOREM TransfersRight == Spec => []TransferRight
<1>1. IInv => TransferRight
  BY DEF IInv, DriveFollows, TransferRight, Given
<1> QED BY <1>1, Invariance, PTL

\* Who waits for an interrupt has one to come, latched or counted, or was struck by it
\* while it had the spin lock (ide.c:183, 342, 406).
THEOREM AnswersCome == Spec => []AnswerOutstanding
<1>1. IInv => AnswerOutstanding
  BY DEF IInv
<1> QED BY <1>1, Invariance, PTL
=============================================================================
