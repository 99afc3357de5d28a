--------------------------------- MODULE Disk ---------------------------------
(***************************************************************************)
(* One channel of ide.c: the boot identifies its drives, then tasks read   *)
(* and write runs of sectors.  A call holds the mutex of the channel; a    *)
(* semaphore, which the interrupt handler raises, is what it waits on.     *)
(* mutex_lock is one step (ImplementsAbstractMutex of Mutex); sema_down is *)
(* taken apart, since the interrupt may strike inside it.                  *)
(***************************************************************************)
EXTENDS TaskList

CONSTANTS Task, Main,    \* the tasks; Main boots the kernel
          NoTask,
          LastLba,       \* bound: the calls start at 0..LastLba
          MaxSectors,    \* bound: sectors of a call
          Run,           \* sectors of one command (256 in the code)
          MaxTokens      \* bound: no call starts with sema.count above it

Dev == {0, 1}            \* dev_nr: master and slave

ASSUME DiskAssumption ==
    /\ Main \in Task /\ NoTask \notin Task
    /\ LastLba \in Nat /\ MaxTokens \in Nat
    /\ MaxSectors \in Nat \ {0} /\ Run \in Nat \ {0}

VARIABLES owner,        \* mlock.owner
          count,        \* sema.count
          slock,        \* the task that holds sema.slock
          waiters,      \* sema.wait_list
          status, pc,
          req,          \* what each task has called for; left counts down
          done,         \* sectors of the current run that have been moved
          present,      \* the drives of the channel that are there
          boot,         \* the next drive ide_ch_init identifies, 3 after the boot
          valid,        \* hd->valid
          reg,          \* the drive, lba and sector registers of the channel
          drive,        \* what the selected drive is doing
          irq           \* the interrupt controller has a request latched

sema == <<count, slock, waiters>>
call == <<req, done, boot, valid>>
hardware == <<present, reg, drive, irq>>
vars == <<owner, sema, status, pc, call, hardware>>

PC == {"out", "lock", "drive", "lba", "cmd", "poll", "data", "end", "unlock",
       "down",       \* sema_down: spin_lock
       "down_in",    \* sema_down: with the spin lock
       "down_sleep"} \* sema_down: kthread_block

Op == {"identify", "read", "write"}
Call(op, dev, lba, n) == [op |-> op, dev |-> dev, lba |-> lba, left |-> n]
Idle == [phase |-> "idle", op |-> "read", dev |-> 0, at |-> 0, left |-> 0]

Init ==
    /\ owner = NoTask
    /\ count = 0 /\ slock = NoTask /\ waiters = <<>>
    /\ status = [t \in Task |-> "RUNNABLE"]
    /\ pc = [t \in Task |-> "out"]
    /\ req = [t \in Task |-> Call("read", 0, 0, 0)]
    /\ done = [t \in Task |-> 0]
    /\ boot = 0 /\ valid = {}
    /\ present \in SUBSET Dev /\ reg = [dev |-> 0, lba |-> 0]
    /\ drive = Idle /\ irq = FALSE

\* cnt_each: the sectors of the command under way.
Each(t) == IF req[t].left >= Run THEN Run ELSE req[t].left

\* The kernel runs with interrupts enabled: one that is latched strikes before the
\* next step of a task, unless the spin lock holds it up.
At(t, from) ==
    /\ irq => slock # NoTask
    /\ status[t] = "RUNNABLE" /\ pc[t] = from
Goto(t, to) == pc' = [pc EXCEPT ![t] = to]

-----------------------------------------------------------------------------
(* The drive, as the driver uses it: it takes no register and no command    *)
(* while it works at one; it raises an interrupt for each sector, when it   *)
(* has one to be read and when it has one written; and the next sector of a *)
(* run is ready at once.                                                    *)

SetReg(field, value) ==
    /\ reg' = IF drive.phase = "idle" THEN [reg EXCEPT ![field] = value] ELSE reg
    /\ UNCHANGED <<present, drive, irq>>

Accept(op, n) ==
    /\ drive' = IF drive.phase = "idle" /\ reg.dev \in present
                THEN [phase |-> "busy", op |-> op, dev |-> reg.dev, at |-> reg.lba, left |-> n]
                ELSE drive
    /\ UNCHANGED <<present, reg, irq>>

\* BSY goes and DRQ comes.
Ready ==
    /\ drive.phase = "busy"
    /\ drive' = [drive EXCEPT !.phase = "drq"]
    /\ irq' = (irq \/ drive.op # "write")
    /\ UNCHANGED <<owner, sema, status, pc, call, present, reg>>

\* A sector passes the data register.
Move ==
    /\ drive' = IF drive.left > 1
                THEN [drive EXCEPT !.at = @ + 1, !.left = @ - 1]
                ELSE Idle
    /\ irq' = (irq \/ drive.op = "write" \/ drive.left > 1)
    /\ UNCHANGED <<present, reg>>

-----------------------------------------------------------------------------
(* sema_down and sema_up *)

WakeFirst ==
    IF waiters = <<>> THEN UNCHANGED <<waiters, status>>
    ELSE /\ waiters' = Tail(waiters)
         /\ status' = [status EXCEPT ![Head(waiters)] = IF @ = "BLOCKED" THEN "RUNNABLE" ELSE @]

SpinLock(t) ==
    /\ At(t, "down") /\ slock = NoTask
    /\ slock' = t
    /\ Goto(t, "down_in")
    /\ UNCHANGED <<owner, count, waiters, status, call, hardware>>

\* Where ide_read, ide_write and ide_get_identify go on.
AfterIrq(t) == CASE req[t].op = "read" -> "poll"
                 [] req[t].op = "write" -> "end"
                 [] req[t].op = "identify" -> "data"

\* The count is tested and the spin lock dropped.  Mutant: the test is off by one.
DownOffByOne(t) ==
    /\ At(t, "down_in")
    /\ slock' = NoTask
    /\ count' = count - 1 /\ Goto(t, AfterIrq(t))
    /\ UNCHANGED <<owner, waiters, status, call, hardware>>
Down(t) ==
    /\ At(t, "down_in")
    /\ slock' = NoTask
    /\ IF count > 0
       THEN count' = count - 1 /\ Goto(t, AfterIrq(t)) /\ UNCHANGED waiters
       ELSE waiters' = ListAppend(waiters, t) /\ Goto(t, "down_sleep") /\ UNCHANGED count
    /\ UNCHANGED <<owner, status, call, hardware>>

Sleep(t) ==
    /\ At(t, "down_sleep")
    /\ status' = [status EXCEPT ![t] = "BLOCKED"]
    /\ Goto(t, "down")
    /\ UNCHANGED <<owner, sema, call, hardware>>

\* Mutant: the handler wakes without counting.
IrqWakesOnly ==
    /\ irq /\ slock = NoTask
    /\ WakeFirst
    /\ irq' = FALSE
    /\ UNCHANGED <<owner, count, slock, pc, call, present, reg, drive>>

\* ide_handler, on top of whatever task runs.  When it interrupts one while another
\* has the spin lock, it yields to it (lock.c:54): the same as to come later.
Irq ==
    /\ irq /\ slock = NoTask
    /\ count' = count + 1
    /\ WakeFirst
    /\ irq' = FALSE
    /\ UNCHANGED <<owner, slock, pc, call, present, reg, drive>>

\* But the task it interrupts may have the spin lock itself.
IrqSpins ==
    /\ irq /\ slock # NoTask /\ status[slock] = "RUNNABLE"
    /\ status' = [status EXCEPT ![slock] = "SPINS"]
    /\ irq' = FALSE
    /\ UNCHANGED <<owner, sema, pc, call, present, reg, drive>>

-----------------------------------------------------------------------------
(* ide.c *)

\* ide_ch_init, before anybody else runs.
Identify ==
    /\ boot \in Dev /\ At(Main, "out")
    /\ boot' = boot + 1
    /\ req' = [req EXCEPT ![Main] = Call("identify", boot, 0, 1)]
    /\ Goto(Main, "drive")
    /\ UNCHANGED <<owner, sema, status, done, valid, hardware>>

\* ide_read and ide_write.
Begin(t) ==
    /\ boot = 3 \/ (boot = 2 /\ pc[Main] = "out")
    /\ boot' = 3
    /\ At(t, "out") /\ count <= MaxTokens
    /\ \E op \in {"read", "write"}, dev \in valid, lba \in 0..LastLba, n \in 1..MaxSectors :
          req' = [req EXCEPT ![t] = Call(op, dev, lba, n)]
    /\ Goto(t, "lock")
    /\ UNCHANGED <<owner, sema, status, done, valid, hardware>>

\* Mutant: the channel is not locked.
LockNothing(t) ==
    /\ At(t, "lock")
    /\ owner' = t
    /\ Goto(t, "drive")
    /\ UNCHANGED <<sema, status, call, hardware>>
Lock(t) ==
    /\ At(t, "lock") /\ owner = NoTask
    /\ owner' = t
    /\ Goto(t, "drive")
    /\ UNCHANGED <<sema, status, call, hardware>>

SetDrive(t) ==
    /\ At(t, "drive")
    /\ SetReg("dev", req[t].dev)
    /\ Goto(t, IF req[t].op = "identify" THEN "cmd" ELSE "lba")
    /\ UNCHANGED <<owner, sema, status, call>>

\* Each run of a call starts at the lba of the call.
SetLba(t) ==
    /\ At(t, "lba")
    /\ SetReg("lba", req[t].lba)
    /\ Goto(t, "cmd")
    /\ UNCHANGED <<owner, sema, status, call>>

SetCmd(t) ==
    /\ At(t, "cmd")
    /\ Accept(req[t].op, Each(t))
    /\ Goto(t, IF req[t].op = "read" THEN "down" ELSE "poll")
    /\ UNCHANGED <<owner, sema, status, call>>

\* Mutant: the status is not looked at.
PollNothing(t) ==
    /\ At(t, "poll")
    /\ Goto(t, IF req[t].op = "identify" THEN "down" ELSE "data")
    /\ UNCHANGED <<owner, sema, status, call, hardware>>

\* msleep(10) until the status is good.  Of a drive that is not there it is 0.
Poll(t) ==
    LET identify == req[t].op = "identify"
    IN  /\ At(t, "poll")
        /\ drive.phase # "busy"
        /\ ~identify => drive.phase = "drq"
        /\ Goto(t, IF ~identify THEN "data" ELSE IF drive.phase = "drq" THEN "down" ELSE "out")
        /\ UNCHANGED <<owner, sema, status, call, hardware>>

Data(t) ==
    LET last == done[t] + 1 = Each(t)
    IN  /\ At(t, "data")
        /\ Move
        /\ done' = [done EXCEPT ![t] = IF last THEN 0 ELSE @ + 1]
        /\ Goto(t, IF ~last THEN "data" ELSE IF req[t].op = "write" THEN "down" ELSE "end")
        /\ UNCHANGED <<owner, sema, status, req, boot, valid>>

\* A run ends: the next one, or the end of the call.  A drive that has answered is
\* valid, and ide_get_partition reads its first sector.
EndRun(t) ==
    LET left == req[t].left - Each(t)
    IN  /\ At(t, "end")
        /\ IF req[t].op = "identify"
           THEN /\ valid' = valid \cup {req[t].dev}
                /\ req' = [req EXCEPT ![t] = Call("read", req[t].dev, 0, 1)]
                /\ Goto(t, "lock")
           ELSE /\ req' = [req EXCEPT ![t].left = left]
                /\ Goto(t, IF left > 0 THEN "lba" ELSE "unlock")
                /\ UNCHANGED valid
        /\ UNCHANGED <<owner, sema, status, done, boot, hardware>>

Unlock(t) ==
    /\ At(t, "unlock")
    /\ owner' = NoTask
    /\ req' = [req EXCEPT ![t] = Call("read", 0, 0, 0)]
    /\ Goto(t, "out")
    /\ UNCHANGED <<sema, status, done, boot, valid, hardware>>

Step(t) ==
    \/ Lock(t) \/ SetDrive(t) \/ SetLba(t) \/ SetCmd(t) \/ Poll(t) \/ Data(t)
    \/ SpinLock(t) \/ Down(t) \/ Sleep(t) \/ EndRun(t) \/ Unlock(t)

Next == \/ Ready \/ Irq \/ IrqSpins \/ Identify
        \/ \E t \in Task : Begin(t) \/ Step(t)

Spec == Init /\ [][Next]_vars

\* The drive answers, the controller delivers, a task that can run gets the CPU
\* (NoStarvation of Sched), and the mutex is given to who waits for it.
FairSpec ==
    /\ Spec
    /\ WF_vars(Ready) /\ WF_vars(Irq)
    /\ \A t \in Task : SF_vars(Step(t))

-----------------------------------------------------------------------------
TypeOK ==
    /\ owner \in Task \cup {NoTask} /\ slock \in Task \cup {NoTask}
    /\ count \in Nat /\ waiters \in Seq(Task)
    /\ status \in [Task -> {"RUNNABLE", "BLOCKED", "SPINS"}]
    /\ pc \in [Task -> PC]
    /\ \A t \in Task : req[t].op \in Op /\ req[t].dev \in Dev
    /\ boot \in 0..3 /\ valid \subseteq Dev
    /\ present \subseteq Dev /\ drive.phase \in {"idle", "busy", "drq"} /\ irq \in BOOLEAN

InDown(t) == pc[t] \in {"down", "down_in", "down_sleep"}

\* The drive works at the run of t, at the sector t is at.
WorksFor(t) ==
    /\ drive.phase # "idle"
    /\ drive.op = req[t].op /\ drive.dev = req[t].dev
    /\ drive.left = Each(t) - done[t]
    /\ req[t].op # "identify" => drive.at = req[t].lba + done[t]

\* The command that was given is being worked at, or its caller would poll for ever:
\* no task sets a register or gives a command while the drive works at another's
\* (ide.c:336-342, 390-400).
CommandTaken ==
    \A t \in Task :
        pc[t] = "poll" \/ (InDown(t) /\ req[t].op = "read") =>
            \/ WorksFor(t)
            \/ req[t].op = "identify" /\ req[t].dev \notin present /\ drive.phase = "idle"

\* What passes the data register is the sector the caller means, although the
\* semaphore has tokens left from the interrupts of earlier runs, which let
\* sema_down return before the drive is ready (ide.c:342-352, 396-403).
TransferRight ==
    \A t \in Task : pc[t] = "data" => WorksFor(t) /\ drive.phase = "drq"

\* Who waits for an interrupt has one to come, or latched, or counted: neither the
\* order of data and wait nor an interrupt that came early leaves a waiter without
\* (ide.c:183, 342, 406).
AnswerOutstanding ==
    \A t \in Task : InDown(t) =>
        \/ count > 0 \/ irq \/ status[t] = "SPINS"
        \/ drive.phase = "busy" /\ drive.op # "write"

-----------------------------------------------------------------------------
\* "block wait for irq" (ide.c:341): the interrupt ends the wait.
IrqEndsWait == \A t \in Task : InDown(t) ~> ~InDown(t)
=============================================================================
