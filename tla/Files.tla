--------------------------------- MODULE Files ---------------------------------
(***************************************************************************)
(* The system calls of file.c and dir.c on one partition: the tree of      *)
(* names, the open counts of the inodes, fd_table, and each process's      *)
(* open_fd with its pipes and what fork and exit do to it.  A call is one  *)
(* step: the shell, which issues them, waits for each command's end        *)
(* (shell.c:185), so that the calls of different processes do not overlap. *)
(***************************************************************************)
EXTENDS Partition, FiniteSets, SequencesExt

CONSTANTS Proc, Shell,  \* the processes; the shell is the one that never exits
          Name,         \* names of entries other than "." and ".."
          LastSlot,     \* fd_table has slots 3..LastSlot (MAX_FILE_OPEN - 1)
          LastFd        \* a process has descriptors 0..LastFd (MAX_FD_PER_TASK - 1)

ASSUME FilesAssumption ==
    /\ Shell \in Proc
    /\ Inodes \in Nat \ {0} /\ MaxOpen \in Nat
    /\ LastSlot \in Nat /\ LastSlot >= 3 /\ LastFd \in Nat /\ LastFd >= 3

None == -1
Std == 0..1               \* stdin and stdout
FileSlot == 3..LastSlot
Fd == 3..LastFd
Unused == [use |-> "none", ino |-> None, pos |-> 0]
NoFds == [fd \in Fd |-> None]
Console == [fd \in Std |-> fd]

VARIABLES kind,   \* of each inode: "free" in inode_btmp, "file" or "dir"
          dir,    \* the entries of each directory behind "." and ".."
          up,     \* the inode in the entry ".."
          opens,  \* open_cnt in the inode cache, 0 for one that is not in it
          fd_table, \* pos is the open count of a pipe
          std,    \* open_fd[0..1] of each process: a console or a slot
          fds,    \* open_fd[3..]
          live    \* the processes

tree == <<kind, dir, up>>
filesVars == <<tree, opens, fd_table, std, fds, live>>

\* fs_format, file_init and kthread_create.
FilesInit ==
    /\ kind = [i \in Ino |-> IF i = Root THEN "dir" ELSE "free"]
    /\ dir = [i \in Ino |-> << >>]
    /\ up = [i \in Ino |-> Root]
    /\ opens = [i \in Ino |-> 0]
    /\ fd_table = [s \in FileSlot |-> Unused]
    /\ std = [p \in Proc |-> Console]
    /\ fds = [p \in Proc |-> NoFds]
    /\ live = {Shell}

Dirs == {i \in Ino : kind[i] = "dir"}
Lowest(S) == CHOOSE x \in S : \A y \in S : x <= y

\* dir_search_name: the inode of the first entry with that name and type.
Match(d, name, type) ==
    {k \in DOMAIN dir[d] : dir[d][k].name = name /\ dir[d][k].type = type}
Search(d, name, type) ==
    IF Match(d, name, type) = {} THEN None
    ELSE dir[d][Lowest(Match(d, name, type))].ino

\* sys_getcwd: dir_get_parent n times, and dir_get_name at each of them.
ParentOf(i) == IF i = Root THEN Root ELSE up[i]
Climb(i) ==
    LET at[n \in 0..Inodes] == IF n = 0 THEN i ELSE ParentOf(at[n - 1])
    IN  at
Named(d, i) == \E k \in DOMAIN dir[d] : dir[d][k].ino = i

\* inode_acquire and dir_install.  A partition without a free inode is left out:
\* the callers do not look at the NULL they get.
Install(d, i, name, type) ==
    /\ {j \in Ino : kind[j] = "free"} # {}
    /\ i = Lowest({j \in Ino : kind[j] = "free"})
    /\ kind' = [kind EXCEPT ![i] = type]
    /\ up' = [up EXCEPT ![i] = IF type = "dir" THEN d ELSE Root]
    /\ dir' = [dir EXCEPT ![d] = Append(@, [name |-> name, ino |-> i, type |-> type])]

\* inode_release and dir_uninstall: the last entry takes the place of the one
\* that goes.  Mutant: it stays at its own place as well.
At(d, i) == Lowest({k \in DOMAIN dir[d] : dir[d][k].ino = i})
UninstallTwice(d, i) ==
    /\ kind' = [kind EXCEPT ![i] = "free"]
    /\ up' = [up EXCEPT ![i] = Root]
    /\ dir' = [dir EXCEPT ![d] = [@ EXCEPT ![At(d, i)] = Last(dir[d])]]
    /\ opens' = [opens EXCEPT ![i] = 0]
Uninstall(d, i) ==
    /\ kind' = [kind EXCEPT ![i] = "free"]
    /\ up' = [up EXCEPT ![i] = Root]
    /\ dir' = [dir EXCEPT ![d] = Front([dir[d] EXCEPT ![At(d, i)] = Last(dir[d])])]
    /\ opens' = [opens EXCEPT ![i] = 0]

-----------------------------------------------------------------------------
FreeSlots == {s \in FileSlot : fd_table[s].use = "none"}
FreeFds(p) == {fd \in Fd : fds[p][fd] = None}

\* fd_acquire and task_install.  A full table leaves the inode open, and a full
\* process leaves the slot taken.
FdAcquire(p, i) ==
    /\ opens' = [opens EXCEPT ![i] = @ + 1]
    /\ IF FreeSlots = {} THEN UNCHANGED <<fd_table, fds>>
       ELSE /\ fd_table' = [fd_table EXCEPT ![Lowest(FreeSlots)] =
                            [use |-> "file", ino |-> i, pos |-> 0]]
            /\ IF FreeFds(p) = {} THEN UNCHANGED fds
               ELSE fds' = [fds EXCEPT ![p][Lowest(FreeFds(p))] = Lowest(FreeSlots)]

SysOpen(p, d, name) ==
    LET i == Search(d, name, "file")
    IN  /\ i # None /\ opens[i] < MaxOpen
        /\ FdAcquire(p, i)
        /\ UNCHANGED <<tree, std, live>>

\* sys_open with O_CREATE.
SysCreate(p, d, name) ==
    /\ Search(d, name, "file") = None
    /\ \E i \in Ino : Install(d, i, name, "file") /\ FdAcquire(p, i)
    /\ UNCHANGED <<std, live>>

SysPipe(p) ==
    LET s == Lowest(FreeSlots)
        one == Lowest(FreeFds(p))
        two == Lowest(FreeFds(p) \ {one})
    IN  /\ FreeSlots # {}
        /\ fd_table' = [fd_table EXCEPT ![s] = [use |-> "pipe", ino |-> None, pos |-> 2]]
        /\ fds' = [fds EXCEPT ![p] = [fd \in Fd |->
               IF \/ FreeFds(p) # {} /\ fd = one
                  \/ Cardinality(FreeFds(p)) > 1 /\ fd = two
               THEN s ELSE @[fd]]]
        /\ UNCHANGED <<tree, opens, std, live>>

\* What sys_close of some descriptors does to the slots and the inodes: cnt is how
\* many of them have each slot.
CloseSlots(cnt) ==
    fd_table' = [s \in FileSlot |->
        IF cnt[s] = 0 THEN fd_table[s]
        ELSE IF fd_table[s].use = "pipe" /\ fd_table[s].pos > cnt[s]
             THEN [fd_table[s] EXCEPT !.pos = @ - cnt[s]]
             ELSE Unused]

CloseInodes(cnt) ==
    opens' = [i \in Ino |->
        opens[i] - Cardinality({s \in FileSlot : cnt[s] > 0 /\ fd_table[s].ino = i})]

\* The shell takes its redirections back before it closes a pipe (shell.c:227-239).
SysClose(p, fd) ==
    LET cnt == [s \in FileSlot |-> IF s = fds[p][fd] THEN 1 ELSE 0]
    IN  /\ fds[p][fd] # None
        /\ \A f \in Std : std[p][f] # fds[p][fd]
        /\ CloseSlots(cnt) /\ CloseInodes(cnt)
        /\ fds' = [fds EXCEPT ![p][fd] = None]
        /\ UNCHANGED <<tree, std, live>>

\* Redirection, as the shell uses it: oldfd is stdin or stdout, and newfd is a
\* descriptor of its own, or oldfd to undo it.
SysDup2(p, oldfd, newfd) ==
    /\ newfd \in Fd => fds[p][newfd] # None
    /\ std' = [std EXCEPT ![p][oldfd] = IF newfd \in Fd THEN fds[p][newfd] ELSE newfd]
    /\ UNCHANGED <<tree, opens, fd_table, fds, live>>

\* sys_unlink compares with = (file.c:272): any slot in use, and it gives up.
\* Mutant: no slot makes it give up.
SysUnlinkOpened(p, d, name) ==
    LET i == Search(d, name, "file")
    IN  /\ i # None
        /\ Uninstall(d, i)
        /\ UNCHANGED <<fd_table, std, fds, live>>
SysUnlink(p, d, name) ==
    LET i == Search(d, name, "file")
    IN  /\ i # None /\ FreeSlots = FileSlot
        /\ Uninstall(d, i)
        /\ UNCHANGED <<fd_table, std, fds, live>>

\* sys_mkdir does not look for the name.
SysMkdir(p, d, name) ==
    /\ \E i \in Ino : Install(d, i, name, "dir")
    /\ UNCHANGED <<opens, fd_table, std, fds, live>>

SysRmdir(p, d, name) ==
    LET i == Search(d, name, "dir")
    IN  /\ i # None /\ dir[i] = << >>
        /\ Uninstall(d, i)
        /\ UNCHANGED <<fd_table, std, fds, live>>

-----------------------------------------------------------------------------
\* process_copy: the child has the descriptors and the consoles.  The shell forks
\* without an open file: sys_close gives up a slot for all who share it.
FdCount(p, s) == Cardinality({fd \in Fd : fds[p][fd] = s})
\* Mutant: the child's descriptors of a pipe are not counted.
ForkUncounted(p, c) ==
    /\ c \notin live /\ \A s \in FileSlot : FdCount(p, s) > 0 => fd_table[s].use = "pipe"
    /\ live' = live \cup {c}
    /\ fds' = [fds EXCEPT ![c] = fds[p]]
    /\ UNCHANGED <<tree, opens, fd_table, std>>
Fork(p, c) ==
    /\ c \notin live /\ \A s \in FileSlot : FdCount(p, s) > 0 => fd_table[s].use = "pipe"
    /\ live' = live \cup {c}
    /\ fds' = [fds EXCEPT ![c] = fds[p]]
    /\ fd_table' = [s \in FileSlot |-> [fd_table[s] EXCEPT !.pos = @ + FdCount(p, s)]]
    /\ UNCHANGED <<tree, opens, std>>

\* sys_exit: sys_close of all descriptors from 3 on.
Exit(p) ==
    LET cnt == [s \in FileSlot |-> FdCount(p, s)]
    IN  /\ p # Shell
        /\ CloseSlots(cnt) /\ CloseInodes(cnt)
        /\ fds' = [fds EXCEPT ![p] = NoFds]
        /\ std' = [std EXCEPT ![p] = Console]
        /\ live' = live \ {p}
        /\ UNCHANGED tree

FilesNext ==
    \E p \in live :
        \/ \E d \in Dirs, name \in Name :
              \/ SysOpen(p, d, name) \/ SysCreate(p, d, name) \/ SysUnlink(p, d, name)
              \/ SysMkdir(p, d, name) \/ SysRmdir(p, d, name)
        \/ SysPipe(p)
        \/ \E fd \in Fd : SysClose(p, fd)
        \/ \E oldfd \in Std, newfd \in Fd \cup Std :
              (newfd \in Std => newfd = oldfd) /\ SysDup2(p, oldfd, newfd)
        \/ \E c \in Proc : Fork(p, c)
        \/ Exit(p)

FilesSpec == FilesInit /\ [][FilesNext]_filesVars

-----------------------------------------------------------------------------
\* The names are a tree: every inode that is taken, but the root, stands in exactly
\* one entry of one directory, with its type and with the right "..", and no entry
\* names an inode that is free; so sys_getcwd gets from every directory to the root
\* and finds a name at each step (dir.c:302-337, 513-522).
Entries == {e \in Ino \X (1..Inodes) : e[2] \in DOMAIN dir[e[1]]}
TreeExact ==
    /\ \A e \in Entries :
          LET entry == dir[e[1]][e[2]]
          IN  /\ kind[e[1]] = "dir" /\ kind[entry.ino] = entry.type
              /\ entry.type = "dir" => up[entry.ino] = e[1]
    /\ \A i \in Ino \ {Root} : kind[i] # "free" =>
          Cardinality({e \in Entries : dir[e[1]][e[2]].ino = i}) = 1
    /\ \A i \in Dirs : /\ Climb(i)[Inodes] = Root
                      /\ \A n \in 1..Inodes : Climb(i)[n - 1] # Root =>
                            Named(Climb(i)[n], Climb(i)[n - 1])

\* A descriptor, redirections included, has a slot in use: nobody's file or pipe
\* is closed by another process or by another descriptor; and an inode that a slot
\* has is a file that has not been unlinked and stays in memory
\* (sys_close, sys_unlink, process_copy).
DescriptorsSound ==
    /\ \A p \in live : \A s \in {fds[p][fd] : fd \in Fd} \cup {std[p][f] : f \in Std} :
          s \in FileSlot => fd_table[s].use # "none"
    /\ \A i \in Ino : Cardinality({s \in FileSlot : fd_table[s].ino = i}) <= opens[i]
    /\ \A s \in FileSlot : fd_table[s].use = "file" => kind[fd_table[s].ino] = "file"

\* The open count of a pipe covers the descriptors of all processes that have it
\* (file.c:429-430, 232-235, process.c:471-472).
PipeCounted ==
    \A s \in FileSlot : fd_table[s].use = "pipe" =>
        Cardinality({x \in live \X Fd : fds[x[1]][x[2]] = s}) \in 0..fd_table[s].pos
=============================================================================
