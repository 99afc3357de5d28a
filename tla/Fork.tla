--------------------------------- MODULE Fork ---------------------------------
(***************************************************************************)
(* How sys_fork copies the user space of a process (process.c: vaddr_copy).*)
(* Page by page it loads the child's page directory into cr3, allocates    *)
(* and fills a page there, and goes back, all with interrupts enabled,     *)
(* while schedule() loads cr3 with the directory of whom it switches to.   *)
(***************************************************************************)
EXTENDS Naturals, FiniteSets

CONSTANTS Proc, Shell,     \* the processes; the first of them
          NoProc,
          Page,            \* bound: the pages of a user space, as numbers
          Frame, NoFrame,  \* the frames of u_p_pool; as many as are asked for
          Data             \* what a page may hold

VARIABLES live,     \* the processes that have been run
          cur,      \* the process on the CPU
          cr3,      \* whose page directory the CPU uses
          pool,     \* task->u_v_pool: whose it is
          vbits,    \* the bits set in the v_pool of each process
          pte,      \* the page tables
          taken,    \* the bits set in u_p_pool
          content,  \* of each frame; a frame that is given out keeps it
          pc,
          child, todo, buf  \* of vaddr_copy: child, the pages to come, the buffer

space == <<vbits, pte, taken>>
copy == <<child, todo, buf>>
vars == <<live, cur, cr3, pool, space, content, pc, copy>>

PC == {"user", "copy", "enter", "alloc", "fill", "leave"}

Init ==
    /\ live = {Shell} /\ cur = Shell /\ cr3 = Shell
    /\ pool = [p \in Proc |-> p]
    /\ \E own \in SUBSET Page, f \in [Page -> Frame] :
          /\ Cardinality({f[v] : v \in Page}) = Cardinality(Page)
          /\ vbits = [p \in Proc |-> IF p = Shell THEN own ELSE {}]
          /\ pte = [p \in Proc |-> [v \in Page |->
                        IF p = Shell /\ v \in own THEN f[v] ELSE NoFrame]]
          /\ taken = {f[v] : v \in own}
    /\ content \in [Frame -> Data]
    /\ pc = [p \in Proc |-> "user"]
    /\ child = [p \in Proc |-> NoProc]
    /\ todo = [p \in Proc |-> {}]
    /\ buf \in [Proc -> Data]

Goto(p, from, to) == cur = p /\ pc[p] = from /\ pc' = [pc EXCEPT ![p] = to]

\* The page vaddr_copy is at.
Vaddr(p) == CHOOSE v \in todo[p] : \A w \in todo[p] : v <= w

\* The timer takes the CPU, and schedule() loads cr3.
Preempt(p) ==
    /\ p \in live /\ p # cur
    /\ cur' = p /\ cr3' = p
    /\ UNCHANGED <<live, pool, space, content, pc, copy>>

\* A process writes to its memory.
Write(p, v, d) ==
    /\ cur = p /\ pc[p] = "user" /\ v \in vbits[p] /\ pte[p][v] # NoFrame
    /\ content' = [content EXCEPT ![pte[p][v]] = d]
    /\ UNCHANGED <<live, cur, cr3, pool, space, pc, copy>>

\* kthread_create, vaddr_create and page_create; then vaddr_copy lends the parent
\* the v_pool of the child.
Fork(p, c) ==
    /\ c \in Proc \ live /\ \A q \in Proc : child[q] # c
    /\ Goto(p, "user", "copy")
    /\ child' = [child EXCEPT ![p] = c]
    /\ todo' = [todo EXCEPT ![p] = vbits[p]]
    /\ pool' = [pool EXCEPT ![p] = c]
    /\ UNCHANGED <<live, cur, cr3, space, content, buf>>

\* memcpy(buf, vaddr), where the parent's page directory is loaded.
CopyOut(p) ==
    /\ todo[p] # {} /\ Goto(p, "copy", "enter")
    /\ buf' = [buf EXCEPT ![p] = content[pte[cr3][Vaddr(p)]]]
    /\ UNCHANGED <<live, cur, cr3, pool, space, content, child, todo>>

\* "switch to child page table".
Enter(p) ==
    /\ Goto(p, "enter", "alloc")
    /\ cr3' = child[p]
    /\ UNCHANGED <<live, cur, pool, space, content, copy>>

\* page_malloc(PF_USER, vaddr, 1): the bit in the v_pool the task has, the entry in
\* the page table the CPU uses.
Alloc(p) ==
    /\ Goto(p, "alloc", "fill")
    /\ \E f \in Frame \ taken :
          /\ vbits' = [vbits EXCEPT ![pool[p]] = @ \cup {Vaddr(p)}]
          /\ pte' = [pte EXCEPT ![cr3][Vaddr(p)] = f]
          /\ taken' = taken \cup {f}
    /\ UNCHANGED <<live, cur, cr3, pool, content, copy>>

\* memcpy(vaddr, buf).
Fill(p) ==
    /\ Goto(p, "fill", "leave")
    /\ content' = [content EXCEPT ![pte[cr3][Vaddr(p)]] = buf[p]]
    /\ UNCHANGED <<live, cur, cr3, pool, space, copy>>

\* "switch to parent page table".
Leave(p) ==
    /\ Goto(p, "leave", "copy")
    /\ cr3' = p
    /\ todo' = [todo EXCEPT ![p] = @ \ {Vaddr(p)}]
    /\ UNCHANGED <<live, cur, pool, space, content, child, buf>>

\* The parent gets its v_pool back, and kthread_run.
Run(p) ==
    /\ todo[p] = {} /\ Goto(p, "copy", "user")
    /\ pool' = [pool EXCEPT ![p] = p]
    /\ live' = live \cup {child[p]}
    /\ child' = [child EXCEPT ![p] = NoProc]
    /\ UNCHANGED <<cur, cr3, space, content, todo, buf>>

Next ==
    \E p \in Proc :
        \/ Preempt(p)
        \/ \E v \in Page, d \in Data : Write(p, v, d)
        \/ \E c \in Proc : Fork(p, c)
        \/ CopyOut(p) \/ Enter(p) \/ Alloc(p) \/ Fill(p) \/ Leave(p) \/ Run(p)

Spec == Init /\ [][Next]_vars

-----------------------------------------------------------------------------
\* "copy the user space" (process.c:501): when the copy is done the child has the
\* pages of its parent, with what they hold.
ChildIsCopy ==
    \A p \in Proc :
        LET c == child[p]
        IN  pc[p] = "copy" /\ todo[p] = {} =>
                /\ vbits[c] = vbits[p]
                /\ \A v \in vbits[p] : /\ pte[c][v] # NoFrame
                                       /\ content[pte[c][v]] = content[pte[p][v]]
=============================================================================
