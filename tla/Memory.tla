-------------------------------- MODULE Memory --------------------------------
(***************************************************************************)
(* The page allocator of memory.c: page_malloc and page_free, called by    *)
(* processes that run with interrupts enabled, and the release of an       *)
(* address space by sys_exit.  What one mutex covers is one step.  That    *)
(* palloc and pfree are single steps holds for u_p_pool, and for k_p_pool  *)
(* as long as nobody is inside page_table_add or pgdir_delete, which use   *)
(* it without its mutex.                                                   *)
(***************************************************************************)
EXTENDS Bitmap

CONSTANTS Proc,      \* the processes
          Kernel,    \* the address space they share
          NULL,
          KFrames, UFrames, \* length in bytes of the bitmaps of k_p_pool, u_p_pool
          VPages,    \* length in bytes of the bitmap of a v_pool
          MaxCnt,    \* bound: the pages of one page_malloc
          MaxRuns,   \* bound: the runs a process owns at a time
          Fixed      \* the runs that are asked for at a given address

ASSUME MemoryAssumption ==
    /\ Kernel \notin Proc /\ NULL \notin Proc
    /\ KFrames \in Nat \ {0} /\ UFrames \in Nat \ {0} /\ VPages \in Nat \ {0}
    /\ MaxCnt \in Nat \ {0} /\ MaxRuns \in Nat
    /\ Fixed \subseteq Nat \X (Nat \ {0})

Space == Proc \cup {Kernel}
Page == BitIndex(VPages)
Pool == {"k", "u"}
FrameNo(pool) == BitIndex(IF pool = "k" THEN KFrames ELSE UFrames)
NoFrame == -1
AnyFrame == (FrameNo("k") \cup FrameNo("u")) \cup {NoFrame}
PoolOf(s) == IF s = Kernel THEN "k" ELSE "u"

VARIABLES vbits,    \* v_pool->vaddr_bitmap of each space
          pbits,    \* p_pool->paddr_bitmap of each pool
          pte,      \* the frame in each page table entry with PG_P_1
          pde,      \* the frame (of pool k) that is a process's page table
          pc, job,  \* each process's call: its stage and its arguments
          frame,    \* paddr in page_acquire
          owned,    \* the runs page_malloc has returned to each process
          exiting   \* the processes in page_delete and what follows it

tables == <<pte, pde>>
vars == <<vbits, pbits, tables, pc, job, frame, owned, exiting>>

PC == {"idle", "frame", "map", "unframe", "unmap", "unvaddr"}

\* space, first page, pages in all and pages done.
NoJob == [space |-> NULL, first |-> 0, cnt |-> 0, n |-> 0]
Run(s, first, cnt) == [space |-> s, first |-> first, cnt |-> cnt, n |-> 0]
PagesOf(r) == r.first..(r.first + r.cnt - 1)
PageOf(t) == job[t].first + job[t].n
PoolFor(t) == PoolOf(job[t].space)

Goto(t, from, to) == pc[t] = from /\ pc' = [pc EXCEPT ![t] = to]
Advance(t) == job' = [job EXCEPT ![t].n = @ + 1]
LastPage(t) == job[t].n + 1 = job[t].cnt

\* pool_init and mem_init; the page tables of the kernel are there from boot on.
Init ==
    /\ vbits = [s \in Space |-> {}]
    /\ pbits = [pool \in Pool |-> {}]
    /\ pte = [s \in Space |-> [p \in Page |-> NoFrame]]
    /\ pde = [t \in Proc |-> NoFrame]
    /\ pc = [t \in Proc |-> "idle"]
    /\ job = [t \in Proc |-> NoJob]
    /\ frame = [t \in Proc |-> NoFrame]
    /\ owned = [t \in Proc |-> {}]
    /\ exiting = {}

-----------------------------------------------------------------------------
(* page_malloc *)

MayMalloc(t) == pc[t] = "idle" /\ t \notin exiting /\ Cardinality(owned[t]) < MaxRuns

\* Mutant: a fixed address is not compared with the length of the bitmap.
InBitmapAlways(at, cnt) == TRUE

\* vaddr_acquire at a given address.
Fits(s, at, cnt) == at..(at + cnt - 1) \cap vbits[s] = {}
InBitmap(at, cnt) == ByteOf(at + cnt - 1) < VPages

\* On a page that is taken page_malloc returns NULL, and the bits it has set
\* before that page stay set.
MallocFixed(t, at, cnt) ==
    /\ MayMalloc(t)
    /\ InBitmap(at, cnt)
    /\ vbits' = [vbits EXCEPT ![t] =
                     @ \cup {p \in at..(at + cnt - 1) : Fits(t, at, p - at + 1)}]
    /\ IF Fits(t, at, cnt)
       THEN Goto(t, "idle", "frame") /\ job' = [job EXCEPT ![t] = Run(t, at, cnt)]
       ELSE UNCHANGED <<pc, job>>
    /\ UNCHANGED <<pbits, tables, frame, owned, exiting>>

\* vaddr_acquire of any run, under vp->mlock.
Malloc(t, s, cnt) ==
    LET at == BitmapAcquire(vbits[s], VPages, cnt)
    IN  /\ MayMalloc(t)
        /\ at # -1
        /\ Goto(t, "idle", "frame")
        /\ vbits' = [vbits EXCEPT ![s] = @ \cup at..(at + cnt - 1)]
        /\ job' = [job EXCEPT ![t] = Run(s, at, cnt)]
        /\ UNCHANGED <<pbits, tables, frame, owned, exiting>>

\* palloc, under pp->mlock.  Without a frame page_malloc returns NULL and keeps
\* what it has taken so far.
TakeFrame(t) ==
    LET pool == PoolFor(t)
        no == BitmapAcquire(pbits[pool], IF pool = "k" THEN KFrames ELSE UFrames, 1)
    IN  /\ pc[t] = "frame"
        /\ IF no = -1
           THEN /\ Goto(t, "frame", "idle")
                /\ job' = [job EXCEPT ![t] = NoJob]
                /\ UNCHANGED <<pbits, frame>>
           ELSE /\ Goto(t, "frame", "map")
                /\ pbits' = [pbits EXCEPT ![pool] = @ \cup {no}]
                /\ frame' = [frame EXCEPT ![t] = no]
                /\ UNCHANGED job
        /\ UNCHANGED <<vbits, tables, owned, exiting>>

\* page_table_add without a page table: palloc(&k_p_pool), under mlock_pgtable.
\* A pool that is empty here is not modelled: the code would go on with physical
\* page 0 for a page table.
AddTable(t) ==
    LET no == BitmapAcquire(pbits["k"], KFrames, 1)
    IN  /\ pc[t] = "map" /\ job[t].space = t /\ pde[t] = NoFrame
        /\ no # -1
        /\ pbits' = [pbits EXCEPT !["k"] = @ \cup {no}]
        /\ pde' = [pde EXCEPT ![t] = no]
        /\ UNCHANGED <<vbits, pte, pc, job, frame, owned, exiting>>

\* page_table_add: the entry; then the next page or the return of page_malloc.
Map(t) ==
    /\ job[t].space = Kernel \/ pde[t] # NoFrame
    /\ Goto(t, "map", IF LastPage(t) THEN "idle" ELSE "frame")
    /\ pte' = [pte EXCEPT ![job[t].space][PageOf(t)] = frame[t]]
    /\ frame' = [frame EXCEPT ![t] = NoFrame]
    /\ IF LastPage(t)
       THEN /\ owned' = [owned EXCEPT ![t] = @ \cup {[job[t] EXCEPT !.n = 0]}]
            /\ job' = [job EXCEPT ![t] = NoJob]
       ELSE Advance(t) /\ UNCHANGED owned
    /\ UNCHANGED <<vbits, pbits, pde, exiting>>

-----------------------------------------------------------------------------
(* page_free *)

Free(t, r) ==
    /\ r \in owned[t]
    /\ Goto(t, "idle", "unframe")
    /\ owned' = [owned EXCEPT ![t] = @ \ {r}]
    /\ job' = [job EXCEPT ![t] = r]
    /\ UNCHANGED <<vbits, pbits, tables, frame, exiting>>

\* addr_v2p.  It does not look at PG_P_1, so of a page that is not mapped it
\* returns an address that is zero or out of date: no frame.
FrameToFree(t) == pte[job[t].space][PageOf(t)]

\* Mutant: the virtual page is unmapped, and its frame never given back.
FreeNoFrame(t) ==
    /\ Goto(t, "unframe", "unmap")
    /\ UNCHANGED <<vbits, pbits, tables, job, frame, owned, exiting>>

\* addr_v2p and pfree, under pp->mlock.
FreeFrame(t) ==
    /\ Goto(t, "unframe", "unmap")
    /\ FrameToFree(t) # NoFrame
    /\ pbits' = [pbits EXCEPT ![PoolFor(t)] = @ \ {FrameToFree(t)}]
    /\ UNCHANGED <<vbits, tables, job, frame, owned, exiting>>

\* page_table_remove, under mlock_pgtable.
Unmap(t) ==
    /\ Goto(t, "unmap", IF LastPage(t) THEN "unvaddr" ELSE "unframe")
    /\ pte' = [pte EXCEPT ![job[t].space][PageOf(t)] = NoFrame]
    /\ Advance(t)
    /\ UNCHANGED <<vbits, pbits, pde, frame, owned, exiting>>

\* vaddr_release, under vp->mlock.  Mutant: one page too many.
ReleaseOneMore(t) ==
    /\ Goto(t, "unvaddr", "idle")
    /\ vbits' = [vbits EXCEPT ![job[t].space] =
                     @ \ (PagesOf(job[t]) \cup {job[t].first + job[t].cnt})]
    /\ job' = [job EXCEPT ![t] = NoJob]
    /\ UNCHANGED <<pbits, tables, frame, owned, exiting>>
ReleaseVaddr(t) ==
    /\ Goto(t, "unvaddr", "idle")
    /\ vbits' = [vbits EXCEPT ![job[t].space] = @ \ PagesOf(job[t])]
    /\ job' = [job EXCEPT ![t] = NoJob]
    /\ UNCHANGED <<pbits, tables, frame, owned, exiting>>

-----------------------------------------------------------------------------
(* sys_exit: page_delete, pgdir_delete, vaddr_delete *)

Exit(t) ==
    /\ pc[t] = "idle" /\ t \notin exiting
    /\ exiting' = exiting \cup {t}
    /\ owned' = [owned EXCEPT ![t] = {r \in @ : r.space = Kernel}]
    /\ UNCHANGED <<vbits, pbits, tables, pc, job, frame>>

\* page_delete: page_free of the next page whose bit is set.
DeletePage(t) ==
    /\ t \in exiting /\ vbits[t] # {}
    /\ Goto(t, "idle", "unframe")
    /\ job' = [job EXCEPT ![t] = Run(t, Min(vbits[t]), 1)]
    /\ UNCHANGED <<vbits, pbits, tables, frame, owned, exiting>>

\* pgdir_delete: the directory entry, then pfree(&k_p_pool).
DeleteTable(t) ==
    /\ t \in exiting /\ pc[t] = "idle" /\ vbits[t] = {}
    /\ pde[t] # NoFrame
    /\ pbits' = [pbits EXCEPT !["k"] = @ \ {pde[t]}]
    /\ pde' = [pde EXCEPT ![t] = NoFrame]
    /\ UNCHANGED <<vbits, pte, pc, job, frame, owned, exiting>>

\* vaddr_delete frees the kernel pages of the process (Free); then a new process
\* can have its place.
Gone(t) ==
    /\ t \in exiting /\ pc[t] = "idle"
    /\ vbits[t] = {} /\ pde[t] = NoFrame /\ owned[t] = {}
    /\ exiting' = exiting \ {t}
    /\ UNCHANGED <<vbits, pbits, tables, pc, job, frame, owned>>

-----------------------------------------------------------------------------
Next ==
    \E t \in Proc :
        \/ \E cnt \in 1..MaxCnt, s \in {t, Kernel} : Malloc(t, s, cnt)
        \/ \E r \in Fixed : MallocFixed(t, r[1], r[2])
        \/ TakeFrame(t) \/ AddTable(t) \/ Map(t)
        \/ \E r \in owned[t] : Free(t, r)
        \/ FreeFrame(t) \/ Unmap(t) \/ ReleaseVaddr(t)
        \/ Exit(t) \/ DeletePage(t) \/ DeleteTable(t) \/ Gone(t)

Spec == Init /\ [][Next]_vars

-----------------------------------------------------------------------------
TypeOK ==
    /\ vbits \in [Space -> SUBSET Page]
    /\ pbits["k"] \subseteq FrameNo("k") /\ pbits["u"] \subseteq FrameNo("u")
    /\ pte \in [Space -> [Page -> AnyFrame]]
    /\ pde \in [Proc -> AnyFrame]
    /\ pc \in [Proc -> PC]
    /\ frame \in [Proc -> AnyFrame]
    /\ exiting \in SUBSET Proc

\* The pages whose frame page_release has freed and not unmapped yet.
Stale(s) == {PageOf(t) : t \in {t \in Proc : pc[t] = "unmap" /\ job[t].space = s}}

\* Who has a frame of a pool: pages that are mapped to it, calls of page_malloc
\* that have just taken it, and the processes whose page table it is.
Holders(pool, no) ==
    {x \in Space \X Page : /\ PoolOf(x[1]) = pool
                           /\ x[2] \notin Stale(x[1]) /\ pte[x[1]][x[2]] = no}
        \cup {<<t, "paddr">> : t \in {t \in Proc : frame[t] = no /\ PoolFor(t) = pool}}
        \cup {<<t, "pde">> : t \in {t \in Proc : pde[t] = no /\ pool = "k"}}

\* A frame is taken in its bitmap exactly as long as one holder has it: none is
\* shared by two processes and none is lost, at every step of every call
\* (memory.c:225-245, 256-274, 642-651).
FramesExact ==
    \A pool \in Pool : \A no \in FrameNo(pool) :
        Cardinality(Holders(pool, no)) = IF no \in pbits[pool] THEN 1 ELSE 0

\* The pages page_malloc has returned stay mapped until their owner frees them,
\* and nobody else is given them (memory.c:217-219, 238-241).
OwnedPagesMapped ==
    \A t \in Proc : \A r \in owned[t] :
        /\ PagesOf(r) \subseteq vbits[r.space]
        /\ \A p \in PagesOf(r) : pte[r.space][p] # NoFrame
        /\ \A u \in Proc : \A q \in owned[u] :
              q.space = r.space /\ PagesOf(q) \cap PagesOf(r) # {} => <<t, r>> = <<u, q>>

\* The search by byte, by bit and for a run finds the lowest free run there is,
\* in every bitmap that page_malloc and page_free leave (bitmap.c:39-40).
AcquireIsFirstFit ==
    \A s \in Space, cnt \in 1..MaxCnt :
        BitmapAcquire(vbits[s], VPages, cnt) = FirstFit(vbits[s], VPages, cnt)
=============================================================================
