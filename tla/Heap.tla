---------------------------------- MODULE Heap ----------------------------------
(***************************************************************************)
(* The block allocator of memory.c on top of the page allocator: mem_alloc *)
(* and mem_free, as kmalloc and kfree call them for the whole kernel.  The *)
(* mutex of a size class covers all that happens to the class (Mutex shows *)
(* that it excludes), so a call is one step.  Addresses are numbers: that  *)
(* is what arena2block and block2arena compute with.                       *)
(***************************************************************************)
EXTENDS Integers, FiniteSets, FiniteSetsExt

CONSTANTS Task,
          PageSize,  \* PG_SIZE
          Header,    \* sizeof(struct arena)
          Class,     \* the block sizes (16 to 1024 in the code)
          Pages,     \* the pages of the heap
          Request,   \* the sizes that are asked for
          MaxHeld    \* bound: what a task holds at a time

ASSUME HeapAssumption ==
    /\ PageSize \in Nat /\ Header \in Nat \ {0}
    /\ Class # {} /\ IsFiniteSet(Class)
    /\ \A c \in Class : c \in Nat \ {0} /\ Header + c <= PageSize
    /\ Pages \in Nat \ {0} /\ Request \subseteq Nat \ {0} /\ MaxHeld \in Nat

HeapPage == 0..(Pages - 1)
NoClass == 0
NoArena == [class |-> NoClass, cnt |-> 0]

VARIABLES arena,  \* the struct arena at the start of each page
          taken,  \* the pages page_acquire has given out
          free,   \* free_list of each class; the order is of no account
          held    \* what each task has, with the size it asked for

heapVars == <<arena, taken, free, held>>

\* Mutant: the header is not taken off.
BlocksNoHeader(c) == PageSize \div c

\* mem_block_init.
BlocksPerArena(c) == (PageSize - Header) \div c

\* arena2block and block2arena.
Block(p, c, idx) == p * PageSize + Header + idx * c
BlocksOf(p, c) == {Block(p, c, idx) : idx \in 0..(BlocksPerArena(c) - 1)}
ArenaOf(b) == b \div PageSize

\* What is too long for every class gets pages of its own.
Large(size) == size > Max(Class)
ClassOf(size) == Min({c \in Class : size <= c})
PageCount(size) == (size + Header + PageSize - 1) \div PageSize

HeapInit ==
    /\ arena = [p \in HeapPage |-> NoArena]
    /\ taken = {}
    /\ free = [c \in Class |-> {}]
    /\ held = [t \in Task |-> {}]

Give(t, at, size) == held' = [held EXCEPT ![t] = @ \cup {[at |-> at, size |-> size]}]

\* mem_acquire of a block that is free.
Take(t, size, b) ==
    /\ Give(t, b, size)
    /\ free' = [free EXCEPT ![ClassOf(size)] = @ \ {b}]
    /\ arena' = [arena EXCEPT ![ArenaOf(b)].cnt = @ - 1]
    /\ UNCHANGED taken

\* mem_acquire without one: a page becomes an arena, and one of its blocks goes.
TakeNew(t, size, p) ==
    LET c == ClassOf(size)
    IN  /\ free[c] = {} /\ p \notin taken
        /\ taken' = taken \cup {p}
        /\ arena' = [arena EXCEPT ![p] = [class |-> c, cnt |-> BlocksPerArena(c) - 1]]
        /\ free' = [free EXCEPT ![c] = BlocksOf(p, c) \ {Block(p, c, 0)}]
        /\ Give(t, Block(p, c, 0), size)

\* mem_alloc of pages: the header remembers how many.
TakePages(t, size, p) ==
    LET run == p..(p + PageCount(size) - 1)
    IN  /\ run \subseteq HeapPage \ taken
        /\ taken' = taken \cup run
        /\ arena' = [arena EXCEPT ![p] = [class |-> NoClass, cnt |-> PageCount(size)]]
        /\ Give(t, p * PageSize + Header, size)
        /\ UNCHANGED free

\* Without a page the call returns NULL and nothing has changed.
MemAlloc(t, size) ==
    /\ Cardinality(held[t]) < MaxHeld
    /\ IF Large(size)
       THEN \E p \in HeapPage : TakePages(t, size, p)
       ELSE \/ \E b \in free[ClassOf(size)] : Take(t, size, b)
            \/ \E p \in HeapPage : TakeNew(t, size, p)

\* page_release of p and the pages behind it.
Unpage(p, cnt) ==
    /\ taken' = taken \ p..(p + cnt - 1)
    /\ arena' = [arena EXCEPT ![p] = NoArena]

\* mem_release: the block joins the list, and an arena that is all free leaves
\* with its blocks.  Mutant: they stay on the list.
ReturnKeepsList(b) ==
    LET p == ArenaOf(b)
        c == arena[p].class
    IN  /\ free' = [free EXCEPT ![c] = @ \cup {b}]
        /\ IF arena[p].cnt + 1 = BlocksPerArena(c)
           THEN Unpage(p, 1)
           ELSE arena' = [arena EXCEPT ![p].cnt = @ + 1] /\ UNCHANGED taken
Return(b) ==
    LET p == ArenaOf(b)
        c == arena[p].class
    IN  IF arena[p].cnt + 1 = BlocksPerArena(c)
        THEN /\ free' = [free EXCEPT ![c] = @ \ BlocksOf(p, c)]
             /\ Unpage(p, 1)
        ELSE /\ free' = [free EXCEPT ![c] = @ \cup {b}]
             /\ arena' = [arena EXCEPT ![p].cnt = @ + 1]
             /\ UNCHANGED taken

\* mem_free.
MemFree(t, h) ==
    LET head == arena[ArenaOf(h.at)]
    IN  /\ h \in held[t]
        /\ held' = [held EXCEPT ![t] = @ \ {h}]
        /\ IF head.class = NoClass
           THEN Unpage(ArenaOf(h.at), head.cnt) /\ UNCHANGED free
           ELSE Return(h.at)

HeapNext ==
    \E t \in Task :
        \/ \E size \in Request : MemAlloc(t, size)
        \/ \E h \in held[t] : MemFree(t, h)

HeapSpec == HeapInit /\ [][HeapNext]_heapVars

-----------------------------------------------------------------------------
Bytes(at, size) == at..(at + size - 1)
Heads == UNION {Bytes(p * PageSize, Header) : p \in {p \in HeapPage : arena[p] # NoArena}}
AllHeld == UNION {{<<t, h>> : h \in held[t]} : t \in Task}

\* No byte is in two pointers' hands, in a page that is not the heap's, in the
\* header of an arena, or in a block that waits on a free list (mem_acquire and
\* mem_alloc, memory.c:404-502).
HeldDisjoint ==
    \A x \in AllHeld :
        LET mine == Bytes(x[2].at, x[2].size)
        IN  /\ \A b \in mine : ArenaOf(b) \in taken
            /\ mine \cap Heads = {}
            /\ \A y \in AllHeld \ {x} : mine \cap Bytes(y[2].at, y[2].size) = {}
            /\ \A c \in Class : \A b \in free[c] : mine \cap Bytes(b, c) = {}

\* The counter of an arena is the number of its blocks on the list, the list
\* has blocks of arenas only, and no page, no arena without a block in use
\* included, is kept for nobody
\* (mem_release, memory.c:443-456).
ArenasExact ==
    /\ \A c \in Class :
          /\ \A b \in free[c] : arena[ArenaOf(b)].class = c
          /\ \A p \in HeapPage : arena[p].class = c =>
                /\ arena[p].cnt = Cardinality(free[c] \cap BlocksOf(p, c))
                /\ arena[p].cnt < BlocksPerArena(c)
    /\ taken = {ArenaOf(b) : b \in UNION {Bytes(x[2].at, x[2].size) : x \in AllHeld}}
=============================================================================
