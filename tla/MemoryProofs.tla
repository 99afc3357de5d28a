----------------------------- MODULE MemoryProofs ------------------------------
(***************************************************************************)
(* Proofs about the memory: the bitmaps and the page allocator (Memory),   *)
(* for every length of the bitmaps, every number of pages and every set of *)
(* processes, and the block allocator (Heap), for every set of tasks,      *)
(* block sizes and sizes of a page and of its header.                      *)
(***************************************************************************)
EXTENDS Memory, Heap, FiniteSetTheorems, TLAPS

JobType == [space : Space \cup {NULL}, first : Nat, cnt : Nat, n : Nat]
DataTyped ==
    /\ pbits \in [Pool -> SUBSET Nat]
    /\ job \in [Proc -> JobType] /\ owned \in [Proc -> SUBSET JobType]

Busy(t) == pc[t] # "idle"

\* The runs that processes own or work at, all of them apart.
Apart(r, q) == r.space = q.space => PagesOf(r) \cap PagesOf(q) = {}
RunsApart ==
    /\ \A t, u \in Proc : \A r \in owned[t], q \in owned[u] :
          (t = u /\ r = q) \/ Apart(r, q)
    /\ \A t, u \in Proc : \A r \in owned[t] : Busy(u) => Apart(r, job[u])
    /\ \A t, u \in Proc : t # u /\ Busy(t) /\ Busy(u) => Apart(job[t], job[u])

\* Their pages are taken in the bitmap of their space, and what is mapped is taken.
RunsReserved ==
    /\ \A t \in Proc : \A r \in owned[t] :
          /\ r.space = Kernel \/ (r.space = t /\ t \notin exiting)
          /\ r.n = 0 /\ r.cnt > 0
          /\ PagesOf(r) \subseteq vbits[r.space]
          /\ \A p \in PagesOf(r) : pte[r.space][p] # NoFrame
    /\ \A t \in Proc : Busy(t) => /\ job[t].space \in {t, Kernel}
                                  /\ PagesOf(job[t]) \subseteq vbits[job[t].space]
    /\ \A s \in Space, p \in Page : pte[s][p] # NoFrame => p \in vbits[s]

\* How far each call has come with its pages.
Progress(t) ==
    /\ pc[t] \in {"frame", "map"} =>
          /\ t \notin exiting
          /\ \A p \in PagesOf(job[t]) : pte[job[t].space][p] # NoFrame <=> p < PageOf(t)
    /\ pc[t] \in {"unframe", "unmap", "unvaddr"} =>
          \A p \in PagesOf(job[t]) : p < PageOf(t) => pte[job[t].space][p] = NoFrame
    /\ Busy(t) => IF pc[t] = "unvaddr" THEN job[t].n = job[t].cnt ELSE job[t].n < job[t].cnt
    /\ frame[t] # NoFrame <=> pc[t] = "map"
JobsProgress == \A t \in Proc : Progress(t)

\* The places a frame can be in: a page table entry, unless the frame has been freed
\* and the entry not cleared yet; the variable paddr of a call; the page table of a process.
PageSlot(s, p) == <<"page", s, p>>
PaddrSlot(t) == <<"paddr", t, 0>>
TableSlot(t) == <<"pde", t, 0>>
Slot == ({"page"} \X Space \X Page) \cup ({"paddr", "pde"} \X Proc \X {0})

EntryHas(s, p) == IF p \in Stale(s) THEN NoFrame ELSE pte[s][p]
Has(x) == IF x[1] = "page" THEN EntryHas(x[2], x[3])
          ELSE IF x[1] = "paddr" THEN frame[x[2]] ELSE pde[x[2]]
SlotPool(x) == IF x[1] = "page" THEN PoolOf(x[2])
               ELSE IF x[1] = "paddr" THEN PoolFor(x[2]) ELSE "k"
Full(x) == Has(x) # NoFrame

\* A frame in a place is taken, in one place only, and what is taken is in a place.
FramesTaken == \A x \in Slot : Full(x) => Has(x) \in pbits[SlotPool(x)]
FramesApart ==
    \A x, y \in Slot : Full(x) /\ Has(x) = Has(y) /\ SlotPool(x) = SlotPool(y) => x = y
FramesKept ==
    \A pool \in Pool : \A no \in pbits[pool] : \E x \in Slot : SlotPool(x) = pool /\ Has(x) = no

Accounted == FramesTaken /\ FramesApart /\ FramesKept

\* The inductive invariant.
IInv == /\ TypeOK /\ DataTyped /\ RunsApart /\ RunsReserved /\ JobsProgress
        /\ Accounted

-----------------------------------------------------------------------------
(* The smallest of some numbers.                                            *)

\* A set of numbers that has a member has a least one.
LEMMA LeastNat ==
    ASSUME NEW S \in SUBSET Nat, S # {}
    PROVE  \E x \in S : \A y \in S : x <= y
<1>1. IsWellFoundedOn(OpToRel(<, Nat), Nat)
  BY NatLessThanWellFounded
<1>2. PICK x \in S : \A y \in S : ~(<<y, x>> \in OpToRel(<, Nat))
  BY <1>1, WFMin
<1>3. \A y \in S : ~(y < x)
  BY <1>2 DEF OpToRel
<1> QED BY <1>3

\* Min is that member.
LEMMA MinNat ==
    ASSUME NEW S \in SUBSET Nat, S # {}
    PROVE  Min(S) \in S /\ \A y \in S : Min(S) <= y
BY LeastNat DEF Min

-----------------------------------------------------------------------------
(* bitmap.c                                                                 *)

\* Bit idx is bit j of byte i (bitmap.c:20-27).
LEMMA ByteBit ==
    ASSUME NEW idx \in Nat
    PROVE  /\ ByteOf(idx) \in Nat
           /\ \E j \in 0..(ByteBits - 1) : idx = ByteOf(idx) * ByteBits + j
BY BitmapAssumption, SMTT(20) DEF ByteOf

\* Multiples of a number do not overlap.
LEMMA TimesMonotone ==
    ASSUME NEW a \in Nat, NEW b \in Nat, NEW c \in Nat, a < b
    PROVE  a * c + c <= b * c
<1>1. PICK d \in Nat : b = a + 1 + d
  BY b - a - 1 \in Nat
<1>2. b * c = a * c + c + d * c
  BY <1>1
<1>3. d * c \in Nat
  BY <1>1
<1>4. a * c \in Nat
  OBVIOUS
<1> QED BY <1>2, <1>3, <1>4

\* Bit j of byte i is in byte i.
LEMMA BitOfByte ==
    ASSUME NEW i \in Nat, NEW j \in 0..(ByteBits - 1)
    PROVE  i * ByteBits + j \in Nat /\ ByteOf(i * ByteBits + j) = i
<1>1. i * ByteBits + j \in Nat
  BY BitmapAssumption
<1> DEFINE k == ByteOf(i * ByteBits + j)
<1>2. PICK m \in 0..(ByteBits - 1) : i * ByteBits + j = k * ByteBits + m
  BY <1>1, ByteBit
<1>3. k \in Nat
  BY <1>1, ByteBit
<1>4. ~(k < i) /\ ~(i < k)
  <2>1. ASSUME k < i PROVE FALSE
    BY <1>2, <1>3, <2>1, TimesMonotone, BitmapAssumption
  <2>2. ASSUME i < k PROVE FALSE
    BY <1>2, <1>3, <2>2, TimesMonotone, BitmapAssumption
  <2> QED BY <2>1, <2>2
<1> QED BY <1>1, <1>3, <1>4

\* A bit is in the bitmap if its byte is.
LEMMA ByteInRange ==
    ASSUME NEW len \in Nat, NEW idx \in Nat
    PROVE  idx \in BitIndex(len) <=> ByteOf(idx) \in 0..(len - 1)
<1>1. PICK j \in 0..(ByteBits - 1) : idx = ByteOf(idx) * ByteBits + j
  BY ByteBit
<1>2. ByteOf(idx) \in Nat
  BY ByteBit
<1>3. ASSUME ByteOf(idx) < len PROVE idx < len * ByteBits
  BY <1>1, <1>2, <1>3, TimesMonotone, BitmapAssumption
<1>4. ASSUME ~(ByteOf(idx) < len) PROVE ~(idx < len * ByteBits)
  <2>1. CASE len = ByteOf(idx)
    BY <1>1, <1>2, <2>1, BitmapAssumption
  <2>2. CASE len < ByteOf(idx)
    BY <1>1, <1>2, <2>2, TimesMonotone, BitmapAssumption
  <2> QED BY <1>2, <1>4, <2>1, <2>2
<1>5. len * ByteBits \in Nat
  BY BitmapAssumption
<1> QED BY <1>2, <1>3, <1>4, <1>5 DEF BitIndex

\* A later bit is not in an earlier byte.
LEMMA ByteMonotone ==
    ASSUME NEW a \in Nat, NEW b \in Nat, a <= b
    PROVE  ByteOf(a) <= ByteOf(b)
<1>1. /\ ByteOf(a) \in Nat /\ ByteOf(b) \in Nat
      /\ \E j \in 0..(ByteBits - 1) : a = ByteOf(a) * ByteBits + j
      /\ \E j \in 0..(ByteBits - 1) : b = ByteOf(b) * ByteBits + j
  BY ByteBit
<1>2. ASSUME ByteOf(b) < ByteOf(a) PROVE FALSE
  BY <1>1, <1>2, TimesMonotone, BitmapAssumption
<1> QED BY <1>1, <1>2

\* What is below a bit of the bitmap is in it, too.
LEMMA BitIndexNat ==
    ASSUME NEW len \in Nat
    PROVE  BitIndex(len) \in SUBSET Nat /\ \A a \in BitIndex(len), b \in Nat : b <= a => b \in BitIndex(len)
<1>1. len * ByteBits \in Nat
  BY BitmapAssumption
<1> QED BY <1>1 DEF BitIndex

\* The search by byte passes the bytes of ones, and fails when all are.
LEMMA SpareBytes ==
    ASSUME NEW len \in Nat, NEW bits
    PROVE  Spare(bits, len) = {} <=> BitIndex(len) \subseteq bits
<1>1. ASSUME NEW i \in Spare(bits, len)
      PROVE  \E idx \in BitIndex(len) \ bits : ByteOf(idx) = i
  <2>1. i \in 0..(len - 1) /\ ~ByteFull(bits, i)
    BY <1>1 DEF Spare
  <2>2. PICK j \in 0..(ByteBits - 1) : i * ByteBits + j \notin bits
    BY <2>1 DEF ByteFull
  <2>3. i * ByteBits + j \in Nat /\ ByteOf(i * ByteBits + j) = i
    BY <2>1, BitOfByte
  <2>4. i * ByteBits + j \in BitIndex(len)
    BY <2>1, <2>3, ByteInRange
  <2> QED BY <2>2, <2>3, <2>4
<1>2. ASSUME NEW idx \in BitIndex(len) \ bits
      PROVE  ByteOf(idx) \in Spare(bits, len)
  <2>1. idx \in Nat /\ ByteOf(idx) \in 0..(len - 1)
    BY BitIndexNat, ByteInRange
  <2>2. PICK j \in 0..(ByteBits - 1) : idx = ByteOf(idx) * ByteBits + j
    BY <2>1, ByteBit
  <2>3. ~ByteFull(bits, ByteOf(idx))
    BY <2>2 DEF ByteFull
  <2> QED BY <2>1, <2>3 DEF Spare
<1> QED BY <1>1, <1>2

\* The two searches find the first zero bit.
LEMMA FirstZeroIsFirst ==
    ASSUME NEW len \in Nat, NEW bits, Spare(bits, len) # {}
    PROVE  /\ FirstZero(bits, len) \in BitIndex(len) \ bits
           /\ \A idx \in BitIndex(len) \ bits : FirstZero(bits, len) <= idx
<1> DEFINE byte == Min(Spare(bits, len))
           zeros == {idx \in BitIndex(len) : ByteOf(idx) = byte} \ bits
<1>1. Spare(bits, len) \in SUBSET Nat
  BY DEF Spare
<1>2. byte \in Spare(bits, len) /\ \A i \in Spare(bits, len) : byte <= i
  BY <1>1, MinNat
<1>3. \A idx \in BitIndex(len) \ bits : ByteOf(idx) \in Spare(bits, len)
  <2> TAKE idx \in BitIndex(len) \ bits
  <2>1. idx \in Nat /\ ByteOf(idx) \in 0..(len - 1)
    BY BitIndexNat, ByteInRange
  <2>2. PICK j \in 0..(ByteBits - 1) : idx = ByteOf(idx) * ByteBits + j
    BY <2>1, ByteBit
  <2> QED BY <2>1, <2>2 DEF ByteFull, Spare
<1>4. zeros # {} /\ zeros \in SUBSET Nat
  <2>1. byte \in 0..(len - 1) /\ ~ByteFull(bits, byte)
    BY <1>2 DEF Spare
  <2>2. PICK j \in 0..(ByteBits - 1) : byte * ByteBits + j \notin bits
    BY <2>1 DEF ByteFull
  <2>3. byte * ByteBits + j \in Nat /\ ByteOf(byte * ByteBits + j) = byte
    BY <2>1, BitOfByte
  <2>4. byte * ByteBits + j \in BitIndex(len)
    BY <2>1, <2>3, ByteInRange
  <2> QED BY <2>2, <2>3, <2>4, BitIndexNat
<1>5. FirstZero(bits, len) = Min(zeros)
  BY DEF FirstZero
<1>6. Min(zeros) \in zeros /\ \A idx \in zeros : Min(zeros) <= idx
  BY <1>4, MinNat
<1>7. ASSUME NEW idx \in BitIndex(len) \ bits PROVE Min(zeros) <= idx
  <2>1. byte <= ByteOf(idx) /\ idx \in Nat /\ Min(zeros) \in Nat /\ ByteOf(Min(zeros)) = byte
    BY <1>2, <1>3, <1>6, BitIndexNat
  <2>2. CASE ByteOf(idx) = byte
    BY <1>6, <2>2
  <2>3. CASE ByteOf(idx) # byte
    <3> HIDE DEF byte, zeros
    <3>1. ByteOf(idx) \in Nat /\ byte \in Nat
      BY <1>1, <1>2, <2>1, ByteBit
    <3>2. ASSUME idx < Min(zeros) PROVE FALSE
      <4>1. idx <= Min(zeros)
        BY <2>1, <3>2
      <4>2. ByteOf(idx) <= byte
        BY <2>1, <4>1, ByteMonotone
      <4> QED BY <2>1, <2>3, <3>1, <4>2
    <3> QED BY <2>1, <3>2
  <2> QED BY <2>2, <2>3
<1> QED BY <1>5, <1>6, <1>7

\* How far back from idx the nearest one is, or the place before the first zero.
Backs(bits, first, idx) == {d \in Nat : idx - d \in bits \/ idx - d = first - 1}
Gap(bits, first, idx) == Min(Backs(bits, first, idx))

\* Gap is the way back to the nearest bit that is set, or to the bit before first.
LEMMA GapIsLeast ==
    ASSUME NEW bits, NEW first \in Nat, NEW idx \in Nat, first <= idx
    PROVE  /\ Gap(bits, first, idx) \in Nat
           /\ \/ idx - Gap(bits, first, idx) \in bits
              \/ idx - Gap(bits, first, idx) = first - 1
           /\ \A d \in Nat : d < Gap(bits, first, idx) => idx - d \notin bits /\ idx - d # first - 1
<1> DEFINE backs == Backs(bits, first, idx)
<1>1. backs \in SUBSET Nat
  BY DEF Backs
<1>2. idx - first + 1 \in backs
  BY DEF Backs
<1>3. Min(backs) \in backs /\ \A d \in backs : Min(backs) <= d
  BY <1>1, <1>2, MinNat
<1> QED BY <1>3 DEF Backs, Gap

\* The distance grows by one with every zero and starts again at a one.
LEMMA GapSteps ==
    ASSUME NEW bits, NEW first \in Nat, NEW idx \in Nat, first < idx
    PROVE  Gap(bits, first, idx) = IF idx \in bits THEN 0 ELSE Gap(bits, first, idx - 1) + 1
<1> DEFINE g == Gap(bits, first, idx)
           h == Gap(bits, first, idx - 1)
<1>1. idx - 1 \in Nat /\ first <= idx - 1
  OBVIOUS
<1>2. /\ g \in Nat /\ (idx - g \in bits \/ idx - g = first - 1)
      /\ \A d \in Nat : d < g => idx - d \notin bits /\ idx - d # first - 1
  BY GapIsLeast
<1>3. /\ h \in Nat /\ (idx - 1 - h \in bits \/ idx - 1 - h = first - 1)
      /\ \A d \in Nat : d < h => idx - 1 - d \notin bits /\ idx - 1 - d # first - 1
  BY <1>1, GapIsLeast
<1> HIDE DEF g, h
<1>4. CASE idx \in bits
  <2>1. idx - 0 = idx
    OBVIOUS
  <2>2. ~(0 < g)
    BY <1>2, <1>4, <2>1
  <2> QED BY <1>2, <1>4, <2>2 DEF g
<1>5. CASE idx \notin bits
  <2>1. g # 0
    BY <1>2, <1>5
  <2>2. ~(g - 1 < h)
    <3>1. g - 1 \in Nat /\ idx - 1 - (g - 1) = idx - g
      BY <1>2, <2>1
    <3> QED BY <1>2, <1>3, <3>1
  <2>3. ~(h + 1 < g)
    <3>1. h + 1 \in Nat /\ idx - (h + 1) = idx - 1 - h
      BY <1>3
    <3> QED BY <1>2, <1>3, <3>1
  <2>4. g = h + 1
    BY <1>2, <1>3, <2>1, <2>2, <2>3
  <2> QED BY <1>5, <2>4 DEF g, h
<1> QED BY <1>4, <1>5

\* At the first bit, a zero, the search has come one step.
LEMMA GapAtFirst ==
    ASSUME NEW bits, NEW first \in Nat \ bits
    PROVE  Gap(bits, first, first) = 1
<1> DEFINE g == Gap(bits, first, first)
<1>1. /\ g \in Nat /\ (first - g \in bits \/ first - g = first - 1)
      /\ \A d \in Nat : d < g => first - d \notin bits /\ first - d # first - 1
  BY GapIsLeast
<1> HIDE DEF g
<1>2. first - 0 = first
  OBVIOUS
<1>3. g # 0
  BY <1>1, <1>2
<1>4. ~(1 < g)
  BY <1>1
<1> QED BY <1>1, <1>3, <1>4 DEF g

\* What FreeCount defines by recursion is a function: there is one that has the values
\* its definition asks for (bitmap.c:74-82).
LEMMA FreeCountSteps ==
    ASSUME NEW len \in Nat, NEW bits, NEW first \in Nat \ bits, first = FirstZero(bits, len)
    PROVE  FreeCount(bits, len) =
               [idx \in BitIndex(len) |->
                   IF idx <= first THEN 1
                   ELSE IF idx \in bits THEN 0 ELSE FreeCount(bits, len)[idx - 1] + 1]
<1> DEFINE f == [idx \in BitIndex(len) |-> IF idx <= first THEN 1 ELSE Gap(bits, first, idx)]
<1>1. ASSUME NEW idx \in BitIndex(len)
      PROVE  f[idx] = IF idx <= first THEN 1 ELSE IF idx \in bits THEN 0 ELSE f[idx - 1] + 1
  <2>1. idx \in Nat
    BY BitIndexNat
  <2>2. CASE idx <= first
    BY <2>2
  <2>3. CASE ~(idx <= first)
    <3>1. idx - 1 \in BitIndex(len) /\ first < idx
      BY <2>1, <2>3, BitIndexNat
    <3>2. Gap(bits, first, idx) = IF idx \in bits THEN 0 ELSE Gap(bits, first, idx - 1) + 1
      BY <2>1, <3>1, GapSteps
    <3>3. ASSUME idx - 1 <= first PROVE Gap(bits, first, idx - 1) = 1
      <4>1. idx - 1 = first
        BY <2>1, <2>3, <3>3
      <4> QED BY <4>1, GapAtFirst
    <3> QED BY <2>3, <3>1, <3>2, <3>3
  <2> QED BY <2>2, <2>3
<1>2. f = [idx \in BitIndex(len) |->
              IF idx <= first THEN 1 ELSE IF idx \in bits THEN 0 ELSE f[idx - 1] + 1]
  BY <1>1
<1> QED BY <1>2 DEF FreeCount

\* So free_count is the distance back to the last one bit (bitmap.c:74-82).
LEMMA FreeCountIsGap ==
    ASSUME NEW len \in Nat, NEW bits, Spare(bits, len) # {},
           NEW idx \in BitIndex(len), FirstZero(bits, len) <= idx
    PROVE  FreeCount(bits, len)[idx] = Gap(bits, FirstZero(bits, len), idx)
<1> DEFINE first == FirstZero(bits, len)
           g == FreeCount(bits, len)
           wrong == {k \in BitIndex(len) : first <= k /\ g[k] # Gap(bits, first, k)}
<1>1. first \in Nat \ bits
  BY FirstZeroIsFirst, BitIndexNat
<1>2. g = [k \in BitIndex(len) |-> IF k <= first THEN 1 ELSE IF k \in bits THEN 0 ELSE g[k - 1] + 1]
  BY <1>1, FreeCountSteps
<1>3. \A k \in BitIndex(len) :
          g[k] = IF k <= first THEN 1 ELSE IF k \in bits THEN 0 ELSE g[k - 1] + 1
  <2> HIDE DEF g, first
  <2> QED BY <1>2
<1> HIDE DEF first, g
<1>4. wrong = {}
  <2>1. SUFFICES ASSUME wrong # {} PROVE FALSE
    OBVIOUS
  <2>2. PICK k \in wrong : \A m \in wrong : k <= m
    BY <2>1, BitIndexNat, LeastNat
  <2>3. k \in BitIndex(len) /\ k \in Nat /\ first <= k /\ g[k] # Gap(bits, first, k)
    BY BitIndexNat
  <2>4. CASE k = first
    BY <1>1, <1>3, <2>3, <2>4, GapAtFirst
  <2>5. CASE k # first
    <3>1. first < k /\ k - 1 \in BitIndex(len) /\ first <= k - 1
      BY <1>1, <2>3, <2>5, BitIndexNat
    <3>2. g[k - 1] = Gap(bits, first, k - 1)
      BY <2>2, <2>3, <3>1
    <3>3. g[k] = IF k \in bits THEN 0 ELSE g[k - 1] + 1
      BY <1>1, <1>3, <2>3, <3>1
    <3> QED BY <1>1, <2>3, <3>1, <3>2, <3>3, GapSteps
  <2> QED BY <2>4, <2>5
<1> QED BY <1>4 DEF first, g

\* A run is in the bitmap if its last bit is.
LEMMA RunOfZeros ==
    ASSUME NEW len \in Nat, NEW bits, NEW cnt \in Nat \ {0}, NEW s \in BitIndex(len)
    PROVE  s..(s + cnt - 1) \subseteq BitIndex(len) \ bits <=>
               s + cnt - 1 \in BitIndex(len) /\ \A k \in s..(s + cnt - 1) : k \notin bits
<1>1. s \in Nat /\ s + cnt - 1 \in s..(s + cnt - 1)
  BY BitIndexNat
<1>2. s + cnt - 1 \in BitIndex(len) => \A k \in s..(s + cnt - 1) : k \in BitIndex(len)
  BY <1>1, BitIndexNat
<1> QED BY <1>1, <1>2

\* bitmap_acquire finds the lowest run of zero bits that is long enough, or none when
\* there is none, in every bitmap (bitmap.c:39-100).
THEOREM FirstFitFound ==
    ASSUME NEW len \in Nat, NEW bits, NEW cnt \in Nat \ {0}
    PROVE  BitmapAcquire(bits, len, cnt) = FirstFit(bits, len, cnt)
<1> DEFINE runs == {s \in BitIndex(len) : s..(s + cnt - 1) \subseteq BitIndex(len) \ bits}
<1>1. FirstFit(bits, len, cnt) = IF runs = {} THEN -1 ELSE Min(runs)
  BY DEF FirstFit
<1>2. runs \in SUBSET Nat
  BY BitIndexNat
<1>3. ASSUME NEW m \in runs, \A s \in runs : m <= s PROVE Min(runs) = m
  BY <1>2, <1>3, MinNat
<1>4. \A s \in BitIndex(len) :
          s \in runs <=> s + cnt - 1 \in BitIndex(len) /\ \A k \in s..(s + cnt - 1) : k \notin bits
  BY RunOfZeros
<1>5. \A s \in runs : s \in BitIndex(len) \ bits
  <2> TAKE s \in runs
  <2>1. s \in Nat /\ s \in s..(s + cnt - 1)
    BY <1>2
  <2> QED BY <2>1
<1> HIDE DEF runs
<1>6. CASE Spare(bits, len) = {}
  <2>1. runs = {}
    BY <1>5, <1>6, SpareBytes
  <2> QED BY <1>1, <1>6, <2>1 DEF BitmapAcquire
<1>7. CASE Spare(bits, len) # {}
  <2> DEFINE first == FirstZero(bits, len)
             ends == {idx \in BitIndex(len) : idx > first /\ FreeCount(bits, len)[idx] = cnt}
  <2>1. /\ first \in BitIndex(len) \ bits /\ first \in Nat
        /\ \A idx \in BitIndex(len) \ bits : first <= idx
    BY <1>7, FirstZeroIsFirst, BitIndexNat
  <2>2. BitmapAcquire(bits, len, cnt) =
            IF cnt = 1 THEN first ELSE IF ends = {} THEN -1 ELSE Min(ends) - cnt + 1
    BY <1>7 DEF BitmapAcquire
  <2>3. \A idx \in BitIndex(len) : first <= idx => FreeCount(bits, len)[idx] = Gap(bits, first, idx)
    BY <1>7, FreeCountIsGap
  <2>4. ends = {idx \in BitIndex(len) : idx > first /\ Gap(bits, first, idx) = cnt}
    <3> HIDE DEF first
    <3> QED BY <2>1, <2>3, BitIndexNat
  <2> HIDE DEF first, ends
  <2>5. CASE cnt = 1
    <3>1. first \in runs
      <4>1. first + cnt - 1 = first /\ first..(first + cnt - 1) = {first}
        BY <2>1, <2>5
      <4> QED BY <1>4, <2>1, <4>1
    <3>2. \A s \in runs : first <= s
      BY <1>5, <2>1
    <3> QED BY <1>1, <1>3, <2>2, <2>5, <3>1, <3>2
  <2>6. CASE cnt > 1
    <3>1. ASSUME NEW e \in ends PROVE e - cnt + 1 \in runs /\ e \in Nat
      <4>1. e \in BitIndex(len) /\ e \in Nat /\ e > first /\ Gap(bits, first, e) = cnt
        BY <2>4, BitIndexNat
      <4>2. \A d \in Nat : d < cnt => e - d \notin bits /\ e - d # first - 1
        BY <2>1, <4>1, GapIsLeast
      <4>3. e - cnt + 1 >= first
        <5>1. CASE e - first + 1 < cnt
          <6>1. e - first + 1 \in Nat /\ e - (e - first + 1) = first - 1
            BY <2>1, <4>1
          <6> QED BY <4>2, <5>1, <6>1
        <5>2. CASE ~(e - first + 1 < cnt)
          BY <2>1, <4>1, <5>2
        <5> QED BY <5>1, <5>2
      <4> DEFINE s == e - cnt + 1
      <4>4. s \in BitIndex(len) /\ s \in Nat /\ s + cnt - 1 = e
        BY <2>1, <4>1, <4>3, BitIndexNat
      <4>5. \A k \in s..e : k \notin bits
        <5> TAKE k \in s..e
        <5>1. e - k \in Nat /\ e - k < cnt /\ e - (e - k) = k
          BY <4>1, <4>4
        <5> QED BY <4>2, <5>1
      <4> HIDE DEF s
      <4>6. s \in runs
        BY <1>4, <4>1, <4>4, <4>5
      <4> QED BY <4>1, <4>6 DEF s
    <3>2. ASSUME NEW s \in runs PROVE \E e \in ends : e - cnt + 1 <= s
      <4> DEFINE e0 == s + cnt - 1
                 g == Gap(bits, first, e0)
                 e == e0 - g + cnt
      <4>1. s \in Nat /\ s \in BitIndex(len) /\ first <= s
        BY <1>2, <1>5, <2>1
      <4>2. e0 \in BitIndex(len) /\ \A k \in s..e0 : k \notin bits
        BY <1>4, <4>1
      <4>3. /\ g \in Nat /\ (e0 - g \in bits \/ e0 - g = first - 1)
            /\ \A d \in Nat : d < g => e0 - d \notin bits /\ e0 - d # first - 1
        BY <2>1, <4>1, GapIsLeast
      <4> HIDE DEF g
      <4>4. g >= cnt
        <5>1. CASE e0 - g \in bits
          BY <4>1, <4>2, <4>3, <5>1
        <5>2. CASE e0 - g = first - 1
          BY <2>1, <4>1, <4>3, <5>2
        <5> QED BY <4>3, <5>1, <5>2
      <4>5. e0 - g >= first - 1
        <5>1. CASE e0 - first + 1 < g
          <6>1. e0 - first + 1 \in Nat /\ e0 - (e0 - first + 1) = first - 1
            BY <2>1, <4>1
          <6> QED BY <4>3, <5>1, <6>1
        <5>2. CASE ~(e0 - first + 1 < g)
          BY <2>1, <4>1, <4>3, <5>2
        <5> QED BY <5>1, <5>2
      <4>6. e \in Nat /\ e <= e0 /\ e > first /\ e \in BitIndex(len) /\ e - cnt = e0 - g
        <5>1. e \in Nat /\ e <= e0 /\ e > first /\ e - cnt = e0 - g
          BY <2>1, <2>6, <4>1, <4>3, <4>4, <4>5
        <5> QED BY <4>2, <5>1, BitIndexNat
      <4> DEFINE h == Gap(bits, first, e)
      <4>7. /\ h \in Nat /\ (e - h \in bits \/ e - h = first - 1)
            /\ \A d \in Nat : d < h => e - d \notin bits /\ e - d # first - 1
        <5> HIDE DEF e
        <5> QED BY <2>1, <4>6, GapIsLeast
      <4> HIDE DEF h
      <4>8. ~(cnt < h)
        BY <4>3, <4>6, <4>7
      <4>9. ~(h < cnt)
        <5>1. SUFFICES ASSUME h < cnt PROVE FALSE
          OBVIOUS
        <5>2. e0 - (e - h) \in Nat /\ e0 - (e - h) < g /\ e0 - (e0 - (e - h)) = e - h
          BY <4>1, <4>3, <4>4, <4>6, <4>7, <5>1
        <5> QED BY <4>3, <4>7, <5>2
      <4>10. h = cnt
        BY <4>7, <4>8, <4>9
      <4>11. e \in ends
        BY <2>4, <4>6, <4>10 DEF h
      <4>12. e - cnt + 1 <= s
        BY <4>1, <4>3, <4>4
      <4> QED BY <4>11, <4>12
    <3>3. CASE ends = {}
      <4>1. runs = {}
        BY <3>2, <3>3
      <4> QED BY <1>1, <2>2, <2>6, <3>3, <4>1
    <3>4. CASE ends # {}
      <4>1. Min(ends) \in ends /\ \A e \in ends : Min(ends) <= e
        BY <3>1, <3>4, MinNat
      <4>2. Min(ends) - cnt + 1 \in runs /\ Min(ends) \in Nat
        BY <3>1, <4>1
      <4>3. \A s \in runs : Min(ends) - cnt + 1 <= s
        <5> TAKE s \in runs
        <5>1. PICK e \in ends : e - cnt + 1 <= s
          BY <3>2
        <5>2. e \in Nat /\ s \in Nat /\ Min(ends) <= e
          BY <1>2, <3>1, <4>1
        <5> QED BY <4>2, <5>1, <5>2
      <4>4. Min(runs) = Min(ends) - cnt + 1
        BY <1>3, <4>2, <4>3
      <4> QED BY <1>1, <2>2, <2>6, <3>4, <4>2, <4>4
    <3> QED BY <3>3, <3>4
  <2> QED BY <2>5, <2>6
<1> QED BY <1>6, <1>7

\* What its callers need of it.
LEMMA AcquireFree ==
    ASSUME NEW len \in Nat, NEW bits, NEW cnt \in Nat \ {0}, BitmapAcquire(bits, len, cnt) # -1
    PROVE  LET at == BitmapAcquire(bits, len, cnt)
           IN  at \in Nat /\ at..(at + cnt - 1) \subseteq BitIndex(len) \ bits
<1> DEFINE runs == {s \in BitIndex(len) : s..(s + cnt - 1) \subseteq BitIndex(len) \ bits}
<1>1. runs \in SUBSET Nat
  BY BitIndexNat
<1>2. BitmapAcquire(bits, len, cnt) = Min(runs) /\ runs # {}
  BY FirstFitFound DEF FirstFit
<1>3. Min(runs) \in runs
  BY <1>1, <1>2, MinNat
<1> QED BY <1>1, <1>2, <1>3

-----------------------------------------------------------------------------
(* memory.c                                                                 *)

-----------------------------------------------------------------------------
(* What a step does to the places of the frames: nothing, or one frame is   *)
(* taken, given back, or moved from one place to another.                    *)

\* What each kind of slot holds, and of which pool.
LEMMA Slots ==
    /\ \A s \in Space, p \in Page :
          /\ PageSlot(s, p) \in Slot
          /\ Has(PageSlot(s, p)) = EntryHas(s, p) /\ SlotPool(PageSlot(s, p)) = PoolOf(s)
    /\ \A t \in Proc :
          /\ PaddrSlot(t) \in Slot /\ TableSlot(t) \in Slot
          /\ Has(PaddrSlot(t)) = frame[t] /\ SlotPool(PaddrSlot(t)) = PoolFor(t)
          /\ Has(TableSlot(t)) = pde[t] /\ SlotPool(TableSlot(t)) = "k"
    /\ \A x \in Slot : \/ \E s \in Space, p \in Page : x = PageSlot(s, p)
                       \/ \E t \in Proc : x = PaddrSlot(t)
                       \/ \E t \in Proc : x = TableSlot(t)
    /\ \A x \in Slot : SlotPool(x) \in Pool
<1>1. \A s \in Space, p \in Page :
          /\ PageSlot(s, p) \in Slot
          /\ Has(PageSlot(s, p)) = EntryHas(s, p) /\ SlotPool(PageSlot(s, p)) = PoolOf(s)
  BY DEF PageSlot, Slot, Has, SlotPool
<1>2. \A t \in Proc :
          /\ PaddrSlot(t) \in Slot /\ Has(PaddrSlot(t)) = frame[t]
          /\ SlotPool(PaddrSlot(t)) = PoolFor(t)
  BY DEF PaddrSlot, Slot, Has, SlotPool
<1>3. \A t \in Proc :
          /\ TableSlot(t) \in Slot /\ Has(TableSlot(t)) = pde[t] /\ SlotPool(TableSlot(t)) = "k"
  BY DEF TableSlot, Slot, Has, SlotPool
<1>4. ASSUME NEW x \in Slot
      PROVE  \/ \E s \in Space, p \in Page : x = PageSlot(s, p)
             \/ \E t \in Proc : x = PaddrSlot(t)
             \/ \E t \in Proc : x = TableSlot(t)
  <2>1. CASE x \in {"page"} \X Space \X Page
    BY <2>1 DEF PageSlot
  <2>2. CASE x \in {"paddr", "pde"} \X Proc \X {0}
    BY <2>2 DEF PaddrSlot, TableSlot
  <2> QED BY <2>1, <2>2 DEF Slot
<1>5. \A x \in Slot : SlotPool(x) \in Pool
  BY DEF SlotPool, PoolFor, PoolOf, Pool
<1> QED BY <1>1, <1>2, <1>3, <1>4, <1>5

\* A step that moves no frame keeps the account.
LEMMA FramesSame ==
    ASSUME DataTyped, Accounted, pbits' = pbits,
           \A x \in Slot : Has(x)' = Has(x) /\ (Full(x) => SlotPool(x)' = SlotPool(x))
    PROVE  Accounted'
<1>1. \A x \in Slot : Full(x)' <=> Full(x)
  BY DEF Full
<1>2. \A pool \in Pool : \A no \in pbits[pool] : no # NoFrame
  BY DEF DataTyped, NoFrame
<1>3. FramesTaken'
  BY <1>1 DEF Accounted, FramesTaken
<1>4. FramesApart'
  <2>1. ASSUME NEW x \in Slot, NEW z \in Slot, Full(x)', Has(x)' = Has(z)', SlotPool(x)' = SlotPool(z)'
        PROVE  x = z
    <3>1. Full(x) /\ Full(z) /\ Has(x) = Has(z)
      BY <1>1, <2>1 DEF Full
    <3> QED BY <2>1, <3>1 DEF Accounted, FramesApart
  <2> QED BY <2>1 DEF FramesApart
<1>5. FramesKept'
  BY <1>2 DEF Accounted, FramesKept, Full
<1> QED BY <1>3, <1>4, <1>5 DEF Accounted

\* A slot takes a frame that was free in its pool.
LEMMA FrameTaken ==
    ASSUME DataTyped, Accounted, NEW y \in Slot, ~Full(y), NEW pool \in Pool, NEW no \in Nat,
           no \notin pbits[pool], pbits' = [pbits EXCEPT ![pool] = @ \cup {no}],
           Has(y)' = no, SlotPool(y)' = pool,
           \A x \in Slot : x # y => Has(x)' = Has(x) /\ (Full(x) => SlotPool(x)' = SlotPool(x))
    PROVE  Accounted'
<1>1. /\ \A x \in Slot : x # y => (Full(x)' <=> Full(x))
      /\ no # NoFrame
  BY DEF Full, NoFrame
<1>2. /\ pbits'[pool] = pbits[pool] \cup {no}
      /\ \A other \in Pool : other # pool => pbits'[other] = pbits[other]
      /\ \A other \in Pool : pbits[other] \subseteq pbits'[other]
  BY DEF DataTyped
<1>3. \A other \in Pool : \A f \in pbits[other] : f # NoFrame
  BY DEF DataTyped, NoFrame
<1>4. \A x \in Slot : SlotPool(x) \in Pool
  BY Slots
<1>5. FramesTaken'
  <2>1. ASSUME NEW x \in Slot, Full(x)' PROVE Has(x)' \in pbits'[SlotPool(x)']
    <3>1. CASE x = y
      BY <1>2, <3>1
    <3>2. CASE x # y
      BY <1>1, <1>2, <1>4, <2>1, <3>2 DEF Accounted, FramesTaken
    <3> QED BY <3>1, <3>2
  <2> QED BY <2>1 DEF FramesTaken
<1>6. FramesApart'
  <2>1. ASSUME NEW x \in Slot, x # y, Full(x)', SlotPool(x)' = pool PROVE Has(x)' # no
    BY <1>1, <2>1 DEF Accounted, FramesTaken
  <2>2. ASSUME NEW x \in Slot, NEW z \in Slot, Full(x)', Has(x)' = Has(z)', SlotPool(x)' = SlotPool(z)'
        PROVE  x = z
    <3>1. Full(z)'
      BY <2>2 DEF Full
    <3>2. CASE x = y
      BY <2>1, <2>2, <3>1, <3>2
    <3>3. CASE z = y
      BY <2>1, <2>2, <3>3
    <3>4. CASE x # y /\ z # y
      BY <1>1, <2>2, <3>1, <3>4 DEF Accounted, FramesApart
    <3> QED BY <3>2, <3>3, <3>4
  <2> QED BY <2>2 DEF FramesApart
<1>7. FramesKept'
  <2>1. ASSUME NEW other \in Pool, NEW f \in pbits'[other]
        PROVE  \E x \in Slot : SlotPool(x)' = other /\ Has(x)' = f
    <3>1. CASE other = pool /\ f = no
      BY <3>1
    <3>2. CASE ~(other = pool /\ f = no)
      <4>1. f \in pbits[other]
        BY <1>2, <2>1, <3>2
      <4>2. PICK x \in Slot : SlotPool(x) = other /\ Has(x) = f
        BY <4>1 DEF Accounted, FramesKept
      <4>3. Full(x)
        BY <1>3, <4>1, <4>2 DEF Full
      <4> QED BY <4>2, <4>3
    <3> QED BY <3>1, <3>2
  <2> QED BY <2>1 DEF FramesKept
<1> QED BY <1>5, <1>6, <1>7 DEF Accounted

\* A slot gives its frame back to its pool.
LEMMA FrameDropped ==
    ASSUME DataTyped, Accounted, NEW y \in Slot, Full(y), NEW pool \in Pool, pool = SlotPool(y),
           pbits' = [pbits EXCEPT ![pool] = @ \ {Has(y)}], ~Full(y)',
           \A x \in Slot : x # y => Has(x)' = Has(x) /\ (Full(x) => SlotPool(x)' = SlotPool(x))
    PROVE  Accounted'
<1>1. \A x \in Slot : x # y => (Full(x)' <=> Full(x))
  BY DEF Full
<1>2. /\ pbits'[pool] = pbits[pool] \ {Has(y)}
      /\ \A other \in Pool : other # pool => pbits'[other] = pbits[other]
  BY DEF DataTyped
<1>3. \A other \in Pool : \A f \in pbits[other] : f # NoFrame
  BY DEF DataTyped, NoFrame
<1>4. \A x \in Slot : SlotPool(x) \in Pool
  BY Slots
<1>5. FramesTaken'
  <2>1. ASSUME NEW x \in Slot, Full(x)' PROVE Has(x)' \in pbits'[SlotPool(x)']
    <3>1. x # y /\ Full(x) /\ Has(x)' = Has(x) /\ SlotPool(x)' = SlotPool(x)
      BY <1>1, <2>1
    <3>2. Has(x) \in pbits[SlotPool(x)]
      BY <3>1 DEF Accounted, FramesTaken
    <3>3. SlotPool(x) = pool => Has(x) # Has(y)
      BY <3>1 DEF Accounted, FramesApart
    <3> QED BY <1>2, <1>4, <3>1, <3>2, <3>3
  <2> QED BY <2>1 DEF FramesTaken
<1>6. FramesApart'
  <2>1. ASSUME NEW x \in Slot, NEW z \in Slot, Full(x)', Has(x)' = Has(z)', SlotPool(x)' = SlotPool(z)'
        PROVE  x = z
    <3>1. Full(z)' /\ x # y /\ z # y
      BY <2>1 DEF Full
    <3> QED BY <1>1, <2>1, <3>1 DEF Accounted, FramesApart
  <2> QED BY <2>1 DEF FramesApart
<1>7. FramesKept'
  <2>1. ASSUME NEW other \in Pool, NEW f \in pbits'[other]
        PROVE  \E x \in Slot : SlotPool(x)' = other /\ Has(x)' = f
    <3>1. f \in pbits[other] /\ (other = pool => f # Has(y))
      BY <1>2, <2>1
    <3>2. PICK x \in Slot : SlotPool(x) = other /\ Has(x) = f
      BY <3>1 DEF Accounted, FramesKept
    <3>3. Full(x) /\ x # y
      BY <1>3, <3>1, <3>2 DEF Full
    <3> QED BY <3>2, <3>3
  <2> QED BY <2>1 DEF FramesKept
<1> QED BY <1>5, <1>6, <1>7 DEF Accounted

\* A frame goes from one slot to another.
LEMMA FrameMoved ==
    ASSUME DataTyped, Accounted, pbits' = pbits,
           NEW y \in Slot, Full(y), NEW z \in Slot, ~Full(z),
           Has(z)' = Has(y), SlotPool(z)' = SlotPool(y), ~Full(y)',
           \A x \in Slot : x \notin {y, z} => Has(x)' = Has(x) /\ (Full(x) => SlotPool(x)' = SlotPool(x))
    PROVE  Accounted'
<1>1. \A x \in Slot : x \notin {y, z} => (Full(x)' <=> Full(x))
  BY DEF Full
<1>2. \A other \in Pool : \A f \in pbits[other] : f # NoFrame
  BY DEF DataTyped, NoFrame
<1>3. Full(z)' /\ y # z
  BY DEF Full
<1>4. FramesTaken'
  <2>1. ASSUME NEW x \in Slot, Full(x)' PROVE Has(x)' \in pbits[SlotPool(x)']
    <3>1. CASE x = z
      BY <3>1 DEF Accounted, FramesTaken
    <3>2. CASE x # z
      BY <1>1, <2>1, <3>2 DEF Accounted, FramesTaken
    <3> QED BY <3>1, <3>2
  <2> QED BY <2>1 DEF FramesTaken
<1>5. FramesApart'
  <2> DEFINE Was(x) == IF x = z THEN y ELSE x
  <2>1. \A x \in Slot : Full(x)' => /\ Was(x) \in Slot /\ Full(Was(x))
                                    /\ Has(x)' = Has(Was(x)) /\ SlotPool(x)' = SlotPool(Was(x))
    BY <1>1
  <2>2. ASSUME NEW x \in Slot, NEW w \in Slot, Full(x)', Has(x)' = Has(w)', SlotPool(x)' = SlotPool(w)'
        PROVE  x = w
    <3>1. Full(w)'
      BY <2>2 DEF Full
    <3>2. Was(x) = Was(w)
      <4> HIDE DEF Was
      <4> QED BY <2>1, <2>2, <3>1 DEF Accounted, FramesApart
    <3>3. x # y /\ w # y
      BY <2>2, <3>1
    <3> QED BY <3>2, <3>3
  <2> QED BY <2>2 DEF FramesApart
<1>6. FramesKept'
  <2>1. ASSUME NEW pool \in Pool, NEW f \in pbits[pool]
        PROVE  \E x \in Slot : SlotPool(x)' = pool /\ Has(x)' = f
    <3>1. PICK x \in Slot : SlotPool(x) = pool /\ Has(x) = f
      BY <2>1 DEF Accounted, FramesKept
    <3>2. Full(x) /\ x # z
      BY <1>2, <3>1 DEF Full
    <3>3. CASE x = y
      BY <3>1, <3>3
    <3>4. CASE x # y
      BY <3>1, <3>2, <3>4
    <3> QED BY <3>3, <3>4
  <2> QED BY <2>1 DEF FramesKept
<1> QED BY <1>4, <1>5, <1>6 DEF Accounted

\* After start-up nothing is taken.
LEMMA InitIInv == Init => IInv
<1> SUFFICES ASSUME Init PROVE IInv
  OBVIOUS
<1> USE MemoryAssumption DEF Init
<1>1. TypeOK
  BY DEF TypeOK, AnyFrame, PC, NoFrame, Pool
<1>2. DataTyped
  BY DEF DataTyped, JobType, NoJob
<1>3. RunsApart /\ RunsReserved /\ JobsProgress
  BY DEF RunsApart, RunsReserved, JobsProgress, Progress, Busy
<1>4. Accounted
  <2>1. \A s \in Space, p \in Page : EntryHas(s, p) = NoFrame
    BY DEF EntryHas
  <2>2. \A x \in Slot : ~Full(x)
    BY <2>1, Slots DEF Full
  <2>3. \A pool \in Pool : pbits[pool] = {}
    OBVIOUS
  <2> QED BY <2>2, <2>3 DEF Accounted, FramesTaken, FramesApart, FramesKept
<1> QED BY <1>1, <1>2, <1>3, <1>4 DEF IInv

\* Pages and frames are numbers, and a run of the bitmap is a run of pages.
LEMMA PageNumbers ==
    /\ Page \in SUBSET Nat /\ \A pool \in Pool : FrameNo(pool) \in SUBSET Nat
    /\ \A at \in Nat, cnt \in Nat \ {0} : InBitmap(at, cnt) => at..(at + cnt - 1) \subseteq Page
<1>1. Page \in SUBSET Nat /\ \A pool \in Pool : FrameNo(pool) \in SUBSET Nat
  BY MemoryAssumption, BitIndexNat DEF Page, FrameNo, Pool
<1>2. ASSUME NEW at \in Nat, NEW cnt \in Nat \ {0}, InBitmap(at, cnt)
      PROVE  at..(at + cnt - 1) \subseteq Page
  <2>1. at + cnt - 1 \in Nat /\ ByteOf(at + cnt - 1) \in Nat
    BY ByteBit
  <2>2. at + cnt - 1 \in Page
    BY <1>2, <2>1, ByteInRange, MemoryAssumption DEF InBitmap, Page
  <2> QED BY <2>1, <2>2, BitIndexNat, MemoryAssumption DEF Page
<1> QED BY <1>1, <1>2

\* page_malloc has found a run of free pages in the space s of its caller.
Starts(t, s, at, cnt) ==
    /\ pc[t] = "idle" /\ t \notin exiting /\ s \in {t, Kernel}
    /\ at..(at + cnt - 1) \subseteq Page \ vbits[s]
    /\ pc' = [pc EXCEPT ![t] = "frame"]
    /\ job' = [job EXCEPT ![t] = Run(s, at, cnt)]
    /\ vbits' = [vbits EXCEPT ![s] = @ \cup at..(at + cnt - 1)]
    /\ UNCHANGED <<pbits, tables, frame, owned, exiting>>

\* page_malloc reserves the run it has found, or nothing.
LEMMA MallocStarts ==
    ASSUME TypeOK, NEW t \in Proc, NEW s \in {t, Kernel}, NEW cnt \in 1..MaxCnt, Malloc(t, s, cnt)
    PROVE  \E at \in Nat : Starts(t, s, at, cnt)
<1> DEFINE at == BitmapAcquire(vbits[s], VPages, cnt)
<1>1. at # -1 /\ cnt \in Nat \ {0} /\ VPages \in Nat
  BY MemoryAssumption DEF Malloc
<1>2. at \in Nat /\ at..(at + cnt - 1) \subseteq Page \ vbits[s]
  BY <1>1, AcquireFree DEF Page
<1>3. Starts(t, s, at, cnt)
  BY <1>2 DEF Malloc, MayMalloc, Goto, Starts
<1> QED BY <1>2, <1>3

\* Without the run a fixed address has only taken bits.
OnlyReserves(t) ==
    /\ vbits' \in [Space -> SUBSET Page]
    /\ \A s \in Space : vbits[s] \subseteq vbits'[s]
    /\ UNCHANGED <<pbits, tables, pc, job, frame, owned, exiting>>

\* So does the call for a given address, which may fail with the bits set.
LEMMA MallocFixedStarts ==
    ASSUME TypeOK, NEW t \in Proc, NEW r \in Fixed, MallocFixed(t, r[1], r[2])
    PROVE  Starts(t, t, r[1], r[2]) \/ OnlyReserves(t)
<1> DEFINE at == r[1]
           cnt == r[2]
           run == at..(at + cnt - 1)
           got == {p \in run : Fits(t, at, p - at + 1)}
<1>1. at \in Nat /\ cnt \in Nat \ {0} /\ t \in Space
  BY MemoryAssumption DEF Space
<1> HIDE DEF at, cnt
<1>2. run \subseteq Page
  BY <1>1, PageNumbers DEF MallocFixed, at, cnt
<1>3. /\ vbits' = [vbits EXCEPT ![t] = @ \cup got]
      /\ pc[t] = "idle" /\ t \notin exiting
      /\ UNCHANGED <<pbits, tables, frame, owned, exiting>>
  BY DEF MallocFixed, MayMalloc, at, cnt
<1>4. CASE Fits(t, at, cnt)
  <2>1. run \cap vbits[t] = {}
    BY <1>4 DEF Fits
  <2>2. \A p \in run : Fits(t, at, p - at + 1)
    BY <1>1, <2>1 DEF Fits
  <2>3. got = run
    BY <2>2
  <2>4. pc' = [pc EXCEPT ![t] = "frame"] /\ job' = [job EXCEPT ![t] = Run(t, at, cnt)]
    BY <1>4 DEF MallocFixed, Goto, at, cnt
  <2>5. Starts(t, t, at, cnt)
    BY <1>2, <1>3, <2>1, <2>3, <2>4 DEF Starts
  <2> QED BY <2>5 DEF at, cnt
<1>5. CASE ~Fits(t, at, cnt)
  <2>1. UNCHANGED <<pc, job>>
    BY <1>5 DEF MallocFixed, at, cnt
  <2> QED BY <1>1, <1>2, <1>3, <2>1 DEF OnlyReserves, TypeOK
<1> QED BY <1>4, <1>5

\* palloc hands out a frame of the pool that nobody has.
LEMMA FrameAcquired ==
    ASSUME NEW pool \in Pool, NEW no,
           no = BitmapAcquire(pbits[pool], IF pool = "k" THEN KFrames ELSE UFrames, 1), no # -1
    PROVE  no \in FrameNo(pool) /\ no \in AnyFrame /\ no \in Nat /\ no # NoFrame /\ no \notin pbits[pool]
<1> DEFINE len == IF pool = "k" THEN KFrames ELSE UFrames
<1>1. len \in Nat
  BY MemoryAssumption
<1>2. no \in Nat /\ no..(no + 1 - 1) \subseteq BitIndex(len) \ pbits[pool]
  BY <1>1, AcquireFree
<1>3. no \in no..(no + 1 - 1)
  BY <1>2
<1> QED BY <1>2, <1>3 DEF FrameNo, AnyFrame, NoFrame, Pool

\* The page a call is at is one of its run.
LEMMA PageOfJob ==
    ASSUME TypeOK, DataTyped, RunsReserved, JobsProgress, NEW t \in Proc, Busy(t), pc[t] # "unvaddr"
    PROVE  /\ PageOf(t) \in PagesOf(job[t]) /\ PageOf(t) \in Page /\ PageOf(t) \in Nat
           /\ job[t].space \in Space /\ job[t].space \in {t, Kernel}
           /\ job[t].first \in Nat /\ job[t].cnt \in Nat /\ job[t].n \in Nat /\ job[t].n < job[t].cnt
<1>1. /\ job[t].first \in Nat /\ job[t].cnt \in Nat /\ job[t].n \in Nat /\ job[t].n < job[t].cnt
      /\ job[t].space \in {t, Kernel} /\ job[t].space \in Space
  BY DEF DataTyped, JobType, JobsProgress, Progress, RunsReserved, Space
<1>2. PageOf(t) \in PagesOf(job[t]) /\ PageOf(t) \in Nat
  BY <1>1 DEF PageOf, PagesOf
<1>3. PagesOf(job[t]) \subseteq Page
  BY <1>1 DEF RunsReserved, TypeOK
<1> QED BY <1>1, <1>2, <1>3

\* A call takes its frames from one of the two pools.
LEMMA PoolForTyped ==
    ASSUME TypeOK, DataTyped, NEW t \in Proc
    PROVE  PoolFor(t) \in Pool
BY DEF PoolFor, PoolOf, Pool

\* Run builds what job and owned hold.
LEMMA RunTyped ==
    ASSUME NEW s \in Space, NEW at \in Nat, NEW cnt \in Nat
    PROVE  Run(s, at, cnt) \in JobType
BY DEF Run, JobType

\* The next page of the run.
LEMMA Advanced ==
    ASSUME DataTyped, NEW t \in Proc, Advance(t)
    PROVE  /\ job' \in [Proc -> JobType]
           /\ \A u \in Proc : u # t => job'[u] = job[u]
           /\ job'[t].space = job[t].space /\ job'[t].first = job[t].first /\ job'[t].cnt = job[t].cnt
           /\ job'[t].n = job[t].n + 1
<1> DEFINE j == [job[t] EXCEPT !.n = job[t].n + 1]
<1>1. job[t] \in JobType
  BY DEF DataTyped
<1>2. /\ j \in JobType /\ j.n = job[t].n + 1
      /\ j.space = job[t].space /\ j.first = job[t].first /\ j.cnt = job[t].cnt
  BY <1>1 DEF JobType
<1>3. job' = [job EXCEPT ![t] = j]
  BY DEF Advance
<1> HIDE DEF j
<1> QED BY <1>2, <1>3 DEF DataTyped

\* The run that a call of page_malloc leaves to its caller.
Finished(t) == [job[t] EXCEPT !.n = 0]
\* The run of a call that is complete.
LEMMA FinishedTyped ==
    ASSUME DataTyped, NEW t \in Proc
    PROVE  /\ Finished(t) \in JobType /\ Finished(t).n = 0 /\ Finished(t).space = job[t].space
           /\ Finished(t).cnt = job[t].cnt /\ PagesOf(Finished(t)) = PagesOf(job[t])
<1>1. job[t] \in JobType
  BY DEF DataTyped
<1>2. /\ Finished(t) \in JobType /\ Finished(t).n = 0 /\ Finished(t).space = job[t].space
      /\ Finished(t).cnt = job[t].cnt /\ Finished(t).first = job[t].first
  BY <1>1 DEF Finished, JobType
<1> QED BY <1>2 DEF PagesOf

\* No step gives job, owned or the pools a value of another kind.
LEMMA DataTypedKept ==
    ASSUME TypeOK, DataTyped, RunsReserved, JobsProgress, [Next]_vars
    PROVE  DataTyped'
<1> USE DEF DataTyped
<1>1. NoJob \in JobType
  BY DEF NoJob, JobType
<1>2. ASSUME NEW t \in Proc, NEW s \in Space, NEW at \in Nat, NEW cnt \in Nat, Starts(t, s, at, cnt)
      PROVE  DataTyped'
  BY <1>2, RunTyped DEF Starts
<1>3. ASSUME NEW t \in Proc, NEW s \in {t, Kernel}, NEW cnt \in 1..MaxCnt, Malloc(t, s, cnt)
      PROVE  DataTyped'
  <2>1. PICK at \in Nat : Starts(t, s, at, cnt)
    BY <1>3, MallocStarts
  <2>2. s \in Space /\ cnt \in Nat
    BY DEF Space
  <2> QED BY <1>2, <2>1, <2>2
<1>4. ASSUME NEW t \in Proc, NEW r \in Fixed, MallocFixed(t, r[1], r[2])
      PROVE  DataTyped'
  <2>1. t \in Space /\ r[1] \in Nat /\ r[2] \in Nat
    BY MemoryAssumption DEF Space
  <2>2. CASE Starts(t, t, r[1], r[2])
    BY <1>2, <2>1, <2>2
  <2>3. CASE OnlyReserves(t)
    BY <2>3 DEF OnlyReserves
  <2> QED BY <1>4, <2>2, <2>3, MallocFixedStarts
<1>5. ASSUME NEW t \in Proc, TakeFrame(t) PROVE DataTyped'
  <2> DEFINE pool == PoolFor(t)
             no == BitmapAcquire(pbits[pool], IF pool = "k" THEN KFrames ELSE UFrames, 1)
  <2>1. CASE no = -1
    <3>1. pbits' = pbits /\ job' = [job EXCEPT ![t] = NoJob] /\ owned' = owned
      BY <1>5, <2>1 DEF TakeFrame
    <3> QED BY <1>1, <3>1
  <2>2. CASE no # -1
    <3>1. no \in Nat /\ pool \in Pool
      BY <2>2, PoolForTyped, FrameAcquired
    <3>2. pbits' = [pbits EXCEPT ![pool] = @ \cup {no}] /\ job' = job /\ owned' = owned
      BY <1>5, <2>2 DEF TakeFrame
    <3> HIDE DEF no, pool
    <3> QED BY <3>1, <3>2
  <2> QED BY <2>1, <2>2
<1>6. ASSUME NEW t \in Proc, AddTable(t) PROVE DataTyped'
  <2> DEFINE no == BitmapAcquire(pbits["k"], KFrames, 1)
  <2>1. no \in Nat
    BY <1>6, FrameAcquired DEF AddTable, Pool
  <2>2. pbits' = [pbits EXCEPT !["k"] = @ \cup {no}] /\ job' = job /\ owned' = owned
    BY <1>6 DEF AddTable
  <2> HIDE DEF no
  <2> QED BY <2>1, <2>2 DEF Pool
<1>7. ASSUME NEW t \in Proc, Map(t) PROVE DataTyped'
  <2>1. pbits' = pbits
    BY <1>7 DEF Map
  <2>2. CASE LastPage(t)
    <3>1. owned' = [owned EXCEPT ![t] = @ \cup {Finished(t)}] /\ job' = [job EXCEPT ![t] = NoJob]
      BY <1>7, <2>2 DEF Map, Finished
    <3> QED BY <1>1, <2>1, <3>1, FinishedTyped
  <2>3. CASE ~LastPage(t)
    <3>1. owned' = owned /\ Advance(t)
      BY <1>7, <2>3 DEF Map
    <3> QED BY <2>1, <3>1, Advanced
  <2> QED BY <2>2, <2>3
<1>8. ASSUME NEW t \in Proc, NEW r \in owned[t], Free(t, r) PROVE DataTyped'
  BY <1>8 DEF Free
<1>9. ASSUME NEW t \in Proc, FreeFrame(t) PROVE DataTyped'
  <2>1. PoolFor(t) \in Pool
    BY PoolForTyped
  <2> QED BY <1>9, <2>1 DEF FreeFrame
<1>10. ASSUME NEW t \in Proc, Unmap(t) PROVE DataTyped'
  <2>1. pbits' = pbits /\ owned' = owned /\ Advance(t)
    BY <1>10 DEF Unmap
  <2> QED BY <2>1, Advanced
<1>11. ASSUME NEW t \in Proc, ReleaseVaddr(t) PROVE DataTyped'
  BY <1>1, <1>11 DEF ReleaseVaddr
<1>12. ASSUME NEW t \in Proc, Exit(t) PROVE DataTyped'
  BY <1>12 DEF Exit
<1>13. ASSUME NEW t \in Proc, DeletePage(t) PROVE DataTyped'
  <2>1. t \in Space /\ vbits[t] \in SUBSET Nat /\ vbits[t] # {}
    BY <1>13, PageNumbers DEF DeletePage, Space, TypeOK
  <2>2. Run(t, Min(vbits[t]), 1) \in JobType
    BY <2>1, MinNat, RunTyped
  <2> QED BY <1>13, <2>2 DEF DeletePage
<1>14. ASSUME NEW t \in Proc, DeleteTable(t) PROVE DataTyped'
  BY <1>14 DEF DeleteTable, Pool
<1>15. ASSUME NEW t \in Proc, Gone(t) PROVE DataTyped'
  BY <1>15 DEF Gone
<1>16. CASE UNCHANGED vars
  BY <1>16 DEF vars
<1> QED
  BY <1>3, <1>4, <1>5, <1>6, <1>7, <1>8, <1>9, <1>10, <1>11, <1>12, <1>13, <1>14, <1>15, <1>16 DEF Next

\* Nor the other variables.
LEMMA TypeKept ==
    ASSUME TypeOK, DataTyped, RunsReserved, JobsProgress, [Next]_vars
    PROVE  TypeOK'
<1> USE DEF TypeOK, Goto, tables, PC
<1>1. NoFrame \in AnyFrame
  BY DEF AnyFrame
<1>2. ASSUME NEW t \in Proc, NEW s \in {t, Kernel}, NEW at \in Nat, NEW cnt \in Nat,
             Starts(t, s, at, cnt)
      PROVE  TypeOK'
  <2>1. s \in Space
    BY DEF Space
  <2> QED BY <1>2, <2>1 DEF Starts
<1>3. ASSUME NEW t \in Proc, NEW s \in {t, Kernel}, NEW cnt \in 1..MaxCnt, Malloc(t, s, cnt)
      PROVE  TypeOK'
  <2>1. PICK at \in Nat : Starts(t, s, at, cnt)
    BY <1>3, MallocStarts
  <2>2. cnt \in Nat
    OBVIOUS
  <2> QED BY <1>2, <2>1, <2>2
<1>4. ASSUME NEW t \in Proc, NEW r \in Fixed, MallocFixed(t, r[1], r[2])
      PROVE  TypeOK'
  <2>1. r[1] \in Nat /\ r[2] \in Nat /\ t \in {t, Kernel}
    BY MemoryAssumption
  <2>2. CASE Starts(t, t, r[1], r[2])
    BY <1>2, <2>1, <2>2
  <2>3. CASE OnlyReserves(t)
    BY <2>3 DEF OnlyReserves
  <2> QED BY <1>4, <2>2, <2>3, MallocFixedStarts
<1>5. ASSUME NEW t \in Proc, TakeFrame(t) PROVE TypeOK'
  <2> DEFINE pool == PoolFor(t)
             no == BitmapAcquire(pbits[pool], IF pool = "k" THEN KFrames ELSE UFrames, 1)
  <2>1. CASE no = -1
    BY <1>5, <2>1 DEF TakeFrame
  <2>2. CASE no # -1
    <3>1. no \in FrameNo(pool) /\ no \in AnyFrame /\ pool \in Pool
      BY <2>2, PoolForTyped, FrameAcquired
    <3>2. /\ pbits' = [pbits EXCEPT ![pool] = @ \cup {no}] /\ pc' = [pc EXCEPT ![t] = "map"]
          /\ frame' = [frame EXCEPT ![t] = no]
          /\ UNCHANGED <<vbits, tables, exiting>>
      BY <1>5, <2>2 DEF TakeFrame
    <3> HIDE DEF no, pool
    <3> QED BY <3>1, <3>2 DEF DataTyped, Pool
  <2> QED BY <2>1, <2>2
<1>6. ASSUME NEW t \in Proc, AddTable(t) PROVE TypeOK'
  <2> DEFINE no == BitmapAcquire(pbits["k"], KFrames, 1)
  <2>1. no \in FrameNo("k") /\ no \in AnyFrame
    BY <1>6, FrameAcquired DEF AddTable, Pool
  <2>2. /\ pbits' = [pbits EXCEPT !["k"] = @ \cup {no}] /\ pde' = [pde EXCEPT ![t] = no]
        /\ UNCHANGED <<vbits, pte, pc, job, frame, owned, exiting>>
    BY <1>6 DEF AddTable
  <2> HIDE DEF no
  <2> QED BY <2>1, <2>2 DEF DataTyped, Pool
<1>7. ASSUME NEW t \in Proc, Map(t) PROVE TypeOK'
  <2>1. /\ vbits' = vbits /\ pbits' = pbits /\ pde' = pde /\ exiting' = exiting
        /\ pc' \in [Proc -> PC] /\ frame' = [frame EXCEPT ![t] = NoFrame]
        /\ pte' = [pte EXCEPT ![job[t].space][PageOf(t)] = frame[t]]
    BY <1>7 DEF Map
  <2>2. PageOf(t) \in Page /\ job[t].space \in Space
    BY <1>7, PageOfJob DEF Map, Busy
  <2> QED BY <1>1, <2>1, <2>2
<1>8. ASSUME NEW t \in Proc, NEW r \in owned[t], Free(t, r) PROVE TypeOK'
  BY <1>8 DEF Free
<1>9. ASSUME NEW t \in Proc, FreeFrame(t) PROVE TypeOK'
  BY <1>9, PoolForTyped DEF FreeFrame, DataTyped, Pool
<1>10. ASSUME NEW t \in Proc, Unmap(t) PROVE TypeOK'
  <2>1. /\ UNCHANGED <<vbits, pbits, pde, frame, exiting>>
        /\ pc' \in [Proc -> PC]
        /\ pte' = [pte EXCEPT ![job[t].space][PageOf(t)] = NoFrame]
    BY <1>10 DEF Unmap
  <2>2. PageOf(t) \in Page /\ job[t].space \in Space
    BY <1>10, PageOfJob DEF Unmap, Busy
  <2> QED BY <1>1, <2>1, <2>2
<1>11. ASSUME NEW t \in Proc, ReleaseVaddr(t) PROVE TypeOK'
  BY <1>11 DEF ReleaseVaddr
<1>12. ASSUME NEW t \in Proc, Exit(t) PROVE TypeOK'
  BY <1>12 DEF Exit
<1>13. ASSUME NEW t \in Proc, DeletePage(t) PROVE TypeOK'
  BY <1>13 DEF DeletePage
<1>14. ASSUME NEW t \in Proc, DeleteTable(t) PROVE TypeOK'
  BY <1>1, <1>14 DEF DeleteTable, DataTyped, Pool
<1>15. ASSUME NEW t \in Proc, Gone(t) PROVE TypeOK'
  BY <1>15 DEF Gone
<1>16. CASE UNCHANGED vars
  BY <1>16 DEF vars
<1> QED
  BY <1>3, <1>4, <1>5, <1>6, <1>7, <1>8, <1>9, <1>10, <1>11, <1>12, <1>13, <1>14, <1>15, <1>16 DEF Next

\* A step that starts no run and grants none keeps the runs apart.
LEMMA ApartSame ==
    ASSUME RunsApart, \A u \in Proc : owned'[u] \subseteq owned[u],
           \A u \in Proc : Busy(u)' => /\ Busy(u) /\ job'[u].space = job[u].space
                                       /\ PagesOf(job'[u]) = PagesOf(job[u])
    PROVE  RunsApart'
BY DEF RunsApart, Apart

\* So does one that starts a run away from all others.
LEMMA ApartNewJob ==
    ASSUME RunsApart, NEW t \in Proc, \A u \in Proc : owned'[u] \subseteq owned[u],
           \A u \in Proc : u # t => (Busy(u)' <=> Busy(u)) /\ job'[u] = job[u],
           \A u \in Proc : \A q \in owned'[u] : Apart(q, job'[t]),
           \A u \in Proc : u # t /\ Busy(u) => Apart(job[u], job'[t])
    PROVE  RunsApart'
BY DEF RunsApart, Apart

\* No page is given to two calls: not by the bitmap, nor by the way from the call of
\* page_malloc to its caller, and from there to page_free (memory.c:209-274, 609-640).
LEMMA RunsApartKept ==
    ASSUME TypeOK, DataTyped, RunsApart, RunsReserved, JobsProgress, [Next]_vars
    PROVE  RunsApart'
<1> USE DEF Goto
<1>1. ASSUME NEW t \in Proc, NEW s \in {t, Kernel}, NEW at \in Nat, NEW cnt \in Nat,
             Starts(t, s, at, cnt)
      PROVE  RunsApart'
  <2> DEFINE run == Run(s, at, cnt)
  <2>1. /\ job'[t] = run /\ \A u \in Proc : u # t => pc'[u] = pc[u] /\ job'[u] = job[u]
        /\ owned' = owned
    BY <1>1 DEF Starts, TypeOK, DataTyped
  <2>2. run.space = s /\ PagesOf(run) = at..(at + cnt - 1) /\ PagesOf(run) \cap vbits[s] = {}
    BY <1>1 DEF Starts, Run, PagesOf
  <2> HIDE DEF run
  <2>3. \A u \in Proc : \A q \in owned[u] : Apart(q, run)
    BY <2>2 DEF Apart, RunsReserved
  <2>4. \A u \in Proc : Busy(u) => Apart(job[u], run)
    BY <2>2 DEF Apart, RunsReserved
  <2> QED BY <2>1, <2>3, <2>4, ApartNewJob DEF Busy
<1>2. ASSUME NEW t \in Proc, NEW s \in {t, Kernel}, NEW cnt \in 1..MaxCnt, Malloc(t, s, cnt)
      PROVE  RunsApart'
  <2>1. PICK at \in Nat : Starts(t, s, at, cnt)
    BY <1>2, MallocStarts
  <2>2. cnt \in Nat
    OBVIOUS
  <2> QED BY <1>1, <2>1, <2>2
<1>3. ASSUME NEW t \in Proc, NEW r \in Fixed, MallocFixed(t, r[1], r[2])
      PROVE  RunsApart'
  <2>1. r[1] \in Nat /\ r[2] \in Nat /\ t \in {t, Kernel}
    BY MemoryAssumption
  <2>2. CASE Starts(t, t, r[1], r[2])
    BY <1>1, <2>1, <2>2
  <2>3. CASE OnlyReserves(t)
    BY <2>3, ApartSame DEF OnlyReserves, Busy
  <2> QED BY <1>3, <2>2, <2>3, MallocFixedStarts
<1>4. ASSUME NEW t \in Proc, TakeFrame(t) PROVE RunsApart'
  <2>1. /\ owned' = owned /\ pc[t] # "idle"
        /\ \/ pc' = [pc EXCEPT ![t] = "idle"] /\ job' = [job EXCEPT ![t] = NoJob]
           \/ pc' = [pc EXCEPT ![t] = "map"] /\ job' = job
    BY <1>4 DEF TakeFrame
  <2> QED BY <2>1, ApartSame DEF Busy, TypeOK, DataTyped
<1>5. ASSUME NEW t \in Proc, AddTable(t) \/ DeleteTable(t) \/ Gone(t) PROVE RunsApart'
  BY <1>5, ApartSame DEF AddTable, DeleteTable, Gone, Busy
<1>6. ASSUME NEW t \in Proc, Map(t) PROVE RunsApart'
  <2>0. pc[t] = "map" /\ \A u \in Proc : u # t => pc'[u] = pc[u]
    BY <1>6 DEF Map, TypeOK
  <2>1. CASE LastPage(t)
    <3>1. /\ owned' = [owned EXCEPT ![t] = @ \cup {Finished(t)}] /\ pc'[t] = "idle"
          /\ job' = [job EXCEPT ![t] = NoJob]
      BY <1>6, <2>1 DEF Map, Finished, TypeOK
    <3>2. /\ \A u \in Proc : Busy(u)' => u # t /\ Busy(u) /\ job'[u] = job[u]
          /\ \A u \in Proc : \A r \in owned'[u] : r \in owned[u] \/ (u = t /\ r = Finished(t))
          /\ Busy(t)
      BY <2>0, <3>1 DEF Busy, DataTyped
    <3>3. Finished(t).space = job[t].space /\ PagesOf(Finished(t)) = PagesOf(job[t])
      BY FinishedTyped
    <3>4. \A u \in Proc : \A r \in owned[u] : Apart(r, Finished(t)) /\ Apart(Finished(t), r)
      BY <3>2, <3>3 DEF RunsApart, Apart
    <3>5. \A u \in Proc : u # t /\ Busy(u) => Apart(Finished(t), job[u])
      BY <3>2, <3>3 DEF RunsApart, Apart
    <3>6. \A u, v \in Proc : \A r \in owned'[u], q \in owned'[v] : (u = v /\ r = q) \/ Apart(r, q)
      BY <3>2, <3>4 DEF RunsApart
    <3>7. \A u, v \in Proc : \A r \in owned'[u] : Busy(v)' => Apart(r, job'[v])
      BY <3>2, <3>5 DEF RunsApart
    <3>8. \A u, v \in Proc : u # v /\ Busy(u)' /\ Busy(v)' => Apart(job'[u], job'[v])
      BY <3>2 DEF RunsApart
    <3> QED BY <3>6, <3>7, <3>8 DEF RunsApart
  <2>2. CASE ~LastPage(t)
    <3>1. owned' = owned /\ Advance(t)
      BY <1>6, <2>2 DEF Map
    <3> QED BY <2>0, <3>1, Advanced, ApartSame DEF Busy, PagesOf
  <2> QED BY <2>1, <2>2
<1>7. ASSUME NEW t \in Proc, NEW r \in owned[t], Free(t, r) PROVE RunsApart'
  <2>1. /\ owned' = [owned EXCEPT ![t] = @ \ {r}] /\ job' = [job EXCEPT ![t] = r]
        /\ pc' = [pc EXCEPT ![t] = "unframe"]
    BY <1>7 DEF Free
  <2>2. /\ \A u \in Proc : owned'[u] \subseteq owned[u]
        /\ job'[t] = r /\ r \notin owned'[t]
        /\ \A u \in Proc : u # t => pc'[u] = pc[u] /\ job'[u] = job[u]
    BY <2>1 DEF TypeOK, DataTyped
  <2>3. \A u \in Proc : \A q \in owned'[u] : Apart(q, r)
    BY <2>2 DEF RunsApart
  <2>4. \A u \in Proc : Busy(u) => Apart(job[u], r)
    BY DEF RunsApart, Apart
  <2> QED BY <2>2, <2>3, <2>4, ApartNewJob DEF Busy
<1>8. ASSUME NEW t \in Proc, FreeFrame(t) \/ ReleaseVaddr(t) PROVE RunsApart'
  <2>1. /\ owned' = owned /\ pc[t] # "idle" /\ \A u \in Proc : u # t => pc'[u] = pc[u]
        /\ \/ pc'[t] = "idle" /\ job' = [job EXCEPT ![t] = NoJob]
           \/ job' = job
    BY <1>8 DEF FreeFrame, ReleaseVaddr, TypeOK
  <2> QED BY <2>1, ApartSame DEF Busy, DataTyped
<1>9. ASSUME NEW t \in Proc, Unmap(t) PROVE RunsApart'
  <2>1. owned' = owned /\ Advance(t) /\ pc[t] = "unmap" /\ \A u \in Proc : u # t => pc'[u] = pc[u]
    BY <1>9 DEF Unmap, TypeOK
  <2> QED BY <2>1, Advanced, ApartSame DEF Busy, PagesOf
<1>10. ASSUME NEW t \in Proc, Exit(t) PROVE RunsApart'
  <2>1. pc' = pc /\ job' = job /\ \A u \in Proc : owned'[u] \subseteq owned[u]
    BY <1>10 DEF Exit, DataTyped
  <2> QED BY <2>1, ApartSame DEF Busy
<1>11. ASSUME NEW t \in Proc, DeletePage(t) PROVE RunsApart'
  <2> DEFINE run == Run(t, Min(vbits[t]), 1)
  <2>1. /\ owned' = owned /\ job'[t] = run /\ t \in exiting
        /\ \A u \in Proc : u # t => pc'[u] = pc[u] /\ job'[u] = job[u]
    BY <1>11 DEF DeletePage, TypeOK, DataTyped
  <2>2. run.space = t /\ t # Kernel
    BY MemoryAssumption DEF Run
  <2> HIDE DEF run
  <2>3. \A u \in Proc : \A q \in owned[u] : Apart(q, run)
    BY <2>1, <2>2 DEF Apart, RunsReserved
  <2>4. \A u \in Proc : u # t /\ Busy(u) => Apart(job[u], run)
    BY <2>2 DEF Apart, RunsReserved
  <2> QED BY <2>1, <2>3, <2>4, ApartNewJob DEF Busy
<1>12. CASE UNCHANGED vars
  BY <1>12, ApartSame DEF vars, Busy
<1> QED
  BY <1>2, <1>3, <1>4, <1>5, <1>6, <1>7, <1>8, <1>9, <1>10, <1>11, <1>12 DEF Next

\* A step that gives up no virtual bits keeps the runs reserved.
LEMMA ReservedSame ==
    ASSUME TypeOK, RunsReserved, pte' = pte, \A s \in Space : vbits[s] \subseteq vbits'[s],
           \A u \in Proc : owned'[u] \subseteq owned[u],
           \A u \in Proc : \A r \in owned'[u] : r.space = Kernel \/ u \notin exiting',
           \A u \in Proc : Busy(u)' => /\ job'[u].space \in {u, Kernel}
                                       /\ PagesOf(job'[u]) \subseteq vbits'[job'[u].space]
    PROVE  RunsReserved'
BY DEF RunsReserved, Space

\* The pages of an owner stay its own and mapped: the calls of others work at pages of
\* theirs, and its own call has left the run to it or has taken it back.
LEMMA RunsReservedKept ==
    ASSUME TypeOK, DataTyped, RunsApart, RunsReserved, JobsProgress, [Next]_vars
    PROVE  RunsReserved'
<1> USE DEF Goto, tables
<1>0. \A u \in Proc : u \in Space /\ Kernel \in Space
  BY DEF Space
<1>1. ASSUME NEW t \in Proc, NEW s \in {t, Kernel}, NEW at \in Nat, NEW cnt \in Nat,
             Starts(t, s, at, cnt)
      PROVE  RunsReserved'
  <2>1. /\ job'[t] = Run(s, at, cnt) /\ \A u \in Proc : u # t => pc'[u] = pc[u] /\ job'[u] = job[u]
        /\ owned' = owned /\ pte' = pte /\ exiting' = exiting
        /\ vbits' = [vbits EXCEPT ![s] = @ \cup at..(at + cnt - 1)]
    BY <1>1 DEF Starts, TypeOK, DataTyped
  <2>2. Run(s, at, cnt).space = s /\ PagesOf(Run(s, at, cnt)) = at..(at + cnt - 1)
    BY DEF Run, PagesOf
  <2>3. \A z \in Space : vbits[z] \subseteq vbits'[z] /\ at..(at + cnt - 1) \subseteq vbits'[s]
    BY <1>0, <2>1 DEF TypeOK
  <2>4. \A u \in Proc : Busy(u)' => /\ job'[u].space \in {u, Kernel}
                                    /\ PagesOf(job'[u]) \subseteq vbits'[job'[u].space]
    BY <1>0, <2>1, <2>2, <2>3 DEF RunsReserved, Busy
  <2>5. \A u \in Proc : \A r \in owned'[u] : r.space = Kernel \/ u \notin exiting'
    BY <2>1 DEF RunsReserved
  <2> QED BY <2>1, <2>3, <2>4, <2>5, ReservedSame
<1>2. ASSUME NEW t \in Proc, NEW s \in {t, Kernel}, NEW cnt \in 1..MaxCnt, Malloc(t, s, cnt)
      PROVE  RunsReserved'
  <2>1. PICK at \in Nat : Starts(t, s, at, cnt)
    BY <1>2, MallocStarts
  <2>2. cnt \in Nat
    OBVIOUS
  <2> QED BY <1>1, <2>1, <2>2
<1>3. ASSUME NEW t \in Proc, NEW r \in Fixed, MallocFixed(t, r[1], r[2])
      PROVE  RunsReserved'
  <2>1. r[1] \in Nat /\ r[2] \in Nat /\ t \in {t, Kernel}
    BY MemoryAssumption
  <2>2. CASE Starts(t, t, r[1], r[2])
    BY <1>1, <2>1, <2>2
  <2>3. CASE OnlyReserves(t)
    BY <1>0, <2>3 DEF OnlyReserves, RunsReserved, Busy
  <2> QED BY <1>3, <2>2, <2>3, MallocFixedStarts
<1>4. ASSUME NEW t \in Proc, TakeFrame(t) PROVE RunsReserved'
  <2>1. /\ owned' = owned /\ pc[t] # "idle" /\ UNCHANGED <<vbits, pte, exiting>>
        /\ \/ pc' = [pc EXCEPT ![t] = "idle"] /\ job' = [job EXCEPT ![t] = NoJob]
           \/ pc' = [pc EXCEPT ![t] = "map"] /\ job' = job
    BY <1>4 DEF TakeFrame
  <2> QED BY <2>1, ReservedSame DEF Busy, TypeOK, DataTyped, RunsReserved
<1>5. ASSUME NEW t \in Proc, AddTable(t) \/ DeleteTable(t) \/ Gone(t) \/ Exit(t) PROVE RunsReserved'
  <2>1. /\ UNCHANGED <<vbits, pte, pc, job>>
        /\ \A u \in Proc : owned'[u] \subseteq owned[u]
        /\ \A u \in Proc : \A r \in owned'[u] : r.space = Kernel \/ u \notin exiting'
    BY <1>5 DEF AddTable, DeleteTable, Gone, Exit, RunsReserved, DataTyped
  <2> QED BY <2>1, ReservedSame DEF Busy, RunsReserved
<1>6. ASSUME NEW t \in Proc, Map(t) PROVE RunsReserved'
  <2>0. /\ pc[t] = "map" /\ \A u \in Proc : u # t => pc'[u] = pc[u]
        /\ UNCHANGED <<vbits, exiting>>
        /\ pte' = [pte EXCEPT ![job[t].space][PageOf(t)] = frame[t]]
    BY <1>6 DEF Map, TypeOK
  <2>1. /\ PageOf(t) \in PagesOf(job[t]) /\ PageOf(t) \in Page /\ PageOf(t) \in Nat
        /\ job[t].space \in Space /\ job[t].space \in {t, Kernel}
        /\ PagesOf(job[t]) \subseteq vbits[job[t].space] /\ frame[t] # NoFrame
    BY <2>0, PageOfJob DEF Busy, RunsReserved, JobsProgress, Progress
  <2>2. /\ pte'[job[t].space][PageOf(t)] = frame[t]
        /\ \A s \in Space, p \in Page : s # job[t].space \/ p # PageOf(t) => pte'[s][p] = pte[s][p]
    BY <2>0, <2>1 DEF TypeOK
  <2>3. /\ \A s \in Space, p \in Page : pte'[s][p] # NoFrame => p \in vbits'[s]
        /\ \A s \in Space, p \in Page : pte[s][p] # NoFrame => pte'[s][p] # NoFrame
    BY <2>0, <2>1, <2>2 DEF RunsReserved
  <2>4. \A u \in Proc : \A r \in owned[u] : PagesOf(r) \subseteq Page /\ r.space \in Space
    BY <1>0 DEF RunsReserved, TypeOK
  <2>5. CASE LastPage(t)
    <3>1. /\ owned' = [owned EXCEPT ![t] = @ \cup {Finished(t)}] /\ pc'[t] = "idle"
          /\ job' = [job EXCEPT ![t] = NoJob]
      BY <1>6, <2>5 DEF Map, Finished, TypeOK
    <3>2. /\ Finished(t).space = job[t].space /\ PagesOf(Finished(t)) = PagesOf(job[t])
          /\ Finished(t).n = 0 /\ Finished(t).cnt = job[t].cnt /\ job[t].cnt > 0
      BY <2>0, FinishedTyped, PageOfJob DEF Busy
    <3>3. \A p \in PagesOf(job[t]) : pte'[job[t].space][p] # NoFrame
      <4> TAKE p \in PagesOf(job[t])
      <4>1. p < PageOf(t) \/ p = PageOf(t)
        BY <2>0, <2>5, PageOfJob DEF Busy, PagesOf, PageOf, LastPage
      <4>2. p < PageOf(t) => pte[job[t].space][p] # NoFrame
        BY <2>0 DEF JobsProgress, Progress
      <4>3. p \in Page
        BY <2>1 DEF TypeOK
      <4> QED BY <2>1, <2>2, <2>3, <4>1, <4>2, <4>3
    <3>4. t \notin exiting
      BY <2>0 DEF JobsProgress, Progress
    <3>5. \A u \in Proc : \A r \in owned'[u] : r \in owned[u] \/ (u = t /\ r = Finished(t))
      BY <3>1 DEF DataTyped
    <3>6. \A u \in Proc : Busy(u)' => u # t /\ Busy(u) /\ job'[u] = job[u]
      BY <2>0, <3>1 DEF Busy, DataTyped
    <3>7. ASSUME NEW u \in Proc, NEW r \in owned'[u]
          PROVE  /\ r.space = Kernel \/ (r.space = u /\ u \notin exiting')
                 /\ r.n = 0 /\ r.cnt > 0
                 /\ PagesOf(r) \subseteq vbits'[r.space]
                 /\ \A p \in PagesOf(r) : pte'[r.space][p] # NoFrame
      <4>1. CASE r \in owned[u]
        BY <2>0, <2>3, <2>4, <4>1 DEF RunsReserved
      <4>2. CASE u = t /\ r = Finished(t)
        BY <2>0, <2>1, <3>2, <3>3, <3>4, <4>2
      <4> QED BY <3>5, <4>1, <4>2
    <3> QED BY <2>0, <2>3, <3>6, <3>7 DEF RunsReserved
  <2>6. CASE ~LastPage(t)
    <3>1. owned' = owned /\ Advance(t)
      BY <1>6, <2>6 DEF Map
    <3>2. \A u \in Proc : Busy(u)' => /\ Busy(u) /\ job'[u].space = job[u].space
                                      /\ PagesOf(job'[u]) = PagesOf(job[u])
      BY <2>0, <3>1, Advanced DEF Busy, PagesOf
    <3>3. \A u \in Proc : Busy(u)' => /\ job'[u].space \in {u, Kernel}
                                      /\ PagesOf(job'[u]) \subseteq vbits'[job'[u].space]
      BY <2>0, <3>2 DEF RunsReserved
    <3>4. \A u \in Proc : \A r \in owned'[u] :
              /\ r.space = Kernel \/ (r.space = u /\ u \notin exiting')
              /\ r.n = 0 /\ r.cnt > 0
              /\ PagesOf(r) \subseteq vbits'[r.space]
              /\ \A p \in PagesOf(r) : pte'[r.space][p] # NoFrame
      BY <2>0, <2>3, <2>4, <3>1 DEF RunsReserved
    <3> QED BY <2>3, <3>3, <3>4 DEF RunsReserved
  <2> QED BY <2>5, <2>6
<1>7. ASSUME NEW t \in Proc, NEW r \in owned[t], Free(t, r) PROVE RunsReserved'
  <2>1. /\ owned' = [owned EXCEPT ![t] = @ \ {r}] /\ job' = [job EXCEPT ![t] = r]
        /\ pc' = [pc EXCEPT ![t] = "unframe"] /\ UNCHANGED <<vbits, pte, exiting>>
    BY <1>7 DEF Free
  <2>2. /\ \A u \in Proc : owned'[u] \subseteq owned[u]
        /\ job'[t] = r
        /\ \A u \in Proc : u # t => pc'[u] = pc[u] /\ job'[u] = job[u]
    BY <2>1 DEF TypeOK, DataTyped
  <2>3. r.space \in {t, Kernel} /\ PagesOf(r) \subseteq vbits[r.space]
    BY DEF RunsReserved
  <2> QED BY <2>1, <2>2, <2>3, ReservedSame DEF Busy, RunsReserved
<1>8. ASSUME NEW t \in Proc, FreeFrame(t) PROVE RunsReserved'
  <2>1. /\ UNCHANGED <<vbits, pte, job, owned, exiting>> /\ pc[t] # "idle"
        /\ \A u \in Proc : u # t => pc'[u] = pc[u]
    BY <1>8 DEF FreeFrame, TypeOK
  <2> QED BY <2>1, ReservedSame DEF Busy, RunsReserved
<1>9. ASSUME NEW t \in Proc, ReleaseVaddr(t) PROVE RunsReserved'
  <2>1. /\ UNCHANGED <<pte, owned, exiting>> /\ pc[t] = "unvaddr" /\ pc'[t] = "idle"
        /\ \A u \in Proc : u # t => pc'[u] = pc[u] /\ job'[u] = job[u]
        /\ vbits' = [vbits EXCEPT ![job[t].space] = @ \ PagesOf(job[t])]
    BY <1>9 DEF ReleaseVaddr, TypeOK, DataTyped
  <2>2. job[t].space \in Space
    BY <1>0, <2>1 DEF Busy, RunsReserved
  <2>3. /\ vbits'[job[t].space] = vbits[job[t].space] \ PagesOf(job[t])
        /\ \A s \in Space : s # job[t].space => vbits'[s] = vbits[s]
    BY <2>1, <2>2 DEF TypeOK
  <2>4. \A p \in PagesOf(job[t]) : pte[job[t].space][p] = NoFrame
    <3>1. /\ job[t].first \in Nat /\ job[t].cnt \in Nat /\ job[t].n = job[t].cnt
      BY <2>1 DEF Busy, JobsProgress, Progress, DataTyped, JobType
    <3>2. \A p \in PagesOf(job[t]) : p < PageOf(t)
      BY <3>1 DEF PagesOf, PageOf
    <3> QED BY <2>1, <3>2 DEF JobsProgress, Progress
  <2>5. ASSUME NEW u \in Proc, NEW r \in owned[u]
        PROVE  PagesOf(r) \subseteq vbits'[r.space]
    <3>1. Apart(r, job[t]) /\ r.space \in Space /\ PagesOf(r) \subseteq vbits[r.space]
      BY <1>0, <2>1 DEF RunsApart, RunsReserved, Busy
    <3> QED BY <2>3, <3>1 DEF Apart
  <2>6. ASSUME NEW u \in Proc, Busy(u)'
        PROVE  job'[u].space \in {u, Kernel} /\ PagesOf(job'[u]) \subseteq vbits'[job'[u].space]
    <3>1. u # t /\ Busy(u) /\ Busy(t) /\ job'[u] = job[u]
      BY <2>1, <2>6 DEF Busy
    <3>2. Apart(job[u], job[t]) /\ job[u].space \in Space
      BY <1>0, <3>1 DEF RunsApart, RunsReserved
    <3> QED BY <2>3, <3>1, <3>2 DEF Apart, RunsReserved
  <2>7. \A s \in Space, p \in Page : pte'[s][p] # NoFrame => p \in vbits'[s]
    BY <2>1, <2>3, <2>4 DEF RunsReserved
  <2> QED BY <2>1, <2>5, <2>6, <2>7 DEF RunsReserved
<1>10. ASSUME NEW t \in Proc, Unmap(t) PROVE RunsReserved'
  <2>1. /\ UNCHANGED <<vbits, owned, exiting>> /\ pc[t] = "unmap" /\ Advance(t)
        /\ \A u \in Proc : u # t => pc'[u] = pc[u]
        /\ pte' = [pte EXCEPT ![job[t].space][PageOf(t)] = NoFrame]
    BY <1>10 DEF Unmap, TypeOK
  <2>2. PageOf(t) \in PagesOf(job[t]) /\ PageOf(t) \in Page /\ job[t].space \in Space
    BY <2>1, PageOfJob DEF Busy
  <2>3. /\ pte'[job[t].space][PageOf(t)] = NoFrame
        /\ \A s \in Space, p \in Page : s # job[t].space \/ p # PageOf(t) => pte'[s][p] = pte[s][p]
    BY <2>1, <2>2 DEF TypeOK
  <2>4. ASSUME NEW u \in Proc, NEW r \in owned[u], NEW p \in PagesOf(r)
        PROVE  pte'[r.space][p] # NoFrame
    <3>1. /\ Apart(r, job[t]) /\ r.space \in Space /\ PagesOf(r) \subseteq vbits[r.space]
          /\ pte[r.space][p] # NoFrame
      BY <1>0, <2>1 DEF RunsApart, RunsReserved, Busy
    <3>2. p \in Page /\ (r.space # job[t].space \/ p # PageOf(t))
      BY <2>2, <3>1 DEF Apart, TypeOK
    <3> QED BY <2>3, <3>1, <3>2
  <2>5. \A u \in Proc : Busy(u)' => /\ Busy(u) /\ job'[u].space = job[u].space
                                    /\ PagesOf(job'[u]) = PagesOf(job[u])
    BY <2>1, Advanced DEF Busy, PagesOf
  <2>6. \A s \in Space, p \in Page : pte'[s][p] # NoFrame => p \in vbits'[s]
    BY <2>1, <2>3 DEF RunsReserved
  <2> QED BY <2>1, <2>4, <2>5, <2>6 DEF RunsReserved
<1>11. ASSUME NEW t \in Proc, DeletePage(t) PROVE RunsReserved'
  <2> DEFINE run == Run(t, Min(vbits[t]), 1)
  <2>1. /\ UNCHANGED <<vbits, pte, owned, exiting>> /\ job'[t] = run
        /\ \A u \in Proc : u # t => pc'[u] = pc[u] /\ job'[u] = job[u]
    BY <1>11 DEF DeletePage, TypeOK, DataTyped
  <2>2. vbits[t] \in SUBSET Nat /\ vbits[t] # {}
    BY <1>0, <1>11, PageNumbers DEF DeletePage, TypeOK
  <2>3. Min(vbits[t]) \in vbits[t] /\ Min(vbits[t]) \in Nat
    BY <2>2, MinNat
  <2>4. run.space = t /\ PagesOf(run) = {Min(vbits[t])}
    BY <2>3 DEF Run, PagesOf
  <2> HIDE DEF run
  <2>5. \A u \in Proc : Busy(u)' => /\ job'[u].space \in {u, Kernel}
                                    /\ PagesOf(job'[u]) \subseteq vbits'[job'[u].space]
    <3> TAKE u \in Proc
    <3>1. CASE u = t
      BY <2>1, <2>3, <2>4, <3>1
    <3>2. CASE u # t
      BY <2>1, <3>2 DEF Busy, RunsReserved
    <3> QED BY <3>1, <3>2
  <2>6. \A u \in Proc : \A r \in owned'[u] : r.space = Kernel \/ u \notin exiting'
    BY <2>1 DEF RunsReserved
  <2> QED BY <2>1, <2>5, <2>6, ReservedSame
<1>12. CASE UNCHANGED vars
  BY <1>12 DEF vars, Busy, RunsReserved
<1> QED
  BY <1>2, <1>3, <1>4, <1>5, <1>6, <1>7, <1>8, <1>9, <1>10, <1>11, <1>12 DEF Next

\* A step of one process does not disturb the call of another.
LEMMA ProgressOthers ==
    ASSUME TypeOK, RunsReserved, JobsProgress, NEW t \in Proc, exiting' \subseteq exiting \cup {t},
           \A u \in Proc : u # t => pc'[u] = pc[u] /\ job'[u] = job[u] /\ frame'[u] = frame[u],
           \A u \in Proc : u # t /\ Busy(u) =>
               \A p \in PagesOf(job[u]) : pte'[job[u].space][p] = pte[job[u].space][p],
           Progress(t)'
    PROVE  JobsProgress'
<1>1. ASSUME NEW u \in Proc, u # t PROVE Progress(u)'
  <2>1. Progress(u)
    BY DEF JobsProgress
  <2>2. pc'[u] = pc[u] /\ job'[u] = job[u] /\ frame'[u] = frame[u] /\ PageOf(u)' = PageOf(u)
    BY <1>1 DEF PageOf
  <2>3. u \in exiting' => u \in exiting
    BY <1>1
  <2> QED BY <1>1, <2>1, <2>2, <2>3 DEF Progress, Busy
<1> QED BY <1>1 DEF JobsProgress

\* A call has mapped the pages it has passed, and only those.
LEMMA JobsProgressKept ==
    ASSUME TypeOK, DataTyped, RunsApart, RunsReserved, JobsProgress, [Next]_vars
    PROVE  JobsProgress'
<1> USE DEF Goto, tables
<1>0. \A u \in Proc : Progress(u)
  BY DEF JobsProgress
<1>1. ASSUME NEW t \in Proc, NEW s \in {t, Kernel}, NEW at \in Nat, NEW cnt \in Nat \ {0},
             Starts(t, s, at, cnt)
      PROVE  JobsProgress'
  <2>1. /\ job'[t] = Run(s, at, cnt) /\ \A u \in Proc : u # t => pc'[u] = pc[u] /\ job'[u] = job[u]
        /\ UNCHANGED <<pte, frame, exiting>> /\ t \notin exiting /\ pc[t] = "idle" /\ pc'[t] = "frame"
    BY <1>1 DEF Starts, TypeOK, DataTyped
  <2>2. /\ Run(s, at, cnt).space = s /\ PagesOf(Run(s, at, cnt)) = at..(at + cnt - 1)
        /\ Run(s, at, cnt).first = at /\ Run(s, at, cnt).cnt = cnt /\ Run(s, at, cnt).n = 0
    BY DEF Run, PagesOf
  <2>3. PageOf(t)' = at
    BY <2>1, <2>2 DEF PageOf
  <2>4. \A p \in at..(at + cnt - 1) : pte[s][p] = NoFrame /\ ~(p < at)
    BY <1>1 DEF Starts, RunsReserved, Space
  <2>5. frame'[t] = NoFrame
    BY <1>0, <2>1 DEF Progress
  <2>6. Progress(t)'
    BY <2>1, <2>2, <2>3, <2>4, <2>5 DEF Progress, Busy
  <2> QED BY <2>1, <2>6, ProgressOthers
<1>2. ASSUME NEW t \in Proc, NEW s \in {t, Kernel}, NEW cnt \in 1..MaxCnt, Malloc(t, s, cnt)
      PROVE  JobsProgress'
  <2>1. PICK at \in Nat : Starts(t, s, at, cnt)
    BY <1>2, MallocStarts
  <2>2. cnt \in Nat \ {0}
    OBVIOUS
  <2> QED BY <1>1, <2>1, <2>2
<1>3. ASSUME NEW t \in Proc, NEW r \in Fixed, MallocFixed(t, r[1], r[2])
      PROVE  JobsProgress'
  <2>1. r[1] \in Nat /\ r[2] \in Nat \ {0} /\ t \in {t, Kernel}
    BY MemoryAssumption
  <2>2. CASE Starts(t, t, r[1], r[2])
    BY <1>1, <2>1, <2>2
  <2>3. CASE OnlyReserves(t)
    BY <2>3 DEF OnlyReserves, JobsProgress, Progress, Busy, PageOf
  <2> QED BY <1>3, <2>2, <2>3, MallocFixedStarts
<1>4. ASSUME NEW t \in Proc, TakeFrame(t) PROVE JobsProgress'
  <2> DEFINE pool == PoolFor(t)
             no == BitmapAcquire(pbits[pool], IF pool = "k" THEN KFrames ELSE UFrames, 1)
  <2>1. /\ pc[t] = "frame" /\ UNCHANGED <<pte, exiting>>
        /\ \/ pc'[t] = "idle" /\ frame' = frame /\ job' = [job EXCEPT ![t] = NoJob]
           \/ pc'[t] = "map" /\ no # -1 /\ frame' = [frame EXCEPT ![t] = no] /\ job' = job
        /\ \A u \in Proc : u # t => pc'[u] = pc[u]
    BY <1>4 DEF TakeFrame, TypeOK
  <2>2. no # -1 => no # NoFrame
    BY DEF NoFrame
  <2> HIDE DEF no
  <2>3. \A u \in Proc : u # t => job'[u] = job[u] /\ frame'[u] = frame[u]
    BY <2>1 DEF TypeOK, DataTyped
  <2>4. CASE pc'[t] = "idle"
    <3>1. Progress(t)'
      BY <1>0, <2>1, <2>4 DEF Progress, Busy
    <3> QED BY <2>1, <2>3, <3>1, ProgressOthers
  <2>5. CASE pc'[t] # "idle"
    <3>1. pc'[t] = "map" /\ frame'[t] # NoFrame /\ job' = job /\ PageOf(t)' = PageOf(t)
      BY <2>1, <2>2, <2>5 DEF TypeOK, PageOf
    <3>2. Progress(t)'
      BY <1>0, <2>1, <3>1 DEF Progress, Busy
    <3> QED BY <2>1, <2>3, <3>2, ProgressOthers
  <2> QED BY <2>4, <2>5
<1>5. ASSUME NEW t \in Proc, AddTable(t) \/ DeleteTable(t) \/ Gone(t) \/ Exit(t) PROVE JobsProgress'
  <2>1. /\ UNCHANGED <<pte, pc, job, frame>> /\ exiting' \subseteq exiting \cup {t}
        /\ t \in exiting' => t \in exiting \/ pc[t] = "idle"
        /\ PageOf(t)' = PageOf(t)
    BY <1>5 DEF AddTable, DeleteTable, Gone, Exit, PageOf
  <2>2. Progress(t)'
    BY <1>0, <2>1 DEF Progress, Busy
  <2> QED BY <2>1, <2>2, ProgressOthers
<1>6. ASSUME NEW t \in Proc, NEW value, Busy(t), pc[t] # "unvaddr",
             pte' = [pte EXCEPT ![job[t].space][PageOf(t)] = value]
      PROVE  \A u \in Proc : u # t /\ Busy(u) =>
                 \A p \in PagesOf(job[u]) : pte'[job[u].space][p] = pte[job[u].space][p]
  <2>1. /\ PageOf(t) \in PagesOf(job[t]) /\ PageOf(t) \in Page /\ job[t].space \in Space
    BY <1>6, PageOfJob
  <2>2. ASSUME NEW u \in Proc, u # t, Busy(u), NEW p \in PagesOf(job[u])
        PROVE  pte'[job[u].space][p] = pte[job[u].space][p]
    <3>1. Apart(job[u], job[t])
      BY <1>6, <2>2 DEF RunsApart
    <3>2. job[u].space \in Space /\ p \in vbits[job[u].space]
      BY <2>2 DEF RunsReserved, Space
    <3>3. p \in Page
      BY <3>2 DEF TypeOK
    <3>4. job[u].space # job[t].space \/ p # PageOf(t)
      BY <2>1, <2>2, <3>1 DEF Apart
    <3> QED BY <1>6, <2>1, <3>2, <3>3, <3>4 DEF TypeOK
  <2> QED BY <2>2
<1>7. ASSUME NEW t \in Proc, Map(t) PROVE JobsProgress'
  <2>1. /\ pc[t] = "map" /\ \A u \in Proc : u # t => pc'[u] = pc[u]
        /\ pc'[t] = (IF LastPage(t) THEN "idle" ELSE "frame")
        /\ exiting' = exiting /\ frame' = [frame EXCEPT ![t] = NoFrame]
        /\ pte' = [pte EXCEPT ![job[t].space][PageOf(t)] = frame[t]]
    BY <1>7 DEF Map, TypeOK
  <2>2. frame'[t] = NoFrame /\ \A u \in Proc : u # t => frame'[u] = frame[u]
    BY <2>1 DEF TypeOK
  <2>3. \A u \in Proc : u # t /\ Busy(u) =>
            \A p \in PagesOf(job[u]) : pte'[job[u].space][p] = pte[job[u].space][p]
    BY <1>6, <2>1 DEF Busy
  <2>4. CASE LastPage(t)
    <3>1. pc'[t] = "idle" /\ \A u \in Proc : u # t => job'[u] = job[u]
      BY <1>7, <2>1, <2>4 DEF Map, DataTyped
    <3>2. Progress(t)'
      BY <2>2, <3>1 DEF Progress, Busy
    <3> QED BY <2>1, <2>2, <2>3, <3>1, <3>2, ProgressOthers
  <2>5. CASE ~LastPage(t)
    <3>1. pc'[t] = "frame" /\ Advance(t)
      BY <1>7, <2>1, <2>5 DEF Map
    <3>2. /\ PageOf(t) \in PagesOf(job[t]) /\ PageOf(t) \in Page /\ job[t].space \in Space
          /\ job[t].first \in Nat /\ job[t].cnt \in Nat /\ job[t].n \in Nat /\ job[t].n < job[t].cnt
          /\ PageOf(t) \in Nat
      BY <2>1, PageOfJob DEF Busy
    <3>3. /\ job'[t].space = job[t].space /\ PagesOf(job'[t]) = PagesOf(job[t])
          /\ job'[t].n = job[t].n + 1 /\ job'[t].cnt = job[t].cnt /\ PageOf(t)' = PageOf(t) + 1
          /\ \A u \in Proc : u # t => job'[u] = job[u]
      BY <3>1, <3>2, Advanced DEF PagesOf, PageOf
    <3>4. frame[t] # NoFrame /\ t \notin exiting
          /\ \A p \in PagesOf(job[t]) : pte[job[t].space][p] # NoFrame <=> p < PageOf(t)
      BY <1>0, <2>1 DEF Progress
    <3>5. PagesOf(job[t]) \subseteq Page /\ PagesOf(job[t]) \subseteq Nat
      BY <2>1, <3>2, PageNumbers DEF Busy, RunsReserved, TypeOK
    <3>6. \A p \in PagesOf(job[t]) : pte'[job[t].space][p] # NoFrame <=> p < PageOf(t) + 1
      <4> TAKE p \in PagesOf(job[t])
      <4>1. CASE p = PageOf(t)
        BY <2>1, <3>2, <3>4, <4>1 DEF TypeOK
      <4>2. CASE p # PageOf(t)
        <5>1. pte'[job[t].space][p] = pte[job[t].space][p]
          BY <2>1, <3>2, <3>5, <4>2 DEF TypeOK
        <5>2. p \in Nat
          BY <3>5
        <5> QED BY <3>2, <3>4, <4>2, <5>1, <5>2
      <4> QED BY <4>1, <4>2
    <3>7. job[t].n + 1 < job[t].cnt
      BY <2>5, <3>2 DEF LastPage
    <3>8. Progress(t)'
      BY <2>1, <2>2, <3>1, <3>3, <3>4, <3>6, <3>7 DEF Progress, Busy
    <3> QED BY <2>1, <2>2, <2>3, <3>3, <3>8, ProgressOthers
  <2> QED BY <2>4, <2>5
<1>8. ASSUME NEW t \in Proc, NEW r \in owned[t], Free(t, r) PROVE JobsProgress'
  <2>1. /\ job' = [job EXCEPT ![t] = r] /\ pc[t] = "idle" /\ pc'[t] = "unframe"
        /\ \A u \in Proc : u # t => pc'[u] = pc[u]
        /\ UNCHANGED <<pte, frame, exiting>>
    BY <1>8 DEF Free, TypeOK
  <2>2. /\ job'[t] = r /\ \A u \in Proc : u # t => job'[u] = job[u]
        /\ r \in JobType /\ r.n = 0 /\ r.cnt > 0
    BY <2>1 DEF DataTyped, RunsReserved
  <2>3. PageOf(t)' = r.first /\ \A p \in PagesOf(r) : ~(p < r.first)
    BY <2>2 DEF PageOf, PagesOf, JobType
  <2>4. Progress(t)'
    BY <1>0, <2>1, <2>2, <2>3 DEF Progress, Busy
  <2> QED BY <2>1, <2>2, <2>4, ProgressOthers
<1>9. ASSUME NEW t \in Proc, FreeFrame(t) PROVE JobsProgress'
  <2>1. /\ UNCHANGED <<pte, job, frame, exiting>> /\ pc[t] = "unframe" /\ pc'[t] = "unmap"
        /\ \A u \in Proc : u # t => pc'[u] = pc[u]
        /\ PageOf(t)' = PageOf(t)
    BY <1>9 DEF FreeFrame, TypeOK, PageOf
  <2>2. Progress(t)'
    BY <1>0, <2>1 DEF Progress, Busy
  <2> QED BY <2>1, <2>2, ProgressOthers
<1>10. ASSUME NEW t \in Proc, Unmap(t) PROVE JobsProgress'
  <2>1. /\ pc[t] = "unmap" /\ \A u \in Proc : u # t => pc'[u] = pc[u]
        /\ pc'[t] = (IF LastPage(t) THEN "unvaddr" ELSE "unframe")
        /\ exiting' = exiting /\ frame' = frame /\ Advance(t)
        /\ pte' = [pte EXCEPT ![job[t].space][PageOf(t)] = NoFrame]
    BY <1>10 DEF Unmap, TypeOK
  <2>2. \A u \in Proc : u # t /\ Busy(u) =>
            \A p \in PagesOf(job[u]) : pte'[job[u].space][p] = pte[job[u].space][p]
    BY <1>6, <2>1 DEF Busy
  <2>3. /\ PageOf(t) \in PagesOf(job[t]) /\ PageOf(t) \in Page /\ job[t].space \in Space
        /\ job[t].first \in Nat /\ job[t].cnt \in Nat /\ job[t].n \in Nat /\ job[t].n < job[t].cnt
        /\ PageOf(t) \in Nat
    BY <2>1, PageOfJob DEF Busy
  <2>4. /\ job'[t].space = job[t].space /\ PagesOf(job'[t]) = PagesOf(job[t])
        /\ job'[t].n = job[t].n + 1 /\ job'[t].cnt = job[t].cnt /\ PageOf(t)' = PageOf(t) + 1
        /\ \A u \in Proc : u # t => job'[u] = job[u]
    BY <2>1, <2>3, Advanced DEF PagesOf, PageOf
  <2>5. \A p \in PagesOf(job[t]) : p < PageOf(t) => pte[job[t].space][p] = NoFrame
    BY <1>0, <2>1 DEF Progress
  <2>6. PagesOf(job[t]) \subseteq Page /\ PagesOf(job[t]) \subseteq Nat
    BY <2>1, <2>3, PageNumbers DEF Busy, RunsReserved, TypeOK
  <2>7. \A p \in PagesOf(job[t]) : p < PageOf(t) + 1 => pte'[job[t].space][p] = NoFrame
    <3> TAKE p \in PagesOf(job[t])
    <3>1. CASE p = PageOf(t)
      BY <2>1, <2>3, <3>1 DEF TypeOK
    <3>2. CASE p # PageOf(t)
      <4>1. pte'[job[t].space][p] = pte[job[t].space][p]
        BY <2>1, <2>3, <2>6, <3>2 DEF TypeOK
      <4>2. p \in Nat
        BY <2>6
      <4> QED BY <2>3, <2>5, <3>2, <4>1, <4>2
    <3> QED BY <3>1, <3>2
  <2>8. IF LastPage(t) THEN job[t].n + 1 = job[t].cnt ELSE job[t].n + 1 < job[t].cnt
    BY <2>3 DEF LastPage
  <2>9. frame[t] = NoFrame
    BY <1>0, <2>1 DEF Progress
  <2>10. Progress(t)'
    BY <2>1, <2>4, <2>7, <2>8, <2>9 DEF Progress, Busy
  <2> QED BY <2>1, <2>2, <2>4, <2>10, ProgressOthers
<1>11. ASSUME NEW t \in Proc, ReleaseVaddr(t) PROVE JobsProgress'
  <2>1. /\ job' = [job EXCEPT ![t] = NoJob] /\ pc[t] = "unvaddr" /\ pc'[t] = "idle"
        /\ \A u \in Proc : u # t => pc'[u] = pc[u]
        /\ UNCHANGED <<pte, frame, exiting>>
    BY <1>11 DEF ReleaseVaddr, TypeOK
  <2>2. Progress(t)'
    BY <1>0, <2>1 DEF Progress, Busy
  <2>3. \A u \in Proc : u # t => job'[u] = job[u]
    BY <2>1 DEF DataTyped
  <2> QED BY <2>1, <2>2, <2>3, ProgressOthers
<1>12. ASSUME NEW t \in Proc, DeletePage(t) PROVE JobsProgress'
  <2> DEFINE run == Run(t, Min(vbits[t]), 1)
  <2>1. /\ UNCHANGED <<pte, frame, exiting>> /\ job'[t] = run /\ pc[t] = "idle" /\ pc'[t] = "unframe"
        /\ \A u \in Proc : u # t => pc'[u] = pc[u] /\ job'[u] = job[u]
    BY <1>12 DEF DeletePage, TypeOK, DataTyped
  <2>2. vbits[t] \in SUBSET Nat /\ vbits[t] # {}
    BY <1>12, PageNumbers DEF DeletePage, TypeOK, Space
  <2>3. Min(vbits[t]) \in Nat
    BY <2>2, MinNat
  <2>4. /\ run.first = Min(vbits[t]) /\ run.n = 0 /\ run.cnt = 1
        /\ PagesOf(run) = {Min(vbits[t])}
    BY <2>3 DEF Run, PagesOf
  <2> HIDE DEF run
  <2>5. PageOf(t)' = Min(vbits[t]) /\ ~(Min(vbits[t]) < Min(vbits[t]))
    BY <2>1, <2>3, <2>4 DEF PageOf
  <2>6. Progress(t)'
    BY <1>0, <2>1, <2>4, <2>5 DEF Progress, Busy
  <2> QED BY <2>1, <2>6, ProgressOthers
<1>13. CASE UNCHANGED vars
  BY <1>13 DEF vars, JobsProgress, Progress, Busy, PageOf
<1> QED
  BY <1>2, <1>3, <1>4, <1>5, <1>7, <1>8, <1>9, <1>10, <1>11, <1>12, <1>13 DEF Next

-----------------------------------------------------------------------------
(* The frames of every step.                                                 *)

\* A slot is a page entry, the paddr of a call or a page table.
LEMMA SlotParts ==
    ASSUME NEW x \in Slot
    PROVE  \/ x[1] = "page" /\ x[2] \in Space /\ x[3] \in Page /\ x = PageSlot(x[2], x[3])
           \/ x[1] = "paddr" /\ x[2] \in Proc /\ x = PaddrSlot(x[2])
           \/ x[1] = "pde" /\ x[2] \in Proc /\ x = TableSlot(x[2])
<1>1. CASE x \in {"page"} \X Space \X Page
  BY <1>1 DEF PageSlot
<1>2. CASE x \in {"paddr", "pde"} \X Proc \X {0}
  BY <1>2 DEF PaddrSlot, TableSlot
<1> QED BY <1>1, <1>2 DEF Slot

\* What the slots hold after a step.
LEMMA SlotsAfter ==
    /\ \A s \in Space, p \in Page :
          Has(PageSlot(s, p))' = EntryHas(s, p)' /\ SlotPool(PageSlot(s, p))' = PoolOf(s)
    /\ \A t \in Proc :
          /\ Has(PaddrSlot(t))' = frame'[t] /\ SlotPool(PaddrSlot(t))' = PoolFor(t)'
          /\ Has(TableSlot(t))' = pde'[t] /\ SlotPool(TableSlot(t))' = "k"
BY DEF PageSlot, PaddrSlot, TableSlot, Has, SlotPool

\* A step changes no slot but those named.
LEMMA OtherSlots ==
    ASSUME NEW Changed,
           \A s \in Space, p \in Page : PageSlot(s, p) \notin Changed => EntryHas(s, p)' = EntryHas(s, p),
           \A t \in Proc : PaddrSlot(t) \notin Changed =>
               frame'[t] = frame[t] /\ (frame[t] # NoFrame => PoolFor(t)' = PoolFor(t)),
           \A t \in Proc : TableSlot(t) \notin Changed => pde'[t] = pde[t]
    PROVE  \A x \in Slot : x \notin Changed =>
               Has(x)' = Has(x) /\ (Full(x) => SlotPool(x)' = SlotPool(x))
<1> TAKE x \in Slot
<1> HAVE x \notin Changed
<1>1. CASE x[1] = "page" /\ x[2] \in Space /\ x[3] \in Page /\ x = PageSlot(x[2], x[3])
  BY <1>1 DEF Has, SlotPool
<1>2. CASE x[1] = "paddr" /\ x[2] \in Proc /\ x = PaddrSlot(x[2])
  BY <1>2 DEF Has, SlotPool, Full
<1>3. CASE x[1] = "pde" /\ x[2] \in Proc /\ x = TableSlot(x[2])
  BY <1>3 DEF Has, SlotPool
<1> QED BY <1>1, <1>2, <1>3, SlotParts

\* Only a call between pfree and page_table_remove makes a page stale.
LEMMA StaleSame ==
    ASSUME NEW t \in Proc, pc[t] # "unmap", pc'[t] # "unmap",
           \A u \in Proc : u # t => pc'[u] = pc[u] /\ job'[u] = job[u]
    PROVE  \A s \in Space : Stale(s)' = Stale(s)
<1> TAKE s \in Space
<1>1. \A u \in Proc : (pc'[u] = "unmap" /\ job'[u].space = s) <=> (pc[u] = "unmap" /\ job[u].space = s)
  OBVIOUS
<1>2. \A u \in Proc : pc[u] = "unmap" => PageOf(u)' = PageOf(u)
  BY DEF PageOf
<1> QED BY <1>1, <1>2 DEF Stale

\* Two calls are never at the same page.
LEMMA OneAtPage ==
    ASSUME TypeOK, DataTyped, RunsApart, RunsReserved, JobsProgress,
           NEW t \in Proc, Busy(t), pc[t] # "unvaddr",
           NEW u \in Proc, Busy(u), pc[u] # "unvaddr",
           job[u].space = job[t].space, PageOf(u) = PageOf(t)
    PROVE  u = t
<1>1. PageOf(t) \in PagesOf(job[t]) /\ PageOf(u) \in PagesOf(job[u])
  BY PageOfJob
<1>2. u # t => Apart(job[u], job[t])
  BY DEF RunsApart
<1> QED BY <1>1, <1>2 DEF Apart

\* A step that moves no frame.
LEMMA NoFrameMoves ==
    ASSUME DataTyped, Accounted, UNCHANGED <<pbits, tables, frame>>,
           NEW t \in Proc, pc[t] # "unmap", pc'[t] # "unmap", frame[t] = NoFrame,
           \A u \in Proc : u # t => pc'[u] = pc[u] /\ job'[u] = job[u]
    PROVE  Accounted'
<1>1. \A s \in Space, p \in Page : EntryHas(s, p)' = EntryHas(s, p)
  BY StaleSame DEF EntryHas, tables
<1>2. \A u \in Proc : frame'[u] = frame[u] /\ (frame[u] # NoFrame => PoolFor(u)' = PoolFor(u))
  BY DEF PoolFor
<1>3. \A u \in Proc : pde'[u] = pde[u]
  BY DEF tables
<1>4. \A x \in Slot : x \notin {} => Has(x)' = Has(x) /\ (Full(x) => SlotPool(x)' = SlotPool(x))
  <2> DEFINE none == {}
  <2>1. \A s \in Space, p \in Page : PageSlot(s, p) \notin none => EntryHas(s, p)' = EntryHas(s, p)
    BY <1>1
  <2> HIDE DEF none
  <2>2. \A x \in Slot : x \notin none => Has(x)' = Has(x) /\ (Full(x) => SlotPool(x)' = SlotPool(x))
    BY <2>1, <1>2, <1>3, OtherSlots
  <2> QED BY <2>2 DEF none
<1> QED BY <1>4, FramesSame

\* Each step takes, moves or gives back one frame, or none.
LEMMA AccountedKept ==
    ASSUME TypeOK, DataTyped, RunsApart, RunsReserved, JobsProgress, Accounted, [Next]_vars
    PROVE  Accounted'
<1> USE DEF Goto, tables
<1>0. \A u \in Proc : frame[u] # NoFrame <=> pc[u] = "map"
  BY DEF JobsProgress, Progress
<1>1. ASSUME NEW t \in Proc, NEW s \in {t, Kernel}, NEW at \in Nat, NEW cnt \in Nat \ {0},
             Starts(t, s, at, cnt)
      PROVE  Accounted'
  <2>1. /\ UNCHANGED <<pbits, tables, frame>> /\ pc[t] = "idle" /\ pc'[t] = "frame"
        /\ \A u \in Proc : u # t => pc'[u] = pc[u] /\ job'[u] = job[u]
    BY <1>1 DEF Starts, TypeOK, DataTyped
  <2> QED BY <1>0, <2>1, NoFrameMoves
<1>2. ASSUME NEW t \in Proc, NEW s \in {t, Kernel}, NEW cnt \in 1..MaxCnt, Malloc(t, s, cnt)
      PROVE  Accounted'
  <2>1. PICK at \in Nat : Starts(t, s, at, cnt)
    BY <1>2, MallocStarts
  <2>2. cnt \in Nat \ {0}
    OBVIOUS
  <2> QED BY <1>1, <2>1, <2>2
<1>3. ASSUME UNCHANGED <<pbits, tables, pc, job, frame>> PROVE Accounted'
  <2>1. /\ \A s \in Space, p \in Page : EntryHas(s, p)' = EntryHas(s, p)
        /\ \A t \in Proc : PoolFor(t)' = PoolFor(t)
    BY <1>3 DEF EntryHas, Stale, PageOf, PoolFor
  <2>2. \A x \in Slot : Has(x)' = Has(x) /\ SlotPool(x)' = SlotPool(x)
    BY <1>3, <2>1, SlotParts DEF Has, SlotPool
  <2> QED BY <1>3, <2>2, FramesSame
<1>4. ASSUME NEW t \in Proc, NEW r \in Fixed, MallocFixed(t, r[1], r[2])
      PROVE  Accounted'
  <2>1. r[1] \in Nat /\ r[2] \in Nat \ {0} /\ t \in {t, Kernel}
    BY MemoryAssumption
  <2>2. CASE Starts(t, t, r[1], r[2])
    BY <1>1, <2>1, <2>2
  <2>3. CASE OnlyReserves(t)
    BY <1>3, <2>3 DEF OnlyReserves
  <2> QED BY <1>4, <2>2, <2>3, MallocFixedStarts
<1>5. ASSUME NEW t \in Proc, TakeFrame(t) PROVE Accounted'
  <2> DEFINE pool == PoolFor(t)
             no == BitmapAcquire(pbits[pool], IF pool = "k" THEN KFrames ELSE UFrames, 1)
  <2>1. CASE no = -1
    <3>1. /\ UNCHANGED <<pbits, tables, frame>> /\ pc[t] = "frame" /\ pc'[t] = "idle"
          /\ \A u \in Proc : u # t => pc'[u] = pc[u] /\ job'[u] = job[u]
      BY <1>5, <2>1 DEF TakeFrame, TypeOK, DataTyped
    <3> QED BY <1>0, <3>1, NoFrameMoves
  <2>2. CASE no # -1
    <3>1. /\ pc[t] = "frame" /\ pc'[t] = "map" /\ UNCHANGED <<pte, pde, job>>
          /\ pbits' = [pbits EXCEPT ![pool] = @ \cup {no}] /\ frame' = [frame EXCEPT ![t] = no]
          /\ \A u \in Proc : u # t => pc'[u] = pc[u]
      BY <1>5, <2>2 DEF TakeFrame, TypeOK
    <3>2. pool \in Pool
      BY PoolForTyped
    <3>3. no \in Nat /\ no \notin pbits[pool]
      <4> HIDE DEF pool
      <4> QED BY <2>2, <3>2, FrameAcquired
    <3>4. pool' = pool /\ \A u \in Proc : PoolFor(u)' = PoolFor(u)
      BY <3>1 DEF PoolFor
    <3> DEFINE new == no
    <3>5. /\ new \in Nat /\ new \notin pbits[pool]
          /\ pbits' = [pbits EXCEPT ![pool] = @ \cup {new}] /\ frame' = [frame EXCEPT ![t] = new]
      BY <3>1, <3>3
    <3> HIDE DEF new, no
    <3>6. frame'[t] = new /\ \A u \in Proc : u # t => frame'[u] = frame[u]
      BY <3>5 DEF TypeOK
    <3>7. \A s \in Space, p \in Page : EntryHas(s, p)' = EntryHas(s, p)
      BY <3>1, StaleSame DEF EntryHas
    <3> DEFINE y == PaddrSlot(t)
    <3>8. /\ y \in Slot /\ ~Full(y) /\ Has(y)' = new /\ SlotPool(y)' = pool
      BY <1>0, <3>1, <3>4, <3>6, Slots, SlotsAfter DEF Full
    <3>9. \A u \in Proc : PaddrSlot(u) \notin {y} =>
              frame'[u] = frame[u] /\ (frame[u] # NoFrame => PoolFor(u)' = PoolFor(u))
      BY <3>4, <3>6
    <3> HIDE DEF y
    <3>10. \A x \in Slot : x \notin {y} => Has(x)' = Has(x) /\ (Full(x) => SlotPool(x)' = SlotPool(x))
      BY <3>1, <3>7, <3>9, OtherSlots
    <3> HIDE DEF pool
    <3> QED BY <3>2, <3>5, <3>8, <3>10, FrameTaken
  <2> QED BY <2>1, <2>2
<1>6. ASSUME NEW t \in Proc, AddTable(t) PROVE Accounted'
  <2> DEFINE no == BitmapAcquire(pbits["k"], KFrames, 1)
             y == TableSlot(t)
  <2>1. /\ no # -1 /\ pde[t] = NoFrame /\ UNCHANGED <<pte, pc, job, frame>>
        /\ pbits' = [pbits EXCEPT !["k"] = @ \cup {no}] /\ pde' = [pde EXCEPT ![t] = no]
    BY <1>6 DEF AddTable
  <2>2. "k" \in Pool
    BY DEF Pool
  <2>3. no \in Nat /\ no \notin pbits["k"]
    BY <2>1, <2>2, FrameAcquired
  <2> HIDE DEF no
  <2>4. pde'[t] = no /\ \A u \in Proc : u # t => pde'[u] = pde[u]
    BY <2>1 DEF TypeOK
  <2>5. /\ \A s \in Space, p \in Page : EntryHas(s, p)' = EntryHas(s, p)
        /\ \A u \in Proc : frame'[u] = frame[u] /\ PoolFor(u)' = PoolFor(u)
    BY <2>1 DEF EntryHas, Stale, PageOf, PoolFor
  <2>6. y \in Slot /\ ~Full(y) /\ Has(y)' = no /\ SlotPool(y)' = "k"
    BY <2>1, <2>4, Slots, SlotsAfter DEF Full
  <2>7. \A u \in Proc : TableSlot(u) \notin {y} => pde'[u] = pde[u]
    BY <2>4
  <2> HIDE DEF y
  <2>8. \A x \in Slot : x \notin {y} => Has(x)' = Has(x) /\ (Full(x) => SlotPool(x)' = SlotPool(x))
    BY <2>5, <2>7, OtherSlots
  <2> QED BY <2>1, <2>2, <2>3, <2>6, <2>8, FrameTaken
<1>7. ASSUME NEW t \in Proc, DeleteTable(t) PROVE Accounted'
  <2> DEFINE y == TableSlot(t)
  <2>1. /\ pde[t] # NoFrame /\ UNCHANGED <<pte, pc, job, frame>>
        /\ pbits' = [pbits EXCEPT !["k"] = @ \ {pde[t]}] /\ pde' = [pde EXCEPT ![t] = NoFrame]
    BY <1>7 DEF DeleteTable
  <2>2. "k" \in Pool
    BY DEF Pool
  <2>4. pde'[t] = NoFrame /\ \A u \in Proc : u # t => pde'[u] = pde[u]
    BY <2>1 DEF TypeOK
  <2>5. /\ \A s \in Space, p \in Page : EntryHas(s, p)' = EntryHas(s, p)
        /\ \A u \in Proc : frame'[u] = frame[u] /\ PoolFor(u)' = PoolFor(u)
    BY <2>1 DEF EntryHas, Stale, PageOf, PoolFor
  <2>6. /\ y \in Slot /\ Full(y) /\ Has(y) = pde[t] /\ SlotPool(y) = "k" /\ ~Full(y)'
    BY <2>1, <2>4, Slots, SlotsAfter DEF Full
  <2>7. \A u \in Proc : TableSlot(u) \notin {y} => pde'[u] = pde[u]
    BY <2>4
  <2> HIDE DEF y
  <2>8. \A x \in Slot : x \notin {y} => Has(x)' = Has(x) /\ (Full(x) => SlotPool(x)' = SlotPool(x))
    BY <2>5, <2>7, OtherSlots
  <2> QED BY <2>1, <2>2, <2>6, <2>8, FrameDropped
<1>8. ASSUME NEW t \in Proc, Map(t) PROVE Accounted'
  <2>1. /\ pc[t] = "map" /\ pc'[t] # "unmap" /\ UNCHANGED <<pbits, pde>>
        /\ \A u \in Proc : u # t => pc'[u] = pc[u]
        /\ frame' = [frame EXCEPT ![t] = NoFrame]
        /\ pte' = [pte EXCEPT ![job[t].space][PageOf(t)] = frame[t]]
    BY <1>8 DEF Map, TypeOK
  <2>2. PICK s0 \in Space, p0 \in Page : s0 = job[t].space /\ p0 = PageOf(t) /\ p0 \in PagesOf(job[t])
    BY <2>1, PageOfJob DEF Busy
  <2> DEFINE y == PaddrSlot(t)
             z == PageSlot(s0, p0)
  <2>3. \A u \in Proc : u # t => job'[u] = job[u]
    BY <1>8 DEF Map, Advance, DataTyped
  <2>4. frame'[t] = NoFrame /\ \A u \in Proc : u # t => frame'[u] = frame[u] /\ PoolFor(u)' = PoolFor(u)
    BY <2>1, <2>3 DEF TypeOK, PoolFor
  <2>5. /\ pte'[s0][p0] = frame[t]
        /\ \A s \in Space, p \in Page : s # s0 \/ p # p0 => pte'[s][p] = pte[s][p]
    BY <2>1, <2>2 DEF TypeOK
  <2>6. \A s \in Space : Stale(s)' = Stale(s)
    BY <2>1, <2>3, StaleSame
  <2>7. p0 \notin Stale(s0)
    <3>1. \A u \in Proc : pc[u] = "unmap" /\ job[u].space = s0 => PageOf(u) # p0
      BY <2>1, <2>2, OneAtPage DEF Busy
    <3> QED BY <3>1 DEF Stale
  <2>8. pte[s0][p0] = NoFrame
    <3>1. ~(p0 < p0)
      BY PageNumbers
    <3> QED BY <2>1, <2>2, <3>1 DEF JobsProgress, Progress
  <2>9. \A s \in Space, p \in Page : EntryHas(s, p)' = IF p \in Stale(s) THEN NoFrame ELSE pte'[s][p]
    BY <2>6 DEF EntryHas
  <2>10. /\ EntryHas(s0, p0) = NoFrame /\ EntryHas(s0, p0)' = frame[t]
         /\ \A s \in Space, p \in Page : s # s0 \/ p # p0 => EntryHas(s, p)' = EntryHas(s, p)
    BY <2>5, <2>7, <2>8, <2>9 DEF EntryHas
  <2>11. \A s \in Space, p \in Page : PageSlot(s, p) \notin {y, z} => EntryHas(s, p)' = EntryHas(s, p)
    BY <2>10
  <2>12. \A u \in Proc : PaddrSlot(u) \notin {y, z} =>
             frame'[u] = frame[u] /\ (frame[u] # NoFrame => PoolFor(u)' = PoolFor(u))
    BY <2>4
  <2>13. /\ y \in Slot /\ Full(y) /\ Has(y) = frame[t] /\ SlotPool(y) = PoolFor(t) /\ ~Full(y)'
    BY <1>0, <2>1, <2>4, Slots, SlotsAfter DEF Full
  <2>14. z \in Slot /\ ~Full(z) /\ Has(z)' = frame[t] /\ SlotPool(z)' = PoolFor(t)
    BY <2>2, <2>10, Slots, SlotsAfter DEF Full, PoolFor
  <2> HIDE DEF y, z
  <2>15. \A x \in Slot : x \notin {y, z} => Has(x)' = Has(x) /\ (Full(x) => SlotPool(x)' = SlotPool(x))
    BY <2>1, <2>11, <2>12, OtherSlots
  <2> QED BY <2>1, <2>13, <2>14, <2>15, FrameMoved
<1>9. ASSUME NEW t \in Proc, NEW r \in owned[t], Free(t, r) PROVE Accounted'
  <2>1. /\ UNCHANGED <<pbits, tables, frame>> /\ pc[t] = "idle" /\ pc'[t] = "unframe"
        /\ \A u \in Proc : u # t => pc'[u] = pc[u] /\ job'[u] = job[u]
    BY <1>9 DEF Free, TypeOK, DataTyped
  <2> QED BY <1>0, <2>1, NoFrameMoves

<1>10. ASSUME NEW t \in Proc, FreeFrame(t) PROVE Accounted'
  <2>1. /\ pc[t] = "unframe" /\ pc'[t] = "unmap" /\ UNCHANGED <<pte, pde, job, frame>>
        /\ FrameToFree(t) # NoFrame
        /\ pbits' = [pbits EXCEPT ![PoolFor(t)] = @ \ {FrameToFree(t)}]
        /\ \A u \in Proc : u # t => pc'[u] = pc[u]
    BY <1>10 DEF FreeFrame, TypeOK
  <2>2. PICK s0 \in Space, p0 \in Page : s0 = job[t].space /\ p0 = PageOf(t)
    BY <2>1, PageOfJob DEF Busy
  <2> DEFINE y == PageSlot(s0, p0)
  <2>3. p0 \notin Stale(s0)
    <3>1. \A u \in Proc : pc[u] = "unmap" /\ job[u].space = s0 => PageOf(u) # p0
      BY <2>1, <2>2, OneAtPage DEF Busy
    <3> QED BY <3>1 DEF Stale
  <2>4. /\ \A u \in Proc : PageOf(u)' = PageOf(u) /\ PoolFor(u)' = PoolFor(u)
        /\ \A u \in Proc : pc'[u] = "unmap" <=> pc[u] = "unmap" \/ u = t
    BY <2>1 DEF PageOf, PoolFor
  <2>5. \A s \in Space, p \in Page :
            p \in Stale(s)' <=> p \in Stale(s) \/ (s = s0 /\ p = p0)
    BY <2>1, <2>2, <2>4 DEF Stale
  <2>6. \A s \in Space, p \in Page : EntryHas(s, p)' = IF p \in Stale(s)' THEN NoFrame ELSE pte[s][p]
    BY <2>1 DEF EntryHas
  <2>7. /\ EntryHas(s0, p0)' = NoFrame /\ EntryHas(s0, p0) = FrameToFree(t)
        /\ \A s \in Space, p \in Page : s # s0 \/ p # p0 => EntryHas(s, p)' = EntryHas(s, p)
    BY <2>2, <2>3, <2>5, <2>6 DEF EntryHas, FrameToFree
  <2>8. \A s \in Space, p \in Page : PageSlot(s, p) \notin {y} => EntryHas(s, p)' = EntryHas(s, p)
    BY <2>7
  <2>9. /\ y \in Slot /\ Full(y) /\ Has(y) = FrameToFree(t) /\ SlotPool(y) = PoolFor(t) /\ ~Full(y)'
    BY <2>1, <2>2, <2>7, Slots, SlotsAfter DEF Full, PoolFor
  <2>10. \A u \in Proc : /\ frame'[u] = frame[u] /\ (frame[u] # NoFrame => PoolFor(u)' = PoolFor(u))
                         /\ pde'[u] = pde[u]
    BY <2>1, <2>4
  <2> HIDE DEF y
  <2>11. \A x \in Slot : x \notin {y} => Has(x)' = Has(x) /\ (Full(x) => SlotPool(x)' = SlotPool(x))
    BY <2>8, <2>10, OtherSlots
  <2>12. PoolFor(t) \in Pool
    BY PoolForTyped
  <2> QED BY <2>1, <2>9, <2>11, <2>12, FrameDropped
<1>11. ASSUME NEW t \in Proc, Unmap(t) PROVE Accounted'
  <2>1. /\ pc[t] = "unmap" /\ pc'[t] # "unmap" /\ UNCHANGED <<pbits, pde, frame>> /\ Advance(t)
        /\ \A u \in Proc : u # t => pc'[u] = pc[u]
        /\ pte' = [pte EXCEPT ![job[t].space][PageOf(t)] = NoFrame]
    BY <1>11 DEF Unmap, TypeOK
  <2>2. PageOf(t) \in Page /\ job[t].space \in Space
    BY <2>1, PageOfJob DEF Busy
  <2>3. /\ \A u \in Proc : u # t => job'[u] = job[u]
        /\ \A u \in Proc : PoolFor(u)' = PoolFor(u)
        /\ \A u \in Proc : u # t => PageOf(u)' = PageOf(u)
    BY <2>1, Advanced DEF PoolFor, PageOf
  <2>4. /\ pte'[job[t].space][PageOf(t)] = NoFrame
        /\ \A s \in Space, p \in Page : s # job[t].space \/ p # PageOf(t) => pte'[s][p] = pte[s][p]
    BY <2>1, <2>2 DEF TypeOK
  <2>5. \A s \in Space, p \in Page :
            s # job[t].space \/ p # PageOf(t) => (p \in Stale(s)' <=> p \in Stale(s))
    <3>1. \A u \in Proc : pc'[u] = "unmap" <=> pc[u] = "unmap" /\ u # t
      BY <2>1
    <3> QED BY <2>3, <3>1 DEF Stale
  <2>6. PageOf(t) \in Stale(job[t].space)
    BY <2>1 DEF Stale
  <2>7. \A s \in Space, p \in Page : EntryHas(s, p)' = EntryHas(s, p)
    <3> TAKE s \in Space, p \in Page
    <3>1. EntryHas(s, p)' = IF p \in Stale(s)' THEN NoFrame ELSE pte'[s][p]
      BY DEF EntryHas
    <3>2. CASE s = job[t].space /\ p = PageOf(t)
      BY <2>4, <2>6, <3>1, <3>2 DEF EntryHas
    <3>3. CASE s # job[t].space \/ p # PageOf(t)
      BY <2>4, <2>5, <3>1, <3>3 DEF EntryHas
    <3> QED BY <3>2, <3>3
  <2>8. \A x \in Slot : Has(x)' = Has(x) /\ SlotPool(x)' = SlotPool(x)
    BY <2>1, <2>3, <2>7, SlotParts DEF Has, SlotPool
  <2> QED BY <2>1, <2>8, FramesSame
<1>12. ASSUME NEW t \in Proc, ReleaseVaddr(t) PROVE Accounted'
  <2>1. /\ UNCHANGED <<pbits, tables, frame>> /\ pc[t] = "unvaddr" /\ pc'[t] = "idle"
        /\ \A u \in Proc : u # t => pc'[u] = pc[u] /\ job'[u] = job[u]
    BY <1>12 DEF ReleaseVaddr, TypeOK, DataTyped
  <2> QED BY <1>0, <2>1, NoFrameMoves
<1>13. ASSUME NEW t \in Proc, Exit(t) \/ Gone(t) PROVE Accounted'
  BY <1>3, <1>13 DEF Exit, Gone
<1>14. ASSUME NEW t \in Proc, DeletePage(t) PROVE Accounted'
  <2>1. /\ UNCHANGED <<pbits, tables, frame>> /\ pc[t] = "idle" /\ pc'[t] = "unframe"
        /\ \A u \in Proc : u # t => pc'[u] = pc[u] /\ job'[u] = job[u]
    BY <1>14 DEF DeletePage, TypeOK, DataTyped
  <2> QED BY <1>0, <2>1, NoFrameMoves
<1>15. CASE UNCHANGED vars
  BY <1>3, <1>15 DEF vars
<1> QED
  BY <1>2, <1>4, <1>5, <1>6, <1>7, <1>8, <1>9, <1>10, <1>11, <1>12, <1>13, <1>14, <1>15 DEF Next

-----------------------------------------------------------------------------
(* The theorems.                                                            *)

\* The invariant holds in every reachable state.
THEOREM Invariance == Spec => []IInv
<1>1. IInv /\ [Next]_vars => IInv'
  <2> SUFFICES ASSUME IInv, [Next]_vars PROVE IInv'
    OBVIOUS
  <2>1. TypeOK /\ DataTyped /\ RunsApart /\ RunsReserved /\ JobsProgress /\ Accounted
    BY DEF IInv
  <2>2. TypeOK' /\ DataTyped'
    BY <2>1, TypeKept, DataTypedKept
  <2>3. RunsApart' /\ RunsReserved' /\ JobsProgress'
    BY <2>1, RunsApartKept, RunsReservedKept, JobsProgressKept
  <2>4. Accounted'
    BY <2>1, AccountedKept
  <2> QED BY <2>2, <2>3, <2>4 DEF IInv
<1> QED BY InitIInv, <1>1, PTL DEF Spec

\* Bitmaps, page tables and calls keep their types (memory.c:107-274).
THEOREM TypeCorrect == Spec => []TypeOK
<1>1. IInv => TypeOK
  BY DEF IInv
<1> QED BY Invariance, <1>1, PTL

\* At every step of every call of page_malloc and page_free, and of sys_exit, a frame
\* is taken in its bitmap exactly as long as one page, one call or one process has it
\* (memory.c:225-245, 256-274, 642-651).
THEOREM FramesAccounted == Spec => []FramesExact
<1>1. IInv => FramesExact
  <2> SUFFICES ASSUME IInv, NEW pool \in Pool, NEW no \in FrameNo(pool)
               PROVE  Cardinality(Holders(pool, no)) = IF no \in pbits[pool] THEN 1 ELSE 0
    BY DEF FramesExact
  <2> DEFINE entries == {x \in Space \X Page : /\ PoolOf(x[1]) = pool
                                               /\ x[2] \notin Stale(x[1]) /\ pte[x[1]][x[2]] = no}
             calls == {<<t, "paddr">> : t \in {t \in Proc : frame[t] = no /\ PoolFor(t) = pool}}
             users == {<<t, "pde">> : t \in {t \in Proc : pde[t] = no /\ pool = "k"}}
  <2>1. Holders(pool, no) = (entries \cup calls) \cup users
    BY DEF Holders
  <2>2. no # NoFrame
    BY PageNumbers DEF NoFrame
  <2>3. /\ FramesTaken /\ FramesApart /\ FramesKept
    BY DEF IInv, Accounted
  <2>4. ASSUME NEW x \in entries
        PROVE  \E s \in Space, p \in Page :
                  /\ x = <<s, p>> /\ PageSlot(s, p) \in Slot /\ Has(PageSlot(s, p)) = no
                  /\ SlotPool(PageSlot(s, p)) = pool
    <3>1. /\ x[1] \in Space /\ x[2] \in Page /\ x = <<x[1], x[2]>>
          /\ EntryHas(x[1], x[2]) = no /\ PoolOf(x[1]) = pool
      BY <2>4 DEF EntryHas
    <3> QED BY <3>1, Slots
  <2>5. ASSUME NEW x \in calls
        PROVE  \E t \in Proc : /\ x = <<t, "paddr">> /\ PaddrSlot(t) \in Slot
                               /\ Has(PaddrSlot(t)) = no /\ SlotPool(PaddrSlot(t)) = pool
    BY <2>5, Slots
  <2>6. ASSUME NEW x \in users
        PROVE  \E t \in Proc : /\ x = <<t, "pde">> /\ TableSlot(t) \in Slot
                               /\ Has(TableSlot(t)) = no /\ SlotPool(TableSlot(t)) = pool
    BY <2>6, Slots
  <2>7. \A s \in Space, p \in Page :
            Has(PageSlot(s, p)) = no /\ SlotPool(PageSlot(s, p)) = pool => <<s, p>> \in entries
    <3>1. ASSUME NEW s \in Space, NEW p \in Page, EntryHas(s, p) = no, PoolOf(s) = pool
          PROVE  <<s, p>> \in entries
      BY <2>2, <3>1 DEF EntryHas
    <3> QED BY <3>1, Slots
  <2>8. \A t \in Proc :
            /\ Has(PaddrSlot(t)) = no /\ SlotPool(PaddrSlot(t)) = pool => <<t, "paddr">> \in calls
            /\ Has(TableSlot(t)) = no /\ SlotPool(TableSlot(t)) = pool => <<t, "pde">> \in users
    BY Slots
  <2> HIDE DEF entries, calls, users
  <2>9. CASE no \notin pbits[pool]
    <3>1. \A x \in Slot : ~(Has(x) = no /\ SlotPool(x) = pool)
      BY <2>2, <2>3, <2>9 DEF FramesTaken, Full
    <3>2. Holders(pool, no) = {}
      BY <2>1, <2>4, <2>5, <2>6, <3>1
    <3> QED BY <2>9, <3>2, FS_EmptySet
  <2>10. CASE no \in pbits[pool]
    <3>1. PICK x \in Slot : SlotPool(x) = pool /\ Has(x) = no
      BY <2>3, <2>10 DEF FramesKept
    <3>2. \A y \in Slot : SlotPool(y) = pool /\ Has(y) = no => y = x
      BY <2>2, <2>3, <3>1 DEF FramesApart, Full
    <3>3. \E h : Holders(pool, no) = {h}
      <4>1. CASE \E s \in Space, p \in Page : x = PageSlot(s, p)
        <5>1. PICK s \in Space, p \in Page : x = PageSlot(s, p)
          BY <4>1
        <5>2. <<s, p>> \in Holders(pool, no)
          BY <2>1, <2>7, <3>1, <5>1
        <5>3. \A h \in Holders(pool, no) : h = <<s, p>>
          BY <2>1, <2>4, <2>5, <2>6, <3>2, <5>1 DEF PageSlot, PaddrSlot, TableSlot
        <5> QED BY <5>2, <5>3
      <4>2. CASE \E t \in Proc : x = PaddrSlot(t)
        <5>1. PICK t \in Proc : x = PaddrSlot(t)
          BY <4>2
        <5>2. <<t, "paddr">> \in Holders(pool, no)
          BY <2>1, <2>8, <3>1, <5>1
        <5>3. \A h \in Holders(pool, no) : h = <<t, "paddr">>
          BY <2>1, <2>4, <2>5, <2>6, <3>2, <5>1 DEF PageSlot, PaddrSlot, TableSlot
        <5> QED BY <5>2, <5>3
      <4>3. CASE \E t \in Proc : x = TableSlot(t)
        <5>1. PICK t \in Proc : x = TableSlot(t)
          BY <4>3
        <5>2. <<t, "pde">> \in Holders(pool, no)
          BY <2>1, <2>8, <3>1, <5>1
        <5>3. \A h \in Holders(pool, no) : h = <<t, "pde">>
          BY <2>1, <2>4, <2>5, <2>6, <3>2, <5>1 DEF PageSlot, PaddrSlot, TableSlot
        <5> QED BY <5>2, <5>3
      <4> QED BY <4>1, <4>2, <4>3, Slots
    <3> QED BY <2>10, <3>3, FS_Singleton
  <2> QED BY <2>9, <2>10
<1> QED BY Invariance, <1>1, PTL

\* The pages page_malloc has returned stay mapped, and stay their owner's, until it frees
\* them (memory.c:217-219, 238-241).
THEOREM OwnedStayMapped == Spec => []OwnedPagesMapped
<1>1. IInv => OwnedPagesMapped
  <2> SUFFICES ASSUME RunsApart, RunsReserved, NEW t \in Proc, NEW r \in owned[t]
               PROVE  /\ PagesOf(r) \subseteq vbits[r.space]
                      /\ \A p \in PagesOf(r) : pte[r.space][p] # NoFrame
                      /\ \A u \in Proc : \A q \in owned[u] :
                            q.space = r.space /\ PagesOf(q) \cap PagesOf(r) # {} => <<t, r>> = <<u, q>>
    BY DEF IInv, OwnedPagesMapped
  <2>1. PagesOf(r) \subseteq vbits[r.space] /\ \A p \in PagesOf(r) : pte[r.space][p] # NoFrame
    BY DEF RunsReserved
  <2>2. ASSUME NEW u \in Proc, NEW q \in owned[u], q.space = r.space, PagesOf(q) \cap PagesOf(r) # {}
        PROVE  <<t, r>> = <<u, q>>
    <3>1. (u = t /\ q = r) \/ Apart(q, r)
      BY DEF RunsApart
    <3> QED BY <2>2, <3>1 DEF Apart
  <2> QED BY <2>1, <2>2
<1> QED BY Invariance, <1>1, PTL

\* bitmap_acquire finds the lowest free run of every bitmap that page_malloc and
\* page_free leave behind (bitmap.c:39-100).
THEOREM AcquiresFirstFit == Spec => []AcquireIsFirstFit
<1>1. IInv => AcquireIsFirstFit
  <2> SUFFICES ASSUME TypeOK, NEW s \in Space, NEW cnt \in 1..MaxCnt
               PROVE  BitmapAcquire(vbits[s], VPages, cnt) = FirstFit(vbits[s], VPages, cnt)
    BY DEF IInv, AcquireIsFirstFit
  <2>1. vbits[s] \subseteq BitIndex(VPages) /\ VPages \in Nat /\ cnt \in Nat \ {0}
    BY MemoryAssumption DEF TypeOK, Page
  <2> QED BY <2>1, FirstFitFound
<1> QED BY Invariance, <1>1, PTL

-----------------------------------------------------------------------------
(* The block allocator.                                                     *)

HeapTyped ==
    /\ arena \in [HeapPage -> [class : Class \cup {NoClass}, cnt : Nat]]
    /\ taken \subseteq HeapPage /\ free \in [Class -> SUBSET Nat]
    /\ held \in [Task -> SUBSET [at : Nat, size : Nat \ {0}]]

\* The pages that are somebody's because of h.
HeadOf(h) == ArenaOf(h.at)
HeldRun(h) == IF arena[HeadOf(h)].class = NoClass
          THEN HeadOf(h)..(HeadOf(h) + PageCount(h.size) - 1) ELSE {HeadOf(h)}

\* What is held is a block of an arena, not on its list, or a run of pages that
\* has its length at its head and nothing behind.
BlockHeld(h) ==
    LET c == arena[HeadOf(h)].class
    IN  h.at \in BlocksOf(HeadOf(h), c) \ free[c] /\ h.size <= c
PagesHeld(h) ==
    /\ h.at = HeadOf(h) * PageSize + Header
    /\ arena[HeadOf(h)].cnt = PageCount(h.size)
    /\ \A q \in HeldRun(h) : q # HeadOf(h) => arena[q] = NoArena
HeldPlaced ==
    \A x \in AllHeld :
        /\ HeadOf(x[2]) \in HeapPage /\ HeldRun(x[2]) \subseteq taken
        /\ IF arena[HeadOf(x[2])].class = NoClass THEN PagesHeld(x[2]) ELSE BlockHeld(x[2])
HeldOnce == \A x, y \in AllHeld : x[2].at = y[2].at => x = y

\* What is free is a block of an arena; a block of an arena is free or held, and one
\* of them is held.
FreePlaced ==
    \A c \in Class : \A b \in free[c] :
        ArenaOf(b) \in HeapPage /\ arena[ArenaOf(b)].class = c /\ b \in BlocksOf(ArenaOf(b), c)
BlocksKept ==
    \A p \in HeapPage : LET c == arena[p].class IN c # NoClass =>
        /\ p \in taken
        /\ \A b \in BlocksOf(p, c) \ free[c] : \E x \in AllHeld : x[2].at = b
        /\ arena[p].cnt = Cardinality(free[c] \cap BlocksOf(p, c))
        /\ arena[p].cnt < BlocksPerArena(c)
PagesKept ==
    /\ \A p \in taken : arena[p].class = NoClass => \E x \in AllHeld : p \in HeldRun(x[2])
    /\ \A p \in HeapPage \ taken : arena[p] = NoArena

HeapInv == HeapTyped /\ HeldPlaced /\ HeldOnce /\ FreePlaced /\ BlocksKept /\ PagesKept

\* What the assumption says of the sizes.
LEMMA HeapSizes ==
    /\ PageSize \in Nat \ {0} /\ Header \in Nat \ {0} /\ Header <= PageSize
    /\ NoClass \notin Class /\ Pages \in Nat
    /\ \A c \in Class : c \in Nat \ {0} /\ Header + c <= PageSize
<1>1. PICK c \in Class : c \in Nat \ {0} /\ Header + c <= PageSize
  BY HeapAssumption
<1> QED BY <1>1, HeapAssumption DEF NoClass

\* Division rounds down.
LEMMA DivFloor ==
    ASSUME NEW n \in Nat, NEW d \in Nat \ {0}
    PROVE  /\ n \div d \in Nat /\ (n \div d) * d \in Nat
           /\ (n \div d) * d <= n /\ n < (n \div d) * d + d
<1>1. n \div d \in Nat /\ n % d \in 0..(d - 1) /\ n = d * (n \div d) + (n % d)
  BY SMTT(20)
<1>2. \A a \in Nat : d * a = a * d /\ a * d \in Nat
  OBVIOUS
<1> QED BY <1>1, <1>2

\* The page of an address.
LEMMA OnPage ==
    ASSUME NEW b \in Nat, NEW p \in Nat, p * PageSize <= b, b < p * PageSize + PageSize
    PROVE  ArenaOf(b) = p
<1> DEFINE q == b \div PageSize
<1>1. q \in Nat /\ q * PageSize \in Nat /\ q * PageSize <= b /\ b < q * PageSize + PageSize
  BY HeapSizes, DivFloor
<1>2. PageSize \in Nat /\ p * PageSize \in Nat
  BY HeapSizes
<1> HIDE DEF q
<1>3. ~(q < p)
  <2>1. ASSUME q < p PROVE FALSE
    BY <1>1, <1>2, <2>1, TimesMonotone
  <2> QED BY <2>1
<1>4. ~(p < q)
  <2>1. ASSUME p < q PROVE FALSE
    BY <1>1, <1>2, <2>1, TimesMonotone
  <2> QED BY <2>1
<1> QED BY <1>1, <1>3, <1>4 DEF q, ArenaOf

\* The blocks of an arena fit behind its header.
LEMMA BlocksFit ==
    ASSUME NEW c \in Class
    PROVE  /\ BlocksPerArena(c) \in Nat \ {0}
           /\ \A i \in 0..(BlocksPerArena(c) - 1) : i * c \in Nat /\ Header + i * c + c <= PageSize
           /\ \A i, j \in 0..(BlocksPerArena(c) - 1) : i < j => i * c + c <= j * c
<1> DEFINE n == BlocksPerArena(c)
<1>1. c \in Nat \ {0} /\ Header \in Nat \ {0} /\ PageSize \in Nat /\ Header + c <= PageSize
  BY HeapSizes
<1>2. n \in Nat /\ n * c \in Nat /\ n * c <= PageSize - Header /\ PageSize - Header < n * c + c
  BY <1>1, DivFloor DEF BlocksPerArena
<1> HIDE DEF n
<1>3. n # 0
  BY <1>1, <1>2
<1>4. \A i, j \in Nat : i < j => i * c + c <= j * c
  BY <1>1, TimesMonotone
<1>5. \A i \in 0..(n - 1) : i * c \in Nat
  BY <1>1
<1>6. \A i \in 0..(n - 1) : Header + i * c + c <= PageSize
  <2> TAKE i \in 0..(n - 1)
  <2>1. i \in Nat /\ i < n
    BY <1>2
  <2>2. i * c + c <= n * c
    BY <1>2, <1>4, <2>1
  <2> QED BY <1>1, <1>2, <1>5, <2>2
<1> QED BY <1>2, <1>3, <1>4, <1>5, <1>6 DEF n

\* A block is on the page of its arena, behind the header.
LEMMA BlockPlace ==
    ASSUME NEW p \in Nat, NEW c \in Class, NEW b \in BlocksOf(p, c)
    PROVE  /\ b \in Nat /\ p * PageSize \in Nat
           /\ p * PageSize + Header <= b /\ b + c <= p * PageSize + PageSize
           /\ ArenaOf(b) = p
<1>1. PICK i \in 0..(BlocksPerArena(c) - 1) : b = Block(p, c, i)
  BY DEF BlocksOf
<1>2. i * c \in Nat /\ Header + i * c + c <= PageSize
  BY <1>1, BlocksFit
<1>3. p * PageSize \in Nat /\ Header \in Nat /\ PageSize \in Nat /\ c \in Nat \ {0}
  BY HeapSizes
<1>4. b = p * PageSize + Header + i * c
  BY <1>1 DEF Block
<1>5. b \in Nat /\ p * PageSize + Header <= b /\ b + c <= p * PageSize + PageSize
  BY <1>2, <1>3, <1>4
<1>6. ArenaOf(b) = p
  BY <1>3, <1>5, OnPage
<1> QED BY <1>3, <1>5, <1>6

\* Two blocks of an arena have no byte in common.
LEMMA BlocksApart ==
    ASSUME NEW p \in Nat, NEW c \in Class, NEW b \in BlocksOf(p, c), NEW d \in BlocksOf(p, c), b # d
    PROVE  b + c <= d \/ d + c <= b
<1>1. PICK i \in 0..(BlocksPerArena(c) - 1) : b = Block(p, c, i)
  BY DEF BlocksOf
<1>2. PICK j \in 0..(BlocksPerArena(c) - 1) : d = Block(p, c, j)
  BY DEF BlocksOf
<1>3. i # j
  BY <1>1, <1>2
<1>4. i < j \/ j < i
  BY <1>3
<1>5. i * c + c <= j * c \/ j * c + c <= i * c
  BY <1>4, BlocksFit
<1>6. p * PageSize \in Nat /\ Header \in Nat /\ c \in Nat /\ i * c \in Nat /\ j * c \in Nat
  BY HeapSizes, BlocksFit
<1> QED BY <1>1, <1>2, <1>5, <1>6 DEF Block

\* An arena has BlocksPerArena blocks, and the first of them is block 0.
LEMMA BlocksCounted ==
    ASSUME NEW p \in Nat, NEW c \in Class
    PROVE  /\ IsFiniteSet(BlocksOf(p, c)) /\ Cardinality(BlocksOf(p, c)) = BlocksPerArena(c)
           /\ Block(p, c, 0) \in BlocksOf(p, c) /\ BlocksOf(p, c) \subseteq Nat
<1> DEFINE n == BlocksPerArena(c)
           f == [i \in 0..(n - 1) |-> Block(p, c, i)]
<1>1. n \in Nat \ {0}
  BY BlocksFit
<1>2. \A i, j \in 0..(n - 1) : i # j => Block(p, c, i) # Block(p, c, j)
  <2> TAKE i, j \in 0..(n - 1)
  <2> HAVE i # j
  <2>1. i < j \/ j < i
    OBVIOUS
  <2>2. i * c + c <= j * c \/ j * c + c <= i * c
    BY <2>1, BlocksFit
  <2>3. p * PageSize \in Nat /\ Header \in Nat /\ c \in Nat \ {0} /\ i * c \in Nat /\ j * c \in Nat
    BY HeapSizes, BlocksFit
  <2> QED BY <2>2, <2>3 DEF Block
<1>3. f \in Bijection(0..(n - 1), BlocksOf(p, c))
  BY <1>2 DEF Bijection, Injection, IsInjective, Surjection, BlocksOf
<1>4. IsFiniteSet(0..(n - 1)) /\ Cardinality(0..(n - 1)) = n
  BY <1>1, FS_Interval
<1>5. ExistsBijection(0..(n - 1), BlocksOf(p, c))
  BY <1>3 DEF ExistsBijection
<1>6. IsFiniteSet(BlocksOf(p, c)) /\ Cardinality(BlocksOf(p, c)) = n
  BY <1>4, <1>5, FS_Bijection
<1>7. 0 \in 0..(n - 1)
  BY <1>1
<1>8. \A b \in BlocksOf(p, c) : b \in Nat
  BY BlockPlace
<1> QED BY <1>6, <1>7, <1>8 DEF BlocksOf

\* What is not too long for every class has the least class that it fits.
LEMMA ClassFits ==
    ASSUME NEW size \in Nat, ~Large(size)
    PROVE  ClassOf(size) \in Class /\ size <= ClassOf(size)
<1> DEFINE bound == {n \in Nat : \A c \in Class : c <= n}
           fit == {c \in Class : size <= c}
<1>1. Class \in SUBSET Nat /\ \A c \in Class : c <= PageSize
  BY HeapSizes
<1>2. bound \in SUBSET Nat /\ PageSize \in bound
  BY <1>1, HeapSizes
<1>3. PICK m \in bound : \A n \in bound : m <= n
  <2> HIDE DEF bound
  <2> QED BY <1>2, LeastNat
<1>4. m \in Class
  <2>1. SUFFICES ASSUME m \notin Class PROVE FALSE
    OBVIOUS
  <2>2. \A c \in Class : c < m
    BY <1>1, <1>3, <2>1
  <2>3. m - 1 \in bound
    <3>1. PICK c \in Class : TRUE
      BY HeapAssumption
    <3> QED BY <1>1, <2>2, <3>1
  <2> QED BY <1>3, <2>3
<1>5. Max(Class) \in Class /\ \A c \in Class : Max(Class) >= c
  <2>1. \E x \in Class : \A y \in Class : x >= y
    BY <1>1, <1>3, <1>4
  <2> QED BY <2>1 DEF Max
<1>6. size <= Max(Class)
  <2>1. Max(Class) \in Nat /\ ~(size > Max(Class))
    BY <1>1, <1>5 DEF Large
  <2> HIDE DEF bound, fit
  <2> QED BY <2>1
<1>7. fit \in SUBSET Nat /\ fit # {}
  BY <1>1, <1>5, <1>6
<1>8. Min(fit) \in fit
  <2> HIDE DEF fit
  <2> QED BY <1>7, MinNat
<1> QED BY <1>8 DEF ClassOf

\* A run of pages has room for the header and the size, and needs its last page.
LEMMA PagesFit ==
    ASSUME NEW size \in Nat \ {0}
    PROVE  /\ PageCount(size) \in Nat \ {0}
           /\ PageCount(size) * PageSize \in Nat /\ (PageCount(size) - 1) * PageSize \in Nat
           /\ Header + size <= PageCount(size) * PageSize
           /\ (PageCount(size) - 1) * PageSize < Header + size
<1> DEFINE n == PageCount(size)
<1>1. PageSize \in Nat \ {0} /\ Header \in Nat \ {0}
  BY HeapSizes
<1>2. /\ n \in Nat /\ n * PageSize \in Nat /\ n * PageSize <= size + Header + PageSize - 1
      /\ size + Header + PageSize - 1 < n * PageSize + PageSize
  <2>1. size + Header + PageSize - 1 \in Nat
    BY <1>1
  <2> QED BY <1>1, <2>1, DivFloor DEF PageCount
<1> HIDE DEF n
<1>3. n # 0
  <2>1. ASSUME n = 0 PROVE FALSE
    <3>1. n * PageSize = 0
      BY <1>1, <2>1
    <3> QED BY <1>1, <1>2, <3>1
  <2> QED BY <2>1
<1>4. (n - 1) * PageSize = n * PageSize - PageSize /\ (n - 1) * PageSize \in Nat
  BY <1>1, <1>2, <1>3
<1> QED BY <1>1, <1>2, <1>3, <1>4 DEF n

\* What an owner has, with the fields that types give it.
LEMMA HeldTyped ==
    ASSUME HeapTyped, NEW x \in AllHeld
    PROVE  /\ x = <<x[1], x[2]>> /\ x[1] \in Task /\ x[2] \in held[x[1]]
           /\ x[2].at \in Nat /\ x[2].size \in Nat \ {0}
           /\ x[2] = [at |-> x[2].at, size |-> x[2].size]
<1>1. PICK t \in Task : x \in {<<t, h>> : h \in held[t]}
  BY DEF AllHeld
<1>2. PICK h \in held[t] : x = <<t, h>>
  BY <1>1
<1>3. h \in [at : Nat, size : Nat \ {0}]
  BY <1>2 DEF HeapTyped
<1>4. x[1] = t /\ x[2] = h
  BY <1>2
<1> QED BY <1>2, <1>3, <1>4

\* One more owner.
LEMMA HeldGiven ==
    ASSUME HeapTyped, NEW t \in Task, NEW at \in Nat, NEW size \in Nat \ {0}, Give(t, at, size)
    PROVE  /\ AllHeld' = AllHeld \cup {<<t, [at |-> at, size |-> size]>>}
           /\ held' \in [Task -> SUBSET [at : Nat, size : Nat \ {0}]]
<1>1. held \in [Task -> SUBSET [at : Nat, size : Nat \ {0}]]
  BY DEF HeapTyped
<1> DEFINE new == [at |-> at, size |-> size]
<1>2. new \in [at : Nat, size : Nat \ {0}]
  OBVIOUS
<1>3. held' = [held EXCEPT ![t] = held[t] \cup {new}]
  BY DEF Give
<1>4. \A x : x \in AllHeld <=> \E u \in Task : \E h \in held[u] : x = <<u, h>>
  BY DEF AllHeld
<1>5. \A x : x \in AllHeld' <=> \E u \in Task : \E h \in held'[u] : x = <<u, h>>
  BY DEF AllHeld
<1> HIDE DEF new
<1>6. \A u \in Task : held'[u] = IF u = t THEN held[t] \cup {new} ELSE held[u]
  BY <1>1, <1>3
<1>7. \A x : x \in AllHeld' <=> x \in AllHeld \/ x = <<t, new>>
  BY <1>4, <1>5, <1>6
<1>8. held' \in [Task -> SUBSET [at : Nat, size : Nat \ {0}]]
  BY <1>1, <1>2, <1>3
<1>9. AllHeld' = AllHeld \cup {<<t, new>>}
  BY <1>7
<1> QED BY <1>8, <1>9 DEF new

\* One owner less.
LEMMA HeldGone ==
    ASSUME HeapTyped, NEW t \in Task, NEW h \in held[t],
           held' = [held EXCEPT ![t] = @ \ {h}]
    PROVE  /\ AllHeld' = AllHeld \ {<<t, h>>} /\ <<t, h>> \in AllHeld
           /\ held' \in [Task -> SUBSET [at : Nat, size : Nat \ {0}]]
<1>1. held \in [Task -> SUBSET [at : Nat, size : Nat \ {0}]]
  BY DEF HeapTyped
<1>2. \A x : x \in AllHeld <=> \E u \in Task : \E k \in held[u] : x = <<u, k>>
  BY DEF AllHeld
<1>3. \A x : x \in AllHeld' <=> \E u \in Task : \E k \in held'[u] : x = <<u, k>>
  BY DEF AllHeld
<1>4. \A u \in Task : held'[u] = IF u = t THEN held[t] \ {h} ELSE held[u]
  BY <1>1
<1>5. \A x : x \in AllHeld' <=> x \in AllHeld /\ x # <<t, h>>
  BY <1>2, <1>3, <1>4
<1>6. held' \in [Task -> SUBSET [at : Nat, size : Nat \ {0}]]
  BY <1>1
<1>7. <<t, h>> \in AllHeld
  BY <1>2
<1>8. AllHeld' = AllHeld \ {<<t, h>>}
  BY <1>5
<1> QED BY <1>6, <1>7, <1>8

\* A task takes a free block.
LEMMA TakeInv ==
    ASSUME HeapInv, NEW t \in Task, NEW size \in Nat \ {0}, ~Large(size),
           NEW b \in free[ClassOf(size)], Take(t, size, b)
    PROVE  HeapInv'
<1> DEFINE c == ClassOf(size)
           p == ArenaOf(b)
           new == <<t, [at |-> b, size |-> size]>>
<1>1. c \in Class /\ size <= c /\ c # NoClass /\ NoClass \notin Class
  BY ClassFits, HeapSizes
<1>2. HeapTyped /\ HeldPlaced /\ HeldOnce /\ FreePlaced /\ BlocksKept /\ PagesKept
  BY DEF HeapInv
<1> HIDE DEF c
<1>3. b \in free[c] /\ b \in Nat
  BY <1>1, <1>2 DEF c, HeapTyped
<1>4. p \in HeapPage /\ arena[p].class = c /\ b \in BlocksOf(p, c) /\ p \in Nat
  BY <1>1, <1>2, <1>3 DEF FreePlaced, HeapPage
<1>5. /\ free' = [free EXCEPT ![c] = free[c] \ {b}] /\ taken' = taken
      /\ arena' = [arena EXCEPT ![p].cnt = arena[p].cnt - 1]
      /\ Give(t, b, size)
  BY DEF Take, c
<1> HIDE DEF p
<1>6. /\ AllHeld' = AllHeld \cup {new}
      /\ held' \in [Task -> SUBSET [at : Nat, size : Nat \ {0}]]
  BY <1>2, <1>3, <1>5, HeldGiven
<1>7. /\ new[2].at = b /\ new[2].size = size /\ HeadOf(new[2]) = p
  BY DEF HeadOf, p
<1> HIDE DEF new
<1>8. /\ \A q \in HeapPage : arena'[q].class = arena[q].class
      /\ \A q \in HeapPage \ {p} : arena'[q] = arena[q]
      /\ arena'[p].cnt = arena[p].cnt - 1
  BY <1>2, <1>4, <1>5 DEF HeapTyped
<1>9. /\ free'[c] = free[c] \ {b} /\ \A d \in Class \ {c} : free'[d] = free[d]
      /\ \A d \in Class : free'[d] \subseteq free[d]
  BY <1>1, <1>2, <1>5 DEF HeapTyped
<1>10. \A q \in HeapPage : arena[q] = NoArena => q # p /\ arena'[q] = NoArena
  BY <1>1, <1>4, <1>8 DEF NoArena
<1>11. \A h : HeadOf(h) \in HeapPage => HeldRun(h)' = HeldRun(h) /\ HeadOf(h)' = HeadOf(h)
  BY <1>8 DEF HeldRun, HeadOf
<1>12. p \in taken /\ arena[p].cnt = Cardinality(free[c] \cap BlocksOf(p, c))
       /\ arena[p].cnt < BlocksPerArena(c)
  BY <1>1, <1>2, <1>4 DEF BlocksKept
<1>13. IsFiniteSet(free[c] \cap BlocksOf(p, c)) /\ BlocksPerArena(c) \in Nat
  BY <1>1, <1>4, BlocksCounted, BlocksFit, FS_Subset
<1>14. (free[c] \cap BlocksOf(p, c)) \ {b} = free'[c] \cap BlocksOf(p, c)
  BY <1>9
<1>15. Cardinality(free'[c] \cap BlocksOf(p, c)) = arena[p].cnt - 1
       /\ Cardinality(free'[c] \cap BlocksOf(p, c)) \in Nat /\ arena[p].cnt \in Nat
  <2> DEFINE list == free[c] \cap BlocksOf(p, c)
  <2>1. IsFiniteSet(list) /\ b \in list /\ arena[p].cnt = Cardinality(list)
    BY <1>3, <1>4, <1>12, <1>13
  <2>2. list \ {b} = free'[c] \cap BlocksOf(p, c)
    BY <1>14
  <2> HIDE DEF list
  <2>3. /\ Cardinality(list) \in Nat /\ Cardinality(list \ {b}) \in Nat
        /\ Cardinality(list \ {b}) = Cardinality(list) - 1
    BY <2>1, FS_RemoveElement, FS_CardinalityType
  <2> QED BY <2>1, <2>2, <2>3
<1>16. HeapTyped'
  <2>1. arena' \in [HeapPage -> [class : Class \cup {NoClass}, cnt : Nat]]
    <3>1. arena[p].cnt - 1 \in Nat
      BY <1>15
    <3> QED BY <1>2, <1>4, <1>5, <3>1 DEF HeapTyped
  <2>2. free' \in [Class -> SUBSET Nat]
    BY <1>1, <1>2, <1>5 DEF HeapTyped
  <2> QED BY <1>2, <1>5, <1>6, <2>1, <2>2 DEF HeapTyped, HeapPage
<1>17. HeldPlaced'
  <2>1. SUFFICES ASSUME NEW x \in AllHeld'
                 PROVE  /\ HeadOf(x[2])' \in HeapPage /\ HeldRun(x[2])' \subseteq taken'
                        /\ IF arena'[HeadOf(x[2])'].class = NoClass
                           THEN PagesHeld(x[2])' ELSE BlockHeld(x[2])'
    BY DEF HeldPlaced, HeapPage
  <2>2. CASE x = new
    <3>1. HeadOf(x[2]) = p /\ HeadOf(x[2])' = p /\ arena'[p].class = c
      BY <1>4, <1>7, <1>8, <2>2 DEF HeadOf
    <3>2. HeldRun(x[2])' = {p}
      BY <1>1, <3>1 DEF HeldRun
    <3>3. BlockHeld(x[2])'
      BY <1>1, <1>4, <1>7, <1>9, <2>2, <3>1 DEF BlockHeld, BlocksOf, BlocksPerArena, Block
    <3> QED BY <1>1, <1>4, <1>5, <1>12, <3>1, <3>2, <3>3
  <2>3. CASE x \in AllHeld
    <3> DEFINE h == x[2]
               q == HeadOf(h)
    <3>1. /\ q \in HeapPage /\ HeldRun(h) \subseteq taken
          /\ IF arena[q].class = NoClass THEN PagesHeld(h) ELSE BlockHeld(h)
      BY <1>2, <2>3 DEF HeldPlaced
    <3>2. HeadOf(h)' = q /\ HeldRun(h)' = HeldRun(h) /\ arena'[q].class = arena[q].class
      BY <1>8, <1>11, <3>1
    <3>3. ASSUME arena[q].class = NoClass PROVE PagesHeld(h)'
      <4>1. PagesHeld(h) /\ q # p
        BY <1>1, <1>4, <3>1, <3>3
      <4>2. \A r \in HeldRun(h) : r \in HeapPage
        BY <1>2, <3>1 DEF HeapTyped
      <4> HIDE DEF q, h
      <4>3. arena'[q] = arena[q]
        BY <1>8, <3>1, <4>1
      <4> QED BY <1>10, <3>2, <4>1, <4>2, <4>3 DEF PagesHeld, PageCount, q
    <3>4. ASSUME arena[q].class # NoClass PROVE BlockHeld(h)'
      <4>1. BlockHeld(h) /\ arena[q].class \in Class
        BY <1>2, <3>1, <3>4 DEF HeapTyped
      <4> HIDE DEF q, h
      <4> QED BY <1>9, <3>2, <4>1 DEF BlockHeld, BlocksOf, BlocksPerArena, Block, q
    <3> QED BY <1>5, <3>1, <3>2, <3>3, <3>4
  <2> QED BY <1>6, <2>1, <2>2, <2>3
<1>18. HeldOnce'
  <2>1. \A x \in AllHeld : x[2].at # b
    <3>1. SUFFICES ASSUME NEW x \in AllHeld, x[2].at = b PROVE FALSE
      OBVIOUS
    <3>2. HeadOf(x[2]) = p
      BY <3>1 DEF HeadOf, p
    <3>3. BlockHeld(x[2])
      BY <1>1, <1>2, <1>4, <3>2 DEF HeldPlaced
    <3> QED BY <1>3, <1>4, <3>1, <3>2, <3>3 DEF BlockHeld
  <2> QED BY <1>2, <1>6, <1>7, <2>1 DEF HeldOnce
<1>19. FreePlaced'
  <2>1. \A d \in Class : \A e \in free'[d] :
            /\ ArenaOf(e) \in HeapPage /\ arena'[ArenaOf(e)].class = d /\ e \in BlocksOf(ArenaOf(e), d)
    BY <1>2, <1>8, <1>9 DEF FreePlaced
  <2> QED BY <2>1 DEF FreePlaced, HeapPage, ArenaOf, BlocksOf, BlocksPerArena, Block
<1>20. BlocksKept'
  <2>1. SUFFICES ASSUME NEW q \in HeapPage, NEW d, d = arena'[q].class, d # NoClass
                 PROVE  /\ q \in taken'
                        /\ \A e \in BlocksOf(q, d) \ free'[d] : \E x \in AllHeld' : x[2].at = e
                        /\ arena'[q].cnt = Cardinality(free'[d] \cap BlocksOf(q, d))
                        /\ arena'[q].cnt < BlocksPerArena(d)
    BY DEF BlocksKept, HeapPage, BlocksOf, BlocksPerArena, Block
  <2>2. d = arena[q].class /\ d \in Class /\ q \in Nat
    BY <1>2, <1>8, <2>1 DEF HeapTyped, HeapPage
  <2>3. /\ q \in taken
        /\ \A e \in BlocksOf(q, d) \ free[d] : \E x \in AllHeld : x[2].at = e
        /\ arena[q].cnt = Cardinality(free[d] \cap BlocksOf(q, d))
        /\ arena[q].cnt < BlocksPerArena(d)
    BY <1>2, <2>1, <2>2 DEF BlocksKept
  <2>4. \A e \in BlocksOf(q, d) \ free'[d] : \E x \in AllHeld' : x[2].at = e
    <3>1. TAKE e \in BlocksOf(q, d) \ free'[d]
    <3>2. e \notin free[d] \/ e = b
      BY <1>9, <2>2
    <3>3. \A x \in AllHeld : x \in AllHeld'
      BY <1>6
    <3>4. new \in AllHeld'
      BY <1>6
    <3> QED BY <1>7, <2>3, <3>2, <3>3, <3>4
  <2>5. CASE q = p
    <3>1. d = c
      BY <1>4, <2>2, <2>5
    <3>2. arena'[p].cnt = Cardinality(free'[c] \cap BlocksOf(p, c))
      BY <1>8, <1>15
    <3>3. arena'[p].cnt < BlocksPerArena(c)
      BY <1>8, <1>12, <1>13, <1>15
    <3> QED BY <1>5, <2>3, <2>4, <2>5, <3>1, <3>2, <3>3
  <2>6. CASE q # p
    <3>1. b \notin BlocksOf(q, d)
      BY <2>2, <2>6, BlockPlace DEF p
    <3>2. free'[d] \cap BlocksOf(q, d) = free[d] \cap BlocksOf(q, d)
      BY <1>9, <2>2, <3>1
    <3> QED BY <1>5, <1>8, <2>3, <2>4, <2>6, <3>2
  <2> QED BY <2>5, <2>6
<1>21. PagesKept'
  <2>1. ASSUME NEW q \in taken', arena'[q].class = NoClass PROVE \E x \in AllHeld' : q \in HeldRun(x[2])'
    <3>1. q \in HeapPage /\ q \in taken
      BY <1>2, <1>5, <2>1 DEF HeapTyped
    <3>2. PICK x \in AllHeld : q \in HeldRun(x[2])
      BY <1>2, <1>8, <2>1, <3>1 DEF PagesKept
    <3>3. HeadOf(x[2]) \in HeapPage
      BY <1>2 DEF HeldPlaced
    <3> QED BY <1>6, <1>11, <3>2, <3>3
  <2>2. \A q \in HeapPage \ taken' : arena'[q] = NoArena
    BY <1>2, <1>5, <1>10 DEF PagesKept
  <2> QED BY <2>1, <2>2 DEF PagesKept, HeapPage
<1> QED BY <1>16, <1>17, <1>18, <1>19, <1>20, <1>21 DEF HeapInv

\* The head of what is held is one of its pages, and all of them are taken.
LEMMA HeldPages ==
    ASSUME HeapTyped, HeldPlaced, NEW x \in AllHeld
    PROVE  /\ HeadOf(x[2]) \in HeapPage /\ HeadOf(x[2]) \in HeldRun(x[2]) /\ HeldRun(x[2]) \subseteq taken
           /\ taken \subseteq HeapPage
           /\ arena[HeadOf(x[2])].class = NoClass => PagesHeld(x[2])
           /\ arena[HeadOf(x[2])].class # NoClass =>
                 BlockHeld(x[2]) /\ arena[HeadOf(x[2])].class \in Class
<1>1. x[2].size \in Nat \ {0}
  BY HeldTyped
<1>2. PageCount(x[2].size) \in Nat \ {0}
  BY <1>1, PagesFit
<1>3. HeadOf(x[2]) \in HeapPage
  BY DEF HeldPlaced
<1>4. HeadOf(x[2]) \in HeldRun(x[2])
  BY <1>2, <1>3 DEF HeldRun, HeapPage
<1>5. arena[HeadOf(x[2])].class \in Class \cup {NoClass}
  BY <1>3 DEF HeapTyped
<1> QED BY <1>3, <1>4, <1>5 DEF HeldPlaced, HeapTyped

\* What is held stays placed while its pages and its block are left alone.
LEMMA StillPlaced ==
    ASSUME HeapTyped, HeldPlaced, NEW x \in AllHeld,
           \A q \in HeldRun(x[2]) :
               /\ q \in taken' /\ arena'[q].class = arena[q].class
               /\ arena[q].class = NoClass => arena'[q] = arena[q],
           arena[HeadOf(x[2])].class # NoClass => x[2].at \notin free'[arena[HeadOf(x[2])].class]
    PROVE  /\ HeadOf(x[2])' \in HeapPage /\ HeldRun(x[2])' \subseteq taken'
           /\ HeldRun(x[2])' = HeldRun(x[2])
           /\ IF arena'[HeadOf(x[2])'].class = NoClass THEN PagesHeld(x[2])' ELSE BlockHeld(x[2])'
<1> DEFINE h == x[2]
           q == HeadOf(h)
<1>1. /\ q \in HeapPage /\ q \in HeldRun(h)
      /\ arena[q].class = NoClass => PagesHeld(h)
      /\ arena[q].class # NoClass => BlockHeld(h)
  BY HeldPages
<1>2. arena'[q].class = arena[q].class /\ HeadOf(h)' = q
  BY <1>1 DEF HeadOf
<1>3. HeldRun(h)' = HeldRun(h)
  BY <1>2 DEF HeldRun, PageCount, HeadOf
<1>4. ASSUME arena[q].class = NoClass PROVE PagesHeld(h)'
  <2>1. PagesHeld(h) /\ arena'[q] = arena[q]
    BY <1>1, <1>4
  <2>2. \A r \in HeldRun(h) : arena[r] = NoArena => arena'[r] = NoArena
    BY DEF NoArena
  <2> HIDE DEF h
  <2> QED BY <1>2, <1>3, <2>1, <2>2 DEF PagesHeld, PageCount
<1>5. ASSUME arena[q].class # NoClass PROVE BlockHeld(h)'
  <2>1. BlockHeld(h) /\ h.at \notin free'[arena[q].class]
    BY <1>1, <1>5
  <2> HIDE DEF h
  <2> QED BY <1>2, <2>1 DEF BlockHeld, BlocksOf, BlocksPerArena, Block
<1> QED BY <1>1, <1>2, <1>3, <1>4, <1>5

\* A page becomes an arena, and its first block goes.
LEMMA TakeNewInv ==
    ASSUME HeapInv, NEW t \in Task, NEW size \in Nat \ {0}, ~Large(size),
           NEW p \in HeapPage, TakeNew(t, size, p)
    PROVE  HeapInv'
<1> DEFINE c == ClassOf(size)
           b == Block(p, c, 0)
           new == <<t, [at |-> b, size |-> size]>>
<1>1. c \in Class /\ size <= c /\ c # NoClass /\ NoClass \notin Class
  BY ClassFits, HeapSizes
<1>2. HeapTyped /\ HeldPlaced /\ HeldOnce /\ FreePlaced /\ BlocksKept /\ PagesKept
  BY DEF HeapInv
<1> HIDE DEF c
<1>3. /\ free[c] = {} /\ p \notin taken /\ taken' = taken \cup {p}
      /\ arena' = [arena EXCEPT ![p] = [class |-> c, cnt |-> BlocksPerArena(c) - 1]]
      /\ free' = [free EXCEPT ![c] = BlocksOf(p, c) \ {b}]
      /\ Give(t, b, size)
  BY DEF TakeNew, c
<1>4. /\ p \in Nat /\ b \in BlocksOf(p, c) /\ BlocksOf(p, c) \subseteq Nat
      /\ IsFiniteSet(BlocksOf(p, c)) /\ Cardinality(BlocksOf(p, c)) = BlocksPerArena(c)
      /\ BlocksPerArena(c) \in Nat \ {0}
      /\ \A e \in BlocksOf(p, c) : ArenaOf(e) = p
  BY <1>1, BlocksCounted, BlocksFit, BlockPlace DEF HeapPage
<1> HIDE DEF b
<1>5. /\ AllHeld' = AllHeld \cup {new}
      /\ held' \in [Task -> SUBSET [at : Nat, size : Nat \ {0}]]
  BY <1>2, <1>3, <1>4, HeldGiven
<1>6. /\ new[2].at = b /\ new[2].size = size /\ HeadOf(new[2]) = p
  BY <1>4 DEF HeadOf
<1> HIDE DEF new
<1>7. /\ \A q \in HeapPage \ {p} : arena'[q] = arena[q]
      /\ arena'[p].class = c /\ arena'[p].cnt = BlocksPerArena(c) - 1
  BY <1>2, <1>3 DEF HeapTyped
<1>8. arena[p] = NoArena /\ arena[p].class = NoClass
  BY <1>2, <1>3 DEF PagesKept, NoArena
<1>9. free'[c] = BlocksOf(p, c) \ {b} /\ \A d \in Class \ {c} : free'[d] = free[d]
  BY <1>1, <1>2, <1>3 DEF HeapTyped
<1>10. HeapTyped'
  <2>1. arena' \in [HeapPage -> [class : Class \cup {NoClass}, cnt : Nat]]
    BY <1>1, <1>2, <1>3, <1>4 DEF HeapTyped
  <2>2. free' \in [Class -> SUBSET Nat]
    BY <1>1, <1>2, <1>3, <1>4 DEF HeapTyped
  <2> QED BY <1>2, <1>3, <1>5, <2>1, <2>2 DEF HeapTyped, HeapPage
<1>11. ASSUME NEW x \in AllHeld
       PROVE  /\ HeadOf(x[2])' \in HeapPage /\ HeldRun(x[2])' \subseteq taken'
              /\ HeldRun(x[2])' = HeldRun(x[2])
              /\ IF arena'[HeadOf(x[2])'].class = NoClass THEN PagesHeld(x[2])' ELSE BlockHeld(x[2])'
  <2> DEFINE q == HeadOf(x[2])
             d == arena[q].class
  <2>1. /\ q \in HeapPage /\ q \in taken /\ HeldRun(x[2]) \subseteq taken /\ taken \subseteq HeapPage
        /\ d # NoClass => BlockHeld(x[2]) /\ d \in Class
    BY <1>2, <1>11, HeldPages
  <2>2. \A r \in HeldRun(x[2]) : arena'[r] = arena[r] /\ r \in taken'
    BY <1>3, <1>7, <2>1
  <2>3. ASSUME d # NoClass PROVE x[2].at \notin free'[d]
    <3>1. x[2].at \notin free[d] /\ d \in Class
      BY <2>1, <2>3 DEF BlockHeld
    <3>2. ArenaOf(x[2].at) # p
      BY <1>3, <2>1 DEF HeadOf
    <3> QED BY <1>4, <1>9, <3>1, <3>2
  <2> QED BY <1>2, <2>2, <2>3, StillPlaced
<1>12. HeldPlaced'
  <2>1. ASSUME NEW x \in AllHeld'
        PROVE  /\ HeadOf(x[2])' \in HeapPage /\ HeldRun(x[2])' \subseteq taken'
               /\ IF arena'[HeadOf(x[2])'].class = NoClass
                  THEN PagesHeld(x[2])' ELSE BlockHeld(x[2])'
    <3>1. CASE x = new
      <4>1. HeadOf(x[2]) = p /\ HeadOf(x[2])' = p
        BY <1>6, <3>1 DEF HeadOf
      <4>2. HeldRun(x[2])' = {p}
        BY <1>1, <1>7, <4>1 DEF HeldRun
      <4>3. BlockHeld(x[2])'
        BY <1>1, <1>4, <1>6, <1>7, <1>9, <3>1, <4>1 DEF BlockHeld, BlocksOf, BlocksPerArena, Block
      <4> QED BY <1>1, <1>3, <1>7, <4>1, <4>2, <4>3
    <3>2. CASE x \in AllHeld
      BY <1>11, <3>2
    <3> QED BY <1>5, <2>1, <3>1, <3>2
  <2> QED BY <2>1 DEF HeldPlaced, HeapPage
<1>13. HeldOnce'
  <2>1. \A x \in AllHeld : x[2].at # b
    <3>1. SUFFICES ASSUME NEW x \in AllHeld, x[2].at = b PROVE FALSE
      OBVIOUS
    <3>2. HeadOf(x[2]) = p
      BY <1>4, <3>1 DEF HeadOf
    <3>3. HeadOf(x[2]) \in taken
      BY <1>2, HeldPages
    <3> QED BY <1>3, <3>2, <3>3
  <2> QED BY <1>2, <1>5, <1>6, <2>1 DEF HeldOnce
<1>14. FreePlaced'
  <2>1. ASSUME NEW d \in Class, NEW e \in free'[d]
        PROVE  /\ ArenaOf(e) \in HeapPage /\ arena'[ArenaOf(e)].class = d
               /\ e \in BlocksOf(ArenaOf(e), d)
    <3>1. CASE d = c
      BY <1>4, <1>7, <1>9, <2>1, <3>1
    <3>2. CASE d # c
      <4>1. e \in free[d]
        BY <1>9, <2>1, <3>2
      <4>2. ArenaOf(e) \in HeapPage /\ arena[ArenaOf(e)].class = d /\ e \in BlocksOf(ArenaOf(e), d)
        BY <1>2, <4>1 DEF FreePlaced
      <4>3. ArenaOf(e) # p
        BY <1>1, <1>8, <4>2
      <4> QED BY <1>7, <4>2, <4>3
    <3> QED BY <3>1, <3>2
  <2> QED BY <2>1 DEF FreePlaced, HeapPage, ArenaOf, BlocksOf, BlocksPerArena, Block
<1>15. BlocksKept'
  <2>1. SUFFICES ASSUME NEW q \in HeapPage, NEW d, d = arena'[q].class, d # NoClass
                 PROVE  /\ q \in taken'
                        /\ \A e \in BlocksOf(q, d) \ free'[d] : \E x \in AllHeld' : x[2].at = e
                        /\ arena'[q].cnt = Cardinality(free'[d] \cap BlocksOf(q, d))
                        /\ arena'[q].cnt < BlocksPerArena(d)
    BY DEF BlocksKept, HeapPage, BlocksOf, BlocksPerArena, Block
  <2>2. CASE q = p
    <3>1. d = c
      BY <1>7, <2>1, <2>2
    <3>2. free'[c] \cap BlocksOf(p, c) = BlocksOf(p, c) \ {b}
      BY <1>9
    <3>3. Cardinality(BlocksOf(p, c) \ {b}) = BlocksPerArena(c) - 1
      <4> DEFINE blocks == BlocksOf(p, c)
      <4>1. IsFiniteSet(blocks) /\ b \in blocks /\ Cardinality(blocks) = BlocksPerArena(c)
        BY <1>4
      <4> HIDE DEF blocks
      <4>2. Cardinality(blocks \ {b}) = Cardinality(blocks) - 1
        BY <4>1, FS_RemoveElement
      <4> QED BY <4>1, <4>2 DEF blocks
    <3>4. \A e \in BlocksOf(p, c) \ free'[c] : \E x \in AllHeld' : x[2].at = e
      BY <1>5, <1>6, <1>9
    <3>5. BlocksPerArena(c) - 1 < BlocksPerArena(c)
      BY <1>4
    <3> QED BY <1>3, <1>7, <2>2, <3>1, <3>2, <3>3, <3>4, <3>5
  <2>3. CASE q # p
    <3>1. arena'[q] = arena[q] /\ d = arena[q].class /\ d \in Class /\ q \in Nat
      BY <1>2, <1>7, <2>1, <2>3 DEF HeapTyped, HeapPage
    <3>2. /\ q \in taken
          /\ \A e \in BlocksOf(q, d) \ free[d] : \E x \in AllHeld : x[2].at = e
          /\ arena[q].cnt = Cardinality(free[d] \cap BlocksOf(q, d))
          /\ arena[q].cnt < BlocksPerArena(d)
      BY <1>2, <2>1, <3>1 DEF BlocksKept
    <3>3. free'[d] \cap BlocksOf(q, d) = free[d] \cap BlocksOf(q, d)
      <4>1. CASE d # c
        BY <1>9, <3>1, <4>1
      <4>2. CASE d = c
        <5>1. \A e \in BlocksOf(q, d) : ArenaOf(e) = q
          BY <3>1, BlockPlace
        <5>2. BlocksOf(q, d) \cap BlocksOf(p, c) = {}
          BY <1>4, <2>3, <5>1
        <5> QED BY <1>3, <1>9, <4>2, <5>2
      <4> QED BY <4>1, <4>2
    <3>4. \A x \in AllHeld : x \in AllHeld'
      BY <1>5
    <3>5. \A e \in BlocksOf(q, d) \ free'[d] : \E x \in AllHeld' : x[2].at = e
      BY <3>2, <3>3, <3>4
    <3> QED BY <1>3, <3>1, <3>2, <3>3, <3>5
  <2> QED BY <2>2, <2>3
<1>16. PagesKept'
  <2>1. ASSUME NEW q \in taken', arena'[q].class = NoClass PROVE \E x \in AllHeld' : q \in HeldRun(x[2])'
    <3>1. q # p /\ q \in taken /\ q \in HeapPage
      BY <1>1, <1>2, <1>3, <1>7, <2>1 DEF HeapTyped
    <3>2. PICK x \in AllHeld : q \in HeldRun(x[2])
      BY <1>2, <1>7, <2>1, <3>1 DEF PagesKept
    <3> QED BY <1>5, <1>11, <3>2
  <2>2. \A q \in HeapPage \ taken' : arena'[q] = NoArena
    BY <1>2, <1>3, <1>7 DEF PagesKept
  <2> QED BY <2>1, <2>2 DEF PagesKept, HeapPage
<1> QED BY <1>10, <1>12, <1>13, <1>14, <1>15, <1>16 DEF HeapInv

\* A run of pages goes to a task.
LEMMA TakePagesInv ==
    ASSUME HeapInv, NEW t \in Task, NEW size \in Nat \ {0}, NEW p \in HeapPage, TakePages(t, size, p)
    PROVE  HeapInv'
<1> DEFINE n == PageCount(size)
           pages == p..(p + n - 1)
           at == p * PageSize + Header
           new == <<t, [at |-> at, size |-> size]>>
<1>1. HeapTyped /\ HeldPlaced /\ HeldOnce /\ FreePlaced /\ BlocksKept /\ PagesKept
  BY DEF HeapInv
<1>2. /\ pages \subseteq HeapPage \ taken /\ taken' = taken \cup pages /\ free' = free
      /\ arena' = [arena EXCEPT ![p] = [class |-> NoClass, cnt |-> n]]
      /\ Give(t, at, size)
  BY DEF TakePages
<1>3. n \in Nat \ {0} /\ p \in Nat /\ p \in pages
  <2>1. n \in Nat \ {0} /\ p \in Nat
    BY PagesFit DEF HeapPage
  <2> HIDE DEF n
  <2> QED BY <2>1
<1>4. at \in Nat /\ ArenaOf(at) = p
  <2>1. PICK c \in Class : c \in Nat \ {0} /\ Header + c <= PageSize
    BY HeapAssumption
  <2>2. p * PageSize \in Nat /\ PageSize \in Nat /\ Header \in Nat
    BY <1>3, HeapSizes
  <2>3. at \in Nat /\ p * PageSize <= at /\ at < p * PageSize + PageSize
    BY <2>1, <2>2
  <2> QED BY <1>3, <2>3, OnPage
<1> HIDE DEF at
<1>5. /\ AllHeld' = AllHeld \cup {new}
      /\ held' \in [Task -> SUBSET [at : Nat, size : Nat \ {0}]]
  BY <1>1, <1>2, <1>4, HeldGiven
<1>6. /\ new[2].at = at /\ new[2].size = size /\ HeadOf(new[2]) = p
  BY <1>4 DEF HeadOf
<1> HIDE DEF new
<1>7. /\ \A q \in HeapPage \ {p} : arena'[q] = arena[q]
      /\ arena'[p].class = NoClass /\ arena'[p].cnt = n
  BY <1>1, <1>2 DEF HeapTyped
<1> HIDE DEF n
<1>8. \A q \in pages : arena[q] = NoArena /\ arena[q].class = NoClass
  BY <1>1, <1>2 DEF PagesKept, NoArena
<1>9. HeapTyped'
  <2>1. arena' \in [HeapPage -> [class : Class \cup {NoClass}, cnt : Nat]]
    BY <1>1, <1>2, <1>3 DEF HeapTyped
  <2> QED BY <1>1, <1>2, <1>5, <2>1 DEF HeapTyped, HeapPage
<1>10. ASSUME NEW x \in AllHeld
       PROVE  /\ HeadOf(x[2])' \in HeapPage /\ HeldRun(x[2])' \subseteq taken'
              /\ HeldRun(x[2])' = HeldRun(x[2])
              /\ IF arena'[HeadOf(x[2])'].class = NoClass THEN PagesHeld(x[2])' ELSE BlockHeld(x[2])'
  <2> DEFINE q == HeadOf(x[2])
  <2>1. /\ HeldRun(x[2]) \subseteq taken /\ taken \subseteq HeapPage
        /\ arena[q].class # NoClass => BlockHeld(x[2])
    BY <1>1, <1>10, HeldPages
  <2>2. \A r \in HeldRun(x[2]) : arena'[r] = arena[r] /\ r \in taken'
    BY <1>2, <1>3, <1>7, <2>1
  <2>3. arena[q].class # NoClass => x[2].at \notin free'[arena[q].class]
    BY <1>2, <2>1 DEF BlockHeld
  <2> QED BY <1>1, <2>2, <2>3, StillPlaced
<1>11. HeldRun(new[2])' = pages /\ HeadOf(new[2])' = p
  BY <1>6, <1>7 DEF HeldRun, HeadOf, PageCount, n
<1>12. HeldPlaced'
  <2>1. ASSUME NEW x \in AllHeld'
        PROVE  /\ HeadOf(x[2])' \in HeapPage /\ HeldRun(x[2])' \subseteq taken'
               /\ IF arena'[HeadOf(x[2])'].class = NoClass
                  THEN PagesHeld(x[2])' ELSE BlockHeld(x[2])'
    <3>1. CASE x = new
      <4>1. \A q \in pages : q # p => arena'[q] = NoArena
        BY <1>2, <1>7, <1>8
      <4>2. PagesHeld(x[2])'
        BY <1>6, <1>7, <1>11, <3>1, <4>1 DEF PagesHeld, PageCount, n, at
      <4> QED BY <1>2, <1>7, <1>11, <3>1, <4>2
    <3>2. CASE x \in AllHeld
      BY <1>10, <3>2
    <3> QED BY <1>5, <2>1, <3>1, <3>2
  <2> QED BY <2>1 DEF HeldPlaced, HeapPage
<1>13. HeldOnce'
  <2>1. \A x \in AllHeld : x[2].at # at
    <3>1. SUFFICES ASSUME NEW x \in AllHeld, x[2].at = at PROVE FALSE
      OBVIOUS
    <3>2. HeadOf(x[2]) = p
      BY <1>4, <3>1 DEF HeadOf
    <3>3. HeadOf(x[2]) \in taken
      BY <1>1, HeldPages
    <3> QED BY <1>2, <1>3, <3>2, <3>3
  <2> QED BY <1>1, <1>5, <1>6, <2>1 DEF HeldOnce
<1>14. FreePlaced'
  <2>1. ASSUME NEW d \in Class, NEW e \in free'[d]
        PROVE  /\ ArenaOf(e) \in HeapPage /\ arena'[ArenaOf(e)].class = d
               /\ e \in BlocksOf(ArenaOf(e), d)
    <3>1. ArenaOf(e) \in HeapPage /\ arena[ArenaOf(e)].class = d /\ e \in BlocksOf(ArenaOf(e), d)
      BY <1>1, <1>2, <2>1 DEF FreePlaced
    <3>2. ArenaOf(e) # p
      BY <1>3, <1>8, <3>1, HeapSizes
    <3> QED BY <1>7, <3>1, <3>2
  <2> QED BY <2>1 DEF FreePlaced, HeapPage, ArenaOf, BlocksOf, BlocksPerArena, Block
<1>15. BlocksKept'
  <2>1. SUFFICES ASSUME NEW q \in HeapPage, NEW d, d = arena'[q].class, d # NoClass
                 PROVE  /\ q \in taken'
                        /\ \A e \in BlocksOf(q, d) \ free'[d] : \E x \in AllHeld' : x[2].at = e
                        /\ arena'[q].cnt = Cardinality(free'[d] \cap BlocksOf(q, d))
                        /\ arena'[q].cnt < BlocksPerArena(d)
    BY DEF BlocksKept, HeapPage, BlocksOf, BlocksPerArena, Block
  <2>2. q # p /\ arena'[q] = arena[q] /\ d = arena[q].class
    BY <1>7, <2>1
  <2>3. /\ q \in taken
        /\ \A e \in BlocksOf(q, d) \ free[d] : \E x \in AllHeld : x[2].at = e
        /\ arena[q].cnt = Cardinality(free[d] \cap BlocksOf(q, d))
        /\ arena[q].cnt < BlocksPerArena(d)
    BY <1>1, <2>1, <2>2 DEF BlocksKept
  <2>4. \A x \in AllHeld : x \in AllHeld'
    BY <1>5
  <2> QED BY <1>2, <2>2, <2>3, <2>4
<1>16. PagesKept'
  <2>1. ASSUME NEW q \in taken', arena'[q].class = NoClass PROVE \E x \in AllHeld' : q \in HeldRun(x[2])'
    <3>1. CASE q \in pages
      BY <1>5, <1>11, <3>1
    <3>2. CASE q \notin pages
      <4>1. q # p /\ q \in taken /\ q \in HeapPage
        BY <1>1, <1>2, <1>3, <2>1, <3>2 DEF HeapTyped
      <4>2. PICK x \in AllHeld : q \in HeldRun(x[2])
        BY <1>1, <1>7, <2>1, <4>1 DEF PagesKept
      <4> QED BY <1>5, <1>10, <4>2
    <3> QED BY <3>1, <3>2
  <2>2. \A q \in HeapPage \ taken' : arena'[q] = NoArena
    BY <1>1, <1>2, <1>3, <1>7 DEF PagesKept
  <2> QED BY <2>1, <2>2 DEF PagesKept, HeapPage
<1> QED BY <1>9, <1>12, <1>13, <1>14, <1>15, <1>16 DEF HeapInv

\* A run of pages has no page of another owner.
LEMMA RunsDisjoint ==
    ASSUME HeapTyped, HeldPlaced, HeldOnce, NEW x \in AllHeld, NEW y \in AllHeld, x # y,
           arena[HeadOf(y[2])].class = NoClass
    PROVE  HeldRun(x[2]) \cap HeldRun(y[2]) = {}
<1> DEFINE p == HeadOf(x[2])
           q == HeadOf(y[2])
           m == PageCount(x[2].size)
           n == PageCount(y[2].size)
<1>1. SUFFICES ASSUME NEW r, r \in HeldRun(x[2]), r \in HeldRun(y[2]) PROVE FALSE
  OBVIOUS
<1>2. /\ p \in HeapPage /\ p \in HeldRun(x[2]) /\ q \in HeapPage /\ q \in HeldRun(y[2])
      /\ PagesHeld(y[2])
      /\ arena[p].class = NoClass => PagesHeld(x[2])
  BY HeldPages
<1>3. m \in Nat \ {0} /\ n \in Nat \ {0}
  BY HeldTyped, PagesFit
<1>4. r = q \/ arena[r] = NoArena
  BY <1>1, <1>2 DEF PagesHeld
<1>5. arena[r].class = NoClass
  BY <1>4 DEF NoArena
<1>6. arena[p].class = NoClass
  BY <1>1, <1>5 DEF HeldRun
<1>7. p # q
  <2>1. ASSUME p = q PROVE FALSE
    <3>1. x[2].at = y[2].at
      BY <1>2, <1>6, <2>1 DEF PagesHeld
    <3> QED BY <3>1 DEF HeldOnce
  <2> QED BY <2>1
<1>8. arena[p].cnt = m /\ arena[q].cnt = n
  BY <1>2, <1>6 DEF PagesHeld
<1>9. p \in Nat /\ q \in Nat /\ r \in p..(p + m - 1) /\ r \in q..(q + n - 1)
  BY <1>1, <1>2, <1>6 DEF HeldRun, HeapPage
<1>10. p \in HeldRun(y[2]) \/ q \in HeldRun(x[2])
  <2>1. p \in q..(q + n - 1) \/ q \in p..(p + m - 1)
    <3> HIDE DEF p, q, m, n
    <3> QED BY <1>3, <1>9
  <2> QED BY <1>6, <2>1 DEF HeldRun
<1>11. arena[p] = NoArena \/ arena[q] = NoArena
  BY <1>2, <1>6, <1>7, <1>10 DEF PagesHeld
<1>12. arena[p].cnt = 0 \/ arena[q].cnt = 0
  BY <1>11 DEF NoArena
<1> QED BY <1>3, <1>8, <1>12

\* The pages of one owner go back to the heap, and nobody has a block on them.
LEMMA UnpageInv ==
    ASSUME HeapInv, NEW t \in Task, NEW h \in held[t],
           held' = [held EXCEPT ![t] = @ \ {h}],
           Unpage(HeadOf(h), IF arena[HeadOf(h)].class = NoClass THEN arena[HeadOf(h)].cnt ELSE 1),
           free' \in [Class -> SUBSET Nat],
           IF arena[HeadOf(h)].class = NoClass THEN free' = free
           ELSE LET p == HeadOf(h)
                    c == arena[p].class
                IN  /\ free[c] \cap BlocksOf(p, c) = BlocksOf(p, c) \ {h.at}
                    /\ free' = [free EXCEPT ![c] = @ \ BlocksOf(p, c)]
    PROVE  HeapInv'
<1> DEFINE p == HeadOf(h)
           c == arena[p].class
           gone == <<t, h>>
<1>1. HeapTyped /\ HeldPlaced /\ HeldOnce /\ FreePlaced /\ BlocksKept /\ PagesKept
  BY DEF HeapInv
<1>2. /\ AllHeld' = AllHeld \ {gone} /\ gone \in AllHeld
      /\ held' \in [Task -> SUBSET [at : Nat, size : Nat \ {0}]]
  BY <1>1, HeldGone
<1>3. gone[2] = h
  OBVIOUS
<1> HIDE DEF gone
<1>4. /\ p \in HeapPage /\ p \in HeldRun(h) /\ HeldRun(h) \subseteq taken /\ taken \subseteq HeapPage
      /\ c = NoClass => PagesHeld(h)
      /\ c # NoClass => BlockHeld(h) /\ c \in Class
  <2>1. h = gone[2]
    BY <1>3
  <2> QED BY <1>1, <1>2, <2>1, HeldPages
<1>5. taken' = taken \ HeldRun(h) /\ arena' = [arena EXCEPT ![p] = NoArena]
  <2>1. p \in Nat /\ p..(p + 1 - 1) = {p}
    <3>1. p \in Nat
      BY <1>4 DEF HeapPage
    <3> HIDE DEF p
    <3> QED BY <3>1
  <2>2. CASE c = NoClass
    BY <1>4, <2>2 DEF Unpage, PagesHeld, HeldRun
  <2>3. CASE c # NoClass
    BY <2>1, <2>3 DEF Unpage, HeldRun
  <2> QED BY <2>2, <2>3
<1>6. /\ \A d \in Class : free'[d] \subseteq free[d]
      /\ \A d \in Class : d # c => free'[d] = free[d]
      /\ c \in Class => /\ free'[c] = free[c] \ BlocksOf(p, c)
                        /\ free[c] \cap BlocksOf(p, c) = BlocksOf(p, c) \ {h.at}
  <2>1. CASE c = NoClass
    <3>1. c \notin Class /\ free' = free
      BY <2>1, HeapSizes
    <3> QED BY <3>1
  <2>2. CASE c # NoClass
    <3>1. c \in Class /\ free \in [Class -> SUBSET Nat]
      BY <1>1, <1>4, <2>2 DEF HeapTyped
    <3>2. free' = [free EXCEPT ![c] = free[c] \ BlocksOf(p, c)]
      BY <2>2
    <3>3. free[c] \cap BlocksOf(p, c) = BlocksOf(p, c) \ {h.at}
      BY <2>2
    <3> HIDE DEF c
    <3> QED BY <3>1, <3>2, <3>3
  <2> QED BY <2>1, <2>2
<1>7. \A q \in HeapPage : arena'[q] = IF q = p THEN NoArena ELSE arena[q]
  BY <1>1, <1>5 DEF HeapTyped
<1>8. ASSUME NEW x \in AllHeld, x # gone PROVE HeldRun(x[2]) \cap HeldRun(h) = {}
  <2>1. CASE c = NoClass
    <3>1. arena[HeadOf(gone[2])].class = NoClass
      BY <1>3, <2>1
    <3> QED BY <1>1, <1>2, <1>3, <1>8, <3>1, RunsDisjoint
  <2>2. CASE c # NoClass
    <3>1. SUFFICES ASSUME p \in HeldRun(x[2]) PROVE FALSE
      BY <2>2 DEF HeldRun
    <3>2. /\ HeadOf(x[2]) \in HeapPage
          /\ arena[HeadOf(x[2])].class = NoClass => PagesHeld(x[2])
          /\ arena[HeadOf(x[2])].class # NoClass => BlockHeld(x[2])
      BY <1>1, <1>8, HeldPages
    <3>3. arena[p] # NoArena
      BY <2>2 DEF NoArena
    <3>4. p = HeadOf(x[2])
      BY <3>1, <3>2, <3>3 DEF PagesHeld, HeldRun
    <3>5. x[2].at \in BlocksOf(p, c) \ free[c]
      BY <2>2, <3>2, <3>4 DEF BlockHeld
    <3>6. x[2].at = h.at
      BY <1>4, <1>6, <2>2, <3>5
    <3> QED BY <1>1, <1>2, <1>3, <1>8, <3>6 DEF HeldOnce
  <2> QED BY <2>1, <2>2
<1> HIDE DEF p, c
<1>9. HeapTyped'
  <2>1. arena' \in [HeapPage -> [class : Class \cup {NoClass}, cnt : Nat]]
    BY <1>1, <1>5 DEF HeapTyped, NoArena
  <2> QED BY <1>1, <1>2, <1>5, <2>1 DEF HeapTyped, HeapPage
<1>10. ASSUME NEW x \in AllHeld, x # gone
       PROVE  /\ HeadOf(x[2])' \in HeapPage /\ HeldRun(x[2])' \subseteq taken'
              /\ HeldRun(x[2])' = HeldRun(x[2])
              /\ IF arena'[HeadOf(x[2])'].class = NoClass THEN PagesHeld(x[2])' ELSE BlockHeld(x[2])'
  <2> DEFINE q == HeadOf(x[2])
  <2>1. /\ q \in HeldRun(x[2]) /\ HeldRun(x[2]) \subseteq taken /\ taken \subseteq HeapPage
        /\ arena[q].class # NoClass => BlockHeld(x[2]) /\ arena[q].class \in Class
    BY <1>1, <1>10, HeldPages
  <2>2. \A r \in HeldRun(x[2]) : arena'[r] = arena[r] /\ r \in taken'
    BY <1>4, <1>5, <1>7, <1>8, <1>10, <2>1
  <2>3. arena[q].class # NoClass => x[2].at \notin free'[arena[q].class]
    BY <1>6, <2>1 DEF BlockHeld
  <2> QED BY <1>1, <2>2, <2>3, StillPlaced
<1>11. HeldPlaced'
  BY <1>2, <1>10 DEF HeldPlaced, HeapPage
<1>12. HeldOnce'
  BY <1>1, <1>2 DEF HeldOnce
<1>13. FreePlaced'
  <2>1. ASSUME NEW d \in Class, NEW e \in free'[d]
        PROVE  /\ ArenaOf(e) \in HeapPage /\ arena'[ArenaOf(e)].class = d
               /\ e \in BlocksOf(ArenaOf(e), d)
    <3>1. ArenaOf(e) \in HeapPage /\ arena[ArenaOf(e)].class = d /\ e \in BlocksOf(ArenaOf(e), d)
      BY <1>1, <1>6, <2>1 DEF FreePlaced
    <3>2. ArenaOf(e) # p
      <4>1. ASSUME ArenaOf(e) = p PROVE FALSE
        <5>1. c = d
          BY <3>1, <4>1 DEF c
        <5> QED BY <1>6, <2>1, <3>1, <4>1, <5>1
      <4> QED BY <4>1
    <3> QED BY <1>7, <3>1, <3>2
  <2> QED BY <2>1 DEF FreePlaced, HeapPage, ArenaOf, BlocksOf, BlocksPerArena, Block
<1>14. BlocksKept'
  <2>1. SUFFICES ASSUME NEW q \in HeapPage, NEW d, d = arena'[q].class, d # NoClass
                 PROVE  /\ q \in taken'
                        /\ \A e \in BlocksOf(q, d) \ free'[d] : \E x \in AllHeld' : x[2].at = e
                        /\ arena'[q].cnt = Cardinality(free'[d] \cap BlocksOf(q, d))
                        /\ arena'[q].cnt < BlocksPerArena(d)
    BY DEF BlocksKept, HeapPage, BlocksOf, BlocksPerArena, Block
  <2>2. q # p /\ arena'[q] = arena[q] /\ d = arena[q].class /\ d \in Class /\ q \in Nat
    BY <1>1, <1>7, <2>1 DEF NoArena, HeapTyped, HeapPage
  <2>3. /\ q \in taken
        /\ \A e \in BlocksOf(q, d) \ free[d] : \E x \in AllHeld : x[2].at = e
        /\ arena[q].cnt = Cardinality(free[d] \cap BlocksOf(q, d))
        /\ arena[q].cnt < BlocksPerArena(d)
    BY <1>1, <2>1, <2>2 DEF BlocksKept
  <2>4. q \notin HeldRun(h)
    <3>1. arena[q] # NoArena
      BY <2>1, <2>2 DEF NoArena
    <3> QED BY <1>4, <2>2, <3>1 DEF HeldRun, PagesHeld, p, c
  <2>5. \A e \in BlocksOf(q, d) : ArenaOf(e) = q
    BY <2>2, BlockPlace
  <2>6. free'[d] \cap BlocksOf(q, d) = free[d] \cap BlocksOf(q, d)
    <3>1. CASE d # c
      BY <1>6, <2>2, <3>1
    <3>2. CASE d = c
      <4>1. p \in Nat
        BY <1>4 DEF HeapPage
      <4>2. \A e \in BlocksOf(p, d) : ArenaOf(e) = p
        BY <2>2, <4>1, BlockPlace
      <4> QED BY <1>6, <2>2, <2>5, <3>2, <4>2
    <3> QED BY <3>1, <3>2
  <2>7. \A e \in BlocksOf(q, d) \ free'[d] : \E x \in AllHeld' : x[2].at = e
    <3> TAKE e \in BlocksOf(q, d) \ free'[d]
    <3>1. PICK x \in AllHeld : x[2].at = e
      BY <2>3, <2>6
    <3>2. x # gone
      BY <1>3, <2>2, <2>5, <3>1 DEF p, HeadOf
    <3> QED BY <1>2, <3>1, <3>2
  <2> QED BY <1>5, <2>2, <2>3, <2>4, <2>6, <2>7
<1>15. PagesKept'
  <2>1. ASSUME NEW q \in taken', arena'[q].class = NoClass PROVE \E x \in AllHeld' : q \in HeldRun(x[2])'
    <3>1. q \in taken /\ q \notin HeldRun(h) /\ q # p /\ q \in HeapPage
      BY <1>4, <1>5, <2>1
    <3>2. PICK x \in AllHeld : q \in HeldRun(x[2])
      BY <1>1, <1>7, <2>1, <3>1 DEF PagesKept
    <3>3. x # gone
      BY <1>3, <3>1, <3>2
    <3> QED BY <1>2, <1>10, <3>2, <3>3
  <2>2. \A q \in HeapPage \ taken' : arena'[q] = NoArena
    <3> TAKE q \in HeapPage \ taken'
    <3>1. q \notin taken \/ q \in HeldRun(h)
      BY <1>5
    <3>2. CASE q \notin taken
      BY <1>1, <1>7, <3>2 DEF PagesKept
    <3>3. CASE q \in HeldRun(h)
      BY <1>4, <1>7, <3>3 DEF HeldRun, PagesHeld, p, c
    <3> QED BY <3>1, <3>2, <3>3
  <2> QED BY <2>1, <2>2 DEF PagesKept, HeapPage
<1> QED BY <1>9, <1>11, <1>12, <1>13, <1>14, <1>15 DEF HeapInv

\* mem_free of pages.
LEMMA FreePagesInv ==
    ASSUME HeapInv, NEW t \in Task, NEW h \in held[t], MemFree(t, h),
           arena[HeadOf(h)].class = NoClass
    PROVE  HeapInv'
<1>1. /\ held' = [held EXCEPT ![t] = @ \ {h}] /\ free' = free
      /\ Unpage(HeadOf(h), arena[HeadOf(h)].cnt)
  BY DEF MemFree, HeadOf
<1>2. free' \in [Class -> SUBSET Nat]
  BY <1>1 DEF HeapInv, HeapTyped
<1> QED BY <1>1, <1>2, UnpageInv

\* mem_free of a block, whose arena keeps another one in use or leaves.
LEMMA FreeBlockInv ==
    ASSUME HeapInv, NEW t \in Task, NEW h \in held[t], MemFree(t, h),
           arena[HeadOf(h)].class # NoClass
    PROVE  HeapInv'
<1> DEFINE p == HeadOf(h)
           c == arena[p].class
           blocks == BlocksOf(p, c)
           list == free[c] \cap blocks
           gone == <<t, h>>
<1>1. HeapTyped /\ HeldPlaced /\ HeldOnce /\ FreePlaced /\ BlocksKept /\ PagesKept
  BY DEF HeapInv
<1>2. held' = [held EXCEPT ![t] = @ \ {h}] /\ Return(h.at)
  BY DEF MemFree, HeadOf
<1>3. /\ AllHeld' = AllHeld \ {gone} /\ gone \in AllHeld
      /\ held' \in [Task -> SUBSET [at : Nat, size : Nat \ {0}]]
  BY <1>1, <1>2, HeldGone
<1>4. gone[2] = h
  OBVIOUS
<1> HIDE DEF gone
<1>5. /\ p \in HeapPage /\ p \in taken /\ c \in Class /\ c # NoClass /\ BlockHeld(h)
  <2>1. h = gone[2]
    BY <1>4
  <2> QED BY <1>1, <1>3, <2>1, HeldPages
<1>6. h.at \in blocks /\ h.at \notin free[c] /\ h.at \in Nat /\ p \in Nat
  <2>1. h.at \in Nat
    BY <1>1, <1>3, <1>4, HeldTyped
  <2> QED BY <1>5, <2>1 DEF BlockHeld, HeapPage
<1>7. /\ IsFiniteSet(blocks) /\ Cardinality(blocks) = BlocksPerArena(c)
      /\ BlocksPerArena(c) \in Nat \ {0}
  BY <1>5, <1>6, BlocksCounted, BlocksFit
<1>8. arena[p].cnt = Cardinality(list) /\ arena[p].cnt < BlocksPerArena(c)
  BY <1>1, <1>5 DEF BlocksKept
<1>9. CASE arena[p].cnt + 1 = BlocksPerArena(c)
  <2>1. /\ free' = [free EXCEPT ![c] = @ \ blocks]
        /\ Unpage(p, 1)
    BY <1>2, <1>9 DEF Return, HeadOf
  <2>2. list = blocks \ {h.at}
    <3> HIDE DEF c, p, blocks
    <3>1. IsFiniteSet(blocks \ {h.at}) /\ Cardinality(blocks \ {h.at}) = Cardinality(blocks) - 1
      BY <1>6, <1>7, FS_RemoveElement
    <3>2. list \in SUBSET (blocks \ {h.at})
      BY <1>6
    <3>3. Cardinality(list) = Cardinality(blocks \ {h.at})
      <4>1. Cardinality(list) \in Nat
        BY <1>7, FS_Subset, FS_CardinalityType
      <4> HIDE DEF list
      <4> QED BY <1>7, <1>8, <1>9, <3>1, <4>1
    <3> HIDE DEF list
    <3> QED BY <3>1, <3>2, <3>3, FS_Subset
  <2>3. free' \in [Class -> SUBSET Nat]
    BY <1>1, <2>1 DEF HeapTyped
  <2> QED BY <1>2, <1>5, <2>1, <2>2, <2>3, UnpageInv
<1>10. CASE arena[p].cnt + 1 # BlocksPerArena(c)
  <2>1. /\ free' = [free EXCEPT ![c] = free[c] \cup {h.at}]
        /\ arena' = [arena EXCEPT ![p].cnt = arena[p].cnt + 1]
        /\ taken' = taken
    BY <1>2, <1>10 DEF Return, HeadOf
  <2> HIDE DEF c
  <2>2. /\ \A q \in HeapPage : arena'[q].class = arena[q].class
        /\ \A q \in HeapPage \ {p} : arena'[q] = arena[q]
        /\ arena'[p].cnt = arena[p].cnt + 1
    <3> HIDE DEF p
    <3> QED BY <1>1, <1>5, <2>1 DEF HeapTyped
  <2>3. free'[c] = free[c] \cup {h.at} /\ \A d \in Class \ {c} : free'[d] = free[d]
    BY <1>1, <1>5, <2>1 DEF HeapTyped
  <2>4. \A q \in HeapPage : arena[q].class = NoClass => q # p /\ arena'[q] = arena[q]
    BY <1>5, <2>2 DEF c
  <2>5. HeapTyped'
    <3>1. arena[p].cnt \in Nat
      BY <1>1, <1>5 DEF HeapTyped
    <3>2. arena' \in [HeapPage -> [class : Class \cup {NoClass}, cnt : Nat]]
      <4> HIDE DEF p
      <4> QED BY <1>1, <1>5, <2>1, <3>1 DEF HeapTyped
    <3>3. free' \in [Class -> SUBSET Nat]
      BY <1>1, <1>5, <1>6, <2>1 DEF HeapTyped
    <3> QED BY <1>1, <1>3, <2>1, <3>2, <3>3 DEF HeapTyped, HeapPage
  <2>6. ASSUME NEW x \in AllHeld, x # gone
        PROVE  /\ HeadOf(x[2])' \in HeapPage /\ HeldRun(x[2])' \subseteq taken'
               /\ HeldRun(x[2])' = HeldRun(x[2])
               /\ IF arena'[HeadOf(x[2])'].class = NoClass THEN PagesHeld(x[2])' ELSE BlockHeld(x[2])'
    <3> DEFINE q == HeadOf(x[2])
    <3>1. /\ HeldRun(x[2]) \subseteq taken /\ taken \subseteq HeapPage
          /\ arena[q].class # NoClass => BlockHeld(x[2]) /\ arena[q].class \in Class
      BY <1>1, <2>6, HeldPages
    <3>2. ASSUME NEW r \in HeldRun(x[2])
          PROVE  /\ r \in taken' /\ arena'[r].class = arena[r].class
                 /\ arena[r].class = NoClass => arena'[r] = arena[r]
      <4>1. r \in taken /\ r \in HeapPage
        BY <3>1
      <4> QED BY <2>1, <2>2, <2>4, <4>1
    <3>3. x[2].at # h.at
      BY <1>1, <1>3, <1>4, <2>6 DEF HeldOnce
    <3>4. arena[q].class # NoClass => x[2].at \notin free'[arena[q].class]
      BY <2>3, <3>1, <3>3 DEF BlockHeld
    <3> QED BY <1>1, <3>2, <3>4, StillPlaced
  <2>7. HeldPlaced'
    BY <1>3, <2>6 DEF HeldPlaced, HeapPage
  <2>8. HeldOnce'
    BY <1>1, <1>3 DEF HeldOnce
  <2>9. FreePlaced'
    <3>1. ASSUME NEW d \in Class, NEW e \in free'[d]
          PROVE  /\ ArenaOf(e) \in HeapPage /\ arena'[ArenaOf(e)].class = d
                 /\ e \in BlocksOf(ArenaOf(e), d)
      <4>1. CASE d = c /\ e = h.at
        BY <1>5, <1>6, <2>2, <4>1 DEF HeadOf, c
      <4>2. CASE e \in free[d]
        BY <1>1, <2>2, <4>2 DEF FreePlaced
      <4> QED BY <2>3, <3>1, <4>1, <4>2
    <3> QED BY <3>1 DEF FreePlaced, HeapPage, ArenaOf, BlocksOf, BlocksPerArena, Block
  <2>10. BlocksKept'
    <3>1. SUFFICES ASSUME NEW q \in HeapPage, NEW d, d = arena'[q].class, d # NoClass
                   PROVE  /\ q \in taken'
                          /\ \A e \in BlocksOf(q, d) \ free'[d] : \E x \in AllHeld' : x[2].at = e
                          /\ arena'[q].cnt = Cardinality(free'[d] \cap BlocksOf(q, d))
                          /\ arena'[q].cnt < BlocksPerArena(d)
      BY DEF BlocksKept, HeapPage, BlocksOf, BlocksPerArena, Block
    <3>2. d = arena[q].class /\ d \in Class /\ q \in Nat
      BY <1>1, <2>2, <3>1 DEF HeapTyped, HeapPage
    <3>3. /\ q \in taken
          /\ \A e \in BlocksOf(q, d) \ free[d] : \E x \in AllHeld : x[2].at = e
          /\ arena[q].cnt = Cardinality(free[d] \cap BlocksOf(q, d))
          /\ arena[q].cnt < BlocksPerArena(d)
      BY <1>1, <3>1, <3>2 DEF BlocksKept
    <3>4. \A e \in BlocksOf(q, d) : ArenaOf(e) = q
      BY <3>2, BlockPlace
    <3>5. \A e \in BlocksOf(q, d) \ free'[d] : \E x \in AllHeld' : x[2].at = e
      <4> TAKE e \in BlocksOf(q, d) \ free'[d]
      <4>1. e \notin free[d]
        BY <2>3, <3>2
      <4>2. PICK x \in AllHeld : x[2].at = e
        BY <3>3, <4>1
      <4>3. x # gone
        <5>1. ASSUME x = gone PROVE FALSE
          <6>1. e = h.at
            BY <1>4, <4>2, <5>1
          <6>2. q = p
            BY <3>4, <6>1 DEF HeadOf
          <6>3. d = c
            BY <3>2, <6>2 DEF c
          <6> QED BY <2>3, <6>1, <6>3
        <5> QED BY <5>1
      <4> QED BY <1>3, <4>2, <4>3
    <3>6. CASE q = p
      <4>1. d = c
        BY <3>2, <3>6 DEF c
      <4>2. free'[c] \cap blocks = list \cup {h.at}
        BY <1>6, <2>3
      <4>3. /\ Cardinality(list \cup {h.at}) = Cardinality(list) + 1 /\ Cardinality(list) \in Nat
        <5>1. IsFiniteSet(list) /\ h.at \notin list
          BY <1>6, <1>7, FS_Subset
        <5> HIDE DEF list
        <5> QED BY <5>1, FS_AddElement, FS_CardinalityType
      <4>4. arena'[p].cnt = Cardinality(free'[c] \cap blocks)
        BY <1>8, <2>2, <4>2, <4>3
      <4>5. arena'[p].cnt < BlocksPerArena(c)
        <5>1. arena'[p].cnt = arena[p].cnt + 1 /\ arena[p].cnt \in Nat
          BY <1>8, <2>2, <4>3
        <5> QED BY <1>7, <1>8, <1>10, <5>1 DEF c
      <4> QED BY <2>1, <3>3, <3>5, <3>6, <4>1, <4>4, <4>5
    <3>7. CASE q # p
      <4>1. free'[d] \cap BlocksOf(q, d) = free[d] \cap BlocksOf(q, d)
        <5>1. h.at \notin BlocksOf(q, d)
          BY <3>4, <3>7 DEF HeadOf
        <5> QED BY <2>3, <3>2, <5>1
      <4> QED BY <2>1, <2>2, <3>3, <3>5, <3>7, <4>1
    <3> QED BY <3>6, <3>7
  <2>11. PagesKept'
    <3>1. ASSUME NEW q \in taken', arena'[q].class = NoClass PROVE \E x \in AllHeld' : q \in HeldRun(x[2])'
      <4>1. q \in taken /\ q \in HeapPage /\ arena[q].class = NoClass
        BY <1>1, <2>1, <2>2, <3>1 DEF HeapTyped
      <4>2. PICK x \in AllHeld : q \in HeldRun(x[2])
        BY <1>1, <4>1 DEF PagesKept
      <4>3. x # gone
        BY <1>4, <1>5, <4>1, <4>2 DEF HeldRun, c
      <4> QED BY <1>3, <2>6, <4>2, <4>3
    <3>2. \A q \in HeapPage \ taken' : arena'[q] = NoArena
      BY <1>1, <1>5, <2>1, <2>2 DEF PagesKept
    <3> QED BY <3>1, <3>2 DEF PagesKept, HeapPage
  <2> QED BY <2>5, <2>7, <2>8, <2>9, <2>10, <2>11 DEF HeapInv
<1> QED BY <1>9, <1>10

\* The heap is empty at the start.
LEMMA HeapInitInv == HeapInit => HeapInv
<1> SUFFICES ASSUME HeapInit PROVE HeapInv
  OBVIOUS
<1>1. AllHeld = {}
  BY DEF HeapInit, AllHeld
<1>2. HeapTyped
  BY DEF HeapInit, HeapTyped, NoArena
<1>3. \A p \in HeapPage : arena[p] = NoArena /\ arena[p].class = NoClass
  BY DEF HeapInit, NoArena
<1>4. \A c \in Class : free[c] = {}
  BY DEF HeapInit
<1>5. HeldPlaced /\ HeldOnce
  BY <1>1 DEF HeldPlaced, HeldOnce
<1>6. FreePlaced
  BY <1>4 DEF FreePlaced
<1>7. BlocksKept
  BY <1>3 DEF BlocksKept
<1>8. PagesKept
  BY <1>3 DEF HeapInit, PagesKept
<1> QED BY <1>2, <1>5, <1>6, <1>7, <1>8 DEF HeapInv

\* Every step keeps the invariant.
LEMMA HeapNextInv == HeapInv /\ [HeapNext]_heapVars => HeapInv'
<1> SUFFICES ASSUME HeapInv, [HeapNext]_heapVars PROVE HeapInv'
  OBVIOUS
<1>1. ASSUME NEW t \in Task, NEW size \in Request, MemAlloc(t, size) PROVE HeapInv'
  <2>1. size \in Nat \ {0}
    BY HeapAssumption
  <2>2. CASE Large(size)
    BY <1>1, <2>1, <2>2, TakePagesInv DEF MemAlloc
  <2>3. ASSUME ~Large(size), NEW b \in free[ClassOf(size)], Take(t, size, b) PROVE HeapInv'
    BY <2>1, <2>3, TakeInv
  <2>4. ASSUME ~Large(size), NEW p \in HeapPage, TakeNew(t, size, p) PROVE HeapInv'
    BY <2>1, <2>4, TakeNewInv
  <2> QED BY <1>1, <2>2, <2>3, <2>4 DEF MemAlloc
<1>2. ASSUME NEW t \in Task, NEW h \in held[t], MemFree(t, h) PROVE HeapInv'
  BY <1>2, FreePagesInv, FreeBlockInv
<1>3. ASSUME UNCHANGED heapVars PROVE HeapInv'
  <2>1. arena' = arena /\ taken' = taken /\ free' = free /\ held' = held
    BY <1>3 DEF heapVars
  <2>2. HeapTyped' /\ AllHeld' = AllHeld
    BY <2>1 DEF HeapInv, HeapTyped, HeapPage, AllHeld
  <2>3. \A h : HeadOf(h)' = HeadOf(h) /\ HeldRun(h)' = HeldRun(h)
    BY <2>1 DEF HeadOf, HeldRun, PageCount
  <2>4. \A h : (PagesHeld(h)' <=> PagesHeld(h)) /\ (BlockHeld(h)' <=> BlockHeld(h))
    BY <2>1, <2>3 DEF PagesHeld, BlockHeld, PageCount, BlocksOf, BlocksPerArena, Block
  <2>5. HeldPlaced' /\ HeldOnce'
    BY <2>1, <2>2, <2>3, <2>4 DEF HeapInv, HeldPlaced, HeldOnce, HeapPage
  <2>6. FreePlaced'
    BY <2>1 DEF HeapInv, FreePlaced, HeapPage, ArenaOf, BlocksOf, BlocksPerArena, Block
  <2>7. BlocksKept'
    <3>1. SUFFICES ASSUME NEW q \in HeapPage, NEW d, d = arena'[q].class, d # NoClass
                   PROVE  /\ q \in taken'
                          /\ \A e \in BlocksOf(q, d) \ free'[d] : \E x \in AllHeld' : x[2].at = e
                          /\ arena'[q].cnt = Cardinality(free'[d] \cap BlocksOf(q, d))
                          /\ arena'[q].cnt < BlocksPerArena(d)
      BY DEF BlocksKept, HeapPage, BlocksOf, BlocksPerArena, Block
    <3> QED BY <2>1, <2>2, <3>1 DEF HeapInv, BlocksKept
  <2>8. PagesKept'
    BY <2>1, <2>2, <2>3 DEF HeapInv, PagesKept, HeapPage
  <2> QED BY <2>2, <2>5, <2>6, <2>7, <2>8 DEF HeapInv
<1> QED BY <1>1, <1>2, <1>3 DEF HeapNext

\* The inductive invariant of mem_alloc and mem_free (memory.c:404-524).
THEOREM HeapInvariance == HeapSpec => []HeapInv
<1>1. HeapInit => HeapInv
  BY HeapInitInv
<1>2. HeapInv /\ [HeapNext]_heapVars => HeapInv'
  BY HeapNextInv
<1> QED BY <1>1, <1>2, PTL DEF HeapSpec

\* The bytes of what is held are on its pages, behind the header, and it has a byte
\* on each of them.
LEMMA HeldBytes ==
    ASSUME HeapInv, NEW x \in AllHeld
    PROVE  /\ \A b \in Bytes(x[2].at, x[2].size) :
                 /\ b \in Nat /\ ArenaOf(b) \in HeldRun(x[2])
                 /\ ArenaOf(b) = HeadOf(x[2]) => HeadOf(x[2]) * PageSize + Header <= b
           /\ \A q \in HeldRun(x[2]) : \E b \in Bytes(x[2].at, x[2].size) : ArenaOf(b) = q
<1> DEFINE h == x[2]
           p == HeadOf(h)
           base == p * PageSize
<1>1. HeapTyped /\ HeldPlaced
  BY DEF HeapInv
<1>2. h.at \in Nat /\ h.size \in Nat \ {0}
  BY <1>1, HeldTyped
<1>3. /\ p \in Nat /\ p \in HeapPage
      /\ arena[p].class = NoClass => PagesHeld(h)
      /\ arena[p].class # NoClass => BlockHeld(h) /\ arena[p].class \in Class
  BY <1>1, HeldPages DEF HeapPage
<1>4. PageSize \in Nat \ {0} /\ Header \in Nat \ {0} /\ base \in Nat
  BY <1>3, HeapSizes
<1>5. h.at \in Bytes(h.at, h.size) /\ ArenaOf(h.at) = p
  BY <1>2 DEF Bytes, HeadOf
<1> HIDE DEF p, h
<1>6. CASE arena[p].class # NoClass
  <2> DEFINE c == arena[p].class
  <2>1. c \in Class /\ h.at \in BlocksOf(p, c) /\ h.size <= c /\ c \in Nat
    BY <1>3, <1>6, HeapSizes DEF BlockHeld, p
  <2>2. base + Header <= h.at /\ h.at + c <= base + PageSize
    BY <1>3, <2>1, BlockPlace
  <2>3. HeldRun(h) = {p}
    BY <1>6 DEF HeldRun, p
  <2>4. ASSUME NEW b \in Bytes(h.at, h.size)
        PROVE  b \in Nat /\ ArenaOf(b) = p /\ base + Header <= b
    <3>1. b \in Nat /\ h.at <= b /\ b < h.at + h.size
      BY <1>2 DEF Bytes
    <3>2. base <= b /\ b < base + PageSize /\ base + Header <= b
      BY <1>2, <1>4, <2>1, <2>2, <3>1
    <3> QED BY <1>3, <3>1, <3>2, OnPage
  <2> QED BY <1>5, <2>3, <2>4 DEF p, h
<1>7. CASE arena[p].class = NoClass
  <2> DEFINE n == PageCount(h.size)
  <2>1. h.at = base + Header /\ HeldRun(h) = p..(p + n - 1)
    BY <1>3, <1>7 DEF PagesHeld, HeldRun, p
  <2>2. /\ n \in Nat \ {0} /\ n * PageSize \in Nat /\ (n - 1) * PageSize \in Nat
        /\ Header + h.size <= n * PageSize /\ (n - 1) * PageSize < Header + h.size
    BY <1>2, PagesFit
  <2> HIDE DEF n
  <2>3. ASSUME NEW b \in Bytes(h.at, h.size)
        PROVE  b \in Nat /\ ArenaOf(b) \in p..(p + n - 1) /\ base + Header <= b
    <3>1. b \in Nat /\ base + Header <= b /\ b < base + Header + h.size
      BY <1>2, <1>4, <2>1 DEF Bytes
    <3> DEFINE q == b \div PageSize
    <3>2. q \in Nat /\ q * PageSize \in Nat /\ q * PageSize <= b /\ b < q * PageSize + PageSize
      BY <1>4, <3>1, DivFloor
    <3> HIDE DEF q
    <3>3. ~(q < p)
      <4>1. ASSUME q < p PROVE FALSE
        <5>1. q * PageSize + PageSize <= base
          BY <1>3, <1>4, <3>2, <4>1, TimesMonotone
        <5> QED BY <1>4, <3>1, <3>2, <5>1
      <4> QED BY <4>1
    <3>4. ~(q >= p + n)
      <4>1. ASSUME q >= p + n PROVE FALSE
        <5>1. (p + n) * PageSize = base + n * PageSize
          BY <1>3, <1>4, <2>2
        <5>2. (p + n) * PageSize <= q * PageSize
          <6>1. CASE q = p + n
            BY <3>2, <6>1
          <6>2. CASE q > p + n
            <7>1. p + n \in Nat /\ p + n < q
              BY <1>3, <2>2, <3>2, <6>2
            <7>2. (p + n) * PageSize + PageSize <= q * PageSize
              BY <1>4, <3>2, <7>1, TimesMonotone
            <7>3. (p + n) * PageSize \in Nat
              BY <1>4, <7>1
            <7> QED BY <1>4, <3>2, <7>2, <7>3
          <6> QED BY <1>3, <2>2, <3>2, <4>1, <6>1, <6>2
        <5> QED BY <1>2, <1>4, <2>2, <3>1, <3>2, <5>1, <5>2
      <4> QED BY <4>1
    <3> QED BY <1>3, <2>2, <3>1, <3>2, <3>3, <3>4 DEF ArenaOf, q
  <2>4. ASSUME NEW q \in p..(p + n - 1), q # p PROVE \E b \in Bytes(h.at, h.size) : ArenaOf(b) = q
    <3> DEFINE b == q * PageSize
    <3>1. q \in Nat /\ p < q /\ q <= p + (n - 1) /\ b \in Nat
      BY <1>3, <1>4, <2>2, <2>4
    <3>2. base + PageSize <= b
      BY <1>3, <1>4, <3>1, TimesMonotone
    <3>3. (p + (n - 1)) * PageSize = base + (n - 1) * PageSize
      BY <1>3, <1>4, <2>2
    <3>4. b <= (p + (n - 1)) * PageSize
      <4>1. CASE q = p + (n - 1)
        BY <1>4, <2>2, <3>1, <3>3, <4>1
      <4>2. CASE q < p + (n - 1)
        <5>1. p + (n - 1) \in Nat
          BY <1>3, <2>2
        <5>2. b + PageSize <= (p + (n - 1)) * PageSize
          BY <1>4, <3>1, <4>2, <5>1, TimesMonotone
        <5> QED BY <1>4, <2>2, <3>1, <3>3, <5>2
      <4> QED BY <1>3, <2>2, <3>1, <4>1, <4>2
    <3>5. Header <= PageSize
      BY HeapSizes
    <3>6. b \in Bytes(h.at, h.size)
      <4> DEFINE top == (n - 1) * PageSize
      <4>1. b <= base + top /\ top < Header + h.size /\ top \in Nat
        BY <2>2, <3>3, <3>4
      <4> HIDE DEF b, top
      <4>2. h.at <= b /\ b <= h.at + h.size - 1
        BY <1>2, <1>4, <2>1, <3>1, <3>2, <3>5, <4>1
      <4> QED BY <1>2, <3>1, <4>2 DEF Bytes
    <3>7. ArenaOf(b) = q
      BY <1>4, <3>1, OnPage
    <3> QED BY <3>6, <3>7
  <2> QED BY <1>5, <2>1, <2>3, <2>4 DEF p, h
<1> QED BY <1>6, <1>7

\* The bytes of a free block are on a page of a class, and the page is somebody's.
LEMMA FreeBytes ==
    ASSUME HeapInv, NEW c \in Class, NEW e \in free[c], NEW b \in Bytes(e, c)
    PROVE  ArenaOf(b) = ArenaOf(e) /\ ArenaOf(e) \in Nat /\ arena[ArenaOf(e)].class = c
           /\ e \in BlocksOf(ArenaOf(e), c) /\ e \in Nat /\ c \in Nat /\ b \in Nat
<1>1. ArenaOf(e) \in Nat /\ arena[ArenaOf(e)].class = c /\ e \in BlocksOf(ArenaOf(e), c)
  BY DEF HeapInv, FreePlaced, HeapPage
<1> DEFINE p == ArenaOf(e)
<1>2. /\ e \in Nat /\ p * PageSize \in Nat /\ p * PageSize + Header <= e
      /\ e + c <= p * PageSize + PageSize
  BY <1>1, BlockPlace
<1>3. c \in Nat /\ PageSize \in Nat /\ Header \in Nat
  BY HeapSizes
<1> HIDE DEF p
<1>4. b \in Nat /\ e <= b /\ b < e + c
  BY <1>2, <1>3 DEF Bytes
<1>5. p * PageSize <= b /\ b < p * PageSize + PageSize
  BY <1>2, <1>3, <1>4
<1>6. ArenaOf(b) = p
  BY <1>1, <1>4, <1>5, OnPage DEF p
<1> QED BY <1>1, <1>2, <1>3, <1>4, <1>6 DEF p

\* No byte that is held is in a header, in a free block or somebody else's
\* (memory.c:404-502).
LEMMA HeldIsDisjoint == HeapInv => HeldDisjoint
<1> SUFFICES ASSUME HeapInv PROVE HeldDisjoint
  OBVIOUS
<1>1. HeapTyped /\ HeldPlaced /\ HeldOnce
  BY DEF HeapInv
<1>2. SUFFICES ASSUME NEW x \in AllHeld, NEW b \in Bytes(x[2].at, x[2].size)
               PROVE  /\ ArenaOf(b) \in taken /\ b \notin Heads
                      /\ \A y \in AllHeld \ {x} : b \notin Bytes(y[2].at, y[2].size)
                      /\ \A c \in Class : \A e \in free[c] : b \notin Bytes(e, c)
  BY DEF HeldDisjoint
<1> DEFINE p == HeadOf(x[2])
<1>3. b \in Nat /\ ArenaOf(b) \in HeldRun(x[2]) /\ (ArenaOf(b) = p => p * PageSize + Header <= b)
  BY <1>2, HeldBytes
<1>4. x[2].at \in Nat /\ x[2].size \in Nat \ {0} /\ x[2].at <= b /\ b < x[2].at + x[2].size
  <2>1. x[2].at \in Nat /\ x[2].size \in Nat \ {0}
    BY <1>1, HeldTyped
  <2> QED BY <1>2, <2>1 DEF Bytes
<1>5. /\ p \in HeapPage /\ p \in Nat /\ HeldRun(x[2]) \subseteq taken
      /\ arena[p].class = NoClass => PagesHeld(x[2])
      /\ arena[p].class # NoClass => BlockHeld(x[2]) /\ arena[p].class \in Class
  BY <1>1, <1>2, HeldPages DEF HeapPage
<1>6. b \notin Heads
  <2>1. SUFFICES ASSUME NEW q \in HeapPage, arena[q] # NoArena, b \in Bytes(q * PageSize, Header)
                 PROVE  FALSE
    BY DEF Heads
  <2>2. q \in Nat /\ q * PageSize \in Nat /\ Header \in Nat /\ PageSize \in Nat /\ Header <= PageSize
    BY HeapSizes DEF HeapPage
  <2>3. q * PageSize <= b /\ b < q * PageSize + Header
    BY <1>3, <2>1, <2>2 DEF Bytes
  <2>4. ArenaOf(b) = q
    <3>1. b < q * PageSize + PageSize
      BY <1>3, <2>2, <2>3
    <3> QED BY <1>3, <2>2, <2>3, <3>1, OnPage
  <2>5. q # p
    BY <1>3, <2>2, <2>3, <2>4
  <2>6. arena[p].class = NoClass
    BY <1>3, <2>4, <2>5 DEF HeldRun
  <2> QED BY <1>3, <1>5, <2>1, <2>4, <2>5, <2>6 DEF PagesHeld
<1>7. ASSUME NEW y \in AllHeld \ {x}, b \in Bytes(y[2].at, y[2].size) PROVE FALSE
  <2>1. ArenaOf(b) \in HeldRun(y[2])
    BY <1>7, HeldBytes
  <2>2. HeldRun(x[2]) \cap HeldRun(y[2]) # {}
    BY <1>3, <2>1
  <2>3. arena[HeadOf(y[2])].class # NoClass /\ arena[p].class # NoClass
    BY <1>1, <1>2, <1>7, <2>2, RunsDisjoint
  <2>4. HeadOf(y[2]) = p
    BY <1>3, <2>1, <2>3 DEF HeldRun
  <2> DEFINE c == arena[p].class
  <2>5. BlockHeld(y[2]) /\ y[2].at \in Nat /\ y[2].size \in Nat
    BY <1>1, <1>7, <2>3, HeldPages, HeldTyped
  <2>6. /\ x[2].at \in BlocksOf(p, c) /\ y[2].at \in BlocksOf(p, c) /\ c \in Class /\ c \in Nat
        /\ x[2].size <= c /\ y[2].size <= c
    BY <1>5, <2>3, <2>4, <2>5, HeapSizes DEF BlockHeld
  <2>7. x[2].at # y[2].at
    BY <1>1, <1>7 DEF HeldOnce
  <2>8. y[2].at <= b /\ b < y[2].at + y[2].size
    BY <1>7, <2>5 DEF Bytes
  <2> HIDE DEF c, p
  <2>9. x[2].at + c <= y[2].at \/ y[2].at + c <= x[2].at
    BY <1>5, <2>6, <2>7, BlocksApart
  <2> QED BY <1>3, <1>4, <2>5, <2>6, <2>8, <2>9
<1>8. ASSUME NEW c \in Class, NEW e \in free[c], b \in Bytes(e, c) PROVE FALSE
  <2>1. /\ ArenaOf(b) = ArenaOf(e) /\ arena[ArenaOf(b)].class = c /\ c # NoClass
        /\ e \in BlocksOf(ArenaOf(b), c) /\ e \in Nat /\ c \in Nat
    BY <1>8, FreeBytes, HeapSizes
  <2>2. e <= b /\ b < e + c
    BY <1>3, <1>8, <2>1 DEF Bytes
  <2>3. ArenaOf(b) = p
    <3>1. arena[ArenaOf(b)] # NoArena
      BY <2>1 DEF NoArena
    <3> QED BY <1>3, <1>5, <3>1 DEF HeldRun, PagesHeld
  <2>4. x[2].at \in BlocksOf(p, c) /\ x[2].at \notin free[c] /\ x[2].size <= c
    BY <1>5, <2>1, <2>3 DEF BlockHeld
  <2>5. e # x[2].at /\ e \in BlocksOf(p, c)
    BY <1>8, <2>1, <2>3, <2>4
  <2> HIDE DEF p
  <2>6. x[2].at + c <= e \/ e + c <= x[2].at
    BY <1>5, <2>4, <2>5, BlocksApart
  <2> QED BY <1>3, <1>4, <2>1, <2>2, <2>4, <2>6
<1> QED BY <1>3, <1>5, <1>6, <1>7, <1>8

\* No byte of the heap is in two hands (mem_acquire and mem_alloc, memory.c:404-502).
THEOREM HeldApart == HeapSpec => []HeldDisjoint
BY HeapInvariance, HeldIsDisjoint, PTL

\* The counters of the arenas count their free blocks, and no page is kept for nobody
\* (mem_release, memory.c:443-456).
THEOREM ArenasCounted == HeapSpec => []ArenasExact
<1>1. ASSUME HeapInv PROVE ArenasExact
  <2>1. HeapTyped /\ HeldPlaced /\ FreePlaced /\ BlocksKept /\ PagesKept
    BY <1>1 DEF HeapInv
  <2>2. NoClass \notin Class
    BY HeapSizes
  <2>3. \A c \in Class : \A b \in free[c] : arena[ArenaOf(b)].class = c
    BY <2>1 DEF FreePlaced
  <2>4. \A c \in Class : \A p \in HeapPage : arena[p].class = c =>
            /\ arena[p].cnt = Cardinality(free[c] \cap BlocksOf(p, c))
            /\ arena[p].cnt < BlocksPerArena(c)
    BY <2>1, <2>2 DEF BlocksKept
  <2> DEFINE bytes == UNION {Bytes(x[2].at, x[2].size) : x \in AllHeld}
  <2>5. ASSUME NEW b \in bytes PROVE ArenaOf(b) \in taken
    <3>1. PICK x \in AllHeld : b \in Bytes(x[2].at, x[2].size)
      BY <2>5
    <3>2. ArenaOf(b) \in HeldRun(x[2])
      BY <1>1, <3>1, HeldBytes
    <3> QED BY <2>1, <3>2, HeldPages
  <2>6. ASSUME NEW p \in taken PROVE \E b \in bytes : ArenaOf(b) = p
    <3>1. p \in HeapPage
      BY <2>1 DEF HeapTyped
    <3>2. \E x \in AllHeld : p \in HeldRun(x[2])
      <4>1. CASE arena[p].class = NoClass
        BY <2>1, <4>1 DEF PagesKept
      <4>2. CASE arena[p].class # NoClass
        <5> DEFINE c == arena[p].class
        <5>1. /\ c \in Class /\ p \in Nat
              /\ \A b \in BlocksOf(p, c) \ free[c] : \E x \in AllHeld : x[2].at = b
              /\ arena[p].cnt = Cardinality(free[c] \cap BlocksOf(p, c))
              /\ arena[p].cnt < BlocksPerArena(c)
          <6>1. c \in Class /\ p \in Nat
            BY <2>1, <3>1, <4>2 DEF HeapTyped, HeapPage
          <6> QED BY <2>1, <3>1, <4>2, <6>1 DEF BlocksKept
        <5> HIDE DEF c
        <5>2. Cardinality(BlocksOf(p, c)) = BlocksPerArena(c) /\ BlocksPerArena(c) \in Nat
          BY <5>1, BlocksCounted, BlocksFit
        <5>3. free[c] \cap BlocksOf(p, c) # BlocksOf(p, c)
          BY <5>1, <5>2
        <5>4. PICK b \in BlocksOf(p, c) : b \notin free[c]
          BY <5>3
        <5>5. PICK x \in AllHeld : x[2].at = b
          BY <5>1, <5>4
        <5>6. HeadOf(x[2]) = p
          BY <5>1, <5>4, <5>5, BlockPlace DEF HeadOf
        <5> QED BY <2>1, <5>6, HeldPages
      <4> QED BY <4>1, <4>2
    <3>3. PICK x \in AllHeld : p \in HeldRun(x[2])
      BY <3>2
    <3> QED BY <1>1, <3>3, HeldBytes
  <2>7. taken = {ArenaOf(b) : b \in bytes}
    <3> HIDE DEF bytes
    <3> QED BY <2>5, <2>6
  <2> QED BY <2>3, <2>4, <2>7 DEF ArenasExact
<1> QED BY <1>1, HeapInvariance, PTL
================================================================================
