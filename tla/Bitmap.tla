-------------------------------- MODULE Bitmap --------------------------------
(***************************************************************************)
(* bitmap.c: the allocator under the pid pool, the page pools and the      *)
(* block and inode tables of a partition.  A bitmap is the set of its one  *)
(* bits; len is its length in bytes.                                       *)
(***************************************************************************)
EXTENDS Integers, FiniteSetsExt

CONSTANT ByteBits  \* bits in a byte: 8 in the code

ASSUME BitmapAssumption == ByteBits \in Nat \ {0}

BitIndex(len) == 0..(len * ByteBits - 1)
ByteOf(idx) == idx \div ByteBits

\* 0xff == btmp->bits[i]
ByteFull(bits, i) == {i * ByteBits + j : j \in 0..(ByteBits - 1)} \subseteq bits

\* The first zero bit: the search by byte, then the search by bit.
Spare(bits, len) == {i \in 0..(len - 1) : ~ByteFull(bits, i)}
FirstZero(bits, len) ==
    LET byte == Min(Spare(bits, len))
    IN  Min({idx \in BitIndex(len) : ByteOf(idx) = byte} \ bits)

\* Mutant: a one bit does not reset free_count.
RunNeverReset(bits, len) ==
    LET first == FirstZero(bits, len)
        free[idx \in BitIndex(len)] ==
            IF idx <= first THEN 1
            ELSE IF idx \in bits THEN free[idx - 1] ELSE free[idx - 1] + 1
    IN  free

\* free_count after the loop has looked at bit idx.
FreeCount(bits, len) ==
    LET first == FirstZero(bits, len)
        free[idx \in BitIndex(len)] ==
            IF idx <= first THEN 1
            ELSE IF idx \in bits THEN 0 ELSE free[idx - 1] + 1
    IN  free

\* bitmap_acquire: the first of cnt zero bits in a row, or -1.
BitmapAcquire(bits, len, cnt) ==
    IF Spare(bits, len) = {} THEN -1
    ELSE LET first == FirstZero(bits, len)
             free  == FreeCount(bits, len)
             ends  == {idx \in BitIndex(len) : idx > first /\ free[idx] = cnt}
         IN  IF cnt = 1 THEN first
             ELSE IF ends = {} THEN -1 ELSE Min(ends) - cnt + 1

\* What it promises: the lowest run of cnt zero bits there is.
FirstFit(bits, len, cnt) ==
    LET runs == {s \in BitIndex(len) : s..(s + cnt - 1) \subseteq BitIndex(len) \ bits}
    IN  IF runs = {} THEN -1 ELSE Min(runs)
===============================================================================
