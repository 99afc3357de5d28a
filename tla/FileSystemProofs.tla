--------------------------- MODULE FileSystemProofs ----------------------------
(***************************************************************************)
(* Proofs about a partition.  Inode, for every number and size of blocks   *)
(* and inodes and a power failure at any point of inode_write: the blocks, *)
(* then the bytes, then that it is a set of byte sequences (AbstractFiles).*)
(* Files, for every number of inodes, slots, descriptors and processes:    *)
(* the tree of names, then slots, open counts and descriptors.             *)
(***************************************************************************)
EXTENDS Inode, Files, FiniteSetTheorems, SequenceTheorems, TLAPS

DataTyped ==
    /\ disk \in [Lba -> [Offset -> Byte \cup {0}]]
    /\ cache \in [Ino -> [node : Node, open : Nat]]
    /\ IsFiniteSet(lost) /\ Cardinality(lost) <= MaxLost

\* A block of an inode is taken, by the inode alone and in one place.
Uses(i, s) == table[i].block[s] # NoBlock
OwnersApart ==
    \A i, j \in inode_btmp : \A s, z \in Slot :
        Uses(i, s) /\ table[i].block[s] = table[j].block[z] => i = j /\ s = z
OwnedTaken ==
    \A i \in inode_btmp : \A s \in Slot : Uses(i, s) => table[i].block[s] \in blk_btmp \ lost
TakenOwned ==
    \A b \in blk_btmp \ lost : \E i \in inode_btmp : \E s \in Slot : table[i].block[s] = b

\* The bytes of an inode have their blocks; the indirect block comes with the last
\* direct one, and stays empty.
Covered ==
    \A i \in inode_btmp :
        /\ \A s \in 0..(Direct - 1) : s * BlockSize < table[i].size => Uses(i, s)
        /\ i # Root /\ Uses(i, Direct - 1) => Uses(i, Direct)
        /\ Uses(i, Direct) => disk[table[i].block[Direct]] = Zero
FreeZero == \A b \in Lba \ blk_btmp : disk[b] = Zero

\* The inductive invariant.
IInv == /\ TypeOK /\ DataTyped /\ Root \in inode_btmp
        /\ OwnersApart /\ OwnedTaken /\ TakenOwned /\ Covered /\ FreeZero /\ CacheIsTable

-----------------------------------------------------------------------------

(* Numbers and finite sets.                                                  *)

\* A set of numbers that has a member has a least one.
LEMMA LeastNat ==
    ASSUME NEW S \in SUBSET Nat, S # {}
    PROVE  \E x \in S : \A y \in S : x <= y
<1>1. IsWellFoundedOn(OpToRel(<, Nat), Nat)
  BY NatLessThanWellFounded
<1>2. PICK x \in S : \A y \in S : ~(<<y, x>> \in OpToRel(<, Nat))
  BY <1>1, WFMin
<1>3. \A y \in S : ~(y < x)
  BY <1>2 DEF OpToRel
<1> QED BY <1>3

\* The larger of two numbers.
LEMMA MaxTwo ==
    ASSUME NEW a \in Nat, NEW b \in Nat
    PROVE  Max({a, b}) \in Nat /\ Max({a, b}) = IF a > b THEN a ELSE b
<1> DEFINE m == IF a > b THEN a ELSE b
<1>1. m \in {a, b} /\ \A y \in {a, b} : m >= y
  OBVIOUS
<1>2. \A x \in {a, b} : (\A y \in {a, b} : x >= y) => x = m
  OBVIOUS
<1> QED BY <1>1, <1>2 DEF Max

\* There is a member of a finite set of numbers that has just k below it.
Below(F, b) == {c \in F : c < b}
LEMMA NthMember ==
    ASSUME NEW F \in SUBSET Nat, IsFiniteSet(F), NEW k \in Nat, k < Cardinality(F)
    PROVE  \E b \in F : Cardinality(Below(F, b)) = k
<1> DEFINE bad == {j \in Nat : j < Cardinality(F) /\ ~\E b \in F : Cardinality(Below(F, b)) = j}
<1> SUFFICES ASSUME bad # {} PROVE FALSE
  OBVIOUS
<1>1. Cardinality(F) \in Nat
  BY FS_CardinalityType
<1>2. PICK m \in bad : \A j \in bad : m <= j
  <2>1. bad \in SUBSET Nat
    OBVIOUS
  <2> HIDE DEF bad
  <2> QED BY <2>1, LeastNat
<1>3. F # {}
  BY <1>1, <1>2, FS_EmptySet
<1>4. CASE m = 0
  <2>1. PICK b \in F : \A c \in F : b <= c
    BY <1>3, LeastNat
  <2>2. \A c \in F : ~(c < b)
    BY <2>1
  <2>3. Below(F, b) = {}
    BY <2>2 DEF Below
  <2> QED BY <1>2, <1>4, <2>3, FS_EmptySet
<1>5. CASE m # 0
  <2>1. m - 1 \in Nat /\ m - 1 < Cardinality(F) /\ m - 1 \notin bad
    BY <1>1, <1>2, <1>5
  <2>2. PICK b \in F : Cardinality(Below(F, b)) = m - 1
    BY <2>1
  <2> DEFINE above == {c \in F : b < c}
             upto == Below(F, b) \cup {b}
  <2>3. IsFiniteSet(Below(F, b)) /\ b \notin Below(F, b)
    BY FS_Subset DEF Below
  <2>4. IsFiniteSet(upto) /\ Cardinality(upto) = m
    <3>1. Cardinality(upto) = Cardinality(Below(F, b)) + 1 /\ IsFiniteSet(upto)
      BY <2>3, FS_AddElement
    <3> QED BY <1>2, <2>2, <3>1
  <2>5. above # {}
    <3>1. ASSUME above = {} PROVE F = upto
      <4>1. \A c \in F : ~(b < c)
        BY <3>1
      <4>2. \A c \in F : c < b \/ c = b
        BY <4>1
      <4> QED BY <4>2 DEF Below
    <3> HIDE DEF above, upto
    <3> QED BY <1>1, <1>2, <2>4, <3>1
  <2>6. PICK d \in above : \A c \in above : d <= c
    <3>1. above \in SUBSET Nat
      OBVIOUS
    <3> HIDE DEF above
    <3> QED BY <2>5, <3>1, LeastNat
  <2>7. d \in F /\ b < d /\ \A c \in F : b < c => d <= c
    BY <2>6
  <2>8. \A c \in F : c < d <=> c < b \/ c = b
    <3> HIDE DEF above, bad
    <3> QED BY <2>7
  <2>9. Below(F, d) = upto
    BY <2>8 DEF Below
  <2> QED BY <1>2, <2>4, <2>7, <2>9
<1> QED BY <1>4, <1>5

\* Multiples of a number do not overlap.
LEMMA TimesMonotone ==
    ASSUME NEW a \in Nat, NEW b \in Nat, NEW c \in Nat, a < b
    PROVE  a * c + c <= b * c
<1>1. PICK d \in Nat : b = a + 1 + d
  BY b - a - 1 \in Nat
<1>2. b * c = a * c + c + d * c
  BY <1>1
<1>3. d * c \in Nat
  BY <1>1
<1>4. a * c \in Nat
  OBVIOUS
<1> QED BY <1>2, <1>3, <1>4

\* Byte k of a file is in block k \div BlockSize.
LEMMA BlockOfByte ==
    ASSUME NEW k \in Nat
    PROVE  /\ k \div BlockSize \in Nat /\ (k \div BlockSize) * BlockSize \in Nat
           /\ (k \div BlockSize) * BlockSize <= k
           /\ k < (k \div BlockSize) * BlockSize + BlockSize
<1>1. BlockSize \in Nat \ {0}
  BY InodeAssumption
<1>2. k \div BlockSize \in Nat /\ k % BlockSize \in 0..(BlockSize - 1)
      /\ k = BlockSize * (k \div BlockSize) + (k % BlockSize)
  BY <1>1, SMTT(20)
<1>3. \A a \in Nat : BlockSize * a = a * BlockSize /\ a * BlockSize \in Nat
  BY <1>1
<1> QED BY <1>1, <1>2, <1>3

\* A block begins at or before byte k just if it is not behind the block of k.
LEMMA BlockIndex ==
    ASSUME NEW k \in Nat, NEW s \in Nat
    PROVE  /\ s * BlockSize \in Nat
           /\ s * BlockSize <= k <=> s <= k \div BlockSize
           /\ k < s * BlockSize <=> k \div BlockSize < s
<1> DEFINE q == k \div BlockSize
<1>1. BlockSize \in Nat \ {0} /\ s * BlockSize \in Nat
  BY InodeAssumption
<1>2. /\ q \in Nat /\ q * BlockSize \in Nat /\ q * BlockSize <= k /\ k < q * BlockSize + BlockSize
  BY BlockOfByte
<1> HIDE DEF q
<1>3. ASSUME s <= q PROVE s * BlockSize <= k
  <2>1. CASE s = q
    BY <1>2, <2>1
  <2>2. CASE s < q
    BY <1>1, <1>2, <2>2, TimesMonotone
  <2> QED BY <1>2, <1>3, <2>1, <2>2
<1>4. ASSUME q < s PROVE k < s * BlockSize
  BY <1>1, <1>2, <1>4, TimesMonotone
<1> QED BY <1>1, <1>2, <1>3, <1>4 DEF q

\* What the assumption says of the index sets.
LEMMA Sizes ==
    /\ Direct \in Nat \ {0} /\ BlockSize \in Nat \ {0} /\ Dirent \in Nat \ {0} /\ Dirent <= MaxSize
    /\ MaxSize \in Nat /\ MaxSize <= Direct * BlockSize /\ MaxLost \in Nat
    /\ Root \in Ino /\ 0 \in Slot /\ Direct \in Slot /\ 0..(Direct - 1) \subseteq Slot
    /\ Slot \subseteq Nat /\ \A s \in Slot : s # Direct => s \in 0..(Direct - 1)
    /\ IsFiniteSet(Ino) /\ IsFiniteSet(Slot) /\ IsFiniteSet(Lba) /\ Lba \subseteq Nat
    /\ Cardinality(Ino) * Cardinality(Slot) + MaxLost <= Cardinality(Lba)
    /\ 1 \in Lba /\ NoBlock \notin Lba
<1>1. /\ Direct \in Nat \ {0} /\ BlockSize \in Nat \ {0} /\ Dirent \in Nat \ {0}
      /\ Inodes \in Nat \ {0} /\ Blocks \in Nat /\ MaxLost \in Nat
  BY InodeAssumption
<1>2. /\ Root \in Ino /\ 0 \in Slot /\ Direct \in Slot /\ 0..(Direct - 1) \subseteq Slot
      /\ Slot \subseteq Nat /\ \A s \in Slot : s # Direct => s \in 0..(Direct - 1)
      /\ Lba \subseteq Nat /\ NoBlock \notin Lba
  BY <1>1 DEF Root, Ino, Slot, Lba, NoBlock
<1>3. /\ IsFiniteSet(Ino) /\ Cardinality(Ino) = Inodes /\ IsFiniteSet(Slot)
      /\ Cardinality(Slot) = Direct + 1 /\ IsFiniteSet(Lba) /\ Cardinality(Lba) = Blocks
  <2>1. IsFiniteSet(Ino) /\ Cardinality(Ino) = Inodes
    BY <1>1, FS_Interval DEF Ino
  <2>2. IsFiniteSet(Slot) /\ Cardinality(Slot) = Direct + 1
    BY <1>1, FS_Interval DEF Slot
  <2>3. IsFiniteSet(Lba) /\ Cardinality(Lba) = Blocks
    BY <1>1, FS_Interval DEF Lba
  <2> QED BY <2>1, <2>2, <2>3
<1>4. Inodes * (Direct + 1) + MaxLost <= Blocks
  BY InodeAssumption
<1>5. 0 * (Direct + 1) + (Direct + 1) <= Inodes * (Direct + 1)
  BY <1>1, TimesMonotone
<1>6. 1 \in Lba
  <2>1. Inodes * (Direct + 1) \in Nat /\ 0 * (Direct + 1) = 0
    BY <1>1
  <2>2. 1 <= Blocks
    BY <1>1, <1>4, <1>5, <2>1
  <2> QED BY <1>1, <2>2 DEF Lba
<1>7. MaxSize \in Nat /\ MaxSize <= Direct * BlockSize /\ Dirent <= MaxSize
  <2>1. MaxSize \in Dirent..(Direct * BlockSize) /\ Direct * BlockSize \in Nat
    BY <1>1, InodeAssumption
  <2> QED BY <1>1, <2>1
<1> QED BY <1>1, <1>2, <1>3, <1>4, <1>6, <1>7

\* fs_format: the root and its block.
LEMMA InitIInv == Init => IInv
<1> SUFFICES ASSUME Init PROVE IInv
  OBVIOUS
<1> USE DEF Init
<1>1. /\ EmptyNode \in Node /\ EmptyNode.size = 0 /\ \A s \in Slot : EmptyNode.block[s] = NoBlock
      /\ Zero \in [Offset -> Byte \cup {0}]
  BY Sizes DEF EmptyNode, Node, Zero
<1>2. /\ RootNode \in Node /\ RootNode.size = Dirent
      /\ \A s \in Slot : RootNode.block[s] = IF s = 0 THEN 1 ELSE NoBlock
  BY Sizes DEF RootNode, EmptyNode, Node
<1>3. Min(Byte) \in Byte
  <2>1. Byte \in SUBSET Nat /\ Byte # {}
    BY InodeAssumption
  <2> QED BY <2>1, LeastNat DEF Min
<1> HIDE DEF Node, EmptyNode, RootNode, Zero
<1>4. /\ table \in [Ino -> Node] /\ inode_btmp = {Root} /\ blk_btmp = {1} /\ lost = {}
      /\ table[Root] = RootNode
  BY <1>1, <1>2, Sizes
<1>5. disk \in [Lba -> [Offset -> Byte \cup {0}]]
  BY <1>1, <1>3
<1>6. \A b \in Lba \ {1} : disk[b] = Zero
  OBVIOUS
<1>7. TypeOK
  BY <1>4, <1>5, Sizes DEF TypeOK, Cached
<1>8. cache \in [Ino -> [node : Node, open : Nat]] /\ \A i \in Ino : ~Cached(i)
  BY <1>1 DEF Uncached, Cached
<1>9. DataTyped
  BY <1>4, <1>5, <1>8, Sizes, FS_EmptySet DEF DataTyped
<1>10. OwnersApart /\ OwnedTaken /\ TakenOwned
  BY <1>2, <1>4, Sizes DEF OwnersApart, OwnedTaken, TakenOwned, Uses
<1>11. Covered
  <2>1. \A s \in 0..(Direct - 1) : s * BlockSize < Dirent => s = 0
    <3>1. Dirent <= BlockSize
      BY InodeAssumption
    <3>2. ASSUME NEW s \in 0..(Direct - 1), s # 0 PROVE ~(s * BlockSize < Dirent)
      <4>1. 0 * BlockSize + BlockSize <= s * BlockSize /\ s * BlockSize \in Nat
        BY <3>2, Sizes, TimesMonotone
      <4> QED BY <3>1, <4>1, Sizes
    <3> QED BY <3>2
  <2>2. ~Uses(Root, Direct)
    BY <1>2, <1>4, Sizes DEF Uses
  <2>3. \A s \in 0..(Direct - 1) : s * BlockSize < table[Root].size => Uses(Root, s)
    BY <1>2, <1>4, <2>1, Sizes DEF Uses, NoBlock
  <2> QED BY <1>4, <2>2, <2>3 DEF Covered
<1>12. FreeZero /\ CacheIsTable /\ Root \in inode_btmp
  BY <1>4, <1>6, <1>8 DEF FreeZero, CacheIsTable
<1> QED BY <1>7, <1>9, <1>10, <1>11, <1>12 DEF IInv

-----------------------------------------------------------------------------
(* The free blocks suffice for every inode's missing ones, and a call gets   *)
(* one of its own for each of them.                                          *)

\* There are as many free blocks as the inodes may still need.
LEMMA EnoughBlocks ==
    ASSUME TypeOK, DataTyped, OwnersApart, TakenOwned,
           NEW i \in inode_btmp, NEW need \in SUBSET Slot, \A s \in need : ~Uses(i, s)
    PROVE  /\ IsFiniteSet(need) /\ IsFiniteSet(Lba \ blk_btmp)
           /\ Cardinality(need) <= Cardinality(Lba \ blk_btmp)
<1> DEFINE places == {u \in inode_btmp \X Slot : Uses(u[1], u[2])}
           owned == blk_btmp \ lost
           wanted == {i} \X need
           place == [b \in owned |-> CHOOSE u \in places : table[u[1]].block[u[2]] = b]
<1>1. /\ IsFiniteSet(Ino \X Slot) /\ Cardinality(Ino \X Slot) = Cardinality(Ino) * Cardinality(Slot)
      /\ Cardinality(Ino \X Slot) \in Nat
  BY Sizes, FS_Product, FS_CardinalityType
<1>2. inode_btmp \in SUBSET Ino /\ blk_btmp \in SUBSET Lba /\ lost \subseteq blk_btmp
  BY DEF TypeOK
<1>3. IsFiniteSet(need) /\ Cardinality(need) \in Nat
  BY Sizes, FS_Subset, FS_CardinalityType
<1>4. /\ places \in SUBSET (Ino \X Slot) /\ wanted \in SUBSET (Ino \X Slot)
      /\ places \cap wanted = {}
  BY <1>2
<1>5. /\ IsFiniteSet(places) /\ Cardinality(places) \in Nat /\ IsFiniteSet(wanted)
      /\ Cardinality(wanted) = Cardinality(need)
  <2>1. IsFiniteSet({i}) /\ Cardinality({i}) = 1
    BY FS_Singleton
  <2>2. IsFiniteSet(wanted) /\ Cardinality(wanted) = 1 * Cardinality(need)
    BY <1>3, <2>1, FS_Product
  <2>3. IsFiniteSet(places) /\ Cardinality(places) \in Nat
    BY <1>1, <1>4, FS_Subset, FS_CardinalityType
  <2> QED BY <1>3, <2>2, <2>3
<1>6. Cardinality(places) + Cardinality(need) <= Cardinality(Ino) * Cardinality(Slot)
  <2> HIDE DEF places, wanted
  <2>1. places \cup wanted \in SUBSET (Ino \X Slot)
    BY <1>4
  <2>2. Cardinality(places \cup wanted) <= Cardinality(Ino \X Slot)
    BY <1>1, <2>1, FS_Subset
  <2>3. Cardinality(places \cup wanted) = Cardinality(places) + Cardinality(wanted) - 0
    BY <1>4, <1>5, FS_Union, FS_EmptySet
  <2> QED BY <1>1, <1>3, <1>5, <2>2, <2>3
<1>7. Cardinality(owned) <= Cardinality(places)
  <2>1. \A b \in owned : \E u \in places : table[u[1]].block[u[2]] = b
    <3> TAKE b \in owned
    <3>1. PICK j \in inode_btmp, s \in Slot : table[j].block[s] = b
      BY DEF TakenOwned
    <3>2. b # NoBlock
      BY <1>2, Sizes
    <3>3. <<j, s>> \in places
      BY <3>1, <3>2 DEF Uses
    <3> QED BY <3>1, <3>3
  <2>2. place \in [owned -> places] /\ \A b \in owned : table[place[b][1]].block[place[b][2]] = b
    BY <2>1
  <2>3. \A b, c \in owned : place[b] = place[c] => b = c
    BY <2>2
  <2> HIDE DEF place, owned, places
  <2>4. place \in Injection(owned, places)
    BY <2>2, <2>3 DEF Injection, IsInjective
  <2> QED BY <1>5, <2>4, FS_Injection
<1>8. /\ IsFiniteSet(blk_btmp) /\ Cardinality(blk_btmp) \in Nat
      /\ Cardinality(blk_btmp) <= Cardinality(owned) + Cardinality(lost)
      /\ IsFiniteSet(owned) /\ Cardinality(owned) \in Nat
  <2>1. IsFiniteSet(blk_btmp)
    BY <1>2, Sizes, FS_Subset
  <2>2. IsFiniteSet(owned) /\ Cardinality(owned) = Cardinality(blk_btmp) - Cardinality(lost)
    <3>1. blk_btmp \cap lost = lost
      BY <1>2
    <3>2. IsFiniteSet(owned) /\ Cardinality(owned) = Cardinality(blk_btmp) - Cardinality(blk_btmp \cap lost)
      BY <2>1, FS_Difference
    <3> QED BY <3>1, <3>2
  <2>4. Cardinality(lost) \in Nat /\ Cardinality(blk_btmp) \in Nat /\ Cardinality(owned) \in Nat
    BY <2>1, <2>2, FS_CardinalityType DEF DataTyped
  <2> HIDE DEF owned
  <2>5. Cardinality(blk_btmp) <= Cardinality(owned) + Cardinality(lost)
    BY <2>2, <2>4
  <2> QED BY <2>1, <2>2, <2>4, <2>5
<1>9. /\ IsFiniteSet(Lba \ blk_btmp)
      /\ Cardinality(Lba \ blk_btmp) = Cardinality(Lba) - Cardinality(blk_btmp)
  <2>1. Lba \cap blk_btmp = blk_btmp
    BY <1>2
  <2> QED BY <2>1, Sizes, FS_Difference
<1>10. Cardinality(lost) \in Nat /\ Cardinality(lost) <= MaxLost /\ Cardinality(Lba) \in Nat
  BY Sizes, FS_CardinalityType DEF DataTyped
<1> HIDE DEF places, owned, wanted
<1>11. Cardinality(need) + Cardinality(blk_btmp) <= Cardinality(Lba)
  <2> DEFINE all == Cardinality(Ino) * Cardinality(Slot)
  <2>1. all \in Nat
    BY <1>1
  <2>2. all + MaxLost <= Cardinality(Lba) /\ MaxLost \in Nat
    BY Sizes
  <2>3. Cardinality(places) + Cardinality(need) <= all
    BY <1>6
  <2> HIDE DEF all
  <2> QED BY <1>3, <1>5, <1>7, <1>8, <1>10, <2>1, <2>2, <2>3
<1> QED BY <1>3, <1>8, <1>9, <1>10, <1>11

\* blk_write fills the slots one after another.
LEMMA BeforeOrders ==
    /\ \A s \in Slot : ~Before(s, s)
    /\ \A r, s \in Slot : r = s \/ Before(r, s) \/ Before(s, r)
    /\ \A q, r, s \in Slot : Before(q, r) /\ Before(r, s) => Before(q, s)
BY Sizes DEF Before, Slot

\* Each slot gets a block that is free, and no two the same one.
LEMMA Grants ==
    ASSUME TypeOK, DataTyped, OwnersApart, TakenOwned,
           NEW i \in inode_btmp, NEW n, NEW need \in SUBSET Slot, \A s \in need : ~Uses(i, s)
    PROVE  /\ \A s \in need : Granted(n, need, s) \in Lba \ blk_btmp
           /\ \A r, s \in need : Granted(n, need, r) = Granted(n, need, s) => r = s
<1> DEFINE free == Lba \ blk_btmp
           pre(s) == {r \in need : Before(r, s)}
           rank(s) == Cardinality(pre(s))
<1>1. /\ IsFiniteSet(need) /\ IsFiniteSet(free) /\ Cardinality(need) <= Cardinality(free)
      /\ Cardinality(need) \in Nat /\ Cardinality(free) \in Nat /\ free \in SUBSET Nat
  <2>1. free \in SUBSET Nat
    BY Sizes
  <2> QED BY <2>1, EnoughBlocks, FS_CardinalityType
<1>2. \A s \in need : IsFiniteSet(pre(s)) /\ rank(s) \in Nat /\ s \notin pre(s)
  <2> TAKE s \in need
  <2>1. pre(s) \in SUBSET need
    OBVIOUS
  <2>2. IsFiniteSet(pre(s)) /\ rank(s) \in Nat
    BY <1>1, <2>1, FS_Subset, FS_CardinalityType
  <2> QED BY <2>2, BeforeOrders
<1>3. ASSUME NEW s \in need PROVE rank(s) < Cardinality(need)
  <2>1. pre(s) \cup {s} \in SUBSET need
    OBVIOUS
  <2>2. Cardinality(pre(s) \cup {s}) = rank(s) + 1
    BY <1>2, FS_AddElement
  <2>3. Cardinality(pre(s) \cup {s}) <= Cardinality(need)
    BY <1>1, <2>1, FS_Subset
  <2> HIDE DEF pre
  <2> QED BY <1>1, <1>2, <2>2, <2>3
<1>4. ASSUME NEW r \in need, NEW s \in need, Before(r, s) PROVE rank(r) < rank(s)
  <2>1. pre(r) \cup {r} \in SUBSET pre(s)
    BY <1>4, BeforeOrders
  <2>2. Cardinality(pre(r) \cup {r}) = rank(r) + 1
    BY <1>2, FS_AddElement
  <2>3. Cardinality(pre(r) \cup {r}) <= rank(s)
    BY <1>2, <2>1, FS_Subset
  <2> HIDE DEF pre
  <2> QED BY <1>2, <2>2, <2>3
<1>5. ASSUME NEW s \in need
      PROVE  /\ Granted(n, need, s) \in free
             /\ Cardinality(Below(free, Granted(n, need, s))) = rank(s)
  <2>1. \E b \in free : Cardinality(Below(free, b)) = rank(s)
    <3> HIDE DEF free, pre
    <3>1. rank(s) \in Nat /\ rank(s) < Cardinality(free)
      BY <1>1, <1>2, <1>3
    <3> QED BY <1>1, <3>1, NthMember
  <2>2. Granted(n, need, s) = CHOOSE b \in free : Cardinality(Below(free, b)) = rank(s)
    BY DEF Granted, Below
  <2> HIDE DEF free, pre
  <2> QED BY <2>1, <2>2
<1>6. ASSUME NEW r \in need, NEW s \in need, Granted(n, need, r) = Granted(n, need, s) PROVE r = s
  <2>1. rank(r) = rank(s) /\ rank(r) \in Nat
    BY <1>2, <1>5, <1>6
  <2>2. ~Before(r, s) /\ ~Before(s, r)
    <3> HIDE DEF pre
    <3> QED BY <1>4, <2>1
  <2> QED BY <2>2, BeforeOrders
<1> QED BY <1>5, <1>6

\* The node after blk_write has filled the slots that were missing.
Filled(i, need, block) ==
    /\ need \in SUBSET Slot /\ \A s \in need : ~Uses(i, s)
    /\ block \in [Slot -> Lba \cup {NoBlock}]
    /\ \A s \in need : block[s] \in Lba \ blk_btmp
    /\ \A r, s \in need : block[r] = block[s] => r = s
    /\ \A s \in Slot \ need : block[s] = table[i].block[s]

\* After blk_write the touched slots have blocks, the indirect one with the last direct one.
LEMMA GrownFills ==
    ASSUME TypeOK, DataTyped, OwnersApart, TakenOwned,
           NEW i \in inode_btmp, NEW first \in Nat, NEW last \in Nat, last < Direct
    PROVE  LET n == table[i]
               need == Missing(n, first, last)
               block == Grown(n, need)
           IN  /\ Filled(i, need, block)
               /\ \A s \in first..last : s \in Slot /\ s # Direct /\ block[s] # NoBlock
               /\ last + 1 = Direct => block[Direct] # NoBlock
<1> DEFINE n == table[i]
           need == Missing(n, first, last)
           block == Grown(n, need)
<1>1. need \in SUBSET Slot /\ \A s \in need : ~Uses(i, s)
  BY Sizes DEF Missing, Uses, Slot
<1>2. /\ \A s \in need : Granted(n, need, s) \in Lba \ blk_btmp
      /\ \A r, s \in need : Granted(n, need, r) = Granted(n, need, s) => r = s
  <2> HIDE DEF need, n
  <2> QED BY <1>1, Grants
<1>3. n \in Node
  BY DEF TypeOK
<1>4. \A s \in Slot : s \notin need /\ (s \in first..last \/ (s = Direct /\ last + 1 = Direct)) => Uses(i, s)
  BY Sizes DEF Missing, Uses
<1>5. \A s \in first..last : s \in Slot /\ s # Direct
  BY Sizes DEF Slot
<1>6. Direct \in Slot /\ NoBlock \notin Lba
  BY Sizes
<1>7. \A s \in Slot : block[s] = IF s \in need THEN Granted(n, need, s) ELSE n.block[s]
  BY DEF Grown
<1>8. block \in [Slot -> Lba \cup {NoBlock}]
  BY <1>2, <1>3 DEF Grown, Node
<1> HIDE DEF need, block
<1>9. Filled(i, need, block)
  BY <1>1, <1>2, <1>7, <1>8 DEF Filled
<1>10. \A s \in first..last : block[s] # NoBlock
  BY <1>2, <1>4, <1>5, <1>6, <1>7 DEF Uses
<1>11. last + 1 = Direct => block[Direct] # NoBlock
  BY <1>2, <1>4, <1>6, <1>7 DEF Uses
<1> QED BY <1>5, <1>9, <1>10, <1>11 DEF need, block

-----------------------------------------------------------------------------
(* inode_write                                                               *)

\* What it leaves of the rest of the state, and what the inode is afterwards.
Written(i, need, new) ==
    /\ new \in Node /\ Filled(i, need, new.block)
    /\ \A s \in 0..(Direct - 1) : s * BlockSize < new.size => new.block[s] # NoBlock
    /\ i # Root /\ new.block[Direct - 1] # NoBlock => new.block[Direct] # NoBlock
    /\ blk_btmp' = blk_btmp \cup {new.block[s] : s \in need}
    /\ table' = [table EXCEPT ![i] = new]
    /\ cache' = [cache EXCEPT ![i].node = new]
    /\ disk' \in [Lba -> [Offset -> Byte \cup {0}]]
    /\ \A b \in Lba : disk'[b] = disk[b] \/ \E s \in 0..(Direct - 1) : new.block[s] = b
    /\ UNCHANGED <<inode_btmp, lost, halted>>

\* The bytes pos.. of an inode with these blocks become d, and no other byte changes.
Overwrites(block, pos, cnt, d) ==
    \A s \in 0..(Direct - 1) : block[s] # NoBlock => \A o \in Offset :
        disk'[block[s]][o] = IF s * BlockSize + o \in pos..(pos + cnt - 1) THEN d
                             ELSE disk[block[s]][o]

\* Where the call ends decides which blocks it touches.
LEMMA Touched ==
    ASSUME NEW pos \in Nat, NEW cnt \in Nat \ {0}, pos + cnt <= MaxSize
    PROVE  LET first == pos \div BlockSize
               last == (pos + cnt - 1) \div BlockSize
           IN  /\ first \in Nat /\ last \in Nat /\ last < Direct
               /\ \A s \in Nat : s * BlockSize < pos + cnt <=> s <= last
               /\ \A s \in Nat : pos <= s * BlockSize => first <= s
<1> DEFINE first == pos \div BlockSize
           last == (pos + cnt - 1) \div BlockSize
<1>1. pos + cnt - 1 \in Nat
  OBVIOUS
<1>2. first \in Nat /\ last \in Nat
  BY <1>1, BlockOfByte
<1>3. \A s \in Nat : s * BlockSize \in Nat /\ (s * BlockSize <= pos + cnt - 1 <=> s <= last)
  BY <1>1, BlockIndex
<1>4. \A s \in Nat : pos < (s + 1) * BlockSize => first < s + 1
  BY BlockIndex
<1> HIDE DEF first, last
<1>5. \A s \in Nat : s * BlockSize < pos + cnt <=> s <= last
  BY <1>3
<1>6. last < Direct
  <2>1. ~(Direct * BlockSize < pos + cnt)
    BY <1>3, Sizes
  <2> QED BY <1>2, <1>5, <2>1, Sizes
<1>7. ASSUME NEW s \in Nat, pos <= s * BlockSize PROVE first <= s
  <2>1. (s + 1) * BlockSize = s * BlockSize + BlockSize /\ s * BlockSize \in Nat
    BY <1>3, Sizes
  <2>2. pos < (s + 1) * BlockSize
    BY <1>7, <2>1, Sizes
  <2> QED BY <1>2, <1>4, <2>2
<1> QED BY <1>2, <1>5, <1>6, <1>7 DEF first, last

\* A call within the file needs no block.
LEMMA NoneMissing ==
    ASSUME Covered, NEW i \in inode_btmp, i # Root, table \in [Ino -> Node], i \in Ino,
           NEW first \in Nat, NEW last \in Nat, last < Direct, first <= last,
           \A s \in 0..last : s * BlockSize < table[i].size
    PROVE  Missing(table[i], first, last) = {}
<1>1. \A s \in first..last : Uses(i, s)
  BY Sizes DEF Covered
<1>2. last + 1 = Direct => Uses(i, Direct)
  <2> SUFFICES ASSUME last + 1 = Direct PROVE Uses(i, Direct)
    OBVIOUS
  <2>1. Direct - 1 = last /\ last \in first..last
    BY Sizes
  <2> QED BY <1>1, <2>1 DEF Covered
<1> QED BY <1>1, <1>2, Sizes DEF Missing, Uses

\* inode_write does what these two say.
LEMMA WriteFacts ==
    ASSUME IInv, NEW i \in Ino, NEW pos \in Nat, NEW cnt \in Nat \ {0}, NEW d \in Byte,
           pos <= cache[i].node.size, i = Root => pos = cache[i].node.size,
           Write(i, pos, cnt, d)
    PROVE  /\ i \in inode_btmp /\ cache[i].node = table[i]
           /\ \E need, new :
                 /\ Written(i, need, new) /\ Overwrites(new.block, pos, cnt, d)
                 /\ new.size = IF table[i].size > pos + cnt THEN table[i].size ELSE pos + cnt
<1> DEFINE n == cache[i].node
           first == pos \div BlockSize
           last == (pos + cnt - 1) \div BlockSize
           need == Missing(n, first, last)
           block == Grown(n, need)
           new == [size |-> Max({n.size, pos + cnt}), block |-> block]
           slotOf(b) == CHOOSE s \in first..last : block[s] = b
<1>1. /\ i \in inode_btmp /\ n = table[i] /\ n \in Node /\ n.size \in Nat /\ n.size <= MaxSize
      /\ table \in [Ino -> Node]
  BY Sizes DEF IInv, CacheIsTable, TypeOK, Write, Node
<1>2. pos + cnt <= MaxSize /\ pos + cnt \in Nat /\ pos + cnt - 1 \in Nat
  BY DEF Write
<1>3. /\ first \in Nat /\ last \in Nat /\ last < Direct
      /\ \A s \in Nat : s * BlockSize < pos + cnt <=> s <= last
      /\ \A s \in Nat : pos <= s * BlockSize => first <= s
  BY <1>2, Touched
<1>4. /\ Filled(i, need, block)
      /\ \A s \in first..last : s \in Slot /\ s # Direct /\ block[s] # NoBlock
      /\ last + 1 = Direct => block[Direct] # NoBlock
  <2> HIDE DEF first, last
  <2> QED BY <1>1, <1>3, GrownFills DEF IInv
<1>5. new.size = (IF n.size > pos + cnt THEN n.size ELSE pos + cnt) /\ new.block = block
      /\ new.size \in 0..MaxSize
  BY <1>1, <1>2, MaxTwo, Sizes
<1>6. new \in Node
  BY <1>4, <1>5 DEF Filled, Node
<1>7. \A s \in Slot : n.block[s] # NoBlock => block[s] # NoBlock
  <2> HIDE DEF block
  <2> QED BY <1>1, <1>4, Sizes DEF Filled, Uses
<1>8. /\ \A s \in 0..(Direct - 1) : s * BlockSize < n.size => n.block[s] # NoBlock
      /\ i # Root /\ n.block[Direct - 1] # NoBlock => n.block[Direct] # NoBlock
  BY <1>1 DEF IInv, Covered, Uses
<1>9. ASSUME NEW s \in 0..(Direct - 1), s * BlockSize < new.size PROVE block[s] # NoBlock
  <2>1. s \in Nat /\ s \in Slot /\ s * BlockSize \in Nat
    BY Sizes
  <2>2. CASE s * BlockSize < n.size
    BY <1>7, <1>8, <2>1, <2>2
  <2>3. CASE ~(s * BlockSize < n.size)
    <3>1. pos <= s * BlockSize /\ s * BlockSize < pos + cnt
      <4> HIDE DEF new
      <4> QED BY <1>1, <1>2, <1>5, <1>9, <2>1, <2>3
    <3>2. s \in first..last
      <4> HIDE DEF first, last
      <4> QED BY <1>3, <2>1, <3>1
    <3> QED BY <1>4, <3>2
  <2> QED BY <2>2, <2>3
<1>10. ASSUME i # Root, block[Direct - 1] # NoBlock PROVE block[Direct] # NoBlock
  <2>1. Direct - 1 \in Slot /\ Direct \in Slot /\ Direct - 1 # Direct
    BY Sizes
  <2>2. CASE Direct - 1 \in need
    <3>1. last + 1 = Direct
      BY <1>3, <2>1, <2>2, Sizes DEF Missing
    <3> QED BY <1>4, <3>1
  <2>3. CASE Direct - 1 \notin need
    <3> HIDE DEF block
    <3>1. n.block[Direct - 1] # NoBlock
      BY <1>1, <1>4, <1>10, <2>1, <2>3 DEF Filled
    <3> QED BY <1>7, <1>8, <1>10, <2>1, <3>1
  <2> QED BY <2>2, <2>3
<1>11. /\ blk_btmp' = blk_btmp \cup {new.block[s] : s \in need}
       /\ TableOnGrowth(i, n, new)
       /\ cache' = [cache EXCEPT ![i].node = new]
       /\ UNCHANGED <<inode_btmp, lost, halted>>
       /\ disk' = [b \in Lba |->
               IF b \in {block[s] : s \in first..last}
               THEN [k \in Offset |-> Merged(disk[b], slotOf(b), k, pos, cnt, d)]
               ELSE disk[b]]
  BY DEF Write
<1>12. \A b \in Lba : disk'[b] = disk[b] \/ \E s \in 0..(Direct - 1) : block[s] = b
  <2> HIDE DEF slotOf, block, first, last
  <2>1. \A s \in first..last : s \in 0..(Direct - 1)
    BY <1>4, Sizes
  <2> QED BY <1>11, <2>1
<1>13. disk' \in [Lba -> [Offset -> Byte \cup {0}]]
  <2>1. \A b \in Lba : \A s, k : k \in Offset => Merged(disk[b], s, k, pos, cnt, d) \in Byte \cup {0}
    BY DEF Merged, IInv, DataTyped
  <2>2. \A b \in Lba : disk[b] \in [Offset -> Byte \cup {0}]
    BY DEF IInv, DataTyped
  <2> HIDE DEF slotOf, block, first, last
  <2>3. \A b \in Lba : [k \in Offset |-> Merged(disk[b], slotOf(b), k, pos, cnt, d)] \in [Offset -> Byte \cup {0}]
    BY <2>1
  <2> QED BY <1>11, <2>2, <2>3
<1>14. table' = [table EXCEPT ![i] = new]
  <2>1. CASE new.size > n.size
    BY <1>11, <2>1 DEF TableOnGrowth
  <2>2. CASE ~(new.size > n.size)
    <3>1. pos + cnt <= n.size /\ i # Root /\ new.size = n.size
      <4> HIDE DEF new
      <4> QED BY <1>1, <1>2, <1>5, <2>2
    <3>2. first <= last
      <4> HIDE DEF first, last
      <4>1. pos \div BlockSize <= last
        <5>1. first * BlockSize \in Nat /\ first * BlockSize <= pos
          BY BlockOfByte DEF first
        <5> QED BY <1>2, <1>3, <5>1 DEF first
      <4> QED BY <4>1 DEF first
    <3>3. \A s \in 0..last : s * BlockSize < n.size
      <4> HIDE DEF last
      <4>1. \A s \in 0..last : s * BlockSize \in Nat /\ s * BlockSize < pos + cnt
        BY <1>3, Sizes
      <4> QED BY <1>1, <1>2, <3>1, <4>1
    <3>4. need = {}
      <4> HIDE DEF first, last
      <4> QED BY <1>1, <1>3, <3>1, <3>2, <3>3, NoneMissing DEF IInv
    <3>5. block = n.block
      <4> HIDE DEF need
      <4> QED BY <1>1, <3>4 DEF Grown, Node
    <3>6. new = n
      <4> HIDE DEF block
      <4>1. new = [size |-> n.size, block |-> n.block]
        BY <3>1, <3>5
      <4> QED BY <1>1, <4>1 DEF Node
    <3> HIDE DEF new
    <3> QED BY <1>1, <1>11, <2>2, <3>6 DEF TableOnGrowth
  <2> QED BY <2>1, <2>2
<1>15. \A r, s \in Slot : block[r] = block[s] /\ block[s] # NoBlock => r = s
  <2> HIDE DEF block, need, first, last
  <2>1. \A s \in Slot \ need : block[s] # NoBlock => Uses(i, s) /\ block[s] \in blk_btmp
    BY <1>1, <1>4 DEF Filled, Uses, IInv, OwnedTaken
  <2>2. \A s \in need : block[s] \notin blk_btmp
    BY <1>4 DEF Filled
  <2> QED BY <1>1, <1>4, <2>1, <2>2 DEF Filled, IInv, OwnersApart
<1>16. Overwrites(block, pos, cnt, d)
  <2> SUFFICES ASSUME NEW s \in 0..(Direct - 1), block[s] # NoBlock, NEW o \in Offset
               PROVE  disk'[block[s]][o] = IF s * BlockSize + o \in pos..(pos + cnt - 1) THEN d
                                           ELSE disk[block[s]][o]
    BY DEF Overwrites
  <2>1. s \in Slot /\ s \in Nat /\ s * BlockSize \in Nat /\ o \in Nat /\ o < BlockSize
    BY Sizes DEF Offset
  <2>2. block[s] \in Lba
    <3> HIDE DEF block, need
    <3> QED BY <1>4, <2>1 DEF Filled
  <2> HIDE DEF block, first, last, slotOf
  <2>3. CASE s \in first..last
    <3>1. slotOf(block[s]) = s
      <4>1. slotOf(block[s]) \in first..last /\ block[slotOf(block[s])] = block[s]
        BY <2>3 DEF slotOf
      <4> QED BY <1>4, <1>15, <2>1, <4>1
    <3>2. disk'[block[s]] = [k \in Offset |-> Merged(disk[block[s]], slotOf(block[s]), k, pos, cnt, d)]
      BY <1>11, <2>2, <2>3
    <3> QED BY <3>1, <3>2 DEF Merged
  <2>4. CASE s \notin first..last
    <3>1. block[s] \notin {block[z] : z \in first..last}
      BY <1>4, <1>15, <2>1, <2>4
    <3>2. disk'[block[s]] = disk[block[s]]
      BY <1>11, <2>2, <3>1
    <3>3. ASSUME pos <= s * BlockSize + o, s * BlockSize + o <= pos + cnt - 1 PROVE FALSE
      <4>1. s <= last
        BY <1>2, <1>3, <2>1, <3>3
      <4>2. (s + 1) * BlockSize = s * BlockSize + BlockSize
        BY <2>1, Sizes
      <4>3. pos < (s + 1) * BlockSize
        BY <2>1, <3>3, <4>2, Sizes
      <4>4. first < s + 1
        BY <2>1, <4>3, BlockIndex DEF first
      <4> QED BY <1>3, <2>1, <2>4, <4>1, <4>4
    <3>4. s * BlockSize + o \notin pos..(pos + cnt - 1)
      BY <3>3
    <3> QED BY <3>2, <3>4
  <2> QED BY <2>3, <2>4
<1> HIDE DEF n, new, need, block
<1>17. Written(i, need, new)
  BY <1>4, <1>5, <1>6, <1>9, <1>10, <1>11, <1>12, <1>13, <1>14 DEF Written
<1>18. new.size = IF table[i].size > pos + cnt THEN table[i].size ELSE pos + cnt
  BY <1>1, <1>5
<1> QED BY <1>1, <1>5, <1>16, <1>17, <1>18 DEF n

\* It keeps the invariant.
LEMMA WrittenInv ==
    ASSUME IInv, NEW i \in inode_btmp, Cached(i), NEW need, NEW new, Written(i, need, new)
    PROVE  IInv'
<1>1. /\ blk_btmp \in SUBSET Lba /\ inode_btmp \in SUBSET Ino /\ lost \subseteq blk_btmp
      /\ table \in [Ino -> Node] /\ i \in Ino /\ NoBlock \notin Lba /\ halted \in BOOLEAN
      /\ cache \in [Ino -> [node : Node, open : Nat]] /\ new \in Node
  BY Sizes DEF IInv, TypeOK, DataTyped, Written
<1>2. /\ need \in SUBSET Slot /\ \A s \in need : ~Uses(i, s) /\ new.block[s] \in Lba \ blk_btmp
      /\ \A r, s \in need : new.block[r] = new.block[s] => r = s
      /\ \A s \in Slot \ need : new.block[s] = table[i].block[s]
  BY DEF Written, Filled
<1>3. /\ blk_btmp' = blk_btmp \cup {new.block[s] : s \in need}
      /\ table' = [table EXCEPT ![i] = new] /\ cache' = [cache EXCEPT ![i].node = new]
      /\ disk' \in [Lba -> [Offset -> Byte \cup {0}]]
      /\ inode_btmp' = inode_btmp /\ lost' = lost /\ halted' = halted
  BY DEF Written
<1>4. table'[i] = new /\ \A j \in Ino : j # i => table'[j] = table[j]
  BY <1>1, <1>3
<1>5. TypeOK'
  <2>1. blk_btmp' \in SUBSET Lba /\ lost' \subseteq blk_btmp'
    BY <1>1, <1>2, <1>3
  <2>2. table' \in [Ino -> Node]
    BY <1>1, <1>3
  <2>3. \A j \in Ino : Cached(j)' \/ cache'[j] = Uncached
    <3> TAKE j \in Ino
    <3>1. Cached(j) \/ cache[j] = Uncached
      BY DEF IInv, TypeOK
    <3>2. CASE j = i
      BY <1>1, <1>3, <3>2 DEF Cached
    <3>3. CASE j # i
      BY <1>1, <1>3, <3>1, <3>3 DEF Cached
    <3> QED BY <3>2, <3>3
  <2> QED BY <1>1, <1>3, <2>1, <2>2, <2>3 DEF TypeOK
<1>6. DataTyped'
  <2>1. cache' \in [Ino -> [node : Node, open : Nat]]
    BY <1>1, <1>3
  <2> QED BY <1>3, <2>1 DEF IInv, DataTyped
\* The blocks of the table are those of before and the ones that were free.
<1>7. \A j \in inode_btmp : \A s \in Slot :
          \/ j = i /\ s \in need /\ table'[j].block[s] \in Lba \ blk_btmp
          \/ ~(j = i /\ s \in need) /\ table'[j].block[s] = table[j].block[s]
  BY <1>1, <1>2, <1>4
<1>8. OwnersApart'
  <2> SUFFICES ASSUME NEW j \in inode_btmp, NEW k \in inode_btmp, NEW s \in Slot, NEW z \in Slot,
                      table'[j].block[s] # NoBlock, table'[j].block[s] = table'[k].block[z]
               PROVE  j = k /\ s = z
    BY <1>3 DEF OwnersApart, Uses
  <2>1. table[j].block[s] # NoBlock => table[j].block[s] \in blk_btmp
    BY DEF IInv, OwnedTaken, Uses
  <2>2. table[k].block[z] # NoBlock => table[k].block[z] \in blk_btmp
    BY DEF IInv, OwnedTaken, Uses
  <2>3. CASE j = i /\ s \in need
    BY <1>1, <1>2, <1>4, <1>7, <2>2, <2>3
  <2>4. CASE ~(j = i /\ s \in need)
    <3>1. ~(k = i /\ z \in need)
      BY <1>7, <2>1, <2>4
    <3> QED BY <1>7, <2>4, <3>1 DEF IInv, OwnersApart, Uses
  <2> QED BY <2>3, <2>4
<1>9. OwnedTaken'
  <2> SUFFICES ASSUME NEW j \in inode_btmp, NEW s \in Slot, table'[j].block[s] # NoBlock
               PROVE  table'[j].block[s] \in blk_btmp' \ lost
    BY <1>3 DEF OwnedTaken, Uses
  <2>1. CASE j = i /\ s \in need
    BY <1>1, <1>3, <1>4, <1>7, <2>1
  <2>2. CASE ~(j = i /\ s \in need)
    BY <1>3, <1>7, <2>2 DEF IInv, OwnedTaken, Uses
  <2> QED BY <2>1, <2>2
<1>10. TakenOwned'
  <2> SUFFICES ASSUME NEW b \in blk_btmp' \ lost
               PROVE  \E j \in inode_btmp : \E s \in Slot : table'[j].block[s] = b
    BY <1>3 DEF TakenOwned
  <2>1. CASE b \in blk_btmp
    <3>1. PICK j \in inode_btmp, s \in Slot : table[j].block[s] = b
      BY <2>1 DEF IInv, TakenOwned
    <3>2. b # NoBlock
      BY <1>1, <2>1
    <3>3. ~(j = i /\ s \in need)
      BY <1>2, <3>1, <3>2 DEF Uses
    <3> QED BY <1>7, <3>1, <3>3
  <2>2. CASE b \notin blk_btmp
    BY <1>2, <1>3, <1>4, <2>2
  <2> QED BY <2>1, <2>2
\* The indirect blocks are not written to.
<1>11. \A j \in inode_btmp : table'[j].block[Direct] # NoBlock => disk'[table'[j].block[Direct]] = Zero
  <2> SUFFICES ASSUME NEW j \in inode_btmp, table'[j].block[Direct] # NoBlock
               PROVE  disk'[table'[j].block[Direct]] = Zero
    OBVIOUS
  <2> DEFINE b == table'[j].block[Direct]
  <2>1. Direct \in Slot /\ 0..(Direct - 1) \subseteq Slot /\ Direct \notin 0..(Direct - 1)
    BY Sizes
  <2>2. b \in Lba
    BY <1>3, <1>5, <1>9, <2>1 DEF OwnedTaken, Uses, TypeOK
  <2>3. disk[b] = Zero
    <3>1. CASE j = i /\ Direct \in need
      BY <1>7, <2>1, <3>1 DEF IInv, FreeZero
    <3>2. CASE ~(j = i /\ Direct \in need)
      BY <1>7, <2>1, <3>2 DEF IInv, Covered, Uses
    <3> QED BY <3>1, <3>2
  <2>4. \A s \in 0..(Direct - 1) : new.block[s] # b
    BY <1>3, <1>4, <1>8, <2>1 DEF OwnersApart, Uses
  <2> QED BY <2>2, <2>3, <2>4 DEF Written
<1>12. Covered'
  <2> SUFFICES ASSUME NEW j \in inode_btmp
               PROVE  /\ \A s \in 0..(Direct - 1) :
                             s * BlockSize < table'[j].size => table'[j].block[s] # NoBlock
                      /\ j # Root /\ table'[j].block[Direct - 1] # NoBlock
                            => table'[j].block[Direct] # NoBlock
    BY <1>3, <1>11 DEF Covered, Uses
  <2>1. CASE j = i
    BY <1>4, <2>1 DEF Written
  <2>2. CASE j # i
    BY <1>1, <1>4, <2>2 DEF IInv, Covered, Uses
  <2> QED BY <2>1, <2>2
<1>13. FreeZero'
  <2> SUFFICES ASSUME NEW b \in Lba \ blk_btmp' PROVE disk'[b] = Zero
    BY DEF FreeZero
  <2>1. b \in Lba \ blk_btmp
    BY <1>3
  <2>2. \A s \in Slot : new.block[s] # b
    BY <1>3, <1>4, <1>9 , <1>1 DEF OwnedTaken, Uses
  <2>3. disk'[b] = disk[b]
    BY <2>1, <2>2, Sizes DEF Written
  <2> QED BY <2>1, <2>3 DEF IInv, FreeZero
<1>14. CacheIsTable'
  <2> SUFFICES ASSUME NEW j \in Ino, Cached(j)' PROVE j \in inode_btmp' /\ cache'[j].node = table'[j]
    BY DEF CacheIsTable
  <2>1. CASE j = i
    BY <1>1, <1>3, <1>4, <2>1
  <2>2. CASE j # i
    BY <1>1, <1>3, <1>4, <2>2 DEF IInv, CacheIsTable, Cached
  <2> QED BY <2>1, <2>2
<1> QED BY <1>3, <1>5, <1>6, <1>8, <1>9, <1>10, <1>12, <1>13, <1>14 DEF IInv

\* A power failure in it: the table and what it refers to stay, and the blocks that
\* the call has got are lost.
LEMMA WriteCrashInv ==
    ASSUME IInv, NEW i \in Ino, NEW pos \in Nat, NEW cnt \in Nat \ {0}, NEW d \in Byte,
           WriteCrash(i, pos, cnt, d)
    PROVE  IInv'
<1> DEFINE n == cache[i].node
           need == Missing(n, pos \div BlockSize, (pos + cnt - 1) \div BlockSize)
<1>1. /\ blk_btmp \in SUBSET Lba /\ inode_btmp \in SUBSET Ino /\ lost \subseteq blk_btmp
      /\ table \in [Ino -> Node] /\ NoBlock \notin Lba /\ halted \in BOOLEAN
      /\ i \in inode_btmp /\ n = table[i]
  BY Sizes DEF IInv, TypeOK, CacheIsTable, WriteCrash
<1>2. need \in SUBSET Slot /\ \A s \in need : ~Uses(i, s)
  <2>1. pos + cnt - 1 \in Nat /\ pos + cnt <= MaxSize
    BY DEF WriteCrash
  <2>2. pos \div BlockSize \in Nat /\ (pos + cnt - 1) \div BlockSize \in Nat
        /\ (pos + cnt - 1) \div BlockSize < Direct
    BY <2>1, Touched
  <2> QED BY <1>1, <2>2, Sizes DEF Missing, Uses, Slot
<1>3. \A s \in need : Granted(n, need, s) \in Lba \ blk_btmp
  <2> HIDE DEF n, need
  <2> QED BY <1>1, <1>2, Grants DEF IInv
<1>4. PICK k \in {0, BlockSize - (pos % BlockSize), cnt} \cap 0..cnt, got \in SUBSET need :
          /\ lost' = lost \cup {Granted(n, need, s) : s \in got}
          /\ Cardinality(lost') <= MaxLost
          /\ disk' = [b \in Lba |->
                 IF \E s \in Slot : n.block[s] = b /\ s # Direct
                 THEN LET s == CHOOSE s \in Slot : n.block[s] = b
                      IN  [o \in Offset |-> Merged(disk[b], s, o, pos, k, d)]
                 ELSE disk[b]]
  BY Zenon DEF WriteCrash
<1>5. /\ blk_btmp' = blk_btmp \cup lost' /\ cache' = [j \in Ino |-> Uncached]
      /\ inode_btmp' = inode_btmp /\ table' = table /\ halted' = halted
  BY DEF WriteCrash
<1> HIDE DEF need
<1>6. lost \subseteq lost' /\ lost' \ lost \in SUBSET (Lba \ blk_btmp) /\ blk_btmp' \ lost' = blk_btmp \ lost
  BY <1>1, <1>3, <1>4, <1>5
<1>7. \A b \in Lba : disk'[b] = disk[b] \/ \E s \in Slot : n.block[s] = b /\ s # Direct
  BY <1>4
<1>8. disk' \in [Lba -> [Offset -> Byte \cup {0}]]
  <2>1. \A b \in Lba : \A s, o : o \in Offset => Merged(disk[b], s, o, pos, k, d) \in Byte \cup {0}
    BY DEF Merged, IInv, DataTyped
  <2>2. \A b \in Lba : disk[b] \in [Offset -> Byte \cup {0}]
    BY DEF IInv, DataTyped
  <2> QED BY <1>4, <2>1, <2>2
<1>9. \A j \in Ino : ~Cached(j)' /\ cache'[j] = Uncached
  BY <1>5 DEF Cached, Uncached
<1>10. TypeOK'
  BY <1>1, <1>5, <1>6, <1>8, <1>9 DEF TypeOK
<1>11. DataTyped'
  <2>1. IsFiniteSet(lost')
    <3>1. lost' \in SUBSET Lba
      BY <1>1, <1>6
    <3> QED BY <3>1, Sizes, FS_Subset
  <2>2. cache' \in [Ino -> [node : Node, open : Nat]]
    <3>1. EmptyNode \in Node
      BY Sizes DEF EmptyNode, Node
    <3> QED BY <1>5, <3>1 DEF Uncached
  <2> QED BY <1>4, <1>8, <2>1, <2>2 DEF DataTyped
<1>12. OwnersApart' /\ OwnedTaken' /\ TakenOwned'
  BY <1>5, <1>6 DEF IInv, OwnersApart, OwnedTaken, TakenOwned, Uses
\* A block that is written to is no indirect block, nor free.
<1>13. \A b \in Lba : disk'[b] = disk[b] \/ \E s \in Slot \ {Direct} : Uses(i, s) /\ table[i].block[s] = b
  BY <1>1, <1>7 DEF Uses
<1>14. \A j \in inode_btmp : Uses(j, Direct) => disk'[table[j].block[Direct]] = disk[table[j].block[Direct]]
  <2> TAKE j \in inode_btmp
  <2> HAVE Uses(j, Direct)
  <2>1. Direct \in Slot /\ table[j].block[Direct] \in Lba
    BY <1>1, Sizes DEF IInv, OwnedTaken
  <2> QED BY <1>1, <1>13, <2>1 DEF IInv, OwnersApart
<1>15. Covered'
  BY <1>5, <1>14 DEF IInv, Covered, Uses
<1>16. FreeZero'
  <2> SUFFICES ASSUME NEW b \in Lba \ blk_btmp' PROVE disk'[b] = Zero
    BY DEF FreeZero
  <2>1. b \in Lba \ blk_btmp
    BY <1>5
  <2>2. \A s \in Slot : Uses(i, s) => table[i].block[s] # b
    BY <1>1, <2>1 DEF IInv, OwnedTaken
  <2> QED BY <1>13, <2>1, <2>2 DEF IInv, FreeZero
<1> QED BY <1>5, <1>9, <1>10, <1>11, <1>12, <1>15, <1>16 DEF IInv, CacheIsTable

-----------------------------------------------------------------------------
(* The other operations.                                                     *)

\* So does a call that only loads or drops inodes,
LEMMA CacheOnly ==
    ASSUME IInv, cache' \in [Ino -> [node : Node, open : Nat]],
           \A j \in Ino : \/ cache'[j] = Uncached
                          \/ cache'[j].open > 0 /\ cache'[j].node = table[j] /\ j \in inode_btmp,
           UNCHANGED <<blk_btmp, inode_btmp, disk, table, lost, halted>>
    PROVE  IInv'
<1>1. TypeOK' /\ DataTyped'
  BY DEF IInv, TypeOK, DataTyped, Cached
<1>2. (OwnersApart /\ OwnedTaken /\ TakenOwned /\ Covered /\ FreeZero)'
  BY DEF IInv, OwnersApart, OwnedTaken, TakenOwned, Covered, FreeZero, Uses
<1>3. CacheIsTable'
  BY DEF CacheIsTable, Cached, Uncached
<1> QED BY <1>1, <1>2, <1>3 DEF IInv

\* as inode_open, inode_close and fs_mount do;
LEMMA OpenCloseInv ==
    ASSUME IInv, (\E i \in Ino : Open(i) \/ Close(i)) \/ Remount
    PROVE  IInv'
<1>1. /\ cache \in [Ino -> [node : Node, open : Nat]] /\ table \in [Ino -> Node]
      /\ Uncached \in [node : Node, open : Nat] /\ Uncached.open = 0
  BY Sizes DEF IInv, TypeOK, DataTyped, Uncached, EmptyNode, Node
<1>2. \A j \in Ino : \/ cache[j] = Uncached
                     \/ cache[j].open > 0 /\ cache[j].node = table[j] /\ j \in inode_btmp
  BY DEF IInv, TypeOK, CacheIsTable, Cached
<1>3. CASE Remount
  BY <1>1, <1>3, CacheOnly DEF Remount
<1>4. ASSUME NEW i \in Ino, Open(i) PROVE IInv'
  BY <1>1, <1>2, <1>4, CacheOnly DEF Open, Cached
<1>5. ASSUME NEW i \in Ino, Close(i) PROVE IInv'
  <2>1. cache[i].open \in Nat /\ cache[i].open > 0
    BY <1>1, <1>5 DEF Close, Cached
  <2> QED BY <1>1, <1>2, <1>5, <2>1, CacheOnly DEF Close
<1> QED BY <1>3, <1>4, <1>5

\* inode_acquire;
LEMMA AcquireInv ==
    ASSUME IInv, NEW i \in Ino, Acquire(i)
    PROVE  IInv'
<1>1. /\ i \notin inode_btmp /\ inode_btmp' = inode_btmp \cup {i} /\ table' = [table EXCEPT ![i] = EmptyNode]
      /\ cache' = [cache EXCEPT ![i] = [node |-> EmptyNode, open |-> 1]]
      /\ blk_btmp' = blk_btmp /\ disk' = disk /\ lost' = lost /\ halted' = halted
  BY DEF Acquire
<1>2. /\ EmptyNode \in Node /\ EmptyNode.size = 0 /\ \A s \in Slot : EmptyNode.block[s] = NoBlock
      /\ table \in [Ino -> Node] /\ inode_btmp \in SUBSET Ino
  BY Sizes DEF IInv, TypeOK, EmptyNode, Node
<1> HIDE DEF Node, EmptyNode
<1>3. table'[i] = EmptyNode /\ \A j \in inode_btmp : j # i /\ table'[j] = table[j]
  BY <1>1, <1>2
<1>4. \A s \in Slot : table'[i].block[s] = NoBlock
  BY <1>2, <1>3
<1>5. TypeOK'
  <2>1. \A j \in Ino : Cached(j)' \/ cache'[j] = Uncached
    BY <1>1 DEF IInv, TypeOK, DataTyped, Cached
  <2> QED BY <1>1, <1>2, <2>1 DEF IInv, TypeOK
<1>6. DataTyped'
  BY <1>1, <1>2 DEF IInv, DataTyped
<1>7. OwnersApart' /\ OwnedTaken'
  BY <1>1, <1>3, <1>4 DEF IInv, OwnersApart, OwnedTaken, Uses
<1>8. TakenOwned'
  BY <1>1, <1>3 DEF IInv, TakenOwned
<1>9. Covered'
  <2>1. \A s \in 0..(Direct - 1) : ~(s * BlockSize < 0)
    BY Sizes, BlockIndex
  <2>2. \A s \in 0..(Direct - 1) : ~(s * BlockSize < table'[i].size)
    BY <1>2, <1>3, <2>1
  <2>3. ~Uses(i, Direct)' /\ ~Uses(i, Direct - 1)'
    BY <1>4, Sizes DEF Uses
  <2>4. \A j \in inode_btmp :
          /\ \A s \in 0..(Direct - 1) : s * BlockSize < table'[j].size => Uses(j, s)'
          /\ j # Root /\ Uses(j, Direct - 1)' => Uses(j, Direct)'
          /\ Uses(j, Direct)' => disk'[table'[j].block[Direct]] = Zero
    BY <1>1, <1>3 DEF IInv, Covered, Uses
  <2> QED BY <1>1, <2>2, <2>3, <2>4 DEF Covered
<1>10. FreeZero' /\ Root \in inode_btmp'
  BY <1>1 DEF IInv, FreeZero
<1>11. CacheIsTable'
  BY <1>1, <1>2, <1>3 DEF IInv, CacheIsTable, Cached, TypeOK, DataTyped
<1> QED BY <1>5, <1>6, <1>7, <1>8, <1>9, <1>10, <1>11 DEF IInv

\* The indirect block is empty: what an inode refers to are its own blocks.
LEMMA RefsOwn ==
    ASSUME IInv, NEW i \in inode_btmp
    PROVE  /\ \A s \in Slot : Uses(i, s) => table[i].block[s] \in Refs(table[i])
           /\ \A b \in Refs(table[i]) : \E s \in Slot : Uses(i, s) /\ table[i].block[s] = b
<1>1. Uses(i, Direct) => \A k \in Offset : disk[table[i].block[Direct]][k] = NoBlock
  BY DEF IInv, Covered, Zero, NoBlock
<1> QED BY <1>1 DEF Refs, Uses

\* inode_release: the blocks that are freed are those of the inode;
LEMMA ReleaseInv ==
    ASSUME IInv, NEW i \in Ino, Release(i)
    PROVE  IInv'
<1> DEFINE own == Refs(table[i])
<1>1. /\ i \in inode_btmp /\ cache[i].node = table[i]
  BY DEF IInv, CacheIsTable, Release, Cached
<1>2. /\ i # Root /\ blk_btmp' = blk_btmp \ own /\ disk' = Wipe(own, disk)
      /\ inode_btmp' = inode_btmp \ {i} /\ cache' = [cache EXCEPT ![i] = Uncached]
      /\ table' = table /\ lost' = lost /\ halted' = halted
  BY <1>1 DEF Release
<1>3. /\ \A s \in Slot : Uses(i, s) => table[i].block[s] \in own
      /\ \A b \in own : \E s \in Slot : Uses(i, s) /\ table[i].block[s] = b
  BY <1>1, RefsOwn
<1> HIDE DEF own
<1>4. own \in SUBSET (blk_btmp \ lost)
  BY <1>1, <1>3 DEF IInv, OwnedTaken
<1>5. \A j \in inode_btmp \ {i} : \A s \in Slot : Uses(j, s) => table[j].block[s] \notin own
  BY <1>1, <1>3 DEF IInv, OwnersApart
<1>6. \A b \in Lba : disk'[b] = IF b \in own THEN Zero ELSE disk[b]
  BY <1>2 DEF Wipe
<1>7. disk' \in [Lba -> [Offset -> Byte \cup {0}]]
  <2>1. Zero \in [Offset -> Byte \cup {0}]
    BY DEF Zero
  <2> QED BY <1>2, <2>1 DEF Wipe, IInv, DataTyped
<1>8. Uncached \in [node : Node, open : Nat] /\ Uncached.open = 0
  BY Sizes DEF Uncached, EmptyNode, Node
<1>9. TypeOK'
  BY <1>2, <1>4, <1>7, <1>8 DEF IInv, TypeOK, Cached, DataTyped
<1>10. DataTyped'
  BY <1>2, <1>7, <1>8 DEF IInv, DataTyped
<1>11. OwnersApart' /\ OwnedTaken'
  BY <1>2, <1>5 DEF IInv, OwnersApart, OwnedTaken, Uses
<1>12. TakenOwned'
  <2> SUFFICES ASSUME NEW b \in (blk_btmp \ own) \ lost
               PROVE  \E j \in inode_btmp \ {i} : \E s \in Slot : table[j].block[s] = b
    BY <1>2 DEF TakenOwned
  <2>1. PICK j \in inode_btmp, s \in Slot : table[j].block[s] = b
    BY DEF IInv, TakenOwned
  <2>2. b # NoBlock
    BY Sizes DEF IInv, TypeOK
  <2> QED BY <1>3, <2>1, <2>2 DEF Uses
<1>13. Covered'
  <2>1. \A j \in inode_btmp \ {i} : Uses(j, Direct) => disk'[table[j].block[Direct]] = Zero
    <3> TAKE j \in inode_btmp \ {i}
    <3> HAVE Uses(j, Direct)
    <3>1. table[j].block[Direct] \in Lba
      BY Sizes DEF IInv, OwnedTaken, TypeOK
    <3> QED BY <1>6, <3>1 DEF IInv, Covered
  <2> QED BY <1>2, <2>1 DEF IInv, Covered, Uses
<1>14. FreeZero' /\ Root \in inode_btmp'
  BY <1>2, <1>6 DEF IInv, FreeZero
<1>15. CacheIsTable'
  BY <1>2, <1>8 DEF IInv, CacheIsTable, Cached, DataTyped
<1> QED BY <1>9, <1>10, <1>11, <1>12, <1>13, <1>14, <1>15 DEF IInv

\* and inode_erase, which frees the blocks behind the new end, or stops the machine.
LEMMA EraseInv ==
    ASSUME IInv, NEW cnt \in Nat, Erase(Root, cnt)
    PROVE  IInv'
<1> DEFINE n == cache[Root].node
           gone == ((n.size - cnt) \div BlockSize + 1)..(n.size \div BlockSize)
           new == [n EXCEPT !.size = n.size - cnt,
                            !.block = [s \in Slot |-> IF s \in gone THEN NoBlock ELSE n.block[s]]]
           blocks == {n.block[s] : s \in gone}
<1>1. CASE \E s \in gone : s = Direct \/ n.block[s] = NoBlock
  <2>1. /\ halted' = TRUE /\ UNCHANGED <<blk_btmp, disk, table, cache, inode_btmp, lost>>
    BY <1>1 DEF Erase
  <2>2. TypeOK' /\ DataTyped'
    BY <2>1 DEF IInv, TypeOK, DataTyped, Cached
  <2>3. (OwnersApart /\ OwnedTaken /\ TakenOwned /\ Covered /\ FreeZero /\ CacheIsTable)'
    BY <2>1 DEF IInv, OwnersApart, OwnedTaken, TakenOwned, Covered, FreeZero, Uses, CacheIsTable, Cached
  <2> QED BY <2>1, <2>2, <2>3 DEF IInv
<1>2. CASE ~(\E s \in gone : s = Direct \/ n.block[s] = NoBlock)
  <2>1. /\ blk_btmp' = blk_btmp \ blocks /\ disk' = Wipe(blocks, disk)
        /\ table' = [table EXCEPT ![Root] = new] /\ cache' = [cache EXCEPT ![Root].node = new]
        /\ inode_btmp' = inode_btmp /\ lost' = lost /\ halted' = halted
        /\ Cached(Root) /\ n.size >= cnt
    BY <1>2 DEF Erase
  <2>2. /\ Root \in inode_btmp /\ n = table[Root] /\ n \in Node /\ n.size \in 0..MaxSize
        /\ n.block \in [Slot -> Lba \cup {NoBlock}] /\ table \in [Ino -> Node] /\ Root \in Ino
        /\ inode_btmp \in SUBSET Ino /\ cache \in [Ino -> [node : Node, open : Nat]]
    BY <2>1, Sizes DEF IInv, CacheIsTable, TypeOK, DataTyped, Node
  <2> DEFINE keep == n.size - cnt
  <2>3. keep \in Nat /\ keep <= n.size /\ n.size \in Nat /\ keep \in 0..MaxSize
    BY <2>1, <2>2, Sizes
  <2>4. /\ \A s \in gone : s \in Slot /\ s # Direct /\ n.block[s] # NoBlock
        /\ \A s \in Nat : s * BlockSize < keep => s \notin gone
    <3>1. keep \div BlockSize \in Nat /\ n.size \div BlockSize \in Nat
      BY <2>3, BlockOfByte
    <3>2. n.size \div BlockSize <= Direct
      <4>1. (n.size \div BlockSize) * BlockSize \in Nat /\ (n.size \div BlockSize) * BlockSize <= n.size
        BY <2>3, BlockOfByte
      <4>2. n.size < (Direct + 1) * BlockSize
        <5>1. (Direct + 1) * BlockSize = Direct * BlockSize + BlockSize /\ Direct * BlockSize \in Nat
          BY Sizes
        <5> QED BY <2>2, <5>1, Sizes
      <4>3. n.size \div BlockSize < Direct + 1
        BY <2>3, <4>2, BlockIndex, Sizes
      <4> QED BY <3>1, <4>3, Sizes
    <3>3. \A s \in gone : s \in Nat /\ s <= Direct
      BY <3>1, <3>2, Sizes
    <3>4. \A s \in gone : s \in Slot
      BY <3>3, Sizes DEF Slot
    <3>5. \A s \in Nat : s * BlockSize \in Nat /\ (s * BlockSize <= keep => s <= keep \div BlockSize)
      BY <2>3, BlockIndex
    <3>6. \A s \in Nat : s * BlockSize < keep => s <= keep \div BlockSize
      <4> HIDE DEF keep
      <4> QED BY <2>3, <3>5
    <3>7. \A s \in Nat : s * BlockSize < keep => s \notin gone
      BY <3>1, <3>6
    <3> QED BY <1>2, <3>4, <3>7
  <2>5. /\ new.size = keep /\ new \in Node
        /\ \A s \in Slot : new.block[s] = IF s \in gone THEN NoBlock ELSE n.block[s]
    <3> HIDE DEF gone
    <3> QED BY <2>2, <2>3 DEF Node
  <2> HIDE DEF gone, new, keep, n
  <2>6. blocks \in SUBSET (blk_btmp \ lost) /\ blocks \in SUBSET Lba
    BY <2>2, <2>4 DEF IInv, OwnedTaken, Uses, TypeOK
  <2>7. table'[Root] = new /\ \A j \in inode_btmp \ {Root} : table'[j] = table[j]
    BY <2>1, <2>2
  \* What the table refers to afterwards, it did before, and it is not released.
  <2>8. \A j \in inode_btmp : \A s \in Slot :
            table'[j].block[s] # NoBlock =>
                table'[j].block[s] = table[j].block[s] /\ table[j].block[s] \notin blocks
    <3> TAKE j \in inode_btmp
    <3> TAKE s \in Slot
    <3> HAVE table'[j].block[s] # NoBlock
    <3>1. table'[j].block[s] = table[j].block[s] /\ (j = Root => s \notin gone)
      BY <2>2, <2>5, <2>7
    <3>2. \A z \in gone : table[j].block[s] # n.block[z]
      BY <2>2, <2>4, <3>1 DEF IInv, OwnersApart, Uses
    <3> QED BY <3>1, <3>2
  <2>9. \A b \in Lba : disk'[b] = IF b \in blocks THEN Zero ELSE disk[b]
    BY <2>1 DEF Wipe
  <2>10. disk' \in [Lba -> [Offset -> Byte \cup {0}]]
    <3>1. Zero \in [Offset -> Byte \cup {0}]
      BY DEF Zero
    <3> QED BY <2>1, <3>1 DEF Wipe, IInv, DataTyped
  <2> HIDE DEF blocks
  <2>11. cache' \in [Ino -> [node : Node, open : Nat]]
         /\ \A j \in Ino : Cached(j)' \/ cache'[j] = Uncached
    BY <2>1, <2>2, <2>5 DEF IInv, TypeOK, Cached
  <2>12. TypeOK'
    BY <2>1, <2>2, <2>5, <2>6, <2>10, <2>11 DEF IInv, TypeOK
  <2>13. DataTyped'
    BY <2>1, <2>10, <2>11 DEF IInv, DataTyped
  <2>14. OwnersApart' /\ OwnedTaken'
    BY <2>1, <2>8 DEF IInv, OwnersApart, OwnedTaken, Uses
  <2>15. TakenOwned'
    <3> SUFFICES ASSUME NEW b \in (blk_btmp \ blocks) \ lost
                 PROVE  \E j \in inode_btmp : \E s \in Slot : table'[j].block[s] = b
      BY <2>1 DEF TakenOwned
    <3>1. PICK j \in inode_btmp, s \in Slot : table[j].block[s] = b
      BY DEF IInv, TakenOwned
    <3>2. j = Root => s \notin gone
      BY <2>2, <3>1 DEF blocks
    <3> QED BY <2>2, <2>5, <2>7, <3>1, <3>2
  <2>16. Covered'
    <3>1. \A s \in 0..(Direct - 1) : s * BlockSize < new.size => new.block[s] # NoBlock
      <4> TAKE s \in 0..(Direct - 1)
      <4> HAVE s * BlockSize < new.size
      <4>1. s \in Nat /\ s \in Slot /\ s * BlockSize \in Nat
        BY Sizes
      <4>2. s \notin gone /\ s * BlockSize < n.size
        BY <2>3, <2>4, <2>5, <4>1
      <4> QED BY <2>2, <2>5, <4>1, <4>2 DEF IInv, Covered, Uses
    <3>2. \A j \in inode_btmp : Uses(j, Direct)' => disk'[table'[j].block[Direct]] = Zero
      <4> TAKE j \in inode_btmp
      <4> HAVE Uses(j, Direct)'
      <4>1. table'[j].block[Direct] = table[j].block[Direct] /\ Uses(j, Direct)
        BY <2>8, Sizes DEF Uses
      <4>2. table[j].block[Direct] \in Lba /\ disk[table[j].block[Direct]] = Zero
        BY <4>1, Sizes DEF IInv, Covered, OwnedTaken, TypeOK
      <4> QED BY <2>9, <4>1, <4>2
    <3>3. \A j \in inode_btmp \ {Root} :
            /\ \A s \in 0..(Direct - 1) : s * BlockSize < table'[j].size => Uses(j, s)'
            /\ j # Root /\ Uses(j, Direct - 1)' => Uses(j, Direct)'
      BY <2>7 DEF IInv, Covered, Uses
    <3> QED BY <2>1, <2>7, <3>1, <3>2, <3>3 DEF Covered, Uses
  <2>17. FreeZero' /\ Root \in inode_btmp'
    BY <2>1, <2>2, <2>9 DEF IInv, FreeZero
  <2>18. CacheIsTable'
    BY <2>1, <2>2, <2>7 DEF IInv, CacheIsTable, Cached
  <2> QED BY <2>12, <2>13, <2>14, <2>15, <2>16, <2>17, <2>18 DEF IInv
<1> QED BY <1>1, <1>2

-----------------------------------------------------------------------------
\* Every step keeps the invariant.
LEMMA NextIInv == IInv /\ [Next]_vars => IInv'
<1> SUFFICES ASSUME IInv, [Next]_vars PROVE IInv'
  OBVIOUS
<1>1. CASE UNCHANGED vars
  <2> USE <1>1 DEF vars
  <2>1. TypeOK' /\ DataTyped'
    BY DEF IInv, TypeOK, DataTyped, Cached
  <2>2. (OwnersApart /\ OwnedTaken /\ TakenOwned /\ Covered /\ FreeZero /\ CacheIsTable)'
    BY DEF IInv, OwnersApart, OwnedTaken, TakenOwned, Covered, FreeZero, Uses, CacheIsTable, Cached
  <2> QED BY <2>1, <2>2 DEF IInv
<1>2. /\ Counts \subseteq Nat \ {0} /\ Byte \in SUBSET Nat /\ Dirent \in Nat \ {0} /\ Min(Byte) \in Byte
  <2>1. Byte \in SUBSET Nat /\ Byte # {} /\ Counts \subseteq Nat \ {0}
    BY InodeAssumption
  <2>2. Min(Byte) \in Byte
    BY <2>1, LeastNat DEF Min
  <2> QED BY <2>1, <2>2, Sizes
<1>3. \A j \in Ino : cache[j].node.size \in Nat
  BY Sizes DEF IInv, DataTyped, Node
<1>4. ASSUME NEW i \in Ino, NEW pos \in Nat, NEW cnt \in Nat \ {0}, NEW d \in Byte,
             pos <= cache[i].node.size, i = Root => pos = cache[i].node.size,
             Write(i, pos, cnt, d) \/ WriteCrash(i, pos, cnt, d)
      PROVE  IInv'
  <2>1. CASE Write(i, pos, cnt, d)
    <3>1. Cached(i) /\ i \in inode_btmp /\ \E need, new : Written(i, need, new)
      BY <1>4, <2>1, WriteFacts DEF Write
    <3> QED BY <3>1, WrittenInv
  <2>2. CASE WriteCrash(i, pos, cnt, d)
    BY <1>4, <2>2, WriteCrashInv
  <2> QED BY <1>4, <2>1, <2>2
<1>5. CASE \E i \in Ino, cnt \in Counts, d \in Byte :
              i # Root /\ \E pos \in {0, cache[i].node.size} :
                              Write(i, pos, cnt, d) \/ WriteCrash(i, pos, cnt, d)
  <2>1. PICK i \in Ino, cnt \in Counts, d \in Byte :
            i # Root /\ \E pos \in {0, cache[i].node.size} :
                            Write(i, pos, cnt, d) \/ WriteCrash(i, pos, cnt, d)
    BY <1>5
  <2>2. PICK pos \in {0, cache[i].node.size} : Write(i, pos, cnt, d) \/ WriteCrash(i, pos, cnt, d)
    BY <2>1
  <2>3. pos \in Nat /\ pos <= cache[i].node.size /\ cnt \in Nat \ {0}
    BY <1>2, <1>3
  <2> QED BY <1>4, <2>1, <2>2, <2>3
<1>6. CASE \/ Write(Root, cache[Root].node.size, Dirent, Min(Byte))
           \/ WriteCrash(Root, cache[Root].node.size, Dirent, Min(Byte))
  <2> DEFINE pos == cache[Root].node.size
  <2>1. pos \in Nat /\ pos <= pos /\ Root \in Ino
    BY <1>3, Sizes
  <2> QED BY <1>2, <1>4, <1>6, <2>1
<1>7. CASE \E i \in Ino : Acquire(i) \/ Release(i)
  BY <1>7, AcquireInv, ReleaseInv
<1>8. CASE Erase(Root, Dirent)
  BY <1>2, <1>8, EraseInv
<1>9. CASE (\E i \in Ino : Open(i) \/ Close(i)) \/ Remount
  BY <1>9, OpenCloseInv
<1> QED BY <1>1, <1>5, <1>6, <1>7, <1>8, <1>9 DEF Next

\* IInv holds in every state: the bitmap, the table, the inodes in memory and the
\* blocks that crashes have lost agree (inode.c).
THEOREM Invariance == Spec => []IInv
<1>1. Init => IInv
  BY InitIInv
<1>2. IInv /\ [Next]_vars => IInv'
  BY NextIInv
<1> QED BY <1>1, <1>2, PTL DEF Spec

\* The state keeps its types, and an inode that nobody has open is not in memory
\* (inode_open, inode_close, inode.c:195-265).
THEOREM TypeCorrect == Spec => []TypeOK
<1>1. IInv => TypeOK
  BY DEF IInv
<1> QED BY <1>1, Invariance, PTL

\* An inode in memory is acquired, and is the one on the disk: closing it or a
\* reboot loses nothing (inode.c:243-265, 553-633).
THEOREM NothingUnsaved == Spec => []CacheIsTable
<1>1. IInv => CacheIsTable
  BY DEF IInv
<1> QED BY <1>1, Invariance, PTL

\* A block that is taken belongs to one inode, in one place, or a crash has lost it;
\* an inode has only taken blocks (blk_acquire, blk_release, inode.c:32-75, 615-624).
THEOREM BlocksAccounted == Spec => []BlocksExact
<1>1. ASSUME IInv PROVE BlocksExact
  <2> DEFINE uses == {u \in inode_btmp \X Slot : table[u[1]].block[u[2]] # NoBlock}
             owned == blk_btmp \ lost
             place == [u \in uses |-> table[u[1]].block[u[2]]]
  <2>1. \A u \in uses : place[u] \in owned
    BY <1>1 DEF IInv, OwnedTaken, Uses
  <2>2. \A u, v \in uses : place[u] = place[v] => u = v
    <3> SUFFICES ASSUME NEW u \in uses, NEW v \in uses, place[u] = place[v] PROVE u = v
      OBVIOUS
    <3>1. u = <<u[1], u[2]>> /\ v = <<v[1], v[2]>>
      OBVIOUS
    <3>2. u[1] = v[1] /\ u[2] = v[2]
      BY <1>1 DEF IInv, OwnersApart, Uses
    <3> QED BY <3>1, <3>2
  <2>3. \A b \in owned : \E u \in uses : place[u] = b
    <3> TAKE b \in owned
    <3>1. PICK j \in inode_btmp, s \in Slot : table[j].block[s] = b
      BY <1>1 DEF IInv, TakenOwned
    <3>2. b # NoBlock
      BY <1>1, Sizes DEF IInv, TypeOK
    <3>3. <<j, s>> \in uses
      BY <3>1, <3>2
    <3> QED BY <3>1, <3>3
  <2>4. {table[u[1]].block[u[2]] : u \in uses} = owned
    <3> HIDE DEF uses, owned
    <3>1. \A u \in uses : place[u] = table[u[1]].block[u[2]]
      OBVIOUS
    <3> HIDE DEF place
    <3>2. \A u \in uses : table[u[1]].block[u[2]] \in owned
      BY <2>1, <3>1
    <3>3. \A b \in owned : \E u \in uses : table[u[1]].block[u[2]] = b
      BY <2>3, <3>1
    <3> QED BY <3>2, <3>3
  <2>5. IsFiniteSet(owned)
    <3>1. owned \in SUBSET Lba
      BY <1>1 DEF IInv, TypeOK
    <3> QED BY <3>1, Sizes, FS_Subset
  <2>6. Cardinality(uses) = Cardinality(owned)
    <3>5. place \in [uses -> owned]
      BY <2>1
    <3> HIDE DEF place, uses, owned
    <3>1. place \in Injection(uses, owned) /\ place \in Surjection(uses, owned)
      BY <2>2, <2>3, <3>5 DEF Injection, IsInjective, Surjection
    <3>2. IsFiniteSet(uses) /\ Cardinality(uses) <= Cardinality(owned)
      BY <2>5, <3>1, FS_Injection
    <3>3. Cardinality(owned) <= Cardinality(uses)
      BY <3>1, <3>2, FS_Surjection
    <3>4. Cardinality(uses) \in Nat /\ Cardinality(owned) \in Nat
      BY <2>5, <3>2, FS_CardinalityType
    <3> QED BY <3>2, <3>3, <3>4
  <2> QED BY <2>4, <2>6 DEF BlocksExact
<1> QED BY <1>1, Invariance, PTL

-----------------------------------------------------------------------------
(* The bytes of the files.                                                   *)

\* A byte of a file is in a block of the file.
BytesPlaced ==
    \A i \in inode_btmp : \A k \in 1..table[i].size :
        LET s == (k - 1) \div BlockSize
            o == (k - 1) % BlockSize
        IN  /\ s \in 0..(Direct - 1) /\ o \in Offset /\ s * BlockSize + o = k - 1
            /\ Uses(i, s) /\ table[i].block[s] \in Lba
            /\ ByteAt(table[i], k - 1) = disk[table[i].block[s]][o]
\* So it is in every state.
LEMMA BytesInBlocks == IInv => BytesPlaced
<1> SUFFICES ASSUME IInv, NEW i \in inode_btmp, NEW k \in 1..table[i].size
             PROVE  LET s == (k - 1) \div BlockSize
                        o == (k - 1) % BlockSize
                    IN  /\ s \in 0..(Direct - 1) /\ o \in Offset /\ s * BlockSize + o = k - 1
                        /\ Uses(i, s) /\ table[i].block[s] \in Lba
                        /\ ByteAt(table[i], k - 1) = disk[table[i].block[s]][o]
  BY DEF BytesPlaced
<1> DEFINE s == (k - 1) \div BlockSize
           o == (k - 1) % BlockSize
<1>1. i \in Ino /\ table[i].size \in 0..MaxSize /\ k \in Nat /\ k - 1 \in Nat /\ k - 1 < table[i].size
  <2>1. i \in Ino /\ table[i] \in Node
    BY DEF IInv, TypeOK
  <2>2. table[i].size \in 0..MaxSize
    BY <2>1 DEF Node
  <2> QED BY <2>1, <2>2, Sizes
<1>2. /\ s \in Nat /\ s * BlockSize \in Nat /\ s * BlockSize <= k - 1
      /\ k - 1 < s * BlockSize + BlockSize
  BY <1>1, BlockOfByte
<1>3. o \in Offset /\ s * BlockSize + o = k - 1
  <2>1. o \in 0..(BlockSize - 1) /\ k - 1 = BlockSize * s + o
    BY <1>1, Sizes, SMTT(20)
  <2>2. BlockSize * s = s * BlockSize
    BY <1>2, Sizes
  <2> QED BY <1>2, <2>1, <2>2 DEF Offset
<1>4. s * BlockSize < table[i].size
  <2> HIDE DEF s
  <2> QED BY <1>1, <1>2, Sizes
<1>5. s < Direct
  <2>1. s * BlockSize < Direct * BlockSize /\ Direct * BlockSize \in Nat
    <3> HIDE DEF s
    <3> QED BY <1>1, <1>2, <1>4, Sizes
  <2>2. k - 1 < Direct * BlockSize
    BY <1>1, Sizes
  <2> QED BY <1>1, <2>2, BlockIndex, Sizes
<1>6. s \in 0..(Direct - 1)
  <2> HIDE DEF s
  <2> QED BY <1>2, <1>5, Sizes
<1>7. Uses(i, s)
  <2> HIDE DEF s
  <2> QED BY <1>4, <1>6 DEF IInv, Covered
<1>8. table[i].block[s] \in Lba
  <2> HIDE DEF s
  <2> QED BY <1>6, <1>7, Sizes DEF IInv, OwnedTaken, TypeOK
<1> QED BY <1>3, <1>6, <1>7, <1>8 DEF ByteAt, BlockAt

\* What does not write to the blocks of a file does not change it.
LEMMA SameContent ==
    ASSUME IInv, NEW j \in inode_btmp, table'[j] = table[j],
           \A s \in 0..(Direct - 1) : Uses(j, s) => disk'[table[j].block[s]] = disk[table[j].block[s]]
    PROVE  Content(j)' = Content(j)
<1>1. \A k \in 1..table[j].size : ByteAt(table[j], k - 1)' = ByteAt(table[j], k - 1)
  <2> TAKE k \in 1..table[j].size
  <2>1. /\ (k - 1) \div BlockSize \in 0..(Direct - 1) /\ Uses(j, (k - 1) \div BlockSize)
    BY BytesInBlocks DEF BytesPlaced
  <2> QED BY <2>1 DEF ByteAt, BlockAt
<1> QED BY <1>1 DEF Content

\* What the bytes of a file are after inode_write, whole or cut short.
Overwritten(was, now, pos, cnt, d) ==
    \A k \in DOMAIN now : now[k] = IF k \in (pos + 1)..(pos + cnt) THEN d ELSE was[k]

\* A call that overwrites the blocks overwrites the file.
LEMMA NewContent ==
    ASSUME IInv, IInv', NEW i \in inode_btmp, i \in inode_btmp', NEW pos \in Nat, NEW cnt \in Nat, NEW d,
           pos <= table[i].size, table'[i].size <= table[i].size \/ table'[i].size <= pos + cnt,
           \A s \in 0..(Direct - 1) : Uses(i, s) => table'[i].block[s] = table[i].block[s],
           Overwrites(table'[i].block, pos, cnt, d)
    PROVE  Overwritten(Content(i), Content(i)', pos, cnt, d)
<1> SUFFICES ASSUME NEW k \in 1..table'[i].size
             PROVE  ByteAt(table[i], k - 1)'
                       = IF k \in (pos + 1)..(pos + cnt) THEN d ELSE Content(i)[k]
  BY DEF Overwritten, Content
<1> DEFINE s == (k - 1) \div BlockSize
           o == (k - 1) % BlockSize
<1>1. /\ s \in 0..(Direct - 1) /\ o \in Offset /\ s * BlockSize + o = k - 1
      /\ table'[i].block[s] # NoBlock
      /\ ByteAt(table[i], k - 1)' = disk'[table'[i].block[s]][o]
  <2>1. BytesPlaced'
    BY BytesInBlocks, PTL
  <2>2. \A z \in 1..table'[i].size :
            /\ (z - 1) \div BlockSize \in 0..(Direct - 1) /\ (z - 1) % BlockSize \in Offset
            /\ ((z - 1) \div BlockSize) * BlockSize + ((z - 1) % BlockSize) = z - 1
            /\ table'[i].block[(z - 1) \div BlockSize] # NoBlock
            /\ ByteAt(table[i], z - 1)'
                  = disk'[table'[i].block[(z - 1) \div BlockSize]][(z - 1) % BlockSize]
    BY <2>1 DEF BytesPlaced, Uses
  <2> QED BY <2>2
<1> HIDE DEF s, o
<1>2. /\ table[i].size \in Nat /\ table'[i].size \in Nat /\ k \in Nat
      /\ s * BlockSize \in Nat /\ o \in Nat
  <2>1. i \in Ino /\ table[i] \in Node /\ table'[i] \in Node
    BY DEF IInv, TypeOK
  <2>2. table[i].size \in 0..MaxSize /\ table'[i].size \in 0..MaxSize
    BY <2>1 DEF Node
  <2> QED BY <1>1, <2>2, Sizes DEF Offset
<1>3. disk'[table'[i].block[s]][o] = IF k - 1 \in pos..(pos + cnt - 1) THEN d
                                     ELSE disk[table'[i].block[s]][o]
  BY <1>1 DEF Overwrites
<1>4. k - 1 \in pos..(pos + cnt - 1) <=> k \in (pos + 1)..(pos + cnt)
  BY <1>2
<1>5. ASSUME k \notin (pos + 1)..(pos + cnt)
      PROVE  disk[table'[i].block[s]][o] = Content(i)[k]
  <2>1. k \in 1..table[i].size
    BY <1>2, <1>5
  <2>2. Uses(i, s) /\ ByteAt(table[i], k - 1) = disk[table[i].block[s]][o]
    BY <2>1, BytesInBlocks DEF BytesPlaced, s, o
  <2>3. Content(i)[k] = ByteAt(table[i], k - 1)
    BY <2>1 DEF Content
  <2> QED BY <1>1, <2>2, <2>3
<1> QED BY <1>1, <1>3, <1>4, <1>5

\* The effect of a call on its file; every other file stays what it is.
OthersKeep(i) == \A j \in inode_btmp \ {i} : Content(j)' = Content(j)
WriteEffect(i, pos, cnt, d) ==
    /\ i \in inode_btmp /\ inode_btmp' = inode_btmp /\ OthersKeep(i)
    /\ cnt <= MaxSize /\ pos <= table[i].size
    /\ table'[i].size = IF pos + cnt > table[i].size THEN pos + cnt ELSE table[i].size
    /\ Overwritten(Content(i), Content(i)', pos, cnt, d)

\* inode_write changes the bytes pos.. of its file and nothing else.
LEMMA WriteHasEffect ==
    ASSUME IInv, IInv', NEW i \in Ino, NEW pos \in Nat, NEW cnt \in Nat \ {0}, NEW d \in Byte,
           pos <= cache[i].node.size, i = Root => pos = cache[i].node.size,
           Write(i, pos, cnt, d)
    PROVE  WriteEffect(i, pos, cnt, d)
<1>1. PICK need, new :
          /\ Written(i, need, new) /\ Overwrites(new.block, pos, cnt, d)
          /\ new.size = IF table[i].size > pos + cnt THEN table[i].size ELSE pos + cnt
  BY WriteFacts
<1>2. i \in inode_btmp /\ cache[i].node = table[i]
  BY WriteFacts
<1>3. /\ table' = [table EXCEPT ![i] = new] /\ inode_btmp' = inode_btmp
      /\ table \in [Ino -> Node] /\ inode_btmp \in SUBSET Ino
  BY <1>1 DEF Written, IInv, TypeOK
<1>4. table'[i] = new /\ \A j \in inode_btmp \ {i} : table'[j] = table[j]
  BY <1>3
<1>5. OthersKeep(i)
  <2> SUFFICES ASSUME NEW j \in inode_btmp \ {i} PROVE Content(j)' = Content(j)
    BY DEF OthersKeep
  <2>1. ASSUME NEW s \in 0..(Direct - 1), Uses(j, s)
        PROVE  disk'[table[j].block[s]] = disk[table[j].block[s]]
    <3>1. s \in Slot /\ table[j].block[s] \in Lba
      BY <2>1, Sizes DEF IInv, OwnedTaken, TypeOK
    <3>2. \A z \in Slot : new.block[z] # table[j].block[s]
      BY <1>2, <1>3, <1>4, <2>1, <3>1 DEF IInv, OwnersApart, Uses
    <3> QED BY <1>1, <3>1, <3>2, Sizes DEF Written
  <2> QED BY <1>4, <2>1, SameContent
<1>6. \A s \in 0..(Direct - 1) : Uses(i, s) => table'[i].block[s] = table[i].block[s]
  BY <1>1, <1>4, Sizes DEF Written, Filled
<1>7. table[i].size \in Nat
  BY <1>2, <1>3, Sizes DEF Node
<1>8. cnt <= MaxSize /\ pos + cnt <= MaxSize
  BY Sizes DEF Write
<1>9. Overwritten(Content(i), Content(i)', pos, cnt, d)
  BY <1>1, <1>2, <1>3, <1>4, <1>6, <1>7, NewContent
<1> QED BY <1>1, <1>2, <1>3, <1>4, <1>5, <1>7, <1>8, <1>9 DEF WriteEffect

\* The power goes: a first part of the bytes that the file has already is overwritten.
LEMMA WriteCrashHasEffect ==
    ASSUME IInv, IInv', NEW i \in Ino, NEW pos \in Nat, NEW cnt \in Nat \ {0}, NEW d \in Byte,
           pos <= cache[i].node.size, WriteCrash(i, pos, cnt, d)
    PROVE  \E c \in Nat : WriteEffect(i, pos, c, d)
<1> DEFINE n == cache[i].node
           k == IF pos + cnt > n.size THEN n.size - pos ELSE cnt
<1>1. /\ i \in inode_btmp /\ n = table[i] /\ table' = table /\ inode_btmp' = inode_btmp
      /\ table \in [Ino -> Node] /\ inode_btmp \in SUBSET Ino
  BY DEF IInv, CacheIsTable, TypeOK, WriteCrash
<1>2. PICK c \in {0, BlockSize - (pos % BlockSize), cnt} \cap 0..cnt :
          disk' = [b \in Lba |->
                 IF \E s \in Slot : n.block[s] = b /\ s # Direct
                 THEN LET s == CHOOSE s \in Slot : n.block[s] = b
                      IN  [o \in Offset |-> Merged(disk[b], s, o, pos, c, d)]
                 ELSE disk[b]]
  BY Zenon DEF WriteCrash
<1>3. c \in Nat /\ c <= cnt /\ pos + cnt <= MaxSize
  BY DEF WriteCrash
<1>4. n.size \in Nat /\ n.size <= MaxSize /\ n.size = table[i].size /\ pos <= n.size
  BY <1>1, Sizes DEF Node
<1> HIDE DEF n
<1>5. \A b \in Lba : disk'[b] = disk[b] \/ \E s \in Slot : table[i].block[s] = b /\ s # Direct
  BY <1>1, <1>2
<1>6. Overwrites(table[i].block, pos, c, d)
  <2> SUFFICES ASSUME NEW s \in 0..(Direct - 1), Uses(i, s), NEW o \in Offset
               PROVE  disk'[table[i].block[s]][o]
                         = IF s * BlockSize + o \in pos..(pos + c - 1) THEN d
                           ELSE disk[table[i].block[s]][o]
    BY DEF Overwrites, Uses
  <2> DEFINE b == table[i].block[s]
             z == CHOOSE z \in Slot : table[i].block[z] = b
  <2>1. s \in Slot /\ s # Direct /\ b \in Lba
    <3>1. s \in Slot /\ s # Direct
      BY Sizes
    <3>2. OwnedTaken /\ blk_btmp \in SUBSET Lba
      BY DEF IInv, TypeOK
    <3> QED BY <1>1, <3>1, <3>2 DEF OwnedTaken
  <2>2. z \in Slot /\ table[i].block[z] = b
    BY <2>1
  <2>3. z = s
    BY <1>1, <2>1, <2>2 DEF IInv, OwnersApart
  <2>4. disk'[b] = [x \in Offset |-> Merged(disk[b], z, x, pos, c, d)]
    BY <1>1, <1>2, <2>1
  <2> HIDE DEF z
  <2> QED BY <2>3, <2>4 DEF Merged
<1>7. OthersKeep(i)
  <2> SUFFICES ASSUME NEW j \in inode_btmp \ {i} PROVE Content(j)' = Content(j)
    BY DEF OthersKeep
  <2>1. ASSUME NEW s \in 0..(Direct - 1), Uses(j, s)
        PROVE  disk'[table[j].block[s]] = disk[table[j].block[s]]
    <3>1. s \in Slot /\ table[j].block[s] \in Lba
      BY <2>1, Sizes DEF IInv, OwnedTaken, TypeOK
    <3>2. \A z \in Slot : table[i].block[z] # table[j].block[s]
      BY <1>1, <2>1, <3>1 DEF IInv, OwnersApart, Uses
    <3> QED BY <1>5, <3>1, <3>2
  <2> QED BY <1>1, <2>1, SameContent
<1>8. Overwritten(Content(i), Content(i)', pos, c, d)
  BY <1>1, <1>3, <1>4, <1>6, NewContent
<1> DEFINE m == IF pos + c > n.size THEN n.size - pos ELSE c
<1>9. m \in Nat /\ m <= MaxSize /\ pos + m <= n.size
      /\ \A x \in 1..n.size : x \in (pos + 1)..(pos + m) <=> x \in (pos + 1)..(pos + c)
  <2>1. m \in Nat /\ m <= MaxSize /\ pos + m <= n.size
    BY <1>3, <1>4, Sizes
  <2>2. pos + m = n.size \/ m = c
    BY <1>3, <1>4
  <2>3. m <= c
    BY <1>3, <1>4
  <2> HIDE DEF m
  <2> QED BY <1>3, <1>4, <2>1, <2>2, <2>3
<1>10. DOMAIN Content(i)' = 1..n.size
  BY <1>1, <1>4 DEF Content
<1> HIDE DEF m
<1>11. Overwritten(Content(i), Content(i)', pos, m, d)
  BY <1>8, <1>9, <1>10 DEF Overwritten
<1>12. WriteEffect(i, pos, m, d)
  BY <1>1, <1>4, <1>7, <1>9, <1>11 DEF WriteEffect
<1> QED BY <1>9, <1>12

\* A block that is still taken after blk_release is not wiped.
LEMMA WipeSpares ==
    ASSUME IInv', NEW gone, disk' = Wipe(gone, disk), blk_btmp' \cap gone = {},
           NEW j \in inode_btmp', NEW s \in Slot, Uses(j, s)'
    PROVE  disk'[table'[j].block[s]] = disk[table'[j].block[s]]
<1>1. table'[j].block[s] \in blk_btmp' /\ blk_btmp' \in SUBSET Lba
  BY DEF IInv, TypeOK, OwnedTaken
<1> QED BY <1>1 DEF Wipe

\* inode_erase cuts the end off.
EraseEffect(i, cnt) ==
    /\ i \in inode_btmp /\ inode_btmp' = inode_btmp /\ OthersKeep(i)
    /\ cnt <= table[i].size /\ table'[i].size = table[i].size - cnt
    /\ \A k \in 1..table'[i].size : Content(i)'[k] = Content(i)[k]

\* It changes the root alone, or stops the machine.
LEMMA EraseHasEffect ==
    ASSUME IInv, IInv', NEW cnt \in Nat, Erase(Root, cnt)
    PROVE  EraseEffect(Root, cnt) \/ UNCHANGED <<table, disk, inode_btmp>>
<1> DEFINE n == cache[Root].node
           gone == ((n.size - cnt) \div BlockSize + 1)..(n.size \div BlockSize)
           new == [n EXCEPT !.size = n.size - cnt,
                            !.block = [s \in Slot |-> IF s \in gone THEN NoBlock ELSE n.block[s]]]
           blocks == {n.block[s] : s \in gone}
<1>1. CASE \E s \in gone : s = Direct \/ n.block[s] = NoBlock
  BY <1>1 DEF Erase
<1>2. CASE ~(\E s \in gone : s = Direct \/ n.block[s] = NoBlock)
  <2>1. /\ blk_btmp' = blk_btmp \ blocks /\ disk' = Wipe(blocks, disk)
        /\ table' = [table EXCEPT ![Root] = new]
        /\ inode_btmp' = inode_btmp /\ Cached(Root) /\ n.size >= cnt
    BY <1>2 DEF Erase
  <2>2. /\ Root \in inode_btmp /\ n = table[Root] /\ n \in Node /\ n.size \in Nat
        /\ table \in [Ino -> Node] /\ Root \in Ino /\ inode_btmp \in SUBSET Ino
    <3>1. table \in [Ino -> Node] /\ inode_btmp \in SUBSET Ino /\ Root \in Ino
      BY Sizes DEF IInv, TypeOK
    <3>2. Root \in inode_btmp /\ n = table[Root]
      BY <2>1, <3>1 DEF IInv, CacheIsTable
    <3>3. n \in Node
      BY <3>1, <3>2
    <3> QED BY <3>1, <3>2, <3>3, Sizes DEF Node
  <2>3. /\ new.size = n.size - cnt /\ new.size \in Nat
        /\ \A s \in Slot : new.block[s] = IF s \in gone THEN NoBlock ELSE n.block[s]
    <3> HIDE DEF gone
    <3> QED BY <2>1, <2>2 DEF Node
  <2> HIDE DEF gone, new, n, blocks
  <2>4. table'[Root] = new /\ \A j \in inode_btmp \ {Root} : table'[j] = table[j]
    BY <2>1, <2>2
  <2>5. \A j \in inode_btmp : \A s \in Slot :
            table'[j].block[s] # NoBlock => disk'[table'[j].block[s]] = disk[table'[j].block[s]]
    BY <2>1, WipeSpares DEF Uses
  <2>6. OthersKeep(Root)
    <3> SUFFICES ASSUME NEW j \in inode_btmp \ {Root} PROVE Content(j)' = Content(j)
      BY DEF OthersKeep
    <3>1. \A s \in 0..(Direct - 1) : Uses(j, s) => disk'[table[j].block[s]] = disk[table[j].block[s]]
      BY <2>4, <2>5, Sizes DEF Uses
    <3> QED BY <2>4, <3>1, SameContent
  <2>7. ASSUME NEW k \in 1..table'[Root].size PROVE Content(Root)'[k] = Content(Root)[k]
    <3> DEFINE s == (k - 1) \div BlockSize
               o == (k - 1) % BlockSize
    <3>1. k \in 1..table[Root].size
      BY <2>1, <2>2, <2>3, <2>4
    <3>2. BytesPlaced' /\ BytesPlaced
      BY BytesInBlocks, PTL
    <3>3. /\ s \in 0..(Direct - 1) /\ table'[Root].block[s] # NoBlock
          /\ ByteAt(table[Root], k - 1)' = disk'[table'[Root].block[s]][o]
      <4>1. \A z \in 1..table'[Root].size :
                /\ (z - 1) \div BlockSize \in 0..(Direct - 1)
                /\ table'[Root].block[(z - 1) \div BlockSize] # NoBlock
                /\ ByteAt(table[Root], z - 1)'
                      = disk'[table'[Root].block[(z - 1) \div BlockSize]][(z - 1) % BlockSize]
        BY <2>1, <2>2, <3>2 DEF BytesPlaced, Uses
      <4> QED BY <4>1
    <3>4. ByteAt(table[Root], k - 1) = disk[table[Root].block[s]][o]
      BY <2>2, <3>1, <3>2 DEF BytesPlaced
    <3> HIDE DEF s, o
    <3>5. s \in Slot /\ table'[Root].block[s] = table[Root].block[s]
      BY <2>2, <2>3, <2>4, <3>3, Sizes
    <3>6. Content(Root)'[k] = ByteAt(table[Root], k - 1)' /\ Content(Root)[k] = ByteAt(table[Root], k - 1)
      BY <3>1 DEF Content
    <3> QED BY <2>2, <2>5, <3>3, <3>4, <3>5, <3>6
  <2> QED BY <2>1, <2>2, <2>3, <2>4, <2>6, <2>7 DEF EraseEffect
<1> QED BY <1>1, <1>2

\* inode_acquire makes an empty file, inode_release takes one away.
LEMMA AcquireHasEffect ==
    ASSUME IInv, NEW i \in Ino, Acquire(i)
    PROVE  i \notin inode_btmp /\ inode_btmp' = inode_btmp \cup {i} /\ table'[i].size = 0 /\ OthersKeep(i)
<1>1. /\ i \notin inode_btmp /\ inode_btmp' = inode_btmp \cup {i} /\ disk' = disk
      /\ table' = [table EXCEPT ![i] = EmptyNode] /\ table \in [Ino -> Node] /\ inode_btmp \in SUBSET Ino
  BY DEF Acquire, IInv, TypeOK
<1>2. table'[i] = EmptyNode /\ \A j \in inode_btmp : table'[j] = table[j]
  BY <1>1
<1> QED BY <1>1, <1>2, SameContent DEF OthersKeep, EmptyNode

\* The files that stay keep their bytes.
LEMMA ReleaseHasEffect ==
    ASSUME IInv, IInv', NEW i \in Ino, Release(i)
    PROVE  i \in inode_btmp /\ inode_btmp' = inode_btmp \ {i} /\ OthersKeep(i)
<1> DEFINE own == Refs(cache[i].node)
<1>1. /\ i \in inode_btmp /\ inode_btmp' = inode_btmp \ {i} /\ table' = table
      /\ disk' = Wipe(own, disk) /\ blk_btmp' = blk_btmp \ own
  BY DEF Release, IInv, CacheIsTable, Cached
<1> HIDE DEF own
<1>2. \A j \in inode_btmp \ {i} : \A s \in Slot :
          Uses(j, s) => disk'[table[j].block[s]] = disk[table[j].block[s]]
  BY <1>1, WipeSpares DEF Uses
<1>3. OthersKeep(i)
  BY <1>1, <1>2, Sizes, SameContent DEF OthersKeep
<1> QED BY <1>1, <1>3

\* Every byte of a file has been written.
BytesWritten == \A i \in inode_btmp : \A k \in DOMAIN Content(i) : Content(i)[k] \in Byte

\* A function on 1..n is a sequence of length n.
LEMMA FunctionIsSeq ==
    ASSUME NEW n \in Nat, NEW V, NEW f \in [1..n -> V]
    PROVE  f \in Seq(V) /\ Len(f) = n
<1>1. f \in Seq(V)
  BY SeqDef
<1>2. Len(f) \in Nat /\ DOMAIN f = 1..Len(f) /\ DOMAIN f = 1..n
  BY <1>1, LenProperties
<1>3. \A a, b \in Nat : 1..a = 1..b => a = b
  <2> SUFFICES ASSUME NEW a \in Nat, NEW b \in Nat, 1..a = 1..b PROVE a = b
    OBVIOUS
  <2>1. a \in 1..a \/ a = 0
    OBVIOUS
  <2>2. b \in 1..b \/ b = 0
    OBVIOUS
  <2>3. \A x \in 1..a : x <= b
    OBVIOUS
  <2>4. \A x \in 1..b : x <= a
    OBVIOUS
  <2> QED BY <2>1, <2>2, <2>3, <2>4
<1> QED BY <1>1, <1>2, <1>3

ContentListed(i) ==
    /\ table[i].size \in Nat /\ Content(i) \in Seq(Byte) /\ Len(Content(i)) = table[i].size
    /\ Content(i) # Absent
ContentsListed == \A i \in inode_btmp : ContentListed(i)
\* A file is a sequence of bytes, and none of them is the mark of an absent one.
LEMMA ContentSeq == IInv /\ BytesWritten => ContentsListed
<1> SUFFICES ASSUME IInv, BytesWritten, NEW i \in inode_btmp PROVE ContentListed(i)
  BY DEF ContentsListed
<1>1. table[i].size \in Nat
  <2>1. table \in [Ino -> Node] /\ i \in Ino
    BY DEF IInv, TypeOK
  <2>2. table[i] \in Node
    BY <2>1
  <2> QED BY <2>2, Sizes DEF Node
<1>2. Content(i) = [k \in 1..table[i].size |-> ByteAt(table[i], k - 1)]
  BY DEF Content
<1>3. \A k \in 1..table[i].size : Content(i)[k] \in Byte /\ ByteAt(table[i], k - 1) \in Byte
  BY DEF BytesWritten, Content
<1>4. Content(i) \in Seq(Byte) /\ Len(Content(i)) = table[i].size
  <2>1. Content(i) \in [1..table[i].size -> Byte]
    BY <1>2, <1>3
  <2> QED BY <1>1, <2>1, FunctionIsSeq
<1>5. Content(i) # Absent
  <2> SUFFICES ASSUME Content(i) = Absent PROVE FALSE
    OBVIOUS
  <2>1. Len(Absent) = 1 /\ Absent[1] = 0
    BY DEF Absent
  <2>2. 1 \in 1..table[i].size /\ Content(i)[1] = 0
    BY <1>4, <2>1
  <2>3. 0 \in Byte
    BY <1>3, <2>2
  <2> QED BY <2>3, InodeAssumption
<1> QED BY <1>1, <1>4, <1>5 DEF ContentListed

\* A step has one of these effects.
LEMMA StepHasEffect ==
    ASSUME IInv, IInv', [Next]_vars
    PROVE  \/ UNCHANGED <<table, disk, inode_btmp>>
           \/ \E i \in Ino : i \notin inode_btmp /\ inode_btmp' = inode_btmp \cup {i}
                             /\ table'[i].size = 0 /\ OthersKeep(i)
           \/ \E i \in Ino : i \in inode_btmp /\ inode_btmp' = inode_btmp \ {i} /\ OthersKeep(i)
           \/ \E i \in Ino, pos \in Nat, cnt \in Nat, d \in Byte : WriteEffect(i, pos, cnt, d)
           \/ EraseEffect(Root, Dirent)
<1>1. /\ Counts \subseteq Nat \ {0} /\ Dirent \in Nat \ {0} /\ Min(Byte) \in Byte /\ Root \in Ino
  <2>1. Byte \in SUBSET Nat /\ Byte # {} /\ Counts \subseteq Nat \ {0}
    BY InodeAssumption
  <2>2. Min(Byte) \in Byte
    BY <2>1, LeastNat DEF Min
  <2> QED BY <2>1, <2>2, Sizes
<1>2. \A j \in Ino : cache[j].node.size \in Nat
  BY Sizes DEF IInv, DataTyped, Node
<1>3. ASSUME NEW i \in Ino, NEW pos \in Nat, NEW cnt \in Nat \ {0}, NEW d \in Byte,
             pos <= cache[i].node.size, i = Root => pos = cache[i].node.size,
             Write(i, pos, cnt, d) \/ WriteCrash(i, pos, cnt, d)
      PROVE  \E c \in Nat : WriteEffect(i, pos, c, d)
  <2>1. CASE Write(i, pos, cnt, d)
    <3>1. WriteEffect(i, pos, cnt, d)
      BY <1>3, <2>1, WriteHasEffect
    <3> QED BY <3>1
  <2>2. CASE WriteCrash(i, pos, cnt, d)
    BY <1>3, <2>2, WriteCrashHasEffect
  <2> QED BY <1>3, <2>1, <2>2
<1>4. CASE \E i \in Ino, cnt \in Counts, d \in Byte :
              i # Root /\ \E pos \in {0, cache[i].node.size} :
                              Write(i, pos, cnt, d) \/ WriteCrash(i, pos, cnt, d)
  <2>1. PICK i \in Ino, cnt \in Counts, d \in Byte :
            i # Root /\ \E pos \in {0, cache[i].node.size} :
                            Write(i, pos, cnt, d) \/ WriteCrash(i, pos, cnt, d)
    BY <1>4
  <2>2. PICK pos \in {0, cache[i].node.size} : Write(i, pos, cnt, d) \/ WriteCrash(i, pos, cnt, d)
    BY <2>1
  <2>3. pos \in Nat /\ pos <= cache[i].node.size /\ cnt \in Nat \ {0}
    BY <1>1, <1>2
  <2>4. \E c \in Nat : WriteEffect(i, pos, c, d)
    BY <1>3, <2>1, <2>2, <2>3
  <2> QED BY <2>3, <2>4
<1>5. CASE \/ Write(Root, cache[Root].node.size, Dirent, Min(Byte))
           \/ WriteCrash(Root, cache[Root].node.size, Dirent, Min(Byte))
  <2> DEFINE pos == cache[Root].node.size
  <2>1. pos \in Nat /\ pos <= pos
    BY <1>1, <1>2
  <2>2. \E c \in Nat : WriteEffect(Root, pos, c, Min(Byte))
    BY <1>1, <1>3, <1>5, <2>1
  <2> QED BY <1>1, <2>1, <2>2
<1>6. CASE \E i \in Ino : Acquire(i)
  BY <1>6, AcquireHasEffect
<1>7. CASE \E i \in Ino : Release(i)
  BY <1>7, ReleaseHasEffect
<1>8. CASE Erase(Root, Dirent)
  BY <1>1, <1>8, EraseHasEffect
<1>9. CASE (\E i \in Ino : Open(i) \/ Close(i)) \/ Remount \/ UNCHANGED vars
  BY <1>9 DEF Open, Close, Remount, vars
<1> QED BY <1>4, <1>5, <1>6, <1>7, <1>8, <1>9 DEF Next

\* No step leaves a byte of a file unwritten.
LEMMA BytesStayWritten == IInv /\ IInv' /\ BytesWritten /\ [Next]_vars => BytesWritten'
<1> SUFFICES ASSUME IInv, IInv', BytesWritten, [Next]_vars,
                    NEW j \in inode_btmp', NEW k \in DOMAIN Content(j)'
             PROVE  Content(j)'[k] \in Byte
  BY DEF BytesWritten
<1>1. ASSUME j \in inode_btmp, Content(j)' = Content(j) PROVE Content(j)'[k] \in Byte
  BY <1>1 DEF BytesWritten
<1>2. DOMAIN Content(j)' = 1..table'[j].size /\ DOMAIN Content(j) = 1..table[j].size
  BY DEF Content
<1>3. \A i \in inode_btmp : table[i].size \in Nat
  BY ContentSeq DEF ContentsListed, ContentListed
<1>4. CASE UNCHANGED <<table, disk, inode_btmp>>
  BY <1>1, <1>4 DEF Content, ByteAt, BlockAt
<1>5. ASSUME NEW i \in Ino, i \notin inode_btmp, inode_btmp' = inode_btmp \cup {i},
             table'[i].size = 0, OthersKeep(i)
      PROVE  Content(j)'[k] \in Byte
  BY <1>1, <1>2, <1>5 DEF OthersKeep
<1>6. ASSUME NEW i \in Ino, i \in inode_btmp, inode_btmp' = inode_btmp \ {i}, OthersKeep(i)
      PROVE  Content(j)'[k] \in Byte
  BY <1>1, <1>6 DEF OthersKeep
<1>7. ASSUME NEW i \in Ino, NEW pos \in Nat, NEW cnt \in Nat, NEW d \in Byte, WriteEffect(i, pos, cnt, d)
      PROVE  Content(j)'[k] \in Byte
  <2>1. CASE j # i
    BY <1>1, <1>7, <2>1 DEF WriteEffect, OthersKeep
  <2>2. CASE j = i
    <3>1. /\ i \in inode_btmp /\ pos <= table[i].size
          /\ table'[i].size = IF pos + cnt > table[i].size THEN pos + cnt ELSE table[i].size
          /\ Content(i)'[k] = IF k \in (pos + 1)..(pos + cnt) THEN d ELSE Content(i)[k]
      BY <1>7, <2>2 DEF WriteEffect, Overwritten
    <3>2. k \in (pos + 1)..(pos + cnt) \/ k \in 1..table[i].size
      BY <1>2, <1>3, <2>2, <3>1
    <3>3. k \in 1..table[i].size => Content(i)[k] \in Byte
      BY <1>2, <2>2, <3>1 DEF BytesWritten
    <3> QED BY <2>2, <3>1, <3>2, <3>3
  <2> QED BY <2>1, <2>2
<1>8. CASE EraseEffect(Root, Dirent)
  <2>1. CASE j # Root
    BY <1>1, <1>8, <2>1 DEF EraseEffect, OthersKeep
  <2>2. CASE j = Root
    <3>1. /\ Root \in inode_btmp /\ table'[Root].size = table[Root].size - Dirent
          /\ k \in 1..table'[Root].size /\ Content(Root)'[k] = Content(Root)[k]
      BY <1>2, <1>8, <2>2 DEF EraseEffect
    <3>2. k \in 1..table[Root].size
      BY <1>3, <3>1, Sizes
    <3> QED BY <1>2, <2>2, <3>1, <3>2 DEF BytesWritten
  <2> QED BY <2>1, <2>2
<1> QED BY <1>4, <1>5, <1>6, <1>7, <1>8, StepHasEffect

\* What happens to one file is a step of AbstractFiles.
LEMMA OneFile ==
    ASSUME NEW i \in Ino, OthersKeep(i), NEW was, NEW now,
           inode_btmp' \ {i} = inode_btmp \ {i},
           was = IF i \in inode_btmp THEN Content(i) ELSE Absent,
           now = IF i \in inode_btmp' THEN Content(i)' ELSE Absent,
           now = was \/ Files!Create(was, now) \/ Files!Remove(was, now)
              \/ Files!Write(was, now) \/ Files!Truncate(was, now)
    PROVE  Files!Next \/ Stored' = Stored
<1>1. Stored[i] = was /\ Stored'[i] = now
  BY DEF Stored
<1>2. \A j \in Ino \ {i} : Stored'[j] = Stored[j]
  BY DEF Stored, OthersKeep
<1>3. Stored' = [Stored EXCEPT ![i] = now]
  <2>1. \A j \in Ino : Stored'[j] = IF j = i THEN now ELSE Stored[j]
    BY <1>1, <1>2
  <2>2. Stored = [j \in Ino |-> Stored[j]] /\ Stored' = [j \in Ino |-> Stored'[j]]
    BY DEF Stored
  <2> HIDE DEF Stored
  <2> QED BY <2>1, <2>2
<1>4. CASE now = was
  <2>1. Stored = [j \in Ino |-> Stored[j]]
    BY DEF Stored
  <2> QED BY <1>1, <1>3, <1>4, <2>1
<1>5. CASE now # was
  BY <1>1, <1>3, <1>5 DEF Files!Next
<1> QED BY <1>4, <1>5

\* Each effect is a step of AbstractFiles, or none.
LEMMA EffectIsStep ==
    ASSUME IInv, IInv', BytesWritten, BytesWritten', [Next]_vars
    PROVE  Files!Next \/ Stored' = Stored
<1>1. ContentsListed /\ ContentsListed'
  BY ContentSeq, PTL
<1>2. \A j \in inode_btmp' : /\ table'[j].size \in Nat /\ Content(j)' \in Seq(Byte)
                             /\ Len(Content(j)') = table'[j].size /\ Content(j)' # Absent
  BY <1>1 DEF ContentsListed, ContentListed, Absent
<1>3. \A j \in inode_btmp : /\ table[j].size \in Nat /\ Content(j) \in Seq(Byte)
                            /\ Len(Content(j)) = table[j].size /\ Content(j) # Absent
  BY <1>1 DEF ContentsListed, ContentListed
<1>4. CASE UNCHANGED <<table, disk, inode_btmp>>
  BY <1>4 DEF Stored, Content, ByteAt, BlockAt
<1>5. ASSUME NEW i \in Ino, i \notin inode_btmp, inode_btmp' = inode_btmp \cup {i},
             table'[i].size = 0, OthersKeep(i)
      PROVE  Files!Next \/ Stored' = Stored
  <2>1. Content(i)' = << >>
    BY <1>2, <1>5, EmptySeq
  <2>2. Files!Create(Absent, Content(i)')
    BY <2>1 DEF Files!Create
  <2> QED BY <1>5, <2>2, OneFile
<1>6. ASSUME NEW i \in Ino, i \in inode_btmp, inode_btmp' = inode_btmp \ {i}, OthersKeep(i)
      PROVE  Files!Next \/ Stored' = Stored
  <2>1. Files!Remove(Content(i), Absent)
    BY <1>3, <1>6 DEF Files!Remove
  <2> QED BY <1>6, <2>1, OneFile
<1>7. ASSUME NEW i \in Ino, NEW pos \in Nat, NEW cnt \in Nat, NEW d \in Byte, WriteEffect(i, pos, cnt, d)
      PROVE  Files!Next \/ Stored' = Stored
  <2> DEFINE was == Content(i)
             now == Content(i)'
  <2>1. /\ i \in inode_btmp /\ inode_btmp' = inode_btmp /\ OthersKeep(i)
        /\ cnt <= MaxSize /\ pos <= table[i].size
        /\ table'[i].size = IF pos + cnt > table[i].size THEN pos + cnt ELSE table[i].size
        /\ Overwritten(was, now, pos, cnt, d)
    BY <1>7 DEF WriteEffect
  <2>2. /\ was \in Seq(Byte) /\ now \in Seq(Byte) /\ was # Absent /\ now # Absent
        /\ Len(was) = table[i].size /\ Len(now) = table'[i].size /\ Len(was) \in Nat /\ Len(now) \in Nat
    BY <1>2, <1>3, <2>1
  <2> HIDE DEF was, now
  <2>3. \A k \in 1..Len(now) : now[k] = IF k \in (pos + 1)..(pos + cnt) THEN d ELSE was[k]
    BY <2>1, <2>2, LenProperties DEF Overwritten
  <2>4. CASE cnt = 0
    <3>1. Len(now) = Len(was)
      BY <2>1, <2>2, <2>4
    <3>2. \A k \in 1..Len(now) : now[k] = was[k]
      BY <2>1, <2>2, <2>3, <2>4
    <3>3. now = was
      BY <2>2, <3>1, <3>2, SeqEqual
    <3> QED BY <2>1, <3>3, OneFile DEF was, now
  <2>5. CASE cnt # 0
    <3>1. pos \in 0..Len(was) /\ cnt \in 1..MaxSize /\ Len(now) = IF pos + cnt > Len(was) THEN pos + cnt ELSE Len(was)
      BY <2>1, <2>2, <2>5, Sizes
    <3>2. Files!Write(was, now)
      BY <2>2, <2>3, <3>1 DEF Files!Write
    <3> QED BY <2>1, <3>2, OneFile DEF was, now
  <2> QED BY <2>4, <2>5
<1>8. CASE EraseEffect(Root, Dirent)
  <2> DEFINE was == Content(Root)
             now == Content(Root)'
  <2>1. /\ Root \in inode_btmp /\ inode_btmp' = inode_btmp /\ OthersKeep(Root)
        /\ Dirent <= table[Root].size /\ table'[Root].size = table[Root].size - Dirent
        /\ \A k \in 1..table'[Root].size : now[k] = was[k]
    BY <1>8 DEF EraseEffect
  <2>2. /\ was \in Seq(Byte) /\ now \in Seq(Byte) /\ was # Absent /\ now # Absent
        /\ Len(was) = table[Root].size /\ Len(now) = table'[Root].size /\ Len(was) \in Nat /\ Len(now) \in Nat
    BY <1>2, <1>3, <2>1
  <2> HIDE DEF was, now
  <2>3. Dirent \in 0..Len(was) /\ Len(now) = Len(was) - Dirent
    BY <2>1, <2>2, Sizes
  <2> DEFINE cut == SubSeq(was, 1, Len(was) - Dirent)
  <2>4. \A k \in 1..(Len(was) - Dirent) : was[k] \in Byte
    BY <2>2, <2>3, LenProperties
  <2>5. /\ cut \in Seq(Byte) /\ Len(cut) = Len(now)
        /\ \A k \in 1..Len(now) : cut[k] = was[k]
    <3>1. Len(was) - Dirent \in Nat
      BY <2>2, <2>3
    <3>2. /\ cut \in Seq(Byte)
          /\ Len(cut) = IF 1 <= Len(was) - Dirent THEN (Len(was) - Dirent) - 1 + 1 ELSE 0
          /\ \A k \in 1..((Len(was) - Dirent) - 1 + 1) : cut[k] = was[1 + k - 1]
      BY <2>4, <3>1, SubSeqProperties
    <3>3. \A k \in 1..((Len(was) - Dirent) - 1 + 1) : 1 + k - 1 = k
      OBVIOUS
    <3> HIDE DEF cut
    <3>4. \A k \in 1..Len(now) : k \in 1..((Len(was) - Dirent) - 1 + 1)
      BY <2>3, <3>1
    <3>5. Len(cut) = Len(now)
      BY <2>3, <3>1, <3>2
    <3>6. \A k \in 1..Len(now) : cut[k] = was[k]
      BY <3>2, <3>3, <3>4
    <3> QED BY <3>2, <3>5, <3>6
  <2> HIDE DEF cut
  <2>6. now = cut
    <3>1. \A k \in 1..Len(now) : now[k] = cut[k]
      BY <2>1, <2>2, <2>5
    <3> QED BY <2>2, <2>5, <3>1, SeqEqual
  <2>7. Files!Truncate(was, now)
    BY <2>2, <2>3, <2>6 DEF Files!Truncate, cut
  <2> QED BY <2>1, <2>7, OneFile, Sizes DEF was, now
<1> QED BY <1>4, <1>5, <1>6, <1>7, <1>8, StepHasEffect

\* The partition behaves as a set of files, each a sequence of bytes of its own: a
\* call changes one file and only where it says, and a power failure in inode_write
\* makes it a shorter write (inode.c:377-484, 553-707).
THEOREM Refinement == Spec => ImplementsFiles
<1>1. Init => BytesWritten /\ Files!Init
  <2> SUFFICES ASSUME Init PROVE BytesWritten /\ Files!Init
    OBVIOUS
  <2>1. Min(Byte) \in Byte
    <3>1. Byte \in SUBSET Nat /\ Byte # {}
      BY InodeAssumption
    <3> QED BY <3>1, LeastNat DEF Min
  <2>2. /\ inode_btmp = {Root} /\ table[Root] = RootNode /\ Root \in Ino
        /\ RootNode.size = Dirent /\ RootNode.block[0] = 1 /\ 1 \in Lba
    BY Sizes DEF Init, RootNode, EmptyNode
  <2>3. \A k \in 1..Dirent : (k - 1) \div BlockSize = 0 /\ (k - 1) % BlockSize = k - 1 /\ k - 1 \in Offset
    <3>1. Dirent \in 1..BlockSize /\ BlockSize \in Nat \ {0}
      BY InodeAssumption
    <3> QED BY <3>1, SMTT(20) DEF Offset
  <2>4. \A k \in 1..Dirent : ByteAt(table[Root], k - 1) = Min(Byte)
    <3> TAKE k \in 1..Dirent
    <3>1. ByteAt(table[Root], k - 1) = disk[1][k - 1]
      BY <2>2, <2>3 DEF ByteAt, BlockAt
    <3>2. disk[1][k - 1] = IF k - 1 < Dirent THEN Min(Byte) ELSE 0
      BY <2>2, <2>3 DEF Init
    <3> QED BY <3>1, <3>2, Sizes
  <2>5. Content(Root) = [k \in 1..Dirent |-> Min(Byte)]
    BY <2>2, <2>4 DEF Content
  <2> QED BY <2>1, <2>2, <2>5 DEF BytesWritten, Files!Init, Stored, Formatted
<1>2. IInv /\ IInv' /\ BytesWritten /\ [Next]_vars => BytesWritten'
  BY BytesStayWritten
<1>3. IInv /\ IInv' /\ BytesWritten /\ BytesWritten' /\ [Next]_vars => [Files!Next]_Stored
  BY EffectIsStep
<1> QED BY <1>1, <1>2, <1>3, Invariance, PTL DEF Spec, ImplementsFiles, Files!Spec

-----------------------------------------------------------------------------
(* The tree of names.                                                       *)

EntryType == [name : Name, ino : Ino, type : {"file", "dir"}]
TreeTyped ==
    /\ kind \in [Ino -> {"free", "file", "dir"}] /\ up \in [Ino -> Ino]
    /\ dir \in [Ino -> Seq(EntryType)] /\ kind[Root] = "dir"

\* An entry is in a directory and has an inode with its type, and no inode has two.
EntriesSound ==
    \A d \in Ino : \A k \in DOMAIN dir[d] :
        /\ kind[d] = "dir" /\ dir[d][k].ino # Root
        /\ kind[dir[d][k].ino] = dir[d][k].type
        /\ dir[d][k].type = "dir" => up[dir[d][k].ino] = d
EntriesOnce ==
    \A d, c \in Ino : \A k \in DOMAIN dir[d], m \in DOMAIN dir[c] :
        dir[d][k].ino = dir[c][m].ino => d = c /\ k = m
InodesNamed ==
    \A i \in Ino \ {Root} : kind[i] # "free" => \E d \in Ino : Named(d, i)

\* Every directory has a depth, one more than that of its parent.
IsDepth(r) == /\ r \in [Ino -> Nat] /\ r[Root] = 0
              /\ \A i \in Dirs \ {Root} : r[i] = r[up[i]] + 1
Ranked == \E r : IsDepth(r)

TreeInv == TreeTyped /\ EntriesSound /\ EntriesOnce /\ InodesNamed /\ Ranked

\* What the assumption says of the inodes.
LEMMA InodeNumbers ==
    /\ Inodes \in Nat \ {0} /\ Root \in Ino /\ Ino \subseteq Nat
    /\ IsFiniteSet(Ino) /\ Cardinality(Ino) = Inodes /\ None \notin Ino
<1>1. Inodes \in Nat \ {0}
  BY FilesAssumption
<1>2. IsFiniteSet(0..(Inodes - 1)) /\ Cardinality(0..(Inodes - 1)) = Inodes
  BY <1>1, FS_Interval
<1> QED BY <1>1, <1>2 DEF Ino, Root, None

\* Lowest is the least member.
LEMMA LowestLeast ==
    ASSUME NEW S \in SUBSET Nat, S # {}
    PROVE  Lowest(S) \in S /\ \A y \in S : Lowest(S) <= y
BY LeastNat DEF Lowest

\* An entry has a position and its parts.
LEMMA EntryParts ==
    ASSUME TreeTyped, NEW d \in Ino
    PROVE  /\ dir[d] \in Seq(EntryType) /\ Len(dir[d]) \in Nat
           /\ DOMAIN dir[d] = 1..Len(dir[d])
           /\ \A k \in DOMAIN dir[d] : /\ k \in Nat /\ dir[d][k] \in EntryType /\ dir[d][k].ino \in Ino
                                       /\ dir[d][k].type \in {"file", "dir"}
<1>1. dir[d] \in Seq(EntryType)
  BY DEF TreeTyped
<1>2. \A k \in DOMAIN dir[d] : k \in Nat /\ dir[d][k] \in EntryType
  BY <1>1
<1> QED BY <1>1, <1>2 DEF EntryType

\* What a search finds is the inode of an entry with the type (dir.c:170-213).
LEMMA SearchFinds ==
    ASSUME TreeInv, NEW d \in Dirs, NEW name, NEW type, Search(d, name, type) # None
    PROVE  /\ d \in Ino /\ Search(d, name, type) \in Ino \ {Root}
           /\ kind[Search(d, name, type)] = type
           /\ \E k \in DOMAIN dir[d] : dir[d][k].ino = Search(d, name, type)
<1>1. d \in Ino /\ TreeTyped /\ EntriesSound
  BY DEF Dirs, TreeInv
<1>2. Match(d, name, type) # {} /\ Match(d, name, type) \in SUBSET Nat
  BY <1>1, EntryParts DEF Search, Match
<1> DEFINE k == Lowest(Match(d, name, type))
<1>3. k \in Match(d, name, type)
  BY <1>2, LowestLeast
<1> HIDE DEF k
<1>4. k \in DOMAIN dir[d] /\ dir[d][k].type = type
  BY <1>3 DEF Match
<1>5. Search(d, name, type) = dir[d][k].ino
  BY <1>2 DEF Search, k
<1>6. dir[d][k].ino \in Ino
  BY <1>1, <1>4, EntryParts
<1> QED BY <1>1, <1>4, <1>5, <1>6 DEF EntriesSound

\* The parent of a directory is a directory that has an entry for it.
LEMMA ParentNames ==
    ASSUME TreeInv, NEW i \in Dirs \ {Root}
    PROVE  up[i] \in Dirs /\ Named(up[i], i)
<1>1. i \in Ino /\ kind[i] = "dir" /\ TreeTyped /\ EntriesSound
  BY DEF Dirs, TreeInv
<1>2. PICK d \in Ino : Named(d, i)
  BY <1>1 DEF TreeInv, InodesNamed
<1>3. PICK k \in DOMAIN dir[d] : dir[d][k].ino = i
  BY <1>2 DEF Named
<1>4. up[i] = d /\ kind[d] = "dir"
  BY <1>1, <1>3 DEF EntriesSound
<1> QED BY <1>2, <1>4 DEF Dirs

\* An inode that is free, or a file, has no entries and is nobody's parent.
LEMMA NoEntries ==
    ASSUME TreeInv, NEW i \in Ino, kind[i] # "dir"
    PROVE  /\ dir[i] = << >> /\ i # Root
           /\ \A j \in Dirs \ {Root} : up[j] # i
<1>1. TreeTyped /\ EntriesSound
  BY DEF TreeInv
<1>2. DOMAIN dir[i] = {} /\ DOMAIN dir[i] = 1..Len(dir[i]) /\ Len(dir[i]) \in Nat
  BY <1>1, EntryParts DEF EntriesSound
<1>3. Len(dir[i]) = 0
  <2>1. \A n \in Nat : 1..n = {} => n = 0
    <3> SUFFICES ASSUME NEW n \in Nat, n # 0 PROVE 1..n # {}
      OBVIOUS
    <3>1. 1 \in 1..n
      OBVIOUS
    <3> QED BY <3>1
  <2> QED BY <1>2, <2>1
<1>4. dir[i] = << >>
  BY <1>1, <1>3, EntryParts
<1>5. \A j \in Dirs \ {Root} : up[j] # i
  BY ParentNames DEF Dirs
<1> QED BY <1>1, <1>4, <1>5 DEF TreeTyped

\* inode_acquire with dir_install keeps the tree (dir.c:302-308).
LEMMA InstallTree ==
    ASSUME TreeInv, NEW d \in Dirs, NEW name \in Name, NEW type \in {"file", "dir"},
           NEW i \in Ino, Install(d, i, name, type)
    PROVE  TreeInv' /\ kind[i] = "free" /\ \A j \in Ino \ {i} : kind'[j] = kind[j]
<1>1. TreeTyped /\ EntriesSound /\ EntriesOnce /\ InodesNamed /\ d \in Ino /\ kind[d] = "dir"
  BY DEF TreeInv, Dirs
<1> DEFINE frees == {j \in Ino : kind[j] = "free"}
           new == [name |-> name, ino |-> i, type |-> type]
           old == dir[d]
<1>2. /\ kind' = [kind EXCEPT ![i] = type]
      /\ up' = [up EXCEPT ![i] = IF type = "dir" THEN d ELSE Root]
      /\ dir' = [dir EXCEPT ![d] = Append(old, new)]
  BY DEF Install
<1>3. kind[i] = "free"
  <2>1. frees # {} /\ frees \in SUBSET Nat /\ i = Lowest(frees)
    BY InodeNumbers DEF Install
  <2>2. i \in frees
    <3> HIDE DEF frees
    <3> QED BY <2>1, LowestLeast
  <2> QED BY <2>2
<1>4. /\ i # d /\ i # Root /\ dir[i] = << >> /\ \A j \in Dirs \ {Root} : up[j] # i
  BY <1>1, <1>3, NoEntries
<1>5. new \in EntryType /\ old \in Seq(EntryType) /\ Len(old) \in Nat /\ DOMAIN old = 1..Len(old)
  BY <1>1, EntryParts DEF EntryType
<1> HIDE DEF old
<1>6. /\ Append(old, new) \in Seq(EntryType) /\ Len(Append(old, new)) = Len(old) + 1
      /\ \A k \in DOMAIN old : Append(old, new)[k] = old[k]
      /\ Append(old, new)[Len(old) + 1] = new
      /\ DOMAIN Append(old, new) = DOMAIN old \cup {Len(old) + 1}
  <2> HIDE DEF new
  <2> QED BY <1>5, AppendProperties
<1>7. /\ \A c \in Ino \ {d} : dir'[c] = dir[c]
      /\ dir'[d] = Append(old, new)
      /\ \A j \in Ino \ {i} : kind'[j] = kind[j] /\ up'[j] = up[j]
      /\ kind'[i] = type /\ (type = "dir" => up'[i] = d)
  BY <1>1, <1>2 DEF TreeTyped
<1> DEFINE last == Len(old) + 1
<1>8. /\ \A c \in Ino : \A k \in DOMAIN dir'[c] :
             (k \in DOMAIN dir[c] /\ dir'[c][k] = dir[c][k])
             \/ (c = d /\ k = last /\ dir'[c][k] = new)
      /\ \A c \in Ino : \A k \in DOMAIN dir[c] : k \in DOMAIN dir'[c] /\ dir'[c][k] = dir[c][k]
      /\ last \in DOMAIN dir'[d] /\ dir'[d][last] = new
  <2> DEFINE grown == Append(old, new)
  <2>1. /\ dir'[d] = grown /\ grown[last] = new /\ \A k \in DOMAIN old : grown[k] = old[k]
        /\ DOMAIN grown = DOMAIN old \cup {last}
    BY <1>6, <1>7
  <2> HIDE DEF grown, last, new
  <2> QED BY <1>1, <1>7, <2>1 DEF old
<1>9. \A c \in Ino : \A k \in DOMAIN dir[c] : dir[c][k].ino \in Ino \ {i} /\ dir[c][k].type # "free"
  BY <1>1, <1>3, EntryParts DEF EntriesSound
<1>10. new.ino = i /\ new.type = type
  OBVIOUS
<1> HIDE DEF last, new
<1>11. TreeTyped'
  <2>1. dir' \in [Ino -> Seq(EntryType)]
    BY <1>1, <1>2, <1>6 DEF TreeTyped
  <2>2. kind' \in [Ino -> {"free", "file", "dir"}] /\ up' \in [Ino -> Ino] /\ kind'[Root] = "dir"
    BY <1>1, <1>2, <1>4, <1>7, InodeNumbers DEF TreeTyped
  <2> QED BY <2>1, <2>2 DEF TreeTyped, Ino, EntryType, Root
<1>12. EntriesSound'
  <2>1. ASSUME NEW c \in Ino, NEW k \in DOMAIN dir'[c]
        PROVE  /\ kind'[c] = "dir" /\ dir'[c][k].ino # Root
               /\ kind'[dir'[c][k].ino] = dir'[c][k].type
               /\ dir'[c][k].type = "dir" => up'[dir'[c][k].ino] = c
    <3>1. CASE k \in DOMAIN dir[c] /\ dir'[c][k] = dir[c][k]
      <4>1. c # i
        BY <1>1, <1>3, <3>1 DEF EntriesSound
      <4> QED BY <1>1, <1>7, <1>9, <3>1, <4>1 DEF EntriesSound
    <3>2. CASE c = d /\ k = last /\ dir'[c][k] = new
      BY <1>1, <1>4, <1>7, <1>10, <3>2
    <3> QED BY <1>8, <2>1, <3>1, <3>2
  <2> QED BY <2>1 DEF EntriesSound, Ino, Root
<1>13. EntriesOnce'
  <2>1. ASSUME NEW a \in Ino, NEW c \in Ino, NEW k \in DOMAIN dir'[a], NEW m \in DOMAIN dir'[c],
               dir'[a][k].ino = dir'[c][m].ino
        PROVE  a = c /\ k = m
    BY <1>1, <1>8, <1>9, <1>10, <2>1 DEF EntriesOnce
  <2> QED BY <2>1 DEF EntriesOnce, Ino
<1>14. InodesNamed'
  <2>1. ASSUME NEW j \in Ino \ {Root}, kind'[j] # "free"
        PROVE  \E c \in Ino : \E k \in DOMAIN dir'[c] : dir'[c][k].ino = j
    <3>1. CASE j = i
      BY <1>1, <1>8, <1>10, <3>1
    <3>2. CASE j # i
      <4>1. PICK c \in Ino : \E k \in DOMAIN dir[c] : dir[c][k].ino = j
        BY <1>1, <1>7, <2>1, <3>2 DEF InodesNamed, Named
      <4> QED BY <1>8, <4>1
    <3> QED BY <3>1, <3>2
  <2> QED BY <2>1 DEF InodesNamed, Named, Ino, Root
<1>15. Ranked'
  <2>1. PICK r : IsDepth(r)
    BY DEF TreeInv, Ranked
  <2>2. r \in [Ino -> Nat] /\ r[Root] = 0 /\ \A j \in Dirs \ {Root} : r[j] = r[up[j]] + 1
    BY <2>1 DEF IsDepth
  <2> DEFINE q == [r EXCEPT ![i] = r[d] + 1]
  <2>3. /\ q \in [Ino -> Nat] /\ q[i] = r[d] + 1 /\ \A j \in Ino \ {i} : q[j] = r[j]
    BY <1>1, <2>2
  <2> HIDE DEF q
  <2>4. q[Root] = 0
    BY <1>4, <2>2, <2>3, InodeNumbers
  <2>5. ASSUME NEW j \in Ino \ {Root}, kind'[j] = "dir" PROVE q[j] = q[up'[j]] + 1
    <3>1. CASE j = i
      BY <1>1, <1>4, <1>7, <2>3, <2>5, <3>1
    <3>2. CASE j # i
      <4>1. j \in Dirs \ {Root} /\ up'[j] = up[j]
        BY <1>7, <2>5, <3>2 DEF Dirs
      <4>2. up[j] \in Ino \ {i}
        BY <1>1, <1>4, <4>1 DEF TreeTyped, Dirs
      <4> QED BY <2>2, <2>3, <3>2, <4>1, <4>2
    <3> QED BY <3>1, <3>2
  <2>6. IsDepth(q)'
    BY <2>3, <2>4, <2>5 DEF IsDepth, Dirs, Ino, Root
  <2> QED BY <2>6 DEF Ranked
<1> QED BY <1>3, <1>7, <1>11, <1>12, <1>13, <1>14, <1>15 DEF TreeInv

\* The sequence of dir_uninstall: the last entry at the place of the one that goes;
\* and where each entry has been.
Closed(s, k) == Front([s EXCEPT ![k] = Last(s)])
OldPlace(s, k, m) == IF m = k THEN Len(s) ELSE m

\* All entries stay but the one that goes.
LEMMA LastMoved ==
    ASSUME NEW S, NEW s \in Seq(S), NEW k \in 1..Len(s)
    PROVE  /\ Closed(s, k) \in Seq(S) /\ Len(Closed(s, k)) = Len(s) - 1
           /\ DOMAIN Closed(s, k) = 1..(Len(s) - 1)
           /\ \A m \in DOMAIN Closed(s, k) :
                 /\ OldPlace(s, k, m) \in 1..Len(s) \ {k}
                 /\ Closed(s, k)[m] = s[OldPlace(s, k, m)]
           /\ \A m, n \in DOMAIN Closed(s, k) : OldPlace(s, k, m) = OldPlace(s, k, n) => m = n
           /\ \A n \in 1..Len(s) : n # k => \E m \in DOMAIN Closed(s, k) : OldPlace(s, k, m) = n
<1> DEFINE n == Len(s)
           u == [s EXCEPT ![k] = s[n]]
           t == SubSeq(u, 1, n - 1)
           g(m) == OldPlace(s, k, m)
<1>1. n \in Nat /\ n >= 1 /\ s[n] \in S /\ Last(s) = s[n]
  BY DEF Last
<1>2. u \in Seq(S) /\ Len(u) = n /\ \A j \in 1..n : u[j] = IF j = k THEN s[n] ELSE s[j]
  BY <1>1, ExceptSeq
<1>3. Closed(s, k) = t
  BY <1>1, <1>2 DEF Front, Closed
<1> HIDE DEF u, n
<1>4. \A i \in 1..(n - 1) : u[i] \in S
  BY <1>1, <1>2 DEF n
<1>5. t \in Seq(S) /\ Len(t) = n - 1 /\ \A i \in 1..(n - 1) : t[i] = u[i]
  <2>1. /\ t \in Seq(S) /\ Len(t) = IF 1 <= n - 1 THEN (n - 1) - 1 + 1 ELSE 0
        /\ \A i \in 1..((n - 1) - 1 + 1) : t[i] = u[1 + i - 1]
    BY <1>1, <1>4, SubSeqProperties
  <2> HIDE DEF t
  <2> QED BY <1>1, <2>1
<1> HIDE DEF t
<1>6. DOMAIN t = 1..(n - 1)
  BY <1>5
<1>7. \A m \in DOMAIN t : g(m) \in 1..n /\ g(m) # k /\ t[m] = s[g(m)]
  BY <1>1, <1>2, <1>5, <1>6 DEF n, OldPlace
<1>8. \A m, j \in DOMAIN t : g(m) = g(j) => m = j
  BY <1>1, <1>6 DEF OldPlace, n
<1>9. \A j \in 1..n : j # k => \E m \in DOMAIN t : g(m) = j
  <2> TAKE j \in 1..n
  <2> HAVE j # k
  <2>1. CASE j = n
    BY <1>1, <1>6, <2>1 DEF n, OldPlace
  <2>2. CASE j # n
    BY <1>1, <1>6, <2>2 DEF OldPlace, n
  <2> QED BY <2>1, <2>2
<1> QED BY <1>3, <1>5, <1>6, <1>7, <1>8, <1>9 DEF n

\* inode_release with dir_uninstall keeps the tree, and frees one inode
\* (dir.c:310-337).
LEMMA UninstallTree ==
    ASSUME TreeInv, NEW d \in Dirs, NEW i \in Ino \ {Root}, Named(d, i), dir[i] = << >>, Uninstall(d, i)
    PROVE  TreeInv' /\ \A j \in Ino \ {i} : kind'[j] = kind[j]
<1>1. TreeTyped /\ EntriesSound /\ EntriesOnce /\ InodesNamed /\ d \in Ino /\ kind[d] = "dir"
  BY DEF TreeInv, Dirs
<1> DEFINE old == dir[d]
           spots == {k \in DOMAIN dir[d] : dir[d][k].ino = i}
           k0 == At(d, i)
           t == Closed(old, k0)
           g(k) == OldPlace(old, k0, k)
<1>2. old \in Seq(EntryType) /\ Len(old) \in Nat /\ DOMAIN old = 1..Len(old)
  BY <1>1, EntryParts
<1>3. k0 \in DOMAIN old /\ old[k0].ino = i
  <2>1. spots # {} /\ spots \in SUBSET Nat /\ k0 = Lowest(spots)
    BY <1>2 DEF Named, At
  <2>2. k0 \in spots
    <3> HIDE DEF spots, k0
    <3> QED BY <2>1, LowestLeast
  <2> QED BY <2>2
<1>4. /\ kind' = [kind EXCEPT ![i] = "free"] /\ up' = [up EXCEPT ![i] = Root]
      /\ dir' = [dir EXCEPT ![d] = t]
  BY DEF Uninstall, Closed
<1>5. /\ i # d
  <2>1. ASSUME i = d PROVE FALSE
    <3>1. DOMAIN old = {}
      BY <2>1
    <3> QED BY <1>3, <3>1
  <2> QED BY <2>1
<1> HIDE DEF k0, old
<1>6. /\ t \in Seq(EntryType) /\ Len(t) = Len(old) - 1 /\ DOMAIN t = 1..(Len(old) - 1)
      /\ \A m \in DOMAIN t : g(m) \in DOMAIN old /\ g(m) # k0 /\ t[m] = old[g(m)]
      /\ \A m, n \in DOMAIN t : g(m) = g(n) => m = n
      /\ \A n \in DOMAIN old : n # k0 => \E m \in DOMAIN t : g(m) = n
  <2>1. old \in Seq(EntryType) /\ k0 \in 1..Len(old)
    BY <1>2, <1>3
  <2>2. /\ t \in Seq(EntryType) /\ Len(t) = Len(old) - 1 /\ DOMAIN t = 1..(Len(old) - 1)
        /\ \A m \in DOMAIN t : g(m) \in 1..Len(old) \ {k0} /\ t[m] = old[g(m)]
        /\ \A m, n \in DOMAIN t : g(m) = g(n) => m = n
        /\ \A n \in 1..Len(old) : n # k0 => \E m \in DOMAIN t : g(m) = n
    BY <2>1, LastMoved
  <2> HIDE DEF t, g
  <2> QED BY <1>2, <2>2
<1> HIDE DEF t, g
<1>7. /\ \A c \in Ino \ {d} : dir'[c] = dir[c]
      /\ dir'[d] = t
      /\ \A j \in Ino \ {i} : kind'[j] = kind[j] /\ up'[j] = up[j]
      /\ kind'[i] = "free" /\ up'[i] = Root
  BY <1>1, <1>4 DEF TreeTyped
\* The place each entry has had.
<1> DEFINE was(c, k) == IF c = d THEN g(k) ELSE k
<1>8. \A c \in Ino : \A k \in DOMAIN dir'[c] :
          was(c, k) \in DOMAIN dir[c] /\ dir'[c][k] = dir[c][was(c, k)]
          /\ ~(c = d /\ was(c, k) = k0)
  BY <1>6, <1>7 DEF old
<1>9. \A c \in Ino : \A n \in DOMAIN dir[c] : ~(c = d /\ n = k0) =>
          \E k \in DOMAIN dir'[c] : was(c, k) = n
  BY <1>6, <1>7 DEF old
<1>10. \A c \in Ino : \A k, m \in DOMAIN dir'[c] : was(c, k) = was(c, m) => k = m
  BY <1>6, <1>7 DEF old
<1> HIDE DEF was
<1>11. \A c \in Ino : \A n \in DOMAIN dir[c] : dir[c][n].ino = i => c = d /\ n = k0
  BY <1>1, <1>3 DEF EntriesOnce, old
<1>12. TreeTyped'
  <2>1. dir' \in [Ino -> Seq(EntryType)]
    BY <1>1, <1>4, <1>6 DEF TreeTyped
  <2>2. kind' \in [Ino -> {"free", "file", "dir"}] /\ up' \in [Ino -> Ino] /\ kind'[Root] = "dir"
    BY <1>1, <1>4, <1>7, InodeNumbers DEF TreeTyped
  <2> QED BY <2>1, <2>2 DEF TreeTyped, Ino, EntryType, Root
<1>13. EntriesSound'
  <2>1. ASSUME NEW c \in Ino, NEW k \in DOMAIN dir'[c]
        PROVE  /\ kind'[c] = "dir" /\ dir'[c][k].ino # Root
               /\ kind'[dir'[c][k].ino] = dir'[c][k].type
               /\ dir'[c][k].type = "dir" => up'[dir'[c][k].ino] = c
    <3> DEFINE e == dir[c][was(c, k)]
    <3>1. was(c, k) \in DOMAIN dir[c] /\ dir'[c][k] = e /\ e.ino # i
      BY <1>8, <1>11, <2>1
    <3>2. c # i
      BY <3>1
    <3>3. e.ino \in Ino
      BY <1>1, <3>1, EntryParts
    <3>4. /\ kind[c] = "dir" /\ e.ino # Root /\ kind[e.ino] = e.type
          /\ e.type = "dir" => up[e.ino] = c
      BY <1>1, <3>1 DEF EntriesSound
    <3> HIDE DEF e
    <3> QED BY <1>7, <3>1, <3>2, <3>3, <3>4
  <2> QED BY <2>1 DEF EntriesSound, Ino, Root
<1>14. EntriesOnce'
  <2>1. ASSUME NEW a \in Ino, NEW c \in Ino, NEW k \in DOMAIN dir'[a], NEW m \in DOMAIN dir'[c],
               dir'[a][k].ino = dir'[c][m].ino
        PROVE  a = c /\ k = m
    <3>1. /\ was(a, k) \in DOMAIN dir[a] /\ dir'[a][k] = dir[a][was(a, k)]
          /\ was(c, m) \in DOMAIN dir[c] /\ dir'[c][m] = dir[c][was(c, m)]
      BY <1>8, <2>1
    <3>2. a = c /\ was(a, k) = was(c, m)
      BY <1>1, <2>1, <3>1 DEF EntriesOnce
    <3> QED BY <1>10, <2>1, <3>2
  <2> QED BY <2>1 DEF EntriesOnce, Ino
<1>15. InodesNamed'
  <2>1. ASSUME NEW j \in Ino \ {Root}, kind'[j] # "free"
        PROVE  \E c \in Ino : \E k \in DOMAIN dir'[c] : dir'[c][k].ino = j
    <3>1. j # i /\ kind[j] # "free"
      BY <1>7, <2>1
    <3>2. PICK c \in Ino : \E n \in DOMAIN dir[c] : dir[c][n].ino = j
      BY <1>1, <3>1 DEF InodesNamed, Named
    <3>3. PICK n \in DOMAIN dir[c] : dir[c][n].ino = j
      BY <3>2
    <3>4. ~(c = d /\ n = k0)
      BY <1>3, <3>1, <3>3 DEF old
    <3>5. PICK k \in DOMAIN dir'[c] : was(c, k) = n
      BY <1>9, <3>4
    <3>6. dir'[c][k] = dir[c][n]
      BY <1>8, <3>5
    <3> QED BY <3>3, <3>5, <3>6
  <2> QED BY <2>1 DEF InodesNamed, Named, Ino, Root
<1>16. Ranked'
  <2>1. PICK r : IsDepth(r)
    BY DEF TreeInv, Ranked
  <2>2. ASSUME NEW j \in Ino \ {Root}, kind'[j] = "dir" PROVE r[j] = r[up'[j]] + 1
    <3>1. j # i /\ j \in Dirs \ {Root} /\ up'[j] = up[j]
      BY <1>7, <2>2 DEF Dirs
    <3> QED BY <2>1, <3>1 DEF IsDepth
  <2>3. IsDepth(r)'
    BY <2>1, <2>2 DEF IsDepth, Dirs, Ino, Root
  <2> QED BY <2>3 DEF Ranked
<1> QED BY <1>7, <1>12, <1>13, <1>14, <1>15, <1>16 DEF TreeInv

\* Only the root is at depth 0, and the depth is less than the number of inodes.
LEMMA DepthBounded ==
    ASSUME TreeInv, NEW r, IsDepth(r), NEW i \in Dirs
    PROVE  r[i] \in Nat /\ r[i] < Inodes /\ (r[i] = 0 <=> i = Root)
<1>1. TreeTyped /\ i \in Ino /\ r \in [Ino -> Nat] /\ r[Root] = 0 /\ Dirs \subseteq Ino
  BY DEF TreeInv, Dirs, IsDepth
<1>2. \A j \in Dirs \ {Root} : up[j] \in Dirs /\ r[j] = r[up[j]] + 1 /\ r[up[j]] \in Nat
  BY <1>1, ParentNames DEF IsDepth
<1>3. r[i] = 0 <=> i = Root
  BY <1>1, <1>2
<1> DEFINE at(k) == {j \in Dirs : r[j] = k}
           bare == {m \in Nat : m <= r[i] /\ at(r[i] - m) = {}}
<1>4. bare = {}
  <2>1. SUFFICES ASSUME bare # {} PROVE FALSE
    OBVIOUS
  <2>2. PICK m \in bare : \A n \in bare : m <= n
    <3>1. bare \in SUBSET Nat
      OBVIOUS
    <3> HIDE DEF bare
    <3> QED BY <2>1, <3>1, LeastNat
  <2>3. m \in Nat /\ m <= r[i] /\ at(r[i] - m) = {}
    BY <2>2
  <2>4. m # 0
    <3>1. i \in at(r[i] - 0)
      BY <1>1
    <3> QED BY <2>3, <3>1
  <2>5. m - 1 \in Nat /\ m - 1 <= r[i] /\ m - 1 \notin bare
    BY <1>1, <2>2, <2>3, <2>4
  <2>6. PICK j \in Dirs : r[j] = r[i] - (m - 1)
    BY <2>5
  <2>7. r[j] # 0
    BY <1>1, <2>3, <2>6
  <2>8. j # Root
    BY <1>1, <2>7
  <2>9. up[j] \in Dirs /\ r[up[j]] = r[i] - m
    BY <1>1, <1>2, <2>3, <2>6, <2>8
  <2> QED BY <2>3, <2>9
<1>5. ASSUME r[i] >= Inodes PROVE FALSE
  <2> DEFINE f == [k \in 0..Inodes |-> CHOOSE j \in Dirs : r[j] = k]
  <2>1. ASSUME NEW k \in 0..Inodes PROVE f[k] \in Ino /\ r[f[k]] = k
    <3>1. k \in Nat /\ k <= r[i]
      BY <1>1, <1>5, <2>1, InodeNumbers
    <3>2. r[i] - k \in Nat /\ r[i] - k <= r[i] /\ r[i] - (r[i] - k) = k
      BY <1>1, <3>1
    <3>3. at(r[i] - (r[i] - k)) # {}
      BY <1>4, <3>2
    <3>4. \E j \in Dirs : r[j] = k
      BY <3>2, <3>3
    <3> QED BY <1>1, <3>4
  <2>2. f \in [0..Inodes -> Ino]
    <3>1. \A k \in 0..Inodes : f[k] \in Ino
      BY <2>1
    <3>2. f = [k \in 0..Inodes |-> f[k]]
      OBVIOUS
    <3> HIDE DEF f
    <3> QED BY <3>1, <3>2
  <2> HIDE DEF f
  <2>3. IsFiniteSet(0..Inodes) /\ Cardinality(0..Inodes) = Inodes + 1
    BY InodeNumbers, FS_Interval
  <2>4. Cardinality(Ino) < Cardinality(0..Inodes) /\ IsFiniteSet(Ino)
    BY <2>3, InodeNumbers
  <2>5. \E k, m \in 0..Inodes : k # m /\ f[k] = f[m]
    BY <2>2, <2>3, <2>4, FS_PigeonHole
  <2> QED BY <2>1, <2>5
<1> QED BY <1>1, <1>3, <1>5, InodeNumbers

\* What Climb defines by recursion is a function: there is one that has the values
\* its definition asks for.
LEMMA ClimbSteps ==
    ASSUME TreeTyped, NEW i \in Ino
    PROVE  /\ Climb(i)[0] = i
           /\ \A n \in 1..Inodes : Climb(i)[n] = ParentOf(Climb(i)[n - 1])
<1> DEFINE Steps(g, m) == /\ g \in [0..m -> Ino] /\ g[0] = i
                          /\ \A n \in 1..m : g[n] = ParentOf(g[n - 1])
           bare == {m \in Nat : ~\E g : Steps(g, m)}
<1>1. \A j \in Ino : ParentOf(j) \in Ino
  BY InodeNumbers DEF TreeTyped, ParentOf
<1>2. bare = {}
  <2>1. SUFFICES ASSUME bare # {} PROVE FALSE
    OBVIOUS
  <2>2. PICK m \in bare : \A n \in bare : m <= n
    <3>1. bare \in SUBSET Nat
      OBVIOUS
    <3> HIDE DEF bare
    <3> QED BY <2>1, <3>1, LeastNat
  <2>3. m \in Nat /\ ~\E g : Steps(g, m)
    BY <2>2
  <2>4. m # 0
    <3>1. Steps([n \in 0..0 |-> i], 0)
      OBVIOUS
    <3> HIDE DEF Steps
    <3> QED BY <2>3, <3>1
  <2>5. m - 1 \in Nat /\ m - 1 \notin bare
    BY <2>2, <2>3, <2>4
  <2>6. PICK g : Steps(g, m - 1)
    BY <2>5
  <2>7. g \in [0..(m - 1) -> Ino] /\ g[0] = i /\ \A n \in 1..(m - 1) : g[n] = ParentOf(g[n - 1])
    BY <2>6
  <2> DEFINE h == [n \in 0..m |-> IF n = m THEN ParentOf(g[m - 1]) ELSE g[n]]
  <2>8. \A n \in 0..m : h[n] \in Ino
    BY <1>1, <2>3, <2>4, <2>7
  <2>9. h \in [0..m -> Ino] /\ h[0] = i
    BY <2>3, <2>4, <2>7, <2>8
  <2>10. \A n \in 1..m : h[n] = ParentOf(h[n - 1])
    <3> TAKE n \in 1..m
    <3>1. n - 1 \in 0..m /\ n - 1 # m /\ n \in 0..m
      BY <2>3
    <3>2. h[n - 1] = g[n - 1]
      BY <3>1
    <3>3. CASE n = m
      BY <3>1, <3>2, <3>3
    <3>4. CASE n # m
      BY <2>3, <2>7, <3>1, <3>2, <3>4
    <3> QED BY <3>3, <3>4
  <2> HIDE DEF h
  <2> QED BY <2>3, <2>9, <2>10
<1>3. PICK g : Steps(g, Inodes)
  BY <1>2, InodeNumbers
<1> DEFINE Def(at) == [n \in 0..Inodes |-> IF n = 0 THEN i ELSE ParentOf(at[n - 1])]
<1>4. g = Def(g)
  <2>1. g \in [0..Inodes -> Ino] /\ g[0] = i /\ \A n \in 1..Inodes : g[n] = ParentOf(g[n - 1])
    BY <1>3
  <2>2. \A n \in 0..Inodes : n = 0 \/ n \in 1..Inodes
    BY InodeNumbers
  <2> QED BY <2>1, <2>2
<1>5. Climb(i) = CHOOSE at : at = Def(at)
  BY DEF Climb
<1>6. Climb(i) = Def(Climb(i))
  BY <1>4, <1>5
<1>7. Climb(i)[0] = i
  <2>1. 0 \in 0..Inodes
    BY InodeNumbers
  <2>2. Def(Climb(i))[0] = i
    BY <2>1
  <2> HIDE DEF Def
  <2> QED BY <1>6, <2>2
<1>8. ASSUME NEW n \in 1..Inodes PROVE Climb(i)[n] = ParentOf(Climb(i)[n - 1])
  <2>1. n \in 0..Inodes /\ n # 0
    BY InodeNumbers
  <2>2. Def(Climb(i))[n] = ParentOf(Climb(i)[n - 1])
    BY <2>1
  <2> HIDE DEF Def
  <2> QED BY <1>6, <2>2
<1> QED BY <1>7, <1>8

\* No directory has more entries than there are inodes.
LEMMA EntriesBounded ==
    ASSUME TreeInv, NEW d \in Ino
    PROVE  Len(dir[d]) <= Inodes
<1>1. TreeTyped /\ EntriesOnce
  BY DEF TreeInv
<1> DEFINE n == Len(dir[d])
           f == [k \in 1..n |-> dir[d][k].ino]
<1>2. n \in Nat /\ DOMAIN dir[d] = 1..n /\ \A k \in 1..n : dir[d][k].ino \in Ino
  BY <1>1, EntryParts
<1>3. f \in Injection(1..n, Ino)
  BY <1>1, <1>2 DEF Injection, IsInjective, EntriesOnce
<1> HIDE DEF f, n
<1>4. Cardinality(1..n) <= Cardinality(Ino)
  BY <1>3, InodeNumbers, FS_Injection
<1> QED BY <1>2, <1>4, InodeNumbers, FS_Interval DEF n

\* From a directory the climb gets to the root, one name at each step (dir.c:503-522).
LEMMA ClimbArrives ==
    ASSUME TreeInv, NEW i \in Dirs
    PROVE  /\ Climb(i)[Inodes] = Root
           /\ \A n \in 1..Inodes : Climb(i)[n - 1] # Root => Named(Climb(i)[n], Climb(i)[n - 1])
<1>1. TreeTyped /\ i \in Ino /\ Root \in Dirs
  BY InodeNumbers DEF TreeInv, TreeTyped, Dirs
<1> DEFINE c == Climb(i)
<1>2. c[0] = i /\ \A n \in 1..Inodes : c[n] = ParentOf(c[n - 1])
  BY <1>1, ClimbSteps
<1> HIDE DEF c
<1>3. PICK r : IsDepth(r)
  BY DEF TreeInv, Ranked
<1> DEFINE Good(n) == c[n] \in Dirs /\ r[c[n]] = IF n <= r[i] THEN r[i] - n ELSE 0
           bad == {n \in Nat : n <= Inodes /\ ~Good(n)}
<1>4. r[i] \in Nat /\ r[i] < Inodes
  BY <1>3, DepthBounded
<1>5. bad = {}
  <2>1. SUFFICES ASSUME bad # {} PROVE FALSE
    OBVIOUS
  <2>2. PICK n \in bad : \A m \in bad : n <= m
    <3>1. bad \in SUBSET Nat
      OBVIOUS
    <3> HIDE DEF bad
    <3> QED BY <2>1, <3>1, LeastNat
  <2>3. n \in Nat /\ n <= Inodes /\ ~Good(n)
    BY <2>2
  <2>4. n # 0
    <3>1. Good(0)
      BY <1>2, <1>4
    <3> QED BY <2>3, <3>1
  <2>5. n - 1 \in Nat /\ n - 1 <= Inodes /\ n - 1 \notin bad /\ n \in 1..Inodes
    BY <2>2, <2>3, <2>4, InodeNumbers
  <2>6. Good(n - 1)
    BY <2>5
  <2> DEFINE j == c[n - 1]
  <2>7. j \in Dirs /\ r[j] = (IF n - 1 <= r[i] THEN r[i] - (n - 1) ELSE 0) /\ c[n] = ParentOf(j)
    BY <1>2, <2>5, <2>6
  <2>8. r[j] \in Nat /\ (r[j] = 0 <=> j = Root)
    BY <1>3, <2>7, DepthBounded
  <2> HIDE DEF j
  <2>9. CASE j = Root
    <3>1. c[n] = Root /\ r[Root] = 0
      BY <1>3, <2>7, <2>9 DEF ParentOf, IsDepth
    <3>2. n > r[i] \/ n = r[i] + 1 \/ n - 1 > r[i]
      BY <1>4, <2>3, <2>5, <2>7, <2>8, <2>9
    <3>3. (IF n <= r[i] THEN r[i] - n ELSE 0) = 0
      BY <1>4, <2>3, <3>2
    <3> QED BY <1>1, <2>3, <3>1, <3>3
  <2>10. CASE j # Root
    <3>1. up[j] \in Dirs /\ r[j] = r[up[j]] + 1 /\ c[n] = up[j]
      BY <1>3, <2>7, <2>10, ParentNames DEF IsDepth, ParentOf
    <3>2. r[up[j]] \in Nat
      BY <1>3, <3>1, DepthBounded
    <3>3. r[up[j]] = IF n <= r[i] THEN r[i] - n ELSE 0
      BY <1>4, <2>3, <2>5, <2>7, <2>8, <2>10, <3>1, <3>2
    <3> QED BY <2>3, <3>1, <3>3
  <2> QED BY <2>9, <2>10
<1>6. \A n \in 0..Inodes : c[n] \in Dirs
  BY <1>5, InodeNumbers
<1>7. c[Inodes] = Root
  <2>1. Inodes \in Nat /\ Inodes \notin bad
    BY <1>5, InodeNumbers
  <2>2. c[Inodes] \in Dirs /\ r[c[Inodes]] = 0
    BY <1>4, <2>1
  <2> HIDE DEF bad
  <2> QED BY <1>3, <2>2, DepthBounded
<1>8. ASSUME NEW n \in 1..Inodes, c[n - 1] # Root PROVE Named(c[n], c[n - 1])
  <2>1. n - 1 \in 0..Inodes
    BY InodeNumbers
  <2>2. c[n - 1] \in Dirs \ {Root}
    BY <1>6, <1>8, <2>1
  <2>3. c[n] = up[c[n - 1]]
    BY <1>2, <1>8 DEF ParentOf
  <2> QED BY <2>2, <2>3, ParentNames
<1> QED BY <1>7, <1>8 DEF c

\* The invariant makes the names a tree.
LEMMA TreeIsExact == TreeInv => TreeExact
<1> SUFFICES ASSUME TreeInv PROVE TreeExact
  OBVIOUS
<1>1. TreeTyped /\ EntriesSound /\ EntriesOnce /\ InodesNamed
  BY DEF TreeInv
<1>2. \A e \in Entries : /\ e[1] \in Ino /\ e[2] \in DOMAIN dir[e[1]]
                         /\ e = <<e[1], e[2]>>
  BY DEF Entries
<1>3. ASSUME NEW e \in Entries
      PROVE  LET entry == dir[e[1]][e[2]]
             IN  /\ kind[e[1]] = "dir" /\ kind[entry.ino] = entry.type
                 /\ entry.type = "dir" => up[entry.ino] = e[1]
  BY <1>1, <1>2, <1>3 DEF EntriesSound
<1>4. ASSUME NEW i \in Ino \ {Root}, kind[i] # "free"
      PROVE  Cardinality({e \in Entries : dir[e[1]][e[2]].ino = i}) = 1
  <2>1. PICK d \in Ino : \E k \in DOMAIN dir[d] : dir[d][k].ino = i
    BY <1>1, <1>4 DEF InodesNamed, Named
  <2>2. PICK k \in DOMAIN dir[d] : dir[d][k].ino = i
    BY <2>1
  <2>3. k \in 1..Inodes
    <3>1. k \in 1..Len(dir[d]) /\ Len(dir[d]) \in Nat /\ Len(dir[d]) <= Inodes
      BY <1>1, EntryParts, EntriesBounded
    <3> QED BY <3>1, InodeNumbers
  <2>4. <<d, k>> \in Entries
    BY <2>2, <2>3 DEF Entries
  <2>5. \A e \in Entries : dir[e[1]][e[2]].ino = i => e = <<d, k>>
    BY <1>1, <1>2, <2>2 DEF EntriesOnce
  <2>6. {e \in Entries : dir[e[1]][e[2]].ino = i} = {<<d, k>>}
    BY <2>2, <2>4, <2>5
  <2> QED BY <2>6, FS_Singleton
<1>5. \A i \in Dirs : /\ Climb(i)[Inodes] = Root
                      /\ \A n \in 1..Inodes : Climb(i)[n - 1] # Root =>
                            Named(Climb(i)[n], Climb(i)[n - 1])
  BY ClimbArrives
<1> QED BY <1>3, <1>4, <1>5 DEF TreeExact

-----------------------------------------------------------------------------
(* Descriptors, slots and open counts.                                      *)

\* The descriptors that have a slot, before a step and after it.
Having(lists, procs, s) == {x \in procs \X Fd : lists[x[1]][x[2]] = s}
Holders(s) == Having(fds, live, s)
NewHolders(s) == Having(fds', live', s)

SlotType == [use : {"none", "file", "pipe"}, ino : Ino \cup {None}, pos : Nat]
FdsTyped ==
    /\ opens \in [Ino -> Nat] /\ IsFiniteSet(live) /\ live \subseteq Proc
    /\ fd_table \in [FileSlot -> SlotType]
    /\ fds \in [Proc -> [Fd -> FileSlot \cup {None}]] /\ std \in [Proc -> [Std -> FileSlot \cup Std]]

\* A slot has an inode if it has a file, and the inode counts it.
SlotsSound ==
    \A s \in FileSlot : LET i == fd_table[s].ino IN
        /\ fd_table[s].use = "file" => i \in Ino /\ kind[i] = "file"
        /\ fd_table[s].use # "file" => i = None
OpensCover == \A i \in Ino : Cardinality({s \in FileSlot : fd_table[s].ino = i}) <= opens[i]

\* Only processes have descriptors, and a redirection is to a slot of the process.
FdsOfLive == \A p \in Proc \ live : fds[p] = NoFds /\ std[p] = Console
StdBacked == \A p \in Proc : \A f \in Std : std[p][f] \in FileSlot => \E fd \in Fd : fds[p][fd] = std[p][f]

\* A slot that is not in use nobody has, a file one descriptor, a pipe as many as it counts.
HoldersCounted ==
    \A s \in FileSlot :
        /\ fd_table[s].use = "none" => Holders(s) = {}
        /\ fd_table[s].use = "file" => \A x, y \in Holders(s) : x = y
        /\ fd_table[s].use = "pipe" => Cardinality(Holders(s)) <= fd_table[s].pos

FdsInv == FdsTyped /\ SlotsSound /\ OpensCover /\ FdsOfLive /\ StdBacked /\ HoldersCounted

FilesInv == TreeInv /\ FdsInv

\* What the assumption says of slots and descriptors.
LEMMA SlotNumbers ==
    /\ FileSlot \subseteq Nat /\ Fd \subseteq Nat /\ IsFiniteSet(FileSlot) /\ IsFiniteSet(Fd)
    /\ None \notin FileSlot /\ None \notin Nat
    /\ FileSlot \cap Std = {} /\ Fd \cap Std = {}
<1>1. LastSlot \in Nat /\ LastFd \in Nat
  BY FilesAssumption
<1>2. IsFiniteSet(3..LastSlot) /\ IsFiniteSet(3..LastFd)
  BY <1>1, FS_Interval
<1> QED BY <1>1, <1>2 DEF FileSlot, Fd, Std, None

\* The holders of a slot are finitely many, and one who has it is among them.
LEMMA HoldersFinite ==
    ASSUME FdsTyped, NEW s
    PROVE  /\ IsFiniteSet(Holders(s)) /\ Holders(s) \subseteq live \X Fd
           /\ FdsOfLive /\ s \in FileSlot =>
                 \A p \in Proc : \A fd \in Fd : fds[p][fd] = s => p \in live /\ <<p, fd>> \in Holders(s)
<1>1. IsFiniteSet(live \X Fd)
  BY SlotNumbers, FS_Product DEF FdsTyped, SlotType
<1>2. Holders(s) \subseteq live \X Fd
  BY DEF Holders, Having
<1>3. ASSUME FdsOfLive, s \in FileSlot, NEW p \in Proc, NEW fd \in Fd, fds[p][fd] = s
      PROVE  p \in live /\ <<p, fd>> \in Holders(s)
  <2>1. p \in live
    BY <1>3, SlotNumbers DEF FdsOfLive, NoFds
  <2> QED BY <1>3, <2>1 DEF Holders, Having
<1> QED BY <1>1, <1>2, <1>3, FS_Subset

\* One process and a set of descriptors.
LEMMA OneProcess ==
    ASSUME NEW p, NEW F, IsFiniteSet(F)
    PROVE  IsFiniteSet({p} \X F) /\ Cardinality({p} \X F) = Cardinality(F)
<1>1. IsFiniteSet({p}) /\ Cardinality({p}) = 1
  BY FS_Singleton
<1>2. IsFiniteSet({p} \X F) /\ Cardinality({p} \X F) = Cardinality({p}) * Cardinality(F)
  BY <1>1, FS_Product
<1>3. Cardinality(F) \in Nat
  BY FS_CardinalityType
<1> QED BY <1>1, <1>2, <1>3

\* While descriptors, redirections and processes stay, so do the holders.
LEMMA HoldersSame ==
    ASSUME fds' = fds, std' = std, live' = live
    PROVE  /\ \A s : NewHolders(s) = Holders(s)
           /\ FdsOfLive => FdsOfLive'
           /\ StdBacked => StdBacked'
<1>1. \A s : NewHolders(s) = Holders(s)
  BY DEF NewHolders, Holders
<1>2. FdsOfLive => FdsOfLive'
  BY DEF FdsOfLive, NoFds, Console, Fd, Std, None
<1>3. StdBacked => StdBacked'
  BY DEF StdBacked, FileSlot, Fd, Std
<1> QED BY <1>1, <1>2, <1>3

\* What a step has to show of the holders it leaves.
LEMMA NewCounted ==
    ASSUME \A s \in FileSlot :
             /\ fd_table'[s].use = "none" => NewHolders(s) = {}
             /\ fd_table'[s].use = "file" => \A x, y \in NewHolders(s) : x = y
             /\ fd_table'[s].use = "pipe" => Cardinality(NewHolders(s)) <= fd_table'[s].pos
    PROVE  HoldersCounted'
BY DEF HoldersCounted, NewHolders, Holders, Having, FileSlot, Fd

\* The same for the slots.
LEMMA NewSound ==
    ASSUME \A s \in FileSlot :
             /\ fd_table'[s].use = "file" => fd_table'[s].ino \in Ino /\ kind'[fd_table'[s].ino] = "file"
             /\ fd_table'[s].use # "file" => fd_table'[s].ino = None
    PROVE  SlotsSound'
BY DEF SlotsSound, Ino, FileSlot, None

\* A process gets a slot for some descriptors.
GivenSlot(p, F, s) == fds' = [fds EXCEPT ![p] = [fd \in Fd |-> IF fd \in F THEN s ELSE fds[p][fd]]]

\* If they were free, they are the holders of the slot, and all else stays.
LEMMA SlotFilled ==
    ASSUME FdsInv, NEW p \in live, NEW s \in FreeSlots, NEW F \in SUBSET FreeFds(p),
           GivenSlot(p, F, s), std' = std, live' = live
    PROVE  /\ fds' \in [Proc -> [Fd -> FileSlot \cup {None}]] /\ FdsOfLive' /\ StdBacked'
           /\ NewHolders(s) = {p} \X F /\ \A z \in FileSlot \ {s} : NewHolders(z) = Holders(z)
<1>1. /\ FdsTyped /\ FdsOfLive /\ StdBacked /\ HoldersCounted /\ p \in Proc
      /\ s \in FileSlot /\ fd_table[s].use = "none"
  BY DEF FdsInv, FdsTyped, SlotType, FreeSlots
<1>2. /\ fds \in [Proc -> [Fd -> FileSlot \cup {None}]] /\ std \in [Proc -> [Std -> FileSlot \cup Std]]
  BY <1>1 DEF FdsTyped, SlotType
<1>3. F \subseteq Fd /\ \A fd \in F : fds[p][fd] = None
  BY DEF FreeFds
<1>4. \A fd \in Fd : fds'[p][fd] = IF fd \in F THEN s ELSE fds[p][fd]
  BY <1>1, <1>2 DEF GivenSlot
<1>5. \A q \in Proc \ {p} : fds'[q] = fds[q]
  BY <1>2 DEF GivenSlot
<1>6. fds' \in [Proc -> [Fd -> FileSlot \cup {None}]]
  BY <1>1, <1>2, <1>3 DEF GivenSlot
<1>7. FdsOfLive'
  <2>1. \A q \in Proc \ live : fds'[q] = NoFds /\ std'[q] = Console
    BY <1>1, <1>5 DEF FdsOfLive
  <2> QED BY <2>1 DEF FdsOfLive, NoFds, Console, Fd, Std, None
<1>8. StdBacked'
  <2>1. ASSUME NEW q \in Proc, NEW f \in Std, std'[q][f] \in FileSlot
        PROVE  \E fd \in Fd : fds'[q][fd] = std'[q][f]
    <3>1. PICK fd \in Fd : fds[q][fd] = std[q][f]
      BY <1>1, <2>1 DEF StdBacked
    <3>2. ~(q = p /\ fd \in F)
      BY <1>3, <2>1, <3>1, SlotNumbers
    <3> QED BY <1>4, <1>5, <3>1, <3>2
  <2> QED BY <2>1 DEF StdBacked, FileSlot, Fd, Std
<1>9. \A z : \A x : x \in NewHolders(z) <=> x \in live \X Fd /\ fds'[x[1]][x[2]] = z
  BY DEF NewHolders, Having
<1>10. Holders(s) = {}
  BY <1>1 DEF HoldersCounted
<1>11. \A x \in live \X Fd : fds'[x[1]][x[2]] = s <=> x \in {p} \X F
  <2> TAKE x \in live \X Fd
  <2>1. x = <<x[1], x[2]>> /\ x[1] \in live /\ x[1] \in Proc /\ x[2] \in Fd
    BY <1>1 DEF FdsTyped, SlotType
  <2>2. fds[x[1]][x[2]] # s
    BY <1>10 DEF Holders, Having
  <2>3. x \in {p} \X F <=> x[1] = p /\ x[2] \in F
    BY <2>1
  <2> QED BY <1>4, <1>5, <2>1, <2>2, <2>3
<1>12. \A z \in FileSlot \ {s} : \A x \in live \X Fd : fds'[x[1]][x[2]] = z <=> fds[x[1]][x[2]] = z
  <2> TAKE z \in FileSlot \ {s}
  <2> TAKE x \in live \X Fd
  <2>1. x[1] \in live /\ x[1] \in Proc /\ x[2] \in Fd
    BY <1>1 DEF FdsTyped, SlotType
  <2>2. CASE x[1] = p /\ x[2] \in F
    <3>1. fds'[p][x[2]] = s /\ fds[p][x[2]] = None
      BY <1>3, <1>4, <2>1, <2>2
    <3>2. z # s /\ z # None
      BY SlotNumbers
    <3> QED BY <2>2, <3>1, <3>2
  <2>3. CASE x[1] = p /\ x[2] \notin F
    BY <1>4, <2>1, <2>3
  <2>4. CASE x[1] # p
    BY <1>5, <2>1, <2>4
  <2> QED BY <2>2, <2>3, <2>4
<1>13. NewHolders(s) = {p} \X F
  <2>1. {p} \X F \subseteq live \X Fd
    BY <1>3
  <2>2. \A x : x \in NewHolders(s) <=> x \in {p} \X F
    BY <1>9, <1>11, <2>1
  <2> QED BY <2>2
<1>14. \A z \in FileSlot \ {s} : NewHolders(z) = Holders(z)
  <2> TAKE z \in FileSlot \ {s}
  <2>1. \A x : x \in NewHolders(z) <=> x \in Holders(z)
    BY <1>9, <1>12 DEF Holders, Having
  <2> QED BY <2>1
<1> QED BY <1>6, <1>7, <1>8, <1>13, <1>14

\* fd_acquire and task_install of a file (file.c:39-99).
LEMMA AcquireFds ==
    ASSUME FdsInv, NEW p \in live, NEW i \in Ino, FdAcquire(p, i), kind'[i] = "file",
           \A j \in Ino : kind[j] = "file" => kind'[j] = "file",
           std' = std, live' = live
    PROVE  FdsInv'
<1>1. FdsTyped /\ SlotsSound /\ OpensCover /\ FdsOfLive /\ StdBacked /\ HoldersCounted
  BY DEF FdsInv
<1>2. /\ opens' \in [Ino -> Nat] /\ opens'[i] = opens[i] + 1 /\ opens[i] \in Nat
      /\ \A j \in Ino \ {i} : opens'[j] = opens[j]
  BY <1>1 DEF FdAcquire, FdsTyped, SlotType
<1> DEFINE with(j) == {s \in FileSlot : fd_table[s].ino = j}
<1>3. \A j : IsFiniteSet(with(j)) /\ Cardinality(with(j)) \in Nat
  BY SlotNumbers, FS_Subset, FS_CardinalityType
<1>4. \A j \in Ino : Cardinality(with(j)) <= opens[j] /\ opens[j] \in Nat
  BY <1>1 DEF OpensCover, FdsTyped, SlotType
<1>5. CASE FreeSlots = {}
  <2>1. fd_table' = fd_table /\ fds' = fds
    BY <1>5 DEF FdAcquire
  <2>2. FdsTyped'
    BY <1>1, <1>2, <2>1 DEF FdsTyped, SlotType, Ino, FileSlot, Fd, Std, None
  <2>3. SlotsSound'
    BY NewSound, <1>1, <2>1 DEF SlotsSound
  <2>4. OpensCover'
    <3>1. \A j \in Ino : Cardinality(with(j)) <= opens'[j]
      <4> HIDE DEF with
      <4> QED BY <1>2, <1>3, <1>4
    <3> QED BY <2>1, <3>1 DEF OpensCover, Ino, FileSlot
  <2>5. FdsOfLive' /\ StdBacked' /\ \A s : NewHolders(s) = Holders(s)
    BY <1>1, <2>1, HoldersSame
  <2>6. HoldersCounted'
    BY <1>1, <2>1, <2>5, NewCounted DEF HoldersCounted
  <2> QED BY <2>2, <2>3, <2>4, <2>5, <2>6 DEF FdsInv
<1>6. CASE FreeSlots # {}
  <2> DEFINE s0 == Lowest(FreeSlots)
             new == [use |-> "file", ino |-> i, pos |-> 0]
  <2>1. s0 \in FreeSlots /\ s0 \in FileSlot /\ fd_table[s0].use = "none"
    <3>1. FreeSlots \in SUBSET Nat
      BY SlotNumbers DEF FreeSlots
    <3>2. Lowest(FreeSlots) \in FreeSlots
      BY <1>6, <3>1, LowestLeast
    <3> QED BY <3>2 DEF FreeSlots
  <2>2. fd_table' = [fd_table EXCEPT ![s0] = new]
    BY <1>6 DEF FdAcquire
  <2> HIDE DEF s0
  <2>3. PICK F \in SUBSET FreeFds(p) : (\A a, b \in F : a = b) /\ GivenSlot(p, F, s0)
    <3>1. fds \in [Proc -> [Fd -> FileSlot \cup {None}]] /\ p \in Proc
      BY <1>1 DEF FdsTyped, SlotType
    <3>2. CASE FreeFds(p) = {}
      <4>1. fds' = fds
        BY <1>6, <3>2 DEF FdAcquire
      <4>2. fds[p] = [fd \in Fd |-> IF fd \in {} THEN s0 ELSE fds[p][fd]]
        BY <3>1
      <4>3. GivenSlot(p, {}, s0)
        BY <3>1, <4>1, <4>2 DEF GivenSlot
      <4> QED BY <4>3
    <3>3. CASE FreeFds(p) # {}
      <4> DEFINE fd0 == Lowest(FreeFds(p))
      <4>1. FreeFds(p) \in SUBSET Nat
        BY SlotNumbers DEF FreeFds
      <4>2. fd0 \in FreeFds(p) /\ fd0 \in Fd
        BY <3>3, <4>1, LowestLeast DEF FreeFds
      <4>3. fds' = [fds EXCEPT ![p][fd0] = s0]
        BY <1>6, <3>3 DEF FdAcquire, s0
      <4> HIDE DEF fd0
      <4>4. [fds[p] EXCEPT ![fd0] = s0] = [fd \in Fd |-> IF fd \in {fd0} THEN s0 ELSE fds[p][fd]]
        BY <3>1, <4>2
      <4>5. GivenSlot(p, {fd0}, s0)
        BY <3>1, <4>3, <4>4 DEF GivenSlot
      <4> QED BY <4>2, <4>5
    <3> QED BY <3>2, <3>3
  <2>4. /\ fds' \in [Proc -> [Fd -> FileSlot \cup {None}]] /\ FdsOfLive' /\ StdBacked'
        /\ NewHolders(s0) = {p} \X F /\ \A z \in FileSlot \ {s0} : NewHolders(z) = Holders(z)
    BY <2>1, <2>3, SlotFilled
  <2>5. /\ fd_table'[s0] = new /\ \A s \in FileSlot \ {s0} : fd_table'[s] = fd_table[s]
    BY <1>1, <2>1, <2>2 DEF FdsTyped, SlotType
  <2>6. FdsTyped'
    <3>1. fd_table' \in [FileSlot -> SlotType]
      BY <1>1, <2>1, <2>2 DEF FdsTyped, SlotType
    <3> QED BY <1>1, <1>2, <2>4, <3>1 DEF FdsTyped, SlotType, Ino, FileSlot, Fd, Std, None
  <2>7. SlotsSound'
    BY NewSound, <1>1, <2>5 DEF SlotsSound
  <2>8. OpensCover'
    <3>1. fd_table[s0].ino = None
      BY <1>1, <2>1 DEF SlotsSound
    <3> DEFINE with2(j) == {s \in FileSlot : fd_table'[s].ino = j}
    <3>2. \A j \in Ino \ {i} : with2(j) = with(j)
      BY <2>5, <3>1, InodeNumbers
    <3>3. with2(i) = with(i) \cup {s0}
      BY <2>1, <2>5
    <3>4. Cardinality(with2(i)) <= Cardinality(with(i)) + 1
      <4> DEFINE W == with(i)
      <4>1. IsFiniteSet(W) /\ Cardinality(W) \in Nat /\ with2(i) = W \cup {s0} /\ s0 \notin W
        BY <1>3, <3>1, <3>3, InodeNumbers
      <4> HIDE DEF W, with, with2
      <4>2. Cardinality(W \cup {s0}) = Cardinality(W) + 1
        BY <4>1, FS_AddElement
      <4> QED BY <4>1, <4>2 DEF W
    <3>5. Cardinality(with2(i)) \in Nat
      BY SlotNumbers, FS_Subset, FS_CardinalityType
    <3>6. \A j \in Ino : Cardinality(with2(j)) <= opens'[j]
      <4> HIDE DEF with, with2
      <4> QED BY <1>2, <1>3, <1>4, <3>2, <3>4, <3>5
    <3> QED BY <3>6 DEF OpensCover, Ino, FileSlot
  <2>9. HoldersCounted'
    <3>1. \A s \in FileSlot :
             /\ fd_table'[s].use = "none" => NewHolders(s) = {}
             /\ fd_table'[s].use = "file" => \A x, y \in NewHolders(s) : x = y
             /\ fd_table'[s].use = "pipe" => Cardinality(NewHolders(s)) <= fd_table'[s].pos
      <4> TAKE s \in FileSlot
      <4>1. CASE s = s0
        <5>1. \A x, y \in {p} \X F : x = y
          BY <2>3
        <5>2. NewHolders(s) = {p} \X F
          BY <2>4, <4>1
        <5>3. fd_table'[s].use = "file"
          BY <2>5, <4>1
        <5> QED BY <5>1, <5>2, <5>3
      <4>2. CASE s # s0
        BY <1>1, <2>4, <2>5, <4>2 DEF HoldersCounted
      <4> QED BY <4>1, <4>2
    <3> QED BY <3>1, NewCounted
  <2> QED BY <2>4, <2>6, <2>7, <2>8, <2>9 DEF FdsInv
<1> QED BY <1>5, <1>6

\* sys_pipe: one slot for two descriptors, as far as there are any (file.c:419-434).
LEMMA PipeFds ==
    ASSUME FdsInv, NEW p \in live, SysPipe(p)
    PROVE  FdsInv'
<1>1. /\ FdsTyped /\ SlotsSound /\ OpensCover /\ FdsOfLive /\ StdBacked /\ HoldersCounted
      /\ p \in Proc /\ fds \in [Proc -> [Fd -> FileSlot \cup {None}]]
  BY DEF FdsInv, FdsTyped, SlotType
<1> DEFINE s0 == Lowest(FreeSlots)
           one == Lowest(FreeFds(p))
           two == Lowest(FreeFds(p) \ {one})
           new == [use |-> "pipe", ino |-> None, pos |-> 2]
           F == {fd \in Fd : \/ FreeFds(p) # {} /\ fd = one
                             \/ Cardinality(FreeFds(p)) > 1 /\ fd = two}
<1>2. /\ FreeSlots # {} /\ fd_table' = [fd_table EXCEPT ![s0] = new]
      /\ fds' = [fds EXCEPT ![p] = [fd \in Fd |->
               IF \/ FreeFds(p) # {} /\ fd = one
                  \/ Cardinality(FreeFds(p)) > 1 /\ fd = two
               THEN s0 ELSE fds[p][fd]]]
      /\ kind' = kind /\ opens' = opens /\ std' = std /\ live' = live
  BY DEF SysPipe, tree
<1>3. s0 \in FreeSlots /\ s0 \in FileSlot /\ fd_table[s0].use = "none"
  <2>1. FreeSlots \in SUBSET Nat
    BY SlotNumbers DEF FreeSlots
  <2>2. Lowest(FreeSlots) \in FreeSlots
    BY <1>2, <2>1, LowestLeast
  <2> QED BY <2>2 DEF FreeSlots
<1>4. FreeFds(p) \in SUBSET Nat /\ IsFiniteSet(FreeFds(p))
  <2>1. FreeFds(p) \in SUBSET Fd
    BY DEF FreeFds
  <2> QED BY <2>1, SlotNumbers, FS_Subset
<1>5. FreeFds(p) # {} => one \in FreeFds(p)
  BY <1>4, LowestLeast
<1>6. Cardinality(FreeFds(p)) > 1 => two \in FreeFds(p)
  <2>1. ASSUME FreeFds(p) \ {one} = {} PROVE ~(Cardinality(FreeFds(p)) > 1)
    <3>1. FreeFds(p) = {} \/ FreeFds(p) = {one}
      BY <2>1
    <3>2. Cardinality(FreeFds(p)) = 0 \/ Cardinality(FreeFds(p)) = 1
      BY <3>1, FS_EmptySet, FS_Singleton
    <3> QED BY <3>2
  <2>2. ASSUME FreeFds(p) \ {one} # {} PROVE two \in FreeFds(p)
    <3>1. FreeFds(p) \ {one} \in SUBSET Nat
      BY <1>4
    <3>2. two \in FreeFds(p) \ {one}
      BY <2>2, <3>1, LowestLeast
    <3> QED BY <3>2
  <2> QED BY <2>1, <2>2
<1>7. F \in SUBSET FreeFds(p)
  BY <1>5, <1>6
<1>8. F \subseteq {one, two}
  OBVIOUS
<1>9. GivenSlot(p, F, s0)
  <2>1. \A fd \in Fd : fd \in F <=> \/ FreeFds(p) # {} /\ fd = one
                                    \/ Cardinality(FreeFds(p)) > 1 /\ fd = two
    OBVIOUS
  <2> HIDE DEF F, one, two, s0
  <2>2. [fd \in Fd |-> IF fd \in F THEN s0 ELSE fds[p][fd]] = [fd \in Fd |->
               IF \/ FreeFds(p) # {} /\ fd = one
                  \/ Cardinality(FreeFds(p)) > 1 /\ fd = two
               THEN s0 ELSE fds[p][fd]]
    BY <2>1
  <2> QED BY <1>2, <2>2 DEF GivenSlot
<1> HIDE DEF s0, F, one, two
<1>10. /\ fds' \in [Proc -> [Fd -> FileSlot \cup {None}]] /\ FdsOfLive' /\ StdBacked'
       /\ NewHolders(s0) = {p} \X F /\ \A z \in FileSlot \ {s0} : NewHolders(z) = Holders(z)
  BY <1>2, <1>3, <1>7, <1>9, SlotFilled
<1>11. Cardinality({p} \X F) <= 2
  <2>1. IsFiniteSet({one}) /\ Cardinality({one}) = 1
    BY FS_Singleton
  <2>2. IsFiniteSet({one} \cup {two}) /\ Cardinality({one} \cup {two}) <= 2
    BY <2>1, FS_AddElement
  <2>3. {one} \cup {two} = {one, two}
    OBVIOUS
  <2>4. IsFiniteSet(F) /\ Cardinality(F) <= Cardinality({one, two})
    BY <1>8, <2>2, <2>3, FS_Subset
  <2>5. Cardinality(F) \in Nat /\ Cardinality({one, two}) \in Nat /\ Cardinality({one, two}) <= 2
    BY <2>2, <2>3, <2>4, FS_CardinalityType
  <2> QED BY <2>4, <2>5, OneProcess
<1>12. fd_table'[s0] = new /\ \A s \in FileSlot \ {s0} : fd_table'[s] = fd_table[s]
  BY <1>1, <1>2, <1>3 DEF FdsTyped, SlotType
<1>13. FdsTyped'
  <2>1. fd_table' \in [FileSlot -> SlotType]
    BY <1>1, <1>2, <1>3 DEF FdsTyped, SlotType
  <2> QED BY <1>1, <1>2, <1>10, <2>1 DEF FdsTyped, SlotType, Ino, FileSlot, Fd, Std, None
<1>14. SlotsSound'
  BY NewSound, <1>1, <1>2, <1>12 DEF SlotsSound
<1>15. OpensCover'
  <2>1. fd_table[s0].ino = None
    BY <1>1, <1>3 DEF SlotsSound
  <2>2. \A j \in Ino : {s \in FileSlot : fd_table'[s].ino = j} = {s \in FileSlot : fd_table[s].ino = j}
    BY <1>12, <2>1, InodeNumbers
  <2>3. \A j \in Ino : Cardinality({s \in FileSlot : fd_table'[s].ino = j}) <= opens'[j]
    BY <1>1, <1>2, <2>2 DEF OpensCover
  <2> QED BY <2>3 DEF OpensCover, Ino, FileSlot
<1>16. HoldersCounted'
  <2>1. \A s \in FileSlot :
           /\ fd_table'[s].use = "none" => NewHolders(s) = {}
           /\ fd_table'[s].use = "file" => \A x, y \in NewHolders(s) : x = y
           /\ fd_table'[s].use = "pipe" => Cardinality(NewHolders(s)) <= fd_table'[s].pos
    <3> TAKE s \in FileSlot
    <3>1. CASE s = s0
      <4>1. NewHolders(s) = {p} \X F
        BY <1>10, <3>1
      <4>2. fd_table'[s].use = "pipe" /\ fd_table'[s].pos = 2
        BY <1>12, <3>1
      <4> QED BY <1>11, <4>1, <4>2
    <3>2. CASE s # s0
      BY <1>1, <1>10, <1>12, <3>2 DEF HoldersCounted
    <3> QED BY <3>1, <3>2
  <2> QED BY <2>1, NewCounted
<1> QED BY <1>10, <1>13, <1>14, <1>15, <1>16 DEF FdsInv

\* A process gives up some descriptors.
Emptied(p, F) == fds' = [fds EXCEPT ![p] = [fd \in Fd |-> IF fd \in F THEN None ELSE fds[p][fd]]]
Taken(p, F, s) == {fd \in F : fds[p][fd] = s}
Gone(p, F, s) == {p} \X Taken(p, F, s)

\* The holders that are left, and how many: the process stays, or none of its
\* descriptors does.
LEMMA HoldersLeft ==
    ASSUME FdsInv, NEW p \in live, NEW F \in SUBSET Fd, Emptied(p, F),
           live' = live \/ (live' = live \ {p} /\ F = Fd)
    PROVE  /\ fds' \in [Proc -> [Fd -> FileSlot \cup {None}]]
           /\ \A s \in FileSlot :
                 /\ NewHolders(s) = Holders(s) \ Gone(p, F, s) /\ Gone(p, F, s) \subseteq Holders(s)
                 /\ IsFiniteSet(Holders(s)) /\ IsFiniteSet(Gone(p, F, s))
                 /\ Cardinality(Gone(p, F, s)) = Cardinality(Taken(p, F, s))
                 /\ Cardinality(NewHolders(s)) = Cardinality(Holders(s)) - Cardinality(Gone(p, F, s))
                 /\ Cardinality(NewHolders(s)) \in Nat /\ Cardinality(Holders(s)) \in Nat
                 /\ Cardinality(Gone(p, F, s)) \in Nat
<1>1. FdsTyped /\ p \in Proc /\ live \subseteq Proc /\ fds \in [Proc -> [Fd -> FileSlot \cup {None}]]
  BY DEF FdsInv, FdsTyped, SlotType
<1>2. /\ \A fd \in Fd : fds'[p][fd] = IF fd \in F THEN None ELSE fds[p][fd]
      /\ \A q \in Proc \ {p} : fds'[q] = fds[q]
      /\ fds' \in [Proc -> [Fd -> FileSlot \cup {None}]]
  BY <1>1 DEF Emptied
<1>3. ASSUME NEW s \in FileSlot
      PROVE  /\ NewHolders(s) = Holders(s) \ Gone(p, F, s) /\ Gone(p, F, s) \subseteq Holders(s)
             /\ IsFiniteSet(Holders(s)) /\ IsFiniteSet(Gone(p, F, s))
             /\ Cardinality(Gone(p, F, s)) = Cardinality(Taken(p, F, s))
             /\ Cardinality(NewHolders(s)) = Cardinality(Holders(s)) - Cardinality(Gone(p, F, s))
             /\ Cardinality(NewHolders(s)) \in Nat /\ Cardinality(Holders(s)) \in Nat
             /\ Cardinality(Gone(p, F, s)) \in Nat
  <2>1. s # None
    BY SlotNumbers
  <2>2. \A x : x \in Holders(s) <=> x \in live \X Fd /\ fds[x[1]][x[2]] = s
    BY DEF Holders, Having
  <2>3. \A x : x \in NewHolders(s) <=> x \in live' \X Fd /\ fds'[x[1]][x[2]] = s
    BY DEF NewHolders, Having
  <2>4. \A x \in live \X Fd : x \in Gone(p, F, s) <=> x[1] = p /\ x[2] \in F /\ fds[p][x[2]] = s
    BY DEF Gone, Taken
  <2>5. Gone(p, F, s) \subseteq live \X Fd
    BY DEF Gone, Taken
  <2>6. Gone(p, F, s) \subseteq Holders(s)
    BY <2>2, <2>4, <2>5
  <2>7. ASSUME NEW x \in live \X Fd PROVE x \in NewHolders(s) <=> x \in Holders(s) /\ x \notin Gone(p, F, s)
    <3>1. x = <<x[1], x[2]>> /\ x[1] \in live /\ x[1] \in Proc /\ x[2] \in Fd
      BY <1>1
    <3>2. CASE x[1] # p
      <4>1. fds'[x[1]] = fds[x[1]] /\ x \in live' \X Fd
        BY <1>2, <3>1, <3>2
      <4> QED BY <2>2, <2>3, <2>4, <3>2, <4>1
    <3>3. CASE x[1] = p /\ x[2] \in F
      <4>1. fds'[x[1]][x[2]] = None
        BY <1>2, <3>1, <3>3
      <4> QED BY <2>1, <2>2, <2>3, <2>4, <3>3, <4>1
    <3>4. CASE x[1] = p /\ x[2] \notin F
      <4>1. fds'[x[1]][x[2]] = fds[x[1]][x[2]] /\ live' = live
        BY <1>2, <3>1, <3>4
      <4> QED BY <2>2, <2>3, <2>4, <3>4, <4>1
    <3> QED BY <3>2, <3>3, <3>4
  <2>8. NewHolders(s) \subseteq live \X Fd
    BY <2>3
  <2>9. NewHolders(s) = Holders(s) \ Gone(p, F, s)
    BY <2>2, <2>7, <2>8
  <2>10. IsFiniteSet(Holders(s))
    BY <1>1, HoldersFinite
  <2>11. /\ IsFiniteSet(Gone(p, F, s)) /\ IsFiniteSet(Taken(p, F, s))
         /\ Cardinality(Gone(p, F, s)) = Cardinality(Taken(p, F, s))
    <3>1. IsFiniteSet(Taken(p, F, s))
      BY SlotNumbers, FS_Subset DEF Taken
    <3> QED BY <3>1, OneProcess DEF Gone
  <2>12. Cardinality(NewHolders(s)) = Cardinality(Holders(s)) - Cardinality(Gone(p, F, s))
    <3> DEFINE H == Holders(s)
               G == Gone(p, F, s)
    <3>1. H \cap G = G /\ IsFiniteSet(H)
      BY <2>6, <2>10
    <3> HIDE DEF H, G
    <3>2. Cardinality(H \ G) = Cardinality(H) - Cardinality(H \cap G)
      BY <3>1, FS_Difference
    <3> QED BY <2>9, <3>1, <3>2 DEF H, G
  <2>13. IsFiniteSet(NewHolders(s))
    BY <2>9, <2>10, FS_Subset
  <2> QED BY <2>6, <2>9, <2>10, <2>11, <2>12, <2>13, FS_CardinalityType
<1> QED BY <1>2, <1>3

\* sys_close of some descriptors of a process (file.c:223-246): a slot goes with
\* the last that has it, and its inode is counted down.
LEMMA CloseFds ==
    ASSUME FdsInv, NEW p \in live, NEW F \in SUBSET Fd, NEW cnt,
           \A s \in FileSlot : cnt[s] = Cardinality(Taken(p, F, s)),
           CloseSlots(cnt), CloseInodes(cnt), Emptied(p, F), kind' = kind,
           live' = live \/ (live' = live \ {p} /\ F = Fd)
    PROVE  /\ opens' \in [Ino -> Nat]
           /\ fd_table' \in [FileSlot -> SlotType]
           /\ fds' \in [Proc -> [Fd -> FileSlot \cup {None}]]
           /\ SlotsSound' /\ OpensCover' /\ HoldersCounted'
<1>1. /\ FdsTyped /\ SlotsSound /\ OpensCover /\ HoldersCounted /\ opens \in [Ino -> Nat]
      /\ fd_table \in [FileSlot -> SlotType]
  BY DEF FdsInv, FdsTyped, SlotType
<1>2. /\ fds' \in [Proc -> [Fd -> FileSlot \cup {None}]]
      /\ \A s \in FileSlot :
                 /\ NewHolders(s) = Holders(s) \ Gone(p, F, s) /\ Gone(p, F, s) \subseteq Holders(s)
                 /\ IsFiniteSet(Holders(s)) /\ IsFiniteSet(Gone(p, F, s))
                 /\ Cardinality(Gone(p, F, s)) = cnt[s]
                 /\ Cardinality(NewHolders(s)) = Cardinality(Holders(s)) - cnt[s]
                 /\ Cardinality(NewHolders(s)) \in Nat /\ Cardinality(Holders(s)) \in Nat
                 /\ cnt[s] \in Nat
  BY HoldersLeft
<1> DEFINE stays(s) == fd_table[s].use = "pipe" /\ fd_table[s].pos > cnt[s]
<1>3. \A s \in FileSlot :
         /\ cnt[s] = 0 => fd_table'[s] = fd_table[s]
         /\ cnt[s] # 0 /\ stays(s) => fd_table'[s] = [fd_table[s] EXCEPT !.pos = fd_table[s].pos - cnt[s]]
         /\ cnt[s] # 0 /\ ~stays(s) => fd_table'[s] = Unused
  BY DEF CloseSlots
<1>4. fd_table' \in [FileSlot -> SlotType]
  <2>1. ASSUME NEW s \in FileSlot
        PROVE  fd_table'[s] \in SlotType
    <3>1. CASE cnt[s] = 0
      BY <1>1, <1>3, <3>1
    <3>2. CASE cnt[s] # 0 /\ stays(s)
      <4>1. fd_table[s].pos \in Nat /\ fd_table[s].pos - cnt[s] \in Nat
        BY <1>1, <1>2, <3>2 DEF SlotType
      <4> HIDE DEF stays
      <4> QED BY <1>1, <1>3, <3>2, <4>1 DEF SlotType
    <3>3. CASE cnt[s] # 0 /\ ~stays(s)
      <4>1. Unused \in SlotType
        BY DEF Unused, SlotType
      <4> HIDE DEF stays
      <4> QED BY <1>3, <3>3, <4>1
    <3> QED BY <3>1, <3>2, <3>3
  <2>2. fd_table' = [s \in FileSlot |-> fd_table'[s]]
    BY DEF CloseSlots
  <2> HIDE DEF stays
  <2> QED BY <2>1, <2>2
<1>5. \A s \in FileSlot :
         /\ fd_table'[s].ino = IF cnt[s] = 0 \/ stays(s) THEN fd_table[s].ino ELSE None
         /\ fd_table'[s].use = IF cnt[s] = 0 \/ stays(s) THEN fd_table[s].use ELSE "none"
  <2> TAKE s \in FileSlot
  <2> HIDE DEF stays
  <2>1. Unused.ino = None /\ Unused.use = "none"
    BY DEF Unused
  <2>2. CASE cnt[s] = 0
    BY <1>3, <2>2
  <2>3. CASE cnt[s] # 0 /\ stays(s)
    BY <1>1, <1>3, <2>3 DEF SlotType
  <2>4. CASE cnt[s] # 0 /\ ~stays(s)
    BY <1>3, <2>1, <2>4
  <2> QED BY <2>2, <2>3, <2>4
<1>6. SlotsSound'
  BY NewSound, <1>1, <1>5 DEF SlotsSound
<1>7. ASSUME NEW i \in Ino
      PROVE  opens'[i] \in Nat /\ Cardinality({s \in FileSlot : fd_table'[s].ino = i}) <= opens'[i]
  <2> DEFINE W == {s \in FileSlot : fd_table[s].ino = i}
             G == {s \in FileSlot : cnt[s] > 0 /\ fd_table[s].ino = i}
             N == {s \in FileSlot : fd_table'[s].ino = i}
  <2>1. opens'[i] = opens[i] - Cardinality(G) /\ opens[i] \in Nat /\ Cardinality(W) <= opens[i]
    BY <1>1 DEF CloseInodes, OpensCover
  <2>2. N = W \ G /\ G \subseteq W
    <3>1. ASSUME NEW s \in FileSlot PROVE fd_table'[s].ino = i <=> fd_table[s].ino = i /\ ~(cnt[s] > 0)
      <4>1. i # None /\ cnt[s] \in Nat
        BY <1>2, InodeNumbers
      <4>2. fd_table[s].ino = i => ~stays(s)
        BY <1>1, <4>1 DEF SlotsSound
      <4>3. fd_table'[s].ino = IF cnt[s] = 0 \/ stays(s) THEN fd_table[s].ino ELSE None
        BY <1>5
      <4> HIDE DEF stays
      <4> QED BY <4>1, <4>2, <4>3
    <3> QED BY <3>1
  <2>3. IsFiniteSet(W) /\ IsFiniteSet(G) /\ IsFiniteSet(N)
    BY SlotNumbers, FS_Subset
  <2>4. W \cap G = G
    BY <2>2
  <2> HIDE DEF W, G, N
  <2>5. Cardinality(W \ G) = Cardinality(W) - Cardinality(W \cap G)
    BY <2>3, FS_Difference
  <2>6. Cardinality(W) \in Nat /\ Cardinality(G) \in Nat /\ Cardinality(N) \in Nat
    BY <2>3, FS_CardinalityType
  <2>7. Cardinality(N) = Cardinality(W) - Cardinality(G)
    BY <2>2, <2>4, <2>5
  <2>8. opens'[i] \in Nat /\ Cardinality(N) <= opens'[i]
    BY <2>1, <2>6, <2>7
  <2> QED BY <2>8 DEF N
<1>8. opens' \in [Ino -> Nat]
  <2>1. opens' = [i \in Ino |-> opens'[i]]
    BY DEF CloseInodes
  <2> QED BY <1>7, <2>1
<1>9. OpensCover'
  BY <1>7 DEF OpensCover, Ino, FileSlot
<1>10. HoldersCounted'
  <2>1. ASSUME NEW s \in FileSlot
        PROVE  /\ fd_table'[s].use = "none" => NewHolders(s) = {}
               /\ fd_table'[s].use = "file" => \A x, y \in NewHolders(s) : x = y
               /\ fd_table'[s].use = "pipe" => Cardinality(NewHolders(s)) <= fd_table'[s].pos
    <3>1. /\ fd_table[s].use = "none" => Holders(s) = {}
          /\ fd_table[s].use = "file" => \A x, y \in Holders(s) : x = y
          /\ fd_table[s].use = "pipe" => Cardinality(Holders(s)) <= fd_table[s].pos
          /\ fd_table[s].use \in {"none", "file", "pipe"} /\ fd_table[s].pos \in Nat
      BY <1>1 DEF HoldersCounted, SlotType
    <3>2. CASE cnt[s] = 0
      <4>1. fd_table'[s] = fd_table[s] /\ NewHolders(s) \subseteq Holders(s)
        BY <1>2, <1>3, <3>2
      <4>2. Cardinality(NewHolders(s)) <= Cardinality(Holders(s))
        BY <1>2, <3>2
      <4>3. Cardinality(NewHolders(s)) \in Nat /\ Cardinality(Holders(s)) \in Nat
        BY <1>2
      <4> QED BY <3>1, <4>1, <4>2, <4>3
    <3>3. CASE cnt[s] # 0 /\ stays(s)
      <4>1. fd_table'[s].use = "pipe" /\ fd_table'[s].pos = fd_table[s].pos - cnt[s]
        BY <1>1, <1>3, <3>3 DEF SlotType
      <4>2. Cardinality(NewHolders(s)) <= fd_table[s].pos - cnt[s]
        BY <1>2, <3>1, <3>3
      <4> QED BY <4>1, <4>2
    <3>4. CASE cnt[s] # 0 /\ ~stays(s)
      <4>1. fd_table'[s].use = "none"
        BY <1>5, <3>4
      <4>2. /\ NewHolders(s) = Holders(s) \ Gone(p, F, s) /\ Gone(p, F, s) \subseteq Holders(s)
            /\ IsFiniteSet(Holders(s)) /\ Cardinality(NewHolders(s)) \in Nat
            /\ Cardinality(NewHolders(s)) = Cardinality(Holders(s)) - cnt[s] /\ cnt[s] \in Nat
            /\ Cardinality(Holders(s)) \in Nat
        BY <1>2
      <4>3. PICK x : x \in Gone(p, F, s)
        BY <1>2, <3>4, FS_EmptySet
      <4>4. NewHolders(s) = {}
        <5>1. CASE fd_table[s].use # "pipe"
          BY <3>1, <4>2, <4>3, <5>1
        <5>2. CASE fd_table[s].use = "pipe"
          <6>1. Cardinality(NewHolders(s)) = 0
            BY <3>1, <3>4, <4>2, <5>2
          <6>2. IsFiniteSet(NewHolders(s))
            BY <4>2, FS_Subset
          <6> QED BY <6>1, <6>2, FS_EmptySet
        <5> QED BY <5>1, <5>2
      <4> QED BY <4>1, <4>4
    <3> QED BY <3>2, <3>3, <3>4
  <2> QED BY <2>1, NewCounted
<1> QED BY <1>2, <1>4, <1>6, <1>8, <1>9, <1>10

\* While slots, descriptors and processes stay, what the slots have of the inodes
\* is all that matters.
LEMMA SlotsStay ==
    ASSUME FdsInv, fd_table' = fd_table, fds' = fds, std' = std, live' = live, opens' \in [Ino -> Nat],
           \A i \in Ino : Cardinality({s \in FileSlot : fd_table[s].ino = i}) <= opens'[i],
           \A s \in FileSlot : fd_table[s].use = "file" => kind'[fd_table[s].ino] = "file"
    PROVE  FdsInv'
<1>1. FdsTyped /\ SlotsSound /\ FdsOfLive /\ StdBacked /\ HoldersCounted
  BY DEF FdsInv
<1>2. FdsTyped'
  BY <1>1 DEF FdsTyped, SlotType, Ino, FileSlot, Fd, Std, None
<1>3. SlotsSound'
  BY NewSound, <1>1 DEF SlotsSound
<1>4. OpensCover'
  BY DEF OpensCover, Ino, FileSlot
<1>5. FdsOfLive' /\ StdBacked' /\ HoldersCounted'
  BY <1>1, HoldersSame, NewCounted DEF HoldersCounted
<1> QED BY <1>2, <1>3, <1>4, <1>5 DEF FdsInv

\* sys_mkdir takes an inode that no slot has (dir.c:415-460).
LEMMA MkdirStep ==
    ASSUME FilesInv, NEW p, NEW d \in Dirs, NEW name \in Name, SysMkdir(p, d, name)
    PROVE  FilesInv'
<1>1. TreeInv /\ FdsInv /\ SlotsSound /\ OpensCover /\ opens \in [Ino -> Nat]
  BY DEF FilesInv, FdsInv, FdsTyped, SlotType
<1>2. PICK i \in Ino : Install(d, i, name, "dir")
  BY DEF SysMkdir
<1>3. TreeInv' /\ kind[i] = "free" /\ \A j \in Ino \ {i} : kind'[j] = kind[j]
  BY <1>1, <1>2, InstallTree
<1>4. \A s \in FileSlot : fd_table[s].use = "file" => kind'[fd_table[s].ino] = "file"
  BY <1>1, <1>3 DEF SlotsSound
<1>5. opens' = opens /\ fd_table' = fd_table /\ fds' = fds /\ std' = std /\ live' = live
  BY DEF SysMkdir
<1>6. \A j \in Ino : Cardinality({s \in FileSlot : fd_table[s].ino = j}) <= opens'[j]
  BY <1>1, <1>5 DEF OpensCover
<1> QED BY <1>1, <1>3, <1>4, <1>5, <1>6, SlotsStay DEF FilesInv

\* inode_release of an inode that no slot has.
LEMMA ReleaseFds ==
    ASSUME FilesInv, NEW d, NEW i \in Ino, Uninstall(d, i), \A s \in FileSlot : fd_table[s].ino # i,
           UNCHANGED <<fd_table, std, fds, live>>
    PROVE  FdsInv'
<1>1. /\ FdsInv /\ SlotsSound /\ OpensCover /\ opens \in [Ino -> Nat] /\ kind \in [Ino -> {"free", "file", "dir"}]
  BY DEF FilesInv, FdsInv, FdsTyped, SlotType, TreeInv, TreeTyped
<1>2. opens' = [opens EXCEPT ![i] = 0] /\ kind' = [kind EXCEPT ![i] = "free"]
  BY DEF Uninstall
<1>3. \A j \in Ino : Cardinality({s \in FileSlot : fd_table[s].ino = j}) <= opens'[j]
  <2>1. \A j \in Ino \ {i} : opens'[j] = opens[j]
    BY <1>1, <1>2
  <2>2. {s \in FileSlot : fd_table[s].ino = i} = {} /\ opens'[i] = 0
    BY <1>1, <1>2
  <2>3. Cardinality({s \in FileSlot : fd_table[s].ino = i}) = 0
    BY <2>2, FS_EmptySet
  <2>4. Cardinality({s \in FileSlot : fd_table[s].ino = i}) <= opens'[i]
    BY <2>2, <2>3
  <2> QED BY <1>1, <2>1, <2>4 DEF OpensCover
<1>4. \A s \in FileSlot : fd_table[s].use = "file" => kind'[fd_table[s].ino] = "file"
  BY <1>1, <1>2 DEF SlotsSound
<1>5. opens' \in [Ino -> Nat]
  BY <1>1, <1>2
<1> QED BY <1>1, <1>3, <1>4, <1>5, SlotsStay

\* sys_unlink, while no slot is in use (file.c:248-288).
LEMMA UnlinkStep ==
    ASSUME FilesInv, NEW p, NEW d \in Dirs, NEW name, SysUnlink(p, d, name)
    PROVE  FilesInv'
<1> DEFINE i == Search(d, name, "file")
<1>1. TreeInv /\ SlotsSound
  BY DEF FilesInv, FdsInv
<1>2. i # None /\ FreeSlots = FileSlot /\ Uninstall(d, i) /\ UNCHANGED <<fd_table, std, fds, live>>
  BY DEF SysUnlink
<1>3. i \in Ino \ {Root} /\ kind[i] = "file" /\ Named(d, i)
  BY <1>1, <1>2, SearchFinds DEF Named
<1> HIDE DEF i
<1>4. dir[i] = << >>
  BY <1>1, <1>3, NoEntries
<1>5. TreeInv'
  BY <1>1, <1>2, <1>3, <1>4, UninstallTree
<1>6. \A s \in FileSlot : fd_table[s].ino # i
  <2>1. \A s \in FileSlot : fd_table[s].use = "none"
    BY <1>2 DEF FreeSlots
  <2> QED BY <1>1, <1>3, <2>1, InodeNumbers DEF SlotsSound
<1>7. FdsInv'
  BY <1>2, <1>3, <1>6, ReleaseFds
<1> QED BY <1>5, <1>7 DEF FilesInv

\* sys_rmdir: slots have files (dir.c:462-501).
LEMMA RmdirStep ==
    ASSUME FilesInv, NEW p, NEW d \in Dirs, NEW name, SysRmdir(p, d, name)
    PROVE  FilesInv'
<1> DEFINE i == Search(d, name, "dir")
<1>1. TreeInv /\ FdsInv /\ SlotsSound
  BY DEF FilesInv, FdsInv
<1>2. i # None /\ dir[i] = << >> /\ Uninstall(d, i) /\ UNCHANGED <<fd_table, std, fds, live>>
  BY DEF SysRmdir
<1>3. i \in Ino \ {Root} /\ kind[i] = "dir" /\ Named(d, i)
  BY <1>1, <1>2, SearchFinds DEF Named
<1> HIDE DEF i
<1>4. TreeInv'
  BY <1>1, <1>2, <1>3, UninstallTree
<1>5. \A s \in FileSlot : fd_table[s].ino # i
  BY <1>1, <1>3, InodeNumbers DEF SlotsSound
<1>6. FdsInv'
  BY <1>2, <1>3, <1>5, ReleaseFds
<1> QED BY <1>4, <1>6 DEF FilesInv

\* The tree stays.
LEMMA TreeStays ==
    ASSUME TreeInv, UNCHANGED tree
    PROVE  TreeInv'
<1>1. kind' = kind /\ dir' = dir /\ up' = up
  BY DEF tree
<1>2. TreeTyped' /\ EntriesSound' /\ EntriesOnce'
  <2>1. TreeTyped'
    BY <1>1 DEF TreeInv, TreeTyped, EntryType, Ino, Root
  <2>2. EntriesSound'
    BY <1>1 DEF TreeInv, EntriesSound, Ino, Root
  <2>3. EntriesOnce'
    BY <1>1 DEF TreeInv, EntriesOnce, Ino, Root
  <2> QED BY <2>1, <2>2, <2>3
<1>3. InodesNamed'
  BY <1>1 DEF TreeInv, InodesNamed, Named, Ino, Root
<1>4. Ranked'
  <2>1. PICK r : IsDepth(r)
    BY DEF TreeInv, Ranked
  <2>2. IsDepth(r)'
    BY <1>1, <2>1 DEF IsDepth, Dirs, Ino, Root
  <2> QED BY <2>2 DEF Ranked
<1> QED BY <1>2, <1>3, <1>4 DEF TreeInv

\* sys_open of a file that is there, and of one that is not (file.c:107-133, 170-221).
LEMMA OpenStep ==
    ASSUME FilesInv, NEW p \in live, NEW d \in Dirs, NEW name \in Name,
           SysOpen(p, d, name) \/ SysCreate(p, d, name)
    PROVE  FilesInv'
<1>1. TreeInv /\ FdsInv
  BY DEF FilesInv
<1>2. CASE SysOpen(p, d, name)
  <2> DEFINE i == Search(d, name, "file")
  <2>1. i # None /\ FdAcquire(p, i) /\ UNCHANGED <<tree, std, live>>
    BY <1>2 DEF SysOpen
  <2>2. i \in Ino /\ kind[i] = "file"
    BY <1>1, <2>1, SearchFinds
  <2> HIDE DEF i
  <2>3. kind' = kind
    BY <2>1 DEF tree
  <2>4. FdsInv'
    BY <1>1, <2>1, <2>2, <2>3, AcquireFds
  <2>5. TreeInv'
    BY <1>1, <2>1, TreeStays
  <2> QED BY <2>4, <2>5 DEF FilesInv
<1>3. CASE SysCreate(p, d, name)
  <2>1. PICK i \in Ino : Install(d, i, name, "file") /\ FdAcquire(p, i)
    BY <1>3 DEF SysCreate
  <2>2. TreeInv' /\ kind[i] = "free" /\ \A j \in Ino \ {i} : kind'[j] = kind[j]
    BY <1>1, <2>1, InstallTree
  <2>3. kind'[i] = "file"
    BY <1>1, <2>1 DEF Install, TreeInv, TreeTyped
  <2>4. \A j \in Ino : kind[j] = "file" => kind'[j] = "file"
    BY <2>2
  <2>5. FdsInv'
    BY <1>1, <1>3, <2>1, <2>3, <2>4, AcquireFds DEF SysCreate
  <2> QED BY <2>2, <2>5 DEF FilesInv
<1> QED BY <1>2, <1>3

\* sys_close of one descriptor.
LEMMA CloseStep ==
    ASSUME FilesInv, NEW p \in live, NEW fd \in Fd, SysClose(p, fd)
    PROVE  FilesInv'
<1> DEFINE cnt == [s \in FileSlot |-> IF s = fds[p][fd] THEN 1 ELSE 0]
<1>1. /\ TreeInv /\ FdsInv /\ FdsTyped /\ FdsOfLive /\ StdBacked /\ p \in Proc
      /\ fds \in [Proc -> [Fd -> FileSlot \cup {None}]]
  BY DEF FilesInv, FdsInv, FdsTyped, SlotType
<1>2. /\ fds[p][fd] # None /\ \A f \in Std : std[p][f] # fds[p][fd]
      /\ CloseSlots(cnt) /\ CloseInodes(cnt) /\ fds' = [fds EXCEPT ![p][fd] = None]
      /\ UNCHANGED <<tree, std, live>>
  BY DEF SysClose
<1>3. Emptied(p, {fd})
  <2>1. [fds[p] EXCEPT ![fd] = None] = [f \in Fd |-> IF f \in {fd} THEN None ELSE fds[p][f]]
    BY <1>1
  <2> QED BY <1>1, <1>2, <2>1 DEF Emptied
<1>4. \A s \in FileSlot : cnt[s] = Cardinality(Taken(p, {fd}, s))
  <2> TAKE s \in FileSlot
  <2>1. CASE s = fds[p][fd]
    <3>1. Taken(p, {fd}, s) = {fd}
      BY <2>1 DEF Taken
    <3> QED BY <2>1, <3>1, FS_Singleton
  <2>2. CASE s # fds[p][fd]
    <3>1. Taken(p, {fd}, s) = {}
      BY <2>2 DEF Taken
    <3> QED BY <2>2, <3>1, FS_EmptySet
  <2> QED BY <2>1, <2>2
<1> HIDE DEF cnt
<1>5. kind' = kind /\ live' = live /\ std' = std
  BY <1>2 DEF tree
<1>6. /\ opens' \in [Ino -> Nat]
      /\ fd_table' \in [FileSlot -> SlotType]
      /\ fds' \in [Proc -> [Fd -> FileSlot \cup {None}]]
      /\ SlotsSound' /\ OpensCover' /\ HoldersCounted'
  BY <1>1, <1>2, <1>3, <1>4, <1>5, CloseFds
<1>7. FdsTyped'
  BY <1>1, <1>5, <1>6 DEF FdsTyped, SlotType, Ino, FileSlot, Fd, Std, None
<1>8. FdsOfLive'
  <2>1. \A q \in Proc \ live : fds'[q] = fds[q]
    BY <1>1, <1>2
  <2>2. \A q \in Proc \ live : fds'[q] = NoFds /\ std'[q] = Console
    BY <1>1, <1>5, <2>1 DEF FdsOfLive
  <2> QED BY <1>5, <2>2 DEF FdsOfLive, NoFds, Console, Fd, Std, None
<1>9. StdBacked'
  <2>1. ASSUME NEW q \in Proc, NEW f \in Std, std'[q][f] \in FileSlot
        PROVE  \E x \in Fd : fds'[q][x] = std'[q][f]
    <3>1. PICK x \in Fd : fds[q][x] = std[q][f]
      BY <1>1, <1>5, <2>1 DEF StdBacked
    <3>2. ~(q = p /\ x = fd)
      BY <1>2, <3>1
    <3>3. fds'[q][x] = fds[q][x]
      BY <1>1, <1>2, <3>2
    <3> QED BY <1>5, <3>1, <3>3
  <2> QED BY <2>1 DEF StdBacked, FileSlot, Fd, Std
<1>10. TreeInv'
  BY <1>1, <1>2, TreeStays
<1> QED BY <1>6, <1>7, <1>8, <1>9, <1>10 DEF FilesInv, FdsInv

\* sys_exit closes all descriptors and takes the redirections back.
LEMMA ExitStep ==
    ASSUME FilesInv, NEW p \in live, Exit(p)
    PROVE  FilesInv'
<1> DEFINE cnt == [s \in FileSlot |-> FdCount(p, s)]
<1>1. /\ TreeInv /\ FdsInv /\ FdsTyped /\ FdsOfLive /\ StdBacked /\ p \in Proc /\ live \subseteq Proc
      /\ fds \in [Proc -> [Fd -> FileSlot \cup {None}]] /\ std \in [Proc -> [Std -> FileSlot \cup Std]]
  BY DEF FilesInv, FdsInv, FdsTyped, SlotType
<1>2. /\ CloseSlots(cnt) /\ CloseInodes(cnt) /\ fds' = [fds EXCEPT ![p] = NoFds]
      /\ std' = [std EXCEPT ![p] = Console] /\ live' = live \ {p} /\ UNCHANGED tree
  BY DEF Exit
<1>3. Emptied(p, Fd)
  <2>1. NoFds = [f \in Fd |-> IF f \in Fd THEN None ELSE fds[p][f]]
    BY DEF NoFds
  <2> QED BY <1>2, <2>1 DEF Emptied
<1>4. \A s \in FileSlot : cnt[s] = Cardinality(Taken(p, Fd, s))
  BY DEF Taken, FdCount
<1> HIDE DEF cnt
<1>5. kind' = kind
  BY <1>2 DEF tree
<1>6. /\ opens' \in [Ino -> Nat]
      /\ fd_table' \in [FileSlot -> SlotType]
      /\ fds' \in [Proc -> [Fd -> FileSlot \cup {None}]]
      /\ SlotsSound' /\ OpensCover' /\ HoldersCounted'
  BY <1>1, <1>2, <1>3, <1>4, <1>5, CloseFds
<1>7. Console \in [Std -> FileSlot \cup Std]
  BY DEF Console
<1>8. FdsTyped'
  <2>1. IsFiniteSet(live') /\ live' \subseteq Proc
    BY <1>1, <1>2, FS_Subset DEF FdsTyped, SlotType
  <2>2. std' \in [Proc -> [Std -> FileSlot \cup Std]]
    BY <1>1, <1>2, <1>7
  <2> QED BY <1>6, <2>1, <2>2 DEF FdsTyped, SlotType, Ino, FileSlot, Fd, Std, None
<1>9. FdsOfLive'
  <2>1. \A q \in Proc \ live' : fds'[q] = NoFds /\ std'[q] = Console
    BY <1>1, <1>2 DEF FdsOfLive
  <2> QED BY <2>1 DEF FdsOfLive, NoFds, Console, Fd, Std, None
<1>10. StdBacked'
  <2>1. ASSUME NEW q \in Proc, NEW f \in Std, std'[q][f] \in FileSlot
        PROVE  \E x \in Fd : fds'[q][x] = std'[q][f]
    <3>1. q # p
      <4>1. Console[f] \in Std
        BY DEF Console
      <4> QED BY <1>1, <1>2, <2>1, <4>1, SlotNumbers
    <3>2. fds'[q] = fds[q] /\ std'[q] = std[q]
      BY <1>1, <1>2, <3>1
    <3> QED BY <1>1, <2>1, <3>2 DEF StdBacked
  <2> QED BY <2>1 DEF StdBacked, FileSlot, Fd, Std
<1>11. TreeInv'
  BY <1>1, <1>2, TreeStays
<1> QED BY <1>6, <1>8, <1>9, <1>10, <1>11 DEF FilesInv, FdsInv

\* A redirection is to a descriptor of the process (file.c:436-445).
LEMMA Dup2Step ==
    ASSUME FilesInv, NEW p \in live, NEW oldfd \in Std, NEW newfd \in Fd \cup Std,
           newfd \in Std => newfd = oldfd, SysDup2(p, oldfd, newfd)
    PROVE  FilesInv'
<1> DEFINE to == IF newfd \in Fd THEN fds[p][newfd] ELSE newfd
<1>1. /\ TreeInv /\ FdsInv /\ FdsTyped /\ SlotsSound /\ OpensCover /\ HoldersCounted
      /\ FdsOfLive /\ StdBacked /\ p \in Proc
      /\ fds \in [Proc -> [Fd -> FileSlot \cup {None}]] /\ std \in [Proc -> [Std -> FileSlot \cup Std]]
  BY DEF FilesInv, FdsInv, FdsTyped, SlotType
<1>2. /\ newfd \in Fd => fds[p][newfd] # None
      /\ std' = [std EXCEPT ![p][oldfd] = to]
      /\ kind' = kind /\ dir' = dir /\ up' = up /\ UNCHANGED tree
      /\ opens' = opens /\ fd_table' = fd_table /\ fds' = fds /\ live' = live
  BY DEF SysDup2, tree
<1>3. to \in FileSlot \cup Std /\ (to \in FileSlot => newfd \in Fd /\ fds[p][newfd] = to)
  BY <1>1, <1>2, SlotNumbers
<1> HIDE DEF to
<1>4. std' \in [Proc -> [Std -> FileSlot \cup Std]]
  BY <1>1, <1>2, <1>3
<1>5. FdsTyped'
  BY <1>1, <1>2, <1>4 DEF FdsTyped, SlotType, Ino, FileSlot, Fd, Std, None
<1>6. SlotsSound' /\ OpensCover'
  BY <1>1, <1>2 DEF SlotsSound, OpensCover, Ino, FileSlot, None
<1>7. FdsOfLive'
  <2>1. \A q \in Proc \ live : fds'[q] = NoFds /\ std'[q] = Console
    BY <1>1, <1>2 DEF FdsOfLive
  <2> QED BY <1>2, <2>1 DEF FdsOfLive, NoFds, Console, Fd, Std, None
<1>8. StdBacked'
  <2>1. ASSUME NEW q \in Proc, NEW f \in Std, std'[q][f] \in FileSlot
        PROVE  \E x \in Fd : fds'[q][x] = std'[q][f]
    <3>1. CASE q = p /\ f = oldfd
      BY <1>1, <1>2, <1>3, <2>1, <3>1
    <3>2. CASE ~(q = p /\ f = oldfd)
      <4>1. std'[q][f] = std[q][f]
        BY <1>1, <1>2, <3>2
      <4> QED BY <1>1, <1>2, <2>1, <4>1 DEF StdBacked
    <3> QED BY <3>1, <3>2
  <2> QED BY <2>1 DEF StdBacked, FileSlot, Fd, Std
<1>9. HoldersCounted'
  <2>1. \A s : NewHolders(s) = Holders(s)
    BY <1>2 DEF NewHolders, Holders
  <2> QED BY <1>1, <1>2, <2>1, NewCounted DEF HoldersCounted
<1>10. TreeInv'
  BY <1>1, <1>2, TreeStays
<1> QED BY <1>5, <1>6, <1>7, <1>8, <1>9, <1>10 DEF FilesInv, FdsInv

\* The holders that fork adds are the child's, one for each of its parent's.
LEMMA HoldersForked ==
    ASSUME FdsInv, NEW p \in live, NEW c \in Proc \ live, NEW s \in FileSlot,
           fds' = [fds EXCEPT ![c] = fds[p]], live' = live \cup {c}
    PROVE  /\ NewHolders(s) = Holders(s) \cup ({c} \X Taken(p, Fd, s))
           /\ IsFiniteSet(Taken(p, Fd, s)) /\ IsFiniteSet(Holders(s))
           /\ Cardinality(NewHolders(s)) <= Cardinality(Holders(s)) + Cardinality(Taken(p, Fd, s))
<1>1. /\ FdsTyped /\ FdsOfLive /\ p \in Proc /\ live \subseteq Proc
      /\ fds \in [Proc -> [Fd -> FileSlot \cup {None}]]
  BY DEF FdsInv, FdsTyped, SlotType
<1>2. fds'[c] = fds[p] /\ \A q \in live : fds'[q] = fds[q]
  BY <1>1
<1>3. ASSUME NEW x \in (live \cup {c}) \X Fd
      PROVE  x \in NewHolders(s) <=> x \in Holders(s) \/ x \in {c} \X Taken(p, Fd, s)
  <2>1. x = <<x[1], x[2]>> /\ x[1] \in live \cup {c} /\ x[2] \in Fd
    OBVIOUS
  <2>2. x \in NewHolders(s) <=> fds'[x[1]][x[2]] = s
    BY DEF NewHolders, Having
  <2>3. x \in Holders(s) <=> x[1] \in live /\ fds[x[1]][x[2]] = s
    BY <2>1 DEF Holders, Having
  <2>4. x \in {c} \X Taken(p, Fd, s) <=> x[1] = c /\ fds[p][x[2]] = s
    BY <2>1 DEF Taken
  <2> QED BY <1>2, <2>1, <2>2, <2>3, <2>4
<1>4. NewHolders(s) \subseteq (live \cup {c}) \X Fd
  BY DEF NewHolders, Having
<1>5. Holders(s) \subseteq (live \cup {c}) \X Fd
  BY DEF Holders, Having
<1>6. {c} \X Taken(p, Fd, s) \subseteq (live \cup {c}) \X Fd
  BY DEF Taken
<1>7. NewHolders(s) = Holders(s) \cup ({c} \X Taken(p, Fd, s))
  BY <1>3, <1>4, <1>5, <1>6
<1>8. IsFiniteSet(Taken(p, Fd, s))
  BY SlotNumbers, FS_Subset DEF Taken
<1>9. IsFiniteSet(Holders(s))
  BY <1>1, HoldersFinite
<1>10. Cardinality(NewHolders(s)) <= Cardinality(Holders(s)) + Cardinality(Taken(p, Fd, s))
  <2> DEFINE H == Holders(s)
             N == {c} \X Taken(p, Fd, s)
  <2>1. IsFiniteSet(N) /\ Cardinality(N) = Cardinality(Taken(p, Fd, s))
    BY <1>8, OneProcess
  <2>2. IsFiniteSet(H) /\ NewHolders(s) = H \cup N
    BY <1>7, <1>9
  <2> HIDE DEF H, N
  <2>3. IsFiniteSet(H \cap N) /\ Cardinality(H \cup N) = Cardinality(H) + Cardinality(N) - Cardinality(H \cap N)
    BY <2>1, <2>2, FS_Union, FS_Subset
  <2>4. Cardinality(H) \in Nat /\ Cardinality(N) \in Nat /\ Cardinality(H \cap N) \in Nat
    BY <2>1, <2>2, <2>3, FS_CardinalityType
  <2>5. Cardinality(H \cup N) <= Cardinality(H) + Cardinality(N)
    BY <2>3, <2>4
  <2> QED BY <2>1, <2>2, <2>5 DEF H
<1> QED BY <1>7, <1>8, <1>9, <1>10

\* process_copy: the parent has pipes only, and each counts the child's descriptors.
LEMMA ForkStep ==
    ASSUME FilesInv, NEW p \in live, NEW c \in Proc, Fork(p, c)
    PROVE  FilesInv'
<1>1. /\ TreeInv /\ FdsInv /\ FdsTyped /\ SlotsSound /\ OpensCover /\ HoldersCounted
      /\ FdsOfLive /\ StdBacked /\ p \in Proc /\ live \subseteq Proc
      /\ fds \in [Proc -> [Fd -> FileSlot \cup {None}]]
      /\ fd_table \in [FileSlot -> SlotType]
  BY DEF FilesInv, FdsInv, FdsTyped, SlotType
<1>2. /\ c \notin live /\ \A s \in FileSlot : FdCount(p, s) > 0 => fd_table[s].use = "pipe"
      /\ live' = live \cup {c} /\ fds' = [fds EXCEPT ![c] = fds[p]]
      /\ fd_table' = [s \in FileSlot |-> [fd_table[s] EXCEPT !.pos = fd_table[s].pos + FdCount(p, s)]]
      /\ UNCHANGED tree /\ kind' = kind /\ opens' = opens /\ std' = std
  BY DEF Fork, tree
<1>3. \A s \in FileSlot : FdCount(p, s) = Cardinality(Taken(p, Fd, s))
  BY DEF FdCount, Taken
<1>4. \A s \in FileSlot :
         /\ NewHolders(s) = Holders(s) \cup ({c} \X Taken(p, Fd, s))
         /\ IsFiniteSet(Taken(p, Fd, s)) /\ IsFiniteSet(Holders(s))
         /\ Cardinality(NewHolders(s)) <= Cardinality(Holders(s)) + Cardinality(Taken(p, Fd, s))
  BY <1>1, <1>2, HoldersForked
<1>5. \A s \in FileSlot : FdCount(p, s) \in Nat
  BY <1>3, <1>4, FS_CardinalityType
<1>6. \A s \in FileSlot :
         /\ fd_table'[s].use = fd_table[s].use /\ fd_table'[s].ino = fd_table[s].ino
         /\ fd_table'[s].pos = fd_table[s].pos + FdCount(p, s)
         /\ fd_table'[s] \in SlotType
  BY <1>1, <1>2, <1>5 DEF SlotType
<1>7. FdsTyped'
  <2>1. IsFiniteSet(live') /\ live' \subseteq Proc
    BY <1>1, <1>2, FS_AddElement DEF FdsTyped, SlotType
  <2>2. fd_table' \in [FileSlot -> SlotType]
    BY <1>2, <1>6
  <2>3. fds' \in [Proc -> [Fd -> FileSlot \cup {None}]]
    BY <1>1, <1>2
  <2> QED BY <1>1, <1>2, <2>1, <2>2, <2>3 DEF FdsTyped, SlotType, Ino, FileSlot, Fd, Std, None
<1>8. SlotsSound'
  BY NewSound, <1>1, <1>2, <1>6 DEF SlotsSound
<1>9. OpensCover'
  <2>1. \A i \in Ino : {s \in FileSlot : fd_table'[s].ino = i} = {s \in FileSlot : fd_table[s].ino = i}
    BY <1>6
  <2>2. \A i \in Ino : Cardinality({s \in FileSlot : fd_table'[s].ino = i}) <= opens'[i]
    BY <1>1, <1>2, <2>1 DEF OpensCover
  <2> QED BY <2>2 DEF OpensCover, Ino, FileSlot
<1>10. FdsOfLive'
  <2>1. \A q \in Proc \ live' : fds'[q] = NoFds /\ std'[q] = Console
    BY <1>1, <1>2 DEF FdsOfLive
  <2> QED BY <2>1 DEF FdsOfLive, NoFds, Console, Fd, Std, None
<1>11. StdBacked'
  <2>1. ASSUME NEW q \in Proc, NEW f \in Std, std'[q][f] \in FileSlot
        PROVE  \E x \in Fd : fds'[q][x] = std'[q][f]
    <3>1. q # c
      <4>1. Console[f] \in Std /\ std[c] = Console
        BY <1>1, <1>2 DEF Console, FdsOfLive
      <4> QED BY <1>2, <2>1, <4>1, SlotNumbers
    <3>2. fds'[q] = fds[q]
      BY <1>1, <1>2, <3>1
    <3> QED BY <1>1, <1>2, <2>1, <3>2 DEF StdBacked
  <2> QED BY <2>1 DEF StdBacked, FileSlot, Fd, Std
<1>12. HoldersCounted'
  <2>1. ASSUME NEW s \in FileSlot
        PROVE  /\ fd_table'[s].use = "none" => NewHolders(s) = {}
               /\ fd_table'[s].use = "file" => \A x, y \in NewHolders(s) : x = y
               /\ fd_table'[s].use = "pipe" => Cardinality(NewHolders(s)) <= fd_table'[s].pos
    <3>1. CASE fd_table[s].use = "pipe"
      <4>1. Cardinality(Holders(s)) <= fd_table[s].pos
        BY <1>1, <3>1 DEF HoldersCounted
      <4>2. Cardinality(NewHolders(s)) <= Cardinality(Holders(s)) + FdCount(p, s)
        BY <1>3, <1>4
      <4>3. /\ Cardinality(Holders(s)) \in Nat /\ FdCount(p, s) \in Nat /\ fd_table[s].pos \in Nat
            /\ Cardinality(NewHolders(s)) \in Nat
        <5>1. IsFiniteSet({c} \X Taken(p, Fd, s))
          BY <1>4, OneProcess
        <5>2. IsFiniteSet(NewHolders(s))
          <6> DEFINE H == Holders(s)
                     N == {c} \X Taken(p, Fd, s)
          <6>1. IsFiniteSet(H) /\ IsFiniteSet(N) /\ NewHolders(s) = H \cup N
            BY <1>4, <5>1
          <6> HIDE DEF H, N
          <6>2. IsFiniteSet(H \cup N)
            BY <6>1, FS_Union
          <6> QED BY <6>1, <6>2
        <5> QED BY <1>1, <1>4, <1>5, <5>2, FS_CardinalityType DEF SlotType
      <4>4. Cardinality(NewHolders(s)) <= fd_table'[s].pos
        BY <1>6, <4>1, <4>2, <4>3
      <4> QED BY <1>6, <3>1, <4>4
    <3>2. CASE fd_table[s].use # "pipe"
      <4>1. Cardinality(Taken(p, Fd, s)) = 0
        BY <1>2, <1>3, <1>5, <3>2
      <4>2. Taken(p, Fd, s) = {}
        BY <1>4, <4>1, FS_EmptySet
      <4>3. NewHolders(s) = Holders(s)
        BY <1>4, <4>2
      <4> QED BY <1>1, <1>6, <3>2, <4>3 DEF HoldersCounted
    <3> QED BY <3>1, <3>2
  <2> QED BY <2>1, NewCounted
<1>13. TreeInv'
  BY <1>1, <1>2, TreeStays
<1> QED BY <1>7, <1>8, <1>9, <1>10, <1>11, <1>12, <1>13 DEF FilesInv, FdsInv

\* sys_pipe leaves the tree alone.
LEMMA PipeStep ==
    ASSUME FilesInv, NEW p \in live, SysPipe(p)
    PROVE  FilesInv'
<1>1. FdsInv'
  BY PipeFds DEF FilesInv
<1>2. TreeInv'
  BY TreeStays DEF FilesInv, SysPipe
<1> QED BY <1>1, <1>2 DEF FilesInv

\* A new partition has its root, and no process but the shell, which has nothing open.
LEMMA FilesStart == FilesInit => FilesInv
<1> SUFFICES ASSUME FilesInit PROVE FilesInv
  OBVIOUS
<1>1. /\ kind = [i \in Ino |-> IF i = Root THEN "dir" ELSE "free"]
      /\ dir = [i \in Ino |-> << >>] /\ up = [i \in Ino |-> Root] /\ opens = [i \in Ino |-> 0]
      /\ fd_table = [s \in FileSlot |-> Unused] /\ std = [p \in Proc |-> Console]
      /\ fds = [p \in Proc |-> NoFds] /\ live = {Shell}
  BY DEF FilesInit
<1>2. \A i \in Ino : dir[i] = << >> /\ DOMAIN dir[i] = {}
  BY <1>1
<1>3. TreeInv
  <2>1. TreeTyped
    BY <1>1, InodeNumbers DEF TreeTyped
  <2>2. EntriesSound /\ EntriesOnce
    BY <1>2 DEF EntriesSound, EntriesOnce
  <2>3. InodesNamed
    BY <1>1 DEF InodesNamed
  <2>4. IsDepth([i \in Ino |-> 0])
    BY <1>1, InodeNumbers DEF IsDepth, Dirs
  <2> QED BY <2>1, <2>2, <2>3, <2>4 DEF TreeInv, Ranked
<1>4. \A s \in FileSlot : fd_table[s].use = "none" /\ fd_table[s].ino = None
  BY <1>1 DEF Unused
<1>5. FdsTyped
  <2>1. IsFiniteSet(live) /\ live \subseteq Proc
    BY <1>1, FS_Singleton, FilesAssumption
  <2>2. Unused \in SlotType
    BY DEF Unused, SlotType
  <2>3. NoFds \in [Fd -> FileSlot \cup {None}] /\ Console \in [Std -> FileSlot \cup Std]
    BY DEF NoFds, Console
  <2> QED BY <1>1, <2>1, <2>2, <2>3 DEF FdsTyped, SlotType
<1>6. SlotsSound
  BY <1>4 DEF SlotsSound
<1>7. OpensCover
  <2>1. \A i \in Ino : {s \in FileSlot : fd_table[s].ino = i} = {} /\ opens[i] = 0
    BY <1>1, <1>4, InodeNumbers
  <2>2. ASSUME NEW i \in Ino PROVE Cardinality({s \in FileSlot : fd_table[s].ino = i}) <= opens[i]
    <3>1. Cardinality({s \in FileSlot : fd_table[s].ino = i}) = Cardinality({})
      BY <2>1
    <3> QED BY <2>1, <3>1, FS_EmptySet
  <2> QED BY <2>2 DEF OpensCover
<1>8. FdsOfLive
  BY <1>1 DEF FdsOfLive
<1>9. StdBacked
  <2>1. \A p \in Proc : \A f \in Std : std[p][f] \in Std
    BY <1>1 DEF Console
  <2> QED BY <2>1, SlotNumbers DEF StdBacked
<1>10. HoldersCounted
  <2>1. \A p \in Proc : \A fd \in Fd : fds[p][fd] = None
    BY <1>1 DEF NoFds
  <2>2. \A s \in FileSlot : Holders(s) = {}
    BY <1>1, <2>1, SlotNumbers, FilesAssumption DEF Holders, Having
  <2> QED BY <1>4, <2>2 DEF HoldersCounted
<1> QED BY <1>3, <1>5, <1>6, <1>7, <1>8, <1>9, <1>10 DEF FilesInv, FdsInv

\* Every call, and a step that changes nothing, keeps the invariant.
LEMMA FilesStep == FilesInv /\ [FilesNext]_filesVars => FilesInv'
<1> SUFFICES ASSUME FilesInv, [FilesNext]_filesVars PROVE FilesInv'
  OBVIOUS
<1>1. CASE FilesNext
  <2>1. PICK p \in live :
        \/ \E d \in Dirs, name \in Name :
              \/ SysOpen(p, d, name) \/ SysCreate(p, d, name) \/ SysUnlink(p, d, name)
              \/ SysMkdir(p, d, name) \/ SysRmdir(p, d, name)
        \/ SysPipe(p)
        \/ \E fd \in Fd : SysClose(p, fd)
        \/ \E oldfd \in Std, newfd \in Fd \cup Std :
              (newfd \in Std => newfd = oldfd) /\ SysDup2(p, oldfd, newfd)
        \/ \E c \in Proc : Fork(p, c)
        \/ Exit(p)
    BY <1>1 DEF FilesNext
  <2>2. ASSUME NEW d \in Dirs, NEW name \in Name, SysOpen(p, d, name) \/ SysCreate(p, d, name)
        PROVE  FilesInv'
    BY <2>2, OpenStep
  <2>3. ASSUME NEW d \in Dirs, NEW name \in Name, SysUnlink(p, d, name) PROVE FilesInv'
    BY <2>3, UnlinkStep
  <2>4. ASSUME NEW d \in Dirs, NEW name \in Name, SysMkdir(p, d, name) PROVE FilesInv'
    BY <2>4, MkdirStep
  <2>5. ASSUME NEW d \in Dirs, NEW name \in Name, SysRmdir(p, d, name) PROVE FilesInv'
    BY <2>5, RmdirStep
  <2>6. ASSUME SysPipe(p) PROVE FilesInv'
    BY <2>6, PipeStep
  <2>7. ASSUME NEW fd \in Fd, SysClose(p, fd) PROVE FilesInv'
    BY <2>7, CloseStep
  <2>8. ASSUME NEW oldfd \in Std, NEW newfd \in Fd \cup Std, newfd \in Std => newfd = oldfd,
               SysDup2(p, oldfd, newfd)
        PROVE  FilesInv'
    BY <2>8, Dup2Step
  <2>9. ASSUME NEW c \in Proc, Fork(p, c) PROVE FilesInv'
    BY <2>9, ForkStep
  <2>10. ASSUME Exit(p) PROVE FilesInv'
    BY <2>10, ExitStep
  <2> QED BY <2>1, <2>2, <2>3, <2>4, <2>5, <2>6, <2>7, <2>8, <2>9, <2>10
<1>2. CASE UNCHANGED filesVars
  <2>1. /\ UNCHANGED tree /\ kind' = kind /\ fd_table' = fd_table /\ fds' = fds /\ std' = std
        /\ live' = live /\ opens' = opens
    BY <1>2 DEF filesVars, tree
  <2>2. TreeInv'
    BY <2>1, TreeStays DEF FilesInv
  <2>3. FdsInv'
    <3>1. FdsInv /\ FdsTyped /\ SlotsSound /\ OpensCover
      BY DEF FilesInv, FdsInv
    <3> QED BY <2>1, <3>1, SlotsStay DEF FdsTyped, SlotType, SlotsSound, OpensCover
  <2> QED BY <2>2, <2>3 DEF FilesInv
<1> QED BY <1>1, <1>2

\* The system calls keep the tree of names, the slots, the open counts and the
\* descriptors of all processes sound together (file.c, dir.c, process.c:459-479, 731-767).
THEOREM FilesInvariance == FilesSpec => []FilesInv
<1> QED BY FilesStart, FilesStep, PTL DEF FilesSpec

\* The names are a tree at every moment, for every number of inodes, names and processes:
\* sys_getcwd gets to the root from everywhere (dir.c:302-337, 503-522).
THEOREM NamesAreTree == FilesSpec => []TreeExact
<1>1. FilesInv => TreeExact
  BY TreeIsExact DEF FilesInv
<1> QED BY <1>1, FilesInvariance, PTL

\* No process has a descriptor or a redirection whose slot is not in use, and an inode that
\* a slot has is a file and open (sys_close, sys_unlink, process_copy).
THEOREM DescriptorsBacked == FilesSpec => []DescriptorsSound
<1>1. ASSUME FilesInv PROVE DescriptorsSound
  <2>1. /\ FdsTyped /\ SlotsSound /\ OpensCover /\ StdBacked /\ HoldersCounted /\ live \subseteq Proc
    BY <1>1 DEF FilesInv, FdsInv, FdsTyped, SlotType
  <2>2. ASSUME NEW p \in live, NEW fd \in Fd, fds[p][fd] \in FileSlot
        PROVE  fd_table[fds[p][fd]].use # "none"
    <3> DEFINE s == fds[p][fd]
    <3>1. <<p, fd>> \in Holders(s)
      BY DEF Holders, Having
    <3> QED BY <2>1, <2>2, <3>1 DEF HoldersCounted
  <2>3. ASSUME NEW p \in live, NEW f \in Std, std[p][f] \in FileSlot
        PROVE  fd_table[std[p][f]].use # "none"
    <3>1. PICK fd \in Fd : fds[p][fd] = std[p][f]
      BY <2>1, <2>3 DEF StdBacked
    <3> QED BY <2>2, <2>3, <3>1
  <2> QED BY <2>1, <2>2, <2>3 DEF DescriptorsSound, OpensCover, SlotsSound
<1> QED BY <1>1, FilesInvariance, PTL

\* The open count of a pipe is never below the number of descriptors that have it, so that
\* the pipe is there for the last of them (file.c:429-430, 232-235, process.c:471-472).
THEOREM PipesCounted == FilesSpec => []PipeCounted
<1>1. ASSUME FilesInv PROVE PipeCounted
  <2>1. FdsTyped /\ HoldersCounted
    BY <1>1 DEF FilesInv, FdsInv
  <2>2. ASSUME NEW s \in FileSlot, fd_table[s].use = "pipe"
        PROVE  Cardinality({x \in live \X Fd : fds[x[1]][x[2]] = s}) \in 0..fd_table[s].pos
    <3>1. Holders(s) = {x \in live \X Fd : fds[x[1]][x[2]] = s}
      BY DEF Holders, Having
    <3>2. Cardinality(Holders(s)) <= fd_table[s].pos /\ fd_table[s].pos \in Nat
      BY <2>1, <2>2 DEF HoldersCounted, FdsTyped, SlotType
    <3>3. Cardinality(Holders(s)) \in Nat
      BY <2>1, HoldersFinite, FS_CardinalityType
    <3> QED BY <3>1, <3>2, <3>3
  <2> QED BY <2>2 DEF PipeCounted
<1> QED BY <1>1, FilesInvariance, PTL
================================================================================
