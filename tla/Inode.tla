--------------------------------- MODULE Inode ---------------------------------
(***************************************************************************)
(* inode.c: the inodes and the data blocks of one partition, in memory and *)
(* on the disk.  Every operation holds ptn->mlock from its first access to *)
(* its last, so it is one step.  Files stay below SingleIdx: blk_read      *)
(* loses the indirect block in a variable of an inner scope (inode.c:120), *)
(* so nothing behind the direct blocks can be read back.                   *)
(***************************************************************************)
EXTENDS Partition, FiniteSets, Sequences, FiniteSetsExt

CONSTANTS Blocks,     \* the data blocks of the partition
          BlockSize,  \* BLOCK_SIZE
          Direct,     \* DIRECT_IDX_MAX
          Dirent,     \* sizeof(struct dirent)
          Byte,       \* what is written
          Counts,     \* how much of it in one call
          MaxSize,    \* bound: the size of a file, within the direct blocks
          MaxLost     \* bound: the blocks that crashes lose

ASSUME InodeAssumption ==
    /\ Inodes \in Nat \ {0} /\ BlockSize \in Nat \ {0} /\ Direct \in Nat \ {0}
    /\ Dirent \in 1..BlockSize
    /\ MaxSize \in Dirent..(Direct * BlockSize) /\ MaxOpen \in Nat \ {0}
    /\ Counts \subseteq Nat \ {0} /\ Byte \subseteq Nat \ {0} /\ Byte # {}
    /\ MaxLost \in Nat /\ Blocks \in Nat /\ Blocks >= Inodes * (Direct + 1) + MaxLost

Lba == 1..Blocks
Slot == 0..Direct         \* i_block; the last one is the indirect block
NoBlock == 0
Offset == 0..(BlockSize - 1)
Zero == [k \in Offset |-> 0]

Node == [size : 0..MaxSize, block : [Slot -> Lba \cup {NoBlock}]]
EmptyNode == [size |-> 0, block |-> [s \in Slot |-> NoBlock]]
Uncached == [node |-> EmptyNode, open |-> 0]

VARIABLES blk_btmp,   \* the blocks that are taken; each change is written through
          inode_btmp, \* the inodes that are taken; likewise
          disk,       \* what is in each block
          table,      \* the inode table on the disk
          cache,      \* open_inodes: the inodes in memory, with open_cnt
          lost,       \* history: the blocks that crashes in inode_write have lost
          halted      \* an assertion has failed, or memory outside blk_btmp is changed

vars == <<blk_btmp, inode_btmp, disk, table, cache, lost, halted>>

Cached(i) == cache[i].open > 0

\* fs_format and fs_mount: the root has one block.
RootNode == [size |-> Dirent, block |-> [EmptyNode.block EXCEPT ![0] = 1]]
Init ==
    /\ blk_btmp = {1}
    /\ inode_btmp = {Root}
    /\ disk = [b \in Lba |-> IF b = 1 THEN [k \in Offset |->
                                 IF k < Dirent THEN Min(Byte) ELSE 0] ELSE Zero]
    /\ table = [i \in Ino |-> IF i = Root THEN RootNode ELSE EmptyNode]
    /\ cache = [i \in Ino |-> Uncached]
    /\ lost = {} /\ halted = FALSE

-----------------------------------------------------------------------------
Open(i) ==
    /\ i \in inode_btmp /\ cache[i].open < MaxOpen
    /\ cache' = [cache EXCEPT ![i] =
           [node |-> IF Cached(i) THEN cache[i].node ELSE table[i], open |-> cache[i].open + 1]]
    /\ UNCHANGED <<blk_btmp, inode_btmp, disk, table, lost, halted>>

\* Mutant: an inode nobody has open stays on the list.
CloseKeeps(i) ==
    /\ Cached(i)
    /\ cache' = [cache EXCEPT ![i].open = @ - 1]
    /\ UNCHANGED <<blk_btmp, inode_btmp, disk, table, lost, halted>>
Close(i) ==
    /\ Cached(i)
    /\ cache' = [cache EXCEPT ![i] =
           IF cache[i].open = 1 THEN Uncached
           ELSE [node |-> cache[i].node, open |-> cache[i].open - 1]]
    /\ UNCHANGED <<blk_btmp, inode_btmp, disk, table, lost, halted>>

\* inode_acquire: the lowest free inode, empty in memory and on the disk; without
\* one it returns NULL, which its callers do not look at.
Acquire(i) ==
    /\ i \in Ino \ inode_btmp /\ \A j \in Ino \ inode_btmp : i <= j
    /\ inode_btmp' = inode_btmp \cup {i}
    /\ table' = [table EXCEPT ![i] = EmptyNode]
    /\ cache' = [cache EXCEPT ![i] = [node |-> EmptyNode, open |-> 1]]
    /\ UNCHANGED <<blk_btmp, disk, lost, halted>>

\* The blocks an inode refers to, by itself or by its indirect block.
Refs(n) ==
    LET listed == IF n.block[Direct] = NoBlock THEN {}
                  ELSE {disk[n.block[Direct]][k] : k \in Offset}
    IN  ({n.block[s] : s \in Slot} \cup listed) \ {NoBlock}

\* The content of a free block is of no account: blk_acquire clears it.
Wipe(gone, content) == [b \in Lba |-> IF b \in gone THEN Zero ELSE content[b]]

\* inode_release.  Its callers have the inode open once and nobody else has:
\* sys_unlink gives up while any file is open.
Release(i) ==
    /\ i # Root /\ cache[i].open = 1
    /\ blk_btmp' = blk_btmp \ Refs(cache[i].node)
    /\ disk' = Wipe(Refs(cache[i].node), disk)
    /\ inode_btmp' = inode_btmp \ {i}
    /\ cache' = [cache EXCEPT ![i] = Uncached]
    /\ UNCHANGED <<table, lost, halted>>

-----------------------------------------------------------------------------
\* blk_read, of the block with byte k, and inode_read, of that byte.
BlockAt(n, k) == n.block[k \div BlockSize]
ByteAt(n, k) == disk[BlockAt(n, k)][k % BlockSize]

(* inode_write *)

\* The slots that blk_write fills for the blocks first..last, and their order:
\* a call that reaches the end of the direct blocks gets the indirect block
\* before its own (blk_idx + cnt >= DIRECT_IDX_MAX).
Missing(n, first, last) ==
    {s \in first..last \cup (IF last + 1 >= Direct THEN {Direct} ELSE {}) :
        n.block[s] = NoBlock}
Before(r, s) == IF r = Direct THEN s = Direct - 1
                ELSE IF s = Direct THEN r < Direct - 1 ELSE r < s

\* blk_acquire, once for each of them: the lowest free block every time.
Granted(n, need, s) ==
    CHOOSE b \in Lba \ blk_btmp :
        Cardinality({c \in Lba \ blk_btmp : c < b}) = Cardinality({r \in need : Before(r, s)})
Grown(n, need) == [s \in Slot |-> IF s \in need THEN Granted(n, need, s) ELSE n.block[s]]

\* The byte that block s has at offset k when the bytes pos.. have become d: the
\* first and the last block are read before they are written.
\* Mutant: they are not.
MergedBlindly(old, s, k, pos, cnt, d) ==
    IF s * BlockSize + k \in pos..(pos + cnt - 1) THEN d ELSE 0
Merged(old, s, k, pos, cnt, d) ==
    IF s * BlockSize + k \in pos..(pos + cnt - 1) THEN d ELSE old[k]

\* inode_table_update.  Mutant: a file that grows is not written to the table.
TableNever(i, old, new) == UNCHANGED table
TableOnGrowth(i, old, new) ==
    IF new.size > old.size THEN table' = [table EXCEPT ![i] = new] ELSE UNCHANGED table

Write(i, pos, cnt, d) ==
    LET n == cache[i].node
        first == pos \div BlockSize
        last == (pos + cnt - 1) \div BlockSize
        need == Missing(n, first, last)
        block == Grown(n, need)
        new == [size |-> Max({n.size, pos + cnt}), block |-> block]
        slotOf(b) == CHOOSE s \in first..last : block[s] = b
    IN  /\ Cached(i) /\ pos + cnt <= MaxSize
        /\ blk_btmp' = blk_btmp \cup {block[s] : s \in need}
        /\ disk' = [b \in Lba |->
               IF b \in {block[s] : s \in first..last}
               THEN [k \in Offset |-> Merged(disk[b], slotOf(b), k, pos, cnt, d)]
               ELSE disk[b]]
        /\ TableOnGrowth(i, n, new)
        /\ cache' = [cache EXCEPT ![i].node = new]
        /\ UNCHANGED <<inode_btmp, lost, halted>>

\* The power goes while inode_write is at work, before, between or after its two
\* blocks, when k bytes of the call are on the disk and a first part of the blocks it
\* needs has been acquired, and fs_mount comes again.  The table is written last, so
\* nothing refers to these blocks.
WriteCrash(i, pos, cnt, d) ==
    LET n == cache[i].node
        first == pos \div BlockSize
        need == Missing(n, first, (pos + cnt - 1) \div BlockSize)
    IN  /\ Cached(i) /\ pos + cnt <= MaxSize
        /\ \E k \in {0, BlockSize - (pos % BlockSize), cnt} \cap 0..cnt, got \in SUBSET need :
              /\ \A r \in need, s \in got : Before(r, s) => r \in got
              /\ k > 0 => Missing(n, first, (pos + k - 1) \div BlockSize) \subseteq got
              /\ lost' = lost \cup {Granted(n, need, s) : s \in got}
              /\ Cardinality(lost') <= MaxLost
              /\ disk' = [b \in Lba |->
                     IF \E s \in Slot : n.block[s] = b /\ s # Direct
                     THEN LET s == CHOOSE s \in Slot : n.block[s] = b
                          IN  [o \in Offset |-> Merged(disk[b], s, o, pos, k, d)]
                     ELSE disk[b]]
        /\ blk_btmp' = blk_btmp \cup lost'
        /\ cache' = [j \in Ino |-> Uncached]
        /\ UNCHANGED <<inode_btmp, table, halted>>

-----------------------------------------------------------------------------
(* inode_erase *)

\* Mutant: the blocks behind the new end stay.
EraseKeepsBlocks(i, cnt) ==
    LET n == cache[i].node
        new == [n EXCEPT !.size = @ - cnt,
                         !.block = [s \in Slot |-> IF s = (n.size - cnt) \div BlockSize + 1
                                                   THEN NoBlock ELSE n.block[s]]]
    IN  /\ Cached(i) /\ n.size >= cnt
        /\ table' = [table EXCEPT ![i] = new]
        /\ cache' = [cache EXCEPT ![i].node = new]
        /\ UNCHANGED <<blk_btmp, disk, inode_btmp, lost, halted>>

\* At a size that is a multiple of BlockSize the block behind the last one is
\* released too; the inode has none there, and the index that blk_release makes of
\* block 0 is far outside the bitmap.
Erase(i, cnt) ==
    LET n == cache[i].node
        gone == ((n.size - cnt) \div BlockSize + 1)..(n.size \div BlockSize)
        new == [n EXCEPT !.size = @ - cnt,
                         !.block = [s \in Slot |-> IF s \in gone THEN NoBlock ELSE n.block[s]]]
        blocks == {n.block[s] : s \in gone}
    IN  /\ Cached(i) /\ n.size >= cnt
        /\ IF \E s \in gone : s = Direct \/ n.block[s] = NoBlock
           THEN halted' = TRUE /\ UNCHANGED <<blk_btmp, disk, table, cache>>
           ELSE /\ blk_btmp' = blk_btmp \ blocks
                /\ disk' = Wipe(blocks, disk)
                /\ table' = [table EXCEPT ![i] = new]
                /\ cache' = [cache EXCEPT ![i].node = new]
                /\ UNCHANGED halted
        /\ UNCHANGED <<inode_btmp, lost>>

\* The machine is switched off between two operations and fs_mount comes again.
Remount ==
    /\ cache' = [i \in Ino |-> Uncached]
    /\ UNCHANGED <<blk_btmp, inode_btmp, disk, table, lost, halted>>

-----------------------------------------------------------------------------
\* The calls that file.c and dir.c make: a file is written from its start
\* (O_TRUNC) or its end (O_APPEND); a directory gains an entry at its end, and
\* loses its last one.  Entries are alike here.
Next ==
    /\ ~halted
    /\ \/ \E i \in Ino :
              \/ Open(i) \/ Close(i) \/ Acquire(i) \/ Release(i)
              \/ \E cnt \in Counts, d \in Byte :
                    i # Root /\ \E pos \in {0, cache[i].node.size} :
                                    Write(i, pos, cnt, d) \/ WriteCrash(i, pos, cnt, d)
       \/ Write(Root, cache[Root].node.size, Dirent, Min(Byte))
       \/ WriteCrash(Root, cache[Root].node.size, Dirent, Min(Byte))
       \/ cache[Root].node.size > Dirent /\ Erase(Root, Dirent)
       \/ Remount

Spec == Init /\ [][Next]_vars

-----------------------------------------------------------------------------
TypeOK ==
    /\ blk_btmp \in SUBSET Lba
    /\ inode_btmp \in SUBSET Ino
    /\ \A b \in Lba : disk[b] \in [Offset -> Byte \cup {0}]
    /\ table \in [Ino -> Node]
    /\ \A i \in Ino : Cached(i) \/ cache[i] = Uncached
    /\ lost \subseteq blk_btmp /\ halted \in BOOLEAN

\* Whether in memory or on the disk, a block that is taken belongs to exactly one
\* inode, in one place, and an inode has only taken blocks: none is shared, and none
\* is lost but those that were acquired by a call that the power went in
\* (blk_acquire, blk_release and their callers, inode.c:32-75, 615-624).
BlocksExact ==
    LET uses == {u \in inode_btmp \X Slot : table[u[1]].block[u[2]] # NoBlock}
    IN  /\ {table[u[1]].block[u[2]] : u \in uses} = blk_btmp \ lost
        /\ Cardinality(uses) = Cardinality(blk_btmp \ lost)

\* An inode that is open is the one on the disk, so that closing it, or a reboot,
\* loses nothing of it, and it has not been released (inode.c:243-265, 621-624).
CacheIsTable ==
    \A i \in Ino : Cached(i) => i \in inode_btmp /\ cache[i].node = table[i]

\* The bytes of each file, as the table and the blocks have them on the disk, are
\* those that the calls have written; a call that the power went in is one that has
\* written less, and nothing behind the old end (inode.c:553-633).
Content(i) == [k \in 1..table[i].size |-> ByteAt(table[i], k - 1)]
Absent == <<0>>
Stored == [i \in Ino |-> IF i \in inode_btmp THEN Content(i) ELSE Absent]
Formatted == [i \in Ino |-> IF i = Root THEN [k \in 1..Dirent |-> Min(Byte)] ELSE Absent]

Files == INSTANCE AbstractFiles WITH
    File <- Ino, MaxCnt <- MaxSize, Fresh <- Formatted, content <- Stored
ImplementsFiles == Files!Spec

=============================================================================
