----------------------------- MODULE AbstractFiles -----------------------------
(***************************************************************************)
(* What inode.c promises of the inodes of a partition: each one that has   *)
(* been acquired is a sequence of bytes of its own.                        *)
(***************************************************************************)
EXTENDS Integers, Sequences

CONSTANTS File, Byte,
          MaxCnt,  \* bound: the bytes of one write
          Fresh,   \* what Init finds in each file
          Absent   \* what a file is while it does not exist

VARIABLE content

Init == content = Fresh

\* What a call may make of one file, from was to now.
Create(was, now) == was = Absent /\ now = << >>

Remove(was, now) == was # Absent /\ now = Absent

\* The bytes behind pos become d, and the file as long as that takes.
Write(was, now) ==
    /\ was # Absent /\ now # Absent
    /\ \E pos \in 0..Len(was), cnt \in 1..MaxCnt, d \in Byte :
          /\ Len(now) = IF pos + cnt > Len(was) THEN pos + cnt ELSE Len(was)
          /\ \A k \in 1..Len(now) : now[k] = IF k \in (pos + 1)..(pos + cnt) THEN d ELSE was[k]

Truncate(was, now) ==
    /\ was # Absent /\ now # Absent
    /\ \E cnt \in 0..Len(was) : now = SubSeq(was, 1, Len(was) - cnt)

Next ==
    \E f \in File :
        LET was == content[f]
            now == content'[f]
        IN  /\ now # was /\ content' = [content EXCEPT ![f] = now]
            /\ Create(was, now) \/ Remove(was, now) \/ Write(was, now) \/ Truncate(was, now)

Spec == Init /\ [][Next]_content
=============================================================================
