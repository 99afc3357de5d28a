------------------------------- MODULE Partition -------------------------------
(***************************************************************************)
(* What inode.c on one side and file.c with dir.c on the other know of a   *)
(* partition: its inodes by their numbers, and how often one is opened.    *)
(***************************************************************************)
EXTENDS Integers

CONSTANTS Inodes,   \* inode_cnt of the partition; inode 0 is its root directory
          MaxOpen   \* bound: open_cnt, the inode_open calls that are not closed yet

Ino == 0..(Inodes - 1)
Root == 0
================================================================================
