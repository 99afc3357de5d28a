------------------------------- MODULE MCInode -------------------------------
(* The root directory and one more inode.  A block holds one entry and a half, *)
(* as 4096 bytes hold 170 and two thirds: directories and files of one block,  *)
(* of parts of two and of both, the last with its indirect block.              *)
EXTENDS Inode
==============================================================================
