-------------------------------- MODULE MCDisk --------------------------------
(* Two tasks and up to two drives; calls of up to three sectors in commands  *)
(* of two, so that a call has a second run and a run leaves a token behind.  *)
EXTENDS Disk

CONSTANTS main, other
MCTask == {main, other}
===============================================================================
