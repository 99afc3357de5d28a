------------------------------- MODULE MCSched -------------------------------
(* Four tasks, so that two ordinary tasks can hand the CPU to each other     *)
(* past a third one.                                                         *)
EXTENDS Sched

CONSTANTS idle, main, a, b
MCTask == {idle, main, a, b}
MCSlice == 2
=============================================================================
