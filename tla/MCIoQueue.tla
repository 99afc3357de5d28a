------------------------------ MODULE MCIoQueue ------------------------------
(* Two writers and two readers of a ring that holds two bytes: both the      *)
(* empty and the full ring make a task wait while another one is inside.     *)
EXTENDS IoQueue, TLC

CONSTANTS p, q, g, h, x, y
MCPutter == {p, q}
MCGetter == {g, h}
MCValue == {x, y}
MCSize == 3

\* The readers, the writers and the bytes are each interchangeable.
Symmetry == Permutations(MCPutter) \cup Permutations(MCGetter) \cup Permutations(MCValue)
=============================================================================
