-------------------------------- MODULE MCHeap --------------------------------
(* Classes with three blocks and with one; requests at the edges: the longest *)
(* a class takes, the longest that fits a page with the header, one more.     *)
EXTENDS Heap, TLC

CONSTANTS a, b
MCTask == {a, b}
MCSymmetry == Permutations(MCTask)
===============================================================================
