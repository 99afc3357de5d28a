------------------------------- MODULE MCMemory -------------------------------
(* Two processes; the kernel pool is too small for all they may ask of it,   *)
(* the user pool is not: a call that fails there leaves pages that sys_exit  *)
(* cannot release.                                                           *)
EXTENDS Memory, TLC

CONSTANTS p, q
MCProc == {p, q}
MCSymmetry == Permutations(MCProc)
\* The stack page, and one past the end of the address space.
MCFixed == {<<2, 1>>, <<3, 1>>}
===============================================================================
