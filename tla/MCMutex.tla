------------------------------- MODULE MCMutex -------------------------------
(* A holder, two waiters asleep in order and one on its way to sleep.        *)
EXTENDS Mutex

CONSTANTS a, b, c, d
MCTask == {a, b, c, d}
=============================================================================
