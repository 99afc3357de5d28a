---------------------------- MODULE AbstractMutex ----------------------------
(***************************************************************************)
(* What lock.c's mutex promises: one holder at a time, taken only when     *)
(* free and given back only by the task that took it.                      *)
(***************************************************************************)
CONSTANTS Task, NULL

VARIABLE holder

Init == holder = NULL

Acquire(t) == holder = NULL /\ holder' = t
Release(t) == holder = t /\ holder' = NULL

Next == \E t \in Task : Acquire(t) \/ Release(t)

Spec == Init /\ [][Next]_holder
=============================================================================
