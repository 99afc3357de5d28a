------------------------------ MODULE MCProcess ------------------------------
(* init and three more processes: a parent and two children of its own, who  *)
(* are left to init when it ends.  As many pids as tasks.                    *)
EXTENDS Process, TLC

CONSTANTS ini, one, two, three
MCTask == {ini, one, two, three}
MCMaxPid == 4
MCSymmetry == Permutations(MCTask \ {ini})
=============================================================================
