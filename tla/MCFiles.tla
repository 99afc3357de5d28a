------------------------------- MODULE MCFiles -------------------------------
(* The shell and a command it starts; two inodes beside the root, so that a   *)
(* directory can be in a directory and have two entries; fewer slots and      *)
(* descriptors than the calls may ask for.                                    *)
EXTENDS Files, TLC

CONSTANTS sh, cmd, x, y
MCProc == {sh, cmd}
MCName == {x, y}
MCSymmetry == Permutations(MCName)
==============================================================================
