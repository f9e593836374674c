---------------------------- MODULE MCIdleServer ----------------------------
(***************************************************************************)
(* Instances of IdleServer for TLC.                                        *)
(***************************************************************************)
EXTENDS IdleServer, TLC

Symmetry == Permutations(Timers)
=============================================================================
