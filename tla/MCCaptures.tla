------------------------------ MODULE MCCaptures ------------------------------
(***************************************************************************)
(* Two processes at one path, where a capture was imported or nothing is.  *)
(***************************************************************************)
EXTENDS Captures, TLC

CONSTANTS p1, p2

Symmetry == Permutations(Procs)
=============================================================================
