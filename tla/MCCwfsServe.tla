---------------------------- MODULE MCCwfsServe ----------------------------
(***************************************************************************)
(* A small instance of CwfsServe for TLC.                                  *)
(***************************************************************************)
EXTENDS CwfsServe, TLC

Symmetry == Permutations(Vnodes) \cup Permutations(Procs)
=============================================================================
