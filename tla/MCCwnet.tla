------------------------------- MODULE MCCwnet -------------------------------
(***************************************************************************)
(* Small instances of Cwnet for TLC.                                       *)
(***************************************************************************)
EXTENDS Cwnet, TLC

Symmetry == Permutations(Softcs)
==============================================================================
