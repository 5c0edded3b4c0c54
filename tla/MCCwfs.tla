------------------------------- MODULE MCCwfs -------------------------------
(***************************************************************************)
(* Small instances of Cwfs for TLC.                                        *)
(***************************************************************************)
EXTENDS Cwfs, TLC

(* The mounts differ: one of them is Raced.                                 *)
Symmetry == Permutations(Vnodes) \cup Permutations(Procs)
==============================================================================
