------------------------------ MODULE MCCwOpen ------------------------------
(***************************************************************************)
(* Small instances of CwOpen for TLC: threads, files and descriptors are   *)
(* interchangeable.                                                        *)
(***************************************************************************)
EXTENDS CwOpen, TLC

Symmetry == Permutations(Threads) \cup Permutations(Files) \cup Permutations(Fds)
==============================================================================
