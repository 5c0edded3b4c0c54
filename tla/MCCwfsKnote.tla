---------------------------- MODULE MCCwfsKnote ----------------------------
(***************************************************************************)
(* Small instances of CwfsKnote for TLC: files and vnodes are              *)
(* interchangeable.                                                        *)
(***************************************************************************)
EXTENDS CwfsKnote, TLC

Symmetry == Permutations(Files) \cup Permutations(Vnodes)
============================================================================
