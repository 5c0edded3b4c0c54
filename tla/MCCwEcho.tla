------------------------------ MODULE MCCwEcho ------------------------------
(***************************************************************************)
(* Small instances of CwEcho for TLC.  The refinement is checked along     *)
(* behaviours, so no symmetry is declared.                                 *)
(***************************************************************************)
EXTENDS CwEcho, TLC
==============================================================================
