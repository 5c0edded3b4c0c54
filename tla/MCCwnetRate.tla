----------------------------- MODULE MCCwnetRate -----------------------------
(***************************************************************************)
(* A small instance of CwnetRate for TLC: two interfaces, since the systq  *)
(* thread they share can delay one for the other.  They differ (one may be *)
(* used while it is being destroyed), so there is no symmetry.             *)
(***************************************************************************)
EXTENDS CwnetRate, TLC
==============================================================================
