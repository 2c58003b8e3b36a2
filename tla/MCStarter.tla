------------------------------ MODULE MCStarter ------------------------------
(***************************************************************************)
(* An instance of Starter for TLC.                                         *)
(***************************************************************************)
EXTENDS Starter, TLC
=============================================================================
