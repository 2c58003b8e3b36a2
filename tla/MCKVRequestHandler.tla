------------------------ MODULE MCKVRequestHandler ------------------------
(***************************************************************************)
(* A small instance of KVRequestHandler for TLC.                           *)
(***************************************************************************)
EXTENDS KVRequestHandler

Symmetry == Permutations(Maps)
=============================================================================
