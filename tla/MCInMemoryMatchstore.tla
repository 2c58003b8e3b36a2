----------------------- MODULE MCInMemoryMatchstore -----------------------
(***************************************************************************)
(* Small instances of InMemoryMatchstore for TLC.                          *)
(***************************************************************************)
EXTENDS InMemoryMatchstore, TLC

\* The goroutines run the same code, and addresses are only compared.
Symmetry == Permutations(Goroutines) \cup Permutations(Lists \ {MismatchesList})
=============================================================================
