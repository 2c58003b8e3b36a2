------------------------- MODULE MCRedisMatchstore -------------------------
(***************************************************************************)
(* Small instances of RedisMatchstore for TLC: two requests on one server  *)
(* instance and one on another.                                            *)
(***************************************************************************)
EXTENDS RedisMatchstore, TLC

CONSTANTS p1, p2, p3, i1, i2

TwoProcs == {p1, p2}
ThreeProcs == {p1, p2, p3}
TwoInstances == {i1, i2}
InstanceOf == [p \in Procs |-> IF p = p3 THEN i2 ELSE i1]

\* The requests of the same instance run the same code.
Symmetry == Permutations({p1, p2}) \cup Permutations(Keys)
=============================================================================
