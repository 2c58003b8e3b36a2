---------------------------- MODULE MCGrpcKVStore ----------------------------
(***************************************************************************)
(* Small instances of GrpcKVStore for TLC.                                 *)
(***************************************************************************)
EXTENDS GrpcKVStore, TLC

CONSTANTS h1, h2, h3, c1, c2

Cluster == {h1, h2, h3}
Callers == {c1, c2}
Placement == (c1 :> h1) @@ (c2 :> h2)

\* As in kvstore_test.go: names with the port of the key-value store.
NamesWithKvPort == <<[host |-> h1, port |-> 50151], [host |-> h2, port |-> 50151],
                     [host |-> h3, port |-> 50151]>>

\* As in the deployments: names without a port, and a comma after the last.
PlainNames == <<[host |-> h1, port |-> 0], [host |-> h2, port |-> 0],
                [host |-> h3, port |-> 0], [host |-> NoHost, port |-> 0]>>
=============================================================================
