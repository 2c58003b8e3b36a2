---------------------- MODULE MCMatchesRequestHandler ----------------------
(***************************************************************************)
(* A small instance of MatchesRequestHandler for TLC.                      *)
(***************************************************************************)
EXTENDS MatchesRequestHandler

CONSTANTS h1, h2, c1

Cluster == {h1, h2}
Callers == {c1}
Placement == (c1 :> h1)
PlainNames == <<[host |-> h1, port |-> 0], [host |-> h2, port |-> 0], [host |-> NoHost, port |-> 0]>>
=============================================================================
