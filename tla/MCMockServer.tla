---------------------------- MODULE MCMockServer ----------------------------
(***************************************************************************)
(* Small instances of MockServer for TLC.                                  *)
(***************************************************************************)
EXTENDS MockServer

Names == ("{x}" :> "x")
Keys == {"GET"} \X {"", "h"}

Endpoint(name, path) == [id |-> name, prio |-> 0, method |-> "", host |-> "", path |-> path,
                         query |-> <<>>, headers |-> <<>>, body |-> <<>>]
Request(path) == [method |-> "GET", host |-> "h", path |-> path,
                  query |-> <<>>, headers |-> <<>>, body |-> ""]

\* One endpoint with a path variable and one without; a request for each of
\* them and one of the api.  As one endpoint is loaded at a time the requests
\* also mismatch.
Defs == {Endpoint("e1", <<"a", "{x}">>), Endpoint("e2", <<"b">>)}
AllRequests == {Request(p) : p \in {<<"a", "1">>, <<"b">>, <<"__", "reload">>}}

Symmetry == Permutations(Clients)
=============================================================================
