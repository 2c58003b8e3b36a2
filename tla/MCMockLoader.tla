---------------------------- MODULE MCMockLoader ----------------------------
(***************************************************************************)
(* Small instances of MockLoader for TLC.                                  *)
(***************************************************************************)
EXTENDS MockLoader

Names == ("{x}" :> "x") @@ ("{y}" :> "y")
Keys == {"GET", "POST"} \X {"", "h"}

Endpoint(path) == [id |-> "", prio |-> 0, method |-> "", host |-> "", path |-> path,
                   query |-> <<>>, headers |-> <<>>, body |-> <<>>]
Request(path) == [method |-> "GET", host |-> "h", path |-> path,
                  query |-> <<>>, headers |-> <<>>, body |-> "b"]

Symmetry == Permutations(Loaders)

SeqsUpTo(S, n) == UNION {[1..m -> S] : m \in 1..n}

\* All patterns of up to three segments; all paths of up to four segments that the
\* patterns name, of up to two with a name they do not, "/" and trailing slashes.
Patterns == SeqsUpTo({"a", "b", "*", "**", "{x}", "{y}"}, 3)
PatternDefs == {Endpoint(p) : p \in Patterns}
Paths == SeqsUpTo({"a", "b"}, 4) \cup SeqsUpTo({"a", "b", "c"}, 2) \cup
         {<<"">>, <<"a", "">>, <<"a", "b", "">>, <<"*", "b">>}
PathRequests == {Request(p) : p \in Paths}

\* Endpoints that share nodes in many ways.
SharingDefs ==
    {Endpoint(p) : p \in {<<>>, <<"a">>, <<"a", "b">>, <<"a", "*">>, <<"*", "b">>, <<"a", "{x}", "a">>,
                          <<"**", "b">>, <<"a", "**">>, <<"a", "**", "b", "{x}">>, <<"**", "*">>,
                          <<"a", "">>, <<"a", "a">>, <<"*", "*">>, <<"{x}", "b", "**">>, <<"**">>,
                          <<"a", "**", "a">>, <<"a", "{y}">>, <<"**", "b", "*">>}}
PathDefs == PatternDefs \cup SharingDefs

\* A load registers one endpoint with any pattern, or several that share nodes.
AloneOrSharing ==
    \A l \in Loaders : Len(load'[l].registered) > 1 =>
        \A ep \in ToSet(load'[l].registered) : [ep EXCEPT !.id = ""] \in SharingDefs

\* Endpoints of one path that differ in method, host, priority and attributes.
AttributeDefs ==
    {[Endpoint(<<"a">>) EXCEPT !.id = "plain"],
     [Endpoint(<<"a">>) EXCEPT !.prio = 1],
     [Endpoint(<<"a">>) EXCEPT !.prio = 2, !.query = ("q" :> "1")],
     [Endpoint(<<"a">>) EXCEPT !.host = "h", !.headers = ("H" :> "1")],
     [Endpoint(<<"a">>) EXCEPT !.method = "POST", !.body = <<{"b"}>>],
     [Endpoint(<<"a">>) EXCEPT !.body = <<{"b", "c"}>>],
     [Endpoint(<<"a">>) EXCEPT !.prio = 1, !.body = <<{""}>>]}

\* A load of more than two endpoints is the only one.
LongLoadAlone ==
    (\E l \in Loaders : load'[l].endPointCounter > 2) \/ Len(installed') > 2 => loads' = 1

\* Pairs of which the README's rules tell who serves: two priorities, two bodies, two
\* names of one position, two ways through the tree; and one where the scan after "**"
\* has a choice.
PrioDefs == {Endpoint(<<"a">>), [Endpoint(<<"a">>) EXCEPT !.prio = 1]}
BodyDefs == {[Endpoint(<<"a">>) EXCEPT !.body = <<{x}>>] : x \in {"b", "c"}}
VariableDefs == {Endpoint(<<"a", "{x}", "a">>), Endpoint(<<"a", "{y}">>)}
ShadowDefs == {Endpoint(<<"a", "b">>), Endpoint(<<"*", "c">>)}
ScanDefs == {Endpoint(<<"a", "**", "b">>)}
PlainRequests == {Request(p) : p \in SeqsUpTo({"a", "b", "c"}, 4)}

AttributeRequests ==
    [method : {"GET", "POST"}, host : {"", "h"}, path : {<<"a">>}, query : {<<>>, "q" :> "1"},
     headers : {<<>>, "H" :> "1"}, body : {"", "b", "c", Unreadable}]
=============================================================================
