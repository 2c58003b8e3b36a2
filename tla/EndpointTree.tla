---------------------------- MODULE EndpointTree ----------------------------
(***************************************************************************)
(* mockgo/mock/requestHandler.go: the search tree of the mock endpoints,   *)
(* how registerEndpoint grows it and how matchRequestToEndpoint looks a    *)
(* request up in it.                                                       *)
(*                                                                         *)
(* A node is the sequence of the map keys that lead to it from the root; a *)
(* tree is a function from its nodes to their pathParamName and endpoints. *)
(* An endpoint is a record with the fields of the mock file that matching  *)
(* reads: id, prio, method, host, path (the segments of request.path),     *)
(* query, headers (functions) and body (<<>>, or <<S>> for a regular       *)
(* expression that matches the bodies in S).  A request is a record with   *)
(* the fields method, host, path, query, headers, body.                    *)
(***************************************************************************)
EXTENDS Integers, Sequences, SequencesExt, FiniteSetsExt, Functions

CONSTANTS ParamName,    \* a function: pathvariable of each segment "{pathvariable}"
          EndpointKeys, \* <<method, host>> pairs, host "" for endpoints without one
          Unreadable    \* the body of a request whose reading fails

\* The wildcards have no braces.
ASSUME ParamNameAssumption == "*" \notin DOMAIN ParamName /\ "**" \notin DOMAIN ParamName

-----------------------------------------------------------------------------
(* registerEndpoint                                                        *)

EmptyNode == [pathParamName |-> "", endpoints |-> [k \in EndpointKeys |-> <<>>]]

\* &epSearchNode{}
EmptyTree == [n \in {<<>>} |-> EmptyNode]

\* "{name}" is stored under "*" and leaves its name in the node.
segmentKey(s) == IF s \in DOMAIN ParamName THEN "*" ELSE s
pathParamName(s) == IF s \in DOMAIN ParamName THEN ParamName[s] ELSE ""

nodeOf(ep) == [i \in DOMAIN ep.path |-> segmentKey(ep.path[i])]

endpointKey(ep) == <<IF ep.method = "" THEN "GET" ELSE ep.method, ep.host>>

\* Behind the first endpoint of lower priority.
insertByPrioMutant(eps, ep) ==
    LET lower == {i \in DOMAIN eps : ep.prio > eps[i].prio}
    IN  InsertAt(eps, IF lower = {} THEN 1 ELSE Min(lower) + 1, ep)

\* In front of the first endpoint of lower priority; in front of all when there
\* is none.
insertByPrio(eps, ep) ==
    LET lower == {i \in DOMAIN eps : ep.prio > eps[i].prio}
    IN  InsertAt(eps, IF lower = {} THEN 1 ELSE Min(lower), ep)

\* The target alone, without the nodes that lead to it.
nodesToMutant(target) == {target} \ {<<>>}

\* The nodes from the root to target, without the root.
nodesTo(target) == Prefixes(target) \ {<<>>}

\* The nodes of the path are created where they are missing.  Each one on the
\* way takes the pathParamName of this endpoint, whoever created it.
registerEndpoint(tree, ep) ==
    LET target == nodeOf(ep)
        way == nodesTo(target)
        old(n) == IF n \in DOMAIN tree THEN tree[n] ELSE EmptyNode
    IN  [n \in DOMAIN tree \cup way |->
            [pathParamName |-> IF n \in way THEN pathParamName(ep.path[Len(n)])
                               ELSE old(n).pathParamName,
             endpoints |-> IF n = target
                           THEN [old(n).endpoints EXCEPT ![endpointKey(ep)] = insertByPrio(@, ep)]
                           ELSE old(n).endpoints]]

\* All endpoints registered in a tree.
EndpointsOf(tree) ==
    UNION {ToSet(tree[n].endpoints[k]) : n \in DOMAIN tree, k \in EndpointKeys}

\* Where they are: the node, the key and the position in its list.
Places(tree) ==
    UNION {{<<n, k>>} \X DOMAIN tree[n].endpoints[k] : n \in DOMAIN tree, k \in EndpointKeys}

-----------------------------------------------------------------------------
(* matchRequestToEndpoint: the path.                                       *)

\* The last segment taken for the end of the path.
getPathSegmentMutant(segments, pos) == IF pos + 1 < Len(segments) THEN segments[pos + 1] ELSE ""

\* Positions count from 0, "" is returned beyond the end.
getPathSegment(segments, pos) == IF pos < Len(segments) THEN segments[pos + 1] ELSE ""

HasChild(tree, sn, s) == Append(sn, s) \in DOMAIN tree
IsLeaf(tree, sn) == \A n \in DOMAIN tree : Len(n) # Len(sn) + 1 \/ ~IsPrefix(sn, n)

\* The wildcard tried before the segment's own name.
childKeysMutant(segment) == <<"*", segment, "**">>

\* The keys of the children map that are tried for a segment, in this order.
childKeys(segment) == <<segment, "*", "**">>

\* A path variable that is never stored.
bindMutant(params, name, segment) == params

\* if len(sn.pathParamName) > 0 { requestPathParams[sn.pathParamName] = pathSegment }
bind(params, name, segment) ==
    IF name = "" THEN params
    ELSE [n \in DOMAIN params \cup {name} |-> IF n = name THEN segment ELSE params[n]]

\* The state of the loop.  The current segment is getPathSegment(path, pos - 1).
walkStart == [sn |-> <<>>, pos |-> 1, allMatch |-> FALSE, end |-> "", params |-> <<>>]

\* A leaf that serves any longer path.
leafEndMutant(allMatch) == "found"

\* There are segments left at a leaf: they match only after a "**".
leafEnd(allMatch) == IF allMatch THEN "found" ELSE "failed"

\* One iteration of the loop over the segments.  After a "**" the first segment
\* with a child of its own name ends the wildcard; if there is none the scan
\* runs off the end, the segment becomes "" and the position stays.
walkStep(tree, path, st) ==
    LET sn == st.sn
        hits == {i \in st.pos..Len(path) : path[i] # "" /\ HasChild(tree, sn, path[i])}
        exhausted == st.allMatch /\ hits = {}
        pos == IF st.allMatch /\ hits # {} THEN Min(hits) ELSE st.pos
        segment == IF exhausted THEN "" ELSE getPathSegment(path, pos - 1)
        keys == childKeys(segment)
        found == {i \in DOMAIN keys : HasChild(tree, sn, keys[i])}
        key == keys[Min(found)]
        via(wildcard) == key = wildcard /\ segment # wildcard
        child == Append(sn, key)
    IN  IF IsLeaf(tree, sn) THEN [st EXCEPT !.end = leafEnd(st.allMatch)]
        ELSE IF found = {} THEN [st EXCEPT !.end = "failed"]
        ELSE [st EXCEPT !.sn = child, !.pos = pos + 1, !.allMatch = via("**"),
                        !.params = IF via("*") THEN bind(@, tree[child].pathParamName, segment)
                                   ELSE @]

\* The node the path leads to, and the path parameters on the way.
walk(tree, path) ==
    LET step(st) == IF st.end # "" \/ getPathSegment(path, st.pos - 1) = "" THEN st
                    ELSE walkStep(tree, path, st)
        after[i \in 0..Len(path)] == IF i = 0 THEN walkStart ELSE step(after[i - 1])
    IN  after[Len(path)]

-----------------------------------------------------------------------------
(* matchSearchNode and matchEndPointsAttributes.                           *)

\* url.Values.Get, http.Header.Get
Get(values, k) == IF k \in DOMAIN values THEN values[k] ELSE ""

matchQueryParams(ep, req) == \A k \in DOMAIN ep.query : Get(req.query, k) = ep.query[k]
matchHeaderValues(ep, req) == \A k \in DOMAIN ep.headers : Get(req.headers, k) = ep.headers[k]

readsBody(ep, req) ==
    matchQueryParams(ep, req) /\ matchHeaderValues(ep, req) /\ ep.body # <<>>

\* What is left of the body once the endpoints eps have been tried: io.ReadAll
\* consumes it, a body that cannot be read stays so.
bodyAfter(eps, req) ==
    IF req.body # Unreadable /\ \E i \in DOMAIN eps : readsBody(eps[i], req) THEN "" ELSE req.body

matchBody(ep, body) == ep.body # <<>> => body # Unreadable /\ body \in ep.body[1]

\* The endpoints of the host first, then those without a host; a request without one
\* is looked up under a key that no endpoint has.
candidates(tree, sn, req) ==
    LET hosted == IF req.host = "" THEN <<>> ELSE tree[sn].endpoints[<<req.method, req.host>>]
    IN  hosted \o tree[sn].endpoints[<<req.method, "">>]

\* The positions of eps whose criteria hold when they are tried one by one.
matching(eps, req) ==
    {i \in DOMAIN eps :
        /\ matchQueryParams(eps[i], req) /\ matchHeaderValues(eps[i], req)
        /\ matchBody(eps[i], bodyAfter(SubSeq(eps, 1, i - 1), req))}

\* The result: the endpoint (<<>> for a mismatch), the path parameters, and what
\* is left of the body for the response template.
matchRequestToEndpoint(tree, req) ==
    LET w == walk(tree, req.path)
        eps == IF w.end = "failed" THEN <<>> ELSE candidates(tree, w.sn, req)
        hits == matching(eps, req)
        tried == IF hits = {} THEN eps ELSE SubSeq(eps, 1, Min(hits))
    IN  [endpoint |-> IF hits = {} THEN <<>> ELSE <<eps[Min(hits)]>>,
         params |-> w.params,
         body |-> bodyAfter(tried, req)]

-----------------------------------------------------------------------------
(* The README's definition of path matching, for comparison.               *)

\* A trailing slash does not add a segment to the path of a request.
PathLength(path) == IF path # <<>> /\ Last(path) = "" THEN Len(path) - 1 ELSE Len(path)

\* A literal matches itself, "*" and "{name}" any one segment, "**" one or more:
\* the path can be cut into one part per segment of the pattern.
Fits(pattern, path) ==
    LET m == Len(pattern)
        n == PathLength(path)
    IN  \E start \in [1..m + 1 -> 1..n + 1] :
            /\ start[1] = 1 /\ start[m + 1] = n + 1
            /\ \A i \in 1..m :
                  /\ start[i] < start[i + 1]
                  /\ pattern[i] # "**" => /\ start[i + 1] = start[i] + 1
                                          /\ segmentKey(pattern[i]) \in {"*", path[start[i]]}

\* The request meets every criterion of the endpoint.
Qualifies(ep, req) ==
    /\ Fits(ep.path, req.path)
    /\ endpointKey(ep) \in {<<req.method, req.host>>, <<req.method, "">>}
    /\ matchQueryParams(ep, req) /\ matchHeaderValues(ep, req) /\ matchBody(ep, req.body)
=============================================================================
