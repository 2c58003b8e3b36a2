----------------------------- MODULE MockLoader -----------------------------
(***************************************************************************)
(* mockgo/mock/requestHandler.go: LoadFiles, run once at the start of the  *)
(* server and again by every POST of /reload, possibly several at a time.  *)
(* A load registers the endpoints of the mock files one by one in a tree   *)
(* of its own and then makes that tree the one that requests are matched   *)
(* with.  The files are abstracted to the endpoints that are read from     *)
(* them: any sequence of Definitions, as they may change at any time.      *)
(***************************************************************************)
EXTENDS EndpointTree

CONSTANTS Definitions,   \* endpoints as they are written in mock files
          Loaders,       \* the goroutines that run LoadFiles
          Requests,      \* the http requests the properties look up
          MaxEndpoints,  \* bound: endpoints read by one load
          MaxLoads       \* bound: loads in a behaviour

ASSUME BoundsAssumption == MaxEndpoints \in Nat /\ MaxLoads \in Nat

\* Each path is a sequence of segments, prio an integer, and method and host are among
\* the keys.
ASSUME DefinitionsAssumption ==
    \A def \in Definitions :
        /\ DOMAIN def = {"id", "prio", "method", "host", "path", "query", "headers", "body"}
        /\ def.path \in Seq(UNION {ToSet(d.path) : d \in Definitions})
        /\ def.prio \in Int
        /\ endpointKey(def) \in EndpointKeys

\* The paths of requests have no empty segment but the last: mux redirects others to
\* their cleaned form.
ASSUME RequestsAssumption ==
    \A req \in Requests :
        /\ req.path \in Seq(UNION {ToSet(r.path) : r \in Requests})
        /\ \A i \in 1..Len(req.path) - 1 : req.path[i] # ""
        /\ {<<req.method, req.host>>, <<req.method, "">>} \subseteq EndpointKeys

\* strconv.Itoa writes different numbers differently.
ASSUME ItoaAssumption == \A i, j \in 1..MaxEndpoints : ToString(i) = ToString(j) => i = j

VARIABLES EpSearchNode,  \* the installed tree
          load,          \* [Loaders -> the locals of LoadFiles]
          installed,     \* history: the endpoints the installed load registered
          loads          \* history: loads begun

loaderVars == <<EpSearchNode, load, installed, loads>>

\* tmpSearchNode, endPointCounter; registered is history.
IdleLoad == [busy |-> FALSE, tmpSearchNode |-> EmptyTree, endPointCounter |-> 0, registered |-> <<>>]

LoaderInit ==
    /\ EpSearchNode = EmptyTree
    /\ load = [l \in Loaders |-> IdleLoad]
    /\ installed = <<>>
    /\ loads = 0

StartLoad(l) ==
    /\ ~load[l].busy /\ loads < MaxLoads
    /\ load' = [load EXCEPT ![l] = [IdleLoad EXCEPT !.busy = TRUE]]
    /\ loads' = loads + 1
    /\ UNCHANGED <<EpSearchNode, installed>>

\* The number of the endpoint in its file, where each file has one.
withIDMutant(def, counter) == [def EXCEPT !.id = IF @ = "" THEN ToString(1) ELSE @]

\* if len(endpoint.ID) == 0 { endpoint.ID = strconv.Itoa(endPointCounter) }
withID(def, counter) == [def EXCEPT !.id = IF @ = "" THEN ToString(counter) ELSE @]

\* A registration in the tree that is already serving requests.
LoadEndpointMutant(l) ==
    LET n == load[l].endPointCounter + 1 IN
    /\ load[l].busy /\ n <= MaxEndpoints
    /\ \E def \in Definitions :
          LET ep == withID(def, n) IN
          /\ load' = [load EXCEPT ![l].endPointCounter = n, ![l].registered = Append(@, ep)]
          /\ EpSearchNode' = registerEndpoint(EpSearchNode, ep)
    /\ UNCHANGED <<installed, loads>>

\* The next endpoint of the mock files, with its templates in order.
LoadEndpoint(l) ==
    LET n == load[l].endPointCounter + 1 IN
    /\ load[l].busy /\ n <= MaxEndpoints
    /\ \E def \in Definitions :
          LET ep == withID(def, n) IN
          load' = [load EXCEPT ![l].endPointCounter = n,
                               ![l].tmpSearchNode = registerEndpoint(@, ep),
                               ![l].registered = Append(@, ep)]
    /\ UNCHANGED <<EpSearchNode, installed, loads>>

\* initResponseTemplates fails: the endpoint is skipped, its number is used up.
SkipEndpoint(l) ==
    /\ load[l].busy /\ load[l].endPointCounter < MaxEndpoints
    /\ load' = [load EXCEPT ![l].endPointCounter = @ + 1]
    /\ UNCHANGED <<EpSearchNode, installed, loads>>

\* walkMatch fails, before any file is read: LoadFiles returns the error.
WalkFails(l) ==
    /\ load[l].busy /\ load[l].endPointCounter = 0
    /\ load' = [load EXCEPT ![l] = IdleLoad]
    /\ UNCHANGED <<EpSearchNode, installed, loads>>

\* readMockFile fails for the next file (it cannot be read, is no YAML or has a
\* bad regular expression): the tree is dropped with what it has of earlier files.
ReadFails(l) ==
    /\ load[l].busy
    /\ load' = [load EXCEPT ![l] = IdleLoad]
    /\ UNCHANGED <<EpSearchNode, installed, loads>>

\* r.EpSearchNode = tmpSearchNode
InstallTree(l) ==
    /\ load[l].busy
    /\ EpSearchNode' = load[l].tmpSearchNode
    /\ installed' = load[l].registered
    /\ load' = [load EXCEPT ![l] = IdleLoad]
    /\ UNCHANGED loads

LoaderNext ==
    \E l \in Loaders :
        StartLoad(l) \/ LoadEndpoint(l) \/ SkipEndpoint(l) \/ WalkFails(l) \/ ReadFails(l)
        \/ InstallTree(l)

LoaderSpec == LoaderInit /\ [][LoaderNext]_loaderVars

-----------------------------------------------------------------------------
Trees == {EpSearchNode} \cup {load[l].tmpSearchNode : l \in Loaders}

\* Every tree is closed under prefixes and keeps its endpoints in the node and
\* under the key that registerEndpoint derives from them.
LoaderTypeOK ==
    /\ \A tree \in Trees :
          /\ \A n \in DOMAIN tree : Prefixes(n) \subseteq DOMAIN tree
          /\ \A n \in DOMAIN tree, k \in EndpointKeys :
                \A ep \in ToSet(tree[n].endpoints[k]) : nodeOf(ep) = n /\ endpointKey(ep) = k
    /\ \A l \in Loaders : load[l].endPointCounter \in 0..MaxEndpoints
    /\ loads \in 0..MaxLoads

\* Requests only ever see the whole result of one load that succeeded: nothing
\* of a load that is under way or has failed, no endpoint lost or doubled by the
\* insertion at its priority.
InstalledWhole ==
    /\ EndpointsOf(EpSearchNode) = ToSet(installed)
    /\ Cardinality(Places(EpSearchNode)) = Len(installed)

\* The ids under which matches are recorded tell the endpoints of a load apart
\* (the ids written in the mock files being no numbers, and distinct).
IDsUnique ==
    \A i, j \in DOMAIN installed : installed[i].id = installed[j].id => installed[i] = installed[j]

\* In any tree, whatever other paths share its nodes: a request is only served by
\* an endpoint whose path pattern, method and host the README's rules say it meets.
PathSound ==
    \A req \in Requests : \A ep \in ToSet(matchRequestToEndpoint(EpSearchNode, req).endpoint) :
        /\ Fits(ep.path, req.path)
        /\ endpointKey(ep) \in {<<req.method, req.host>>, <<req.method, "">>}

\* An endpoint without wildcards is never shadowed by endpoints that have some.
LiteralReached ==
    \A ep \in ToSet(installed) :
        (\A s \in ToSet(ep.path) : segmentKey(s) \notin {"", "*", "**"}) =>
            LET w == walk(EpSearchNode, ep.path) IN w.end # "failed" /\ w.sn = nodeOf(ep)

\* An endpoint that is alone serves exactly the requests that meet its criteria,
\* as long as "**" is not followed by anything.
AloneComplete ==
    Len(installed) = 1 /\ (\A i \in 1..Len(installed[1].path) - 1 : installed[1].path[i] # "**") =>
        \A req \in Requests :
            matchRequestToEndpoint(EpSearchNode, req).endpoint # <<>> <=> Qualifies(installed[1], req)

\* The patterns of an endpoint's path that share a node with those of another.
SameNames(eps) ==
    \A ep, other \in eps : \A n \in (Prefixes(nodeOf(ep)) \cap Prefixes(nodeOf(other))) \ {<<>>} :
        pathParamName(ep.path[Len(n)]) = pathParamName(other.path[Len(n)])

\* Each path variable of ep has the value of the last segment of that name.
ParamsOf(ep, req) ==
    LET named(name) == {i \in DOMAIN ep.path : pathParamName(ep.path[i]) = name}
    IN  \A name \in {pathParamName(s) : s \in ToSet(ep.path)} \ {""} :
            Get(matchRequestToEndpoint(EpSearchNode, req).params, name) = req.path[Max(named(name))]

\* A path variable of the endpoint that serves a request resolves to the segment
\* at its position, without "**" and where no node is shared by different names (a
\* segment that is literally "*" is not bound).
ParamsBound ==
    SameNames(ToSet(installed)) =>
        \A req \in Requests : \A ep \in ToSet(matchRequestToEndpoint(EpSearchNode, req).endpoint) :
            "**" \notin ToSet(ep.path) /\ "*" \notin ToSet(req.path) => ParamsOf(ep, req)

\* The endpoints that share a list were registered by rising priority.
RisingPrio(eps) ==
    \A i, j \in DOMAIN eps :
        i < j /\ nodeOf(eps[i]) = nodeOf(eps[j]) /\ endpointKey(eps[i]) = endpointKey(eps[j]) =>
            eps[i].prio <= eps[j].prio

\* Of the endpoints of the node it leads to, a request is served by one whose criteria
\* it meets, if there is one, and preferably by one for its host.  Among those for the
\* same host it is one of the highest priority, if the mock files list them by rising
\* priority: in any other order insertion puts a lower priority in front (see
\* PrioPrecedence).  At most one of them looks at the body (see QualifiedIsServed).
HighestPrioServed ==
    \A req \in Requests :
        LET w == walk(EpSearchNode, req.path)
            eps == candidates(EpSearchNode, w.sn, req)
            ok == {i \in DOMAIN eps : Qualifies(eps[i], req)}
            served == matchRequestToEndpoint(EpSearchNode, req).endpoint
        IN  w.end # "failed" /\ Cardinality({i \in DOMAIN eps : eps[i].body # <<>>}) <= 1 =>
                /\ served = <<>> <=> ok = {}
                /\ \A ep \in ToSet(served) :
                      /\ Qualifies(ep, req)
                      /\ \A i \in ok :
                            /\ eps[i].host # "" => ep.host # ""
                            /\ RisingPrio(installed) /\ eps[i].host = ep.host => eps[i].prio <= ep.prio

-----------------------------------------------------------------------------
(* What the README says of the endpoints, and the code does not do.        *)

\* "prio" defines the precedence of the endpoints of a path if more than one of them
\* matches (README.md:114), whatever order registerEndpoint meets them in.
PrioPrecedence ==
    \A req \in Requests : \A ep \in ToSet(matchRequestToEndpoint(EpSearchNode, req).endpoint) :
        \A other \in ToSet(installed) :
            nodeOf(other) = nodeOf(ep) /\ Qualifies(other, req) => other.prio <= ep.prio

\* A request that meets all criteria of some endpoint is served, by this one or by
\* another: by the rules of the README one endpoint never hides another from
\* matchRequestToEndpoint.
QualifiedIsServed ==
    \A req \in Requests :
        (\E ep \in ToSet(installed) : Qualifies(ep, req)) =>
            matchRequestToEndpoint(EpSearchNode, req).endpoint # <<>>

\* A "{pathvariable}" of the endpoint that serves a request resolves to the segment at
\* its position (README.md:139), whatever names other endpoints give to this position.
PathVariableResolves ==
    \A req \in Requests : \A ep \in ToSet(matchRequestToEndpoint(EpSearchNode, req).endpoint) :
        "**" \notin ToSet(ep.path) => ParamsOf(ep, req)
=============================================================================
