----------------------------- MODULE MockServer -----------------------------
(***************************************************************************)
(* mockgo/mock/requestHandler.go: AddRoutes, addMatch, addMismatch and     *)
(* renderResponse, composed with the loader of the mock files and with the *)
(* match store.                                                            *)
(*                                                                         *)
(* The matcher function and the handler function of the mock route hand    *)
(* their result over in four variables that AddRoutes declares once, so    *)
(* all requests share them.  net/http serves every request in a goroutine  *)
(* of its own: each of the four assignments and each of the four reads is  *)
(* a step, in any order as nothing synchronizes them.                      *)
(***************************************************************************)
EXTENDS MockLoader

CONSTANTS Clients,        \* request goroutines, each serves one request
          MismatchesKey,  \* the store's key of the mismatches
          StoreKeys,      \* endpoint ids and MismatchesKey
          Capacity,       \* MATCHES_CAPACITY
          ApiSegments,    \* the first path segments that begin with the path prefix of the api
          NoMatch         \* a nil *matches.Match

ASSUME MockServerAssumption == NoMatch \notin Clients

\* The ids of endpoints, written or given by the loader, are keys of their own.
EndpointIDs == StoreKeys \ {MismatchesKey}
ASSUME StoreKeysAssumption ==
    \A def \in Definitions, i \in 1..MaxEndpoints : withID(def, i).id \in EndpointIDs

VARIABLES matches, matchesCount,   \* the match store; a match is the client it is of
          serialised,       \* the store keeps a copy of a match (redis), not the pointer to it
          actualResponse,   \* [Clients -> endpoint ids]: ActualResponse of a client's match as the
                            \* store has it, "" for nil
          shared,           \* the variables of AddRoutes
          pc, req,          \* [Clients -> ...]: next statement, the request
          result,           \* what the matcher has returned and not yet assigned
          todo,             \* the variables still to assign or to read
          view,             \* what the handler has read
          response,         \* [Clients -> the outcome and the X-Endpoint-Id of a rendered response]
          overlapped        \* history: clients that were served while another one was

clientVars == <<serialised, actualResponse, shared, pc, req, result, todo, view, response, overlapped>>
storeVars == <<matches, matchesCount>>
vars == <<loaderVars, storeVars, clientVars>>

Store == INSTANCE Matchstore WITH Keys <- StoreKeys, Match <- Clients

Fields == {"endPoint", "match", "requestPathParam", "queryParams"}

Failed(status) == [status |-> status, id |-> ""]
Rendered(ep) == [status |-> "rendered", id |-> ep.id]

Nil == [endPoint |-> <<>>, match |-> NoMatch, requestPathParam |-> <<>>, queryParams |-> <<>>]

Init ==
    /\ LoaderInit /\ Store!Init
    /\ serialised \in BOOLEAN
    /\ actualResponse = [c \in Clients |-> ""]
    /\ shared = Nil
    /\ pc = [c \in Clients |-> "idle"]
    /\ req \in [Clients -> Requests]
    /\ result = [c \in Clients |-> Nil]
    /\ todo = [c \in Clients |-> {}]
    /\ view = [c \in Clients |-> Nil]
    /\ response = [c \in Clients |-> Failed("none")]
    /\ overlapped = {}

Goto(c, label) == pc' = [pc EXCEPT ![c] = label]
InFlight == {c \in Clients : pc[c] \notin {"idle", "done"}}

-----------------------------------------------------------------------------
\* A mismatch returned in place of a match.
resultsMutant(c, m) == [endPoint |-> m.endpoint, match |-> c,
                        requestPathParam |-> m.params, queryParams |-> req[c].query]

\* What matchRequestToEndpoint returns; without an endpoint there is no match.
results(c, m) == [endPoint |-> m.endpoint, match |-> IF m.endpoint = <<>> THEN NoMatch ELSE c,
                  requestPathParam |-> m.params, queryParams |-> req[c].query]

\* A matcher that clears the shared variables before it looks the request up.
MatchMutant(c) ==
    LET m == matchRequestToEndpoint(EpSearchNode, req[c])
    IN
    /\ pc[c] = "idle" /\ Head(req[c].path) \notin ApiSegments
    /\ Store!Add(IF m.endpoint = <<>> THEN MismatchesKey ELSE m.endpoint[1].id, c)
    /\ result' = [result EXCEPT ![c] = results(c, m)]
    /\ todo' = [todo EXCEPT ![c] = Fields]
    /\ Goto(c, "assign")
    /\ overlapped' = overlapped \cup IF InFlight = {} THEN {} ELSE InFlight \cup {c}
    /\ shared' = Nil
    /\ UNCHANGED <<loaderVars, serialised, actualResponse, req, view, response>>

\* The matcher function up to the assignment.  addMatch and addMismatch record
\* the request before a response exists; the errors of the store are ignored.
Match(c) ==
    LET m == matchRequestToEndpoint(EpSearchNode, req[c])
    IN
    /\ pc[c] = "idle" /\ Head(req[c].path) \notin ApiSegments
    /\ Store!Add(IF m.endpoint = <<>> THEN MismatchesKey ELSE m.endpoint[1].id, c)
    /\ result' = [result EXCEPT ![c] = results(c, m)]
    /\ todo' = [todo EXCEPT ![c] = Fields]
    /\ Goto(c, "assign")
    /\ overlapped' = overlapped \cup IF InFlight = {} THEN {} ELSE InFlight \cup {c}
    /\ UNCHANGED <<loaderVars, serialised, actualResponse, shared, req, view, response>>

\* A request of the api: the matcher returns false, other routes serve it.
SkipApiRequest(c) ==
    /\ pc[c] = "idle" /\ Head(req[c].path) \in ApiSegments
    /\ Goto(c, "done")
    /\ UNCHANGED <<loaderVars, storeVars, serialised, actualResponse, shared, req, result, todo, view,
                   response, overlapped>>

\* An assignment only when an endpoint was found.
AssignMutant(c, f) ==
    /\ pc[c] = "assign" /\ f \in todo[c]
    /\ shared' = IF result[c].endPoint = <<>> THEN shared ELSE [shared EXCEPT ![f] = result[c][f]]
    /\ todo' = [todo EXCEPT ![c] = @ \ {f}]
    /\ Goto(c, IF todo[c] = {f} THEN "decide" ELSE "assign")
    /\ UNCHANGED <<loaderVars, storeVars, serialised, actualResponse, req, result, view, response, overlapped>>

\* endPoint, match, requestPathParam, queryParams = ...
Assign(c, f) ==
    /\ pc[c] = "assign" /\ f \in todo[c]
    /\ shared' = [shared EXCEPT ![f] = result[c][f]]
    /\ todo' = [todo EXCEPT ![c] = @ \ {f}]
    /\ Goto(c, IF todo[c] = {f} THEN "decide" ELSE "assign")
    /\ UNCHANGED <<loaderVars, storeVars, serialised, actualResponse, req, result, view, response, overlapped>>

\* return endPoint != nil: without an endpoint no route matches, mux answers 404.
Decide(c) ==
    /\ pc[c] = "decide"
    /\ \/ /\ shared.endPoint # <<>>
          /\ Goto(c, "read") /\ todo' = [todo EXCEPT ![c] = Fields]
          /\ UNCHANGED response
       \/ /\ shared.endPoint = <<>>
          /\ Goto(c, "done") /\ response' = [response EXCEPT ![c] = Failed("404")]
          /\ UNCHANGED todo
    /\ UNCHANGED <<loaderVars, storeVars, serialised, actualResponse, shared, req, result, view, overlapped>>

\* The arguments of the call of renderResponse.
Read(c, f) ==
    /\ pc[c] = "read" /\ f \in todo[c]
    /\ view' = [view EXCEPT ![c][f] = shared[f]]
    /\ todo' = [todo EXCEPT ![c] = @ \ {f}]
    /\ Goto(c, IF todo[c] = {f} THEN "render" ELSE "read")
    /\ UNCHANGED <<loaderVars, storeVars, serialised, actualResponse, shared, req, result, response, overlapped>>

Respond(c, what) == Goto(c, "done") /\ response' = [response EXCEPT ![c] = what]

\* An ActualResponse that is also set when a stage of the rendering fails.
RenderResponseMutant(c) ==
    LET v == view[c] IN
    /\ pc[c] = "render"
    /\ IF v.endPoint = <<>> THEN Respond(c, Failed("panic")) /\ UNCHANGED actualResponse
       ELSE /\ Respond(c, Rendered(v.endPoint[1])) \/ Respond(c, Failed("500"))
            /\ actualResponse' = IF v.match = NoMatch \/ serialised THEN actualResponse
                                 ELSE [actualResponse EXCEPT ![v.match] = v.endPoint[1].id]
    /\ UNCHANGED <<loaderVars, storeVars, serialised, shared, req, result, todo, view, overlapped>>

\* renderResponse: a nil endpoint panics before anything is written (net/http
\* recovers and closes the connection); a template or a conversion that fails
\* answers 500, a status code net/http refuses panics, both leave the match as it
\* is; otherwise the response is written and then noted in the match.  If that is
\* nil this panics, and the response is lost unless net/http has flushed it.  A store
\* that got the match as a pointer now has the response too; the redis store has
\* marshalled the match in AddMatch, when it was nil.
RenderResponse(c) ==
    LET v == view[c] IN
    /\ pc[c] = "render"
    /\ \/ /\ v.endPoint = <<>>
          /\ Respond(c, Failed("panic")) /\ UNCHANGED actualResponse
       \/ /\ v.endPoint # <<>>
          /\ Respond(c, Failed("500")) \/ Respond(c, Failed("panic"))
          /\ UNCHANGED actualResponse
       \/ /\ v.endPoint # <<>> /\ v.match = NoMatch
          /\ Respond(c, Rendered(v.endPoint[1])) /\ UNCHANGED actualResponse
       \/ /\ v.endPoint # <<>> /\ v.match # NoMatch /\ serialised
          /\ Respond(c, Rendered(v.endPoint[1])) /\ UNCHANGED actualResponse
       \/ /\ v.endPoint # <<>> /\ v.match # NoMatch /\ ~serialised
          /\ Respond(c, Rendered(v.endPoint[1]))
          /\ actualResponse' = [actualResponse EXCEPT ![v.match] = v.endPoint[1].id]
    /\ UNCHANGED <<loaderVars, storeVars, serialised, shared, req, result, todo, view, overlapped>>

\* DELETE of the matches of an endpoint or of the mismatches.
DeleteRecords(k) == Store!Delete(k) /\ UNCHANGED <<loaderVars, clientVars>>

Reload == LoaderNext /\ UNCHANGED <<storeVars, clientVars>>

Next ==
    \/ \E c \in Clients :
          \/ Match(c) \/ SkipApiRequest(c) \/ Decide(c) \/ RenderResponse(c)
          \/ \E f \in Fields : Assign(c, f) \/ Read(c, f)
    \/ \E k \in StoreKeys : DeleteRecords(k)
    \/ Reload

Spec == Init /\ [][Next]_vars

-----------------------------------------------------------------------------
\* Type correctness of the shared variables and of the goroutines' locals.
TypeOK ==
    /\ LoaderTypeOK
    /\ DOMAIN shared = Fields /\ shared.match \in Clients \cup {NoMatch}
    /\ pc \in [Clients -> {"idle", "assign", "decide", "read", "render", "done"}]
    /\ \A c \in Clients : result[c].match = NoMatch <=> result[c].endPoint = <<>>
    /\ todo \in [Clients -> SUBSET Fields]
    /\ \A c \in Clients : pc[c] \in {"assign", "read"} <=> todo[c] # {}
    /\ response \in [Clients -> {Failed(s) : s \in {"none", "404", "500", "panic"}}
                               \cup [status : {"rendered"}, id : EndpointIDs]]
    /\ serialised \in BOOLEAN
    /\ actualResponse \in [Clients -> {""} \cup EndpointIDs]

Done(c) == pc[c] = "done" /\ Head(req[c].path) \notin ApiSegments

\* A request that no other one overlaps gets what it matched, whatever reloads go
\* on: the response of the matched endpoint rendered with its own parameters
\* (or the failure of its template), and 404 only after a mismatch.
ServedAlone ==
    \A c \in Clients : Done(c) /\ c \notin overlapped =>
        IF result[c].endPoint = <<>> THEN response[c] = Failed("404")
        ELSE /\ response[c] \in {Failed("500"), Failed("panic"), Rendered(result[c].endPoint[1])}
             /\ view[c] = result[c]

\* When a request that no other one has overlapped ends, its recorded match carries a
\* response exactly if one was rendered for it (in redis never), whatever overlaps there
\* were before.  Later it changes only while others overlap: such a request may render
\* with the match of an earlier one that is still in the shared variables.
RecordedAlone ==
    [][\A c \in Clients :
          /\ Done(c)' /\ ~Done(c) /\ c \notin overlapped' =>
                actualResponse'[c] = IF serialised THEN "" ELSE response'[c].id
          /\ Done(c) /\ actualResponse'[c] # actualResponse[c] =>
                ~serialised /\ overlapped \cap InFlight # {}]_vars

\* The response of a request that was rendered alone is stored for its match
\* (matches/matchstore.go:35).
ResponseStored ==
    \A c \in Clients : Done(c) /\ overlapped = {} /\ response[c].status = "rendered" =>
        actualResponse[c] # ""

\* The requests that found no endpoint.
Mismatched == {c \in Clients : pc[c] # "idle" /\ Head(req[c].path) \notin ApiSegments
                              /\ result[c].endPoint = <<>>}

\* However many requests overlap, none is answered 404 and none panics for want
\* of an endpoint unless some request mismatched: between two requests that match
\* the shared variables are never empty.
LostOnlyToMismatch ==
    (\E c \in Clients : response[c].status = "404"
                        \/ (pc[c] = "render" /\ view[c].endPoint = <<>>)) => Mismatched # {}

\* A request that matched an endpoint is never answered with the response of
\* another one.
MatchedIsServed ==
    \A c \in Clients : Done(c) /\ result[c].endPoint # <<>> /\ response[c].status = "rendered" =>
        response[c] = Rendered(result[c].endPoint[1])
=============================================================================
