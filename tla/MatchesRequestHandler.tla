----------------------- MODULE MatchesRequestHandler -----------------------
(***************************************************************************)
(* mockgo/matches/requestHandler.go: the http API of the match store, on   *)
(* top of the gRPC match store of a cluster.                               *)
(***************************************************************************)
EXTENDS GrpcMatchstore, HttpUtil

VARIABLE refused   \* [Clients -> the status the http request was refused with]

Init == StoreInit /\ refused = [c \in Clients |-> Pass]

Requests == [health : BOOLEAN, auth : BOOLEAN, contentType : {JSON}, accept : {JSON, "*/*"},
             vars : {[endpointId |-> "e"]}]

\* The routes and the checks their handlers are wrapped in.
AddRoutes(op, r) ==
    Chain(<<BasicAuthMiddleware(r)>> \o
          (IF op = "Delete" THEN <<>> ELSE <<JSONAcceptRequest(r)>>) \o
          <<PathParamRequest(r)>>)

Ops == {"Get", "Count", "Delete"}
Refusals == (UNION {{AddRoutes(op, r) : r \in Requests} : op \in Ops}) \ {Pass}

\* A request of the API whose checks pass.
Handle(c) ==
    /\ \E op \in Ops, k \in Keys : Begin(c, op, k)
    /\ UNCHANGED refused

Refuse(c) ==
    /\ At(c, {"idle"}) /\ HostOf[c] \in up /\ calls < MaxCalls
    /\ calls' = calls + 1
    /\ call' = [call EXCEPT ![c].pc = "done"]
    /\ \E status \in Refusals : refused' = [refused EXCEPT ![c] = status]
    /\ UNCHANGED <<store, up, sent, recorded, crashes, faulty>>

\* The handlers: an error of the store is a 500, everything else a 200.
status(r) == IF r.err THEN "InternalServerError" ELSE "OK"
handleGetMatches(r) == [status |-> status(r), list |-> IF r.err THEN <<>> ELSE GetMatches(r.lists)]
handleGetMatchesCount(r) == [status |-> status(r), count |-> r.total]
handleGetMismatches(r) == [status |-> status(r), list |-> IF r.err THEN <<>> ELSE GetMismatches(r.lists)]
handleGetMismatchesCount(r) == [status |-> status(r), count |-> r.total]
handleDeleteMatches(r) == [status |-> status(r)]
handleDeleteMismatches(r) == [status |-> status(r)]

Answer(c) ==
    LET r == call[c]
        mismatches == r.key = MismatchesKey
    IN  CASE r.op = "Get" -> IF mismatches THEN handleGetMismatches(r) ELSE handleGetMatches(r)
          [] r.op = "Count" -> IF mismatches THEN handleGetMismatchesCount(r)
                                             ELSE handleGetMatchesCount(r)
          [] r.op = "Delete" -> IF mismatches THEN handleDeleteMismatches(r)
                                              ELSE handleDeleteMatches(r)

Respond(c) ==
    /\ At(c, {"done"})
    /\ call' = [call EXCEPT ![c] = NoCall]
    /\ refused' = [refused EXCEPT ![c] = Pass]
    /\ UNCHANGED <<store, up, sent, bounds, faulty>>

\* A response commutes with the steps of others, so it is taken at once.
Step ==
    \/ \E c \in Clients : Respond(c)
    \/ /\ \A c \in Clients : ~At(c, {"done"})
       /\ \/ \E c \in Clients : Handle(c) \/ Refuse(c)
          \/ /\ \/ \E c \in Clients : Invoke(c) \/ InvokeFails(c) \/ Receive(c) \/ Deadline(c)
                                      \/ Disconnected(c)
                \/ \E m \in sent : Fetch(m) \/ FetchCount(m) \/ RemoveMatches(m)
                \/ \E w \in walks : FetchNext(w) \/ FetchEnds(w) \/ FetchPanics(w)
                \/ \E h \in Hosts : Crash(h) \/ Restart(h) \/ \E k \in Keys : Add(h, k)
                \/ SetResponse
             /\ UNCHANGED refused

Next == Step /\ Observe

allVars == <<vars, refused>>

Spec == Init /\ [][Next]_allVars

-----------------------------------------------------------------------------
\* Type correctness; one list is gathered of every peer that has answered.
TypeOK ==
    /\ \A h \in Hosts, k \in Keys :
          /\ ToSet(matches[h][k]) \subseteq 1..recorded /\ Len(matches[h][k]) <= Capacity
          /\ count[h][k] \in Len(matches[h][k])..recorded
    /\ up \subseteq Hosts
    /\ \A c \in Clients :
          /\ call[c].peer \in DOMAIN Peers
          /\ call[c].key \in Keys
          /\ At(c, {"next", "wait"}) => Len(call[c].lists) = call[c].peer - 1
          /\ At(c, {"reply"}) => Len(call[c].lists) = call[c].peer
    /\ \A m \in sent \cup {w.req : w \in walks} : m.to \in Hosts /\ m.n \in 1..calls
    /\ \A w \in walks : w.got # <<>> /\ ToSet(w.got) \subseteq 1..recorded

Succeeded(op) ==
    {c \in Clients : At(c, {"done"}) /\ call[c].op = op /\ Answer(c).status = "OK"}

\* What the i-th peer has stored during the whole call, and the case in which its
\* answer may lack some of that: the walk was cut off by the removal of the element
\* it had reached, so that all it had listed is gone by then.
Throughout(c, i) == stay[c] \cap ToSet(matches[Peers[i].host][call[c].key])
CutOff(c, i) ==
    LET got == call[c].lists[i]
    IN  got # <<>> /\ ToSet(got) \cap ToSet(matches[Peers[i].host][call[c].key]) = {}

\* A 200 for GET /matches or /mismatches lists none twice, none that was not stored
\* during the call, and of every host all that it stored during the whole call,
\* unless all that the host has listed was evicted, deleted or lost meanwhile.
NothingMissed ==
    \A c \in Succeeded("Get") :
        LET list == Answer(c).list
        IN  /\ ToSet(list) \subseteq seen[c] /\ Cardinality(ToSet(list)) = Len(list)
            /\ \A i \in DOMAIN Peers : Throughout(c, i) \subseteq ToSet(list) \/ CutOff(c, i)

\* What the comment of GetMatches says: a 200 lists all requests that were stored
\* during the whole call.
ListsAll == \A c \in Succeeded("Get") : stay[c] \subseteq ToSet(Answer(c).list)

\* The requests of one host are listed oldest first, and the hosts take turns for
\* matches: a host's i-th request comes before the next host's i-th and before
\* its (i+1)-th; for mismatches the hosts follow each other.
GatheredInOrder ==
    \A c \in Succeeded("Get") :
        LET list == Answer(c).list
            lists == call[c].lists
            pos(i, j) == CHOOSE p \in DOMAIN list : list[p] = lists[i][j]
            isBefore(i, j, x, y) == IF call[c].key = MismatchesKey THEN i < x \/ (i = x /\ j < y)
                                                                   ELSE j < y \/ (j = y /\ i < x)
        IN  \A i, x \in DOMAIN lists : \A j \in DOMAIN lists[i], y \in DOMAIN lists[x] :
                isBefore(i, j, x, y) => pos(i, j) < pos(x, y)

\* A 200 for GET /matchesCount or /mismatchesCount lies between what the hosts had
\* counted when the call began and when it ended, if nothing was deleted or lost
\* in the meantime.
CountBetween ==
    \A c \in Succeeded("Count") \ cut : Answer(c).count \in call[c].from..Total(call[c].key)

\* A 200 for DELETE means that nothing which was stored when the call began is
\* still stored at any host.
DeletedEverywhere == \A c \in Succeeded("Delete") : stay[c] = {}

\* As long as no host has stopped and no call took longer than the deadline, a
\* request with the right headers and credentials is answered with 200.
FaultFreeSucceeds ==
    \A c \in Clients : At(c, {"done"}) /\ refused[c] = Pass /\ ~faulty => Answer(c).status = "OK"
=============================================================================
