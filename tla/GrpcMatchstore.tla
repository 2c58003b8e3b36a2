--------------------------- MODULE GrpcMatchstore ---------------------------
(***************************************************************************)
(* mockgo-grpc/matchstore/matchstore.go: every host records the requests   *)
(* it serves in an in-memory store of its own; a call of the API asks the  *)
(* peers one after the other, the own host among them, and gives up at the *)
(* first error.  One deadline of a second covers all peers of a call.  A   *)
(* recorded request is abstracted to its number in the order of recording; *)
(* the writes and the counts of a host's store are one step each, as in a  *)
(* serial store, but a listing walks the list while it changes             *)
(* (InMemoryMatchstore has the statements of all of them).                 *)
(***************************************************************************)
EXTENDS GrpcCluster, FiniteSets, SequencesExt

CONSTANTS EndpointIDs, MismatchesKey,   \* the keys of the match stores
          Capacity,                     \* MATCHES_CAPACITY
          Clients,                      \* goroutines that serve the API
          HostOf,                       \* [Clients -> Hosts]: where they run
          MaxRecords, MaxCalls,         \* bounds: requests recorded, calls
          MaxOpen,                      \* bound: matches without a response at a time
          MaxCrashes                    \* bound: hosts that stop

ASSUME GrpcMatchstoreAssumption ==
    /\ MismatchesKey \notin EndpointIDs
    /\ HostOf \in [Clients -> Hosts]
    /\ Capacity \in Nat /\ MaxRecords \in Nat /\ MaxCalls \in Nat
    /\ MaxOpen \in Nat /\ MaxCrashes \in Nat

Keys == EndpointIDs \cup {MismatchesKey}
Peers == matchstoreAddresses
PeerHosts == {Peers[i].host : i \in DOMAIN Peers}

VARIABLES matches,    \* [Hosts -> [Keys -> Seq(Nat)]]: the Matchstore of a host
          count,      \* [Hosts -> [Keys -> Nat]]
          open,       \* the stored or listed matches that have no ActualResponse yet
          walks,      \* the executions of FetchMatches and FetchMismatches under way:
                      \* [req: the request, got: what GetMatches has listed so far]
          up,         \* the hosts that are running
          call,       \* [Clients -> its call: pc as in GrpcKVStore and "reply", "done"]
          sent,       \* requests to peers that were sent and not executed
          recorded, calls, crashes,   \* history: for the bounds
          faulty,     \* history: a host has stopped or a call has met its deadline
          stay, seen, \* history, [Clients -> what was stored for its key all along,
                      \* or at some time, since its call began]
          cut         \* history: the clients during whose call a counter was reduced

store == <<matches, count, open, walks>>
bounds == <<recorded, calls, crashes>>
vars == <<store, up, call, sent, bounds, faulty, stay, seen, cut>>

NoCall == [pc |-> "idle", n |-> 0, op |-> "none", key |-> MismatchesKey, peer |-> 1,
           lists |-> <<>>, total |-> 0, err |-> FALSE, from |-> 0]
Empty == [k \in Keys |-> <<>>]
Zero == [k \in Keys |-> 0]

StoreInit ==
    /\ matches = [h \in Hosts |-> Empty] /\ count = [h \in Hosts |-> Zero]
    /\ open = {} /\ walks = {}
    /\ up = Hosts
    /\ call = [c \in Clients |-> NoCall]
    /\ sent = {}
    /\ recorded = 0 /\ calls = 0 /\ crashes = 0
    /\ faulty = FALSE
    /\ stay = [c \in Clients |-> {}] /\ seen = [c \in Clients |-> {}] /\ cut = {}

\* A capacity check that is off by one.
NewestMutant(s, n) == IF Len(s) <= n + 1 THEN s ELSE SubSeq(s, Len(s) - n, Len(s))

Newest(s, n) == IF Len(s) <= n THEN s ELSE SubSeq(s, Len(s) - n + 1, Len(s))

\* All requests that some host has stored.
StoredAnywhere == UNION {ToSet(matches[h][k]) : h \in Hosts, k \in Keys}

\* All requests that a host still refers to.
InUse == StoredAnywhere \cup UNION {ToSet(w.got) : w \in walks}

\* AddMatch, AddMismatch of the embedded Matchstore, for a request the host serves.
Add(h, k) ==
    LET n == recorded + 1 IN
    /\ h \in up /\ n <= MaxRecords
    /\ recorded' = n
    /\ matches' = [matches EXCEPT ![h][k] = Newest(Append(@, n), Capacity)]
    /\ count' = [count EXCEPT ![h][k] = @ + 1]
    /\ k \in EndpointIDs => Cardinality(open) < MaxOpen
    /\ UNCHANGED <<walks, up, call, sent, calls, crashes, faulty>>
    /\ open' = (IF k \in EndpointIDs THEN open \cup {n} ELSE open) \cap InUse'

\* The mock handler of a host sets ActualResponse, unless rendering has failed.
SetResponse ==
    /\ \E n \in open : open' = open \ {n}
    /\ UNCHANGED <<matches, count, walks, up, call, sent, bounds, faulty>>

-----------------------------------------------------------------------------
\* The calls of a client, in the order of its steps.
At(c, labels) == call[c].pc \in labels
To(c) == Peers[call[c].peer].host
Serves(a) == a.host \in up /\ ServiceAt(a.port) = "Matchstore"

\* The sums of the first 0, 1, 2, ... numbers of s.
SumUpTo(s) == LET sum[i \in 0..Len(s)] == IF i = 0 THEN 0 ELSE sum[i - 1] + s[i] IN sum

\* What the peers have counted, in the order of the calls, and all together.
Counts(k) == [i \in DOMAIN Peers |-> count[Peers[i].host][k]]
Total(k) == SumUpTo(Counts(k))[Len(Peers)]

\* GetMatches and GetMismatches, ...Count, Delete...: for a key of the store.
Begin(c, op, k) ==
    /\ At(c, {"idle"}) /\ HostOf[c] \in up /\ calls < MaxCalls
    /\ calls' = calls + 1
    /\ call' = [call EXCEPT ![c] = [NoCall EXCEPT !.pc = "next", !.n = calls + 1, !.op = op,
                                                  !.key = k,
                                                  !.from = IF op = "Count" THEN Total(k) ELSE 0]]
    /\ UNCHANGED <<store, up, sent, recorded, crashes, faulty>>

Request(c) == [n |-> call[c].n, op |-> call[c].op, key |-> call[c].key, to |-> To(c)]

\* client.FetchMatches(ctx, ...) and the like: the request leaves.
Invoke(c) ==
    /\ At(c, {"next"}) /\ Serves(Peers[call[c].peer])
    /\ sent' = sent \cup {Request(c)}
    /\ call' = [call EXCEPT ![c].pc = "wait"]
    /\ UNCHANGED <<store, up, bounds, faulty>>

Fails(c) == call' = [call EXCEPT ![c].pc = "done", ![c].err = TRUE]

\* There is no server at the address, or the connection was lost in a crash and is
\* not yet tried again, or the server does not know the service Matchstore.
InvokeFails(c) ==
    /\ At(c, {"next"}) /\ (~Serves(Peers[call[c].peer]) \/ crashes > 0)
    /\ Fails(c)
    /\ UNCHANGED <<store, up, sent, bounds, faulty>>

\* The deadline of the call, at whatever peer it is.
Deadline(c) ==
    /\ At(c, {"next", "wait", "reply"})
    /\ Fails(c)
    /\ faulty' = TRUE
    /\ UNCHANGED <<store, up, sent, bounds>>

Disconnected(c) ==
    /\ At(c, {"broken"})
    /\ Fails(c)
    /\ UNCHANGED <<store, up, sent, bounds, faulty>>

\* The answer of a peer: on to the next one, or the end of the loop.
Receive(c) ==
    /\ At(c, {"reply"})
    /\ LET r == call[c] IN
       call' = [call EXCEPT ![c] = IF r.peer < Len(Peers)
                   THEN [r EXCEPT !.pc = "next", !.peer = r.peer + 1] ELSE [r EXCEPT !.pc = "done"]]
    /\ UNCHANGED <<store, up, sent, bounds, faulty>>

-----------------------------------------------------------------------------
\* The peer's side, perhaps after the caller has given up.
Reply(m, list, n) ==
    call' = [c \in Clients |->
                IF At(c, {"wait"}) /\ Request(c) = m
                THEN [call[c] EXCEPT !.pc = "reply", !.lists = Append(@, list), !.total = @ + n]
                ELSE call[c]]

\* FetchMatches, FetchMismatches: GetMatches of the in-memory store begins at the
\* front of the list.
Fetch(m) ==
    LET list == matches[m.to][m.key] IN
    /\ m.op = "Get"
    /\ \/ /\ list # <<>>
          /\ walks' = walks \cup {[req |-> m, got |-> <<Head(list)>>]}
          /\ UNCHANGED call
       \/ /\ list = <<>>
          /\ Reply(m, <<>>, 0)
          /\ UNCHANGED walks
    /\ sent' = sent \ {m}
    /\ UNCHANGED <<matches, count, open, up, bounds, faulty>>

\* match.Next(): the element behind the last one listed, nil at the end of the list
\* and when that one was removed meanwhile.
Listing(w) == matches[w.req.to][w.req.key]
IsNext(w, i) == Listing(w)[i - 1] = Last(w.got)
NextIsNil(w) == \A i \in 2..Len(Listing(w)) : ~IsNext(w, i)

FetchNext(w) ==
    /\ \E i \in 2..Len(Listing(w)) :
          /\ IsNext(w, i)
          /\ walks' = (walks \ {w}) \cup {[w EXCEPT !.got = Append(@, Listing(w)[i])]}
    /\ UNCHANGED <<matches, count, open, up, call, sent, bounds, faulty>>

\* mapMatch dereferences ActualResponse.
Unmappable(w) == ToSet(w.got) \cap open # {}

\* The list is mapped and returned.
FetchEnds(w) ==
    /\ NextIsNil(w) /\ ~Unmappable(w)
    /\ Reply(w.req, w.got, 0)
    /\ walks' = walks \ {w}
    /\ UNCHANGED <<matches, count, open, up, sent, bounds, faulty>>

\* A count of what is stored.
FetchCountMutant(m) ==
    /\ m.op = "Count"
    /\ Reply(m, <<>>, Len(matches[m.to][m.key]))
    /\ sent' = sent \ {m}
    /\ UNCHANGED <<store, up, bounds, faulty>>

\* FetchMatchesCount, FetchMismatchesCount
FetchCount(m) ==
    /\ m.op = "Count"
    /\ Reply(m, <<>>, count[m.to][m.key])
    /\ sent' = sent \ {m}
    /\ UNCHANGED <<store, up, bounds, faulty>>

\* A removal of the mismatches whatever the request is about.
RemoveMatchesMutant(m) ==
    /\ m.op = "Delete"
    /\ matches' = [matches EXCEPT ![m.to][MismatchesKey] = <<>>]
    /\ count' = [count EXCEPT ![m.to][MismatchesKey] = 0]
    /\ Reply(m, <<>>, 0)
    /\ sent' = sent \ {m}
    /\ UNCHANGED <<open, walks, up, bounds, faulty>>

\* RemoveMatches, RemoveMismatches
RemoveMatches(m) ==
    /\ m.op = "Delete"
    /\ matches' = [matches EXCEPT ![m.to][m.key] = <<>>]
    /\ count' = [count EXCEPT ![m.to][m.key] = 0]
    /\ Reply(m, <<>>, 0)
    /\ sent' = sent \ {m}
    /\ UNCHANGED <<walks, up, bounds, faulty>>
    /\ open' = open \cap InUse'

\* A host stops: what it has recorded is gone, its calls are cut off, requests it
\* has not executed are lost and their callers lose the connection.
Stop(h) ==
    /\ crashes < MaxCrashes
    /\ crashes' = crashes + 1
    /\ faulty' = TRUE
    /\ up' = up \ {h}
    /\ matches' = [matches EXCEPT ![h] = Empty]
    /\ count' = [count EXCEPT ![h] = Zero]
    /\ sent' = {m \in sent : m.to # h} /\ walks' = {w \in walks : w.req.to # h}
    /\ call' = [c \in Clients |-> IF HostOf[c] = h THEN NoCall ELSE
                   IF At(c, {"wait"}) /\ To(c) = h THEN [call[c] EXCEPT !.pc = "broken"] ELSE call[c]]
    /\ open' = open \cap InUse'
    /\ UNCHANGED <<recorded, calls>>

\* FetchMatches meets a match without ActualResponse: the panic of a gRPC handler is
\* not recovered and ends the process.
FetchPanics(w) == NextIsNil(w) /\ Unmappable(w) /\ Stop(w.req.to)

Crash(h) == h \in up /\ Stop(h)

\* NewGrpcMatchstore on the host.
Restart(h) ==
    /\ h \notin up
    /\ up' = up \cup {h}
    /\ UNCHANGED <<store, call, sent, bounds, faulty>>

\* A merge that ends with the shortest list.
GetMatchesMutant(lists) ==
    LET shortest == Min({Len(lists[i]) : i \in DOMAIN lists})
        at(pos) == FlattenSeq([i \in DOMAIN lists |-> <<lists[i][pos]>>])
    IN  FlattenSeq([pos \in 1..shortest |-> at(pos)])

\* The lists of the peers merged: the first of each, then the second of each, ...
GetMatches(lists) ==
    LET longest == Max({Len(lists[i]) : i \in DOMAIN lists})
        at(pos) == FlattenSeq([i \in DOMAIN lists |->
                                  IF pos <= Len(lists[i]) THEN <<lists[i][pos]>> ELSE <<>>])
    IN  FlattenSeq([pos \in 1..longest |-> at(pos)])

\* The last peer's list first.
GetMismatchesMutant(lists) == FlattenSeq(Reverse(lists))

\* The lists of the peers one after the other.
GetMismatches(lists) == FlattenSeq(lists)

Stored(k) == UNION {ToSet(matches[h][k]) : h \in PeerHosts}

\* The history of the calls, for every step: c is in a call of ops.
During(c, ops) == call'[c].pc # "idle" /\ call'[c].op \in ops
Observe ==
    /\ stay' = [c \in Clients |-> IF ~During(c, {"Get", "Delete"}) THEN {} ELSE
                   IF At(c, {"idle"}) THEN Stored(call'[c].key) ELSE stay[c] \cap Stored(call[c].key)']
    /\ seen' = [c \in Clients |-> IF ~During(c, {"Get"}) THEN {} ELSE
                   IF At(c, {"idle"}) THEN Stored(call'[c].key) ELSE seen[c] \cup Stored(call[c].key)']
    /\ cut' = {c \in Clients : During(c, {"Count"}) /\ ~At(c, {"idle"})
                   /\ (c \in cut \/ \E h \in Hosts : count'[h][call[c].key] < count[h][call[c].key])}
=============================================================================
