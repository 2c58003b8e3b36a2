# A TLA+ model of mockgo-server

mockgo-server answers HTTP requests with responses configured in *mock files* and
records which requests matched. This directory models it in its three variants (standalone, redis,
grpc), checks the model with TLC on small instances and proves the main facts about the stores, the server
and the starter with TLAPS for every instance. Paths are relative to the root of the repository; `PROJECT.json` maps
every definition to the lines it models and lists the hazards the properties are about.

## The system

| component | state | operations | hard to get right |
|---|---|---|---|
| mock request handler (`mockgo/mock`) | `EpSearchNode`, a tree of path segments with endpoints in its nodes; the four closure variables of `AddRoutes` | `LoadFiles` (start, `POST /__/reload`), match a request, render its response | one goroutine per request and no lock; reload while serving; shared nodes in the tree; the request body can be read once |
| match store (`mockgo/matches`, interface `Matchstore`) | per endpoint the newest requests and a counter; the same for mismatches | add, read, count, delete | see the backends |
| – in-memory (`inmemoryMatchstore.go`) | maps of `container/list` and counters | the same | no lock at all; `uint16` arithmetic |
| – redis (`mockgo-redis/matchstore`) | a redis list and a counter per key, shared by all instances | several commands per operation | commands interleave, are retried, fail; instances stop in between |
| – grpc (`mockgo-grpc/matchstore`) | an in-memory store per host | reads gather from all peers, deletes go to all | timeouts, late executions, partial deletes, a panic on unanswered matches |
| key-value store (`mockgo/kvstore`, interface `Storage`) | values by store and key | put, get, get all; a removal puts nil | see the backends |
| – in-memory (`storage.go`) | a map of maps | the same | no lock; the live map is handed out |
| – redis (`mockgo-redis/kvstore`) | a hash per store | one command per operation | repeated commands; JSON conversion |
| – grpc (`mockgo-grpc/kvstore`) | an in-memory storage per host | puts go to all peers, reads are local | order of concurrent puts, late executions, addresses of the peers |
| HTTP APIs (`mockgo/matches/requestHandler.go`, `mockgo/kvstore/requestHandler.go`, `mockgo/util/http.go`) | none | checks, routes to the stores | status codes of failing and missing things |
| starter and programs (`mockgo/starter`, `*/cmd/mockgo`) | the goroutines of the process | configuration, start, serving, shutdown | order of start and shutdown; variables shared by goroutines |

net/http calls the matcher function of the mock route for every request that is not for the
API, and, if it finds an endpoint, the handler function. The matcher calls the match store before
the response exists; the handler completes the match through its pointer, which reaches the record of the
in-memory store and not the copy that redis has. Templates of responses call the key-value store.

## Modules

* `Matchstore` – what the interface promises: per key the newest `Capacity` requests and an
  unlimited counter, each operation atomic.
* `InMemoryMatchstore` – one action per statement of each operation and any number of goroutines.
  Lists have addresses and each goroutine keeps the pointer it has read, so a list that a second
  creation drops lives on in the goroutines that hold it. `x++` is a load and a store; `Front()` and
  `Remove()` are separate, and a read goes from element to element with `Next()`, which is nil at an element
  that was removed meanwhile. A Go map accessed concurrently with a write may stop the process. A
  method of `container/list` is one step: the corruption of its pointers by two overlapping
  methods is not modelled. Matches are numbered in the order of the pushes to their list.
* `RedisMatchstore` – one action per redis command, requests on several instances; `LosesReply` (the
  client will send the command again, up to `MaxRetries` times), `Fails` (retries used up) and
  `Crash`. The history variable `excess` counts pushes whose own eviction check never runs.
* `EndpointTree` – the tree, `registerEndpoint` and `matchRequestToEndpoint` as operators: a
  node is the sequence of keys that leads to it, the loop over the segments is a recursive function that
  iterates `walkStep`. `Fits` and `Qualifies` state the README's rules independently of the tree.
* `MockLoader` – `LoadFiles` endpoint by endpoint, with skipped endpoints, failing loads and
  concurrent reloads; the properties of the tree are invariants over all requests of a set.
* `MockServer` – composes the loader, the abstract `Matchstore` and the matcher and handler functions of
  `AddRoutes`. Each assignment and each read of the four shared variables is a step, in any order, as
  nothing orders them. `serialised` says which kind of store it is: one that keeps the pointer to a match or one
  that marshals it when it is added (redis).
* `HttpUtil` – the checks around the API handlers as operators from requests to statuses.
* `StorageCalls` – the calls of the interface `Storage` that are under way, with the history that says
  which values a read may return: those that no put which ended before it began has replaced.
  `InmemoryStorage` and `RedisStorage` are the two backends: the one statement by statement with
  the addresses of the inner maps, the other command by command, where go-redis may repeat a
  command any number of times. `KVRequestHandler` composes them with the HTTP API and the
  template functions. Values are numbers with a kind: with a JSON text, nil, or without a JSON text.
* `GrpcCluster` – from `CLUSTER_HOSTNAMES` and the ports to the addresses the two stores call, and the service
  that is found there. `GrpcKVStore` and `GrpcMatchstore` extend it with the calls: `Invoke` sends
  a request, the peer executes it at any later time, also after the caller has met its `Deadline`;
  a host that stops loses its store, its calls and the requests sent to it. The put has a
  timeout per peer, the calls of the match store have one for all peers. The listing of a host's own match store is
  a walk (`walks`) that goes on while the list changes; adds, deletes, counts and the map of the key-value
  store are accessed in one step, as the modules of the in-memory stores have their statements.
  `MatchesRequestHandler` puts the matches API on top of `GrpcMatchstore`.
* `Starter` – the process of each of the three programs: `main`, the goroutine that waits for a signal,
  the two `startServe` of the gRPC stores, the two goroutines of the errgroup; signals and
  requests from outside. What the process finds (valid configuration, reachable redis, files,
  free ports, length of the password, a listener that goes on accepting) is chosen at the start. The handler of a
  request may never end. The variables `server` that goroutines share
  without synchronisation are read and written in one step.
* `MC...` – the instances for TLC.
* `ListFacts` and `...Proofs` – lemmas and theorems, one module for each of `InMemoryMatchstore`,
  `RedisMatchstore`, `MatchesRequestHandler`, `GrpcKVStore`, `KVRequestHandler`, `MockServer` and `Starter`.

Definitions called `...Mutant` are faulty variants of the definition that follows; replacing
the definition by its mutant makes the property named in `PROJECT.json` fail.

`KVRequestHandler` and `MatchesRequestHandler` take the response of a call right after its last
step. The response reads and writes nothing but the call, so it commutes with the steps of
others, and no other step needs to see a call that has returned.

## Runs

| run | shows | bounds |
|---|---|---|
| `inmemory_concurrent` | no nil list is used; capacity of lists under all interleavings; a listing is a gap-free run of pushes and, where it was cut short, has nothing of what is left in the list | 3 goroutines, 5 calls, one endpoint and the mismatches, capacity 2: enough for two overlapping creations, two overlapping evictions, and a delete or evictions during a walk |
| `inmemory_serial` | calls that do not overlap implement `Matchstore` (refinement) | 1 goroutine, 2 endpoints, 6 calls, capacity 2 |
| `redis` | capacity and order with retried and failing commands and crashes; exact counting and the bound on over-eviction without deletes and faults | 3 requests on 2 instances, 2 keys, capacity 3, 6 calls, 1 delete, 2 faults: with capacity 3 the bound of `RetentionBound` is 1, and it is reached |
| `loader` | one endpoint serves exactly what the documentation gives it; endpoints that share nodes serve nothing they do not fit | all 258 patterns of up to 3 segments alone, and up to three of 18 that share nodes, in all orders; paths of up to 4 segments, of up to 2 with a segment that no pattern names. The action constraint `AloneOrSharing` keeps the two cases apart |
| `reload` | no request sees part of a load; ids; which of the endpoints of a path serves: one that qualifies, for the host before any host, of the highest priority if registered by rising priority | 2 reloads at a time, of 2 endpoints each out of 7 that differ in every criterion, and single loads of 3 of them in every order, so that one is inserted between two (`LongLoadAlone` keeps the cases apart) |
| `server` | what a request that no other one overlaps gets and what is recorded for it, and what overlapping ones cannot cause | 2 requests, 2 endpoints, 2 loads, deletes, both kinds of store |
| `server_handover` | *violation*: overlapping requests get each other's response | 2 requests, 2 endpoints |
| `grpc_matches` | a 200 of the matches API is complete but for hosts whose walk was cut off, ordered, correctly counted, or deleted everywhere; without a fault there is always a 200 | 2 hosts, 3 records, capacity 2, 2 calls of one client, 1 stop, 1 unanswered match at a time: a second call meets the late requests of the first, and the third record evicts what a walk has reached |
| `grpc_kvstore` | no replica keeps a value that an acknowledged put has replaced, but for late executions of requests that were on their way when it began; puts fail only by faults and always return | 3 hosts, 2 clients on different hosts, 3 puts, 1 crash with restart; host names with the port of the key-value store |
| `grpc_kv_ports` | *violation*: with plain host names every put goes to the port of the match store and fails | 3 hosts, plain names and the trailing comma of the helm chart |
| `kv_api` | reads and listings answer with values that no ended put has replaced, and the status says which | an HTTP client and a template, 1 store, 2 keys, 3 puts, both backends: two first puts that both create the map, and a listing between puts of both keys |
| `starter` | a valid process becomes ready; a ready one ends cleanly on a signal, after answering what it has accepted; every stop ends or waits for an accepted request | 3 programs, all environments, 2 signals at any time, 2 requests |

All runs set `CHECK_DEADLOCK FALSE`: the bounds on calls, puts and loads end every behaviour, and a process
that has ended does nothing. Symmetry is used for goroutines, requests, loads, keys and addresses, whose
names are only compared, and only in runs without liveness properties.

### Fairness

* `GrpcKVStore`: weak fairness for each client's send, and for its reception of whatever comes first,
  the answer, the end of the connection or the deadline. The goroutine runs, and
  `context.WithTimeout` fires without anybody's help. Nothing is assumed about the peers: none has
  to answer or to come back. `PutReturns` rests on the deadline alone.
* `Starter`: weak fairness for each goroutine (main, the signal goroutine, each `startServe`,
  `Serving`, the shutdown goroutine). Nothing is assumed about signals, requests and their handlers: the server
  has no timeouts, so a handler that reads a body waits as long as the client likes, and `server.Shutdown`
  is called without a deadline. `StopLeadsToEnd` therefore ends in two cases: the process has ended, or
  it has closed its stores and its listener and waits for a request it has accepted. Since it speaks of
  every later state too, the second case lasts only as long as there is such a request.

### What does not hold

The properties of the passing runs leave out cases in which the code differs from what it is documented to do.
For each such case there is a configuration that states the documentation without the exception; TLC finds
each of them violated within seconds. They show why the exceptions are there and are not among the runs.

| configuration (module) | property | documentation | what the code does |
|---|---|---|---|
| `MockPrioOrder.cfg` (`MCMockLoader`) | `PrioPrecedence` | `README.md:114` "integer to define precedence of endpoints if more than one endpoint matches" | a lower priority registered after a higher one is put in front of it (`mock/requestHandler.go:274`) |
| `MockBodies.cfg` (`MCMockLoader`) | `QualifiedIsServed` | `README.md:125` "regular expression which match to the request body" | the first endpoint with a body criterion reads the body, the second one gets none (`:415`) |
| `MockVariables.cfg` (`MCMockLoader`) | `PathVariableResolves` | `README.md:139` "available as template variable with name `pathvariable`" | of two names of one position the last registered one is bound (`:261`) |
| `MockShadow.cfg` (`MCMockLoader`) | `QualifiedIsServed` | `README.md:138` "every *pathsegment* on this position matches" | `/a/b` hides `/*/c` from the request `/a/c` (`:328`) |
| `MockScan.cfg` (`MCMockLoader`) | `QualifiedIsServed` | `README.md:140` "one or more arbitrary *pathsegments* match on this position" | `/a/**/b` does not serve `/a/c/b/b` (`:319`) |
| `MockServerRedis.cfg` (`MCMockServer`) | `ResponseStored` | `matches/matchstore.go:35` "an outgoing http response from a request which is stored for a match" | redis marshals the match before the response exists (`mockgo-redis/matchstore/matchstore.go:73`) |
| `MatchesRequestHandlerListsAll.cfg` (`MCMatchesRequestHandler`) | `ListsAll` | `matches/inmemoryMatchstore.go:30` "GetMatches returns all matches" | a walk ends at an element that was removed meanwhile (`:36`), and the answer is a 200 |

The exceptions, as the properties state them:

* `AloneComplete` leaves out patterns in which something follows `**` (`MockScan.cfg`; also, only a literal ends
  the scan, so `/a/**/{x}` does not serve `/a/b/c/d`), and `LiteralReached` is about literal paths only: a
  literal hides a wildcard (`MockShadow.cfg`).
* `ParamsBound` leaves out nodes shared under different names, as the last registered name wins (`MockVariables.cfg`).
* `HighestPrioServed` promises the highest priority only where the endpoints of a list were registered by
  rising priority: a new endpoint goes in front of the first one of lower priority, or, if there is none,
  to the front, before all the higher ones (`MockPrioOrder.cfg`). It leaves out nodes with two body criteria, as
  the first one reads the body (`MockBodies.cfg`).
* `RecordedAlone` has a match in redis without a response for ever (`MockServerRedis.cfg`). A match of the in-memory
  store may still be changed after its request has ended, by a request that is overlapped and renders
  with the match of an earlier one; two clients cannot reach that exception, so only the proof covers it.
* `NothingMissed` excuses a host whose walk was cut off (`CutOff`: it has listed something, and none of that is
  stored any more); `ListsAll` does not (`MatchesRequestHandlerListsAll.cfg`). A walk that found an empty list is not excused.
* `ReplicaFresh` has two exceptions. A host that has crashed may hold nothing; and a peer may execute the
  request of a put that gave up after a later put was acknowledged, and then holds the older value for good. The
  history `overtaken` has the values for which this is possible: those of requests that were still on their
  way, their puts having returned, when the later put began. Without a missed deadline or a crash
  there is no exception.

The modules define further properties under "what the README says": `NothingOrphaned` (two
first requests for an endpoint both create its list, and one list is dropped with its match),
`CapacityAsConfigured` (with `MatchesCapacity = WordSize - 1` nothing is ever evicted; two goroutines that
evict the same element leave one too many), `CountCoversList`, `AtRestWithinCapacity` (a crash between RPUSH
and LPOP leaves the list above the capacity for good), `AtRestFilled` and `CountAnswered`. They do not hold; the
comment of each says when. No run lists them.

The backends answer differently: for a key that does not exist the in-memory storage gives 404 and redis
500, for a store that does not exist a listing gives 404 and 200. `ReadsAnswerPuts` allows both.
Replicas of the grpc key-value store that saw concurrent puts in different orders stay different;
`ReplicaFresh` says what is left. The values that a host loses by a crash are not repaired by a restart.

## Proofs

Every theorem about a specification follows the same way: an inductive invariant `IInv` (its parts are
named after what they say), a lemma per action that it preserves it, and the property as a
consequence. TLC checked each `IInv` on the instance of the module's run before it was proved. None of
the properties is inductive by itself; what is added is the point of each proof.

`InMemoryMatchstoreProofs`, for every number of goroutines, keys, lists and calls:

* `TypeCorrect`. The type invariant includes that a goroutine at a statement that dereferences a
  list holds one; for that, a goroutine at `read` must have a list in the map, as lists are never
  removed from it.
* `ListStep` reduces every step to what it does to one list: nothing, a push, the end of an
  eviction, or a turn of a delete.
* `CapacityBounded`: `CapacityBound` is inductive given the types, counting the evicting
  goroutines; it assumes that no list ever gets as long as `WordSize`, beyond which the check
  compares a wrapped length.
* `NewestAlwaysKept`: from `Consecutive` for every list, preserved by a push at one end and
  a removal at the other. It is about the lists; no run lists it, as what a reader sees of them is `ReadsAllOrNothing`.
* `ReadsWholeOrCut`: a walk has listed consecutive pushes up to the element it has reached. As lists lose only
  their front, either that element is still there, and all behind the listed ones can be reached, or
  everything listed is gone.
* `SerialKeepsPromise`: the refinement of `Matchstore`, as long as no call begins while another one is under way
  (`NoOverlap`, which always holds with one goroutine as in the run) and the capacity leaves room for one more in a uint16 (`CapacityFits`).
  `SerialInv` says that lists belong to one key each (`Owned`), that what the goroutine has read still holds at
  its next statement (`Sure`) and that a list exceeds the size only between a push and its eviction (`Evened`);
  `RefinesStep` then maps a delete's call and an add's `PushBack` to the steps of `Matchstore` and all other statements to
  stuttering (`Quiet`).

`RedisMatchstoreProofs`, for every number of requests, instances, keys, calls and faults:
`TypeCorrect`, `CapacityBounded` (a crash ends several evictions at once: `CrashCount` moves them to
`excess`), `NewestAlwaysKept`, and `CountsExactly` and `RetentionBounded` from the invariant
`AddsInv`, which holds while there are no deletes and faults: it relates the counter to the requests that have
not incremented it, and the length to the requests about to pop, which is also why LPOP never
meets an empty list.

`MatchesRequestHandlerProofs`, for every cluster and every number of calls, recorded requests and
crashes. `Gathered` says what the lists a call holds so far have to do with the stores: what has been stored
since the call began, and still is at a peer that has answered, is in that peer's answer, unless the walk was
cut off and the answer has nothing that is still stored. From it follow
`DeleteReachesAll` and `GetReachesAll` (nothing else is missing from a list that is answered with 200, and nothing
foreign is in it). That nothing is listed twice (`GetListsOnce`) and the order (`GetKeepsOrder`) need `Apart`, no
request is stored by two hosts, and the hypothesis `PeersDiffer`: a cluster list that names a host
twice is accepted by the program, and then lists its requests twice. `CountsBetween` needs no such
hypothesis: `Tallied` compares the sum so far with what the peers that have answered have counted by now, and, with the
counters of the others added, with the total when the call began (`SumsGrow`, on the partial sums of growing
counters, carries both over the steps of others). `CallsSucceed` has the hypothesis
`AddressesServe`, all addresses lead to servers of the match store.

`GrpcKVStoreProofs`, for every cluster and every number of clients, puts and crashes: `TypeCorrect`;
`AcknowledgedPutStays` from `Writable` (what may still be written, by a request on its way or a put under way, is
never a value that a put replaces, except the `overtaken` ones) and `Progress` (the peers a put is done with have none of the
values it replaces, or have crashed); `PutSucceeds` under `AddressesServe`; and `PlainNamesStoreNothing`:
with host names without a port, as the helm chart has them, no put is ever acknowledged and no value ever
stored, which the run `grpc_kv_ports` shows for three hosts.

`KVRequestHandlerProofs`, for both backends and every number of clients, stores, keys, maps and
puts: `TypeCorrect`, `ReadsAreRegular`, `ListingsAreRegular`. `Register` says that a slot holds a value no
ended put has replaced, and that no put replaces what another one under way will write. `Heap`
says that a map belongs to one store even after a second creation has taken it out of
the store: a read that still holds it finds what was written there by a put of its own slot. `Found`
says that what a read finds in its map, and what a listing has already encoded, is a value it may return.

`MockServerProofs`, for any endpoints, requests, reloads and number of goroutines, in three parts.

* The trees. `LoaderInv` says of the tree of every load and of the installed one that it is closed
  under prefixes (`TreeShape`), has each endpoint where it belongs (`Placed`), has exactly what its load
  registered (`Holding`, with the number of its `Places`, so that none is doubled) and no other nodes, with no
  other names (`Grown`);
  `RegisterKeeps` shows that a registration keeps all four. From it follow `TreesAreSound` and `InstalledTreeIsWhole`. `IDsTellApart` needs
  also that the numbers a load has given are those it has counted (`Numbered`), and the
  hypothesis `WrittenIDs`: the ids in the mock files are distinct and not such numbers.
* The walk. `WalkOK` is the invariant of the loop, carried over its iterations by `SetInduction`: the keys that
  led to the node cut the segments consumed so far into one part per key (`Cut`). Hence
  `ServedPathsFit`, and with it `HighestPrioServes`, for which `LoaderInv` gives the shape of the lists: registered by
  rising priority they fall (`Sorted`, kept by `RegisterSorted`), so the first that qualifies is one of the highest (`FirstIsHighest`). Both have the hypothesis `PlainWildcards`,
  no pattern has an empty segment after `**`: the code looks for the child `""` when the scan after a `**` is
  exhausted, so `/**/` also serves `/x/y`. `LiteralsAreReached` has an invariant of its own
  (`LiteralState`) and no hypothesis. `AloneServesAll` is the converse of soundness for a single endpoint: its
  tree is the way to one node (`AloneTree`), so the walk of a fitting path follows it (`PathState`, `PathWalk`).
  It has also the hypothesis `PlainRequests`: a request segment that is literally `**` is taken for the name
  of the wildcard's own child, which ends the wildcard. `VariablesResolve` follows the names on the way
  (`BindState`: as long as no `**` led, one segment has been consumed per node, and every name is bound to the segment of
  the last node that has it); it has no hypothesis beyond those in `ParamsBound`.
* The requests. `OwnValues` follows the four shared variables through the assignments and
  reads of a request that is alone; `OwnMatches` and `NotedLast` say that nobody refers to a match that does
  not exist yet and that the match of such a request is completed by nobody else; `EndpointSet` says that without a mismatch the shared endpoint is set from
  the first assignment on, whoever assigned it: `AloneIsServed`, `AloneIsRecorded`,
  `LossNeedsMismatch`. For `ServerTypes`, `TypesInv` follows the ids from the installed tree through the shared
  variables to the responses; it needs that the walk never leaves the tree (`WalkStays`), which holds without
  `PlainWildcards`.

The instances of the runs satisfy `WrittenIDs`, `PlainWildcards` and `PlainRequests`.

`StarterProofs`, for any number of requests and signals: `TypeCorrect`, `ExitAfterDrain` (`Draining`: the
listener is closed before `Shutdown` waits), `CleanEnd` (`PastStart`: what was there when the server was
ready does not go back to a state in which the process can die) and `OpenUntilCancelled` (`StopCauses`).

`ListFacts` has what the proofs need of lists: concatenation, prefixes, `FlattenSeq`, the
cardinality of a list without repetitions. Induction is over a set of numbers: the library's induction theorems
take an operator as a parameter, which the installed provers cannot instantiate, so the predicate becomes
the set of the numbers it holds for (`SetInduction`).

The assumptions are the `...Assumption` of the modules: finite sets of goroutines or requests,
numbers where numbers are meant, non-empty sets of stores and keys, a cluster list with a host
at each place but perhaps the last (`ClusterAssumption`, what `validate` leaves), a nil value that is none of
the addresses or clients, and that a goroutine serves either a request of the API or a template. For the mock
endpoints: the records have the fields of the mock files and of requests, paths as `mux` cleans them, numbers that
`strconv.Itoa` writes differently, wildcards that are no path variables (`ParamNameAssumption`), and ids of endpoints that differ from the key of the mismatches
(`StoreKeysAssumption`; with redis they share one key space with `__mismatches__`).

Only model-checked: liveness under fairness (`PutReturns`, `StopLeadsToEnd`, `BecomesReady`), which is out of
the reach of the provers.

## Abstractions of the tree

A path is a sequence of segments. gorilla/mux redirects paths with an empty segment in the middle, so
only a trailing one occurs. An endpoint path that ends in `/**/` has an empty segment after `**`, which the scan
finds at the end of any path; no run has one. A request segment may literally be `*`; the walk then takes
the wildcard child as the segment's own and binds no variable. Regular expressions are sets of bodies; an
unreadable body is one more value.

## Not modelled

The generated message types (`*.pb.go`): accessors and encoding. Logging, metrics, the banner, mismatch
texts, JSON layout; template evaluation is abstracted to success and failure. `StopServe` of the
gRPC stores and `BasicAuth`, `testutil` serve the tests. Pointer corruption inside `container/list`, and
the stale reads of `server` that the Go memory model would allow after the write has happened.

A command to redis that is executed after its call has returned an error (its request was still on its way when the
retries were used up): in the modules of redis every execution, also a repeated one, lies within its call. So
`ReadsAnswerPuts` and `ListingAnswersPuts` say nothing of an `HSET` that takes effect that late.

`Starter` has no death of the process by concurrent map access (`InMemoryMatchstore` and `InmemoryStorage` have it) or
by a panic in a gRPC handler (`GrpcMatchstore` has it): `ReadyEndsCleanly` is about the goroutines of start and
stop only. Panics in http handlers are recovered by net/http.

## Plan

Every safety property of the passing runs is proved. Further steps: commands that redis executes after their call has
returned, with an exception in `ReadsAnswerPuts` like that of `ReplicaFresh`; and that the redis match store, too, implements
`Matchstore` as long as the requests do not overlap.
