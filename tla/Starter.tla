------------------------------- MODULE Starter -------------------------------
(***************************************************************************)
(* mockgo/starter/starter.go and the three main.go: the life of a server   *)
(* process, from its configuration over SetupRouter to the end, with the   *)
(* goroutines that are started on the way: the one that waits for a        *)
(* signal, those of the gRPC servers, and the two of the errgroup, which   *)
(* serve http and shut down.                                               *)
(***************************************************************************)
EXTENDS Naturals, FiniteSets

CONSTANTS Requests,     \* http requests that clients may send
          MaxSignals    \* bound: signals sent to the process

ASSUME StarterAssumption == MaxSignals \in Nat

Stores == {"matchstore", "kvstore"}

VARIABLES variant,     \* the program: "standalone", "redis" or "grpc"
          env,         \* what it finds: see Environments
          proc,        \* the process: "running", or how it has ended
          main,        \* the next step of main
          notify,      \* the goroutine that waits for a signal
          signals,     \* history: signals sent
          StopChannel, \* whether its buffer of one is full
          cancelled,   \* whether cancel() was called
          grpc,        \* [Stores -> the goroutine startServe]
          closed,      \* the stores whose Shutdown was called
          serving,     \* the goroutine of Serving
          shutdown,    \* the goroutine that shuts down
          request,     \* [Requests -> "none", "active", "answered"]
          failed,      \* history: requests that met a closed store
          ready        \* history: the server has been ready

goroutines == <<main, notify, StopChannel, cancelled, grpc, closed, serving, shutdown>>
vars == <<variant, env, proc, goroutines, signals, request, failed, ready>>

\* Whether the configuration is valid, redis answers or the addresses of the peers
\* can be parsed, the mock files can be loaded, API_PASSWORD has at least three
\* characters, which of the ports are free, and whether the http listener goes on
\* accepting connections.
Environments == [valid : BOOLEAN, reachable : BOOLEAN, files : BOOLEAN, password : BOOLEAN,
                 ports : SUBSET (Stores \cup {"http"}), accepts : BOOLEAN]

Init ==
    /\ variant \in {"standalone", "redis", "grpc"}
    /\ env \in Environments
    /\ proc = "running"
    /\ main = "initialization" /\ notify = "none"
    /\ StopChannel = FALSE /\ cancelled = FALSE
    /\ grpc = [s \in Stores |-> "none"] /\ closed = {}
    /\ serving = "none" /\ shutdown = "none"
    /\ request = [r \in Requests |-> "none"]
    /\ signals = 0 /\ failed = {} /\ ready = FALSE

Ready == /\ notify = "listening" /\ serving = "listening"
         /\ variant = "grpc" => \A s \in Stores : grpc[s] = "serving"

\* How the process goes on: history.
Observed == UNCHANGED <<variant, env>> /\ ready' = (ready \/ Ready')

Ends(how) == proc' = how /\ UNCHANGED goroutines

-----------------------------------------------------------------------------
(* main *)

\* envconfig and validate, of the starter and of the program.
initialization ==
    /\ main = "initialization"
    /\ IF env.valid
       THEN /\ main' = "matchstore"
            /\ UNCHANGED <<proc, notify, StopChannel, cancelled, grpc, closed, serving, shutdown>>
       ELSE Ends("fatal")

\* NewRedisMatchstore, NewRedisStorage ping the server; NewGrpcMatchstore and
\* NewGrpcStorage dial the peers and start a goroutine with their server.
CreateStore(s, next) ==
    /\ main = s
    /\ IF env.reachable \/ variant = "standalone"
       THEN /\ main' = next
            /\ grpc' = IF variant = "grpc" THEN [grpc EXCEPT ![s] = "listen"] ELSE grpc
            /\ UNCHANGED <<proc, notify, StopChannel, cancelled, closed, serving, shutdown>>
       ELSE Ends("fatal")

\* The goroutine that waits for a signal is never started.
SetupRouterMutant ==
    /\ main = "SetupRouter"
    /\ IF env.password
       THEN /\ main' = "LoadFiles"
            /\ UNCHANGED <<proc, notify, StopChannel, cancelled, grpc, closed, serving, shutdown>>
       ELSE Ends("panic")

\* SetupRouter up to LoadFiles.  Info cuts the password to its first three
\* characters, which panics for a shorter one.
SetupRouter ==
    /\ main = "SetupRouter"
    /\ IF env.password
       THEN /\ main' = "LoadFiles"
            /\ notify' = "start"
            /\ UNCHANGED <<proc, StopChannel, cancelled, grpc, closed, serving, shutdown>>
       ELSE Ends("panic")

LoadFiles ==
    /\ main = "LoadFiles"
    /\ IF env.files
       THEN /\ main' = "errgroup"
            /\ UNCHANGED <<proc, notify, StopChannel, cancelled, grpc, closed, serving, shutdown>>
       ELSE Ends("fatal")

\* Without the goroutine that shuts down.
StartGroupMutant ==
    /\ main = "errgroup"
    /\ main' = "wait" /\ serving' = "start"
    /\ UNCHANGED <<proc, notify, StopChannel, cancelled, grpc, closed, shutdown>>

\* The routes are added; g.Go(...), twice.
StartGroup ==
    /\ main = "errgroup"
    /\ main' = "wait" /\ serving' = "start" /\ shutdown' = "await"
    /\ UNCHANGED <<proc, notify, StopChannel, cancelled, grpc, closed>>

\* A wait for the goroutine that serves only.
WaitMutant == main = "wait" /\ serving = "returned" /\ Ends("exited")

\* g.Wait(): both goroutines have returned.
Wait == main = "wait" /\ serving = "returned" /\ shutdown = "returned" /\ Ends("exited")

Main == initialization \/ CreateStore("matchstore", "kvstore") \/ CreateStore("kvstore", "SetupRouter")
        \/ SetupRouter \/ LoadFiles \/ StartGroup \/ Wait

-----------------------------------------------------------------------------
(* The goroutines. *)

\* signal.Notify(StopChannel, ...)
Notify ==
    /\ notify = "start" /\ notify' = "listening"
    /\ UNCHANGED <<proc, main, StopChannel, cancelled, grpc, closed, serving, shutdown>>

\* The signal is received and nothing is cancelled.
CancelMutant ==
    /\ notify = "listening" /\ StopChannel
    /\ notify' = "returned" /\ StopChannel' = FALSE
    /\ UNCHANGED <<proc, main, cancelled, grpc, closed, serving, shutdown>>

\* <-StopChannel; cancel()
Cancel ==
    /\ notify = "listening" /\ StopChannel
    /\ notify' = "returned" /\ StopChannel' = FALSE /\ cancelled' = TRUE
    /\ UNCHANGED <<proc, main, grpc, closed, serving, shutdown>>

\* startServe of a gRPC store: net.Listen, g.server = grpc.NewServer().
GrpcListen(s) ==
    /\ grpc[s] = "listen"
    /\ IF s \in env.ports
       THEN /\ grpc' = [grpc EXCEPT ![s] = "assigned"]
            /\ UNCHANGED <<proc, main, notify, StopChannel, cancelled, closed, serving, shutdown>>
       ELSE Ends("fatal")

\* g.server.Serve(listening): an error if the server was stopped before.
GrpcServe(s) ==
    /\ grpc[s] = "assigned"
    /\ IF s \notin closed
       THEN /\ grpc' = [grpc EXCEPT ![s] = "serving"]
            /\ UNCHANGED <<proc, main, notify, StopChannel, cancelled, closed, serving, shutdown>>
       ELSE Ends("fatal")

\* A Fatalf for every return of Serve.
GrpcServeReturnsMutant(s) == grpc[s] = "serving" /\ s \in closed /\ Ends("fatal")

\* Serve returns nil after GracefulStop.
GrpcServeReturns(s) ==
    /\ grpc[s] = "serving" /\ s \in closed
    /\ grpc' = [grpc EXCEPT ![s] = "returned"]
    /\ UNCHANGED <<proc, main, notify, StopChannel, cancelled, closed, serving, shutdown>>

\* DefaultServing: server = &http.Server{...}
AssignServer ==
    /\ serving = "start" /\ serving' = "assigned"
    /\ UNCHANGED <<proc, main, notify, StopChannel, cancelled, grpc, closed, shutdown>>

\* ListenAndServe returns with an error if the port is taken or Shutdown was called.
ListenAndServe ==
    /\ serving = "assigned"
    /\ serving' = IF "http" \in env.ports /\ shutdown \notin {"drain", "returned"} THEN "listening" ELSE "returned"
    /\ UNCHANGED <<proc, main, notify, StopChannel, cancelled, grpc, closed, shutdown>>

\* ListenAndServe returns with the error of an Accept that is not temporary.
AcceptFails ==
    /\ serving = "listening" /\ ~env.accepts
    /\ serving' = "returned"
    /\ UNCHANGED <<proc, main, notify, StopChannel, cancelled, grpc, closed, shutdown>>

\* Done of the context of the group: cancelled, or a goroutine has returned an error.
Done == cancelled \/ serving = "returned"

\* A goroutine that shuts down without waiting.
AwaitDoneMutant ==
    /\ shutdown = "await" /\ shutdown' = "matchstore"
    /\ UNCHANGED <<proc, main, notify, StopChannel, cancelled, grpc, closed, serving>>

\* <-gCtx.Done()
AwaitDone ==
    /\ shutdown = "await" /\ Done /\ shutdown' = "matchstore"
    /\ UNCHANGED <<proc, main, notify, StopChannel, cancelled, grpc, closed, serving>>

\* Shutdown of a store: nothing in memory; redis closes its connections; gRPC stops
\* its server, which is nil before startServe has assigned it.
ShutdownStore(s, next) ==
    /\ shutdown = s
    /\ IF variant = "grpc" /\ grpc[s] = "listen" THEN Ends("panic")
       ELSE /\ shutdown' = next
            /\ closed' = IF variant = "standalone" THEN closed ELSE closed \cup {s}
            /\ UNCHANGED <<proc, main, notify, StopChannel, cancelled, grpc, serving>>

\* DefaultShutdown: server.Shutdown closes the listener, so that ListenAndServe
\* returns; server is nil before DefaultServing has assigned it.
DefaultShutdown ==
    /\ shutdown = "http"
    /\ IF serving = "start" THEN Ends("panic")
       ELSE /\ shutdown' = "drain"
            /\ serving' = IF serving = "listening" THEN "returned" ELSE serving
            /\ UNCHANGED <<proc, main, notify, StopChannel, cancelled, grpc, closed>>

\* It waits, without a limit, until no request is active.
Drained ==
    /\ shutdown = "drain" /\ \A r \in Requests : request[r] # "active"
    /\ shutdown' = "returned"
    /\ UNCHANGED <<proc, main, notify, StopChannel, cancelled, grpc, closed, serving>>

Goroutine ==
    \/ Notify \/ Cancel \/ AssignServer \/ ListenAndServe \/ AcceptFails
    \/ \E s \in Stores : GrpcListen(s) \/ GrpcServe(s) \/ GrpcServeReturns(s)

ShutdownStep ==
    \/ AwaitDone \/ ShutdownStore("matchstore", "kvstore") \/ ShutdownStore("kvstore", "http")
    \/ DefaultShutdown \/ Drained

-----------------------------------------------------------------------------
(* The world outside. *)

\* SIGINT or SIGTERM: ends the process unless Notify was called, else goes into the
\* channel, or is dropped when the channel is full.
Signal ==
    /\ signals < MaxSignals /\ signals' = signals + 1
    /\ IF notify \in {"none", "start"} THEN Ends("killed")
       ELSE /\ StopChannel' = TRUE
            /\ UNCHANGED <<proc, main, notify, cancelled, grpc, closed, serving, shutdown>>
    /\ UNCHANGED <<request, failed>>

Accept(r) ==
    /\ serving = "listening" /\ request[r] = "none"
    /\ request' = [request EXCEPT ![r] = "active"]
    /\ UNCHANGED <<proc, goroutines, signals, failed>>

\* The handler calls a store that was shut down.
MeetsClosedStore(r) ==
    /\ request[r] = "active" /\ closed # {}
    /\ failed' = failed \cup {r}
    /\ UNCHANGED <<proc, goroutines, signals, request>>

\* The handler of the request ends: never, while a client withholds the rest of a body
\* that the handler reads to its end; http.Server is given no timeout.
Finish(r) ==
    /\ request[r] = "active"
    /\ request' = [request EXCEPT ![r] = "answered"]
    /\ UNCHANGED <<proc, goroutines, signals, failed>>

Inside == Main \/ Goroutine \/ ShutdownStep

Next ==
    /\ proc = "running"
    /\ \/ Inside /\ UNCHANGED <<signals, request, failed>>
       \/ Signal
       \/ \E r \in Requests : Accept(r) \/ MeetsClosedStore(r) \/ Finish(r)
    /\ Observed

\* Every goroutine of the process that can go on does.  The handlers of requests wait
\* for their clients and are promised nothing, and Accept need not fail.
Fairness ==
    /\ WF_vars(Next /\ Main) /\ WF_vars(Next /\ ShutdownStep)
    /\ WF_vars(Next /\ (Notify \/ Cancel)) /\ WF_vars(Next /\ (AssignServer \/ ListenAndServe))
    /\ \A s \in Stores : WF_vars(Next /\ (GrpcListen(s) \/ GrpcServe(s) \/ GrpcServeReturns(s)))

Spec == Init /\ [][Next]_vars /\ Fairness

-----------------------------------------------------------------------------
TypeOK ==
    /\ proc \in {"running", "exited", "fatal", "panic", "killed"}
    /\ main \in {"initialization", "SetupRouter", "LoadFiles", "errgroup", "wait"} \cup Stores
    /\ notify \in {"none", "start", "listening", "returned"}
    /\ grpc \in [Stores -> {"none", "listen", "assigned", "serving", "returned"}]
    /\ serving \in {"none", "start", "assigned", "listening", "returned"}
    /\ shutdown \in {"none", "await", "http", "drain", "returned"} \cup Stores
    /\ (serving = "none") = (main # "wait") /\ (shutdown = "none") = (main # "wait")
    /\ variant # "grpc" => \A s \in Stores : grpc[s] = "none"

\* The process leaves SetupRouter only when every request it has accepted was
\* answered: errgroup waits for Shutdown, which waits for the requests.
DrainedAtExit == proc = "exited" => \A r \in Requests : request[r] # "active"

\* Once the signal handler is installed and all servers serve, the process never
\* dies of a signal, a panic or a fatal error, whenever it is told to stop.
ReadyEndsCleanly == ready => proc \in {"running", "exited"}

\* A request meets a closed store only after the process was told to stop or has lost
\* its listener: a server that serves normally has open stores.
StoresOpenWhileServing == failed # {} => cancelled \/ serving = "returned"

\* A process that gets a signal, or cannot serve http, ends, or has closed its stores
\* and its listener and waits for a request it has accepted, which may take for ever:
\* the goroutines of the errgroup never wait for each other in vain.  (Since this holds
\* from every later state too, the process ends once those requests have.)
StopLeadsToEnd ==
    (signals > 0 \/ serving = "returned")
        ~> (proc # "running" \/ (shutdown = "drain" /\ \E r \in Requests : request[r] = "active"))

\* A process with a valid environment that nobody stops becomes ready.
BecomesReady ==
    /\ env.valid /\ env.reachable /\ env.files /\ env.password /\ env.accepts
    /\ env.ports = Stores \cup {"http"} /\ [](signals = 0)
    => <>ready
=============================================================================
