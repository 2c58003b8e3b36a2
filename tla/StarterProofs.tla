---------------------------- MODULE StarterProofs ----------------------------
(***************************************************************************)
(* For any number of requests and of signals: a process that exits has     *)
(* answered what it accepted, a server that was ready ends cleanly, and    *)
(* requests meet open stores until the process is told to stop.            *)
(***************************************************************************)
EXTENDS Starter, TLAPS

-----------------------------------------------------------------------------
(* The inductive invariant. *)

RestOK ==
    /\ cancelled \in BOOLEAN /\ ready \in BOOLEAN
    /\ request \in [Requests -> {"none", "active", "answered"}]
    /\ closed \subseteq Stores

\* Shutdown closes the listener before it waits for the requests: none is accepted
\* while it waits, and none is left when it has returned, which the exit waits for.
Draining ==
    /\ shutdown \in {"drain", "returned"} => serving # "listening"
    /\ shutdown = "returned" => \A r \in Requests : request[r] # "active"
    /\ proc = "exited" => shutdown = "returned"

\* Nothing that was there when the server was ready goes back to a state in which
\* the process can still die.
PastStart ==
    /\ Ready => ready
    /\ ready => /\ notify \in {"listening", "returned"}
                /\ serving \in {"listening", "returned"}
                /\ variant = "grpc" => \A s \in Stores : grpc[s] \in {"serving", "returned"}
                /\ proc \in {"running", "exited"}

\* The goroutine that shuts down goes on, and stores are closed, only once the
\* context is done, which it stays.
StopCauses ==
    /\ shutdown \notin {"none", "await"} => Done
    /\ closed # {} => shutdown \notin {"none", "await"}
    /\ failed # {} => Done

IInv == TypeOK /\ RestOK /\ Draining /\ PastStart /\ StopCauses

\* The invariant holds before the servers start.
LEMMA InvInit == Init => IInv
  BY DEF Init, IInv, TypeOK, RestOK, Draining, PastStart, StopCauses, Ready, Done, Stores

-----------------------------------------------------------------------------
(* What the steps have in common. *)

\* An end of the process that leaves the goroutines where they are keeps the
\* invariant, if it is a clean one or the server has never been ready.
LEMMA EndKeeps ==
    ASSUME IInv, Observed, UNCHANGED <<request, failed>>, NEW how \in {"fatal", "panic", "killed"},
           Ends(how), ~ready
    PROVE  IInv'
  BY DEF IInv, TypeOK, RestOK, Draining, PastStart, StopCauses, Ready, Done, Observed, Ends, goroutines

\* main.
LEMMA MainKeeps ==
    ASSUME IInv, proc = "running", Observed, UNCHANGED <<request, failed>>, Main
    PROVE  IInv'
<1> USE DEF IInv
<1>1. ASSUME main # "wait" PROVE ~ready
  BY <1>1 DEF TypeOK, RestOK, PastStart
<1>2. CASE initialization
  <2>1. CASE env.valid
    BY <1>2, <2>1 DEF initialization, Observed, TypeOK, RestOK, Draining, PastStart, StopCauses, Ready, Done, Stores
  <2>2. CASE ~env.valid
    BY <1>1, <1>2, <2>2, EndKeeps DEF initialization
  <2> QED
    BY <2>1, <2>2
<1>3. ASSUME NEW s \in Stores, NEW next \in {"kvstore", "SetupRouter"}, CreateStore(s, next) PROVE IInv'
  <2>1. CASE env.reachable \/ variant = "standalone"
    BY <1>3, <2>1 DEF CreateStore, Observed, TypeOK, RestOK, Draining, PastStart, StopCauses, Ready, Done, Stores
  <2>2. CASE ~(env.reachable \/ variant = "standalone")
    BY <1>1, <1>3, <2>2, EndKeeps DEF CreateStore, Stores
  <2> QED
    BY <2>1, <2>2
<1>4. CASE SetupRouter
  <2>1. CASE env.password
    BY <1>4, <2>1 DEF SetupRouter, Observed, TypeOK, RestOK, Draining, PastStart, StopCauses, Ready, Done, Stores
  <2>2. CASE ~env.password
    BY <1>1, <1>4, <2>2, EndKeeps DEF SetupRouter
  <2> QED
    BY <2>1, <2>2
<1>5. CASE LoadFiles
  <2>1. CASE env.files
    BY <1>5, <2>1 DEF LoadFiles, Observed, TypeOK, RestOK, Draining, PastStart, StopCauses, Ready, Done, Stores
  <2>2. CASE ~env.files
    BY <1>1, <1>5, <2>2, EndKeeps DEF LoadFiles
  <2> QED
    BY <2>1, <2>2
<1>6. CASE StartGroup
  BY <1>6 DEF StartGroup, Observed, TypeOK, RestOK, Draining, PastStart, StopCauses, Ready, Done, Stores
<1>7. CASE Wait
  BY <1>7 DEF Wait, Ends, goroutines, Observed, TypeOK, RestOK, Draining, PastStart, StopCauses, Ready, Done
<1> QED
  BY <1>2, <1>3, <1>4, <1>5, <1>6, <1>7 DEF Main, Stores

\* The goroutines that wait for a signal and that serve.
LEMMA GoroutineKeeps ==
    ASSUME IInv, proc = "running", Observed, UNCHANGED <<request, failed>>, Goroutine
    PROVE  IInv'
<1> USE DEF IInv
<1>1. CASE Notify
  <2>1. TypeOK' /\ RestOK' /\ Draining' /\ StopCauses'
    BY <1>1 DEF Notify, Observed, TypeOK, RestOK, Draining, StopCauses, Done
  <2>2. PastStart'
    BY <1>1 DEF Notify, Observed, RestOK, PastStart, Ready
  <2> QED
    BY <2>1, <2>2
<1>2. CASE Cancel
  BY <1>2 DEF Cancel, Observed, TypeOK, RestOK, Draining, PastStart, StopCauses, Ready, Done
<1>3. CASE AssignServer
  BY <1>3 DEF AssignServer, Observed, TypeOK, RestOK, Draining, PastStart, StopCauses, Ready, Done
<1>4. CASE ListenAndServe
  <2> USE DEF ListenAndServe, Observed
  <2>1. TypeOK' /\ RestOK'
    BY <1>4 DEF TypeOK, RestOK
  <2>2. Draining'
    BY <1>4 DEF Draining
  <2>3. PastStart'
    BY <1>4 DEF PastStart, RestOK, Ready
  <2>4. StopCauses'
    BY <1>4 DEF StopCauses, Done
  <2> QED
    BY <2>1, <2>2, <2>3, <2>4
<1>5. ASSUME NEW s \in Stores, grpc[s] \in {"listen", "assigned"} PROVE ~ready
  BY <1>5 DEF TypeOK, RestOK, PastStart
<1>6. ASSUME NEW s \in Stores, GrpcListen(s) PROVE IInv'
  <2>1. CASE s \in env.ports
    BY <1>6, <2>1 DEF GrpcListen, Observed, TypeOK, RestOK, Draining, PastStart, StopCauses, Ready, Done
  <2>2. CASE s \notin env.ports
    BY <1>5, <1>6, <2>2, EndKeeps DEF GrpcListen
  <2> QED
    BY <2>1, <2>2
<1>7. ASSUME NEW s \in Stores, GrpcServe(s) PROVE IInv'
  <2>1. CASE s \notin closed
    BY <1>7, <2>1 DEF GrpcServe, Observed, TypeOK, RestOK, Draining, PastStart, StopCauses, Ready, Done
  <2>2. CASE s \in closed
    BY <1>5, <1>7, <2>2, EndKeeps DEF GrpcServe
  <2> QED
    BY <2>1, <2>2
<1>8. ASSUME NEW s \in Stores, GrpcServeReturns(s) PROVE IInv'
  BY <1>8 DEF GrpcServeReturns, Observed, TypeOK, RestOK, Draining, PastStart, StopCauses, Ready, Done
<1>9. CASE AcceptFails
  BY <1>9 DEF AcceptFails, Observed, TypeOK, RestOK, Draining, PastStart, StopCauses, Ready, Done
<1> QED
  BY <1>1, <1>2, <1>3, <1>4, <1>6, <1>7, <1>8, <1>9 DEF Goroutine

\* The goroutine that shuts down.
LEMMA ShutdownKeeps ==
    ASSUME IInv, proc = "running", Observed, UNCHANGED <<request, failed>>, ShutdownStep
    PROVE  IInv'
<1> USE DEF IInv
<1>1. CASE AwaitDone
  BY <1>1 DEF AwaitDone, Observed, TypeOK, RestOK, Draining, PastStart, StopCauses, Ready, Done, Stores
<1>2. ASSUME NEW s \in Stores, NEW next \in {"kvstore", "http"}, ShutdownStore(s, next) PROVE IInv'
  <2>1. CASE variant = "grpc" /\ grpc[s] = "listen"
    <3> ~ready
      BY <2>1 DEF TypeOK, RestOK, PastStart
    <3> QED
      BY <1>2, <2>1, EndKeeps DEF ShutdownStore
  <2>2. CASE ~(variant = "grpc" /\ grpc[s] = "listen")
    <3> USE DEF ShutdownStore, Observed, Stores
    <3>1. TypeOK' /\ RestOK'
      BY <1>2, <2>2 DEF TypeOK, RestOK
    <3>2. Draining'
      BY <1>2, <2>2 DEF Draining
    <3>3. PastStart'
      BY <1>2, <2>2 DEF PastStart, RestOK, Ready
    <3>4. StopCauses'
      BY <1>2, <2>2 DEF StopCauses, Done
    <3> QED
      BY <3>1, <3>2, <3>3, <3>4
  <2> QED
    BY <2>1, <2>2
<1>3. CASE DefaultShutdown
  <2>1. CASE serving = "start"
    <3> ~ready
      BY <2>1 DEF TypeOK, RestOK, PastStart
    <3> QED
      BY <1>3, <2>1, EndKeeps DEF DefaultShutdown
  <2>2. CASE serving # "start"
    BY <1>3, <2>2 DEF DefaultShutdown, Observed, TypeOK, RestOK, Draining, PastStart, StopCauses, Ready, Done, Stores
  <2> QED
    BY <2>1, <2>2
<1>4. CASE Drained
  BY <1>4 DEF Drained, Observed, TypeOK, RestOK, Draining, PastStart, StopCauses, Ready, Done, Stores
<1> QED
  BY <1>1, <1>2, <1>3, <1>4 DEF ShutdownStep, Stores

\* Signals and requests.
LEMMA OutsideKeeps ==
    ASSUME IInv, proc = "running", Observed,
           Signal \/ \E r \in Requests : Accept(r) \/ MeetsClosedStore(r) \/ Finish(r)
    PROVE  IInv'
<1> USE DEF IInv
<1>1. CASE Signal
  <2>1. CASE notify \in {"none", "start"}
    <3> ~ready
      BY <2>1 DEF TypeOK, RestOK, PastStart
    <3> QED
      BY <1>1, <2>1, EndKeeps DEF Signal
  <2>2. CASE notify \notin {"none", "start"}
    BY <1>1, <2>2 DEF Signal, Observed, TypeOK, RestOK, Draining, PastStart, StopCauses, Ready, Done
  <2> QED
    BY <2>1, <2>2
<1>2. ASSUME NEW r \in Requests, Accept(r) PROVE IInv'
  BY <1>2 DEF Accept, goroutines, Observed, TypeOK, RestOK, Draining, PastStart, StopCauses, Ready, Done
<1>3. ASSUME NEW r \in Requests, MeetsClosedStore(r) PROVE IInv'
  <2> Done
    BY <1>3 DEF MeetsClosedStore, RestOK, StopCauses
  <2> QED
    BY <1>3 DEF MeetsClosedStore, goroutines, Observed, TypeOK, RestOK, Draining, PastStart, StopCauses, Ready, Done
<1>4. ASSUME NEW r \in Requests, Finish(r) PROVE IInv'
  BY <1>4 DEF Finish, goroutines, Observed, TypeOK, RestOK, Draining, PastStart, StopCauses, Ready, Done
<1> QED
  BY <1>1, <1>2, <1>3, <1>4

\* Every step preserves the invariant.
LEMMA InvStep == IInv /\ [Next]_vars => IInv'
<1> SUFFICES ASSUME IInv, [Next]_vars PROVE IInv'
  OBVIOUS
<1>1. CASE Next
  <2>1. proc = "running" /\ Observed
    BY <1>1 DEF Next
  <2>2. CASE Inside /\ UNCHANGED <<signals, request, failed>>
    BY <2>1, <2>2, MainKeeps, GoroutineKeeps, ShutdownKeeps DEF Inside
  <2>3. CASE Signal \/ \E r \in Requests : Accept(r) \/ MeetsClosedStore(r) \/ Finish(r)
    BY <2>1, <2>3, OutsideKeeps
  <2> QED
    BY <1>1, <2>2, <2>3 DEF Next
<1>2. CASE UNCHANGED vars
  BY <1>2 DEF vars, goroutines, IInv, TypeOK, RestOK, Draining, PastStart, StopCauses, Ready, Done
<1> QED
  BY <1>1, <1>2

\* The invariant holds in every reachable state.
LEMMA Inv == Spec => []IInv
  BY InvInit, InvStep, PTL DEF Spec

-----------------------------------------------------------------------------
(* The theorems. *)

\* main and the goroutines it starts are where they can be: the two of the errgroup
\* run exactly when main waits for them, gRPC servers only in the gRPC program.
THEOREM TypeCorrect == Spec => []TypeOK
<1>1. IInv => TypeOK
  BY DEF IInv
<1> QED
  BY <1>1, Inv, PTL

\* When the errgroup lets the process leave SetupRouter, no request that it accepted
\* is without its answer, however signals, requests and the shutdown interleave.
THEOREM ExitAfterDrain == Spec => []DrainedAtExit
<1>1. IInv => DrainedAtExit
  BY DEF IInv, Draining, DrainedAtExit
<1> QED
  BY <1>1, Inv, PTL

\* A server that was ready once is not killed by a signal and runs neither into the
\* nil server of a Shutdown nor into a Fatalf of a gRPC server.
THEOREM CleanEnd == Spec => []ReadyEndsCleanly
<1>1. IInv => ReadyEndsCleanly
  BY DEF IInv, RestOK, PastStart, ReadyEndsCleanly
<1> QED
  BY <1>1, Inv, PTL

\* The stores are closed under a request only after cancel() or when ListenAndServe has
\* returned with an error, because of its port or of its listener.
THEOREM OpenUntilCancelled == Spec => []StoresOpenWhileServing
<1>1. IInv => StoresOpenWhileServing
  BY DEF IInv, StopCauses, Done, StoresOpenWhileServing
<1> QED
  BY <1>1, Inv, PTL
=============================================================================
