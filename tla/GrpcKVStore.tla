----------------------------- MODULE GrpcKVStore -----------------------------
(***************************************************************************)
(* mockgo-grpc/kvstore/kvstore.go: a put is sent to the peers one after    *)
(* the other, the own host among them, each with a timeout of a second; a  *)
(* read is answered by the host that is asked.  A peer that executes       *)
(* StoreVal does not care whether the caller still waits.  The map of a    *)
(* host is written in one step (InmemoryStorage has its statements).       *)
(***************************************************************************)
EXTENDS GrpcCluster, FiniteSets

CONSTANTS Clients,    \* goroutines that call Put
          HostOf,     \* [Clients -> Hosts]: where they run
          Slots,      \* pairs of a store and a key
          MaxPuts,    \* bound: puts in a behaviour
          MaxCrashes  \* bound: crashes in a behaviour

ASSUME KVStoreAssumption ==
    HostOf \in [Clients -> Hosts] /\ Slots # {} /\ MaxPuts \in Nat /\ MaxCrashes \in Nat

Peers == kvstoreAddresses
Values == 0..MaxPuts   \* the n-th put stores n, 0 is a missing entry

VARIABLES store,     \* [Hosts -> [Slots -> Values]]: the InmemoryStorage of a host
          up,        \* the hosts that are running
          pc,        \* [Clients -> "idle", "next": at the loop, "wait": for an answer,
                     \*             "broken": its connection was lost]
          put,       \* [Clients -> the put it makes or made last: its slot, its value]
          peer,      \* [Clients -> the index of the peer it is at]
          outcome,   \* [Clients -> what its last put returned]
          sent,      \* requests that were sent and not executed
          replied,   \* the puts whose request at the current peer was executed
          puts,      \* history: puts begun
          crashes,   \* history: crashes
          late,      \* history: a call has timed out
          cand,      \* history, [Slots -> values that no successful put has replaced]
          before,    \* history, [Clients -> values that its put replaces]
          overtaken  \* history: values of requests that had been left behind when a
                     \* later put for their slot began

network == <<sent, replied>>
client == <<pc, put, peer, outcome>>
record == <<cand, before, overtaken>>
vars == <<store, up, client, network, puts, crashes, late, record>>

Requests == [slot : Slots, val : Values, to : Hosts]
NoPut == [slot |-> CHOOSE s \in Slots : TRUE, val |-> 0]

Init ==
    /\ store = [h \in Hosts |-> [s \in Slots |-> 0]]
    /\ up = Hosts
    /\ pc = [c \in Clients |-> "idle"]
    /\ put = [c \in Clients |-> NoPut]
    /\ peer = [c \in Clients |-> 1]
    /\ outcome = [c \in Clients |-> "none"]
    /\ sent = {} /\ replied = {}
    /\ puts = 0 /\ crashes = 0 /\ late = FALSE
    /\ cand = [s \in Slots |-> {0}]
    /\ before = [c \in Clients |-> {}] /\ overtaken = {}

\* The values of the puts that have not returned, and those of the requests that puts
\* have left behind which have: peers may still execute them.
UnderWay == {put[c].val : c \in {d \in Clients : pc[d] # "idle"}}
LeftBehind == {m.val : m \in sent} \ UnderWay

\* json.Marshal refuses the value.
PutInvalid(c) ==
    /\ pc[c] = "idle" /\ HostOf[c] \in up
    /\ outcome' = [outcome EXCEPT ![c] = "invalid"]
    /\ UNCHANGED <<store, up, pc, put, peer, network, puts, crashes, late, record>>

Put(c, s) ==
    /\ pc[c] = "idle" /\ HostOf[c] \in up /\ puts < MaxPuts
    /\ puts' = puts + 1
    /\ pc' = [pc EXCEPT ![c] = "next"]
    /\ put' = [put EXCEPT ![c] = [slot |-> s, val |-> puts + 1]]
    /\ peer' = [peer EXCEPT ![c] = 1]
    /\ outcome' = [outcome EXCEPT ![c] = "none"]
    /\ cand' = [cand EXCEPT ![s] = @ \cup {puts + 1}]
    /\ before' = [before EXCEPT ![c] = cand[s] \ UnderWay]
    /\ overtaken' = overtaken \cup (cand[s] \cap LeftBehind)
    /\ UNCHANGED <<store, up, network, crashes, late>>

To(c) == Peers[peer[c]].host
Serves(a) == a.host \in up /\ ServiceAt(a.port) = "KVStore"

Returns(c, err) ==
    /\ pc' = [pc EXCEPT ![c] = "idle"]
    /\ outcome' = [outcome EXCEPT ![c] = err]
    /\ replied' = replied \ {put[c].val}
    /\ before' = [before EXCEPT ![c] = {}]
    /\ UNCHANGED <<put, peer, overtaken>>

\* client.StoreVal(ctx, ...): the request leaves.
Invoke(c) ==
    /\ pc[c] = "next" /\ Serves(Peers[peer[c]])
    /\ sent' = sent \cup {[slot |-> put[c].slot, val |-> put[c].val, to |-> To(c)]}
    /\ pc' = [pc EXCEPT ![c] = "wait"]
    /\ UNCHANGED <<store, up, put, peer, outcome, replied, puts, crashes, late, record>>

\* There is no server at the address, or the connection was lost in a crash and is
\* not yet tried again (Unavailable), or the server does not know the service
\* kvstore.KVStore (Unimplemented): Put returns the error.
InvokeFails(c) ==
    /\ pc[c] = "next" /\ (~Serves(Peers[peer[c]]) \/ crashes > 0)
    /\ Returns(c, "error")
    /\ UNCHANGED <<store, up, sent, puts, crashes, late, cand>>

\* StoreVal of a peer, perhaps long after the caller has given up.
StoreVal(m) ==
    /\ m \in sent /\ m.to \in up
    /\ store' = [store EXCEPT ![m.to][m.slot] = m.val]
    /\ sent' = sent \ {m}
    /\ replied' = replied \cup
          {m.val : c \in {d \in Clients : pc[d] = "wait" /\ put[d].val = m.val /\ To(d) = m.to}}
    /\ UNCHANGED <<up, client, puts, crashes, late, record>>

\* A loop that goes one peer too far.
ReceiveMutant(c) ==
    /\ pc[c] = "wait" /\ put[c].val \in replied
    /\ peer' = [peer EXCEPT ![c] = @ + 1]
    /\ pc' = [pc EXCEPT ![c] = "next"]
    /\ replied' = replied \ {put[c].val}
    /\ UNCHANGED <<store, up, put, outcome, sent, puts, crashes, late, record>>

\* The answer of the peer: on to the next one, or return nil after the last.
Receive(c) ==
    /\ pc[c] = "wait" /\ put[c].val \in replied
    /\ \/ /\ peer[c] < Len(Peers)
          /\ peer' = [peer EXCEPT ![c] = @ + 1]
          /\ pc' = [pc EXCEPT ![c] = "next"]
          /\ replied' = replied \ {put[c].val}
          /\ UNCHANGED <<put, outcome, record>>
       \/ /\ peer[c] = Len(Peers)
          /\ cand' = [cand EXCEPT ![put[c].slot] = @ \ before[c]]
          /\ Returns(c, "ok")
    /\ UNCHANGED <<store, up, sent, puts, crashes, late>>

\* A call without a deadline.
DeadlineMutant(c) == FALSE /\ UNCHANGED vars

\* A deadline that is logged and otherwise ignored.
IgnoredDeadlineMutant(c) ==
    /\ pc[c] = "wait"
    /\ late' = TRUE
    /\ \/ /\ peer[c] < Len(Peers)
          /\ peer' = [peer EXCEPT ![c] = @ + 1]
          /\ pc' = [pc EXCEPT ![c] = "next"]
          /\ replied' = replied \ {put[c].val}
          /\ UNCHANGED <<put, outcome, record>>
       \/ /\ peer[c] = Len(Peers)
          /\ cand' = [cand EXCEPT ![put[c].slot] = @ \ before[c]]
          /\ Returns(c, "ok")
    /\ UNCHANGED <<store, up, sent, puts, crashes>>

\* The timeout of this peer's call, perhaps before it is connected.
Deadline(c) ==
    /\ pc[c] \in {"next", "wait"}
    /\ late' = TRUE
    /\ Returns(c, "error")
    /\ UNCHANGED <<store, up, sent, puts, crashes, cand>>

Disconnected(c) ==
    /\ pc[c] = "broken"
    /\ Returns(c, "error")
    /\ UNCHANGED <<store, up, sent, puts, crashes, late, cand>>

\* A host stops: its map is gone, its puts are cut off, requests it has not executed
\* are lost and their callers lose the connection.
Crash(h) ==
    /\ h \in up /\ crashes < MaxCrashes
    /\ crashes' = crashes + 1
    /\ up' = up \ {h}
    /\ store' = [store EXCEPT ![h] = [s \in Slots |-> 0]]
    /\ sent' = {m \in sent : m.to # h}
    /\ pc' = [c \in Clients |-> IF HostOf[c] = h THEN "idle" ELSE
                 IF pc[c] = "wait" /\ To(c) = h /\ put[c].val \notin replied THEN "broken" ELSE pc[c]]
    /\ replied' = {v \in replied : \A c \in Clients : HostOf[c] = h => put[c].val # v}
    /\ before' = [c \in Clients |-> IF HostOf[c] = h THEN {} ELSE before[c]]
    /\ UNCHANGED <<put, peer, outcome, puts, late, cand, overtaken>>

\* NewGrpcStorage on the host: an empty InmemoryStorage.
Restart(h) ==
    /\ h \notin up
    /\ up' = up \cup {h}
    /\ UNCHANGED <<store, client, network, puts, crashes, late, record>>

Next ==
    \/ \E c \in Clients :
          \/ PutInvalid(c) \/ (\E s \in Slots : Put(c, s)) \/ Invoke(c) \/ InvokeFails(c)
          \/ Receive(c) \/ Deadline(c) \/ Disconnected(c)
    \/ \E m \in sent : StoreVal(m)
    \/ \E h \in Hosts : Crash(h) \/ Restart(h)

\* A goroutine goes on with its call: it sends, and it reads what comes first, the
\* answer, the end of the connection or the deadline.  Nothing makes a peer answer.
Fairness ==
    \A c \in Clients :
        /\ WF_vars(Invoke(c) \/ InvokeFails(c))
        /\ WF_vars(Receive(c) \/ Deadline(c) \/ Disconnected(c))

Spec == Init /\ [][Next]_vars /\ Fairness

-----------------------------------------------------------------------------
TypeOK ==
    /\ store \in [Hosts -> [Slots -> Values]]
    /\ up \subseteq Hosts
    /\ pc \in [Clients -> {"idle", "next", "wait", "broken"}]
    /\ put \in [Clients -> [slot : Slots, val : Values]]
    /\ peer \in [Clients -> 1..Len(Peers)]
    /\ outcome \in [Clients -> {"none", "ok", "error", "invalid"}]
    /\ sent \subseteq Requests
    /\ replied \subseteq Values
    /\ puts \in Values /\ crashes \in 0..MaxCrashes /\ late \in BOOLEAN
    /\ cand \in [Slots -> SUBSET Values]
    /\ before \in [Clients -> SUBSET Values] /\ overtaken \subseteq Values

\* After a put that returned nil, no peer holds a value whose put had returned before
\* that put began, but for two faults.  A host that has crashed may hold nothing.  And
\* a peer may execute the request of a put that has given up after a later put was
\* acknowledged, and then holds the older value: only where a deadline was missed or a
\* host has crashed, and only requests that were on their way when the later put began.
ReplicaFresh ==
    \A h \in Hosts, s \in Slots :
        (\E i \in DOMAIN Peers : Peers[i].host = h) =>
            \/ store[h][s] \in cand[s]
            \/ (crashes > 0 /\ store[h][s] = 0)
            \/ ((late \/ crashes > 0) /\ store[h][s] \in overtaken)

\* As long as no host has crashed and no peer was slower than the timeout, a put of
\* a value that can be marshalled succeeds.
FaultFreePutSucceeds ==
    crashes = 0 /\ ~late => \A c \in Clients : outcome[c] # "error"

\* Put returns, whether its peers answer, hang, crash or come back.
PutReturns == \A c \in Clients : pc[c] # "idle" ~> pc[c] = "idle"
=============================================================================
