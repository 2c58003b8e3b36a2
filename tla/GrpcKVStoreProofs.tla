-------------------------- MODULE GrpcKVStoreProofs --------------------------
(***************************************************************************)
(* For any cluster, any number of clients, puts and crashes: a put that    *)
(* was acknowledged is undone only by a request that a put which has given *)
(* up had left behind, and puts fail only for a reason.                    *)
(***************************************************************************)
EXTENDS GrpcKVStore, ListFacts, TLAPS

-----------------------------------------------------------------------------
(* The inductive invariant. *)

\* The n-th put stores n, so that a value names its put: no two clients make the
\* same put, and a request is for the slot of the put it belongs to.
Numbered ==
    /\ \A c \in Clients : put[c].val <= puts /\ (pc[c] # "idle" => put[c].val > 0)
    /\ \A c, d \in Clients : put[c].val = put[d].val => c = d \/ put[c].val = 0
    /\ \A m \in sent : m.val \in 1..puts
    /\ \A m \in sent, c \in Clients : m.val = put[c].val => m.slot = put[c].slot
    /\ \A v \in replied : v <= puts
    /\ \A s \in Slots : \A v \in cand[s] : v <= puts
    /\ \A c \in Clients : pc[c] = "next" => put[c].val \notin replied

\* What may still be written is never a value that a put under way replaces, nor
\* one that a put has replaced, unless it was left behind and overtaken.
Writable ==
    /\ \A c \in Clients : pc[c] = "idle" => before[c] = {}
    /\ \A c \in Clients : \A v \in before[c] : v <= puts
    /\ \A c \in Clients : \A m \in sent : m.val \notin before[c] \/ m.val \in overtaken
    /\ \A c, d \in Clients : pc[d] # "idle" => put[d].val \notin before[c]
    /\ \A m \in sent : m.val \in cand[m.slot] \/ m.val \in overtaken
    /\ \A c \in Clients : pc[c] # "idle" => put[c].val \in cand[put[c].slot]

\* The i-th peer has none of the values that the put of c replaces.
Replaced(c, i) ==
    LET v == store[Peers[i].host][put[c].slot]
    IN  v \notin before[c] \/ (crashes > 0 /\ v = 0) \/ v \in overtaken

\* A put has replaced the older values at the peers it is done with: those before
\* the current one, and the current one once it has executed the request.
Progress ==
    \A c \in Clients, i \in DOMAIN Peers :
        \/ i < peer[c]
        \/ i = peer[c] /\ pc[c] = "wait" /\ put[c].val \in replied
        => Replaced(c, i)

\* A request that was answered is gone; and without a fault every request has a caller
\* that waits for its answer, so that none is left behind.
Awaited ==
    /\ \A m \in sent, c \in Clients :
          pc[c] = "wait" /\ put[c].val \in replied /\ m.val = put[c].val => m.to # To(c)
    /\ ~late /\ crashes = 0 =>
          /\ overtaken = {}
          /\ \A m \in sent : \E c \in Clients : pc[c] = "wait" /\ put[c].val = m.val /\ To(c) = m.to

\* A peer holds what no acknowledged put has replaced, nothing, or what was overtaken.
Fresh ==
    \A i \in DOMAIN Peers, s \in Slots :
        LET v == store[Peers[i].host][s]
        IN  v \in cand[s] \/ (crashes > 0 /\ v = 0) \/ v \in overtaken

IInv == TypeOK /\ Numbered /\ Writable /\ Progress /\ Fresh /\ Awaited

-----------------------------------------------------------------------------
(* Types. *)

\* validate removes the empty name at the end of the list at most, and every name
\* becomes an address: there is at least one peer, and peers are hosts.
LEMMA PeersFacts ==
    /\ Len(Peers) \in Nat \ {0} /\ DOMAIN Peers = 1..Len(Peers)
    /\ DOMAIN Peers \subseteq 1..Len(ClusterHostnames)
    /\ \A i \in DOMAIN Peers : Peers[i].host \in Hosts
    /\ \A i \in DOMAIN Peers : LET p == ClusterHostnames[i].port
                               IN  Peers[i].port = IF p # 0 THEN p ELSE MatchstorePort
<1> DEFINE names == validate(ClusterHostnames)
           A == [host : Hosts \cup {NoHost}, port : Nat]
<1>1. ClusterHostnames \in Seq(A) /\ Len(ClusterHostnames) > 1
  BY ClusterAssumption
<1>2. names \in {ClusterHostnames, SubSeq(ClusterHostnames, 1, Len(ClusterHostnames) - 1)}
  BY DEF validate
<1>3. /\ Len(names) \in Nat \ {0} /\ DOMAIN names = 1..Len(names)
      /\ 1..Len(names) \subseteq 1..Len(ClusterHostnames)
      /\ \A i \in 1..Len(names) : names[i] = ClusterHostnames[i] /\ ClusterHostnames[i] \in A
  <2> HIDE DEF A, names
  <2> QED
    BY <1>1, <1>2, DropLastFacts
<1>4. \A i \in 1..Len(names) : names[i].host \in Hosts
  <2>1. CASE ClusterHostnames[Len(ClusterHostnames)].host = NoHost
    <3>1. Len(names) = Len(ClusterHostnames) - 1
      BY <1>1, <2>1 DEF validate
    <3> QED
      BY <1>3, <3>1, ClusterAssumption
  <2>2. CASE ClusterHostnames[Len(ClusterHostnames)].host # NoHost
    <3> names = ClusterHostnames
      BY <2>2 DEF validate
    <3> QED
      BY <1>1, <1>3, <2>2, ClusterAssumption
  <2> QED
    BY <2>1, <2>2
<1> HIDE DEF names
<1>5. Peers = [i \in 1..Len(names) |->
                 [host |-> names[i].host, port |-> IF names[i].port # 0 THEN names[i].port ELSE MatchstorePort]]
  BY <1>3 DEF Peers, kvstoreAddresses, createAddresses, names
<1>6. Len(Peers) = Len(names)
  BY <1>3, <1>5
<1> QED
  BY <1>3, <1>4, <1>5, <1>6

\* The state the servers start in is well typed.
LEMMA TypeInit == Init => TypeOK
<1> SUFFICES ASSUME Init PROVE TypeOK
  OBVIOUS
<1>1. 0 \in Values /\ NoPut \in [slot : Slots, val : Values]
  BY KVStoreAssumption DEF NoPut, Values
<1>2. 1 \in 1..Len(Peers)
  BY PeersFacts
<1>3. /\ puts \in Values /\ crashes \in 0..MaxCrashes /\ late \in BOOLEAN
      /\ store \in [Hosts -> [Slots -> Values]] /\ up \subseteq Hosts
  <2>1. store \in [Hosts -> [Slots -> Values]]
    BY <1>1 DEF Init
  <2>2. crashes \in 0..MaxCrashes
    BY KVStoreAssumption DEF Init
  <2> QED
    BY <1>1, <2>1, <2>2 DEF Init
<1>4. /\ put \in [Clients -> [slot : Slots, val : Values]]
      /\ peer \in [Clients -> 1..Len(Peers)]
  BY <1>1, <1>2 DEF Init
<1>5. /\ cand \in [Slots -> SUBSET Values]
      /\ before \in [Clients -> SUBSET Values] /\ overtaken \subseteq Values
  BY <1>1 DEF Init
<1> QED
  BY <1>3, <1>4, <1>5 DEF Init, TypeOK

\* Every step keeps the state well typed.
LEMMA TypeStep == TypeOK /\ [Next]_vars => TypeOK'
<1> SUFFICES ASSUME TypeOK, [Next]_vars PROVE TypeOK'
  OBVIOUS
<1> USE PeersFacts, KVStoreAssumption DEF TypeOK, network, client, record
<1>1. ASSUME NEW c \in Clients, PutInvalid(c) PROVE TypeOK'
  BY <1>1 DEF PutInvalid
<1>2. ASSUME NEW c \in Clients, NEW s \in Slots, Put(c, s) PROVE TypeOK'
  <2> puts + 1 \in Values
    BY <1>2 DEF Put, Values
  <2> QED
    BY <1>2 DEF Put
<1>3. ASSUME NEW c \in Clients, Invoke(c) PROVE TypeOK'
  BY <1>3 DEF Invoke, To, Requests
<1>4. ASSUME NEW c \in Clients, NEW err \in {"ok", "error"}, Returns(c, err)
      PROVE  /\ pc' \in [Clients -> {"idle", "next", "wait", "broken"}]
             /\ outcome' \in [Clients -> {"none", "ok", "error", "invalid"}]
             /\ replied' \subseteq Values
             /\ before' \in [Clients -> SUBSET Values]
             /\ UNCHANGED <<put, peer, overtaken>>
  BY <1>4 DEF Returns
<1>5. ASSUME NEW c \in Clients, InvokeFails(c) PROVE TypeOK'
  BY <1>4, <1>5 DEF InvokeFails
<1>6. ASSUME NEW c \in Clients, Receive(c) PROVE TypeOK'
  <2>1. CASE peer[c] < Len(Peers) /\ peer' = [peer EXCEPT ![c] = @ + 1]
             /\ pc' = [pc EXCEPT ![c] = "next"] /\ replied' = replied \ {put[c].val}
             /\ UNCHANGED <<put, outcome, record>>
    BY <1>6, <2>1 DEF Receive
  <2>2. CASE cand' = [cand EXCEPT ![put[c].slot] = @ \ before[c]] /\ Returns(c, "ok")
    BY <1>4, <1>6, <2>2 DEF Receive
  <2> QED
    BY <1>6, <2>1, <2>2 DEF Receive
<1>7. ASSUME NEW c \in Clients, Deadline(c) PROVE TypeOK'
  BY <1>4, <1>7 DEF Deadline
<1>8. ASSUME NEW c \in Clients, Disconnected(c) PROVE TypeOK'
  BY <1>4, <1>8 DEF Disconnected
<1>9. ASSUME NEW m \in sent, StoreVal(m) PROVE TypeOK'
  <2> m.slot \in Slots /\ m.val \in Values /\ m.to \in Hosts
    BY DEF Requests
  <2> QED
    BY <1>9 DEF StoreVal
<1>10. ASSUME NEW h \in Hosts, Crash(h) PROVE TypeOK'
  <2> 0 \in Values
    BY DEF Values
  <2> QED
    BY <1>10 DEF Crash
<1>11. ASSUME NEW h \in Hosts, Restart(h) PROVE TypeOK'
  BY <1>11 DEF Restart
<1>12. CASE UNCHANGED vars
  BY <1>12 DEF vars
<1> QED
  BY <1>1, <1>2, <1>3, <1>5, <1>6, <1>7, <1>8, <1>9, <1>10, <1>11, <1>12 DEF Next

-----------------------------------------------------------------------------
(* The invariant. *)

\* The invariant holds before the first put.
LEMMA InvInit == Init => IInv
<1> SUFFICES ASSUME Init PROVE IInv
  OBVIOUS
<1>1. TypeOK
  BY TypeInit
<1>2. Numbered /\ Writable /\ Awaited
  BY <1>1 DEF Init, Numbered, Writable, Awaited, NoPut
<1>3. Progress
  BY PeersFacts DEF Init, Progress, Replaced
<1>4. Fresh
  BY PeersFacts DEF Init, Fresh
<1> QED
  BY <1>1, <1>2, <1>3, <1>4 DEF IInv

\* The numbers that are compared.
LEMMA Numbers ==
    ASSUME TypeOK
    PROVE  /\ puts \in Nat /\ crashes \in Nat
           /\ \A c \in Clients : put[c].val \in Nat /\ peer[c] \in Nat /\ put[c].slot \in Slots
           /\ \A m \in sent : m.val \in Nat /\ m.slot \in Slots /\ m.to \in Hosts
           /\ replied \subseteq Nat
           /\ \A s \in Slots : cand[s] \subseteq Nat
           /\ \A c \in Clients : before[c] \subseteq Nat
  BY PeersFacts, KVStoreAssumption DEF TypeOK, Values, Requests

\* A put that begins: its number is new, and what it replaces is settled.
LEMMA PutKeeps ==
    ASSUME IInv, TypeOK', NEW c \in Clients, NEW s \in Slots, Put(c, s)
    PROVE  IInv'
<1> USE Numbers DEF IInv
<1>1. /\ \A v \in cand[s] : v <= puts
      /\ \A m \in sent : m.val <= puts
      /\ \A v \in replied : v <= puts
  BY DEF Numbered
<1>2. Numbered'
  BY <1>1 DEF Put, Numbered, TypeOK, network
<1>0. overtaken' = overtaken \cup (cand[s] \cap LeftBehind)
  BY DEF Put
<1>3. Writable'
  <2>1. \A d \in Clients : d # c => before'[d] = before[d] /\ put'[d] = put[d] /\ pc'[d] = pc[d]
    BY DEF Put, TypeOK
  <2>2. put'[c] = [slot |-> s, val |-> puts + 1] /\ pc'[c] = "next" /\ before'[c] = cand[s] \ UnderWay
    BY DEF Put, TypeOK
  <2>3. sent' = sent /\ puts' = puts + 1
    BY DEF Put, network
  <2>4. \A t \in Slots : cand'[t] = IF t = s THEN cand[t] \cup {puts + 1} ELSE cand[t]
    <3> cand' = [cand EXCEPT ![s] = @ \cup {puts + 1}] /\ cand \in [Slots -> SUBSET Values]
      BY DEF Put, TypeOK
    <3> QED
      OBVIOUS
  <2>5. \A d \in Clients : \A v \in before'[d] : v <= puts
    BY <1>1, <2>1, <2>2 DEF Writable
  <2>6. \A m \in sent, d \in Clients : m.val \notin before'[d] \/ m.val \in overtaken'
    <3>1. \A m \in sent : m.val \in cand[s] \ UnderWay => m.val \in overtaken'
      BY <1>0 DEF LeftBehind
    <3> QED
      BY <1>0, <2>1, <2>2, <3>1 DEF Writable
  <2>7. \A d, e \in Clients : pc'[d] # "idle" => put'[d].val \notin before'[e]
    <3> SUFFICES ASSUME NEW d \in Clients, NEW e \in Clients, pc'[d] # "idle"
                 PROVE  put'[d].val \notin before'[e]
      OBVIOUS
    <3>1. CASE d = c
      BY <2>2, <2>5, <3>1
    <3>2. CASE d # c /\ e = c
      BY <2>1, <2>2, <3>2 DEF UnderWay
    <3>3. CASE d # c /\ e # c
      BY <2>1, <3>3 DEF Writable
    <3> QED
      BY <3>1, <3>2, <3>3
  <2>8. \A d \in Clients : pc'[d] # "idle" => put'[d].val \in cand'[put'[d].slot]
    <3> SUFFICES ASSUME NEW d \in Clients, pc'[d] # "idle" PROVE put'[d].val \in cand'[put'[d].slot]
      OBVIOUS
    <3>1. CASE d = c
      <4>1. put'[c].slot = s /\ put'[c].val = puts + 1
        BY <2>2
      <4>2. puts + 1 \in cand'[s]
        BY <2>4
      <4> QED
        BY <3>1, <4>1, <4>2
    <3>2. CASE d # c
      <4> put[d].slot \in Slots /\ put[d].val \in cand[put[d].slot]
        BY <2>1, <3>2 DEF Writable
      <4> QED
        BY <2>1, <2>4, <3>2
    <3> QED
      BY <3>1, <3>2
  <2>9. \A m \in sent : m.val \in cand'[m.slot] \/ m.val \in overtaken'
    BY <1>0, <2>4 DEF Writable
  <2> QED
    BY <2>1, <2>2, <2>3, <2>5, <2>6, <2>7, <2>8, <2>9 DEF Writable
<1>4. Progress'
  BY PeersFacts DEF Put, Progress, Replaced, TypeOK, network
<1>5. Fresh'
  BY <1>0 DEF Put, Fresh, TypeOK
<1>6. Awaited'
  <2>1. \A d \in Clients : pc'[d] = "wait" => d # c /\ pc[d] = "wait"
    BY DEF Put, TypeOK
  <2>2. \A d \in Clients : pc[d] = "wait" => /\ d # c /\ pc'[d] = "wait" /\ put'[d] = put[d]
                                             /\ To(d)' = To(d)
    BY DEF Put, TypeOK, To
  <2>3. UNCHANGED <<sent, replied, late, crashes>>
    BY DEF Put, network
  <2>4. ~late /\ crashes = 0 => LeftBehind = {}
    BY DEF Awaited, LeftBehind, UnderWay
  <2> QED
    BY <1>0, <2>1, <2>2, <2>3, <2>4 DEF Awaited
<1> QED
  BY <1>2, <1>3, <1>4, <1>5, <1>6

\* The request of a put under way leaves.
LEMMA InvokeKeeps ==
    ASSUME IInv, TypeOK', NEW c \in Clients, Invoke(c)
    PROVE  IInv'
<1> USE Numbers DEF IInv
<1>1. Numbered'
  <2>1. \A m \in sent' : m \in sent \/ (m.val = put[c].val /\ m.slot = put[c].slot)
    BY DEF Invoke
  <2>2. \A d \in Clients : (pc'[d] # "idle" <=> pc[d] # "idle") /\ (pc'[d] = "next" => pc[d] = "next")
    BY DEF Invoke, TypeOK
  <2>3. put[c].val \in 1..puts
    BY DEF Invoke, Numbered
  <2>4. UNCHANGED <<put, puts, replied, cand>>
    BY DEF Invoke, record
  <2> QED
    BY <2>1, <2>2, <2>3, <2>4 DEF Numbered
<1>2. Writable'
  <2>1. /\ \A d \in Clients : pc'[d] = "idle" <=> pc[d] = "idle"
        /\ UNCHANGED <<put, puts, cand, before, overtaken>>
    BY DEF Invoke, TypeOK, record
  <2>2. \A m \in sent' : m \in sent \/ (m.val = put[c].val /\ m.slot = put[c].slot)
    BY DEF Invoke
  <2>3. pc[c] # "idle"
    BY DEF Invoke
  <2> QED
    BY <2>1, <2>2, <2>3 DEF Writable
<1>3. Progress'
  BY PeersFacts DEF Invoke, Progress, Replaced, TypeOK, Numbered, record
<1>4. Fresh'
  BY DEF Invoke, Fresh, record
<1>5. Awaited'
  <2> DEFINE r == [slot |-> put[c].slot, val |-> put[c].val, to |-> To(c)]
  <2>1. sent' = sent \cup {r} /\ UNCHANGED <<put, peer, replied, late, crashes, overtaken>>
    BY DEF Invoke, record
  <2>2. \A d \in Clients : /\ pc'[d] = (IF d = c THEN "wait" ELSE pc[d]) /\ To(d)' = To(d)
    BY <2>1 DEF Invoke, TypeOK, To
  <2>3. pc[c] = "next" /\ put[c].val \notin replied /\ put[c].val > 0
    BY DEF Invoke, Numbered
  <2>4. r.val = put[c].val /\ r.to = To(c)
    OBVIOUS
  <2>5. \A m \in sent', d \in Clients :
           pc'[d] = "wait" /\ put[d].val \in replied /\ m.val = put[d].val => m.to # To(d)
    <3> SUFFICES ASSUME NEW m \in sent', NEW d \in Clients,
                        pc'[d] = "wait", put[d].val \in replied, m.val = put[d].val
                 PROVE  m.to # To(d)
      OBVIOUS
    <3>1. d # c /\ pc[d] = "wait" /\ put[c].val # put[d].val
      BY <2>2, <2>3
    <3>2. m \in sent
      BY <2>1, <2>4, <3>1
    <3> QED
      BY <3>1, <3>2 DEF Awaited
  <2>6. ~late /\ crashes = 0 =>
           \A m \in sent' : \E d \in Clients : pc'[d] = "wait" /\ put[d].val = m.val /\ To(d) = m.to
    <3> SUFFICES ASSUME ~late, crashes = 0, NEW m \in sent'
                 PROVE  \E d \in Clients : pc'[d] = "wait" /\ put[d].val = m.val /\ To(d) = m.to
      OBVIOUS
    <3>1. CASE m = r
      BY <2>2, <2>4, <3>1
    <3>2. CASE m \in sent
      BY <2>2, <3>2 DEF Awaited
    <3> QED
      BY <2>1, <3>1, <3>2
  <2> HIDE DEF r
  <2> QED
    BY <2>1, <2>2, <2>5, <2>6 DEF Awaited
<1> QED
  BY <1>1, <1>2, <1>3, <1>4, <1>5

\* A put that returns an error replaces nothing.
LEMMA ErrorKeeps ==
    ASSUME IInv, TypeOK', NEW c \in Clients, Returns(c, "error"),
           UNCHANGED <<store, sent, puts, crashes, cand>>,
           late' \/ (late' = late /\ pc[c] # "wait")
    PROVE  IInv'
<1> USE Numbers DEF IInv
<1>1. Numbered'
  BY DEF Returns, Numbered, TypeOK
<1>2. Writable'
  BY DEF Returns, Writable, TypeOK
<1>3. Progress'
  BY PeersFacts DEF Returns, Progress, Replaced, TypeOK
<1>4. Fresh'
  BY DEF Returns, Fresh
<1>5. Awaited'
  <2>1. /\ \A d \in Clients : pc'[d] = (IF d = c THEN "idle" ELSE pc[d]) /\ To(d)' = To(d)
        /\ replied' \subseteq replied /\ UNCHANGED <<put, overtaken>>
    BY DEF Returns, TypeOK, To
  <2> QED
    BY <2>1 DEF Awaited
<1> QED
  BY <1>1, <1>2, <1>3, <1>4, <1>5

\* A caller that has its answer has no request under way, so that it may go on.
LEMMA AnsweredKeeps ==
    ASSUME IInv, NEW c \in Clients, pc[c] = "wait", put[c].val \in replied,
           \A d \in Clients : d # c => pc'[d] = pc[d] /\ peer'[d] = peer[d],
           pc'[c] \in {"next", "idle"}, replied' \subseteq replied,
           UNCHANGED <<put, sent, late, crashes, overtaken>>
    PROVE  Awaited'
<1> USE DEF IInv
<1>1. \A d \in Clients : pc'[d] = "wait" => d # c /\ pc[d] = "wait" /\ To(d)' = To(d)
  BY DEF To
<1>2. \A m \in sent : m.val = put[c].val => m.to # To(c)
  BY DEF Awaited
<1>3. ASSUME NEW m \in sent, NEW d \in Clients, pc[d] = "wait", put[d].val = m.val, To(d) = m.to
      PROVE  pc'[d] = "wait" /\ To(d)' = To(d)
  <2> d # c
    BY <1>2, <1>3
  <2> QED
    BY <1>3 DEF To
<1> QED
  BY <1>1, <1>3 DEF Awaited

\* The answer of a peer that is not the last.
LEMMA ProceedKeeps ==
    ASSUME IInv, TypeOK', NEW c \in Clients, pc[c] = "wait", put[c].val \in replied,
           peer[c] < Len(Peers),
           peer' = [peer EXCEPT ![c] = @ + 1],
           pc' = [pc EXCEPT ![c] = "next"],
           replied' = replied \ {put[c].val},
           UNCHANGED <<put, cand, before, overtaken, store, sent, puts, crashes, late>>
    PROVE  IInv'
<1> USE Numbers DEF IInv
<1>1. Numbered'
  BY DEF Numbered, TypeOK
<1>2. Writable'
  BY DEF Writable, TypeOK
<1>3. Progress'
  <2>1. \A d \in Clients : d # c => peer'[d] = peer[d] /\ pc'[d] = pc[d]
    BY DEF TypeOK
  <2>2. peer'[c] = peer[c] + 1 /\ pc'[c] = "next"
    BY DEF TypeOK
  <2>3. \A d \in Clients, i \in DOMAIN Peers : Replaced(d, i)' <=> Replaced(d, i)
    BY DEF Replaced
  <2>4. \A i \in DOMAIN Peers : i < peer[c] + 1 => i < peer[c] \/ i = peer[c]
    BY PeersFacts
  <2> QED
    BY <2>1, <2>2, <2>3, <2>4 DEF Progress
<1>4. Fresh'
  BY DEF Fresh
<1>5. Awaited'
  BY AnsweredKeeps DEF TypeOK
<1> QED
  BY <1>1, <1>2, <1>3, <1>4, <1>5

\* The answer of the last peer: all of them have replaced the older values.
LEMMA SuccessKeeps ==
    ASSUME IInv, TypeOK', NEW c \in Clients, pc[c] = "wait", put[c].val \in replied,
           peer[c] = Len(Peers),
           cand' = [cand EXCEPT ![put[c].slot] = @ \ before[c]],
           Returns(c, "ok"),
           UNCHANGED <<store, sent, puts, crashes, late>>
    PROVE  IInv'
<1> USE Numbers DEF IInv
<1>1. Numbered'
  BY DEF Returns, Numbered, TypeOK
<1>2. Writable'
  BY DEF Returns, Writable, TypeOK
<1>3. Progress'
  BY PeersFacts DEF Returns, Progress, Replaced, TypeOK
<1>4. Fresh'
  <2>1. \A i \in DOMAIN Peers : Replaced(c, i)
    BY PeersFacts DEF Progress, TypeOK
  <2> QED
    BY <2>1, PeersFacts DEF Returns, Fresh, Replaced, TypeOK
<1>5. Awaited'
  BY AnsweredKeeps DEF Returns, TypeOK
<1> QED
  BY <1>1, <1>2, <1>3, <1>4, <1>5

\* A peer executes a request, of a put under way or of one that has failed.
LEMMA StoreValKeeps ==
    ASSUME IInv, TypeOK', NEW m \in sent, StoreVal(m)
    PROVE  IInv'
<1> USE Numbers DEF IInv
<1>1. \A h \in Hosts, s \in Slots :
          store'[h][s] = IF h = m.to /\ s = m.slot THEN m.val ELSE store[h][s]
  BY DEF StoreVal, TypeOK
<1>2. \A v \in replied' :
          \/ v \in replied
          \/ v = m.val /\ \E d \in Clients : pc[d] = "wait" /\ put[d].val = m.val /\ To(d) = m.to
  <2> DEFINE W == {d \in Clients : pc[d] = "wait" /\ put[d].val = m.val /\ To(d) = m.to}
  <2>1. replied' = replied \cup {m.val : d \in W}
    BY DEF StoreVal
  <2>2. \A v \in {m.val : d \in W} : v = m.val /\ \E d \in W : TRUE
    BY Zenon
  <2> QED
    BY <2>1, <2>2
<1>3. UNCHANGED <<pc, put, peer, puts, crashes, late, cand, before, overtaken>> /\ sent' = sent \ {m}
  BY DEF StoreVal, client, record
<1>4. Numbered'
  <2>1. \A d \in Clients : pc[d] = "next" => put[d].val \notin replied'
    BY <1>2 DEF Numbered
  <2> QED
    BY <1>2, <1>3, <2>1 DEF Numbered
<1>5. Writable'
  BY <1>3 DEF Writable
<1>6. Progress'
  <2> SUFFICES ASSUME NEW c \in Clients, NEW i \in DOMAIN Peers,
                      i < peer[c] \/ (i = peer[c] /\ pc[c] = "wait" /\ put[c].val \in replied')
               PROVE  Replaced(c, i)'
    BY <1>3 DEF Progress
  <2>1. CASE store'[Peers[i].host][put[c].slot] = m.val
    BY <1>3, <2>1 DEF Replaced, Writable
  <2>2. CASE store'[Peers[i].host][put[c].slot] # m.val
    <3>1. ~(Peers[i].host = m.to /\ put[c].slot = m.slot)
      BY <1>1, <2>2, PeersFacts
    <3>2. i < peer[c] \/ (i = peer[c] /\ pc[c] = "wait" /\ put[c].val \in replied)
      BY <1>2, <3>1 DEF Numbered, To
    <3> QED
      BY <1>1, <1>3, <3>1, <3>2, PeersFacts DEF Progress, Replaced
  <2> QED
    BY <2>1, <2>2
<1>7. Fresh'
  BY <1>1, <1>3, PeersFacts DEF Fresh, Writable
<1>8. Awaited'
  <2>1. \A d \in Clients : To(d)' = To(d)
    BY <1>3 DEF To
  <2>2. ASSUME NEW n \in sent', NEW d \in Clients,
               pc[d] = "wait", put[d].val \in replied', n.val = put[d].val, n.to = To(d)
        PROVE  FALSE
    <3>1. n \in sent /\ n # m
      BY <1>3
    <3>2. CASE put[d].val \in replied
      BY <2>2, <3>1, <3>2 DEF Awaited
    <3>3. CASE put[d].val \notin replied
      <4>1. put[d].val = m.val /\ \E e \in Clients : pc[e] = "wait" /\ put[e].val = m.val /\ To(e) = m.to
        BY <1>2, <2>2, <3>3
      <4>2. put[d].val > 0
        BY <2>2 DEF Numbered
      <4>3. To(d) = m.to
        BY <4>1, <4>2 DEF Numbered
      <4>4. n.slot = put[d].slot /\ m.slot = put[d].slot
        BY <2>2, <3>1, <4>1 DEF Numbered
      <4>5. n \in Requests /\ m \in Requests
        BY <3>1 DEF TypeOK
      <4> QED
        BY <2>2, <3>1, <4>1, <4>3, <4>4, <4>5 DEF Requests
    <3> QED
      BY <3>2, <3>3
  <2> QED
    BY <1>3, <2>1, <2>2 DEF Awaited
<1> QED
  BY <1>4, <1>5, <1>6, <1>7, <1>8

\* A crash: an empty map, and puts that are cut off.
LEMMA CrashKeeps ==
    ASSUME IInv, TypeOK', NEW h \in Hosts, Crash(h)
    PROVE  IInv'
<1> USE Numbers DEF IInv
<1>1. /\ \A c \in Clients : pc'[c] \in {pc[c], "idle"} \/ (pc'[c] = "broken" /\ pc[c] = "wait")
      /\ \A c \in Clients : before'[c] = before[c] \/ before'[c] = {}
      /\ \A c \in Clients : pc'[c] = "idle" => before'[c] = {}
      /\ sent' \subseteq sent /\ replied' \subseteq replied
      /\ UNCHANGED <<put, peer, puts, cand, overtaken>> /\ crashes' > 0
  BY DEF Crash, Writable
<1>2. \A g \in Hosts, s \in Slots : store'[g][s] \in {store[g][s], 0}
  BY DEF Crash, TypeOK
<1>3. Numbered'
  BY <1>1 DEF Numbered
<1>4. Writable'
  BY <1>1 DEF Writable
<1>5. Progress'
  BY <1>1, <1>2, PeersFacts DEF Progress, Replaced
<1>6. Fresh'
  BY <1>1, <1>2, PeersFacts DEF Fresh
<1>7. Awaited'
  BY <1>1 DEF Awaited, To
<1> QED
  BY <1>3, <1>4, <1>5, <1>6, <1>7

\* Every step preserves the invariant.
LEMMA InvStep == IInv /\ [Next]_vars => IInv'
<1> SUFFICES ASSUME IInv, [Next]_vars PROVE IInv'
  OBVIOUS
<1>1. TypeOK'
  BY TypeStep DEF IInv
<1>2. ASSUME NEW c \in Clients, NEW s \in Slots, Put(c, s) PROVE IInv'
  BY <1>1, <1>2, PutKeeps
<1>3. ASSUME NEW c \in Clients, Invoke(c) PROVE IInv'
  BY <1>1, <1>3, InvokeKeeps
<1>4. ASSUME NEW c \in Clients, InvokeFails(c) \/ Deadline(c) \/ Disconnected(c) PROVE IInv'
  BY <1>1, <1>4, ErrorKeeps DEF InvokeFails, Deadline, Disconnected
<1>5. ASSUME NEW c \in Clients, Receive(c) PROVE IInv'
  BY <1>1, <1>5, ProceedKeeps, SuccessKeeps DEF Receive, record
<1>6. ASSUME NEW m \in sent, StoreVal(m) PROVE IInv'
  BY <1>1, <1>6, StoreValKeeps
<1>7. ASSUME NEW h \in Hosts, Crash(h) PROVE IInv'
  BY <1>1, <1>7, CrashKeeps
<1>8. ASSUME UNCHANGED <<store, pc, put, peer, network, puts, crashes, late, record>> PROVE IInv'
  BY <1>1, <1>8 DEF IInv, Numbered, Writable, Progress, Replaced, Fresh, Awaited, To, network, record
<1>9. ASSUME NEW c \in Clients, PutInvalid(c) PROVE IInv'
  BY <1>8, <1>9 DEF PutInvalid
<1>10. ASSUME NEW h \in Hosts, Restart(h) PROVE IInv'
  BY <1>8, <1>10 DEF Restart, client
<1>11. CASE UNCHANGED vars
  BY <1>8, <1>11 DEF vars, client
<1> QED
  BY <1>2, <1>3, <1>4, <1>5, <1>6, <1>7, <1>9, <1>10, <1>11 DEF Next

\* The invariant holds in every reachable state.
LEMMA Inv == Spec => []IInv
  BY InvInit, InvStep, PTL DEF Spec

-----------------------------------------------------------------------------
(* The theorems. *)

\* The maps of the hosts, the calls and the messages are what they seem to be.
THEOREM TypeCorrect == Spec => []TypeOK
  BY TypeInit, TypeStep, PTL DEF Spec

\* No interleaving of puts, timeouts, requests that are executed late, crashes and
\* restarts leaves a peer with a value that an acknowledged put has replaced, unless a
\* put that had returned an error before had left its request behind: then that request
\* may undo it.  Without a missed deadline or a crash nothing is undone.
THEOREM AcknowledgedPutStays == Spec => []ReplicaFresh
<1>1. IInv => ReplicaFresh
  <2> SUFFICES ASSUME IInv, NEW i \in DOMAIN Peers, NEW s \in Slots
               PROVE  LET v == store[Peers[i].host][s]
                      IN  \/ v \in cand[s]
                          \/ (crashes > 0 /\ v = 0)
                          \/ ((late \/ crashes > 0) /\ v \in overtaken)
    BY DEF ReplicaFresh
  <2>1. crashes \in Nat /\ late \in BOOLEAN
    BY Numbers DEF IInv, TypeOK
  <2>2. late \/ crashes > 0 \/ overtaken = {}
    BY <2>1 DEF IInv, Awaited
  <2> QED
    BY <2>2 DEF IInv, Fresh
<1> QED
  BY <1>1, Inv, PTL

\* Every address belongs to a server of the key-value store.
AddressesServe == \A i \in DOMAIN Peers : ServiceAt(Peers[i].port) = "KVStore"

\* No error before the first crash or timeout, and all hosts are up until then.
FaultFree ==
    crashes = 0 => /\ up = Hosts
                   /\ \A c \in Clients : pc[c] # "broken"
                   /\ ~late => \A c \in Clients : outcome[c] # "error"

\* If all addresses lead to servers of the key-value store, which is what
\* createAddresses breaks for names without a port, Put returns no error as long as
\* no host has crashed and no call has timed out.
THEOREM PutSucceeds ==
    ASSUME AddressesServe
    PROVE  Spec => []FaultFreePutSucceeds
<1>1. Init => TypeOK /\ FaultFree
  BY TypeInit DEF Init, FaultFree
<1>2. TypeOK /\ FaultFree /\ [Next]_vars => TypeOK' /\ FaultFree'
  <2> SUFFICES ASSUME TypeOK, FaultFree, [Next]_vars PROVE FaultFree'
    BY TypeStep
  <2> USE PeersFacts, KVStoreAssumption DEF FaultFree, TypeOK, network, client
  <2>1. ASSUME NEW c \in Clients, PutInvalid(c) PROVE FaultFree'
    BY <2>1 DEF PutInvalid
  <2>2. ASSUME NEW c \in Clients, NEW s \in Slots, Put(c, s) PROVE FaultFree'
    BY <2>2 DEF Put
  <2>3. ASSUME NEW c \in Clients, Invoke(c) PROVE FaultFree'
    BY <2>3 DEF Invoke
  <2>4. ASSUME NEW c \in Clients, InvokeFails(c) PROVE FaultFree'
    <3> crashes > 0
      BY <2>4, AddressesServe DEF InvokeFails, Serves, AddressesServe
    <3> QED
      BY <2>4 DEF InvokeFails
  <2>5. ASSUME NEW c \in Clients, Receive(c) PROVE FaultFree'
    BY <2>5 DEF Receive, Returns
  <2>6. ASSUME NEW c \in Clients, Deadline(c) PROVE FaultFree'
    BY <2>6 DEF Deadline, Returns
  <2>7. ASSUME NEW c \in Clients, Disconnected(c) PROVE FaultFree'
    BY <2>7 DEF Disconnected, Returns
  <2>8. ASSUME NEW m \in sent, StoreVal(m) PROVE FaultFree'
    BY <2>8 DEF StoreVal
  <2>9. ASSUME NEW h \in Hosts, Crash(h) PROVE FaultFree'
    BY <2>9 DEF Crash
  <2>10. ASSUME NEW h \in Hosts, Restart(h) PROVE FaultFree'
    BY <2>10 DEF Restart
  <2>11. CASE UNCHANGED vars
    BY <2>11 DEF vars
  <2> QED
    BY <2>1, <2>2, <2>3, <2>4, <2>5, <2>6, <2>7, <2>8, <2>9, <2>10, <2>11 DEF Next
<1>3. FaultFree => FaultFreePutSucceeds
  BY DEF FaultFree, FaultFreePutSucceeds
<1> QED
  BY <1>1, <1>2, <1>3, PTL DEF Spec

\* No request is sent, no put is acknowledged and no host stores anything.
NothingStored ==
    /\ \A c \in Clients : pc[c] \in {"idle", "next"} /\ outcome[c] # "ok"
    /\ sent = {}
    /\ \A h \in Hosts, s \in Slots : store[h][s] = 0

\* With names that carry no port, as in the deployments, all addresses lead to the
\* servers of the match store, which do not know the service (createAddresses): the
\* key-value store never stores a value, in any cluster and with any number of puts.
THEOREM PlainNamesStoreNothing ==
    ASSUME \A i \in 1..Len(ClusterHostnames) : ClusterHostnames[i].port = 0
    PROVE  Spec => []NothingStored
<1>1. \A i \in DOMAIN Peers : ServiceAt(Peers[i].port) # "KVStore"
  BY PeersFacts DEF ServiceAt
<1>2. Init => TypeOK /\ NothingStored
  BY TypeInit DEF Init, NothingStored
<1>3. TypeOK /\ NothingStored /\ [Next]_vars => TypeOK' /\ NothingStored'
  <2> SUFFICES ASSUME TypeOK, NothingStored, [Next]_vars PROVE NothingStored'
    BY TypeStep
  <2> USE DEF NothingStored, TypeOK, network, client
  <2>1. ASSUME NEW c \in Clients, PutInvalid(c) PROVE NothingStored'
    BY <2>1 DEF PutInvalid
  <2>2. ASSUME NEW c \in Clients, NEW s \in Slots, Put(c, s) PROVE NothingStored'
    BY <2>2 DEF Put
  <2>3. ASSUME NEW c \in Clients, Invoke(c) PROVE FALSE
    BY <1>1, <2>3, PeersFacts DEF Invoke, Serves
  <2>4. ASSUME NEW c \in Clients, InvokeFails(c) \/ Deadline(c) \/ Disconnected(c) PROVE NothingStored'
    <3>1. Returns(c, "error") /\ UNCHANGED <<store, sent>>
      BY <2>4 DEF InvokeFails, Deadline, Disconnected
    <3> QED
      BY <3>1 DEF Returns
  <2>5. ASSUME NEW c \in Clients, Receive(c) PROVE FALSE
    BY <2>5 DEF Receive
  <2>6. ASSUME NEW h \in Hosts, Crash(h) PROVE NothingStored'
    BY <2>6 DEF Crash
  <2>7. ASSUME NEW h \in Hosts, Restart(h) PROVE NothingStored'
    BY <2>7 DEF Restart
  <2>8. CASE UNCHANGED vars
    BY <2>8 DEF vars
  <2> QED
    BY <2>1, <2>2, <2>3, <2>4, <2>5, <2>6, <2>7, <2>8 DEF Next
<1> QED
  BY <1>2, <1>3, PTL DEF Spec
=============================================================================
