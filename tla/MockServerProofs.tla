-------------------------- MODULE MockServerProofs --------------------------
(***************************************************************************)
(* For any endpoints, requests, reloads and number of goroutines: that the *)
(* trees are built and searched as they should be, and what the variables  *)
(* that all requests share still guarantee.                                *)
(***************************************************************************)
EXTENDS MockServer, ListFacts, TLAPS

-----------------------------------------------------------------------------
(* The trees. *)

\* The endpoints as they are registered, the segments of their paths and of the
\* nodes.
Endpoints == {withID(def, i) : def \in Definitions, i \in 1..MaxEndpoints}
PathSegments == UNION {ToSet(d.path) : d \in Definitions}
NodeKeys == {segmentKey(s) : s \in PathSegments}
Nodes == {<<>>} \cup UNION {Prefixes(nodeOf(def)) : def \in Definitions}

\* The tree is closed under prefixes and has a list of endpoints for every key.
TreeShape(tree) ==
    /\ <<>> \in DOMAIN tree
    /\ \A n \in DOMAIN tree : n \in Nodes /\ Prefixes(n) \subseteq DOMAIN tree
    /\ \A n \in DOMAIN tree : tree[n].endpoints \in [EndpointKeys -> Seq(Endpoints)]

\* Its endpoints are at the node and under the key that they belong to.
Placed(tree) ==
    \A n \in DOMAIN tree, k \in EndpointKeys :
        \A ep \in ToSet(tree[n].endpoints[k]) : nodeOf(ep) = n /\ endpointKey(ep) = k

\* It has the endpoints eps, each as often as eps has it.
Holding(tree, eps) ==
    /\ eps \in Seq(Endpoints)
    /\ EndpointsOf(tree) = ToSet(eps)
    /\ IsFiniteSet(Places(tree)) /\ Cardinality(Places(tree)) = Len(eps)

\* It has no nodes but those on the way to these endpoints, each with the name that one
\* of them has left there.
Grown(tree, eps) ==
    \A n \in DOMAIN tree :
        n = <<>> \/ \E ep \in ToSet(eps) : /\ n \in Prefixes(nodeOf(ep))
                                          /\ tree[n].pathParamName = pathParamName(ep.path[Len(n)])

\* Its lists have the higher priorities first, if eps has those of each list last.
Falling(list) == \A i, j \in DOMAIN list : i < j => list[i].prio >= list[j].prio
AllFalling(tree) == \A n \in DOMAIN tree, k \in EndpointKeys : Falling(tree[n].endpoints[k])
Sorted(tree, eps) == RisingPrio(eps) => AllFalling(tree)

TreeOK(tree, eps) ==
    TreeShape(tree) /\ Placed(tree) /\ Holding(tree, eps) /\ Grown(tree, eps) /\ Sorted(tree, eps)

\* An id changes neither the node nor the key of an endpoint.
LEMMA EndpointFacts ==
    ASSUME NEW ep \in Endpoints
    PROVE  /\ ep.path \in Seq(PathSegments) /\ endpointKey(ep) \in EndpointKeys
           /\ nodeOf(ep) \in Seq(NodeKeys) /\ Len(nodeOf(ep)) = Len(ep.path)
           /\ \A i \in 1..Len(ep.path) : nodeOf(ep)[i] = segmentKey(ep.path[i])
           /\ Prefixes(nodeOf(ep)) \subseteq Nodes
<1>1. PICK def \in Definitions, i \in 1..MaxEndpoints : ep = withID(def, i)
  BY DEF Endpoints
<1>2. /\ DOMAIN def = {"id", "prio", "method", "host", "path", "query", "headers", "body"}
      /\ def.path \in Seq(PathSegments) /\ endpointKey(def) \in EndpointKeys
  BY DefinitionsAssumption DEF PathSegments
<1>3. ep.path = def.path /\ ep.method = def.method /\ ep.host = def.host
  BY <1>1, <1>2 DEF withID
<1>4. ep.path \in Seq(PathSegments) /\ endpointKey(ep) \in EndpointKeys
  BY <1>2, <1>3 DEF endpointKey
<1> DEFINE m == Len(ep.path)
           node == nodeOf(ep)
<1>5. m \in Nat /\ DOMAIN ep.path = 1..m /\ \A j \in 1..m : ep.path[j] \in PathSegments
  BY <1>4
<1>6. node = [j \in 1..m |-> segmentKey(ep.path[j])]
  BY <1>5 DEF nodeOf
<1>7. \A j \in 1..m : segmentKey(ep.path[j]) \in NodeKeys
  BY <1>5 DEF NodeKeys
<1> HIDE DEF node, m
<1>8. node \in [1..m -> NodeKeys]
  BY <1>6, <1>7
<1>9. node \in Seq(NodeKeys) /\ Len(node) = m
  BY <1>5, <1>8
<1>10. Prefixes(node) \subseteq Nodes
  BY <1>3 DEF node, nodeOf, Nodes
<1> QED
  BY <1>4, <1>6, <1>9, <1>10 DEF node, m

\* The nodes on the way to a node: the node itself, and with each node those on the
\* way to it.
LEMMA PrefixFacts ==
    ASSUME NEW S, NEW n \in Seq(S)
    PROVE  /\ <<>> \in Prefixes(n) /\ n \in Prefixes(n)
           /\ \A p \in Prefixes(n) : p \in Seq(S) /\ Prefixes(p) \subseteq Prefixes(n)
<1>1. Len(n) \in Nat
  OBVIOUS
<1>2. \A l \in 0..Len(n) : SubSeq(n, 1, l) \in Seq(S) /\ Len(SubSeq(n, 1, l)) = l
  BY <1>1, SubSeqProperties
<1>3. SubSeq(n, 1, 0) = <<>> /\ SubSeq(n, 1, Len(n)) = n
  OBVIOUS
<1>4. ASSUME NEW l \in 0..Len(n), NEW j \in 0..l PROVE SubSeq(SubSeq(n, 1, l), 1, j) = SubSeq(n, 1, j)
  BY <1>1
<1>5. ASSUME NEW p \in Prefixes(n) PROVE p \in Seq(S) /\ Prefixes(p) \subseteq Prefixes(n)
  <2>1. PICK l \in 0..Len(n) : p = SubSeq(n, 1, l)
    BY DEF Prefixes
  <2>2. p \in Seq(S) /\ Len(p) = l
    BY <1>2, <2>1
  <2>3. ASSUME NEW q \in Prefixes(p) PROVE q \in Prefixes(n)
    <3>1. PICK j \in 0..l : q = SubSeq(p, 1, j)
      BY <2>2 DEF Prefixes
    <3>2. q = SubSeq(n, 1, j) /\ j \in 0..Len(n)
      BY <1>1, <1>4, <2>1, <3>1
    <3> QED
      BY <3>2 DEF Prefixes
  <2> QED
    BY <2>2, <2>3
<1>6. 0 \in 0..Len(n) /\ Len(n) \in 0..Len(n)
  BY <1>1
<1>7. <<>> \in Prefixes(n) /\ n \in Prefixes(n)
  BY <1>3, <1>6 DEF Prefixes
<1> QED
  BY <1>5, <1>7

\* Nodes are sequences of keys.
LEMMA NodeFacts == Nodes \subseteq Seq(NodeKeys)
<1> SUFFICES ASSUME NEW def \in Definitions PROVE Prefixes(nodeOf(def)) \subseteq Seq(NodeKeys)
  <2>1. <<>> \in Seq(NodeKeys)
    OBVIOUS
  <2> QED
    BY <2>1, Zenon DEF Nodes
<1> DEFINE m == Len(def.path)
           node == nodeOf(def)
<1>1. def.path \in Seq(PathSegments)
  BY DefinitionsAssumption DEF PathSegments
<1>2. m \in Nat /\ node = [j \in 1..m |-> segmentKey(def.path[j])]
  BY <1>1 DEF nodeOf
<1>3. \A j \in 1..m : segmentKey(def.path[j]) \in NodeKeys
  BY <1>1 DEF NodeKeys
<1> HIDE DEF node, m
<1>4. node \in [1..m -> NodeKeys]
  BY <1>2, <1>3
<1>5. node \in Seq(NodeKeys)
  BY <1>2, <1>4
<1> QED
  BY <1>5, PrefixFacts DEF node

\* The list r is eps with ep at the position at, behind none of a lower priority.
InsertedAt(eps, ep, r, at) ==
    /\ r[at] = ep
    /\ \A i \in 1..at - 1 : r[i] = eps[i] /\ ~(ep.prio > eps[i].prio)
    /\ \A i \in at + 1..Len(eps) + 1 : r[i] = eps[i - 1]

\* insertByPrio adds one element to a list, wherever it belongs.
LEMMA InsertFacts ==
    ASSUME NEW S, NEW eps \in Seq(S), NEW ep \in S
    PROVE  /\ insertByPrio(eps, ep) \in Seq(S)
           /\ Len(insertByPrio(eps, ep)) = Len(eps) + 1
           /\ ToSet(insertByPrio(eps, ep)) = ToSet(eps) \cup {ep}
           /\ \E at \in 1..Len(eps) + 1 : InsertedAt(eps, ep, insertByPrio(eps, ep), at)
<1> DEFINE lower == {i \in DOMAIN eps : ep.prio > eps[i].prio}
           at == IF lower = {} THEN 1 ELSE Min(lower)
           n == Len(eps)
<1>1. n \in Nat /\ DOMAIN eps = 1..n /\ \A i \in 1..n : eps[i] \in S
  OBVIOUS
<1>2. at \in 1..n + 1
  <2>1. CASE lower = {}
    BY <1>1, <2>1
  <2>2. CASE lower # {}
    <3>1. lower \subseteq 1..n
      BY <1>1
    <3>2. \E x \in lower : \A y \in lower : x <= y
      <4> HIDE DEF lower
      <4>1. lower \subseteq Nat
        BY <1>1, <3>1
      <4> QED
        BY <2>2, <4>1, LeastNat
    <3>3. Min(lower) \in lower
      <4> HIDE DEF lower
      <4> QED
        BY <3>2 DEF Min
    <3>4. at \in lower
      BY <2>2, <3>3
    <3> HIDE DEF lower, at
    <3> QED
      BY <1>1, <3>1, <3>4
  <2> QED
    BY <2>1, <2>2
<1> DEFINE r == insertByPrio(eps, ep)
           front == SubSeq(eps, 1, at - 1)
           back == SubSeq(eps, at, n)
<1>3. r = front \o <<ep>> \o back
  BY DEF insertByPrio, InsertAt
<1> HIDE DEF at, r, n
<1>4. /\ front \in Seq(S) /\ Len(front) = at - 1
      /\ back \in Seq(S) /\ Len(back) = n - at + 1
      /\ \A i \in 1..at - 1 : front[i] = eps[i]
      /\ \A i \in 1..n - at + 1 : back[i] = eps[at + i - 1]
  BY <1>1, <1>2, SubSeqProperties DEF n
<1> HIDE DEF front, back
<1>5. r \in Seq(S) /\ Len(r) = n + 1
  BY <1>1, <1>2, <1>3, <1>4
<1>6. /\ \A i \in 1..at - 1 : r[i] = eps[i]
      /\ r[at] = ep
      /\ \A i \in at + 1..n + 1 : r[i] = eps[i - 1]
  <2> DEFINE t == front \o <<ep>>
  <2>1. /\ t \in Seq(S) /\ Len(t) = at
        /\ \A i \in 1..at - 1 : t[i] = front[i]
        /\ t[at] = ep
    <3>1. <<ep>> \in Seq(S) /\ Len(<<ep>>) = 1 /\ <<ep>>[1] = ep
      OBVIOUS
    <3>2. /\ t \in Seq(S) /\ Len(t) = (at - 1) + 1
          /\ \A i \in 1..at - 1 : t[i] = front[i]
      BY <1>2, <1>4, <3>1
    <3>3. t[(at - 1) + 1] = <<ep>>[1]
      BY <1>2, <1>4, <3>1
    <3>4. (at - 1) + 1 = at
      BY <1>2
    <3> HIDE DEF t
    <3> QED
      BY <3>1, <3>2, <3>3, <3>4
  <2>2. r = t \o back
    BY <1>3
  <2> HIDE DEF t
  <2>3. /\ \A i \in 1..at : r[i] = t[i]
        /\ \A i \in 1..n - at + 1 : r[at + i] = back[i]
    BY <1>1, <1>2, <1>4, <2>1, <2>2
  <2>4. ASSUME NEW i \in at + 1..n + 1 PROVE r[i] = eps[i - 1]
    <3>1. i - at \in 1..n - at + 1 /\ at + (i - at) = i /\ at + (i - at) - 1 = i - 1
      BY <1>1, <1>2
    <3>2. r[at + (i - at)] = back[i - at] /\ back[i - at] = eps[at + (i - at) - 1]
      BY <1>4, <2>3, <3>1
    <3> QED
      BY <3>1, <3>2
  <2>5. \A i \in 1..at - 1 : i \in 1..at
    BY <1>2
  <2> QED
    BY <1>2, <1>4, <2>1, <2>3, <2>4, <2>5
<1>7. ToSet(r) = ToSet(eps) \cup {ep}
  <2>1. /\ ToSet(r) = {r[i] : i \in 1..n + 1}
        /\ ToSet(eps) = {eps[i] : i \in 1..n}
    BY <1>1, <1>5 DEF ToSet
  <2>2. ASSUME NEW i \in 1..n + 1 PROVE r[i] \in {eps[j] : j \in 1..n} \cup {ep}
    <3>1. CASE i < at
      BY <1>1, <1>2, <1>6, <3>1
    <3>2. CASE i = at
      BY <1>6, <3>2
    <3>3. CASE i > at
      <4>1. i \in at + 1..n + 1 /\ i - 1 \in 1..n
        BY <1>1, <1>2, <3>3
      <4> QED
        BY <1>6, <4>1
    <3> QED
      BY <1>1, <1>2, <3>1, <3>2, <3>3
  <2>3. ASSUME NEW j \in 1..n PROVE eps[j] \in {r[i] : i \in 1..n + 1}
    <3>1. CASE j < at
      BY <1>1, <1>2, <1>6, <3>1
    <3>2. CASE j >= at
      <4>1. j + 1 \in at + 1..n + 1 /\ j + 1 \in 1..n + 1 /\ (j + 1) - 1 = j
        BY <1>1, <1>2, <3>2
      <4>2. r[j + 1] = eps[j]
        BY <1>6, <4>1
      <4> QED
        BY <4>1, <4>2
    <3> QED
      BY <1>1, <1>2, <3>1, <3>2
  <2>4. ep \in {r[i] : i \in 1..n + 1}
    BY <1>1, <1>2, <1>6
  <2> QED
    BY <2>1, <2>2, <2>3, <2>4
<1>8. \A i \in 1..at - 1 : ~(ep.prio > eps[i].prio)
  <2>1. CASE lower = {}
    <3>1. at = 1
      BY <2>1 DEF at
    <3> QED
      BY <3>1
  <2>2. CASE lower # {}
    <3>1. at = Min(lower)
      BY <2>2 DEF at
    <3>2. lower \subseteq Nat
      BY <1>1
    <3>3. \A i \in 1..at - 1 : i \in DOMAIN eps
      BY <1>1, <1>2
    <3>4. \A i \in lower : at <= i
      <4> HIDE DEF lower
      <4> QED
        BY <2>2, <3>1, <3>2, LeastNat DEF Min
    <3>5. ASSUME NEW i \in 1..at - 1 PROVE ~(i \in lower)
      <4> HIDE DEF lower
      <4> QED
        BY <1>2, <3>2, <3>4
    <3> QED
      BY <3>3, <3>5
  <2> QED
    BY <2>1, <2>2
<1>9. InsertedAt(eps, ep, r, at)
  BY <1>6, <1>8 DEF InsertedAt, n
<1> QED
  BY <1>2, <1>5, <1>7, <1>9 DEF r, n

\* An endpoint whose priority is that of no other one lower goes where it belongs.
LEMMA InsertFalling ==
    ASSUME NEW S, \A x \in S : x.prio \in Int, NEW eps \in Seq(S), NEW ep \in S, Falling(eps),
           \A x \in ToSet(eps) : x.prio <= ep.prio
    PROVE  Falling(insertByPrio(eps, ep))
<1> DEFINE r == insertByPrio(eps, ep)
           n == Len(eps)
<1>1. n \in Nat /\ DOMAIN eps = 1..n /\ \A i \in 1..n : eps[i] \in S /\ eps[i] \in ToSet(eps)
  BY DEF ToSet
<1>2. r \in Seq(S) /\ Len(r) = n + 1
  BY InsertFacts
<1>3. PICK at \in 1..n + 1 :
         /\ r[at] = ep
         /\ \A i \in 1..at - 1 : r[i] = eps[i] /\ ~(ep.prio > eps[i].prio)
         /\ \A i \in at + 1..n + 1 : r[i] = eps[i - 1]
  <2>1. PICK at \in 1..n + 1 : InsertedAt(eps, ep, r, at)
    BY InsertFacts
  <2> QED
    BY <2>1, Zenon DEF InsertedAt
<1>4. \A i, j \in 1..n : i < j => eps[i].prio >= eps[j].prio
  BY <1>1 DEF Falling
<1>5. /\ ep.prio \in Int
      /\ \A i \in 1..n : eps[i].prio \in Int /\ eps[i].prio <= ep.prio
  BY <1>1
<1> HIDE DEF r, n
<1>6. \A i \in 1..n + 1 : r[i].prio = IF i < at THEN eps[i].prio ELSE IF i = at THEN ep.prio ELSE eps[i - 1].prio
  <2> SUFFICES ASSUME NEW i \in 1..n + 1
               PROVE  r[i].prio = IF i < at THEN eps[i].prio ELSE IF i = at THEN ep.prio ELSE eps[i - 1].prio
    OBVIOUS
  <2>1. CASE i < at
    <3>1. i \in 1..at - 1
      BY <1>1, <1>3, <2>1
    <3> QED
      BY <1>3, <2>1, <3>1
  <2>2. CASE i = at
    BY <1>3, <2>2
  <2>3. CASE i > at
    <3>1. i \in at + 1..n + 1 /\ ~(i < at) /\ i # at
      BY <1>1, <1>3, <2>3
    <3> QED
      BY <1>3, <3>1
  <2> QED
    BY <1>1, <1>3, <2>1, <2>2, <2>3
<1>7. ASSUME NEW i \in 1..n + 1, NEW j \in 1..n + 1, i < j PROVE r[i].prio >= r[j].prio
  <2>1. CASE j < at
    <3>1. i \in 1..n /\ j \in 1..n /\ i < at
      BY <1>1, <1>3, <1>7, <2>1
    <3> QED
      BY <1>4, <1>6, <1>7, <2>1, <3>1
  <2>2. CASE j = at
    <3>1. i \in 1..at - 1 /\ i \in 1..n /\ i < at /\ ~(j < at)
      BY <1>1, <1>3, <1>7, <2>2
    <3>2. eps[i].prio >= ep.prio
      BY <1>3, <1>5, <3>1
    <3> QED
      BY <1>6, <2>2, <3>1, <3>2
  <2>3. CASE j > at /\ i <= at
    <3>1. j - 1 \in 1..n /\ ~(j < at) /\ j # at
      BY <1>1, <1>3, <2>3
    <3>2. CASE i = at
      BY <1>5, <1>6, <2>3, <3>1, <3>2
    <3>3. CASE i < at
      <4>1. i \in 1..n /\ i < j - 1
        BY <1>1, <1>3, <2>3, <3>3
      <4> QED
        BY <1>4, <1>6, <3>1, <3>3, <4>1
    <3> QED
      BY <1>1, <1>3, <2>3, <3>2, <3>3
  <2>4. CASE i > at
    <3>1. /\ i - 1 \in 1..n /\ j - 1 \in 1..n /\ i - 1 < j - 1
          /\ ~(i < at) /\ i # at /\ ~(j < at) /\ j # at
      BY <1>1, <1>3, <1>7, <2>4
    <3> QED
      BY <1>4, <1>6, <3>1
  <2> QED
    BY <1>1, <1>3, <1>7, <2>1, <2>2, <2>3, <2>4
<1> QED
  BY <1>2, <1>7 DEF Falling, r

\* The endpoints of a node, which may not exist.
ListAt(tree, n, k) == IF n \in DOMAIN tree THEN tree[n].endpoints[k] ELSE <<>>

\* What a registration does to the tree: one list grows, by the new endpoint.
LEMMA RegisterFacts ==
    ASSUME NEW tree, TreeShape(tree), NEW ep \in Endpoints
    PROVE  LET new == registerEndpoint(tree, ep)
           IN  /\ DOMAIN new = DOMAIN tree \cup Prefixes(nodeOf(ep))
               /\ \A n \in DOMAIN new : new[n].endpoints = [k \in EndpointKeys |->
                     IF n = nodeOf(ep) /\ k = endpointKey(ep)
                     THEN insertByPrio(ListAt(tree, n, k), ep) ELSE ListAt(tree, n, k)]
<1> DEFINE new == registerEndpoint(tree, ep)
           target == nodeOf(ep)
           old(n) == IF n \in DOMAIN tree THEN tree[n] ELSE EmptyNode
           E(n) == IF n = target
                   THEN [old(n).endpoints EXCEPT ![endpointKey(ep)] = insertByPrio(@, ep)]
                   ELSE old(n).endpoints
<1>1. DOMAIN tree \cup nodesTo(target) = DOMAIN tree \cup Prefixes(target)
  BY DEF nodesTo, TreeShape
<1>2. DOMAIN new = DOMAIN tree \cup nodesTo(target) /\ \A n \in DOMAIN new : new[n].endpoints = E(n)
  BY DEF registerEndpoint
<1>3. ASSUME NEW n
      PROVE  /\ old(n).endpoints = [k \in EndpointKeys |-> old(n).endpoints[k]]
             /\ \A k \in EndpointKeys : old(n).endpoints[k] = ListAt(tree, n, k)
  <2>1. CASE n \in DOMAIN tree
    BY <2>1 DEF TreeShape, ListAt
  <2>2. CASE n \notin DOMAIN tree
    BY <2>2 DEF EmptyNode, ListAt
  <2> QED
    BY <2>1, <2>2
<1> HIDE DEF new, target, old
<1>4. ASSUME NEW n \in DOMAIN new
      PROVE  new[n].endpoints = [k \in EndpointKeys |->
                                    IF n = target /\ k = endpointKey(ep)
                                    THEN insertByPrio(ListAt(tree, n, k), ep) ELSE ListAt(tree, n, k)]
  <2> DEFINE e == old(n).endpoints
             key == endpointKey(ep)
  <2>1. e = [k \in EndpointKeys |-> ListAt(tree, n, k)]
    BY <1>3
  <2>2. new[n].endpoints = IF n = target THEN [e EXCEPT ![key] = insertByPrio(e[key], ep)] ELSE e
    BY <1>2
  <2> HIDE DEF e, key
  <2>3. CASE n = target
    BY <2>1, <2>2, <2>3 DEF key
  <2>4. CASE n # target
    BY <2>1, <2>2, <2>4
  <2> QED
    BY <2>3, <2>4
<1> QED
  BY <1>1, <1>2, <1>4 DEF new, target

\* A registration keeps the shape of the tree.
LEMMA RegisterShape ==
    ASSUME NEW tree, TreeShape(tree), NEW ep \in Endpoints
    PROVE  TreeShape(registerEndpoint(tree, ep))
<1> DEFINE new == registerEndpoint(tree, ep)
           target == nodeOf(ep)
           key == endpointKey(ep)
<1>1. target \in Seq(NodeKeys) /\ key \in EndpointKeys /\ Prefixes(target) \subseteq Nodes
  BY EndpointFacts
<1>2. /\ DOMAIN new = DOMAIN tree \cup Prefixes(target)
      /\ \A n \in DOMAIN new : new[n].endpoints = [k \in EndpointKeys |->
            IF n = target /\ k = key THEN insertByPrio(ListAt(tree, n, k), ep) ELSE ListAt(tree, n, k)]
  BY RegisterFacts
<1> HIDE DEF new, target, key
<1>3. <<>> \in DOMAIN new
  BY <1>2 DEF TreeShape
<1>4. ASSUME NEW n \in DOMAIN new PROVE n \in Nodes /\ Prefixes(n) \subseteq DOMAIN new
  <2>1. CASE n \in DOMAIN tree
    BY <1>2, <2>1 DEF TreeShape
  <2>2. CASE n \in Prefixes(target)
    BY <1>1, <1>2, <2>2, PrefixFacts
  <2> QED
    BY <1>2, <2>1, <2>2
<1>5. ASSUME NEW n \in DOMAIN new PROVE new[n].endpoints \in [EndpointKeys -> Seq(Endpoints)]
  <2>1. ASSUME NEW k \in EndpointKeys PROVE ListAt(tree, n, k) \in Seq(Endpoints)
    BY DEF ListAt, TreeShape
  <2>2. \A k \in EndpointKeys : insertByPrio(ListAt(tree, n, k), ep) \in Seq(Endpoints)
    BY <2>1, InsertFacts
  <2> HIDE DEF TreeShape
  <2> QED
    BY <1>2, <2>1, <2>2
<1> QED
  BY <1>3, <1>4, <1>5 DEF TreeShape, new

\* The lists of the tree before and after a registration.
LEMMA RegisterLists ==
    ASSUME NEW tree, TreeShape(tree), NEW ep \in Endpoints
    PROVE  LET new == registerEndpoint(tree, ep)
           IN  /\ nodeOf(ep) \in DOMAIN new /\ endpointKey(ep) \in EndpointKeys
               /\ DOMAIN tree \subseteq DOMAIN new
               /\ \A n \in DOMAIN new, k \in EndpointKeys :
                     /\ ListAt(tree, n, k) \in Seq(Endpoints)
                     /\ IF n = nodeOf(ep) /\ k = endpointKey(ep)
                        THEN /\ Len(new[n].endpoints[k]) = Len(ListAt(tree, n, k)) + 1
                             /\ ToSet(new[n].endpoints[k]) = ToSet(ListAt(tree, n, k)) \cup {ep}
                        ELSE new[n].endpoints[k] = ListAt(tree, n, k)
<1> DEFINE new == registerEndpoint(tree, ep)
           target == nodeOf(ep)
           key == endpointKey(ep)
<1>1. target \in Seq(NodeKeys) /\ key \in EndpointKeys
  BY EndpointFacts
<1>2. /\ DOMAIN new = DOMAIN tree \cup Prefixes(target)
      /\ \A n \in DOMAIN new : new[n].endpoints = [k \in EndpointKeys |->
            IF n = target /\ k = key THEN insertByPrio(ListAt(tree, n, k), ep) ELSE ListAt(tree, n, k)]
  BY RegisterFacts
<1>3. target \in Prefixes(target)
  BY <1>1, PrefixFacts
<1> HIDE DEF new, target, key
<1>4. ASSUME NEW n \in DOMAIN new, NEW k \in EndpointKeys
      PROVE  /\ ListAt(tree, n, k) \in Seq(Endpoints)
             /\ IF n = target /\ k = key
                THEN /\ Len(new[n].endpoints[k]) = Len(ListAt(tree, n, k)) + 1
                     /\ ToSet(new[n].endpoints[k]) = ToSet(ListAt(tree, n, k)) \cup {ep}
                ELSE new[n].endpoints[k] = ListAt(tree, n, k)
  <2>1. ListAt(tree, n, k) \in Seq(Endpoints)
    BY DEF ListAt, TreeShape
  <2>2. new[n].endpoints[k] = IF n = target /\ k = key
                              THEN insertByPrio(ListAt(tree, n, k), ep) ELSE ListAt(tree, n, k)
    BY <1>2
  <2> HIDE DEF TreeShape
  <2>3. /\ Len(insertByPrio(ListAt(tree, n, k), ep)) = Len(ListAt(tree, n, k)) + 1
        /\ ToSet(insertByPrio(ListAt(tree, n, k), ep)) = ToSet(ListAt(tree, n, k)) \cup {ep}
    BY <2>1, InsertFacts
  <2> QED
    BY <2>1, <2>2, <2>3
<1> QED
  BY <1>1, <1>2, <1>3, <1>4 DEF new, target, key

\* A registration puts the endpoint where it belongs.
LEMMA RegisterPlaced ==
    ASSUME NEW tree, TreeShape(tree), Placed(tree), NEW ep \in Endpoints
    PROVE  Placed(registerEndpoint(tree, ep))
<1> DEFINE new == registerEndpoint(tree, ep)
<1> SUFFICES ASSUME NEW n \in DOMAIN new, NEW k \in EndpointKeys, NEW e \in ToSet(new[n].endpoints[k])
             PROVE  nodeOf(e) = n /\ endpointKey(e) = k
  BY DEF Placed
<1>1. IF n = nodeOf(ep) /\ k = endpointKey(ep)
      THEN ToSet(new[n].endpoints[k]) = ToSet(ListAt(tree, n, k)) \cup {ep}
      ELSE new[n].endpoints[k] = ListAt(tree, n, k)
  BY RegisterLists
<1> HIDE DEF new
<1>2. CASE e \in ToSet(ListAt(tree, n, k))
  <2>1. n \in DOMAIN tree
    BY <1>2 DEF ListAt, ToSet
  <2> QED
    BY <1>2, <2>1 DEF ListAt, Placed
<1>3. CASE n = nodeOf(ep) /\ k = endpointKey(ep) /\ e = ep
  BY <1>3
<1> QED
  BY <1>1, <1>2, <1>3

\* The places of a tree, one by one.
LEMMA PlacesFacts ==
    ASSUME NEW t, NEW x
    PROVE  x \in Places(t) <=> \E n \in DOMAIN t, k \in EndpointKeys :
                                   \E i \in DOMAIN t[n].endpoints[k] : x = <<<<n, k>>, i>>
<1> DEFINE P(n, k) == {<<n, k>>} \X DOMAIN t[n].endpoints[k]
<1>1. x \in Places(t) <=> \E n \in DOMAIN t, k \in EndpointKeys : x \in P(n, k)
  <2>1. Places(t) = UNION {P(n, k) : n \in DOMAIN t, k \in EndpointKeys}
    BY DEF Places
  <2> HIDE DEF P
  <2> QED
    BY <2>1
<1>2. ASSUME NEW n, NEW k PROVE x \in P(n, k) <=> \E i \in DOMAIN t[n].endpoints[k] : x = <<<<n, k>>, i>>
  OBVIOUS
<1> HIDE DEF P
<1> QED
  BY <1>1, <1>2

\* A registration adds one endpoint and loses none.
LEMMA RegisterHolding ==
    ASSUME NEW tree, NEW eps, TreeShape(tree), Holding(tree, eps), NEW ep \in Endpoints
    PROVE  Holding(registerEndpoint(tree, ep), Append(eps, ep))
<1> DEFINE new == registerEndpoint(tree, ep)
           target == nodeOf(ep)
           key == endpointKey(ep)
<1>1. /\ target \in DOMAIN new /\ key \in EndpointKeys
      /\ DOMAIN tree \subseteq DOMAIN new
      /\ \A n \in DOMAIN new, k \in EndpointKeys :
            /\ ListAt(tree, n, k) \in Seq(Endpoints)
            /\ IF n = target /\ k = key
               THEN /\ Len(new[n].endpoints[k]) = Len(ListAt(tree, n, k)) + 1
                    /\ ToSet(new[n].endpoints[k]) = ToSet(ListAt(tree, n, k)) \cup {ep}
               ELSE new[n].endpoints[k] = ListAt(tree, n, k)
  BY RegisterLists
<1>2. \A n \in DOMAIN new, k \in EndpointKeys : new[n].endpoints[k] \in Seq(Endpoints)
  <2>1. TreeShape(new)
    BY RegisterShape
  <2> HIDE DEF new
  <2> QED
    BY <2>1 DEF TreeShape
<1> HIDE DEF new, target, key
<1>3. /\ Append(eps, ep) \in Seq(Endpoints) /\ Len(Append(eps, ep)) = Len(eps) + 1
      /\ ToSet(Append(eps, ep)) = ToSet(eps) \cup {ep}
  <2>1. eps \in Seq(Endpoints)
    BY DEF Holding
  <2> QED
    BY <2>1, ToSetFacts
<1>4. EndpointsOf(new) = EndpointsOf(tree) \cup {ep}
  <2>1. ASSUME NEW e \in EndpointsOf(new) PROVE e \in EndpointsOf(tree) \cup {ep}
    <3>1. PICK n \in DOMAIN new, k \in EndpointKeys : e \in ToSet(new[n].endpoints[k])
      BY DEF EndpointsOf
    <3>2. CASE e \in ToSet(ListAt(tree, n, k))
      <4>1. n \in DOMAIN tree
        BY <3>2 DEF ListAt, ToSet
      <4> QED
        BY <3>2, <4>1 DEF ListAt, EndpointsOf
    <3> QED
      BY <1>1, <3>1, <3>2
  <2>2. ASSUME NEW e \in EndpointsOf(tree) PROVE e \in EndpointsOf(new)
    <3>1. PICK n \in DOMAIN tree, k \in EndpointKeys : e \in ToSet(tree[n].endpoints[k])
      BY DEF EndpointsOf
    <3>2. n \in DOMAIN new /\ e \in ToSet(ListAt(tree, n, k))
      BY <1>1, <3>1 DEF ListAt
    <3>3. e \in ToSet(new[n].endpoints[k])
      BY <1>1, <3>2
    <3> QED
      BY <3>2, <3>3 DEF EndpointsOf
  <2>3. ep \in EndpointsOf(new)
    <3>1. ep \in ToSet(new[target].endpoints[key])
      BY <1>1
    <3> QED
      BY <1>1, <3>1 DEF EndpointsOf
  <2> QED
    BY <2>1, <2>2, <2>3
<1> DEFINE last == <<<<target, key>>, Len(ListAt(tree, target, key)) + 1>>
<1>5. /\ \A n \in DOMAIN new, k \in EndpointKeys :
            DOMAIN new[n].endpoints[k] = 1..Len(new[n].endpoints[k])
      /\ \A n \in DOMAIN new, k \in EndpointKeys :
            /\ DOMAIN ListAt(tree, n, k) = 1..Len(ListAt(tree, n, k))
            /\ Len(ListAt(tree, n, k)) \in Nat
  BY <1>1, <1>2
<1>6. /\ DOMAIN new[target].endpoints[key] = DOMAIN ListAt(tree, target, key) \cup {last[2]}
      /\ last[2] \notin DOMAIN ListAt(tree, target, key)
  BY <1>1, <1>5
<1>7. \A n \in DOMAIN new, k \in EndpointKeys :
         n # target \/ k # key => DOMAIN new[n].endpoints[k] = DOMAIN ListAt(tree, n, k)
  BY <1>1
<1> HIDE DEF last
<1>8. last = <<<<target, key>>, last[2]>>
  BY DEF last
<1>9. ASSUME NEW x PROVE x \in Places(tree) <=> \E n \in DOMAIN new, k \in EndpointKeys :
                                                    \E i \in DOMAIN ListAt(tree, n, k) : x = <<<<n, k>>, i>>
  <2>1. \A n : n \notin DOMAIN tree => \A k : DOMAIN ListAt(tree, n, k) = {}
    BY DEF ListAt
  <2>2. \A n \in DOMAIN tree : n \in DOMAIN new /\ \A k : ListAt(tree, n, k) = tree[n].endpoints[k]
    BY <1>1 DEF ListAt
  <2> QED
    BY <2>1, <2>2, PlacesFacts
<1>10. ASSUME NEW x PROVE x \in Places(new) <=> \E n \in DOMAIN new, k \in EndpointKeys :
                                                    \E i \in DOMAIN new[n].endpoints[k] : x = <<<<n, k>>, i>>
  BY PlacesFacts
<1>11. Places(new) = Places(tree) \cup {last}
  <2>1. ASSUME NEW x \in Places(new) PROVE x \in Places(tree) \cup {last}
    <3>1. PICK n \in DOMAIN new, k \in EndpointKeys : \E i \in DOMAIN new[n].endpoints[k] : x = <<<<n, k>>, i>>
      BY <1>10
    <3>2. PICK i \in DOMAIN new[n].endpoints[k] : x = <<<<n, k>>, i>>
      BY <3>1
    <3>3. CASE i \in DOMAIN ListAt(tree, n, k)
      BY <1>9, <3>2, <3>3
    <3>4. CASE i \notin DOMAIN ListAt(tree, n, k)
      <4>1. n = target /\ k = key /\ i = last[2]
        BY <1>6, <1>7, <3>2, <3>4
      <4> QED
        BY <1>8, <3>2, <4>1
    <3> QED
      BY <3>3, <3>4
  <2>2. ASSUME NEW x \in Places(tree) PROVE x \in Places(new)
    <3>1. PICK n \in DOMAIN new, k \in EndpointKeys : \E i \in DOMAIN ListAt(tree, n, k) : x = <<<<n, k>>, i>>
      BY <1>9
    <3>2. PICK i \in DOMAIN ListAt(tree, n, k) : x = <<<<n, k>>, i>>
      BY <3>1
    <3>3. i \in DOMAIN new[n].endpoints[k]
      BY <1>6, <1>7, <3>2
    <3> QED
      BY <1>10, <3>2, <3>3
  <2>3. last \in Places(new)
    BY <1>1, <1>6, <1>8, <1>10
  <2> QED
    BY <2>1, <2>2, <2>3
<1>12. last \notin Places(tree)
  <2> SUFFICES ASSUME NEW n \in DOMAIN new, NEW k \in EndpointKeys, NEW i \in DOMAIN ListAt(tree, n, k),
                      last = <<<<n, k>>, i>>
               PROVE  FALSE
    BY <1>9
  <2>1. n = target /\ k = key /\ i = last[2]
    BY <1>8
  <2> QED
    BY <1>6, <2>1
<1>13. IsFiniteSet(Places(new)) /\ Cardinality(Places(new)) = Cardinality(Places(tree)) + 1
  BY <1>11, <1>12, FS_AddElement DEF Holding
<1> QED
  BY <1>3, <1>4, <1>13 DEF Holding, new

-----------------------------------------------------------------------------
(* The loads. *)

\* The fields of the locals of LoadFiles.
LocalNames == {"busy", "tmpSearchNode", "endPointCounter", "registered"}

\* The tree of every load has what the load registered, and so has the installed one.
LoaderInv ==
    /\ load = [l \in Loaders |-> load[l]]
    /\ \A l \in Loaders : /\ load[l] = [f \in LocalNames |-> load[l][f]]
                          /\ load[l].busy \in BOOLEAN
                          /\ load[l].endPointCounter \in 0..MaxEndpoints
                          /\ TreeOK(load[l].tmpSearchNode, load[l].registered)
    /\ TreeOK(EpSearchNode, installed)
    /\ loads \in 0..MaxLoads

\* The empty tree.
LEMMA EmptyTreeOK == TreeOK(EmptyTree, <<>>)
<1>1. DOMAIN EmptyTree = {<<>>} /\ EmptyTree[<<>>].endpoints = [k \in EndpointKeys |-> <<>>]
  BY DEF EmptyTree, EmptyNode
<1>2. <<>> \in Nodes /\ Prefixes(<<>>) \subseteq {<<>>} /\ <<>> \in Seq(Endpoints)
  BY DEF Prefixes, Nodes
<1>3. ToSet(<<>>) = {}
  BY DEF ToSet
<1>4. TreeShape(EmptyTree)
  BY <1>1, <1>2 DEF TreeShape
<1>5. Placed(EmptyTree)
  BY <1>1, <1>3 DEF Placed
<1>6. EndpointsOf(EmptyTree) = {}
  BY <1>1, <1>3 DEF EndpointsOf
<1>7. Places(EmptyTree) = {}
  BY <1>1, PlacesFacts
<1>8. Holding(EmptyTree, <<>>)
  BY <1>2, <1>3, <1>6, <1>7, FS_EmptySet DEF Holding
<1>9. Grown(EmptyTree, <<>>)
  BY <1>1 DEF Grown
<1>10. Sorted(EmptyTree, <<>>)
  BY <1>1 DEF Sorted, AllFalling, Falling
<1> QED
  BY <1>4, <1>5, <1>8, <1>9, <1>10 DEF TreeOK

\* A registration adds no other nodes.
LEMMA RegisterGrown ==
    ASSUME NEW tree, NEW eps, TreeShape(tree), Holding(tree, eps), Grown(tree, eps), NEW ep \in Endpoints
    PROVE  Grown(registerEndpoint(tree, ep), Append(eps, ep))
<1> DEFINE new == registerEndpoint(tree, ep)
           way == Prefixes(nodeOf(ep)) \ {<<>>}
<1>1. DOMAIN new = DOMAIN tree \cup Prefixes(nodeOf(ep))
  BY RegisterFacts
<1>2. ToSet(Append(eps, ep)) = ToSet(eps) \cup {ep}
  BY ToSetFacts DEF Holding
<1>3. /\ \A n \in way : new[n].pathParamName = pathParamName(ep.path[Len(n)])
      /\ \A n \in DOMAIN tree : n \notin way => new[n].pathParamName = tree[n].pathParamName
  BY DEF registerEndpoint, nodesTo
<1> HIDE DEF new
<1>4. ASSUME NEW n \in DOMAIN new, n # <<>>
      PROVE  \E x \in ToSet(Append(eps, ep)) : /\ n \in Prefixes(nodeOf(x))
                                              /\ new[n].pathParamName = pathParamName(x.path[Len(n)])
  <2>1. CASE n \in way
    BY <1>2, <1>3, <2>1
  <2>2. CASE n \notin way
    <3>1. n \in DOMAIN tree /\ new[n].pathParamName = tree[n].pathParamName
      BY <1>1, <1>3, <1>4, <2>2
    <3> QED
      BY <1>2, <1>4, <3>1 DEF Grown
  <2> QED
    BY <2>1, <2>2
<1> QED
  BY <1>4 DEF Grown, new

\* Priorities are integers.
LEMMA EndpointPrio == \A ep \in Endpoints : ep.prio \in Int
<1> SUFFICES ASSUME NEW def \in Definitions, NEW i \in 1..MaxEndpoints PROVE withID(def, i).prio \in Int
  BY DEF Endpoints
<1>1. def.prio \in Int /\ DOMAIN def = {"id", "prio", "method", "host", "path", "query", "headers", "body"}
  BY DefinitionsAssumption
<1> QED
  BY <1>1 DEF withID

\* A registration of a priority that is not below the earlier ones keeps them sorted.
LEMMA RegisterSorted ==
    ASSUME NEW tree, NEW eps, TreeShape(tree), Placed(tree), Holding(tree, eps), Sorted(tree, eps),
           NEW ep \in Endpoints
    PROVE  Sorted(registerEndpoint(tree, ep), Append(eps, ep))
<1> DEFINE new == registerEndpoint(tree, ep)
           s == Append(eps, ep)
           m == Len(eps)
<1> SUFFICES ASSUME RisingPrio(s) PROVE AllFalling(new)
  BY DEF Sorted
<1>1. eps \in Seq(Endpoints) /\ m \in Nat /\ DOMAIN eps = 1..m
  BY DEF Holding
<1>2. /\ s \in Seq(Endpoints) /\ DOMAIN s = 1..m + 1
      /\ s[m + 1] = ep /\ \A i \in 1..m : s[i] = eps[i]
  BY <1>1
<1>3. RisingPrio(eps)
  <2> HIDE DEF s, m
  <2>1. 1..m \subseteq 1..m + 1
    BY <1>1
  <2> QED
    BY <1>1, <1>2, <2>1 DEF RisingPrio
<1>4. AllFalling(tree)
  BY <1>3 DEF Sorted
<1>5. \A x \in ToSet(eps) : nodeOf(x) = nodeOf(ep) /\ endpointKey(x) = endpointKey(ep) => x.prio <= ep.prio
  <2> SUFFICES ASSUME NEW x \in ToSet(eps), nodeOf(x) = nodeOf(ep), endpointKey(x) = endpointKey(ep)
               PROVE  x.prio <= ep.prio
    OBVIOUS
  <2>1. PICK i \in 1..m : x = eps[i]
    BY <1>1 DEF ToSet
  <2> HIDE DEF s, m
  <2>2. i \in 1..m + 1 /\ m + 1 \in 1..m + 1 /\ i < m + 1 /\ s[i] = x
    BY <1>1, <1>2, <2>1
  <2> QED
    BY <1>2, <2>2 DEF RisingPrio
<1>6. /\ DOMAIN new = DOMAIN tree \cup Prefixes(nodeOf(ep))
      /\ \A n \in DOMAIN new : new[n].endpoints = [k \in EndpointKeys |->
            IF n = nodeOf(ep) /\ k = endpointKey(ep)
            THEN insertByPrio(ListAt(tree, n, k), ep) ELSE ListAt(tree, n, k)]
  BY RegisterFacts
<1> HIDE DEF new
<1>7. ASSUME NEW n \in DOMAIN new, NEW k \in EndpointKeys
      PROVE  Falling(new[n].endpoints[k])
  <2> DEFINE old == ListAt(tree, n, k)
  <2>1. old \in Seq(Endpoints)
    BY DEF ListAt, TreeShape
  <2>2. Falling(old)
    BY <1>4 DEF ListAt, AllFalling, Falling
  <2>3. ASSUME NEW x \in ToSet(old) PROVE nodeOf(x) = n /\ endpointKey(x) = k /\ x \in ToSet(eps)
    <3>1. n \in DOMAIN tree /\ x \in ToSet(tree[n].endpoints[k])
      BY <2>3 DEF ListAt, ToSet
    <3>2. x \in EndpointsOf(tree)
      BY <3>1 DEF EndpointsOf
    <3> QED
      BY <3>1, <3>2 DEF Placed, Holding
  <2>4. new[n].endpoints[k] = IF n = nodeOf(ep) /\ k = endpointKey(ep) THEN insertByPrio(old, ep) ELSE old
    BY <1>6
  <2> HIDE DEF old
  <2>5. CASE n = nodeOf(ep) /\ k = endpointKey(ep)
    <3>1. \A x \in ToSet(old) : x.prio <= ep.prio
      BY <1>5, <2>3, <2>5
    <3>2. Falling(insertByPrio(old, ep))
      BY <2>1, <2>2, <3>1, EndpointPrio, InsertFalling
    <3> QED
      BY <2>4, <2>5, <3>2
  <2>6. CASE ~(n = nodeOf(ep) /\ k = endpointKey(ep))
    BY <2>2, <2>4, <2>6
  <2> QED
    BY <2>5, <2>6
<1> QED
  BY <1>7 DEF AllFalling

\* A registration keeps all that is known of a tree.
LEMMA RegisterKeeps ==
    ASSUME NEW tree, NEW eps, TreeOK(tree, eps), NEW ep \in Endpoints
    PROVE  TreeOK(registerEndpoint(tree, ep), Append(eps, ep))
  BY RegisterShape, RegisterPlaced, RegisterHolding, RegisterGrown, RegisterSorted DEF TreeOK

\* The locals of a load that has not begun.
LEMMA IdleFacts ==
    /\ IdleLoad = [f \in LocalNames |-> IdleLoad[f]]
    /\ IdleLoad.busy \in BOOLEAN /\ IdleLoad.endPointCounter \in 0..MaxEndpoints
    /\ TreeOK(IdleLoad.tmpSearchNode, IdleLoad.registered)
<1>1. 0 \in 0..MaxEndpoints
  BY BoundsAssumption
<1>2. IdleLoad.busy \in BOOLEAN
  BY DEF IdleLoad
<1>3. IdleLoad.tmpSearchNode = EmptyTree /\ IdleLoad.registered = <<>> /\ IdleLoad.endPointCounter = 0
  BY DEF IdleLoad
<1>4. IdleLoad = [f \in LocalNames |-> IdleLoad[f]]
  BY DEF IdleLoad, LocalNames
<1> QED
  BY <1>1, <1>2, <1>3, <1>4, EmptyTreeOK

\* Nothing is loaded initially.
LEMMA LoaderInvInit == LoaderInit => LoaderInv
<1> SUFFICES ASSUME LoaderInit PROVE LoaderInv
  OBVIOUS
<1>1. loads \in 0..MaxLoads
  BY BoundsAssumption DEF LoaderInit
<1>2. load = [l \in Loaders |-> load[l]] /\ \A l \in Loaders : load[l] = IdleLoad
  BY DEF LoaderInit
<1>3. TreeOK(EpSearchNode, installed)
  BY EmptyTreeOK DEF LoaderInit
<1> QED
  BY <1>1, <1>2, <1>3, IdleFacts DEF LoaderInv

\* A step that changes the locals of one load.
LEMMA OneLoad ==
    ASSUME LoaderInv, NEW l \in Loaders, NEW v, load' = [load EXCEPT ![l] = v],
           v = [f \in LocalNames |-> v[f]], v.busy \in BOOLEAN, v.endPointCounter \in 0..MaxEndpoints,
           TreeOK(v.tmpSearchNode, v.registered), TreeOK(EpSearchNode', installed'), loads' \in 0..MaxLoads
    PROVE  LoaderInv'
<1> HIDE DEF TreeOK
<1>1. load' = [x \in Loaders |-> load'[x]] /\ \A x \in Loaders : load'[x] = IF x = l THEN v ELSE load[x]
  BY DEF LoaderInv
<1> QED
  BY <1>1 DEF LoaderInv

\* Every step of a load preserves the invariant.
LEMMA LoaderInvStep == LoaderInv /\ [LoaderNext]_loaderVars => LoaderInv'
<1> SUFFICES ASSUME LoaderInv, [LoaderNext]_loaderVars PROVE LoaderInv'
  OBVIOUS
<1>1. MaxEndpoints \in Nat /\ MaxLoads \in Nat
  BY BoundsAssumption
<1>2. CASE UNCHANGED loaderVars
  BY <1>2 DEF loaderVars, LoaderInv
<1>3. TreeOK(EpSearchNode, installed) /\ loads \in 0..MaxLoads
  BY DEF LoaderInv
<1>4. ASSUME NEW l \in Loaders, StartLoad(l) PROVE LoaderInv'
  <2> DEFINE v == [IdleLoad EXCEPT !.busy = TRUE]
  <2>1. /\ load' = [load EXCEPT ![l] = v] /\ loads' \in 0..MaxLoads
        /\ UNCHANGED <<EpSearchNode, installed>>
    BY <1>1, <1>3, <1>4 DEF StartLoad
  <2>2. v = [f \in LocalNames |-> v[f]] /\ v.endPointCounter = IdleLoad.endPointCounter
        /\ v.tmpSearchNode = IdleLoad.tmpSearchNode /\ v.registered = IdleLoad.registered
    BY IdleFacts DEF LocalNames
  <2>3. v.busy \in BOOLEAN
    BY IdleFacts DEF LocalNames
  <2> HIDE DEF v
  <2> QED
    BY <1>3, <2>1, <2>2, <2>3, IdleFacts, OneLoad
<1>5. ASSUME NEW l \in Loaders, LoadEndpoint(l) PROVE LoaderInv'
  <2> DEFINE r == load[l]
             n == r.endPointCounter + 1
  <2>1. PICK def \in Definitions :
           load' = [load EXCEPT ![l].endPointCounter = n,
                                ![l].tmpSearchNode = registerEndpoint(@, withID(def, n)),
                                ![l].registered = Append(@, withID(def, n))]
    BY <1>5 DEF LoadEndpoint
  <2> DEFINE ep == withID(def, n)
             v == [r EXCEPT !.endPointCounter = n, !.tmpSearchNode = registerEndpoint(@, ep),
                            !.registered = Append(@, ep)]
  <2>2. /\ r = [f \in LocalNames |-> r[f]] /\ r.busy \in BOOLEAN /\ r.endPointCounter \in 0..MaxEndpoints
        /\ TreeOK(r.tmpSearchNode, r.registered)
        /\ n <= MaxEndpoints /\ UNCHANGED <<EpSearchNode, installed, loads>>
    BY <1>5 DEF LoaderInv, LoadEndpoint
  <2>3. load' = [load EXCEPT ![l] = v]
    BY <2>1, <2>2 DEF LoaderInv, LocalNames
  <2>4. n \in 1..MaxEndpoints /\ n \in 0..MaxEndpoints
    BY <1>1, <2>2
  <2>5. ep \in Endpoints
    BY <2>4 DEF Endpoints
  <2> HIDE DEF r, n, ep
  <2>6. TreeOK(registerEndpoint(r.tmpSearchNode, ep), Append(r.registered, ep))
    BY <2>2, <2>5, RegisterKeeps
  <2>7. /\ v = [f \in LocalNames |-> v[f]] /\ v.busy = r.busy /\ v.endPointCounter = n
        /\ v.tmpSearchNode = registerEndpoint(r.tmpSearchNode, ep) /\ v.registered = Append(r.registered, ep)
    BY <2>2 DEF LocalNames
  <2> HIDE DEF v
  <2> QED
    BY <1>3, <2>2, <2>3, <2>4, <2>6, <2>7, OneLoad
<1>6. ASSUME NEW l \in Loaders, SkipEndpoint(l) PROVE LoaderInv'
  <2> DEFINE r == load[l]
             v == [r EXCEPT !.endPointCounter = r.endPointCounter + 1]
  <2>1. /\ r = [f \in LocalNames |-> r[f]] /\ r.busy \in BOOLEAN /\ r.endPointCounter \in 0..MaxEndpoints
        /\ TreeOK(r.tmpSearchNode, r.registered)
        /\ r.endPointCounter < MaxEndpoints /\ UNCHANGED <<EpSearchNode, installed, loads>>
    BY <1>6 DEF LoaderInv, SkipEndpoint
  <2>2. load' = [load EXCEPT ![l] = v]
    BY <1>6, <2>1 DEF SkipEndpoint, LoaderInv, LocalNames
  <2> HIDE DEF r
  <2>3. /\ v = [f \in LocalNames |-> v[f]] /\ v.busy = r.busy /\ v.endPointCounter = r.endPointCounter + 1
        /\ v.tmpSearchNode = r.tmpSearchNode /\ v.registered = r.registered
    BY <2>1 DEF LocalNames
  <2>4. v.endPointCounter \in 0..MaxEndpoints
    BY <1>1, <2>1, <2>3
  <2> HIDE DEF v
  <2> QED
    BY <1>3, <2>1, <2>2, <2>3, <2>4, OneLoad
<1>7. ASSUME NEW l \in Loaders, WalkFails(l) \/ ReadFails(l) PROVE LoaderInv'
  <2>1. load' = [load EXCEPT ![l] = IdleLoad] /\ UNCHANGED <<EpSearchNode, installed, loads>>
    BY <1>7 DEF WalkFails, ReadFails
  <2> QED
    BY <1>3, <2>1, IdleFacts, OneLoad
<1>8. ASSUME NEW l \in Loaders, InstallTree(l) PROVE LoaderInv'
  <2>1. /\ load' = [load EXCEPT ![l] = IdleLoad] /\ UNCHANGED loads
        /\ EpSearchNode' = load[l].tmpSearchNode /\ installed' = load[l].registered
    BY <1>8 DEF InstallTree
  <2>2. TreeOK(EpSearchNode', installed')
    BY <2>1 DEF LoaderInv
  <2> QED
    BY <1>3, <2>1, <2>2, IdleFacts, OneLoad
<1> QED
  BY <1>2, <1>4, <1>5, <1>6, <1>7, <1>8 DEF LoaderNext

\* The invariant holds in every reachable state.
LEMMA LoaderInvariant == LoaderSpec => []LoaderInv
  BY LoaderInvInit, LoaderInvStep, PTL DEF LoaderSpec

\* The invariant implies type correctness.
LEMMA LoaderTypes == LoaderInv => LoaderTypeOK
<1> SUFFICES ASSUME LoaderInv PROVE LoaderTypeOK
  OBVIOUS
<1>1. \A tree \in Trees : TreeShape(tree) /\ Placed(tree)
  BY DEF LoaderInv, Trees, TreeOK
<1>2. \A tree \in Trees : /\ \A n \in DOMAIN tree : Prefixes(n) \subseteq DOMAIN tree
                          /\ \A n \in DOMAIN tree, k \in EndpointKeys :
                                \A ep \in ToSet(tree[n].endpoints[k]) : nodeOf(ep) = n /\ endpointKey(ep) = k
  BY <1>1 DEF TreeShape, Placed
<1> QED
  BY <1>2 DEF LoaderInv, LoaderTypeOK

-----------------------------------------------------------------------------
(* The ids. *)

\* The ids written in the mock files are distinct, and none is a number that the
\* loader gives to an endpoint without one.
WrittenIDs ==
    \A def \in Definitions : def.id # "" =>
        /\ \A other \in Definitions : other.id = def.id => other = def
        /\ \A i \in 1..MaxEndpoints : def.id # ToString(i)

\* The endpoints of a load were numbered by its counter.
Numbered(eps, counter) ==
    \A i \in 1..Len(eps) : \E def \in Definitions, c \in 1..counter : eps[i] = withID(def, c)

\* Ids tell them apart.
Apart(eps) == \A i, j \in 1..Len(eps) : eps[i].id = eps[j].id => eps[i] = eps[j]

\* The endpoints of every load have numbers of that load, and differ in their ids.
IDsInv ==
    /\ LoaderInv
    /\ \A l \in Loaders : Numbered(load[l].registered, load[l].endPointCounter) /\ Apart(load[l].registered)
    /\ Apart(installed)

\* What becomes of the id of a definition.
LEMMA IDFacts ==
    ASSUME NEW def \in Definitions, NEW c
    PROVE  /\ def.id = "" => withID(def, c).id = ToString(c)
           /\ def.id # "" => withID(def, c).id = def.id
           /\ def.id # "" => \A d : withID(def, d) = withID(def, c)
<1>1. "id" \in DOMAIN def
  BY DefinitionsAssumption
<1> QED
  BY <1>1 DEF withID

\* Numbers that only grow, and distinct written ids, tell endpoints apart.
LEMMA SameIDSameEndpoint ==
    ASSUME WrittenIDs, NEW def \in Definitions, NEW other \in Definitions,
           NEW n \in 1..MaxEndpoints, NEW c \in 1..MaxEndpoints, c # n,
           withID(def, n).id = withID(other, c).id
    PROVE  withID(def, n) = withID(other, c)
<1> DEFINE x == withID(def, n)
           y == withID(other, c)
<1>1. /\ def.id = "" => x.id = ToString(n)
      /\ def.id # "" => x.id = def.id
      /\ other.id = "" => y.id = ToString(c)
      /\ other.id # "" => y.id = other.id
  BY IDFacts
<1>2. x.id = y.id
  OBVIOUS
<1>3. \A d \in Definitions : d.id # "" => withID(d, n) = withID(d, c)
  BY IDFacts
<1>4. ToString(n) # ToString(c)
  BY ItoaAssumption
<1> HIDE DEF x, y
<1>5. def.id # "" /\ other.id # ""
  <2>1. \A d \in Definitions : d.id # "" => d.id # ToString(n) /\ d.id # ToString(c)
    BY DEF WrittenIDs
  <2> QED
    BY <1>1, <1>2, <1>4, <2>1
<1>6. other = def
  BY <1>1, <1>2, <1>5 DEF WrittenIDs
<1> QED
  BY <1>3, <1>5, <1>6

\* The next endpoint of a load does not take the id of another one.
LEMMA NextIDFacts ==
    ASSUME WrittenIDs, NEW eps, NEW S, eps \in Seq(S), NEW m \in Nat, m + 1 <= MaxEndpoints,
           NEW def \in Definitions, withID(def, m + 1) \in S, Numbered(eps, m), Apart(eps)
    PROVE  Numbered(Append(eps, withID(def, m + 1)), m + 1) /\ Apart(Append(eps, withID(def, m + 1)))
<1> DEFINE ep == withID(def, m + 1)
           new == Append(eps, ep)
           n == Len(eps)
<1>1. /\ n \in Nat /\ Len(new) = n + 1
      /\ \A i \in 1..n : new[i] = eps[i]
      /\ new[n + 1] = ep
  BY ToSetFacts
<1>2. MaxEndpoints \in Nat /\ m + 1 \in 1..MaxEndpoints /\ 1..m \subseteq 1..m + 1 /\ 1..m \subseteq 1..MaxEndpoints
  BY BoundsAssumption
<1>3. \A i \in 1..n + 1 : i \in 1..n \/ i = n + 1
  BY <1>1
<1> HIDE DEF new, n
<1>4. ASSUME NEW i \in 1..n + 1 PROVE \E d \in Definitions, c \in 1..m + 1 : new[i] = withID(d, c)
  <2>1. CASE i \in 1..n
    BY <1>1, <1>2, <2>1 DEF Numbered, n
  <2>2. CASE i = n + 1
    BY <1>1, <1>2, <2>2
  <2> QED
    BY <1>3, <2>1, <2>2
<1>5. ASSUME NEW i \in 1..n, ep.id = eps[i].id PROVE ep = eps[i]
  <2>1. PICK d \in Definitions, c \in 1..m : eps[i] = withID(d, c)
    BY DEF Numbered, n
  <2>2. c \in 1..MaxEndpoints /\ c # m + 1
    BY <1>2
  <2> QED
    BY <1>2, <1>5, <2>1, <2>2, SameIDSameEndpoint
<1>6. ASSUME NEW i \in 1..n + 1, NEW j \in 1..n + 1, new[i].id = new[j].id PROVE new[i] = new[j]
  <2> HIDE DEF ep
  <2>1. CASE i \in 1..n /\ j \in 1..n
    BY <1>1, <1>6, <2>1 DEF Apart, n
  <2>2. CASE i = n + 1 /\ j \in 1..n
    BY <1>1, <1>5, <1>6, <2>2
  <2>3. CASE i \in 1..n /\ j = n + 1
    BY <1>1, <1>5, <1>6, <2>3
  <2>4. CASE i = n + 1 /\ j = n + 1
    BY <2>4
  <2> QED
    BY <1>3, <2>1, <2>2, <2>3, <2>4
<1>7. Numbered(new, m + 1)
  BY <1>1, <1>4 DEF Numbered
<1>8. Apart(new)
  BY <1>1, <1>6 DEF Apart
<1> QED
  BY <1>7, <1>8 DEF new

\* Nothing is numbered initially.
LEMMA IDsInit == LoaderInit => IDsInv
<1> SUFFICES ASSUME LoaderInit PROVE IDsInv
  OBVIOUS
<1>1. LoaderInv
  BY LoaderInvInit
<1>2. \A l \in Loaders : load[l].registered = <<>>
  BY DEF LoaderInit, IdleLoad
<1>3. Apart(<<>>) /\ \A c : Numbered(<<>>, c)
  BY DEF Apart, Numbered
<1> QED
  BY <1>1, <1>2, <1>3 DEF IDsInv, LoaderInit

\* Every step keeps the ids apart.
LEMMA IDsStep == ASSUME WrittenIDs PROVE IDsInv /\ [LoaderNext]_loaderVars => IDsInv'
<1> SUFFICES ASSUME IDsInv, [LoaderNext]_loaderVars PROVE IDsInv'
  OBVIOUS
<1>1. LoaderInv'
  BY LoaderInvStep DEF IDsInv
<1>2. load = [l \in Loaders |-> load[l]] /\ \A l \in Loaders : load[l] = [f \in LocalNames |-> load[l][f]]
  BY DEF IDsInv, LoaderInv
<1>3. Numbered(IdleLoad.registered, IdleLoad.endPointCounter) /\ Apart(IdleLoad.registered)
  BY DEF IdleLoad, Numbered, Apart
<1>4. ASSUME NEW l \in Loaders, NEW v, load' = [load EXCEPT ![l] = v],
             Numbered(v.registered, v.endPointCounter), Apart(v.registered), Apart(installed')
      PROVE  IDsInv'
  <2>1. \A x \in Loaders : load'[x] = IF x = l THEN v ELSE load[x]
    BY <1>2, <1>4
  <2> QED
    BY <1>1, <1>4, <2>1 DEF IDsInv
<1>5. Apart(installed) /\ \A l \in Loaders : Apart(load[l].registered)
  BY DEF IDsInv
<1>6. CASE UNCHANGED loaderVars
  BY <1>1, <1>6 DEF loaderVars, IDsInv
<1>7. ASSUME NEW l \in Loaders, StartLoad(l) PROVE IDsInv'
  <2> DEFINE v == [IdleLoad EXCEPT !.busy = TRUE]
  <2>1. load' = [load EXCEPT ![l] = v] /\ installed' = installed
    BY <1>7 DEF StartLoad
  <2>2. v.registered = IdleLoad.registered /\ v.endPointCounter = IdleLoad.endPointCounter
    BY DEF IdleLoad
  <2> HIDE DEF v
  <2> QED
    BY <1>3, <1>4, <1>5, <2>1, <2>2
<1>8. ASSUME NEW l \in Loaders, LoadEndpoint(l) PROVE IDsInv'
  <2> DEFINE r == load[l]
             m == r.endPointCounter
  <2>1. PICK def \in Definitions :
           load' = [load EXCEPT ![l].endPointCounter = m + 1,
                                ![l].tmpSearchNode = registerEndpoint(@, withID(def, m + 1)),
                                ![l].registered = Append(@, withID(def, m + 1))]
    BY <1>8 DEF LoadEndpoint
  <2> DEFINE ep == withID(def, m + 1)
             v == [r EXCEPT !.endPointCounter = m + 1, !.tmpSearchNode = registerEndpoint(@, ep),
                            !.registered = Append(@, ep)]
  <2>2. load' = [load EXCEPT ![l] = v] /\ installed' = installed /\ m + 1 <= MaxEndpoints
    BY <1>2, <1>8, <2>1 DEF LoadEndpoint, LocalNames
  <2>3. /\ m \in Nat /\ r.registered \in Seq(Endpoints)
        /\ Numbered(r.registered, m) /\ Apart(r.registered)
    BY BoundsAssumption DEF IDsInv, LoaderInv, TreeOK, Holding
  <2>4. m + 1 \in 1..MaxEndpoints
    BY <2>2, <2>3, BoundsAssumption
  <2> ep \in Endpoints
    BY <2>4 DEF Endpoints
  <2>5. v.endPointCounter = m + 1 /\ v.registered = Append(r.registered, ep)
    BY <1>2 DEF LocalNames
  <2> HIDE DEF r, m, v
  <2>6. Numbered(Append(r.registered, ep), m + 1) /\ Apart(Append(r.registered, ep))
    BY <2>2, <2>3, NextIDFacts
  <2> QED
    BY <1>4, <1>5, <2>2, <2>5, <2>6
<1>9. ASSUME NEW l \in Loaders, SkipEndpoint(l) PROVE IDsInv'
  <2> DEFINE r == load[l]
             v == [r EXCEPT !.endPointCounter = r.endPointCounter + 1]
  <2>1. load' = [load EXCEPT ![l] = v] /\ installed' = installed
    BY <1>2, <1>9 DEF SkipEndpoint, LocalNames
  <2>2. v.endPointCounter = r.endPointCounter + 1 /\ v.registered = r.registered
    BY <1>2 DEF LocalNames
  <2>3. r.endPointCounter \in Nat /\ Numbered(r.registered, r.endPointCounter) /\ Apart(r.registered)
    BY BoundsAssumption DEF IDsInv, LoaderInv
  <2> HIDE DEF r, v
  <2>4. 1..r.endPointCounter \subseteq 1..r.endPointCounter + 1
    BY <2>3
  <2>5. Numbered(r.registered, r.endPointCounter + 1)
    BY <2>3, <2>4 DEF Numbered
  <2> QED
    BY <1>4, <1>5, <2>1, <2>2, <2>3, <2>5
<1>10. ASSUME NEW l \in Loaders, WalkFails(l) \/ ReadFails(l) \/ InstallTree(l) PROVE IDsInv'
  <2>1. load' = [load EXCEPT ![l] = IdleLoad] /\ Apart(installed')
    BY <1>5, <1>10 DEF WalkFails, ReadFails, InstallTree
  <2> QED
    BY <1>3, <1>4, <2>1
<1> QED
  BY <1>6, <1>7, <1>8, <1>9, <1>10 DEF LoaderNext

-----------------------------------------------------------------------------
(* The theorems of the loader. *)

\* For any definitions and any number of concurrent loads, every tree is closed under
\* prefixes and registerEndpoint has put every endpoint at the node and the key that
\* matchRequestToEndpoint looks it up at.
THEOREM TreesAreSound == LoaderSpec => []LoaderTypeOK
  BY LoaderInvariant, LoaderTypes, PTL

\* For any definitions, requests see the endpoints of one load that succeeded: all of
\* them, none twice, and nothing of a load that failed or has not yet ended.
THEOREM InstalledTreeIsWhole == LoaderSpec => []InstalledWhole
<1>1. LoaderInv => InstalledWhole
  BY DEF LoaderInv, TreeOK, Holding, InstalledWhole
<1> QED
  BY <1>1, LoaderInvariant, PTL

\* If the ids in the mock files are distinct and no numbers, those under which matches
\* are recorded tell all endpoints of a load apart.
THEOREM IDsTellApart == ASSUME WrittenIDs PROVE LoaderSpec => []IDsUnique
<1>1. IDsInv => IDsUnique
  <2> SUFFICES ASSUME IDsInv PROVE IDsUnique
    OBVIOUS
  <2>1. installed \in Seq(Endpoints)
    BY DEF IDsInv, LoaderInv, TreeOK, Holding
  <2>2. DOMAIN installed = 1..Len(installed)
    BY <2>1
  <2> QED
    BY <2>2 DEF IDsInv, Apart, IDsUnique
<1>2. IDsInv /\ [LoaderNext]_loaderVars => IDsInv'
  BY IDsStep
<1> QED
  BY <1>1, <1>2, IDsInit, PTL DEF LoaderSpec

-----------------------------------------------------------------------------
(* The walk of a request through a tree. *)

\* One iteration of the loop, none after its end.
Iteration(tree, path, st) ==
    IF st.end # "" \/ getPathSegment(path, st.pos - 1) = "" THEN st ELSE walkStep(tree, path, st)

\* The recursion of walk has a solution.
LEMMA WalkRecursion ==
    ASSUME NEW tree, NEW path, Len(path) \in Nat
    PROVE  \E after : /\ after[0] = walkStart
                      /\ \A i \in 1..Len(path) : after[i] = Iteration(tree, path, after[i - 1])
                      /\ walk(tree, path) = after[Len(path)]
<1> DEFINE Solves(g, k) == g = [i \in 0..k |-> IF i = 0 THEN walkStart ELSE Iteration(tree, path, g[i - 1])]
           K == {k \in Nat : \E g : Solves(g, k)}
<1>1. 0 \in K
  <2>1. Solves([i \in 0..0 |-> walkStart], 0)
    OBVIOUS
  <2> QED
    BY <2>1
<1>2. ASSUME NEW k \in Nat, k \in K PROVE k + 1 \in K
  <2>1. PICK g : Solves(g, k)
    BY <1>2
  <2> DEFINE h == [i \in 0..k + 1 |-> IF i = 0 THEN walkStart ELSE Iteration(tree, path, g[i - 1])]
  <2>2. ASSUME NEW i \in 0..k PROVE h[i] = g[i]
    <3>1. g[i] = IF i = 0 THEN walkStart ELSE Iteration(tree, path, g[i - 1])
      BY <2>1
    <3>2. i \in 0..k + 1
      OBVIOUS
    <3> QED
      BY <3>1, <3>2
  <2>3. ASSUME NEW i \in 0..k + 1 PROVE h[i] = IF i = 0 THEN walkStart ELSE Iteration(tree, path, h[i - 1])
    <3>1. CASE i = 0
      BY <3>1
    <3>2. CASE i # 0
      <4>1. i - 1 \in 0..k
        BY <3>2
      <4>2. h[i] = Iteration(tree, path, g[i - 1])
        BY <3>2
      <4> HIDE DEF h
      <4> QED
        BY <2>2, <3>2, <4>1, <4>2
    <3> QED
      BY <3>1, <3>2
  <2>4. h = [i \in 0..k + 1 |-> h[i]]
    OBVIOUS
  <2>5. Solves(h, k + 1)
    <3> HIDE DEF h
    <3> QED
      BY <2>3, <2>4
  <2> HIDE DEF Solves, h
  <2> QED
    BY <2>5
<1>3. \E g : Solves(g, Len(path))
  <2>1. Len(path) \in K
    <3> HIDE DEF K
    <3> QED
      BY <1>1, <1>2, SetInduction
  <2> QED
    BY <2>1
<1> DEFINE f == CHOOSE g : Solves(g, Len(path))
<1>4. Solves(f, Len(path))
  <2> HIDE DEF Solves
  <2> QED
    BY <1>3
<1>5. walk(tree, path) = f[Len(path)]
  BY DEF walk, Iteration
<1> HIDE DEF f
<1>6. /\ f[0] = walkStart
      /\ \A i \in 1..Len(path) : f[i] = Iteration(tree, path, f[i - 1])
  BY <1>4
<1> QED
  BY <1>5, <1>6

\* The first pos - 1 segments of the path, cut into one part per key.
Cut(keys, path, pos) ==
    \E start \in [1..Len(keys) + 1 -> 1..PathLength(path) + 1] :
        /\ start[1] = 1 /\ start[Len(keys) + 1] = pos
        /\ \A i \in 1..Len(keys) :
              /\ start[i] < start[i + 1]
              /\ keys[i] # "**" => start[i + 1] = start[i] + 1 /\ keys[i] \in {"*", path[start[i]]}

\* A "**" may take more segments, up to q, and the next key one more.
LEMMA CutGrows ==
    ASSUME NEW S, NEW sn \in Seq(S), NEW key \in S, NEW path, PathLength(path) \in Nat,
           NEW p, Cut(sn, path, p), NEW q \in 1..PathLength(path),
           p <= q, q = p \/ (Len(sn) # 0 /\ sn[Len(sn)] = "**"),
           key # "**" => key \in {"*", path[q]}
    PROVE  Cut(Append(sn, key), path, q + 1)
<1> DEFINE m == Len(sn)
           n == PathLength(path)
           new == Append(sn, key)
<1>1. /\ m \in Nat /\ Len(new) = m + 1
      /\ \A i \in 1..m : new[i] = sn[i]
      /\ new[m + 1] = key
  BY ToSetFacts
<1>2. PICK start \in [1..m + 1 -> 1..n + 1] :
         /\ start[1] = 1 /\ start[m + 1] = p
         /\ \A i \in 1..m :
               /\ start[i] < start[i + 1]
               /\ sn[i] # "**" => start[i + 1] = start[i] + 1 /\ sn[i] \in {"*", path[start[i]]}
  BY DEF Cut
<1> DEFINE next == [i \in 1..m + 2 |-> IF i <= m THEN start[i] ELSE IF i = m + 1 THEN q ELSE q + 1]
<1> HIDE DEF new, n, m
<1>3. /\ n \in Nat /\ q \in 1..n /\ q + 1 \in 1..n + 1 /\ q \in 1..n + 1
      /\ p \in 1..n + 1
  BY <1>1, <1>2 DEF n
<1>4. next \in [1..m + 2 -> 1..n + 1]
  <2>1. \A i \in 1..m + 2 : i <= m => start[i] \in 1..n + 1
    BY <1>1, <1>2
  <2> QED
    BY <1>1, <1>3, <2>1
<1>5. /\ \A i \in 1..m : next[i] = start[i]
      /\ next[m + 1] = q /\ next[m + 2] = q + 1
  BY <1>1
<1> HIDE DEF next
<1>6. next[1] = 1
  <2>1. CASE m = 0
    BY <1>2, <1>3, <1>5, <2>1 DEF m
  <2>2. CASE m # 0
    BY <1>1, <1>2, <1>5, <2>2
  <2> QED
    BY <2>1, <2>2
<1>7. ASSUME NEW i \in 1..m + 1
      PROVE  /\ next[i] < next[i + 1]
             /\ new[i] # "**" => next[i + 1] = next[i] + 1 /\ new[i] \in {"*", path[next[i]]}
  <2>1. CASE i < m
    <3>1. i \in 1..m /\ i + 1 \in 1..m
      BY <1>1, <2>1
    <3> QED
      BY <1>1, <1>2, <1>5, <3>1
  <2>2. CASE i = m
    <3>1. i \in 1..m /\ next[i] = start[i] /\ next[i + 1] = q /\ start[i + 1] = p /\ new[i] = sn[i]
      BY <1>1, <1>2, <1>5, <2>2
    <3>2. /\ start[i] < p /\ start[i] \in 1..n + 1
          /\ sn[i] # "**" => p = start[i] + 1 /\ sn[i] \in {"*", path[start[i]]}
      BY <1>1, <1>2, <3>1
    <3>3. sn[i] # "**" => q = p
      BY <2>2 DEF m
    <3> QED
      BY <1>3, <3>1, <3>2, <3>3
  <2>3. CASE i = m + 1
    <3>1. next[i] = q /\ next[i + 1] = q + 1 /\ new[i] = key
      BY <1>1, <1>5, <2>3
    <3> QED
      BY <1>3, <3>1
  <2> QED
    BY <1>1, <2>1, <2>2, <2>3
<1>8. (m + 1) + 1 = m + 2
  BY <1>1
<1>9. Cut(new, path, q + 1)
  <2> DEFINE l == Len(new)
  <2>1. l = m + 1 /\ l + 1 = m + 2
    BY <1>1, <1>8
  <2> HIDE DEF l
  <2>2. next \in [1..l + 1 -> 1..n + 1] /\ next[1] = 1 /\ next[l + 1] = q + 1
    BY <1>4, <1>5, <1>6, <2>1, Zenon
  <2>3. \A i \in 1..l :
           /\ next[i] < next[i + 1]
           /\ new[i] # "**" => next[i + 1] = next[i] + 1 /\ new[i] \in {"*", path[next[i]]}
    BY <1>7, <2>1, Zenon
  <2> QED
    BY <2>2, <2>3, Zenon DEF Cut, n, l
<1> QED
  BY <1>9 DEF new

\* The empty segment.
Empty == ""

\* The path of a request, as mux hands it over.
Clean(path) ==
    /\ path \in Seq(UNION {ToSet(r.path) : r \in Requests})
    /\ \A i \in 1..Len(path) - 1 : path[i] # Empty

\* The segments of such a path, up to a trailing slash.
LEMMA SegmentFacts ==
    ASSUME NEW path, Clean(path)
    PROVE  LET n == PathLength(path)
           IN  /\ n \in Nat /\ n <= Len(path) /\ Len(path) \in Nat
               /\ \A i \in 1..n : path[i] # Empty /\ getPathSegment(path, i - 1) = path[i]
               /\ \A i \in 1..Len(path) : i \in 1..n \/ path[i] = Empty
               /\ getPathSegment(path, n) = Empty
<1> DEFINE n == PathLength(path)
           m == Len(path)
<1>1. m \in Nat /\ path = [i \in 1..m |-> path[i]] /\ \A i \in 1..m - 1 : path[i] # Empty
  BY DEF Clean
<1>2. path # <<>> <=> m # 0
  BY DEF Clean
<1>3. n = IF path # <<>> /\ path[m] = Empty THEN m - 1 ELSE m
  BY Zenon DEF PathLength, Last, Empty
<1> HIDE DEF n
<1>4. n \in Nat /\ n <= m
  BY <1>1, <1>2, <1>3
<1>5. \A p : getPathSegment(path, p) = IF p < m THEN path[p + 1] ELSE Empty
  BY Zenon DEF getPathSegment, Empty
<1> HIDE DEF m
<1>6. ASSUME NEW i \in 1..n PROVE path[i] # Empty /\ getPathSegment(path, i - 1) = path[i]
  <2>1. i \in 1..m /\ i - 1 < m /\ (i - 1) + 1 = i
    BY <1>1, <1>4
  <2>2. path[i] # Empty
    <3>1. CASE i \in 1..m - 1
      BY <1>1, <3>1
    <3>2. CASE i = m
      BY <1>1, <1>2, <1>3, <3>2
    <3> QED
      BY <1>1, <2>1, <3>1, <3>2
  <2> QED
    BY <1>5, <2>1, <2>2
<1>7. getPathSegment(path, n) = Empty
  <2>1. CASE n = m
    BY <1>1, <1>5, <2>1
  <2>2. CASE n # m
    <3>1. n = m - 1 /\ path[m] = Empty /\ n < m /\ n + 1 = m
      BY <1>1, <1>3, <2>2
    <3> QED
      BY <1>5, <3>1
  <2> QED
    BY <2>1, <2>2
<1>8. \A i \in 1..m : i \in 1..n \/ path[i] = Empty
  BY <1>1, <1>2, <1>3, <1>4
<1> QED
  BY <1>1, <1>4, <1>6, <1>7, <1>8 DEF n, m

\* No path of an endpoint goes on with an empty segment after a "**".
PlainWildcards ==
    \A def \in Definitions : \A i \in 2..Len(def.path) : def.path[i - 1] = "**" => def.path[i] # Empty

\* Only a "{name}" is stored under another key.
LEMMA SpecialKeys ==
    \A s : /\ segmentKey(s) = "**" => s = "**"
           /\ segmentKey(s) = Empty => s = Empty
           /\ segmentKey(s) = s \/ segmentKey(s) = "*"
<1>1. "*" # Empty
  BY Zenon DEF Empty
<1>2. "*" # "**"
  OBVIOUS
<1> QED
  BY <1>1, <1>2 DEF segmentKey

\* Nor does a node.
LEMMA NoEmptyKey ==
    ASSUME PlainWildcards, NEW S, NEW sn \in Seq(S), Len(sn) # 0, sn[Len(sn)] = "**", Append(sn, Empty) \in Nodes
    PROVE  FALSE
<1> DEFINE m == Len(sn)
           node == Append(sn, Empty)
<1>1. m \in Nat \ {0} /\ Len(node) = m + 1 /\ node[m] = "**" /\ node[m + 1] = Empty
  <2> DEFINE T == S \cup {Empty}
  <2>1. sn \in Seq(T) /\ Empty \in T /\ m \in Nat \ {0} /\ m \in 1..m
    OBVIOUS
  <2> HIDE DEF T
  <2> QED
    BY <2>1, ToSetFacts
<1>2. node # <<>>
  <2>1. Len(<<>>) = 0
    OBVIOUS
  <2> HIDE DEF node
  <2> QED
    BY <1>1, <2>1
<1>3. PICK def \in Definitions : node \in Prefixes(nodeOf(def))
  BY <1>2 DEF Nodes
<1> DEFINE full == nodeOf(def)
           k == Len(def.path)
<1>4. def.path \in Seq(PathSegments)
  BY DefinitionsAssumption DEF PathSegments
<1>5. k \in Nat /\ full = [j \in 1..k |-> segmentKey(def.path[j])]
  BY <1>4 DEF nodeOf
<1>6. full \in Seq({segmentKey(def.path[j]) : j \in 1..k}) /\ Len(full) = k
  <2> HIDE DEF k
  <2> QED
    BY <1>5
<1> HIDE DEF full, k, node, m
<1>7. PICK l \in 0..k : node = SubSeq(full, 1, l)
  BY <1>3, <1>6 DEF Prefixes, full
<1>8. l = m + 1 /\ \A i \in 1..l : node[i] = full[i]
  BY <1>1, <1>5, <1>6, <1>7, SubSeqProperties
<1>9. m \in 1..k /\ m + 1 \in 2..k /\ m \in 1..l /\ m + 1 \in 1..l /\ (m + 1) - 1 = m
  BY <1>1, <1>5, <1>8
<1>10. segmentKey(def.path[m]) = "**" /\ segmentKey(def.path[m + 1]) = Empty
  <2>1. m \in 1..k /\ m + 1 \in 1..k
    BY <1>1, <1>9
  <2>2. full[m] = segmentKey(def.path[m]) /\ full[m + 1] = segmentKey(def.path[m + 1])
    BY <1>5, <2>1
  <2> QED
    BY <1>1, <1>8, <1>9, <2>2
<1>11. def.path[m] = "**" /\ def.path[m + 1] = Empty
  BY <1>10, SpecialKeys
<1> QED
  BY <1>9, <1>11 DEF PlainWildcards, k

\* The fields of the state of the loop.
StateNames == {"sn", "pos", "allMatch", "end", "params"}

\* The state of the loop: the keys that led to the node have consumed the path up to
\* the position.
WalkOK(tree, path, st) ==
    /\ st = [f \in StateNames |-> st[f]]
    /\ st.end \in {Empty, "found", "failed"}
    /\ st.sn \in DOMAIN tree
    /\ st.pos \in 1..PathLength(path) + 1
    /\ st.allMatch \/ st.end = "found" => Len(st.sn) # 0 /\ st.sn[Len(st.sn)] = "**"
    /\ Cut(st.sn, path, st.pos)

\* One iteration.
LEMMA StepFacts ==
    ASSUME PlainWildcards, NEW tree, TreeShape(tree), NEW path, Clean(path),
           NEW st, WalkOK(tree, path, st), st.end = Empty, st.pos # PathLength(path) + 1
    PROVE  LET r == walkStep(tree, path, st)
           IN  WalkOK(tree, path, r) /\ (r.end # Empty \/ r.pos > st.pos)
<1> DEFINE n == PathLength(path)
           r == walkStep(tree, path, st)
           sn == st.sn
           hits == {i \in st.pos..Len(path) : path[i] # Empty /\ HasChild(tree, sn, path[i])}
           exhausted == st.allMatch /\ hits = {}
           pos == IF st.allMatch /\ hits # {} THEN Min(hits) ELSE st.pos
           segment == IF exhausted THEN Empty ELSE getPathSegment(path, pos - 1)
           keys == childKeys(segment)
           found == {i \in DOMAIN keys : HasChild(tree, sn, keys[i])}
           key == keys[Min(found)]
           via(wildcard) == key = wildcard /\ segment # wildcard
           child == Append(sn, key)
           params == IF via("*") THEN bind(st.params, tree[child].pathParamName, segment) ELSE st.params
<1>1. r = IF IsLeaf(tree, sn) THEN [st EXCEPT !.end = leafEnd(st.allMatch)]
          ELSE IF found = {} THEN [st EXCEPT !.end = "failed"]
          ELSE [st EXCEPT !.sn = child, !.pos = pos + 1, !.allMatch = via("**"), !.params = params]
  BY Zenon DEF walkStep, Empty
<1>2. /\ n \in Nat /\ n <= Len(path) /\ Len(path) \in Nat
      /\ \A i \in 1..n : path[i] # Empty /\ getPathSegment(path, i - 1) = path[i]
      /\ \A i \in 1..Len(path) : i \in 1..n \/ path[i] = Empty
  BY SegmentFacts
<1>3. /\ st = [f \in StateNames |-> st[f]] /\ st.pos \in 1..n
      /\ sn \in DOMAIN tree /\ sn \in Seq(NodeKeys)
      /\ st.allMatch => Len(sn) # 0 /\ sn[Len(sn)] = "**"
      /\ Cut(sn, path, st.pos)
  BY <1>2, NodeFacts DEF WalkOK, TreeShape
<1>4. pos \in st.pos..n /\ pos \in 1..n /\ (pos # st.pos => st.allMatch)
  <2>1. CASE st.allMatch /\ hits # {}
    <3>1. hits \subseteq Nat
      BY <1>2, <1>3
    <3>2. Min(hits) \in hits
      <4> HIDE DEF hits
      <4> QED
        BY <2>1, <3>1, LeastNat DEF Min
    <3>3. ASSUME NEW i \in hits PROVE i \in st.pos..n
      <4>1. i \in st.pos..Len(path) /\ path[i] # Empty
        OBVIOUS
      <4> QED
        BY <1>2, <1>3, <4>1
    <3>4. pos \in hits
      BY <2>1, <3>2
    <3>5. pos \in st.pos..n /\ st.pos \in 1..n /\ n \in Nat
      BY <1>2, <1>3, <3>3, <3>4
    <3>6. pos \in 1..n
      <4> HIDE DEF hits, pos
      <4> QED
        BY <3>5
    <3>7. st.allMatch
      BY <2>1
    <3> QED
      BY <3>5, <3>6, <3>7, Zenon
  <2>2. CASE ~(st.allMatch /\ hits # {})
    <3>1. pos = st.pos
      BY <2>2
    <3> HIDE DEF pos
    <3> QED
      BY <1>2, <1>3, <3>1
  <2> QED
    BY <2>1, <2>2
<1>5. segment # Empty => segment = path[pos]
  BY <1>2, <1>4
<1>6. segment = Empty => st.allMatch
  BY <1>2, <1>4
<1> HIDE DEF pos, segment, hits
<1>7. CASE IsLeaf(tree, sn)
  <2>1. r = [st EXCEPT !.end = leafEnd(st.allMatch)]
    BY <1>1, <1>7
  <2>2. leafEnd(st.allMatch) \in {"found", "failed"} /\ (leafEnd(st.allMatch) = "found" => st.allMatch)
    BY DEF leafEnd
  <2>3. /\ r = [f \in StateNames |-> r[f]] /\ r.end = leafEnd(st.allMatch)
        /\ r.sn = sn /\ r.pos = st.pos /\ r.allMatch = st.allMatch
    BY <1>3, <2>1 DEF StateNames
  <2>4. r.end \in {Empty, "found", "failed"} /\ r.end # Empty
    <3>1. Empty # "found" /\ Empty # "failed"
      BY Zenon DEF Empty
    <3> QED
      BY <2>2, <2>3, <3>1
  <2>5. r.pos \in 1..PathLength(path) + 1
    BY <1>2, <1>3, <2>3
  <2>6. r.allMatch \/ r.end = "found" => Len(r.sn) # 0 /\ r.sn[Len(r.sn)] = "**"
    BY <1>3, <2>2, <2>3, Zenon
  <2>7. r.sn \in DOMAIN tree /\ Cut(r.sn, path, r.pos)
    BY <1>3, <2>3
  <2> HIDE DEF r
  <2>8. WalkOK(tree, path, r)
    BY <2>3, <2>4, <2>5, <2>6, <2>7, Zenon DEF WalkOK
  <2> QED
    BY <2>4, <2>8, Zenon DEF r
<1>8. CASE ~IsLeaf(tree, sn) /\ found = {}
  <2>1. r = [st EXCEPT !.end = "failed"]
    BY <1>1, <1>8
  <2>2. /\ r = [f \in StateNames |-> r[f]] /\ r.end = "failed"
        /\ r.sn = sn /\ r.pos = st.pos /\ r.allMatch = st.allMatch
    BY <1>3, <2>1 DEF StateNames
  <2>3. r.end \in {Empty, "found", "failed"} /\ r.end # Empty /\ r.end # "found"
    <3>1. Empty # "failed"
      BY Zenon DEF Empty
    <3> QED
      BY <2>2, <3>1
  <2>4. r.pos \in 1..PathLength(path) + 1
    BY <1>2, <1>3, <2>2
  <2>5. r.allMatch \/ r.end = "found" => Len(r.sn) # 0 /\ r.sn[Len(r.sn)] = "**"
    BY <1>3, <2>2, <2>3, Zenon
  <2>6. r.sn \in DOMAIN tree /\ Cut(r.sn, path, r.pos)
    BY <1>3, <2>2
  <2> HIDE DEF r
  <2>7. WalkOK(tree, path, r)
    BY <2>2, <2>3, <2>4, <2>5, <2>6, Zenon DEF WalkOK
  <2> QED
    BY <2>3, <2>7, Zenon DEF r
<1>9. CASE ~IsLeaf(tree, sn) /\ found # {}
  <2>1. r = [st EXCEPT !.sn = child, !.pos = pos + 1, !.allMatch = via("**"), !.params = params]
    BY <1>1, <1>9
  <2>2. /\ r = [f \in StateNames |-> r[f]] /\ r.end = Empty
        /\ r.sn = child /\ r.pos = pos + 1 /\ r.allMatch = via("**")
    <3> HIDE DEF params, child, via
    <3> QED
      BY <1>3, <2>1 DEF StateNames
  <2>3. key \in {segment, "*", "**"} /\ child \in DOMAIN tree
    <3>1. keys = <<segment, "*", "**">> /\ DOMAIN keys = 1..3
      BY DEF childKeys
    <3>2. found \subseteq 1..3
      BY <3>1
    <3>3. Min(found) \in found
      <4>1. found # {} /\ found \subseteq Nat
        BY <1>9, <3>2
      <4> HIDE DEF found
      <4> QED
        BY <4>1, LeastNat DEF Min
    <3>4. Min(found) \in 1..3 /\ HasChild(tree, sn, key)
      BY <3>2, <3>3
    <3> HIDE DEF found, keys
    <3> QED
      BY <3>1, <3>4 DEF HasChild
  <2> HIDE DEF key
  <2>4. key # Empty
    <3> SUFFICES ASSUME key = Empty PROVE FALSE
      OBVIOUS
    <3>1. segment = Empty
      <4>1. Empty # "*" /\ Empty # "**"
        BY Zenon DEF Empty
      <4> QED
        BY <2>3, <4>1
    <3>2. child \in Nodes
      BY <2>3 DEF TreeShape
    <3> QED
      BY <1>3, <1>6, <3>1, <3>2, NoEmptyKey
  <2>5. key # "**" => key \in {"*", path[pos]}
    BY <1>5, <2>3, <2>4
  <2>6. Cut(child, path, pos + 1)
    <3> DEFINE S == NodeKeys \cup {key}
    <3>1. sn \in Seq(S) /\ key \in S
      BY <1>3
    <3>2. st.pos <= pos /\ pos \in 1..PathLength(path)
      BY <1>2, <1>3, <1>4
    <3>3. pos = st.pos \/ (Len(sn) # 0 /\ sn[Len(sn)] = "**")
      BY <1>3, <1>4
    <3> HIDE DEF S, sn
    <3> QED
      BY <1>2, <1>3, <2>5, <3>1, <3>2, <3>3, CutGrows
  <2>7. via("**") => Len(child) # 0 /\ child[Len(child)] = "**"
    <3> DEFINE S == NodeKeys \cup {key}
    <3>1. sn \in Seq(S) /\ key \in S
      BY <1>3
    <3>2. Len(child) = Len(sn) + 1 /\ Len(sn) \in Nat /\ child[Len(sn) + 1] = key
      <4> HIDE DEF S, sn
      <4> QED
        BY <3>1, ToSetFacts
    <3> QED
      BY <3>2
  <2>8. pos + 1 \in 1..PathLength(path) + 1 /\ pos + 1 > st.pos
    BY <1>2, <1>3, <1>4
  <2>9. r.end # "found"
    <3>1. Empty # "found"
      BY Zenon DEF Empty
    <3> QED
      BY <2>2, <3>1
  <2>10. r.allMatch \/ r.end = "found" => Len(r.sn) # 0 /\ r.sn[Len(r.sn)] = "**"
    BY <2>2, <2>7, <2>9, Zenon
  <2>11. r.pos \in 1..PathLength(path) + 1 /\ r.pos > st.pos
    BY <2>2, <2>8
  <2>12. r.sn \in DOMAIN tree /\ Cut(r.sn, path, r.pos) /\ r.end \in {Empty, "found", "failed"}
    <3> HIDE DEF r, child, via
    <3> QED
      BY <2>2, <2>3, <2>6
  <2> HIDE DEF r
  <2>13. WalkOK(tree, path, r)
    BY <2>2, <2>10, <2>11, <2>12, Zenon DEF WalkOK
  <2> QED
    BY <2>11, <2>13, Zenon DEF r
<1> QED
  BY <1>7, <1>8, <1>9, Zenon

\* The state before the first iteration.
LEMMA WalkStartOK ==
    ASSUME NEW tree, TreeShape(tree), NEW path, Clean(path)
    PROVE  WalkOK(tree, path, walkStart) /\ walkStart.pos = 1
<1> DEFINE n == PathLength(path)
           st == walkStart
<1>1. n \in Nat
  BY SegmentFacts
<1>2. st = [sn |-> <<>>, pos |-> 1, allMatch |-> FALSE, end |-> Empty, params |-> <<>>]
  BY Zenon DEF walkStart, Empty
<1> HIDE DEF st
<1>3. /\ st = [f \in StateNames |-> st[f]] /\ st.end = Empty /\ st.sn = <<>> /\ st.pos = 1
      /\ ~st.allMatch
  BY <1>2 DEF StateNames
<1>4. Cut(<<>>, path, 1)
  <2> DEFINE start == [i \in 1..1 |-> 1]
  <2>1. start \in [1..1 -> 1..n + 1] /\ start[1] = 1
    BY <1>1
  <2>2. Len(<<>>) = 0 /\ 0 + 1 = 1 /\ 1..0 = {}
    OBVIOUS
  <2> HIDE DEF start
  <2>3. \E s \in [1..0 + 1 -> 1..n + 1] : s[1] = 1 /\ s[0 + 1] = 1
    BY <2>1
  <2> QED
    BY <2>2, <2>3, Zenon DEF Cut
<1>5. Empty # "found"
  BY Zenon DEF Empty
<1>6. st.pos \in 1..PathLength(path) + 1
  BY <1>1, <1>3
<1>7. st.sn \in DOMAIN tree
  BY <1>3 DEF TreeShape
<1>8. st.end \in {Empty, "found", "failed"} /\ ~(st.allMatch \/ st.end = "found")
  BY <1>3, <1>5
<1>9. Cut(st.sn, path, st.pos)
  BY <1>3, <1>4
<1>10. WalkOK(tree, path, st)
  BY <1>3, <1>6, <1>7, <1>8, <1>9, Zenon DEF WalkOK
<1> QED
  BY <1>3, <1>10 DEF st

\* The loop ends at a node whose keys have consumed the whole path, unless the rest of
\* it is left to a "**" or the walk has failed.
LEMMA WalkFacts ==
    ASSUME PlainWildcards, NEW tree, TreeShape(tree), NEW path, Clean(path)
    PROVE  LET w == walk(tree, path)
           IN  WalkOK(tree, path, w) /\ (w.end # Empty \/ w.pos = PathLength(path) + 1)
<1> DEFINE n == PathLength(path)
           m == Len(path)
<1>1. /\ n \in Nat /\ n <= m /\ m \in Nat
      /\ \A i \in 1..n : getPathSegment(path, i - 1) # Empty
      /\ getPathSegment(path, n) = Empty
  BY SegmentFacts
<1>2. PICK after : /\ after[0] = walkStart
                   /\ \A i \in 1..m : after[i] = Iteration(tree, path, after[i - 1])
                   /\ walk(tree, path) = after[m]
  BY <1>1, WalkRecursion
<1> DEFINE OK(i) == WalkOK(tree, path, after[i])
           Far(i) == after[i].end # Empty \/ after[i].pos = n + 1 \/ after[i].pos > i
           K == {i \in Nat : i <= m => OK(i) /\ Far(i)}
<1>3. 0 \in K
  <2>1. OK(0) /\ after[0].pos = 1
    BY <1>2, WalkStartOK
  <2> QED
    BY <2>1
<1>4. ASSUME NEW i \in Nat, i \in K PROVE i + 1 \in K
  <2> SUFFICES ASSUME i + 1 <= m PROVE OK(i + 1) /\ Far(i + 1)
    OBVIOUS
  <2> DEFINE st == after[i]
             r == after[i + 1]
  <2>1. OK(i) /\ Far(i)
    BY <1>1, <1>4
  <2>2. r = Iteration(tree, path, st)
    <3>1. i + 1 \in 1..m /\ (i + 1) - 1 = i
      BY <1>1
    <3> QED
      BY <1>2, <3>1
  <2>3. r = IF st.end # Empty \/ getPathSegment(path, st.pos - 1) = Empty THEN st
            ELSE walkStep(tree, path, st)
    BY <2>2, Zenon DEF Iteration, Empty
  <2>4. st.pos \in 1..n + 1
    BY <2>1 DEF WalkOK
  <2>5. getPathSegment(path, st.pos - 1) = Empty <=> st.pos = n + 1
    <3> HIDE DEF st
    <3>1. CASE st.pos = n + 1
      <4>1. st.pos - 1 = n
        BY <1>1, <3>1
      <4> QED
        BY <1>1, <3>1, <4>1
    <3>2. CASE st.pos # n + 1
      <4>1. st.pos \in 1..n
        BY <1>1, <2>4, <3>2
      <4> QED
        BY <1>1, <3>2, <4>1
    <3> QED
      BY <3>1, <3>2
  <2>6. CASE st.end # Empty \/ st.pos = n + 1
    <3>1. r = st
      BY <2>3, <2>5, <2>6
    <3> QED
      BY <2>1, <2>6, <3>1
  <2>7. CASE st.end = Empty /\ st.pos # n + 1
    <3>1. r = walkStep(tree, path, st)
      BY <2>3, <2>5, <2>7, Zenon
    <3>2. WalkOK(tree, path, r) /\ (r.end # Empty \/ r.pos > st.pos)
      BY <2>1, <2>7, <3>1, StepFacts
    <3>3. st.pos > i
      BY <2>1, <2>7
    <3>4. r.pos \in 1..n + 1
      BY <3>2 DEF WalkOK
    <3>5. r.pos > st.pos => r.pos > i + 1
      <4> HIDE DEF r, st
      <4> QED
        BY <1>1, <2>4, <3>3, <3>4
    <3> QED
      BY <3>2, <3>5, Zenon
  <2> QED
    BY <2>6, <2>7
<1>5. m \in K
  <2> HIDE DEF K
  <2> QED
    BY <1>1, <1>3, <1>4, SetInduction
<1>6. OK(m) /\ Far(m)
  BY <1>1, <1>5
<1>7. after[m].end # Empty \/ after[m].pos = n + 1
  <2>1. after[m].pos \in 1..n + 1
    BY <1>6 DEF WalkOK
  <2>2. after[m].pos > m => after[m].pos = n + 1
    BY <1>1, <2>1
  <2> QED
    BY <1>6, <2>2, Zenon
<1> QED
  BY <1>2, <1>6, <1>7, Zenon

\* At the end a last "**" takes all that is left.
LEMMA CutEnds ==
    ASSUME NEW S, NEW sn \in Seq(S), NEW path, PathLength(path) \in Nat,
           NEW p, Cut(sn, path, p),
           p = PathLength(path) + 1 \/ (Len(sn) # 0 /\ sn[Len(sn)] = "**")
    PROVE  Cut(sn, path, PathLength(path) + 1)
<1> DEFINE m == Len(sn)
           n == PathLength(path)
<1>1. CASE p = n + 1
  BY <1>1
<1>2. CASE m # 0 /\ sn[m] = "**"
  <2>1. PICK start \in [1..m + 1 -> 1..n + 1] :
           /\ start[1] = 1 /\ start[m + 1] = p
           /\ \A i \in 1..m :
                 /\ start[i] < start[i + 1]
                 /\ sn[i] # "**" => start[i + 1] = start[i] + 1 /\ sn[i] \in {"*", path[start[i]]}
    BY DEF Cut
  <2>2. m \in Nat \ {0} /\ n \in Nat
    BY <1>2
  <2> DEFINE next == [i \in 1..m + 1 |-> IF i = m + 1 THEN n + 1 ELSE start[i]]
  <2> HIDE DEF m, n
  <2>3. next \in [1..m + 1 -> 1..n + 1] /\ next[m + 1] = n + 1 /\ next[1] = 1
        /\ \A i \in 1..m : next[i] = start[i]
    BY <2>1, <2>2
  <2> HIDE DEF next
  <2>4. ASSUME NEW i \in 1..m
        PROVE  /\ next[i] < next[i + 1]
               /\ sn[i] # "**" => next[i + 1] = next[i] + 1 /\ sn[i] \in {"*", path[next[i]]}
    <3>1. CASE i = m
      <4>1. start[m] < p /\ start[m] \in 1..n + 1 /\ p \in 1..n + 1 /\ m \in 1..m
        BY <2>1, <2>2
      <4>2. next[i] = start[m] /\ next[i + 1] = n + 1
        BY <2>3, <3>1
      <4>3. next[i] < next[i + 1]
        BY <2>2, <4>1, <4>2
      <4> QED
        BY <1>2, <3>1, <4>3
    <3>2. CASE i # m
      <4>1. i + 1 \in 1..m
        BY <2>2, <3>2
      <4> QED
        BY <2>1, <2>3, <4>1
    <3> QED
      BY <3>1, <3>2
  <2> QED
    BY <2>3, <2>4, Zenon DEF Cut, m, n
<1> QED
  BY <1>1, <1>2

\* An endpoint of the node at which the walk ends has a pattern that the path fits.
LEMMA WalkFits ==
    ASSUME PlainWildcards, NEW tree, TreeShape(tree), NEW path, Clean(path),
           NEW ep \in Endpoints, nodeOf(ep) = walk(tree, path).sn, walk(tree, path).end # "failed"
    PROVE  Fits(ep.path, path)
<1> DEFINE w == walk(tree, path)
           node == nodeOf(ep)
           m == Len(ep.path)
           n == PathLength(path)
<1>1. WalkOK(tree, path, w) /\ (w.end # Empty \/ w.pos = n + 1)
  BY WalkFacts
<1>2. n \in Nat
  BY SegmentFacts
<1>3. node \in Seq(NodeKeys) /\ Len(node) = m /\ \A i \in 1..m : node[i] = segmentKey(ep.path[i])
  BY EndpointFacts
<1>4. Cut(node, path, w.pos)
  BY <1>1 DEF WalkOK
<1>5. w.pos = n + 1 \/ (Len(node) # 0 /\ node[Len(node)] = "**")
  <2>1. w.end = Empty \/ w.end = "found"
    BY <1>1 DEF WalkOK
  <2> QED
    BY <1>1, <2>1, Zenon DEF WalkOK
<1> HIDE DEF w, node
<1>6. Cut(node, path, n + 1)
  BY <1>2, <1>3, <1>4, <1>5, CutEnds
<1>7. PICK start \in [1..m + 1 -> 1..n + 1] :
         /\ start[1] = 1 /\ start[m + 1] = n + 1
         /\ \A i \in 1..m :
               /\ start[i] < start[i + 1]
               /\ node[i] # "**" => start[i + 1] = start[i] + 1 /\ node[i] \in {"*", path[start[i]]}
  BY <1>3, <1>6, Zenon DEF Cut
<1>8. ASSUME NEW i \in 1..m
      PROVE  /\ start[i] < start[i + 1]
             /\ ep.path[i] # "**" => /\ start[i + 1] = start[i] + 1
                                     /\ segmentKey(ep.path[i]) \in {"*", path[start[i]]}
  <2>1. node[i] = segmentKey(ep.path[i])
    BY <1>3
  <2>2. ep.path[i] # "**" => node[i] # "**"
    BY <2>1, SpecialKeys
  <2> QED
    BY <1>7, <2>1, <2>2, Zenon
<1> QED
  BY <1>7, <1>8, Zenon DEF Fits

\* The endpoints that a request is compared with: where they are, and which they are.
LEMMA CandidateFacts ==
    ASSUME PlainWildcards, NEW tree, TreeShape(tree), Placed(tree), NEW rq \in Requests,
           walk(tree, rq.path).end # "failed"
    PROVE  LET eps == candidates(tree, walk(tree, rq.path).sn, rq)
           IN  /\ eps \in Seq(Endpoints)
               /\ \A i \in 1..Len(eps) :
                     /\ Fits(eps[i].path, rq.path)
                     /\ endpointKey(eps[i]) \in {<<rq.method, rq.host>>, <<rq.method, "">>}
<1> DEFINE w == walk(tree, rq.path)
           k1 == <<rq.method, rq.host>>
           k2 == <<rq.method, "">>
           l1 == IF rq.host = Empty THEN <<>> ELSE tree[w.sn].endpoints[k1]
           l2 == tree[w.sn].endpoints[k2]
           eps == candidates(tree, w.sn, rq)
<1>1. Clean(rq.path) /\ k1 \in EndpointKeys /\ k2 \in EndpointKeys
  BY RequestsAssumption, Zenon DEF Clean, Empty
<1>2. w.sn \in DOMAIN tree
  BY <1>1, WalkFacts DEF WalkOK
<1>3. eps = l1 \o l2
  BY Zenon DEF candidates, Empty
<1>4. /\ \A ep \in ToSet(l1) : nodeOf(ep) = w.sn /\ endpointKey(ep) = k1
      /\ \A ep \in ToSet(l2) : nodeOf(ep) = w.sn /\ endpointKey(ep) = k2
  <2>1. ASSUME NEW k \in EndpointKeys, NEW ep \in ToSet(tree[w.sn].endpoints[k])
        PROVE  nodeOf(ep) = w.sn /\ endpointKey(ep) = k
    BY <1>2, Zenon DEF Placed
  <2>2. ToSet(<<>>) = {}
    BY DEF ToSet
  <2>3. l1 = <<>> \/ l1 = tree[w.sn].endpoints[k1]
    BY Zenon
  <2>4. \A ep \in ToSet(l2) : nodeOf(ep) = w.sn /\ endpointKey(ep) = k2
    BY <1>1, <2>1, Zenon
  <2> HIDE DEF l1, k1
  <2>5. \A ep \in ToSet(l1) : nodeOf(ep) = w.sn /\ endpointKey(ep) = k1
    BY <1>1, <2>1, <2>2, <2>3
  <2> QED
    BY <2>4, <2>5, Zenon
<1> HIDE DEF k1, k2
<1>5. l1 \in Seq(Endpoints) /\ l2 \in Seq(Endpoints)
  BY <1>1, <1>2 DEF TreeShape
<1> HIDE DEF l1, l2, eps
<1>6. /\ eps \in Seq(Endpoints)
      /\ \A i \in 1..Len(eps) : eps[i] \in Endpoints /\ (eps[i] \in ToSet(l1) \/ eps[i] \in ToSet(l2))
  BY <1>3, <1>5 DEF ToSet
<1>7. ASSUME NEW i \in 1..Len(eps)
      PROVE  Fits(eps[i].path, rq.path) /\ endpointKey(eps[i]) \in {k1, k2}
  <2>1. eps[i] \in Endpoints /\ nodeOf(eps[i]) = w.sn /\ endpointKey(eps[i]) \in {k1, k2}
    BY <1>4, <1>6
  <2> QED
    BY <1>1, <2>1, WalkFits
<1> QED
  BY <1>6, <1>7, Zenon DEF eps, k1, k2

\* No endpoint serves a request whose walk fails.
LEMMA FailedServesNobody ==
    ASSUME NEW tree, NEW rq, walk(tree, rq.path).end = "failed"
    PROVE  ToSet(matchRequestToEndpoint(tree, rq).endpoint) = {}
<1>1. DOMAIN <<>> = {} /\ ToSet(<<>>) = {}
  BY DEF ToSet
<1>2. matching(<<>>, rq) = {}
  BY <1>1 DEF matching
<1> QED
  BY <1>1, <1>2 DEF matchRequestToEndpoint

\* An endpoint that matchRequestToEndpoint returns is one of the candidates.
LEMMA ServedIsCandidate ==
    ASSUME NEW tree, NEW rq, candidates(tree, walk(tree, rq.path).sn, rq) \in Seq(Endpoints),
           NEW ep, ep \in ToSet(matchRequestToEndpoint(tree, rq).endpoint)
    PROVE  ep \in ToSet(candidates(tree, walk(tree, rq.path).sn, rq))
<1> DEFINE eps == candidates(tree, walk(tree, rq.path).sn, rq)
           w == walk(tree, rq.path)
           l == IF w.end = "failed" THEN <<>> ELSE candidates(tree, w.sn, rq)
           hits == matching(l, rq)
           served == IF hits = {} THEN <<>> ELSE <<l[Min(hits)]>>
<1>1. matchRequestToEndpoint(tree, rq).endpoint = served
  BY DEF matchRequestToEndpoint
<1>2. hits \subseteq DOMAIN l
  BY DEF matching
<1>3. hits # {} /\ ep = l[Min(hits)]
  <2> HIDE DEF hits, l
  <2>1. ep \in ToSet(served)
    BY <1>1
  <2>2. ToSet(<<>>) = {} /\ \A x : ToSet(<<x>>) = {x}
    BY DEF ToSet
  <2>3. CASE hits = {}
    BY <2>1, <2>2, <2>3
  <2>4. CASE hits # {}
    BY <2>1, <2>2, <2>4
  <2> QED
    BY <2>3, <2>4
<1>4. w.end # "failed" /\ l = eps
  <2>1. w.end # "failed"
    <3>1. DOMAIN <<>> = {}
      OBVIOUS
    <3>2. CASE w.end = "failed"
      <4>1. l = <<>>
        BY <3>2
      <4> HIDE DEF w, hits, l
      <4> QED
        BY <1>2, <1>3, <3>1, <4>1
    <3> QED
      BY <3>2
  <2> QED
    BY <2>1, Zenon
<1> HIDE DEF hits, l
<1>5. hits \subseteq 1..Len(eps) /\ Len(eps) \in Nat /\ DOMAIN eps = 1..Len(eps)
  BY <1>2, <1>4
<1>6. Min(hits) \in hits
  <2>1. hits \subseteq Nat
    BY <1>5
  <2> QED
    BY <1>3, <2>1, LeastNat DEF Min
<1>7. ep = eps[Min(hits)] /\ Min(hits) \in DOMAIN eps
  BY <1>3, <1>4, <1>5, <1>6, Zenon
<1> QED
  BY <1>7, Zenon DEF ToSet

\* What such an endpoint guarantees.
LEMMA ServedFits ==
    ASSUME PlainWildcards, NEW tree, TreeShape(tree), Placed(tree), NEW rq \in Requests,
           NEW ep \in ToSet(matchRequestToEndpoint(tree, rq).endpoint)
    PROVE  /\ Fits(ep.path, rq.path)
           /\ endpointKey(ep) \in {<<rq.method, rq.host>>, <<rq.method, "">>}
<1> DEFINE eps == candidates(tree, walk(tree, rq.path).sn, rq)
<1>1. walk(tree, rq.path).end # "failed"
  <2>1. CASE walk(tree, rq.path).end = "failed"
    BY <2>1, FailedServesNobody
  <2> QED
    BY <2>1
<1>2. /\ eps \in Seq(Endpoints)
      /\ \A i \in 1..Len(eps) :
            /\ Fits(eps[i].path, rq.path)
            /\ endpointKey(eps[i]) \in {<<rq.method, rq.host>>, <<rq.method, "">>}
  BY <1>1, CandidateFacts, Zenon
<1>3. eps \in Seq(Endpoints)
  BY <1>2, Zenon
<1>4. ep \in ToSet(eps)
  BY <1>3, ServedIsCandidate, Zenon
<1> HIDE DEF eps
<1>5. PICK i \in 1..Len(eps) : ep = eps[i]
  BY <1>3, <1>4 DEF ToSet
<1> QED
  BY <1>2, <1>5, Zenon

\* Whatever other endpoints share its nodes, an endpoint serves only requests whose path
\* fits its pattern and which have its method and its host: if no "**" is followed by an
\* empty segment (the code goes to the child of that name at the end of every path).
THEOREM ServedPathsFit == ASSUME PlainWildcards PROVE LoaderSpec => []PathSound
<1>1. LoaderInv => PathSound
  BY ServedFits DEF PathSound, LoaderInv, TreeOK
<1> QED
  BY <1>1, LoaderInvariant, PTL

\* Two elements of a set of at most one are the same.
LEMMA AtMostOne ==
    ASSUME NEW S, IsFiniteSet(S), Cardinality(S) <= 1, NEW x \in S, NEW y \in S
    PROVE  x = y
<1> SUFFICES ASSUME x # y PROVE FALSE
  OBVIOUS
<1> DEFINE T == S \ {x}
<1>1. IsFiniteSet(T) /\ Cardinality(T) = Cardinality(S) - 1 /\ Cardinality(T) \in Nat /\ Cardinality(S) \in Nat
  BY FS_RemoveElement, FS_CardinalityType
<1>2. Cardinality(T) = 0
  BY <1>1
<1> QED
  BY <1>1, <1>2, FS_EmptySet

\* Where at most one endpoint looks at the body, all of them see the whole body.
LEMMA MatchingFacts ==
    ASSUME NEW rq, NEW eps \in Seq(Endpoints),
           Cardinality({i \in DOMAIN eps : eps[i].body # <<>>}) <= 1
    PROVE  matching(eps, rq) =
               {i \in DOMAIN eps : /\ matchQueryParams(eps[i], rq) /\ matchHeaderValues(eps[i], rq)
                                   /\ matchBody(eps[i], rq.body)}
<1> DEFINE readers == {i \in DOMAIN eps : eps[i].body # <<>>}
<1>1. DOMAIN eps = 1..Len(eps) /\ Len(eps) \in Nat
  OBVIOUS
<1>2. IsFiniteSet(readers)
  <2>1. IsFiniteSet(1..Len(eps))
    BY <1>1, FS_Interval
  <2>2. readers \subseteq 1..Len(eps)
    BY <1>1
  <2> HIDE DEF readers
  <2> QED
    BY <2>1, <2>2, FS_Subset
<1>3. ASSUME NEW i \in DOMAIN eps
      PROVE  matchBody(eps[i], bodyAfter(SubSeq(eps, 1, i - 1), rq)) <=> matchBody(eps[i], rq.body)
  <2>1. CASE eps[i].body = <<>>
    BY <2>1, Zenon DEF matchBody
  <2>2. CASE eps[i].body # <<>>
    <3> DEFINE before == SubSeq(eps, 1, i - 1)
    <3>1. ASSUME NEW j \in DOMAIN before PROVE before[j].body = <<>>
      <4>1. DOMAIN before = 1..i - 1 /\ \A k \in 1..i - 1 : before[k] = eps[k]
        BY <1>1, SubSeqProperties
      <4> HIDE DEF before
      <4>2. j \in DOMAIN eps /\ j # i /\ before[j] = eps[j]
        BY <1>1, <3>1, <4>1
      <4>3. CASE eps[j].body # <<>>
        <5>1. i \in readers /\ j \in readers
          BY <2>2, <4>2, <4>3, Zenon
        <5> HIDE DEF readers
        <5> QED
          BY <1>2, <4>2, <5>1, AtMostOne DEF readers
      <4> QED
        BY <4>2, <4>3, Zenon
    <3>2. \A j \in DOMAIN before : ~readsBody(before[j], rq)
      BY <3>1, Zenon DEF readsBody
    <3>3. bodyAfter(before, rq) = rq.body
      BY <3>2, Zenon DEF bodyAfter
    <3> QED
      BY <3>3, Zenon
  <2> QED
    BY <2>1, <2>2, Zenon
<1> QED
  BY <1>3, Zenon DEF matching

\* The choice among the endpoints of the node.
LEMMA FirstServed ==
    ASSUME PlainWildcards, NEW tree, TreeShape(tree), Placed(tree), NEW rq \in Requests,
           walk(tree, rq.path).end # "failed",
           Cardinality({i \in DOMAIN candidates(tree, walk(tree, rq.path).sn, rq) :
                           candidates(tree, walk(tree, rq.path).sn, rq)[i].body # <<>>}) <= 1
    PROVE  LET eps == candidates(tree, walk(tree, rq.path).sn, rq)
               ok == {i \in DOMAIN eps : Qualifies(eps[i], rq)}
           IN  matchRequestToEndpoint(tree, rq).endpoint = IF ok = {} THEN <<>> ELSE <<eps[Min(ok)]>>
<1> DEFINE w == walk(tree, rq.path)
           eps == candidates(tree, w.sn, rq)
           ok == {i \in DOMAIN eps : Qualifies(eps[i], rq)}
           hits == matching(eps, rq)
<1>1. /\ eps \in Seq(Endpoints)
      /\ \A i \in 1..Len(eps) :
            /\ Fits(eps[i].path, rq.path)
            /\ endpointKey(eps[i]) \in {<<rq.method, rq.host>>, <<rq.method, "">>}
  BY CandidateFacts, Zenon
<1>2. eps \in Seq(Endpoints)
  BY <1>1, Zenon
<1>3. DOMAIN eps = 1..Len(eps)
  BY <1>2
<1>4. hits = {i \in DOMAIN eps : /\ matchQueryParams(eps[i], rq) /\ matchHeaderValues(eps[i], rq)
                                 /\ matchBody(eps[i], rq.body)}
  BY <1>2, MatchingFacts, Zenon
<1>5. \A i \in DOMAIN eps : Qualifies(eps[i], rq) <=>
          /\ matchQueryParams(eps[i], rq) /\ matchHeaderValues(eps[i], rq)
          /\ matchBody(eps[i], rq.body)
  BY <1>1, <1>3, Zenon DEF Qualifies
<1>6. hits = ok
  BY <1>4, <1>5, Zenon
<1>7. matchRequestToEndpoint(tree, rq).endpoint = IF hits = {} THEN <<>> ELSE <<eps[Min(hits)]>>
  <2> DEFINE l == IF w.end = "failed" THEN <<>> ELSE eps
             h == matching(l, rq)
  <2>1. matchRequestToEndpoint(tree, rq).endpoint = IF h = {} THEN <<>> ELSE <<l[Min(h)]>>
    BY DEF matchRequestToEndpoint
  <2>2. l = eps
    BY Zenon
  <2> HIDE DEF l, eps, w
  <2> QED
    BY <2>1, <2>2
<1> QED
  BY <1>6, <1>7, Zenon

\* The first c of eps are for the request's host, the others for any host; both parts fall
\* if the lists of the tree do.
HostsFirst(tree, rq, eps, c) ==
    /\ \A i \in 1..c : eps[i].host = rq.host /\ rq.host # Empty
    /\ \A i \in c + 1..Len(eps) : eps[i].host = Empty
    /\ AllFalling(tree) =>
          \A i, j \in 1..Len(eps) : i < j /\ (j <= c \/ c < i) => eps[i].prio >= eps[j].prio

\* The candidates are a list of the request's host and one without a host.
LEMMA CandidateLists ==
    ASSUME PlainWildcards, NEW tree, TreeShape(tree), Placed(tree), NEW rq \in Requests,
           walk(tree, rq.path).end # "failed",
           NEW eps, eps = candidates(tree, walk(tree, rq.path).sn, rq)
    PROVE  \E c \in 0..Len(eps) : HostsFirst(tree, rq, eps, c)
<1> DEFINE w == walk(tree, rq.path)
           k1 == <<rq.method, rq.host>>
           k2 == <<rq.method, Empty>>
           l1 == IF rq.host = Empty THEN <<>> ELSE tree[w.sn].endpoints[k1]
           l2 == tree[w.sn].endpoints[k2]
<1>1. Clean(rq.path) /\ k1 \in EndpointKeys /\ k2 \in EndpointKeys
  BY RequestsAssumption, Zenon DEF Clean, Empty
<1>2. w.sn \in DOMAIN tree
  BY <1>1, WalkFacts DEF WalkOK
<1>3. eps = l1 \o l2
  BY Zenon DEF candidates, Empty
<1>4. \A ep : endpointKey(ep)[2] = ep.host
  BY DEF endpointKey
<1>5. k1[2] = rq.host /\ k2[2] = Empty
  OBVIOUS
<1>6. ASSUME NEW k \in EndpointKeys, NEW ep \in ToSet(tree[w.sn].endpoints[k]) PROVE ep.host = k[2]
  <2>1. endpointKey(ep) = k
    BY <1>2, Zenon DEF Placed
  <2> QED
    BY <1>4, <2>1, Zenon
<1>7. /\ tree[w.sn].endpoints[k1] \in Seq(Endpoints)
      /\ tree[w.sn].endpoints[k2] \in Seq(Endpoints)
  <2> HIDE DEF k1, k2, w
  <2> QED
    BY <1>1, <1>2 DEF TreeShape
<1>8. AllFalling(tree) => Falling(tree[w.sn].endpoints[k1]) /\ Falling(tree[w.sn].endpoints[k2])
  <2> HIDE DEF k1, k2, w
  <2> QED
    BY <1>1, <1>2, Zenon DEF AllFalling
<1>9. /\ l1 \in Seq(Endpoints) /\ l2 \in Seq(Endpoints)
      /\ \A ep \in ToSet(l1) : ep.host = rq.host /\ rq.host # Empty
      /\ \A ep \in ToSet(l2) : ep.host = Empty
      /\ AllFalling(tree) => Falling(l1) /\ Falling(l2)
  <2>1. /\ <<>> \in Seq(Endpoints) /\ ToSet(<<>>) = {} /\ Falling(<<>>)
    BY DEF ToSet, Falling
  <2>2. \A ep \in ToSet(l2) : ep.host = Empty
    BY <1>1, <1>5, <1>6, Zenon
  <2>3. \A ep \in ToSet(tree[w.sn].endpoints[k1]) : ep.host = rq.host
    BY <1>1, <1>5, <1>6, Zenon
  <2>4. l1 = <<>> \/ (l1 = tree[w.sn].endpoints[k1] /\ rq.host # Empty)
    BY Zenon
  <2> HIDE DEF k1, k2, w, l1
  <2>5. CASE l1 = <<>>
    BY <1>7, <1>8, <2>1, <2>2, <2>5
  <2>6. CASE l1 = tree[w.sn].endpoints[k1] /\ rq.host # Empty
    BY <1>7, <1>8, <2>2, <2>3, <2>6, Zenon
  <2> QED
    BY <2>4, <2>5, <2>6, Zenon
<1> DEFINE c == Len(l1)
           d == Len(l2)
<1> HIDE DEF l1, l2, k1, k2, w
<1>10. c \in Nat /\ d \in Nat /\ DOMAIN l1 = 1..c /\ DOMAIN l2 = 1..d
  BY <1>9
<1>11. Len(eps) = c + d /\ (\A i \in 1..c : eps[i] = l1[i]) /\ (\A i \in 1..d : eps[c + i] = l2[i])
  BY <1>3, <1>9
<1>12. \A i \in 1..c : l1[i] \in ToSet(l1)
  BY <1>10 DEF ToSet
<1>13. \A i \in 1..d : l2[i] \in ToSet(l2)
  BY <1>10 DEF ToSet
<1>14. /\ AllFalling(tree) => \A i, j \in 1..c : i < j => l1[i].prio >= l1[j].prio
       /\ AllFalling(tree) => \A i, j \in 1..d : i < j => l2[i].prio >= l2[j].prio
  BY <1>9, <1>10, Zenon DEF Falling
<1> HIDE DEF c, d
<1>15. \A i \in c + 1..c + d : i - c \in 1..d /\ c + (i - c) = i
  BY <1>10
<1>16. \A i \in c + 1..c + d : eps[i] = l2[i - c]
  BY <1>11, <1>15
<1>17. \A i \in c + 1..c + d : eps[i].host = Empty
  BY <1>9, <1>13, <1>15, <1>16
<1>18. \A i \in 1..c : eps[i].host = rq.host /\ rq.host # Empty
  BY <1>9, <1>11, <1>12
<1>19. ASSUME AllFalling(tree), NEW i \in 1..c + d, NEW j \in 1..c + d, i < j, j <= c \/ c < i
       PROVE  eps[i].prio >= eps[j].prio
  <2>1. CASE j <= c
    <3>1. i \in 1..c /\ j \in 1..c
      BY <1>10, <1>19, <2>1
    <3> QED
      BY <1>11, <1>14, <1>19, <3>1
  <2>2. CASE c < i
    <3>1. i \in c + 1..c + d /\ j \in c + 1..c + d /\ i - c < j - c
      BY <1>10, <1>19, <2>2
    <3>2. i - c \in 1..d /\ j - c \in 1..d /\ eps[i] = l2[i - c] /\ eps[j] = l2[j - c]
      BY <1>15, <1>16, <3>1
    <3> QED
      BY <1>14, <1>19, <3>1, <3>2
  <2> QED
    BY <1>19, <2>1, <2>2
<1>20. c \in 0..c + d
  BY <1>10
<1>21. /\ \A i \in c + 1..Len(eps) : eps[i].host = Empty
       /\ AllFalling(tree) =>
             \A i, j \in 1..Len(eps) : i < j /\ (j <= c \/ c < i) => eps[i].prio >= eps[j].prio
       /\ c \in 0..Len(eps)
  BY <1>11, <1>17, <1>19, <1>20, Zenon
<1>22. HostsFirst(tree, rq, eps, c)
  BY <1>18, <1>21, Zenon DEF HostsFirst
<1> QED
  BY <1>21, <1>22, Zenon

\* Of two endpoints that share a list, the first one has the higher priority.
LEMMA FirstIsHighest ==
    ASSUME PlainWildcards, NEW tree, NEW reg, TreeOK(tree, reg), NEW rq \in Requests,
           walk(tree, rq.path).end # "failed",
           NEW eps, eps = candidates(tree, walk(tree, rq.path).sn, rq), eps \in Seq(Endpoints),
           NEW m \in 1..Len(eps), NEW i \in 1..Len(eps), m <= i
    PROVE  /\ eps[i].host # Empty => eps[m].host # Empty
           /\ RisingPrio(reg) /\ eps[i].host = eps[m].host => eps[i].prio <= eps[m].prio
<1>1. TreeShape(tree) /\ Placed(tree) /\ (RisingPrio(reg) => AllFalling(tree))
  BY DEF TreeOK, Sorted
<1>0. PICK c \in 0..Len(eps) : HostsFirst(tree, rq, eps, c)
  BY <1>1, CandidateLists, Zenon
<1>2. /\ c \in 0..Len(eps)
      /\ \A x \in 1..c : eps[x].host = rq.host /\ rq.host # Empty
      /\ \A x \in c + 1..Len(eps) : eps[x].host = Empty
      /\ AllFalling(tree) =>
            \A x, y \in 1..Len(eps) : x < y /\ (y <= c \/ c < x) => eps[x].prio >= eps[y].prio
  BY <1>0, Zenon DEF HostsFirst
<1>3. Len(eps) \in Nat /\ eps[i].prio \in Int /\ eps[m].prio \in Int
  BY EndpointPrio
<1>4. \A x \in 1..Len(eps) : x \in 1..c \/ x \in c + 1..Len(eps)
  BY <1>2, <1>3
<1>5. \A x \in 1..c : x <= c
  BY <1>2
<1>6. \A x \in c + 1..Len(eps) : c < x
  BY <1>2, <1>3
<1>7. eps[i].host # Empty => eps[m].host # Empty
  <2> SUFFICES ASSUME eps[i].host # Empty PROVE eps[m].host # Empty
    OBVIOUS
  <2>1. i \in 1..c
    BY <1>2, <1>4
  <2>2. m \in 1..c
    BY <1>2, <1>3, <2>1
  <2> QED
    BY <1>2, <2>2
<1>8. ASSUME RisingPrio(reg), eps[i].host = eps[m].host PROVE eps[i].prio <= eps[m].prio
  <2>1. i <= c \/ c < m
    <3>1. CASE i \in 1..c
      BY <1>5, <3>1
    <3>2. CASE i \in c + 1..Len(eps)
      <4>1. eps[m].host = Empty
        BY <1>2, <1>8, <3>2
      <4>2. m \in c + 1..Len(eps)
        BY <1>2, <1>4, <4>1
      <4> QED
        BY <1>6, <4>2
    <3> QED
      BY <1>4, <3>1, <3>2
  <2>2. CASE m = i
    BY <1>3, <2>2
  <2>3. CASE m # i
    <3>1. m < i
      BY <1>3, <2>3
    <3>2. eps[m].prio >= eps[i].prio
      BY <1>1, <1>2, <1>8, <2>1, <3>1
    <3> QED
      BY <1>3, <3>2
  <2> QED
    BY <2>2, <2>3
<1> QED
  BY <1>7, <1>8

\* Of the endpoints of the node that the walk leads to one whose criteria the request
\* meets serves it, one for its host if there is one, and one of the highest priority if
\* the mock files list those that share a list by rising priority; at most one of them
\* looks at the body, which is read only once.
THEOREM HighestPrioServes == ASSUME PlainWildcards PROVE LoaderSpec => []HighestPrioServed
<1>1. LoaderInv => HighestPrioServed
  <2> SUFFICES ASSUME LoaderInv, NEW rq \in Requests, walk(EpSearchNode, rq.path).end # "failed",
                      NEW eps, eps = candidates(EpSearchNode, walk(EpSearchNode, rq.path).sn, rq),
                      Cardinality({i \in DOMAIN eps : eps[i].body # <<>>}) <= 1,
                      NEW ok, ok = {i \in DOMAIN eps : Qualifies(eps[i], rq)},
                      NEW served, served = matchRequestToEndpoint(EpSearchNode, rq).endpoint
               PROVE  /\ served = <<>> <=> ok = {}
                      /\ \A ep \in ToSet(served) :
                            /\ Qualifies(ep, rq)
                            /\ \A i \in ok :
                                  /\ eps[i].host # Empty => ep.host # Empty
                                  /\ RisingPrio(installed) /\ eps[i].host = ep.host => eps[i].prio <= ep.prio
    BY Zenon DEF HighestPrioServed, Empty
  <2>1. TreeOK(EpSearchNode, installed)
    BY DEF LoaderInv
  <2>2. TreeShape(EpSearchNode) /\ Placed(EpSearchNode)
    BY <2>1 DEF TreeOK
  <2>3. served = IF ok = {} THEN <<>> ELSE <<eps[Min(ok)]>>
    BY <2>2, FirstServed, Zenon
  <2>4. eps \in Seq(Endpoints)
    BY <2>2, CandidateFacts, Zenon
  <2>5. DOMAIN eps = 1..Len(eps) /\ ok \subseteq 1..Len(eps) /\ ok \subseteq Nat
    BY <2>4
  <2>6. CASE ok = {}
    <3>1. ToSet(<<>>) = {}
      BY DEF ToSet
    <3> QED
      BY <2>3, <2>6, <3>1, Zenon
  <2>7. CASE ok # {}
    <3> DEFINE m == Min(ok)
    <3>1. m \in ok /\ \A y \in ok : m <= y
      BY <2>5, <2>7, LeastNat DEF Min
    <3> HIDE DEF m
    <3>2. served = <<eps[m]>>
      BY <2>3, <2>7, Zenon DEF m
    <3>3. served # <<>> /\ ToSet(served) = {eps[m]}
      BY <3>2 DEF ToSet
    <3>4. Qualifies(eps[m], rq)
      BY <3>1, Zenon
    <3>5. ASSUME NEW i \in ok
          PROVE  /\ eps[i].host # Empty => eps[m].host # Empty
                 /\ RisingPrio(installed) /\ eps[i].host = eps[m].host => eps[i].prio <= eps[m].prio
      <4>1. m \in 1..Len(eps) /\ i \in 1..Len(eps) /\ m <= i
        BY <2>5, <3>1, Zenon
      <4> QED
        BY <2>1, <2>4, <4>1, FirstIsHighest, Zenon
    <3> QED
      BY <2>7, <3>3, <3>4, <3>5, Zenon
  <2> QED
    BY <2>6, <2>7, Zenon
<1> QED
  BY <1>1, LoaderInvariant, PTL

-----------------------------------------------------------------------------
(* An endpoint without wildcards. *)

\* The state after i segments have each led to the child of their own name.
LiteralState(p, i, st) ==
    /\ st = [f \in StateNames |-> st[f]]
    /\ st.sn = SubSeq(p, 1, i) /\ st.pos = i + 1 /\ st.allMatch = FALSE /\ st.end = Empty

\* The next segment of such a path.
LEMMA LiteralStep ==
    ASSUME NEW tree, NEW S, NEW p \in Seq(S), Prefixes(p) \subseteq DOMAIN tree,
           NEW i \in Nat, i + 1 <= Len(p), NEW st, LiteralState(p, i, st)
    PROVE  LiteralState(p, i + 1, walkStep(tree, p, st))
<1> DEFINE r == walkStep(tree, p, st)
           sn == st.sn
           hits == {j \in st.pos..Len(p) : p[j] # Empty /\ HasChild(tree, sn, p[j])}
           exhausted == st.allMatch /\ hits = {}
           pos == IF st.allMatch /\ hits # {} THEN Min(hits) ELSE st.pos
           segment == IF exhausted THEN Empty ELSE getPathSegment(p, pos - 1)
           keys == childKeys(segment)
           found == {j \in DOMAIN keys : HasChild(tree, sn, keys[j])}
           key == keys[Min(found)]
           via(wildcard) == key = wildcard /\ segment # wildcard
           child == Append(sn, key)
           params == IF via("*") THEN bind(st.params, tree[child].pathParamName, segment) ELSE st.params
<1>1. r = IF IsLeaf(tree, sn) THEN [st EXCEPT !.end = leafEnd(st.allMatch)]
          ELSE IF found = {} THEN [st EXCEPT !.end = "failed"]
          ELSE [st EXCEPT !.sn = child, !.pos = pos + 1, !.allMatch = via("**"), !.params = params]
  BY Zenon DEF walkStep, Empty
<1>2. /\ st = [f \in StateNames |-> st[f]]
      /\ st.sn = SubSeq(p, 1, i) /\ st.pos = i + 1 /\ st.allMatch = FALSE /\ st.end = Empty
  BY DEF LiteralState
<1>3. pos = i + 1 /\ ~exhausted
  BY <1>2, Zenon
<1> HIDE DEF hits, exhausted, pos
<1>4. Len(p) \in Nat /\ i + 1 \in 1..Len(p) /\ i \in 0..Len(p) /\ i + 1 \in 0..Len(p)
  OBVIOUS
<1>5. segment = p[i + 1]
  <2>1. segment = getPathSegment(p, pos - 1)
    BY <1>3, Zenon
  <2>2. pos - 1 = i /\ i < Len(p)
    BY <1>3, <1>4
  <2> QED
    BY <2>1, <2>2, Zenon DEF getPathSegment
<1> HIDE DEF segment
<1>6. Len(sn) = i /\ sn \in Seq(S) /\ \A j \in 1..i : sn[j] = p[j]
  <2> DEFINE sub == SubSeq(p, 1, i)
  <2>1. sub \in Seq(S) /\ Len(sub) = i /\ \A j \in 1..i : sub[j] = p[j]
    BY <1>4, SubSeqProperties
  <2>2. sn = sub
    BY <1>2
  <2> HIDE DEF sn, sub
  <2> QED
    BY <2>1, <2>2
<1>7. Append(sn, p[i + 1]) = SubSeq(p, 1, i + 1) /\ Len(SubSeq(p, 1, i + 1)) = i + 1
  <2> DEFINE new == Append(sn, p[i + 1])
             sub == SubSeq(p, 1, i + 1)
  <2>1. p[i + 1] \in S
    BY <1>4
  <2> HIDE DEF sn
  <2>2. new \in Seq(S) /\ Len(new) = i + 1 /\ new[i + 1] = p[i + 1] /\ \A j \in 1..i : new[j] = p[j]
    BY <1>6, <2>1, ToSetFacts
  <2>3. sub \in Seq(S) /\ Len(sub) = i + 1 /\ \A j \in 1..i + 1 : sub[j] = p[j]
    BY <1>4, SubSeqProperties
  <2> HIDE DEF new, sub
  <2>4. \A j \in 1..i + 1 : new[j] = sub[j]
    <3>1. \A j \in 1..i + 1 : j \in 1..i \/ j = i + 1
      OBVIOUS
    <3> QED
      BY <2>2, <2>3, <3>1
  <2>5. new = sub
    BY <2>2, <2>3, <2>4
  <2> QED
    BY <2>3, <2>5 DEF new, sub
<1>8. SubSeq(p, 1, i + 1) \in DOMAIN tree
  <2>1. SubSeq(p, 1, i + 1) \in Prefixes(p)
    BY <1>4 DEF Prefixes
  <2> QED
    BY <2>1
<1>9. HasChild(tree, sn, segment)
  BY <1>5, <1>7, <1>8, Zenon DEF HasChild
<1>10. keys = <<segment, "*", "**">> /\ DOMAIN keys = 1..3 /\ keys[1] = segment
  BY DEF childKeys
<1>11. Min(found) = 1 /\ found # {}
  <2>1. 1 \in found /\ found \subseteq 1..3
    <3>1. 1 \in DOMAIN keys /\ HasChild(tree, sn, keys[1])
      <4>1. 1 \in 1..3
        OBVIOUS
      <4> HIDE DEF keys, sn
      <4> QED
        BY <1>9, <1>10, <4>1
    <3>2. found \subseteq DOMAIN keys
      BY Zenon
    <3> HIDE DEF keys
    <3> QED
      BY <1>10, <3>1, <3>2
  <2> HIDE DEF found
  <2>2. Min(found) \in found /\ \A x \in found : Min(found) <= x
    <3>1. found # {} /\ found \subseteq Nat
      BY <2>1
    <3> QED
      BY <3>1, LeastNat DEF Min
  <2> DEFINE least == Min(found)
  <2>3. least \in 1..3 /\ least <= 1
    BY <2>1, <2>2, Zenon
  <2> HIDE DEF least
  <2>4. least = 1
    BY <2>3
  <2> QED
    BY <2>1, <2>4 DEF least
<1>12. key = segment
  <2> HIDE DEF found, keys
  <2> QED
    BY <1>10, <1>11
<1> HIDE DEF found, key
<1>13. child = SubSeq(p, 1, i + 1) /\ ~via("**")
  BY <1>5, <1>7, <1>12, Zenon
<1>14. ~IsLeaf(tree, sn)
  <2> DEFINE n == SubSeq(p, 1, i + 1)
  <2>1. n \in DOMAIN tree /\ Len(n) = Len(sn) + 1
    BY <1>6, <1>7, <1>8
  <2>2. IsPrefix(sn, n)
    <3>1. n \in Seq(S) /\ Len(n) = i + 1 /\ \A j \in 1..i : n[j] = sn[j]
      <4>1. n \in Seq(S) /\ Len(n) = i + 1 /\ \A j \in 1..i + 1 : n[j] = p[j]
        BY <1>4, SubSeqProperties
      <4> HIDE DEF n, sn
      <4> QED
        BY <1>6, <4>1
    <3> HIDE DEF n, sn
    <3>2. SubSeq(sn, 1, i) = SubSeq(n, 1, i)
      <4> DEFINE a == SubSeq(sn, 1, i)
                 b == SubSeq(n, 1, i)
      <4>1. /\ a \in Seq(S) /\ Len(a) = i /\ \A j \in 1..i : a[j] = sn[j]
            /\ b \in Seq(S) /\ Len(b) = i /\ \A j \in 1..i : b[j] = n[j]
        BY <1>6, <3>1, SubSeqProperties
      <4> HIDE DEF a, b
      <4>2. a = b
        BY <3>1, <4>1
      <4> QED
        BY <4>2 DEF a, b
    <3>3. Len(sn) <= Len(n)
      BY <1>6, <3>1
    <3> QED
      BY <1>6, <3>2, <3>3 DEF IsPrefix
  <2> QED
    BY <2>1, <2>2, Zenon DEF IsLeaf
<1>15. r = [st EXCEPT !.sn = child, !.pos = pos + 1, !.allMatch = via("**"), !.params = params]
  BY <1>1, <1>11, <1>14, Zenon
<1>16. /\ r = [f \in StateNames |-> r[f]] /\ r.end = Empty
       /\ r.sn = child /\ r.pos = pos + 1 /\ r.allMatch = via("**")
  <2> HIDE DEF params, child, via, r
  <2> QED
    BY <1>2, <1>15 DEF StateNames
<1>17. r.allMatch = FALSE
  <2> HIDE DEF r
  <2> QED
    BY <1>13, <1>16, Zenon
<1>18. r.pos = (i + 1) + 1
  BY <1>3, <1>16
<1> QED
  BY <1>13, <1>16, <1>17, <1>18, Zenon DEF LiteralState

\* The walk along a path without wildcards ends at its node.
LEMMA LiteralWalk ==
    ASSUME NEW tree, NEW S, NEW p \in Seq(S), Prefixes(p) \subseteq DOMAIN tree,
           \A i \in 1..Len(p) : p[i] # Empty
    PROVE  walk(tree, p).end = Empty /\ walk(tree, p).sn = p
<1> DEFINE m == Len(p)
<1>1. m \in Nat
  OBVIOUS
<1>2. PICK after : /\ after[0] = walkStart
                   /\ \A i \in 1..m : after[i] = Iteration(tree, p, after[i - 1])
                   /\ walk(tree, p) = after[m]
  BY <1>1, WalkRecursion
<1> DEFINE K == {i \in Nat : i <= m => LiteralState(p, i, after[i])}
<1>3. 0 \in K
  <2> DEFINE st == after[0]
  <2>1. st = [sn |-> <<>>, pos |-> 1, allMatch |-> FALSE, end |-> Empty, params |-> <<>>]
    BY <1>2, Zenon DEF walkStart, Empty
  <2> HIDE DEF st
  <2>2. /\ st = [f \in StateNames |-> st[f]] /\ st.end = Empty /\ st.sn = <<>> /\ st.pos = 0 + 1
        /\ st.allMatch = FALSE
    BY <2>1 DEF StateNames
  <2>3. SubSeq(p, 1, 0) = <<>>
    OBVIOUS
  <2>4. LiteralState(p, 0, st)
    BY <2>2, <2>3, Zenon DEF LiteralState
  <2> QED
    BY <2>4 DEF st
<1>4. ASSUME NEW i \in Nat, i \in K PROVE i + 1 \in K
  <2> SUFFICES ASSUME i + 1 <= m PROVE LiteralState(p, i + 1, after[i + 1])
    OBVIOUS
  <2>1. LiteralState(p, i, after[i])
    BY <1>1, <1>4
  <2>2. after[i + 1] = Iteration(tree, p, after[i])
    <3>1. i + 1 \in 1..m /\ (i + 1) - 1 = i
      BY <1>1
    <3> QED
      BY <1>2, <3>1
  <2>3. after[i].end = Empty /\ after[i].pos = i + 1
    BY <2>1, Zenon DEF LiteralState
  <2>4. getPathSegment(p, after[i].pos - 1) # Empty
    <3>1. after[i].pos - 1 = i /\ i < m /\ i + 1 \in 1..m
      BY <1>1, <2>3
    <3>2. getPathSegment(p, i) = p[i + 1]
      BY <3>1, Zenon DEF getPathSegment
    <3> QED
      BY <3>1, <3>2
  <2>5. after[i + 1] = walkStep(tree, p, after[i])
    BY <2>2, <2>3, <2>4, Zenon DEF Iteration, Empty
  <2> QED
    BY <2>1, <2>5, LiteralStep
<1>5. m \in K
  <2> HIDE DEF K
  <2> QED
    BY <1>1, <1>3, <1>4, SetInduction
<1>6. LiteralState(p, m, walk(tree, p))
  BY <1>1, <1>2, <1>5
<1>7. SubSeq(p, 1, m) = p
  OBVIOUS
<1> QED
  BY <1>6, <1>7, Zenon DEF LiteralState

\* Whatever the wildcards of other endpoints, the walk along the path of an endpoint
\* without wildcards ends at the endpoint's node.
THEOREM LiteralsAreReached == LoaderSpec => []LiteralReached
<1>1. ASSUME LoaderInv,
             NEW ep \in ToSet(installed),
             \A s \in ToSet(ep.path) : segmentKey(s) \notin {"", "*", "**"}
      PROVE  LET w == walk(EpSearchNode, ep.path) IN w.end # "failed" /\ w.sn = nodeOf(ep)
  <2> DEFINE p == ep.path
             node == nodeOf(ep)
  <2>1. /\ TreeShape(EpSearchNode) /\ Placed(EpSearchNode)
        /\ installed \in Seq(Endpoints) /\ EndpointsOf(EpSearchNode) = ToSet(installed)
    BY <1>1 DEF LoaderInv, TreeOK, Holding
  <2>2. ep \in Endpoints
    BY <2>1 DEF ToSet
  <2>3. /\ p \in Seq(PathSegments) /\ node \in Seq(NodeKeys) /\ Len(node) = Len(p)
        /\ \A i \in 1..Len(p) : node[i] = segmentKey(p[i])
    BY <2>2, EndpointFacts
  <2>4. \A s \in ToSet(p) : segmentKey(s) # Empty /\ segmentKey(s) # "*"
    BY <1>1, Zenon DEF Empty
  <2>5. \A i \in 1..Len(p) : p[i] \in ToSet(p)
    <3> HIDE DEF p
    <3> QED
      BY <2>3 DEF ToSet
  <2> HIDE DEF p, node
  <2>6. \A i \in 1..Len(p) : node[i] = p[i] /\ p[i] # Empty
    BY <2>3, <2>4, <2>5, SpecialKeys, Zenon
  <2>7. node = p
    BY <2>3, <2>6
  <2>8. PICK n \in DOMAIN EpSearchNode : \E k \in EndpointKeys : ep \in ToSet(EpSearchNode[n].endpoints[k])
    <3>1. ep \in EndpointsOf(EpSearchNode)
      BY <2>1
    <3> QED
      BY <3>1 DEF EndpointsOf
  <2>9. node \in DOMAIN EpSearchNode
    BY <2>1, <2>8, Zenon DEF Placed, node
  <2>10. Prefixes(p) \subseteq DOMAIN EpSearchNode
    BY <2>1, <2>7, <2>9 DEF TreeShape
  <2>11. walk(EpSearchNode, p).end = Empty /\ walk(EpSearchNode, p).sn = p
    BY <2>3, <2>6, <2>10, LiteralWalk
  <2>12. Empty # "failed"
    BY Zenon DEF Empty
  <2> QED
    BY <2>7, <2>11, <2>12 DEF p, node
<1>2. LoaderInv => LiteralReached
  BY <1>1, Zenon DEF LiteralReached
<1> QED
  BY <1>2, LoaderInvariant, PTL

-----------------------------------------------------------------------------
(* An endpoint that is alone. *)

\* No request has a segment that is literally "**", which would be taken for the name of
\* the wildcard's own child.
PlainRequests == \A rq \in Requests : \A i \in 1..Len(rq.path) : rq.path[i] # "**"

\* The state after i segments in a tree that is the way to one node.
PathState(node, i, st) ==
    /\ st = [f \in StateNames |-> st[f]]
    /\ st.sn = SubSeq(node, 1, i) /\ st.pos = i + 1 /\ st.end = Empty
    /\ i < Len(node) => st.allMatch = FALSE
    /\ i # 0 /\ node[i] = "**" => st.allMatch = TRUE

\* The nodes on the way, and their only children.
LEMMA WayFacts ==
    ASSUME NEW S, NEW node \in Seq(S), NEW i \in Nat, i + 1 <= Len(node)
    PROVE  /\ SubSeq(node, 1, i) \in Seq(S) /\ Len(SubSeq(node, 1, i)) = i
           /\ SubSeq(node, 1, i + 1) \in Seq(S) /\ Len(SubSeq(node, 1, i + 1)) = i + 1
           /\ \A j \in 1..i : SubSeq(node, 1, i)[j] = node[j]
           /\ \A j \in 1..i + 1 : SubSeq(node, 1, i + 1)[j] = node[j]
           /\ Append(SubSeq(node, 1, i), node[i + 1]) = SubSeq(node, 1, i + 1)
           /\ \A k : Append(SubSeq(node, 1, i), k) \in Prefixes(node) => k = node[i + 1]
           /\ SubSeq(node, 1, i + 1) \in Prefixes(node)
           /\ IsPrefix(SubSeq(node, 1, i), SubSeq(node, 1, i + 1))
<1> DEFINE sn == SubSeq(node, 1, i)
           sub == SubSeq(node, 1, i + 1)
           new == Append(sn, node[i + 1])
<1>1. Len(node) \in Nat /\ i + 1 \in 1..Len(node) /\ i \in 0..Len(node) /\ i + 1 \in 0..Len(node) /\ node[i + 1] \in S
  OBVIOUS
<1>2. sn \in Seq(S) /\ Len(sn) = i /\ \A j \in 1..i : sn[j] = node[j]
  BY <1>1, SubSeqProperties
<1>3. sub \in Seq(S) /\ Len(sub) = i + 1 /\ \A j \in 1..i + 1 : sub[j] = node[j]
  BY <1>1, SubSeqProperties
<1> HIDE DEF sn, sub
<1>4. new \in Seq(S) /\ Len(new) = i + 1 /\ new[i + 1] = node[i + 1] /\ \A j \in 1..i : new[j] = node[j]
  BY <1>1, <1>2, ToSetFacts
<1> HIDE DEF new
<1>5. new = sub
  <2>1. \A j \in 1..i + 1 : new[j] = sub[j]
    <3>1. \A j \in 1..i + 1 : j \in 1..i \/ j = i + 1
      OBVIOUS
    <3> QED
      BY <1>3, <1>4, <3>1
  <2> QED
    BY <1>3, <1>4, <2>1
<1>6. sub \in Prefixes(node)
  BY <1>1 DEF Prefixes, sub
<1>7. ASSUME NEW k, Append(sn, k) \in Prefixes(node) PROVE k = node[i + 1]
  <2> DEFINE T == S \cup {k}
             x == Append(sn, k)
  <2>1. sn \in Seq(T) /\ k \in T
    BY <1>2
  <2>2. Len(x) = i + 1 /\ x[i + 1] = k
    <3> HIDE DEF T
    <3> QED
      BY <1>2, <2>1, ToSetFacts
  <2> HIDE DEF x
  <2>3. PICK l \in 0..Len(node) : x = SubSeq(node, 1, l)
    BY <1>7 DEF Prefixes, x
  <2>4. Len(SubSeq(node, 1, l)) = l /\ \A j \in 1..l : SubSeq(node, 1, l)[j] = node[j]
    BY <1>1, SubSeqProperties
  <2>5. l = i + 1 /\ i + 1 \in 1..l
    BY <2>2, <2>3, <2>4
  <2> QED
    BY <2>2, <2>3, <2>4, <2>5
<1>8. IsPrefix(sn, sub)
  <2> DEFINE a == SubSeq(sn, 1, i)
             b == SubSeq(sub, 1, i)
  <2>1. /\ a \in Seq(S) /\ Len(a) = i /\ \A j \in 1..i : a[j] = sn[j]
        /\ b \in Seq(S) /\ Len(b) = i /\ \A j \in 1..i : b[j] = sub[j]
    BY <1>2, <1>3, SubSeqProperties
  <2> HIDE DEF a, b
  <2>2. \A j \in 1..i : j \in 1..i + 1
    OBVIOUS
  <2>3. a = b
    BY <1>2, <1>3, <2>1, <2>2
  <2>4. Len(sn) <= Len(sub)
    BY <1>2, <1>3
  <2> QED
    BY <1>2, <2>3, <2>4 DEF IsPrefix, a, b
<1> QED
  BY <1>2, <1>3, <1>5, <1>6, <1>7, <1>8 DEF sn, sub, new

\* One iteration in such a tree.
LEMMA PathStep ==
    ASSUME NEW S, NEW node \in Seq(S), NEW tree, DOMAIN tree = Prefixes(node),
           NEW path, NEW i \in Nat, i + 1 <= Len(node),
           getPathSegment(path, i) = path[i + 1], path[i + 1] # "**",
           node[i + 1] \in {path[i + 1], "*", "**"},
           i + 1 < Len(node) => node[i + 1] # "**",
           NEW st, PathState(node, i, st)
    PROVE  PathState(node, i + 1, walkStep(tree, path, st))
<1> DEFINE r == walkStep(tree, path, st)
           sn == st.sn
           hits == {j \in st.pos..Len(path) : path[j] # Empty /\ HasChild(tree, sn, path[j])}
           exhausted == st.allMatch /\ hits = {}
           pos == IF st.allMatch /\ hits # {} THEN Min(hits) ELSE st.pos
           segment == IF exhausted THEN Empty ELSE getPathSegment(path, pos - 1)
           keys == childKeys(segment)
           found == {j \in DOMAIN keys : HasChild(tree, sn, keys[j])}
           key == keys[Min(found)]
           via(wildcard) == key = wildcard /\ segment # wildcard
           child == Append(sn, key)
           params == IF via("*") THEN bind(st.params, tree[child].pathParamName, segment) ELSE st.params
<1>1. r = IF IsLeaf(tree, sn) THEN [st EXCEPT !.end = leafEnd(st.allMatch)]
          ELSE IF found = {} THEN [st EXCEPT !.end = "failed"]
          ELSE [st EXCEPT !.sn = child, !.pos = pos + 1, !.allMatch = via("**"), !.params = params]
  BY Zenon DEF walkStep, Empty
<1>2. i < Len(node)
  OBVIOUS
<1>3. /\ st = [f \in StateNames |-> st[f]]
      /\ sn = SubSeq(node, 1, i) /\ st.pos = i + 1 /\ st.allMatch = FALSE /\ st.end = Empty
  BY <1>2, Zenon DEF PathState
<1>4. pos = i + 1 /\ ~exhausted
  BY <1>3, Zenon
<1> HIDE DEF hits, exhausted, pos
<1>5. segment = path[i + 1]
  <2>1. segment = getPathSegment(path, pos - 1)
    BY <1>4, Zenon
  <2>2. pos - 1 = i
    BY <1>4
  <2> QED
    BY <2>1, <2>2, Zenon
<1> HIDE DEF segment
<1>6. /\ Len(sn) = i /\ Append(sn, node[i + 1]) = SubSeq(node, 1, i + 1)
      /\ \A k : Append(sn, k) \in DOMAIN tree => k = node[i + 1]
      /\ SubSeq(node, 1, i + 1) \in DOMAIN tree /\ Len(SubSeq(node, 1, i + 1)) = i + 1
      /\ IsPrefix(sn, SubSeq(node, 1, i + 1))
  <2> HIDE DEF sn
  <2> QED
    BY <1>3, WayFacts
<1>7. \A k : HasChild(tree, sn, k) <=> k = node[i + 1]
  BY <1>6, Zenon DEF HasChild
<1> HIDE DEF sn
<1>8. keys = <<segment, "*", "**">> /\ DOMAIN keys = 1..3
  BY DEF childKeys
<1>9. found # {} /\ \A j \in found : keys[j] = node[i + 1]
  <2>1. /\ 1 \in DOMAIN keys /\ 2 \in DOMAIN keys /\ 3 \in DOMAIN keys
        /\ keys[1] = path[i + 1] /\ keys[2] = "*" /\ keys[3] = "**"
    BY <1>5, <1>8
  <2> HIDE DEF keys
  <2>2. \E j \in DOMAIN keys : keys[j] = node[i + 1]
    BY <2>1
  <2> QED
    BY <1>7, <2>2, Zenon
<1>10. key = node[i + 1]
  <2>1. found \subseteq DOMAIN keys
    BY Zenon
  <2> HIDE DEF found, keys
  <2>2. found # {} /\ found \subseteq Nat
    BY <1>8, <1>9, <2>1
  <2>3. Min(found) \in found
    BY <2>2, LeastNat DEF Min
  <2> QED
    BY <1>9, <2>3, Zenon
<1> HIDE DEF found, key
<1>11. child = SubSeq(node, 1, i + 1)
  BY <1>6, <1>10, Zenon
<1>12. /\ i + 1 < Len(node) => via("**") = FALSE
       /\ node[i + 1] = "**" => via("**") = TRUE
  <2>1. i + 1 < Len(node) => ~via("**")
    BY <1>10, Zenon
  <2>2. node[i + 1] = "**" => via("**")
    BY <1>5, <1>10, Zenon
  <2> QED
    BY <2>1, <2>2, Zenon
<1>13. ~IsLeaf(tree, sn)
  <2>1. Len(SubSeq(node, 1, i + 1)) = Len(sn) + 1
    BY <1>6, Zenon
  <2> QED
    BY <1>6, <2>1, Zenon DEF IsLeaf
<1>14. r = [st EXCEPT !.sn = child, !.pos = pos + 1, !.allMatch = via("**"), !.params = params]
  BY <1>1, <1>9, <1>13, Zenon
<1>15. /\ r = [f \in StateNames |-> r[f]] /\ r.end = Empty
       /\ r.sn = child /\ r.pos = pos + 1 /\ r.allMatch = via("**")
  <2> HIDE DEF params, child, via, r
  <2> QED
    BY <1>3, <1>14 DEF StateNames
<1>16. r.pos = (i + 1) + 1
  BY <1>4, <1>15
<1> HIDE DEF via, r, child
<1>17. PathState(node, i + 1, r)
  BY <1>11, <1>12, <1>15, <1>16, Zenon DEF PathState
<1> QED
  BY <1>17 DEF r

\* A path that fits a pattern without "**" before its end fits it segment by segment.
LEMMA FitsFacts ==
    ASSUME NEW pattern, Len(pattern) \in Nat, NEW path, PathLength(path) \in Nat, Fits(pattern, path),
           \A i \in 1..Len(pattern) - 1 : pattern[i] # "**"
    PROVE  LET m == Len(pattern)
               n == PathLength(path)
           IN  /\ m <= n
               /\ \A i \in 1..m : pattern[i] # "**" => segmentKey(pattern[i]) \in {"*", path[i]}
               /\ n = m \/ (m # 0 /\ pattern[m] = "**")
<1> DEFINE m == Len(pattern)
           n == PathLength(path)
<1>1. PICK start \in [1..m + 1 -> 1..n + 1] :
         /\ start[1] = 1 /\ start[m + 1] = n + 1
         /\ \A i \in 1..m :
               /\ start[i] < start[i + 1]
               /\ pattern[i] # "**" => /\ start[i + 1] = start[i] + 1
                                       /\ segmentKey(pattern[i]) \in {"*", path[start[i]]}
  BY Zenon DEF Fits
<1> HIDE DEF m, n
<1>2. m \in Nat /\ n \in Nat
  BY DEF m, n
<1>3. \A i \in 1..m - 1 : pattern[i] # "**"
  BY DEF m
<1> DEFINE K == {i \in Nat : i + 1 <= m => start[i + 1] = i + 1}
<1>4. 0 \in K
  BY <1>1
<1>5. ASSUME NEW i \in Nat, i \in K PROVE i + 1 \in K
  <2> SUFFICES ASSUME (i + 1) + 1 <= m PROVE start[(i + 1) + 1] = (i + 1) + 1
    OBVIOUS
  <2>1. start[i + 1] = i + 1
    BY <1>2, <1>5
  <2>2. i + 1 \in 1..m /\ i + 1 \in 1..m - 1
    BY <1>2
  <2>3. start[(i + 1) + 1] = start[i + 1] + 1
    BY <1>1, <1>3, <2>2, Zenon
  <2> QED
    BY <2>1, <2>3
<1>6. Nat \subseteq K
  <2> HIDE DEF K
  <2> QED
    BY <1>4, <1>5, SetInduction
<1>7. ASSUME NEW i \in 1..m PROVE start[i] = i
  <2>1. i - 1 \in Nat /\ (i - 1) + 1 = i /\ i <= m
    BY <1>2
  <2>2. i - 1 \in K
    BY <1>6, <2>1
  <2> QED
    BY <2>1, <2>2
<1>8. m <= n /\ (n = m \/ (m # 0 /\ pattern[m] = "**"))
  <2>1. CASE m = 0
    BY <1>1, <1>2, <2>1
  <2>2. CASE m # 0
    <3>1. m \in 1..m /\ start[m] = m
      BY <1>2, <1>7, <2>2
    <3>2. m < n + 1 /\ (pattern[m] # "**" => n + 1 = m + 1)
      BY <1>1, <3>1
    <3>3. m <= n /\ (n + 1 = m + 1 => n = m)
      BY <1>2, <3>2
    <3> QED
      BY <2>2, <3>2, <3>3, Zenon
  <2> QED
    BY <2>1, <2>2
<1>9. \A i \in 1..m : pattern[i] # "**" => segmentKey(pattern[i]) \in {"*", path[i]}
  BY <1>1, <1>7
<1> QED
  BY <1>8, <1>9 DEF m, n

\* The walk through a tree that is the way to one endpoint reaches it with every path
\* that fits.
LEMMA PathWalk ==
    ASSUME NEW ep \in Endpoints, NEW tree, DOMAIN tree = Prefixes(nodeOf(ep)),
           \A i \in 1..Len(ep.path) - 1 : ep.path[i] # "**",
           NEW path, Clean(path), \A i \in 1..Len(path) : path[i] # "**", Fits(ep.path, path)
    PROVE  walk(tree, path).end # "failed" /\ walk(tree, path).sn = nodeOf(ep)
<1> DEFINE node == nodeOf(ep)
           m == Len(ep.path)
           n == PathLength(path)
           L == Len(path)
<1>1. /\ n \in Nat /\ n <= L /\ L \in Nat
      /\ \A i \in 1..n : path[i] # Empty /\ getPathSegment(path, i - 1) = path[i]
      /\ getPathSegment(path, n) = Empty
  BY SegmentFacts
<1>2. /\ m \in Nat /\ node \in Seq(NodeKeys) /\ Len(node) = m
      /\ \A i \in 1..m : node[i] = segmentKey(ep.path[i])
  BY EndpointFacts
<1>3. /\ m <= n
      /\ \A i \in 1..m : ep.path[i] # "**" => segmentKey(ep.path[i]) \in {"*", path[i]}
      /\ n = m \/ (m # 0 /\ ep.path[m] = "**")
  BY <1>1, <1>2, FitsFacts
<1>4. segmentKey("**") = "**"
  BY ParamNameAssumption DEF segmentKey
<1>5. /\ \A i \in 1..m : node[i] \in {path[i], "*", "**"}
      /\ \A i \in 1..m - 1 : node[i] # "**"
      /\ n = m \/ (m # 0 /\ node[m] = "**")
  <2>1. ASSUME NEW i \in 1..m PROVE node[i] \in {path[i], "*", "**"}
    <3>1. CASE ep.path[i] = "**"
      BY <1>2, <1>4, <3>1
    <3>2. CASE ep.path[i] # "**"
      BY <1>2, <1>3, <3>2
    <3> QED
      BY <3>1, <3>2
  <2>2. ASSUME NEW i \in 1..m - 1 PROVE node[i] # "**"
    <3>1. i \in 1..m
      BY <1>2
    <3> QED
      BY <1>2, <3>1, SpecialKeys
  <2>3. m # 0 => m \in 1..m
    BY <1>2
  <2>4. m # 0 /\ ep.path[m] = "**" => node[m] = "**"
    BY <1>2, <1>4, <2>3
  <2> QED
    BY <1>3, <2>1, <2>2, <2>4
<1>6. PICK after : /\ after[0] = walkStart
                   /\ \A i \in 1..L : after[i] = Iteration(tree, path, after[i - 1])
                   /\ walk(tree, path) = after[L]
  BY <1>1, WalkRecursion
<1> DEFINE Settled(st) ==
               st.sn = node /\ (st.end = "found" \/ (st.end = Empty /\ getPathSegment(path, st.pos - 1) = Empty))
           Q(i) == (i <= m => PathState(node, i, after[i])) /\ (i > m => Settled(after[i]))
           K == {i \in Nat : i <= L => Q(i)}
<1> HIDE DEF node, m, n, L
<1>7. Q(0)
  <2> DEFINE st == after[0]
  <2>1. st = [sn |-> <<>>, pos |-> 1, allMatch |-> FALSE, end |-> Empty, params |-> <<>>]
    BY <1>6, Zenon DEF walkStart, Empty
  <2> HIDE DEF st
  <2>2. /\ st = [f \in StateNames |-> st[f]] /\ st.end = Empty /\ st.sn = <<>> /\ st.pos = 0 + 1
        /\ st.allMatch = FALSE
    BY <2>1 DEF StateNames
  <2>3. SubSeq(node, 1, 0) = <<>>
    BY <1>2
  <2>4. PathState(node, 0, st)
    BY <2>2, <2>3, Zenon DEF PathState
  <2>5. ~(0 > m)
    BY <1>2
  <2> QED
    BY <2>4, <2>5, Zenon DEF st
<1>8. ASSUME NEW i \in Nat, i + 1 <= L, Q(i) PROVE Q(i + 1)
  <2> DEFINE st == after[i]
             r == after[i + 1]
  <2>1. r = Iteration(tree, path, st)
    <3>1. i + 1 \in 1..L /\ (i + 1) - 1 = i
      BY <1>1, <1>8
    <3> QED
      BY <1>6, <3>1
  <2>2. r = IF st.end # Empty \/ getPathSegment(path, st.pos - 1) = Empty THEN st
            ELSE walkStep(tree, path, st)
    BY <2>1, Zenon DEF Iteration, Empty
  <2> HIDE DEF st, r
  <2>3. CASE i + 1 <= m
    <3>1. /\ i + 1 \in 1..n /\ (i + 1) - 1 = i /\ i + 1 \in 1..m /\ i <= m /\ ~(i + 1 > m)
          /\ i + 1 < m => i + 1 \in 1..m - 1
      BY <1>1, <1>2, <1>3, <2>3
    <3>2. PathState(node, i, st)
      BY <1>8, <3>1, Zenon DEF st
    <3>3. getPathSegment(path, i) = path[i + 1] /\ path[i + 1] # Empty
      BY <1>1, <3>1
    <3>4. st.end = Empty /\ st.pos - 1 = i
      <4>1. st.end = Empty /\ st.pos = i + 1
        BY <3>2, Zenon DEF PathState
      <4> QED
        BY <4>1
    <3>5. r = walkStep(tree, path, st)
      BY <2>2, <3>3, <3>4, Zenon
    <3>6. path[i + 1] # "**" /\ node[i + 1] \in {path[i + 1], "*", "**"} /\ (i + 1 < m => node[i + 1] # "**")
      <4>1. i + 1 \in 1..L
        BY <1>1, <3>1
      <4> QED
        BY <1>5, <3>1, <4>1, Zenon DEF L
    <3>7. i + 1 <= Len(node) /\ (i + 1 < Len(node) => node[i + 1] # "**") /\ DOMAIN tree = Prefixes(node)
      BY <1>2, <2>3, <3>6 DEF node
    <3>8. PathState(node, i + 1, walkStep(tree, path, st))
      BY <1>2, <3>2, <3>3, <3>6, <3>7, PathStep
    <3> QED
      BY <3>1, <3>5, <3>8, Zenon DEF r
  <2>4. CASE i = m
    <3>1. i <= m /\ i + 1 > m /\ ~(i + 1 <= m)
      BY <1>2, <2>4
    <3>2. PathState(node, m, st)
      BY <1>8, <2>4, <3>1, Zenon DEF st
    <3>3. /\ st = [f \in StateNames |-> st[f]] /\ st.end = Empty /\ st.pos = m + 1 /\ st.sn = SubSeq(node, 1, m)
          /\ m # 0 /\ node[m] = "**" => st.allMatch = TRUE
      BY <3>2, Zenon DEF PathState
    <3>4. st.sn = node /\ st.pos - 1 = m
      <4>1. SubSeq(node, 1, m) = node
        BY <1>2
      <4>2. st.sn = node
        BY <3>3, <4>1, Zenon
      <4>3. st.pos = m + 1
        BY <3>3, Zenon
      <4>4. (m + 1) - 1 = m
        BY <1>2
      <4> QED
        BY <4>2, <4>3, <4>4, Zenon
    <3>5. CASE n = m
      <4>1. getPathSegment(path, st.pos - 1) = Empty
        BY <1>1, <3>4, <3>5, Zenon
      <4>2. r = st
        BY <2>2, <4>1, Zenon
      <4> QED
        BY <3>1, <3>3, <3>4, <4>1, <4>2, Zenon DEF r
    <3>6. CASE n # m
      <4>1. IsLeaf(tree, node)
        <5>1. \A x \in Prefixes(node) : Len(x) # Len(node) + 1
          <6>1. \A l \in 0..m : Len(SubSeq(node, 1, l)) = l
            BY <1>2, SubSeqProperties
          <6> QED
            BY <1>2, <6>1 DEF Prefixes
        <5>2. DOMAIN tree = Prefixes(node)
          BY DEF node
        <5> QED
          BY <5>1, <5>2, Zenon DEF IsLeaf
      <4>2. st.allMatch = TRUE
        BY <1>5, <3>3, <3>6, Zenon
      <4>3. getPathSegment(path, st.pos - 1) # Empty
        <5>1. m + 1 \in 1..n /\ (m + 1) - 1 = m
          BY <1>1, <1>2, <1>3, <3>6
        <5> QED
          BY <1>1, <3>4, <5>1
      <4>4. r = walkStep(tree, path, st)
        BY <2>2, <3>3, <4>3, Zenon
      <4>5. walkStep(tree, path, st) = [st EXCEPT !.end = leafEnd(st.allMatch)]
        BY <3>4, <4>1, Zenon DEF walkStep
      <4>6. leafEnd(st.allMatch) = "found"
        BY <4>2, Zenon DEF leafEnd
      <4>7. r = [st EXCEPT !.end = "found"]
        BY <4>4, <4>5, <4>6, Zenon
      <4>8. r.sn = st.sn /\ r.end = "found"
        BY <3>3, <4>7 DEF StateNames
      <4> QED
        BY <3>1, <3>4, <4>8, Zenon DEF r
    <3> QED
      BY <3>5, <3>6
  <2>5. CASE i > m
    <3>1. i + 1 > m /\ ~(i + 1 <= m)
      BY <1>2, <2>5
    <3>2. Settled(st)
      BY <1>8, <2>5, Zenon DEF st
    <3>3. "found" # Empty
      BY Zenon DEF Empty
    <3>4. r = st
      BY <2>2, <3>2, <3>3, Zenon
    <3> QED
      BY <3>1, <3>2, <3>4, Zenon DEF r
  <2> QED
    BY <1>2, <2>3, <2>4, <2>5
<1>9. Q(L)
  <2> HIDE DEF Q
  <2>1. 0 \in K
    BY <1>7
  <2>2. ASSUME NEW i \in Nat, i \in K PROVE i + 1 \in K
    <3>1. i + 1 \in Nat /\ (i + 1 <= L => i <= L)
      BY <1>1
    <3>2. i <= L => Q(i)
      BY <2>2, Zenon
    <3>3. i + 1 <= L => Q(i + 1)
      BY <1>8, <3>1, <3>2, Zenon
    <3> QED
      BY <3>1, <3>3, Zenon
  <2>3. L \in K
    <3> HIDE DEF K
    <3> QED
      BY <1>1, <2>1, <2>2, SetInduction
  <2> QED
    BY <1>1, <2>3
<1>10. Empty # "failed"
  BY Zenon DEF Empty
<1>11. CASE L <= m
  <2>1. L = m
    BY <1>1, <1>2, <1>3, <1>11
  <2>2. PathState(node, m, walk(tree, path))
    BY <1>6, <1>9, <1>11, <2>1, Zenon
  <2>3. walk(tree, path).sn = SubSeq(node, 1, m) /\ walk(tree, path).end = Empty
    BY <2>2, Zenon DEF PathState
  <2>4. SubSeq(node, 1, m) = node
    BY <1>2
  <2> QED
    BY <1>10, <2>3, <2>4, Zenon DEF node
<1>12. CASE L > m
  <2>1. Settled(walk(tree, path))
    BY <1>6, <1>9, <1>12, Zenon
  <2> QED
    BY <1>10, <2>1 DEF node
<1> QED
  BY <1>1, <1>2, <1>11, <1>12

\* The tree of one endpoint: the way to it, and the endpoint in one list.
LEMMA AloneTree ==
    ASSUME NEW tree, NEW eps, TreeOK(tree, eps), Len(eps) = 1
    PROVE  LET e == eps[1]
           IN  /\ e \in Endpoints /\ DOMAIN tree = Prefixes(nodeOf(e))
               /\ nodeOf(e) \in DOMAIN tree /\ endpointKey(e) \in EndpointKeys
               /\ tree[nodeOf(e)].endpoints[endpointKey(e)] = <<e>>
               /\ \A n \in DOMAIN tree, k \in EndpointKeys :
                     n # nodeOf(e) \/ k # endpointKey(e) => tree[n].endpoints[k] = <<>>
<1> DEFINE e == eps[1]
           node == nodeOf(e)
           key == endpointKey(e)
           list == tree[node].endpoints[key]
<1>1. TreeShape(tree) /\ Placed(tree) /\ Holding(tree, eps) /\ Grown(tree, eps)
  BY DEF TreeOK
<1>2. e \in Endpoints /\ ToSet(eps) = {e}
  <2>1. eps \in Seq(Endpoints)
    BY <1>1 DEF Holding
  <2> QED
    BY <2>1 DEF ToSet
<1> HIDE DEF e
<1>3. key \in EndpointKeys /\ node \in Seq(NodeKeys)
  BY <1>2, EndpointFacts
<1>4. e \in EndpointsOf(tree)
  BY <1>1, <1>2 DEF Holding
<1>5. node \in DOMAIN tree /\ e \in ToSet(list)
  <2>1. PICK n \in DOMAIN tree, k \in EndpointKeys : e \in ToSet(tree[n].endpoints[k])
    BY <1>4 DEF EndpointsOf
  <2>2. node = n /\ key = k
    BY <1>1, <2>1, Zenon DEF Placed
  <2> QED
    BY <2>1, <2>2, Zenon
<1>6. DOMAIN tree = Prefixes(node)
  <2>1. Prefixes(node) \subseteq DOMAIN tree
    BY <1>1, <1>5 DEF TreeShape
  <2>2. <<>> \in Prefixes(node)
    BY <1>3 DEF Prefixes
  <2>3. \A n \in DOMAIN tree : n \in Prefixes(node)
    BY <1>1, <1>2, <2>2 DEF Grown
  <2> HIDE DEF node
  <2> QED
    BY <2>1, <2>3
<1>7. \A x, y \in Places(tree) : x = y
  BY <1>1, AtMostOne DEF Holding
<1>8. \A n \in DOMAIN tree, k \in EndpointKeys : tree[n].endpoints[k] \in Seq(Endpoints)
  BY <1>1 DEF TreeShape
<1>9. list \in Seq(Endpoints) /\ DOMAIN list = 1..Len(list)
  <2>1. list \in Seq(Endpoints)
    BY <1>3, <1>5, <1>8, Zenon
  <2> HIDE DEF list
  <2> QED
    BY <2>1
<1>10. PICK j \in 1..Len(list) : list[j] = e
  <2> HIDE DEF list
  <2> QED
    BY <1>5, <1>9 DEF ToSet
<1>11. <<<<node, key>>, j>> \in Places(tree)
  <2> HIDE DEF node, key
  <2> QED
    BY <1>3, <1>5, <1>9, <1>10, PlacesFacts
<1>12. ASSUME NEW n \in DOMAIN tree, NEW k \in EndpointKeys, NEW i \in DOMAIN tree[n].endpoints[k]
       PROVE  n = node /\ k = key /\ i = j
  <2> HIDE DEF node, key, list
  <2>1. <<<<n, k>>, i>> \in Places(tree)
    BY <1>12, PlacesFacts
  <2>2. <<<<n, k>>, i>> = <<<<node, key>>, j>>
    BY <1>7, <1>11, <2>1
  <2> QED
    BY <2>2
<1>13. list = <<e>>
  <2>1. \A i \in 1..Len(list) : i = j
    <3>1. \A i \in DOMAIN list : i = j
      BY <1>3, <1>5, <1>12, Zenon
    <3> HIDE DEF list
    <3> QED
      BY <1>9, <3>1, Zenon
  <2> HIDE DEF list
  <2>2. Len(list) \in Nat
    BY <1>9
  <2>3. Len(list) = 1 /\ j = 1
    <3>1. 1 \in 1..Len(list) /\ Len(list) \in 1..Len(list)
      BY <1>10, <2>2
    <3> QED
      BY <2>1, <3>1
  <2> QED
    BY <1>9, <1>10, <2>3
<1>14. ASSUME NEW n \in DOMAIN tree, NEW k \in EndpointKeys, n # node \/ k # key
       PROVE  tree[n].endpoints[k] = <<>>
  <2> DEFINE l == tree[n].endpoints[k]
  <2>1. \A i \in DOMAIN l : FALSE
    BY <1>12, <1>14
  <2>2. l \in Seq(Endpoints)
    BY <1>8
  <2> HIDE DEF l
  <2>3. l = <<>>
    <3>1. DOMAIN l = 1..Len(l) /\ Len(l) \in Nat
      BY <2>2
    <3>2. 1 \notin 1..Len(l)
      BY <2>1, <3>1, Zenon
    <3>3. Len(l) = 0
      BY <3>1, <3>2
    <3> QED
      BY <2>2, <3>3
  <2> QED
    BY <2>3 DEF l
<1> QED
  BY <1>2, <1>3, <1>5, <1>6, <1>13, <1>14, Zenon DEF e

\* An endpoint that is alone is the only candidate, where the path, the method and the host
\* are its own, and nobody is one elsewhere.
LEMMA AloneCandidate ==
    ASSUME NEW tree, NEW eps, TreeOK(tree, eps), Len(eps) = 1, NEW rq \in Requests,
           NEW sn \in DOMAIN tree
    PROVE  LET e == eps[1]
               found == sn = nodeOf(e) /\ endpointKey(e) \in {<<rq.method, rq.host>>, <<rq.method, "">>}
           IN  candidates(tree, sn, rq) = IF found THEN <<e>> ELSE <<>>
<1> DEFINE e == eps[1]
           k1 == <<rq.method, rq.host>>
           k2 == <<rq.method, Empty>>
           key == endpointKey(e)
           node == nodeOf(e)
           list(k) == tree[sn].endpoints[k]
           hosted == IF rq.host = Empty THEN <<>> ELSE list(k1)
           found == sn = node /\ key \in {k1, k2}
<1>1. k1 \in EndpointKeys /\ k2 \in EndpointKeys
  BY RequestsAssumption, Zenon DEF Empty
<1>2. /\ sn = node => list(key) = <<e>>
      /\ \A k \in EndpointKeys : sn # node \/ k # key => list(k) = <<>>
  BY AloneTree, Zenon
<1>3. candidates(tree, sn, rq) = hosted \o list(k2)
  BY Zenon DEF candidates, Empty
<1>4. k1 = k2 <=> rq.host = Empty
  OBVIOUS
<1> HIDE DEF list, k1, k2, key, node, e
<1>5. <<>> \o <<>> = <<>> /\ <<>> \o <<e>> = <<e>> /\ <<e>> \o <<>> = <<e>>
  OBVIOUS
<1>6. CASE sn = node /\ key = k1 /\ key # k2
  <2>1. hosted = <<e>> /\ list(k2) = <<>>
    BY <1>1, <1>2, <1>4, <1>6, Zenon
  <2> QED
    BY <1>3, <1>5, <1>6, <2>1, Zenon DEF e, key, node, k1, k2, Empty
<1>7. CASE sn = node /\ key = k2
  <2>1. hosted = <<>> /\ list(k2) = <<e>>
    BY <1>1, <1>2, <1>4, <1>7, Zenon
  <2> QED
    BY <1>3, <1>5, <1>7, <2>1, Zenon DEF e, key, node, k1, k2, Empty
<1>8. CASE ~found
  <2>1. hosted = <<>> /\ list(k2) = <<>>
    BY <1>1, <1>2, <1>8, Zenon
  <2> QED
    BY <1>3, <1>5, <1>8, <2>1, Zenon DEF e, key, node, k1, k2, Empty
<1> QED
  BY <1>6, <1>7, <1>8, Zenon

\* It serves the requests that meet its criteria.
LEMMA AloneServed ==
    ASSUME PlainWildcards, PlainRequests, NEW tree, NEW eps, TreeOK(tree, eps), Len(eps) = 1,
           \A i \in 1..Len(eps[1].path) - 1 : eps[1].path[i] # "**", NEW rq \in Requests
    PROVE  matchRequestToEndpoint(tree, rq).endpoint # <<>> <=> Qualifies(eps[1], rq)
<1> DEFINE e == eps[1]
           w == walk(tree, rq.path)
           list == candidates(tree, w.sn, rq)
           served == matchRequestToEndpoint(tree, rq).endpoint
           found == w.sn = nodeOf(e) /\ endpointKey(e) \in {<<rq.method, rq.host>>, <<rq.method, "">>}
           ok == {i \in DOMAIN list : Qualifies(list[i], rq)}
           readers == {i \in DOMAIN list : list[i].body # <<>>}
<1>1. TreeShape(tree) /\ Placed(tree)
  BY DEF TreeOK
<1>2. Clean(rq.path)
  BY RequestsAssumption, Zenon DEF Clean, Empty
<1>3. Qualifies(e, rq) => w.end # "failed" /\ w.sn = nodeOf(e)
  <2>1. SUFFICES ASSUME Fits(e.path, rq.path) PROVE w.end # "failed" /\ w.sn = nodeOf(e)
    BY Zenon DEF Qualifies
  <2>2. e \in Endpoints /\ DOMAIN tree = Prefixes(nodeOf(e))
    BY AloneTree, Zenon
  <2>3. \A i \in 1..Len(rq.path) : rq.path[i] # "**"
    BY Zenon DEF PlainRequests
  <2> QED
    BY <1>2, <2>1, <2>2, <2>3, PathWalk, Zenon
<1>4. CASE w.end = "failed"
  <2>1. served = <<>>
    <3>1. matching(<<>>, rq) = {}
      BY DEF matching
    <3> QED
      BY <1>4, <3>1 DEF matchRequestToEndpoint
  <2> QED
    BY <1>3, <1>4, <2>1, Zenon
<1>5. CASE w.end # "failed"
  <2>1. w.sn \in DOMAIN tree
    BY <1>1, <1>2, WalkFacts DEF WalkOK
  <2>2. list = IF found THEN <<e>> ELSE <<>>
    BY <2>1, AloneCandidate, Zenon
  <2>3. Qualifies(e, rq) => found
    BY <1>3, Zenon DEF Qualifies
  <2> HIDE DEF list, found, e
  <2>4. DOMAIN list \subseteq {1} /\ (1 \in DOMAIN list <=> found) /\ (found => list[1] = e)
    BY <2>2
  <2>5. Cardinality(readers) <= 1
    <3>1. IsFiniteSet({1}) /\ Cardinality({1}) = 1
      BY FS_Singleton
    <3>2. readers \subseteq {1}
      BY <2>4, Zenon
    <3> HIDE DEF readers
    <3>3. Cardinality(readers) <= Cardinality({1})
      BY <3>1, <3>2, FS_Subset
    <3> QED
      BY <3>1, <3>3
  <2>6. served = IF ok = {} THEN <<>> ELSE <<list[Min(ok)]>>
    BY <1>1, <1>5, <2>5, FirstServed, Zenon DEF list
  <2>7. ok # {} <=> Qualifies(e, rq)
    BY <2>3, <2>4, Zenon
  <2> HIDE DEF ok, served
  <2>8. \A x : <<x>> # <<>>
    OBVIOUS
  <2>9. served # <<>> <=> Qualifies(e, rq)
    BY <2>6, <2>7, <2>8, Zenon
  <2> QED
    BY <2>9, Zenon DEF e, served
<1> QED
  BY <1>4, <1>5, Zenon

\* An endpoint that is alone serves exactly the requests that meet its criteria: if its
\* path has no "**" before the end, and no request a segment of that name.
THEOREM AloneServesAll == ASSUME PlainWildcards, PlainRequests PROVE LoaderSpec => []AloneComplete
<1>1. LoaderInv => AloneComplete
  <2> SUFFICES ASSUME LoaderInv PROVE AloneComplete
    OBVIOUS
  <2>1. TreeOK(EpSearchNode, installed)
    BY DEF LoaderInv
  <2> QED
    BY <2>1, AloneServed, Zenon DEF AloneComplete
<1> QED
  BY <1>1, LoaderInvariant, PTL

-----------------------------------------------------------------------------
(* The path variables. *)

\* Every node the walk visits is a node of the tree, even where wildcards and empty
\* segments mislead it.
LEMMA StepStays ==
    ASSUME NEW tree, NEW path, NEW st, st = [f \in StateNames |-> st[f]], st.sn \in DOMAIN tree
    PROVE  LET r == walkStep(tree, path, st) IN r = [f \in StateNames |-> r[f]] /\ r.sn \in DOMAIN tree
<1> DEFINE r == walkStep(tree, path, st)
           sn == st.sn
           hits == {i \in st.pos..Len(path) : path[i] # Empty /\ HasChild(tree, sn, path[i])}
           exhausted == st.allMatch /\ hits = {}
           pos == IF st.allMatch /\ hits # {} THEN Min(hits) ELSE st.pos
           segment == IF exhausted THEN Empty ELSE getPathSegment(path, pos - 1)
           keys == childKeys(segment)
           found == {i \in DOMAIN keys : HasChild(tree, sn, keys[i])}
           key == keys[Min(found)]
           via(wildcard) == key = wildcard /\ segment # wildcard
           child == Append(sn, key)
           params == IF via("*") THEN bind(st.params, tree[child].pathParamName, segment) ELSE st.params
<1>1. r = IF IsLeaf(tree, sn) THEN [st EXCEPT !.end = leafEnd(st.allMatch)]
          ELSE IF found = {} THEN [st EXCEPT !.end = "failed"]
          ELSE [st EXCEPT !.sn = child, !.pos = pos + 1, !.allMatch = via("**"), !.params = params]
  BY Zenon DEF walkStep, Empty
<1>2. found # {} => child \in DOMAIN tree
  <2> SUFFICES ASSUME found # {} PROVE child \in DOMAIN tree
    OBVIOUS
  <2>1. found \subseteq DOMAIN keys /\ DOMAIN keys = 1..3
    BY DEF childKeys
  <2>2. Min(found) \in found
    <3> HIDE DEF found, keys
    <3>1. found \subseteq Nat
      BY <2>1
    <3> QED
      BY <3>1, LeastNat DEF Min
  <2> QED
    BY <2>2, Zenon DEF HasChild
<1> HIDE DEF found, child, params, via, pos, r
<1>3. CASE r = [st EXCEPT !.end = leafEnd(st.allMatch)]
  BY <1>3 DEF StateNames, r
<1>4. CASE r = [st EXCEPT !.end = "failed"]
  BY <1>4 DEF StateNames, r
<1>5. CASE found # {} /\ r = [st EXCEPT !.sn = child, !.pos = pos + 1, !.allMatch = via("**"), !.params = params]
  BY <1>2, <1>5 DEF StateNames, r
<1> QED
  BY <1>1, <1>3, <1>4, <1>5, Zenon

\* So the walk ends at a node of the tree.
LEMMA WalkStays ==
    ASSUME NEW tree, <<>> \in DOMAIN tree, NEW path, Len(path) \in Nat
    PROVE  walk(tree, path).sn \in DOMAIN tree
<1> DEFINE m == Len(path)
<1>1. PICK after : /\ after[0] = walkStart
                   /\ \A i \in 1..m : after[i] = Iteration(tree, path, after[i - 1])
                   /\ walk(tree, path) = after[m]
  BY WalkRecursion
<1> DEFINE In(st) == st = [f \in StateNames |-> st[f]] /\ st.sn \in DOMAIN tree
           K == {i \in Nat : i <= m => In(after[i])}
<1>2. 0 \in K
  <2>1. walkStart = [sn |-> <<>>, pos |-> 1, allMatch |-> FALSE, end |-> Empty, params |-> <<>>]
    BY Zenon DEF walkStart, Empty
  <2>2. In(walkStart)
    BY <2>1 DEF StateNames
  <2> HIDE DEF In
  <2> QED
    BY <1>1, <2>2
<1>3. ASSUME NEW i \in Nat, i \in K PROVE i + 1 \in K
  <2> SUFFICES ASSUME i + 1 <= m PROVE In(after[i + 1])
    OBVIOUS
  <2>1. In(after[i])
    <3>1. i <= m
      OBVIOUS
    <3>2. i <= m => In(after[i])
      BY <1>3, Zenon
    <3> HIDE DEF In
    <3> QED
      BY <3>1, <3>2
  <2>2. after[i + 1] = Iteration(tree, path, after[i])
    <3>1. i + 1 \in 1..m /\ (i + 1) - 1 = i
      OBVIOUS
    <3> QED
      BY <1>1, <3>1
  <2>3. after[i + 1] \in {after[i], walkStep(tree, path, after[i])}
    BY <2>2, Zenon DEF Iteration
  <2>4. In(walkStep(tree, path, after[i]))
    BY <2>1, StepStays, Zenon
  <2> HIDE DEF In
  <2> QED
    BY <2>1, <2>3, <2>4
<1>4. m \in K
  <2> HIDE DEF K
  <2> QED
    BY <1>2, <1>3, SetInduction
<1> QED
  BY <1>1, <1>4

\* The greatest number of a bounded set.
LEMMA MaxFacts ==
    ASSUME NEW n \in Nat, NEW T, T \subseteq 1..n, T # {}
    PROVE  Max(T) \in T /\ \A y \in T : y <= Max(T)
<1> DEFINE U == {n - x : x \in T}
<1>1. U \subseteq Nat /\ U # {}
  <2>1. \A x \in T : n - x \in Nat
    OBVIOUS
  <2>2. PICK x : x \in T
    OBVIOUS
  <2>3. n - x \in U
    BY <2>2, Zenon
  <2> QED
    BY <2>1, <2>3, Zenon
<1>2. PICK u \in U : \A y \in U : u <= y
  <2> HIDE DEF U
  <2> QED
    BY <1>1, LeastNat
<1>3. PICK x \in T : u = n - x
  OBVIOUS
<1>4. ASSUME NEW y \in T PROVE x >= y
  <2>1. n - x <= n - y
    BY <1>2, <1>3
  <2>2. x \in 1..n /\ y \in 1..n
    OBVIOUS
  <2> QED
    BY <2>1, <2>2
<1>5. Max(T) \in T /\ \A y \in T : Max(T) >= y
  BY <1>4, Zenon DEF Max
<1>6. \A y \in T : y <= Max(T)
  <2> DEFINE m == Max(T)
  <2>1. m \in 1..n /\ \A y \in T : m >= y /\ y \in 1..n
    BY <1>5
  <2> HIDE DEF m
  <2>2. \A y \in T : y <= m
    BY <2>1
  <2> QED
    BY <2>2 DEF m
<1> QED
  BY <1>5, <1>6

\* What bind stores.
LEMMA BindFacts ==
    ASSUME NEW params, NEW name, NEW segment
    PROVE  LET b == bind(params, name, segment)
           IN  /\ name = Empty => b = params
               /\ name # Empty => name \in DOMAIN b /\ b[name] = segment
               /\ \A x \in DOMAIN params : x # name => x \in DOMAIN b /\ b[x] = params[x]
<1> DEFINE b == bind(params, name, segment)
<1>1. b = IF name = Empty THEN params
          ELSE [n \in DOMAIN params \cup {name} |-> IF n = name THEN segment ELSE params[n]]
  BY Zenon DEF bind, Empty
<1>2. CASE name = Empty
  BY <1>1, <1>2, Zenon
<1>3. CASE name # Empty
  <2>1. b = [n \in DOMAIN params \cup {name} |-> IF n = name THEN segment ELSE params[n]]
    BY <1>1, <1>3, Zenon
  <2> HIDE DEF b
  <2>2. /\ name \in DOMAIN b /\ b[name] = segment
        /\ \A x \in DOMAIN params : x # name => x \in DOMAIN b /\ b[x] = params[x]
    BY <2>1
  <2> QED
    BY <1>3, <2>2, Zenon DEF b
<1> QED
  BY <1>2, <1>3, Zenon

\* The name of the j-th node on the way to sn, if it is one of a path variable.
NameAt(tree, sn, j) == tree[SubSeq(sn, 1, j)].pathParamName
Naming(tree, sn, j) == sn[j] = "*" /\ NameAt(tree, sn, j) # Empty

\* Where no "**" led, one segment has been consumed per node, and each name on the way
\* is bound to the segment of its last node.
BoundSoFar(tree, path, sn, params) ==
    \A j \in 1..Len(sn) :
        Naming(tree, sn, j) /\ (\A l \in j + 1..Len(sn) : sn[l] = "*" => NameAt(tree, sn, l) # NameAt(tree, sn, j)) =>
            NameAt(tree, sn, j) \in DOMAIN params /\ params[NameAt(tree, sn, j)] = path[j]

BindState(tree, path, st) ==
    /\ st = [f \in StateNames |-> st[f]] /\ st.sn \in DOMAIN tree
    /\ (\A i \in 1..Len(st.sn) : st.sn[i] # "**") =>
          st.allMatch = FALSE /\ st.pos = Len(st.sn) + 1 /\ BoundSoFar(tree, path, st.sn, st.params)

\* One more node.
LEMMA BoundOneMore ==
    ASSUME NEW S, NEW sn \in Seq(S), NEW key, NEW tree, NEW path, NEW params, NEW new,
           BoundSoFar(tree, path, sn, params),
           LET name == tree[Append(sn, key)].pathParamName
           IN  new = IF key = "*" THEN bind(params, name, path[Len(sn) + 1]) ELSE params
    PROVE  BoundSoFar(tree, path, Append(sn, key), new)
<1> DEFINE m == Len(sn)
           child == Append(sn, key)
           name == tree[child].pathParamName
           T == S \cup {key}
<1>1. sn \in Seq(T) /\ key \in T
  OBVIOUS
<1> HIDE DEF T
<1>2. /\ m \in Nat /\ child \in Seq(T) /\ Len(child) = m + 1 /\ child[m + 1] = key
      /\ \A j \in 1..m : child[j] = sn[j]
  BY <1>1, ToSetFacts
<1>3. \A j \in 1..m : SubSeq(child, 1, j) = SubSeq(sn, 1, j)
  <2> SUFFICES ASSUME NEW j \in 1..m PROVE SubSeq(child, 1, j) = SubSeq(sn, 1, j)
    OBVIOUS
  <2> DEFINE a == SubSeq(child, 1, j)
             b == SubSeq(sn, 1, j)
  <2> HIDE DEF child
  <2>1. /\ a \in Seq(T) /\ Len(a) = j /\ \A i \in 1..j : a[i] = child[i]
        /\ b \in Seq(T) /\ Len(b) = j /\ \A i \in 1..j : b[i] = sn[i]
    BY <1>1, <1>2, SubSeqProperties
  <2> HIDE DEF a, b
  <2>2. \A i \in 1..j : i \in 1..m
    BY <1>2
  <2>3. a = b
    BY <1>2, <2>1, <2>2
  <2> QED
    BY <2>3 DEF a, b
<1> HIDE DEF child
<1>4. SubSeq(child, 1, m + 1) = child
  BY <1>2
<1>5. /\ \A j \in 1..m : NameAt(tree, child, j) = NameAt(tree, sn, j)
      /\ NameAt(tree, child, m + 1) = name
  BY <1>3, <1>4, Zenon DEF NameAt
<1>6. new = IF key = "*" THEN bind(params, name, path[m + 1]) ELSE params
  BY DEF child
<1> HIDE DEF m, name
<1>7. /\ key = "*" /\ name # Empty => name \in DOMAIN new /\ new[name] = path[m + 1]
      /\ \A x \in DOMAIN params : key # "*" \/ x # name => x \in DOMAIN new /\ new[x] = params[x]
  <2>1. CASE key = "*"
    <3> DEFINE b == bind(params, name, path[m + 1])
    <3>1. /\ name # Empty => name \in DOMAIN b /\ b[name] = path[m + 1]
          /\ \A x \in DOMAIN params : x # name => x \in DOMAIN b /\ b[x] = params[x]
      BY BindFacts
    <3>2. new = b
      BY <1>6, <2>1, Zenon
    <3> QED
      BY <2>1, <3>1, <3>2, Zenon
  <2>2. CASE key # "*"
    BY <1>6, <2>2, Zenon
  <2> QED
    BY <2>1, <2>2, Zenon
<1>8. ASSUME NEW j \in 1..m + 1, Naming(tree, child, j),
             \A l \in j + 1..m + 1 : child[l] = "*" => NameAt(tree, child, l) # NameAt(tree, child, j)
      PROVE  NameAt(tree, child, j) \in DOMAIN new /\ new[NameAt(tree, child, j)] = path[j]
  <2>1. CASE j = m + 1
    <3>1. key = "*" /\ name # Empty
      BY <1>2, <1>5, <1>8, <2>1, Zenon DEF Naming
    <3> QED
      BY <1>5, <1>7, <2>1, <3>1, Zenon
  <2>2. CASE j # m + 1
    <3>1. j \in 1..m /\ m + 1 \in j + 1..m + 1 /\ \A l \in j + 1..m : l \in 1..m /\ l \in j + 1..m + 1
      BY <1>2, <2>2
    <3> DEFINE x == NameAt(tree, sn, j)
    <3>2. NameAt(tree, child, j) = x /\ child[j] = sn[j]
      BY <1>2, <1>5, <3>1, Zenon
    <3>3. Naming(tree, sn, j)
      BY <1>8, <3>2, Zenon DEF Naming
    <3>4. \A l \in j + 1..m : sn[l] = "*" => NameAt(tree, sn, l) # x
      BY <1>2, <1>5, <1>8, <3>1, <3>2, Zenon
    <3>5. x \in DOMAIN params /\ params[x] = path[j]
      BY <3>1, <3>3, <3>4, Zenon DEF BoundSoFar, m
    <3>6. key # "*" \/ x # name
      BY <1>2, <1>5, <1>8, <3>1, <3>2, Zenon
    <3> QED
      BY <1>7, <3>2, <3>5, <3>6, Zenon
  <2> QED
    BY <2>1, <2>2
<1>9. BoundSoFar(tree, path, child, new)
  BY <1>2, <1>8, Zenon DEF BoundSoFar
<1> QED
  BY <1>9 DEF child

\* One iteration.
LEMMA BindStep ==
    ASSUME NEW tree, TreeShape(tree), NEW path, Clean(path), \A i \in 1..Len(path) : path[i] # "*",
           NEW st, BindState(tree, path, st), getPathSegment(path, st.pos - 1) # Empty
    PROVE  BindState(tree, path, walkStep(tree, path, st))
<1> DEFINE r == walkStep(tree, path, st)
           sn == st.sn
           hits == {i \in st.pos..Len(path) : path[i] # Empty /\ HasChild(tree, sn, path[i])}
           exhausted == st.allMatch /\ hits = {}
           pos == IF st.allMatch /\ hits # {} THEN Min(hits) ELSE st.pos
           segment == IF exhausted THEN Empty ELSE getPathSegment(path, pos - 1)
           keys == childKeys(segment)
           found == {i \in DOMAIN keys : HasChild(tree, sn, keys[i])}
           key == keys[Min(found)]
           via(wildcard) == key = wildcard /\ segment # wildcard
           child == Append(sn, key)
           params == IF via("*") THEN bind(st.params, tree[child].pathParamName, segment) ELSE st.params
           Plain(x) == \A i \in 1..Len(x) : x[i] # "**"
<1>1. r = IF IsLeaf(tree, sn) THEN [st EXCEPT !.end = leafEnd(st.allMatch)]
          ELSE IF found = {} THEN [st EXCEPT !.end = "failed"]
          ELSE [st EXCEPT !.sn = child, !.pos = pos + 1, !.allMatch = via("**"), !.params = params]
  BY Zenon DEF walkStep, Empty
<1>2. /\ st = [f \in StateNames |-> st[f]] /\ sn \in DOMAIN tree
      /\ Plain(sn) => st.allMatch = FALSE /\ st.pos = Len(sn) + 1 /\ BoundSoFar(tree, path, sn, st.params)
  BY Zenon DEF BindState
<1>3. sn \in Seq(NodeKeys)
  BY <1>2, NodeFacts DEF TreeShape
<1>4. r = [f \in StateNames |-> r[f]] /\ r.sn \in DOMAIN tree
  BY <1>2, StepStays, Zenon
<1>5. ASSUME NEW e, r = [st EXCEPT !.end = e] PROVE BindState(tree, path, r)
  <2> HIDE DEF r
  <2>1. r.sn = st.sn /\ r.pos = st.pos /\ r.allMatch = st.allMatch /\ r.params = st.params
    BY <1>2, <1>5 DEF StateNames
  <2> QED
    BY <1>2, <1>4, <2>1, Zenon DEF BindState
<1>6. CASE r = [st EXCEPT !.sn = child, !.pos = pos + 1, !.allMatch = via("**"), !.params = params]
  <2>1. r.sn = child /\ r.pos = pos + 1 /\ r.allMatch = via("**") /\ r.params = params
    <3> HIDE DEF params, child, via, r, pos
    <3> QED
      BY <1>2, <1>6 DEF StateNames
  <2> SUFFICES ASSUME Plain(child)
               PROVE  /\ via("**") = FALSE /\ pos + 1 = Len(child) + 1
                      /\ BoundSoFar(tree, path, child, params)
    <3> HIDE DEF r, child, via, pos, params
    <3>1. BindState(tree, path, r)
      BY <1>4, <2>1, Zenon DEF BindState
    <3> QED
      BY <3>1 DEF r
  <2> DEFINE m == Len(sn)
             T == NodeKeys \cup {key}
  <2> HIDE DEF sn, key
  <2>2. sn \in Seq(T) /\ key \in T
    BY <1>3
  <2> HIDE DEF T
  <2>3. m \in Nat /\ Len(child) = m + 1 /\ child[m + 1] = key /\ \A i \in 1..m : child[i] = sn[i]
    BY <2>2, ToSetFacts
  <2> HIDE DEF child, m
  <2>4. Plain(sn) /\ key # "**"
    <3>1. m + 1 \in 1..m + 1 /\ \A i \in 1..m : i \in 1..m + 1
      BY <2>3
    <3> QED
      BY <2>3, <3>1, Zenon DEF m
  <2>5. st.allMatch = FALSE /\ st.pos = m + 1 /\ BoundSoFar(tree, path, sn, st.params)
    BY <1>2, <2>4, Zenon DEF m
  <2>6. pos = m + 1 /\ ~exhausted
    BY <2>5, Zenon
  <2> HIDE DEF pos, exhausted
  <2>7. segment = getPathSegment(path, m) /\ segment # Empty
    <3>1. pos - 1 = m /\ st.pos - 1 = m
      BY <2>3, <2>5, <2>6
    <3> QED
      BY <2>6, <3>1, Zenon
  <2> HIDE DEF segment
  <2>8. segment = path[m + 1] /\ segment # "*"
    <3>1. segment = IF m < Len(path) THEN path[m + 1] ELSE Empty
      BY <2>7, Zenon DEF getPathSegment, Empty
    <3>2. m < Len(path) /\ segment = path[m + 1]
      BY <2>7, <3>1, Zenon
    <3>3. m + 1 \in 1..Len(path)
      <4>1. Len(path) \in Nat
        BY SegmentFacts
      <4> QED
        BY <2>3, <3>2, <4>1
    <3> QED
      BY <3>2, <3>3, Zenon
  <2>9. via("**") = FALSE /\ (via("*") <=> key = "*")
    BY <2>4, <2>8, Zenon
  <2>10. params = IF key = "*" THEN bind(st.params, tree[child].pathParamName, path[m + 1]) ELSE st.params
    BY <2>8, <2>9, Zenon
  <2> HIDE DEF params
  <2>11. BoundSoFar(tree, path, child, params)
    BY <1>3, <2>5, <2>10, BoundOneMore, Zenon DEF child, m
  <2>12. pos + 1 = Len(child) + 1
    BY <2>3, <2>6
  <2> QED
    BY <2>9, <2>11, <2>12, Zenon
<1>7. BindState(tree, path, r)
  <2> HIDE DEF r, found, child, params, pos, via
  <2> QED
    BY <1>1, <1>5, <1>6, Zenon DEF r
<1> QED
  BY <1>7

\* The walk of a path without a segment that is literally "*".
LEMMA BindWalk ==
    ASSUME NEW tree, TreeShape(tree), NEW path, Clean(path), \A i \in 1..Len(path) : path[i] # "*"
    PROVE  BindState(tree, path, walk(tree, path))
<1> DEFINE m == Len(path)
<1>1. m \in Nat
  BY SegmentFacts
<1>2. PICK after : /\ after[0] = walkStart
                   /\ \A i \in 1..m : after[i] = Iteration(tree, path, after[i - 1])
                   /\ walk(tree, path) = after[m]
  BY <1>1, WalkRecursion
<1> DEFINE In(i) == BindState(tree, path, after[i])
           K == {i \in Nat : i <= m => In(i)}
<1> HIDE DEF m
<1>3. In(0)
  <2> DEFINE st == after[0]
  <2>1. st = [sn |-> <<>>, pos |-> 1, allMatch |-> FALSE, end |-> Empty, params |-> <<>>]
    BY <1>2, Zenon DEF walkStart, Empty
  <2> HIDE DEF st
  <2>2. /\ st = [f \in StateNames |-> st[f]] /\ st.sn = <<>> /\ st.pos = Len(<<>>) + 1 /\ st.allMatch = FALSE
    BY <2>1 DEF StateNames
  <2>3. <<>> \in DOMAIN tree /\ \A j \in 1..Len(<<>>) : FALSE
    BY DEF TreeShape
  <2>4. BoundSoFar(tree, path, <<>>, st.params)
    BY <2>3, Zenon DEF BoundSoFar
  <2> QED
    BY <2>2, <2>3, <2>4, Zenon DEF BindState, st
<1>4. ASSUME NEW i \in Nat, i + 1 <= m, In(i) PROVE In(i + 1)
  <2> DEFINE st == after[i]
             r == after[i + 1]
  <2>1. r = Iteration(tree, path, st)
    <3>1. i + 1 \in 1..m /\ (i + 1) - 1 = i
      BY <1>1, <1>4
    <3> QED
      BY <1>2, <3>1
  <2>2. r = IF st.end # Empty \/ getPathSegment(path, st.pos - 1) = Empty THEN st
            ELSE walkStep(tree, path, st)
    BY <2>1, Zenon DEF Iteration, Empty
  <2>3. CASE r = st
    BY <1>4, <2>3, Zenon
  <2>4. CASE getPathSegment(path, st.pos - 1) # Empty /\ r = walkStep(tree, path, st)
    BY <1>4, <2>4, BindStep, Zenon
  <2> QED
    BY <2>2, <2>3, <2>4, Zenon
<1>5. In(m)
  <2> HIDE DEF In
  <2>1. 0 \in K
    BY <1>3
  <2>2. ASSUME NEW i \in Nat, i \in K PROVE i + 1 \in K
    <3>1. i + 1 \in Nat /\ (i + 1 <= m => i <= m)
      BY <1>1
    <3>2. i <= m => In(i)
      BY <2>2, Zenon
    <3>3. i + 1 <= m => In(i + 1)
      BY <1>4, <3>1, <3>2, Zenon
    <3> QED
      BY <3>1, <3>3, Zenon
  <2>3. m \in K
    <3> HIDE DEF K
    <3> QED
      BY <1>1, <2>1, <2>2, SetInduction
  <2> QED
    BY <1>1, <2>3
<1> QED
  BY <1>2, <1>5, Zenon

\* What serves a request is registered at the node that the walk ends at.
LEMMA ServedThere ==
    ASSUME NEW tree, TreeShape(tree), Placed(tree), NEW rq \in Requests,
           NEW ep \in ToSet(matchRequestToEndpoint(tree, rq).endpoint)
    PROVE  /\ ep \in Endpoints /\ ep \in EndpointsOf(tree)
           /\ nodeOf(ep) = walk(tree, rq.path).sn /\ nodeOf(ep) \in DOMAIN tree
<1> DEFINE sn == walk(tree, rq.path).sn
           k1 == <<rq.method, rq.host>>
           k2 == <<rq.method, "">>
           l1 == IF rq.host = Empty THEN <<>> ELSE tree[sn].endpoints[k1]
           l2 == tree[sn].endpoints[k2]
           eps == candidates(tree, sn, rq)
<1>1. Clean(rq.path) /\ k1 \in EndpointKeys /\ k2 \in EndpointKeys
  BY RequestsAssumption, Zenon DEF Clean, Empty
<1>2. sn \in DOMAIN tree
  <2>1. Len(rq.path) \in Nat
    BY <1>1, SegmentFacts
  <2> QED
    BY <2>1, WalkStays DEF TreeShape
<1>3. eps = l1 \o l2
  BY Zenon DEF candidates, Empty
<1> HIDE DEF k1, k2
<1>4. l1 \in Seq(Endpoints) /\ l2 \in Seq(Endpoints)
  BY <1>1, <1>2 DEF TreeShape
<1>5. ToSet(l1) = {} \/ ToSet(l1) = ToSet(tree[sn].endpoints[k1])
  <2>1. ToSet(<<>>) = {}
    BY DEF ToSet
  <2> QED
    BY <2>1, Zenon
<1> HIDE DEF l1
<1>6. eps \in Seq(Endpoints) /\ \A x \in ToSet(eps) : x \in Endpoints /\ (x \in ToSet(l1) \/ x \in ToSet(l2))
  <2> HIDE DEF eps, l2
  <2> QED
    BY <1>3, <1>4 DEF ToSet
<1>7. ep \in ToSet(eps)
  BY <1>6, ServedIsCandidate, Zenon
<1>8. PICK k \in EndpointKeys : ep \in ToSet(tree[sn].endpoints[k])
  BY <1>1, <1>5, <1>6, <1>7, Zenon
<1>9. ep \in EndpointsOf(tree)
  BY <1>2, <1>8 DEF EndpointsOf
<1>10. nodeOf(ep) = sn
  BY <1>2, <1>8, Zenon DEF Placed
<1> QED
  BY <1>2, <1>6, <1>7, <1>9, <1>10, Zenon

\* The names that the nodes on the way to an endpoint have, if none is shared by
\* different ones.
LEMMA NodeNames ==
    ASSUME NEW tree, NEW eps, TreeOK(tree, eps), SameNames(ToSet(eps)), NEW ep \in ToSet(eps),
           ep \in Endpoints, nodeOf(ep) \in DOMAIN tree, NEW j \in 1..Len(ep.path)
    PROVE  NameAt(tree, nodeOf(ep), j) = pathParamName(ep.path[j])
<1> DEFINE node == nodeOf(ep)
           n == SubSeq(node, 1, j)
<1>1. node \in Seq(NodeKeys) /\ Len(node) = Len(ep.path)
  BY EndpointFacts
<1>2. j \in 0..Len(node) /\ j \in 1..Len(node)
  BY <1>1
<1>3. n \in Seq(NodeKeys) /\ Len(n) = j /\ n \in Prefixes(node)
  <2>1. n \in Prefixes(node)
    BY <1>2 DEF Prefixes
  <2> HIDE DEF node
  <2> QED
    BY <1>1, <1>2, <2>1, SubSeqProperties
<1>4. n \in DOMAIN tree
  BY <1>3 DEF TreeOK, TreeShape
<1> HIDE DEF n
<1>5. n # <<>>
  BY <1>2, <1>3
<1>6. PICK other \in ToSet(eps) : /\ n \in Prefixes(nodeOf(other))
                                  /\ tree[n].pathParamName = pathParamName(other.path[Len(n)])
  BY <1>4, <1>5, Zenon DEF TreeOK, Grown
<1>7. pathParamName(ep.path[Len(n)]) = pathParamName(other.path[Len(n)])
  <2>1. n \in (Prefixes(nodeOf(ep)) \cap Prefixes(nodeOf(other))) \ {<<>>}
    BY <1>3, <1>5, <1>6, Zenon
  <2> QED
    BY <2>1, Zenon DEF SameNames
<1> QED
  BY <1>3, <1>6, <1>7, Zenon DEF NameAt, n

\* The positions of a path variable.
NamedIn(ep, name) == {i \in DOMAIN ep.path : pathParamName(ep.path[i]) = name}

\* Every path variable of the endpoint that serves a request has the segment at its
\* position.
LEMMA ServedBinds ==
    ASSUME NEW tree, NEW eps, TreeOK(tree, eps), SameNames(ToSet(eps)), NEW rq \in Requests,
           NEW ep \in ToSet(matchRequestToEndpoint(tree, rq).endpoint),
           "**" \notin ToSet(ep.path), "*" \notin ToSet(rq.path),
           NEW s \in ToSet(ep.path), NEW name, name = pathParamName(s), name # Empty
    PROVE  Get(matchRequestToEndpoint(tree, rq).params, name) = rq.path[Max(NamedIn(ep, name))]
<1> DEFINE w == walk(tree, rq.path)
           node == nodeOf(ep)
           m == Len(ep.path)
           named == {i \in DOMAIN ep.path : pathParamName(ep.path[i]) = name}
           j == Max(named)
<1>1. TreeShape(tree) /\ Placed(tree) /\ Holding(tree, eps)
  BY DEF TreeOK
<1>2. ep \in Endpoints /\ ep \in EndpointsOf(tree) /\ node = w.sn /\ node \in DOMAIN tree
  BY <1>1, ServedThere, Zenon
<1>3. ep \in ToSet(eps)
  BY <1>1, <1>2 DEF Holding
<1>4. /\ m \in Nat /\ DOMAIN ep.path = 1..m /\ Len(node) = m
      /\ \A i \in 1..m : node[i] = segmentKey(ep.path[i])
  <2>1. ep.path \in Seq(PathSegments)
    BY <1>2, EndpointFacts
  <2>2. m \in Nat /\ DOMAIN ep.path = 1..m
    BY <2>1
  <2> QED
    BY <1>2, <2>2, EndpointFacts
<1>5. \A i \in 1..m : ep.path[i] \in ToSet(ep.path)
  BY <1>4 DEF ToSet
<1>6. \A i \in 1..m : node[i] # "**"
  BY <1>4, <1>5, SpecialKeys
<1>7. Clean(rq.path)
  BY RequestsAssumption, Zenon DEF Clean, Empty
<1>8. \A i \in 1..Len(rq.path) : rq.path[i] # "*"
  <2>1. DOMAIN rq.path = 1..Len(rq.path)
    BY <1>7 DEF Clean
  <2>2. \A i \in DOMAIN rq.path : rq.path[i] \in ToSet(rq.path)
    BY Zenon DEF ToSet
  <2> QED
    BY <2>1, <2>2, Zenon
<1>9. BoundSoFar(tree, rq.path, node, w.params)
  <2>1. BindState(tree, rq.path, w)
    BY <1>1, <1>7, <1>8, BindWalk
  <2> QED
    BY <1>2, <1>4, <1>6, <2>1, Zenon DEF BindState
<1>10. \A i \in 1..m : NameAt(tree, node, i) = pathParamName(ep.path[i])
  BY <1>2, <1>3, NodeNames
<1>11. named # {} /\ named \subseteq 1..m
  <2>1. PICK i \in DOMAIN ep.path : s = ep.path[i]
    BY DEF ToSet
  <2>2. i \in named
    BY <2>1, Zenon
  <2> QED
    BY <1>4, <2>2, Zenon
<1>12. j \in named /\ \A i \in named : i <= j
  <2> HIDE DEF named
  <2> QED
    BY <1>4, <1>11, MaxFacts
<1>13. j \in 1..m /\ pathParamName(ep.path[j]) = name
  BY <1>11, <1>12, Zenon
<1>14. \A i \in 1..m : i \in named <=> pathParamName(ep.path[i]) = name
  BY <1>4, Zenon
<1> HIDE DEF j, named
<1>15. Naming(tree, node, j) /\ NameAt(tree, node, j) = name
  <2>1. NameAt(tree, node, j) = name
    BY <1>10, <1>13, Zenon
  <2>2. ep.path[j] \in DOMAIN ParamName
    BY <1>13, Zenon DEF pathParamName, Empty
  <2>3. node[j] = "*"
    BY <1>4, <1>13, <2>2, Zenon DEF segmentKey
  <2> QED
    BY <2>1, <2>3, Zenon DEF Naming
<1>16. ASSUME NEW l \in j + 1..m PROVE NameAt(tree, node, l) # name
  <2>1. l \in 1..m /\ ~(l <= j)
    BY <1>4, <1>13
  <2> QED
    BY <1>10, <1>12, <1>14, <2>1, Zenon
<1>17. name \in DOMAIN w.params /\ w.params[name] = rq.path[j]
  BY <1>4, <1>9, <1>13, <1>15, <1>16, Zenon DEF BoundSoFar
<1>18. matchRequestToEndpoint(tree, rq).params = w.params
  BY DEF matchRequestToEndpoint
<1>19. Get(w.params, name) = rq.path[j]
  BY <1>17, Zenon DEF Get
<1> QED
  BY <1>18, <1>19, Zenon DEF j, named, NamedIn

\* A path variable of the endpoint that serves a request resolves to the segment at its
\* position, whatever others share its nodes: if they share the names too, its path has
\* no "**" and the request no segment that is literally "*".
THEOREM VariablesResolve == LoaderSpec => []ParamsBound
<1>1. ASSUME LoaderInv, SameNames(ToSet(installed)), NEW rq \in Requests,
             NEW ep \in ToSet(matchRequestToEndpoint(EpSearchNode, rq).endpoint),
             "**" \notin ToSet(ep.path), "*" \notin ToSet(rq.path)
      PROVE  ParamsOf(ep, rq)
  <2>1. TreeOK(EpSearchNode, installed)
    BY <1>1, Zenon DEF LoaderInv
  <2>2. ASSUME NEW name, name # "", NEW s \in ToSet(ep.path), name = pathParamName(s)
        PROVE  Get(matchRequestToEndpoint(EpSearchNode, rq).params, name) = rq.path[Max(NamedIn(ep, name))]
    <3>1. name # Empty
      BY <2>2, Zenon DEF Empty
    <3> QED
      BY <1>1, <2>1, <2>2, <3>1, ServedBinds, Zenon
  <2> QED
    BY <2>2, Zenon DEF ParamsOf, NamedIn
<1>2. LoaderInv => ParamsBound
  BY <1>1, Zenon DEF ParamsBound
<1> QED
  BY <1>2, LoaderInvariant, PTL

-----------------------------------------------------------------------------
(* The requests: the inductive invariant. *)

\* x has a value for each of the four variables, and is nothing else.
FourFields(x) == x = [f \in Fields |-> x[f]]

LocalsOK ==
    /\ pc \in [Clients -> {"idle", "assign", "decide", "read", "render", "done"}]
    /\ todo \in [Clients -> SUBSET Fields]
    /\ FourFields(shared)
    /\ result = [c \in Clients |-> result[c]] /\ \A c \in Clients : FourFields(result[c])
    /\ view = [c \in Clients |-> view[c]] /\ \A c \in Clients : FourFields(view[c])
    /\ response = [c \in Clients |-> response[c]]
    /\ actualResponse = [c \in Clients |-> actualResponse[c]]

\* A request under way that has not been overlapped is the only one under way.
Alone ==
    \A c \in InFlight, d \in InFlight : c \notin overlapped => c = d

\* Only requests for mocks get as far as the assignment, and what matched is their
\* own match.
Matching ==
    /\ \A c \in InFlight : Head(req[c].path) \notin ApiSegments
    /\ \A c \in Clients : result[c].endPoint # <<>> => result[c].match = c

\* As long as a request is alone, the shared variables that it has assigned, and
\* then those it has read, are what its matcher returned.
OwnValues ==
    \A c \in Clients \ overlapped :
        /\ pc[c] = "assign" => \A f \in Fields \ todo[c] : shared[f] = result[c][f]
        /\ pc[c] \in {"decide", "read", "render"} => \A f \in Fields : shared[f] = result[c][f]
        /\ pc[c] \in {"read", "render"} => result[c].endPoint # <<>>
        /\ pc[c] = "read" => \A f \in Fields \ todo[c] : view[c][f] = result[c][f]
        /\ pc[c] = "render" => view[c] = result[c]

\* Nobody refers to the match of a request that has none yet, or never will.
Unmatched(c) == pc[c] = "idle" \/ Head(req[c].path) \in ApiSegments
OwnMatches ==
    \A c \in Clients : Unmatched(c) =>
        shared.match # c /\ \A d \in Clients : result[d].match # c /\ view[d].match # c

\* Nobody has noted a response in the match of a request that is alone and not yet served.
NotedLast ==
    \A c \in Clients \ overlapped : ~Done(c) => actualResponse[c] = ""

\* Without a mismatch, the shared endpoint is set from the first assignment on.
EndpointSet ==
    Mismatched = {} =>
        /\ \A c \in Clients :
              pc[c] \in {"decide", "read", "render"} \/ (pc[c] = "assign" /\ "endPoint" \notin todo[c])
                => shared.endPoint # <<>>
        /\ \A c \in Clients :
              pc[c] = "render" \/ (pc[c] = "read" /\ "endPoint" \notin todo[c])
                => view[c].endPoint # <<>>
        /\ \A c \in Clients : response[c].status # "404"

IInv == LocalsOK /\ Alone /\ Matching /\ OwnValues /\ OwnMatches /\ NotedLast /\ EndpointSet
        /\ ServedAlone

-----------------------------------------------------------------------------
(* Their steps. *)

\* The fields of a failed response.
LEMMA FailedFacts ==
    ASSUME NEW s
    PROVE  Failed(s).status = s /\ Failed(s).id = ""
  BY DEF Failed

\* The fields of a rendered response.
LEMMA RenderedFacts ==
    ASSUME NEW ep
    PROVE  Rendered(ep).status = "rendered" /\ Rendered(ep).id = ep.id
  BY DEF Rendered

\* The invariant holds before the first request.
LEMMA InvInit == Init => IInv
<1> SUFFICES ASSUME Init PROVE IInv
  OBVIOUS
<1>1. FourFields(Nil)
  BY DEF FourFields, Nil, Fields
<1>2. LocalsOK
  BY <1>1 DEF Init, LocalsOK
<1>3. Alone /\ Matching /\ OwnValues
  BY DEF Init, Alone, Matching, OwnValues, InFlight, Nil
<1>4. NotedLast /\ EndpointSet /\ ServedAlone
  BY DEF Init, NotedLast, EndpointSet, ServedAlone, Done, Failed
<1>5. OwnMatches
  BY MockServerAssumption DEF Init, OwnMatches, Nil
<1> QED
  BY <1>2, <1>3, <1>4, <1>5 DEF IInv

\* A matcher begins: from now on nobody who is under way is alone, unless it is the
\* only one.
LEMMA MatchKeeps ==
    ASSUME IInv, NEW c \in Clients, Match(c)
    PROVE  IInv'
<1> USE DEF IInv
<1>1. PICK m : /\ result' = [result EXCEPT ![c] = results(c, m)]
               /\ todo' = [todo EXCEPT ![c] = Fields]
               /\ pc' = [pc EXCEPT ![c] = "assign"]
               /\ pc[c] = "idle" /\ Head(req[c].path) \notin ApiSegments
               /\ overlapped' = overlapped \cup IF InFlight = {} THEN {} ELSE InFlight \cup {c}
               /\ UNCHANGED <<actualResponse, shared, req, view, response>>
  BY DEF Match, Goto
<1>2. /\ FourFields(results(c, m)) /\ (results(c, m).endPoint # <<>> => results(c, m).match = c)
      /\ results(c, m).match \in {c, NoMatch}
  BY DEF FourFields, results, Fields
<1>3. LocalsOK'
  BY <1>1, <1>2 DEF LocalsOK, FourFields
<1>4. /\ pc'[c] = "assign" /\ todo'[c] = Fields /\ result'[c] = results(c, m)
      /\ \A d \in Clients \ {c} : pc'[d] = pc[d] /\ todo'[d] = todo[d] /\ result'[d] = result[d]
  BY <1>1 DEF LocalsOK
<1>5. InFlight' = InFlight \cup {c}
  BY <1>4 DEF InFlight
<1>6. Alone'
  BY <1>1, <1>5 DEF Alone
<1>7. Matching'
  BY <1>1, <1>2, <1>4, <1>5 DEF Matching
<1>8. OwnValues'
  BY <1>1, <1>4 DEF OwnValues
<1>9. \A d \in Clients : Done(d)' => d # c /\ Done(d)
  BY <1>1, <1>4 DEF Done
<1>10. NotedLast'
  <2>1. \A d \in Clients : Done(d) => Done(d)'
    BY <1>1, <1>4 DEF Done
  <2>2. overlapped \subseteq overlapped'
    BY <1>1
  <2> QED
    BY <1>1, <2>1, <2>2 DEF NotedLast
<1>11. ServedAlone'
  BY <1>1, <1>4, <1>9 DEF ServedAlone
<1>12. EndpointSet'
  <2> SUFFICES ASSUME Mismatched' = {} PROVE EndpointSet'
    BY DEF EndpointSet
  <2>1. Mismatched = {}
    BY <1>1, <1>4 DEF Mismatched
  <2>2. "endPoint" \in todo'[c]
    BY <1>4 DEF Fields
  <2> QED
    BY <1>1, <1>4, <2>1, <2>2 DEF EndpointSet
<1>13. OwnMatches'
  <2>1. \A d \in Clients : Unmatched(d)' => d # c /\ Unmatched(d)
    BY <1>1, <1>4 DEF Unmatched
  <2>2. \A d \in Clients : d # c => result'[c].match # d
    BY <1>2, <1>4, MockServerAssumption
  <2> QED
    BY <1>1, <1>4, <2>1, <2>2 DEF OwnMatches
<1> QED
  BY <1>3, <1>6, <1>7, <1>8, <1>10, <1>11, <1>12, <1>13

\* A request for the api of the server is neither matched nor recorded.
LEMMA SkipKeeps ==
    ASSUME IInv, NEW c \in Clients, SkipApiRequest(c)
    PROVE  IInv'
<1> USE DEF IInv
<1>1. /\ pc' = [pc EXCEPT ![c] = "done"] /\ pc[c] = "idle"
      /\ Head(req[c].path) \in ApiSegments
      /\ UNCHANGED <<actualResponse, shared, req, result, todo, view, response, overlapped>>
  BY DEF SkipApiRequest, Goto
<1>2. pc'[c] = "done" /\ \A d \in Clients \ {c} : pc'[d] = pc[d]
  BY <1>1 DEF LocalsOK
<1>3. InFlight' = InFlight
  BY <1>1, <1>2 DEF InFlight
<1>4. \A d \in Clients : Done(d)' <=> Done(d)
  BY <1>1, <1>2 DEF Done
<1>5. LocalsOK' /\ Alone'
  BY <1>1, <1>3 DEF LocalsOK, FourFields, Alone
<1>6. Matching'
  BY <1>1, <1>2, <1>3 DEF Matching
<1>7. OwnValues'
  BY <1>1, <1>2 DEF OwnValues
<1>8. NotedLast' /\ ServedAlone'
  BY <1>1, <1>4 DEF NotedLast, ServedAlone
<1>9. EndpointSet'
  <2>1. Mismatched' = Mismatched
    BY <1>1, <1>2 DEF Mismatched
  <2> QED
    BY <1>1, <1>2, <2>1 DEF EndpointSet
<1>10. OwnMatches'
  <2>1. \A d \in Clients : Unmatched(d)' => Unmatched(d)
    BY <1>1, <1>2 DEF Unmatched
  <2> QED
    BY <1>1, <2>1 DEF OwnMatches
<1> QED
  BY <1>5, <1>6, <1>7, <1>8, <1>9, <1>10

\* One of the four assignments.  Nobody but c is alone, so that only c's own
\* values are at stake; and the endpoint it assigns is none only after a mismatch.
LEMMA AssignKeeps ==
    ASSUME IInv, NEW c \in Clients, NEW f \in Fields, Assign(c, f)
    PROVE  IInv'
<1> USE DEF IInv
<1>1. /\ pc[c] = "assign" /\ f \in todo[c]
      /\ shared' = [shared EXCEPT ![f] = result[c][f]]
      /\ todo' = [todo EXCEPT ![c] = @ \ {f}]
      /\ pc' = [pc EXCEPT ![c] = IF todo[c] = {f} THEN "decide" ELSE "assign"]
      /\ UNCHANGED <<actualResponse, req, result, view, response, overlapped>>
  BY DEF Assign, Goto
<1>2. /\ pc'[c] = IF todo[c] = {f} THEN "decide" ELSE "assign"
      /\ todo'[c] = todo[c] \ {f}
      /\ \A d \in Clients \ {c} : pc'[d] = pc[d] /\ todo'[d] = todo[d]
  BY <1>1 DEF LocalsOK
<1>3. shared'[f] = result[c][f] /\ \A g \in Fields \ {f} : shared'[g] = shared[g]
  BY <1>1 DEF LocalsOK, FourFields
<1>4. InFlight' = InFlight /\ c \in InFlight
  BY <1>1, <1>2 DEF InFlight
<1>5. \A d \in Clients : Done(d)' <=> Done(d)
  BY <1>1, <1>2 DEF Done
<1>6. LocalsOK'
  BY <1>1 DEF LocalsOK, FourFields
<1>7. Alone' /\ Matching'
  BY <1>1, <1>4 DEF Alone, Matching
<1>8. OwnValues'
  <2> SUFFICES ASSUME NEW d \in Clients \ overlapped
               PROVE  /\ pc'[d] = "assign" => \A g \in Fields \ todo'[d] : shared'[g] = result[d][g]
                      /\ pc'[d] \in {"decide", "read", "render"} => \A g \in Fields : shared'[g] = result[d][g]
                      /\ pc'[d] \in {"read", "render"} => result[d].endPoint # <<>>
                      /\ pc'[d] = "read" => \A g \in Fields \ todo'[d] : view[d][g] = result[d][g]
                      /\ pc'[d] = "render" => view[d] = result[d]
    BY <1>1 DEF OwnValues
  <2>1. CASE d = c
    BY <1>1, <1>2, <1>3, <2>1 DEF OwnValues
  <2>2. CASE d # c
    <3> d \notin InFlight
      BY <1>4, <2>2 DEF Alone
    <3> QED
      BY <1>2, <2>2 DEF InFlight
  <2> QED
    BY <2>1, <2>2
<1>9. NotedLast' /\ ServedAlone'
  BY <1>1, <1>5 DEF NotedLast, ServedAlone
<1>10. EndpointSet'
  <2>1. Mismatched' = Mismatched
    BY <1>1, <1>2 DEF Mismatched
  <2> SUFFICES ASSUME Mismatched = {} PROVE EndpointSet'
    BY <2>1 DEF EndpointSet
  <2>2. result[c].endPoint # <<>>
    BY <1>1, <1>4 DEF Mismatched, Matching
  <2>3. CASE f = "endPoint"
    BY <1>1, <1>2, <1>3, <2>2, <2>3 DEF EndpointSet
  <2>4. CASE f # "endPoint"
    <3> shared'.endPoint = shared.endPoint
      BY <1>3, <2>4 DEF Fields
    <3> QED
      BY <1>1, <1>2, <2>4 DEF EndpointSet, Fields
  <2> QED
    BY <2>3, <2>4
<1>11. OwnMatches'
  <2>1. \A d \in Clients : Unmatched(d)' => Unmatched(d)
    BY <1>1, <1>2 DEF Unmatched
  <2>2. shared'.match \in {shared.match, result[c].match}
    BY <1>3 DEF Fields
  <2> QED
    BY <1>1, <2>1, <2>2 DEF OwnMatches
<1> QED
  BY <1>6, <1>7, <1>8, <1>9, <1>10, <1>11

\* The matcher returns; a request that is alone finds the endpoint it assigned.
LEMMA DecideKeeps ==
    ASSUME IInv, NEW c \in Clients, Decide(c)
    PROVE  IInv'
<1> USE DEF IInv
<1>1. /\ pc[c] = "decide"
      /\ UNCHANGED <<actualResponse, shared, req, result, view, overlapped>>
  BY DEF Decide
<1>2. c \in InFlight /\ Head(req[c].path) \notin ApiSegments
  BY <1>1 DEF InFlight, Matching
<1>3. c \notin overlapped => result[c].endPoint = shared.endPoint
  BY <1>1 DEF OwnValues, Fields
<1>4. CASE /\ shared.endPoint # <<>>
           /\ pc' = [pc EXCEPT ![c] = "read"] /\ todo' = [todo EXCEPT ![c] = Fields]
           /\ UNCHANGED response
  <2>1. /\ pc'[c] = "read" /\ todo'[c] = Fields
        /\ \A d \in Clients \ {c} : pc'[d] = pc[d] /\ todo'[d] = todo[d]
    BY <1>4 DEF LocalsOK
  <2>2. InFlight' = InFlight
    BY <1>2, <2>1 DEF InFlight
  <2>3. \A d \in Clients : Done(d)' <=> Done(d)
    BY <1>1, <2>1 DEF Done
  <2>4. LocalsOK'
    BY <1>1, <1>4 DEF LocalsOK, FourFields
  <2>5. Alone' /\ Matching'
    BY <1>1, <2>2 DEF Alone, Matching
  <2>6. OwnValues'
    BY <1>1, <1>3, <1>4, <2>1 DEF OwnValues
  <2>7. NotedLast' /\ ServedAlone'
    BY <1>1, <1>4, <2>3 DEF NotedLast, ServedAlone
  <2>8. EndpointSet'
    <3>1. Mismatched' = Mismatched /\ "endPoint" \in Fields
      BY <1>1, <2>1 DEF Mismatched, Fields
    <3> QED
      BY <1>1, <1>4, <2>1, <3>1 DEF EndpointSet
  <2>9. \A d \in Clients : Unmatched(d)' => Unmatched(d)
    BY <1>1, <2>1 DEF Unmatched
  <2>10. OwnMatches'
    BY <1>1, <2>9 DEF OwnMatches
  <2> QED
    BY <2>4, <2>5, <2>6, <2>7, <2>8, <2>10
<1>5. CASE /\ shared.endPoint = <<>>
           /\ pc' = [pc EXCEPT ![c] = "done"] /\ response' = [response EXCEPT ![c] = Failed("404")]
           /\ UNCHANGED todo
  <2>1. /\ pc'[c] = "done" /\ response'[c] = Failed("404")
        /\ \A d \in Clients \ {c} : pc'[d] = pc[d] /\ response'[d] = response[d]
    BY <1>5 DEF LocalsOK
  <2>2. InFlight' \subseteq InFlight
    BY <2>1 DEF InFlight
  <2>3. Done(c)' /\ \A d \in Clients \ {c} : Done(d)' <=> Done(d)
    BY <1>1, <1>2, <2>1 DEF Done
  <2>4. LocalsOK'
    BY <1>1, <1>5 DEF LocalsOK, FourFields
  <2>5. Alone' /\ Matching'
    BY <1>1, <2>2 DEF Alone, Matching
  <2>6. OwnValues'
    BY <1>1, <1>5, <2>1 DEF OwnValues
  <2>7. ServedAlone'
    BY <1>1, <1>3, <1>5, <2>1, <2>3 DEF ServedAlone
  <2>8. NotedLast'
    BY <1>1, <2>3 DEF NotedLast
  <2>9. EndpointSet'
    <3>1. Mismatched' = Mismatched
      BY <1>1, <2>1 DEF Mismatched
    <3>2. Mismatched # {}
      BY <1>1, <1>5 DEF EndpointSet
    <3> QED
      BY <3>1, <3>2 DEF EndpointSet
  <2>10. \A d \in Clients : Unmatched(d)' => Unmatched(d)
    BY <1>1, <1>2, <2>1 DEF Unmatched
  <2>11. OwnMatches'
    BY <1>1, <2>10 DEF OwnMatches
  <2> QED
    BY <2>4, <2>5, <2>6, <2>7, <2>8, <2>9, <2>11
<1> QED
  BY <1>4, <1>5 DEF Decide, Goto

\* One of the four reads.
LEMMA ReadKeeps ==
    ASSUME IInv, NEW c \in Clients, NEW f \in Fields, Read(c, f)
    PROVE  IInv'
<1> USE DEF IInv
<1>1. /\ pc[c] = "read" /\ f \in todo[c]
      /\ view' = [view EXCEPT ![c][f] = shared[f]]
      /\ todo' = [todo EXCEPT ![c] = @ \ {f}]
      /\ pc' = [pc EXCEPT ![c] = IF todo[c] = {f} THEN "render" ELSE "read"]
      /\ UNCHANGED <<actualResponse, shared, req, result, response, overlapped>>
  BY DEF Read, Goto
<1>2. /\ pc'[c] = IF todo[c] = {f} THEN "render" ELSE "read"
      /\ todo'[c] = todo[c] \ {f}
      /\ \A d \in Clients \ {c} : pc'[d] = pc[d] /\ todo'[d] = todo[d] /\ view'[d] = view[d]
  BY <1>1 DEF LocalsOK
<1>3. view'[c][f] = shared[f] /\ \A g \in Fields \ {f} : view'[c][g] = view[c][g]
  BY <1>1 DEF LocalsOK, FourFields
<1>4. InFlight' = InFlight /\ c \in InFlight
  BY <1>1, <1>2 DEF InFlight
<1>5. \A d \in Clients : (Done(d)' <=> Done(d)) /\ (Done(d) => d # c)
  BY <1>1, <1>2 DEF Done
<1>6. LocalsOK'
  BY <1>1 DEF LocalsOK, FourFields
<1>7. Alone' /\ Matching'
  BY <1>1, <1>4 DEF Alone, Matching
<1>8. OwnValues'
  <2>1. c \notin overlapped /\ todo[c] = {f} => \A g \in Fields : view'[c][g] = result[c][g]
    BY <1>1, <1>3 DEF OwnValues
  <2>2. c \notin overlapped /\ todo[c] = {f} => view'[c] = result[c]
    BY <1>1, <1>6, <2>1 DEF LocalsOK, FourFields
  <2>3. c \notin overlapped => \A g \in Fields \ todo'[c] : view'[c][g] = result[c][g]
    BY <1>1, <1>2, <1>3 DEF OwnValues
  <2> QED
    BY <1>1, <1>2, <2>2, <2>3 DEF OwnValues
<1>9. NotedLast'
  BY <1>1, <1>5 DEF NotedLast
<1>10. ServedAlone'
  BY <1>1, <1>2, <1>5 DEF ServedAlone
<1>11. EndpointSet'
  <2>1. Mismatched' = Mismatched
    BY <1>1, <1>2 DEF Mismatched
  <2>2. CASE f = "endPoint"
    BY <1>1, <1>2, <1>3, <2>1, <2>2 DEF EndpointSet
  <2>3. CASE f # "endPoint"
    <3> view'[c].endPoint = view[c].endPoint
      BY <1>3, <2>3 DEF Fields
    <3> QED
      BY <1>1, <1>2, <2>1, <2>3 DEF EndpointSet, Fields
  <2> QED
    BY <2>2, <2>3
<1>12. OwnMatches'
  <2>1. \A d \in Clients : Unmatched(d)' => Unmatched(d)
    BY <1>1, <1>2 DEF Unmatched
  <2>2. view'[c].match \in {view[c].match, shared.match}
    BY <1>3 DEF Fields
  <2> QED
    BY <1>1, <1>2, <2>1, <2>2 DEF OwnMatches
<1> QED
  BY <1>6, <1>7, <1>8, <1>9, <1>10, <1>11, <1>12

\* What a rendering does to the records: that of a request that is alone becomes what it
\* should be, others change only by one that is not.
LEMMA RenderNotes ==
    ASSUME IInv, NEW c \in Clients, RenderResponse(c)
    PROVE  /\ c \notin overlapped => actualResponse'[c] = IF serialised THEN "" ELSE response'[c].id
           /\ \A d \in Clients : actualResponse'[d] # actualResponse[d] =>
                 /\ ~serialised /\ view[c].match = d
                 /\ d # c => c \in overlapped
<1> USE DEF IInv
<1> DEFINE ep == view[c].endPoint
           id == ep[1].id
<1>1. PICK r : /\ pc[c] = "render"
               /\ response' = [response EXCEPT ![c] = r]
               /\ \/ /\ r = Failed("panic") \/ r = Failed("500")
                     /\ UNCHANGED actualResponse
                  \/ /\ r = Rendered(ep[1]) /\ (view[c].match = NoMatch \/ serialised)
                     /\ UNCHANGED actualResponse
                  \/ /\ r = Rendered(ep[1]) /\ ~serialised
                     /\ actualResponse' = [actualResponse EXCEPT ![view[c].match] = id]
  BY DEF RenderResponse, Respond, Goto
<1>2. response'[c] = r
  BY <1>1 DEF LocalsOK
<1>3. c \notin overlapped => view[c].match = c /\ c # NoMatch /\ actualResponse[c] = ""
  <2> SUFFICES ASSUME c \notin overlapped PROVE view[c].match = c /\ c # NoMatch /\ actualResponse[c] = ""
    OBVIOUS
  <2>1. ~Done(c)
    BY <1>1 DEF Done
  <2>2. actualResponse[c] = ""
    BY <2>1, Zenon DEF NotedLast
  <2>3. view[c] = result[c] /\ result[c].endPoint # <<>>
    BY <1>1 DEF OwnValues
  <2>4. result[c].match = c
    BY <2>3, Zenon DEF Matching
  <2> QED
    BY <2>2, <2>3, <2>4, MockServerAssumption
<1>4. actualResponse = [d \in Clients |-> actualResponse[d]]
  BY DEF LocalsOK
<1>5. CASE (r = Failed("panic") \/ r = Failed("500")) /\ UNCHANGED actualResponse
  <2>1. r.id = ""
    BY <1>5, FailedFacts
  <2> QED
    BY <1>2, <1>3, <1>5, <2>1, Zenon
<1>6. CASE r = Rendered(ep[1]) /\ (view[c].match = NoMatch \/ serialised) /\ UNCHANGED actualResponse
  BY <1>3, <1>6, Zenon
<1>7. CASE /\ r = Rendered(ep[1]) /\ ~serialised
           /\ actualResponse' = [actualResponse EXCEPT ![view[c].match] = id]
  <2>1. r.id = id
    BY <1>7, RenderedFacts
  <2> HIDE DEF id
  <2>2. \A d \in Clients : d # view[c].match => actualResponse'[d] = actualResponse[d]
    BY <1>4, <1>7
  <2>3. view[c].match = c => actualResponse'[c] = id
    BY <1>4, <1>7
  <2> QED
    BY <1>2, <1>3, <1>7, <2>1, <2>2, <2>3, Zenon
<1> QED
  BY <1>1, <1>5, <1>6, <1>7, Zenon

\* The response is rendered, or fails; its match is noted last.
LEMMA RenderKeeps ==
    ASSUME IInv, NEW c \in Clients, RenderResponse(c)
    PROVE  IInv'
<1> USE DEF IInv
<1> DEFINE ep == view[c].endPoint
<1>1. PICK r : /\ pc[c] = "render"
               /\ pc' = [pc EXCEPT ![c] = "done"] /\ response' = [response EXCEPT ![c] = r]
               /\ UNCHANGED <<shared, req, result, todo, view, overlapped>>
               /\ \/ /\ r = Failed("panic") \/ (ep # <<>> /\ r = Failed("500"))
                     /\ UNCHANGED actualResponse
                  \/ /\ ep # <<>> /\ r = Rendered(ep[1])
                     /\ UNCHANGED actualResponse
                  \/ /\ ep # <<>> /\ r = Rendered(ep[1])
                     /\ actualResponse' = [actualResponse EXCEPT ![view[c].match] = ep[1].id]
  BY DEF RenderResponse, Respond, Goto
<1>2. /\ pc'[c] = "done" /\ response'[c] = r
      /\ \A d \in Clients \ {c} : pc'[d] = pc[d] /\ response'[d] = response[d]
  BY <1>1 DEF LocalsOK
<1>3. c \in InFlight /\ Head(req[c].path) \notin ApiSegments /\ InFlight' \subseteq InFlight
  BY <1>1, <1>2 DEF InFlight, Matching
<1>4. ~Done(c) /\ Done(c)' /\ \A d \in Clients \ {c} : Done(d)' <=> Done(d)
  BY <1>1, <1>2, <1>3 DEF Done
<1>5. c \notin overlapped => view[c] = result[c] /\ ep # <<>> /\ view[c].match = c /\ c # NoMatch
  BY <1>1, MockServerAssumption DEF OwnValues, Matching
<1>6. LocalsOK'
  <2>1. actualResponse' = [d \in Clients |-> actualResponse'[d]]
    BY <1>1 DEF LocalsOK
  <2>2. response' = [d \in Clients |-> response'[d]]
    BY <1>1 DEF LocalsOK
  <2>3. pc' \in [Clients -> {"idle", "assign", "decide", "read", "render", "done"}]
    BY <1>1 DEF LocalsOK
  <2>4. UNCHANGED <<shared, result, todo, view>>
    BY <1>1
  <2> QED
    BY <2>1, <2>2, <2>3, <2>4 DEF LocalsOK, FourFields
<1>7. Alone' /\ Matching'
  BY <1>1, <1>3 DEF Alone, Matching
<1>8. OwnValues'
  BY <1>1, <1>2 DEF OwnValues
<1>9. ServedAlone'
  BY <1>1, <1>2, <1>4, <1>5 DEF ServedAlone
<1>10. NotedLast'
  <2> SUFFICES ASSUME NEW d \in Clients \ overlapped, ~Done(d)' PROVE actualResponse'[d] = ""
    BY <1>1 DEF NotedLast
  <2>1. d # c /\ ~Done(d) /\ actualResponse[d] = ""
    BY <1>4 DEF NotedLast
  <2>2. d \notin InFlight
    BY <1>3, <2>1 DEF Alone
  <2>3. Unmatched(d)
    BY <2>1, <2>2 DEF InFlight, Done, Unmatched
  <2>4. view[c].match # d
    BY <2>3 DEF OwnMatches
  <2> QED
    BY <2>1, <2>4, RenderNotes, Zenon
<1>11. EndpointSet'
  <2>1. Mismatched' = Mismatched
    BY <1>1, <1>2 DEF Mismatched
  <2>2. r.status # "404"
    BY <1>1, FailedFacts, RenderedFacts
  <2> QED
    BY <1>1, <1>2, <2>1, <2>2 DEF EndpointSet
<1>12. OwnMatches'
  <2>1. \A d \in Clients : Unmatched(d)' => Unmatched(d)
    BY <1>1, <1>2, <1>3 DEF Unmatched
  <2> QED
    BY <1>1, <2>1 DEF OwnMatches
<1> QED
  BY <1>6, <1>7, <1>8, <1>9, <1>10, <1>11, <1>12

\* Every step preserves the invariant.
LEMMA InvStep == IInv /\ [Next]_vars => IInv'
<1> SUFFICES ASSUME IInv, [Next]_vars PROVE IInv'
  OBVIOUS
<1>1. ASSUME UNCHANGED clientVars PROVE IInv'
  <2> USE <1>1 DEF clientVars, IInv
  <2>1. LocalsOK'
    BY DEF LocalsOK, FourFields
  <2>2. Alone' /\ Matching' /\ OwnValues'
    BY DEF Alone, InFlight, Matching, OwnValues
  <2>3. NotedLast' /\ ServedAlone' /\ OwnMatches'
    BY DEF NotedLast, ServedAlone, OwnMatches, Unmatched, Done
  <2>4. EndpointSet'
    BY DEF EndpointSet, Mismatched
  <2> QED
    BY <2>1, <2>2, <2>3, <2>4
<1>2. ASSUME NEW c \in Clients,
             Match(c) \/ SkipApiRequest(c) \/ Decide(c) \/ RenderResponse(c)
             \/ \E f \in Fields : Assign(c, f) \/ Read(c, f)
      PROVE  IInv'
  BY <1>2, MatchKeeps, SkipKeeps, DecideKeeps, RenderKeeps, AssignKeeps, ReadKeeps
<1>3. ASSUME NEW k \in StoreKeys, DeleteRecords(k) PROVE IInv'
  BY <1>1, <1>3 DEF DeleteRecords
<1>4. CASE Reload
  BY <1>1, <1>4 DEF Reload
<1>5. CASE UNCHANGED vars
  BY <1>1, <1>5 DEF vars
<1> QED
  BY <1>2, <1>3, <1>4, <1>5 DEF Next

\* The invariant holds in every reachable state.
LEMMA Inv == Spec => []IInv
  BY InvInit, InvStep, PTL DEF Spec

-----------------------------------------------------------------------------
(* Their theorems. *)

\* A request during which no other one is served gets what its matcher found, with
\* its own parameters, although everything passes through variables of all requests;
\* reloads and deletions in between do not matter.
THEOREM AloneIsServed == Spec => []ServedAlone
<1>1. IInv => ServedAlone
  BY DEF IInv
<1> QED
  BY <1>1, Inv, PTL

\* A step that ends a request: the decision or the rendering.
LEMMA EndingStep ==
    ASSUME IInv, Next, NEW c \in Clients, Done(c)', ~Done(c), c \notin overlapped'
    PROVE  actualResponse'[c] = IF serialised THEN "" ELSE response'[c].id
<1> USE DEF IInv
<1>1. req' = req /\ Head(req[c].path) \notin ApiSegments /\ pc[c] # "done" /\ pc'[c] = "done"
  <2>1. req' = req
    BY DEF Next, Match, SkipApiRequest, Decide, RenderResponse, Assign, Read, DeleteRecords, Reload, clientVars
  <2> QED
    BY <2>1 DEF Done
<1>2. CASE RenderResponse(c)
  <2>1. c \notin overlapped
    BY <1>2 DEF RenderResponse
  <2> QED
    BY <1>2, <2>1, RenderNotes, Zenon
<1>3. CASE Decide(c)
  <2>1. UNCHANGED <<actualResponse, overlapped>>
    BY <1>3 DEF Decide
  <2>2. actualResponse[c] = ""
    BY <2>1 DEF NotedLast
  <2>3. pc' = [pc EXCEPT ![c] = "done"] /\ response' = [response EXCEPT ![c] = Failed("404")]
    BY <1>1, <1>3 DEF Decide, Goto, LocalsOK
  <2>4. response'[c].id = ""
    <3>1. response'[c] = Failed("404")
      BY <2>3 DEF LocalsOK
    <3> QED
      BY <3>1, FailedFacts
  <2> QED
    BY <2>1, <2>2, <2>4, Zenon
<1>4. CASE Match(c) \/ SkipApiRequest(c) \/ \E f \in Fields : Assign(c, f) \/ Read(c, f)
  <2>1. PICK x \in {"assign", "decide", "read", "render"} : pc' = [pc EXCEPT ![c] = x]
    BY <1>1, <1>4 DEF Match, SkipApiRequest, Assign, Read, Goto
  <2> QED
    BY <1>1, <2>1 DEF LocalsOK
<1>5. ASSUME NEW d \in Clients \ {c}, NEW x, pc' = [pc EXCEPT ![d] = x] PROVE FALSE
  BY <1>1, <1>5 DEF LocalsOK
<1>6. CASE \E d \in Clients \ {c} :
              \/ Match(d) \/ SkipApiRequest(d) \/ Decide(d) \/ RenderResponse(d)
              \/ \E f \in Fields : Assign(d, f) \/ Read(d, f)
  <2>1. \E d \in Clients \ {c} : \E x : pc' = [pc EXCEPT ![d] = x]
    BY <1>6, Zenon DEF Match, SkipApiRequest, Assign, Read, Decide, RenderResponse, Respond, Goto
  <2> QED
    BY <1>5, <2>1
<1>7. CASE (\E k \in StoreKeys : DeleteRecords(k)) \/ Reload
  BY <1>1, <1>7 DEF DeleteRecords, Reload, clientVars
<1> QED
  BY <1>2, <1>3, <1>4, <1>6, <1>7 DEF Next

\* A step after the end of a request.
LEMMA LaterStep ==
    ASSUME IInv, Next, NEW c \in Clients, Done(c), actualResponse'[c] # actualResponse[c]
    PROVE  ~serialised /\ overlapped \cap InFlight # {}
<1>1. PICK d \in Clients : RenderResponse(d)
  BY DEF Next, Match, SkipApiRequest, Decide, Assign, Read, DeleteRecords, Reload, clientVars
<1>2. d # c /\ d \in InFlight
  BY <1>1 DEF RenderResponse, Done, InFlight
<1> QED
  BY <1>1, <1>2, RenderNotes

\* For any number of requests: the recorded match of one that nobody overlaps has, when
\* it ends, a response exactly if one was rendered for it and the store keeps pointers;
\* whatever overlapped before, and until others overlap.
THEOREM AloneIsRecorded == Spec => RecordedAlone
<1> DEFINE A == \A c \in Clients :
                   /\ Done(c)' /\ ~Done(c) /\ c \notin overlapped' =>
                         actualResponse'[c] = IF serialised THEN "" ELSE response'[c].id
                   /\ Done(c) /\ actualResponse'[c] # actualResponse[c] =>
                         ~serialised /\ overlapped \cap InFlight # {}
<1>1. IInv /\ Next => A
  BY EndingStep, LaterStep, Zenon
<1>2. IInv /\ [Next]_vars => [A]_vars
  <2> HIDE DEF A
  <2> QED
    BY <1>1
<1> HIDE DEF A
<1>3. Spec => [][A]_vars
  BY <1>2, Inv, PTL DEF Spec
<1> QED
  BY <1>3 DEF RecordedAlone, A

\* However the assignments and reads of any number of requests interleave, a 404 or
\* a nil endpoint in renderResponse has its cause in a request that mismatched.
THEOREM LossNeedsMismatch == Spec => []LostOnlyToMismatch
<1>1. IInv => LostOnlyToMismatch
  BY DEF IInv, EndpointSet, LostOnlyToMismatch
<1> QED
  BY <1>1, Inv, PTL

-----------------------------------------------------------------------------
(* The types of what the requests hand over. *)

\* What a request is served by was registered.
LEMMA ServedIsEndpoint ==
    ASSUME NEW tree, TreeShape(tree), Placed(tree), NEW rq \in Requests,
           matchRequestToEndpoint(tree, rq).endpoint # <<>>
    PROVE  matchRequestToEndpoint(tree, rq).endpoint[1] \in Endpoints
<1> DEFINE served == matchRequestToEndpoint(tree, rq).endpoint
<1>1. \E x : served = <<x>>
  BY Zenon DEF matchRequestToEndpoint
<1>2. served[1] \in ToSet(served)
  BY <1>1 DEF ToSet
<1> QED
  BY <1>2, ServedThere, Zenon

\* The outcomes of a request, and the ids that a match may carry.
Responses == {Failed(s) : s \in {"none", "404", "500", "panic"}} \cup [status : {"rendered"}, id : EndpointIDs]
NotedIDs == {""} \cup EndpointIDs

\* A value of the four variables: a match is somebody's, an endpoint has a known id.
Held(h) ==
    /\ h.match \in Clients \cup {NoMatch}
    /\ h.endPoint # <<>> => h.endPoint[1].id \in EndpointIDs

\* All that is in the variables and in the locals of the goroutines.
TypesInv ==
    /\ LoaderInv
    /\ serialised \in BOOLEAN
    /\ req \in [Clients -> Requests]
    /\ Held(shared)
    /\ \A c \in Clients : Held(result[c]) /\ Held(view[c])
    /\ \A c \in Clients : result[c].match = NoMatch <=> result[c].endPoint = <<>>
    /\ \A c \in Clients : pc[c] \in {"assign", "read"} <=> todo[c] # {}
    /\ \A c \in Clients : response[c] \in Responses
    /\ \A c \in Clients : actualResponse[c] \in NotedIDs

\* The responses that are given.
LEMMA ResponseFacts ==
    /\ \A s \in {"none", "404", "500", "panic"} : Failed(s) \in Responses
    /\ \A ep : ep.id \in EndpointIDs => Rendered(ep) \in Responses
<1>1. \A s \in {"none", "404", "500", "panic"} : Failed(s) \in Responses
  BY Zenon DEF Responses
<1>2. ASSUME NEW ep, ep.id \in EndpointIDs PROVE Rendered(ep) \in Responses
  <2>1. Rendered(ep) \in [status : {"rendered"}, id : EndpointIDs]
    BY <1>2 DEF Rendered
  <2> QED
    BY <2>1, Zenon DEF Responses
<1> QED
  BY <1>1, <1>2

\* The endpoints of a load have ids of their own.
LEMMA EndpointIDFacts == \A ep \in Endpoints : ep.id \in EndpointIDs
  BY StoreKeysAssumption DEF Endpoints

\* Before the first request.
LEMMA TypesInit == Init => TypesInv
<1> SUFFICES ASSUME Init PROVE TypesInv
  OBVIOUS
<1>1. LoaderInv /\ req \in [Clients -> Requests] /\ serialised \in BOOLEAN
  BY LoaderInvInit DEF Init
<1>2. Held(Nil) /\ Nil.match = NoMatch /\ Nil.endPoint = <<>>
  BY DEF Held, Nil
<1>3. /\ shared = Nil /\ \A c \in Clients : result[c] = Nil /\ view[c] = Nil
      /\ \A c \in Clients : pc[c] = "idle" /\ todo[c] = {}
  BY DEF Init
<1>4. \A c \in Clients : response[c] \in Responses
  BY ResponseFacts DEF Init
<1>5. \A c \in Clients : actualResponse[c] \in NotedIDs
  <2>1. \A c \in Clients : actualResponse[c] = Empty
    BY Zenon DEF Init, Empty
  <2>2. Empty \in NotedIDs
    BY Zenon DEF NotedIDs, Empty
  <2> QED
    BY <2>1, <2>2
<1>6. \A c \in Clients : pc[c] \in {"assign", "read"} <=> todo[c] # {}
  BY <1>3
<1> QED
  BY <1>1, <1>2, <1>3, <1>4, <1>5, <1>6 DEF TypesInv

\* The variables that only reloads change.
LEMMA LoaderKeeps == TypesInv /\ UNCHANGED loaderVars => LoaderInv'
  BY LoaderInvStep DEF TypesInv

\* The matcher: what it found is an endpoint of the installed tree.
LEMMA MatchTypes ==
    ASSUME TypesInv, LocalsOK, NEW c \in Clients, Match(c)
    PROVE  TypesInv'
<1> DEFINE m == matchRequestToEndpoint(EpSearchNode, req[c])
           x == results(c, m)
<1>1. /\ result' = [result EXCEPT ![c] = x] /\ todo' = [todo EXCEPT ![c] = Fields]
      /\ pc' = [pc EXCEPT ![c] = "assign"]
      /\ UNCHANGED <<loaderVars, serialised, actualResponse, shared, req, view, response>>
  BY DEF Match, Goto
<1>2. req[c] \in Requests /\ TreeShape(EpSearchNode) /\ Placed(EpSearchNode)
  BY DEF TypesInv, LoaderInv, TreeOK
<1>3. m.endpoint # <<>> => m.endpoint[1].id \in EndpointIDs
  BY <1>2, ServedIsEndpoint, EndpointIDFacts
<1>4. x.endPoint = m.endpoint /\ x.match = IF m.endpoint = <<>> THEN NoMatch ELSE c
  BY DEF results
<1> HIDE DEF m, x
<1>5. Held(x) /\ (x.match = NoMatch <=> x.endPoint = <<>>)
  BY <1>3, <1>4, MockServerAssumption DEF Held
<1>6. /\ result'[c] = x /\ todo'[c] = Fields /\ pc'[c] = "assign"
      /\ \A d \in Clients \ {c} : result'[d] = result[d] /\ todo'[d] = todo[d] /\ pc'[d] = pc[d]
  BY <1>1 DEF LocalsOK
<1>7. LoaderInv'
  BY <1>1, LoaderKeeps
<1>8. Fields # {}
  BY DEF Fields
<1>9. \A d \in Clients : pc'[d] \in {"assign", "read"} <=> todo'[d] # {}
  BY <1>6, <1>8 DEF TypesInv
<1>10. \A d \in Clients : Held(result'[d]) /\ (result'[d].match = NoMatch <=> result'[d].endPoint = <<>>)
  BY <1>5, <1>6 DEF TypesInv
<1> QED
  BY <1>1, <1>7, <1>9, <1>10 DEF TypesInv, Held

\* An assignment moves a value of the matcher to the shared variables.
LEMMA AssignTypes ==
    ASSUME TypesInv, LocalsOK, NEW c \in Clients, NEW f \in Fields, Assign(c, f)
    PROVE  TypesInv'
<1>1. /\ pc[c] = "assign" /\ f \in todo[c]
      /\ shared' = [shared EXCEPT ![f] = result[c][f]]
      /\ todo' = [todo EXCEPT ![c] = @ \ {f}]
      /\ pc' = [pc EXCEPT ![c] = IF todo[c] = {f} THEN "decide" ELSE "assign"]
      /\ UNCHANGED <<loaderVars, serialised, actualResponse, req, result, view, response>>
  BY DEF Assign, Goto
<1>2. LoaderInv'
  BY <1>1, LoaderKeeps
<1>3. /\ shared'.match \in {shared.match, result[c].match}
      /\ shared'.endPoint \in {shared.endPoint, result[c].endPoint}
  BY <1>1 DEF LocalsOK, FourFields, Fields
<1>4. Held(shared)'
  BY <1>3 DEF TypesInv, Held
<1>5. /\ todo'[c] = todo[c] \ {f} /\ pc'[c] = IF todo[c] = {f} THEN "decide" ELSE "assign"
      /\ \A d \in Clients \ {c} : todo'[d] = todo[d] /\ pc'[d] = pc[d]
  BY <1>1 DEF LocalsOK
<1>6. \A d \in Clients : pc'[d] \in {"assign", "read"} <=> todo'[d] # {}
  BY <1>1, <1>5 DEF TypesInv
<1> QED
  BY <1>1, <1>2, <1>4, <1>6 DEF TypesInv, Held

\* A read moves a value of the shared variables to the goroutine.
LEMMA ReadTypes ==
    ASSUME TypesInv, LocalsOK, NEW c \in Clients, NEW f \in Fields, Read(c, f)
    PROVE  TypesInv'
<1>1. /\ pc[c] = "read" /\ f \in todo[c]
      /\ view' = [view EXCEPT ![c][f] = shared[f]]
      /\ todo' = [todo EXCEPT ![c] = @ \ {f}]
      /\ pc' = [pc EXCEPT ![c] = IF todo[c] = {f} THEN "render" ELSE "read"]
      /\ UNCHANGED <<loaderVars, serialised, actualResponse, shared, req, result, response>>
  BY DEF Read, Goto
<1>2. LoaderInv'
  BY <1>1, LoaderKeeps
<1>3. /\ view'[c].match \in {view[c].match, shared.match}
      /\ view'[c].endPoint \in {view[c].endPoint, shared.endPoint}
      /\ \A d \in Clients \ {c} : view'[d] = view[d]
  BY <1>1 DEF LocalsOK, FourFields, Fields
<1>4. \A d \in Clients : Held(view'[d])
  BY <1>3 DEF TypesInv, Held
<1>5. /\ todo'[c] = todo[c] \ {f} /\ pc'[c] = IF todo[c] = {f} THEN "render" ELSE "read"
      /\ \A d \in Clients \ {c} : todo'[d] = todo[d] /\ pc'[d] = pc[d]
  BY <1>1 DEF LocalsOK
<1>6. \A d \in Clients : pc'[d] \in {"assign", "read"} <=> todo'[d] # {}
  BY <1>1, <1>5 DEF TypesInv
<1> QED
  BY <1>1, <1>2, <1>4, <1>6 DEF TypesInv, Held

\* A request that ends with a response.
LEMMA RespondTypes ==
    ASSUME TypesInv, LocalsOK, NEW c \in Clients, pc[c] \notin {"assign", "read"},
           NEW v, v \in Responses, Respond(c, v),
           \A d \in Clients : actualResponse'[d] \in NotedIDs,
           UNCHANGED <<loaderVars, serialised, shared, req, result, todo, view>>
    PROVE  TypesInv'
<1>1. pc' = [pc EXCEPT ![c] = "done"] /\ response' = [response EXCEPT ![c] = v]
  BY DEF Respond, Goto
<1>2. /\ pc'[c] = "done" /\ response'[c] = v
      /\ \A d \in Clients \ {c} : pc'[d] = pc[d] /\ response'[d] = response[d]
  BY <1>1 DEF LocalsOK
<1>3. LoaderInv'
  BY LoaderKeeps
<1>4. \A d \in Clients : pc'[d] \in {"assign", "read"} <=> todo'[d] # {}
  BY <1>2 DEF TypesInv
<1>5. \A d \in Clients : response'[d] \in Responses
  BY <1>2 DEF TypesInv
<1> QED
  BY <1>3, <1>4, <1>5 DEF TypesInv, Held

\* The decision of the matcher.
LEMMA DecideTypes ==
    ASSUME TypesInv, LocalsOK, NEW c \in Clients, Decide(c)
    PROVE  TypesInv'
<1>1. /\ pc[c] = "decide"
      /\ UNCHANGED <<loaderVars, serialised, actualResponse, shared, req, result, view>>
  BY DEF Decide
<1>2. \A d \in Clients : actualResponse'[d] \in NotedIDs
  BY <1>1 DEF TypesInv
<1>3. CASE pc' = [pc EXCEPT ![c] = "read"] /\ todo' = [todo EXCEPT ![c] = Fields] /\ response' = response
  <2>1. /\ pc'[c] = "read" /\ todo'[c] = Fields
        /\ \A d \in Clients \ {c} : pc'[d] = pc[d] /\ todo'[d] = todo[d]
    BY <1>3 DEF LocalsOK
  <2>2. Fields # {}
    BY DEF Fields
  <2>3. \A d \in Clients : pc'[d] \in {"assign", "read"} <=> todo'[d] # {}
    BY <2>1, <2>2 DEF TypesInv
  <2>4. LoaderInv'
    BY <1>1, LoaderKeeps
  <2> QED
    BY <1>1, <1>3, <2>3, <2>4 DEF TypesInv, Held
<1>4. CASE pc' = [pc EXCEPT ![c] = "done"] /\ response' = [response EXCEPT ![c] = Failed("404")] /\ todo' = todo
  <2>1. Respond(c, Failed("404")) /\ Failed("404") \in Responses
    BY <1>4, ResponseFacts DEF Respond, Goto
  <2> QED
    BY <1>1, <1>2, <1>4, <2>1, RespondTypes
<1> QED
  BY <1>3, <1>4 DEF Decide, Goto

\* The response: the id that is noted and sent is that of the endpoint the goroutine
\* has read, whoever put it there.
LEMMA RenderTypes ==
    ASSUME TypesInv, LocalsOK, NEW c \in Clients, RenderResponse(c)
    PROVE  TypesInv'
<1> DEFINE v == view[c]
           id == v.endPoint[1].id
<1>1. /\ pc[c] \notin {"assign", "read"}
      /\ UNCHANGED <<loaderVars, serialised, shared, req, result, todo, view>>
  BY DEF RenderResponse
<1>2. v.match \in Clients \cup {NoMatch} /\ (v.endPoint # <<>> => id \in EndpointIDs)
  BY DEF TypesInv, Held
<1>3. \A d \in Clients : actualResponse'[d] \in NotedIDs
  <2>1. CASE actualResponse' = actualResponse
    BY <2>1 DEF TypesInv
  <2>2. CASE v.endPoint # <<>> /\ v.match # NoMatch /\ actualResponse' = [actualResponse EXCEPT ![v.match] = id]
    <3>1. id \in NotedIDs
      BY <1>2, <2>2, Zenon DEF NotedIDs
    <3>2. v.match \in Clients
      BY <1>2, <2>2
    <3> HIDE DEF id, v
    <3> QED
      BY <2>2, <3>1, <3>2 DEF TypesInv, LocalsOK
  <2> QED
    BY <2>1, <2>2 DEF RenderResponse
<1>4. \E x \in Responses : Respond(c, x)
  <2>1. /\ Failed("500") \in Responses /\ Failed("panic") \in Responses
        /\ v.endPoint # <<>> => Rendered(v.endPoint[1]) \in Responses
    BY <1>2, ResponseFacts
  <2> QED
    BY <2>1, Zenon DEF RenderResponse
<1> QED
  BY <1>1, <1>3, <1>4, RespondTypes

\* A request of the api.
LEMMA SkipTypes ==
    ASSUME TypesInv, LocalsOK, NEW c \in Clients, SkipApiRequest(c)
    PROVE  TypesInv'
<1>1. /\ pc[c] = "idle" /\ pc' = [pc EXCEPT ![c] = "done"]
      /\ UNCHANGED <<loaderVars, serialised, actualResponse, shared, req, result, todo, view, response>>
  BY DEF SkipApiRequest, Goto
<1>2. pc'[c] = "done" /\ \A d \in Clients \ {c} : pc'[d] = pc[d]
  BY <1>1 DEF LocalsOK
<1>3. LoaderInv'
  BY <1>1, LoaderKeeps
<1>4. \A d \in Clients : pc'[d] \in {"assign", "read"} <=> todo'[d] # {}
  BY <1>1, <1>2 DEF TypesInv
<1> QED
  BY <1>1, <1>3, <1>4 DEF TypesInv, Held

\* Every step, the reloads among them.
LEMMA TypesStep == IInv /\ TypesInv /\ [Next]_vars => TypesInv'
<1> SUFFICES ASSUME LocalsOK, TypesInv, [Next]_vars PROVE TypesInv'
  BY DEF IInv
<1>1. ASSUME UNCHANGED clientVars, LoaderInv' PROVE TypesInv'
  BY <1>1 DEF clientVars, TypesInv, Held
<1>2. ASSUME NEW c \in Clients,
             Match(c) \/ SkipApiRequest(c) \/ Decide(c) \/ RenderResponse(c)
             \/ \E f \in Fields : Assign(c, f) \/ Read(c, f)
      PROVE  TypesInv'
  BY <1>2, MatchTypes, SkipTypes, DecideTypes, RenderTypes, AssignTypes, ReadTypes
<1>3. ASSUME NEW k \in StoreKeys, DeleteRecords(k) PROVE TypesInv'
  <2>1. UNCHANGED <<loaderVars, clientVars>>
    BY <1>3 DEF DeleteRecords
  <2> QED
    BY <1>1, <2>1, LoaderKeeps
<1>4. CASE Reload
  <2>1. LoaderInv'
    BY <1>4, LoaderInvStep DEF Reload, TypesInv
  <2> QED
    BY <1>1, <1>4, <2>1 DEF Reload
<1>5. CASE UNCHANGED vars
  BY <1>1, <1>5, LoaderKeeps DEF vars
<1> QED
  BY <1>2, <1>3, <1>4, <1>5 DEF Next

\* For any interleaving of requests and reloads, the trees stay sound, a request under
\* way has something left to assign or to read, and every id that is sent or noted is
\* that of an endpoint that was loaded.
THEOREM ServerTypes == Spec => []TypeOK
<1>1. IInv /\ TypesInv => TypeOK
  <2> SUFFICES ASSUME LocalsOK, TypesInv PROVE TypeOK
    BY DEF IInv
  <2>1. LoaderTypeOK
    BY LoaderTypes DEF TypesInv
  <2>2. DOMAIN shared = Fields /\ shared.match \in Clients \cup {NoMatch}
    BY DEF LocalsOK, FourFields, TypesInv, Held
  <2>3. response \in [Clients -> Responses]
    BY DEF LocalsOK, TypesInv
  <2>4. actualResponse \in [Clients -> NotedIDs]
    BY DEF LocalsOK, TypesInv
  <2>5. pc \in [Clients -> {"idle", "assign", "decide", "read", "render", "done"}] /\ todo \in [Clients -> SUBSET Fields]
    BY DEF LocalsOK
  <2>6. /\ \A c \in Clients : result[c].match = NoMatch <=> result[c].endPoint = <<>>
        /\ \A c \in Clients : pc[c] \in {"assign", "read"} <=> todo[c] # {}
    BY DEF TypesInv
  <2>7. serialised \in BOOLEAN
    BY DEF TypesInv
  <2> QED
    BY <2>1, <2>2, <2>3, <2>4, <2>5, <2>6, <2>7, Zenon DEF TypeOK, Responses, NotedIDs
<1> QED
  BY <1>1, TypesInit, TypesStep, Inv, PTL DEF Spec
=============================================================================
