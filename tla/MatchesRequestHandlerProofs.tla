-------------------- MODULE MatchesRequestHandlerProofs --------------------
(***************************************************************************)
(* For any cluster, any number of calls, recorded requests and crashes: a  *)
(* delete that succeeded has reached every host, a list that succeeded has *)
(* no request twice, keeps the order and is complete but for the hosts     *)
(* that lost all they had listed, a count that succeeded lies between what *)
(* was counted when it began and when it ended, and without a fault every  *)
(* call succeeds.                                                          *)
(***************************************************************************)
EXTENDS MatchesRequestHandler, ListFacts, TLAPS

-----------------------------------------------------------------------------
(* The inductive invariant. *)

CallFields == {"pc", "n", "op", "key", "peer", "lists", "total", "err", "from"}
Labels == {"idle", "next", "wait", "reply", "broken", "done"}

\* The oldest first.
Rising(s) == \A i, j \in 1..Len(s) : i < j => s[i] < s[j]

StoreOK ==
    /\ matches \in [Hosts -> [Keys -> Seq(Nat)]]
    /\ count \in [Hosts -> [Keys -> Nat]]
    /\ recorded \in Nat /\ calls \in Nat /\ crashes \in Nat
    /\ \A h \in Hosts, k \in Keys :
          /\ ToSet(matches[h][k]) \subseteq 1..recorded /\ Len(matches[h][k]) <= Capacity
          /\ count[h][k] \in Len(matches[h][k])..recorded
          /\ Rising(matches[h][k])
    /\ up \subseteq Hosts
    /\ \A m \in sent : m.to \in Hosts \cap PeerHosts /\ m.n \in 1..calls /\ m.key \in Keys

\* What a walk along a list has got so far, whatever became of the list meanwhile: all
\* that is left of the list up to the last element it has reached, which is still in
\* the list unless all of that is gone.
WalkOf(got, list) ==
    /\ got \in Seq(Nat) /\ got # <<>> /\ Rising(got)
    /\ \A x \in ToSet(list) : x <= Last(got) => x \in ToSet(got)
    /\ Last(got) \in ToSet(list) \/ \A x \in ToSet(list) : x > Last(got)

WalkOK(w) ==
    /\ w = [req |-> w.req, got |-> w.got] /\ w.req.op = "Get"
    /\ w.req.to \in Hosts \cap PeerHosts /\ w.req.n \in 1..calls /\ w.req.key \in Keys
    /\ WalkOf(w.got, Listing(w)) /\ ToSet(w.got) \subseteq 1..recorded

WalksOK == \A w \in walks : WalkOK(w)

\* A call while n calls have begun.
CallOK(r, n) ==
    /\ r = [f \in CallFields |-> r[f]]
    /\ r.pc \in Labels /\ r.n \in 0..n /\ r.key \in Keys /\ r.peer \in 1..Len(Peers)
    /\ r.lists \in Seq(Seq(Nat)) /\ Len(r.lists) <= Len(Peers) /\ r.err \in BOOLEAN
    /\ r.pc = "idle" => r = NoCall
    /\ r.pc \notin {"idle", "done"} => r.n > 0 /\ r.op \in Ops /\ ~r.err
    /\ r.pc \in {"next", "wait"} => Len(r.lists) = r.peer - 1
    /\ r.pc = "reply" => Len(r.lists) = r.peer
    /\ r.pc = "done" /\ r.op \in Ops /\ ~r.err => Len(r.lists) = Len(Peers)

CallsOK ==
    /\ call = [c \in Clients |-> call[c]]
    /\ \A c \in Clients : CallOK(call[c], calls)

\* The answer got of a host has all that the host stores of kept, or it was cut off and
\* nothing in it is stored any more.
Answered(kept, got, list) ==
    \/ kept \cap ToSet(list) \subseteq ToSet(got)
    \/ got # <<>> /\ ToSet(got) \cap ToSet(list) = {}

\* What is stored all along since the call began and still is at a peer that has
\* answered, was in its answer unless that was cut off; the answers and those under way
\* hold nothing that was not stored since then, and those to a delete are empty.
Gathered(c) ==
    LET r == call[c] IN
    r.pc # "idle" /\ r.op \in {"Get", "Delete"} =>
        /\ stay[c] \subseteq Stored(r.key)
        /\ r.op = "Get" => /\ Stored(r.key) \subseteq seen[c] /\ seen[c] \subseteq 1..recorded
                           /\ \A w \in walks : w.req.n = r.n /\ w.req.key = r.key =>
                                                  ToSet(w.got) \subseteq seen[c]
        /\ \A i \in 1..Len(r.lists) :
              /\ Answered(stay[c], r.lists[i], matches[Peers[i].host][r.key])
              /\ r.op = "Get" => ToSet(r.lists[i]) \subseteq seen[c] /\ Distinct(r.lists[i])
              /\ r.op = "Delete" => r.lists[i] = <<>>

IInv == StoreOK /\ WalksOK /\ CallsOK /\ \A c \in Clients : Gathered(c)

\* A host holds a request: in its store, or as an answer to a call or part of one.
Holds(h, k, x) ==
    \/ x \in ToSet(matches[h][k])
    \/ \E w \in walks : w.req.to = h /\ w.req.key = k /\ x \in ToSet(w.got)
    \/ \E c \in Clients :
          /\ call[c].pc # "idle" /\ call[c].op = "Get" /\ call[c].key = k
          /\ \E i \in 1..Len(call[c].lists) : Peers[i].host = h /\ x \in ToSet(call[c].lists[i])

\* No request is held by two hosts.
Apart == \A h, g \in Hosts, k \in Keys, x \in Nat : Holds(h, k, x) /\ Holds(g, k, x) => h = g

-----------------------------------------------------------------------------
(* Constants, lists and records. *)

\* As for the key-value store: there is at least one peer, and peers are hosts.
LEMMA PeersFacts ==
    /\ Len(Peers) \in Nat \ {0} /\ DOMAIN Peers = 1..Len(Peers)
    /\ DOMAIN Peers \subseteq 1..Len(ClusterHostnames)
    /\ \A i \in DOMAIN Peers : Peers[i].host \in Hosts
    /\ \A i \in DOMAIN Peers : LET p == ClusterHostnames[i].port
                               IN  Peers[i].port = IF p # 0 THEN p ELSE MatchstorePort
<1> DEFINE names == validate(ClusterHostnames)
           A == [host : Hosts \cup {NoHost}, port : Nat]
<1>1. ClusterHostnames \in Seq(A) /\ Len(ClusterHostnames) > 1
  BY ClusterAssumption
<1>2. names \in {ClusterHostnames, SubSeq(ClusterHostnames, 1, Len(ClusterHostnames) - 1)}
  BY DEF validate
<1>3. /\ Len(names) \in Nat \ {0} /\ DOMAIN names = 1..Len(names)
      /\ 1..Len(names) \subseteq 1..Len(ClusterHostnames)
      /\ \A i \in 1..Len(names) : names[i] = ClusterHostnames[i] /\ ClusterHostnames[i] \in A
  <2> HIDE DEF A, names
  <2> QED
    BY <1>1, <1>2, DropLastFacts
<1>4. \A i \in 1..Len(names) : names[i].host \in Hosts
  <2>1. CASE ClusterHostnames[Len(ClusterHostnames)].host = NoHost
    <3>1. Len(names) = Len(ClusterHostnames) - 1
      BY <1>1, <2>1 DEF validate
    <3> QED
      BY <1>3, <3>1, ClusterAssumption
  <2>2. CASE ClusterHostnames[Len(ClusterHostnames)].host # NoHost
    <3> names = ClusterHostnames
      BY <2>2 DEF validate
    <3> QED
      BY <1>1, <1>3, <2>2, ClusterAssumption
  <2> QED
    BY <2>1, <2>2
<1> HIDE DEF names
<1>5. Peers = [i \in 1..Len(names) |->
                 [host |-> names[i].host, port |-> IF names[i].port # 0 THEN names[i].port ELSE MatchstorePort]]
  BY <1>3 DEF Peers, matchstoreAddresses, createAddresses, names
<1>6. Len(Peers) = Len(names)
  BY <1>3, <1>5
<1> QED
  BY <1>3, <1>4, <1>5, <1>6

\* A list within its capacity is kept, of a longer one the newest.
LEMMA NewestFacts ==
    ASSUME NEW s \in Seq(Nat), NEW n \in Nat
    PROVE  /\ Newest(s, n) \in Seq(Nat)
           /\ Len(Newest(s, n)) <= n /\ Len(Newest(s, n)) <= Len(s)
           /\ ToSet(Newest(s, n)) \subseteq ToSet(s)
<1>1. Len(s) \in Nat /\ DOMAIN s = 1..Len(s) /\ \A i \in 1..Len(s) : s[i] \in Nat
  OBVIOUS
<1>2. CASE Len(s) <= n
  BY <1>1, <1>2 DEF Newest
<1>3. CASE Len(s) > n
  <2> DEFINE a == Len(s) - n + 1
             t == SubSeq(s, a, Len(s))
  <2>1. a \in Int /\ a >= 1 /\ a <= Len(s) + 1 /\ \A i \in a..Len(s) : s[i] \in Nat
    BY <1>1, <1>3
  <2>2. /\ t \in Seq(Nat) /\ Len(t) = IF a <= Len(s) THEN Len(s) - a + 1 ELSE 0
        /\ \A i \in 1..Len(s) - a + 1 : t[i] = s[a + i - 1]
    <3> HIDE DEF a
    <3> QED
      BY <1>1, <2>1, SubSeqProperties
  <2>3. Len(t) = n
    BY <1>1, <1>3, <2>1, <2>2
  <2>4. \A i \in 1..Len(t) : t[i] = s[a + i - 1] /\ a + i - 1 \in DOMAIN s
    BY <1>1, <1>3, <2>2, <2>3
  <2>5. DOMAIN t = 1..Len(t)
    BY <2>2
  <2>6. ToSet(t) \subseteq ToSet(s)
    <3> HIDE DEF t, a
    <3> QED
      BY <2>4, <2>5 DEF ToSet
  <2> QED
    BY <1>1, <1>3, <2>2, <2>3, <2>6 DEF Newest
<1> QED
  BY <1>1, <1>2, <1>3

\* The fields of a client without a call.
LEMMA NoCallFacts ==
    /\ NoCall = [f \in CallFields |-> NoCall[f]]
    /\ NoCall.pc = "idle" /\ NoCall.n = 0 /\ NoCall.op = "none" /\ NoCall.key = MismatchesKey
    /\ NoCall.peer = 1 /\ NoCall.lists = <<>> /\ NoCall.err = FALSE
  BY DEF NoCall, CallFields

\* The states a call may be in, field by field.
LEMMA NoCallOK ==
    ASSUME NEW n \in Nat PROVE CallOK(NoCall, n)
<1>1. NoCall.lists \in Seq(Seq(Nat)) /\ NoCall.key \in Keys /\ NoCall.n \in 0..n
  <2>1. NoCall.key \in Keys
    BY NoCallFacts DEF Keys
  <2>2. NoCall.n \in 0..n
    BY NoCallFacts
  <2>3. <<>> \in Seq(Seq(Nat))
    <3> DEFINE S == Seq(Nat)
    <3> HIDE DEF S
    <3>1. <<>> \in Seq(S)
      OBVIOUS
    <3> QED
      BY <3>1 DEF S
  <2> QED
    BY <2>1, <2>2, <2>3, NoCallFacts
<1>2. NoCall.peer \in 1..Len(Peers) /\ Len(NoCall.lists) <= Len(Peers)
  BY NoCallFacts, PeersFacts
<1> QED
  BY <1>1, <1>2, NoCallFacts DEF CallOK, Labels

-----------------------------------------------------------------------------
(* The walk along a list that changes. *)

\* The whole list, or something that is gone as a whole.
Complete(got, list) ==
    \/ ToSet(list) \subseteq ToSet(got)
    \/ got # <<>> /\ ToSet(got) \cap ToSet(list) = {}

\* The elements of a list of numbers.
LEMMA ElementFacts ==
    ASSUME NEW s \in Seq(Nat)
    PROVE  /\ Len(s) \in Nat /\ \A i \in 1..Len(s) : s[i] \in Nat /\ s[i] \in ToSet(s)
           /\ \A x \in ToSet(s) : \E i \in 1..Len(s) : x = s[i]
           /\ s # <<>> => Len(s) \in 1..Len(s) /\ Last(s) = s[Len(s)] /\ Head(s) = s[1]
<1>1. Len(s) \in Nat /\ DOMAIN s = 1..Len(s) /\ \A i \in 1..Len(s) : s[i] \in Nat
  OBVIOUS
<1>2. (\A i \in 1..Len(s) : s[i] \in ToSet(s)) /\ \A x \in ToSet(s) : \E i \in 1..Len(s) : x = s[i]
  BY <1>1 DEF ToSet
<1>3. s # <<>> => Len(s) \in 1..Len(s) /\ Last(s) = s[Len(s)] /\ Head(s) = s[1]
  BY <1>1 DEF Last
<1> QED
  BY <1>1, <1>2, <1>3

\* In a list with the oldest first the last is the greatest, and nothing is twice.
LEMMA RisingFacts ==
    ASSUME NEW s \in Seq(Nat), Rising(s)
    PROVE  /\ Distinct(s)
           /\ s # <<>> => \A x \in ToSet(s) : x <= Last(s)
<1>1. /\ Len(s) \in Nat /\ \A i \in 1..Len(s) : s[i] \in Nat
      /\ \A x \in ToSet(s) : \E i \in 1..Len(s) : x = s[i]
      /\ s # <<>> => Len(s) \in 1..Len(s) /\ Last(s) = s[Len(s)]
  BY ElementFacts
<1>2. Distinct(s)
  BY <1>1 DEF Distinct, Rising
<1>3. ASSUME s # <<>>, NEW x \in ToSet(s) PROVE x <= Last(s)
  <2>1. PICK i \in 1..Len(s) : x = s[i]
    BY <1>1
  <2>2. CASE i = Len(s)
    BY <1>1, <1>3, <2>1, <2>2
  <2>3. CASE i < Len(s)
    BY <1>1, <1>3, <2>1, <2>3 DEF Rising
  <2> QED
    BY <1>1, <2>2, <2>3
<1> QED
  BY <1>2, <1>3

\* A greater number behind the others.
LEMMA RisingAppend ==
    ASSUME NEW s \in Seq(Nat), Rising(s), NEW n \in Nat, \A x \in ToSet(s) : x < n
    PROVE  Rising(Append(s, n))
<1> DEFINE t == Append(s, n)
<1>1. /\ Len(t) = Len(s) + 1 /\ Len(s) \in Nat /\ t[Len(s) + 1] = n
      /\ \A i \in 1..Len(s) : t[i] = s[i] /\ s[i] \in ToSet(s)
  BY ToSetFacts, ElementFacts
<1> HIDE DEF t
<1>2. ASSUME NEW i \in 1..Len(t), NEW j \in 1..Len(t), i < j PROVE t[i] < t[j]
  <2>1. i \in 1..Len(s) /\ t[i] = s[i] /\ s[i] < n
    BY <1>1, <1>2
  <2>2. CASE j = Len(s) + 1
    BY <1>1, <2>1, <2>2
  <2>3. CASE j # Len(s) + 1
    <3>1. j \in 1..Len(s)
      BY <1>1, <2>3
    <3> QED
      BY <1>1, <1>2, <2>1, <3>1 DEF Rising
  <2> QED
    BY <2>2, <2>3
<1> QED
  BY <1>2 DEF Rising, t

\* The eviction keeps the order and removes from the front.
LEMMA NewestRising ==
    ASSUME NEW s \in Seq(Nat), NEW n \in Nat, Rising(s)
    PROVE  /\ Rising(Newest(s, n))
           /\ \A x \in ToSet(s) \ ToSet(Newest(s, n)), y \in ToSet(Newest(s, n)) : x < y
<1>1. /\ Len(s) \in Nat /\ \A i \in 1..Len(s) : s[i] \in Nat
      /\ \A x \in ToSet(s) : \E i \in 1..Len(s) : x = s[i]
  BY ElementFacts
<1>2. CASE Len(s) <= n
  BY <1>2 DEF Newest
<1>3. CASE Len(s) > n
  <2> DEFINE a == Len(s) - n + 1
             t == SubSeq(s, a, Len(s))
  <2>1. a \in Int /\ a >= 1 /\ a <= Len(s) + 1 /\ \A i \in a..Len(s) : s[i] \in Nat
    BY <1>1, <1>3
  <2>2. /\ t \in Seq(Nat) /\ Len(t) = IF a <= Len(s) THEN Len(s) - a + 1 ELSE 0
        /\ \A i \in 1..Len(s) - a + 1 : t[i] = s[a + i - 1]
    <3> HIDE DEF a
    <3> QED
      BY <1>1, <2>1, SubSeqProperties
  <2>3. Len(t) = n
    BY <1>1, <1>3, <2>1, <2>2
  <2>4. \A i \in 1..Len(t) : t[i] = s[a + i - 1] /\ a + i - 1 \in 1..Len(s)
    BY <1>1, <1>3, <2>2, <2>3
  <2>5. Newest(s, n) = t
    BY <1>1, <1>3 DEF Newest
  <2>6. /\ \A i \in 1..Len(t) : t[i] \in ToSet(t)
        /\ \A x \in ToSet(t) : \E i \in 1..Len(t) : x = t[i]
    BY <2>2, ElementFacts
  <2>7. a + Len(t) - 1 = Len(s)
    BY <1>1, <2>3
  <2> HIDE DEF a, t
  <2>8. ASSUME NEW i \in 1..Len(t), NEW j \in 1..Len(t), i < j PROVE t[i] < t[j]
    <3>1. a + i - 1 \in 1..Len(s) /\ a + j - 1 \in 1..Len(s) /\ a + i - 1 < a + j - 1
      BY <2>1, <2>3, <2>4, <2>8
    <3> QED
      BY <2>4, <3>1 DEF Rising
  <2>9. ASSUME NEW x \in ToSet(s) \ ToSet(t), NEW y \in ToSet(t) PROVE x < y
    <3>1. PICK i \in 1..Len(s) : x = s[i]
      BY <1>1
    <3>2. PICK j \in 1..Len(t) : y = t[j]
      BY <2>6
    <3>3. i < a
      <4> SUFFICES ASSUME ~(i < a) PROVE FALSE
        OBVIOUS
      <4>1. i - a + 1 \in 1..Len(t) /\ a + (i - a + 1) - 1 = i
        BY <1>1, <2>1, <2>3, <2>7
      <4>2. t[i - a + 1] = s[i]
        BY <2>4, <4>1
      <4> QED
        BY <2>6, <2>9, <3>1, <4>1, <4>2
    <3>4. a + j - 1 \in 1..Len(s) /\ i < a + j - 1 /\ y = s[a + j - 1]
      BY <2>1, <2>3, <2>4, <3>2, <3>3
    <3> QED
      BY <3>1, <3>4 DEF Rising
  <2> QED
    BY <2>5, <2>8, <2>9 DEF Rising
<1> QED
  BY <1>1, <1>2, <1>3

\* A walk begins with the oldest.
LEMMA WalkBegins ==
    ASSUME NEW list \in Seq(Nat), Rising(list), list # <<>>
    PROVE  WalkOf(<<Head(list)>>, list) /\ ToSet(<<Head(list)>>) \subseteq ToSet(list)
<1> DEFINE e == Head(list)
           got == <<e>>
<1>1. /\ Len(list) \in Nat /\ e = list[1] /\ 1 \in 1..Len(list) /\ e \in Nat /\ e \in ToSet(list)
      /\ \A x \in ToSet(list) : \E i \in 1..Len(list) : x = list[i]
      /\ \A i \in 1..Len(list) : list[i] \in Nat
  BY ElementFacts
<1> HIDE DEF e
<1>2. got \in Seq(Nat) /\ got # <<>> /\ Len(got) = 1 /\ got[1] = e
  BY <1>1
<1>3. Last(got) = e /\ Rising(got)
  BY <1>2 DEF Last, Rising
<1>4. ToSet(got) = {e}
  BY <1>2 DEF ToSet
<1>5. ASSUME NEW x \in ToSet(list), x <= e PROVE x = e
  <2>1. PICK i \in 1..Len(list) : x = list[i]
    BY <1>1
  <2>2. i = 1
    BY <1>1, <1>5, <2>1 DEF Rising
  <2> QED
    BY <1>1, <2>1, <2>2
<1> HIDE DEF got
<1> QED
  BY <1>1, <1>2, <1>3, <1>4, <1>5 DEF WalkOf, got, e

\* It goes on with the element behind the last one.
LEMMA WalkExtends ==
    ASSUME NEW list \in Seq(Nat), Rising(list), NEW got, WalkOf(got, list),
           NEW i \in 2..Len(list), list[i - 1] = Last(got)
    PROVE  WalkOf(Append(got, list[i]), list) /\ ToSet(Append(got, list[i])) \subseteq ToSet(got) \cup ToSet(list)
<1> DEFINE n == list[i]
           t == Append(got, n)
           e == Last(got)
<1>1. /\ Len(list) \in Nat
      /\ \A x \in ToSet(list) : \E j \in 1..Len(list) : x = list[j]
      /\ \A j \in 1..Len(list) : list[j] \in Nat /\ list[j] \in ToSet(list)
  BY ElementFacts
<1>2. i - 1 \in 1..Len(list) /\ i \in 1..Len(list) /\ i \in Nat /\ i - 1 < i
  BY <1>1
<1>3. e < n /\ n \in Nat /\ e \in Nat /\ n \in ToSet(list)
  BY <1>1, <1>2 DEF Rising
<1>4. got \in Seq(Nat) /\ got # <<>> /\ Rising(got) /\ \A x \in ToSet(got) : x <= e /\ x \in Nat
  <2>1. got \in Seq(Nat) /\ got # <<>> /\ Rising(got)
    BY DEF WalkOf
  <2> QED
    BY <2>1, RisingFacts, ElementFacts
<1> HIDE DEF n, e
<1>5. \A x \in ToSet(got) : x < n
  BY <1>3, <1>4
<1>6. Rising(t)
  BY <1>3, <1>4, <1>5, RisingAppend
<1>7. t \in Seq(Nat) /\ ToSet(t) = ToSet(got) \cup {n} /\ Len(t) = Len(got) + 1 /\ t[Len(got) + 1] = n
  <2>1. got \in Seq(Nat) /\ n \in Nat
    BY <1>3, <1>4
  <2> QED
    BY ONLY <2>1, ToSetFacts
<1>8. t # <<>> /\ Last(t) = n
  <2>1. t \in Seq(Nat) /\ Len(got) \in Nat /\ Len(t) = Len(got) + 1 /\ t[Len(got) + 1] = n
    BY <1>4, <1>7
  <2> HIDE DEF t
  <2>2. t # <<>>
    BY ONLY <2>1
  <2>3. Last(t) = t[Len(t)]
    BY DEF Last
  <2> QED
    BY <2>1, <2>2, <2>3
<1> HIDE DEF t
<1>9. ASSUME NEW x \in ToSet(list), x <= n PROVE x \in ToSet(t)
  <2>1. PICK j \in 1..Len(list) : x = list[j]
    BY <1>1
  <2>2. CASE j > i
    <3>1. n < x
      BY <1>2, <2>1, <2>2 DEF Rising, n
    <3> QED
      BY <1>1, <1>3, <1>9, <3>1
  <2>3. CASE j = i
    BY <1>7, <2>1, <2>3 DEF n
  <2>4. CASE j < i
    <3>1. x <= e
      <4>1. CASE j = i - 1
        BY <1>1, <2>1, <4>1 DEF e
      <4>2. CASE j < i - 1
        <5>1. x < e
          BY <1>2, <2>1, <4>2 DEF Rising, e
        <5> QED
          BY <1>1, <1>3, <5>1
      <4> QED
        BY <1>2, <2>4, <4>1, <4>2
    <3>2. x \in ToSet(got)
      BY <3>1 DEF WalkOf, e
    <3> QED
      BY <1>7, <3>2
  <2> QED
    BY <1>2, <2>2, <2>3, <2>4
<1> QED
  BY <1>3, <1>6, <1>7, <1>8, <1>9 DEF WalkOf, t, n

\* The list loses its front or grows at its end meanwhile.
LEMMA WalkGoesOn ==
    ASSUME NEW list \in Seq(Nat), NEW got, WalkOf(got, list), NEW new \in Seq(Nat), NEW n \in Nat,
           ToSet(new) \subseteq ToSet(list) \cup {n}, \A x \in ToSet(got) : x < n,
           \A x \in ToSet(list) \ ToSet(new), y \in ToSet(new) : x < y
    PROVE  WalkOf(got, new)
<1> DEFINE e == Last(got)
<1>1. got \in Seq(Nat) /\ got # <<>> /\ Rising(got)
  BY DEF WalkOf
<1>2. e \in ToSet(got) /\ e \in Nat /\ e < n
  BY <1>1, ElementFacts
<1>3. (\A x \in ToSet(list) : x \in Nat) /\ \A x \in ToSet(new) : x \in Nat
  BY ElementFacts
<1>4. /\ \A x \in ToSet(list) : x <= e => x \in ToSet(got)
      /\ e \in ToSet(list) \/ \A x \in ToSet(list) : x > e
  BY DEF WalkOf
<1> HIDE DEF e
<1>5. ASSUME NEW x \in ToSet(new), x <= e PROVE x \in ToSet(got)
  BY <1>2, <1>3, <1>4, <1>5
<1>6. e \in ToSet(new) \/ \A x \in ToSet(new) : x > e
  BY <1>2, <1>3, <1>4
<1> QED
  BY <1>1, <1>5, <1>6 DEF WalkOf, e

\* It ends with the list, or with an element that was removed, and all before it.
LEMMA WalkEnds ==
    ASSUME NEW list \in Seq(Nat), Rising(list), NEW got, WalkOf(got, list),
           \A i \in 2..Len(list) : list[i - 1] # Last(got)
    PROVE  Complete(got, list)
<1> DEFINE e == Last(got)
<1>1. got \in Seq(Nat) /\ got # <<>> /\ Rising(got)
  BY DEF WalkOf
<1>2. e \in ToSet(got) /\ e \in Nat /\ \A x \in ToSet(got) : x <= e /\ x \in Nat
  BY <1>1, ElementFacts, RisingFacts
<1>3. (\A x \in ToSet(list) : x \in Nat) /\ (list # <<>> => \A x \in ToSet(list) : x <= Last(list))
  BY ElementFacts, RisingFacts
<1>4. /\ \A x \in ToSet(list) : x <= e => x \in ToSet(got)
      /\ e \in ToSet(list) \/ \A x \in ToSet(list) : x > e
  BY DEF WalkOf
<1>5. CASE e \in ToSet(list)
  <2>1. PICK i \in 1..Len(list) : e = list[i]
    BY <1>5, ElementFacts
  <2>2. list # <<>> /\ Len(list) \in Nat /\ Last(list) = list[Len(list)]
    BY <2>1, ElementFacts
  <2>3. i = Len(list)
    <3> SUFFICES ASSUME i # Len(list) PROVE FALSE
      OBVIOUS
    <3>1. i + 1 \in 2..Len(list) /\ (i + 1) - 1 = i
      BY <2>2
    <3> QED
      BY <2>1, <3>1
  <2>4. \A x \in ToSet(list) : x <= e
    BY <1>3, <2>1, <2>2, <2>3
  <2> QED
    BY <1>4, <2>4 DEF Complete
<1>6. CASE \A x \in ToSet(list) : x > e
  <2> HIDE DEF e
  <2>1. \A x \in ToSet(got) : x \notin ToSet(list)
    BY <1>2, <1>3, <1>6
  <2> QED
    BY <1>1, <2>1 DEF Complete
<1> QED
  BY <1>4, <1>5, <1>6

-----------------------------------------------------------------------------
(* The merge of the lists. *)

\* A list of all elements of the lists, and of nothing else.
Merges(list, lists) ==
    /\ list \in Seq(Nat)
    /\ \A i \in 1..Len(lists) : \A j \in 1..Len(lists[i]) : lists[i][j] \in ToSet(list)
    /\ \A v \in ToSet(list) : \E i \in 1..Len(lists) : \E j \in 1..Len(lists[i]) : v = lists[i][j]

\* GetMismatches merges the lists of the servers and repeats nothing.
LEMMA GetMismatchesFacts ==
    ASSUME NEW lists \in Seq(Seq(Nat))
    PROVE  /\ Merges(GetMismatches(lists), lists)
           /\ AllDistinct(lists) => Distinct(GetMismatches(lists))
  BY FlattenShape, FlattenElements, FlattenDistinct DEF Merges, GetMismatches

\* The lists of the first elements, of the second ones, ...
Row(lists, pos) == [i \in 1..Len(lists) |-> IF pos <= Len(lists[i]) THEN <<lists[i][pos]>> ELSE <<>>]

\* Each of the lists is a list.
LEMMA ListsFacts ==
    ASSUME NEW lists \in Seq(Seq(Nat))
    PROVE  /\ Len(lists) \in Nat /\ DOMAIN lists = 1..Len(lists)
           /\ \A i \in 1..Len(lists) : lists[i] \in Seq(Nat) /\ Len(lists[i]) \in Nat
<1> DEFINE S == Seq(Nat)
<1>1. Len(lists) \in Nat /\ DOMAIN lists = 1..Len(lists) /\ \A i \in 1..Len(lists) : lists[i] \in S
  <2> HIDE DEF S
  <2>1. lists \in Seq(S)
    BY DEF S
  <2> QED
    BY <2>1
<1> QED
  BY <1>1

\* A row holds the element at pos of each list that is long enough.
LEMMA RowFacts ==
    ASSUME NEW lists \in Seq(Seq(Nat)), NEW pos \in Nat \ {0}
    PROVE  /\ Row(lists, pos) \in Seq(Seq(Nat)) /\ Len(Row(lists, pos)) = Len(lists)
           /\ \A i \in 1..Len(lists) :
                 /\ pos <= Len(lists[i]) => Row(lists, pos)[i] = <<lists[i][pos]>>
                 /\ pos > Len(lists[i]) => Row(lists, pos)[i] = <<>>
<1> DEFINE S == Seq(Nat)
           n == Len(lists)
           row == Row(lists, pos)
<1>1. n \in Nat /\ \A i \in 1..n : lists[i] \in Seq(Nat) /\ Len(lists[i]) \in Nat
  BY ListsFacts
<1>2. ASSUME NEW i \in 1..n PROVE (IF pos <= Len(lists[i]) THEN <<lists[i][pos]>> ELSE <<>>) \in S
  <2>1. CASE pos <= Len(lists[i])
    <3>1. lists[i][pos] \in Nat
      BY <1>1, <2>1
    <3> QED
      BY <2>1, <3>1
  <2>2. CASE ~(pos <= Len(lists[i]))
    BY <2>2
  <2> QED
    BY <2>1, <2>2
<1>3. row \in [1..n -> S] /\ DOMAIN row = 1..n
  <2> HIDE DEF S, n
  <2> QED
    BY <1>2 DEF Row, n
<1>4. row \in Seq(S) /\ Len(row) = n
  <2> HIDE DEF S, n, row
  <2> QED
    BY <1>1, <1>3
<1>5. \A i \in 1..n : /\ pos <= Len(lists[i]) => row[i] = <<lists[i][pos]>>
                      /\ pos > Len(lists[i]) => row[i] = <<>>
  BY <1>1 DEF Row
<1> QED
  BY <1>4, <1>5

\* What FlattenSeq makes of a row.
FlatRow(flat, lists, pos) ==
    /\ flat \in Seq(Nat)
    /\ \A i \in 1..Len(lists) : pos <= Len(lists[i]) => lists[i][pos] \in ToSet(flat)
    /\ \A v \in ToSet(flat) : \E i \in 1..Len(lists) : pos <= Len(lists[i]) /\ v = lists[i][pos]
    /\ AllDistinct(lists) => Distinct(flat)
    /\ \A i, x \in 1..Len(lists) :
          i < x /\ pos <= Len(lists[i]) /\ pos <= Len(lists[x]) => Before(flat, lists[i][pos], lists[x][pos])

\* A flattened row holds these elements, in the order of the lists.
LEMMA FlatRowFacts ==
    ASSUME NEW lists \in Seq(Seq(Nat)), NEW pos \in Nat \ {0}
    PROVE  FlatRow(FlattenSeq(Row(lists, pos)), lists, pos)
<1> DEFINE row == Row(lists, pos)
           n == Len(lists)
<1>1. /\ row \in Seq(Seq(Nat)) /\ Len(row) = n
      /\ \A i \in 1..n : /\ pos <= Len(lists[i]) => row[i] = <<lists[i][pos]>>
                         /\ pos > Len(lists[i]) => row[i] = <<>>
  BY RowFacts
<1>2. n \in Nat /\ \A i \in 1..n : Len(lists[i]) \in Nat
  BY ListsFacts
<1> HIDE DEF row, n
<1>3. \A i \in 1..n : pos <= Len(lists[i]) => 1 \in 1..Len(row[i]) /\ row[i][1] = lists[i][pos]
  <2> SUFFICES ASSUME NEW i \in 1..n, pos <= Len(lists[i])
               PROVE  1 \in 1..Len(row[i]) /\ row[i][1] = lists[i][pos]
    OBVIOUS
  <2>1. row[i] = <<lists[i][pos]>>
    BY <1>1
  <2> QED
    BY <2>1
<1>4. \A i \in 1..n : \A j \in 1..Len(row[i]) : j = 1 /\ pos <= Len(lists[i]) /\ row[i][j] = lists[i][pos]
  <2> SUFFICES ASSUME NEW i \in 1..n, NEW j \in 1..Len(row[i])
               PROVE  j = 1 /\ pos <= Len(lists[i]) /\ row[i][j] = lists[i][pos]
    OBVIOUS
  <2>1. CASE pos <= Len(lists[i])
    <3>1. row[i] = <<lists[i][pos]>>
      BY <1>1, <2>1
    <3>2. Len(row[i]) = 1 /\ row[i][1] = lists[i][pos]
      BY <3>1
    <3>3. j = 1
      BY <3>2
    <3> QED
      BY <2>1, <3>2, <3>3
  <2>2. CASE pos > Len(lists[i])
    <3>1. row[i] = <<>>
      BY <1>1, <2>2
    <3>2. Len(row[i]) = 0
      BY <3>1
    <3> QED
      BY <3>2
  <2> QED
    BY <1>2, <2>1, <2>2
<1> DEFINE flat == FlattenSeq(row)
<1>5. /\ flat \in Seq(Nat)
      /\ \A i \in 1..n : \A j \in 1..Len(row[i]) : row[i][j] \in ToSet(flat)
      /\ \A v \in ToSet(flat) : \E i \in 1..n : \E j \in 1..Len(row[i]) : v = row[i][j]
  <2>1. /\ flat \in Seq(Nat)
        /\ \A i \in 1..Len(row) : \A j \in 1..Len(row[i]) : row[i][j] \in ToSet(flat)
        /\ \A v \in ToSet(flat) : \E i \in 1..Len(row) : \E j \in 1..Len(row[i]) : v = row[i][j]
    <3>1. row \in Seq(Seq(Nat))
      BY <1>1
    <3>2. flat \in Seq(Nat)
      BY <3>1, FlattenShape
    <3>3. /\ \A i \in 1..Len(row) : \A j \in 1..Len(row[i]) : row[i][j] \in ToSet(flat)
          /\ \A v \in ToSet(flat) : \E i \in 1..Len(row) : \E j \in 1..Len(row[i]) : v = row[i][j]
      BY <3>1, FlattenElements, Zenon
    <3> HIDE DEF flat
    <3> QED
      BY <3>2, <3>3
  <2> HIDE DEF flat
  <2> QED
    BY <1>1, <2>1
<1>6. AllDistinct(lists) => Distinct(flat)
  <2> SUFFICES ASSUME AllDistinct(lists) PROVE AllDistinct(row)
    BY <1>1, FlattenDistinct
  <2> SUFFICES ASSUME NEW i \in 1..n, NEW x \in 1..n, NEW j \in 1..Len(row[i]), NEW y \in 1..Len(row[x]),
                      row[i][j] = row[x][y]
               PROVE  i = x /\ j = y
    BY <1>1 DEF AllDistinct
  <2>1. /\ j = 1 /\ pos <= Len(lists[i]) /\ row[i][j] = lists[i][pos]
        /\ y = 1 /\ pos <= Len(lists[x]) /\ row[x][y] = lists[x][pos]
    BY <1>4
  <2>2. lists[i][pos] = lists[x][pos] /\ pos \in 1..Len(lists[i]) /\ pos \in 1..Len(lists[x]) /\ j = y
    BY <1>2, <2>1
  <2> QED
    BY <2>2 DEF AllDistinct, n
<1>7. ASSUME NEW i \in 1..n, NEW x \in 1..n, i < x, pos <= Len(lists[i]), pos <= Len(lists[x])
      PROVE  Before(flat, lists[i][pos], lists[x][pos])
  <2>1. /\ 1 \in 1..Len(row[i]) /\ row[i][1] = lists[i][pos]
        /\ 1 \in 1..Len(row[x]) /\ row[x][1] = lists[x][pos]
    BY <1>3, <1>7
  <2>2. InOrder(flat, row)
    BY <1>1, FlattenOrder
  <2>3. i \in 1..Len(row) /\ x \in 1..Len(row)
    BY <1>1
  <2> HIDE DEF flat
  <2>4. Before(flat, row[i][1], row[x][1])
    BY <1>7, <2>1, <2>2, <2>3 DEF InOrder
  <2> QED
    BY <2>1, <2>4
<1>8. \A i \in 1..n : pos <= Len(lists[i]) => lists[i][pos] \in ToSet(flat)
  BY <1>3, <1>5
<1>9. ASSUME NEW v \in ToSet(flat) PROVE \E i \in 1..n : pos <= Len(lists[i]) /\ v = lists[i][pos]
  <2>1. PICK i \in 1..n : \E j \in 1..Len(row[i]) : v = row[i][j]
    BY <1>5
  <2>2. PICK j \in 1..Len(row[i]) : v = row[i][j]
    BY <2>1
  <2> QED
    BY <1>4, <2>2
<1> QED
  BY <1>5, <1>6, <1>7, <1>8, <1>9 DEF FlatRow, row, n

\* No list is longer than the longest one.
LEMMA LongestFacts ==
    ASSUME NEW lists \in Seq(Seq(Nat)), Len(lists) # 0
    PROVE  LET longest == Max({Len(lists[i]) : i \in DOMAIN lists})
           IN  longest \in Nat /\ \A i \in 1..Len(lists) : Len(lists[i]) <= longest
<1> DEFINE n == Len(lists)
           f == [i \in 1..n |-> Len(lists[i])]
           L == {Len(lists[i]) : i \in DOMAIN lists}
<1>1. n \in Nat \ {0} /\ DOMAIN lists = 1..n /\ \A i \in 1..n : Len(lists[i]) \in Nat
  BY ListsFacts
<1>2. f \in [1..n -> Nat]
  BY <1>1
<1>3. PICK m \in 1..n : \A i \in 1..n : f[i] <= f[m]
  <2> HIDE DEF f, n
  <2> QED
    BY <1>1, <1>2, LargestOf
<1>4. Len(lists[m]) \in L /\ \A y \in L : Len(lists[m]) >= y
  BY <1>1, <1>3
<1> HIDE DEF L
<1>5. Max(L) \in L /\ \A y \in L : Max(L) >= y
  BY <1>4 DEF Max
<1>6. L \subseteq Nat /\ \A i \in 1..n : Len(lists[i]) \in L
  BY <1>1 DEF L
<1>7. Max(L) \in Nat /\ \A i \in 1..n : Len(lists[i]) <= Max(L)
  BY <1>1, <1>5, <1>6
<1> QED
  BY <1>7 DEF L

\* GetMatches merges the lists of the servers, repeats nothing, and orders by position, then by server.
LEMMA GetMatchesFacts ==
    ASSUME NEW lists \in Seq(Seq(Nat)), Len(lists) # 0
    PROVE  /\ Merges(GetMatches(lists), lists)
           /\ AllDistinct(lists) => Distinct(GetMatches(lists))
           /\ \A i, x \in 1..Len(lists) : \A j \in 1..Len(lists[i]), y \in 1..Len(lists[x]) :
                 j < y \/ (j = y /\ i < x) => Before(GetMatches(lists), lists[i][j], lists[x][y])
<1> DEFINE n == Len(lists)
           S == Seq(Nat)
           longest == Max({Len(lists[i]) : i \in DOMAIN lists})
           rows == [pos \in 1..longest |-> FlattenSeq(Row(lists, pos))]
<1>1. n \in Nat \ {0} /\ DOMAIN lists = 1..n /\ \A i \in 1..n : Len(lists[i]) \in Nat
  BY ListsFacts
<1>2. longest \in Nat /\ \A i \in 1..n : Len(lists[i]) <= longest
  BY LongestFacts
<1>3. GetMatches(lists) = FlattenSeq(rows)
  BY <1>1 DEF GetMatches, Row
<1> HIDE DEF longest, n
<1>4. ASSUME NEW pos \in 1..longest
      PROVE  /\ rows[pos] \in Seq(Nat)
             /\ \A i \in 1..n : pos <= Len(lists[i]) => lists[i][pos] \in ToSet(rows[pos])
             /\ \A v \in ToSet(rows[pos]) : \E i \in 1..n : pos <= Len(lists[i]) /\ v = lists[i][pos]
             /\ AllDistinct(lists) => Distinct(rows[pos])
             /\ \A i, x \in 1..n : i < x /\ pos <= Len(lists[i]) /\ pos <= Len(lists[x])
                                      => Before(rows[pos], lists[i][pos], lists[x][pos])
  <2>1. pos \in Nat \ {0} /\ rows[pos] = FlattenSeq(Row(lists, pos))
    BY <1>2
  <2> HIDE DEF rows
  <2>2. FlatRow(rows[pos], lists, pos)
    BY <2>1, FlatRowFacts
  <2> QED
    BY <2>2 DEF FlatRow, n
<1>5. rows \in Seq(S) /\ Len(rows) = longest
  <2>1. rows \in [1..longest -> S] /\ DOMAIN rows = 1..longest
    BY <1>4
  <2> HIDE DEF rows, S
  <2> QED
    BY <1>2, <2>1
<1> HIDE DEF rows
<1>6. \A pos \in 1..longest : /\ DOMAIN rows[pos] = 1..Len(rows[pos]) /\ Len(rows[pos]) \in Nat
                              /\ \A a \in 1..Len(rows[pos]) : rows[pos][a] \in ToSet(rows[pos])
  BY <1>4 DEF ToSet
<1>7. ASSUME NEW i \in 1..n, NEW j \in 1..Len(lists[i])
      PROVE  j \in 1..longest /\ \E a \in 1..Len(rows[j]) : rows[j][a] = lists[i][j]
  <2>1. j \in 1..longest /\ j <= Len(lists[i])
    BY <1>1, <1>2
  <2>2. lists[i][j] \in ToSet(rows[j])
    BY <1>4, <2>1
  <2> QED
    BY <1>6, <2>1, <2>2 DEF ToSet
<1> DEFINE list == FlattenSeq(rows)
<1>8. /\ list \in Seq(Nat)
      /\ \A j \in 1..longest : \A a \in 1..Len(rows[j]) : rows[j][a] \in ToSet(list)
      /\ \A v \in ToSet(list) : \E j \in 1..longest : \E a \in 1..Len(rows[j]) : v = rows[j][a]
  BY <1>5, FlattenShape, FlattenElements
<1>9. Merges(list, lists)
  <2>1. ASSUME NEW i \in 1..n, NEW j \in 1..Len(lists[i]) PROVE lists[i][j] \in ToSet(list)
    BY <1>7, <1>8
  <2>2. ASSUME NEW v \in ToSet(list) PROVE \E i \in 1..n : \E j \in 1..Len(lists[i]) : v = lists[i][j]
    <3>1. PICK j \in 1..longest : \E a \in 1..Len(rows[j]) : v = rows[j][a]
      BY <1>8
    <3>2. v \in ToSet(rows[j])
      BY <1>6, <3>1
    <3>3. PICK i \in 1..n : j <= Len(lists[i]) /\ v = lists[i][j]
      BY <1>4, <3>2
    <3>4. j \in 1..Len(lists[i])
      BY <1>1, <1>2, <3>3
    <3> QED
      BY <3>3, <3>4
  <2> QED
    BY <1>8, <2>1, <2>2 DEF Merges, n
<1>10. AllDistinct(lists) => Distinct(list)
  <2> SUFFICES ASSUME AllDistinct(lists) PROVE AllDistinct(rows)
    BY <1>5, FlattenDistinct
  <2> SUFFICES ASSUME NEW p \in 1..longest, NEW q \in 1..longest, NEW a \in 1..Len(rows[p]),
                      NEW b \in 1..Len(rows[q]), rows[p][a] = rows[q][b]
               PROVE  p = q /\ a = b
    BY <1>5 DEF AllDistinct
  <2>1. PICK i \in 1..n : p <= Len(lists[i]) /\ rows[p][a] = lists[i][p]
    BY <1>4, <1>6
  <2>2. PICK x \in 1..n : q <= Len(lists[x]) /\ rows[q][b] = lists[x][q]
    BY <1>4, <1>6
  <2>3. p \in 1..Len(lists[i]) /\ q \in 1..Len(lists[x])
    BY <1>1, <1>2, <2>1, <2>2
  <2>4. lists[i][p] = lists[x][q]
    BY <2>1, <2>2
  <2>5. i \in 1..Len(lists) /\ x \in 1..Len(lists)
    BY DEF n
  <2>6. p = q
    BY <2>3, <2>4, <2>5 DEF AllDistinct
  <2>7. Distinct(rows[p])
    BY <1>4
  <2> QED
    BY <2>6, <2>7 DEF Distinct
<1>11. ASSUME NEW i \in 1..n, NEW x \in 1..n, NEW j \in 1..Len(lists[i]), NEW y \in 1..Len(lists[x]),
              j < y \/ (j = y /\ i < x)
       PROVE  Before(list, lists[i][j], lists[x][y])
  <2>0. InOrder(list, rows)
    BY <1>5, FlattenOrder
  <2> HIDE DEF list
  <2>1. j \in 1..longest /\ y \in 1..longest /\ j \in 1..Len(rows) /\ y \in 1..Len(rows)
    BY <1>5, <1>7
  <2>2. CASE j < y
    <3>1. PICK a \in 1..Len(rows[j]) : rows[j][a] = lists[i][j]
      BY <1>7
    <3>2. PICK b \in 1..Len(rows[y]) : rows[y][b] = lists[x][y]
      BY <1>7
    <3>3. Before(list, rows[j][a], rows[y][b])
      BY <2>0, <2>1, <2>2 DEF InOrder
    <3> QED
      BY <3>1, <3>2, <3>3
  <2>3. CASE j = y /\ i < x
    <3>1. j <= Len(lists[i]) /\ j <= Len(lists[x])
      BY <1>1, <1>2, <2>1, <2>3
    <3>2. PICK a \in 1..Len(rows[j]), b \in 1..Len(rows[j]) :
              a < b /\ rows[j][a] = lists[i][j] /\ rows[j][b] = lists[x][j]
      <4>1. Before(rows[j], lists[i][j], lists[x][j])
        BY <1>4, <2>1, <2>3, <3>1
      <4> QED
        BY <4>1, Zenon DEF Before
    <3>3. Before(list, rows[j][a], rows[j][b])
      BY <2>0, <2>1, <3>2 DEF InOrder
    <3> QED
      BY <2>3, <3>2, <3>3
  <2> QED
    BY <1>11, <2>2, <2>3
<1> QED
  BY <1>3, <1>9, <1>10, <1>11 DEF n

-----------------------------------------------------------------------------
(* The steps: the stores. *)

\* Of the store of a host a step only keeps, removes from the front, or adds the next
\* number.
Shrinks ==
    /\ recorded' \in {recorded, recorded + 1} /\ calls' \in {calls, calls + 1}
    /\ \A h \in Hosts, k \in Keys :
          /\ ToSet(matches'[h][k]) \subseteq ToSet(matches[h][k]) \cup {recorded + 1}
          /\ \A x \in ToSet(matches[h][k]) \ ToSet(matches'[h][k]), y \in ToSet(matches'[h][k]) : x < y

\* Recording a match, with the eviction of the oldest, keeps the store well typed and loses only old matches.
LEMMA AddStore ==
    ASSUME StoreOK, NEW h \in Hosts, NEW k \in Keys, Add(h, k)
    PROVE  StoreOK' /\ Shrinks
<1> DEFINE n == recorded + 1
           new == Newest(Append(matches[h][k], n), Capacity)
<1>1. matches[h][k] \in Seq(Nat) /\ n \in Nat /\ Capacity \in Nat
  BY GrpcMatchstoreAssumption DEF StoreOK
<1>2. /\ new \in Seq(Nat) /\ Len(new) <= Capacity /\ Len(new) <= Len(matches[h][k]) + 1
      /\ ToSet(new) \subseteq ToSet(matches[h][k]) \cup {n} /\ Len(new) \in Nat
      /\ Rising(new) /\ \A x \in ToSet(matches[h][k]) \ ToSet(new), y \in ToSet(new) : x < y
  <2>0. Rising(matches[h][k]) /\ \A x \in ToSet(matches[h][k]) : x < n
    <3>1. recorded \in Nat /\ Rising(matches[h][k]) /\ ToSet(matches[h][k]) \subseteq 1..recorded
      BY DEF StoreOK
    <3> QED
      BY <3>1
  <2>1. /\ Append(matches[h][k], n) \in Seq(Nat)
        /\ Len(Append(matches[h][k], n)) = Len(matches[h][k]) + 1
        /\ ToSet(Append(matches[h][k], n)) = ToSet(matches[h][k]) \cup {n}
        /\ Rising(Append(matches[h][k], n))
    <3> HIDE DEF n
    <3> QED
      BY <1>1, <2>0, ToSetFacts, RisingAppend
  <2> DEFINE s == Append(matches[h][k], n)
  <2>2. /\ s \in Seq(Nat) /\ Len(s) = Len(matches[h][k]) + 1 /\ ToSet(s) = ToSet(matches[h][k]) \cup {n}
        /\ Rising(s)
    BY <2>1
  <2> HIDE DEF n, s
  <2>3. /\ Newest(s, Capacity) \in Seq(Nat)
        /\ Len(Newest(s, Capacity)) <= Capacity /\ Len(Newest(s, Capacity)) <= Len(s)
        /\ ToSet(Newest(s, Capacity)) \subseteq ToSet(s) /\ Rising(Newest(s, Capacity))
        /\ \A x \in ToSet(s) \ ToSet(Newest(s, Capacity)), y \in ToSet(Newest(s, Capacity)) : x < y
    BY <1>1, <2>2, NewestFacts, NewestRising
  <2>4. new = Newest(s, Capacity)
    BY DEF s
  <2> HIDE DEF new
  <2> QED
    BY <2>2, <2>3, <2>4
<1>3. \A g \in Hosts, j \in Keys :
          /\ matches'[g][j] = IF g = h /\ j = k THEN new ELSE matches[g][j]
          /\ count'[g][j] = IF g = h /\ j = k THEN count[g][j] + 1 ELSE count[g][j]
  <2> HIDE DEF new
  <2>1. /\ matches' = [matches EXCEPT ![h][k] = new]
        /\ count' = [count EXCEPT ![h][k] = count[h][k] + 1]
    BY DEF Add, new
  <2> QED
    BY <2>1 DEF StoreOK
<1>4. matches' \in [Hosts -> [Keys -> Seq(Nat)]] /\ count' \in [Hosts -> [Keys -> Nat]]
  <2>1. matches' = [matches EXCEPT ![h][k] = new]
    BY DEF Add
  <2>2. count' = [count EXCEPT ![h][k] = count[h][k] + 1] /\ count[h][k] + 1 \in Nat
    BY DEF Add, StoreOK
  <2> HIDE DEF new
  <2> QED
    BY <1>2, <2>1, <2>2 DEF StoreOK
<1>5. recorded' = n /\ UNCHANGED <<up, sent, calls, crashes>>
  BY DEF Add
<1>6. \A g \in Hosts, j \in Keys :
          /\ ToSet(matches'[g][j]) \subseteq 1..n /\ Len(matches'[g][j]) <= Capacity
          /\ count'[g][j] \in Len(matches'[g][j])..n /\ Rising(matches'[g][j])
  <2> SUFFICES ASSUME NEW g \in Hosts, NEW j \in Keys
               PROVE  /\ ToSet(matches'[g][j]) \subseteq 1..n /\ Len(matches'[g][j]) <= Capacity
                      /\ count'[g][j] \in Len(matches'[g][j])..n /\ Rising(matches'[g][j])
    OBVIOUS
  <2>1. /\ Rising(matches[g][j]) /\ ToSet(matches[g][j]) \subseteq 1..recorded /\ Len(matches[g][j]) <= Capacity
        /\ count[g][j] \in Len(matches[g][j])..recorded /\ Len(matches[g][j]) \in Nat /\ recorded \in Nat
    BY DEF StoreOK
  <2> HIDE DEF new
  <2>2. CASE g = h /\ j = k
    <3>1. matches'[g][j] = new /\ count'[g][j] = count[g][j] + 1
      BY <1>3, <2>2
    <3>2. ToSet(new) \subseteq ToSet(matches[g][j]) \cup {n}
      BY <1>2, <2>2
    <3>3. Len(new) \in Nat /\ Len(new) <= Capacity /\ Len(new) <= Len(matches[g][j]) + 1
      BY <1>2, <2>2
    <3>4. ToSet(new) \subseteq 1..n
      BY <2>1, <3>2
    <3> QED
      BY <1>2, <2>1, <3>1, <3>3, <3>4
  <2>3. CASE ~(g = h /\ j = k)
    <3>1. matches'[g][j] = matches[g][j] /\ count'[g][j] = count[g][j]
      BY <1>3, <2>3
    <3> QED
      BY <2>1, <3>1
  <2> QED
    BY <2>2, <2>3
<1>7. Shrinks
  <2> HIDE DEF new
  <2> QED
    BY <1>2, <1>3, <1>5 DEF Shrinks
<1>8. recorded' \in Nat /\ calls' \in Nat /\ crashes' \in Nat /\ up' \subseteq Hosts
  BY <1>1, <1>5 DEF StoreOK
<1>9. \A m \in sent' : m.to \in Hosts \cap PeerHosts /\ m.n \in 1..calls' /\ m.key \in Keys
  BY <1>5 DEF StoreOK
<1> HIDE DEF n, new
<1> QED
  BY <1>4, <1>5, <1>6, <1>7, <1>8, <1>9 DEF StoreOK

\* RemoveMatches empties one list, a host that stops all of its lists.
LEMMA RemoveStore ==
    ASSUME StoreOK, NEW m \in sent, RemoveMatches(m)
    PROVE  StoreOK' /\ Shrinks
<1>1. m.to \in Hosts /\ m.key \in Keys
  BY DEF StoreOK
<1>2. \A g \in Hosts, j \in Keys :
          /\ matches'[g][j] = IF g = m.to /\ j = m.key THEN <<>> ELSE matches[g][j]
          /\ count'[g][j] = IF g = m.to /\ j = m.key THEN 0 ELSE count[g][j]
  BY <1>1 DEF RemoveMatches, StoreOK
<1>3. matches' \in [Hosts -> [Keys -> Seq(Nat)]] /\ count' \in [Hosts -> [Keys -> Nat]]
  BY <1>1 DEF RemoveMatches, StoreOK
<1>4. UNCHANGED <<up, bounds>> /\ sent' \subseteq sent
  BY DEF RemoveMatches
<1>5. ToSet(<<>>) = {} /\ Len(<<>>) = 0 /\ Rising(<<>>)
  BY DEF ToSet, Rising
<1>6. Shrinks
  BY <1>2, <1>4, <1>5 DEF Shrinks, bounds
<1> QED
  BY <1>2, <1>3, <1>4, <1>5, <1>6, GrpcMatchstoreAssumption DEF StoreOK, bounds

\* A stopped server loses its matches and nothing else.
LEMMA StopStore ==
    ASSUME StoreOK, NEW h \in Hosts, Stop(h)
    PROVE  StoreOK' /\ Shrinks
<1>1. \A g \in Hosts, j \in Keys :
          /\ matches'[g][j] = IF g = h THEN <<>> ELSE matches[g][j]
          /\ count'[g][j] = IF g = h THEN 0 ELSE count[g][j]
  BY DEF Stop, StoreOK, Empty, Zero
<1>2. matches' \in [Hosts -> [Keys -> Seq(Nat)]] /\ count' \in [Hosts -> [Keys -> Nat]]
  BY DEF Stop, StoreOK, Empty, Zero
<1>3. /\ up' \subseteq up /\ sent' \subseteq sent /\ UNCHANGED <<recorded, calls>>
      /\ crashes' = crashes + 1
  BY DEF Stop
<1>4. ToSet(<<>>) = {} /\ Len(<<>>) = 0 /\ Rising(<<>>)
  BY DEF ToSet, Rising
<1>5. Shrinks
  BY <1>1, <1>3, <1>4 DEF Shrinks
<1>6. \A g \in Hosts, j \in Keys :
          /\ ToSet(matches'[g][j]) \subseteq 1..recorded /\ Len(matches'[g][j]) <= Capacity
          /\ count'[g][j] \in Len(matches'[g][j])..recorded /\ Rising(matches'[g][j])
  BY <1>1, <1>4, GrpcMatchstoreAssumption DEF StoreOK
<1>7. recorded' \in Nat /\ calls' \in Nat /\ crashes' \in Nat /\ up' \subseteq Hosts
  BY <1>3 DEF StoreOK
<1>8. \A m \in sent' : m.to \in Hosts \cap PeerHosts /\ m.n \in 1..calls' /\ m.key \in Keys
  BY <1>3 DEF StoreOK
<1> QED
  BY <1>2, <1>3, <1>5, <1>6, <1>7, <1>8 DEF StoreOK

\* All other steps leave the stores alone.
LEMMA SameStore ==
    ASSUME StoreOK, UNCHANGED <<matches, count, recorded, crashes>>, calls' \in {calls, calls + 1},
           up' \subseteq Hosts,
           \A m \in sent' : m \in sent \/ (m.to \in Hosts \cap PeerHosts /\ m.n \in 1..calls /\ m.key \in Keys)
    PROVE  StoreOK' /\ Shrinks
<1>1. \A m \in sent' : m.to \in Hosts \cap PeerHosts /\ m.n \in 1..calls' /\ m.key \in Keys
  <2>1. \A m \in sent' : m.to \in Hosts \cap PeerHosts /\ m.n \in 1..calls /\ m.key \in Keys
    BY DEF StoreOK
  <2> QED
    BY <2>1 DEF StoreOK
<1>2. Shrinks
  BY DEF Shrinks
<1> QED
  BY <1>1, <1>2 DEF StoreOK

-----------------------------------------------------------------------------
(* The steps: the calls. *)

\* What a step may do to the call of a client: end it, begin it, or take it on
\* with the same lists or with one more, of the peer it has asked.
Ends(c) == call'[c].pc = "idle" \/ call'[c].op \notin {"Get", "Delete"}
Starts(c) ==
    /\ call[c].pc = "idle" /\ call'[c].lists = <<>> /\ call'[c].key \in Keys
    /\ call'[c].n = calls + 1 /\ matches' = matches
Gains(c, list) ==
    /\ call'[c].lists = Append(call[c].lists, list) /\ list \in Seq(Nat)
    /\ Len(call[c].lists) + 1 = call[c].peer
    /\ Complete(list, matches'[To(c)][call[c].key])
    /\ call[c].op = "Get" => list = <<>> \/ \E w \in walks : w.req = Request(c) /\ w.got = list
    /\ call[c].op = "Delete" => list = <<>>
Goes(c) ==
    /\ call[c].pc # "idle" /\ call'[c].n = call[c].n /\ call'[c].op = call[c].op /\ call'[c].key = call[c].key
    /\ call'[c].lists = call[c].lists \/ \E list \in Seq(Nat) : Gains(c, list)
Moves(c) == Ends(c) \/ Starts(c) \/ Goes(c)

\* A call that a step leaves alone, or moves to another label with the same lists.
LEMMA KeptCall ==
    ASSUME NEW c \in Clients, CallOK(call[c], calls), calls \in Nat, calls' \in {calls, calls + 1},
           call'[c] = call[c]
    PROVE  CallOK(call'[c], calls') /\ Moves(c)
<1>1. call[c].n \in 0..calls'
  BY DEF CallOK
<1>2. CallOK(call[c], calls')
  BY <1>1 DEF CallOK
<1>3. Moves(c)
  BY DEF Moves, Ends, Goes
<1> QED
  BY <1>2, <1>3

\* A step of one client leaves the calls of the others alone.
LEMMA OneCall ==
    ASSUME CallsOK, NEW c \in Clients, calls \in Nat, calls' \in {calls, calls + 1},
           call' = [call EXCEPT ![c] = call'[c]], CallOK(call'[c], calls'), Moves(c)
    PROVE  CallsOK' /\ \A d \in Clients : Moves(d)
<1>1. ASSUME NEW d \in Clients PROVE CallOK(call'[d], calls') /\ Moves(d)
  <2>1. CASE d = c
    BY <2>1
  <2>2. CASE d # c
    <3> call'[d] = call[d] /\ CallOK(call[d], calls)
      BY <2>2 DEF CallsOK
    <3> QED
      BY KeptCall
  <2> QED
    BY <2>1, <2>2
<1>2. call' = [d \in Clients |-> call'[d]]
  BY DEF CallsOK
<1> QED
  BY <1>1, <1>2 DEF CallsOK

\* A call that goes on with the lists it has.
Continues(c) ==
    LET r == call[c]
        q == call'[c]
    IN  /\ q = [f \in CallFields |-> q[f]]
        /\ r.pc \notin {"idle", "done"} /\ q.pc \in Labels \ {"idle"} /\ q.err \in BOOLEAN
        /\ q.n = r.n /\ q.op = r.op /\ q.key = r.key /\ q.lists = r.lists
        /\ q.peer \in 1..Len(Peers)
        /\ q.pc # "done" => ~q.err
        /\ q.pc \in {"next", "wait"} => Len(q.lists) = q.peer - 1
        /\ q.pc = "reply" => Len(q.lists) = q.peer
        /\ q.pc = "done" /\ ~q.err => Len(q.lists) = Len(Peers)

\* A step that only advances the call of one client.
LEMMA ContinuedCall ==
    ASSUME CallsOK, calls \in Nat, calls' = calls, NEW c \in Clients,
           call' = [call EXCEPT ![c] = call'[c]], Continues(c)
    PROVE  CallsOK' /\ \A d \in Clients : Moves(d)
<1>1. CallOK(call[c], calls)
  BY DEF CallsOK
<1>2. CallOK(call'[c], calls)
  BY <1>1 DEF CallOK, Continues
<1>3. Moves(c)
  BY DEF Moves, Goes, Continues
<1> QED
  BY <1>2, <1>3, OneCall

\* A call of the next server.
LEMMA InvokeCall ==
    ASSUME CallsOK, calls \in Nat, NEW c \in Clients, Invoke(c)
    PROVE  CallsOK' /\ \A d \in Clients : Moves(d)
<1> DEFINE r == call[c]
           q == [r EXCEPT !.pc = "wait"]
<1>1. CallOK(r, calls) /\ r.pc = "next"
  BY DEF CallsOK, Invoke, At
<1>2. call' = [call EXCEPT ![c] = q] /\ call'[c] = q /\ calls' = calls
  BY DEF CallsOK, Invoke, bounds
<1>3. /\ q = [f \in CallFields |-> q[f]]
      /\ q.pc = "wait" /\ q.n = r.n /\ q.op = r.op /\ q.key = r.key
      /\ q.peer = r.peer /\ q.lists = r.lists /\ q.err = r.err
  <2> r = [f \in CallFields |-> r[f]]
    BY <1>1 DEF CallOK
  <2> HIDE DEF r
  <2> QED
    BY DEF CallFields
<1> HIDE DEF q
<1>4. Continues(c)
  BY <1>1, <1>2, <1>3 DEF Continues, CallOK, Labels
<1> QED
  BY <1>2, <1>4, ContinuedCall

\* A call that ends with an error.
LEMMA FailsCall ==
    ASSUME CallsOK, calls \in Nat, calls' = calls, NEW c \in Clients,
           At(c, {"next", "wait", "reply", "broken"}), Fails(c)
    PROVE  CallsOK' /\ \A d \in Clients : Moves(d)
<1> DEFINE r == call[c]
           q == [r EXCEPT !.pc = "done", !.err = TRUE]
<1>1. CallOK(r, calls) /\ r.pc \in {"next", "wait", "reply", "broken"}
  BY DEF CallsOK, At
<1>2. call' = [call EXCEPT ![c] = q] /\ call'[c] = q
  BY DEF CallsOK, Fails
<1>3. /\ q = [f \in CallFields |-> q[f]]
      /\ q.pc = "done" /\ q.n = r.n /\ q.op = r.op /\ q.key = r.key
      /\ q.peer = r.peer /\ q.lists = r.lists /\ q.err = TRUE
  <2> r = [f \in CallFields |-> r[f]]
    BY <1>1 DEF CallOK
  <2> HIDE DEF r
  <2> QED
    BY DEF CallFields
<1> HIDE DEF q
<1>4. Continues(c)
  BY <1>1, <1>2, <1>3 DEF Continues, CallOK, Labels
<1> QED
  BY <1>2, <1>4, ContinuedCall

\* An answer from a server.
LEMMA ReceiveCall ==
    ASSUME CallsOK, calls \in Nat, NEW c \in Clients, Receive(c)
    PROVE  /\ CallsOK' /\ \A d \in Clients : Moves(d)
           /\ call' = [call EXCEPT ![c] = call'[c]]
           /\ call'[c].pc \in {"next", "done"} /\ call'[c].err = call[c].err /\ call'[c].op = call[c].op
<1> DEFINE r == call[c]
           q == [r EXCEPT !.pc = "next", !.peer = r.peer + 1]
           z == [r EXCEPT !.pc = "done"]
<1>1. CallOK(r, calls) /\ r.pc = "reply" /\ Len(Peers) \in Nat
  BY PeersFacts DEF CallsOK, Receive, At
<1>2. /\ call' = [call EXCEPT ![c] = call'[c]] /\ calls' = calls
      /\ call'[c] = IF r.peer < Len(Peers) THEN q ELSE z
  <2>1. call' = [call EXCEPT ![c] = IF r.peer < Len(Peers) THEN q ELSE z] /\ calls' = calls
    BY DEF Receive, bounds
  <2> HIDE DEF q, z, r
  <2> QED
    BY <2>1 DEF CallsOK
<1>3. /\ q = [f \in CallFields |-> q[f]]
      /\ q.pc = "next" /\ q.n = r.n /\ q.op = r.op /\ q.key = r.key
      /\ q.peer = r.peer + 1 /\ q.lists = r.lists /\ q.err = r.err
      /\ z = [f \in CallFields |-> z[f]]
      /\ z.pc = "done" /\ z.n = r.n /\ z.op = r.op /\ z.key = r.key
      /\ z.peer = r.peer /\ z.lists = r.lists /\ z.err = r.err
  <2> r = [f \in CallFields |-> r[f]]
    BY <1>1 DEF CallOK
  <2> HIDE DEF r
  <2> QED
    BY DEF CallFields
<1> HIDE DEF q, z
<1>4. CASE r.peer < Len(Peers)
  <2>1. call'[c] = q /\ r.peer + 1 \in 1..Len(Peers) /\ Len(q.lists) = q.peer - 1
    BY <1>1, <1>2, <1>3, <1>4 DEF CallOK
  <2>2. Continues(c)
    BY <1>1, <1>3, <2>1 DEF Continues, CallOK, Labels
  <2> QED
    BY <1>2, <1>3, <2>1, <2>2, ContinuedCall
<1>5. CASE ~(r.peer < Len(Peers))
  <2>1. call'[c] = z /\ r.peer = Len(Peers)
    BY <1>1, <1>2, <1>5 DEF CallOK
  <2>2. Continues(c)
    BY <1>1, <1>3, <2>1 DEF Continues, CallOK, Labels
  <2> QED
    BY <1>2, <1>3, <2>1, <2>2, ContinuedCall
<1> QED
  BY <1>4, <1>5

\* The answer of a peer to all calls that wait for it: lists gains one more.
LEMMA ReplyCall ==
    ASSUME CallsOK, calls \in Nat, calls' = calls, NEW m, NEW list \in Seq(Nat), NEW n, Reply(m, list, n),
           m.op \in {"Get", "Delete"} => Complete(list, matches'[m.to][m.key]),
           m.op = "Get" => list = <<>> \/ \E w \in walks : w.req = m /\ w.got = list,
           m.op = "Delete" => list = <<>>
    PROVE  CallsOK' /\ \A d \in Clients : Moves(d)
<1>1. call' = [d \in Clients |-> call'[d]]
  BY DEF Reply
<1>2. ASSUME NEW d \in Clients PROVE CallOK(call'[d], calls') /\ Moves(d)
  <2> DEFINE r == call[d]
             q == [r EXCEPT !.pc = "reply", !.lists = Append(r.lists, list), !.total = r.total + n]
  <2>1. CallOK(r, calls)
    BY DEF CallsOK
  <2>2. CASE call'[d] = r
    BY <2>1, <2>2, KeptCall
  <2>3. CASE call'[d] = q /\ r.pc = "wait" /\ Request(d) = m
    <3>1. /\ q = [f \in CallFields |-> q[f]]
          /\ q.pc = "reply" /\ q.n = r.n /\ q.op = r.op /\ q.key = r.key
          /\ q.peer = r.peer /\ q.lists = Append(r.lists, list) /\ q.err = r.err
      <4>1. r = [f \in CallFields |-> r[f]]
        BY <2>1 DEF CallOK
      <4> HIDE DEF r
      <4> QED
        BY <4>1 DEF CallFields
    <3>2. m.op = r.op /\ m.key = r.key /\ m.to = To(d)
      BY <2>3 DEF Request
    <3> HIDE DEF q
    <3>3. /\ r.lists \in Seq(Seq(Nat)) /\ Len(r.lists) = r.peer - 1 /\ r.peer \in 1..Len(Peers)
      BY <2>1, <2>3 DEF CallOK
    <3>4. Append(r.lists, list) \in Seq(Seq(Nat)) /\ Len(Append(r.lists, list)) = Len(r.lists) + 1
      <4> DEFINE S == Seq(Nat)
                 l == r.lists
      <4>1. l \in Seq(S) /\ list \in S
        BY <3>3
      <4> HIDE DEF S, l
      <4>2. Append(l, list) \in Seq(S) /\ Len(Append(l, list)) = Len(l) + 1
        BY <4>1
      <4> QED
        BY <4>2 DEF S, l
    <3>5. Len(r.lists) + 1 = r.peer /\ r.peer <= Len(Peers)
      BY <3>3, PeersFacts
    <3> HIDE DEF r
    <3>6. CallOK(q, calls)
      BY <2>1, <2>3, <3>1, <3>4, <3>5 DEF CallOK, Labels
    <3>7. r.op \in {"Get", "Delete"} => Gains(d, list)
      BY <2>3, <3>1, <3>2, <3>5 DEF Gains, r
    <3>8. Moves(d)
      BY <2>3, <3>1, <3>7 DEF Moves, Ends, Goes, r
    <3> QED
      BY <2>3, <3>6, <3>8
  <2> QED
    BY <2>2, <2>3 DEF Reply, At
<1> QED
  BY <1>1, <1>2 DEF CallsOK

\* A request begins its call of the store.
LEMMA BeginCall ==
    ASSUME CallsOK, calls \in Nat, NEW c \in Clients, NEW op \in Ops, NEW k \in Keys, Begin(c, op, k)
    PROVE  CallsOK' /\ \A d \in Clients : Moves(d)
<1> DEFINE from == IF op = "Count" THEN Total(k) ELSE 0
           q == [NoCall EXCEPT !.pc = "next", !.n = calls + 1, !.op = op, !.key = k, !.from = from]
<1>1. /\ q = [f \in CallFields |-> q[f]]
      /\ q.pc = "next" /\ q.n = calls + 1 /\ q.op = op /\ q.key = k
      /\ q.peer = 1 /\ q.lists = <<>> /\ q.err = FALSE
  <2> HIDE DEF from
  <2> QED
    BY DEF NoCall, CallFields
<1>2. /\ call' = [call EXCEPT ![c] = q] /\ call[c].pc = "idle"
      /\ calls' = calls + 1 /\ matches' = matches
  BY DEF Begin, At, store
<1> HIDE DEF q
<1>3. call'[c] = q
  BY <1>2 DEF CallsOK
<1>4. 1 \in 1..Len(Peers) /\ <<>> \in Seq(Seq(Nat)) /\ calls + 1 \in 0..calls + 1
  BY PeersFacts, NoCallOK, NoCallFacts DEF CallOK
<1>5. CallOK(q, calls + 1)
  <2>1. q.n \in 0..calls + 1 /\ q.n > 0 /\ q.peer \in 1..Len(Peers)
    BY <1>1, <1>4
  <2>2. q.lists \in Seq(Seq(Nat))
    BY <1>1, <1>4, Zenon
  <2>3. Len(q.lists) = q.peer - 1 /\ Len(q.lists) <= Len(Peers)
    BY <1>1, PeersFacts
  <2> QED
    BY <1>1, <2>1, <2>2, <2>3 DEF CallOK, Labels
<1>6. Moves(c)
  BY <1>1, <1>2, <1>3 DEF Moves, Starts
<1> QED
  BY <1>2, <1>3, <1>5, <1>6, OneCall

\* A request that is refused begins no call.
LEMMA RefuseCall ==
    ASSUME CallsOK, calls \in Nat, NEW c \in Clients, Refuse(c)
    PROVE  /\ CallsOK' /\ \A d \in Clients : Moves(d)
           /\ call'[c].op = "none" /\ call'[c].err = FALSE
<1> DEFINE q == [NoCall EXCEPT !.pc = "done"]
<1>1. /\ q = [f \in CallFields |-> q[f]]
      /\ q.pc = "done" /\ q.n = 0 /\ q.op = "none" /\ q.key = MismatchesKey
      /\ q.peer = 1 /\ q.lists = <<>> /\ q.err = FALSE
  BY DEF NoCall, CallFields
<1>2. call[c] = NoCall
  BY DEF Refuse, At, CallsOK, CallOK
<1>3. call' = [call EXCEPT ![c] = q] /\ call'[c] = q /\ calls' = calls + 1
  BY <1>2 DEF Refuse, CallsOK
<1> HIDE DEF q
<1>4. /\ q.n \in 0..calls + 1 /\ q.key \in Keys /\ q.peer \in 1..Len(Peers)
      /\ q.lists \in Seq(Seq(Nat)) /\ Len(q.lists) <= Len(Peers)
  <2>1. CallOK(NoCall, calls + 1)
    BY NoCallOK
  <2> QED
    BY <1>1, <2>1, NoCallFacts DEF CallOK
<1>5. CallOK(q, calls')
  BY <1>1, <1>3, <1>4 DEF CallOK, Labels, Ops
<1>6. Moves(c)
  BY <1>1, <1>3 DEF Moves, Ends
<1> QED
  BY <1>1, <1>3, <1>5, <1>6, OneCall

\* An answered client is idle again.
LEMMA RespondCall ==
    ASSUME CallsOK, calls \in Nat, NEW c \in Clients, Respond(c)
    PROVE  CallsOK' /\ \A d \in Clients : Moves(d)
<1>1. call' = [call EXCEPT ![c] = NoCall] /\ call'[c] = NoCall /\ calls' = calls
  BY DEF Respond, CallsOK, bounds
<1>2. CallOK(NoCall, calls') /\ Moves(c)
  BY <1>1, NoCallOK, NoCallFacts DEF Moves, Ends
<1> QED
  BY <1>1, <1>2, OneCall

\* The call of a host that stops is gone, that of a caller it leaves is broken.
LEMMA StopCall ==
    ASSUME CallsOK, calls \in Nat, NEW h \in Hosts, Stop(h)
    PROVE  CallsOK' /\ \A d \in Clients : Moves(d)
<1>1. call' = [d \in Clients |-> call'[d]] /\ calls' = calls
  BY DEF Stop
<1>2. ASSUME NEW d \in Clients PROVE CallOK(call'[d], calls') /\ Moves(d)
  <2> DEFINE r == call[d]
             q == [r EXCEPT !.pc = "broken"]
  <2>1. CallOK(r, calls)
    BY DEF CallsOK
  <2>2. CASE call'[d] = NoCall
    BY <1>1, <2>2, NoCallOK, NoCallFacts DEF Moves, Ends
  <2>3. CASE call'[d] = r
    BY <1>1, <2>1, <2>3, KeptCall
  <2>4. CASE call'[d] = q /\ r.pc = "wait"
    <3>1. /\ q = [f \in CallFields |-> q[f]]
          /\ q.pc = "broken" /\ q.n = r.n /\ q.op = r.op /\ q.key = r.key
          /\ q.peer = r.peer /\ q.lists = r.lists /\ q.err = r.err
      <4> r = [f \in CallFields |-> r[f]]
        BY <2>1 DEF CallOK
      <4> HIDE DEF r
      <4> QED
        BY DEF CallFields
    <3> HIDE DEF q, r
    <3>2. CallOK(q, calls)
      BY <2>1, <2>4, <3>1 DEF CallOK, Labels
    <3>3. Moves(d)
      BY <2>4, <3>1 DEF Moves, Goes, r
    <3> QED
      BY <1>1, <2>4, <3>2, <3>3
  <2> QED
    BY <2>2, <2>3, <2>4 DEF Stop, At
<1> QED
  BY <1>1, <1>2 DEF CallsOK

-----------------------------------------------------------------------------
(* The steps: what the calls have gathered. *)

\* What the cluster stores is what its servers store.
LEMMA StoredFacts ==
    ASSUME StoreOK, NEW k \in Keys
    PROVE  /\ Stored(k) \subseteq 1..recorded /\ recorded \in Nat
           /\ \A i \in 1..Len(Peers) : ToSet(matches[Peers[i].host][k]) \subseteq Stored(k)
           /\ \A x \in Stored(k) : \E i \in 1..Len(Peers) : x \in ToSet(matches[Peers[i].host][k])
<1>1. \A x \in Stored(k) : \E i \in 1..Len(Peers) : x \in ToSet(matches[Peers[i].host][k])
  BY PeersFacts DEF Stored, PeerHosts
<1>2. \A i \in 1..Len(Peers) : /\ ToSet(matches[Peers[i].host][k]) \subseteq Stored(k)
                              /\ Peers[i].host \in Hosts
  BY PeersFacts DEF Stored, PeerHosts
<1> QED
  BY <1>1, <1>2 DEF StoreOK

\* What a step may do to the walks: one may begin at the list of a host, or go on in it.
Walked(w) ==
    /\ w.req.to \in Hosts \cap PeerHosts /\ w.req.n \in 1..calls /\ w.req.key \in Keys
    /\ \/ ToSet(w.got) \subseteq ToSet(Listing(w))
       \/ \E v \in walks : v.req = w.req /\ ToSet(w.got) \subseteq ToSet(v.got) \cup ToSet(Listing(w))

\* What a call has of an answer is kept while the stores shrink.
LEMMA AnsweredStep ==
    ASSUME NEW kept, NEW more, NEW got, NEW list, NEW new, NEW n, Answered(kept, got, list),
           ToSet(new) \subseteq ToSet(list) \cup {n}, more \subseteq kept,
           n \notin kept, n \notin ToSet(got)
    PROVE  Answered(more, got, new)
  BY DEF Answered

\* A step that obeys Shrinks, Walked and Moves keeps what Gathered says of a call.
LEMMA GatheredStep ==
    ASSUME StoreOK, StoreOK', CallsOK, CallsOK', WalksOK, NEW c \in Clients, Gathered(c), Observe, Shrinks,
           \A w \in walks' : Walked(w), Moves(c)
    PROVE  Gathered(c)'
<1> DEFINE r == call[c]
           q == call'[c]
           k == q.key
           T == UNION {ToSet(matches'[h][k]) : h \in PeerHosts}
           Good(list, i) == /\ Answered(stay'[c], list, matches'[Peers[i].host][k])
                            /\ q.op = "Get" => ToSet(list) \subseteq seen'[c] /\ Distinct(list)
                            /\ q.op = "Delete" => list = <<>>
<1> SUFFICES ASSUME q.pc # "idle", q.op \in {"Get", "Delete"}
             PROVE  /\ stay'[c] \subseteq T
                    /\ q.op = "Get" => /\ T \subseteq seen'[c] /\ seen'[c] \subseteq 1..recorded'
                                       /\ \A w \in walks' : w.req.n = q.n /\ w.req.key = k =>
                                                              ToSet(w.got) \subseteq seen'[c]
                    /\ \A i \in 1..Len(q.lists) : Good(q.lists[i], i)
  BY DEF Gathered, Stored
<1>1. k \in Keys /\ CallOK(r, calls)
  BY DEF CallsOK, CallOK
<1>2. stay'[c] = IF r.pc = "idle" THEN Stored(k) ELSE stay[c] \cap T
  BY DEF Observe, During, At, Stored
<1>3. q.op = "Get" => seen'[c] = IF r.pc = "idle" THEN Stored(k) ELSE seen[c] \cup T
  BY DEF Observe, During, At, Stored
<1>4. recorded \in Nat /\ recorded + 1 \notin 1..recorded /\ 1..recorded \subseteq 1..recorded'
  BY DEF StoreOK, Shrinks
<1>5. CASE Starts(c)
  <2>1. r.pc = "idle" /\ q.lists = <<>> /\ q.n = calls + 1 /\ T = Stored(k)
    BY <1>5 DEF Starts, Stored
  <2>2. \A w \in walks' : w.req.n # q.n
    <3>1. calls \in Nat /\ \A w \in walks' : w.req.n \in 1..calls
      BY DEF StoreOK, Walked
    <3> QED
      BY <2>1, <3>1
  <2>3. Stored(k) \subseteq 1..recorded
    <3> HIDE DEF k
    <3> QED
      BY <1>1, StoredFacts
  <2> HIDE DEF T, q, r, Good
  <2> QED
    BY <1>2, <1>3, <1>4, <2>1, <2>2, <2>3
<1>6. CASE Goes(c)
  <2>1. /\ r.pc # "idle" /\ q.n = r.n /\ q.op = r.op /\ r.key = k
        /\ q.lists = r.lists \/ \E list \in Seq(Nat) : Gains(c, list)
    BY <1>6 DEF Goes
  <2>2. /\ stay[c] \subseteq Stored(k)
        /\ r.op = "Get" => /\ Stored(k) \subseteq seen[c] /\ seen[c] \subseteq 1..recorded
                           /\ \A w \in walks : w.req.n = r.n /\ w.req.key = k =>
                                                  ToSet(w.got) \subseteq seen[c]
        /\ \A i \in 1..Len(r.lists) :
              /\ Answered(stay[c], r.lists[i], matches[Peers[i].host][k])
              /\ r.op = "Get" => ToSet(r.lists[i]) \subseteq seen[c] /\ Distinct(r.lists[i])
              /\ r.op = "Delete" => r.lists[i] = <<>>
    BY <2>1 DEF Gathered
  <2>3. stay[c] \subseteq 1..recorded
    <3> HIDE DEF k
    <3> QED
      BY <1>1, <2>2, StoredFacts
  <2>4. stay'[c] = stay[c] \cap T /\ (q.op = "Get" => seen'[c] = seen[c] \cup T)
    BY <1>2, <1>3, <2>1
  <2>5. r.lists \in Seq(Seq(Nat)) /\ Len(r.lists) \in Nat /\ Len(r.lists) <= Len(Peers)
    <3>1. r.lists \in Seq(Seq(Nat)) /\ Len(Peers) \in Nat
      BY <1>1, PeersFacts DEF CallOK
    <3> QED
      BY <1>1, <3>1 DEF CallOK
  <2>6. ASSUME NEW i \in 1..Len(r.lists) PROVE Good(r.lists[i], i)
    <3>1. i \in DOMAIN Peers /\ Peers[i].host \in Hosts
      <4> HIDE DEF r, k, Good
      <4>1. i \in 1..Len(Peers)
        BY <2>5, PeersFacts
      <4> QED
        BY <4>1, PeersFacts
    <3>2. /\ Answered(stay[c], r.lists[i], matches[Peers[i].host][k])
          /\ r.op = "Get" => ToSet(r.lists[i]) \subseteq seen[c] /\ Distinct(r.lists[i])
          /\ r.op = "Delete" => r.lists[i] = <<>>
      BY <2>2
    <3>3. ToSet(matches'[Peers[i].host][k]) \subseteq ToSet(matches[Peers[i].host][k]) \cup {recorded + 1}
      <4> HIDE DEF k
      <4> QED
        BY <1>1, <3>1 DEF Shrinks
    <3>4. recorded + 1 \notin stay[c] /\ recorded + 1 \notin ToSet(r.lists[i])
      <4>1. ToSet(<<>>) = {}
        BY DEF ToSet
      <4> HIDE DEF k, r, q, T, Good
      <4> QED
        BY <1>4, <2>1, <2>2, <2>3, <3>2, <4>1
    <3>5. stay'[c] \subseteq stay[c]
      BY <2>4
    <3> HIDE DEF T, k, q, r
    <3>6. Answered(stay'[c], r.lists[i], matches'[Peers[i].host][k])
      BY <3>2, <3>3, <3>4, <3>5, AnsweredStep
    <3> QED
      BY <2>1, <2>4, <3>2, <3>6
  <2>7. stay'[c] \subseteq T
    BY <2>4
  <2>8. ASSUME q.op = "Get"
        PROVE  /\ T \subseteq seen'[c] /\ seen'[c] \subseteq 1..recorded'
               /\ \A w \in walks' : w.req.n = q.n /\ w.req.key = k => ToSet(w.got) \subseteq seen'[c]
    <3>1. T \subseteq 1..recorded'
      <4>1. PeerHosts \subseteq Hosts
        BY PeersFacts DEF PeerHosts
      <4>2. \A h \in Hosts : ToSet(matches'[h][k]) \subseteq 1..recorded'
        <5> HIDE DEF k
        <5> QED
          BY <1>1 DEF StoreOK
      <4> QED
        BY <4>1, <4>2
    <3>2. ASSUME NEW w \in walks', w.req.n = q.n, w.req.key = k PROVE ToSet(w.got) \subseteq seen'[c]
      <4>1. ToSet(Listing(w)) \subseteq Stored(k)
        <5>1. w.req.to \in PeerHosts
          BY DEF Walked
        <5> QED
          BY <3>2, <5>1 DEF Stored, Listing
      <4>2. \/ ToSet(w.got) \subseteq ToSet(Listing(w))
            \/ \E v \in walks : v.req = w.req /\ ToSet(w.got) \subseteq ToSet(v.got) \cup ToSet(Listing(w))
        BY DEF Walked
      <4>3. /\ Stored(k) \subseteq seen[c]
            /\ \A v \in walks : v.req = w.req => ToSet(v.got) \subseteq seen[c]
        BY <2>1, <2>2, <2>8, <3>2
      <4> HIDE DEF T, k, q
      <4> QED
        BY <2>4, <2>8, <4>1, <4>2, <4>3
    <3> HIDE DEF T, k, q, r
    <3> QED
      BY <1>4, <2>1, <2>2, <2>4, <2>8, <3>1, <3>2
  <2>9. CASE q.lists = r.lists
    <3> HIDE DEF Good
    <3> QED
      BY <2>6, <2>7, <2>8, <2>9
  <2>10. ASSUME NEW list \in Seq(Nat), Gains(c, list)
         PROVE  \A i \in 1..Len(q.lists) : Good(q.lists[i], i)
    <3> DEFINE p == r.peer
    <3>1. /\ q.lists = Append(r.lists, list) /\ Len(r.lists) + 1 = p
          /\ Complete(list, matches'[Peers[p].host][k])
          /\ r.op = "Get" => list = <<>> \/ \E w \in walks : w.req = Request(c) /\ w.got = list
          /\ r.op = "Delete" => list = <<>>
      BY <2>1, <2>10 DEF Gains, To
    <3>2. /\ Len(q.lists) = Len(r.lists) + 1 /\ q.lists[p] = list
          /\ \A i \in 1..Len(r.lists) : q.lists[i] = r.lists[i]
      <4> DEFINE S == Seq(Nat)
      <4>1. r.lists \in Seq(S) /\ list \in S
        BY <2>5
      <4> HIDE DEF S, r, q
      <4> QED
        BY <3>1, <4>1, ToSetFacts
    <3>3. ASSUME r.op = "Get" PROVE ToSet(list) \subseteq seen'[c] /\ Distinct(list)
      <4>1. CASE list = <<>>
        BY <4>1 DEF ToSet, Distinct
      <4>2. ASSUME NEW w \in walks, w.req = Request(c), w.got = list
            PROVE  ToSet(list) \subseteq seen'[c] /\ Distinct(list)
        <5>1. w.req.n = r.n /\ w.req.key = k
          BY <2>1, <4>2 DEF Request
        <5>2. ToSet(list) \subseteq seen[c]
          BY <2>2, <3>3, <4>2, <5>1
        <5>3. Distinct(list)
          BY <4>2, RisingFacts DEF WalksOK, WalkOK, WalkOf
        <5> HIDE DEF T, k, q, r
        <5> QED
          BY <2>1, <2>4, <3>3, <5>2, <5>3
      <4> QED
        BY <3>1, <3>3, <4>1, <4>2
    <3>4. Answered(stay'[c], list, matches'[Peers[p].host][k])
      BY <3>1 DEF Complete, Answered
    <3>5. Good(list, p)
      <4> HIDE DEF k, q, r, p, T
      <4> QED
        BY <2>1, <3>1, <3>3, <3>4
    <3>6. ASSUME NEW i \in 1..Len(q.lists) PROVE Good(q.lists[i], i)
      <4>1. i \in 1..Len(r.lists) \/ i = p
        BY <2>5, <3>1, <3>2
      <4> HIDE DEF Good, k, q, r, p
      <4> QED
        BY <2>6, <3>2, <3>5, <4>1
    <3> QED
      BY <3>6
  <2> HIDE DEF Good
  <2> QED
    BY <2>1, <2>6, <2>7, <2>8, <2>9, <2>10
<1> QED
  BY <1>5, <1>6 DEF Moves, Ends

-----------------------------------------------------------------------------
(* The steps: the walks. *)

\* A walk that a step leaves alone, while its list changes.
LEMMA WalkKept ==
    ASSUME StoreOK, StoreOK', Shrinks, NEW w, WalkOK(w)
    PROVE  WalkOK(w)' /\ (w \in walks => Walked(w))
<1>1. /\ w = [req |-> w.req, got |-> w.got] /\ w.req.op = "Get"
      /\ w.req.to \in Hosts \cap PeerHosts /\ w.req.n \in 1..calls /\ w.req.key \in Keys
      /\ WalkOf(w.got, Listing(w)) /\ ToSet(w.got) \subseteq 1..recorded
  BY DEF WalkOK
<1>2. /\ recorded \in Nat /\ recorded' \in {recorded, recorded + 1}
      /\ calls \in Nat /\ calls' \in {calls, calls + 1}
  BY DEF StoreOK, Shrinks
<1>3. w.req.n \in 1..calls' /\ ToSet(w.got) \subseteq 1..recorded'
  BY <1>1, <1>2
<1> DEFINE list == matches[w.req.to][w.req.key]
           new == matches'[w.req.to][w.req.key]
           n == recorded + 1
<1>4. /\ list \in Seq(Nat) /\ new \in Seq(Nat) /\ n \in Nat
      /\ ToSet(new) \subseteq ToSet(list) \cup {n}
      /\ \A x \in ToSet(list) \ ToSet(new), y \in ToSet(new) : x < y
  <2>1. list \in Seq(Nat) /\ new \in Seq(Nat) /\ n \in Nat
    BY <1>1, <1>2 DEF StoreOK
  <2>2. w.req.to \in Hosts /\ w.req.key \in Keys
    BY <1>1
  <2>3. /\ ToSet(new) \subseteq ToSet(list) \cup {n}
        /\ \A x \in ToSet(list) \ ToSet(new), y \in ToSet(new) : x < y
    BY <2>2 DEF Shrinks
  <2> QED
    BY <2>1, <2>3
<1>5. \A x \in ToSet(w.got) : x < n
  BY <1>1, <1>2
<1>6. WalkOf(w.got, list)
  BY <1>1 DEF Listing
<1> HIDE DEF list, new, n
<1>7. WalkOf(w.got, new)
  BY <1>4, <1>5, <1>6, WalkGoesOn
<1>8. WalkOK(w)'
  BY <1>1, <1>3, <1>7 DEF WalkOK, Listing, new
<1>9. w \in walks => Walked(w)
  BY <1>1 DEF Walked
<1> QED
  BY <1>8, <1>9

\* A walk that begins or goes on.
LEMMA WalkMoved ==
    ASSUME StoreOK, UNCHANGED <<matches, recorded, calls>>, NEW req, NEW got,
           req.op = "Get", req.to \in Hosts \cap PeerHosts, req.n \in 1..calls, req.key \in Keys,
           WalkOf(got, matches[req.to][req.key]), NEW before,
           ToSet(got) \subseteq before \cup ToSet(matches[req.to][req.key]),
           before = {} \/ \E v \in walks : WalkOK(v) /\ v.req = req /\ before = ToSet(v.got)
    PROVE  WalkOK([req |-> req, got |-> got])' /\ Walked([req |-> req, got |-> got])
<1> DEFINE w == [req |-> req, got |-> got]
<1>1. w.req = req /\ w.got = got
  OBVIOUS
<1>2. ToSet(matches[req.to][req.key]) \subseteq 1..recorded
  BY DEF StoreOK
<1>3. before \subseteq 1..recorded
  BY DEF WalkOK
<1> HIDE DEF w
<1>4. WalkOK(w)'
  <2>1. ToSet(w.got) \subseteq 1..recorded
    BY <1>1, <1>2, <1>3
  <2>2. w = [req |-> w.req, got |-> w.got]
    BY <1>1 DEF w
  <2> QED
    BY <1>1, <2>1, <2>2 DEF WalkOK, Listing
<1>5. Walked(w)
  BY <1>1 DEF Walked, Listing
<1> QED
  BY <1>4, <1>5 DEF w

\* Every step keeps what is known of the walks.
LEMMA WalksStep ==
    ASSUME StoreOK, StoreOK', WalksOK, Shrinks, Step
    PROVE  WalksOK' /\ \A w \in walks' : Walked(w)
<1> USE DEF store, bounds
<1> SUFFICES ASSUME NEW w \in walks' PROVE WalkOK(w)' /\ Walked(w)
  BY DEF WalksOK
<1>1. ASSUME w \in walks PROVE WalkOK(w)' /\ Walked(w)
  BY <1>1, WalkKept DEF WalksOK
<1>2. ASSUME NEW m \in sent, Fetch(m), w \notin walks PROVE WalkOK(w)' /\ Walked(w)
  <2> DEFINE list == matches[m.to][m.key]
  <2>1. /\ m.op = "Get" /\ list # <<>> /\ w = [req |-> m, got |-> <<Head(list)>>]
        /\ UNCHANGED <<matches, recorded, calls>>
    BY <1>2 DEF Fetch
  <2>2. /\ m.to \in Hosts \cap PeerHosts /\ m.n \in 1..calls /\ m.key \in Keys
        /\ list \in Seq(Nat) /\ Rising(list)
    BY DEF StoreOK
  <2> HIDE DEF list
  <2>3. WalkOf(<<Head(list)>>, list) /\ ToSet(<<Head(list)>>) \subseteq {} \cup ToSet(list)
    BY <2>1, <2>2, WalkBegins
  <2>4. ASSUME NEW got, got = <<Head(list)>> PROVE WalkOK([req |-> m, got |-> got])' /\ Walked([req |-> m, got |-> got])
    <3>1. WalkOf(got, matches[m.to][m.key]) /\ ToSet(got) \subseteq {} \cup ToSet(matches[m.to][m.key])
      BY <2>3, <2>4 DEF list
    <3>2. \A before : before = {} => (before = {} \/ \E v \in walks : WalkOK(v) /\ v.req = m /\ before = ToSet(v.got))
      OBVIOUS
    <3> QED
      BY <2>1, <2>2, <3>1, <3>2, WalkMoved
  <2> QED
    BY <2>1, <2>4
<1>3. ASSUME NEW v \in walks, FetchNext(v), w \notin walks PROVE WalkOK(w)' /\ Walked(w)
  <2> DEFINE list == matches[v.req.to][v.req.key]
  <2>1. WalkOK(v)
    BY DEF WalksOK
  <2>2. PICK i \in 2..Len(list) :
            /\ list[i - 1] = Last(v.got) /\ w = [v EXCEPT !.got = Append(v.got, list[i])]
            /\ UNCHANGED <<matches, recorded, calls>>
    BY <1>3 DEF FetchNext, IsNext, Listing
  <2>3. /\ v = [req |-> v.req, got |-> v.got] /\ v.req.op = "Get"
        /\ v.req.to \in Hosts \cap PeerHosts /\ v.req.n \in 1..calls /\ v.req.key \in Keys
        /\ WalkOf(v.got, list)
    BY <2>1 DEF WalkOK, Listing
  <2>4. list \in Seq(Nat) /\ Rising(list)
    BY <2>3 DEF StoreOK
  <2>5. ASSUME NEW req, NEW got, req = v.req, got = Append(v.got, list[i])
        PROVE  WalkOK([req |-> req, got |-> got])' /\ Walked([req |-> req, got |-> got])
    <3> HIDE DEF list
    <3>1. WalkOf(got, list) /\ ToSet(got) \subseteq ToSet(v.got) \cup ToSet(list)
      BY <2>2, <2>3, <2>4, <2>5, WalkExtends
    <3>2. /\ req.op = "Get" /\ req.to \in Hosts \cap PeerHosts /\ req.n \in 1..calls /\ req.key \in Keys
          /\ WalkOf(got, matches[req.to][req.key])
      BY <2>3, <2>5, <3>1 DEF list
    <3>3. ASSUME NEW before, before = ToSet(v.got)
          PROVE  /\ ToSet(got) \subseteq before \cup ToSet(matches[req.to][req.key])
                 /\ \E u \in walks : WalkOK(u) /\ u.req = req /\ before = ToSet(u.got)
      BY <2>1, <2>5, <3>1, <3>3 DEF list
    <3>4. UNCHANGED <<matches, recorded, calls>>
      BY <2>2
    <3> QED
      BY <3>2, <3>3, <3>4, WalkMoved
  <2>6. w = [req |-> v.req, got |-> Append(v.got, list[i])]
    BY <2>2, <2>3
  <2> HIDE DEF list
  <2> QED
    BY <2>5, <2>6
<1>4. CASE w \notin walks /\ ~(\E m \in sent : Fetch(m)) /\ ~(\E v \in walks : FetchNext(v))
  <2>1. walks' \subseteq walks
    BY <1>4 DEF Step, Respond, Handle, Begin, Refuse, Invoke, InvokeFails, Receive, Deadline, Disconnected,
                FetchCount, RemoveMatches, FetchEnds, FetchPanics, Stop, Crash, Restart, Add, SetResponse
  <2> QED
    BY <1>4, <2>1
<1> QED
  BY <1>1, <1>2, <1>3, <1>4

-----------------------------------------------------------------------------
(* The steps: no request at two hosts. *)

\* A request is recorded by one host, under the next number.
Fresh ==
    \A h, g \in Hosts, k \in Keys :
        recorded + 1 \in ToSet(matches'[h][k]) /\ recorded + 1 \in ToSet(matches'[g][k]) => h = g

\* The next match recorded is in no store yet.
LEMMA NextIsNew ==
    ASSUME StoreOK, NEW h \in Hosts, NEW k \in Keys PROVE recorded + 1 \notin ToSet(matches[h][k])
<1>1. recorded + 1 \notin 1..recorded /\ ToSet(matches[h][k]) \subseteq 1..recorded
  BY DEF StoreOK
<1> QED
  BY <1>1

\* No step brings a match into the stores of two hosts.
LEMMA FreshStep ==
    ASSUME StoreOK, WalksOK, Step
    PROVE  Fresh
<1> USE DEF store, bounds
<1>0. \A h \in Hosts, k \in Keys : recorded + 1 \notin ToSet(matches[h][k])
  BY NextIsNew
<1>1. ASSUME \A h \in Hosts, k \in Keys : matches'[h][k] = matches[h][k] \/ matches'[h][k] = <<>>
      PROVE  Fresh
  <2>1. ToSet(<<>>) = {}
    BY DEF ToSet
  <2> QED
    BY <1>0, <1>1, <2>1 DEF Fresh
<1>2. ASSUME NEW m \in sent, RemoveMatches(m) PROVE Fresh
  <2>1. m.to \in Hosts /\ m.key \in Keys /\ matches' = [matches EXCEPT ![m.to][m.key] = <<>>]
    BY <1>2 DEF StoreOK, RemoveMatches
  <2> QED
    BY <1>1, <2>1 DEF StoreOK
<1>3. ASSUME NEW h \in Hosts, Stop(h) PROVE Fresh
  BY <1>1, <1>3 DEF Stop, Empty, StoreOK
<1>4. ASSUME NEW h \in Hosts, NEW k \in Keys, Add(h, k) PROVE Fresh
  <2> DEFINE new == Newest(Append(matches[h][k], recorded + 1), Capacity)
  <2>1. matches' = [matches EXCEPT ![h][k] = new]
    BY <1>4 DEF Add
  <2> HIDE DEF new
  <2>2. \A g \in Hosts, j \in Keys : g # h \/ j # k => matches'[g][j] = matches[g][j]
    BY <2>1 DEF StoreOK
  <2> QED
    BY <1>0, <2>2 DEF Fresh
<1>5. ASSUME matches' = matches PROVE Fresh
  BY <1>1, <1>5
<1>6. CASE \E c \in Clients : Respond(c) \/ Handle(c) \/ Refuse(c)
  BY <1>5, <1>6 DEF Respond, Handle, Begin, Refuse
<1>7. CASE \E c \in Clients : Invoke(c) \/ InvokeFails(c) \/ Receive(c) \/ Deadline(c) \/ Disconnected(c)
  BY <1>5, <1>7 DEF Invoke, InvokeFails, Receive, Deadline, Disconnected
<1>8. CASE (\E m \in sent : Fetch(m) \/ FetchCount(m)) \/ \E w \in walks : FetchNext(w) \/ FetchEnds(w)
  BY <1>5, <1>8 DEF Fetch, FetchCount, FetchNext, FetchEnds
<1>9. CASE SetResponse \/ \E h \in Hosts : Restart(h)
  BY <1>5, <1>9 DEF Restart, SetResponse
<1>10. \A w \in walks : w.req.to \in Hosts
  BY DEF WalksOK, WalkOK
<1> QED
  BY <1>2, <1>3, <1>4, <1>6, <1>7, <1>8, <1>9, <1>10 DEF Step, FetchPanics, Crash

\* A host holds what it held before, and what it records.
LEMMA HoldsStep ==
    ASSUME StoreOK, CallsOK, Shrinks, \A w \in walks' : Walked(w), \A c \in Clients : Moves(c),
           NEW h \in Hosts, NEW k \in Keys, NEW x, Holds(h, k, x)'
    PROVE  Holds(h, k, x) \/ (x = recorded + 1 /\ x \in ToSet(matches'[h][k]))
<1>1. CASE x \in ToSet(matches'[h][k])
  BY <1>1 DEF Shrinks, Holds
<1>2. ASSUME NEW w \in walks', w.req.to = h, w.req.key = k, x \in ToSet(w.got) PROVE Holds(h, k, x)
  BY <1>2 DEF Walked, Listing, Holds
<1>3. ASSUME NEW c \in Clients, call'[c].pc # "idle", call'[c].op = "Get", call'[c].key = k,
             NEW i \in 1..Len(call'[c].lists), Peers[i].host = h, x \in ToSet(call'[c].lists[i])
      PROVE  Holds(h, k, x)
  <2>1. Goes(c)
    BY <1>3 DEF Moves, Ends, Starts
  <2>2. call[c].pc # "idle" /\ call[c].op = "Get" /\ call[c].key = k
    BY <1>3, <2>1 DEF Goes
  <2>3. CASE call'[c].lists = call[c].lists
    BY <1>3, <2>2, <2>3 DEF Holds
  <2>4. ASSUME NEW list \in Seq(Nat), Gains(c, list) PROVE Holds(h, k, x)
    <3> DEFINE lists == call[c].lists
               p == call[c].peer
    <3>1. /\ call'[c].lists = Append(lists, list) /\ Len(lists) + 1 = p
          /\ list = <<>> \/ \E w \in walks : w.req = Request(c) /\ w.got = list
      BY <2>2, <2>4 DEF Gains
    <3>2. lists \in Seq(Seq(Nat)) /\ Len(lists) \in Nat
      BY LenProperties DEF CallsOK, CallOK
    <3>3. /\ Len(call'[c].lists) = Len(lists) + 1 /\ call'[c].lists[p] = list
          /\ \A j \in 1..Len(lists) : call'[c].lists[j] = lists[j]
      <4> DEFINE S == Seq(Nat)
      <4>1. lists \in Seq(S) /\ list \in S
        BY <3>2
      <4> HIDE DEF S, lists
      <4> QED
        BY <3>1, <4>1, ToSetFacts
    <3>4. i \in 1..Len(lists) \/ i = p
      <4> HIDE DEF lists, p
      <4> QED
        BY <3>1, <3>2, <3>3
    <3>5. CASE i \in 1..Len(lists)
      BY <1>3, <2>2, <3>3, <3>5 DEF Holds
    <3>6. CASE i = p
      <4>1. x \in ToSet(list) /\ list # <<>>
        BY <1>3, <3>3, <3>6 DEF ToSet
      <4>2. PICK w \in walks : w.req = Request(c) /\ w.got = list
        BY <3>1, <4>1
      <4>3. w.req.to = h /\ w.req.key = k
        BY <1>3, <2>2, <3>6, <4>2 DEF Request, To
      <4> QED
        BY <4>1, <4>2, <4>3 DEF Holds
    <3> QED
      BY <3>4, <3>5, <3>6
  <2> QED
    BY <2>1, <2>3, <2>4 DEF Goes
<1> QED
  BY <1>1, <1>2, <1>3 DEF Holds

\* Whatever a host holds was recorded.
LEMMA HeldIsRecorded ==
    ASSUME IInv, NEW h \in Hosts, NEW k \in Keys, NEW x, Holds(h, k, x)
    PROVE  x \in 1..recorded
<1>1. CASE x \in ToSet(matches[h][k])
  BY <1>1 DEF IInv, StoreOK
<1>2. ASSUME NEW w \in walks, x \in ToSet(w.got) PROVE x \in 1..recorded
  BY <1>2 DEF IInv, WalksOK, WalkOK
<1>3. ASSUME NEW c \in Clients, call[c].pc # "idle", call[c].op = "Get",
             NEW i \in 1..Len(call[c].lists), x \in ToSet(call[c].lists[i])
      PROVE  x \in 1..recorded
  BY <1>3 DEF IInv, Gathered
<1> QED
  BY <1>1, <1>2, <1>3 DEF Holds

-----------------------------------------------------------------------------
(* Every step. *)

\* Every step keeps the stores and the calls well typed.
LEMMA StepKeeps ==
    ASSUME StoreOK, WalksOK, CallsOK, Step
    PROVE  StoreOK' /\ Shrinks /\ CallsOK' /\ \A c \in Clients : Moves(c)
<1> USE DEF store, bounds
<1>0. calls \in Nat /\ up \subseteq Hosts
  BY DEF StoreOK
<1>1. ASSUME NEW c \in Clients, Respond(c) PROVE StoreOK' /\ Shrinks /\ CallsOK' /\ \A d \in Clients : Moves(d)
  <2>1. StoreOK' /\ Shrinks
    BY <1>0, <1>1, SameStore DEF Respond
  <2> QED
    BY <1>0, <1>1, <2>1, RespondCall
<1>2. ASSUME NEW c \in Clients, Handle(c) PROVE StoreOK' /\ Shrinks /\ CallsOK' /\ \A d \in Clients : Moves(d)
  <2>1. PICK op \in Ops, k \in Keys : Begin(c, op, k)
    BY <1>2 DEF Handle
  <2>2. StoreOK' /\ Shrinks
    BY <1>0, <2>1, SameStore DEF Begin
  <2> QED
    BY <1>0, <2>1, <2>2, BeginCall
<1>3. ASSUME NEW c \in Clients, Refuse(c) PROVE StoreOK' /\ Shrinks /\ CallsOK' /\ \A d \in Clients : Moves(d)
  <2>1. StoreOK' /\ Shrinks
    BY <1>0, <1>3, SameStore DEF Refuse
  <2> QED
    BY <1>0, <1>3, <2>1, RefuseCall
<1>4. ASSUME NEW c \in Clients, Invoke(c) PROVE StoreOK' /\ Shrinks /\ CallsOK' /\ \A d \in Clients : Moves(d)
  <2>1. Request(c).to \in Hosts \cap PeerHosts /\ Request(c).n \in 1..calls /\ Request(c).key \in Keys
    <3>1. CallOK(call[c], calls) /\ call[c].pc = "next"
      BY <1>4 DEF CallsOK, Invoke, At
    <3>2. call[c].n \in 1..calls /\ call[c].key \in Keys /\ call[c].peer \in DOMAIN Peers
      BY <1>0, <3>1, PeersFacts DEF CallOK
    <3> QED
      BY <3>2, PeersFacts DEF Request, To, PeerHosts
  <2>2. sent' = sent \cup {Request(c)} /\ UNCHANGED <<matches, count, up, recorded, calls, crashes>>
    BY <1>4 DEF Invoke
  <2>3. StoreOK' /\ Shrinks
    BY <1>0, <2>1, <2>2, SameStore
  <2> QED
    BY <1>0, <1>4, <2>3, InvokeCall
<1>5. ASSUME NEW c \in Clients, InvokeFails(c) \/ Deadline(c) \/ Disconnected(c)
      PROVE  StoreOK' /\ Shrinks /\ CallsOK' /\ \A d \in Clients : Moves(d)
  <2>1. /\ UNCHANGED <<matches, count, up, sent, recorded, calls, crashes>> /\ Fails(c)
        /\ At(c, {"next", "wait", "reply", "broken"})
    BY <1>5 DEF InvokeFails, Deadline, Disconnected, At
  <2>2. StoreOK' /\ Shrinks
    BY <1>0, <2>1, SameStore
  <2> QED
    BY <1>0, <2>1, <2>2, FailsCall
<1>6. ASSUME NEW c \in Clients, Receive(c) PROVE StoreOK' /\ Shrinks /\ CallsOK' /\ \A d \in Clients : Moves(d)
  <2>1. UNCHANGED <<matches, count, up, sent, recorded, calls, crashes>>
    BY <1>6 DEF Receive
  <2>2. StoreOK' /\ Shrinks
    BY <1>0, <2>1, SameStore
  <2> QED
    BY <1>0, <1>6, <2>2, ReceiveCall
<1>7. ASSUME NEW m \in sent, Fetch(m) PROVE StoreOK' /\ Shrinks /\ CallsOK' /\ \A d \in Clients : Moves(d)
  <2>1. /\ m.op = "Get" /\ sent' = sent \ {m}
        /\ UNCHANGED <<matches, count, up, recorded, calls, crashes>>
        /\ UNCHANGED call \/ (matches[m.to][m.key] = <<>> /\ Reply(m, <<>>, 0))
    BY <1>7 DEF Fetch
  <2>2. StoreOK' /\ Shrinks
    BY <1>0, <2>1, SameStore
  <2>3. CASE UNCHANGED call
    BY <1>0, <2>1, <2>2, <2>3, KeptCall DEF CallsOK
  <2>4. CASE matches[m.to][m.key] = <<>> /\ Reply(m, <<>>, 0)
    <3>1. <<>> \in Seq(Nat) /\ Complete(<<>>, matches'[m.to][m.key])
      BY <2>1, <2>4 DEF Complete
    <3>2. CallsOK' /\ \A d \in Clients : Moves(d)
      BY <1>0, <2>1, <2>4, <3>1, ReplyCall
    <3> QED
      BY <2>2, <3>2
  <2> QED
    BY <2>1, <2>3, <2>4
<1>8. ASSUME NEW m \in sent, FetchCount(m) PROVE StoreOK' /\ Shrinks /\ CallsOK' /\ \A d \in Clients : Moves(d)
  <2>1. /\ m.op = "Count" /\ Reply(m, <<>>, count[m.to][m.key]) /\ sent' = sent \ {m}
        /\ UNCHANGED <<matches, count, up, recorded, calls, crashes>>
    BY <1>8 DEF FetchCount
  <2>2. StoreOK' /\ Shrinks
    BY <1>0, <2>1, SameStore
  <2>3. <<>> \in Seq(Nat)
    OBVIOUS
  <2>4. CallsOK' /\ \A d \in Clients : Moves(d)
    BY <1>0, <2>1, <2>3, ReplyCall
  <2> QED
    BY <2>2, <2>4
<1>9. ASSUME NEW m \in sent, RemoveMatches(m) PROVE StoreOK' /\ Shrinks /\ CallsOK' /\ \A d \in Clients : Moves(d)
  <2>1. StoreOK' /\ Shrinks
    BY <1>9, RemoveStore
  <2>2. m.op = "Delete" /\ Reply(m, <<>>, 0) /\ calls' = calls
    BY <1>9 DEF RemoveMatches
  <2>3. Complete(<<>>, matches'[m.to][m.key]) /\ <<>> \in Seq(Nat)
    <3>1. matches' = [matches EXCEPT ![m.to][m.key] = <<>>] /\ m.to \in Hosts /\ m.key \in Keys
      BY <1>9 DEF RemoveMatches, StoreOK
    <3> QED
      BY <3>1 DEF StoreOK, Complete
  <2>4. CallsOK' /\ \A d \in Clients : Moves(d)
    BY <1>0, <2>2, <2>3, ReplyCall
  <2> QED
    BY <2>1, <2>4
<1>10. ASSUME NEW h \in Hosts, Stop(h) PROVE StoreOK' /\ Shrinks /\ CallsOK' /\ \A d \in Clients : Moves(d)
  BY <1>0, <1>10, StopStore, StopCall
<1>11. ASSUME SetResponse \/ (\E w \in walks : FetchNext(w)) \/ \E h \in Hosts : Restart(h)
       PROVE  StoreOK' /\ Shrinks /\ CallsOK' /\ \A d \in Clients : Moves(d)
  <2>1. UNCHANGED <<matches, count, call, sent, recorded, calls, crashes>> /\ up' \subseteq Hosts
    BY <1>0, <1>11 DEF Restart, SetResponse, FetchNext
  <2>2. StoreOK' /\ Shrinks
    BY <1>0, <2>1, SameStore
  <2> QED
    BY <1>0, <2>1, <2>2, KeptCall DEF CallsOK
<1>12. ASSUME NEW h \in Hosts, NEW k \in Keys, Add(h, k)
       PROVE  StoreOK' /\ Shrinks /\ CallsOK' /\ \A d \in Clients : Moves(d)
  <2>1. UNCHANGED <<call, calls>>
    BY <1>12 DEF Add
  <2>2. StoreOK' /\ Shrinks
    BY <1>12, AddStore
  <2> QED
    BY <1>0, <2>1, <2>2, KeptCall DEF CallsOK
<1>13. ASSUME NEW w \in walks, FetchEnds(w)
       PROVE  StoreOK' /\ Shrinks /\ CallsOK' /\ \A d \in Clients : Moves(d)
  <2> DEFINE list == matches[w.req.to][w.req.key]
  <2>1. /\ NextIsNil(w) /\ Reply(w.req, w.got, 0)
        /\ UNCHANGED <<matches, count, up, sent, recorded, calls, crashes>>
    BY <1>13 DEF FetchEnds
  <2>2. StoreOK' /\ Shrinks
    BY <1>0, <2>1, SameStore
  <2>3. /\ w.req.op = "Get" /\ w.got \in Seq(Nat) /\ WalkOf(w.got, list)
        /\ w.req.to \in Hosts /\ w.req.key \in Keys
    BY DEF WalksOK, WalkOK, WalkOf, Listing
  <2>4. list \in Seq(Nat) /\ Rising(list)
    BY <2>3 DEF StoreOK
  <2>5. \A i \in 2..Len(list) : list[i - 1] # Last(w.got)
    BY <2>1 DEF NextIsNil, IsNext, Listing
  <2>6. Complete(w.got, list)
    <3> HIDE DEF list
    <3> QED
      BY <2>3, <2>4, <2>5, WalkEnds
  <2>7. Complete(w.got, matches'[w.req.to][w.req.key])
    BY <2>1, <2>6
  <2>8. CallsOK' /\ \A d \in Clients : Moves(d)
    BY <1>0, <2>1, <2>3, <2>7, ReplyCall
  <2> QED
    BY <2>2, <2>8
<1>14. \A w \in walks : w.req.to \in Hosts
  BY DEF WalksOK, WalkOK
<1> QED
  BY <1>1, <1>2, <1>3, <1>4, <1>5, <1>6, <1>7, <1>8, <1>9, <1>10, <1>11, <1>12, <1>13, <1>14
     DEF Step, FetchPanics, Crash

\* The invariant holds initially.
LEMMA InitIInv == Init => IInv
<1> SUFFICES ASSUME Init PROVE IInv
  OBVIOUS
<1> USE DEF Init, StoreInit
<1>1. \A c \in Clients : call[c] = NoCall
  OBVIOUS
<1>2. CallsOK
  <2>1. calls \in Nat
    OBVIOUS
  <2>2. call = [c \in Clients |-> call[c]]
    OBVIOUS
  <2> QED
    BY <1>1, <2>1, <2>2, NoCallOK DEF CallsOK
<1>3. \A c \in Clients : Gathered(c)
  BY <1>1, NoCallFacts DEF Gathered
<1>4. \A h \in Hosts, k \in Keys : matches[h][k] = <<>> /\ count[h][k] = 0
  BY DEF Empty, Zero
<1>5. matches \in [Hosts -> [Keys -> Seq(Nat)]] /\ count \in [Hosts -> [Keys -> Nat]]
  <2>1. Empty \in [Keys -> Seq(Nat)] /\ Zero \in [Keys -> Nat]
    BY DEF Empty, Zero
  <2> QED
    BY <2>1
<1>6. ToSet(<<>>) = {} /\ Len(<<>>) = 0 /\ Rising(<<>>)
  BY DEF ToSet, Rising
<1>7. StoreOK
  BY <1>4, <1>5, <1>6, GrpcMatchstoreAssumption DEF StoreOK
<1>8. WalksOK
  BY DEF WalksOK
<1> QED
  BY <1>2, <1>3, <1>7, <1>8 DEF IInv

\* Every step preserves the invariant.
LEMMA NextIInv == IInv /\ [Next]_allVars => IInv'
<1> SUFFICES ASSUME IInv, [Next]_allVars PROVE IInv'
  OBVIOUS
<1> USE DEF IInv
<1>1. CASE Next
  <2>1. StoreOK' /\ Shrinks /\ CallsOK' /\ \A c \in Clients : Moves(c)
    BY <1>1, StepKeeps DEF Next
  <2>2. WalksOK' /\ \A w \in walks' : Walked(w)
    BY <1>1, <2>1, WalksStep DEF Next
  <2>3. \A c \in Clients : Gathered(c)'
    BY <1>1, <2>1, <2>2, GatheredStep DEF Next
  <2> QED
    BY <2>1, <2>2, <2>3
<1>2. CASE UNCHANGED allVars
  <2>1. StoreOK' /\ CallsOK' /\ WalksOK'
    BY <1>2 DEF allVars, vars, store, bounds, StoreOK, CallsOK, WalksOK, WalkOK, Listing
  <2>2. \A c \in Clients : Gathered(c)'
    BY <1>2 DEF allVars, vars, store, bounds, Gathered, Stored
  <2> QED
    BY <2>1, <2>2
<1> QED
  BY <1>1, <1>2

\* The invariant is inductive.
LEMMA Inductive == Spec => []IInv
  BY InitIInv, NextIInv, PTL DEF Spec

\* No request is ever held by two hosts.
LEMMA ApartInductive == Spec => []Apart
<1>1. Init => Apart
  <2> SUFFICES ASSUME Init, NEW h \in Hosts, NEW k \in Keys, NEW x PROVE ~Holds(h, k, x)
    BY DEF Apart
  <2>1. \A c \in Clients : call[c] = NoCall
    BY DEF Init, StoreInit
  <2>2. ToSet(matches[h][k]) = {} /\ walks = {}
    BY DEF Init, StoreInit, Empty, ToSet
  <2> QED
    BY <2>1, <2>2, NoCallFacts DEF Holds
<1>2. IInv /\ Apart /\ [Next]_allVars => Apart'
  <2> SUFFICES ASSUME IInv, Apart, [Next]_allVars PROVE Apart'
    OBVIOUS
  <2>1. CASE Next
    <3>1. StoreOK' /\ Shrinks /\ CallsOK' /\ \A c \in Clients : Moves(c)
      BY <2>1, StepKeeps DEF Next, IInv
    <3>2. Fresh /\ \A w \in walks' : Walked(w)
      BY <2>1, <3>1, FreshStep, WalksStep DEF Next, IInv
    <3>3. ASSUME NEW h \in Hosts, NEW g \in Hosts, NEW k \in Keys, NEW x \in Nat, Holds(h, k, x)', Holds(g, k, x)'
          PROVE  h = g
      <4>1. /\ Holds(h, k, x) \/ (x = recorded + 1 /\ x \in ToSet(matches'[h][k]))
            /\ Holds(g, k, x) \/ (x = recorded + 1 /\ x \in ToSet(matches'[g][k]))
        BY <3>1, <3>2, <3>3, HoldsStep DEF IInv
      <4>2. Holds(h, k, x) \/ Holds(g, k, x) => x # recorded + 1
        <5>1. recorded \in Nat
          BY DEF IInv, StoreOK
        <5>2. Holds(h, k, x) \/ Holds(g, k, x) => x \in 1..recorded
          BY HeldIsRecorded
        <5> QED
          BY <5>1, <5>2
      <4> QED
        BY <3>2, <4>1, <4>2 DEF Fresh, Apart
    <3> QED
      BY <3>3 DEF Apart
  <2>2. CASE UNCHANGED allVars
    BY <2>2 DEF allVars, vars, store, Apart, Holds
  <2> QED
    BY <2>1, <2>2
<1> QED
  BY <1>1, <1>2, Inductive, PTL DEF Spec

-----------------------------------------------------------------------------
(* The counters. *)

\* The sums of the first numbers of a list.
LEMMA SumFacts ==
    ASSUME NEW m \in Nat, NEW v \in [1..m -> Nat]
    PROVE  /\ SumUpTo(v)[0] = 0
           /\ \A i \in 1..m : SumUpTo(v)[i] = SumUpTo(v)[i - 1] + v[i]
           /\ \A i \in 0..m : SumUpTo(v)[i] \in Nat
<1> DEFINE Solves(g, k) == g = [i \in 0..k |-> IF i = 0 THEN 0 ELSE g[i - 1] + v[i]]
           K == {k \in Nat : \E g : Solves(g, k)}
<1>1. 0 \in K
  <2>1. Solves([i \in 0..0 |-> 0], 0)
    OBVIOUS
  <2> QED
    BY <2>1
<1>2. ASSUME NEW k \in Nat, k \in K PROVE k + 1 \in K
  <2>1. PICK g : Solves(g, k)
    BY <1>2
  <2> DEFINE h == [i \in 0..k + 1 |-> IF i = 0 THEN 0 ELSE g[i - 1] + v[i]]
  <2>2. ASSUME NEW i \in 0..k PROVE h[i] = g[i]
    <3>1. g[i] = IF i = 0 THEN 0 ELSE g[i - 1] + v[i]
      BY <2>1
    <3>2. i \in 0..k + 1
      OBVIOUS
    <3> QED
      BY <3>1, <3>2, Zenon
  <2>3. ASSUME NEW i \in 0..k + 1
        PROVE  (IF i = 0 THEN 0 ELSE g[i - 1] + v[i]) = (IF i = 0 THEN 0 ELSE h[i - 1] + v[i])
    <3>1. CASE i = 0
      BY <3>1, Zenon
    <3>2. CASE i # 0
      <4>1. i - 1 \in 0..k
        BY <3>2
      <4> QED
        BY <2>2, <4>1, Zenon
    <3> QED
      BY <3>1, <3>2
  <2>4. Solves(h, k + 1)
    <3> HIDE DEF h
    <3>1. h = [i \in 0..k + 1 |-> IF i = 0 THEN 0 ELSE g[i - 1] + v[i]]
      BY Zenon DEF h
    <3> QED
      BY <2>3, <3>1
  <2>5. k + 1 \in Nat
    OBVIOUS
  <2>6. \E f : Solves(f, k + 1)
    <3> HIDE DEF Solves, h
    <3> QED
      BY <2>4, Zenon
  <2> HIDE DEF Solves
  <2> QED
    BY <2>5, <2>6
<1>3. m \in K
  <2> HIDE DEF K
  <2> QED
    BY <1>1, <1>2, SetInduction
<1> DEFINE sum == SumUpTo(v)
<1>4. Len(v) = m
  OBVIOUS
<1>5. Solves(sum, m)
  <2>1. \E g : Solves(g, m)
    BY <1>3, Zenon
  <2>2. sum = CHOOSE g : Solves(g, m)
    BY <1>4, Zenon DEF SumUpTo
  <2> HIDE DEF Solves, sum
  <2> QED
    BY <2>1, <2>2, Zenon
<1> HIDE DEF sum
<1>6. sum[0] = 0 /\ \A i \in 1..m : sum[i] = sum[i - 1] + v[i]
  BY <1>5
<1> DEFINE N == {i \in Nat : i <= m => sum[i] \in Nat}
<1>7. 0 \in N
  BY <1>6
<1>8. ASSUME NEW i \in Nat, i \in N PROVE i + 1 \in N
  BY <1>6, <1>8
<1>9. Nat \subseteq N
  <2> HIDE DEF N
  <2> QED
    BY <1>7, <1>8, SetInduction
<1>10. \A i \in 0..m : sum[i] \in Nat
  BY <1>9
<1> QED
  BY <1>6, <1>10 DEF sum

\* Greater numbers have greater sums, of the first ones and of the rest.
LEMMA SumsGrow ==
    ASSUME NEW m \in Nat, NEW v \in [1..m -> Nat], NEW w \in [1..m -> Nat],
           \A i \in 1..m : v[i] <= w[i], NEW j \in 0..m
    PROVE  /\ SumUpTo(v)[j] <= SumUpTo(w)[j]
           /\ SumUpTo(w)[j] + SumUpTo(v)[m] <= SumUpTo(v)[j] + SumUpTo(w)[m]
<1> DEFINE a == SumUpTo(v)
           b == SumUpTo(w)
<1>1. a[0] = 0 /\ (\A i \in 1..m : a[i] = a[i - 1] + v[i]) /\ \A i \in 0..m : a[i] \in Nat
  BY SumFacts
<1>2. b[0] = 0 /\ (\A i \in 1..m : b[i] = b[i - 1] + w[i]) /\ \A i \in 0..m : b[i] \in Nat
  BY SumFacts
<1> HIDE DEF a, b
<1>3. ASSUME NEW i \in Nat, i + 1 <= m
      PROVE  /\ i \in 0..m /\ i + 1 \in 1..m /\ i + 1 \in 0..m
             /\ a[i + 1] = a[i] + v[i + 1] /\ b[i + 1] = b[i] + w[i + 1]
             /\ v[i + 1] \in Nat /\ w[i + 1] \in Nat /\ v[i + 1] <= w[i + 1]
             /\ a[i] \in Nat /\ b[i] \in Nat
  <2>1. i \in 0..m /\ i + 1 \in 1..m /\ i + 1 \in 0..m /\ (i + 1) - 1 = i
    BY <1>3
  <2> QED
    BY <1>1, <1>2, <2>1
<1> DEFINE K == {i \in Nat : i <= m => a[i] <= b[i]}
<1>4. 0 \in K
  BY <1>1, <1>2
<1>5. ASSUME NEW i \in Nat, i \in K PROVE i + 1 \in K
  <2> SUFFICES ASSUME i + 1 <= m PROVE a[i + 1] <= b[i + 1]
    OBVIOUS
  <2>1. a[i] <= b[i]
    BY <1>5
  <2> QED
    BY <1>3, <2>1
<1>6. Nat \subseteq K
  <2> HIDE DEF K
  <2> QED
    BY <1>4, <1>5, SetInduction
<1>7. a[j] <= b[j]
  BY <1>6
<1> DEFINE R == {i \in Nat : j <= i /\ i <= m => b[j] + a[i] <= a[j] + b[i]}
<1>8. 0 \in R
  BY <1>1, <1>2
<1>9. ASSUME NEW i \in Nat, i \in R PROVE i + 1 \in R
  <2> SUFFICES ASSUME j <= i + 1, i + 1 <= m PROVE b[j] + a[i + 1] <= a[j] + b[i + 1]
    OBVIOUS
  <2>1. a[j] \in Nat /\ b[j] \in Nat
    BY <1>1, <1>2
  <2>2. CASE j = i + 1
    BY <2>1, <2>2
  <2>3. CASE j # i + 1
    <3>1. b[j] + a[i] <= a[j] + b[i]
      BY <1>9, <2>3
    <3>2. /\ a[i + 1] = a[i] + v[i + 1] /\ b[i + 1] = b[i] + w[i + 1]
          /\ v[i + 1] \in Nat /\ w[i + 1] \in Nat /\ v[i + 1] <= w[i + 1]
          /\ a[i] \in Nat /\ b[i] \in Nat
      BY <1>3, Zenon
    <3> DEFINE aj == a[j]  bj == b[j]  ai == a[i]  bi == b[i]  vi == v[i + 1]  wi == w[i + 1]
    <3>3. /\ aj \in Nat /\ bj \in Nat /\ ai \in Nat /\ bi \in Nat /\ vi \in Nat /\ wi \in Nat
          /\ vi <= wi /\ bj + ai <= aj + bi
      BY <2>1, <3>1, <3>2, Zenon
    <3> HIDE DEF aj, bj, ai, bi, vi, wi
    <3>4. bj + (ai + vi) <= aj + (bi + wi)
      BY <3>3
    <3> QED
      BY <3>2, <3>4, Zenon DEF aj, bj, ai, bi, vi, wi
  <2> QED
    BY <2>2, <2>3
<1>10. Nat \subseteq R
  <2> HIDE DEF R
  <2> QED
    BY <1>8, <1>9, SetInduction
<1>11. b[j] + a[m] <= a[j] + b[m]
  BY <1>10
<1> QED
  BY <1>7, <1>11 DEF a, b

\* The counters of the peers.
LEMMA CountsFacts ==
    ASSUME StoreOK, NEW k \in Keys
    PROVE  /\ Counts(k) \in [1..Len(Peers) -> Nat]
           /\ \A i \in 1..Len(Peers) : Counts(k)[i] = count[Peers[i].host][k]
<1>1. DOMAIN Peers = 1..Len(Peers) /\ \A i \in 1..Len(Peers) : Peers[i].host \in Hosts
  BY PeersFacts
<1>2. \A h \in Hosts : count[h][k] \in Nat
  BY DEF StoreOK
<1> QED
  BY <1>1, <1>2 DEF Counts

\* A count so far: not more than the peers that have answered have counted by now, and
\* with what the others have, not less than all had when the call began.
Tallied(r) ==
    LET sum == SumUpTo(Counts(r.key))
        i == Len(r.lists)
    IN  /\ r.from \in Nat /\ r.total \in Nat
        /\ r.total <= sum[i] /\ r.from + sum[i] <= r.total + sum[Len(Peers)]

CountInv == \A c \in Clients : call[c].pc # "idle" /\ call[c].op = "Count" /\ c \notin cut => Tallied(call[c])

\* What a step may do to a count: end it, begin it, leave it alone, or add the counter of
\* the next peer.
Same(c) ==
    /\ call[c].pc # "idle" /\ call'[c].op = call[c].op /\ call'[c].key = call[c].key
    /\ call'[c].from = call[c].from
Counting(c) ==
    \/ call'[c].pc = "idle" \/ call'[c].op # "Count"
    \/ /\ call[c].pc = "idle" /\ call'[c].lists = <<>> /\ call'[c].total = 0
       /\ call'[c].from = Total(call'[c].key) /\ count' = count
    \/ Same(c) /\ call'[c].lists = call[c].lists /\ call'[c].total = call[c].total
    \/ /\ Same(c) /\ count' = count
       /\ Len(call'[c].lists) = Len(call[c].lists) + 1 /\ Len(call[c].lists) + 1 = call[c].peer
       /\ call'[c].total = call[c].total + count[To(c)][call[c].key]

\* A step that does no more keeps what is known of the count.
LEMMA TalliedStep ==
    ASSUME StoreOK, StoreOK', CallsOK, CallsOK', NEW c \in Clients, Observe, Counting(c),
           call[c].pc # "idle" /\ call[c].op = "Count" /\ c \notin cut => Tallied(call[c]),
           call'[c].pc # "idle", call'[c].op = "Count", c \notin cut'
    PROVE  Tallied(call[c])'
<1> DEFINE r == call[c]
           q == call'[c]
           k == q.key
           m == Len(Peers)
           v == Counts(k)
           w == [i \in DOMAIN Peers |-> count'[Peers[i].host][k]]
           a == SumUpTo(v)
           b == SumUpTo(w)
<1>1. m \in Nat /\ DOMAIN Peers = 1..m /\ \A i \in 1..m : Peers[i].host \in Hosts
  BY PeersFacts
<1>2. k \in Keys /\ Len(q.lists) \in 0..m /\ CallOK(r, calls)
  <2>1. CallOK(q, calls')
    BY DEF CallsOK
  <2>2. k \in Keys /\ q.lists \in Seq(Seq(Nat)) /\ Len(q.lists) <= m
    BY <2>1 DEF CallOK
  <2>3. Len(q.lists) \in Nat
    BY <2>2, LenProperties
  <2>4. CallOK(r, calls)
    BY DEF CallsOK
  <2> QED
    BY <1>1, <2>2, <2>3, <2>4
<1>3. v \in [1..m -> Nat] /\ \A i \in 1..m : v[i] = count[Peers[i].host][k]
  BY <1>2, CountsFacts
<1>4. w \in [1..m -> Nat] /\ \A i \in 1..m : w[i] = count'[Peers[i].host][k]
  <2>1. \A h \in Hosts : count'[h][k] \in Nat
    <3> HIDE DEF k
    <3> QED
      BY <1>2 DEF StoreOK
  <2> QED
    BY <1>1, <2>1
<1>5. Tallied(r)' <=> /\ q.from \in Nat /\ q.total \in Nat
                      /\ q.total <= b[Len(q.lists)] /\ q.from + b[Len(q.lists)] <= q.total + b[m]
  BY Zenon DEF Tallied, Counts
<1> HIDE DEF k, v, w, m
<1>6. /\ a[0] = 0 /\ b[0] = 0
      /\ \A i \in 1..m : a[i] = a[i - 1] + v[i]
      /\ \A i \in 0..m : a[i] \in Nat /\ b[i] \in Nat
  BY <1>1, <1>3, <1>4, SumFacts
<1>7. count' = count => w = v
  BY DEF v, w, Counts
<1> HIDE DEF a, b
<1>8. CASE /\ r.pc = "idle" /\ q.lists = <<>> /\ q.total = 0 /\ q.from = Total(k) /\ count' = count
  <2>1. Len(q.lists) = 0 /\ q.from = a[m] /\ a = b
    BY <1>7, <1>8 DEF Total, a, b, v, m
  <2>2. m \in 0..m
    BY <1>1
  <2> HIDE DEF q
  <2>3. /\ q.from \in Nat /\ q.total \in Nat
        /\ q.total <= b[0] /\ q.from + b[0] <= q.total + b[m]
    BY <1>6, <1>8, <2>1, <2>2
  <2> QED
    BY <1>5, <2>1, <2>3 DEF q
<1>9. CASE Same(c)
  <2>1. r.pc # "idle" /\ r.op = "Count" /\ r.key = k /\ q.from = r.from
    BY <1>9 DEF Same, k
  <2>2. c \notin cut /\ \A h \in Hosts : count[h][k] <= count'[h][k]
    <3>1. c \notin cut /\ \A h \in Hosts : ~(count'[h][k] < count[h][k])
      BY <2>1, Zenon DEF Observe, During, At
    <3>2. \A h \in Hosts : count[h][k] \in Nat /\ count'[h][k] \in Nat
      BY <1>2 DEF StoreOK
    <3> QED
      BY <3>1, <3>2
  <2> DEFINE i == Len(r.lists)
  <2>3. /\ r.from \in Nat /\ r.total \in Nat
        /\ r.total <= a[i] /\ r.from + a[i] <= r.total + a[m]
    BY <2>1, <2>2, Zenon DEF Tallied, a, v, m
  <2>4. i \in 0..m
    <3>1. r.lists \in Seq(Seq(Nat)) /\ i <= m
      BY <1>2 DEF CallOK, m
    <3>2. i \in Nat
      BY <3>1, LenProperties
    <3> QED
      BY <1>1, <3>1, <3>2
  <2>5. m \in 0..m
    BY <1>1
  <2> HIDE DEF i, r, q
  <2>6. CASE q.lists = r.lists /\ q.total = r.total
    <3>1. \A x \in 1..m : v[x] <= w[x]
      BY <1>1, <1>3, <1>4, <2>2
    <3>2. a[i] <= b[i] /\ b[i] + a[m] <= a[i] + b[m]
      BY <1>1, <1>3, <1>4, <2>4, <3>1, SumsGrow DEF a, b
    <3>3. a[i] \in Nat /\ b[i] \in Nat /\ a[m] \in Nat /\ b[m] \in Nat
      BY <1>6, <2>4, <2>5
    <3>4. /\ q.from \in Nat /\ q.total \in Nat
          /\ q.total <= b[i] /\ q.from + b[i] <= q.total + b[m]
      BY <2>1, <2>3, <2>6, <3>2, <3>3
    <3> QED
      BY <1>5, <2>6, <3>4, Zenon DEF i, q, r
  <2>7. CASE /\ count' = count /\ Len(q.lists) = i + 1 /\ i + 1 = r.peer
             /\ q.total = r.total + count[To(c)][r.key]
    <3>1. i + 1 \in 1..m /\ i + 1 \in 0..m /\ (i + 1) - 1 = i
      BY <1>1, <1>2, <2>4, <2>7
    <3>2. count[To(c)][r.key] = v[i + 1]
      BY <1>3, <2>1, <2>7, <3>1, Zenon DEF To, r
    <3>3. a[i + 1] = a[i] + v[i + 1] /\ v[i + 1] \in Nat /\ b = a
      BY <1>3, <1>6, <1>7, <2>7, <3>1 DEF a, b
    <3>4. a[i] \in Nat /\ a[m] \in Nat
      BY <1>6, <2>4, <2>5
    <3>5. /\ q.from \in Nat /\ q.total \in Nat
          /\ q.total <= b[i + 1] /\ q.from + b[i + 1] <= q.total + b[m]
      BY <2>1, <2>3, <2>7, <3>2, <3>3, <3>4
    <3>6. Len(q.lists) = i + 1
      BY <2>7
    <3>7. /\ q.total <= b[Len(q.lists)]
          /\ q.from + b[Len(q.lists)] <= q.total + b[m]
      BY <3>5, <3>6, Zenon
    <3> QED
      BY <1>5, <3>5, <3>7, Zenon DEF q, r
  <2> QED
    BY <1>8, <1>9, <2>1, <2>6, <2>7, Zenon DEF Counting, i, q, r
<1> QED
  BY <1>8, <1>9, Zenon DEF Counting, k

\* A call that a step leaves alone.
LEMMA CountKept ==
    ASSUME NEW c \in Clients, call'[c] = call[c] PROVE Counting(c)
  BY DEF Counting, Same

\* Every step does no more than that to a count.
LEMMA CountingStep ==
    ASSUME StoreOK, WalksOK, CallsOK, Step, NEW d \in Clients
    PROVE  Counting(d)
<1> USE DEF store, bounds, At
<1>1. /\ call = [c \in Clients |-> call[c]] /\ CallOK(call[d], calls)
      /\ call[d] = [f \in CallFields |-> call[d][f]]
  BY DEF CallsOK, CallOK
<1>2. ASSUME NEW c \in Clients, Respond(c) PROVE Counting(d)
  <2>1. call'[d] = IF c = d THEN NoCall ELSE call[d]
    BY <1>1, <1>2 DEF Respond
  <2> QED
    BY <2>1, CountKept, NoCallFacts DEF Counting
<1>3. ASSUME NEW c \in Clients, Handle(c) PROVE Counting(d)
  <2>1. PICK op \in Ops, k \in Keys : Begin(c, op, k)
    BY <1>3 DEF Handle
  <2> DEFINE from == IF op = "Count" THEN Total(k) ELSE 0
             q == [NoCall EXCEPT !.pc = "next", !.n = calls + 1, !.op = op, !.key = k, !.from = from]
  <2>2. q.op = op /\ q.key = k /\ q.from = from /\ q.lists = <<>> /\ q.total = 0
    <3> HIDE DEF from
    <3> QED
      BY DEF NoCall
  <2>3. /\ call' = [call EXCEPT ![c] = q] /\ call[c].pc = "idle" /\ count' = count
    BY <2>1 DEF Begin
  <2> HIDE DEF q
  <2>4. CASE c = d
    <3>1. call'[d] = q
      BY <1>1, <2>3, <2>4
    <3> QED
      BY <2>2, <2>3, <2>4, <3>1 DEF Counting
  <2>5. CASE c # d
    BY <1>1, <2>3, <2>5, CountKept
  <2> QED
    BY <2>4, <2>5
<1>4. ASSUME NEW c \in Clients, Refuse(c) PROVE Counting(d)
  <2>1. CASE c = d
    BY <1>4, <2>1, RefuseCall DEF Counting, StoreOK
  <2>2. CASE c # d
    BY <1>1, <1>4, <2>2, CountKept DEF Refuse
  <2> QED
    BY <2>1, <2>2
<1>5. ASSUME NEW c \in Clients, Invoke(c) \/ (Fails(c) /\ call[c].pc # "idle") \/ Receive(c)
      PROVE  Counting(d)
  <2>1. CASE c = d
    <3> DEFINE r == call[d]
               q == [r EXCEPT !.pc = "wait"]
               x == [r EXCEPT !.pc = "done", !.err = TRUE]
               y == [r EXCEPT !.pc = "next", !.peer = r.peer + 1]
               z == [r EXCEPT !.pc = "done"]
               Like(s) == /\ s.op = r.op /\ s.key = r.key /\ s.from = r.from
                          /\ s.lists = r.lists /\ s.total = r.total
    <3>1. r.pc # "idle"
      BY <1>5, <2>1 DEF Invoke, Receive
    <3>2. Like(q) /\ Like(x) /\ Like(y) /\ Like(z)
      <4> HIDE DEF r
      <4> QED
        BY <1>1 DEF CallFields, r
    <3>3. call'[d] = q \/ call'[d] = x \/ call'[d] = y \/ call'[d] = z
      <4>1. CASE Invoke(c)
        BY <1>1, <2>1, <4>1 DEF Invoke
      <4>2. CASE Fails(c)
        BY <1>1, <2>1, <4>2 DEF Fails
      <4>3. CASE Receive(c)
        <5>1. call' = [call EXCEPT ![d] = IF r.peer < Len(Peers) THEN y ELSE z]
          BY <2>1, <4>3 DEF Receive
        <5> HIDE DEF r, y, z
        <5> QED
          BY <1>1, <5>1
      <4> QED
        BY <1>5, <4>1, <4>2, <4>3
    <3> HIDE DEF q, x, y, z
    <3> QED
      BY <3>1, <3>2, <3>3 DEF Counting, Same
  <2>2. CASE c # d
    <3>1. call'[d] = call[d]
      BY <1>1, <1>5, <2>2 DEF Invoke, Fails, Receive
    <3> QED
      BY <3>1, CountKept
  <2> QED
    BY <2>1, <2>2
<1>6. ASSUME NEW m, NEW list \in Seq(Nat), NEW n, Reply(m, list, n),
             m.op = "Count" => count' = count /\ n = count[m.to][m.key]
      PROVE  Counting(d)
  <2> DEFINE r == call[d]
             q == [r EXCEPT !.pc = "reply", !.lists = Append(r.lists, list), !.total = r.total + n]
  <2>3. CASE call'[d] = q /\ r.pc = "wait" /\ Request(d) = m
    <3>1. /\ q.op = r.op /\ q.key = r.key /\ q.from = r.from
          /\ q.lists = Append(r.lists, list) /\ q.total = r.total + n
      <4> HIDE DEF r
      <4> QED
        BY <1>1 DEF CallFields, r
    <3>2. m.op = r.op /\ m.key = r.key /\ m.to = To(d)
      BY <2>3 DEF Request
    <3>3. Len(Append(r.lists, list)) = Len(r.lists) + 1 /\ Len(r.lists) + 1 = r.peer
      <4> DEFINE S == Seq(Nat)
                 l == r.lists
      <4>1. l \in Seq(S) /\ list \in S /\ Len(l) = r.peer - 1 /\ r.peer \in Nat
        BY <1>1, <2>3, PeersFacts DEF CallOK
      <4> HIDE DEF S, l, r
      <4>2. Append(l, list) \in Seq(S) /\ Len(Append(l, list)) = Len(l) + 1 /\ Len(l) + 1 = r.peer
        BY <4>1
      <4> QED
        BY <4>2 DEF l
    <3> HIDE DEF q
    <3>4. CASE m.op = "Count"
      <4>1. n = count[To(d)][r.key] /\ count' = count
        BY <1>6, <3>2, <3>4
      <4> QED
        BY <2>3, <3>1, <3>3, <4>1 DEF Counting, Same
    <3>5. CASE m.op # "Count"
      BY <2>3, <3>1, <3>2, <3>5 DEF Counting
    <3> QED
      BY <3>4, <3>5
  <2>4. CASE call'[d] = r
    BY <2>4, CountKept
  <2> QED
    BY <1>6, <2>3, <2>4 DEF Reply
<1>7. ASSUME NEW h \in Hosts, Stop(h) PROVE Counting(d)
  <2> DEFINE r == call[d]
             q == [r EXCEPT !.pc = "broken"]
  <2>1. CASE call'[d] = NoCall
    BY <2>1, NoCallFacts DEF Counting
  <2>2. CASE call'[d] = r
    BY <2>2, CountKept
  <2>3. CASE call'[d] = q /\ r.pc = "wait"
    <3>1. q.op = r.op /\ q.key = r.key /\ q.from = r.from /\ q.lists = r.lists /\ q.total = r.total
      <4> HIDE DEF r
      <4> QED
        BY <1>1 DEF CallFields, r
    <3> HIDE DEF q
    <3> QED
      BY <2>3, <3>1 DEF Counting, Same
  <2> QED
    BY <1>7, <2>1, <2>2, <2>3 DEF Stop
<1>8. ASSUME call' = call PROVE Counting(d)
  BY <1>8, CountKept
<1>9. ASSUME NEW c \in Clients, InvokeFails(c) \/ Deadline(c) \/ Disconnected(c)
      PROVE  Counting(d)
  BY <1>5, <1>9 DEF InvokeFails, Deadline, Disconnected
<1>10. ASSUME NEW m \in sent, Fetch(m) \/ FetchCount(m) \/ RemoveMatches(m) PROVE Counting(d)
  <2>1. <<>> \in Seq(Nat)
    OBVIOUS
  <2> QED
    BY <1>6, <1>8, <1>10, <2>1 DEF Fetch, FetchCount, RemoveMatches
<1>11. ASSUME NEW w \in walks, FetchNext(w) \/ FetchEnds(w) PROVE Counting(d)
  <2>1. w.got \in Seq(Nat) /\ w.req.op = "Get"
    BY DEF WalksOK, WalkOK, WalkOf
  <2> QED
    BY <1>6, <1>8, <1>11, <2>1 DEF FetchNext, FetchEnds
<1>12. ASSUME SetResponse \/ \E h \in Hosts : Restart(h) \/ \E k \in Keys : Add(h, k) PROVE Counting(d)
  BY <1>8, <1>12 DEF Restart, SetResponse, Add
<1>13. \A w \in walks : w.req.to \in Hosts
  BY DEF WalksOK, WalkOK
<1> QED
  BY <1>2, <1>3, <1>4, <1>5, <1>7, <1>9, <1>10, <1>11, <1>12, <1>13 DEF Step, FetchPanics, Crash

\* What is known of the counts is kept.
LEMMA CountInductive == Spec => []CountInv
<1>1. Init => CountInv
  BY NoCallFacts DEF Init, StoreInit, CountInv
<1>2. IInv /\ CountInv /\ [Next]_allVars => CountInv'
  <2> SUFFICES ASSUME IInv, CountInv, [Next]_allVars PROVE CountInv'
    OBVIOUS
  <2>1. CASE Next
    <3>1. StoreOK /\ WalksOK /\ CallsOK /\ Step /\ Observe /\ StoreOK' /\ CallsOK'
      BY <2>1, NextIInv DEF Next, IInv
    <3>2. ASSUME NEW c \in Clients, call'[c].pc # "idle", call'[c].op = "Count", c \notin cut'
          PROVE  Tallied(call[c])'
      <4>1. Counting(c)
        BY <3>1, CountingStep
      <4>2. call[c].pc # "idle" /\ call[c].op = "Count" /\ c \notin cut => Tallied(call[c])
        BY Zenon DEF CountInv
      <4> QED
        BY <3>1, <3>2, <4>1, <4>2, TalliedStep
    <3> QED
      BY <3>2, Zenon DEF CountInv
  <2>2. CASE UNCHANGED allVars
    BY <2>2 DEF allVars, vars, store, bounds, CountInv, Tallied, Counts
  <2> QED
    BY <2>1, <2>2
<1> QED
  BY <1>1, <1>2, Inductive, PTL DEF Spec

-----------------------------------------------------------------------------
(* Without a fault. *)

\* Every hostname is given without a port, or with that of the match store.
AddressesServe == \A i \in 1..Len(ClusterHostnames) : ClusterHostnames[i].port \in {0, MatchstorePort}

\* Without a fault all hosts are up and no call has failed; a request that ended
\* without a call was refused.
Unharmed(c) ==
    /\ ~faulty => call[c].pc # "broken" /\ call[c].err = FALSE
    /\ call[c].pc = "done" /\ call[c].op \notin Ops => refused[c] # Pass
FInv ==
    /\ ~faulty => up = Hosts /\ crashes = 0
    /\ refused = [c \in Clients |-> refused[c]]
    /\ \A c \in Clients : Unharmed(c)

\* What a step may do to a call for Unharmed to go on.
Kept(c) == call'[c] = call[c] /\ refused'[c] = refused[c] /\ (faulty => faulty')
Works(c) == call'[c].pc \in {"idle", "next", "wait", "reply"}
Harmed(c) ==
    /\ call'[c].pc = "broken" \/ call'[c].err = TRUE => faulty'
    /\ call'[c].pc = "done" => call'[c].op \in Ops \/ refused'[c] # Pass

\* A call that is left alone, goes on, or fails with a fault stays unharmed until then.
LEMMA UnharmedStep ==
    ASSUME NEW c \in Clients, CallOK(call'[c], calls'), Unharmed(c),
           Kept(c) \/ Works(c) \/ Harmed(c)
    PROVE  Unharmed(c)'
<1>1. CASE Kept(c)
  BY <1>1 DEF Kept, Unharmed
<1>2. CASE Works(c)
  <2>1. call'[c].err = FALSE /\ call'[c].pc \notin {"broken", "done"}
    BY <1>2, NoCallFacts DEF Works, CallOK
  <2> QED
    BY <2>1 DEF Unharmed
<1>3. CASE Harmed(c)
  <2>1. call'[c].err \in BOOLEAN
    BY DEF CallOK
  <2> QED
    BY <1>3, <2>1 DEF Harmed, Unharmed
<1> QED
  BY <1>1, <1>2, <1>3

\* With such addresses a call without a fault never meets a peer that does not serve.
LEMMA PeersServe ==
    ASSUME AddressesServe, up = Hosts, NEW i \in DOMAIN Peers
    PROVE  Serves(Peers[i])
<1>1. i \in 1..Len(ClusterHostnames) /\ Peers[i].host \in Hosts
  BY PeersFacts
<1>2. Peers[i].port = MatchstorePort
  <2>1. ClusterHostnames[i].port \in {0, MatchstorePort}
    BY <1>1 DEF AddressesServe
  <2>2. Peers[i].port = IF ClusterHostnames[i].port # 0 THEN ClusterHostnames[i].port ELSE MatchstorePort
    BY PeersFacts
  <2> QED
    BY <2>1, <2>2
<1> QED
  BY <1>1, <1>2 DEF Serves, ServiceAt

\* Every step preserves what is known of the calls no fault has met.
LEMMA FaultStep ==
    ASSUME AddressesServe, IInv, FInv, Step, CallsOK'
    PROVE  FInv'
<1> USE DEF store, bounds, At
<1> DEFINE Fine == /\ faulty => faulty'
                   /\ ~faulty' => up' = up /\ crashes' = crashes
                   /\ refused' = [d \in Clients |-> refused'[d]]
                   /\ \A d \in Clients : Kept(d) \/ Works(d) \/ Harmed(d)
<1>0. call = [d \in Clients |-> call[d]] /\ refused = [d \in Clients |-> refused[d]] /\ up \subseteq Hosts
  BY DEF IInv, CallsOK, FInv, StoreOK
<1>1. ASSUME NEW c \in Clients, Respond(c) PROVE Fine
  BY <1>0, <1>1, NoCallFacts DEF Respond, Kept, Works
<1>2. ASSUME NEW c \in Clients, Handle(c) PROVE Fine
  <2>1. PICK op \in Ops, k \in Keys : Begin(c, op, k) /\ UNCHANGED refused
    BY <1>2 DEF Handle
  <2>2. call'[c].pc = "next" /\ \A d \in Clients \ {c} : call'[d] = call[d]
    BY <1>0, <2>1 DEF Begin, NoCall
  <2> QED
    BY <1>0, <2>1, <2>2 DEF Begin, Kept, Works
<1>3. ASSUME NEW c \in Clients, Refuse(c) PROVE Fine
  <2>1. call'[c].err = FALSE /\ call'[c].pc = "done"
    <3>1. call[c] = NoCall /\ call'[c] = [call[c] EXCEPT !.pc = "done"]
      BY <1>0, <1>3 DEF Refuse, IInv, CallsOK, CallOK
    <3> QED
      BY <3>1 DEF NoCall
  <2>2. refused'[c] # Pass
    <3>1. PICK s \in Refusals : refused' = [refused EXCEPT ![c] = s]
      BY <1>3 DEF Refuse
    <3>2. s # Pass
      BY <3>1, Zenon DEF Refusals
    <3> QED
      BY <1>0, <3>1, <3>2
  <2> QED
    BY <1>0, <1>3, <2>1, <2>2 DEF Refuse, Kept, Harmed
<1>4. ASSUME NEW c \in Clients, Invoke(c), UNCHANGED refused PROVE Fine
  <2>1. call'[c].pc = "wait" /\ \A d \in Clients \ {c} : call'[d] = call[d]
    <3>1. call[c] = [f \in CallFields |-> call[c][f]]
      BY DEF IInv, CallsOK, CallOK
    <3> QED
      BY <1>0, <1>4, <3>1 DEF Invoke, CallFields
  <2> QED
    BY <1>0, <1>4, <2>1 DEF Invoke, Kept, Works
<1>5. ASSUME NEW c \in Clients, InvokeFails(c) \/ Deadline(c) \/ Disconnected(c), UNCHANGED refused
      PROVE  Fine
  <2>1. /\ At(c, {"next", "wait", "reply", "broken"}) /\ Fails(c)
        /\ UNCHANGED <<up, crashes>> /\ (faulty => faulty')
    BY <1>5 DEF InvokeFails, Deadline, Disconnected
  <2>2. faulty'
    <3> SUFFICES ASSUME ~faulty' PROVE FALSE
      OBVIOUS
    <3>1. ~faulty /\ up = Hosts /\ crashes = 0 /\ call[c].pc # "broken" /\ InvokeFails(c)
      BY <1>5, <2>1 DEF FInv, Unharmed, Deadline, Disconnected
    <3>2. call[c].peer \in DOMAIN Peers
      BY PeersFacts DEF IInv, CallsOK, CallOK
    <3> QED
      BY <3>1, <3>2, PeersServe DEF InvokeFails
  <2>3. call'[c].op \in Ops /\ \A d \in Clients \ {c} : call'[d] = call[d]
    <3>1. call[c] = [f \in CallFields |-> call[c][f]] /\ call[c].op \in Ops
      BY <2>1 DEF IInv, CallsOK, CallOK
    <3> QED
      BY <1>0, <2>1, <3>1 DEF Fails, CallFields
  <2> QED
    BY <1>0, <1>5, <2>1, <2>2, <2>3 DEF Kept, Harmed
<1>6. ASSUME NEW c \in Clients, Receive(c), UNCHANGED refused PROVE Fine
  <2>1. /\ call' = [call EXCEPT ![c] = call'[c]] /\ call'[c].pc \in {"next", "done"}
        /\ call'[c].err = call[c].err /\ call'[c].op = call[c].op
    BY <1>6, ReceiveCall DEF IInv, StoreOK
  <2>2. call[c].op \in Ops /\ call[c].err = FALSE
    BY <1>6 DEF Receive, IInv, CallsOK, CallOK
  <2> QED
    BY <1>0, <1>6, <2>1, <2>2 DEF Receive, Kept, Works, Harmed
<1>7. ASSUME \/ \E m \in sent : Fetch(m) \/ FetchCount(m) \/ RemoveMatches(m)
             \/ \E w \in walks : FetchNext(w) \/ FetchEnds(w),
             UNCHANGED refused
      PROVE  Fine
  <2>1. /\ call' = call \/ \E m, list, n : Reply(m, list, n)
        /\ UNCHANGED <<up, crashes, faulty>>
    BY <1>7 DEF Fetch, FetchCount, RemoveMatches, FetchNext, FetchEnds
  <2>2. ASSUME NEW d \in Clients PROVE call'[d] = call[d] \/ call'[d].pc = "reply"
    <3>1. call[d] = [f \in CallFields |-> call[d][f]]
      BY DEF IInv, CallsOK, CallOK
    <3> QED
      BY <2>1, <3>1 DEF Reply, CallFields
  <2> QED
    BY <1>0, <1>7, <2>1, <2>2 DEF Kept, Works
<1>8. ASSUME NEW h \in Hosts, Stop(h), UNCHANGED refused PROVE Fine
  <2>1. ASSUME NEW d \in Clients PROVE call'[d] = call[d] \/ call'[d].pc \in {"idle", "broken"}
    <3>1. call[d] = [f \in CallFields |-> call[d][f]]
      BY DEF IInv, CallsOK, CallOK
    <3> QED
      BY <1>8, <3>1, NoCallFacts DEF Stop, CallFields
  <2> QED
    BY <1>0, <1>8, <2>1 DEF Stop, Kept, Works, Harmed
<1>9. ASSUME SetResponse \/ (\E h \in Hosts, k \in Keys : Add(h, k)), UNCHANGED refused
      PROVE  Fine
  BY <1>0, <1>9 DEF SetResponse, Add, Kept
<1>10. ASSUME NEW h \in Hosts, Restart(h), UNCHANGED refused PROVE FInv'
  <2>1. faulty /\ faulty'
    BY <1>10 DEF Restart, FInv
  <2> QED
    BY <1>0, <1>10, <2>1 DEF Restart, FInv, Unharmed
<1>11. Fine => FInv'
  <2> SUFFICES ASSUME Fine PROVE FInv'
    OBVIOUS
  <2>1. ASSUME NEW d \in Clients PROVE Unharmed(d)'
    BY UnharmedStep DEF FInv, CallsOK
  <2> QED
    BY <2>1 DEF FInv
<1>12. \A w \in walks : w.req.to \in Hosts
  BY DEF IInv, WalksOK, WalkOK
<1> HIDE DEF Fine
<1> QED
  BY <1>1, <1>2, <1>3, <1>4, <1>5, <1>6, <1>7, <1>8, <1>9, <1>10, <1>11, <1>12
     DEF Step, FetchPanics, Crash

-----------------------------------------------------------------------------
(* Theorems. *)

\* The stores keep their bounds and a call has one list of every peer that has
\* answered.
THEOREM TypeCorrect == Spec => []TypeOK
<1>1. IInv => TypeOK
  <2> SUFFICES ASSUME IInv PROVE TypeOK
    OBVIOUS
  <2>1. ASSUME NEW c \in Clients
        PROVE  /\ call[c].peer \in DOMAIN Peers /\ call[c].key \in Keys
               /\ At(c, {"next", "wait"}) => Len(call[c].lists) = call[c].peer - 1
               /\ At(c, {"reply"}) => Len(call[c].lists) = call[c].peer
    BY PeersFacts DEF IInv, CallsOK, CallOK, At
  <2>2. /\ \A w \in walks : w.req.to \in Hosts /\ w.req.n \in 1..calls
        /\ \A w \in walks : w.got # <<>> /\ ToSet(w.got) \subseteq 1..recorded
    BY DEF IInv, WalksOK, WalkOK, WalkOf
  <2>3. \A m \in sent \cup {w.req : w \in walks} : m.to \in Hosts /\ m.n \in 1..calls
    BY <2>2 DEF IInv, StoreOK
  <2> QED
    BY <2>1, <2>2, <2>3 DEF IInv, StoreOK, TypeOK
<1> QED
  BY <1>1, Inductive, PTL

\* What a call that has succeeded holds.
LEMMA SucceededFacts ==
    ASSUME IInv, NEW op \in Ops, NEW c \in Succeeded(op)
    PROVE  /\ c \in Clients /\ call[c].op = op /\ call[c].pc = "done" /\ call[c].err = FALSE
           /\ call[c].key \in Keys /\ Len(call[c].lists) = Len(Peers)
<1>1. c \in Clients /\ call[c].op = op /\ call[c].pc = "done" /\ Answer(c).status = "OK"
  BY DEF Succeeded, At
<1>2. Answer(c).status = status(call[c])
  BY <1>1 DEF Ops, Answer, handleGetMatches, handleGetMismatches, handleDeleteMatches,
              handleDeleteMismatches, handleGetMatchesCount, handleGetMismatchesCount
<1>3. CallOK(call[c], calls)
  BY <1>1 DEF IInv, CallsOK
<1>4. call[c].err = FALSE
  BY <1>1, <1>2, <1>3 DEF status, CallOK
<1> QED
  BY <1>1, <1>3, <1>4 DEF CallOK, Ops

\* A delete that succeeded has emptied the store of every host of everything that
\* was stored when it began, whatever is recorded and whoever stops meanwhile.
THEOREM DeleteReachesAll == Spec => []DeletedEverywhere
<1>1. IInv => DeletedEverywhere
  <2> SUFFICES ASSUME IInv, NEW c \in Succeeded("Delete"), NEW x \in stay[c] PROVE FALSE
    BY DEF DeletedEverywhere
  <2>1. /\ c \in Clients /\ call[c].op = "Delete" /\ call[c].pc = "done"
        /\ call[c].key \in Keys /\ Len(call[c].lists) = Len(Peers)
    BY SucceededFacts DEF Ops
  <2>2. /\ stay[c] \subseteq Stored(call[c].key)
        /\ \A i \in 1..Len(Peers) :
              /\ Answered(stay[c], call[c].lists[i], matches[Peers[i].host][call[c].key])
              /\ call[c].lists[i] = <<>>
    BY <2>1 DEF IInv, Gathered
  <2>3. PICK i \in 1..Len(Peers) : x \in ToSet(matches[Peers[i].host][call[c].key])
    BY <2>1, <2>2, StoredFacts DEF IInv
  <2>4. ToSet(call[c].lists[i]) = {}
    BY <2>2 DEF ToSet
  <2> QED
    BY <2>2, <2>3, <2>4 DEF Answered
<1> QED
  BY <1>1, Inductive, PTL

\* A count that succeeded lies between what the peers had counted when it began and
\* what they have counted now, if no counter was reduced meanwhile, although the peers
\* are asked one after the other while all of them go on counting.
THEOREM CountsBetween == Spec => []CountBetween
<1>1. IInv /\ CountInv => CountBetween
  <2> SUFFICES ASSUME IInv, CountInv, NEW c \in Succeeded("Count") \ cut
               PROVE  Answer(c).count \in call[c].from..Total(call[c].key)
    BY DEF CountBetween
  <2> DEFINE r == call[c]
             v == Counts(r.key)
             m == Len(Peers)
  <2>1. c \in Clients /\ r.op = "Count" /\ r.pc = "done" /\ r.key \in Keys /\ Len(r.lists) = m
    BY SucceededFacts DEF Ops
  <2>2. Answer(c).count = r.total
    BY <2>1 DEF Answer, handleGetMatchesCount, handleGetMismatchesCount
  <2>3. Tallied(r)
    BY <2>1 DEF CountInv
  <2>4. SumUpTo(v)[m] \in Nat
    <3>1. v \in [1..m -> Nat] /\ m \in Nat /\ m \in 0..m
      BY <2>1, CountsFacts, PeersFacts DEF IInv
    <3> HIDE DEF v, m
    <3> QED
      BY <3>1, SumFacts
  <2>5. /\ r.from \in Nat /\ r.total \in Nat
        /\ r.total <= SumUpTo(v)[m] /\ r.from + SumUpTo(v)[m] <= r.total + SumUpTo(v)[m]
    <3>1. /\ r.from \in Nat /\ r.total \in Nat
          /\ r.total <= SumUpTo(v)[Len(r.lists)]
          /\ r.from + SumUpTo(v)[Len(r.lists)] <= r.total + SumUpTo(v)[m]
      BY <2>3, Zenon DEF Tallied
    <3> HIDE DEF r, v, m
    <3> QED
      BY <2>1, <3>1
  <2>6. Total(r.key) = SumUpTo(v)[m]
    BY Zenon DEF Total
  <2> HIDE DEF r, v, m
  <2>7. r.total \in r.from..Total(r.key)
    BY <2>4, <2>5, <2>6
  <2> QED
    BY <2>2, <2>7 DEF r
<1> QED
  BY <1>1, Inductive, CountInductive, PTL

\* The list of a call that has succeeded is made of the lists of all peers.
LEMMA AnswerFacts ==
    ASSUME IInv, NEW c \in Succeeded("Get")
    PROVE  /\ call[c].lists \in Seq(Seq(Nat)) /\ Len(call[c].lists) # 0
           /\ Answer(c).list = IF call[c].key = MismatchesKey THEN GetMismatches(call[c].lists)
                                                              ELSE GetMatches(call[c].lists)
           /\ Merges(Answer(c).list, call[c].lists)
           /\ AllDistinct(call[c].lists) => Distinct(Answer(c).list)
<1> DEFINE lists == call[c].lists
           list == Answer(c).list
<1>1. /\ c \in Clients /\ call[c].op = "Get" /\ call[c].err = FALSE /\ Len(lists) = Len(Peers)
  BY SucceededFacts DEF Ops
<1>2. lists \in Seq(Seq(Nat)) /\ Len(lists) # 0
  BY <1>1, PeersFacts DEF IInv, CallsOK, CallOK
<1>3. list = IF call[c].key = MismatchesKey THEN GetMismatches(lists) ELSE GetMatches(lists)
  BY <1>1 DEF Answer, handleGetMatches, handleGetMismatches
<1> HIDE DEF lists, list
<1>4. Merges(list, lists) /\ (AllDistinct(lists) => Distinct(list))
  <2>1. CASE call[c].key = MismatchesKey
    BY <1>2, <1>3, <2>1, GetMismatchesFacts
  <2>2. CASE call[c].key # MismatchesKey
    BY <1>2, <1>3, <2>2, GetMatchesFacts
  <2> QED
    BY <2>1, <2>2
<1> QED
  BY <1>2, <1>3, <1>4 DEF lists, list

\* The part of NothingMissed about a listing's completeness: it lists nothing that no
\* host stored during the call, and of every host all that it stored during the whole
\* call unless its walk was cut off.
ListedAll ==
    \A c \in Succeeded("Get") :
        /\ ToSet(Answer(c).list) \subseteq seen[c]
        /\ \A i \in DOMAIN Peers : Throughout(c, i) \subseteq ToSet(Answer(c).list) \/ CutOff(c, i)

\* The invariant implies that a listing lists all it must.
LEMMA IInvListed == IInv => ListedAll
<1> SUFFICES ASSUME IInv, NEW c \in Succeeded("Get")
             PROVE  /\ ToSet(Answer(c).list) \subseteq seen[c]
                    /\ \A i \in DOMAIN Peers : Throughout(c, i) \subseteq ToSet(Answer(c).list) \/ CutOff(c, i)
  BY DEF ListedAll
<1> DEFINE lists == call[c].lists
           list == Answer(c).list
<1>1. /\ c \in Clients /\ call[c].op = "Get" /\ call[c].pc = "done"
      /\ call[c].key \in Keys /\ Len(lists) = Len(Peers) /\ DOMAIN Peers = 1..Len(Peers)
  BY SucceededFacts, PeersFacts DEF Ops
<1>2. \A i \in 1..Len(Peers) :
          /\ Answered(stay[c], lists[i], matches[Peers[i].host][call[c].key])
          /\ ToSet(lists[i]) \subseteq seen[c]
  BY <1>1 DEF IInv, Gathered
<1>3. Merges(list, lists)
  BY AnswerFacts
<1>4. \A i \in 1..Len(lists) : ToSet(lists[i]) = {lists[i][j] : j \in 1..Len(lists[i])}
  <2>1. lists \in Seq(Seq(Nat))
    BY AnswerFacts
  <2>2. \A i \in 1..Len(lists) : lists[i] \in Seq(Nat)
    BY <2>1, ListsFacts
  <2>3. \A i \in 1..Len(lists) : DOMAIN lists[i] = 1..Len(lists[i])
    BY <2>2
  <2> QED
    BY <2>3 DEF ToSet
<1> HIDE DEF lists, list
<1>5. ASSUME NEW i \in DOMAIN Peers PROVE Throughout(c, i) \subseteq ToSet(list) \/ CutOff(c, i)
  <2>1. ASSUME NEW x \in ToSet(lists[i]) PROVE x \in ToSet(list)
    <3>1. i \in 1..Len(lists)
      BY <1>1
    <3>2. PICK j \in 1..Len(lists[i]) : x = lists[i][j]
      BY <1>4, <2>1, <3>1
    <3> QED
      BY <1>3, <3>1, <3>2 DEF Merges
  <2>2. Answered(stay[c], lists[i], matches[Peers[i].host][call[c].key])
    BY <1>1, <1>2
  <2> QED
    BY <2>1, <2>2 DEF Answered, Throughout, CutOff, lists
<1>6. ASSUME NEW x \in ToSet(list) PROVE x \in seen[c]
  <2>1. PICK i \in 1..Len(lists) : \E j \in 1..Len(lists[i]) : x = lists[i][j]
    BY <1>3 DEF Merges
  <2>2. x \in ToSet(lists[i])
    BY <1>4, <2>1
  <2> QED
    BY <1>1, <1>2, <2>2
<1> QED
  BY <1>5, <1>6 DEF list

\* For every cluster, also one that names a host twice: a listing lists of every host all
\* that it stored during the whole call, unless the walk of FetchMatches was cut off.
THEOREM GetReachesAll == Spec => []ListedAll
  BY IInvListed, Inductive, PTL

\* Every host is named once.
PeersDiffer == \A i, j \in DOMAIN Peers : Peers[i].host = Peers[j].host => i = j

\* And no request is in it twice if no host is named twice.
LEMMA ApartDistinct ==
    ASSUME PeersDiffer, IInv, Apart, NEW c \in Succeeded("Get")
    PROVE  AllDistinct(call[c].lists) /\ Distinct(Answer(c).list)
<1> DEFINE lists == call[c].lists
<1>1. /\ c \in Clients /\ call[c].op = "Get" /\ call[c].pc = "done" /\ call[c].key \in Keys
      /\ Len(lists) = Len(Peers)
  BY SucceededFacts DEF Ops
<1>2. /\ \A i \in 1..Len(lists) : Distinct(lists[i])
      /\ \A i, j \in 1..Len(lists) : i # j => ToSet(lists[i]) \cap ToSet(lists[j]) = {}
  <2>1. \A i \in 1..Len(lists) : Distinct(lists[i]) /\ ToSet(lists[i]) \subseteq 1..recorded
    <3>1. \A i \in 1..Len(lists) : Distinct(lists[i]) /\ ToSet(lists[i]) \subseteq seen[c]
      BY <1>1 DEF IInv, Gathered
    <3>2. seen[c] \subseteq 1..recorded
      BY <1>1 DEF IInv, Gathered
    <3> QED
      BY <3>1, <3>2
  <2>2. \A i \in 1..Len(lists) : Peers[i].host \in Hosts /\ i \in DOMAIN Peers
    BY <1>1, PeersFacts
  <2>3. ASSUME NEW i \in 1..Len(lists), NEW j \in 1..Len(lists), NEW x \in ToSet(lists[i]), x \in ToSet(lists[j])
        PROVE  i = j
    <3>1. Holds(Peers[i].host, call[c].key, x) /\ Holds(Peers[j].host, call[c].key, x)
      BY <1>1, <2>3 DEF Holds
    <3>2. x \in Nat
      <4>1. x \in 1..recorded /\ recorded \in Nat
        BY <2>1 DEF IInv, StoreOK
      <4> QED
        BY <4>1
    <3>3. Peers[i].host = Peers[j].host
      BY <1>1, <2>2, <3>1, <3>2 DEF Apart
    <3> QED
      BY <2>2, <3>3 DEF PeersDiffer
  <2> QED
    BY <2>1, <2>3
<1>3. \A i \in 1..Len(lists) : \A j \in 1..Len(lists[i]) : lists[i][j] \in ToSet(lists[i])
  <2>1. lists \in Seq(Seq(Nat))
    BY AnswerFacts
  <2>2. \A i \in 1..Len(lists) : lists[i] \in Seq(Nat)
    BY <2>1, ListsFacts
  <2>3. \A i \in 1..Len(lists) : DOMAIN lists[i] = 1..Len(lists[i])
    BY <2>2
  <2> QED
    BY <2>3 DEF ToSet
<1> HIDE DEF lists
<1>4. ASSUME NEW i \in 1..Len(lists), NEW x \in 1..Len(lists), NEW j \in 1..Len(lists[i]),
             NEW y \in 1..Len(lists[x]), lists[i][j] = lists[x][y]
      PROVE  i = x /\ j = y
  <2>1. i = x
    BY <1>2, <1>3, <1>4
  <2> QED
    BY <1>2, <1>4, <2>1 DEF Distinct
<1>5. AllDistinct(lists)
  BY <1>4 DEF AllDistinct
<1> QED
  BY <1>5, AnswerFacts DEF lists

\* A list that succeeded has no request twice, none that was not stored during the call,
\* and of every host all that it stored during the whole call, unless all that the host
\* has listed is gone, although FetchMatches walks the list while it changes.
THEOREM GetListsOnce == ASSUME PeersDiffer PROVE Spec => []NothingMissed
<1>1. IInv /\ Apart => NothingMissed
  <2> SUFFICES ASSUME IInv, Apart, NEW c \in Succeeded("Get")
               PROVE  /\ ToSet(Answer(c).list) \subseteq seen[c]
                      /\ Cardinality(ToSet(Answer(c).list)) = Len(Answer(c).list)
                      /\ \A i \in DOMAIN Peers :
                            Throughout(c, i) \subseteq ToSet(Answer(c).list) \/ CutOff(c, i)
    BY DEF NothingMissed
  <2>1. Answer(c).list \in Seq(Nat) /\ Distinct(Answer(c).list)
    BY AnswerFacts, ApartDistinct DEF Merges
  <2>2. Cardinality(ToSet(Answer(c).list)) = Len(Answer(c).list)
    BY <2>1, DistinctCardinality
  <2> QED
    BY <2>2, IInvListed DEF ListedAll
<1> QED
  BY <1>1, Inductive, ApartInductive, PTL

\* The requests of a host are listed oldest first; the hosts take turns for matches
\* and follow each other for mismatches.
THEOREM GetKeepsOrder == ASSUME PeersDiffer PROVE Spec => []GatheredInOrder
<1>1. IInv /\ Apart => GatheredInOrder
  <2> SUFFICES ASSUME IInv, Apart, NEW c \in Succeeded("Get")
               PROVE  LET list == Answer(c).list
                          lists == call[c].lists
                          pos(i, j) == CHOOSE p \in DOMAIN list : list[p] = lists[i][j]
                          isBefore(i, j, x, y) == IF call[c].key = MismatchesKey THEN i < x \/ (i = x /\ j < y)
                                                                                 ELSE j < y \/ (j = y /\ i < x)
                      IN  \A i, x \in DOMAIN lists : \A j \in DOMAIN lists[i], y \in DOMAIN lists[x] :
                              isBefore(i, j, x, y) => pos(i, j) < pos(x, y)
    BY DEF GatheredInOrder
  <2> DEFINE list == Answer(c).list
             lists == call[c].lists
             pos(i, j) == CHOOSE p \in DOMAIN list : list[p] = lists[i][j]
             isBefore(i, j, x, y) == IF call[c].key = MismatchesKey THEN i < x \/ (i = x /\ j < y)
                                                                    ELSE j < y \/ (j = y /\ i < x)
  <2>1. /\ lists \in Seq(Seq(Nat)) /\ Len(lists) # 0 /\ list \in Seq(Nat) /\ Distinct(list)
        /\ list = IF call[c].key = MismatchesKey THEN GetMismatches(lists) ELSE GetMatches(lists)
    BY AnswerFacts, ApartDistinct DEF Merges
  <2>2. DOMAIN lists = 1..Len(lists) /\ \A i \in 1..Len(lists) : DOMAIN lists[i] = 1..Len(lists[i])
    <3>1. DOMAIN lists = 1..Len(lists) /\ \A i \in 1..Len(lists) : lists[i] \in Seq(Nat)
      BY <2>1, ListsFacts
    <3> QED
      BY <3>1
  <2>3. DOMAIN list = 1..Len(list)
    BY <2>1
  <2> HIDE DEF list, lists
  <2>4. ASSUME NEW i \in 1..Len(lists), NEW x \in 1..Len(lists), NEW j \in 1..Len(lists[i]),
               NEW y \in 1..Len(lists[x]), isBefore(i, j, x, y)
        PROVE  pos(i, j) < pos(x, y)
    <3>1. Before(list, lists[i][j], lists[x][y])
      <4>1. CASE call[c].key = MismatchesKey
        <5>1. InOrder(list, lists)
          BY <2>1, <4>1, FlattenOrder DEF GetMismatches
        <5> QED
          BY <2>4, <4>1, <5>1 DEF InOrder
      <4>2. CASE call[c].key # MismatchesKey
        <5>1. j < y \/ (j = y /\ i < x)
          BY <2>4, <4>2
        <5>2. list = GetMatches(lists)
          BY <2>1, <4>2
        <5> QED
          BY <2>1, <5>1, <5>2, GetMatchesFacts
      <4> QED
        BY <4>1, <4>2
    <3>2. PICK p \in 1..Len(list), q \in 1..Len(list) : p < q /\ list[p] = lists[i][j] /\ list[q] = lists[x][y]
      BY <3>1 DEF Before
    <3>3. \A d \in DOMAIN list : (list[d] = list[p] => d = p) /\ (list[d] = list[q] => d = q)
      BY <2>1, <2>3 DEF Distinct
    <3>4. p \in DOMAIN list /\ q \in DOMAIN list
      BY <2>3, <3>2
    <3>5. pos(i, j) = p /\ pos(x, y) = q
      BY <3>2, <3>3, <3>4
    <3> QED
      BY <3>2, <3>5
  <2> HIDE DEF pos, isBefore
  <2>5. \A i, x \in DOMAIN lists : \A j \in DOMAIN lists[i], y \in DOMAIN lists[x] :
            isBefore(i, j, x, y) => pos(i, j) < pos(x, y)
    BY <2>2, <2>4
  <2> QED
    BY <2>5, Zenon DEF list, lists, pos, isBefore
<1> QED
  BY <1>1, Inductive, ApartInductive, PTL

\* Without a crash and a missed deadline every call with the right headers and
\* credentials is answered with 200, if the hostnames lead to the match stores.
THEOREM CallsSucceed == ASSUME AddressesServe PROVE Spec => []FaultFreeSucceeds
<1>1. Init => FInv
  <2>1. ASSUME Init, NEW c \in Clients PROVE Unharmed(c)
    <3> call[c] = NoCall
      BY <2>1 DEF Init, StoreInit
    <3> QED
      BY NoCallFacts DEF Unharmed
  <2> QED
    BY <2>1 DEF Init, StoreInit, FInv
<1>2. IInv /\ FInv /\ [Next]_allVars /\ IInv' => FInv'
  <2>1. CASE Next
    BY <2>1, FaultStep DEF Next, IInv
  <2>2. CASE UNCHANGED allVars
    BY <2>2 DEF allVars, vars, bounds, FInv, Unharmed
  <2> QED
    BY <2>1, <2>2
<1>3. IInv /\ FInv => FaultFreeSucceeds
  <2> SUFFICES ASSUME IInv, FInv, NEW c \in Clients, At(c, {"done"}), refused[c] = Pass, ~faulty
               PROVE  Answer(c).status = "OK"
    BY DEF FaultFreeSucceeds
  <2>1. call[c].op \in Ops /\ call[c].err = FALSE
    BY DEF FInv, Unharmed, At
  <2>2. Answer(c).status = status(call[c])
    BY <2>1 DEF Answer, Ops, handleGetMatches, handleGetMismatches, handleGetMatchesCount,
                handleGetMismatchesCount, handleDeleteMatches, handleDeleteMismatches
  <2> QED
    BY <2>1, <2>2 DEF status
<1> QED
  BY <1>1, <1>2, <1>3, Inductive, PTL DEF Spec
=============================================================================
