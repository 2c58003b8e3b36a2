----------------------- MODULE KVRequestHandlerProofs -----------------------
(***************************************************************************)
(* For any number of clients, stores, keys and puts, in memory and on      *)
(* redis: what is read or listed is what a register that concurrent puts   *)
(* write in any order may hold.                                            *)
(***************************************************************************)
EXTENDS KVRequestHandler, ListFacts, TLAPS

-----------------------------------------------------------------------------
(* The inductive invariant. *)

Rests == {"idle", "done"}
Holds == {"write", "read", "encode"}      \* labels at which the call uses its map st[c]
MemoryLabels == {"lookup", "create", "reread"} \cup Holds
RedisLabels == {"send", "executed"}
Puts == 0..Len(kind)

Types ==
    /\ pc \in [Clients -> Rests \cup MemoryLabels \cup RedisLabels]
    /\ call \in [Clients -> [op : Writes \cup Reads \cup {"none"}, slot : Slots, n : Nat]]
    /\ kind \in Seq(Kinds) /\ Len(kind) <= MaxPuts
    /\ cand \in [Slots -> SUBSET Puts]
    /\ before \in [Clients -> SUBSET Puts]
    /\ fits \in [Clients -> [Slots -> SUBSET Puts]]
    /\ store \in [Stores -> used \cup {Nil}] /\ used \subseteq Maps
    /\ content \in [Maps -> [Keys -> Puts]]
    /\ st \in [Clients -> Maps \cup {Nil}]
    /\ hash \in [Stores -> [Keys -> Puts]]
    /\ refused \in [Clients -> Statuses \cup {Pass}]
    /\ result = [c \in Clients |-> result[c]]

\* Where a call is and what it has returned so far.
Control(c) ==
    /\ pc[c] \in Rests \cup (IF backend = "memory" THEN MemoryLabels ELSE RedisLabels)
    /\ pc[c] = "idle" => call[c] = NoCall
    /\ pc[c] # "done" => refused[c] = Pass
    /\ refused[c] # Pass => c \notin TemplateClients
    /\ call[c].op = "none" => pc[c] = "idle" \/ refused[c] # Pass
    /\ call[c].op = "HasKey" => c \in TemplateClients
    /\ call[c].op \in Writes => call[c].n \in 1..Len(kind)
    /\ call[c].op \notin Writes => call[c].n = 0
    /\ pc[c] \in {"create", "reread", "write", "executed"} => call[c].op \in Writes
    /\ pc[c] = "read" => call[c].op \in {"Get", "HasKey"}
    /\ pc[c] = "encode" => call[c].op = "GetAll"
    /\ result[c] = [f \in {"err", "isNil", "val"} |-> result[c][f]]
    /\ pc[c] \notin {"encode", "done"} => result[c] = NoResult
    /\ pc[c] = "encode" => result[c].err = FALSE /\ DOMAIN result[c].val \subseteq Keys

\* What slot s holds.
Now(s) == IF backend = "redis" THEN hash[s[1]][s[2]] ELSE
          IF store[s[1]] = Nil THEN 0 ELSE content[store[s[1]]][s[2]]

\* The put of c is under way.
Putting(c) == pc[c] # "done" /\ call[c].op \in Writes

\* A slot holds a value that no ended put has replaced, and what a put under way
\* will write is not replaced by another put.
Register ==
    /\ \A s \in Slots : Now(s) \in cand[s]
    /\ \A c \in Clients : Putting(c) =>
          /\ call[c].n \in cand[call[c].slot]
          /\ \A d \in Clients : call[c].n \notin before[d]
    /\ \A c \in Clients : pc[c] = "executed" => Now(call[c].slot) \notin before[c]
    /\ \A s \in Slots : \A d \in Reading(s) : cand[s] \subseteq fits[d][s]

\* A map belongs to one store, also when it is no longer that of the store.
Heap ==
    /\ \A m \in Maps \ used, k \in Keys : content[m][k] = 0
    /\ \A s, t \in Stores : store[s] = store[t] /\ store[s] # Nil => s = t
    /\ \A c \in Clients : pc[c] = "reread" => store[StoreOf(c)] # Nil
    /\ \A c \in Clients : pc[c] \in Holds =>
          /\ st[c] \in used
          /\ \A t \in Stores : st[c] = store[t] => t = StoreOf(c)
          /\ \A d \in Clients : pc[d] \in Holds /\ st[c] = st[d] => StoreOf(c) = StoreOf(d)

\* What a read finds in its map, and what it has found, it may return.
May(c, k) == fits[c][<<StoreOf(c), k>>]
Found(c) ==
    /\ pc[c] = "read" => content[st[c]][KeyOf(c)] \in May(c, KeyOf(c))
    /\ pc[c] = "encode" => \A k \in Keys :
          /\ content[st[c]][k] \in May(c, k)
          /\ k \in DOMAIN result[c].val => result[c].val[k] \in May(c, k)
    /\ pc[c] = "done" /\ refused[c] = Pass /\ call[c].op \in {"Get", "HasKey"} =>
          IF result[c].err THEN backend = "redis"
          ELSE \/ result[c].isNil = TRUE /\ 0 \in May(c, KeyOf(c))
               \/ \E v \in May(c, KeyOf(c)) :
                     result[c].val = [k \in {KeyOf(c)} |-> v] /\ result[c].isNil = IsNil(v)
    /\ pc[c] = "done" /\ refused[c] = Pass /\ call[c].op = "GetAll" /\ ~result[c].err =>
          \A k \in Keys : IF k \in DOMAIN result[c].val THEN result[c].val[k] \in May(c, k) \ {0}
                                                        ELSE 0 \in May(c, k)

IInv ==
    /\ Types /\ backend \in {"memory", "redis"}
    /\ backend = "memory" => RedisInit
    /\ \A c \in Clients : Control(c)
    /\ Register /\ Heap
    /\ \A c \in Clients : Found(c)

-----------------------------------------------------------------------------
(* What a step leaves alone. *)

\* The fields of a client without a call, and of the result before an answer.
LEMMA NoCallFacts ==
    /\ NoCall \in [op : Writes \cup Reads \cup {"none"}, slot : Slots, n : Nat]
    /\ NoCall.op = "none" /\ NoCall.op \notin Writes \cup Reads /\ NoCall.n = 0
    /\ NoResult = [f \in {"err", "isNil", "val"} |-> NoResult[f]]
    /\ NoResult.err = FALSE /\ NoResult.isNil = TRUE /\ NoResult.val = <<>> /\ DOMAIN NoResult.val = {}
<1>1. (CHOOSE s \in Slots : TRUE) \in Slots
  <2>1. PICK a \in Stores, k \in Keys : TRUE
    BY CallsAssumption
  <2>2. <<a, k>> \in Slots
    BY DEF Slots
  <2> QED
    BY <2>2
<1> QED
  BY <1>1 DEF NoCall, NoResult, Writes, Reads

\* A client that a step leaves alone.
Same(d) ==
    /\ pc'[d] = pc[d] /\ call'[d] = call[d] /\ result'[d] = result[d] /\ refused'[d] = refused[d]
    /\ st'[d] = st[d]

\* A client that does not move keeps its part of the control invariant, whatever is put meanwhile.
LEMMA ControlKept ==
    ASSUME NEW d \in Clients, Control(d), Same(d), backend' = backend, kind \in Seq(Kinds),
           kind' = kind \/ \E k \in Kinds : kind' = Append(kind, k)
    PROVE  Control(d)'
<1>1. Len(kind) \in Nat /\ Len(kind') \in Nat /\ Len(kind') >= Len(kind)
  OBVIOUS
<1>2. call'[d].op \in Writes => call'[d].n \in 1..Len(kind')
  BY <1>1 DEF Control, Same
<1> QED
  BY <1>2 DEF Control, Same

\* What a client that does not move has found it may still return: writes only add to what fits.
LEMMA FoundKept ==
    ASSUME NEW d \in Clients, Types, Found(d), Same(d), backend' = backend,
           \/ content' = content
           \/ /\ pc[d] = "read" => content'[st[d]][KeyOf(d)] \in {content[st[d]][KeyOf(d)]} \cup May(d, KeyOf(d))
              /\ pc[d] = "encode" => \A k \in Keys : content'[st[d]][k] \in {content[st[d]][k]} \cup May(d, k),
           pc[d] = "done" => kind' = kind,
           \A s \in Slots : fits[d][s] \subseteq fits'[d][s]
    PROVE  Found(d)'
<1>1. ASSUME NEW k \in Keys PROVE May(d, k) \subseteq May(d, k)'
  <2>1. call[d].slot \in Slots /\ call'[d].slot = call[d].slot
    BY DEF Types, Same
  <2>2. <<call[d].slot[1], k>> \in Slots
    BY <2>1 DEF Slots
  <2> QED
    BY <2>1, <2>2 DEF May, StoreOf
<1>2. KeyOf(d) \in Keys /\ KeyOf(d)' = KeyOf(d)
  BY DEF Types, Slots, KeyOf, Same
<1>3. pc'[d] = "read" => content'[st'[d]][KeyOf(d)'] \in May(d, KeyOf(d))'
  BY <1>1, <1>2 DEF Found, Same
<1>4. pc'[d] = "encode" => \A k \in Keys :
          /\ content'[st'[d]][k] \in May(d, k)'
          /\ k \in DOMAIN result'[d].val => result'[d].val[k] \in May(d, k)'
  BY <1>1, <1>2 DEF Found, Same
<1>5. ASSUME pc'[d] = "done", refused'[d] = Pass, call'[d].op \in {"Get", "HasKey"}
      PROVE  IF result'[d].err THEN backend' = "redis"
             ELSE \/ result'[d].isNil = TRUE /\ 0 \in May(d, KeyOf(d))'
                  \/ \E v \in May(d, KeyOf(d))' :
                        result'[d].val = [k \in {KeyOf(d)'} |-> v] /\ result'[d].isNil = IsNil(v)'
  <2>1. kind' = kind
    BY <1>5 DEF Same
  <2>2. \A v : IsNil(v)' = IsNil(v)
    BY <2>1 DEF IsNil
  <2>3. IF result[d].err THEN backend = "redis"
        ELSE \/ result[d].isNil = TRUE /\ 0 \in May(d, KeyOf(d))
             \/ \E v \in May(d, KeyOf(d)) :
                   result[d].val = [k \in {KeyOf(d)} |-> v] /\ result[d].isNil = IsNil(v)
    BY <1>5 DEF Found, Same
  <2>4. May(d, KeyOf(d)) \subseteq May(d, KeyOf(d))'
    BY <1>1, <1>2
  <2>5. result'[d] = result[d]
    BY DEF Same
  <2> QED
    BY <1>2, <2>2, <2>3, <2>4, <2>5
<1>6. ASSUME pc'[d] = "done", refused'[d] = Pass, call'[d].op = "GetAll", ~result'[d].err
      PROVE  \A k \in Keys : IF k \in DOMAIN result'[d].val THEN result'[d].val[k] \in May(d, k)' \ {0}
                                                            ELSE 0 \in May(d, k)'
  BY <1>1, <1>6 DEF Found, Same
<1> QED
  BY <1>2, <1>3, <1>4, <1>5, <1>6 DEF Found

\* A step that leaves the slots alone.
LEMMA RegisterKept ==
    ASSUME Register, UNCHANGED <<cand, store, content, hash, backend>>,
           \A d \in Clients : before'[d] \subseteq before[d],
           \A d \in Clients : Putting(d)' => Putting(d) /\ call'[d] = call[d],
           \A d \in Clients : pc'[d] = "executed" => pc[d] = "executed" /\ call'[d] = call[d],
           \A s \in Slots, d \in Clients : d \in Reading(s)' => d \in Reading(s) \/ cand[s] \subseteq fits'[d][s],
           \A s \in Slots, d \in Clients : d \in Reading(s)' /\ d \in Reading(s) =>
               fits[d][s] \subseteq fits'[d][s] \/ cand[s] \subseteq fits'[d][s]
    PROVE  Register'
<1>1. \A s \in Slots : Now(s)' = Now(s) /\ Now(s) \in cand[s]
  BY DEF Now, Register
<1>2. ASSUME NEW c \in Clients, Putting(c)'
      PROVE  /\ call'[c].n \in cand'[call'[c].slot]
             /\ \A d \in Clients : call'[c].n \notin before'[d]
  <2>1. Putting(c) /\ call'[c] = call[c]
    BY <1>2
  <2>2. call[c].n \in cand[call[c].slot] /\ \A d \in Clients : call[c].n \notin before[d]
    BY <2>1 DEF Register
  <2> QED
    BY <2>1, <2>2
<1>3. \A c \in Clients : pc'[c] = "executed" => Now(call[c].slot)' \notin before'[c] /\ call'[c] = call[c]
  <2>1. \A s : Now(s)' = Now(s)
    BY DEF Now
  <2> QED
    BY <2>1 DEF Register
<1>4. \A s \in Slots : \A d \in Reading(s)' : cand'[s] \subseteq fits'[d][s]
  <2> SUFFICES ASSUME NEW s \in Slots, NEW d \in Reading(s)' PROVE cand[s] \subseteq fits'[d][s]
    OBVIOUS
  <2>1. d \in Clients
    BY DEF Reading
  <2>2. CASE d \in Reading(s)
    <3>1. fits[d][s] \subseteq fits'[d][s] \/ cand[s] \subseteq fits'[d][s]
      BY <2>1, <2>2
    <3>2. cand[s] \subseteq fits[d][s]
      BY <2>2 DEF Register
    <3> QED
      BY <3>1, <3>2
  <2>3. CASE d \notin Reading(s)
    BY <2>1, <2>3
  <2> QED
    BY <2>2, <2>3
<1> QED
  BY <1>1, <1>2, <1>3, <1>4 DEF Register

\* A step that creates no map.
LEMMA HeapKept ==
    ASSUME Heap, UNCHANGED <<store, used>>,
           \A m \in Maps \ used : content'[m] = content[m],
           \A s \in Stores : store[s] \in used \cup {Nil}, Nil \notin used,
           \A d \in Clients : pc'[d] = "reread" => pc[d] = "reread" /\ call'[d] = call[d],
           \A d \in Clients : pc'[d] \in Holds =>
               \/ pc[d] \in Holds /\ st'[d] = st[d] /\ call'[d] = call[d]
               \/ StoreOf(d)' \in Stores /\ st'[d] = store[StoreOf(d)'] /\ st'[d] # Nil
    PROVE  Heap'
<1>1. \A d \in Clients : pc'[d] = "reread" => store'[StoreOf(d)'] # Nil
  BY DEF Heap, StoreOf
<1>2. ASSUME NEW c \in Clients, pc'[c] \in Holds
      PROVE  /\ st'[c] \in used
             /\ \A t \in Stores : st'[c] = store[t] => t = StoreOf(c)'
  <2>1. CASE pc[c] \in Holds /\ st'[c] = st[c] /\ call'[c] = call[c]
    <3>1. st[c] \in used /\ \A t \in Stores : st[c] = store[t] => t = StoreOf(c)
      BY <2>1 DEF Heap
    <3>2. StoreOf(c)' = StoreOf(c)
      BY <2>1 DEF StoreOf
    <3> QED
      BY <2>1, <3>1, <3>2
  <2>2. CASE StoreOf(c)' \in Stores /\ st'[c] = store[StoreOf(c)'] /\ st'[c] # Nil
    BY <2>2 DEF Heap
  <2> QED
    BY <1>2, <2>1, <2>2
<1>3. ASSUME NEW c \in Clients, NEW d \in Clients, pc'[c] \in Holds, pc'[d] \in Holds, st'[c] = st'[d]
      PROVE  StoreOf(c)' = StoreOf(d)'
  <2>1. CASE StoreOf(c)' \in Stores /\ st'[c] = store[StoreOf(c)'] /\ st'[c] # Nil
    BY <1>2, <1>3, <2>1
  <2>2. CASE StoreOf(d)' \in Stores /\ st'[d] = store[StoreOf(d)'] /\ st'[d] # Nil
    BY <1>2, <1>3, <2>2
  <2>3. CASE /\ pc[c] \in Holds /\ st'[c] = st[c] /\ call'[c] = call[c]
             /\ pc[d] \in Holds /\ st'[d] = st[d] /\ call'[d] = call[d]
    <3>1. st[c] = st[d]
      BY <1>3, <2>3
    <3>2. StoreOf(c) = StoreOf(d)
      BY <2>3, <3>1 DEF Heap
    <3>3. StoreOf(c)' = StoreOf(c) /\ StoreOf(d)' = StoreOf(d)
      BY <2>3 DEF StoreOf
    <3> QED
      BY <3>2, <3>3
  <2> QED
    BY <1>3, <2>1, <2>2, <2>3
<1>4. \A m \in Maps \ used', k \in Keys : content'[m][k] = 0
  BY DEF Heap
<1>5. \A s, t \in Stores : store'[s] = store'[t] /\ store'[s] # Nil => s = t
  BY DEF Heap
<1> QED
  BY <1>1, <1>2, <1>3, <1>4, <1>5 DEF Heap

\* A step of client c that changes no slot, and no other client.
Private(c) ==
    /\ UNCHANGED <<kind, cand, store, content, used, hash, backend>>
    /\ \A d \in Clients \ {c} : Same(d) /\ fits'[d] = fits[d] /\ before'[d] = before[d]

\* A step that only changes the variables of client c preserves the invariant.
LEMMA PrivateStep ==
    ASSUME IInv, NEW c \in Clients, Types', Private(c), Control(c)', Found(c)',
           before'[c] \subseteq before[c],
           Putting(c)' => Putting(c) /\ call'[c] = call[c],
           pc'[c] \notin {"reread", "executed"},
           \A s \in Slots : c \in Reading(s)' =>
               (c \in Reading(s) /\ fits'[c] = fits[c]) \/ cand[s] \subseteq fits'[c][s],
           pc'[c] \in Holds =>
               \/ pc[c] \in Holds /\ st'[c] = st[c] /\ call'[c] = call[c]
               \/ StoreOf(c)' \in Stores /\ st'[c] = store[StoreOf(c)'] /\ st'[c] # Nil
    PROVE  IInv'
<1>1. UNCHANGED <<kind, cand, store, content, used, hash, backend>>
  BY DEF Private
<1>2. ASSUME NEW d \in Clients, d # c PROVE Same(d) /\ fits'[d] = fits[d] /\ before'[d] = before[d]
  BY <1>2 DEF Private
<1>3. ASSUME NEW d \in Clients PROVE Control(d)'
  <2>1. CASE d # c
    BY <1>1, <1>2, <2>1, ControlKept DEF IInv, Types
  <2> QED
    BY <2>1
<1>4. ASSUME NEW d \in Clients PROVE Found(d)'
  <2>1. CASE d # c
    <3>1. Same(d) /\ \A s \in Slots : fits[d][s] \subseteq fits'[d][s]
      BY <1>2, <2>1
    <3> QED
      BY <1>1, <3>1, FoundKept DEF IInv
  <2> QED
    BY <2>1
<1>5. ASSUME NEW d \in Clients
      PROVE  /\ before'[d] \subseteq before[d]
             /\ Putting(d)' => Putting(d) /\ call'[d] = call[d]
             /\ pc'[d] = "executed" => pc[d] = "executed" /\ call'[d] = call[d]
             /\ \A s \in Slots : d \in Reading(s)' => d \in Reading(s) \/ cand[s] \subseteq fits'[d][s]
             /\ \A s \in Slots : d \in Reading(s)' /\ d \in Reading(s) =>
                    fits[d][s] \subseteq fits'[d][s] \/ cand[s] \subseteq fits'[d][s]
             /\ pc'[d] = "reread" => pc[d] = "reread" /\ call'[d] = call[d]
             /\ pc'[d] \in Holds =>
                    \/ pc[d] \in Holds /\ st'[d] = st[d] /\ call'[d] = call[d]
                    \/ StoreOf(d)' \in Stores /\ st'[d] = store[StoreOf(d)'] /\ st'[d] # Nil
  <2>1. CASE d # c
    <3>1. Same(d) /\ fits'[d] = fits[d] /\ before'[d] = before[d]
      BY <1>2, <2>1
    <3>2. (Putting(d)' <=> Putting(d)) /\ \A s : d \in Reading(s)' <=> d \in Reading(s)
      BY <3>1 DEF Same, Putting, Reading
    <3> QED
      BY <3>1, <3>2 DEF Same
  <2>2. CASE d = c
    BY <2>2
  <2> QED
    BY <2>1, <2>2
<1>6. Register'
  BY <1>1, <1>5, RegisterKept DEF IInv
<1>7. Heap'
  <2>1. (\A s \in Stores : store[s] \in used \cup {Nil}) /\ Nil \notin used
    BY MapsAssumption DEF IInv, Types
  <2> QED
    BY <1>1, <1>5, <2>1, HeapKept DEF IInv
<1> QED
  BY <1>1, <1>3, <1>4, <1>6, <1>7 DEF IInv, RedisInit

-----------------------------------------------------------------------------
(* The steps that change no slot. *)

\* A read begins with everything its slots may hold among what it may return.
LEMMA BeginReadStep ==
    ASSUME IInv, NEW c \in Clients, NEW op \in Reads, NEW s \in Slots, BeginRead(c, op, s, Enter),
           op = "HasKey" => c \in TemplateClients, UNCHANGED <<memory, hash, backend, refused>>
    PROVE  IInv'
<1> DEFINE new == [op |-> op, slot |-> s, n |-> 0]
           may == [x \in Slots |-> IF x \in About(op, s) THEN cand[x] ELSE {}]
<1> USE DEF IInv
<1>1. /\ pc[c] = "idle" /\ pc' = [pc EXCEPT ![c] = Enter]
      /\ call' = [call EXCEPT ![c] = new] /\ fits' = [fits EXCEPT ![c] = may]
      /\ UNCHANGED <<kind, result, cand, before, store, content, used, st, hash, backend, refused>>
  BY DEF BeginRead, memory
<1>2. /\ Enter \in {"lookup", "send"} /\ (Enter = "lookup" <=> backend = "memory")
      /\ new \in [op : Writes \cup Reads \cup {"none"}, slot : Slots, n : Nat]
      /\ new.op = op /\ new.slot = s /\ new.n = 0 /\ op \notin Writes /\ op # "none"
  BY DEF Enter, Reads, Writes
<1>3. may \in [Slots -> SUBSET Puts]
  BY DEF Types
<1> HIDE DEF new, may
<1>4. Types'
  BY <1>1, <1>2, <1>3 DEF Types, Rests, MemoryLabels, RedisLabels, Puts
<1>5. /\ pc'[c] = Enter /\ call'[c] = new /\ fits'[c] = may
      /\ \A d \in Clients \ {c} : Same(d) /\ fits'[d] = fits[d] /\ before'[d] = before[d]
  BY <1>1 DEF Types, Same
<1>6. Private(c)
  BY <1>1, <1>5 DEF Private
<1>7. Control(c)'
  BY <1>1, <1>2, <1>5 DEF Control, MemoryLabels, RedisLabels, Rests
<1>8. Found(c)'
  BY <1>2, <1>5 DEF Found
<1>9. ~Putting(c)' /\ pc'[c] \notin {"reread", "executed"} \cup Holds
  BY <1>2, <1>5 DEF Putting, Holds
<1>10. \A x \in Slots : c \in Reading(x)' => cand[x] \subseteq fits'[c][x]
  BY <1>2, <1>5 DEF Reading, may
<1> QED
  BY <1>1, <1>4, <1>6, <1>7, <1>8, <1>9, <1>10, PrivateStep

\* A chain of checks comes to a status or to Pass.
LEMMA ChainStatus == ASSUME NEW S, Pass \in S, NEW checks \in Seq(S) PROVE Chain(checks) \in S
<1> DEFINE I == {i \in 1..Len(checks) : checks[i] # Pass}
           first == IF I # {} THEN Min(I) ELSE 0
<1>1. Chain(checks) = IF first = 0 THEN Pass ELSE checks[first]
  BY DEF Chain, SelectInSeq
<1>2. I \subseteq Nat /\ \A i \in I : checks[i] \in S
  OBVIOUS
<1> HIDE DEF I
<1>3. CASE I = {}
  BY <1>1, <1>3
<1>4. CASE I # {}
  <2>1. \E x \in I : \A y \in I : x <= y
    BY <1>2, <1>4, LeastNat
  <2>2. Min(I) \in I
    BY <2>1 DEF Min
  <2> QED
    BY <1>1, <1>2, <1>4, <2>2
<1> QED
  BY <1>3, <1>4

\* A refusal is an http status.
LEMMA RefusalStatus == \A op \in HttpOps : \A r \in Requests : refusal(op, r) \in Statuses \cup {Pass}
<1> DEFINE S == Statuses \cup {Pass}
<1> SUFFICES ASSUME NEW op \in HttpOps, NEW r \in Requests PROVE refusal(op, r) \in S
  OBVIOUS
<1>1. /\ BasicAuthMiddleware(r) \in S /\ JSONContentTypeRequest(r) \in S
      /\ JSONAcceptRequest(r) \in S /\ PathParamRequest(r) \in S /\ parseBody(r) \in S /\ Pass \in S
  BY DEF BasicAuthMiddleware, JSONContentTypeRequest, JSONAcceptRequest, PathParamRequest, parseBody, Statuses
<1> DEFINE own == CASE op = "Put" -> <<JSONContentTypeRequest(r)>>
                    [] op \in {"Get", "GetAll"} -> <<JSONAcceptRequest(r)>>
                    [] op = "Remove" -> <<>>
<1> HIDE DEF S
<1>2. own \in Seq(S)
  <2>1. <<JSONContentTypeRequest(r)>> \in Seq(S) /\ <<JSONAcceptRequest(r)>> \in Seq(S) /\ <<>> \in Seq(S)
    BY <1>1
  <2>2. own \in {<<JSONContentTypeRequest(r)>>, <<JSONAcceptRequest(r)>>, <<>>}
    BY DEF HttpOps
  <2> QED
    BY <2>1, <2>2
<1>3. AddRoutes(op, r) = Chain(<<BasicAuthMiddleware(r)>> \o own \o <<PathParamRequest(r)>>)
  BY DEF AddRoutes
<1> HIDE DEF own
<1>4. <<BasicAuthMiddleware(r)>> \o own \o <<PathParamRequest(r)>> \in Seq(S)
  BY <1>1, <1>2
<1>5. AddRoutes(op, r) \in S
  BY <1>1, <1>3, <1>4, ChainStatus
<1>6. <<AddRoutes(op, r), parseBody(r)>> \in Seq(S)
  BY <1>1, <1>5
<1> QED
  BY <1>1, <1>5, <1>6, ChainStatus DEF refusal

\* A request that is refused reaches no storage.
LEMMA RefuseStep ==
    ASSUME IInv, NEW c \in Clients, Refuse(c) PROVE IInv'
<1> USE DEF IInv
<1>1. /\ pc[c] = "idle" /\ pc' = [pc EXCEPT ![c] = "done"]
      /\ UNCHANGED <<call, kind, result, cand, before, fits, store, content, used, st, hash, backend>>
  BY DEF Refuse, memory
<1>2. PICK status \in Refusals : refused' = [refused EXCEPT ![c] = status]
  BY DEF Refuse
<1>3. status # Pass
  BY <1>2, Zenon DEF Refusals
<1>4. Types'
  <2>1. status \in Statuses
    BY <1>2, <1>3, RefusalStatus DEF Refusals
  <2> QED
    BY <1>1, <1>2, <2>1 DEF Types, Rests, Puts
<1>5. /\ pc'[c] = "done" /\ refused'[c] = status
      /\ \A d \in Clients \ {c} : Same(d) /\ fits'[d] = fits[d] /\ before'[d] = before[d]
  BY <1>1, <1>2 DEF Types, Same
<1>6. Private(c)
  BY <1>1, <1>5 DEF Private
<1>7. Control(c)' /\ call[c].op = "none"
  <2>1. c \notin TemplateClients
    BY CallsAssumption DEF Refuse
  <2> QED
    BY <1>1, <1>3, <1>5, <2>1, NoCallFacts DEF Control, Rests
<1>8. Found(c)'
  BY <1>3, <1>5 DEF Found
<1>9. ~Putting(c)' /\ pc'[c] \notin {"reread", "executed"} \cup Holds /\ \A x \in Slots : c \notin Reading(x)'
  BY <1>5 DEF Putting, Holds, Reading
<1> QED
  BY <1>1, <1>4, <1>6, <1>7, <1>8, <1>9, PrivateStep

\* An answered client is idle again, and its call is forgotten.
LEMMA RespondStep ==
    ASSUME IInv, NEW c \in Clients, Respond(c) PROVE IInv'
<1> USE DEF IInv
<1>1. /\ pc[c] = "done" /\ pc' = [pc EXCEPT ![c] = "idle"]
      /\ call' = [call EXCEPT ![c] = NoCall] /\ result' = [result EXCEPT ![c] = NoResult]
      /\ fits' = [fits EXCEPT ![c] = NoFits]
      /\ refused' = [refused EXCEPT ![c] = Pass] /\ st' = [st EXCEPT ![c] = Nil]
      /\ UNCHANGED <<kind, cand, before, store, content, used, hash, backend>>
  BY DEF Respond, Forget
<1>2. Types'
  <2>1. NoFits \in [Slots -> SUBSET Puts]
    BY DEF NoFits
  <2> QED
    BY <1>1, <2>1, NoCallFacts DEF Types, Rests, Puts
<1>3. /\ pc'[c] = "idle" /\ refused'[c] = Pass /\ call'[c] = NoCall /\ result'[c] = NoResult
      /\ \A d \in Clients \ {c} : Same(d) /\ fits'[d] = fits[d] /\ before'[d] = before[d]
  BY <1>1 DEF Types, Same
<1>4. Private(c)
  BY <1>1, <1>3 DEF Private
<1>5. Control(c)'
  BY <1>3, NoCallFacts DEF Control, Rests, Writes
<1>6. Found(c)'
  BY <1>3 DEF Found
<1>7. ~Putting(c)' /\ pc'[c] \notin {"reread", "executed"} \cup Holds /\ \A x \in Slots : c \notin Reading(x)'
  BY <1>3, NoCallFacts DEF Putting, Holds, Reading
<1> QED
  BY <1>1, <1>2, <1>4, <1>5, <1>6, <1>7, PrivateStep

\* A command of redis fails, or is never sent.
LEMMA ErrorStep ==
    ASSUME IInv, NEW c \in Clients, pc[c] \in RedisLabels, ReturnError(c),
           UNCHANGED <<memory, hash, backend, refused>>
    PROVE  IInv'
<1> DEFINE r == [result[c] EXCEPT !.err = TRUE]
<1> USE DEF IInv
<1>1. /\ pc' = [pc EXCEPT ![c] = "done"] /\ result' = [result EXCEPT ![c] = r]
      /\ before' = [before EXCEPT ![c] = {}]
      /\ UNCHANGED <<call, kind, cand, fits, store, content, used, st, hash, backend, refused>>
  BY DEF ReturnError, memory
<1>2. r = [f \in {"err", "isNil", "val"} |-> r[f]] /\ r.err = TRUE
  <2>1. result[c] = [f \in {"err", "isNil", "val"} |-> result[c][f]]
    BY DEF Control
  <2> QED
    BY <2>1
<1> HIDE DEF r
<1>3. Types'
  BY <1>1 DEF Types, Rests, Puts
<1>4. /\ pc'[c] = "done" /\ result'[c] = r /\ before'[c] = {}
      /\ \A d \in Clients \ {c} : Same(d) /\ fits'[d] = fits[d] /\ before'[d] = before[d]
  BY <1>1 DEF Types, Same
<1>5. Private(c)
  BY <1>1, <1>4 DEF Private
<1>6. backend = "redis" /\ refused[c] = Pass /\ call[c].op # "none"
  BY DEF Control, RedisLabels, MemoryLabels, Holds, Rests, Pass
<1>7. Control(c)'
  <2>1. call'[c] = call[c] /\ refused'[c] = refused[c] /\ kind' = kind /\ backend' = backend
    BY <1>1
  <2>2. result'[c] = [f \in {"err", "isNil", "val"} |-> result'[c][f]]
    BY <1>2, <1>4
  <2>3. /\ call[c].op = "HasKey" => c \in TemplateClients
        /\ call[c].op \in Writes => call[c].n \in 1..Len(kind)
        /\ call[c].op \notin Writes => call[c].n = 0
    BY DEF Control
  <2> QED
    BY <1>4, <1>6, <2>1, <2>2, <2>3 DEF Control, Rests
<1>8. Found(c)'
  BY <1>1, <1>2, <1>4, <1>6 DEF Found
<1>9. ~Putting(c)' /\ pc'[c] \notin {"reread", "executed"} \cup Holds /\ \A x \in Slots : c \notin Reading(x)'
  BY <1>4 DEF Putting, Holds, Reading
<1> QED
  BY <1>1, <1>3, <1>4, <1>5, <1>7, <1>8, <1>9, PrivateStep

\* What a read of c may return.
MayReturn(c, isNil, val) ==
    /\ call[c].op \in {"Get", "HasKey"} =>
          \/ isNil = TRUE /\ 0 \in May(c, KeyOf(c))
          \/ \E v \in May(c, KeyOf(c)) : val = [k \in {KeyOf(c)} |-> v] /\ isNil = IsNil(v)
    /\ call[c].op = "GetAll" =>
          \A k \in Keys : IF k \in DOMAIN val THEN val[k] \in May(c, k) \ {0} ELSE 0 \in May(c, k)

\* A read that returns what it may preserves the invariant.
LEMMA ReturnReadStep ==
    ASSUME IInv, NEW c \in Clients, NEW isNil, NEW val, pc[c] \notin Rests, call[c].op \in Reads,
           ReturnRead(c, isNil, val), MayReturn(c, isNil, val),
           st' \in [Clients -> Maps \cup {Nil}], \A d \in Clients \ {c} : st'[d] = st[d],
           UNCHANGED <<store, content, used, hash, backend, refused>>
    PROVE  IInv'
<1> DEFINE r == [result[c] EXCEPT !.isNil = isNil, !.val = val]
<1> USE DEF IInv
<1>1. /\ pc' = [pc EXCEPT ![c] = "done"] /\ result' = [result EXCEPT ![c] = r]
      /\ UNCHANGED <<call, kind, cand, before, fits>>
  BY DEF ReturnRead
<1>2. r = [f \in {"err", "isNil", "val"} |-> r[f]] /\ r.err = FALSE /\ r.isNil = isNil /\ r.val = val
  <2>1. result[c] = [f \in {"err", "isNil", "val"} |-> result[c][f]] /\ result[c].err = FALSE
    BY NoCallFacts DEF Control, Rests
  <2> QED
    BY <2>1
<1> HIDE DEF r
<1>3. Types'
  BY <1>1 DEF Types, Rests, Puts
<1>4. /\ pc'[c] = "done" /\ result'[c] = r /\ call'[c] = call[c] /\ fits'[c] = fits[c] /\ before'[c] = before[c]
      /\ \A d \in Clients \ {c} : Same(d) /\ fits'[d] = fits[d] /\ before'[d] = before[d]
  BY <1>1 DEF Types, Same
<1>5. Private(c)
  BY <1>1, <1>4 DEF Private
<1>6. refused[c] = Pass /\ call[c].op \notin Writes \cup {"none"}
  BY DEF Control, Rests, Reads, Writes
<1>7. Control(c)'
  <2>1. call'[c] = call[c] /\ refused'[c] = refused[c] /\ kind' = kind /\ backend' = backend
    BY <1>1
  <2>2. result'[c] = [f \in {"err", "isNil", "val"} |-> result'[c][f]]
    BY <1>2, <1>4
  <2>3. call[c].op = "HasKey" => c \in TemplateClients
    BY DEF Control
  <2> QED
    BY <1>4, <1>6, <2>1, <2>2, <2>3 DEF Control, Rests
<1>8. Found(c)'
  <2>1. /\ KeyOf(c)' = KeyOf(c) /\ \A k : May(c, k)' = May(c, k)
        /\ \A v : IsNil(v)' = IsNil(v)
    BY <1>1, <1>4 DEF KeyOf, May, StoreOf, IsNil
  <2>2. result'[c].err = FALSE /\ result'[c].isNil = isNil /\ result'[c].val = val
    BY <1>2, <1>4
  <2>3. ASSUME call[c].op \in {"Get", "HasKey"}
        PROVE  \/ result'[c].isNil = TRUE /\ 0 \in May(c, KeyOf(c))'
               \/ \E v \in May(c, KeyOf(c))' :
                     result'[c].val = [k \in {KeyOf(c)'} |-> v] /\ result'[c].isNil = IsNil(v)'
    BY <2>1, <2>2, <2>3 DEF MayReturn
  <2>4. ASSUME call[c].op = "GetAll"
        PROVE  \A k \in Keys : IF k \in DOMAIN result'[c].val THEN result'[c].val[k] \in May(c, k)' \ {0}
                                                              ELSE 0 \in May(c, k)'
    BY <2>1, <2>2, <2>4 DEF MayReturn
  <2> QED
    BY <1>4, <2>2, <2>3, <2>4 DEF Found
<1>9. ~Putting(c)' /\ pc'[c] \notin {"reread", "executed"} \cup Holds /\ \A x \in Slots : c \notin Reading(x)'
  BY <1>4 DEF Putting, Holds, Reading
<1> QED
  BY <1>3, <1>4, <1>5, <1>7, <1>8, <1>9, PrivateStep

\* A read under way may return what its slot holds now.
LEMMA NowFits ==
    ASSUME IInv, NEW c \in Clients, pc[c] \notin Rests, call[c].op \in Reads
    PROVE  /\ StoreOf(c) \in Stores /\ KeyOf(c) \in Keys
           /\ call[c].op # "GetAll" => Now(<<StoreOf(c), KeyOf(c)>>) \in May(c, KeyOf(c))
           /\ call[c].op = "GetAll" => \A k \in Keys : Now(<<StoreOf(c), k>>) \in May(c, k)
<1>1. call[c].slot \in Slots /\ StoreOf(c) \in Stores /\ KeyOf(c) \in Keys
      /\ call[c].slot = <<StoreOf(c), KeyOf(c)>>
  BY DEF IInv, Types, Slots, StoreOf, KeyOf
<1>2. ASSUME NEW k \in Keys, <<StoreOf(c), k>> \in About(call[c].op, call[c].slot)
      PROVE  Now(<<StoreOf(c), k>>) \in May(c, k)
  <2> DEFINE s == <<StoreOf(c), k>>
  <2>1. s \in Slots
    BY <1>1 DEF Slots
  <2>2. c \in Reading(s)
    BY <1>2 DEF Reading, Rests
  <2>3. Now(s) \in cand[s] /\ cand[s] \subseteq fits[c][s]
    BY <2>1, <2>2 DEF IInv, Register
  <2> QED
    BY <2>3 DEF May
<1>3. call[c].op # "GetAll" => <<StoreOf(c), KeyOf(c)>> \in About(call[c].op, call[c].slot)
  BY <1>1 DEF About
<1>4. call[c].op = "GetAll" => \A k \in Keys : <<StoreOf(c), k>> \in About(call[c].op, call[c].slot)
  BY <1>1 DEF About, StoreOf
<1> QED
  BY <1>1, <1>2, <1>3, <1>4

\* Get and HasKey of the in-memory storage: the index expression on the map.
LEMMA ReadKeyStep ==
    ASSUME IInv, NEW c \in Clients, ReadKey(c), UNCHANGED <<hash, backend, refused>>
    PROVE  IInv'
<1> DEFINE v == content[st[c]][KeyOf(c)]
<1>1. /\ pc[c] = "read" /\ ReturnRead(c, IsNil(v), [k \in {KeyOf(c)} |-> v])
      /\ UNCHANGED <<store, content, used, st>>
  BY DEF ReadKey, At, memory
<1>2. call[c].op \in {"Get", "HasKey"} /\ v \in May(c, KeyOf(c)) /\ pc[c] \notin Rests
  BY <1>1 DEF IInv, Control, Found, Rests
<1> HIDE DEF v
<1>3. MayReturn(c, IsNil(v), [k \in {KeyOf(c)} |-> v])
  BY <1>2 DEF MayReturn
<1>4. call[c].op \in Reads /\ st' \in [Clients -> Maps \cup {Nil}]
  BY <1>1, <1>2 DEF Reads, IInv, Types
<1> QED
  BY <1>1, <1>2, <1>3, <1>4, ReturnReadStep

\* Get and HasKey of the redis storage: HGET.
LEMMA HGetStep ==
    ASSUME IInv, NEW c \in Clients, HGet(c), UNCHANGED <<memory, backend, refused>>
    PROVE  IInv'
<1> DEFINE v == hash[call[c].slot[1]][call[c].slot[2]]
<1>1. /\ pc[c] \in RedisLabels /\ call[c].op \in {"Get", "HasKey"} /\ UNCHANGED hash
      /\ IF v = 0 THEN ReturnError(c) ELSE ReturnRead(c, IsNil(v), [k \in {KeyOf(c)} |-> v])
  BY DEF HGet, Sent, RedisLabels, KeyOf
<1>2. /\ pc[c] \notin Rests /\ backend = "redis" /\ call[c].op \in Reads /\ call[c].op # "GetAll"
  BY <1>1 DEF IInv, Control, RedisLabels, MemoryLabels, Holds, Rests, Reads
<1>3. v \in May(c, KeyOf(c))
  <2>1. Now(<<StoreOf(c), KeyOf(c)>>) \in May(c, KeyOf(c))
    BY <1>2, NowFits
  <2> QED
    BY <1>2, <2>1 DEF Now, StoreOf, KeyOf
<1> HIDE DEF v
<1>4. CASE v = 0
  BY <1>1, <1>4, ErrorStep
<1>5. CASE v # 0
  <2>1. MayReturn(c, IsNil(v), [k \in {KeyOf(c)} |-> v])
    BY <1>1, <1>3 DEF MayReturn
  <2>2. st' \in [Clients -> Maps \cup {Nil}] /\ UNCHANGED <<store, content, used, st>>
    BY DEF memory, IInv, Types
  <2> QED
    BY <1>1, <1>2, <1>5, <2>1, <2>2, ReturnReadStep
<1> QED
  BY <1>4, <1>5

\* GetAll of the redis storage: HGETALL.
LEMMA HGetAllStep ==
    ASSUME IInv, NEW c \in Clients, HGetAll(c), UNCHANGED <<memory, backend, refused>>
    PROVE  IInv'
<1> DEFINE h == hash[call[c].slot[1]]
           val == Restrict(h, {k \in Keys : h[k] # 0})
<1>1. /\ pc[c] \in RedisLabels /\ call[c].op = "GetAll" /\ UNCHANGED hash
      /\ ReturnRead(c, FALSE, val)
  BY DEF HGetAll, Sent, RedisLabels
<1>2. /\ pc[c] \notin Rests /\ backend = "redis" /\ call[c].op \in Reads
  BY <1>1 DEF IInv, Control, RedisLabels, MemoryLabels, Holds, Rests, Reads
<1>3. \A k \in Keys : h[k] \in May(c, k)
  <2>1. \A k \in Keys : Now(<<StoreOf(c), k>>) \in May(c, k)
    BY <1>1, <1>2, NowFits
  <2> QED
    BY <1>2, <2>1 DEF Now, StoreOf
<1>4. DOMAIN val = {k \in Keys : h[k] # 0} /\ \A k \in DOMAIN val : val[k] = h[k]
  BY DEF Restrict
<1> HIDE DEF h, val
<1>5. MayReturn(c, FALSE, val)
  BY <1>1, <1>3, <1>4 DEF MayReturn
<1>6. st' \in [Clients -> Maps \cup {Nil}] /\ UNCHANGED <<store, content, used, st>>
  BY DEF memory, IInv, Types
<1> QED
  BY <1>1, <1>2, <1>5, <1>6, ReturnReadStep

\* The encoder reads one more key of the live map.
OneMore(c, k) == [j \in DOMAIN result[c].val \cup {k} |-> IF j = k THEN content[st[c]][k] ELSE result[c].val[j]]

\* json.Marshal visits one more key of the map.
LEMMA EncodeKeyStep ==
    ASSUME IInv, NEW c \in Clients, pc[c] = "encode", NEW k \in Keys \ DOMAIN result[c].val,
           result' = [result EXCEPT ![c].val = OneMore(c, k)],
           UNCHANGED <<pc, call, kind, cand, before, fits, memory, hash, backend, refused>>
    PROVE  IInv'
<1> DEFINE val == OneMore(c, k)
           r == [result[c] EXCEPT !.val = val]
<1> USE DEF IInv
<1>1. /\ DOMAIN val = DOMAIN result[c].val \cup {k} /\ val[k] = content[st[c]][k]
      /\ \A j \in DOMAIN result[c].val : val[j] = result[c].val[j]
  BY DEF OneMore
<1>2. r = [f \in {"err", "isNil", "val"} |-> r[f]] /\ r.err = FALSE /\ r.val = val
      /\ DOMAIN result[c].val \subseteq Keys /\ call[c].op = "GetAll"
  <2>1. /\ result[c] = [f \in {"err", "isNil", "val"} |-> result[c][f]] /\ result[c].err = FALSE
        /\ DOMAIN result[c].val \subseteq Keys /\ call[c].op = "GetAll"
    BY DEF Control
  <2> HIDE DEF val
  <2> QED
    BY <2>1
<1>3. result' = [result EXCEPT ![c] = r]
  OBVIOUS
<1> HIDE DEF r, val
<1>4. UNCHANGED <<store, content, used, st>>
  BY DEF memory
<1>5. Types'
  BY <1>3, <1>4 DEF Types, Puts
<1>6. /\ result'[c] = r /\ \A d \in Clients \ {c} : Same(d) /\ fits'[d] = fits[d] /\ before'[d] = before[d]
  BY <1>3, <1>4 DEF Types, Same
<1>7. Private(c)
  BY <1>4, <1>6 DEF Private
<1>8. Control(c)'
  <2>1. result'[c] = [f \in {"err", "isNil", "val"} |-> result'[c][f]]
    BY <1>2, <1>6
  <2>2. result'[c].err = FALSE /\ DOMAIN result'[c].val \subseteq Keys
    BY <1>1, <1>2, <1>6
  <2> QED
    BY <2>1, <2>2 DEF Control
<1>9. Found(c)'
  <2>1. \A j : May(c, j)' = May(c, j)
    BY DEF May, StoreOf
  <2>2. \A j \in Keys : content[st[c]][j] \in May(c, j)
                        /\ (j \in DOMAIN result[c].val => result[c].val[j] \in May(c, j))
    BY DEF Found
  <2>3. \A j \in Keys : content'[st'[c]][j] \in May(c, j)'
                        /\ (j \in DOMAIN result'[c].val => result'[c].val[j] \in May(c, j)')
    BY <1>1, <1>2, <1>4, <1>6, <2>1, <2>2
  <2> QED
    BY <2>3 DEF Found
<1>10. ~Putting(c)' /\ pc'[c] \in Holds /\ pc'[c] \notin {"reread", "executed"}
  BY <1>2 DEF Putting, Holds, Writes
<1>11. \A x \in Slots : c \in Reading(x)' => c \in Reading(x)
  BY DEF Reading
<1> QED
  BY <1>4, <1>5, <1>7, <1>8, <1>9, <1>10, <1>11, PrivateStep

\* json.Marshal visits a key of the map, or ends.
LEMMA EncodeStep ==
    ASSUME IInv, NEW c \in Clients, Encode(c), UNCHANGED <<hash, backend, refused>>
    PROVE  IInv'
<1> DEFINE seen == result[c].val
           val == Restrict(seen, {k \in Keys : seen[k] # 0})
<1>1. pc[c] = "encode" /\ UNCHANGED memory
  BY DEF Encode, At
<1>2. CASE \E k \in Keys \ DOMAIN seen :
             /\ result' = [result EXCEPT ![c].val = OneMore(c, k)]
             /\ UNCHANGED <<pc, call, kind, cand, before, fits>>
  BY <1>1, <1>2, EncodeKeyStep
<1>3. CASE DOMAIN seen = Keys /\ ReturnRead(c, FALSE, val)
  <2>1. call[c].op = "GetAll" /\ pc[c] \notin Rests /\ call[c].op \in Reads
    BY <1>1 DEF IInv, Control, Rests, Reads
  <2>2. \A k \in Keys : seen[k] \in May(c, k)
    BY <1>1, <1>3 DEF IInv, Found
  <2>3. DOMAIN val = {k \in Keys : seen[k] # 0} /\ \A k \in DOMAIN val : val[k] = seen[k]
    BY DEF Restrict
  <2> HIDE DEF seen, val
  <2>4. MayReturn(c, FALSE, val)
    BY <2>1, <2>2, <2>3 DEF MayReturn
  <2>5. st' \in [Clients -> Maps \cup {Nil}] /\ UNCHANGED <<store, content, used, st>>
    BY <1>1 DEF memory, IInv, Types
  <2> QED
    BY <1>3, <2>1, <2>4, <2>5, ReturnReadStep
<1> QED
  BY <1>2, <1>3 DEF Encode, OneMore

\* The map of the store is looked up: a read without one returns, any other call
\* goes on with it.
LEMMA LookupStep ==
    ASSUME IInv, NEW c \in Clients, Lookup(c), UNCHANGED <<hash, backend, refused>>
    PROVE  IInv'
<1> DEFINE m == store[StoreOf(c)]
           next == IF call[c].op = "GetAll" THEN "encode" ELSE
                   IF call[c].op \in Reads THEN "read" ELSE
                   IF m = Nil THEN "create" ELSE "write"
<1> USE DEF IInv
<1>1. /\ pc[c] = "lookup" /\ st' = [st EXCEPT ![c] = m] /\ UNCHANGED <<store, content, used>>
      /\ \/ call[c].op \in Reads /\ m = Nil /\ ReturnRead(c, TRUE, <<>>)
         \/ (call[c].op \in Writes \/ m # Nil) /\ Goto(c, next) /\ UNCHANGED <<cand, fits>>
  BY DEF Lookup, At
<1>2. /\ backend = "memory" /\ call[c].op \in Writes \cup Reads /\ pc[c] \notin Rests
      /\ refused[c] = Pass /\ result[c] = NoResult
  BY <1>1 DEF Control, RedisLabels, Rests, Types
<1>3. StoreOf(c) \in Stores /\ KeyOf(c) \in Keys /\ m \in used \cup {Nil} /\ m \in Maps \cup {Nil}
  BY DEF Types, Slots, StoreOf, KeyOf
<1>4. \A k \in Keys : Now(<<StoreOf(c), k>>) = IF m = Nil THEN 0 ELSE content[m][k]
  BY <1>2 DEF Now
<1> HIDE DEF m
<1>5. st' \in [Clients -> Maps \cup {Nil}] /\ \A d \in Clients \ {c} : st'[d] = st[d]
  BY <1>1, <1>3 DEF Types
<1>6. CASE call[c].op \in Reads /\ m = Nil /\ ReturnRead(c, TRUE, <<>>)
  <2>1. /\ call[c].op # "GetAll" => 0 \in May(c, KeyOf(c))
        /\ call[c].op = "GetAll" => \A k \in Keys : 0 \in May(c, k)
    BY <1>2, <1>3, <1>4, <1>6, NowFits
  <2>2. MayReturn(c, TRUE, <<>>)
    BY <2>1 DEF MayReturn
  <2> QED
    BY <1>1, <1>2, <1>5, <1>6, <2>2, ReturnReadStep
<1>7. CASE (call[c].op \in Writes \/ m # Nil) /\ Goto(c, next) /\ UNCHANGED <<cand, fits>>
  <2>1. /\ pc' = [pc EXCEPT ![c] = next] /\ UNCHANGED <<call, kind, result, before, cand, fits>>
    BY <1>7 DEF Goto
  <2>2. next \in {"encode", "read", "create", "write"}
        /\ (next = "encode" => call[c].op = "GetAll" /\ m # Nil)
        /\ (next = "read" => call[c].op \in {"Get", "HasKey"} /\ m # Nil)
        /\ (next = "create" => call[c].op \in Writes)
        /\ (next = "write" => call[c].op \in Writes /\ m # Nil)
    BY <1>2, <1>7 DEF Writes, Reads
  <2> HIDE DEF next
  <2>3. Types'
    BY <1>1, <1>5, <2>1, <2>2 DEF Types, MemoryLabels, Holds, Puts
  <2>4. /\ pc'[c] = next /\ st'[c] = m /\ call'[c] = call[c]
        /\ \A d \in Clients \ {c} : Same(d) /\ fits'[d] = fits[d] /\ before'[d] = before[d]
    BY <1>1, <2>1 DEF Types, Same
  <2>5. Private(c)
    BY <1>1, <2>1, <2>4 DEF Private
  <2>6. Control(c)'
    <3>1. /\ call[c].op # "none" /\ (call[c].op = "HasKey" => c \in TemplateClients)
          /\ call[c].op \in Writes => call[c].n \in 1..Len(kind)
          /\ pc'[c] \in MemoryLabels /\ pc'[c] \notin Rests
      BY <1>2, <2>2, <2>4 DEF Control, Reads, Writes, MemoryLabels, Holds, Rests
    <3> QED
      BY <1>2, <2>1, <2>2, <2>4, <3>1, NoCallFacts DEF Control, Rests
  <2>7. Found(c)'
    <3>1. \A k : May(c, k)' = May(c, k)
      BY <2>1 DEF May, StoreOf
    <3>2. next = "read" => content[m][KeyOf(c)] \in May(c, KeyOf(c))
      BY <1>2, <1>3, <1>4, <2>2, NowFits DEF Reads
    <3>3. next = "encode" => \A k \in Keys : content[m][k] \in May(c, k)
      BY <1>2, <1>3, <1>4, <2>2, NowFits DEF Reads
    <3>4. DOMAIN result'[c].val = {} /\ KeyOf(c)' = KeyOf(c)
      BY <1>2, <2>1, NoCallFacts DEF KeyOf
    <3> QED
      BY <1>1, <2>2, <2>4, <3>1, <3>2, <3>3, <3>4 DEF Found
  <2>8. /\ Putting(c)' => Putting(c)
        /\ pc'[c] \notin {"reread", "executed"}
        /\ \A x \in Slots : c \in Reading(x)' => c \in Reading(x)
    BY <1>1, <2>1, <2>2, <2>4 DEF Putting, Reading
  <2>9. pc'[c] \in Holds => StoreOf(c)' \in Stores /\ st'[c] = store[StoreOf(c)'] /\ st'[c] # Nil
    BY <1>3, <2>1, <2>2, <2>4 DEF Holds, StoreOf, m
  <2> QED
    BY <2>1, <2>3, <2>4, <2>5, <2>6, <2>7, <2>8, <2>9, PrivateStep
<1> QED
  BY <1>1, <1>6, <1>7

\* PutVal reads the new map back from the outer one.
LEMMA RereadStep ==
    ASSUME IInv, NEW c \in Clients, Reread(c), UNCHANGED <<hash, backend, refused>>
    PROVE  IInv'
<1> DEFINE m == store[StoreOf(c)]
<1> USE DEF IInv
<1>1. /\ pc[c] = "reread" /\ st' = [st EXCEPT ![c] = m] /\ pc' = [pc EXCEPT ![c] = "write"]
      /\ UNCHANGED <<call, kind, result, before, cand, fits, store, content, used>>
  BY DEF Reread, At, Goto
<1>2. /\ StoreOf(c) \in Stores /\ m \in used \cup {Nil} /\ m \in Maps \cup {Nil} /\ m # Nil
      /\ call[c].op \in Writes /\ backend = "memory"
  <2>1. StoreOf(c) \in Stores
    BY DEF Types, Slots, StoreOf
  <2> QED
    BY <1>1, <2>1 DEF Types, Heap, Control, RedisLabels, Rests
<1> HIDE DEF m
<1>3. Types'
  BY <1>1, <1>2 DEF Types, MemoryLabels, Holds, Puts
<1>4. /\ pc'[c] = "write" /\ st'[c] = m /\ call'[c] = call[c]
      /\ \A d \in Clients \ {c} : Same(d) /\ fits'[d] = fits[d] /\ before'[d] = before[d]
  BY <1>1 DEF Types, Same
<1>5. Private(c)
  BY <1>1, <1>4 DEF Private
<1>6. Control(c)'
  BY <1>1, <1>2, <1>4 DEF Control, MemoryLabels, Holds, Rests
<1>7. Found(c)'
  BY <1>4 DEF Found
<1>8. /\ Putting(c)' => Putting(c)
      /\ pc'[c] \notin {"reread", "executed"}
      /\ \A x \in Slots : c \in Reading(x)' => c \in Reading(x)
  BY <1>1, <1>4 DEF Putting, Reading
<1>9. StoreOf(c)' \in Stores /\ st'[c] = store[StoreOf(c)'] /\ st'[c] # Nil
  BY <1>1, <1>2, <1>4 DEF StoreOf, m
<1> QED
  BY <1>1, <1>3, <1>4, <1>5, <1>6, <1>7, <1>8, <1>9, PrivateStep

-----------------------------------------------------------------------------
(* The steps of puts. *)

\* A put begins: its value may be read from now on, and it will replace what no
\* put under way still writes.
LEMMA BeginPutStep ==
    ASSUME IInv, NEW c \in Clients, NEW op \in Writes, NEW s \in Slots, NEW k \in Kinds,
           BeginPut(c, op, s, k, Enter), \A d \in Clients : pc[d] # "done",
           UNCHANGED <<memory, hash, backend, refused>>
    PROVE  IInv'
<1> DEFINE n == Len(kind) + 1
           new == [op |-> op, slot |-> s, n |-> n]
           old == cand[s] \ Pending
<1> USE DEF IInv
<1>1. /\ pc[c] = "idle" /\ pc' = [pc EXCEPT ![c] = Enter] /\ n <= MaxPuts
      /\ call' = [call EXCEPT ![c] = new] /\ kind' = Append(kind, k)
      /\ cand' = [cand EXCEPT ![s] = cand[s] \cup {n}]
      /\ before' = [before EXCEPT ![c] = old]
      /\ fits' = [d \in Clients |-> IF d \in Reading(s) THEN [fits[d] EXCEPT ![s] = fits[d][s] \cup {n}]
                                                       ELSE fits[d]]
      /\ UNCHANGED <<result, store, content, used, st, hash, backend, refused>>
  BY DEF BeginPut, memory
<1>2. /\ Enter \in {"lookup", "send"} /\ (Enter = "lookup" <=> backend = "memory")
      /\ new.op = op /\ new.slot = s /\ new.n = n /\ op \notin Reads /\ op # "none"
  BY DEF Enter, Reads, Writes
<1>3. /\ n \in Nat /\ n \notin Puts /\ Len(kind') = n /\ kind' \in Seq(Kinds)
      /\ Puts \subseteq Puts' /\ n \in Puts' /\ n \in 1..Len(kind')
  BY <1>1 DEF Types, Puts
<1>4. new \in [op : Writes \cup Reads \cup {"none"}, slot : Slots, n : Nat]
  BY <1>3
<1>5. old \subseteq Puts /\ \A d \in Clients : Putting(d) => call[d].n \notin old
  BY DEF Types, Pending, Putting
<1> HIDE DEF n, new, old
<1>6. /\ cand' \in [Slots -> SUBSET Puts'] /\ fits' \in [Clients -> [Slots -> SUBSET Puts']]
      /\ before' \in [Clients -> SUBSET Puts']
  <2>1. \A x \in Slots : cand[x] \subseteq Puts' /\ \A d \in Clients : fits[d][x] \subseteq Puts'
    BY <1>3 DEF Types
  <2>2. \A d \in Clients : before[d] \subseteq Puts'
    BY <1>3 DEF Types
  <2>3. cand' \in [Slots -> SUBSET Puts']
    BY <1>1, <1>3, <2>1 DEF Types
  <2>4. before' \in [Clients -> SUBSET Puts']
    BY <1>1, <1>3, <1>5, <2>2 DEF Types
  <2>5. ASSUME NEW d \in Clients
        PROVE  (IF d \in Reading(s) THEN [fits[d] EXCEPT ![s] = fits[d][s] \cup {n}] ELSE fits[d])
                   \in [Slots -> SUBSET Puts']
    BY <1>3, <2>1 DEF Types
  <2> QED
    BY <1>1, <2>3, <2>4, <2>5
<1>7. Types'
  <2>1. pc' \in [Clients -> Rests \cup MemoryLabels \cup RedisLabels]
    BY <1>1, <1>2 DEF Types, Rests, MemoryLabels, RedisLabels
  <2>2. call' \in [Clients -> [op : Writes \cup Reads \cup {"none"}, slot : Slots, n : Nat]]
    BY <1>1, <1>4 DEF Types
  <2>3. content' \in [Maps -> [Keys -> Puts']] /\ hash' \in [Stores -> [Keys -> Puts']]
    BY <1>1, <1>3 DEF Types
  <2>4. /\ store' \in [Stores -> used' \cup {Nil}] /\ used' \subseteq Maps /\ st' \in [Clients -> Maps \cup {Nil}]
        /\ refused' \in [Clients -> Statuses \cup {Pass}] /\ result' = [d \in Clients |-> result'[d]]
    BY <1>1 DEF Types
  <2> QED
    BY <1>1, <1>3, <1>6, <2>1, <2>2, <2>3, <2>4 DEF Types
<1>8. /\ pc'[c] = Enter /\ call'[c] = new /\ before'[c] = old
      /\ \A d \in Clients \ {c} : Same(d) /\ before'[d] = before[d]
      /\ \A x \in Slots : cand[x] \subseteq cand'[x] /\ cand'[x] \subseteq cand[x] \cup {n}
      /\ n \in cand'[s] /\ \A x \in Slots \ {s} : cand'[x] = cand[x]
  BY <1>1 DEF Types, Same
<1>9. \A d \in Clients, x \in Slots : /\ fits[d][x] \subseteq fits'[d][x]
                                      /\ d \in Reading(s) => n \in fits'[d][s]
  BY <1>1 DEF Types
<1>10. ASSUME NEW d \in Clients PROVE Control(d)'
  <2>1. CASE d = c
    <3>1. result[c] = NoResult /\ refused[c] = Pass
      BY <1>1 DEF Control
    <3> QED
      BY <1>1, <1>2, <1>3, <1>8, <2>1, <3>1, NoCallFacts DEF Control, MemoryLabels, RedisLabels, Rests, Reads
  <2>2. CASE d # c
    BY <1>1, <1>8, <2>2, ControlKept DEF Types
  <2> QED
    BY <2>1, <2>2
<1>11. ASSUME NEW d \in Clients PROVE Found(d)'
  <2>1. CASE d = c
    BY <1>2, <1>8, <2>1 DEF Found
  <2>2. CASE d # c
    BY <1>1, <1>8, <1>9, <2>2, FoundKept
  <2> QED
    BY <2>1, <2>2
<1>12. Register'
  <2>1. \A x \in Slots : Now(x)' = Now(x) /\ Now(x)' \in cand'[x]
    BY <1>1, <1>8 DEF Now, Register
  <2>2. ASSUME NEW d \in Clients, Putting(d)'
        PROVE  call'[d].n \in cand'[call'[d].slot] /\ \A e \in Clients : call'[d].n \notin before'[e]
    <3>1. CASE d = c
      <4>1. \A e \in Clients : before'[e] \subseteq Puts
        BY <1>5, <1>8 DEF Types
      <4> QED
        BY <1>2, <1>3, <1>8, <3>1, <4>1
    <3>2. CASE d # c
      <4>1. Putting(d) /\ call'[d] = call[d] /\ call[d].slot \in Slots
        BY <1>8, <2>2, <3>2 DEF Putting, Same, Types
      <4>2. call[d].n \in cand[call[d].slot] /\ \A e \in Clients : call[d].n \notin before[e]
        BY <4>1 DEF Register
      <4> QED
        BY <1>5, <1>8, <4>1, <4>2
    <3> QED
      BY <3>1, <3>2
  <2>3. ASSUME NEW d \in Clients, pc'[d] = "executed" PROVE Now(call[d].slot)' \notin before'[d]
    <3>1. d # c
      BY <1>2, <1>8, <2>3
    <3>2. pc[d] = "executed" /\ call'[d] = call[d] /\ call[d].slot \in Slots /\ before'[d] = before[d]
      BY <1>8, <2>3, <3>1 DEF Same, Types
    <3>3. Now(call[d].slot) \notin before[d]
      BY <3>2 DEF Register
    <3>4. Now(call[d].slot)' = Now(call[d].slot)
      BY <2>1, <3>2
    <3> QED
      BY <3>2, <3>3, <3>4
  <2>4. ASSUME NEW x \in Slots, NEW d \in Reading(x)' PROVE cand'[x] \subseteq fits'[d][x]
    <3>1. d \in Clients /\ d # c
      BY <1>2, <1>8 DEF Reading
    <3>2. d \in Reading(x)
      BY <1>8, <3>1 DEF Reading, Same
    <3>3. cand[x] \subseteq fits[d][x]
      BY <3>2 DEF Register
    <3> QED
      BY <1>8, <1>9, <3>1, <3>2, <3>3
  <2> QED
    BY <2>1, <2>2, <2>3, <2>4 DEF Register
<1>13. Heap'
  <2>1. (\A x \in Stores : store[x] \in used \cup {Nil}) /\ Nil \notin used
    BY MapsAssumption DEF Types
  <2>2. pc'[c] \notin Holds \cup {"reread"}
    BY <1>2, <1>8 DEF Holds
  <2>3. \A d \in Clients : /\ pc'[d] = "reread" => pc[d] = "reread" /\ call'[d] = call[d]
                           /\ pc'[d] \in Holds => pc[d] \in Holds /\ st'[d] = st[d] /\ call'[d] = call[d]
    BY <1>8, <2>2 DEF Same
  <2> QED
    BY <1>1, <2>1, <2>3, HeapKept
<1> QED
  BY <1>1, <1>7, <1>10, <1>11, <1>12, <1>13 DEF RedisInit

\* A put stores a new map, perhaps in place of one that another put has stored.
LEMMA CreateStep ==
    ASSUME IInv, NEW c \in Clients, Create(c), UNCHANGED <<hash, backend, refused>>
    PROVE  IInv'
<1> DEFINE s == StoreOf(c)
           lost == IF store[s] = Nil THEN {} ELSE {s} \X Keys
<1> USE DEF IInv
<1>1. /\ pc[c] = "create" /\ pc' = [pc EXCEPT ![c] = "reread"]
      /\ cand' = [x \in Slots |-> IF x \in lost THEN cand[x] \cup {0} ELSE cand[x]]
      /\ fits' = [d \in Clients |-> [x \in Slots |-> IF x \in lost /\ d \in Reading(x)
                                                     THEN fits[d][x] \cup {0} ELSE fits[d][x]]]
      /\ UNCHANGED <<call, kind, result, before, content, st>>
  BY DEF Create, At, Goto
<1>2. PICK m \in Maps \ used : used' = used \cup {m} /\ store' = [store EXCEPT ![s] = m]
  BY DEF Create
<1>3. /\ s \in Stores /\ StoreOf(c)' = s /\ backend = "memory" /\ call[c].op \in Writes /\ m # Nil /\ Nil \notin used
      /\ 0 \in Puts
  <2>1. s \in Stores /\ StoreOf(c)' = s
    BY <1>1 DEF Types, Slots, StoreOf
  <2>2. backend = "memory" /\ call[c].op \in Writes
    BY <1>1 DEF Control, RedisLabels, Rests
  <2>3. 0 \in Puts
    BY DEF Puts, Types
  <2> QED
    BY <2>1, <2>2, <2>3, MapsAssumption DEF Types
<1>4. \A x \in Slots : x \in lost <=> store[s] # Nil /\ x[1] = s
  BY DEF Slots
<1> HIDE DEF s, lost
<1>5. /\ store' \in [Stores -> used' \cup {Nil}] /\ used' \subseteq Maps
      /\ store'[s] = m /\ \A t \in Stores \ {s} : store'[t] = store[t]
  BY <1>2, <1>3 DEF Types
<1>6. Types'
  <2>1. cand' \in [Slots -> SUBSET Puts]
    BY <1>1, <1>3 DEF Types
  <2>2. fits' \in [Clients -> [Slots -> SUBSET Puts]]
    BY <1>1, <1>3 DEF Types
  <2>3. pc' \in [Clients -> Rests \cup MemoryLabels \cup RedisLabels]
    BY <1>1 DEF Types, MemoryLabels
  <2>4. Puts' = Puts
    BY <1>1 DEF Puts
  <2> QED
    BY <1>1, <1>5, <2>1, <2>2, <2>3, <2>4 DEF Types
<1>7. /\ pc'[c] = "reread" /\ \A d \in Clients \ {c} : Same(d)
      /\ \A x \in Slots : cand[x] \subseteq cand'[x] /\ cand'[x] \subseteq cand[x] \cup {0}
      /\ \A d \in Clients, x \in Slots : fits[d][x] \subseteq fits'[d][x]
      /\ \A d \in Clients, x \in Slots : d \in Reading(x) /\ cand[x] \subseteq fits[d][x] => cand'[x] \subseteq fits'[d][x]
      /\ \A x \in Slots : x[1] = s /\ store[s] # Nil => 0 \in cand'[x]
  BY <1>1, <1>4 DEF Types, Same
<1>8. ASSUME NEW d \in Clients PROVE Control(d)'
  <2>1. CASE d = c
    BY <1>1, <1>3, <1>7, <2>1 DEF Control, MemoryLabels, Rests
  <2>2. CASE d # c
    BY <1>1, <1>7, <2>2, ControlKept DEF Types
  <2> QED
    BY <2>1, <2>2
<1>9. ASSUME NEW d \in Clients PROVE Found(d)'
  <2>1. CASE d = c
    BY <1>7, <2>1 DEF Found
  <2>2. CASE d # c
    BY <1>1, <1>7, <2>2, FoundKept
  <2> QED
    BY <2>1, <2>2
<1>10. Register'
  <2>1. ASSUME NEW x \in Slots PROVE Now(x)' \in cand'[x]
    <3>1. x[1] \in Stores /\ x[2] \in Keys /\ Now(x) \in cand[x]
      BY DEF Slots, Register
    <3>2. CASE x[1] = s
      <4>1. Now(x)' = 0
        BY <1>1, <1>2, <1>3, <1>5, <3>1, <3>2 DEF Now, Heap
      <4>2. store[s] = Nil => Now(x) = 0
        BY <1>3, <3>2 DEF Now
      <4> QED
        BY <1>7, <3>1, <3>2, <4>1, <4>2
    <3>3. CASE x[1] # s
      <4>1. Now(x)' = Now(x)
        BY <1>1, <1>5, <3>1, <3>3 DEF Now
      <4> QED
        BY <1>7, <3>1, <4>1
    <3> QED
      BY <3>2, <3>3
  <2>2. ASSUME NEW d \in Clients, Putting(d)'
        PROVE  call'[d].n \in cand'[call'[d].slot] /\ \A e \in Clients : call'[d].n \notin before'[e]
    <3>1. Putting(d) /\ call[d].slot \in Slots
      BY <1>1, <1>7, <2>2 DEF Putting, Same, Types
    <3>2. call[d].n \in cand[call[d].slot] /\ \A e \in Clients : call[d].n \notin before[e]
      BY <3>1 DEF Register
    <3> QED
      BY <1>1, <1>7, <3>1, <3>2
  <2>3. \A d \in Clients : pc'[d] # "executed"
    BY <1>3, <1>8 DEF Control, Rests, MemoryLabels, Holds
  <2>4. ASSUME NEW x \in Slots, NEW d \in Reading(x)' PROVE cand'[x] \subseteq fits'[d][x]
    <3>1. d \in Clients /\ d # c
      BY <1>1, <1>3 DEF Reading, Reads, Writes
    <3>2. d \in Reading(x)
      BY <1>7, <3>1 DEF Reading, Same
    <3>3. cand[x] \subseteq fits[d][x]
      BY <3>2 DEF Register
    <3> QED
      BY <1>7, <3>1, <3>2, <3>3
  <2> QED
    BY <2>1, <2>2, <2>3, <2>4 DEF Register
<1>11. Heap'
  <2>1. \A o \in Maps \ used', k \in Keys : content'[o][k] = 0
    BY <1>1, <1>2 DEF Heap
  <2>2. ASSUME NEW t \in Stores, NEW u \in Stores, store'[t] = store'[u], store'[t] # Nil PROVE t = u
    BY <1>2, <1>5, <2>2 DEF Heap, Types
  <2>3. ASSUME NEW d \in Clients, pc'[d] = "reread" PROVE store'[StoreOf(d)'] # Nil
    <3>1. CASE d = c
      BY <1>3, <1>5, <3>1
    <3>2. CASE d # c
      <4>1. StoreOf(d)' = StoreOf(d) /\ StoreOf(d) \in Stores /\ store[StoreOf(d)] # Nil
        BY <1>1, <1>7, <2>3, <3>2 DEF StoreOf, Same, Types, Slots, Heap
      <4> QED
        BY <1>3, <1>5, <4>1
    <3> QED
      BY <3>1, <3>2
  <2>4. ASSUME NEW d \in Clients, pc'[d] \in Holds
        PROVE  /\ st'[d] \in used'
               /\ \A t \in Stores : st'[d] = store'[t] => t = StoreOf(d)'
               /\ \A e \in Clients : pc'[e] \in Holds /\ st'[d] = st'[e] => StoreOf(d)' = StoreOf(e)'
    <3>1. \A e \in Clients : pc'[e] \in Holds => pc[e] \in Holds
      BY <1>7 DEF Holds, Same
    <3>2. /\ st[d] \in used
          /\ \A t \in Stores : st[d] = store[t] => t = StoreOf(d)
          /\ \A e \in Clients : pc[e] \in Holds /\ st[d] = st[e] => StoreOf(d) = StoreOf(e)
      BY <2>4, <3>1 DEF Heap
    <3>3. st' = st /\ \A e \in Clients : StoreOf(e)' = StoreOf(e)
      BY <1>1 DEF StoreOf
    <3>4. \A t \in Stores : st[d] = store'[t] => t = StoreOf(d)
      BY <1>2, <1>5, <3>2
    <3> QED
      BY <1>2, <3>1, <3>2, <3>3, <3>4
  <2> QED
    BY <2>1, <2>2, <2>3, <2>4 DEF Heap
<1> QED
  BY <1>6, <1>8, <1>9, <1>10, <1>11 DEF RedisInit

\* A put ends and replaces the values it found: no value that a put under way will
\* write is among them.
LEMMA ReturnPutStep ==
    ASSUME IInv, NEW c \in Clients, Putting(c), NEW replaces \in BOOLEAN, ReturnPut(c, replaces),
           UNCHANGED <<store, used, st, backend, hash, refused>>, content' \in [Maps -> [Keys -> Puts]],
           \A m \in Maps \ used : content'[m] = content[m],
           \A x \in Slots \ {call[c].slot} : Now(x)' = Now(x),
           \A x \in {call[c].slot} : Now(x)' \in cand[x] /\ (replaces => Now(x)' \notin before[c]),
           \A d \in Clients \ {c} : pc[d] = "executed" => Now(call[d].slot)' = Now(call[d].slot),
           \A d \in Clients \ {c} : Found(d)'
    PROVE  IInv'
<1> DEFINE s == call[c].slot
<1> USE DEF IInv
<1>1. /\ pc' = [pc EXCEPT ![c] = "done"] /\ before' = [before EXCEPT ![c] = {}]
      /\ cand' = IF replaces THEN [cand EXCEPT ![s] = cand[s] \ before[c]] ELSE cand
      /\ UNCHANGED <<call, kind, result, fits>>
  BY DEF ReturnPut
<1>2. s \in Slots /\ call[c].op \in Writes /\ call[c].n \in cand[s] /\ pc[c] # "done" /\ pc[c] # "idle"
  BY NoCallFacts DEF Putting, Types, Register, Control
<1>3. Types'
  <2>1. cand' \in [Slots -> SUBSET Puts]
    BY <1>1, <1>2 DEF Types
  <2>2. pc' \in [Clients -> Rests \cup MemoryLabels \cup RedisLabels] /\ before' \in [Clients -> SUBSET Puts]
    BY <1>1 DEF Types, Rests
  <2>3. Puts' = Puts
    BY <1>1 DEF Puts
  <2> QED
    BY <1>1, <2>1, <2>2, <2>3 DEF Types
<1>4. /\ pc'[c] = "done" /\ before'[c] = {} /\ \A d \in Clients : before'[d] \subseteq before[d]
      /\ \A d \in Clients \ {c} : Same(d)
      /\ \A x \in Slots : cand'[x] \subseteq cand[x] /\ cand[x] \ before[c] \subseteq cand'[x]
      /\ \A x \in Slots \ {s} : cand'[x] = cand[x]
      /\ ~replaces => cand' = cand
  BY <1>1, <1>2 DEF Types, Same
<1>5. ASSUME NEW d \in Clients PROVE Control(d)'
  <2>1. CASE d = c
    <3>1. refused[c] = Pass /\ call[c].op \notin {"none", "HasKey"}
      BY <1>2 DEF Control, Writes
    <3> QED
      BY <1>1, <1>2, <1>4, <2>1, <3>1 DEF Control, Rests
  <2>2. CASE d # c
    BY <1>1, <1>4, <2>2, ControlKept DEF Types
  <2> QED
    BY <2>1, <2>2
<1>6. Found(c)'
  BY <1>1, <1>2, <1>4 DEF Found, Writes
<1>7. Register'
  <2>1. \A x \in Slots : Now(x)' \in cand'[x]
    <3>1. \A x \in Slots : Now(x) \in cand[x]
      BY DEF Register
    <3>2. \A x \in Slots \ {s} : Now(x)' \in cand'[x]
      BY <1>4, <3>1
    <3>3. \A x \in {s} : Now(x)' \in cand'[x]
      BY <1>2, <1>4
    <3> QED
      BY <3>2, <3>3
  <2>2. ASSUME NEW d \in Clients, Putting(d)'
        PROVE  call'[d].n \in cand'[call'[d].slot] /\ \A e \in Clients : call'[d].n \notin before'[e]
    <3>1. Putting(d) /\ call[d].slot \in Slots
      BY <1>1, <1>4, <2>2 DEF Putting, Same, Types
    <3>2. call[d].n \in cand[call[d].slot] /\ \A e \in Clients : call[d].n \notin before[e]
      BY <3>1 DEF Register
    <3> QED
      BY <1>1, <1>4, <3>1, <3>2
  <2>3. ASSUME NEW d \in Clients, pc'[d] = "executed" PROVE Now(call[d].slot)' \notin before'[d]
    <3>1. d # c /\ pc[d] = "executed"
      BY <1>4, <2>3 DEF Same
    <3>2. Now(call[d].slot) \notin before[d]
      BY <3>1 DEF Register
    <3>3. Now(call[d].slot)' = Now(call[d].slot)
      BY <3>1
    <3> QED
      BY <1>4, <3>2, <3>3
  <2>4. ASSUME NEW x \in Slots, NEW d \in Reading(x)' PROVE cand'[x] \subseteq fits'[d][x]
    <3>1. d \in Clients /\ d # c
      BY <1>4 DEF Reading
    <3>2. d \in Reading(x)
      BY <1>4, <3>1 DEF Reading, Same
    <3>3. cand[x] \subseteq fits[d][x]
      BY <3>2 DEF Register
    <3> QED
      BY <1>1, <1>4, <3>3
  <2> QED
    BY <2>1, <2>2, <2>3, <2>4 DEF Register
<1>8. Heap'
  <2>1. (\A x \in Stores : store[x] \in used \cup {Nil}) /\ Nil \notin used
    BY MapsAssumption DEF Types
  <2>2. \A d \in Clients : /\ pc'[d] = "reread" => pc[d] = "reread" /\ call'[d] = call[d]
                           /\ pc'[d] \in Holds => pc[d] \in Holds /\ st'[d] = st[d] /\ call'[d] = call[d]
    BY <1>1, <1>4 DEF Same, Holds
  <2> QED
    BY <2>1, <2>2, HeapKept
<1> QED
  BY <1>3, <1>5, <1>6, <1>7, <1>8 DEF RedisInit

\* PutVal writes its value to the map it holds.
LEMMA WriteStep ==
    ASSUME IInv, NEW c \in Clients, Write(c), UNCHANGED <<hash, backend, refused>>
    PROVE  IInv'
<1> DEFINE s == call[c].slot
           m == st[c]
           n == call[c].n
           k == KeyOf(c)
           replaces == m = store[StoreOf(c)]
<1> USE DEF IInv
<1>1. /\ pc[c] = "write" /\ content' = [content EXCEPT ![m] = [content[m] EXCEPT ![k] = n]]
      /\ ReturnPut(c, replaces) /\ UNCHANGED <<store, used, st, call, fits, kind>>
  BY DEF Write, At, ReturnPut
<1>2. /\ Putting(c) /\ backend = "memory" /\ n \in Puts /\ m \in used /\ m \in Maps /\ n \in cand[s]
      /\ \A d \in Clients : n \notin before[d]
  <2>1. Putting(c) /\ backend = "memory" /\ n \in 1..Len(kind)
    BY <1>1 DEF Control, RedisLabels, Rests, Putting
  <2>2. n \in Puts
    BY <2>1 DEF Puts
  <2>3. m \in used
    BY <1>1 DEF Heap, Holds
  <2>4. n \in cand[s] /\ \A d \in Clients : n \notin before[d]
    BY <2>1 DEF Register
  <2> QED
    BY <2>1, <2>2, <2>3, <2>4 DEF Types
<1>3. s \in Slots /\ s = <<StoreOf(c), k>> /\ StoreOf(c) \in Stores /\ k \in Keys
  BY DEF Types, Slots, StoreOf, KeyOf
<1>4. /\ m # Nil /\ \A t \in Stores : m = store[t] => t = StoreOf(c)
      /\ \A d \in Clients : pc[d] \in Holds /\ st[d] = m => StoreOf(d) = StoreOf(c)
  BY <1>1, <1>2, MapsAssumption DEF Heap, Holds
<1> HIDE DEF s, m, n, k
<1>5. /\ content' \in [Maps -> [Keys -> Puts]]
      /\ \A o \in Maps \ {m} : content'[o] = content[o]
      /\ content'[m][k] = n /\ \A j \in Keys \ {k} : content'[m][j] = content[m][j]
  BY <1>1, <1>2, <1>3 DEF Types
<1>6. \A x \in Slots : Now(x)' = IF x = s /\ replaces THEN n ELSE Now(x)
  <2> SUFFICES ASSUME NEW x \in Slots PROVE Now(x)' = IF x = s /\ replaces THEN n ELSE Now(x)
    OBVIOUS
  <2>1. x[1] \in Stores /\ x[2] \in Keys /\ x = <<x[1], x[2]>> /\ store[x[1]] \in Maps \cup {Nil}
    BY DEF Slots, Types
  <2>2. CASE store[x[1]] = m
    <3>1. x[1] = StoreOf(c) /\ (x = s <=> x[2] = k) /\ replaces
      BY <1>3, <1>4, <2>1, <2>2
    <3>2. Now(x)' = content'[m][x[2]] /\ Now(x) = content[m][x[2]]
      BY <1>1, <1>2, <1>4, <2>2 DEF Now
    <3> QED
      BY <1>5, <2>1, <3>1, <3>2
  <2>3. CASE store[x[1]] # m
    <3>1. ~(x = s /\ replaces)
      BY <1>3, <2>1, <2>3
    <3>2. Now(x)' = Now(x)
      BY <1>1, <1>2, <1>5, <2>1, <2>3 DEF Now
    <3> QED
      BY <3>1, <3>2
  <2> QED
    BY <2>2, <2>3
<1>7. ASSUME NEW d \in Clients \ {c} PROVE Found(d)'
  <2>1. Same(d)
    BY <1>1 DEF Same, ReturnPut, Types
  <2>2. ASSUME pc[d] \in Holds, NEW j \in Keys, call[d].op \in Reads,
               call[d].op # "GetAll" => j = KeyOf(d)
        PROVE  content'[st[d]][j] \in {content[st[d]][j]} \cup May(d, j)
    <3>1. st[d] \in Maps
      BY <2>2 DEF Heap, Types
    <3>2. CASE st[d] # m \/ j # k
      BY <1>5, <2>2, <3>1, <3>2
    <3>3. CASE st[d] = m /\ j = k
      <4>1. StoreOf(d) = StoreOf(c) /\ s = <<StoreOf(d), j>>
        BY <1>3, <1>4, <2>2, <3>3
      <4>2. call[d].slot \in Slots /\ call[d].slot = <<StoreOf(d), KeyOf(d)>>
        BY DEF Types, Slots, StoreOf, KeyOf
      <4>3. s \in About(call[d].op, call[d].slot)
        BY <1>3, <2>2, <4>1, <4>2 DEF About
      <4>4. d \in Reading(s)
        BY <2>2, <4>3 DEF Reading, Holds
      <4>5. n \in fits[d][s]
        BY <1>2, <1>3, <4>4 DEF Register
      <4> QED
        BY <1>5, <3>3, <4>1, <4>5 DEF May
    <3> QED
      BY <3>2, <3>3
  <2>3. KeyOf(d) \in Keys
    BY DEF Types, Slots, KeyOf
  <2>4. pc[d] = "read" => content'[st[d]][KeyOf(d)] \in {content[st[d]][KeyOf(d)]} \cup May(d, KeyOf(d))
    BY <2>2, <2>3 DEF Control, Holds, Reads
  <2>5. pc[d] = "encode" => \A j \in Keys : content'[st[d]][j] \in {content[st[d]][j]} \cup May(d, j)
    BY <2>2 DEF Control, Holds, Reads
  <2> QED
    BY <1>1, <2>1, <2>4, <2>5, FoundKept
<1>8. \A d \in Clients : pc[d] # "executed"
  BY <1>2 DEF Control, Rests, MemoryLabels, Holds
<1>9. \A o \in Maps \ used : content'[o] = content[o]
  BY <1>2, <1>5
<1>10. \A x \in {call[c].slot} : Now(x)' \in cand[x] /\ (replaces => Now(x)' \notin before[c])
  BY <1>2, <1>3, <1>6 DEF s, Register
<1>11. \A x \in Slots \ {call[c].slot} : Now(x)' = Now(x)
  BY <1>6 DEF s
<1> QED
  BY <1>1, <1>2, <1>5, <1>7, <1>8, <1>9, <1>10, <1>11, ReturnPutStep

\* The server executes HSET, once more perhaps after other puts.
LEMMA HSetStep ==
    ASSUME IInv, NEW c \in Clients, HSet(c), UNCHANGED <<memory, backend, refused>>
    PROVE  IInv'
<1> DEFINE s == call[c].slot
           n == call[c].n
           h == [hash[s[1]] EXCEPT ![s[2]] = n]
<1> USE DEF IInv
<1>1. /\ pc[c] \in RedisLabels /\ call[c].op \in Writes
      /\ hash' = [hash EXCEPT ![s[1]] = h] /\ pc' = [pc EXCEPT ![c] = "executed"]
      /\ UNCHANGED <<call, kind, result, cand, before, fits, store, content, used, st>>
  BY DEF HSet, Sent, RedisLabels, memory
<1>2. /\ Putting(c) /\ backend = "redis" /\ n \in 1..Len(kind) /\ refused[c] = Pass /\ result[c] = NoResult
  BY <1>1 DEF Control, RedisLabels, MemoryLabels, Holds, Rests, Putting
<1>3. n \in cand[s] /\ (\A d \in Clients : n \notin before[d]) /\ n \in Puts
  BY <1>2 DEF Register, Puts
<1>4. s \in Slots /\ s[1] \in Stores /\ s[2] \in Keys /\ s = <<s[1], s[2]>>
  BY DEF Types, Slots
<1> HIDE DEF s, n
<1>5. h \in [Keys -> Puts] /\ h[s[2]] = n /\ \A k \in Keys \ {s[2]} : h[k] = hash[s[1]][k]
  BY <1>3, <1>4 DEF Types
<1> HIDE DEF h
<1>6. hash' \in [Stores -> [Keys -> Puts]] /\ hash'[s[1]] = h /\ \A t \in Stores \ {s[1]} : hash'[t] = hash[t]
  BY <1>1, <1>4, <1>5 DEF Types
<1>7. Types'
  <2>1. pc' \in [Clients -> Rests \cup MemoryLabels \cup RedisLabels]
    BY <1>1 DEF Types, RedisLabels
  <2>2. Puts' = Puts
    BY <1>1 DEF Puts
  <2> QED
    BY <1>1, <1>6, <2>1, <2>2 DEF Types
<1>8. /\ pc'[c] = "executed" /\ \A d \in Clients \ {c} : Same(d)
  BY <1>1 DEF Types, Same
<1>9. \A x \in Slots : Now(x)' = IF x = s THEN n ELSE Now(x)
  <2> SUFFICES ASSUME NEW x \in Slots PROVE Now(x)' = IF x = s THEN n ELSE Now(x)
    OBVIOUS
  <2>1. x[1] \in Stores /\ x[2] \in Keys /\ x = <<x[1], x[2]>>
    BY DEF Slots
  <2>2. Now(x)' = hash'[x[1]][x[2]] /\ Now(x) = hash[x[1]][x[2]]
    BY <1>2 DEF Now
  <2> QED
    BY <1>4, <1>5, <1>6, <2>1, <2>2
<1>10. ASSUME NEW d \in Clients PROVE Control(d)'
  <2>1. CASE d = c
    <3>1. call[c].op \notin {"none", "HasKey"}
      BY <1>1 DEF Writes
    <3> QED
      BY <1>1, <1>2, <1>8, <2>1, <3>1 DEF Control, RedisLabels, Rests
  <2>2. CASE d # c
    BY <1>1, <1>8, <2>2, ControlKept DEF Types
  <2> QED
    BY <2>1, <2>2
<1>11. ASSUME NEW d \in Clients PROVE Found(d)'
  <2>1. CASE d = c
    BY <1>8, <2>1 DEF Found
  <2>2. CASE d # c
    BY <1>1, <1>8, <2>2, FoundKept
  <2> QED
    BY <2>1, <2>2
<1>12. Register'
  <2>1. \A x \in Slots : Now(x)' \in cand'[x]
    BY <1>1, <1>3, <1>9 DEF Register
  <2>2. ASSUME NEW d \in Clients, Putting(d)'
        PROVE  call'[d].n \in cand'[call'[d].slot] /\ \A e \in Clients : call'[d].n \notin before'[e]
    <3>1. Putting(d)
      BY <1>1, <1>2, <1>8, <2>2 DEF Putting, Same
    <3>2. call[d].n \in cand[call[d].slot] /\ \A e \in Clients : call[d].n \notin before[e]
      BY <3>1 DEF Register
    <3> QED
      BY <1>1, <3>2
  <2>3. ASSUME NEW d \in Clients, pc'[d] = "executed" PROVE Now(call[d].slot)' \notin before'[d]
    <3>1. call[d].slot \in Slots /\ call'[d].slot = call[d].slot /\ before'[d] = before[d]
      BY <1>1 DEF Types
    <3>2. CASE call[d].slot = s
      <4>1. Now(call[d].slot)' = n
        BY <1>9, <3>1, <3>2
      <4> QED
        BY <1>3, <3>1, <4>1
    <3>3. CASE call[d].slot # s
      <4>1. Now(call[d].slot)' = Now(call[d].slot)
        BY <1>9, <3>1, <3>3
      <4>2. pc[d] = "executed"
        BY <1>8, <2>3, <3>3 DEF Same, s
      <4>3. Now(call[d].slot) \notin before[d]
        BY <4>2 DEF Register
      <4> QED
        BY <3>1, <4>1, <4>3
    <3> QED
      BY <3>2, <3>3
  <2>4. ASSUME NEW x \in Slots, NEW d \in Reading(x)' PROVE cand'[x] \subseteq fits'[d][x]
    <3>1. d \in Clients /\ d # c
      BY <1>1 DEF Reading, Reads, Writes
    <3>2. d \in Reading(x)
      BY <1>8, <3>1 DEF Reading, Same
    <3> QED
      BY <1>1, <3>2 DEF Register
  <2> QED
    BY <2>1, <2>2, <2>3, <2>4 DEF Register
<1>13. Heap'
  <2>1. (\A x \in Stores : store[x] \in used \cup {Nil}) /\ Nil \notin used
    BY MapsAssumption DEF Types
  <2>2. \A d \in Clients : /\ pc'[d] = "reread" => pc[d] = "reread" /\ call'[d] = call[d]
                           /\ pc'[d] \in Holds => pc[d] \in Holds /\ st'[d] = st[d] /\ call'[d] = call[d]
    BY <1>1, <1>8 DEF Same, Holds
  <2> QED
    BY <1>1, <2>1, <2>2, HeapKept
<1> QED
  BY <1>2, <1>7, <1>10, <1>11, <1>12, <1>13 DEF RedisInit

\* The answer of HSET reaches the client that sent it.
LEMMA HSetReplyStep ==
    ASSUME IInv, NEW c \in Clients, HSetReply(c), UNCHANGED <<memory, backend, refused>>
    PROVE  IInv'
<1> USE DEF IInv
<1>1. /\ pc[c] = "executed" /\ ReturnPut(c, TRUE) /\ call' = call
      /\ UNCHANGED <<store, content, used, st, hash, backend>>
  BY DEF HSetReply, memory, ReturnPut
<1>2. Putting(c) /\ call[c].slot \in Slots
  BY <1>1 DEF Control, Putting, Types
<1>3. \A x : Now(x)' = Now(x)
  BY <1>1 DEF Now
<1>4. \A x \in {call[c].slot} : Now(x)' \in cand[x] /\ Now(x)' \notin before[c]
  BY <1>1, <1>2, <1>3 DEF Register
<1>5. \A d \in Clients : Now(call[d].slot)' = Now(call[d].slot)
  BY <1>1 DEF Now
<1>6. ASSUME NEW d \in Clients \ {c} PROVE Found(d)'
  <2>1. Same(d) /\ kind' = kind /\ fits' = fits
    BY <1>1 DEF ReturnPut, Same, Types
  <2> QED
    BY <1>1, <2>1, FoundKept
<1>7. content' \in [Maps -> [Keys -> Puts]]
  BY <1>1 DEF Types
<1> QED
  BY <1>1, <1>2, <1>3, <1>4, <1>5, <1>6, <1>7, ReturnPutStep

-----------------------------------------------------------------------------
(* The specification. *)

\* The state of a process that has just started, or has stopped.
Fresh ==
    /\ CallsInit /\ RedisInit
    /\ store = [s \in Stores |-> Nil] /\ content = [m \in Maps |-> [k \in Keys |-> 0]]
    /\ used = {} /\ st = [c \in Clients |-> Nil]
    /\ backend \in {"memory", "redis"} /\ refused = [c \in Clients |-> Pass]

\* The invariant holds of a storage nothing was put into.
LEMMA FreshInv == Fresh => IInv
<1> SUFFICES ASSUME Fresh PROVE IInv
  OBVIOUS
<1> USE DEF Fresh
<1>1. /\ Len(kind) = 0 /\ 0 \in Puts /\ kind \in Seq(Kinds) /\ MaxPuts \in Nat
  BY CallsAssumption DEF CallsInit, Puts
<1>2. Types
  <2>1. NoFits \in [Slots -> SUBSET Puts]
    BY DEF NoFits
  <2> QED
    BY <1>1, <2>1, NoCallFacts DEF Types, CallsInit, RedisInit, Rests
<1>3. ASSUME NEW c \in Clients
      PROVE  pc[c] = "idle" /\ call[c] = NoCall /\ result[c] = NoResult /\ refused[c] = Pass
  BY DEF CallsInit
<1>4. ASSUME NEW c \in Clients PROVE Control(c) /\ Found(c)
  BY <1>3, NoCallFacts DEF Control, Found, Rests, Writes
<1>5. Register
  <2>1. \A s \in Slots : Now(s) = 0 /\ cand[s] = {0}
    BY DEF Now, Slots, CallsInit, RedisInit
  <2>2. \A c \in Clients : ~Putting(c) /\ pc[c] # "executed" /\ \A s \in Slots : c \notin Reading(s)
    BY <1>3, NoCallFacts DEF Putting, Reading, Writes, Reads
  <2>3. \A s \in Slots : \A d \in Reading(s) : d \in Clients
    BY DEF Reading
  <2> QED
    BY <2>1, <2>2, <2>3 DEF Register
<1>6. Heap
  BY <1>3 DEF Heap, Holds
<1> QED
  BY <1>2, <1>4, <1>5, <1>6 DEF IInv

\* The invariant holds initially, for both storages.
LEMMA InitInv == Init => IInv
  BY FreshInv DEF Init, MemoryInit, Fresh

\* The runtime stops the process: only the in-memory storage has such accesses.
LEMMA CrashStep ==
    ASSUME IInv, ConcurrentMapAccess, \A c \in Clients : pc[c] # "done",
           UNCHANGED <<hash, backend, refused>>
    PROVE  IInv'
<1> USE DEF IInv
<1>1. PICK c \in Clients : pc[c] \in {"create", "write"}
  BY DEF ConcurrentMapAccess
<1>2. backend = "memory" /\ RedisInit
  BY <1>1 DEF Control, RedisLabels, Rests
<1>3. refused = [d \in Clients |-> Pass]
  BY DEF Control, Types
<1>4. CallsInit'
  BY DEF ConcurrentMapAccess, CallsInit
<1>5. Fresh'
  BY <1>2, <1>3, <1>4 DEF ConcurrentMapAccess, Fresh, RedisInit
<1>6. (Fresh => IInv)'
  BY FreshInv, PTL
<1> QED
  BY <1>5, <1>6

\* The values a put request carries are of the kinds the storage knows.
LEMMA KindsOfPuts == \A op \in HttpOps \cap Writes : Accepted[op] \subseteq Kinds
  BY DEF Accepted, AcceptedKinds, Kinds

\* An accepted http request begins its call of the storage.
LEMMA RequestStep ==
    ASSUME IInv, NEW c \in Clients, Request(c), \A d \in Clients : pc[d] # "done" PROVE IInv'
<1>1. PICK s \in Slots :
          \/ BeginRead(c, "Get", s, Enter)
          \/ s[2] = AnyKey /\ BeginRead(c, "GetAll", s, Enter)
          \/ \E op \in HttpOps \cap Writes : \E k \in Accepted[op] : BeginPut(c, op, s, k, Enter)
  BY DEF Request
<1>2. UNCHANGED <<memory, hash, backend, refused>>
  BY DEF Request
<1>3. CASE \E op \in {"Get", "GetAll"} : BeginRead(c, op, s, Enter)
  <2>1. PICK op \in {"Get", "GetAll"} : BeginRead(c, op, s, Enter)
    BY <1>3
  <2>2. op \in Reads /\ op # "HasKey"
    BY DEF Reads
  <2> QED
    BY <1>2, <2>1, <2>2, BeginReadStep
<1>4. CASE \E op \in HttpOps \cap Writes : \E k \in Accepted[op] : BeginPut(c, op, s, k, Enter)
  <2>1. PICK op \in HttpOps \cap Writes : \E k \in Accepted[op] : BeginPut(c, op, s, k, Enter)
    BY <1>4
  <2>2. PICK k \in Accepted[op] : BeginPut(c, op, s, k, Enter)
    BY <2>1
  <2>3. op \in Writes /\ k \in Kinds
    BY <2>1, <2>2, KindsOfPuts
  <2> QED
    BY <1>2, <2>2, <2>3, BeginPutStep
<1> QED
  BY <1>1, <1>3, <1>4

\* A template function begins its call of the storage.
LEMMA RenderStep ==
    ASSUME IInv, NEW c \in Clients, Render(c), \A d \in Clients : pc[d] # "done" PROVE IInv'
<1>1. PICK s \in Slots :
          \/ \E op \in {"Get", "HasKey"} : BeginRead(c, op, s, Enter)
          \/ s[2] = AnyKey /\ BeginRead(c, "GetAll", s, Enter)
          \/ \E k \in {"json", "odd"} : BeginPut(c, "Put", s, k, Enter)
          \/ BeginPut(c, "Remove", s, "nil", Enter)
  BY DEF Render
<1>2. c \in TemplateClients /\ UNCHANGED <<memory, hash, backend, refused>>
  BY DEF Render
<1>3. CASE \E op \in Reads : BeginRead(c, op, s, Enter)
  BY <1>2, <1>3, BeginReadStep
<1>4. CASE \E op \in Writes, k \in Kinds : BeginPut(c, op, s, k, Enter)
  BY <1>2, <1>4, BeginPutStep
<1> QED
  BY <1>1, <1>3, <1>4 DEF Reads, Writes, Kinds

\* A step that changes nothing preserves the invariant.
LEMMA StutterStep == ASSUME IInv, UNCHANGED vars PROVE IInv'
<1>1. UNCHANGED <<pc, call, kind, result, cand, before, fits, store, content, used, st, hash, backend, refused>>
  BY DEF vars, calls, memory
<1>2. Types' /\ RedisInit' = RedisInit
  BY <1>1 DEF IInv, Types, Puts, RedisInit
<1>3. \A c \in Clients : Control(c)'
  BY <1>1 DEF IInv, Control
<1>4. ASSUME NEW d \in Clients PROVE Found(d)'
  <2>1. Types /\ Found(d)
    BY DEF IInv
  <2>2. Same(d)
    BY <1>1 DEF Same
  <2> QED
    BY <1>1, <2>1, <2>2, FoundKept
<1>5. Register'
  BY <1>1 DEF IInv, Register, Now, Putting, Reading
<1>6. Heap'
  BY <1>1 DEF IInv, Heap, StoreOf
<1> QED
  BY <1>1, <1>2, <1>3, <1>4, <1>5, <1>6 DEF IInv

\* Every step preserves the invariant.
LEMMA NextInv == IInv /\ [Next]_vars => IInv'
<1> SUFFICES ASSUME IInv, [Next]_vars PROVE IInv'
  OBVIOUS
<1>1. CASE \E c \in Clients : Respond(c)
  BY <1>1, RespondStep
<1>2. ASSUME \A d \in Clients : pc[d] # "done", NEW c \in Clients,
             Request(c) \/ Refuse(c) \/ Render(c)
      PROVE  IInv'
  BY <1>2, RequestStep, RefuseStep, RenderStep
<1>3. ASSUME NEW c \in Clients, MemoryStep(c), UNCHANGED <<hash, backend, refused>> PROVE IInv'
  BY <1>3, LookupStep, CreateStep, RereadStep, WriteStep, ReadKeyStep, EncodeStep DEF MemoryStep
<1>4. ASSUME NEW c \in Clients, RedisStep(c), UNCHANGED <<memory, backend, refused>> PROVE IInv'
  <2>1. CASE MarshalFails(c) \/ CommandFails(c)
    <3>1. pc[c] \in RedisLabels /\ ReturnError(c) /\ UNCHANGED hash
      BY <2>1 DEF MarshalFails, CommandFails, Sent, RedisLabels
    <3> QED
      BY <1>4, <3>1, ErrorStep
  <2> QED
    BY <1>4, <2>1, HSetStep, HSetReplyStep, HGetStep, HGetAllStep DEF RedisStep
<1>5. ASSUME \A d \in Clients : pc[d] # "done", ConcurrentMapAccess, UNCHANGED <<hash, backend, refused>>
      PROVE  IInv'
  BY <1>5, CrashStep
<1>6. CASE UNCHANGED vars
  BY <1>6, StutterStep
<1> QED
  BY <1>1, <1>2, <1>3, <1>4, <1>5, <1>6 DEF Next

\* The invariant holds in every reachable state.
LEMMA Inductive == Spec => []IInv
  BY InitInv, NextInv, PTL DEF Spec

\* What a client is told of a read that has returned what IInv says.
LEMMA ReadAnswers == IInv => ReadsAnswerPuts
<1> SUFFICES ASSUME IInv, NEW c \in Returned({"Get", "HasKey"})
             PROVE  LET may == fits[c][call[c].slot]
                        nil == \E v \in may : IsNil(v)
                        body == result[c].val
                        a == Answer(c)
                    IN  /\ a = "OK" => body[KeyOf(c)] \in may /\ kind[body[KeyOf(c)]] = "json"
                        /\ a = "NotFound" => nil
                        /\ a = "value" => nil \/ body[KeyOf(c)] \in may
                        /\ a = "true" => \E v \in may : ~IsNil(v)
                        /\ a = "false" => nil \/ backend = "redis"
                        /\ a = "InternalServerError" =>
                              backend = "redis" \/ \E v \in may : v # 0 /\ kind[v] = "odd"
  BY DEF ReadsAnswerPuts
<1> DEFINE may == fits[c][call[c].slot]
           r == result[c]
           k == KeyOf(c)
<1>1. /\ c \in Clients /\ pc[c] = "done" /\ refused[c] = Pass /\ call[c].op \in {"Get", "HasKey"}
      /\ call[c].op = "HasKey" => c \in TemplateClients
  BY DEF Returned, IInv, Control
<1>2. May(c, k) = may /\ may \subseteq Puts
  <2>1. call[c].slot \in Slots /\ fits[c] \in [Slots -> SUBSET Puts]
    BY <1>1 DEF IInv, Types
  <2>2. call[c].slot = <<call[c].slot[1], call[c].slot[2]>>
    BY <2>1 DEF Slots
  <2> QED
    BY <2>1, <2>2 DEF May, StoreOf, KeyOf
<1>3. IF r.err THEN backend = "redis"
      ELSE \/ r.isNil = TRUE /\ 0 \in may
           \/ \E v \in may : r.val = [j \in {k} |-> v] /\ r.isNil = IsNil(v)
  BY <1>1, <1>2 DEF IInv, Found
<1>4. \A v \in may : ~IsNil(v) => v # 0 /\ kind[v] \in {"json", "odd"}
  <2>1. kind \in Seq(Kinds)
    BY DEF IInv, Types
  <2>2. \A v \in Puts \ {0} : kind[v] \in Kinds
    BY <2>1 DEF Puts
  <2> QED
    BY <1>2, <2>2 DEF IsNil, Kinds
<1>5. Answer(c) = IF c \in TemplateClients THEN KVStoreTemplateFuncMap(call[c].op, r) ELSE handleGetKVStore(r)
  BY <1>1 DEF Answer
<1>6. KVStoreTemplateFuncMap(call[c].op, r) =
          IF call[c].op = "Get" THEN (IF r.err THEN "error" ELSE "value")
                                ELSE (IF ~r.err /\ ~r.isNil THEN "true" ELSE "false")
  BY <1>1 DEF KVStoreTemplateFuncMap, Writes
<1>7. handleGetKVStore(r) =
          IF r.err THEN "InternalServerError" ELSE IF r.isNil THEN "NotFound" ELSE
          IF Encodable(r.val) THEN "OK" ELSE "InternalServerError"
  BY DEF handleGetKVStore, WriteEntity
<1>8. \A v : IsNil(0) /\ IsNil(v) \in BOOLEAN
  BY DEF IsNil
<1>9. \A v : r.val = [j \in {k} |-> v] => r.val[k] = v /\ (Encodable(r.val) <=> v = 0 \/ kind[v] # "odd")
  BY DEF Encodable
<1> HIDE DEF may, r, k
<1>10. CASE r.err
  BY <1>1, <1>3, <1>5, <1>6, <1>7, <1>10 DEF may, r, k
<1>11. CASE ~r.err /\ r.isNil = TRUE /\ 0 \in may
  BY <1>1, <1>5, <1>6, <1>7, <1>8, <1>11 DEF may, r, k
<1>12. ASSUME ~r.err, NEW v \in may, r.val = [j \in {k} |-> v], r.isNil = IsNil(v)
       PROVE  /\ Answer(c) = "OK" => r.val[k] \in may /\ kind[r.val[k]] = "json"
              /\ Answer(c) = "NotFound" => \E w \in may : IsNil(w)
              /\ Answer(c) = "value" => (\E w \in may : IsNil(w)) \/ r.val[k] \in may
              /\ Answer(c) = "true" => \E w \in may : ~IsNil(w)
              /\ Answer(c) = "false" => (\E w \in may : IsNil(w)) \/ backend = "redis"
              /\ Answer(c) = "InternalServerError" =>
                    backend = "redis" \/ \E w \in may : w # 0 /\ kind[w] = "odd"
  <2>1. r.val[k] = v /\ (Encodable(r.val) <=> v = 0 \/ kind[v] # "odd")
    BY <1>9, <1>12
  <2>2. CASE IsNil(v)
    BY <1>5, <1>6, <1>7, <1>8, <1>12, <2>1, <2>2
  <2>3. CASE ~IsNil(v)
    <3>1. v # 0 /\ kind[v] \in {"json", "odd"}
      BY <1>4, <2>3
    <3> QED
      BY <1>5, <1>6, <1>7, <1>8, <1>12, <2>1, <2>3, <3>1
  <2> QED
    BY <2>2, <2>3
<1> QED
  BY <1>3, <1>10, <1>11, <1>12 DEF may, r, k

\* What is read of a key is a value that no ended put had replaced, in memory for
\* every interleaving of the unlocked statements and on redis for every repetition
\* of commands, for any number of clients, stores, keys, maps and puts
\* (InmemoryStorage and kvstore.go, behind handleGetKVStore and the templates).
THEOREM ReadsAreRegular == Spec => []ReadsAnswerPuts
<1>1. IInv => ReadsAnswerPuts
  BY ReadAnswers
<1> QED
  BY <1>1, Inductive, PTL

\* So is every entry of a listing, and an entry is missing only where the slot may
\* have been empty (GetAll, encoded key by key from the live map, and HGETALL).
THEOREM ListingsAreRegular == Spec => []ListingAnswersPuts
<1>1. IInv => ListingAnswersPuts
  <2> SUFFICES ASSUME IInv, NEW c \in Returned({"GetAll"}), NEW k \in Keys, ~result[c].err
               PROVE  IF k \in DOMAIN result[c].val
                      THEN result[c].val[k] \in fits[c][<<StoreOf(c), k>>] \ {0}
                      ELSE 0 \in fits[c][<<StoreOf(c), k>>]
    BY DEF ListingAnswersPuts
  <2>1. c \in Clients /\ pc[c] = "done" /\ refused[c] = Pass /\ call[c].op = "GetAll"
    BY DEF Returned
  <2> QED
    BY <2>1 DEF IInv, Found, May
<1> QED
  BY <1>1, Inductive, PTL

\* Every http request and template call is answered, with a status or a text, and
\* every variable keeps its type: no put is made to the nil map of a missing store,
\* and no two stores share a map (InmemoryStorage.Put, storage.go).
THEOREM TypeCorrect == Spec => []TypeOK
<1>1. IInv => TypeOK
  <2> SUFFICES ASSUME IInv PROVE TypeOK
    OBVIOUS
  <2> USE DEF IInv
  <2>1. kind \in Seq(Kinds) /\ Len(kind) \in Nat /\ Puts \subseteq Values
    BY CallsAssumption DEF Types, Puts, Values
  <2>2. CallsTypeOK
    <3>1. /\ cand \in [Slots -> SUBSET Values] /\ before \in [Clients -> SUBSET Values]
          /\ fits \in [Clients -> [Slots -> SUBSET Values]]
      BY <2>1 DEF Types
    <3>2. \A s \in Slots : cand[s] # {}
      BY DEF Register
    <3>3. \A c \in Clients : call[c].slot \in Slots
      BY DEF Types
    <3>4. \A c \in Clients : call[c].n \in 0..Len(kind)
      <4>1. \A c \in Clients : call[c].n \in 1..Len(kind) \/ call[c].n = 0
        BY DEF Control
      <4> QED
        BY <2>1, <4>1
    <3> QED
      BY <2>1, <3>1, <3>2, <3>3, <3>4 DEF CallsTypeOK, Types
  <2>3. MemoryTypeOK
    BY <2>1 DEF MemoryTypeOK, Types, Heap, Holds
  <2>4. hash \in [Stores -> [Keys -> Values]]
    BY <2>1 DEF Types
  <2>5. ASSUME NEW c \in Clients, pc[c] = "done"
        PROVE  Answer(c) \in IF c \in TemplateClients THEN {"value", "true", "false", "error", ""} ELSE Statuses
    <3> DEFINE r == result[c]
    <3>1. CASE refused[c] # Pass
      BY <3>1 DEF Answer, Types, Control
    <3>2. CASE refused[c] = Pass
      <4>1. call[c].op \in Writes \cup Reads /\ (call[c].op = "HasKey" => c \in TemplateClients)
        BY <2>5, <3>2 DEF Control, Types
      <4>2. handleGetKVStore(r) \in Statuses /\ handleGetAllKVStore(r) \in Statuses
            /\ handlePutKVStore(r) \in Statuses /\ handleRemoveKVStore(r) \in Statuses
        BY DEF handleGetKVStore, handleGetAllKVStore, handlePutKVStore, handleRemoveKVStore, WriteEntity, Statuses
      <4>3. KVStoreTemplateFuncMap(call[c].op, r) \in {"value", "true", "false", "error", ""}
        BY <4>1 DEF KVStoreTemplateFuncMap, Writes, Reads
      <4> HIDE DEF r
      <4>4. Answer(c) = IF c \in TemplateClients THEN KVStoreTemplateFuncMap(call[c].op, r) ELSE
                        CASE call[c].op = "Get" -> handleGetKVStore(r)
                          [] call[c].op = "GetAll" -> handleGetAllKVStore(r)
                          [] call[c].op = "Put" -> handlePutKVStore(r)
                          [] call[c].op = "Remove" -> handleRemoveKVStore(r)
        BY <3>2 DEF Answer, r
      <4> QED
        BY <4>1, <4>2, <4>3, <4>4 DEF Writes, Reads
    <3> QED
      BY <3>1, <3>2
  <2> QED
    BY <2>2, <2>3, <2>4, <2>5 DEF TypeOK
<1> QED
  BY <1>1, Inductive, PTL
=============================================================================
