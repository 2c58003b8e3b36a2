-------------------------- MODULE InmemoryStorage --------------------------
(***************************************************************************)
(* mockgo/kvstore/storage.go: InmemoryStorage, a map of maps without a     *)
(* lock.  A statement is a step; a step of encoding/json that follows      *)
(* GetAll reads the live map, key by key.                                  *)
(***************************************************************************)
EXTENDS StorageCalls, Functions

CONSTANTS Maps,   \* addresses of the inner maps, also a bound on their number
          Nil     \* the nil map

ASSUME MapsAssumption == Nil \notin Maps

VARIABLES store,     \* [Stores -> Maps or Nil]: the field store
          content,   \* [Maps -> [Keys -> Values]]: 0 where the map has no entry
          used,      \* the addresses of maps that were created
          st,        \* [Clients -> Maps or Nil]: the local variable of the call
          crashed    \* the runtime has stopped the process

memory == <<store, content, used, st, crashed>>

MemoryInit ==
    /\ store = [s \in Stores |-> Nil]
    /\ content = [m \in Maps |-> [k \in Keys |-> 0]]
    /\ used = {}
    /\ st = [c \in Clients |-> Nil]
    /\ crashed = FALSE

At(c, label) == ~crashed /\ pc[c] = label
Goto(c, label) == /\ pc' = [pc EXCEPT ![c] = label]
                  /\ UNCHANGED <<call, kind, result, before>>
StoreOf(c) == call[c].slot[1]
KeyOf(c) == call[c].slot[2]

\* A Put without the nil check.
LookupMutant(c) ==
    LET m == store[StoreOf(c)] IN
    /\ At(c, "lookup")
    /\ st' = [st EXCEPT ![c] = m]
    /\ \/ call[c].op \in Writes /\ Goto(c, "write") /\ UNCHANGED <<cand, fits>>
       \/ call[c].op \in Reads /\ m = Nil /\ ReturnRead(c, TRUE, <<>>)
       \/ call[c].op \in Reads /\ m # Nil
          /\ Goto(c, IF call[c].op = "GetAll" THEN "encode" ELSE "read") /\ UNCHANGED <<cand, fits>>
    /\ UNCHANGED <<store, content, used, crashed>>

\* st := s.store[store]; if st == nil
Lookup(c) ==
    LET m == store[StoreOf(c)] IN
    /\ At(c, "lookup")
    /\ st' = [st EXCEPT ![c] = m]
    /\ \/ /\ call[c].op \in Reads /\ m = Nil
          /\ ReturnRead(c, TRUE, <<>>)
       \/ /\ call[c].op \in Writes \/ m # Nil
          /\ Goto(c, IF call[c].op = "GetAll" THEN "encode" ELSE
                     IF call[c].op \in Reads THEN "read" ELSE
                     IF m = Nil THEN "create" ELSE "write")
          /\ UNCHANGED <<cand, fits>>
    /\ UNCHANGED <<store, content, used, crashed>>

\* s.store[store] = map[string]interface{}{}: a map that another goroutine put
\* there since the check is lost with its entries.
Create(c) ==
    LET s == StoreOf(c)
        lost == IF store[s] = Nil THEN {} ELSE {s} \X Keys
    IN
    /\ At(c, "create")
    /\ Goto(c, "reread")
    /\ \E m \in Maps \ used :
          /\ used' = used \cup {m}
          /\ store' = [store EXCEPT ![s] = m]
    /\ cand' = [x \in Slots |-> IF x \in lost THEN cand[x] \cup {0} ELSE cand[x]]
    /\ fits' = [d \in Clients |-> [x \in Slots |-> IF x \in lost /\ d \in Reading(x)
                                                   THEN fits[d][x] \cup {0} ELSE fits[d][x]]]
    /\ UNCHANGED <<content, st, crashed>>

\* st = s.store[store]
Reread(c) ==
    /\ At(c, "reread")
    /\ st' = [st EXCEPT ![c] = store[StoreOf(c)]]
    /\ Goto(c, "write")
    /\ UNCHANGED <<cand, fits, store, content, used, crashed>>

\* A put that keeps the value it finds.
WriteMutant(c) ==
    /\ At(c, "write")
    /\ content' = [content EXCEPT ![st[c]][KeyOf(c)] = IF @ = 0 THEN call[c].n ELSE @]
    /\ ReturnPut(c, st[c] = store[StoreOf(c)])
    /\ UNCHANGED <<store, used, st, crashed>>

\* st[key] = val
Write(c) ==
    /\ At(c, "write")
    /\ content' = [content EXCEPT ![st[c]][KeyOf(c)] = call[c].n]
    /\ ReturnPut(c, st[c] = store[StoreOf(c)])
    /\ UNCHANGED <<store, used, st, crashed>>

\* return st[key], nil
ReadKey(c) ==
    /\ At(c, "read")
    /\ LET v == content[st[c]][KeyOf(c)]
       IN  ReturnRead(c, IsNil(v), [k \in {KeyOf(c)} |-> v])
    /\ UNCHANGED memory

\* GetAll has returned st: the next key, or the end of the map.
Encode(c) ==
    LET seen == result[c].val IN
    /\ At(c, "encode")
    /\ \/ \E k \in Keys \ DOMAIN seen :
             /\ result' = [result EXCEPT ![c].val =
                             [j \in DOMAIN seen \cup {k} |-> IF j = k THEN content[st[c]][k] ELSE seen[j]]]
             /\ UNCHANGED <<pc, call, kind, cand, before, fits>>
       \/ /\ DOMAIN seen = Keys
          /\ ReturnRead(c, FALSE, Restrict(seen, {k \in Keys : seen[k] # 0}))
    /\ UNCHANGED memory

\* The Go runtime stops the process, and all of the state is lost, when it
\* notices that a goroutine writes a map while another one accesses it.
ConcurrentMapAccess ==
    /\ ~crashed
    /\ \E c, d \in Clients :
          /\ c # d
          /\ \/ pc[c] = "create" /\ pc[d] \in {"lookup", "create", "reread"}
             \/ pc[c] = "write" /\ pc[d] \in {"write", "read", "encode"} /\ st[c] = st[d]
    /\ crashed' = TRUE
    /\ pc' = [c \in Clients |-> "idle"] /\ call' = [c \in Clients |-> NoCall]
    /\ result' = [c \in Clients |-> NoResult] /\ fits' = [c \in Clients |-> NoFits]
    /\ before' = [c \in Clients |-> {}] /\ cand' = [x \in Slots |-> {0}] /\ kind' = <<>>
    /\ store' = [s \in Stores |-> Nil] /\ content' = [m \in Maps |-> [k \in Keys |-> 0]]
    /\ used' = {} /\ st' = [c \in Clients |-> Nil]

MemoryStep(c) == Lookup(c) \/ Create(c) \/ Reread(c) \/ Write(c) \/ ReadKey(c) \/ Encode(c)

\* No put writes to the nil map, no map is shared by two stores.
MemoryTypeOK ==
    /\ store \in [Stores -> Maps \cup {Nil}]
    /\ content \in [Maps -> [Keys -> Values]]
    /\ st \in [Clients -> Maps \cup {Nil}]
    /\ \A c \in Clients : pc[c] \in {"write", "read", "encode"} => st[c] \in used
    /\ \A s, t \in Stores : store[s] = store[t] /\ store[s] # Nil => s = t
=============================================================================
