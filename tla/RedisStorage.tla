---------------------------- MODULE RedisStorage ----------------------------
(***************************************************************************)
(* mockgo-redis/kvstore/kvstore.go.  A store is a redis hash of JSON       *)
(* texts, every operation one command.  go-redis sends a command again, up *)
(* to 30 times, when it gets no answer: the server may execute it several  *)
(* times (here any number of times) and the call may still fail.  Not      *)
(* modelled: a command that redis executes after its call has returned.    *)
(***************************************************************************)
EXTENDS StorageCalls, Functions

VARIABLE hash   \* [Stores -> [Keys -> Values]]: 0 where the hash has no field

RedisInit == hash = [s \in Stores |-> [k \in Keys |-> 0]]

Sent(c, ops) == pc[c] \in {"send", "executed"} /\ call[c].op \in ops

\* json.Marshal refuses the value before a command is sent.
MarshalFails(c) ==
    /\ pc[c] = "send" /\ call[c].op \in Writes /\ kind[call[c].n] = "odd"
    /\ ReturnError(c)
    /\ UNCHANGED hash

\* A put that writes the whole store.
HSetMutant(c) ==
    /\ Sent(c, Writes) /\ kind[call[c].n] # "odd"
    /\ hash' = [hash EXCEPT ![call[c].slot[1]] =
                    [k \in Keys |-> IF k = call[c].slot[2] THEN call[c].n ELSE 0]]
    /\ pc' = [pc EXCEPT ![c] = "executed"]
    /\ UNCHANGED <<call, kind, result, cand, before, fits>>

\* HSET store key text, executed by the server: the first time or again.
HSet(c) ==
    /\ Sent(c, Writes) /\ kind[call[c].n] # "odd"
    /\ hash' = [hash EXCEPT ![call[c].slot[1]][call[c].slot[2]] = call[c].n]
    /\ pc' = [pc EXCEPT ![c] = "executed"]
    /\ UNCHANGED <<call, kind, result, cand, before, fits>>

HSetReply(c) ==
    /\ pc[c] = "executed"
    /\ ReturnPut(c, TRUE)
    /\ UNCHANGED hash

\* HGET store key: a missing field is the error redis.Nil, the text "null" is nil.
HGet(c) ==
    LET v == hash[call[c].slot[1]][call[c].slot[2]] IN
    /\ Sent(c, {"Get", "HasKey"})
    /\ IF v = 0 THEN ReturnError(c)
                ELSE ReturnRead(c, IsNil(v), [k \in {call[c].slot[2]} |-> v])
    /\ UNCHANGED hash

\* HGETALL store: empty, not nil, when there is no such hash.
HGetAll(c) ==
    LET h == hash[call[c].slot[1]] IN
    /\ Sent(c, {"GetAll"})
    /\ ReturnRead(c, FALSE, Restrict(h, {k \in Keys : h[k] # 0}))
    /\ UNCHANGED hash

\* Every attempt has failed, executed or not.
CommandFails(c) ==
    /\ Sent(c, Writes \cup Reads) /\ ~(call[c].op \in Writes /\ kind[call[c].n] = "odd")
    /\ ReturnError(c)
    /\ UNCHANGED hash

RedisStep(c) ==
    \/ MarshalFails(c) \/ HSet(c) \/ HSetReply(c) \/ HGet(c) \/ HGetAll(c) \/ CommandFails(c)
=============================================================================
