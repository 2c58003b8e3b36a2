-------------------------- MODULE RedisMatchstore --------------------------
(***************************************************************************)
(* mockgo-redis/matchstore/matchstore.go.  Several instances of the server *)
(* share one redis.  An operation is a sequence of commands, each atomic   *)
(* at redis, that the commands of other requests interleave.  The client   *)
(* retries a command whose reply is lost, so one may be executed twice; it *)
(* may also fail for good, and an instance may crash between two commands. *)
(* A match is abstracted to its position in the order of the RPUSHes.      *)
(***************************************************************************)
EXTENDS Integers, Sequences, FiniteSets

CONSTANTS Keys,         \* endpoint ids and "__mismatches__"
          Procs,        \* request goroutines of all the instances
          Instances,    \* server processes
          Instance,     \* [Procs -> Instances]
          Capacity,     \* MATCHES_CAPACITY, a uint16 compared as int64: no wrap
          MaxCalls,     \* bound: Add* and Delete* calls in a behaviour
          MaxDeletes,   \* bound: Delete* calls among them
          MaxFaults     \* bound: lost replies, failed commands and crashes

ASSUME ConstantsAssumption ==
    /\ IsFiniteSet(Procs)
    /\ Instance \in [Procs -> Instances]
    /\ Capacity \in Nat /\ MaxCalls \in Nat /\ MaxDeletes \in Nat /\ MaxFaults \in Nat

VARIABLES
    list,       \* [Keys -> Seq(Nat)]: the redis list under a key
    counter,    \* [Keys -> Nat]: the number under key + "__counter__"
    counters,   \* keys whose counter exists in redis
    pc,         \* [Procs -> the next command of the request]
    key,        \* [Procs -> Keys]
    pushed,     \* history, [Keys -> Nat]: RPUSHes executed so far
    excess,     \* history, [Keys -> Nat]: RPUSHes since the last DEL whose own
                \*          eviction check will never be executed
    calls, deletes, faults   \* history: for the bounds

redis == <<list, counter, counters>>
bounds == <<calls, deletes, faults>>
vars == <<redis, pc, key, pushed, excess, bounds>>

PC == {"idle", "rpush", "llen", "lpop", "incr", "del", "set"}

\* A redis without keys.
Init == /\ list = [k \in Keys |-> <<>>]
        /\ counter = [k \in Keys |-> 0]
        /\ counters = {}
        /\ pc = [p \in Procs |-> "idle"]
        /\ key \in [Procs -> Keys]
        /\ pushed = [k \in Keys |-> 0]
        /\ excess = [k \in Keys |-> 0]
        /\ calls = 0 /\ deletes = 0 /\ faults = 0

Goto(p, label) == pc' = [pc EXCEPT ![p] = label]

\* The requests on key k whose next command is one of labels.
At(k, labels) == {p \in Procs : key[p] = k /\ pc[p] \in labels}

\* The requests that have pushed to k and have not finished evicting.
Evicting(k) == At(k, {"llen", "lpop"})

-----------------------------------------------------------------------------
(* The commands at redis, each with what it does to the history.           *)

RPush(k) == /\ list' = [list EXCEPT ![k] = Append(@, pushed[k] + 1)]
            /\ pushed' = [pushed EXCEPT ![k] = @ + 1]
            /\ UNCHANGED <<counter, counters>>

\* An LPOP of the tail end of the list.
LPopMutant(k) == /\ list' = [list EXCEPT ![k] = IF @ = <<>> THEN @ ELSE SubSeq(@, 1, Len(@) - 1)]
                 /\ UNCHANGED <<counter, counters, pushed>>

\* On an empty (absent) list the reply is nil, which the client reports as the
\* error redis.Nil.
LPop(k) == /\ list' = [list EXCEPT ![k] = IF @ = <<>> THEN @ ELSE Tail(@)]
           /\ UNCHANGED <<counter, counters, pushed>>

\* A DECR.
IncrMutant(k) == /\ counter' = [counter EXCEPT ![k] = @ - 1]
                 /\ counters' = counters \cup {k}
                 /\ UNCHANGED <<list, pushed>>

Incr(k) == /\ counter' = [counter EXCEPT ![k] = @ + 1]
           /\ counters' = counters \cup {k}
           /\ UNCHANGED <<list, pushed>>

Del(k) == /\ list' = [list EXCEPT ![k] = <<>>]
          /\ UNCHANGED <<counter, counters, pushed>>

SetZero(k) == /\ counter' = [counter EXCEPT ![k] = 0]
              /\ counters' = counters \cup {k}
              /\ UNCHANGED <<list, pushed>>

\* Checks that are off by one.
OverCapacityMutant(n) == n > Capacity + 1
OverCapacityEarlyMutant(n) == n >= Capacity

\* LLen(...).Val() > int64(r.capacity)
OverCapacity(n) == n > Capacity

-----------------------------------------------------------------------------
(* The operations: a call, then one action per command that is answered.   *)

Call(p, k, label) ==
    /\ pc[p] = "idle" /\ calls < MaxCalls
    /\ Goto(p, label)
    /\ key' = [key EXCEPT ![p] = k]
    /\ calls' = calls + 1
    /\ UNCHANGED <<redis, pushed, excess, faults>>

\* AddMatch, AddMismatch
Add(p, k) == Call(p, k, "rpush") /\ UNCHANGED deletes

\* DeleteMatches, DeleteMismatches
Delete(p, k) == Call(p, k, "del") /\ deletes < MaxDeletes /\ deletes' = deletes + 1

Pushes(p) ==
    /\ pc[p] = "rpush" /\ RPush(key[p]) /\ Goto(p, "llen")
    /\ UNCHANGED <<key, excess, bounds>>

ChecksLen(p) ==
    /\ pc[p] = "llen"
    /\ Goto(p, IF OverCapacity(Len(list[key[p]])) THEN "lpop" ELSE "incr")
    /\ UNCHANGED <<redis, key, pushed, excess, bounds>>

\* if lpop.Err() != nil { return lpop.Err() }: redis.Nil too ends the call before
\* the counter is incremented.
Pops(p) ==
    /\ pc[p] = "lpop" /\ LPop(key[p])
    /\ Goto(p, IF list[key[p]] = <<>> THEN "idle" ELSE "incr")
    /\ UNCHANGED <<key, excess, bounds>>

\* The counter incremented only for a match that is still stored.
IncrementsMutant(p) ==
    /\ pc[p] = "incr" /\ Goto(p, "idle")
    /\ IF Len(list[key[p]]) >= Capacity THEN UNCHANGED <<redis, pushed>> ELSE Incr(key[p])
    /\ UNCHANGED <<key, excess, bounds>>

Increments(p) ==
    /\ pc[p] = "incr" /\ Incr(key[p]) /\ Goto(p, "idle")
    /\ UNCHANGED <<key, excess, bounds>>

Deletes(p) ==
    /\ pc[p] = "del" /\ Del(key[p]) /\ Goto(p, "set")
    /\ excess' = [excess EXCEPT ![key[p]] = 0]
    /\ UNCHANGED <<key, bounds>>

Zeroes(p) ==
    /\ pc[p] = "set" /\ SetZero(key[p]) /\ Goto(p, "idle")
    /\ UNCHANGED <<key, excess, bounds>>

Command(p) ==
    Pushes(p) \/ ChecksLen(p) \/ Pops(p) \/ Increments(p) \/ Deletes(p) \/ Zeroes(p)

-----------------------------------------------------------------------------
(* Faults.                                                                 *)

Fault == faults < MaxFaults /\ faults' = faults + 1 /\ UNCHANGED <<calls, deletes>>

\* The command is executed but its reply is lost: the client will send it again.
LosesReply(p) ==
    LET k == key[p] IN
    /\ Fault
    /\ UNCHANGED <<pc, key>>
    /\ \/ pc[p] = "rpush" /\ RPush(k) /\ excess' = [excess EXCEPT ![k] = @ + 1]
       \/ pc[p] = "lpop" /\ LPop(k) /\ UNCHANGED excess
       \/ pc[p] = "incr" /\ Incr(k) /\ UNCHANGED excess
       \/ pc[p] = "del" /\ Del(k) /\ excess' = [excess EXCEPT ![k] = 0]
       \/ pc[p] = "set" /\ SetZero(k) /\ UNCHANGED excess

\* The retries are used up.  The call returns the error; only that of LLEN is
\* ignored: its Val() is 0, nothing is evicted and the counter is incremented.
Fails(p) ==
    /\ Fault
    /\ pc[p] # "idle"
    /\ Goto(p, IF pc[p] = "llen" THEN "incr" ELSE "idle")
    /\ excess' = IF p \in Evicting(key[p]) THEN [excess EXCEPT ![key[p]] = @ + 1] ELSE excess
    /\ UNCHANGED <<redis, key, pushed>>

\* An instance stops; what its requests have not sent yet is never sent.
Crash(i) ==
    /\ Fault
    /\ \E p \in Procs : Instance[p] = i /\ pc[p] # "idle"
    /\ pc' = [p \in Procs |-> IF Instance[p] = i THEN "idle" ELSE pc[p]]
    /\ excess' = [k \in Keys |-> excess[k] + Cardinality({p \in Evicting(k) : Instance[p] = i})]
    /\ UNCHANGED <<redis, key, pushed>>

Next ==
    \/ \E p \in Procs :
          \/ Command(p) \/ LosesReply(p) \/ Fails(p)
          \/ \E k \in Keys : Add(p, k) \/ Delete(p, k)
    \/ \E i \in Instances : Crash(i)

Spec == Init /\ [][Next]_vars

\* What a reader gets, GetMismatches and GetMismatchesCount included: LRANGE of
\* the whole list, and GET of the counter, which fails with redis.Nil when there
\* is none.
GetMatches(k) == list[k]
GetMatchesCount(k) == IF k \in counters THEN counter[k] ELSE "redis.Nil"

-----------------------------------------------------------------------------
Busy(k) == At(k, PC \ {"idle"})

\* The requests that have pushed to k and have not incremented its counter.
Uncounted(k) == At(k, {"llen", "lpop", "incr"})

\* The requests that will pop from k.
Popping(k) == At(k, {"lpop"})

\* Type correctness of the keys in redis and of the requests' locals.
TypeOK ==
    /\ list \in [Keys -> Seq(Nat)]
    /\ counter \in [Keys -> Nat] /\ counters \subseteq Keys
    /\ pc \in [Procs -> PC] /\ key \in [Procs -> Keys]
    /\ pushed \in [Keys -> Nat] /\ excess \in [Keys -> Nat]
    /\ calls \in Nat /\ deletes \in Nat /\ faults \in Nat

\* A list exceeds the capacity by at most the requests between RPUSH and LPOP
\* and the pushes whose check a fault has taken away: AddMatch bounds the list.
CapacityBound ==
    \A k \in Keys : Len(list[k]) <= Capacity + Cardinality(Evicting(k)) + excess[k]

\* What GetMatches reads with LRANGE is always the newest pushes, gap-free and
\* in order: LPOP and DEL take from the head of what RPUSH appends to.
NewestKept ==
    \A k \in Keys : \A i \in 1..Len(list[k]) :
        list[k][i] = pushed[k] - Len(list[k]) + i

\* Without deletes and faults INCR counts every AddMatch exactly once, and LPOP
\* never meets an empty list, whose error would skip the INCR.
CountExact ==
    deletes = 0 /\ faults = 0 =>
        \A k \in Keys : counter[k] + Cardinality(Uncounted(k)) = pushed[k]

\* Requests that all read the same LLEN evict once each, so concurrent adds lose
\* matches below the capacity: without deletes and faults at most one per other
\* request, and none when requests do not overlap.
RetentionBound ==
    deletes = 0 /\ faults = 0 =>
        \A k \in Keys :
            \/ Len(list[k]) - Cardinality(Popping(k)) >= Capacity + 1 - Cardinality(Procs)
            \/ Len(list[k]) = pushed[k] /\ Popping(k) = {}

-----------------------------------------------------------------------------
(* What the README and the tests say of the store, and concurrent calls or *)
(* faults do not keep.                                                     *)

\* At rest the storage of a key is within the configured capacity.  Fails when an
\* instance stops between RPUSH and LPOP.
AtRestWithinCapacity ==
    \A k \in Keys : Busy(k) = {} => Len(GetMatches(k)) <= Capacity

\* At rest the storage of a key holds the capacity once that many have been added.
\* Fails when two requests evict for the same length.
AtRestFilled ==
    \A k \in Keys : Busy(k) = {} /\ pushed[k] >= Capacity => Len(GetMatches(k)) >= Capacity

\* At rest the counter covers the matches that GetMatches returns.  Fails when an
\* add falls between the DEL and the SET of a delete.
CountCoversList ==
    \A k \in Keys : Busy(k) = {} => counter[k] >= Len(GetMatches(k))

\* The count of a key can be read, be it that nothing was added yet.  Fails
\* initially.
CountAnswered == \A k \in Keys : GetMatchesCount(k) # "redis.Nil"
=============================================================================
