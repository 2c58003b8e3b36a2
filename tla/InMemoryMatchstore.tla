------------------------ MODULE InMemoryMatchstore ------------------------
(***************************************************************************)
(* mockgo/matches/inmemoryMatchstore.go.  net/http runs every request in a *)
(* goroutine of its own and the store takes no lock, so an operation is a  *)
(* sequence of statements that the statements of other goroutines          *)
(* interleave.  A call of a method of container/list (PushBack, Len,       *)
(* Front, Next, Remove) is one step; x++ is a load and a store.  A match   *)
(* is abstracted to its position in the order of the pushes to its list.   *)
(***************************************************************************)
EXTENDS Integers, FiniteSets, SequencesExt

CONSTANTS EndpointIDs,       \* the keys of the maps matches and matchesCount
          MismatchesKey,     \* stands for the fields mismatches, mismatchesCount
          Lists,             \* addresses of lists, also a bound on list.New()
          MismatchesList,    \* the list of the field mismatches
          Nil,               \* the nil pointer
          Goroutines,        \* request goroutines that call the store
          MatchesCapacity,   \* MATCHES_CAPACITY, an int
          WordSize,          \* 2^16: the number of values of a uint16
          MaxCalls           \* bound: calls of the store in a behaviour

ASSUME ConstantsAssumption ==
    /\ MismatchesKey \notin EndpointIDs
    /\ MismatchesList \in Lists /\ Nil \notin Lists
    /\ IsFiniteSet(Goroutines)
    /\ MatchesCapacity \in Nat /\ WordSize \in Nat \ {0} /\ MaxCalls \in Nat

Keys == EndpointIDs \cup {MismatchesKey}

\* The mains pass uint16(config.MatchesCapacity).
size == MatchesCapacity % WordSize

VARIABLES
    matches,   \* [Keys -> Lists or Nil]: the map matches, the field mismatches
    used,      \* the addresses that list.New() has returned
    list,      \* [Lists -> Seq(Nat)]: container/list, front first
    count,     \* [Keys -> Nat]: matchesCount and mismatchesCount
    pc,        \* [Goroutines -> the next statement of the goroutine]
    key,       \* [Goroutines -> Keys]: the endpointID it works on
    mine,      \* [Goroutines -> Lists or Nil]: its local matches, matchesList
    reg,       \* [Goroutines -> Nat]: what Front() or Next() returned, what x++ loaded
    result,    \* [Goroutines -> Seq(Nat)]: its matchesResult
    pushed,    \* history, [Lists -> Nat]: calls of PushBack so far
    wasted,    \* history, [Lists -> Nat]: calls of Remove that removed nothing
    calls,     \* history: calls begun, for MaxCalls
    crashed    \* the runtime has stopped the process: concurrent map access

store == <<matches, used, list, count>>
history == <<pushed, wasted>>
vars == <<store, pc, key, mine, reg, result, history, calls, crashed>>

PC == {"idle", "ensure", "create", "read", "push", "evict", "front", "remove",
       "load", "store", "find", "clear", "zero", "get", "first", "next", "count"}

Init == /\ matches = [k \in Keys |-> IF k = MismatchesKey THEN MismatchesList ELSE Nil]
        /\ used = {MismatchesList}
        /\ list = [l \in Lists |-> <<>>]
        /\ count = [k \in Keys |-> 0]
        /\ pc = [g \in Goroutines |-> "idle"]
        /\ key = [g \in Goroutines |-> MismatchesKey]
        /\ mine = [g \in Goroutines |-> Nil]
        /\ reg = [g \in Goroutines |-> 0]
        /\ result = [g \in Goroutines |-> <<>>]
        /\ pushed = [l \in Lists |-> 0]
        /\ wasted = [l \in Lists |-> 0]
        /\ calls = 0
        /\ crashed = FALSE

-----------------------------------------------------------------------------
At(g, label) == ~crashed /\ pc[g] = label
Goto(g, label) == pc' = [pc EXCEPT ![g] = label]

Call(g, k, label) ==
    /\ At(g, "idle") /\ calls < MaxCalls
    /\ Goto(g, label)
    /\ key' = [key EXCEPT ![g] = k]
    /\ calls' = calls + 1
    /\ UNCHANGED <<store, mine, reg, result, history, crashed>>

AddMatch(g, k) == Call(g, k, "ensure")
AddMismatch(g) == Call(g, MismatchesKey, "read")
DeleteMatches(g, k) == Call(g, k, "find")
DeleteMismatches(g) == Call(g, MismatchesKey, "find")
GetMatches(g, k) == Call(g, k, "get")
GetMismatches(g) == Call(g, MismatchesKey, "get")
GetMatchesCount(g, k) == Call(g, k, "count")
GetMismatchesCount(g) == Call(g, MismatchesKey, "count")

\* A missing creation of the list.
EnsureListMutant(g) ==
    /\ At(g, "ensure") /\ Goto(g, "read")
    /\ UNCHANGED <<store, key, mine, reg, result, history, calls, crashed>>

\* if s.matches[endpointID] == nil
EnsureList(g) ==
    /\ At(g, "ensure")
    /\ Goto(g, IF matches[key[g]] = Nil THEN "create" ELSE "read")
    /\ UNCHANGED <<store, key, mine, reg, result, history, calls, crashed>>

\* s.matches[endpointID] = list.New(): the list that another goroutine has put
\* there since the check is dropped.
CreateList(g) ==
    /\ At(g, "create") /\ Goto(g, "read")
    /\ \E l \in Lists \ used :
          /\ used' = used \cup {l}
          /\ matches' = [matches EXCEPT ![key[g]] = l]
    /\ UNCHANGED <<list, count, key, mine, reg, result, history, calls, crashed>>

\* matches := s.matches[endpointID]
ReadList(g) ==
    /\ At(g, "read") /\ Goto(g, "push")
    /\ mine' = [mine EXCEPT ![g] = matches[key[g]]]
    /\ UNCHANGED <<store, key, reg, result, history, calls, crashed>>

\* matches.PushBack(match)
PushBack(g) ==
    LET l == mine[g] IN
    /\ At(g, "push") /\ Goto(g, "evict")
    /\ pushed' = [pushed EXCEPT ![l] = @ + 1]
    /\ list' = [list EXCEPT ![l] = Append(@, pushed[l] + 1)]
    /\ UNCHANGED <<matches, used, count, key, mine, reg, result, wasted, calls, crashed>>

\* A capacity check that is off by one.
OverCapacityMutant(n) == n % WordSize > size + 1

\* uint16(matches.Len()) > s.size
OverCapacity(n) == n % WordSize > size

CheckLen(g) ==
    /\ At(g, "evict")
    /\ Goto(g, IF OverCapacity(Len(list[mine[g]])) THEN "front" ELSE "load")
    /\ UNCHANGED <<store, key, mine, reg, result, history, calls, crashed>>

\* matches.Front(), the argument of Remove.  On a list that was emptied since the
\* check it is nil and Remove panics: net/http recovers the goroutine's panic and
\* the statements that follow are not executed.
ListFront(g) ==
    LET l == mine[g] IN
    /\ At(g, "front")
    /\ \/ /\ list[l] # <<>>
          /\ reg' = [reg EXCEPT ![g] = Head(list[l])]
          /\ Goto(g, "remove")
       \/ /\ list[l] = <<>>
          /\ Goto(g, "idle")
          /\ UNCHANGED reg
    /\ UNCHANGED <<store, key, mine, result, history, calls, crashed>>

IsFront(l, e) == list[l] # <<>> /\ Head(list[l]) = e

\* matches.Remove(e): nothing happens when another goroutine has removed e since
\* Front() returned it.  (Elements leave at the front only, so e is still in the
\* list only if it is still its first element.)
ListRemove(g) ==
    LET l == mine[g] IN
    /\ At(g, "remove") /\ Goto(g, "load")
    /\ \/ /\ IsFront(l, reg[g])
          /\ list' = [list EXCEPT ![l] = Tail(@)]
          /\ UNCHANGED wasted
       \/ /\ ~IsFront(l, reg[g])
          /\ wasted' = [wasted EXCEPT ![l] = @ + 1]
          /\ UNCHANGED list
    /\ UNCHANGED <<matches, used, count, key, mine, reg, result, pushed, calls, crashed>>

\* s.matchesCount[endpointID]++
LoadCount(g) ==
    /\ At(g, "load") /\ Goto(g, "store")
    /\ reg' = [reg EXCEPT ![g] = count[key[g]]]
    /\ UNCHANGED <<store, key, mine, result, history, calls, crashed>>

StoreCount(g) ==
    /\ At(g, "store") /\ Goto(g, "idle")
    /\ count' = [count EXCEPT ![key[g]] = reg[g] + 1]
    /\ UNCHANGED <<matches, used, list, key, mine, reg, result, history, calls, crashed>>

\* matchesList := s.matches[endpointID]; if matchesList != nil
FindList(g) ==
    /\ At(g, "find")
    /\ mine' = [mine EXCEPT ![g] = matches[key[g]]]
    /\ Goto(g, IF matches[key[g]] = Nil THEN "zero" ELSE "clear")
    /\ UNCHANGED <<store, key, reg, result, history, calls, crashed>>

\* for match := Front(); match != nil; match = Front() { Remove(match) }
ClearList(g) ==
    LET l == mine[g] IN
    /\ At(g, "clear")
    /\ \/ /\ list[l] # <<>>
          /\ list' = [list EXCEPT ![l] = Tail(@)]
          /\ UNCHANGED pc
       \/ /\ list[l] = <<>>
          /\ Goto(g, "zero")
          /\ UNCHANGED list
    /\ UNCHANGED <<matches, used, count, key, mine, reg, result, history, calls, crashed>>

\* A delete that keeps the counter.
ZeroCountMutant(g) ==
    /\ At(g, "zero") /\ Goto(g, "idle")
    /\ UNCHANGED <<store, key, mine, reg, result, history, calls, crashed>>

\* s.matchesCount[endpointID] = uint64(0)
ZeroCount(g) ==
    /\ At(g, "zero") /\ Goto(g, "idle")
    /\ count' = [count EXCEPT ![key[g]] = 0]
    /\ UNCHANGED <<matches, used, list, key, mine, reg, result, history, calls, crashed>>

\* matchesList := s.matches[endpointID]; if matchesList != nil
GetList(g) ==
    /\ At(g, "get")
    /\ mine' = [mine EXCEPT ![g] = matches[key[g]]]
    /\ Goto(g, IF matches[key[g]] = Nil THEN "idle" ELSE "first")
    /\ UNCHANGED <<store, key, reg, result, history, calls, crashed>>

\* match := matchesList.Front(), and the first turn of the loop
ReadFirst(g) ==
    LET l == mine[g] IN
    /\ At(g, "first")
    /\ \/ /\ list[l] # <<>>
          /\ reg' = [reg EXCEPT ![g] = Head(list[l])]
          /\ result' = [result EXCEPT ![g] = <<Head(list[l])>>]
          /\ Goto(g, "next")
       \/ /\ list[l] = <<>>
          /\ Goto(g, "idle")
          /\ UNCHANGED <<reg, result>>
    /\ UNCHANGED <<store, key, mine, history, calls, crashed>>

\* match.Next() is nil for the last element, and for one that was removed from its list.
IsNext(l, e, i) == list[l][i - 1] = e
NextIsNil(l, e) == \A i \in 2..Len(list[l]) : ~IsNext(l, e, i)

\* A loop over the positions of the list.
ReadNextMutant(g) ==
    LET l == mine[g]
        i == Len(result[g]) + 1 IN
    /\ At(g, "next")
    /\ \/ /\ i <= Len(list[l])
          /\ reg' = [reg EXCEPT ![g] = list[l][i]]
          /\ result' = [result EXCEPT ![g] = Append(@, list[l][i])]
          /\ UNCHANGED pc
       \/ /\ i > Len(list[l])
          /\ Goto(g, "idle")
          /\ result' = [result EXCEPT ![g] = <<>>]
          /\ UNCHANGED reg
    /\ UNCHANGED <<store, key, mine, history, calls, crashed>>

\* match = match.Next(), and the next turn of the loop or the return of the result
ReadNext(g) ==
    LET l == mine[g] IN
    /\ At(g, "next")
    /\ \/ \E i \in 2..Len(list[l]) :
             /\ IsNext(l, reg[g], i)
             /\ reg' = [reg EXCEPT ![g] = list[l][i]]
             /\ result' = [result EXCEPT ![g] = Append(@, list[l][i])]
             /\ UNCHANGED pc
       \/ /\ NextIsNil(l, reg[g])
          /\ Goto(g, "idle")
          /\ result' = [result EXCEPT ![g] = <<>>]
          /\ UNCHANGED reg
    /\ UNCHANGED <<store, key, mine, history, calls, crashed>>

\* return s.matchesCount[endpointID]
ReadCount(g) ==
    /\ At(g, "count") /\ Goto(g, "idle")
    /\ UNCHANGED <<store, key, mine, reg, result, history, calls, crashed>>

\* The Go runtime stops the process, which keeps nothing, when it notices that a
\* goroutine writes one of the two maps while another one accesses it.
AtMap(labels) == {g \in Goroutines : pc[g] \in labels /\ key[g] \in EndpointIDs}

ConcurrentMapAccess ==
    /\ ~crashed
    /\ \/ \E g \in AtMap({"create"}), h \in AtMap({"ensure", "create", "read", "find", "get"}) : g # h
       \/ \E g \in AtMap({"store", "zero"}), h \in AtMap({"load", "store", "zero", "count"}) : g # h
    /\ crashed' = TRUE
    /\ UNCHANGED <<store, pc, key, mine, reg, result, history, calls>>

Statement(g) ==
    \/ EnsureList(g) \/ CreateList(g) \/ ReadList(g) \/ PushBack(g) \/ CheckLen(g)
    \/ ListFront(g) \/ ListRemove(g) \/ LoadCount(g) \/ StoreCount(g)
    \/ FindList(g) \/ ClearList(g) \/ ZeroCount(g)
    \/ GetList(g) \/ ReadFirst(g) \/ ReadNext(g) \/ ReadCount(g)

Next ==
    \/ \E g \in Goroutines :
          \/ AddMismatch(g) \/ DeleteMismatches(g) \/ GetMismatches(g) \/ GetMismatchesCount(g)
          \/ \E k \in EndpointIDs : \/ AddMatch(g, k) \/ DeleteMatches(g, k)
                                   \/ GetMatches(g, k) \/ GetMatchesCount(g, k)
          \/ Statement(g)
    \/ ConcurrentMapAccess

Spec == Init /\ [][Next]_vars

\* The list of a key, if it has one.
Stored(k) == IF matches[k] = Nil THEN <<>> ELSE list[matches[k]]

-----------------------------------------------------------------------------
\* The goroutines that have pushed to l and have not finished evicting.
Evicting(l) == {g \in Goroutines : mine[g] = l /\ pc[g] \in {"evict", "front", "remove"}}

AtRest == \A g \in Goroutines : pc[g] = "idle"

\* The goroutines that hold a list.
Holding == {g \in Goroutines : pc[g] \in {"push", "evict", "front", "remove", "clear",
                                        "first", "next"}}

\* Type correctness of the store's fields and of the goroutines' locals; the
\* pointers that are dereferenced are not nil.
TypeOK ==
    /\ matches \in [Keys -> Lists \cup {Nil}] /\ matches[MismatchesKey] # Nil
    /\ used \subseteq Lists
    /\ list \in [Lists -> Seq(Nat)]
    /\ count \in [Keys -> Nat]
    /\ pc \in [Goroutines -> PC]
    /\ key \in [Goroutines -> Keys]
    /\ mine \in [Goroutines -> Lists \cup {Nil}]
    /\ \A g \in Holding : mine[g] # Nil
    /\ \A g \in Goroutines : pc[g] = "read" => matches[key[g]] # Nil
    /\ reg \in [Goroutines -> Nat]
    /\ result \in [Goroutines -> Seq(Nat)]
    /\ pushed \in [Lists -> Nat] /\ wasted \in [Lists -> Nat]
    /\ calls \in Nat
    /\ crashed \in BOOLEAN

\* However the unlocked calls interleave, a list exceeds the size of the store by
\* at most the adders between PushBack and Remove and the evictions that met an
\* element another goroutine had already removed.
CapacityBound ==
    \A l \in Lists : Len(list[l]) <= size + Cardinality(Evicting(l)) + wasted[l]

\* Evictions and deletes take from the front only: however they interleave, a
\* list holds the newest pushes to it, without a gap and in their order.
NewestKept ==
    \A l \in Lists : \A i \in 1..Len(list[l]) :
        list[l][i] = pushed[l] - Len(list[l]) + i

\* GetMatches walks the list without a lock and its Next() is nil at an element
\* that was removed meanwhile, so a listing can be cut short.  What it returns is a
\* gap-free run of pushes in their order, and when it returns, the list holds
\* nothing that is not listed, or nothing that is.
ReadsAllOrNothing ==
    \A g \in Goroutines : pc[g] = "next" =>
        /\ \A i \in 2..Len(result[g]) : result[g][i] = result[g][i - 1] + 1
        /\ NextIsNil(mine[g], reg[g]) =>
              \/ ToSet(list[mine[g]]) \subseteq ToSet(result[g])
              \/ ToSet(list[mine[g]]) \cap ToSet(result[g]) = {}

-----------------------------------------------------------------------------
(* What the README says of the store, and concurrent calls do not keep.    *)

\* At rest a list holds at most MATCHES_CAPACITY requests.  Fails when evictions
\* are wasted, and when the capacity is one less than the width of a uint16.
CapacityAsConfigured ==
    AtRest => \A l \in Lists : Len(list[l]) <= MatchesCapacity

\* At rest every recorded request is in a list GetMatches can return.  Fails when
\* two goroutines create the list of an endpoint.
NothingOrphaned ==
    AtRest => \A l \in Lists : list[l] # <<>> => \E k \in Keys : matches[k] = l

\* At rest GetMatchesCount is never below the number of requests GetMatches
\* returns: the counter is not limited by the capacity.  Fails when an add
\* overlaps a delete or another add.
CountCoversList ==
    AtRest => \A k \in Keys : count[k] >= Len(Stored(k))

-----------------------------------------------------------------------------
\* With a single goroutine the statements of an operation implement one step of
\* Matchstore: an add takes effect at its PushBack, a delete when it is called.
Newest(s, n) == IF Len(s) <= n THEN s ELSE SubSeq(s, Len(s) - n + 1, Len(s))

Doing(k, labels) == \E g \in Goroutines : key[g] = k /\ pc[g] \in labels

AbstractList ==
    [k \in Keys |-> IF Doing(k, {"find", "clear", "zero"}) THEN <<>>
                    ELSE Newest(Stored(k), MatchesCapacity)]
AbstractCount ==
    [k \in Keys |-> IF Doing(k, {"find", "clear", "zero"}) THEN 0
                    ELSE IF Doing(k, {"evict", "front", "remove", "load", "store"})
                         THEN count[k] + 1 ELSE count[k]]

Promise == INSTANCE Matchstore WITH
    matches <- AbstractList, matchesCount <- AbstractCount,
    Match <- 1..MaxCalls, Capacity <- MatchesCapacity

\* Calls that do not overlap keep the promise of the interface: each one is a
\* single atomic step that keeps the newest MATCHES_CAPACITY requests.
KeepsPromise == Promise!Spec
=============================================================================
