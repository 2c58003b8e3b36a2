--------------------- MODULE InMemoryMatchstoreProofs ---------------------
(***************************************************************************)
(* Proofs about InMemoryMatchstore for any number of goroutines, keys,     *)
(* lists and calls.                                                        *)
(***************************************************************************)
EXTENDS InMemoryMatchstore, ListFacts, FiniteSetTheorems, TLAPS

\* size is a number: a Nat modulo a positive Nat.
LEMMA SizeNat == size \in Nat
  BY ConstantsAssumption DEF size

\* A length below the width is not changed by the conversion to uint16.
LEMMA NoWrap ==
    ASSUME NEW w \in Nat, NEW n \in Nat, n < w
    PROVE  n % w = n
  BY SMT

\* Every statement of every operation keeps the fields and locals in their types.
LEMMA TypeStep == TypeOK /\ [Next]_vars => TypeOK'
<1> SUFFICES ASSUME TypeOK, [Next]_vars PROVE TypeOK'
  OBVIOUS
<1> USE DEF PC, At, Goto, store, history
<1>1. ASSUME NEW g \in Goroutines, NEW k \in Keys, NEW label \in {"ensure", "read", "find", "get", "count"},
             label = "read" => k = MismatchesKey, Call(g, k, label)
      PROVE TypeOK'
  BY <1>1 DEF Call, TypeOK, Holding
<1>2. ASSUME NEW g \in Goroutines, Statement(g) PROVE TypeOK'
  <2>1. CASE EnsureList(g)
    BY <2>1 DEF EnsureList, TypeOK, Holding
  <2>2. CASE CreateList(g)
    <3> PICK l \in Lists \ used : used' = used \cup {l} /\ matches' = [matches EXCEPT ![key[g]] = l]
      BY <2>2 DEF CreateList
    <3> l # Nil
      BY ConstantsAssumption
    <3> QED
      BY <2>2 DEF CreateList, TypeOK, Holding
  <2>3. CASE ReadList(g)
    BY <2>3 DEF ReadList, TypeOK, Holding
  <2>4. CASE PushBack(g)
    <3> mine[g] \in Lists
      BY <2>4 DEF PushBack, TypeOK, Holding
    <3>1. list' \in [Lists -> Seq(Nat)] /\ pushed' \in [Lists -> Nat]
      BY <2>4 DEF PushBack, TypeOK
    <3> QED
      BY <2>4, <3>1 DEF PushBack, TypeOK, Holding
  <2>5. CASE CheckLen(g)
    BY <2>5 DEF CheckLen, TypeOK, Holding
  <2>6. CASE ListFront(g)
    <3> mine[g] \in Lists /\ list[mine[g]] \in Seq(Nat)
      BY <2>6 DEF ListFront, TypeOK, Holding
    <3>1. reg' \in [Goroutines -> Nat]
      <4>1. CASE list[mine[g]] # <<>>
        <5> Head(list[mine[g]]) \in Nat
          BY <4>1
        <5> QED
          BY <2>6, <4>1 DEF ListFront, TypeOK
      <4>2. CASE list[mine[g]] = <<>>
        BY <2>6, <4>2 DEF ListFront, TypeOK
      <4> QED
        BY <4>1, <4>2
    <3> QED
      BY <2>6, <3>1 DEF ListFront, TypeOK, Holding
  <2>7. CASE ListRemove(g)
    <3> mine[g] \in Lists /\ list[mine[g]] \in Seq(Nat)
      BY <2>7 DEF ListRemove, TypeOK, Holding
    <3>1. list' \in [Lists -> Seq(Nat)] /\ wasted' \in [Lists -> Nat]
      <4>1. CASE IsFront(mine[g], reg[g])
        <5> Tail(list[mine[g]]) \in Seq(Nat)
          BY <4>1, TailFacts DEF IsFront
        <5> list' = [list EXCEPT ![mine[g]] = Tail(list[mine[g]])] /\ wasted' = wasted
          BY <2>7, <4>1 DEF ListRemove
        <5> QED
          BY DEF TypeOK
      <4>2. CASE ~IsFront(mine[g], reg[g])
        BY <2>7, <4>2 DEF ListRemove, TypeOK
      <4> QED
        BY <4>1, <4>2
    <3> QED
      BY <2>7, <3>1 DEF ListRemove, TypeOK, Holding
  <2>8. CASE LoadCount(g)
    BY <2>8 DEF LoadCount, TypeOK, Holding
  <2>9. CASE StoreCount(g)
    BY <2>9 DEF StoreCount, TypeOK, Holding
  <2>10. CASE FindList(g)
    BY <2>10 DEF FindList, TypeOK, Holding
  <2>11. CASE ClearList(g)
    <3> mine[g] \in Lists /\ list[mine[g]] \in Seq(Nat)
      BY <2>11 DEF ClearList, TypeOK, Holding
    <3>1. list' \in [Lists -> Seq(Nat)]
      <4>1. CASE list[mine[g]] # <<>>
        <5> Tail(list[mine[g]]) \in Seq(Nat)
          BY <4>1, TailFacts
        <5> QED
          BY <2>11, <4>1 DEF ClearList, TypeOK
      <4>2. CASE list[mine[g]] = <<>>
        BY <2>11, <4>2 DEF ClearList, TypeOK
      <4> QED
        BY <4>1, <4>2
    <3> QED
      BY <2>11, <3>1 DEF ClearList, TypeOK, Holding
  <2>12. CASE ZeroCount(g)
    BY <2>12 DEF ZeroCount, TypeOK, Holding
  <2>13. CASE GetList(g) \/ ReadCount(g)
    BY <2>13 DEF GetList, ReadCount, TypeOK, Holding
  <2>14. CASE ReadFirst(g)
    <3> mine[g] \in Lists /\ list[mine[g]] \in Seq(Nat)
      BY <2>14 DEF ReadFirst, TypeOK, Holding
    <3>1. reg' \in [Goroutines -> Nat] /\ result' \in [Goroutines -> Seq(Nat)]
      <4>1. CASE list[mine[g]] # <<>>
        <5>1. Head(list[mine[g]]) \in Nat /\ <<Head(list[mine[g]])>> \in Seq(Nat)
          BY <4>1
        <5>2. /\ reg' = [reg EXCEPT ![g] = Head(list[mine[g]])]
              /\ result' = [result EXCEPT ![g] = <<Head(list[mine[g]])>>]
          BY <2>14, <4>1 DEF ReadFirst
        <5> QED
          BY <5>1, <5>2 DEF TypeOK
      <4>2. CASE list[mine[g]] = <<>>
        BY <2>14, <4>2 DEF ReadFirst, TypeOK
      <4> QED
        BY <4>1, <4>2
    <3> QED
      BY <2>14, <3>1 DEF ReadFirst, TypeOK, Holding
  <2>15. CASE ReadNext(g)
    <3> mine[g] \in Lists /\ list[mine[g]] \in Seq(Nat)
      BY <2>15 DEF ReadNext, TypeOK, Holding
    <3>1. reg' \in [Goroutines -> Nat] /\ result' \in [Goroutines -> Seq(Nat)]
      <4>1. ASSUME NEW i \in 2..Len(list[mine[g]]), reg' = [reg EXCEPT ![g] = list[mine[g]][i]],
                   result' = [result EXCEPT ![g] = Append(result[g], list[mine[g]][i])]
            PROVE  reg' \in [Goroutines -> Nat] /\ result' \in [Goroutines -> Seq(Nat)]
        <5>1. list[mine[g]][i] \in Nat /\ result[g] \in Seq(Nat)
          BY <4>1 DEF TypeOK
        <5> QED
          BY <4>1, <5>1 DEF TypeOK
      <4>2. CASE result' = [result EXCEPT ![g] = <<>>] /\ reg' = reg
        BY <4>2 DEF TypeOK
      <4> QED
        BY <2>15, <4>1, <4>2 DEF ReadNext
    <3> QED
      BY <2>15, <3>1 DEF ReadNext, TypeOK, Holding
  <2> QED
    BY <1>2, <2>1, <2>2, <2>3, <2>4, <2>5, <2>6, <2>7, <2>8, <2>9, <2>10, <2>11, <2>12, <2>13,
       <2>14, <2>15 DEF Statement
<1>3. CASE ConcurrentMapAccess
  BY <1>3 DEF ConcurrentMapAccess, TypeOK, Holding
<1>4. CASE UNCHANGED vars
  BY <1>4 DEF vars, TypeOK, Holding
<1> QED
  <2> EndpointIDs \subseteq Keys /\ MismatchesKey \in Keys
    BY DEF Keys
  <2> QED
    BY <1>1, <1>2, <1>3, <1>4
     DEF Next, AddMatch, AddMismatch, DeleteMatches, DeleteMismatches,
         GetMatches, GetMismatches, GetMatchesCount, GetMismatchesCount

\* The empty store is well typed.
LEMMA TypeInit == Init => TypeOK
<1> SUFFICES ASSUME Init PROVE TypeOK
  OBVIOUS
<1> USE ConstantsAssumption DEF Init, Keys, PC
<1>1. list \in [Lists -> Seq(Nat)] /\ count \in [Keys -> Nat]
      /\ pushed \in [Lists -> Nat] /\ wasted \in [Lists -> Nat]
  OBVIOUS
<1>2. crashed \in BOOLEAN /\ calls \in Nat /\ used \subseteq Lists
  OBVIOUS
<1>3. /\ pc \in [Goroutines -> PC] /\ key \in [Goroutines -> Keys] /\ reg \in [Goroutines -> Nat]
      /\ mine \in [Goroutines -> Lists \cup {Nil}] /\ result \in [Goroutines -> Seq(Nat)]
  OBVIOUS
<1>4. matches \in [Keys -> Lists \cup {Nil}] /\ matches[MismatchesKey] # Nil
  OBVIOUS
<1>5. (\A g \in Holding : mine[g] # Nil)
      /\ \A g \in Goroutines : pc[g] = "read" => matches[key[g]] # Nil
  BY DEF Holding
<1> QED
  BY <1>1, <1>2, <1>3, <1>4, <1>5 DEF TypeOK

\* The store is type-correct in every reachable state, and no nil list is ever
\* dereferenced.
THEOREM TypeCorrect == Spec => []TypeOK
  BY TypeInit, TypeStep, PTL DEF Spec

-----------------------------------------------------------------------------
\* The number of evicting goroutines is a number.
LEMMA EvictingFinite ==
    ASSUME NEW l \in Lists
    PROVE  IsFiniteSet(Evicting(l)) /\ Cardinality(Evicting(l)) \in Nat
           /\ Cardinality(Evicting(l)) <= Cardinality(Goroutines)
           /\ Cardinality(Goroutines) \in Nat
<1> Evicting(l) \subseteq Goroutines
  BY DEF Evicting
<1> QED
  BY ConstantsAssumption, FS_Subset, FS_CardinalityType

\* A goroutine that starts or stops evicting changes it by one.
LEMMA EvictingStep ==
    ASSUME NEW l \in Lists, NEW g \in Goroutines
    PROVE  /\ Evicting(l)' = Evicting(l) \cup {g} /\ g \notin Evicting(l)
                => Cardinality(Evicting(l)') = Cardinality(Evicting(l)) + 1
           /\ Evicting(l)' = Evicting(l) \ {g} /\ g \in Evicting(l)
                => Cardinality(Evicting(l)') = Cardinality(Evicting(l)) - 1
  BY EvictingFinite, FS_AddElement, FS_RemoveElement

\* What a statement may do to a list, to the goroutines that evict from it and
\* to its history: nothing, or one of the cases that follow.
Untouched(l) ==
    list'[l] = list[l] /\ pushed'[l] = pushed[l] /\ wasted'[l] = wasted[l]
    /\ Evicting(l)' = Evicting(l)

\* A push, by a goroutine that will then evict.
Pushed(l) ==
    /\ list'[l] = Append(list[l], pushed[l] + 1) /\ pushed'[l] = pushed[l] + 1
    /\ wasted'[l] = wasted[l]
    /\ \E g \in Goroutines : Evicting(l)' = Evicting(l) \cup {g} /\ g \notin Evicting(l)

\* The end of an eviction: an element less, a wasted Remove, or nothing to evict.
Evicted(l) ==
    /\ pushed'[l] = pushed[l]
    /\ \E g \in Goroutines : Evicting(l)' = Evicting(l) \ {g} /\ g \in Evicting(l)
    /\ \/ list[l] # <<>> /\ list'[l] = Tail(list[l]) /\ wasted'[l] = wasted[l]
       \/ list'[l] = list[l] /\ wasted'[l] = wasted[l] + 1
       \/ list'[l] = list[l] /\ wasted'[l] = wasted[l] /\ ~OverCapacity(Len(list[l]))
       \/ list'[l] = <<>> /\ list[l] = <<>> /\ wasted'[l] = wasted[l]

\* A turn of the loop of a delete.
Cleared(l) ==
    /\ list[l] # <<>> /\ list'[l] = Tail(list[l])
    /\ pushed'[l] = pushed[l] /\ wasted'[l] = wasted[l] /\ Evicting(l)' = Evicting(l)

\* Every step does one of these to every list.
LEMMA ListStep ==
    ASSUME TypeOK, [Next]_vars, NEW l \in Lists
    PROVE  Untouched(l) \/ Pushed(l) \/ Evicted(l) \/ Cleared(l)
<1> USE DEF At, Goto, store, history
<1>1. ASSUME NEW g \in Goroutines, NEW k \in Keys, NEW label \in {"ensure", "read", "find", "get", "count"},
             Call(g, k, label)
      PROVE Untouched(l)
  BY <1>1 DEF Call, Untouched, Evicting, TypeOK
<1>2. ASSUME NEW g \in Goroutines, Statement(g)
      PROVE Untouched(l) \/ Pushed(l) \/ Evicted(l) \/ Cleared(l)
  <2>1. CASE EnsureList(g)
    BY <2>1 DEF EnsureList, Untouched, Evicting, TypeOK
  <2>2. CASE CreateList(g)
    BY <2>2 DEF CreateList, Untouched, Evicting, TypeOK
  <2>3. CASE ReadList(g)
    BY <2>3 DEF ReadList, Untouched, Evicting, TypeOK
  <2>4. CASE PushBack(g)
    <3>1. CASE mine[g] = l
      <4>1. Evicting(l)' = Evicting(l) \cup {g} /\ g \notin Evicting(l)
        BY <2>4, <3>1 DEF PushBack, Evicting, TypeOK
      <4>2. list'[l] = Append(list[l], pushed[l] + 1) /\ pushed'[l] = pushed[l] + 1 /\ wasted' = wasted
        BY <2>4, <3>1 DEF PushBack, TypeOK
      <4> QED
        BY <4>1, <4>2 DEF Pushed
    <3>2. CASE mine[g] # l
      BY <2>4, <3>2 DEF PushBack, Untouched, Evicting, TypeOK
    <3> QED
      BY <3>1, <3>2
  <2>5. CASE CheckLen(g)
    <3>1. CASE mine[g] = l /\ ~OverCapacity(Len(list[l]))
      <4>1. Evicting(l)' = Evicting(l) \ {g} /\ g \in Evicting(l)
        BY <2>5, <3>1 DEF CheckLen, Evicting, TypeOK
      <4> QED
        BY <2>5, <3>1, <4>1 DEF CheckLen, Evicted
    <3>2. CASE ~(mine[g] = l /\ ~OverCapacity(Len(list[l])))
      BY <2>5, <3>2 DEF CheckLen, Untouched, Evicting, TypeOK
    <3> QED
      BY <3>1, <3>2
  <2>6. CASE ListFront(g)
    <3>1. CASE mine[g] = l /\ list[l] = <<>>
      <4>1. Evicting(l)' = Evicting(l) \ {g} /\ g \in Evicting(l)
        BY <2>6, <3>1 DEF ListFront, Evicting, TypeOK
      <4> QED
        BY <2>6, <3>1, <4>1 DEF ListFront, Evicted
    <3>2. CASE ~(mine[g] = l /\ list[l] = <<>>)
      BY <2>6, <3>2 DEF ListFront, Untouched, Evicting, TypeOK
    <3> QED
      BY <3>1, <3>2
  <2>7. CASE ListRemove(g)
    <3>1. CASE mine[g] = l
      <4>1. Evicting(l)' = Evicting(l) \ {g} /\ g \in Evicting(l) /\ pushed' = pushed
        BY <2>7, <3>1 DEF ListRemove, Evicting, TypeOK
      <4>2. CASE IsFront(l, reg[g])
        <5> list[l] # <<>> /\ list'[l] = Tail(list[l]) /\ wasted' = wasted
          BY <2>7, <3>1, <4>2 DEF ListRemove, IsFront, TypeOK
        <5> QED
          BY <4>1 DEF Evicted
      <4>3. CASE ~IsFront(l, reg[g])
        <5> list' = list /\ wasted'[l] = wasted[l] + 1
          BY <2>7, <3>1, <4>3 DEF ListRemove, TypeOK
        <5> QED
          BY <4>1 DEF Evicted
      <4> QED
        BY <4>2, <4>3
    <3>2. CASE mine[g] # l
      BY <2>7, <3>2 DEF ListRemove, Untouched, Evicting, TypeOK
    <3> QED
      BY <3>1, <3>2
  <2>8. CASE LoadCount(g) \/ StoreCount(g) \/ ZeroCount(g)
    BY <2>8 DEF LoadCount, StoreCount, ZeroCount, Untouched, Evicting, TypeOK
  <2>9. CASE FindList(g)
    BY <2>9 DEF FindList, Untouched, Evicting, TypeOK
  <2>10. CASE ClearList(g)
    <3>1. Evicting(l)' = Evicting(l)
      BY <2>10 DEF ClearList, Evicting, TypeOK
    <3> QED
      BY <2>10, <3>1 DEF ClearList, Untouched, Cleared, TypeOK
  <2>11. CASE GetList(g)
    BY <2>11 DEF GetList, Untouched, Evicting, TypeOK
  <2>12. CASE ReadFirst(g) \/ ReadNext(g) \/ ReadCount(g)
    BY <2>12 DEF ReadFirst, ReadNext, ReadCount, Untouched, Evicting, TypeOK
  <2> QED
    BY <1>2, <2>1, <2>2, <2>3, <2>4, <2>5, <2>6, <2>7, <2>8, <2>9, <2>10, <2>11, <2>12 DEF Statement
<1>3. CASE ConcurrentMapAccess \/ UNCHANGED vars
  BY <1>3 DEF ConcurrentMapAccess, vars, Untouched, Evicting
<1> QED
  BY <1>1, <1>2, <1>3
     DEF Next, AddMatch, AddMismatch, DeleteMatches, DeleteMismatches,
         GetMatches, GetMismatches, GetMatchesCount, GetMismatchesCount, Keys

-----------------------------------------------------------------------------
\* As long as lists are shorter than the width of a uint16 the check of the
\* capacity compares the real length.
LEMMA CheckSound ==
    ASSUME NEW n \in Nat, n < WordSize, ~OverCapacity(n)
    PROVE  n <= size
<1> n % WordSize = n
  BY ConstantsAssumption, NoWrap
<1> QED
  BY SizeNat DEF OverCapacity

\* No list is so long that its length wraps in the conversion to uint16.
Unwrapped == \A l \in Lists : Len(list[l]) < WordSize

\* CapacityBound is inductive given the types: a PushBack makes the list longer
\* and its goroutine an evicting one; a goroutine stops evicting when it has
\* removed an element, has wasted its Remove or has found the list within the size.
LEMMA CapacityStep ==
    ASSUME TypeOK, CapacityBound, [Next]_vars, Unwrapped
    PROVE  CapacityBound'
<1> SUFFICES ASSUME NEW l \in Lists
             PROVE  Len(list'[l]) <= size + Cardinality(Evicting(l)') + wasted'[l]
  BY DEF CapacityBound
<1> DEFINE n == Len(list[l])  E == Cardinality(Evicting(l))  w == wasted[l]
<1>0. /\ n \in Nat /\ E \in Nat /\ w \in Nat /\ size \in Nat
      /\ n <= size + E + w /\ list[l] \in Seq(Nat) /\ n < WordSize
  BY EvictingFinite, SizeNat DEF CapacityBound, TypeOK, Unwrapped
<1>1. CASE Untouched(l)
  BY <1>0, <1>1 DEF Untouched
<1>2. CASE Pushed(l)
  <2>1. Cardinality(Evicting(l)') = E + 1
    BY <1>2, EvictingStep DEF Pushed
  <2>2. Len(list'[l]) = n + 1 /\ wasted'[l] = w
    BY <1>0, <1>2 DEF Pushed
  <2> QED
    BY ONLY <1>0, <2>1, <2>2
<1>3. CASE Evicted(l)
  <2>1. Cardinality(Evicting(l)') = E - 1 /\ E - 1 \in Nat
    <3> PICK g \in Goroutines : Evicting(l)' = Evicting(l) \ {g} /\ g \in Evicting(l)
      BY <1>3 DEF Evicted
    <3>1. Cardinality(Evicting(l)') = E - 1
      BY EvictingStep
    <3>2. Cardinality(Evicting(l)') \in Nat
      BY EvictingFinite, FS_RemoveElement, FS_CardinalityType
    <3> QED
      BY <3>1, <3>2
  <2>2. CASE list[l] # <<>> /\ list'[l] = Tail(list[l]) /\ wasted'[l] = wasted[l]
    <3>1. Len(list'[l]) = n - 1 /\ wasted'[l] = w
      BY <1>0, <2>2, TailFacts
    <3> QED
      BY ONLY <1>0, <2>1, <3>1
  <2>3. CASE list'[l] = list[l] /\ wasted'[l] = wasted[l] + 1
    BY <1>0, <2>1, <2>3
  <2>4. CASE list'[l] = list[l] /\ wasted'[l] = wasted[l] /\ ~OverCapacity(Len(list[l]))
    <3> n <= size
      BY <1>0, <2>4, CheckSound
    <3> QED
      BY <1>0, <2>1, <2>4
  <2>5. CASE list'[l] = <<>> /\ wasted'[l] = wasted[l]
    BY <1>0, <2>1, <2>5
  <2> QED
    BY <1>3, <2>2, <2>3, <2>4, <2>5 DEF Evicted
<1>4. CASE Cleared(l)
  <2> Len(list'[l]) = n - 1
    BY <1>0, <1>4, TailFacts DEF Cleared
  <2> QED
    BY <1>0, <1>4 DEF Cleared
<1> QED
  BY <1>1, <1>2, <1>3, <1>4, ListStep

\* The capacity bound of the in-memory store, for any number of goroutines, for
\* as long as the length compared as a uint16 does not wrap: a list exceeds its
\* size only by the adders that have not evicted yet and the wasted evictions.
THEOREM CapacityBounded == Spec /\ []Unwrapped => []CapacityBound
<1>1. Init => CapacityBound
  <2> SUFFICES ASSUME Init, NEW l \in Lists
               PROVE  Len(list[l]) <= size + Cardinality(Evicting(l)) + wasted[l]
    BY DEF CapacityBound
  <2> Len(list[l]) = 0 /\ wasted[l] = 0
    BY DEF Init
  <2> QED
    BY EvictingFinite, SizeNat
<1>2. TypeOK /\ CapacityBound /\ Unwrapped /\ [Next]_vars => CapacityBound'
  BY CapacityStep
<1> QED
  BY <1>1, <1>2, TypeCorrect, PTL DEF Spec

-----------------------------------------------------------------------------
\* A list holds the newest pushes to it, gap-free and in order.
Kept == \A l \in Lists : Consecutive(list[l], pushed[l])

\* Every step keeps the lists gap-free.
LEMMA KeptStep == TypeOK /\ Kept /\ [Next]_vars => Kept'
<1> SUFFICES ASSUME TypeOK, Kept, [Next]_vars, NEW l \in Lists
             PROVE  Consecutive(list'[l], pushed'[l])
  BY DEF Kept
<1>0. Consecutive(list[l], pushed[l]) /\ list[l] \in Seq(Nat) /\ pushed[l] \in Nat
  BY DEF TypeOK, Kept
<1>1. CASE list'[l] = list[l] /\ pushed'[l] = pushed[l]
  BY <1>0, <1>1
<1>2. CASE list'[l] = Append(list[l], pushed[l] + 1) /\ pushed'[l] = pushed[l] + 1
  BY <1>0, <1>2, ConsecutivePush
<1>3. CASE list[l] # <<>> /\ list'[l] = Tail(list[l]) /\ pushed'[l] = pushed[l]
  BY <1>0, <1>3, ConsecutiveTail
<1>4. CASE list'[l] = <<>>
  BY <1>4, ConsecutiveEmpty
<1> QED
  BY <1>1, <1>2, <1>3, <1>4, ListStep DEF Untouched, Pushed, Evicted, Cleared

\* It holds in every reachable state.
LEMMA KeptAlways == Spec => []Kept
<1>1. Init => Kept
  BY ConsecutiveEmpty DEF Init, Kept
<1> QED
  BY <1>1, KeptStep, TypeCorrect, PTL DEF Spec

\* No interleaving of adds, evictions, deletes and list creations leaves in a list
\* anything but the newest pushes to it, gap-free and in order.
THEOREM NewestAlwaysKept == Spec => []NewestKept
<1>1. Kept => NewestKept
  BY DEF Kept, Consecutive, NewestKept
<1> QED
  BY <1>1, KeptAlways, PTL

-----------------------------------------------------------------------------
(* The walk of a read over a list that others change. *)

\* The listing is a run of pushes that ends with the current element and begins
\* no later than what the list still holds.
Walking(g) ==
    /\ Consecutive(result[g], reg[g]) /\ Len(result[g]) > 0
    /\ reg[g] <= pushed[mine[g]]
    /\ reg[g] - Len(result[g]) <= pushed[mine[g]] - Len(list[mine[g]])

Walks == \A g \in Goroutines : pc[g] = "next" => Walking(g)

\* Whatever is done to a list, it has seen as many pushes, and at its front it has
\* lost nothing it then gets back.
LEMMA FrontGrows ==
    ASSUME TypeOK, [Next]_vars, NEW l \in Lists
    PROVE  /\ pushed[l] <= pushed'[l]
           /\ pushed[l] - Len(list[l]) <= pushed'[l] - Len(list'[l])
<1>0. list[l] \in Seq(Nat) /\ pushed[l] \in Nat
  BY DEF TypeOK
<1>1. CASE list'[l] = list[l] /\ pushed'[l] = pushed[l]
  BY <1>0, <1>1
<1>2. CASE list'[l] = Append(list[l], pushed[l] + 1) /\ pushed'[l] = pushed[l] + 1
  <2>1. Len(list'[l]) = Len(list[l]) + 1 /\ Len(list[l]) \in Nat
    BY <1>0, <1>2
  <2> QED
    BY <1>0, <1>2, <2>1
<1>3. CASE list[l] # <<>> /\ list'[l] = Tail(list[l]) /\ pushed'[l] = pushed[l]
  <2>1. Len(list'[l]) = Len(list[l]) - 1 /\ Len(list[l]) \in Nat
    BY <1>0, <1>3, TailFacts
  <2> QED
    BY <1>0, <1>3, <2>1
<1> QED
  BY <1>1, <1>2, <1>3, ListStep DEF Untouched, Pushed, Evicted, Cleared

\* A walk is begun by Front(), continued by Next(), and left alone by all else.
LEMMA WalkStep ==
    ASSUME TypeOK, [Next]_vars, NEW g \in Goroutines, pc'[g] = "next"
    PROVE  \/ ReadFirst(g) /\ list[mine[g]] # <<>>
           \/ ReadNext(g) /\ ~NextIsNil(mine[g], reg[g])
           \/ /\ pc[g] = "next" /\ mine'[g] = mine[g]
              /\ reg'[g] = reg[g] /\ result'[g] = result[g]
<1> USE DEF At, Goto, store, history
<1>0. pc \in [Goroutines -> PC]
  BY DEF TypeOK
<1> DEFINE Same == pc[g] = "next" /\ mine'[g] = mine[g] /\ reg'[g] = reg[g] /\ result'[g] = result[g]
           Aim == \/ ReadFirst(g) /\ list[mine[g]] # <<>>
                  \/ ReadNext(g) /\ ~NextIsNil(mine[g], reg[g])
                  \/ Same
<1>1. ASSUME NEW h \in Goroutines, NEW k, NEW label \in {"ensure", "read", "find", "get", "count"},
             Call(h, k, label)
      PROVE  Same
  BY <1>0, <1>1 DEF Call
<1>2. ASSUME NEW h \in Goroutines, Statement(h) PROVE Aim
  <2>1. CASE \/ EnsureList(h) \/ CreateList(h) \/ ReadList(h) \/ PushBack(h) \/ CheckLen(h)
             \/ ListFront(h) \/ ListRemove(h) \/ LoadCount(h)
    <3> Same
      BY <1>0, <2>1 DEF TypeOK, EnsureList, CreateList, ReadList, PushBack, CheckLen, ListFront,
                        ListRemove, LoadCount
    <3> QED
      OBVIOUS
  <2>2. CASE \/ StoreCount(h) \/ FindList(h) \/ ClearList(h) \/ ZeroCount(h) \/ GetList(h) \/ ReadCount(h)
    <3> Same
      BY <1>0, <2>2 DEF TypeOK, StoreCount, FindList, ClearList, ZeroCount, GetList, ReadCount
    <3> QED
      OBVIOUS
  <2>3. CASE ReadFirst(h)
    <3>1. h # g => Same
      BY <1>0, <2>3 DEF TypeOK, ReadFirst
    <3>2. h = g => list[mine[g]] # <<>>
      BY <1>0, <2>3 DEF ReadFirst
    <3> QED
      BY <2>3, <3>1, <3>2
  <2>4. CASE ReadNext(h)
    <3>1. h # g => Same
      BY <1>0, <2>4 DEF TypeOK, ReadNext
    <3>2. h = g => ~NextIsNil(mine[g], reg[g])
      BY <1>0, <2>4 DEF ReadNext, NextIsNil
    <3> QED
      BY <2>4, <3>1, <3>2
  <2> QED
    BY <1>2, <2>1, <2>2, <2>3, <2>4 DEF Statement
<1>3. CASE ConcurrentMapAccess \/ UNCHANGED vars
  BY <1>3 DEF ConcurrentMapAccess, vars
<1> QED
  BY <1>1, <1>2, <1>3
     DEF Next, AddMatch, AddMismatch, DeleteMatches, DeleteMismatches,
         GetMatches, GetMismatches, GetMatchesCount, GetMismatchesCount

\* Every step keeps the walks as they should be.
LEMMA WalksStep == TypeOK /\ Kept /\ Walks /\ [Next]_vars => Walks'
<1> SUFFICES ASSUME TypeOK, Kept, Walks, [Next]_vars, NEW g \in Goroutines, pc'[g] = "next"
             PROVE  Walking(g)'
  BY DEF Walks
<1> DEFINE l == mine[g]
<1>0. /\ pc \in [Goroutines -> PC] /\ reg \in [Goroutines -> Nat] /\ result \in [Goroutines -> Seq(Nat)]
      /\ \A x \in Lists : list[x] \in Seq(Nat) /\ pushed[x] \in Nat /\ Consecutive(list[x], pushed[x])
  BY DEF TypeOK, Kept
<1>1. ASSUME ReadFirst(g), list[l] # <<>> PROVE Walking(g)'
  <2>1. l \in Lists
    BY <1>1 DEF ReadFirst, At, TypeOK, Holding
  <2>2. /\ reg'[g] = Head(list[l]) /\ result'[g] = <<Head(list[l])>>
        /\ mine' = mine /\ list' = list /\ pushed' = pushed
    BY <1>0, <1>1 DEF ReadFirst, store, history
  <2>3. /\ Len(list[l]) \in Nat \ {0} /\ pushed[l] \in Nat /\ Head(list[l]) = list[l][1]
        /\ list[l][1] = pushed[l] - Len(list[l]) + 1
    <3>1. list[l] \in Seq(Nat) /\ list[l] # <<>> /\ pushed[l] \in Nat /\ Consecutive(list[l], pushed[l])
      BY <1>0, <1>1, <2>1
    <3>2. Len(list[l]) \in Nat \ {0} /\ Head(list[l]) = list[l][1]
      BY <3>1
    <3>3. 1 \in 1..Len(list[l])
      BY <3>2
    <3> QED
      BY <3>1, <3>2, <3>3 DEF Consecutive
  <2>4. Consecutive(<<Head(list[l])>>, Head(list[l])) /\ Len(<<Head(list[l])>>) = 1
    BY <2>3 DEF Consecutive
  <2>5. reg'[g] <= pushed[l] /\ reg'[g] - 1 <= pushed[l] - Len(list[l])
    BY <2>2, <2>3
  <2> QED
    BY <2>2, <2>4, <2>5 DEF Walking
<1>2. ASSUME ReadNext(g), ~NextIsNil(l, reg[g]) PROVE Walking(g)'
  <2>1. l \in Lists /\ pc[g] = "next"
    BY <1>2 DEF ReadNext, At, TypeOK, Holding
  <2>2. PICK i \in 2..Len(list[l]) :
           /\ list[l][i - 1] = reg[g]
           /\ reg' = [reg EXCEPT ![g] = list[l][i]]
           /\ result' = [result EXCEPT ![g] = Append(result[g], list[l][i])]
    BY <1>2 DEF ReadNext, IsNext
  <2>3. /\ reg'[g] = list[l][i] /\ result'[g] = Append(result[g], list[l][i])
        /\ mine' = mine /\ list' = list /\ pushed' = pushed
    BY <1>0, <1>2, <2>2 DEF ReadNext, store, history
  <2>4. /\ Consecutive(result[g], reg[g]) /\ Len(result[g]) > 0 /\ result[g] \in Seq(Nat) /\ reg[g] \in Nat
        /\ reg[g] - Len(result[g]) <= pushed[l] - Len(list[l])
    BY <1>0, <2>1 DEF Walks, Walking
  <2>5. /\ Len(list[l]) \in Nat /\ pushed[l] \in Nat /\ Consecutive(list[l], pushed[l])
    BY <1>0, <2>1
  <2>6. /\ list[l][i] = pushed[l] - Len(list[l]) + i
        /\ list[l][i - 1] = pushed[l] - Len(list[l]) + i - 1
    BY <2>5 DEF Consecutive
  <2>7. list[l][i] = reg[g] + 1 /\ list[l][i] <= pushed[l]
    <3> DEFINE v == list[l][i]
               w == list[l][i - 1]
               n == Len(list[l])
               p == pushed[l]
    <3>1. v = p - n + i /\ w = p - n + i - 1 /\ w = reg[g] /\ n \in Nat /\ p \in Nat /\ i \in 2..n
      BY <2>2, <2>5, <2>6
    <3> HIDE DEF v, w, n, p
    <3>2. v = w + 1
      BY ONLY <3>1
    <3>3. v <= p
      BY ONLY <3>1
    <3> QED
      BY <3>1, <3>2, <3>3 DEF v, p
  <2>8. Consecutive(Append(result[g], reg[g] + 1), reg[g] + 1)
    BY <2>4, ConsecutivePush
  <2>9. Len(Append(result[g], reg[g] + 1)) = Len(result[g]) + 1 /\ Len(result[g]) \in Nat
    BY <2>4
  <2>10. /\ Len(result'[g]) > 0 /\ reg'[g] <= pushed[l]
         /\ reg'[g] - Len(result'[g]) <= pushed[l] - Len(list[l])
    BY <2>3, <2>4, <2>7, <2>9
  <2> QED
    BY <2>3, <2>7, <2>8, <2>10 DEF Walking
<1>3. ASSUME pc[g] = "next", mine'[g] = mine[g], reg'[g] = reg[g], result'[g] = result[g]
      PROVE  Walking(g)'
  <2>1. l \in Lists /\ Walking(g)
    BY <1>3 DEF Walks, TypeOK, Holding
  <2>2. /\ pushed[l] <= pushed'[l] /\ pushed[l] - Len(list[l]) <= pushed'[l] - Len(list'[l])
    BY <2>1, FrontGrows
  <2>3. TypeOK'
    BY TypeStep
  <2>4. /\ pushed[l] \in Nat /\ Len(list[l]) \in Nat /\ reg[g] \in Nat /\ Len(result[g]) \in Nat
        /\ pushed'[l] \in Nat /\ Len(list'[l]) \in Nat
    BY <1>0, <2>1, <2>3 DEF TypeOK
  <2>5. reg[g] <= pushed[l] /\ reg[g] - Len(result[g]) <= pushed[l] - Len(list[l])
    BY <2>1 DEF Walking
  <2>6. reg[g] <= pushed'[l] /\ reg[g] - Len(result[g]) <= pushed'[l] - Len(list'[l])
    <3> HIDE DEF l
    <3> QED
      BY <2>2, <2>4, <2>5
  <2> QED
    BY <1>3, <2>1, <2>6 DEF Walking
<1> QED
  BY <1>1, <1>2, <1>3, WalkStep

\* Two runs of pushes, the second of which begins no later and ends no later: if its last
\* push has no successor in the first, it has all of the first or nothing of it.
LEMMA ConsecutiveRuns ==
    ASSUME NEW s \in Seq(Nat), NEW t \in Seq(Nat), NEW n \in Nat, NEW r \in Nat,
           Consecutive(s, n), Consecutive(t, r), Len(t) > 0, r <= n, r - Len(t) <= n - Len(s)
    PROVE  /\ \A i \in 2..Len(t) : t[i] = t[i - 1] + 1
           /\ (\A i \in 2..Len(s) : ~(s[i - 1] = r)) =>
                 ToSet(s) \subseteq ToSet(t) \/ ToSet(s) \cap ToSet(t) = {}
<1> DEFINE a == Len(s)
           b == Len(t)
<1>1. /\ a \in Nat /\ b \in Nat /\ b > 0 /\ r <= n /\ r - b <= n - a
      /\ DOMAIN s = 1..a /\ DOMAIN t = 1..b
      /\ \A i \in 1..a : s[i] = n - a + i
      /\ \A i \in 1..b : t[i] = r - b + i
  BY DEF Consecutive
<1>2. /\ ToSet(s) = {s[i] : i \in 1..a} /\ ToSet(t) = {t[i] : i \in 1..b}
  BY <1>1 DEF ToSet
<1> HIDE DEF a, b
<1>3. ASSUME NEW i \in 2..b PROVE t[i] = t[i - 1] + 1
  <2>1. i \in 1..b /\ i - 1 \in 1..b
    BY <1>1
  <2>2. t[i] = r - b + i /\ t[i - 1] = r - b + (i - 1)
    BY <1>1, <2>1
  <2> QED
    BY <1>1, <2>2
<1>4. CASE r = n
  <2>1. ASSUME NEW i \in 1..a PROVE s[i] \in {t[j] : j \in 1..b}
    <3>1. b - a + i \in 1..b
      BY <1>1, <1>4
    <3>2. t[b - a + i] = r - b + (b - a + i) /\ s[i] = n - a + i
      BY <1>1, <3>1
    <3>3. t[b - a + i] = s[i]
      BY <1>1, <1>4, <3>2
    <3> QED
      BY <3>1, <3>3
  <2> QED
    BY <1>2, <1>3, <2>1 DEF b
<1>5. CASE r # n
  <2>1. ASSUME \A i \in 2..a : ~(s[i - 1] = r), NEW i \in 1..a, NEW j \in 1..b, s[i] = t[j] PROVE FALSE
    <3> DEFINE p == r - n + a
    <3>1. n - a + i = r - b + j
      BY <1>1, <2>1
    <3>2. p + 1 \in 2..a /\ p \in 1..a /\ (p + 1) - 1 = p
      BY <1>1, <1>5, <3>1
    <3>3. n - a + p = r
      BY <1>1
    <3> HIDE DEF p
    <3>4. s[p] = r
      BY <1>1, <3>2, <3>3
    <3> QED
      BY <2>1, <3>2, <3>4
  <2> QED
    BY <1>2, <1>3, <2>1 DEF a, b
<1> QED
  BY <1>4, <1>5

\* A read of the unlocked list, whatever is added, evicted and deleted while it walks:
\* it returns a gap-free run of pushes, and all that the list still holds or nothing of
\* it, for any number of goroutines, lists and calls.
THEOREM ReadsWholeOrCut == Spec => []ReadsAllOrNothing
<1>1. Init => Walks
  BY DEF Init, Walks
<1>2. TypeOK /\ Kept /\ Walks => ReadsAllOrNothing
  <2> SUFFICES ASSUME TypeOK, Kept, Walks, NEW g \in Goroutines, pc[g] = "next"
               PROVE  /\ \A i \in 2..Len(result[g]) : result[g][i] = result[g][i - 1] + 1
                      /\ NextIsNil(mine[g], reg[g]) =>
                            \/ ToSet(list[mine[g]]) \subseteq ToSet(result[g])
                            \/ ToSet(list[mine[g]]) \cap ToSet(result[g]) = {}
    BY DEF ReadsAllOrNothing
  <2>1. mine[g] \in Lists
    BY DEF TypeOK, Holding
  <2>2. /\ list[mine[g]] \in Seq(Nat) /\ result[g] \in Seq(Nat) /\ pushed[mine[g]] \in Nat /\ reg[g] \in Nat
    BY <2>1 DEF TypeOK
  <2>3. Consecutive(list[mine[g]], pushed[mine[g]]) /\ Walking(g)
    BY <2>1 DEF Kept, Walks
  <2>4. /\ Consecutive(result[g], reg[g]) /\ Len(result[g]) > 0 /\ reg[g] <= pushed[mine[g]]
        /\ reg[g] - Len(result[g]) <= pushed[mine[g]] - Len(list[mine[g]])
    BY <2>3 DEF Walking
  <2>5. NextIsNil(mine[g], reg[g]) <=> \A i \in 2..Len(list[mine[g]]) : ~(list[mine[g]][i - 1] = reg[g])
    BY DEF NextIsNil, IsNext
  <2>6. /\ \A i \in 2..Len(result[g]) : result[g][i] = result[g][i - 1] + 1
        /\ (\A i \in 2..Len(list[mine[g]]) : ~(list[mine[g]][i - 1] = reg[g])) =>
              \/ ToSet(list[mine[g]]) \subseteq ToSet(result[g])
              \/ ToSet(list[mine[g]]) \cap ToSet(result[g]) = {}
    <3> DEFINE s == list[mine[g]]
               t == result[g]
               n == pushed[mine[g]]
               e == reg[g]
    <3>1. /\ s \in Seq(Nat) /\ t \in Seq(Nat) /\ n \in Nat /\ e \in Nat /\ Consecutive(s, n) /\ Consecutive(t, e)
          /\ Len(t) > 0 /\ e <= n /\ e - Len(t) <= n - Len(s)
      BY <2>2, <2>3, <2>4
    <3> HIDE DEF s, t, n, e
    <3>2. /\ \A i \in 2..Len(t) : t[i] = t[i - 1] + 1
          /\ (\A i \in 2..Len(s) : ~(s[i - 1] = e)) =>
                ToSet(s) \subseteq ToSet(t) \/ ToSet(s) \cap ToSet(t) = {}
      BY <3>1, ConsecutiveRuns
    <3> QED
      BY <3>2, Zenon DEF s, t, e
  <2> QED
    BY <2>5, <2>6
<1> QED
  BY <1>1, <1>2, WalksStep, KeptAlways, TypeCorrect, PTL DEF Spec

-----------------------------------------------------------------------------
(* Calls that do not overlap. *)

\* A call begins when no other one is under way.
NoOverlap == \A g, h \in Goroutines : pc[g] # "idle" /\ pc[h] # "idle" => g = h
Lone(g) == \A h \in Goroutines \ {g} : pc[h] = "idle"

\* The length of a list that exceeds the capacity by one does not wrap in the
\* conversion to uint16.
CapacityFits == MatchesCapacity + 1 < WordSize

\* Every list belongs to one key, and a list that is not yet allocated is empty.
Owned ==
    /\ \A k \in Keys : matches[k] \in used \cup {Nil}
    /\ \A k, j \in Keys : k # j /\ matches[k] = matches[j] => matches[k] = Nil
    /\ \A l \in Lists \ used : list[l] = <<>>

\* What the goroutine knows at its next statement still holds.
Sure(g) ==
    /\ pc[g] = "create" => matches[key[g]] = Nil
    /\ g \in Holding => mine[g] = matches[key[g]]
    /\ pc[g] = "zero" => Stored(key[g]) = <<>>
    /\ pc[g] = "store" => reg[g] = count[key[g]]
    /\ pc[g] = "remove" => reg[g] = Head(list[mine[g]])
    /\ pc[g] \in {"front", "remove"} => Len(list[mine[g]]) = size + 1
    /\ pc[g] = "evict" => Len(list[mine[g]]) <= size + 1

\* A list exceeds the size only between the push and the eviction of one call, and there
\* are no more pushes than calls.
Evened(g) ==
    \A l \in Lists :
        /\ pc[g] \notin {"evict", "front", "remove"} \/ l # mine[g] => Len(list[l]) <= size
        /\ pushed[l] <= calls
        /\ pc[g] \in {"ensure", "create", "read", "push"} => pushed[l] < calls

SerialInv == /\ Owned /\ calls <= MaxCalls /\ ~crashed
             /\ \A g \in Goroutines : Lone(g) => Sure(g) /\ Evened(g)

\* Such a capacity is the size of the store, and the check compares real lengths.
LEMMA SizeFits ==
    ASSUME CapacityFits
    PROVE  /\ size = MatchesCapacity /\ size \in Nat
           /\ \A n \in Nat : n <= size + 1 => (OverCapacity(n) <=> n > size)
<1>1. MatchesCapacity \in Nat /\ WordSize \in Nat /\ MatchesCapacity < WordSize
  BY ConstantsAssumption DEF CapacityFits
<1>2. size = MatchesCapacity
  BY <1>1, NoWrap DEF size
<1>3. ASSUME NEW n \in Nat, n <= size + 1 PROVE OverCapacity(n) <=> n > size
  <2>1. n < WordSize
    BY <1>1, <1>2, <1>3 DEF CapacityFits
  <2>2. n % WordSize = n
    BY <1>1, <2>1, NoWrap
  <2> QED
    BY <2>2 DEF OverCapacity
<1> QED
  BY <1>1, <1>2, <1>3

\* A step that leaves the store alone.
LEMMA SameOwned ==
    ASSUME Owned, matches' = matches, used' = used, list' = list PROVE Owned'
  BY DEF Owned

\* A step that shortens or extends the list of a key.
LEMMA ListOwned ==
    ASSUME TypeOK, Owned, matches' = matches, used' = used,
           NEW k \in Keys, matches[k] # Nil, NEW s, list' = [list EXCEPT ![matches[k]] = s]
    PROVE  Owned'
<1>1. matches[k] \in used
  BY DEF Owned
<1> QED
  BY <1>1 DEF Owned, TypeOK

\* A call or a statement of a goroutine.
Acts(g) ==
    \/ AddMismatch(g) \/ DeleteMismatches(g) \/ GetMismatches(g) \/ GetMismatchesCount(g)
    \/ \E k \in EndpointIDs : \/ AddMatch(g, k) \/ DeleteMatches(g, k)
                             \/ GetMatches(g, k) \/ GetMatchesCount(g, k)
    \/ Statement(g)

\* Who acts is alone before and after.
LEMMA ActsAlone ==
    ASSUME TypeOK, NoOverlap, NoOverlap', NEW g \in Goroutines, Acts(g)
    PROVE  Lone(g) /\ Lone(g)'
<1>1. (pc[g] # "idle" \/ pc'[g] # "idle") /\ \A h \in Goroutines \ {g} : pc'[h] = pc[h]
  BY DEF TypeOK, Acts, AddMatch, AddMismatch, DeleteMatches, DeleteMismatches, GetMatches, GetMismatches,
         GetMatchesCount, GetMismatchesCount, Call, Statement, At, Goto,
         GetList, ReadFirst, ReadNext, ReadCount, EnsureList, CreateList, ReadList, PushBack, CheckLen, ListFront, ListRemove, LoadCount,
         StoreCount, FindList, ClearList, ZeroCount
<1> QED
  BY <1>1 DEF NoOverlap, Lone

\* Every statement of a goroutine that is alone keeps what it knows.
LEMMA SerialStep ==
    ASSUME CapacityFits, NEW g \in Goroutines, Lone(g), Lone(g)', TypeOK, SerialInv, Acts(g)
    PROVE  SerialInv'
<1> USE DEF At, Goto, store, history
<1> DEFINE k == key[g]
           l == mine[g]
<1>0. /\ g \in Goroutines /\ Owned /\ Sure(g) /\ Evened(g) /\ calls <= MaxCalls /\ ~crashed
      /\ k \in Keys /\ pc[g] \in PC /\ calls \in Nat /\ MaxCalls \in Nat
  BY ConstantsAssumption DEF SerialInv, TypeOK
<1>s. size \in Nat /\ \A n \in Nat : n <= size + 1 => (OverCapacity(n) <=> n > size)
  BY SizeFits
<1>x. \A x \in Lists : list[x] \in Seq(Nat) /\ pushed[x] \in Nat
  BY DEF TypeOK
<1>y. \A x \in Lists : Len(list[x]) \in Nat
  BY <1>x, LenProperties
<1>t. /\ \A x \in Lists : list[x] \in Seq(Nat) /\ Len(list[x]) \in Nat /\ pushed[x] \in Nat
      /\ matches \in [Keys -> Lists \cup {Nil}] /\ list \in [Lists -> Seq(Nat)] /\ pushed \in [Lists -> Nat]
      /\ pc \in [Goroutines -> PC] /\ key \in [Goroutines -> Keys] /\ count \in [Keys -> Nat]
      /\ mine \in [Goroutines -> Lists \cup {Nil}] /\ reg \in [Goroutines -> Nat]
      /\ used \subseteq Lists
  BY <1>x, <1>y DEF TypeOK
<1>h. g \in Holding => l \in Lists /\ l = matches[k]
  BY <1>0, <1>t DEF TypeOK, Sure
<1> DEFINE Good == Owned' /\ Sure(g)' /\ Evened(g)' /\ calls' <= MaxCalls /\ ~crashed'
<1>1. ASSUME NEW j \in Keys, NEW label \in {"ensure", "read", "find", "get", "count"}, Call(g, j, label) PROVE Good
  <2>1. Owned' /\ calls' <= MaxCalls /\ ~crashed'
    BY <1>0, <1>1, SameOwned DEF Call
  <2>2. pc'[g] = label
    BY <1>t, <1>0, <1>1 DEF Call
  <2>3. Sure(g)'
    BY <2>2 DEF Sure, Holding
  <2>4. Evened(g)'
    BY <1>0, <1>1, <1>t, <2>2 DEF Evened, Call
  <2> QED
    BY <2>1, <2>3, <2>4
<1>2. ASSUME EnsureList(g) PROVE Good
  <2>1. Owned' /\ calls' <= MaxCalls /\ ~crashed'
    BY <1>0, <1>2, SameOwned DEF EnsureList
  <2>2. /\ pc'[g] = IF matches[k] = Nil THEN "create" ELSE "read"
        /\ matches' = matches /\ key' = key /\ list' = list /\ pushed' = pushed /\ calls' = calls
        /\ pc[g] = "ensure"
    BY <1>t, <1>0, <1>2 DEF EnsureList
  <2>3. Sure(g)'
    BY <2>2 DEF Sure, Holding
  <2>4. Evened(g)'
    BY <1>0, <2>2 DEF Evened
  <2> QED
    BY <2>1, <2>3, <2>4
<1>3. ASSUME CreateList(g) PROVE Good
  <2>1. PICK x \in Lists \ used : used' = used \cup {x} /\ matches' = [matches EXCEPT ![k] = x]
    BY <1>3 DEF CreateList
  <2>2. /\ pc'[g] = "read" /\ pc[g] = "create" /\ list' = list /\ pushed' = pushed /\ calls' = calls
        /\ crashed' = crashed
    BY <1>t, <1>0, <1>3 DEF CreateList
  <2>3. Owned'
    <3>1. \A j \in Keys : matches[j] # x
      BY <1>0, <2>1, ConstantsAssumption DEF Owned
    <3>2. \A j \in Keys : matches'[j] = IF j = k THEN x ELSE matches[j]
      BY <1>0, <1>t, <2>1
    <3> HIDE DEF k
    <3>3. \A j \in Keys : matches'[j] \in used' \cup {Nil}
      BY <1>0, <2>1, <3>2 DEF Owned
    <3>4. \A j, i \in Keys : j # i /\ matches'[j] = matches'[i] => matches'[j] = Nil
      BY <1>0, <3>1, <3>2 DEF Owned
    <3> QED
      BY <1>0, <2>1, <2>2, <3>3, <3>4 DEF Owned
  <2>4. Sure(g)'
    BY <2>2 DEF Sure, Holding
  <2>5. Evened(g)'
    BY <1>0, <2>2 DEF Evened
  <2> QED
    BY <1>0, <2>2, <2>3, <2>4, <2>5
<1>4. ASSUME ReadList(g) PROVE Good
  <2>1. Owned' /\ calls' <= MaxCalls /\ ~crashed'
    BY <1>0, <1>4, SameOwned DEF ReadList
  <2>2. /\ pc'[g] = "push" /\ pc[g] = "read" /\ mine'[g] = matches[k]
        /\ matches' = matches /\ key' = key /\ list' = list /\ pushed' = pushed /\ calls' = calls
    BY <1>t, <1>0, <1>4 DEF ReadList
  <2>3. Sure(g)'
    BY <2>2 DEF Sure, Holding
  <2>4. Evened(g)'
    BY <1>0, <2>2 DEF Evened
  <2> QED
    BY <2>1, <2>3, <2>4
<1>5. ASSUME PushBack(g) PROVE Good
  <2>1. /\ pc'[g] = "evict" /\ pc[g] = "push" /\ matches' = matches /\ used' = used /\ key' = key
        /\ mine' = mine /\ calls' = calls /\ crashed' = crashed
        /\ list' = [list EXCEPT ![l] = Append(list[l], pushed[l] + 1)]
        /\ pushed' = [pushed EXCEPT ![l] = pushed[l] + 1]
    BY <1>t, <1>0, <1>5 DEF PushBack
  <2>2. l \in Lists /\ l = matches[k] /\ matches[k] # Nil
    BY <1>0, <1>h, <2>1, ConstantsAssumption DEF Holding
  <2>3. Owned'
    BY <1>0, <2>1, <2>2, ListOwned
  <2>4. list'[l] = Append(list[l], pushed[l] + 1) /\ pushed'[l] = pushed[l] + 1 /\ Len(list[l]) <= size
    BY <1>0, <1>t, <2>1, <2>2 DEF Evened
  <2>5. Len(list'[l]) = Len(list[l]) + 1
    BY <1>t, <2>2, <2>4
  <2>6. \A x \in Lists \ {l} : list'[x] = list[x] /\ pushed'[x] = pushed[x]
    BY <1>t, <2>1
  <2>7. Sure(g)'
    BY <1>s, <1>t, <2>1, <2>2, <2>4, <2>5 DEF Sure, Holding
  <2>8. Evened(g)'
    <3> SUFFICES ASSUME NEW x \in Lists
                 PROVE  (x # l => Len(list'[x]) <= size) /\ pushed'[x] <= calls
      BY <2>1 DEF Evened
    <3>1. pushed[x] < calls /\ (x # l => Len(list[x]) <= size)
      BY <1>0, <2>1 DEF Evened
    <3> QED
      BY <1>0, <1>t, <2>4, <2>6, <3>1
  <2> QED
    BY <1>0, <2>1, <2>3, <2>7, <2>8
<1>6. ASSUME CheckLen(g) PROVE Good
  <2>1. /\ pc'[g] = IF OverCapacity(Len(list[l])) THEN "front" ELSE "load"
        /\ pc[g] = "evict" /\ matches' = matches /\ used' = used /\ key' = key /\ list' = list
        /\ mine' = mine /\ calls' = calls /\ crashed' = crashed /\ pushed' = pushed
    BY <1>t, <1>0, <1>6 DEF CheckLen
  <2>2. l \in Lists /\ l = matches[k] /\ Len(list[l]) <= size + 1
    BY <1>0, <1>h, <2>1 DEF Holding, Sure
  <2>3. OverCapacity(Len(list[l])) <=> Len(list[l]) > size
    BY <1>s, <1>t, <2>2
  <2>4. Sure(g)'
    BY <1>s, <1>t, <2>1, <2>2, <2>3 DEF Sure, Holding
  <2>5. Evened(g)'
    BY <1>0, <1>s, <1>t, <2>1, <2>2, <2>3 DEF Evened
  <2> QED
    BY <1>0, <2>1, <2>4, <2>5, SameOwned
<1>7. ASSUME ListFront(g) PROVE Good
  <2>1. pc[g] = "front" /\ Len(list[l]) = size + 1 /\ l \in Lists /\ l = matches[k]
    BY <1>0, <1>7, <1>h DEF ListFront, Sure, Holding
  <2>2. list[l] # <<>>
    BY <1>s, <2>1
  <2>3. /\ pc'[g] = "remove" /\ reg'[g] = Head(list[l])
        /\ matches' = matches /\ used' = used /\ key' = key /\ list' = list
        /\ mine' = mine /\ calls' = calls /\ crashed' = crashed /\ pushed' = pushed
    BY <1>t, <1>0, <1>7, <2>2 DEF ListFront
  <2>4. Sure(g)'
    BY <2>1, <2>3 DEF Sure, Holding
  <2>5. Evened(g)'
    BY <1>0, <2>1, <2>3 DEF Evened
  <2> QED
    BY <1>0, <2>3, <2>4, <2>5, SameOwned
<1>8. ASSUME ListRemove(g) PROVE Good
  <2>1. /\ pc[g] = "remove" /\ Len(list[l]) = size + 1 /\ l \in Lists /\ l = matches[k]
        /\ reg[g] = Head(list[l]) /\ matches[k] # Nil
    BY <1>0, <1>8, <1>h, ConstantsAssumption DEF ListRemove, Sure, Holding
  <2>2. list[l] # <<>>
    BY <1>s, <2>1
  <2>3. /\ pc'[g] = "load" /\ list' = [list EXCEPT ![l] = Tail(list[l])]
        /\ matches' = matches /\ used' = used /\ key' = key
        /\ mine' = mine /\ calls' = calls /\ crashed' = crashed /\ pushed' = pushed
    BY <1>t, <1>0, <1>8, <2>1, <2>2 DEF ListRemove, IsFront
  <2>4. list'[l] = Tail(list[l]) /\ Len(Tail(list[l])) = size
    BY <1>s, <1>t, <2>1, <2>2, <2>3, TailFacts
  <2>5. Sure(g)'
    BY <2>3 DEF Sure, Holding
  <2>6. Evened(g)'
    BY <1>0, <1>s, <1>t, <2>1, <2>3, <2>4 DEF Evened
  <2> QED
    BY <1>0, <2>1, <2>3, <2>5, <2>6, ListOwned
<1>9. ASSUME LoadCount(g) PROVE Good
  <2>1. /\ pc'[g] = "store" /\ pc[g] = "load" /\ reg'[g] = count[k] /\ count' = count
        /\ matches' = matches /\ used' = used /\ key' = key /\ list' = list
        /\ mine' = mine /\ calls' = calls /\ crashed' = crashed /\ pushed' = pushed
    BY <1>t, <1>0, <1>9 DEF LoadCount
  <2>2. Sure(g)'
    BY <2>1 DEF Sure, Holding
  <2>3. Evened(g)'
    BY <1>0, <2>1 DEF Evened
  <2> QED
    BY <1>0, <2>1, <2>2, <2>3, SameOwned
<1>10. ASSUME StoreCount(g) \/ ZeroCount(g) PROVE Good
  <2>1. /\ pc'[g] = "idle" /\ pc[g] \in {"store", "zero"}
        /\ matches' = matches /\ used' = used /\ key' = key /\ list' = list
        /\ mine' = mine /\ calls' = calls /\ crashed' = crashed /\ pushed' = pushed
    BY <1>t, <1>0, <1>10 DEF StoreCount, ZeroCount
  <2>2. Sure(g)'
    BY <2>1 DEF Sure, Holding
  <2>3. Evened(g)'
    BY <1>0, <2>1 DEF Evened
  <2> QED
    BY <1>0, <2>1, <2>2, <2>3, SameOwned
<1>11. ASSUME FindList(g) PROVE Good
  <2>1. /\ pc'[g] = IF matches[k] = Nil THEN "zero" ELSE "clear"
        /\ pc[g] = "find" /\ mine'[g] = matches[k]
        /\ matches' = matches /\ used' = used /\ key' = key /\ list' = list
        /\ calls' = calls /\ crashed' = crashed /\ pushed' = pushed
    BY <1>t, <1>0, <1>11 DEF FindList
  <2>2. Sure(g)'
    BY <2>1 DEF Sure, Holding, Stored
  <2>3. Evened(g)'
    BY <1>0, <2>1 DEF Evened
  <2> QED
    BY <1>0, <2>1, <2>2, <2>3, SameOwned
<1>12. ASSUME ClearList(g) PROVE Good
  <2>1. /\ pc[g] = "clear" /\ matches' = matches /\ used' = used /\ key' = key
        /\ mine' = mine /\ calls' = calls /\ crashed' = crashed /\ pushed' = pushed
    BY <1>t, <1>0, <1>12 DEF ClearList
  <2>2. l \in Lists /\ l = matches[k] /\ matches[k] # Nil
    BY <1>0, <1>h, <2>1, ConstantsAssumption DEF Holding
  <2>3. CASE list[l] # <<>>
    <3>1. pc' = pc /\ list' = [list EXCEPT ![l] = Tail(list[l])]
      BY <1>12, <2>3 DEF ClearList
    <3>2. list'[l] = Tail(list[l]) /\ Len(Tail(list[l])) = Len(list[l]) - 1
      BY <1>t, <2>2, <2>3, <3>1, TailFacts
    <3>3. Sure(g)'
      BY <2>1, <2>2, <3>1 DEF Sure, Holding
    <3>4. Evened(g)'
      BY <1>0, <1>s, <1>t, <2>1, <2>2, <3>1, <3>2 DEF Evened
    <3> QED
      BY <1>0, <2>1, <2>2, <3>1, <3>3, <3>4, ListOwned
  <2>4. CASE list[l] = <<>>
    <3>1. pc'[g] = "zero" /\ list' = list
      BY <1>t, <1>0, <1>12, <2>4 DEF ClearList
    <3>2. Sure(g)'
      BY <2>1, <2>2, <2>4, <3>1 DEF Sure, Holding, Stored
    <3>3. Evened(g)'
      BY <1>0, <2>1, <3>1 DEF Evened
    <3> QED
      BY <1>0, <2>1, <3>1, <3>2, <3>3, SameOwned
  <2> QED
    BY <2>3, <2>4
<1>12a. ASSUME GetList(g) PROVE Good
  <2>1. /\ pc'[g] = IF matches[k] = Nil THEN "idle" ELSE "first"
        /\ pc[g] = "get" /\ mine'[g] = matches[k]
        /\ matches' = matches /\ used' = used /\ key' = key /\ list' = list
        /\ calls' = calls /\ crashed' = crashed /\ pushed' = pushed
    BY <1>t, <1>0, <1>12a DEF GetList
  <2>2. Sure(g)'
    BY <2>1 DEF Sure, Holding
  <2>3. Evened(g)'
    BY <1>0, <2>1 DEF Evened
  <2> QED
    BY <1>0, <2>1, <2>2, <2>3, SameOwned
<1>12b. ASSUME ReadFirst(g) \/ ReadNext(g) \/ ReadCount(g) PROVE Good
  <2>1. /\ pc'[g] \in {"idle", "next"} /\ pc[g] \in {"first", "next", "count"}
        /\ pc'[g] = "next" => pc[g] \in {"first", "next"}
        /\ matches' = matches /\ used' = used /\ key' = key /\ list' = list
        /\ mine' = mine /\ calls' = calls /\ crashed' = crashed /\ pushed' = pushed
    BY <1>t, <1>0, <1>12b DEF ReadFirst, ReadNext, ReadCount
  <2>2. Sure(g)'
    BY <1>0, <2>1 DEF Sure, Holding
  <2>3. Evened(g)'
    BY <1>0, <2>1 DEF Evened
  <2> QED
    BY <1>0, <2>1, <2>2, <2>3, SameOwned
<1>13. Good
  <2> EndpointIDs \subseteq Keys /\ MismatchesKey \in Keys
    BY DEF Keys
  <2> HIDE DEF Good
  <2> QED
    BY <1>1, <1>2, <1>3, <1>4, <1>5, <1>6, <1>7, <1>8, <1>9, <1>10, <1>11, <1>12, <1>12a, <1>12b
     DEF Acts, Statement, AddMatch, AddMismatch, DeleteMatches, DeleteMismatches,
         GetMatches, GetMismatches, GetMatchesCount, GetMismatchesCount
<1>14. ASSUME NEW h \in Goroutines \ {g}, Lone(h)' PROVE Sure(h)' /\ Evened(h)'
  <2>1. pc'[h] = "idle" /\ pc'[g] = "idle"
    BY <1>14 DEF Lone
  <2> QED
    BY <1>13, <2>1 DEF Sure, Evened, Holding
<1> QED
  BY <1>13, <1>14 DEF SerialInv

\* The state of Matchstore while no other goroutine than g is in a call.
Deleting == {"find", "clear", "zero"}
Adding == {"evict", "front", "remove", "load", "store"}
ListOf(g, k) == IF key[g] = k /\ pc[g] \in Deleting THEN <<>> ELSE Newest(Stored(k), MatchesCapacity)
CountOf(g, k) == IF key[g] = k /\ pc[g] \in Deleting THEN 0
                 ELSE IF key[g] = k /\ pc[g] \in Adding THEN count[k] + 1 ELSE count[k]

\* This is what the mapping makes of the state.
LEMMA AbstractFacts ==
    ASSUME NEW g \in Goroutines, Lone(g), Lone(g)'
    PROVE  /\ AbstractList = [k \in Keys |-> ListOf(g, k)]
           /\ AbstractCount = [k \in Keys |-> CountOf(g, k)]
           /\ AbstractList' = [k \in Keys |-> ListOf(g, k)']
           /\ AbstractCount' = [k \in Keys |-> CountOf(g, k)']
<1>1. ASSUME NEW k, NEW S \in {Deleting, Adding}
      PROVE  /\ Doing(k, S) <=> key[g] = k /\ pc[g] \in S
             /\ Doing(k, S)' <=> key'[g] = k /\ pc'[g] \in S
  BY DEF Doing, Lone, Deleting, Adding
<1>2. \A k \in Keys :
         /\ Doing(k, Deleting) <=> key[g] = k /\ pc[g] \in Deleting
         /\ Doing(k, Deleting)' <=> key'[g] = k /\ pc'[g] \in Deleting
         /\ Doing(k, Adding) <=> key[g] = k /\ pc[g] \in Adding
         /\ Doing(k, Adding)' <=> key'[g] = k /\ pc'[g] \in Adding
  BY <1>1
<1>3. /\ AbstractList = [k \in Keys |-> IF Doing(k, Deleting) THEN <<>>
                                        ELSE Newest(Stored(k), MatchesCapacity)]
      /\ AbstractCount = [k \in Keys |-> IF Doing(k, Deleting) THEN 0
                                         ELSE IF Doing(k, Adding) THEN count[k] + 1 ELSE count[k]]
      /\ AbstractList' = [k \in Keys |-> IF Doing(k, Deleting)' THEN <<>>
                                         ELSE Newest(Stored(k), MatchesCapacity)']
      /\ AbstractCount' = [k \in Keys |-> IF Doing(k, Deleting)' THEN 0
                                          ELSE IF Doing(k, Adding)' THEN count'[k] + 1 ELSE count'[k]]
  BY Zenon DEF AbstractList, AbstractCount, Deleting, Adding
<1> QED
  BY <1>2, <1>3 DEF ListOf, CountOf

\* The newest of a list that is not too long, or too long by one.
LEMMA NewestOf ==
    ASSUME NEW n \in Nat, NEW s \in Seq(Nat)
    PROVE  /\ Len(s) <= n => Newest(s, n) = s
           /\ Len(s) = n + 1 => Newest(s, n) = Tail(s)
<1>1. CASE Len(s) <= n
  BY <1>1 DEF Newest
<1>2. CASE Len(s) = n + 1
  <2>1. Newest(s, n) = SubSeq(s, 2, Len(s))
    <3>1. ~(Len(s) <= n) /\ Len(s) - n + 1 = 2
      BY <1>2
    <3> QED
      BY <3>1, Zenon DEF Newest
  <2>2. s # <<>>
    BY <1>2
  <2>3. Tail(s) = SubSeq(s, 2, Len(s))
    BY <2>2
  <2> QED
    BY <1>2, <2>1, <2>3
<1> QED
  BY <1>1, <1>2

\* A step that changes the list of one key changes no other.
LEMMA OtherLists ==
    ASSUME TypeOK, Owned, matches' = matches, NEW k \in Keys, matches[k] # Nil,
           NEW s, list' = [list EXCEPT ![matches[k]] = s]
    PROVE  /\ Stored(k) = list[matches[k]] /\ Stored(k)' = s
           /\ \A j \in Keys \ {k} : Stored(j)' = Stored(j)
<1>1. matches[k] \in Lists /\ \A j \in Keys : matches[j] \in Lists \cup {Nil}
  BY DEF TypeOK
<1>2. \A j \in Keys \ {k} : matches[j] # matches[k]
  BY DEF Owned
<1>3. list'[matches[k]] = s /\ \A x \in Lists \ {matches[k]} : list'[x] = list[x]
  BY <1>1 DEF TypeOK
<1> QED
  BY <1>1, <1>2, <1>3 DEF Stored

\* What a step does for the caller: nothing, a delete, or an add.
Quiet(g) == \A k \in Keys : ListOf(g, k)' = ListOf(g, k) /\ CountOf(g, k)' = CountOf(g, k)
Deletes(g, j) ==
    \A k \in Keys : /\ ListOf(g, k)' = IF k = j THEN <<>> ELSE ListOf(g, k)
                    /\ CountOf(g, k)' = IF k = j THEN 0 ELSE CountOf(g, k)
Adds(g, j, m) ==
    \A k \in Keys :
        /\ ListOf(g, k)' = IF k = j THEN Newest(Append(ListOf(g, j), m), MatchesCapacity) ELSE ListOf(g, k)
        /\ CountOf(g, k)' = IF k = j THEN CountOf(g, j) + 1 ELSE CountOf(g, k)

\* These are the steps of Matchstore.
LEMMA PromiseStep ==
    ASSUME NEW g \in Goroutines, Lone(g), Lone(g)',
           \/ Quiet(g)
           \/ \E j \in Keys : Deletes(g, j) \/ \E m \in 1..MaxCalls : Adds(g, j, m)
    PROVE  [Promise!Next]_(Promise!vars)
<1>0. /\ AbstractList = [k \in Keys |-> ListOf(g, k)]
      /\ AbstractCount = [k \in Keys |-> CountOf(g, k)]
      /\ AbstractList' = [k \in Keys |-> ListOf(g, k)']
      /\ AbstractCount' = [k \in Keys |-> CountOf(g, k)']
  BY AbstractFacts
<1>1. CASE Quiet(g)
  BY <1>0, <1>1 DEF Quiet, Promise!vars
<1>2. ASSUME NEW j \in Keys, Deletes(g, j) PROVE Promise!Delete(j)
  BY <1>0, <1>2 DEF Deletes, Promise!Delete
<1>3. ASSUME NEW j \in Keys, NEW m \in 1..MaxCalls, Adds(g, j, m) PROVE Promise!Add(j, m)
  <2>1. AbstractList' = [AbstractList EXCEPT ![j] = Newest(Append(AbstractList[j], m), MatchesCapacity)]
    BY <1>0, <1>3 DEF Adds
  <2>2. AbstractCount' = [AbstractCount EXCEPT ![j] = AbstractCount[j] + 1]
    BY <1>0, <1>3 DEF Adds
  <2> QED
    BY <2>1, <2>2 DEF Promise!Add, Promise!Newest, Newest
<1> QED
  BY <1>1, <1>2, <1>3 DEF Promise!Next

\* A step that leaves the store alone, in the same phase of a call.
LEMMA QuietStep ==
    ASSUME NEW g, matches' = matches, list' = list, count' = count,
           pc[g] \in Deleting <=> pc'[g] \in Deleting, pc[g] \in Adding <=> pc'[g] \in Adding,
           pc[g] \in Deleting \cup Adding => key'[g] = key[g]
    PROVE  Quiet(g)
  BY DEF Quiet, ListOf, CountOf, Stored

\* Every statement of a goroutine that is alone is a step of Matchstore or none.
LEMMA RefinesStep ==
    ASSUME CapacityFits, NEW g \in Goroutines, Lone(g), TypeOK, SerialInv, Acts(g)
    PROVE  \/ Quiet(g)
           \/ \E j \in Keys : Deletes(g, j) \/ \E m \in 1..MaxCalls : Adds(g, j, m)
<1> USE DEF At, Goto, store, history
<1> DEFINE k == key[g]
           l == mine[g]
<1>0. /\ g \in Goroutines /\ Owned /\ Sure(g) /\ Evened(g) /\ calls <= MaxCalls
      /\ k \in Keys /\ calls \in Nat /\ MaxCalls \in Nat /\ MatchesCapacity \in Nat
      /\ pc \in [Goroutines -> PC] /\ key \in [Goroutines -> Keys] /\ count \in [Keys -> Nat]
      /\ list \in [Lists -> Seq(Nat)] /\ matches \in [Keys -> Lists \cup {Nil}]
  BY ConstantsAssumption DEF SerialInv, TypeOK
<1>s. size = MatchesCapacity
  BY SizeFits
<1>h. g \in Holding => l \in Lists /\ l = matches[k] /\ matches[k] # Nil
  BY <1>0, ConstantsAssumption DEF TypeOK, Sure, Holding
<1>1. ASSUME NEW j \in Keys, NEW label \in {"ensure", "read", "get", "count"}, Call(g, j, label)
      PROVE Quiet(g)
  BY <1>0, <1>1, QuietStep DEF Call, Deleting, Adding
<1>2. ASSUME NEW j \in Keys, Call(g, j, "find") PROVE Deletes(g, j)
  <2>1. /\ pc[g] = "idle" /\ pc'[g] = "find" /\ key'[g] = j
        /\ matches' = matches /\ list' = list /\ count' = count
    BY <1>0, <1>2 DEF Call
  <2> QED
    BY <2>1 DEF Deletes, ListOf, CountOf, Stored, Deleting, Adding
<1>3. CASE EnsureList(g) \/ ReadList(g)
  BY <1>0, <1>3, QuietStep DEF EnsureList, ReadList, Deleting, Adding
<1>4. CASE CreateList(g)
  <2>1. PICK x \in Lists \ used : matches' = [matches EXCEPT ![k] = x]
    BY <1>4 DEF CreateList
  <2>2. /\ pc'[g] = "read" /\ pc[g] = "create" /\ list' = list /\ count' = count
    BY <1>0, <1>4 DEF CreateList
  <2>3. matches[k] = Nil /\ list[x] = <<>> /\ x # Nil
    BY <1>0, <2>1, <2>2, ConstantsAssumption DEF Sure, Owned
  <2>4. \A j \in Keys : Stored(j)' = Stored(j)
    BY <1>0, <2>1, <2>2, <2>3 DEF Stored
  <2> QED
    BY <2>2, <2>4 DEF Quiet, ListOf, CountOf, Deleting, Adding
<1>5. CASE PushBack(g)
  <2> DEFINE m == pushed[l] + 1
  <2>1. /\ pc'[g] = "evict" /\ pc[g] = "push" /\ matches' = matches /\ key' = key /\ count' = count
        /\ list' = [list EXCEPT ![l] = Append(list[l], m)]
    BY <1>0, <1>5 DEF PushBack
  <2>2. l \in Lists /\ l = matches[k] /\ matches[k] # Nil
    BY <1>h, <1>0, <2>1 DEF Holding
  <2>3. m \in 1..MaxCalls
    <3>1. pushed[l] \in Nat /\ pushed[l] < calls
      BY <1>0, <2>1, <2>2 DEF Evened, TypeOK
    <3> QED
      BY <1>0, <3>1
  <2> HIDE DEF m
  <2>4. /\ Stored(k) = list[l] /\ Stored(k)' = Append(list[l], m)
        /\ \A j \in Keys \ {k} : Stored(j)' = Stored(j)
    BY <1>0, <2>1, <2>2, OtherLists
  <2>5. ListOf(g, k) = list[l]
    <3>1. Len(list[l]) <= MatchesCapacity /\ list[l] \in Seq(Nat)
      BY <1>0, <1>s, <2>1, <2>2 DEF Evened
    <3> QED
      BY <1>0, <2>1, <2>4, <3>1, NewestOf DEF ListOf, Deleting
  <2>6. Adds(g, k, m)
    <3> SUFFICES ASSUME NEW j \in Keys
                 PROVE  /\ ListOf(g, j)' = IF j = k THEN Newest(Append(ListOf(g, k), m), MatchesCapacity)
                                                    ELSE ListOf(g, j)
                        /\ CountOf(g, j)' = IF j = k THEN CountOf(g, k) + 1 ELSE CountOf(g, j)
      BY Zenon DEF Adds
    <3>1. key'[g] = k /\ (j = k => Stored(j)' = Append(list[l], m))
      BY <2>1, <2>4 DEF Stored
    <3>2. ListOf(g, j)' = IF j = k THEN Newest(Append(ListOf(g, k), m), MatchesCapacity) ELSE ListOf(g, j)
      BY <2>1, <2>4, <2>5, <3>1 DEF ListOf, Deleting
    <3>3. CountOf(g, j)' = IF j = k THEN CountOf(g, k) + 1 ELSE CountOf(g, j)
      BY <2>1 DEF CountOf, Deleting, Adding
    <3> QED
      BY <3>2, <3>3
  <2> QED
    BY <1>0, <2>3, <2>6
<1>6. CASE CheckLen(g)
  BY <1>0, <1>6, QuietStep DEF CheckLen, Deleting, Adding
<1>7. CASE ListFront(g)
  <2>1. pc[g] = "front" /\ Len(list[l]) = size + 1 /\ size \in Nat
    BY <1>0, <1>7, SizeNat DEF ListFront, Sure
  <2>2. list[l] # <<>>
    BY <2>1
  <2> QED
    BY <1>0, <1>7, <2>2, QuietStep DEF ListFront, Deleting, Adding
<1>8. CASE ListRemove(g)
  <2>1. /\ pc[g] = "remove" /\ Len(list[l]) = size + 1 /\ l \in Lists /\ l = matches[k]
        /\ reg[g] = Head(list[l]) /\ matches[k] # Nil /\ size \in Nat
    BY <1>0, <1>8, <1>h, SizeNat DEF ListRemove, Sure, Holding
  <2>2. list[l] # <<>>
    BY <2>1
  <2>3. /\ pc'[g] = "load" /\ list' = [list EXCEPT ![l] = Tail(list[l])]
        /\ matches' = matches /\ key' = key /\ count' = count
    BY <1>0, <1>8, <2>1, <2>2 DEF ListRemove, IsFront
  <2>4. /\ Stored(k) = list[l] /\ Stored(k)' = Tail(list[l])
        /\ \A j \in Keys \ {k} : Stored(j)' = Stored(j)
    BY <1>0, <2>1, <2>3, OtherLists
  <2>5. Newest(list[l], MatchesCapacity) = Tail(list[l]) /\ Newest(Tail(list[l]), MatchesCapacity) = Tail(list[l])
    <3>1. list[l] \in Seq(Nat) /\ Tail(list[l]) \in Seq(Nat) /\ Len(Tail(list[l])) = MatchesCapacity
      BY <1>0, <1>s, <2>1, <2>2, TailFacts
    <3>2. Len(list[l]) = MatchesCapacity + 1 /\ Len(Tail(list[l])) <= MatchesCapacity
      BY <1>0, <1>s, <2>1, <3>1
    <3> QED
      BY <1>0, <3>1, <3>2, NewestOf, Zenon
  <2>6. \A j \in Keys : ListOf(g, j)' = ListOf(g, j)
    BY <2>1, <2>3, <2>4, <2>5 DEF ListOf, Deleting
  <2>7. \A j \in Keys : CountOf(g, j)' = CountOf(g, j)
    BY <2>1, <2>3 DEF CountOf, Deleting, Adding
  <2> QED
    BY <2>6, <2>7 DEF Quiet
<1>9. CASE LoadCount(g)
  BY <1>0, <1>9, QuietStep DEF LoadCount, Deleting, Adding
<1>10. CASE StoreCount(g)
  <2>1. /\ pc'[g] = "idle" /\ pc[g] = "store" /\ matches' = matches /\ list' = list /\ key' = key
        /\ count' = [count EXCEPT ![k] = count[k] + 1]
    BY <1>0, <1>10 DEF StoreCount, Sure
  <2>2. \A j \in Keys : count'[j] = IF j = k THEN count[k] + 1 ELSE count[j]
    BY <1>0, <2>1
  <2>3. \A j \in Keys : CountOf(g, j)' = CountOf(g, j)
    BY <2>1, <2>2 DEF CountOf, Deleting, Adding
  <2>4. \A j \in Keys : ListOf(g, j)' = ListOf(g, j)
    BY <2>1 DEF ListOf, Stored, Deleting
  <2> QED
    BY <2>3, <2>4 DEF Quiet
<1>11. CASE FindList(g)
  BY <1>0, <1>11, QuietStep DEF FindList, Deleting, Adding
<1>12. CASE ClearList(g)
  <2>1. /\ pc[g] = "clear" /\ matches' = matches /\ key' = key /\ count' = count
    BY <1>0, <1>12 DEF ClearList
  <2>2. l \in Lists /\ l = matches[k] /\ matches[k] # Nil
    BY <1>0, <1>h, <2>1 DEF Holding
  <2>3. CASE list[l] # <<>>
    <3>1. pc' = pc /\ list' = [list EXCEPT ![l] = Tail(list[l])]
      BY <1>12, <2>3 DEF ClearList
    <3>2. \A j \in Keys \ {k} : Stored(j)' = Stored(j)
      BY <1>0, <2>1, <2>2, <3>1, OtherLists
    <3> QED
      BY <2>1, <3>1, <3>2 DEF Quiet, ListOf, CountOf, Deleting, Adding
  <2>4. CASE list[l] = <<>>
    BY <1>0, <1>12, <2>1, <2>4, QuietStep DEF ClearList, Deleting, Adding
  <2> QED
    BY <2>3, <2>4
<1>13. CASE ZeroCount(g)
  <2>1. /\ pc'[g] = "idle" /\ pc[g] = "zero" /\ matches' = matches /\ list' = list /\ key' = key
        /\ count' = [count EXCEPT ![k] = 0] /\ Stored(k) = <<>>
    BY <1>0, <1>13 DEF ZeroCount, Sure
  <2>2. \A j \in Keys : count'[j] = IF j = k THEN 0 ELSE count[j]
    BY <1>0, <2>1
  <2>3. \A j \in Keys : CountOf(g, j)' = CountOf(g, j)
    BY <2>1, <2>2 DEF CountOf, Deleting, Adding
  <2>4. Newest(<<>>, MatchesCapacity) = <<>>
    BY <1>0 DEF Newest
  <2>5. \A j \in Keys : Stored(j)' = Stored(j)
    BY <2>1 DEF Stored
  <2>6. \A j \in Keys : ListOf(g, j)' = ListOf(g, j)
    BY <2>1, <2>4, <2>5 DEF ListOf, Deleting
  <2> QED
    BY <2>3, <2>6 DEF Quiet
<1>14. CASE GetList(g) \/ ReadFirst(g) \/ ReadNext(g) \/ ReadCount(g)
  BY <1>0, <1>14, QuietStep DEF GetList, ReadFirst, ReadNext, ReadCount, Deleting, Adding
<1> QED
  <2> EndpointIDs \subseteq Keys /\ MismatchesKey \in Keys
    BY DEF Keys
  <2> QED
    BY <1>1, <1>2, <1>3, <1>4, <1>5, <1>6, <1>7, <1>8, <1>9, <1>10, <1>11, <1>12, <1>13, <1>14
     DEF Acts, Statement, AddMatch, AddMismatch, DeleteMatches, DeleteMismatches,
         GetMatches, GetMismatches, GetMatchesCount, GetMismatchesCount

\* Two goroutines in a call are needed to meet in a map.
LEMMA NoMeeting ==
    ASSUME NoOverlap, ConcurrentMapAccess PROVE FALSE
  BY DEF NoOverlap, ConcurrentMapAccess, AtMap

\* Calls that do not overlap keep the promise of the interface: for any number of
\* goroutines, endpoints, lists and calls, and any capacity that leaves room for one
\* more in a uint16, the statements of an add or a delete are one step of Matchstore.
THEOREM SerialKeepsPromise == ASSUME CapacityFits PROVE Spec /\ []NoOverlap => KeepsPromise
<1>1. Init => SerialInv
  <2> SUFFICES ASSUME Init PROVE SerialInv
    OBVIOUS
  <2>1. Owned
    BY ConstantsAssumption DEF Init, Owned
  <2>2. ASSUME NEW h \in Goroutines PROVE Sure(h) /\ Evened(h)
    <3>1. pc[h] = "idle" /\ \A l \in Lists : list[l] = <<>> /\ pushed[l] = 0 /\ calls = 0
      BY DEF Init
    <3> QED
      BY <3>1, SizeNat DEF Sure, Evened, Holding
  <2> QED
    BY <2>1, <2>2, ConstantsAssumption DEF Init, SerialInv
<1>2. TypeOK /\ SerialInv /\ NoOverlap /\ NoOverlap' /\ [Next]_vars
        => SerialInv' /\ [Promise!Next]_(Promise!vars)
  <2> SUFFICES ASSUME TypeOK, SerialInv, NoOverlap, NoOverlap', [Next]_vars
               PROVE  SerialInv' /\ [Promise!Next]_(Promise!vars)
    OBVIOUS
  <2>1. CASE \E g \in Goroutines : Acts(g)
    <3>1. PICK g \in Goroutines : Acts(g)
      BY <2>1
    <3>2. Lone(g) /\ Lone(g)'
      BY <3>1, ActsAlone
    <3>3. SerialInv'
      BY <3>1, <3>2, SerialStep
    <3>4. [Promise!Next]_(Promise!vars)
      BY <3>1, <3>2, RefinesStep, PromiseStep
    <3> QED
      BY <3>3, <3>4
  <2>2. CASE UNCHANGED vars
    <3>1. SerialInv'
      BY <2>2 DEF vars, store, history, SerialInv, Owned, Lone, Sure, Evened, Holding, Stored
    <3>2. UNCHANGED <<AbstractList, AbstractCount>>
      BY <2>2 DEF vars, store, AbstractList, AbstractCount, Doing, Stored
    <3> QED
      BY <3>1, <3>2 DEF Promise!vars
  <2> QED
    BY <2>1, <2>2, NoMeeting DEF Next, Acts
<1>3. Init => Promise!Init
  <2> SUFFICES ASSUME Init PROVE Promise!Init
    OBVIOUS
  <2>1. \A k \in Keys : Stored(k) = <<>> /\ count[k] = 0
    BY ConstantsAssumption DEF Init, Stored
  <2>2. \A k \in Keys : /\ ~Doing(k, {"find", "clear", "zero"})
                        /\ ~Doing(k, {"evict", "front", "remove", "load", "store"})
    BY DEF Init, Doing
  <2>3. Newest(<<>>, MatchesCapacity) = <<>>
    BY ConstantsAssumption DEF Newest
  <2> QED
    BY <2>1, <2>2, <2>3 DEF Promise!Init, AbstractList, AbstractCount
<1> QED
  BY <1>1, <1>2, <1>3, TypeCorrect, PTL DEF Spec, KeepsPromise, Promise!Spec
=============================================================================
