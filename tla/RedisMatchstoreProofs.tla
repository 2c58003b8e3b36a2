----------------------- MODULE RedisMatchstoreProofs -----------------------
(***************************************************************************)
(* Proofs about RedisMatchstore for any number of keys, requests, server   *)
(* instances, calls and faults, and for every capacity.                    *)
(***************************************************************************)
EXTENDS RedisMatchstore, ListFacts, FiniteSetTheorems, TLAPS

\* Every command, fault and call keeps the keys and the locals in their types.
LEMMA TypeStep == TypeOK /\ [Next]_vars => TypeOK'
<1> SUFFICES ASSUME TypeOK, [Next]_vars PROVE TypeOK'
  OBVIOUS
<1> USE DEF TypeOK, PC, Goto, redis, bounds
<1>0. ASSUME NEW k \in Keys
      PROVE  IF list[k] = <<>> THEN TRUE ELSE Tail(list[k]) \in Seq(Nat)
  BY TailFacts
<1>1. ASSUME NEW p \in Procs, NEW k \in Keys, Add(p, k) \/ Delete(p, k) PROVE TypeOK'
  <2> key' \in [Procs -> Keys] /\ pc' \in [Procs -> PC]
    BY <1>1 DEF Add, Delete, Call
  <2> deletes' \in Nat /\ calls' \in Nat
    BY <1>1 DEF Add, Delete, Call
  <2> QED
    BY <1>1 DEF Add, Delete, Call
<1>2. ASSUME NEW p \in Procs, Command(p) PROVE TypeOK'
  <2>1. CASE Pushes(p)
    BY <2>1 DEF Pushes, RPush
  <2>2. CASE ChecksLen(p)
    BY <2>2 DEF ChecksLen
  <2>3. CASE Pops(p)
    BY <2>3, <1>0 DEF Pops, LPop
  <2>4. CASE Increments(p)
    BY <2>4 DEF Increments, Incr
  <2>5. CASE Deletes(p)
    BY <2>5 DEF Deletes, Del
  <2>6. CASE Zeroes(p)
    BY <2>6 DEF Zeroes, SetZero
  <2> QED
    BY <1>2, <2>1, <2>2, <2>3, <2>4, <2>5, <2>6 DEF Command
<1>3. ASSUME NEW p \in Procs, LosesReply(p) PROVE TypeOK'
  <2>0. /\ key[p] \in Keys /\ pc' = pc /\ key' = key
        /\ faults' \in Nat /\ calls' \in Nat /\ deletes' \in Nat
    BY <1>3 DEF LosesReply, Fault
  <2>1. CASE RPush(key[p]) /\ excess' = [excess EXCEPT ![key[p]] = @ + 1]
    BY <2>0, <2>1 DEF RPush
  <2>2. CASE LPop(key[p]) /\ excess' = excess
    BY <2>0, <1>0, <2>2 DEF LPop
  <2>3. CASE Incr(key[p]) /\ excess' = excess
    BY <2>0, <2>3 DEF Incr
  <2>4. CASE Del(key[p]) /\ excess' = [excess EXCEPT ![key[p]] = 0]
    BY <2>0, <2>4 DEF Del
  <2>5. CASE SetZero(key[p]) /\ excess' = excess
    BY <2>0, <2>5 DEF SetZero
  <2> QED
    BY <1>3, <2>1, <2>2, <2>3, <2>4, <2>5 DEF LosesReply
<1>4. ASSUME NEW p \in Procs, Fails(p) PROVE TypeOK'
  <2>1. pc' \in [Procs -> PC]
    BY <1>4 DEF Fails
  <2>2. excess' \in [Keys -> Nat]
    BY <1>4 DEF Fails
  <2>3. calls' \in Nat /\ deletes' \in Nat /\ faults' \in Nat
    BY <1>4 DEF Fails, Fault
  <2> QED
    BY <1>4, <2>1, <2>2, <2>3 DEF Fails
<1>5. ASSUME NEW i \in Instances, Crash(i) PROVE TypeOK'
  <2> DEFINE Lost(k) == {p \in Evicting(k) : Instance[p] = i}
  <2>1. ASSUME NEW k \in Keys PROVE Cardinality(Lost(k)) \in Nat
    <3> Lost(k) \subseteq Procs
      BY DEF Evicting, At
    <3> QED
      BY ConstantsAssumption, FS_Subset, FS_CardinalityType
  <2>2. excess' = [k \in Keys |-> excess[k] + Cardinality(Lost(k))]
    BY <1>5 DEF Crash
  <2> HIDE DEF Lost
  <2>3. excess' \in [Keys -> Nat]
    BY <2>1, <2>2
  <2>4. pc' \in [Procs -> PC] /\ faults' \in Nat
    BY <1>5 DEF Crash, Fault
  <2> QED
    BY <1>5, <2>3, <2>4 DEF Crash, Fault
<1>6. CASE UNCHANGED vars
  BY <1>6 DEF vars
<1> QED
  BY <1>1, <1>2, <1>3, <1>4, <1>5, <1>6 DEF Next

\* The empty database is well typed.
LEMMA TypeInit == Init => TypeOK
  BY ConstantsAssumption DEF Init, TypeOK, PC

\* The redis match store is type-correct in every reachable state.
THEOREM TypeCorrect == Spec => []TypeOK
  BY TypeInit, TypeStep, PTL DEF Spec

-----------------------------------------------------------------------------
\* The requests at given labels are finitely many.
LEMMA AtFinite ==
    ASSUME NEW k, NEW L
    PROVE  /\ IsFiniteSet(At(k, L)) /\ Cardinality(At(k, L)) \in Nat
           /\ Cardinality(At(k, L)) <= Cardinality(Procs) /\ Cardinality(Procs) \in Nat
<1> At(k, L) \subseteq Procs
  BY DEF At
<1> QED
  BY ConstantsAssumption, FS_Subset, FS_CardinalityType

\* One request that goes to its next command changes the number of requests at
\* given labels by one at most.
LEMMA MoveCount ==
    ASSUME TypeOK, NEW p \in Procs, NEW label, Goto(p, label), key' = key,
           NEW k \in Keys, NEW L
    PROVE  Cardinality(At(k, L)') =
               Cardinality(At(k, L))
               + (IF key[p] = k /\ label \in L THEN 1 ELSE 0)
               - (IF key[p] = k /\ pc[p] \in L THEN 1 ELSE 0)
<1>0. IsFiniteSet(At(k, L)) /\ Cardinality(At(k, L)) \in Nat
  BY AtFinite
<1>1. CASE key[p] = k /\ label \in L /\ pc[p] \notin L
  <2>1. At(k, L)' = At(k, L) \cup {p} /\ p \notin At(k, L)
    BY <1>1 DEF At, Goto, TypeOK
  <2>2. Cardinality(At(k, L) \cup {p}) = Cardinality(At(k, L)) + 1
    BY <1>0, <2>1, FS_AddElement
  <2> QED
    BY <1>0, <1>1, <2>1, <2>2
<1>2. CASE key[p] = k /\ label \notin L /\ pc[p] \in L
  <2>1. At(k, L)' = At(k, L) \ {p} /\ p \in At(k, L)
    BY <1>2 DEF At, Goto, TypeOK
  <2>2. Cardinality(At(k, L) \ {p}) = Cardinality(At(k, L)) - 1
    BY <1>0, <2>1, FS_RemoveElement
  <2> QED
    BY <1>0, <1>2, <2>1, <2>2
<1>3. CASE key[p] # k \/ (label \in L <=> pc[p] \in L)
  <2>1. At(k, L)' = At(k, L)
    BY <1>3 DEF At, Goto, TypeOK
  <2> QED
    BY <1>0, <1>3, <2>1
<1> QED
  BY <1>1, <1>2, <1>3

\* A crash takes the requests of its instance away from all labels.
LEMMA CrashCount ==
    ASSUME TypeOK, NEW i \in Instances, Crash(i), NEW k \in Keys
    PROVE  Cardinality(Evicting(k)') =
               Cardinality(Evicting(k)) - Cardinality({p \in Evicting(k) : Instance[p] = i})
<1> DEFINE Lost == {p \in Evicting(k) : Instance[p] = i}
<1>1. Evicting(k)' = Evicting(k) \ Lost
  BY DEF Crash, Evicting, At, TypeOK
<1>2. IsFiniteSet(Evicting(k)) /\ IsFiniteSet(Lost) /\ Evicting(k) \cap Lost = Lost
  BY AtFinite, FS_Subset DEF Evicting
<1> QED
  BY <1>1, <1>2, FS_Difference

\* CapacityBound is inductive given the types.  A push makes its request an
\* evicting one; a request leaves the evicting ones after an LPOP, after an LLEN
\* within the capacity, or through a fault that is accounted for in excess.
LEMMA CapacityStep ==
    ASSUME TypeOK, CapacityBound, [Next]_vars
    PROVE  CapacityBound'
<1> SUFFICES ASSUME NEW k \in Keys
             PROVE  Len(list[k])' <= Capacity + Cardinality(Evicting(k)') + excess'[k]
  BY DEF CapacityBound
<1> DEFINE n == Len(list[k])
           e == Cardinality(Evicting(k))
           Goal == Len(list[k])' <= Capacity + Cardinality(Evicting(k)') + excess'[k]
<1>0. /\ list[k] \in Seq(Nat) /\ n \in Nat /\ n <= Capacity + e + excess[k]
      /\ e \in Nat /\ excess[k] \in Nat /\ Capacity \in Nat
  BY AtFinite, ConstantsAssumption DEF CapacityBound, TypeOK, Evicting
<1>1. ASSUME Len(list[k])' = n, Cardinality(Evicting(k)') = e, excess'[k] = excess[k]
      PROVE  Goal
  BY <1>0, <1>1
<1>2. Cardinality(Evicting(k)') \in Nat
  <2> Evicting(k)' \subseteq Procs
    BY DEF Evicting, At
  <2> QED
    BY ConstantsAssumption, FS_Subset, FS_CardinalityType
<1>3. ASSUME NEW p \in Procs, NEW label, Goto(p, label), key' = key
      PROVE  Cardinality(Evicting(k)') =
               e + (IF key[p] = k /\ label \in {"llen", "lpop"} THEN 1 ELSE 0)
                 - (IF key[p] = k /\ pc[p] \in {"llen", "lpop"} THEN 1 ELSE 0)
  BY <1>3, MoveCount DEF Evicting
<1>4. ASSUME NEW p \in Procs, NEW j \in Keys, Add(p, j) \/ Delete(p, j) PROVE Goal
  <2> Evicting(k)' = Evicting(k)
    BY <1>4 DEF Add, Delete, Call, Goto, Evicting, At, TypeOK
  <2> list' = list /\ excess' = excess
    BY <1>4 DEF Add, Delete, Call, redis
  <2> QED
    BY <1>1
<1>5. ASSUME NEW p \in Procs, Command(p) PROVE Goal
  <2>1. CASE Pushes(p)
    <3>1. Cardinality(Evicting(k)') = e + (IF key[p] = k THEN 1 ELSE 0) /\ excess' = excess
      BY <1>0, <1>3, <2>1 DEF Pushes
    <3>2. Len(list[k])' = n + (IF key[p] = k THEN 1 ELSE 0)
      BY <1>0, <2>1 DEF Pushes, RPush, TypeOK
    <3>3. CASE key[p] = k
      BY <1>0, <3>1, <3>2, <3>3
    <3>4. CASE key[p] # k
      BY <1>0, <3>1, <3>2, <3>4
    <3> QED
      BY <3>3, <3>4
  <2>2. CASE ChecksLen(p)
    <3>1. list' = list /\ excess' = excess
      BY <2>2 DEF ChecksLen, redis
    <3>2. CASE key[p] = k /\ ~OverCapacity(n)
      BY <1>0, <1>2, <3>1, <3>2 DEF OverCapacity
    <3>3. CASE ~(key[p] = k /\ ~OverCapacity(n))
      <4> Cardinality(Evicting(k)') = e
        BY <1>0, <1>3, <2>2, <3>3 DEF ChecksLen
      <4> QED
        BY <1>1, <3>1
    <3> QED
      BY <3>2, <3>3
  <2>3. CASE Pops(p)
    <3>1. Cardinality(Evicting(k)') = e - (IF key[p] = k THEN 1 ELSE 0) /\ excess' = excess
      BY <1>0, <1>3, <2>3 DEF Pops
    <3>2. CASE key[p] = k /\ list[k] # <<>>
      <4> Len(list[k])' = n - 1
        BY <1>0, <2>3, <3>2, TailFacts DEF Pops, LPop, TypeOK
      <4> QED
        BY <1>0, <3>1, <3>2
    <3>3. CASE key[p] = k /\ list[k] = <<>>
      <4> Len(list[k])' = 0
        BY <1>0, <2>3, <3>3 DEF Pops, LPop, TypeOK
      <4> QED
        BY <1>0, <1>2, <3>1
    <3>4. CASE key[p] # k
      <4> list'[k] = list[k]
        BY <2>3, <3>4 DEF Pops, LPop, TypeOK
      <4> QED
        BY <1>0, <1>1, <3>1, <3>4
    <3> QED
      BY <3>2, <3>3, <3>4
  <2>4. CASE Increments(p) \/ Zeroes(p)
    <3>1. Cardinality(Evicting(k)') = e
      BY <1>0, <1>3, <2>4 DEF Increments, Zeroes
    <3>2. list' = list /\ excess' = excess
      BY <2>4 DEF Increments, Zeroes, Incr, SetZero
    <3> QED
      BY <1>1, <3>1, <3>2
  <2>5. CASE Deletes(p)
    <3>1. Cardinality(Evicting(k)') = e
      BY <1>0, <1>3, <2>5 DEF Deletes
    <3>2. (list'[k] = list[k] /\ excess'[k] = excess[k]) \/ (list'[k] = <<>> /\ excess'[k] = 0)
      BY <2>5 DEF Deletes, Del, TypeOK
    <3> QED
      BY <1>0, <3>1, <3>2
  <2> QED
    BY <1>5, <2>1, <2>2, <2>3, <2>4, <2>5 DEF Command
<1>6. ASSUME NEW p \in Procs, LosesReply(p) PROVE Goal
  <2>1. Evicting(k)' = Evicting(k)
    BY <1>6 DEF LosesReply, Evicting, At
  <2>2. CASE RPush(key[p]) /\ excess' = [excess EXCEPT ![key[p]] = @ + 1]
    <3>1. CASE key[p] = k
      <4>1. list'[k] = Append(list[k], pushed[k] + 1) /\ excess'[k] = excess[k] + 1
        BY <2>2, <3>1 DEF RPush, TypeOK
      <4>2. Len(list'[k]) = n + 1
        BY <1>0, <4>1
      <4> QED
        BY <1>0, <2>1, <4>1, <4>2
    <3>2. CASE key[p] # k
      <4>1. list'[k] = list[k] /\ excess'[k] = excess[k]
        BY <2>2, <3>2 DEF RPush, TypeOK
      <4> QED
        BY <1>0, <2>1, <4>1
    <3> QED
      BY <3>1, <3>2
  <2>3. CASE LPop(key[p]) /\ excess' = excess
    <3> \/ list'[k] = list[k]
        \/ list[k] # <<>> /\ list'[k] = Tail(list[k])
      BY <2>3 DEF LPop, TypeOK
    <3> list[k] # <<>> => Len(Tail(list[k])) = n - 1
      BY <1>0, TailFacts
    <3> Len(list[k])' \in {n, n - 1}
      BY <1>0
    <3> QED
      BY <1>0, <2>1, <2>3
  <2>4. CASE (Incr(key[p]) \/ SetZero(key[p])) /\ excess' = excess
    BY <1>1, <2>1, <2>4 DEF Incr, SetZero
  <2>5. CASE Del(key[p]) /\ excess' = [excess EXCEPT ![key[p]] = 0]
    <3> (list'[k] = list[k] /\ excess'[k] = excess[k]) \/ (list'[k] = <<>> /\ excess'[k] = 0)
      BY <2>5 DEF Del, TypeOK
    <3> QED
      BY <1>0, <2>1
  <2> QED
    BY <1>6, <2>2, <2>3, <2>4, <2>5 DEF LosesReply
<1>7. ASSUME NEW p \in Procs, Fails(p) PROVE Goal
  <2>1. list' = list /\ pc[p] # "idle" /\ key' = key
    BY <1>7 DEF Fails, redis
  <2>2. CASE key[p] = k /\ pc[p] \in {"llen", "lpop"}
    <3>1. p \in Evicting(k)
      BY <2>2 DEF Evicting, At
    <3>2. excess'[k] = excess[k] + 1
      BY <1>7, <2>2, <3>1 DEF Fails, TypeOK
    <3>3. Cardinality(Evicting(k)') = e - 1
      BY <1>0, <1>3, <1>7, <2>2 DEF Fails
    <3> QED
      BY <1>0, <2>1, <3>2, <3>3
  <2>3. CASE ~(key[p] = k /\ pc[p] \in {"llen", "lpop"})
    <3>1. excess'[k] = excess[k]
      BY <1>7, <2>3 DEF Fails, Evicting, At, TypeOK
    <3>2. Cardinality(Evicting(k)') = e
      BY <1>0, <1>3, <1>7, <2>3 DEF Fails
    <3> QED
      BY <1>1, <2>1, <3>1, <3>2
  <2> QED
    BY <2>2, <2>3
<1>8. ASSUME NEW i \in Instances, Crash(i) PROVE Goal
  <2> DEFINE l == Cardinality({p \in Evicting(k) : Instance[p] = i})
  <2>1. Cardinality(Evicting(k)') = e - l
    BY <1>8, CrashCount
  <2>2. excess'[k] = excess[k] + l /\ list' = list
    BY <1>8 DEF Crash, redis
  <2>3. l \in Nat
    <3> {p \in Evicting(k) : Instance[p] = i} \subseteq Procs
      BY DEF Evicting, At
    <3> QED
      BY ConstantsAssumption, FS_Subset, FS_CardinalityType
  <2> HIDE DEF l
  <2> QED
    BY <1>0, <2>1, <2>2, <2>3
<1>9. CASE UNCHANGED vars
  BY <1>1, <1>9 DEF vars, redis, Evicting, At
<1> QED
  BY <1>4, <1>5, <1>6, <1>7, <1>8, <1>9 DEF Next

\* AddMatch and AddMismatch keep every list within the capacity, up to the adds
\* that have not evicted yet and the evictions that faults have taken away: for
\* any number of concurrent requests, instances, deletes, retries and crashes.
THEOREM CapacityBounded == Spec => []CapacityBound
<1>1. Init => CapacityBound
  <2> SUFFICES ASSUME Init, NEW k \in Keys
               PROVE  Len(list[k]) <= Capacity + Cardinality(Evicting(k)) + excess[k]
    BY DEF CapacityBound
  <2> Len(list[k]) = 0 /\ excess[k] = 0
    BY DEF Init
  <2> QED
    BY AtFinite, ConstantsAssumption DEF Evicting
<1>2. TypeOK /\ CapacityBound /\ [Next]_vars => CapacityBound'
  BY CapacityStep
<1> QED
  BY <1>1, <1>2, TypeCorrect, PTL DEF Spec

-----------------------------------------------------------------------------
\* GetMatches returns the newest pushes, gap-free and in order, whatever other
\* requests, retries and crashes do.
THEOREM NewestAlwaysKept == Spec => []NewestKept
<1> DEFINE Kept == \A k \in Keys : Consecutive(list[k], pushed[k])
<1>1. Init => Kept
  BY ConsecutiveEmpty DEF Init
<1>2. TypeOK /\ Kept /\ [Next]_vars => Kept'
  <2> SUFFICES ASSUME TypeOK, Kept, [Next]_vars, NEW k \in Keys
               PROVE  Consecutive(list'[k], pushed'[k])
    OBVIOUS
  <2>0. Consecutive(list[k], pushed[k]) /\ list[k] \in Seq(Nat) /\ pushed[k] \in Nat
    BY DEF TypeOK
  <2>1. CASE list'[k] = list[k] /\ pushed'[k] = pushed[k]
    BY <2>0, <2>1
  <2>2. ASSUME NEW j \in Keys, RPush(j) PROVE Consecutive(list'[k], pushed'[k])
    BY <2>0, <2>1, <2>2, ConsecutivePush DEF RPush, TypeOK
  <2>3. ASSUME NEW j \in Keys, LPop(j) PROVE Consecutive(list'[k], pushed'[k])
    <3> \/ list'[k] = list[k]
        \/ list[k] # <<>> /\ list'[k] = Tail(list[k])
      BY <2>3 DEF LPop, TypeOK
    <3> pushed' = pushed
      BY <2>3 DEF LPop
    <3> QED
      BY <2>0, <2>1, ConsecutiveTail
  <2>4. ASSUME NEW j \in Keys, Del(j) PROVE Consecutive(list'[k], pushed'[k])
    BY <2>0, <2>1, <2>4, ConsecutiveEmpty DEF Del, TypeOK
  <2>5. ASSUME NEW j \in Keys, Incr(j) \/ SetZero(j) PROVE Consecutive(list'[k], pushed'[k])
    BY <2>1, <2>5 DEF Incr, SetZero
  <2>6. ASSUME NEW p \in Procs, Command(p) \/ LosesReply(p)
        PROVE  Consecutive(list'[k], pushed'[k])
    <3> key[p] \in Keys
      BY DEF TypeOK
    <3>1. CASE ChecksLen(p)
      BY <2>1, <3>1 DEF ChecksLen, redis
    <3>2. CASE ~ChecksLen(p)
      BY <2>2, <2>3, <2>4, <2>5, <2>6, <3>2
         DEF Command, LosesReply, Pushes, Pops, Increments, Deletes, Zeroes
    <3> QED
      BY <3>1, <3>2
  <2>7. ASSUME NEW p \in Procs, NEW j \in Keys, Add(p, j) \/ Delete(p, j) \/ Fails(p)
        PROVE  Consecutive(list'[k], pushed'[k])
    BY <2>1, <2>7 DEF Add, Delete, Call, Fails, redis
  <2>8. ASSUME NEW i \in Instances, Crash(i) PROVE Consecutive(list'[k], pushed'[k])
    BY <2>1, <2>8 DEF Crash, redis
  <2>9. CASE UNCHANGED vars
    BY <2>1, <2>9 DEF vars, redis
  <2> QED
    BY <2>6, <2>7, <2>8, <2>9 DEF Next
<1>3. Kept => NewestKept
  BY DEF Consecutive, NewestKept
<1> QED
  BY <1>1, <1>2, <1>3, TypeCorrect, PTL DEF Spec

-----------------------------------------------------------------------------
\* Without deletes and faults: what CountExact and RetentionBound need of one key.
\* Each evicting request has a push of its own in the list, so an LPOP never
\* meets an empty list; a request that decides to pop has read a length above
\* the capacity, and at most all requests decide so at once.
KeyInv(k) ==
    /\ counter[k] + Cardinality(Uncounted(k)) = pushed[k]
    /\ Len(list[k]) >= Cardinality(Evicting(k))
    /\ \/ Len(list[k]) - Cardinality(Popping(k)) >= Capacity + 1 - Cardinality(Procs)
       \/ Len(list[k]) = pushed[k] /\ Cardinality(Popping(k)) = 0

AddsInv ==
    deletes = 0 /\ faults = 0 =>
        /\ \A p \in Procs : pc[p] \notin {"del", "set"}
        /\ \A k \in Keys : KeyInv(k)

\* Nothing is recorded initially.
LEMMA AddsInit == Init => AddsInv
<1> SUFFICES ASSUME Init, NEW k \in Keys PROVE KeyInv(k)
  BY DEF Init, AddsInv
<1>1. Uncounted(k) = {} /\ Evicting(k) = {} /\ Popping(k) = {}
  BY DEF Init, Uncounted, Evicting, Popping, At
<1>2. counter[k] = 0 /\ pushed[k] = 0 /\ Len(list[k]) = 0
  BY DEF Init
<1> QED
  BY <1>1, <1>2, FS_EmptySet DEF KeyInv

\* Every step preserves what is known of the recorded matches.
LEMMA AddsStep ==
    ASSUME TypeOK, AddsInv, [Next]_vars
    PROVE  AddsInv'
<1> SUFFICES ASSUME deletes' = 0, faults' = 0
             PROVE  /\ \A p \in Procs : pc'[p] \notin {"del", "set"}
                    /\ \A k \in Keys : KeyInv(k)'
  BY DEF AddsInv
<1>1. deletes = 0 /\ faults = 0
  <2>1. \A p \in Procs, k \in Keys : Add(p, k) \/ Delete(p, k) => deletes = 0 /\ faults = 0
    BY DEF Add, Delete, Call, TypeOK
  <2>2. \A p \in Procs : Command(p) => deletes = 0 /\ faults = 0
    BY DEF Command, Pushes, ChecksLen, Pops, Increments, Deletes, Zeroes, bounds
  <2>3. ~Fault
    BY DEF Fault, TypeOK
  <2> QED
    BY <2>1, <2>2, <2>3 DEF Next, LosesReply, Fails, Crash, vars, bounds
<1>2. /\ \A p \in Procs : pc[p] \notin {"del", "set"}
      /\ \A k \in Keys : KeyInv(k)
  BY <1>1 DEF AddsInv
<1>3. \/ \E p \in Procs : Pushes(p) \/ ChecksLen(p) \/ Pops(p) \/ Increments(p)
      \/ \E p \in Procs, k \in Keys : Add(p, k)
      \/ UNCHANGED vars
  <2>1. ~Fault /\ \A p \in Procs, k \in Keys : ~Delete(p, k)
    BY DEF Fault, Delete, TypeOK
  <2>2. \A p \in Procs : ~Deletes(p) /\ ~Zeroes(p)
    BY <1>2 DEF Deletes, Zeroes
  <2> QED
    BY <2>1, <2>2 DEF Next, Command, LosesReply, Fails, Crash
<1>4. \A p \in Procs : pc'[p] \notin {"del", "set"}
  BY <1>2, <1>3
     DEF Pushes, ChecksLen, Pops, Increments, Add, Call, Goto, vars, TypeOK
<1> SUFFICES ASSUME NEW k \in Keys PROVE KeyInv(k)'
  BY <1>4
<1> DEFINE n == Len(list[k])
           u == Cardinality(Uncounted(k))
           e == Cardinality(Evicting(k))
           o == Cardinality(Popping(k))
           N == Cardinality(Procs)
<1>5. /\ list[k] \in Seq(Nat) /\ n \in Nat /\ counter[k] \in Nat /\ pushed[k] \in Nat
      /\ u \in Nat /\ e \in Nat /\ o \in Nat /\ N \in Nat /\ Capacity \in Nat
  <2>1. list[k] \in Seq(Nat) /\ n \in Nat /\ counter[k] \in Nat /\ pushed[k] \in Nat
    BY DEF TypeOK
  <2>2. u \in Nat /\ e \in Nat /\ o \in Nat /\ N \in Nat
    BY AtFinite DEF Uncounted, Evicting, Popping
  <2> QED
    BY <2>1, <2>2, ConstantsAssumption
<1>6. /\ counter[k] + u = pushed[k] /\ n >= e
      /\ n - o >= Capacity + 1 - N \/ (n = pushed[k] /\ o = 0)
  BY <1>2 DEF KeyInv
<1>7. ASSUME NEW p \in Procs, NEW label, Goto(p, label), key' = key
      PROVE  /\ Cardinality(Uncounted(k)') =
                  u + (IF key[p] = k /\ label \in {"llen", "lpop", "incr"} THEN 1 ELSE 0)
                    - (IF key[p] = k /\ pc[p] \in {"llen", "lpop", "incr"} THEN 1 ELSE 0)
             /\ Cardinality(Evicting(k)') =
                  e + (IF key[p] = k /\ label \in {"llen", "lpop"} THEN 1 ELSE 0)
                    - (IF key[p] = k /\ pc[p] \in {"llen", "lpop"} THEN 1 ELSE 0)
             /\ Cardinality(Popping(k)') =
                  o + (IF key[p] = k /\ label \in {"lpop"} THEN 1 ELSE 0)
                    - (IF key[p] = k /\ pc[p] \in {"lpop"} THEN 1 ELSE 0)
  BY <1>7, MoveCount DEF Uncounted, Evicting, Popping
<1>8. Cardinality(Popping(k)') \in Nat /\ Cardinality(Popping(k)') <= N
  <2> Popping(k)' \subseteq Procs
    BY DEF Popping, At
  <2> QED
    BY ConstantsAssumption, FS_Subset, FS_CardinalityType
<1>9. ASSUME list'[k] = list[k], counter'[k] = counter[k], pushed'[k] = pushed[k],
             Cardinality(Uncounted(k)') = u, Cardinality(Evicting(k)') = e,
             Cardinality(Popping(k)') = o
      PROVE  KeyInv(k)'
  BY <1>5, <1>6, <1>9 DEF KeyInv
<1> HIDE DEF n, u, e, o, N
<1>10. counter[k] + (u + 1) = pushed[k] + 1 /\ (counter[k] + 1) + (u - 1) = pushed[k]
  <2>1. counter[k] \in Nat /\ u \in Nat /\ pushed[k] \in Nat
    BY <1>5
  <2>2. counter[k] + u = pushed[k]
    BY <1>6
  <2> QED
    BY ONLY <2>1, <2>2
<1>11. ASSUME NEW p \in Procs, Pushes(p) PROVE KeyInv(k)'
  <2>1. CASE key[p] = k
    <3>1. Cardinality(Uncounted(k)') = u + 1 /\ Cardinality(Evicting(k)') = e + 1
          /\ Cardinality(Popping(k)') = o
      <4>1. pc[p] = "rpush" /\ Goto(p, "llen") /\ key' = key
        BY <1>11 DEF Pushes
      <4>2. Cardinality(Uncounted(k)') = u + 1 - 0
        BY <1>7, <2>1, <4>1
      <4>3. Cardinality(Evicting(k)') = e + 1 - 0
        BY <1>7, <2>1, <4>1
      <4>4. Cardinality(Popping(k)') = o + 0 - 0
        BY <1>7, <2>1, <4>1
      <4> QED
        BY ONLY <1>5, <4>2, <4>3, <4>4
    <3>2. counter'[k] = counter[k] /\ pushed'[k] = pushed[k] + 1 /\ Len(list'[k]) = n + 1
      BY <1>5, <1>11, <2>1 DEF Pushes, RPush, TypeOK, n
    <3>3. counter'[k] + Cardinality(Uncounted(k)') = pushed'[k]
      BY <1>10, <3>1, <3>2
    <3>4. Len(list'[k]) >= Cardinality(Evicting(k)')
      BY ONLY <1>5, <1>6, <3>1, <3>2 DEF n, N
    <3>5. \/ Len(list'[k]) - Cardinality(Popping(k)') >= Capacity + 1 - Cardinality(Procs)
          \/ Len(list'[k]) = pushed'[k] /\ Cardinality(Popping(k)') = 0
      <4>1. CASE n - o >= Capacity + 1 - N
        <5>1. (n + 1) - o >= Capacity + 1 - N
          BY ONLY <1>5, <4>1
        <5> QED
          BY ONLY <5>1, <3>1, <3>2 DEF N
      <4>2. CASE n = pushed[k] /\ o = 0
        BY ONLY <4>2, <3>1, <3>2
      <4> QED
        BY <1>6, <4>1, <4>2
    <3> QED
      BY ONLY <3>3, <3>4, <3>5 DEF KeyInv
  <2>2. CASE key[p] # k
    <3>1. Cardinality(Uncounted(k)') = u /\ Cardinality(Evicting(k)') = e
          /\ Cardinality(Popping(k)') = o
      BY <1>5, <1>7, <1>11, <2>2 DEF Pushes
    <3>2. counter'[k] = counter[k] /\ pushed'[k] = pushed[k] /\ list'[k] = list[k]
      BY <1>11, <2>2 DEF Pushes, RPush, TypeOK
    <3> QED
      BY <1>9, <3>1, <3>2
  <2> QED
    BY <2>1, <2>2
<1>12. ASSUME NEW p \in Procs, ChecksLen(p) PROVE KeyInv(k)'
  <2>0. counter' = counter /\ pushed' = pushed /\ list' = list
    BY <1>12 DEF ChecksLen, n, redis
  <2>1. CASE key[p] = k /\ OverCapacity(n)
    <3>1. Cardinality(Uncounted(k)') = u /\ Cardinality(Evicting(k)') = e
      <4>1. pc[p] = "llen" /\ Goto(p, "lpop") /\ key' = key
        BY <1>12, <2>1 DEF ChecksLen, n
      <4>2. Cardinality(Uncounted(k)') = u + 1 - 1
        BY <1>7, <2>1, <4>1
      <4>3. Cardinality(Evicting(k)') = e + 1 - 1
        BY <1>7, <2>1, <4>1
      <4> QED
        BY ONLY <1>5, <4>2, <4>3
    <3>2. n >= Capacity + 1
      BY <1>5, <2>1 DEF OverCapacity
    <3> QED
      BY <1>5, <1>6, <1>8, <2>0, <3>1, <3>2 DEF KeyInv, n, N
  <2>2. CASE key[p] = k /\ ~OverCapacity(n)
    <3>1. Cardinality(Uncounted(k)') = u /\ Cardinality(Evicting(k)') = e - 1
          /\ Cardinality(Popping(k)') = o
      <4> pc[p] = "llen" /\ Goto(p, "incr") /\ key' = key
        BY <1>12, <2>2 DEF ChecksLen, n
      <4> Cardinality(Uncounted(k)') = u
        BY <1>5, <1>7, <2>2
      <4> Cardinality(Evicting(k)') = e - 1
        BY <1>5, <1>7, <2>2
      <4> Cardinality(Popping(k)') = o
        BY <1>5, <1>7, <2>2
      <4> QED
        OBVIOUS
    <3> QED
      BY <1>5, <1>6, <2>0, <3>1 DEF KeyInv, n, N
  <2>3. CASE key[p] # k
    <3>1. Cardinality(Uncounted(k)') = u /\ Cardinality(Evicting(k)') = e
          /\ Cardinality(Popping(k)') = o
      BY <1>5, <1>7, <1>12, <2>3 DEF ChecksLen
    <3> QED
      BY <1>9, <2>0, <3>1
  <2> QED
    BY <2>1, <2>2, <2>3
<1>13. ASSUME NEW p \in Procs, Pops(p) PROVE KeyInv(k)'
  <2>1. CASE key[p] = k
    <3>1. p \in Evicting(k) /\ p \in Popping(k)
      BY <1>13, <2>1 DEF Pops, Evicting, Popping, At
    <3>2. e >= 1 /\ o >= 1
      <4> Evicting(k) # {} /\ Popping(k) # {}
        BY <3>1
      <4> IsFiniteSet(Evicting(k)) /\ IsFiniteSet(Popping(k))
        BY AtFinite DEF Evicting, Popping
      <4> e # 0 /\ o # 0
        BY FS_EmptySet DEF e, o
      <4> QED
        BY <1>5
    <3>3. list[k] # <<>>
      BY <1>5, <1>6, <3>2 DEF n
    <3>4. Cardinality(Uncounted(k)') = u /\ Cardinality(Evicting(k)') = e - 1
          /\ Cardinality(Popping(k)') = o - 1
      <4> pc[p] = "lpop" /\ Goto(p, "incr") /\ key' = key
        BY <1>13, <2>1, <3>3 DEF Pops
      <4> Cardinality(Uncounted(k)') = u
        BY <1>5, <1>7, <2>1
      <4> Cardinality(Evicting(k)') = e - 1
        BY <1>5, <1>7, <2>1
      <4> Cardinality(Popping(k)') = o - 1
        BY <1>5, <1>7, <2>1
      <4> QED
        OBVIOUS
    <3>5. counter' = counter /\ pushed' = pushed /\ list'[k] = Tail(list[k])
      BY <1>13, <2>1, <3>3 DEF Pops, LPop, TypeOK
    <3>6. Len(list'[k]) = n - 1
      BY <1>5, <3>3, <3>5, TailFacts DEF n
    <3>7. counter[k] + u = pushed[k]
      BY <1>6
    <3>8. n - 1 >= e - 1
      BY ONLY <1>5, <1>6
    <3>9. (n - 1) - (o - 1) >= Capacity + 1 - N
      BY ONLY <1>5, <1>6, <3>2
    <3> QED
      BY ONLY <3>4, <3>5, <3>6, <3>7, <3>8, <3>9 DEF KeyInv, N
  <2>2. CASE key[p] # k
    <3>1. Cardinality(Uncounted(k)') = u /\ Cardinality(Evicting(k)') = e
          /\ Cardinality(Popping(k)') = o
      BY <1>5, <1>7, <1>13, <2>2 DEF Pops
    <3>2. counter' = counter /\ pushed' = pushed /\ list'[k] = list[k]
      BY <1>13, <2>2 DEF Pops, LPop, TypeOK
    <3> QED
      BY <1>9, <3>1, <3>2
  <2> QED
    BY <2>1, <2>2
<1>14. ASSUME NEW p \in Procs, Increments(p) PROVE KeyInv(k)'
  <2>1. CASE key[p] = k
    <3>1. Cardinality(Uncounted(k)') = u - 1 /\ Cardinality(Evicting(k)') = e
          /\ Cardinality(Popping(k)') = o
      <4>1. pc[p] = "incr" /\ Goto(p, "idle") /\ key' = key
        BY <1>14 DEF Increments
      <4>2. Cardinality(Uncounted(k)') = u + 0 - 1
        BY <1>7, <2>1, <4>1
      <4>3. Cardinality(Evicting(k)') = e + 0 - 0
        BY <1>7, <2>1, <4>1
      <4>4. Cardinality(Popping(k)') = o + 0 - 0
        BY <1>7, <2>1, <4>1
      <4> QED
        BY ONLY <1>5, <4>2, <4>3, <4>4
    <3>2. counter'[k] = counter[k] + 1 /\ pushed' = pushed /\ list' = list
      BY <1>14, <2>1 DEF Increments, Incr, TypeOK
    <3>3. counter'[k] + Cardinality(Uncounted(k)') = pushed'[k]
      BY <1>10, <3>1, <3>2
    <3>4. Len(list'[k]) >= Cardinality(Evicting(k)')
      BY ONLY <1>5, <1>6, <3>1, <3>2 DEF n, N
    <3>5. \/ Len(list'[k]) - Cardinality(Popping(k)') >= Capacity + 1 - Cardinality(Procs)
          \/ Len(list'[k]) = pushed'[k] /\ Cardinality(Popping(k)') = 0
      BY ONLY <1>5, <1>6, <3>1, <3>2 DEF n, N
    <3> QED
      BY ONLY <3>3, <3>4, <3>5 DEF KeyInv
  <2>2. CASE key[p] # k
    <3>1. Cardinality(Uncounted(k)') = u /\ Cardinality(Evicting(k)') = e
          /\ Cardinality(Popping(k)') = o
      <4> Goto(p, "idle") /\ key' = key
        BY <1>14 DEF Increments
      <4> QED
        BY <1>5, <1>7, <2>2
    <3>2. counter'[k] = counter[k] /\ pushed' = pushed /\ list' = list
      BY <1>14, <2>2 DEF Increments, Incr, TypeOK
    <3> QED
      BY <1>9, <3>1, <3>2
  <2> QED
    BY <2>1, <2>2
<1>15. ASSUME NEW p \in Procs, NEW j \in Keys, Add(p, j) PROVE KeyInv(k)'
  <2>1. Uncounted(k)' = Uncounted(k) /\ Evicting(k)' = Evicting(k) /\ Popping(k)' = Popping(k)
    BY <1>15 DEF Add, Call, Goto, Uncounted, Evicting, Popping, At, TypeOK
  <2> QED
    BY <1>9, <1>15, <2>1 DEF Add, Call, redis, u, e, o
<1>16. CASE UNCHANGED vars
  BY <1>9, <1>16 DEF vars, redis, u, e, o, Uncounted, Evicting, Popping, At
<1> QED
  BY <1>3, <1>11, <1>12, <1>13, <1>14, <1>15, <1>16

\* Without deletes and faults the counter counts every AddMatch exactly once,
\* for any number of concurrent requests of any number of instances.
THEOREM CountsExactly == Spec => []CountExact
<1>1. TypeOK /\ AddsInv /\ [Next]_vars => AddsInv'
  BY AddsStep
<1>2. AddsInv => CountExact
  BY DEF AddsInv, KeyInv, CountExact
<1> QED
  BY <1>1, <1>2, AddsInit, TypeCorrect, PTL DEF Spec

\* Without deletes and faults concurrent adds evict at most one match per other
\* request below the capacity; with one request at a time they evict none.
THEOREM RetentionBounded == Spec => []RetentionBound
<1>1. TypeOK /\ AddsInv /\ [Next]_vars => AddsInv'
  BY AddsStep
<1>2. AddsInv => RetentionBound
  <2> SUFFICES ASSUME AddsInv, deletes = 0, faults = 0, NEW k \in Keys
               PROVE  \/ Len(list[k]) - Cardinality(Popping(k)) >= Capacity + 1 - Cardinality(Procs)
                      \/ Len(list[k]) = pushed[k] /\ Popping(k) = {}
    BY DEF RetentionBound
  <2> KeyInv(k)
    BY DEF AddsInv
  <2> Cardinality(Popping(k)) = 0 <=> Popping(k) = {}
    BY AtFinite, FS_EmptySet DEF Popping
  <2> QED
    BY DEF KeyInv
<1> QED
  BY <1>1, <1>2, AddsInit, TypeCorrect, PTL DEF Spec
=============================================================================
