----------------------------- MODULE ListFacts -----------------------------
(***************************************************************************)
(* Facts about the lists the match stores keep, the list of the hosts of a *)
(* cluster and the list FlattenSeq makes of several, shared by the proofs. *)
(* What a recursive definition computes is proved by induction: a set of   *)
(* numbers takes the place of the predicate that the provers cannot        *)
(* instantiate.                                                            *)
(***************************************************************************)
EXTENDS Integers, SequencesExt, SequenceTheorems, FiniteSetTheorems, WellFoundedInduction, TLAPS

\* What the removal of the front element leaves of a list.
LEMMA TailFacts ==
    ASSUME NEW S, NEW s \in Seq(S), s # <<>>
    PROVE  /\ Tail(s) \in Seq(S) /\ Len(Tail(s)) = Len(s) - 1 /\ Len(s) \in Nat \ {0}
           /\ \A i \in 1..Len(s) - 1 : Tail(s)[i] = s[i + 1]
  BY SMT

\* Consecutive push numbers that end with the last one.
Consecutive(s, last) == \A i \in 1..Len(s) : s[i] = last - Len(s) + i

\* The empty list is consecutive.
LEMMA ConsecutiveEmpty == ASSUME NEW n PROVE Consecutive(<<>>, n)
  BY DEF Consecutive

\* A push of the next number keeps a list consecutive.
LEMMA ConsecutivePush ==
    ASSUME NEW s \in Seq(Nat), NEW n \in Nat, Consecutive(s, n)
    PROVE  Consecutive(Append(s, n + 1), n + 1)
<1> DEFINE t == Append(s, n + 1)
<1> SUFFICES ASSUME NEW i \in 1..Len(t) PROVE t[i] = n + 1 - Len(t) + i
  BY DEF Consecutive
<1>1. Len(t) = Len(s) + 1 /\ Len(s) \in Nat
  OBVIOUS
<1>2. CASE i = Len(s) + 1
  BY <1>1, <1>2
<1>3. CASE i \in 1..Len(s)
  <2> t[i] = s[i] /\ s[i] = n - Len(s) + i
    BY <1>3 DEF Consecutive
  <2> QED
    BY <1>1, <1>3
<1> QED
  BY <1>1, <1>2, <1>3

\* An eviction from the front keeps a list consecutive.
LEMMA ConsecutiveTail ==
    ASSUME NEW s \in Seq(Nat), NEW n \in Nat, s # <<>>, Consecutive(s, n)
    PROVE  Consecutive(Tail(s), n)
<1> Len(s) \in Nat \ {0} /\ Len(Tail(s)) = Len(s) - 1
  BY TailFacts
<1> ASSUME NEW i \in 1..Len(s) - 1 PROVE Tail(s)[i] = n - (Len(s) - 1) + i
  <2> i + 1 \in 1..Len(s) /\ Tail(s)[i] = s[i + 1]
    BY TailFacts
  <2> QED
    BY DEF Consecutive
<1> QED
  BY DEF Consecutive

\* A list of at least two without its last element, or all of it.
LEMMA DropLastFacts ==
    ASSUME NEW S, NEW s \in Seq(S), Len(s) > 1, NEW t, t \in {s, SubSeq(s, 1, Len(s) - 1)}
    PROVE  /\ Len(t) \in Nat \ {0} /\ DOMAIN t = 1..Len(t) /\ 1..Len(t) \subseteq 1..Len(s)
           /\ \A i \in 1..Len(t) : t[i] = s[i] /\ s[i] \in S
<1>1. Len(s) \in Nat /\ \A i \in 1..Len(s) : s[i] \in S
  OBVIOUS
<1>2. CASE t = s
  BY <1>1, <1>2
<1>3. CASE t = SubSeq(s, 1, Len(s) - 1)
  BY <1>1, <1>3, SubSeqProperties
<1> QED
  BY <1>2, <1>3

\* The elements of a list, and of a list with one more.
LEMMA ToSetFacts ==
    ASSUME NEW S, NEW s \in Seq(S), NEW x \in S
    PROVE  /\ ToSet(<<>>) = {}
           /\ ToSet(Append(s, x)) = ToSet(s) \cup {x}
           /\ Append(s, x) \in Seq(S) /\ Len(Append(s, x)) = Len(s) + 1
           /\ \A i \in 1..Len(s) : Append(s, x)[i] = s[i]
           /\ Append(s, x)[Len(s) + 1] = x
<1>1. ToSet(<<>>) = {}
  BY DEF ToSet
<1>2. /\ DOMAIN s = 1..Len(s) /\ DOMAIN Append(s, x) = 1..Len(s) + 1 /\ Len(s) \in Nat
      /\ \A i \in 1..Len(s) : Append(s, x)[i] = s[i]
      /\ Append(s, x)[Len(s) + 1] = x
  OBVIOUS
<1>3. ToSet(Append(s, x)) \subseteq ToSet(s) \cup {x}
  <2> SUFFICES ASSUME NEW i \in DOMAIN Append(s, x) PROVE Append(s, x)[i] \in ToSet(s) \cup {x}
    BY DEF ToSet
  <2> QED
    BY <1>2 DEF ToSet
<1>4. ToSet(s) \cup {x} \subseteq ToSet(Append(s, x))
  <2>1. \A i \in DOMAIN s : s[i] \in ToSet(Append(s, x))
    BY <1>2 DEF ToSet
  <2>2. x \in ToSet(Append(s, x))
    BY <1>2 DEF ToSet
  <2> QED
    BY <2>1, <2>2 DEF ToSet
<1> QED
  BY <1>1, <1>2, <1>3, <1>4

-----------------------------------------------------------------------------
(* Induction, with a set in the place of a predicate. *)

\* A nonempty set of natural numbers has a least element.
LEMMA LeastNat == ASSUME NEW T, T \subseteq Nat, T # {} PROVE \E x \in T : \A y \in T : x <= y
<1> DEFINE R == {ss \in Nat \X Nat : ss[1] < ss[2]}
<1>1. IsWellFoundedOn(R, Nat)
  BY NatLessThanWellFounded DEF OpToRel
<1>2. \A x, y \in Nat : <<y, x>> \in R <=> y < x
  OBVIOUS
<1> HIDE DEF R
<1>3. PICK x \in T : \A y \in T : ~ (<<y, x>> \in R)
  BY <1>1, WFMin
<1>4. \A y \in T : ~(y < x) /\ x \in Nat /\ y \in Nat
  BY <1>2, <1>3
<1> QED
  BY <1>4

\* Induction over the natural numbers, for a set instead of a predicate.
LEMMA SetInduction ==
    ASSUME NEW K, 0 \in K, \A n \in Nat : n \in K => n + 1 \in K
    PROVE  Nat \subseteq K
<1> SUFFICES ASSUME Nat \ K # {} PROVE FALSE
  OBVIOUS
<1>1. PICK x \in Nat \ K : \A y \in Nat \ K : x <= y
  BY LeastNat
<1>2. x # 0 /\ x - 1 \in Nat
  BY <1>1
<1> QED
  BY <1>1, <1>2

-----------------------------------------------------------------------------
(* FlattenSeq, the lists one after the other. *)

\* The recursion of FlattenSeq has a solution.
LEMMA FlattenRecursion ==
    ASSUME NEW ss, Len(ss) \in Nat \ {0}
    PROVE  \E f : /\ f = [i \in 1..Len(ss) |-> IF i = 1 THEN ss[i] ELSE f[i - 1] \o ss[i]]
                  /\ FlattenSeq(ss) = f[Len(ss)]
<1> DEFINE Fits(g, k) == g = [i \in 1..k |-> IF i = 1 THEN ss[i] ELSE g[i - 1] \o ss[i]]
           K == {k \in Nat : \E g : Fits(g, k)}
<1>1. 0 \in K
  <2>1. Fits(<<>>, 0)
    OBVIOUS
  <2> QED
    BY <2>1
<1>2. ASSUME NEW k \in Nat, k \in K PROVE k + 1 \in K
  <2>1. PICK g : Fits(g, k)
    BY <1>2
  <2> DEFINE h == [i \in 1..k + 1 |-> IF i = 1 THEN ss[i] ELSE g[i - 1] \o ss[i]]
  <2>2. ASSUME NEW i \in 1..k PROVE h[i] = g[i]
    <3>1. g[i] = IF i = 1 THEN ss[i] ELSE g[i - 1] \o ss[i]
      BY <2>1
    <3>2. i \in 1..k + 1
      OBVIOUS
    <3> QED
      BY <3>1, <3>2
  <2>3. ASSUME NEW i \in 1..k + 1 PROVE h[i] = IF i = 1 THEN ss[i] ELSE h[i - 1] \o ss[i]
    <3>1. CASE i = 1
      BY <3>1
    <3>2. CASE i # 1
      <4>1. i - 1 \in 1..k
        BY <3>2
      <4>2. h[i] = g[i - 1] \o ss[i]
        BY <3>2
      <4> HIDE DEF h
      <4> QED
        BY <2>2, <3>2, <4>1, <4>2
    <3> QED
      BY <3>1, <3>2
  <2>4. h = [i \in 1..k + 1 |-> h[i]]
    OBVIOUS
  <2>5. Fits(h, k + 1)
    <3> HIDE DEF h
    <3> QED
      BY <2>3, <2>4
  <2> HIDE DEF Fits, h
  <2> QED
    BY <2>5
<1>3. Len(ss) \in K
  <2> HIDE DEF K
  <2> QED
    BY <1>1, <1>2, SetInduction
<1>4. \E g : Fits(g, Len(ss))
  BY <1>3
<1> DEFINE f == CHOOSE g : Fits(g, Len(ss))
<1>5. Fits(f, Len(ss))
  <2> HIDE DEF Fits
  <2> QED
    BY <1>4
<1>6. FlattenSeq(ss) = f[Len(ss)]
  BY DEF FlattenSeq
<1> QED
  BY <1>5, <1>6

\* Where the elements of the lists are in the flattened list: those of ss[i] follow
\* the first o[i].
FlattenedAt(ss, o) ==
    LET flat == FlattenSeq(ss) IN
    /\ \A i \in 1..Len(ss) : \A j \in 1..Len(ss[i]) : o[i] + j \in 1..Len(flat) /\ flat[o[i] + j] = ss[i][j]
    /\ \A p \in 1..Len(flat) : \E i \in 1..Len(ss) : \E j \in 1..Len(ss[i]) : p = o[i] + j
    /\ \A i, x \in 1..Len(ss) : i < x => o[i] + Len(ss[i]) <= o[x]

\* A block of b places behind the first a of c places lies within them.
LEMMA Offset ==
    ASSUME NEW a \in Nat, NEW b \in Nat, NEW c \in Nat, a + b <= c
    PROVE  \A j \in 1..b : a + j \in 1..c
OBVIOUS

\* Flattened lists are a list, with each list at an offset of its own.
LEMMA FlattenShape ==
    ASSUME NEW S, NEW ss \in Seq(Seq(S))
    PROVE  FlattenSeq(ss) \in Seq(S) /\ \E o \in [1..Len(ss) -> Nat] : FlattenedAt(ss, o)
<1> DEFINE n == Len(ss)
<1>1. n \in Nat /\ \A i \in 1..n : ss[i] \in Seq(S) /\ Len(ss[i]) \in Nat
  <2> DEFINE L == Seq(S)
  <2>1. ss \in Seq(L)
    OBVIOUS
  <2>2. Len(ss) \in Nat /\ \A i \in 1..Len(ss) : ss[i] \in L
    <3> HIDE DEF L
    <3> QED
      BY <2>1
  <2> QED
    BY <2>2
<1>2. CASE n = 0
  <2> DEFINE o == [i \in 1..n |-> 0]
  <2>1. ss = <<>> /\ FlattenSeq(ss) = <<>> /\ o \in [1..n -> Nat]
    BY <1>2 DEF FlattenSeq
  <2>2. FlattenedAt(ss, o)
    BY <1>2, <2>1 DEF FlattenedAt
  <2>3. FlattenSeq(ss) \in Seq(S)
    <3>1. <<>> \in Seq(S)
      OBVIOUS
    <3> QED
      BY <2>1, <3>1, Zenon
  <2>4. o \in [1..n -> Nat]
    BY <2>1
  <2> HIDE DEF o, n
  <2> QED
    BY <2>2, <2>3, <2>4, Zenon DEF n
<1>3. CASE n # 0
  <2>1. PICK f : /\ f = [i \in 1..n |-> IF i = 1 THEN ss[i] ELSE f[i - 1] \o ss[i]]
                 /\ FlattenSeq(ss) = f[n]
    BY <1>1, <1>3, FlattenRecursion
  <2> DEFINE o == [i \in 1..n |-> IF i = 1 THEN 0 ELSE Len(f[i - 1])]
             Inside(k) == \A i \in 1..k : /\ o[i] \in Nat /\ o[i] + Len(ss[i]) <= Len(f[k])
                                         /\ \A j \in 1..Len(ss[i]) : f[k][o[i] + j] = ss[i][j]
             Filled(k) == \A p \in 1..Len(f[k]) : \E i \in 1..k : \E j \in 1..Len(ss[i]) : p = o[i] + j
             Q(k) == f[k] \in Seq(S) /\ Len(f[k]) \in Nat /\ Inside(k) /\ Filled(k)
             K == {k \in Nat : k + 1 \in 1..n => Q(k + 1)}
  <2> HIDE DEF o, Inside, Filled, Q
  <2>2. 0 \in K
    <3>1. f[1] = ss[1] /\ o[1] = 0 /\ 1 \in 1..n
      BY <1>1, <1>3, <2>1 DEF o
    <3>2. ss[1] \in Seq(S) /\ Len(ss[1]) \in Nat
      BY <1>1, <3>1
    <3>3. Inside(1)
      BY <3>1, <3>2 DEF Inside
    <3>4. Filled(1)
      BY <3>1, <3>2 DEF Filled
    <3>5. Q(1)
      BY <3>1, <3>2, <3>3, <3>4 DEF Q
    <3> QED
      BY <3>5
  <2>3. ASSUME NEW m \in Nat, m \in K PROVE m + 1 \in K
    <3> DEFINE k == m + 1
               t == ss[k + 1]
    <3> SUFFICES ASSUME k + 1 \in 1..n PROVE Q(k + 1)
      OBVIOUS
    <3>1. k \in 1..n /\ k \in Nat /\ k >= 1 /\ k + 1 # 1 /\ (k + 1) - 1 = k
      BY <1>1
    <3>2. f[k] \in Seq(S) /\ Len(f[k]) \in Nat /\ Inside(k) /\ Filled(k)
      BY <2>3, <3>1 DEF Q
    <3> HIDE DEF k, t
    <3>3. f[k + 1] = f[k] \o t /\ o[k + 1] = Len(f[k])
      BY <2>1, <3>1 DEF o, t
    <3>4. t \in Seq(S) /\ Len(t) \in Nat
      BY <1>1 DEF t
    <3>5. /\ f[k + 1] \in Seq(S) /\ Len(f[k + 1]) = Len(f[k]) + Len(t)
          /\ \A p \in 1..Len(f[k]) : f[k + 1][p] = f[k][p]
          /\ \A j \in 1..Len(t) : f[k + 1][Len(f[k]) + j] = t[j]
      BY <3>2, <3>3, <3>4
    <3>6. Inside(k + 1)
      <4> SUFFICES ASSUME NEW i \in 1..k + 1
                   PROVE  /\ o[i] \in Nat /\ o[i] + Len(ss[i]) <= Len(f[k + 1])
                          /\ \A j \in 1..Len(ss[i]) : f[k + 1][o[i] + j] = ss[i][j]
        BY DEF Inside
      <4>1. CASE i \in 1..k
        <5>1. /\ o[i] \in Nat /\ o[i] + Len(ss[i]) <= Len(f[k])
              /\ \A j \in 1..Len(ss[i]) : f[k][o[i] + j] = ss[i][j]
          BY <3>2, <4>1 DEF Inside
        <5>2. i \in 1..n /\ Len(ss[i]) \in Nat
          BY <1>1, <3>1, <4>1
        <5>3. \A j \in 1..Len(ss[i]) : o[i] + j \in 1..Len(f[k])
          BY <3>2, <5>1, <5>2, Offset
        <5>4. o[i] + Len(ss[i]) <= Len(f[k + 1])
          BY <3>2, <3>4, <3>5, <5>1, <5>2
        <5> QED
          BY <3>5, <5>1, <5>3, <5>4
      <4>2. CASE i = k + 1
        <5>1. ss[i] = t /\ o[i] = Len(f[k])
          BY <3>3, <4>2 DEF t
        <5> QED
          BY <3>2, <3>4, <3>5, <4>2, <5>1
      <4> QED
        BY <3>1, <4>1, <4>2
    <3>7. Filled(k + 1)
      <4> SUFFICES ASSUME NEW p \in 1..Len(f[k + 1])
                   PROVE  \E i \in 1..k + 1 : \E j \in 1..Len(ss[i]) : p = o[i] + j
        BY DEF Filled
      <4>1. CASE p \in 1..Len(f[k])
        <5>1. PICK i \in 1..k : \E j \in 1..Len(ss[i]) : p = o[i] + j
          BY <3>2, <4>1 DEF Filled
        <5>2. i \in 1..k + 1
          BY <3>1
        <5> QED
          BY <5>1, <5>2
      <4>2. CASE p \notin 1..Len(f[k])
        <5>1. p - Len(f[k]) \in 1..Len(t) /\ p = o[k + 1] + (p - Len(f[k]))
          BY <3>2, <3>3, <3>4, <3>5, <4>2
        <5>2. k + 1 \in 1..k + 1
          BY <3>1
        <5> QED
          BY <5>1, <5>2 DEF t
      <4> QED
        BY <4>1, <4>2
    <3> QED
      BY <3>2, <3>4, <3>5, <3>6, <3>7 DEF Q
  <2>4. Nat \subseteq K
    <3> HIDE DEF K
    <3> QED
      BY <2>2, <2>3, SetInduction
  <2>5. ASSUME NEW k \in 1..n PROVE Q(k)
    <3>1. k - 1 \in Nat /\ (k - 1) + 1 = k
      BY <1>1
    <3>2. k - 1 \in K
      BY <2>4, <3>1
    <3> QED
      BY <3>1, <3>2
  <2>6. n \in 1..n
    BY <1>1, <1>3
  <2>7. \A i \in 1..n : o[i] \in Nat
    BY <2>5, <2>6 DEF Q, Inside
  <2>8. ASSUME NEW i \in 1..n, NEW x \in 1..n, i < x PROVE o[i] + Len(ss[i]) <= o[x]
    <3>1. x - 1 \in 1..n /\ i \in 1..x - 1 /\ x # 1
      BY <1>1, <2>8
    <3>2. o[x] = Len(f[x - 1])
      BY <3>1 DEF o
    <3>3. Inside(x - 1)
      BY <2>5, <3>1 DEF Q
    <3> QED
      BY <3>1, <3>2, <3>3 DEF Inside
  <2>9. o \in [1..n -> Nat]
    <3>1. o = [i \in 1..n |-> o[i]]
      BY DEF o
    <3> QED
      BY <2>7, <3>1
  <2>10. f[n] \in Seq(S) /\ Len(f[n]) \in Nat /\ Inside(n) /\ Filled(n)
    BY <2>5, <2>6 DEF Q
  <2>11. ASSUME NEW i \in 1..n, NEW j \in 1..Len(ss[i])
         PROVE  o[i] + j \in 1..Len(f[n]) /\ f[n][o[i] + j] = ss[i][j]
    <3>1. o[i] \in Nat /\ o[i] + Len(ss[i]) <= Len(f[n]) /\ f[n][o[i] + j] = ss[i][j]
      BY <2>10 DEF Inside
    <3>2. Len(ss[i]) \in Nat
      BY <1>1
    <3> QED
      BY <2>10, <3>1, <3>2
  <2>12. FlattenedAt(ss, o)
    BY <2>1, <2>8, <2>10, <2>11 DEF FlattenedAt, Filled
  <2> QED
    BY <2>1, <2>9, <2>10, <2>12
<1> QED
  BY <1>2, <1>3

\* No element twice, in a list or in several lists.
Distinct(s) == \A i, j \in 1..Len(s) : s[i] = s[j] => i = j
AllDistinct(ss) ==
    \A i, x \in 1..Len(ss) : \A j \in 1..Len(ss[i]), y \in 1..Len(ss[x]) :
        ss[i][j] = ss[x][y] => i = x /\ j = y

\* The elements of the flattened list are those of the lists.
LEMMA FlattenElements ==
    ASSUME NEW S, NEW ss \in Seq(Seq(S))
    PROVE  /\ \A i \in 1..Len(ss) : \A j \in 1..Len(ss[i]) : ss[i][j] \in ToSet(FlattenSeq(ss))
           /\ \A v \in ToSet(FlattenSeq(ss)) :
                 \E i \in 1..Len(ss) : \E j \in 1..Len(ss[i]) : v = ss[i][j]
<1>1. PICK o \in [1..Len(ss) -> Nat] : FlattenedAt(ss, o)
  BY FlattenShape
<1> DEFINE flat == FlattenSeq(ss)
<1>2. flat \in Seq(S) /\ DOMAIN flat = 1..Len(flat)
  BY FlattenShape
<1> HIDE DEF flat
<1>3. /\ \A i \in 1..Len(ss) : \A j \in 1..Len(ss[i]) : o[i] + j \in 1..Len(flat) /\ flat[o[i] + j] = ss[i][j]
      /\ \A p \in 1..Len(flat) : \E i \in 1..Len(ss) : \E j \in 1..Len(ss[i]) : p = o[i] + j
  BY <1>1 DEF FlattenedAt, flat
<1>4. ToSet(flat) = {flat[p] : p \in 1..Len(flat)}
  BY <1>2 DEF ToSet
<1>5. ASSUME NEW i \in 1..Len(ss), NEW j \in 1..Len(ss[i]) PROVE ss[i][j] \in ToSet(flat)
  BY <1>3, <1>4
<1>6. ASSUME NEW v \in ToSet(flat) PROVE \E i \in 1..Len(ss) : \E j \in 1..Len(ss[i]) : v = ss[i][j]
  <2>1. PICK p \in 1..Len(flat) : v = flat[p]
    BY <1>4
  <2>2. PICK i \in 1..Len(ss) : \E j \in 1..Len(ss[i]) : p = o[i] + j
    BY <1>3
  <2>3. PICK j \in 1..Len(ss[i]) : p = o[i] + j
    BY <2>2
  <2>4. v = ss[i][j]
    BY <1>3, <2>1, <2>3
  <2> QED
    BY <2>4
<1> QED
  BY <1>5, <1>6 DEF flat

\* Lists without a common or repeated element flatten to one without a repetition.
LEMMA FlattenDistinct ==
    ASSUME NEW S, NEW ss \in Seq(Seq(S)), AllDistinct(ss)
    PROVE  Distinct(FlattenSeq(ss))
<1>1. PICK o \in [1..Len(ss) -> Nat] : FlattenedAt(ss, o)
  BY FlattenShape
<1> DEFINE flat == FlattenSeq(ss)
<1> HIDE DEF flat
<1>3. /\ \A i \in 1..Len(ss) : \A j \in 1..Len(ss[i]) : flat[o[i] + j] = ss[i][j]
      /\ \A p \in 1..Len(flat) : \E i \in 1..Len(ss) : \E j \in 1..Len(ss[i]) : p = o[i] + j
  BY <1>1 DEF FlattenedAt, flat
<1>4. ASSUME NEW p \in 1..Len(flat), NEW q \in 1..Len(flat), flat[p] = flat[q] PROVE p = q
  <2>1. PICK i \in 1..Len(ss) : \E j \in 1..Len(ss[i]) : p = o[i] + j
    BY <1>3
  <2>2. PICK j \in 1..Len(ss[i]) : p = o[i] + j
    BY <2>1
  <2>3. PICK x \in 1..Len(ss) : \E y \in 1..Len(ss[x]) : q = o[x] + y
    BY <1>3
  <2>4. PICK y \in 1..Len(ss[x]) : q = o[x] + y
    BY <2>3
  <2>5. ss[i][j] = ss[x][y]
    BY <1>3, <1>4, <2>2, <2>4
  <2>6. i = x /\ j = y
    BY <2>5, Zenon DEF AllDistinct
  <2> QED
    BY <2>2, <2>4, <2>6
<1> QED
  BY <1>4 DEF Distinct, flat

\* In list v comes before w.
Before(list, v, w) == \E p, q \in 1..Len(list) : p < q /\ list[p] = v /\ list[q] = w

\* The elements of the lists in the order of the lists, and of the elements of each.
InOrder(list, ss) ==
    \A i, x \in 1..Len(ss) : \A j \in 1..Len(ss[i]), y \in 1..Len(ss[x]) :
        i < x \/ (i = x /\ j < y) => Before(list, ss[i][j], ss[x][y])

\* Flattening keeps the order of the lists and of their elements.
LEMMA FlattenOrder ==
    ASSUME NEW S, NEW ss \in Seq(Seq(S))
    PROVE  InOrder(FlattenSeq(ss), ss)
<1> SUFFICES ASSUME NEW i \in 1..Len(ss), NEW x \in 1..Len(ss), NEW j \in 1..Len(ss[i]),
                    NEW y \in 1..Len(ss[x]), i < x \/ (i = x /\ j < y)
             PROVE  Before(FlattenSeq(ss), ss[i][j], ss[x][y])
  BY DEF InOrder
<1>1. PICK o \in [1..Len(ss) -> Nat] : FlattenedAt(ss, o)
  BY FlattenShape
<1> DEFINE flat == FlattenSeq(ss)
           p == o[i] + j
           q == o[x] + y
<1> HIDE DEF flat
<1>2. /\ p \in 1..Len(flat) /\ flat[p] = ss[i][j]
      /\ q \in 1..Len(flat) /\ flat[q] = ss[x][y]
      /\ i < x => o[i] + Len(ss[i]) <= o[x]
  BY <1>1 DEF FlattenedAt, flat
<1>3. o[i] \in Nat /\ o[x] \in Nat /\ Len(ss[i]) \in Nat /\ Len(ss[x]) \in Nat
  <2>1. o[i] \in Nat /\ o[x] \in Nat
    OBVIOUS
  <2>2. ss[i] \in Seq(S) /\ ss[x] \in Seq(S)
    OBVIOUS
  <2> QED
    BY <2>1, <2>2
<1>4. p < q
  <2>1. j \in Nat /\ j <= Len(ss[i]) /\ y \in Nat /\ y > 0
    BY <1>3
  <2>2. CASE i < x
    <3>1. o[i] + Len(ss[i]) <= o[x]
      BY <1>2, <2>2
    <3> QED
      BY <1>3, <2>1, <3>1
  <2>3. CASE i = x /\ j < y
    BY <1>3, <2>1, <2>3
  <2> QED
    BY <2>2, <2>3
<1> HIDE DEF p, q
<1> QED
  BY <1>2, <1>4 DEF Before, flat

\* A list without a repetition has as many elements as its set.
LEMMA DistinctCardinality ==
    ASSUME NEW S, NEW s \in Seq(S), Distinct(s)
    PROVE  Cardinality(ToSet(s)) = Len(s)
<1>1. DOMAIN s = 1..Len(s) /\ Len(s) \in Nat /\ s \in [1..Len(s) -> ToSet(s)]
  BY DEF ToSet
<1>2. s \in Bijection(1..Len(s), ToSet(s))
  BY <1>1 DEF Distinct, Bijection, Injection, Surjection, ToSet, IsInjective
<1>3. ExistsBijection(1..Len(s), ToSet(s))
  BY <1>2 DEF ExistsBijection
<1> QED
  BY <1>1, <1>3, FS_CountingElements

\* A list of numbers has a largest one.
LEMMA LargestOf ==
    ASSUME NEW n \in Nat \ {0}, NEW f \in [1..n -> Nat]
    PROVE  \E m \in 1..n : \A i \in 1..n : f[i] <= f[m]
<1> DEFINE P(k) == \E m \in 1..k : \A i \in 1..k : f[i] <= f[m]
           K == {k \in Nat : k + 1 \in 1..n => P(k + 1)}
<1>1. 0 \in K
  OBVIOUS
<1>2. ASSUME NEW k \in Nat, k \in K PROVE k + 1 \in K
  <2> SUFFICES ASSUME k + 2 \in 1..n PROVE P(k + 2)
    OBVIOUS
  <2>1. PICK m \in 1..k + 1 : \A i \in 1..k + 1 : f[i] <= f[m]
    BY <1>2
  <2>2. f[k + 2] \in Nat /\ f[m] \in Nat /\ \A i \in 1..k + 2 : i \in 1..k + 1 \/ i = k + 2
    OBVIOUS
  <2>3. CASE f[k + 2] <= f[m]
    BY <2>1, <2>2, <2>3
  <2>4. CASE f[m] < f[k + 2]
    <3> \A i \in 1..k + 1 : f[i] \in Nat
      OBVIOUS
    <3> \A i \in 1..k + 2 : f[i] <= f[k + 2]
      BY <2>1, <2>2, <2>4
    <3> QED
      OBVIOUS
  <2> QED
    BY <2>2, <2>3, <2>4
<1>3. Nat \subseteq K
  <2> HIDE DEF K
  <2> QED
    BY <1>1, <1>2, SetInduction
<1>4. n - 1 \in Nat /\ (n - 1) + 1 = n /\ n \in 1..n
  OBVIOUS
<1>5. n - 1 \in K
  BY <1>3, <1>4
<1> HIDE DEF P
<1>6. P(n)
  BY <1>4, <1>5
<1> QED
  BY <1>6 DEF P
=============================================================================
