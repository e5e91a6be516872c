----------------------------- MODULE SumTheorems -----------------------------
(****************************************************************************)
(* Sums and orders of finite sets, and smallest numbers.  MapThenSumSet is   *)
(* defined by a recursive function that takes out one element after the      *)
(* other; that there is such a function, and that the order does not matter, *)
(* is shown by looking at a smallest set for which it would not be so.  In   *)
(* the same way a finite set can be put in order, as the rows of a page are. *)
(****************************************************************************)
EXTENDS Integers, Sequences, FiniteSets, FiniteSetsExt, FiniteSetTheorems, TLAPS

\* The sum of w over S, and the equation of its definition.
SumOf(w, S) == MapThenSumSet(LAMBDA x : w[x], S)
Chosen(s) == CHOOSE x \in s : TRUE
Adds(g, w, T) ==
    \A s \in SUBSET T : g[s] = IF s = {} THEN 0 ELSE w[Chosen(s)] + g[s \ {Chosen(s)}]

\* Some sets of a collection of parts of a finite set have no part in it.
LEMMA SmallestPart ==
    ASSUME NEW T, IsFiniteSet(T), NEW B \in SUBSET SUBSET T, B # {}
    PROVE  \E s \in B : \A r \in SUBSET s : r # s => r \notin B
<1>1. B \subseteq FiniteSubsetsOf(T)
  BY FS_Subset DEF FiniteSubsetsOf
<1>2. IsWellFoundedOn(StrictSubsetOrdering(T), FiniteSubsetsOf(T))
  BY FS_StrictSubsetOrderingWellFounded
<1>3. PICK s \in B : \A r \in B : ~(<<r, s>> \in StrictSubsetOrdering(T))
  BY <1>1, <1>2, WFMin
<1>4. ASSUME NEW r \in SUBSET s, r # s, r \in B PROVE FALSE
  <2>1. <<r, s>> \in StrictSubsetOrdering(T)
    BY <1>4 DEF StrictSubsetOrdering
  <2> QED
    BY <1>3, <1>4, <2>1
<1> QED
  BY <1>4

LEMMA ChosenIsIn == ASSUME NEW s, s # {} PROVE Chosen(s) \in s
  BY DEF Chosen

\* Two functions that add w up agree.
LEMMA SumsAgree ==
    ASSUME NEW T, IsFiniteSet(T), NEW w, NEW g, NEW h, Adds(g, w, T), Adds(h, w, T)
    PROVE  \A s \in SUBSET T : g[s] = h[s]
<1> DEFINE B == {s \in SUBSET T : g[s] # h[s]}
<1> SUFFICES ASSUME B # {} PROVE FALSE
  OBVIOUS
<1>1. PICK s \in B : \A r \in SUBSET s : r # s => r \notin B
  <2>1. B \in SUBSET SUBSET T
    OBVIOUS
  <2> HIDE DEF B
  <2> QED
    BY <2>1, SmallestPart
<1>2. s # {}
  BY DEF Adds
<1>3. Chosen(s) \in s
  BY <1>2, ChosenIsIn
<1>4. s \ {Chosen(s)} \notin B /\ s \ {Chosen(s)} \in SUBSET T
  BY <1>1, <1>3
<1>5. g[s \ {Chosen(s)}] = h[s \ {Chosen(s)}]
  BY <1>4
<1> QED
  BY <1>2, <1>5 DEF Adds

\* There is one for every finite set.
LEMMA SumExists ==
    ASSUME NEW T, IsFiniteSet(T), NEW w, \A x \in T : w[x] \in Nat
    PROVE  \E g \in [SUBSET T -> Nat] : Adds(g, w, T)
<1> DEFINE Has(s) == \E g \in [SUBSET s -> Nat] : Adds(g, w, s)
           B == {s \in SUBSET T : ~Has(s)}
<1> SUFFICES ASSUME B # {} PROVE FALSE
  OBVIOUS
<1>1. PICK s \in B : \A r \in SUBSET s : r # s => r \notin B
  <2>1. B \in SUBSET SUBSET T
    OBVIOUS
  <2> HIDE DEF B
  <2> QED
    BY <2>1, SmallestPart
<1>2. \A r \in SUBSET s : r # s => Has(r)
  BY <1>1
<1> DEFINE Up(r) == CHOOSE g \in [SUBSET r -> Nat] : Adds(g, w, r)
           rest == s \ {Chosen(s)}
           top == IF s = {} THEN 0 ELSE w[Chosen(s)] + Up(rest)[rest]
           g == [r \in SUBSET s |-> IF r = s THEN top ELSE Up(r)[r]]
<1>3. \A r \in SUBSET s : r # s => Up(r) \in [SUBSET r -> Nat] /\ Adds(Up(r), w, r)
  BY <1>2
<1>4. s # {} => Chosen(s) \in s /\ rest \in SUBSET s /\ rest # s
  BY ChosenIsIn
<1>5. top \in Nat
  <2>1. CASE s = {}
    BY <2>1
  <2>2. CASE s # {}
    <3>1. w[Chosen(s)] \in Nat
      BY <1>4, <2>2
    <3>2. Up(rest)[rest] \in Nat
      BY <1>3, <1>4, <2>2
    <3> QED
      BY <2>2, <3>1, <3>2
  <2> QED
    BY <2>1, <2>2
<1>6. g \in [SUBSET s -> Nat]
  BY <1>3, <1>5
<1>7. ASSUME NEW r \in SUBSET s
      PROVE  g[r] = IF r = {} THEN 0 ELSE w[Chosen(r)] + g[r \ {Chosen(r)}]
  <2>1. CASE r = s
    BY <1>4, <2>1
  <2>2. CASE r # s
    <3> DEFINE q == r \ {Chosen(r)}
    <3>1. g[r] = Up(r)[r] /\ Adds(Up(r), w, r)
      BY <1>3, <2>2
    <3>2. CASE r = {}
      BY <3>1, <3>2 DEF Adds
    <3>3. CASE r # {}
      <4>1. q \in SUBSET r /\ q # s /\ q \in SUBSET s /\ q # r
        BY <3>3, ChosenIsIn
      <4>2. IsFiniteSet(q) /\ Adds(Up(r), w, q) /\ Adds(Up(q), w, q)
        <5>1. IsFiniteSet(q)
          BY FS_Subset
        <5>2. Adds(Up(r), w, q)
          BY <3>1, <4>1 DEF Adds
        <5> QED
          BY <1>3, <4>1, <5>1, <5>2
      <4>3. Up(r)[q] = Up(q)[q]
        <5> HIDE DEF Up, q
        <5> QED
          BY <4>2, SumsAgree
      <4>4. Up(r)[r] = w[Chosen(r)] + Up(r)[q]
        BY <3>1, <3>3 DEF Adds
      <4>5. g[q] = Up(q)[q]
        BY <4>1
      <4> QED
        BY <3>1, <3>3, <4>3, <4>4, <4>5
    <3> QED
      BY <3>2, <3>3
  <2> QED
    BY <2>1, <2>2
<1>8. Adds(g, w, s)
  <2> HIDE DEF g
  <2> QED
    BY <1>7 DEF Adds
<1> QED
  <2> HIDE DEF g
  <2> QED
    BY <1>1, <1>6, <1>8

\* What MapThenSumSet computes adds w up.
LEMMA SumAdds ==
    ASSUME NEW T, IsFiniteSet(T), NEW w, \A x \in T : w[x] \in Nat
    PROVE  \E g \in [SUBSET T -> Nat] : Adds(g, w, T) /\ SumOf(w, T) = g[T]
<1> DEFINE Body(g) == [s \in SUBSET T |-> IF s = {} THEN 0 ELSE w[Chosen(s)] + g[s \ {Chosen(s)}]]
           iter == CHOOSE g : g = Body(g)
<1>1. SumOf(w, T) = iter[T]
  BY DEF SumOf, MapThenSumSet, MapThenFoldSet, Chosen
<1>2. PICK g \in [SUBSET T -> Nat] : Adds(g, w, T)
  BY SumExists
<1>3. g = Body(g)
  BY <1>2 DEF Adds
<1>4. iter = Body(iter)
  BY <1>3
<1>5. Adds(iter, w, T)
  <2> HIDE DEF iter
  <2> QED
    BY <1>4 DEF Adds
<1>6. iter[T] = g[T]
  <2> HIDE DEF iter
  <2> QED
    BY <1>2, <1>5, SumsAgree
<1> QED
  BY <1>1, <1>2, <1>6

\* The sum over no elements, and that any element can be taken out first.
LEMMA SumFacts ==
    ASSUME NEW T, IsFiniteSet(T), NEW w, \A x \in T : w[x] \in Nat
    PROVE  /\ SumOf(w, T) \in Nat
           /\ T = {} => SumOf(w, T) = 0
           /\ \A x \in T : SumOf(w, T) = w[x] + SumOf(w, T \ {x})
<1>1. PICK g \in [SUBSET T -> Nat] : Adds(g, w, T) /\ SumOf(w, T) = g[T]
  BY SumAdds
<1>2. ASSUME NEW s \in SUBSET T PROVE SumOf(w, s) = g[s]
  <2>1. IsFiniteSet(s) /\ Adds(g, w, s)
    BY <1>1, FS_Subset DEF Adds
  <2>2. PICK h \in [SUBSET s -> Nat] : Adds(h, w, s) /\ SumOf(w, s) = h[s]
    BY <2>1, SumAdds
  <2> QED
    BY <2>1, <2>2, SumsAgree
<1> DEFINE B == {s \in SUBSET T : \E x \in s : g[s] # w[x] + g[s \ {x}]}
<1>3. ASSUME B # {} PROVE FALSE
  <2>1. PICK s \in B : \A r \in SUBSET s : r # s => r \notin B
    <3>1. B \in SUBSET SUBSET T
      OBVIOUS
    <3> HIDE DEF B
    <3> QED
      BY <1>3, <3>1, SmallestPart
  <2>2. PICK x \in s : g[s] # w[x] + g[s \ {x}]
    OBVIOUS
  <2> DEFINE c == Chosen(s)
  <2>3. c \in s /\ g[s] = w[c] + g[s \ {c}]
    BY <1>1, ChosenIsIn DEF Adds
  <2>4. c # x
    BY <2>2, <2>3
  <2> HIDE DEF c
  <2>5. s \ {c} \notin B /\ s \ {x} \notin B /\ s \ {c} \in SUBSET T /\ s \ {x} \in SUBSET T
    BY <2>1, <2>2, <2>3
  <2>6. g[s \ {c}] = w[x] + g[(s \ {c}) \ {x}]
    BY <2>2, <2>3, <2>4, <2>5
  <2>7. g[s \ {x}] = w[c] + g[(s \ {x}) \ {c}]
    BY <2>2, <2>3, <2>4, <2>5
  <2>8. (s \ {c}) \ {x} = (s \ {x}) \ {c} /\ g[(s \ {c}) \ {x}] \in Nat
    <3>1. (s \ {c}) \ {x} \in SUBSET T
      OBVIOUS
    <3> QED
      BY <3>1
  <2>9. w[x] \in Nat /\ w[c] \in Nat
    BY <2>2, <2>3
  <2>10. PICK k \in Nat, a \in Nat, b \in Nat :
           k = g[(s \ {c}) \ {x}] /\ a = w[x] /\ b = w[c]
    BY <2>8, <2>9
  <2>11. g[s] = b + (a + k) /\ g[s \ {x}] = b + k
    BY <2>3, <2>6, <2>7, <2>8, <2>10
  <2>12. g[s] = a + g[s \ {x}]
    BY <2>11
  <2> QED
    BY <2>2, <2>10, <2>12
<1>4. ASSUME NEW x \in T PROVE SumOf(w, T) = w[x] + SumOf(w, T \ {x})
  <2>1. g[T] = w[x] + g[T \ {x}]
    BY <1>3
  <2> QED
    BY <1>2, <2>1
<1> QED
  BY <1>1, <1>4 DEF Adds

\* The sum depends only on the weights of its elements.
LEMMA SumsOfEqualWeights ==
    ASSUME NEW T, IsFiniteSet(T), NEW w, \A x \in T : w[x] \in Nat, NEW v, \A x \in T : v[x] = w[x]
    PROVE  SumOf(v, T) = SumOf(w, T)
<1>1. PICK g \in [SUBSET T -> Nat] : Adds(g, w, T) /\ SumOf(w, T) = g[T]
  BY SumAdds
<1>2. PICK h \in [SUBSET T -> Nat] : Adds(h, v, T) /\ SumOf(v, T) = h[T]
  BY SumAdds
<1>3. Adds(h, w, T)
  BY <1>2, ChosenIsIn DEF Adds
<1> QED
  BY <1>1, <1>2, <1>3, SumsAgree

\* Nothing adds up to nothing.
LEMMA SumOfZeros ==
    ASSUME NEW T, IsFiniteSet(T), NEW w, \A x \in T : w[x] = 0
    PROVE  SumOf(w, T) = 0
<1> DEFINE h == [s \in SUBSET T |-> 0]
<1>1. Adds(h, w, T)
  <2> SUFFICES ASSUME NEW s \in SUBSET T, s # {} PROVE h[s] = w[Chosen(s)] + h[s \ {Chosen(s)}]
    BY DEF Adds
  <2>1. w[Chosen(s)] = 0 /\ s \ {Chosen(s)} \in SUBSET T
    BY ChosenIsIn
  <2> QED
    BY <2>1
<1>2. h[T] = 0
  OBVIOUS
<1>3. PICK g \in [SUBSET T -> Nat] : Adds(g, w, T) /\ SumOf(w, T) = g[T]
  <2>1. \A x \in T : w[x] \in Nat
    OBVIOUS
  <2> QED
    BY <2>1, SumAdds
<1> HIDE DEF h
<1>4. g[T] = h[T]
  BY <1>1, <1>3, SumsAgree
<1> QED
  BY <1>2, <1>3, <1>4

\* What a sum becomes when the weight of one element changes.
LEMMA SumOfChange ==
    ASSUME NEW T, IsFiniteSet(T), NEW x \in T,
           NEW w, \A y \in T : w[y] \in Nat, NEW v, v[x] \in Nat, \A y \in T \ {x} : v[y] = w[y]
    PROVE  /\ SumOf(v, T) \in Nat /\ SumOf(w, T) \in Nat
           /\ SumOf(v, T) + w[x] = SumOf(w, T) + v[x]
<1>1. IsFiniteSet(T \ {x}) /\ \A y \in T : v[y] \in Nat
  BY FS_Subset
<1>2. /\ SumOf(v, T) = v[x] + SumOf(v, T \ {x}) /\ SumOf(v, T) \in Nat
      /\ SumOf(w, T) = w[x] + SumOf(w, T \ {x}) /\ SumOf(w, T) \in Nat
  BY <1>1, SumFacts
<1>3. SumOf(v, T \ {x}) = SumOf(w, T \ {x}) /\ SumOf(w, T \ {x}) \in Nat
  BY <1>1, SumsOfEqualWeights, SumFacts
<1>4. PICK k \in Nat, a \in Nat, b \in Nat : k = SumOf(w, T \ {x}) /\ a = w[x] /\ b = v[x]
  BY <1>3
<1>5. SumOf(v, T) = b + k /\ SumOf(w, T) = a + k
  BY <1>2, <1>3, <1>4
<1> QED
  BY <1>2, <1>4, <1>5

\* Some numbers have a smallest.
LEMMA SmallestNumber ==
    ASSUME NEW S, S \subseteq Nat, S # {}
    PROVE  \E i \in S : \A j \in S : i <= j
<1>1. PICK i \in S : \A j \in S : ~(<<j, i>> \in OpToRel(<, Nat))
  BY NatLessThanWellFounded, WFMin
<1>2. \A j \in S : ~(j < i)
  BY <1>1 DEF OpToRel
<1> QED
  BY <1>2

-----------------------------------------------------------------------------
(* Finite sets in order.  A strict order is a set of pairs.                   *)

Orders(R, S) ==
    /\ \A x, y \in S : <<x, y>> \in R => <<y, x>> \notin R
    /\ \A x, y \in S : x # y => <<x, y>> \in R \/ <<y, x>> \in R
    /\ \A x, y, z \in S : <<x, y>> \in R /\ <<y, z>> \in R => <<x, z>> \in R

IsLast(R, S, m) == m \in S /\ \A x \in S : x # m => <<x, m>> \in R

Sorts(R, S, s) ==
    /\ s \in [1..Cardinality(S) -> S]
    /\ \A i, j \in 1..Cardinality(S) : i < j => <<s[i], s[j]>> \in R

\* A finite set that is not empty has a last member.
LEMMA LastMember ==
    ASSUME NEW R, NEW S, IsFiniteSet(S), S # {}, Orders(R, S)
    PROVE  \E m : IsLast(R, S, m)
<1> DEFINE Bad == {n \in Nat : \E T \in SUBSET S : T # {} /\ Cardinality(T) = n /\ ~\E m : IsLast(R, T, m)}
<1>1. Bad = {}
  <2> SUFFICES ASSUME Bad # {} PROVE FALSE
    OBVIOUS
  <2>1. PICK n \in Bad : \A k \in Bad : n <= k
    <3>1. Bad \subseteq Nat
      OBVIOUS
    <3> HIDE DEF Bad
    <3> QED
      BY <3>1, SmallestNumber
  <2>2. PICK T \in SUBSET S : T # {} /\ Cardinality(T) = n /\ ~\E m : IsLast(R, T, m)
    OBVIOUS
  <2>3. IsFiniteSet(T)
    BY FS_Subset
  <2>4. PICK x \in T : TRUE
    BY <2>2
  <2> DEFINE U == T \ {x}
  <2>5. IsFiniteSet(U) /\ Cardinality(U) = Cardinality(T) - 1 /\ Cardinality(U) \in Nat
    BY <2>3, <2>4, FS_RemoveElement, FS_CardinalityType
  <2>6. U # {}
    BY <2>2, <2>4 DEF IsLast
  <2>7. Cardinality(U) \notin Bad
    <3>1. n \in Nat /\ Cardinality(U) < n
      BY <2>2, <2>5
    <3> HIDE DEF Bad, U
    <3> QED
      BY <2>1, <2>5, <3>1
  <2>8. PICK m : IsLast(R, U, m)
    BY <2>5, <2>6, <2>7
  <2>9. CASE <<m, x>> \in R
    <3>1. IsLast(R, T, x)
      BY <2>4, <2>8, <2>9 DEF IsLast, Orders
    <3> QED
      BY <2>2, <3>1
  <2>10. CASE <<m, x>> \notin R
    <3>1. IsLast(R, T, m)
      BY <2>4, <2>8, <2>10 DEF IsLast, Orders
    <3> QED
      BY <2>2, <3>1
  <2> QED
    BY <2>9, <2>10
<1>2. Cardinality(S) \in Nat
  BY FS_CardinalityType
<1> QED
  BY <1>1, <1>2

\* A finite set can be put in order.
LEMMA CanBeSorted ==
    ASSUME NEW R, NEW S, IsFiniteSet(S), Orders(R, S)
    PROVE  \E s : Sorts(R, S, s)
<1> DEFINE Bad == {n \in Nat : \E T \in SUBSET S : Cardinality(T) = n /\ ~\E s : Sorts(R, T, s)}
<1>1. Bad = {}
  <2> SUFFICES ASSUME Bad # {} PROVE FALSE
    OBVIOUS
  <2>1. PICK n \in Bad : \A k \in Bad : n <= k
    <3>1. Bad \subseteq Nat
      OBVIOUS
    <3> HIDE DEF Bad
    <3> QED
      BY <3>1, SmallestNumber
  <2>2. PICK T \in SUBSET S : Cardinality(T) = n /\ ~\E s : Sorts(R, T, s)
    OBVIOUS
  <2>3. IsFiniteSet(T) /\ n \in Nat
    BY FS_Subset
  <2>4. T # {}
    <3> SUFFICES ASSUME T = {} PROVE FALSE
      OBVIOUS
    <3>1. Cardinality(T) = 0
      BY FS_EmptySet
    <3>2. Sorts(R, T, [i \in 1..0 |-> 0])
      BY <3>1 DEF Sorts
    <3> QED
      BY <2>2, <3>2
  <2>5. PICK m : IsLast(R, T, m)
    <3>1. Orders(R, T)
      BY DEF Orders
    <3> QED
      BY <2>3, <2>4, <3>1, LastMember
  <2>6. m \in T /\ \A x \in T : x # m => <<x, m>> \in R
    BY <2>5 DEF IsLast
  <2> DEFINE U == T \ {m}
  <2>7. IsFiniteSet(U) /\ Cardinality(U) = n - 1 /\ Cardinality(U) \in Nat /\ U \in SUBSET S
    BY <2>2, <2>3, <2>6, FS_RemoveElement, FS_CardinalityType
  <2>8. Cardinality(U) \notin Bad
    <3>1. Cardinality(U) < n
      BY <2>3, <2>7
    <3> HIDE DEF Bad, U
    <3> QED
      BY <2>1, <2>3, <2>7, <3>1
  <2>9. PICK s : Sorts(R, U, s)
    BY <2>7, <2>8
  <2>10. s \in [1..(n - 1) -> U] /\ \A i, j \in 1..(n - 1) : i < j => <<s[i], s[j]>> \in R
    BY <2>7, <2>9 DEF Sorts
  <2> DEFINE t == [i \in 1..n |-> IF i = n THEN m ELSE s[i]]
  <2>11. \A i \in 1..n : i # n => i \in 1..(n - 1) /\ t[i] = s[i] /\ s[i] \in U
    BY <2>3, <2>10
  <2>12. \A i \in 1..n : i = n => t[i] = m
    OBVIOUS
  <2>13. t \in [1..n -> T]
    BY <2>6, <2>10, <2>11
  <2> HIDE DEF t
  <2>14. ASSUME NEW i \in 1..n, NEW j \in 1..n, i < j PROVE <<t[i], t[j]>> \in R
    <3>1. i # n /\ i \in 1..(n - 1) /\ t[i] = s[i] /\ s[i] \in U
      BY <2>3, <2>11, <2>14
    <3>2. CASE j = n
      BY <2>6, <2>12, <3>1, <3>2
    <3>3. CASE j # n
      BY <2>10, <2>11, <2>14, <3>1, <3>3
    <3> QED
      BY <3>2, <3>3
  <2>15. Sorts(R, T, t)
    BY <2>2, <2>13, <2>14 DEF Sorts
  <2> QED
    BY <2>2, <2>15
<1>2. Cardinality(S) \in Nat
  BY FS_CardinalityType
<1> QED
  BY <1>1, <1>2

\* What is put in order has every member at one place.
LEMMA SortedIsWhole ==
    ASSUME NEW R, NEW S, IsFiniteSet(S), Orders(R, S), NEW s, Sorts(R, S, s)
    PROVE  /\ s \in Seq(S) /\ Len(s) = Cardinality(S) /\ Cardinality(S) \in Nat
           /\ \A i, j \in 1..Len(s) : s[i] = s[j] => i = j
           /\ \A i, j \in 1..Len(s) : <<s[i], s[j]>> \in R => i < j
           /\ \A x \in S : \E i \in 1..Len(s) : s[i] = x
<1> DEFINE n == Cardinality(S)
<1>1. n \in Nat /\ s \in [1..n -> S] /\ \A i, j \in 1..n : i < j => <<s[i], s[j]>> \in R
  BY FS_CardinalityType DEF Sorts
<1> HIDE DEF n
<1>2. s \in Seq(S) /\ Len(s) = n
  BY <1>1
<1>3. ASSUME NEW i \in 1..n, NEW j \in 1..n, s[i] = s[j] PROVE i = j
  <2>1. s[i] \in S /\ s[j] \in S
    BY <1>1
  <2>2. ~(i < j) /\ ~(j < i)
    BY <1>1, <1>3, <2>1 DEF Orders
  <2> QED
    BY <1>1, <2>2
<1>4. ASSUME NEW i \in 1..n, NEW j \in 1..n, <<s[i], s[j]>> \in R PROVE i < j
  <2>1. s[i] \in S /\ s[j] \in S
    BY <1>1
  <2>2. ~(j < i) /\ i # j
    BY <1>1, <1>4, <2>1 DEF Orders
  <2> QED
    BY <1>1, <2>2
<1>5. s \in Injection(1..n, S)
  BY <1>1, <1>3 DEF Injection, IsInjective
<1>6. IsFiniteSet(1..n) /\ Cardinality(1..n) = n
  BY <1>1, FS_Interval
<1>7. s \in Surjection(1..n, S)
  BY <1>5, <1>6, FS_Injection DEF n
<1>8. \A x \in S : \E i \in 1..n : s[i] = x
  BY <1>7 DEF Surjection
<1> QED
  BY <1>1, <1>2, <1>3, <1>4, <1>8 DEF n

\* The first n of what is put in order: all of it, or all up to the n-th.
FirstOnes(s, n) == SubSeq(s, 1, IF Len(s) > n THEN n ELSE Len(s))

LEMMA FirstOnesOfSorted ==
    ASSUME NEW R, NEW S, IsFiniteSet(S), Orders(R, S), NEW s, Sorts(R, S, s), NEW n \in Nat \ {0}
    PROVE  /\ FirstOnes(s, n) \in Seq(S)
           /\ \A i, j \in 1..Len(FirstOnes(s, n)) : FirstOnes(s, n)[i] = FirstOnes(s, n)[j] => i = j
           /\ ~(Len(s) > n) => \A x \in S : \E i \in 1..Len(FirstOnes(s, n)) : FirstOnes(s, n)[i] = x
           /\ Len(s) > n => /\ s[n] \in S
                            /\ \A x \in S : (\E i \in 1..Len(FirstOnes(s, n)) : FirstOnes(s, n)[i] = x)
                                            <=> <<s[n], x>> \notin R
<1> DEFINE k == IF Len(s) > n THEN n ELSE Len(s)
           items == FirstOnes(s, n)
<1>1. /\ s \in Seq(S) /\ Len(s) \in Nat
      /\ \A i, j \in 1..Len(s) : s[i] = s[j] => i = j
      /\ \A i, j \in 1..Len(s) : <<s[i], s[j]>> \in R => i < j
      /\ \A x \in S : \E i \in 1..Len(s) : s[i] = x
  BY SortedIsWhole
<1>2. k \in Nat /\ k <= Len(s)
  BY <1>1
<1>3. \A i, j \in 1..Len(s) : i < j => <<s[i], s[j]>> \in R
  BY <1>1, SortedIsWhole DEF Sorts
<1>4. items = SubSeq(s, 1, k)
  BY DEF FirstOnes
<1> HIDE DEF items, k
<1>5. items \in Seq(S) /\ Len(items) = k /\ \A i \in 1..k : items[i] = s[i] /\ i \in 1..Len(s)
  BY <1>1, <1>2, <1>4
<1>6. \A i, j \in 1..Len(items) : items[i] = items[j] => i = j
  BY <1>1, <1>5
<1>7. ASSUME ~(Len(s) > n) PROVE \A x \in S : \E i \in 1..Len(items) : items[i] = x
  <2>1. k = Len(s)
    BY <1>7 DEF k
  <2> QED
    BY <1>1, <1>5, <2>1
<1>8. ASSUME Len(s) > n
      PROVE  s[n] \in S /\ \A x \in S : (\E i \in 1..Len(items) : items[i] = x) <=> <<s[n], x>> \notin R
  <2>1. k = n /\ n \in 1..Len(s)
    BY <1>1, <1>8 DEF k
  <2>2. s[n] \in S
    BY <1>1, <2>1
  <2> SUFFICES ASSUME NEW x \in S PROVE (\E i \in 1..Len(items) : items[i] = x) <=> <<s[n], x>> \notin R
    BY <2>2
  <2>3. PICK m \in 1..Len(s) : s[m] = x
    BY <1>1
  <2>4. <<s[n], x>> \in R <=> n < m
    BY <1>1, <1>3, <2>1, <2>3
  <2>5. (\E i \in 1..Len(items) : items[i] = x) <=> m \in 1..n
    BY <1>1, <1>5, <2>1, <2>3
  <2>6. m \in 1..n <=> ~(n < m)
    BY <1>1, <2>1
  <2> QED
    BY <2>4, <2>5, <2>6
<1> QED
  BY <1>5, <1>6, <1>7, <1>8 DEF items

==============================================================================
