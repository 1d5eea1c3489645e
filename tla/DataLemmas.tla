----------------------------- MODULE DataLemmas -----------------------------
(***************************************************************************)
(* Facts about the data the components are built from, for the proofs of   *)
(* several of them: induction, sums over finite sets, and sequences used   *)
(* as queues.                                                              *)
(***************************************************************************)
EXTENDS Integers, Sequences, Functions, FiniteSetsExt, SequenceTheorems, FiniteSetTheorems,
        WellFoundedInduction, TLAPS

(* Induction over the naturals and over finite sets, for a property given  *)
(* as the set of what has it.                                              *)
LEMMA NatSetInduction ==
  ASSUME NEW S, 0 \in S, \A n \in Nat : n \in S => n + 1 \in S
  PROVE  Nat \subseteq S
<1> DEFINE R == OpToRel(<, Nat)
           T == Nat \ S
<1>1. SUFFICES ASSUME T # {} PROVE FALSE
  OBVIOUS
<1>2. PICK n \in T : \A m \in T : ~ (<<m, n>> \in R)
  <2>1. IsWellFoundedOn(R, Nat)
    BY NatLessThanWellFounded
  <2>2. T \subseteq Nat
    OBVIOUS
  <2> HIDE DEF R, T
  <2> QED
    BY <1>1, <2>1, <2>2, WFMin
<1>3. n - 1 \in Nat /\ <<n - 1, n>> \in R
  BY DEF OpToRel
<1>4. n - 1 \in S
  BY <1>2, <1>3
<1>5. (n - 1) + 1 \in S
  BY <1>3, <1>4
<1>6. (n - 1) + 1 = n /\ n \notin S
  OBVIOUS
<1> QED
  BY <1>5, <1>6

LEMMA FiniteSetInduction ==
  ASSUME NEW S, IsFiniteSet(S), NEW P, {} \in P,
         \A T \in SUBSET S : \A x \in S \ T : T \in P => T \cup {x} \in P
  PROVE  SUBSET S \subseteq P
<1> DEFINE Q == {n \in Nat : \A T \in SUBSET S : Cardinality(T) = n => T \in P}
<1>1. \A T \in SUBSET S : IsFiniteSet(T) /\ Cardinality(T) \in Nat
  BY FS_Subset, FS_CardinalityType
<1>2. 0 \in Q
  BY <1>1, FS_EmptySet
<1>3. ASSUME NEW n \in Nat, n \in Q, NEW T \in SUBSET S, Cardinality(T) = n + 1
      PROVE  T \in P
  <2>1. PICK x \in T : TRUE
    BY <1>1, <1>3, FS_EmptySet
  <2>2. T \ {x} \in SUBSET S /\ Cardinality(T \ {x}) = n
    <3>1. Cardinality(T \ {x}) = Cardinality(T) - 1
      BY <1>1, <2>1, FS_RemoveElement
    <3> QED
      BY <1>3, <3>1
  <2>3. T \ {x} \in P
    BY <1>3, <2>2
  <2>4. (T \ {x}) \cup {x} = T /\ x \in S \ (T \ {x})
    BY <2>1, <1>3
  <2>5. (T \ {x}) \cup {x} \in P
    BY <2>2, <2>3, <2>4
  <2> QED
    BY <2>4, <2>5
<1>4. \A n \in Nat : n \in Q => n + 1 \in Q
  BY <1>3
<1> HIDE DEF Q
<1>6. Nat \subseteq Q
  BY <1>2, <1>4, NatSetInduction
<1> USE DEF Q
<1>5. ASSUME NEW T \in SUBSET S PROVE T \in P
  <2>1. Cardinality(T) \in Q
    BY <1>1, <1>6
  <2> QED
    BY <2>1
<1> QED
  BY <1>5

-----------------------------------------------------------------------------
(* The least of some numbers.                                              *)
LEMMA LeastNat ==
  ASSUME NEW S \in SUBSET Nat, S # {}
  PROVE  Min(S) \in S /\ \A n \in S : Min(S) <= n
<1> DEFINE R == OpToRel(<, Nat)
<1>1. PICK n \in S : \A m \in S : ~ (<<m, n>> \in R)
  <2>1. IsWellFoundedOn(R, Nat)
    BY NatLessThanWellFounded
  <2> HIDE DEF R
  <2> QED
    BY <2>1, WFMin
<1>2. ASSUME NEW m \in S PROVE n <= m
  <2>1. m \in Nat /\ n \in Nat /\ ~ (<<m, n>> \in R)
    BY <1>1
  <2> QED
    BY <2>1 DEF OpToRel
<1>3. \E x \in S : \A y \in S : x <= y
  BY <1>2
<1> QED
  BY <1>3 DEF Min

(* Finite sets in order: R, a set of pairs, orders S, and s lists S by R.  *)
Orders(R, S) ==
  /\ \A x \in S : <<x, x>> \notin R
  /\ \A x, y \in S : x # y => <<x, y>> \in R \/ <<y, x>> \in R
  /\ \A x, y, z \in S : <<x, y>> \in R /\ <<y, z>> \in R => <<x, z>> \in R

Lists(s, R, S) ==
  /\ s \in [1 .. Cardinality(S) -> S]
  /\ \A i, j \in 1 .. Cardinality(S) : i < j => <<s[i], s[j]>> \in R
  /\ \A x \in S : \E i \in 1 .. Cardinality(S) : s[i] = x

LEMMA LastOfSet ==
  ASSUME NEW S, IsFiniteSet(S), S # {}, NEW R, Orders(R, S)
  PROVE  \E m \in S : \A x \in S \ {m} : <<x, m>> \in R
<1> DEFINE HasLast(T) == \E m \in T : \A x \in T \ {m} : <<x, m>> \in R
           P == {T \in SUBSET S : T = {} \/ HasLast(T)}
<1>1. {} \in P
  OBVIOUS
<1>2. ASSUME NEW T \in SUBSET S, NEW x \in S \ T, T \in P PROVE T \cup {x} \in P
  <2>1. CASE T = {}
    <3>1. HasLast(T \cup {x})
      BY <2>1
    <3> QED
      BY <3>1
  <2>2. CASE T # {}
    <3>1. PICK m \in T : \A y \in T \ {m} : <<y, m>> \in R
      BY <1>2, <2>2
    <3>2. CASE <<x, m>> \in R
      <4>1. HasLast(T \cup {x})
        BY <3>1, <3>2
      <4> QED
        BY <4>1
    <3>3. CASE <<x, m>> \notin R
      <4>1. <<m, x>> \in R
        BY <1>2, <3>1, <3>3 DEF Orders
      <4>2. \A y \in T : <<y, x>> \in R
        BY <1>2, <3>1, <4>1 DEF Orders
      <4>3. HasLast(T \cup {x})
        BY <4>2
      <4> QED
        BY <4>3
    <3> QED
      BY <3>2, <3>3
  <2> QED
    BY <2>1, <2>2
<1>3. \A T \in SUBSET S : \A x \in S \ T : T \in P => T \cup {x} \in P
  BY <1>2
<1> HIDE DEF P
<1>4. SUBSET S \subseteq P
  BY <1>1, <1>3, FiniteSetInduction
<1>5. S \in P
  BY <1>4
<1> QED
  BY <1>5 DEF P

LEMMA ListingExists ==
  ASSUME NEW S, IsFiniteSet(S), NEW R, Orders(R, S)
  PROVE  \E s : Lists(s, R, S)
<1> DEFINE Q == {n \in Nat : \A T \in SUBSET S : Cardinality(T) = n => \E s : Lists(s, R, T)}
<1>1. \A T \in SUBSET S : IsFiniteSet(T) /\ Cardinality(T) \in Nat
  BY FS_Subset, FS_CardinalityType
<1>2. ASSUME NEW T \in SUBSET S, Cardinality(T) = 0 PROVE \E s : Lists(s, R, T)
  <2>1. T = {}
    BY <1>1, <1>2, FS_EmptySet
  <2>2. 1 .. Cardinality(T) = {}
    BY <1>2
  <2>3. [i \in {} |-> i] \in [1 .. Cardinality(T) -> T]
    BY <2>2
  <2>4. Lists([i \in {} |-> i], R, T)
    BY <2>1, <2>2, <2>3 DEF Lists
  <2> QED
    BY <2>4
<1>3. 0 \in Q
  BY <1>2
<1>4. ASSUME NEW n \in Nat, n \in Q, NEW T \in SUBSET S, Cardinality(T) = n + 1
      PROVE  \E s : Lists(s, R, T)
  <2>1. T # {} /\ IsFiniteSet(T)
    BY <1>1, <1>4, FS_EmptySet
  <2>2. Orders(R, T)
    BY DEF Orders
  <2>3. PICK m \in T : \A x \in T \ {m} : <<x, m>> \in R
    BY <2>1, <2>2, LastOfSet
  <2>4. T \ {m} \in SUBSET S /\ Cardinality(T \ {m}) = n
    <3>1. Cardinality(T \ {m}) = Cardinality(T) - 1
      BY <2>1, FS_RemoveElement
    <3> QED
      BY <1>4, <3>1
  <2>5. PICK s : Lists(s, R, T \ {m})
    BY <1>4, <2>4
  <2>6. /\ s \in [1 .. n -> T \ {m}]
        /\ \A i, j \in 1 .. n : i < j => <<s[i], s[j]>> \in R
        /\ \A x \in T \ {m} : \E i \in 1 .. n : s[i] = x
    BY <2>4, <2>5 DEF Lists
  <2> DEFINE t == [i \in 1 .. n + 1 |-> IF i = n + 1 THEN m ELSE s[i]]
  <2>7. t[n + 1] = m /\ \A i \in 1 .. n : t[i] = s[i] /\ i \in 1 .. n + 1
    OBVIOUS
  <2>8. t \in [1 .. n + 1 -> T]
    BY <2>6
  <2> HIDE DEF t
  <2>9. ASSUME NEW i \in 1 .. n + 1, NEW j \in 1 .. n + 1, i < j PROVE <<t[i], t[j]>> \in R
    <3>1. i \in 1 .. n
      BY <2>9
    <3>2. CASE j = n + 1
      <4>1. s[i] \in T \ {m}
        BY <2>6, <3>1
      <4> QED
        BY <2>3, <2>7, <3>1, <3>2, <4>1
    <3>3. CASE j # n + 1
      <4>1. j \in 1 .. n
        BY <3>3
      <4> QED
        BY <2>6, <2>7, <2>9, <3>1, <4>1
    <3> QED
      BY <3>2, <3>3
  <2>10. ASSUME NEW x \in T PROVE \E i \in 1 .. n + 1 : t[i] = x
    <3>1. CASE x = m
      BY <2>7, <3>1
    <3>2. CASE x # m
      BY <2>6, <2>7, <3>2
    <3> QED
      BY <3>1, <3>2
  <2>11. Lists(t, R, T)
    BY <1>4, <2>8, <2>9, <2>10 DEF Lists
  <2> QED
    BY <2>11
<1>5. \A n \in Nat : n \in Q => n + 1 \in Q
  BY <1>4
<1> HIDE DEF Q
<1>6. Nat \subseteq Q
  BY <1>3, <1>5, NatSetInduction
<1>7. Cardinality(S) \in Q
  BY <1>1, <1>6
<1> QED
  BY <1>7 DEF Q

(* A list in order, of as many members as the set has, has all of them.    *)
LEMMA ListingOnto ==
  ASSUME NEW S, IsFiniteSet(S), NEW R, Orders(R, S), NEW s \in [1 .. Cardinality(S) -> S],
         \A i, j \in 1 .. Cardinality(S) : i < j => <<s[i], s[j]>> \in R
  PROVE  Lists(s, R, S) /\ Range(s) = S
<1> DEFINE n == Cardinality(S)
<1>1. n \in Nat
  BY FS_CardinalityType
<1>2. \A i, j \in 1 .. n : s[i] = s[j] => i = j
  <2> TAKE i \in 1 .. n, j \in 1 .. n
  <2>1. s[i] \in S /\ s[j] \in S
    OBVIOUS
  <2>2. <<s[i], s[i]>> \notin R /\ <<s[j], s[j]>> \notin R
    BY <2>1 DEF Orders
  <2> QED
    BY <1>1, <2>2
<1>3. IsFiniteSet(1 .. n) /\ Cardinality(1 .. n) = n
  <2> HIDE DEF n
  <2>1. IsFiniteSet(1 .. n) /\ Cardinality(1 .. n) = IF 1 > n THEN 0 ELSE n - 1 + 1
    BY <1>1, FS_Interval
  <2> QED
    BY <1>1, <2>1
<1>4. s \in Injection(1 .. n, S)
  BY <1>2 DEF Injection, IsInjective
<1>5. Cardinality(1 .. n) = Cardinality(S)
  BY <1>3
<1> HIDE DEF n
<1>6. s \in Surjection(1 .. n, S)
  BY <1>3, <1>4, <1>5, FS_Injection
<1>7. \A x \in S : \E i \in 1 .. n : s[i] = x
  BY <1>6 DEF Surjection
<1>8. DOMAIN s = 1 .. n /\ \A i \in 1 .. n : s[i] \in S
  BY DEF n
<1>9. Range(s) = S
  BY <1>7, <1>8 DEF Range
<1> QED
  BY <1>7, <1>9 DEF Lists, n

-----------------------------------------------------------------------------
(* Sums over finite sets.  Adds(f, g, S) says that g gives the sum of f    *)
(* over every subset of S.                                                 *)
Adds(f, g, S) ==
  /\ g \in [SUBSET S -> Int] /\ g[{}] = 0
  /\ \A T \in SUBSET S : \A x \in S \ T : g[T \cup {x}] = g[T] + f[x]

Chosen(T) == CHOOSE x \in T : TRUE
SumStep(f, S, g) ==
  [T \in SUBSET S |-> IF T = {} THEN 0 ELSE f[Chosen(T)] + g[T \ {Chosen(T)}]]

LEMMA SumByChoice ==
  ASSUME NEW f, NEW S
  PROVE  SumFunctionOnSet(f, S) = (CHOOSE g : g = SumStep(f, S, g))[S]
BY DEF SumFunctionOnSet, FoldFunctionOnSet, MapThenFoldSet, SumStep, Chosen

(* There is such a g, ...                                                  *)
LEMMA AddsExists ==
  ASSUME NEW S, IsFiniteSet(S), NEW f, \A x \in S : f[x] \in Int
  PROVE  \E g : Adds(f, g, S)
<1> DEFINE P == {T \in SUBSET S : \E g : Adds(f, g, T)}
<1>1. {} \in P
  <2>1. Adds(f, [T \in SUBSET {} |-> 0], {})
    BY DEF Adds
  <2> QED BY <2>1
<1>2. ASSUME NEW T \in SUBSET S, NEW y \in S \ T, T \in P
      PROVE  T \cup {y} \in P
  <2>1. PICK g : Adds(f, g, T)
    BY <1>2
  <2> DEFINE V == T \cup {y}
             h == [U \in SUBSET V |-> IF y \in U THEN g[U \ {y}] + f[y] ELSE g[U]]
  <2>2. \A U \in SUBSET V : /\ U \ {y} \in SUBSET T 
                            /\ y \notin U => U \in SUBSET T /\ U \ {y} = U
    OBVIOUS
  <2>3. h \in [SUBSET V -> Int]
    BY <2>1, <2>2 DEF Adds
  <2>4. h[{}] = 0
    BY <2>1 DEF Adds
  <2>5. ASSUME NEW U \in SUBSET V, NEW x \in V \ U PROVE h[U \cup {x}] = h[U] + f[x]
    <3>1. U \cup {x} \in SUBSET V
      OBVIOUS
    <3>2. CASE x = y
      <4>1. (U \cup {x}) \ {y} = U /\ y \notin U /\ y \in U \cup {x}
        BY <3>2
      <4> QED
        BY <3>1, <4>1, <3>2
    <3>3. CASE x # y /\ y \in U
      <4>1. (U \cup {x}) \ {y} = (U \ {y}) \cup {x} /\ U \ {y} \in SUBSET T /\ x \in T \ (U \ {y})
        BY <3>3
      <4>2. g[(U \ {y}) \cup {x}] = g[U \ {y}] + f[x]
        BY <2>1, <4>1 DEF Adds
      <4>3. h[U \cup {x}] = g[(U \ {y}) \cup {x}] + f[y] /\ h[U] = g[U \ {y}] + f[y]
        BY <3>1, <3>3, <4>1
      <4>4. g[U \ {y}] \in Int
        BY <2>1, <4>1 DEF Adds
      <4> QED
        BY <4>2, <4>3, <4>4
    <3>4. CASE x # y /\ y \notin U
      <4>1. U \in SUBSET T /\ x \in T \ U /\ y \notin U \cup {x}
        BY <3>4
      <4> QED
        BY <2>1, <3>1, <4>1 DEF Adds
    <3> QED
      BY <3>2, <3>3, <3>4
  <2>6. Adds(f, h, V)
    BY <2>3, <2>4, <2>5 DEF Adds
  <2> QED
    BY <2>6
<1>3. \A T \in SUBSET S : \A y \in S \ T : T \in P => T \cup {y} \in P
  BY <1>2
<1> HIDE DEF P
<1>5. SUBSET S \subseteq P
  BY <1>1, <1>3, FiniteSetInduction
<1>4. S \in P
  BY <1>5
<1> USE DEF P
<1> QED
  BY <1>4

(* ... the recursive definition has it for its value, ...                  *)
LEMMA StepIsAdds ==
  ASSUME NEW S, IsFiniteSet(S), NEW f, \A x \in S : f[x] \in Int,
         NEW g, Adds(f, g, S), NEW h, h = SumStep(f, S, h)
  PROVE  h = g
<1> DEFINE Small(n) == \A T \in SUBSET S : Cardinality(T) <= n => h[T] = g[T]
<1>h. h = [T \in SUBSET S |-> IF T = {} THEN 0 ELSE f[Chosen(T)] + h[T \ {Chosen(T)}]]
  BY DEF SumStep
<1> DEFINE Q == {n \in Nat : Small(n)}
<1>2. \A T \in SUBSET S : IsFiniteSet(T) /\ Cardinality(T) \in Nat
  BY FS_Subset, FS_CardinalityType
<1>3. h[{}] = g[{}]
  BY <1>h DEF Adds
<1>4. 0 \in Q
  BY <1>2, <1>3, FS_EmptySet
<1>5. ASSUME NEW n \in Nat, n \in Q, NEW T \in SUBSET S, Cardinality(T) <= n + 1 
      PROVE  h[T] = g[T]
  <2>1. CASE T = {}
    BY <1>3, <2>1
  <2>2. CASE T # {}
    <3> DEFINE c == Chosen(T)
    <3>1. c \in T
      BY <2>2 DEF Chosen
    <3>2. T \ {c} \in SUBSET S /\ Cardinality(T \ {c}) = Cardinality(T) - 1 
      BY <1>2, <3>1, FS_RemoveElement
    <3>3. h[T \ {c}] = g[T \ {c}]
      BY <1>2, <1>5, <3>2
    <3>4. h[T] = f[c] + h[T \ {c}]
      BY <1>h, <2>2
    <3>5. (T \ {c}) \cup {c} = T /\ c \in S \ (T \ {c})
      BY <3>1
    <3>6. g[T] = g[T \ {c}] + f[c] /\ g[T \ {c}] \in Int /\ f[c] \in Int
      BY <3>2, <3>5 DEF Adds
    <3> QED
      BY <3>3, <3>4, <3>6
  <2> QED
    BY <2>1, <2>2
<1>6. \A n \in Nat : n \in Q => n + 1 \in Q
  BY <1>5
<1> HIDE DEF Q
<1>8. Nat \subseteq Q
  BY <1>4, <1>6, NatSetInduction
<1> USE DEF Q
<1>7. ASSUME NEW T \in SUBSET S PROVE h[T] = g[T]
  <2>1. Cardinality(T) \in Q
    BY <1>2, <1>8
  <2> QED
    BY <1>2, <2>1
<1>9. h \in [SUBSET S -> Int]
  BY <1>h, <1>7 DEF Adds
<1> QED
  BY <1>7, <1>9 DEF Adds

LEMMA AddsIsStep ==
  ASSUME NEW S, NEW f, \A x \in S : f[x] \in Int, NEW g, Adds(f, g, S)
  PROVE  g = SumStep(f, S, g)
<1>1. ASSUME NEW T \in SUBSET S, T # {} PROVE g[T] = f[Chosen(T)] + g[T \ {Chosen(T)}]
  <2>1. Chosen(T) \in T
    BY <1>1 DEF Chosen
  <2> DEFINE c == Chosen(T)
  <2>2. (T \ {c}) \cup {c} = T /\ T \ {c} \in SUBSET S /\ c \in S \ (T \ {c}) /\ c \in S
    BY <2>1
  <2>3. g[(T \ {c}) \cup {c}] = g[T \ {c}] + f[c] /\ g[T \ {c}] \in Int /\ f[c] \in Int
    BY <2>2 DEF Adds
  <2>4. g[T] = f[c] + g[T \ {c}]
    <3> HIDE DEF c
    <3>1. g[T] = g[T \ {c}] + f[c]
      BY <2>2, <2>3, Zenon
    <3> QED
      BY <2>3, <3>1
  <2> QED
    BY <2>4
<1> QED
  BY <1>1 DEF SumStep, Adds

(* ... so the sum over a subset is what g says.                            *)
LEMMA SumIs ==
  ASSUME NEW S, IsFiniteSet(S), NEW f, \A x \in S : f[x] \in Int, NEW g, Adds(f, g, S)
  PROVE  SumFunctionOnSet(f, S) = g[S]
<1> DEFINE h == CHOOSE h : h = SumStep(f, S, h)
<1>1. h = SumStep(f, S, h)
  BY AddsIsStep
<1> HIDE DEF h
<1>2. h = g
  BY <1>1, StepIsAdds
<1> QED
  BY <1>2, SumByChoice DEF h

LEMMA SumEmpty == ASSUME NEW f PROVE SumFunctionOnSet(f, {}) = 0
<1>1. Adds(f, [T \in SUBSET {} |-> 0], {})
  BY DEF Adds
<1> QED
  BY <1>1, SumIs, FS_EmptySet

LEMMA SumType ==
  ASSUME NEW S, IsFiniteSet(S), NEW f, \A x \in S : f[x] \in Int
  PROVE  SumFunctionOnSet(f, S) \in Int
<1>1. PICK g : Adds(f, g, S)
  BY AddsExists
<1>2. SumFunctionOnSet(f, S) = g[S]
  BY <1>1, SumIs
<1> QED
  BY <1>1, <1>2 DEF Adds

LEMMA SumInsert ==
  ASSUME NEW S, IsFiniteSet(S), NEW x, x \notin S, NEW f, \A y \in S \cup {x} : f[y] \in Int
  PROVE  SumFunctionOnSet(f, S \cup {x}) = SumFunctionOnSet(f, S) + f[x]
<1> DEFINE V == S \cup {x}
<1>0. IsFiniteSet(V)
  BY FS_AddElement
<1>1. PICK g : Adds(f, g, V)
  BY <1>0, AddsExists
<1>2. Adds(f, [T \in SUBSET S |-> g[T]], S)
  BY <1>1 DEF Adds
<1>3. SumFunctionOnSet(f, V) = g[V]
  BY <1>0, <1>1, SumIs
<1>4. SumFunctionOnSet(f, S) = g[S]
  BY <1>2, SumIs
<1>5. g[V] = g[S] + f[x]
  BY <1>1 DEF Adds
<1> QED
  BY <1>3, <1>4, <1>5

LEMMA SumSame ==
  ASSUME NEW S, IsFiniteSet(S), NEW f, NEW g, \A y \in S : f[y] \in Int /\ g[y] = f[y]
  PROVE  SumFunctionOnSet(f, S) = SumFunctionOnSet(g, S)
<1>1. PICK a : Adds(f, a, S)
  BY AddsExists
<1>2. Adds(g, a, S)
  BY <1>1 DEF Adds
<1> QED
  BY <1>1, <1>2, SumIs

(* Functions on the same finite set that differ at k only.                 *)
LEMMA SumExcept ==
  ASSUME NEW S, IsFiniteSet(S), NEW f \in [S -> Int], NEW g \in [S -> Int], NEW k \in S,
         \A y \in S \ {k} : g[y] = f[y]
  PROVE  SumFunction(g) = SumFunction(f) + g[k] - f[k]
<1> DEFINE T == S \ {k}
<1>1. IsFiniteSet(T) /\ T \cup {k} = S /\ k \notin T
  BY FS_RemoveElement
<1>2. SumFunctionOnSet(f, S) = SumFunctionOnSet(f, T) + f[k]
  BY <1>1, SumInsert
<1>3. SumFunctionOnSet(g, S) = SumFunctionOnSet(g, T) + g[k]
  BY <1>1, SumInsert
<1>4. SumFunctionOnSet(f, T) = SumFunctionOnSet(g, T)
  BY <1>1, SumSame
<1>5. SumFunctionOnSet(f, T) \in Int /\ f[k] \in Int /\ g[k] \in Int
  BY <1>1, SumType
<1> QED
  BY <1>2, <1>3, <1>4, <1>5 DEF SumFunction

LEMMA SumZero ==
  ASSUME NEW S, IsFiniteSet(S), NEW f, \A y \in S : f[y] = 0
  PROVE  SumFunctionOnSet(f, S) = 0
<1>1. Adds(f, [T \in SUBSET S |-> 0], S)
  BY DEF Adds
<1> QED
  BY <1>1, SumIs

LEMMA SumNat ==
  ASSUME NEW S, IsFiniteSet(S), NEW f, \A y \in S : f[y] \in Nat
  PROVE  SumFunctionOnSet(f, S) \in Nat
<1>1. PICK g : Adds(f, g, S)
  BY AddsExists
<1> DEFINE P == {T \in SUBSET S : g[T] \in Nat}
<1>2. {} \in P
  BY <1>1 DEF Adds
<1>3. ASSUME NEW T \in SUBSET S, NEW x \in S \ T, T \in P PROVE T \cup {x} \in P
  BY <1>1, <1>3 DEF Adds
<1>4. \A T \in SUBSET S : \A x \in S \ T : T \in P => T \cup {x} \in P
  BY <1>3
<1> HIDE DEF P
<1>5. SUBSET S \subseteq P
  BY <1>2, <1>4, FiniteSetInduction
<1> USE DEF P
<1>6. g[S] \in Nat
  BY <1>5
<1>7. SumFunctionOnSet(f, S) = g[S]
  BY <1>1, SumIs
<1> QED
  BY <1>6, <1>7

-----------------------------------------------------------------------------
(* The head is an element; the tail is a queue, one shorter.               *)
LEMMA HeadTail ==
  ASSUME NEW S, NEW q \in Seq(S), q # <<>>
  PROVE  /\ Head(q) \in S
         /\ Tail(q) \in Seq(S)
         /\ Len(Tail(q)) = Len(q) - 1
         /\ Len(q) \in Nat
BY HeadTailProperties, LenProperties

(* Appending an element gives a queue, one longer.                         *)
LEMMA AppendType ==
  ASSUME NEW S, NEW q \in Seq(S), NEW e \in S
  PROVE  /\ Append(q, e) \in Seq(S)
         /\ Len(Append(q, e)) = Len(q) + 1
         /\ Len(q) \in Nat
         /\ Append(q, e) # <<>>
BY AppendProperties, LenProperties

(* The empty queue is one of any type.                                     *)
LEMMA EmptyBatch == ASSUME NEW S PROVE <<>> \in Seq(S) /\ Len(<<>>) = 0
OBVIOUS

(* The elements of a queue.                                                *)
LEMMA RangeEmpty == Range(<<>>) = {}
BY DEF Range

LEMMA RangeAppend ==
  ASSUME NEW S, NEW q \in Seq(S), NEW e \in S
  PROVE  Range(Append(q, e)) = Range(q) \cup {e}
<1>1. /\ Append(q, e) \in Seq(S) /\ Len(Append(q, e)) = Len(q) + 1 /\ Len(q) \in Nat
      /\ \A i \in 1 .. Len(q) : Append(q, e)[i] = q[i]
      /\ Append(q, e)[Len(q) + 1] = e
  BY AppendProperties, LenProperties
<1>2. /\ Range(q) = {q[i] : i \in 1 .. Len(q)}
      /\ Range(Append(q, e)) = {Append(q, e)[i] : i \in 1 .. Len(q) + 1}
  BY <1>1, LenProperties DEF Range
<1>3. 1 .. Len(q) + 1 = (1 .. Len(q)) \cup {Len(q) + 1}
  BY <1>1
<1>4. QED
  BY <1>1, <1>2, <1>3

LEMMA RangeHeadTail ==
  ASSUME NEW S, NEW q \in Seq(S), q # <<>>
  PROVE  Head(q) \in Range(q) /\ Range(Tail(q)) \subseteq Range(q)
<1>1. /\ Tail(q) \in Seq(S) /\ Len(Tail(q)) = Len(q) - 1 /\ Len(q) \in Nat /\ Len(q) # 0
      /\ Head(q) = q[1]
      /\ \A i \in 1 .. Len(q) - 1 : Tail(q)[i] = q[i + 1]
  BY HeadTailProperties, LenProperties, EmptyBatch
<1>2. /\ Range(q) = {q[i] : i \in 1 .. Len(q)}
      /\ Range(Tail(q)) = {Tail(q)[i] : i \in 1 .. Len(q) - 1}
  BY <1>1, LenProperties DEF Range
<1>3. QED
  BY <1>1, <1>2

LEMMA RangeType ==
  ASSUME NEW S, NEW q \in Seq(S)
  PROVE  Range(q) \subseteq S
BY LenProperties DEF Range

LEMMA RangeSplit ==
  ASSUME NEW S, NEW q \in Seq(S), q # <<>>
  PROVE  Range(q) = {Head(q)} \cup Range(Tail(q))
<1>1. /\ Tail(q) \in Seq(S) /\ Len(Tail(q)) = Len(q) - 1 /\ Len(q) \in Nat /\ Len(q) # 0
      /\ Head(q) = q[1]
      /\ \A i \in 1 .. Len(q) - 1 : Tail(q)[i] = q[i + 1]
  BY HeadTailProperties, LenProperties, EmptyBatch
<1>2. /\ Range(q) = {q[i] : i \in 1 .. Len(q)}
      /\ Range(Tail(q)) = {Tail(q)[i] : i \in 1 .. Len(q) - 1}
  BY <1>1, LenProperties DEF Range
<1>3. ASSUME NEW i \in 1 .. Len(q) PROVE q[i] \in {Head(q)} \cup Range(Tail(q))
  <2>1. CASE i = 1
    BY <1>1, <2>1
  <2>2. CASE i # 1
    <3>1. i - 1 \in 1 .. Len(q) - 1 /\ (i - 1) + 1 = i
      BY <1>1, <2>2
    <3>2. Tail(q)[i - 1] = q[i]
      BY <1>1, <3>1
    <3> QED
      BY <1>2, <3>1, <3>2
  <2> QED
    BY <2>1, <2>2
<1>4. Range(q) \subseteq {Head(q)} \cup Range(Tail(q))
  BY <1>2, <1>3
<1> QED
  BY <1>4, RangeHeadTail

LEMMA RangeConcat ==
  ASSUME NEW S, NEW p \in Seq(S), NEW q \in Seq(S)
  PROVE  Range(p \o q) = Range(p) \cup Range(q)
<1>1. /\ p \o q \in Seq(S) /\ Len(p \o q) = Len(p) + Len(q) /\ Len(p) \in Nat /\ Len(q) \in Nat
      /\ \A i \in 1 .. Len(p) + Len(q) : (p \o q)[i] = IF i <= Len(p) THEN p[i] ELSE q[i - Len(p)]
  BY ConcatProperties, LenProperties
<1>2. /\ Range(p) = {p[i] : i \in 1 .. Len(p)} /\ Range(q) = {q[i] : i \in 1 .. Len(q)}
      /\ Range(p \o q) = {(p \o q)[i] : i \in 1 .. Len(p) + Len(q)}
  BY <1>1, LenProperties DEF Range
<1>3. Range(p \o q) \subseteq Range(p) \cup Range(q)
  BY <1>1, <1>2
<1>4. Range(p) \subseteq Range(p \o q)
  BY <1>1, <1>2
<1>5. ASSUME NEW i \in 1 .. Len(q)
      PROVE  i + Len(p) \in 1 .. Len(p) + Len(q) /\ (p \o q)[i + Len(p)] = q[i]
  <2>1. i + Len(p) \in 1 .. Len(p) + Len(q) /\ ~(i + Len(p) <= Len(p)) /\ (i + Len(p)) - Len(p) = i
    BY <1>1
  <2> QED
    BY <1>1, <2>1
<1>6. Range(q) \subseteq Range(p \o q)
  BY <1>2, <1>5
<1> QED
  BY <1>3, <1>4, <1>6
=============================================================================
