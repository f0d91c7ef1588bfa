------------------------------ MODULE Induction ------------------------------
(***************************************************************************)
(* Induction and recursion said with sets instead of operators: a property *)
(* of numbers is the set of numbers that have it, a step of a recursion is  *)
(* a function.  The folds of the community modules are recursions on the   *)
(* subsets of a finite set that take an element out at a time, so what they *)
(* compute follows from IterationExists.  The last part is about lists that  *)
(* are sorted by counting.                                                 *)
(***************************************************************************)
EXTENDS Integers, Sequences, Listing, FiniteSetTheorems, WellFoundedInduction, TLAPS

(* A set of numbers with 0 that is closed under successors has them all.   *)
LEMMA SetInduction ==
  ASSUME NEW N, 0 \in N, \A n \in Nat : n \in N => n + 1 \in N
  PROVE  \A n \in Nat : n \in N
  <1> DEFINE R == OpToRel(<, Nat)
             T == {n \in Nat : n \notin N}
  <1>1. \A m, n \in Nat : m < n => <<m, n>> \in R
    BY DEF OpToRel
  <1>2. IsWellFoundedOn(R, Nat)
    BY NatLessThanWellFounded
  <1> SUFFICES ASSUME T # {} PROVE FALSE
    OBVIOUS
  <1> HIDE DEF R
  <1>3. PICK x \in T : \A y \in T : ~ (<<y, x>> \in R)
    BY <1>2, WFMin
  <1>4. x # 0 /\ x - 1 \in Nat /\ x - 1 < x
    BY <1>3
  <1>5. x - 1 \in T
    BY <1>3, <1>4
  <1> QED BY <1>1, <1>3, <1>4, <1>5

(* A set of numbers has a least one, and a finite range of them a greatest. *)
LEMMA LeastNumber ==
  ASSUME NEW T \in SUBSET Nat, T # {}
  PROVE  \E x \in T : \A y \in T : x <= y
  <1> DEFINE R == OpToRel(<, Nat)
  <1>1. \A m, n \in Nat : m < n => <<m, n>> \in R
    BY DEF OpToRel
  <1>2. IsWellFoundedOn(R, Nat)
    BY NatLessThanWellFounded
  <1> HIDE DEF R
  <1>3. PICK x \in T : \A y \in T : ~ (<<y, x>> \in R)
    BY <1>2, WFMin
  <1>4. \A y \in T : ~ (y < x) /\ y \in Nat /\ x \in Nat
    BY <1>1, <1>3
  <1>5. \A y \in T : x <= y
    BY <1>4
  <1> QED BY <1>5

(* A finite range of numbers has a greatest one.                           *)
LEMMA GreatestNumber ==
  ASSUME NEW n \in Nat, NEW T \in SUBSET (0..n), T # {}
  PROVE  \E x \in T : \A y \in T : x >= y
  <1> DEFINE U == {n - t : t \in T}
  <1>1. U \in SUBSET Nat /\ U # {}
    <2>1. \A t \in 0..n : n - t \in Nat
      OBVIOUS
    <2>2. \A t \in T : t \in 0..n
      OBVIOUS
    <2> QED BY <2>1, <2>2
  <1>2. PICK x \in U : \A y \in U : x <= y
    BY <1>1, LeastNumber
  <1>3. PICK t \in T : x = n - t
    BY <1>2
  <1>4. \A y \in T : n - t <= n - y
    BY <1>2, <1>3
  <1>5. t \in 0..n /\ \A y \in T : y \in 0..n
    OBVIOUS
  <1> QED BY <1>4, <1>5

(* The function g computes the recursion from base by the steps of F.       *)
Iterates(g, S, base, c, F) ==
  \A s \in SUBSET S : g[s] = IF s = {} THEN base ELSE F[<<c[s], g[s \ {c[s]}]>>]

(* A recursion on the subsets of a finite set, which takes out of a subset *)
(* the element that c chooses, has a function that computes it.            *)
LEMMA IterationExists ==
  ASSUME NEW S, IsFiniteSet(S), NEW V, NEW base \in V,
         NEW c, \A s \in SUBSET S : s # {} => c[s] \in s,
         NEW F \in [S \X V -> V]
  PROVE  \E g \in [SUBSET S -> V] : Iterates(g, S, base, c, F)
  <1> DEFINE Stage(n) == {s \in SUBSET S : Cardinality(s) <= n}
             Computes(g, n) ==
               /\ g \in [Stage(n) -> V]
               /\ \A s \in Stage(n) :
                    g[s] = IF s = {} THEN base ELSE F[<<c[s], g[s \ {c[s]}]>>]
             N == {n \in Nat : \E g : Computes(g, n)}
  <1>1. \A s \in SUBSET S : /\ IsFiniteSet(s) /\ Cardinality(s) \in Nat
                            /\ Cardinality(s) <= Cardinality(S)
    BY FS_Subset, FS_CardinalityType
  <1>2. \A s \in SUBSET S : s # {} =>
          /\ c[s] \in S /\ s \ {c[s]} \in SUBSET S
          /\ Cardinality(s \ {c[s]}) = Cardinality(s) - 1
    BY <1>1, FS_RemoveElement
  <1>3. 0 \in N
    <2> DEFINE g == [s \in Stage(0) |-> base]
    <2>1. \A s \in Stage(0) : s = {}
      BY <1>1, FS_EmptySet
    <2>2. Computes(g, 0)
      BY <2>1
    <2> QED BY <2>2
  <1>4. ASSUME NEW n \in Nat, n \in N
        PROVE  n + 1 \in N
    <2>1. PICK g : Computes(g, n)
      BY <1>4
    <2> DEFINE h == [s \in Stage(n + 1) |->
                       IF s \in Stage(n) THEN g[s] ELSE F[<<c[s], g[s \ {c[s]}]>>]]
    <2>2. \A s \in Stage(n) : s \in Stage(n + 1) /\ h[s] = g[s]
      BY <1>1
    <2>3. \A s \in Stage(n + 1) : s # {} => s \ {c[s]} \in Stage(n)
      BY <1>1, <1>2
    <2>4. {} \in Stage(n)
      BY FS_EmptySet
    <2>5. \A s \in Stage(n + 1) : s \notin Stage(n) => s # {}
      BY <2>4
    <2>6. h \in [Stage(n + 1) -> V]
      <3>1. \A s \in Stage(n) : g[s] \in V
        BY <2>1
      <3>2. \A s \in Stage(n + 1) : s # {} => F[<<c[s], g[s \ {c[s]}]>>] \in V
        BY <1>2, <2>3, <3>1
      <3> QED BY <2>5, <3>1, <3>2
    <2>7. ASSUME NEW s \in Stage(n + 1)
          PROVE  h[s] = IF s = {} THEN base ELSE F[<<c[s], h[s \ {c[s]}]>>]
      <3>1. s # {} => h[s \ {c[s]}] = g[s \ {c[s]}]
        BY <2>2, <2>3
      <3>2. CASE s \in Stage(n)
        <4>1. g[s] = IF s = {} THEN base ELSE F[<<c[s], g[s \ {c[s]}]>>]
          BY <2>1, <3>2
        <4> QED BY <2>2, <3>1, <3>2, <4>1
      <3>3. CASE s \notin Stage(n)
        BY <2>5, <3>1, <3>3
      <3> QED BY <3>2, <3>3
    <2> HIDE DEF h
    <2>8. Computes(h, n + 1)
      BY <2>6, <2>7
    <2> HIDE DEF Computes
    <2> QED BY <2>8
  <1> HIDE DEF N
  <1>5. Cardinality(S) \in N
    BY <1>1, <1>3, <1>4, SetInduction
  <1>6. PICK g : Computes(g, Cardinality(S))
    BY <1>5 DEF N
  <1>7. Stage(Cardinality(S)) = SUBSET S
    BY <1>1
  <1> QED BY <1>6, <1>7 DEF Iterates

(* The function g computes the K steps of F from base.                     *)
Steps(g, K, base, F) == \A n \in 0..K : g[n] = IF n = 0 THEN base ELSE F[g[n - 1]]

(* A recursion that takes a number of steps has a function that computes it.*)
LEMMA StepsExist ==
  ASSUME NEW K \in Nat, NEW V, NEW base \in V, NEW F \in [V -> V]
  PROVE  \E g \in [0..K -> V] : Steps(g, K, base, F)
  <1> DEFINE Computes(g, k) ==
               g \in [0..k -> V] /\ \A n \in 0..k : g[n] = IF n = 0 THEN base ELSE F[g[n - 1]]
             N == {k \in Nat : \E g : Computes(g, k)}
  <1>1. 0 \in N
    <2>1. Computes([n \in 0..0 |-> base], 0)
      OBVIOUS
    <2> QED BY <2>1
  <1>2. ASSUME NEW k \in Nat, k \in N
        PROVE  k + 1 \in N
    <2>1. PICK g : Computes(g, k)
      BY <1>2
    <2> DEFINE h == [n \in 0..(k + 1) |-> IF n \in 0..k THEN g[n] ELSE F[g[k]]]
    <2>2. \A n \in 0..k : n \in 0..(k + 1) /\ h[n] = g[n] /\ g[n] \in V
      BY <2>1
    <2>3. h[k + 1] = F[g[k]] /\ F[g[k]] \in V
      <3>1. k + 1 \in 0..(k + 1) /\ k + 1 \notin 0..k /\ k \in 0..k
        OBVIOUS
      <3>2. g[k] \in V
        BY <2>2, <3>1
      <3> QED BY <3>1, <3>2
    <2>4. h \in [0..(k + 1) -> V]
      BY <2>2, <2>3
    <2> HIDE DEF h
    <2>5. ASSUME NEW n \in 0..(k + 1)
          PROVE  h[n] = IF n = 0 THEN base ELSE F[h[n - 1]]
      <3>1. CASE n \in 0..k
        <4>1. n # 0 => n - 1 \in 0..k
          BY <3>1
        <4> QED BY <2>1, <2>2, <3>1, <4>1
      <3>2. CASE n = k + 1
        <4>1. n # 0 /\ n - 1 = k /\ k \in 0..k
          BY <3>2
        <4> QED BY <2>2, <2>3, <3>2, <4>1
      <3> QED BY <3>1, <3>2
    <2>6. Computes(h, k + 1)
      BY <2>4, <2>5
    <2> HIDE DEF Computes
    <2> QED BY <2>6
  <1> HIDE DEF N
  <1>3. K \in N
    BY <1>1, <1>2, SetInduction
  <1> QED BY <1>3 DEF N, Steps

-------------------------------------------------------------------------------
(* Lists that are ordered by counting what comes before.                   *)

(* A strict order of all the members of S, as a set of pairs.              *)
Orders(S, before) ==
  /\ \A x \in S : <<x, x>> \notin before
  /\ \A x, y, z \in S : <<x, y>> \in before /\ <<y, z>> \in before => <<x, z>> \in before
  /\ \A x, y \in S : x # y => <<x, y>> \in before \/ <<y, x>> \in before

(* What comes before x, and how much that is.                              *)
Before(S, before, x) == {y \in S : <<y, x>> \in before}
Ahead(S, before, x) == Cardinality(Before(S, before, x))

(* Whoever is later has more before them, so every count up to the number   *)
(* of members occurs, once.                                                *)
LEMMA CountsAreRanks ==
  ASSUME NEW S, IsFiniteSet(S), NEW before, Orders(S, before)
  PROVE  /\ \A x \in S : Ahead(S, before, x) \in 0..(Cardinality(S) - 1)
         /\ \A x, y \in S : <<x, y>> \in before =>
              Ahead(S, before, x) < Ahead(S, before, y)
         /\ \A k \in 1..Cardinality(S) : \E x \in S : Ahead(S, before, x) = k - 1
  <1> DEFINE n == Cardinality(S)
             B(x) == Before(S, before, x)
             a(x) == Ahead(S, before, x)
  <1>1. n \in Nat
    BY FS_CardinalityType
  <1>2. \A x \in S : B(x) \in SUBSET S /\ x \notin B(x)
    BY DEF Orders, Before
  <1>3. ASSUME NEW x \in S
        PROVE  /\ IsFiniteSet(B(x)) /\ a(x) \in Nat /\ a(x) < n
               /\ IsFiniteSet(B(x) \cup {x}) /\ Cardinality(B(x) \cup {x}) = a(x) + 1
    <2>1. B(x) \in SUBSET S /\ x \notin B(x) /\ B(x) \cup {x} \in SUBSET S
      BY <1>2
    <2> HIDE DEF B
    <2>2. IsFiniteSet(B(x)) /\ Cardinality(B(x)) \in Nat
      BY <2>1, FS_Subset, FS_CardinalityType
    <2>3. IsFiniteSet(B(x) \cup {x}) /\ Cardinality(B(x) \cup {x}) = Cardinality(B(x)) + 1
      BY <2>1, <2>2, FS_AddElement
    <2>4. Cardinality(B(x) \cup {x}) <= n
      BY <2>1, FS_Subset
    <2>5. a(x) = Cardinality(B(x))
      BY DEF Ahead, B
    <2> HIDE DEF a, n
    <2>6. a(x) < n
      BY <1>1, <2>2, <2>3, <2>4, <2>5
    <2> QED BY <2>2, <2>3, <2>5, <2>6
  <1>4. ASSUME NEW x \in S, NEW y \in S, <<x, y>> \in before
        PROVE  a(x) < a(y)
    <2>1. B(x) \cup {x} \in SUBSET B(y)
      BY <1>4 DEF Orders, Before
    <2> HIDE DEF B
    <2>2. Cardinality(B(x) \cup {x}) <= Cardinality(B(y))
      BY <1>3, <2>1, FS_Subset
    <2>3. a(y) = Cardinality(B(y))
      BY DEF Ahead, B
    <2> HIDE DEF a
    <2>4. a(x) \in Nat /\ a(y) \in Nat /\ Cardinality(B(x) \cup {x}) = a(x) + 1
      BY <1>3
    <2> QED BY <2>2, <2>3, <2>4
  <1> HIDE DEF B, a, n
  <1>5. \A x, y \in S : x # y => a(x) # a(y)
    <2> SUFFICES ASSUME NEW x \in S, NEW y \in S, x # y PROVE a(x) # a(y)
      OBVIOUS
    <2>1. <<x, y>> \in before \/ <<y, x>> \in before
      BY DEF Orders
    <2>2. a(x) \in Nat /\ a(y) \in Nat
      BY <1>3
    <2>3. a(x) < a(y) \/ a(y) < a(x)
      BY <1>4, <2>1
    <2> QED BY <2>2, <2>3
  <1>6. ASSUME NEW k \in 1..n
        PROVE  \E x \in S : a(x) = k - 1
    <2> DEFINE f == [x \in S |-> a(x) + 1]
    <2>1. ASSUME NEW x \in S
          PROVE  a(x) + 1 \in 1..n
      <3>1. a(x) \in Nat /\ a(x) < n
        BY <1>3
      <3> QED BY <1>1, <3>1
    <2>2. \A x, y \in S : a(x) + 1 = a(y) + 1 => x = y
      <3> SUFFICES ASSUME NEW x \in S, NEW y \in S, a(x) + 1 = a(y) + 1 PROVE x = y
        OBVIOUS
      <3>1. a(x) \in Nat /\ a(y) \in Nat
        BY <1>3
      <3>2. a(x) = a(y)
        BY <3>1
      <3> QED BY <1>5, <3>2
    <2>3. f \in Injection(S, 1..n)
      BY <2>1, <2>2 DEF Injection, IsInjective
    <2>4. IsFiniteSet(1..n) /\ Cardinality(1..n) = n
      BY <1>1, FS_Interval
    <2>5. f \in Surjection(S, 1..n)
      BY <2>3, <2>4, FS_Injection DEF n
    <2>6. PICK x \in S : f[x] = k
      BY <2>5 DEF Surjection
    <2>7. a(x) + 1 = k /\ a(x) \in Nat
      BY <1>3, <2>6
    <2>8. a(x) = k - 1
      BY <2>7
    <2> QED BY <2>8
  <1>7. ASSUME NEW x \in S
        PROVE  a(x) \in 0..(n - 1)
    <2>1. a(x) \in Nat /\ a(x) < n
      BY <1>3
    <2> QED BY <1>1, <2>1
  <1> QED BY <1>4, <1>6, <1>7 DEF a, n

(* A list that is ordered by these counts has every member, and those that  *)
(* come before come first.                                                 *)
LEMMA RankedLists ==
  ASSUME NEW S, IsFiniteSet(S), NEW before, Orders(S, before),
         NEW s \in [1..Cardinality(S) -> S],
         \A k \in 1..Cardinality(S) : Ahead(S, before, s[k]) = k - 1
  PROVE  LET n == Cardinality(S) IN
         /\ n \in Nat /\ s \in Seq(S) /\ Len(s) = n
         /\ \A x \in S : \E k \in 1..n : s[k] = x
         /\ \A j, k \in 1..n : j < k => <<s[j], s[k]>> \in before
  <1> DEFINE n == Cardinality(S)
             a(x) == Ahead(S, before, x)
  <1>1. n \in Nat
    BY FS_CardinalityType
  <1>2. /\ \A x \in S : a(x) \in 0..(n - 1)
        /\ \A x, y \in S : <<x, y>> \in before => a(x) < a(y)
    BY CountsAreRanks
  <1>3. s \in [1..n -> S] /\ \A k \in 1..n : s[k] \in S /\ a(s[k]) = k - 1
    OBVIOUS
  <1> HIDE DEF a, n
  <1>4. s \in Seq(S) /\ Len(s) = n
    BY <1>1, <1>3
  <1>5. ASSUME NEW x \in S
        PROVE  \E k \in 1..n : s[k] = x
    <2>1. a(x) + 1 \in 1..n /\ (a(x) + 1) - 1 = a(x)
      BY <1>1, <1>2
    <2>2. s[a(x) + 1] \in S /\ a(s[a(x) + 1]) = a(x)
      BY <1>3, <2>1
    <2>3. ~ (<<x, s[a(x) + 1]>> \in before) /\ ~ (<<s[a(x) + 1], x>> \in before)
      <3>1. a(x) \in Nat
        BY <1>1, <1>2
      <3>2. ~ (a(x) < a(s[a(x) + 1])) /\ ~ (a(s[a(x) + 1]) < a(x))
        BY <2>2, <3>1
      <3> QED BY <1>2, <2>2, <3>2
    <2>4. s[a(x) + 1] = x
      BY <2>2, <2>3 DEF Orders
    <2> QED BY <2>1, <2>4
  <1>6. ASSUME NEW j \in 1..n, NEW k \in 1..n, j < k
        PROVE  <<s[j], s[k]>> \in before
    <2>1. s[j] \in S /\ s[k] \in S /\ a(s[j]) = j - 1 /\ a(s[k]) = k - 1
      BY <1>3
    <2>2. a(s[j]) < a(s[k]) /\ a(s[j]) \in Int /\ a(s[k]) \in Int
      BY <1>1, <1>6, <2>1
    <2>3. s[j] # s[k]
      BY <2>2
    <2>4. ~ (<<s[k], s[j]>> \in before)
      <3>1. ~ (a(s[k]) < a(s[j]))
        BY <2>2
      <3> QED BY <1>2, <2>1, <3>1
    <2> QED BY <2>1, <2>3, <2>4 DEF Orders
  <1> QED BY <1>1, <1>4, <1>5, <1>6 DEF n

(* So InOrder lists the members of S, all of them and nothing else.        *)
LEMMA InOrderLists ==
  ASSUME NEW S, IsFiniteSet(S), NEW before, Orders(S, before)
  PROVE  LET s == InOrder(S, before)
             n == Cardinality(S) IN
         /\ n \in Nat /\ s \in [1..n -> S] /\ s \in Seq(S) /\ Len(s) = n
         /\ \A x \in S : \E k \in 1..n : s[k] = x
         /\ \A j, k \in 1..n : j < k => <<s[j], s[k]>> \in before
  <1> DEFINE n == Cardinality(S)
             s == InOrder(S, before)
             At(k) == CHOOSE x \in S : Cardinality(Before(S, before, x)) = k - 1
  <1>1. s = [k \in 1..n |-> At(k)]
    BY DEF InOrder, Before
  <1>2. ASSUME NEW k \in 1..n
        PROVE  At(k) \in S /\ Ahead(S, before, At(k)) = k - 1
    <2>1. \E x \in S : Cardinality(Before(S, before, x)) = k - 1
      BY CountsAreRanks DEF Ahead
    <2>2. At(k) \in S /\ Cardinality(Before(S, before, At(k))) = k - 1
      BY <2>1
    <2> HIDE DEF At
    <2> QED BY <2>2 DEF Ahead
  <1> HIDE DEF At, s
  <1>3. s \in [1..n -> S] /\ \A k \in 1..n : Ahead(S, before, s[k]) = k - 1
    BY <1>1, <1>2
  <1> HIDE DEF n
  <1>4. /\ Cardinality(S) \in Nat /\ s \in Seq(S) /\ Len(s) = Cardinality(S)
        /\ \A x \in S : \E k \in 1..Cardinality(S) : s[k] = x
        /\ \A j, k \in 1..Cardinality(S) : j < k => <<s[j], s[k]>> \in before
    BY <1>3, RankedLists DEF n
  <1> QED BY <1>3, <1>4 DEF s, n
===============================================================================
