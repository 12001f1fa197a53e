--------------------------- MODULE KeyspaceProofs ---------------------------
(***************************************************************************)
(* Proofs about the session on Redis, for any keyspace and any limits:     *)
(* what Health, Collections and Recent say of keys that expire while SCAN  *)
(* walks them, repeats them and answers empty batches.                     *)
(*                                                                         *)
(* Counts are sums over the keys, so the first part is induction over      *)
(* finite sets, from WFMin, and what it says of SumFunctionOnSet.          *)
(***************************************************************************)
EXTENDS Keyspace, FiniteSetTheorems, TLAPS

(* What holds of {} and of each set that loses it by no single element     *)
(* holds of every finite set: its strict subsets are well founded.         *)
LEMMA SetDescent ==
  ASSUME NEW S, IsFiniteSet(S), NEW C, {} \in C,
         \A T \in SUBSET S : T # {} /\ (\A x \in T : T \ {x} \in C) => T \in C
  PROVE  S \in C
<1> DEFINE Bad == {T \in SUBSET S : T \notin C}
<1> SUFFICES ASSUME Bad # {} PROVE FALSE
  OBVIOUS
<1>1. IsWellFoundedOn(StrictSubsetOrdering(S), SUBSET S)
  BY FS_StrictSubsetOrderingWellFounded, FS_FiniteSubsetsOfFinite, Zenon
<1>2. PICK M \in Bad : \A Y \in Bad : ~(<<Y, M>> \in StrictSubsetOrdering(S))
  <2>1. Bad \subseteq SUBSET S
    OBVIOUS
  <2> HIDE DEF Bad
  <2>2. QED
    BY <1>1, <2>1, WFMin
<1>3. ASSUME NEW x \in M PROVE M \ {x} \in C
  <2>1. M \ {x} \in SUBSET S /\ M \ {x} # M
    BY <1>3
  <2>2. <<M \ {x}, M>> \in StrictSubsetOrdering(S)
    BY <2>1 DEF StrictSubsetOrdering
  <2>3. QED
    BY <1>2, <2>1, <2>2
<1>4. QED
  BY <1>2, <1>3

LEMMA SetInduction ==
  ASSUME NEW S, IsFiniteSet(S), NEW C, {} \in C,
         \A T \in SUBSET S, x \in S : T \in C /\ x \notin T => T \cup {x} \in C
  PROVE  S \in C
<1>1. ASSUME NEW T \in SUBSET S, T # {}, \A x \in T : T \ {x} \in C
      PROVE  T \in C
  <2>1. PICK x \in T : TRUE
    BY <1>1
  <2>2. T \ {x} \in SUBSET S /\ x \notin T \ {x} /\ (T \ {x}) \cup {x} = T
    OBVIOUS
  <2>3. QED
    BY <1>1, <2>2
<1>2. QED
  BY <1>1, SetDescent

-----------------------------------------------------------------------------
(* g is the sum of f over each subset of K.                                *)
Sums(g, f, K) ==
  /\ g \in [SUBSET K -> Nat] /\ g[{}] = 0
  /\ \A S \in SUBSET K : \A x \in S : g[S] = f[x] + g[S \ {x}]

LEMMA SumsMore ==
  ASSUME NEW K, NEW y, y \notin K, NEW f, f[y] \in Nat, \A x \in K : f[x] \in Nat,
         NEW g, Sums(g, f, K)
  PROVE  \E h : Sums(h, f, K \cup {y})
<1> DEFINE L == K \cup {y}
           h == [S \in SUBSET L |-> IF y \in S THEN f[y] + g[S \ {y}] ELSE g[S]]
<1>1. g \in [SUBSET K -> Nat] /\ g[{}] = 0
  BY DEF Sums
<1>2. \A S \in SUBSET L : S \ {y} \in SUBSET K /\ (y \notin S => S \in SUBSET K)
  OBVIOUS
<1>3. h \in [SUBSET L -> Nat]
  BY <1>1, <1>2
<1>4. h[{}] = 0
  BY <1>1
<1>5. ASSUME NEW S \in SUBSET L, NEW x \in S
      PROVE  h[S] = f[x] + h[S \ {x}]
  <2>1. S \ {x} \in SUBSET L
    OBVIOUS
  <2>2. CASE x = y
    <3>1. y \in S /\ y \notin S \ {x}
      BY <2>2
    <3>2. h[S] = f[y] + g[S \ {y}] /\ h[S \ {x}] = g[S \ {x}]
      BY <2>1, <3>1
    <3>3. QED
      BY <2>2, <3>2
  <2>3. CASE x # y /\ y \in S
    <3>1. y \in S \ {x} /\ x \in S \ {y} /\ (S \ {x}) \ {y} = (S \ {y}) \ {x}
      BY <2>3
    <3>2. h[S] = f[y] + g[S \ {y}] /\ h[S \ {x}] = f[y] + g[(S \ {y}) \ {x}]
      BY <2>1, <2>3, <3>1
    <3>3. S \ {y} \in SUBSET K /\ (S \ {y}) \ {x} \in SUBSET K
      BY <1>2
    <3>4. g[S \ {y}] = f[x] + g[(S \ {y}) \ {x}]
      BY <3>1, <3>3 DEF Sums
    <3>5. f[x] \in Nat /\ f[y] \in Nat /\ g[(S \ {y}) \ {x}] \in Nat
      BY <1>1, <2>3, <3>3
    <3>6. QED
      BY <3>2, <3>4, <3>5
  <2>4. CASE y \notin S
    <3>1. h[S] = g[S] /\ h[S \ {x}] = g[S \ {x}] /\ S \in SUBSET K
      BY <1>2, <2>1, <2>4
    <3>2. QED
      BY <3>1 DEF Sums
  <2>5. QED
    BY <2>2, <2>3, <2>4
<1> HIDE DEF h
<1>6. Sums(h, f, L)
  BY <1>3, <1>4, <1>5 DEF Sums
<1>7. QED
  BY <1>6

LEMMA SumsExist ==
  ASSUME NEW K, IsFiniteSet(K), NEW f, \A x \in K : f[x] \in Nat
  PROVE  \E g : Sums(g, f, K)
<1> DEFINE C == {T \in SUBSET K : \E g : Sums(g, f, T)}
<1>1. {} \in C
  <2> DEFINE g == [S \in SUBSET {} |-> 0]
  <2>1. Sums(g, f, {})
    BY DEF Sums
  <2>2. QED
    BY <2>1
<1>2. ASSUME NEW T \in SUBSET K, NEW x \in K, T \in C, x \notin T
      PROVE  T \cup {x} \in C
  <2>1. PICK g : Sums(g, f, T)
    BY <1>2
  <2>2. \E h : Sums(h, f, T \cup {x})
    BY <1>2, <2>1, SumsMore
  <2>3. QED
    BY <2>2
<1>3. K \in C
  <2> HIDE DEF C
  <2>1. QED
    BY <1>1, <1>2, SetInduction
<1>4. QED
  BY <1>3

(* The fold of the community modules is that sum, whatever it chooses.     *)
LEMMA SumIs ==
  ASSUME NEW K, IsFiniteSet(K), NEW f, NEW g, Sums(g, f, K), NEW S \in SUBSET K
  PROVE  SumFunctionOnSet(f, S) = g[S]
<1> DEFINE x(s) == CHOOSE i \in s : TRUE
           Eq(h) == h = [s \in SUBSET S |-> IF s = {} THEN 0 ELSE f[x(s)] + h[s \ {x(s)}]]
           r == [s \in SUBSET S |-> g[s]]
           iter == CHOOSE h : Eq(h)
<1>1. \A s \in SUBSET S : s # {} => x(s) \in s /\ s \ {x(s)} \in SUBSET S
  OBVIOUS
<1>2. Eq(r)
  <2>1. ASSUME NEW s \in SUBSET S
        PROVE  r[s] = IF s = {} THEN 0 ELSE f[x(s)] + r[s \ {x(s)}]
    <3>1. CASE s = {}
      BY <3>1 DEF Sums
    <3>2. CASE s # {}
      <4>1. x(s) \in s /\ s \ {x(s)} \in SUBSET S
        BY <1>1, <3>2
      <4>2. g[s] = f[x(s)] + g[s \ {x(s)}]
        BY <4>1 DEF Sums
      <4>3. QED
        BY <3>2, <4>1, <4>2
    <3>3. QED
      BY <3>1, <3>2
  <2>2. QED
    BY <2>1
<1>3. Eq(iter)
  <2> HIDE DEF Eq
  <2>1. QED
    BY <1>2
<1>4. SumFunctionOnSet(f, S) = iter[S]
  BY DEF SumFunctionOnSet, FoldFunctionOnSet, MapThenFoldSet
<1> DEFINE C == {T \in SUBSET S : iter[T] = g[T]}
<1>5. {} \in C
  BY <1>3 DEF Sums
<1>6. ASSUME NEW T \in SUBSET S, T # {}, \A y \in T : T \ {y} \in C
      PROVE  T \in C
  <2>1. x(T) \in T /\ T \ {x(T)} \in C
    BY <1>1, <1>6
  <2>2. iter[T] = f[x(T)] + iter[T \ {x(T)}]
    BY <1>3, <1>6
  <2>3. g[T] = f[x(T)] + g[T \ {x(T)}]
    BY <2>1 DEF Sums
  <2>4. QED
    BY <2>1, <2>2, <2>3
<1>7. S \in C
  <2>1. IsFiniteSet(S)
    BY FS_Subset
  <2> HIDE DEF C
  <2>2. QED
    BY <1>5, <1>6, <2>1, SetDescent
<1>8. QED
  BY <1>4, <1>7

Sum(f, S) == SumFunctionOnSet(f, S)

LEMMA SumFacts ==
  ASSUME NEW K, IsFiniteSet(K), NEW f \in [K -> Nat]
  PROVE  /\ Sum(f, {}) = 0
         /\ \A S \in SUBSET K : Sum(f, S) \in Nat
         /\ \A S \in SUBSET K, x \in K : x \notin S => Sum(f, S \cup {x}) = f[x] + Sum(f, S)
<1>1. PICK g : Sums(g, f, K)
  BY SumsExist
<1>2. \A S \in SUBSET K : Sum(f, S) = g[S]
  BY <1>1, SumIs DEF Sum
<1>3. {} \in SUBSET K /\ g[{}] = 0 /\ \A S \in SUBSET K : g[S] \in Nat
  BY <1>1 DEF Sums
<1>4. ASSUME NEW S \in SUBSET K, NEW x \in K, x \notin S
      PROVE  g[S \cup {x}] = f[x] + g[S]
  <2>1. S \cup {x} \in SUBSET K /\ x \in S \cup {x} /\ (S \cup {x}) \ {x} = S
    BY <1>4
  <2>2. g[S \cup {x}] = f[x] + g[(S \cup {x}) \ {x}]
    BY <1>1, <2>1 DEF Sums
  <2>3. QED
    BY <2>1, <2>2
<1>5. QED
  <2>1. Sum(f, {}) = 0
    BY <1>2, <1>3
  <2>2. \A S \in SUBSET K : Sum(f, S) \in Nat
    BY <1>2, <1>3
  <2>3. ASSUME NEW S \in SUBSET K, NEW x \in K, x \notin S
        PROVE  Sum(f, S \cup {x}) = f[x] + Sum(f, S)
    <3>1. S \cup {x} \in SUBSET K
      OBVIOUS
    <3>2. QED
      BY <1>2, <1>4, <2>3, <3>1
  <2>4. QED
    BY <2>1, <2>2, <2>3

(* The sum over two sets without a common element.                         *)
LEMMA SumSplit ==
  ASSUME NEW K, IsFiniteSet(K), NEW f \in [K -> Nat],
         NEW A \in SUBSET K, NEW B \in SUBSET K, A \cap B = {}
  PROVE  Sum(f, A \cup B) = Sum(f, A) + Sum(f, B)
<1> DEFINE C == {T \in SUBSET B : Sum(f, A \cup T) = Sum(f, A) + Sum(f, T)}
<1>1. {} \in C
  <2>1. A \cup {} = A /\ Sum(f, {}) = 0 /\ Sum(f, A) \in Nat
    BY SumFacts
  <2>2. QED
    BY <2>1
<1>2. ASSUME NEW T \in SUBSET B, NEW x \in B, T \in C, x \notin T
      PROVE  T \cup {x} \in C
  <2> DEFINE U == A \cup T
             V == A \cup (T \cup {x})
  <2>1. /\ x \in K /\ x \notin U /\ U \in SUBSET K /\ T \in SUBSET K
        /\ V = U \cup {x}
    BY <1>2
  <2>2. Sum(f, V) = f[x] + Sum(f, U)
    <3> HIDE DEF U, V
    <3>1. QED
      BY <2>1, SumFacts
  <2>3. Sum(f, T \cup {x}) = f[x] + Sum(f, T)
    BY <1>2, <2>1, SumFacts
  <2>4. f[x] \in Nat /\ Sum(f, A) \in Nat /\ Sum(f, T) \in Nat
    BY <2>1, SumFacts
  <2>5. Sum(f, U) = Sum(f, A) + Sum(f, T)
    BY <1>2
  <2>6. Sum(f, V) = Sum(f, A) + Sum(f, T \cup {x})
    BY <2>2, <2>3, <2>4, <2>5
  <2>7. QED
    BY <1>2, <2>6
<1>3. B \in C
  <2>1. IsFiniteSet(B)
    BY FS_Subset
  <2> HIDE DEF C
  <2>2. QED
    BY <1>1, <1>2, <2>1, SetInduction
<1>4. QED
  BY <1>3

LEMMA SumMonotone ==
  ASSUME NEW K, IsFiniteSet(K), NEW f \in [K -> Nat],
         NEW B \in SUBSET K, NEW A \in SUBSET B
  PROVE  Sum(f, A) <= Sum(f, B)
<1>1. /\ A \in SUBSET K /\ B \ A \in SUBSET K
      /\ A \cap (B \ A) = {} /\ A \cup (B \ A) = B
  OBVIOUS
<1>2. Sum(f, B) = Sum(f, A) + Sum(f, B \ A)
  BY <1>1, SumSplit
<1>3. Sum(f, A) \in Nat /\ Sum(f, B \ A) \in Nat
  BY <1>1, SumFacts
<1>4. QED
  BY <1>2, <1>3

(* A sum that is not 0 has a term that is not 0, and each is at most it.   *)
LEMMA SumOfZeros ==
  ASSUME NEW K, IsFiniteSet(K), NEW f \in [K -> Nat],
         NEW A \in SUBSET K, \A x \in A : f[x] = 0
  PROVE  Sum(f, A) = 0
<1> DEFINE C == {T \in SUBSET A : Sum(f, T) = 0}
<1>1. {} \in C
  BY SumFacts
<1>2. ASSUME NEW T \in SUBSET A, NEW x \in A, T \in C, x \notin T
      PROVE  T \cup {x} \in C
  <2>1. Sum(f, T \cup {x}) = f[x] + Sum(f, T)
    BY <1>2, SumFacts
  <2>2. QED
    BY <1>2, <2>1
<1>3. A \in C
  <2>1. IsFiniteSet(A)
    BY FS_Subset
  <2> HIDE DEF C
  <2>2. QED
    BY <1>1, <1>2, <2>1, SetInduction
<1>4. QED
  BY <1>3

LEMMA SumTerm ==
  ASSUME NEW K, IsFiniteSet(K), NEW f \in [K -> Nat],
         NEW A \in SUBSET K, NEW x \in A
  PROVE  Sum(f, A) = f[x] + Sum(f, A \ {x}) /\ f[x] <= Sum(f, A)
<1>1. PICK g : Sums(g, f, K)
  BY SumsExist
<1>2. \A S \in SUBSET K : Sum(f, S) = g[S]
  BY <1>1, SumIs DEF Sum
<1>3. A \ {x} \in SUBSET K /\ x \in K
  OBVIOUS
<1>4. g[A] = f[x] + g[A \ {x}] /\ g[A \ {x}] \in Nat /\ f[x] \in Nat
  BY <1>1, <1>3 DEF Sums
<1>5. Sum(f, A) = g[A] /\ Sum(f, A \ {x}) = g[A \ {x}]
  BY <1>2, <1>3
<1>6. QED
  BY <1>4, <1>5

(* As many as there are terms that are not 0, at least.                    *)
LEMMA SumAtLeast ==
  ASSUME NEW K, IsFiniteSet(K), NEW f \in [K -> Nat], NEW A \in SUBSET K
  PROVE  Cardinality({x \in A : f[x] > 0}) <= Sum(f, A)
<1> DEFINE P(T) == {x \in T : f[x] > 0}
           C == {T \in SUBSET A : Cardinality(P(T)) <= Sum(f, T)}
<1>1. {} \in C
  <2>1. P({}) = {}
    OBVIOUS
  <2>2. Cardinality({}) = 0 /\ Sum(f, {}) = 0
    BY FS_EmptySet, SumFacts
  <2>3. QED
    BY <2>1, <2>2
<1>2. ASSUME NEW T \in SUBSET A, NEW x \in A, T \in C, x \notin T
      PROVE  T \cup {x} \in C
  <2>1. Sum(f, T \cup {x}) = f[x] + Sum(f, T) /\ Sum(f, T) \in Nat /\ f[x] \in Nat
    BY <1>2, SumFacts
  <2>2. IsFiniteSet(P(T)) /\ Cardinality(P(T)) \in Nat
    <3>1. P(T) \in SUBSET K
      OBVIOUS
    <3>2. QED
      BY <3>1, FS_Subset, FS_CardinalityType
  <2>3. CASE f[x] > 0
    <3>1. P(T \cup {x}) = P(T) \cup {x} /\ x \notin P(T)
      BY <1>2, <2>3
    <3>2. Cardinality(P(T) \cup {x}) = Cardinality(P(T)) + 1
      BY <2>2, <3>1, FS_AddElement
    <3>3. QED
      BY <1>2, <2>1, <2>2, <2>3, <3>1, <3>2
  <2>4. CASE f[x] = 0
    <3>1. P(T \cup {x}) = P(T)
      BY <2>4
    <3>2. Sum(f, T \cup {x}) = Sum(f, T) /\ Cardinality(P(T)) <= Sum(f, T)
      BY <1>2, <2>1, <2>4
    <3>3. Cardinality(P(T \cup {x})) <= Sum(f, T \cup {x})
      BY <3>1, <3>2
    <3>4. QED
      BY <1>2, <3>3
  <2>5. QED
    BY <2>1, <2>3, <2>4
<1>3. A \in C
  <2>1. IsFiniteSet(A)
    BY FS_Subset
  <2> HIDE DEF C
  <2>2. QED
    BY <1>1, <1>2, <2>1, SetInduction
<1>4. QED
  BY <1>3

(* One more for each element of b.                                         *)
LEMMA SumOneMore ==
  ASSUME NEW K, IsFiniteSet(K), NEW f \in [K -> Nat], NEW h \in [K -> Nat], NEW b \in SUBSET K,
         \A x \in K : h[x] = f[x] + IF x \in b THEN 1 ELSE 0
  PROVE  Sum(h, K) = Sum(f, K) + Cardinality(b)
<1> DEFINE C == {T \in SUBSET K : Sum(h, T) = Sum(f, T) + Cardinality(T \cap b)}
<1>1. {} \in C
  <2>1. Cardinality({}) = 0 /\ Sum(f, {}) = 0 /\ Sum(h, {}) = 0 /\ {} \cap b = {}
    BY FS_EmptySet, SumFacts
  <2>2. QED
    BY <2>1
<1>2. ASSUME NEW T \in SUBSET K, NEW x \in K, T \in C, x \notin T
      PROVE  T \cup {x} \in C
  <2>1. /\ Sum(f, T \cup {x}) = f[x] + Sum(f, T) /\ Sum(f, T) \in Nat /\ f[x] \in Nat
        /\ Sum(h, T \cup {x}) = h[x] + Sum(h, T)
    BY <1>2, SumFacts
  <2>2. IsFiniteSet(T \cap b) /\ Cardinality(T \cap b) \in Nat
    <3>1. T \cap b \in SUBSET K
      OBVIOUS
    <3>2. QED
      BY <3>1, FS_Subset, FS_CardinalityType
  <2>3. CASE x \in b
    <3>1. (T \cup {x}) \cap b = (T \cap b) \cup {x} /\ x \notin T \cap b
      BY <1>2, <2>3
    <3>2. Cardinality((T \cap b) \cup {x}) = Cardinality(T \cap b) + 1
      BY <2>2, <3>1, FS_AddElement
    <3>3. h[x] = f[x] + 1
      BY <2>3
    <3>4. QED
      BY <1>2, <2>1, <2>2, <3>1, <3>2, <3>3
  <2>4. CASE x \notin b
    <3>1. (T \cup {x}) \cap b = T \cap b /\ h[x] = f[x]
      BY <2>1, <2>4
    <3>2. QED
      BY <1>2, <2>1, <2>2, <3>1
  <2>5. QED
    BY <2>3, <2>4
<1>3. K \in C
  <2> HIDE DEF C
  <2>1. QED
    BY <1>1, <1>2, SetInduction
<1>4. K \cap b = b
  OBVIOUS
<1>5. QED
  BY <1>3, <1>4

-----------------------------------------------------------------------------
LEMMA Finite ==
  ASSUME NEW S \in SUBSET Keys
  PROVE  IsFiniteSet(S) /\ Cardinality(S) \in Nat
  BY KeyspaceAssumption, FS_Subset, FS_CardinalityType

LEMMA Fewer ==
  ASSUME NEW S \in SUBSET Keys, NEW T \in SUBSET S
  PROVE  Cardinality(T) <= Cardinality(S)
  BY Finite, FS_Subset

(* What lies in one of two sets is counted in the first or in the second.  *)
LEMMA AtMostBoth ==
  ASSUME NEW A \in SUBSET Keys, NEW B \in SUBSET Keys, NEW S \in SUBSET (A \cup B)
  PROVE  Cardinality(S) <= Cardinality(A) + Cardinality(B)
<1>1. A \cup B \in SUBSET Keys /\ A \cap B \in SUBSET Keys
  OBVIOUS
<1>2. Cardinality(S) <= Cardinality(A \cup B)
  <2> DEFINE U == A \cup B
  <2> HIDE DEF U
  <2>1. QED
    BY <1>1, Fewer DEF U
<1>3. Cardinality(A \cup B) = Cardinality(A) + Cardinality(B) - Cardinality(A \cap B)
  BY Finite, FS_Union
<1>4. /\ Cardinality(A) \in Nat /\ Cardinality(B) \in Nat
      /\ Cardinality(A \cap B) \in Nat /\ Cardinality(A \cup B) \in Nat
      /\ Cardinality(S) \in Nat
  <2>1. S \in SUBSET Keys
    BY <1>1
  <2>2. QED
    BY <1>1, <2>1, Finite
<1>5. QED
  BY <1>2, <1>3, <1>4

LEMMA MaxFacts ==
  ASSUME NEW S \in SUBSET Keys, S # {}
  PROVE  Max(S) \in S /\ \A y \in S : y <= Max(S)
<1> DEFINE C == {T \in SUBSET S : T = {} \/ \E m \in T : \A y \in T : m >= y}
<1>1. \A y \in S : y \in Nat
  BY KeyspaceAssumption
<1>2. {} \in C
  OBVIOUS
<1>3. ASSUME NEW T \in SUBSET S, NEW x \in S, T \in C, x \notin T
      PROVE  T \cup {x} \in C
  <2>1. CASE T = {}
    <3>1. \A y \in T \cup {x} : x >= y
      BY <1>1, <2>1
    <3>2. QED
      BY <3>1
  <2>2. CASE T # {}
    <3>1. PICK m \in T : \A y \in T : m >= y
      BY <1>3, <2>2
    <3>2. CASE m >= x
      <4>1. m \in T \cup {x} /\ \A y \in T \cup {x} : m >= y
        BY <3>1, <3>2
      <4>2. QED
        BY <4>1
    <3>3. CASE ~(m >= x)
      <4>1. \A y \in T \cup {x} : x >= y
        BY <1>1, <3>1, <3>3
      <4>2. QED
        BY <4>1
    <3>4. QED
      BY <3>2, <3>3
  <2>3. QED
    BY <2>1, <2>2
<1>4. S \in C
  <2>1. IsFiniteSet(S)
    BY Finite
  <2> HIDE DEF C
  <2>2. QED
    BY <1>2, <1>3, <2>1, SetInduction
<1>5. \E m \in S : \A y \in S : m >= y
  BY <1>4
<1>6. Max(S) \in S /\ \A y \in S : Max(S) >= y
  BY <1>5 DEF Max
<1>7. QED
  BY <1>1, <1>6

LEMMA LeastKey ==
  ASSUME NEW S \in SUBSET Keys, S # {}
  PROVE  \E m \in S : \A y \in S : m <= y
<1> DEFINE C == {T \in SUBSET S : T = {} \/ \E m \in T : \A y \in T : m <= y}
<1>1. \A y \in S : y \in Nat
  BY KeyspaceAssumption
<1>2. {} \in C
  OBVIOUS
<1>3. ASSUME NEW T \in SUBSET S, NEW x \in S, T \in C, x \notin T
      PROVE  T \cup {x} \in C
  <2>1. CASE T = {}
    <3>1. \A y \in T \cup {x} : x <= y
      BY <1>1, <2>1
    <3>2. QED
      BY <3>1
  <2>2. CASE T # {}
    <3>1. PICK m \in T : \A y \in T : m <= y
      BY <1>3, <2>2
    <3>2. CASE m <= x
      <4>1. m \in T \cup {x} /\ \A y \in T \cup {x} : m <= y
        BY <3>1, <3>2
      <4>2. QED
        BY <4>1
    <3>3. CASE ~(m <= x)
      <4>1. \A y \in T \cup {x} : x <= y
        BY <1>1, <3>1, <3>3
      <4>2. QED
        BY <4>1
    <3>4. QED
      BY <3>2, <3>3
  <2>3. QED
    BY <2>1, <2>2
<1>4. S \in C
  <2>1. IsFiniteSet(S)
    BY Finite
  <2> HIDE DEF C
  <2>2. QED
    BY <1>2, <1>3, <2>1, SetInduction
<1>5. QED
  BY <1>4

-----------------------------------------------------------------------------
(* The rows of a sample: each is the greatest key with enough rows from it *)
(* up, and for each there is one, so that the sample has its length.       *)
RowIs(x, k) ==
  /\ k \in Keys /\ Kept(k) /\ seen[k] > 0 /\ x <= Place(k)
  /\ \A j \in Keys : Kept(j) /\ seen[j] > 0 /\ x <= Place(j) => j <= k

LEMMA RowFacts ==
  ASSUME seen \in [Keys -> Nat], NEW x \in 1 .. Gathered
  PROVE  RowIs(x, RowAt(x))
<1> DEFINE KS == {j \in Keys : Kept(j)}
           R == {j \in KS : seen[j] > 0}
           Q == {k \in Keys : Kept(k) /\ seen[k] > 0 /\ x <= Place(k)}
<1>1. Gathered = Sum(seen, KS) /\ Gathered \in Nat /\ KS \in SUBSET Keys
  <2>1. KS \in SUBSET Keys /\ IsFiniteSet(Keys)
    BY KeyspaceAssumption
  <2>2. Gathered = Sum(seen, KS)
    BY DEF Gathered, Sum
  <2>3. QED
    BY <2>1, <2>2, SumFacts
<1>2. R # {}
  <2>1. SUFFICES ASSUME R = {} PROVE FALSE
    OBVIOUS
  <2>2. \A j \in KS : seen[j] = 0
    BY <2>1
  <2>3. Sum(seen, KS) = 0
    <3> HIDE DEF KS
    <3>1. QED
      BY <1>1, <2>2, SumOfZeros, KeyspaceAssumption
  <2>4. QED
    BY <1>1, <2>3
<1>3. PICK m \in R : \A y \in R : m <= y
  <2>1. R \in SUBSET Keys
    OBVIOUS
  <2> HIDE DEF R
  <2>2. QED
    BY <1>2, <2>1, LeastKey
<1>4. Place(m) = Gathered
  <2> DEFINE A == {j \in Keys : Kept(j) /\ j >= m}
             B == {j \in Keys : Kept(j) /\ ~(j >= m)}
  <2>1. A \in SUBSET Keys /\ B \in SUBSET Keys /\ A \cap B = {} /\ KS = A \cup B
    OBVIOUS
  <2>2. \A j \in B : seen[j] = 0
    <3>1. ASSUME NEW j \in B PROVE seen[j] = 0
      <4>1. j \in KS /\ j \notin R
        <5>1. j \in Nat /\ m \in Nat
          BY KeyspaceAssumption
        <5>2. QED
          BY <1>3, <5>1
      <4>2. QED
        BY <4>1
    <3>2. QED
      BY <3>1
  <2>3. Place(m) = Sum(seen, A)
    BY DEF Place, Sum
  <2> HIDE DEF A, B, KS
  <2>4. Sum(seen, KS) = Sum(seen, A) + Sum(seen, B)
    <3>1. Sum(seen, A \cup B) = Sum(seen, A) + Sum(seen, B)
      <4>1. IsFiniteSet(Keys) /\ A \in SUBSET Keys /\ B \in SUBSET Keys /\ A \cap B = {}
        BY <2>1, KeyspaceAssumption
      <4> HIDE DEF R, Q
      <4>2. QED
        BY <4>1, SumSplit
    <3>2. QED
      BY <2>1, <3>1, Zenon
  <2>5. Sum(seen, B) = 0 /\ Sum(seen, A) \in Nat
    BY <2>1, <2>2, SumOfZeros, SumFacts, KeyspaceAssumption
  <2>6. QED
    BY <1>1, <2>3, <2>4, <2>5
<1>5. m \in Q
  BY <1>1, <1>3, <1>4
<1>6. Max(Q) \in Q /\ \A y \in Q : y <= Max(Q)
  <2>1. Q \in SUBSET Keys /\ Q # {}
    BY <1>5
  <2> HIDE DEF Q
  <2>2. QED
    BY <2>1, MaxFacts
<1>7. RowAt(x) = Max(Q)
  BY DEF RowAt
<1>8. QED
  BY <1>6, <1>7 DEF RowIs

SampleSize == IF Gathered < RecentLimit THEN Gathered ELSE RecentLimit

LEMMA SampleFacts ==
  ASSUME seen \in [Keys -> Nat]
  PROVE  /\ Gathered \in Nat /\ SampleSize \in Nat
         /\ Sample \in Seq(Keys) /\ Len(Sample) = SampleSize
         /\ SampleSize <= RecentLimit /\ SampleSize <= Gathered
         /\ \A x \in 1 .. SampleSize : RowIs(x, Sample[x])
<1>1. Gathered \in Nat
  <2>1. {j \in Keys : Kept(j)} \in SUBSET Keys /\ IsFiniteSet(Keys)
    BY KeyspaceAssumption
  <2>2. QED
    BY <2>1, SumFacts DEF Gathered, Sum
<1>2. RecentLimit \in Nat /\ RecentLimit > 0
  BY KeyspaceAssumption
<1>3. SampleSize \in Nat /\ SampleSize <= RecentLimit /\ SampleSize <= Gathered
  BY <1>1, <1>2 DEF SampleSize
<1>4. Sample = [x \in 1 .. SampleSize |-> RowAt(x)]
  BY DEF Sample, SampleSize
<1>5. \A x \in 1 .. SampleSize : x \in 1 .. Gathered
  BY <1>1, <1>3
<1>6. \A x \in 1 .. SampleSize : RowIs(x, RowAt(x))
  BY <1>5, RowFacts
<1>7. \A x \in 1 .. SampleSize : RowAt(x) \in Keys
  BY <1>6 DEF RowIs
<1>8. Sample \in [1 .. SampleSize -> Keys]
  BY <1>4, <1>7
<1>9. Sample \in Seq(Keys) /\ Len(Sample) = SampleSize
  BY <1>3, <1>8
<1>10. QED
  BY <1>1, <1>3, <1>4, <1>6, <1>9
-----------------------------------------------------------------------------
SeenKeys == {k \in Keys : seen[k] > 0}
(* Which step belongs to which operation.                                  *)
Shape ==
  /\ step \in {"size", "fields"} => op = "health"
  /\ step = "count" => op \in {"exact", "estimate"}
  /\ step = "show" => op = "recent"
  /\ step = "meta" => op # "recent"
(* An operation is under way or returned: not before the first one, and    *)
(* not when a call failed.                                                 *)
Ran == step # "error" /\ (step = "idle" /\ op = "health" => begun # {})
(* What a scan may return of the keys S.                                   *)
Wanted(S) == {k \in S : op = "recent" => Matches(k)}
(* The promise of SCAN: what was returned was there, and what is still     *)
(* there was returned or is owed, until nothing is.                        *)
Walked ==
  Ran => /\ alive \subseteq begun
         /\ SeenKeys \subseteq Wanted(begun)
         /\ Wanted(alive) \subseteq SeenKeys \cup owed
         /\ ~more => owed = {}
(* The counts of scanKeyspace lag behind the keys by the batch at hand.    *)
Counted ==
  /\ step # "meta" => batch = {}
  /\ batch \subseteq SeenKeys
  /\ withTTL <= typed
  /\ typed + Cardinality(batch) <= Scanned
  /\ op # "recent" => Cardinality((alive \cap SeenKeys) \ batch) <= typed
(* DBSIZE was asked before the first key was returned.                     *)
Sized ==
  /\ step = "size" => SeenKeys = {}
  /\ Ran /\ op = "health" /\ step # "size" => Cardinality(alive \cup SeenKeys) <= dbSize
(* The listing is a function of the scan and of DBSIZE.                    *)
Listed ==
  Listing =>
    /\ DOMAIN listed = Seen
    /\ ~more => listed = [g \in Seen |-> GroupCount(g)]
    /\ more => /\ listed \in [Seen -> Nat]
               /\ \A g \in Seen : listed[g] * Scanned <= GroupCount(g) * dbSize
(* The rows are the sample, and the loop ended for one of its reasons.     *)
Sampled ==
  op = "recent" =>
    /\ step \in {"show", "idle"} => ~more \/ Scanned >= GatherCap
    /\ step = "idle" => rows = Sample
IndInv == TypeOK /\ Shape /\ Walked /\ Counted /\ Sized /\ Listed /\ Sampled

LEMMA ScanFacts ==
  ASSUME seen \in [Keys -> Nat]
  PROVE  /\ Scanned = Sum(seen, Keys) /\ Scanned \in Nat
         /\ SeenKeys \in SUBSET Keys
         /\ \A k \in Keys : k \in SeenKeys \/ seen[k] = 0
<1>1. Scanned = Sum(seen, Keys)
  BY DEF Scanned, Sum
<1>2. Scanned \in Nat
  BY <1>1, SumFacts, KeyspaceAssumption
<1>3. QED
  BY <1>1, <1>2 DEF SeenKeys

(* What a failed call leaves, and the start of an operation.               *)
LEMMA NothingFacts ==
  ASSUME NothingScanned
  PROVE  /\ more' = TRUE /\ calls' = 0 /\ batch' = {}
         /\ seen' \in [Keys -> Nat] /\ typed' = 0 /\ withTTL' = 0
         /\ dbSize' = 0 /\ listed' = <<>> /\ rows' = <<>>
         /\ SeenKeys' = {} /\ Scanned' = 0
<1>1. /\ more' = TRUE /\ calls' = 0 /\ batch' = {} /\ typed' = 0 /\ withTTL' = 0
      /\ seen' = [k \in Keys |-> 0]
      /\ dbSize' = 0 /\ listed' = <<>> /\ rows' = <<>>
  BY DEF NothingScanned, NoneSeen
<1>2. seen' \in [Keys -> Nat] /\ \A k \in Keys : seen'[k] = 0
  BY <1>1
<1>3. SeenKeys' = {}
  BY <1>2 DEF SeenKeys
<1>4. Scanned' = 0
  <2>1. Scanned' = Sum(seen', Keys)
    BY DEF Scanned, Sum
  <2>2. Keys \in SUBSET Keys /\ IsFiniteSet(Keys)
    BY KeyspaceAssumption
  <2>3. Sum(seen', Keys) = 0
    BY <1>2, <2>2, SumOfZeros
  <2>4. QED
    BY <2>1, <2>3
<1>5. QED
  BY <1>1, <1>2, <1>3, <1>4

Start == StartHealth \/ StartCollections \/ StartRecent

(* The start of any operation: nothing was returned, and what its scan may *)
(* return is owed.                                                         *)
LEMMA StartFacts ==
  ASSUME TypeOK, Start
  PROVE  /\ NothingScanned /\ UNCHANGED alive /\ begun' = alive
         /\ \/ op' = "health" /\ step' = "size"
            \/ op' \in {"exact", "estimate"} /\ step' = "scan"
            \/ op' = "recent" /\ step' = "scan"
         /\ owed' = Wanted(alive)'
         /\ group' \in Groups \cup {NoPrefix} /\ described' \subseteq Groups
<1>1. CASE StartHealth
  BY <1>1 DEF StartHealth, Begin, TypeOK, Wanted
<1>2. CASE StartCollections
  <2>1. PICK o \in {"exact", "estimate"} : Begin(o, "scan", alive)
    BY <1>2 DEF StartCollections
  <2>2. QED
    BY <1>2, <2>1 DEF StartCollections, Begin, TypeOK, Wanted
<1>3. CASE StartRecent
  BY <1>3 DEF StartRecent, Begin, TypeOK, Wanted
<1>4. QED
  BY <1>1, <1>2, <1>3 DEF Start

(* An answer of SCAN.                                                      *)
LEMMA AnswerFacts ==
  ASSUME TypeOK, NEW b \in SUBSET alive, Answer(b)
  PROVE  /\ seen' \in [Keys -> Nat]
         /\ SeenKeys' = SeenKeys \cup b
         /\ Scanned' = Scanned + Cardinality(b)
         /\ owed' = owed \ b
         /\ more' \in BOOLEAN /\ (~more' => owed' = {})
         /\ calls' \in 0 .. MaxCalls
<1>1. /\ seen \in [Keys -> Nat] /\ b \in SUBSET Keys /\ calls \in Nat /\ calls <= MaxCalls
      /\ MaxCalls \in Nat /\ IsFiniteSet(Keys)
  BY KeyspaceAssumption DEF TypeOK
<1>2. seen' = [k \in Keys |-> seen[k] + IF k \in b THEN 1 ELSE 0]
  BY DEF Answer
<1>3. seen' \in [Keys -> Nat] /\ \A k \in Keys : seen'[k] = seen[k] + IF k \in b THEN 1 ELSE 0
  BY <1>1, <1>2
<1>4. SeenKeys' = SeenKeys \cup b
  BY <1>1, <1>3 DEF SeenKeys
<1>5. Scanned' = Scanned + Cardinality(b)
  <2>1. Scanned' = Sum(seen', Keys) /\ Scanned = Sum(seen, Keys)
    BY DEF Scanned, Sum
  <2>2. Sum(seen', Keys) = Sum(seen, Keys) + Cardinality(b)
    BY <1>1, <1>3, SumOneMore
  <2>3. QED
    BY <2>1, <2>2
<1>6. owed' = owed \ b /\ more' \in BOOLEAN /\ (~more' => owed' = {})
  BY DEF Answer
<1>7. calls' \in 0 .. MaxCalls
  <2>1. CASE more' = TRUE /\ calls < MaxCalls
    BY <1>1, <2>1 DEF Answer
  <2>2. CASE more' = FALSE
    BY <1>1, <2>2 DEF Answer
  <2>3. QED
    BY <2>1, <2>2 DEF Answer
<1>8. QED
  BY <1>3, <1>4, <1>5, <1>6, <1>7

(* The meta data of a batch.                                               *)
LEMMA MetaFacts ==
  ASSUME TypeOK, FetchKeyMeta
  PROVE  \E gone \in SUBSET alive, w \in Nat :
           /\ alive' = alive \ gone /\ owed' = owed \ gone
           /\ Cardinality(batch \cap alive) \in Nat
           /\ typed' = typed + Cardinality(batch \cap alive)
           /\ withTTL' = withTTL + w /\ w <= Cardinality(batch \cap alive)
           /\ batch' = {} /\ UNCHANGED <<op, group, more, calls, seen, dbSize, listed, described, rows, begun>>
<1>1. PICK gone \in SUBSET (batch \cap alive \cap Volatile) :
         /\ alive' = alive \ gone
         /\ owed' = owed \ gone
         /\ \E w \in 0 .. Cardinality((batch \cap alive \cap Volatile) \ gone) :
              withTTL' = withTTL + w
  BY DEF FetchKeyMeta
<1>2. PICK w \in 0 .. Cardinality((batch \cap alive \cap Volatile) \ gone) : withTTL' = withTTL + w
  BY <1>1
<1>3. Cardinality(batch \cap alive) \in Nat
  <2>1. batch \cap alive \in SUBSET Keys
    BY DEF TypeOK
  <2>2. QED
    BY <2>1, Finite
<1>4. w \in Nat /\ w <= Cardinality(batch \cap alive)
  <2> DEFINE B == batch \cap alive
             D == (batch \cap alive \cap Volatile) \ gone
  <2>1. B \in SUBSET Keys /\ D \in SUBSET B /\ D \in SUBSET Keys
    BY DEF TypeOK
  <2>2. w \in 0 .. Cardinality(D)
    BY <1>2
  <2> HIDE DEF B, D
  <2>3. Cardinality(D) <= Cardinality(B) /\ Cardinality(D) \in Nat /\ Cardinality(B) \in Nat
    BY <2>1, Fewer, Finite
  <2>4. w \in Nat /\ w <= Cardinality(B)
    BY <2>2, <2>3
  <2>5. QED
    BY <2>4 DEF B
<1>5. gone \in SUBSET alive
  BY <1>1
<1>6. /\ typed' = typed + Cardinality(batch \cap alive) /\ batch' = {}
      /\ UNCHANGED <<op, group, more, calls, seen, dbSize, listed, described, rows, begun>>
  BY DEF FetchKeyMeta
<1>7. QED
  BY <1>1, <1>2, <1>3, <1>4, <1>5, <1>6

-----------------------------------------------------------------------------
LEMMA TypeStep == TypeOK /\ [Next]_vars => TypeOK'
<1> SUFFICES ASSUME TypeOK, [Next]_vars PROVE TypeOK'
  OBVIOUS
<1>1. CASE Start
  <2>1. /\ step' \in Steps /\ op' \in Ops
        /\ owed' \subseteq alive' /\ alive' = alive /\ begun' = alive
        /\ group' \in Groups \cup {NoPrefix} /\ described' \subseteq Groups
        /\ NothingScanned
    BY <1>1, StartFacts DEF Wanted, Steps, Ops
  <2>2. /\ more' = TRUE /\ calls' = 0 /\ batch' = {}
        /\ seen' \in [Keys -> Nat] /\ typed' = 0 /\ withTTL' = 0
        /\ dbSize' = 0 /\ listed' = <<>> /\ rows' = <<>>
    BY <2>1, NothingFacts
  <2>3. calls' \in 0 .. MaxCalls /\ DOMAIN listed' \subseteq Groups
    BY <2>2, KeyspaceAssumption
  <2>4. rows' \in Seq(Keys) /\ Len(rows') <= RecentLimit
    <3>1. Len(rows') = 0 /\ rows' \in Seq(Keys)
      BY <2>2
    <3>2. QED
      BY <3>1, KeyspaceAssumption
  <2>5. QED
    BY <2>1, <2>2, <2>3, <2>4 DEF TypeOK
<1>2. CASE CallFails
  <2>1. /\ step' \in Steps /\ owed' = {} /\ begun' = {}
        /\ NothingScanned /\ UNCHANGED <<alive, op, group, described>>
    BY <1>2 DEF CallFails, Steps
  <2>2. /\ more' = TRUE /\ calls' = 0 /\ batch' = {}
        /\ seen' \in [Keys -> Nat] /\ typed' = 0 /\ withTTL' = 0
        /\ dbSize' = 0 /\ listed' = <<>> /\ rows' = <<>>
    BY <2>1, NothingFacts
  <2>3. calls' \in 0 .. MaxCalls /\ DOMAIN listed' \subseteq Groups
    BY <2>2, KeyspaceAssumption
  <2>4. rows' \in Seq(Keys) /\ Len(rows') <= RecentLimit
    <3>1. Len(rows') = 0 /\ rows' \in Seq(Keys)
      BY <2>2
    <3>2. QED
      BY <3>1, KeyspaceAssumption
  <2>5. QED
    BY <2>1, <2>2, <2>3, <2>4 DEF TypeOK
<1>3. CASE Size
  <2>1. dbSize' \in Nat
    BY <1>3, Finite DEF Size, DbSize, TypeOK
  <2>2. QED
    BY <1>3, <2>1 DEF Size, scan, TypeOK, Steps
<1>4. CASE ScanBatch
  <2>1. PICK b \in SUBSET alive : Answer(b) /\ batch' = b
    BY <1>4 DEF ScanBatch
  <2>2. /\ seen' \in [Keys -> Nat] /\ owed' = owed \ b /\ more' \in BOOLEAN
        /\ calls' \in 0 .. MaxCalls
    BY <2>1, AnswerFacts
  <2>3. QED
    BY <1>4, <2>1, <2>2 DEF ScanBatch, TypeOK, Steps
<1>5. CASE GatherBatch
  <2>1. PICK b \in SUBSET alive : Answer(b)
    BY <1>5 DEF GatherBatch
  <2>2. /\ seen' \in [Keys -> Nat] /\ owed' = owed \ b /\ more' \in BOOLEAN
        /\ calls' \in 0 .. MaxCalls
    BY <2>1, AnswerFacts
  <2>3. QED
    BY <1>5, <2>2 DEF GatherBatch, TypeOK, Steps
<1>6. CASE FetchKeyMeta
  <2>1. PICK gone \in SUBSET alive, w \in Nat :
           /\ alive' = alive \ gone /\ owed' = owed \ gone
           /\ Cardinality(batch \cap alive) \in Nat
           /\ typed' = typed + Cardinality(batch \cap alive)
           /\ withTTL' = withTTL + w
           /\ batch' = {} /\ UNCHANGED <<op, group, more, calls, seen, dbSize, listed, described, rows, begun>>
    BY <1>6, MetaFacts
  <2>2. step' \in Steps
    BY <1>6 DEF FetchKeyMeta, Steps
  <2>3. QED
    BY <2>1, <2>2 DEF TypeOK
<1>7. CASE Fields
  BY <1>7 DEF Fields, scan, TypeOK, Steps
<1>8. CASE CountGroups
  <2>1. dbSize' \in Nat
    BY <1>8, Finite DEF CountGroups, DbSize, TypeOK
  <2>2. DOMAIN listed' = Seen
    BY <1>8 DEF CountGroups
  <2>3. Seen \subseteq Groups
    BY DEF Seen
  <2>4. QED
    BY <1>8, <2>1, <2>2, <2>3 DEF CountGroups, scan, TypeOK, Steps
<1>9. CASE Show
  <2>1. rows' \in Seq(Keys) /\ Len(rows') <= RecentLimit
    BY <1>9, SampleFacts DEF Show, TypeOK
  <2>2. QED
    BY <1>9, <2>1 DEF Show, scan, TypeOK, Steps
<1>10. CASE Expire
  BY <1>10 DEF Expire, TypeOK
<1>11. CASE UNCHANGED vars
  BY <1>11 DEF vars, scan, TypeOK
<1>12. QED
  BY <1>1, <1>2, <1>3, <1>4, <1>5, <1>6, <1>7, <1>8, <1>9, <1>10, <1>11
     DEF Next, Health, Collections, Recent, Start

LEMMA ShapeStep == TypeOK /\ Shape /\ [Next]_vars => Shape'
<1> SUFFICES ASSUME TypeOK, Shape, [Next]_vars PROVE Shape'
  OBVIOUS
<1>1. CASE Start
  BY <1>1, StartFacts DEF Shape
<1>2. CASE CallFails
  BY <1>2 DEF CallFails, Shape
<1>3. CASE Size \/ ScanBatch \/ GatherBatch \/ Fields \/ CountGroups \/ Show \/ Expire
  BY <1>3 DEF Size, ScanBatch, GatherBatch, Fields, CountGroups, Show, Expire, Shape
<1>4. CASE FetchKeyMeta
  <2>1. op' = op /\ op # "recent" /\ op \in {"health", "exact", "estimate"}
    BY <1>4 DEF FetchKeyMeta, Shape, TypeOK, Ops
  <2>2. step' = "scan" \/ (op = "health" /\ step' = "fields") \/ (op # "health" /\ step' = "count")
    BY <1>4 DEF FetchKeyMeta
  <2>3. QED
    BY <2>1, <2>2 DEF Shape
<1>5. CASE UNCHANGED vars
  BY <1>5 DEF vars, Shape
<1>6. QED
  BY <1>1, <1>2, <1>3, <1>4, <1>5 DEF Next, Health, Collections, Recent, Start

LEMMA WalkedStep == TypeOK /\ Shape /\ Walked /\ [Next]_vars => Walked'
<1> SUFFICES ASSUME TypeOK, Shape, Walked, [Next]_vars, Ran'
             PROVE  /\ alive' \subseteq begun'
                    /\ SeenKeys' \subseteq Wanted(begun)'
                    /\ Wanted(alive)' \subseteq SeenKeys' \cup owed'
                    /\ ~more' => owed' = {}
  BY DEF Walked
<1>1. CASE Start
  BY <1>1, StartFacts, NothingFacts
<1>2. CASE CallFails
  BY <1>2 DEF CallFails, Ran
<1>3. CASE ScanBatch
  <2>1. PICK b \in SUBSET alive : Answer(b) /\ batch' = b
    BY <1>3 DEF ScanBatch
  <2>2. /\ SeenKeys' = SeenKeys \cup b /\ owed' = owed \ b /\ (~more' => owed' = {})
    BY <2>1, AnswerFacts
  <2>3. Ran /\ op # "recent" /\ UNCHANGED <<alive, op, group, begun>>
    BY <1>3 DEF ScanBatch, Ran
  <2>4. QED
    BY <2>2, <2>3 DEF Walked, Wanted
<1>4. CASE GatherBatch
  <2>1. PICK b \in SUBSET {k \in alive : Matches(k)} : Answer(b)
    BY <1>4 DEF GatherBatch
  <2>2. /\ SeenKeys' = SeenKeys \cup b /\ owed' = owed \ b /\ (~more' => owed' = {})
    BY <2>1, AnswerFacts
  <2>3. Ran /\ op = "recent" /\ UNCHANGED <<alive, op, group, begun>>
    BY <1>4 DEF GatherBatch, Ran
  <2>4. \A S : Wanted(S)' = {k \in S' : Matches(k)} /\ Wanted(S) = {k \in S : Matches(k)}
    BY <2>3 DEF Wanted, Matches
  <2>5. QED
    BY <2>1, <2>2, <2>3, <2>4 DEF Walked
<1>5. CASE FetchKeyMeta
  <2>1. PICK gone \in SUBSET alive :
           /\ alive' = alive \ gone /\ owed' = owed \ gone
           /\ UNCHANGED <<op, group, more, seen, begun>>
    BY <1>5, MetaFacts
  <2>2. Ran
    BY <1>5 DEF FetchKeyMeta, Ran
  <2>3. SeenKeys' = SeenKeys
    BY <2>1 DEF SeenKeys
  <2>4. QED
    BY <2>1, <2>2, <2>3 DEF Walked, Wanted, Matches
<1>6. CASE Expire
  <2>1. PICK k \in alive : alive' = alive \ {k} /\ owed' = owed \ {k}
    BY <1>6 DEF Expire
  <2>2. Ran /\ UNCHANGED <<op, group, more, seen, begun>>
    BY <1>6 DEF Expire, Ran
  <2>3. SeenKeys' = SeenKeys
    BY <2>2 DEF SeenKeys
  <2>4. QED
    BY <2>1, <2>2, <2>3 DEF Walked, Wanted, Matches
<1>7. CASE Size \/ Fields \/ CountGroups \/ Show \/ UNCHANGED vars
  <2>1. Ran /\ UNCHANGED <<alive, owed, op, group, more, seen, begun>>
    BY <1>7 DEF Size, Fields, CountGroups, Show, vars, scan, Ran, Shape
  <2>2. SeenKeys' = SeenKeys
    BY <2>1 DEF SeenKeys
  <2>3. QED
    BY <2>1, <2>2 DEF Walked, Wanted, Matches
<1>8. QED
  BY <1>1, <1>2, <1>3, <1>4, <1>5, <1>6, <1>7 DEF Next, Health, Collections, Recent, Start

LEMMA CountedStep == TypeOK /\ Shape /\ Counted /\ [Next]_vars => Counted'
<1> SUFFICES ASSUME TypeOK, Shape, Counted, [Next]_vars PROVE Counted'
  OBVIOUS
<1>0. /\ alive \in SUBSET Keys /\ batch \in SUBSET Keys /\ SeenKeys \in SUBSET Keys
      /\ Scanned \in Nat /\ typed \in Nat /\ withTTL \in Nat /\ Cardinality(batch) \in Nat
  BY ScanFacts, Finite DEF TypeOK
<1>1. CASE NothingScanned
  <2>1. /\ batch' = {} /\ typed' = 0 /\ withTTL' = 0 /\ SeenKeys' = {} /\ Scanned' = 0
    BY <1>1, NothingFacts
  <2>2. Cardinality({}) = 0
    BY FS_EmptySet
  <2>3. Cardinality(batch') = 0
    BY <2>1, <2>2
  <2>4. (alive' \cap SeenKeys') \ batch' = {}
    BY <2>1
  <2>5. QED
    BY <2>1, <2>2, <2>3, <2>4 DEF Counted
<1>2. CASE ScanBatch
  <2>1. PICK b \in SUBSET alive : Answer(b) /\ batch' = b
    BY <1>2 DEF ScanBatch
  <2>2. SeenKeys' = SeenKeys \cup b /\ Scanned' = Scanned + Cardinality(b)
    BY <2>1, AnswerFacts
  <2>3. /\ batch = {} /\ step' = "meta" /\ op # "recent"
        /\ UNCHANGED <<alive, op, typed, withTTL>>
    BY <1>2 DEF ScanBatch, Counted
  <2>4. Cardinality(b) \in Nat /\ typed <= Scanned
    <3>1. Cardinality({}) = 0
      BY FS_EmptySet
    <3>2. b \in SUBSET Keys
      BY <1>0
    <3>3. QED
      BY <1>0, <2>3, <3>1, <3>2, Finite DEF Counted
  <2>5. Cardinality((alive' \cap SeenKeys') \ batch') <= typed
    <3> DEFINE A == (alive \cap SeenKeys) \ batch
               B == (alive' \cap SeenKeys') \ batch'
    <3>1. A \in SUBSET Keys /\ B \in SUBSET A /\ B \in SUBSET Keys
      BY <1>0, <2>1, <2>2, <2>3
    <3>2. Cardinality(A) <= typed
      BY <2>3 DEF Counted
    <3> HIDE DEF A, B
    <3>3. Cardinality(B) <= Cardinality(A) /\ Cardinality(A) \in Nat /\ Cardinality(B) \in Nat
      BY <3>1, Fewer, Finite
    <3>4. Cardinality(B) <= typed
      BY <1>0, <3>2, <3>3
    <3>5. QED
      BY <3>4 DEF B
  <2>6. batch' \subseteq SeenKeys'
    BY <2>1, <2>2
  <2>7. withTTL' <= typed'
    BY <2>3 DEF Counted
  <2>8. typed' + Cardinality(batch') <= Scanned'
    BY <1>0, <2>1, <2>2, <2>3, <2>4
  <2>9. QED
    BY <2>3, <2>5, <2>6, <2>7, <2>8 DEF Counted
<1>3. CASE GatherBatch
  <2>1. PICK b \in SUBSET alive : Answer(b)
    BY <1>3 DEF GatherBatch
  <2>2. SeenKeys' = SeenKeys \cup b /\ Scanned' = Scanned + Cardinality(b)
    BY <2>1, AnswerFacts
  <2>3. /\ batch = {} /\ batch' = {} /\ op' = "recent"
        /\ UNCHANGED <<typed, withTTL>>
    BY <1>3 DEF GatherBatch, Counted
  <2>4. Cardinality(b) \in Nat
    <3>1. b \in SUBSET Keys
      BY <1>0
    <3>2. QED
      BY <3>1, Finite
  <2>5. typed' + Cardinality(batch') <= Scanned'
    <3>1. typed + Cardinality(batch) <= Scanned /\ batch' = batch
      BY <2>3 DEF Counted
    <3>2. QED
      BY <1>0, <2>2, <2>3, <2>4, <3>1
  <2>6. QED
    BY <2>3, <2>5 DEF Counted
<1>4. CASE FetchKeyMeta
  <2> DEFINE c == Cardinality(batch \cap alive)
  <2>1. PICK gone \in SUBSET alive, w \in Nat :
           /\ alive' = alive \ gone
           /\ c \in Nat
           /\ typed' = typed + c
           /\ withTTL' = withTTL + w /\ w <= c
           /\ batch' = {} /\ UNCHANGED <<op, seen>>
    BY <1>4, MetaFacts
  <2>2. SeenKeys' = SeenKeys /\ Scanned' = Scanned
    BY <2>1 DEF SeenKeys, Scanned
  <2>3. c <= Cardinality(batch)
    <3>1. batch \cap alive \in SUBSET batch
      OBVIOUS
    <3>2. QED
      BY <1>0, <3>1, Fewer
  <2>4. op # "recent" => Cardinality((alive' \cap SeenKeys') \ batch') <= typed'
    <3> DEFINE A == (alive \cap SeenKeys) \ batch
               D == batch \cap alive
               B == (alive' \cap SeenKeys') \ batch'
    <3>1. /\ A \in SUBSET Keys /\ D \in SUBSET Keys /\ B \in SUBSET (A \cup D)
          /\ B \in SUBSET Keys
      BY <1>0, <2>1, <2>2
    <3>2. op # "recent" => Cardinality(A) <= typed
      BY DEF Counted
    <3>3. typed' = typed + Cardinality(D)
      BY <2>1
    <3> HIDE DEF A, B, D
    <3>4. /\ Cardinality(B) <= Cardinality(A) + Cardinality(D)
          /\ Cardinality(A) \in Nat /\ Cardinality(B) \in Nat /\ Cardinality(D) \in Nat
      BY <3>1, AtMostBoth, Finite
    <3>5. op # "recent" => Cardinality(B) <= typed'
      BY <1>0, <3>2, <3>3, <3>4
    <3>6. QED
      BY <3>5 DEF B
  <2>5. Cardinality(batch') = 0
    BY <2>1, FS_EmptySet
  <2> HIDE DEF c
  <2>6. typed' + Cardinality(batch') <= Scanned' /\ withTTL' <= typed'
    <3>1. typed + Cardinality(batch) <= Scanned /\ withTTL <= typed
      BY DEF Counted
    <3>2. QED
      BY <1>0, <2>1, <2>2, <2>3, <2>5, <3>1
  <2>7. QED
    BY <2>1, <2>4, <2>6 DEF Counted
<1>5. CASE Expire
  <2>1. PICK k \in alive : alive' = alive \ {k}
    BY <1>5 DEF Expire
  <2>2. UNCHANGED <<op, step, batch, seen, typed, withTTL>>
    BY <1>5 DEF Expire
  <2>3. SeenKeys' = SeenKeys /\ Scanned' = Scanned
    BY <2>2 DEF SeenKeys, Scanned
  <2>4. op # "recent" => Cardinality((alive' \cap SeenKeys') \ batch') <= typed
    <3> DEFINE A == (alive \cap SeenKeys) \ batch
               B == (alive' \cap SeenKeys') \ batch'
    <3>1. A \in SUBSET Keys /\ B \in SUBSET A /\ B \in SUBSET Keys
      BY <1>0, <2>1, <2>2, <2>3
    <3>2. op # "recent" => Cardinality(A) <= typed
      BY DEF Counted
    <3> HIDE DEF A, B
    <3>3. Cardinality(B) <= Cardinality(A) /\ Cardinality(A) \in Nat /\ Cardinality(B) \in Nat
      BY <3>1, Fewer, Finite
    <3>4. op # "recent" => Cardinality(B) <= typed
      BY <1>0, <3>2, <3>3
    <3>5. QED
      BY <3>4 DEF B
  <2>5. QED
    BY <2>2, <2>3, <2>4 DEF Counted
<1>6. CASE Size \/ Fields \/ CountGroups \/ Show \/ UNCHANGED vars
  <2>1. /\ step' # "meta" \/ step' = step
        /\ step # "meta" \/ step' = step
        /\ UNCHANGED <<alive, op, batch, seen, typed, withTTL>>
    BY <1>6 DEF Size, Fields, CountGroups, Show, vars, scan
  <2>2. SeenKeys' = SeenKeys /\ Scanned' = Scanned
    BY <2>1 DEF SeenKeys, Scanned
  <2>3. QED
    BY <2>1, <2>2 DEF Counted
<1>7. QED
  BY <1>1, <1>2, <1>3, <1>4, <1>5, <1>6, StartFacts
     DEF Next, Health, Collections, Recent, Start, CallFails

LEMMA SizedStep == TypeOK /\ Shape /\ Sized /\ [Next]_vars => Sized'
<1> SUFFICES ASSUME TypeOK, Shape, Sized, [Next]_vars PROVE Sized'
  OBVIOUS
<1>0. /\ alive \in SUBSET Keys /\ SeenKeys \in SUBSET Keys /\ dbSize \in Nat
      /\ Cardinality(alive \cup SeenKeys) \in Nat
  BY ScanFacts, Finite DEF TypeOK
<1>1. CASE Start
  BY <1>1, StartFacts, NothingFacts DEF Sized
<1>2. CASE CallFails
  BY <1>2 DEF CallFails, Sized, Ran
<1>3. CASE Size
  <2>1. /\ dbSize' >= Cardinality(alive) /\ dbSize' \in Nat /\ alive' = alive /\ seen' = seen
        /\ step = "size" /\ step' = "scan"
    BY <1>0, <1>3, Finite DEF Size, DbSize, scan
  <2>2. SeenKeys' = {} /\ alive' \cup SeenKeys' = alive /\ Cardinality(alive) \in Nat
    BY <1>0, <2>1, Finite DEF Sized, SeenKeys
  <2>3. Cardinality(alive' \cup SeenKeys') <= dbSize'
    BY <2>1, <2>2
  <2>4. QED
    BY <2>1, <2>3 DEF Sized
<1>4. CASE ScanBatch
  <2>1. PICK b \in SUBSET alive : Answer(b) /\ batch' = b
    BY <1>4 DEF ScanBatch
  <2>2. SeenKeys' = SeenKeys \cup b
    BY <2>1, AnswerFacts
  <2>3. /\ step = "scan" /\ step' = "meta" /\ UNCHANGED <<alive, op, dbSize>>
    BY <1>4 DEF ScanBatch
  <2>4. alive' \cup SeenKeys' = alive \cup SeenKeys
    BY <2>2, <2>3
  <2>5. op = "health" => Cardinality(alive' \cup SeenKeys') <= dbSize'
    BY <2>3, <2>4 DEF Sized, Ran
  <2>6. QED
    BY <2>3, <2>5 DEF Sized
<1>5. CASE GatherBatch \/ CountGroups \/ Show
  BY <1>5 DEF GatherBatch, CountGroups, Show, Sized, Shape
<1>6. CASE FetchKeyMeta \/ Expire
  <2>1. /\ alive' \subseteq alive /\ UNCHANGED <<op, seen, dbSize, begun>>
        /\ (step' = "size" <=> step = "size") /\ (Ran' => Ran)
    <3>1. CASE FetchKeyMeta
      <4>1. alive' \subseteq alive /\ UNCHANGED <<op, seen, dbSize, begun>>
        BY <3>1, MetaFacts
      <4>2. QED
        BY <3>1, <4>1 DEF FetchKeyMeta, Ran
    <3>2. CASE Expire
      BY <3>2 DEF Expire, Ran
    <3>3. QED
      BY <1>6, <3>1, <3>2
  <2>2. SeenKeys' = SeenKeys
    BY <2>1 DEF SeenKeys
  <2>3. Cardinality(alive' \cup SeenKeys') <= Cardinality(alive \cup SeenKeys)
        /\ Cardinality(alive' \cup SeenKeys') \in Nat
    <3> DEFINE A == alive \cup SeenKeys
               B == alive' \cup SeenKeys'
    <3>1. A \in SUBSET Keys /\ B \in SUBSET A /\ B \in SUBSET Keys
      BY <1>0, <2>1, <2>2
    <3> HIDE DEF A, B
    <3>2. Cardinality(B) <= Cardinality(A) /\ Cardinality(B) \in Nat
      BY <3>1, Fewer, Finite
    <3>3. QED
      BY <3>2 DEF A, B
  <2>4. QED
    BY <1>0, <2>1, <2>2, <2>3 DEF Sized
<1>7. CASE Fields \/ UNCHANGED vars
  <2>1. /\ UNCHANGED <<alive, op, seen, dbSize, begun>>
        /\ (step' = "size" => step = "size") /\ (step = "size" => step' = "size")
        /\ (Ran' => Ran)
    BY <1>7 DEF Fields, vars, scan, Ran
  <2>2. SeenKeys' = SeenKeys
    BY <2>1 DEF SeenKeys
  <2>3. QED
    BY <2>1, <2>2 DEF Sized
<1>8. QED
  BY <1>1, <1>2, <1>3, <1>4, <1>5, <1>6, <1>7 DEF Next, Health, Collections, Recent, Start

(* An extrapolated count is at most its share of DBSIZE.                   *)
LEMMA ShareFacts ==
  ASSUME NEW c \in Nat, NEW d \in Nat, NEW s \in Nat, s > 0
  PROVE  LET n == (c * d) \div s IN n * s <= c * d /\ (n - 1) * s <= c * d
<1> DEFINE p == c * d
           n == p \div s
<1>1. p \in Nat
  OBVIOUS
<1> HIDE DEF p
<1>2. n \in Int /\ n * s <= p
  BY <1>1
<1>3. (n - 1) * s = n * s - s
  BY <1>2
<1>4. (n - 1) * s <= p
  <2> HIDE DEF n
  <2>1. n * s \in Int
    BY <1>2
  <2>2. QED
    BY <1>1, <1>2, <1>3, <2>1
<1>5. QED
  BY <1>2, <1>4 DEF p

(* Groups and their counts.                                                *)
KeysOf(g) == {k \in Keys : GroupOf[k] = g}

LEMMA GroupFacts ==
  ASSUME seen \in [Keys -> Nat], NEW g
  PROVE  /\ KeysOf(g) \in SUBSET Keys
         /\ GroupCount(g) = Sum(seen, KeysOf(g)) /\ GroupCount(g) \in Nat
         /\ GroupCount(g) <= Scanned
<1>1. KeysOf(g) \in SUBSET Keys /\ IsFiniteSet(Keys) /\ Keys \in SUBSET Keys
  BY KeyspaceAssumption DEF KeysOf
<1>2. GroupCount(g) = Sum(seen, KeysOf(g))
  BY DEF GroupCount, KeysOf, Sum
<1>3. Sum(seen, KeysOf(g)) \in Nat
  BY <1>1, SumFacts
<1>4. Sum(seen, KeysOf(g)) <= Sum(seen, Keys)
  BY <1>1, SumMonotone
<1>5. QED
  BY <1>1, <1>2, <1>3, <1>4, ScanFacts

(* What the end of Collections lists.                                      *)
LEMMA CountFacts ==
  ASSUME TypeOK, CountGroups
  PROVE  /\ DOMAIN listed' = Seen
         /\ ~more => listed' = [g \in Seen |-> GroupCount(g)]
         /\ more => /\ listed' \in [Seen -> Nat]
                    /\ \A g \in Seen : listed'[g] * Scanned <= GroupCount(g) * dbSize'
<1>1. dbSize' \in Nat
  BY Finite DEF CountGroups, DbSize, TypeOK
<1>2. ASSUME ~more PROVE listed' = [g \in Seen |-> GroupCount(g)]
  BY <1>2 DEF CountGroups
<1>3. ASSUME more
      PROVE  /\ DOMAIN listed' = Seen
             /\ listed' \in [Seen -> Nat]
             /\ \A g \in Seen : listed'[g] * Scanned <= GroupCount(g) * dbSize'
  <2>1. PICK f \in [Seen -> 0 .. Cardinality(Keys)] :
          (\A g \in Seen : f[g] \in Extrapolate(GroupCount(g))) /\ listed' = f
    BY <1>3 DEF CountGroups
  <2>2. ASSUME NEW g \in Seen
        PROVE  f[g] \in Nat /\ f[g] * Scanned <= GroupCount(g) * dbSize'
    <3> DEFINE c == GroupCount(g)
               d == dbSize'
               s == Scanned
               n == (c * d) \div s
    <3>1. c \in Nat /\ s \in Nat /\ s > 0 /\ d \in Nat
      BY <1>1, <2>2, GroupFacts, ScanFacts DEF TypeOK, Seen
    <3>2. f[g] \in Nat
      BY <2>1, <2>2
    <3>3. f[g] = n \/ f[g] = n - 1
      BY <2>1, <2>2 DEF Extrapolate
    <3> HIDE DEF c, d, s
    <3>4. n * s <= c * d /\ (n - 1) * s <= c * d
      BY <3>1, ShareFacts
    <3>5. f[g] * s <= c * d
      BY <3>3, <3>4
    <3>6. QED
      BY <3>2, <3>5 DEF c, d, s
  <2>3. QED
    BY <2>1, <2>2
<1>4. QED
  BY <1>2, <1>3

LEMMA ListedStep == TypeOK /\ Shape /\ Listed /\ [Next]_vars => Listed'
<1> SUFFICES ASSUME TypeOK, Shape, Listed, [Next]_vars, Listing' PROVE Listed'
  BY DEF Listed
<1>1. CASE Start
  BY <1>1, StartFacts DEF Listing
<1>2. CASE CallFails \/ Size \/ ScanBatch \/ GatherBatch \/ FetchKeyMeta
  BY <1>2 DEF CallFails, Size, ScanBatch, GatherBatch, FetchKeyMeta, Listing
<1>3. CASE Fields \/ Show
  BY <1>3 DEF Fields, Show, Listing, Shape
<1>4. CASE CountGroups
  <2>1. /\ DOMAIN listed' = Seen
        /\ ~more => listed' = [g \in Seen |-> GroupCount(g)]
        /\ more => /\ listed' \in [Seen -> Nat]
                   /\ \A g \in Seen : listed'[g] * Scanned <= GroupCount(g) * dbSize'
    BY <1>4, CountFacts
  <2>2. seen' = seen /\ more' = more
    BY <1>4 DEF CountGroups, scan
  <2>3. Seen' = Seen /\ Scanned' = Scanned /\ \A g : GroupCount(g)' = GroupCount(g)
    BY <2>2 DEF Seen, Scanned, GroupCount
  <2>4. more' => /\ listed' \in [Seen' -> Nat]
                 /\ \A g \in Seen' : listed'[g] * Scanned' <= GroupCount(g)' * dbSize'
    BY <2>1, <2>2, <2>3
  <2>5. ~more' => listed' = [g \in Seen' |-> GroupCount(g)']
    <3>1. [g \in Seen |-> GroupCount(g)] = [g \in Seen' |-> GroupCount(g)']
      BY <2>3
    <3>2. QED
      BY <2>1, <2>2, <3>1
  <2>6. QED
    BY <2>1, <2>3, <2>4, <2>5 DEF Listed
<1>5. CASE Expire \/ UNCHANGED vars
  <2>1. UNCHANGED <<step, op, listed, more, seen, dbSize>>
    BY <1>5 DEF Expire, vars, scan
  <2>2. Listed' = Listed
    BY <2>1 DEF Listed, Listing, Seen, Scanned, GroupCount
  <2>3. QED
    BY <2>2
<1>6. QED
  BY <1>1, <1>2, <1>3, <1>4, <1>5 DEF Next, Health, Collections, Recent, Start

LEMMA SameSample ==
  ASSUME seen' = seen, group' = group
  PROVE  Sample' = Sample /\ Scanned' = Scanned
<1>1. \A k : Kept(k)' = Kept(k) /\ Place(k)' = Place(k)
  BY DEF Kept, Place
<1>2. \A x : RowAt(x)' = RowAt(x)
  BY DEF RowAt, Kept, Place
<1>3. Gathered' = Gathered
  BY DEF Gathered, Kept
<1>4. QED
  BY <1>2, <1>3 DEF Sample, Scanned

LEMMA SampledStep == TypeOK /\ Shape /\ Sampled /\ [Next]_vars => Sampled'
<1> SUFFICES ASSUME TypeOK, Shape, Sampled, [Next]_vars, op' = "recent" PROVE Sampled'
  BY DEF Sampled
<1>1. CASE Start
  BY <1>1, StartFacts DEF Sampled
<1>2. CASE CallFails
  BY <1>2 DEF CallFails, Sampled
<1>3. CASE GatherBatch
  <2>1. step' = "scan" \/ (step' = "show" /\ ~GathersOn)
    BY <1>3 DEF GatherBatch
  <2>2. PICK b \in SUBSET alive : Answer(b)
    BY <1>3 DEF GatherBatch
  <2>3. Scanned' \in Nat /\ GatherCap \in Nat
    <3>1. b \in SUBSET Keys
      BY DEF TypeOK
    <3>2. Scanned' = Scanned + Cardinality(b)
      BY <2>2, AnswerFacts
    <3>3. Scanned \in Nat /\ Cardinality(b) \in Nat
      BY <3>1, ScanFacts, Finite DEF TypeOK
    <3>4. GatherCap \in Nat
      BY KeyspaceAssumption
    <3>5. QED
      BY <3>2, <3>3, <3>4
  <2>4. step' = "show" => ~more' \/ Scanned' >= GatherCap
    BY <2>1, <2>3 DEF GathersOn
  <2>5. QED
    BY <2>1, <2>4 DEF Sampled
<1>4. CASE Show
  <2>1. /\ step = "show" /\ step' = "idle" /\ rows' = Sample
        /\ op = "recent" /\ UNCHANGED <<seen, group, more>>
    BY <1>4 DEF Show, scan, Shape
  <2>2. Sample' = Sample /\ Scanned' = Scanned
    BY <2>1, SameSample
  <2>3. QED
    BY <2>1, <2>2 DEF Sampled
<1>5. CASE ScanBatch \/ FetchKeyMeta \/ Size \/ Fields \/ CountGroups
  BY <1>5 DEF ScanBatch, FetchKeyMeta, Size, Fields, CountGroups, Shape
<1>6. CASE Expire \/ UNCHANGED vars
  <2>1. UNCHANGED <<step, op, group, more, seen, rows>>
    BY <1>6 DEF Expire, vars, scan
  <2>2. Sample' = Sample /\ Scanned' = Scanned
    BY <2>1, SameSample
  <2>3. QED
    BY <2>1, <2>2 DEF Sampled
<1>7. QED
  BY <1>1, <1>2, <1>3, <1>4, <1>5, <1>6 DEF Next, Health, Collections, Recent, Start

LEMMA InitOK == Init => IndInv
<1> SUFFICES ASSUME Init PROVE IndInv
  OBVIOUS
<1>1. /\ alive \subseteq Keys /\ op = "health" /\ group = NoPrefix /\ step = "idle"
      /\ owed = {} /\ more = FALSE /\ calls = 0 /\ batch = {}
      /\ seen = [k \in Keys |-> 0] /\ typed = 0 /\ withTTL = 0 /\ dbSize = 0
      /\ listed = <<>> /\ described = {} /\ rows = <<>> /\ begun = {}
  BY DEF Init, NoneSeen
<1>2. seen \in [Keys -> Nat] /\ \A k \in Keys : seen[k] = 0
  BY <1>1
<1>3. SeenKeys = {} /\ Scanned = 0
  <2>1. Keys \in SUBSET Keys /\ IsFiniteSet(Keys)
    BY KeyspaceAssumption
  <2>2. Scanned = 0
    BY <1>2, <2>1, ScanFacts, SumOfZeros
  <2>3. QED
    BY <1>2, <2>2 DEF SeenKeys
<1>4. TypeOK
  <2>1. calls \in 0 .. MaxCalls /\ rows \in Seq(Keys) /\ Len(rows) <= RecentLimit
        /\ DOMAIN listed \subseteq Groups
    BY <1>1, KeyspaceAssumption
  <2>2. QED
    BY <1>1, <1>2, <2>1 DEF TypeOK, Ops, Steps
<1>5. Shape /\ Walked /\ Listed /\ Sampled
  BY <1>1 DEF Shape, Walked, Ran, Listed, Listing, Sampled
<1>6. Counted /\ Sized
  <2>1. Cardinality(batch) = 0 /\ (alive \cap SeenKeys) \ batch = {} /\ Cardinality({}) = 0
    BY <1>1, <1>3, FS_EmptySet
  <2>2. QED
    BY <1>1, <1>3, <2>1 DEF Counted, Sized, Ran
<1>7. QED
  BY <1>4, <1>5, <1>6 DEF IndInv

(* The invariant of every reachable state.                                 *)
THEOREM InvHolds == Spec => []IndInv
<1>1. IndInv /\ [Next]_vars => IndInv'
  BY TypeStep, ShapeStep, WalkedStep, CountedStep, SizedStep, ListedStep, SampledStep DEF IndInv
<1>2. QED
  BY <1>1, InitOK, PTL DEF Spec

(* The variables of the session keep their types, for any keyspace: in     *)
(* particular Recent never returns more rows than its limit.               *)
THEOREM TypeCorrect == Spec => []TypeOK
<1>1. IndInv => TypeOK
  BY DEF IndInv
<1>2. QED
  BY <1>1, InvHolds, PTL

-----------------------------------------------------------------------------
(* A key came back once, or is one of those that came twice.               *)
LEMMA TwiceFacts ==
  ASSUME seen \in [Keys -> Nat], NEW A \in SUBSET Keys
  PROVE  /\ Sum(seen, A) <= Cardinality(A \cap SeenKeys) + Twice
         /\ Cardinality(A \cap SeenKeys) <= Sum(seen, A)
<1> DEFINE B == Keys \ A
           a == Cardinality(A \cap SeenKeys)
           b == Cardinality(B \cap SeenKeys)
<1>1. /\ IsFiniteSet(Keys) /\ A \in SUBSET Keys /\ B \in SUBSET Keys
      /\ A \cap B = {} /\ A \cup B = Keys
  BY KeyspaceAssumption
<1>2. a <= Sum(seen, A) /\ b <= Sum(seen, B)
  <2>1. A \cap SeenKeys = {k \in A : seen[k] > 0} /\ B \cap SeenKeys = {k \in B : seen[k] > 0}
    BY DEF SeenKeys
  <2>2. Cardinality({k \in A : seen[k] > 0}) <= Sum(seen, A)
    BY <1>1, SumAtLeast
  <2>3. Cardinality({k \in B : seen[k] > 0}) <= Sum(seen, B)
    <3> HIDE DEF B
    <3>1. QED
      BY <1>1, SumAtLeast
  <2>4. QED
    BY <2>1, <2>2, <2>3
<1>3. Scanned = Sum(seen, A) + Sum(seen, B)
  <2>1. Sum(seen, A \cup B) = Sum(seen, A) + Sum(seen, B)
    <3> HIDE DEF B
    <3>1. QED
      BY <1>1, SumSplit
  <2>2. Sum(seen, Keys) = Sum(seen, A \cup B)
    BY <1>1, Zenon
  <2>3. QED
    BY <2>1, <2>2, ScanFacts
<1>4. Cardinality(SeenKeys) <= a + b
  <2> DEFINE P == A \cap SeenKeys
             Q == B \cap SeenKeys
  <2>1. P \in SUBSET Keys /\ Q \in SUBSET Keys /\ SeenKeys \in SUBSET (P \cup Q)
    BY <1>1, ScanFacts
  <2> HIDE DEF P, Q
  <2>2. Cardinality(SeenKeys) <= Cardinality(P) + Cardinality(Q)
    BY <2>1, AtMostBoth
  <2>3. QED
    BY <2>2 DEF P, Q
<1>5. Twice = Scanned - Cardinality(SeenKeys)
  BY DEF Twice, SeenKeys
<1>6. /\ Sum(seen, A) \in Nat /\ Sum(seen, B) \in Nat /\ Cardinality(SeenKeys) \in Nat
      /\ a \in Nat /\ b \in Nat
  <2>1. A \cap SeenKeys \in SUBSET Keys /\ B \cap SeenKeys \in SUBSET Keys
    OBVIOUS
  <2>2. Sum(seen, A) \in Nat /\ Sum(seen, B) \in Nat
    <3> HIDE DEF B
    <3>1. QED
      BY <1>1, SumFacts
  <2>3. QED
    BY <2>1, <2>2, Finite, ScanFacts
<1> HIDE DEF a, b, B
<1>7. QED
  <2>1. Sum(seen, A) <= a + Twice
    BY <1>2, <1>3, <1>4, <1>5, <1>6
  <2>2. QED
    BY <1>2, <2>1 DEF a

(* A group that was counted had a key.                                     *)
LEMMA SeenGroup ==
  ASSUME TypeOK, SeenKeys \subseteq begun, NEW g \in Seen
  PROVE  In(g, begun) # {}
<1>1. /\ KeysOf(g) \in SUBSET Keys /\ Sum(seen, KeysOf(g)) > 0 /\ IsFiniteSet(Keys)
      /\ seen \in [Keys -> Nat]
  BY GroupFacts, KeyspaceAssumption DEF Seen, TypeOK
<1>2. \E k \in KeysOf(g) : seen[k] # 0
  <2>1. SUFFICES ASSUME \A k \in KeysOf(g) : seen[k] = 0 PROVE FALSE
    OBVIOUS
  <2>2. Sum(seen, KeysOf(g)) = 0
    BY <1>1, <2>1, SumOfZeros
  <2>3. QED
    BY <1>1, <2>2
<1>3. PICK k \in KeysOf(g) : seen[k] # 0
  BY <1>2
<1>4. k \in SeenKeys
  BY <1>1, <1>3, ScanFacts
<1>5. QED
  BY <1>4 DEF In, KeysOf

LEMMA Exact == IndInv => ExactIsBetween
<1> SUFFICES ASSUME IndInv, Listing, ~more, NEW g \in Groups
             PROVE  /\ Cardinality(In(g, alive)) <= CountOf(g)
                    /\ CountOf(g) <= Cardinality(In(g, begun)) + Twice
                    /\ g \in DOMAIN listed => In(g, begun) # {}
  BY DEF ExactIsBetween
<1>1. /\ TypeOK /\ seen \in [Keys -> Nat] /\ alive \subseteq Keys /\ begun \subseteq Keys
      /\ DOMAIN listed = Seen /\ listed = [h \in Seen |-> GroupCount(h)]
  BY DEF IndInv, Listed, TypeOK
<1>2. /\ SeenKeys \subseteq begun /\ alive \subseteq SeenKeys
  BY DEF IndInv, Walked, Ran, Wanted, Listing
<1>3. CountOf(g) = Sum(seen, KeysOf(g))
  <2>1. CASE g \in Seen
    BY <1>1, <2>1, GroupFacts DEF CountOf
  <2>2. CASE g \notin Seen
    <3>1. GroupCount(g) \in Nat /\ ~(GroupCount(g) > 0)
      BY <1>1, <2>2, GroupFacts DEF Seen
    <3>2. CountOf(g) = 0 /\ GroupCount(g) = 0
      BY <1>1, <2>2, <3>1 DEF CountOf
    <3>3. QED
      BY <1>1, <3>2, GroupFacts
  <2>3. QED
    BY <2>1, <2>2
<1> DEFINE K == KeysOf(g)
           k == Cardinality(K \cap SeenKeys)
<1>4. K \in SUBSET Keys /\ Sum(seen, K) \in Nat
  <2>1. GroupCount(g) \in Nat /\ GroupCount(g) = Sum(seen, K) /\ K \in SUBSET Keys
    BY <1>1, GroupFacts
  <2>2. QED
    BY <2>1
<1>5. /\ Sum(seen, K) <= k + Twice /\ k <= Sum(seen, K)
  BY <1>1, <1>4, TwiceFacts
<1>6. Cardinality(In(g, alive)) <= k /\ k <= Cardinality(In(g, begun))
  <2> DEFINE A == In(g, alive)
             B == In(g, begun)
             S == K \cap SeenKeys
  <2>1. A \in SUBSET S /\ S \in SUBSET B /\ B \in SUBSET Keys /\ S \in SUBSET Keys
    BY <1>1, <1>2 DEF In, KeysOf, SeenKeys
  <2> HIDE DEF A, B, S
  <2>2. Cardinality(A) <= Cardinality(S) /\ Cardinality(S) <= Cardinality(B)
    BY <2>1, Fewer
  <2>3. QED
    BY <2>2 DEF A, B, S
<1>7. /\ k \in Nat /\ Cardinality(In(g, alive)) \in Nat /\ Cardinality(In(g, begun)) \in Nat
      /\ Twice \in Int
  <2>1. K \cap SeenKeys \in SUBSET Keys /\ In(g, alive) \in SUBSET Keys /\ In(g, begun) \in SUBSET Keys
    BY <1>1, <1>4 DEF In
  <2>2. Twice = Scanned - Cardinality(SeenKeys)
    BY DEF Twice, SeenKeys
  <2>3. Scanned \in Nat /\ Cardinality(SeenKeys) \in Nat
    BY <1>1, ScanFacts, Finite
  <2>4. QED
    BY <2>1, <2>2, <2>3, Finite
<1> HIDE DEF K, k
<1>8. Cardinality(In(g, alive)) <= Sum(seen, K) /\ Sum(seen, K) <= Cardinality(In(g, begun)) + Twice
  BY <1>4, <1>5, <1>6, <1>7
<1>9. g \in DOMAIN listed => In(g, begun) # {}
  BY <1>1, <1>2, SeenGroup
<1>10. QED
  BY <1>3, <1>8, <1>9 DEF K

LEMMA AddShares ==
  ASSUME NEW a \in Nat, NEW b \in Nat, NEW c \in Nat, NEW e \in Nat, NEW d \in Nat, NEW s \in Nat,
         a * s <= c * d, b * s <= e * d
  PROVE  (a + b) * s <= (c + e) * d
<1>1. (a + b) * s = a * s + b * s /\ (c + e) * d = c * d + e * d
  OBVIOUS
<1>2. a * s \in Nat /\ b * s \in Nat /\ c * d \in Nat /\ e * d \in Nat
  OBVIOUS
<1>3. QED
  BY <1>1, <1>2

LEMMA WholeShare ==
  ASSUME NEW a \in Nat, NEW m \in Nat, NEW d \in Nat, NEW s \in Nat, s > 0, m <= s,
         a * s <= m * d
  PROVE  a <= d
<1> SUFFICES ASSUME a > d PROVE FALSE
  OBVIOUS
<1>1. m * d <= s * d
  <2>1. PICK r \in Nat : s = m + r
    <3>1. s - m \in Nat /\ s = m + (s - m)
      OBVIOUS
    <3>2. QED
      BY <3>1
  <2>2. s * d = m * d + r * d /\ r * d \in Nat /\ m * d \in Nat
    BY <2>1
  <2>3. QED
    BY <2>2
<1>2. PICK q \in Nat : a = d + q /\ q > 0
  <2>1. a - d \in Nat /\ a = d + (a - d) /\ a - d > 0
    OBVIOUS
  <2>2. QED
    BY <2>1
<1>3. a * s = s * d + q * s /\ q * s > 0 /\ s * d \in Nat /\ q * s \in Nat
  BY <1>2
<1>4. QED
  BY <1>1, <1>3

(* The groups listed and their keys.                                       *)
KeysIn(T) == {k \in Keys : GroupOf[k] \in T}

LEMMA Estimate == IndInv => EstimateAddsUp
<1> SUFFICES ASSUME IndInv, Listing, more
             PROVE  /\ SumFunctionOnSet(listed, DOMAIN listed) <= dbSize
                    /\ \A g \in DOMAIN listed : In(g, begun) # {}
  BY DEF EstimateAddsUp
<1>1. /\ TypeOK /\ seen \in [Keys -> Nat] /\ dbSize \in Nat /\ IsFiniteSet(Keys)
      /\ DOMAIN listed = Seen /\ listed \in [Seen -> Nat]
      /\ \A g \in Seen : listed[g] * Scanned <= GroupCount(g) * dbSize
      /\ Scanned \in Nat
  BY ScanFacts, KeyspaceAssumption DEF IndInv, Listed, TypeOK
<1>2. SeenKeys \subseteq begun
  BY DEF IndInv, Walked, Ran, Wanted, Listing
<1>3. IsFiniteSet(Seen)
  <2> DEFINE f == [k \in Keys |-> GroupOf[k]]
  <2>1. f \in Surjection(Keys, Groups)
    BY DEF Surjection, Groups
  <2>2. IsFiniteSet(Groups)
    BY <1>1, <2>1, FS_Surjection
  <2>3. Seen \in SUBSET Groups
    BY DEF Seen
  <2>4. QED
    BY <2>2, <2>3, FS_Subset
<1> DEFINE C == {T \in SUBSET Seen : Sum(listed, T) * Scanned <= Sum(seen, KeysIn(T)) * dbSize}
<1>4. {} \in C
  <2>1. Sum(listed, {}) = 0 /\ KeysIn({}) = {} /\ Sum(seen, {}) = 0
    BY <1>1, <1>3, SumFacts DEF KeysIn
  <2>2. Sum(seen, KeysIn({})) = 0
    BY <2>1, Zenon
  <2>3. 0 * Scanned <= 0 * dbSize
    BY <1>1
  <2>4. Sum(listed, {}) * Scanned <= Sum(seen, KeysIn({})) * dbSize
    BY <2>1, <2>2, <2>3
  <2>5. QED
    BY <2>4
<1>5. ASSUME NEW T \in SUBSET Seen, NEW g \in Seen, T \in C, g \notin T
      PROVE  T \cup {g} \in C
  <2> DEFINE a == listed[g]
             b == Sum(listed, T)
             c == Sum(seen, KeysOf(g))
             e == Sum(seen, KeysIn(T))
  <2>1. Sum(listed, T \cup {g}) = a + b /\ a \in Nat /\ b \in Nat
    BY <1>1, <1>3, <1>5, SumFacts
  <2>2. Sum(seen, KeysIn(T \cup {g})) = c + e /\ c \in Nat /\ e \in Nat
    <3> DEFINE A == KeysOf(g)
               B == KeysIn(T)
    <3>1. /\ A \in SUBSET Keys /\ B \in SUBSET Keys /\ A \cap B = {}
          /\ KeysIn(T \cup {g}) = A \cup B
      BY <1>5 DEF KeysOf, KeysIn
    <3> HIDE DEF A, B
    <3>2. Sum(seen, A \cup B) = Sum(seen, A) + Sum(seen, B)
      BY <1>1, <3>1, SumSplit
    <3>3. Sum(seen, A) \in Nat /\ Sum(seen, B) \in Nat
      BY <1>1, <3>1, SumFacts
    <3>4. QED
      BY <3>1, <3>2, <3>3 DEF A, B
  <2>3. a * Scanned <= c * dbSize
    BY <1>1, GroupFacts
  <2>4. b * Scanned <= e * dbSize
    BY <1>5
  <2> HIDE DEF a, b, c, e
  <2>5. (a + b) * Scanned <= (c + e) * dbSize
    BY <1>1, <2>1, <2>2, <2>3, <2>4, AddShares
  <2>6. QED
    BY <1>5, <2>1, <2>2, <2>5
<1>6. Seen \in C
  <2> HIDE DEF C
  <2>1. QED
    BY <1>3, <1>4, <1>5, SetInduction
<1>7. Sum(listed, Seen) <= dbSize
  <2>1. Sum(listed, Seen) \in Nat /\ Sum(listed, {}) = 0
    BY <1>1, <1>3, SumFacts
  <2>2. CASE Scanned > 0
    <3> DEFINE m == Sum(seen, KeysIn(Seen))
    <3>1. KeysIn(Seen) \in SUBSET Keys /\ Keys \in SUBSET Keys
      BY DEF KeysIn
    <3>2. m \in Nat /\ m <= Sum(seen, Keys)
      BY <1>1, <3>1, SumFacts, SumMonotone
    <3>3. Sum(seen, Keys) = Scanned
      BY <1>1, ScanFacts
    <3>4. Sum(listed, Seen) * Scanned <= m * dbSize
      BY <1>6
    <3> HIDE DEF m
    <3>5. QED
      BY <1>1, <2>1, <2>2, <3>2, <3>3, <3>4, WholeShare
  <2>3. CASE Scanned = 0
    <3>1. Seen = {}
      BY <1>1, <2>3, GroupFacts DEF Seen
    <3>2. Sum(listed, Seen) = 0
      BY <2>1, <3>1
    <3>3. QED
      BY <1>1, <3>2
  <2>4. QED
    BY <1>1, <2>2, <2>3
<1>8. \A g \in DOMAIN listed : In(g, begun) # {}
  BY <1>1, <1>2, SeenGroup
<1>9. QED
  BY <1>1, <1>7, <1>8 DEF Sum

LEMMA HealthSums == IndInv => HealthAddsUp
<1> SUFFICES ASSUME IndInv, step = "idle", op = "health", begun # {}
             PROVE  /\ withTTL <= typed
                    /\ typed <= Scanned /\ Scanned <= dbSize + Twice
                    /\ ~more => Cardinality(alive) <= typed
  BY DEF HealthAddsUp
<1>1. /\ alive \in SUBSET Keys /\ SeenKeys \in SUBSET Keys /\ seen \in [Keys -> Nat]
      /\ typed \in Nat /\ dbSize \in Nat /\ Scanned \in Nat
  BY ScanFacts DEF IndInv, TypeOK
<1>2. Ran
  BY DEF Ran
<1>3. /\ batch = {} /\ withTTL <= typed /\ typed + Cardinality(batch) <= Scanned
      /\ Cardinality((alive \cap SeenKeys) \ batch) <= typed
  BY DEF IndInv, Counted
<1>4. typed <= Scanned
  <2>1. Cardinality({}) = 0
    BY FS_EmptySet
  <2>2. QED
    BY <1>1, <1>3, <2>1
<1>5. Scanned <= dbSize + Twice
  <2>1. Cardinality(alive \cup SeenKeys) <= dbSize
    BY <1>2 DEF IndInv, Sized
  <2> DEFINE U == alive \cup SeenKeys
  <2>2. U \in SUBSET Keys /\ SeenKeys \in SUBSET U
    BY <1>1
  <2>3. Cardinality(U) <= dbSize
    BY <2>1
  <2> HIDE DEF U
  <2>4. Cardinality(SeenKeys) <= Cardinality(U) /\ Cardinality(U) \in Nat /\ Cardinality(SeenKeys) \in Nat
    BY <1>1, <2>2, Fewer, Finite
  <2>5. Twice = Scanned - Cardinality(SeenKeys)
    BY DEF Twice, SeenKeys
  <2>6. QED
    BY <1>1, <2>3, <2>4, <2>5
<1>6. ASSUME ~more PROVE Cardinality(alive) <= typed
  <2>1. alive \subseteq SeenKeys
    BY <1>2, <1>6 DEF IndInv, Walked, Wanted
  <2>2. (alive \cap SeenKeys) \ batch = alive
    BY <1>3, <2>1
  <2>3. QED
    BY <1>3, <2>2
<1>7. QED
  BY <1>3, <1>4, <1>5, <1>6

(* Keys from j up are fewer rows than keys from k up, if k is below and    *)
(* was seen.                                                               *)
LEMMA PlaceFacts ==
  ASSUME seen \in [Keys -> Nat], NEW k \in Keys, Kept(k), seen[k] > 0
  PROVE  /\ Place(k) \in Nat /\ 1 <= Place(k) /\ Place(k) <= Gathered
         /\ \A j \in Keys : k < j => Place(j) < Place(k)
<1> DEFINE Up(i) == {j \in Keys : Kept(j) /\ j >= i}
           KS == {j \in Keys : Kept(j)}
<1>1. /\ IsFiniteSet(Keys) /\ k \in Nat /\ seen[k] \in Nat
      /\ \A j \in Keys : Up(j) \in SUBSET Keys /\ Place(j) = Sum(seen, Up(j)) /\ Place(j) \in Nat
  <2>1. IsFiniteSet(Keys) /\ k \in Nat
    BY KeyspaceAssumption
  <2>2. ASSUME NEW j \in Keys
        PROVE  Up(j) \in SUBSET Keys /\ Place(j) = Sum(seen, Up(j)) /\ Place(j) \in Nat
    <3>1. Up(j) \in SUBSET Keys /\ Place(j) = Sum(seen, Up(j))
      BY DEF Place, Sum
    <3> DEFINE U == Up(j)
    <3>2. U \in SUBSET Keys /\ Place(j) = Sum(seen, U)
      BY <3>1
    <3> HIDE DEF U
    <3>3. Sum(seen, U) \in Nat
      BY <2>1, <3>2, SumFacts
    <3>4. Place(j) \in Nat
      BY <3>2, <3>3
    <3>5. QED
      BY <3>1, <3>4
  <2>3. QED
    BY <2>1, <2>2
<1>2. k \in Up(k)
  BY <1>1
<1>3. Sum(seen, Up(k)) = seen[k] + Sum(seen, Up(k) \ {k}) /\ seen[k] <= Sum(seen, Up(k))
  <2>1. Up(k) \in SUBSET Keys
    BY <1>1
  <2> HIDE DEF Up
  <2>2. QED
    BY <1>1, <1>2, <2>1, SumTerm
<1>4. Gathered = Sum(seen, KS) /\ Gathered \in Nat
  BY SampleFacts DEF Gathered, Sum
<1>5. Sum(seen, Up(k)) <= Sum(seen, KS)
  <2>1. KS \in SUBSET Keys /\ Up(k) \in SUBSET KS
    OBVIOUS
  <2> HIDE DEF KS, Up
  <2>2. QED
    BY <1>1, <2>1, SumMonotone
<1>6. ASSUME NEW j \in Keys, k < j
      PROVE  Place(j) < Place(k)
  <2>1. Up(k) \ {k} \in SUBSET Keys /\ Up(j) \in SUBSET (Up(k) \ {k})
    <3>1. ASSUME NEW i \in Up(j) PROVE i \in Up(k) /\ i # k
      <4>1. i \in Nat /\ j \in Nat /\ i \in Keys /\ Kept(i) /\ i >= j
        BY KeyspaceAssumption
      <4>2. QED
        BY <1>1, <1>6, <4>1
    <3>2. QED
      BY <3>1
  <2> DEFINE B == Up(k) \ {k}
             A == Up(j)
  <2>2. B \in SUBSET Keys /\ A \in SUBSET B /\ A \in SUBSET Keys
    BY <2>1
  <2>3. Place(j) = Sum(seen, A) /\ Place(k) = seen[k] + Sum(seen, B)
    BY <1>1, <1>3
  <2> HIDE DEF A, B, Up
  <2>4. Sum(seen, A) <= Sum(seen, B) /\ Sum(seen, A) \in Nat /\ Sum(seen, B) \in Nat
    BY <1>1, <2>2, SumMonotone, SumFacts
  <2>5. QED
    BY <1>1, <2>3, <2>4
<1> HIDE DEF Up, KS
<1>7. QED
  BY <1>1, <1>3, <1>4, <1>5, <1>6

(* A plain pattern and the filter for separators leave the group's keys.   *)
LEMMA MatchFacts ==
  ASSUME group \in Groups \cup {NoPrefix}, Plain(group), NEW k \in Keys
  PROVE  Matches(k) /\ Kept(k) <=> GroupOf[k] = group /\ (group = NoPrefix => k \notin Separated)
<1>1. k \notin Separated => GroupOf[k] = NoPrefix
  BY KeyspaceAssumption
<1>2. CASE group = NoPrefix
  BY <1>1, <1>2 DEF Matches, Kept
<1>3. CASE group # NoPrefix
  <2>1. Glob[group] = {group}
    BY <1>3 DEF Plain
  <2>2. QED
    BY <1>1, <1>3, <2>1 DEF Matches, Kept
<1>4. QED
  BY <1>2, <1>3

LEMMA TopOfGroup == IndInv => SampleIsTheTop
<1> SUFFICES ASSUME IndInv, step = "idle", op = "recent", Plain(group)
             PROVE  /\ \A x \in DOMAIN rows : rows[x] \in Members(begun)
                    /\ \A x, y \in DOMAIN rows : x < y => rows[x] >= rows[y]
                    /\ ~more => \A k \in Members(alive) \ {rows[x] : x \in DOMAIN rows} :
                                  Len(rows) = RecentLimit /\ \A x \in DOMAIN rows : rows[x] > k
  BY DEF SampleIsTheTop
<1>1. /\ seen \in [Keys -> Nat] /\ group \in Groups \cup {NoPrefix}
      /\ alive \subseteq Keys /\ begun \subseteq Keys
  BY DEF IndInv, TypeOK
<1>2. /\ SeenKeys \subseteq {k \in begun : Matches(k)}
      /\ ~more => {k \in alive : Matches(k)} \subseteq SeenKeys
  BY DEF IndInv, Walked, Ran, Wanted
<1>3. /\ Gathered \in Nat /\ SampleSize \in Nat /\ rows = Sample
      /\ DOMAIN rows = 1 .. SampleSize /\ Len(rows) = SampleSize
      /\ SampleSize <= Gathered
      /\ \A x \in 1 .. SampleSize : RowIs(x, rows[x])
  <2>1. rows = Sample
    BY DEF IndInv, Sampled
  <2>2. /\ Gathered \in Nat /\ SampleSize \in Nat /\ rows \in Seq(Keys) /\ Len(rows) = SampleSize
        /\ SampleSize <= Gathered
        /\ \A x \in 1 .. SampleSize : RowIs(x, rows[x])
    BY <1>1, <2>1, SampleFacts
  <2>3. QED
    BY <2>1, <2>2
<1>4. \A x \in 1 .. SampleSize : /\ rows[x] \in Keys /\ rows[x] \in Nat
                                 /\ Kept(rows[x]) /\ seen[rows[x]] > 0
                                 /\ Place(rows[x]) \in Nat /\ x <= Place(rows[x])
  BY <1>1, <1>3, PlaceFacts, KeyspaceAssumption DEF RowIs
<1>5. ASSUME NEW x \in 1 .. SampleSize PROVE rows[x] \in Members(begun)
  <2>1. rows[x] \in SeenKeys /\ rows[x] \in Keys /\ Kept(rows[x])
    BY <1>4 DEF SeenKeys
  <2>2. rows[x] \in begun /\ Matches(rows[x])
    BY <1>2, <2>1
  <2>3. QED
    BY <1>1, <2>1, <2>2, MatchFacts DEF Members
<1>6. ASSUME NEW x \in 1 .. SampleSize, NEW y \in 1 .. SampleSize, x < y
      PROVE  rows[x] >= rows[y]
  <2>1. x <= Place(rows[y])
    BY <1>3, <1>4, <1>6
  <2>2. rows[y] <= rows[x]
    BY <1>3, <1>4, <2>1 DEF RowIs
  <2>3. QED
    BY <1>4, <2>2
<1>7. ASSUME ~more, NEW k \in Members(alive), \A x \in 1 .. SampleSize : k # rows[x]
      PROVE  Len(rows) = RecentLimit /\ \A x \in 1 .. SampleSize : rows[x] > k
  <2>1. k \in Keys /\ k \in Nat /\ Kept(k) /\ Matches(k)
    BY <1>1, <1>7, MatchFacts, KeyspaceAssumption DEF Members
  <2>2. seen[k] > 0
    BY <1>2, <1>7, <2>1 DEF Members, SeenKeys
  <2>3. /\ Place(k) \in Nat /\ 1 <= Place(k) /\ Place(k) <= Gathered
        /\ \A j \in Keys : k < j => Place(j) < Place(k)
    BY <1>1, <2>1, <2>2, PlaceFacts
  <2>4. ASSUME NEW x \in 1 .. SampleSize, x <= Place(k)
        PROVE  rows[x] > k
    <3>1. k <= rows[x]
      BY <1>3, <2>1, <2>2, <2>4 DEF RowIs
    <3>2. QED
      BY <1>4, <1>7, <2>1, <3>1
  <2>5. ~(Place(k) <= SampleSize)
    <3> SUFFICES ASSUME Place(k) <= SampleSize PROVE FALSE
      OBVIOUS
    <3>1. Place(k) \in 1 .. SampleSize
      BY <1>3, <2>3
    <3>2. PICK x \in 1 .. SampleSize : x = Place(k)
      BY <3>1
    <3>3. rows[x] > k /\ x <= Place(rows[x]) /\ rows[x] \in Keys /\ rows[x] \in Nat
      BY <1>4, <2>3, <2>4, <3>2
    <3>4. Place(rows[x]) < Place(k)
      BY <2>1, <2>3, <3>3
    <3>5. QED
      BY <1>4, <2>3, <3>2, <3>3, <3>4
  <2>6. Len(rows) = RecentLimit
    <3>1. SampleSize < Gathered
      BY <1>3, <2>3, <2>5
    <3>2. QED
      BY <1>3, <3>1 DEF SampleSize
  <2>7. \A x \in 1 .. SampleSize : x <= Place(k)
    BY <1>3, <2>3, <2>5
  <2>8. QED
    BY <2>4, <2>6, <2>7
<1>8. QED
  BY <1>3, <1>5, <1>6, <1>7

LEMMA GroupShows == IndInv => GroupIsNotEmpty
<1> SUFFICES ASSUME IndInv, step = "idle", op = "recent", Plain(group), group # NoPrefix,
                    Members(alive) # {}
             PROVE  rows # <<>>
  BY DEF GroupIsNotEmpty
<1>1. /\ seen \in [Keys -> Nat] /\ group \in Groups \cup {NoPrefix} /\ alive \subseteq Keys
      /\ IsFiniteSet(Keys) /\ GatherCap \in Nat /\ GatherCap > 0
      /\ RecentLimit \in Nat /\ RecentLimit > 0
  BY KeyspaceAssumption DEF IndInv, TypeOK
<1>2. Gathered = Scanned /\ Scanned \in Nat
  <2>1. {j \in Keys : Kept(j)} = Keys
    BY DEF Kept
  <2>2. QED
    BY <1>1, <2>1, ScanFacts DEF Gathered, Scanned
<1>3. Scanned > 0
  <2>1. CASE ~more
    <3>1. PICK k \in alive : GroupOf[k] = group
      BY DEF Members
    <3>2. Matches(k) /\ k \in Keys
      BY <1>1, <3>1, MatchFacts
    <3>3. k \in SeenKeys
      BY <2>1, <3>1, <3>2 DEF IndInv, Walked, Ran, Wanted
    <3>4. seen[k] \in Nat /\ seen[k] > 0
      BY <1>1, <3>2, <3>3 DEF SeenKeys
    <3>5. seen[k] <= Sum(seen, Keys)
      BY <1>1, <3>2, SumTerm
    <3>6. QED
      BY <1>1, <1>2, <3>4, <3>5, ScanFacts
  <2>2. CASE Scanned >= GatherCap
    BY <1>1, <1>2, <2>2
  <2>3. QED
    BY <2>1, <2>2 DEF IndInv, Sampled
<1>4. Len(rows) = SampleSize /\ SampleSize > 0
  <2>1. Len(rows) = SampleSize
    BY <1>1, SampleFacts DEF IndInv, Sampled
  <2>2. QED
    BY <1>1, <1>2, <1>3, <2>1 DEF SampleSize
<1>5. QED
  BY <1>4

(* redis.go, Collections with a complete SCAN: for any keyspace the count  *)
(* of each group lies between the keys it still has and those it had at    *)
(* the start, but for the keys SCAN repeats; no group with a key is        *)
(* missing and none without is there.                                      *)
THEOREM ExactCounts == Spec => []ExactIsBetween
<1>1. QED
  BY InvHolds, Exact, PTL

(* redis.go, Collections cut short at its limit: the extrapolated counts   *)
(* never add up to more than DBSIZE, whatever rounding the division does.  *)
THEOREM EstimateFits == Spec => []EstimateAddsUp
<1>1. QED
  BY InvHolds, Estimate, PTL

(* redis.go, Health: keys with a TTL, keys by type, keys scanned and       *)
(* DBSIZE are in order, and a complete scan counted every key still there. *)
THEOREM HealthFits == Spec => []HealthAddsUp
<1>1. QED
  BY InvHolds, HealthSums, PTL

(* redis.go, Recent: the rows are the greatest keys of the group, in       *)
(* order, and a key is missing only when the limit is reached by greater   *)
(* ones or the cap ended the scan.                                         *)
THEOREM SampleIsTop == Spec => []SampleIsTheTop
<1>1. QED
  BY InvHolds, TopOfGroup, PTL

(* redis.go, Recent: however SCAN cuts its answers, empty ones included,   *)
(* a group with a prefix that still has a key shows one.                   *)
THEOREM GroupHasRow == Spec => []GroupIsNotEmpty
<1>1. QED
  BY InvHolds, GroupShows, PTL
=============================================================================
