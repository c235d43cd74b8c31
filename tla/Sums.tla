-------------------------------- MODULE Sums --------------------------------
(***************************************************************************)
(* Sums over finite sets: what the provers need to know of SumFunction and *)
(* SumFunctionOnSet of the module Functions, which add the values of a     *)
(* function up in the order in which CHOOSE takes elements out of the set. *)
(*                                                                         *)
(* Induction is by minimal counterexamples: a set of numbers that fail has *)
(* a least one, a set of finite sets that fail has a smallest one.         *)
(***************************************************************************)
EXTENDS Integers, FiniteSets, Functions, FiniteSetTheorems, WellFoundedInduction, TLAPS

\* A set of numbers has a least element.
LEMMA LeastNumber ==
  ASSUME NEW T, T \subseteq Nat, T # {}
  PROVE  \E n \in T : \A m \in T : n <= m
<1> DEFINE less == {ss \in Nat \X Nat : ss[1] < ss[2]}
<1>1. IsWellFoundedOn(less, Nat)
  BY NatLessThanWellFounded, Zenon DEF OpToRel
<1>2. \A m, n \in Nat : m < n => <<m, n>> \in less
  OBVIOUS
<1> HIDE DEF less
<1>3. PICK n \in T : \A m \in T : <<m, n>> \notin less
  BY <1>1, WFMin
<1>4. \A m \in T : ~ (m < n)
  BY <1>2, <1>3
<1> QED
  BY <1>4

\* Of some subsets of a finite set, one has no other within it.
LEMMA SmallestSubset ==
  ASSUME NEW S, IsFiniteSet(S), NEW C, C \subseteq SUBSET S, C # {}
  PROVE  \E T \in C :
           /\ IsFiniteSet(T)
           /\ \A U \in SUBSET S : U \subseteq T /\ U # T => U \notin C
<1> DEFINE sizes == {Cardinality(T) : T \in C}
<1>1. \A T \in C : IsFiniteSet(T) /\ Cardinality(T) \in Nat
  BY FS_Subset, FS_CardinalityType
<1>2. sizes \subseteq Nat /\ sizes # {}
  BY <1>1
<1>3. PICK n \in sizes : \A m \in sizes : n <= m
  BY <1>2, LeastNumber
<1>4. PICK T \in C : n = Cardinality(T)
  OBVIOUS
<1>5. ASSUME NEW U \in SUBSET S, U \subseteq T, U # T
      PROVE  U \notin C
  <2>1. Cardinality(U) < Cardinality(T)
    BY <1>1, <1>5, FS_Subset, FS_CardinalityType
  <2>2. ~ (Cardinality(T) <= Cardinality(U))
    BY <1>1, <1>5, <2>1, FS_Subset, FS_CardinalityType
  <2> QED
    BY <1>3, <1>4, <2>2
<1> QED
  BY <1>1, <1>4, <1>5

-----------------------------------------------------------------------------
(* The fold is recursive: its equation has one solution on a finite set.   *)

Chosen(T) == CHOOSE x \in T : TRUE

\* The equation of the recursion, for the subsets of S.
Adds(g, f, S) ==
  g = [T \in SUBSET S |->
         IF T = {} THEN 0 ELSE f[Chosen(T)] + g[T \ {Chosen(T)}]]

AdderOf(f, S) == CHOOSE g : Adds(g, f, S)

LEMMA SumIsAdder ==
  ASSUME NEW f, NEW S
  PROVE  SumFunctionOnSet(f, S) = AdderOf(f, S)[S]
BY DEF SumFunctionOnSet, FoldFunctionOnSet, MapThenFoldSet, AdderOf, Adds, Chosen

LEMMA ChosenIn == ASSUME NEW T, T # {} PROVE Chosen(T) \in T
BY DEF Chosen

LEMMA AddsAt ==
  ASSUME NEW g, NEW f, NEW S, Adds(g, f, S), NEW T, T \subseteq S
  PROVE  g[T] = IF T = {} THEN 0 ELSE f[Chosen(T)] + g[T \ {Chosen(T)}]
<1>1. T \in SUBSET S
  OBVIOUS
<1> QED
  BY <1>1 DEF Adds

LEMMA AddsUnique ==
  ASSUME NEW f, NEW S, IsFiniteSet(S), NEW g, NEW h, Adds(g, f, S), Adds(h, f, S)
  PROVE  g = h
<1> DEFINE differ == {T \in SUBSET S : g[T] # h[T]}
<1>1. ASSUME differ # {} PROVE FALSE
  <2>1. PICK T \in differ : \A U \in SUBSET S : U \subseteq T /\ U # T => U \notin differ
    <3>1. differ \subseteq SUBSET S
      OBVIOUS
    <3> HIDE DEF differ
    <3> QED
      BY <1>1, <3>1, SmallestSubset
  <2>2. T # {}
    BY <2>1, AddsAt
  <2> DEFINE U == T \ {Chosen(T)}
  <2>3. U \in SUBSET S /\ U \subseteq T /\ U # T
    BY <2>2, ChosenIn
  <2>4. g[U] = h[U]
    BY <2>1, <2>3
  <2> QED
    BY <2>1, <2>2, <2>4, AddsAt
<1>2. \A T \in SUBSET S : g[T] = h[T]
  BY <1>1
<1>3. /\ g = [T \in SUBSET S |-> g[T]]
      /\ h = [T \in SUBSET S |-> h[T]]
  BY DEF Adds
<1> QED
  BY <1>2, <1>3

LEMMA AddsBelow ==
  ASSUME NEW f, NEW S, NEW g, Adds(g, f, S), NEW U, U \subseteq S
  PROVE  Adds([T \in SUBSET U |-> g[T]], f, U)
<1> DEFINE h == [T \in SUBSET U |-> g[T]]
<1>1. ASSUME NEW T \in SUBSET U
      PROVE  g[T] = IF T = {} THEN 0 ELSE f[Chosen(T)] + h[T \ {Chosen(T)}]
  <2>1. T \subseteq S /\ T \ {Chosen(T)} \in SUBSET U
    OBVIOUS
  <2> QED
    BY <2>1, AddsAt
<1>2. h = [T \in SUBSET U |->
             IF T = {} THEN 0 ELSE f[Chosen(T)] + h[T \ {Chosen(T)}]]
  BY <1>1
<1> QED
  BY <1>2 DEF Adds

LEMMA AdderExists ==
  ASSUME NEW f, NEW S, IsFiniteSet(S)
  PROVE  Adds(AdderOf(f, S), f, S)
<1> DEFINE without == {T \in SUBSET S : ~ \E g : Adds(g, f, T)}
<1>1. ASSUME without # {} PROVE FALSE
  <2>1. PICK T \in without : \A U \in SUBSET S : U \subseteq T /\ U # T => U \notin without
    <3>1. without \subseteq SUBSET S
      OBVIOUS
    <3> HIDE DEF without
    <3> QED
      BY <1>1, <3>1, SmallestSubset
  <2>a. T \in SUBSET S /\ IsFiniteSet(T)
    BY <2>1, FS_Subset
  <2>2. ASSUME NEW U, U \subseteq T, U # T
        PROVE  Adds(AdderOf(f, U), f, U) /\ IsFiniteSet(U)
    <3>1. \E g : Adds(g, f, U)
      BY <2>1, <2>2
    <3> QED
      BY <2>2, <2>a, <3>1, FS_Subset DEF AdderOf
  <2> DEFINE below(U) == AdderOf(f, U)[U]
             h == [U \in SUBSET T |->
                     IF U = {} THEN 0 ELSE f[Chosen(U)] + below(U \ {Chosen(U)})]
  <2>3. ASSUME NEW U, U \subseteq T, U # T
        PROVE  h[U] = below(U)
    <3>1. CASE U = {}
      BY <2>2, <2>3, <3>1, AddsAt
    <3>2. CASE U # {}
      <4> DEFINE V == U \ {Chosen(U)}
                 r == [W \in SUBSET V |-> AdderOf(f, U)[W]]
      <4>1. V \subseteq T /\ V # T /\ V \subseteq U
        BY <2>3
      <4>2. Adds(r, f, V)
        BY <2>2, <2>3, <4>1, AddsBelow
      <4>3. r = AdderOf(f, V)
        BY <2>2, <4>1, <4>2, AddsUnique
      <4>4. AdderOf(f, U)[V] = r[V]
        OBVIOUS
      <4>5. AdderOf(f, U)[U] = f[Chosen(U)] + AdderOf(f, U)[V]
        BY <2>2, <2>3, <3>2, AddsAt
      <4>6. h[U] = f[Chosen(U)] + below(V)
        BY <2>3, <3>2
      <4> QED
        BY <4>3, <4>4, <4>5, <4>6
    <3> QED
      BY <3>1, <3>2
  <2>4. ASSUME NEW U \in SUBSET T
        PROVE  h[U] = IF U = {} THEN 0 ELSE f[Chosen(U)] + h[U \ {Chosen(U)}]
    <3>1. CASE U = {}
      BY <3>1
    <3>2. CASE U # {}
      <4> DEFINE V == U \ {Chosen(U)}
      <4>1. V \subseteq T /\ V # T
        BY <3>2, ChosenIn
      <4>2. h[V] = below(V)
        BY <2>3, <4>1
      <4>3. h[U] = f[Chosen(U)] + below(V)
        BY <3>2
      <4> HIDE DEF h, below
      <4> QED
        BY <3>2, <4>2, <4>3
    <3> QED
      BY <3>1, <3>2
  <2>5. h = [U \in SUBSET T |-> h[U]]
    OBVIOUS
  <2> HIDE DEF h
  <2>6. Adds(h, f, T)
    BY <2>4, <2>5 DEF Adds
  <2> QED
    BY <2>1, <2>6
<1>2. \E g : Adds(g, f, S)
  BY <1>1
<1> QED
  BY <1>2 DEF AdderOf

-----------------------------------------------------------------------------
(* The sum over a set: of nothing, of naturals, with and without an        *)
(* element, of functions that agree or differ at one element.              *)

LEMMA SumEmpty == ASSUME NEW f PROVE SumFunctionOnSet(f, {}) = 0
<1>1. Adds(AdderOf(f, {}), f, {})
  BY AdderExists, FS_EmptySet
<1> QED
  BY <1>1, AddsAt, SumIsAdder

LEMMA SumChosen ==
  ASSUME NEW f, NEW S, IsFiniteSet(S), S # {}
  PROVE  SumFunctionOnSet(f, S)
           = f[Chosen(S)] + SumFunctionOnSet(f, S \ {Chosen(S)})
<1> DEFINE U == S \ {Chosen(S)}
           g == AdderOf(f, S)
           r == [T \in SUBSET U |-> g[T]]
<1>1. Adds(g, f, S) /\ IsFiniteSet(U) /\ U \subseteq S
  BY AdderExists, FS_Subset
<1>2. Adds(r, f, U) /\ Adds(AdderOf(f, U), f, U)
  BY <1>1, AddsBelow, AdderExists
<1>3. r = AdderOf(f, U)
  BY <1>1, <1>2, AddsUnique
<1>4. g[U] = r[U]
  OBVIOUS
<1>5. g[S] = f[Chosen(S)] + g[U]
  BY <1>1, AddsAt
<1> QED
  BY <1>3, <1>4, <1>5, SumIsAdder
LEMMA SumType ==
  ASSUME NEW f, NEW S, IsFiniteSet(S), \A x \in S : f[x] \in Nat
  PROVE  SumFunctionOnSet(f, S) \in Nat
<1> DEFINE bad == {T \in SUBSET S : SumFunctionOnSet(f, T) \notin Nat}
<1>1. ASSUME bad # {} PROVE FALSE
  <2>1. bad \subseteq SUBSET S
    OBVIOUS
  <2>2. PICK T \in bad : /\ IsFiniteSet(T)
                         /\ \A U \in SUBSET S : U \subseteq T /\ U # T => U \notin bad
    <3> HIDE DEF bad
    <3> QED
      BY <1>1, <2>1, SmallestSubset
  <2>3. T # {}
    <3>1. SumFunctionOnSet(f, {}) \in Nat
      BY SumEmpty
    <3> QED
      BY <2>2, <3>1
  <2> DEFINE U == T \ {Chosen(T)}
  <2>4. U \in SUBSET S /\ U \subseteq T /\ U # T
    BY <2>3, ChosenIn
  <2>5. SumFunctionOnSet(f, U) \in Nat
    BY <2>2, <2>4
  <2>6. f[Chosen(T)] \in Nat
    BY <2>1, <2>3, ChosenIn
  <2>7. SumFunctionOnSet(f, T) = f[Chosen(T)] + SumFunctionOnSet(f, U)
    BY <2>2, <2>3, SumChosen
  <2> QED
    BY <2>5, <2>6, <2>7
<1> QED
  BY <1>1

\* Any element can be taken out.
LEMMA SumWithout ==
  ASSUME NEW f, NEW S, IsFiniteSet(S), \A x \in S : f[x] \in Nat, NEW y \in S
  PROVE  SumFunctionOnSet(f, S) = f[y] + SumFunctionOnSet(f, S \ {y})
<1> DEFINE bad == {T \in SUBSET S : \E z \in T :
                     SumFunctionOnSet(f, T) # f[z] + SumFunctionOnSet(f, T \ {z})}
<1>0. \A T \in SUBSET S : IsFiniteSet(T) /\ SumFunctionOnSet(f, T) \in Nat
  BY FS_Subset, SumType
<1>1. ASSUME bad # {} PROVE FALSE
  <2>1. bad \subseteq SUBSET S
    OBVIOUS
  <2>2. PICK T \in bad : \A U \in SUBSET S : U \subseteq T /\ U # T => U \notin bad
    <3> HIDE DEF bad
    <3> QED
      BY <1>1, <2>1, SmallestSubset
  <2>3. PICK z \in T : SumFunctionOnSet(f, T) # f[z] + SumFunctionOnSet(f, T \ {z})
    OBVIOUS
  <2> DEFINE c == Chosen(T)
             sum(U) == SumFunctionOnSet(f, U)
  <2>4. c \in T /\ T \subseteq S
    BY <2>1, <2>3, ChosenIn
  <2>5. sum(T) = f[c] + sum(T \ {c})
    BY <1>0, <2>3, <2>4, SumChosen
  <2>6. z # c
    BY <2>3, <2>5
  <2>7. T \ {c} \notin bad /\ T \ {z} \notin bad
    BY <2>2, <2>3, <2>4
  <2>8. sum(T \ {c}) = f[z] + sum((T \ {c}) \ {z})
    BY <2>3, <2>4, <2>6, <2>7
  <2>9. sum(T \ {z}) = f[c] + sum((T \ {z}) \ {c})
    BY <2>3, <2>4, <2>6, <2>7
  <2>10. (T \ {c}) \ {z} = (T \ {z}) \ {c}
    OBVIOUS
  <2>11. sum((T \ {c}) \ {z}) \in Nat /\ f[c] \in Nat /\ f[z] \in Nat
    BY <1>0, <2>3, <2>4
  <2> QED
    <3> HIDE DEF sum, c, bad
    <3>1. sum(T) = f[c] + (f[z] + sum((T \ {c}) \ {z}))
      BY <2>5, <2>8
    <3>2. f[z] + sum(T \ {z}) = f[z] + (f[c] + sum((T \ {c}) \ {z}))
      BY <2>9, <2>10
    <3>3. sum(T) # f[z] + sum(T \ {z})
      BY <2>3 DEF sum
    <3> QED
      BY <2>11, <3>1, <3>2, <3>3
<1> QED
  BY <1>1

LEMMA SumWith ==
  ASSUME NEW f, NEW S, IsFiniteSet(S), NEW y, y \notin S,
         \A x \in S \cup {y} : f[x] \in Nat
  PROVE  SumFunctionOnSet(f, S \cup {y}) = f[y] + SumFunctionOnSet(f, S)
<1>1. IsFiniteSet(S \cup {y}) /\ (S \cup {y}) \ {y} = S
  BY FS_AddElement
<1> QED
  BY <1>1, SumWithout

LEMMA SumSame ==
  ASSUME NEW S, IsFiniteSet(S), NEW f, NEW g, \A x \in S : f[x] = g[x]
  PROVE  SumFunctionOnSet(f, S) = SumFunctionOnSet(g, S)
<1> DEFINE bad == {T \in SUBSET S : SumFunctionOnSet(f, T) # SumFunctionOnSet(g, T)}
<1>1. ASSUME bad # {} PROVE FALSE
  <2>1. bad \subseteq SUBSET S
    OBVIOUS
  <2>2. PICK T \in bad : /\ IsFiniteSet(T)
                         /\ \A U \in SUBSET S : U \subseteq T /\ U # T => U \notin bad
    <3> HIDE DEF bad
    <3> QED
      BY <1>1, <2>1, SmallestSubset
  <2>3. T # {}
    BY <2>2, SumEmpty
  <2>4. Chosen(T) \in T
    BY <2>3, ChosenIn
  <2>5. SumFunctionOnSet(f, T \ {Chosen(T)}) = SumFunctionOnSet(g, T \ {Chosen(T)})
    BY <2>1, <2>2, <2>4
  <2>6. f[Chosen(T)] = g[Chosen(T)]
    BY <2>1, <2>4
  <2> QED
    BY <2>2, <2>3, <2>5, <2>6, SumChosen
<1> QED
  BY <1>1

LEMMA SumChanged ==
  ASSUME NEW S, IsFiniteSet(S), NEW f, NEW g, NEW y \in S,
         \A x \in S : f[x] \in Nat /\ g[x] \in Nat,
         \A x \in S \ {y} : f[x] = g[x]
  PROVE  SumFunctionOnSet(g, S) + f[y] = SumFunctionOnSet(f, S) + g[y]
<1>1. IsFiniteSet(S \ {y})
  BY FS_Subset
<1>2. SumFunctionOnSet(f, S \ {y}) = SumFunctionOnSet(g, S \ {y})
  BY <1>1, SumSame
<1>3. SumFunctionOnSet(f, S \ {y}) \in Nat
  BY <1>1, SumType
<1>4. /\ SumFunctionOnSet(f, S) = f[y] + SumFunctionOnSet(f, S \ {y})
      /\ SumFunctionOnSet(g, S) = g[y] + SumFunctionOnSet(g, S \ {y})
  BY SumWithout
<1> QED
  BY <1>2, <1>3, <1>4

LEMMA SumAtMost ==
  ASSUME NEW S, IsFiniteSet(S), NEW T, T \subseteq S, NEW f, \A x \in S : f[x] \in Nat
  PROVE  SumFunctionOnSet(f, T) <= SumFunctionOnSet(f, S)
<1> DEFINE bad == {U \in SUBSET S : T \subseteq U /\ ~ (SumFunctionOnSet(f, T) <= SumFunctionOnSet(f, U))}
<1>0. \A U \in SUBSET S : IsFiniteSet(U) /\ SumFunctionOnSet(f, U) \in Nat
  BY FS_Subset, SumType
<1>1. ASSUME bad # {} PROVE FALSE
  <2>1. bad \subseteq SUBSET S
    OBVIOUS
  <2>2. PICK U \in bad : \A V \in SUBSET S : V \subseteq U /\ V # U => V \notin bad
    <3> HIDE DEF bad
    <3> QED
      BY <1>1, <2>1, SmallestSubset
  <2>3. U # T
    BY <1>0
  <2>4. PICK x \in U : x \notin T
    BY <2>3
  <2>5. SumFunctionOnSet(f, T) <= SumFunctionOnSet(f, U \ {x})
    BY <2>2, <2>4
  <2>6. SumFunctionOnSet(f, U) = f[x] + SumFunctionOnSet(f, U \ {x})
    BY <1>0, SumWithout
  <2>7. f[x] \in Nat /\ U \ {x} \in SUBSET S /\ U \in SUBSET S
    BY <2>1
  <2> QED
    BY <1>0, <2>2, <2>5, <2>6, <2>7
<1> QED
  BY <1>0, <1>1
-----------------------------------------------------------------------------
(* The sum over a function's domain.                                       *)

LEMMA TotalType ==
  ASSUME NEW S, IsFiniteSet(S), NEW f \in [S -> Nat]
  PROVE  SumFunction(f) \in Nat
<1>1. SumFunction(f) = SumFunctionOnSet(f, S)
  BY DEF SumFunction
<1> QED
  BY <1>1, SumType

\* One value grows.
LEMMA TotalGrows ==
  ASSUME NEW S, IsFiniteSet(S), NEW f \in [S -> Nat], NEW g \in [S -> Nat],
         NEW y \in S, NEW d \in Nat, g[y] = f[y] + d, \A x \in S \ {y} : g[x] = f[x]
  PROVE  SumFunction(g) = SumFunction(f) + d
<1>1. SumFunction(g) = SumFunctionOnSet(g, S) /\ SumFunction(f) = SumFunctionOnSet(f, S)
  BY DEF SumFunction
<1>2. SumFunctionOnSet(g, S) + f[y] = SumFunctionOnSet(f, S) + g[y]
  BY SumChanged
<1>3. SumFunctionOnSet(g, S) \in Nat /\ SumFunctionOnSet(f, S) \in Nat /\ f[y] \in Nat
  BY SumType
<1> QED
  BY <1>1, <1>2, <1>3

\* The domain grows.
LEMMA TotalWith ==
  ASSUME NEW S, IsFiniteSet(S), NEW f \in [S -> Nat], NEW y, y \notin S,
         NEW g \in [S \cup {y} -> Nat], \A x \in S : g[x] = f[x]
  PROVE  SumFunction(g) = g[y] + SumFunction(f)
<1>1. SumFunction(g) = SumFunctionOnSet(g, S \cup {y}) /\ SumFunction(f) = SumFunctionOnSet(f, S)
  BY DEF SumFunction
<1>2. SumFunctionOnSet(g, S \cup {y}) = g[y] + SumFunctionOnSet(g, S)
  BY SumWith
<1>3. SumFunctionOnSet(g, S) = SumFunctionOnSet(f, S)
  BY SumSame
<1> QED
  BY <1>1, <1>2, <1>3

LEMMA TotalOfNothing == ASSUME NEW f, DOMAIN f = {} PROVE SumFunction(f) = 0
BY SumEmpty DEF SumFunction

LEMMA TotalOfZeros ==
  ASSUME NEW S, IsFiniteSet(S), NEW f \in [S -> {0}]
  PROVE  SumFunction(f) = 0
<1> DEFINE bad == {T \in SUBSET S : SumFunctionOnSet(f, T) # 0}
<1>1. ASSUME bad # {} PROVE FALSE
  <2>1. bad \subseteq SUBSET S
    OBVIOUS
  <2>2. PICK T \in bad : /\ IsFiniteSet(T)
                         /\ \A U \in SUBSET S : U \subseteq T /\ U # T => U \notin bad
    <3> HIDE DEF bad
    <3> QED
      BY <1>1, <2>1, SmallestSubset
  <2>3. PICK x \in T : TRUE
    BY <2>2, SumEmpty
  <2>4. SumFunctionOnSet(f, T \ {x}) = 0
    BY <2>1, <2>2, <2>3
  <2>5. SumFunctionOnSet(f, T) = f[x] + SumFunctionOnSet(f, T \ {x})
    BY <2>1, <2>2, <2>3, SumWithout
  <2>6. f[x] = 0
    BY <2>1, <2>3
  <2> QED
    BY <2>2, <2>4, <2>5, <2>6
<1>2. SumFunctionOnSet(f, S) = 0
  BY <1>1
<1> QED
  BY <1>2 DEF SumFunction

=============================================================================
