---------------------------- MODULE SumTheorems ----------------------------
(***************************************************************************)
(* Facts about SumFunctionOnSet (module Functions) over finite sets, which *)
(* the proofs about balances rest on.  Induction is over the members of a  *)
(* set T, so no step takes an operator as its parameter: the statement to  *)
(* be shown of every n, or of every finite set, is put into T.             *)
(***************************************************************************)
EXTENDS Integers, FiniteSets, FiniteSetsExt, FiniteSetTheorems, WellFoundedInduction, TLAPS

-----------------------------------------------------------------------------
\* Induction.

NatOrder == {p \in Nat \X Nat : p[1] < p[2]}

\* Induction over the natural numbers.
LEMMA NatsBySteps ==
  ASSUME NEW T, 0 \in T, \A n \in Nat : n \in T => n + 1 \in T
  PROVE  Nat \subseteq T
<1> SUFFICES ASSUME Nat \ T # {} PROVE FALSE
  OBVIOUS
<1>1. IsWellFoundedOn(NatOrder, Nat)
  BY NatLessThanWellFounded DEF OpToRel, NatOrder
<1>2. PICK n \in Nat \ T : \A m \in Nat \ T : <<m, n>> \notin NatOrder
  BY <1>1, WFMin
<1>3. \A m \in Nat \ T : ~ (m < n)
  BY <1>2 DEF NatOrder
<1>4. n # 0 /\ n - 1 \in Nat /\ n - 1 < n /\ (n - 1) + 1 = n
  OBVIOUS
<1>5. n - 1 \in T
  BY <1>3, <1>4
<1> QED
  BY <1>4, <1>5

\* A finite set has one element more than without one of its elements.
LEMMA OneLess ==
  ASSUME NEW A, NEW x \in A, IsFiniteSet(A)
  PROVE  /\ Cardinality(A) \in Nat /\ Cardinality(A \ {x}) \in Nat
         /\ Cardinality(A) = Cardinality(A \ {x}) + 1
<1>1. Cardinality(A) \in Nat /\ Cardinality(A \ {x}) \in Nat
  BY FS_RemoveElement, FS_CardinalityType
<1>2. Cardinality(A \ {x}) = Cardinality(A) - 1
  BY FS_RemoveElement
<1> QED
  BY <1>1, <1>2

\* Induction over the subsets of a finite set.
LEMMA SubsetsBySteps ==
  ASSUME NEW S, IsFiniteSet(S), NEW T, {} \in T,
         \A A \in SUBSET S : \A x \in A : A \ {x} \in T => A \in T
  PROVE  SUBSET S \subseteq T
<1> DEFINE C == {n \in Nat : \A A \in SUBSET S : Cardinality(A) = n => A \in T}
<1>1. \A A \in SUBSET S : IsFiniteSet(A) /\ Cardinality(A) \in Nat
  BY FS_Subset, FS_CardinalityType
<1>2. 0 \in C
  BY <1>1, FS_EmptySet
<1>3. ASSUME NEW n \in Nat, n \in C PROVE n + 1 \in C
  <2> SUFFICES ASSUME NEW A \in SUBSET S, Cardinality(A) = n + 1 PROVE A \in T
    OBVIOUS
  <2>1. Cardinality({}) = 0
    BY FS_EmptySet
  <2>2. PICK x : x \in A
    BY <2>1
  <2>3. Cardinality(A \ {x}) = n /\ A \ {x} \in SUBSET S
    BY <1>1, <2>2, OneLess
  <2>4. A \ {x} \in T
    BY <1>3, <2>3
  <2> QED
    BY <2>2, <2>4
<1> HIDE DEF C
<1>4. Nat \subseteq C
  BY <1>2, <1>3, NatsBySteps
<1> QED
  BY <1>1, <1>4 DEF C

-----------------------------------------------------------------------------
\* The recursive function behind SumFunctionOnSet exists and is unique.

Picked(s) == CHOOSE x \in s : TRUE

SumStep(g, f, s) == IF s = {} THEN 0 ELSE f[Picked(s)] + g[s \ {Picked(s)}]

IsSum(g, f, S) == g = [s \in SUBSET S |-> SumStep(g, f, s)]

\* The library sums by a function on the subsets, which is unfolded here.
LEMMA SumUnfold ==
  ASSUME NEW f, NEW S
  PROVE  SumFunctionOnSet(f, S) = (CHOOSE g : IsSum(g, f, S))[S]
BY DEF SumFunctionOnSet, FoldFunctionOnSet, MapThenFoldSet, IsSum, SumStep, Picked

\* The element chosen first is an element.
LEMMA PickedIn ==
  ASSUME NEW s, s # {}
  PROVE  Picked(s) \in s
BY DEF Picked

\* The function that is right for the sets of at most n elements.
LEMMA SumExists ==
  ASSUME NEW f, NEW S, IsFiniteSet(S)
  PROVE  \E g : IsSum(g, f, S)
<1> DEFINE Right(g, n) == /\ g = [s \in SUBSET S |-> g[s]]
                          /\ \A s \in SUBSET S : Cardinality(s) <= n => g[s] = SumStep(g, f, s)
           T == {n \in Nat : \E g : Right(g, n)}
<1>1. \A s \in SUBSET S : IsFiniteSet(s) /\ Cardinality(s) \in Nat
  BY FS_Subset, FS_CardinalityType
<1>2. 0 \in T
  <2> DEFINE g == [s \in SUBSET S |-> 0]
  <2>1. \A s \in SUBSET S : Cardinality(s) <= 0 => s = {}
    BY <1>1, FS_EmptySet
  <2>2. Right(g, 0)
    BY <2>1 DEF SumStep
  <2> QED
    BY <2>2
<1>3. ASSUME NEW n \in Nat, n \in T PROVE n + 1 \in T
  <2>1. PICK h : Right(h, n)
    BY <1>3
  <2> DEFINE g == [s \in SUBSET S |-> SumStep(h, f, s)]
  <2>2. ASSUME NEW s \in SUBSET S, Cardinality(s) <= n + 1 PROVE g[s] = SumStep(g, f, s)
    <3>1. CASE s = {}
      BY <3>1 DEF SumStep
    <3>2. CASE s # {}
      <4> DEFINE r == s \ {Picked(s)}
      <4>1. r \in SUBSET S /\ Cardinality(r) <= n
        BY <1>1, <2>2, <3>2, PickedIn, OneLess
      <4>2. g[r] = h[r]
        BY <2>1, <4>1
      <4> QED
        BY <3>2, <4>2 DEF SumStep
    <3> QED
      BY <3>1, <3>2
  <2>3. Right(g, n + 1)
    BY <2>2
  <2> HIDE DEF g, Right
  <2> QED
    BY <2>3
<1> HIDE DEF T
<1>4. Cardinality(S) \in T
  BY <1>1, <1>2, <1>3, NatsBySteps
<1>5. PICK g : Right(g, Cardinality(S))
  BY <1>4 DEF T
<1>6. \A s \in SUBSET S : g[s] = SumStep(g, f, s)
  BY <1>1, <1>5, FS_Subset
<1>7. g = [s \in SUBSET S |-> SumStep(g, f, s)]
  BY <1>5, <1>6
<1> QED
  BY <1>7 DEF IsSum

\* Sums over two sets agree on the subsets of both, whatever the functions are
\* elsewhere.
LEMMA SumsAgree ==
  ASSUME NEW f, NEW e, NEW S, NEW U, IsFiniteSet(S), S \subseteq U,
         \A x \in S : f[x] = e[x],
         NEW g, IsSum(g, f, S), NEW h, IsSum(h, e, U)
  PROVE  g[S] = h[S]
<1> DEFINE T == {s \in SUBSET S : g[s] = h[s]}
<1>1. \A s \in SUBSET S : g[s] = SumStep(g, f, s) /\ h[s] = SumStep(h, e, s)
  BY DEF IsSum
<1>2. {} \in T
  BY <1>1 DEF SumStep
<1> DEFINE C == {n \in Nat : \A s \in SUBSET S : Cardinality(s) = n => s \in T}
<1>3. \A s \in SUBSET S : IsFiniteSet(s) /\ Cardinality(s) \in Nat
  BY FS_Subset, FS_CardinalityType
<1>4. 0 \in C
  BY <1>2, <1>3, FS_EmptySet
<1>5. ASSUME NEW n \in Nat, n \in C PROVE n + 1 \in C
  <2> SUFFICES ASSUME NEW s \in SUBSET S, Cardinality(s) = n + 1 PROVE s \in T
    OBVIOUS
  <2>1. Cardinality({}) = 0 /\ s # {}
    BY FS_EmptySet
  <2> DEFINE r == s \ {Picked(s)}
  <2>2. Picked(s) \in s
    BY <2>1, PickedIn
  <2>3. r \in SUBSET S /\ Cardinality(r) = n
    BY <1>3, <2>2, OneLess
  <2>4. g[r] = h[r]
    BY <1>5, <2>3
  <2>5. f[Picked(s)] = e[Picked(s)]
    BY <2>2
  <2> QED
    BY <1>1, <2>1, <2>4, <2>5 DEF SumStep
<1> HIDE DEF C
<1>6. Cardinality(S) \in C
  BY <1>3, <1>4, <1>5, NatsBySteps
<1> QED
  BY <1>6 DEF C

-----------------------------------------------------------------------------
\* The sum of no element, and the sum of all elements but the one chosen first.

\* For a finite set there is such a function, so the sum is its value.
LEMMA SumIsSum ==
  ASSUME NEW f, NEW S, IsFiniteSet(S)
  PROVE  \E g : IsSum(g, f, S) /\ SumFunctionOnSet(f, S) = g[S]
<1> DEFINE g == CHOOSE h : IsSum(h, f, S)
<1>1. IsSum(g, f, S)
  BY SumExists
<1> QED
  BY <1>1, SumUnfold

\* The sum of no element is zero.
LEMMA SumEmpty ==
  ASSUME NEW f
  PROVE  SumFunctionOnSet(f, {}) = 0
<1>1. PICK g : IsSum(g, f, {}) /\ SumFunctionOnSet(f, {}) = g[{}]
  BY FS_EmptySet, SumIsSum
<1> QED
  BY <1>1 DEF IsSum, SumStep

\* A sum is its first element and the sum of the others.
LEMMA SumPicked ==
  ASSUME NEW f, NEW S, IsFiniteSet(S), S # {}
  PROVE  SumFunctionOnSet(f, S) = f[Picked(S)] + SumFunctionOnSet(f, S \ {Picked(S)})
<1> DEFINE R == S \ {Picked(S)}
<1>1. PICK g : IsSum(g, f, S) /\ SumFunctionOnSet(f, S) = g[S]
  BY SumIsSum
<1>2. IsFiniteSet(R)
  BY FS_RemoveElement
<1>3. PICK h : IsSum(h, f, R) /\ SumFunctionOnSet(f, R) = h[R]
  BY <1>2, SumIsSum
<1>4. h[R] = g[R]
  BY <1>1, <1>2, <1>3, SumsAgree
<1>5. g[S] = f[Picked(S)] + g[R]
  BY <1>1 DEF IsSum, SumStep
<1> QED
  BY <1>1, <1>3, <1>4, <1>5

\* Only the values on the set count.
LEMMA SumSame ==
  ASSUME NEW f, NEW e, NEW S, IsFiniteSet(S), \A x \in S : f[x] = e[x]
  PROVE  SumFunctionOnSet(f, S) = SumFunctionOnSet(e, S)
<1>1. PICK g : IsSum(g, f, S) /\ SumFunctionOnSet(f, S) = g[S]
  BY SumIsSum
<1>2. PICK h : IsSum(h, e, S) /\ SumFunctionOnSet(e, S) = h[S]
  BY SumIsSum
<1> QED
  BY <1>1, <1>2, SumsAgree

-----------------------------------------------------------------------------
\* Sums of integers.

\* Any element may be taken out first.
LEMMA SumInts ==
  ASSUME NEW f, NEW S, IsFiniteSet(S), \A x \in S : f[x] \in Int
  PROVE  /\ SumFunctionOnSet(f, S) \in Int
         /\ \A x \in S : SumFunctionOnSet(f, S) = f[x] + SumFunctionOnSet(f, S \ {x})
<1> DEFINE Fine(s) == /\ SumFunctionOnSet(f, s) \in Int
                      /\ \A x \in s : SumFunctionOnSet(f, s) = f[x] + SumFunctionOnSet(f, s \ {x})
           C == {n \in Nat : \A s \in SUBSET S : Cardinality(s) <= n => Fine(s)}
<1>1. \A s \in SUBSET S : IsFiniteSet(s) /\ Cardinality(s) \in Nat
  BY FS_Subset, FS_CardinalityType
<1>2. Fine({})
  BY SumEmpty
<1>3. 0 \in C
  BY <1>1, <1>2, FS_EmptySet
<1>4. ASSUME NEW n \in Nat, n \in C PROVE n + 1 \in C
  <2> SUFFICES ASSUME NEW s \in SUBSET S, Cardinality(s) <= n + 1, s # {} PROVE Fine(s)
    BY <1>2
  <2>1. \A x \in s : s \ {x} \in SUBSET S /\ Cardinality(s \ {x}) <= n
    BY <1>1, OneLess
  <2>2. \A x \in s : Fine(s \ {x})
    BY <1>4, <2>1
  <2> DEFINE c == Picked(s)
  <2>3. c \in s
    BY PickedIn
  <2>4. SumFunctionOnSet(f, s) = f[c] + SumFunctionOnSet(f, s \ {c})
    BY <1>1, SumPicked
  <2>5. SumFunctionOnSet(f, s) \in Int
    BY <2>2, <2>3, <2>4
  <2>6. ASSUME NEW x \in s PROVE SumFunctionOnSet(f, s) = f[x] + SumFunctionOnSet(f, s \ {x})
    <3>1. CASE x = c
      BY <2>4, <3>1
    <3>2. CASE x # c
      <4> DEFINE r == (s \ {c}) \ {x}
      <4>1. r = (s \ {x}) \ {c}
        OBVIOUS
      <4>2. SumFunctionOnSet(f, s \ {c}) = f[x] + SumFunctionOnSet(f, r)
        BY <2>2, <2>3, <3>2
      <4>3. SumFunctionOnSet(f, s \ {x}) = f[c] + SumFunctionOnSet(f, r)
        BY <2>2, <2>3, <3>2, <4>1
      <4>4. r \in SUBSET S /\ Cardinality(r) <= n
        <5>1. IsFiniteSet(s \ {c}) /\ x \in s \ {c}
          BY <1>1, <2>3, <3>2
        <5>2. Cardinality(s \ {c}) = Cardinality(r) + 1 /\ Cardinality(r) \in Nat
          BY <5>1, OneLess
        <5> QED
          BY <2>1, <2>3, <5>2
      <4>5. SumFunctionOnSet(f, r) \in Int
        BY <1>4, <4>4
      <4>6. f[x] \in Int /\ f[c] \in Int
        BY <2>3
      <4> HIDE DEF r, c
      <4> QED
        BY <2>4, <4>2, <4>3, <4>5, <4>6
    <3> QED
      BY <3>1, <3>2
  <2> QED
    BY <2>5, <2>6
<1> HIDE DEF C
<1>5. Cardinality(S) \in C
  BY <1>1, <1>3, <1>4, NatsBySteps
<1> QED
  BY <1>1, <1>5 DEF C

\* Sums over the same elements but one, of functions that agree on the others,
\* differ by what each adds for that one.
LEMMA SumChange ==
  ASSUME NEW f, NEW S, IsFiniteSet(S), \A y \in S : f[y] \in Int,
         NEW e, NEW U, IsFiniteSet(U), \A y \in U : e[y] \in Int,
         NEW x, S \ {x} = U \ {x}, \A y \in S \ {x} : f[y] = e[y]
  PROVE  /\ SumFunctionOnSet(f, S) \in Int /\ SumFunctionOnSet(e, U) \in Int
         /\ SumFunctionOnSet(e, U) = SumFunctionOnSet(f, S) - (IF x \in S THEN f[x] ELSE 0)
                                                            + (IF x \in U THEN e[x] ELSE 0)
<1> DEFINE R == S \ {x}
<1>1. IsFiniteSet(R) /\ R = U \ {x}
  BY FS_RemoveElement
<1>2. SumFunctionOnSet(f, R) = SumFunctionOnSet(e, R)
  BY <1>1, SumSame
<1>3. /\ SumFunctionOnSet(f, S) \in Int /\ SumFunctionOnSet(e, U) \in Int
      /\ SumFunctionOnSet(f, R) \in Int
  BY <1>1, SumInts
<1>4. SumFunctionOnSet(f, S) = SumFunctionOnSet(f, R) + (IF x \in S THEN f[x] ELSE 0)
  <2>1. CASE x \in S
    BY <2>1, <1>3, SumInts
  <2>2. CASE x \notin S
    BY <2>2, <1>3
  <2> QED
    BY <2>1, <2>2
<1>5. SumFunctionOnSet(e, U) = SumFunctionOnSet(e, R) + (IF x \in U THEN e[x] ELSE 0)
  <2>1. CASE x \in U
    BY <2>1, <1>1, <1>2, <1>3, SumInts
  <2>2. CASE x \notin U
    <3>1. R = U
      BY <2>2, <1>1
    <3>2. SumFunctionOnSet(e, U) = SumFunctionOnSet(e, R)
      BY <3>1
    <3> HIDE DEF R
    <3> QED
      BY <2>2, <3>2, <1>3
  <2> QED
    BY <2>1, <2>2
<1>6. (x \in S => f[x] \in Int) /\ (x \in U => e[x] \in Int)
  OBVIOUS
<1> HIDE DEF R
<1> QED
  BY <1>2, <1>3, <1>4, <1>5, <1>6

\* Sums of natural numbers are no less than any part.
LEMMA SumNats ==
  ASSUME NEW f, NEW S, IsFiniteSet(S), \A x \in S : f[x] \in Nat
  PROVE  /\ SumFunctionOnSet(f, S) \in Nat
         /\ \A x \in S : f[x] <= SumFunctionOnSet(f, S)
<1> DEFINE T == {s \in SUBSET S : SumFunctionOnSet(f, s) \in Nat}
<1>1. \A s \in SUBSET S : IsFiniteSet(s)
  BY FS_Subset
<1>2. {} \in T
  BY SumEmpty
<1>3. ASSUME NEW s \in SUBSET S, NEW x \in s, s \ {x} \in T PROVE s \in T
  <2>1. SumFunctionOnSet(f, s) = f[x] + SumFunctionOnSet(f, s \ {x})
    BY <1>1, SumInts
  <2> QED
    BY <1>3, <2>1
<1> HIDE DEF T
<1>4. SUBSET S \subseteq T
  BY <1>2, <1>3, SubsetsBySteps
<1>5. SumFunctionOnSet(f, S) \in Nat
  BY <1>4 DEF T
<1>6. ASSUME NEW x \in S PROVE f[x] <= SumFunctionOnSet(f, S)
  <2>1. SumFunctionOnSet(f, S) = f[x] + SumFunctionOnSet(f, S \ {x})
    BY SumInts
  <2>2. SumFunctionOnSet(f, S \ {x}) \in Nat
    <3>1. S \ {x} \in SUBSET S
      OBVIOUS
    <3> QED
      BY <1>4, <3>1 DEF T
  <2> QED
    BY <2>1, <2>2
<1> QED
  BY <1>5, <1>6

\* A sum of zeros is zero.
LEMMA SumZero ==
  ASSUME NEW f, NEW S, IsFiniteSet(S), \A x \in S : f[x] = 0
  PROVE  SumFunctionOnSet(f, S) = 0
<1> DEFINE T == {s \in SUBSET S : SumFunctionOnSet(f, s) = 0}
<1>1. {} \in T
  BY SumEmpty
<1>2. ASSUME NEW s \in SUBSET S, NEW x \in s, s \ {x} \in T PROVE s \in T
  <2>1. SumFunctionOnSet(f, s) = f[x] + SumFunctionOnSet(f, s \ {x})
    BY FS_Subset, SumInts
  <2> QED
    BY <1>2, <2>1
<1> HIDE DEF T
<1>3. SUBSET S \subseteq T
  BY <1>1, <1>2, SubsetsBySteps
<1> QED
  BY <1>3 DEF T

\* Elements that add nothing can be left out.
LEMMA SumDrops ==
  ASSUME NEW f, NEW S, IsFiniteSet(S), \A x \in S : f[x] \in Int,
         NEW A \in SUBSET S, \A x \in S \ A : f[x] = 0
  PROVE  SumFunctionOnSet(f, S) = SumFunctionOnSet(f, A)
<1> DEFINE T == {s \in SUBSET S : SumFunctionOnSet(f, s) = SumFunctionOnSet(f, s \cap A)}
<1>1. {} \in T
  <2>1. {} \cap A = {}
    OBVIOUS
  <2> QED BY <2>1
<1>2. ASSUME NEW s \in SUBSET S, NEW x \in s, s \ {x} \in T PROVE s \in T
  <2>1. IsFiniteSet(s) /\ IsFiniteSet(s \cap A)
    BY FS_Subset
  <2>2. SumFunctionOnSet(f, s) = f[x] + SumFunctionOnSet(f, s \ {x})
    BY <2>1, SumInts
  <2>3. SumFunctionOnSet(f, s \ {x}) = SumFunctionOnSet(f, (s \ {x}) \cap A)
    BY <1>2
  <2>4. CASE x \in A
    <3>1. x \in s \cap A /\ (s \cap A) \ {x} = (s \ {x}) \cap A
      BY <2>4
    <3>2. SumFunctionOnSet(f, s \cap A) = f[x] + SumFunctionOnSet(f, (s \cap A) \ {x})
      BY <2>1, <3>1, SumInts
    <3> QED BY <2>2, <2>3, <3>1, <3>2
  <2>5. CASE x \notin A
    <3>1. f[x] = 0 /\ s \cap A = (s \ {x}) \cap A
      BY <2>5
    <3>2. SumFunctionOnSet(f, (s \ {x}) \cap A) \in Int
      BY <2>1, <3>1, SumInts
    <3>3. SumFunctionOnSet(f, s) = SumFunctionOnSet(f, s \ {x})
      <4> DEFINE a == SumFunctionOnSet(f, s \ {x})
      <4>1. a \in Int
        BY <2>3, <3>2
      <4>2. SumFunctionOnSet(f, s) = f[x] + a
        BY <2>2
      <4> HIDE DEF a
      <4> QED BY <3>1, <4>1, <4>2 DEF a
    <3> QED BY <2>3, <3>1, <3>3
  <2> QED BY <2>4, <2>5
<1> HIDE DEF T
<1>3. S \in T
  BY <1>1, <1>2, SubsetsBySteps
<1>4. S \cap A = A
  OBVIOUS
<1> QED BY <1>3, <1>4 DEF T

\* A part of natural numbers is no more than the whole.
LEMMA SumPart ==
  ASSUME NEW f, NEW S, IsFiniteSet(S), \A x \in S : f[x] \in Nat, NEW A \in SUBSET S
  PROVE  SumFunctionOnSet(f, A) <= SumFunctionOnSet(f, S)
<1> DEFINE sum(s) == SumFunctionOnSet(f, s)
           T == {s \in SUBSET S : sum(s \cap A) <= sum(s)}
<1>1. \A s \in SUBSET S : /\ IsFiniteSet(s) /\ sum(s) \in Nat
                           /\ \A x \in s : sum(s) = f[x] + sum(s \ {x})
  <2> SUFFICES ASSUME NEW s \in SUBSET S
               PROVE  /\ IsFiniteSet(s) /\ sum(s) \in Nat
                      /\ \A x \in s : sum(s) = f[x] + sum(s \ {x})
    OBVIOUS
  <2>1. IsFiniteSet(s)
    BY FS_Subset
  <2> QED BY <2>1, SumNats, SumInts
<1>2. {} \in T
  <2>1. {} \cap A = {} /\ {} \in SUBSET S
    OBVIOUS
  <2>2. sum({}) = 0
    BY SumEmpty
  <2> HIDE DEF sum
  <2> QED BY <2>1, <2>2
<1> HIDE DEF sum
<1>3. ASSUME NEW s \in SUBSET S, NEW x \in s, s \ {x} \in T PROVE s \in T
  <2>1. sum(s) = f[x] + sum(s \ {x}) /\ sum((s \ {x}) \cap A) <= sum(s \ {x})
    BY <1>1, <1>3
  <2>2. /\ f[x] \in Nat /\ sum(s) \in Nat /\ sum(s \ {x}) \in Nat
        /\ sum(s \cap A) \in Nat /\ sum((s \ {x}) \cap A) \in Nat
    <3>1. /\ s \ {x} \in SUBSET S /\ s \cap A \in SUBSET S /\ (s \ {x}) \cap A \in SUBSET S
      OBVIOUS
    <3> QED BY <1>1, <3>1
  <2>3. CASE x \in A
    <3>1. x \in s \cap A /\ (s \cap A) \ {x} = (s \ {x}) \cap A /\ s \cap A \in SUBSET S
      BY <2>3
    <3>2. sum(s \cap A) = f[x] + sum((s \ {x}) \cap A)
      BY <1>1, <3>1
    <3> QED BY <2>1, <2>2, <3>2
  <2>4. CASE x \notin A
    <3>1. s \cap A = (s \ {x}) \cap A
      BY <2>4
    <3> QED BY <2>1, <2>2, <3>1
  <2> QED BY <2>3, <2>4
<1> HIDE DEF T
<1>4. S \in T
  BY <1>2, <1>3, SubsetsBySteps
<1>5. S \cap A = A
  OBVIOUS
<1> QED BY <1>4, <1>5 DEF T, sum
=============================================================================
