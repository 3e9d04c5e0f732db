----------------------------- MODULE FoldLemmas -----------------------------
(***************************************************************************)
(* Induction on natural numbers, stated for a set instead of a predicate,  *)
(* and what it yields about sums: SumFunctionOnSet(f, S) adds f[x] for the *)
(* x of a finite S, in whatever order CHOOSE takes them.  And the places   *)
(* of the elements of a finite set in a strict total order, by which sets  *)
(* are sorted and sequences filtered (Ordering).                           *)
(***************************************************************************)
EXTENDS Ordering, Functions, WellFoundedInduction, FiniteSetTheorems, SequenceTheorems, TLAPS

\* A set of natural numbers has a least element.
LEMMA Least ==
    ASSUME NEW T \in SUBSET Nat, T # {}
    PROVE  \E x \in T : \A y \in T : x <= y
<1>1. \E x \in T : \A y \in T : <<y, x>> \notin OpToRel(<, Nat)
  BY NatLessThanWellFounded, WFMin
<1>2. PICK x \in T : \A y \in T : <<y, x>> \notin OpToRel(<, Nat)
  BY <1>1
<1>3. \A y \in T : ~(y < x)
  BY <1>2 DEF OpToRel
<1> QED
  BY <1>3

\* Induction: a set that holds 0 and the successor of each of its numbers
\* holds all of them.
LEMMA Induct ==
    ASSUME NEW T, 0 \in T, \A n \in Nat : n \in T => n + 1 \in T
    PROVE  Nat \subseteq T
<1> SUFFICES ASSUME Nat \ T # {} PROVE FALSE
  OBVIOUS
<1>1. PICK x \in Nat \ T : \A y \in Nat \ T : x <= y
  BY Least
<1>2. x # 0 /\ x - 1 \in Nat
  BY <1>1
<1>3. x - 1 \in T
  BY <1>1, <1>2
<1> QED
  BY <1>2, <1>3

-----------------------------------------------------------------------------
\* The equation that defines the sum

Upto(S, n) == {s \in SUBSET S : Cardinality(s) <= n}

Pick(s) == CHOOSE x \in s : TRUE

Unfolded(f, g, s) == IF s = {} THEN 0 ELSE f[Pick(s)] + g[s \ {Pick(s)}]

\* What is left when an element is picked is smaller.
LEMMA PickSmaller ==
    ASSUME NEW S, IsFiniteSet(S), NEW s \in SUBSET S, s # {}
    PROVE  /\ Pick(s) \in s /\ s \ {Pick(s)} \in SUBSET S
           /\ Cardinality(s) \in Nat /\ Cardinality(s \ {Pick(s)}) \in Nat
           /\ Cardinality(s \ {Pick(s)}) = Cardinality(s) - 1
<1>1. Pick(s) \in s
  BY DEF Pick
<1>2. IsFiniteSet(s)
  BY FS_Subset
<1>3. Cardinality(s \ {Pick(s)}) = Cardinality(s) - 1 /\ IsFiniteSet(s \ {Pick(s)})
  BY <1>1, <1>2, FS_RemoveElement
<1> QED
  BY <1>1, <1>2, <1>3, FS_CardinalityType

\* The recursion of the sum has a solution on the subsets of at most n
\* elements, for every n.
LEMMA SolutionUpto ==
    ASSUME NEW f, NEW S, IsFiniteSet(S)
    PROVE  \A n \in Nat : \E g : g = [s \in Upto(S, n) |-> Unfolded(f, g, s)]
<1> DEFINE T == {n \in Nat : \E g : g = [s \in Upto(S, n) |-> Unfolded(f, g, s)]}
<1>1. 0 \in T
  <2>1. \A s \in Upto(S, 0) : s = {}
    BY FS_Subset, FS_CardinalityType, FS_EmptySet DEF Upto
  <2> DEFINE g == [s \in Upto(S, 0) |-> 0]
  <2>2. g = [s \in Upto(S, 0) |-> Unfolded(f, g, s)]
    BY <2>1 DEF Unfolded
  <2> QED
    BY <2>2
<1>2. ASSUME NEW n \in Nat, n \in T PROVE n + 1 \in T
  <2>1. PICK g : g = [s \in Upto(S, n) |-> Unfolded(f, g, s)]
    BY <1>2
  <2> DEFINE h == [s \in Upto(S, n + 1) |-> Unfolded(f, g, s)]
  <2>2. ASSUME NEW s \in Upto(S, n + 1), s # {}
        PROVE  h[s \ {Pick(s)}] = g[s \ {Pick(s)}]
    <3>1. s \ {Pick(s)} \in Upto(S, n) /\ s \ {Pick(s)} \in Upto(S, n + 1)
      BY <2>2, PickSmaller DEF Upto
    <3> QED
      BY <2>1, <3>1
  <2>3. \A s \in Upto(S, n + 1) : Unfolded(f, g, s) = Unfolded(f, h, s)
    BY <2>2 DEF Unfolded
  <2>4. h = [s \in Upto(S, n + 1) |-> Unfolded(f, h, s)]
    BY <2>3
  <2> HIDE DEF h
  <2> QED
    BY <2>4
<1> HIDE DEF T
<1>3. Nat \subseteq T
  BY <1>1, <1>2, Induct
<1> QED
  BY <1>3 DEF T

LEMMA Solution ==
    ASSUME NEW f, NEW S, IsFiniteSet(S)
    PROVE  \E g : g = [s \in SUBSET S |-> Unfolded(f, g, s)]
<1>1. Cardinality(S) \in Nat
  BY FS_CardinalityType
<1>2. PICK g : g = [s \in Upto(S, Cardinality(S)) |-> Unfolded(f, g, s)]
  BY <1>1, SolutionUpto, Z3
<1>3. Upto(S, Cardinality(S)) = SUBSET S
  BY FS_Subset DEF Upto
<1> QED
  BY <1>2, <1>3

Partial(f, S) == CHOOSE g : g = [s \in SUBSET S |-> Unfolded(f, g, s)]

\* The solution of the recursion, at each subset.
LEMMA PartialAt ==
    ASSUME NEW f, NEW S, IsFiniteSet(S), NEW s \in SUBSET S
    PROVE  Partial(f, S)[s] = Unfolded(f, Partial(f, S), s)
<1> DEFINE g == Partial(f, S)
<1>1. g = CHOOSE h : h = [u \in SUBSET S |-> Unfolded(f, h, u)]
  BY DEF Partial
<1> HIDE DEF g
<1>2. g = [u \in SUBSET S |-> Unfolded(f, g, u)]
  BY <1>1, Solution
<1>3. g[s] = Unfolded(f, g, s)
  BY <1>2
<1> QED
  BY <1>3 DEF g

LEMMA SumIsPartial ==
    ASSUME NEW f, NEW S
    PROVE  SumFunctionOnSet(f, S) = Partial(f, S)[S]
BY DEF SumFunctionOnSet, FoldFunctionOnSet, MapThenFoldSet, Partial, Unfolded, Pick

\* Two solutions agree on the sets both know, whatever else they know.
LEMMA PartialsAgree ==
    ASSUME NEW f, NEW S, IsFiniteSet(S), NEW h, NEW R, IsFiniteSet(R),
           \A x \in S \cap R : f[x] = h[x],
           NEW s \in SUBSET (S \cap R)
    PROVE  Partial(f, S)[s] = Partial(h, R)[s]
<1> DEFINE Agree(n) == \A u \in Upto(S \cap R, n) : Partial(f, S)[u] = Partial(h, R)[u]
           T == {n \in Nat : Agree(n)}
<1>0. IsFiniteSet(S \cap R)
  BY FS_Subset
<1>1. 0 \in T
  <2>1. \A u \in Upto(S \cap R, 0) : u = {}
    BY <1>0, FS_Subset, FS_CardinalityType, FS_EmptySet DEF Upto
  <2>2. Partial(f, S)[{}] = 0 /\ Partial(h, R)[{}] = 0
    BY PartialAt DEF Unfolded
  <2> QED
    BY <2>1, <2>2
<1>2. ASSUME NEW n \in Nat, n \in T PROVE n + 1 \in T
  <2>1. ASSUME NEW u \in Upto(S \cap R, n + 1)
        PROVE  Partial(f, S)[u] = Partial(h, R)[u]
    <3>1. u \in SUBSET S /\ u \in SUBSET R /\ u \in SUBSET (S \cap R)
      BY DEF Upto
    <3>2. Partial(f, S)[u] = Unfolded(f, Partial(f, S), u)
          /\ Partial(h, R)[u] = Unfolded(h, Partial(h, R), u)
      BY <3>1, PartialAt
    <3>3. CASE u = {}
      BY <3>2, <3>3 DEF Unfolded
    <3>4. CASE u # {}
      <4>1. /\ Pick(u) \in u
            /\ u \ {Pick(u)} \in Upto(S \cap R, n)
        BY <1>0, <3>1, <3>4, PickSmaller DEF Upto
      <4>2. f[Pick(u)] = h[Pick(u)]
        BY <3>1, <4>1
      <4>3. Partial(f, S)[u \ {Pick(u)}] = Partial(h, R)[u \ {Pick(u)}]
        BY <1>2, <4>1
      <4> QED
        BY <3>2, <3>4, <4>2, <4>3 DEF Unfolded
    <3> QED
      BY <3>3, <3>4
  <2>2. Agree(n + 1)
    BY <2>1
  <2> HIDE DEF Agree
  <2> QED
    BY <2>2
<1> HIDE DEF T
<1>3. Nat \subseteq T
  BY <1>1, <1>2, Induct
<1>4. IsFiniteSet(s) /\ Cardinality(s) \in Nat
  BY <1>0, FS_Subset, FS_CardinalityType
<1>5. s \in Upto(S \cap R, Cardinality(s))
  BY <1>4 DEF Upto
<1> QED
  BY <1>3, <1>4, <1>5 DEF T

\* The sum of a finite set is nothing, or its picked element and the rest.
LEMMA SumStep ==
    ASSUME NEW f, NEW S, IsFiniteSet(S)
    PROVE  SumFunctionOnSet(f, S) =
              IF S = {} THEN 0
              ELSE f[Pick(S)] + SumFunctionOnSet(f, S \ {Pick(S)})
<1>1. Partial(f, S)[S] = Unfolded(f, Partial(f, S), S)
  BY PartialAt
<1>2. CASE S = {}
  BY <1>1, <1>2, SumIsPartial DEF Unfolded
<1>3. CASE S # {}
  <2> DEFINE R == S \ {Pick(S)}
  <2>1. IsFiniteSet(R) /\ R \in SUBSET (S \cap R)
    BY FS_Subset
  <2>2. Partial(f, S)[R] = Partial(f, R)[R]
    BY <2>1, PartialsAgree
  <2>3. Partial(f, R)[R] = SumFunctionOnSet(f, R)
    BY SumIsPartial
  <2> QED
    BY <1>1, <1>3, <2>2, <2>3, SumIsPartial DEF Unfolded
<1> QED
  BY <1>2, <1>3

-----------------------------------------------------------------------------
\* What a proof about sums needs

LEMMA SumEmpty == ASSUME NEW f PROVE SumFunctionOnSet(f, {}) = 0
BY SumStep, FS_EmptySet

\* The sum depends on the summands alone.
LEMMA SumSame ==
    ASSUME NEW S, IsFiniteSet(S), NEW f, NEW g, \A x \in S : f[x] = g[x]
    PROVE  SumFunctionOnSet(f, S) = SumFunctionOnSet(g, S)
BY PartialsAgree, SumIsPartial

\* A sum of integers is an integer, and a sum of natural numbers is one.
LEMMA SumType ==
    ASSUME NEW S, IsFiniteSet(S), NEW f
    PROVE  /\ (\A x \in S : f[x] \in Int) => SumFunctionOnSet(f, S) \in Int
           /\ (\A x \in S : f[x] \in Nat) => SumFunctionOnSet(f, S) \in Nat
<1>1. ASSUME NEW Typ, Typ = Int \/ Typ = Nat, \A x \in S : f[x] \in Typ
      PROVE  SumFunctionOnSet(f, S) \in Typ
  <2> DEFINE T == {n \in Nat : \A s \in Upto(S, n) : SumFunctionOnSet(f, s) \in Typ}
  <2>0. \A a, b \in Typ : a + b \in Typ /\ 0 \in Typ
    BY <1>1
  <2>1. 0 \in T
    <3>1. \A s \in Upto(S, 0) : s = {}
      BY FS_Subset, FS_CardinalityType, FS_EmptySet DEF Upto
    <3>2. SumFunctionOnSet(f, {}) \in Typ
      BY <1>1, SumEmpty
    <3> QED
      BY <3>1, <3>2
  <2>2. ASSUME NEW n \in Nat, n \in T PROVE n + 1 \in T
    <3>1. ASSUME NEW s \in Upto(S, n + 1) PROVE SumFunctionOnSet(f, s) \in Typ
      <4>1. s \in SUBSET S /\ IsFiniteSet(s)
        BY FS_Subset DEF Upto
      <4>2. CASE s = {}
        BY <1>1, <4>2, SumEmpty
      <4>3. CASE s # {}
        <5>1. Pick(s) \in s /\ s \ {Pick(s)} \in Upto(S, n)
          BY <4>1, <4>3, PickSmaller DEF Upto
        <5>2. f[Pick(s)] \in Typ /\ SumFunctionOnSet(f, s \ {Pick(s)}) \in Typ
          BY <1>1, <2>2, <4>1, <5>1
        <5>3. SumFunctionOnSet(f, s) = f[Pick(s)] + SumFunctionOnSet(f, s \ {Pick(s)})
          BY <4>1, <4>3, SumStep
        <5> QED
          BY <2>0, <5>2, <5>3
      <4> QED
        BY <4>2, <4>3
    <3> QED
      BY <3>1
  <2> HIDE DEF T
  <2>3. Nat \subseteq T
    BY <2>1, <2>2, Induct
  <2>4. Cardinality(S) \in Nat /\ S \in Upto(S, Cardinality(S))
    BY FS_CardinalityType DEF Upto
  <2> QED
    BY <2>3, <2>4 DEF T
<1> QED
  BY <1>1

\* Any element can be taken out of a sum, not only the picked one.
LEMMA SumApart ==
    ASSUME NEW S, IsFiniteSet(S), NEW f, \A x \in S : f[x] \in Int, NEW x \in S
    PROVE  SumFunctionOnSet(f, S) = f[x] + SumFunctionOnSet(f, S \ {x})
<1> DEFINE Apart(s) == \A y \in s : SumFunctionOnSet(f, s) = f[y] + SumFunctionOnSet(f, s \ {y})
           T == {n \in Nat : \A s \in Upto(S, n) : Apart(s)}
<1>1. 0 \in T
  BY FS_Subset, FS_CardinalityType, FS_EmptySet DEF Upto
<1>2. ASSUME NEW n \in Nat, n \in T PROVE n + 1 \in T
  <2>1. ASSUME NEW s \in Upto(S, n + 1), NEW y \in s
        PROVE  SumFunctionOnSet(f, s) = f[y] + SumFunctionOnSet(f, s \ {y})
    <3> DEFINE z == Pick(s)
    <3>1. s \in SUBSET S /\ IsFiniteSet(s) /\ s # {}
      BY <2>1, FS_Subset DEF Upto
    <3>2. SumFunctionOnSet(f, s) = f[z] + SumFunctionOnSet(f, s \ {z})
      BY <3>1, SumStep
    <3>3. z \in s /\ s \ {z} \in Upto(S, n)
      BY <3>1, PickSmaller DEF Upto
    <3>4. CASE y = z
      BY <3>2, <3>4
    <3>5. CASE y # z
      <4>1. IsFiniteSet(s \ {y}) /\ Cardinality(s \ {y}) = Cardinality(s) - 1
            /\ Cardinality(s) \in Nat
        BY <2>1, <3>1, FS_RemoveElement, FS_CardinalityType
      <4>2. s \ {y} \in Upto(S, n)
        BY <3>1, <4>1, <2>1, FS_CardinalityType DEF Upto
      <4>3. SumFunctionOnSet(f, s \ {z}) = f[y] + SumFunctionOnSet(f, (s \ {z}) \ {y})
        BY <1>2, <2>1, <3>3, <3>5
      <4>4. SumFunctionOnSet(f, s \ {y}) = f[z] + SumFunctionOnSet(f, (s \ {y}) \ {z})
        BY <1>2, <3>3, <3>5, <4>2
      <4>5. (s \ {z}) \ {y} = (s \ {y}) \ {z}
        OBVIOUS
      <4>6. IsFiniteSet((s \ {y}) \ {z}) /\ \A w \in (s \ {y}) \ {z} : f[w] \in Int
        BY <3>1, FS_Subset
      <4>7. SumFunctionOnSet(f, (s \ {y}) \ {z}) \in Int /\ f[y] \in Int /\ f[z] \in Int
        BY <2>1, <3>1, <3>3, <4>6, SumType
      <4> DEFINE rest == SumFunctionOnSet(f, (s \ {y}) \ {z})
      <4>8. SumFunctionOnSet(f, s \ {z}) = f[y] + rest
        BY <4>3, <4>5
      <4>9. SumFunctionOnSet(f, s \ {y}) = f[z] + rest
        BY <4>4
      <4>10. rest \in Int /\ f[y] \in Int /\ f[z] \in Int
        BY <4>7
      <4> HIDE DEF z, rest
      <4> QED
        BY <3>2, <4>8, <4>9, <4>10
    <3> QED
      BY <3>4, <3>5
  <2> QED
    BY <2>1
<1> HIDE DEF T
<1>3. Nat \subseteq T
  BY <1>1, <1>2, Induct
<1>4. Cardinality(S) \in Nat /\ S \in Upto(S, Cardinality(S))
  BY FS_CardinalityType DEF Upto
<1> QED
  BY <1>3, <1>4 DEF T

\* Changing one summand changes the sum by as much.
LEMMA SumChange ==
    ASSUME NEW S, IsFiniteSet(S), NEW f, NEW g, NEW x \in S,
           \A y \in S : f[y] \in Int /\ g[y] \in Int,
           \A y \in S \ {x} : f[y] = g[y]
    PROVE  SumFunctionOnSet(g, S) = SumFunctionOnSet(f, S) - f[x] + g[x]
<1>1. IsFiniteSet(S \ {x})
  BY FS_Subset
<1>2. SumFunctionOnSet(f, S \ {x}) = SumFunctionOnSet(g, S \ {x})
  BY <1>1, SumSame
<1>3. SumFunctionOnSet(f, S \ {x}) \in Int
  BY <1>1, SumType
<1>4. SumFunctionOnSet(f, S) = f[x] + SumFunctionOnSet(f, S \ {x})
  BY SumApart
<1>5. SumFunctionOnSet(g, S) = g[x] + SumFunctionOnSet(g, S \ {x})
  BY SumApart
<1> QED
  BY <1>2, <1>3, <1>4, <1>5

\* A sum of zeros is zero.
LEMMA SumZeros ==
    ASSUME NEW S, IsFiniteSet(S), NEW f, \A x \in S : f[x] = 0
    PROVE  SumFunctionOnSet(f, S) = 0
<1> DEFINE T == {n \in Nat : \A s \in Upto(S, n) : SumFunctionOnSet(f, s) = 0}
<1>1. 0 \in T
  BY FS_Subset, FS_CardinalityType, FS_EmptySet, SumEmpty DEF Upto
<1>2. ASSUME NEW n \in Nat, n \in T PROVE n + 1 \in T
  <2>1. ASSUME NEW s \in Upto(S, n + 1), s # {} PROVE SumFunctionOnSet(f, s) = 0
    <3>1. s \in SUBSET S /\ IsFiniteSet(s)
      BY FS_Subset DEF Upto
    <3>2. Pick(s) \in s /\ s \ {Pick(s)} \in Upto(S, n)
      BY <2>1, <3>1, PickSmaller DEF Upto
    <3>3. SumFunctionOnSet(f, s) = f[Pick(s)] + SumFunctionOnSet(f, s \ {Pick(s)})
      BY <2>1, <3>1, SumStep
    <3> QED
      BY <1>2, <3>1, <3>2, <3>3
  <2> QED
    BY <2>1, SumEmpty
<1> HIDE DEF T
<1>3. Nat \subseteq T
  BY <1>1, <1>2, Induct
<1>4. Cardinality(S) \in Nat /\ S \in Upto(S, Cardinality(S))
  BY FS_CardinalityType DEF Upto
<1> QED
  BY <1>3, <1>4 DEF T

\* A sum with a single summand other than zero is that summand.
LEMMA SumOnly ==
    ASSUME NEW S, IsFiniteSet(S), NEW f, NEW x \in S, f[x] \in Int,
           \A y \in S \ {x} : f[y] = 0
    PROVE  SumFunctionOnSet(f, S) = f[x]
<1>1. IsFiniteSet(S \ {x})
  BY FS_Subset
<1>2. SumFunctionOnSet(f, S \ {x}) = 0
  BY <1>1, SumZeros
<1>3. \A y \in S : f[y] \in Int
  OBVIOUS
<1>4. SumFunctionOnSet(f, S) = f[x] + SumFunctionOnSet(f, S \ {x})
  BY <1>3, SumApart
<1> QED
  BY <1>2, <1>4

LEMMA UptoNone ==
    ASSUME NEW S, IsFiniteSet(S)
    PROVE  \A s \in Upto(S, 0) : s = {}
BY FS_Subset, FS_CardinalityType, FS_EmptySet DEF Upto

LEMMA PickUpto ==
    ASSUME NEW S, IsFiniteSet(S), NEW n \in Nat, NEW s \in Upto(S, n + 1), s # {}
    PROVE  /\ s \in SUBSET S /\ IsFiniteSet(s)
           /\ Pick(s) \in s /\ s \ {Pick(s)} \in Upto(S, n) /\ s \ {Pick(s)} \in SUBSET S
<1>1. s \in SUBSET S /\ IsFiniteSet(s)
  BY FS_Subset DEF Upto
<1> QED
  BY <1>1, PickSmaller DEF Upto

\* The sum of sums of two.
LEMMA SumPlus ==
    ASSUME NEW S, IsFiniteSet(S), NEW f, NEW g, NEW h,
           \A x \in S : f[x] \in Int /\ g[x] \in Int /\ h[x] = f[x] + g[x]
    PROVE  SumFunctionOnSet(h, S) = SumFunctionOnSet(f, S) + SumFunctionOnSet(g, S)
<1> DEFINE Adds(s) == SumFunctionOnSet(h, s) = SumFunctionOnSet(f, s) + SumFunctionOnSet(g, s)
           T == {n \in Nat : \A s \in Upto(S, n) : Adds(s)}
<1>0. Adds({})
  BY SumEmpty
<1>1. 0 \in T
  <2>1. \A s \in Upto(S, 0) : s = {}
    BY UptoNone
  <2> HIDE DEF Adds
  <2> QED
    BY <1>0, <2>1
<1>2. ASSUME NEW n \in Nat, n \in T PROVE n + 1 \in T
  <2>1. ASSUME NEW s \in Upto(S, n + 1), s # {} PROVE Adds(s)
    <3> DEFINE x == Pick(s)
               t == s \ {Pick(s)}
    <3>1. s \in SUBSET S /\ IsFiniteSet(s)
      BY <2>1, PickUpto
    <3>2. x \in s /\ t \in Upto(S, n) /\ t \in SUBSET S
      BY <2>1, PickUpto
    <3>3. /\ SumFunctionOnSet(f, s) = f[x] + SumFunctionOnSet(f, t)
          /\ SumFunctionOnSet(g, s) = g[x] + SumFunctionOnSet(g, t)
          /\ SumFunctionOnSet(h, s) = h[x] + SumFunctionOnSet(h, t)
      BY <2>1, <3>1, SumStep
    <3>4. SumFunctionOnSet(h, t) = SumFunctionOnSet(f, t) + SumFunctionOnSet(g, t)
      BY <1>2, <3>2
    <3>5. IsFiniteSet(t) /\ \A y \in t : f[y] \in Int /\ g[y] \in Int
      BY <3>2, FS_Subset
    <3>6. SumFunctionOnSet(f, t) \in Int /\ SumFunctionOnSet(g, t) \in Int
      BY <3>5, SumType
    <3>7. f[x] \in Int /\ g[x] \in Int /\ h[x] = f[x] + g[x]
      BY <3>1, <3>2
    <3> HIDE DEF x, t
    <3> QED
      BY <3>3, <3>4, <3>6, <3>7
  <2> HIDE DEF Adds
  <2> QED
    BY <1>0, <2>1
<1> HIDE DEF T
<1>3. Nat \subseteq T
  BY <1>1, <1>2, Induct
<1>4. Cardinality(S) \in Nat /\ S \in Upto(S, Cardinality(S))
  BY FS_CardinalityType DEF Upto
<1> QED
  BY <1>3, <1>4 DEF T

\* When every summand is at most the number of things put in its place, the sum is at
\* most the number of things.
LEMMA SumOfPlaced ==
    ASSUME NEW S, IsFiniteSet(S), NEW f, NEW K, IsFiniteSet(K), NEW p,
           \A x \in S : f[x] \in Nat /\ f[x] <= Cardinality({n \in K : p[n] = x})
    PROVE  SumFunctionOnSet(f, S) <= Cardinality(K)
<1> DEFINE In(s) == {n \in K : p[n] \in s}
           At(x) == {n \in K : p[n] = x}
           T == {n \in Nat : \A s \in Upto(S, n) : SumFunctionOnSet(f, s) <= Cardinality(In(s))}
<1>0. \A s : IsFiniteSet(In(s)) /\ Cardinality(In(s)) \in Nat /\ Cardinality(In(s)) <= Cardinality(K)
  <2> SUFFICES ASSUME NEW s
               PROVE  IsFiniteSet(In(s)) /\ Cardinality(In(s)) \in Nat /\ Cardinality(In(s)) <= Cardinality(K)
    OBVIOUS
  <2>1. In(s) \subseteq K
    OBVIOUS
  <2> HIDE DEF In
  <2> QED
    BY <2>1, FS_Subset, FS_CardinalityType
<1>1. 0 \in T
  <2>1. \A s \in Upto(S, 0) : s = {}
    BY UptoNone
  <2> HIDE DEF In
  <2>2. SumFunctionOnSet(f, {}) <= Cardinality(In({}))
    <3>1. SumFunctionOnSet(f, {}) = 0
      BY SumEmpty
    <3>2. Cardinality(In({})) \in Nat
      BY <1>0
    <3> QED
      BY <3>1, <3>2
  <2> QED
    BY <2>1, <2>2
<1>2. ASSUME NEW n \in Nat, n \in T PROVE n + 1 \in T
  <2>1. ASSUME NEW s \in Upto(S, n + 1), s # {} PROVE SumFunctionOnSet(f, s) <= Cardinality(In(s))
    <3> DEFINE x == Pick(s)
               t == s \ {Pick(s)}
    <3>1. x \in s /\ t \in Upto(S, n) /\ t \in SUBSET S /\ s \in SUBSET S /\ IsFiniteSet(s)
      BY <2>1, PickUpto
    <3>2. x \in s /\ x \notin t /\ s = t \cup {x} /\ t \in Upto(S, n) /\ t \in SUBSET S /\ x \in S
      BY <3>1
    <3>3. SumFunctionOnSet(f, s) = f[x] + SumFunctionOnSet(f, t)
      BY <2>1, <3>1, SumStep
    <3>4. IsFiniteSet(t) /\ \A y \in t : f[y] \in Nat
      BY <3>2, FS_Subset
    <3>5. SumFunctionOnSet(f, t) \in Nat
      BY <3>4, SumType
    <3>6. SumFunctionOnSet(f, t) <= Cardinality(In(t))
      BY <1>2, <3>2
    <3> HIDE DEF x, t
    <3>7. In(s) = In(t) \cup At(x) /\ In(t) \cap At(x) = {} /\ At(x) \subseteq K
      BY <3>2
    <3>8. f[x] \in Nat /\ f[x] <= Cardinality(At(x))
      BY <3>2
    <3> HIDE DEF In, At
    <3>9. IsFiniteSet(At(x)) /\ Cardinality(At(x)) \in Nat
      BY <3>7, FS_Subset, FS_CardinalityType
    <3>10. Cardinality(In(s)) = Cardinality(In(t)) + Cardinality(At(x))
      <4>1. Cardinality({}) = 0
        BY FS_EmptySet
      <4>3. IsFiniteSet(In(t)) /\ IsFiniteSet(At(x))
        BY <1>0, <3>9
      <4>2. Cardinality(In(t) \cup At(x)) = Cardinality(In(t)) + Cardinality(At(x)) - Cardinality(In(t) \cap At(x))
        BY <4>3, FS_Union, Zenon
      <4>4. Cardinality(In(t)) \in Nat /\ Cardinality(At(x)) \in Nat
        BY <1>0, <3>9
      <4>5. Cardinality(In(s)) = Cardinality(In(t)) + Cardinality(At(x)) - 0
        BY <3>7, <4>1, <4>2, Zenon
      <4> QED
        BY <4>4, <4>5
    <3> QED
      BY <1>0, <3>3, <3>5, <3>6, <3>8, <3>9, <3>10
  <2>2. SumFunctionOnSet(f, {}) <= Cardinality(In({}))
    <3> HIDE DEF In
    <3> QED
      BY <1>0, SumEmpty
  <2> HIDE DEF In
  <2> QED
    BY <2>1, <2>2
<1>3. In(S) \subseteq K
  OBVIOUS
<1> HIDE DEF T, In
<1>4. Nat \subseteq T
  BY <1>1, <1>2, Induct
<1>5. Cardinality(S) \in Nat /\ S \in Upto(S, Cardinality(S))
  BY FS_CardinalityType DEF Upto
<1>6. SumFunctionOnSet(f, S) <= Cardinality(In(S))
  BY <1>4, <1>5 DEF T
<1>7. SumFunctionOnSet(f, S) \in Nat /\ Cardinality(K) \in Nat
  BY SumType, FS_CardinalityType
<1> QED
  BY <1>0, <1>6, <1>7

\* A sum a whose summands i and r change from f's to g's.
Exchanged(a, f, g, i, r) == a - f[i] - f[r] + g[i] + g[r]

\* Changing two summands changes the sum by what these do.
LEMMA SumTwoChanges ==
    ASSUME NEW S, IsFiniteSet(S), NEW f, NEW g, NEW i \in S, NEW r \in S, i # r,
           \A n \in S : f[n] \in Int /\ g[n] \in Int,
           \A n \in S : n # i /\ n # r => f[n] = g[n]
    PROVE  SumFunctionOnSet(g, S) = Exchanged(SumFunctionOnSet(f, S), f, g, i, r)
<1> DEFINE h == [n \in S |-> IF n = i THEN g[i] ELSE f[n]]
<1>1. \A n \in S : h[n] \in Int /\ (n # i => h[n] = f[n])
  OBVIOUS
<1>2. h[i] = g[i] /\ h[r] = f[r] /\ \A n \in S \ {r} : h[n] = g[n]
  OBVIOUS
<1> HIDE DEF h
<1>3. SumFunctionOnSet(h, S) = SumFunctionOnSet(f, S) - f[i] + h[i]
  BY <1>1, SumChange
<1>9. \A n \in S : h[n] \in Int /\ g[n] \in Int
  BY <1>1
<1>4. SumFunctionOnSet(g, S) = SumFunctionOnSet(h, S) - h[r] + g[r]
  BY <1>2, <1>9, SumChange
<1>5. SumFunctionOnSet(f, S) \in Int
  BY SumType
<1>6. f[i] \in Int /\ f[r] \in Int /\ g[i] \in Int /\ g[r] \in Int
  OBVIOUS
<1>7. SumFunctionOnSet(g, S) = SumFunctionOnSet(f, S) - f[i] + g[i] - f[r] + g[r]
  <2> DEFINE x == SumFunctionOnSet(f, S)
             y == SumFunctionOnSet(h, S)
             z == SumFunctionOnSet(g, S)
             fi == f[i]
             fr == f[r]
             gi == g[i]
             gr == g[r]
  <2>1. y = x - fi + gi /\ z = y - fr + gr
    BY <1>2, <1>3, <1>4
  <2>2. x \in Int /\ fi \in Int /\ fr \in Int /\ gi \in Int /\ gr \in Int
    BY <1>5, <1>6
  <2> HIDE DEF x, y, z, fi, fr, gi, gr
  <2>3. z = x - fi + gi - fr + gr
    BY <2>1, <2>2
  <2> QED
    BY <2>3 DEF x, z, fi, fr, gi, gr
<1> DEFINE a == SumFunctionOnSet(f, S)
<1> HIDE DEF a
<1>8. a \in Int => a - f[i] + g[i] - f[r] + g[r] = a - f[i] - f[r] + g[i] + g[r]
  BY <1>6
<1> QED
  BY <1>5, <1>7, <1>8 DEF a, Exchanged

-----------------------------------------------------------------------------
(* Places in an order                                                      *)

\* The place of x in a strict order R of S: how many come before it.
Place(x, S, R) == Cardinality({y \in S : <<y, x>> \in R})

\* The places of a finite set in a strict total order are 0, 1 and so on, one
\* element each.
LEMMA Places ==
    ASSUME NEW S, IsFiniteSet(S), NEW R,
           \A x \in S : <<x, x>> \notin R,
           \A x, y, z \in S : <<x, y>> \in R /\ <<y, z>> \in R => <<x, z>> \in R,
           \A x, y \in S : x = y \/ <<x, y>> \in R \/ <<y, x>> \in R
    PROVE  /\ Cardinality(S) \in Nat
           /\ \A x \in S : Place(x, S, R) \in 0 .. Cardinality(S) - 1
           /\ \A x, y \in S : <<x, y>> \in R => Place(x, S, R) < Place(y, S, R)
           /\ \A i \in 0 .. Cardinality(S) - 1 : \E x \in S : Place(x, S, R) = i
<1> DEFINE Before(x) == {y \in S : <<y, x>> \in R}
<1> DEFINE n == Cardinality(S)
<1>1. n \in Nat
  BY FS_CardinalityType
<1>2. ASSUME NEW x \in S
      PROVE  IsFiniteSet(Before(x)) /\ Cardinality(Before(x)) \in Nat /\ Cardinality(Before(x)) < n
  <2>1. Before(x) \in SUBSET S /\ Before(x) # S
    OBVIOUS
  <2>2. IsFiniteSet(Before(x)) /\ Cardinality(Before(x)) <= n /\ n # Cardinality(Before(x))
    BY <2>1, FS_Subset
  <2> QED
    BY <1>1, <2>2, FS_CardinalityType
<1>3. ASSUME NEW x \in S, NEW y \in S, <<x, y>> \in R
      PROVE  Cardinality(Before(x)) < Cardinality(Before(y))
  <2>1. Before(x) \in SUBSET Before(y) /\ Before(x) # Before(y)
    BY <1>3
  <2>2. /\ Cardinality(Before(x)) <= Cardinality(Before(y))
        /\ Cardinality(Before(x)) # Cardinality(Before(y))
    BY <1>2, <2>1, FS_Subset
  <2> QED
    BY <1>2, <2>2
<1> DEFINE f == [x \in S |-> Cardinality(Before(x))]
<1>4. f \in [S -> 0 .. n - 1]
  BY <1>1, <1>2
<1>5. f \in Injection(S, 0 .. n - 1)
  <2>1. ASSUME NEW x \in S, NEW y \in S, f[x] = f[y] PROVE x = y
    <3>1. Cardinality(Before(x)) = Cardinality(Before(y))
      BY <2>1
    <3>2. /\ ~(Cardinality(Before(x)) < Cardinality(Before(y)))
          /\ ~(Cardinality(Before(y)) < Cardinality(Before(x)))
      <4>1. Cardinality(Before(x)) \in Nat /\ Cardinality(Before(y)) \in Nat
        BY <1>2
      <4> HIDE DEF Before
      <4> QED
        BY <3>1, <4>1
    <3>3. <<x, y>> \notin R /\ <<y, x>> \notin R
      BY <1>3, <3>2
    <3> QED
      BY <3>3
  <2> HIDE DEF f
  <2> QED
    BY <1>4, <2>1 DEF Injection, IsInjective
<1>6. IsFiniteSet(0 .. n - 1) /\ Cardinality(0 .. n - 1) = n
  <2>1. n - 1 \in Int /\ (0 > n - 1 <=> n = 0)
    BY <1>1
  <2> QED
    BY <1>1, <2>1, FS_Interval
<1>7. f \in Surjection(S, 0 .. n - 1)
  BY <1>5, <1>6, FS_Injection
<1>8. \A i \in 0 .. n - 1 : \E x \in S : f[x] = i
  BY <1>7 DEF Surjection
<1>9. \A x \in S : f[x] = Place(x, S, R)
  BY DEF Place
<1>10. \A x \in S : f[x] = Cardinality(Before(x))
  OBVIOUS
<1> HIDE DEF f, Before
<1>11. /\ \A x \in S : Place(x, S, R) \in 0 .. n - 1
       /\ \A i \in 0 .. n - 1 : \E x \in S : Place(x, S, R) = i
  BY <1>4, <1>8, <1>9
<1>12. \A x, y \in S : <<x, y>> \in R => Place(x, S, R) < Place(y, S, R)
  BY <1>3, <1>9, <1>10
<1> QED
  BY <1>1, <1>11, <1>12

\* A finite set of numbers, sorted.
LEMMA AscendingEach ==
    ASSUME NEW K \in SUBSET Int, IsFiniteSet(K)
    PROVE  /\ Cardinality(K) \in Nat /\ DOMAIN Ascending(K) = 1 .. Cardinality(K)
           /\ Ascending(K) \in Seq(K) /\ Len(Ascending(K)) = Cardinality(K)
           /\ \A i, j \in 1 .. Cardinality(K) : i < j => Ascending(K)[i] < Ascending(K)[j]
           /\ \A x \in K : \E i \in 1 .. Cardinality(K) : Ascending(K)[i] = x
<1> DEFINE n == Cardinality(K)
           R == {p \in K \X K : p[1] < p[2]}
           Nth(i) == CHOOSE a \in K : Cardinality({c \in K : c < a}) = i - 1
<1>1. \A x, y \in K : <<x, y>> \in R <=> x < y
  OBVIOUS
<1>2. \A x \in K : Place(x, K, R) = Cardinality({c \in K : c < x})
  <2>1. \A x \in K : {c \in K : <<c, x>> \in R} = {c \in K : c < x}
    BY <1>1
  <2> QED
    BY <2>1 DEF Place
<1>3. Ascending(K) = [i \in 1 .. n |-> Nth(i)]
  BY DEF Ascending, Sorted
<1> HIDE DEF R
<1>4. /\ n \in Nat
      /\ \A x \in K : Place(x, K, R) \in 0 .. n - 1
      /\ \A x, y \in K : <<x, y>> \in R => Place(x, K, R) < Place(y, K, R)
      /\ \A i \in 0 .. n - 1 : \E x \in K : Place(x, K, R) = i
  <2>1. \A x \in K : <<x, x>> \notin R
    BY <1>1
  <2>2. \A x, y, z \in K : <<x, y>> \in R /\ <<y, z>> \in R => <<x, z>> \in R
    <3>1. \A x, y, z \in K : x < y /\ y < z => x < z
      OBVIOUS
    <3> QED
      BY <1>1, <3>1
  <2>3. \A x, y \in K : x = y \/ <<x, y>> \in R \/ <<y, x>> \in R
    <3>1. \A x, y \in K : x = y \/ x < y \/ y < x
      OBVIOUS
    <3> QED
      BY <1>1, <3>1
  <2> QED
    BY <2>1, <2>2, <2>3, Places, ZenonT(90)
<1>5. \A i \in 1 .. n : Nth(i) \in K /\ Place(Nth(i), K, R) = i - 1
  <2> SUFFICES ASSUME NEW i \in 1 .. n PROVE Nth(i) \in K /\ Place(Nth(i), K, R) = i - 1
    OBVIOUS
  <2>1. i - 1 \in 0 .. n - 1
    BY <1>4
  <2>2. \E x \in K : Cardinality({c \in K : c < x}) = i - 1
    BY <1>2, <1>4, <2>1
  <2>3. Nth(i) \in K /\ Cardinality({c \in K : c < Nth(i)}) = i - 1
    BY <2>2
  <2> QED
    BY <1>2, <2>3
<1> HIDE DEF Nth, n
<1>6. \A i, j \in 1 .. n : i < j => Nth(i) < Nth(j)
  <2> SUFFICES ASSUME NEW i \in 1 .. n, NEW j \in 1 .. n, i < j PROVE Nth(i) < Nth(j)
    OBVIOUS
  <2>1. /\ Nth(i) \in K /\ Nth(j) \in K
        /\ Place(Nth(i), K, R) = i - 1 /\ Place(Nth(j), K, R) = j - 1
    BY <1>5
  <2>2. ~(Place(Nth(j), K, R) < Place(Nth(i), K, R)) /\ Nth(i) # Nth(j)
    BY <1>4, <2>1
  <2>3. <<Nth(j), Nth(i)>> \notin R
    BY <1>4, <2>1, <2>2
  <2>4. ~(Nth(j) < Nth(i)) /\ Nth(i) \in Int /\ Nth(j) \in Int
    BY <1>1, <2>1, <2>3
  <2> QED
    BY <2>2, <2>4
<1>7. \A x \in K : \E i \in 1 .. n : Nth(i) = x
  <2> SUFFICES ASSUME NEW x \in K PROVE \E i \in 1 .. n : Nth(i) = x
    OBVIOUS
  <2>1. Place(x, K, R) \in 0 .. n - 1
    BY <1>4
  <2> DEFINE i == Place(x, K, R) + 1
  <2>2. i \in 1 .. n /\ i - 1 = Place(x, K, R)
    BY <1>4, <2>1
  <2> HIDE DEF i
  <2>3. Nth(i) \in K /\ Place(Nth(i), K, R) = Place(x, K, R)
    BY <1>5, <2>2
  <2>4. ~(Place(x, K, R) < Place(Nth(i), K, R)) /\ ~(Place(Nth(i), K, R) < Place(x, K, R))
    <3>1. \A p \in Int : ~(p < p)
      OBVIOUS
    <3> QED
      BY <2>1, <2>3, <3>1
  <2>5. ~(x < Nth(i)) /\ ~(Nth(i) < x)
    BY <1>1, <1>4, <2>3, <2>4
  <2>6. Nth(i) = x
    <3>1. Nth(i) \in Int /\ x \in Int
      BY <2>3
    <3>2. \A a, b \in Int : ~(a < b) /\ ~(b < a) => a = b
      OBVIOUS
    <3> QED
      BY <2>5, <3>1, <3>2
  <2> QED
    BY <2>2, <2>6
<1>8. Ascending(K) \in Seq(K) /\ Len(Ascending(K)) = n
  BY <1>3, <1>4, <1>5
<1>9. \A i \in 1 .. n : Ascending(K)[i] = Nth(i)
  BY <1>3
<1> QED
  BY <1>3, <1>4, <1>6, <1>7, <1>8, <1>9 DEF n

\* The greatest of a finite set of numbers is its last.
LEMMA Greatest ==
    ASSUME NEW K \in SUBSET Int, IsFiniteSet(K), K # {}
    PROVE  \E x \in K : \A y \in K : x >= y
<1> DEFINE n == Cardinality(K)
           s == Ascending(K)
<1>1. /\ n \in Nat /\ n # 0 /\ s \in Seq(K) /\ Len(s) = n
      /\ \A i, j \in 1 .. n : i < j => s[i] < s[j]
      /\ \A x \in K : \E i \in 1 .. n : s[i] = x
  BY AscendingEach, FS_EmptySet
<1> HIDE DEF n, s
<1>2. s[n] \in K
  BY <1>1
<1>3. ASSUME NEW y \in K PROVE s[n] >= y
  <2>1. PICK i \in 1 .. n : s[i] = y
    BY <1>1
  <2>2. i = n \/ i < n
    BY <1>1, <2>1
  <2>3. n \in 1 .. n
    BY <1>1
  <2>4. CASE i = n
    <3>1. y \in Int /\ s[n] = y
      BY <2>1, <2>4
    <3> QED
      BY <3>1
  <2>5. CASE i < n
    <3>1. s[i] < s[n]
      BY <1>1, <2>1, <2>3, <2>5
    <3>2. y \in Int /\ s[n] \in Int /\ y < s[n]
      BY <1>2, <2>1, <3>1
    <3> QED
      BY <3>2
  <2> QED
    BY <2>2, <2>4, <2>5
<1> QED
  BY <1>2, <1>3

\* What is picked out of a sequence, and all of it.
LEMMA PickedEach ==
    ASSUME NEW S, NEW seq \in Seq(S), NEW K \in SUBSET DOMAIN seq
    PROVE  /\ IsFiniteSet(K) /\ K \subseteq Int
           /\ Picked(seq, K) \in Seq(S) /\ Len(Picked(seq, K)) = Cardinality(K)
           /\ DOMAIN Picked(seq, K) = 1 .. Cardinality(K)
           /\ \A n \in 1 .. Cardinality(K) :
                 Ascending(K)[n] \in K /\ Picked(seq, K)[n] = seq[Ascending(K)[n]]
           /\ K = DOMAIN seq => Picked(seq, K) = seq
<1>1. DOMAIN seq = 1 .. Len(seq) /\ Len(seq) \in Nat
  OBVIOUS
<1>2. IsFiniteSet(K) /\ K \subseteq Int
  <2>1. IsFiniteSet(1 .. Len(seq))
    BY <1>1, FS_Interval
  <2> QED
    BY <1>1, <2>1, FS_Subset
<1> DEFINE n == Cardinality(K)
           a == Ascending(K)
<1>3. /\ n \in Nat /\ DOMAIN a = 1 .. n /\ a \in Seq(K) /\ Len(a) = n
      /\ \A i, j \in 1 .. n : i < j => a[i] < a[j]
      /\ \A x \in K : \E i \in 1 .. n : a[i] = x
  BY <1>2, AscendingEach
<1>4. Picked(seq, K) = [i \in DOMAIN a |-> seq[a[i]]]
  BY DEF Picked
<1> HIDE DEF n, a
<1>5. \A i \in 1 .. n : a[i] \in K /\ seq[a[i]] \in S
  BY <1>1, <1>3
<1>6. Picked(seq, K) = [i \in 1 .. n |-> seq[a[i]]]
  BY <1>3, <1>4
<1>7. Picked(seq, K) \in Seq(S) /\ Len(Picked(seq, K)) = n /\ DOMAIN Picked(seq, K) = 1 .. n
  BY <1>3, <1>5, <1>6
<1>8. ASSUME K = DOMAIN seq PROVE Picked(seq, K) = seq
  <2>1. n = Len(seq)
    BY <1>1, <1>8, FS_Interval DEF n
  <2> DEFINE T == {k \in Nat : \A i \in 1 .. n : i <= k => a[i] >= i}
             U == {k \in Nat : \A i \in 1 .. n : i >= n - k => a[i] <= i}
  <2>2. \A i \in 1 .. n : a[i] \in 1 .. n
    BY <1>1, <1>5, <1>8, <2>1
  <2>3. 0 \in T
    OBVIOUS
  <2>4. ASSUME NEW k \in Nat, k \in T PROVE k + 1 \in T
    <3>1. ASSUME NEW i \in 1 .. n, i <= k + 1 PROVE a[i] >= i
      <4>1. CASE i = 1
        BY <2>2, <4>1
      <4>2. CASE i # 1
        <5>1. i - 1 \in 1 .. n /\ i - 1 <= k /\ i - 1 < i
          BY <1>3, <3>1, <4>2
        <5>2. a[i - 1] >= i - 1 /\ a[i - 1] < a[i]
          BY <1>3, <2>4, <5>1
        <5> QED
          BY <1>3, <2>2, <5>1, <5>2
      <4> QED
        BY <4>1, <4>2
    <3> QED
      BY <3>1
  <2>5. 0 \in U
    BY <1>3, <2>2
  <2>6. ASSUME NEW k \in Nat, k \in U PROVE k + 1 \in U
    <3>1. ASSUME NEW i \in 1 .. n, i >= n - (k + 1) PROVE a[i] <= i
      <4>1. CASE i = n
        BY <2>2, <4>1
      <4>2. CASE i # n
        <5>1. i + 1 \in 1 .. n /\ i + 1 >= n - k /\ i < i + 1
          BY <1>3, <3>1, <4>2
        <5>2. a[i + 1] <= i + 1 /\ a[i] < a[i + 1]
          BY <1>3, <2>6, <5>1
        <5> QED
          BY <1>3, <2>2, <5>1, <5>2
      <4> QED
        BY <4>1, <4>2
    <3> QED
      BY <3>1
  <2> HIDE DEF T, U
  <2>7. Nat \subseteq T /\ Nat \subseteq U
    BY <2>3, <2>4, <2>5, <2>6, Induct
  <2>8. n \in T /\ n \in U
    BY <1>3, <2>7
  <2>9. \A i \in 1 .. n : a[i] = i
    <3> SUFFICES ASSUME NEW i \in 1 .. n PROVE a[i] = i
      OBVIOUS
    <3>1. i <= n /\ i >= n - n
      BY <1>3
    <3>2. a[i] >= i /\ a[i] <= i
      BY <2>8, <3>1 DEF T, U
    <3> QED
      BY <2>2, <3>2
  <2>10. \A i \in 1 .. n : Picked(seq, K)[i] = seq[i]
    BY <1>6, <2>9
  <2> QED
    BY <1>7, <2>1, <2>10
<1> QED
  BY <1>2, <1>5, <1>6, <1>7, <1>8 DEF n, a

-----------------------------------------------------------------------------
(* Sequences of numbers put together.                                      *)

\* One sequence of numbers after another.
LEMMA Joined ==
    ASSUME NEW u \in Seq(Nat), NEW d \in Seq(Nat)
    PROVE  /\ u \o d \in Seq(Nat) /\ Len(u \o d) = Len(u) + Len(d)
           /\ \A n \in 1 .. Len(u) + Len(d) : (u \o d)[n] = IF n <= Len(u) THEN u[n] ELSE d[n - Len(u)]
BY ConcatProperties

\* A stretch of a sequence of numbers, and its place in the whole.
LEMMA Stretch ==
    ASSUME NEW s \in Seq(Nat), NEW m \in Int, NEW l \in Int,
           1 <= m, m <= l + 1, l <= Len(s)
    PROVE  /\ SubSeq(s, m, l) \in Seq(Nat) /\ Len(SubSeq(s, m, l)) = l + 1 - m
           /\ \A n \in 1 .. l + 1 - m : SubSeq(s, m, l)[n] = s[m + n - 1]
<1>1. Len(s) \in Nat /\ \A n \in 1 .. Len(s) : s[n] \in Nat
  OBVIOUS
<1>2. \A n \in m .. l : s[n] \in Nat
  BY <1>1
<1>3. Len(SubSeq(s, m, l)) = l + 1 - m
  BY <1>2, SubSeqProperties
<1>4. SubSeq(s, m, l) \in Seq(Nat)
  BY <1>2, SubSeqProperties
<1>5. \A n \in 1 .. l + 1 - m : SubSeq(s, m, l)[n] = s[m + n - 1]
  BY <1>2, SubSeqProperties
<1> QED
  BY <1>3, <1>4, <1>5

LEMMA OneBetween ==
    ASSUME NEW c \in Seq(Nat), NEW e \in Nat, NEW d \in Seq(Nat)
    PROVE  /\ c \o <<e>> \o d \in Seq(Nat) /\ Len(c \o <<e>> \o d) = Len(c) + 1 + Len(d)
           /\ \A n \in 1 .. Len(c) + 1 + Len(d) : (c \o <<e>> \o d)[n] =
                  IF n <= Len(c) THEN c[n] ELSE IF n = Len(c) + 1 THEN e ELSE d[n - (Len(c) + 1)]
<1> DEFINE f == <<e>>
           u == c \o f
<1>1. f \in Seq(Nat) /\ Len(f) = 1 /\ f[1] = e
  OBVIOUS
<1> HIDE DEF f
<1>2. /\ u \in Seq(Nat) /\ Len(u) = Len(c) + 1
      /\ \A n \in 1 .. Len(c) + 1 : u[n] = IF n <= Len(c) THEN c[n] ELSE f[n - Len(c)]
  <2>1. /\ c \o f \in Seq(Nat) /\ Len(c \o f) = Len(c) + Len(f)
        /\ \A n \in 1 .. Len(c) + Len(f) : (c \o f)[n] = IF n <= Len(c) THEN c[n] ELSE f[n - Len(c)]
    BY <1>1, Joined
  <2> QED
    BY <1>1, <2>1
<1> HIDE DEF u
<1>3. /\ u \o d \in Seq(Nat) /\ Len(u \o d) = Len(u) + Len(d)
      /\ \A n \in 1 .. Len(u) + Len(d) : (u \o d)[n] = IF n <= Len(u) THEN u[n] ELSE d[n - Len(u)]
  BY <1>2, Joined
<1> DEFINE t == u \o d
<1>4. t = c \o <<e>> \o d
  BY DEF u, f
<1> HIDE DEF t
<1>5. Len(c) \in Nat /\ Len(d) \in Nat
  OBVIOUS
<1>6. ASSUME NEW n \in 1 .. Len(c) + 1 + Len(d)
      PROVE  t[n] = IF n <= Len(c) THEN c[n] ELSE IF n = Len(c) + 1 THEN e ELSE d[n - (Len(c) + 1)]
  <2>0. t[n] = IF n <= Len(u) THEN u[n] ELSE d[n - Len(u)]
    BY <1>2, <1>3, <1>5 DEF t
  <2>1. CASE n <= Len(c)
    <3>1. n <= Len(u) /\ n \in 1 .. Len(c) + 1
      BY <1>2, <1>5, <2>1
    <3> QED
      BY <1>2, <2>0, <2>1, <3>1
  <2>2. CASE n = Len(c) + 1
    <3>1. ~(n <= Len(c)) /\ n - Len(c) = 1 /\ n <= Len(u) /\ n \in 1 .. Len(c) + 1
      BY <1>2, <1>5, <2>2
    <3> QED
      BY <1>1, <1>2, <2>0, <2>2, <3>1
  <2>3. CASE ~(n <= Len(c)) /\ n # Len(c) + 1
    <3>1. ~(n <= Len(u))
      BY <1>2, <1>5, <2>3
    <3> QED
      BY <1>2, <2>0, <2>3, <3>1
  <2> QED
    BY <2>1, <2>2, <2>3
<1> QED
  BY <1>2, <1>3, <1>4, <1>6 DEF t
=============================================================================
