---------------------------- MODULE RecursionFacts ----------------------------
(***************************************************************************)
(* Induction and recursion over data, stated for sets and functions so     *)
(* that they can be cited: induction on the naturals, recursion on the     *)
(* subsets of a finite set, and what SumFunctionOnSet, a fold, adds up.    *)
(***************************************************************************)
EXTENDS Functions, FiniteSetTheorems, WellFoundedInduction, TLAPS

-----------------------------------------------------------------------------
(* Induction *)

LEMMA LeastNat ==
  ASSUME NEW T \in SUBSET Nat, T # {}
  PROVE  \E n \in T : \A m \in T : n <= m
<1> DEFINE R == OpToRel(<, Nat)
<1>1. IsWellFoundedOn(R, Nat)
  BY Zenon, NatLessThanWellFounded
<1>2. \A m, n \in Nat : m < n => <<m, n>> \in R
  BY Zenon DEF R, OpToRel
<1> HIDE DEF R
<1>3. \E n \in T : \A m \in T : ~ (<<m, n>> \in R)
  BY <1>1, WFMin
<1>4. \E n \in T : \A m \in T : ~(m < n)
  BY <1>2, <1>3, Zenon
<1> QED BY <1>4

\* A set that holds 0 and every successor holds all naturals.
LEMMA Induction ==
  ASSUME NEW P, P \in SUBSET Nat, 0 \in P, \A n \in P : n + 1 \in P
  PROVE  P = Nat
<1> SUFFICES ASSUME Nat \ P # {} PROVE FALSE
  OBVIOUS
<1>1. PICK n \in Nat \ P : \A m \in Nat \ P : n <= m
  BY LeastNat
<1> QED BY <1>1

\* Sets of subsets of a finite set that grow by any one element hold them all.
LEMMA SubsetInduction ==
  ASSUME NEW D, IsFiniteSet(D), NEW P, {} \in P,
         \A s \in SUBSET D : s # {} /\ (\A x \in s : s \ {x} \in P) => s \in P
  PROVE  SUBSET D \subseteq P
<1> DEFINE Q == {n \in Nat : \A s \in SUBSET D : Cardinality(s) = n => s \in P}
<1>1. \A s \in SUBSET D : IsFiniteSet(s) /\ Cardinality(s) \in Nat
  BY FS_Subset, FS_CardinalityType
<1>2. 0 \in Q
  BY <1>1, FS_EmptySet
<1>3. ASSUME NEW n \in Q PROVE n + 1 \in Q
  <2> SUFFICES ASSUME NEW s \in SUBSET D, Cardinality(s) = n + 1 PROVE s \in P
    OBVIOUS
  <2>1. s # {}
    BY <1>1, FS_EmptySet
  <2>2. ASSUME NEW x \in s PROVE s \ {x} \in P
    <3>1. Cardinality(s \ {x}) = n
      BY <1>1, FS_RemoveElement
    <3> QED BY <3>1
  <2> QED BY <2>1, <2>2
<1>4. Q = Nat
  <2> HIDE DEF Q
  <2>1. Q \in SUBSET Nat
    BY DEF Q
  <2> QED BY <1>2, <1>3, <2>1, Induction
<1> QED BY <1>1, <1>4

-----------------------------------------------------------------------------
(* Recursion *)

Recurses(f, D, base, pick, step) ==
  \A s \in SUBSET D : f[s] = IF s = {} THEN base ELSE step[<<pick[s], f[s \ {pick[s]}]>>]

(***************************************************************************)
(* A function that is defined on each subset by its value on the subset    *)
(* without one element exists.                                             *)
(***************************************************************************)
LEMMA SubsetRecursion ==
  ASSUME NEW D, IsFiniteSet(D), NEW V, NEW base \in V,
         NEW pick, \A s \in SUBSET D : s # {} => pick[s] \in s,
         NEW step, \A x \in D, v \in V : step[<<x, v>>] \in V
  PROVE  \E f \in [SUBSET D -> V] : Recurses(f, D, base, pick, step)
<1> DEFINE Small(n) == {s \in SUBSET D : Cardinality(s) <= n}
<1> DEFINE Rec(f, s) == f[s] = IF s = {} THEN base ELSE step[<<pick[s], f[s \ {pick[s]}]>>]
<1> DEFINE Exists(n) == \E f \in [Small(n) -> V] : \A s \in Small(n) : Rec(f, s)
<1> DEFINE P == {n \in Nat : Exists(n)}
<1>1. \A s \in SUBSET D :
        IsFiniteSet(s) /\ Cardinality(s) \in Nat /\ Cardinality(s) <= Cardinality(D)
  BY FS_Subset, FS_CardinalityType
<1>2. ASSUME NEW n \in Nat, NEW s \in Small(n + 1), s # {}
      PROVE  s \ {pick[s]} \in Small(n) /\ pick[s] \in D
  <2>1. pick[s] \in s
    BY <1>2
  <2>2. Cardinality(s \ {pick[s]}) = Cardinality(s) - 1
    BY <1>1, <2>1, FS_RemoveElement
  <2>3. Cardinality(s) \in Nat /\ Cardinality(s) <= n + 1
    BY <1>1
  <2>4. Cardinality(s \ {pick[s]}) <= n
    BY <2>2, <2>3
  <2> QED BY <2>1, <2>4
<1>3. 0 \in P
  <2>1. Small(0) = {{}}
    BY <1>1, FS_EmptySet
  <2>2. [s \in Small(0) |-> base] \in [Small(0) -> V]
    OBVIOUS
  <2>3. \A s \in Small(0) : Rec([t \in Small(0) |-> base], s)
    BY <2>1
  <2> QED BY <2>2, <2>3
<1>4. ASSUME NEW n \in P PROVE n + 1 \in P
  <2>1. PICK f \in [Small(n) -> V] : \A s \in Small(n) : Rec(f, s)
    OBVIOUS
  <2> DEFINE g == [s \in Small(n + 1) |->
                     IF s = {} THEN base ELSE step[<<pick[s], f[s \ {pick[s]}]>>]]
  <2>2. g \in [Small(n + 1) -> V]
    BY <1>2
  <2>3. \A s \in Small(n) : s \in Small(n + 1) /\ g[s] = f[s]
    BY <1>1, <2>1
  <2>4. ASSUME NEW s \in Small(n + 1) PROVE Rec(g, s)
    <3>1. CASE s = {}
      BY <3>1
    <3>2. CASE s # {}
      <4>1. g[s \ {pick[s]}] = f[s \ {pick[s]}]
        BY <1>2, <2>3, <3>2
      <4> QED BY <3>2, <4>1
    <3> QED BY <3>1, <3>2
  <2> HIDE DEF g
  <2>5. Exists(n + 1)
    BY <2>2, <2>4
  <2> HIDE DEF Exists
  <2> QED BY <2>5
<1>5. P = Nat
  <2>1. P \in SUBSET Nat
    OBVIOUS
  <2> HIDE DEF P
  <2> QED BY <1>3, <1>4, <2>1, Induction
<1>6. Cardinality(D) \in P /\ Small(Cardinality(D)) = SUBSET D
  <2> HIDE DEF P
  <2> QED BY <1>1, <1>5, FS_CardinalityType
<1> QED BY <1>6 DEF Recurses

-----------------------------------------------------------------------------
(* Sums: SumFunctionOnSet takes the elements out one by one *)

Pick(S) == CHOOSE x \in S : TRUE

LEMMA SumUnfolds ==
  ASSUME NEW f, NEW S
  PROVE  SumFunctionOnSet(f, S) =
           (CHOOSE g : g = [s \in SUBSET S |-> IF s = {} THEN 0
                                               ELSE f[Pick(s)] + g[s \ {Pick(s)}]])[S]
BY Zenon DEF SumFunctionOnSet, FoldFunctionOnSet, MapThenFoldSet, Pick

\* g sums f up over every part of S.
Sums(g, f, S) ==
  \A s \in SUBSET S : g[s] = IF s = {} THEN 0 ELSE f[Pick(s)] + g[s \ {Pick(s)}]

LEMMA SumRecursion ==
  ASSUME NEW S, IsFiniteSet(S), NEW f, \A x \in S : f[x] \in Nat
  PROVE  \E g \in [SUBSET S -> Nat] : SumFunctionOnSet(f, S) = g[S] /\ Sums(g, f, S)
<1> DEFINE Body(g) == [s \in SUBSET S |-> IF s = {} THEN 0 ELSE f[Pick(s)] + g[s \ {Pick(s)}]]
<1> DEFINE pick == [s \in SUBSET S |-> Pick(s)]
<1> DEFINE step == [q \in S \X Nat |-> f[q[1]] + q[2]]
<1>1. \A s \in SUBSET S : s # {} => Pick(s) \in s /\ pick[s] = Pick(s)
  BY DEF Pick
<1>2. \A x \in S, n \in Nat : step[<<x, n>>] = f[x] + n /\ step[<<x, n>>] \in Nat
  OBVIOUS
<1>3. \E g \in [SUBSET S -> Nat] : Recurses(g, S, 0, pick, step)
  <2> DEFINE V == Nat
  <2> DEFINE zero == 0
  <2>1. \A s \in SUBSET S : s # {} => pick[s] \in s
    BY <1>1
  <2>2. \A x \in S, n \in V : step[<<x, n>>] \in V
    BY <1>2
  <2>3. zero \in V
    OBVIOUS
  <2> HIDE DEF pick, step, V, zero
  <2>4. \E g \in [SUBSET S -> V] : Recurses(g, S, zero, pick, step)
    BY <2>1, <2>2, <2>3, SubsetRecursion
  <2> QED BY <2>4 DEF V, zero
<1>4. PICK g \in [SUBSET S -> Nat] : Recurses(g, S, 0, pick, step)
  BY <1>3
<1> HIDE DEF pick, step
<1>5. g = Body(g)
  <2>1. \A s \in SUBSET S : s # {} =>
          step[<<pick[s], g[s \ {pick[s]}]>>] = f[Pick(s)] + g[s \ {Pick(s)}]
    BY <1>1, <1>2
  <2> QED BY <1>4, <2>1 DEF Recurses
<1> DEFINE h == CHOOSE k : k = Body(k)
<1>6. h = Body(h)
  <2> HIDE DEF Body
  <2> QED BY <1>5
<1>7. SumFunctionOnSet(f, S) = h[S]
  BY Zenon, SumUnfolds
<1> HIDE DEF h
<1>8. \A s \in SUBSET S : h[s] = IF s = {} THEN 0 ELSE f[Pick(s)] + h[s \ {Pick(s)}]
  BY <1>6
<1>9. SUBSET S \subseteq {s \in SUBSET S : h[s] \in Nat}
  <2> DEFINE P == {s \in SUBSET S : h[s] \in Nat}
  <2>1. {} \in P
    <3>1. {} \in SUBSET S
      OBVIOUS
    <3>2. h[{}] = 0
      BY <1>8, <3>1, Zenon
    <3> QED BY <3>1, <3>2
  <2>2. ASSUME NEW s \in SUBSET S, s # {}, \A x \in s : s \ {x} \in P
        PROVE  s \in P
    <3>1. Pick(s) \in s /\ h[s] = f[Pick(s)] + h[s \ {Pick(s)}]
      BY <1>1, <1>8, <2>2
    <3>2. h[s \ {Pick(s)}] \in Nat
      BY <2>2, <3>1
    <3> QED BY <3>1, <3>2
  <2> HIDE DEF P
  <2>3. SUBSET S \subseteq P
    BY <2>1, <2>2, SubsetInduction
  <2> QED BY <2>3 DEF P
<1>10. h \in [SUBSET S -> Nat]
  BY <1>6, <1>9
<1> QED BY <1>7, <1>8, <1>10 DEF Sums

\* The sum of a part is what the recursion over the whole has for it.
LEMMA SumOfPart ==
  ASSUME NEW S, IsFiniteSet(S), NEW f, \A x \in S : f[x] \in Nat,
         NEW g \in [SUBSET S -> Nat],
         Sums(g, f, S), NEW T \in SUBSET S
  PROVE  SumFunctionOnSet(f, T) = g[T]
<1>1. IsFiniteSet(T)
  BY FS_Subset
<1>2. \A x \in T : f[x] \in Nat
  OBVIOUS
<1>3. PICK h \in [SUBSET T -> Nat] :
        SumFunctionOnSet(f, T) = h[T] /\ Sums(h, f, T)
  BY <1>1, <1>2, SumRecursion
<1> DEFINE P == {s \in SUBSET T : h[s] = g[s]}
<1>4. {} \in P
  <2>1. {} \in SUBSET T /\ {} \in SUBSET S
    OBVIOUS
  <2>2. h[{}] = 0 /\ g[{}] = 0
    BY <1>3, <2>1, Zenon DEF Sums
  <2> QED BY <2>1, <2>2
<1>5. ASSUME NEW s \in SUBSET T, s # {}, \A x \in s : s \ {x} \in P
      PROVE  s \in P
  <2>1. Pick(s) \in s
    BY <1>5 DEF Pick
  <2>2. h[s \ {Pick(s)}] = g[s \ {Pick(s)}]
    BY <1>5, <2>1
  <2>3. h[s] = f[Pick(s)] + h[s \ {Pick(s)}] /\ g[s] = f[Pick(s)] + g[s \ {Pick(s)}]
    BY <1>3, <1>5 DEF Sums
  <2> QED BY <2>2, <2>3
<1>6. SUBSET T \subseteq P
  <2> HIDE DEF P
  <2>1. \A s \in SUBSET T : s # {} /\ (\A x \in s : s \ {x} \in P) => s \in P
    BY <1>5
  <2> QED BY <1>1, <1>4, <2>1, SubsetInduction
<1> QED BY <1>3, <1>6

LEMMA SumEmpty ==
  ASSUME NEW f
  PROVE  SumFunctionOnSet(f, {}) = 0
<1>1. \A x \in {} : f[x] \in Nat
  OBVIOUS
<1>2. PICK g \in [SUBSET {} -> Nat] :
        SumFunctionOnSet(f, {}) = g[{}] /\ Sums(g, f, {})
  BY <1>1, FS_EmptySet, SumRecursion
<1>3. {} \in SUBSET {}
  OBVIOUS
<1> QED BY <1>2, <1>3, Zenon DEF Sums

LEMMA SumType ==
  ASSUME NEW S, IsFiniteSet(S), NEW f, \A x \in S : f[x] \in Nat
  PROVE  SumFunctionOnSet(f, S) \in Nat
<1>1. PICK g \in [SUBSET S -> Nat] : SumFunctionOnSet(f, S) = g[S]
  BY SumRecursion
<1>2. S \in SUBSET S
  OBVIOUS
<1> QED BY <1>1, <1>2

\* The element that the fold takes first
LEMMA SumPick ==
  ASSUME NEW S, IsFiniteSet(S), S # {}, NEW f, \A x \in S : f[x] \in Nat
  PROVE  SumFunctionOnSet(f, S) = f[Pick(S)] + SumFunctionOnSet(f, S \ {Pick(S)})
<1>1. PICK g \in [SUBSET S -> Nat] :
        SumFunctionOnSet(f, S) = g[S] /\ Sums(g, f, S)
  BY SumRecursion
<1>2. S \ {Pick(S)} \in SUBSET S /\ S \in SUBSET S
  OBVIOUS
<1>3. SumFunctionOnSet(f, S \ {Pick(S)}) = g[S \ {Pick(S)}]
  BY <1>1, <1>2, SumOfPart
<1>4. g[S] = f[Pick(S)] + g[S \ {Pick(S)}]
  BY <1>1, <1>2 DEF Sums
<1> QED BY <1>1, <1>3, <1>4

\* Any element may be taken out first.
LEMMA SumRemove ==
  ASSUME NEW S, IsFiniteSet(S), NEW f, \A x \in S : f[x] \in Nat, NEW x \in S
  PROVE  SumFunctionOnSet(f, S) = f[x] + SumFunctionOnSet(f, S \ {x})
<1> DEFINE Sum(s) == SumFunctionOnSet(f, s)
<1> DEFINE P == {s \in SUBSET S : \A y \in s : Sum(s) = f[y] + Sum(s \ {y})}
<1>1. \A s \in SUBSET S : IsFiniteSet(s) /\ Sum(s) \in Nat
  BY FS_Subset, SumType
<1>2. \A s \in SUBSET S : s # {} => Pick(s) \in s /\ Sum(s) = f[Pick(s)] + Sum(s \ {Pick(s)})
  <2> SUFFICES ASSUME NEW s \in SUBSET S, s # {}
               PROVE  Pick(s) \in s /\ Sum(s) = f[Pick(s)] + Sum(s \ {Pick(s)})
    OBVIOUS
  <2>1. Pick(s) \in s
    BY DEF Pick
  <2>2. \A y \in s : f[y] \in Nat
    OBVIOUS
  <2> QED BY <1>1, <2>1, <2>2, SumPick
<1> HIDE DEF Sum
<1>3. {} \in P
  OBVIOUS
<1>4. ASSUME NEW s \in SUBSET S, s # {}, \A y \in s : s \ {y} \in P
      PROVE  s \in P
  <2> SUFFICES ASSUME NEW y \in s PROVE Sum(s) = f[y] + Sum(s \ {y})
    OBVIOUS
  <2> DEFINE c == Pick(s)
  <2>1. c \in s /\ Sum(s) = f[c] + Sum(s \ {c})
    BY <1>2, <1>4
  <2> HIDE DEF c
  <2>2. CASE y = c
    BY <2>1, <2>2
  <2>3. CASE y # c
    <3> DEFINE r == (s \ {c}) \ {y}
    <3>1. s \ {c} \in P /\ y \in s \ {c} /\ s \ {y} \in P /\ c \in s \ {y}
      BY <1>4, <2>1, <2>3
    <3>2. Sum(s \ {c}) = f[y] + Sum(r)
      BY <3>1
    <3>3. (s \ {y}) \ {c} = r
      OBVIOUS
    <3>4. Sum(s \ {y}) = f[c] + Sum(r)
      BY <3>1, <3>3
    <3>5. f[y] \in Nat /\ f[c] \in Nat /\ Sum(r) \in Nat
      BY <1>1, <2>1
    <3> HIDE DEF r
    <3> QED BY <2>1, <3>2, <3>4, <3>5
  <2> QED BY <2>2, <2>3
<1>5. S \in P
  <2> HIDE DEF P
  <2>1. SUBSET S \subseteq P
    BY <1>3, <1>4, SubsetInduction
  <2> QED BY <2>1
<1> QED BY <1>5 DEF Sum

LEMMA SumMonotone ==
  ASSUME NEW S, IsFiniteSet(S), NEW f, NEW g,
         \A x \in S : f[x] \in Nat /\ g[x] \in Nat /\ f[x] <= g[x]
  PROVE  SumFunctionOnSet(f, S) <= SumFunctionOnSet(g, S)
<1> DEFINE F(s) == SumFunctionOnSet(f, s)
<1> DEFINE G(s) == SumFunctionOnSet(g, s)
<1> DEFINE P == {s \in SUBSET S : F(s) <= G(s)}
<1>1. \A s \in SUBSET S : IsFiniteSet(s) /\ F(s) \in Nat /\ G(s) \in Nat
  BY FS_Subset, SumType
<1>2. {} \in P
  BY SumEmpty
<1>3. ASSUME NEW s \in SUBSET S, s # {}, \A y \in s : s \ {y} \in P
      PROVE  s \in P
  <2>1. PICK y \in s : TRUE
    BY <1>3
  <2>2. F(s) = f[y] + F(s \ {y}) /\ G(s) = g[y] + G(s \ {y})
    BY <1>1, SumRemove
  <2>3. F(s \ {y}) <= G(s \ {y}) /\ F(s \ {y}) \in Nat /\ G(s \ {y}) \in Nat
    BY <1>1, <1>3
  <2>4. f[y] \in Nat /\ g[y] \in Nat /\ f[y] <= g[y]
    OBVIOUS
  <2> HIDE DEF F, G
  <2> QED BY <2>2, <2>3, <2>4
<1>4. S \in P
  <2> HIDE DEF P
  <2>1. SUBSET S \subseteq P
    BY <1>2, <1>3, SubsetInduction
  <2> QED BY <2>1
<1> QED BY <1>4

LEMMA SumBounded ==
  ASSUME NEW S, IsFiniteSet(S), NEW f, NEW m \in Nat,
         \A x \in S : f[x] \in Nat /\ f[x] <= m
  PROVE  SumFunctionOnSet(f, S) <= Cardinality(S) * m
<1> DEFINE F(s) == SumFunctionOnSet(f, s)
<1> DEFINE B(s) == Cardinality(s) * m
<1> DEFINE P == {s \in SUBSET S : F(s) <= B(s)}
<1>1. \A s \in SUBSET S : IsFiniteSet(s) /\ F(s) \in Nat /\ Cardinality(s) \in Nat
  BY FS_Subset, SumType, FS_CardinalityType
<1>2. {} \in P
  BY SumEmpty, FS_EmptySet
<1>3. ASSUME NEW s \in SUBSET S, s # {}, \A y \in s : s \ {y} \in P
      PROVE  s \in P
  <2>1. PICK y \in s : TRUE
    BY <1>3
  <2>2. F(s) = f[y] + F(s \ {y})
    BY <1>1, SumRemove
  <2>3. F(s \ {y}) <= B(s \ {y}) /\ F(s \ {y}) \in Nat
    BY <1>1, <1>3
  <2>4. f[y] \in Nat /\ f[y] <= m
    OBVIOUS
  <2>5. B(s) = B(s \ {y}) + m /\ B(s \ {y}) \in Nat
    <3> DEFINE n == Cardinality(s \ {y})
    <3>1. n \in Nat /\ Cardinality(s) = n + 1
      BY <1>1, FS_RemoveElement
    <3> HIDE DEF n
    <3>2. (n + 1) * m = n * m + m /\ n * m \in Nat
      BY <3>1
    <3> QED BY <3>1, <3>2 DEF n
  <2> HIDE DEF F, B
  <2> QED BY <2>2, <2>3, <2>4, <2>5
<1>4. S \in P
  <2> HIDE DEF P
  <2>1. SUBSET S \subseteq P
    BY <1>2, <1>3, SubsetInduction
  <2> QED BY <2>1
<1> QED BY <1>4
=============================================================================
