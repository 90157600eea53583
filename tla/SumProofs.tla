----------------------------- MODULE SumProofs -----------------------------
(***************************************************************************)
(* Lemmas about SumFunctionOnSet of the community modules: how the sum of  *)
(* a function over a finite set changes with the set and with the values.  *)
(*                                                                         *)
(* The sum is a recursive function on the subsets of the set, so these are *)
(* facts of induction.  The library's induction theorems take an operator, *)
(* which the provers cannot instantiate; SetInduction below takes a set of *)
(* numbers instead, and follows from the least-element principle WFMin.    *)
(***************************************************************************)
EXTENDS Integers, FiniteSets, Functions, FiniteSetTheorems, WellFoundedInduction, TLAPS

\* A set of numbers that is not empty has a least element.
LEMMA Least ==
  ASSUME NEW S, S \subseteq Nat, S # {}
  PROVE  \E m \in S : \A n \in S : m <= n
<1> DEFINE R == OpToRel(<, Nat)
<1>1. IsWellFoundedOn(R, Nat)
  BY NatLessThanWellFounded
<1>2. \A x, y \in Nat : x < y => <<x, y>> \in R
  BY DEF OpToRel
<1> HIDE DEF R
<1>3. PICK m \in S : \A y \in S : ~ (<<y, m>> \in R)
  BY <1>1, WFMin
<1>4. ASSUME NEW n \in S PROVE m <= n
  <2>1. n \in Nat /\ m \in Nat /\ ~(n < m)
    BY <1>2, <1>3
  <2> QED BY <2>1
<1> QED BY <1>4

\* Induction over the numbers, for the set of those that have a property.
LEMMA SetInduction ==
  ASSUME NEW S, S \subseteq Nat, 0 \in S, \A n \in S : n + 1 \in S
  PROVE  S = Nat
<1> SUFFICES ASSUME S # Nat PROVE FALSE
  OBVIOUS
<1> PICK m \in Nat \ S : \A n \in Nat \ S : m <= n
  BY Least
<1>1. m # 0 /\ m - 1 \in Nat /\ m - 1 \notin Nat \ S
  OBVIOUS
<1> QED BY <1>1

----------------------------------------------------------------------------
(* The recursive function behind a sum: it exists, and is the same for every set. *)

Pick(s) == CHOOSE x \in s : TRUE

\* g is the sum of f on the subsets in D, by the recursion of MapThenFoldSet.
Sums(D, f, g) ==
  g = [s \in D |-> IF s = {} THEN 0 ELSE f[Pick(s)] + g[s \ {Pick(s)}]]

UpTo(S, n) == {s \in SUBSET S : Cardinality(s) <= n}

LEMMA PickIn ==
  ASSUME NEW s, s # {}
  PROVE  Pick(s) \in s
BY DEF Pick

LEMMA Smaller ==
  ASSUME NEW s, IsFiniteSet(s), NEW x \in s
  PROVE  /\ Cardinality(s) \in Nat \ {0} /\ IsFiniteSet(s \ {x})
         /\ Cardinality(s \ {x}) = Cardinality(s) - 1
BY FS_RemoveElement, FS_CardinalityType, FS_EmptySet

LEMMA SumsExist ==
  ASSUME NEW S, IsFiniteSet(S), NEW f
  PROVE  \E g : Sums(SUBSET S, f, g)
<1> DEFINE P == {n \in Nat : \E g : Sums(UpTo(S, n), f, g)}
<1>0. ASSUME NEW s \in SUBSET S PROVE IsFiniteSet(s) /\ Cardinality(s) \in Nat
  BY FS_Subset, FS_CardinalityType
<1>1. 0 \in P
  <2> DEFINE g == [s \in UpTo(S, 0) |-> 0]
  <2>1. ASSUME NEW s \in UpTo(S, 0) PROVE s = {}
    BY <1>0, FS_EmptySet DEF UpTo
  <2>2. Sums(UpTo(S, 0), f, g)
    BY <2>1 DEF Sums
  <2> QED BY <2>2
<1>2. ASSUME NEW n \in P PROVE n + 1 \in P
  <2> PICK g : Sums(UpTo(S, n), f, g)
    OBVIOUS
  <2> DEFINE h == [s \in UpTo(S, n + 1) |-> IF s = {} THEN 0 ELSE f[Pick(s)] + g[s \ {Pick(s)}]]
  <2>1. ASSUME NEW s \in UpTo(S, n) PROVE s \in UpTo(S, n + 1) /\ g[s] = h[s]
    <3>1. s \in UpTo(S, n + 1)
      BY <1>0 DEF UpTo
    <3>2. g[s] = IF s = {} THEN 0 ELSE f[Pick(s)] + g[s \ {Pick(s)}]
      BY DEF Sums
    <3> QED BY <3>1, <3>2
  <2>2. ASSUME NEW s \in UpTo(S, n + 1), s # {} PROVE s \ {Pick(s)} \in UpTo(S, n)
    <3>1. s \in SUBSET S /\ Cardinality(s) <= n + 1 /\ Pick(s) \in s
      BY <2>2, PickIn DEF UpTo
    <3>2. Cardinality(s) \in Nat \ {0} /\ Cardinality(s \ {Pick(s)}) = Cardinality(s) - 1
      BY <1>0, <3>1, Smaller
    <3> QED BY <3>1, <3>2 DEF UpTo
  <2> DEFINE k == [s \in UpTo(S, n + 1) |-> IF s = {} THEN 0 ELSE f[Pick(s)] + h[s \ {Pick(s)}]]
  <2>3. ASSUME NEW s \in UpTo(S, n + 1) PROVE h[s] = k[s]
    <3>1. CASE s = {}
      BY <3>1
    <3>2. CASE s # {}
      <4>1. s \ {Pick(s)} \in UpTo(S, n)
        BY <2>2, <3>2
      <4>2. g[s \ {Pick(s)}] = h[s \ {Pick(s)}]
        BY <2>1, <4>1
      <4>3. /\ h[s] = f[Pick(s)] + g[s \ {Pick(s)}]
            /\ k[s] = f[Pick(s)] + h[s \ {Pick(s)}]
        BY <3>2
      <4> HIDE DEF h, k
      <4> QED BY <4>2, <4>3
    <3> QED BY <3>1, <3>2
  <2>4. h = k
    BY <2>3
  <2>5. Sums(UpTo(S, n + 1), f, h)
    BY <2>4 DEF Sums
  <2> QED BY <2>5
<1>3. P = Nat
  BY <1>1, <1>2, SetInduction
<1>4. Cardinality(S) \in Nat /\ UpTo(S, Cardinality(S)) = SUBSET S
  BY <1>0, FS_Subset, FS_CardinalityType DEF UpTo
<1>5. \E g : Sums(UpTo(S, Cardinality(S)), f, g)
  BY <1>3, <1>4
<1> QED BY <1>4, <1>5

\* Two such functions agree on the finite sets they share.
LEMMA SumsAgree ==
  ASSUME NEW S, NEW T, NEW f, NEW g, NEW h, NEW s,
         Sums(SUBSET S, f, g), Sums(SUBSET T, f, h),
         s \subseteq S, s \subseteq T, IsFiniteSet(s)
  PROVE  g[s] = h[s]
<1> DEFINE P == {n \in Nat : \A r \in SUBSET s : Cardinality(r) = n => g[r] = h[r]}
<1>1. ASSUME NEW r \in SUBSET s PROVE IsFiniteSet(r) /\ Cardinality(r) \in Nat
  BY FS_Subset, FS_CardinalityType
<1>2. ASSUME NEW r \in SUBSET s
      PROVE  /\ g[r] = (IF r = {} THEN 0 ELSE f[Pick(r)] + g[r \ {Pick(r)}])
             /\ h[r] = (IF r = {} THEN 0 ELSE f[Pick(r)] + h[r \ {Pick(r)}])
  <2>1. r \in SUBSET S /\ r \in SUBSET T
    OBVIOUS
  <2> QED BY <2>1 DEF Sums
<1>3. 0 \in P
  <2> SUFFICES ASSUME NEW r \in SUBSET s, Cardinality(r) = 0 PROVE g[r] = h[r]
    OBVIOUS
  <2>1. r = {}
    BY <1>1, FS_EmptySet
  <2> QED BY <1>2, <2>1
<1>4. ASSUME NEW n \in P PROVE n + 1 \in P
  <2> SUFFICES ASSUME NEW r \in SUBSET s, Cardinality(r) = n + 1 PROVE g[r] = h[r]
    OBVIOUS
  <2>1. r # {}
    BY FS_EmptySet
  <2>2. Pick(r) \in r
    BY <2>1, PickIn
  <2>3. Cardinality(r \ {Pick(r)}) = n /\ r \ {Pick(r)} \in SUBSET s
    BY <1>1, <2>2, Smaller
  <2>4. g[r \ {Pick(r)}] = h[r \ {Pick(r)}]
    BY <2>3
  <2> QED BY <1>2, <2>1, <2>4
<1>5. P = Nat
  BY <1>3, <1>4, SetInduction
<1>6. Cardinality(s) \in P
  BY <1>1, <1>5
<1> QED BY <1>6

LEMMA SumIs ==
  ASSUME NEW f, NEW S
  PROVE  SumFunctionOnSet(f, S) = (CHOOSE g : Sums(SUBSET S, f, g))[S]
BY DEF SumFunctionOnSet, FoldFunctionOnSet, MapThenFoldSet, Sums, Pick

----------------------------------------------------------------------------
(* Sums of functions with values in Nat. *)

LEMMA SumEmpty == ASSUME NEW f PROVE SumFunctionOnSet(f, {}) = 0
<1> DEFINE g == CHOOSE g : Sums(SUBSET {}, f, g)
<1>1. Sums(SUBSET {}, f, g)
  BY SumsExist, FS_EmptySet
<1> HIDE DEF g
<1>2. g[{}] = 0
  BY <1>1 DEF Sums
<1> QED BY <1>2, SumIs DEF g

\* The sum takes out the element that the recursion picks.
LEMMA SumPick ==
  ASSUME NEW f, NEW S, IsFiniteSet(S), S # {}
  PROVE  SumFunctionOnSet(f, S) = f[Pick(S)] + SumFunctionOnSet(f, S \ {Pick(S)})
<1> DEFINE T == S \ {Pick(S)}
           g == CHOOSE g : Sums(SUBSET S, f, g)
           h == CHOOSE h : Sums(SUBSET T, f, h)
<1>1. IsFiniteSet(T)
  BY FS_RemoveElement
<1>2. Sums(SUBSET S, f, g) /\ Sums(SUBSET T, f, h)
  BY <1>1, SumsExist
<1>3. SumFunctionOnSet(f, S) = g[S] /\ SumFunctionOnSet(f, T) = h[T]
  BY SumIs
<1>4. T \subseteq S
  OBVIOUS
<1> HIDE DEF g, h, T
<1>6. g[T] = h[T]
  BY <1>1, <1>2, <1>4, SumsAgree
<1>5. g[S] = f[Pick(S)] + g[T]
  BY <1>2, <1>4 DEF Sums, T
<1> QED BY <1>3, <1>5, <1>6 DEF T

LEMMA SumNat ==
  ASSUME NEW S, IsFiniteSet(S), NEW f, \A x \in S : f[x] \in Nat
  PROVE  SumFunctionOnSet(f, S) \in Nat
<1> DEFINE P == {n \in Nat : \A s \in SUBSET S : Cardinality(s) = n => SumFunctionOnSet(f, s) \in Nat}
<1>0. ASSUME NEW s \in SUBSET S PROVE IsFiniteSet(s) /\ Cardinality(s) \in Nat
  BY FS_Subset, FS_CardinalityType
<1>1. 0 \in P
  BY <1>0, FS_EmptySet, SumEmpty
<1>2. ASSUME NEW n \in P PROVE n + 1 \in P
  <2> SUFFICES ASSUME NEW s \in SUBSET S, Cardinality(s) = n + 1
               PROVE  SumFunctionOnSet(f, s) \in Nat
    OBVIOUS
  <2>1. s # {} /\ Pick(s) \in s
    BY FS_EmptySet, PickIn
  <2>2. Cardinality(s \ {Pick(s)}) = n /\ s \ {Pick(s)} \in SUBSET S
    BY <1>0, <2>1, Smaller
  <2>3. SumFunctionOnSet(f, s \ {Pick(s)}) \in Nat /\ f[Pick(s)] \in Nat
    BY <2>1, <2>2
  <2> QED BY <1>0, <2>1, <2>3, SumPick
<1>3. P = Nat
  BY <1>1, <1>2, SetInduction
<1>4. Cardinality(S) \in P
  BY <1>0, <1>3
<1> QED BY <1>4

\* It does not matter which element is taken out.
LEMMA SumRemove ==
  ASSUME NEW S, IsFiniteSet(S), NEW f, \A x \in S : f[x] \in Nat, NEW x \in S
  PROVE  SumFunctionOnSet(f, S) = f[x] + SumFunctionOnSet(f, S \ {x})
<1> DEFINE P == {n \in Nat : \A s \in SUBSET S : Cardinality(s) = n =>
                   \A y \in s : SumFunctionOnSet(f, s) = f[y] + SumFunctionOnSet(f, s \ {y})}
<1>0. ASSUME NEW s \in SUBSET S
      PROVE  IsFiniteSet(s) /\ Cardinality(s) \in Nat /\ SumFunctionOnSet(f, s) \in Nat
  <2>1. IsFiniteSet(s) /\ Cardinality(s) \in Nat
    BY FS_Subset, FS_CardinalityType
  <2> QED BY <2>1, SumNat
<1>1. 0 \in P
  BY <1>0, FS_EmptySet
<1>2. ASSUME NEW n \in P PROVE n + 1 \in P
  <2> SUFFICES ASSUME NEW s \in SUBSET S, Cardinality(s) = n + 1, NEW y \in s
               PROVE  SumFunctionOnSet(f, s) = f[y] + SumFunctionOnSet(f, s \ {y})
    OBVIOUS
  <2> DEFINE p == Pick(s)
  <2>1. p \in s /\ SumFunctionOnSet(f, s) = f[p] + SumFunctionOnSet(f, s \ {p})
    BY <1>0, PickIn, SumPick
  <2>2. CASE y = p
    BY <2>1, <2>2
  <2>3. CASE y # p
    <3> HIDE DEF p
    <3>1. /\ s \ {p} \in SUBSET S /\ Cardinality(s \ {p}) = n /\ y \in s \ {p}
          /\ s \ {y} \in SUBSET S /\ Cardinality(s \ {y}) = n /\ p \in s \ {y}
      BY <1>0, <2>1, <2>3, Smaller
    <3>2. SumFunctionOnSet(f, s \ {p}) = f[y] + SumFunctionOnSet(f, (s \ {p}) \ {y})
      BY <3>1
    <3>3. SumFunctionOnSet(f, s \ {y}) = f[p] + SumFunctionOnSet(f, (s \ {y}) \ {p})
      BY <3>1
    <3>4. (s \ {p}) \ {y} = (s \ {y}) \ {p} /\ (s \ {y}) \ {p} \in SUBSET S
      OBVIOUS
    <3>5. f[p] \in Nat /\ f[y] \in Nat /\ SumFunctionOnSet(f, (s \ {y}) \ {p}) \in Nat
      BY <1>0, <2>1, <3>4
    <3>6. PICK rest \in Nat : rest = SumFunctionOnSet(f, (s \ {y}) \ {p})
      BY <3>5
    <3>7. /\ SumFunctionOnSet(f, s \ {p}) = f[y] + rest
          /\ SumFunctionOnSet(f, s \ {y}) = f[p] + rest
      BY <3>2, <3>3, <3>4, <3>6
    <3> HIDE DEF P
    <3> QED BY <2>1, <3>5, <3>7
  <2> QED BY <2>2, <2>3
<1>3. P = Nat
  BY <1>1, <1>2, SetInduction
<1>4. Cardinality(S) \in P
  BY <1>0, <1>3
<1> QED BY <1>4

\* Functions that agree on a set have the same sum over it.
LEMMA SumSame ==
  ASSUME NEW S, IsFiniteSet(S), NEW f, NEW g, \A x \in S : f[x] = g[x]
  PROVE  SumFunctionOnSet(f, S) = SumFunctionOnSet(g, S)
<1> DEFINE P == {n \in Nat : \A s \in SUBSET S : Cardinality(s) = n =>
                   SumFunctionOnSet(f, s) = SumFunctionOnSet(g, s)}
<1>0. ASSUME NEW s \in SUBSET S PROVE IsFiniteSet(s) /\ Cardinality(s) \in Nat
  BY FS_Subset, FS_CardinalityType
<1>1. 0 \in P
  BY <1>0, FS_EmptySet, SumEmpty
<1>2. ASSUME NEW n \in P PROVE n + 1 \in P
  <2> SUFFICES ASSUME NEW s \in SUBSET S, Cardinality(s) = n + 1
               PROVE  SumFunctionOnSet(f, s) = SumFunctionOnSet(g, s)
    OBVIOUS
  <2>1. s # {} /\ Pick(s) \in s
    BY FS_EmptySet, PickIn
  <2>2. Cardinality(s \ {Pick(s)}) = n /\ s \ {Pick(s)} \in SUBSET S
    BY <1>0, <2>1, Smaller
  <2>3. /\ SumFunctionOnSet(f, s \ {Pick(s)}) = SumFunctionOnSet(g, s \ {Pick(s)})
        /\ f[Pick(s)] = g[Pick(s)]
    BY <2>1, <2>2
  <2> QED BY <1>0, <2>1, <2>3, SumPick
<1>3. P = Nat
  BY <1>1, <1>2, SetInduction
<1>4. Cardinality(S) \in P
  BY <1>0, <1>3
<1> QED BY <1>4

----------------------------------------------------------------------------
(* What the proofs of the ledger use. *)

\* A new element adds its value.
LEMMA SumAdd ==
  ASSUME NEW S, IsFiniteSet(S), NEW x, x \notin S, NEW f, \A y \in S \cup {x} : f[y] \in Nat
  PROVE  SumFunctionOnSet(f, S \cup {x}) = SumFunctionOnSet(f, S) + f[x]
<1>1. IsFiniteSet(S \cup {x}) /\ (S \cup {x}) \ {x} = S
  BY FS_AddElement
<1>2. SumFunctionOnSet(f, S \cup {x}) = f[x] + SumFunctionOnSet(f, S)
  BY <1>1, SumRemove
<1>3. SumFunctionOnSet(f, S) \in Nat /\ f[x] \in Nat
  BY SumNat
<1> QED BY <1>2, <1>3

\* No value is more than the sum.
LEMMA SumBounds ==
  ASSUME NEW S, IsFiniteSet(S), NEW f, \A y \in S : f[y] \in Nat, NEW x \in S
  PROVE  f[x] <= SumFunctionOnSet(f, S)
<1>1. IsFiniteSet(S \ {x})
  BY FS_RemoveElement
<1>2. SumFunctionOnSet(f, S) = f[x] + SumFunctionOnSet(f, S \ {x})
  BY SumRemove
<1>3. SumFunctionOnSet(f, S \ {x}) \in Nat /\ f[x] \in Nat
  BY <1>1, SumNat
<1> QED BY <1>2, <1>3

\* One value changes.
LEMMA SumChange ==
  ASSUME NEW S, IsFiniteSet(S), NEW x \in S,
         NEW f, NEW g, \A y \in S : f[y] \in Nat /\ g[y] \in Nat, \A y \in S \ {x} : f[y] = g[y]
  PROVE  SumFunctionOnSet(g, S) = SumFunctionOnSet(f, S) - f[x] + g[x]
<1>1. IsFiniteSet(S \ {x})
  BY FS_RemoveElement
<1>2. SumFunctionOnSet(f, S \ {x}) = SumFunctionOnSet(g, S \ {x})
  BY <1>1, SumSame
<1>3. /\ SumFunctionOnSet(f, S) = f[x] + SumFunctionOnSet(f, S \ {x})
      /\ SumFunctionOnSet(g, S) = g[x] + SumFunctionOnSet(g, S \ {x})
  BY SumRemove
<1>4. SumFunctionOnSet(f, S \ {x}) \in Nat /\ f[x] \in Nat /\ g[x] \in Nat
  BY <1>1, SumNat
<1> QED BY <1>2, <1>3, <1>4

\* Nothing adds up to nothing.
LEMMA SumZero ==
  ASSUME NEW S, IsFiniteSet(S), NEW f, \A x \in S : f[x] = 0
  PROVE  SumFunctionOnSet(f, S) = 0
<1> DEFINE P == {n \in Nat : \A s \in SUBSET S : Cardinality(s) = n => SumFunctionOnSet(f, s) = 0}
<1>0. ASSUME NEW s \in SUBSET S PROVE IsFiniteSet(s) /\ Cardinality(s) \in Nat
  BY FS_Subset, FS_CardinalityType
<1>1. 0 \in P
  BY <1>0, FS_EmptySet, SumEmpty
<1>2. ASSUME NEW n \in P PROVE n + 1 \in P
  <2> SUFFICES ASSUME NEW s \in SUBSET S, Cardinality(s) = n + 1
               PROVE  SumFunctionOnSet(f, s) = 0
    OBVIOUS
  <2>1. s # {} /\ Pick(s) \in s
    BY FS_EmptySet, PickIn
  <2>2. Cardinality(s \ {Pick(s)}) = n /\ s \ {Pick(s)} \in SUBSET S
    BY <1>0, <2>1, Smaller
  <2>3. SumFunctionOnSet(f, s \ {Pick(s)}) = 0 /\ f[Pick(s)] = 0
    BY <2>1, <2>2
  <2> QED BY <1>0, <2>1, <2>3, SumPick
<1>3. P = Nat
  BY <1>1, <1>2, SetInduction
<1>4. Cardinality(S) \in P
  BY <1>0, <1>3
<1> QED BY <1>4
============================================================================
