---------------------------- MODULE Sums_proofs ----------------------------
(***************************************************************************)
(* Finite sums: SumFunction and SumFunctionOnSet of the community modules, *)
(* which the counters and budgets of the models are stated with.  Such a   *)
(* sum is a recursive function over the subsets of the index set; that it  *)
(* exists, and that neither the order of summation nor the choice of the   *)
(* function matters, is by induction on the size of a subset.  The         *)
(* induction rests on the least element of a set of naturals.              *)
(***************************************************************************)
EXTENDS Integers, Functions, FiniteSetTheorems, WellFoundedInduction, TLAPS

\* The element that is summed first, and the partial sums of the subsets of I.
Chosen(s) == CHOOSE x \in s : TRUE

IsSum(g, f, I) ==
  g = [s \in SUBSET I |-> IF s = {} THEN 0 ELSE f[Chosen(s)] + g[s \ {Chosen(s)}]]

\* A sum is the last of the partial sums.
LEMMA SumIsPartial ==
  ASSUME NEW f, NEW I
  PROVE  SumFunctionOnSet(f, I) = (CHOOSE g : IsSum(g, f, I))[I]
BY DEF SumFunctionOnSet, FoldFunctionOnSet, MapThenFoldSet, IsSum, Chosen

\* A set of naturals with 0 and every successor is all of them.
LEMMA Induction ==
  ASSUME NEW T, T \subseteq Nat, 0 \in T, \A n \in T : n + 1 \in T
  PROVE  T = Nat
<1> SUFFICES ASSUME Nat \ T # {} PROVE FALSE
  OBVIOUS
<1>1. PICK n \in Nat \ T : \A m \in Nat \ T : ~ (<<m, n>> \in OpToRel(<, Nat))
  BY NatLessThanWellFounded, WFMin
<1>2. n # 0
  OBVIOUS
<1>3. n - 1 \in Nat /\ n - 1 < n
  BY <1>2
<1>4. <<n - 1, n>> \in OpToRel(<, Nat)
  BY <1>3 DEF OpToRel
<1>5. n - 1 \in T
  BY <1>1, <1>3, <1>4
<1> QED
  BY <1>5

\* Taking an element off.
LEMMA ChosenIn == ASSUME NEW s, s # {} PROVE Chosen(s) \in s
BY DEF Chosen

LEMMA Smaller ==
  ASSUME NEW s, IsFiniteSet(s), NEW x \in s
  PROVE  /\ IsFiniteSet(s \ {x}) /\ Cardinality(s) \in Nat \ {0}
         /\ Cardinality(s \ {x}) = Cardinality(s) - 1
<1>1. IsFiniteSet(s \ {x}) /\ Cardinality(s \ {x}) = Cardinality(s) - 1
  BY FS_RemoveElement
<1>2. Cardinality(s) \in Nat /\ Cardinality(s \ {x}) \in Nat
  BY <1>1, FS_CardinalityType
<1> QED
  BY <1>1, <1>2

\* The partial sums of the subsets of up to n elements.
Small(n, I) == {s \in SUBSET I : Cardinality(s) <= n}
SumsSmall(g, f, I, n) ==
  /\ g \in [Small(n, I) -> Int]
  /\ \A s \in Small(n, I) :
       g[s] = IF s = {} THEN 0 ELSE f[Chosen(s)] + g[s \ {Chosen(s)}]

\* The partial sums exist, and are integers.
LEMMA PartialSums ==
  ASSUME NEW I, IsFiniteSet(I), NEW f, \A x \in I : f[x] \in Int
  PROVE  \E g : IsSum(g, f, I) /\ g \in [SUBSET I -> Int]
<1> DEFINE T == {n \in Nat : \E g : SumsSmall(g, f, I, n)}
<1>0. \A s \in SUBSET I : IsFiniteSet(s) /\ Cardinality(s) \in Nat
  BY FS_Subset, FS_CardinalityType
<1>1. 0 \in T
  <2> DEFINE g == [s \in Small(0, I) |-> 0]
  <2>1. \A s \in Small(0, I) : s = {}
    BY <1>0, FS_EmptySet DEF Small
  <2>2. SumsSmall(g, f, I, 0)
    BY <2>1 DEF SumsSmall
  <2> QED
    BY <2>2
<1>2. ASSUME NEW n \in T PROVE n + 1 \in T
  <2>1. PICK g : SumsSmall(g, f, I, n)
    BY <1>2
  <2> DEFINE h == [s \in Small(n + 1, I) |->
                     IF s = {} THEN 0 ELSE f[Chosen(s)] + g[s \ {Chosen(s)}]]
  <2>2. ASSUME NEW s \in Small(n + 1, I), s # {}
        PROVE  Chosen(s) \in I /\ s \ {Chosen(s)} \in Small(n, I)
    <3>1. Chosen(s) \in s
      BY <2>2, ChosenIn
    <3>2. Cardinality(s \ {Chosen(s)}) = Cardinality(s) - 1 /\ Cardinality(s) \in Nat
      BY <1>0, <3>1, Smaller DEF Small
    <3> QED
      BY <3>1, <3>2 DEF Small
  <2>3. h \in [Small(n + 1, I) -> Int]
    BY <2>1, <2>2 DEF SumsSmall
  <2>4. ASSUME NEW s \in Small(n, I) PROVE s \in Small(n + 1, I) /\ h[s] = g[s]
    <3>1. s \in Small(n + 1, I)
      BY <1>0 DEF Small
    <3> QED
      BY <2>1, <3>1 DEF SumsSmall
  <2>5. ASSUME NEW s \in Small(n + 1, I)
        PROVE  h[s] = IF s = {} THEN 0 ELSE f[Chosen(s)] + h[s \ {Chosen(s)}]
    <3> CASE s = {}
      OBVIOUS
    <3> CASE s # {}
      BY <2>2, <2>4
    <3> QED
      OBVIOUS
  <2>6. SumsSmall(h, f, I, n + 1)
    BY <2>3, <2>5 DEF SumsSmall
  <2> QED
    BY <2>6
<1>3. T = Nat
  <2> HIDE DEF T
  <2>1. T \subseteq Nat
    BY DEF T
  <2> QED
    BY <1>1, <1>2, <2>1, Induction
<1>4. Cardinality(I) \in Nat /\ Small(Cardinality(I), I) = SUBSET I
  BY FS_CardinalityType, FS_Subset DEF Small
<1>5. PICK g : SumsSmall(g, f, I, Cardinality(I))
  BY <1>3, <1>4
<1>6. IsSum(g, f, I) /\ g \in [SUBSET I -> Int]
  BY <1>4, <1>5 DEF SumsSmall, IsSum
<1> QED
  BY <1>6

\* The sum of a set, one element taken off, over one choice of partial sums.
LEMMA SumsAreOne ==
  ASSUME NEW I, IsFiniteSet(I), NEW J, IsFiniteSet(J), NEW f, NEW e,
         NEW g, IsSum(g, f, I), NEW h, IsSum(h, e, J),
         NEW K, K \subseteq I, K \subseteq J, \A x \in K : f[x] = e[x]
  PROVE  g[K] = h[K]
<1> DEFINE T == {n \in Nat : \A s \in SUBSET K : Cardinality(s) = n => g[s] = h[s]}
<1>0. \A s \in SUBSET K : IsFiniteSet(s) /\ Cardinality(s) \in Nat
  BY FS_Subset, FS_CardinalityType
<1>1. 0 \in T
  <2>1. ASSUME NEW s \in SUBSET K, Cardinality(s) = 0 PROVE g[s] = h[s]
    BY <2>1, <1>0, FS_EmptySet DEF IsSum
  <2> QED
    BY <2>1
<1>2. ASSUME NEW n \in T PROVE n + 1 \in T
  <2>1. ASSUME NEW s \in SUBSET K, Cardinality(s) = n + 1 PROVE g[s] = h[s]
    <3>1. s # {}
      <4>1. n + 1 # 0
        OBVIOUS
      <4>2. Cardinality({}) = 0
        BY FS_EmptySet
      <4> QED
        BY <2>1, <4>1, <4>2
    <3>2. Chosen(s) \in s
      BY <3>1, ChosenIn
    <3>3. Cardinality(s \ {Chosen(s)}) = n
      BY <1>0, <2>1, <3>2, Smaller
    <3>4. g[s \ {Chosen(s)}] = h[s \ {Chosen(s)}]
      <4> DEFINE u == s \ {Chosen(s)}
      <4>1. u \in SUBSET K /\ Cardinality(u) = n
        BY <3>3
      <4> HIDE DEF u
      <4>2. g[u] = h[u]
        BY <4>1, <1>2
      <4> QED
        BY <4>2 DEF u
    <3>5. g[s] = f[Chosen(s)] + g[s \ {Chosen(s)}]
      BY <3>1 DEF IsSum
    <3>6. h[s] = e[Chosen(s)] + h[s \ {Chosen(s)}]
      BY <3>1 DEF IsSum
    <3> QED
      BY <3>2, <3>4, <3>5, <3>6
  <2> QED
    BY <2>1
<1>3. T = Nat
  <2> HIDE DEF T
  <2>1. T \subseteq Nat
    BY DEF T
  <2> QED
    BY <1>1, <1>2, <2>1, Induction
<1> QED
  BY <1>0, <1>3

\* Any partial sums will do.
LEMMA SumIsAny ==
  ASSUME NEW I, IsFiniteSet(I), NEW f, \A x \in I : f[x] \in Int,
         NEW J, IsFiniteSet(J), I \subseteq J, NEW g, IsSum(g, f, J)
  PROVE  SumFunctionOnSet(f, I) = g[I]
<1>1. \E h : IsSum(h, f, I)
  BY PartialSums
<1> DEFINE h == CHOOSE h : IsSum(h, f, I)
<1>2. IsSum(h, f, I)
  BY <1>1
<1>3. SumFunctionOnSet(f, I) = h[I]
  BY SumIsPartial
<1> QED
  BY <1>2, <1>3, SumsAreOne

\* A sum of integers is an integer.
LEMMA SumType ==
  ASSUME NEW I, IsFiniteSet(I), NEW f, \A x \in I : f[x] \in Int
  PROVE  SumFunctionOnSet(f, I) \in Int
<1>1. PICK g : IsSum(g, f, I) /\ g \in [SUBSET I -> Int]
  BY PartialSums
<1>2. SumFunctionOnSet(f, I) = g[I]
  BY <1>1, SumIsAny
<1> QED
  BY <1>1, <1>2

\* Nothing sums to 0.
LEMMA SumEmpty == \A f : SumFunctionOnSet(f, {}) = 0
<1> SUFFICES ASSUME NEW f PROVE SumFunctionOnSet(f, {}) = 0
  OBVIOUS
<1>1. IsFiniteSet({})
  BY FS_EmptySet
<1>2. PICK g : IsSum(g, f, {})
  BY <1>1, PartialSums
<1>3. SumFunctionOnSet(f, {}) = g[{}]
  BY <1>1, <1>2, SumIsAny
<1> QED
  BY <1>2, <1>3 DEF IsSum

\* Only the terms matter.
LEMMA SumSame ==
  ASSUME NEW I, IsFiniteSet(I), NEW f, NEW e, \A x \in I : f[x] \in Int /\ f[x] = e[x]
  PROVE  SumFunctionOnSet(f, I) = SumFunctionOnSet(e, I)
<1>1. PICK g : IsSum(g, f, I)
  BY PartialSums
<1>2. PICK h : IsSum(h, e, I)
  BY PartialSums
<1>3. SumFunctionOnSet(f, I) = g[I]
  BY <1>1, SumIsAny
<1>4. SumFunctionOnSet(e, I) = h[I]
  BY <1>2, SumIsAny
<1> QED
  BY <1>1, <1>2, <1>3, <1>4, SumsAreOne

\* The element that is summed last may be any.
LEMMA SumTakesAny ==
  ASSUME NEW I, IsFiniteSet(I), NEW f, \A x \in I : f[x] \in Int, NEW x \in I
  PROVE  SumFunctionOnSet(f, I) = f[x] + SumFunctionOnSet(f, I \ {x})
<1>1. PICK g : IsSum(g, f, I) /\ g \in [SUBSET I -> Int]
  BY PartialSums
<1> DEFINE T == {n \in Nat : \A s \in SUBSET I : \A y \in s :
                   Cardinality(s) = n => g[s] = f[y] + g[s \ {y}]}
<1>0. \A s \in SUBSET I : IsFiniteSet(s) /\ Cardinality(s) \in Nat
  BY FS_Subset, FS_CardinalityType
<1>2. 0 \in T
  BY <1>0, FS_EmptySet
<1>3. ASSUME NEW n \in T PROVE n + 1 \in T
  <2>1. ASSUME NEW s \in SUBSET I, NEW y \in s, Cardinality(s) = n + 1
        PROVE  g[s] = f[y] + g[s \ {y}]
    <3> DEFINE c == Chosen(s)
    <3>1. c \in s
      BY ChosenIn
    <3> HIDE DEF c
    <3>2. g[s] = f[c] + g[s \ {c}]
      BY <1>1 DEF IsSum, c
    <3>3. CASE c = y
      BY <3>2, <3>3
    <3>4. CASE c # y
      <4>1. Cardinality(s \ {c}) = n /\ Cardinality(s \ {y}) = n
        BY <1>0, <2>1, <3>1, Smaller
      <4>2. y \in s \ {c} /\ c \in s \ {y} /\ (s \ {c}) \ {y} = (s \ {y}) \ {c}
        BY <3>1, <3>4
      <4>3. s \ {c} \in SUBSET I /\ s \ {y} \in SUBSET I
        OBVIOUS
      <4>7. \A u \in SUBSET I : \A z \in u : Cardinality(u) = n => g[u] = f[z] + g[u \ {z}]
        BY <1>3
      <4>4. g[s \ {c}] = f[y] + g[(s \ {c}) \ {y}]
        BY <4>1, <4>2, <4>3, <4>7
      <4>5. g[s \ {y}] = f[c] + g[(s \ {y}) \ {c}]
        BY <4>1, <4>2, <4>3, <4>7
      <4>6. f[c] \in Int /\ f[y] \in Int /\ g[(s \ {c}) \ {y}] \in Int
        BY <1>1, <3>1
      <4>8. g[s] = f[c] + (f[y] + g[(s \ {c}) \ {y}])
        BY <3>2, <4>4
      <4>9. g[s \ {y}] = f[c] + g[(s \ {c}) \ {y}]
        BY <4>2, <4>5
      <4> DEFINE rest == g[(s \ {c}) \ {y}]
      <4> HIDE DEF rest
      <4> QED
        BY <4>6, <4>8, <4>9 DEF rest
    <3> QED
      BY <3>3, <3>4
  <2> QED
    BY <2>1
<1>4. T = Nat
  <2> HIDE DEF T
  <2>1. T \subseteq Nat
    BY DEF T
  <2> QED
    BY <1>2, <1>3, <2>1, Induction
<1>5. g[I] = f[x] + g[I \ {x}]
  BY <1>0, <1>4
<1>6. SumFunctionOnSet(f, I) = g[I]
  BY <1>1, SumIsAny
<1>7. IsFiniteSet(I \ {x}) /\ \A y \in I \ {x} : f[y] \in Int
  BY <1>0
<1>8. SumFunctionOnSet(f, I \ {x}) = g[I \ {x}]
  BY <1>1, <1>7, SumIsAny
<1> QED
  BY <1>5, <1>6, <1>8

\* One term changes by what the sum changes by.
LEMMA SumChanges ==
  ASSUME NEW I, IsFiniteSet(I), NEW x \in I, NEW f, NEW e,
         \A y \in I : f[y] \in Int /\ e[y] \in Int, \A y \in I \ {x} : f[y] = e[y]
  PROVE  SumFunctionOnSet(e, I) = SumFunctionOnSet(f, I) + (e[x] - f[x])
<1>1. IsFiniteSet(I \ {x})
  BY FS_Subset
<1>2. SumFunctionOnSet(f, I) = f[x] + SumFunctionOnSet(f, I \ {x})
  BY SumTakesAny
<1>3. SumFunctionOnSet(e, I) = e[x] + SumFunctionOnSet(e, I \ {x})
  BY SumTakesAny
<1>4. SumFunctionOnSet(f, I \ {x}) = SumFunctionOnSet(e, I \ {x})
  BY <1>1, SumSame
<1>5. SumFunctionOnSet(f, I \ {x}) \in Int
  BY <1>1, SumType
<1> QED
  BY <1>2, <1>3, <1>4, <1>5
\* Zeros sum to 0.
LEMMA SumOfZeros ==
  ASSUME NEW I, IsFiniteSet(I), NEW f, \A x \in I : f[x] = 0
  PROVE  SumFunctionOnSet(f, I) = 0
<1> DEFINE T == {n \in Nat : \A s \in SUBSET I : Cardinality(s) = n => SumFunctionOnSet(f, s) = 0}
<1>0. \A s \in SUBSET I : IsFiniteSet(s) /\ Cardinality(s) \in Nat
  BY FS_Subset, FS_CardinalityType
<1>1. 0 \in T
  BY <1>0, FS_EmptySet, SumEmpty
<1>2. ASSUME NEW n \in T PROVE n + 1 \in T
  <2>1. ASSUME NEW s \in SUBSET I, Cardinality(s) = n + 1 PROVE SumFunctionOnSet(f, s) = 0
    <3>1. s # {}
      BY <2>1, FS_EmptySet
    <3>2. PICK x \in s : TRUE
      BY <3>1
    <3> DEFINE u == s \ {x}
    <3>3. u \in SUBSET I /\ Cardinality(u) = n
      BY <1>0, <2>1, Smaller
    <3>4. SumFunctionOnSet(f, s) = f[x] + SumFunctionOnSet(f, u)
      BY <1>0, SumTakesAny
    <3> HIDE DEF u
    <3>5. SumFunctionOnSet(f, u) = 0
      BY <1>2, <3>3
    <3> QED
      BY <3>4, <3>5
  <2> QED
    BY <2>1
<1>3. T = Nat
  <2> HIDE DEF T
  <2>1. T \subseteq Nat
    BY DEF T
  <2> QED
    BY <1>1, <1>2, <2>1, Induction
<1> QED
  BY <1>0, <1>3
=============================================================================
