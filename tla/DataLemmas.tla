----------------------------- MODULE DataLemmas -----------------------------
(***************************************************************************)
(* Lemmas about the data the models are built from.  Most are about        *)
(* SumFunctionOnSet, the fold the models add money up with.  It is defined *)
(* by choosing one index after another; what the proofs need is that the   *)
(* order does not matter: an index can be taken out of a sum, or put in,   *)
(* whichever it is.  Induction is over sets and over numbers, by a least   *)
(* counterexample.  The others are about division and about the rows of a  *)
(* table, a sequence.                                                      *)
(***************************************************************************)
EXTENDS Functions, Sequences, FiniteSets, FiniteSetTheorems, SequenceTheorems,
        WellFoundedInduction, TLAPS

Chosen(s) == CHOOSE x \in s : TRUE

(* One unfolding of the fold over the subsets of S.                        *)
Unfolded(f, S, sum) ==
  [s \in SUBSET S |-> IF s = {} THEN 0 ELSE f[Chosen(s)] + sum[s \ {Chosen(s)}]]

Fold(f, S) == CHOOSE sum : sum = Unfolded(f, S, sum)

-----------------------------------------------------------------------------

(* What holds of a finite set when it holds of every set with one element  *)
(* less holds of all subsets.                                              *)
LEMMA SubsetInduction ==
  ASSUME NEW S, IsFiniteSet(S), NEW Good,
         \A T \in SUBSET S : (\A x \in T : T \ {x} \in Good) => T \in Good
  PROVE  \A T \in SUBSET S : T \in Good
<1> DEFINE Bad == {T \in SUBSET S : T \notin Good}
<1> SUFFICES ASSUME Bad # {} PROVE FALSE
  OBVIOUS
<1>1. IsWellFoundedOn(StrictSubsetOrdering(S), SUBSET S)
  <2>1. FiniteSubsetsOf(S) = SUBSET S
    BY FS_FiniteSubsetsOfFinite
  <2>2. IsWellFoundedOn(StrictSubsetOrdering(S), FiniteSubsetsOf(S))
    BY FS_StrictSubsetOrderingWellFounded
  <2> QED
    BY <2>1, <2>2
<1>2. PICK T \in Bad : \A U \in Bad : <<U, T>> \notin StrictSubsetOrdering(S)
  <2> HIDE DEF Bad
  <2>1. Bad \subseteq SUBSET S
    BY DEF Bad
  <2> QED
    BY <1>1, <2>1, WFMin
<1>3. \A x \in T : T \ {x} \in Good
  <2> SUFFICES ASSUME NEW x \in T, T \ {x} \notin Good PROVE FALSE
    OBVIOUS
  <2>1. T \ {x} \in Bad
    OBVIOUS
  <2>2. <<T \ {x}, T>> \in StrictSubsetOrdering(S)
    BY DEF StrictSubsetOrdering
  <2> QED
    BY <1>2, <2>1, <2>2
<1> QED
  BY <1>3

LEMMA NatSetInduction ==
  ASSUME NEW N, 0 \in N, \A n \in Nat : n \in N => n + 1 \in N
  PROVE  \A n \in Nat : n \in N
<1> DEFINE Bad == {n \in Nat : n \notin N}
<1> SUFFICES ASSUME Bad # {} PROVE FALSE
  OBVIOUS
<1>1. PICK n \in Bad : \A m \in Bad : <<m, n>> \notin OpToRel(<, Nat)
  <2> HIDE DEF Bad
  <2>1. Bad \subseteq Nat
    BY DEF Bad
  <2> QED
    BY <2>1, NatLessThanWellFounded, WFMin
<1>2. n \in Nat /\ n # 0 /\ n - 1 \in Nat
  OBVIOUS
<1>3. n - 1 \in Bad
  BY <1>2, (n - 1) + 1 = n
<1>4. <<n - 1, n>> \in OpToRel(<, Nat)
  BY <1>2 DEF OpToRel
<1> QED
  BY <1>1, <1>3, <1>4

-----------------------------------------------------------------------------

(* A finite set has a function that unfolds to itself, and Fold is one.    *)
LEMMA FoldUnfolds ==
  ASSUME NEW S, IsFiniteSet(S), NEW f
  PROVE  Fold(f, S) = Unfolded(f, S, Fold(f, S))
<1> DEFINE Term(sum, s) == IF s = {} THEN 0 ELSE f[Chosen(s)] + sum[s \ {Chosen(s)}]
           UpTo(n) == {s \in SUBSET S : Cardinality(s) <= n}
           N == {n \in Nat : \E sum : \A s \in UpTo(n) : sum[s] = Term(sum, s)}
<1>1. \A s \in SUBSET S : Cardinality(s) \in Nat
  BY FS_Subset, FS_CardinalityType
<1>2. \A s \in SUBSET S : s # {} => /\ Chosen(s) \in s
                                    /\ s \ {Chosen(s)} \in SUBSET S
                                    /\ Cardinality(s \ {Chosen(s)}) = Cardinality(s) - 1
  BY FS_Subset, FS_RemoveElement DEF Chosen
<1>3. \A s \in SUBSET S : Cardinality(s) = 0 <=> s = {}
  BY FS_Subset, FS_EmptySet
<1>4. 0 \in N
  <2> DEFINE zero == [s \in SUBSET S |-> 0]
  <2>1. \A s \in UpTo(0) : zero[s] = Term(zero, s)
    BY <1>1, <1>3
  <2> QED
    BY <2>1
<1>5. \A n \in Nat : n \in N => n + 1 \in N
  <2> SUFFICES ASSUME NEW n \in Nat, n \in N PROVE n + 1 \in N
    OBVIOUS
  <2>0. PICK sum : \A s \in UpTo(n) : sum[s] = Term(sum, s)
    OBVIOUS
  <2> DEFINE new == [s \in SUBSET S |-> Term(sum, s)]
  <2>1. ASSUME NEW s \in UpTo(n + 1), s # {} PROVE new[s] = Term(new, s)
    <3>1. s \ {Chosen(s)} \in UpTo(n)
      BY <1>1, <1>2, <2>1
    <3>2. sum[s \ {Chosen(s)}] = new[s \ {Chosen(s)}]
      BY <2>0, <3>1
    <3> QED
      BY <2>1, <3>2
  <2>2. \A s \in UpTo(n + 1) : new[s] = Term(new, s)
    BY <2>1
  <2>3. n + 1 \in Nat
    OBVIOUS
  <2> HIDE DEF new, Term, UpTo
  <2> QED
    BY <2>2, <2>3
<1>6. Cardinality(S) \in N
  <2> HIDE DEF N
  <2>1. Cardinality(S) \in Nat
    BY FS_CardinalityType
  <2> QED
    BY <1>4, <1>5, <2>1, NatSetInduction
<1>7. PICK sum : \A s \in SUBSET S : sum[s] = Term(sum, s)
  BY <1>6, FS_Subset
<1> DEFINE total == [s \in SUBSET S |-> sum[s]]
<1>8. total = Unfolded(f, S, total)
  <2>1. \A s \in SUBSET S : total[s] = Term(total, s)
    BY <1>2, <1>7
  <2> QED
    BY <2>1 DEF Unfolded
<1> QED
  BY <1>8 DEF Fold

LEMMA FoldAt ==
  ASSUME NEW S, IsFiniteSet(S), NEW f, NEW T \in SUBSET S
  PROVE  Fold(f, S)[T] = IF T = {} THEN 0 ELSE f[Chosen(T)] + Fold(f, S)[T \ {Chosen(T)}]
<1> DEFINE sum == Fold(f, S)
<1>1. sum = Unfolded(f, S, sum)
  BY FoldUnfolds
<1> HIDE DEF sum
<1>2. Unfolded(f, S, sum)[T] = IF T = {} THEN 0 ELSE f[Chosen(T)] + sum[T \ {Chosen(T)}]
  BY DEF Unfolded
<1>3. sum[T] = IF T = {} THEN 0 ELSE f[Chosen(T)] + sum[T \ {Chosen(T)}]
  BY <1>1, <1>2
<1> QED
  BY <1>3 DEF sum

(* Two folds agree wherever both are defined, on equal numbers.            *)
LEMMA FoldsAgree ==
  ASSUME NEW S, IsFiniteSet(S), NEW T, IsFiniteSet(T), NEW f, NEW g,
         NEW U, U \subseteq S \cap T, \A x \in U : f[x] = g[x]
  PROVE  Fold(f, S)[U] = Fold(g, T)[U]
<1> DEFINE Good == {V \in SUBSET U : Fold(f, S)[V] = Fold(g, T)[V]}
<1>1. IsFiniteSet(U)
  BY FS_Subset
<1>2. ASSUME NEW V \in SUBSET U, \A x \in V : V \ {x} \in Good
      PROVE  V \in Good
  <2>1. /\ Fold(f, S)[V] = IF V = {} THEN 0 ELSE f[Chosen(V)] + Fold(f, S)[V \ {Chosen(V)}]
        /\ Fold(g, T)[V] = IF V = {} THEN 0 ELSE g[Chosen(V)] + Fold(g, T)[V \ {Chosen(V)}]
    BY FoldAt
  <2>2. CASE V = {}
    BY <2>1, <2>2
  <2>3. CASE V # {}
    <3>1. Chosen(V) \in V
      BY <2>3 DEF Chosen
    <3>2. Fold(f, S)[V \ {Chosen(V)}] = Fold(g, T)[V \ {Chosen(V)}]
      BY <1>2, <3>1
    <3>3. f[Chosen(V)] = g[Chosen(V)]
      BY <3>1
    <3> QED
      BY <2>1, <2>3, <3>2, <3>3
  <2> QED
    BY <2>2, <2>3
<1> HIDE DEF Good
<1>3. \A V \in SUBSET U : V \in Good
  BY <1>1, <1>2, SubsetInduction
<1> QED
  BY <1>3 DEF Good

-----------------------------------------------------------------------------

LEMMA SumIsFold ==
  ASSUME NEW f, NEW S
  PROVE  SumFunctionOnSet(f, S) = Fold(f, S)[S]
BY DEF SumFunctionOnSet, FoldFunctionOnSet, MapThenFoldSet, Fold, Unfolded, Chosen

LEMMA SumEmpty == \A f : SumFunctionOnSet(f, {}) = 0
BY SumIsFold, FoldAt, FS_EmptySet

LEMMA SumUnfolds ==
  ASSUME NEW S, IsFiniteSet(S), S # {}, NEW f
  PROVE  /\ Chosen(S) \in S
         /\ SumFunctionOnSet(f, S) = f[Chosen(S)] + SumFunctionOnSet(f, S \ {Chosen(S)})
<1>1. Chosen(S) \in S
  BY DEF Chosen
<1>2. SumFunctionOnSet(f, S) = f[Chosen(S)] + Fold(f, S)[S \ {Chosen(S)}]
  BY SumIsFold, FoldAt
<1>3. IsFiniteSet(S \ {Chosen(S)})
  BY FS_RemoveElement
<1>4. Fold(f, S)[S \ {Chosen(S)}] = Fold(f, S \ {Chosen(S)})[S \ {Chosen(S)}]
  BY <1>3, FoldsAgree
<1> QED
  BY <1>1, <1>2, <1>4, SumIsFold

(* Sums of equal numbers are equal.                                        *)
LEMMA SumsEqual ==
  ASSUME NEW S, IsFiniteSet(S), NEW f, NEW g, \A x \in S : f[x] = g[x]
  PROVE  SumFunctionOnSet(f, S) = SumFunctionOnSet(g, S)
BY SumIsFold, FoldsAgree

(* A sum of integers is one.                                               *)
LEMMA SumType ==
  ASSUME NEW S, IsFiniteSet(S), NEW f, \A x \in S : f[x] \in Int
  PROVE  SumFunctionOnSet(f, S) \in Int
<1> DEFINE Good == {T \in SUBSET S : SumFunctionOnSet(f, T) \in Int}
<1>1. ASSUME NEW T \in SUBSET S, \A x \in T : T \ {x} \in Good
      PROVE  T \in Good
  <2>1. CASE T = {}
    BY <2>1, SumEmpty
  <2>2. CASE T # {}
    <3>1. IsFiniteSet(T)
      BY FS_Subset
    <3>2. /\ Chosen(T) \in T
          /\ SumFunctionOnSet(f, T) = f[Chosen(T)] + SumFunctionOnSet(f, T \ {Chosen(T)})
      BY <2>2, <3>1, SumUnfolds
    <3> QED
      BY <1>1, <3>2
  <2> QED
    BY <2>1, <2>2
<1> HIDE DEF Good
<1>2. \A T \in SUBSET S : T \in Good
  BY <1>1, SubsetInduction
<1> QED
  BY <1>2 DEF Good

(* Any element can be taken out of a sum of integers.                      *)
LEMMA SumRemove ==
  ASSUME NEW S, IsFiniteSet(S), NEW f, \A x \in S : f[x] \in Int, NEW x \in S
  PROVE  SumFunctionOnSet(f, S) = f[x] + SumFunctionOnSet(f, S \ {x})
<1> DEFINE Good == {T \in SUBSET S : \A y \in T :
                      SumFunctionOnSet(f, T) = f[y] + SumFunctionOnSet(f, T \ {y})}
<1>1. ASSUME NEW T \in SUBSET S, \A z \in T : T \ {z} \in Good, NEW y \in T
      PROVE  SumFunctionOnSet(f, T) = f[y] + SumFunctionOnSet(f, T \ {y})
  <2>1. IsFiniteSet(T)
    BY FS_Subset
  <2> DEFINE p == Chosen(T)
  <2>2. p \in T /\ SumFunctionOnSet(f, T) = f[p] + SumFunctionOnSet(f, T \ {p})
    BY <2>1, SumUnfolds
  <2>3. CASE p = y
    BY <2>2, <2>3
  <2>4. CASE p # y
    <3> DEFINE rest == SumFunctionOnSet(f, T \ {p, y})
    <3>1. (T \ {p}) \ {y} = T \ {p, y} /\ (T \ {y}) \ {p} = T \ {p, y}
      OBVIOUS
    <3>2. SumFunctionOnSet(f, T \ {p}) = f[y] + rest
      BY <1>1, <2>2, <2>4, <3>1
    <3>3. SumFunctionOnSet(f, T \ {y}) = f[p] + rest
      BY <1>1, <2>2, <2>4, <3>1
    <3>4. rest \in Int
      BY <2>1, FS_Difference, SumType
    <3>5. f[p] \in Int /\ f[y] \in Int
      BY <2>2
    <3> HIDE DEF p, rest
    <3> QED
      BY <2>2, <3>2, <3>3, <3>4, <3>5
  <2> QED
    BY <2>3, <2>4
<1>2. \A T \in SUBSET S : (\A z \in T : T \ {z} \in Good) => T \in Good
  BY <1>1
<1> HIDE DEF Good
<1>3. \A T \in SUBSET S : T \in Good
  BY <1>2, SubsetInduction
<1> QED
  BY <1>3 DEF Good

(* And a new one put in.                                                   *)
LEMMA SumAdd ==
  ASSUME NEW S, IsFiniteSet(S), NEW x, x \notin S,
         NEW f, \A y \in S \cup {x} : f[y] \in Int
  PROVE  SumFunctionOnSet(f, S \cup {x}) = f[x] + SumFunctionOnSet(f, S)
<1>1. IsFiniteSet(S \cup {x}) /\ (S \cup {x}) \ {x} = S
  BY FS_AddElement
<1> QED
  BY <1>1, SumRemove

(* Sums are added pointwise.                                               *)
LEMMA SumOfSums ==
  ASSUME NEW S, IsFiniteSet(S), NEW f \in [S -> Int], NEW g \in [S -> Int]
  PROVE  SumFunctionOnSet([x \in S |-> f[x] + g[x]], S)
           = SumFunctionOnSet(f, S) + SumFunctionOnSet(g, S)
<1> DEFINE h == [x \in S |-> f[x] + g[x]]
           Sum(k, T) == SumFunctionOnSet(k, T)
           Good == {T \in SUBSET S : Sum(h, T) = Sum(f, T) + Sum(g, T)}
<1>1. ASSUME NEW T \in SUBSET S, \A x \in T : T \ {x} \in Good
      PROVE  T \in Good
  <2>1. CASE T = {}
    BY <2>1, SumEmpty
  <2>2. CASE T # {}
    <3>1. PICK x \in T : TRUE
      BY <2>2
    <3>2. IsFiniteSet(T) /\ IsFiniteSet(T \ {x})
      BY FS_Subset, FS_RemoveElement
    <3>3. \A y \in T : f[y] \in Int /\ g[y] \in Int /\ h[y] = f[y] + g[y]
      OBVIOUS
    <3> HIDE DEF h
    <3>4. /\ Sum(f, T) = f[x] + Sum(f, T \ {x})
          /\ Sum(g, T) = g[x] + Sum(g, T \ {x})
          /\ Sum(h, T) = h[x] + Sum(h, T \ {x})
      BY <3>2, <3>3, SumRemove
    <3>5. Sum(f, T \ {x}) \in Int /\ Sum(g, T \ {x}) \in Int
      BY <3>2, <3>3, SumType
    <3>6. Sum(h, T \ {x}) = Sum(f, T \ {x}) + Sum(g, T \ {x})
      BY <1>1, <3>1
    <3>7. Sum(h, T) = Sum(f, T) + Sum(g, T)
      <4> HIDE DEF Sum
      <4> QED
        BY <3>1, <3>3, <3>4, <3>5, <3>6
    <3> QED
      BY <3>7
  <2> QED
    BY <2>1, <2>2
<1> HIDE DEF Good
<1>2. \A T \in SUBSET S : T \in Good
  BY <1>1, SubsetInduction
<1> QED
  BY <1>2 DEF Good

(* A sum of naturals covers each of them.                                  *)
LEMMA SumCovers ==
  ASSUME NEW S, IsFiniteSet(S), NEW f, \A x \in S : f[x] \in Nat
  PROVE  /\ SumFunctionOnSet(f, S) \in Nat
         /\ \A x \in S : SumFunctionOnSet(f, S) >= f[x]
<1> DEFINE Good == {T \in SUBSET S : SumFunctionOnSet(f, T) \in Nat}
<1>1. ASSUME NEW T \in SUBSET S, \A x \in T : T \ {x} \in Good
      PROVE  T \in Good
  <2>1. CASE T = {}
    BY <2>1, SumEmpty
  <2>2. CASE T # {}
    <3>1. IsFiniteSet(T)
      BY FS_Subset
    <3>2. /\ Chosen(T) \in T
          /\ SumFunctionOnSet(f, T) = f[Chosen(T)] + SumFunctionOnSet(f, T \ {Chosen(T)})
      BY <2>2, <3>1, SumUnfolds
    <3>3. SumFunctionOnSet(f, T \ {Chosen(T)}) \in Nat
      BY <1>1, <3>2
    <3> QED
      BY <3>2, <3>3
  <2> QED
    BY <2>1, <2>2
<1>2. \A T \in SUBSET S : T \in Good
  <2> HIDE DEF Good
  <2> QED
    BY <1>1, SubsetInduction
<1>3. ASSUME NEW x \in S PROVE SumFunctionOnSet(f, S) >= f[x]
  <2>1. \A y \in S : f[y] \in Int
    OBVIOUS
  <2>2. SumFunctionOnSet(f, S) = f[x] + SumFunctionOnSet(f, S \ {x})
    BY <2>1, SumRemove
  <2>3. SumFunctionOnSet(f, S \ {x}) \in Nat
    BY <1>2
  <2> QED
    BY <2>2, <2>3
<1> QED
  BY <1>2, <1>3

(* A factor can be taken out of a sum, and larger terms make a larger sum. *)
LEMMA SumScaled ==
  ASSUME NEW S, IsFiniteSet(S), NEW f \in [S -> Int], NEW g \in [S -> Int],
         NEW c \in Int, \A x \in S : g[x] = c * f[x]
  PROVE  SumFunctionOnSet(g, S) = c * SumFunctionOnSet(f, S)
<1> DEFINE Sum(k, T) == SumFunctionOnSet(k, T)
           Good == {T \in SUBSET S : Sum(g, T) = c * Sum(f, T)}
<1>1. ASSUME NEW T \in SUBSET S, \A x \in T : T \ {x} \in Good
      PROVE  T \in Good
  <2>1. CASE T = {}
    BY <2>1, SumEmpty
  <2>2. CASE T # {}
    <3>1. PICK x \in T : TRUE
      BY <2>2
    <3>2. IsFiniteSet(T) /\ IsFiniteSet(T \ {x})
      BY FS_Subset, FS_RemoveElement
    <3>3. \A y \in T : f[y] \in Int /\ g[y] = c * f[y] /\ g[y] \in Int
      OBVIOUS
    <3>4. Sum(f, T) = f[x] + Sum(f, T \ {x}) /\ Sum(g, T) = g[x] + Sum(g, T \ {x})
      BY <3>2, <3>3, SumRemove
    <3>5. Sum(f, T \ {x}) \in Int
      BY <3>2, <3>3, SumType
    <3>6. Sum(g, T \ {x}) = c * Sum(f, T \ {x})
      BY <1>1, <3>1
    <3>7. \A m, n \in Int : c * (m + n) = c * m + c * n
      OBVIOUS
    <3>8. Sum(g, T) = c * Sum(f, T)
      <4> HIDE DEF Sum
      <4> QED
        BY <3>1, <3>3, <3>4, <3>5, <3>6, <3>7
    <3> QED
      BY <3>8
  <2> QED
    BY <2>1, <2>2
<1> HIDE DEF Good
<1>2. \A T \in SUBSET S : T \in Good
  BY <1>1, SubsetInduction
<1> QED
  BY <1>2 DEF Good

LEMMA SumMonotone ==
  ASSUME NEW S, IsFiniteSet(S), NEW f \in [S -> Int], NEW g \in [S -> Int],
         \A x \in S : f[x] <= g[x]
  PROVE  SumFunctionOnSet(f, S) <= SumFunctionOnSet(g, S)
<1> DEFINE Sum(k, T) == SumFunctionOnSet(k, T)
           Good == {T \in SUBSET S : Sum(f, T) <= Sum(g, T)}
<1>1. ASSUME NEW T \in SUBSET S, \A x \in T : T \ {x} \in Good
      PROVE  T \in Good
  <2>1. CASE T = {}
    BY <2>1, SumEmpty
  <2>2. CASE T # {}
    <3>1. PICK x \in T : TRUE
      BY <2>2
    <3>2. IsFiniteSet(T) /\ IsFiniteSet(T \ {x})
      BY FS_Subset, FS_RemoveElement
    <3>3. \A y \in T : f[y] \in Int /\ g[y] \in Int
      OBVIOUS
    <3>4. Sum(f, T) = f[x] + Sum(f, T \ {x}) /\ Sum(g, T) = g[x] + Sum(g, T \ {x})
      BY <3>2, <3>3, SumRemove
    <3>5. Sum(f, T \ {x}) \in Int /\ Sum(g, T \ {x}) \in Int
      BY <3>2, <3>3, SumType
    <3>6. Sum(f, T \ {x}) <= Sum(g, T \ {x}) /\ f[x] <= g[x]
      BY <1>1, <3>1
    <3>7. Sum(f, T) <= Sum(g, T)
      <4> HIDE DEF Sum
      <4> QED
        BY <3>1, <3>3, <3>4, <3>5, <3>6
    <3> QED
      BY <3>7
  <2> QED
    BY <2>1, <2>2
<1> HIDE DEF Good
<1>2. \A T \in SUBSET S : T \in Good
  BY <1>1, SubsetInduction
<1> QED
  BY <1>2 DEF Good

(* Terms that are zero can be left out.                                    *)
LEMMA SumSupport ==
  ASSUME NEW S, IsFiniteSet(S), NEW f \in [S -> Int], NEW W \in SUBSET S,
         \A x \in S \ W : f[x] = 0
  PROVE  SumFunctionOnSet(f, S) = SumFunctionOnSet(f, W)
<1> DEFINE Sum(T) == SumFunctionOnSet(f, T)
           Good == {T \in SUBSET S : Sum(T) = Sum(T \cap W)}
<1>1. ASSUME NEW T \in SUBSET S, \A x \in T : T \ {x} \in Good
      PROVE  T \in Good
  <2>1. CASE T \subseteq W
    <3>1. T \cap W = T
      BY <2>1
    <3> QED
      BY <3>1
  <2>2. ASSUME NEW x \in T, x \notin W PROVE T \in Good
    <3>1. IsFiniteSet(T) /\ IsFiniteSet(T \ {x}) /\ \A y \in T : f[y] \in Int
      BY FS_Subset, FS_RemoveElement
    <3>2. Sum(T) = f[x] + Sum(T \ {x}) /\ f[x] = 0
      BY <2>2, <3>1, SumRemove
    <3>3. (T \ {x}) \cap W = T \cap W
      BY <2>2
    <3>4. Sum(T \ {x}) = Sum(T \cap W)
      BY <1>1, <3>3
    <3>5. Sum(T \ {x}) \in Int
      BY <3>1, SumType
    <3>6. Sum(T) = Sum(T \cap W)
      <4> HIDE DEF Sum
      <4> QED
        BY <3>2, <3>4, <3>5
    <3> QED
      BY <3>6
  <2> QED
    BY <2>1, <2>2
<1> HIDE DEF Good
<1>2. \A T \in SUBSET S : T \in Good
  BY <1>1, SubsetInduction
<1>3. S \cap W = W
  OBVIOUS
<1> QED
  BY <1>2, <1>3 DEF Good

(* A sum does not depend on the names of its indices.                      *)
LEMMA SumRenamed ==
  ASSUME NEW S, IsFiniteSet(S), NEW T, IsFiniteSet(T), NEW to \in [S -> T],
         \A x, y \in S : to[x] = to[y] => x = y,
         \A z \in T : \E x \in S : to[x] = z,
         NEW f, NEW g, \A z \in T : g[z] \in Int, \A x \in S : f[x] = g[to[x]]
  PROVE  SumFunctionOnSet(f, S) = SumFunctionOnSet(g, T)
<1> DEFINE Image(V) == {to[x] : x \in V}
           Sum(k, V) == SumFunctionOnSet(k, V)
           Good == {V \in SUBSET S : Sum(f, V) = Sum(g, Image(V))}
<1>1. ASSUME NEW V \in SUBSET S, \A x \in V : V \ {x} \in Good
      PROVE  V \in Good
  <2>1. CASE V = {}
    <3>1. Image(V) = {}
      BY <2>1
    <3> QED
      BY <2>1, <3>1, SumEmpty
  <2>2. CASE V # {}
    <3>1. PICK x \in V : TRUE
      BY <2>2
    <3>2. IsFiniteSet(V) /\ IsFiniteSet(Image(V))
      BY FS_Subset
    <3>3. /\ Image(V \ {x}) = Image(V) \ {to[x]}
          /\ to[x] \in Image(V)
          /\ \A z \in Image(V) : g[z] \in Int
          /\ \A y \in V : f[y] \in Int
      BY <3>1
    <3> HIDE DEF Image
    <3>4. /\ Sum(f, V) = f[x] + Sum(f, V \ {x})
          /\ Sum(g, Image(V)) = g[to[x]] + Sum(g, Image(V) \ {to[x]})
      BY <3>1, <3>2, <3>3, SumRemove
    <3>5. Sum(f, V \ {x}) = Sum(g, Image(V \ {x}))
      BY <1>1, <3>1
    <3>6. f[x] = g[to[x]]
      BY <3>1
    <3> HIDE DEF Sum
    <3>7. Sum(f, V) = Sum(g, Image(V))
      BY <3>3, <3>4, <3>5, <3>6
    <3> QED
      BY <3>7
  <2> QED
    BY <2>1, <2>2
<1>2. Image(S) = T
  OBVIOUS
<1>3. \A V \in SUBSET S : V \in Good
  <2> HIDE DEF Good
  <2> QED
    BY <1>1, SubsetInduction
<1> QED
  BY <1>2, <1>3

(* Numbers f that depend on a group only, and what each group adds up to.  *)
InGroup(group, S, t) == {x \in S : group[x] = t}

Grouped(f, S, group, g, totals, G) ==
  /\ group \in [S -> G] /\ g \in [G -> Int]
  /\ \A x \in S : f[x] = g[group[x]]
  /\ \A t \in G : totals[t] = Cardinality(InGroup(group, S, t)) * g[t]

(* Such numbers can be added group by group.                               *)
LEMMA SumByGroup ==
  ASSUME NEW S, IsFiniteSet(S), NEW G, IsFiniteSet(G),
         NEW f, NEW group, NEW g, NEW totals, Grouped(f, S, group, g, totals, G)
  PROVE  SumFunctionOnSet(f, S) = SumFunctionOnSet(totals, G)
<1> DEFINE Of(t, T) == {x \in T : group[x] = t}
           Counted(T) == [t \in G |-> Cardinality(Of(t, T)) * g[t]]
           Sum(k, T) == SumFunctionOnSet(k, T)
           Good == {T \in SUBSET S : Sum(f, T) = Sum(Counted(T), G)}
<1>0. /\ group \in [S -> G] /\ g \in [G -> Int] /\ \A x \in S : f[x] = g[group[x]]
      /\ \A t \in G : totals[t] = Cardinality(InGroup(group, S, t)) * g[t]
  BY DEF Grouped
<1>1. \A T \in SUBSET S : \A t \in G : IsFiniteSet(Of(t, T)) /\ Cardinality(Of(t, T)) \in Nat
  <2> TAKE T \in SUBSET S
  <2> TAKE t \in G
  <2>1. Of(t, T) \subseteq S
    OBVIOUS
  <2> QED
    BY <2>1, FS_Subset, FS_CardinalityType
<1>2. \A T \in SUBSET S : /\ Counted(T) \in [G -> Int]
                          /\ \A t \in G : Counted(T)[t] = Cardinality(Of(t, T)) * g[t]
  <2> HIDE DEF Of
  <2> QED
    BY <1>0, <1>1
<1>3. ASSUME NEW T \in SUBSET S, \A x \in T : T \ {x} \in Good
      PROVE  T \in Good
  <2>1. CASE T = {}
    <3>1. \A t \in G : Of(t, T) = {}
      BY <2>1
    <3>2. \A t \in G \ {} : Counted(T)[t] = 0
      <4> TAKE t \in G \ {}
      <4>1. Cardinality(Of(t, T)) = 0
        BY <3>1, FS_EmptySet
      <4>2. t \in G /\ g[t] \in Int
        BY <1>0
      <4> HIDE DEF Of
      <4> QED
        BY <4>1, <4>2
    <3> HIDE DEF Counted
    <3>3. Sum(Counted(T), G) = Sum(Counted(T), {})
      BY <1>2, <3>2, SumSupport
    <3> QED
      BY <2>1, <3>3, SumEmpty
  <2>2. CASE T # {}
    <3>1. PICK x \in T : TRUE
      BY <2>2
    <3> DEFINE t == group[x]
               U == T \ {x}
    <3>2. /\ IsFiniteSet(T) /\ \A y \in T : f[y] \in Int
          /\ t \in G /\ f[x] = g[t] /\ g[t] \in Int /\ U \in SUBSET S
      BY <1>0, FS_Subset
    <3>3. Sum(f, T) = f[x] + Sum(f, U)
      BY <3>1, <3>2, SumRemove
    <3>4. Sum(f, U) = Sum(Counted(U), G)
      BY <1>3, <3>1
    <3>5. Of(t, T) = Of(t, U) \cup {x} /\ x \notin Of(t, U)
      BY <3>1
    <3>6. \A v \in G \ {t} : Of(v, T) = Of(v, U)
      OBVIOUS
    <3> HIDE DEF Of, t, U
    <3>7. Cardinality(Of(t, T)) = Cardinality(Of(t, U)) + 1
      BY <1>1, <3>2, <3>5, FS_AddElement
    <3>8. Counted(T)[t] = g[t] + Counted(U)[t]
      <4>1. Cardinality(Of(t, U)) \in Nat
        BY <1>1, <3>2
      <4>2. (Cardinality(Of(t, U)) + 1) * g[t] = g[t] + Cardinality(Of(t, U)) * g[t]
        <5> DEFINE count == Cardinality(Of(t, U))
                   value == g[t]
        <5>1. count \in Int /\ value \in Int
          BY <3>2, <4>1
        <5> HIDE DEF count, value
        <5>2. (count + 1) * value = value + count * value
          BY <5>1
        <5> QED
          BY <5>2 DEF count, value
      <4> QED
        BY <1>2, <3>2, <3>7, <4>2
    <3>9. \A v \in G \ {t} : Counted(T)[v] = Counted(U)[v]
      BY <1>2, <3>2, <3>6
    <3>10. /\ Counted(T) \in [G -> Int] /\ Counted(U) \in [G -> Int]
      BY <1>2, <3>2
    <3> HIDE DEF Counted
    <3>11. /\ Sum(Counted(T), G) = Counted(T)[t] + Sum(Counted(T), G \ {t})
           /\ Sum(Counted(U), G) = Counted(U)[t] + Sum(Counted(U), G \ {t})
      BY <3>2, <3>10, SumRemove
    <3>12. IsFiniteSet(G \ {t})
      BY FS_RemoveElement
    <3>13. Sum(Counted(T), G \ {t}) = Sum(Counted(U), G \ {t})
      BY <3>9, <3>12, SumsEqual
    <3>14. Sum(Counted(U), G \ {t}) \in Int /\ Counted(U)[t] \in Int
      BY <3>2, <3>10, <3>12, SumType
    <3>15. Sum(f, T) = Sum(Counted(T), G)
      <4> HIDE DEF Sum
      <4> QED
        BY <3>2, <3>3, <3>4, <3>8, <3>11, <3>13, <3>14
    <3> QED
      BY <3>15
  <2> QED
    BY <2>1, <2>2
<1> HIDE DEF Good
<1>4. \A T \in SUBSET S : T \in Good
  BY <1>3, SubsetInduction
<1>5. Sum(f, S) = Sum(Counted(S), G)
  BY <1>4 DEF Good
<1>6. \A t \in G : Counted(S)[t] = totals[t]
  BY <1>0 DEF InGroup
<1> HIDE DEF Counted
<1>7. Sum(Counted(S), G) = Sum(totals, G)
  BY <1>6, SumsEqual
<1> QED
  BY <1>5, <1>7

LEMMA SumOnes ==
  ASSUME NEW S, IsFiniteSet(S), NEW f, \A x \in S : f[x] = 1
  PROVE  SumFunctionOnSet(f, S) = Cardinality(S)
<1> DEFINE Good == {T \in SUBSET S : SumFunctionOnSet(f, T) = Cardinality(T)}
<1>1. ASSUME NEW T \in SUBSET S, \A x \in T : T \ {x} \in Good
      PROVE  T \in Good
  <2>1. CASE T = {}
    BY <2>1, SumEmpty, FS_EmptySet
  <2>2. CASE T # {}
    <3>1. PICK x \in T : TRUE
      BY <2>2
    <3>2. /\ IsFiniteSet(T) /\ Cardinality(T) \in Nat
          /\ Cardinality(T \ {x}) = Cardinality(T) - 1
      BY FS_Subset, FS_RemoveElement, FS_CardinalityType
    <3>3. SumFunctionOnSet(f, T) = f[x] + SumFunctionOnSet(f, T \ {x})
      BY <3>2, SumRemove
    <3>4. SumFunctionOnSet(f, T \ {x}) = Cardinality(T \ {x}) /\ f[x] = 1
      BY <1>1, <3>1
    <3> QED
      BY <3>2, <3>3, <3>4
  <2> QED
    BY <2>1, <2>2
<1> HIDE DEF Good
<1>2. \A T \in SUBSET S : T \in Good
  BY <1>1, SubsetInduction
<1> QED
  BY <1>2 DEF Good

-----------------------------------------------------------------------------

(* A quotient rounded down is at most the exact one, less than one below.  *)
(* it; a positive factor can be cancelled.                                 *)
LEMMA Floored ==
  ASSUME NEW a \in Nat, NEW b \in Nat \ {0}
  PROVE  /\ a \div b \in Nat
         /\ b * (a \div b) <= a
         /\ a < b * ((a \div b) + 1)
OBVIOUS

LEMMA Cancels ==
  ASSUME NEW a \in Nat \ {0}, NEW m \in Int, NEW n \in Int
  PROVE  /\ a * m <= a * n => m <= n
         /\ a * m < a * n => m < n
<1>1. ASSUME m >= n + 1 PROVE a * m >= a * n + a
  BY <1>1
<1>2. ASSUME m >= n PROVE a * m >= a * n
  BY <1>2
<1> QED
  BY <1>1, <1>2

-----------------------------------------------------------------------------

(* Among a table's row numbers, those of any part have a largest.          *)
LEMMA HasLargest ==
  ASSUME NEW n \in Nat, NEW S \in SUBSET (1..n), S # {}
  PROVE  \E i \in S : \A j \in S : j <= i
<1> DEFINE N == {m \in Nat : \A T \in SUBSET (1..m) : T # {} => \E i \in T : \A j \in T : j <= i}
<1>1. 0 \in N
  <2>1. \A T \in SUBSET (1..0) : T = {}
    OBVIOUS
  <2> QED
    BY <2>1
<1>2. ASSUME NEW m \in Nat, m \in N PROVE m + 1 \in N
  <2> SUFFICES ASSUME NEW T \in SUBSET (1..(m + 1)), T # {}
               PROVE  \E i \in T : \A j \in T : j <= i
    OBVIOUS
  <2>1. CASE m + 1 \in T
    BY <2>1
  <2>2. CASE m + 1 \notin T
    <3>1. T \in SUBSET (1..m)
      BY <2>2
    <3> QED
      BY <1>2, <3>1
  <2> QED
    BY <2>1, <2>2
<1> HIDE DEF N
<1>3. \A m \in Nat : m \in N
  BY <1>1, <1>2, NatSetInduction
<1>4. n \in N
  BY <1>3
<1> QED
  BY <1>4 DEF N

(* Counting those up to it gives each element of a set that f puts in      *)
(* order a place, from first to last.                                      *)
UpTo(f, S, x) == {y \in S : f[y] <= f[x]}

LEMMA Placed ==
  ASSUME NEW S, IsFiniteSet(S), NEW f, \A x \in S : f[x] \in Int,
         \A x, y \in S : f[x] = f[y] => x = y
  PROVE  /\ \A x \in S : Cardinality(UpTo(f, S, x)) \in 1 .. Cardinality(S)
         /\ \A x, y \in S : Cardinality(UpTo(f, S, x)) = Cardinality(UpTo(f, S, y)) => x = y
         /\ \A k \in 1 .. Cardinality(S) : \E x \in S : Cardinality(UpTo(f, S, x)) = k
<1> DEFINE n == Cardinality(S)
           at == [x \in S |-> Cardinality(UpTo(f, S, x))]
<1>1. n \in Nat
  BY FS_CardinalityType
<1>2. ASSUME NEW x \in S PROVE at[x] \in 1 .. n
  <2>1. UpTo(f, S, x) \in SUBSET S /\ x \in UpTo(f, S, x)
    BY DEF UpTo
  <2>2. /\ IsFiniteSet(UpTo(f, S, x)) /\ Cardinality(UpTo(f, S, x)) \in Nat
        /\ Cardinality(UpTo(f, S, x)) <= n
    BY <2>1, FS_Subset, FS_CardinalityType
  <2>3. Cardinality(UpTo(f, S, x)) # 0
    BY <2>1, <2>2, FS_EmptySet
  <2> QED
    BY <1>1, <2>2, <2>3
<1>3. ASSUME NEW x \in S, NEW y \in S, f[x] < f[y] PROVE at[x] # at[y]
  <2>1. /\ UpTo(f, S, y) \in SUBSET S /\ UpTo(f, S, x) \in SUBSET UpTo(f, S, y)
        /\ y \in UpTo(f, S, y) /\ y \notin UpTo(f, S, x)
    BY <1>3 DEF UpTo
  <2>2. IsFiniteSet(UpTo(f, S, y))
    BY <2>1, FS_Subset
  <2> QED
    BY <2>1, <2>2, FS_Subset
<1>4. \A x, y \in S : at[x] = at[y] => x = y
  <2> SUFFICES ASSUME NEW x \in S, NEW y \in S, x # y PROVE at[x] # at[y]
    OBVIOUS
  <2>1. f[x] < f[y] \/ f[y] < f[x]
    OBVIOUS
  <2> HIDE DEF at
  <2> QED
    BY <1>3, <2>1
<1>5. at \in Injection(S, 1 .. n)
  BY <1>2, <1>4 DEF Injection, IsInjective
<1>6. IsFiniteSet(1 .. n) /\ Cardinality(1 .. n) = n
  BY <1>1, FS_Interval
<1>7. \A k \in 1 .. n : \E x \in S : at[x] = k
  <2> HIDE DEF at
  <2>1. at \in Surjection(S, 1 .. n)
    BY <1>5, <1>6, FS_Injection
  <2> QED
    BY <2>1 DEF Surjection
<1> QED
  BY <1>2, <1>4, <1>7

LEMMA Mapped ==
  ASSUME NEW S, NEW seq \in Seq(S), NEW other \in [DOMAIN seq -> S]
  PROVE  other \in Seq(S) /\ DOMAIN other = DOMAIN seq
<1>1. Len(seq) \in Nat /\ DOMAIN seq = 1..Len(seq)
  BY LenProperties
<1>2. other \in [1..Len(seq) -> S]
  BY <1>1
<1> QED
  BY <1>1, <1>2, SeqDef

LEMMA Appended ==
  ASSUME NEW S, NEW seq \in Seq(S), NEW e \in S
  PROVE  /\ Append(seq, e) \in Seq(S)
         /\ Len(seq) + 1 \in Nat \ {0}
         /\ DOMAIN seq = 1..Len(seq) /\ DOMAIN Append(seq, e) = 1..(Len(seq) + 1)
         /\ \A i \in DOMAIN seq : Append(seq, e)[i] = seq[i]
         /\ Append(seq, e)[Len(seq) + 1] = e
<1>1. Len(seq) \in Nat /\ DOMAIN seq = 1..Len(seq)
  BY LenProperties
<1>2. Append(seq, e) \in Seq(S) /\ Len(Append(seq, e)) = Len(seq) + 1
  BY <1>1
<1>3. DOMAIN Append(seq, e) = 1..(Len(seq) + 1)
  BY <1>2, LenProperties
<1> QED
  BY <1>1, <1>2, <1>3
=============================================================================
