---------------------------- MODULE SumTheorems ----------------------------
(***************************************************************************)
(* What the proofs about balances need to know of sums over finite sets    *)
(* (SumFunctionOnSet(f, S) adds the numbers f[x] of all x in S), of loops  *)
(* and of the lesser and the greater of two numbers.                       *)
(*                                                                         *)
(* A sum is a fold, that is a recursive function on the subsets of S, and  *)
(* a recursive function is whatever CHOOSE finds to satisfy its equation.  *)
(* The first lemmas show that there is one, by induction on the size of    *)
(* the subsets; the induction is on a set of numbers, since the provers    *)
(* cannot instantiate the theorems that take a predicate.                  *)
(***************************************************************************)
EXTENDS Integers, FiniteSets, FiniteSetsExt, FiniteSetTheorems,
        WellFoundedInduction, TLAPS

LEMMA LeastOfNaturals ==
    ASSUME NEW S \in SUBSET Nat, S # {}
    PROVE  \E n \in S : \A m \in S : n <= m
<1> DEFINE Less == OpToRel(<, Nat)
<1>1. \E n \in S : \A m \in S : ~ (<<m, n>> \in Less)
  <2>1. IsWellFoundedOn(Less, Nat)
    BY NatLessThanWellFounded, Zenon
  <2> HIDE DEF Less
  <2> QED
    BY <2>1, WFMin
<1>2. \A m, n \in Nat : ~ (<<m, n>> \in Less) => n <= m
  BY DEF OpToRel
<1> HIDE DEF Less
<1> QED
  BY <1>1, <1>2

LEMMA InductiveSetOfNaturals ==
    ASSUME NEW I \in SUBSET Nat, 0 \in I, \A n \in I : n + 1 \in I
    PROVE  Nat \subseteq I
<1> SUFFICES ASSUME Nat \ I # {} PROVE FALSE
  OBVIOUS
<1>1. PICK n \in Nat \ I : \A m \in Nat \ I : n <= m
  BY LeastOfNaturals
<1>2. n - 1 \in Nat /\ n - 1 \notin I
  BY <1>1
<1> QED
  BY <1>1, <1>2

LEMMA SmallerWithout ==
    ASSUME NEW S, IsFiniteSet(S), NEW x \in S
    PROVE  /\ IsFiniteSet(S \ {x})
           /\ Cardinality(S) \in Nat \ {0}
           /\ Cardinality(S \ {x}) = Cardinality(S) - 1
<1>1. IsFiniteSet(S \ {x}) /\ Cardinality(S) \in Nat /\ Cardinality(S \ {x}) \in Nat
  BY FS_CardinalityType, FS_Subset
<1>2. Cardinality(S \ {x}) = Cardinality(S) - 1
  BY FS_RemoveElement
<1> QED
  BY <1>1, <1>2

(* A family that has every set of which it has all sets of one element     *)
(* less has every finite set.                                              *)
LEMMA InductiveFamily ==
    ASSUME NEW S, IsFiniteSet(S), NEW F,
           \A T \in SUBSET S : (\A x \in T : T \ {x} \in F) => T \in F
    PROVE  \A T \in SUBSET S : T \in F
<1> DEFINE I == {n \in Nat : \A T \in SUBSET S : Cardinality(T) = n => T \in F}
<1>1. \A T \in SUBSET S : IsFiniteSet(T) /\ Cardinality(T) \in Nat
  BY FS_Subset, FS_CardinalityType
<1>2. 0 \in I
  <2>1. \A T \in SUBSET S : Cardinality(T) = 0 => T = {}
    BY <1>1, FS_EmptySet
  <2> QED
    BY <2>1
<1>3. ASSUME NEW n \in I PROVE n + 1 \in I
  <2> SUFFICES ASSUME NEW T \in SUBSET S, Cardinality(T) = n + 1 PROVE T \in F
    OBVIOUS
  <2>1. n \in Nat
    OBVIOUS
  <2>2. \A x \in T : Cardinality(T \ {x}) = n
    BY <1>1, <2>1, SmallerWithout
  <2> QED
    BY <2>2
<1> HIDE DEF I
<1>4. Nat \subseteq I
  BY <1>2, <1>3, InductiveSetOfNaturals DEF I
<1> QED
  BY <1>1, <1>4 DEF I
----------------------------------------------------------------------------
(* The equation of the fold, on the subsets of S.                          *)
First(s) == CHOOSE x \in s : TRUE
Step(f, g, s) == IF s = {} THEN 0 ELSE f[First(s)] + g[s \ {First(s)}]
Adds(f, g, S) == g = [s \in SUBSET S |-> Step(f, g, s)]

LEMMA SumIsFold ==
    ASSUME NEW f, NEW S
    PROVE  SumFunctionOnSet(f, S) = (CHOOSE g : Adds(f, g, S))[S]
BY DEF SumFunctionOnSet, FoldFunctionOnSet, MapThenFoldSet, Adds, Step, First

LEMMA FoldExists ==
    ASSUME NEW f, NEW S, IsFiniteSet(S)
    PROVE  \E g : Adds(f, g, S)
<1> DEFINE Upto(n, g) == /\ DOMAIN g = SUBSET S /\ g = [s \in SUBSET S |-> g[s]]
                         /\ \A s \in SUBSET S : Cardinality(s) <= n => g[s] = Step(f, g, s)
           I == {n \in Nat : \E g : Upto(n, g)}
<1>1. \A s \in SUBSET S : IsFiniteSet(s) /\ Cardinality(s) \in Nat
  BY FS_Subset, FS_CardinalityType
<1>2. 0 \in I
  <2> DEFINE g == [s \in SUBSET S |-> 0]
  <2>1. \A s \in SUBSET S : Cardinality(s) <= 0 => s = {}
    BY <1>1, FS_EmptySet
  <2>2. Upto(0, g)
    BY <2>1 DEF Step
  <2> QED
    BY <2>2
<1>3. ASSUME NEW n \in I PROVE n + 1 \in I
  <2>1. PICK g : Upto(n, g)
    OBVIOUS
  <2> DEFINE h == [s \in SUBSET S |-> IF Cardinality(s) <= n THEN g[s] ELSE Step(f, g, s)]
  <2>2. ASSUME NEW s \in SUBSET S, Cardinality(s) <= n + 1
        PROVE  h[s] = Step(f, g, s) /\ Step(f, g, s) = Step(f, h, s)
    <3>1. h[s] = Step(f, g, s)
      BY <2>1
    <3>2. CASE s = {}
      BY <3>1, <3>2 DEF Step
    <3>3. CASE s # {}
      <4>1. First(s) \in s
        BY <3>3 DEF First
      <4>2. Cardinality(s \ {First(s)}) <= n
        BY <1>1, <2>2, <4>1, SmallerWithout
      <4>3. h[s \ {First(s)}] = g[s \ {First(s)}]
        BY <4>2
      <4> QED
        BY <3>1, <4>3 DEF Step
    <3> QED
      BY <3>2, <3>3
  <2>3. Upto(n + 1, h)
    BY <2>2
  <2>4. n + 1 \in Nat
    OBVIOUS
  <2> HIDE DEF Upto, h
  <2> QED
    BY <2>3, <2>4
<1>4. PICK g : Upto(Cardinality(S), g)
  <2> HIDE DEF I
  <2>1. Nat \subseteq I
    BY <1>2, <1>3, InductiveSetOfNaturals DEF I
  <2> QED
    BY <2>1, <1>1 DEF I
<1>5. \A s \in SUBSET S : Cardinality(s) <= Cardinality(S)
  BY FS_Subset
<1> QED
  BY <1>4, <1>5 DEF Adds

LEMMA SumUnfolds ==
    ASSUME NEW f, NEW S, IsFiniteSet(S)
    PROVE  \E g : Adds(f, g, S) /\ SumFunctionOnSet(f, S) = g[S]
<1>1. \E g : Adds(f, g, S)
  BY FoldExists
<1> QED
  BY <1>1, SumIsFold

LEMMA FoldStep ==
    ASSUME NEW f, NEW g, NEW S, Adds(f, g, S), NEW T \in SUBSET S
    PROVE  /\ T = {} => g[T] = 0
           /\ T # {} => First(T) \in T /\ g[T] = f[First(T)] + g[T \ {First(T)}]
<1>1. g[T] = Step(f, g, T)
  BY DEF Adds
<1>2. T # {} => First(T) \in T
  BY DEF First
<1> QED
  BY <1>1, <1>2 DEF Step

(* Folds that add the same numbers agree.                                  *)
LEMMA FoldsAgree ==
    ASSUME NEW f, NEW g, NEW S, Adds(f, g, S),
           NEW h, NEW k, NEW R, Adds(h, k, R),
           NEW U \in SUBSET (S \cap R), IsFiniteSet(U), \A x \in U : f[x] = h[x]
    PROVE  g[U] = k[U]
<1> DEFINE F == {T \in SUBSET U : g[T] = k[T]}
<1>1. ASSUME NEW T \in SUBSET U, \A x \in T : T \ {x} \in F
      PROVE  T \in F
  <2>1. T \in SUBSET S /\ T \in SUBSET R
    OBVIOUS
  <2>2. CASE T = {}
    BY <2>1, <2>2, FoldStep
  <2>3. CASE T # {}
    <3>1. First(T) \in T /\ g[T] = f[First(T)] + g[T \ {First(T)}]
      BY <2>1, <2>3, FoldStep
    <3>3. k[T] = h[First(T)] + k[T \ {First(T)}]
      <4>1. k[T] = Step(h, k, T)
        BY <2>1 DEF Adds
      <4> QED
        BY <2>3, <4>1 DEF Step
    <3>2. f[First(T)] = h[First(T)] /\ g[T \ {First(T)}] = k[T \ {First(T)}]
      BY <1>1, <3>1
    <3> QED
      BY <3>1, <3>2, <3>3
  <2> QED
    BY <2>2, <2>3
<1> HIDE DEF F
<1>2. \A T \in SUBSET U : T \in F
  BY <1>1, InductiveFamily
<1> QED
  BY <1>2 DEF F

(* The order in which the numbers are added makes no difference.           *)
LEMMA FoldWithout ==
    ASSUME NEW f, NEW g, NEW S, IsFiniteSet(S), Adds(f, g, S), \A x \in S : f[x] \in Int
    PROVE  /\ g[S] \in Int
           /\ \A x \in S : g[S] = f[x] + g[S \ {x}] /\ g[S \ {x}] \in Int
<1> DEFINE F == {T \in SUBSET S : /\ g[T] \in Int
                                  /\ \A x \in T : g[T] = f[x] + g[T \ {x}] /\ g[T \ {x}] \in Int}
<1>1. ASSUME NEW T \in SUBSET S, \A x \in T : T \ {x} \in F
      PROVE  T \in F
  <2>1. CASE T = {}
    <3>1. g[T] = 0
      BY <2>1, FoldStep
    <3> QED
      BY <2>1, <3>1
  <2>2. CASE T # {}
    <3> DEFINE c == First(T)
    <3>1. c \in T /\ g[T] = f[c] + g[T \ {c}]
      BY <2>2, FoldStep
    <3> HIDE DEF c
    <3>2. \A x \in T : g[T \ {x}] \in Int /\ f[x] \in Int
      BY <1>1
    <3>5. g[T \ {c}] \in Int /\ f[c] \in Int
      BY <3>1, <3>2
    <3>3. ASSUME NEW x \in T PROVE g[T] = f[x] + g[T \ {x}]
      <4>1. CASE x = c
        BY <3>1, <4>1
      <4>2. CASE x # c
        <5>1. x \in T \ {c} /\ T \ {c} \in F
          BY <1>1, <3>1, <4>2
        <5>2. g[T \ {c}] = f[x] + g[(T \ {c}) \ {x}] /\ g[(T \ {c}) \ {x}] \in Int
          BY <5>1
        <5>3. c \in T \ {x} /\ T \ {x} \in F
          BY <1>1, <3>1, <4>2
        <5>4. g[T \ {x}] = f[c] + g[(T \ {x}) \ {c}]
          BY <5>3
        <5>5. (T \ {x}) \ {c} = (T \ {c}) \ {x}
          OBVIOUS
        <5> HIDE DEF F
        <5>6. f[x] \in Int
          OBVIOUS
        <5>7. g[(T \ {x}) \ {c}] = g[(T \ {c}) \ {x}]
          BY <5>5
        <5> QED
          BY <3>1, <3>5, <5>2, <5>4, <5>6, <5>7
      <4> QED
        BY <4>1, <4>2
    <3>4. g[T] \in Int
      BY <3>1, <3>5
    <3> QED
      BY <3>2, <3>3, <3>4
  <2> QED
    BY <2>1, <2>2
<1> HIDE DEF F
<1>2. \A T \in SUBSET S : T \in F
  BY <1>1, InductiveFamily
<1> QED
  BY <1>2 DEF F
----------------------------------------------------------------------------
(* What the other modules use.                                             *)
LEMMA SumOfNone ==
    ASSUME NEW f
    PROVE  SumFunctionOnSet(f, {}) = 0
<1>1. PICK g : Adds(f, g, {}) /\ SumFunctionOnSet(f, {}) = g[{}]
  BY SumUnfolds, FS_EmptySet
<1> QED
  BY <1>1, FoldStep

LEMMA SumSame ==
    ASSUME NEW f, NEW h, NEW S, IsFiniteSet(S), \A x \in S : f[x] = h[x]
    PROVE  SumFunctionOnSet(f, S) = SumFunctionOnSet(h, S)
<1>1. PICK g : Adds(f, g, S) /\ SumFunctionOnSet(f, S) = g[S]
  BY SumUnfolds
<1>2. PICK k : Adds(h, k, S) /\ SumFunctionOnSet(h, S) = k[S]
  BY SumUnfolds
<1>3. S \in SUBSET (S \cap S)
  OBVIOUS
<1>4. g[S] = k[S]
  BY <1>1, <1>2, <1>3, FoldsAgree
<1> QED
  BY <1>1, <1>2, <1>4

LEMMA SumWithout ==
    ASSUME NEW f, NEW S, IsFiniteSet(S), \A x \in S : f[x] \in Int, NEW x \in S
    PROVE  /\ SumFunctionOnSet(f, S) \in Int /\ SumFunctionOnSet(f, S \ {x}) \in Int
           /\ SumFunctionOnSet(f, S) = f[x] + SumFunctionOnSet(f, S \ {x})
<1>1. PICK g : Adds(f, g, S) /\ SumFunctionOnSet(f, S) = g[S]
  BY SumUnfolds
<1>2. IsFiniteSet(S \ {x})
  BY SmallerWithout
<1>3. PICK k : Adds(f, k, S \ {x}) /\ SumFunctionOnSet(f, S \ {x}) = k[S \ {x}]
  BY <1>2, SumUnfolds
<1>4. S \ {x} \in SUBSET (S \cap (S \ {x}))
  OBVIOUS
<1>5. g[S \ {x}] = k[S \ {x}]
  BY <1>1, <1>2, <1>3, <1>4, FoldsAgree
<1>6. g[S] \in Int /\ g[S] = f[x] + g[S \ {x}] /\ g[S \ {x}] \in Int
  BY <1>1, FoldWithout
<1> QED
  BY <1>1, <1>3, <1>5, <1>6

LEMMA SumIsInt ==
    ASSUME NEW f, NEW S, IsFiniteSet(S), \A x \in S : f[x] \in Int
    PROVE  SumFunctionOnSet(f, S) \in Int
<1>1. PICK g : Adds(f, g, S) /\ SumFunctionOnSet(f, S) = g[S]
  BY SumUnfolds
<1> QED
  BY <1>1, FoldWithout

LEMMA SumWith ==
    ASSUME NEW f, NEW S, IsFiniteSet(S), NEW x, x \notin S, \A y \in S \cup {x} : f[y] \in Int
    PROVE  SumFunctionOnSet(f, S \cup {x}) = f[x] + SumFunctionOnSet(f, S)
<1> DEFINE R == S \cup {x}
<1>1. IsFiniteSet(R) /\ x \in R /\ R \ {x} = S /\ \A y \in R : f[y] \in Int
  BY FS_AddElement
<1> HIDE DEF R
<1>2. SumFunctionOnSet(f, R) = f[x] + SumFunctionOnSet(f, R \ {x})
  BY <1>1, SumWithout
<1> QED
  BY <1>1, <1>2 DEF R

(* Sums of numbers that differ in one place differ by as much.             *)
LEMMA SumChanges ==
    ASSUME NEW f, NEW h, NEW S, IsFiniteSet(S), NEW x \in S,
           \A y \in S : f[y] \in Int /\ h[y] \in Int,
           \A y \in S \ {x} : f[y] = h[y]
    PROVE  SumFunctionOnSet(h, S) = SumFunctionOnSet(f, S) + (h[x] - f[x])
<1>1. /\ SumFunctionOnSet(f, S \ {x}) \in Int
      /\ SumFunctionOnSet(f, S) = f[x] + SumFunctionOnSet(f, S \ {x})
  BY SumWithout
<1>2. SumFunctionOnSet(h, S) = h[x] + SumFunctionOnSet(h, S \ {x})
  BY SumWithout
<1>3. SumFunctionOnSet(f, S \ {x}) = SumFunctionOnSet(h, S \ {x})
  BY SmallerWithout, SumSame
<1>4. f[x] \in Int /\ h[x] \in Int
  OBVIOUS
<1> QED
  BY <1>1, <1>2, <1>3, <1>4

LEMMA SumOfZeros ==
    ASSUME NEW f, NEW S, IsFiniteSet(S), \A x \in S : f[x] = 0
    PROVE  SumFunctionOnSet(f, S) = 0
<1> DEFINE F == {T \in SUBSET S : SumFunctionOnSet(f, T) = 0}
<1>1. ASSUME NEW T \in SUBSET S, \A x \in T : T \ {x} \in F
      PROVE  T \in F
  <2>1. CASE T = {}
    BY <2>1, SumOfNone
  <2>2. CASE T # {}
    <3>1. PICK x \in T : TRUE
      BY <2>2
    <3>2. IsFiniteSet(T) /\ \A y \in T : f[y] \in Int
      BY FS_Subset
    <3>3. SumFunctionOnSet(f, T) = f[x] + SumFunctionOnSet(f, T \ {x})
      BY <3>1, <3>2, SumWithout
    <3>4. SumFunctionOnSet(f, T \ {x}) = 0 /\ f[x] = 0
      BY <1>1, <3>1
    <3> QED
      BY <3>3, <3>4
  <2> QED
    BY <2>1, <2>2
<1> HIDE DEF F
<1>2. \A T \in SUBSET S : T \in F
  BY <1>1, InductiveFamily
<1> QED
  BY <1>2 DEF F

(* Smaller numbers have a smaller sum; if the sum is the same, so are they.*)
LEMMA SumAtMost ==
    ASSUME NEW f, NEW h, NEW S, IsFiniteSet(S),
           \A x \in S : f[x] \in Int /\ h[x] \in Int /\ f[x] <= h[x]
    PROVE  /\ SumFunctionOnSet(f, S) <= SumFunctionOnSet(h, S)
           /\ SumFunctionOnSet(f, S) = SumFunctionOnSet(h, S) => \A x \in S : f[x] = h[x]
<1> DEFINE F == {T \in SUBSET S : SumFunctionOnSet(f, T) <= SumFunctionOnSet(h, T)}
<1>1. \A T \in SUBSET S : IsFiniteSet(T) /\ \A y \in T : f[y] \in Int /\ h[y] \in Int /\ f[y] <= h[y]
  BY FS_Subset
<1>2. ASSUME NEW T \in SUBSET S, NEW x \in T
      PROVE  /\ SumFunctionOnSet(f, T) = f[x] + SumFunctionOnSet(f, T \ {x})
             /\ SumFunctionOnSet(h, T) = h[x] + SumFunctionOnSet(h, T \ {x})
             /\ SumFunctionOnSet(f, T \ {x}) \in Int /\ SumFunctionOnSet(h, T \ {x}) \in Int
             /\ f[x] \in Int /\ h[x] \in Int /\ f[x] <= h[x]
  <2> HIDE DEF F
  <2>1. /\ IsFiniteSet(T)
        /\ \A y \in T : f[y] \in Int
        /\ \A y \in T : h[y] \in Int
        /\ f[x] <= h[x]
    BY <1>1
  <2>2. SumFunctionOnSet(f, T) = f[x] + SumFunctionOnSet(f, T \ {x})
    BY <2>1, SumWithout
  <2>3. SumFunctionOnSet(f, T \ {x}) \in Int
    BY <2>1, SumWithout
  <2>4. SumFunctionOnSet(h, T) = h[x] + SumFunctionOnSet(h, T \ {x})
    BY <2>1, SumWithout
  <2>5. SumFunctionOnSet(h, T \ {x}) \in Int
    BY <2>1, SumWithout
  <2> QED
    BY <2>1, <2>2, <2>3, <2>4, <2>5
<1>3. ASSUME NEW T \in SUBSET S, \A x \in T : T \ {x} \in F
      PROVE  T \in F
  <2>1. CASE T = {}
    <3>1. SumFunctionOnSet(f, T) = 0 /\ SumFunctionOnSet(h, T) = 0
      BY <2>1, SumOfNone
    <3> QED
      BY <3>1
  <2>2. CASE T # {}
    <3>1. PICK x \in T : TRUE
      BY <2>2
    <3>2. SumFunctionOnSet(f, T \ {x}) <= SumFunctionOnSet(h, T \ {x})
      BY <1>3, <3>1
    <3> QED
      BY <1>2, <3>1, <3>2
  <2> QED
    BY <2>1, <2>2
<1>4. \A T \in SUBSET S : T \in F
  <2> HIDE DEF F
  <2> QED
    BY <1>3, InductiveFamily
<1>5. ASSUME SumFunctionOnSet(f, S) = SumFunctionOnSet(h, S), NEW x \in S
      PROVE  f[x] = h[x]
  <2>1. SumFunctionOnSet(f, S \ {x}) <= SumFunctionOnSet(h, S \ {x})
    BY <1>4
  <2> QED
    BY <1>2, <1>5, <2>1
<1> QED
  BY <1>4, <1>5

LEMMA SumIsNatural ==
    ASSUME NEW f, NEW S, IsFiniteSet(S), \A x \in S : f[x] \in Nat
    PROVE  SumFunctionOnSet(f, S) \in Nat
<1> DEFINE zero == [x \in S |-> 0]
<1>1. SumFunctionOnSet(zero, S) = 0
  BY SumOfZeros
<1>2. SumFunctionOnSet(zero, S) <= SumFunctionOnSet(f, S)
  BY SumAtMost
<1>3. SumFunctionOnSet(f, S) \in Int
  BY SumIsInt
<1> QED
  BY <1>1, <1>2, <1>3

(* Zeros do not count.                                                     *)
LEMMA SumOnPart ==
    ASSUME NEW f, NEW S, IsFiniteSet(S), NEW R \in SUBSET S,
           \A x \in R : f[x] \in Int, \A x \in S \ R : f[x] = 0
    PROVE  SumFunctionOnSet(f, S) = SumFunctionOnSet(f, R)
<1> DEFINE Z == S \ R
           F == {T \in SUBSET Z : SumFunctionOnSet(f, R \cup T) = SumFunctionOnSet(f, R)}
<1>1. ASSUME NEW T \in SUBSET Z, \A x \in T : T \ {x} \in F
      PROVE  T \in F
  <2>1. CASE T = {}
    <3>1. R \cup T = R
      BY <2>1
    <3> QED
      BY <2>1, <3>1
  <2>2. CASE T # {}
    <3>1. PICK x \in T : TRUE
      BY <2>2
    <3> DEFINE Q == R \cup T
    <3>2. /\ Q \in SUBSET S /\ x \in Q /\ f[x] = 0
          /\ \A y \in Q : f[y] \in Int
          /\ Q \ {x} = R \cup (T \ {x})
      OBVIOUS
    <3>3. SumFunctionOnSet(f, R \cup (T \ {x})) = SumFunctionOnSet(f, R)
      BY <1>1, <3>1
    <3>4. SumFunctionOnSet(f, Q) = SumFunctionOnSet(f, R)
      <4> HIDE DEF Q, F, Z
      <4>1. IsFiniteSet(Q)
        BY <3>2, FS_Subset
      <4>2. /\ SumFunctionOnSet(f, Q \ {x}) \in Int
            /\ SumFunctionOnSet(f, Q) = f[x] + SumFunctionOnSet(f, Q \ {x})
        BY <3>2, <4>1, SumWithout
      <4>3. SumFunctionOnSet(f, Q \ {x}) = SumFunctionOnSet(f, R)
        BY <3>2, <3>3
      <4>4. SumFunctionOnSet(f, R) \in Int
        BY <4>2, <4>3
      <4> QED
        BY <3>2, <4>2, <4>3, <4>4
    <3> QED
      BY <3>4
  <2> QED
    BY <2>1, <2>2
<1>2. IsFiniteSet(Z)
  BY FS_Subset
<1> HIDE DEF F, Z
<1>3. \A T \in SUBSET Z : T \in F
  BY <1>1, <1>2, InductiveFamily
<1>4. SumFunctionOnSet(f, R \cup Z) = SumFunctionOnSet(f, R)
  BY <1>3 DEF F
<1>5. R \cup Z = S
  BY DEF Z
<1> QED
  BY <1>4, <1>5

LEMMA SumOfOne ==
    ASSUME NEW f, NEW x, f[x] \in Int
    PROVE  SumFunctionOnSet(f, {x}) = f[x]
<1>1. IsFiniteSet({x}) /\ {x} \ {x} = {} /\ x \in {x} /\ \A y \in {x} : f[y] \in Int
  BY FS_Singleton
<1>2. SumFunctionOnSet(f, {x}) = f[x] + SumFunctionOnSet(f, {x} \ {x})
  BY <1>1, SumWithout
<1>3. SumFunctionOnSet(f, {x} \ {x}) = 0
  BY <1>1, SumOfNone
<1> QED
  BY <1>2, <1>3

(* A sum that gains or loses a member, and changes nothing else.           *)
LEMMA SumGains ==
    ASSUME NEW f, NEW h, NEW S, IsFiniteSet(S), NEW x, x \notin S,
           h[x] \in Int, \A y \in S : f[y] \in Int /\ h[y] = f[y]
    PROVE  SumFunctionOnSet(h, S \cup {x}) = SumFunctionOnSet(f, S) + h[x]
<1>1. \A y \in S \cup {x} : h[y] \in Int
  OBVIOUS
<1>2. SumFunctionOnSet(h, S \cup {x}) = h[x] + SumFunctionOnSet(h, S)
  BY <1>1, SumWith
<1>3. SumFunctionOnSet(h, S) = SumFunctionOnSet(f, S)
  BY SumSame
<1>4. SumFunctionOnSet(f, S) \in Int
  BY SumIsInt
<1> QED
  BY <1>2, <1>3, <1>4

(* A sum may be made up of the sums of its parts: of the x with the same   *)
(* g[x], for each value y in R that g takes.                               *)
Part(f, S, g, y) == SumFunctionOnSet(f, {x \in S : g[x] = y})
Parts(f, S, g, R) == [y \in R |-> Part(f, S, g, y)]

LEMMA SumOfParts ==
    ASSUME NEW f, NEW S, IsFiniteSet(S), \A x \in S : f[x] \in Int,
           NEW R, IsFiniteSet(R), NEW g, \A x \in S : g[x] \in R
    PROVE  /\ \A y \in R : Part(f, S, g, y) \in Int
           /\ SumFunctionOnSet(f, S) = SumFunctionOnSet(Parts(f, S, g, R), R)
<1> DEFINE P(T) == Parts(f, T, g, R)
           F == {T \in SUBSET S : SumFunctionOnSet(f, T) = SumFunctionOnSet(P(T), R)}
<1>1. ASSUME NEW T \in SUBSET S, NEW y PROVE Part(f, T, g, y) \in Int
  <2> DEFINE U == {x \in T : g[x] = y}
  <2>1. IsFiniteSet(U) /\ \A x \in U : f[x] \in Int
    BY FS_Subset
  <2> HIDE DEF U
  <2>2. SumFunctionOnSet(f, U) \in Int
    BY <2>1, SumIsInt
  <2> QED
    BY <2>2 DEF Part, U
<1>2. ASSUME NEW T \in SUBSET S, \A x \in T : T \ {x} \in F
      PROVE  T \in F
  <2>1. CASE T = {}
    <3>1. \A y \in R : {x \in T : g[x] = y} = {}
      BY <2>1
    <3>2. \A y \in R : P(T)[y] = 0
      BY <3>1, SumOfNone DEF Part, Parts
    <3>3. SumFunctionOnSet(P(T), R) = 0
      BY <3>2, SumOfZeros
    <3> QED
      BY <2>1, <3>3, SumOfNone
  <2>2. CASE T # {}
    <3>1. PICK x \in T : TRUE
      BY <2>2
    <3> DEFINE W == T \ {x}
    <3>2. W \in SUBSET S /\ SumFunctionOnSet(f, W) = SumFunctionOnSet(P(W), R)
      BY <1>2
    <3>3. IsFiniteSet(T) /\ f[x] \in Int /\ \A y \in T : f[y] \in Int
      BY FS_Subset
    <3>4. /\ SumFunctionOnSet(f, W) \in Int
          /\ SumFunctionOnSet(f, T) = f[x] + SumFunctionOnSet(f, W)
      BY <3>3, SumWithout
    <3>5. ASSUME NEW y \in R, y # g[x] PROVE P(W)[y] = P(T)[y]
      <4>1. {z \in W : g[z] = y} = {z \in T : g[z] = y}
        BY <3>5
      <4> QED
        BY <4>1 DEF Part, Parts
    <3>6. P(T)[g[x]] = f[x] + P(W)[g[x]]
      <4> DEFINE U == {z \in T : g[z] = g[x]}
      <4>1. IsFiniteSet(U) /\ x \in U /\ \A z \in U : f[z] \in Int
        BY <3>3, FS_Subset
      <4>2. U \ {x} = {z \in W : g[z] = g[x]} /\ g[x] \in R
        OBVIOUS
      <4>3. P(T)[g[x]] = SumFunctionOnSet(f, U) /\ P(W)[g[x]] = SumFunctionOnSet(f, U \ {x})
        BY <4>2 DEF Part, Parts
      <4> HIDE DEF U
      <4> QED
        BY <4>1, <4>3, SumWithout
    <3>7. \A y \in R : P(T)[y] \in Int /\ P(W)[y] \in Int
      BY <1>1, <3>2 DEF Parts
    <3>8. g[x] \in R
      OBVIOUS
    <3> HIDE DEF P, W
    <3>9. \A y \in R \ {g[x]} : P(W)[y] = P(T)[y]
      BY <3>5
    <3>10. SumFunctionOnSet(P(T), R) = SumFunctionOnSet(P(W), R) + (P(T)[g[x]] - P(W)[g[x]])
      BY <3>7, <3>8, <3>9, SumChanges
    <3>11. SumFunctionOnSet(f, T) = SumFunctionOnSet(P(T), R)
      BY <3>2, <3>3, <3>4, <3>6, <3>7, <3>8, <3>10
    <3> QED
      BY <3>11
  <2> QED
    BY <2>1, <2>2
<1>3. S \in F
  <2> HIDE DEF F
  <2>1. \A T \in SUBSET S : T \in F
    BY <1>2, InductiveFamily
  <2> QED
    BY <2>1
<1> QED
  BY <1>1, <1>3

(* Numbers that differ in the place they are kept at have the same sum.    *)
LEMMA SumMoved ==
    ASSUME NEW f, NEW S, IsFiniteSet(S), \A x \in S : f[x] \in Int,
           NEW h, NEW R, IsFiniteSet(R), NEW g, \A x \in S : g[x] \in R,
           \A x, z \in S : g[x] = g[z] => x = z,
           \A y \in R : \E x \in S : g[x] = y /\ h[y] = f[x]
    PROVE  SumFunctionOnSet(f, S) = SumFunctionOnSet(h, R)
<1>1. ASSUME NEW y \in R PROVE Parts(f, S, g, R)[y] = h[y]
  <2>1. PICK x \in S : g[x] = y /\ h[y] = f[x]
    OBVIOUS
  <2>2. {z \in S : g[z] = y} = {x}
    BY <2>1
  <2>3. SumFunctionOnSet(f, {x}) = f[x]
    BY SumOfOne
  <2> QED
    BY <2>1, <2>2, <2>3 DEF Part, Parts
<1>2. SumFunctionOnSet(f, S) = SumFunctionOnSet(Parts(f, S, g, R), R)
  BY SumOfParts
<1> QED
  BY <1>1, <1>2, SumSame

(* Numbers that are each at most another one, no two at most the same, add *)
(* up to no more than those do, if none is negative.                       *)
LEMMA SumInto ==
    ASSUME NEW f, NEW S, IsFiniteSet(S), \A x \in S : f[x] \in Int,
           NEW h, NEW R, IsFiniteSet(R), \A y \in R : h[y] \in Nat,
           NEW g, \A x \in S : g[x] \in R /\ f[x] <= h[g[x]],
           \A x, z \in S : g[x] = g[z] => x = z
    PROVE  SumFunctionOnSet(f, S) <= SumFunctionOnSet(h, R)
<1> DEFINE p == Parts(f, S, g, R)
<1>1. SumFunctionOnSet(f, S) = SumFunctionOnSet(p, R) /\ \A y \in R : p[y] \in Int
  BY SumOfParts DEF Parts
<1>2. ASSUME NEW y \in R PROVE p[y] <= h[y]
  <2>1. CASE \A x \in S : g[x] # y
    <3>1. {x \in S : g[x] = y} = {}
      BY <2>1
    <3>2. p[y] = 0
      BY <3>1, SumOfNone DEF Part, Parts
    <3> QED
      BY <3>2
  <2>2. ASSUME NEW x \in S, g[x] = y PROVE p[y] <= h[y]
    <3>1. {z \in S : g[z] = y} = {x}
      BY <2>2
    <3>2. p[y] = f[x]
      BY <3>1, SumOfOne DEF Part, Parts
    <3> QED
      BY <2>2, <3>2
  <2> QED
    BY <2>1, <2>2
<1> HIDE DEF p
<1>3. SumFunctionOnSet(p, R) <= SumFunctionOnSet(h, R)
  BY <1>1, <1>2, SumAtMost
<1> QED
  BY <1>1, <1>3

LEMMA SumUpto ==
    ASSUME NEW f, NEW n \in Nat, \A k \in 1..(n+1) : f[k] \in Int
    PROVE  SumFunctionOnSet(f, 1..(n+1)) = SumFunctionOnSet(f, 1..n) + f[n+1]
<1> DEFINE S == 1..n
           R == 1..(n+1)
           x == n + 1
<1>1. R = S \cup {x} /\ x \notin S /\ IsFiniteSet(S) /\ x \in R
  BY FS_Interval
<1>2. \A k \in R : f[k] \in Int
  OBVIOUS
<1> HIDE DEF S, R, x
<1>3. SumFunctionOnSet(f, R) = f[x] + SumFunctionOnSet(f, S)
  BY <1>1, <1>2, SumWith
<1>4. SumFunctionOnSet(f, S) \in Int /\ f[x] \in Int
  BY <1>1, <1>2, SumIsInt
<1>5. SumFunctionOnSet(f, R) = SumFunctionOnSet(f, S) + f[x]
  BY <1>3, <1>4
<1> QED
  BY <1>5 DEF S, R, x

(* Terms that differ by at most e each add up to sums that do by e * n.    *)
LEMMA SumShort ==
    ASSUME NEW f, NEW h, NEW n \in Nat, NEW e \in Int,
           \A k \in 1..n : f[k] \in Int /\ h[k] \in Int /\ f[k] - h[k] <= e
    PROVE  /\ SumFunctionOnSet(f, 1..n) \in Int /\ SumFunctionOnSet(h, 1..n) \in Int
           /\ SumFunctionOnSet(f, 1..n) - SumFunctionOnSet(h, 1..n) <= e * n
<1> DEFINE B(k) == /\ SumFunctionOnSet(f, 1..k) \in Int /\ SumFunctionOnSet(h, 1..k) \in Int
                   /\ SumFunctionOnSet(f, 1..k) - SumFunctionOnSet(h, 1..k) <= e * k
           I == {k \in Nat : k <= n => B(k)}
<1>1. 0 \in I
  <2>1. 1..0 = {} /\ e * 0 = 0
    OBVIOUS
  <2>2. SumFunctionOnSet(f, 1..0) = 0 /\ SumFunctionOnSet(h, 1..0) = 0
    BY <2>1, SumOfNone
  <2> QED
    BY <2>1, <2>2
<1>2. ASSUME NEW k \in I PROVE k + 1 \in I
  <2> SUFFICES ASSUME k + 1 <= n PROVE B(k + 1)
    OBVIOUS
  <2>1. k \in Nat /\ B(k) /\ e * (k + 1) = e * k + e /\ e * k \in Int
    BY <1>2
  <2>2. \A l \in 1..(k+1) : f[l] \in Int /\ h[l] \in Int
    BY <2>1
  <2>3. f[k+1] \in Int /\ h[k+1] \in Int /\ f[k+1] - h[k+1] <= e
    BY <2>1
  <2>4. /\ SumFunctionOnSet(f, 1..(k+1)) = SumFunctionOnSet(f, 1..k) + f[k+1]
        /\ SumFunctionOnSet(h, 1..(k+1)) = SumFunctionOnSet(h, 1..k) + h[k+1]
    BY <2>1, <2>2, SumUpto
  <2> DEFINE a == SumFunctionOnSet(f, 1..k)
             b == SumFunctionOnSet(h, 1..k)
             x == f[k+1]
             y == h[k+1]
             u == e * k
  <2>5. /\ a \in Int /\ b \in Int /\ x \in Int /\ y \in Int /\ u \in Int
        /\ a - b <= u /\ x - y <= e
    BY <2>1, <2>3
  <2> HIDE DEF a, b, x, y, u
  <2>6. a + x \in Int /\ b + y \in Int /\ (a + x) - (b + y) <= u + e
    BY <2>5
  <2> QED
    BY <2>1, <2>4, <2>6 DEF a, b, x, y, u
<1>3. n \in I
  <2> HIDE DEF I
  <2>1. I \in SUBSET Nat
    BY DEF I
  <2> QED
    BY <1>1, <1>2, <2>1, InductiveSetOfNaturals
<1> QED
  BY <1>3
----------------------------------------------------------------------------
(* A loop of n rounds that starts with v and makes step[k][w] of w in its  *)
(* k-th round: the values after each round exist, and keep their type.     *)
Loops(n, V, v, step) ==
    {g \in [0..n -> V] : g = [k \in 0..n |-> IF k = 0 THEN v ELSE step[k][g[k-1]]]}

LEMMA LoopExists ==
    ASSUME NEW n \in Nat, NEW V, NEW v \in V, NEW step,
           \A k \in 1..n : \A w \in V : step[k][w] \in V
    PROVE  Loops(n, V, v, step) # {}
<1> DEFINE Upto(m, g) == /\ g \in [0..n -> V] /\ g[0] = v
                         /\ \A k \in 1..n : k <= m => g[k] = step[k][g[k-1]]
           I == {m \in Nat : \E g : Upto(m, g)}
<1>1. 0 \in I
  <2>1. Upto(0, [k \in 0..n |-> v])
    OBVIOUS
  <2> QED
    BY <2>1
<1>2. ASSUME NEW m \in I PROVE m + 1 \in I
  <2>1. PICK g : Upto(m, g)
    OBVIOUS
  <2>2. m \in Nat
    OBVIOUS
  <2> DEFINE h == [k \in 0..n |-> IF k = m + 1 THEN step[k][g[k-1]] ELSE g[k]]
  <2>3. h \in [0..n -> V]
    <3> SUFFICES ASSUME NEW k \in 0..n PROVE h[k] \in V
      OBVIOUS
    <3>1. CASE k = m + 1
      <4>1. k \in 1..n /\ k - 1 \in 0..n
        BY <2>2, <3>1
      <4> QED
        BY <2>1, <3>1, <4>1
    <3>2. CASE k # m + 1
      BY <2>1, <3>2
    <3> QED
      BY <3>1, <3>2
  <2>4. h[0] = v
    BY <2>1, <2>2
  <2>5. ASSUME NEW k \in 1..n, k <= m + 1 PROVE h[k] = step[k][h[k-1]]
    <3>1. k - 1 \in 0..n /\ k - 1 # m + 1 /\ k \in 0..n
      BY <2>2, <2>5
    <3>2. h[k-1] = g[k-1]
      BY <3>1
    <3>3. CASE k = m + 1
      BY <3>1, <3>2, <3>3
    <3>4. CASE k # m + 1
      <4>1. k <= m
        BY <2>2, <2>5, <3>4
      <4> QED
        BY <2>1, <3>1, <3>2, <3>4, <4>1
    <3> QED
      BY <3>3, <3>4
  <2>6. Upto(m + 1, h)
    BY <2>3, <2>4, <2>5
  <2>7. m + 1 \in Nat
    BY <2>2
  <2> HIDE DEF Upto, h
  <2> QED
    BY <2>6, <2>7
<1>3. PICK g : Upto(n, g)
  <2> HIDE DEF I
  <2>1. Nat \subseteq I
    BY <1>1, <1>2, InductiveSetOfNaturals DEF I
  <2> QED
    BY <2>1 DEF I
<1>4. \A k \in 0..n : g[k] = IF k = 0 THEN v ELSE step[k][g[k-1]]
  BY <1>3
<1>5. g \in [0..n -> V] /\ g = [k \in 0..n |-> IF k = 0 THEN v ELSE step[k][g[k-1]]]
  BY <1>3, <1>4
<1> QED
  BY <1>5 DEF Loops

LEMMA LoopTyped ==
    ASSUME NEW n \in Nat, NEW V, NEW h, h[0] \in V,
           \A k \in 1..n : h[k-1] \in V => h[k] \in V
    PROVE  \A k \in 0..n : h[k] \in V
<1> DEFINE I == {k \in Nat : k <= n => h[k] \in V}
<1>1. 0 \in I
  OBVIOUS
<1>2. ASSUME NEW k \in I PROVE k + 1 \in I
  <2>1. k \in Nat /\ (k + 1 <= n => k + 1 \in 1..n /\ (k + 1) - 1 = k)
    OBVIOUS
  <2> QED
    BY <2>1
<1> HIDE DEF I
<1>3. Nat \subseteq I
  BY <1>1, <1>2, InductiveSetOfNaturals DEF I
<1> QED
  BY <1>3 DEF I

LEMMA MinOfTwo ==
    ASSUME NEW m \in Int, NEW n \in Int
    PROVE  Min({m, n}) = IF m <= n THEN m ELSE n
<1>1. \E x \in {m, n} : \A y \in {m, n} : x <= y
  <2>1. CASE m <= n
    BY <2>1
  <2>2. CASE n <= m
    BY <2>2
  <2> QED
    BY <2>1, <2>2
<1>2. Min({m, n}) \in {m, n} /\ Min({m, n}) <= m /\ Min({m, n}) <= n
  BY <1>1 DEF Min
<1> QED
  BY <1>2

LEMMA MaxOfTwo ==
    ASSUME NEW m \in Int, NEW n \in Int
    PROVE  Max({m, n}) = IF m >= n THEN m ELSE n
<1>1. \E x \in {m, n} : \A y \in {m, n} : x >= y
  <2>1. CASE m <= n
    BY <2>1
  <2>2. CASE n <= m
    BY <2>2
  <2> QED
    BY <2>1, <2>2
<1>2. Max({m, n}) \in {m, n} /\ Max({m, n}) >= m /\ Max({m, n}) >= n
  BY <1>1 DEF Max
<1> QED
  BY <1>2
=============================================================================
