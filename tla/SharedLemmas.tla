---------------------------- MODULE SharedLemmas ----------------------------
(***************************************************************************)
(* Lemmas that the proofs share: induction over the natural numbers, least *)
(* and greatest members, sums over finite sets as the folds of the         *)
(* community modules compute them, recursions that run backward, and the   *)
(* columns of a rollout.                                                   *)
(***************************************************************************)
EXTENDS Credit, Functions, FiniteSetsExt, FiniteSetTheorems,
        WellFoundedInduction, TLAPS

(* A set of natural numbers that is not empty has a least one.             *)
LEMMA MinIsMember ==
    ASSUME NEW S \in SUBSET Nat, S # {}
    PROVE  Min(S) \in S /\ \A y \in S : Min(S) =< y
<1> DEFINE Below == {pair \in Nat \X Nat : pair[1] < pair[2]}
<1>1. IsWellFoundedOn(Below, Nat)
  BY NatLessThanWellFounded DEF OpToRel
<1> HIDE DEF Below
<1>2. \A R : IsWellFoundedOn(R, Nat)
                => \E x \in S : \A y \in S : ~(<<y, x>> \in R)
  BY WFMin
<1>3. \E x \in S : \A y \in S : ~(<<y, x>> \in Below)
  BY <1>1, <1>2, Zenon
<1>4. PICK x \in S : \A y \in S : ~(<<y, x>> \in Below)
  BY <1>3
<1>5. ASSUME NEW y \in S PROVE x =< y
  <2>1. <<y, x>> \in Nat \X Nat /\ <<y, x>> \notin Below
    BY <1>4
  <2>2. ~(y < x)
    BY <2>1 DEF Below
  <2>3. QED
    BY <2>2
<1>6. QED
  BY <1>4, <1>5 DEF Min

(* One that is bounded has a greatest one.                                 *)
LEMMA MaxIsMember ==
    ASSUME NEW S \in SUBSET Nat, S # {}, NEW n \in Nat, \A y \in S : y =< n
    PROVE  Max(S) \in S /\ \A y \in S : y =< Max(S)
<1> DEFINE Rest == {n - y : y \in S}
<1>1. Rest \in SUBSET Nat /\ Rest # {}
  <2>1. ASSUME NEW y \in S PROVE n - y \in Nat
    OBVIOUS
  <2>2. QED
    BY <2>1
<1>2. PICK r \in Rest : \A q \in Rest : r =< q
  BY <1>1, MinIsMember
<1>3. PICK x \in S : r = n - x
  BY <1>2
<1>4. ASSUME NEW y \in S PROVE y =< x
  <2>1. n - x =< n - y
    BY <1>2, <1>3
  <2>2. QED
    BY <2>1
<1>5. \E z \in S : \A y \in S : z >= y
  BY <1>4
<1>6. QED
  BY <1>5 DEF Max

(* Induction: a set that holds 0 and the successors of its members.        *)
LEMMA Induction ==
    ASSUME NEW P \in SUBSET Nat, 0 \in P, \A n \in P : n + 1 \in P
    PROVE  \A n \in Nat : n \in P
<1> SUFFICES ASSUME NEW k \in Nat, k \notin P PROVE FALSE
  OBVIOUS
<1> DEFINE Missing == Nat \ P
           m == Min(Missing)
<1>1. Missing \in SUBSET Nat /\ Missing # {}
  OBVIOUS
<1>2. m \in Missing /\ \A y \in Missing : m =< y
  BY <1>1, MinIsMember
<1> HIDE DEF m
<1>3. m # 0 /\ m - 1 \in Nat
  BY <1>2
<1>4. m - 1 \in P
  BY <1>2, <1>3
<1>5. m - 1 + 1 \in P
  BY <1>4
<1>6. QED
  BY <1>2, <1>5
-----------------------------------------------------------------------------
(* A function on the subsets of S that adds up d over each of them, taking *)
(* the elements in the order of pick.                                      *)
AddsUp(it, S, d, pick) ==
    it = [T \in SUBSET S |-> IF T = {} THEN 0
                             ELSE d[pick[T]] + it[T \ {pick[T]}]]

(* One from which any of the elements can be split off.                    *)
SplitsOff(it, S, d) ==
    \A T \in SUBSET S : \A x \in T : it[T] = d[x] + it[T \ {x}]

PicksFrom(pick, S) == \A T \in SUBSET S : T # {} => pick[T] \in T

(* The subsets of a finite set, one element at a time.                     *)
LEMMA OneLess ==
    ASSUME NEW S, IsFiniteSet(S), NEW T \in SUBSET S
    PROVE  /\ IsFiniteSet(T) /\ Cardinality(T) \in Nat
           /\ Cardinality(T) = 0 <=> T = {}
           /\ \A x \in T : /\ T \ {x} \in SUBSET S
                           /\ Cardinality(T \ {x}) = Cardinality(T) - 1
<1>1. IsFiniteSet(T) /\ Cardinality(T) \in Nat
  BY FS_Subset, FS_CardinalityType
<1>2. Cardinality(T) = 0 <=> T = {}
  BY <1>1, FS_EmptySet
<1>3. ASSUME NEW x \in T PROVE Cardinality(T \ {x}) = Cardinality(T) - 1
  BY <1>1, FS_RemoveElement
<1>4. QED
  BY <1>1, <1>2, <1>3

(* There is such a function.                                               *)
LEMMA SumExists ==
    ASSUME NEW S, IsFiniteSet(S), NEW d, \A x \in S : d[x] \in Int,
           NEW pick, PicksFrom(pick, S)
    PROVE  \E it : AddsUp(it, S, d, pick)
<1> DEFINE Next(it, T) == IF T = {} THEN 0 ELSE d[pick[T]] + it[T \ {pick[T]}]
           Upto(it, n) == \A T \in SUBSET S : Cardinality(T) =< n => it[T] = Next(it, T)
           P == {n \in Nat : \E it \in [SUBSET S -> Int] : Upto(it, n)}
<1>1. ASSUME NEW T \in SUBSET S, T # {}
      PROVE  /\ pick[T] \in T /\ pick[T] \in S /\ T \ {pick[T]} \in SUBSET S
             /\ Cardinality(T \ {pick[T]}) = Cardinality(T) - 1
             /\ Cardinality(T) \in Nat /\ Cardinality(T) # 0
  BY <1>1, OneLess DEF PicksFrom
<1>2. 0 \in P
  <2> DEFINE zero == [T \in SUBSET S |-> 0]
  <2>1. zero \in [SUBSET S -> Int]
    OBVIOUS
  <2>2. ASSUME NEW T \in SUBSET S, Cardinality(T) =< 0 PROVE T = {}
    BY <2>2, OneLess
  <2>3. Upto(zero, 0)
    BY <2>2
  <2>4. QED
    BY <2>1, <2>3
<1>3. ASSUME NEW n \in P PROVE n + 1 \in P
  <2>1. PICK it \in [SUBSET S -> Int] : Upto(it, n)
    OBVIOUS
  <2> DEFINE more == [T \in SUBSET S |-> Next(it, T)]
  <2>2. more \in [SUBSET S -> Int]
    <3>1. ASSUME NEW T \in SUBSET S PROVE Next(it, T) \in Int
      <4>1. CASE T = {}
        BY <4>1
      <4>2. CASE T # {}
        <5>1. d[pick[T]] \in Int /\ it[T \ {pick[T]}] \in Int
          BY <1>1, <4>2
        <5>2. QED
          BY <4>2, <5>1
      <4>3. QED
        BY <4>1, <4>2
    <3>2. QED
      BY <3>1
  <2>3. ASSUME NEW T \in SUBSET S, Cardinality(T) =< n + 1
        PROVE  more[T] = Next(more, T)
    <3>1. CASE T = {}
      BY <3>1
    <3>2. CASE T # {}
      <4> DEFINE U == T \ {pick[T]}
      <4>1. U \in SUBSET S /\ Cardinality(U) =< n
        BY <1>1, <2>3, <3>2
      <4>2. it[U] = Next(it, U)
        BY <2>1, <4>1
      <4>3. more[U] = it[U]
        BY <4>1, <4>2
      <4>4. more[T] = d[pick[T]] + it[U]
        BY <3>2
      <4>5. QED
        BY <3>2, <4>3, <4>4
    <3>3. QED
      BY <3>1, <3>2
  <2>4. Upto(more, n + 1)
    BY <2>3
  <2>5. n + 1 \in Nat
    OBVIOUS
  <2>6. QED
    BY <2>2, <2>4, <2>5
<1>4. Cardinality(S) \in P
  <2>1. P \in SUBSET Nat
    OBVIOUS
  <2>2. Cardinality(S) \in Nat
    BY FS_CardinalityType
  <2> HIDE DEF P
  <2>3. QED
    BY <1>2, <1>3, <2>1, <2>2, Induction
<1>5. PICK it \in [SUBSET S -> Int] : Upto(it, Cardinality(S))
  BY <1>4
<1>6. ASSUME NEW T \in SUBSET S PROVE it[T] = Next(it, T)
  <2>1. Cardinality(T) =< Cardinality(S)
    BY FS_Subset
  <2>2. QED
    BY <1>5, <2>1
<1>7. it = [T \in SUBSET S |-> Next(it, T)]
  BY <1>6
<1>8. QED
  BY <1>7 DEF AddsUp

(* It gives integers.                                                      *)
LEMMA SumTyped ==
    ASSUME NEW S, IsFiniteSet(S), NEW d, \A x \in S : d[x] \in Int,
           NEW pick, PicksFrom(pick, S), NEW it, AddsUp(it, S, d, pick)
    PROVE  it[{}] = 0 /\ \A T \in SUBSET S : it[T] \in Int
<1> DEFINE P == {n \in Nat : \A T \in SUBSET S : Cardinality(T) = n => it[T] \in Int}
<1>1. \A T \in SUBSET S : it[T] = IF T = {} THEN 0 ELSE d[pick[T]] + it[T \ {pick[T]}]
  BY DEF AddsUp
<1>2. ASSUME NEW T \in SUBSET S, T # {}
      PROVE  /\ pick[T] \in T /\ d[pick[T]] \in Int /\ T \ {pick[T]} \in SUBSET S
             /\ Cardinality(T \ {pick[T]}) = Cardinality(T) - 1
             /\ Cardinality(T) \in Nat /\ Cardinality(T) # 0
  BY <1>2, OneLess DEF PicksFrom
<1>3. 0 \in P
  <2>1. ASSUME NEW T \in SUBSET S, Cardinality(T) = 0 PROVE it[T] \in Int
    <3>1. T = {}
      BY <2>1, OneLess
    <3>2. it[T] = 0
      BY <1>1, <3>1
    <3>3. QED
      BY <3>2
  <2>2. QED
    BY <2>1
<1>4. ASSUME NEW n \in P PROVE n + 1 \in P
  <2>1. n \in Nat /\ \A U \in SUBSET S : Cardinality(U) = n => it[U] \in Int
    OBVIOUS
  <2>2. ASSUME NEW T \in SUBSET S, Cardinality(T) = n + 1 PROVE it[T] \in Int
    <3>1. T # {}
      BY <2>1, <2>2, OneLess
    <3>2. it[T \ {pick[T]}] \in Int
      BY <1>2, <2>1, <2>2, <3>1
    <3>3. d[pick[T]] \in Int /\ it[T] = d[pick[T]] + it[T \ {pick[T]}]
      BY <1>1, <1>2, <3>1
    <3>4. QED
      BY <3>2, <3>3
  <2>3. QED
    BY <2>1, <2>2
<1>5. ASSUME NEW T \in SUBSET S PROVE it[T] \in Int
  <2>1. Cardinality(T) \in Nat
    BY FS_CardinalityType, FS_Subset
  <2>2. P \in SUBSET Nat
    OBVIOUS
  <2> HIDE DEF P
  <2>3. Cardinality(T) \in P
    BY <1>3, <1>4, <2>1, <2>2, Induction
  <2>4. QED
    BY <2>3 DEF P
<1>6. it[{}] = 0
  BY <1>1
<1>7. QED
  BY <1>5, <1>6

(* The order does not matter: any element may be split off.                *)
LEMMA SplitAnywhere ==
    ASSUME NEW S, IsFiniteSet(S), NEW d, \A x \in S : d[x] \in Int,
           NEW pick, PicksFrom(pick, S), NEW it, AddsUp(it, S, d, pick)
    PROVE  SplitsOff(it, S, d)
<1> DEFINE Good(T) == \A x \in T : it[T] = d[x] + it[T \ {x}]
           P == {n \in Nat : \A T \in SUBSET S : Cardinality(T) = n => Good(T)}
<1>1. \A T \in SUBSET S : it[T] = IF T = {} THEN 0 ELSE d[pick[T]] + it[T \ {pick[T]}]
  BY DEF AddsUp
<1>2. \A T \in SUBSET S : it[T] \in Int
  BY SumTyped
<1>3. ASSUME NEW T \in SUBSET S, NEW x \in T
      PROVE  /\ T \ {x} \in SUBSET S /\ d[x] \in Int /\ Cardinality(T) \in Nat
             /\ Cardinality(T \ {x}) = Cardinality(T) - 1 /\ Cardinality(T) # 0
  BY OneLess
<1>4. 0 \in P
  BY <1>3
<1>5. ASSUME NEW n \in P PROVE n + 1 \in P
  <2>0. n \in Nat /\ \A U \in SUBSET S : Cardinality(U) = n => Good(U)
    OBVIOUS
  <2>1. ASSUME NEW T \in SUBSET S, Cardinality(T) = n + 1, NEW x \in T
        PROVE  it[T] = d[x] + it[T \ {x}]
    <3> DEFINE p == pick[T]
    <3>1. p \in T /\ it[T] = d[p] + it[T \ {p}]
      BY <1>1 DEF PicksFrom
    <3> HIDE DEF p, P
    <3>2. CASE x = p
      BY <3>1, <3>2
    <3>3. CASE x # p
      <4>1. it[T \ {p}] = d[x] + it[(T \ {p}) \ {x}]
        BY <1>3, <2>0, <2>1, <3>1, <3>3
      <4>2. it[T \ {x}] = d[p] + it[(T \ {x}) \ {p}]
        <5>1. /\ T \ {x} \in SUBSET S /\ Cardinality(T \ {x}) = n
              /\ p \in T \ {x}
          BY <1>3, <2>0, <2>1, <3>1, <3>3
        <5>2. QED
          BY <2>0, <5>1
      <4>3. (T \ {x}) \ {p} = (T \ {p}) \ {x} /\ (T \ {p}) \ {x} \in SUBSET S
        OBVIOUS
      <4>4. /\ d[x] \in Int /\ d[p] \in Int
            /\ it[(T \ {p}) \ {x}] \in Int
        BY <1>2, <1>3, <3>1, <4>3
      <4>5. \A a, b, c : a \in Int /\ b \in Int /\ c \in Int => a + (b + c) = b + (a + c)
        OBVIOUS
      <4>6. QED
        BY <3>1, <4>1, <4>2, <4>3, <4>4, <4>5
    <3>4. QED
      BY <3>2, <3>3
  <2>2. QED
    BY <2>0, <2>1
<1>6. SUFFICES ASSUME NEW T \in SUBSET S PROVE Good(T)
  BY DEF SplitsOff
<1>7. Cardinality(T) \in Nat /\ P \in SUBSET Nat
  BY FS_CardinalityType, FS_Subset
<1> HIDE DEF P
<1>8. Cardinality(T) \in P
  BY <1>4, <1>5, <1>7, Induction
<1>9. QED
  BY <1>8 DEF P

(* What can be split in the same way is the same.                          *)
LEMMA SumsAgree ==
    ASSUME NEW S, IsFiniteSet(S), NEW g, NEW h, g[{}] = h[{}],
           \A T \in SUBSET S : \A x \in T :
               g[T \ {x}] = h[T \ {x}] => g[T] = h[T]
    PROVE  g[S] = h[S]
<1> DEFINE P == {n \in Nat : \A T \in SUBSET S : Cardinality(T) = n => g[T] = h[T]}
<1>1. 0 \in P
  BY OneLess
<1>2. ASSUME NEW n \in P PROVE n + 1 \in P
  <2>1. n \in Nat /\ \A U \in SUBSET S : Cardinality(U) = n => g[U] = h[U]
    OBVIOUS
  <2>2. ASSUME NEW T \in SUBSET S, Cardinality(T) = n + 1 PROVE g[T] = h[T]
    <3>1. T # {}
      BY <2>1, <2>2, OneLess
    <3>2. PICK x \in T : TRUE
      BY <3>1
    <3>3. T \ {x} \in SUBSET S /\ Cardinality(T \ {x}) = n
      BY <2>1, <2>2, OneLess
    <3>4. QED
      BY <2>1, <3>3
  <2>3. QED
    BY <2>1, <2>2
<1>3. Cardinality(S) \in Nat /\ P \in SUBSET Nat
  BY FS_CardinalityType
<1> HIDE DEF P
<1>4. Cardinality(S) \in P
  BY <1>1, <1>2, <1>3, Induction
<1>5. QED
  BY <1>4 DEF P
-----------------------------------------------------------------------------
(***************************************************************************)
(* SumFunctionOnSet(d, S), the sum of d[x] for x in S.                     *)
(***************************************************************************)
LEMMA SumIsAFold ==
    ASSUME NEW S, IsFiniteSet(S), NEW d, \A x \in S : d[x] \in Int
    PROVE  \E pick, it : /\ PicksFrom(pick, S) /\ AddsUp(it, S, d, pick)
                         /\ SumFunctionOnSet(d, S) = it[S]
<1> DEFINE choice(T) == CHOOSE x \in T : TRUE
           pick == [T \in SUBSET S |-> choice(T)]
           Adds(f) == f = [T \in SUBSET S |-> IF T = {} THEN 0
                                              ELSE d[choice(T)] + f[T \ {choice(T)}]]
           it == CHOOSE f : Adds(f)
<1>1. PicksFrom(pick, S)
  BY DEF PicksFrom
<1>2. PICK f : AddsUp(f, S, d, pick)
  <2> HIDE DEF pick
  <2>1. QED
    BY <1>1, SumExists
<1>3. Adds(f)
  <2>1. \A T \in SUBSET S : pick[T] = choice(T)
    OBVIOUS
  <2> HIDE DEF pick
  <2>2. f = [T \in SUBSET S |-> IF T = {} THEN 0 ELSE d[pick[T]] + f[T \ {pick[T]}]]
    BY <1>2 DEF AddsUp
  <2> HIDE DEF choice
  <2>3. QED
    BY <2>1, <2>2
<1>4. Adds(it)
  BY <1>3
<1>5. AddsUp(it, S, d, pick)
  <2>1. \A T \in SUBSET S : pick[T] = choice(T)
    OBVIOUS
  <2> HIDE DEF pick, it, choice
  <2>2. QED
    BY <1>4, <2>1 DEF AddsUp
<1>6. SumFunctionOnSet(d, S) = it[S]
  BY Zenon DEF SumFunctionOnSet, FoldFunctionOnSet, MapThenFoldSet
<1>7. QED
  BY <1>1, <1>5, <1>6

(* Any sum over S that splits is this one.                                 *)
LEMMA SumIsThis ==
    ASSUME NEW S, IsFiniteSet(S), NEW d, \A x \in S : d[x] \in Int,
           NEW pick, PicksFrom(pick, S), NEW it, AddsUp(it, S, d, pick)
    PROVE  it[S] = SumFunctionOnSet(d, S)
<1>1. PICK pock, at : /\ PicksFrom(pock, S) /\ AddsUp(at, S, d, pock)
                      /\ SumFunctionOnSet(d, S) = at[S]
  BY SumIsAFold
<1>2. it[{}] = 0 /\ at[{}] = 0
  BY <1>1, SumTyped
<1>3. SplitsOff(it, S, d) /\ SplitsOff(at, S, d)
  BY <1>1, SplitAnywhere
<1>5. \A T \in SUBSET S : \A x \in T : it[T \ {x}] = at[T \ {x}] => it[T] = at[T]
  BY <1>3 DEF SplitsOff
<1>6. it[{}] = at[{}]
  BY <1>2
<1>7. it[S] = at[S]
  BY <1>5, <1>6, SumsAgree
<1>8. QED
  BY <1>1, <1>7

LEMMA SumOfNothing == ASSUME NEW d PROVE SumFunctionOnSet(d, {}) = 0
<1>1. IsFiniteSet({}) /\ \A x \in {} : d[x] \in Int
  BY FS_EmptySet
<1>2. PICK pick, it : /\ PicksFrom(pick, {}) /\ AddsUp(it, {}, d, pick)
                      /\ SumFunctionOnSet(d, {}) = it[{}]
  BY <1>1, SumIsAFold
<1>3. QED
  BY <1>1, <1>2, SumTyped

(* A sum is an integer, and any of its terms can be split off.             *)
LEMMA SumSplits ==
    ASSUME NEW S, IsFiniteSet(S), NEW d, \A x \in S : d[x] \in Int
    PROVE  /\ SumFunctionOnSet(d, S) \in Int
           /\ \A x \in S : SumFunctionOnSet(d, S) = d[x] + SumFunctionOnSet(d, S \ {x})
<1>1. PICK pick, it : /\ PicksFrom(pick, S) /\ AddsUp(it, S, d, pick)
                      /\ SumFunctionOnSet(d, S) = it[S]
  BY SumIsAFold
<1>2. \A T \in SUBSET S : it[T] \in Int
  BY <1>1, SumTyped
<1>3. ASSUME NEW x \in S
      PROVE  SumFunctionOnSet(d, S) = d[x] + SumFunctionOnSet(d, S \ {x})
  <2> DEFINE U == S \ {x}
             part == [T \in SUBSET U |-> it[T]]
  <2>1. IsFiniteSet(U) /\ \A y \in U : d[y] \in Int
    BY FS_Subset
  <2>2. PicksFrom(pick, U)
    BY <1>1 DEF PicksFrom
  <2>3. AddsUp(part, U, d, pick)
    <3>1. ASSUME NEW T \in SUBSET U
          PROVE  it[T] = IF T = {} THEN 0 ELSE d[pick[T]] + part[T \ {pick[T]}]
      <4>1. T \in SUBSET S /\ T \ {pick[T]} \in SUBSET U
        OBVIOUS
      <4>2. part[T \ {pick[T]}] = it[T \ {pick[T]}]
        BY <4>1
      <4>3. it[T] = IF T = {} THEN 0 ELSE d[pick[T]] + it[T \ {pick[T]}]
        BY <1>1, <4>1 DEF AddsUp
      <4>4. QED
        BY <4>2, <4>3
    <3>2. QED
      BY <3>1 DEF AddsUp
  <2>4. part[U] = it[U]
    OBVIOUS
  <2> HIDE DEF part, U
  <2>5. part[U] = SumFunctionOnSet(d, U)
    BY <2>1, <2>2, <2>3, SumIsThis
  <2>6. it[S] = d[x] + it[U]
    <3>1. SplitsOff(it, S, d)
      BY <1>1, SplitAnywhere
    <3>2. QED
      BY <3>1 DEF U, SplitsOff
  <2>7. QED
    BY <1>1, <2>4, <2>5, <2>6 DEF U
<1>4. QED
  BY <1>1, <1>2, <1>3

(* A sum over S, one term at a time: what two sums have in common.         *)
LEMMA SumsOfSubsets ==
    ASSUME NEW S, IsFiniteSet(S), NEW d, \A x \in S : d[x] \in Int
    PROVE  \A T \in SUBSET S :
              /\ SumFunctionOnSet(d, T) \in Int
              /\ \A x \in T : /\ d[x] \in Int /\ T \ {x} \in SUBSET S
                              /\ SumFunctionOnSet(d, T \ {x}) \in Int
                              /\ SumFunctionOnSet(d, T)
                                     = d[x] + SumFunctionOnSet(d, T \ {x})
<1>1. ASSUME NEW T \in SUBSET S
      PROVE  IsFiniteSet(T) /\ \A x \in T : d[x] \in Int
  BY FS_Subset
<1>2. ASSUME NEW T \in SUBSET S PROVE SumFunctionOnSet(d, T) \in Int
  BY <1>1, SumSplits
<1>3. ASSUME NEW T \in SUBSET S, NEW x \in T
      PROVE  SumFunctionOnSet(d, T) = d[x] + SumFunctionOnSet(d, T \ {x})
  BY <1>1, SumSplits
<1>4. QED
  BY <1>2, <1>3

(* Only the terms in S count.                                              *)
LEMMA SumCongruent ==
    ASSUME NEW S, IsFiniteSet(S), NEW d, \A x \in S : d[x] \in Int,
           NEW e, \A x \in S : e[x] = d[x]
    PROVE  SumFunctionOnSet(e, S) = SumFunctionOnSet(d, S)
<1> DEFINE g == [T \in SUBSET S |-> SumFunctionOnSet(d, T)]
           h == [T \in SUBSET S |-> SumFunctionOnSet(e, T)]
<1>1. g[{}] = h[{}]
  BY SumOfNothing
<1>2. ASSUME NEW T \in SUBSET S, NEW x \in T, g[T \ {x}] = h[T \ {x}]
      PROVE  g[T] = h[T]
  <2>1. SumFunctionOnSet(d, T) = d[x] + SumFunctionOnSet(d, T \ {x})
    BY SumsOfSubsets
  <2>2. SumFunctionOnSet(e, T) = e[x] + SumFunctionOnSet(e, T \ {x})
    <3>1. \A y \in S : e[y] \in Int
      OBVIOUS
    <3>2. QED
      BY <3>1, SumsOfSubsets
  <2>3. QED
    BY <1>2, <2>1, <2>2
<1>3. g[S] = SumFunctionOnSet(d, S) /\ h[S] = SumFunctionOnSet(e, S)
  OBVIOUS
<1> HIDE DEF g, h
<1>4. QED
  BY <1>1, <1>2, <1>3, SumsAgree

(* One term changes.                                                       *)
LEMMA SumUpdated ==
    ASSUME NEW S, IsFiniteSet(S), NEW d, \A y \in S : d[y] \in Int,
           NEW x \in S, NEW e, e[x] \in Int, \A y \in S \ {x} : e[y] = d[y]
    PROVE  SumFunctionOnSet(e, S) = SumFunctionOnSet(d, S) + (e[x] - d[x])
<1> DEFINE rest == SumFunctionOnSet(d, S \ {x})
<1>1. SumFunctionOnSet(d, S) = d[x] + rest /\ rest \in Int
  BY SumsOfSubsets
<1>2. \A y \in S : e[y] \in Int
  OBVIOUS
<1>3. SumFunctionOnSet(e, S) = e[x] + SumFunctionOnSet(e, S \ {x})
  BY <1>2, SumsOfSubsets
<1>4. SumFunctionOnSet(e, S \ {x}) = rest
  <2>1. IsFiniteSet(S \ {x})
    BY FS_Subset
  <2>2. QED
    BY <2>1, SumCongruent
<1> HIDE DEF rest
<1>5. QED
  BY <1>1, <1>3, <1>4

(* A sum over all but the last entry, and the last.                        *)
LEMMA SumOneMore ==
    ASSUME NEW n \in Nat, NEW d, \A k \in 1 .. n : d[k] \in Int,
           NEW e, e[n + 1] \in Int, \A k \in 1 .. n : e[k] = d[k]
    PROVE  /\ SumFunctionOnSet(d, 1 .. n) \in Int
           /\ SumFunctionOnSet(e, 1 .. n + 1) = SumFunctionOnSet(d, 1 .. n) + e[n + 1]
<1> DEFINE S == 1 .. n
           T == 1 .. n + 1
<1>1. IsFiniteSet(S) /\ IsFiniteSet(T)
  BY FS_Interval
<1>2. T \ {n + 1} = S /\ n + 1 \in T
  OBVIOUS
<1>3. \A k \in T : e[k] \in Int
  OBVIOUS
<1>4. /\ \A k \in S : d[k] \in Int
      /\ \A k \in S : e[k] = d[k]
  OBVIOUS
<1> HIDE DEF S, T
<1>5. SumFunctionOnSet(e, T) = e[n + 1] + SumFunctionOnSet(e, T \ {n + 1})
  BY <1>1, <1>2, <1>3, SumSplits
<1>6. SumFunctionOnSet(e, S) = SumFunctionOnSet(d, S)
  BY <1>1, <1>4, SumCongruent
<1>7. SumFunctionOnSet(d, S) \in Int
  BY <1>1, <1>4, SumSplits
<1>8. SumFunctionOnSet(e, T) = SumFunctionOnSet(d, S) + e[n + 1]
  <2>1. e[n + 1] \in Int
    OBVIOUS
  <2>2. QED
    BY <1>2, <1>5, <1>6, <1>7, <2>1
<1>9. QED
  BY <1>7, <1>8 DEF S, T

(* No term is anything, no term is negative; two sums added up.            *)
LEMMA SumOfZeros ==
    ASSUME NEW S, IsFiniteSet(S), NEW d, \A x \in S : d[x] = 0
    PROVE  SumFunctionOnSet(d, S) = 0
<1> DEFINE g == [T \in SUBSET S |-> SumFunctionOnSet(d, T)]
           h == [T \in SUBSET S |-> 0]
<1>1. g[{}] = h[{}]
  BY SumOfNothing
<1>2. ASSUME NEW T \in SUBSET S, NEW x \in T, g[T \ {x}] = h[T \ {x}]
      PROVE  g[T] = h[T]
  <2>1. \A y \in S : d[y] \in Int
    OBVIOUS
  <2>2. SumFunctionOnSet(d, T) = d[x] + SumFunctionOnSet(d, T \ {x})
    BY <2>1, SumsOfSubsets
  <2>3. QED
    BY <1>2, <2>2
<1>3. g[S] = SumFunctionOnSet(d, S) /\ h[S] = 0
  OBVIOUS
<1> HIDE DEF g, h
<1>4. QED
  BY <1>1, <1>2, <1>3, SumsAgree

LEMMA SumsAddUp ==
    ASSUME NEW S, IsFiniteSet(S), NEW d, \A x \in S : d[x] \in Int,
           NEW e, \A x \in S : e[x] \in Int,
           NEW f, \A x \in S : f[x] = d[x] + e[x]
    PROVE  SumFunctionOnSet(f, S) = SumFunctionOnSet(d, S) + SumFunctionOnSet(e, S)
<1> DEFINE g == [T \in SUBSET S |-> SumFunctionOnSet(d, T) + SumFunctionOnSet(e, T)]
           h == [T \in SUBSET S |-> SumFunctionOnSet(f, T)]
<1>1. g[{}] = h[{}]
  BY SumOfNothing
<1>2. ASSUME NEW T \in SUBSET S, NEW x \in T, g[T \ {x}] = h[T \ {x}]
      PROVE  g[T] = h[T]
  <2>1. /\ SumFunctionOnSet(d, T) = d[x] + SumFunctionOnSet(d, T \ {x})
        /\ d[x] \in Int /\ SumFunctionOnSet(d, T \ {x}) \in Int
        /\ T \ {x} \in SUBSET S
    BY SumsOfSubsets
  <2>2. /\ SumFunctionOnSet(e, T) = e[x] + SumFunctionOnSet(e, T \ {x})
        /\ e[x] \in Int /\ SumFunctionOnSet(e, T \ {x}) \in Int
    BY SumsOfSubsets
  <2>3. SumFunctionOnSet(f, T) = f[x] + SumFunctionOnSet(f, T \ {x})
    <3>1. \A y \in S : f[y] \in Int
      OBVIOUS
    <3>2. QED
      BY <3>1, SumsOfSubsets
  <2>4. SumFunctionOnSet(f, T \ {x})
            = SumFunctionOnSet(d, T \ {x}) + SumFunctionOnSet(e, T \ {x})
    BY <1>2, <2>1
  <2>5. \A a, b, p, q : a \in Int /\ b \in Int /\ p \in Int /\ q \in Int
                           => (a + b) + (p + q) = (a + p) + (b + q)
    OBVIOUS
  <2>6. QED
    BY <2>1, <2>2, <2>3, <2>4, <2>5
<1>3. /\ g[S] = SumFunctionOnSet(d, S) + SumFunctionOnSet(e, S)
      /\ h[S] = SumFunctionOnSet(f, S)
  OBVIOUS
<1> HIDE DEF g, h
<1>4. QED
  BY <1>1, <1>2, <1>3, SumsAgree

LEMMA SumOfNaturals ==
    ASSUME NEW S, IsFiniteSet(S), NEW d, \A x \in S : d[x] \in Nat
    PROVE  SumFunctionOnSet(d, S) \in Nat
<1> DEFINE g == [T \in SUBSET S |-> IF SumFunctionOnSet(d, T) \in Nat THEN 1 ELSE 0]
           h == [T \in SUBSET S |-> 1]
<1>1. g[{}] = h[{}]
  BY SumOfNothing
<1>2. ASSUME NEW T \in SUBSET S, NEW x \in T, g[T \ {x}] = h[T \ {x}]
      PROVE  g[T] = h[T]
  <2>1. \A y \in S : d[y] \in Int
    OBVIOUS
  <2>2. /\ SumFunctionOnSet(d, T) = d[x] + SumFunctionOnSet(d, T \ {x})
        /\ d[x] \in Nat
    BY <2>1, SumsOfSubsets
  <2>3. SumFunctionOnSet(d, T \ {x}) \in Nat
    BY <1>2
  <2>4. SumFunctionOnSet(d, T) \in Nat
    BY <2>2, <2>3
  <2>5. QED
    BY <2>4
<1>3. h[S] = 1 /\ (g[S] = 1 => SumFunctionOnSet(d, S) \in Nat)
  OBVIOUS
<1> HIDE DEF g, h
<1>4. QED
  BY <1>1, <1>2, <1>3, SumsAgree

(* The sum over a part, as a sum over all of it.                           *)
LEMMA SumOfPart ==
    ASSUME NEW S, IsFiniteSet(S), NEW d, \A x \in S : d[x] \in Int,
           NEW T \in SUBSET S,
           NEW e, \A x \in S : e[x] = IF x \in T THEN d[x] ELSE 0
    PROVE  SumFunctionOnSet(e, S) = SumFunctionOnSet(d, T)
<1> DEFINE g == [U \in SUBSET S |-> SumFunctionOnSet(e, U)]
           h == [U \in SUBSET S |-> SumFunctionOnSet(d, U \cap T)]
<1>1. g[{}] = h[{}]
  <2>1. {} \cap T = {}
    OBVIOUS
  <2>2. QED
    BY <2>1, SumOfNothing
<1>2. ASSUME NEW U \in SUBSET S, NEW x \in U, g[U \ {x}] = h[U \ {x}]
      PROVE  g[U] = h[U]
  <2>1. \A y \in S : e[y] \in Int
    OBVIOUS
  <2>2. x \in S /\ U \ {x} \in SUBSET S /\ U \cap T \in SUBSET S
    OBVIOUS
  <2>3. SumFunctionOnSet(e, U) = e[x] + SumFunctionOnSet(e, U \ {x})
        /\ SumFunctionOnSet(e, U \ {x}) \in Int
    BY <2>1, SumsOfSubsets
  <2>4. SumFunctionOnSet(e, U \ {x}) = SumFunctionOnSet(d, (U \ {x}) \cap T)
    BY <1>2, <2>2
  <2>5. CASE x \in T
    <3>1. (U \cap T) \ {x} = (U \ {x}) \cap T /\ x \in U \cap T
      BY <2>5
    <3>2. SumFunctionOnSet(d, U \cap T) = d[x] + SumFunctionOnSet(d, (U \cap T) \ {x})
      BY <2>2, <3>1, SumsOfSubsets
    <3>3. e[x] = d[x]
      BY <2>2, <2>5
    <3>4. QED
      BY <2>3, <2>4, <3>1, <3>2, <3>3
  <2>6. CASE x \notin T
    <3>1. (U \ {x}) \cap T = U \cap T
      BY <2>6
    <3>2. e[x] = 0
      BY <2>2, <2>6
    <3>3. QED
      BY <2>3, <2>4, <3>1, <3>2
  <2>7. QED
    BY <2>5, <2>6
<1>3. S \in SUBSET S /\ S \cap T = T
  OBVIOUS
<1> HIDE DEF g, h
<1>4. g[S] = h[S]
  BY <1>1, <1>2, SumsAgree
<1>5. QED
  BY <1>3, <1>4 DEF g, h

(* Things counted by a label: the counts add up to the number of things    *)
(* that have one of the labels.                                            *)
Counts(c, S, T, label) == \A x \in S : c[x] = Cardinality({t \in T : label[t] = x})
Labelled(T, label, S) == {t \in T : label[t] \in S}

LEMMA CountsAddUp ==
    ASSUME NEW S, IsFiniteSet(S), NEW T, IsFiniteSet(T), NEW label,
           NEW c, Counts(c, S, T, label)
    PROVE  SumFunctionOnSet(c, S) = Cardinality(Labelled(T, label, S))
<1>1. \A x \in S : c[x] = Cardinality({t \in T : label[t] = x})
  BY DEF Counts
<1> DEFINE g == [U \in SUBSET S |-> SumFunctionOnSet(c, U)]
           h == [U \in SUBSET S |-> Cardinality({t \in T : label[t] \in U})]
<1>2. \A x \in S : c[x] \in Int
  <2> SUFFICES ASSUME NEW x \in S PROVE c[x] \in Int
    OBVIOUS
  <2>1. IsFiniteSet({t \in T : label[t] = x})
    BY FS_Subset
  <2>2. Cardinality({t \in T : label[t] = x}) \in Nat
    BY <2>1, FS_CardinalityType
  <2>3. QED
    BY <1>1, <2>2
<1>3. g[{}] = h[{}]
  <2>1. {t \in T : label[t] \in {}} = {}
    OBVIOUS
  <2>2. QED
    BY <2>1, SumOfNothing, FS_EmptySet
<1>4. ASSUME NEW U \in SUBSET S, NEW x \in U, g[U \ {x}] = h[U \ {x}]
      PROVE  g[U] = h[U]
  <2> DEFINE here == {t \in T : label[t] = x}
             there == {t \in T : label[t] \in U \ {x}}
             all == {t \in T : label[t] \in U}
  <2>1. SumFunctionOnSet(c, U) = c[x] + SumFunctionOnSet(c, U \ {x})
    BY <1>2, SumsOfSubsets
  <2>2. all = here \cup there /\ here \cap there = {}
    OBVIOUS
  <2>3. IsFiniteSet(here) /\ IsFiniteSet(there)
    BY FS_Subset
  <2>4. c[x] = Cardinality(here)
    BY <1>1
  <2>5. SumFunctionOnSet(c, U \ {x}) = Cardinality(there)
    BY <1>4
  <2>6. g[U] = SumFunctionOnSet(c, U) /\ h[U] = Cardinality(all)
    OBVIOUS
  <2> HIDE DEF here, there, all, g, h
  <2>7. Cardinality(all) = Cardinality(here) + Cardinality(there)
    <3>1. Cardinality({}) = 0
      BY FS_EmptySet
    <3>2. Cardinality(here) \in Nat /\ Cardinality(there) \in Nat
      BY <2>3, FS_CardinalityType
    <3>3. Cardinality(here \cup there)
              = Cardinality(here) + Cardinality(there) - Cardinality(here \cap there)
      BY <2>3, FS_Union
    <3>4. /\ Cardinality(all) = Cardinality(here \cup there)
          /\ Cardinality(here \cap there) = 0
      BY <2>2, <3>1
    <3>5. QED
      BY <3>2, <3>3, <3>4
  <2>8. QED
    BY <2>1, <2>4, <2>5, <2>6, <2>7
<1>5. /\ g[S] = SumFunctionOnSet(c, S)
      /\ h[S] = Cardinality(Labelled(T, label, S))
  BY DEF Labelled
<1> HIDE DEF g, h
<1>6. QED
  BY <1>3, <1>4, <1>5, SumsAgree
-----------------------------------------------------------------------------
(* A recursion that runs backward from n + 1 to 1 defines a function.      *)
RunsBackward(f, first, n, D, G) ==
    \A t \in first .. n + 1 :
        f[t] = IF t > n THEN 0 ELSE D[t] + G[t] * f[t + 1]

LEMMA BackwardExists ==
    ASSUME NEW n \in Nat, NEW D \in [1 .. n -> Int], NEW G \in [1 .. n -> Int]
    PROVE  \E f \in [1 .. n + 1 -> Int] : RunsBackward(f, 1, n, D, G)
<1> DEFINE Solved(k) == \E f \in [n + 1 - k .. n + 1 -> Int] :
                            RunsBackward(f, n + 1 - k, n, D, G)
           P == {k \in Nat : k <= n => Solved(k)}
<1>1. 0 \in P
  <2> DEFINE f == [t \in n + 1 - 0 .. n + 1 |-> 0]
  <2>1. f \in [n + 1 - 0 .. n + 1 -> Int]
    OBVIOUS
  <2>2. \A t \in n + 1 - 0 .. n + 1 : t > n /\ f[t] = 0
    OBVIOUS
  <2> HIDE DEF f
  <2>3. RunsBackward(f, n + 1 - 0, n, D, G)
    BY <2>2 DEF RunsBackward
  <2>4. Solved(0)
    BY <2>1, <2>3
  <2>5. QED
    BY <2>4
<1>2. ASSUME NEW k \in P PROVE k + 1 \in P
  <2> SUFFICES ASSUME k + 1 <= n PROVE Solved(k + 1)
    OBVIOUS
  <2>1. k \in Nat /\ k <= n
    OBVIOUS
  <2>2. PICK f \in [n + 1 - k .. n + 1 -> Int] : RunsBackward(f, n + 1 - k, n, D, G)
    BY <2>1
  <2> DEFINE b == n + 1 - k
             a == n + 1 - (k + 1)
             x == D[a] + G[a] * f[b]
             g == [t \in a .. n + 1 |-> IF t = a THEN x ELSE f[t]]
  <2>3. /\ a \in 1 .. n /\ b = a + 1 /\ b \in b .. n + 1 /\ b \in 2 .. n + 1
        /\ a \in Nat /\ b \in Nat
    BY <2>1
  <2> HIDE DEF a, b
  <2>4. f \in [b .. n + 1 -> Int] /\ RunsBackward(f, b, n, D, G)
    BY <2>2 DEF b
  <2>5. x \in Int
    <3>1. D[a] \in Int /\ G[a] \in Int /\ f[b] \in Int
      BY <2>3, <2>4
    <3>2. \A d, e, h \in Int : d + e * h \in Int
      OBVIOUS
    <3>3. QED
      BY ONLY <3>1, <3>2
  <2>6. ASSUME NEW t \in a .. n + 1, t # a PROVE t \in b .. n + 1
    BY <2>3, <2>6
  <2>7. g \in [a .. n + 1 -> Int]
    <3> HIDE DEF x
    <3>1. ASSUME NEW t \in a .. n + 1
          PROVE  (IF t = a THEN x ELSE f[t]) \in Int
      <4>1. CASE t = a
        BY <2>5, <4>1
      <4>2. CASE t # a
        <5>1. t \in b .. n + 1
          BY <2>6, <4>2
        <5>2. QED
          BY <2>4, <4>2, <5>1
      <4>3. QED
        BY <4>1, <4>2
    <3>2. QED
      BY ONLY <3>1
  <2>8. g[a] = x /\ \A t \in b .. n + 1 : g[t] = f[t]
    BY <2>3
  <2> HIDE DEF g
  <2>9. ASSUME NEW t \in a .. n + 1
        PROVE  g[t] = IF t > n THEN 0 ELSE D[t] + G[t] * g[t + 1]
    <3>1. CASE t = a
      <4>1. ~(t > n) /\ g[t + 1] = f[b]
        BY <2>3, <2>8, <3>1
      <4>2. QED
        BY <2>8, <3>1, <4>1
    <3>2. CASE t # a
      <4>1. t \in b .. n + 1
        BY <2>6, <3>2
      <4>2. f[t] = IF t > n THEN 0 ELSE D[t] + G[t] * f[t + 1]
        BY <2>4, <4>1 DEF RunsBackward
      <4>3. ~(t > n) => t + 1 \in b .. n + 1
        BY <2>3, <4>1
      <4>4. QED
        BY <2>8, <4>1, <4>2, <4>3
    <3>3. QED
      BY <3>1, <3>2
  <2>10. RunsBackward(g, a, n, D, G)
    BY <2>9 DEF RunsBackward
  <2>11. QED
    BY <2>7, <2>10 DEF a
<1>3. P \in SUBSET Nat
  OBVIOUS
<1> HIDE DEF P
<1>4. \A k \in Nat : k \in P
  BY <1>1, <1>2, <1>3, Induction
<1>5. Solved(n)
  BY <1>4 DEF P
<1>6. n + 1 - n = 1
  OBVIOUS
<1>7. QED
  BY <1>5, <1>6

LEMMA BackwardIsUnique ==
    ASSUME NEW n \in Nat, NEW D, NEW G, NEW f, NEW g,
           RunsBackward(f, 1, n, D, G), RunsBackward(g, 1, n, D, G)
    PROVE  \A t \in 1 .. n + 1 : f[t] = g[t]
<1> DEFINE P == {k \in Nat : k <= n => f[n + 1 - k] = g[n + 1 - k]}
<1>1. \A t \in 1 .. n + 1 :
         /\ f[t] = IF t > n THEN 0 ELSE D[t] + G[t] * f[t + 1]
         /\ g[t] = IF t > n THEN 0 ELSE D[t] + G[t] * g[t + 1]
  BY DEF RunsBackward
<1>2. 0 \in P
  <2>1. n + 1 - 0 \in 1 .. n + 1 /\ n + 1 - 0 > n
    OBVIOUS
  <2>2. QED
    BY <1>1, <2>1
<1>3. ASSUME NEW k \in P PROVE k + 1 \in P
  <2> SUFFICES ASSUME k + 1 <= n PROVE f[n + 1 - (k + 1)] = g[n + 1 - (k + 1)]
    OBVIOUS
  <2> DEFINE a == n + 1 - (k + 1)
  <2>1. a \in 1 .. n + 1 /\ ~(a > n) /\ a + 1 = n + 1 - k /\ k <= n
    OBVIOUS
  <2>2. f[a + 1] = g[a + 1]
    BY <2>1
  <2> HIDE DEF a
  <2>3. f[a] = g[a]
    BY <1>1, <2>1, <2>2
  <2>4. QED
    BY <2>3 DEF a
<1>4. P \in SUBSET Nat
  OBVIOUS
<1>5. ASSUME NEW t \in 1 .. n + 1 PROVE f[t] = g[t]
  <2> DEFINE k == n + 1 - t
  <2>1. k \in Nat /\ k <= n /\ n + 1 - k = t
    OBVIOUS
  <2> HIDE DEF P, k
  <2>2. \A j \in Nat : j \in P
    BY <1>2, <1>3, <1>4, Induction
  <2>3. f[n + 1 - k] = g[n + 1 - k]
    BY <2>1, <2>2 DEF P
  <2>4. QED
    BY <2>1, <2>3
<1>6. QED
  BY <1>5
-----------------------------------------------------------------------------
(* What push() puts into a column, if anything was pending.                *)
Closed(pending, stored, reward) ==
    IF pending = <<>> THEN stored
    ELSE Append(stored, [step |-> pending[1].step, value |-> pending[1].value,
                         done |-> pending[1].done, reward |-> reward])

LEMMA ClosedTyped ==
    ASSUME NEW steps, NEW pending \in Seq(OpenAt(steps)),
           NEW stored \in Seq(StoredAt(steps)), NEW reward \in Int
    PROVE  Closed(pending, stored, reward) \in Seq(StoredAt(steps))
<1>1. CASE pending = <<>>
  BY <1>1 DEF Closed
<1>2. CASE pending # <<>>
  <2> DEFINE x == pending[1]
             r == [step |-> x.step, value |-> x.value, done |-> x.done,
                   reward |-> reward]
  <2>1. x \in OpenAt(steps)
    <3> HIDE DEF OpenAt
    <3>1. QED
      BY <1>2
  <2>2. r \in StoredAt(steps)
    BY <2>1 DEF OpenAt, StoredAt
  <2>3. Closed(pending, stored, reward) = Append(stored, r)
    BY <1>2 DEF Closed
  <2> HIDE DEF r, x, StoredAt
  <2>4. QED
    BY <2>2, <2>3
<1>3. QED
  BY <1>1, <1>2

(* The entries of a column whose pending decision was pushed.              *)
LEMMA ClosedFacts ==
    ASSUME NEW steps, NEW pending \in Seq(OpenAt(steps)),
           NEW stored \in Seq(StoredAt(steps)), NEW reward \in Int,
           Len(pending) <= 1
    PROVE  LET c == Closed(pending, stored, reward)
           IN  /\ c \in Seq(StoredAt(steps)) /\ Len(c) = Len(stored) + Len(pending)
               /\ \A t \in 1 .. Len(c) :
                     /\ c[t].step = At(pending, stored, t).step
                     /\ c[t].done = At(pending, stored, t).done
                     /\ c[t].reward = IF t <= Len(stored) THEN stored[t].reward
                                                          ELSE reward
<1> DEFINE c == Closed(pending, stored, reward)
<1>1. c \in Seq(StoredAt(steps))
  BY ClosedTyped
<1>2. CASE pending = <<>>
  <2>1. c = stored /\ Len(pending) = 0
    BY <1>2 DEF Closed
  <2>2. Len(stored) \in Nat
    OBVIOUS
  <2> HIDE DEF c
  <2>3. Len(c) = Len(stored) + Len(pending)
    BY <2>1, <2>2
  <2>4. ASSUME NEW t \in 1 .. Len(c)
        PROVE  /\ c[t].step = At(pending, stored, t).step
               /\ c[t].done = At(pending, stored, t).done
               /\ c[t].reward = IF t <= Len(stored) THEN stored[t].reward ELSE reward
    BY <2>1, <2>2 DEF At
  <2>5. QED
    BY <1>1, <2>3, <2>4 DEF c
<1>3. CASE pending # <<>>
  <2> DEFINE x == pending[1]
             r == [step |-> x.step, value |-> x.value, done |-> x.done,
                   reward |-> reward]
  <2>1. c = Append(stored, r)
    BY <1>3 DEF Closed
  <2>2. r.step = x.step /\ r.done = x.done /\ r.reward = reward
    OBVIOUS
  <2>3. Len(pending) = 1 /\ Len(stored) \in Nat
    <3>1. Len(pending) \in Nat /\ Len(pending) # 0
      <4> HIDE DEF OpenAt
      <4>1. QED
        BY <1>3
    <3>2. \A k \in Nat : k <= 1 /\ k # 0 => k = 1
      OBVIOUS
    <3>3. Len(stored) \in Nat
      OBVIOUS
    <3>4. QED
      BY <3>1, <3>2, <3>3, Zenon
  <2>4. x \in OpenAt(steps)
    <3> HIDE DEF OpenAt
    <3>1. QED
      BY <1>3
  <2>5. r \in StoredAt(steps)
    BY <2>4 DEF OpenAt, StoredAt
  <2> HIDE DEF r, StoredAt, c
  <2>6. /\ Len(c) = Len(stored) + 1 /\ c[Len(stored) + 1] = r
        /\ \A t \in 1 .. Len(stored) : c[t] = stored[t]
    BY <2>1, <2>5
  <2>7. ASSUME NEW t \in 1 .. Len(c)
        PROVE  /\ c[t].step = At(pending, stored, t).step
               /\ c[t].done = At(pending, stored, t).done
               /\ c[t].reward = IF t <= Len(stored) THEN stored[t].reward ELSE reward
    <3>1. CASE t <= Len(stored)
      BY <2>3, <2>6, <3>1 DEF At
    <3>2. CASE ~(t <= Len(stored))
      <4>1. t = Len(stored) + 1
        BY <2>3, <2>6, <3>2
      <4>2. QED
        BY <2>2, <2>6, <3>2, <4>1 DEF At
    <3>3. QED
      BY <3>1, <3>2
  <2>8. QED
    BY <1>1, <2>3, <2>6, <2>7 DEF c
<1>4. QED
  BY <1>2, <1>3

(* The seat takes one more decision: what was pending is stored, with *)
(* no reward, since it only was for as long as its hand went on.           *)
LEMMA TellsOneMore ==
    ASSUME NEW steps, NEW pending \in Seq(OpenAt(steps)),
           NEW stored \in Seq(StoredAt(steps)), NEW d \in {0, 1},
           NEW mine \in Seq(DecisionAt(steps)), NEW results \in Seq(Int), NEW p,
           Tells(pending, stored, d, mine, results, p),
           pending # <<>> <=> InHand(mine, results),
           NEW o \in OpenAt(steps), NEW x \in DecisionAt(steps), o.step = x.step, o.done = d,
           x.hand = Len(results)
    PROVE  /\ Tells(<<o>>, Closed(pending, stored, 0), 0, Append(mine, x), results, p)
           /\ InHand(Append(mine, x), results)
<1> DEFINE c == Closed(pending, stored, 0)
           m == Append(mine, x)
           n == Len(mine)
           h == Len(results)
<1> HIDE DEF OpenAt, StoredAt, DecisionAt
<1>1. /\ c \in Seq(StoredAt(steps)) /\ Len(c) = Len(stored) + Len(pending)
      /\ \A t \in 1 .. Len(c) :
            /\ c[t].step = At(pending, stored, t).step
            /\ c[t].done = At(pending, stored, t).done
            /\ c[t].reward = IF t <= Len(stored) THEN stored[t].reward ELSE 0
  BY ClosedFacts DEF Tells
<1>2. n \in Nat /\ Len(stored) \in Nat /\ Len(pending) \in Nat /\ h \in Nat
  OBVIOUS
<1>3. Len(c) = n
  BY <1>1 DEF Tells
<1>4. /\ m \in Seq(DecisionAt(steps)) /\ Len(m) = n + 1 /\ m[n + 1] = x
      /\ \A t \in 1 .. n : m[t] = mine[t]
  OBVIOUS
<1>5. Len(<<o>>) = 1 /\ <<o>>[1] = o
  OBVIOUS
<1>6. \A t \in 1 .. n : mine[t].hand \in Nat
  <2>1. ASSUME NEW t \in 1 .. n PROVE mine[t] \in DecisionAt(steps)
    OBVIOUS
  <2>2. QED
    BY <2>1 DEF DecisionAt
<1> HIDE DEF c, m, n, h
<1>7. At(<<o>>, c, n + 1) = o /\ \A t \in 1 .. n : At(<<o>>, c, t) = c[t]
  BY <1>2, <1>3, <1>5 DEF At
<1>8. \A t \in 1 .. n :
         /\ mine[t].hand <= h /\ c[t].step = mine[t].step
         /\ IF t = n THEN d = IF mine[t].hand = h THEN 0 ELSE 1
            ELSE /\ mine[t].hand <= mine[t + 1].hand
                 /\ At(pending, stored, t + 1).done =
                        IF mine[t].hand = mine[t + 1].hand THEN 0 ELSE 1
  BY <1>1, <1>3 DEF Tells, n, h
<1>9. ASSUME NEW t \in 1 .. Len(m)
      PROVE  /\ m[t].hand <= h
             /\ At(<<o>>, c, t).step = m[t].step
             /\ IF t = Len(m)
                THEN 0 = IF m[t].hand = h THEN 0 ELSE 1
                ELSE /\ m[t].hand <= m[t + 1].hand
                     /\ At(<<o>>, c, t + 1).done =
                            IF m[t].hand = m[t + 1].hand THEN 0 ELSE 1
  <2>1. CASE t = n + 1
    BY <1>2, <1>4, <1>7, <2>1 DEF h
  <2>2. CASE t = n
    <3>1. t \in 1 .. n /\ t # Len(m) /\ m[t] = mine[t] /\ m[t + 1] = x
      BY <1>2, <1>4, <2>2
    <3>2. At(<<o>>, c, t).step = m[t].step
      BY <1>7, <1>8, <3>1
    <3>3. At(<<o>>, c, t + 1).done = IF m[t].hand = m[t + 1].hand THEN 0 ELSE 1
      BY <1>7, <1>8, <2>2, <3>1 DEF h
    <3>4. QED
      BY <1>8, <3>1, <3>2, <3>3 DEF h
  <2>3. CASE t < n
    <3>1. t \in 1 .. n /\ t + 1 \in 1 .. n /\ t # Len(m) /\ t # n
      BY <1>2, <1>4, <2>3
    <3>2. m[t] = mine[t] /\ m[t + 1] = mine[t + 1]
      BY <1>4, <3>1
    <3>3. At(<<o>>, c, t) = c[t] /\ At(<<o>>, c, t + 1) = c[t + 1]
      BY <1>7, <3>1
    <3>4. c[t + 1].done = At(pending, stored, t + 1).done
      BY <1>1, <1>3, <3>1
    <3>5. QED
      BY <1>8, <3>1, <3>2, <3>3, <3>4
  <2>4. QED
    BY <1>2, <1>4, <2>1, <2>2, <2>3
<1>10. ASSUME NEW t \in 1 .. n PROVE c[t].reward = Due(m, results, p, t)
  <2>1. m[t] = mine[t]
    BY <1>4
  <2>2. CASE t < n
    <3>1. t + 1 \in 1 .. n
      BY <1>2, <2>2
    <3>2. m[t + 1] = mine[t + 1] /\ t < Len(m)
      BY <1>2, <1>4, <2>2, <3>1
    <3>3. Due(m, results, p, t) = Due(mine, results, p, t)
      BY <2>1, <2>2, <3>2 DEF Due, n
    <3>4. t <= Len(stored)
      <4>1. Len(stored) + Len(pending) = n /\ Len(pending) <= 1
        BY DEF Tells, n
      <4>2. QED
        BY <1>2, <2>2, <4>1
    <3>5. t \in 1 .. Len(stored)
      BY <1>2, <3>4
    <3>6. c[t].reward = stored[t].reward
      BY <1>1, <1>3, <3>4
    <3>7. QED
      BY <3>3, <3>5, <3>6 DEF Tells
  <2>3. CASE t = n
    <3>1. m[t + 1] = x /\ t < Len(m)
      BY <1>2, <1>4, <2>3
    <3>2. CASE pending # <<>>
      <4>1. Len(pending) # 0
        BY <3>2
      <4>2. n = Len(stored) + Len(pending)
        BY DEF Tells, n
      <4>3. ~(t <= Len(stored))
        BY <1>2, <2>3, <4>1, <4>2
      <4>4. c[t].reward = 0
        BY <1>1, <1>3, <4>3
      <4>5. mine[n].hand = h
        BY <3>2 DEF InHand, n, h
      <4>6. m[t + 1].hand = m[t].hand
        BY <2>1, <2>3, <3>1, <4>5 DEF h
      <4>7. QED
        BY <3>1, <4>4, <4>6 DEF Due
    <3>3. CASE pending = <<>>
      <4>1. Len(pending) = 0 /\ n = Len(stored) + Len(pending)
        BY <3>3 DEF Tells, n
      <4>2. n = Len(stored)
        BY <1>2, <4>1
      <4>3. c[t].reward = stored[t].reward /\ t \in 1 .. Len(stored)
        BY <1>1, <1>2, <1>3, <2>3, <4>2
      <4>4. stored[t].reward = Due(mine, results, p, t)
        BY <4>3 DEF Tells
      <4>5. mine # <<>>
        BY <1>2, <2>3 DEF n
      <4>6. mine[n].hand # h
        BY <3>3, <4>5 DEF InHand, n, h
      <4>7. Due(mine, results, p, t) = Paid(results, p, mine[t].hand + 1)
        BY <1>2, <2>3 DEF Due, n
      <4>8. m[t + 1].hand # m[t].hand
        BY <2>1, <2>3, <3>1, <4>6 DEF h
      <4>9. Due(m, results, p, t) = Paid(results, p, mine[t].hand + 1)
        BY <2>1, <4>8 DEF Due
      <4>10. QED
        BY <4>3, <4>4, <4>7, <4>9
    <3>4. QED
      BY <3>2, <3>3
  <2>4. QED
    BY <1>2, <2>2, <2>3
<1>11. Tells(<<o>>, c, 0, m, results, p)
  <2>1. Len(<<o>>) <= 1 /\ Len(m) = Len(c) + Len(<<o>>)
    BY <1>2, <1>3, <1>4, <1>5
  <2>2. \A t \in 1 .. Len(c) : c[t].reward = Due(m, results, p, t)
    BY <1>3, <1>10
  <2>3. QED
    BY <1>9, <2>1, <2>2 DEF Tells, h
<1>12. InHand(m, results)
  <2>1. m # <<>>
    BY <1>2, <1>4
  <2>2. QED
    BY <1>4, <2>1 DEF InHand
<1>13. QED
  BY <1>11, <1>12 DEF c, m

(* A hand is over: what was pending is stored with what the hand paid.     *)
LEMMA TellsTheResult ==
    ASSUME NEW steps, NEW pending \in Seq(OpenAt(steps)),
           NEW stored \in Seq(StoredAt(steps)), NEW d \in {0, 1},
           NEW mine \in Seq(DecisionAt(steps)), NEW results \in Seq(Int), NEW p,
           Tells(pending, stored, d, mine, results, p),
           pending # <<>> <=> InHand(mine, results),
           NEW r \in Int
    PROVE  /\ Tells(<<>>, Closed(pending, stored, IF p = 0 THEN r ELSE -r), 1, mine,
                    Append(results, r), p)
           /\ ~InHand(mine, Append(results, r))
<1> DEFINE reward == IF p = 0 THEN r ELSE -r
           c == Closed(pending, stored, reward)
           w == Append(results, r)
           n == Len(mine)
           h == Len(results)
<1>a. reward \in Int
  OBVIOUS
<1> HIDE DEF OpenAt, StoredAt, DecisionAt, reward
<1>1. /\ c \in Seq(StoredAt(steps)) /\ Len(c) = Len(stored) + Len(pending)
      /\ \A t \in 1 .. Len(c) :
            /\ c[t].step = At(pending, stored, t).step
            /\ c[t].done = At(pending, stored, t).done
            /\ c[t].reward = IF t <= Len(stored) THEN stored[t].reward ELSE reward
  BY <1>a, ClosedFacts DEF Tells
<1>2. n \in Nat /\ Len(stored) \in Nat /\ Len(pending) \in Nat /\ h \in Nat
  OBVIOUS
<1>3. Len(c) = n
  BY <1>1 DEF Tells
<1>4. /\ Len(w) = h + 1 /\ w[h + 1] = r /\ DOMAIN w = 1 .. h + 1
      /\ \A t \in 1 .. h : w[t] = results[t]
  OBVIOUS
<1>5. Len(<<>>) = 0 /\ DOMAIN results = 1 .. h
  OBVIOUS
<1>6. \A t \in 1 .. n : mine[t].hand \in Nat
  <2>1. ASSUME NEW t \in 1 .. n PROVE mine[t] \in DecisionAt(steps)
    OBVIOUS
  <2>2. QED
    BY <2>1 DEF DecisionAt
<1> HIDE DEF c, w, n, h
<1>7. \A t \in 1 .. n : At(<<>>, c, t) = c[t]
  BY <1>2, <1>3 DEF At
<1>8. \A t \in 1 .. n :
         /\ mine[t].hand <= h /\ c[t].step = mine[t].step
         /\ t # n =>
               /\ mine[t].hand <= mine[t + 1].hand
               /\ At(pending, stored, t + 1).done =
                      IF mine[t].hand = mine[t + 1].hand THEN 0 ELSE 1
  BY <1>1, <1>3 DEF Tells, n, h
<1>9. ASSUME NEW t \in 1 .. n
      PROVE  /\ mine[t].hand <= h + 1 /\ mine[t].hand # h + 1
             /\ At(<<>>, c, t).step = mine[t].step
             /\ t # n =>
                   /\ mine[t].hand <= mine[t + 1].hand
                   /\ At(<<>>, c, t + 1).done =
                          IF mine[t].hand = mine[t + 1].hand THEN 0 ELSE 1
  <2>1. mine[t].hand <= h + 1 /\ mine[t].hand # h + 1
    BY <1>2, <1>6, <1>8
  <2>2. CASE t # n
    <3>1. t + 1 \in 1 .. n
      BY <1>2, <2>2
    <3>2. At(<<>>, c, t + 1).done = At(pending, stored, t + 1).done
      BY <1>1, <1>3, <1>7, <3>1
    <3>3. QED
      BY <1>7, <1>8, <2>1, <2>2, <3>2
  <2>3. CASE t = n
    BY <1>7, <1>8, <2>1, <2>3
  <2>4. QED
    BY <2>2, <2>3
<1>10. ASSUME NEW t \in 1 .. n PROVE c[t].reward = Due(mine, w, p, t)
  <2>1. CASE t <= Len(stored)
    <3>1. t \in 1 .. Len(stored)
      BY <1>2, <2>1
    <3>2. c[t].reward = Due(mine, results, p, t)
      BY <1>1, <1>3, <2>1, <3>1 DEF Tells
    <3>3. CASE t < n /\ mine[t + 1].hand = mine[t].hand
      BY <3>2, <3>3 DEF Due, n
    <3>4. CASE ~(t < n /\ mine[t + 1].hand = mine[t].hand)
      <4>1. mine[t].hand < h
        <5>1. CASE t = n
          <6>1. n = Len(stored) + Len(pending)
            BY DEF Tells, n
          <6>2. Len(pending) = 0
            BY <1>2, <2>1, <5>1, <6>1
          <6>3. pending = <<>> /\ mine # <<>>
            BY <1>2, <5>1, <6>2 DEF n
          <6>4. mine[n].hand # h
            BY <6>3 DEF InHand, n, h
          <6>5. QED
            BY <1>2, <1>6, <1>8, <5>1, <6>4
        <5>2. CASE t # n
          <6>1. t + 1 \in 1 .. n /\ t < n
            BY <1>2, <5>2
          <6>2. mine[t + 1].hand <= h /\ mine[t].hand <= mine[t + 1].hand
            BY <1>8, <5>2, <6>1
          <6>3. mine[t + 1].hand # mine[t].hand
            BY <3>4, <6>1
          <6>4. mine[t].hand \in Nat /\ mine[t + 1].hand \in Nat
            BY <1>6, <6>1
          <6>5. \A a, b, e \in Nat : b <= e /\ a <= b /\ b # a => a < e
            OBVIOUS
          <6>6. QED
            BY <1>2, <6>2, <6>3, <6>4, <6>5
        <5>3. QED
          BY <5>1, <5>2
      <4>2. mine[t].hand + 1 \in 1 .. h
        BY <1>2, <1>6, <4>1
      <4>3. Paid(w, p, mine[t].hand + 1) = Paid(results, p, mine[t].hand + 1)
        <5>1. mine[t].hand + 1 \in DOMAIN w /\ mine[t].hand + 1 \in DOMAIN results
          BY <1>2, <1>4, <1>5, <4>2
        <5>2. QED
          BY <1>4, <4>2, <5>1 DEF Paid
      <4>4. Due(mine, w, p, t) = Due(mine, results, p, t)
        BY <3>4, <4>3 DEF Due, n
      <4>5. QED
        BY <3>2, <4>4
    <3>5. QED
      BY <3>3, <3>4
  <2>2. CASE ~(t <= Len(stored))
    <3>1. n = Len(stored) + Len(pending) /\ Len(pending) <= 1
      BY DEF Tells, n
    <3>2. t = n /\ Len(pending) # 0
      BY <1>2, <2>2, <3>1
    <3>3. pending # <<>>
      BY <3>2
    <3>4. mine[n].hand = h
      BY <3>3 DEF InHand, n, h
    <3>5. c[t].reward = reward
      BY <1>1, <1>3, <2>2
    <3>6. ~(t < Len(mine))
      BY <1>2, <3>2 DEF n
    <3>7. Due(mine, w, p, t) = Paid(w, p, h + 1)
      BY <3>2, <3>4, <3>6 DEF Due
    <3>8. h + 1 \in DOMAIN w
      BY <1>2, <1>4
    <3>9. QED
      BY <1>4, <3>5, <3>7, <3>8 DEF Paid, reward
  <2>3. QED
    BY <2>1, <2>2
<1>11. Tells(<<>>, c, 1, mine, w, p)
  <2>1. Len(<<>>) <= 1 /\ Len(mine) = Len(c) + Len(<<>>)
    BY <1>2, <1>3, <1>5 DEF n
  <2>2. \A t \in 1 .. Len(c) : c[t].reward = Due(mine, w, p, t)
    BY <1>3, <1>10
  <2>3. \A t \in 1 .. Len(mine) :
           /\ mine[t].hand <= Len(w) /\ mine[t].hand # Len(w)
           /\ At(<<>>, c, t).step = mine[t].step
           /\ t # Len(mine) =>
                 /\ mine[t].hand <= mine[t + 1].hand
                 /\ At(<<>>, c, t + 1).done =
                        IF mine[t].hand = mine[t + 1].hand THEN 0 ELSE 1
    BY <1>4, <1>9 DEF n
  <2>4. QED
    BY <2>1, <2>2, <2>3 DEF Tells
<1>12. ~InHand(mine, w)
  <2>1. CASE mine = <<>>
    BY <2>1 DEF InHand
  <2>2. CASE mine # <<>>
    <3>1. n \in 1 .. n
      <4>1. n # 0
        BY <2>2 DEF n
      <4>2. QED
        BY <1>2, <4>1
    <3>2. QED
      BY <1>4, <1>9, <3>1 DEF InHand, n
  <2>3. QED
    BY <2>1, <2>2
<1>13. QED
  BY <1>11, <1>12 DEF c, w, reward

(* A rollout is over: what was pending is stored with what it has earned   *)
(* so far, which is nothing.                                               *)
LEMMA TellsTheCut ==
    ASSUME NEW steps, NEW pending \in Seq(OpenAt(steps)),
           NEW stored \in Seq(StoredAt(steps)), NEW d \in {0, 1},
           NEW mine \in Seq(DecisionAt(steps)), NEW results \in Seq(Int), NEW p,
           Tells(pending, stored, d, mine, results, p),
           pending # <<>> <=> InHand(mine, results)
    PROVE  Tells(<<>>, Closed(pending, stored, 0), d, mine, results, p)
<1> DEFINE c == Closed(pending, stored, 0)
           n == Len(mine)
<1> HIDE DEF OpenAt, StoredAt, DecisionAt
<1>1. /\ c \in Seq(StoredAt(steps)) /\ Len(c) = Len(stored) + Len(pending)
      /\ \A t \in 1 .. Len(c) :
            /\ c[t].step = At(pending, stored, t).step
            /\ c[t].done = At(pending, stored, t).done
            /\ c[t].reward = IF t <= Len(stored) THEN stored[t].reward ELSE 0
  BY ClosedFacts DEF Tells
<1>2. n \in Nat /\ Len(stored) \in Nat /\ Len(pending) \in Nat /\ Len(results) \in Nat
  OBVIOUS
<1>3. Len(c) = n
  BY <1>1 DEF Tells
<1>5. Len(<<>>) = 0 /\ DOMAIN results = 1 .. Len(results)
  OBVIOUS
<1> HIDE DEF c, n
<1>7. \A t \in 1 .. n : At(<<>>, c, t) = c[t]
  BY <1>2, <1>3 DEF At
<1>8. \A t \in 1 .. n : c[t].reward = Due(mine, results, p, t)
  <2> SUFFICES ASSUME NEW t \in 1 .. n PROVE c[t].reward = Due(mine, results, p, t)
    OBVIOUS
  <2>1. CASE t <= Len(stored)
    <3>1. t \in 1 .. Len(stored)
      BY <1>2, <2>1
    <3>2. QED
      BY <1>1, <1>3, <2>1, <3>1 DEF Tells
  <2>2. CASE ~(t <= Len(stored))
    <3>1. n = Len(stored) + Len(pending) /\ Len(pending) <= 1
      BY DEF Tells, n
    <3>2. t = n /\ Len(pending) # 0
      BY <1>2, <2>2, <3>1
    <3>3. pending # <<>>
      BY <3>2
    <3>4. mine[t].hand = Len(results)
      BY <3>2, <3>3 DEF InHand, n
    <3>5. ~(t < Len(mine)) /\ mine[t].hand + 1 \notin DOMAIN results
      BY <1>2, <1>5, <3>2, <3>4 DEF n
    <3>6. Due(mine, results, p, t) = 0
      BY <3>5 DEF Due, Paid
    <3>7. QED
      BY <1>1, <1>3, <2>2, <3>6
  <2>3. QED
    BY <2>1, <2>2
<1>9. \A t \in 1 .. n :
         /\ mine[t].hand <= Len(results)
         /\ At(<<>>, c, t).step = mine[t].step
         /\ IF t = n
            THEN d = IF mine[t].hand = Len(results) THEN 0 ELSE 1
            ELSE /\ mine[t].hand <= mine[t + 1].hand
                 /\ At(<<>>, c, t + 1).done =
                        IF mine[t].hand = mine[t + 1].hand THEN 0 ELSE 1
  <2> SUFFICES ASSUME NEW t \in 1 .. n
               PROVE  /\ mine[t].hand <= Len(results)
                      /\ At(<<>>, c, t).step = mine[t].step
                      /\ IF t = n
                         THEN d = IF mine[t].hand = Len(results) THEN 0 ELSE 1
                         ELSE /\ mine[t].hand <= mine[t + 1].hand
                              /\ At(<<>>, c, t + 1).done =
                                     IF mine[t].hand = mine[t + 1].hand THEN 0 ELSE 1
    OBVIOUS
  <2>1. /\ mine[t].hand <= Len(results)
        /\ At(pending, stored, t).step = mine[t].step
        /\ IF t = n
           THEN d = IF mine[t].hand = Len(results) THEN 0 ELSE 1
           ELSE /\ mine[t].hand <= mine[t + 1].hand
                /\ At(pending, stored, t + 1).done =
                       IF mine[t].hand = mine[t + 1].hand THEN 0 ELSE 1
    BY DEF Tells, n
  <2>2. At(<<>>, c, t).step = At(pending, stored, t).step
    BY <1>1, <1>3, <1>7
  <2>3. CASE t = n
    BY <2>1, <2>2, <2>3
  <2>4. CASE t # n
    <3>1. t + 1 \in 1 .. n
      BY <1>2, <2>4
    <3>2. At(<<>>, c, t + 1).done = At(pending, stored, t + 1).done
      BY <1>1, <1>3, <1>7, <3>1
    <3>3. QED
      BY <2>1, <2>2, <2>4, <3>2
  <2>5. QED
    BY <2>3, <2>4
<1>10. Len(<<>>) <= 1 /\ Len(mine) = Len(c) + Len(<<>>)
  BY <1>2, <1>3, <1>5 DEF n
<1>11. \A t \in 1 .. Len(c) : c[t].reward = Due(mine, results, p, t)
  BY <1>3, <1>8
<1>12. Tells(<<>>, c, d, mine, results, p)
  BY <1>9, <1>10, <1>11 DEF Tells, n
<1>13. QED
  BY <1>12 DEF c
-----------------------------------------------------------------------------
(* push(), field by field.                                                 *)
Pushed(r, t, p, tail) ==
    /\ t.pending = [r.pending EXCEPT ![p] = <<>>]
    /\ t.stored = [r.stored EXCEPT ![p] =
           Closed(r.pending[p], r.stored[p], r.accumulated[p])]
    /\ t.accumulated = r.accumulated /\ t.nextDone = r.nextDone
    /\ r.pending[p] = <<>> => t.tailWasTerminal = r.tailWasTerminal
    /\ r.pending[p] # <<>> =>
          t.tailWasTerminal = [r.tailWasTerminal EXCEPT ![p] = tail]

LEMMA PushShape ==
    ASSUME NEW steps, NEW r \in ColumnsAt(steps), NEW p \in {0, 1}, NEW tail \in BOOLEAN
    PROVE  /\ Columns!Push(r, p, tail) \in ColumnsAt(steps)
           /\ Pushed(r, Columns!Push(r, p, tail), p, tail)
<1> DEFINE t == Columns!Push(r, p, tail)
           c == Closed(r.pending[p], r.stored[p], r.accumulated[p])
<1>1. /\ r.pending \in [{0, 1} -> Seq(OpenAt(steps))] /\ r.accumulated \in [{0, 1} -> Int]
      /\ r.nextDone \in [{0, 1} -> {0, 1}]
      /\ r.tailWasTerminal \in [{0, 1} -> BOOLEAN]
      /\ r.stored \in [{0, 1} -> Seq(StoredAt(steps))]
  BY DEF ColumnsAt
<1>2. c \in Seq(StoredAt(steps))
  BY <1>1, ClosedTyped
<1>3. <<>> \in Seq(OpenAt(steps))
  OBVIOUS
<1>4. CASE r.pending[p] = <<>>
  <2>1. t = r /\ c = r.stored[p]
    BY <1>4 DEF Columns!Push, Closed
  <2>2. r.pending = [r.pending EXCEPT ![p] = <<>>] /\ r.stored = [r.stored EXCEPT ![p] = c]
    BY <1>1, <1>4, <2>1
  <2>3. QED
    BY <1>4, <2>1, <2>2 DEF Pushed
<1>5. CASE r.pending[p] # <<>>
  <2>1. t = [r EXCEPT !.stored[p] = c, !.pending[p] = <<>>, !.tailWasTerminal[p] = tail]
    BY <1>5 DEF Columns!Push, Closed
  <2> HIDE DEF c, t
  <2>2. /\ t.stored = [r.stored EXCEPT ![p] = c]
        /\ t.pending = [r.pending EXCEPT ![p] = <<>>]
        /\ t.tailWasTerminal = [r.tailWasTerminal EXCEPT ![p] = tail]
        /\ t.accumulated = r.accumulated /\ t.nextDone = r.nextDone
        /\ t = [pending |-> t.pending, accumulated |-> t.accumulated,
                nextDone |-> t.nextDone, tailWasTerminal |-> t.tailWasTerminal,
                stored |-> t.stored]
    BY <2>1 DEF ColumnsAt
  <2>3. /\ t.pending \in [{0, 1} -> Seq(OpenAt(steps))] /\ t.accumulated \in [{0, 1} -> Int]
        /\ t.nextDone \in [{0, 1} -> {0, 1}] /\ t.stored \in [{0, 1} -> Seq(StoredAt(steps))]
    BY <1>1, <1>2, <1>3, <2>2
  <2>4. t.tailWasTerminal \in [{0, 1} -> BOOLEAN]
    BY <1>1, <2>2
  <2>5. t \in ColumnsAt(steps)
    BY <2>2, <2>3, <2>4 DEF ColumnsAt
  <2>6. QED
    BY <1>5, <2>2, <2>5 DEF c, t, Pushed
<1>6. QED
  BY <1>4, <1>5

(* Both seats' pushes.                                                     *)
BothPushed(r, t, tail) ==
    /\ t.accumulated = r.accumulated /\ t.nextDone = r.nextDone
    /\ \A p \in {0, 1} :
          /\ t.pending[p] = <<>>
          /\ t.stored[p] = Closed(r.pending[p], r.stored[p], r.accumulated[p])
          /\ t.tailWasTerminal[p] =
                IF r.pending[p] = <<>> THEN r.tailWasTerminal[p] ELSE tail

LEMMA TwoPushes ==
    ASSUME NEW steps, NEW r \in ColumnsAt(steps), NEW tail \in BOOLEAN
    PROVE  LET t == Columns!Push(Columns!Push(r, 0, tail), 1, tail)
           IN  t \in ColumnsAt(steps) /\ BothPushed(r, t, tail)
<1> DEFINE s == Columns!Push(r, 0, tail)
           t == Columns!Push(s, 1, tail)
<1>1. 0 \in {0, 1} /\ 1 \in {0, 1} /\ \A p \in {0, 1} : p = 0 \/ p = 1
  OBVIOUS
<1>b. s \in ColumnsAt(steps) /\ Pushed(r, s, 0, tail)
  BY <1>1, PushShape
<1> HIDE DEF s
<1>2. /\ s \in ColumnsAt(steps) /\ s.pending = [r.pending EXCEPT ![0] = <<>>]
      /\ s.stored = [r.stored EXCEPT ![0] =
                        Closed(r.pending[0], r.stored[0], r.accumulated[0])]
      /\ s.accumulated = r.accumulated /\ s.nextDone = r.nextDone
      /\ r.pending[0] = <<>> => s.tailWasTerminal = r.tailWasTerminal
      /\ r.pending[0] # <<>> =>
            s.tailWasTerminal = [r.tailWasTerminal EXCEPT ![0] = tail]
  BY <1>b DEF Pushed
<1>a. s \in ColumnsAt(steps) /\ 1 \in {0, 1} /\ tail \in BOOLEAN
  BY <1>1, <1>2
<1>c. t \in ColumnsAt(steps) /\ Pushed(s, t, 1, tail)
  BY <1>a, PushShape
<1> HIDE DEF t
<1>3. /\ t \in ColumnsAt(steps) /\ t.pending = [s.pending EXCEPT ![1] = <<>>]
      /\ t.stored = [s.stored EXCEPT ![1] =
                        Closed(s.pending[1], s.stored[1], s.accumulated[1])]
      /\ t.accumulated = s.accumulated /\ t.nextDone = s.nextDone
      /\ s.pending[1] = <<>> => t.tailWasTerminal = s.tailWasTerminal
      /\ s.pending[1] # <<>> =>
            t.tailWasTerminal = [s.tailWasTerminal EXCEPT ![1] = tail]
  BY <1>c DEF Pushed
<1>4. /\ DOMAIN r.pending = {0, 1} /\ DOMAIN r.stored = {0, 1}
      /\ DOMAIN r.tailWasTerminal = {0, 1}
  BY DEF ColumnsAt
<1>5. s.pending[1] = r.pending[1] /\ s.stored[1] = r.stored[1]
  BY <1>1, <1>2, <1>4
<1>6. /\ t.pending[0] = <<>> /\ t.pending[1] = <<>>
      /\ t.stored[0] = Closed(r.pending[0], r.stored[0], r.accumulated[0])
      /\ t.stored[1] = Closed(r.pending[1], r.stored[1], r.accumulated[1])
  BY <1>1, <1>2, <1>3, <1>4, <1>5
<1>7. ASSUME NEW p \in {0, 1}
      PROVE  /\ t.pending[p] = <<>>
             /\ t.stored[p] = Closed(r.pending[p], r.stored[p], r.accumulated[p])
  BY <1>1, <1>6
<1>8. DOMAIN s.tailWasTerminal = {0, 1}
  BY <1>2 DEF ColumnsAt
<1>9. /\ s.tailWasTerminal[0] =
            IF r.pending[0] = <<>> THEN r.tailWasTerminal[0] ELSE tail
      /\ s.tailWasTerminal[1] = r.tailWasTerminal[1]
  BY <1>1, <1>2, <1>4
<1>10. /\ t.tailWasTerminal[0] = s.tailWasTerminal[0]
       /\ t.tailWasTerminal[1] =
             IF s.pending[1] = <<>> THEN s.tailWasTerminal[1] ELSE tail
  BY <1>1, <1>3, <1>8
<1>11. ASSUME NEW p \in {0, 1}
       PROVE  t.tailWasTerminal[p] =
                  IF r.pending[p] = <<>> THEN r.tailWasTerminal[p] ELSE tail
  BY <1>1, <1>5, <1>9, <1>10
<1>12. QED
  BY <1>2, <1>3, <1>7, <1>11 DEF s, t, BothPushed

(* A column with other accumulators and flags.                             *)
Relabel(r, accumulated, nextDone) ==
    [r EXCEPT !.accumulated = accumulated, !.nextDone = nextDone]

LEMMA Relabelled ==
    ASSUME NEW steps, NEW r \in ColumnsAt(steps), NEW t,
           NEW accumulated \in [{0, 1} -> Int], NEW nextDone \in [{0, 1} -> {0, 1}],
           t = Relabel(r, accumulated, nextDone)
    PROVE  /\ t \in ColumnsAt(steps) /\ t.pending = r.pending /\ t.stored = r.stored
           /\ t.accumulated = accumulated /\ t.nextDone = nextDone
           /\ t.tailWasTerminal = r.tailWasTerminal
<1>1. /\ r.pending \in [{0, 1} -> Seq(OpenAt(steps))]
      /\ r.tailWasTerminal \in [{0, 1} -> BOOLEAN]
      /\ r.stored \in [{0, 1} -> Seq(StoredAt(steps))]
  BY DEF ColumnsAt
<1>2. t = [pending |-> r.pending, accumulated |-> accumulated,
           nextDone |-> nextDone, tailWasTerminal |-> r.tailWasTerminal,
           stored |-> r.stored]
  BY DEF ColumnsAt, Relabel
<1>3. t \in ColumnsAt(steps)
  BY <1>1, <1>2 DEF ColumnsAt
<1>4. QED
  BY <1>2, <1>3

(* step_reward.                                                            *)
LEMMA StepRewardShape ==
    ASSUME NEW steps, NEW r \in ColumnsAt(steps), NEW x \in Int,
           \A p \in {0, 1} : r.accumulated[p] = 0
    PROVE  LET t == Columns!StepReward(r, x)
           IN  /\ t \in ColumnsAt(steps) /\ t.pending = r.pending /\ t.stored = r.stored
               /\ t.nextDone = r.nextDone /\ t.tailWasTerminal = r.tailWasTerminal
               /\ \A p \in {0, 1} : t.accumulated[p] = IF p = 0 THEN x ELSE -x
<1> DEFINE t == Columns!StepReward(r, x)
           a == [r.accumulated EXCEPT ![0] = @ + x, ![1] = @ - x]
<1>1. r.accumulated \in [{0, 1} -> Int] /\ r.nextDone \in [{0, 1} -> {0, 1}]
  BY DEF ColumnsAt
<1>2. a \in [{0, 1} -> Int] /\ \A p \in {0, 1} : a[p] = IF p = 0 THEN x ELSE -x
  <2>1. r.accumulated[0] = 0 /\ r.accumulated[1] = 0 /\ 0 + x = x /\ 0 - x = -x
    BY DEF Columns!Seats
  <2>2. a = [r.accumulated EXCEPT ![0] = x, ![1] = -x]
    BY <2>1
  <2>3. -x \in Int
    OBVIOUS
  <2>4. QED
    BY <1>1, <2>2, <2>3 DEF Columns!Seats
<1>3. t = Relabel(r, a, r.nextDone)
  BY DEF Columns!StepReward, ColumnsAt, Relabel
<1>4. a \in [{0, 1} -> Int]
  BY <1>2
<1> HIDE DEF a, t
<1>5. /\ t \in ColumnsAt(steps) /\ t.pending = r.pending /\ t.stored = r.stored
      /\ t.accumulated = a /\ t.nextDone = r.nextDone
      /\ t.tailWasTerminal = r.tailWasTerminal
  BY <1>1, <1>3, <1>4, Relabelled
<1>6. QED
  BY <1>2, <1>5 DEF t

(* flush_on_terminal.                                                      *)
LEMMA TerminalShape ==
    ASSUME NEW steps, NEW r \in ColumnsAt(steps)
    PROVE  LET t == Columns!FlushOnTerminal(r)
           IN  /\ t \in ColumnsAt(steps)
               /\ \A p \in {0, 1} :
                     /\ t.pending[p] = <<>>
                     /\ t.stored[p] = Closed(r.pending[p], r.stored[p], r.accumulated[p])
                     /\ t.accumulated[p] = 0 /\ t.nextDone[p] = 1
                     /\ t.tailWasTerminal[p] =
                           IF r.pending[p] = <<>> THEN r.tailWasTerminal[p] ELSE TRUE
<1> DEFINE t == Columns!FlushOnTerminal(r)
           u == Columns!Push(Columns!Push(r, 0, TRUE), 1, TRUE)
           a == [p \in {0, 1} |-> 0]
           d == [p \in {0, 1} |-> 1]
<1>0. TRUE \in BOOLEAN
  OBVIOUS
<1>b. u \in ColumnsAt(steps) /\ BothPushed(r, u, TRUE)
  BY <1>0, TwoPushes
<1>1. /\ u \in ColumnsAt(steps)
      /\ \A p \in {0, 1} :
            /\ u.pending[p] = <<>>
            /\ u.stored[p] = Closed(r.pending[p], r.stored[p], r.accumulated[p])
            /\ u.tailWasTerminal[p] =
                  IF r.pending[p] = <<>> THEN r.tailWasTerminal[p] ELSE TRUE
  <2> HIDE DEF u
  <2>1. QED
    BY <1>b DEF BothPushed
<1>2. a \in [{0, 1} -> Int] /\ d \in [{0, 1} -> {0, 1}]
  OBVIOUS
<1>3. t = Relabel(u, a, d)
  BY DEF Columns!FlushOnTerminal, Columns!Seats, Relabel
<1>4. \A p \in {0, 1} : a[p] = 0 /\ d[p] = 1
  OBVIOUS
<1>a. u \in ColumnsAt(steps)
  BY <1>1
<1> HIDE DEF a, d, u, t
<1>5. /\ t \in ColumnsAt(steps) /\ t.pending = u.pending /\ t.stored = u.stored
      /\ t.accumulated = a /\ t.nextDone = d
      /\ t.tailWasTerminal = u.tailWasTerminal
  BY <1>2, <1>3, <1>a, Relabelled
<1>6. QED
  BY <1>1, <1>4, <1>5 DEF t

(* flush_on_rollout_end.                                                   *)
LEMMA RolloutEndShape ==
    ASSUME NEW steps, NEW r \in ColumnsAt(steps), \A p \in {0, 1} : r.accumulated[p] = 0
    PROVE  LET t == Columns!FlushOnRolloutEnd(r)
           IN  /\ t \in ColumnsAt(steps) /\ t.nextDone = r.nextDone
               /\ \A p \in {0, 1} :
                     /\ t.pending[p] = <<>> /\ t.accumulated[p] = 0
                     /\ t.stored[p] = Closed(r.pending[p], r.stored[p], 0)
                     /\ t.tailWasTerminal[p] =
                           IF r.pending[p] = <<>> THEN r.tailWasTerminal[p] ELSE FALSE
<1> DEFINE t == Columns!FlushOnRolloutEnd(r)
           u == Columns!Push(Columns!Push(r, 0, FALSE), 1, FALSE)
           a == [p \in {0, 1} |-> IF r.pending[p] = <<>> THEN u.accumulated[p] ELSE 0]
<1>0. FALSE \in BOOLEAN
  OBVIOUS
<1>b. u \in ColumnsAt(steps) /\ BothPushed(r, u, FALSE)
  BY <1>0, TwoPushes
<1>1. /\ u \in ColumnsAt(steps) /\ u.accumulated = r.accumulated /\ u.nextDone = r.nextDone
      /\ \A p \in {0, 1} :
            /\ u.pending[p] = <<>>
            /\ u.stored[p] = Closed(r.pending[p], r.stored[p], r.accumulated[p])
            /\ u.tailWasTerminal[p] =
                  IF r.pending[p] = <<>> THEN r.tailWasTerminal[p] ELSE FALSE
  <2> HIDE DEF u
  <2>1. QED
    BY <1>b DEF BothPushed
<1>2. t = [u EXCEPT !.accumulated = a]
  BY DEF Columns!FlushOnRolloutEnd, Columns!Seats
<1> HIDE DEF u, t
<1>3. a \in [{0, 1} -> Int] /\ \A p \in {0, 1} : a[p] = 0
  BY <1>1
<1>4. u.nextDone \in [{0, 1} -> {0, 1}]
  BY <1>1 DEF ColumnsAt
<1> HIDE DEF a
<1>5. t = Relabel(u, a, u.nextDone)
  BY <1>1, <1>2 DEF ColumnsAt, Relabel
<1>a. u \in ColumnsAt(steps) /\ a \in [{0, 1} -> Int]
  BY <1>1, <1>3
<1>6. /\ t \in ColumnsAt(steps) /\ t.pending = u.pending /\ t.stored = u.stored
      /\ t.accumulated = a /\ t.nextDone = u.nextDone
      /\ t.tailWasTerminal = u.tailWasTerminal
  BY <1>4, <1>5, <1>a, Relabelled
<1>7. QED
  BY <1>1, <1>3, <1>6 DEF t

(* record_step.                                                            *)
Entered(r, t, p, n, value) ==
    /\ t.accumulated = r.accumulated
    /\ t.pending = [r.pending EXCEPT ![p] =
                        <<[step |-> n, value |-> value, done |-> r.nextDone[p]]>>]
    /\ t.stored = [r.stored EXCEPT ![p] = Closed(r.pending[p], r.stored[p], 0)]
    /\ t.nextDone = [r.nextDone EXCEPT ![p] = 0]
    /\ \A q \in {0, 1} \ {p} : t.tailWasTerminal[q] = r.tailWasTerminal[q]

LEMMA RecordShape ==
    ASSUME NEW steps, NEW r \in ColumnsAt(steps), NEW p \in {0, 1},
           r.accumulated[p] = 0,
           NEW n \in steps, NEW value \in Int
    PROVE  /\ Columns!RecordStep(r, p, n, value) \in ColumnsAt(steps)
           /\ Entered(r, Columns!RecordStep(r, p, n, value), p, n, value)
<1> DEFINE t == Columns!RecordStep(r, p, n, value)
           c == Columns!Push(r, p, FALSE)
           o == [step |-> n, value |-> value, done |-> r.nextDone[p]]
           k == IF r.pending[p] = <<>> THEN c.accumulated[p] ELSE 0
<1>0. FALSE \in BOOLEAN
  OBVIOUS
<1>b. c \in ColumnsAt(steps) /\ Pushed(r, c, p, FALSE)
  BY <1>0, PushShape
<1>1. /\ c \in ColumnsAt(steps)
      /\ c.pending = [r.pending EXCEPT ![p] = <<>>]
      /\ c.stored = [r.stored EXCEPT ![p] =
                        Closed(r.pending[p], r.stored[p], r.accumulated[p])]
      /\ c.accumulated = r.accumulated /\ c.nextDone = r.nextDone
      /\ r.pending[p] = <<>> => c.tailWasTerminal = r.tailWasTerminal
      /\ r.pending[p] # <<>> =>
            c.tailWasTerminal = [r.tailWasTerminal EXCEPT ![p] = FALSE]
  <2> HIDE DEF c
  <2>1. QED
    BY <1>b DEF Pushed
<1>2. t = [c EXCEPT !.pending[p] = <<o>>, !.accumulated[p] = k, !.nextDone[p] = 0]
  BY DEF Columns!RecordStep
<1>3. o \in OpenAt(steps)
  <2>1. r.nextDone[p] \in {0, 1}
    BY DEF ColumnsAt
  <2>2. QED
    BY <2>1 DEF OpenAt
<1>4. <<o>> \in Seq(OpenAt(steps))
  <2> HIDE DEF o, OpenAt
  <2>1. QED
    BY <1>3
<1> HIDE DEF c, o, t
<1>5. k = 0
  BY <1>1
<1> HIDE DEF k
<1>6. /\ c.pending \in [{0, 1} -> Seq(OpenAt(steps))] /\ c.accumulated \in [{0, 1} -> Int]
      /\ c.nextDone \in [{0, 1} -> {0, 1}]
      /\ c.tailWasTerminal \in [{0, 1} -> BOOLEAN]
      /\ c.stored \in [{0, 1} -> Seq(StoredAt(steps))]
  BY <1>1 DEF ColumnsAt
<1>7. /\ t.pending = [c.pending EXCEPT ![p] = <<o>>]
      /\ t.accumulated = [c.accumulated EXCEPT ![p] = k]
      /\ t.nextDone = [c.nextDone EXCEPT ![p] = 0]
      /\ t.tailWasTerminal = c.tailWasTerminal /\ t.stored = c.stored
      /\ t = [pending |-> t.pending, accumulated |-> t.accumulated,
              nextDone |-> t.nextDone, tailWasTerminal |-> t.tailWasTerminal,
              stored |-> t.stored]
  BY <1>1, <1>2 DEF ColumnsAt
<1>8. c.accumulated = [c.accumulated EXCEPT ![p] = k]
  BY <1>1, <1>5, <1>6
<1>9. t.pending \in [{0, 1} -> Seq(OpenAt(steps))]
  BY <1>4, <1>6, <1>7
<1>10. t.nextDone \in [{0, 1} -> {0, 1}]
  BY <1>6, <1>7
<1>11. t \in ColumnsAt(steps)
  BY <1>6, <1>7, <1>8, <1>9, <1>10 DEF ColumnsAt
<1>12. t.pending = [r.pending EXCEPT ![p] = <<o>>]
  BY <1>1, <1>7
<1>13. r.tailWasTerminal \in [{0, 1} -> BOOLEAN]
  BY DEF ColumnsAt
<1>14. \A q \in {0, 1} \ {p} : t.tailWasTerminal[q] = r.tailWasTerminal[q]
  BY <1>1, <1>7, <1>13
<1>15. QED
  BY <1>1, <1>7, <1>8, <1>11, <1>12, <1>14 DEF t, o, Entered
-----------------------------------------------------------------------------
(* The fields of a column, and what a running one is.                      *)
LEMMA Fields ==
    ASSUME NEW steps, NEW r \in ColumnsAt(steps), NEW p \in {0, 1}
    PROVE  /\ r.pending[p] \in Seq(OpenAt(steps)) /\ r.stored[p] \in Seq(StoredAt(steps))
           /\ r.nextDone[p] \in {0, 1} /\ r.accumulated[p] \in Int
           /\ r.pending \in [{0, 1} -> Seq(OpenAt(steps))]
           /\ r.stored \in [{0, 1} -> Seq(StoredAt(steps))]
           /\ r.nextDone \in [{0, 1} -> {0, 1}]
  BY DEF ColumnsAt

(* The columns of a new rollout.                                           *)
LEMMA FreshRuns ==
    ASSUME NEW steps
    PROVE  Running(steps, Columns!Fresh(0), [p \in {0, 1} |-> <<>>], <<>>)
<1> DEFINE none == [p \in {0, 1} |-> <<>>]
           zero == [p \in {0, 1} |-> 0]
           no == [p \in {0, 1} |-> FALSE]
           r == Columns!Fresh(0)
<1>1. r = [pending |-> none, accumulated |-> zero, nextDone |-> zero,
           tailWasTerminal |-> no, stored |-> none]
  BY DEF Columns!Fresh, Columns!Seats
<1>2. /\ <<>> \in Seq(OpenAt(steps)) /\ <<>> \in Seq(StoredAt(steps))
      /\ <<>> \in Seq(DecisionAt(steps)) /\ <<>> \in Seq(Int) /\ Len(<<>>) = 0
  OBVIOUS
<1>3. /\ none \in [{0, 1} -> Seq(OpenAt(steps))]
      /\ none \in [{0, 1} -> Seq(StoredAt(steps))]
      /\ none \in [{0, 1} -> Seq(DecisionAt(steps))]
      /\ zero \in [{0, 1} -> Int] /\ zero \in [{0, 1} -> {0, 1}]
      /\ \A p \in {0, 1} : none[p] = <<>> /\ zero[p] = 0
  BY <1>2
<1>4. no \in [{0, 1} -> BOOLEAN]
  OBVIOUS
<1> HIDE DEF none, zero, no, r
<1>5. r \in ColumnsAt(steps)
  BY <1>1, <1>3, <1>4 DEF ColumnsAt
<1>6. DecisionHistories(steps, none, <<>>)
  BY <1>2, <1>3 DEF DecisionHistories
<1>7. ASSUME NEW p \in {0, 1}
      PROVE  /\ Keeps(r.pending[p], r.stored[p], r.nextDone[p], none[p], <<>>, p)
             /\ r.accumulated[p] = 0 /\ none[p] = <<>>
  <2>1. /\ r.pending[p] = <<>> /\ r.stored[p] = <<>> /\ r.accumulated[p] = 0
        /\ none[p] = <<>>
    BY <1>1, <1>3
  <2>2. ASSUME NEW d PROVE Keeps(<<>>, <<>>, d, <<>>, <<>>, p)
    BY <1>2 DEF Keeps, Tells, InHand
  <2>3. QED
    BY <2>1, <2>2
<1>8. QED
  BY <1>5, <1>6, <1>7 DEF Running, r, none

(* record_step.                                                            *)
LEMMA RecordRuns ==
    ASSUME NEW steps, NEW r, NEW mine, NEW results, Running(steps, r, mine, results),
           NEW p \in {0, 1}, NEW n \in steps, NEW value \in Int
    PROVE  Running(steps, Columns!RecordStep(r, p, n, value),
                   [mine EXCEPT ![p] = Append(@, [step |-> n, hand |-> Len(results)])],
                   results)
<1> DEFINE x == [step |-> n, hand |-> Len(results)]
           o == [step |-> n, value |-> value, done |-> r.nextDone[p]]
           t == Columns!RecordStep(r, p, n, value)
           c == Closed(r.pending[p], r.stored[p], 0)
           m == [mine EXCEPT ![p] = Append(@, x)]
<1>1. /\ r \in ColumnsAt(steps) /\ mine \in [{0, 1} -> Seq(DecisionAt(steps))]
      /\ results \in Seq(Int)
  BY DEF Running, DecisionHistories
<1>2. ASSUME NEW q \in {0, 1}
      PROVE  /\ Tells(r.pending[q], r.stored[q], r.nextDone[q], mine[q], results, q)
             /\ r.pending[q] # <<>> <=> InHand(mine[q], results)
             /\ Keeps(r.pending[q], r.stored[q], r.nextDone[q], mine[q], results, q)
             /\ r.accumulated[q] = 0
             /\ mine[q] # <<>> /\ r.pending[q] = <<>> => r.tailWasTerminal[q]
  BY DEF Running, Keeps
<1>3. /\ r.pending[p] \in Seq(OpenAt(steps)) /\ r.stored[p] \in Seq(StoredAt(steps))
      /\ r.nextDone[p] \in {0, 1}
      /\ r.pending \in [{0, 1} -> Seq(OpenAt(steps))]
      /\ r.stored \in [{0, 1} -> Seq(StoredAt(steps))]
      /\ r.nextDone \in [{0, 1} -> {0, 1}]
  BY <1>1, Fields
<1>4. /\ t \in ColumnsAt(steps) /\ t.accumulated = r.accumulated
      /\ t.pending = [r.pending EXCEPT ![p] = <<o>>]
      /\ t.stored = [r.stored EXCEPT ![p] = c]
      /\ t.nextDone = [r.nextDone EXCEPT ![p] = 0]
      /\ \A q \in {0, 1} \ {p} : t.tailWasTerminal[q] = r.tailWasTerminal[q]
  <2>1. r \in ColumnsAt(steps) /\ r.accumulated[p] = 0
    BY <1>1, <1>2
  <2>2. t \in ColumnsAt(steps) /\ Entered(r, t, p, n, value)
    BY <2>1, RecordShape
  <2> HIDE DEF t
  <2>3. QED
    BY <2>2 DEF Entered
<1>5. Len(results) \in Nat
  BY <1>1
<1>6. x \in DecisionAt(steps) /\ o \in OpenAt(steps)
  BY <1>3, <1>5 DEF DecisionAt, OpenAt
<1>7. o.step = x.step /\ o.done = r.nextDone[p] /\ x.hand = Len(results)
  OBVIOUS
<1> HIDE DEF x, o, t
<1>8. Append(mine[p], x) \in Seq(DecisionAt(steps))
  BY <1>1, <1>6
<1>9. /\ m \in [{0, 1} -> Seq(DecisionAt(steps))] /\ m[p] = Append(mine[p], x)
      /\ \A q \in {0, 1} \ {p} : m[q] = mine[q]
  BY <1>1, <1>8
<1> HIDE DEF m
<1>10. mine[p] \in Seq(DecisionAt(steps))
  BY <1>1
<1>11. Tells(<<o>>, c, 0, m[p], results, p) /\ InHand(m[p], results) /\ <<o>> # <<>>
  <2> DEFINE pen == r.pending[p]
             sto == r.stored[p]
             d == r.nextDone[p]
             own == mine[p]
  <2>1. /\ pen \in Seq(OpenAt(steps)) /\ sto \in Seq(StoredAt(steps)) /\ d \in {0, 1}
        /\ own \in Seq(DecisionAt(steps))
    BY <1>3, <1>10
  <2>2. Tells(pen, sto, d, own, results, p) /\ (pen # <<>> <=> InHand(own, results))
    BY <1>2
  <2>3. o.done = d
    BY <1>7
  <2> HIDE DEF pen, sto, d, own, c
  <2>4. /\ Tells(<<o>>, Closed(pen, sto, 0), 0, Append(own, x), results, p)
        /\ InHand(Append(own, x), results)
    BY <1>1, <1>6, <1>7, <2>1, <2>2, <2>3, TellsOneMore
  <2>5. <<o>> # <<>>
    OBVIOUS
  <2>6. QED
    BY <1>9, <2>4, <2>5 DEF pen, sto, own, c
<1> HIDE DEF c
<1>12. ASSUME NEW q \in {0, 1}
       PROVE  /\ Keeps(t.pending[q], t.stored[q], t.nextDone[q], m[q], results, q)
              /\ t.accumulated[q] = 0
              /\ m[q] # <<>> /\ t.pending[q] = <<>> => t.tailWasTerminal[q]
  <2>1. CASE q = p
    <3>1. t.pending[p] = <<o>> /\ t.stored[p] = c /\ t.nextDone[p] = 0
      BY <1>3, <1>4
    <3>2. Keeps(t.pending[p], t.stored[p], t.nextDone[p], m[p], results, p)
      BY <1>11, <3>1 DEF Keeps
    <3>3. t.accumulated[p] = 0 /\ t.pending[p] # <<>>
      BY <1>2, <1>4, <1>11, <3>1
    <3>4. QED
      BY <2>1, <3>2, <3>3
  <2>2. CASE q # p
    <3>1. q \in {0, 1} \ {p}
      BY <2>2
    <3>2. /\ t.pending[q] = r.pending[q] /\ t.stored[q] = r.stored[q]
          /\ t.nextDone[q] = r.nextDone[q] /\ m[q] = mine[q]
          /\ t.accumulated[q] = r.accumulated[q]
          /\ t.tailWasTerminal[q] = r.tailWasTerminal[q]
      BY <1>3, <1>4, <1>9, <3>1
    <3>3. QED
      BY <1>2, <3>2
  <2>3. QED
    BY <2>1, <2>2
<1>13. DecisionHistories(steps, m, results)
  BY <1>1, <1>9 DEF DecisionHistories
<1>14. Running(steps, t, m, results)
  BY <1>4, <1>12, <1>13 DEF Running
<1>15. QED
  BY <1>14 DEF t, m, x

(* step_reward with nothing to pay.                                        *)
LEMMA NoRewardRuns ==
    ASSUME NEW steps, NEW r, NEW mine, NEW results, Running(steps, r, mine, results)
    PROVE  Running(steps, Columns!StepReward(r, 0), mine, results)
<1> DEFINE z == 0
           u == Columns!StepReward(r, z)
<1>1. z \in Int /\ -z = 0
  <2>1. \A k \in Int : -k = 0 - k
    OBVIOUS
  <2>2. z \in Int /\ 0 - z = 0
    OBVIOUS
  <2> HIDE DEF z
  <2>3. QED
    BY <2>1, <2>2, Zenon
<1>2. z = 0
  OBVIOUS
<1> HIDE DEF z
<1>3. r \in ColumnsAt(steps) /\ \A p \in {0, 1} : r.accumulated[p] = 0
  BY DEF Running
<1>4. /\ u \in ColumnsAt(steps) /\ u.pending = r.pending /\ u.stored = r.stored
      /\ u.nextDone = r.nextDone /\ u.tailWasTerminal = r.tailWasTerminal
      /\ \A p \in {0, 1} : u.accumulated[p] = IF p = 0 THEN z ELSE -z
  BY <1>1, <1>3, StepRewardShape
<1>5. u = Columns!StepReward(r, 0)
  BY <1>2
<1> HIDE DEF u
<1>6. \A p \in {0, 1} : u.accumulated[p] = 0
  BY <1>1, <1>2, <1>4
<1>7. Running(steps, u, mine, results)
  BY <1>4, <1>6 DEF Running
<1>8. QED
  BY <1>5, <1>7

(* step_reward and flush_on_terminal: the hand's result.                   *)
LEMMA ResultRuns ==
    ASSUME NEW steps, NEW r, NEW mine, NEW results, Running(steps, r, mine, results),
           NEW x \in Int
    PROVE  Running(steps, Columns!FlushOnTerminal(Columns!StepReward(r, x)), mine,
                   Append(results, x))
<1> DEFINE s == Columns!StepReward(r, x)
           t == Columns!FlushOnTerminal(s)
           w == Append(results, x)
<1>1. /\ r \in ColumnsAt(steps) /\ mine \in [{0, 1} -> Seq(DecisionAt(steps))]
      /\ results \in Seq(Int)
  BY DEF Running, DecisionHistories
<1>2. ASSUME NEW q \in {0, 1}
      PROVE  /\ Tells(r.pending[q], r.stored[q], r.nextDone[q], mine[q], results, q)
             /\ r.pending[q] # <<>> <=> InHand(mine[q], results)
             /\ r.accumulated[q] = 0
             /\ mine[q] # <<>> /\ r.pending[q] = <<>> => r.tailWasTerminal[q]
  BY DEF Running, Keeps
<1>3. /\ s \in ColumnsAt(steps) /\ s.pending = r.pending /\ s.stored = r.stored
      /\ s.nextDone = r.nextDone /\ s.tailWasTerminal = r.tailWasTerminal
      /\ \A p \in {0, 1} : s.accumulated[p] = IF p = 0 THEN x ELSE -x
  BY <1>1, <1>2, StepRewardShape
<1>a. s \in ColumnsAt(steps)
  BY <1>3
<1> HIDE DEF s
<1>4. /\ t \in ColumnsAt(steps)
      /\ \A p \in {0, 1} :
            /\ t.pending[p] = <<>>
            /\ t.stored[p] = Closed(s.pending[p], s.stored[p], s.accumulated[p])
            /\ t.accumulated[p] = 0 /\ t.nextDone[p] = 1
            /\ t.tailWasTerminal[p] =
                  IF s.pending[p] = <<>> THEN s.tailWasTerminal[p] ELSE TRUE
  BY <1>a, TerminalShape
<1> HIDE DEF t
<1>5. DecisionHistories(steps, mine, w)
  BY <1>1 DEF DecisionHistories
<1>6. ASSUME NEW p \in {0, 1}
      PROVE  Keeps(t.pending[p], t.stored[p], t.nextDone[p], mine[p], w, p)
  <2> DEFINE pen == r.pending[p]
             sto == r.stored[p]
             d == r.nextDone[p]
             own == mine[p]
             y == IF p = 0 THEN x ELSE -x
  <2>1. /\ pen \in Seq(OpenAt(steps)) /\ sto \in Seq(StoredAt(steps)) /\ d \in {0, 1}
        /\ own \in Seq(DecisionAt(steps))
    BY <1>1, Fields
  <2>2. Tells(pen, sto, d, own, results, p) /\ (pen # <<>> <=> InHand(own, results))
    BY <1>2
  <2>3. /\ t.pending[p] = <<>> /\ t.nextDone[p] = 1
        /\ t.stored[p] = Closed(pen, sto, y)
    BY <1>3, <1>4
  <2> HIDE DEF pen, sto, d, own, w
  <2>4. /\ Tells(<<>>, Closed(pen, sto, IF p = 0 THEN x ELSE -x), 1, own,
                 Append(results, x), p)
        /\ ~InHand(own, Append(results, x))
    BY <1>1, <2>1, <2>2, TellsTheResult
  <2>5. QED
    BY <2>3, <2>4 DEF Keeps, w, own
<1>7. ASSUME NEW p \in {0, 1}
      PROVE  mine[p] # <<>> /\ t.pending[p] = <<>> => t.tailWasTerminal[p]
  BY <1>2, <1>3, <1>4
<1>8. Running(steps, t, mine, w)
  BY <1>4, <1>5, <1>6, <1>7 DEF Running
<1>9. QED
  BY <1>8 DEF t, s, w

(* flush_on_rollout_end: the tail is terminal unless its hand goes on.     *)
LEMMA EndCuts ==
    ASSUME NEW steps, NEW r, NEW mine, NEW results, Running(steps, r, mine, results)
    PROVE  Cut(steps, Columns!FlushOnRolloutEnd(r), mine, results)
<1> DEFINE t == Columns!FlushOnRolloutEnd(r)
<1>1. /\ r \in ColumnsAt(steps) /\ mine \in [{0, 1} -> Seq(DecisionAt(steps))]
      /\ results \in Seq(Int)
  BY DEF Running, DecisionHistories
<1>2. ASSUME NEW q \in {0, 1}
      PROVE  /\ Tells(r.pending[q], r.stored[q], r.nextDone[q], mine[q], results, q)
             /\ r.pending[q] # <<>> <=> InHand(mine[q], results)
             /\ r.accumulated[q] = 0
             /\ mine[q] # <<>> /\ r.pending[q] = <<>> => r.tailWasTerminal[q]
  BY DEF Running, Keeps
<1>3. /\ t \in ColumnsAt(steps) /\ t.nextDone = r.nextDone
      /\ \A p \in {0, 1} :
            /\ t.pending[p] = <<>> /\ t.accumulated[p] = 0
            /\ t.stored[p] = Closed(r.pending[p], r.stored[p], 0)
            /\ t.tailWasTerminal[p] =
                  IF r.pending[p] = <<>> THEN r.tailWasTerminal[p] ELSE FALSE
  BY <1>1, <1>2, RolloutEndShape
<1> HIDE DEF t
<1>4. ASSUME NEW p \in {0, 1}
      PROVE  /\ t.pending[p] = <<>>
             /\ Tells(<<>>, t.stored[p], t.nextDone[p], mine[p], results, p)
             /\ mine[p] # <<>> => (t.tailWasTerminal[p] <=> ~InHand(mine[p], results))
  <2> DEFINE pen == r.pending[p]
             sto == r.stored[p]
             d == r.nextDone[p]
             own == mine[p]
  <2>1. /\ pen \in Seq(OpenAt(steps)) /\ sto \in Seq(StoredAt(steps)) /\ d \in {0, 1}
        /\ own \in Seq(DecisionAt(steps))
    BY <1>1, Fields
  <2>2. Tells(pen, sto, d, own, results, p) /\ (pen # <<>> <=> InHand(own, results))
    BY <1>2
  <2> HIDE DEF pen, sto, d, own
  <2>3. Tells(<<>>, Closed(pen, sto, 0), d, own, results, p)
    BY <1>1, <2>1, <2>2, TellsTheCut
  <2>4. Tells(<<>>, t.stored[p], t.nextDone[p], mine[p], results, p)
    BY <1>3, <2>3 DEF pen, sto, d, own
  <2>5. mine[p] # <<>> => (t.tailWasTerminal[p] <=> ~InHand(mine[p], results))
    BY <1>2, <1>3
  <2>6. QED
    BY <1>3, <2>4, <2>5
<1>5. DecisionHistories(steps, mine, results)
  BY <1>1 DEF DecisionHistories
<1>6. QED
  BY <1>3, <1>4, <1>5 DEF Cut, t
-----------------------------------------------------------------------------
(* A factor of all terms is one of the sum.                                *)
LEMMA SumScaled ==
    ASSUME NEW S, IsFiniteSet(S), NEW d, \A y \in S : d[y] \in Int, NEW x \in Int,
           NEW e, \A y \in S : e[y] = x * d[y]
    PROVE  SumFunctionOnSet(e, S) = x * SumFunctionOnSet(d, S)
<1>1. \A y \in S : e[y] \in Int
  OBVIOUS
<1>7. ASSUME NEW T \in SUBSET S, NEW y \in T
      PROVE  SumFunctionOnSet(e, T) = e[y] + SumFunctionOnSet(e, T \ {y})
  <2>1. IsFiniteSet(T) /\ \A z \in T : e[z] \in Int
    BY <1>1, FS_Subset
  <2>2. QED
    BY <2>1, SumSplits
<1> DEFINE g == [T \in SUBSET S |-> SumFunctionOnSet(e, T)]
           h == [T \in SUBSET S |-> x * SumFunctionOnSet(d, T)]
<1>2. /\ g[{}] = SumFunctionOnSet(e, {}) /\ h[{}] = x * SumFunctionOnSet(d, {})
      /\ g[S] = SumFunctionOnSet(e, S) /\ h[S] = x * SumFunctionOnSet(d, S)
  OBVIOUS
<1>3. g[{}] = h[{}]
  <2>1. SumFunctionOnSet(e, {}) = 0 /\ SumFunctionOnSet(d, {}) = 0 /\ x * 0 = 0
    BY SumOfNothing
  <2> HIDE DEF g, h
  <2>2. QED
    BY <1>2, <2>1
<1>4. ASSUME NEW T \in SUBSET S, NEW y \in T, g[T \ {y}] = h[T \ {y}]
      PROVE  g[T] = h[T]
  <2> DEFINE U == T \ {y}
             a == SumFunctionOnSet(d, U)
  <2>1. /\ d[y] \in Int /\ e[y] = x * d[y] /\ U \in SUBSET S /\ a \in Int
        /\ SumFunctionOnSet(d, T) = d[y] + a
    BY SumsOfSubsets
  <2>2. SumFunctionOnSet(e, T) = e[y] + SumFunctionOnSet(e, U)
    BY <1>7
  <2>3. SumFunctionOnSet(e, U) = x * a
    <3> HIDE DEF U, a
    <3>1. g[U] = SumFunctionOnSet(e, U) /\ h[U] = x * SumFunctionOnSet(d, U)
      BY <2>1
    <3> HIDE DEF g, h
    <3>2. QED
      BY <1>4, <3>1 DEF U, a
  <2>4. g[T] = SumFunctionOnSet(e, T) /\ h[T] = x * SumFunctionOnSet(d, T)
    OBVIOUS
  <2> HIDE DEF U, a, g, h
  <2>5. \A b, c \in Int : x * b + x * c = x * (b + c)
    OBVIOUS
  <2>6. x * d[y] + x * a = x * (d[y] + a)
    BY <2>1, <2>5
  <2>7. QED
    BY <2>1, <2>2, <2>3, <2>4, <2>6
<1> HIDE DEF g, h
<1>5. g[S] = h[S]
  BY <1>3, <1>4, SumsAgree
<1>6. QED
  BY <1>2, <1>5

(* The powers of x.                                                        *)
Powers(w, n, x) == \A k \in 0 .. n : w[k] = IF k = 0 THEN 1 ELSE x * w[k - 1]

LEMMA PowersExist ==
    ASSUME NEW n \in Nat, NEW x \in Int
    PROVE  \E w \in [0 .. n -> Int] : Powers(w, n, x)
<1> DEFINE m == n + 1
           D == [t \in 1 .. m |-> IF t = m THEN 1 ELSE 0]
           G == [t \in 1 .. m |-> x]
<1>1. m \in Nat /\ D \in [1 .. m -> Int] /\ G \in [1 .. m -> Int]
  OBVIOUS
<1>2. PICK f \in [1 .. m + 1 -> Int] : RunsBackward(f, 1, m, D, G)
  BY <1>1, BackwardExists
<1> DEFINE w == [k \in 0 .. n |-> f[m - k]]
<1>3. w \in [0 .. n -> Int]
  <2>1. ASSUME NEW k \in 0 .. n PROVE m - k \in 1 .. m + 1
    OBVIOUS
  <2>2. QED
    BY <2>1
<1>4. ASSUME NEW k \in 0 .. n PROVE w[k] = IF k = 0 THEN 1 ELSE x * w[k - 1]
  <2> DEFINE t == m - k
  <2>1. t \in 1 .. m /\ t \in 1 .. m + 1 /\ ~(t > m) /\ t + 1 \in 1 .. m + 1
    OBVIOUS
  <2>2. w[k] = f[t] /\ f[t] = D[t] + G[t] * f[t + 1] /\ f[t + 1] \in Int
    BY <1>2, <2>1 DEF RunsBackward
  <2>3. CASE k = 0
    <3>1. D[t] = 1 /\ G[t] = x /\ t + 1 > m
      BY <2>1, <2>3
    <3>2. f[t + 1] = 0
      BY <1>2, <2>1, <3>1 DEF RunsBackward
    <3>3. 1 + x * 0 = 1
      OBVIOUS
    <3> HIDE DEF D, G, w, t
    <3>4. QED
      BY <2>2, <2>3, <3>1, <3>2, <3>3
  <2>4. CASE k # 0
    <3>1. D[t] = 0 /\ G[t] = x /\ t + 1 = m - (k - 1) /\ k - 1 \in 0 .. n
      BY <2>1, <2>4
    <3>2. w[k - 1] = f[t + 1]
      BY <3>1
    <3>3. 0 + x * f[t + 1] = x * f[t + 1]
      BY <2>2
    <3> HIDE DEF D, G, w, t
    <3>4. QED
      BY <2>2, <2>4, <3>1, <3>2, <3>3
  <2>5. QED
    BY <2>3, <2>4
<1> HIDE DEF w
<1>5. QED
  BY <1>3, <1>4 DEF Powers
-----------------------------------------------------------------------------
(* Where the recursion only runs on while a label stays the same, each of  *)
(* its values is the sum over the rest of its own label.                   *)
SameLabel(h, t, n) == {k \in t .. n : h[k] = h[t]}

LEMMA LabelGrows ==
    ASSUME NEW n \in Nat, NEW h, \A t \in 1 .. n : h[t] \in Nat,
           \A t \in 1 .. n : t < n => h[t] <= h[t + 1]
    PROVE  \A t \in 1 .. n : \A k \in t .. n : h[t] <= h[k]
<1> DEFINE P == {j \in Nat : \A t \in 1 .. n : t + j <= n => h[t] <= h[t + j]}
<1>1. 0 \in P
  <2>1. ASSUME NEW t \in 1 .. n PROVE t + 0 = t /\ h[t] <= h[t]
    OBVIOUS
  <2>2. QED
    BY <2>1
<1>2. ASSUME NEW j \in P PROVE j + 1 \in P
  <2>1. ASSUME NEW t \in 1 .. n, t + (j + 1) <= n PROVE h[t] <= h[t + (j + 1)]
    <3> DEFINE s == t + j
    <3>1. s \in 1 .. n /\ s < n /\ s + 1 \in 1 .. n /\ s + 1 = t + (j + 1) /\ s <= n
      BY <2>1
    <3>2. h[t] <= h[s]
      BY <3>1
    <3> HIDE DEF s
    <3>3. h[s] <= h[s + 1] /\ h[s] \in Nat /\ h[t] \in Nat /\ h[s + 1] \in Nat
      BY <3>1
    <3>4. QED
      BY <3>1, <3>2, <3>3
  <2>2. QED
    BY <2>1
<1>3. P \in SUBSET Nat
  OBVIOUS
<1>4. ASSUME NEW t \in 1 .. n, NEW k \in t .. n PROVE h[t] <= h[k]
  <2>1. k - t \in Nat /\ t + (k - t) = k /\ k <= n
    OBVIOUS
  <2> HIDE DEF P
  <2>2. \A j \in Nat : j \in P
    BY <1>1, <1>2, <1>3, Induction
  <2>3. k - t \in P
    BY <2>1, <2>2
  <2>4. QED
    BY <2>1, <2>3 DEF P
<1>5. QED
  BY <1>4

SumsByLabel(f, D, w, h, n) ==
    \A t \in 1 .. n :
        f[t] = SumFunctionOnSet([k \in SameLabel(h, t, n) |-> w[k - t] * D[k]],
                                SameLabel(h, t, n))

LEMMA BackwardSums ==
    ASSUME NEW n \in Nat, NEW D \in [1 .. n -> Int], NEW x \in Int,
           NEW h, \A t \in 1 .. n : h[t] \in Nat,
           \A t \in 1 .. n : t < n => h[t] <= h[t + 1],
           NEW G, \A t \in 1 .. n : G[t] \in Int,
           \A t \in 1 .. n : t < n => G[t] = IF h[t] = h[t + 1] THEN x ELSE 0,
           NEW N \in Nat, n <= N, NEW w \in [0 .. N -> Int], Powers(w, N, x),
           NEW f, RunsBackward(f, 1, n, D, G)
    PROVE  SumsByLabel(f, D, w, h, n)
<1> DEFINE R(t) == SameLabel(h, t, n)
           e(t) == [k \in R(t) |-> w[k - t] * D[k]]
           Told(t) == f[t] = SumFunctionOnSet(e(t), R(t))
           P == {j \in Nat : j < n => Told(n - j)}
<1>1. \A t \in 1 .. n : \A k \in t .. n : h[t] <= h[k]
  BY LabelGrows
<1>2. w[0] = 1 /\ \A k \in 1 .. N : w[k] = x * w[k - 1]
  <2>1. 0 \in 0 .. N /\ \A k \in 1 .. N : k \in 0 .. N /\ k # 0
    OBVIOUS
  <2>2. QED
    BY <2>1 DEF Powers
<1>3. ASSUME NEW t \in 1 .. n
      PROVE  /\ IsFiniteSet(R(t)) /\ t \in R(t)
             /\ \A k \in R(t) : /\ k \in t .. n /\ k \in 1 .. n /\ k - t \in 0 .. N
                                /\ w[k - t] \in Int /\ D[k] \in Int
                                /\ e(t)[k] = w[k - t] * D[k] /\ e(t)[k] \in Int
  <2>1. IsFiniteSet(t .. n) /\ R(t) \subseteq t .. n
    <3>1. t \in Int /\ n \in Int
      OBVIOUS
    <3>2. IsFiniteSet(t .. n)
      BY <3>1, FS_Interval
    <3>3. R(t) \subseteq t .. n
      BY DEF SameLabel
    <3>4. QED
      BY <3>2, <3>3
  <2>2. IsFiniteSet(R(t)) /\ t \in R(t)
    BY <2>1, FS_Subset DEF SameLabel
  <2>3. ASSUME NEW k \in R(t)
        PROVE  /\ k \in t .. n /\ k \in 1 .. n /\ k - t \in 0 .. N
               /\ w[k - t] \in Int /\ D[k] \in Int
    <3>1. k \in t .. n
      BY <2>1
    <3>2. k \in 1 .. n /\ k - t \in 0 .. N
      BY <3>1
    <3>3. QED
      BY <3>1, <3>2
  <2>4. ASSUME NEW k \in R(t) PROVE e(t)[k] = w[k - t] * D[k] /\ e(t)[k] \in Int
    <3>1. e(t)[k] = w[k - t] * D[k]
      OBVIOUS
    <3>2. \A a, b \in Int : a * b \in Int
      OBVIOUS
    <3> HIDE DEF e, R
    <3>3. QED
      BY <2>3, <3>1, <3>2
  <2>5. QED
    BY <2>2, <2>3, <2>4
<1>4. \A t \in 1 .. n : f[t] = D[t] + G[t] * f[t + 1]
  BY DEF RunsBackward
<1> HIDE DEF R, e
<1>5. ASSUME NEW t \in 1 .. n
      PROVE  e(t)[t] = D[t]
  <2>1. t - t = 0 /\ D[t] \in Int /\ 1 * D[t] = D[t]
    OBVIOUS
  <2>2. w[0] = 1
    BY <1>2
  <2>3. e(t)[t] = w[t - t] * D[t]
    BY <1>3
  <2>4. QED
    BY ONLY <2>1, <2>2, <2>3
(* The last of its label.                                                  *)
<1>6. ASSUME NEW t \in 1 .. n, R(t) = {t}, G[t] * f[t + 1] = 0 PROVE Told(t)
  <2>1. SumFunctionOnSet(e(t), R(t)) = D[t]
    <3>1. R(t) \ {t} = {}
      BY <1>6
    <3>2. SumFunctionOnSet(e(t), R(t)) = e(t)[t] + SumFunctionOnSet(e(t), R(t) \ {t})
      BY <1>3, SumSplits
    <3>3. SumFunctionOnSet(e(t), {}) = 0
      BY SumOfNothing
    <3>4. D[t] \in Int /\ D[t] + 0 = D[t]
      OBVIOUS
    <3>5. QED
      BY <1>5, <3>1, <3>2, <3>3, <3>4
  <2>2. f[t] = D[t] + 0 /\ D[t] + 0 = D[t]
    BY <1>4, <1>6
  <2>3. QED
    BY <2>1, <2>2
<1>7. 0 \in P
  <2> SUFFICES ASSUME 0 < n PROVE Told(n)
    <3>1. n - 0 = n
      OBVIOUS
    <3>2. QED
      BY <3>1
  <2>1. n \in 1 .. n /\ n + 1 \in 1 .. n + 1 /\ n + 1 > n
    OBVIOUS
  <2>2. R(n) = {n}
    <3>1. \A k : k \in n .. n <=> k = n
      OBVIOUS
    <3>2. \A k : k \in R(n) <=> k \in {n}
      BY <3>1 DEF R, SameLabel
    <3>3. QED
      BY <3>2
  <2>3. f[n + 1] = 0
    BY <2>1 DEF RunsBackward
  <2>4. G[n] \in Int /\ G[n] * 0 = 0
    BY <2>1
  <2>5. QED
    BY <1>6, <2>1, <2>2, <2>3, <2>4
<1>8. ASSUME NEW j \in P PROVE j + 1 \in P
  <2> SUFFICES ASSUME j + 1 < n PROVE Told(n - (j + 1))
    OBVIOUS
  <2> DEFINE t == n - (j + 1)
             s == t + 1
  <2>1. /\ j \in Nat /\ j < n /\ t \in 1 .. n /\ t < n /\ s = n - j /\ s \in 1 .. n
        /\ s > t
    OBVIOUS
  <2>2. Told(s)
    BY <2>1
  <2> HIDE DEF P
  <2>3. SUFFICES Told(t)
    OBVIOUS
  <2>4. t + 1 = s
    OBVIOUS
  <2> HIDE DEF t, s
  <2>5. SumFunctionOnSet(e(s), R(s)) \in Int
    BY <1>3, <2>1, SumSplits
  <2>6. CASE h[t] # h[s]
    <3>1. G[t] = 0
      BY <2>1, <2>4, <2>6
    <3>2. f[s] \in Int /\ 0 * f[s] = 0
      BY <2>2, <2>5
    <3>3. R(t) = {t}
      <4>1. ASSUME NEW k \in R(t), k # t PROVE FALSE
        <5>1. k \in s .. n /\ h[k] = h[t]
          BY <2>1, <2>4, <4>1, <1>3 DEF R, SameLabel
        <5>2. h[t] <= h[s] /\ h[s] <= h[k]
          BY <1>1, <2>1, <2>4, <5>1
        <5>3. h[t] \in Nat /\ h[s] \in Nat
          BY <2>1
        <5>4. QED
          BY <2>6, <5>1, <5>2, <5>3
      <4>2. t \in R(t)
        BY <1>3, <2>1
      <4>3. QED
        BY <4>1, <4>2
    <3>4. QED
      BY <1>6, <2>1, <2>4, <3>1, <3>2, <3>3
  <2>7. CASE h[t] = h[s]
    <3>1. G[t] = x
      BY <2>1, <2>4, <2>7
    <3>2. R(t) \ {t} = R(s)
      <4>0. t \in Int /\ s \in Int /\ s = t + 1
        BY <2>1, <2>4
      <4>1. ASSUME NEW k PROVE (k \in t .. n /\ k # t) <=> k \in s .. n
        <5>1. (k \in t .. n /\ k # t) => k \in s .. n
          BY <4>0
        <5>2. k \in s .. n => (k \in t .. n /\ k # t)
          BY <4>0
        <5>3. QED
          BY <5>1, <5>2
      <4>2. \A k : k \in R(t) \ {t} <=> k \in R(s)
        BY <2>7, <4>1 DEF R, SameLabel
      <4>3. QED
        BY <4>2
    <3>3. SumFunctionOnSet(e(t), R(t)) = D[t] + SumFunctionOnSet(e(t), R(s))
      <4>1. SumFunctionOnSet(e(t), R(t)) = e(t)[t] + SumFunctionOnSet(e(t), R(t) \ {t})
        <5>1. IsFiniteSet(R(t)) /\ t \in R(t) /\ \A k \in R(t) : e(t)[k] \in Int
          BY <1>3, <2>1
        <5> HIDE DEF R, e
        <5>2. QED
          BY <5>1, SumSplits
      <4>2. QED
        BY <1>5, <2>1, <3>2, <4>1
    <3>4. ASSUME NEW k \in R(s) PROVE e(t)[k] = x * e(s)[k]
      <4>1. k \in R(t) /\ k \in s .. n
        BY <1>3, <2>1, <3>2
      <4>2. k - t \in 1 .. N /\ (k - t) - 1 = k - s
        BY <2>1, <2>4, <4>1
      <4>3. w[k - t] = x * w[k - s]
        BY <1>2, <4>2
      <4>4. /\ e(t)[k] = w[k - t] * D[k] /\ e(s)[k] = w[k - s] * D[k]
            /\ w[k - s] \in Int /\ D[k] \in Int
        BY <1>3, <2>1, <4>1
      <4>5. \A a, b \in Int : (x * a) * b = x * (a * b)
        OBVIOUS
      <4>6. QED
        BY <4>3, <4>4, <4>5
    <3>5. IsFiniteSet(R(s)) /\ \A k \in R(s) : e(s)[k] \in Int
      BY <1>3, <2>1
    <3>6. SumFunctionOnSet(e(t), R(s)) = x * SumFunctionOnSet(e(s), R(s))
      BY <3>4, <3>5, SumScaled
    <3>7. f[t] = D[t] + x * f[s]
      BY <1>4, <2>1, <2>4, <3>1
    <3>8. QED
      BY <2>2, <3>3, <3>6, <3>7
  <2>8. QED
    BY <2>6, <2>7
<1>9. P \in SUBSET Nat
  OBVIOUS
<1>10. ASSUME NEW t \in 1 .. n PROVE Told(t)
  <2> DEFINE j == n - t
  <2>1. j \in Nat /\ j < n /\ n - j = t
    OBVIOUS
  <2> HIDE DEF P, j
  <2>2. \A i \in Nat : i \in P
    BY <1>7, <1>8, <1>9, Induction
  <2>3. Told(n - j)
    BY <2>1, <2>2 DEF P
  <2>4. QED
    BY <2>1, <2>3
<1>11. QED
  BY <1>10 DEF R, e, SumsByLabel
-----------------------------------------------------------------------------
(* compute_returns is a recursion that runs backward over a column.        *)
Errors(gamma, c, terminal, bootstrap) ==
    [t \in 1 .. Len(c) |-> Columns!Delta(gamma, c, t, terminal, bootstrap)]
Decay(gamma, lambda, c, terminal) ==
    [t \in 1 .. Len(c) |-> gamma * lambda * Columns!NextNonterminal(c, t, terminal)]

AreBackward(gamma, lambda, c, terminal, bootstrap) ==
    \E f \in [1 .. Len(c) + 1 -> Int] :
       /\ RunsBackward(f, 1, Len(c), Errors(gamma, c, terminal, bootstrap),
                       Decay(gamma, lambda, c, terminal))
       /\ Errors(gamma, c, terminal, bootstrap) \in [1 .. Len(c) -> Int]
       /\ Decay(gamma, lambda, c, terminal) \in [1 .. Len(c) -> Int]
       /\ \A t \in 1 .. Len(c) :
             Columns!Advantages(gamma, lambda, c, terminal, bootstrap)[t] = f[t]

LEMMA AdvantagesRunBackward ==
    ASSUME NEW steps, NEW c \in Seq(StoredAt(steps)), NEW gamma \in Int,
           NEW lambda \in Int, NEW terminal \in BOOLEAN, NEW bootstrap \in Int
    PROVE  AreBackward(gamma, lambda, c, terminal, bootstrap)
<1> DEFINE n == Len(c)
           D == Errors(gamma, c, terminal, bootstrap)
           G == Decay(gamma, lambda, c, terminal)
           N(t) == Columns!NextNonterminal(c, t, terminal)
           V(t) == Columns!NextValue(c, t, terminal, bootstrap)
<1>1. n \in Nat /\ gamma \in Int /\ lambda \in Int
  OBVIOUS
<1>2. ASSUME NEW t \in 1 .. n
      PROVE  c[t].value \in Int /\ c[t].reward \in Int /\ c[t].done \in {0, 1}
  <2>1. c[t] \in StoredAt(steps)
    <3> HIDE DEF StoredAt
    <3>1. QED
      OBVIOUS
  <2>2. QED
    BY <2>1 DEF StoredAt
<1> HIDE DEF n
<1>3. ASSUME NEW t \in 1 .. n PROVE N(t) \in Int /\ V(t) \in Int
  <2>1. CASE t = n
    BY <2>1 DEF Columns!NextNonterminal, Columns!NextValue, n
  <2>2. CASE t # n
    <3>1. t + 1 \in 1 .. n
      BY <1>1, <2>2
    <3>2. c[t + 1].value \in Int /\ c[t + 1].done \in {0, 1}
      BY <1>2, <3>1
    <3>3. N(t) = 1 - c[t + 1].done /\ V(t) = c[t + 1].value
      BY <2>2 DEF Columns!NextNonterminal, Columns!NextValue, n
    <3>4. QED
      BY <3>2, <3>3
  <2>3. QED
    BY <2>1, <2>2
<1>4. ASSUME NEW t \in 1 .. n
      PROVE  /\ D[t] = c[t].reward + gamma * V(t) * N(t) - c[t].value
             /\ G[t] = gamma * lambda * N(t)
  BY DEF Errors, Decay, Columns!Delta, n
<1> HIDE DEF N, V
<1>5. D \in [1 .. n -> Int] /\ G \in [1 .. n -> Int]
  <2>1. D = [t \in 1 .. n |-> D[t]] /\ G = [t \in 1 .. n |-> G[t]]
    BY DEF Errors, Decay, n
  <2> HIDE DEF D, G
  <2>2. ASSUME NEW t \in 1 .. n PROVE D[t] \in Int /\ G[t] \in Int
    <3>1. \A x, y, z, v, w, u \in Int : x + y * z * v - w \in Int /\ y * u * v \in Int
      OBVIOUS
    <3>2. /\ c[t].reward \in Int /\ c[t].value \in Int /\ N(t) \in Int /\ V(t) \in Int
      BY <1>2, <1>3
    <3>3. /\ c[t].reward + gamma * V(t) * N(t) - c[t].value \in Int
          /\ gamma * lambda * N(t) \in Int
      BY <1>1, <3>1, <3>2
    <3>4. QED
      BY <1>4, <3>3
  <2>3. QED
    BY <2>1, <2>2
<1> HIDE DEF D, G
<1>6. PICK f \in [1 .. n + 1 -> Int] : RunsBackward(f, 1, n, D, G)
  BY <1>1, <1>5, BackwardExists
<1> DEFINE Rec(g) == [t \in 1 .. n + 1 |->
                         IF t > n THEN 0
                         ELSE Columns!Delta(gamma, c, t, terminal, bootstrap)
                              + gamma * lambda * Columns!NextNonterminal(c, t, terminal)
                                      * g[t + 1]]
           gae == CHOOSE g : g = Rec(g)
<1>7. \A g : Rec(g) = [t \in 1 .. n + 1 |-> IF t > n THEN 0 ELSE D[t] + G[t] * g[t + 1]]
  <2>1. ASSUME NEW t \in 1 .. n + 1, ~(t > n)
        PROVE  /\ D[t] = Columns!Delta(gamma, c, t, terminal, bootstrap)
               /\ G[t] = gamma * lambda * Columns!NextNonterminal(c, t, terminal)
    <3>1. t \in 1 .. n
      BY <1>1, <2>1
    <3>2. QED
      BY <3>1 DEF D, G, Errors, Decay, n
  <2>2. QED
    BY <2>1
<1>8. f = Rec(f)
  BY <1>6, <1>7 DEF RunsBackward
<1>9. gae = Rec(gae)
  <2> HIDE DEF Rec
  <2>1. QED
    BY <1>8
<1>10. \A t \in 1 .. n : Columns!Advantages(gamma, lambda, c, terminal, bootstrap)[t] = gae[t]
  BY DEF Columns!Advantages, n
<1>11. \A t \in 1 .. n + 1 : gae[t] = f[t]
  <2> HIDE DEF gae
  <2>1. RunsBackward(gae, 1, n, D, G)
    <3> HIDE DEF Rec
    <3>1. gae = [t \in 1 .. n + 1 |-> IF t > n THEN 0 ELSE D[t] + G[t] * gae[t + 1]]
      BY <1>7, <1>9
    <3>2. \A t \in 1 .. n + 1 :
             gae[t] = IF t > n THEN 0 ELSE D[t] + G[t] * gae[t + 1]
      BY <3>1
    <3>3. QED
      BY <3>2 DEF RunsBackward
  <2>2. QED
    BY <1>1, <1>6, <2>1, BackwardIsUnique
<1> HIDE DEF gae
<1>12. \A t \in 1 .. n : Columns!Advantages(gamma, lambda, c, terminal, bootstrap)[t] = f[t]
  BY <1>1, <1>10, <1>11
<1>13. QED
  BY <1>5, <1>6, <1>12 DEF n, D, G, AreBackward
-----------------------------------------------------------------------------
(* Division, and the multiples of a number.                                *)
LEMMA ProductGrows ==
    ASSUME NEW k \in Nat \ {0}, NEW m \in Nat
    PROVE  k * m >= m
<1>1. k = (k - 1) + 1 /\ k - 1 \in Nat
  OBVIOUS
<1>2. \A j \in Nat : (j + 1) * m = j * m + m /\ j * m \in Nat
  OBVIOUS
<1>3. QED
  BY <1>1, <1>2

(* Division with a remainder.                                              *)
LEMMA DividedBy ==
    ASSUME NEW i \in Nat, NEW m \in Nat \ {0}
    PROVE  /\ i % m \in 0 .. m - 1
           /\ \E q \in Nat : i = q * m + (i % m)
<1> DEFINE Divides(j) == \E q \in Nat, r \in 0 .. m - 1 : j = q * m + r
           P == {j \in Nat : Divides(j)}
<1>1. 0 \in P
  <2>1. 0 = 0 * m + 0 /\ 0 \in 0 .. m - 1
    OBVIOUS
  <2>2. QED
    BY <2>1
<1>2. ASSUME NEW j \in P PROVE j + 1 \in P
  <2>1. PICK q \in Nat, r \in 0 .. m - 1 : j = q * m + r
    OBVIOUS
  <2>2. q * m \in Nat /\ (q + 1) * m = q * m + m
    OBVIOUS
  <2>3. CASE r < m - 1
    <3>1. r + 1 \in 0 .. m - 1 /\ j + 1 = q * m + (r + 1)
      BY <2>1, <2>2, <2>3
    <3>2. QED
      BY <3>1
  <2>4. CASE r = m - 1
    <3>1. q + 1 \in Nat /\ 0 \in 0 .. m - 1 /\ j + 1 = (q + 1) * m + 0
      BY <2>1, <2>2, <2>4
    <3>2. Divides(j + 1)
      BY <3>1, Zenon
    <3> HIDE DEF Divides
    <3>3. QED
      BY <3>2
  <2>5. QED
    BY <2>3, <2>4
<1>3. P \in SUBSET Nat
  OBVIOUS
<1> HIDE DEF P
<1>4. i \in P
  BY <1>1, <1>2, <1>3, Induction
<1>5. PICK q \in Nat, r \in 0 .. m - 1 : i = q * m + r
  BY <1>4 DEF P
<1>6. \A a \in Nat, b \in 0 .. m - 1 : (a * m + b) % m = b
  OBVIOUS
<1>7. i % m = r
  BY <1>5, <1>6
<1>8. QED
  BY <1>5, <1>7, Zenon

(* Two multiples of a number are at least that number apart.               *)
LEMMA MultiplesApart ==
    ASSUME NEW m \in Nat \ {0}, NEW s \in Nat, NEW t \in Nat,
           s % m = 0, t % m = 0, s < t
    PROVE  s + m <= t
<1>1. PICK q \in Nat, r \in Nat : s = q * m + 0 /\ t = r * m + 0
  <2>1. \E q \in Nat : s = q * m + (s % m)
    BY DividedBy
  <2>2. \E r \in Nat : t = r * m + (t % m)
    BY DividedBy
  <2>3. QED
    BY <2>1, <2>2, Zenon
<1>2. r > q
  <2>1. \A a, b \in Nat : a <= b => a * m <= b * m
    OBVIOUS
  <2>2. q * m \in Nat /\ r * m \in Nat
    OBVIOUS
  <2>3. QED
    BY <1>1, <2>1, <2>2
<1>3. t = s + (r - q) * m
  <2>1. \A a, b \in Nat : b * m + 0 = (a * m + 0) + (b - a) * m
    OBVIOUS
  <2>2. QED
    BY <1>1, <2>1
<1>4. (r - q) * m >= m /\ (r - q) * m \in Int
  BY <1>2, ProductGrows
<1>5. QED
  BY <1>3, <1>4

(* The multiple below a number.                                            *)
LEMMA MultipleBelow ==
    ASSUME NEW m \in Nat \ {0}, NEW i \in Nat
    PROVE  \E s \in 0 .. i : s % m = 0 /\ i < s + m
<1>1. PICK q \in Nat : i = q * m + (i % m)
  BY DividedBy
<1>2. i % m \in 0 .. m - 1
  BY DividedBy
<1>3. q * m \in Nat /\ (q * m) % m = 0
  OBVIOUS
<1>4. QED
  BY <1>1, <1>2, <1>3
=============================================================================
