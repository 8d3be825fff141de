------------------------------ MODULE SumLemmas ------------------------------
(***************************************************************************)
(* What the proofs need to know of SumFunction: how the units a gate holds *)
(* add up when one caller's share changes (try_admit, reserve_quota, admit *)
(* and release), and how a line adds up over pieces of time (price).  The  *)
(* sum is defined by recursion over the subsets of its domain; the lemmas  *)
(* go by the size of those subsets.                                        *)
(***************************************************************************)
EXTENDS Integers, Functions, FiniteSetTheorems, WellFoundedInduction, TLAPS

(* A set of numbers that has zero and, with each number, the next. *)
LEMMA AllNumbers ==
    ASSUME NEW N \in SUBSET Nat, 0 \in N, \A n \in N : n + 1 \in N
    PROVE  N = Nat
<1> SUFFICES ASSUME Nat \ N # {} PROVE FALSE OBVIOUS
<1>1. PICK least \in Nat \ N : \A n \in Nat \ N : ~(<<n, least>> \in OpToRel(<, Nat))
  BY NatLessThanWellFounded, WFMin
<1>2. \A n \in Nat \ N : ~(n < least) BY <1>1 DEF OpToRel
<1>3. least \in Nat /\ least \notin N /\ least # 0 OBVIOUS
<1>4. least - 1 \in Nat /\ least - 1 < least /\ (least - 1) + 1 = least BY <1>3
<1>5. least - 1 \in N BY <1>2, <1>4
<1>6. (least - 1) + 1 \in N BY <1>5
<1> QED BY <1>3, <1>4, <1>6

Pick(s) == CHOOSE x \in s : TRUE
Smaller(S, n) == {s \in SUBSET S : Cardinality(s) <= n}
SumsOver(f, subsets, sums) ==
    sums = [s \in subsets |-> IF s = {} THEN 0 ELSE f[Pick(s)] + sums[s \ {Pick(s)}]]

LEMMA LessOne ==
    ASSUME NEW S, IsFiniteSet(S), NEW n \in Nat, NEW s \in Smaller(S, n + 1), s # {}
    PROVE  /\ Pick(s) \in s /\ Pick(s) \in S
           /\ s \ {Pick(s)} \in Smaller(S, n)
<1>1. Pick(s) \in s BY DEF Pick
<1>2. s \in SUBSET S /\ IsFiniteSet(s) /\ Cardinality(s) <= n + 1 BY FS_Subset DEF Smaller
<1>3. Cardinality(s) \in Nat /\ Cardinality(s \ {Pick(s)}) = Cardinality(s) - 1
  BY <1>1, <1>2, FS_RemoveElement, FS_CardinalityType
<1> QED BY <1>1, <1>2, <1>3 DEF Smaller

LEMMA SmallerGrows ==
    ASSUME NEW S, IsFiniteSet(S), NEW n \in Nat
    PROVE  /\ {} \in Smaller(S, n)
           /\ Smaller(S, n) \subseteq Smaller(S, n + 1)
           /\ \A s \in Smaller(S, 0) : s = {}
           /\ Smaller(S, Cardinality(S)) = SUBSET S
<1>1. \A s \in SUBSET S : IsFiniteSet(s) /\ Cardinality(s) \in Nat /\ Cardinality(s) <= Cardinality(S)
  BY FS_Subset, FS_CardinalityType
<1>2. Cardinality({}) = 0 BY FS_EmptySet
<1>3. \A s \in SUBSET S : Cardinality(s) <= 0 => s = {} BY <1>1, FS_EmptySet
<1> QED BY <1>1, <1>2, <1>3 DEF Smaller

(* The recursion that defines the sum has a solution. *)
LEMMA SumsExist ==
    ASSUME NEW S, IsFiniteSet(S), NEW f \in [S -> Int]
    PROVE  \E sums \in [SUBSET S -> Int] : SumsOver(f, SUBSET S, sums)
<1> DEFINE N == {n \in Nat : \E sums \in [Smaller(S, n) -> Int] : SumsOver(f, Smaller(S, n), sums)}
<1>1. 0 \in N
  <2> DEFINE sums == [s \in Smaller(S, 0) |-> 0]
  <2>1. sums \in [Smaller(S, 0) -> Int] OBVIOUS
  <2>2. SumsOver(f, Smaller(S, 0), sums) BY SmallerGrows DEF SumsOver
  <2> QED BY <2>1, <2>2
<1>2. ASSUME NEW n \in N PROVE n + 1 \in N
  <2>1. PICK sums \in [Smaller(S, n) -> Int] : SumsOver(f, Smaller(S, n), sums) OBVIOUS
  <2> DEFINE more == [s \in Smaller(S, n + 1) |-> IF s = {} THEN 0 ELSE f[Pick(s)] + sums[s \ {Pick(s)}]]
  <2>2. more \in [Smaller(S, n + 1) -> Int]
    <3> DEFINE next(s) == f[Pick(s)] + sums[s \ {Pick(s)}]
    <3>1. \A i \in Int, j \in Int : i + j \in Int OBVIOUS
    <3>2. ASSUME NEW s \in Smaller(S, n + 1), s # {} PROVE next(s) \in Int
      <4>1. Pick(s) \in S /\ s \ {Pick(s)} \in Smaller(S, n) BY <3>2, LessOne
      <4>2. f[Pick(s)] \in Int /\ sums[s \ {Pick(s)}] \in Int BY <4>1
      <4> QED BY <3>1, <4>2
    <3> HIDE DEF next
    <3>3. [s \in Smaller(S, n + 1) |-> IF s = {} THEN 0 ELSE next(s)] \in [Smaller(S, n + 1) -> Int]
      BY <3>2
    <3> QED BY <3>3 DEF next
  <2>3. \A s \in Smaller(S, n) : more[s] = sums[s]
    <3> TAKE s \in Smaller(S, n)
    <3>1. s \in Smaller(S, n + 1) BY SmallerGrows
    <3> QED BY <2>1, <3>1 DEF SumsOver
  <2>4. \A s \in Smaller(S, n + 1) :
            more[s] = IF s = {} THEN 0 ELSE f[Pick(s)] + more[s \ {Pick(s)}]
    BY <2>3, LessOne
  <2>5. SumsOver(f, Smaller(S, n + 1), more)
    <3> HIDE DEF more
    <3> QED BY <2>2, <2>4 DEF SumsOver
  <2> HIDE DEF more
  <2> QED BY <2>2, <2>5
<1>3. N = Nat
  <2> HIDE DEF N
  <2>1. N \in SUBSET Nat BY DEF N
  <2> QED BY <1>1, <1>2, <2>1, AllNumbers
<1>4. Cardinality(S) \in N
  <2> HIDE DEF N
  <2> QED BY <1>3, FS_CardinalityType
<1>5. PICK sums \in [Smaller(S, Cardinality(S)) -> Int] : SumsOver(f, Smaller(S, Cardinality(S)), sums)
  BY <1>4
<1>6. Smaller(S, Cardinality(S)) = SUBSET S BY SmallerGrows, FS_CardinalityType
<1> QED BY <1>5, <1>6

(* Two functions that differ at one point have sums that differ by as much. *)
DifferAt(S, x, f, g, a, b) ==
    /\ f \in [S -> Int] /\ g \in [S -> Int] /\ x \in S
    /\ \A y \in S : y # x => g[y] = f[y]
    /\ a \in [SUBSET S -> Int] /\ SumsOver(f, SUBSET S, a)
    /\ b \in [SUBSET S -> Int] /\ SumsOver(g, SUBSET S, b)

LEMMA SumsDiffer ==
    ASSUME NEW S, IsFiniteSet(S), NEW f, NEW g, NEW x, NEW a, NEW b, DifferAt(S, x, f, g, a, b)
    PROVE  b[S] = a[S] + (g[x] - f[x])
<1> USE DEF DifferAt
<1> DEFINE Extra(s) == IF x \in s THEN g[x] - f[x] ELSE 0
           N == {n \in Nat : \A s \in Smaller(S, n) : b[s] = a[s] + Extra(s)}
<1>0. \A s \in SUBSET S : s # {} =>
        /\ a[s] = f[Pick(s)] + a[s \ {Pick(s)}]
        /\ b[s] = g[Pick(s)] + b[s \ {Pick(s)}]
  BY DEF SumsOver
<1>9. a[{}] = 0 /\ b[{}] = 0 BY DEF SumsOver
<1>1. 0 \in N
  <2>1. \A s \in Smaller(S, 0) : s = {} BY SmallerGrows
  <2>2. Extra({}) = 0 OBVIOUS
  <2>3. b[{}] = a[{}] + Extra({})
    <3> HIDE DEF Extra
    <3> QED BY <1>9, <2>2
  <2>4. \A s \in Smaller(S, 0) : b[s] = a[s] + Extra(s) BY <2>1, <2>3
  <2> QED BY <2>4
<1>2. ASSUME NEW n \in N PROVE n + 1 \in N
  <2> SUFFICES ASSUME NEW s \in Smaller(S, n + 1) PROVE b[s] = a[s] + Extra(s) OBVIOUS
  <2>1. CASE s = {} BY <1>9, <2>1
  <2>2. CASE s # {}
    <3> DEFINE y == Pick(s)  r == s \ {y}
    <3>1. y \in s /\ y \in S /\ r \in Smaller(S, n) /\ s \in SUBSET S /\ r \in SUBSET S
      BY <2>2, LessOne DEF Smaller
    <3>2. b[r] = a[r] + Extra(r) BY <3>1
    <3>3. a[s] = f[y] + a[r] /\ b[s] = g[y] + b[r] BY <1>0, <2>2, <3>1
    <3>4. a[r] \in Int /\ b[r] \in Int /\ f[y] \in Int /\ g[y] \in Int /\ f[x] \in Int /\ g[x] \in Int BY <3>1
    <3>5. CASE y = x
      <4>1. Extra(r) = 0 /\ Extra(s) = g[x] - f[x] BY <3>1, <3>5
      <4> QED BY <3>2, <3>3, <3>4, <3>5, <4>1
    <3>6. CASE y # x
      <4>1. Extra(r) = Extra(s) /\ g[y] = f[y] BY <3>1, <3>6
      <4>2. Extra(s) \in Int BY <3>4
      <4> HIDE DEF Extra, y, r
      <4> QED BY <3>2, <3>3, <3>4, <4>1, <4>2
    <3> QED BY <3>5, <3>6
  <2> QED BY <2>1, <2>2
<1>3. N = Nat
  <2> HIDE DEF N
  <2>1. N \in SUBSET Nat BY DEF N
  <2> QED BY <1>1, <1>2, <2>1, AllNumbers
<1>4. Cardinality(S) \in N BY <1>3, FS_CardinalityType
<1> QED BY <1>4, SmallerGrows, FS_CardinalityType

(* Every solution adds up numbers; of non-negative ones it is no less than *)
(* any of them.                                                            *)
LEMMA SumsTyped ==
    ASSUME NEW S, IsFiniteSet(S), NEW f \in [S -> Int], NEW a, SumsOver(f, SUBSET S, a)
    PROVE  a \in [SUBSET S -> Int]
<1> DEFINE N == {n \in Nat : \A s \in Smaller(S, n) : a[s] \in Int}
<1>1. a = [s \in SUBSET S |-> a[s]] BY DEF SumsOver
<1>0. \A s \in SUBSET S : s = {} => a[s] = 0 BY DEF SumsOver
<1>2. \A s \in SUBSET S : s # {} => a[s] = f[Pick(s)] + a[s \ {Pick(s)}] BY DEF SumsOver
<1>3. 0 \in N
  <2>1. \A s \in Smaller(S, 0) : a[s] \in Int BY <1>0, SmallerGrows DEF Smaller
  <2> QED BY <2>1
<1>4. ASSUME NEW n \in N PROVE n + 1 \in N
  <2> SUFFICES ASSUME NEW s \in Smaller(S, n + 1) PROVE a[s] \in Int OBVIOUS
  <2> SUFFICES ASSUME s # {} PROVE a[s] \in Int BY <1>0 DEF Smaller
  <2>1. Pick(s) \in S /\ s \ {Pick(s)} \in Smaller(S, n) /\ s \in SUBSET S BY LessOne DEF Smaller
  <2>2. f[Pick(s)] \in Int /\ a[s \ {Pick(s)}] \in Int BY <2>1
  <2>3. \A i \in Int, j \in Int : i + j \in Int OBVIOUS
  <2> QED BY <1>2, <2>1, <2>2, <2>3
<1>5. N = Nat
  <2> HIDE DEF N
  <2>1. N \in SUBSET Nat BY DEF N
  <2> QED BY <1>3, <1>4, <2>1, AllNumbers
<1>6. \A s \in SUBSET S : a[s] \in Int BY <1>5, SmallerGrows, FS_CardinalityType
<1> QED BY <1>1, <1>6

LEMMA SumsBound ==
    ASSUME NEW S, IsFiniteSet(S), NEW f \in [S -> Nat],
           NEW a \in [SUBSET S -> Int], SumsOver(f, SUBSET S, a), NEW x \in S
    PROVE  a[S] >= f[x]
<1> DEFINE N == {n \in Nat : \A s \in Smaller(S, n) : a[s] >= 0 /\ (x \in s => a[s] >= f[x])}
<1>1. a[{}] = 0 /\ \A s \in SUBSET S : s # {} => a[s] = f[Pick(s)] + a[s \ {Pick(s)}] BY DEF SumsOver
<1>2. 0 \in N
  <2>1. \A s \in Smaller(S, 0) : a[s] = 0 /\ x \notin s BY <1>1, SmallerGrows
  <2> QED BY <2>1
<1>3. ASSUME NEW n \in N PROVE n + 1 \in N
  <2> SUFFICES ASSUME NEW s \in Smaller(S, n + 1) PROVE a[s] >= 0 /\ (x \in s => a[s] >= f[x]) OBVIOUS
  <2> SUFFICES ASSUME s # {} PROVE a[s] >= 0 /\ (x \in s => a[s] >= f[x])
    <3>1. CASE s = {} BY <1>1, <3>1
    <3> QED BY <3>1
  <2> DEFINE y == Pick(s)  r == s \ {y}
  <2>1. y \in s /\ y \in S /\ r \in Smaller(S, n) /\ s \in SUBSET S /\ r \in SUBSET S
    BY LessOne DEF Smaller
  <2>2. f[y] \in Nat /\ f[x] \in Nat /\ a[r] \in Int /\ a[s] \in Int BY <2>1
  <2>3. a[s] = f[y] + a[r] BY <1>1, <2>1
  <2>4. a[r] >= 0 /\ (x \in r => a[r] >= f[x]) BY <2>1
  <2>5. x \in s => x = y \/ x \in r OBVIOUS
  <2>6. CASE x = y
    <3>1. f[x] = f[y] BY <2>6
    <3> HIDE DEF y, r
    <3> QED BY <2>2, <2>3, <2>4, <3>1
  <2>7. CASE x # y
    <3> HIDE DEF y, r
    <3> QED BY <2>2, <2>3, <2>4, <2>5, <2>7
  <2> QED BY <2>6, <2>7
<1>4. N = Nat
  <2> HIDE DEF N
  <2>1. N \in SUBSET Nat BY DEF N
  <2> QED BY <1>2, <1>3, <2>1, AllNumbers
<1>5. Cardinality(S) \in Nat /\ S \in Smaller(S, Cardinality(S)) BY SmallerGrows, FS_CardinalityType
<1> QED BY <1>4, <1>5

(* The sum is the value of a solution, and of any other solution's twin. *)
LEMMA SumUnfolds ==
    ASSUME NEW S, IsFiniteSet(S), NEW f \in [S -> Int]
    PROVE  \E sums \in [SUBSET S -> Int] : SumsOver(f, SUBSET S, sums) /\ SumFunction(f) = sums[S]
<1> DEFINE chosen == CHOOSE sums : SumsOver(f, SUBSET S, sums)
<1>1. PICK sums \in [SUBSET S -> Int] : SumsOver(f, SUBSET S, sums) BY SumsExist
<1>2. SumsOver(f, SUBSET S, chosen) BY <1>1
<1>3. SumFunction(f) = chosen[S]
  <2>1. DOMAIN f = S OBVIOUS
  <2> QED
    BY <2>1 DEF SumFunction, SumFunctionOnSet, FoldFunctionOnSet, MapThenFoldSet, SumsOver, Pick
<1>4. chosen \in [SUBSET S -> Int]
  <2> HIDE DEF chosen
  <2> QED BY <1>2, SumsTyped
<1> QED BY <1>2, <1>3, <1>4

-----------------------------------------------------------------------------
(* What the gates use: nothing held adds up to nothing, one share changes  *)
(* the sum by as much as it changes itself, and no share exceeds the sum.  *)
LEMMA SumOfNothing ==
    ASSUME NEW S, IsFiniteSet(S) PROVE SumFunction([x \in S |-> 0]) = 0
<1> DEFINE f == [x \in S |-> 0]
<1>1. f \in [S -> Int] OBVIOUS
<1>2. PICK sums \in [SUBSET S -> Int] : SumsOver(f, SUBSET S, sums) /\ SumFunction(f) = sums[S]
  <2> HIDE DEF f
  <2> QED BY <1>1, SumUnfolds
<1> DEFINE N == {n \in Nat : \A s \in Smaller(S, n) : sums[s] = 0}
<1>3. sums[{}] = 0 /\ \A s \in SUBSET S : s # {} => sums[s] = f[Pick(s)] + sums[s \ {Pick(s)}]
  BY <1>2 DEF SumsOver
<1>4. 0 \in N BY <1>3, SmallerGrows
<1>5. ASSUME NEW n \in N PROVE n + 1 \in N
  <2> SUFFICES ASSUME NEW s \in Smaller(S, n + 1) PROVE sums[s] = 0 OBVIOUS
  <2> SUFFICES ASSUME s # {} PROVE sums[s] = 0 BY <1>3
  <2>1. Pick(s) \in S /\ s \ {Pick(s)} \in Smaller(S, n) /\ s \in SUBSET S BY LessOne DEF Smaller
  <2>2. f[Pick(s)] = 0 /\ sums[s \ {Pick(s)}] = 0 BY <2>1
  <2> QED BY <1>3, <2>1, <2>2
<1>6. N = Nat
  <2> HIDE DEF N
  <2>1. N \in SUBSET Nat BY DEF N
  <2> QED BY <1>4, <1>5, <2>1, AllNumbers
<1>7. Cardinality(S) \in Nat /\ S \in Smaller(S, Cardinality(S)) BY SmallerGrows, FS_CardinalityType
<1> QED BY <1>2, <1>6, <1>7

ChangedAt(S, f, x, v, g) == g = [f EXCEPT ![x] = v]

LEMMA SumOfChanged ==
    ASSUME NEW S, IsFiniteSet(S), NEW f \in [S -> Int], NEW x \in S, NEW v \in Int,
           NEW g, ChangedAt(S, f, x, v, g)
    PROVE  SumFunction(g) = SumFunction(f) + (v - f[x])
<1>1. g \in [S -> Int] /\ g[x] = v /\ \A y \in S : y # x => g[y] = f[y] BY DEF ChangedAt
<1>2. PICK a \in [SUBSET S -> Int] : SumsOver(f, SUBSET S, a) /\ SumFunction(f) = a[S] BY SumUnfolds
<1>3. PICK b \in [SUBSET S -> Int] : SumsOver(g, SUBSET S, b) /\ SumFunction(g) = b[S] BY <1>1, SumUnfolds
<1>4. DifferAt(S, x, f, g, a, b) BY <1>1, <1>2, <1>3 DEF DifferAt
<1>5. b[S] = a[S] + (g[x] - f[x]) BY <1>4, SumsDiffer
<1> QED BY <1>1, <1>2, <1>3, <1>5

LEMMA SumBounds ==
    ASSUME NEW S, IsFiniteSet(S), NEW f \in [S -> Nat], NEW x \in S
    PROVE  SumFunction(f) \in Nat /\ f[x] <= SumFunction(f)
<1>1. f \in [S -> Int] OBVIOUS
<1>2. PICK a \in [SUBSET S -> Int] : SumsOver(f, SUBSET S, a) /\ SumFunction(f) = a[S] BY <1>1, SumUnfolds
<1>3. a[S] >= f[x] BY <1>2, SumsBound
<1>4. a[S] \in Int /\ f[x] \in Nat BY <1>2
<1> QED BY <1>2, <1>3, <1>4

LEMMA SumTyped ==
    ASSUME NEW S, IsFiniteSet(S), NEW f \in [S -> Int] PROVE SumFunction(f) \in Int
<1>1. PICK sums \in [SUBSET S -> Int] : SumFunction(f) = sums[S] BY SumUnfolds
<1> QED BY <1>1
-----------------------------------------------------------------------------
(* What a line uses: the order of the terms does not matter, as many equal *)
(* terms as there are instants in an interval add up to their product, and *)
(* so the sum over the instants is the sum over the pieces they are cut to.*)
Adds(f, S, a) ==
    /\ f \in [S -> Int] /\ a \in [SUBSET S -> Int] /\ a[{}] = 0
    /\ \A s \in SUBSET S : \A x \in s : a[s] = f[x] + a[s \ {x}]

LEMMA AnyOrder ==
    ASSUME NEW S, IsFiniteSet(S), NEW f \in [S -> Int],
           NEW a \in [SUBSET S -> Int], SumsOver(f, SUBSET S, a)
    PROVE  Adds(f, S, a)
<1> DEFINE N == {n \in Nat : \A s \in Smaller(S, n) : \A x \in s : a[s] = f[x] + a[s \ {x}]}
<1>1. a[{}] = 0 /\ \A s \in SUBSET S : s # {} => a[s] = f[Pick(s)] + a[s \ {Pick(s)}] BY DEF SumsOver
<1>2. 0 \in N BY SmallerGrows
<1>3. ASSUME NEW n \in N PROVE n + 1 \in N
  <2> SUFFICES ASSUME NEW s \in Smaller(S, n + 1), NEW x \in s PROVE a[s] = f[x] + a[s \ {x}] OBVIOUS
  <2> DEFINE y == Pick(s)
  <2>1. y \in s /\ y \in S /\ s \ {y} \in Smaller(S, n) /\ s \in SUBSET S /\ s # {} /\ x \in S
    BY LessOne DEF Smaller
  <2>2. a[s] = f[y] + a[s \ {y}] BY <1>1, <2>1
  <2>3. CASE x = y
    <3> HIDE DEF y
    <3> QED BY <2>2, <2>3
  <2>4. CASE x # y
    <3> DEFINE r == (s \ {y}) \ {x}
    <3>1. x \in s \ {y} BY <2>4
    <3>2. a[s \ {y}] = f[x] + a[r] BY <2>1, <3>1
    <3>3. s \ {x} \in Smaller(S, n)
      <4>1. IsFiniteSet(s) /\ Cardinality(s) <= n + 1 BY <2>1, FS_Subset DEF Smaller
      <4>2. Cardinality(s \ {x}) = Cardinality(s) - 1 /\ Cardinality(s) \in Nat
        BY <4>1, FS_RemoveElement, FS_CardinalityType
      <4> QED BY <2>1, <4>1, <4>2 DEF Smaller
    <3>4. y \in s \ {x} /\ (s \ {x}) \ {y} = r BY <2>1, <2>4
    <3>5. a[s \ {x}] = f[y] + a[r] BY <3>3, <3>4
    <3>6. f[x] \in Int /\ f[y] \in Int /\ r \in SUBSET S /\ a[r] \in Int BY <2>1
    <3> HIDE DEF r, y
    <3> QED BY <2>2, <3>2, <3>5, <3>6
  <2> QED BY <2>3, <2>4
<1>4. N = Nat
  <2> HIDE DEF N
  <2>1. N \in SUBSET Nat BY DEF N
  <2> QED BY <1>2, <1>3, <2>1, AllNumbers
<1>5. \A s \in SUBSET S : \A x \in s : a[s] = f[x] + a[s \ {x}]
  <2>1. Cardinality(S) \in N BY <1>4, FS_CardinalityType
  <2>2. Smaller(S, Cardinality(S)) = SUBSET S BY SmallerGrows, FS_CardinalityType
  <2> QED BY <2>1, <2>2
<1> QED BY <1>1, <1>5 DEF Adds

LEMMA SumAdds ==
    ASSUME NEW S, IsFiniteSet(S), NEW f \in [S -> Int]
    PROVE  \E a : Adds(f, S, a) /\ SumFunction(f) = a[S]
BY SumUnfolds, AnyOrder

(* Adding one more element. *)
LEMMA AddsOne ==
    ASSUME NEW S, NEW f, NEW a, Adds(f, S, a), NEW s \in SUBSET S, NEW x \in S, x \notin s
    PROVE  a[s \cup {x}] = a[s] + f[x]
<1>1. s \cup {x} \in SUBSET S /\ x \in s \cup {x} /\ (s \cup {x}) \ {x} = s OBVIOUS
<1>2. a[s \cup {x}] = f[x] + a[s] BY <1>1 DEF Adds
<1>3. a[s] \in Int /\ f[x] \in Int BY DEF Adds
<1> QED BY <1>2, <1>3

(* Adding an interval on which all terms are equal. *)
AllEqual(S, f, s, lo, hi, c) ==
    /\ lo \in Int /\ hi \in Int /\ lo <= hi /\ c \in Int
    /\ \A t \in lo..(hi - 1) : t \in S /\ t \notin s /\ f[t] = c

Gains(a, s, lo, hi, c) == a[s \cup lo..(hi - 1)] = a[s] + (hi - lo) * c

LEMMA AddsInterval ==
    ASSUME NEW S, NEW f, NEW a, Adds(f, S, a), NEW s \in SUBSET S, NEW lo, NEW hi, NEW c,
           AllEqual(S, f, s, lo, hi, c)
    PROVE  Gains(a, s, lo, hi, c)
<1> USE DEF AllEqual, Gains
<1> DEFINE N == {n \in Nat : lo + n <= hi => a[s \cup lo..(lo + n - 1)] = a[s] + n * c}
<1>0. a[s] \in Int BY DEF Adds
<1>1. 0 \in N
  <2>1. s \cup lo..(lo + 0 - 1) = s OBVIOUS
  <2>2. a[s] + 0 * c = a[s] BY <1>0
  <2> QED BY <2>1, <2>2
<1>2. ASSUME NEW n \in N PROVE n + 1 \in N
  <2> SUFFICES ASSUME lo + (n + 1) <= hi
               PROVE  a[s \cup lo..(lo + (n + 1) - 1)] = a[s] + (n + 1) * c
    <3>1. n + 1 \in Nat OBVIOUS
    <3> QED BY <3>1
  <2> DEFINE old == s \cup lo..(lo + n - 1)
  <2>1. n \in Nat /\ lo + n <= hi /\ lo + n \in lo..(hi - 1) OBVIOUS
  <2>2. a[old] = a[s] + n * c BY <2>1
  <2>3. s \cup lo..(lo + (n + 1) - 1) = old \cup {lo + n} BY <2>1
  <2>4. old \in SUBSET S /\ lo + n \in S /\ lo + n \notin old /\ f[lo + n] = c
    <3>1. \A t \in lo..(lo + n - 1) : t \in lo..(hi - 1) BY <2>1
    <3>2. lo + n \notin lo..(lo + n - 1) BY <2>1
    <3> QED BY <2>1, <3>1, <3>2
  <2>5. a[old \cup {lo + n}] = a[old] + c
    <3> DEFINE x == lo + n
    <3>1. old \in SUBSET S /\ x \in S /\ x \notin old /\ f[x] = c BY <2>4
    <3> HIDE DEF old, x
    <3>2. a[old \cup {x}] = a[old] + f[x] BY <3>1, AddsOne
    <3> QED BY <3>1, <3>2 DEF x
  <2>6. (n + 1) * c = n * c + c /\ n * c \in Int BY <2>1
  <2> HIDE DEF old
  <2>7. a[s \cup lo..(lo + (n + 1) - 1)] = (a[s] + n * c) + c BY <2>2, <2>3, <2>5
  <2> DEFINE product == n * c  more == (n + 1) * c
  <2>8. more = product + c /\ product \in Int /\ a[s \cup lo..(lo + (n + 1) - 1)] = (a[s] + product) + c BY <2>6, <2>7
  <2>9. \A i, j, k \in Int : (i + j) + k = i + (j + k) OBVIOUS
  <2> HIDE DEF product, more
  <2>10. a[s \cup lo..(lo + (n + 1) - 1)] = a[s] + more BY <1>0, <2>8, <2>9
  <2> QED BY <2>10 DEF more
<1>3. N = Nat
  <2> HIDE DEF N
  <2>1. N \in SUBSET Nat BY DEF N
  <2> QED BY <1>1, <1>2, <2>1, AllNumbers
<1>4. hi - lo \in Nat /\ lo + (hi - lo) = hi /\ lo + (hi - lo) <= hi OBVIOUS
<1>5. hi - lo \in N BY <1>3, <1>4
<1> QED BY <1>4, <1>5

(* A set is as large as the sum of its ones. *)
LEMMA SumOfOnes ==
    ASSUME NEW S, IsFiniteSet(S) PROVE SumFunction([x \in S |-> 1]) = Cardinality(S)
<1> DEFINE f == [x \in S |-> 1]
           N == {n \in Nat : \A s \in Smaller(S, n) : \A a : Adds(f, S, a) => a[s] = Cardinality(s)}
<1>1. f \in [S -> Int] /\ \A x \in S : f[x] = 1 OBVIOUS
<1> HIDE DEF f
<1>2. 0 \in N BY SmallerGrows, FS_EmptySet DEF Adds
<1>3. ASSUME NEW n \in N PROVE n + 1 \in N
  <2> SUFFICES ASSUME NEW s \in Smaller(S, n + 1), NEW a, Adds(f, S, a) PROVE a[s] = Cardinality(s)
    OBVIOUS
  <2>1. CASE s = {} BY <2>1, FS_EmptySet DEF Adds
  <2>2. CASE s # {}
    <3> DEFINE y == Pick(s)  r == s \ {y}
    <3>1. y \in s /\ y \in S /\ r \in Smaller(S, n) /\ s \in SUBSET S BY <2>2, LessOne DEF Smaller
    <3>2. a[s] = 1 + a[r] BY <1>1, <3>1 DEF Adds
    <3>3. a[r] = Cardinality(r) BY <3>1
    <3>4. IsFiniteSet(s) BY <3>1, FS_Subset
    <3>5. Cardinality(r) = Cardinality(s) - 1 /\ Cardinality(s) \in Nat
      BY <3>1, <3>4, FS_RemoveElement, FS_CardinalityType
    <3> HIDE DEF y, r
    <3> QED BY <3>2, <3>3, <3>5
  <2> QED BY <2>1, <2>2
<1>4. N = Nat
  <2> HIDE DEF N
  <2>1. N \in SUBSET Nat BY DEF N
  <2> QED BY <1>2, <1>3, <2>1, AllNumbers
<1>5. PICK a : Adds(f, S, a) /\ SumFunction(f) = a[S] BY <1>1, SumAdds
<1>6. Cardinality(S) \in N BY <1>4, FS_CardinalityType
<1>7. S \in Smaller(S, Cardinality(S)) BY SmallerGrows, FS_CardinalityType
<1> QED BY <1>5, <1>6, <1>7 DEF f

(* Pieces <<from, to>> cut a set of instants into intervals on which the   *)
(* term is the same.                                                       *)
Within(p, t) == p[1] <= t /\ t < p[2]
CutInto(Instants, w, Parts, v) ==
    /\ IsFiniteSet(Instants) /\ w \in [Instants -> Int]
    /\ IsFiniteSet(Parts) /\ v \in [Parts -> Int]
    /\ \A p \in Parts : p[1] \in Int /\ p[2] \in Int /\ p[1] < p[2]
    /\ \A p \in Parts : \A t \in p[1]..(p[2] - 1) : t \in Instants /\ w[t] = v[p]
    /\ \A t \in Instants : t \in Int /\ \E p \in Parts : Within(p, t)
    /\ \A p, q \in Parts : \A t \in Instants : Within(p, t) /\ Within(q, t) => p = q

LEMMA SumByIntervals ==
    ASSUME NEW Instants, NEW w, NEW Parts, NEW v, CutInto(Instants, w, Parts, v)
    PROVE  SumFunction(w) = SumFunction([p \in Parts |-> (p[2] - p[1]) * v[p]])
<1> DEFINE u == [p \in Parts |-> (p[2] - p[1]) * v[p]]
           In(s) == {t \in Instants : \E p \in s : Within(p, t)}
<1>1. u \in [Parts -> Int]
  <2>1. \A p \in Parts : p[1] \in Int /\ p[2] \in Int /\ v[p] \in Int BY DEF CutInto
  <2>2. \A i, j, k \in Int : (i - j) * k \in Int OBVIOUS
  <2>3. \A p \in Parts : (p[2] - p[1]) * v[p] \in Int BY <2>1, <2>2
  <2> QED BY <2>3
<1>2. \A p \in Parts : u[p] = (p[2] - p[1]) * v[p] OBVIOUS
<1> HIDE DEF u
<1>3. IsFiniteSet(Instants) /\ IsFiniteSet(Parts) /\ w \in [Instants -> Int] BY DEF CutInto
<1>4. PICK a : Adds(w, Instants, a) /\ SumFunction(w) = a[Instants] BY <1>3, SumAdds
<1>5. PICK b : Adds(u, Parts, b) /\ SumFunction(u) = b[Parts] BY <1>1, <1>3, SumAdds
<1> DEFINE N == {n \in Nat : \A s \in Smaller(Parts, n) : a[In(s)] = b[s]}
<1>6. In({}) = {} /\ a[{}] = 0 /\ b[{}] = 0 BY <1>4, <1>5 DEF Adds
<1>7. 0 \in N BY <1>3, <1>6, SmallerGrows
<1>8. ASSUME NEW n \in N PROVE n + 1 \in N
  <2> SUFFICES ASSUME NEW s \in Smaller(Parts, n + 1), s # {} PROVE a[In(s)] = b[s] BY <1>6
  <2> DEFINE y == Pick(s)  r == s \ {y}
  <2>1. y \in s /\ y \in Parts /\ r \in Smaller(Parts, n) /\ s \in SUBSET Parts /\ n \in Nat
    BY <1>3, LessOne DEF Smaller
  <2>2. a[In(r)] = b[r] BY <2>1
  <2>3. b[s] = (y[2] - y[1]) * v[y] + b[r] BY <1>2, <1>5, <2>1 DEF Adds
  <2>4. y[1] \in Int /\ y[2] \in Int /\ y[1] <= y[2] /\ v[y] \in Int BY <2>1 DEF CutInto
  <2>5. \A t \in y[1]..(y[2] - 1) : t \in Instants /\ t \notin In(r) /\ w[t] = v[y]
    <3> TAKE t \in y[1]..(y[2] - 1)
    <3>1. t \in Instants /\ w[t] = v[y] BY <2>1 DEF CutInto
    <3>2. Within(y, t) BY <2>4 DEF Within
    <3>3. \A p \in r : p \in Parts /\ p # y BY <2>1
    <3>4. \A p \in r : ~Within(p, t)
      <4> HIDE DEF y, r
      <4> QED BY <2>1, <3>1, <3>2, <3>3 DEF CutInto
    <3> QED BY <3>1, <3>4
  <2>6. In(s) = In(r) \cup y[1]..(y[2] - 1)
    <3>1. \A t \in Instants : t \in Int BY DEF CutInto
    <3>2. \A t \in Instants : Within(y, t) <=> t \in y[1]..(y[2] - 1) BY <2>4, <3>1 DEF Within
    <3>3. \A t \in Instants : (\E p \in s : Within(p, t)) <=> Within(y, t) \/ \E p \in r : Within(p, t)
      BY <2>1
    <3>4. \A t \in y[1]..(y[2] - 1) : t \in Instants BY <2>5
    <3> HIDE DEF y, r
    <3> QED BY <3>2, <3>3, <3>4
  <2>7. a[In(s)] = a[In(r)] + (y[2] - y[1]) * v[y]
    <3> DEFINE lo == y[1]  hi == y[2]  c == v[y]  old == In(r)
    <3>1. old \in SUBSET Instants OBVIOUS
    <3>2. lo \in Int /\ hi \in Int /\ lo <= hi /\ c \in Int BY <2>4
    <3>3. \A t \in lo..(hi - 1) : t \in Instants /\ t \notin old /\ w[t] = c BY <2>5
    <3>4. In(s) = old \cup lo..(hi - 1) BY <2>6
    <3> HIDE DEF lo, hi, c, old, In, y, r
    <3>5. AllEqual(Instants, w, old, lo, hi, c) BY <3>2, <3>3 DEF AllEqual
    <3>6. Gains(a, old, lo, hi, c) BY <1>4, <3>1, <3>2, <3>5, AddsInterval
    <3> QED BY <3>4, <3>6 DEF lo, hi, c, old, Gains
  <2>8. a[In(r)] \in Int
    <3>1. In(r) \in SUBSET Instants OBVIOUS
    <3> HIDE DEF In, r
    <3> QED BY <1>4, <3>1 DEF Adds
  <2> DEFINE product == (y[2] - y[1]) * v[y]
  <2>9. product \in Int BY <2>4
  <2> HIDE DEF product, In, y, r
  <2>10. a[In(s)] = a[In(r)] + product /\ b[s] = product + b[r] BY <2>3, <2>7 DEF product
  <2> QED BY <2>2, <2>8, <2>9, <2>10
<1>9. N = Nat
  <2> HIDE DEF N
  <2>1. N \in SUBSET Nat BY DEF N
  <2> QED BY <1>7, <1>8, <2>1, AllNumbers
<1>10. Cardinality(Parts) \in N BY <1>3, <1>9, FS_CardinalityType
<1>11. Parts \in Smaller(Parts, Cardinality(Parts)) BY <1>3, SmallerGrows, FS_CardinalityType
<1>12. In(Parts) = Instants BY DEF CutInto
<1>13. a[Instants] = b[Parts]
  <2>1. a[In(Parts)] = b[Parts] BY <1>10, <1>11
  <2> QED BY <1>12, <2>1
<1> QED BY <1>4, <1>5, <1>13 DEF u
=============================================================================
