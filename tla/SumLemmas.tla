----------------------------- MODULE SumLemmas ------------------------------
(***************************************************************************)
(* Least elements, and sums over finite sets: what SumFunctionOnSet of the *)
(* community module Functions gives, proved from its definition.  The      *)
(* fold is a recursive function over the subsets of a set; that there is   *)
(* such a function, and only one, is shown here by looking at a least set  *)
(* for which it would fail, and so is everything that follows from it.     *)
(***************************************************************************)
EXTENDS Integers, FiniteSets, Functions, FiniteSetTheorems, WellFoundedInduction, TLAPS

\* A set of natural numbers has a least one.
LEMMA LeastOf ==
  ASSUME NEW S, S \subseteq Nat, S # {}
  PROVE  \E m \in S : \A k \in S : m <= k
<1> DEFINE R == OpToRel(<, Nat)
<1>1. PICK m \in S : \A k \in S : ~(<<k, m>> \in R)
  BY NatLessThanWellFounded, WFMin
<1>2. ASSUME NEW k \in S PROVE m <= k
  <2>1. m \in Nat /\ k \in Nat
    OBVIOUS
  <2>2. ~(k < m)
    BY <1>1, <2>1 DEF OpToRel
  <2> QED BY <2>1, <2>2
<1> QED BY <1>2

\* A set that has finite subsets of some kind has a least one of the kind.
LEMMA LeastSubset ==
  ASSUME NEW S, IsFiniteSet(S), NEW C \in SUBSET (SUBSET S), C # {}
  PROVE  \E T \in C : \A U \in SUBSET T : U # T => U \notin C
<1>1. IsWellFoundedOn(StrictSubsetOrdering(S), SUBSET S)
  BY FS_StrictSubsetOrderingWellFounded, FS_FiniteSubsetsOfFinite
<1>2. PICK T \in C : \A U \in C : <<U, T>> \notin StrictSubsetOrdering(S)
  BY <1>1, WFMin
<1>3. ASSUME NEW U \in SUBSET T, U # T, U \in C PROVE FALSE
  BY <1>2, <1>3 DEF StrictSubsetOrdering
<1> QED BY <1>3

\* One step of the fold: an element is chosen and its value added to the sum of the rest.
SumStep(f, g, s) == IF s = {} THEN 0 ELSE f[CHOOSE x \in s : TRUE] + g[s \ {CHOOSE x \in s : TRUE}]

\* g holds the sum of f over every subset of S.
Sums(f, S, g) == g = [s \in SUBSET S |-> SumStep(f, g, s)]

SumsOf(f, S) == CHOOSE g : Sums(f, S, g)

LEMMA SumUnfolded == ASSUME NEW f, NEW S PROVE SumFunctionOnSet(f, S) = SumsOf(f, S)[S]
BY DEF SumFunctionOnSet, FoldFunctionOnSet, MapThenFoldSet, SumStep, Sums, SumsOf

\* Sums are what they are, over whatever set they were taken.
LEMMA SumsAgree ==
  ASSUME NEW f, NEW S, IsFiniteSet(S), NEW T, NEW g, NEW h, Sums(f, S, g), Sums(f, T, h),
         NEW s \in SUBSET S, s \in SUBSET T
  PROVE  g[s] = h[s]
<1> DEFINE C == {u \in SUBSET s : g[u] # h[u]}
<1> SUFFICES ASSUME C # {} PROVE FALSE
  OBVIOUS
<1>1. IsFiniteSet(s)
  BY FS_Subset
<1>a. C \in SUBSET (SUBSET s)
  OBVIOUS
<1> HIDE DEF C
<1>2. PICK u \in C : \A v \in SUBSET u : v # u => v \notin C
  BY <1>1, <1>a, LeastSubset
<1>3. u \in SUBSET s /\ g[u] # h[u]
  BY DEF C
<1>4. g[u] = SumStep(f, g, u) /\ h[u] = SumStep(f, h, u)
  <2>1. u \in SUBSET S /\ u \in SUBSET T
    BY <1>3
  <2>2. \A v \in SUBSET S : g[v] = SumStep(f, g, v)
    BY DEF Sums
  <2>3. \A v \in SUBSET T : h[v] = SumStep(f, h, v)
    BY DEF Sums
  <2> QED BY <2>1, <2>2, <2>3
<1>5. u # {}
  BY <1>3, <1>4 DEF SumStep
<1> DEFINE x == CHOOSE y \in u : TRUE
<1>6. x \in u
  BY <1>5
<1> HIDE DEF x
<1>7. g[u \ {x}] = h[u \ {x}]
  BY <1>2, <1>3, <1>6 DEF C
<1> QED BY <1>3, <1>4, <1>5, <1>7 DEF SumStep, x

\* There are sums over every finite set.
LEMMA SumsExist == ASSUME NEW f, NEW S, IsFiniteSet(S) PROVE Sums(f, S, SumsOf(f, S))
<1> DEFINE C == {s \in SUBSET S : ~Sums(f, s, SumsOf(f, s))}
<1> SUFFICES ASSUME C # {} PROVE FALSE
  OBVIOUS
<1>a. C \in SUBSET (SUBSET S)
  OBVIOUS
<1> HIDE DEF C
<1>1. PICK T \in C : \A u \in SUBSET T : u # T => u \notin C
  BY <1>a, LeastSubset
<1>2. T \in SUBSET S /\ ~Sums(f, T, SumsOf(f, T)) /\ \A u \in SUBSET T : u # T => Sums(f, u, SumsOf(f, u))
  BY <1>1 DEF C
<1> DEFINE part == [u \in SUBSET T |-> SumsOf(f, u)[u]]
           whole == [u \in SUBSET T |-> IF u = T THEN SumStep(f, part, T) ELSE part[u]]
<1>3. ASSUME NEW u \in SUBSET T PROVE whole[u] = SumStep(f, whole, u)
  <2>1. CASE u = T
    <3>1. CASE T = {}
      BY <2>1, <3>1 DEF SumStep
    <3>2. CASE T # {}
      <4> DEFINE x == CHOOSE y \in T : TRUE
      <4>1. x \in T /\ T \ {x} \in SUBSET T /\ T \ {x} # T
        BY <3>2
      <4> HIDE DEF x
      <4>2. whole[T \ {x}] = part[T \ {x}]
        BY <4>1
      <4> HIDE DEF part
      <4>3. whole[T] = SumStep(f, part, T)
        OBVIOUS
      <4> HIDE DEF whole
      <4> QED BY <2>1, <3>2, <4>2, <4>3 DEF SumStep, x
    <3> QED BY <3>1, <3>2
  <2>2. CASE u # T
    <3>1. Sums(f, u, SumsOf(f, u)) /\ whole[u] = SumsOf(f, u)[u]
      BY <1>2, <2>2
    <3>2. SumsOf(f, u)[u] = SumStep(f, SumsOf(f, u), u)
      BY <3>1 DEF Sums
    <3>3. CASE u = {}
      BY <3>1, <3>2, <3>3 DEF SumStep
    <3>4. CASE u # {}
      <4> DEFINE x == CHOOSE y \in u : TRUE
                 rest == u \ {x}
      <4>1. x \in u /\ rest \in SUBSET T /\ rest # T /\ rest \in SUBSET u
        BY <3>4
      <4>2. whole[rest] = SumsOf(f, rest)[rest]
        BY <4>1
      <4>3. Sums(f, rest, SumsOf(f, rest))
        BY <1>2, <4>1
      <4>4. IsFiniteSet(u)
        BY <1>2, FS_Subset
      <4>5. SumsOf(f, u)[rest] = SumsOf(f, rest)[rest]
        <5> HIDE DEF rest
        <5>1. rest \in SUBSET rest
          OBVIOUS
        <5> QED BY <3>1, <4>1, <4>3, <4>4, <5>1, SumsAgree
      <4> HIDE DEF whole
      <4> QED BY <3>1, <3>2, <3>4, <4>2, <4>5 DEF SumStep
    <3> QED BY <3>3, <3>4
  <2> QED BY <2>1, <2>2
<1>4. Sums(f, T, whole)
  <2>1. \A u \in SUBSET T : whole[u] = SumStep(f, whole, u)
    BY <1>3
  <2>2. whole = [u \in SUBSET T |-> whole[u]]
    OBVIOUS
  <2> HIDE DEF whole
  <2>3. [u \in SUBSET T |-> whole[u]] = [u \in SUBSET T |-> SumStep(f, whole, u)]
    BY <2>1
  <2> QED BY <2>2, <2>3 DEF Sums
<1> HIDE DEF whole
<1>5. \E g : Sums(f, T, g)
  BY <1>4
<1> QED BY <1>2, <1>5 DEF SumsOf

LEMMA SumEmpty == ASSUME NEW f PROVE SumFunctionOnSet(f, {}) = 0
<1>1. IsFiniteSet({})
  BY FS_EmptySet
<1>2. Sums(f, {}, SumsOf(f, {}))
  BY <1>1, SumsExist
<1> QED BY <1>2, SumUnfolded DEF Sums, SumStep

\* The element that is chosen first.
LEMMA SumChosen ==
  ASSUME NEW f, NEW S, IsFiniteSet(S), S # {}
  PROVE  \E x \in S : SumFunctionOnSet(f, S) = f[x] + SumFunctionOnSet(f, S \ {x})
<1> DEFINE x == CHOOSE y \in S : TRUE
           rest == S \ {x}
<1>1. x \in S /\ IsFiniteSet(rest) /\ rest \in SUBSET S
  BY FS_Subset
<1>2. Sums(f, S, SumsOf(f, S)) /\ Sums(f, rest, SumsOf(f, rest))
  BY <1>1, SumsExist
<1>3. SumsOf(f, S)[S] = SumStep(f, SumsOf(f, S), S)
  BY <1>2 DEF Sums
<1>4. SumsOf(f, S)[rest] = SumsOf(f, rest)[rest]
  BY <1>1, <1>2, SumsAgree
<1> QED BY <1>1, <1>3, <1>4, SumUnfolded DEF SumStep

-----------------------------------------------------------------------------
LEMMA SumInt ==
  ASSUME NEW f, NEW S, IsFiniteSet(S), \A x \in S : f[x] \in Int
  PROVE  SumFunctionOnSet(f, S) \in Int
<1> DEFINE C == {T \in SUBSET S : SumFunctionOnSet(f, T) \notin Int}
<1>1. C \in SUBSET (SUBSET S) /\ (SumFunctionOnSet(f, S) \notin Int => C # {})
  OBVIOUS
<1>2. \A T : T \in C <=> T \in SUBSET S /\ SumFunctionOnSet(f, T) \notin Int
  OBVIOUS
<1> HIDE DEF C
<1> SUFFICES ASSUME C # {} PROVE FALSE
  BY <1>1
<1>3. PICK T \in C : \A U \in SUBSET T : U # T => U \notin C
  BY <1>1, LeastSubset
<1>4. T # {}
  <2>1. SumFunctionOnSet(f, {}) = 0
    BY SumEmpty
  <2>2. CASE T = {}
    BY <1>2, <2>1, <2>2
  <2> QED BY <2>2
<1>5. IsFiniteSet(T)
  BY <1>2, FS_Subset
<1>6. PICK x \in T : SumFunctionOnSet(f, T) = f[x] + SumFunctionOnSet(f, T \ {x})
  BY <1>4, <1>5, SumChosen
<1>7. SumFunctionOnSet(f, T \ {x}) \in Int /\ f[x] \in Int
  BY <1>2, <1>3
<1> QED BY <1>2, <1>6, <1>7

\* Any element may be the first.
LEMMA SumRemove ==
  ASSUME NEW f, NEW S, IsFiniteSet(S), \A y \in S : f[y] \in Int, NEW x \in S
  PROVE  SumFunctionOnSet(f, S) = f[x] + SumFunctionOnSet(f, S \ {x})
<1> DEFINE splits(T) == \A y \in T : SumFunctionOnSet(f, T) = f[y] + SumFunctionOnSet(f, T \ {y})
           C == {T \in SUBSET S : ~splits(T)}
<1>1. C \in SUBSET (SUBSET S) /\ (~splits(S) => C # {})
  OBVIOUS
<1>2. \A T : T \in C <=> T \in SUBSET S /\ ~splits(T)
  OBVIOUS
<1> HIDE DEF C
<1> SUFFICES ASSUME C # {} PROVE FALSE
  BY <1>1
<1>3. PICK T \in C : \A U \in SUBSET T : U # T => U \notin C
  BY <1>1, LeastSubset
<1>4. PICK y \in T : SumFunctionOnSet(f, T) # f[y] + SumFunctionOnSet(f, T \ {y})
  BY <1>2
<1>5. IsFiniteSet(T) /\ T \subseteq S
  BY <1>2, FS_Subset
<1>6. PICK z \in T : SumFunctionOnSet(f, T) = f[z] + SumFunctionOnSet(f, T \ {z})
  BY <1>4, <1>5, SumChosen
<1>7. z # y
  BY <1>4, <1>6
<1>8. splits(T \ {y}) /\ splits(T \ {z})
  BY <1>2, <1>3
<1>9. /\ SumFunctionOnSet(f, T \ {y}) = f[z] + SumFunctionOnSet(f, (T \ {y}) \ {z})
      /\ SumFunctionOnSet(f, T \ {z}) = f[y] + SumFunctionOnSet(f, (T \ {z}) \ {y})
  BY <1>7, <1>8
<1>10. (T \ {y}) \ {z} = (T \ {z}) \ {y}
  OBVIOUS
<1>11. SumFunctionOnSet(f, (T \ {z}) \ {y}) \in Int /\ f[y] \in Int /\ f[z] \in Int
  <2>1. IsFiniteSet((T \ {z}) \ {y}) /\ \A u \in (T \ {z}) \ {y} : f[u] \in Int
    BY <1>5, FS_Subset
  <2> QED BY <1>5, <2>1, SumInt
<1> DEFINE r == SumFunctionOnSet(f, (T \ {z}) \ {y})
<1>12. SumFunctionOnSet(f, T) = f[z] + (f[y] + r) /\ SumFunctionOnSet(f, T \ {y}) = f[z] + r
  BY <1>6, <1>9, <1>10
<1>13. r \in Int
  BY <1>11
<1> HIDE DEF r
<1> QED BY <1>4, <1>11, <1>12, <1>13

\* Greater values, greater sum.
LEMMA SumMonotone ==
  ASSUME NEW f, NEW g, NEW S, IsFiniteSet(S),
         \A x \in S : f[x] \in Int /\ g[x] \in Int /\ f[x] <= g[x]
  PROVE  SumFunctionOnSet(f, S) <= SumFunctionOnSet(g, S)
<1> DEFINE C == {T \in SUBSET S : ~(SumFunctionOnSet(f, T) <= SumFunctionOnSet(g, T))}
<1>1. C \in SUBSET (SUBSET S) /\ (~(SumFunctionOnSet(f, S) <= SumFunctionOnSet(g, S)) => C # {})
  OBVIOUS
<1>2. \A T : T \in C <=> T \in SUBSET S /\ ~(SumFunctionOnSet(f, T) <= SumFunctionOnSet(g, T))
  OBVIOUS
<1> HIDE DEF C
<1> SUFFICES ASSUME C # {} PROVE FALSE
  BY <1>1
<1>3. PICK T \in C : \A U \in SUBSET T : U # T => U \notin C
  BY <1>1, LeastSubset
<1>4. T # {}
  <2>1. SumFunctionOnSet(f, {}) = 0 /\ SumFunctionOnSet(g, {}) = 0
    BY SumEmpty
  <2>2. CASE T = {}
    BY <1>2, <2>1, <2>2
  <2> QED BY <2>2
<1>5. PICK x \in T : TRUE
  BY <1>4
<1>6. T \subseteq S /\ IsFiniteSet(T) /\ IsFiniteSet(T \ {x})
  BY <1>2, FS_Subset
<1>7. /\ SumFunctionOnSet(f, T) = f[x] + SumFunctionOnSet(f, T \ {x})
      /\ SumFunctionOnSet(g, T) = g[x] + SumFunctionOnSet(g, T \ {x})
  BY <1>6, SumRemove
<1>8. SumFunctionOnSet(f, T \ {x}) \in Int /\ SumFunctionOnSet(g, T \ {x}) \in Int
  BY <1>6, SumInt
<1>9. SumFunctionOnSet(f, T \ {x}) <= SumFunctionOnSet(g, T \ {x})
  BY <1>2, <1>3
<1> QED BY <1>2, <1>6, <1>7, <1>8, <1>9

\* Equal values, equal sum.
LEMMA SumSame ==
  ASSUME NEW f, NEW g, NEW S, IsFiniteSet(S), \A x \in S : f[x] \in Int /\ f[x] = g[x]
  PROVE  SumFunctionOnSet(f, S) = SumFunctionOnSet(g, S)
<1>1. SumFunctionOnSet(f, S) <= SumFunctionOnSet(g, S) /\ SumFunctionOnSet(g, S) <= SumFunctionOnSet(f, S)
  BY SumMonotone
<1>2. SumFunctionOnSet(f, S) \in Int /\ SumFunctionOnSet(g, S) \in Int
  BY SumInt
<1> QED BY <1>1, <1>2

\* A sum of sums.
LEMMA SumPlus ==
  ASSUME NEW f, NEW g, NEW h, NEW S, IsFiniteSet(S),
         \A x \in S : f[x] \in Int /\ g[x] \in Int /\ h[x] = f[x] + g[x]
  PROVE  SumFunctionOnSet(h, S) = SumFunctionOnSet(f, S) + SumFunctionOnSet(g, S)
<1> DEFINE adds(T) == SumFunctionOnSet(h, T) = SumFunctionOnSet(f, T) + SumFunctionOnSet(g, T)
           C == {T \in SUBSET S : ~adds(T)}
<1>1. C \in SUBSET (SUBSET S) /\ (~adds(S) => C # {})
  OBVIOUS
<1>2. \A T : T \in C <=> T \in SUBSET S /\ ~adds(T)
  OBVIOUS
<1> HIDE DEF C
<1> SUFFICES ASSUME C # {} PROVE FALSE
  BY <1>1
<1>3. PICK T \in C : \A U \in SUBSET T : U # T => U \notin C
  BY <1>1, LeastSubset
<1>4. T # {}
  <2>1. SumFunctionOnSet(f, {}) = 0 /\ SumFunctionOnSet(g, {}) = 0 /\ SumFunctionOnSet(h, {}) = 0
    BY SumEmpty
  <2>2. CASE T = {}
    BY <1>2, <2>1, <2>2
  <2> QED BY <2>2
<1>5. PICK x \in T : TRUE
  BY <1>4
<1>6. T \subseteq S /\ IsFiniteSet(T) /\ IsFiniteSet(T \ {x}) /\ \A y \in T : h[y] \in Int
  BY <1>2, FS_Subset
<1>7. /\ SumFunctionOnSet(f, T) = f[x] + SumFunctionOnSet(f, T \ {x})
      /\ SumFunctionOnSet(g, T) = g[x] + SumFunctionOnSet(g, T \ {x})
      /\ SumFunctionOnSet(h, T) = h[x] + SumFunctionOnSet(h, T \ {x})
  BY <1>6, SumRemove
<1>8. SumFunctionOnSet(f, T \ {x}) \in Int /\ SumFunctionOnSet(g, T \ {x}) \in Int
  BY <1>6, SumInt
<1>9. adds(T \ {x})
  BY <1>2, <1>3
<1> QED BY <1>2, <1>6, <1>7, <1>8, <1>9

\* A part comes to no more than the whole, and to as much when what is left out is naught.
LEMMA SumPart ==
  ASSUME NEW f, NEW S, IsFiniteSet(S), NEW T \in SUBSET S, \A x \in S : f[x] \in Int,
         \A x \in S \ T : f[x] >= 0
  PROVE  /\ SumFunctionOnSet(f, T) <= SumFunctionOnSet(f, S)
         /\ (\A x \in S \ T : f[x] = 0) => SumFunctionOnSet(f, T) = SumFunctionOnSet(f, S)
<1> DEFINE zero == \A x \in S \ T : f[x] = 0
           ok(U) == /\ SumFunctionOnSet(f, T) <= SumFunctionOnSet(f, U)
                    /\ zero => SumFunctionOnSet(f, T) = SumFunctionOnSet(f, U)
           C == {U \in SUBSET S : T \subseteq U /\ ~ok(U)}
<1>1. C \in SUBSET (SUBSET S) /\ (~ok(S) => C # {})
  OBVIOUS
<1>2. \A U : U \in C <=> U \in SUBSET S /\ T \subseteq U /\ ~ok(U)
  OBVIOUS
<1> HIDE DEF C
<1> SUFFICES ASSUME C # {} PROVE FALSE
  BY <1>1
<1>3. PICK U \in C : \A V \in SUBSET U : V # U => V \notin C
  BY <1>1, LeastSubset
<1>4. IsFiniteSet(T) /\ SumFunctionOnSet(f, T) \in Int
  BY FS_Subset, SumInt
<1>5. U # T
  BY <1>2, <1>4
<1>6. PICK x \in U : x \notin T
  BY <1>2, <1>5
<1>7. U \subseteq S /\ T \subseteq U \ {x} /\ IsFiniteSet(U) /\ IsFiniteSet(U \ {x})
  BY <1>2, <1>6, FS_Subset
<1>8. SumFunctionOnSet(f, U) = f[x] + SumFunctionOnSet(f, U \ {x})
  BY <1>7, SumRemove
<1>9. SumFunctionOnSet(f, U \ {x}) \in Int /\ f[x] \in Int /\ f[x] >= 0 /\ (zero => f[x] = 0)
  BY <1>6, <1>7, SumInt
<1>10. ok(U \ {x})
  BY <1>2, <1>3, <1>7
<1> QED BY <1>2, <1>4, <1>8, <1>9, <1>10

\* A sum of equal numbers.
LEMMA SumConstant ==
  ASSUME NEW f, NEW S, IsFiniteSet(S), NEW c \in Int, \A x \in S : f[x] = c
  PROVE  SumFunctionOnSet(f, S) = Cardinality(S) * c /\ Cardinality(S) \in Nat
<1> DEFINE ok(T) == SumFunctionOnSet(f, T) = Cardinality(T) * c
           C == {T \in SUBSET S : ~ok(T)}
<1>0. Cardinality(S) \in Nat
  BY FS_CardinalityType
<1>1. C \in SUBSET (SUBSET S) /\ (~ok(S) => C # {})
  OBVIOUS
<1>2. \A T : T \in C <=> T \in SUBSET S /\ ~ok(T)
  OBVIOUS
<1> HIDE DEF C, ok
<1>3. ASSUME C # {} PROVE FALSE
  <2>1. PICK T \in C : \A U \in SUBSET T : U # T => U \notin C
    BY <1>1, <1>3, LeastSubset
  <2>2. T \in SUBSET S /\ ~ok(T)
    BY <1>2, <2>1
  <2>3. IsFiniteSet(T) /\ Cardinality(T) \in Nat
    BY <2>2, FS_Subset, FS_CardinalityType
  <2>4. CASE T = {}
    <3>1. SumFunctionOnSet(f, T) = 0 /\ Cardinality(T) = 0
      BY <2>4, SumEmpty, FS_EmptySet
    <3> QED BY <2>2, <3>1 DEF ok
  <2>5. CASE T # {}
    <3>1. PICK x \in T : TRUE
      BY <2>5
    <3> DEFINE rest == T \ {x}
    <3>2. rest \in SUBSET T /\ rest # T /\ rest \in SUBSET S
      BY <2>2, <3>1
    <3>3. SumFunctionOnSet(f, rest) = Cardinality(rest) * c
      BY <1>2, <2>1, <3>2 DEF ok
    <3>4. \A y \in T : f[y] \in Int
      BY <2>2
    <3>5. SumFunctionOnSet(f, T) = f[x] + SumFunctionOnSet(f, rest)
      BY <2>3, <3>1, <3>4, SumRemove
    <3>6. Cardinality(rest) = Cardinality(T) - 1
      BY <2>3, <3>1, FS_RemoveElement
    <3> HIDE DEF rest
    <3> DEFINE n == Cardinality(T)
    <3>7. f[x] = c /\ n \in Int /\ c + (n - 1) * c = n * c
      BY <2>2, <2>3, <3>1
    <3>8. SumFunctionOnSet(f, T) = n * c
      BY <3>3, <3>5, <3>6, <3>7
    <3> QED BY <2>2, <3>8 DEF ok
  <2> QED BY <2>4, <2>5
<1> QED BY <1>0, <1>1, <1>3 DEF ok

\* A sum of multiples.
LEMMA SumScaled ==
  ASSUME NEW f, NEW g, NEW S, IsFiniteSet(S), NEW c \in Int, \A x \in S : f[x] \in Int /\ g[x] = c * f[x]
  PROVE  SumFunctionOnSet(g, S) = c * SumFunctionOnSet(f, S)
<1> DEFINE ok(T) == SumFunctionOnSet(g, T) = c * SumFunctionOnSet(f, T)
           C == {T \in SUBSET S : ~ok(T)}
<1>1. C \in SUBSET (SUBSET S) /\ (~ok(S) => C # {})
  OBVIOUS
<1>2. \A T : T \in C <=> T \in SUBSET S /\ ~ok(T)
  OBVIOUS
<1> HIDE DEF C, ok
<1>3. ASSUME C # {} PROVE FALSE
  <2>1. PICK T \in C : \A U \in SUBSET T : U # T => U \notin C
    BY <1>1, <1>3, LeastSubset
  <2>2. T \in SUBSET S /\ ~ok(T) /\ IsFiniteSet(T)
    BY <1>2, <2>1, FS_Subset
  <2>3. CASE T = {}
    <3>1. SumFunctionOnSet(f, T) = 0 /\ SumFunctionOnSet(g, T) = 0
      BY <2>3, SumEmpty
    <3> QED BY <2>2, <3>1 DEF ok
  <2>4. CASE T # {}
    <3>1. PICK x \in T : TRUE
      BY <2>4
    <3> DEFINE rest == T \ {x}
    <3>2. rest \in SUBSET T /\ rest # T /\ rest \in SUBSET S /\ IsFiniteSet(rest)
      BY <2>2, <3>1, FS_Subset
    <3>3. SumFunctionOnSet(g, rest) = c * SumFunctionOnSet(f, rest)
      BY <1>2, <2>1, <3>2 DEF ok
    <3>4. \A y \in T : f[y] \in Int /\ g[y] \in Int
      BY <2>2
    <3>5. /\ SumFunctionOnSet(f, T) = f[x] + SumFunctionOnSet(f, rest)
          /\ SumFunctionOnSet(g, T) = g[x] + SumFunctionOnSet(g, rest)
      BY <2>2, <3>1, <3>4, SumRemove
    <3>6. SumFunctionOnSet(f, rest) \in Int
      BY <3>2, <3>4, SumInt
    <3> DEFINE a == f[x]
               b == SumFunctionOnSet(f, rest)
    <3>7. g[x] = c * a /\ a \in Int /\ b \in Int
      BY <2>2, <3>1, <3>6
    <3> HIDE DEF rest, a, b
    <3>8. c * a + c * b = c * (a + b)
      BY <3>7
    <3>9. SumFunctionOnSet(g, T) = c * SumFunctionOnSet(f, T)
      BY <3>3, <3>5, <3>7, <3>8 DEF a, b
    <3> QED BY <2>2, <3>9 DEF ok
  <2> QED BY <2>3, <2>4
<1> QED BY <1>1, <1>3 DEF ok
=============================================================================
