---------------------------- MODULE PplnsProofs ----------------------------
(***************************************************************************)
(* Proofs about the allocation of a reward, for every reward, every set of *)
(* payout addresses and all share counts.  They need finite sums first:    *)
(* the sum of the community modules is a recursive function on the subsets *)
(* of a set; that this function exists, that it is the only one, and that  *)
(* the order of the elements makes no difference is proved here, by        *)
(* induction on finite sets.  The induction is over a set of subsets       *)
(* (SetInduction), so it needs no theorem with an operator for a           *)
(* parameter.                                                              *)
(***************************************************************************)
EXTENDS Pplns, FiniteSetTheorems, FunctionTheorems, WellFoundedInduction, TLAPS

(***************************************************************************)
(* Arithmetic.                                                             *)
(***************************************************************************)
LEMMA ProductNat ==
  ASSUME NEW x \in Nat, NEW y \in Nat
  PROVE  x * y \in Nat
OBVIOUS

LEMMA QuotientNat ==
  ASSUME NEW x \in Nat, NEW y \in Nat \ {0}
  PROVE  x \div y \in Nat
OBVIOUS

LEMMA ProductMonotone ==
  ASSUME NEW x \in Nat, NEW y \in Nat, NEW z \in Nat, y <= z
  PROVE  x * y <= x * z
OBVIOUS

LEMMA QuotientBound ==
  ASSUME NEW x \in Nat, NEW y \in Nat, NEW d \in Nat \ {0}, x <= y * d
  PROVE  x \div d <= y
OBVIOUS

LEMMA Division ==
  ASSUME NEW x \in Nat, NEW d \in Nat \ {0}
  PROVE  /\ x \div d \in Nat /\ x % d \in 0..(d - 1)
         /\ x = d * (x \div d) + (x % d)
OBVIOUS

LEMMA ProductCancels ==
  ASSUME NEW d \in Nat \ {0}, NEW x \in Int, NEW n \in Nat
  PROVE  /\ 0 <= d * x => x \in Nat
         /\ d * x < d * n => x < n
<1>1. ASSUME x \notin Nat PROVE d * x < 0
  <2> DEFINE y == -1 - x
  <2>1. y \in Nat /\ x = -1 - y
    BY <1>1
  <2> HIDE DEF y
  <2>2. d * x = -d - d * y /\ d * y \in Nat
    BY <2>1, ProductNat
  <2> QED BY <2>2
<1>2. ASSUME n <= x PROVE d * n <= d * x
  <2>1. x \in Nat
    BY <1>2
  <2> QED BY <1>2, <2>1, ProductMonotone
<1>3. d * x \in Int /\ d * n \in Int
  OBVIOUS
<1> QED BY <1>1, <1>2, <1>3
-----------------------------------------------------------------------------
(***************************************************************************)
(* Finite sums.                                                            *)
(***************************************************************************)
(* Induction on a finite set: a set P of subsets of S that has a subset     *)
(* whenever it has all the smaller ones has them all.                       *)
LEMMA SetInduction ==
  ASSUME NEW S, IsFiniteSet(S), NEW P,
         \A T \in SUBSET S : (\A U \in SUBSET T : U # T => U \in P) => T \in P
  PROVE  \A T \in SUBSET S : T \in P
<1> DEFINE Bad == {T \in SUBSET S : T \notin P}
<1> SUFFICES ASSUME Bad # {} PROVE FALSE
  OBVIOUS
<1>1. IsWellFoundedOn(StrictSubsetOrdering(S), SUBSET S)
  <2>1. FiniteSubsetsOf(S) = SUBSET S
    BY FS_FiniteSubsetsOfFinite
  <2>2. IsWellFoundedOn(StrictSubsetOrdering(S), FiniteSubsetsOf(S))
    BY FS_StrictSubsetOrderingWellFounded
  <2> QED BY <2>1, <2>2
<1>2. PICK T \in Bad : \A U \in Bad : <<U, T>> \notin StrictSubsetOrdering(S)
  <2>1. Bad \subseteq SUBSET S
    OBVIOUS
  <2> HIDE DEF Bad
  <2> QED BY <1>1, <2>1, WFMin
<1>3. ASSUME NEW U \in SUBSET T, U # T PROVE U \in P
  <2>1. <<U, T>> \in StrictSubsetOrdering(S)
    BY <1>3 DEF StrictSubsetOrdering
  <2> QED BY <1>2, <2>1
<1> QED BY <1>2, <1>3

(* The equation of the recursive function behind SumOver(f, S).             *)
Pick(s) == CHOOSE x \in s : TRUE

IsSum(g, f, S) ==
  g = [s \in SUBSET S |-> IF s = {} THEN 0 ELSE f[Pick(s)] + g[s \ {Pick(s)}]]

LEMMA PickIn == \A s : s # {} => Pick(s) \in s
BY DEF Pick

LEMMA SumsAt ==
  ASSUME NEW S, NEW f, NEW g, IsSum(g, f, S)
  PROVE  /\ g = [s \in SUBSET S |-> g[s]]
         /\ g[{}] = 0
BY DEF IsSum

LEMMA SumsStep ==
  ASSUME NEW S, NEW f, NEW g, IsSum(g, f, S), NEW s \in SUBSET S, s # {}
  PROVE  g[s] = f[Pick(s)] + g[s \ {Pick(s)}]
BY DEF IsSum

LEMMA SumsUnique ==
  ASSUME NEW S, IsFiniteSet(S), NEW f, NEW g, NEW h, IsSum(g, f, S), IsSum(h, f, S)
  PROVE  g = h
<1> DEFINE P == {T \in SUBSET S : g[T] = h[T]}
<1>1. \A T \in SUBSET S : (\A U \in SUBSET T : U # T => U \in P) => T \in P
  <2> SUFFICES ASSUME NEW T \in SUBSET S, \A U \in SUBSET T : U # T => U \in P
               PROVE  g[T] = h[T]
    OBVIOUS
  <2>1. CASE T = {}
    BY <2>1, SumsAt
  <2>2. CASE T # {}
    <3>1. T \ {Pick(T)} \in SUBSET T /\ T \ {Pick(T)} # T
      BY <2>2, PickIn
    <3>2. g[T \ {Pick(T)}] = h[T \ {Pick(T)}]
      BY <3>1
    <3>3. /\ g[T] = f[Pick(T)] + g[T \ {Pick(T)}]
          /\ h[T] = f[Pick(T)] + h[T \ {Pick(T)}]
      <4> HIDE DEF P
      <4> QED BY <2>2, SumsStep
    <3> QED BY <3>2, <3>3
  <2> QED BY <2>1, <2>2
<1>2. \A T \in SUBSET S : T \in P
  <2> HIDE DEF P
  <2> QED BY <1>1, SetInduction, Zenon
<1>3. g = [s \in SUBSET S |-> g[s]]
  BY DEF IsSum
<1>5. h = [s \in SUBSET S |-> h[s]]
  BY DEF IsSum
<1>4. \A s \in SUBSET S : g[s] = h[s]
  BY <1>2
<1> QED BY <1>3, <1>4, <1>5

(* The function on the subsets of a subset.                                 *)
LEMMA SumsRestrict ==
  ASSUME NEW S, NEW f, NEW g, IsSum(g, f, S), NEW T \in SUBSET S
  PROVE  IsSum([s \in SUBSET T |-> g[s]], f, T)
<1>1. \A s \in SUBSET T : s # {} => Pick(s) \in s /\ s \ {Pick(s)} \in SUBSET T
  BY PickIn
<1> QED BY <1>1, SumsAt DEF IsSum

LEMMA SumsExist ==
  ASSUME NEW S, IsFiniteSet(S), NEW f
  PROVE  \E g : IsSum(g, f, S)
<1> DEFINE P == {T \in SUBSET S : \E g : IsSum(g, f, T)}
           G(T) == CHOOSE g : IsSum(g, f, T)
<1>1. ASSUME NEW T \in SUBSET S, \A U \in SUBSET T : U # T => U \in P
      PROVE  \E g : IsSum(g, f, T)
  <2> DEFINE val(s) == IF s = {} THEN 0
                       ELSE f[Pick(s)] + G(s \ {Pick(s)})[s \ {Pick(s)}]
             h == [s \in SUBSET T |-> val(s)]
  <2>1. ASSUME NEW U \in SUBSET T, U # T PROVE IsSum(G(U), f, U)
    BY <1>1, <2>1
  <2>2. ASSUME NEW s \in SUBSET T, s # T PROVE G(s)[s] = val(s)
    <3>1. CASE s = {}
      BY <2>1, <2>2, <3>1, SumsAt
    <3>2. CASE s # {}
      <4> DEFINE u == s \ {Pick(s)}
      <4>1. u \in SUBSET s /\ u # T /\ u \in SUBSET T /\ u \in SUBSET u
        BY <3>2, PickIn
      <4>2. G(s)[s] = f[Pick(s)] + G(s)[u]
        <5>1. IsSum(G(s), f, s)
          BY <2>1, <2>2
        <5> HIDE DEF G
        <5> QED BY <5>1, <3>2, SumsStep
      <4>3. IsSum([v \in SUBSET u |-> G(s)[v]], f, u)
        <5>1. IsSum(G(s), f, s)
          BY <2>1, <2>2
        <5> HIDE DEF G, u
        <5> QED BY <5>1, <4>1, SumsRestrict
      <4>4. IsSum(G(u), f, u)
        BY <2>1, <4>1
      <4>5. IsFiniteSet(u)
        BY <4>1, FS_Subset
      <4>6. G(u) = [v \in SUBSET u |-> G(s)[v]]
        <5> HIDE DEF u, G
        <5> QED BY <4>3, <4>4, <4>5, SumsUnique
      <4>7. G(u)[u] = G(s)[u]
        <5> HIDE DEF u, G
        <5> QED BY <4>6, <4>1
      <4> QED BY <3>2, <4>2, <4>7
    <3> QED BY <3>1, <3>2
  <2>3. ASSUME NEW s \in SUBSET T, s # {}
        PROVE  h[s] = f[Pick(s)] + h[s \ {Pick(s)}]
    <3> DEFINE u == s \ {Pick(s)}
    <3>1. u \in SUBSET T /\ u # T
      BY <2>3, PickIn
    <3>2. h[u] = G(u)[u]
      BY <2>2, <3>1
    <3> QED BY <2>3, <3>2
  <2>4. h[{}] = 0
    OBVIOUS
  <2>5. IsSum(h, f, T)
    <3> HIDE DEF val
    <3>1. h = [s \in SUBSET T |-> h[s]]
      OBVIOUS
    <3> HIDE DEF h
    <3> QED BY <2>3, <2>4, <3>1 DEF IsSum
  <2> QED BY <2>5
<1>2. \A T \in SUBSET S : (\A U \in SUBSET T : U # T => U \in P) => T \in P
  BY <1>1
<1>3. \A T \in SUBSET S : T \in P
  <2> HIDE DEF P
  <2> QED BY <1>2, SetInduction, Zenon
<1> QED BY <1>3

-----------------------------------------------------------------------------
(***************************************************************************)
(* The sum itself.                                                         *)
(***************************************************************************)

LEMMA SumIs ==
  ASSUME NEW S, IsFiniteSet(S), NEW f, NEW g, IsSum(g, f, S)
  PROVE  SumOver(f, S) = g[S]
<1> DEFINE the == CHOOSE h : h = [s \in SUBSET S |->
                                    IF s = {} THEN 0
                                    ELSE f[CHOOSE x \in s : TRUE]
                                           + h[s \ {CHOOSE x \in s : TRUE}]]
<1>1. SumOver(f, S) = the[S]
  BY DEF SumOver, MapThenSumSet, MapThenFoldSet
<1>2. the = CHOOSE h : IsSum(h, f, S)
  BY DEF IsSum, Pick
<1> HIDE DEF the
<1>3. IsSum(the, f, S)
  BY <1>2
<1>4. the = g
  BY <1>3, SumsUnique
<1> QED BY <1>1, <1>4

LEMMA SumEmpty == \A f : SumOver(f, {}) = 0
<1> TAKE f
<1>1. IsFiniteSet({})
  BY FS_EmptySet
<1>2. PICK g : IsSum(g, f, {})
  BY <1>1, SumsExist
<1> QED BY <1>1, <1>2, SumIs, SumsAt

(* The sum is the picked element and the rest.                              *)
LEMMA SumPicked ==
  ASSUME NEW S, IsFiniteSet(S), S # {}, NEW f
  PROVE  SumOver(f, S) = f[Pick(S)] + SumOver(f, S \ {Pick(S)})
<1> DEFINE T == S \ {Pick(S)}
<1>1. PICK g : IsSum(g, f, S)
  BY SumsExist
<1>2. S \in SUBSET S /\ T \in SUBSET S /\ IsFiniteSet(T) /\ T \in SUBSET T
  BY FS_Subset
<1> HIDE DEF T
<1>3. IsSum([s \in SUBSET T |-> g[s]], f, T)
  BY <1>1, <1>2, SumsRestrict
<1>4. SumOver(f, T) = [s \in SUBSET T |-> g[s]][T]
  BY <1>2, <1>3, SumIs
<1>5. SumOver(f, T) = g[T]
  BY <1>2, <1>4
<1>6. SumOver(f, S) = g[S]
  BY <1>1, SumIs
<1>7. g[S] = f[Pick(S)] + g[T]
  BY <1>1, <1>2, SumsStep DEF T
<1> QED BY <1>5, <1>6, <1>7 DEF T

(* A sum of integers is an integer, and one of naturals a natural.          *)
LEMMA SumType ==
  ASSUME NEW S, IsFiniteSet(S), NEW f, NEW N, N = Int \/ N = Nat,
         \A x \in S : f[x] \in N
  PROVE  \A T \in SUBSET S : SumOver(f, T) \in N
<1> DEFINE P == {T \in SUBSET S : SumOver(f, T) \in N}
<1>1. ASSUME NEW T \in SUBSET S, \A U \in SUBSET T : U # T => U \in P
      PROVE  T \in P
  <2>1. CASE T = {}
    BY <2>1, SumEmpty
  <2>2. CASE T # {}
    <3>1. IsFiniteSet(T) /\ Pick(T) \in S
      BY <2>2, PickIn, FS_Subset
    <3>2. T \ {Pick(T)} \in P
      <4>1. T \ {Pick(T)} # T
        BY <2>2, PickIn
      <4> QED BY <1>1, <4>1
    <3>3. SumOver(f, T) = f[Pick(T)] + SumOver(f, T \ {Pick(T)})
      BY <2>2, <3>1, SumPicked
    <3>4. f[Pick(T)] \in N /\ SumOver(f, T \ {Pick(T)}) \in N
      BY <3>1, <3>2
    <3> QED BY <3>3, <3>4
  <2> QED BY <2>1, <2>2
<1>2. \A T \in SUBSET S : T \in P
  <2> HIDE DEF P
  <2> QED BY <1>1, SetInduction, Zenon
<1> QED BY <1>2

LEMMA SumInt ==
  ASSUME NEW S, IsFiniteSet(S), NEW f, \A x \in S : f[x] \in Int
  PROVE  \A T \in SUBSET S : SumOver(f, T) \in Int
<1> DEFINE N == Int
<1>1. N = Int \/ N = Nat
  OBVIOUS
<1>2. \A x \in S : f[x] \in N
  OBVIOUS
<1>3. \A T \in SUBSET S : SumOver(f, T) \in N
  <2> HIDE DEF N
  <2> QED BY <1>1, <1>2, SumType
<1> QED BY <1>3

LEMMA SumNat ==
  ASSUME NEW S, IsFiniteSet(S), NEW f, \A x \in S : f[x] \in Nat
  PROVE  \A T \in SUBSET S : SumOver(f, T) \in Nat
<1> DEFINE N == Nat
<1>1. N = Int \/ N = Nat
  OBVIOUS
<1>2. \A x \in S : f[x] \in N
  OBVIOUS
<1>3. \A T \in SUBSET S : SumOver(f, T) \in N
  <2> HIDE DEF N
  <2> QED BY <1>1, <1>2, SumType
<1> QED BY <1>3

(* Any element can be taken out of the sum, not only the picked one.        *)
LEMMA SumRemove ==
  ASSUME NEW S, IsFiniteSet(S), NEW f, \A x \in S : f[x] \in Int, NEW x \in S
  PROVE  SumOver(f, S) = f[x] + SumOver(f, S \ {x})
<1> DEFINE P == {T \in SUBSET S : \A y \in T : SumOver(f, T) = f[y] + SumOver(f, T \ {y})}
<1>1. ASSUME NEW T \in SUBSET S, \A U \in SUBSET T : U # T => U \in P
      PROVE  T \in P
  <2> SUFFICES ASSUME NEW y \in T
               PROVE  SumOver(f, T) = f[y] + SumOver(f, T \ {y})
    OBVIOUS
  <2> DEFINE p == Pick(T)
  <2>1. IsFiniteSet(T) /\ p \in T
    BY PickIn, FS_Subset
  <2>2. SumOver(f, T) = f[p] + SumOver(f, T \ {p})
    BY <2>1, SumPicked
  <2>3. CASE y = p
    BY <2>2, <2>3
  <2>4. CASE y # p
    <3> HIDE DEF p
    <3>1. T \ {p} \in P /\ T \ {y} \in P
      BY <1>1, <2>1
    <3>2. SumOver(f, T \ {p}) = f[y] + SumOver(f, (T \ {p}) \ {y})
      BY <2>4, <3>1
    <3>3. SumOver(f, T \ {y}) = f[p] + SumOver(f, (T \ {y}) \ {p})
      BY <2>1, <2>4, <3>1
    <3>4. (T \ {p}) \ {y} = (T \ {y}) \ {p}
      OBVIOUS
    <3>5. SumOver(f, (T \ {y}) \ {p}) \in Int /\ f[p] \in Int /\ f[y] \in Int
      <4>1. (T \ {y}) \ {p} \in SUBSET S
        OBVIOUS
      <4> QED BY <2>1, <4>1, SumInt
    <3> DEFINE R == SumOver(f, (T \ {y}) \ {p})
    <3>6. SumOver(f, T) = f[p] + (f[y] + R)
      BY <2>2, <3>2, <3>4
    <3>7. SumOver(f, T \ {y}) = f[p] + R
      BY <3>3
    <3>8. R \in Int
      BY <3>5
    <3> HIDE DEF R, P
    <3> QED BY <3>5, <3>6, <3>7, <3>8
  <2> QED BY <2>3, <2>4
<1>2. \A T \in SUBSET S : T \in P
  <2> HIDE DEF P
  <2> QED BY <1>1, SetInduction, Zenon
<1> QED BY <1>2

(* The sum depends only on the values at the elements.                      *)
LEMMA SumSame ==
  ASSUME NEW S, IsFiniteSet(S), NEW f, NEW g, \A x \in S : f[x] = g[x]
  PROVE  SumOver(f, S) = SumOver(g, S)
<1> DEFINE P == {T \in SUBSET S : SumOver(f, T) = SumOver(g, T)}
<1>1. ASSUME NEW T \in SUBSET S, \A U \in SUBSET T : U # T => U \in P
      PROVE  T \in P
  <2>1. CASE T = {}
    BY <2>1, SumEmpty
  <2>2. CASE T # {}
    <3> DEFINE p == Pick(T)
    <3>1. IsFiniteSet(T) /\ p \in T
      BY <2>2, PickIn, FS_Subset
    <3>2. T \ {p} \in P
      BY <1>1, <3>1
    <3>3. SumOver(f, T) = f[p] + SumOver(f, T \ {p})
      BY <2>2, <3>1, SumPicked
    <3>4. SumOver(g, T) = g[p] + SumOver(g, T \ {p})
      BY <2>2, <3>1, SumPicked
    <3> HIDE DEF p
    <3> QED BY <3>1, <3>2, <3>3, <3>4
  <2> QED BY <2>1, <2>2
<1>2. \A T \in SUBSET S : T \in P
  <2> HIDE DEF P
  <2> QED BY <1>1, SetInduction, Zenon
<1> QED BY <1>2

(* Changing one value changes the sum by as much.                           *)
LEMMA SumUpdate ==
  ASSUME NEW S, IsFiniteSet(S), NEW f, NEW g, NEW x \in S,
         \A y \in S : f[y] \in Int /\ g[y] \in Int,
         \A y \in S : y # x => f[y] = g[y]
  PROVE  SumOver(g, S) = SumOver(f, S) + (g[x] - f[x])
<1>1. SumOver(g, S) = g[x] + SumOver(g, S \ {x})
  BY SumRemove
<1>2. SumOver(f, S) = f[x] + SumOver(f, S \ {x})
  BY SumRemove
<1>3. SumOver(f, S \ {x}) = SumOver(g, S \ {x})
  <2>1. IsFiniteSet(S \ {x}) /\ \A y \in S \ {x} : f[y] = g[y]
    BY FS_Subset
  <2> QED BY <2>1, SumSame
<1>4. SumOver(f, S \ {x}) \in Int
  BY SumInt
<1> QED BY <1>1, <1>2, <1>3, <1>4

(* A new element adds its value.                                            *)
LEMMA SumAdd ==
  ASSUME NEW S, IsFiniteSet(S), NEW x, x \notin S, NEW f,
         \A y \in S \cup {x} : f[y] \in Int
  PROVE  SumOver(f, S \cup {x}) = f[x] + SumOver(f, S)
<1>1. IsFiniteSet(S \cup {x}) /\ (S \cup {x}) \ {x} = S
  BY FS_AddElement
<1>2. x \in S \cup {x}
  OBVIOUS
<1> DEFINE T == S \cup {x}
<1>3. SumOver(f, T) = f[x] + SumOver(f, T \ {x})
  <2>1. IsFiniteSet(T) /\ x \in T /\ \A y \in T : f[y] \in Int
    BY <1>1
  <2> HIDE DEF T
  <2> QED BY <2>1, SumRemove
<1> QED BY <1>1, <1>3

(* The sum of a linear combination.                                         *)
LEMMA SumLinear ==
  ASSUME NEW S, IsFiniteSet(S), NEW f, NEW g, NEW h, NEW c \in Int,
         \A x \in S : f[x] \in Int /\ g[x] \in Int /\ h[x] = c * f[x] + g[x]
  PROVE  SumOver(h, S) = c * SumOver(f, S) + SumOver(g, S)
<1> DEFINE P == {T \in SUBSET S : SumOver(h, T) = c * SumOver(f, T) + SumOver(g, T)}
<1>1. ASSUME NEW T \in SUBSET S, \A U \in SUBSET T : U # T => U \in P
      PROVE  T \in P
  <2>1. CASE T = {}
    BY <2>1, SumEmpty
  <2>2. CASE T # {}
    <3> DEFINE p == Pick(T)
               F == SumOver(f, T \ {p})
               G == SumOver(g, T \ {p})
    <3>1. IsFiniteSet(T) /\ p \in T
      BY <2>2, PickIn, FS_Subset
    <3>2. SumOver(h, T \ {p}) = c * F + G
      BY <1>1, <3>1
    <3>3. /\ SumOver(f, T) = f[p] + F
          /\ SumOver(g, T) = g[p] + G
          /\ SumOver(h, T) = h[p] + SumOver(h, T \ {p})
      BY <2>2, <3>1, SumPicked
    <3>4. F \in Int /\ G \in Int
      BY SumInt
    <3> HIDE DEF p, F, G
    <3>5. f[p] \in Int /\ g[p] \in Int /\ h[p] = c * f[p] + g[p]
      BY <3>1
    <3>6. (c * f[p] + g[p]) + (c * F + G) = c * (f[p] + F) + (g[p] + G)
      BY <3>4, <3>5
    <3> QED BY <3>2, <3>3, <3>5, <3>6
  <2> QED BY <2>1, <2>2
<1>2. \A T \in SUBSET S : T \in P
  <2> HIDE DEF P
  <2> QED BY <1>1, SetInduction, Zenon
<1> QED BY <1>2

(* The number of elements of S in A is the sum of the indicator of A.       *)
LEMMA SumCounts ==
  ASSUME NEW S, IsFiniteSet(S), NEW A, NEW f,
         \A x \in S : f[x] = IF x \in A THEN 1 ELSE 0
  PROVE  SumOver(f, S) = Cardinality(S \cap A)
<1> DEFINE P == {T \in SUBSET S : SumOver(f, T) = Cardinality(T \cap A)}
<1>1. ASSUME NEW T \in SUBSET S, \A U \in SUBSET T : U # T => U \in P
      PROVE  T \in P
  <2>1. CASE T = {}
    BY <2>1, SumEmpty, FS_EmptySet
  <2>2. CASE T # {}
    <3> DEFINE p == Pick(T)
    <3>1. IsFiniteSet(T) /\ p \in T
      BY <2>2, PickIn, FS_Subset
    <3>2. SumOver(f, T \ {p}) = Cardinality((T \ {p}) \cap A)
      BY <1>1, <3>1
    <3>3. SumOver(f, T) = f[p] + SumOver(f, T \ {p})
      BY <2>2, <3>1, SumPicked
    <3> HIDE DEF p
    <3>4. IsFiniteSet(T \cap A) /\ Cardinality(T \cap A) \in Nat
      BY <3>1, FS_Subset, FS_CardinalityType
    <3>5. CASE p \in A
      <4>1. (T \ {p}) \cap A = (T \cap A) \ {p} /\ p \in T \cap A
        BY <3>1, <3>5
      <4>2. Cardinality((T \cap A) \ {p}) = Cardinality(T \cap A) - 1
        BY <4>1, <3>4, FS_RemoveElement
      <4>3. f[p] = 1
        BY <3>1, <3>5
      <4>4. Cardinality((T \ {p}) \cap A) = Cardinality(T \cap A) - 1
        BY <4>1, <4>2
      <4>5. SumOver(f, T) = 1 + (Cardinality(T \cap A) - 1)
        BY <3>2, <3>3, <4>3, <4>4
      <4> QED BY <3>4, <4>5
    <3>6. CASE p \notin A
      <4>1. (T \ {p}) \cap A = T \cap A
        BY <3>6
      <4>2. f[p] = 0
        BY <3>1, <3>6
      <4>3. SumOver(f, T) = 0 + Cardinality(T \cap A)
        BY <3>2, <3>3, <4>1, <4>2
      <4> QED BY <3>4, <4>3
    <3> QED BY <3>5, <3>6
  <2> QED BY <2>1, <2>2
<1>2. \A T \in SUBSET S : T \in P
  <2> HIDE DEF P
  <2> QED BY <1>1, SetInduction, Zenon
<1> QED BY <1>2

(* A sum of values up to c.                                                 *)
LEMMA SumBounded ==
  ASSUME NEW S, IsFiniteSet(S), NEW f, NEW c \in Nat, \A x \in S : f[x] \in 0..c
  PROVE  SumOver(f, S) \in Nat /\ SumOver(f, S) <= c * Cardinality(S)
<1> DEFINE P == {T \in SUBSET S : SumOver(f, T) <= c * Cardinality(T)}
<1>1. ASSUME NEW T \in SUBSET S, \A U \in SUBSET T : U # T => U \in P
      PROVE  T \in P
  <2>1. CASE T = {}
    BY <2>1, SumEmpty, FS_EmptySet
  <2>2. CASE T # {}
    <3> DEFINE p == Pick(T)
    <3>1. IsFiniteSet(T) /\ p \in T /\ IsFiniteSet(T \ {p})
      BY <2>2, PickIn, FS_Subset
    <3>2. SumOver(f, T \ {p}) <= c * Cardinality(T \ {p})
      BY <1>1, <3>1
    <3>3. SumOver(f, T) = f[p] + SumOver(f, T \ {p})
      BY <2>2, <3>1, SumPicked
    <3>4. SumOver(f, T \ {p}) \in Nat
      BY SumNat
    <3> HIDE DEF p
    <3>5. /\ Cardinality(T \ {p}) = Cardinality(T) - 1
          /\ Cardinality(T) \in Nat /\ Cardinality(T \ {p}) \in Nat
      BY <3>1, FS_RemoveElement, FS_CardinalityType
    <3>6. f[p] \in 0..c
      BY <3>1
    <3> DEFINE n == Cardinality(T \ {p})
               F == SumOver(f, T \ {p})
    <3>7. F \in Nat /\ n \in Nat /\ F <= c * n /\ Cardinality(T) = n + 1
      BY <3>2, <3>4, <3>5
    <3> HIDE DEF n, F
    <3>8. f[p] + F <= c * (n + 1)
      BY <3>6, <3>7
    <3> QED BY <3>3, <3>7, <3>8 DEF F
  <2> QED BY <2>1, <2>2
<1>2. \A T \in SUBSET S : T \in P
  <2> HIDE DEF P
  <2> QED BY <1>1, SetInduction, Zenon
<1>3. SumOver(f, S) \in Nat
  BY SumNat
<1> QED BY <1>2, <1>3

(* Counting W by the value of k counts all of W.                            *)
LEMMA SumOfFibres ==
  ASSUME NEW W, IsFiniteSet(W), NEW R, IsFiniteSet(R), NEW k \in [W -> R]
  PROVE  SumOver([a \in R |-> Cardinality({s \in W : k[s] = a})], R) = Cardinality(W)
<1> DEFINE at(V, a) == {s \in V : k[s] = a}
           count(V) == [a \in R |-> Cardinality(at(V, a))]
           P == {V \in SUBSET W : SumOver(count(V), R) = Cardinality(V)}
<1>0. \A V \in SUBSET W : /\ IsFiniteSet(V) /\ Cardinality(V) \in Nat
                          /\ \A a \in R : /\ IsFiniteSet(at(V, a))
                                          /\ Cardinality(at(V, a)) \in Nat
  BY FS_Subset, FS_CardinalityType
<1>1. ASSUME NEW V \in SUBSET W, \A U \in SUBSET V : U # V => U \in P
      PROVE  V \in P
  <2>1. CASE V = {}
    <3>1. \A a \in R : count(V)[a] \in 0..0
      BY <2>1, FS_EmptySet
    <3>2. SumOver(count(V), R) <= 0 * Cardinality(R) /\ SumOver(count(V), R) \in Nat
      <4> HIDE DEF count
      <4> QED BY <3>1, SumBounded
    <3>3. Cardinality(R) \in Nat
      BY FS_CardinalityType
    <3>4. SumOver(count(V), R) = 0
      <4> HIDE DEF count
      <4> QED BY <3>2, <3>3
    <3> QED BY <2>1, <3>4, FS_EmptySet
  <2>2. CASE V # {}
    <3> DEFINE p == Pick(V)
               U == V \ {p}
               f == count(U)
               g == count(V)
    <3>1. p \in V /\ k[p] \in R /\ U \in SUBSET W
      BY <2>2, PickIn
    <3>2. SumOver(f, R) = Cardinality(U)
      BY <1>1, <3>1
    <3>3. Cardinality(U) = Cardinality(V) - 1
      BY <3>1, <1>0, FS_RemoveElement
    <3>4. \A y \in R : f[y] \in Int /\ g[y] \in Int
      BY <1>0, <3>1
    <3>5. \A y \in R : y # k[p] => f[y] = g[y]
      <4> SUFFICES ASSUME NEW y \in R, y # k[p] PROVE at(U, y) = at(V, y)
        OBVIOUS
      <4> QED OBVIOUS
    <3>6. g[k[p]] - f[k[p]] = 1
      <4>1. at(U, k[p]) = at(V, k[p]) \ {p} /\ p \in at(V, k[p])
        BY <3>1
      <4>2. Cardinality(at(V, k[p]) \ {p}) = Cardinality(at(V, k[p])) - 1
        <5> HIDE DEF at, p
        <5> QED BY <1>0, <3>1, <4>1, FS_RemoveElement
      <4>3. Cardinality(at(V, k[p])) \in Nat
        BY <1>0, <3>1
      <4>4. f[k[p]] = Cardinality(at(V, k[p])) - 1 /\ g[k[p]] = Cardinality(at(V, k[p]))
        BY <3>1, <4>1, <4>2
      <4> QED BY <4>3, <4>4
    <3>7. SumOver(g, R) = SumOver(f, R) + (g[k[p]] - f[k[p]])
      <4> HIDE DEF f, g, p
      <4> QED BY <3>1, <3>4, <3>5, SumUpdate
    <3>8. Cardinality(V) \in Nat
      BY <1>0
    <3>9. SumOver(g, R) = Cardinality(V)
      <4> HIDE DEF f, g, p, U
      <4> QED BY <3>2, <3>3, <3>6, <3>7, <3>8
    <3> QED BY <3>9
  <2> QED BY <2>1, <2>2
<1>2. \A V \in SUBSET W : V \in P
  <2> HIDE DEF P
  <2> QED BY <1>1, SetInduction, Zenon
<1> QED BY <1>2


(* Elements whose value is 0 do not count.                                  *)
LEMMA SumSupport ==
  ASSUME NEW S, IsFiniteSet(S), NEW R \in SUBSET S, NEW f,
         \A x \in S : f[x] \in Int, \A x \in S \ R : f[x] = 0
  PROVE  SumOver(f, S) = SumOver(f, R)
<1> DEFINE P == {T \in SUBSET S : SumOver(f, T) = SumOver(f, T \cap R)}
<1>1. ASSUME NEW T \in SUBSET S, \A U \in SUBSET T : U # T => U \in P
      PROVE  T \in P
  <2>1. CASE T = {}
    <3>1. T \cap R = T
      BY <2>1
    <3> QED BY <3>1
  <2>2. CASE T # {}
    <3> DEFINE p == Pick(T)
    <3>1. IsFiniteSet(T) /\ p \in T
      BY <2>2, PickIn, FS_Subset
    <3>2. SumOver(f, T \ {p}) = SumOver(f, (T \ {p}) \cap R)
      BY <1>1, <3>1
    <3>3. SumOver(f, T) = f[p] + SumOver(f, T \ {p})
      BY <2>2, <3>1, SumPicked
    <3> HIDE DEF p
    <3>4. CASE p \in R
      <4>1. (T \ {p}) \cap R = (T \cap R) \ {p} /\ p \in T \cap R
        BY <3>1, <3>4
      <4>2. IsFiniteSet(T \cap R) /\ \A x \in T \cap R : f[x] \in Int
        BY <3>1, FS_Subset
      <4>3. SumOver(f, T \cap R) = f[p] + SumOver(f, (T \cap R) \ {p})
        BY <4>1, <4>2, SumRemove
      <4>4. SumOver(f, T) = SumOver(f, T \cap R)
        BY <3>2, <3>3, <4>1, <4>3
      <4> QED BY <4>4
    <3>5. CASE p \notin R
      <4>1. (T \ {p}) \cap R = T \cap R /\ f[p] = 0
        BY <3>1, <3>5
      <4>2. SumOver(f, T \ {p}) = SumOver(f, T \cap R)
        BY <3>2, <4>1
      <4>3. SumOver(f, T \ {p}) \in Int
        BY SumInt
      <4>4. SumOver(f, T) = SumOver(f, T \ {p})
        BY <3>3, <4>1, <4>3
      <4> QED BY <4>2, <4>4
    <3> QED BY <3>4, <3>5
  <2> QED BY <2>1, <2>2
<1>2. \A T \in SUBSET S : T \in P
  <2> HIDE DEF P
  <2> QED BY <1>1, SetInduction, Zenon
<1>3. S \cap R = R
  OBVIOUS
<1> QED BY <1>2, <1>3

(* A sum grows with its values.                                             *)
LEMMA SumLeq ==
  ASSUME NEW S, IsFiniteSet(S), NEW f, NEW g,
         \A x \in S : f[x] \in Int /\ g[x] \in Int /\ f[x] <= g[x]
  PROVE  SumOver(f, S) <= SumOver(g, S)
<1> DEFINE d == [x \in S |-> g[x] - f[x]]
<1>1. 1 \in Int /\ \A x \in S : f[x] \in Int /\ d[x] \in Int /\ g[x] = 1 * f[x] + d[x]
  OBVIOUS
<1>2. \A x \in S : d[x] \in Nat
  OBVIOUS
<1> HIDE DEF d
<1>3. SumOver(g, S) = 1 * SumOver(f, S) + SumOver(d, S)
  BY <1>1, SumLinear
<1>4. SumOver(d, S) \in Nat /\ SumOver(f, S) \in Int
  BY <1>2, SumNat, SumInt
<1> QED BY <1>3, <1>4
-----------------------------------------------------------------------------
(***************************************************************************)
(* The allocation.                                                         *)
(***************************************************************************)

(* What the query of credit_pplns_reward returns: payout addresses with     *)
(* their counts, and the sum of the counts.                                 *)
CountedShares(D, counts, total) ==
  /\ IsFiniteSet(D) /\ D \subseteq Nat
  /\ counts \in [D -> Nat]
  /\ total \in Nat \ {0}
  /\ SumOver(counts, D) = total

(* The floors and remainders add up: what the floors leave over is what the *)
(* remainders sum to, so it is less than one satoshi an address.            *)
LEMMA LeftOverIs ==
  ASSUME NEW D, NEW counts, NEW total, CountedShares(D, counts, total), NEW gross \in Nat
  PROVE  /\ LeftOver(gross, counts, total) \in Nat
         /\ LeftOver(gross, counts, total) < Cardinality(D)
         /\ total * LeftOver(gross, counts, total)
              = SumOver([a \in D |-> Remainder(gross, counts, total, a)], D)
<1> DEFINE floor == [a \in D |-> FloorPart(gross, counts, total, a)]
           rest == [a \in D |-> Remainder(gross, counts, total, a)]
           exact == [a \in D |-> gross * counts[a]]
           none == [a \in D |-> 0]
           L == LeftOver(gross, counts, total)
           F == SumOver(floor, D)
           R == SumOver(rest, D)
           n == Cardinality(D)
<1>1. /\ IsFiniteSet(D) /\ D \subseteq Nat /\ counts \in [D -> Nat]
      /\ total \in Nat \ {0} /\ SumOver(counts, D) = total
  BY DEF CountedShares
<1>2. \A a \in D : /\ floor[a] \in Nat /\ rest[a] \in 0..(total - 1)
                   /\ exact[a] \in Nat /\ exact[a] = total * floor[a] + rest[a]
  <2> SUFFICES ASSUME NEW a \in D
               PROVE  /\ floor[a] \in Nat /\ rest[a] \in 0..(total - 1)
                      /\ exact[a] \in Nat /\ exact[a] = total * floor[a] + rest[a]
    OBVIOUS
  <2>1. exact[a] \in Nat
    BY <1>1, ProductNat
  <2>2. floor[a] = exact[a] \div total /\ rest[a] = exact[a] % total
    BY DEF FloorPart, Remainder
  <2> HIDE DEF floor, rest, exact
  <2> QED BY <1>1, <2>1, <2>2, Division
<1>3. SumOver(exact, D) = total * F + R
  <2> HIDE DEF floor, rest, exact
  <2>1. \A a \in D : floor[a] \in Int /\ rest[a] \in Int /\ exact[a] = total * floor[a] + rest[a]
    BY <1>1, <1>2
  <2>2. IsFiniteSet(D) /\ total \in Int
    BY <1>1
  <2> QED BY <2>1, <2>2, SumLinear
<1>4. SumOver(exact, D) = gross * total
  <2>1. \A a \in D : counts[a] \in Int /\ none[a] \in Int /\ exact[a] = gross * counts[a] + none[a]
    BY <1>1, ProductNat
  <2>2. SumOver(exact, D) = gross * SumOver(counts, D) + SumOver(none, D)
    <3>1. IsFiniteSet(D) /\ gross \in Int
      BY <1>1
    <3> HIDE DEF exact, none
    <3> QED BY <2>1, <3>1, SumLinear
  <2>3. \A a \in D : none[a] \in 0..0
    OBVIOUS
  <2>4. SumOver(none, D) \in Nat /\ SumOver(none, D) <= 0 * n /\ n \in Nat
    <3> HIDE DEF none
    <3> QED BY <1>1, <2>3, SumBounded, FS_CardinalityType
  <2>5. SumOver(none, D) = 0
    <3> HIDE DEF none, n
    <3> QED BY <2>4
  <2>6. gross * total \in Nat
    BY <1>1, ProductNat
  <2> QED BY <1>1, <2>2, <2>5, <2>6
<1>5. F \in Nat /\ L = gross - F
  <2>1. DOMAIN counts = D
    BY <1>1
  <2>2. F \in Nat
    <3> HIDE DEF floor
    <3> QED BY <1>1, <1>2, SumNat
  <2> QED BY <2>1, <2>2 DEF LeftOver
<1>6. R \in Nat /\ R <= (total - 1) * n /\ n \in Nat
  <2> HIDE DEF rest
  <2>1. total - 1 \in Nat
    BY <1>1
  <2> QED BY <1>1, <1>2, <2>1, SumBounded, FS_CardinalityType
<1>7. n > 0
  <2>1. D # {}
    BY <1>1, SumEmpty
  <2> QED BY <1>1, <1>6, <2>1, FS_EmptySet
<1> HIDE DEF F, R, L, n, floor, rest, exact
<1>8. total * L = R
  BY <1>1, <1>3, <1>4, <1>5, <1>6
<1>9. (total - 1) * n < total * n
  BY <1>1, <1>6, <1>7
<1>10. 0 <= total * L /\ total * L < total * n
  BY <1>1, <1>6, <1>8, <1>9
<1>11. L \in Int
  BY <1>5
<1>12. L \in Nat /\ L < n
  BY <1>1, <1>6, <1>10, <1>11, ProductCancels
<1> QED BY <1>8, <1>12 DEF L, R, rest, n

(* The sort key orders the addresses totally.                               *)
LEMMA PrecedesOrders ==
  ASSUME NEW D, NEW counts, NEW total, CountedShares(D, counts, total), NEW gross \in Nat,
         NEW a \in D, NEW b \in D, NEW c \in D
  PROVE  /\ ~Precedes(gross, counts, total, a, a)
         /\ a # b => \/ Precedes(gross, counts, total, a, b)
                     \/ Precedes(gross, counts, total, b, a)
         /\ /\ Precedes(gross, counts, total, a, b)
            /\ Precedes(gross, counts, total, b, c)
            => Precedes(gross, counts, total, a, c)
<1> DEFINE r(x) == Remainder(gross, counts, total, x)
<1>1. \A x \in D : x \in Nat /\ r(x) \in Nat
  <2> SUFFICES ASSUME NEW x \in D PROVE x \in Nat /\ r(x) \in Nat
    OBVIOUS
  <2>1. x \in Nat /\ counts[x] \in Nat /\ total \in Nat \ {0}
    BY DEF CountedShares
  <2>2. gross * counts[x] \in Nat
    BY <2>1, ProductNat
  <2> QED BY <2>1, <2>2, Division DEF Remainder
<1>2. \A x, y : Precedes(gross, counts, total, x, y) <=> r(x) > r(y) \/ (r(x) = r(y) /\ x < y)
  BY DEF Precedes
<1> HIDE DEF r
<1> QED BY <1>1, <1>2

(* No two addresses have the same place in the sorted list.                 *)
LEMMA RankIs ==
  ASSUME NEW D, NEW counts, NEW total, CountedShares(D, counts, total), NEW gross \in Nat
  PROVE  [a \in D |-> Rank(gross, counts, total, a)]
           \in Bijection(D, 0..(Cardinality(D) - 1))
<1> DEFINE before(a) == {b \in D : Precedes(gross, counts, total, b, a)}
           rank == [a \in D |-> Rank(gross, counts, total, a)]
           n == Cardinality(D)
<1>1. IsFiniteSet(D) /\ DOMAIN counts = D /\ n \in Nat
  BY FS_CardinalityType DEF CountedShares
<1>2. \A a \in D : rank[a] = Cardinality(before(a))
  BY <1>1 DEF Rank
<1>3. \A a \in D : IsFiniteSet(before(a)) /\ Cardinality(before(a)) \in Nat
  BY <1>1, FS_Subset, FS_CardinalityType
<1>4. ASSUME NEW a \in D PROVE rank[a] \in 0..(n - 1)
  <2>1. before(a) \in SUBSET (D \ {a})
    BY PrecedesOrders
  <2>2. IsFiniteSet(D \ {a}) /\ Cardinality(D \ {a}) = n - 1
    BY <1>1, FS_RemoveElement
  <2>3. Cardinality(before(a)) <= n - 1
    <3> HIDE DEF before, n
    <3> QED BY <2>1, <2>2, FS_Subset
  <2>4. rank[a] \in Nat /\ rank[a] <= n - 1
    <3> HIDE DEF before, n, rank
    <3> QED BY <1>2, <1>3, <2>3
  <2> HIDE DEF n, rank
  <2> QED BY <1>1, <2>4
<1>5. ASSUME NEW a \in D, NEW b \in D, Precedes(gross, counts, total, a, b)
      PROVE  rank[a] # rank[b]
  <2>1. before(a) \in SUBSET before(b)
    BY <1>5, PrecedesOrders
  <2>2. a \in before(b) /\ a \notin before(a)
    BY <1>5, PrecedesOrders
  <2>3. Cardinality(before(a)) # Cardinality(before(b))
    <3> HIDE DEF before
    <3> QED BY <1>3, <2>1, <2>2, FS_Subset
  <2> QED BY <1>2, <2>3
<1>6. \A a, b \in D : rank[a] = rank[b] => a = b
  BY <1>5, PrecedesOrders
<1> HIDE DEF rank, n
<1>7. rank \in Injection(D, 0..(n - 1))
  <2>1. rank \in [D -> 0..(n - 1)]
    BY <1>4 DEF rank
  <2> QED BY <2>1, <1>6, Fun_IsInj
<1>8. IsFiniteSet(0..(n - 1)) /\ Cardinality(0..(n - 1)) = n
  <2>1. 0 \in Int /\ n - 1 \in Int
    BY <1>1
  <2>2. /\ IsFiniteSet(0..(n - 1))
        /\ Cardinality(0..(n - 1)) = IF 0 > n - 1 THEN 0 ELSE (n - 1) - 0 + 1
    BY <2>1, FS_Interval
  <2> QED BY <1>1, <2>2
<1>9. rank \in Surjection(D, 0..(n - 1))
  BY <1>7, <1>8, FS_Injection DEF n
<1> QED BY <1>7, <1>9 DEF Bijection, rank, n

(* As many addresses rank below m as there are places below m.              *)
LEMMA RankedBelow ==
  ASSUME NEW D, NEW counts, NEW total, CountedShares(D, counts, total), NEW gross \in Nat,
         NEW m \in Nat, m <= Cardinality(D)
  PROVE  Cardinality({a \in D : Rank(gross, counts, total, a) < m}) = m
<1> DEFINE rank == [a \in D |-> Rank(gross, counts, total, a)]
           n == Cardinality(D)
           S == {a \in D : rank[a] < m}
           T == 0..(m - 1)
           low == [a \in S |-> rank[a]]
<1>1. IsFiniteSet(D) /\ n \in Nat /\ m <= n
  BY FS_CardinalityType DEF CountedShares
<1>2. rank \in Bijection(D, 0..(n - 1))
  BY RankIs
<1>3. S = {a \in D : Rank(gross, counts, total, a) < m}
  OBVIOUS
<1> HIDE DEF rank, n
<1>4. /\ rank \in [D -> 0..(n - 1)]
      /\ \A a, b \in D : rank[a] = rank[b] => a = b
      /\ \A i \in 0..(n - 1) : \E a \in D : rank[a] = i
  BY <1>2 DEF Bijection, Injection, Surjection, IsInjective
<1>5. low \in [S -> T]
  BY <1>1, <1>4
<1>6. low \in Injection(S, T)
  BY <1>4, <1>5, Fun_IsInj
<1>7. low \in Surjection(S, T)
  <2>1. ASSUME NEW i \in T PROVE \E a \in S : low[a] = i
    <3>1. i \in 0..(n - 1) /\ i < m
      BY <1>1, <2>1
    <3>2. PICK a \in D : rank[a] = i
      BY <1>4, <3>1
    <3> QED BY <3>1, <3>2
  <2> QED BY <1>5, <2>1, Fun_IsSurj
<1>8. ExistsBijection(S, T)
  BY <1>6, <1>7 DEF Bijection, ExistsBijection
<1>9. IsFiniteSet(S)
  BY <1>1, FS_Subset
<1>10. Cardinality(T) = m
  BY <1>1, FS_Interval
<1> HIDE DEF S, T
<1>11. Cardinality(S) = m
  BY <1>8, <1>9, <1>10, FS_Bijection
<1> QED BY <1>3, <1>11

(* Nobody is allocated less than the floor, and nobody more than a satoshi  *)
(* over it.                                                                 *)
LEMMA AmountIs ==
  ASSUME NEW D, NEW counts, NEW total, CountedShares(D, counts, total), NEW gross \in Nat,
         NEW a \in D
  PROVE  /\ FloorPart(gross, counts, total, a) \in Nat
         /\ Amount(gross, counts, total, a)
              = FloorPart(gross, counts, total, a)
                  + (IF Rank(gross, counts, total, a) < LeftOver(gross, counts, total)
                     THEN 1 ELSE 0)
         /\ Amount(gross, counts, total, a) \in Nat
<1>1. counts[a] \in Nat /\ total \in Nat \ {0}
  BY DEF CountedShares
<1>2. FloorPart(gross, counts, total, a) \in Nat
  BY <1>1, ProductNat, QuotientNat DEF FloorPart
<1> QED BY <1>2 DEF Amount

(* The whole reward is allocated and not a satoshi more.                    *)
THEOREM AllocationIsWhole ==
  ASSUME NEW D, NEW counts, NEW total, CountedShares(D, counts, total), NEW gross \in Nat
  PROVE  SumOver(Allocation(gross, counts, total), D) = gross
<1> DEFINE L == LeftOver(gross, counts, total)
           floor == [a \in D |-> FloorPart(gross, counts, total, a)]
           extra == [a \in D |-> IF Rank(gross, counts, total, a) < L THEN 1 ELSE 0]
           given == [a \in D |-> Amount(gross, counts, total, a)]
           above == {a \in D : Rank(gross, counts, total, a) < L}
<1>1. IsFiniteSet(D) /\ DOMAIN counts = D
  BY DEF CountedShares
<1>2. L \in Nat /\ L <= Cardinality(D)
  <2>1. L \in Nat /\ L < Cardinality(D) /\ Cardinality(D) \in Nat
    BY <1>1, LeftOverIs, FS_CardinalityType
  <2> QED BY <2>1
<1>3. SumOver(extra, D) = L
  <2>1. Cardinality(above) = L
    <3> HIDE DEF L
    <3> QED BY <1>2, RankedBelow
  <2>2. \A a \in D : extra[a] = IF a \in above THEN 1 ELSE 0
    OBVIOUS
  <2>3. SumOver(extra, D) = Cardinality(D \cap above)
    <3> HIDE DEF extra, above
    <3> QED BY <1>1, <2>2, SumCounts
  <2>4. D \cap above = above
    OBVIOUS
  <2> QED BY <2>1, <2>3, <2>4
<1>4. \A a \in D : /\ floor[a] \in Nat /\ extra[a] \in Int
                   /\ given[a] = 1 * floor[a] + extra[a]
  BY AmountIs
<1>5. SumOver(given, D) = 1 * SumOver(floor, D) + SumOver(extra, D)
  <2>1. 1 \in Int /\ \A a \in D : floor[a] \in Int
    BY <1>4
  <2> HIDE DEF floor, extra, given
  <2> QED BY <1>1, <1>4, <2>1, SumLinear
<1>6. SumOver(floor, D) \in Nat
  <2> HIDE DEF floor
  <2> QED BY <1>1, <1>4, SumNat
<1>7. L = gross - SumOver(floor, D)
  BY <1>1 DEF LeftOver
<1>8. Allocation(gross, counts, total) = given
  BY <1>1 DEF Allocation
<1> HIDE DEF L, floor, extra, given
<1> QED BY <1>2, <1>3, <1>5, <1>6, <1>7, <1>8

(* Proportion, floor and remainder of an address.                           *)
LEMMA ExactPart ==
  ASSUME NEW D, NEW counts, NEW total, CountedShares(D, counts, total), NEW gross \in Nat,
         NEW a \in D
  PROVE  /\ counts[a] \in Nat /\ gross * counts[a] \in Nat
         /\ FloorPart(gross, counts, total, a) \in Nat
         /\ Remainder(gross, counts, total, a) \in 0..(total - 1)
         /\ gross * counts[a] = total * FloorPart(gross, counts, total, a)
                                  + Remainder(gross, counts, total, a)
<1>1. counts[a] \in Nat /\ total \in Nat \ {0}
  BY DEF CountedShares
<1>2. gross * counts[a] \in Nat
  BY <1>1, ProductNat
<1>3. /\ FloorPart(gross, counts, total, a) = (gross * counts[a]) \div total
      /\ Remainder(gross, counts, total, a) = (gross * counts[a]) % total
  BY DEF FloorPart, Remainder
<1> QED BY <1>1, <1>2, <1>3, Division

(* An address that precedes another has the smaller index.                  *)
LEMMA PrecedesRanks ==
  ASSUME NEW D, NEW counts, NEW total, CountedShares(D, counts, total), NEW gross \in Nat,
         NEW a \in D, NEW b \in D, Precedes(gross, counts, total, a, b)
  PROVE  /\ Rank(gross, counts, total, a) \in Nat /\ Rank(gross, counts, total, b) \in Nat
         /\ Rank(gross, counts, total, a) < Rank(gross, counts, total, b)
<1> DEFINE before(x) == {y \in D : Precedes(gross, counts, total, y, x)}
<1>1. IsFiniteSet(D) /\ DOMAIN counts = D
  BY DEF CountedShares
<1>2. \A x \in D : /\ IsFiniteSet(before(x)) /\ Cardinality(before(x)) \in Nat
                   /\ Rank(gross, counts, total, x) = Cardinality(before(x))
  BY <1>1, FS_Subset, FS_CardinalityType DEF Rank
<1>3. before(a) \in SUBSET before(b)
  BY PrecedesOrders
<1>4. a \in before(b) /\ a \notin before(a)
  BY PrecedesOrders
<1>5. /\ Cardinality(before(a)) <= Cardinality(before(b))
      /\ Cardinality(before(a)) # Cardinality(before(b))
  <2> HIDE DEF before
  <2> QED BY <1>2, <1>3, <1>4, FS_Subset
<1> HIDE DEF before
<1> QED BY <1>2, <1>5

(* The extra satoshis go to addresses that have a remainder: there are no   *)
(* more of them than such addresses, and those come first.                  *)
LEMMA ExtraHasRemainder ==
  ASSUME NEW D, NEW counts, NEW total, CountedShares(D, counts, total), NEW gross \in Nat,
         NEW a \in D, Remainder(gross, counts, total, a) = 0
  PROVE  ~(Rank(gross, counts, total, a) < LeftOver(gross, counts, total))
<1> DEFINE rest == [x \in D |-> Remainder(gross, counts, total, x)]
           A == {x \in D : rest[x] # 0}
           one == [x \in D |-> IF x \in A THEN 1 ELSE 0]
           full == [x \in D |-> total * one[x]]
           none == [x \in D |-> 0]
           L == LeftOver(gross, counts, total)
           m == Cardinality(A)
<1>1. /\ IsFiniteSet(D) /\ DOMAIN counts = D /\ total \in Nat \ {0}
      /\ IsFiniteSet(A) /\ m \in Nat
  BY FS_Subset, FS_CardinalityType DEF CountedShares
<1>2. \A x \in D : rest[x] \in 0..(total - 1)
  BY ExactPart
<1>3. SumOver(one, D) = m
  <2>1. \A x \in D : one[x] = IF x \in A THEN 1 ELSE 0
    OBVIOUS
  <2>2. D \cap A = A
    OBVIOUS
  <2>3. SumOver(one, D) = Cardinality(D \cap A)
    <3> HIDE DEF one, A
    <3> QED BY <1>1, <2>1, SumCounts
  <2> QED BY <2>2, <2>3
<1>4. SumOver(none, D) = 0
  <2>1. \A x \in D : none[x] = IF x \in {} THEN 1 ELSE 0
    OBVIOUS
  <2>2. SumOver(none, D) = Cardinality(D \cap {})
    <3> HIDE DEF none
    <3> QED BY <1>1, <2>1, SumCounts
  <2>3. Cardinality(D \cap {}) = 0
    BY FS_EmptySet
  <2> QED BY <2>2, <2>3
<1>5. SumOver(full, D) = total * m + 0
  <2>1. total \in Int
    BY <1>1
  <2>2. \A x \in D : one[x] \in Int /\ none[x] \in Int /\ full[x] = total * one[x] + none[x]
    BY <1>1
  <2>3. SumOver(full, D) = total * SumOver(one, D) + SumOver(none, D)
    <3> HIDE DEF one, none, full
    <3> QED BY <1>1, <2>1, <2>2, SumLinear
  <2> QED BY <1>3, <1>4, <2>3
<1>6. \A x \in D : rest[x] \in Int /\ full[x] \in Int /\ rest[x] <= full[x]
  <2> SUFFICES ASSUME NEW x \in D
               PROVE  rest[x] \in Int /\ full[x] \in Int /\ rest[x] <= full[x]
    OBVIOUS
  <2>1. full[x] = IF rest[x] # 0 THEN total ELSE 0
    BY <1>1
  <2> HIDE DEF rest, full
  <2> QED BY <1>1, <1>2, <2>1
<1>7. SumOver(rest, D) <= SumOver(full, D)
  <2> HIDE DEF rest, full
  <2> QED BY <1>1, <1>6, SumLeq
<1>8. L \in Nat /\ total * L = SumOver(rest, D)
  BY LeftOverIs
<1>9. L <= m
  <2> HIDE DEF L, m, rest, full
  <2>1. total * L <= total * m
    <3>1. total * m \in Nat
      BY <1>1, ProductNat
    <3> QED BY <1>5, <1>7, <1>8, <3>1
  <2>2. total * L < total * (m + 1)
    <3>1. total * m \in Nat /\ total * (m + 1) = total * m + total /\ total * L \in Nat
      BY <1>1, <1>8, ProductNat
    <3> QED BY <1>1, <2>1, <3>1
  <2>3. L < m + 1
    BY <1>1, <1>8, <2>2, ProductCancels
  <2> QED BY <1>1, <1>8, <2>3
<1>10. Rank(gross, counts, total, a) \in Nat /\ m <= Rank(gross, counts, total, a)
  <2> DEFINE before == {x \in D : Precedes(gross, counts, total, x, a)}
  <2>1. A \in SUBSET before
    <3> SUFFICES ASSUME NEW x \in D, rest[x] # 0 PROVE Precedes(gross, counts, total, x, a)
      OBVIOUS
    <3>1. Remainder(gross, counts, total, x) > Remainder(gross, counts, total, a)
      BY <1>1, <1>2
    <3> QED BY <3>1 DEF Precedes
  <2>2. IsFiniteSet(before) /\ Cardinality(before) \in Nat
    BY <1>1, FS_Subset, FS_CardinalityType
  <2>3. Rank(gross, counts, total, a) = Cardinality(before)
    BY <1>1 DEF Rank
  <2>4. Cardinality(A) <= Cardinality(before)
    <3> HIDE DEF A, before
    <3> QED BY <2>1, <2>2, FS_Subset
  <2> QED BY <2>2, <2>3, <2>4
<1> HIDE DEF L, m
<1>11. ~(Rank(gross, counts, total, a) < L)
  BY <1>1, <1>8, <1>9, <1>10
<1> QED BY <1>11 DEF L

(* Each address gets its exact proportion rounded down or up.               *)
LEMMA AmountIsClose ==
  ASSUME NEW D, NEW counts, NEW total, CountedShares(D, counts, total), NEW gross \in Nat,
         NEW a \in D
  PROVE  /\ gross * counts[a] \in Nat /\ Amount(gross, counts, total, a) * total \in Nat
         /\ Amount(gross, counts, total, a) * total < gross * counts[a] + total
         /\ gross * counts[a] < Amount(gross, counts, total, a) * total + total
<1> DEFINE F == FloorPart(gross, counts, total, a)
           R == Remainder(gross, counts, total, a)
           e == IF Rank(gross, counts, total, a) < LeftOver(gross, counts, total) THEN 1 ELSE 0
<1>1. total \in Nat \ {0}
  BY DEF CountedShares
<1>2. F \in Nat /\ R \in 0..(total - 1) /\ gross * counts[a] = total * F + R
  BY ExactPart
<1>3. Amount(gross, counts, total, a) = F + e
  BY DEF Amount
<1>4. e = 0 \/ (e = 1 /\ R # 0)
  BY ExtraHasRemainder
<1> HIDE DEF F, R, e
<1>5. (F + e) * total = total * F + e * total
  BY <1>1, <1>2, <1>4
<1>6. total * F \in Nat
  BY <1>1, <1>2, ProductNat
<1>7. /\ gross * counts[a] \in Nat /\ (F + e) * total \in Nat
      /\ (F + e) * total < gross * counts[a] + total
      /\ gross * counts[a] < (F + e) * total + total
  <2>1. CASE e = 0
    BY <1>1, <1>2, <1>5, <1>6, <2>1
  <2>2. CASE e = 1 /\ R # 0
    BY <1>1, <1>2, <1>5, <1>6, <2>2
  <2> QED BY <1>4, <2>1, <2>2
<1> QED BY <1>3, <1>7

(* More shares, or as many and an earlier address, is never allocated less. *)
LEMMA AmountIsMonotone ==
  ASSUME NEW D, NEW counts, NEW total, CountedShares(D, counts, total), NEW gross \in Nat \ {0},
         NEW a \in D, NEW b \in D, counts[a] >= counts[b], counts[a] = counts[b] => a < b
  PROVE  Amount(gross, counts, total, a) >= Amount(gross, counts, total, b)
<1> DEFINE F(x) == FloorPart(gross, counts, total, x)
           R(x) == Remainder(gross, counts, total, x)
           K(x) == Rank(gross, counts, total, x)
           L == LeftOver(gross, counts, total)
           E(x) == IF K(x) < L THEN 1 ELSE 0
           X(x) == gross * counts[x]
<1>1. total \in Nat \ {0} /\ a \in Nat /\ b \in Nat /\ L \in Nat
  BY LeftOverIs DEF CountedShares
<1>2. \A x \in D : /\ counts[x] \in Nat /\ X(x) \in Nat
                   /\ F(x) \in Nat /\ R(x) \in 0..(total - 1)
                   /\ X(x) = total * F(x) + R(x)
                   /\ Amount(gross, counts, total, x) = F(x) + E(x)
  BY ExactPart DEF Amount
<1>3. X(a) >= X(b) /\ (counts[a] > counts[b] => X(a) > X(b))
  <2>1. counts[a] - counts[b] \in Nat /\ counts[a] = counts[b] + (counts[a] - counts[b])
    BY <1>2
  <2> DEFINE d == counts[a] - counts[b]
  <2>2. gross * counts[a] = gross * counts[b] + gross * d
    BY <1>2, <2>1
  <2>3. gross * d \in Nat /\ (d > 0 => gross * d > 0)
    <3> HIDE DEF d
    <3> QED BY <2>1, ProductNat DEF d
  <2> QED BY <1>2, <2>1, <2>2, <2>3
<1>4. Precedes(gross, counts, total, a, b) => E(a) >= E(b)
  <2> SUFFICES ASSUME Precedes(gross, counts, total, a, b) PROVE E(a) >= E(b)
    OBVIOUS
  <2>1. K(a) \in Nat /\ K(b) \in Nat /\ K(a) < K(b)
    BY PrecedesRanks
  <2> QED BY <1>1, <2>1
<1>5. Precedes(gross, counts, total, a, b) <=> R(a) > R(b) \/ (R(a) = R(b) /\ a < b)
  BY DEF Precedes
<1>6. \A x : E(x) \in {0, 1}
  OBVIOUS
<1> HIDE DEF F, R, K, E, X
<1>7. F(a) >= F(b)
  <2> SUFFICES ASSUME F(a) < F(b) PROVE FALSE
    BY <1>2
  <2>1. total * F(b) >= total * F(a) + total
    <3>1. F(b) - 1 - F(a) \in Nat
      BY <1>2
    <3>2. total * (F(b) - 1 - F(a)) \in Nat
      BY <1>1, <3>1, ProductNat
    <3>3. total * (F(b) - 1 - F(a)) = total * F(b) - total - total * F(a)
      BY <1>1, <1>2
    <3>4. total * F(a) \in Nat /\ total * F(b) \in Nat
      BY <1>1, <1>2, ProductNat
    <3> QED BY <1>1, <3>2, <3>3, <3>4
  <2>2. total * F(a) \in Nat /\ total * F(b) \in Nat
    BY <1>1, <1>2, ProductNat
  <2> QED BY <1>1, <1>2, <1>3, <2>1, <2>2
<1>8. CASE F(a) > F(b)
  BY <1>2, <1>6, <1>8
<1>9. CASE F(a) = F(b)
  <2>1. R(a) >= R(b) /\ (counts[a] > counts[b] => R(a) > R(b))
    <3>1. total * F(a) \in Nat /\ total * F(a) = total * F(b)
      BY <1>1, <1>2, <1>9, ProductNat
    <3>2. R(a) \in Nat /\ R(b) \in Nat /\ X(a) = total * F(a) + R(a)
          /\ X(b) = total * F(a) + R(b)
      BY <1>1, <1>2, <3>1
    <3> QED BY <1>3, <3>1, <3>2
  <2>2. Precedes(gross, counts, total, a, b)
    BY <1>1, <1>2, <1>5, <2>1
  <2> QED BY <1>2, <1>4, <1>6, <1>9, <2>2
<1> QED BY <1>2, <1>7, <1>8, <1>9

(* The fees of the parts of an amount, each rounded down, are at most the   *)
(* fee of the amount and short of it by less than a satoshi a part.         *)
LEMMA FeesOfParts ==
  ASSUME NEW D, IsFiniteSet(D), D # {}, NEW part, \A a \in D : part[a] \in Nat,
         NEW bps \in Nat, NEW fee, \A a \in D : fee[a] = platform_fee(part[a], bps)
  PROVE  /\ SumOver(fee, D) * FullBps <= SumOver(part, D) * bps
         /\ (SumOver(fee, D) + Cardinality(D)) * FullBps > SumOver(part, D) * bps
<1> DEFINE exact == [a \in D |-> bps * part[a]]
           rest == [a \in D |-> (part[a] * bps) % FullBps]
           none == [a \in D |-> 0]
           n == Cardinality(D)
           P == SumOver(part, D)
           F == SumOver(fee, D)
           R == SumOver(rest, D)
<1>1. \A a \in D : /\ fee[a] \in Nat /\ rest[a] \in 0..(FullBps - 1)
                   /\ exact[a] = FullBps * fee[a] + rest[a]
  <2> SUFFICES ASSUME NEW a \in D
               PROVE  /\ fee[a] \in Nat /\ rest[a] \in 0..(FullBps - 1)
                      /\ exact[a] = FullBps * fee[a] + rest[a]
    OBVIOUS
  <2> DEFINE x == part[a] * bps
  <2>1. x \in Nat /\ FullBps \in Nat \ {0}
    BY ProductNat DEF FullBps
  <2>2. fee[a] = x \div FullBps /\ rest[a] = x % FullBps
    BY DEF platform_fee
  <2>3. exact[a] = x
    OBVIOUS
  <2> HIDE DEF x, rest, exact
  <2> QED BY <2>1, <2>2, <2>3, Division
<1>2. SumOver(exact, D) = FullBps * F + R
  <2>1. FullBps \in Int
    BY DEF FullBps
  <2> HIDE DEF rest, exact
  <2>2. \A a \in D : /\ fee[a] \in Int /\ rest[a] \in Int
                     /\ exact[a] = FullBps * fee[a] + rest[a]
    BY <1>1, <2>1
  <2> QED BY <2>1, <2>2, SumLinear
<1>3. SumOver(exact, D) = bps * P
  <2>1. SumOver(none, D) = 0
    <3>1. \A a \in D : none[a] = IF a \in {} THEN 1 ELSE 0
      OBVIOUS
    <3>2. SumOver(none, D) = Cardinality(D \cap {})
      <4> HIDE DEF none
      <4> QED BY <3>1, SumCounts
    <3>3. Cardinality(D \cap {}) = 0
      BY FS_EmptySet
    <3> QED BY <3>2, <3>3
  <2>2. bps \in Int
        /\ \A a \in D : /\ part[a] \in Int /\ none[a] \in Int
                        /\ exact[a] = bps * part[a] + none[a]
    BY ProductNat
  <2>3. SumOver(exact, D) = bps * P + SumOver(none, D)
    <3> HIDE DEF exact, none
    <3> QED BY <2>2, SumLinear
  <2>4. bps * P \in Nat
    <3>1. P \in Nat
      BY SumNat
    <3> HIDE DEF P
    <3> QED BY <3>1, ProductNat
  <2> QED BY <2>1, <2>3, <2>4
<1>4. P \in Nat /\ F \in Nat
  BY <1>1, SumNat
<1>5. R \in Nat /\ R <= (FullBps - 1) * n /\ n \in Nat /\ n # 0
  <2>1. FullBps - 1 \in Nat
    BY DEF FullBps
  <2>2. R \in Nat /\ R <= (FullBps - 1) * n
    <3> HIDE DEF rest
    <3> QED BY <1>1, <2>1, SumBounded
  <2>3. n \in Nat /\ n # 0
    BY FS_CardinalityType, FS_EmptySet
  <2> QED BY <2>2, <2>3
<1> HIDE DEF P, F, R, n
<1>6. P * bps = FullBps * F + R
  BY <1>2, <1>3, <1>4
<1>7. F * FullBps <= P * bps /\ (F + n) * FullBps > P * bps
  BY <1>4, <1>5, <1>6 DEF FullBps
<1> QED BY <1>7 DEF P, F, n
=============================================================================
