-------------------------- MODULE AlgorithmProofs --------------------------
(***************************************************************************)
(* The allocation of a reward (Pplns) for every set of addresses, every    *)
(* number of shares and every reward, and the way of a job to the miner    *)
(* and back (WorkPath) for every number of nonces and tries: properties    *)
(* that TLC checks of MCAlgorithms for small ones.                         *)
(***************************************************************************)
EXTENDS MCAlgorithms, PplnsProofs, SequenceTheorems

(* A call to the allocation has its bounds, and what it has returned is the *)
(* allocation of its arguments.                                             *)
AllocateInv ==
  /\ call.op = "allocate" => call \in AllocateCalls
  /\ Returned("allocate") => result.of = Allocation(call.gross, call.counts, Total)

LEMMA AllocateHolds == Spec => []AllocateInv
<1>1. Init => AllocateInv
  <2>1. call \in WorkCalls => call.op = "work"
    BY DEF WorkCalls, AnyWork
  <2> QED BY <2>1 DEF Init, AllocateInv, Returned, BuildCalls, MerkleCalls
<1>2. AllocateInv /\ [Return]_vars => AllocateInv'
  <2> SUFFICES ASSUME AllocateInv, [Return]_vars PROVE AllocateInv'
    OBVIOUS
  <2>1. CASE Allocate /\ UNCHANGED call
    BY <2>1 DEF Allocate, AllocateInv, Returned, Total, SumAll
  <2>2. CASE (Build \/ Merkle \/ MineAndValidate) /\ UNCHANGED call
    <3>1. call.op # "allocate"
      BY <2>2 DEF Build, Merkle, MineAndValidate
    <3> QED BY <2>2, <3>1 DEF AllocateInv, Returned
  <2>3. CASE UNCHANGED vars
    BY <2>3 DEF vars, AllocateInv, Returned, Total, SumAll
  <2> QED BY <2>1, <2>2, <2>3 DEF Return
<1> QED BY <1>1, <1>2, PTL DEF Spec

(* The arguments of a call are such as the query of the repository returns. *)
LEMMA CallIsCounted ==
  ASSUME AllocateInv, call.op = "allocate"
  PROVE  /\ CountedShares(DOMAIN call.counts, call.counts, Total)
         /\ call.gross \in Nat \ {0}
         /\ DOMAIN call.counts # {}
<1> DEFINE D == DOMAIN call.counts
           counts == call.counts
<1>1. call.gross \in 1..MaxGross
      /\ counts \in UNION {[S -> 1..MaxCount] : S \in (SUBSET Addresses) \ {{}}}
  BY DEF AllocateInv, AllocateCalls
<1>2. /\ D \in SUBSET Addresses /\ D # {} /\ counts \in [D -> Nat]
      /\ \A a \in D : counts[a] # 0
  <2>1. PICK S \in (SUBSET Addresses) \ {{}} : counts \in [S -> 1..MaxCount]
    BY <1>1
  <2>2. D = S
    BY <2>1
  <2> HIDE DEF counts, D
  <2>3. \A a \in S : counts[a] \in Nat /\ counts[a] # 0
    BY <2>1, AlgorithmsAssumption
  <2>4. counts \in [S -> Nat]
    BY <2>1, <2>3
  <2> QED BY <2>1, <2>2, <2>3, <2>4
<1>3. IsFiniteSet(D) /\ D \subseteq Nat
  BY <1>2, FS_Subset, AlgorithmsAssumption
<1>4. PICK a \in D : TRUE
  BY <1>2
<1>5. Total = SumOver(counts, D)
  BY DEF Total, SumAll
<1>6. Total \in Nat \ {0}
  <2>1. \A x \in D : counts[x] \in Nat /\ counts[x] \in Int
    BY <1>2
  <2>2. SumOver(counts, D) = counts[a] + SumOver(counts, D \ {a})
    <3> HIDE DEF D, counts
    <3> QED BY <1>3, <2>1, SumRemove
  <2>3. SumOver(counts, D \ {a}) \in Nat
    <3> HIDE DEF D, counts
    <3> QED BY <1>3, <2>1, SumNat
  <2> QED BY <1>2, <1>5, <2>1, <2>2, <2>3
<1> QED BY <1>1, <1>2, <1>3, <1>5, <1>6, AlgorithmsAssumption DEF CountedShares

\* The whole reward is allocated and not a satoshi more, for any reward and
\* any numbers of shares.
THEOREM RewardIsAllocated == Spec => []AllocatesExactly
<1>1. AllocateInv => AllocatesExactly
  <2> SUFFICES ASSUME AllocateInv, Returned("allocate") PROVE SumAll(result.of) = call.gross
    BY DEF AllocatesExactly
  <2> DEFINE D == DOMAIN call.counts
  <2>1. CountedShares(D, call.counts, Total) /\ call.gross \in Nat
    BY CallIsCounted DEF Returned
  <2>2. result.of = Allocation(call.gross, call.counts, Total)
    BY DEF AllocateInv
  <2>3. DOMAIN result.of = D
    BY <2>2 DEF Allocation
  <2>4. SumOver(result.of, D) = call.gross
    <3> HIDE DEF D
    <3> QED BY <2>1, <2>2, AllocationIsWhole
  <2> QED BY <2>3, <2>4 DEF SumAll
<1> QED BY <1>1, AllocateHolds, PTL

(* What is returned for an address.                                         *)
LEMMA ReturnedAmount ==
  ASSUME AllocateInv, Returned("allocate"), NEW a \in DOMAIN call.counts
  PROVE  result.of[a] = Amount(call.gross, call.counts, Total, a)
BY DEF AllocateInv, Allocation

\* No address gets a satoshi or more above or below its exact proportion: the
\* satoshis that the floors leave over go to addresses with a remainder.
THEOREM NobodyGetsThePile == Spec => []WithinOneSatoshi
<1>1. AllocateInv => WithinOneSatoshi
  <2> SUFFICES ASSUME AllocateInv, Returned("allocate"), NEW a \in DOMAIN call.counts
               PROVE  Abs(result.of[a] * Total - call.gross * call.counts[a]) < Total
    BY DEF WithinOneSatoshi
  <2>1. /\ CountedShares(DOMAIN call.counts, call.counts, Total) /\ call.gross \in Nat
        /\ Total \in Nat
    BY CallIsCounted DEF Returned, CountedShares
  <2> DEFINE x == Amount(call.gross, call.counts, Total, a) * Total
             y == call.gross * call.counts[a]
  <2>2. x \in Nat /\ y \in Nat /\ x < y + Total /\ y < x + Total
    BY <2>1, AmountIsClose
  <2>3. result.of[a] * Total = x
    BY ReturnedAmount
  <2> HIDE DEF x, y
  <2>4. Abs(x - y) < Total
    BY <2>1, <2>2 DEF Abs
  <2> QED BY <2>3, <2>4 DEF y
<1> QED BY <1>1, AllocateHolds, PTL

\* More accepted shares, or as many and an earlier address, never get less.
THEOREM SharesAreRewarded == Spec => []MoreSharesNeverLess
<1>1. AllocateInv => MoreSharesNeverLess
  <2> SUFFICES ASSUME AllocateInv, Returned("allocate"),
                      NEW a \in DOMAIN call.counts, NEW b \in DOMAIN call.counts,
                      call.counts[a] >= call.counts[b],
                      call.counts[a] = call.counts[b] => a < b
               PROVE  result.of[a] >= result.of[b]
    BY DEF MoreSharesNeverLess
  <2>1. CountedShares(DOMAIN call.counts, call.counts, Total) /\ call.gross \in Nat \ {0}
    BY CallIsCounted DEF Returned
  <2>2. Amount(call.gross, call.counts, Total, a) >= Amount(call.gross, call.counts, Total, b)
    BY <2>1, AmountIsMonotone
  <2> QED BY <2>2, ReturnedAmount
<1> QED BY <1>1, AllocateHolds, PTL

\* The fees charged address by address are at most the policy's fee on the
\* whole reward, and short of it by less than a satoshi an address.
THEOREM FeeIsNeverAbovePolicy == Spec => []FeePerAddressRoundsForMiners
<1>1. AllocateInv => FeePerAddressRoundsForMiners
  <2> SUFFICES ASSUME AllocateInv, Returned("allocate") PROVE FeePerAddressRoundsForMiners
    BY DEF FeePerAddressRoundsForMiners
  <2> DEFINE D == DOMAIN call.counts
             part == result.of
             split == [a \in D |-> split_reward_sat(part[a], 0, TrialDays)]
             fee == [a \in D |-> split[a].fee]
  <2>1. CountedShares(D, call.counts, Total) /\ call.gross \in Nat /\ D # {}
    BY CallIsCounted DEF Returned
  <2>2. IsFiniteSet(D)
    BY <2>1 DEF CountedShares
  <2>3. \A a \in D : part[a] \in Nat
    BY <2>1, AmountIs, ReturnedAmount
  <2>4. effective_fee_bps(0, TrialDays) = PostTrialFeeBps /\ PostTrialFeeBps \in Nat
    BY FeePolicyAssumption DEF effective_fee_bps, trial_end_at, FullBps
  <2>5. \A a \in D : /\ split[a].fee = platform_fee(part[a], PostTrialFeeBps)
                     /\ split[a].payable = part[a] - platform_fee(part[a], PostTrialFeeBps)
    BY <2>4 DEF split_reward_sat
  <2>6. SumOver(part, D) = call.gross
    <3>1. part = Allocation(call.gross, call.counts, Total)
      BY DEF AllocateInv
    <3> HIDE DEF D, part
    <3> QED BY <2>1, <3>1, AllocationIsWhole
  <2>7. /\ SumOver(fee, D) * FullBps <= SumOver(part, D) * PostTrialFeeBps
        /\ (SumOver(fee, D) + Cardinality(D)) * FullBps > SumOver(part, D) * PostTrialFeeBps
    <3>1. \A a \in D : fee[a] = platform_fee(part[a], PostTrialFeeBps)
      BY <2>5
    <3> HIDE DEF D, part, fee
    <3> QED BY <2>1, <2>2, <2>3, <2>4, <3>1, FeesOfParts
  <2>8. \A a \in D : split[a].fee + split[a].payable = part[a]
    <3> SUFFICES ASSUME NEW a \in D PROVE split[a].fee + split[a].payable = part[a]
      OBVIOUS
    <3>1. platform_fee(part[a], PostTrialFeeBps) \in Int /\ part[a] \in Int
      <4>1. part[a] \in Nat /\ part[a] * PostTrialFeeBps \in Nat
        BY <2>3, <2>4, ProductNat
      <4> QED BY <4>1 DEF platform_fee, FullBps
    <3> HIDE DEF split, part
    <3> QED BY <2>5, <3>1
  <2>9. SumAll(fee) = SumOver(fee, D)
    BY DEF SumAll
  <2> HIDE DEF split
  <2> QED BY <2>6, <2>7, <2>8, <2>9 DEF FeePerAddressRoundsForMiners, split
<1> QED BY <1>1, AllocateHolds, PTL

-----------------------------------------------------------------------------
(***************************************************************************)
(* Least deviation.  The deviation of one address is a convex function of  *)
(* its part, with slopes -Total, Total - 2 * remainder and Total around    *)
(* the floor.  The remainder S of the last address that gets an extra      *)
(* satoshi separates those that do from those that do not, so at the slope *)
(* Total - 2 * S every part is the best one; summed over the addresses     *)
(* the slope cancels, as the parts have the same sum.                      *)
(***************************************************************************)
LEMMA AbsIs == \A x \in Int : Abs(x) \in Nat /\ Abs(x) >= x /\ Abs(x) >= -x
BY DEF Abs

(* One address: T shares in all, an exact proportion of F and R T-ths.      *)
LEMMA BestAtSlope ==
  ASSUME NEW T \in Nat \ {0}, NEW F \in Nat, NEW R \in 0..(T - 1), NEW S \in 0..T,
         NEW e \in {0, 1}, e = 1 => R >= S, e = 0 => R <= S, NEW v \in Int
  PROVE  Abs(v * T - (T * F + R))
           >= Abs((F + e) * T - (T * F + R)) + (T - 2 * S) * (v - (F + e))
<1> DEFINE f == T * F
<1>1. f \in Nat
  BY ProductNat
<1>2. (F + e) * T - (f + R) = e * T - R
  BY <1>1
<1>3. Abs(e * T - R) = IF e = 1 THEN T - R ELSE R
  <2>1. CASE e = 0
    BY <2>1 DEF Abs
  <2>2. CASE e = 1
    BY <2>2 DEF Abs
  <2> QED BY <2>1, <2>2
<1>4. CASE v >= F + 1
  <2> DEFINE k == v - F - 1
  <2>1. k \in Nat /\ v = F + 1 + k
    BY <1>4
  <2> HIDE DEF k, f
  <2> DEFINE t == T * k
             s == S * k
  <2>2. t \in Nat /\ s \in Nat
    BY <2>1, ProductNat
  <2>3. v * T - (f + R) = T + t - R
    <3>1. v * T = f + T + t
      BY <2>1 DEF f
    <3> HIDE DEF t
    <3> QED BY <1>1, <2>2, <3>1
  <2>4. (T - 2 * S) * (v - (F + e)) = (t - 2 * s) + (1 - e) * (T - 2 * S)
    <3>1. v - (F + e) = k + (1 - e)
      BY <2>1
    <3>2. (T - 2 * S) * (k + (1 - e)) = (T - 2 * S) * k + (T - 2 * S) * (1 - e)
      BY <2>1
    <3>3. (T - 2 * S) * k = t - 2 * s
      BY <2>1
    <3> QED BY <3>1, <3>2, <3>3
  <2>5. CASE e = 1
    <3>1. (1 - e) * (T - 2 * S) = 0
      BY <2>5
    <3>2. T + t - R \in Int /\ Abs(T + t - R) >= T + t - R
      <4> HIDE DEF t
      <4> QED BY <2>2, AbsIs
    <3> HIDE DEF t, s
    <3> QED BY <1>1, <1>2, <1>3, <2>2, <2>3, <2>4, <2>5, <3>1, <3>2, AbsIs DEF f
  <2>6. CASE e = 0
    <3>1. (1 - e) * (T - 2 * S) = T - 2 * S
      BY <2>6
    <3>2. T + t - R \in Int /\ Abs(T + t - R) >= T + t - R
      <4> HIDE DEF t
      <4> QED BY <2>2, AbsIs
    <3> HIDE DEF t, s
    <3> QED BY <1>1, <1>2, <1>3, <2>2, <2>3, <2>4, <2>6, <3>1, <3>2, AbsIs DEF f
  <2> QED BY <2>5, <2>6
<1>5. CASE v <= F
  <2> DEFINE j == F - v
  <2>1. j \in Nat /\ v = F - j
    BY <1>5
  <2> HIDE DEF j, f
  <2> DEFINE t == T * j
             s == S * j
  <2>2. t \in Nat /\ s \in Nat /\ s <= t
    <3>1. (T - S) * j \in Nat
      BY <2>1, ProductNat
    <3>2. (T - S) * j = t - s
      BY <2>1
    <3>3. t \in Nat /\ s \in Nat
      BY <2>1, ProductNat
    <3> HIDE DEF t, s
    <3> QED BY <3>1, <3>2, <3>3
  <2>3. v * T - (f + R) = -(t + R)
    <3>1. v * T = f - t
      BY <2>1 DEF f
    <3> HIDE DEF t
    <3> QED BY <1>1, <2>2, <3>1
  <2>4. (T - 2 * S) * (v - (F + e)) = -(t - 2 * s) - e * (T - 2 * S)
    <3>1. v - (F + e) = -(j + e)
      BY <2>1
    <3>2. (T - 2 * S) * (-(j + e)) = -((T - 2 * S) * j) - (T - 2 * S) * e
      BY <2>1
    <3>3. (T - 2 * S) * j = t - 2 * s
      BY <2>1
    <3> QED BY <3>1, <3>2, <3>3
  <2>5. -(t + R) \in Int /\ Abs(-(t + R)) >= t + R
    <3> HIDE DEF t
    <3>1. -(t + R) \in Int /\ -(-(t + R)) = t + R
      BY <2>2
    <3> QED BY <3>1, AbsIs
  <2>6. CASE e = 1
    <3>1. e * (T - 2 * S) = T - 2 * S
      BY <2>6
    <3> HIDE DEF t, s
    <3> QED BY <1>1, <1>2, <1>3, <2>2, <2>3, <2>4, <2>5, <2>6, <3>1, AbsIs DEF f
  <2>7. CASE e = 0
    <3>1. e * (T - 2 * S) = 0
      BY <2>7
    <3> HIDE DEF t, s
    <3> QED BY <1>1, <1>2, <1>3, <2>2, <2>3, <2>4, <2>5, <2>7, <3>1, AbsIs DEF f
  <2> QED BY <2>6, <2>7
<1> QED BY <1>4, <1>5

(* A remainder separates the addresses with an extra satoshi from the rest. *)
LEMMA RemainderSeparates ==
  ASSUME NEW D, NEW counts, NEW total, CountedShares(D, counts, total), NEW gross \in Nat
  PROVE  \E S \in 0..total : \A a \in D :
           IF Rank(gross, counts, total, a) < LeftOver(gross, counts, total)
           THEN Remainder(gross, counts, total, a) >= S
           ELSE Remainder(gross, counts, total, a) <= S
<1> DEFINE L == LeftOver(gross, counts, total)
           R(a) == Remainder(gross, counts, total, a)
           K(a) == Rank(gross, counts, total, a)
           rank == [a \in D |-> Rank(gross, counts, total, a)]
           n == Cardinality(D)
<1>1. /\ total \in Nat \ {0} /\ L \in Nat /\ L < n /\ n \in Nat
  BY LeftOverIs, FS_CardinalityType DEF CountedShares
<1>2. \A a \in D : R(a) \in 0..(total - 1)
  BY ExactPart
<1>3. rank \in Bijection(D, 0..(n - 1))
  BY RankIs
<1>4. /\ \A a \in D : K(a) \in 0..(n - 1) /\ (\A b \in D : K(a) = K(b) => a = b)
      /\ \A i \in 0..(n - 1) : \E a \in D : K(a) = i
  <2>1. \A a \in D : rank[a] = K(a)
    OBVIOUS
  <2> HIDE DEF rank, K, n
  <2>2. /\ rank \in [D -> 0..(n - 1)]
        /\ \A a, b \in D : rank[a] = rank[b] => a = b
        /\ \A i \in 0..(n - 1) : \E a \in D : rank[a] = i
    BY <1>3 DEF Bijection, Injection, Surjection, IsInjective
  <2> QED BY <2>1, <2>2
<1>5. ASSUME NEW a \in D, NEW b \in D, K(a) < K(b)
      PROVE  R(a) >= R(b)
  <2>1. a # b /\ ~Precedes(gross, counts, total, b, a)
    BY <1>1, <1>4, <1>5, PrecedesRanks
  <2>2. Precedes(gross, counts, total, a, b)
    BY <2>1, PrecedesOrders
  <2> QED BY <1>1, <1>2, <2>2 DEF Precedes
<1> SUFFICES \E S \in 0..total : \A a \in D : IF K(a) < L THEN R(a) >= S ELSE R(a) <= S
  OBVIOUS
<1> HIDE DEF L, R, K, n
<1>6. CASE L = 0
  <2>1. \A a \in D : IF K(a) < L THEN R(a) >= total ELSE R(a) <= total
    BY <1>1, <1>2, <1>4, <1>6
  <2> QED BY <1>1, <2>1
<1>7. CASE L # 0
  <2>1. L - 1 \in 0..(n - 1)
    BY <1>1, <1>7
  <2>2. PICK z \in D : K(z) = L - 1
    BY <1>4, <2>1
  <2>3. R(z) \in 0..total
    BY <1>1, <1>2
  <2>4. ASSUME NEW a \in D PROVE IF K(a) < L THEN R(a) >= R(z) ELSE R(a) <= R(z)
    <3>1. K(a) \in Nat /\ (K(a) = K(z) => a = z) /\ R(a) \in Nat /\ R(z) \in Nat
      BY <1>1, <1>2, <1>4
    <3>2. CASE K(a) < K(z)
      BY <1>1, <1>5, <2>2, <3>1, <3>2
    <3>3. CASE K(a) = K(z)
      BY <1>1, <2>2, <3>1, <3>3
    <3>4. CASE K(a) > K(z)
      BY <1>1, <1>5, <2>2, <3>1, <3>4
    <3> QED BY <1>1, <2>2, <3>1, <3>2, <3>3, <3>4
  <2> QED BY <2>3, <2>4
<1> QED BY <1>6, <1>7

(* No split of the reward is closer to the exact proportions.               *)
LEMMA AllocationIsClosest ==
  ASSUME NEW D, NEW counts, NEW total, CountedShares(D, counts, total), NEW gross \in Nat,
         NEW v \in [D -> Int], SumOver(v, D) = gross
  PROVE  SumOver([a \in D |-> Abs(Amount(gross, counts, total, a) * total
                                    - gross * counts[a])], D)
           <= SumOver([a \in D |-> Abs(v[a] * total - gross * counts[a])], D)
<1> DEFINE x == Allocation(gross, counts, total)
           dev(y) == [a \in D |-> Abs(y[a] * total - gross * counts[a])]
           E(a) == IF Rank(gross, counts, total, a) < LeftOver(gross, counts, total)
                   THEN 1 ELSE 0
<1>1. IsFiniteSet(D) /\ DOMAIN counts = D /\ total \in Nat \ {0}
  BY DEF CountedShares
<1>2. \A a \in D : x[a] = Amount(gross, counts, total, a) /\ x[a] \in Nat
  BY <1>1, AmountIs DEF Allocation
<1>3. PICK S \in 0..total : \A a \in D :
           IF Rank(gross, counts, total, a) < LeftOver(gross, counts, total)
           THEN Remainder(gross, counts, total, a) >= S
           ELSE Remainder(gross, counts, total, a) <= S
  BY RemainderSeparates
<1> DEFINE slope == total - 2 * S
           gap == [a \in D |-> v[a] - x[a]]
           bound == [a \in D |-> slope * gap[a] + dev(x)[a]]
<1>4. slope \in Int
  BY <1>1
<1>5. ASSUME NEW a \in D
      PROVE  /\ dev(v)[a] \in Int /\ dev(x)[a] \in Int /\ dev(v)[a] >= bound[a]
  <2> DEFINE F == FloorPart(gross, counts, total, a)
             R == Remainder(gross, counts, total, a)
             e == E(a)
  <2>1. F \in Nat /\ R \in 0..(total - 1) /\ gross * counts[a] = total * F + R
    BY ExactPart
  <2>2. e \in {0, 1} /\ (e = 1 => R >= S) /\ (e = 0 => R <= S)
    BY <1>3
  <2>3. x[a] = F + e
    BY <1>2 DEF Amount
  <2>4. v[a] \in Int
    OBVIOUS
  <2> DEFINE w == v[a]
  <2>5. Abs(w * total - (total * F + R))
          >= Abs((F + e) * total - (total * F + R)) + (total - 2 * S) * (w - (F + e))
    <3> HIDE DEF F, R, e, w, E
    <3>1. w \in Int
      BY <2>4 DEF w
    <3> QED BY <1>1, <2>1, <2>2, <3>1, BestAtSlope
  <2>6. /\ dev(v)[a] = Abs(w * total - (total * F + R))
        /\ dev(x)[a] = Abs((F + e) * total - (total * F + R))
        /\ bound[a] = slope * (w - (F + e)) + dev(x)[a]
    BY <2>1, <2>3
  <2>7. /\ w * total - (total * F + R) \in Int
        /\ (F + e) * total - (total * F + R) \in Int
    <3> HIDE DEF F, R, e, w, E
    <3>1. w \in Int /\ F \in Int /\ e \in Int /\ total \in Int
      BY <1>1, <2>1, <2>2, <2>4 DEF w
    <3>2. w * total \in Int /\ total * F \in Int /\ (F + e) * total \in Int
      BY <3>1
    <3> QED BY <2>1, <3>2
  <2>8. slope * (w - (F + e)) \in Int
    <3> HIDE DEF F, R, e, w, E, slope
    <3>1. w - (F + e) \in Int
      BY <2>1, <2>2, <2>4 DEF w
    <3> QED BY <1>4, <3>1
  <2> HIDE DEF F, R, e, w, E, dev, bound
  <2> QED BY <2>5, <2>6, <2>7, <2>8, AbsIs
<1>6. SumOver(gap, D) = 0
  <2>1. SumOver(x, D) = gross
    BY AllocationIsWhole
  <2>2. \A a \in D : v[a] \in Int /\ x[a] \in Int /\ gap[a] \in Int /\ v[a] = 1 * x[a] + gap[a]
    BY <1>2
  <2>3. SumOver(v, D) = 1 * SumOver(x, D) + SumOver(gap, D)
    <3>1. 1 \in Int
      OBVIOUS
    <3> HIDE DEF x, gap
    <3> QED BY <1>1, <2>2, <3>1, SumLinear
  <2>4. SumOver(gap, D) \in Int
    <3> HIDE DEF x, gap
    <3> QED BY <1>1, <2>2, SumInt
  <2> QED BY <2>1, <2>3, <2>4
<1>7. SumOver(bound, D) = slope * SumOver(gap, D) + SumOver(dev(x), D)
  <2>1. \A a \in D : /\ gap[a] \in Int /\ dev(x)[a] \in Int
                     /\ bound[a] = slope * gap[a] + dev(x)[a]
    <3>1. \A a \in D : v[a] - x[a] \in Int
      BY <1>2
    <3> HIDE DEF dev, x, slope
    <3> QED BY <1>5, <3>1
  <2> HIDE DEF dev, bound, gap, slope, x
  <2> QED BY <1>1, <1>4, <2>1, SumLinear
<1>8. SumOver(bound, D) <= SumOver(dev(v), D)
  <2>1. \A a \in D : bound[a] \in Int /\ dev(v)[a] \in Int /\ bound[a] <= dev(v)[a]
    <3> SUFFICES ASSUME NEW a \in D
                 PROVE  bound[a] \in Int /\ dev(v)[a] \in Int /\ bound[a] <= dev(v)[a]
      OBVIOUS
    <3>1. gap[a] \in Int
      BY <1>2
    <3>2. bound[a] = slope * gap[a] + dev(x)[a]
      OBVIOUS
    <3> HIDE DEF dev, bound, gap, slope, x
    <3>3. slope * gap[a] \in Int
      BY <1>4, <3>1
    <3> QED BY <1>5, <3>2, <3>3
  <2> HIDE DEF dev, bound
  <2> QED BY <1>1, <2>1, SumLeq
<1>9. SumOver(dev(x), D) \in Int
  <2>1. \A a \in D : dev(x)[a] \in Int
    BY <1>5
  <2> HIDE DEF dev, x
  <2> QED BY <1>1, <2>1, SumInt
<1>10. SumOver(dev(x), D) <= SumOver(dev(v), D)
  <2>1. slope * 0 = 0
    BY <1>4
  <2> HIDE DEF dev, bound, gap, slope, x
  <2> QED BY <1>6, <1>7, <1>8, <1>9, <2>1
<1>11. \A y : dev(y) = [a \in D |-> Abs(y[a] * total - gross * counts[a])]
  OBVIOUS
<1>12. dev(x) = [a \in D |-> Abs(Amount(gross, counts, total, a) * total - gross * counts[a])]
  BY <1>2
<1> HIDE DEF dev, x
<1> QED BY <1>10, <1>11, <1>12

\* No way to split the reward into whole satoshis, of which there are
\* exponentially many, is closer to the exact proportions.
THEOREM NoSplitIsCloser == Spec => []LeastDeviation
<1>1. AllocateInv => LeastDeviation
  <2> DEFINE D == DOMAIN call.counts
  <2> SUFFICES ASSUME AllocateInv, Returned("allocate"), NEW v \in [D -> 0..call.gross],
                      SumAll(v) = call.gross
               PROVE  Deviation(result.of) <= Deviation(v)
    BY DEF LeastDeviation
  <2>1. CountedShares(D, call.counts, Total) /\ call.gross \in Nat
    BY CallIsCounted DEF Returned
  <2>2. v \in [D -> Int] /\ DOMAIN v = D
    BY <2>1
  <2>3. SumOver(v, D) = call.gross
    BY <2>2 DEF SumAll
  <2> DEFINE dev(y) == [a \in D |-> Abs(y[a] * Total - call.gross * call.counts[a])]
             best == [a \in D |-> Abs(Amount(call.gross, call.counts, Total, a) * Total
                                        - call.gross * call.counts[a])]
  <2>4. \A y : Deviation(y) = SumOver(dev(y), D)
    BY DEF Deviation, SumAll
  <2>5. dev(result.of) = best
    BY ReturnedAmount
  <2>6. SumOver(best, D) <= SumOver(dev(v), D)
    <3> HIDE DEF D
    <3> QED BY <2>1, <2>2, <2>3, AllocationIsClosest
  <2> HIDE DEF dev, best, D
  <2> QED BY <2>4, <2>5, <2>6
<1> QED BY <1>1, AllocateHolds, PTL

(***************************************************************************)
(* A job to the miner and a share of it back, for every number of nonces,  *)
(* stride, base of compact targets and number of tries.                    *)
(***************************************************************************)

(* The miner hashes what the pool checks: through notification and          *)
(* challenge every field of the job arrives as it was.                      *)
LEMMA SameWork ==
  ASSUME NEW job, NEW start
  PROVE  LET j  == FromNotify(NotifyParams(job, start))
             ch == MinerChallenge(j)
             vc == ValidatorChallenge(job)
         IN  /\ Work(ch) = Work(vc)
             /\ j.matmul.start = start /\ j.time = job.time
             /\ ch.time = job.time /\ vc.time = job.time
             /\ ch.shareTarget = Or(job.shareTarget, None)
             /\ vc.shareTarget = job.shareTarget
             /\ ch.b = job.b /\ ch.r = job.r
<1> DEFINE p == NotifyParams(job, start)
           j == FromNotify(p)
           ch == MinerChallenge(j)
           vc == ValidatorChallenge(job)
<1>1. /\ p[2] = job.version /\ p[3] = job.prev /\ p[4] = job.root /\ p[5] = job.time
      /\ p[6] = job.bits /\ p[7] = job.shareTarget
      /\ p[9] = [seeds |-> job.seeds, height |-> job.height, n |-> job.n, b |-> job.b,
                 r |-> job.r, epsilon |-> job.epsilon, start |-> start]
  BY DEF NotifyParams
<1> HIDE DEF p
<1>2. /\ j.version = job.version /\ j.prev = job.prev /\ j.root = job.root
      /\ j.time = job.time /\ j.bits = job.bits /\ j.target = job.shareTarget
      /\ j.matmul = p[9]
  BY <1>1 DEF FromNotify
<1>3. /\ j.matmul.seeds = job.seeds /\ j.matmul.n = job.n /\ j.matmul.b = job.b
      /\ j.matmul.r = job.r /\ j.matmul.start = start
  BY <1>1, <1>2
<1> HIDE DEF j
<1>4. /\ ch.version = job.version /\ ch.prev = job.prev /\ ch.root = job.root
      /\ ch.time = job.time /\ ch.bits = job.bits /\ ch.seeds = job.seeds
      /\ ch.n = job.n /\ ch.b = job.b /\ ch.r = job.r
      /\ ch.shareTarget = Or(job.shareTarget, None)
  BY <1>2, <1>3 DEF MinerChallenge
<1>5. /\ vc.version = job.version /\ vc.prev = job.prev /\ vc.root = job.root
      /\ vc.time = job.time /\ vc.bits = job.bits /\ vc.seeds = job.seeds
      /\ vc.n = job.n /\ vc.b = job.b /\ vc.r = job.r
      /\ vc.shareTarget = job.shareTarget
  BY DEF ValidatorChallenge
<1> HIDE DEF ch, vc
<1>6. \A f \in WorkFields : ch[f] = vc[f]
  BY <1>4, <1>5 DEF WorkFields
<1>7. Work(ch) = Work(vc)
  BY <1>6 DEF Work
<1>8. /\ Work(ch) = Work(vc)
      /\ j.matmul.start = start /\ j.time = job.time
      /\ ch.time = job.time /\ vc.time = job.time
      /\ ch.shareTarget = Or(job.shareTarget, None)
      /\ vc.shareTarget = job.shareTarget
      /\ ch.b = job.b /\ ch.r = job.r
  BY <1>2, <1>3, <1>4, <1>5, <1>7
<1> QED BY <1>8 DEF ch, vc, j, p

(* What the solver finds meets the target, and is the first that does.      *)
LEMMA SolverFindsFirst ==
  ASSUME NEW c, NEW start \in Int, NEW strength, NEW keys,
         NEW form, Solve(c, start, 2, strength, keys, form).found
  PROVE  LET n == Solve(c, start, 2, strength, keys, form).nonce
         IN  /\ n \in Int /\ n < NonceSpace
             /\ strength[n] <= Or(c.shareTarget, CompactTarget(c.bits))
<1> DEFINE target == Or(c.shareTarget, CompactTarget(c.bits))
           hits == {n \in start..(start + 2 - 1) : n < NonceSpace /\ strength[n] <= target}
<1>1. hits # {} /\ Solve(c, start, 2, strength, keys, form).nonce = Min(hits)
  BY DEF Solve
<1>2. hits \subseteq Int /\ \A n \in hits : n = start \/ n = start + 1
  <2> HIDE DEF target
  <2> QED OBVIOUS
<1>3. Min(hits) \in hits
  <2>1. \E x \in hits : \A y \in hits : x <= y
    <3> HIDE DEF hits
    <3>1. CASE start \in hits
      BY <1>2, <3>1
    <3>2. CASE start \notin hits
      <4>1. PICK x \in hits : x = start + 1
        BY <1>1, <1>2, <3>2
      <4>2. \A y \in hits : x <= y
        BY <1>2, <3>2, <4>1
      <4> QED BY <4>2
    <3> QED BY <3>1, <3>2
  <2> HIDE DEF hits
  <2> QED BY <2>1 DEF Min
<1>4. Min(hits) \in Int /\ Min(hits) < NonceSpace /\ strength[Min(hits)] <= target
  <2> SUFFICES ASSUME NEW m, m \in hits PROVE m \in Int /\ m < NonceSpace /\ strength[m] <= target
    BY <1>3
  <2> HIDE DEF target
  <2> QED BY <1>2
<1> QED BY <1>1, <1>4

FoundRecord(c, nonce, strength, keys, form) ==
  [found |-> TRUE, nonce |-> nonce, form |-> form, keys |-> keys, number |-> strength[nonce],
   digest |-> IF "digest" \in keys
              THEN [of |-> <<"digest", Work(c), nonce>>, reversed |-> TRUE]
              ELSE [of |-> <<"absent">>],
   matrix |-> IF "matrix" \in keys THEN Zeros(8) ELSE <<>>]

(* A solver that starts at a nonce that meets the target takes that one.    *)
LEMMA SolverTakesStart ==
  ASSUME NEW c, NEW start \in Int, NEW tries \in Nat \ {0}, NEW strength, NEW keys,
         NEW form,
         start < NonceSpace, strength[start] <= Or(c.shareTarget, CompactTarget(c.bits))
  PROVE  Solve(c, start, tries, strength, keys, form)
           = FoundRecord(c, start, strength, keys, form)
<1> DEFINE target == Or(c.shareTarget, CompactTarget(c.bits))
           hits == {n \in start..(start + tries - 1) : n < NonceSpace /\ strength[n] <= target}
<1>1. start \in hits /\ \A n \in hits : n \in Int /\ start <= n
  <2> HIDE DEF target
  <2>1. start \in start..(start + tries - 1)
    OBVIOUS
  <2>2. \A n \in start..(start + tries - 1) : n \in Int /\ start <= n
    OBVIOUS
  <2>3. strength[start] <= target
    BY DEF target
  <2> QED BY <2>1, <2>2, <2>3
<1>2. hits # {}
  BY <1>1
<1>3. Min(hits) = start
  <2> HIDE DEF hits
  <2>1. \A x \in hits : (\A y \in hits : x <= y) => x = start
    BY <1>1
  <2>2. \E x \in hits : \A y \in hits : x <= y
    BY <1>1
  <2> QED BY <2>1, <2>2 DEF Min
<1> QED BY <1>2, <1>3 DEF Solve, FoundRecord

(* What the job is made of.                                                 *)
LEMMA TemplateIs ==
  ASSUME call \in WorkCalls
  PROVE  LET t == WorkTemplate
         IN  /\ Flip(Flip(t.prev)) = t.prev /\ Flip(Flip(t.seeds)) = t.seeds
             /\ t.top["n"] = call.top /\ t.top.n = call.top
<1>1. /\ WorkTemplate.prev = TxId(0)
      /\ WorkTemplate.seeds = [of |-> <<"seeds">>, reversed |-> TRUE]
      /\ WorkTemplate.top.n = call.top
  BY DEF WorkTemplate, Template
<1>2. WorkTemplate.prev = [of |-> <<"tx", 0>>, reversed |-> TRUE]
  BY <1>1 DEF TxId
<1>3. \A x : Flip(Flip([of |-> x, reversed |-> TRUE])) = [of |-> x, reversed |-> TRUE]
  BY DEF Flip
<1> QED BY <1>1, <1>2, <1>3

LEMMA JobIs ==
  ASSUME NEW t, NEW share, NEW script, NEW tag
  PROVE  LET job == JobFromTemplate(t, share, script, tag)
         IN  /\ job.version = t.version /\ job.prev = t.prev /\ job.time = t.time
             /\ job.root = MerkleRootForTemplate(t, script, tag)
             /\ job.bits = t.bits /\ job.seeds = t.seeds /\ job.n = Dim(t, "n", 512)
             /\ job.blockTarget = BlockTarget(t) /\ job.shareTarget = share
             /\ job.template = t /\ job.script = script
BY DEF JobFromTemplate

(* The matrix of two words that the solver's records have here.             *)
LEMMA ZerosOfWords == Zeros(8) # <<>> /\ Len(Zeros(8)) % 4 = 0
<1> SUFFICES ASSUME NEW s, s = [i \in 1..8 |-> 0] PROVE s # <<>> /\ Len(s) % 4 = 0
  BY DEF Zeros
<1>1. s \in [1..8 -> {0}] /\ DOMAIN s = 1..8
  OBVIOUS
<1>2. s \in Seq({0})
  <2>1. s \in UNION {[1..n -> {0}] : n \in Nat}
    BY <1>1
  <2> QED BY ONLY <2>1, SeqDef
<1>3. Len(s) \in Nat /\ DOMAIN s = 1..Len(s)
  BY ONLY <1>2, LenProperties
<1>4. Len(s) = 8
  <2> SUFFICES ASSUME NEW m \in Nat, 1..m = 1..8 PROVE m = 8
    BY <1>1, <1>3
  <2>1. 8 \in 1..m
    OBVIOUS
  <2>2. m >= 1 /\ m \in 1..m
    BY <2>1
  <2>3. m \in 1..8
    BY <2>2
  <2> QED BY ONLY <2>1, <2>3, m \in Nat
<1> QED
  <2>1. 8 % 4 = 0
    OBVIOUS
  <2>2. Len(<<>>) = 0
    OBVIOUS
  <2> QED BY ONLY <1>4, <2>1, <2>2

BothKeys == {"digest", "matrix"}
Nothing  == <<>>

(* rec is what the validator's solver has taken for a share; a record with   *)
(* both of its optional keys gives a block.                                 *)
Validated(job, share, c, strength, keys, form, rec) ==
  /\ keys \in SUBSET BothKeys /\ job.template.top.n # None
  /\ rec = FoundRecord(c, share.nonce, strength, keys, form)

BecomesBlock(job, share, keys, rec) ==
  LET block == Candidate(TRUE, job, share, rec, Tag)
  IN  /\ keys # BothKeys => block = Nothing
      /\ keys = BothKeys =>
           /\ block # Nothing
           /\ block[1] = Header(job.template, job.script, Tag, share.nonce, rec.digest)

LEMMA BlockIs ==
  ASSUME NEW job, NEW share, NEW c, NEW strength, NEW keys, NEW form, NEW rec,
         Validated(job, share, c, strength, keys, form, rec)
  PROVE  BecomesBlock(job, share, keys, rec)
<1>0. /\ keys \in SUBSET BothKeys /\ job.template.top.n # None
      /\ rec = FoundRecord(c, share.nonce, strength, keys, form)
  BY DEF Validated
<1> DEFINE digest == [of |-> <<"digest", Work(c), share.nonce>>, reversed |-> TRUE]
<1>6. /\ rec.digest = IF "digest" \in keys THEN digest ELSE [of |-> <<"absent">>]
      /\ rec.matrix = IF "matrix" \in keys THEN Zeros(8) ELSE <<>>
  BY <1>0 DEF FoundRecord
<1>1. <<"digest", Work(c), share.nonce>> # <<"absent">>
  OBVIOUS
<1>2. Zeros(8) # <<>> /\ Len(Zeros(8)) % 4 = 0
  BY ZerosOfWords
<1>3. CASE "digest" \notin keys
  BY <1>3, <1>6 DEF Candidate, BothKeys, Nothing, BecomesBlock
<1>4. CASE "matrix" \notin keys
  BY <1>4, <1>6 DEF Candidate, BothKeys, Nothing, BecomesBlock
<1>5. CASE "digest" \in keys /\ "matrix" \in keys
  <2>1. keys = {"digest", "matrix"}
    BY <1>0, <1>5 DEF BothKeys
  <2>2. rec.digest = digest /\ rec.matrix = Zeros(8)
    BY <1>5, <1>6
  <2>3. rec.digest.of # <<"absent">>
    BY <1>1, <2>2
  <2>4. rec.matrix # <<>> /\ Len(rec.matrix) % 4 = 0
    BY ONLY <1>2, <2>2
  <2>5. CanBuild(job.template, rec.matrix)
    BY <1>0, <2>4 DEF CanBuild
  <2>6. Candidate(TRUE, job, share, rec, Tag) =
          <<Header(job.template, job.script, Tag, share.nonce, rec.digest),
            Body(job.template, job.script, Tag, rec.matrix)>>
    BY <2>3, <2>4, <2>5 DEF Candidate, BothKeys, Nothing
  <2> DEFINE block == Candidate(TRUE, job, share, rec, Tag)
             head == Header(job.template, job.script, Tag, share.nonce, rec.digest)
             body == Body(job.template, job.script, Tag, rec.matrix)
  <2>7. block # Nothing /\ block[1] = head
    <3>1. block = <<head, body>>
      BY <2>6
    <3> HIDE DEF block, head, body
    <3> QED BY ONLY <3>1 DEF Nothing
  <2>8. keys = BothKeys
    BY <2>1 DEF BothKeys
  <2> QED BY ONLY <2>7, <2>8 DEF BecomesBlock
<1> QED BY <1>3, <1>4, <1>5

(* A call of the way there and back has its arguments, and what it has      *)
(* returned is what came of them.                                           *)
WorkInv ==
  /\ call.op = "work" => call \in WorkCalls
  /\ Returned("work") => result.of = Mine

LEMMA WorkHolds == Spec => []WorkInv
<1>1. Init => WorkInv
  BY DEF Init, WorkInv, Returned, AllocateCalls, BuildCalls, MerkleCalls
<1>2. WorkInv /\ [Return]_vars => WorkInv'
  <2> SUFFICES ASSUME WorkInv, [Return]_vars PROVE WorkInv'
    OBVIOUS
  <2>1. ASSUME UNCHANGED call PROVE Mine' = Mine
    BY <2>1 DEF Mine, Outcome, WorkTemplate
  <2>2. CASE MineAndValidate /\ UNCHANGED call
    <3>1. result'.of = Mine
      BY <2>2 DEF MineAndValidate
    <3> QED BY <2>1, <2>2, <3>1 DEF WorkInv, Returned
  <2>3. CASE (Build \/ Merkle \/ Allocate) /\ UNCHANGED call
    <3>1. call.op # "work"
      BY <2>3 DEF Build, Merkle, Allocate
    <3> QED BY <2>3, <3>1 DEF WorkInv, Returned
  <2>4. CASE UNCHANGED vars
    <3>1. UNCHANGED <<call, result>>
      BY <2>4 DEF vars
    <3> QED BY <2>1, <3>1 DEF WorkInv, Returned
  <2> QED BY <2>2, <2>3, <2>4 DEF Return
<1> QED BY <1>1, <1>2, PTL DEF Spec

(* A job of the template to the miner, and the share it finds to the pool.  *)
(* The names of Mine, in their order.                                       *)
ThereAndBack(t, s, start, strength, keys, form, job, j, ch, vc, rec, mined, share, check,
             val) ==
  /\ s \in {1, 5} /\ start \in Int
  /\ job = JobFromTemplate(t, s, Script, Tag)
  /\ j = FromNotify(NotifyParams(job, start))
  /\ ch = MinerChallenge(j)
  /\ vc = ValidatorChallenge(job)
  /\ rec = Solve(ch, start, 2, strength, {}, form)
  /\ mined = ResultFromRecord(rec, ch)
  /\ mined.found
  /\ share = ShareOf(j, mined)
  /\ share.nonce = rec.nonce
  /\ check = ResultFromRecord(Solve(vc, share.nonce, MaxTries, strength, keys, form), vc)
  /\ val = Validation(job, share, check)

Accepted(strength, keys, form, job, ch, vc, share, val) ==
  /\ Work(ch) = Work(vc)
  /\ ch.b = job.b /\ ch.r = job.r
  /\ val.accepted
  /\ val.isBlock = MeetsBlockTarget(job, val.rec)
  /\ val.rec = FoundRecord(vc, share.nonce, strength, keys, form)

LEMMA ShareIsAccepted ==
  ASSUME NEW t, NEW s, NEW start, NEW strength, NEW keys, NEW form, NEW job, NEW j, NEW ch,
         NEW vc, NEW rec, NEW mined, NEW share, NEW check, NEW val,
         ThereAndBack(t, s, start, strength, keys, form, job, j, ch, vc, rec, mined, share,
                      check, val)
  PROVE  Accepted(strength, keys, form, job, ch, vc, share, val)
<1> USE DEF ThereAndBack
<1>1. /\ Work(ch) = Work(vc) /\ j.time = job.time /\ ch.time = job.time /\ vc.time = job.time
      /\ ch.shareTarget = Or(job.shareTarget, None) /\ vc.shareTarget = job.shareTarget
      /\ ch.b = job.b /\ ch.r = job.r
  BY SameWork
<1>2. job.shareTarget = s
  BY JobIs
<1>3. /\ Or(ch.shareTarget, CompactTarget(ch.bits)) = s
      /\ Or(vc.shareTarget, CompactTarget(vc.bits)) = s
  <2>1. \A x : Or(s, x) = s
    BY DEF Or, None
  <2> QED BY <1>1, <1>2, <2>1
<1>4. rec.found
  BY DEF ResultFromRecord
<1>5. /\ mined.nonce = Reading(rec.form, rec.nonce) /\ mined.time = job.time
      /\ rec.form = form
  BY <1>1, <1>4 DEF ResultFromRecord, Solve
<1>6. /\ share.nonce = rec.nonce /\ share.time = job.time
      /\ Reading(form, share.nonce) = share.nonce
  <2>1. \A x : Or(x, x) = x
    BY DEF Or
  <2>2. share.nonce = mined.nonce /\ share.time = job.time
    BY <1>1, <1>5, <2>1 DEF ShareOf
  <2> QED BY <1>5, <2>2
<1>7. share.nonce \in Int /\ share.nonce < NonceSpace /\ strength[share.nonce] <= s
  <2>1. rec.nonce \in Int /\ rec.nonce < NonceSpace
        /\ strength[rec.nonce] <= Or(ch.shareTarget, CompactTarget(ch.bits))
    BY <1>4, SolverFindsFirst
  <2> QED BY <1>3, <1>6, <2>1
<1> DEFINE found == FoundRecord(vc, share.nonce, strength, keys, form)
<1>8. Solve(vc, share.nonce, MaxTries, strength, keys, form) = found
  <2>1. strength[share.nonce] <= Or(vc.shareTarget, CompactTarget(vc.bits))
    BY <1>3, <1>7
  <2>2. MaxTries \in Nat \ {0}
    BY WorkAssumption
  <2> QED BY ONLY <1>7, <2>1, <2>2, SolverTakesStart
<1>9. found.found /\ found.nonce = share.nonce /\ found.form = form
  BY DEF FoundRecord
<1> HIDE DEF found
<1>10. check.found /\ check.nonce = share.nonce /\ check.rec = found
  BY <1>6, <1>8, <1>9 DEF ResultFromRecord
<1>11. val = [accepted |-> TRUE, isBlock |-> MeetsBlockTarget(job, found), rec |-> found]
  BY <1>6, <1>10 DEF Validation
<1>12. val.accepted /\ val.rec = found /\ val.isBlock = MeetsBlockTarget(job, val.rec)
  BY <1>11
<1> QED BY <1>1, <1>12 DEF found, Accepted

(* What of it matters to the block.                                         *)
Submitted(t, job, vc, ch, share, rec, block) ==
  /\ t = WorkTemplate /\ job = JobFromTemplate(t, call.share, Script, Tag)
  /\ vc = ValidatorChallenge(job)
  /\ Work(ch) = Work(vc) /\ ch.b = job.b /\ ch.r = job.r
  /\ rec = FoundRecord(vc, share.nonce, call.strength, call.keys, call.form)
  /\ block = IF MeetsBlockTarget(job, rec) THEN Candidate(call.enabled, job, share, rec, Tag)
             ELSE Nothing

HeaderIsTheWork(t, ch, share, block) ==
  /\ (block # Nothing) = (/\ call.strength[share.nonce] <= BlockTarget(t)
                          /\ call.keys = BothKeys /\ call.top # None /\ call.enabled)
  /\ block # Nothing =>
       LET h == block[1] IN
       /\ Flip(h.digest).of = <<"digest", Work(ch), h.nonce>>
       /\ [version |-> h.version, prev |-> Flip(h.prev), root |-> Flip(h.root),
           time |-> h.time, bits |-> h.bits, seeds |-> Flip(h.seeds), n |-> h.n,
           b |-> ch.b, r |-> ch.r] = Work(ch)

LEMMA BlockOfShare ==
  ASSUME call \in WorkCalls, NEW t, NEW job, NEW vc, NEW ch, NEW share, NEW rec, NEW block,
         Submitted(t, job, vc, ch, share, rec, block)
  PROVE  HeaderIsTheWork(t, ch, share, block)
<1> USE DEF Submitted
<1>1. /\ job.version = t.version /\ job.prev = t.prev /\ job.time = t.time
      /\ job.root = MerkleRootForTemplate(t, Script, Tag)
      /\ job.bits = t.bits /\ job.seeds = t.seeds /\ job.n = Dim(t, "n", 512)
      /\ job.blockTarget = BlockTarget(t) /\ job.template = t /\ job.script = Script
  BY JobIs
<1>2. /\ Flip(Flip(t.prev)) = t.prev /\ Flip(Flip(t.seeds)) = t.seeds
      /\ t.top["n"] = call.top /\ t.top.n = call.top
  BY TemplateIs
<1>3. /\ call.top \in {None, 256} /\ call.keys \in SUBSET BothKeys
      /\ call.enabled \in BOOLEAN
  BY DEF WorkCalls, AnyWork, BothKeys
<1> DEFINE digest == [of |-> <<"digest", Work(vc), share.nonce>>, reversed |-> TRUE]
<1>4. /\ rec.keys = call.keys /\ rec.number = call.strength[share.nonce]
      /\ rec.digest = IF "digest" \in call.keys THEN digest ELSE [of |-> <<"absent">>]
      /\ rec.matrix = IF "matrix" \in call.keys THEN Zeros(8) ELSE Nothing
  BY DEF FoundRecord, Nothing
<1>5. MeetsBlockTarget(job, rec) =
        ("digest" \in call.keys /\ call.strength[share.nonce] <= BlockTarget(t))
  <2>1. Or(BlockTarget(t), CompactTarget(t.bits)) = BlockTarget(t)
    BY DEF BlockTarget, Or
  <2> QED BY <1>1, <1>4, <2>1 DEF MeetsBlockTarget
<1>8. "digest" \in BothKeys
  BY DEF BothKeys
<1> DEFINE candidate == Candidate(call.enabled, job, share, rec, Tag)
<1>6. call.top = None \/ ~call.enabled => candidate = Nothing
  BY <1>1, <1>2 DEF Candidate, CanBuild, Nothing
<1>7. call.top # None /\ call.enabled =>
        /\ call.keys # BothKeys => candidate = Nothing
        /\ call.keys = BothKeys =>
             /\ candidate # Nothing
             /\ candidate[1] = Header(t, Script, Tag, share.nonce, digest)
  <2> SUFFICES ASSUME call.top # None, call.enabled
               PROVE  /\ call.keys # BothKeys => candidate = Nothing
                      /\ call.keys = BothKeys =>
                           /\ candidate # Nothing
                           /\ candidate[1] = Header(t, Script, Tag, share.nonce, digest)
    OBVIOUS
  <2>1. job.template.top.n # None
    BY <1>1, <1>2
  <2>2. /\ call.keys # BothKeys => candidate = Nothing
        /\ call.keys = BothKeys =>
             /\ candidate # Nothing
             /\ candidate[1] = Header(job.template, job.script, Tag, share.nonce, rec.digest)
    <3>1. Validated(job, share, vc, call.strength, call.keys, call.form, rec)
      BY <1>3, <2>1 DEF Validated
    <3>2. BecomesBlock(job, share, call.keys, rec)
      BY ONLY <3>1, BlockIs
    <3>3. candidate = Candidate(TRUE, job, share, rec, Tag)
      <4>1. call.enabled = TRUE
        BY <1>3
      <4> QED BY ONLY <4>1 DEF candidate
    <3> QED BY <3>2, <3>3 DEF BecomesBlock
  <2>3. call.keys = BothKeys => rec.digest = digest
    BY <1>4, <1>8
  <2> HIDE DEF candidate, digest
  <2> QED BY <1>1, <2>2, <2>3
<1> HIDE DEF candidate
<1>9. (block # Nothing) = (/\ call.strength[share.nonce] <= BlockTarget(t)
                        /\ call.keys = BothKeys /\ call.top # None /\ call.enabled)
  <2>1. CASE MeetsBlockTarget(job, rec)
    <3>1. block = candidate /\ call.strength[share.nonce] <= BlockTarget(t)
      BY <1>5, <2>1 DEF candidate
    <3> HIDE DEF digest
    <3> QED BY ONLY <1>6, <1>7, <3>1
  <2>2. CASE ~MeetsBlockTarget(job, rec)
    <3>1. block = Nothing
      BY <2>2
    <3>2. ~("digest" \in call.keys /\ call.strength[share.nonce] <= BlockTarget(t))
      BY <1>5, <2>2
    <3> QED BY ONLY <1>8, <3>1, <3>2
  <2> QED BY <2>1, <2>2
<1>10. ASSUME block # Nothing
       PROVE  /\ block[1] = Header(t, Script, Tag, share.nonce, digest)
              /\ call.top = 256
  <2>1. call.keys = BothKeys /\ call.top # None /\ call.enabled
    BY <1>9, <1>10
  <2>2. block = candidate
    BY <1>10 DEF candidate
  <2> HIDE DEF digest
  <2> QED BY ONLY <1>3, <1>7, <2>1, <2>2
<1>11. ASSUME block # Nothing, NEW h, h = Header(t, Script, Tag, share.nonce, digest)
       PROVE  /\ Flip(h.digest).of = <<"digest", Work(ch), h.nonce>>
              /\ [version |-> h.version, prev |-> Flip(h.prev), root |-> Flip(h.root),
                  time |-> h.time, bits |-> h.bits, seeds |-> Flip(h.seeds), n |-> h.n,
                  b |-> ch.b, r |-> ch.r] = Work(ch)
  <2>1. /\ h.version = t.version /\ h.prev = Flip(t.prev) /\ h.time = t.time
        /\ h.bits = t.bits /\ h.seeds = Flip(t.seeds) /\ h.n = t.top.n
        /\ h.nonce = share.nonce /\ h.digest = Flip(digest)
        /\ h.root = MerkleRoot(Txids(t, Script, Tag))
    BY <1>11 DEF Header
  <2>2. Flip(h.digest).of = <<"digest", Work(ch), h.nonce>>
    <3>1. \A x : Flip(Flip([of |-> x, reversed |-> TRUE])).of = x
      BY DEF Flip
    <3>2. Flip(Flip(digest)).of = <<"digest", Work(vc), share.nonce>>
      BY <3>1
    <3> HIDE DEF digest
    <3> QED BY <2>1, <3>2
  <2> HIDE DEF digest
  <2>3. Flip(h.root) = job.root
    BY <1>1, <2>1 DEF MerkleRootForTemplate
  <2>4. h.n = job.n
    <3>1. call.top = 256
      BY <1>10, <1>11
    <3>2. \A x : Or(256, x) = 256
      BY DEF Or, None
    <3> QED BY <1>1, <1>2, <2>1, <3>1, <3>2 DEF Dim
  <2>5. /\ vc.version = h.version /\ vc.prev = Flip(h.prev) /\ vc.root = Flip(h.root)
        /\ vc.time = h.time /\ vc.bits = h.bits /\ vc.seeds = Flip(h.seeds)
        /\ vc.n = h.n /\ vc.b = ch.b /\ vc.r = ch.r
    BY <1>1, <1>2, <2>1, <2>3, <2>4 DEF ValidatorChallenge
  <2>6. [version |-> h.version, prev |-> Flip(h.prev), root |-> Flip(h.root),
         time |-> h.time, bits |-> h.bits, seeds |-> Flip(h.seeds), n |-> h.n,
         b |-> ch.b, r |-> ch.r] = [f \in WorkFields |-> vc[f]]
    <3> DEFINE w == [version |-> h.version, prev |-> Flip(h.prev), root |-> Flip(h.root),
                     time |-> h.time, bits |-> h.bits, seeds |-> Flip(h.seeds), n |-> h.n,
                     b |-> ch.b, r |-> ch.r]
    <3>1. DOMAIN w = WorkFields /\ w = [f \in DOMAIN w |-> w[f]]
      BY DEF WorkFields
    <3>2. \A f \in WorkFields : w[f] = vc[f]
      BY <2>5 DEF WorkFields
    <3> HIDE DEF w
    <3>3. w = [f \in WorkFields |-> vc[f]]
      BY ONLY <3>1, <3>2
    <3> QED BY <3>3 DEF w
  <2> QED BY <2>2, <2>6 DEF Work
<1> QED BY <1>9, <1>10, <1>11 DEF HeaderIsTheWork

\* What the miner's solver takes for a job of the pool, and the miner reads as it is,
\* the pool's takes too, and what goes to the node, exactly if the pool submits blocks
\* and nothing is missing, is a block with the header the miner's solver has hashed:
\* neither to_solve_challenge and validate, which write the challenge each for
\* itself, nor the two reversals of every hash on the way, lose anything.
THEOREM WorkIsTheSameAtBothEnds == Spec => []WorkComesBack
<1>1. WorkInv => WorkComesBack
  <2> SUFFICES ASSUME WorkInv, Returned("work"), result.of.found,
                      result.of.share.nonce = result.of.nonce
               PROVE  WorkComesBack
    BY DEF WorkComesBack
  <2>1. call \in WorkCalls /\ result.of = Mine
    BY DEF WorkInv, Returned
  <2> SUFFICES
        ASSUME NEW t, t = WorkTemplate,
               NEW start, start = NextNonceStart(call.start),
               NEW job, job = JobFromTemplate(t, call.share, Script, Tag),
               NEW j, j = FromNotify(NotifyParams(job, start)),
               NEW ch, ch = MinerChallenge(j),
               NEW vc, vc = ValidatorChallenge(job),
               NEW rec, rec = Solve(ch, start, 2, call.strength, {}, call.form),
               NEW mined, mined = ResultFromRecord(rec, ch),
               NEW share, share = ShareOf(j, mined),
               NEW check,
               check = ResultFromRecord(Solve(vc, share.nonce, MaxTries, call.strength,
                                              call.keys, call.form), vc),
               NEW val, val = Validation(job, share, check),
               NEW block, block = IF val.accepted /\ val.isBlock
                                  THEN Candidate(call.enabled, job, share, val.rec, Tag)
                                  ELSE <<>>
        PROVE  WorkComesBack
    OBVIOUS
  <2>2. j.matmul.start = start
    BY SameWork
  <2> DEFINE submitted == HasTarget(t) /\ Readable(rec) /\ IsSubmitted(mined)
  <2>3. Mine = IF submitted
               THEN [found |-> TRUE, nonce |-> rec.nonce, job |-> job, challenge |-> ch,
                     share |-> share, validation |-> val, block |-> block]
               ELSE [found |-> FALSE]
    <3>1. Mine = Outcome(job, ch, rec, mined, share, val)
      BY <2>2 DEF Mine
    <3>2. block = IF val.accepted /\ val.isBlock
                  THEN Candidate(call.enabled, job, share, val.rec, Tag) ELSE <<>>
      OBVIOUS
    <3> HIDE DEF submitted
    <3>3. ASSUME submitted
          PROVE  Mine = [found |-> TRUE, nonce |-> rec.nonce, job |-> job, challenge |-> ch,
                         share |-> share, validation |-> val, block |-> block]
      BY ONLY <3>1, <3>2, <3>3, t = WorkTemplate DEF submitted, Outcome
    <3>4. ASSUME ~submitted PROVE Mine = [found |-> FALSE]
      BY ONLY <3>1, <3>4, t = WorkTemplate DEF submitted, Outcome
    <3> QED BY ONLY <3>3, <3>4
  <2> HIDE DEF submitted
  <2>4. submitted /\ result.of = [found |-> TRUE, nonce |-> rec.nonce, job |-> job,
                                  challenge |-> ch, share |-> share, validation |-> val,
                                  block |-> block]
    <3>1. ASSUME ~submitted PROVE FALSE
      <4>1. Mine = [found |-> FALSE]
        BY ONLY <2>3, <3>1
      <4>2. ~Mine.found
        BY ONLY <4>1
      <4> QED BY ONLY <2>1, <4>2, result.of.found
    <3>2. submitted
      BY ONLY <3>1
    <3> QED BY ONLY <2>1, <2>3, <3>2
  <2>a. mined.found /\ share.nonce = rec.nonce
    <3>1. mined.found
      BY ONLY <2>4 DEF submitted, IsSubmitted
    <3>2. result.of.nonce = rec.nonce /\ result.of.share = share
      BY ONLY <2>4
    <3> QED BY ONLY <3>1, <3>2, result.of.share.nonce = result.of.nonce
  <2>5. call.share \in {1, 5} /\ start \in Int
    <3>1. call.share \in {1, 5} /\ call.start \in {0, 1, 2}
      BY <2>1 DEF WorkCalls, AnyWork
    <3>2. call.start + NonceStride \in Int /\ NonceSpace \in Nat \ {0}
      BY <3>1, WorkAssumption
    <3>3. (call.start + NonceStride) % NonceSpace \in Int
      BY ONLY <3>2
    <3> QED BY <3>1, <3>3 DEF NextNonceStart
  <2>6. /\ Work(ch) = Work(vc)
        /\ ch.b = job.b /\ ch.r = job.r
        /\ val.accepted
        /\ val.isBlock = MeetsBlockTarget(job, val.rec)
        /\ val.rec = FoundRecord(vc, share.nonce, call.strength, call.keys, call.form)
    <3>1. ThereAndBack(t, call.share, start, call.strength, call.keys, call.form, job, j, ch,
                       vc, rec, mined, share, check, val)
      BY <2>5, <2>a DEF ThereAndBack
    <3>2. Accepted(call.strength, call.keys, call.form, job, ch, vc, share, val)
      BY ONLY <3>1, ShareIsAccepted
    <3> QED BY <3>2 DEF Accepted
  <2>7. block = IF MeetsBlockTarget(job, val.rec)
                THEN Candidate(call.enabled, job, share, val.rec, Tag) ELSE <<>>
    BY ONLY <2>6, block = IF val.accepted /\ val.isBlock
                          THEN Candidate(call.enabled, job, share, val.rec, Tag) ELSE <<>>
  <2>8. /\ (block # <<>>) = (/\ call.strength[share.nonce] <= BlockTarget(t)
                             /\ call.keys = {"digest", "matrix"} /\ call.top # None
                             /\ call.enabled)
        /\ block # <<>> =>
             LET h == block[1] IN
             /\ Flip(h.digest).of = <<"digest", Work(ch), h.nonce>>
             /\ [version |-> h.version, prev |-> Flip(h.prev), root |-> Flip(h.root),
                 time |-> h.time, bits |-> h.bits, seeds |-> Flip(h.seeds), n |-> h.n,
                 b |-> ch.b, r |-> ch.r] = Work(ch)
    <3>1. Submitted(t, job, vc, ch, share, val.rec, block)
      BY <2>6, <2>7 DEF Submitted, Nothing
    <3>2. HeaderIsTheWork(t, ch, share, block)
      BY ONLY <2>1, <3>1, BlockOfShare
    <3> QED BY <3>2 DEF HeaderIsTheWork, Nothing, BothKeys
  <2>9. /\ result.of.job = job /\ result.of.challenge = ch /\ result.of.share = share
        /\ result.of.validation = val /\ result.of.block = block
    BY ONLY <2>4
  <2> QED BY <2>6, <2>8, <2>9 DEF WorkComesBack
<1> QED BY <1>1, WorkHolds, PTL
=============================================================================
