------------------------------- MODULE Pplns -------------------------------
(***************************************************************************)
(* The arithmetic of BackendRepository.credit_pplns_reward: one pool       *)
(* reward is divided over the payout addresses by their accepted shares    *)
(* in the window; what the floors leave over goes, one satoshi each, to    *)
(* the largest remainders.                                                 *)
(*                                                                         *)
(* Addresses are numbers, whose order stands for the order of the address  *)
(* strings that the code breaks ties by.  counts maps each address that    *)
(* the query returns (so each count is positive) to its number of shares,  *)
(* and total is the number of shares in all.                               *)
(***************************************************************************)
EXTENDS FeePolicy, FiniteSets, FiniteSetsExt

FloorPart(gross, counts, total, a) == (gross * counts[a]) \div total

Remainder(gross, counts, total, a) == (gross * counts[a]) % total

SumOver(f, S) == MapThenSumSet(LAMBDA x : f[x], S)

\* remainder_sat: the satoshis the floors leave over.
LeftOver(gross, counts, total) ==
  gross - SumOver([a \in DOMAIN counts |-> FloorPart(gross, counts, total, a)], DOMAIN counts)

\* The sort key (-remainder, address): does b precede a?
Precedes(gross, counts, total, b, a) ==
  LET rb == Remainder(gross, counts, total, b)
      ra == Remainder(gross, counts, total, a)
  IN  rb > ra \/ (rb = ra /\ b < a)

\* Faulty variants of the two definitions that follow: the
\* leftover goes to one address too few; it all goes to the first; the sort
\* key is the address alone.
RankOffByOne(gross, counts, total, a) ==
  1 + Cardinality({b \in DOMAIN counts : Precedes(gross, counts, total, b, a)})

RankByAddress(gross, counts, total, a) == Cardinality({b \in DOMAIN counts : b < a})

AmountPiled(gross, counts, total, a) ==
  FloorPart(gross, counts, total, a)
    + (IF \E b \in DOMAIN counts : Precedes(gross, counts, total, b, a)
       THEN 0 ELSE LeftOver(gross, counts, total))

\* The index of a in the sorted list.
Rank(gross, counts, total, a) ==
  Cardinality({b \in DOMAIN counts : Precedes(gross, counts, total, b, a)})

\* What address a is allocated of the reward.
Amount(gross, counts, total, a) ==
  FloorPart(gross, counts, total, a)
    + (IF Rank(gross, counts, total, a) < LeftOver(gross, counts, total) THEN 1 ELSE 0)

Allocation(gross, counts, total) ==
  [a \in DOMAIN counts |-> Amount(gross, counts, total, a)]
=============================================================================
