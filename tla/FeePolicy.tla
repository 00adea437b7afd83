----------------------------- MODULE FeePolicy -----------------------------
(***************************************************************************)
(* The pool-fee policy of backend/fee_policy.py: a trial per payout        *)
(* address, then a platform fee in basis points.  Times are ticks on the   *)
(* scale of the trial (days in the code); amounts are satoshis.            *)
(***************************************************************************)
EXTENDS Integers

CONSTANTS TrialDays,        \* FeePolicy.trial_days
          TrialFeeBps,      \* FeePolicy.trial_fee_bps
          PostTrialFeeBps   \* FeePolicy.post_trial_fee_bps

FullBps == 10000   \* all of it, in basis points

\* The code reads the three from the environment as plain integers; a rate
\* above 10 000 bps would make a miner's part negative.
ASSUME FeePolicyAssumption ==
  /\ TrialDays \in Nat
  /\ TrialFeeBps \in 0..FullBps
  /\ PostTrialFeeBps \in 0..FullBps

trial_end_at(first) == first + TrialDays

effective_fee_bps(first, now) ==
  IF now < trial_end_at(first) THEN TrialFeeBps ELSE PostTrialFeeBps

\* Faulty variants: the rate taken for a percentage; the fee rounded up.
platform_fee_percent(gross, bps) == (gross * bps) \div 100
platform_fee_up(gross, bps) == (gross * bps + FullBps - 1) \div FullBps

\* The fee part of a reward, rounded down, so that the miner gets the dust.
platform_fee(gross, bps) == (gross * bps) \div FullBps

\* FeePolicy.split_reward_sat: the row that credit_reward adds to a balance.
split_reward_sat(gross, first, now) ==
  LET fee == platform_fee(gross, effective_fee_bps(first, now))
  IN  [gross |-> gross, fee |-> fee, payable |-> gross - fee]
=============================================================================
