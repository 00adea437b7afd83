---------------------------- MODULE MCPoolLedger ----------------------------
(***************************************************************************)
(* PoolLedger for TLC: the ledger as it runs when the operator keeps the   *)
(* pool from crediting during a payout.                                    *)
(***************************************************************************)
EXTENDS PoolLedger

\* No credit transaction between the plan of a payout and its settlement, as
\* when the operator stops the stratum server, its credits done, for the payout.
QuietNext == Next /\ (payout.pc # "idle" => credited' = credited)

QuietSpec == Init /\ [][QuietNext]_vars
=============================================================================
