--------------------------- MODULE LedgerPromise ---------------------------
(***************************************************************************)
(* What docs/ONBOARDING.md ("Payouts") promises a miner, with no word of   *)
(* tables, threads or processes: a debt that only grows until one batched  *)
(* transaction pays it whole; below the dust floor it rolls over.          *)
(***************************************************************************)
EXTENDS Integers

CONSTANTS Addresses, DustFloor

VARIABLES owed,   \* what the pool owes each address
          paid    \* what it has ever paid each address

Init == /\ owed = [a \in Addresses |-> 0]
        /\ paid = [a \in Addresses |-> 0]

\* A reward is credited to one address.
Credit == \E a \in Addresses :
            /\ owed'[a] > owed[a]
            /\ owed' = [owed EXCEPT ![a] = owed'[a]]
            /\ UNCHANGED paid

\* One transaction pays every address at or above the dust floor.
Due == {a \in Addresses : owed[a] >= DustFloor}

PayBatch == /\ Due # {}
            /\ paid' = [a \in Addresses |-> IF a \in Due THEN paid[a] + owed[a] ELSE paid[a]]
            /\ owed' = [a \in Addresses |-> IF a \in Due THEN 0 ELSE owed[a]]

Spec == Init /\ [][Credit \/ PayBatch]_<<owed, paid>>
=============================================================================
