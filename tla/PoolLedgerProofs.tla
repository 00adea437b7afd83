-------------------------- MODULE PoolLedgerProofs --------------------------
(***************************************************************************)
(* Proofs about PoolLedger, for every set of addresses and blocks, every   *)
(* policy, window and dust floor, and all bounds; in the end about the     *)
(* ledger when nothing is credited during a payout.                        *)
(***************************************************************************)
EXTENDS MCPoolLedger, PplnsProofs

(***************************************************************************)
(* Arithmetic.                                                             *)
(***************************************************************************)
LEMMA FullBpsPositive == FullBps \in Nat \ {0}
BY DEF FullBps

\* The fee is never more than what it is taken from.
LEMMA FeeWithin ==
  ASSUME NEW gross \in Nat, NEW bps \in 0..FullBps
  PROVE  platform_fee(gross, bps) \in Nat /\ platform_fee(gross, bps) <= gross
BY FullBpsPositive, ProductNat, ProductMonotone, QuotientNat, QuotientBound
   DEF platform_fee

\* credit_reward adds a row whose fee and payable parts make up the reward.
LEMMA SplitRow ==
  ASSUME NEW gross \in Nat, NEW first \in Int, NEW at \in Nat
  PROVE  /\ split_reward_sat(gross, first, at) \in Row
         /\ split_reward_sat(gross, first, at).gross = gross
         /\ split_reward_sat(gross, first, at).payable
              = gross - split_reward_sat(gross, first, at).fee
<1>1. PICK bps \in 0..FullBps : effective_fee_bps(first, at) = bps
  BY FeePolicyAssumption DEF effective_fee_bps
<1>2. PICK fee \in Nat : platform_fee(gross, bps) = fee /\ fee <= gross
  BY FeeWithin
<1>3. split_reward_sat(gross, first, at)
        = [gross |-> gross, fee |-> fee, payable |-> gross - fee]
  BY <1>1, <1>2 DEF split_reward_sat
<1> QED
  BY <1>3, <1>2 DEF Row

LEMMA AddRowsRow ==
  ASSUME NEW r \in Row, NEW s \in Row
  PROVE  AddRows(r, s) \in Row
BY DEF Row, AddRows

\* What the query and the division yield is a number of satoshis per address.
LEMMA AllocationNat ==
  ASSUME TypeOK, InWindow # {}, NEW gross \in Nat
  PROVE  AllocationOf(gross) \in [Addresses -> Nat]
<1>1. IsFiniteSet(InWindow)
  BY FS_Subset DEF TypeOK, InWindow
<1>2. Cardinality(InWindow) \in Nat \ {0}
  BY <1>1, FS_CardinalityType, FS_EmptySet
<1>3. ASSUME NEW a \in Recipients
      PROVE  Amount(gross, ShareCounts, Cardinality(InWindow), a) \in Nat
  <2>1. ShareCounts[a] \in Nat
    <3>1. IsFiniteSet({s \in InWindow : s.address = a})
      BY <1>1, FS_Subset
    <3> QED
      BY <3>1, FS_CardinalityType DEF ShareCounts
  <2>2. FloorPart(gross, ShareCounts, Cardinality(InWindow), a) \in Nat
    BY <1>2, <2>1, ProductNat, QuotientNat DEF FloorPart
  <2> QED
    BY <2>2 DEF Amount
<1> QED
  BY <1>3 DEF AllocationOf
-----------------------------------------------------------------------------
(***************************************************************************)
(* Type correctness.                                                       *)
(***************************************************************************)
LEMMA ConstantRows ==
  /\ ZeroRow \in Row
  /\ NoRows \in [Addresses -> Row]
  /\ Zero \in [Addresses -> Nat]
  /\ Stopped \in [pc : PayoutPc, plan : [Addresses -> Row], rows : [Addresses -> Row]]
BY DEF ZeroRow, NoRows, Zero, Row, Stopped, PayoutPc

LEMMA EnsureMinerTyped ==
  ASSUME TypeOK, NEW a \in Addresses, EnsureMiner(a)
  PROVE  created' \in [Addresses -> Times]
BY DEF TypeOK, EnsureMiner, Times

LEMMA InsertShareTyped ==
  ASSUME TypeOK, NEW a \in Addresses, NEW ok \in BOOLEAN, InsertShare(a, ok)
  PROVE  /\ created' \in [Addresses -> Times]
         /\ firstShare' \in [Addresses -> Times]
         /\ shares' \subseteq Share /\ IsFiniteSet(shares')
<1>1. created' \in [Addresses -> Times]
  BY EnsureMinerTyped DEF InsertShare
<1>2. firstShare' \in [Addresses -> Times]
  BY DEF TypeOK, InsertShare, FirstShareStamp, Times
<1> DEFINE alike == {s \in shares : s.address = a /\ s.accepted = ok /\ s.at = now}
           row == [n |-> Cardinality(alike), address |-> a, accepted |-> ok, at |-> now]
<1>3. Cardinality(alike) \in Nat
  <2>1. IsFiniteSet(alike)
    BY FS_Subset DEF TypeOK
  <2> QED
    BY <2>1, FS_CardinalityType
<1>4. row \in Share
  BY <1>3 DEF TypeOK, Share
<1>5. shares' = shares \cup {row}
  BY DEF InsertShare
<1>6. IsFiniteSet(shares')
  BY <1>5, FS_AddElement DEF TypeOK
<1> QED
  BY <1>1, <1>2, <1>4, <1>5, <1>6 DEF TypeOK

LEMMA ListPayableTyped ==
  ASSUME TypeOK
  PROVE  ListPayable \in [Addresses -> Row]
BY ConstantRows DEF TypeOK, ListPayable

\* The row that a credit adds, in full.
LEMMA SplitForRow ==
  ASSUME TypeOK, NEW b \in Blocks, NEW a \in Addresses
  PROVE  /\ SplitFor(b, a) \in Row
         /\ SplitFor(b, a).gross = credit[b].todo[a]
         /\ SplitFor(b, a).payable = credit[b].todo[a] - SplitFor(b, a).fee
<1>1. credit[b].todo[a] \in Nat /\ credit[b].when \in Nat
  BY DEF TypeOK
<1>2. FirstShareOf(a) \in Int
  BY DEF TypeOK, FirstShareOf, Times, NoTime
<1> QED
  BY <1>1, <1>2, SplitRow DEF SplitFor

LEMMA TypeInit == Init => TypeOK
BY ConstantRows, FS_EmptySet
   DEF Init, TypeOK, Times, NoTime, CreditPc, PayoutPc

LEMMA TypeNext == TypeOK /\ [Next]_vars => TypeOK'
<1> SUFFICES ASSUME TypeOK, [Next]_vars
             PROVE  TypeOK'
  OBVIOUS
<1> USE DEF minerVars, bookVars, blockVars, payVars
<1>1. CASE Tick
  BY <1>1 DEF TypeOK, Tick
<1>2. ASSUME NEW a \in Addresses, Authorize(a)
      PROVE  TypeOK'
  BY <1>2, EnsureMinerTyped DEF TypeOK, Authorize
<1>3. ASSUME NEW a \in Addresses, NEW ok \in BOOLEAN, RecordShare(a, ok)
      PROVE  TypeOK'
  <2>1. InsertShare(a, ok)
    BY <1>3 DEF RecordShare
  <2> QED
    BY <1>3, <2>1, InsertShareTyped DEF TypeOK, RecordShare
<1>4. ASSUME NEW a \in Addresses, NEW b \in Blocks, NEW gross \in Rewards,
             BlockShare(a, b, gross)
      PROVE  TypeOK'
  <2>1. InsertShare(a, TRUE)
    BY <1>4 DEF BlockShare
  <2>2. credit' \in [Blocks -> [pc : CreditPc, gross : Nat, when : Nat,
                                todo : [Addresses -> Nat]]]
    BY <1>4, LedgerAssumption, ConstantRows DEF TypeOK, BlockShare, CreditPc
  <2> QED
    BY <1>4, <2>1, <2>2, InsertShareTyped DEF TypeOK, BlockShare
<1>5. ASSUME NEW b \in Blocks, SubmitAccepted(b)
      PROVE  TypeOK'
  BY <1>5 DEF TypeOK, SubmitAccepted, CreditPc
<1>6. ASSUME NEW b \in Blocks, SubmitRejected(b)
      PROVE  TypeOK'
  BY <1>6 DEF TypeOK, SubmitRejected, CreditPc
<1>7. ASSUME NEW b \in Blocks, SubmitError(b)
      PROVE  TypeOK'
  <2>1. credit' \in [Blocks -> [pc : CreditPc, gross : Nat, when : Nat,
                                todo : [Addresses -> Nat]]]
    BY <1>7 DEF TypeOK, SubmitError, CreditPc
  <2>2. earned' \subseteq Blocks
    BY <1>7 DEF TypeOK, SubmitError
  <2>3. faults' \in Nat
    BY <1>7 DEF TypeOK, SubmitError, Fault
  <2>4. UNCHANGED <<now, minerVars, bookVars, payVars>>
    BY <1>7 DEF SubmitError
  <2> QED
    BY <2>1, <2>2, <2>3, <2>4 DEF TypeOK, minerVars, bookVars, payVars
<1>8. ASSUME NEW b \in Blocks, Snapshot(b)
      PROVE  TypeOK'
  <2>1. credit[b].gross \in Nat
    BY DEF TypeOK
  <2>2. InWindow # {} => AllocationOf(credit[b].gross) \in [Addresses -> Nat]
    BY <2>1, AllocationNat
  <2>3. credit' \in [Blocks -> [pc : CreditPc, gross : Nat, when : Nat,
                                todo : [Addresses -> Nat]]]
    <3>1. CASE InWindow # {}
      <4>1. PICK drawn \in [Addresses -> Nat] :
              credit' = [credit EXCEPT ![b] = [@ EXCEPT !.pc = "allocating", !.when = now,
                                                        !.todo = drawn]]
        BY <1>8, <2>2, <3>1 DEF Snapshot
      <4>2. /\ credit \in [Blocks -> [pc : CreditPc, gross : Nat, when : Nat,
                                       todo : [Addresses -> Nat]]]
            /\ now \in Nat
        BY DEF TypeOK
      <4>3. [credit[b] EXCEPT !.pc = "allocating", !.when = now, !.todo = drawn]
              \in [pc : CreditPc, gross : Nat, when : Nat, todo : [Addresses -> Nat]]
        BY <4>2 DEF CreditPc
      <4> QED
        BY <4>1, <4>2, <4>3
    <3>2. CASE InWindow = {}
      <4>1. credit' = [credit EXCEPT ![b].pc = "unallocated"]
        BY <1>8, <3>2 DEF Snapshot
      <4> QED
        BY <4>1 DEF TypeOK, CreditPc
    <3> QED
      BY <3>1, <3>2
  <2> QED
    BY <1>8, <2>3 DEF TypeOK, Snapshot
<1>9. ASSUME NEW a \in Addresses, NEW b \in Blocks, CreditReward(b, a)
      PROVE  TypeOK'
  <2>1. created' \in [Addresses -> Times]
    BY <1>9, EnsureMinerTyped DEF CreditReward
  <2>2. balances' \in [Addresses -> Row]
    BY <1>9, SplitForRow, AddRowsRow DEF TypeOK, CreditReward
  <2>3. feeLedger' \in [Addresses -> Nat]
    <3>1. SplitFor(b, a).fee \in Nat
      BY SplitForRow DEF Row
    <3> QED
      BY <1>9, <3>1 DEF TypeOK, CreditReward
  <2>4. credited' \in [Addresses -> Nat]
    BY <1>9 DEF TypeOK, CreditReward
  <2>5. credit' \in [Blocks -> [pc : CreditPc, gross : Nat, when : Nat,
                                todo : [Addresses -> Nat]]]
    BY <1>9 DEF TypeOK, CreditReward, ClearTodo
  <2> QED
    BY <1>9, <2>1, <2>2, <2>3, <2>4, <2>5 DEF TypeOK, CreditReward
<1>10. ASSUME NEW b \in Blocks, FinishCredit(b)
       PROVE  TypeOK'
  BY <1>10 DEF TypeOK, FinishCredit, CreditPc
<1>11. ASSUME NEW b \in Blocks
       PROVE  Abandoned(credit[b]) \in [pc : CreditPc, gross : Nat, when : Nat,
                                        todo : [Addresses -> Nat]]
  BY DEF TypeOK, Abandoned, CreditPc
<1>12. ASSUME NEW b \in Blocks, CreditError(b)
       PROVE  TypeOK'
  BY <1>11, <1>12 DEF TypeOK, CreditError, Fault
<1>13. CASE ServerCrash
  <2>1. credit' \in [Blocks -> [pc : CreditPc, gross : Nat, when : Nat,
                                todo : [Addresses -> Nat]]]
    BY <1>11, <1>13 DEF ServerCrash
  <2>2. earned' \subseteq Blocks
    BY <1>13 DEF TypeOK, ServerCrash
  <2> QED
    BY <1>13, <2>1, <2>2 DEF TypeOK, ServerCrash, Fault
<1>14. CASE PlanPayout
  <2>1. payout' \in [pc : PayoutPc, plan : [Addresses -> Row], rows : [Addresses -> Row]]
    BY <1>14, ListPayableTyped DEF TypeOK, PlanPayout, PayoutPc
  <2> QED
    BY <1>14, <2>1 DEF TypeOK, PlanPayout
<1>15. ASSUME Broadcast
       PROVE  chain' \in [Addresses -> [paid : Nat, fee : Nat]]
  BY <1>15 DEF TypeOK, Broadcast, Row
<1>16. CASE SendMany
  BY <1>15, <1>16 DEF TypeOK, SendMany, PayoutPc
<1>17. CASE SendError
  BY <1>15, <1>17, ConstantRows DEF TypeOK, SendError, Fault
<1>18. CASE ListForSettle
  BY <1>18, ListPayableTyped DEF TypeOK, ListForSettle, SettleRows, PayoutPc
<1>19. CASE Settle
  <2>1. journal' \in [Addresses -> Row]
    BY <1>19, AddRowsRow DEF TypeOK, Settle
  <2>2. balances' \in [Addresses -> Row]
    BY <1>19, ConstantRows DEF TypeOK, Settle, SettledBalances
  <2> QED
    BY <1>19, <2>1, <2>2, ConstantRows DEF TypeOK, Settle
<1>20. CASE PayoutCrash
  BY <1>20, ConstantRows DEF TypeOK, PayoutCrash, Fault
<1>21. CASE UNCHANGED vars
  BY <1>21 DEF TypeOK, vars
<1> QED
  BY <1>1, <1>2, <1>3, <1>4, <1>5, <1>6, <1>7, <1>8, <1>9, <1>10, <1>12, <1>13,
     <1>14, <1>16, <1>17, <1>18, <1>19, <1>20, <1>21 DEF Next

\* The tables, the threads and the worker keep their types.
THEOREM TypeCorrect == Spec => []TypeOK
<1>1. Init => TypeOK
  BY TypeInit
<1>2. TypeOK /\ [Next]_vars => TypeOK'
  BY TypeNext
<1> QED
  BY <1>1, <1>2, PTL DEF Spec
-----------------------------------------------------------------------------
(***************************************************************************)
(* The books: settlements and the chain against what was credited.         *)
(***************************************************************************)
LEMMA RowLeqTransitive ==
  ASSUME NEW r \in Row, NEW s \in Row, NEW t \in Row, RowLeq(r, s), RowLeq(s, t)
  PROVE  RowLeq(r, t)
BY DEF Row, RowLeq

LEMMA ListPayableLeq ==
  ASSUME TypeOK
  PROVE  /\ OnlyListed(ListPayable)
         /\ \A a \in Addresses : RowLeq(ListPayable[a], balances[a])
         /\ \A rows \in [Addresses -> Row] :
              OnlyListed(rows) =>
                \A a \in Addresses :
                  RowLeq(rows[a], balances[a]) => RowLeq(rows[a], ListPayable[a])
<1>1. DustFloor \in Nat \ {0}
  BY LedgerAssumption
<1>2. OnlyListed(ListPayable)
  BY <1>1 DEF OnlyListed, Listed, ListPayable
<1>3. ASSUME NEW a \in Addresses
      PROVE  RowLeq(ListPayable[a], balances[a])
  BY DEF TypeOK, Row, RowLeq, ListPayable, ZeroRow
<1>4. ASSUME NEW rows \in [Addresses -> Row], OnlyListed(rows),
             NEW a \in Addresses, RowLeq(rows[a], balances[a])
      PROVE  RowLeq(rows[a], ListPayable[a])
  <2>1. CASE Listed(rows, a)
    <3>1. Listed(balances, a)
      BY <1>1, <1>4, <2>1 DEF TypeOK, Row, RowLeq, Listed
    <3> QED
      BY <1>4, <3>1 DEF ListPayable
  <2>2. CASE ~Listed(rows, a)
    <3>1. rows[a] = ZeroRow
      BY <1>4, <2>2 DEF OnlyListed
    <3>2. ListPayable[a] \in Row
      BY ListPayableTyped
    <3> QED
      BY <3>1, <3>2 DEF ZeroRow, Row, RowLeq
  <2> QED
    BY <2>1, <2>2
<1> QED
  BY <1>2, <1>3, <1>4

LEMMA NoRowsLeq ==
  ASSUME TypeOK
  PROVE  /\ OnlyListed(NoRows)
         /\ \A a \in Addresses : RowLeq(NoRows[a], balances[a])
BY DEF TypeOK, Row, OnlyListed, RowLeq, NoRows, ZeroRow

LEMMA BooksInit == Init => BooksInv
<1> SUFFICES ASSUME Init PROVE BooksInv
  OBVIOUS
<1>1. TypeOK
  BY TypeInit
<1>2. ReadsHold
  BY <1>1, NoRowsLeq DEF Init, ReadsHold
<1>3. NeverOverSettled /\ ChainBacked
  BY DEF Init, NeverOverSettled, NetCredited, ChainBacked, InFlight, NoRows, Zero, ZeroRow
<1> QED
  BY <1>1, <1>2, <1>3 DEF BooksInv

\* An action that touches neither the books nor the worker.
LEMMA BooksUntouched ==
  ASSUME BooksInv, TypeOK', UNCHANGED <<bookVars, payVars>>,
         faults = 0 \/ faults' # 0
  PROVE  BooksInv'
BY DEF BooksInv, bookVars, payVars, ReadsHold, OnlyListed, Listed, RowLeq,
       NeverOverSettled, NetCredited, ChainBacked, InFlight

\* A credit raises a balance by what it adds to the credits and the fee ledger.
LEMMA BooksCredit ==
  ASSUME BooksInv, TypeOK', NEW a \in Addresses, NEW b \in Blocks, CreditReward(b, a)
  PROVE  BooksInv'
<1> USE DEF bookVars, payVars
<1>1. PICK s \in Row : /\ SplitFor(b, a) = s
                       /\ s.gross = credit[b].todo[a]
                       /\ s.payable = credit[b].todo[a] - s.fee
  BY SplitForRow DEF BooksInv
<1>2. /\ balances' = [balances EXCEPT ![a] = AddRows(@, s)]
      /\ feeLedger' = [feeLedger EXCEPT ![a] = @ + s.fee]
      /\ credited' = [credited EXCEPT ![a] = @ + s.gross]
      /\ UNCHANGED <<payVars, faults>>
  BY <1>1 DEF CreditReward
<1>3. \A c \in Addresses : RowLeq(balances[c], balances'[c])
  BY <1>2 DEF BooksInv, TypeOK, Row, RowLeq, AddRows
<1>4. ReadsHold'
  <2>1. ASSUME NEW c \in Addresses
        PROVE  /\ RowLeq(payout.plan[c], balances'[c])
               /\ RowLeq(payout.rows[c], balances'[c])
    <3>1. /\ RowLeq(payout.plan[c], balances[c])
          /\ RowLeq(payout.rows[c], balances[c])
      BY DEF BooksInv, ReadsHold, RowLeq
    <3>2. /\ payout.plan[c] \in Row /\ payout.rows[c] \in Row
          /\ balances[c] \in Row /\ balances'[c] \in Row
      BY DEF BooksInv, TypeOK
    <3> QED
      BY <1>3, <3>1, <3>2, RowLeqTransitive
  <2> QED
    BY <1>2, <2>1 DEF BooksInv, payVars, ReadsHold, OnlyListed, Listed, RowLeq
<1>5. NeverOverSettled'
  <2> SUFFICES ASSUME NEW c \in Addresses
               PROVE  /\ journal[c].gross + balances'[c].gross <= credited'[c]
                      /\ journal[c].fee + balances'[c].fee <= feeLedger'[c]
                      /\ journal[c].payable + balances'[c].payable
                           <= credited'[c] - feeLedger'[c]
    BY <1>2 DEF NeverOverSettled, NetCredited
  <2>1. CASE c = a
    BY <1>1, <1>2, <2>1
       DEF BooksInv, TypeOK, Row, AddRows, NeverOverSettled, NetCredited
  <2>2. CASE c # a
    BY <1>2, <2>2 DEF BooksInv, TypeOK, NeverOverSettled, NetCredited
  <2> QED
    BY <2>1, <2>2
<1>6. ChainBacked'
  BY <1>2 DEF BooksInv, ChainBacked, InFlight
<1> QED
  BY <1>4, <1>5, <1>6 DEF BooksInv

\* The worker's process ends without a settlement: only after a fault.
LEMMA BooksStopped ==
  ASSUME BooksInv, TypeOK', Fault, payout' = Stopped, UNCHANGED <<bookVars, journal>>
  PROVE  BooksInv'
<1> USE DEF bookVars
<1>1. ReadsHold'
  BY NoRowsLeq DEF BooksInv, ReadsHold, Stopped, OnlyListed, Listed, RowLeq
<1>2. NeverOverSettled'
  BY DEF BooksInv, NeverOverSettled, NetCredited
<1>3. faults' # 0
  BY DEF BooksInv, TypeOK, Fault
<1> QED
  BY <1>1, <1>2, <1>3 DEF BooksInv, ChainBacked

\* The settlement moves no more than the balance to the journal, and what it
\* moves covers the transaction in flight.
LEMMA BooksSettle ==
  ASSUME BooksInv, TypeOK', Settle
  PROVE  BooksInv'
<1> USE DEF bookVars
<1>1. /\ journal' = [a \in Addresses |-> AddRows(journal[a], payout.rows[a])]
      /\ balances' = [a \in Addresses |-> IF Listed(payout.rows, a) THEN ZeroRow
                                          ELSE balances[a]]
      /\ payout' = Stopped /\ payout.pc = "listed"
      /\ UNCHANGED <<feeLedger, credited, chain, faults>>
  BY DEF Settle, SettledBalances
<1>2. ReadsHold'
  <2>1. OnlyListed(NoRows) /\ payout'.plan = NoRows /\ payout'.rows = NoRows
        /\ payout'.pc = "idle"
    BY <1>1, NoRowsLeq DEF BooksInv, Stopped
  <2>2. \A a \in Addresses : RowLeq(NoRows[a], balances'[a])
    BY DEF TypeOK, Row, RowLeq, NoRows, ZeroRow
  <2> QED
    BY <2>1, <2>2 DEF ReadsHold, OnlyListed, Listed, RowLeq
<1>3. ASSUME NEW a \in Addresses
      PROVE  RowLeq(AddRows(payout.rows[a], balances'[a]), balances[a])
  <2>1. RowLeq(payout.rows[a], balances[a])
    BY DEF BooksInv, ReadsHold, RowLeq
  <2>2. payout.rows[a] \in Row /\ balances[a] \in Row
    BY DEF BooksInv, TypeOK
  <2>3. CASE Listed(payout.rows, a)
    BY <1>1, <2>1, <2>2, <2>3 DEF RowLeq, Row, AddRows, ZeroRow
  <2>4. CASE ~Listed(payout.rows, a)
    <3>1. payout.rows[a] = ZeroRow
      BY <2>4 DEF BooksInv, ReadsHold, OnlyListed
    <3> QED
      BY <1>1, <2>1, <2>2, <2>4, <3>1 DEF RowLeq, Row, AddRows, ZeroRow
  <2> QED
    BY <2>3, <2>4
<1>4. NeverOverSettled'
  <2> SUFFICES ASSUME NEW a \in Addresses
               PROVE  /\ journal'[a].gross + balances'[a].gross <= credited[a]
                      /\ journal'[a].fee + balances'[a].fee <= feeLedger[a]
                      /\ journal'[a].payable + balances'[a].payable
                           <= credited[a] - feeLedger[a]
    BY <1>1 DEF NeverOverSettled, NetCredited
  <2>1. /\ journal[a].gross + balances[a].gross <= credited[a]
        /\ journal[a].fee + balances[a].fee <= feeLedger[a]
        /\ journal[a].payable + balances[a].payable <= credited[a] - feeLedger[a]
    BY DEF BooksInv, NeverOverSettled, NetCredited
  <2>2. /\ journal[a] \in Row /\ payout.rows[a] \in Row
        /\ balances[a] \in Row /\ balances'[a] \in Row
        /\ credited[a] \in Nat /\ feeLedger[a] \in Nat
    BY DEF BooksInv, TypeOK
  <2>3. journal'[a] = AddRows(journal[a], payout.rows[a])
    BY <1>1
  <2> QED
    BY <1>3, <2>1, <2>2, <2>3 DEF RowLeq, AddRows, Row
<1>5. ChainBacked'
  <2> SUFFICES ASSUME faults' = 0, NEW a \in Addresses
               PROVE  /\ chain'[a].paid <= journal'[a].payable + InFlight(a)'.payable
                      /\ chain'[a].fee <= journal'[a].fee + InFlight(a)'.fee
    BY DEF ChainBacked
  <2>1. InFlight(a) = payout.plan[a] /\ InFlight(a)' = ZeroRow
    BY <1>1 DEF InFlight, Stopped
  <2>2. /\ chain[a].paid <= journal[a].payable + payout.plan[a].payable
        /\ chain[a].fee <= journal[a].fee + payout.plan[a].fee
    BY <1>1, <2>1 DEF BooksInv, ChainBacked
  <2>3. RowLeq(payout.plan[a], payout.rows[a])
    BY <1>1 DEF BooksInv, ReadsHold, RowLeq
  <2>4. /\ journal[a] \in Row /\ payout.rows[a] \in Row /\ payout.plan[a] \in Row
        /\ chain[a] \in [paid : Nat, fee : Nat]
    BY DEF BooksInv, TypeOK
  <2> QED
    BY <1>1, <2>1, <2>2, <2>3, <2>4 DEF RowLeq, AddRows, Row, ZeroRow
<1> QED
  BY <1>2, <1>4, <1>5 DEF BooksInv

LEMMA BooksNext == BooksInv /\ [Next]_vars => BooksInv'
<1> SUFFICES ASSUME BooksInv, [Next]_vars
             PROVE  BooksInv'
  OBVIOUS
<1>0. TypeOK /\ TypeOK'
  BY TypeNext DEF BooksInv
<1> USE DEF bookVars, payVars, blockVars
<1>1. CASE Tick
  BY <1>0, <1>1, BooksUntouched DEF Tick
<1>2. ASSUME NEW a \in Addresses, Authorize(a)
      PROVE  BooksInv'
  BY <1>0, <1>2, BooksUntouched DEF Authorize
<1>3. ASSUME NEW a \in Addresses, NEW ok \in BOOLEAN, RecordShare(a, ok)
      PROVE  BooksInv'
  BY <1>0, <1>3, BooksUntouched DEF RecordShare
<1>4. ASSUME NEW a \in Addresses, NEW b \in Blocks, NEW gross \in Rewards,
             BlockShare(a, b, gross)
      PROVE  BooksInv'
  BY <1>0, <1>4, BooksUntouched DEF BlockShare
<1>5. ASSUME NEW b \in Blocks, SubmitAccepted(b) \/ SubmitRejected(b) \/ Snapshot(b)
                                \/ FinishCredit(b)
      PROVE  BooksInv'
  BY <1>0, <1>5, BooksUntouched DEF SubmitAccepted, SubmitRejected, Snapshot, FinishCredit
<1>6. Fault => faults' # 0
  BY <1>0 DEF TypeOK, Fault
<1>7. ASSUME NEW b \in Blocks, SubmitError(b) \/ CreditError(b)
      PROVE  BooksInv'
  BY <1>0, <1>6, <1>7, BooksUntouched DEF SubmitError, CreditError
<1>8. CASE ServerCrash
  BY <1>0, <1>6, <1>8, BooksUntouched DEF ServerCrash
<1>9. ASSUME NEW a \in Addresses, NEW b \in Blocks, CreditReward(b, a)
      PROVE  BooksInv'
  BY <1>0, <1>9, BooksCredit
<1>10. CASE PlanPayout
  <2>1. /\ payout' = [payout EXCEPT !.pc = "planned", !.plan = ListPayable]
        /\ payout.pc = "idle"
        /\ UNCHANGED <<bookVars, journal, chain, faults>>
    BY <1>10 DEF PlanPayout
  <2>2. /\ payout'.pc = "planned" /\ payout'.plan = ListPayable
        /\ payout'.rows = payout.rows
    BY <1>0, <2>1 DEF TypeOK
  <2>3. ReadsHold'
    BY <1>0, <2>1, <2>2, ListPayableLeq
       DEF BooksInv, ReadsHold, OnlyListed, Listed, RowLeq
  <2>4. ASSUME NEW a \in Addresses
        PROVE  InFlight(a)' = InFlight(a)
    BY <2>1, <2>2 DEF InFlight
  <2> QED
    BY <1>0, <2>1, <2>3, <2>4 DEF BooksInv, NeverOverSettled, NetCredited, ChainBacked
<1>11. CASE SendMany
  <2>1. /\ payout' = [payout EXCEPT !.pc = "sent"]
        /\ payout.pc = "planned"
        /\ UNCHANGED <<bookVars, journal, faults>>
    BY <1>11 DEF SendMany
  <2>2. /\ payout'.pc = "sent" /\ payout'.plan = payout.plan
        /\ payout'.rows = payout.rows
    BY <1>0, <2>1 DEF TypeOK
  <2>3. ReadsHold'
    BY <2>1, <2>2 DEF BooksInv, ReadsHold, OnlyListed, Listed, RowLeq
  <2>4. ChainBacked'
    <3> SUFFICES ASSUME faults = 0, NEW a \in Addresses
                 PROVE  /\ chain'[a].paid <= journal[a].payable + InFlight(a)'.payable
                        /\ chain'[a].fee <= journal[a].fee + InFlight(a)'.fee
      BY <2>1 DEF ChainBacked
    <3>1. InFlight(a) = ZeroRow /\ InFlight(a)' = payout.plan[a]
      BY <2>1, <2>2 DEF InFlight
    <3>2. chain[a].paid <= journal[a].payable /\ chain[a].fee <= journal[a].fee
      BY <1>0, <3>1 DEF BooksInv, ChainBacked, ZeroRow, TypeOK, Row
    <3>3. /\ journal[a] \in Row /\ payout.plan[a] \in Row
          /\ chain[a] \in [paid : Nat, fee : Nat]
      BY <1>0 DEF TypeOK
    <3>4. /\ chain'[a].paid = chain[a].paid + payout.plan[a].payable
          /\ chain'[a].fee <= chain[a].fee + payout.plan[a].fee
      BY <1>11, <3>3 DEF SendMany, Broadcast, Row
    <3>5. chain'[a] \in [paid : Nat, fee : Nat]
      BY <1>0 DEF TypeOK
    <3> QED
      BY <3>1, <3>2, <3>3, <3>4, <3>5 DEF Row
  <2> QED
    BY <1>0, <2>1, <2>3, <2>4 DEF BooksInv, NeverOverSettled, NetCredited
<1>12. CASE SendError
  BY <1>0, <1>12, BooksStopped DEF SendError
<1>13. CASE ListForSettle
  <2>1. /\ payout' = [payout EXCEPT !.pc = "listed", !.rows = ListPayable]
        /\ payout.pc = "sent"
        /\ UNCHANGED <<bookVars, journal, chain, faults>>
    BY <1>13 DEF ListForSettle, SettleRows
  <2>2. /\ payout'.pc = "listed" /\ payout'.plan = payout.plan
        /\ payout'.rows = ListPayable
    BY <1>0, <2>1 DEF TypeOK
  <2>3. ASSUME NEW a \in Addresses
        PROVE  RowLeq(payout.plan[a], ListPayable[a])
    <3>1. /\ payout.plan \in [Addresses -> Row] /\ OnlyListed(payout.plan)
          /\ RowLeq(payout.plan[a], balances[a])
      BY <1>0 DEF BooksInv, TypeOK, ReadsHold
    <3> QED
      BY <1>0, <3>1, ListPayableLeq
  <2>4. ReadsHold'
    BY <1>0, <2>1, <2>2, <2>3, ListPayableLeq
       DEF BooksInv, ReadsHold, OnlyListed, Listed, RowLeq
  <2>5. ASSUME NEW a \in Addresses
        PROVE  InFlight(a)' = InFlight(a)
    BY <2>1, <2>2 DEF InFlight
  <2> QED
    BY <1>0, <2>1, <2>4, <2>5 DEF BooksInv, NeverOverSettled, NetCredited, ChainBacked
<1>14. CASE Settle
  BY <1>0, <1>14, BooksSettle
<1>15. CASE PayoutCrash
  BY <1>0, <1>15, BooksStopped DEF PayoutCrash
<1>16. CASE UNCHANGED vars
  BY <1>0, <1>16, BooksUntouched DEF vars
<1> QED
  BY <1>1, <1>2, <1>3, <1>4, <1>5, <1>7, <1>8, <1>9, <1>10, <1>11, <1>12, <1>13,
     <1>14, <1>15, <1>16 DEF Next

LEMMA BooksInvariant == Spec => []BooksInv
BY BooksInit, BooksNext, PTL DEF Spec

\* No interleaving of credits, payouts and faults lets a settlement journal
\* more than was credited.
THEOREM SettlementBounded == Spec => []NeverOverSettled
<1>1. BooksInv => NeverOverSettled
  BY DEF BooksInv
<1> QED
  BY <1>1, BooksInvariant, PTL

\* As long as nothing has failed, the chain pays no more than was credited.
THEOREM ChainBounded == Spec => []NoOverpay
<1>1. BooksInv => NoOverpay
  <2> SUFFICES ASSUME BooksInv, faults = 0, NEW a \in Addresses
               PROVE  chain[a].paid <= NetCredited(a) /\ chain[a].fee <= feeLedger[a]
    BY DEF NoOverpay
  <2>1. /\ chain[a].paid <= journal[a].payable + InFlight(a).payable
        /\ chain[a].fee <= journal[a].fee + InFlight(a).fee
    BY DEF BooksInv, ChainBacked
  <2>2. RowLeq(InFlight(a), balances[a]) /\ InFlight(a) \in Row
    BY ConstantRows DEF BooksInv, TypeOK, ReadsHold, InFlight, RowLeq, Row, ZeroRow
  <2>3. /\ journal[a].fee + balances[a].fee <= feeLedger[a]
        /\ journal[a].payable + balances[a].payable <= credited[a] - feeLedger[a]
    BY DEF BooksInv, NeverOverSettled, NetCredited
  <2>4. /\ journal[a] \in Row /\ balances[a] \in Row
        /\ chain[a] \in [paid : Nat, fee : Nat]
        /\ credited[a] \in Nat /\ feeLedger[a] \in Nat
    BY DEF BooksInv, TypeOK
  <2> QED
    BY <2>1, <2>2, <2>3, <2>4 DEF RowLeq, Row, NetCredited
<1> QED
  BY <1>1, BooksInvariant, PTL
-----------------------------------------------------------------------------
(***************************************************************************)
(* The trial: what the fee is charged on, and since when.                  *)
(***************************************************************************)
LEMMA WorkInit == Init => WorkInv
<1> SUFFICES ASSUME Init PROVE WorkInv
  OBVIOUS
<1>1. TypeOK
  BY TypeInit
<1> QED
  BY <1>1 DEF Init, WorkInv, Zero

LEMMA InsertedRow ==
  ASSUME TypeOK', NEW a \in Addresses, NEW ok \in BOOLEAN, InsertShare(a, ok)
  PROVE  \E row \in Share : /\ shares' = shares \cup {row}
                            /\ row.address = a /\ row.accepted = ok /\ row.at = now
<1> DEFINE alike == {s \in shares : s.address = a /\ s.accepted = ok /\ s.at = now}
           new == [n |-> Cardinality(alike), address |-> a, accepted |-> ok, at |-> now]
<1>1. shares' = shares \cup {new}
  BY DEF InsertShare
<1>2. new \in Share
  BY <1>1 DEF TypeOK
<1> HIDE DEF alike
<1>3. new.address = a /\ new.accepted = ok /\ new.at = now
  OBVIOUS
<1> QED
  BY <1>1, <1>2, <1>3

\* A share's row and stamp, whoever else is at work.
LEMMA WorkShare ==
  ASSUME WorkInv, TypeOK', NEW a \in Addresses, NEW ok \in BOOLEAN, InsertShare(a, ok),
         now' = now, credited' = credited,
         \A b \in Blocks : /\ credit'[b].when <= now
                           /\ \A c \in Addresses :
                                 credit'[b].todo[c] > 0 => credit[b].todo[c] > 0
  PROVE  WorkInv'
<1>1. PICK row \in Share : /\ shares' = shares \cup {row}
                           /\ row.address = a /\ row.accepted = ok /\ row.at = now
  BY InsertedRow
<1>2. firstShare' = [firstShare EXCEPT ![a] = IF ok /\ firstShare[a] = NoTime
                                              THEN now ELSE firstShare[a]]
  BY DEF InsertShare, FirstShareStamp
<1>3. now # NoTime
  BY DEF WorkInv, TypeOK, NoTime
<1>4. ASSUME NEW c \in Addresses, firstShare[c] # NoTime
      PROVE  firstShare'[c] = firstShare[c]
  BY <1>2, <1>4 DEF WorkInv, TypeOK
<1>5. ASSUME NEW c \in Addresses, firstShare'[c] # NoTime
      PROVE  \E s \in shares' : s.accepted /\ s.address = c /\ s.at = firstShare'[c]
  <2>1. CASE firstShare[c] # NoTime
    <3>1. HasWork(c, firstShare[c])
      BY <2>1 DEF WorkInv
    <3> QED
      BY <1>1, <1>4, <2>1, <3>1 DEF HasWork
  <2>2. CASE firstShare[c] = NoTime
    <3>1. c = a /\ ok /\ firstShare'[c] = now
      BY <1>2, <1>5, <2>2 DEF WorkInv, TypeOK
    <3> QED
      BY <1>1, <3>1 DEF HasWork
  <2> QED
    BY <2>1, <2>2
<1>6. ASSUME NEW s \in shares', s.accepted
      PROVE  firstShare'[s.address] # NoTime
  <2>1. CASE s \in shares
    <3>1. s.address \in Addresses
      BY <2>1 DEF WorkInv, TypeOK, Share
    <3>2. firstShare[s.address] # NoTime
      BY <1>6, <2>1 DEF WorkInv
    <3> QED
      BY <1>4, <3>1, <3>2
  <2>2. CASE s = row
    BY <1>1, <1>2, <1>3, <1>6, <2>2 DEF WorkInv, TypeOK
  <2> QED
    BY <1>1, <2>1, <2>2
<1>7. ASSUME NEW c \in Addresses, firstShare[c] # NoTime
      PROVE  firstShare'[c] # NoTime
  BY <1>4, <1>7
<1>8. ASSUME NEW b \in Blocks, NEW c \in Addresses, credit'[b].todo[c] > 0
      PROVE  firstShare'[c] # NoTime
  BY <1>7, <1>8 DEF WorkInv
<1>9. ASSUME NEW c \in Addresses, credited'[c] > 0
      PROVE  firstShare'[c] # NoTime
  BY <1>7, <1>9 DEF WorkInv
<1> QED
  BY <1>5, <1>6, <1>8, <1>9 DEF WorkInv, HasWork

\* An action that adds no share and no entry to a credit thread's list.
LEMMA WorkUntouched ==
  ASSUME WorkInv, TypeOK', UNCHANGED <<firstShare, shares, credited>>, now <= now',
         \A b \in Blocks : /\ credit'[b].when <= now'
                           /\ \A c \in Addresses :
                                 credit'[b].todo[c] > 0 => credit[b].todo[c] > 0
  PROVE  WorkInv'
BY DEF WorkInv, HasWork

LEMMA WorkNext == WorkInv /\ [Next]_vars => WorkInv'
<1> SUFFICES ASSUME WorkInv, [Next]_vars
             PROVE  WorkInv'
  OBVIOUS
<1>0. TypeOK /\ TypeOK'
  BY TypeNext DEF WorkInv
<1> USE DEF minerVars, bookVars, payVars, blockVars
<1>1. /\ now \in Nat
      /\ \A b \in Blocks : credit[b].when \in Nat /\ credit[b].when <= now
  BY <1>0 DEF TypeOK, WorkInv
<1>2. CASE Tick
  BY <1>0, <1>1, <1>2, WorkUntouched DEF Tick
<1>3. ASSUME NEW a \in Addresses, Authorize(a)
      PROVE  WorkInv'
  BY <1>0, <1>1, <1>3, WorkUntouched DEF Authorize
<1>4. ASSUME NEW a \in Addresses, NEW ok \in BOOLEAN, RecordShare(a, ok)
      PROVE  WorkInv'
  BY <1>0, <1>1, <1>4, WorkShare DEF RecordShare
<1>5. ASSUME NEW a \in Addresses, NEW b \in Blocks, NEW gross \in Rewards,
             BlockShare(a, b, gross)
      PROVE  WorkInv'
  <2>1. /\ InsertShare(a, TRUE) /\ now' = now /\ credited' = credited
        /\ credit' = [credit EXCEPT ![b] = [pc |-> "submitting", gross |-> gross,
                                            when |-> now, todo |-> Zero]]
    BY <1>5 DEF BlockShare
  <2>2. ASSUME NEW c \in Blocks
        PROVE  /\ credit'[c].when <= now
               /\ \A d \in Addresses : credit'[c].todo[d] > 0 => credit[c].todo[d] > 0
    BY <1>0, <1>1, <2>1 DEF TypeOK, Zero
  <2> QED
    BY <1>0, <2>1, <2>2, WorkShare
<1>6. ASSUME NEW b \in Blocks, \/ SubmitAccepted(b) \/ SubmitRejected(b) \/ SubmitError(b)
                               \/ FinishCredit(b)
      PROVE  WorkInv'
  <2>1. PICK pc \in CreditPc : credit' = [credit EXCEPT ![b].pc = pc]
    BY <1>6 DEF SubmitAccepted, SubmitRejected, SubmitError, FinishCredit, CreditPc
  <2>2. ASSUME NEW c \in Blocks
        PROVE  credit'[c].when = credit[c].when /\ credit'[c].todo = credit[c].todo
    BY <1>0, <2>1 DEF TypeOK
  <2>3. UNCHANGED <<now, firstShare, shares, credited>>
    BY <1>6 DEF SubmitAccepted, SubmitRejected, SubmitError, FinishCredit
  <2> QED
    BY <1>0, <1>1, <2>2, <2>3, WorkUntouched
<1>7. ASSUME NEW b \in Blocks, Snapshot(b)
      PROVE  WorkInv'
  <2>1. UNCHANGED <<now, firstShare, shares, credited>>
    BY <1>7 DEF Snapshot
  <2>2. CASE InWindow # {}
    <3>1. credit[b].gross \in Nat
      BY <1>0 DEF TypeOK
    <3>2. PICK drawn \in [Addresses -> Nat] :
            /\ drawn = AllocationOf(credit[b].gross)
            /\ credit' = [credit EXCEPT ![b] = [@ EXCEPT !.pc = "allocating", !.when = now,
                                                      !.todo = drawn]]
      BY <1>0, <1>7, <2>2, <3>1, AllocationNat DEF Snapshot
    <3>3. ASSUME NEW a \in Addresses, drawn[a] > 0
          PROVE  firstShare[a] # NoTime
      <4>1. a \in Recipients
        BY <3>2, <3>3 DEF AllocationOf
      <4>2. PICK s \in shares : s.accepted /\ s.address = a
        BY <4>1 DEF Recipients, InWindow
      <4> QED
        BY <4>2 DEF WorkInv
    <3>4. ASSUME NEW c \in Blocks
          PROVE  /\ credit'[c].when <= now
                 /\ \A a \in Addresses : credit'[c].todo[a] > 0 => firstShare[a] # NoTime
      <4>1. CASE c = b
        BY <1>0, <1>1, <3>2, <3>3, <4>1 DEF TypeOK
      <4>2. CASE c # b
        BY <1>0, <1>1, <3>2, <4>2 DEF TypeOK, WorkInv
      <4> QED
        BY <4>1, <4>2
    <3> QED
      BY <1>0, <2>1, <3>4 DEF WorkInv, HasWork
  <2>3. CASE InWindow = {}
    <3>1. credit' = [credit EXCEPT ![b].pc = "unallocated"]
      BY <1>7, <2>3 DEF Snapshot
    <3>2. ASSUME NEW c \in Blocks
          PROVE  credit'[c].when = credit[c].when /\ credit'[c].todo = credit[c].todo
      BY <1>0, <3>1 DEF TypeOK
    <3> QED
      BY <1>0, <1>1, <2>1, <3>2, WorkUntouched
  <2> QED
    BY <2>2, <2>3
<1>8. ASSUME NEW a \in Addresses, NEW b \in Blocks, CreditReward(b, a)
      PROVE  WorkInv'
  <2>1. /\ credit[b].todo[a] > 0
        /\ credit' = [credit EXCEPT ![b].todo[a] = 0]
        /\ credited' = [credited EXCEPT ![a] = @ + credit[b].todo[a]]
        /\ UNCHANGED <<now, firstShare, shares>>
    BY <1>8 DEF CreditReward, ClearTodo
  <2>2. ASSUME NEW c \in Blocks
        PROVE  /\ credit'[c].when = credit[c].when
               /\ \A d \in Addresses : credit'[c].todo[d] > 0 => credit[c].todo[d] > 0
    BY <1>0, <2>1 DEF TypeOK
  <2>3. ASSUME NEW c \in Addresses, credited'[c] > 0
        PROVE  firstShare[c] # NoTime
    BY <1>0, <2>1, <2>3 DEF TypeOK, WorkInv
  <2> QED
    BY <1>0, <1>1, <2>1, <2>2, <2>3 DEF WorkInv, HasWork
<1>9. ASSUME NEW c \in Blocks
      PROVE  /\ Abandoned(credit[c]).when = credit[c].when
             /\ Abandoned(credit[c]).todo = credit[c].todo
  BY <1>0 DEF TypeOK, Abandoned
<1>10. ASSUME NEW b \in Blocks, CreditError(b)
       PROVE  WorkInv'
  <2>1. \A c \in Blocks : credit'[c].when = credit[c].when /\ credit'[c].todo = credit[c].todo
    BY <1>0, <1>9, <1>10 DEF TypeOK, CreditError
  <2> QED
    BY <1>0, <1>1, <1>10, <2>1, WorkUntouched DEF CreditError
<1>11. CASE ServerCrash
  <2>1. \A c \in Blocks : credit'[c].when = credit[c].when /\ credit'[c].todo = credit[c].todo
    BY <1>9, <1>11 DEF ServerCrash
  <2> QED
    BY <1>0, <1>1, <1>11, <2>1, WorkUntouched DEF ServerCrash
<1>12. CASE PlanPayout \/ SendMany \/ SendError \/ ListForSettle \/ Settle \/ PayoutCrash
  <2>1. UNCHANGED <<now, firstShare, shares, credited, credit>>
    BY <1>12 DEF PlanPayout, SendMany, SendError, ListForSettle, Settle, PayoutCrash
  <2> QED
    BY <1>0, <1>1, <2>1, WorkUntouched
<1>13. CASE UNCHANGED vars
  BY <1>0, <1>1, <1>13, WorkUntouched DEF vars
<1> QED
  BY <1>2, <1>3, <1>4, <1>5, <1>6, <1>7, <1>8, <1>10, <1>11, <1>12, <1>13 DEF Next

LEMMA WorkInvariant == Spec => []WorkInv
BY WorkInit, WorkNext, PTL DEF Spec

\* Only those with an accepted share are ever credited, so the fallback to the
\* sign-up time in credit_reward is never taken.
THEOREM CreditNeedsWork == Spec => []CreditedHaveWorked
<1>1. WorkInv => CreditedHaveWorked
  BY DEF WorkInv, CreditedHaveWorked
<1> QED
  BY <1>1, WorkInvariant, PTL

\* A credit charges the trial rate, or has an old enough share behind it.
LEMMA CreditHonoursTrial ==
  ASSUME WorkInv, NEW a \in Addresses, NEW b \in Blocks, CreditReward(b, a),
         NEW c \in Addresses,
         feeLedger'[c] - feeLedger[c] > platform_fee(credited'[c] - credited[c], TrialFeeBps)
  PROVE  \E s \in shares : s.accepted /\ s.address = c /\ now >= s.at + TrialDays
<1>1. TypeOK
  BY DEF WorkInv
<1>2. TrialDays \in Nat /\ TrialFeeBps \in 0..FullBps
  BY FeePolicyAssumption
<1>3. PICK gross \in Nat : gross = credit[b].todo[a] /\ gross > 0
  BY <1>1 DEF TypeOK, CreditReward
<1>4. PICK fee \in Nat : fee = SplitFor(b, a).fee
  BY <1>1, SplitForRow DEF Row
<1>5. /\ feeLedger' = [feeLedger EXCEPT ![a] = @ + fee]
      /\ credited' = [credited EXCEPT ![a] = @ + gross]
  BY <1>3, <1>4 DEF CreditReward
<1>6. c = a
  <2>1. CASE c # a
    <3>1. feeLedger'[c] - feeLedger[c] = 0 /\ credited'[c] - credited[c] = 0
      BY <1>1, <1>5, <2>1 DEF TypeOK
    <3>2. platform_fee(0, TrialFeeBps) \in Nat
      BY <1>2, FeeWithin
    <3> QED
      BY <3>1, <3>2
  <2> QED
    BY <2>1
<1>7. fee > platform_fee(gross, TrialFeeBps)
  <2>1. feeLedger'[c] - feeLedger[c] = fee /\ credited'[c] - credited[c] = gross
    BY <1>1, <1>5, <1>6 DEF TypeOK
  <2> QED
    BY <2>1
<1>8. firstShare[a] # NoTime /\ FirstShareOf(a) = firstShare[a]
  BY <1>3 DEF WorkInv, FirstShareOf
<1>9. fee = platform_fee(gross, effective_fee_bps(firstShare[a], credit[b].when))
  BY <1>3, <1>4, <1>8 DEF SplitFor, split_reward_sat
<1>10. ~(credit[b].when < firstShare[a] + TrialDays)
  <2>1. CASE credit[b].when < firstShare[a] + TrialDays
    <3>1. effective_fee_bps(firstShare[a], credit[b].when) = TrialFeeBps
      BY <2>1 DEF effective_fee_bps, trial_end_at
    <3>2. platform_fee(gross, TrialFeeBps) \in Nat
      BY <1>2, FeeWithin
    <3> QED
      BY <1>7, <1>9, <3>1, <3>2
  <2> QED
    BY <2>1
<1>11. PICK s \in shares : s.accepted /\ s.address = a /\ s.at = firstShare[a]
  BY <1>8 DEF WorkInv, HasWork
<1>12. now >= s.at + TrialDays
  <2>1. now \in Nat /\ credit[b].when \in Nat /\ s.at \in Nat /\ credit[b].when <= now
    BY <1>1 DEF TypeOK, WorkInv, Share
  <2> QED
    BY <1>2, <1>10, <1>11, <2>1
<1> QED
  BY <1>6, <1>11, <1>12

\* The trial is kept, whatever happens between a share and its reward.
THEOREM TrialKept == Spec => TrialHonoured
<1> DEFINE Kept == \A a \in Addresses :
       feeLedger'[a] - feeLedger[a] > platform_fee(credited'[a] - credited[a], TrialFeeBps)
         => \E s \in shares : s.accepted /\ s.address = a /\ now >= s.at + TrialDays
<1>1. ASSUME WorkInv, [Next]_vars
      PROVE  [Kept]_vars
  <2> USE DEF minerVars, bookVars, blockVars, payVars
  <2>1. CASE \E a \in Addresses, b \in Blocks : CreditReward(b, a)
    BY <1>1, <2>1, CreditHonoursTrial
  <2>2. CASE UNCHANGED <<feeLedger, credited>>
    <3>1. platform_fee(0, TrialFeeBps) \in Nat
      BY FeePolicyAssumption, FeeWithin
    <3>2. \A a \in Addresses : /\ feeLedger'[a] - feeLedger[a] = 0
                               /\ credited'[a] - credited[a] = 0
      BY <1>1, <2>2 DEF WorkInv, TypeOK
    <3> QED
      BY <3>1, <3>2
  <2>3. CASE Tick \/ ServerCrash \/ PlanPayout \/ SendMany \/ SendError
             \/ ListForSettle \/ Settle \/ PayoutCrash
    BY <2>2, <2>3 DEF Tick, ServerCrash, PlanPayout, SendMany, SendError,
                      ListForSettle, Settle, PayoutCrash
  <2>4. CASE \E a \in Addresses :
               \/ Authorize(a)
               \/ \E ok \in BOOLEAN : RecordShare(a, ok)
               \/ \E b \in Blocks, gross \in Rewards : BlockShare(a, b, gross)
    BY <2>2, <2>4 DEF Authorize, RecordShare, BlockShare
  <2>5. CASE \E b \in Blocks :
               \/ SubmitAccepted(b) \/ SubmitRejected(b) \/ SubmitError(b)
               \/ Snapshot(b) \/ FinishCredit(b) \/ CreditError(b)
    BY <2>2, <2>5 DEF SubmitAccepted, SubmitRejected, SubmitError, Snapshot,
                      FinishCredit, CreditError
  <2>6. CASE UNCHANGED vars
    BY <2>2, <2>6 DEF vars
  <2> QED
    BY <1>1, <2>1, <2>3, <2>4, <2>5, <2>6 DEF Next
<1> QED
  BY <1>1, WorkInvariant, PTL DEF Spec, TrialHonoured

-----------------------------------------------------------------------------
(***************************************************************************)
(* What is known of a share after it: the earliest of an address, and the  *)
(* one that finds a block.                                                 *)
(***************************************************************************)
\* No share is from the future, and none of an address is before its stamp.
EarliestInv ==
  \A s \in shares : s.at <= now /\ (s.accepted => firstShare[s.address] <= s.at)

\* The tables of the miners change with a share, and the clock stands still for it.
LEMMA SharesStep ==
  ASSUME [Next]_vars
  PROVE  \/ \E a \in Addresses, ok \in BOOLEAN : InsertShare(a, ok) /\ now' = now
         \/ UNCHANGED <<firstShare, shares>> /\ (now' = now \/ now' = now + 1)
<1> USE DEF minerVars, bookVars, blockVars, payVars
<1>1. CASE Tick \/ ServerCrash \/ PlanPayout \/ SendMany \/ SendError
             \/ ListForSettle \/ Settle \/ PayoutCrash
  BY <1>1 DEF Tick, ServerCrash, PlanPayout, SendMany, SendError, ListForSettle, Settle,
              PayoutCrash
<1>2. CASE \E a \in Addresses :
             \/ \E ok \in BOOLEAN : RecordShare(a, ok)
             \/ \E b \in Blocks, gross \in Rewards : BlockShare(a, b, gross)
  BY <1>2 DEF RecordShare, BlockShare
<1>3. CASE \E a \in Addresses : Authorize(a) \/ \E b \in Blocks : CreditReward(b, a)
  BY <1>3 DEF Authorize, CreditReward
<1>4. CASE \E b \in Blocks :
             \/ SubmitAccepted(b) \/ SubmitRejected(b) \/ SubmitError(b)
             \/ Snapshot(b) \/ FinishCredit(b) \/ CreditError(b)
  BY <1>4 DEF SubmitAccepted, SubmitRejected, SubmitError, Snapshot, FinishCredit, CreditError
<1>5. CASE UNCHANGED vars
  BY <1>5 DEF vars
<1> QED
  BY <1>1, <1>2, <1>3, <1>4, <1>5 DEF Next

LEMMA EarliestKept ==
  ASSUME WorkInv, TypeOK', EarliestInv, [Next]_vars
  PROVE  EarliestInv'
<1>1. /\ now \in Nat /\ firstShare \in [Addresses -> Times]
      /\ \A s \in shares : s.at \in Nat /\ s.address \in Addresses
  BY DEF WorkInv, TypeOK, Share
<1>2. ASSUME NEW a \in Addresses, NEW ok \in BOOLEAN, InsertShare(a, ok), now' = now
      PROVE  EarliestInv'
  <2>1. PICK row \in Share : /\ shares' = shares \cup {row}
                             /\ row.address = a /\ row.accepted = ok /\ row.at = now
    BY <1>2, InsertedRow
  <2>2. firstShare' = [firstShare EXCEPT ![a] = IF ok /\ firstShare[a] = NoTime
                                                THEN now ELSE firstShare[a]]
    BY <1>2 DEF InsertShare, FirstShareStamp
  <2>3. ASSUME NEW s \in shares PROVE s.at <= now /\ (s.accepted => firstShare'[s.address] <= s.at)
    BY <1>1, <2>2 DEF EarliestInv, WorkInv
  <2>4. ok => firstShare'[a] <= now
    <3>1. CASE firstShare[a] = NoTime
      BY <1>1, <2>2, <3>1
    <3>2. CASE firstShare[a] # NoTime
      <4>1. PICK s \in shares : s.accepted /\ s.address = a /\ s.at = firstShare[a]
        BY <3>2 DEF WorkInv, HasWork
      <4> QED
        BY <1>1, <2>2, <3>2, <4>1 DEF EarliestInv
    <3> QED
      BY <3>1, <3>2
  <2> QED
    BY <1>1, <1>2, <2>1, <2>3, <2>4 DEF EarliestInv
<1>3. CASE UNCHANGED <<firstShare, shares>> /\ (now' = now \/ now' = now + 1)
  BY <1>1, <1>3 DEF EarliestInv
<1> QED
  BY <1>2, <1>3, SharesStep

LEMMA MinIs ==
  ASSUME NEW S \in SUBSET Int, NEW m \in S, \A x \in S : m <= x
  PROVE  Min(S) = m
<1>1. Min(S) \in S /\ \A x \in S : Min(S) <= x
  BY DEF Min
<1>2. Min(S) \in Int /\ m \in Int /\ Min(S) <= m /\ m <= Min(S)
  BY <1>1
<1> QED
  BY <1>2

\* The trial of an address is dated from its earliest accepted share: COALESCE
\* keeps the first stamp, and no share is recorded with an earlier time.
THEOREM TrialFromEarliest == Spec => []FirstShareIsEarliest
<1>1. Init => EarliestInv
  BY DEF Init, EarliestInv
<1>2. WorkInv /\ TypeOK' /\ EarliestInv /\ [Next]_vars => EarliestInv'
  BY EarliestKept
<1>3. ASSUME WorkInv, EarliestInv
      PROVE  FirstShareIsEarliest
  <2> SUFFICES ASSUME NEW a \in Addresses
               PROVE  LET accepted == {s.at : s \in {x \in shares : x.accepted /\ x.address = a}}
                      IN  firstShare[a] = IF accepted = {} THEN NoTime ELSE Min(accepted)
    BY DEF FirstShareIsEarliest
  <2> DEFINE accepted == {s.at : s \in {x \in shares : x.accepted /\ x.address = a}}
  <2>1. accepted \in SUBSET Int
    BY <1>3 DEF WorkInv, TypeOK, Share
  <2>2. CASE firstShare[a] = NoTime
    BY <1>3, <2>2 DEF WorkInv
  <2>3. CASE firstShare[a] # NoTime
    <3>1. firstShare[a] \in accepted
      BY <1>3, <2>3 DEF WorkInv, HasWork
    <3>2. \A x \in accepted : firstShare[a] <= x
      BY <1>3 DEF EarliestInv
    <3> HIDE DEF accepted
    <3>3. firstShare[a] = Min(accepted) /\ accepted # {}
      BY <2>1, <3>1, <3>2, MinIs
    <3> QED
      BY <3>3 DEF accepted
  <2> QED
    BY <2>2, <2>3
<1> QED
  BY <1>1, <1>2, <1>3, TypeCorrect, WorkInvariant, PTL DEF Spec

\* A block the node still has to answer for, or to be allocated: the share that
\* found it is in the table, and at most a tick old.
FinderInv ==
  \A b \in Blocks :
    /\ credit[b].pc # "unallocated"
    /\ credit[b].pc \in {"submitting", "accepted"} =>
         /\ now <= credit[b].when + 1
         /\ \E s \in shares : s.accepted /\ s.at = credit[b].when

\* An action that moves no block to these two places, and forgets no share.
LEMMA FinderUntouched ==
  ASSUME FinderInv, now' = now, shares \subseteq shares',
         \A b \in Blocks :
           /\ credit'[b].pc # "unallocated" \/ credit[b].pc = "unallocated"
           /\ credit'[b].pc \in {"submitting", "accepted"} =>
                credit[b].pc \in {"submitting", "accepted"} /\ credit'[b].when = credit[b].when
  PROVE  FinderInv'
<1> SUFFICES ASSUME NEW b \in Blocks
             PROVE  /\ credit'[b].pc # "unallocated"
                    /\ credit'[b].pc \in {"submitting", "accepted"} =>
                         /\ now' <= credit'[b].when + 1
                         /\ \E s \in shares' : s.accepted /\ s.at = credit'[b].when
  BY DEF FinderInv
<1> QED
  BY DEF FinderInv

LEMMA FinderKept ==
  ASSUME TypeOK, TypeOK', FinderInv, [Next]_vars
  PROVE  FinderInv'
<1> USE DEF minerVars, bookVars, payVars, blockVars
<1>0. /\ now \in Nat /\ \A b \in Blocks : credit[b].when \in Nat
      /\ credit \in [Blocks -> [pc : CreditPc, gross : Nat, when : Nat,
                                todo : [Addresses -> Nat]]]
  BY DEF TypeOK
<1>1. CASE Tick
  BY <1>0, <1>1 DEF Tick, FinderInv
<1>2. ASSUME NEW a \in Addresses, NEW ok \in BOOLEAN, RecordShare(a, ok)
      PROVE  FinderInv'
  <2>1. shares \subseteq shares' /\ credit' = credit /\ now' = now
    BY <1>2, InsertedRow DEF RecordShare
  <2> QED
    BY <2>1, FinderUntouched
<1>3. ASSUME NEW a \in Addresses, NEW b \in Blocks, NEW gross \in Rewards,
             BlockShare(a, b, gross)
      PROVE  FinderInv'
  <2>1. PICK row \in Share : /\ shares' = shares \cup {row}
                             /\ row.accepted = TRUE /\ row.at = now
    BY <1>3, InsertedRow DEF BlockShare
  <2>2. /\ now' = now
        /\ credit' = [credit EXCEPT ![b] = [pc |-> "submitting", gross |-> gross,
                                            when |-> now, todo |-> Zero]]
    BY <1>3 DEF BlockShare
  <2>3. ASSUME NEW c \in Blocks
        PROVE  /\ credit'[c].pc # "unallocated"
               /\ credit'[c].pc \in {"submitting", "accepted"} =>
                    /\ now' <= credit'[c].when + 1
                    /\ \E s \in shares' : s.accepted /\ s.at = credit'[c].when
    <3>1. CASE c = b
      <4>1. credit'[c].pc = "submitting" /\ credit'[c].when = now
        BY <1>0, <2>2, <3>1
      <4> QED
        BY <1>0, <2>1, <2>2, <4>1
    <3>2. CASE c # b
      <4>1. credit'[c] = credit[c]
        BY <1>0, <2>2, <3>2
      <4> QED
        BY <2>1, <2>2, <4>1 DEF FinderInv
    <3> QED
      BY <3>1, <3>2
  <2> QED
    BY <2>3 DEF FinderInv
<1>4. ASSUME NEW b \in Blocks, \/ SubmitAccepted(b) \/ SubmitRejected(b) \/ SubmitError(b)
                               \/ FinishCredit(b)
      PROVE  FinderInv'
  <2>1. PICK pc \in CreditPc : /\ credit' = [credit EXCEPT ![b].pc = pc] /\ pc # "unallocated"
                               /\ pc \in {"submitting", "accepted"} =>
                                    credit[b].pc \in {"submitting", "accepted"}
    BY <1>4 DEF SubmitAccepted, SubmitRejected, SubmitError, FinishCredit, CreditPc
  <2>2. now' = now /\ shares' = shares
    BY <1>4 DEF SubmitAccepted, SubmitRejected, SubmitError, FinishCredit
  <2> QED
    BY <1>0, <2>1, <2>2, FinderUntouched
<1>5. ASSUME NEW b \in Blocks, Snapshot(b)
      PROVE  FinderInv'
  <2>1. InWindow # {}
    <3>1. PICK s \in shares : s.accepted /\ s.at = credit[b].when
      BY <1>5 DEF Snapshot, FinderInv
    <3>2. now <= s.at + 1 /\ s.at \in Nat /\ Window \in Nat /\ Window >= 1
      BY <1>0, <1>5, <3>1, LedgerAssumption DEF Snapshot, FinderInv
    <3>3. s.at >= now - Window
      BY <1>0, <3>2
    <3> QED
      BY <3>1, <3>3 DEF InWindow
  <2>2. /\ now' = now /\ shares' = shares
        /\ \A c \in Blocks : c # b => credit'[c] = credit[c]
        /\ credit'[b].pc = "allocating"
    BY <1>0, <1>5, <2>1 DEF Snapshot
  <2> QED
    BY <2>2, FinderUntouched
<1>6. ASSUME NEW a \in Addresses, NEW b \in Blocks, CreditReward(b, a)
      PROVE  FinderInv'
  <2>1. /\ now' = now /\ shares' = shares
        /\ \A c \in Blocks : credit'[c].pc = credit[c].pc /\ credit'[c].when = credit[c].when
    BY <1>0, <1>6 DEF CreditReward, ClearTodo
  <2> QED
    BY <2>1, FinderUntouched
<1>7. ASSUME NEW c \in Blocks
      PROVE  /\ Abandoned(credit[c]).pc \notin {"submitting", "accepted"}
             /\ Abandoned(credit[c]).pc = "unallocated" => credit[c].pc = "unallocated"
  BY <1>0 DEF Abandoned
<1>8. ASSUME NEW b \in Blocks, CreditError(b)
      PROVE  FinderInv'
  <2>1. /\ now' = now /\ shares' = shares
        /\ \A c \in Blocks : c # b => credit'[c] = credit[c]
        /\ credit'[b] = Abandoned(credit[b])
    BY <1>0, <1>8 DEF CreditError
  <2> QED
    BY <1>7, <2>1, FinderUntouched
<1>9. CASE ServerCrash
  <2>1. /\ now' = now /\ shares' = shares
        /\ \A c \in Blocks : credit'[c] = Abandoned(credit[c])
    BY <1>9 DEF ServerCrash
  <2> QED
    BY <1>7, <2>1, FinderUntouched
<1>10. CASE \/ \E a \in Addresses : Authorize(a)
            \/ PlanPayout \/ SendMany \/ SendError \/ ListForSettle \/ Settle \/ PayoutCrash
            \/ UNCHANGED vars
  <2>1. now' = now /\ shares' = shares /\ credit' = credit
    BY <1>10 DEF Authorize, PlanPayout, SendMany, SendError, ListForSettle, Settle,
                 PayoutCrash, vars
  <2> QED
    BY <2>1, FinderUntouched
<1> QED
  BY <1>1, <1>2, <1>3, <1>4, <1>5, <1>6, <1>8, <1>9, <1>10 DEF Next

\* The share that finds a block is recorded before submitblock and is still in
\* the window when the credit thread counts, so a block that the node has taken is
\* never left unallocated for want of shares.
THEOREM FinderIsPaid == Spec => []FinderAlwaysCredited
<1>1. Init => FinderInv
  BY DEF Init, FinderInv
<1>2. TypeOK /\ TypeOK' /\ FinderInv /\ [Next]_vars => FinderInv'
  BY FinderKept
<1>3. FinderInv => FinderAlwaysCredited
  BY DEF FinderInv, FinderAlwaysCredited
<1> QED
  BY <1>1, <1>2, <1>3, TypeCorrect, PTL DEF Spec

-----------------------------------------------------------------------------
(***************************************************************************)
(* Every satoshi of an allocated reward is credited or still due.          *)
(***************************************************************************)

(* What is allocated to the addresses is the reward, whole.                 *)
LEMMA AllocationSum ==
  ASSUME TypeOK, InWindow # {}, NEW gross \in Nat
  PROVE  SumOver(AllocationOf(gross), Addresses) = gross
<1> DEFINE total == Cardinality(InWindow)
           by == [s \in InWindow |-> s.address]
<1>1. IsFiniteSet(InWindow) /\ \A s \in InWindow : s.address \in Addresses
  BY FS_Subset DEF TypeOK, InWindow, Share
<1>2. total \in Nat \ {0}
  BY <1>1, FS_CardinalityType, FS_EmptySet
<1>3. Recipients \in SUBSET Addresses /\ IsFiniteSet(Recipients) /\ Recipients \subseteq Nat
  <2>1. Recipients \in SUBSET Addresses
    BY <1>1 DEF Recipients
  <2> QED BY <2>1, FS_Subset, LedgerAssumption
<1>4. ShareCounts \in [Recipients -> Nat]
  <2>1. ASSUME NEW a \in Recipients PROVE ShareCounts[a] \in Nat
    <3>1. IsFiniteSet({s \in InWindow : s.address = a})
      BY <1>1, FS_Subset
    <3> QED BY <3>1, FS_CardinalityType DEF ShareCounts
  <2> QED BY <2>1 DEF ShareCounts
<1>5. SumOver(ShareCounts, Recipients) = total
  <2>1. by \in [InWindow -> Recipients]
    BY DEF Recipients
  <2>2. \A a \in Recipients : {s \in InWindow : by[s] = a} = {s \in InWindow : s.address = a}
    OBVIOUS
  <2>3. ShareCounts = [a \in Recipients |-> Cardinality({s \in InWindow : by[s] = a})]
    BY <2>2 DEF ShareCounts
  <2> HIDE DEF by
  <2> QED BY <1>1, <1>3, <2>1, <2>3, SumOfFibres
<1>6. CountedShares(Recipients, ShareCounts, total)
  BY <1>2, <1>3, <1>4, <1>5 DEF CountedShares
<1>7. SumOver(Allocation(gross, ShareCounts, total), Recipients) = gross
  <2> HIDE DEF total
  <2> QED BY <1>6, AllocationIsWhole
<1>8. SumOver(AllocationOf(gross), Recipients) = gross
  <2>1. \A a \in Recipients :
          AllocationOf(gross)[a] = Allocation(gross, ShareCounts, total)[a]
    BY <1>3, <1>4 DEF AllocationOf, Allocation
  <2> QED BY <1>3, <1>7, <2>1, SumSame
<1>9. \A a \in Addresses : AllocationOf(gross)[a] \in Int
  BY AllocationNat
<1>10. \A a \in Addresses \ Recipients : AllocationOf(gross)[a] = 0
  BY DEF AllocationOf
<1> QED BY <1>3, <1>8, <1>9, <1>10, SumSupport, LedgerAssumption

(* The blocks whose reward has been allocated, and the sum of the rewards   *)
(* against what is credited and due, for any history and any tasks.         *)
DrawnIn(task) == {b \in Blocks : task[b].pc \in {"allocating", "allocated", "partial"}}

DueIn(task) == [b \in DrawnIn(task) |-> SumOver(task[b].todo, Addresses)]

GrossIn(task) == [b \in DrawnIn(task) |-> task[b].gross]

Balanced(done, task) ==
  SumOver(done, Addresses) + SumOver(DueIn(task), DrawnIn(task))
    = SumOver(GrossIn(task), DrawnIn(task))

Tasks == [Blocks -> [pc : CreditPc, gross : Nat, when : Nat, todo : [Addresses -> Nat]]]

ConserveInv ==
  /\ TypeOK
  /\ IsFiniteSet(DrawnIn(credit))
  /\ \A b \in Blocks : credit[b].pc = "accepted" => b \in earned
  /\ DrawnIn(credit) \subseteq earned
  /\ Balanced(credited, credit)

(* Moving a task without allocating changes nothing.                        *)
LEMMA BalancedSame ==
  ASSUME NEW task, NEW next, NEW done, Balanced(done, task),
         DrawnIn(next) = DrawnIn(task),
         \A b \in DrawnIn(task) : /\ next[b].todo = task[b].todo
                                  /\ next[b].gross = task[b].gross
  PROVE  Balanced(done, next)
<1>1. DueIn(next) = DueIn(task) /\ GrossIn(next) = GrossIn(task)
  BY DEF DueIn, GrossIn
<1> QED BY <1>1 DEF Balanced

(* One value of a function on the addresses is changed.                     *)
LEMMA SumChanged ==
  ASSUME NEW f \in [Addresses -> Nat], NEW a \in Addresses, NEW v \in Nat
  PROVE  SumOver([f EXCEPT ![a] = v], Addresses) = SumOver(f, Addresses) + (v - f[a])
<1> DEFINE g == [f EXCEPT ![a] = v]
<1>1. \A y \in Addresses : f[y] \in Int /\ g[y] \in Int
  OBVIOUS
<1>2. \A y \in Addresses : y # a => f[y] = g[y]
  OBVIOUS
<1>3. g[a] = v /\ IsFiniteSet(Addresses)
  BY LedgerAssumption
<1> HIDE DEF g
<1>4. SumOver(g, Addresses) = SumOver(f, Addresses) + (g[a] - f[a])
  BY <1>1, <1>2, <1>3, SumUpdate
<1> QED BY <1>3, <1>4 DEF g

(* An allocation that sums to the reward keeps the balance.                 *)
LEMMA BalancedSnapshot ==
  ASSUME NEW task \in Tasks, NEW next, NEW done \in [Addresses -> Nat],
         Balanced(done, task), IsFiniteSet(DrawnIn(task)),
         NEW b \in Blocks, b \notin DrawnIn(task),
         NEW t, next = [task EXCEPT ![b] = t], t.pc = "allocating",
         t.todo \in [Addresses -> Nat], t.gross \in Nat,
         SumOver(t.todo, Addresses) = t.gross
  PROVE  Balanced(done, next) /\ DrawnIn(next) = DrawnIn(task) \cup {b}
<1> DEFINE S == DrawnIn(task)
           T == S \cup {b}
<1>1. DrawnIn(next) = T
  BY DEF DrawnIn, Tasks
<1>2. \A c \in S : next[c] = task[c]
  BY DEF Tasks, DrawnIn
<1>3. next[b] = t
  BY DEF Tasks
<1>4. \A c \in S : /\ DueIn(next)[c] = DueIn(task)[c] /\ DueIn(task)[c] \in Nat
                   /\ GrossIn(next)[c] = GrossIn(task)[c] /\ GrossIn(task)[c] \in Nat
  <2>1. \A c \in S : task[c].gross \in Nat /\ task[c].todo \in [Addresses -> Nat]
    BY DEF Tasks, DrawnIn
  <2>2. \A c \in S : SumOver(task[c].todo, Addresses) \in Nat
    BY <2>1, SumNat, LedgerAssumption
  <2>3. \A c \in S : DueIn(task)[c] \in Nat /\ GrossIn(task)[c] \in Nat
    BY <2>1, <2>2 DEF DueIn, GrossIn
  <2>4. ASSUME NEW c \in S
        PROVE  DueIn(next)[c] = DueIn(task)[c] /\ GrossIn(next)[c] = GrossIn(task)[c]
    <3>1. c \in DrawnIn(next) /\ next[c] = task[c]
      BY <1>1, <1>2
    <3> QED BY <3>1 DEF DueIn, GrossIn
  <2> QED BY <2>3, <2>4
<1>5. DueIn(next)[b] = t.gross /\ GrossIn(next)[b] = t.gross
  BY <1>1, <1>3 DEF DueIn, GrossIn
<1> HIDE DEF S, T
<1>6. /\ \A c \in S \cup {b} : DueIn(next)[c] \in Int
      /\ \A c \in S \cup {b} : GrossIn(next)[c] \in Int
  <2>1. ASSUME NEW c \in S PROVE DueIn(next)[c] \in Int /\ GrossIn(next)[c] \in Int
    <3>1. /\ DueIn(next)[c] = DueIn(task)[c] /\ DueIn(task)[c] \in Nat
          /\ GrossIn(next)[c] = GrossIn(task)[c] /\ GrossIn(task)[c] \in Nat
      BY <1>4
    <3> QED BY <3>1
  <2>2. DueIn(next)[b] \in Int /\ GrossIn(next)[b] \in Int
    BY <1>5
  <2> QED BY <2>1, <2>2
<1>7. IsFiniteSet(S) /\ b \notin S
  BY DEF S
<1>8. SumOver(DueIn(next), T) = t.gross + SumOver(DueIn(next), S)
  <2>1. SumOver(DueIn(next), S \cup {b}) = DueIn(next)[b] + SumOver(DueIn(next), S)
    BY <1>6, <1>7, SumAdd
  <2> QED BY <1>5, <2>1 DEF T
<1>9. SumOver(GrossIn(next), T) = t.gross + SumOver(GrossIn(next), S)
  <2>1. SumOver(GrossIn(next), S \cup {b}) = GrossIn(next)[b] + SumOver(GrossIn(next), S)
    BY <1>6, <1>7, SumAdd
  <2> QED BY <1>5, <2>1 DEF T
<1>10. /\ SumOver(DueIn(next), S) = SumOver(DueIn(task), S)
       /\ SumOver(GrossIn(next), S) = SumOver(GrossIn(task), S)
  BY <1>4, <1>7, SumSame
<1>11. /\ SumOver(DueIn(task), S) \in Nat /\ SumOver(GrossIn(task), S) \in Nat
       /\ SumOver(done, Addresses) \in Nat
  BY <1>4, <1>7, SumNat, LedgerAssumption
<1>12. SumOver(done, Addresses) + SumOver(DueIn(task), S) = SumOver(GrossIn(task), S)
  BY DEF Balanced, S
<1>13. SumOver(done, Addresses) + SumOver(DueIn(next), T) = SumOver(GrossIn(next), T)
  BY <1>8, <1>9, <1>10, <1>11, <1>12
<1> QED BY <1>1, <1>13 DEF Balanced, T, S

(* What a credit adds to the history it takes from what is due.             *)
LEMMA BalancedCredit ==
  ASSUME NEW task, task \in Tasks, NEW next,
         NEW done, done \in [Addresses -> Nat], NEW then,
         Balanced(done, task), IsFiniteSet(DrawnIn(task)),
         NEW b, b \in DrawnIn(task), NEW a \in Addresses,
         next = [task EXCEPT ![b].todo[a] = 0],
         then = [done EXCEPT ![a] = @ + task[b].todo[a]]
  PROVE  Balanced(then, next) /\ DrawnIn(next) = DrawnIn(task)
<1> SUFFICES ASSUME NEW S, S = DrawnIn(task), NEW due, due = task[b].todo[a]
             PROVE  Balanced(then, next) /\ DrawnIn(next) = DrawnIn(task)
  OBVIOUS
<1>0. b \in Blocks /\ task[b].todo \in [Addresses -> Nat] /\ due \in Nat
  BY DEF Tasks, DrawnIn
<1>1. next[b].todo = [task[b].todo EXCEPT ![a] = 0] /\ next[b].pc = task[b].pc
  BY <1>0 DEF Tasks
<1>2. \A c \in Blocks : /\ next[c].pc = task[c].pc /\ next[c].gross = task[c].gross
                        /\ c # b => next[c].todo = task[c].todo
  BY <1>0 DEF Tasks
<1>3. DrawnIn(next) = S
  BY <1>2 DEF DrawnIn
<1>4. GrossIn(next) = GrossIn(task)
  BY <1>2, <1>3 DEF GrossIn, DrawnIn
<1>5. \A c \in S : SumOver(task[c].todo, Addresses) \in Nat
  <2>1. \A c \in S : task[c].todo \in [Addresses -> Nat]
    BY DEF Tasks, DrawnIn
  <2> QED BY <2>1, SumNat, LedgerAssumption
<1>6. SumOver(next[b].todo, Addresses) = SumOver(task[b].todo, Addresses) - due
  <2>1. SumOver(next[b].todo, Addresses) = SumOver(task[b].todo, Addresses) + (0 - due)
    <3> DEFINE todo == task[b].todo
    <3>1. todo \in [Addresses -> Nat] /\ 0 \in Nat
      BY <1>0
    <3> HIDE DEF todo
    <3>2. SumOver([todo EXCEPT ![a] = 0], Addresses) = SumOver(todo, Addresses) + (0 - todo[a])
      BY <3>1, SumChanged
    <3> QED BY <1>1, <3>2 DEF todo
  <2>2. SumOver(task[b].todo, Addresses) \in Nat
    BY <1>5
  <2> QED BY <1>0, <2>1, <2>2
<1>7. SumOver(then, Addresses) = SumOver(done, Addresses) + due
  <2>1. done[a] \in Nat /\ done[a] + due \in Nat
    BY <1>0
  <2>2. SumOver(then, Addresses) = SumOver(done, Addresses) + ((done[a] + due) - done[a])
    BY <2>1, SumChanged
  <2> QED BY <1>0, <2>1, <2>2
<1>8. \A c \in S : c # b => DueIn(next)[c] = DueIn(task)[c]
  BY <1>2, <1>3 DEF DueIn, DrawnIn
<1>9. /\ DueIn(next)[b] = SumOver(next[b].todo, Addresses)
      /\ \A c \in S : DueIn(task)[c] = SumOver(task[c].todo, Addresses)
  BY <1>3 DEF DueIn
<1>10. SumOver(task[b].todo, Addresses) \in Nat
  BY <1>5
<1>11. \A c \in S : DueIn(task)[c] \in Int /\ DueIn(next)[c] \in Int
  <2>1. \A c \in S : DueIn(task)[c] \in Int
    BY <1>5, <1>9
  <2>2. DueIn(next)[b] \in Int
    BY <1>0, <1>6, <1>9, <1>10
  <2> QED BY <1>8, <2>1, <2>2
<1>12. IsFiniteSet(S) /\ b \in S
  OBVIOUS
<1>13. SumOver(DueIn(next), S) = SumOver(DueIn(task), S) + (DueIn(next)[b] - DueIn(task)[b])
  <2> SUFFICES ASSUME NEW f, f = DueIn(task), NEW g, g = DueIn(next)
               PROVE  SumOver(g, S) = SumOver(f, S) + (g[b] - f[b])
    OBVIOUS
  <2>1. \A c \in S : f[c] \in Int /\ g[c] \in Int
    BY <1>11
  <2>2. \A c \in S : c # b => f[c] = g[c]
    BY <1>8
  <2> QED BY ONLY <1>12, <2>1, <2>2, SumUpdate
<1>14. SumOver(DueIn(task), S) \in Int /\ SumOver(done, Addresses) \in Int
  BY <1>11, <1>12, SumInt, LedgerAssumption
<1>15. SumOver(DueIn(next), S) = SumOver(DueIn(task), S) - due
  BY <1>0, <1>6, <1>9, <1>10, <1>12, <1>13, <1>14
<1>16. SumOver(done, Addresses) + SumOver(DueIn(task), S) = SumOver(GrossIn(task), S)
  BY DEF Balanced
<1>17. SumOver(then, Addresses) + SumOver(DueIn(next), S) = SumOver(GrossIn(next), S)
  BY <1>0, <1>4, <1>7, <1>14, <1>15, <1>16
<1> QED BY <1>3, <1>17 DEF Balanced

(* Steps that leave the money and the tasks alone.                          *)
LEMMA ConserveUntouched ==
  ASSUME TypeOK', ConserveInv, UNCHANGED <<credit, earned, credited>>
  PROVE  ConserveInv'
<1>1. DrawnIn(credit)' = DrawnIn(credit) /\ Balanced(credited, credit)' = Balanced(credited, credit)
  BY DEF DrawnIn, Balanced, DueIn, GrossIn
<1> QED BY <1>1 DEF ConserveInv

(* Steps of a task that do not allocate.                                    *)
LEMMA ConserveMoved ==
  ASSUME TypeOK', ConserveInv, earned \subseteq earned', UNCHANGED credited,
         \A b \in Blocks :
           /\ credit'[b].pc \in {"allocating", "allocated", "partial"}
                <=> credit[b].pc \in {"allocating", "allocated", "partial"}
           /\ credit'[b].todo = credit[b].todo \/ credit[b].pc = "idle"
           /\ credit'[b].gross = credit[b].gross \/ credit[b].pc = "idle"
           /\ credit'[b].pc = "accepted" => credit[b].pc = "accepted" \/ b \in earned'
  PROVE  ConserveInv'
<1>1. DrawnIn(credit') = DrawnIn(credit)
  BY DEF DrawnIn
<1>2. Balanced(credited, credit')
  <2>1. \A b \in DrawnIn(credit) : /\ credit'[b].todo = credit[b].todo
                                   /\ credit'[b].gross = credit[b].gross
    BY DEF DrawnIn
  <2> QED BY <1>1, <2>1, BalancedSame DEF ConserveInv
<1>3. Balanced(credited', credit')
  BY <1>2
<1>4. \A b \in Blocks : credit'[b].pc = "accepted" => b \in earned'
  BY DEF ConserveInv
<1> QED BY <1>1, <1>3, <1>4 DEF ConserveInv

LEMMA ConserveKept == TypeOK /\ TypeOK' /\ ConserveInv /\ [Next]_vars => ConserveInv'
<1> SUFFICES ASSUME TypeOK, TypeOK', ConserveInv, [Next]_vars PROVE ConserveInv'
  OBVIOUS
<1>0. credit \in Tasks
  BY DEF TypeOK, Tasks
<1>1. CASE UNCHANGED <<credit, earned, credited>>
  BY <1>1, ConserveUntouched
<1>2. ASSUME NEW a \in Addresses, NEW b \in Blocks, NEW gross \in Rewards,
             BlockShare(a, b, gross)
      PROVE  ConserveInv'
  <2>1. /\ credit[b].pc = "idle" /\ credit'[b].pc = "submitting"
        /\ \A c \in Blocks \ {b} : credit'[c] = credit[c]
        /\ UNCHANGED <<earned, credited>>
    BY <1>0, <1>2 DEF BlockShare, Tasks, bookVars
  <2> QED BY <2>1, ConserveMoved
<1>3. ASSUME NEW b \in Blocks, SubmitAccepted(b)
      PROVE  ConserveInv'
  <2>1. /\ credit[b].pc = "submitting" /\ credit' = [credit EXCEPT ![b].pc = "accepted"]
        /\ earned' = earned \cup {b} /\ UNCHANGED credited
    BY <1>3 DEF SubmitAccepted, bookVars
  <2>2. /\ credit'[b].pc = "accepted" /\ credit'[b].todo = credit[b].todo
        /\ credit'[b].gross = credit[b].gross
        /\ \A c \in Blocks \ {b} : credit'[c] = credit[c]
    BY <1>0, <2>1 DEF Tasks
  <2> QED BY <2>1, <2>2, ConserveMoved
<1>4. ASSUME NEW b \in Blocks, SubmitRejected(b)
      PROVE  ConserveInv'
  <2>1. /\ credit[b].pc = "submitting" /\ credit' = [credit EXCEPT ![b].pc = "rejected"]
        /\ UNCHANGED <<earned, credited>>
    BY <1>4 DEF SubmitRejected, bookVars
  <2>2. /\ credit'[b].pc = "rejected" /\ credit'[b].todo = credit[b].todo
        /\ credit'[b].gross = credit[b].gross
        /\ \A c \in Blocks \ {b} : credit'[c] = credit[c]
    BY <1>0, <2>1 DEF Tasks
  <2> QED BY <2>1, <2>2, ConserveMoved
<1>5. ASSUME NEW b \in Blocks, SubmitError(b)
      PROVE  ConserveInv'
  <2>1. /\ credit[b].pc = "submitting" /\ credit' = [credit EXCEPT ![b].pc = "lost"]
        /\ earned \subseteq earned' /\ UNCHANGED credited
    BY <1>5 DEF SubmitError, bookVars
  <2>2. /\ credit'[b].pc = "lost" /\ credit'[b].todo = credit[b].todo
        /\ credit'[b].gross = credit[b].gross
        /\ \A c \in Blocks \ {b} : credit'[c] = credit[c]
    BY <1>0, <2>1 DEF Tasks
  <2> QED BY <2>1, <2>2, ConserveMoved
<1>6. ASSUME NEW b \in Blocks, Snapshot(b)
      PROVE  ConserveInv'
  <2>1. credit[b].pc = "accepted" /\ UNCHANGED <<earned, credited>>
    BY <1>6 DEF Snapshot, bookVars
  <2>2. CASE InWindow = {}
    <3>1. credit' = [credit EXCEPT ![b].pc = "unallocated"]
      BY <1>6, <2>2 DEF Snapshot
    <3>2. /\ credit'[b].pc = "unallocated" /\ credit'[b].todo = credit[b].todo
          /\ credit'[b].gross = credit[b].gross
          /\ \A c \in Blocks \ {b} : credit'[c] = credit[c]
      BY <1>0, <3>1 DEF Tasks
    <3> QED BY <2>1, <3>2, ConserveMoved
  <2>3. CASE InWindow # {}
    <3> DEFINE gross == credit[b].gross
               due == AllocationOf(gross)
               t == [credit[b] EXCEPT !.pc = "allocating", !.when = now, !.todo = due]
    <3>1. credit' = [credit EXCEPT ![b] = t]
      BY <1>6, <2>3 DEF Snapshot
    <3>2. gross \in Nat
      BY <1>0 DEF Tasks
    <3>3. due \in [Addresses -> Nat] /\ SumOver(due, Addresses) = gross
      <4> HIDE DEF gross
      <4> QED BY <2>3, <3>2, AllocationNat, AllocationSum
    <3> HIDE DEF due
    <3>4. t.pc = "allocating" /\ t.todo = due /\ t.gross = gross
      BY <1>0 DEF Tasks
    <3> HIDE DEF t, gross
    <3>5. b \notin DrawnIn(credit) /\ b \in earned
      BY <2>1 DEF DrawnIn, ConserveInv
    <3>6. Balanced(credited, credit') /\ DrawnIn(credit') = DrawnIn(credit) \cup {b}
      <4>1. credited \in [Addresses -> Nat]
        BY DEF TypeOK
      <4>2. Balanced(credited, credit) /\ IsFiniteSet(DrawnIn(credit))
        BY DEF ConserveInv
      <4>3. credit \in Tasks
        BY <1>0
      <4>4. /\ t.todo \in [Addresses -> Nat] /\ t.gross \in Nat
            /\ SumOver(t.todo, Addresses) = t.gross
        BY <3>2, <3>3, <3>4
      <4> QED BY ONLY <3>1, <3>4, <3>5, <4>1, <4>2, <4>3, <4>4, b \in Blocks, BalancedSnapshot
    <3>7. IsFiniteSet(DrawnIn(credit'))
      BY <3>6, FS_AddElement DEF ConserveInv
    <3>8. \A c \in Blocks : credit'[c].pc = "accepted" => c \in earned
      BY <1>0, <3>1, <3>4, <3>5 DEF Tasks, ConserveInv
    <3>9. DrawnIn(credit') \subseteq earned
      BY <3>5, <3>6 DEF ConserveInv
    <3>10. Balanced(credited', credit')
      BY <2>1, <3>6
    <3> QED BY <2>1, <3>7, <3>8, <3>9, <3>10 DEF ConserveInv
  <2> QED BY <2>2, <2>3
<1>7. ASSUME NEW b \in Blocks, NEW a \in Addresses, CreditReward(b, a)
      PROVE  ConserveInv'
  <2>1. /\ credit[b].pc = "allocating" /\ UNCHANGED earned
        /\ credit' = [credit EXCEPT ![b].todo[a] = 0]
        /\ credited' = [credited EXCEPT ![a] = @ + credit[b].todo[a]]
    BY <1>7 DEF CreditReward, ClearTodo
  <2>2. b \in DrawnIn(credit) /\ credited \in [Addresses -> Nat]
    BY <2>1 DEF DrawnIn, TypeOK
  <2>3. Balanced(credited', credit') /\ DrawnIn(credit') = DrawnIn(credit)
    BY <1>0, <2>1, <2>2, BalancedCredit DEF ConserveInv
  <2>4. \A c \in Blocks : credit'[c].pc = credit[c].pc
    BY <1>0, <2>1 DEF Tasks
  <2> QED BY <2>1, <2>3, <2>4 DEF ConserveInv
<1>8. ASSUME NEW b \in Blocks, FinishCredit(b)
      PROVE  ConserveInv'
  <2>1. /\ credit[b].pc = "allocating" /\ credit' = [credit EXCEPT ![b].pc = "allocated"]
        /\ UNCHANGED <<earned, credited>>
    BY <1>8 DEF FinishCredit, bookVars
  <2>2. /\ credit'[b].pc = "allocated" /\ credit'[b].todo = credit[b].todo
        /\ credit'[b].gross = credit[b].gross
        /\ \A c \in Blocks \ {b} : credit'[c] = credit[c]
    BY <1>0, <2>1 DEF Tasks
  <2> QED BY <2>1, <2>2, ConserveMoved
<1>9. \A b \in Blocks :
        /\ Abandoned(credit[b]).pc \in {"allocating", "allocated", "partial"}
             <=> credit[b].pc \in {"allocating", "allocated", "partial"}
        /\ Abandoned(credit[b]).todo = credit[b].todo
        /\ Abandoned(credit[b]).gross = credit[b].gross
        /\ Abandoned(credit[b]).pc # "accepted"
  <2> SUFFICES ASSUME NEW b \in Blocks
               PROVE  /\ Abandoned(credit[b]).pc \in {"allocating", "allocated", "partial"}
                           <=> credit[b].pc \in {"allocating", "allocated", "partial"}
                      /\ Abandoned(credit[b]).todo = credit[b].todo
                      /\ Abandoned(credit[b]).gross = credit[b].gross
                      /\ Abandoned(credit[b]).pc # "accepted"
    OBVIOUS
  <2>1. credit[b] \in [pc : CreditPc, gross : Nat, when : Nat, todo : [Addresses -> Nat]]
    BY <1>0 DEF Tasks
  <2>2. CASE credit[b].pc \in {"submitting", "accepted"}
    BY <2>1, <2>2 DEF Abandoned
  <2>3. CASE credit[b].pc = "allocating"
    BY <2>1, <2>3 DEF Abandoned
  <2>4. CASE credit[b].pc \notin {"submitting", "accepted", "allocating"}
    BY <2>1, <2>4 DEF Abandoned
  <2> QED BY <2>2, <2>3, <2>4
<1>10. ASSUME NEW b \in Blocks, CreditError(b)
      PROVE  ConserveInv'
  <2>1. credit' = [credit EXCEPT ![b] = Abandoned(@)] /\ UNCHANGED <<earned, credited>>
    BY <1>10 DEF CreditError, bookVars
  <2>2. /\ credit'[b] = Abandoned(credit[b])
        /\ \A c \in Blocks \ {b} : credit'[c] = credit[c]
    BY <1>0, <2>1 DEF Tasks
  <2> QED BY <1>9, <2>1, <2>2, ConserveMoved
<1>11. CASE ServerCrash
  <2>1. /\ credit' = [b \in Blocks |-> Abandoned(credit[b])]
        /\ earned \subseteq earned' /\ UNCHANGED credited
    BY <1>11 DEF ServerCrash, bookVars
  <2>2. \A b \in Blocks : credit'[b] = Abandoned(credit[b])
    BY <2>1
  <2> QED BY <1>9, <2>1, <2>2, ConserveMoved
<1>12. CASE \/ UNCHANGED vars \/ Tick \/ PlanPayout \/ SendMany \/ SendError
            \/ ListForSettle \/ Settle \/ PayoutCrash
            \/ \E a \in Addresses : Authorize(a) \/ \E ok \in BOOLEAN : RecordShare(a, ok)
  <2>1. UNCHANGED <<credit, earned, credited>>
    BY <1>12 DEF vars, Tick, PlanPayout, SendMany, SendError, ListForSettle, Settle,
                 PayoutCrash, Authorize, RecordShare, blockVars, bookVars
  <2> QED BY <2>1, ConserveUntouched
<1> QED
  BY <1>2, <1>3, <1>4, <1>5, <1>6, <1>7, <1>8, <1>10, <1>11, <1>12 DEF Next

(* Every satoshi of an allocated reward is credited or still due in the     *)
(* credit thread's list: credit_pplns_reward neither drops nor duplicates   *)
(* one, for any set of addresses, any shares, and any number of credit      *)
(* threads that run at once or die halfway.                                 *)
THEOREM RewardIsConserved == Spec => []RewardConserved
<1>1. Init => ConserveInv
  <2> SUFFICES ASSUME Init PROVE ConserveInv
    OBVIOUS
  <2>1. DrawnIn(credit) = {}
    BY DEF Init, DrawnIn
  <2>2. SumOver(credited, Addresses) = 0
    <3>1. \A a \in Addresses : credited[a] \in 0..0
      BY DEF Init, Zero
    <3>2. SumOver(credited, Addresses) \in Nat /\ SumOver(credited, Addresses) <= 0 * Cardinality(Addresses)
      BY <3>1, SumBounded, LedgerAssumption
    <3>3. Cardinality(Addresses) \in Nat
      BY FS_CardinalityType, LedgerAssumption
    <3> QED BY <3>2, <3>3
  <2>3. Balanced(credited, credit)
    BY <2>1, <2>2, SumEmpty DEF Balanced
  <2>4. \A b \in Blocks : credit[b].pc # "accepted"
    BY DEF Init
  <2> QED BY <2>1, <2>3, <2>4, TypeInit, FS_EmptySet DEF ConserveInv
<1>2. TypeOK /\ TypeOK' /\ ConserveInv /\ [Next]_vars => ConserveInv'
  BY ConserveKept
<1>3. ConserveInv => RewardConserved
  BY DEF ConserveInv, RewardConserved, Balanced, DrawnIn, DueIn, GrossIn
<1> QED
  BY <1>1, <1>2, <1>3, TypeCorrect, PTL DEF Spec

-----------------------------------------------------------------------------
(***************************************************************************)
(* When nothing is credited between the plan of a payout and its           *)
(* settlement (QuietSpec), both readings of the balances are what they     *)
(* still are, and the chain is ahead of the journal by the transaction in  *)
(* flight, exactly.                                                        *)
(***************************************************************************)
ReadsAreCurrent ==
  /\ payout.pc # "idle" => payout.plan = ListPayable /\ \E a \in Addresses : Listed(balances, a)
  /\ payout.pc = "listed" => payout.rows = ListPayable

ChainEven ==
  faults = 0 => \A a \in Addresses :
    /\ chain[a].paid = journal[a].payable + InFlight(a).payable
    /\ HasTreasury => chain[a].fee = journal[a].fee + InFlight(a).fee

QuietInv == TypeOK /\ ReadsAreCurrent /\ NothingWrittenOff /\ ChainEven

\* What the ledger's tables and the worker hold.
bookedVars == <<balances, feeLedger, credited, journal, chain, payout>>

LEMMA QuietInit == Init => QuietInv
<1> SUFFICES ASSUME Init PROVE QuietInv
  OBVIOUS
<1>1. TypeOK
  BY TypeInit
<1> QED
  BY <1>1 DEF Init, QuietInv, ReadsAreCurrent, NothingWrittenOff, NetCredited, ChainEven,
     InFlight, NoRows, ZeroRow, Zero

\* Who moves money, and who stops the worker.
LEMMA QuietStep ==
  ASSUME TypeOK, [QuietNext]_vars
  PROVE  \/ UNCHANGED bookedVars /\ (faults' = faults \/ faults' # 0)
         \/ \E a \in Addresses, b \in Blocks : CreditReward(b, a) /\ payout.pc = "idle"
         \/ PlanPayout \/ SendMany \/ ListForSettle \/ Settle
         \/ /\ UNCHANGED <<balances, feeLedger, credited, journal>>
            /\ payout' = Stopped /\ faults' # 0
<1> USE DEF minerVars, bookVars, blockVars, payVars
<1>0. faults \in Nat /\ (Fault => faults' # 0)
  BY DEF TypeOK, Fault
<1>1. CASE UNCHANGED vars
  BY <1>1 DEF vars, bookedVars
<1>2. CASE Tick \/ ServerCrash
  BY <1>0, <1>2 DEF Tick, ServerCrash, bookedVars
<1>3. CASE \E a \in Addresses :
             \/ Authorize(a)
             \/ \E ok \in BOOLEAN : RecordShare(a, ok)
             \/ \E b \in Blocks, gross \in Rewards : BlockShare(a, b, gross)
  BY <1>3 DEF Authorize, RecordShare, BlockShare, bookedVars
<1>4. CASE \E b \in Blocks :
             \/ SubmitAccepted(b) \/ SubmitRejected(b) \/ SubmitError(b)
             \/ Snapshot(b) \/ FinishCredit(b) \/ CreditError(b)
  BY <1>0, <1>4 DEF SubmitAccepted, SubmitRejected, SubmitError, Snapshot, FinishCredit,
                    CreditError, bookedVars
<1>5. ASSUME NEW a \in Addresses, NEW b \in Blocks, CreditReward(b, a), QuietNext
      PROVE  payout.pc = "idle"
  <2>1. credited' = [credited EXCEPT ![a] = @ + credit[b].todo[a]] /\ credit[b].todo[a] > 0
    BY <1>5 DEF CreditReward
  <2>2. credited[a] \in Nat /\ credit[b].todo[a] \in Nat /\ credited \in [Addresses -> Nat]
    BY DEF TypeOK
  <2>3. credited'[a] # credited[a]
    BY <2>1, <2>2
  <2> QED
    BY <1>5, <2>3 DEF QuietNext
<1>6. CASE SendError \/ PayoutCrash
  BY <1>0, <1>6 DEF SendError, PayoutCrash
<1> QED
  BY <1>1, <1>2, <1>3, <1>4, <1>5, <1>6 DEF QuietNext, Next

\* One credit adds to the balance what it adds to the credits and the fee ledger.
LEMMA CreditAdds ==
  ASSUME TypeOK, NEW a \in Addresses, NEW b \in Blocks, CreditReward(b, a)
  PROVE  \E s \in Row :
           /\ s.payable = s.gross - s.fee /\ s.gross > 0
           /\ balances' = [balances EXCEPT ![a] = AddRows(@, s)]
           /\ feeLedger' = [feeLedger EXCEPT ![a] = @ + s.fee]
           /\ credited' = [credited EXCEPT ![a] = @ + s.gross]
           /\ UNCHANGED <<journal, chain, payout, faults>>
<1>1. PICK s \in Row : /\ SplitFor(b, a) = s
                       /\ s.gross = credit[b].todo[a]
                       /\ s.payable = s.gross - s.fee
  BY SplitForRow
<1>2. s.gross > 0
  BY <1>1 DEF CreditReward
<1> QED
  BY <1>1, <1>2 DEF CreditReward, payVars

LEMMA QuietCredit ==
  ASSUME QuietInv, TypeOK', payout.pc = "idle", NEW a \in Addresses, NEW b \in Blocks,
         CreditReward(b, a)
  PROVE  QuietInv'
<1>1. PICK s \in Row :
        /\ s.payable = s.gross - s.fee
        /\ balances' = [balances EXCEPT ![a] = AddRows(@, s)]
        /\ feeLedger' = [feeLedger EXCEPT ![a] = @ + s.fee]
        /\ credited' = [credited EXCEPT ![a] = @ + s.gross]
        /\ UNCHANGED <<journal, chain, payout, faults>>
  BY CreditAdds DEF QuietInv
<1>2. TypeOK
  BY DEF QuietInv
<1>3. ASSUME NEW c \in Addresses
      PROVE  /\ journal'[c].gross + balances'[c].gross = credited'[c]
             /\ journal'[c].fee + balances'[c].fee = feeLedger'[c]
             /\ journal'[c].payable + balances'[c].payable = credited'[c] - feeLedger'[c]
  <2>1. /\ journal[c] \in Row /\ balances[c] \in Row
        /\ credited[c] \in Nat /\ feeLedger[c] \in Nat
    BY <1>2 DEF TypeOK
  <2>2. /\ journal[c].gross + balances[c].gross = credited[c]
        /\ journal[c].fee + balances[c].fee = feeLedger[c]
        /\ journal[c].payable + balances[c].payable = credited[c] - feeLedger[c]
    BY DEF QuietInv, NothingWrittenOff, NetCredited
  <2>3. CASE c = a
    <3>1. /\ balances'[c] = AddRows(balances[c], s)
          /\ feeLedger'[c] = feeLedger[c] + s.fee /\ credited'[c] = credited[c] + s.gross
      BY <1>1, <1>2, <2>3 DEF TypeOK
    <3>2. /\ balances'[c].gross = balances[c].gross + s.gross
          /\ balances'[c].fee = balances[c].fee + s.fee
          /\ balances'[c].payable = balances[c].payable + s.payable
      BY <3>1 DEF AddRows
    <3>3. \A r \in Row : r.gross \in Nat /\ r.fee \in Nat /\ r.payable \in Nat
      BY DEF Row
    <3> QED
      BY <1>1, <2>1, <2>2, <3>1, <3>2, <3>3
  <2>4. CASE c # a
    BY <1>1, <1>2, <2>2, <2>4 DEF TypeOK
  <2> QED
    BY <2>3, <2>4
<1>4. NothingWrittenOff'
  BY <1>3 DEF NothingWrittenOff, NetCredited
<1>5. ReadsAreCurrent' /\ ChainEven'
  BY <1>1 DEF QuietInv, ReadsAreCurrent, ChainEven, InFlight
<1> QED
  BY <1>4, <1>5 DEF QuietInv

LEMMA QuietSettle ==
  ASSUME QuietInv, TypeOK', Settle
  PROVE  QuietInv'
<1>1. /\ payout.pc = "listed" /\ payout.rows = ListPayable /\ payout.plan = ListPayable
      /\ journal' = [a \in Addresses |-> AddRows(journal[a], ListPayable[a])]
      /\ balances' = SettledBalances
      /\ payout' = Stopped
      /\ UNCHANGED <<feeLedger, credited, chain, faults>>
  BY DEF QuietInv, ReadsAreCurrent, Settle
<1>2. TypeOK /\ DustFloor \in Nat \ {0}
  BY LedgerAssumption DEF QuietInv
<1>3. ASSUME NEW c \in Addresses
      PROVE  /\ journal'[c] = AddRows(journal[c], ListPayable[c])
             /\ journal[c] \in Row /\ balances[c] \in Row /\ ListPayable[c] \in Row
             /\ \/ ListPayable[c] = balances[c] /\ balances'[c] = ZeroRow
                \/ ListPayable[c] = ZeroRow /\ balances'[c] = balances[c]
  <2>1. journal[c] \in Row /\ balances[c] \in Row /\ ListPayable[c] \in Row
    BY <1>2, ListPayableTyped DEF TypeOK
  <2>2. ListPayable[c] = IF Listed(balances, c) THEN balances[c] ELSE ZeroRow
    BY DEF ListPayable
  <2>3. Listed(payout.rows, c) <=> Listed(balances, c)
    BY <1>1, <1>2, <2>2 DEF Listed, ZeroRow
  <2>4. balances'[c] = IF Listed(balances, c) THEN ZeroRow ELSE balances[c]
    BY <1>1, <2>3 DEF SettledBalances
  <2> QED
    BY <1>1, <2>1, <2>2, <2>4
<1>4. ASSUME NEW c \in Addresses
      PROVE  /\ journal'[c].gross + balances'[c].gross = journal[c].gross + balances[c].gross
             /\ journal'[c].fee + balances'[c].fee = journal[c].fee + balances[c].fee
             /\ journal'[c].payable + balances'[c].payable
                  = journal[c].payable + balances[c].payable
             /\ journal'[c].payable = journal[c].payable + ListPayable[c].payable
             /\ journal'[c].fee = journal[c].fee + ListPayable[c].fee
  <2>1. \A r \in Row : r.gross \in Nat /\ r.fee \in Nat /\ r.payable \in Nat
    BY DEF Row
  <2>2. /\ journal'[c].gross = journal[c].gross + ListPayable[c].gross
        /\ journal'[c].fee = journal[c].fee + ListPayable[c].fee
        /\ journal'[c].payable = journal[c].payable + ListPayable[c].payable
    <3>1. journal'[c] = AddRows(journal[c], ListPayable[c])
      BY <1>3
    <3> QED
      BY <3>1 DEF AddRows
  <2>3. ZeroRow.gross = 0 /\ ZeroRow.fee = 0 /\ ZeroRow.payable = 0
    BY DEF ZeroRow
  <2> QED
    BY <1>3, <2>1, <2>2, <2>3
<1>5. NothingWrittenOff'
  BY <1>1, <1>4 DEF QuietInv, NothingWrittenOff, NetCredited
<1>6. payout'.pc = "idle" /\ ReadsAreCurrent'
  BY <1>1 DEF Stopped, ReadsAreCurrent
<1>7. ASSUME faults' = 0, NEW c \in Addresses
      PROVE  /\ chain'[c].paid = journal'[c].payable + InFlight(c)'.payable
             /\ HasTreasury => chain'[c].fee = journal'[c].fee + InFlight(c)'.fee
  <2>1. InFlight(c) = ListPayable[c] /\ InFlight(c)' = ZeroRow
    BY <1>1, <1>6 DEF InFlight
  <2>2. /\ chain[c].paid = journal[c].payable + ListPayable[c].payable
        /\ HasTreasury => chain[c].fee = journal[c].fee + ListPayable[c].fee
    BY <1>1, <1>7, <2>1 DEF QuietInv, ChainEven
  <2>3. journal'[c].payable \in Nat /\ journal'[c].fee \in Nat
    BY DEF TypeOK, Row
  <2> QED
    BY <1>1, <1>4, <2>1, <2>2, <2>3 DEF ZeroRow
<1> QED
  BY <1>5, <1>6, <1>7 DEF QuietInv, ChainEven

LEMMA QuietWorker ==
  ASSUME QuietInv, TypeOK', PlanPayout \/ SendMany \/ ListForSettle
  PROVE  QuietInv'
<1>1. TypeOK /\ UNCHANGED <<balances, feeLedger, credited, journal, faults>>
  BY DEF QuietInv, PlanPayout, SendMany, ListForSettle, bookVars
<1>2. NothingWrittenOff'
  BY <1>1 DEF QuietInv, NothingWrittenOff, NetCredited
<1>3. ListPayable' = ListPayable /\ \A a \in Addresses : Listed(balances, a)' <=> Listed(balances, a)
  BY <1>1 DEF ListPayable, Listed
<1>4. CASE PlanPayout
  <2>1. /\ payout'.pc = "planned" /\ payout'.plan = ListPayable /\ payout.pc = "idle"
        /\ (\E a \in Addresses : Listed(balances, a)) /\ chain' = chain
    BY <1>1, <1>4 DEF PlanPayout, TypeOK
  <2> QED
    BY <1>1, <1>2, <1>3, <2>1 DEF QuietInv, ReadsAreCurrent, ChainEven, InFlight
<1>5. CASE SendMany
  <2>1. /\ payout'.pc = "sent" /\ payout'.plan = payout.plan /\ payout.pc = "planned"
        /\ Broadcast
    BY <1>1, <1>5 DEF SendMany, TypeOK
  <2>2. ASSUME faults' = 0, NEW c \in Addresses
        PROVE  /\ chain'[c].paid = journal'[c].payable + InFlight(c)'.payable
               /\ HasTreasury => chain'[c].fee = journal'[c].fee + InFlight(c)'.fee
    <3>1. InFlight(c) = ZeroRow /\ InFlight(c)' = payout.plan[c]
      BY <2>1 DEF InFlight
    <3>2. /\ chain[c].paid = journal[c].payable
          /\ HasTreasury => chain[c].fee = journal[c].fee
      BY <1>1, <2>2, <3>1 DEF QuietInv, ChainEven, ZeroRow, TypeOK, Row
    <3>3. /\ chain'[c].paid = chain[c].paid + payout.plan[c].payable
          /\ HasTreasury => chain'[c].fee = chain[c].fee + payout.plan[c].fee
      BY <2>1 DEF Broadcast
    <3> QED
      BY <1>1, <3>1, <3>2, <3>3
  <2>3. ChainEven'
    BY <2>2 DEF ChainEven
  <2>4. ReadsAreCurrent'
    BY <1>3, <2>1 DEF QuietInv, ReadsAreCurrent
  <2> QED
    BY <1>2, <2>3, <2>4 DEF QuietInv
<1>6. CASE ListForSettle
  <2>1. /\ payout'.pc = "listed" /\ payout'.plan = payout.plan /\ payout.pc = "sent"
        /\ payout'.rows = ListPayable /\ chain' = chain
    BY <1>1, <1>6 DEF ListForSettle, SettleRows, TypeOK
  <2> QED
    BY <1>1, <1>2, <1>3, <2>1 DEF QuietInv, ReadsAreCurrent, ChainEven, InFlight
<1> QED
  BY <1>4, <1>5, <1>6

LEMMA QuietKept == QuietInv /\ [QuietNext]_vars => QuietInv'
<1> SUFFICES ASSUME QuietInv, [QuietNext]_vars PROVE QuietInv'
  OBVIOUS
<1>1. TypeOK /\ TypeOK'
  BY TypeNext DEF QuietInv, QuietNext
<1>2. CASE UNCHANGED bookedVars /\ (faults' = faults \/ faults' # 0)
  BY <1>1, <1>2 DEF bookedVars, QuietInv, ReadsAreCurrent, ListPayable, Listed,
                    NothingWrittenOff, NetCredited, ChainEven, InFlight
<1>3. CASE /\ UNCHANGED <<balances, feeLedger, credited, journal>>
           /\ payout' = Stopped /\ faults' # 0
  BY <1>1, <1>3 DEF Stopped, QuietInv, ReadsAreCurrent, NothingWrittenOff, NetCredited,
                    ChainEven
<1> QED
  BY <1>1, <1>2, <1>3, QuietStep, QuietCredit, QuietSettle, QuietWorker

LEMMA QuietInvariant == QuietSpec => []QuietInv
<1>1. QuietInv /\ [QuietNext]_vars => QuietInv'
  BY QuietKept
<1> QED
  BY <1>1, QuietInit, PTL DEF QuietSpec

\* As long as nothing is credited while a payout runs, a balance leaves the books
\* only as a payment: settle_payable_balances zeroes exactly the rows it journals,
\* also when a worker dies, and what no payout lists stays owed.
THEOREM NothingIsWrittenOff == QuietSpec => []NothingWrittenOff
BY QuietInvariant, PTL DEF QuietInv

\* Then, and if no fault has happened, a worker that has come to its end leaves a
\* journal that says of each address what the one transaction has paid it, the
\* fee part too where there is a treasury to pay it to.
THEOREM JournalIsTheChain == QuietSpec => []JournalMatchesChain
<1>1. QuietInv => JournalMatchesChain
  <2> SUFFICES ASSUME QuietInv, faults = 0, payout.pc = "idle", NEW a \in Addresses
               PROVE  /\ journal[a].payable = chain[a].paid
                      /\ HasTreasury => journal[a].fee = chain[a].fee
    BY DEF JournalMatchesChain
  <2>1. InFlight(a) = ZeroRow /\ journal[a] \in Row
    BY DEF QuietInv, TypeOK, InFlight
  <2> QED
    BY <2>1 DEF QuietInv, ChainEven, ZeroRow, Row
<1> QED
  BY <1>1, QuietInvariant, PTL

(***************************************************************************)
(* The promise: a credit is a Credit of the promise, sendmany its PayBatch *)
(* and nothing else shows.                                                 *)
(***************************************************************************)
Paid == [a \in Addresses |-> chain[a].paid]

PromiseNext == Promise!Credit \/ Promise!PayBatch

LEMMA OwedIs ==
  ASSUME QuietInv, NEW a \in Addresses
  PROVE  /\ balances[a].payable \in Nat /\ ListPayable[a].payable \in Nat
         /\ Owed[a] = balances[a].payable - InFlight(a).payable
         /\ payout.pc \in {"idle", "planned"} => InFlight(a).payable = 0
         /\ payout.pc \in {"sent", "listed"} => InFlight(a) = ListPayable[a]
<1>1. ListPayable[a] \in Row /\ balances[a] \in Row
  BY ListPayableTyped DEF QuietInv, TypeOK
<1>2. balances[a].payable \in Nat /\ ListPayable[a].payable \in Nat
  BY <1>1 DEF Row
<1> QED
  BY <1>2 DEF Owed, InFlight, QuietInv, ReadsAreCurrent, ZeroRow

LEMMA PromiseCredit ==
  ASSUME QuietInv, payout.pc = "idle", NEW a \in Addresses, NEW b \in Blocks,
         CreditReward(b, a)
  PROVE  Promise!Credit \/ UNCHANGED <<Owed, Paid>>
<1>1. PICK s \in Row :
        /\ balances' = [balances EXCEPT ![a] = AddRows(@, s)]
        /\ UNCHANGED <<chain, payout>>
  BY CreditAdds DEF QuietInv
<1>2. s.payable \in Nat /\ balances \in [Addresses -> Row]
  BY DEF Row, QuietInv, TypeOK
<1>3. /\ Owed = [c \in Addresses |-> balances[c].payable]
      /\ Owed' = [c \in Addresses |-> balances'[c].payable]
      /\ Paid' = Paid
  <2>1. ASSUME NEW c \in Addresses
        PROVE  /\ balances[c].payable - InFlight(c).payable = balances[c].payable
               /\ balances'[c].payable - InFlight(c)'.payable = balances'[c].payable
    <3>1. InFlight(c) = ZeroRow /\ InFlight(c)' = ZeroRow
      BY <1>1 DEF InFlight
    <3>2. AddRows(balances[c], s).payable \in Nat /\ balances[c].payable \in Nat
      BY <1>2 DEF AddRows, Row
    <3>3. balances'[c].payable \in Nat
      BY <1>1, <1>2, <3>2
    <3> QED
      BY <3>1, <3>2, <3>3 DEF ZeroRow
  <2> QED
    BY <1>1, <2>1 DEF Owed, Paid
<1>4. \A c \in Addresses : balances'[c].payable =
        IF c = a THEN balances[c].payable + s.payable ELSE balances[c].payable
  BY <1>1, <1>2 DEF AddRows
<1>5. \A c \in Addresses : balances[c].payable \in Nat
  BY <1>2 DEF Row
<1>6. CASE s.payable = 0
  <2>1. Owed' = Owed
    BY <1>3, <1>4, <1>5, <1>6
  <2> QED
    BY <1>3, <2>1
<1>7. CASE s.payable > 0
  <2>1. /\ Owed'[a] = Owed[a] + s.payable /\ Owed[a] \in Nat
        /\ \A c \in Addresses : c # a => Owed'[c] = Owed[c]
    BY <1>3, <1>4, <1>5
  <2>2. Owed' = [Owed EXCEPT ![a] = Owed'[a]]
    BY <1>3, <2>1
  <2>3. Owed'[a] > Owed[a]
    BY <1>2, <1>7, <2>1
  <2> QED
    BY <1>3, <2>2, <2>3 DEF Promise!Credit, Paid
<1> QED
  BY <1>2, <1>6, <1>7

LEMMA PromisePays ==
  ASSUME QuietInv, SendMany
  PROVE  Promise!PayBatch
<1>1. /\ payout.pc = "planned" /\ payout'.pc = "sent" /\ payout'.plan = payout.plan
      /\ payout.plan = ListPayable /\ balances' = balances /\ Broadcast
      /\ \E a \in Addresses : Listed(balances, a)
  BY DEF QuietInv, ReadsAreCurrent, TypeOK, SendMany, bookVars
<1>2. ASSUME NEW a \in Addresses
      PROVE  /\ Owed[a] = balances[a].payable /\ balances[a].payable \in Nat
             /\ Owed'[a] = balances[a].payable - ListPayable[a].payable
             /\ Paid'[a] = Paid[a] + ListPayable[a].payable
             /\ ListPayable[a].payable = IF Listed(balances, a) THEN balances[a].payable ELSE 0
  <2>1. InFlight(a)' = ListPayable[a]
    BY <1>1 DEF InFlight
  <2>2. Owed[a] = balances[a].payable /\ balances[a].payable \in Nat
    BY <1>1, OwedIs
  <2>3. Owed'[a] = balances[a].payable - ListPayable[a].payable
    BY <1>1, <2>1 DEF Owed
  <2>4. Paid'[a] = Paid[a] + ListPayable[a].payable
    BY <1>1 DEF Paid, Broadcast
  <2> QED
    BY <2>2, <2>3, <2>4 DEF ListPayable, ZeroRow
<1>3. Promise!Due = {a \in Addresses : Listed(balances, a)}
  BY <1>2 DEF Promise!Due, Listed
<1>4. Paid' = [a \in Addresses |-> IF a \in Promise!Due THEN Paid[a] + Owed[a] ELSE Paid[a]]
  <2>1. \A a \in Addresses : Paid[a] \in Nat
    BY DEF Paid, QuietInv, TypeOK
  <2>2. \A a \in Addresses :
          Paid'[a] = IF a \in Promise!Due THEN Paid[a] + Owed[a] ELSE Paid[a]
    BY <1>2, <1>3, <2>1
  <2> QED
    BY <2>2 DEF Paid
<1>5. Owed' = [a \in Addresses |-> IF a \in Promise!Due THEN 0 ELSE Owed[a]]
  <2>1. \A a \in Addresses : Owed'[a] = IF a \in Promise!Due THEN 0 ELSE Owed[a]
    BY <1>2, <1>3
  <2> QED
    BY <2>1 DEF Owed
<1>6. Promise!Due # {}
  BY <1>1, <1>3
<1> QED
  BY <1>4, <1>5, <1>6 DEF Promise!PayBatch, Paid

LEMMA PromiseSettle ==
  ASSUME QuietInv, Settle
  PROVE  UNCHANGED <<Owed, Paid>>
<1>1. /\ payout.pc = "listed" /\ payout.rows = ListPayable
      /\ balances' = SettledBalances /\ payout'.pc = "idle" /\ chain' = chain
  BY DEF QuietInv, ReadsAreCurrent, Settle, Stopped
<1>2. DustFloor \in Nat \ {0}
  BY LedgerAssumption
<1>3. ASSUME NEW a \in Addresses
      PROVE  balances'[a].payable - InFlight(a)'.payable = Owed[a]
  <2>1. InFlight(a)' = ZeroRow
    BY <1>1 DEF InFlight
  <2>2. Owed[a] = balances[a].payable - ListPayable[a].payable /\ balances[a].payable \in Nat
    BY <1>1, OwedIs
  <2>3. Listed(payout.rows, a) <=> Listed(balances, a)
    BY <1>1, <1>2 DEF Listed, ListPayable, ZeroRow
  <2>4. CASE Listed(balances, a)
    <3>1. balances'[a] = ZeroRow /\ ListPayable[a] = balances[a]
      BY <1>1, <2>3, <2>4 DEF SettledBalances, ListPayable
    <3> QED
      BY <2>1, <2>2, <3>1 DEF ZeroRow
  <2>5. CASE ~Listed(balances, a)
    <3>1. balances'[a] = balances[a] /\ ListPayable[a] = ZeroRow
      BY <1>1, <2>3, <2>5 DEF SettledBalances, ListPayable
    <3> QED
      BY <2>1, <2>2, <3>1 DEF ZeroRow
  <2> QED
    BY <2>4, <2>5
<1>4. Owed' = Owed
  BY <1>3 DEF Owed
<1> QED
  BY <1>1, <1>4 DEF Paid

LEMMA PromiseStep ==
  ASSUME QuietInv, faults' = 0, [QuietNext]_vars
  PROVE  [PromiseNext]_<<Owed, Paid>>
<1>1. CASE UNCHANGED bookedVars
  BY <1>1 DEF bookedVars, Owed, Paid, InFlight
<1>2. CASE PlanPayout \/ ListForSettle
  <2>1. /\ UNCHANGED <<balances, chain>>
        /\ \A a \in Addresses : InFlight(a)' = InFlight(a)
    BY <1>2 DEF PlanPayout, ListForSettle, bookVars, QuietInv, TypeOK, InFlight
  <2> QED
    BY <2>1 DEF Owed, Paid
<1> QED
  BY <1>1, <1>2, QuietStep, PromiseCredit, PromisePays, PromiseSettle
     DEF PromiseNext, QuietInv

\* As long as nothing fails and nothing is credited during a payout, the tables,
\* the worker's four steps and sendmany together keep the promise of the docs: a
\* debt only grows until one transaction pays everyone at or above the floor whole.
THEOREM PromiseKept == QuietSpec /\ [](faults = 0) => KeepsPromise
<1>1. Init => Promise!Init
  BY DEF Init, Promise!Init, Owed, InFlight, NoRows, ZeroRow
<1>2. QuietInv /\ (faults = 0)' /\ [QuietNext]_vars => [PromiseNext]_<<Owed, Paid>>
  BY PromiseStep
<1> QED
  BY <1>1, <1>2, QuietInvariant, PTL
     DEF QuietSpec, KeepsPromise, Promise!Spec, PromiseNext, Paid

\* "Below dust, your balance rolls over", which a credit between sendmany and the
\* second reading breaks (the run ledger_race), is kept when there is none: only a
\* row with an output in the transaction is ever cleared.
THEOREM RollsOverWhenQuiet == QuietSpec => BelowDustRollsOver
<1> DEFINE Kept == \A a \in Addresses :
       balances'[a].payable < balances[a].payable => Listed(payout.plan, a)
<1>1. ASSUME QuietInv, [QuietNext]_vars
      PROVE  Kept
  <2> SUFFICES ASSUME NEW a \in Addresses, balances'[a].payable < balances[a].payable
               PROVE  Listed(payout.plan, a)
    OBVIOUS
  <2>1. \A r \in Row : r.payable \in Nat
    BY DEF Row
  <2>2. balances[a] \in Row /\ balances \in [Addresses -> Row]
    BY <1>1 DEF QuietInv, TypeOK
  <2>3. balances' # balances
    BY <2>1, <2>2
  <2>4. ASSUME NEW c \in Addresses, NEW b \in Blocks, CreditReward(b, c) PROVE FALSE
    <3>1. PICK s \in Row : balances' = [balances EXCEPT ![c] = AddRows(@, s)]
      BY <1>1, <2>4, CreditAdds DEF QuietInv
    <3>2. balances'[a].payable = balances[a].payable
            \/ balances'[a].payable = balances[a].payable + s.payable
      BY <2>2, <3>1 DEF AddRows
    <3> QED
      BY <2>1, <2>2, <3>2
  <2>5. Settle
    BY <1>1, <2>3, <2>4, QuietStep
       DEF QuietInv, bookedVars, PlanPayout, SendMany, ListForSettle, bookVars
  <2>6. Listed(payout.rows, a) /\ payout.plan = payout.rows
    BY <1>1, <2>1, <2>2, <2>5 DEF Settle, SettledBalances, QuietInv, ReadsAreCurrent
  <2> QED
    BY <2>6 DEF Listed
<1> QED
  BY <1>1, QuietInvariant, PTL DEF QuietSpec, BelowDustRollsOver
=============================================================================
