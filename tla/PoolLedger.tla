----------------------------- MODULE PoolLedger -----------------------------
(***************************************************************************)
(* The pool's accounting: miners, accepted shares, block rewards credited  *)
(* by PPLNS, and payouts.  Its tables are those of backend/schema.sql that *)
(* hold money or decide about it; its actors are                           *)
(*   - the stratum server's event loop, which records shares and hands a   *)
(*     found block to submitblock (backend/stratum_server.py);             *)
(*   - one credit thread per accepted block (credit_pplns_reward in        *)
(*     asyncio.to_thread), a sequence of SQLite transactions;              *)
(*   - the payout worker, another process (backend/payout_worker.py).      *)
(* An action is one transaction or one RPC, so the steps of the three      *)
(* interleave as SQLite and the processes let them.                        *)
(***************************************************************************)
EXTENDS Pplns

CONSTANTS Addresses,    \* payout addresses
          Blocks,       \* block candidates the pool may find
          Rewards,      \* coinbasevalue of a template, in satoshis
          Window,       \* window_hours, in ticks
          DustFloor,    \* dust_floor_sat
          HasTreasury,  \* is TREASURY_ADDRESS set?
          MaxTime,      \* bound on the clock
          MaxShares,    \* bound on the rows of shares
          MaxPayouts,   \* bound on the --execute runs of the payout worker
          MaxFaults     \* bound on crashes, lost replies and database errors

ASSUME LedgerAssumption ==
  /\ Addresses \subseteq Nat
  /\ IsFiniteSet(Addresses)
  /\ Rewards \subseteq Nat \ {0}
  /\ Window \in Nat \ {0}
  /\ DustFloor \in Nat \ {0}
  /\ HasTreasury \in BOOLEAN
  /\ MaxTime \in Nat /\ MaxShares \in Nat /\ MaxPayouts \in Nat /\ MaxFaults \in Nat

VARIABLES
  now,         \* the clock, in ticks
  created,     \* miners.created_at
  firstShare,  \* miners.first_share_at
  shares,      \* the rows of shares
  balances,    \* the row of balances of each address
  feeLedger,   \* the sum of fee_ledger.fee_sat over each address's rows
  journal,     \* the sum of the payouts rows of each address, status 'sent'
  credit,      \* per block: submitblock and the thread that credits it
  earned,      \* blocks the node has accepted: coinbases the pool really has
  credited,    \* history: gross credited to each address since the start
  payout,      \* the payout worker: where it is, and the rows it has read
  chain,       \* what sendmany has paid for each address: miner and fee part
  runs,        \* payout runs so far
  faults       \* faults so far

minerVars == <<created, firstShare, shares>>
bookVars  == <<balances, feeLedger, credited>>
blockVars == <<credit, earned>>
payVars   == <<journal, payout, chain, runs>>
vars == <<now, minerVars, bookVars, blockVars, payVars, faults>>

NoTime == -1                 \* SQL NULL in a time column
Times  == Nat \cup {NoTime}

Row == [gross : Nat, fee : Nat, payable : Nat]
ZeroRow == [gross |-> 0, fee |-> 0, payable |-> 0]
AddRows(r, s) == [gross   |-> r.gross + s.gross,
                  fee     |-> r.fee + s.fee,
                  payable |-> r.payable + s.payable]

Zero == [a \in Addresses |-> 0]
NoRows == [a \in Addresses |-> ZeroRow]

\* A block candidate is idle until found; lost when the pool never comes to
\* allocate it; partial when the allocation stops halfway.
CreditPc == {"idle", "submitting", "accepted", "rejected", "allocating",
             "allocated", "unallocated", "lost", "partial"}
PayoutPc == {"idle", "planned", "sent", "listed"}

\* n tells apart the rows of one address that are otherwise alike.
Share == [n : Nat, address : Addresses, accepted : BOOLEAN, at : Nat]

TypeOK ==
  /\ now \in Nat
  /\ created \in [Addresses -> Times]
  /\ firstShare \in [Addresses -> Times]
  /\ shares \subseteq Share /\ IsFiniteSet(shares)
  /\ balances \in [Addresses -> Row]
  /\ feeLedger \in [Addresses -> Nat]
  /\ journal \in [Addresses -> Row]
  /\ credit \in [Blocks -> [pc : CreditPc, gross : Nat, when : Nat,
                            todo : [Addresses -> Nat]]]
  /\ earned \subseteq Blocks
  /\ credited \in [Addresses -> Nat]
  /\ payout \in [pc : PayoutPc, plan : [Addresses -> Row], rows : [Addresses -> Row]]
  /\ chain \in [Addresses -> [paid : Nat, fee : Nat]]
  /\ runs \in Nat
  /\ faults \in Nat

Init ==
  /\ now = 0
  /\ created = [a \in Addresses |-> NoTime]
  /\ firstShare = [a \in Addresses |-> NoTime]
  /\ shares = {}
  /\ balances = NoRows
  /\ feeLedger = Zero
  /\ journal = NoRows
  /\ credit = [b \in Blocks |-> [pc |-> "idle", gross |-> 0, when |-> 0, todo |-> Zero]]
  /\ earned = {}
  /\ credited = Zero
  /\ payout = [pc |-> "idle", plan |-> NoRows, rows |-> NoRows]
  /\ chain = [a \in Addresses |-> [paid |-> 0, fee |-> 0]]
  /\ runs = 0
  /\ faults = 0
-----------------------------------------------------------------------------
(***************************************************************************)
(* Time.  A tick is long (hours); submitblock answers or times out within  *)
(* BtxRpcClient.timeout_s = 10 s and the credit thread starts at once, so  *)
(* between a block share and the query of the credit thread at most the    *)
(* current tick passes.                                                    *)
(***************************************************************************)
Tick ==
  /\ now < MaxTime
  /\ \A b \in Blocks : credit[b].pc \in {"submitting", "accepted"} => credit[b].when = now
  /\ now' = now + 1
  /\ UNCHANGED <<minerVars, bookVars, blockVars, payVars, faults>>

\* One more fault: a crash, a lost reply, a "database is locked".
Fault == faults < MaxFaults /\ faults' = faults + 1
-----------------------------------------------------------------------------
(***************************************************************************)
(* Shares.                                                                 *)
(***************************************************************************)
\* BackendRepository.ensure_miner: the miner's row, unless there is one.
EnsureMiner(a) == created' = [created EXCEPT ![a] = IF @ = NoTime THEN now ELSE @]

\* mining.authorize: touch_worker, which ensures the miner.
Authorize(a) ==
  /\ created[a] = NoTime
  /\ EnsureMiner(a)
  /\ UNCHANGED <<now, firstShare, shares, bookVars, blockVars, payVars, faults>>

\* A faulty variant: any share starts the trial.
StampAny(a, ok) == IF firstShare[a] = NoTime THEN now ELSE firstShare[a]

\* first_share_at = COALESCE(first_share_at, created_at) if the share is accepted.
FirstShareStamp(a, ok) ==
  IF ok /\ firstShare[a] = NoTime THEN now ELSE firstShare[a]

\* BackendRepository.record_share: the row and the stamp in one transaction.
\* (Only an authorized session submits, so touch_worker finds the miner.)
InsertShare(a, ok) ==
  /\ Cardinality(shares) < MaxShares
  /\ created[a] # NoTime
  /\ EnsureMiner(a)
  /\ LET alike == {s \in shares : s.address = a /\ s.accepted = ok /\ s.at = now}
     IN  shares' = shares \cup {[n |-> Cardinality(alike), address |-> a,
                                 accepted |-> ok, at |-> now]}
  /\ firstShare' = [firstShare EXCEPT ![a] = FirstShareStamp(a, ok)]

\* A share that is not a block; or one that is, with submission disabled or
\* without a payload, which adds only an event.
RecordShare(a, ok) ==
  /\ InsertShare(a, ok)
  /\ UNCHANGED <<now, bookVars, blockVars, payVars, faults>>
-----------------------------------------------------------------------------
(***************************************************************************)
(* A block: record the share, submitblock in a thread, then credit.        *)
(***************************************************************************)
\* An accepted share that is a block; submitblock is on its way.  Without
\* block_submission_enabled it is a share like any other (RecordShare).
BlockShare(a, b, gross) ==
  /\ credit[b].pc = "idle"
  /\ InsertShare(a, TRUE)
  /\ credit' = [credit EXCEPT ![b] = [pc |-> "submitting", gross |-> gross,
                                      when |-> now, todo |-> Zero]]
  /\ UNCHANGED <<now, bookVars, earned, payVars, faults>>

\* The node accepts the block and answers null.
SubmitAccepted(b) ==
  /\ credit[b].pc = "submitting"
  /\ credit' = [credit EXCEPT ![b].pc = "accepted"]
  /\ earned' = earned \cup {b}
  /\ UNCHANGED <<now, minerVars, bookVars, payVars, faults>>

\* The node answers with a reason: an event, no credit.
SubmitRejected(b) ==
  /\ credit[b].pc = "submitting"
  /\ credit' = [credit EXCEPT ![b].pc = "rejected"]
  /\ UNCHANGED <<now, minerVars, bookVars, earned, payVars, faults>>

\* submitblock raises (a timeout, a broken connection): an event, no credit,
\* although the node may have taken the block.
SubmitError(b) ==
  /\ Fault
  /\ credit[b].pc = "submitting"
  /\ credit' = [credit EXCEPT ![b].pc = "lost"]
  /\ \/ earned' = earned \cup {b}
     \/ UNCHANGED earned
  /\ UNCHANGED <<now, minerVars, bookVars, payVars>>
-----------------------------------------------------------------------------
(***************************************************************************)
(* The credit thread: credit_pplns_reward.                                 *)
(***************************************************************************)
\* Faulty variants of InWindow: rejected shares count; the comparison is strict.
InWindowAny == {s \in shares : s.at >= now - Window}
InWindowStrict == {s \in shares : s.accepted /\ s.at > now - Window}

\* The shares the query counts: accepted = 1 AND created_at >= cutoff.
InWindow == {s \in shares : s.accepted /\ s.at >= now - Window}

Recipients == {s.address : s \in InWindow}

ShareCounts == [a \in Recipients |-> Cardinality({s \in InWindow : s.address = a})]

AllocationOf(gross) ==
  [a \in Addresses |->
     IF a \in Recipients
     THEN Amount(gross, ShareCounts, Cardinality(InWindow), a)
     ELSE 0]

\* Take the time, count the shares, and work out the allocation.
Snapshot(b) ==
  /\ credit[b].pc = "accepted"
  /\ \/ /\ InWindow # {}
        /\ credit' = [credit EXCEPT ![b] = [@ EXCEPT !.pc = "allocating", !.when = now,
                                                    !.todo = AllocationOf(credit[b].gross)]]
     \/ /\ InWindow = {}
        /\ credit' = [credit EXCEPT ![b].pc = "unallocated"]
  /\ UNCHANGED <<now, minerVars, bookVars, earned, payVars, faults>>

\* A faulty variant: the miner's sign-up starts the trial.
CreatedAt(a) == created[a]

\* first_share_at or created_at
FirstShareOf(a) == IF firstShare[a] # NoTime THEN firstShare[a] ELSE created[a]

SplitFor(b, a) == split_reward_sat(credit[b].todo[a], FirstShareOf(a), credit[b].when)

\* A faulty variant: the loop credits the same address again.
NotCleared(b, a) == credit' = credit

\* The address is done with: the loop goes on to the next one.
ClearTodo(b, a) == credit' = [credit EXCEPT ![b].todo[a] = 0]

\* credit_reward for one address of the allocation: balance and fee ledger in
\* one transaction.  The first_share_at it splits by is read just before, and
\* never changes once set.  The order of the addresses is not modelled.
CreditReward(b, a) ==
  /\ credit[b].pc = "allocating"
  /\ credit[b].todo[a] > 0
  /\ EnsureMiner(a)
  /\ balances' = [balances EXCEPT ![a] = AddRows(@, SplitFor(b, a))]
  /\ feeLedger' = [feeLedger EXCEPT ![a] = @ + SplitFor(b, a).fee]
  /\ credited' = [credited EXCEPT ![a] = @ + credit[b].todo[a]]
  /\ ClearTodo(b, a)
  /\ UNCHANGED <<now, firstShare, shares, earned, payVars, faults>>

\* All addresses are credited; the event pool_reward_allocated is recorded.
FinishCredit(b) ==
  /\ credit[b].pc = "allocating"
  /\ credit[b].todo = Zero
  /\ credit' = [credit EXCEPT ![b].pc = "allocated"]
  /\ UNCHANGED <<now, minerVars, bookVars, earned, payVars, faults>>

\* Where a block's task stops when its thread dies: nothing ever resumes it.
Abandoned(task) ==
  [task EXCEPT !.pc = CASE @ \in {"submitting", "accepted"} -> "lost"
                        [] @ = "allocating" -> "partial"
                        [] OTHER -> @]

\* A transaction of the credit thread raises ("database is locked").
CreditError(b) ==
  /\ Fault
  /\ credit[b].pc \in {"accepted", "allocating"}
  /\ credit' = [credit EXCEPT ![b] = Abandoned(@)]
  /\ UNCHANGED <<now, minerVars, bookVars, earned, payVars>>

\* The stratum server dies and restarts: its threads are gone, and a block
\* on its way to the node may have arrived or not.
ServerCrash ==
  /\ Fault
  /\ \E b \in Blocks : credit[b].pc \in {"submitting", "accepted", "allocating"}
  /\ credit' = [b \in Blocks |-> Abandoned(credit[b])]
  /\ \E arrived \in SUBSET {b \in Blocks : credit[b].pc = "submitting"} :
        earned' = earned \cup arrived
  /\ UNCHANGED <<now, minerVars, bookVars, payVars>>
-----------------------------------------------------------------------------
(***************************************************************************)
(* The payout worker, run with --execute by the operator, one at a time.   *)
(***************************************************************************)
\* list_payable_balances: the rows at or above the dust floor, as they are now.
\* A row that is not listed is all zeros here.
Listed(rows, a) == rows[a].payable >= DustFloor
ListPayable == [a \in Addresses |-> IF Listed(balances, a) THEN balances[a] ELSE ZeroRow]

\* build_payout_plan; an empty plan ends the run with an error.
PlanPayout ==
  /\ payout.pc = "idle"
  /\ runs < MaxPayouts
  /\ \E a \in Addresses : Listed(balances, a)
  /\ payout' = [payout EXCEPT !.pc = "planned", !.plan = ListPayable]
  /\ runs' = runs + 1
  /\ UNCHANGED <<now, minerVars, bookVars, blockVars, journal, chain, faults>>

\* The one transaction of sendmany: an output per miner, and the fees to the
\* treasury if there is one (kept apart by address here).
Broadcast ==
  chain' = [a \in Addresses |->
              [paid |-> chain[a].paid + payout.plan[a].payable,
               fee  |-> chain[a].fee + (IF HasTreasury THEN payout.plan[a].fee ELSE 0)]]

\* The worker's process is over: it keeps nothing.
Stopped == [pc |-> "idle", plan |-> NoRows, rows |-> NoRows]

\* sendmany returns the txid.
SendMany ==
  /\ payout.pc = "planned"
  /\ Broadcast
  /\ payout' = [payout EXCEPT !.pc = "sent"]
  /\ UNCHANGED <<now, minerVars, bookVars, blockVars, journal, runs, faults>>

\* sendmany raises and the worker ends: the node refused, or it broadcast the
\* transaction and the answer was lost.
SendError ==
  /\ Fault
  /\ payout.pc = "planned"
  /\ \/ Broadcast
     \/ UNCHANGED chain
  /\ payout' = Stopped
  /\ UNCHANGED <<now, minerVars, bookVars, blockVars, journal, runs>>

\* A faulty variant: settle forgets the dust floor.
SettleRowsAll == balances

\* settle_payable_balances reads the rows again.
SettleRows == ListPayable

ListForSettle ==
  /\ payout.pc = "sent"
  /\ payout' = [payout EXCEPT !.pc = "listed", !.rows = SettleRows]
  /\ UNCHANGED <<now, minerVars, bookVars, blockVars, journal, chain, runs, faults>>

\* Faulty variants of the settled balances: not reset; all reset (an UPDATE
\* without its WHERE); only payable reset.
NotReset == balances
AllReset == NoRows
OnlyPayableReset ==
  [a \in Addresses |-> IF Listed(payout.rows, a) THEN [balances[a] EXCEPT !.payable = 0]
                       ELSE balances[a]]

SettledBalances ==
  [a \in Addresses |-> IF Listed(payout.rows, a) THEN ZeroRow ELSE balances[a]]

\* ... and in a second transaction journals what it read and zeroes the balances.
Settle ==
  /\ payout.pc = "listed"
  /\ journal' = [a \in Addresses |-> AddRows(journal[a], payout.rows[a])]
  /\ balances' = SettledBalances
  /\ payout' = Stopped
  /\ UNCHANGED <<now, minerVars, feeLedger, credited, blockVars, chain, runs, faults>>

\* The worker dies, or its transaction fails, after the transaction went out.
PayoutCrash ==
  /\ Fault
  /\ payout.pc \in {"sent", "listed"}
  /\ payout' = Stopped
  /\ UNCHANGED <<now, minerVars, bookVars, blockVars, journal, chain, runs>>
-----------------------------------------------------------------------------
Next ==
  \/ Tick
  \/ \E a \in Addresses :
       \/ Authorize(a)
       \/ \E ok \in BOOLEAN : RecordShare(a, ok)
       \/ \E b \in Blocks, gross \in Rewards : BlockShare(a, b, gross)
       \/ \E b \in Blocks : CreditReward(b, a)
  \/ \E b \in Blocks :
       \/ SubmitAccepted(b)
       \/ SubmitRejected(b)
       \/ SubmitError(b)
       \/ Snapshot(b)
       \/ FinishCredit(b)
       \/ CreditError(b)
  \/ ServerCrash
  \/ PlanPayout
  \/ SendMany
  \/ SendError
  \/ ListForSettle
  \/ Settle
  \/ PayoutCrash

Spec == Init /\ [][Next]_vars

\* The event loop and the credit thread keep running; nothing makes the
\* operator start a payout, or the clock or the miners go on.
CreditStep(b) == \/ Snapshot(b)
                 \/ \E a \in Addresses : CreditReward(b, a)
                 \/ FinishCredit(b)

FairSpec == Spec /\ \A b \in Blocks : WF_vars(CreditStep(b))
-----------------------------------------------------------------------------
(***************************************************************************)
(* Properties.                                                             *)
(***************************************************************************)
\* What an address was ever credited net of fees.
NetCredited(a) == credited[a] - feeLedger[a]

\* Whatever interleaves with it, a settlement never journals money that was
\* not credited: what is journalled as sent and what is still owed add up to
\* no more than the credits, for gross, fee and payable alike.
NeverOverSettled ==
  \A a \in Addresses :
    /\ journal[a].gross + balances[a].gross <= credited[a]
    /\ journal[a].fee + balances[a].fee <= feeLedger[a]
    /\ journal[a].payable + balances[a].payable <= NetCredited(a)

\* Until something fails, the chain never pays an address, or the treasury on
\* its account, more than it was credited -- although plan, sendmany, the
\* second read and the settlement are four steps that credits run between.
NoOverpay ==
  faults = 0 => \A a \in Addresses : /\ chain[a].paid <= NetCredited(a)
                                     /\ chain[a].fee <= feeLedger[a]

\* The inductive invariants behind these two and behind TrialHonoured.  What the
\* worker has read never exceeds the balances, since only it lowers them; the
\* rows that it reads after sendmany cover those it planned; the chain is ahead
\* of the journal by the transaction in flight and no more.
RowLeq(r, s) == r.gross <= s.gross /\ r.fee <= s.fee /\ r.payable <= s.payable

OnlyListed(rows) == \A a \in Addresses : ~Listed(rows, a) => rows[a] = ZeroRow

InFlight(a) == IF payout.pc \in {"sent", "listed"} THEN payout.plan[a] ELSE ZeroRow

ReadsHold ==
  /\ OnlyListed(payout.plan) /\ OnlyListed(payout.rows)
  /\ \A a \in Addresses : /\ RowLeq(payout.plan[a], balances[a])
                          /\ RowLeq(payout.rows[a], balances[a])
                          /\ payout.pc = "listed" => RowLeq(payout.plan[a], payout.rows[a])

ChainBacked ==
  faults = 0 => \A a \in Addresses :
                  /\ chain[a].paid <= journal[a].payable + InFlight(a).payable
                  /\ chain[a].fee <= journal[a].fee + InFlight(a).fee

BooksInv == TypeOK /\ ReadsHold /\ NeverOverSettled /\ ChainBacked

HasWork(a, at) == \E s \in shares : s.accepted /\ s.address = a /\ s.at = at

WorkInv ==
  /\ TypeOK
  /\ \A a \in Addresses : firstShare[a] # NoTime => HasWork(a, firstShare[a])
  /\ \A s \in shares : s.accepted => firstShare[s.address] # NoTime
  /\ \A b \in Blocks : /\ credit[b].when <= now
                       /\ \A a \in Addresses : credit[b].todo[a] > 0 => firstShare[a] # NoTime
  /\ \A a \in Addresses : credited[a] > 0 => firstShare[a] # NoTime

\* Every satoshi of an allocated reward is credited or still due in the
\* credit thread's list, also when two threads run at once, or one dies.
RewardConserved ==
  LET Drawn == {b \in Blocks : credit[b].pc \in {"allocating", "allocated", "partial"}}
  IN  /\ Drawn \subseteq earned
      /\ SumOver(credited, Addresses)
           + SumOver([b \in Drawn |-> SumOver(credit[b].todo, Addresses)], Drawn)
         = SumOver([b \in Drawn |-> credit[b].gross], Drawn)

\* The pool earns a block only with a share that the window still counts, so
\* the branch "no accepted shares" is never taken for a found block.
FinderAlwaysCredited == \A b \in Blocks : credit[b].pc # "unallocated"

\* Only an address with an accepted share is ever credited, so the trial is
\* never dated from the miner's sign-up (the "or created_at" of credit_reward).
CreditedHaveWorked ==
  \A a \in Addresses : credited[a] > 0 => firstShare[a] # NoTime

\* The trial is dated from the earliest accepted share of the address.
FirstShareIsEarliest ==
  \A a \in Addresses :
    LET accepted == {s.at : s \in {x \in shares : x.accepted /\ x.address = a}}
    IN  firstShare[a] = IF accepted = {} THEN NoTime ELSE Min(accepted)

\* An address pays more than the trial rate only when it has an accepted share
\* at least TrialDays old.
TrialHonoured ==
  [][\A a \in Addresses :
       feeLedger'[a] - feeLedger[a] > platform_fee(credited'[a] - credited[a], TrialFeeBps)
         => \E s \in shares : s.accepted /\ s.address = a /\ now >= s.at + TrialDays]_vars

\* A coinbase the pool has earned is credited in full, unless something fails.
EarnedIsCredited ==
  \A b \in Blocks : (b \in earned) ~> (credit[b].pc = "allocated" \/ faults > 0)

\* Whenever the payout worker has come to its end without a fault, the journal
\* says of each address what the chain paid it.
JournalMatchesChain ==
  faults = 0 /\ payout.pc = "idle" =>
    \A a \in Addresses : /\ journal[a].payable = chain[a].paid
                         /\ HasTreasury => journal[a].fee = chain[a].fee

\* What the pool owes an address, as the promise counts it: the balance, less
\* what is already in a transaction that the settlement has yet to book.
Owed == [a \in Addresses |-> balances[a].payable - InFlight(a).payable]

Promise == INSTANCE LedgerPromise
             WITH owed <- Owed, paid <- [a \in Addresses |-> chain[a].paid]

\* The ledger implements the promise made to the miners.
KeepsPromise == Promise!Spec

\* "Below dust, your balance rolls over": a balance is cleared only when the
\* transaction that the worker sent had an output for it.
BelowDustRollsOver ==
  [][\A a \in Addresses :
       balances'[a].payable < balances[a].payable => Listed(payout.plan, a)]_vars

\* A balance leaves the books only as a payment: what is not paid out rolls over.
NothingWrittenOff ==
  \A a \in Addresses :
    /\ journal[a].gross + balances[a].gross = credited[a]
    /\ journal[a].fee + balances[a].fee = feeLedger[a]
    /\ journal[a].payable + balances[a].payable = NetCredited(a)
=============================================================================
