# A verification development for minebtx-start

`minebtx-start` is a mining pool for the BTX chain: a stratum server that hands
out work and checks shares, a ledger that divides block rewards over the miners
and pays them, a web API with billing, and the miner that connects to it all.
This directory holds TLA+ modules translated from its source, the TLC
configurations that check them, and theorems with TLAPS proofs.

Paths below are relative to the repository's root.

## 1. Inventory

| Part | Source | State it keeps | Operations |
|---|---|---|---|
| Fee policy | `backend/fee_policy.py` | none | end of trial, rate, split of a reward |
| Repository | `backend/repository.py`, `schema.sql` | SQLite: miners, workers, shares, balances, payouts, fee_ledger, subscriptions, address scans, events | one or more transactions per method |
| Stratum server | `backend/stratum_server.py` | per session: identity, submitted set, last notified job, nonce start | subscribe, authorize, submit, notify loop, block submission |
| Job manager | `backend/stratum_jobs.py` | current job, time of the last refresh, a lock | `get_job`, forced or not |
| Share validator | `backend/share_validation.py` | one solver wrapper for all sessions | `validate` |
| Payout worker | `backend/payout_worker.py` | none between runs | plan, `sendmany`, settle |
| Node RPC | `backend/btx_rpc.py` | none | one HTTP request, 10 s timeout |
| Web API | `backend/app.py`, `billing.py` | none (the repository's) | checkout, webhook, scans, statistics |
| Network agent | `backend/network_agent.py` | a snapshot file | poll, select peers |
| Block builder | `backend/block_builder.py` | none | serialisation, merkle root |
| Miner client | `src/dexbtx_miner/stratum_client.py` | current job, pending calls, solver task, counters | reconnect, handshake, reader, solver loop, submit |
| Solver wrapper | `src/dexbtx_miner/gbt_solve_wrapper.py` | the solver process, a lock, its shape | spawn, shut down, solve a slice with one retry |
| Economics, settings, travel app, verifier, CLI, benchmark, installer, website | several | none of consequence | arithmetic for display, configuration, printing |

How they interact. The stratum server is one asyncio process: a task per
session and a notify task beside it, sharing the job manager, the validator
(and so one solver process behind one lock) and the repository. Its database
calls run on the event loop, except the crediting of a block, which runs in a
thread (`asyncio.to_thread`), as does every RPC. The payout worker and the API
are processes of their own over the same SQLite file. Each `with
self.connect()` block is one SQLite transaction; most repository methods are
several. The node `btxd` is outside the repository; only `submitblock`,
`getblocktemplate`, `validateaddress`, `scantxoutset` and `sendmany` matter.

What is hard, part by part, and what makes each part correct:

- **Ledger.** Three actors (event loop, credit threads, payout worker) over the
  same rows, with method-level operations split over transactions; crashes and
  lost answers between them; money on the chain that the database cannot roll
  back. Correct when no money is made, charged or paid that is not due, when
  what is earned is credited, and when journal and chain agree.
- **Apportionment.** Integer division and ties. Correct when every satoshi is
  allocated, each part is within a satoshi of the proportion, more shares never
  earn less, and the fees of the parts never exceed the fee of the whole.
- **Stratum server.** Suspension points between reading the current job,
  validating and recording; a job manager whose forced refresh affects every
  session. Correct when no share is credited twice or for work it does not
  belong to, and when fresh work is not refused.
- **Solver wrapper.** A request/answer protocol on two pipes with timeouts,
  restarts and cancellation, and no identifiers in it. Correct when the answer
  a job gets is its own, and nobody waits forever.
- **Miner client.** Two tasks and a reconnect loop sharing a job, a socket and
  a table of pending calls. Correct when results are submitted for the job they
  were solved for, once, and counted as the pool counts them; when a new
  session inherits nothing, and there is always a new session.
- **Job, share and block.** One template turns into a job, a notification, two
  challenges and a block, with defaults and targets taken at each turn. Correct
  when the miner's work is the work the pool checks, and a share that is a
  block reaches the node as the block it is.
- **Billing.** Stripe delivers at least once and out of order, and the webhook
  writes in two transactions. Correct when what it has acknowledged is applied.
- **Address scans.** Scans of one address overlap in threads and overwrite one
  row. Correct when an answer is never older than cache and scan allow.
- **Network agent.** A sequential loop that may end anywhere. Correct when the
  snapshot file is whole, and explained by one list of peers.

`PROJECT.json` lists every component, modelled or not, and every hazard at its
line.

## 2. Plan

| Step | Modules | Abstract specification | Runs | Theorems |
|---|---|---|---|---|
| A (done) | `FeePolicy`, `Pplns`, `MCAlgorithms`, `PplnsProofs`, `AlgorithmProofs` | least deviation as the reference definition | `algorithms` | the allocation: whole, close, monotone, closest; the fees |
| B (done) | `PoolLedger`, `MCPoolLedger`, `LedgerPromise`, `PoolLedgerProofs` | `LedgerPromise` | `ledger`, `ledger_quiet`, `ledger_race` | types, settlement, chain, trial, earliest share, finder, conservation; the promise, when quiet |
| C (done) | `SolverDaemon`, `SolveService`, `MCSolverDaemon`, `SolverDaemonProofs` | `SolveService`: one answer per job, its own | `daemon`, `daemon_cancel`, `daemon_desync` | shapes, one job in flight, the service, one retry |
| D (done) | `StratumServer`, `MCStratumServer`, `StratumServerProofs` | none: its promises are the four properties | `stratum`, `shared_work` | types, jobs advance, counting, duplicates, what counts once if no number has two texts |
| E (done) | `StratumClient`, `MCStratumClient`, `StratumClientProofs` | none: its promises are its properties | `client`, `client_hang` | types, nothing survives, own work, answers match, never twice |
| F (done) | `BlockBuilder`, `WorkPath` (with `MCAlgorithms`); `Billing`, `AddressScans`, `NetworkAgent`, `MCBackend`, `BackendProofs` | a node's reading of a block; the best of a list | `algorithms`, `backend` | the work at both ends; fresh balances, acknowledged events, whole snapshots |
| G (done) | `BlockProofs` | a node's reading of a block | `algorithms` | a block reads back, the merkle root commits, for any template |

The order is by what a mistake costs: money first, then the two protocols that
decide which shares count, then the rest. Modules to be proved about declare
no `RECURSIVE` operator and state their constants' assumptions by name.

## 3. The modules

- **`FeePolicy`** – the three constants of the policy with the assumption on
  them, and `split_reward_sat`. Times are ticks; the trial is `TrialDays` of
  them.
- **`Pplns`** – floors, remainders, the sort key as the relation `Precedes`,
  and `Amount`. The index in the sorted list is the number of addresses that
  precede. Addresses are numbers because the code breaks ties by address.
- **`PplnsProofs`** – finite sums, ranks and the allocation, for the modules
  that prove about rewards.
- **`BlockBuilder`** – `block_builder.py`, function by function, over sequences
  of bytes. A hash is opaque: a record of what it was taken of and of the byte
  order it stands in, so that a missing or repeated reversal shows. The header
  is a record of its fields; the rest of a block is bytes.
- **`WorkPath`** – what becomes of a template, one operator per conversion:
  `JobFromTemplate` (`job_from_block_template`), `NotifyParams`, the miner's
  `FromNotify` and `MinerChallenge`, the pool's `ValidatorChallenge`,
  `ResultFromRecord`, `ShareOf` (`_submit_share` and the `SubmittedShare` made
  of it), `Validation` (`SolverShareValidator.validate`), `Candidate`
  (`_submit_block_candidate` up to `submitblock`, with
  `block_submission_enabled` as an input). The solver is external (`Solve`): it
  takes the first nonce whose digest meets the target, leaves out of its record
  what the code provides for, and gives the nonce in one of the `Forms` that
  `_result_from_record` tells apart. `Reading` is what becomes of it: a text of
  figures only is taken for a decimal number, whatever it was meant to be, and
  a hex text with letters under `nonce64` makes the function raise
  (`Readable`), because it is first read as the end of the slice. A base is a
  constant (`HexBase`, `DecimalBase`), for TLC to have small ones.
- **`MCAlgorithms`** – one call as a behaviour: inputs, then the result. The
  properties compare the result with what an apportionment should be, with what
  a node reads, and with the work the miner did. `AlgorithmsAssumption` asks
  that the addresses be a finite set of numbers.
- **`AlgorithmProofs`** – the theorems about the allocation, the fees and
  `WorkPath`.
- **`BlockProofs`** – the theorems about `BlockBuilder`: what is written is read
  back, and the merkle tree tells lists of transactions apart.
- **`PoolLedger`** – the state machine. A variable is a column or a table:

| Variable | Code |
|---|---|
| `created`, `firstShare` | `miners.created_at`, `first_share_at` |
| `shares` | rows of `shares` (address, accepted, time) |
| `balances` | `balances` |
| `feeLedger` | `fee_ledger`, summed over an address |
| `journal` | `payouts` rows with status `sent`, summed |
| `credit` | per block: where `_submit_block_candidate` and the credit thread are, the reward, the `now` of the allocation, what is still to credit |
| `payout` | the payout worker: where it is, the plan, the rows of the settlement |
| `earned`, `chain` | outside the code: blocks the node took, payments it made |
| `credited` | history: gross credited |
| `now`, `runs`, `faults` | the clock and the bounds |

  An action is one transaction or one RPC. A share is `RecordShare`, or
  `BlockShare` when it is a block and goes to the node (a pool without
  `block_submission_enabled` has `RecordShare` only); the node's answer is
  `SubmitAccepted`, `SubmitRejected` or `SubmitError`; the credit thread is
  `Snapshot` (time, window query, allocation), `CreditReward` once per address,
  and `FinishCredit`; the worker is `PlanPayout`, `SendMany` or `SendError`,
  `ListForSettle` and `Settle`. `CreditError`, `ServerCrash` and `PayoutCrash`
  end a thread or process where it stands; the code persists nothing of it, so
  nothing resumes.
- **`LedgerPromise`** – what `docs/ONBOARDING.md` promises a miner about
  payouts: a debt that grows until one batch pays it whole. `PoolLedger`
  implements it under the mapping `owed <- Owed, paid <- chain[a].paid`, where
  `Owed` leaves out what the transaction in flight already pays.
- **`MCPoolLedger`** – `QuietSpec`, the ledger when no reward is credited while a payout is under way.
- **`PoolLedgerProofs`** – the theorems about `Spec` and about `QuietSpec`.
- **`SolverDaemon`** – `GbtSolveWrapper` and the process behind it. The callers
  are asyncio tasks; an action is what runs between two awaits.

| Variable | Code |
|---|---|
| `call[c].pc` | the await at which a task stands: `queued` (the lock), `ensure`, `spawn` (`create_subprocess_exec`), `ready` (the line on stderr), `write`, `read`, `closing` (`_shutdown_daemon`), `backoff` |
| `call[c].id`, `shape`, `attempt`, `after` | the job, the matmul shape of its challenge, the loop variable, what follows a shutdown |
| `holder` | `_daemon_lock` |
| `proc` | `_daemon`: whether there is one, is alive, hangs, has its stdin closed; the shape on its command line; the jobs and answers in its pipes |
| `params` | `_matmul_params` |
| `answered` | history: the last reply to each task, and to which job |
| `calls`, `faults`, `cancels` | the bounds |

  `Ensure` to `Ready` are `_ensure_daemon`, `Write` to `ReadError` the body of
  `_send_job_with_retry`, `Fails` its except clause, `Close` and `EndClose` the
  two halves of `_shutdown_daemon`. `Cancel` is a cancellation at any await: no
  clause catches it, and only the lock is given back. The solver binary is
  external: it answers in order, and may die, hang, recover or write garbage.
- **`SolveService`** – what the stratum server and the miner count on: a job
  is asked for, and what comes back is its own record, or word that there is
  none. `SolverDaemon` implements it while nobody is cancelled.
- **`MCSolverDaemon`** – the symmetry of callers and shapes.
- **`SolverDaemonProofs`** – the theorems.
- **`StratumServer`** – the sessions and the job manager they share. A session
  is two tasks; an action is what runs between two awaits.

| Variable | Code |
|---|---|
| `run[s]` | where `StratumSession.run` stands: `off`, `reading` (`readline`), `job` (`get_job`, after an authorization), `validate`, `block` (`_submit_block_candidate`) |
| `notify[s]` | where `_notify_loop` stands: `off`, `sleep`, `job` |
| `authorized`, `last`, `submitted` | `identity is not None`, `_last_notified_job_id`, `_submitted` |
| `told`, `work` | the jobs sent to the miner; the job and the text of the share being validated |
| `current`, `fresh` | `_current`; `now - _last_refresh < refresh_interval_s` |
| `line`, `ahead` | `_lock`: who holds it or waits, and who came before whom |
| `got` | the template a task has fetched and not yet applied |
| `template` | external: the node's template, numbered |
| `credits`, `reply` | history: accepted shares, the last refusal |

  A submission is a job and a text (`Keys`), the text standing for the pair of
  `extranonce2` and `nonce_hex`: these make the key in `_submitted`. `Number` is
  what `int(nonce_hex, 16)` makes of a text, a partial function: several texts
  may be one number, as `extranonce2`, padding and the case of letters do not
  enter it, and some are none. `Submit` is `_handle_submit` up to its await,
  with its three refusals; `Accept` and `Reject` are the rest of it. `Wake` and `Authorize` call `get_job`:
  `ReturnCached`, or `Fetch` and then `ReturnFetched` or `FetchError`. With
  `Return` the job goes to the miner in the same step, as no await lies between
  the release of the lock and the write to the socket.
  (`_last_notified_job_id` is set after the write has drained; if the
  session's other task sends a job meanwhile, one of the two orders holds.) An exception of
  `get_job` ends the session that authorized (nothing catches it in `run`) and
  is swallowed by the notify loop. A session that ends gives up its places in
  the lock's queue.
- **`MCStratumServer`** – which texts are which numbers; the symmetry of
  sessions.
- **`StratumServerProofs`** – the theorems.
- **`StratumClient`** – the miner's client: the main task, the reader, the
  solver task. An action is what runs between two awaits.

| Variable | Code |
|---|---|
| `main` | where `run_forever` and `_session_once` stand: `connect`, `subscribe` and `authorize` (the two calls of the handshake), `run` (`await reader_task`), `stopReader`, `stopSolver`, `close` (the three awaits of the finally clause), `backoff` |
| `reader` | `_reader_loop`: `off`, `reading` (`readline`), `done` (it has raised) |
| `solver` | `_solver_loop`: `off`, `waiting` (`_job_changed.wait`), `slice` (`solve_slice`), `submit` (`_submit_share`), `sleep` |
| `job` | `_current_job`: its id and `matmul["nonce64_start"]`, counted from what the pool sent |
| `changed`, `pending`, `lastId` | `_job_changed`, the keys of `_pending`, `_msg_id_seq` |
| `slice` | the locals of an iteration: the job, where it starts, its result, where the next one starts |
| `left` | how many jobs of slices that were cancelled the solver's process has still to answer |
| `call` | the call somebody awaits (handshake or submission, never both) and its future |
| `backoff` | the delay of `run_forever`, in doublings |
| `link`, `requests`, `messages` | the connection and what is on its way |
| `pool`, `told` | external: the pool's job, and the last one it has sent here |
| `shares` | history: the submissions of the session, whose record each is from, and what pool and client made of them |
| `cut` | history: some session has left the process a job |

  `Connect` to `Slept` are the main task; `HandshakeFails`, `SessionEnds` and
  `ConnectFails` are its three ways out of a session. `Read` is one iteration
  of the reader with the handler it calls. `SliceReturns` is the end of
  `solve_slice`, `SliceDone` what the loop does with the result, up to the call
  or to the next iteration; `SubmitDone` and `SleepDone` are the ends of its
  other awaits. The wrapper outlives the sessions: a slice that is cancelled may
  leave its job in the process (`LeavesJob`), and the next slices then read the
  record of an earlier job (`OtherRecord`, with any nonce) until the process is
  started again. `_result_from_record` does not look whose record it is. The
  pool answers the requests of a connection in order, as
  `StratumSession.run` does, late or never.
- **`MCStratumClient`** – which nonces meet the target.
- **`StratumClientProofs`** – the theorems.
- **`Billing`** – the checkout and the webhook: `Receive` (the signature),
  `RecordEvent`, `UpsertSubscription` and `Acknowledge`, which are its two
  transactions and its answer, and `Fail` at any of them. An event is its place
  in the order in which things happened at Stripe; a column of a row is the
  event it came from.
- **`AddressScans`** – `address_utxos`, request by request: `AnswerFromCache`,
  or `StartScan`, `ScanEnds` or `ScanFails`, `RecordScan`. A result is the time
  at which the node looked.
- **`NetworkAgent`** – `run_once` step by step, the snapshot's temporary file
  included, and the choice of peers as operators (`Candidates`, `Eligible`,
  `Prefers`, `Selection`). The sort is a place for each peer (`Place`): one
  more than the number of eligible peers preferred to it. A list is a
  finite set of which no two candidates have one sort key
  (`ListsAssumption`): the code's sort would leave such two in the order of
  the list.
- **`MCBackend`** – these three side by side: they share nothing but the
  database, of which each has tables of its own, so one runs at a time.
- **`BackendProofs`** – the theorems about the three.

The state machines meet at single actions: an `Accept` is a
`RecordShare` or `BlockShare` of the ledger, and its validation is one call of
the solver wrapper from `Call` to `Reply`. A slice of the client, from
`Iterate` to `SliceReturns`, is another such call, and `SessionEnds` is the
wrapper's `Cancel`. The client's `PoolAnswers` is the session's `Submit` to
`Accept` or `Reject`, `PoolNotifies` its notify loop. `WorkPath` is what flows
along: the job told, the challenge solved, the share submitted.

Faulty variants of some definitions stand before them, marked as such; nothing
uses them. Each is a plausible slip in the code it stands for, put in place of
the definition to see that the property meant to notice it does.

## 4. What the runs check and show

| Run | Shows |
|---|---|
| `algorithms` | For every reward up to 8 and up to 4 shares for each of 1 to 3 addresses the allocation is exact, within a satoshi of proportional, monotone in the shares and closest to proportional; the fees round for the miners. A block reads back as what went into it at every change of a length's or height's format; merkle trees of different sizes differ. A share of the miner's is accepted, and goes to the node exactly if it is a block and nothing is missing, with a header that is the work the miner did; it is a submission only if its nonce comes through `_result_from_record` as it was. |
| `ledger` | With two addresses, two blocks, two payouts and one fault at any point: types, no settlement beyond the credits, no overpayment before a fault, no satoshi of a reward lost or made, trials dated right and honoured, and every earned coinbase credited in full unless something fails. |
| `ledger_quiet` | With payouts kept apart from credits, journal and chain agree after every payout, balances leave only as payments, and the promise is kept. With more shares and time: the finder is always in the window, and a first share is the earliest. |
| `ledger_race` | Without that, it is not: TLC finds a balance below the dust floor cleared by a settlement whose transaction had no output for it. |
| `daemon` | Three tasks, one call each, two faults of the solver anywhere: one job in flight, a single failure never makes a call give up, every call returns, and the wrapper implements `SolveService`. |
| `daemon_cancel` | Five calls of a solver loop that is cancelled twice, two faults: a job only goes to a process of its shape, and every call still returns. |
| `daemon_desync` | After one cancellation and no fault at all, a job is answered with the record of another. |
| `stratum` | Two sessions, three connections, two submissions, two templates and one failure: jobs only advance, a connected miner hears of every job that stays, a submission of one text counts once in a session, and a duplicate is refused only for a submission that has counted, is out of date or cannot be read. |
| `shared_work` | The same job and nonce count in two sessions. |
| `client` | Two sessions, two jobs, three nonces that meet a target, one refusal or failed connection, connections that break anywhere and answers that never come: only current work is submitted, its own unless a session has left the solver a job, and what is its own once in a session; accepted and rejected mean what they mean at the pool; a session leaves nothing behind; a lost connection is followed by another attempt; a job the client has is taken up. |
| `client_hang` | With the `wait_for` of Python 3.10 and 3.11, it is not always: a cancellation is dropped and the client waits forever. |
| `backend` | Three Stripe events out of seven kinds in any order, repeated, with two failures; three requests for one address's balance over five ticks; two rounds of the agent over every list of eight peers, ended anywhere once. What is acknowledged is applied, balances are recent, the snapshot is whole. |

**What `daemon_desync` found.** The miner cancels its solver loop whenever a
session ends (`stratum_client.py:186`). If `solve_slice` then stands at its
read, the lock is released and the process keeps the job; neither jobs nor
answers carry an identifier, so the next session's first job reads that
answer, and every later job the answer to the one before, until the process is
restarted. The nonces so submitted belong to other work: `client` has this
behaviour (`left`), so `OwnWork` claims that a submitted nonce was found for its
job only of the slice's own record, and that a record is the slice's own only
until a session has left a job behind. The stratum server
does not cancel its validations, so it is not exposed. The docstring
(`gbt_solve_wrapper.py:261`) says "Send one job to the persistent solver
daemon; await its result line."

A remark on the same function: a failed start (`OSError`) and a handshake that
times out (`RuntimeError`) are not in the except clause, so `solve_slice`
raises at its first attempt, where the docstring (line 266) speaks of a second
attempt and of `SolveResult(found=False, tries_used=0)`. The session of the
stratum server turns the exception into an error reply, the miner's loop
sleeps a second; neither breaks.

**What `client_hang` found.** When a connection ends, `_session_once` cancels
the solver task and awaits it. `asyncio.wait_for` before Python 3.12 returns
the result, and drops the cancellation, if what it awaits is done and only its
waiter has not run yet. So an answer (to a submission, `stratum_client.py:387`,
or of the solver, `gbt_solve_wrapper.py:314`) that is there when the
connection's end is handled makes the solver task survive its cancellation;
line 188 then awaits a task that never ends, and the miner neither reconnects
nor stops. A server that answers and closes sends both at once, so the two can
be handled in adjacent turns of the loop. The model lets the main task run at
any time after the reader has ended; in the program it runs in the next turns
of the loop, so the window is short, but it opens whenever a pool restarts.
`pyproject.toml:11` allows Python 3.10 and `install.sh:380` prefers 3.11 and
3.10; 3.12 is not affected, and `client` is checked with its `wait_for`.

**What `shared_work` found.** `docs/ONBOARDING.md:301` says that the
`extranonce1` of a connection goes into a coinbase of its own, so that
connections search different digest spaces with the same nonces. The server
sends an `extranonce1` (`stratum_server.py:119`) and uses it nowhere: there is
one coinbase and one merkle root for all (`stratum_jobs.py:148`). The nonces
are what differs, starting at a random place in each session
(`stratum_server.py:75`), so a collision is improbable rather than impossible;
the record of submitted shares, kept by each session, would not see it.

**What the duplicate check is worth.** A submission is known again by its texts
(`stratum_server.py:157`: the job, `extranonce2`, `nonce_hex`), and the check
comes before `int(nonce_hex, 16)`. What is validated and credited is the job
and the number; `extranonce2` is stored and used nowhere. So leading zeros, the
case of letters, a `0x`, or another `extranonce2` make a second submission of
one nonce, which is validated and credited again. `README.md:312` explains code
22 as "same nonce already submitted", `docs/ONBOARDING.md:327` as "Same nonce
was already submitted". The miner of this repository writes every nonce in one
way and submits none twice (`NeverTwice`), so it does not meet this.
In `stratum` a number has two texts, and both count; `CreditedOnce` therefore
speaks of one text. `WorkCountsOnce`, which speaks of the work, is in no run: it
does not hold of those texts, and it is proved where no number has two
(`OnceFromOneText`).

**What `ledger_race` found.** `payout_worker.main` plans from one read of the
balances and settles from another, taken after `sendmany`
(`repository.py:364`). A credit in between moves an address over the dust
floor, or raises one that was planned: the settlement journals the new amount
as `sent` and sets the balance to zero, and the difference is never paid.
`docs/ONBOARDING.md:286` says "Below dust, your balance rolls over to the next
week." `docs/` and `backend/README.md` ask the operator to review a dry run but
not to stop the stratum server. A second window, between the settlement's own
read and its update, loses a credit without even a journal entry.

A behaviour of the sessions is worth knowing, too: a submission is remembered
before it is read and validated, so after a failed validation the same share is
refused as a duplicate, and so is a text that was no number.
`DuplicateHasCounted` is therefore claimed without failures, and of texts that
can be read.

Of the client: the reset of the delay after a good session
(`stratum_client.py:153`) is never reached, as a session only ends by an
exception, so after six losses every reconnection takes a minute. A connection
that is lost during the handshake is noticed when the call times out, after
30 s. The record of a found share has its `nonce64_end` dropped
(`gbt_solve_wrapper.py:357`), so the next slice starts `nonces_per_slice`
further, which skips nonces, or repeats them if a slice can scan more than
that; `NeverTwice` is claimed when it cannot. The nonce is not taken modulo
2^64.

Of the API: an old event that comes late overwrites the status a newer one has
set, and the newest is known only to Stripe; `AcknowledgedIsApplied` promises
no more than that the row is of the event applied last and that ids are not
lost. An event of a subscription whose metadata lack the account is
acknowledged and ignored; the checkout puts the account into the metadata of
its session (`billing.py:87`), not of the subscription. A scan that ends late
can be recorded over a newer one with a newer time; the answer it gives is
then older than the cache's time to live, by a scan's time at most.

Two further behaviours are in the model, allowed by its properties and worth
knowing: a worker that dies, or loses the node's answer, after the broadcast
leaves the balances standing, so the next run pays them again (`NoOverpay` is
claimed only until the first fault); and an allocation interrupted by an error
or a crash stays partial, `RewardConserved` says exactly by how much.

**Bounds.** Two addresses are what a tie, a partial allocation and a payout with
one address above and one below the dust floor need; two blocks are two
concurrent credit threads; two payouts are a payout and its repetition after a
fault; one fault is enough for every single failure. The reward of 5 satoshis
divides unevenly by two equal shares, so the remainder rule acts, and the dust
floor lies between its parts in the quiet and racing runs. There, with a window
and a trial of one tick and two ticks of time, shares leave the window and
trials end; `ledger`, which also has the faults and the liveness, has one tick,
so that a trial ends and a window does not. The fee of 50 % makes the floor of
an odd part visible.

For the wrapper, three callers are one at work and two in the queue, so that
the order of the queue matters; two shapes make a process unfit; two faults
are one per attempt, which is what makes a call give up. One task is enough
where calls are cancelled: the miner has one, and the calls after the
cancellation are what it can harm, so there are five of them. A timeout is
not a clock: `ReadError` and `ReadyTimeout` are enabled when the solver hangs,
and a hang is whatever outlasts the timeout, so an answer can still be on its
way when the wrapper has given up on it.

For the sessions, two are enough for one to replace the job behind the other's
back, and a third connection makes one of them begin again; two templates are
an older and a newer job, and with two sessions four tasks can be in the lock's
queue. Of the three texts (`MCNumber`) two are one number and one is none; a
second number adds nothing to the rules, which only compare. Two submissions
are an accepted share and its repetition, by either text; what a submission
does depends on what was remembered, and no property needs a third.

For the client, two sessions are one and what it leaves to the next; two jobs
are an old and a new one, and make a result stale; with three nonces, of which
two meet the first job's target, and slices of two, a job yields two shares and
a slice may return before its end. The nonce of an earlier slice's record is any
of the three; one such share a session (`MaxShares`, the bound on the shares
before it) is enough to stand before, and be repeated by, the session's own.
Numbers of nonces beyond that are one number, `Cap`; `NextNonce` is never
compared there. One doubling stands for six.

For the algorithms, heights, lengths of scripts and words of matrices lie on both
sides of a change of format; the number of transactions, of which there are up to
three, is written like a length, and `BuiltBlockReadsBack` rests on a theorem
(`BodyReadsBack`) about every number.
TLC counts below 2^31, so a compact target has bytes of base 2 (`Byte`) and
there are four nonces (`NonceSpace`), of which a validation tries two
(`MaxTries` in the code is 8: it finds the submitted nonce first, because the
miner's solver stops at it). Hex figures are of base 3 and decimal ones of base
2 (`HexBase`, `DecimalBase`), so that of the four nonces one has a letter in it
and one reads as another number. Digests lie below, between and above the targets.

For the parts beside the pool: three events are an old one, a new one and one
of another account; two failures interrupt one event twice. Three requests are
two overlapping scans and one that reads the cache after them, with a cache of
one tick and scans of up to two. Two rounds with one end are a round that is
interrupted and one that finds its files; a limit of two makes the order of
the peers matter.

**Time.** Within a tick (hours in the code) a submitted block is answered or
times out (10 s) and the credit thread takes its time stamp; the guard of
`Tick` says so. The model compares numbers where the code compares ISO
strings of one format and time zone, which order alike. The window is at least
one tick: `window_hours = 0` would leave rewards unallocated.

**Fairness.** `ledger` assumes weak fairness of the credit thread of each
block. The thread has no lock to wait for but SQLite's, which
fails after a timeout (a fault here) rather than wait forever. Nothing makes an
operator start a payout, a miner submit, or the node answer. `daemon` and
`daemon_cancel` assume weak fairness of each task (`Step(c)`: the event loop
runs what is ready, and fires its timers) and of `SolveJob`: a solver that
does not hang answers. Weak fairness is enough for the lock because
`asyncio.Lock` wakes its waiters in order. Nothing is assumed of a solver that
hangs, nor that a start fails or succeeds. `stratum` assumes weak fairness of
`Wake` (the sleep of the notify loop ends) and of each task's `get_job` (its
RPC has a timeout of 10 s, and the lock is first come, first served). It
assumes nothing of the miners, of the node's templates, nor that a validation
ends. `client` assumes weak fairness of its three tasks: the event loop runs
what is ready and fires its timers, and `solve_slice` returns, which is what
`daemon_cancel` shows. It assumes nothing of the pool or the network, not even
that an answer ever comes.

**Deadlock** checking is off where a system may stop: with their bounds used
up, the ledger, the wrapper, the sessions, the client and the parts beside the
pool have no work, and a call of an algorithm returns once.

## 5. What is proved

For any finite set of address numbers, any blocks, rewards, window, dust floor
and fee rates up to 100 %, and any number of payouts, shares and faults
(`FeePolicyAssumption`, `LedgerAssumption`):

| Theorem | Property |
|---|---|
| `TypeCorrect` | `TypeOK` |
| `SettlementBounded` | `NeverOverSettled` |
| `ChainBounded` | `NoOverpay` |
| `CreditNeedsWork` | `CreditedHaveWorked` |
| `TrialKept` | `TrialHonoured` |
| `TrialFromEarliest` | `FirstShareIsEarliest` |
| `FinderIsPaid` | `FinderAlwaysCredited` |
| `RewardIsConserved` | `RewardConserved` |

For the same, when no reward is credited while a payout is under way
(`QuietSpec`):

| Theorem | Property |
|---|---|
| `NothingIsWrittenOff` | `NothingWrittenOff`, whatever fails |
| `JournalIsTheChain` | `JournalMatchesChain`, until a fault |
| `RollsOverWhenQuiet` | `BelowDustRollsOver`, which `ledger_race` refutes of `Spec` |
| `PromiseKept` | `KeepsPromise`, if nothing fails (`[](faults = 0)`) |

For any callers and shapes, and any number of calls and faults
(`DaemonAssumption`):

| Theorem | Property |
|---|---|
| `ShapesMatch` | `RightShape`, whatever is cancelled |
| `OneInFlight` | `OneJobInFlight`, if nobody is cancelled (`MaxCancels = 0`) |
| `ServiceImplemented` | `IsService`, if nobody is cancelled |
| `OneRetryIsEnough` | `RetryHidesOneFailure`, whatever is cancelled |

For any sessions and texts, whatever numbers they are, and any number of
templates, connections, submissions and failures (`StratumAssumption`):

| Theorem | Property |
|---|---|
| `JobsAdvance` | `JobsOnlyAdvance` |
| `OnceInASession` | `CreditedOnce`, which is about submissions of one text |
| `OnceFromOneText` | `WorkCountsOnce`, if no number has two texts (`OneTextEach`); it does not hold of others |
| `DuplicatesHaveCounted` | `DuplicateHasCounted` |

For any jobs and nonces that meet a target, any slices, either `wait_for`, and
any number of sessions and faults (`ClientAssumption`):

| Theorem | Property |
|---|---|
| `TypeCorrect` | `TypeOK` |
| `SessionLeavesNothing` | `NothingSurvives` |
| `SubmitsOwnWork` | `OwnWork`, whatever slices earlier sessions have left in the process |
| `AnswersAreTheirOwn` | `AnswersMatch` |
| `NonceNeverTwice` | `NeverTwice`, which is about slices' own records, and slices that scan no further than `nonces_per_slice` |

For any finite set of address numbers, any rewards, shares and fee rates, and
for any bases of targets and of figures, nonce space, stride and number of tries
(`AlgorithmsAssumption`, `FeePolicyAssumption`, `WorkAssumption`):

| Theorem | Property |
|---|---|
| `RewardIsAllocated` | `AllocatesExactly`; `AllocationIsWhole` is the fact about `Pplns` it rests on |
| `NobodyGetsThePile` | `WithinOneSatoshi` |
| `SharesAreRewarded` | `MoreSharesNeverLess` |
| `NoSplitIsCloser` | `LeastDeviation` |
| `FeeIsNeverAbovePolicy` | `FeePerAddressRoundsForMiners` |
| `WorkIsTheSameAtBothEnds` | `WorkComesBack` |
| `BuiltBlockReadsBack` | `BlockReadsBack`; it applies `BodyReadsBack` |
| `RootsDiffer` | `MerkleCommits`; it applies `MerkleRootCommits` |

The last two rest on theorems about `BlockBuilder` that speak of any input:
`BodyReadsBack` of any template, script, tag and matrix (`Encodable`, `Carries`:
sequences of natural numbers, the height below 2^63, the value, the number of
transactions and all lengths below 2^64, a tag of at most 255 bytes, because its
length is written as one, and a matrix of four-byte words), and
`MerkleRootCommits` of any two lists of different txids.

For any accounts, events, requests, cache and scan times, lists of peers and
limits (`BillingAssumption`, `ScansAssumption`, `AgentAssumption`,
`ListsAssumption`):

| Theorem | Property |
|---|---|
| `NothingAcknowledgedIsLost` | `AcknowledgedIsApplied` |
| `AnswersAreFresh` | `AnswersAreRecent` |
| `SnapshotIsNeverTorn` | `SnapshotIsWhole` |

*Types* need two lemmas on the arithmetic: a split has natural parts that add
up to the amount (fee rates are at most 100 %), and every amount of an
allocation is natural (floors are; a rank is only compared).

*Settlement and chain.* Neither `NeverOverSettled` nor `NoOverpay` is
inductive: a settlement writes what it read two steps earlier. `BooksInv` adds
`ReadsHold` – what the worker has read never exceeds the balances, because
only the worker lowers them, and its second read covers its plan – and
`ChainBacked` – the chain is ahead of the journal by at most the transaction in
flight, until a fault. The overpayment bound follows from the two bounds added.

*Trials.* `WorkInv` says that a set `first_share_at` is the time of an accepted
share, that every accepted share has set it, and that only addresses with one
are in an allocation; so `first_share_at or created_at` never falls back, and a
fee above the trial's implies a share at least `TrialDays` old. That the time is
the earliest share's (`EarliestInv`) needs that no share is from the future: the
clock never goes back, so a stamp set at the first share stays the least.

*The finder.* `FinderInv` says that a block which the node has to answer for,
or which is to be allocated, was found by a share that is in the table and at
most a tick old: the window is at least that long. It rests on the guard of
`Tick`, the assumption on time of section 4.

*Conservation.* What has been credited, over all addresses, plus what the
credit threads have left to do is what they set out to credit, summed over the
blocks that were allocated (`ConserveInv`). A `CreditReward` moves one amount
from a thread's list to the credits, whichever threads run beside it; a
`Snapshot` adds a whole allocation, which is the reward by `AllocationIsWhole`.

*Sums.* These are sums over any finite set, and the provers cannot use an
induction theorem that takes an operator. The sum of the community modules is a
recursive function on the subsets of a set, so `PplnsProofs` proves by
well-founded induction on those subsets (`SetInduction`, about a set of them)
that the function exists and is the only one, and from that what a sum does
when an element is removed or changed, when two are added or compared, and when
a set is split by the values of a function.

*The allocation.* The remainders add up to the total times the satoshis left
over. `Precedes` orders the addresses totally, so ranks are a bijection to the
places of the sorted list, and exactly as many addresses get one more as
satoshis are left: the amounts add up to the reward. Fewer are left than
addresses have a remainder, so the one more never goes to an address whose part
is whole, and an amount is less than one away from its part. Monotonicity
compares two addresses by floor first and by remainder then. For the least
deviation, some remainder separates those that got one more from those that
did not (`RemainderSeparates`); taken as a slope, it makes each amount the best
for its address alone among all whole numbers (`BestAtSlope`), and what the
slope adds is the same for every split of the reward.

*The quiet ledger.* `QuietInv` says that both readings of the balances are what
they still are, that balances and journal make up all that was credited, and
that until a fault the chain is ahead of the journal by exactly the transaction
in flight. Under it each step maps to `LedgerPromise`: a `CreditReward` to the
growth of a debt, `SendMany` to the batch that pays everyone at or above the
floor, all others to stutters, the settlement included.

*Shapes.* `ShapeInv` rests on `LockInv` – a task is past the queue exactly when
it holds the lock – so that while one task is at work the process is its own.
It adds what the awaits of `_ensure_daemon` leave in between: without a process
there is no recorded shape, and a recorded shape is the process's.

*One job in flight, and the service.* The record a reader takes is its own only
because every way out of the lock leaves the pipes empty: a good answer empties
them, every other closes the process. `FlightInv` says so for each place a task
can stand, and its last conjunct is what a cancellation breaks. The refinement
then maps the start of a call to `Ask`, each reply to `Answer`, and every other
step to a stutter.

*One retry.* `RetryInv` tells apart that nothing has happened and that one
thing has. Before it, processes are sound and nobody is at a second attempt;
after it, whoever is at a second attempt has left the process that failed and
has a sound one, or starts it. A call that gives up has failed twice, so two
things have happened.

*Jobs advance.* `LineInv` says that the queue of the lock is totally ordered
and holds exactly the tasks that are in `get_job`; so it has one head
(`OneHead`). `AdvanceInv` says that a template is held fetched by that head
only, and lies between the current job and the node's: when it is applied,
nothing newer can have been. Without the lock this fails, as the mutant shows.

*Counting.* A validation runs for a share that is remembered and has not
counted, and what has counted is remembered (`CountInv`); without failures,
what is remembered has counted, is being validated, is of an older job or
cannot be read. With one text a number, what is the same work has the same
text, so the counts of texts are those of the work. The last part of `CountInv`
needs `AdvanceInv`: a miner is never told a job newer than the current one, so a
share refused as stale is of an older one for good.

*The client.* Its types rest on `Found`: what a slice has found is a nonce
that can be submitted, and meets the target of the slice's job if the process
had no earlier job to answer; a slice that is being solved has a job. `Phase` says
which tasks there are, and what they have left, at each place of the main task;
the solver's call is gone wherever the solver is. `OwnWork` needs,
besides, that the process has no earlier job until a session leaves one
(`Uncut`): a submission is made of a slice whose job is current, and is never
rewritten.
`Match` follows an answer from the pool to the counter. A request that is
underway is about a share of which nothing is known, no two are about the same
one, and that of the call the solver awaits is about the last share; an answer
that is underway, if it is for that call, is the pool's verdict on that share.
Ids are what ties them together: they are never reused, and `Quiet` says that
nothing is underway between two connections.

No nonce twice needs three parts. `InOrder`: what is on its way from the pool
are newer and newer jobs, so a job that has been replaced never returns.
`Window`: a slice lies behind all that slices' own records have given for its
job, and before where the next one starts. `Fresh` follows from both.

*The work at both ends.* The miner's challenge and the pool's are made of one
job by different ways; `SameWork` says they are the same work, field by field
and byte order by byte order, for any template. So the digest of the nonce the
miner's solver took meets the pool's target, and the pool's solver, which starts
at that nonce, takes it as its first (`SolverTakesStart`), if it was read back
as it was; what was read as another number is another submission, of which the
theorem says nothing. What `Candidate`
makes of the record is then a block unless the record lacks a field
(`BlockIs`), with the header of the miner's work (`BlockOfShare`).

*Beside the pool.* `ScansInv` bounds the age of what the node saw at each place
of a request, and of what a row holds: a row may be older than its time of
recording, by a scan's time at most. `BillingInv` says that a row has its status
from the event applied last, and ids if any event had them; an event whose
second transaction is done is applied, and only such a one is acknowledged.
`AgentInv` says that a file that replaces the snapshot is whole. That the
selection holds the best peers is a fact about places: on a finite set in which
any two can be compared, they are a bijection to its numbers, so the first of
them are preferred to all others.

*A block is read as it was written.* The bytes of a number are remainders of a
chain of quotients, so the number is the first link of the chain, whatever the
width, if nothing is left at the end (`Fits`, `NumberReads`). `Holds` says that a
sequence stands at a place of another; what holds a concatenation holds both
parts, the second behind the first (`HoldsBoth`). With it every reader is shown
to return what was written and to stop where the next part begins: numbers of
the four widths (`VarintReads`), what is counted by them (`CountedReads`), the
pushed height with the byte for its sign (`HeightReads`), the coinbase
(`CoinbaseReads`), and the body as their concatenation. The hypotheses are the
format's own limits; no template of a node comes near them. The reader itself is
a definition, written from the format: the theorem says that the builder agrees
with it.

*The merkle root.* A round makes half as many hashes, all different again, and
can be undone even when the last hash was paired with itself: in a list of
different hashes no two others make that pair (`PairUpUndone`). From equal roots
the rounds of both lists are walked back together. If one list is reached
before the other, its txids would be pairs, which a txid is not
(`LeavesAreNoRound`); so both are reached at once and are the same
(`SameLeaves`). Two hypotheses carry this. Txids of a list differ: without that a
list whose last transaction is repeated has the root of the list that holds it
once. And hashes of different things differ, those of transactions and of pairs
included: the model's hashes are opaque, so that `sha256` has no collisions, and
no transaction is 64 bytes long and reads as a pair, is assumed and not shown.

*Folds.* Both arguments walk through folds of the community modules. As with
sums, `BlockProofs` proves for the two operations that are folded
(concatenation, a round of pairing) that the recursive function on subsets exists
and is the only one (`FoldsExist`, `FoldsUnique`), and from that what a fold is
after each of its rounds (`FoldRounds`); induction on numbers is `SetInduction`
on the sets `0..k` (`UpTo`).

*Only model-checked*: all liveness (`EarnedIsCredited`, `EveryCallReturns`,
`EveryoneHears`, `Reconnects`, `JobTakenUp`), as TLAPS does neither liveness
under fairness nor `ENABLED`; and the four violations.

## 6. What is left out, and why

- Within the ledger: the order in which a credit thread goes through the
  addresses (any order here), workers and difficulty (no money depends on
  them), a transaction's internal statements (SQLite makes them one), two
  payout workers at once (the operator runs one).
- `sat_to_btx` is a float division; below 2^53 satoshis the shortest decimal
  of the quotient is the exact amount. The sum of two outputs when the treasury
  is also a miner may not be; addresses here are kept apart.
- Within the wrapper: what is in a job and a record (`WorkPath` has it), the
  environment and arguments of the process, the standard error of the solver
  after its first line, which nobody reads. A record is taken to be a JSON
  object below the reader's 16 MiB limit. A cancellation during
  `create_subprocess_exec` may leave a process that nobody knows of; it has no
  pipes in the wrapper and takes no part.
- Within the sessions: malformed messages and a second authorization (a miner
  of this repository sends neither), database errors in a session, the
  validator that is switched off and the setting that accepts unverified
  shares, and how the target of a share is compared: a share here meets its
  target. A notify task whose connection breaks under it ends a moment before
  its session does.
  A time of a share that is no number is refused as a nonce that is none is, and
  another time than the job's by the validator; the miner sends back the job's.
- Events and statistics are written or computed beside the money and never
  read by it.
- Within the client: malformed messages, `set_difficulty` and
  `set_extranonce` (they store what no decision depends on), the check of
  `to_solve_challenge` for missing fields (the pool of this repository sends
  them; it would be a slice that raises), the cancellation of the whole client
  by the command line.
- Within the algorithms: lengths of strings (`zfill`, the 182 bytes of the
  header, which its fields always give), `target_to_work`, and
  `job_from_matmul_challenge`, which nothing calls.
- Beside the pool: the parsing of a signature and of times, the switch that
  turns address scans off, what the agent asks the node and notes of its
  answers. Two agents at once would share the name of the temporary file; the
  service starts one.
- Not modelled: display arithmetic, the read side of the API, settings, the
  travel app, the numerical verifier, command lines, installer and website, for
  the reasons in `PROJECT.json`.
