--------------------------- MODULE StratumServer ---------------------------
(***************************************************************************)
(* The sessions and the job manager of the stratum server                  *)
(* (src/backend/stratum_server.py, stratum_jobs.py).  A session is two     *)
(* asyncio tasks: "run" reads the miner's messages one by one, "notify"    *)
(* sends it new jobs.  All sessions share one job manager, whose get_job   *)
(* is serialised by an asyncio lock; an action is what runs between two    *)
(* awaits.                                                                 *)
(*                                                                         *)
(* A job is the number of the node's template it was built from: its id is *)
(* made of the template's height, parent, time and merkle root, the same   *)
(* for all sessions.  A submission is what the miner sends: a job's id and *)
(* a text, the extranonce2 with the nonce_hex.  Its work is the job with   *)
(* the number that the nonce_hex is, and different texts may be one        *)
(* number.  The number meets the job's target, as the miner submits no     *)
(* others, so the validator refuses one only when its solver fails; the    *)
(* ntime is the job's, sent back.  Shares go to the ledger (PoolLedger),   *)
(* validation is one call of the solver wrapper (SolverDaemon).            *)
(***************************************************************************)
EXTENDS Integers

CONSTANTS Sessions,      \* connections, each used again after it ends
          Texts,         \* the pairs of an extranonce2 and a nonce_hex
          Number,        \* int(nonce_hex, 16), of those texts that are a number
          MaxTemplates,  \* bound on the templates of the node
          MaxConnects,   \* bound on the connections
          MaxSubmits,    \* bound on the submissions
          MaxFaults      \* bound on the failures of the node and of the validator

ASSUME StratumAssumption ==
  /\ DOMAIN Number \subseteq Texts
  /\ MaxTemplates \in Nat \ {0}
  /\ MaxConnects \in Nat /\ MaxSubmits \in Nat /\ MaxFaults \in Nat

Tasks == Sessions \X {"run", "notify"}

NoJob == 0
Jobs  == 1..MaxTemplates
Keys == Jobs \X Texts
NoWork == <<NoJob, NoJob>>

VARIABLES
  run,         \* where the run task of a session is
  notify,      \* where its notify task is
  authorized,  \* identity is not None
  told,        \* the jobs notified to the miner of the session
  last,        \* _last_notified_job_id
  submitted,   \* _submitted
  work,        \* the submission that is being validated
  credits,     \* history: how often a submission was recorded as accepted
  reply,       \* history: the last refusal of the session, and of what
  template,    \* the node's template
  current,     \* StratumJobManager._current
  fresh,       \* its refresh interval has not passed
  line,        \* StratumJobManager._lock: its holder and its waiters
  ahead,       \* and who of them came before whom
  got,         \* the template a task has fetched
  connects, submits, faults

sessionVars == <<authorized, told, last, submitted, work, credits, reply>>
jobVars     == <<template, current, fresh, line, ahead, got>>
bounds      == <<connects, submits, faults>>
vars == <<run, notify, sessionVars, jobVars, bounds>>

Refusal == {"none", "duplicate", "stale", "bad", "rejected", "error"}

TypeOK ==
  /\ run \in [Sessions -> {"off", "reading", "job", "validate", "block"}]
  /\ notify \in [Sessions -> {"off", "sleep", "job"}]
  /\ authorized \in [Sessions -> BOOLEAN]
  /\ told \in [Sessions -> SUBSET Jobs]
  /\ last \in [Sessions -> Jobs \cup {NoJob}]
  /\ submitted \in [Sessions -> SUBSET Keys]
  /\ work \in [Sessions -> Keys \cup {NoWork}]
  /\ credits \in [Sessions -> [Keys -> Nat]]
  /\ reply \in [Sessions -> [refusal : Refusal, of : Keys \cup {NoWork}]]
  /\ template \in Jobs
  /\ current \in Jobs \cup {NoJob}
  /\ fresh \in BOOLEAN
  /\ line \subseteq Tasks /\ ahead \in [Tasks -> SUBSET Tasks]
  /\ got \in [Tasks -> Jobs \cup {NoJob}]
  /\ connects \in Nat /\ submits \in Nat /\ faults \in Nat

NoReply   == [refusal |-> "none", of |-> NoWork]
NoCredits == [w \in Keys |-> 0]

Init ==
  /\ run = [s \in Sessions |-> "off"] /\ notify = [s \in Sessions |-> "off"]
  /\ authorized = [s \in Sessions |-> FALSE]
  /\ told = [s \in Sessions |-> {}]
  /\ last = [s \in Sessions |-> NoJob]
  /\ submitted = [s \in Sessions |-> {}]
  /\ work = [s \in Sessions |-> NoWork]
  /\ credits = [s \in Sessions |-> NoCredits]
  /\ reply = [s \in Sessions |-> NoReply]
  /\ template = 1 /\ current = NoJob /\ fresh = FALSE
  /\ line = {} /\ ahead = [t \in Tasks |-> {}] /\ got = [t \in Tasks |-> NoJob]
  /\ connects = 0 /\ submits = 0 /\ faults = 0

Fault == faults < MaxFaults /\ faults' = faults + 1
-----------------------------------------------------------------------------
(***************************************************************************)
(* The lock of the job manager, and a session's end.                       *)
(***************************************************************************)
Enter(t) == line' = line \cup {t} /\ ahead' = [ahead EXCEPT ![t] = line]

\* A faulty variant: get_job takes no lock.
HoldsAny(t) == t \in line

\* asyncio.Lock serves its waiters in their order.
Holds(t) == t \in line /\ ahead[t] = {}

\* Tasks give up the lock, or their place, and what they have fetched.
Leave(ts) ==
  /\ line' = line \ ts
  /\ ahead' = [t \in Tasks |-> IF t \in ts THEN {} ELSE ahead[t] \ ts]
  /\ got' = [t \in Tasks |-> IF t \in ts THEN NoJob ELSE got[t]]

\* run() to its end: the notify task is cancelled, the connection closed.
EndSession(s) ==
  /\ run' = [run EXCEPT ![s] = "off"]
  /\ notify' = [notify EXCEPT ![s] = "off"]
  /\ Leave({s} \X {"run", "notify"})
-----------------------------------------------------------------------------
(***************************************************************************)
(* Messages of the miner.                                                  *)
(***************************************************************************)
\* A new StratumSession; the subscription changes nothing that matters here.
Connect(s) ==
  /\ run[s] = "off"
  /\ connects < MaxConnects
  /\ connects' = connects + 1
  /\ run' = [run EXCEPT ![s] = "reading"]
  /\ notify' = [notify EXCEPT ![s] = "sleep"]
  /\ authorized' = [authorized EXCEPT ![s] = FALSE]
  /\ told' = [told EXCEPT ![s] = {}]
  /\ last' = [last EXCEPT ![s] = NoJob]
  /\ submitted' = [submitted EXCEPT ![s] = {}]
  /\ credits' = [credits EXCEPT ![s] = NoCredits]
  /\ reply' = [reply EXCEPT ![s] = NoReply]
  /\ UNCHANGED <<work, jobVars, submits, faults>>

\* The reader is at its end, or a reply cannot be sent.
Disconnect(s) ==
  /\ run[s] = "reading"
  /\ EndSession(s)
  /\ UNCHANGED <<sessionVars, template, current, fresh, bounds>>

\* mining.authorize, its reply, and _send_initial_job up to the lock.
Authorize(s) ==
  /\ run[s] = "reading"
  /\ ~authorized[s]
  /\ authorized' = [authorized EXCEPT ![s] = TRUE]
  /\ run' = [run EXCEPT ![s] = "job"]
  /\ Enter(<<s, "run">>)
  /\ UNCHANGED <<notify, told, last, submitted, work, credits, reply, template, current,
                 fresh, got, bounds>>

Refuse(s, why, w) == reply' = [reply EXCEPT ![s] = [refusal |-> why, of |-> w]]

\* A faulty variant: the submission is not remembered.
RememberNothing(s, w) == submitted' = submitted

\* A faulty variant: the key of a submission leaves the job out.
RememberText(s, w) == submitted' = [submitted EXCEPT ![s] = @ \cup (Jobs \X {w[2]})]

Remember(s, w) == submitted' = [submitted EXCEPT ![s] = @ \cup {w}]

\* _handle_submit up to the validation: a submission is known again by its texts,
\* before they are read.  A session's nonces start at a place of its own, but one
\* drawn at random and reserved for nobody (_next_nonce_start): any text may be any
\* session's.
Submit(s, w) ==
  /\ run[s] = "reading"
  /\ authorized[s] /\ w[1] \in told[s]
  /\ submits < MaxSubmits
  /\ submits' = submits + 1
  /\ \/ /\ w \in submitted[s]
        /\ Refuse(s, "duplicate", w)
        /\ UNCHANGED <<run, submitted, work>>
     \/ /\ w \notin submitted[s] /\ w[1] # current
        /\ Remember(s, w)
        /\ Refuse(s, "stale", w)
        /\ UNCHANGED <<run, work>>
     \/ /\ w \notin submitted[s] /\ w[1] = current /\ w[2] \notin DOMAIN Number
        /\ Remember(s, w)
        /\ Refuse(s, "bad", w)
        /\ UNCHANGED <<run, work>>
     \/ /\ w \notin submitted[s] /\ w[1] = current /\ w[2] \in DOMAIN Number
        /\ Remember(s, w)
        /\ run' = [run EXCEPT ![s] = "validate"]
        /\ work' = [work EXCEPT ![s] = w]
        /\ UNCHANGED reply
  /\ UNCHANGED <<notify, authorized, told, last, credits, jobVars, connects, faults>>

\* The solver has found the nonce: the share is recorded as accepted, whatever
\* the current job is by now; if it is a block, it goes to the node.
Accept(s) ==
  /\ run[s] = "validate"
  /\ credits' = [credits EXCEPT ![s][work[s]] = @ + 1]
  /\ work' = [work EXCEPT ![s] = NoWork]
  /\ \E pc \in {"reading", "block"} : run' = [run EXCEPT ![s] = pc]
  /\ UNCHANGED <<notify, authorized, told, last, submitted, reply, jobVars, bounds>>

\* The solver has failed: it has found nothing, or the wrapper has raised.
Reject(s) ==
  /\ Fault
  /\ run[s] = "validate"
  /\ \E why \in {"rejected", "error"} : Refuse(s, why, work[s])
  /\ work' = [work EXCEPT ![s] = NoWork]
  /\ run' = [run EXCEPT ![s] = "reading"]
  /\ UNCHANGED <<notify, authorized, told, last, submitted, credits, jobVars, connects,
                 submits>>

\* _submit_block_candidate returns, whatever came of it.
BlockDone(s) ==
  /\ run[s] = "block"
  /\ run' = [run EXCEPT ![s] = "reading"]
  /\ UNCHANGED <<notify, sessionVars, jobVars, bounds>>
-----------------------------------------------------------------------------
(***************************************************************************)
(* Jobs.                                                                   *)
(***************************************************************************)
\* The notify loop after its sleep.
Wake(s) ==
  /\ notify[s] = "sleep"
  /\ authorized[s]
  /\ notify' = [notify EXCEPT ![s] = "job"]
  /\ Enter(<<s, "notify">>)
  /\ UNCHANGED <<run, sessionVars, template, current, fresh, got, bounds>>

\* A faulty variant: the job is compared with the job manager's.
IsNewsNever(s, job) == job # current'

IsNews(s, job) == job # last[s]

Tell(s, job) ==
  /\ last' = [last EXCEPT ![s] = job]
  /\ told' = [told EXCEPT ![s] = @ \cup {job}]

\* get_job returns: the lock is free and, with no await in between, the job is
\* on its way to the miner.
Return(t, job) ==
  LET s == t[1] IN
  /\ Leave({t})
  /\ \/ /\ t[2] = "run"
        /\ Tell(s, job)
        /\ run' = [run EXCEPT ![s] = "reading"]
        /\ UNCHANGED notify
     \/ /\ t[2] = "notify"
        /\ IF IsNews(s, job) THEN Tell(s, job) ELSE UNCHANGED <<told, last>>
        /\ notify' = [notify EXCEPT ![s] = "sleep"]
        /\ UNCHANGED run
  /\ UNCHANGED <<authorized, submitted, work, credits, reply>>

\* The first job of a session is forced.
Cached(t) == current # NoJob /\ fresh /\ t[2] = "notify"

ReturnCached(t) ==
  /\ Holds(t)
  /\ got[t] = NoJob /\ Cached(t)
  /\ UNCHANGED <<template, current, fresh, bounds>>
  /\ Return(t, current)

\* getblocktemplate, in a thread.
Fetch(t) ==
  /\ Holds(t)
  /\ got[t] = NoJob /\ ~Cached(t)
  /\ got' = [got EXCEPT ![t] = template]
  /\ UNCHANGED <<run, notify, sessionVars, template, current, fresh, line, ahead, bounds>>

ReturnFetched(t) ==
  /\ Holds(t)
  /\ got[t] # NoJob
  /\ current' = got[t] /\ fresh' = TRUE
  /\ Return(t, got[t])
  /\ UNCHANGED <<template, bounds>>

\* The node does not answer, or answers with an error.  The notify loop tries
\* again after its sleep; nothing catches it in the run task.
FetchError(t) ==
  /\ Fault
  /\ Holds(t)
  /\ got[t] = NoJob /\ ~Cached(t)
  /\ \/ /\ t[2] = "run"
        /\ EndSession(t[1])
     \/ /\ t[2] = "notify"
        /\ notify' = [notify EXCEPT ![t[1]] = "sleep"]
        /\ Leave({t})
        /\ UNCHANGED run
  /\ UNCHANGED <<sessionVars, template, current, fresh, connects, submits>>

\* The refresh interval passes.
Age ==
  /\ fresh
  /\ fresh' = FALSE
  /\ UNCHANGED <<run, notify, sessionVars, template, current, line, ahead, got, bounds>>

\* The node has a new block, a new transaction or a new time.
NewTemplate ==
  /\ template < MaxTemplates
  /\ template' = template + 1
  /\ UNCHANGED <<run, notify, sessionVars, current, fresh, line, ahead, got, bounds>>
-----------------------------------------------------------------------------
GetJob(t) == ReturnCached(t) \/ Fetch(t) \/ ReturnFetched(t)

Next ==
  \/ \E s \in Sessions : \/ Connect(s) \/ Disconnect(s) \/ Authorize(s)
                         \/ \E w \in Keys : Submit(s, w)
                         \/ Accept(s) \/ Reject(s) \/ BlockDone(s)
                         \/ Wake(s)
  \/ \E t \in Tasks : GetJob(t) \/ FetchError(t)
  \/ Age \/ NewTemplate

Spec == Init /\ [][Next]_vars

\* The notify loop sleeps for a time, and the RPC client has a timeout.
FairSpec ==
  /\ Spec
  /\ \A s \in Sessions : WF_vars(Wake(s))
  /\ \A t \in Tasks : WF_vars(GetJob(t))
-----------------------------------------------------------------------------
\* However the sessions' refreshes overlap, the pool never goes back to an
\* older job, nor sends a miner one.
JobsOnlyAdvance ==
  [][/\ current' >= current
     /\ \A s \in Sessions : run[s] # "off" => last'[s] >= last[s]]_vars

\* A submission counts once in a session, however often its texts are sent again.
CreditedOnce == \A s \in Sessions : \A w \in Keys : credits[s][w] <= 1

\* No submission is refused as a duplicate that could still have counted, unless
\* its validation failed: it has counted, or its job is old, or it cannot be read.
DuplicateHasCounted ==
  faults = 0 => \A s \in Sessions :
    reply[s].refusal = "duplicate" =>
      \/ credits[s][reply[s].of] = 1 \/ reply[s].of[1] < current
      \/ reply[s].of[2] \notin DOMAIN Number

\* A miner that stays connected hears of the current job, whoever made it so.
EveryoneHears ==
  \A s \in Sessions :
    (authorized[s] /\ last[s] # current) ~> (last[s] = current \/ run[s] = "off")

\* The validator's question is the same: the job and the number of the nonce, which
\* the extranonce2 and the spelling of the nonce are no part of.
SameWork(w, v) ==
  /\ w[1] = v[1]
  /\ {w[2], v[2]} \subseteq DOMAIN Number /\ Number[w[2]] = Number[v[2]]

\* "Same nonce already submitted": a nonce counts once in a session and job,
\* whatever it is sent with.  It holds if no number has two texts, and not otherwise.
WorkCountsOnce ==
  \A s \in Sessions : \A w, v \in Keys :
    SameWork(w, v) => credits[s][w] + (IF v = w THEN 0 ELSE credits[s][v]) <= 1

\* "They're scanning genuinely different digest spaces": what counts in one
\* session cannot count in another.
WorkDiffers ==
  \A s, t \in Sessions : \A w, v \in Keys :
    credits[s][w] > 0 /\ credits[t][v] > 0 /\ SameWork(w, v) => s = t
-----------------------------------------------------------------------------
(***************************************************************************)
(* The inductive invariants behind the safety properties.                  *)
(***************************************************************************)
\* Who waits is in the line, and the line is ordered: it has one head.
Seated ==
  \A s \in Sessions : /\ <<s, "run">> \in line <=> run[s] = "job"
                      /\ <<s, "notify">> \in line <=> notify[s] = "job"
                      /\ run[s] = "off" => notify[s] = "off"

Ordered ==
  /\ \A t \in Tasks : t \notin ahead[t] /\ ahead[t] \subseteq line
  /\ \A t, u \in line : t # u => t \in ahead[u] \/ u \in ahead[t]

LineInv == Seated /\ Ordered

\* A template is fetched by the head of the line only, so nothing newer than it
\* can have become the current job in the meantime.
AdvanceInv ==
  /\ current <= template
  /\ \A t \in Tasks : got[t] # NoJob => Holds(t) /\ current <= got[t] /\ got[t] <= template
  /\ \A s \in Sessions : last[s] <= current /\ \A j \in told[s] : j <= current

\* A submission is credited after it was remembered, and once.  Without failures,
\* what is remembered has been credited, is being validated, is of an older job, or
\* cannot be read.
CountInv ==
  \A s \in Sessions :
    /\ run[s] = "validate" => /\ work[s] \in submitted[s]
                              /\ credits[s][work[s]] = 0
    /\ \A w \in Keys : credits[s][w] <= 1 /\ (credits[s][w] > 0 => w \in submitted[s])
    /\ faults = 0 => \A w \in submitted[s] :
         \/ credits[s][w] = 1 \/ w[1] < current \/ w[2] \notin DOMAIN Number
         \/ run[s] = "validate" /\ work[s] = w
=============================================================================
