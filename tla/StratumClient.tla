---------------------------- MODULE StratumClient ----------------------------
(***************************************************************************)
(* The miner's client (src/src/dexbtx_miner/stratum_client.py): a main     *)
(* task that connects, shakes hands, waits for the connection to end and   *)
(* begins again; a reader task and a solver task beside it, which share    *)
(* the current job, the table of pending calls and the socket.  An action  *)
(* is what runs between two awaits.                                        *)
(*                                                                         *)
(* The pool is the one of StratumServer, seen from here: it answers the    *)
(* requests of a connection in order and sends a job it has not sent yet.  *)
(* A slice is one solve_slice of SolverDaemon: it comes back with the      *)
(* first nonce that meets the target, with the nonce it has reached, with  *)
(* neither, or with an exception.  The solver's process answers its jobs   *)
(* in order, and a slice that is cancelled may leave it one whose record   *)
(* nobody has read: the next slices read the records of those before them. *)
(* Nonces are counted from the job's nonce64_start.                        *)
(***************************************************************************)
EXTENDS Integers, Sequences

CONSTANTS MaxJobs,          \* bound on the pool's jobs
          MaxNonce,         \* bound on the nonces; those above are alike
          Hits,             \* the pairs of a job and a nonce that meets its target
          SliceNonces,      \* nonces_per_slice
          Reach,            \* how many nonces a slice may really scan
          MaxBackoff,       \* doublings until reconnect_max_s
          WaitForSwallows,  \* asyncio.wait_for as in Python 3.10 and 3.11
          MaxShares,        \* bound on the shares of a session, where no other is
          MaxSessions, MaxFaults

Jobs   == 1..MaxJobs
Nonces == 0..MaxNonce

ASSUME ClientAssumption ==
  /\ MaxJobs \in Nat \ {0} /\ MaxNonce \in Nat /\ Hits \subseteq Jobs \X Nonces
  /\ SliceNonces \in Nat \ {0} /\ Reach \in Nat \ {0}
  /\ MaxBackoff \in Nat /\ WaitForSwallows \in BOOLEAN
  /\ MaxShares \in Nat /\ MaxSessions \in Nat /\ MaxFaults \in Nat

VARIABLES
  main,      \* where run_forever and _session_once stand
  reader,    \* _reader_loop: not there, at readline, or ended by an exception
  solver,    \* _solver_loop: not there, or its await
  job,       \* _current_job: its id and its nonce64_start
  changed,   \* _job_changed
  slice,     \* the locals of an iteration of _solver_loop
  left,      \* how many jobs of earlier slices the solver's process still answers
  call,      \* the call somebody awaits: its id, the state of its future
  pending,   \* the keys of _pending
  lastId,    \* _msg_id_seq
  backoff,   \* the reconnect delay, in doublings of reconnect_initial_s
  link,      \* the connection
  requests,  \* on their way to the pool
  messages,  \* on their way to the client
  pool,      \* the pool's current job
  told,      \* the last job it has sent on this connection
  shares,    \* history: the submissions of the session, what the pool and the client made of each
  cut,       \* history: a session has left the solver's process a job
  sessions, faults

localVars == <<solver, job, changed, slice>>
callVars  == <<call, pending, lastId>>
pipeVars  == <<left, cut>>
poolVars  == <<pool, told>>
netVars   == <<link, requests, messages>>
bounds    == <<sessions, faults>>
vars == <<main, reader, localVars, pipeVars, callVars, backoff, netVars, poolVars, shares,
          bounds>>

None  == 0 - 1                                \* Python's None, where a number may be
NoJob == [id |-> 0, start |-> 0]
Nonce == 0..(MaxNonce + 1)
Cap(n) == IF n > MaxNonce THEN MaxNonce + 1 ELSE n

NoCall  == [id |-> 0, answer |-> "none"]
NoSlice == [id |-> 0, start |-> 0, result |-> "none", nonce |-> None, next |-> 0]
Share   == [job : Jobs, nonce : Nonces, current : 0..MaxJobs, record : {"own", "earlier"},
            pool : {"open", "credited", "refused"},
            client : {"open", "accepted", "rejected", "gave up", "abandoned"}]
Request == [id : Nat, method : {"subscribe", "authorize", "submit"}, share : Nat]
Message == [id : Nat, answer : {"yes", "no"}] \cup [job : Jobs]

TypeOK ==
  /\ main \in {"connect", "subscribe", "authorize", "run", "stopReader", "stopSolver",
               "close", "backoff"}
  /\ reader \in {"off", "reading", "done"}
  /\ solver \in {"off", "waiting", "slice", "submit", "sleep"}
  /\ job \in [id : 0..MaxJobs, start : Nonce]
  /\ changed \in BOOLEAN
  /\ slice \in [id : 0..MaxJobs, start : Nonce, nonce : Nonces \cup {None},
                result : {"none", "found", "end", "raise"}, next : Nonce]
  /\ left \in Nat /\ cut \in BOOLEAN
  /\ call \in [id : Nat, answer : {"none", "yes", "no", "unsent"}]
  /\ pending \subseteq Nat /\ lastId \in Nat
  /\ backoff \in 0..MaxBackoff
  /\ link \in {"none", "up", "lost"}
  /\ requests \in Seq(Request) /\ messages \in Seq(Message)
  /\ pool \in Jobs /\ told \in 0..MaxJobs
  /\ shares \in Seq(Share)
  /\ sessions \in Nat /\ faults \in Nat

Init ==
  /\ main = "connect" /\ reader = "off" /\ solver = "off"
  /\ job = NoJob /\ changed = FALSE /\ slice = NoSlice
  /\ left = 0 /\ cut = FALSE
  /\ call = NoCall /\ pending = {} /\ lastId = 0 /\ backoff = 0
  /\ link = "none" /\ requests = <<>> /\ messages = <<>>
  /\ pool = 1 /\ told = 0
  /\ shares = <<>> /\ sessions = 0 /\ faults = 0

Fault == faults < MaxFaults /\ faults' = faults + 1
-----------------------------------------------------------------------------
(***************************************************************************)
(* Calls.                                                                  *)
(***************************************************************************)
\* _call up to its await.  A write to a lost connection may raise, or be lost.
Call(method, share) ==
  /\ lastId' = lastId + 1
  /\ pending' = pending \cup {lastId + 1}
  /\ \E a \in {"none"} \cup (IF link = "lost" THEN {"unsent"} ELSE {}) :
       call' = [id |-> lastId + 1, answer |-> a]
  /\ requests' = IF link = "lost" THEN requests
                 ELSE Append(requests, [id |-> lastId + 1, method |-> method, share |-> share])

\* A faulty variant: a call without a timeout.
NeverTimesOut == FALSE

\* 30 s without an answer; the answer may still come.
TimesOut == call.id # 0 /\ call.answer = "none"

\* _call raises: its answer is an error or false, the write has failed, or it has
\* timed out.
CallFails ==
  \/ call.answer \in {"no", "unsent"} /\ UNCHANGED pending
  \/ TimesOut /\ pending' = pending \ {call.id}
-----------------------------------------------------------------------------
(***************************************************************************)
(* The main task.                                                          *)
(***************************************************************************)
Connect ==
  /\ main = "connect"
  /\ sessions < MaxSessions
  /\ sessions' = sessions + 1
  /\ main' = "subscribe" /\ reader' = "reading"
  /\ link' = "up" /\ told' = 0
  /\ Call("subscribe", 0)
  /\ shares' = <<>>
  /\ UNCHANGED <<pipeVars, localVars, backoff, messages, pool, faults>>

ConnectFails ==
  /\ Fault
  /\ main = "connect"
  /\ main' = "backoff"
  /\ UNCHANGED <<pipeVars, reader, localVars, callVars, backoff, netVars, poolVars, shares,
                 sessions>>

Subscribed ==
  /\ main = "subscribe" /\ call.answer = "yes"
  /\ main' = "authorize"
  /\ Call("authorize", 0)
  /\ UNCHANGED <<pipeVars, reader, localVars, backoff, link, messages, poolVars, shares,
                 bounds>>

\* The next iteration of _solver_loop: it waits for a job, or solves a slice.
Iterate(j) ==
  IF j.id = 0
  THEN solver' = "waiting" /\ changed' = FALSE /\ slice' = NoSlice
  ELSE /\ solver' = "slice" /\ UNCHANGED changed
       /\ slice' = [NoSlice EXCEPT !.id = j.id, !.start = j.start]

Authorized ==
  /\ main = "authorize" /\ call.answer = "yes"
  /\ main' = "run"
  /\ call' = NoCall
  /\ Iterate(job)
  /\ UNCHANGED <<pipeVars, reader, job, pending, lastId, backoff, netVars, poolVars, shares,
                 bounds>>

HandshakeFails ==
  /\ main \in {"subscribe", "authorize"}
  /\ CallFails
  /\ main' = "stopReader" /\ call' = NoCall
  /\ UNCHANGED <<pipeVars, reader, localVars, lastId, backoff, netVars, poolVars, shares,
                 bounds>>

\* A faulty variant: the reader is left running.
EndsReaderNever == UNCHANGED reader

EndsReader == reader' = "off"

StopReader ==
  /\ main = "stopReader"
  /\ main' = "close"
  /\ EndsReader
  /\ UNCHANGED <<pipeVars, localVars, callVars, backoff, netVars, poolVars, shares, bounds>>

\* wait_for before Python 3.12: a cancellation that comes when the awaited thing
\* is done, but its waiter has not run yet, is dropped.
Swallows ==
  /\ WaitForSwallows
  /\ \/ solver = "slice" /\ slice.result # "none"
     \/ solver = "submit" /\ call.answer \in {"yes", "no"}

\* A slice that is cancelled leaves its job to the process, unless it was not written
\* yet; and the process those before it, unless it was started again meanwhile.
LeavesJob ==
  /\ left' \in IF solver = "slice" THEN {left, left + 1, 0, 1} ELSE {left}
  /\ cut' = (cut \/ left' > 0)

\* The reader has ended, and so does the session: the solver task is cancelled.
SessionEnds ==
  /\ main = "run" /\ reader = "done"
  /\ main' = "stopSolver" /\ reader' = "off"
  /\ \/ Swallows /\ UNCHANGED <<solver, slice, pipeVars, call, shares>>
     \/ /\ ~Swallows
        /\ LeavesJob
        /\ solver' = "off" /\ slice' = NoSlice /\ call' = NoCall
        /\ shares' = IF solver # "submit" THEN shares
                     ELSE [shares EXCEPT ![Len(shares)].client = "abandoned"]
  /\ UNCHANGED <<job, changed, pending, lastId, backoff, netVars, poolVars, bounds>>

SolverEnded ==
  /\ main = "stopSolver" /\ solver = "off"
  /\ main' = "close"
  /\ UNCHANGED <<pipeVars, reader, localVars, callVars, backoff, netVars, poolVars, shares,
                 bounds>>

\* The connection is closed; the end of the finally clause.
Close ==
  /\ main = "close"
  /\ main' = "backoff"
  /\ link' = "none" /\ requests' = <<>> /\ messages' = <<>> /\ told' = 0
  /\ job' = NoJob /\ changed' = TRUE /\ pending' = {}
  /\ UNCHANGED <<pipeVars, reader, solver, slice, call, lastId, backoff, pool, shares,
                 bounds>>

\* A faulty variant: nothing stops the delay from growing.
DoubledUnlimited == backoff + 1

Doubled == IF backoff < MaxBackoff THEN backoff + 1 ELSE backoff

\* _session_once never returns: the delay is not reset after a good session.
Slept ==
  /\ main = "backoff"
  /\ main' = "connect"
  /\ backoff' = Doubled
  /\ UNCHANGED <<pipeVars, reader, localVars, callVars, netVars, poolVars, shares, bounds>>
-----------------------------------------------------------------------------
(***************************************************************************)
(* The reader.                                                             *)
(***************************************************************************)
\* A faulty variant: an answer goes to whoever waits.
AnswersAny(m) == call.id # 0

\* The future of the call is still in _pending.
Answers(m) == m.id \in pending /\ m.id = call.id

\* A faulty variant: a job is not announced.
AnnounceNothing == UNCHANGED changed

Announce == changed' = TRUE

ReadAnswer(m) ==
  /\ pending' = pending \ {m.id}
  /\ call' = IF Answers(m) /\ call.answer = "none" THEN [call EXCEPT !.answer = m.answer]
             ELSE call
  /\ UNCHANGED <<job, changed>>

ReadNotify(m) ==
  /\ job' = [id |-> m.job, start |-> 0]
  /\ Announce
  /\ UNCHANGED <<call, pending>>

Read ==
  /\ reader = "reading" /\ messages # <<>>
  /\ messages' = Tail(messages)
  /\ LET m == Head(messages) IN IF "job" \in DOMAIN m THEN ReadNotify(m) ELSE ReadAnswer(m)
  /\ UNCHANGED <<pipeVars, main, reader, solver, slice, lastId, backoff, link, requests,
                 poolVars, shares, bounds>>

ReadEnd ==
  /\ reader = "reading" /\ messages = <<>> /\ link = "lost"
  /\ reader' = "done"
  /\ UNCHANGED <<pipeVars, main, localVars, callVars, backoff, netVars, poolVars, shares,
                 bounds>>
-----------------------------------------------------------------------------
(***************************************************************************)
(* The solver loop.                                                        *)
(***************************************************************************)
Woken ==
  /\ solver = "waiting" /\ changed
  /\ Iterate(job)
  /\ UNCHANGED <<pipeVars, main, reader, job, callVars, backoff, netVars, poolVars, shares,
                 bounds>>

HitsFrom(s) == {n \in s.start..(s.start + Reach - 1) : <<s.id, n>> \in Hits}

\* A faulty variant: the window moves only as far as the solver reports.
NextNonceKept(start, end) == IF end # None /\ end > start THEN Cap(end + 1) ELSE start

NextNonce(start, end) ==
  IF end # None /\ end > start THEN Cap(end + 1) ELSE Cap(start + SliceNonces)

\* The record of the slice's own job.  That of a found share has lost its nonce64_end
\* (_result_from_record).
OwnRecord ==
  \/ \E n \in HitsFrom(slice) :
       /\ \A m \in HitsFrom(slice) : n <= m
       /\ slice' = [slice EXCEPT !.result = "found", !.nonce = n,
                                 !.next = NextNonce(slice.start, None)]
  \/ \E end \in slice.start..(slice.start + Reach - 1) :
       /\ \A m \in HitsFrom(slice) : end < m
       /\ slice' = [slice EXCEPT !.result = "end", !.next = NextNonce(slice.start, end)]

\* The record of an earlier slice's job: its nonces may be anywhere.
OtherRecord ==
  \/ \E n \in Nonces :
       /\ Len(shares) < MaxShares
       /\ slice' = [slice EXCEPT !.result = "found", !.nonce = n,
                                 !.next = NextNonce(slice.start, None)]
  \/ \E end \in Nonce :
       slice' = [slice EXCEPT !.result = "end", !.next = NextNonce(slice.start, end)]

\* A failure, or an error, or a record without a nonce.
NoRecord ==
  \E how \in {"end", "raise"} :
    slice' = [slice EXCEPT !.result = how, !.next = NextNonce(slice.start, None)]

\* solve_slice is done.  The process answers one job of those it has; none but the
\* slice's own if it has been started again.
SliceReturns ==
  /\ solver = "slice" /\ slice.result = "none"
  /\ left' \in {left, 0}
  /\ \/ left' = 0 /\ OwnRecord
     \/ left' > 0 /\ OtherRecord
     \/ NoRecord
  /\ UNCHANGED <<main, reader, solver, job, changed, callVars, backoff, netVars, poolVars,
                 shares, cut, bounds>>

\* Whose record the process has answered the slice with.
WhoseRecord == IF left = 0 THEN "own" ELSE "earlier"

\* A faulty variant: any job will do.
StillCurrentAny == job.id # 0

StillCurrent == job.id = slice.id

\* The end of an iteration, and the next one.
Resume ==
  /\ job' = IF job.id = slice.id THEN [job EXCEPT !.start = slice.next] ELSE job
  /\ Iterate(job')

SliceDone ==
  /\ solver = "slice" /\ slice.result # "none"
  /\ \/ /\ slice.result = "found" /\ StillCurrent
        /\ solver' = "submit"
        /\ shares' = Append(shares, [job |-> slice.id, nonce |-> slice.nonce,
                                     current |-> job.id, record |-> WhoseRecord,
                                     pool |-> "open", client |-> "open"])
        /\ Call("submit", Len(shares) + 1)
        /\ UNCHANGED <<job, changed, slice>>
     \/ /\ slice.result = "raise"
        /\ solver' = "sleep"
        /\ UNCHANGED <<job, changed, slice, callVars, requests, shares>>
     \/ /\ slice.result = "end" \/ (slice.result = "found" /\ ~StillCurrent)
        /\ Resume
        /\ UNCHANGED <<callVars, requests, shares>>
  /\ UNCHANGED <<main, reader, pipeVars, backoff, link, messages, poolVars, bounds>>

\* _submit_share after its await.
SubmitDone ==
  /\ solver = "submit"
  /\ \/ /\ call.answer = "yes"
        /\ shares' = [shares EXCEPT ![Len(shares)].client = "accepted"]
        /\ UNCHANGED pending
     \/ /\ CallFails
        /\ shares' = [shares EXCEPT ![Len(shares)].client =
                        IF call.answer = "no" THEN "rejected" ELSE "gave up"]
  /\ call' = NoCall
  /\ Resume
  /\ UNCHANGED <<pipeVars, main, reader, lastId, backoff, netVars, poolVars, bounds>>

SleepDone ==
  /\ solver = "sleep"
  /\ Resume
  /\ UNCHANGED <<pipeVars, main, reader, callVars, backoff, netVars, poolVars, shares,
                 bounds>>
-----------------------------------------------------------------------------
(***************************************************************************)
(* The pool and the network.                                               *)
(***************************************************************************)
Send(m) == messages' = Append(messages, m)

\* A share counts if it is of the current job, the first of its kind in the session,
\* and meets the target.  A failing pool may refuse anything.
PoolAnswers ==
  /\ requests # <<>>
  /\ requests' = Tail(requests)
  /\ LET r == Head(requests) IN
     \/ /\ r.method # "submit"
        /\ told' = IF r.method = "authorize" THEN pool ELSE told
        /\ messages' = messages \o <<[id |-> r.id, answer |-> "yes"]>>
                         \o (IF r.method = "authorize" THEN <<[job |-> pool]>> ELSE <<>>)
        /\ UNCHANGED <<shares, faults>>
     \/ /\ r.method = "submit"
        /\ LET s    == shares[r.share]
               good == /\ s.job = pool /\ <<s.job, s.nonce>> \in Hits
                       /\ \A i \in 1..(r.share - 1) :
                            <<shares[i].job, shares[i].nonce>> # <<s.job, s.nonce>>
           IN  /\ shares' = [shares EXCEPT ![r.share].pool =
                               IF good THEN "credited" ELSE "refused"]
               /\ Send([id |-> r.id, answer |-> IF good THEN "yes" ELSE "no"])
        /\ UNCHANGED <<told, faults>>
     \/ /\ Fault
        /\ Send([id |-> r.id, answer |-> "no"])
        /\ shares' = [i \in DOMAIN shares |->
                        IF i = r.share THEN [shares[i] EXCEPT !.pool = "refused"] ELSE shares[i]]
        /\ UNCHANGED told
  /\ UNCHANGED <<pipeVars, main, reader, localVars, callVars, backoff, link, pool,
                 sessions>>

PoolNotifies ==
  /\ link = "up" /\ told # 0 /\ told # pool
  /\ told' = pool
  /\ Send([job |-> pool])
  /\ UNCHANGED <<pipeVars, main, reader, localVars, callVars, backoff, link, requests, pool,
                 shares, bounds>>

PoolAdvances ==
  /\ pool < MaxJobs
  /\ pool' = pool + 1
  /\ UNCHANGED <<pipeVars, main, reader, localVars, callVars, backoff, netVars, told,
                 shares, bounds>>

\* The connection breaks; what was on its way to the client may arrive in part.
Break ==
  /\ link = "up"
  /\ link' = "lost" /\ requests' = <<>> /\ told' = 0
  /\ \E n \in 0..Len(messages) : messages' = SubSeq(messages, 1, n)
  /\ UNCHANGED <<pipeVars, main, reader, localVars, callVars, backoff, pool, shares,
                 bounds>>
-----------------------------------------------------------------------------
Main   == Subscribed \/ Authorized \/ HandshakeFails \/ StopReader \/ SessionEnds
            \/ SolverEnded \/ Close \/ Slept
Reader == Read \/ ReadEnd
Solver == Woken \/ SliceReturns \/ SliceDone \/ SubmitDone \/ SleepDone
Pool   == PoolAnswers \/ PoolNotifies \/ PoolAdvances \/ Break

Next == Connect \/ ConnectFails \/ Main \/ Reader \/ Solver \/ Pool

Spec == Init /\ [][Next]_vars

\* The event loop runs what is ready and fires its timers; solve_slice returns.
\* Nothing is assumed of the pool and the network.
FairSpec == Spec /\ WF_vars(Main) /\ WF_vars(Reader) /\ WF_vars(Solver)
-----------------------------------------------------------------------------
\* A nonce is submitted for the current job of the client, whatever the reader did
\* during the slice, and it is one found for that job, as long as no session has left
\* the solver's process a job when it ended.
OwnWork ==
  \A i \in 1..Len(shares) :
    /\ shares[i].current = shares[i].job
    /\ shares[i].record = "own" => <<shares[i].job, shares[i].nonce>> \in Hits
    /\ ~cut => shares[i].record = "own"

\* shares_accepted counts shares of the pool's ledger, shares_rejected shares the
\* pool refused or left unanswered: a late answer is taken for no other share's.
AnswersMatch ==
  \A i \in 1..Len(shares) :
    /\ shares[i].client = "accepted" => shares[i].pool = "credited"
    /\ shares[i].client = "rejected" => shares[i].pool = "refused"

\* Whatever a session was doing when it ended, the next one inherits no task, no
\* job and no pending call; of what the solver's process is left, OwnWork speaks.
NothingSurvives ==
  main \in {"backoff", "connect"} =>
    reader = "off" /\ solver = "off" /\ job = NoJob /\ pending = {} /\ call = NoCall

\* No nonce that a slice has found for its own job is submitted twice in a session,
\* as long as a slice does not scan further than the client believes.
NeverTwice ==
  Reach <= SliceNonces =>
    \A i, k \in 1..Len(shares) :
      i # k /\ shares[i].record = "own" /\ shares[k].record = "own"
        => <<shares[i].job, shares[i].nonce>> # <<shares[k].job, shares[k].nonce>>

\* "Reconnects ... on disconnect": however a connection ends, another is tried.
Reconnects == (link = "lost") ~> (main = "connect")

\* The job the client has is solved, unless another takes its place or the
\* session ends.
JobTakenUp ==
  \A j \in Jobs : (job.id = j) ~> (slice.id = j \/ job.id # j)
=============================================================================
