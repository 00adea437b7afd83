---------------------------- MODULE SolverDaemon ----------------------------
(***************************************************************************)
(* GbtSolveWrapper (src/dexbtx_miner/gbt_solve_wrapper.py): one solver     *)
(* process behind one asyncio lock.  A job is a line on its stdin, the     *)
(* answer a line on its stdout, and neither names the other.  The callers  *)
(* are asyncio tasks -- the sessions of the stratum server, through the    *)
(* share validator, or the solver loop of the miner, which is cancelled    *)
(* when its session ends -- and an action is what runs between two awaits. *)
(*                                                                         *)
(* The solver itself is not in the repository: it answers its jobs in      *)
(* order, and it may die, hang (it misses the timeouts of the wrapper, for *)
(* some time or for good) or write garbage.                                *)
(***************************************************************************)
EXTENDS Integers, Sequences

CONSTANTS Callers,     \* tasks that call solve_slice
          Nobody,      \* not a caller
          Shapes,      \* matmul_n, _b, _r and epsilon_bits of a challenge
          NoShape,     \* not a shape
          MaxCalls,    \* bound on the calls
          MaxFaults,   \* bound on the faults of the solver
          MaxCancels   \* bound on the cancellations

ASSUME DaemonAssumption ==
  /\ Nobody \notin Callers
  /\ NoShape \notin Shapes
  /\ MaxCalls \in Nat /\ MaxFaults \in Nat /\ MaxCancels \in Nat

VARIABLES
  call,      \* where each caller is in solve_slice, and with which job
  holder,    \* who holds _daemon_lock
  proc,      \* _daemon: the process and its pipes
  params,    \* _matmul_params
  answered,  \* history: the last reply of each caller, and to which job
  calls, faults, cancels

vars == <<call, holder, proc, params, answered, calls, faults, cancels>>

Pc == {"idle", "queued", "ensure", "spawn", "ready", "write", "read", "closing", "backoff"}

\* What follows a shutdown: a new process for a new shape; the end of an
\* attempt that failed; the RuntimeError of a process that never got ready.
After == {"spawn", "retry", "raise"}

AnswerKind == {"record", "error", "garbage"}
ReplyKind  == {"none", "record", "error", "gaveup", "raised", "cancelled"}

NoProc == [here |-> FALSE, alive |-> FALSE, hung |-> FALSE, closed |-> FALSE,
           shape |-> NoShape, input |-> <<>>, output |-> <<>>]

NewProc(s) == [NoProc EXCEPT !.here = TRUE, !.alive = TRUE, !.shape = s]

TypeOK ==
  /\ call \in [Callers -> [pc : Pc, id : Nat, shape : Shapes \cup {NoShape},
                           attempt : {1, 2}, after : After]]
  /\ holder \in Callers \cup {Nobody}
  /\ proc \in [here : BOOLEAN, alive : BOOLEAN, hung : BOOLEAN, closed : BOOLEAN,
               shape : Shapes \cup {NoShape}, input : Seq(Nat),
               output : Seq([job : Nat, kind : AnswerKind])]
  /\ params \in Shapes \cup {NoShape}
  /\ answered \in [Callers -> [asked : Nat, kind : ReplyKind, of : Nat]]
  /\ calls \in Nat /\ faults \in Nat /\ cancels \in Nat

Init ==
  /\ call = [c \in Callers |-> [pc |-> "idle", id |-> 0, shape |-> NoShape,
                                attempt |-> 1, after |-> "retry"]]
  /\ holder = Nobody
  /\ proc = NoProc
  /\ params = NoShape
  /\ answered = [c \in Callers |-> [asked |-> 0, kind |-> "none", of |-> 0]]
  /\ calls = 0 /\ faults = 0 /\ cancels = 0
-----------------------------------------------------------------------------
Goto(c, pc) == call' = [call EXCEPT ![c].pc = pc]

Fault == faults < MaxFaults /\ faults' = faults + 1

\* solve_slice returns, or raises, and the lock is free.
Reply(c, kind, of) ==
  /\ Goto(c, "idle")
  /\ holder' = Nobody
  /\ answered' = [answered EXCEPT ![c] = [asked |-> call[c].id, kind |-> kind, of |-> of]]

\* _shutdown_daemon up to its await: stdin is closed.
Close(c, after) ==
  /\ call' = [call EXCEPT ![c] = [@ EXCEPT !.pc = "closing", !.after = after]]
  /\ proc' = [proc EXCEPT !.closed = TRUE]

\* A faulty variant of Fails: the next attempt finds the same process.
FailsKeeping(c) ==
  /\ call' = [call EXCEPT ![c] = [@ EXCEPT !.pc = "backoff", !.after = "retry"]]
  /\ proc' = proc

\* The except clause of _send_job_with_retry: an I/O error or a timeout.
Fails(c) == Close(c, "retry")
-----------------------------------------------------------------------------
(***************************************************************************)
(* A call of solve_slice.                                                  *)
(***************************************************************************)
Call(c, s) ==
  /\ call[c].pc = "idle"
  /\ calls < MaxCalls
  /\ calls' = calls + 1
  /\ call' = [call EXCEPT ![c] = [@ EXCEPT !.pc = "queued", !.id = calls + 1, !.shape = s,
                                           !.attempt = 1]]
  /\ UNCHANGED <<holder, proc, params, answered, faults, cancels>>

\* The lock goes to its waiters in their order.
Acquire(c) ==
  /\ call[c].pc = "queued"
  /\ holder = Nobody
  /\ \A d \in Callers : call[d].pc = "queued" => call[c].id <= call[d].id
  /\ holder' = c
  /\ Goto(c, "ensure")
  /\ UNCHANGED <<proc, params, answered, calls, faults, cancels>>

\* A faulty variant: any process will do.
FitsAny(c) == TRUE

Fits(c) == params = call[c].shape

\* _ensure_daemon up to its first await.  A dead process may not have been
\* reaped yet (returncode is None).
Ensure(c) ==
  /\ call[c].pc = "ensure"
  /\ \/ /\ proc.here /\ ~Fits(c)
        /\ Close(c, "spawn")
     \/ /\ proc.here /\ Fits(c)
        /\ Goto(c, "write")
        /\ UNCHANGED proc
     \/ /\ ~proc.here \/ (Fits(c) /\ ~proc.alive)
        /\ Goto(c, "spawn")
        /\ UNCHANGED proc
  /\ UNCHANGED <<holder, params, answered, calls, faults, cancels>>

Spawn(c) ==
  /\ call[c].pc = "spawn"
  /\ proc' = NewProc(call[c].shape)
  /\ Goto(c, "ready")
  /\ UNCHANGED <<holder, params, answered, calls, faults, cancels>>

\* create_subprocess_exec raises, which no clause of the wrapper catches.
SpawnError(c) ==
  /\ Fault
  /\ call[c].pc = "spawn"
  /\ Reply(c, "raised", 0)
  /\ UNCHANGED <<proc, params, calls, cancels>>

\* A line on stderr, or its end: any text will do.
Ready(c) ==
  /\ call[c].pc = "ready"
  /\ ~proc.alive \/ ~proc.hung
  /\ params' = call[c].shape
  /\ Goto(c, "write")
  /\ UNCHANGED <<holder, proc, answered, calls, faults, cancels>>

ReadyTimeout(c) ==
  /\ call[c].pc = "ready"
  /\ proc.alive /\ proc.hung
  /\ Close(c, "raise")
  /\ UNCHANGED <<holder, params, answered, calls, faults, cancels>>

Write(c) ==
  /\ call[c].pc = "write"
  /\ ~proc.closed
  /\ proc' = [proc EXCEPT !.input = Append(@, call[c].id)]
  /\ Goto(c, "read")
  /\ UNCHANGED <<holder, params, answered, calls, faults, cancels>>

\* The pipe is closed, or broken.
WriteError(c) ==
  /\ call[c].pc = "write"
  /\ proc.closed \/ ~proc.alive
  /\ Fails(c)
  /\ UNCHANGED <<holder, params, answered, calls, faults, cancels>>

\* A line that is a record, with an answer or with an "error".
Read(c) ==
  /\ call[c].pc = "read"
  /\ proc.output # <<>>
  /\ Head(proc.output).kind # "garbage"
  /\ proc' = [proc EXCEPT !.output = Tail(@)]
  /\ \/ /\ Head(proc.output).kind = "record"
        /\ Reply(c, "record", Head(proc.output).job)
     \/ /\ Head(proc.output).kind = "error"
        /\ Reply(c, "error", 0)
  /\ UNCHANGED <<params, calls, faults, cancels>>

\* A line that is not JSON.
ReadGarbage(c) ==
  /\ call[c].pc = "read"
  /\ proc.output # <<>>
  /\ Head(proc.output).kind = "garbage"
  /\ Fails(c)
  /\ UNCHANGED <<holder, params, answered, calls, faults, cancels>>

\* A faulty variant: there is no timeout.
ReadErrorEof(c) ==
  /\ call[c].pc = "read"
  /\ proc.output = <<>>
  /\ ~proc.alive
  /\ Fails(c)
  /\ UNCHANGED <<holder, params, answered, calls, faults, cancels>>

\* The end of stdout, or nothing within the timeout.
ReadError(c) ==
  /\ call[c].pc = "read"
  /\ proc.output = <<>>
  /\ ~proc.alive \/ proc.hung
  /\ Fails(c)
  /\ UNCHANGED <<holder, params, answered, calls, faults, cancels>>

\* A faulty variant: the attributes are kept.
ForgetNothing == proc' = proc /\ params' = params

Forget == proc' = NoProc /\ params' = NoShape

\* The rest of _shutdown_daemon: the process has exited or is killed; then on
\* to what follows, the second attempt after a pause.
EndClose(c) ==
  /\ call[c].pc = "closing"
  /\ Forget
  /\ \/ /\ call[c].after = "spawn"
        /\ Goto(c, "spawn")
        /\ UNCHANGED <<holder, answered>>
     \/ /\ call[c].after = "raise"
        /\ Reply(c, "raised", 0)
     \/ /\ call[c].after = "retry" /\ call[c].attempt = 1
        /\ Goto(c, "backoff")
        /\ UNCHANGED <<holder, answered>>
     \/ /\ call[c].after = "retry" /\ call[c].attempt = 2
        /\ Reply(c, "gaveup", 0)
  /\ UNCHANGED <<calls, faults, cancels>>

Backoff(c) ==
  /\ call[c].pc = "backoff"
  /\ call' = [call EXCEPT ![c] = [@ EXCEPT !.pc = "ensure", !.attempt = 2]]
  /\ UNCHANGED <<holder, proc, params, answered, calls, faults, cancels>>

\* The task is cancelled at the await where it is.  No clause catches this:
\* the lock is released and the process is left as it is.
Cancel(c) ==
  /\ cancels < MaxCancels
  /\ call[c].pc # "idle"
  /\ Goto(c, "idle")
  /\ holder' = IF holder = c THEN Nobody ELSE holder
  /\ answered' = [answered EXCEPT ![c] = [asked |-> call[c].id, kind |-> "cancelled", of |-> 0]]
  /\ cancels' = cancels + 1
  /\ UNCHANGED <<proc, params, calls, faults>>
-----------------------------------------------------------------------------
(***************************************************************************)
(* The solver process.                                                     *)
(***************************************************************************)
Solve(kind) ==
  /\ proc.alive /\ ~proc.hung
  /\ proc.input # <<>>
  /\ proc' = [proc EXCEPT !.input = Tail(@),
                          !.output = Append(@, [job |-> Head(proc.input), kind |-> kind])]
  /\ UNCHANGED <<call, holder, params, answered, calls, cancels>>

SolveJob == UNCHANGED faults /\ \E kind \in {"record", "error"} : Solve(kind)

WriteGarbage == Fault /\ Solve("garbage")

\* It crashes; what it has written can still be read.
Die ==
  /\ Fault
  /\ proc.alive
  /\ proc' = [proc EXCEPT !.alive = FALSE]
  /\ UNCHANGED <<call, holder, params, answered, calls, cancels>>

Hang ==
  /\ Fault
  /\ proc.alive /\ ~proc.hung
  /\ proc' = [proc EXCEPT !.hung = TRUE]
  /\ UNCHANGED <<call, holder, params, answered, calls, cancels>>

\* It was only slow, and answers late.
Recover ==
  /\ proc.alive /\ proc.hung
  /\ proc' = [proc EXCEPT !.hung = FALSE]
  /\ UNCHANGED <<call, holder, params, answered, calls, faults, cancels>>

\* It exits at the end of its stdin.
Exit ==
  /\ proc.alive /\ ~proc.hung
  /\ proc.closed /\ proc.input = <<>>
  /\ proc' = [proc EXCEPT !.alive = FALSE]
  /\ UNCHANGED <<call, holder, params, answered, calls, faults, cancels>>
-----------------------------------------------------------------------------
Step(c) ==
  \/ Acquire(c) \/ Ensure(c) \/ Spawn(c) \/ Ready(c) \/ ReadyTimeout(c)
  \/ Write(c) \/ WriteError(c) \/ Read(c) \/ ReadGarbage(c) \/ ReadError(c)
  \/ EndClose(c) \/ Backoff(c)

Next ==
  \/ \E c \in Callers : \/ \E s \in Shapes : Call(c, s)
                        \/ Step(c)
                        \/ SpawnError(c)
                        \/ Cancel(c)
  \/ SolveJob \/ WriteGarbage \/ Die \/ Hang \/ Recover \/ Exit

Spec == Init /\ [][Next]_vars

\* The event loop runs what can run and its timers fire; a solver that does not
\* hang answers.
FairSpec == Spec /\ WF_vars(SolveJob) /\ \A c \in Callers : WF_vars(Step(c))
-----------------------------------------------------------------------------
\* "Send one job to the persistent solver daemon; await its result line": the
\* record that solve_slice returns is the one of its own job.
AnswerIsOwn ==
  \A c \in Callers : answered[c].kind = "record" => answered[c].of = answered[c].asked

\* "Only one job in flight at a time": the process never has a job, or an
\* answer, of anybody but the caller that is reading.
OneJobInFlight ==
  proc.closed \/ Len(proc.input) + Len(proc.output)
                   <= (IF \E c \in Callers : call[c].pc = "read" THEN 1 ELSE 0)

\* A job is only given to a process started for its shape, which is what guards
\* against "silent consensus drift", also after a cancellation at any await.
RightShape ==
  \A c \in Callers : call[c].pc = "read" => proc.here /\ proc.shape = call[c].shape

\* "If the daemon dies mid-job we respawn once and retry": a single failure, or
\* a single cancellation before the call, never makes a call give up.
RetryHidesOneFailure ==
  faults + cancels <= 1 => \A c \in Callers : answered[c].kind # "gaveup"

\* A call comes to an end, whatever the solver does and whoever is cancelled.
EveryCallReturns ==
  \A c \in Callers : (call[c].pc # "idle") ~> (call[c].pc = "idle")

\* The inductive invariants behind RightShape, and behind OneJobInFlight and
\* IsService.  The lock has one holder, whose job fills the pipes and who closes
\* the process on every way out but a good answer: while nobody is cancelled,
\* the next holder finds the pipes empty.
LockInv == \A c \in Callers : call[c].pc \notin {"idle", "queued"} <=> holder = c

ShapeInv ==
  /\ TypeOK /\ LockInv
  /\ proc.here /\ params # NoShape => proc.shape = params
  /\ ~proc.here => params = NoShape
  /\ \A c \in Callers :
       /\ call[c].pc # "idle" => call[c].shape # NoShape
       /\ call[c].pc = "spawn" => params \in {NoShape, call[c].shape}
       /\ call[c].pc \in {"ready", "write", "read"} =>
            proc.here /\ proc.shape = call[c].shape

PipesEmpty == proc.input = <<>> /\ proc.output = <<>>

PipesHold(n) ==
  \/ proc.input = <<n>> /\ proc.output = <<>>
  \/ /\ proc.input = <<>>
     /\ \E k \in AnswerKind : proc.output = <<[job |-> n, kind |-> k]>>

FlightInv ==
  /\ TypeOK /\ LockInv
  /\ cancels = 0
  /\ \A c \in Callers :
       /\ call[c].pc # "idle" => call[c].id # 0
       /\ call[c].pc = "read" => ~proc.closed /\ PipesHold(call[c].id)
       /\ call[c].pc = "closing" => proc.closed
  /\ (\A c \in Callers : call[c].pc \notin {"read", "closing"}) => ~proc.closed /\ PipesEmpty

Service == INSTANCE SolveService
             WITH asked <- [c \in Callers |-> IF call[c].pc = "idle" THEN 0 ELSE call[c].id],
                  reply <- answered

\* The wrapper implements the service its callers count on.
IsService == Service!Spec
=============================================================================
