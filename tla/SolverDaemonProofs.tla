------------------------- MODULE SolverDaemonProofs -------------------------
(***************************************************************************)
(* Proofs about SolverDaemon, for every set of callers and of shapes and   *)
(* every number of calls and faults.                                       *)
(***************************************************************************)
EXTENDS SolverDaemon, TLAPS

CallType == [pc : Pc, id : Nat, shape : Shapes \cup {NoShape}, attempt : {1, 2}, after : After]
AnswerType == [job : Nat, kind : AnswerKind]
ProcType == [here : BOOLEAN, alive : BOOLEAN, hung : BOOLEAN, closed : BOOLEAN,
             shape : Shapes \cup {NoShape}, input : Seq(Nat), output : Seq(AnswerType)]

(***************************************************************************)
(* Types: how the common parts of the actions keep them.                   *)
(***************************************************************************)
LEMMA GotoTyped ==
  ASSUME call \in [Callers -> CallType], NEW c \in Callers, NEW pc \in Pc, Goto(c, pc)
  PROVE  call' \in [Callers -> CallType]
BY DEF CallType, Goto

LEMMA ReplyTyped ==
  ASSUME TypeOK, NEW c \in Callers, NEW kind \in ReplyKind, NEW of \in Nat, Reply(c, kind, of)
  PROVE  /\ call' \in [Callers -> CallType]
         /\ holder' \in Callers \cup {Nobody}
         /\ answered' \in [Callers -> [asked : Nat, kind : ReplyKind, of : Nat]]
<1>1. call' \in [Callers -> CallType]
  BY GotoTyped DEF TypeOK, Reply, CallType, Pc
<1>2. call[c].id \in Nat
  BY DEF TypeOK
<1> QED
  BY <1>1, <1>2 DEF TypeOK, Reply

LEMMA CloseTyped ==
  ASSUME TypeOK, NEW c \in Callers, NEW after \in After, Close(c, after)
  PROVE  call' \in [Callers -> CallType] /\ proc' \in ProcType
<1>1. call \in [Callers -> CallType] /\ proc \in ProcType /\ "closing" \in Pc
  BY DEF TypeOK, CallType, ProcType, AnswerType, Pc
<1>2. [call[c] EXCEPT !.pc = "closing", !.after = after] \in CallType
  <2>1. call[c] \in CallType /\ "closing" \in Pc
    BY <1>1
  <2> QED
    BY <2>1 DEF CallType
<1>3. [proc EXCEPT !.closed = TRUE] \in ProcType
  BY <1>1 DEF ProcType
<1> QED
  BY <1>1, <1>2, <1>3 DEF Close

LEMMA NoProcTyped ==
  /\ NoProc \in ProcType
  /\ \A s \in Shapes \cup {NoShape} : NewProc(s) \in ProcType
<1>1. <<>> \in Seq(Nat) /\ <<>> \in Seq(AnswerType)
  OBVIOUS
<1>2. NoProc \in ProcType
  BY <1>1 DEF NoProc, ProcType
<1> QED
  BY <1>2 DEF NewProc, ProcType

LEMMA TypeInit == Init => TypeOK
BY NoProcTyped DEF Init, TypeOK, ProcType, AnswerType, Pc, After, ReplyKind

LEMMA TypeSolve ==
  ASSUME TypeOK, NEW kind \in AnswerKind, Solve(kind)
  PROVE  proc' \in ProcType
<1>1. proc.input \in Seq(Nat) /\ proc.input # <<>> /\ proc.output \in Seq(AnswerType)
  BY DEF TypeOK, Solve, AnswerType
<1>2. Tail(proc.input) \in Seq(Nat) /\ Head(proc.input) \in Nat
  BY <1>1
<1>3. [job |-> Head(proc.input), kind |-> kind] \in AnswerType
  BY <1>2 DEF AnswerType
<1>4. Append(proc.output, [job |-> Head(proc.input), kind |-> kind]) \in Seq(AnswerType)
  BY <1>1, <1>3
<1> QED
  BY <1>2, <1>4 DEF TypeOK, Solve, ProcType, AnswerType

LEMMA TypeNext == TypeOK /\ [Next]_vars => TypeOK'
<1> SUFFICES ASSUME TypeOK, [Next]_vars PROVE TypeOK'
  OBVIOUS
<1>1. /\ call \in [Callers -> CallType]
      /\ proc \in ProcType
      /\ TypeOK' <=> /\ call' \in [Callers -> CallType]
                     /\ holder' \in Callers \cup {Nobody}
                     /\ proc' \in ProcType
                     /\ params' \in Shapes \cup {NoShape}
                     /\ answered' \in [Callers -> [asked : Nat, kind : ReplyKind, of : Nat]]
                     /\ calls' \in Nat /\ faults' \in Nat /\ cancels' \in Nat
  BY DEF TypeOK, CallType, ProcType, AnswerType
<1>2. /\ holder \in Callers \cup {Nobody} /\ params \in Shapes \cup {NoShape}
      /\ answered \in [Callers -> [asked : Nat, kind : ReplyKind, of : Nat]]
      /\ calls \in Nat /\ faults \in Nat /\ cancels \in Nat
  BY DEF TypeOK
<1>3. Fault => faults' \in Nat
  BY <1>2 DEF Fault
<1>4. ASSUME NEW c \in Callers, NEW s \in Shapes, Call(c, s) PROVE TypeOK'
  <2>1. call[c] \in CallType /\ "queued" \in Pc /\ calls + 1 \in Nat /\ 1 \in {1, 2}
    BY <1>1, <1>2 DEF Pc
  <2>2. [call[c] EXCEPT !.pc = "queued", !.id = calls + 1, !.shape = s, !.attempt = 1]
          \in CallType
    BY <2>1 DEF CallType
  <2> QED
    BY <1>1, <1>2, <1>4, <2>1, <2>2 DEF Call
<1>5. ASSUME NEW c \in Callers, Step(c) PROVE TypeOK'
  <2>1. CASE Acquire(c)
    BY <1>1, <1>2, <2>1, GotoTyped DEF Acquire, Pc
  <2>2. CASE Ensure(c)
    BY <1>1, <1>2, <2>2, GotoTyped, CloseTyped DEF Ensure, Pc, After
  <2>3. CASE Spawn(c)
    BY <1>1, <1>2, <2>3, GotoTyped, NoProcTyped DEF Spawn, Pc, CallType
  <2>4. CASE Ready(c)
    BY <1>1, <1>2, <2>4, GotoTyped DEF Ready, Pc, CallType
  <2>5. CASE ReadyTimeout(c)
    BY <1>1, <1>2, <2>5, CloseTyped DEF ReadyTimeout, After
  <2>6. CASE Write(c)
    <3>1. Append(proc.input, call[c].id) \in Seq(Nat)
      BY <1>1 DEF CallType, ProcType
    <3>2. proc' \in ProcType
      BY <1>1, <2>6, <3>1 DEF Write, ProcType
    <3> QED
      BY <1>1, <1>2, <2>6, <3>2, GotoTyped DEF Write, Pc
  <2>7. CASE WriteError(c)
    BY <1>1, <1>2, <2>7, CloseTyped DEF WriteError, Fails, After
  <2>8. CASE Read(c)
    <3>1. proc.output \in Seq(AnswerType) /\ proc.output # <<>>
      BY <1>1, <2>8 DEF Read, ProcType
    <3>2. Head(proc.output) \in AnswerType /\ Tail(proc.output) \in Seq(AnswerType)
      BY <3>1
    <3>3. proc' \in ProcType
      BY <1>1, <2>8, <3>2 DEF Read, ProcType
    <3>4. Head(proc.output).job \in Nat
      BY <3>2 DEF AnswerType
    <3>5. /\ call' \in [Callers -> CallType]
          /\ holder' \in Callers \cup {Nobody}
          /\ answered' \in [Callers -> [asked : Nat, kind : ReplyKind, of : Nat]]
      BY <2>8, <3>4, ReplyTyped DEF Read, ReplyKind
    <3> QED
      BY <1>1, <1>2, <2>8, <3>3, <3>5 DEF Read
  <2>9. CASE ReadGarbage(c)
    BY <1>1, <1>2, <2>9, CloseTyped DEF ReadGarbage, Fails, After
  <2>10. CASE ReadError(c)
    BY <1>1, <1>2, <2>10, CloseTyped DEF ReadError, Fails, After
  <2>11. CASE EndClose(c)
    BY <1>1, <1>2, <2>11, GotoTyped, ReplyTyped, NoProcTyped DEF EndClose, Forget, Pc, ReplyKind
  <2>12. CASE Backoff(c)
    <3>1. call[c] \in CallType /\ "ensure" \in Pc /\ 2 \in {1, 2}
      BY <1>1 DEF Pc
    <3>2. [call[c] EXCEPT !.pc = "ensure", !.attempt = 2] \in CallType
      BY <3>1 DEF CallType
    <3> QED
      BY <1>1, <1>2, <2>12, <3>2 DEF Backoff
  <2> QED
    BY <1>5, <2>1, <2>2, <2>3, <2>4, <2>5, <2>6, <2>7, <2>8, <2>9, <2>10, <2>11, <2>12
       DEF Step
<1>6. ASSUME NEW c \in Callers, SpawnError(c) PROVE TypeOK'
  BY <1>1, <1>2, <1>3, <1>6, ReplyTyped DEF SpawnError, ReplyKind
<1>7. ASSUME NEW c \in Callers, Cancel(c) PROVE TypeOK'
  <2>1. [asked |-> call[c].id, kind |-> "cancelled", of |-> 0]
          \in [asked : Nat, kind : ReplyKind, of : Nat]
    BY <1>1 DEF CallType, ReplyKind
  <2> QED
    BY <1>1, <1>2, <1>7, <2>1, GotoTyped DEF Cancel, Pc
<1>8. CASE SolveJob
  BY <1>1, <1>2, <1>8, TypeSolve DEF SolveJob, Solve, AnswerKind
<1>9. CASE WriteGarbage
  BY <1>1, <1>2, <1>3, <1>9, TypeSolve DEF WriteGarbage, Solve, AnswerKind
<1>10. CASE Die \/ Hang \/ Recover \/ Exit
  BY <1>1, <1>2, <1>3, <1>10 DEF Die, Hang, Recover, Exit, ProcType
<1>11. CASE UNCHANGED vars
  BY <1>1, <1>2, <1>11 DEF vars
<1> QED
  BY <1>4, <1>5, <1>6, <1>7, <1>8, <1>9, <1>10, <1>11 DEF Next

\* Every reachable state is well-typed: the pipes hold jobs and answers only,
\* and the wrapper's attributes a process and a shape.
THEOREM TypeCorrect == Spec => []TypeOK
BY TypeInit, TypeNext, PTL DEF Spec

(***************************************************************************)
(* The lock.                                                               *)
(***************************************************************************)
Critical(c) == call[c].pc \notin {"idle", "queued"}

LEMMA LockGoto ==
  ASSUME TypeOK, LockInv, NEW c \in Callers, Critical(c), NEW r \in CallType,
         r.pc \notin {"idle", "queued"},
         call' = [call EXCEPT ![c] = r], holder' = holder
  PROVE  LockInv'
BY DEF TypeOK, LockInv, Critical

LEMMA LockReply ==
  ASSUME TypeOK, LockInv, NEW c \in Callers, Critical(c),
         call' = [call EXCEPT ![c].pc = "idle"], holder' = Nobody
  PROVE  LockInv'
BY DaemonAssumption DEF TypeOK, LockInv, Critical

LEMMA LockNext == TypeOK /\ LockInv /\ [Next]_vars => LockInv'
<1> SUFFICES ASSUME TypeOK, LockInv, [Next]_vars PROVE LockInv'
  OBVIOUS
<1>1. call \in [Callers -> CallType]
  BY DEF TypeOK, CallType
<1>2. ASSUME NEW c \in Callers, NEW pc \in Pc \ {"idle", "queued"}, Critical(c),
             Goto(c, pc), holder' = holder
      PROVE  LockInv'
  <2>1. [call[c] EXCEPT !.pc = pc] \in CallType
    BY <1>1 DEF CallType
  <2> QED
    BY <1>1, <1>2, <2>1, LockGoto DEF Goto, CallType
<1>3. ASSUME NEW c \in Callers, NEW after, Critical(c), Close(c, after), holder' = holder
      PROVE  LockInv'
  BY <1>1, <1>3 DEF Close, LockInv, Critical, CallType
<1>4. ASSUME NEW c \in Callers, NEW kind, NEW of, Critical(c), Reply(c, kind, of)
      PROVE  LockInv'
  BY <1>4, LockReply DEF Reply, Goto
<1>5. ASSUME NEW c \in Callers, NEW s \in Shapes, Call(c, s) PROVE LockInv'
  BY <1>1, <1>5 DEF Call, LockInv, CallType
<1>6. ASSUME NEW c \in Callers, Step(c) PROVE LockInv'
  <2>1. CASE Acquire(c)
    BY <1>1, <2>1, DaemonAssumption DEF Acquire, Goto, LockInv, CallType
  <2>2. CASE Ensure(c)
    BY <1>2, <1>3, <2>2 DEF Ensure, Critical, Pc
  <2>3. CASE Spawn(c) \/ Ready(c) \/ Write(c)
    BY <1>2, <2>3 DEF Spawn, Ready, Write, Critical, Pc
  <2>4. CASE ReadyTimeout(c) \/ WriteError(c) \/ ReadGarbage(c) \/ ReadError(c)
    BY <1>3, <2>4 DEF ReadyTimeout, WriteError, ReadGarbage, ReadError, Fails, Critical
  <2>5. CASE Read(c)
    BY <1>4, <2>5 DEF Read, Critical
  <2>6. CASE EndClose(c)
    BY <1>2, <1>4, <2>6 DEF EndClose, Critical, Pc
  <2>7. CASE Backoff(c)
    BY <1>1, <2>7 DEF Backoff, LockInv, CallType
  <2> QED
    BY <1>6, <2>1, <2>2, <2>3, <2>4, <2>5, <2>6, <2>7 DEF Step
<1>7. ASSUME NEW c \in Callers, SpawnError(c) PROVE LockInv'
  BY <1>4, <1>7 DEF SpawnError, Critical
<1>8. ASSUME NEW c \in Callers, Cancel(c) PROVE LockInv'
  BY <1>1, <1>8, DaemonAssumption DEF Cancel, Goto, LockInv, CallType
<1>9. CASE SolveJob \/ WriteGarbage \/ Die \/ Hang \/ Recover \/ Exit
  BY <1>9 DEF SolveJob, WriteGarbage, Solve, Die, Hang, Recover, Exit, LockInv
<1>10. CASE UNCHANGED vars
  BY <1>10 DEF vars, LockInv
<1> QED
  BY <1>5, <1>6, <1>7, <1>8, <1>9, <1>10 DEF Next

(***************************************************************************)
(* Shapes.                                                                 *)
(***************************************************************************)
\* What ShapeInv says of one caller.
ShapeOf(c) ==
  /\ call[c].pc # "idle" => call[c].shape # NoShape
  /\ call[c].pc = "spawn" => params \in {NoShape, call[c].shape}
  /\ call[c].pc \in {"ready", "write", "read"} => proc.here /\ proc.shape = call[c].shape

ParamsOfProc ==
  /\ proc.here /\ params # NoShape => proc.shape = params
  /\ ~proc.here => params = NoShape

LEMMA ShapeInit == Init => ShapeInv
BY TypeInit, DaemonAssumption DEF Init, ShapeInv, LockInv, NoProc

\* While c holds the lock, only c can break what the others rely on.
LEMMA ShapeOthers ==
  ASSUME ShapeInv, NEW c \in Callers, Critical(c),
         \A d \in Callers \ {c} : call'[d] = call[d],
         ParamsOfProc', ShapeOf(c)', TypeOK', LockInv'
  PROVE  ShapeInv'
<1>1. ASSUME NEW d \in Callers \ {c} PROVE ShapeOf(d)'
  BY <1>1 DEF ShapeInv, LockInv, Critical, ShapeOf
<1> QED
  BY <1>1 DEF ShapeInv, ShapeOf, ParamsOfProc

LEMMA ShapeNext == ShapeInv /\ [Next]_vars => ShapeInv'
<1> SUFFICES ASSUME ShapeInv, [Next]_vars PROVE ShapeInv'
  OBVIOUS
<1>1. /\ TypeOK /\ LockInv /\ TypeOK' /\ LockInv' /\ ParamsOfProc
      /\ \A c \in Callers : ShapeOf(c)
      /\ call \in [Callers -> CallType] /\ proc \in ProcType
  BY TypeNext, LockNext DEF ShapeInv, TypeOK, CallType, ProcType, AnswerType,
                            ParamsOfProc, ShapeOf
<1>2. (ParamsOfProc' /\ \A c \in Callers : ShapeOf(c)') => ShapeInv'
  BY <1>1 DEF ShapeInv, ParamsOfProc, ShapeOf
<1>3. ASSUME NEW c \in Callers, NEW s \in Shapes, Call(c, s) PROVE ShapeInv'
  BY <1>1, <1>2, <1>3, DaemonAssumption DEF Call, ShapeOf, ParamsOfProc, CallType
<1>4. ASSUME NEW c \in Callers, Step(c) PROVE ShapeInv'
  <2>1. CASE Acquire(c)
    BY <1>1, <1>2, <2>1 DEF Acquire, Goto, ShapeOf, ParamsOfProc, CallType
  <2>2. CASE Ensure(c)
    <3>1. Critical(c) /\ (\A d \in Callers \ {c} : call'[d] = call[d])
      BY <1>1, <2>2 DEF Ensure, Critical, Close, Goto
    <3>2. ParamsOfProc'
      BY <1>1, <2>2 DEF Ensure, Close, ParamsOfProc, ProcType
    <3>3. ShapeOf(c)'
      <4>1. ShapeOf(c) /\ call[c].pc = "ensure" /\ params' = params /\ call[c] \in CallType
        BY <1>1, <2>2 DEF Ensure
      <4>2. CASE Close(c, "spawn")
        BY <1>1, <4>1, <4>2 DEF Close, ShapeOf, CallType
      <4>3. CASE Goto(c, "write") /\ proc' = proc /\ proc.here /\ Fits(c)
        BY <1>1, <4>1, <4>3 DEF Goto, Fits, ShapeOf, ParamsOfProc, CallType
      <4>4. CASE Goto(c, "spawn") /\ (~proc.here \/ Fits(c))
        BY <1>1, <4>1, <4>4 DEF Goto, Fits, ShapeOf, ParamsOfProc, CallType
      <4> QED
        BY <2>2, <4>2, <4>3, <4>4 DEF Ensure
    <3> QED
      BY <1>1, <3>1, <3>2, <3>3, ShapeOthers
  <2>3. CASE Spawn(c)
    <3>1. Critical(c) /\ (\A d \in Callers \ {c} : call'[d] = call[d])
      BY <1>1, <2>3 DEF Spawn, Critical, Goto
    <3>2. ParamsOfProc' /\ ShapeOf(c)'
      BY <1>1, <2>3 DEF Spawn, Goto, NewProc, NoProc, ShapeOf, ParamsOfProc, CallType
    <3> QED
      BY <1>1, <3>1, <3>2, ShapeOthers
  <2>4. CASE Ready(c)
    <3>1. Critical(c) /\ (\A d \in Callers \ {c} : call'[d] = call[d])
      BY <1>1, <2>4 DEF Ready, Critical, Goto
    <3>2. ParamsOfProc' /\ ShapeOf(c)'
      BY <1>1, <2>4 DEF Ready, Goto, ShapeOf, ParamsOfProc, CallType
    <3> QED
      BY <1>1, <3>1, <3>2, ShapeOthers
  <2>5. CASE Write(c)
    <3>1. Critical(c) /\ (\A d \in Callers \ {c} : call'[d] = call[d])
      BY <1>1, <2>5 DEF Write, Critical, Goto
    <3>2. ParamsOfProc' /\ ShapeOf(c)'
      BY <1>1, <2>5 DEF Write, Goto, ShapeOf, ParamsOfProc, CallType, ProcType
    <3> QED
      BY <1>1, <3>1, <3>2, ShapeOthers
  <2>6. CASE ReadyTimeout(c) \/ WriteError(c) \/ ReadGarbage(c) \/ ReadError(c)
    <3>1. /\ Critical(c) /\ UNCHANGED params
          /\ \E after \in After : Close(c, after)
      BY <2>6 DEF ReadyTimeout, WriteError, ReadGarbage, ReadError, Fails, Critical, After
    <3>2. \A d \in Callers \ {c} : call'[d] = call[d]
      BY <1>1, <3>1 DEF Close
    <3>3. ParamsOfProc' /\ ShapeOf(c)'
      BY <1>1, <3>1 DEF Close, ShapeOf, ParamsOfProc, CallType, ProcType, Critical
    <3> QED
      BY <1>1, <3>1, <3>2, <3>3, ShapeOthers
  <2>7. CASE Read(c)
    <3>1. Critical(c) /\ (\A d \in Callers \ {c} : call'[d] = call[d])
      BY <1>1, <2>7 DEF Read, Critical, Reply, Goto
    <3>2. ParamsOfProc' /\ ShapeOf(c)'
      BY <1>1, <2>7 DEF Read, Reply, Goto, ShapeOf, ParamsOfProc, CallType, ProcType
    <3> QED
      BY <1>1, <3>1, <3>2, ShapeOthers
  <2>8. CASE EndClose(c)
    <3>1. Critical(c) /\ (\A d \in Callers \ {c} : call'[d] = call[d])
      BY <1>1, <2>8 DEF EndClose, Critical, Reply, Goto
    <3>2. ParamsOfProc'
      BY <2>8 DEF EndClose, Forget, NoProc, ParamsOfProc
    <3>3. ShapeOf(c)'
      BY <1>1, <2>8 DEF EndClose, Forget, Reply, Goto, ShapeOf, CallType
    <3> QED
      BY <1>1, <3>1, <3>2, <3>3, ShapeOthers
  <2>9. CASE Backoff(c)
    BY <1>1, <1>2, <2>9 DEF Backoff, ShapeOf, ParamsOfProc, CallType
  <2> QED
    BY <1>4, <2>1, <2>2, <2>3, <2>4, <2>5, <2>6, <2>7, <2>8, <2>9 DEF Step
<1>5. ASSUME NEW c \in Callers, SpawnError(c) PROVE ShapeInv'
  BY <1>1, <1>2, <1>5 DEF SpawnError, Reply, Goto, ShapeOf, ParamsOfProc, CallType
<1>6. ASSUME NEW c \in Callers, Cancel(c) PROVE ShapeInv'
  BY <1>1, <1>2, <1>6 DEF Cancel, Goto, ShapeOf, ParamsOfProc, CallType
<1>7. CASE SolveJob \/ WriteGarbage \/ Die \/ Hang \/ Recover \/ Exit
  <2>1. UNCHANGED <<call, params>> /\ proc'.here = proc.here /\ proc'.shape = proc.shape
    BY <1>1, <1>7 DEF SolveJob, WriteGarbage, Solve, Die, Hang, Recover, Exit, ProcType
  <2> QED
    BY <1>1, <1>2, <2>1 DEF ShapeOf, ParamsOfProc
<1>8. CASE UNCHANGED vars
  BY <1>1, <1>2, <1>8 DEF vars, ShapeOf, ParamsOfProc
<1> QED
  BY <1>3, <1>4, <1>5, <1>6, <1>7, <1>8 DEF Next

\* Whoever is cancelled, and whatever fails, a job is only written to a process
\* that was started for its shape.
THEOREM ShapesMatch == Spec => []RightShape
<1>1. ShapeInv => RightShape
  BY DEF ShapeInv, RightShape
<1> QED
  BY <1>1, ShapeInit, ShapeNext, PTL DEF Spec

(***************************************************************************)
(* One job in flight, while nobody is cancelled.                           *)
(***************************************************************************)
\* What FlightInv says of one caller, and of a process nobody waits for.
FlightOf(c) ==
  /\ call[c].pc # "idle" => call[c].id # 0
  /\ call[c].pc = "read" => ~proc.closed /\ PipesHold(call[c].id)
  /\ call[c].pc = "closing" => proc.closed

Waits(c) == call[c].pc \in {"read", "closing"}

Clean == ~proc.closed /\ PipesEmpty

LEMMA FlightParts ==
  FlightInv <=> /\ TypeOK /\ LockInv
                /\ cancels = 0
                /\ \A c \in Callers : FlightOf(c)
                /\ (\A c \in Callers : ~Waits(c)) => Clean
BY DEF FlightInv, FlightOf, Waits, Clean

LEMMA FlightInit == Init => FlightInv
BY TypeInit, DaemonAssumption DEF Init, FlightInv, LockInv, NoProc, PipesEmpty

\* The holder of the lock finds the pipes empty before it writes.
LEMMA HolderFindsClean ==
  ASSUME FlightInv, NEW c \in Callers, Critical(c), ~Waits(c)
  PROVE  Clean
<1>1. \A d \in Callers : d # c => ~Waits(d)
  BY DEF FlightInv, LockInv, Critical, Waits
<1> QED
  BY <1>1, FlightParts

\* While c holds the lock, only c can break what the others rely on.
LEMMA FlightOthers ==
  ASSUME FlightInv, NEW c \in Callers, Critical(c),
         \A d \in Callers \ {c} : call'[d] = call[d],
         FlightOf(c)', Waits(c)' \/ Clean',
         TypeOK', LockInv', cancels' = 0
  PROVE  FlightInv'
<1>1. ASSUME NEW d \in Callers \ {c} PROVE FlightOf(d)'
  <2>1. FlightOf(d) /\ call[d].pc \in {"idle", "queued"} /\ call'[d] = call[d]
    BY FlightParts DEF FlightInv, LockInv, Critical
  <2> QED
    BY <2>1 DEF FlightOf
<1>2. \A d \in Callers : FlightOf(d)'
  BY <1>1
<1>3. (\A d \in Callers : ~Waits(d))' => Clean'
  OBVIOUS
<1> QED
  BY <1>2, <1>3 DEF FlightInv, FlightOf, Waits, Clean

\* Pipes that hold one job have room for nothing else.
LEMMA HoldOne ==
  ASSUME NEW n, PipesHold(n)
  PROVE  /\ Len(proc.input) + Len(proc.output) <= 1
         /\ proc.output # <<>> =>
              /\ proc.input = <<>> /\ Tail(proc.output) = <<>>
              /\ Head(proc.output).job = n
<1>1. CASE proc.input = <<n>> /\ proc.output = <<>>
  <2>1. Len(proc.input) = 1 /\ Len(proc.output) = 0
    BY <1>1
  <2> QED
    BY <1>1, <2>1
<1>2. CASE proc.input = <<>> /\ \E k \in AnswerKind : proc.output = <<[job |-> n, kind |-> k]>>
  <2>1. PICK k \in AnswerKind : proc.output = <<[job |-> n, kind |-> k]>>
    BY <1>2
  <2>2. Len(proc.input) = 0 /\ Len(proc.output) = 1
    BY <1>2, <2>1
  <2>3. Tail(proc.output) = <<>> /\ Head(proc.output) = [job |-> n, kind |-> k]
    BY <2>1
  <2> QED
    BY <1>2, <2>2, <2>3
<1> QED
  BY <1>1, <1>2 DEF PipesHold

\* One solver step moves the job from one pipe to the other.
LEMMA SolveMoves ==
  ASSUME TypeOK, NEW n \in Nat, PipesHold(n), NEW kind \in AnswerKind, Solve(kind)
  PROVE  PipesHold(n)'
<1>1. proc.input = <<n>> /\ proc.output = <<>>
  BY DEF PipesHold, Solve
<1>2. Head(proc.input) = n /\ Tail(proc.input) = <<>>
  BY <1>1
<1>3. Append(proc.output, [job |-> n, kind |-> kind]) = <<[job |-> n, kind |-> kind]>>
  BY <1>1
<1>4. proc'.input = <<>> /\ proc'.output = <<[job |-> n, kind |-> kind]>>
  BY <1>2, <1>3 DEF Solve, TypeOK
<1> QED
  BY <1>4 DEF PipesHold

LEMMA FlightSolver ==
  ASSUME FlightInv, TypeOK', LockInv',
         SolveJob \/ WriteGarbage \/ Die \/ Hang \/ Recover \/ Exit
  PROVE  FlightInv'
<1>1. /\ proc \in ProcType /\ call \in [Callers -> CallType]
      /\ UNCHANGED <<call, cancels>> /\ proc'.closed = proc.closed
  BY DEF FlightInv, TypeOK, ProcType, AnswerType, CallType,
         SolveJob, WriteGarbage, Solve, Die, Hang, Recover, Exit
<1>2. ASSUME NEW kind \in AnswerKind, Solve(kind) PROVE FlightInv'
  <2>1. ~Clean
    BY <1>2 DEF Solve, Clean, PipesEmpty
  <2>2. PICK c \in Callers : Waits(c)
    BY <2>1, FlightParts
  <2>3. ASSUME NEW d \in Callers PROVE FlightOf(d)'
    <3>1. FlightOf(d) /\ call[d].id \in Nat
      BY <1>1, FlightParts DEF CallType
    <3> QED
      BY <1>1, <1>2, <3>1, SolveMoves DEF FlightOf, FlightInv
  <2> QED
    BY <1>1, <2>2, <2>3 DEF FlightInv, FlightOf, Waits
<1>3. ASSUME proc'.input = proc.input, proc'.output = proc.output PROVE FlightInv'
  BY <1>1, <1>3 DEF FlightInv, PipesEmpty, PipesHold
<1>4. CASE SolveJob \/ WriteGarbage
  BY <1>2, <1>4 DEF SolveJob, WriteGarbage, AnswerKind
<1>5. CASE Die \/ Hang \/ Recover \/ Exit
  BY <1>1, <1>3, <1>5 DEF Die, Hang, Recover, Exit, ProcType
<1> QED
  BY <1>4, <1>5

\* A failed attempt, or a process that does not get ready, closes it.
LEMMA FlightClose ==
  ASSUME FlightInv, NEW c \in Callers, Critical(c), NEW after \in After, Close(c, after),
         TypeOK', LockInv', cancels' = 0
  PROVE  FlightInv'
<1>1. FlightOf(c) /\ call \in [Callers -> CallType] /\ proc \in ProcType
  BY FlightParts DEF TypeOK, CallType, ProcType, AnswerType
<1>2. \A d \in Callers \ {c} : call'[d] = call[d]
  BY <1>1 DEF Close
<1>3. FlightOf(c)' /\ Waits(c)'
  BY <1>1 DEF Close, FlightOf, Waits, CallType, ProcType, Critical
<1> QED
  BY <1>2, <1>3, FlightOthers

\* A step of the holder that leaves clean pipes behind and does not wait.
LEMMA FlightGoto ==
  ASSUME FlightInv, NEW c \in Callers, Critical(c), NEW pc \in Pc \ {"read", "closing"},
         Goto(c, pc), Clean', TypeOK', LockInv', cancels' = 0
  PROVE  FlightInv'
<1>1. FlightOf(c) /\ call \in [Callers -> CallType]
  BY FlightParts DEF TypeOK, CallType
<1>2. \A d \in Callers \ {c} : call'[d] = call[d]
  BY <1>1 DEF Goto
<1>3. FlightOf(c)'
  BY <1>1 DEF Goto, FlightOf, CallType, Critical
<1> QED
  BY <1>2, <1>3, FlightOthers

LEMMA FlightNext ==
  ASSUME MaxCancels = 0
  PROVE  FlightInv /\ [Next]_vars => FlightInv'
<1> SUFFICES ASSUME FlightInv, [Next]_vars PROVE FlightInv'
  OBVIOUS
<1>1. /\ TypeOK /\ LockInv /\ TypeOK' /\ LockInv' /\ cancels = 0
      /\ call \in [Callers -> CallType] /\ proc \in ProcType
      /\ \A c \in Callers : FlightOf(c)
  BY TypeNext, LockNext, FlightParts DEF TypeOK, CallType, ProcType, AnswerType
<1>2. ASSUME NEW c \in Callers, NEW s \in Shapes, Call(c, s) PROVE FlightInv'
  <2>1. UNCHANGED <<proc, cancels>> /\ \A d \in Callers : Waits(d)' <=> Waits(d)
    BY <1>1, <1>2 DEF Call, Waits, CallType
  <2>2. calls + 1 # 0
    BY <1>1 DEF TypeOK
  <2>3. \A d \in Callers : FlightOf(d)'
    BY <1>1, <1>2, <2>1, <2>2 DEF Call, FlightOf, CallType, PipesHold
  <2>4. (\A d \in Callers : ~Waits(d))' => Clean'
    BY <2>1, FlightParts DEF Clean, PipesEmpty
  <2> QED
    BY <1>1, <2>1, <2>3, <2>4 DEF FlightInv, FlightOf, Waits, Clean
<1>3. ASSUME NEW c \in Callers, Step(c) PROVE FlightInv'
  <2>1. CASE Acquire(c)
    <3>1. UNCHANGED <<proc, cancels>> /\ \A d \in Callers : Waits(d)' <=> Waits(d)
      BY <1>1, <2>1 DEF Acquire, Goto, Waits, CallType
    <3>2. \A d \in Callers : FlightOf(d)'
      BY <1>1, <2>1 DEF Acquire, Goto, FlightOf, CallType, PipesHold
    <3>3. (\A d \in Callers : ~Waits(d))' => Clean'
      BY <3>1, FlightParts DEF Clean, PipesEmpty
    <3> QED
      BY <1>1, <3>1, <3>2, <3>3 DEF FlightInv, FlightOf, Waits, Clean
  <2>2. CASE Ensure(c)
    <3>1. Critical(c) /\ Clean /\ UNCHANGED cancels
      BY <2>2, HolderFindsClean DEF Ensure, Critical, Waits
    <3>2. CASE Close(c, "spawn")
      BY <1>1, <3>1, <3>2, FlightClose DEF After
    <3>3. CASE proc' = proc /\ (Goto(c, "write") \/ Goto(c, "spawn"))
      BY <1>1, <3>1, <3>3, FlightGoto DEF Clean, PipesEmpty, Pc
    <3> QED
      BY <2>2, <3>2, <3>3 DEF Ensure
  <2>3. CASE Spawn(c)
    <3>1. Critical(c) /\ Goto(c, "ready") /\ UNCHANGED cancels
      BY <2>3 DEF Spawn, Critical
    <3>2. Clean'
      BY <2>3 DEF Spawn, NewProc, NoProc, Clean, PipesEmpty
    <3> QED
      BY <1>1, <3>1, <3>2, FlightGoto DEF Pc
  <2>4. CASE Ready(c)
    <3>1. Critical(c) /\ Goto(c, "write") /\ UNCHANGED <<proc, cancels>>
      BY <2>4 DEF Ready, Critical
    <3>2. Clean'
      BY <2>4, <3>1, HolderFindsClean DEF Ready, Waits, Clean, PipesEmpty
    <3> QED
      BY <1>1, <3>1, <3>2, FlightGoto DEF Pc
  <2>5. CASE Write(c)
    <3>1. Critical(c) /\ Clean /\ UNCHANGED cancels /\ call[c].id \in Nat
      BY <1>1, <2>5, HolderFindsClean DEF Write, Critical, Waits, CallType
    <3>2. proc'.input = <<call[c].id>> /\ proc'.output = <<>> /\ ~proc'.closed
      BY <1>1, <2>5, <3>1 DEF Write, Clean, PipesEmpty, ProcType
    <3>3. /\ call'[c].pc = "read" /\ call'[c].id = call[c].id
          /\ \A d \in Callers \ {c} : call'[d] = call[d]
      BY <1>1, <2>5 DEF Write, Goto, CallType
    <3>4. FlightOf(c)' /\ Waits(c)'
      BY <1>1, <2>5, <3>2, <3>3 DEF Write, FlightOf, Waits, PipesHold
    <3> QED
      BY <1>1, <3>1, <3>3, <3>4, FlightOthers
  <2>6. CASE ReadyTimeout(c) \/ WriteError(c) \/ ReadGarbage(c) \/ ReadError(c)
    <3>1. /\ Critical(c) /\ UNCHANGED cancels
          /\ \E after \in After : Close(c, after)
      BY <2>6 DEF ReadyTimeout, WriteError, ReadGarbage, ReadError, Fails, Critical, After
    <3> QED
      BY <1>1, <3>1, FlightClose
  <2>7. CASE Read(c)
    <3>1. /\ Critical(c) /\ Goto(c, "idle") /\ UNCHANGED cancels
          /\ ~proc.closed /\ PipesHold(call[c].id) /\ proc.output # <<>>
      BY <1>1, <2>7 DEF Read, Reply, Critical, FlightOf
    <3>2. proc.input = <<>> /\ Tail(proc.output) = <<>>
      BY <3>1, HoldOne
    <3>3. Clean'
      BY <1>1, <2>7, <3>1, <3>2 DEF Read, Clean, PipesEmpty, ProcType
    <3> QED
      BY <1>1, <3>1, <3>3, FlightGoto DEF Pc
  <2>8. CASE EndClose(c)
    <3>1. Critical(c) /\ UNCHANGED cancels /\ \E pc \in {"spawn", "idle", "backoff"} : Goto(c, pc)
      BY <2>8 DEF EndClose, Critical, Reply
    <3>2. Clean'
      BY <2>8 DEF EndClose, Forget, NoProc, Clean, PipesEmpty
    <3> QED
      BY <1>1, <3>1, <3>2, FlightGoto DEF Pc
  <2>9. CASE Backoff(c)
    <3>1. Critical(c) /\ UNCHANGED <<proc, cancels>> /\ Clean'
      BY <2>9, HolderFindsClean DEF Backoff, Critical, Waits, Clean, PipesEmpty
    <3>2. FlightOf(c)' /\ \A d \in Callers \ {c} : call'[d] = call[d]
      BY <1>1, <2>9 DEF Backoff, FlightOf, CallType
    <3> QED
      BY <1>1, <3>1, <3>2, FlightOthers
  <2> QED
    BY <1>3, <2>1, <2>2, <2>3, <2>4, <2>5, <2>6, <2>7, <2>8, <2>9 DEF Step
<1>4. ASSUME NEW c \in Callers, SpawnError(c) PROVE FlightInv'
  <2>1. Critical(c) /\ Goto(c, "idle") /\ UNCHANGED <<proc, cancels>>
    BY <1>4 DEF SpawnError, Reply, Critical
  <2>2. Clean'
    BY <1>4, <2>1, HolderFindsClean DEF SpawnError, Waits, Clean, PipesEmpty
  <2> QED
    BY <1>1, <2>1, <2>2, FlightGoto DEF Pc
<1>5. ASSUME NEW c \in Callers, Cancel(c) PROVE FALSE
  BY <1>1, <1>5 DEF Cancel
<1>6. CASE SolveJob \/ WriteGarbage \/ Die \/ Hang \/ Recover \/ Exit
  BY <1>1, <1>6, FlightSolver
<1>7. CASE UNCHANGED vars
  BY <1>1, <1>7 DEF vars, FlightInv, PipesEmpty, PipesHold
<1> QED
  BY <1>2, <1>3, <1>4, <1>5, <1>6, <1>7 DEF Next

\* While no caller is cancelled, the solver never has a job, or an answer, of
\* anybody but the caller that is reading, whatever fails.
THEOREM OneInFlight == ASSUME MaxCancels = 0 PROVE Spec => []OneJobInFlight
<1>1. FlightInv => OneJobInFlight
  <2> SUFFICES ASSUME FlightInv, ~proc.closed PROVE OneJobInFlight
    BY DEF OneJobInFlight
  <2>1. CASE \E c \in Callers : call[c].pc = "read"
    <3>1. PICK c \in Callers : PipesHold(call[c].id)
      BY <2>1, FlightParts DEF FlightOf
    <3>2. Len(proc.input) + Len(proc.output) <= 1
      BY <3>1, HoldOne
    <3> QED
      BY <2>1, <3>2 DEF OneJobInFlight
  <2>2. CASE \A c \in Callers : call[c].pc # "read"
    <3>1. Len(proc.input) = 0 /\ Len(proc.output) = 0
      BY <2>2, FlightParts DEF FlightOf, Waits, Clean, PipesEmpty
    <3> QED
      BY <3>1 DEF OneJobInFlight
  <2> QED
    BY <2>1, <2>2
<1> QED
  BY <1>1, FlightInit, FlightNext, PTL DEF Spec

(***************************************************************************)
(* The wrapper implements SolveService.                                    *)
(***************************************************************************)
Asked == [c \in Callers |-> IF call[c].pc = "idle" THEN 0 ELSE call[c].id]

LEMMA ServiceInit == Init => Service!Init
BY DEF Init, Service!Init

\* A step that neither starts nor ends a call is none of the callers' business.
LEMMA ServiceStutter ==
  ASSUME NEW c \in Callers, call[c].pc # "idle", call'[c].pc # "idle",
         call'[c].id = call[c].id, \A d \in Callers \ {c} : call'[d] = call[d]
  PROVE  UNCHANGED Asked
BY DEF Asked

LEMMA ServiceReply ==
  ASSUME FlightInv, NEW c \in Callers, call[c].pc # "idle",
         NEW kind, NEW of, Reply(c, kind, of),
         \/ kind = "record" /\ of = call[c].id
         \/ kind \in {"error", "gaveup", "raised"} /\ of = 0
  PROVE  Service!Answer(c)
<1>1. call \in [Callers -> CallType] /\ call[c].id # 0
  BY FlightParts DEF TypeOK, CallType, FlightOf
<1>2. Asked[c] = call[c].id
  BY <1>1 DEF Asked
<1>3. Asked' = [Asked EXCEPT ![c] = 0]
  BY <1>1 DEF Reply, Goto, Asked, CallType
<1>4. answered' = [answered EXCEPT ![c] = [asked |-> Asked[c], kind |-> kind, of |-> of]]
  BY <1>2 DEF Reply
<1> QED
  BY <1>1, <1>2, <1>3, <1>4 DEF Service!Answer, Service!NoRecord, Asked

LEMMA ServiceStep ==
  ASSUME MaxCancels = 0, FlightInv, [Next]_vars
  PROVE  \/ \E c \in Callers : Service!Ask(c) \/ Service!Answer(c)
         \/ UNCHANGED <<Asked, answered>>
<1>1. /\ call \in [Callers -> CallType] /\ cancels = 0 /\ calls \in Nat
      /\ \A c \in Callers : FlightOf(c)
  BY FlightParts DEF TypeOK, CallType
<1>2. ASSUME NEW c \in Callers, NEW s \in Shapes, Call(c, s) PROVE Service!Ask(c)
  <2>1. Asked[c] = 0 /\ calls + 1 \in Nat \ {0}
    BY <1>1, <1>2 DEF Call, Asked
  <2>2. Asked' = [Asked EXCEPT ![c] = calls + 1]
    BY <1>1, <1>2 DEF Call, Asked, CallType
  <2>3. Asked'[c] = calls + 1
    BY <2>2 DEF Asked
  <2> QED
    BY <1>2, <2>1, <2>2, <2>3 DEF Call, Service!Ask, Asked
<1>3. ASSUME NEW c \in Callers, Step(c)
      PROVE  Service!Answer(c) \/ UNCHANGED <<Asked, answered>>
  <2>1. ASSUME NEW pc \in Pc \ {"idle"}, Goto(c, pc), call[c].pc # "idle"
        PROVE  UNCHANGED Asked
    <3>1. /\ call'[c].pc = pc /\ call'[c].id = call[c].id
          /\ \A d \in Callers \ {c} : call'[d] = call[d]
      BY <1>1, <2>1 DEF Goto, CallType
    <3> QED
      BY <2>1, <3>1, ServiceStutter
  <2>2. ASSUME NEW after, Close(c, after), call[c].pc # "idle"
        PROVE  UNCHANGED Asked
    <3>1. /\ call'[c].pc = "closing" /\ call'[c].id = call[c].id
          /\ \A d \in Callers \ {c} : call'[d] = call[d]
      BY <1>1, <2>2 DEF Close, CallType
    <3> QED
      BY <2>2, <3>1, ServiceStutter
  <2>3. CASE Acquire(c)
    BY <2>1, <2>3 DEF Acquire, Pc
  <2>4. CASE Ensure(c)
    BY <2>1, <2>2, <2>4 DEF Ensure, Pc
  <2>5. CASE Spawn(c) \/ Ready(c) \/ Write(c)
    BY <2>1, <2>5 DEF Spawn, Ready, Write, Pc
  <2>6. CASE ReadyTimeout(c) \/ WriteError(c) \/ ReadGarbage(c) \/ ReadError(c)
    BY <2>2, <2>6 DEF ReadyTimeout, WriteError, ReadGarbage, ReadError, Fails
  <2>7. CASE Read(c)
    <3>1. Head(proc.output).job = call[c].id
      BY <1>1, <2>7, HoldOne DEF Read, FlightOf
    <3> QED
      BY <2>7, <3>1, ServiceReply DEF Read
  <2>8. CASE EndClose(c)
    BY <2>1, <2>8, ServiceReply DEF EndClose, Pc
  <2>9. CASE Backoff(c)
    <3>1. /\ call[c].pc = "backoff" /\ call'[c].pc = "ensure" /\ call'[c].id = call[c].id
          /\ \A d \in Callers \ {c} : call'[d] = call[d]
      BY <1>1, <2>9 DEF Backoff, CallType
    <3>2. UNCHANGED answered
      BY <2>9 DEF Backoff
    <3> QED
      BY <3>1, <3>2, ServiceStutter
  <2> QED
    BY <1>3, <2>3, <2>4, <2>5, <2>6, <2>7, <2>8, <2>9 DEF Step
<1>4. ASSUME NEW c \in Callers, SpawnError(c) PROVE Service!Answer(c)
  BY <1>4, ServiceReply DEF SpawnError
<1>5. ASSUME NEW c \in Callers, Cancel(c) PROVE FALSE
  BY <1>1, <1>5 DEF Cancel
<1>6. CASE SolveJob \/ WriteGarbage \/ Die \/ Hang \/ Recover \/ Exit
  BY <1>6 DEF SolveJob, WriteGarbage, Solve, Die, Hang, Recover, Exit, Asked
<1>7. CASE UNCHANGED vars
  BY <1>7 DEF vars, Asked
<1> QED
  BY <1>2, <1>3, <1>4, <1>5, <1>6, <1>7 DEF Next

\* While no caller is cancelled, what solve_slice returns is the record of the
\* very job it was given, or word that there is none: the lock, the two
\* attempts and the shutdowns together implement the service.
THEOREM ServiceImplemented == ASSUME MaxCancels = 0 PROVE Spec => IsService
<1>1. FlightInv /\ [Next]_vars =>
        [\E c \in Callers : Service!Ask(c) \/ Service!Answer(c)]_<<Asked, answered>>
  BY ServiceStep
<1> QED
  BY <1>1, ServiceInit, FlightInit, FlightNext, PTL DEF Spec, IsService, Service!Spec, Asked

(***************************************************************************)
(* One retry hides one failure.                                            *)
(***************************************************************************)

\* A process that answers: none of the faults has hit it.
NoGarbage == \A i \in DOMAIN proc.output : proc.output[i].kind # "garbage"

Sound == ~proc.closed /\ ~proc.hung /\ (proc.here => proc.alive) /\ NoGarbage

\* While nothing has happened, processes are sound, and closed only by a caller that
\* has another shape, so nobody tries twice.
Untouched ==
  /\ ~proc.hung /\ NoGarbage
  /\ (\A c \in Callers : call[c].pc # "closing") => Sound
  /\ \A c \in Callers :
       /\ Critical(c) => call[c].attempt = 1 /\ call[c].pc # "backoff"
       /\ call[c].pc = "closing" => call[c].after = "spawn"

\* When one thing has happened, who tries for the second time does so with a process
\* that has been started since.
TouchedOnce ==
  \A c \in Callers :
    /\ call[c].pc = "backoff" => Sound /\ ~proc.here
    /\ Critical(c) /\ call[c].attempt = 2 =>
         /\ call[c].pc # "closing" /\ Sound
         /\ call[c].pc = "ensure" => ~proc.here

QueuedForTheFirst == \A c \in Callers : call[c].pc = "queued" => call[c].attempt = 1

RetryInv ==
  /\ faults + cancels = 0 => Untouched
  /\ faults + cancels = 1 => TouchedOnce
  /\ QueuedForTheFirst
  /\ RetryHidesOneFailure

LEMMA OneMore ==
  \A f, k, g, h \in Nat : g + h = f + k + 1 =>
    g + h # 0 /\ (g + h = 1 => f + k = 0) /\ (g + h <= 1 => f + k <= 1)
OBVIOUS

(* Something happens to the solver or to a caller, which is out then.       *)
LEMMA RetryHappen ==
  ASSUME TypeOK, TypeOK', RetryInv, faults' + cancels' = faults + cancels + 1,
         \A c \in Callers : call'[c] = call[c] \/ call'[c].pc = "idle",
         \A c \in Callers : answered'[c].kind = "gaveup" => answered[c].kind = "gaveup"
  PROVE  RetryInv'
<1>1. faults \in Nat /\ cancels \in Nat /\ faults' \in Nat /\ cancels' \in Nat
  BY DEF TypeOK
<1>2. QueuedForTheFirst'
  BY DEF RetryInv, QueuedForTheFirst
<1>3. Untouched => TouchedOnce'
  <2> SUFFICES ASSUME Untouched, NEW c \in Callers
               PROVE  call'[c].pc # "backoff" /\ (Critical(c)' => call'[c].attempt = 1)
    BY DEF TouchedOnce
  <2>1. Critical(c) => call[c].attempt = 1 /\ call[c].pc # "backoff"
    BY DEF Untouched
  <2> QED BY <2>1 DEF Critical
<1>4. faults' + cancels' # 0 /\ (faults' + cancels' = 1 => faults + cancels = 0)
      /\ (faults' + cancels' <= 1 => faults + cancels <= 1)
  BY <1>1, OneMore
<1>5. RetryHidesOneFailure'
  BY <1>4 DEF RetryInv, RetryHidesOneFailure
<1> QED BY <1>2, <1>3, <1>4, <1>5 DEF RetryInv

(* The process moves while nothing happens to it.                           *)
LEMMA RetryProcess ==
  ASSUME TypeOK, RetryInv, UNCHANGED <<call, answered, faults, cancels>>,
         ~proc.hung => ~proc'.hung, NoGarbage => NoGarbage', proc'.here = proc.here,
         Sound => Sound'
  PROVE  RetryInv'
<1>1. RetryHidesOneFailure' /\ QueuedForTheFirst'
  BY DEF RetryInv, RetryHidesOneFailure, QueuedForTheFirst
<1>2. Untouched => Untouched'
  BY DEF Untouched, Critical
<1>3. TouchedOnce => TouchedOnce'
  BY DEF TouchedOnce, Critical
<1> QED BY <1>1, <1>2, <1>3 DEF RetryInv

(* What a caller in state t may do to the process.                          *)
MayLeave(t) ==
  /\ ~proc.hung /\ NoGarbage
  /\ t.pc # "closing" => Sound
  /\ t.pc # "idle" => t.attempt = 1 /\ t.pc # "backoff"
  /\ t.pc = "closing" => t.after = "spawn"

MayLeaveOnce(t) ==
  /\ t.pc = "backoff" => Sound /\ ~proc.here
  /\ t.pc # "idle" /\ t.attempt = 2 =>
       /\ t.pc # "closing" /\ Sound
       /\ t.pc = "ensure" => ~proc.here

(* The holder of the lock moves on.                                         *)
LEMMA RetryMove ==
  ASSUME TypeOK, LockInv, RetryInv, NEW c \in Callers, Critical(c), NEW t \in CallType,
         call' = [call EXCEPT ![c] = t], UNCHANGED <<faults, cancels>>,
         faults + cancels <= 1 =>
           \A d \in Callers : answered'[d].kind = "gaveup" => answered[d].kind = "gaveup",
         t.pc # "queued",
         faults + cancels = 0 => MayLeave(t)',
         faults + cancels = 1 => MayLeaveOnce(t)'
  PROVE  RetryInv'
<1>1. /\ call'[c] = t
      /\ \A d \in Callers : d # c => call'[d] = call[d] /\ ~Critical(d)
  BY DEF TypeOK, LockInv, Critical
<1>2. RetryHidesOneFailure'
  BY DEF RetryInv, RetryHidesOneFailure
<1>3. QueuedForTheFirst'
  BY <1>1 DEF RetryInv, QueuedForTheFirst
<1>4. MayLeave(t)' => Untouched'
  <2> SUFFICES ASSUME MayLeave(t)' PROVE Untouched'
    OBVIOUS
  <2>1. /\ ~proc'.hung /\ NoGarbage'
        /\ t.pc # "closing" => Sound'
        /\ t.pc # "idle" => t.attempt = 1 /\ t.pc # "backoff"
        /\ t.pc = "closing" => t.after = "spawn"
    BY DEF MayLeave
  <2>2. ASSUME NEW d \in Callers
        PROVE  /\ Critical(d)' => call'[d].attempt = 1 /\ call'[d].pc # "backoff"
               /\ call'[d].pc = "closing" => call'[d].after = "spawn"
    BY ONLY <1>1, <2>1 DEF Critical
  <2> QED BY ONLY <1>1, <2>1, <2>2, c \in Callers DEF Untouched
<1>5. MayLeaveOnce(t)' => TouchedOnce'
  <2> SUFFICES ASSUME MayLeaveOnce(t)', NEW d \in Callers
               PROVE  /\ call'[d].pc = "backoff" => Sound' /\ ~proc'.here
                      /\ Critical(d)' /\ call'[d].attempt = 2 =>
                           /\ call'[d].pc # "closing" /\ Sound'
                           /\ call'[d].pc = "ensure" => ~proc'.here
    BY DEF TouchedOnce
  <2>1. /\ t.pc = "backoff" => Sound' /\ ~proc'.here
        /\ t.pc # "idle" /\ t.attempt = 2 =>
             /\ t.pc # "closing" /\ Sound'
             /\ t.pc = "ensure" => ~proc'.here
    BY DEF MayLeaveOnce
  <2> QED BY ONLY <1>1, <2>1 DEF Critical
<1>6. (faults + cancels = 0 => Untouched') /\ (faults + cancels = 1 => TouchedOnce')
  BY <1>4, <1>5
<1> QED BY ONLY <1>2, <1>3, <1>6, UNCHANGED <<faults, cancels>> DEF RetryInv

(* Only a caller whose process has been hit, by a fault or by a caller that *)
(* was cancelled while it closed it, fails; it has not failed before, and   *)
(* closes the process, for one more attempt.                                *)
LEMMA RetryClose ==
  ASSUME ShapeInv, RetryInv, NEW c \in Callers, Critical(c), call[c].pc # "closing",
         ~Sound,
         NEW after \in After, Close(c, after), UNCHANGED <<faults, cancels, answered>>
  PROVE  RetryInv'
<1>1. call \in [Callers -> CallType] /\ TypeOK /\ LockInv
  BY DEF ShapeInv, TypeOK, CallType
<1> SUFFICES ASSUME NEW t, t = [call[c] EXCEPT !.pc = "closing", !.after = after] PROVE RetryInv'
  OBVIOUS
<1>2. t \in CallType /\ t.pc = "closing" /\ t.after = after /\ t.attempt = call[c].attempt
  <2>1. call[c] \in CallType
    BY <1>1
  <2> QED BY <2>1 DEF CallType, Pc
<1>3. call' = [call EXCEPT ![c] = t]
  BY DEF Close
<1>4. \A d \in Callers : call[d].pc # "closing"
  BY <1>1 DEF LockInv, Critical
<1>5. faults + cancels # 0
  BY <1>4 DEF RetryInv, Untouched
<1>6. faults + cancels = 1 => t.attempt # 2
  BY <1>2 DEF RetryInv, TouchedOnce
<1>7. faults + cancels = 1 => MayLeaveOnce(t)'
  BY <1>2, <1>6 DEF MayLeaveOnce
<1> QED BY <1>1, <1>2, <1>3, <1>5, <1>7, RetryMove

(* While nothing has happened, a holder that is not closing has a sound     *)
(* process.                                                                 *)
LEMMA SoundForHolder ==
  ASSUME LockInv, RetryInv, faults + cancels = 0, NEW c \in Callers, Critical(c),
         call[c].pc # "closing"
  PROVE  Sound /\ call[c].attempt = 1 /\ call[c].pc # "backoff"
<1>1. Untouched
  BY DEF RetryInv
<1>2. \A d \in Callers : call[d].pc # "closing"
  BY DEF LockInv, Critical
<1> QED BY <1>1, <1>2 DEF Untouched

(* It goes on, and the process is as sound as before.                       *)
LEMMA RetryGoto ==
  ASSUME ShapeInv, RetryInv, NEW c \in Callers, Critical(c), call[c].pc # "closing",
         NEW pc \in {"spawn", "ready", "write", "read"}, Goto(c, pc),
         UNCHANGED <<faults, cancels, answered>>, Sound => Sound'
  PROVE  RetryInv'
<1>1. call \in [Callers -> CallType] /\ TypeOK /\ LockInv
  BY DEF ShapeInv, TypeOK, CallType
<1> SUFFICES ASSUME NEW t, t = [call[c] EXCEPT !.pc = pc] PROVE RetryInv'
  OBVIOUS
<1>2. t \in CallType /\ t.pc = pc /\ t.attempt = call[c].attempt
  <2>1. call[c] \in CallType
    BY <1>1
  <2> QED BY <2>1 DEF CallType, Pc
<1>3. call' = [call EXCEPT ![c] = t]
  BY DEF Goto
<1>4. faults + cancels = 0 => MayLeave(t)'
  <2> SUFFICES ASSUME faults + cancels = 0 PROVE MayLeave(t)'
    OBVIOUS
  <2>1. Sound' /\ t.attempt = 1
    BY <1>1, <1>2, SoundForHolder
  <2> QED BY <1>2, <2>1 DEF MayLeave, Sound
<1>5. faults + cancels = 1 => MayLeaveOnce(t)'
  <2> SUFFICES ASSUME faults + cancels = 1 PROVE MayLeaveOnce(t)'
    OBVIOUS
  <2>1. call[c].attempt = 2 => Sound
    BY DEF RetryInv, TouchedOnce
  <2> QED BY <1>2, <2>1 DEF MayLeaveOnce
<1> QED BY <1>1, <1>2, <1>3, <1>4, <1>5, RetryMove

(* It returns, with another answer than that it gave up.                    *)
LEMMA RetryReply ==
  ASSUME ShapeInv, RetryInv, NEW c \in Callers, Critical(c), NEW kind, NEW of,
         Reply(c, kind, of), kind # "gaveup", UNCHANGED <<faults, cancels>>,
         faults + cancels = 0 => Sound'
  PROVE  RetryInv'
<1>1. call \in [Callers -> CallType] /\ TypeOK /\ LockInv
  BY DEF ShapeInv, TypeOK, CallType
<1> SUFFICES ASSUME NEW t, t = [call[c] EXCEPT !.pc = "idle"] PROVE RetryInv'
  OBVIOUS
<1>2. t \in CallType /\ t.pc = "idle"
  <2>1. call[c] \in CallType
    BY <1>1
  <2> QED BY <2>1 DEF CallType, Pc
<1>3. call' = [call EXCEPT ![c] = t]
  BY DEF Reply, Goto
<1>4. \A d \in Callers : answered'[d].kind = "gaveup" => answered[d].kind = "gaveup"
  BY <1>1 DEF Reply, TypeOK
<1>5. faults + cancels = 0 => MayLeave(t)'
  BY <1>2 DEF MayLeave, Sound
<1>6. MayLeaveOnce(t)'
  BY <1>2 DEF MayLeaveOnce
<1> QED BY <1>1, <1>2, <1>3, <1>4, <1>5, <1>6, RetryMove

(* The end of a shutdown.                                                   *)
LEMMA RetryEndClose ==
  ASSUME ShapeInv, RetryInv, NEW c \in Callers, EndClose(c)
  PROVE  RetryInv'
<1>1. call \in [Callers -> CallType] /\ TypeOK /\ LockInv
  BY DEF ShapeInv, TypeOK, CallType
<1>2. Critical(c) /\ call[c].pc = "closing" /\ UNCHANGED <<faults, cancels>>
  BY DEF EndClose, Critical
<1>3. proc' = NoProc
  BY DEF EndClose, Forget
<1>4. Sound' /\ ~proc'.here
  BY <1>3 DEF Sound, NoGarbage, NoProc
<1>5. faults + cancels = 0 => call[c].after = "spawn" /\ call[c].attempt = 1
  BY <1>2 DEF RetryInv, Untouched
<1>6. faults + cancels = 1 => call[c].attempt # 2
  BY <1>2 DEF RetryInv, TouchedOnce
<1>7. CASE call[c].after = "raise" /\ Reply(c, "raised", 0)
  BY <1>2, <1>4, <1>7, RetryReply
<1>8. ASSUME NEW pc \in {"spawn", "backoff"}, Goto(c, pc), UNCHANGED answered,
             pc = "backoff" => call[c].after = "retry"
      PROVE  RetryInv'
  <2> SUFFICES ASSUME NEW t, t = [call[c] EXCEPT !.pc = pc] PROVE RetryInv'
    OBVIOUS
  <2>1. t \in CallType /\ t.pc = pc /\ t.attempt = call[c].attempt
    <3>1. call[c] \in CallType
      BY <1>1
    <3> QED BY <3>1 DEF CallType, Pc
  <2>2. call' = [call EXCEPT ![c] = t]
    BY <1>8 DEF Goto
  <2>3. faults + cancels = 0 => MayLeave(t)'
    BY <1>4, <1>5, <1>8, <2>1 DEF MayLeave, Sound
  <2>4. faults + cancels = 1 => MayLeaveOnce(t)'
    BY <1>4, <1>6, <1>8, <2>1 DEF MayLeaveOnce
  <2> QED BY <1>1, <1>2, <1>8, <2>1, <2>2, <2>3, <2>4, RetryMove
<1>9. CASE call[c].after = "retry" /\ call[c].attempt = 2 /\ Reply(c, "gaveup", 0)
  <2> SUFFICES ASSUME NEW t, t = [call[c] EXCEPT !.pc = "idle"] PROVE RetryInv'
    OBVIOUS
  <2>1. t \in CallType /\ t.pc = "idle"
    <3>1. call[c] \in CallType
      BY <1>1
    <3> QED BY <3>1 DEF CallType, Pc
  <2>2. call' = [call EXCEPT ![c] = t]
    BY <1>9 DEF Reply, Goto
  <2>3. ~(faults + cancels = 0) /\ ~(faults + cancels = 1)
    BY <1>5, <1>6, <1>9
  <2>4. ~(faults + cancels <= 1)
    <3>1. faults \in Nat /\ cancels \in Nat
      BY <1>1 DEF TypeOK
    <3> QED BY ONLY <2>3, <3>1
  <2> QED BY <1>1, <1>2, <2>1, <2>2, <2>3, <2>4, RetryMove
<1> QED BY <1>7, <1>8, <1>9 DEF EndClose

LEMMA RetryEnsure ==
  ASSUME ShapeInv, RetryInv, NEW c \in Callers, Ensure(c)
  PROVE  RetryInv'
<1>1. call \in [Callers -> CallType] /\ TypeOK /\ LockInv
  BY DEF ShapeInv, TypeOK, CallType
<1>2. Critical(c) /\ call[c].pc = "ensure" /\ UNCHANGED <<faults, cancels, answered>>
  BY DEF Ensure, Critical
<1>3. CASE proc.here /\ Close(c, "spawn")
  <2> SUFFICES ASSUME NEW t, t = [call[c] EXCEPT !.pc = "closing", !.after = "spawn"]
               PROVE  RetryInv'
    OBVIOUS
  <2>1. t \in CallType /\ t.pc = "closing" /\ t.after = "spawn" /\ t.attempt = call[c].attempt
    <3>1. call[c] \in CallType
      BY <1>1
    <3> QED BY <3>1 DEF CallType, Pc, After
  <2>2. call' = [call EXCEPT ![c] = t] /\ proc' = [proc EXCEPT !.closed = TRUE]
    BY <1>3 DEF Close
  <2>3. proc'.hung = proc.hung /\ proc'.output = proc.output
    BY <1>1, <2>2 DEF TypeOK
  <2>4. faults + cancels = 0 => MayLeave(t)'
    BY <1>1, <1>2, <2>1, <2>3, SoundForHolder DEF MayLeave, Sound, NoGarbage
  <2>5. faults + cancels = 1 => MayLeaveOnce(t)'
    <3>1. faults + cancels = 1 => call[c].attempt # 2
      BY <1>2, <1>3 DEF RetryInv, TouchedOnce
    <3> QED BY <2>1, <3>1 DEF MayLeaveOnce
  <2> QED BY <1>1, <1>2, <2>1, <2>2, <2>4, <2>5, RetryMove
<1>4. CASE (Goto(c, "write") \/ Goto(c, "spawn")) /\ UNCHANGED proc
  <2>1. Sound => Sound'
    BY <1>4 DEF Sound, NoGarbage
  <2> QED BY <1>2, <1>4, <2>1, RetryGoto
<1> QED BY <1>3, <1>4 DEF Ensure

LEMMA RetryBackoff ==
  ASSUME ShapeInv, RetryInv, NEW c \in Callers, Backoff(c)
  PROVE  RetryInv'
<1>1. call \in [Callers -> CallType] /\ TypeOK /\ LockInv
  BY DEF ShapeInv, TypeOK, CallType
<1>2. /\ Critical(c) /\ call[c].pc = "backoff"
      /\ UNCHANGED <<faults, cancels, answered, proc>>
  BY DEF Backoff, Critical
<1> SUFFICES ASSUME NEW t, t = [call[c] EXCEPT !.pc = "ensure", !.attempt = 2] PROVE RetryInv'
  OBVIOUS
<1>3. t \in CallType /\ t.pc = "ensure"
  <2>1. call[c] \in CallType
    BY <1>1
  <2> QED BY <2>1 DEF CallType, Pc
<1>4. call' = [call EXCEPT ![c] = t]
  BY DEF Backoff
<1>5. faults + cancels # 0
  BY <1>1, <1>2, SoundForHolder
<1>6. Sound => Sound'
  BY <1>2 DEF Sound, NoGarbage
<1>7. faults + cancels = 1 => MayLeaveOnce(t)'
  <2>1. faults + cancels = 1 => Sound' /\ ~proc'.here
    BY <1>2, <1>6 DEF RetryInv, TouchedOnce
  <2> QED BY <1>3, <2>1 DEF MayLeaveOnce
<1> QED BY <1>1, <1>2, <1>3, <1>4, <1>5, <1>7, RetryMove

(* A call begins, or waits no more, with its first attempt.                 *)
LEMMA RetryCall ==
  ASSUME ShapeInv, RetryInv, NEW c \in Callers, NEW s \in Shapes, Call(c, s)
  PROVE  RetryInv'
<1>1. call \in [Callers -> CallType]
  BY DEF ShapeInv, TypeOK, CallType
<1>2. /\ call'[c].pc = "queued" /\ call'[c].attempt = 1
      /\ \A d \in Callers : d # c => call'[d] = call[d]
      /\ call[c].pc = "idle"
  <2>1. call[c] \in CallType
    BY <1>1
  <2> QED BY <1>1, <2>1 DEF Call, CallType
<1>3. UNCHANGED <<proc, answered, faults, cancels>>
  BY DEF Call
<1>4. Sound' = Sound /\ NoGarbage' = NoGarbage
  BY <1>3 DEF Sound, NoGarbage
<1>5. Untouched => Untouched'
  BY <1>2, <1>3, <1>4 DEF Untouched, Critical
<1>6. TouchedOnce => TouchedOnce'
  BY <1>2, <1>3, <1>4 DEF TouchedOnce, Critical
<1>7. QueuedForTheFirst' /\ RetryHidesOneFailure'
  BY <1>2, <1>3 DEF RetryInv, QueuedForTheFirst, RetryHidesOneFailure
<1> QED BY <1>3, <1>5, <1>6, <1>7 DEF RetryInv

LEMMA RetryAcquire ==
  ASSUME ShapeInv, RetryInv, NEW c \in Callers, Acquire(c)
  PROVE  RetryInv'
<1>1. call \in [Callers -> CallType]
  BY DEF ShapeInv, TypeOK, CallType
<1>2. /\ call'[c].pc = "ensure" /\ call'[c].attempt = 1
      /\ \A d \in Callers : d # c => call'[d] = call[d]
      /\ call[c].pc = "queued"
  <2>1. call[c] \in CallType /\ (call[c].pc = "queued" => call[c].attempt = 1)
    BY <1>1 DEF RetryInv, QueuedForTheFirst
  <2> QED BY <1>1, <2>1 DEF Acquire, Goto, CallType
<1>3. UNCHANGED <<proc, answered, faults, cancels>>
  BY DEF Acquire
<1>4. Sound' = Sound /\ NoGarbage' = NoGarbage
  BY <1>3 DEF Sound, NoGarbage
<1>5. Untouched => Untouched'
  BY <1>2, <1>3, <1>4 DEF Untouched, Critical
<1>6. TouchedOnce => TouchedOnce'
  BY <1>2, <1>3, <1>4 DEF TouchedOnce, Critical
<1>7. QueuedForTheFirst' /\ RetryHidesOneFailure'
  BY <1>2, <1>3 DEF RetryInv, QueuedForTheFirst, RetryHidesOneFailure
<1> QED BY <1>3, <1>5, <1>6, <1>7 DEF RetryInv

(* The process is used, and stays sound.                                    *)
LEMMA RetryUse ==
  ASSUME ShapeInv, RetryInv, NEW c \in Callers, Spawn(c) \/ Ready(c) \/ Write(c)
  PROVE  RetryInv'
<1>1. Critical(c) /\ call[c].pc # "closing" /\ UNCHANGED <<faults, cancels, answered>>
  BY DEF Spawn, Ready, Write, Critical
<1>2. Sound => Sound'
  <2>1. CASE Spawn(c)
    BY <2>1 DEF Spawn, Sound, NoGarbage, NewProc, NoProc
  <2>2. CASE Ready(c)
    BY <2>2 DEF Ready, Sound, NoGarbage
  <2>3. CASE Write(c)
    <3>1. UNCHANGED <<proc.here, proc.alive, proc.hung, proc.closed, proc.output>>
      BY <2>3 DEF Write, ShapeInv, TypeOK
    <3> QED BY <3>1 DEF Sound, NoGarbage
  <2> QED BY <2>1, <2>2, <2>3
<1> QED BY <1>1, <1>2, RetryGoto DEF Spawn, Ready, Write

LEMMA RetryRead ==
  ASSUME ShapeInv, RetryInv, NEW c \in Callers, Read(c)
  PROVE  RetryInv'
<1>1. Critical(c) /\ call[c].pc # "closing" /\ UNCHANGED <<faults, cancels>>
  BY DEF Read, Critical
<1>2. LockInv /\ proc \in ProcType
  BY DEF ShapeInv, TypeOK, ProcType, AnswerType
<1>3. Sound => Sound'
  <2>1. /\ UNCHANGED <<proc.here, proc.alive, proc.hung, proc.closed>>
        /\ proc'.output = Tail(proc.output) /\ proc.output # <<>>
        /\ proc.output \in Seq(AnswerType)
    BY <1>2 DEF Read, ProcType
  <2>2. \A i \in DOMAIN Tail(proc.output) :
          i + 1 \in DOMAIN proc.output /\ Tail(proc.output)[i] = proc.output[i + 1]
    BY <2>1
  <2>3. NoGarbage => NoGarbage'
    BY <2>1, <2>2 DEF NoGarbage
  <2> QED BY <2>1, <2>3 DEF Sound
<1>4. faults + cancels = 0 => Sound'
  BY <1>1, <1>2, <1>3, SoundForHolder
<1> QED BY <1>1, <1>4, RetryReply DEF Read

LEMMA RetryFails ==
  ASSUME ShapeInv, RetryInv, NEW c \in Callers,
         ReadyTimeout(c) \/ WriteError(c) \/ ReadGarbage(c) \/ ReadError(c)
  PROVE  RetryInv'
<1>1. /\ Critical(c) /\ call[c].pc # "closing" /\ UNCHANGED <<faults, cancels, answered>>
      /\ Close(c, "raise") \/ Close(c, "retry")
  BY DEF ReadyTimeout, WriteError, ReadGarbage, ReadError, Fails, Critical
<1>2. proc \in ProcType
  BY DEF ShapeInv, TypeOK, ProcType, AnswerType
<1>3. proc.here
  BY DEF ShapeInv, ReadyTimeout, WriteError, ReadGarbage, ReadError
<1>4. ~Sound
  <2>1. CASE ReadyTimeout(c)
    BY <2>1 DEF ReadyTimeout, Sound
  <2>2. CASE WriteError(c)
    BY <1>3, <2>2 DEF WriteError, Sound
  <2>3. CASE ReadGarbage(c)
    <3>1. proc.output \in Seq(AnswerType) /\ proc.output # <<>>
          /\ Head(proc.output).kind = "garbage"
      BY <1>2, <2>3 DEF ReadGarbage, ProcType
    <3>2. 1 \in DOMAIN proc.output /\ proc.output[1] = Head(proc.output)
      BY <3>1
    <3> QED BY <3>1, <3>2 DEF Sound, NoGarbage
  <2>4. CASE ReadError(c)
    BY <1>3, <2>4 DEF ReadError, Sound
  <2> QED BY <2>1, <2>2, <2>3, <2>4
<1>5. "raise" \in After /\ "retry" \in After
  BY DEF After
<1> QED BY <1>1, <1>4, <1>5, RetryClose

LEMMA RetrySolver ==
  ASSUME ShapeInv, RetryInv, SolveJob \/ Recover \/ Exit
  PROVE  RetryInv'
<1>1. TypeOK /\ proc \in ProcType /\ UNCHANGED <<call, answered, faults, cancels>>
  BY DEF ShapeInv, TypeOK, ProcType, AnswerType, SolveJob, Solve, Recover, Exit
<1>2. ASSUME NEW kind \in {"record", "error"}, Solve(kind)
      PROVE  /\ UNCHANGED <<proc.here, proc.alive, proc.hung, proc.closed>>
             /\ NoGarbage => NoGarbage'
  <2> DEFINE a == [job |-> Head(proc.input), kind |-> kind]
  <2>1. /\ UNCHANGED <<proc.here, proc.alive, proc.hung, proc.closed>>
        /\ proc'.output = Append(proc.output, a)
        /\ proc.output \in Seq(AnswerType)
    BY <1>1, <1>2 DEF Solve, ProcType
  <2>2. a.kind # "garbage"
    OBVIOUS
  <2> HIDE DEF a
  <2>3. \A i \in DOMAIN Append(proc.output, a) :
          \/ i \in DOMAIN proc.output /\ Append(proc.output, a)[i] = proc.output[i]
          \/ Append(proc.output, a)[i] = a
    BY <2>1
  <2> QED BY <2>1, <2>2, <2>3 DEF NoGarbage
<1>3. CASE SolveJob
  <2>1. /\ UNCHANGED <<proc.here, proc.alive, proc.hung, proc.closed>>
        /\ NoGarbage => NoGarbage'
    BY <1>2, <1>3 DEF SolveJob
  <2>2. Sound => Sound'
    BY <2>1 DEF Sound
  <2> QED BY <1>1, <2>1, <2>2, RetryProcess
<1>4. CASE Recover \/ Exit
  <2>1. /\ UNCHANGED <<proc.here, proc.closed, proc.output>>
        /\ ~proc.hung => ~proc'.hung
        /\ ~proc.closed => proc'.alive = proc.alive
    BY <1>1, <1>4 DEF Recover, Exit, ProcType
  <2>2. NoGarbage => NoGarbage'
    BY <2>1 DEF NoGarbage
  <2>3. Sound => Sound'
    BY <2>1, <2>2 DEF Sound
  <2> QED BY <1>1, <2>1, <2>2, <2>3, RetryProcess
<1> QED BY <1>3, <1>4

LEMMA RetryFault ==
  ASSUME ShapeInv, TypeOK', RetryInv,
         WriteGarbage \/ Die \/ Hang \/ \E c \in Callers : SpawnError(c) \/ Cancel(c)
  PROVE  RetryInv'
<1>1. TypeOK /\ call \in [Callers -> CallType] /\ faults \in Nat /\ cancels \in Nat
  BY DEF ShapeInv, TypeOK, CallType
<1>2. faults' + cancels' = faults + cancels + 1
  <2>1. \/ faults' = faults + 1 /\ cancels' = cancels
        \/ faults' = faults /\ cancels' = cancels + 1
    BY DEF WriteGarbage, Solve, Die, Hang, SpawnError, Cancel, Fault
  <2> QED BY ONLY <1>1, <2>1
<1>3. CASE WriteGarbage \/ Die \/ Hang
  <2>1. UNCHANGED <<call, answered>>
    BY <1>3 DEF WriteGarbage, Solve, Die, Hang
  <2> QED BY <1>1, <1>2, <2>1, RetryHappen
<1>4. ASSUME NEW c \in Callers, NEW kind \in {"raised", "cancelled"}, Goto(c, "idle"),
             answered' = [answered EXCEPT ![c] = [asked |-> call[c].id, kind |-> kind, of |-> 0]]
      PROVE  RetryInv'
  <2>1. \A d \in Callers : call'[d] = call[d] \/ call'[d].pc = "idle"
    <3>1. call[c] \in CallType
      BY <1>1
    <3> QED BY <1>1, <1>4, <3>1 DEF Goto, CallType
  <2>2. \A d \in Callers : answered'[d].kind = "gaveup" => answered[d].kind = "gaveup"
    BY <1>1, <1>4 DEF TypeOK
  <2> QED BY <1>1, <1>2, <2>1, <2>2, RetryHappen
<1> QED BY <1>3, <1>4 DEF SpawnError, Cancel, Reply

LEMMA RetryNext == ShapeInv /\ RetryInv /\ [Next]_vars => RetryInv'
<1> SUFFICES ASSUME ShapeInv, RetryInv, [Next]_vars PROVE RetryInv'
  OBVIOUS
<1>1. TypeOK'
  BY TypeNext DEF ShapeInv
<1>2. ASSUME NEW c \in Callers, Step(c) PROVE RetryInv'
  BY <1>2, RetryAcquire, RetryEnsure, RetryUse, RetryRead, RetryFails, RetryEndClose, RetryBackoff
     DEF Step
<1>3. CASE UNCHANGED vars
  <2>1. RetryInv' = RetryInv
    BY <1>3 DEF vars, RetryInv, Untouched, TouchedOnce, QueuedForTheFirst,
                RetryHidesOneFailure, Sound, NoGarbage, Critical
  <2> QED BY <2>1
<1> QED BY <1>1, <1>2, <1>3, RetryCall, RetryFault, RetrySolver DEF Next

LEMMA RetryInit == Init => RetryInv
<1> SUFFICES ASSUME Init PROVE RetryInv
  OBVIOUS
<1>1. Sound /\ NoGarbage
  BY DEF Init, Sound, NoGarbage, NoProc
<1>2. \A c \in Callers : call[c].pc = "idle" /\ answered[c].kind = "none"
  BY DEF Init
<1> QED BY <1>1, <1>2 DEF RetryInv, Untouched, TouchedOnce, QueuedForTheFirst,
                           RetryHidesOneFailure, Sound, Critical

\* One failure of the solver, or one cancellation, never makes a call give up,
\* wherever it strikes, with any number of callers and of calls: the attempt that
\* fails is always the first, and the second one starts a process of its own.
THEOREM OneRetryIsEnough == Spec => []RetryHidesOneFailure
<1>1. RetryInv => RetryHidesOneFailure
  BY DEF RetryInv
<1> QED BY <1>1, ShapeInit, ShapeNext, RetryInit, RetryNext, PTL DEF Spec
=============================================================================
