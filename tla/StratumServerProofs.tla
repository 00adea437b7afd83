------------------------ MODULE StratumServerProofs ------------------------
(***************************************************************************)
(* Proofs about StratumServer, for any sessions and texts and any number   *)
(* of templates, connections, submissions and failures.                    *)
(***************************************************************************)
EXTENDS StratumServer, TLAPS

LEMMA TaskFacts ==
  /\ \A t \in Tasks : t[1] \in Sessions /\ t[2] \in {"run", "notify"} /\ t = <<t[1], t[2]>>
  /\ \A s \in Sessions : <<s, "run">> \in Tasks /\ <<s, "notify">> \in Tasks
BY DEF Tasks

LEMMA KeyFacts ==
  \A w \in Keys : w[1] \in Jobs /\ w[2] \in Texts /\ w = <<w[1], w[2]>>
BY DEF Keys

(***************************************************************************)
(* Types.                                                                  *)
(***************************************************************************)
LEMMA FreshTyped ==
  NoReply \in [refusal : Refusal, of : Keys \cup {NoWork}] /\ NoCredits \in [Keys -> Nat]
<1>1. NoCredits \in [Keys -> Nat]
  BY DEF NoCredits
<1> QED
  BY <1>1 DEF NoReply, Refusal

LEMMA TypeInit == Init => TypeOK
<1> SUFFICES ASSUME Init PROVE TypeOK
  OBVIOUS
<1>1. template \in Jobs
  BY StratumAssumption DEF Init, Jobs
<1>2. credits \in [Sessions -> [Keys -> Nat]]
  BY FreshTyped DEF Init
<1>3. reply \in [Sessions -> [refusal : Refusal, of : Keys \cup {NoWork}]]
  BY FreshTyped DEF Init
<1> QED
  BY <1>1, <1>2, <1>3 DEF Init, TypeOK

LEMMA TypeEnter ==
  ASSUME TypeOK, NEW t \in Tasks, Enter(t)
  PROVE  line' \subseteq Tasks /\ ahead' \in [Tasks -> SUBSET Tasks]
BY DEF TypeOK, Enter

LEMMA TypeLeave ==
  ASSUME TypeOK, NEW ts, Leave(ts)
  PROVE  /\ line' \subseteq Tasks /\ ahead' \in [Tasks -> SUBSET Tasks]
         /\ got' \in [Tasks -> Jobs \cup {NoJob}]
BY DEF TypeOK, Leave

LEMMA TypeReturn ==
  ASSUME TypeOK, NEW t \in Tasks, NEW job \in Jobs, Return(t, job)
  PROVE  /\ run' \in [Sessions -> {"off", "reading", "job", "validate", "block"}]
         /\ notify' \in [Sessions -> {"off", "sleep", "job"}]
         /\ told' \in [Sessions -> SUBSET Jobs]
         /\ last' \in [Sessions -> Jobs \cup {NoJob}]
         /\ UNCHANGED <<authorized, submitted, work, credits, reply>>
<1> DEFINE s == t[1]
<1>1. s \in Sessions
  BY TaskFacts
<1>2. run' \in [Sessions -> {"off", "reading", "job", "validate", "block"}]
  BY <1>1 DEF TypeOK, Return
<1>3. notify' \in [Sessions -> {"off", "sleep", "job"}]
  BY <1>1 DEF TypeOK, Return
<1>4. Tell(s, job) \/ UNCHANGED <<told, last>>
  BY DEF Return
<1>5. told' \in [Sessions -> SUBSET Jobs]
  <2>1. told[s] \cup {job} \in SUBSET Jobs
    BY <1>1 DEF TypeOK
  <2> QED
    BY <1>1, <1>4, <2>1 DEF TypeOK, Tell
<1>6. last' \in [Sessions -> Jobs \cup {NoJob}]
  BY <1>1, <1>4 DEF TypeOK, Tell
<1>7. UNCHANGED <<authorized, submitted, work, credits, reply>>
  BY DEF Return
<1> QED
  BY <1>2, <1>3, <1>5, <1>6, <1>7

LEMMA TypeEnd ==
  ASSUME TypeOK, NEW s \in Sessions, EndSession(s)
  PROVE  /\ run' \in [Sessions -> {"off", "reading", "job", "validate", "block"}]
         /\ notify' \in [Sessions -> {"off", "sleep", "job"}]
BY DEF TypeOK, EndSession

LEMMA TypeNext == TypeOK /\ [Next]_vars => TypeOK'
<1> SUFFICES ASSUME TypeOK, [Next]_vars PROVE TypeOK'
  OBVIOUS
<1>1. ASSUME NEW s \in Sessions, Connect(s) PROVE TypeOK'
  BY <1>1 DEF Connect, TypeOK, jobVars, NoReply, NoCredits, Refusal
<1>2. ASSUME NEW s \in Sessions, Disconnect(s) PROVE TypeOK'
  <2>1. Leave({s} \X {"run", "notify"}) /\ EndSession(s)
    BY <1>2 DEF Disconnect, EndSession
  <2> QED
    BY <1>2, <2>1, TypeLeave, TypeEnd DEF Disconnect, TypeOK, sessionVars, bounds
<1>3. ASSUME NEW s \in Sessions, Authorize(s) PROVE TypeOK'
  <2>1. line' \subseteq Tasks /\ ahead' \in [Tasks -> SUBSET Tasks]
    BY <1>3, TaskFacts, TypeEnter DEF Authorize
  <2> QED
    BY <1>3, <2>1 DEF Authorize, TypeOK, bounds
<1>4. ASSUME NEW s \in Sessions, NEW w \in Keys, Submit(s, w) PROVE TypeOK'
  <2>1. submitted' \in [Sessions -> SUBSET Keys]
    BY <1>4 DEF Submit, Remember, TypeOK
  <2>2. reply' \in [Sessions -> [refusal : Refusal, of : Keys \cup {NoWork}]]
    <3>1. w \in Keys \cup {NoWork} /\ {"duplicate", "stale", "bad"} \subseteq Refusal
      BY <1>4 DEF Refusal
    <3>2. reply' = reply \/ \E why \in {"duplicate", "stale", "bad"} : Refuse(s, why, w)
      BY <1>4 DEF Submit
    <3> QED
      BY <3>1, <3>2 DEF Refuse, TypeOK
  <2>3. run' \in [Sessions -> {"off", "reading", "job", "validate", "block"}]
    BY <1>4 DEF Submit, TypeOK
  <2>4. work' \in [Sessions -> Keys \cup {NoWork}]
    BY <1>4 DEF Submit, TypeOK
  <2> QED
    BY <1>4, <2>1, <2>2, <2>3, <2>4 DEF Submit, TypeOK, jobVars
<1>5. ASSUME NEW s \in Sessions, Accept(s) PROVE TypeOK'
  <2>1. credits' \in [Sessions -> [Keys -> Nat]]
    <3> DEFINE c == [credits[s] EXCEPT ![work[s]] = @ + 1]
    <3>1. credits[s] \in [Keys -> Nat]
      BY DEF TypeOK
    <3>2. ASSUME NEW w \in Keys PROVE c[w] \in Nat
      <4>1. credits[s][w] \in Nat
        BY <3>1
      <4> QED
        BY <3>1, <4>1
    <3>3. c \in [Keys -> Nat]
      BY <3>1, <3>2
    <3>4. credits' = [credits EXCEPT ![s] = c]
      BY <1>5 DEF Accept
    <3> HIDE DEF c
    <3> QED
      BY <3>3, <3>4 DEF TypeOK
  <2> QED
    BY <1>5, <2>1 DEF Accept, TypeOK, jobVars, bounds
<1>6. ASSUME NEW s \in Sessions, Reject(s) PROVE TypeOK'
  BY <1>6 DEF Reject, Fault, Refuse, TypeOK, jobVars, Refusal
<1>7. ASSUME NEW s \in Sessions, BlockDone(s) PROVE TypeOK'
  BY <1>7 DEF BlockDone, TypeOK, sessionVars, jobVars, bounds
<1>8. ASSUME NEW s \in Sessions, Wake(s) PROVE TypeOK'
  <2>1. line' \subseteq Tasks /\ ahead' \in [Tasks -> SUBSET Tasks]
    BY <1>8, TaskFacts, TypeEnter DEF Wake
  <2> QED
    BY <1>8, <2>1 DEF Wake, TypeOK, sessionVars, bounds
<1>9. ASSUME NEW t \in Tasks, ReturnCached(t) PROVE TypeOK'
  <2>1. current \in Jobs
    BY <1>9 DEF ReturnCached, Cached, TypeOK
  <2>2. Leave({t})
    BY <1>9 DEF ReturnCached, Return
  <2> QED
    BY <1>9, <2>1, <2>2, TypeReturn, TypeLeave DEF ReturnCached, TypeOK, bounds
<1>10. ASSUME NEW t \in Tasks, Fetch(t) PROVE TypeOK'
  BY <1>10 DEF Fetch, TypeOK, sessionVars, bounds
<1>11. ASSUME NEW t \in Tasks, ReturnFetched(t) PROVE TypeOK'
  <2>1. got[t] \in Jobs
    BY <1>11 DEF ReturnFetched, TypeOK
  <2>2. Leave({t})
    BY <1>11 DEF ReturnFetched, Return
  <2> QED
    BY <1>11, <2>1, <2>2, TypeReturn, TypeLeave DEF ReturnFetched, TypeOK, bounds
<1>12. ASSUME NEW t \in Tasks, FetchError(t) PROVE TypeOK'
  <2>1. /\ line' \subseteq Tasks /\ ahead' \in [Tasks -> SUBSET Tasks]
        /\ got' \in [Tasks -> Jobs \cup {NoJob}]
    BY <1>12, TypeLeave DEF FetchError, EndSession
  <2>2. /\ run' \in [Sessions -> {"off", "reading", "job", "validate", "block"}]
        /\ notify' \in [Sessions -> {"off", "sleep", "job"}]
    BY <1>12, TaskFacts, TypeEnd DEF FetchError, TypeOK
  <2> QED
    BY <1>12, <2>1, <2>2 DEF FetchError, Fault, TypeOK, sessionVars
<1>13. CASE Age \/ NewTemplate
  <2>1. template' \in Jobs
    BY <1>13, StratumAssumption DEF Age, NewTemplate, TypeOK, Jobs
  <2> QED
    BY <1>13, <2>1 DEF Age, NewTemplate, TypeOK, sessionVars, bounds
<1>14. CASE UNCHANGED vars
  BY <1>14 DEF vars, TypeOK, sessionVars, jobVars, bounds
<1> QED
  BY <1>1, <1>2, <1>3, <1>4, <1>5, <1>6, <1>7, <1>8, <1>9, <1>10, <1>11, <1>12, <1>13,
     <1>14 DEF Next, GetJob

\* Every reachable state is well-typed: sessions are told, and submit, jobs of the
\* node only, and the lock is held and waited for by their tasks only.
THEOREM TypeCorrect == Spec => []TypeOK
BY TypeInit, TypeNext, PTL DEF Spec

(***************************************************************************)
(* The lock: one task at a time is served.                                 *)
(***************************************************************************)
LEMMA OneHead ==
  ASSUME Ordered, NEW t, NEW u, Holds(t), Holds(u)
  PROVE  t = u
BY DEF Ordered, Holds

LEMMA EnterOrdered ==
  ASSUME TypeOK, Ordered, NEW t \in Tasks, t \notin line, Enter(t)
  PROVE  Ordered'
<1>1. \A u \in Tasks : ahead'[u] = IF u = t THEN line ELSE ahead[u]
  BY DEF TypeOK, Enter
<1>2. line' = line \cup {t} /\ line \subseteq Tasks
  BY DEF TypeOK, Enter
<1> QED
  BY <1>1, <1>2 DEF Ordered

LEMMA LeaveOrdered ==
  ASSUME TypeOK, Ordered, NEW ts, Leave(ts)
  PROVE  Ordered'
<1>1. \A u \in Tasks : ahead'[u] = IF u \in ts THEN {} ELSE ahead[u] \ ts
  BY DEF Leave
<1>2. line' = line \ ts /\ line \subseteq Tasks
  BY DEF TypeOK, Leave
<1> QED
  BY <1>1, <1>2 DEF Ordered

\* A task that leaves the line goes on: its session is still there.
LEMMA LeaveSeated ==
  ASSUME TypeOK, Seated, NEW t \in Tasks, t \in line, line' = line \ {t},
         \/ /\ t[2] = "run" /\ run' = [run EXCEPT ![t[1]] = "reading"]
            /\ UNCHANGED notify
         \/ /\ t[2] = "notify" /\ notify' = [notify EXCEPT ![t[1]] = "sleep"]
            /\ UNCHANGED run
  PROVE  Seated'
<1>1. t[1] \in Sessions /\ t = <<t[1], t[2]>>
  BY TaskFacts
<1>2. CASE t[2] = "run" /\ run' = [run EXCEPT ![t[1]] = "reading"] /\ notify' = notify
  <2>1. \A u \in Sessions : run'[u] = IF u = t[1] THEN "reading" ELSE run[u]
    BY <1>2 DEF TypeOK
  <2>2. t = <<t[1], "run">> /\ run[t[1]] = "job"
    BY <1>1, <1>2 DEF Seated
  <2>3. \A u \in Sessions : /\ <<u, "run">> = t <=> u = t[1]
                            /\ <<u, "notify">> # t
    BY <1>1, <2>2
  <2>4. \A u \in Sessions : /\ <<u, "run">> \in line' <=> <<u, "run">> \in line /\ u # t[1]
                            /\ <<u, "notify">> \in line' <=> <<u, "notify">> \in line
    BY <2>3
  <2>5. ASSUME NEW u \in Sessions
        PROVE  /\ <<u, "run">> \in line' <=> run'[u] = "job"
               /\ <<u, "notify">> \in line' <=> notify'[u] = "job"
               /\ run'[u] = "off" => notify'[u] = "off"
    <3>1. /\ <<u, "run">> \in line <=> run[u] = "job"
          /\ <<u, "notify">> \in line <=> notify[u] = "job"
          /\ run[u] = "off" => notify[u] = "off"
      BY DEF Seated
    <3> QED
      BY <1>2, <2>1, <2>2, <2>4, <3>1
  <2> QED
    BY <2>5 DEF Seated
<1>3. CASE t[2] = "notify" /\ notify' = [notify EXCEPT ![t[1]] = "sleep"] /\ run' = run
  <2>1. \A u \in Sessions : notify'[u] = IF u = t[1] THEN "sleep" ELSE notify[u]
    BY <1>3 DEF TypeOK
  <2>2. t = <<t[1], "notify">> /\ notify[t[1]] = "job" /\ run[t[1]] # "off"
    BY <1>1, <1>3 DEF Seated
  <2>3. \A u \in Sessions : /\ <<u, "notify">> = t <=> u = t[1]
                            /\ <<u, "run">> # t
    BY <1>1, <2>2
  <2>4. \A u \in Sessions : /\ <<u, "notify">> \in line' <=> <<u, "notify">> \in line /\ u # t[1]
                            /\ <<u, "run">> \in line' <=> <<u, "run">> \in line
    BY <2>3
  <2>5. ASSUME NEW u \in Sessions
        PROVE  /\ <<u, "run">> \in line' <=> run'[u] = "job"
               /\ <<u, "notify">> \in line' <=> notify'[u] = "job"
               /\ run'[u] = "off" => notify'[u] = "off"
    <3>1. /\ <<u, "run">> \in line <=> run[u] = "job"
          /\ <<u, "notify">> \in line <=> notify[u] = "job"
          /\ run[u] = "off" => notify[u] = "off"
      BY DEF Seated
    <3> QED
      BY <1>3, <2>1, <2>2, <2>4, <3>1
  <2> QED
    BY <2>5 DEF Seated
<1> QED
  BY <1>2, <1>3

LEMMA ReturnSeated ==
  ASSUME TypeOK, Seated, NEW t \in Tasks, NEW job, Holds(t), Return(t, job)
  PROVE  Seated'
<1>1. t \in line /\ line' = line \ {t}
  BY DEF Holds, Return, Leave
<1>2. \/ /\ t[2] = "run" /\ run' = [run EXCEPT ![t[1]] = "reading"]
         /\ UNCHANGED notify
      \/ /\ t[2] = "notify" /\ notify' = [notify EXCEPT ![t[1]] = "sleep"]
         /\ UNCHANGED run
  BY DEF Return
<1> QED
  BY <1>1, <1>2, LeaveSeated

LEMMA EndSeated ==
  ASSUME TypeOK, Seated, NEW s \in Sessions, EndSession(s)
  PROVE  Seated'
<1>1. line' = line \ ({s} \X {"run", "notify"})
  BY DEF EndSession, Leave
<1>2. /\ \A u \in Sessions : run'[u] = IF u = s THEN "off" ELSE run[u]
      /\ \A u \in Sessions : notify'[u] = IF u = s THEN "off" ELSE notify[u]
  BY DEF EndSession, TypeOK
<1> QED
  BY <1>1, <1>2 DEF Seated

LEMMA LineInit == Init => LineInv
BY DEF Init, LineInv, Seated, Ordered

LEMMA LineNext == TypeOK /\ LineInv /\ [Next]_vars => LineInv'
<1> SUFFICES ASSUME TypeOK, LineInv, [Next]_vars PROVE LineInv'
  OBVIOUS
<1>a. Seated /\ Ordered
  BY DEF LineInv
<1>1. ASSUME NEW s \in Sessions, Connect(s) PROVE LineInv'
  <2>1. Ordered'
    BY <1>1, <1>a DEF Connect, Ordered, jobVars
  <2>2. run[s] = "off" /\ notify[s] = "off" /\ line' = line
    BY <1>1, <1>a DEF Connect, Seated, jobVars
  <2>3. /\ \A u \in Sessions : run'[u] = IF u = s THEN "reading" ELSE run[u]
        /\ \A u \in Sessions : notify'[u] = IF u = s THEN "sleep" ELSE notify[u]
    BY <1>1 DEF Connect, TypeOK
  <2>4. Seated'
    BY <1>a, <2>2, <2>3 DEF Seated
  <2> QED
    BY <2>1, <2>4 DEF LineInv
<1>2. ASSUME NEW s \in Sessions, Disconnect(s) PROVE LineInv'
  BY <1>2, <1>a, LeaveOrdered, EndSeated DEF Disconnect, EndSession, LineInv
<1>3. ASSUME NEW s \in Sessions, Authorize(s) PROVE LineInv'
  <2>1. <<s, "run">> \notin line /\ <<s, "run">> \in Tasks
    BY <1>3, <1>a, TaskFacts DEF Authorize, Seated
  <2>2. Ordered'
    BY <1>3, <1>a, <2>1, EnterOrdered DEF Authorize
  <2>3. Seated'
    BY <1>3, <1>a DEF Authorize, Enter, Seated, TypeOK
  <2> QED
    BY <2>2, <2>3 DEF LineInv
<1>4. ASSUME NEW s \in Sessions, NEW w \in Keys, Submit(s, w) PROVE LineInv'
  <2>1. UNCHANGED <<line, ahead, notify>>
    BY <1>4 DEF Submit, jobVars
  <2>2. run[s] \notin {"off", "job"} /\ run'[s] \notin {"off", "job"}
    BY <1>4 DEF Submit, TypeOK
  <2>3. \A u \in Sessions : u # s => run'[u] = run[u]
    BY <1>4 DEF Submit, TypeOK
  <2> QED
    BY <1>a, <2>1, <2>2, <2>3 DEF LineInv, Seated, Ordered
<1>5. ASSUME NEW s \in Sessions, Accept(s) PROVE LineInv'
  <2>1. UNCHANGED <<line, ahead, notify>>
    BY <1>5 DEF Accept, jobVars
  <2>2. run[s] \notin {"off", "job"} /\ run'[s] \notin {"off", "job"}
    BY <1>5 DEF Accept, TypeOK
  <2>3. \A u \in Sessions : u # s => run'[u] = run[u]
    BY <1>5 DEF Accept, TypeOK
  <2> QED
    BY <1>a, <2>1, <2>2, <2>3 DEF LineInv, Seated, Ordered
<1>6. ASSUME NEW s \in Sessions, Reject(s) PROVE LineInv'
  <2>1. UNCHANGED <<line, ahead, notify>>
    BY <1>6 DEF Reject, jobVars
  <2>2. run[s] \notin {"off", "job"} /\ run'[s] \notin {"off", "job"}
    BY <1>6 DEF Reject, TypeOK
  <2>3. \A u \in Sessions : u # s => run'[u] = run[u]
    BY <1>6 DEF Reject, TypeOK
  <2> QED
    BY <1>a, <2>1, <2>2, <2>3 DEF LineInv, Seated, Ordered
<1>7. ASSUME NEW s \in Sessions, BlockDone(s) PROVE LineInv'
  <2>1. UNCHANGED <<line, ahead, notify>>
    BY <1>7 DEF BlockDone, jobVars
  <2>2. run[s] \notin {"off", "job"} /\ run'[s] \notin {"off", "job"}
    BY <1>7 DEF BlockDone, TypeOK
  <2>3. \A u \in Sessions : u # s => run'[u] = run[u]
    BY <1>7 DEF BlockDone, TypeOK
  <2> QED
    BY <1>a, <2>1, <2>2, <2>3 DEF LineInv, Seated, Ordered
<1>8. ASSUME NEW s \in Sessions, Wake(s) PROVE LineInv'
  <2>1. <<s, "notify">> \notin line /\ <<s, "notify">> \in Tasks
    BY <1>8, <1>a, TaskFacts DEF Wake, Seated
  <2>2. Ordered'
    BY <1>8, <1>a, <2>1, EnterOrdered DEF Wake
  <2>3. Seated'
    BY <1>8, <1>a DEF Wake, Enter, Seated, TypeOK
  <2> QED
    BY <2>2, <2>3 DEF LineInv
<1>9. ASSUME NEW t \in Tasks, ReturnCached(t) PROVE LineInv'
  <2>1. Holds(t) /\ Return(t, current) /\ Leave({t})
    BY <1>9 DEF ReturnCached, Return
  <2> QED
    BY <1>a, <2>1, LeaveOrdered, ReturnSeated DEF LineInv
<1>10. ASSUME NEW t \in Tasks, Fetch(t) PROVE LineInv'
  BY <1>10, <1>a DEF Fetch, LineInv, Seated, Ordered
<1>11. ASSUME NEW t \in Tasks, ReturnFetched(t) PROVE LineInv'
  <2>1. Holds(t) /\ Return(t, got[t]) /\ Leave({t})
    BY <1>11 DEF ReturnFetched, Return
  <2> QED
    BY <1>a, <2>1, LeaveOrdered, ReturnSeated DEF LineInv
<1>12. ASSUME NEW t \in Tasks, FetchError(t) PROVE LineInv'
  <2>1. t[1] \in Sessions /\ t = <<t[1], t[2]>>
    BY TaskFacts
  <2>2. CASE EndSession(t[1])
    BY <1>a, <2>1, <2>2, LeaveOrdered, EndSeated DEF EndSession, LineInv
  <2>3. CASE /\ t[2] = "notify" /\ notify' = [notify EXCEPT ![t[1]] = "sleep"]
             /\ Leave({t}) /\ UNCHANGED run
    <3>1. Ordered'
      BY <1>a, <2>3, LeaveOrdered
    <3>2. t \in line /\ line' = line \ {t}
      BY <1>12, <2>3 DEF FetchError, Holds, Leave
    <3>3. Seated'
      BY <1>a, <2>3, <3>2, LeaveSeated
    <3> QED
      BY <3>1, <3>3 DEF LineInv
  <2> QED
    BY <1>12, <2>2, <2>3 DEF FetchError
<1>13. CASE Age \/ NewTemplate
  BY <1>13, <1>a DEF Age, NewTemplate, LineInv, Seated, Ordered
<1>14. CASE UNCHANGED vars
  BY <1>14, <1>a DEF vars, jobVars, LineInv, Seated, Ordered
<1> QED
  BY <1>1, <1>2, <1>3, <1>4, <1>5, <1>6, <1>7, <1>8, <1>9, <1>10, <1>11, <1>12, <1>13,
     <1>14 DEF Next, GetJob

(***************************************************************************)
(* Jobs only advance.                                                      *)
(***************************************************************************)
LEMMA JobOrder ==
  TypeOK => /\ current \in Nat /\ template \in Nat
            /\ \A t \in Tasks : got[t] \in Nat
            /\ \A s \in Sessions : last[s] \in Nat /\ \A j \in told[s] : j \in Nat
<1> SUFFICES ASSUME TypeOK
             PROVE  /\ current \in Nat /\ template \in Nat
                    /\ \A t \in Tasks : got[t] \in Nat
                    /\ \A s \in Sessions : last[s] \in Nat /\ \A j \in told[s] : j \in Nat
  OBVIOUS
<1>1. Jobs \subseteq Nat /\ NoJob \in Nat
  BY StratumAssumption DEF Jobs, NoJob
<1>2. \A s \in Sessions : told[s] \subseteq Jobs /\ last[s] \in Jobs \cup {NoJob}
  BY DEF TypeOK
<1>3. \A t \in Tasks : got[t] \in Jobs \cup {NoJob}
  BY DEF TypeOK
<1> QED
  BY <1>1, <1>2, <1>3 DEF TypeOK

\* What AdvanceInv says of the fetches, and of the sessions.
FetchedInv ==
  \A t \in Tasks : got[t] # NoJob => Holds(t) /\ current <= got[t] /\ got[t] <= template

ToldInv == \A s \in Sessions : last[s] <= current /\ \A j \in told[s] : j <= current

LEMMA AdvanceParts == AdvanceInv <=> current <= template /\ FetchedInv /\ ToldInv
BY DEF AdvanceInv, FetchedInv, ToldInv

\* Leaving the line, whoever leaves, keeps a fetch with its holder.
LEMMA LeaveFetched ==
  ASSUME TypeOK, FetchedInv, NEW ts, Leave(ts), UNCHANGED <<current, template>>
  PROVE  FetchedInv'
<1>1. ASSUME NEW u \in Tasks, got'[u] # NoJob
      PROVE  Holds(u)' /\ current' <= got'[u] /\ got'[u] <= template'
  <2>1. u \notin ts /\ got'[u] = got[u]
    BY <1>1 DEF Leave
  <2>2. Holds(u) /\ current <= got[u] /\ got[u] <= template
    BY <1>1, <2>1 DEF FetchedInv
  <2>3. u \in line' /\ ahead'[u] = {}
    BY <2>1, <2>2 DEF Leave, Holds
  <2> QED
    BY <2>1, <2>2, <2>3 DEF Holds
<1> QED
  BY <1>1 DEF FetchedInv

\* Joining the line behind the others does not, either.
LEMMA EnterFetched ==
  ASSUME TypeOK, FetchedInv, NEW t \in Tasks, t \notin line, Enter(t),
         UNCHANGED <<current, template, got>>
  PROVE  FetchedInv'
<1>1. ASSUME NEW u \in Tasks, got[u] # NoJob
      PROVE  Holds(u)' /\ current <= got[u] /\ got[u] <= template
  <2>1. Holds(u) /\ current <= got[u] /\ got[u] <= template
    BY <1>1 DEF FetchedInv
  <2>2. u # t
    BY <2>1 DEF Holds
  <2>3. u \in line' /\ ahead'[u] = {}
    BY <2>1, <2>2 DEF Enter, Holds, TypeOK
  <2> QED
    BY <2>1, <2>3 DEF Holds
<1> QED
  BY <1>1 DEF FetchedInv

\* A session is told the current job or nothing.
LEMMA ReturnTold ==
  ASSUME TypeOK, ToldInv, NEW t \in Tasks, NEW job \in Jobs, Return(t, job),
         current' = job, current <= job
  PROVE  /\ ToldInv'
         /\ \A s \in Sessions : last'[s] >= last[s]
<1>1. t[1] \in Sessions /\ job \in Nat
  BY TaskFacts, StratumAssumption DEF Jobs
<1>2. Tell(t[1], job) \/ UNCHANGED <<told, last>>
  BY DEF Return
<1>3. ASSUME NEW s \in Sessions
      PROVE  /\ last'[s] <= current' /\ last'[s] >= last[s]
             /\ \A j \in told'[s] : j <= current'
  <2>1. last[s] <= current /\ \A j \in told[s] : j <= current
    BY DEF ToldInv
  <2>2. current \in Nat /\ last[s] \in Nat /\ \A j \in told[s] : j \in Nat
    BY JobOrder
  <2>3. last'[s] = last[s] \/ last'[s] = job
    BY <1>2 DEF Tell, TypeOK
  <2>4. told'[s] \subseteq told[s] \cup {job}
    BY <1>2 DEF Tell, TypeOK
  <2> QED
    BY <1>1, <2>1, <2>2, <2>3, <2>4
<1> QED
  BY <1>3 DEF ToldInv

LEMMA AdvanceInit == Init => AdvanceInv
BY DEF Init, AdvanceInv, NoJob

\* The step from the two invariants, with the property it is for.
LEMMA AdvanceNext ==
  TypeOK /\ LineInv /\ AdvanceInv /\ [Next]_vars =>
    /\ AdvanceInv'
    /\ current' >= current
    /\ \A s \in Sessions : run[s] # "off" => last'[s] >= last[s]
<1> DEFINE Good == /\ AdvanceInv' /\ current' >= current
                   /\ \A s \in Sessions : run[s] # "off" => last'[s] >= last[s]
<1> SUFFICES ASSUME TypeOK, LineInv, AdvanceInv, [Next]_vars PROVE Good
  OBVIOUS
<1>a. /\ Seated /\ Ordered /\ FetchedInv /\ ToldInv /\ current <= template
      /\ current \in Nat /\ template \in Nat
      /\ \A s \in Sessions : last[s] \in Nat
  BY JobOrder, AdvanceParts DEF LineInv
<1>b. ASSUME UNCHANGED <<current, template, told, last>>, FetchedInv' PROVE Good
  BY <1>a, <1>b DEF AdvanceInv, FetchedInv, ToldInv
<1>c. ASSUME UNCHANGED jobVars, UNCHANGED <<told, last>> PROVE Good
  BY <1>a, <1>b, <1>c DEF jobVars, FetchedInv, Holds
<1> HIDE DEF Good
<1>1. ASSUME NEW s \in Sessions, Connect(s) PROVE Good
  <2>1. UNCHANGED <<current, template, line, ahead, got>> /\ run[s] = "off"
    BY <1>1 DEF Connect, jobVars
  <2>2. FetchedInv'
    BY <1>a, <2>1 DEF FetchedInv, Holds
  <2>3. \A u \in Sessions : /\ last'[u] = IF u = s THEN NoJob ELSE last[u]
                            /\ told'[u] = IF u = s THEN {} ELSE told[u]
    BY <1>1 DEF Connect, TypeOK
  <2>4. ToldInv'
    BY <1>a, <2>1, <2>3 DEF ToldInv, NoJob
  <2> QED
    BY <1>a, <2>1, <2>2, <2>3, <2>4, AdvanceParts DEF Good, AdvanceInv, FetchedInv, ToldInv
<1>2. ASSUME NEW s \in Sessions, Disconnect(s) PROVE Good
  <2>1. FetchedInv'
    BY <1>2, <1>a, LeaveFetched DEF Disconnect, EndSession
  <2> QED
    BY <1>2, <1>b, <2>1 DEF Disconnect, sessionVars
<1>3. ASSUME NEW s \in Sessions, Authorize(s) PROVE Good
  <2>1. <<s, "run">> \notin line /\ <<s, "run">> \in Tasks
    BY <1>3, <1>a, TaskFacts DEF Authorize, Seated
  <2>2. FetchedInv'
    BY <1>3, <1>a, <2>1, EnterFetched DEF Authorize
  <2> QED
    BY <1>3, <1>b, <2>2 DEF Authorize
<1>4. ASSUME NEW s \in Sessions, NEW w \in Keys, Submit(s, w) PROVE Good
  BY <1>4, <1>c DEF Submit
<1>5. ASSUME NEW s \in Sessions, Accept(s) PROVE Good
  BY <1>5, <1>c DEF Accept
<1>6. ASSUME NEW s \in Sessions, Reject(s) PROVE Good
  BY <1>6, <1>c DEF Reject
<1>7. ASSUME NEW s \in Sessions, BlockDone(s) PROVE Good
  BY <1>7, <1>c DEF BlockDone, sessionVars
<1>8. ASSUME NEW s \in Sessions, Wake(s) PROVE Good
  <2>1. <<s, "notify">> \notin line /\ <<s, "notify">> \in Tasks
    BY <1>8, <1>a, TaskFacts DEF Wake, Seated
  <2>2. FetchedInv'
    BY <1>8, <1>a, <2>1, EnterFetched DEF Wake
  <2> QED
    BY <1>8, <1>b, <2>2 DEF Wake, sessionVars
<1>9. ASSUME NEW t \in Tasks, ReturnCached(t) PROVE Good
  <2>1. /\ current \in Jobs /\ Return(t, current) /\ Leave({t})
        /\ UNCHANGED <<current, template>>
    BY <1>9 DEF ReturnCached, Return, Cached, TypeOK
  <2>2. FetchedInv'
    BY <1>a, <2>1, LeaveFetched
  <2>3. ToldInv' /\ \A s \in Sessions : last'[s] >= last[s]
    BY <1>a, <2>1, ReturnTold
  <2> QED
    BY <1>a, <2>1, <2>2, <2>3 DEF Good, AdvanceInv, FetchedInv, ToldInv
<1>10. ASSUME NEW t \in Tasks, Fetch(t) PROVE Good
  <2>1. \A u \in Tasks : got'[u] = IF u = t THEN template ELSE got[u]
    BY <1>10 DEF Fetch, TypeOK
  <2>2. FetchedInv'
    BY <1>10, <1>a, <2>1 DEF Fetch, FetchedInv, Holds
  <2> QED
    BY <1>10, <1>b, <2>2 DEF Fetch, sessionVars
<1>11. ASSUME NEW t \in Tasks, ReturnFetched(t) PROVE Good
  <2>1. /\ got[t] \in Jobs /\ Return(t, got[t]) /\ Leave({t}) /\ Holds(t)
        /\ current' = got[t] /\ template' = template
    BY <1>11 DEF ReturnFetched, Return, TypeOK
  <2>2. got[t] # NoJob /\ current <= got[t] /\ got[t] <= template
    BY <1>11, <1>a DEF ReturnFetched, FetchedInv
  <2>3. ToldInv' /\ \A s \in Sessions : last'[s] >= last[s]
    BY <1>a, <2>1, <2>2, ReturnTold
  <2>4. \A u \in Tasks : got'[u] = NoJob
    <3>1. \A u \in Tasks : got[u] # NoJob => u = t
      BY <1>a, <2>1, OneHead DEF FetchedInv
    <3> QED
      BY <2>1, <3>1 DEF Leave
  <2>5. got[t] \in Nat
    BY JobOrder
  <2> QED
    BY <1>a, <2>1, <2>2, <2>3, <2>4, <2>5 DEF Good, AdvanceInv, ToldInv
<1>12. ASSUME NEW t \in Tasks, FetchError(t) PROVE Good
  <2>1. \E ts : Leave(ts)
    BY <1>12 DEF FetchError, EndSession
  <2>2. FetchedInv'
    BY <1>12, <1>a, <2>1, LeaveFetched DEF FetchError
  <2> QED
    BY <1>12, <1>b, <2>2 DEF FetchError, sessionVars
<1>13. CASE Age
  BY <1>13, <1>a, <1>b DEF Age, sessionVars, FetchedInv, Holds
<1>14. CASE NewTemplate
  <2>1. /\ template' = template + 1
        /\ UNCHANGED <<current, told, last, line, ahead, got>>
    BY <1>14 DEF NewTemplate, sessionVars
  <2>2. FetchedInv'
    BY <1>a, <2>1, JobOrder DEF FetchedInv, Holds
  <2> QED
    BY <1>a, <2>1, <2>2 DEF Good, AdvanceInv, FetchedInv, ToldInv
<1>15. CASE UNCHANGED vars
  BY <1>15, <1>c DEF vars, sessionVars
<1> QED
  BY <1>1, <1>2, <1>3, <1>4, <1>5, <1>6, <1>7, <1>8, <1>9, <1>10, <1>11, <1>12, <1>13,
     <1>14, <1>15 DEF Next, GetJob

\* The line is ordered and a fetch is the holder's, in every reachable state.
THEOREM LineHolds == Spec => [](TypeOK /\ LineInv /\ AdvanceInv)
<1>1. Init => TypeOK /\ LineInv /\ AdvanceInv
  BY TypeInit, LineInit, AdvanceInit
<1>2. TypeOK /\ LineInv /\ AdvanceInv /\ [Next]_vars => (TypeOK /\ LineInv /\ AdvanceInv)'
  BY TypeNext, LineNext, AdvanceNext
<1> QED
  BY <1>1, <1>2, PTL DEF Spec

\* However the sessions' refreshes overlap, neither the pool nor a connected miner
\* ever goes back to an older job.
THEOREM JobsAdvance == Spec => JobsOnlyAdvance
<1> DEFINE Step == /\ current' >= current
                   /\ \A s \in Sessions : run[s] # "off" => last'[s] >= last[s]
<1>1. TypeOK /\ LineInv /\ AdvanceInv /\ [Next]_vars => [Step]_vars
  BY AdvanceNext
<1> HIDE DEF Step
<1>2. Spec => [][Step]_vars
  BY <1>1, LineHolds, PTL DEF Spec
<1> QED
  BY <1>2 DEF Step, JobsOnlyAdvance

(***************************************************************************)
(* Shares count once.                                                      *)
(***************************************************************************)
Unread(w) == w[2] \notin DOMAIN Number

\* CountInv for one session.
Counted(s) ==
  /\ run[s] = "validate" => /\ work[s] \in submitted[s]
                            /\ credits[s][work[s]] = 0
  /\ \A w \in Keys : credits[s][w] <= 1 /\ (credits[s][w] > 0 => w \in submitted[s])
  /\ faults = 0 => \A w \in submitted[s] :
       \/ credits[s][w] = 1 \/ w[1] < current \/ Unread(w)
       \/ run[s] = "validate" /\ work[s] = w

LEMMA CountParts == CountInv <=> \A s \in Sessions : Counted(s)
BY DEF CountInv, Counted, Unread

LEMMA CountTypes ==
  TypeOK => /\ \A s \in Sessions, w \in Keys : credits[s][w] \in Nat
            /\ \A s \in Sessions : /\ submitted[s] \subseteq Keys
                                    /\ \A w \in submitted[s] : w \in Keys /\ w[1] \in Nat
            /\ faults \in Nat
<1> SUFFICES ASSUME TypeOK
             PROVE  /\ \A s \in Sessions, w \in Keys : credits[s][w] \in Nat
                    /\ \A s \in Sessions : /\ submitted[s] \subseteq Keys
                                            /\ \A w \in submitted[s] : w \in Keys /\ w[1] \in Nat
                    /\ faults \in Nat
  OBVIOUS
<1>1. \A s \in Sessions : credits[s] \in [Keys -> Nat]
  BY DEF TypeOK
<1>2. \A s \in Sessions : submitted[s] \subseteq Keys
  BY DEF TypeOK
<1>3. \A w \in Keys : w[1] \in Nat
  BY KeyFacts, StratumAssumption DEF Jobs
<1> QED
  BY <1>1, <1>2, <1>3 DEF TypeOK

\* A session that neither submits nor validates keeps its counts: the current job
\* only moves on, and a failure forgives everything.
LEMMA CountedStays ==
  ASSUME TypeOK, NEW s \in Sessions, Counted(s),
         submitted'[s] = submitted[s], credits'[s] = credits[s], work'[s] = work[s],
         run[s] = "validate" <=> run'[s] = "validate",
         current' >= current, current' \in Nat, faults' = faults \/ faults' > 0
  PROVE  Counted(s)'
<1>1. current \in Nat /\ \A w \in submitted[s] : w[1] \in Nat
  BY JobOrder, CountTypes
<1>2. run'[s] = "validate" => work'[s] \in submitted'[s] /\ credits'[s][work'[s]] = 0
  BY DEF Counted
<1>3. \A w \in Keys : credits'[s][w] <= 1 /\ (credits'[s][w] > 0 => w \in submitted'[s])
  BY DEF Counted
<1>4. ASSUME faults' = 0, NEW w \in submitted'[s]
      PROVE  \/ credits'[s][w] = 1 \/ w[1] < current' \/ Unread(w)
             \/ run'[s] = "validate" /\ work'[s] = w
  <2>1. faults = 0
    BY <1>4
  <2>2. \/ credits[s][w] = 1 \/ w[1] < current \/ Unread(w)
        \/ run[s] = "validate" /\ work[s] = w
    BY <1>4, <2>1 DEF Counted
  <2> QED
    BY <1>1, <1>4, <2>2
<1> QED
  BY <1>2, <1>3, <1>4 DEF Counted

LEMMA CountInit == Init => CountInv
<1> SUFFICES ASSUME Init, NEW s \in Sessions PROVE Counted(s)
  BY CountParts
<1>1. run[s] = "off" /\ submitted[s] = {} /\ \A w \in Keys : credits[s][w] = 0
  BY DEF Init, NoCredits
<1> QED
  BY <1>1 DEF Counted

LEMMA CountNext ==
  TypeOK /\ LineInv /\ AdvanceInv /\ CountInv /\ [Next]_vars => CountInv'
<1> SUFFICES ASSUME TypeOK, LineInv, AdvanceInv, CountInv, [Next]_vars, NEW s \in Sessions
             PROVE  Counted(s)'
  BY DEF CountInv, Counted, Unread
<1>a. /\ TypeOK' /\ current' >= current /\ current \in Nat /\ current' \in Nat
      /\ Seated /\ Counted(s)
  BY TypeNext, AdvanceNext, CountParts, JobOrder, StratumAssumption
  DEF LineInv, TypeOK, Jobs, NoJob
<1>b. ASSUME submitted' = submitted, credits' = credits, work' = work,
             run[s] = "validate" <=> run'[s] = "validate",
             faults' = faults \/ faults' > 0
      PROVE  Counted(s)'
  BY <1>a, <1>b, CountedStays
<1>1. ASSUME NEW u \in Sessions, Connect(u) PROVE Counted(s)'
  <2>1. CASE u = s
    <3>1. run'[s] = "reading" /\ submitted'[s] = {} /\ credits'[s] = NoCredits
      BY <1>1, <2>1 DEF Connect, TypeOK
    <3>2. \A w \in Keys : credits'[s][w] = 0
      BY <3>1 DEF NoCredits
    <3> QED
      BY <3>1, <3>2 DEF Counted
  <2>2. CASE u # s
    <3>1. /\ submitted'[s] = submitted[s] /\ credits'[s] = credits[s] /\ work'[s] = work[s]
          /\ run'[s] = run[s] /\ faults' = faults
      BY <1>1, <2>2 DEF Connect, TypeOK
    <3> QED
      BY <1>a, <3>1, CountedStays
  <2> QED
    BY <2>1, <2>2
<1>2. ASSUME NEW u \in Sessions, Disconnect(u) PROVE Counted(s)'
  <2>1. run[s] = "validate" <=> run'[s] = "validate"
    BY <1>2 DEF Disconnect, EndSession, TypeOK
  <2> QED
    BY <1>2, <1>b, <2>1 DEF Disconnect, sessionVars, bounds
<1>3. ASSUME NEW u \in Sessions, Authorize(u) PROVE Counted(s)'
  <2>1. run[s] = "validate" <=> run'[s] = "validate"
    BY <1>3 DEF Authorize, TypeOK
  <2> QED
    BY <1>3, <1>b, <2>1 DEF Authorize, bounds
<1>4. ASSUME NEW u \in Sessions, NEW w \in Keys, Submit(u, w) PROVE Counted(s)'
  <2>1. /\ credits' = credits /\ current' = current /\ faults' = faults
        /\ w[1] \in Nat /\ w[1] <= current /\ run[u] = "reading"
    BY <1>4, CountTypes, KeyFacts, StratumAssumption
    DEF Submit, jobVars, AdvanceInv, Jobs
  <2>2. CASE u # s
    <3>1. submitted'[s] = submitted[s] /\ work'[s] = work[s] /\ run'[s] = run[s]
      BY <1>4, <2>2 DEF Submit, Remember, TypeOK
    <3> QED
      BY <1>a, <2>1, <3>1, CountedStays
  <2>3. CASE u = s /\ w \in submitted[s]
    BY <1>4, <1>b, <2>1, <2>3 DEF Submit
  <2>4. CASE u = s /\ w \notin submitted[s]
    <3>1. submitted'[s] = submitted[s] \cup {w} /\ credits[s][w] = 0
      <4>1. submitted'[s] = submitted[s] \cup {w}
        BY <1>4, <2>4 DEF Submit, Remember, TypeOK
      <4>2. credits[s][w] \in Nat /\ ~(credits[s][w] > 0)
        BY <1>a, <2>4, CountTypes DEF Counted
      <4> QED
        BY <4>1, <4>2
    <3>2. \/ (w[1] # current \/ Unread(w)) /\ run'[s] = "reading"
          \/ run'[s] = "validate" /\ work'[s] = w
      BY <1>4, <2>1, <2>4 DEF Submit, TypeOK, Unread
    <3>3. \A v \in Keys : credits'[s][v] <= 1 /\ (credits'[s][v] > 0 => v \in submitted'[s])
      BY <1>a, <2>1, <3>1 DEF Counted
    <3>4. run'[s] = "validate" => work'[s] \in submitted'[s] /\ credits'[s][work'[s]] = 0
      BY <2>1, <3>1, <3>2
    <3>5. ASSUME faults' = 0, NEW v \in submitted'[s]
          PROVE  \/ credits'[s][v] = 1 \/ v[1] < current' \/ Unread(v)
                 \/ run'[s] = "validate" /\ work'[s] = v
      <4>1. CASE v = w
        BY <1>a, <2>1, <3>2, <4>1
      <4>2. CASE v # w
        BY <1>a, <2>1, <2>4, <3>1, <3>5, <4>2 DEF Counted
      <4> QED
        BY <4>1, <4>2
    <3> QED
      BY <3>3, <3>4, <3>5 DEF Counted
  <2> QED
    BY <2>2, <2>3, <2>4
<1>5. ASSUME NEW u \in Sessions, Accept(u) PROVE Counted(s)'
  <2>1. current' = current /\ faults' = faults /\ submitted' = submitted
    BY <1>5 DEF Accept, jobVars, bounds
  <2>2. CASE u # s
    <3>1. credits'[s] = credits[s] /\ work'[s] = work[s] /\ run'[s] = run[s]
      BY <1>5, <2>2 DEF Accept, TypeOK
    <3> QED
      BY <1>a, <2>1, <3>1, CountedStays
  <2>3. CASE u = s
    <3>1. /\ run[s] = "validate" /\ work[s] \in submitted[s] /\ credits[s][work[s]] = 0
          /\ work[s] \in Keys /\ credits[s] \in [Keys -> Nat]
      BY <1>5, <1>a, <2>3, CountTypes DEF Accept, Counted, TypeOK
    <3>2. run'[s] # "validate" /\ credits'[s] = [credits[s] EXCEPT ![work[s]] = @ + 1]
      BY <1>5, <2>3 DEF Accept, TypeOK
    <3>3. \A w \in Keys : credits'[s][w] = IF w = work[s] THEN 1 ELSE credits[s][w]
      BY <3>1, <3>2
    <3>4. \A w \in Keys : credits'[s][w] <= 1 /\ (credits'[s][w] > 0 => w \in submitted'[s])
      BY <1>a, <2>1, <3>1, <3>3 DEF Counted
    <3>5. ASSUME faults' = 0, NEW w \in submitted'[s]
          PROVE  credits'[s][w] = 1 \/ w[1] < current' \/ Unread(w)
      <4>1. w \in Keys
        BY <2>1, <3>5, CountTypes
      <4>2. credits[s][w] = 1 \/ w[1] < current \/ Unread(w) \/ work[s] = w
        BY <1>a, <2>1, <3>5 DEF Counted
      <4> QED
        BY <2>1, <3>3, <4>1, <4>2
    <3> QED
      BY <3>2, <3>4, <3>5 DEF Counted
  <2> QED
    BY <2>2, <2>3
<1>6. ASSUME NEW u \in Sessions, Reject(u) PROVE Counted(s)'
  <2>1. /\ submitted' = submitted /\ credits' = credits /\ faults' > 0
        /\ run'[s] = "validate" => run[s] = "validate" /\ work'[s] = work[s]
    BY <1>6, CountTypes DEF Reject, Fault, TypeOK
  <2> QED
    BY <1>a, <2>1 DEF Counted
<1>7. ASSUME NEW u \in Sessions, BlockDone(u) PROVE Counted(s)'
  <2>1. run[s] = "validate" <=> run'[s] = "validate"
    BY <1>7 DEF BlockDone, TypeOK
  <2> QED
    BY <1>7, <1>b, <2>1 DEF BlockDone, sessionVars, bounds
<1>8. ASSUME NEW u \in Sessions, Wake(u) PROVE Counted(s)'
  BY <1>8, <1>b DEF Wake, sessionVars, bounds
<1>9. ASSUME NEW t \in Tasks, NEW job, Holds(t), Return(t, job), UNCHANGED bounds
      PROVE  Counted(s)'
  <2>1. submitted' = submitted /\ credits' = credits /\ work' = work /\ faults' = faults
    BY <1>9 DEF Return, bounds
  <2>2. run[s] = "validate" <=> run'[s] = "validate"
    <3>1. CASE run' = run
      BY <3>1
    <3>2. CASE t[2] = "run" /\ run' = [run EXCEPT ![t[1]] = "reading"]
      <4>1. t[1] \in Sessions /\ <<t[1], "run">> \in line
        BY <1>9, <3>2, TaskFacts DEF Holds
      <4>2. run[t[1]] = "job"
        BY <1>a, <4>1 DEF Seated
      <4> QED
        BY <3>2, <4>1, <4>2 DEF TypeOK
    <3> QED
      BY <1>9, <3>1, <3>2 DEF Return
  <2> QED
    BY <1>b, <2>1, <2>2
<1>10. ASSUME NEW t \in Tasks, GetJob(t) PROVE Counted(s)'
  <2>1. CASE ReturnCached(t)
    BY <1>9, <2>1 DEF ReturnCached
  <2>2. CASE Fetch(t)
    BY <2>2, <1>b DEF Fetch, sessionVars, bounds
  <2>3. CASE ReturnFetched(t)
    BY <1>9, <2>3 DEF ReturnFetched
  <2> QED
    BY <1>10, <2>1, <2>2, <2>3 DEF GetJob
<1>11. ASSUME NEW t \in Tasks, FetchError(t) PROVE Counted(s)'
  <2>1. submitted' = submitted /\ credits' = credits /\ work' = work /\ faults' > 0
    BY <1>11, CountTypes DEF FetchError, Fault, sessionVars
  <2>2. run'[s] = "validate" => run[s] = "validate"
    BY <1>11, TaskFacts DEF FetchError, EndSession, TypeOK
  <2> QED
    BY <1>a, <2>1, <2>2 DEF Counted
<1>12. CASE Age \/ NewTemplate
  BY <1>12, <1>b DEF Age, NewTemplate, sessionVars, bounds
<1>13. CASE UNCHANGED vars
  BY <1>13, <1>b DEF vars, sessionVars, bounds
<1> QED
  BY <1>1, <1>2, <1>3, <1>4, <1>5, <1>6, <1>7, <1>8, <1>10, <1>11, <1>12, <1>13
  DEF Next

THEOREM CountHolds == Spec => []CountInv
<1>1. TypeOK /\ LineInv /\ AdvanceInv /\ CountInv /\ [Next]_vars => CountInv'
  BY CountNext
<1> QED
  BY <1>1, CountInit, LineHolds, PTL DEF Spec

\* A submission is recorded as accepted at most once in a session, however often its
\* texts are sent again, with any failures of the node and of the validator.
THEOREM OnceInASession == Spec => []CreditedOnce
<1>1. CountInv => CreditedOnce
  BY DEF CountInv, CreditedOnce
<1> QED
  BY <1>1, CountHolds, PTL

\* No two texts are one number: the extranonce2 is always the same, and the nonce is
\* written in one way.
OneTextEach ==
  \A x, y \in Texts : {x, y} \subseteq DOMAIN Number /\ Number[x] = Number[y] => x = y

\* From miners that write a nonce in one way, a nonce counts once in a session and
\* job.  It is what the duplicate check is worth: with other miners, a nonce counts
\* as often as it is written differently.
THEOREM OnceFromOneText ==
  ASSUME OneTextEach
  PROVE  Spec => []WorkCountsOnce
<1>1. ASSUME NEW w \in Keys, NEW v \in Keys, SameWork(w, v) PROVE w = v
  <2>1. w[2] = v[2]
    BY <1>1, KeyFacts DEF SameWork, OneTextEach
  <2> QED
    BY <1>1, <2>1, KeyFacts DEF SameWork
<1>2. ASSUME TypeOK, CountInv, NEW s \in Sessions, NEW w \in Keys, NEW v \in Keys,
             SameWork(w, v)
      PROVE  credits[s][w] + (IF v = w THEN 0 ELSE credits[s][v]) <= 1
  <2>1. v = w
    BY <1>1, <1>2
  <2>2. credits[s][w] \in Nat /\ credits[s][w] <= 1
    BY <1>2, CountTypes DEF CountInv
  <2> QED
    BY <2>1, <2>2
<1>3. TypeOK /\ CountInv => WorkCountsOnce
  BY <1>2 DEF WorkCountsOnce
<1> QED
  BY <1>3, TypeCorrect, CountHolds, PTL

\* DuplicateHasCounted for one session, with the type of what was refused.
Repeated(s) ==
  faults = 0 /\ reply[s].refusal = "duplicate" =>
    /\ reply[s].of \in Keys
    /\ credits[s][reply[s].of] = 1 \/ reply[s].of[1] < current \/ Unread(reply[s].of)

DuplicateInv == \A s \in Sessions : Repeated(s)

LEMMA RepeatedStays ==
  ASSUME TypeOK, NEW s \in Sessions, Repeated(s), reply'[s] = reply[s],
         \A w \in Keys : credits[s][w] = 1 => credits'[s][w] = 1,
         current' >= current, current' \in Nat, faults' = faults
  PROVE  Repeated(s)'
<1> SUFFICES ASSUME faults' = 0, reply'[s].refusal = "duplicate"
             PROVE  /\ reply'[s].of \in Keys
                    /\ \/ credits'[s][reply'[s].of] = 1
                       \/ reply'[s].of[1] < current' \/ Unread(reply'[s].of)
  BY DEF Repeated, Unread
<1>1. /\ reply[s].of \in Keys
      /\ credits[s][reply[s].of] = 1 \/ reply[s].of[1] < current \/ Unread(reply[s].of)
  BY DEF Repeated
<1>2. current \in Nat /\ reply[s].of[1] \in Nat
  BY <1>1, JobOrder, KeyFacts, StratumAssumption DEF Jobs
<1> QED
  BY <1>1, <1>2

LEMMA RepeatedNext ==
  TypeOK /\ LineInv /\ AdvanceInv /\ CountInv /\ DuplicateInv /\ [Next]_vars
    => DuplicateInv'
<1> SUFFICES ASSUME TypeOK, LineInv, AdvanceInv, CountInv, DuplicateInv, [Next]_vars,
                    NEW s \in Sessions
             PROVE  Repeated(s)'
  BY DEF DuplicateInv
<1>a. TypeOK' /\ current' >= current /\ current' \in Nat /\ Repeated(s) /\ Counted(s)
  BY TypeNext, AdvanceNext, CountParts, StratumAssumption
  DEF TypeOK, Jobs, NoJob, DuplicateInv
<1>b. ASSUME UNCHANGED <<credits, reply, faults>> PROVE Repeated(s)'
  BY <1>a, <1>b, RepeatedStays
<1>c. ASSUME faults' > 0 PROVE Repeated(s)'
  BY <1>c DEF Repeated
<1>1. ASSUME NEW u \in Sessions, Connect(u) PROVE Repeated(s)'
  <2>1. CASE u = s
    <3>1. reply'[s].refusal = "none"
      BY <1>1, <2>1 DEF Connect, TypeOK, NoReply
    <3> QED
      BY <3>1 DEF Repeated
  <2>2. CASE u # s
    <3>1. reply'[s] = reply[s] /\ credits'[s] = credits[s] /\ faults' = faults
      BY <1>1, <2>2 DEF Connect, TypeOK
    <3> QED
      BY <1>a, <3>1, RepeatedStays
  <2> QED
    BY <2>1, <2>2
<1>2. ASSUME NEW u \in Sessions, NEW w \in Keys, Submit(u, w) PROVE Repeated(s)'
  <2>1. credits' = credits /\ faults' = faults /\ current' = current /\ run[u] = "reading"
    BY <1>2 DEF Submit, jobVars
  <2>2. CASE reply'[s] = reply[s]
    BY <1>a, <2>1, <2>2, RepeatedStays
  <2>3. CASE reply'[s] # reply[s]
    <3>1. u = s
      BY <1>2, <2>3 DEF Submit, Refuse, TypeOK
    <3>2. \/ reply'[s] = [refusal |-> "duplicate", of |-> w] /\ w \in submitted[s]
          \/ reply'[s].refusal \in {"stale", "bad"}
      BY <1>2, <2>3, <3>1 DEF Submit, Refuse, TypeOK
    <3>3. faults = 0 /\ w \in submitted[s]
            => credits[s][w] = 1 \/ w[1] < current \/ Unread(w)
      BY <1>a, <2>1, <3>1 DEF Counted
    <3> QED
      BY <2>1, <3>2, <3>3 DEF Repeated, Unread
  <2> QED
    BY <2>2, <2>3
<1>3. ASSUME NEW u \in Sessions, Accept(u) PROVE Repeated(s)'
  <2>1. reply' = reply /\ faults' = faults
    BY <1>3 DEF Accept, bounds
  <2>2. \A w \in Keys : credits[s][w] = 1 => credits'[s][w] = 1
    <3>1. CASE u # s
      BY <1>3, <3>1 DEF Accept, TypeOK
    <3>2. CASE u = s
      <4>1. work[s] \in Keys /\ credits[s][work[s]] = 0 /\ credits[s] \in [Keys -> Nat]
        BY <1>3, <1>a, <3>2, CountTypes DEF Accept, Counted, TypeOK
      <4>2. credits'[s] = [credits[s] EXCEPT ![work[s]] = @ + 1]
        BY <1>3, <3>2 DEF Accept, TypeOK
      <4> QED
        BY <4>1, <4>2
    <3> QED
      BY <3>1, <3>2
  <2> QED
    BY <1>a, <2>1, <2>2, RepeatedStays
<1>4. ASSUME NEW u \in Sessions, Disconnect(u) \/ Authorize(u) \/ BlockDone(u) \/ Wake(u)
      PROVE  Repeated(s)'
  BY <1>4, <1>b DEF Disconnect, Authorize, BlockDone, Wake, sessionVars, bounds
<1>5. ASSUME NEW u \in Sessions, Reject(u) PROVE Repeated(s)'
  BY <1>5, <1>c, CountTypes DEF Reject, Fault
<1>6. ASSUME NEW t \in Tasks, GetJob(t) PROVE Repeated(s)'
  BY <1>6, <1>b DEF GetJob, ReturnCached, Fetch, ReturnFetched, Return, sessionVars, bounds
<1>7. ASSUME NEW t \in Tasks, FetchError(t) PROVE Repeated(s)'
  BY <1>7, <1>c, CountTypes DEF FetchError, Fault
<1>8. CASE Age \/ NewTemplate \/ UNCHANGED vars
  BY <1>8, <1>b DEF Age, NewTemplate, vars, sessionVars, bounds
<1> QED
  BY <1>1, <1>2, <1>3, <1>4, <1>5, <1>6, <1>7, <1>8 DEF Next

\* Without failures, a submission is refused as a duplicate only when it has counted
\* in the session, or could not have any more, or cannot be read.
THEOREM DuplicatesHaveCounted == Spec => []DuplicateHasCounted
<1>1. Init => DuplicateInv
  BY DEF Init, DuplicateInv, Repeated, NoReply
<1>2. TypeOK /\ LineInv /\ AdvanceInv /\ CountInv /\ DuplicateInv /\ [Next]_vars
        => DuplicateInv'
  BY RepeatedNext
<1>3. DuplicateInv => DuplicateHasCounted
  BY DEF DuplicateInv, Repeated, DuplicateHasCounted, Unread
<1> QED
  BY <1>1, <1>2, <1>3, LineHolds, CountHolds, PTL DEF Spec
=============================================================================
