------------------------- MODULE StratumClientProofs -------------------------
(***************************************************************************)
(* Proofs about StratumClient, for every pool, every solver and every      *)
(* number of jobs, nonces, sessions and faults.                            *)
(***************************************************************************)
EXTENDS StratumClient, TLAPS

JobType   == [id : 0..MaxJobs, start : Nonce]
SliceType == [id : 0..MaxJobs, start : Nonce, nonce : Nonces \cup {None},
              result : {"none", "found", "end", "raise"}, next : Nonce]
CallType  == [id : Nat, answer : {"none", "yes", "no", "unsent"}]

(***************************************************************************)
(* Types: the common parts of the actions keep them.                       *)
(***************************************************************************)
LEMMA CapTyped == ASSUME NEW n \in Nat PROVE Cap(n) \in Nonce
BY ClientAssumption DEF Cap, Nonce

LEMMA ConstantsTyped ==
  NoJob \in JobType /\ NoSlice \in SliceType /\ NoCall \in CallType
BY ClientAssumption DEF NoJob, NoSlice, NoCall, JobType, SliceType, CallType, Nonce, Nonces

LEMMA CallTyped ==
  ASSUME lastId \in Nat, pending \subseteq Nat, requests \in Seq(Request),
         NEW method \in {"subscribe", "authorize", "submit"}, NEW share \in Nat,
         Call(method, share)
  PROVE  lastId' \in Nat /\ pending' \subseteq Nat /\ call' \in CallType
           /\ requests' \in Seq(Request)
<1>1. [id |-> lastId + 1, method |-> method, share |-> share] \in Request
  BY DEF Request
<1> QED
  BY <1>1 DEF Call, CallType

LEMMA IterateTyped ==
  ASSUME NEW j \in JobType, solver \in {"off", "waiting", "slice", "submit", "sleep"},
         changed \in BOOLEAN, Iterate(j)
  PROVE  /\ solver' \in {"off", "waiting", "slice", "submit", "sleep"}
         /\ changed' \in BOOLEAN /\ slice' \in SliceType
BY ConstantsTyped, ClientAssumption
   DEF Iterate, NoSlice, SliceType, JobType, Nonce, Nonces, None

LEMMA ResumeTyped ==
  ASSUME TypeOK, Resume
  PROVE  /\ job' \in JobType
         /\ solver' \in {"off", "waiting", "slice", "submit", "sleep"}
         /\ changed' \in BOOLEAN /\ slice' \in SliceType
<1>1. job' \in JobType
  BY DEF TypeOK, Resume, JobType
<1> QED
  BY <1>1, IterateTyped DEF TypeOK, Resume

LEMMA CallFailsTyped ==
  ASSUME TypeOK, CallFails PROVE pending' \subseteq Nat
BY DEF TypeOK, CallFails

\* What a submission is once and for all; pool and client are what becomes of it.
Same(s, t) ==
  /\ Len(t) = Len(s)
  /\ \A i \in 1..Len(s) : /\ t[i].job = s[i].job /\ t[i].nonce = s[i].nonce
                          /\ t[i].current = s[i].current /\ t[i].record = s[i].record

\* The client, or the pool, has made x of the submission i.
Becomes(s, i, x, t) ==
  \A k \in 1..Len(s) : /\ t[k].pool = s[k].pool
                       /\ t[k].client = IF k = i THEN x ELSE s[k].client

Ruled(s, i, x, t) ==
  \A k \in 1..Len(s) : /\ t[k].client = s[k].client
                       /\ t[k].pool = IF k = i THEN x ELSE s[k].pool

LEMMA SeqOfFunction ==
  ASSUME NEW S, NEW n \in Nat, NEW f \in [1..n -> S]
  PROVE  f \in Seq(S) /\ Len(f) = n
OBVIOUS

LEMMA FunctionOfSeq ==
  ASSUME NEW S, NEW s \in Seq(S)
  PROVE  s \in [1..Len(s) -> S] /\ Len(s) \in Nat
OBVIOUS

LEMMA ClientUpdate ==
  ASSUME NEW s \in Seq(Share), NEW i,
         NEW x \in {"open", "accepted", "rejected", "gave up", "abandoned"}
  PROVE  LET t == [s EXCEPT ![i].client = x]
         IN  /\ t \in Seq(Share) /\ Same(s, t)
             /\ Becomes(s, i, x, t)
<1> DEFINE t == [s EXCEPT ![i].client = x]
<1>1. s \in [1..Len(s) -> Share] /\ Len(s) \in Nat
  BY FunctionOfSeq
<1>2. \A k \in 1..Len(s) : t[k] = IF k = i THEN [s[k] EXCEPT !.client = x] ELSE s[k]
  BY <1>1
<1>3. \A k \in 1..Len(s) : [s[k] EXCEPT !.client = x] \in Share
  BY <1>1 DEF Share
<1>4. t \in [1..Len(s) -> Share]
  BY <1>1, <1>2, <1>3
<1>5. t \in Seq(Share) /\ Len(t) = Len(s)
  BY <1>1, <1>4, SeqOfFunction
<1> QED
  BY <1>1, <1>2, <1>3, <1>5 DEF Same, Becomes, Share

LEMMA PoolUpdate ==
  ASSUME NEW s \in Seq(Share), NEW i, NEW x \in {"open", "credited", "refused"}
  PROVE  LET t == [s EXCEPT ![i].pool = x]
         IN  /\ t \in Seq(Share) /\ Same(s, t)
             /\ Ruled(s, i, x, t)
<1> DEFINE t == [s EXCEPT ![i].pool = x]
<1>1. s \in [1..Len(s) -> Share] /\ Len(s) \in Nat
  BY FunctionOfSeq
<1>2. \A k \in 1..Len(s) : t[k] = IF k = i THEN [s[k] EXCEPT !.pool = x] ELSE s[k]
  BY <1>1
<1>3. \A k \in 1..Len(s) : [s[k] EXCEPT !.pool = x] \in Share
  BY <1>1 DEF Share
<1>4. t \in [1..Len(s) -> Share]
  BY <1>1, <1>2, <1>3
<1>5. t \in Seq(Share) /\ Len(t) = Len(s)
  BY <1>1, <1>4, SeqOfFunction
<1> QED
  BY <1>1, <1>2, <1>3, <1>5 DEF Same, Ruled, Share

LEMMA TypeInit == Init => TypeOK
<1>1. <<>> \in Seq(Request) /\ <<>> \in Seq(Message) /\ <<>> \in Seq(Share)
  OBVIOUS
<1>2. 1 \in Jobs /\ 0 \in 0..MaxJobs /\ 0 \in 0..MaxBackoff
  BY ClientAssumption DEF Jobs
<1> SUFFICES ASSUME Init PROVE TypeOK
  OBVIOUS
<1>3. job \in JobType /\ slice \in SliceType /\ call \in CallType
  BY ConstantsTyped DEF Init
<1>4. requests \in Seq(Request) /\ messages \in Seq(Message) /\ shares \in Seq(Share)
  BY <1>1 DEF Init
<1> QED
  BY <1>2, <1>3, <1>4 DEF Init, TypeOK, JobType, SliceType, CallType

LEMMA TypeMain ==
  ASSUME TypeOK, Connect \/ ConnectFails \/ Main
  PROVE  TypeOK'
<1> USE ConstantsTyped, ClientAssumption DEF JobType, SliceType, CallType
<1>1. CASE Connect
  BY <1>1, CallTyped DEF Connect, TypeOK, pipeVars, localVars, poolVars
<1>2. CASE ConnectFails
  BY <1>2 DEF ConnectFails, Fault, TypeOK, pipeVars, localVars, callVars, netVars, poolVars
<1>3. CASE Subscribed
  BY <1>3, CallTyped DEF Subscribed, TypeOK, pipeVars, localVars, poolVars, bounds
<1>4. CASE Authorized
  BY <1>4, IterateTyped DEF Authorized, TypeOK, pipeVars, netVars, poolVars, bounds
<1>5. CASE HandshakeFails
  BY <1>5, CallFailsTyped DEF HandshakeFails, TypeOK, pipeVars, localVars, netVars, poolVars,
                              bounds
<1>6. CASE StopReader
  BY <1>6 DEF StopReader, EndsReader, TypeOK, pipeVars, localVars, callVars, netVars,
              poolVars, bounds
<1>7. CASE SessionEnds
  <2>1. shares' \in Seq(Share)
    <3>1. shares \in Seq(Share)
      BY DEF TypeOK
    <3>2. [shares EXCEPT ![Len(shares)].client = "abandoned"] \in Seq(Share)
      BY <3>1, ClientUpdate
    <3> QED
      BY <1>7, <3>1, <3>2 DEF SessionEnds
  <2>2. left' \in Nat /\ cut' \in BOOLEAN
    <3>1. CASE LeavesJob
      <4>1. left' \in Nat
        BY <3>1 DEF LeavesJob, TypeOK
      <4>2. cut' \in BOOLEAN
        BY <3>1 DEF LeavesJob
      <4> QED
        BY <4>1, <4>2
    <3>2. CASE UNCHANGED pipeVars
      BY <3>2 DEF TypeOK, pipeVars
    <3> QED
      BY <1>7, <3>1, <3>2 DEF SessionEnds
  <2> QED
    BY <1>7, <2>1, <2>2 DEF SessionEnds, TypeOK, netVars, poolVars, bounds
<1>8. CASE SolverEnded
  BY <1>8 DEF SolverEnded, TypeOK, pipeVars, localVars, callVars, netVars, poolVars, bounds
<1>9. CASE Close
  BY <1>9 DEF Close, TypeOK, pipeVars, bounds
<1>10. CASE Slept
  BY <1>10 DEF Slept, Doubled, TypeOK, pipeVars, localVars, callVars, netVars, poolVars, bounds
<1> QED
  BY <1>1, <1>2, <1>3, <1>4, <1>5, <1>6, <1>7, <1>8, <1>9, <1>10 DEF Main

LEMMA MessageCases ==
  ASSUME NEW m \in Message
  PROVE  IF "job" \in DOMAIN m THEN m.job \in Jobs ELSE m.id \in Nat /\ m.answer \in {"yes", "no"}
BY DEF Message

LEMMA TypeReader ==
  ASSUME TypeOK, Reader
  PROVE  TypeOK'
<1>1. CASE Read
  <2> DEFINE m == Head(messages)
  <2>1. m \in Message /\ messages' \in Seq(Message)
    BY <1>1 DEF Read, TypeOK
  <2>2. /\ job' \in JobType /\ changed' \in BOOLEAN
        /\ call' \in CallType /\ pending' \subseteq Nat
    <3>1. CASE "job" \in DOMAIN m
      <4>1. m.job \in 0..MaxJobs
        BY <2>1, <3>1, MessageCases, ClientAssumption DEF Jobs
      <4>2. [id |-> m.job, start |-> 0] \in JobType
        BY <4>1, ClientAssumption DEF JobType, Nonce
      <4>3. ReadNotify(m)
        BY <1>1, <3>1 DEF Read
      <4> QED
        BY <4>2, <4>3 DEF ReadNotify, Announce, TypeOK, CallType
    <3>2. CASE "job" \notin DOMAIN m
      <4>1. m.answer \in {"yes", "no"}
        BY <2>1, <3>2, MessageCases
      <4> QED
        BY <1>1, <3>2, <4>1 DEF Read, ReadAnswer, TypeOK, JobType, CallType
    <3> QED
      BY <3>1, <3>2
  <2> QED
    BY <1>1, <2>1, <2>2 DEF Read, TypeOK, JobType, CallType, pipeVars, poolVars, bounds
<1>2. CASE ReadEnd
  BY <1>2 DEF ReadEnd, TypeOK, pipeVars, localVars, callVars, netVars, poolVars, bounds
<1> QED
  BY <1>1, <1>2 DEF Reader

LEMMA NextNonceTyped ==
  ASSUME NEW s \in Nonce, NEW end \in Int
  PROVE  NextNonce(s, end) \in Nonce
<1>1. s \in Nat /\ s + SliceNonces \in Nat
  BY ClientAssumption DEF Nonce
<1>2. end > s => end + 1 \in Nat
  BY <1>1
<1> QED
  BY <1>1, <1>2, CapTyped DEF NextNonce

LEMMA SliceTyped ==
  ASSUME TypeOK, SliceReturns
  PROVE  /\ slice' \in SliceType /\ slice'.id = slice.id /\ slice'.start = slice.start
         /\ left' \in Nat
         /\ slice'.result = "found" =>
              /\ slice'.nonce \in Nonces
              /\ left' = 0 => /\ <<slice.id, slice'.nonce>> \in Hits
                              /\ slice'.nonce \in HitsFrom(slice)
<1>1. slice \in SliceType /\ slice.start \in Nonce /\ slice.start \in Int /\ None \in Int
  BY ClientAssumption DEF TypeOK, SliceType, Nonce, None
<1>2. ASSUME NEW n \in HitsFrom(slice)
      PROVE  n \in Nonces /\ <<slice.id, n>> \in Hits
  BY <1>2, ClientAssumption DEF HitsFrom
<1>3. ASSUME NEW n \in Nonces, NEW x \in Nonce
      PROVE  [slice EXCEPT !.result = "found", !.nonce = n, !.next = x] \in SliceType
  BY <1>1 DEF SliceType
<1>4. ASSUME NEW r \in {"end", "raise"}, NEW x \in Nonce
      PROVE  [slice EXCEPT !.result = r, !.next = x] \in SliceType
  BY <1>1 DEF SliceType
<1>5. NextNonce(slice.start, None) \in Nonce
  BY <1>1, NextNonceTyped
<1>6. ASSUME NEW end \in Int PROVE NextNonce(slice.start, end) \in Nonce
  BY <1>1, <1>6, NextNonceTyped
<1>7. left' \in Nat
  BY DEF SliceReturns, TypeOK
<1>8. ASSUME NEW n \in Nonces, left' = 0 => n \in HitsFrom(slice),
             slice' = [slice EXCEPT !.result = "found", !.nonce = n,
                                    !.next = NextNonce(slice.start, None)]
      PROVE  /\ slice' \in SliceType /\ slice'.id = slice.id /\ slice'.start = slice.start
             /\ slice'.nonce \in Nonces
             /\ left' = 0 => /\ <<slice.id, slice'.nonce>> \in Hits
                             /\ slice'.nonce \in HitsFrom(slice)
  <2>1. slice'.nonce = n /\ slice'.id = slice.id /\ slice'.start = slice.start
    BY <1>1, <1>8 DEF SliceType
  <2> QED
    BY <1>2, <1>3, <1>5, <1>8, <2>1
<1>9. ASSUME NEW r \in {"end", "raise"}, NEW end \in Int,
             slice' = [slice EXCEPT !.result = r, !.next = NextNonce(slice.start, end)]
      PROVE  /\ slice' \in SliceType /\ slice'.id = slice.id /\ slice'.start = slice.start
             /\ slice'.result # "found"
  BY <1>1, <1>4, <1>6, <1>9 DEF SliceType
<1>10. CASE left' = 0 /\ OwnRecord
  <2>1. \A end \in slice.start..(slice.start + Reach - 1) : end \in Int
    OBVIOUS
  <2> QED
    BY <1>2, <1>7, <1>8, <1>9, <1>10, <2>1 DEF OwnRecord
<1>11. CASE left' > 0 /\ OtherRecord
  <2>1. left' # 0
    BY <1>7, <1>11
  <2>2. \A end \in Nonce : end \in Int
    BY ClientAssumption DEF Nonce
  <2> QED
    BY <1>7, <1>8, <1>9, <1>11, <2>1, <2>2 DEF OtherRecord
<1>12. CASE NoRecord
  BY <1>1, <1>7, <1>9, <1>12 DEF NoRecord
<1> QED
  BY <1>10, <1>11, <1>12 DEF SliceReturns

\* A result that counts as found is a nonce, which meets the job's target if the record
\* is the slice's own.
Found ==
  /\ solver = "slice" => slice.id # 0
  /\ slice.result = "found" => /\ slice.id # 0 /\ slice.nonce \in Nonces
                               /\ left = 0 => <<slice.id, slice.nonce>> \in Hits

LEMMA FoundTyped ==
  ASSUME TypeOK, Found, slice.result = "found"
  PROVE  slice.id \in Jobs /\ slice.nonce \in Nonces
BY ClientAssumption DEF Found, TypeOK, Jobs

LEMMA TypeSolver ==
  ASSUME TypeOK, Found, Solver
  PROVE  TypeOK'
<1>1. CASE Woken
  <2>1. solver' \in {"off", "waiting", "slice", "submit", "sleep"} /\ changed' \in BOOLEAN
          /\ slice' \in SliceType
    BY <1>1, IterateTyped DEF Woken, TypeOK, JobType
  <2> QED
    BY <1>1, <2>1 DEF Woken, TypeOK, SliceType, pipeVars, callVars, netVars, poolVars, bounds
<1>2. CASE SliceReturns
  <2>1. slice' \in SliceType /\ left' \in Nat
    BY <1>2, SliceTyped
  <2>2. UNCHANGED <<main, reader, solver, job, changed, callVars, backoff, netVars, poolVars,
                    shares, cut, bounds>>
    BY <1>2 DEF SliceReturns
  <2> QED
    BY <2>1, <2>2 DEF TypeOK, SliceType, pipeVars, callVars, netVars, poolVars, bounds
<1>3. CASE SliceDone
  <2>1. CASE /\ slice.result = "found" /\ StillCurrent
             /\ solver' = "submit"
             /\ shares' = Append(shares, [job |-> slice.id, nonce |-> slice.nonce,
                                          current |-> job.id, record |-> WhoseRecord,
                                          pool |-> "open", client |-> "open"])
             /\ Call("submit", Len(shares) + 1)
             /\ UNCHANGED <<job, changed, slice>>
    <3>1. [job |-> slice.id, nonce |-> slice.nonce, current |-> job.id,
           record |-> WhoseRecord, pool |-> "open", client |-> "open"] \in Share
      BY <2>1, FoundTyped DEF Share, TypeOK, WhoseRecord
    <3>2. shares' \in Seq(Share) /\ Len(shares) + 1 \in Nat
      BY <2>1, <3>1 DEF TypeOK
    <3>3. lastId' \in Nat /\ pending' \subseteq Nat /\ call' \in CallType
            /\ requests' \in Seq(Request)
      BY <2>1, <3>2, CallTyped DEF TypeOK
    <3> QED
      BY <1>3, <2>1, <3>2, <3>3 DEF SliceDone, TypeOK, CallType, pipeVars, poolVars, bounds
  <2>2. CASE /\ slice.result = "raise"
             /\ solver' = "sleep"
             /\ UNCHANGED <<job, changed, slice, callVars, requests, shares>>
    BY <1>3, <2>2 DEF SliceDone, TypeOK, pipeVars, callVars, poolVars, bounds
  <2>3. CASE Resume /\ UNCHANGED <<callVars, requests, shares>>
    BY <1>3, <2>3, ResumeTyped
       DEF SliceDone, TypeOK, JobType, SliceType, pipeVars, callVars, poolVars, bounds
  <2> QED
    BY <1>3, <2>1, <2>2, <2>3 DEF SliceDone
<1>4. CASE SubmitDone
  <2>1. shares' \in Seq(Share)
    <3>1. shares \in Seq(Share)
      BY DEF TypeOK
    <3>2. \A x \in {"accepted", "rejected", "gave up"} :
            [shares EXCEPT ![Len(shares)].client = x] \in Seq(Share)
      BY <3>1, ClientUpdate
    <3> QED
      BY <1>4, <3>2 DEF SubmitDone
  <2>2. pending' \subseteq Nat /\ call' \in CallType
    BY <1>4, CallFailsTyped, ConstantsTyped DEF SubmitDone, TypeOK
  <2>3. Resume
    BY <1>4 DEF SubmitDone
  <2> QED
    BY <1>4, <2>1, <2>2, <2>3, ResumeTyped
       DEF SubmitDone, TypeOK, JobType, SliceType, CallType, pipeVars, netVars, poolVars, bounds
<1>5. CASE SleepDone
  BY <1>5, ResumeTyped
     DEF SleepDone, TypeOK, JobType, SliceType, pipeVars, callVars, netVars, poolVars, bounds
<1> QED
  BY <1>1, <1>2, <1>3, <1>4, <1>5 DEF Solver

LEMMA SendTyped ==
  ASSUME messages \in Seq(Message), NEW m \in Message, Send(m)
  PROVE  messages' \in Seq(Message)
BY DEF Send

LEMMA AnswerTyped ==
  ASSUME NEW id \in Nat, NEW a \in {"yes", "no"}
  PROVE  [id |-> id, answer |-> a] \in Message
BY DEF Message

LEMMA NotifyTyped ==
  ASSUME NEW j \in Jobs
  PROVE  [job |-> j] \in Message
BY DEF Message

\* The three things the pool may do with a request.
Hears(r) ==
  /\ r.method # "submit"
  /\ told' = IF r.method = "authorize" THEN pool ELSE told
  /\ messages' = messages \o <<[id |-> r.id, answer |-> "yes"]>>
                   \o (IF r.method = "authorize" THEN <<[job |-> pool]>> ELSE <<>>)
  /\ UNCHANGED <<shares, faults>>

Judges(r, good) ==
  /\ r.method = "submit"
  /\ shares' = [shares EXCEPT ![r.share].pool = IF good THEN "credited" ELSE "refused"]
  /\ Send([id |-> r.id, answer |-> IF good THEN "yes" ELSE "no"])
  /\ UNCHANGED <<told, faults>>

Refuses(r) ==
  /\ Fault
  /\ Send([id |-> r.id, answer |-> "no"])
  /\ shares' = [i \in DOMAIN shares |->
                  IF i = r.share THEN [shares[i] EXCEPT !.pool = "refused"] ELSE shares[i]]
  /\ UNCHANGED told

LEMMA PoolAnswersCases ==
  ASSUME PoolAnswers
  PROVE  LET r == Head(requests)
         IN  Hears(r) \/ (\E good \in BOOLEAN : Judges(r, good)) \/ Refuses(r)
<1> DEFINE r == Head(requests)
           s == shares[r.share]
           good == /\ s.job = pool /\ <<s.job, s.nonce>> \in Hits
                   /\ \A i \in 1..(r.share - 1) :
                        <<shares[i].job, shares[i].nonce>> # <<s.job, s.nonce>>
<1>1. good \in BOOLEAN
  OBVIOUS
<1>2. Hears(r) \/ Judges(r, good) \/ Refuses(r)
  BY DEF PoolAnswers, Hears, Judges, Refuses
<1> QED
  BY <1>1, <1>2

LEMMA RefusedTyped ==
  ASSUME NEW s \in Seq(Share), NEW k
  PROVE  LET t == [i \in DOMAIN s |->
                     IF i = k THEN [s[i] EXCEPT !.pool = "refused"] ELSE s[i]]
         IN  /\ t \in Seq(Share) /\ Same(s, t)
             /\ Ruled(s, k, "refused", t)
<1> DEFINE t == [i \in DOMAIN s |-> IF i = k THEN [s[i] EXCEPT !.pool = "refused"] ELSE s[i]]
           u == [s EXCEPT ![k].pool = "refused"]
<1>1. t = u
  OBVIOUS
<1>2. /\ u \in Seq(Share) /\ Same(s, u)
      /\ Ruled(s, k, "refused", u)
  BY PoolUpdate
<1> HIDE DEF t, u
<1>3. /\ t \in Seq(Share) /\ Same(s, t)
      /\ Ruled(s, k, "refused", t)
  BY <1>1, <1>2
<1> QED
  BY <1>3 DEF t

LEMMA TypePool ==
  ASSUME TypeOK, Pool
  PROVE  TypeOK'
<1>1. CASE PoolAnswers
  <2> DEFINE r == Head(requests)
  <2>1. r \in Request /\ requests' \in Seq(Request)
    <3>1. requests # <<>> /\ requests' = Tail(requests)
      BY ONLY <1>1 DEF PoolAnswers
    <3>2. requests \in Seq(Request)
      BY ONLY TypeOK DEF TypeOK
    <3> QED
      BY ONLY <3>1, <3>2
  <2>2. r.id \in Nat /\ pool \in Jobs /\ told \in 0..MaxJobs /\ pool \in 0..MaxJobs
          /\ messages \in Seq(Message) /\ shares \in Seq(Share)
    BY <2>1, ClientAssumption DEF Request, TypeOK, Jobs
  <2>3. /\ messages' \in Seq(Message) /\ shares' \in Seq(Share)
        /\ told' \in 0..MaxJobs /\ faults' \in Nat
    <3>1. CASE Hears(r)
      <4>1. [id |-> r.id, answer |-> "yes"] \in Message /\ [job |-> pool] \in Message
        BY <2>2, AnswerTyped, NotifyTyped
      <4>2. messages' \in Seq(Message)
        BY <2>2, <3>1, <4>1 DEF Hears
      <4> QED
        BY <2>2, <3>1, <4>2 DEF Hears, TypeOK
    <3>2. ASSUME NEW good \in BOOLEAN, Judges(r, good)
          PROVE  /\ messages' \in Seq(Message) /\ shares' \in Seq(Share)
                 /\ told' \in 0..MaxJobs /\ faults' \in Nat
      BY <2>2, <3>2, SendTyped, AnswerTyped, PoolUpdate DEF Judges, TypeOK
    <3>3. CASE Refuses(r)
      <4>1. messages' \in Seq(Message)
        BY <2>2, <3>3, SendTyped, AnswerTyped DEF Refuses
      <4>2. shares' \in Seq(Share)
        BY <2>2, <3>3, RefusedTyped DEF Refuses
      <4>3. faults \in Nat /\ faults' = faults + 1 /\ told' = told
        BY ONLY <3>3, TypeOK DEF Refuses, Fault, TypeOK
      <4> QED
        BY ONLY <2>2, <4>1, <4>2, <4>3
    <3> QED
      BY <1>1, <3>1, <3>2, <3>3, PoolAnswersCases
  <2>4. UNCHANGED <<pipeVars, main, reader, localVars, callVars, backoff, link, pool,
                    sessions>>
    BY ONLY <1>1 DEF PoolAnswers
  <2>5. UNCHANGED <<left, cut, main, reader, solver, job, changed, slice, call, pending,
                    lastId, backoff, link, pool, sessions>>
    BY ONLY <2>4 DEF pipeVars, localVars, callVars
  <2> QED
    BY ONLY TypeOK, <2>1, <2>3, <2>5 DEF TypeOK
<1>2. CASE PoolNotifies
  <2>1. messages' \in Seq(Message) /\ pool \in 0..MaxJobs
    BY <1>2, SendTyped, NotifyTyped, ClientAssumption DEF PoolNotifies, TypeOK, Jobs
  <2> QED
    BY <1>2, <2>1 DEF PoolNotifies, TypeOK, pipeVars, localVars, callVars, bounds
<1>3. CASE PoolAdvances
  BY <1>3, ClientAssumption
     DEF PoolAdvances, TypeOK, Jobs, pipeVars, localVars, callVars, netVars, bounds
<1>4. CASE Break
  <2>1. messages' \in Seq(Message)
    BY <1>4 DEF Break, TypeOK
  <2> QED
    BY <1>4, <2>1, ClientAssumption DEF Break, TypeOK, pipeVars, localVars, callVars, bounds
<1> QED
  BY <1>1, <1>2, <1>3, <1>4 DEF Pool

LEMMA FoundKept ==
  ASSUME TypeOK, Found, [Next]_vars
  PROVE  Found'
<1>1. ASSUME NEW j, Iterate(j) PROVE Found'
  <2>1. CASE j.id = 0
    BY <1>1, <2>1 DEF Iterate, Found, NoSlice
  <2>2. CASE j.id # 0
    <3>1. slice' = [NoSlice EXCEPT !.id = j.id, !.start = j.start]
      BY <1>1, <2>2 DEF Iterate
    <3>2. slice'.id = j.id /\ slice'.result = "none"
      BY <3>1 DEF NoSlice
    <3> QED
      BY <2>2, <3>2 DEF Found
  <2> QED
    BY <2>1, <2>2
<1>2. ASSUME UNCHANGED <<slice, left>>, solver' = "slice" => solver = "slice" PROVE Found'
  BY <1>2 DEF Found
<1>3. ASSUME slice' = NoSlice, solver' # "slice" PROVE Found'
  BY <1>3 DEF Found, NoSlice
<1>4. CASE Connect \/ ConnectFails \/ Main
  BY <1>1, <1>2, <1>3, <1>4
     DEF Main, Connect, ConnectFails, Subscribed, Authorized, HandshakeFails, StopReader,
         SessionEnds, SolverEnded, Close, Slept, localVars, pipeVars
<1>5. CASE Reader
  BY <1>2, <1>5 DEF Reader, Read, ReadEnd, localVars, pipeVars
<1>6. CASE SliceReturns
  <2>1. solver = "slice" /\ slice'.id = slice.id /\ slice.id # 0
    BY <1>6, SliceTyped DEF SliceReturns, Found
  <2> QED
    BY <1>6, <2>1, SliceTyped DEF Found
<1>7. CASE SliceDone
  BY <1>1, <1>2, <1>7 DEF SliceDone, Resume, pipeVars
<1>8. CASE Woken \/ SubmitDone \/ SleepDone
  BY <1>1, <1>8 DEF Woken, SubmitDone, SleepDone, Resume
<1>9. CASE Pool
  BY <1>2, <1>9 DEF Pool, PoolAnswers, PoolNotifies, PoolAdvances, Break, localVars, pipeVars
<1>10. CASE UNCHANGED vars
  BY <1>2, <1>10 DEF vars, localVars, pipeVars
<1> QED
  BY <1>4, <1>5, <1>6, <1>7, <1>8, <1>9, <1>10 DEF Next, Solver

LEMMA TypeKept ==
  ASSUME TypeOK, Found, [Next]_vars
  PROVE  TypeOK'
<1>1. CASE UNCHANGED vars
  BY <1>1 DEF vars, TypeOK, localVars, pipeVars, callVars, netVars, poolVars, bounds
<1> QED
  BY <1>1, TypeMain, TypeReader, TypeSolver, TypePool DEF Next

\* Every reachable state of the client is well-typed: a delay never exceeds its
\* bound, and what is submitted is a nonce of a job.
THEOREM TypeCorrect == Spec => [](TypeOK /\ Found)
<1>1. Init => TypeOK /\ Found
  BY TypeInit DEF Init, Found, NoSlice
<1>2. TypeOK /\ Found /\ [Next]_vars => (TypeOK /\ Found)'
  BY TypeKept, FoundKept
<1> QED
  BY <1>1, <1>2, PTL DEF Spec
\* Which of the tasks there are, and what they have left, where the main task stands.
Phase ==
  /\ main \in {"connect", "backoff"} =>
       reader = "off" /\ solver = "off" /\ job = NoJob /\ pending = {} /\ call = NoCall
  /\ main \in {"subscribe", "authorize", "stopReader", "close"} => solver = "off"
  /\ main \in {"stopReader", "close"} => call = NoCall
  /\ main \in {"stopSolver", "close"} => reader = "off"
  /\ main = "stopSolver" /\ solver = "off" => call = NoCall
  /\ 0 \notin pending

LEMMA CallPhase ==
  ASSUME TypeOK, 0 \notin pending, NEW m, NEW s, Call(m, s)
  PROVE  0 \notin pending'
BY DEF Call, TypeOK

LEMMA IteratePhase ==
  ASSUME NEW j, Iterate(j)
  PROVE  solver' \in {"waiting", "slice"}
<1>1. CASE j.id = 0
  BY <1>1 DEF Iterate
<1>2. CASE j.id # 0
  BY <1>2 DEF Iterate
<1> QED
  BY <1>1, <1>2

LEMMA PhaseMain ==
  ASSUME TypeOK, Phase, Connect \/ ConnectFails \/ Main
  PROVE  Phase'
<1>1. CASE Connect
  BY <1>1, CallPhase DEF Connect, Phase, localVars
<1>2. CASE ConnectFails
  BY <1>2 DEF ConnectFails, Phase, localVars, callVars
<1>3. CASE Subscribed
  BY <1>3, CallPhase DEF Subscribed, Phase, localVars
<1>4. CASE Authorized
  BY <1>4, IteratePhase DEF Authorized, Phase
<1>5. CASE HandshakeFails
  BY <1>5 DEF HandshakeFails, CallFails, Phase, localVars
<1>6. CASE StopReader
  BY <1>6 DEF StopReader, EndsReader, Phase, localVars, callVars
<1>7. CASE SessionEnds
  <2>1. solver = "off" => ~Swallows
    BY DEF Swallows
  <2> QED
    BY <1>7, <2>1 DEF SessionEnds, Phase
<1>8. CASE SolverEnded
  BY <1>8 DEF SolverEnded, Phase, localVars, callVars
<1>9. CASE Close
  BY <1>9 DEF Close, Phase
<1>10. CASE Slept
  BY <1>10 DEF Slept, Phase, localVars, callVars
<1> QED
  BY <1>1, <1>2, <1>3, <1>4, <1>5, <1>6, <1>7, <1>8, <1>9, <1>10 DEF Main

LEMMA PhaseReader ==
  ASSUME TypeOK, Phase, Reader
  PROVE  Phase'
<1>1. CASE ReadEnd
  BY <1>1 DEF ReadEnd, Phase, localVars, callVars
<1>2. CASE Read
  <2>1. reader = "reading" /\ UNCHANGED <<main, reader, solver>>
    BY <1>2 DEF Read
  <2>2. main \notin {"connect", "backoff", "stopSolver", "close"}
    BY <2>1 DEF Phase
  <2> DEFINE m == Head(messages)
  <2>3. ReadNotify(m) \/ ReadAnswer(m)
    BY <1>2 DEF Read
  <2>4. 0 \notin pending'
    BY <2>3 DEF ReadNotify, ReadAnswer, Phase
  <2>5. call = NoCall => call' = NoCall
    BY <2>3 DEF ReadNotify, ReadAnswer, Answers, Phase, NoCall
  <2> QED
    BY <2>1, <2>2, <2>4, <2>5 DEF Phase
<1> QED
  BY <1>1, <1>2 DEF Reader

LEMMA PhaseSolver ==
  ASSUME TypeOK, Phase, Solver
  PROVE  Phase'
<1>1. solver # "off" /\ solver' # "off" /\ UNCHANGED <<main, reader>>
  BY IteratePhase DEF Solver, Woken, SliceReturns, SliceDone, SubmitDone, SleepDone, Resume
<1>2. 0 \notin pending'
  <2>1. 0 \notin pending
    BY DEF Phase
  <2>2. CASE Woken \/ SliceReturns \/ SleepDone
    BY <2>1, <2>2 DEF Woken, SliceReturns, SleepDone, callVars
  <2>3. CASE SliceDone
    BY <2>1, <2>3, CallPhase DEF SliceDone, callVars
  <2>4. CASE SubmitDone
    BY <2>1, <2>4 DEF SubmitDone, CallFails
  <2> QED
    BY <2>2, <2>3, <2>4 DEF Solver
<1>3. main \in {"run", "stopSolver"}
  BY <1>1 DEF Phase, TypeOK
<1> QED
  BY <1>1, <1>2, <1>3 DEF Phase

LEMMA PhaseKept ==
  ASSUME TypeOK, Phase, [Next]_vars
  PROVE  Phase'
<1>1. CASE Pool
  BY <1>1 DEF Pool, PoolAnswers, PoolNotifies, PoolAdvances, Break, Phase, localVars, callVars
<1>2. CASE UNCHANGED vars
  BY <1>2 DEF vars, Phase, localVars, callVars
<1> QED
  BY <1>1, <1>2, PhaseMain, PhaseReader, PhaseSolver DEF Next

\* However a session of the client has ended (in the handshake, in a slice, in a
\* submission), the next one inherits no task, no job and no pending call: the
\* finally clause of _session_once leaves nothing behind.
THEOREM SessionLeavesNothing == Spec => []NothingSurvives
<1>1. Init => Phase
  BY DEF Init, Phase
<1>2. TypeOK /\ Phase /\ [Next]_vars => Phase'
  BY PhaseKept
<1>3. Phase => NothingSurvives
  BY DEF Phase, NothingSurvives
<1> QED
  BY <1>1, <1>2, <1>3, TypeCorrect, PTL DEF Spec
\* A share of a job that is the client's own when it is submitted.
Submits ==
  /\ solver = "slice" /\ slice.result = "found" /\ StillCurrent
  /\ shares' = Append(shares, [job |-> slice.id, nonce |-> slice.nonce,
                               current |-> job.id, record |-> WhoseRecord,
                               pool |-> "open", client |-> "open"])

LEMMA SharesStep ==
  ASSUME TypeOK, [Next]_vars
  PROVE  \/ Connect /\ shares' = <<>>
         \/ SliceDone /\ Submits
         \/ Same(shares, shares')
<1>1. ASSUME UNCHANGED shares PROVE Same(shares, shares')
  BY <1>1 DEF Same
<1>2. CASE Connect
  BY <1>2 DEF Connect
<1>3. CASE SessionEnds
  <2> DEFINE t == [shares EXCEPT ![Len(shares)].client = "abandoned"]
  <2>1. Same(shares, t)
    BY ClientUpdate DEF TypeOK
  <2> HIDE DEF t
  <2>2. shares' = shares \/ shares' = t
    BY <1>3 DEF SessionEnds, t
  <2> QED
    BY <1>1, <2>1, <2>2
<1>4. CASE ConnectFails \/ Subscribed \/ Authorized \/ HandshakeFails \/ StopReader
              \/ SolverEnded \/ Close \/ Slept \/ Reader
  <2>1. UNCHANGED shares
    BY <1>4 DEF ConnectFails, Subscribed, Authorized, HandshakeFails, StopReader,
                SolverEnded, Close, Slept, Reader, Read, ReadEnd
  <2> QED
    BY <1>1, <2>1
<1>5. CASE SliceDone
  <2>1. UNCHANGED shares \/ Submits
    BY <1>5 DEF SliceDone, Submits
  <2> QED
    BY <1>1, <1>5, <2>1
<1>6. CASE SubmitDone
  <2>1. CASE call.answer = "yes" /\ shares' = [shares EXCEPT ![Len(shares)].client = "accepted"]
    BY <2>1, ClientUpdate DEF TypeOK
  <2>2. ASSUME shares' = [shares EXCEPT ![Len(shares)].client =
                            IF call.answer = "no" THEN "rejected" ELSE "gave up"]
        PROVE  Same(shares, shares')
    BY <2>2, ClientUpdate DEF TypeOK
  <2> QED
    BY <1>6, <2>1, <2>2 DEF SubmitDone
<1>7. CASE Woken \/ SliceReturns \/ SleepDone
  <2>1. UNCHANGED shares
    BY <1>7 DEF Woken, SliceReturns, SleepDone
  <2> QED
    BY <1>1, <2>1
<1>8. CASE PoolAnswers
  <2> DEFINE r == Head(requests)
  <2>1. shares \in Seq(Share)
    BY DEF TypeOK
  <2>2. CASE Hears(r)
    BY <1>1, <2>2 DEF Hears
  <2>3. ASSUME NEW good \in BOOLEAN, Judges(r, good) PROVE Same(shares, shares')
    BY <2>1, <2>3, PoolUpdate DEF Judges
  <2>4. CASE Refuses(r)
    BY <2>1, <2>4, RefusedTyped DEF Refuses
  <2> QED
    BY <1>8, <2>2, <2>3, <2>4, PoolAnswersCases
<1>9. CASE PoolNotifies \/ PoolAdvances \/ Break
  <2>1. UNCHANGED shares
    BY <1>9 DEF PoolNotifies, PoolAdvances, Break
  <2> QED
    BY <1>1, <2>1
<1>10. CASE UNCHANGED vars
  BY <1>1, <1>10 DEF vars
<1> QED
  BY <1>2, <1>3, <1>4, <1>5, <1>6, <1>7, <1>8, <1>9, <1>10 DEF Next, Main, Solver, Pool

\* As long as no session has left a job behind, the process answers none of those.
Uncut == ~cut => left = 0

LEMMA UncutKept ==
  ASSUME TypeOK, Uncut, [Next]_vars
  PROVE  Uncut'
<1>1. ASSUME UNCHANGED <<left, cut>> PROVE Uncut'
  BY <1>1 DEF Uncut
<1>2. CASE SessionEnds
  <2>1. CASE LeavesJob
    <3>1. left' \in Nat
      BY <2>1 DEF LeavesJob, TypeOK
    <3>2. ~cut' => ~(left' > 0)
      BY <2>1 DEF LeavesJob
    <3> QED
      BY <3>1, <3>2 DEF Uncut
  <2> QED
    BY <1>1, <1>2, <2>1 DEF SessionEnds, pipeVars
<1>3. CASE SliceReturns
  BY <1>3 DEF SliceReturns, Uncut
<1>4. CASE ConnectFails \/ (Main /\ ~SessionEnds) \/ Connect
  BY <1>1, <1>4 DEF Main, Connect, ConnectFails, Subscribed, Authorized, HandshakeFails,
     StopReader, SolverEnded, Close, Slept, pipeVars
<1>5. CASE Reader \/ Pool
  BY <1>1, <1>5 DEF Reader, Read, ReadEnd, Pool, PoolAnswers, PoolNotifies, PoolAdvances,
     Break, pipeVars
<1>6. CASE Woken \/ SliceDone \/ SubmitDone \/ SleepDone
  BY <1>1, <1>6 DEF Woken, SliceDone, SubmitDone, SleepDone, pipeVars
<1>7. CASE UNCHANGED vars
  BY <1>1, <1>7 DEF vars, pipeVars
<1> QED
  BY <1>2, <1>3, <1>4, <1>5, <1>6, <1>7 DEF Next, Solver

LEMMA OwnWorkKept ==
  ASSUME TypeOK, Found, Uncut, OwnWork, [Next]_vars
  PROVE  OwnWork'
<1>1. shares \in Seq(Share)
  BY DEF TypeOK
<1>2. CASE shares' = <<>>
  BY <1>2 DEF OwnWork
<1>3. ~cut' => ~cut
  <2>1. CASE SessionEnds
    BY <2>1 DEF SessionEnds, LeavesJob, pipeVars
  <2>2. CASE ~SessionEnds
    BY <2>2 DEF Next, Connect, ConnectFails, Main, Subscribed, Authorized, HandshakeFails,
       StopReader, SolverEnded, Close, Slept, Reader, Read, ReadEnd, Solver, Woken,
       SliceReturns, SliceDone, SubmitDone, SleepDone, Pool, PoolAnswers, PoolNotifies,
       PoolAdvances, Break, pipeVars, vars
  <2> QED
    BY <2>1, <2>2
<1>4. CASE Submits
  <2>1. job.id = slice.id
    BY <1>4 DEF Submits, StillCurrent
  <2>2. /\ WhoseRecord = "own" => <<slice.id, slice.nonce>> \in Hits
        /\ ~cut => WhoseRecord = "own"
    BY <1>4 DEF Submits, Found, Uncut, WhoseRecord
  <2>3. /\ Len(shares') = Len(shares) + 1
        /\ \A i \in 1..Len(shares) : shares'[i] = shares[i]
        /\ shares'[Len(shares) + 1] = [job |-> slice.id, nonce |-> slice.nonce,
                                       current |-> job.id, record |-> WhoseRecord,
                                       pool |-> "open", client |-> "open"]
    BY <1>1, <1>4 DEF Submits
  <2>4. ASSUME NEW i \in 1..Len(shares')
        PROVE  /\ shares'[i].current = shares'[i].job
               /\ shares'[i].record = "own" => <<shares'[i].job, shares'[i].nonce>> \in Hits
               /\ ~cut' => shares'[i].record = "own"
    <3>1. CASE i = Len(shares) + 1
      BY <1>3, <2>1, <2>2, <2>3, <3>1
    <3>2. CASE i # Len(shares) + 1
      <4>1. i \in 1..Len(shares)
        BY <1>1, <2>3, <3>2
      <4> QED
        BY <1>3, <2>3, <4>1 DEF OwnWork
    <3> QED
      BY <3>1, <3>2
  <2> QED
    BY <2>4 DEF OwnWork
<1>5. CASE Same(shares, shares')
  BY <1>3, <1>5 DEF Same, OwnWork
<1> QED
  BY <1>2, <1>4, <1>5, SharesStep

\* A nonce is submitted for the current job of the client, whatever the reader did
\* during the slice and whatever job the pool sent: _solver_loop checks the job before
\* it submits.  It is a nonce found for that job if the record is the slice's own,
\* and the record is, as long as no session that ended has left the solver's process
\* a job: _result_from_record does not look whose record it is.
THEOREM SubmitsOwnWork == Spec => []OwnWork
<1>1. Init => Uncut /\ OwnWork
  BY DEF Init, Uncut, OwnWork
<1>2. TypeOK /\ Found /\ Uncut /\ OwnWork /\ [Next]_vars => (Uncut /\ OwnWork)'
  BY UncutKept, OwnWorkKept
<1> QED
  BY <1>1, <1>2, TypeCorrect, PTL DEF Spec
(***************************************************************************)
(* Answers: one of them is for one call, one request for one share.        *)
(***************************************************************************)
\* The pool's verdict on the share of the call the solver awaits.
Verdict(a) ==
  /\ a = "yes" => shares[Len(shares)].pool = "credited"
  /\ a = "no" => shares[Len(shares)].pool = "refused"

\* A request the pool has not answered: nothing is known of its share.
Unanswered(r) ==
  /\ r.id \in 1..lastId
  /\ r.method = "submit" => /\ r.share \in 1..Len(shares) /\ shares[r.share].pool = "open"
                            /\ solver = "submit" /\ r.id = call.id => r.share = Len(shares)
  /\ r.method # "submit" => r.share = 0 /\ ~(solver = "submit" /\ r.id = call.id)

\* An answer that has not arrived.
Underway(m) ==
  "job" \notin DOMAIN m =>
    /\ m.id \in 1..lastId
    /\ solver = "submit" /\ m.id = call.id => Verdict(m.answer)

Quiet == main \in {"connect", "backoff"} => link = "none" /\ requests = <<>> /\ messages = <<>>

Distinct ==
  \A i, k \in 1..Len(requests) :
    i # k /\ requests[i].method = "submit" /\ requests[k].method = "submit" =>
      requests[i].share # requests[k].share

Awaited == solver = "submit" => Len(shares) >= 1 /\ call.id \in 1..lastId /\ Verdict(call.answer)

Match ==
  /\ Quiet
  /\ \A i \in 1..Len(requests) : Unanswered(requests[i])
  /\ Distinct
  /\ \A i \in 1..Len(messages) : Underway(messages[i])
  /\ Awaited
  /\ AnswersMatch

\* The pool has decided nothing new.
Alike(s, t) == Len(t) = Len(s) /\ \A i \in 1..Len(s) : t[i].pool = s[i].pool

\* A step of the client that sends and hears nothing.
LEMMA MatchSilent ==
  ASSUME TypeOK, Match, UNCHANGED <<requests, messages, lastId>>, Alike(shares, shares'),
         solver' = "submit" => solver = "submit" /\ call' = call, Quiet', AnswersMatch'
  PROVE  Match'
<1>1. Len(shares) \in Nat /\ Len(shares') = Len(shares)
  BY DEF TypeOK, Alike
<1>2. solver' = "submit" =>
        Len(shares) >= 1 /\ shares'[Len(shares')].pool = shares[Len(shares)].pool
  BY <1>1 DEF Match, Awaited, Alike
<1>3. ASSUME NEW r, Unanswered(r) PROVE Unanswered(r)'
  BY <1>1, <1>3 DEF Unanswered, Alike
<1>4. ASSUME NEW m, Underway(m) PROVE Underway(m)'
  BY <1>2, <1>4 DEF Underway, Verdict
<1>5. Awaited'
  BY <1>1, <1>2 DEF Match, Awaited, Verdict
<1>6. Distinct'
  BY DEF Match, Distinct
<1> QED
  BY <1>3, <1>4, <1>5, <1>6 DEF Match

LEMMA AppendCases ==
  ASSUME NEW S, NEW s \in Seq(S), NEW x, NEW i \in 1..Len(Append(s, x))
  PROVE  \/ i \in 1..Len(s) /\ Append(s, x)[i] = s[i]
         \/ i = Len(s) + 1 /\ Append(s, x)[i] = x
OBVIOUS

\* A call of the handshake.
LEMMA MatchCall ==
  ASSUME TypeOK, Match, NEW m \in {"subscribe", "authorize"}, Call(m, 0),
         solver = "off", solver' = "off", messages' = messages, Quiet', AnswersMatch',
         shares' = shares \/ (shares' = <<>> /\ requests = <<>>)
  PROVE  Match'
<1> DEFINE new == [id |-> lastId + 1, method |-> m, share |-> 0]
<1>1. /\ lastId \in Nat /\ lastId' = lastId + 1 /\ requests \in Seq(Request)
      /\ requests' = requests \/ requests' = Append(requests, new)
  BY DEF Call, TypeOK
<1>2. ASSUME NEW r, Unanswered(r), requests # <<>> PROVE Unanswered(r)'
  BY <1>1, <1>2 DEF Unanswered
<1>3. ASSUME NEW r, r = new PROVE Unanswered(r)'
  BY <1>1, <1>3 DEF Unanswered
<1>4. ASSUME NEW i \in 1..Len(requests'), NEW r, r = requests'[i] PROVE Unanswered(r)'
  <2>1. CASE i \in 1..Len(requests) /\ requests'[i] = requests[i]
    BY <1>1, <1>2, <1>4, <2>1 DEF Match
  <2>2. CASE requests'[i] = new
    BY <1>3, <1>4, <2>2
  <2> QED
    BY <1>1, <2>1, <2>2, AppendCases
<1>5. Distinct'
  <2> SUFFICES ASSUME NEW i \in 1..Len(requests'), NEW k \in 1..Len(requests'), i # k,
                      requests'[i].method = "submit", requests'[k].method = "submit"
               PROVE  requests'[i].share # requests'[k].share
    BY DEF Distinct
  <2>1. /\ i \in 1..Len(requests) /\ requests'[i] = requests[i]
        /\ k \in 1..Len(requests) /\ requests'[k] = requests[k]
    BY <1>1, AppendCases
  <2> QED
    BY <2>1 DEF Match, Distinct
<1>6. ASSUME NEW x, Underway(x) PROVE Underway(x)'
  BY <1>1, <1>6 DEF Underway
<1>7. (\A i \in 1..Len(requests) : Unanswered(requests[i]))'
  BY <1>4
<1>8. (\A i \in 1..Len(messages) : Underway(messages[i]))'
  BY <1>6 DEF Match
<1> QED
  BY <1>5, <1>7, <1>8 DEF Match, Awaited
\* The call of a submission.
LEMMA MatchSubmit ==
  ASSUME TypeOK, Match, Submits, Call("submit", Len(shares) + 1), messages' = messages,
         solver' = "submit", Quiet'
  PROVE  Match'
<1> DEFINE n   == Len(shares) + 1
           new == [id |-> lastId + 1, method |-> "submit", share |-> n]
<1>1. /\ lastId \in Nat /\ lastId' = lastId + 1 /\ requests \in Seq(Request)
      /\ requests' = requests \/ requests' = Append(requests, new)
      /\ call'.id = lastId + 1 /\ call'.answer \in {"none", "unsent"}
  BY DEF Call, TypeOK
<1>2. /\ n \in Nat /\ Len(shares') = n
      /\ \A i \in 1..Len(shares) : shares'[i] = shares[i]
      /\ shares'[n].pool = "open" /\ shares'[n].client = "open"
  <2>1. shares \in Seq(Share)
    BY DEF TypeOK
  <2> QED
    BY <2>1 DEF Submits
<1>3. solver = "slice"
  BY DEF Submits
<1>4. ASSUME NEW r, Unanswered(r) PROVE Unanswered(r)'
  BY <1>1, <1>2, <1>3, <1>4 DEF Unanswered
<1>5. ASSUME NEW r, r = new PROVE Unanswered(r)'
  BY <1>1, <1>2, <1>5 DEF Unanswered
<1>6. (\A i \in 1..Len(requests) : Unanswered(requests[i]))'
  <2>1. ASSUME NEW i \in 1..Len(requests'), NEW r, r = requests'[i] PROVE Unanswered(r)'
    <3>1. CASE i \in 1..Len(requests) /\ requests'[i] = requests[i]
      BY <1>4, <2>1, <3>1 DEF Match
    <3>2. CASE requests'[i] = new
      BY <1>5, <2>1, <3>2
    <3> QED
      BY <1>1, <3>1, <3>2, AppendCases
  <2> QED
    BY <2>1
<1>7. Distinct'
  <2> SUFFICES ASSUME NEW i \in 1..Len(requests'), NEW k \in 1..Len(requests'), i # k,
                      requests'[i].method = "submit", requests'[k].method = "submit"
               PROVE  requests'[i].share # requests'[k].share
    BY DEF Distinct
  <2>1. ASSUME NEW l \in 1..Len(requests')
        PROVE  \/ l \in 1..Len(requests) /\ requests'[l] = requests[l]
               \/ l = Len(requests) + 1 /\ requests'[l] = new
    <3>1. CASE requests' = requests
      BY <3>1
    <3>2. CASE requests' = Append(requests, new)
      <4> HIDE DEF new
      <4> QED
        BY <1>1, <3>2, AppendCases
    <3> QED
      BY <1>1, <3>1, <3>2
  <2>2. ASSUME NEW l \in 1..Len(requests), requests[l].method = "submit"
        PROVE  requests[l].share # n
    BY <1>2, <2>2 DEF Match, Unanswered
  <2>3. CASE i \in 1..Len(requests) /\ requests'[i] = requests[i]
    <3>1. CASE k \in 1..Len(requests) /\ requests'[k] = requests[k]
      BY <2>3, <3>1 DEF Match, Distinct
    <3>2. CASE requests'[k] = new
      BY <2>2, <2>3, <3>2
    <3> QED
      BY <2>1, <3>1, <3>2
  <2>4. CASE i = Len(requests) + 1 /\ requests'[i] = new
    <3>1. k \in 1..Len(requests) /\ requests'[k] = requests[k]
      BY <2>1, <2>4
    <3> QED
      BY <2>2, <2>4, <3>1
  <2> QED
    BY <2>1, <2>3, <2>4
<1>8. ASSUME NEW m, Underway(m) PROVE Underway(m)'
  BY <1>1, <1>8 DEF Underway
<1>9. (\A i \in 1..Len(messages) : Underway(messages[i]))'
  BY <1>8 DEF Match
<1>10. Awaited'
  BY <1>1, <1>2 DEF Awaited, Verdict
<1>11. AnswersMatch'
  BY <1>2 DEF Match, AnswersMatch
<1> QED
  BY <1>6, <1>7, <1>9, <1>10, <1>11 DEF Match

\* What the client writes into the history leaves the pool's part alone.
LEMMA ClientAlike ==
  ASSUME TypeOK, NEW i, NEW x \in {"open", "accepted", "rejected", "gave up", "abandoned"},
         shares' = [shares EXCEPT ![i].client = x],
         AnswersMatch, i \in 1..Len(shares) /\ x = "accepted" => shares[i].pool = "credited",
         i \in 1..Len(shares) /\ x = "rejected" => shares[i].pool = "refused"
  PROVE  Alike(shares, shares') /\ AnswersMatch'
<1>1. shares \in Seq(Share)
  BY DEF TypeOK
<1> DEFINE t == [shares EXCEPT ![i].client = x]
<1>0. Same(shares, t) /\ Becomes(shares, i, x, t)
  BY <1>1, ClientUpdate
<1> HIDE DEF t
<1>2. /\ Len(t) = Len(shares)
      /\ \A k \in 1..Len(shares) : /\ t[k].pool = shares[k].pool
                                   /\ t[k].client = IF k = i THEN x ELSE shares[k].client
  BY <1>0 DEF Same, Becomes
<1>3. shares' = t
  BY DEF t
<1>4. Alike(shares, shares')
  BY <1>2, <1>3 DEF Alike
<1>5. ASSUME NEW k \in 1..Len(shares')
      PROVE  /\ shares'[k].client = "accepted" => shares'[k].pool = "credited"
             /\ shares'[k].client = "rejected" => shares'[k].pool = "refused"
  <2>1. /\ k \in 1..Len(shares) /\ shares'[k].pool = shares[k].pool
        /\ shares'[k].client = IF k = i THEN x ELSE shares[k].client
    BY <1>2, <1>3
  <2>2. CASE k = i
    BY <2>1, <2>2
  <2>3. CASE k # i
    BY <2>1, <2>3 DEF AnswersMatch
  <2> QED
    BY <2>2, <2>3
<1>6. AnswersMatch'
  BY <1>5 DEF AnswersMatch
<1> QED
  BY <1>4, <1>6

LEMMA MatchMain ==
  ASSUME TypeOK, Phase, Match, Connect \/ ConnectFails \/ Main
  PROVE  Match'
<1>1. ASSUME shares' = shares PROVE Alike(shares, shares') /\ AnswersMatch'
  BY <1>1 DEF Alike, AnswersMatch, Match
<1>2. CASE Connect
  BY <1>2, MatchCall DEF Connect, Match, Quiet, Phase, AnswersMatch, localVars
<1>3. CASE Subscribed
  BY <1>1, <1>3, MatchCall DEF Subscribed, Quiet, Phase, localVars
<1>4. CASE Authorized
  BY <1>1, <1>4, IteratePhase, MatchSilent DEF Authorized, Quiet, netVars
<1>5. CASE HandshakeFails
  BY <1>1, <1>5, MatchSilent DEF HandshakeFails, Quiet, Phase, localVars, netVars
<1>6. CASE StopReader \/ SolverEnded
  BY <1>1, <1>6, MatchSilent
     DEF StopReader, SolverEnded, Quiet, localVars, callVars, netVars
<1>7. CASE ConnectFails \/ Slept
  BY <1>1, <1>7, MatchSilent
     DEF ConnectFails, Slept, Match, Quiet, localVars, callVars, netVars
<1>8. CASE SessionEnds
  <2>1. Alike(shares, shares') /\ AnswersMatch'
    <3>1. CASE shares' = [shares EXCEPT ![Len(shares)].client = "abandoned"]
      BY <3>1, ClientAlike DEF Match
    <3> QED
      BY <1>1, <1>8, <3>1 DEF SessionEnds
  <2>2. solver' = "submit" => solver = "submit" /\ call' = call
    BY <1>8 DEF SessionEnds
  <2> QED
    BY <1>8, <2>1, <2>2, MatchSilent DEF SessionEnds, Quiet, netVars
<1>9. CASE Close
  BY <1>1, <1>9 DEF Close, Match, Quiet, Distinct, Awaited, Phase
<1> QED
  BY <1>2, <1>3, <1>4, <1>5, <1>6, <1>7, <1>8, <1>9 DEF Main
LEMMA MatchReader ==
  ASSUME TypeOK, Match, Reader
  PROVE  Match'
<1>1. UNCHANGED <<main, solver, lastId, link, requests, shares>>
  BY DEF Reader, Read, ReadEnd, localVars, callVars, netVars
<1>2. CASE ReadEnd
  <2>1. Alike(shares, shares') /\ AnswersMatch'
    BY <1>1 DEF Alike, AnswersMatch, Match
  <2> QED
    BY <1>2, <2>1, MatchSilent DEF ReadEnd, Match, Quiet, localVars, callVars, netVars
<1>3. CASE Read
  <2> DEFINE m == Head(messages)
  <2>1. /\ messages \in Seq(Message) /\ messages # <<>> /\ messages' = Tail(messages)
        /\ call \in CallType
    BY <1>3 DEF Read, TypeOK, CallType
  <2>2. Underway(m)
    BY <2>1 DEF Match
  <2>3. call'.id = call.id
    BY <1>3, <2>1 DEF Read, ReadAnswer, ReadNotify, CallType
  <2>4. call'.answer = call.answer
          \/ ("job" \notin DOMAIN m /\ m.id = call.id /\ call'.answer = m.answer)
    BY <1>3, <2>1 DEF Read, ReadAnswer, ReadNotify, Answers, CallType
  <2>5. Awaited'
    BY <1>1, <2>2, <2>3, <2>4 DEF Match, Awaited, Verdict, Underway
  <2>6. ASSUME NEW x, Underway(x) PROVE Underway(x)'
    BY <1>1, <2>3, <2>6 DEF Underway, Verdict
  <2>7. ASSUME NEW x, Unanswered(x) PROVE Unanswered(x)'
    BY <1>1, <2>3, <2>7 DEF Unanswered
  <2>8. \A i \in 1..Len(messages') :
          i + 1 \in 1..Len(messages) /\ messages'[i] = messages[i + 1]
    BY <2>1
  <2>9. (\A i \in 1..Len(messages) : Underway(messages[i]))'
    BY <2>6, <2>8 DEF Match
  <2>10. (\A i \in 1..Len(requests) : Unanswered(requests[i]))'
    BY <1>1, <2>7 DEF Match
  <2>11. Quiet' /\ Distinct' /\ AnswersMatch'
    BY <1>1, <2>1 DEF Match, Quiet, Distinct, AnswersMatch
  <2> QED
    BY <2>5, <2>9, <2>10, <2>11 DEF Match
<1> QED
  BY <1>2, <1>3 DEF Reader

LEMMA MatchSolver ==
  ASSUME TypeOK, Phase, Match, Solver
  PROVE  Match'
<1>1. UNCHANGED <<main, link, messages>>
  BY DEF Solver, Woken, SliceReturns, SliceDone, SubmitDone, SleepDone, netVars
<1>2. main \notin {"connect", "backoff"}
  BY DEF Phase, Solver, Woken, SliceReturns, SliceDone, SubmitDone, SleepDone
<1>3. Quiet'
  BY <1>1, <1>2 DEF Quiet
<1>4. ASSUME shares' = shares PROVE Alike(shares, shares') /\ AnswersMatch'
  BY <1>4 DEF Alike, AnswersMatch, Match
<1>5. CASE Woken \/ SliceReturns \/ SleepDone
  <2>1. solver' # "submit"
    BY <1>5, IteratePhase DEF Woken, SliceReturns, SleepDone, Resume
  <2>2. UNCHANGED <<requests, messages, lastId, shares>>
    BY <1>5 DEF Woken, SliceReturns, SleepDone, callVars, netVars
  <2> QED
    BY <1>3, <1>4, <2>1, <2>2, MatchSilent
<1>6. CASE SliceDone
  <2>1. CASE /\ Submits /\ solver' = "submit" /\ Call("submit", Len(shares) + 1)
    BY <1>1, <1>3, <2>1, MatchSubmit
  <2>2. CASE solver' # "submit" /\ UNCHANGED <<callVars, requests, shares>>
    BY <1>1, <1>3, <1>4, <2>2, MatchSilent DEF callVars
  <2>3. ASSUME Resume PROVE solver' # "submit"
    BY <2>3, IteratePhase DEF Resume
  <2> QED
    BY <1>6, <2>1, <2>2, <2>3 DEF SliceDone, Submits
<1>7. CASE SubmitDone
  <2>1. solver' # "submit"
    BY <1>7, IteratePhase DEF SubmitDone, Resume
  <2>2. solver = "submit" /\ UNCHANGED <<requests, lastId>>
    BY <1>7 DEF SubmitDone, netVars
  <2> DEFINE x == IF call.answer = "yes" THEN "accepted"
                  ELSE IF call.answer = "no" THEN "rejected" ELSE "gave up"
  <2>3. shares' = [shares EXCEPT ![Len(shares)].client = x]
    BY <1>7 DEF SubmitDone, CallFails, TimesOut
  <2>4. Verdict(call.answer)
    BY <2>2 DEF Match, Awaited
  <2>5. x \in {"accepted", "rejected", "gave up"}
          /\ (x = "accepted" => shares[Len(shares)].pool = "credited")
          /\ (x = "rejected" => shares[Len(shares)].pool = "refused")
    BY <2>4 DEF Verdict
  <2> HIDE DEF x
  <2>6. Alike(shares, shares') /\ AnswersMatch'
    BY <2>3, <2>5, ClientAlike DEF Match
  <2> QED
    BY <1>1, <1>3, <2>1, <2>2, <2>6, MatchSilent
<1> QED
  BY <1>5, <1>6, <1>7 DEF Solver

\* The pool has decided the submission k, of which nothing was known, or none.
Decides(k) ==
  /\ UNCHANGED <<solver, call, lastId>>
  /\ Len(shares') = Len(shares)
  /\ \A i \in 1..Len(shares) : /\ shares'[i].client = shares[i].client
                               /\ i # k => shares'[i].pool = shares[i].pool
                               /\ i = k => shares[i].pool = "open"

LEMMA Decided ==
  ASSUME TypeOK, Match, NEW k, Decides(k)
  PROVE  /\ Awaited' /\ AnswersMatch'
         /\ \A m : Underway(m) => Underway(m)'
         /\ \A r : Unanswered(r) /\ (r.method = "submit" => r.share # k) => Unanswered(r)'
<1>1. AnswersMatch'
  BY DEF Match, AnswersMatch, Decides
<1>2. Len(shares) \in Nat
  BY DEF TypeOK
<1>3. ASSUME NEW a, solver = "submit", Verdict(a) PROVE Verdict(a)'
  <2>1. Len(shares) \in 1..Len(shares)
    BY <1>2, <1>3 DEF Match, Awaited
  <2> QED
    BY <1>3, <2>1 DEF Decides, Verdict
<1>4. Awaited'
  BY <1>3 DEF Match, Awaited, Decides
<1>5. ASSUME NEW m, Underway(m) PROVE Underway(m)'
  BY <1>3, <1>5 DEF Underway, Decides
<1>6. ASSUME NEW r, Unanswered(r), r.method = "submit" => r.share # k PROVE Unanswered(r)'
  BY <1>6 DEF Unanswered, Decides
<1> QED
  BY <1>1, <1>4, <1>5, <1>6
LEMMA RuledDecides ==
  ASSUME TypeOK, UNCHANGED <<solver, call, lastId>>, NEW k, NEW x,
         Same(shares, shares'), Ruled(shares, k, x, shares'),
         k \in 1..Len(shares) => shares[k].pool = "open"
  PROVE  Decides(k)
<1>1. Len(shares') = Len(shares)
  BY DEF Same
<1>2. ASSUME NEW i \in 1..Len(shares)
      PROVE  /\ shares'[i].client = shares[i].client
             /\ i # k => shares'[i].pool = shares[i].pool
             /\ i = k => shares[i].pool = "open"
  BY <1>2 DEF Ruled
<1> QED
  BY <1>1, <1>2 DEF Decides

\* The pool answers the first request, and no other is about the share it decides.
LEMMA MatchAnswered ==
  ASSUME TypeOK, Match, UNCHANGED <<main, link>>, requests # <<>>, requests' = Tail(requests),
         NEW k, Decides(k),
         \A i \in 2..Len(requests) : requests[i].method = "submit" => requests[i].share # k,
         (\A i \in 1..Len(messages) : Underway(messages[i]))'
  PROVE  Match'
<1>1. requests \in Seq(Request)
  BY DEF TypeOK
<1>2. ASSUME NEW i \in 1..Len(requests')
      PROVE  i + 1 \in 2..Len(requests) /\ requests'[i] = requests[i + 1]
  BY <1>1
<1>3. ASSUME NEW i \in 1..Len(requests'), NEW r, r = requests'[i] PROVE Unanswered(r)'
  <2>1. i + 1 \in 2..Len(requests) /\ i + 1 \in 1..Len(requests) /\ r = requests[i + 1]
    BY <1>1, <1>2, <1>3
  <2>2. Unanswered(r) /\ (r.method = "submit" => r.share # k)
    BY <2>1 DEF Match
  <2> QED
    BY <2>2, Decided
<1>4. (\A i \in 1..Len(requests) : Unanswered(requests[i]))'
  BY <1>3
<1>5. Distinct'
  <2> SUFFICES ASSUME NEW i \in 1..Len(requests'), NEW j \in 1..Len(requests'), i # j,
                      requests'[i].method = "submit", requests'[j].method = "submit"
               PROVE  requests'[i].share # requests'[j].share
    BY DEF Distinct
  <2>1. /\ i + 1 \in 1..Len(requests) /\ requests'[i] = requests[i + 1]
        /\ j + 1 \in 1..Len(requests) /\ requests'[j] = requests[j + 1]
        /\ i + 1 # j + 1
    BY <1>1, <1>2
  <2> QED
    BY <2>1 DEF Match, Distinct
<1>6. Quiet'
  BY DEF Match, Quiet
<1> QED
  BY <1>4, <1>5, <1>6, Decided DEF Match

\* The answer to the first request is on its way behind the others.
LEMMA AnswerSent ==
  ASSUME TypeOK, Match, NEW k, Decides(k), NEW r, NEW a \in {"yes", "no"},
         requests # <<>>, r = Head(requests), Send([id |-> r.id, answer |-> a]),
         solver = "submit" /\ r.id = call.id => Verdict(a)'
  PROVE  (\A i \in 1..Len(messages) : Underway(messages[i]))'
<1> DEFINE new == [id |-> r.id, answer |-> a]
<1>1. messages \in Seq(Message) /\ messages' = Append(messages, new)
  BY DEF TypeOK, Send
<1>2. r.id \in 1..lastId
  BY DEF Match, Unanswered, TypeOK
<1>3. ASSUME NEW m, m = new PROVE Underway(m)'
  BY <1>2, <1>3 DEF Underway, Decides
<1> HIDE DEF new
<1>4. ASSUME NEW i \in 1..Len(messages'), NEW m, m = messages'[i] PROVE Underway(m)'
  <2>1. CASE i \in 1..Len(messages) /\ messages'[i] = messages[i]
    <3>1. Underway(m)
      BY <1>4, <2>1 DEF Match
    <3> QED
      BY <3>1, Decided
  <2>2. CASE messages'[i] = new
    BY <1>3, <1>4, <2>2
  <2> QED
    BY <1>1, <2>1, <2>2, AppendCases
<1> QED
  BY <1>4

LEMMA MatchPoolAnswers ==
  ASSUME TypeOK, Match, PoolAnswers
  PROVE  Match'
<1> DEFINE r == Head(requests)
<1>1. /\ requests \in Seq(Request) /\ requests # <<>> /\ requests' = Tail(requests)
      /\ shares \in Seq(Share) /\ messages \in Seq(Message)
      /\ UNCHANGED <<main, link, solver, call, lastId>>
  BY DEF PoolAnswers, TypeOK, localVars, callVars
<1>2. Unanswered(r) /\ r \in Request /\ 1 \in 1..Len(requests) /\ r = requests[1]
  BY <1>1 DEF Match
<1>3. ASSUME NEW i \in 2..Len(requests), r.method = "submit", requests[i].method = "submit"
      PROVE  requests[i].share # r.share
  <2>1. i \in 1..Len(requests) /\ i # 1
    BY <1>1
  <2> QED
    BY <1>2, <1>3, <2>1 DEF Match, Distinct
<1>4. ASSUME NEW i \in 2..Len(requests), requests[i].method = "submit"
      PROVE  requests[i].share # r.share
  <2>1. i \in 1..Len(requests)
    BY <1>1
  <2>2. requests[i].share \in 1..Len(shares)
    BY <1>4, <2>1 DEF Match, Unanswered
  <2>3. CASE r.method = "submit"
    BY <1>3, <1>4, <2>3
  <2>4. CASE r.method # "submit"
    BY <1>2, <2>2, <2>4 DEF Unanswered
  <2> QED
    BY <2>3, <2>4
<1>5. r.share \in 1..Len(shares) => shares[r.share].pool = "open"
  BY <1>2 DEF Unanswered
<1>6. solver = "submit" /\ r.id = call.id =>
        r.method = "submit" /\ r.share = Len(shares) /\ Len(shares) \in 1..Len(shares)
  BY <1>1, <1>2 DEF Unanswered
<1>7. CASE Hears(r)
  <2>1. Decides(0)
    BY <1>1, <1>7 DEF Hears, Decides
  <2>2. ASSUME NEW i \in 2..Len(requests), requests[i].method = "submit"
        PROVE  requests[i].share # 0
    BY <1>1, <2>2 DEF Match, Unanswered
  <2> DEFINE yes == [id |-> r.id, answer |-> "yes"]
             new == [job |-> pool]
  <2>3. ASSUME NEW m, m = yes PROVE Underway(m)'
    BY <1>1, <1>2, <1>6, <1>7, <2>3 DEF Hears, Underway, Unanswered
  <2>4. ASSUME NEW m, m = new PROVE Underway(m)'
    BY <2>4 DEF Underway
  <2>5. messages' = Append(messages, yes) \/ messages' = Append(Append(messages, yes), new)
    BY <1>1, <1>7 DEF Hears
  <2> HIDE DEF yes, new
  <2>6. ASSUME NEW i \in 1..Len(messages'), NEW m, m = messages'[i] PROVE Underway(m)'
    <3>1. (i \in 1..Len(messages) /\ m = messages[i]) \/ m = yes \/ m = new
      <4>1. \A S, x : \A s \in Seq(S) : \A k \in 1..Len(Append(s, x)) :
              (k \in 1..Len(s) /\ Append(s, x)[k] = s[k]) \/ Append(s, x)[k] = x
        BY AppendCases
      <4>2. Append(messages, yes) \in Seq(Message \cup {yes})
        BY <1>1
      <4>3. CASE messages' = Append(messages, yes)
        BY <1>1, <2>6, <4>1, <4>3
      <4>4. CASE messages' = Append(Append(messages, yes), new)
        <5>1. (i \in 1..Len(Append(messages, yes)) /\ m = Append(messages, yes)[i]) \/ m = new
          BY <2>6, <4>1, <4>2, <4>4
        <5> QED
          BY <1>1, <4>1, <5>1
      <4> QED
        BY <2>5, <4>3, <4>4
    <3>2. CASE i \in 1..Len(messages) /\ m = messages[i]
      <4>1. Underway(m)
        BY <3>2 DEF Match
      <4> QED
        BY <2>1, <4>1, Decided
    <3> QED
      BY <2>3, <2>4, <3>1, <3>2
  <2>7. (\A i \in 1..Len(messages) : Underway(messages[i]))'
    BY <2>6
  <2> QED
    BY <1>1, <2>1, <2>2, <2>7, MatchAnswered
<1>8. ASSUME NEW a \in {"yes", "no"}, Send([id |-> r.id, answer |-> a]),
             NEW x, x = (IF a = "yes" THEN "credited" ELSE "refused"),
             Same(shares, shares'), Ruled(shares, r.share, x, shares')
      PROVE  Match'
  <2>1. Decides(r.share)
    BY <1>1, <1>5, <1>8, RuledDecides
  <2>2. solver = "submit" /\ r.id = call.id => Verdict(a)'
    BY <1>6, <1>8 DEF Verdict, Ruled, Same
  <2>3. (\A i \in 1..Len(messages) : Underway(messages[i]))'
    BY <1>1, <1>8, <2>1, <2>2, AnswerSent
  <2> QED
    BY <1>1, <1>4, <2>1, <2>3, MatchAnswered
<1>9. ASSUME NEW good \in BOOLEAN, Judges(r, good) PROVE Match'
  <2> DEFINE a == IF good THEN "yes" ELSE "no"
             x == IF good THEN "credited" ELSE "refused"
  <2>1. /\ a \in {"yes", "no"} /\ x = (IF a = "yes" THEN "credited" ELSE "refused")
        /\ x \in {"open", "credited", "refused"}
    OBVIOUS
  <2>2. Send([id |-> r.id, answer |-> a]) /\ shares' = [shares EXCEPT ![r.share].pool = x]
    BY <1>9 DEF Judges
  <2> HIDE DEF a, x
  <2>3. Same(shares, shares') /\ Ruled(shares, r.share, x, shares')
    BY <1>1, <2>1, <2>2, PoolUpdate
  <2> QED
    BY <1>8, <2>1, <2>2, <2>3
<1>10. CASE Refuses(r)
  <2>1. Same(shares, shares') /\ Ruled(shares, r.share, "refused", shares')
    BY <1>1, <1>10, RefusedTyped DEF Refuses
  <2> QED
    BY <1>8, <1>10, <2>1 DEF Refuses
<1> QED
  BY <1>7, <1>9, <1>10, PoolAnswersCases

LEMMA MatchPool ==
  ASSUME TypeOK, Match, Pool
  PROVE  Match'
<1>1. CASE PoolAnswers
  BY <1>1, MatchPoolAnswers
<1>2. ASSUME UNCHANGED shares PROVE Alike(shares, shares') /\ AnswersMatch'
  BY <1>2 DEF Alike, AnswersMatch, Match
<1>3. CASE PoolAdvances
  BY <1>2, <1>3, MatchSilent DEF PoolAdvances, Match, Quiet, localVars, callVars, netVars
<1>4. ASSUME UNCHANGED <<solver, call, lastId, shares>>
      PROVE  /\ Awaited' /\ AnswersMatch'
             /\ \A m : Underway(m) => Underway(m)'
             /\ \A r : Unanswered(r) => Unanswered(r)'
  BY <1>4 DEF Match, Awaited, AnswersMatch, Verdict, Underway, Unanswered
<1>5. CASE PoolNotifies
  <2> DEFINE new == [job |-> pool]
  <2>1. /\ messages \in Seq(Message) /\ messages' = Append(messages, new) /\ link = "up"
        /\ UNCHANGED <<main, link, requests, solver, call, lastId, shares>>
    BY <1>5 DEF PoolNotifies, Send, TypeOK, localVars, callVars
  <2>2. ASSUME NEW m, m = new PROVE Underway(m)'
    BY <2>2 DEF Underway
  <2> HIDE DEF new
  <2>3. ASSUME NEW i \in 1..Len(messages'), NEW m, m = messages'[i] PROVE Underway(m)'
    <3>1. (i \in 1..Len(messages) /\ m = messages[i]) \/ m = new
      BY <2>1, <2>3, AppendCases
    <3> QED
      BY <1>4, <2>1, <2>2, <3>1 DEF Match
  <2>4. (\A i \in 1..Len(messages) : Underway(messages[i]))'
    BY <2>3
  <2>5. (\A i \in 1..Len(requests) : Unanswered(requests[i]))'
    BY <1>4, <2>1 DEF Match
  <2>6. Quiet' /\ Distinct'
    BY <2>1 DEF Match, Quiet, Distinct
  <2> QED
    BY <1>4, <2>1, <2>4, <2>5, <2>6 DEF Match
<1>6. CASE Break
  <2>1. /\ messages \in Seq(Message) /\ link = "up" /\ requests' = <<>>
        /\ UNCHANGED <<main, solver, call, lastId, shares>>
    BY <1>6 DEF Break, TypeOK, localVars, callVars
  <2>2. PICK n \in 0..Len(messages) : messages' = SubSeq(messages, 1, n)
    BY <1>6 DEF Break
  <2>3. \A i \in 1..Len(messages') : i \in 1..Len(messages) /\ messages'[i] = messages[i]
    BY <2>1, <2>2
  <2>4. (\A i \in 1..Len(messages) : Underway(messages[i]))'
    BY <1>4, <2>1, <2>3 DEF Match
  <2>5. (\A i \in 1..Len(requests) : Unanswered(requests[i]))' /\ Distinct'
    BY <2>1 DEF Distinct
  <2>6. Quiet'
    BY <2>1 DEF Match, Quiet
  <2> QED
    BY <1>4, <2>1, <2>4, <2>5, <2>6 DEF Match
<1> QED
  BY <1>1, <1>3, <1>5, <1>6 DEF Pool

LEMMA MatchKept ==
  ASSUME TypeOK, Phase, Match, [Next]_vars
  PROVE  Match'
<1>1. CASE UNCHANGED vars
  BY <1>1 DEF vars, localVars, callVars, netVars, Match, Quiet, Unanswered, Distinct,
              Underway, Awaited, Verdict, AnswersMatch
<1> QED
  BY <1>1, MatchMain, MatchReader, MatchSolver, MatchPool DEF Next

\* shares_accepted counts shares that are in the pool's ledger, shares_rejected
\* shares the pool refused: an answer that comes after its call has timed out, or
\* after the next submission, is never taken for another share's (_msg_id_seq
\* and _pending match them), and no answer of an ended session is taken at all.
THEOREM AnswersAreTheirOwn == Spec => []AnswersMatch
<1>1. Init => Phase /\ Match
  BY DEF Init, Phase, Match, Quiet, Distinct, Awaited, AnswersMatch
<1>2. TypeOK /\ Phase /\ Match /\ [Next]_vars => (Phase /\ Match)'
  BY PhaseKept, MatchKept
<1>3. Match => AnswersMatch
  BY DEF Match
<1> QED
  BY <1>1, <1>2, <1>3, TypeCorrect, PTL DEF Spec
(***************************************************************************)
(* Nonces: the jobs of a session come in ascending order, each once, and   *)
(* the nonces of one lie in windows that do not overlap.                   *)
(***************************************************************************)
IsJob(m) == "job" \in DOMAIN m

\* The jobs of s are later than the job low, and each is later than those before it.
Ascend(s, low) ==
  /\ \A i \in 1..Len(s) : IsJob(s[i]) => low < s[i].job
  /\ \A i, k \in 1..Len(s) : IsJob(s[i]) /\ IsJob(s[k]) /\ i < k => s[i].job < s[k].job

UpTo(s, high) == \A i \in 1..Len(s) : IsJob(s[i]) => s[i].job <= high

NoneAsks(s) == \A i \in 1..Len(s) : s[i].method # "authorize"

OneAsks(s) ==
  \A i, k \in 1..Len(s) : s[i].method = "authorize" /\ s[k].method = "authorize" => i = k

\* What is on its way from the pool is news; the first job follows the one authorization.
InOrder ==
  /\ told <= pool
  /\ link # "up" => requests = <<>> /\ told = 0
  /\ link = "none" => main \in {"connect", "backoff"}
  /\ link = "up" => job.id <= told /\ UpTo(messages, told)
  /\ Ascend(messages, job.id)
  /\ OneAsks(requests)
  /\ told # 0 \/ main = "subscribe" => NoneAsks(requests)
  /\ main = "subscribe" => told = 0

\* The slice lies behind what has been found and submitted of its job, and before what
\* follows.
Window ==
  /\ slice.id <= job.id
  /\ solver # "waiting" /\ slice.id = job.id => slice.start = job.start
  /\ slice.result # "none" => slice.start <= slice.next
  /\ slice.result = "found" /\ left = 0 =>
       slice.start <= slice.nonce /\ slice.nonce < slice.next
  /\ solver = "sleep" => slice.result # "none"
  /\ solver = "submit" => /\ slice.result = "found" /\ Len(shares) >= 1
                          /\ shares[Len(shares)].job = slice.id
                          /\ shares[Len(shares)].nonce = slice.nonce
                          /\ shares[Len(shares)].record = WhoseRecord
  /\ \A i \in 1..Len(shares) :
       /\ shares[i].job <= job.id
       /\ shares[i].job = job.id /\ shares[i].record = "own" =>
            shares[i].nonce < job.start \/ (solver = "submit" /\ i = Len(shares))

Twice(s, t) == /\ s.record = "own" /\ t.record = "own"
               /\ s.job = t.job /\ s.nonce = t.nonce

Fresh ==
  /\ main \in {"subscribe", "authorize"} => Len(shares) = 0
  /\ Reach <= SliceNonces => /\ solver # "off" => Window
                             /\ \A i, k \in 1..Len(shares) : i # k => ~Twice(shares[i], shares[k])

LEMMA AscendAppend ==
  ASSUME NEW s \in Seq(Message), NEW m \in Message, NEW low,
         Ascend(s, low), IsJob(m) => low < m.job,
         IsJob(m) => \A i \in 1..Len(s) : IsJob(s[i]) => s[i].job < m.job
  PROVE  Ascend(Append(s, m), low)
<1>1. Len(s) \in Nat /\ Len(Append(s, m)) = Len(s) + 1
  OBVIOUS
<1>2. ASSUME NEW i \in 1..Len(Append(s, m))
      PROVE  \/ i \in 1..Len(s) /\ Append(s, m)[i] = s[i]
             \/ i = Len(s) + 1 /\ Append(s, m)[i] = m
  BY <1>2, AppendCases
<1>3. ASSUME NEW i \in 1..Len(Append(s, m)), NEW k \in 1..Len(Append(s, m)), i < k
      PROVE  i \in 1..Len(s) /\ Append(s, m)[i] = s[i]
  BY <1>1, <1>2, <1>3
<1> HIDE DEF IsJob
<1>4. ASSUME NEW i \in 1..Len(Append(s, m)), IsJob(Append(s, m)[i])
      PROVE  low < Append(s, m)[i].job
  BY <1>2, <1>4 DEF Ascend
<1>5. ASSUME NEW i \in 1..Len(Append(s, m)), NEW k \in 1..Len(Append(s, m)), i < k,
             IsJob(Append(s, m)[i]), IsJob(Append(s, m)[k])
      PROVE  Append(s, m)[i].job < Append(s, m)[k].job
  BY <1>2, <1>3, <1>5 DEF Ascend
<1> QED
  BY <1>4, <1>5 DEF Ascend

LEMMA UpToAppend ==
  ASSUME NEW s \in Seq(Message), NEW m \in Message, NEW high \in Nat, NEW old \in Nat,
         UpTo(s, old), old <= high, IsJob(m) => m.job <= high
  PROVE  UpTo(Append(s, m), high)
<1>1. ASSUME NEW i \in 1..Len(s), IsJob(s[i]) PROVE s[i].job <= high
  <2>1. s[i] \in Message
    OBVIOUS
  <2>2. s[i].job \in Nat
    BY <1>1, <2>1, MessageCases, ClientAssumption DEF Jobs, IsJob
  <2> QED
    BY <1>1, <2>2 DEF UpTo
<1>2. ASSUME NEW i \in 1..Len(Append(s, m)), IsJob(Append(s, m)[i])
      PROVE  Append(s, m)[i].job <= high
  BY <1>1, <1>2, AppendCases
<1> QED
  BY <1>2 DEF UpTo

LEMMA AscendTail ==
  ASSUME NEW s \in Seq(Message), NEW low, Ascend(s, low), s # <<>>
  PROVE  /\ Ascend(Tail(s), low)
         /\ IsJob(Head(s)) => low < Head(s).job /\ Ascend(Tail(s), Head(s).job)
         /\ \A high : UpTo(s, high) =>
              UpTo(Tail(s), high) /\ (IsJob(Head(s)) => Head(s).job <= high)
<1>1. \A i \in 1..Len(Tail(s)) : i + 1 \in 1..Len(s) /\ Tail(s)[i] = s[i + 1] /\ 1 < i + 1
  OBVIOUS
<1>2. 1 \in 1..Len(s) /\ Head(s) = s[1]
  OBVIOUS
<1>3. \A i, k \in 1..Len(Tail(s)) : i < k => i + 1 < k + 1
  OBVIOUS
<1>4. Ascend(Tail(s), low)
  BY <1>1, <1>3 DEF Ascend
<1>5. ASSUME IsJob(Head(s)) PROVE low < Head(s).job /\ Ascend(Tail(s), Head(s).job)
  BY <1>1, <1>2, <1>3, <1>5 DEF Ascend
<1>6. ASSUME NEW high, UpTo(s, high)
      PROVE  UpTo(Tail(s), high) /\ (IsJob(Head(s)) => Head(s).job <= high)
  BY <1>1, <1>2, <1>6 DEF UpTo
<1> QED
  BY <1>4, <1>5, <1>6

\* Nothing is sent, and nothing arrives but what the client does not look at.
LEMMA OrderSilent ==
  ASSUME TypeOK, InOrder, UNCHANGED <<link, requests, messages, told>>,
         job'.id = job.id, pool' \in Nat, pool <= pool',
         main' = "subscribe" => main = "subscribe",
         main' \in {"connect", "backoff"} \/ main \notin {"connect", "backoff"}
  PROVE  InOrder'
<1>1. told \in Nat /\ pool \in Nat
  BY ClientAssumption DEF TypeOK, Jobs
<1> QED
  BY <1>1 DEF InOrder, Ascend, UpTo, OneAsks, NoneAsks

\* A request is sent, if there is still a connection.
LEMMA OrderCall ==
  ASSUME TypeOK, InOrder, UNCHANGED <<messages, told, pool>>, job'.id = job.id,
         NEW m \in {"subscribe", "authorize", "submit"}, NEW s \in Nat, Call(m, s),
         link' = link, main \notin {"connect", "backoff"}, main' # "subscribe",
         m = "authorize" => main = "subscribe"
  PROVE  InOrder'
<1> DEFINE new == [id |-> lastId + 1, method |-> m, share |-> s]
<1>1. requests \in Seq(Request) /\ new.method = m
      /\ (requests' = requests \/ (link = "up" /\ requests' = Append(requests, new)))
  BY DEF Call, TypeOK, InOrder
<1> HIDE DEF new
<1>2. ASSUME NEW i \in 1..Len(requests'), requests'[i].method = "authorize"
      PROVE  \/ i \in 1..Len(requests) /\ requests[i].method = "authorize"
             \/ i = Len(requests) + 1 /\ m = "authorize"
  BY <1>1, <1>2, AppendCases
<1>3. m = "authorize" => NoneAsks(requests) /\ told = 0
  BY DEF InOrder
<1>4. ASSUME NEW i \in 1..Len(requests'), NEW k \in 1..Len(requests'),
             requests'[i].method = "authorize", requests'[k].method = "authorize"
      PROVE  i = k
  BY <1>2, <1>3, <1>4 DEF InOrder, OneAsks, NoneAsks
<1>5. told' # 0 => NoneAsks(requests)'
  BY <1>2, <1>3 DEF InOrder, NoneAsks
<1>6. OneAsks(requests)'
  BY <1>4 DEF OneAsks
<1>7. link # "up" => requests' = <<>> /\ told' = 0
  BY <1>1 DEF InOrder
<1>8. Ascend(messages, job.id)' /\ (link = "up" => UpTo(messages, told)')
  BY DEF InOrder, Ascend, UpTo
<1> QED
  BY <1>5, <1>6, <1>7, <1>8 DEF InOrder

LEMMA OrderMain ==
  ASSUME TypeOK, Phase, Quiet, InOrder, Connect \/ ConnectFails \/ Main
  PROVE  InOrder'
<1>1. told \in Nat /\ pool \in Nat /\ lastId \in Nat /\ job.id \in Nat
  BY ClientAssumption DEF TypeOK, Jobs
<1>2. CASE Connect
  <2>1. /\ messages' = <<>> /\ told' = 0 /\ job'.id = 0 /\ link' = "up" /\ main' = "subscribe"
        /\ requests' = <<[id |-> lastId + 1, method |-> "subscribe", share |-> 0]>>
        /\ pool' = pool
    BY <1>2 DEF Connect, Call, Quiet, Phase, NoJob, localVars
  <2> QED
    BY <1>1, <2>1 DEF InOrder, Ascend, UpTo, OneAsks, NoneAsks
<1>3. CASE Subscribed
  BY <1>3, OrderCall DEF Subscribed, localVars, poolVars
<1>4. CASE Close
  <2>1. messages' = <<>> /\ requests' = <<>> /\ told' = 0 /\ link' = "none"
          /\ main' = "backoff" /\ pool' = pool
    BY <1>4 DEF Close
  <2> QED
    BY <1>1, <2>1 DEF InOrder, Ascend, OneAsks, NoneAsks
<1>5. CASE ConnectFails \/ Authorized \/ HandshakeFails \/ StopReader \/ SessionEnds
             \/ SolverEnded \/ Slept
  BY <1>1, <1>5, OrderSilent
     DEF ConnectFails, Authorized, HandshakeFails, StopReader, SessionEnds, SolverEnded,
         Slept, localVars, netVars, poolVars
<1> QED
  BY <1>2, <1>3, <1>4, <1>5 DEF Main

LEMMA OrderReader ==
  ASSUME TypeOK, InOrder, Reader
  PROVE  InOrder'
<1>1. told \in Nat /\ pool \in Nat
  BY ClientAssumption DEF TypeOK, Jobs
<1>2. CASE ReadEnd
  BY <1>1, <1>2, OrderSilent DEF ReadEnd, localVars, netVars, poolVars
<1>3. CASE Read
  <2> DEFINE m == Head(messages)
  <2>1. /\ messages \in Seq(Message) /\ messages # <<>> /\ messages' = Tail(messages)
        /\ UNCHANGED <<main, link, requests, told, pool>>
    BY <1>3 DEF Read, TypeOK, poolVars
  <2>2. job'.id = IF IsJob(m) THEN m.job ELSE job.id
    BY <1>3 DEF Read, ReadNotify, ReadAnswer, IsJob
  <2>3. Ascend(messages, job.id)
    BY DEF InOrder
  <2>4. /\ Ascend(Tail(messages), job'.id)
        /\ link = "up" => job'.id <= told /\ UpTo(Tail(messages), told)
    BY <2>1, <2>2, <2>3, AscendTail DEF InOrder
  <2>5. Ascend(messages, job.id)' /\ (link = "up" => job.id <= told /\ UpTo(messages, told))'
    BY <2>1, <2>4
  <2>6. OneAsks(requests)' /\ (NoneAsks(requests) => NoneAsks(requests)')
    BY <2>1 DEF InOrder, OneAsks, NoneAsks
  <2> QED
    BY <2>1, <2>5, <2>6 DEF InOrder
<1> QED
  BY <1>2, <1>3 DEF Reader

LEMMA OrderSolver ==
  ASSUME TypeOK, Phase, InOrder, Solver
  PROVE  InOrder'
<1>1. told \in Nat /\ pool \in Nat /\ job.id \in Nat /\ Len(shares) \in Nat
  BY ClientAssumption DEF TypeOK, Jobs
<1>2. UNCHANGED <<main, link, messages, told, pool>>
  BY DEF Solver, Woken, SliceReturns, SliceDone, SubmitDone, SleepDone, netVars, poolVars
<1>3. main \notin {"connect", "backoff", "subscribe", "authorize"}
  BY DEF Phase, Solver, Woken, SliceReturns, SliceDone, SubmitDone, SleepDone
<1>4. ASSUME Resume PROVE job'.id = job.id
  BY <1>4 DEF Resume, TypeOK
<1>5. CASE Woken \/ SliceReturns \/ SubmitDone \/ SleepDone
  <2>1. job'.id = job.id /\ requests' = requests
    BY <1>4, <1>5 DEF Woken, SliceReturns, SubmitDone, SleepDone, netVars
  <2> QED
    BY <1>1, <1>2, <1>3, <2>1, OrderSilent
<1>6. CASE SliceDone
  <2>1. CASE job' = job /\ Call("submit", Len(shares) + 1)
    BY <1>1, <1>2, <1>3, <2>1, OrderCall
  <2>2. CASE job'.id = job.id /\ requests' = requests
    BY <1>1, <1>2, <1>3, <2>2, OrderSilent
  <2> QED
    BY <1>4, <1>6, <2>1, <2>2 DEF SliceDone
<1> QED
  BY <1>5, <1>6 DEF Solver

LEMMA JobBound ==
  ASSUME NEW s \in Seq(Message), NEW high \in Nat, UpTo(s, high), NEW j \in Nat, high < j
  PROVE  \A i \in 1..Len(s) : IsJob(s[i]) => s[i].job < j
<1> SUFFICES ASSUME NEW i \in 1..Len(s), IsJob(s[i]) PROVE s[i].job < j
  OBVIOUS
<1>1. s[i] \in Message
  OBVIOUS
<1>2. s[i].job \in Nat
  BY <1>1, MessageCases, ClientAssumption DEF Jobs, IsJob
<1> QED
  BY <1>2 DEF UpTo

\* The first job of a session, or the next, goes out behind the others.
LEMMA OrderSent ==
  ASSUME TypeOK, InOrder, NEW s \in Seq(Message), Ascend(s, job.id), UpTo(s, told),
         link = "up", told < pool
  PROVE  Ascend(Append(s, [job |-> pool]), job.id) /\ UpTo(Append(s, [job |-> pool]), pool)
<1> DEFINE m == [job |-> pool]
<1>1. told \in Nat /\ pool \in Nat /\ job.id \in Nat /\ job.id <= told
  BY ClientAssumption DEF TypeOK, Jobs, InOrder
<1>2. m \in Message /\ m.job = pool
  BY NotifyTyped DEF TypeOK
<1> HIDE DEF m
<1>3. \A i \in 1..Len(s) : IsJob(s[i]) => s[i].job < pool
  BY <1>1, JobBound
<1>4. Ascend(Append(s, m), job.id)
  BY <1>1, <1>2, <1>3, AscendAppend
<1>5. UpTo(Append(s, m), pool)
  BY <1>1, <1>2, UpToAppend
<1> QED
  BY <1>4, <1>5 DEF m

LEMMA OrderAnswer ==
  ASSUME TypeOK, InOrder, NEW id \in Nat, NEW a \in {"yes", "no"}, link = "up"
  PROVE  LET m == [id |-> id, answer |-> a]
         IN  Ascend(Append(messages, m), job.id) /\ UpTo(Append(messages, m), told)
<1> DEFINE m == [id |-> id, answer |-> a]
<1>1. m \in Message /\ ~IsJob(m)
  BY AnswerTyped DEF IsJob
<1>2. messages \in Seq(Message) /\ told \in Nat
  BY ClientAssumption DEF TypeOK
<1> HIDE DEF m
<1>3. Ascend(Append(messages, m), job.id)
  BY <1>1, <1>2, AscendAppend DEF InOrder
<1>4. UpTo(Append(messages, m), told)
  BY <1>1, <1>2, UpToAppend DEF InOrder
<1> QED
  BY <1>3, <1>4 DEF m

LEMMA AsksTail ==
  ASSUME NEW s \in Seq(Request), s # <<>>
  PROVE  /\ OneAsks(s) => OneAsks(Tail(s))
         /\ NoneAsks(s) => NoneAsks(Tail(s))
         /\ OneAsks(s) /\ Head(s).method = "authorize" => NoneAsks(Tail(s))
<1>1. \A i \in 1..Len(Tail(s)) : i + 1 \in 1..Len(s) /\ Tail(s)[i] = s[i + 1] /\ 1 # i + 1
  OBVIOUS
<1>2. 1 \in 1..Len(s) /\ Head(s) = s[1]
  OBVIOUS
<1>3. \A i, k \in 1..Len(Tail(s)) : i + 1 = k + 1 => i = k
  OBVIOUS
<1> QED
  BY <1>1, <1>2, <1>3 DEF OneAsks, NoneAsks

LEMMA OrderPool ==
  ASSUME TypeOK, InOrder, Pool
  PROVE  InOrder'
<1>1. /\ told \in Nat /\ pool \in Nat /\ pool # 0 /\ job.id \in Nat
      /\ messages \in Seq(Message) /\ requests \in Seq(Request)
  BY ClientAssumption DEF TypeOK, Jobs
<1>2. UNCHANGED <<main, job>>
  BY DEF Pool, PoolAnswers, PoolNotifies, PoolAdvances, Break, localVars
<1>3. CASE PoolAnswers
  <2> DEFINE r == Head(requests)
             yes == [id |-> r.id, answer |-> "yes"]
  <2>1. /\ requests # <<>> /\ requests' = Tail(requests)
        /\ link = "up" /\ link' = "up" /\ pool' = pool
    BY <1>3 DEF PoolAnswers, InOrder
  <2>2. r \in Request /\ r = requests[1] /\ 1 \in 1..Len(requests)
    BY <1>1, <2>1
  <2>3. /\ requests # <<>> /\ requests' = Tail(requests) /\ r \in Request /\ r.id \in Nat
        /\ link = "up" /\ link' = "up" /\ pool' = pool
        /\ r = requests[1] /\ 1 \in 1..Len(requests)
    BY <2>1, <2>2 DEF Request
  <2>4. ASSUME NEW a \in {"yes", "no"}, Send([id |-> r.id, answer |-> a]), told' = told
        PROVE  InOrder'
    <3>1. Ascend(messages', job.id) /\ UpTo(messages', told)
      BY <2>3, <2>4, OrderAnswer DEF Send
    <3>2. Ascend(messages, job.id)' /\ UpTo(messages, told)'
      BY <1>2, <2>4, <3>1
    <3>3. OneAsks(requests') /\ (NoneAsks(requests) => NoneAsks(requests'))
      BY <1>1, <2>3, AsksTail DEF InOrder
    <3>4. OneAsks(requests)' /\ (NoneAsks(requests) => NoneAsks(requests)')
      BY <3>3
    <3> QED
      BY <1>2, <2>3, <2>4, <3>2, <3>4 DEF InOrder
  <2>5. CASE Hears(r) /\ r.method # "authorize"
    <3>1. Send(yes) /\ told' = told
      BY <1>1, <2>5 DEF Hears, Send
    <3> QED
      BY <2>4, <3>1
  <2>6. CASE Hears(r) /\ r.method = "authorize"
    <3>1. told = 0
      BY <1>1, <2>3, <2>6 DEF InOrder, NoneAsks
    <3> DEFINE s == Append(messages, yes)
    <3>2. yes \in Message
      BY <2>3, AnswerTyped
    <3>3. Ascend(s, job.id) /\ UpTo(s, told) /\ s \in Seq(Message)
      <4>1. Ascend(s, job.id) /\ UpTo(s, told)
        BY <2>3, OrderAnswer
      <4>2. s \in Seq(Message)
        BY <1>1, <3>2
      <4> QED
        BY <4>1, <4>2
    <3>4. messages' = Append(s, [job |-> pool]) /\ told' = pool
      BY <1>1, <2>6 DEF Hears
    <3> HIDE DEF s
    <3>5. Ascend(messages', job.id) /\ UpTo(messages', pool)
      BY <1>1, <2>3, <3>1, <3>3, <3>4, OrderSent
    <3>6. Ascend(messages, job.id)' /\ UpTo(messages, told)'
      BY <1>2, <3>4, <3>5
    <3>7. NoneAsks(requests') /\ OneAsks(requests')
      BY <1>1, <2>3, <2>6, AsksTail DEF InOrder
    <3>8. NoneAsks(requests)' /\ OneAsks(requests)'
      BY <3>7
    <3>9. main # "subscribe"
      BY <1>1, <2>3, <2>6 DEF InOrder, NoneAsks
    <3>10. job.id <= pool
      BY <1>1, <2>3, <3>1 DEF InOrder
    <3> QED
      BY ONLY InOrder, <1>1, <1>2, <2>3, <3>4, <3>6, <3>8, <3>9, <3>10 DEF InOrder
  <2>7. ASSUME NEW good \in BOOLEAN, Judges(r, good) PROVE InOrder'
    BY <2>4, <2>7 DEF Judges
  <2>8. CASE Refuses(r)
    BY <2>4, <2>8 DEF Refuses
  <2> QED
    BY <1>3, <2>5, <2>6, <2>7, <2>8, PoolAnswersCases
<1>4. CASE PoolNotifies
  <2>1. /\ link = "up" /\ told # 0 /\ told < pool /\ told' = pool /\ pool' = pool
        /\ messages' = Append(messages, [job |-> pool]) /\ UNCHANGED <<link, requests>>
    BY <1>1, <1>4 DEF PoolNotifies, Send, InOrder
  <2>2. Ascend(messages', job.id) /\ UpTo(messages', pool)
    BY <1>1, <2>1, OrderSent DEF InOrder
  <2>3. Ascend(messages, job.id)' /\ UpTo(messages, told)'
    BY <1>2, <2>1, <2>2
  <2>4. OneAsks(requests)' /\ NoneAsks(requests)'
    BY <2>1 DEF InOrder, OneAsks, NoneAsks
  <2> QED
    BY <1>1, <1>2, <2>1, <2>3, <2>4 DEF InOrder
<1>5. CASE PoolAdvances
  BY <1>1, <1>2, <1>5, OrderSilent DEF PoolAdvances, netVars
<1>6. CASE Break
  <2>1. link = "up" /\ link' = "lost" /\ requests' = <<>> /\ told' = 0 /\ pool' = pool
    BY <1>6 DEF Break
  <2>2. PICK n \in 0..Len(messages) : messages' = SubSeq(messages, 1, n)
    BY <1>6 DEF Break
  <2>3. \A i \in 1..Len(messages') : i \in 1..Len(messages) /\ messages'[i] = messages[i]
    BY <1>1, <2>2
  <2>4. Ascend(messages, job.id)'
    BY <1>2, <2>3 DEF InOrder, Ascend
  <2>5. OneAsks(requests)' /\ NoneAsks(requests)'
    BY <2>1 DEF OneAsks, NoneAsks
  <2> QED
    BY <1>1, <1>2, <2>1, <2>4, <2>5 DEF InOrder
<1> QED
  BY <1>3, <1>4, <1>5, <1>6 DEF Pool

LEMMA OrderKept ==
  ASSUME TypeOK, Phase, Match, InOrder, [Next]_vars
  PROVE  InOrder'
<1>1. CASE UNCHANGED vars
  BY <1>1 DEF vars, localVars, netVars, poolVars, InOrder, Ascend, UpTo, OneAsks, NoneAsks
<1> QED
  BY <1>1, OrderMain, OrderReader, OrderSolver, OrderPool DEF Next, Match

(***************************************************************************)
(* The window moves past every nonce that is submitted.                    *)
(***************************************************************************)
LEMMA NextNoncePasses ==
  ASSUME NEW s \in Nonce, NEW end \in Int
  PROVE  s <= NextNonce(s, end)
BY ClientAssumption DEF NextNonce, Cap, Nonce

LEMMA NoncePasses ==
  ASSUME Reach <= SliceNonces, NEW s \in Nonce, NEW n \in Nonces, n < s + Reach
  PROVE  n < NextNonce(s, None)
BY ClientAssumption DEF NextNonce, Cap, Nonce, Nonces, None

\* A new iteration, with every submission behind the window of its job.
LEMMA WindowIterate ==
  ASSUME Iterate(job'), job'.id \in Nat,
         \A i \in 1..Len(shares') :
           /\ shares'[i].job <= job'.id
           /\ shares'[i].job = job'.id /\ shares'[i].record = "own" =>
                shares'[i].nonce < job'.start
  PROVE  Window'
<1>1. CASE job'.id = 0
  <2>1. solver' = "waiting" /\ slice' = NoSlice
    BY <1>1 DEF Iterate
  <2> QED
    BY <1>1, <2>1 DEF Window, NoSlice
<1>2. CASE job'.id # 0
  <2>1. solver' = "slice" /\ slice' = [NoSlice EXCEPT !.id = job'.id, !.start = job'.start]
    BY <1>2 DEF Iterate
  <2>2. slice'.id = job'.id /\ slice'.start = job'.start /\ slice'.result = "none"
    BY <2>1 DEF NoSlice
  <2> QED
    BY <2>1, <2>2 DEF Window
<1> QED
  BY <1>1, <1>2

LEMMA WindowTypes ==
  ASSUME TypeOK
  PROVE  /\ job.id \in Nat /\ job.start \in Nonce /\ job.start \in Nat
         /\ slice.id \in Nat /\ slice.start \in Nonce /\ slice.start \in Nat
         /\ slice.next \in Nat /\ slice.nonce \in Int
         /\ Len(shares) \in Nat
         /\ \A i \in 1..Len(shares) : shares[i].job \in Nat /\ shares[i].nonce \in Nat
<1>1. shares \in Seq(Share)
  BY DEF TypeOK
<1>2. ASSUME NEW i \in 1..Len(shares) PROVE shares[i].job \in Nat /\ shares[i].nonce \in Nat
  <2>1. shares[i] \in Share
    BY <1>1
  <2>2. shares[i].job \in Jobs /\ shares[i].nonce \in Nonces
    BY <2>1 DEF Share
  <2> QED
    BY <2>2 DEF Jobs, Nonces
<1> QED
  BY <1>1, <1>2, ClientAssumption DEF TypeOK, Nonce, Nonces, None

\* The end of an iteration: the window moves on, if the job is still the same.
LEMMA WindowResume ==
  ASSUME TypeOK, Window, Resume, Same(shares, shares'), slice.result # "none",
         solver # "waiting"
  PROVE  Window'
<1>1. job'.id = job.id /\ job'.start = IF job.id = slice.id THEN slice.next ELSE job.start
  BY DEF Resume, TypeOK
<1>2. ASSUME NEW i \in 1..Len(shares'), shares'[i].job = job'.id, shares'[i].record = "own"
      PROVE  shares'[i].nonce < job'.start
  <2>1. /\ i \in 1..Len(shares) /\ shares[i].job = job.id
        /\ shares'[i].nonce = shares[i].nonce /\ shares[i].record = "own"
    BY <1>1, <1>2 DEF Same
  <2>2. CASE shares[i].nonce < job.start
    BY <1>1, <2>1, <2>2, WindowTypes DEF Window
  <2>3. CASE solver = "submit" /\ i = Len(shares)
    BY <1>1, <2>1, <2>3 DEF Window, WhoseRecord
  <2> QED
    BY <2>1, <2>2, <2>3 DEF Window
<1>3. \A i \in 1..Len(shares') : shares'[i].job <= job'.id
  BY <1>1 DEF Same, Window
<1> QED
  BY <1>1, <1>2, <1>3, WindowTypes, WindowIterate DEF Resume

LEMMA WindowSame ==
  ASSUME Window, UNCHANGED <<solver, slice, left>>, Same(shares, shares'),
         job' = job \/ (job'.id \in Nat /\ job.id < job'.id /\ TypeOK)
  PROVE  Window'
<1>1. CASE job' = job
  BY <1>1 DEF Window, WhoseRecord, Same
<1>2. CASE job'.id \in Nat /\ job.id < job'.id /\ TypeOK
  <2>1. job.id \in Nat /\ slice.id \in Nat /\ slice.id <= job.id
    BY <1>2, WindowTypes DEF Window
  <2>2. slice.id <= job'.id /\ slice.id # job'.id
    BY <1>2, <2>1
  <2>3. ASSUME NEW i \in 1..Len(shares')
        PROVE  shares'[i].job <= job'.id /\ shares'[i].job # job'.id
    <3>1. i \in 1..Len(shares) /\ shares'[i].job = shares[i].job
      BY <2>3 DEF Same
    <3>2. shares[i].job \in Nat /\ shares[i].job <= job.id
      BY <1>2, <3>1, WindowTypes DEF Window
    <3> QED
      BY <1>2, <2>1, <3>1, <3>2
  <2> QED
    BY <2>1, <2>2, <2>3 DEF Window, WhoseRecord, Same
<1> QED
  BY <1>1, <1>2

LEMMA WindowReturns ==
  ASSUME TypeOK, Reach <= SliceNonces, Window, SliceReturns
  PROVE  Window'
<1>1. /\ slice.start \in Nonce /\ slice.start \in Nat /\ None \in Int /\ Reach \in Nat
      /\ slice \in SliceType
  BY WindowTypes, ClientAssumption DEF None, TypeOK, SliceType
<1>2. solver = "slice" /\ UNCHANGED <<solver, job, shares>>
  BY DEF SliceReturns
<1>3. slice'.id = slice.id /\ slice'.start = slice.start
  BY SliceTyped
<1>4. ASSUME slice'.result # "none" PROVE slice'.start <= slice'.next
  <2>1. ASSUME NEW end \in Int, slice'.next = NextNonce(slice.start, end)
        PROVE  slice'.start <= slice'.next
    BY <1>1, <1>3, <2>1, NextNoncePasses
  <2>2. ASSUME NEW r, NEW end \in Int,
               slice' = [slice EXCEPT !.result = r, !.next = NextNonce(slice.start, end)]
        PROVE  slice'.start <= slice'.next
    BY <1>1, <2>1, <2>2 DEF SliceType
  <2>3. ASSUME NEW n, slice' = [slice EXCEPT !.result = "found", !.nonce = n,
                                             !.next = NextNonce(slice.start, None)]
        PROVE  slice'.start <= slice'.next
    BY <1>1, <2>1, <2>3 DEF SliceType
  <2>4. \A end \in slice.start..(slice.start + Reach - 1) : end \in Int
    OBVIOUS
  <2>5. \A end \in Nonce : end \in Int
    BY ClientAssumption DEF Nonce
  <2>6. CASE OwnRecord
    BY <2>2, <2>3, <2>4, <2>6 DEF OwnRecord
  <2>7. CASE OtherRecord
    BY <2>2, <2>3, <2>5, <2>7 DEF OtherRecord
  <2>8. CASE NoRecord
    BY <1>1, <2>2, <2>8 DEF NoRecord
  <2> QED
    BY <2>6, <2>7, <2>8 DEF SliceReturns
<1>5. ASSUME slice'.result = "found", left' = 0
      PROVE  slice'.start <= slice'.nonce /\ slice'.nonce < slice'.next
  <2>1. slice'.nonce \in HitsFrom(slice)
    BY <1>5, SliceTyped
  <2>2. slice'.nonce \in slice.start..(slice.start + Reach - 1) /\ slice'.nonce \in Nonces
    BY <2>1, ClientAssumption DEF HitsFrom
  <2>3. slice'.next = NextNonce(slice.start, None)
    <3>1. ~(left' > 0)
      BY <1>5
    <3>2. OwnRecord \/ NoRecord
      BY <3>1 DEF SliceReturns
    <3> QED
      BY <1>1, <1>5, <3>2 DEF OwnRecord, NoRecord, SliceType
  <2>4. slice.start <= slice'.nonce /\ slice'.nonce < slice.start + Reach
    BY <1>1, <2>2
  <2> QED
    BY <1>1, <1>3, <2>2, <2>3, <2>4, NoncePasses
<1> QED
  BY <1>2, <1>3, <1>4, <1>5 DEF Window

\* A nonce of the slice's own lies behind those submitted before it.
LEMMA WindowSubmits ==
  ASSUME TypeOK, Window, Submits, UNCHANGED <<job, slice, left>>, solver' = "submit"
  PROVE  /\ Window'
         /\ \A i \in 1..Len(shares) :
              shares[i].job = slice.id /\ shares[i].record = "own" /\ left = 0
                => shares[i].nonce < slice.nonce
<1> DEFINE n == Len(shares) + 1
<1>1. /\ Len(shares') = n /\ n \in Nat /\ n >= 1
      /\ \A i \in 1..Len(shares) : shares'[i] = shares[i]
      /\ shares'[n].job = slice.id /\ shares'[n].nonce = slice.nonce
      /\ shares'[n].record = WhoseRecord
  <2>1. shares \in Seq(Share)
    BY DEF TypeOK
  <2> QED
    BY <2>1 DEF Submits
<1>2. solver = "slice" /\ slice.result = "found" /\ job.id = slice.id /\ slice.start = job.start
  BY DEF Submits, StillCurrent, Window
<1>3. ASSUME NEW i \in 1..Len(shares), shares[i].job = slice.id, shares[i].record = "own",
             left = 0
      PROVE  shares[i].nonce < slice.nonce
  BY <1>2, <1>3, WindowTypes DEF Window
<1>4. ASSUME NEW i \in 1..Len(shares')
      PROVE  /\ shares'[i].job <= job'.id
             /\ shares'[i].job = job'.id /\ shares'[i].record = "own" =>
                  shares'[i].nonce < job'.start \/ i = n
  <2>1. CASE i = n
    BY <1>1, <1>2, <2>1, WindowTypes
  <2>2. CASE i # n
    <3>1. i \in 1..Len(shares)
      BY <1>1, <2>2, WindowTypes
    <3> QED
      BY <1>1, <1>2, <3>1 DEF Window
  <2> QED
    BY <2>1, <2>2
<1>5. Window'
  BY <1>1, <1>2, <1>4 DEF Window, WhoseRecord
<1> QED
  BY <1>3, <1>5

LEMMA WindowSolver ==
  ASSUME TypeOK, TypeOK', Reach <= SliceNonces, Phase, Window, Solver
  PROVE  Window'
<1>1. ASSUME UNCHANGED shares PROVE Same(shares, shares')
  BY <1>1 DEF Same
<1>2. CASE Woken
  <2>1. solver = "waiting" /\ UNCHANGED <<job, shares>> /\ Iterate(job')
    BY <1>2 DEF Woken
  <2>2. \A i \in 1..Len(shares') :
          /\ shares'[i].job <= job'.id
          /\ shares'[i].job = job'.id /\ shares'[i].record = "own" =>
               shares'[i].nonce < job'.start
    BY <2>1 DEF Window
  <2> QED
    BY <2>1, <2>2, WindowTypes, WindowIterate
<1>3. CASE SliceReturns
  BY <1>3, WindowReturns
<1>4. CASE SliceDone
  <2>1. CASE Submits /\ UNCHANGED <<job, slice, left>> /\ solver' = "submit"
    BY <2>1, WindowSubmits
  <2>2. CASE slice.result = "raise" /\ solver' = "sleep" /\ UNCHANGED <<job, slice, left, shares>>
    BY <1>4, <2>2 DEF SliceDone, Window
  <2>3. CASE Resume /\ UNCHANGED shares
    BY <1>1, <1>4, <2>3, WindowResume DEF SliceDone
  <2> QED
    BY <1>4, <2>1, <2>2, <2>3 DEF SliceDone, Submits, pipeVars
<1>5. CASE SubmitDone
  <2>1. Same(shares, shares')
    BY <1>5, SharesStep DEF SubmitDone, SliceDone, Connect, Phase, Next, Solver
  <2> QED
    BY <1>5, <2>1, WindowResume DEF SubmitDone, Window
<1>6. CASE SleepDone
  BY <1>1, <1>6, WindowResume DEF SleepDone, Window
<1> QED
  BY <1>2, <1>3, <1>4, <1>5, <1>6 DEF Solver

\* The main task, the reader and the pool move neither the slice nor its window.
LEMMA WindowOthers ==
  ASSUME TypeOK, TypeOK', Phase, InOrder, Window, Next, ~Solver,
         solver # "off", solver' # "off"
  PROVE  Window'
<1>1. ~Connect /\ ~Authorized /\ ~Close
  BY DEF Phase, Connect, Authorized, Close
<1>2. UNCHANGED <<solver, slice, left>>
  BY <1>1 DEF Next, Main, ConnectFails, Subscribed, HandshakeFails, StopReader, SessionEnds,
     SolverEnded, Slept, Reader, Read, ReadEnd, Pool, PoolAnswers, PoolNotifies,
     PoolAdvances, Break, localVars, pipeVars
<1>3. Same(shares, shares')
  BY <1>1, SharesStep DEF Solver
<1>4. job' = job \/ (job'.id \in Nat /\ job.id < job'.id)
  <2>1. CASE Read
    <3> DEFINE m == Head(messages)
    <3>1. messages \in Seq(Message) /\ messages # <<>>
      BY <2>1 DEF Read, TypeOK
    <3>2. IsJob(m) => job.id < m.job
      BY <3>1, AscendTail DEF InOrder
    <3>3. job' = job \/ (IsJob(m) /\ job' = [id |-> m.job, start |-> 0])
      BY <2>1 DEF Read, ReadNotify, ReadAnswer, IsJob
    <3>4. job'.id \in Nat
      BY ClientAssumption DEF TypeOK
    <3> QED
      BY <3>2, <3>3, <3>4
  <2>2. CASE ~Read
    BY ONLY Next, ~Solver, <1>1, <2>2
       DEF Next, Main, ConnectFails, Subscribed, HandshakeFails, StopReader, SessionEnds,
           SolverEnded, Slept, Reader, ReadEnd, Pool, PoolAnswers, PoolNotifies,
           PoolAdvances, Break, localVars
  <2> QED
    BY <2>1, <2>2
<1> QED
  BY <1>2, <1>3, <1>4, WindowSame

LEMMA FreshKept ==
  ASSUME TypeOK, TypeOK', Phase, InOrder, Fresh, [Next]_vars
  PROVE  Fresh'
<1>1. shares \in Seq(Share) /\ Len(shares) \in Nat
  BY DEF TypeOK
<1>2. ASSUME main' \in {"subscribe", "authorize"} PROVE Len(shares') = 0
  <2>1. CASE Connect
    BY ONLY <2>1 DEF Connect
  <2>2. CASE ~Connect
    <3>1. main \in {"subscribe", "authorize"}
      BY ONLY [Next]_vars, <1>2, <2>2
         DEF Next, Main, ConnectFails, Subscribed, Authorized, HandshakeFails, StopReader,
             SessionEnds, SolverEnded, Close, Slept, Reader, Read, ReadEnd, Solver, Woken,
             SliceReturns, SliceDone, SubmitDone, SleepDone, Pool, PoolAnswers, PoolNotifies,
             PoolAdvances, Break, vars
    <3>2. ~SliceDone
      BY ONLY Phase, <3>1 DEF Phase, SliceDone
    <3> QED
      BY <2>2, <3>1, <3>2, SharesStep DEF Fresh, Same
  <2> QED
    BY <2>1, <2>2
<1> SUFFICES ASSUME Reach <= SliceNonces
             PROVE  /\ solver' # "off" => Window'
                    /\ \A i, k \in 1..Len(shares') : i # k => ~Twice(shares'[i], shares'[k])
  BY <1>2 DEF Fresh
<1>3. ASSUME solver' # "off" PROVE Window'
  <2>1. CASE Solver
    BY <2>1, WindowSolver DEF Fresh, Solver, Woken, SliceReturns, SliceDone, SubmitDone, SleepDone
  <2>2. CASE Next /\ ~Solver /\ solver # "off"
    BY <1>3, <2>2, WindowOthers DEF Fresh
  <2>3. CASE Next /\ ~Solver /\ solver = "off"
    <3>1. Authorized
      BY ONLY <1>3, <2>3
         DEF Next, Main, Connect, ConnectFails, Subscribed, HandshakeFails, StopReader,
             SessionEnds, SolverEnded, Close, Slept, Reader, Read, ReadEnd, Pool,
             PoolAnswers, PoolNotifies, PoolAdvances, Break, localVars
    <3>2. Iterate(job') /\ Len(shares') = 0 /\ job'.id \in Nat
      BY <3>1, WindowTypes DEF Authorized, Fresh
    <3> QED
      BY <3>2, WindowIterate
  <2>4. CASE UNCHANGED vars
    <3>1. Same(shares, shares')
      BY <2>4 DEF vars, Same
    <3> QED
      BY <1>3, <2>4, <3>1, WindowSame DEF vars, localVars, pipeVars, Fresh
  <2> QED
    BY <2>1, <2>2, <2>3, <2>4
<1>4. ASSUME NEW i \in 1..Len(shares'), NEW k \in 1..Len(shares'), i # k
      PROVE  ~Twice(shares'[i], shares'[k])
  <2>1. CASE Len(shares') = 0
    BY <1>4, <2>1
  <2>2. CASE Same(shares, shares')
    BY <1>4, <2>2 DEF Same, Fresh, Twice
  <2>3. CASE SliceDone /\ Submits
    <3> DEFINE n == Len(shares) + 1
    <3>1. Window /\ UNCHANGED <<job, slice, left>> /\ solver' = "submit"
      BY <2>3 DEF SliceDone, Submits, Fresh, pipeVars
    <3>2. \A l \in 1..Len(shares) :
            shares[l].job = slice.id /\ shares[l].record = "own" /\ left = 0
              => shares[l].nonce < slice.nonce
      BY <2>3, <3>1, WindowSubmits
    <3>3. /\ Len(shares') = n
          /\ \A l \in 1..Len(shares) : shares'[l] = shares[l]
          /\ shares'[n].job = slice.id /\ shares'[n].nonce = slice.nonce
          /\ shares'[n].record = "own" => left = 0
      BY <1>1, <2>3 DEF Submits, WhoseRecord
    <3>4. ASSUME NEW l \in 1..Len(shares)
          PROVE  ~Twice(shares'[l], shares'[n]) /\ ~Twice(shares'[n], shares'[l])
      <4>1. shares'[l] = shares[l] /\ shares[l].nonce \in Nat /\ slice.nonce \in Int
        BY <3>3, <3>4, WindowTypes
      <4>2. /\ shares[l].record = "own" /\ shares'[n].record = "own"
            /\ shares[l].job = shares'[n].job
            => shares[l].nonce < shares'[n].nonce
        BY <3>2, <3>3, <3>4
      <4>3. shares'[n].nonce = slice.nonce
        BY <3>3
      <4> HIDE DEF n
      <4> QED
        BY <4>1, <4>2, <4>3 DEF Twice
    <3>5. ASSUME NEW l \in 1..Len(shares') PROVE l \in 1..Len(shares) \/ l = n
      BY <1>1, <3>3
    <3>6. CASE i \in 1..Len(shares) /\ k \in 1..Len(shares)
      BY <1>4, <3>3, <3>6 DEF Fresh, Twice
    <3> QED
      BY <1>4, <3>4, <3>5, <3>6
  <2> QED
    BY <1>1, <2>1, <2>2, <2>3, SharesStep
<1> QED
  BY <1>3, <1>4

\* No nonce that its own slice has found is submitted twice for one job of a session, as
\* long as a slice scans no further than nonces_per_slice: the pool sends each job once
\* and in order, so nothing resets nonce64_start of the current job, and solve_slice
\* moves it past every nonce it has found, also when the record says nothing of its end.
THEOREM NonceNeverTwice == Spec => []NeverTwice
<1>1. Init => Phase /\ Match /\ InOrder /\ Fresh
  BY ClientAssumption DEF Init, Phase, Match, Quiet, Distinct, Awaited, AnswersMatch,
     InOrder, Ascend, OneAsks, NoneAsks, Fresh
<1>2. TypeOK /\ TypeOK' /\ Phase /\ Match /\ InOrder /\ Fresh /\ [Next]_vars
        => (Phase /\ Match /\ InOrder /\ Fresh)'
  BY PhaseKept, MatchKept, OrderKept, FreshKept
<1>3. Fresh => NeverTwice
  BY DEF Fresh, Twice, NeverTwice
<1> QED
  BY <1>1, <1>2, <1>3, TypeCorrect, PTL DEF Spec
=============================================================================
