--------------------------- MODULE BackendProofs ---------------------------
(***************************************************************************)
(* The parts beside the pool, for any number of accounts, events, requests *)
(* and lists of peers: what Stripe need not send again has been applied,   *)
(* balances of an address are recent, and the agent's snapshot is whole.   *)
(***************************************************************************)
EXTENDS MCBackend, FiniteSetTheorems, FunctionTheorems, TLAPS

(***************************************************************************)
(* Address scans.                                                          *)
(***************************************************************************)

Looking == {"scan", "scanned"}

RequestType ==
  [at : {"none", "asked", "answered"} \cup Looking, refresh : BOOLEAN, since : Int, result : Int]

\* What the node saw, of a scan that is under way or just over: not before the
\* request came, and not longer ago than a scan may take, since the clock stands
\* while a thread is between its steps.
Seen(t) == /\ t.result \in Nat /\ t.since <= t.result
           /\ t.result <= clock /\ clock <= t.result + ScanTime

ScansInv ==
  /\ clock \in Nat
  /\ request \in [Requests -> RequestType]
  /\ answer \in [Requests -> [cached : BOOLEAN, result : Int]]
  /\ scan \in [recorded : Int, result : Int]
  /\ scan.recorded # Never => /\ scan.result \in Nat
                              /\ scan.recorded <= scan.result + ScanTime
  /\ \A r \in Requests :
       /\ request[r].at = "asked" => request[r].since = clock
       /\ request[r].at \in Looking => Seen(request[r])
       /\ request[r].at \in {"none", "asked"} \cup Looking => answer[r] = NoAnswer
       /\ answer[r] # NoAnswer => answer[r].result \in Nat
       /\ answer[r] # NoAnswer /\ answer[r].cached =>
            ~request[r].refresh /\ clock <= answer[r].result + ScanTime + Ttl
       /\ answer[r] # NoAnswer /\ ~answer[r].cached =>
            /\ clock <= answer[r].result + ScanTime
            /\ request[r].since <= answer[r].result

(* A request that moves, with an answer or without, disturbs no other.      *)
LEMMA ScansStepKept ==
  ASSUME ScansInv, ScansNext
  PROVE  ScansInv'
<1>0. Ttl \in Nat /\ ScanTime \in Nat
  BY ScansAssumption
<1>1. CASE Tick
  <2>1. /\ clock' = clock + 1 /\ scan' = scan
        /\ answer' = [r \in Requests |-> NoAnswer]
        /\ request' = [r \in Requests |->
                         IF request[r].at = "answered" THEN NoRequest ELSE request[r]]
    BY <1>1 DEF Tick
  <2>2. clock' \in Nat /\ answer' \in [Requests -> [cached : BOOLEAN, result : Int]]
    BY <2>1 DEF ScansInv, NoAnswer, Never
  <2>3. request' \in [Requests -> RequestType]
    BY <2>1 DEF ScansInv, RequestType, NoRequest, Never
  <2>4. ASSUME NEW r \in Requests
        PROVE  /\ answer'[r] = NoAnswer /\ request'[r].at # "asked"
               /\ request'[r].at \in Looking =>
                    /\ request'[r].result \in Nat /\ request'[r].since <= request'[r].result
                    /\ request'[r].result <= clock' /\ clock' <= request'[r].result + ScanTime
    <3>1. \/ request[r].at \in {"none", "answered"}
          \/ request[r].at = "scan" /\ clock < request[r].result + ScanTime
      BY <1>1 DEF Tick
    <3>2. request'[r] = IF request[r].at = "answered" THEN NoRequest ELSE request[r]
      BY <2>1
    <3>3. CASE request[r].at \in {"none", "answered"}
      <4>1. request'[r].at = "none"
        BY <3>2, <3>3 DEF NoRequest
      <4> QED BY <2>1, <4>1 DEF Looking
    <3>4. CASE request[r].at = "scan" /\ clock < request[r].result + ScanTime
      <4>1. request'[r] = request[r]
        BY <3>2, <3>4
      <4>2. Seen(request[r]) /\ clock \in Nat
        BY <3>4 DEF ScansInv, Looking
      <4> QED BY <1>0, <2>1, <3>4, <4>1, <4>2 DEF Seen
    <3> QED BY <3>1, <3>3, <3>4
  <2>5. /\ scan' \in [recorded : Int, result : Int]
        /\ scan'.recorded # Never => /\ scan'.result \in Nat
                                     /\ scan'.recorded <= scan'.result + ScanTime
    BY <2>1 DEF ScansInv
  <2> QED BY <2>2, <2>3, <2>4, <2>5 DEF ScansInv, Seen
<1>2. ASSUME NEW r \in Requests, NEW t \in RequestType, NEW v \in [cached : BOOLEAN, result : Int],
             clock' = clock,
             request' = [request EXCEPT ![r] = t], answer' = [answer EXCEPT ![r] = v],
             \/ scan' = scan
             \/ /\ scan' = [recorded |-> clock, result |-> t.result]
                /\ t.result \in Nat /\ clock <= t.result + ScanTime,
             t.at = "asked" => t.since = clock,
             t.at \in Looking => Seen(t),
             t.at # "answered" => v = NoAnswer,
             v # NoAnswer => v.result \in Nat,
             v # NoAnswer /\ v.cached => ~t.refresh /\ clock <= v.result + ScanTime + Ttl,
             v # NoAnswer /\ ~v.cached => clock <= v.result + ScanTime /\ t.since <= v.result
      PROVE  ScansInv'
  <2>1. /\ request' \in [Requests -> RequestType]
        /\ answer' \in [Requests -> [cached : BOOLEAN, result : Int]]
    BY <1>2 DEF ScansInv
  <2>2. /\ scan' \in [recorded : Int, result : Int]
        /\ scan'.recorded # Never => /\ scan'.result \in Nat
                                     /\ scan'.recorded <= scan'.result + ScanTime
    <3>1. CASE scan' = scan
      BY <3>1 DEF ScansInv
    <3>2. CASE /\ scan' = [recorded |-> clock, result |-> t.result]
               /\ t.result \in Nat /\ clock <= t.result + ScanTime
      BY <3>2 DEF ScansInv
    <3> QED BY <1>2, <3>1, <3>2
  <2>3. request'[r] = t /\ answer'[r] = v
    BY <1>2 DEF ScansInv
  <2>4. \A q \in Requests : q # r => request'[q] = request[q] /\ answer'[q] = answer[q]
    BY <1>2 DEF ScansInv
  <2>5. ASSUME NEW q \in Requests
        PROVE  /\ request'[q].at = "asked" => request'[q].since = clock
               /\ request'[q].at \in Looking => Seen(request'[q])
               /\ request'[q].at \in {"none", "asked"} \cup Looking => answer'[q] = NoAnswer
               /\ answer'[q] # NoAnswer => answer'[q].result \in Nat
               /\ answer'[q] # NoAnswer /\ answer'[q].cached =>
                    ~request'[q].refresh /\ clock <= answer'[q].result + ScanTime + Ttl
               /\ answer'[q] # NoAnswer /\ ~answer'[q].cached =>
                    /\ clock <= answer'[q].result + ScanTime
                    /\ request'[q].since <= answer'[q].result
    <3>1. CASE q = r
      BY <1>2, <2>3, <3>1 DEF Looking
    <3>2. CASE q # r
      <4>1. request'[q] = request[q] /\ answer'[q] = answer[q]
        BY <2>4, <3>2
      <4> QED BY <4>1 DEF ScansInv
    <3> QED BY <3>1, <3>2
  <2>6. clock' \in Nat
    BY <1>2 DEF ScansInv
  <2> QED BY <1>2, <2>1, <2>2, <2>5, <2>6 DEF ScansInv, Seen
<1>3. ASSUME NEW r \in Requests, NEW refresh \in BOOLEAN, Ask(r, refresh)
      PROVE  ScansInv'
  <2> DEFINE t == [at |-> "asked", refresh |-> refresh, since |-> clock, result |-> Never]
  <2>1. /\ request[r].at = "none" /\ request' = [request EXCEPT ![r] = t]
        /\ UNCHANGED <<clock, scan, answer>>
    BY <1>3 DEF Ask
  <2>2. t \in RequestType /\ t.at = "asked" /\ t.since = clock
    BY DEF RequestType, ScansInv, Never
  <2>3. answer[r] = NoAnswer /\ NoAnswer \in [cached : BOOLEAN, result : Int]
    BY <2>1 DEF ScansInv, NoAnswer, Never
  <2>4. answer' = [answer EXCEPT ![r] = NoAnswer]
    BY <2>1, <2>3 DEF ScansInv
  <2> HIDE DEF t
  <2> QED BY <1>2, <2>1, <2>2, <2>3, <2>4 DEF Looking
<1>4. ASSUME NEW r \in Requests, AnswerFromCache(r)
      PROVE  ScansInv'
  <2> DEFINE t == [request[r] EXCEPT !.at = "answered"]
             v == [cached |-> TRUE, result |-> scan.result]
  <2>1. /\ request[r].at = "asked" /\ ~request[r].refresh /\ Serves
        /\ request' = [request EXCEPT ![r] = t] /\ answer' = [answer EXCEPT ![r] = v]
        /\ UNCHANGED <<clock, scan>>
    BY <1>4 DEF AnswerFromCache
  <2>2. t \in RequestType /\ t.at = "answered" /\ ~t.refresh
    BY <2>1 DEF RequestType, ScansInv
  <2>3. /\ v \in [cached : BOOLEAN, result : Int] /\ v.cached /\ v.result \in Nat
        /\ clock <= v.result + ScanTime + Ttl
    BY <1>0, <2>1 DEF Serves, ScansInv
  <2> HIDE DEF t, v
  <2> QED BY <1>2, <2>1, <2>2, <2>3 DEF Looking
<1>5. ASSUME NEW r \in Requests, StartScan(r)
      PROVE  ScansInv'
  <2> DEFINE t == [request[r] EXCEPT !.at = "scan", !.result = clock]
  <2>1. /\ request[r].at = "asked" /\ request' = [request EXCEPT ![r] = t]
        /\ UNCHANGED <<clock, scan, answer>>
    BY <1>5 DEF StartScan
  <2>2. clock \in Nat /\ request[r] \in RequestType /\ request[r].since = clock
    BY <2>1 DEF ScansInv
  <2>3. t \in RequestType /\ t.at = "scan" /\ t.result = clock /\ t.since = clock
    BY <2>2 DEF RequestType, Looking
  <2>4. Seen(t)
    <3> HIDE DEF t
    <3> QED BY <1>0, <2>2, <2>3 DEF Seen
  <2>5. answer[r] = NoAnswer /\ NoAnswer \in [cached : BOOLEAN, result : Int]
    BY <2>1 DEF ScansInv, NoAnswer, Never
  <2>6. answer' = [answer EXCEPT ![r] = NoAnswer]
    BY <2>1, <2>5 DEF ScansInv
  <2> HIDE DEF t
  <2> QED BY <1>2, <2>1, <2>3, <2>4, <2>5, <2>6 DEF Looking
<1>6. ASSUME NEW r \in Requests, ScanEnds(r)
      PROVE  ScansInv'
  <2> DEFINE t == [request[r] EXCEPT !.at = "scanned"]
  <2>1. /\ request[r].at = "scan" /\ request' = [request EXCEPT ![r] = t]
        /\ UNCHANGED <<clock, scan, answer>>
    BY <1>6 DEF ScanEnds
  <2>2. request[r] \in RequestType /\ Seen(request[r])
    BY <2>1 DEF ScansInv, Looking
  <2>3. /\ t \in RequestType /\ t.at = "scanned" /\ t.result = request[r].result
        /\ t.since = request[r].since
    BY <2>2 DEF RequestType, Looking
  <2>4. Seen(t)
    BY <2>2, <2>3 DEF Seen
  <2>5. answer[r] = NoAnswer /\ NoAnswer \in [cached : BOOLEAN, result : Int]
    BY <2>1 DEF ScansInv, NoAnswer, Never, Looking
  <2>6. answer' = [answer EXCEPT ![r] = NoAnswer]
    BY <2>1, <2>5 DEF ScansInv
  <2> HIDE DEF t
  <2> QED BY <1>2, <2>1, <2>3, <2>4, <2>5, <2>6 DEF Looking
<1>7. ASSUME NEW r \in Requests, ScanFails(r)
      PROVE  ScansInv'
  <2>1. /\ request[r].at = "scan" /\ request' = [request EXCEPT ![r] = NoRequest]
        /\ UNCHANGED <<clock, scan, answer>>
    BY <1>7 DEF ScanFails
  <2>2. NoRequest \in RequestType /\ NoRequest.at = "none"
    BY DEF NoRequest, RequestType, Never
  <2>3. answer[r] = NoAnswer /\ NoAnswer \in [cached : BOOLEAN, result : Int]
    BY <2>1 DEF ScansInv, NoAnswer, Never, Looking
  <2>4. answer' = [answer EXCEPT ![r] = NoAnswer]
    BY <2>1, <2>3 DEF ScansInv
  <2> QED BY <1>2, <2>1, <2>2, <2>3, <2>4 DEF Looking
<1>8. ASSUME NEW r \in Requests, RecordScan(r)
      PROVE  ScansInv'
  <2> DEFINE t == [request[r] EXCEPT !.at = "answered"]
             v == [cached |-> FALSE, result |-> request[r].result]
  <2>1. /\ request[r].at = "scanned" /\ clock' = clock
        /\ scan' = [recorded |-> clock, result |-> request[r].result]
        /\ request' = [request EXCEPT ![r] = t] /\ answer' = [answer EXCEPT ![r] = v]
    BY <1>8 DEF RecordScan
  <2>2. request[r] \in RequestType /\ Seen(request[r])
    BY <2>1 DEF ScansInv, Looking
  <2>3. /\ t \in RequestType /\ t.at = "answered" /\ t.result = request[r].result
        /\ t.since = request[r].since
    BY <2>2 DEF RequestType
  <2>4. /\ v \in [cached : BOOLEAN, result : Int] /\ ~v.cached /\ v.result = request[r].result
    BY <2>2 DEF RequestType
  <2>5. /\ v.result \in Nat /\ clock <= v.result + ScanTime /\ t.since <= v.result
        /\ t.result \in Nat /\ clock <= t.result + ScanTime
    <3> HIDE DEF t, v
    <3> QED BY <2>2, <2>3, <2>4 DEF Seen
  <2>6. scan' = [recorded |-> clock, result |-> t.result]
    BY <2>1, <2>3
  <2> HIDE DEF t, v
  <2> QED BY <1>2, <2>1, <2>3, <2>4, <2>5, <2>6 DEF Looking
<1> QED BY <1>1, <1>3, <1>4, <1>5, <1>6, <1>7, <1>8 DEF ScansNext

\* However the scans of an address overlap and overwrite each other's rows, what
\* a cached answer tells is no older than the cache may be and a scan may take,
\* and a refresh tells what the node saw after it was asked.
THEOREM AnswersAreFresh == Spec => []AnswersAreRecent
<1>1. Init => ScansInv
  BY ScansAssumption DEF Init, ScansInit, ScansInv, RequestType, NoRequest, NoAnswer, Never,
                         Looking
<1>2. ScansInv /\ [Next]_<<billingVars, scanVars, agentVars, focus>> => ScansInv'
  <2> SUFFICES ASSUME ScansInv, [Next]_<<billingVars, scanVars, agentVars, focus>>
               PROVE  ScansInv'
    OBVIOUS
  <2>1. CASE ScansStep
    BY <2>1, ScansStepKept DEF ScansStep
  <2>2. CASE UNCHANGED scanVars
    BY <2>2 DEF scanVars, ScansInv, Seen
  <2> QED BY <2>1, <2>2 DEF Next, BillingStep, AgentStep
<1>3. ScansInv => AnswersAreRecent
  <2> SUFFICES ASSUME ScansInv, NEW r \in Requests, answer[r] # NoAnswer
               PROVE  /\ answer[r].result # Never
                      /\ clock - answer[r].result
                           <= (IF answer[r].cached THEN Ttl ELSE 0) + ScanTime
                      /\ request[r].refresh => answer[r].result >= request[r].since
    BY DEF AnswersAreRecent
  <2>1. answer[r].result \in Nat /\ clock \in Nat /\ request[r].since \in Int
        /\ answer[r].cached \in BOOLEAN
    BY DEF ScansInv, RequestType
  <2>2. CASE answer[r].cached
    BY <2>1, <2>2, ScansAssumption DEF ScansInv, Never
  <2>3. CASE ~answer[r].cached
    BY <2>1, <2>3, ScansAssumption DEF ScansInv, Never
  <2> QED BY <2>2, <2>3
<1> QED BY <1>1, <1>2, <1>3, PTL DEF Spec

-----------------------------------------------------------------------------
(***************************************************************************)
(* Memberships.                                                            *)
(***************************************************************************)

\* Event i, if it names an account, is among those applied.
IsApplied(i) == Normalizes(stripe[i]) => \E k \in DOMAIN applied : applied[k] = i

BillingType ==
  /\ stripe \in Seq(StripeEvents)
  /\ handling \in [event : Nat, done : {"none", "verified", "recorded", "applied"}]
  /\ handling.done # "none" => handling.event \in DOMAIN stripe
  /\ acknowledged \subseteq DOMAIN stripe
  /\ subscriptions \in [Accounts -> [status : Nat, ids : Nat, period : Nat]]
  /\ applied \in Seq(DOMAIN stripe)
  /\ failures \in Nat

\* The row of an account: of the event applied last it has the status, of that or of
\* none the dates; its ids come from an event of the account, if any has brought ids.
RowOf(a) ==
  /\ \A k \in OfAccount(a) : (\A m \in OfAccount(a) : m <= k) =>
       /\ subscriptions[a].status = applied[k]
       /\ subscriptions[a].period \in {0, applied[k]}
  /\ \A k \in OfAccount(a) : stripe[applied[k]].ids => subscriptions[a].ids # 0
  /\ subscriptions[a].ids # 0 =>
       /\ subscriptions[a].ids \in DOMAIN stripe
       /\ stripe[subscriptions[a].ids].account = a

BillingInv ==
  /\ BillingType
  /\ handling.done \in {"recorded", "applied"} => handling.event \in recorded
  /\ handling.done = "applied" => IsApplied(handling.event)
  /\ \A i \in acknowledged : i \in recorded /\ IsApplied(i)
  /\ \A k \in DOMAIN applied : Normalizes(stripe[applied[k]])
  /\ \A a \in Accounts : RowOf(a)

(* Nothing changes for the events there are when Stripe has another one.    *)
LEMMA BillingHappen ==
  ASSUME BillingInv, NEW e \in StripeEvents, Happen(e)
  PROVE  BillingInv'
<1>1. /\ stripe' = Append(stripe, e)
      /\ UNCHANGED <<acknowledged, handling, recorded, subscriptions, applied, failures>>
  BY DEF Happen
<1>2. /\ stripe' \in Seq(StripeEvents) /\ DOMAIN stripe \subseteq DOMAIN stripe'
      /\ \A i \in DOMAIN stripe : stripe'[i] = stripe[i]
  BY <1>1 DEF BillingInv, BillingType
<1>3. \A k \in DOMAIN applied : applied[k] \in DOMAIN stripe
  BY DEF BillingInv, BillingType
<1>4. applied' \in Seq(DOMAIN stripe')
  BY <1>1, <1>2, <1>3 DEF BillingInv, BillingType
<1>5. BillingType'
  BY <1>1, <1>2, <1>4 DEF BillingInv, BillingType
<1>6. \A i \in DOMAIN stripe : IsApplied(i) => IsApplied(i)'
  BY <1>1, <1>2 DEF IsApplied
<1>7. \A a : OfAccount(a)' = OfAccount(a)
  BY <1>1, <1>2, <1>3 DEF OfAccount
<1>8. \A k \in DOMAIN applied' : Normalizes(stripe'[applied'[k]])
  BY <1>1, <1>2, <1>3 DEF BillingInv
<1>9. ASSUME NEW a \in Accounts PROVE RowOf(a)'
  <2>1. RowOf(a)
    BY DEF BillingInv
  <2>2. \A k \in OfAccount(a) : k \in DOMAIN applied
    BY DEF OfAccount
  <2> QED BY <1>1, <1>2, <1>3, <1>7, <2>1, <2>2 DEF RowOf
<1>10. /\ handling'.done \in {"recorded", "applied"} => handling'.event \in recorded'
       /\ handling'.done = "applied" => IsApplied(handling.event)'
       /\ \A i \in acknowledged' : i \in recorded' /\ IsApplied(i)'
  BY <1>1, <1>6 DEF BillingInv, BillingType
<1> QED BY <1>1, <1>5, <1>8, <1>9, <1>10 DEF BillingInv, IsApplied

(* The row of the account that the event names, and no other, is written.   *)
LEMMA BillingUpsert ==
  ASSUME BillingInv, handling.done = "recorded",
         Normalizes(stripe[handling.event]),
         subscriptions' = [subscriptions EXCEPT ![stripe[handling.event].account] =
                             Upserted(@, Normalized(handling.event))],
         applied' = Append(applied, handling.event),
         handling' = [handling EXCEPT !.done = "applied"],
         UNCHANGED <<stripe, acknowledged, recorded, failures>>
  PROVE  BillingInv'
<1> DEFINE i == handling.event
           e == stripe[i]
           n == Len(applied)
           row == subscriptions[e.account]
           new == Upserted(row, Normalized(i))
<1>1. i \in DOMAIN stripe /\ i \in Nat \ {0} /\ e \in StripeEvents
  BY DEF BillingInv, BillingType
<1>2. e.account \in Accounts /\ e.ids \in BOOLEAN
  BY <1>1, BillingAssumption DEF Normalizes
<1>3. row \in [status : Nat, ids : Nat, period : Nat]
  BY <1>2 DEF BillingInv, BillingType
<1>4. /\ new \in [status : Nat, ids : Nat, period : Nat]
      /\ new.status = i /\ new.period \in {0, i}
      /\ new.ids = IF e.ids THEN i ELSE row.ids
  BY <1>1, <1>2, <1>3 DEF Upserted, Normalized
<1>5. /\ n \in Nat /\ DOMAIN applied = 1..n /\ DOMAIN applied' = 1..(n + 1)
      /\ applied'[n + 1] = i /\ \A k \in 1..n : applied'[k] = applied[k]
      /\ applied' \in Seq(DOMAIN stripe)
  BY <1>1 DEF BillingInv, BillingType
<1>6. /\ subscriptions' \in [Accounts -> [status : Nat, ids : Nat, period : Nat]]
      /\ subscriptions'[e.account] = new
      /\ \A a \in Accounts : a # e.account => subscriptions'[a] = subscriptions[a]
  <2> HIDE DEF i
  <2>1. subscriptions' = [subscriptions EXCEPT ![e.account] = new]
    BY DEF i
  <2>2. subscriptions \in [Accounts -> [status : Nat, ids : Nat, period : Nat]]
    BY DEF BillingInv, BillingType
  <2> HIDE DEF new, e
  <2> QED BY ONLY <1>2, <1>4, <2>1, <2>2
<1>7. handling'.done = "applied" /\ handling'.event = i
      /\ handling' \in [event : Nat, done : {"none", "verified", "recorded", "applied"}]
  BY DEF BillingInv, BillingType
<1>8. BillingType'
  BY <1>1, <1>5, <1>6, <1>7 DEF BillingInv, BillingType
<1>9. /\ \A j : IsApplied(j) => IsApplied(j)'
      /\ IsApplied(i)'
  BY <1>5 DEF IsApplied
<1>10. \A k \in DOMAIN applied' : Normalizes(stripe'[applied'[k]])
  BY <1>5 DEF BillingInv
<1>11. \A a : a = e.account => OfAccount(a)' = OfAccount(a) \cup {n + 1}
  BY <1>5 DEF OfAccount
<1>12. \A a : a # e.account => OfAccount(a)' = OfAccount(a)
  BY <1>5 DEF OfAccount
<1>13. \A a : OfAccount(a) \subseteq 1..n
  BY <1>5 DEF OfAccount
<1>14. ASSUME NEW a \in Accounts, a = e.account PROVE RowOf(a)'
  <2>1. RowOf(a)
    BY DEF BillingInv
  <2>2. ASSUME NEW k \in OfAccount(a)', \A m \in OfAccount(a)' : m <= k
        PROVE  applied'[k] = i
    <3>1. n + 1 <= k /\ k \in 1..(n + 1)
      BY <1>5, <1>11, <1>13, <1>14, <2>2
    <3> QED BY <1>5, <3>1
  <2>3. ASSUME NEW k \in OfAccount(a)', stripe'[applied'[k]].ids
        PROVE  new.ids # 0
    <3>1. CASE k = n + 1
      BY <1>1, <1>4, <1>5, <2>3, <3>1
    <3>2. CASE k \in OfAccount(a)
      <4>1. stripe[applied[k]].ids
        BY <1>5, <1>13, <1>14, <2>3, <3>2
      <4>2. row.ids # 0
        BY <1>14, <2>1, <3>2, <4>1 DEF RowOf
      <4> QED BY <1>1, <1>2, <1>4, <4>2
    <3> QED BY <1>11, <1>14, <2>3, <3>1, <3>2
  <2>4. new.ids # 0 => new.ids \in DOMAIN stripe /\ stripe[new.ids].account = a
    BY <1>1, <1>2, <1>4, <1>14, <2>1 DEF RowOf
  <2>5. stripe' = stripe /\ subscriptions'[a] = new
    BY <1>6, <1>14
  <2>6. /\ \A k \in OfAccount(a)' : (\A m \in OfAccount(a)' : m <= k) =>
             /\ subscriptions'[a].status = applied'[k]
             /\ subscriptions'[a].period \in {0, applied'[k]}
        /\ \A k \in OfAccount(a)' : stripe'[applied'[k]].ids => subscriptions'[a].ids # 0
        /\ subscriptions'[a].ids # 0 =>
             /\ subscriptions'[a].ids \in DOMAIN stripe'
             /\ stripe'[subscriptions'[a].ids].account = a
    <3> HIDE DEF i, n, row, new
    <3> QED BY <1>4, <2>2, <2>3, <2>4, <2>5
  <2> QED BY <2>6 DEF RowOf
<1>15. ASSUME NEW a \in Accounts, a # e.account PROVE RowOf(a)'
  <2>1. RowOf(a)
    BY DEF BillingInv
  <2>2. OfAccount(a)' = OfAccount(a) /\ subscriptions'[a] = subscriptions[a]
    BY <1>6, <1>12, <1>15
  <2>3. \A k \in OfAccount(a) : applied'[k] = applied[k]
    BY <1>5, <1>13
  <2> QED BY <2>1, <2>2, <2>3 DEF RowOf
<1>16. handling'.event \in recorded'
  BY <1>7 DEF BillingInv
<1>17. \A j \in acknowledged' : j \in recorded' /\ IsApplied(j)'
  BY <1>9 DEF BillingInv
<1>18. IsApplied(handling.event)' \/ handling'.done # "applied"
  BY <1>7, <1>9 DEF IsApplied
<1> QED BY <1>2, <1>8, <1>10, <1>14, <1>15, <1>16, <1>17, <1>18 DEF BillingInv

LEMMA BillingStepKept ==
  ASSUME BillingInv, BillingNext
  PROVE  BillingInv'
<1>1. ASSUME UNCHANGED <<stripe, subscriptions, applied>>,
             handling' \in [event : Nat, done : {"none", "verified", "recorded", "applied"}],
             handling'.done # "none" => handling'.event \in DOMAIN stripe,
             handling'.done \in {"recorded", "applied"} => handling'.event \in recorded',
             handling'.done = "applied" => IsApplied(handling'.event),
             acknowledged' \subseteq DOMAIN stripe,
             \A i \in acknowledged' : i \in recorded' /\ IsApplied(i),
             failures' \in Nat
      PROVE  BillingInv'
  <2>1. \A i : IsApplied(i)' <=> IsApplied(i)
    BY <1>1 DEF IsApplied
  <2>2. \A a \in Accounts : RowOf(a)'
    <3>1. \A a : OfAccount(a)' = OfAccount(a)
      BY <1>1 DEF OfAccount
    <3> QED BY <1>1, <3>1 DEF BillingInv, RowOf
  <2>3. BillingType'
    BY <1>1 DEF BillingInv, BillingType
  <2>4. \A k \in DOMAIN applied' : Normalizes(stripe'[applied'[k]])
    BY <1>1 DEF BillingInv
  <2>5. handling'.done = "applied" => IsApplied(handling.event)'
    BY <1>1, <2>1 DEF IsApplied
  <2> QED BY <1>1, <2>1, <2>2, <2>3, <2>4, <2>5 DEF BillingInv
<1>2. ASSUME NEW a \in Accounts, Checkout(a)
      PROVE  BillingInv'
  BY <1>1, <1>2 DEF Checkout, BillingInv, BillingType
<1>3. ASSUME NEW e \in StripeEvents, Happen(e)
      PROVE  BillingInv'
  BY <1>3, BillingHappen
<1>4. ASSUME NEW i \in DOMAIN stripe, NEW age, Receive(i, age)
      PROVE  BillingInv'
  <2>1. /\ handling' = [event |-> i, done |-> "verified"]
        /\ UNCHANGED <<stripe, acknowledged, recorded, subscriptions, applied, failures>>
    BY <1>4 DEF Receive
  <2>2. i \in Nat
    BY DEF BillingInv, BillingType
  <2> QED BY <1>1, <2>1, <2>2 DEF BillingInv, BillingType
<1>5. CASE RecordEvent
  <2>1. /\ handling' = [handling EXCEPT !.done = "recorded"] /\ handling.done = "verified"
        /\ recorded' = recorded \cup {handling.event}
        /\ UNCHANGED <<stripe, acknowledged, subscriptions, applied, failures>>
    BY <1>5 DEF RecordEvent
  <2>2. /\ handling'.done = "recorded" /\ handling'.event = handling.event
        /\ handling' \in [event : Nat, done : {"none", "verified", "recorded", "applied"}]
    BY <2>1 DEF BillingInv, BillingType
  <2> QED BY <1>1, <2>1, <2>2 DEF BillingInv, BillingType
<1>6. CASE UpsertSubscription
  <2>1. /\ handling.done = "recorded" /\ handling' = [handling EXCEPT !.done = "applied"]
        /\ UNCHANGED <<stripe, acknowledged, recorded, failures>>
    BY <1>6 DEF UpsertSubscription
  <2>2. CASE Normalizes(stripe[handling.event])
    BY <1>6, <2>1, <2>2, BillingUpsert DEF UpsertSubscription
  <2>3. CASE ~Normalizes(stripe[handling.event])
    <3>1. UNCHANGED <<subscriptions, applied>>
      BY <1>6, <2>3 DEF UpsertSubscription
    <3>2. /\ handling'.done = "applied" /\ handling'.event = handling.event
          /\ handling' \in [event : Nat, done : {"none", "verified", "recorded", "applied"}]
      BY <2>1 DEF BillingInv, BillingType
    <3>3. IsApplied(handling.event)
      BY <2>3 DEF IsApplied
    <3> QED BY <1>1, <2>1, <3>1, <3>2, <3>3 DEF BillingInv, BillingType
  <2> QED BY <2>2, <2>3
<1>7. CASE Acknowledge
  <2>1. /\ handling.done = "applied" /\ handling' = Idle
        /\ acknowledged' = acknowledged \cup {handling.event}
        /\ UNCHANGED <<stripe, recorded, subscriptions, applied, failures>>
    BY <1>7 DEF Acknowledge
  <2> QED BY <1>1, <2>1 DEF BillingInv, BillingType, Idle
<1>8. CASE Fail
  <2>1. /\ handling' = Idle /\ failures' = failures + 1
        /\ UNCHANGED <<stripe, acknowledged, recorded, subscriptions, applied>>
    BY <1>8 DEF Fail, Failure
  <2> QED BY <1>1, <2>1 DEF BillingInv, BillingType, Idle
<1> QED BY <1>2, <1>3, <1>4, <1>5, <1>6, <1>7, <1>8 DEF BillingNext, Webhook

\* What Stripe need not send again is in the event log and in the row of the
\* account it names, however often the webhook has failed over it.
THEOREM NothingAcknowledgedIsLost == Spec => []AcknowledgedIsApplied
<1>1. Init => BillingInv
  BY DEF Init, BillingInit, BillingInv, BillingType, Idle, NoRow, RowOf, OfAccount, IsApplied
<1>2. BillingInv /\ [Next]_<<billingVars, scanVars, agentVars, focus>> => BillingInv'
  <2> SUFFICES ASSUME BillingInv, [Next]_<<billingVars, scanVars, agentVars, focus>>
               PROVE  BillingInv'
    OBVIOUS
  <2>1. CASE BillingStep
    BY <2>1, BillingStepKept DEF BillingStep
  <2>2. CASE UNCHANGED billingVars
    BY <2>2 DEF billingVars, BillingInv, BillingType, IsApplied, RowOf, OfAccount
  <2> QED BY <2>1, <2>2 DEF Next, ScansStep, AgentStep
<1>3. BillingInv => AcknowledgedIsApplied
  <2> SUFFICES ASSUME BillingInv, NEW i \in acknowledged
               PROVE  /\ i \in recorded
                      /\ Normalizes(stripe[i]) =>
                           LET a   == stripe[i].account
                               row == subscriptions[a]
                           IN  /\ \E k \in OfAccount(a) : applied[k] = i
                               /\ \A k \in OfAccount(a) :
                                    (\A m \in OfAccount(a) : m <= k) =>
                                      row.status = applied[k] /\ row.period \in {0, applied[k]}
                               /\ stripe[i].ids => row.ids # 0 /\ stripe[row.ids].account = a
    BY DEF AcknowledgedIsApplied
  <2>1. i \in recorded
    BY DEF BillingInv
  <2>2. ASSUME Normalizes(stripe[i])
        PROVE  /\ \E k \in OfAccount(stripe[i].account) : applied[k] = i
               /\ RowOf(stripe[i].account)
    <3>1. PICK k \in DOMAIN applied : applied[k] = i
      BY <2>2 DEF BillingInv, IsApplied
    <3>2. stripe[i] \in StripeEvents
      BY DEF BillingInv, BillingType
    <3>3. stripe[i].account \in Accounts
      BY <2>2, <3>2, BillingAssumption DEF Normalizes
    <3> QED BY <3>1, <3>3 DEF BillingInv, OfAccount
  <2> QED BY <2>1, <2>2 DEF RowOf
<1> QED BY <1>1, <1>2, <1>3, PTL DEF Spec

-----------------------------------------------------------------------------
(***************************************************************************)
(* The network agent.                                                      *)
(***************************************************************************)

PeerType == [address : Int, score : Int, behind : Int, ping : Int]

(* The candidates of a list are peers, finitely many, and their sort keys   *)
(* order them totally.                                                      *)
LEMMA CandidatesAre ==
  ASSUME NEW list \in Lists
  PROVE  /\ IsFiniteSet(Candidates(list)) /\ Candidates(list) \subseteq PeerType
         /\ \A p, q \in Candidates(list) : p = q \/ Prefers(p, q) \/ Prefers(q, p)
<1> DEFINE named == {q \in list : q.address # Unknown}
           scored(p) == [p EXCEPT !.score = IF @ = Unknown THEN 0 ELSE @]
           f == [p \in named |-> scored(p)]
           C == Candidates(list)
<1>1. /\ IsFiniteSet(list) /\ list \subseteq PeerType
      /\ \A p, q \in C : p = q \/ Prefers(p, q) \/ Prefers(q, p)
  BY ListsAssumption DEF PeerType
<1>2. IsFiniteSet(named) /\ named \subseteq PeerType
  BY <1>1, FS_Subset
<1>3. C = {scored(p) : p \in named}
  BY DEF Candidates
<1>4. \A p \in PeerType : scored(p) \in PeerType
  BY DEF PeerType
<1>5. f \in Surjection(named, C)
  <2>1. f \in [named -> C]
    BY <1>3
  <2>2. \A c \in C : \E p \in named : f[p] = c
    BY <1>3
  <2> HIDE DEF f, C, named
  <2> QED BY <2>1, <2>2, Fun_IsSurj
<1>6. IsFiniteSet(C)
  <2> HIDE DEF f, C, named
  <2> QED BY <1>2, <1>5, FS_Surjection
<1>7. C \subseteq PeerType
  <2> HIDE DEF scored
  <2> QED BY <1>2, <1>3, <1>4
<1> QED BY <1>1, <1>6, <1>7

LEMMA PrefersOrders ==
  ASSUME NEW p \in PeerType, NEW q \in PeerType, NEW r \in PeerType
  PROVE  /\ ~Prefers(p, p)
         /\ Prefers(p, q) /\ Prefers(q, r) => Prefers(p, r)
<1> DEFINE ping(x) == IF x.ping = Unknown THEN 999999 ELSE x.ping
<1>1. \A x \in PeerType : /\ x.score \in Int /\ ping(x) \in Int /\ x.address \in Int
                          /\ Synced(x) \in BOOLEAN
  BY DEF PeerType, Synced
<1>2. \A x, y : Prefers(x, y) <=>
        \/ Synced(x) /\ ~Synced(y)
        \/ /\ Synced(x) = Synced(y)
           /\ \/ x.score > y.score
              \/ x.score = y.score /\ ping(x) < ping(y)
              \/ x.score = y.score /\ ping(x) = ping(y) /\ x.address < y.address
  BY DEF Prefers
<1> HIDE DEF ping
<1>3. ~Prefers(p, p)
  BY <1>1, <1>2
<1>4. ASSUME Prefers(p, q), Prefers(q, r) PROVE Prefers(p, r)
  BY <1>1, <1>2, <1>4
<1> QED BY <1>3, <1>4

(* Every peer has a place of its own, and a better one than those it is     *)
(* preferred to.                                                            *)
LEMMA PlaceIs ==
  ASSUME NEW good, IsFiniteSet(good), good \subseteq PeerType,
         \A p, q \in good : p = q \/ Prefers(p, q) \/ Prefers(q, p)
  PROVE  /\ [p \in good |-> Place(p, good)] \in Bijection(good, 1..Cardinality(good))
         /\ \A p, q \in good : Place(p, good) < Place(q, good) => Prefers(p, q)
<1> DEFINE before(p) == {q \in good : Prefers(q, p)}
           place == [p \in good |-> Place(p, good)]
           n == Cardinality(good)
<1>1. n \in Nat
  BY FS_CardinalityType
<1>2. \A p \in good : place[p] = 1 + Cardinality(before(p))
  BY DEF Place
<1>3. \A p \in good : IsFiniteSet(before(p)) /\ Cardinality(before(p)) \in Nat
  BY FS_Subset, FS_CardinalityType
<1>4. ASSUME NEW p \in good PROVE place[p] \in 1..n
  <2>1. before(p) \in SUBSET (good \ {p})
    BY PrefersOrders
  <2>2. IsFiniteSet(good \ {p}) /\ Cardinality(good \ {p}) = n - 1
    BY FS_RemoveElement
  <2>3. Cardinality(before(p)) <= n - 1
    <3> HIDE DEF before, n
    <3> QED BY <2>1, <2>2, FS_Subset
  <2> HIDE DEF before, n, place
  <2> QED BY <1>1, <1>2, <1>3, <2>3
<1>5. ASSUME NEW p \in good, NEW q \in good, Prefers(p, q)
      PROVE  place[p] < place[q]
  <2>1. before(p) \in SUBSET before(q)
    BY <1>5, PrefersOrders
  <2>2. p \in before(q) /\ p \notin before(p)
    BY <1>5, PrefersOrders
  <2>3. /\ Cardinality(before(p)) <= Cardinality(before(q))
        /\ Cardinality(before(p)) # Cardinality(before(q))
    <3> HIDE DEF before
    <3> QED BY <1>3, <2>1, <2>2, FS_Subset
  <2> HIDE DEF before, place
  <2> QED BY <1>2, <1>3, <2>3
<1>6. \A p, q \in good : place[p] = place[q] => p = q
  <2> HIDE DEF place
  <2> QED BY <1>1, <1>4, <1>5
<1>7. place \in Injection(good, 1..n)
  <2>1. place \in [good -> 1..n]
    BY <1>4
  <2> HIDE DEF place, n
  <2> QED BY <1>6, <2>1, Fun_IsInj
<1>8. IsFiniteSet(1..n) /\ Cardinality(1..n) = n
  <2>1. 1 \in Int /\ n \in Int
    BY <1>1
  <2>2. IsFiniteSet(1..n) /\ Cardinality(1..n) = IF 1 > n THEN 0 ELSE n - 1 + 1
    <3> HIDE DEF n
    <3> QED BY <2>1, FS_Interval
  <2> QED BY <1>1, <2>2
<1>9. place \in Surjection(good, 1..n)
  <2> HIDE DEF place
  <2> QED BY <1>7, <1>8, FS_Injection
<1>10. ASSUME NEW p \in good, NEW q \in good, Place(p, good) < Place(q, good)
       PROVE  Prefers(p, q)
  <2>1. place[p] < place[q]
    BY <1>10
  <2> HIDE DEF place
  <2>2. ~(place[q] < place[p]) /\ p # q
    BY <1>1, <1>4, <2>1
  <2> QED BY <1>5, <2>2
<1> QED BY <1>7, <1>9, <1>10 DEF Bijection

(* The selection is the best of the list.                                   *)
LEMMA SelectionIsBest ==
  ASSUME NEW list \in Lists
  PROVE  LET s == Selection(Candidates(list))
         IN  BestOf({s[i] : i \in DOMAIN s}, Candidates(list))
<1> DEFINE C == Candidates(list)
           good == {p \in C : Eligible(p)}
           n == Cardinality(good)
           count == IF n < Limit THEN n ELSE Limit
           s == Selection(C)
           chosen == {s[i] : i \in DOMAIN s}
           place == [p \in good |-> Place(p, good)]
<1>1. /\ IsFiniteSet(good) /\ good \subseteq PeerType
      /\ \A p, q \in good : p = q \/ Prefers(p, q) \/ Prefers(q, p)
  BY CandidatesAre, FS_Subset
<1>2. n \in Nat /\ count \in Nat /\ count <= n /\ Limit \in Nat
  BY <1>1, FS_CardinalityType, AgentAssumption
<1>3. /\ place \in Bijection(good, 1..n)
      /\ \A p, q \in good : Place(p, good) < Place(q, good) => Prefers(p, q)
  <2> HIDE DEF good
  <2> QED BY <1>1, PlaceIs
<1>4. /\ \A p \in good : Place(p, good) \in 1..n
      /\ \A p, q \in good : Place(p, good) = Place(q, good) => p = q
      /\ \A i \in 1..n : \E p \in good : Place(p, good) = i
  <2>1. \A p \in good : place[p] = Place(p, good)
    OBVIOUS
  <2> HIDE DEF place, good, n
  <2>2. /\ place \in [good -> 1..n]
        /\ \A p, q \in good : place[p] = place[q] => p = q
        /\ \A i \in 1..n : \E p \in good : place[p] = i
    BY <1>3 DEF Bijection, Injection, Surjection, IsInjective
  <2> QED BY <2>1, <2>2
<1>5. s = [i \in 1..count |-> CHOOSE p \in good : Place(p, good) = i]
  BY DEF Selection
<1>6. \A i \in 1..count : s[i] \in good /\ Place(s[i], good) = i
  <2> SUFFICES ASSUME NEW i \in 1..count PROVE s[i] \in good /\ Place(s[i], good) = i
    OBVIOUS
  <2>1. i \in 1..n
    BY <1>2
  <2>2. \E p \in good : Place(p, good) = i
    BY <1>4, <2>1
  <2>3. s[i] = CHOOSE p \in good : Place(p, good) = i
    BY <1>5
  <2> HIDE DEF good, s
  <2> QED BY <2>2, <2>3
<1>7. DOMAIN s = 1..count
  BY <1>5
<1> HIDE DEF s
<1>8. chosen \subseteq good /\ \A p \in good : p \in chosen <=> Place(p, good) <= count
  <2>1. chosen \subseteq good
    BY <1>6, <1>7
  <2>2. ASSUME NEW p \in good, p \in chosen PROVE Place(p, good) <= count
    <3>1. PICK i \in 1..count : p = s[i]
      BY <1>7, <2>2
    <3> HIDE DEF good, count
    <3> QED BY <1>2, <1>6, <3>1
  <2>3. ASSUME NEW p \in good, Place(p, good) <= count PROVE p \in chosen
    <3> DEFINE i == Place(p, good)
    <3>1. i \in 1..count
      <4> HIDE DEF good, count, n
      <4> QED BY <1>2, <1>4, <2>3
    <3>2. s[i] \in good /\ Place(s[i], good) = i
      BY <1>6, <3>1
    <3>3. s[i] = p
      <4> HIDE DEF good
      <4> QED BY <1>4, <3>2
    <3> QED BY <1>7, <3>1, <3>3
  <2> QED BY <2>1, <2>2, <2>3
<1>9. Cardinality(chosen) = count
  <2> DEFINE g == [i \in 1..count |-> s[i]]
  <2>1. g \in [1..count -> chosen]
    BY <1>7
  <2>2. \A i, j \in 1..count : g[i] = g[j] => i = j
    <3> HIDE DEF good, count
    <3> QED BY <1>6
  <2>3. \A p \in chosen : \E i \in 1..count : g[i] = p
    BY <1>7
  <2>4. ExistsBijection(1..count, chosen)
    <3> HIDE DEF g, chosen, count
    <3>1. g \in Injection(1..count, chosen) /\ g \in Surjection(1..count, chosen)
      BY <2>1, <2>2, <2>3, Fun_IsInj, Fun_IsSurj
    <3> QED BY <3>1 DEF Bijection, ExistsBijection
  <2>5. IsFiniteSet(1..count) /\ Cardinality(1..count) = count
    <3> HIDE DEF count
    <3>1. 1 \in Int /\ count \in Int
      BY <1>2
    <3>2. IsFiniteSet(1..count)
          /\ Cardinality(1..count) = IF 1 > count THEN 0 ELSE count - 1 + 1
      BY <3>1, FS_Interval
    <3> QED BY <1>2, <3>2
  <2> HIDE DEF chosen, count
  <2> QED BY <2>4, <2>5, FS_Bijection
<1>10. ASSUME NEW p \in chosen, NEW q \in good \ chosen
       PROVE  (Synced(q) => Synced(p)) /\ (Synced(p) = Synced(q) => p.score >= q.score)
  <2>1. p \in good /\ Place(p, good) < Place(q, good)
    <3>1. p \in good /\ Place(p, good) <= count /\ ~(Place(q, good) <= count)
      BY <1>8
    <3>2. Place(p, good) \in 1..n /\ Place(q, good) \in 1..n
      BY <1>4, <3>1
    <3> HIDE DEF good, count, n
    <3> QED BY <1>2, <3>1, <3>2
  <2>2. Prefers(p, q)
    BY <1>3, <2>1
  <2>3. p.score \in Int /\ q.score \in Int
    BY <1>1, <2>1 DEF PeerType
  <2> HIDE DEF good, chosen
  <2> QED BY <2>2, <2>3 DEF Prefers
<1> HIDE DEF chosen, count
<1>11. BestOf(chosen, C)
  <2>1. Cardinality(chosen) = IF n < Limit THEN n ELSE Limit
    BY <1>9 DEF count
  <2>2. chosen \subseteq good
    BY <1>8
  <2> QED BY <1>10, <2>1, <2>2 DEF BestOf
<1> QED BY <1>11 DEF chosen, s

Best(chosen, list) == BestOf({chosen[i] : i \in DOMAIN chosen}, Candidates(list))

AgentInv ==
  /\ step \in {"fetch", "node", "write", "writing", "replace", "record", "sleep"}
  /\ fetched \subseteq Lists
  /\ step # "fetch" => \E list \in fetched : Best(selected, list)
  /\ step = "replace" => temporary = [state |-> "whole", peers |-> selected]
  /\ snapshot.state # "half"
  /\ snapshot.state = "whole" => \E list \in fetched : Best(snapshot.peers, list)
  /\ snapshot.state = "none" => events = {}
  /\ step \in {"record", "sleep"} => snapshot.state = "whole" /\ snapshot.peers = selected
  /\ step = "sleep" => selected \in events

LEMMA AgentStepKept ==
  ASSUME AgentInv, AgentNext
  PROVE  AgentInv'
<1>1. CASE FetchPeers
  <2>1. PICK list \in Lists : /\ selected' = Selection(Candidates(list))
                              /\ fetched' = fetched \cup {list}
    BY <1>1 DEF FetchPeers
  <2>2. Best(selected', list)
    BY <2>1, SelectionIsBest DEF Best
  <2>3. step' = "node" /\ UNCHANGED <<temporary, snapshot, events>>
    BY <1>1 DEF FetchPeers
  <2>4. fetched' \subseteq Lists /\ \E l \in fetched' : Best(selected', l)
    BY <2>1, <2>2 DEF AgentInv
  <2>5. snapshot.state = "whole" => \E l \in fetched' : Best(snapshot.peers, l)
    BY <2>1 DEF AgentInv
  <2> QED BY <2>3, <2>4, <2>5 DEF AgentInv, Best
<1>2. CASE AskNode
  BY <1>2 DEF AskNode, AgentInv, Best
<1>3. CASE BeginWrite
  BY <1>3 DEF BeginWrite, Writes, AgentInv, Best
<1>4. CASE EndWrite
  BY <1>4 DEF EndWrite, Writes, AgentInv, Best
<1>5. CASE Replace
  <2>1. /\ step = "replace" /\ step' = "record" /\ UNCHANGED <<selected, events, fetched>>
        /\ snapshot' = [state |-> "whole", peers |-> selected]
    BY <1>5 DEF Replace, AgentInv
  <2> QED BY <2>1 DEF AgentInv, Best
<1>6. CASE RecordSnapshot
  BY <1>6 DEF RecordSnapshot, AgentInv, Best
<1>7. CASE NextRound
  BY <1>7 DEF NextRound, AgentInv, Best
<1>8. CASE AgentEnds
  BY <1>8 DEF AgentEnds, AgentInv, Best
<1> QED BY <1>1, <1>2, <1>3, <1>4, <1>5, <1>6, <1>7, <1>8 DEF AgentNext

\* Wherever the agent is ended, the snapshot is absent or a whole file with the best
\* peers of one list, and events tell only of snapshots that were there.
THEOREM SnapshotIsNeverTorn == Spec => []SnapshotIsWhole
<1>1. Init => AgentInv
  BY DEF Init, AgentInit, AgentInv, NoFile
<1>2. AgentInv /\ [Next]_<<billingVars, scanVars, agentVars, focus>> => AgentInv'
  <2> SUFFICES ASSUME AgentInv, [Next]_<<billingVars, scanVars, agentVars, focus>>
               PROVE  AgentInv'
    OBVIOUS
  <2>1. CASE AgentStep
    BY <2>1, AgentStepKept DEF AgentStep
  <2>2. CASE UNCHANGED agentVars
    BY <2>2 DEF agentVars, AgentInv, Best
  <2> QED BY <2>1, <2>2 DEF Next, ScansStep, BillingStep
<1>3. AgentInv => SnapshotIsWhole
  BY DEF AgentInv, SnapshotIsWhole, Best
<1> QED BY <1>1, <1>2, <1>3, PTL DEF Spec
=============================================================================
