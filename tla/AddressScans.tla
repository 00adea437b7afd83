---------------------------- MODULE AddressScans ----------------------------
(***************************************************************************)
(* Balances of an address (address_utxos of src/backend/app.py and two     *)
(* methods of repository.py): each request is a thread, which answers from *)
(* the last scan that was recorded or has the node scan again.  Addresses  *)
(* do not touch each other; there is one here.  A result is the time at    *)
(* which the node looked.                                                  *)
(***************************************************************************)
EXTENDS Integers

CONSTANTS Requests,
          Ttl,       \* address_scan_cache_ttl_s
          ScanTime,  \* 120 s: the timeout of the node's scan
          MaxTime    \* bound on the clock

ASSUME ScansAssumption == Ttl \in Nat /\ ScanTime \in Nat /\ MaxTime \in Nat

VARIABLES
  clock,
  scan,     \* the row of address_balance_scans: when it was recorded, of what result
  request,  \* each request: where it is, its refresh, when it came, its result
  answer    \* its answer, if it has one

scanVars == <<clock, scan, request, answer>>

Never == 0 - 1
NoRequest == [at |-> "none", refresh |-> FALSE, since |-> Never, result |-> Never]
NoAnswer  == [cached |-> FALSE, result |-> Never]

ScansInit ==
  /\ clock = 0
  /\ scan = [recorded |-> Never, result |-> Never]
  /\ request = [r \in Requests |-> NoRequest]
  /\ answer = [r \in Requests |-> NoAnswer]

\* A scan ends within its timeout, and a thread does not rest between its steps.
Tick ==
  /\ clock < MaxTime
  /\ \A r \in Requests : request[r].at \in {"none", "answered"}
                           \/ (request[r].at = "scan" /\ clock < request[r].result + ScanTime)
  /\ clock' = clock + 1
  /\ request' = [r \in Requests |-> IF request[r].at = "answered" THEN NoRequest ELSE request[r]]
  /\ answer' = [r \in Requests |-> NoAnswer]
  /\ UNCHANGED scan

Ask(r, refresh) ==
  /\ request[r].at = "none"
  /\ request' = [request EXCEPT ![r] =
                   [at |-> "asked", refresh |-> refresh, since |-> clock, result |-> Never]]
  /\ UNCHANGED <<clock, scan, answer>>

\* A faulty variant: a recorded scan serves forever.
ServesAlways == scan.recorded # Never

\* get_address_balance_scan: not older than the cutoff.
Serves == scan.recorded # Never /\ scan.recorded >= clock - Ttl

AnswerFromCache(r) ==
  /\ request[r].at = "asked"
  /\ ~request[r].refresh /\ Serves
  /\ request' = [request EXCEPT ![r].at = "answered"]
  /\ answer' = [answer EXCEPT ![r] = [cached |-> TRUE, result |-> scan.result]]
  /\ UNCHANGED <<clock, scan>>

StartScan(r) ==
  /\ request[r].at = "asked"
  /\ request[r].refresh \/ ~Serves
  /\ request' = [request EXCEPT ![r].at = "scan", ![r].result = clock]
  /\ UNCHANGED <<clock, scan, answer>>

\* The node's answer is there; the thread may be overtaken before it records it.
ScanEnds(r) ==
  /\ request[r].at = "scan"
  /\ request' = [request EXCEPT ![r].at = "scanned"]
  /\ UNCHANGED <<clock, scan, answer>>

\* The node refuses, or times out: the request is answered with an error.
ScanFails(r) ==
  /\ request[r].at = "scan"
  /\ request' = [request EXCEPT ![r] = NoRequest]
  /\ UNCHANGED <<clock, scan, answer>>

\* record_address_balance_scan, whatever has been recorded meanwhile.
RecordScan(r) ==
  /\ request[r].at = "scanned"
  /\ scan' = [recorded |-> clock, result |-> request[r].result]
  /\ request' = [request EXCEPT ![r].at = "answered"]
  /\ answer' = [answer EXCEPT ![r] = [cached |-> FALSE, result |-> request[r].result]]
  /\ UNCHANGED clock

ScansNext ==
  \/ Tick
  \/ \E r \in Requests : \/ \E refresh \in BOOLEAN : Ask(r, refresh)
                         \/ AnswerFromCache(r) \/ StartScan(r) \/ ScanEnds(r)
                         \/ ScanFails(r) \/ RecordScan(r)
-----------------------------------------------------------------------------
\* However scans overlap and overwrite each other's rows, a cached answer is no
\* older than the cache may be and a scan may take, and a refresh is answered with
\* what the node saw after it was asked.
AnswersAreRecent ==
  \A r \in Requests : answer[r] # NoAnswer =>
    /\ answer[r].result # Never
    /\ clock - answer[r].result <= (IF answer[r].cached THEN Ttl ELSE 0) + ScanTime
    /\ request[r].refresh => answer[r].result >= request[r].since
=============================================================================
