---------------------------- MODULE NetworkAgent ----------------------------
(***************************************************************************)
(* The network agent (src/backend/network_agent.py): it fetches a list of  *)
(* peers, picks the best, hands them to the node if it is told to, writes  *)
(* a snapshot file beside the old one and puts it in its place, and        *)
(* records it as an event.  Its service starts it again when it ends.      *)
(***************************************************************************)
EXTENDS Integers, FiniteSets

CONSTANTS Lists,      \* the answers the source may give, as sets of peers
          MinScore,   \* network_agent_min_score
          Limit,      \* 12
          MaxRounds,  \* bound on the rounds
          MaxCrashes  \* bound on the ends of the process

ASSUME AgentAssumption == Limit \in Nat /\ MaxRounds \in Nat /\ MaxCrashes \in Nat

VARIABLES
  step,       \* where run_once is
  selected,   \* its selection
  temporary,  \* the file beside the snapshot
  snapshot,   \* the snapshot file
  events,     \* the network_agent.snapshot rows of backend_events
  fetched,    \* history: the lists there have been
  rounds, crashes

agentVars == <<step, selected, temporary, snapshot, events, fetched, rounds, crashes>>

Unknown == 0 - 1   \* None
NoFile  == [state |-> "none", peers |-> <<>>]

AgentInit ==
  /\ step = "fetch" /\ selected = <<>>
  /\ temporary = NoFile /\ snapshot = NoFile /\ events = {}
  /\ fetched = {} /\ rounds = 0 /\ crashes = 0
-----------------------------------------------------------------------------
\* normalize_peer_candidates: a peer needs an address; what cannot be read is None,
\* and a score of None is 0.
Candidates(list) ==
  {[p EXCEPT !.score = IF @ = Unknown THEN 0 ELSE @] : p \in {q \in list : q.address # Unknown}}

Eligible(p) == p.score >= MinScore /\ p.behind <= 10

Synced(p) == p.behind <= 2

\* The sort key: synced ones first, then by score, ping and address; a ping that is
\* not known is the longest.
Prefers(p, q) ==
  LET ping(x) == IF x.ping = Unknown THEN 999999 ELSE x.ping
  IN  \/ Synced(p) /\ ~Synced(q)
      \/ /\ Synced(p) = Synced(q)
         /\ \/ p.score > q.score
            \/ p.score = q.score /\ ping(p) < ping(q)
            \/ p.score = q.score /\ ping(p) = ping(q) /\ p.address < q.address

\* No two candidates have the same sort key: their order would be that of the list,
\* which a set does not have.
ASSUME ListsAssumption ==
  \A list \in Lists :
    /\ IsFiniteSet(list)
    /\ list \subseteq [address : Int, score : Int, behind : Int, ping : Int]
    /\ \A p, q \in Candidates(list) : p = q \/ Prefers(p, q) \/ Prefers(q, p)

Place(p, good) == 1 + Cardinality({q \in good : Prefers(q, p)})

\* select_peer_candidates: the first of the eligible ones when they are sorted.
Selection(list) ==
  LET good  == {p \in list : Eligible(p)}
      count == IF Cardinality(good) < Limit THEN Cardinality(good) ELSE Limit
  IN  [i \in 1..count |-> CHOOSE p \in good : Place(p, good) = i]
-----------------------------------------------------------------------------
\* fetch_json, normalize_peer_candidates and the selection.
FetchPeers ==
  /\ step = "fetch"
  /\ rounds < MaxRounds
  /\ rounds' = rounds + 1
  /\ \E list \in Lists : selected' = Selection(Candidates(list)) /\ fetched' = fetched \cup {list}
  /\ step' = "node"
  /\ UNCHANGED <<temporary, snapshot, events, crashes>>

\* read_node_state and maybe_apply_peers; the errors of the node are noted.
AskNode ==
  /\ step = "node"
  /\ step' = "write"
  /\ UNCHANGED <<selected, temporary, snapshot, events, fetched, rounds, crashes>>

\* A faulty variant: the snapshot is written in its place.
WritesInPlace(file) == snapshot' = file /\ UNCHANGED temporary

Writes(file) == temporary' = file /\ UNCHANGED snapshot

\* write_text begins, and ends.
BeginWrite ==
  /\ step = "write"
  /\ Writes([state |-> "half", peers |-> <<>>])
  /\ step' = "writing"
  /\ UNCHANGED <<selected, events, fetched, rounds, crashes>>

EndWrite ==
  /\ step = "writing"
  /\ Writes([state |-> "whole", peers |-> selected])
  /\ step' = "replace"
  /\ UNCHANGED <<selected, events, fetched, rounds, crashes>>

Replace ==
  /\ step = "replace"
  /\ snapshot' = temporary /\ temporary' = NoFile
  /\ step' = "record"
  /\ UNCHANGED <<selected, events, fetched, rounds, crashes>>

RecordSnapshot ==
  /\ step = "record"
  /\ events' = events \cup {selected}
  /\ step' = "sleep"
  /\ UNCHANGED <<selected, temporary, snapshot, fetched, rounds, crashes>>

NextRound ==
  /\ step = "sleep"
  /\ step' = "fetch"
  /\ UNCHANGED <<selected, temporary, snapshot, events, fetched, rounds, crashes>>

\* The source does not answer, the disk or the database fails, the process is
\* killed: it begins again, with the files it has left.
AgentEnds ==
  /\ crashes < MaxCrashes
  /\ crashes' = crashes + 1
  /\ step' = "fetch" /\ selected' = <<>>
  /\ UNCHANGED <<temporary, snapshot, events, fetched, rounds>>

AgentNext == FetchPeers \/ AskNode \/ BeginWrite \/ EndWrite \/ Replace \/ RecordSnapshot
               \/ NextRound \/ AgentEnds
-----------------------------------------------------------------------------
\* The best of a list, by its definition: as many as there may be, and none left out
\* that is synced when one taken is not, or of a higher score.
BestOf(chosen, list) ==
  LET good == {p \in list : Eligible(p)} IN
  /\ chosen \subseteq good
  /\ Cardinality(chosen) = (IF Cardinality(good) < Limit THEN Cardinality(good) ELSE Limit)
  /\ \A p \in chosen, q \in good \ chosen :
       (Synced(q) => Synced(p)) /\ (Synced(p) = Synced(q) => p.score >= q.score)

\* Wherever the agent is ended, whoever reads the snapshot finds a whole file with the
\* best peers of one list; an event never tells of a snapshot that was not there, and
\* all there is of a round that has ended is recorded.
SnapshotIsWhole ==
  /\ snapshot.state # "half"
  /\ snapshot.state = "whole" =>
       \E list \in fetched :
         BestOf({snapshot.peers[i] : i \in DOMAIN snapshot.peers}, Candidates(list))
  /\ snapshot.state = "none" => events = {}
  /\ step = "sleep" => snapshot.peers \in events
=============================================================================
