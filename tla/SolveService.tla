---------------------------- MODULE SolveService ----------------------------
(***************************************************************************)
(* What the callers of solve_slice count on, with no word of processes,    *)
(* pipes or locks: a job is asked for, and what comes back is the record   *)
(* of that very job, or word that there is none.                           *)
(***************************************************************************)
EXTENDS Naturals

CONSTANT Callers

VARIABLES asked,   \* the job each caller waits for; 0 if none
          reply    \* the last reply to each caller

NoRecord == {"error", "gaveup", "raised"}

Init == /\ asked = [c \in Callers |-> 0]
        /\ reply = [c \in Callers |-> [asked |-> 0, kind |-> "none", of |-> 0]]

Ask(c) == /\ asked[c] = 0
          /\ asked'[c] \in Nat \ {0}
          /\ asked' = [asked EXCEPT ![c] = asked'[c]]
          /\ UNCHANGED reply

Answer(c) ==
  /\ asked[c] # 0
  /\ asked' = [asked EXCEPT ![c] = 0]
  /\ \/ reply' = [reply EXCEPT ![c] = [asked |-> asked[c], kind |-> "record",
                                       of |-> asked[c]]]
     \/ \E k \in NoRecord :
          reply' = [reply EXCEPT ![c] = [asked |-> asked[c], kind |-> k, of |-> 0]]

Spec == Init /\ [][\E c \in Callers : Ask(c) \/ Answer(c)]_<<asked, reply>>
=============================================================================
