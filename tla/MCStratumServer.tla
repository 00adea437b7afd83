-------------------------- MODULE MCStratumServer --------------------------
(***************************************************************************)
(* StratumServer for TLC: its sessions are interchangeable.  Two texts are *)
(* one number, as "0f" and "F" are, and a third one is no number.          *)
(***************************************************************************)
EXTENDS StratumServer, TLC

CONSTANTS f, padded, noise

MCNumber == [t \in Texts \ {noise} |-> 15]

SessionSymmetry == Permutations(Sessions)
=============================================================================
