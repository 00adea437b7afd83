-------------------------- MODULE MCStratumClient --------------------------
(***************************************************************************)
(* StratumClient for TLC: which nonces meet the target.                    *)
(***************************************************************************)
EXTENDS StratumClient

\* Two nonces of the first job, one of the second.
MCHits == {<<1, 0>>, <<1, 2>>, <<2, 1>>}
=============================================================================
