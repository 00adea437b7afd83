------------------------------ MODULE WorkPath ------------------------------
(***************************************************************************)
(* What becomes of a block template: the pool makes a job of it            *)
(* (stratum_jobs.py), the miner a challenge of the job's notification      *)
(* (stratum_client.py) and a line for its solver (gbt_solve_wrapper.py);   *)
(* the solver's record becomes a share, which the pool validates with a    *)
(* solver of its own (share_validation.py) and, if it is a block, turns    *)
(* into one (stratum_server.py, block_builder.py).  Hexadecimal strings    *)
(* are what they stand for; both ends write them the same way.             *)
(***************************************************************************)
EXTENDS BlockBuilder

CONSTANTS Byte,         \* 256: the base of compact targets
          NonceSpace,   \* 2^64
          NonceStride,  \* 2^32: what lies between the starts of two jobs
          HexBase,      \* 16
          DecimalBase,  \* 10
          MaxTries      \* of a validation

ASSUME WorkAssumption ==
  /\ Byte \in Nat \ {0, 1} /\ NonceSpace \in Nat \ {0}
  /\ NonceStride \in Nat /\ MaxTries \in Nat \ {0}
  /\ HexBase \in Nat \ {0, 1} /\ DecimalBase \in Nat

\* Python's a or b.
Or(a, b) == IF a \in {None, 0} THEN b ELSE a

\* compact_bits_to_target_hex; a mantissa with the sign bit makes it raise.
Compact(bits) == bits.mantissa < Byte^3 \div 2

CompactTarget(bits) ==
  IF bits.exponent <= 3 THEN bits.mantissa \div Byte^(3 - bits.exponent)
  ELSE bits.mantissa * Byte^(bits.exponent - 3)

\* A dimension of the template: a key of its own, one of its matmul, a default.
Dim(t, key, default) == Or(t.top[key], Or(t.nested[key], default))

HasTarget(t) == t.target # None \/ Compact(t.bits)

BlockTarget(t) == Or(t.target, CompactTarget(t.bits))

\* job_from_block_template, of a template that HasTarget.
JobFromTemplate(t, shareTarget, script, tag) ==
  LET root == MerkleRootForTemplate(t, script, tag)
  IN  [id |-> <<t.height, t.prev, t.time, root>>, version |-> t.version, prev |-> t.prev,
       root |-> root, time |-> t.time, bits |-> t.bits, blockTarget |-> BlockTarget(t),
       shareTarget |-> shareTarget, height |-> t.height, seeds |-> t.seeds,
       n |-> Dim(t, "n", 512), b |-> Dim(t, "b", 16), r |-> Dim(t, "r", 8),
       epsilon |-> Or(t.top.epsilon, 18), template |-> t, script |-> script]

\* _next_nonce_start.
NextNonceStart(start) == (start + NonceStride) % NonceSpace

\* notify_params.
NotifyParams(job, start) ==
  <<job.id, job.version, job.prev, job.root, job.time, job.bits, job.shareTarget, TRUE,
    [seeds |-> job.seeds, height |-> job.height, n |-> job.n, b |-> job.b, r |-> job.r,
     epsilon |-> job.epsilon, start |-> start]>>

\* Job.from_notify, of the miner.
FromNotify(p) ==
  [id |-> p[1], version |-> p[2], prev |-> p[3], root |-> p[4], time |-> p[5], bits |-> p[6],
   target |-> p[7], matmul |-> p[9]]

\* Job.to_solve_challenge, of the miner; an empty share target is none.
MinerChallenge(j) ==
  [version |-> j.version, prev |-> j.prev, root |-> j.root, time |-> j.time, bits |-> j.bits,
   seeds |-> j.matmul.seeds, height |-> j.matmul.height, n |-> j.matmul.n, b |-> j.matmul.b,
   r |-> j.matmul.r, epsilon |-> j.matmul.epsilon, shareTarget |-> Or(j.target, None)]

\* The challenge of SolverShareValidator.validate.
ValidatorChallenge(job) ==
  [version |-> job.version, prev |-> job.prev, root |-> job.root, time |-> job.time,
   bits |-> job.bits, seeds |-> job.seeds, height |-> job.height, n |-> job.n, b |-> job.b,
   r |-> job.r, epsilon |-> job.epsilon, shareTarget |-> job.shareTarget]
-----------------------------------------------------------------------------
\* What the digest is a hash of, besides the nonce.
WorkFields == {"version", "prev", "root", "time", "bits", "seeds", "n", "b", "r"}

Work(c) == [f \in WorkFields |-> c[f]]

\* External: the solver takes the first nonce whose digest meets the share target,
\* or else the block's.  strength gives the number a digest is; keys are the
\* optional ones its records have, and form says how they have the nonce.
Solve(c, start, tries, strength, keys, form) ==
  LET target == Or(c.shareTarget, CompactTarget(c.bits))
      hits   == {n \in start..(start + tries - 1) : n < NonceSpace /\ strength[n] <= target}
      digest == [of |-> <<"digest", Work(c), Min(hits)>>, reversed |-> TRUE]
  IN  IF hits = {} THEN [found |-> FALSE]
      ELSE [found |-> TRUE, nonce |-> Min(hits), form |-> form, keys |-> keys,
            number |-> strength[Min(hits)],
            digest |-> IF "digest" \in keys THEN digest ELSE [of |-> <<"absent">>],
            matrix |-> IF "matrix" \in keys THEN Zeros(8) ELSE <<>>]

\* A record has its nonce as a number, as decimal figures, in hex, in hex under the
\* key nonce64 with no nonce64_end beside it, or not at all.
Forms == {"number", "decimal", "hex", "hex64", "absent"}

\* A number whose hex text has no letter: isdigit takes it for a decimal one.
OnlyFigures(n) ==
  LET only[k \in Nat] == k % HexBase < DecimalBase /\ (k < HexBase \/ only[k \div HexBase])
  IN  only[n]

FiguresRead(n) ==
  LET read[k \in Nat] ==
        (k % HexBase) + (IF k < HexBase THEN 0 ELSE DecimalBase * read[k \div HexBase])
  IN  read[n]

\* The nonce as _result_from_record reads it.
Reading(form, n) ==
  IF form = "absent" THEN None
  ELSE IF form \in {"hex", "hex64"} /\ OnlyFigures(n) THEN FiguresRead(n)
  ELSE n

\* It raises at a nonce64 with letters, which it first reads as where the slice ended.
Readable(rec) == rec.found => rec.form # "hex64" \/ OnlyFigures(rec.nonce)

\* _result_from_record, of a record that is Readable.  The time is the challenge's,
\* whatever the record says.
ResultFromRecord(rec, c) ==
  IF ~rec.found THEN [found |-> FALSE]
  ELSE [found |-> TRUE, nonce |-> Reading(rec.form, rec.nonce), time |-> c.time, rec |-> rec]

\* The miner submits what its solver has found, unless the nonce is missing.
IsSubmitted(result) == result.found /\ result.nonce # None

\* _submit_share, of the miner, and the SubmittedShare made of it.
ShareOf(j, result) == [id |-> j.id, nonce |-> result.nonce, time |-> Or(result.time, j.time)]

\* A faulty variant: the digest is compared with the share target.
MeetsShareTarget(job, rec) == "digest" \in rec.keys /\ rec.number <= job.shareTarget

MeetsBlockTarget(job, rec) ==
  "digest" \in rec.keys /\ rec.number <= Or(job.blockTarget, CompactTarget(job.bits))

\* SolverShareValidator.validate; result is that of its own solver.
Validation(job, share, result) ==
  IF share.time # job.time THEN [accepted |-> FALSE, why |-> "ntime"]
  ELSE IF ~result.found THEN [accepted |-> FALSE, why |-> "target"]
  ELSE IF result.nonce # share.nonce THEN [accepted |-> FALSE, why |-> "nonce"]
  ELSE [accepted |-> TRUE, isBlock |-> MeetsBlockTarget(job, result.rec), rec |-> result.rec]

\* _submit_block_candidate up to submitblock: what goes to the node, if anything
\* does; enabled is the setting block_submission_enabled.
Candidate(enabled, job, share, rec, tag) ==
  IF ~enabled THEN <<>>
  ELSE IF rec.digest.of = <<"absent">> \/ rec.matrix = <<>> THEN <<>>
  ELSE IF ~CanBuild(job.template, rec.matrix) THEN <<>>
  ELSE <<Header(job.template, job.script, tag, share.nonce, rec.digest),
         Body(job.template, job.script, tag, rec.matrix)>>
=============================================================================
