---------------------------- MODULE MCAlgorithms ----------------------------
(***************************************************************************)
(* The pure algorithms of the pool against what they should compute, for   *)
(* every input within the bounds: the allocation of a reward (Pplns), the  *)
(* serialisation of a block (BlockBuilder) and the way of a job to the     *)
(* miner and back (WorkPath).  The behaviour is one call: its inputs are   *)
(* chosen, then it returns.                                                *)
(***************************************************************************)
EXTENDS Pplns, WorkPath

CONSTANTS Addresses,  \* payout addresses
          MaxCount,   \* bound on the accepted shares of one address
          MaxGross,   \* bound on the reward
          MaxLeaves   \* bound on the transactions of a merkle tree

ASSUME AlgorithmsAssumption ==
  /\ Addresses \subseteq Nat /\ IsFiniteSet(Addresses)
  /\ MaxCount \in Nat /\ MaxGross \in Nat /\ MaxLeaves \in Nat

VARIABLES call, result

vars == <<call, result>>

Returned(op) == call.op = op /\ result.op = op

Tag    == <<116, 97, 103>>
Script == Zeros(22)
TxId(i) == [of |-> <<"tx", i>>, reversed |-> TRUE]

Template(height, txs) ==
  [version |-> 2, prev |-> TxId(0), time |-> 7, bits |-> [exponent |-> 3, mantissa |-> 3],
   target |-> None, seeds |-> [of |-> <<"seeds">>, reversed |-> TRUE], height |-> height,
   value |-> 50, commitment |-> Zeros(38), txs |-> txs,
   top |-> [n |-> 256, b |-> None, r |-> None, epsilon |-> None],
   nested |-> [n |-> None, b |-> None, r |-> None]]

Transactions(n) == [i \in 1..n |-> [txid |-> TxId(i), data |-> <<i % 256>>]]
-----------------------------------------------------------------------------
(***************************************************************************)
(* The calls.                                                              *)
(***************************************************************************)
AllocateCalls ==
  [op : {"allocate"}, gross : 1..MaxGross,
   counts : UNION {[S -> 1..MaxCount] : S \in (SUBSET Addresses) \ {{}}}]

\* Heights, script lengths and matrix words on both sides of every change of format;
\* the number of transactions is written as the words are.
BuildCalls ==
  [op : {"build"},
   height : {0, 1, 16, 17, 127, 128, 255, 256, 32767, 32768, 65535, 65536, 8388607, 8388608},
   txs : {0, 1, 3}, script : {252, 253}, words : {252, 253}]

MerkleCalls == [op : {"merkle"}, left : 1..MaxLeaves, right : 1..MaxLeaves]

\* Digests of four nonces against block targets and share targets, and what a node
\* and a solver may leave out; and, with nothing left out, every way a solver may
\* write a nonce and a pool that does not submit blocks.
AnyWork ==
  [op : {"work"}, strength : [0..3 -> {1, 3, 9}], target : {None, 2}, share : {1, 5},
   exponent : {2, 3}, mantissa : {3, 4}, start : {0, 1, 2}, top : {None, 256},
   nested : {None, 128}, keys : SUBSET {"digest", "matrix"}, form : Forms, enabled : BOOLEAN]

WorkCalls ==
  {c \in AnyWork : \/ c.form = "number" /\ c.enabled /\ c.start # 0
                   \/ <<c.target, c.exponent, c.mantissa, c.top, c.nested, c.keys>>
                        = <<None, 3, 3, 256, None, {"digest", "matrix"}>>}

Init == /\ result = [op |-> "none"]
        /\ \/ call \in AllocateCalls
           \/ call \in BuildCalls
           \/ call \in MerkleCalls
           \/ call \in WorkCalls

SumAll(f) == SumOver(f, DOMAIN f)

Total == SumAll(call.counts)

Allocate ==
  /\ call.op = "allocate"
  /\ result' = [op |-> "allocate", of |-> Allocation(call.gross, call.counts, Total)]

Build ==
  /\ call.op = "build"
  /\ result' = [op |-> "build",
                of |-> Body(Template(call.height, Transactions(call.txs)), Zeros(call.script),
                            Tag, Zeros(4 * call.words))]

Merkle ==
  /\ call.op = "merkle"
  /\ result' = [op |-> "merkle", of |-> [n \in {call.left, call.right} |->
                  MerkleRootForTemplate(Template(1, Transactions(n - 1)), Script, Tag)]]

WorkTemplate ==
  [Template(1, Transactions(2)) EXCEPT
     !.target = call.target,
     !.bits = [exponent |-> call.exponent, mantissa |-> call.mantissa],
     !.top = [@ EXCEPT !.n = call.top], !.nested = [@ EXCEPT !.n = call.nested]]

\* What came of a record of the miner's, and of the share it sent.
Outcome(job, challenge, rec, mined, share, validation) ==
  IF ~HasTarget(WorkTemplate) \/ ~Readable(rec) \/ ~IsSubmitted(mined)
  THEN [found |-> FALSE]
  ELSE [found |-> TRUE, nonce |-> rec.nonce, job |-> job, challenge |-> challenge,
        share |-> share, validation |-> validation,
        block |-> IF validation.accepted /\ validation.isBlock
                  THEN Candidate(call.enabled, job, share, validation.rec, Tag) ELSE <<>>]

\* A job to the miner and a share of it back.
Mine ==
  LET job       == JobFromTemplate(WorkTemplate, call.share, Script, Tag)
      notified  == FromNotify(NotifyParams(job, NextNonceStart(call.start)))
      challenge == MinerChallenge(notified)
      rec       == Solve(challenge, notified.matmul.start, 2, call.strength, {}, call.form)
      mined     == ResultFromRecord(rec, challenge)
      share     == ShareOf(notified, mined)
      check     == ResultFromRecord(Solve(ValidatorChallenge(job), share.nonce, MaxTries,
                                          call.strength, call.keys, call.form),
                                    ValidatorChallenge(job))
  IN  Outcome(job, challenge, rec, mined, share, Validation(job, share, check))

MineAndValidate ==
  /\ call.op = "work"
  /\ result' = [op |-> "work", of |-> Mine]

Return == /\ result.op = "none"
          /\ Allocate \/ Build \/ Merkle \/ MineAndValidate
          /\ UNCHANGED call

Spec == Init /\ [][Return]_vars
-----------------------------------------------------------------------------
Abs(n) == IF n < 0 THEN -n ELSE n

\* How far an allocation is from the exact proportion, in total-ths of a
\* satoshi, summed over the addresses.
Deviation(v) ==
  SumAll([a \in DOMAIN call.counts |-> Abs(v[a] * Total - call.gross * call.counts[a])])

\* The whole reward is allocated and not a satoshi more: the index < remainder_sat
\* test of credit_pplns_reward hands out exactly what the floors left.
AllocatesExactly == Returned("allocate") => SumAll(result.of) = call.gross

\* Each address gets its exact proportion rounded down or up: the leftover of
\* one address is never piled on another.
WithinOneSatoshi ==
  Returned("allocate") =>
    \A a \in DOMAIN call.counts :
      Abs(result.of[a] * Total - call.gross * call.counts[a]) < Total

\* An address with more accepted shares never gets less, however the
\* remainders fall and the ties are broken.
MoreSharesNeverLess ==
  Returned("allocate") =>
    \A a, b \in DOMAIN call.counts :
      call.counts[a] >= call.counts[b] /\ (call.counts[a] = call.counts[b] => a < b)
        => result.of[a] >= result.of[b]

\* Reference definition: no way to split the reward into whole satoshis is
\* closer to the exact proportions than the one the code returns.
LeastDeviation ==
  Returned("allocate") =>
    \A v \in [DOMAIN call.counts -> 0..call.gross] :
      SumAll(v) = call.gross => Deviation(result.of) <= Deviation(v)

\* Charging the fee per address (credit_reward) never takes more than the
\* policy's fee on the whole reward, and forgoes less than one satoshi an
\* address; fee and payable always add up to the amount.
FeePerAddressRoundsForMiners ==
  Returned("allocate") =>
    LET split == [a \in DOMAIN call.counts |-> split_reward_sat(result.of[a], 0, TrialDays)]
        fees  == SumAll([a \in DOMAIN call.counts |-> split[a].fee])
    IN  /\ fees * FullBps <= call.gross * PostTrialFeeBps
        /\ (fees + Cardinality(DOMAIN call.counts)) * FullBps > call.gross * PostTrialFeeBps
        /\ \A a \in DOMAIN call.counts : split[a].fee + split[a].payable = result.of[a]
-----------------------------------------------------------------------------
(***************************************************************************)
(* A node's reading of a block: every reader takes a value and says where  *)
(* the next one begins.                                                    *)
(***************************************************************************)
Little(b, at, width) ==
  LET from[i \in 0..width] == IF i = width THEN 0 ELSE b[at + i] + 256 * from[i + 1]
  IN  from[0]

\* How wide the number behind a first byte is.
Width(mark) == IF mark = 253 THEN 2 ELSE IF mark = 254 THEN 4 ELSE IF mark = 255 THEN 8 ELSE 0

ReadVarint(b, at) ==
  LET width == Width(b[at])
  IN  [value |-> IF width = 0 THEN b[at] ELSE Little(b, at + 1, width), next |-> at + 1 + width]

ReadCounted(b, at) ==
  LET n == ReadVarint(b, at)
  IN  [value |-> SubSeq(b, n.next, n.next + n.value - 1), next |-> n.next + n.value]

\* The number a script begins with: a small one is an opcode; another is bytes
\* whose highest bit is the sign.
ReadHeight(s) ==
  IF s[1] = 0 \/ s[1] > 80 THEN IF s[1] = 0 THEN 0 ELSE s[1] - 80
  ELSE LET n == s[1] IN
       IF s[n + 1] >= 128 THEN -1 ELSE Little(s, 2, n)

\* Reading the body b of a block gives the template's numbers and scripts, where
\* data are its transactions one after the other, and nothing is left at the end.
ReadsBack(b, t, script, data, matrix) ==
  LET count  == ReadVarint(b, 1)
      inputs == ReadVarint(b, count.next + 6)
      spends == ReadCounted(b, inputs.next + 36)
      outs   == ReadVarint(b, spends.next + 4)
      pays   == ReadCounted(b, outs.next + 8)
      commit == ReadCounted(b, pays.next + 8)
      wits   == ReadVarint(b, commit.next)
      zeros  == ReadCounted(b, wits.next)
      txs    == zeros.next + 4
      words  == ReadVarint(b, txs + Len(data) + 2)
  IN  /\ count.value = 1 + Len(t.txs)
      /\ <<inputs.value, outs.value, wits.value>> = <<1, 2, 1>>
      /\ ReadHeight(spends.value) = t.height
      /\ Little(b, outs.next, 8) = t.value /\ pays.value = script
      /\ commit.value = t.commitment /\ zeros.value = Zeros(32)
      /\ SubSeq(b, txs, txs + Len(data) - 1) = data
      /\ 4 * words.value = Len(matrix)
      /\ SubSeq(b, words.next, Len(b)) = matrix

\* A block's body reads back as what went in: each length prefix, on either side of
\* its changes of width, says where the next part begins, and the coinbase commits
\* to the height, whose number never turns negative.
BlockReadsBack ==
  Returned("build") =>
    ReadsBack(result.of, Template(call.height, Transactions(call.txs)), Zeros(call.script),
              [i \in 1..call.txs |-> i % 256], Zeros(4 * call.words))

\* The merkle root commits to the transactions: blocks of another number of them
\* have another root, however often an odd one is paired with itself.
MerkleCommits ==
  Returned("merkle") /\ call.left # call.right => result.of[call.left] # result.of[call.right]

\* A nonce that the miner's solver takes for a job of the pool, and that the miner
\* has read as it is, is accepted by the pool's, and it goes to the node exactly if
\* the pool submits blocks, its digest meets the block target, and node and solver
\* have left nothing out: with a header whose fields are those the miner's solver
\* hashed, so that the digest is the header's own.
WorkComesBack ==
  Returned("work") /\ result.of.found /\ result.of.share.nonce = result.of.nonce =>
    LET r == result.of IN
    /\ Work(r.challenge) = Work(ValidatorChallenge(r.job))
    /\ r.validation.accepted
    /\ (r.block # <<>>) =
         (/\ call.strength[r.share.nonce] <= BlockTarget(WorkTemplate)
          /\ call.keys = {"digest", "matrix"} /\ call.top # None /\ call.enabled)
    /\ r.block # <<>> =>
         LET h == r.block[1] IN
         /\ Flip(h.digest).of = <<"digest", Work(r.challenge), h.nonce>>
         /\ [version |-> h.version, prev |-> Flip(h.prev), root |-> Flip(h.root),
             time |-> h.time, bits |-> h.bits, seeds |-> Flip(h.seeds), n |-> h.n,
             b |-> r.challenge.b, r |-> r.challenge.r] = Work(r.challenge)
=============================================================================
