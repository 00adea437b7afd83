---------------------------- MODULE BlockBuilder ----------------------------
(***************************************************************************)
(* Serialisation of the pool's blocks (src/backend/block_builder.py).      *)
(* Bytes are numbers below 256.  A 32-byte hash is opaque: what it was     *)
(* taken of, and whether it stands in the order sha256 gives or reversed   *)
(* (as the node's strings have it).  sha256 is injective.  Scripts and     *)
(* transactions are bytes the node has serialised.                         *)
(***************************************************************************)
EXTENDS Integers, SequencesExt

None == 0 - 1   \* a key the node's template leaves out

\* The bytes of v, least significant first, cut or padded to a width.
LittleEndian(v, width) ==
  LET q[i \in 1..width] == IF i = 1 THEN v ELSE q[i - 1] \div 256
  IN  [i \in 1..width |-> q[i] % 256]

\* A faulty variant: 0xFD is written as a single byte.
VarintOffByOne(v) == IF v <= 253 THEN <<v>> ELSE <<253>> \o LittleEndian(v, 2)

\* 65536 * 65536 is beyond TLC's numbers.
Varint(v) ==
  IF v < 253 THEN <<v>>
  ELSE IF v <= 65535 THEN <<253>> \o LittleEndian(v, 2)
  ELSE IF v \div 65536 <= 65535 THEN <<254>> \o LittleEndian(v, 4)
  ELSE <<255>> \o LittleEndian(v, 8)

Counted(bytes) == Varint(Len(bytes)) \o bytes

\* A faulty variant: no byte is added for the sign.
ScriptNumberUnsigned(digits) == digits

ScriptNumber(digits) == IF Last(digits) >= 128 THEN Append(digits, 0) ELSE digits

PushMinimalInt(v) ==
  IF v = 0 THEN <<0>>
  ELSE IF v \in 1..16 THEN <<80 + v>>
  ELSE LET q[i \in 1..8] == IF i = 1 THEN v ELSE q[i - 1] \div 256
           digits == [i \in 1..Cardinality({j \in 1..8 : q[j] > 0}) |-> q[i] % 256]
           out == ScriptNumber(digits)
       IN  <<Len(out)>> \o out

Zeros(n) == [i \in 1..n |-> 0]
Ones(n)  == [i \in 1..n |-> 255]

CoinbaseScript(height, tag) == PushMinimalInt(height) \o <<Len(tag)>> \o tag

\* The two serialisations of the coinbase: its txid is the hash of the one
\* without the witness, the block carries the other.
Coinbase(t, script, tag, withWitness) ==
  LET input   == Zeros(32) \o Ones(4) \o Counted(CoinbaseScript(t.height, tag)) \o Ones(4)
      outputs == LittleEndian(t.value, 8) \o Counted(script)
                   \o Zeros(8) \o Counted(t.commitment)
  IN  LittleEndian(2, 4) \o (IF withWitness THEN <<0, 1>> ELSE <<>>)
        \o Varint(1) \o input \o Varint(2) \o outputs
        \o (IF withWitness THEN Varint(1) \o Counted(Zeros(32)) ELSE <<>>) \o Zeros(4)
-----------------------------------------------------------------------------
Sha256d(what) == [of |-> what, reversed |-> FALSE]
Flip(hash) == [hash EXCEPT !.reversed = ~@]

\* A faulty variant: the last of an odd number of hashes is dropped.
PairUpEven(l) ==
  [i \in 1..(Len(l) \div 2) |-> Sha256d(<<"pair", l[2 * i - 1], l[2 * i]>>)]

\* One round: the last of an odd number of hashes is paired with itself.
PairUp(l) ==
  LET at(i) == IF i > Len(l) THEN Last(l) ELSE l[i]
  IN  [i \in 1..((Len(l) + 1) \div 2) |-> Sha256d(<<"pair", at(2 * i - 1), at(2 * i)>>)]

MerkleRoot(txids) ==
  LET leaves == [i \in DOMAIN txids |-> Flip(txids[i])]
  IN  Head(FoldLeft(LAMBDA l, i : IF Len(l) = 1 THEN l ELSE PairUp(l), leaves, leaves))

\* The txids, as the node's strings have them.
Txids(t, script, tag) ==
  <<Flip(Sha256d(<<"coinbase", Coinbase(t, script, tag, FALSE)>>))>>
    \o [i \in DOMAIN t.txs |-> t.txs[i].txid]

MerkleRootForTemplate(t, script, tag) == Flip(MerkleRoot(Txids(t, script, tag)))

Flatten(seqs) == FoldLeft(LAMBDA acc, s : acc \o s, <<>>, seqs)

\* build_block_hex: the fields of the header in their order, then the rest.
Header(t, script, tag, nonce, digest) ==
  [version |-> t.version, prev |-> Flip(t.prev), root |-> MerkleRoot(Txids(t, script, tag)),
   time |-> t.time, bits |-> t.bits, nonce |-> nonce, digest |-> Flip(digest),
   n |-> t.top.n, seeds |-> Flip(t.seeds)]

Body(t, script, tag, matrix) ==
  Varint(1 + Len(t.txs)) \o Coinbase(t, script, tag, TRUE)
    \o Flatten([i \in DOMAIN t.txs |-> t.txs[i].data])
    \o Varint(0) \o Varint(0) \o Varint(Len(matrix) \div 4) \o matrix

\* What makes it raise: a template without matmul_n of its own, or a matrix that
\* is not made of words.
CanBuild(t, matrix) == t.top.n # None /\ Len(matrix) % 4 = 0
=============================================================================
