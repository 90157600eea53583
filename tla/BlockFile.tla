------------------------------- MODULE BlockFile -------------------------------
(***************************************************************************)
(* Reading blocks out of the blk files of the node: BlkFile and XorReader  *)
(* (blockchain/parser/blk_file.rs, reader.rs), the structures they decode  *)
(* and the bytes these are hashed from (blockchain/proto).                 *)
(*                                                                         *)
(* Positions count from 0 as in the code.  What the code reads as a number *)
(* only to write it again stays a string of bytes.  A reading operator     *)
(* takes the bytes and a position, and returns the value and the position  *)
(* behind it.                                                              *)
(***************************************************************************)
EXTENDS Integers, Sequences, SequencesExt, Bitwise

HashLen == 2        \* bound: the bytes of a hash, 32 in the code
U32 == 4
U64 == 8

Slice(b, i, n) == SubSeq(b, i + 1, i + n)
FromLE(bytes) == FoldRight(LAMBDA byte, rest : byte + 256 * rest, bytes, 0)

----------------------------------------------------------------------------
(* XorReader: the position decides which byte of the key is next. *)

\* Read: n bytes from where the reader stands.
XorRead(file, key, absolute_pos, n) ==
  [i \in 1..n |-> IF key = <<>> THEN file[absolute_pos + i]
                  ELSE file[absolute_pos + i] ^^ key[((absolute_pos + i - 1) % Len(key)) + 1]]

\* seek and then read to the end, at most `chunk` bytes at a time as the buffer has them.
ReadFrom(file, key, seek, chunk) ==
  [i \in 1..(Len(file) - seek) |->
     LET at == seek + chunk * ((i - 1) \div chunk)
         n == IF Len(file) - at < chunk THEN Len(file) - at ELSE chunk
     IN  XorRead(file, key, at, n)[seek + i - at]]

----------------------------------------------------------------------------
(* BlockchainRead. *)

Bytes(b, i, n) == [value |-> Slice(b, i, n), next |-> i + n]

\* VarUint: the number, and the bytes it is written back with.
VarUint(b, i) ==
  LET n == CASE b[i + 1] = 253 -> 2 [] b[i + 1] = 254 -> 4 [] b[i + 1] = 255 -> 8 [] OTHER -> 0
  IN  [value |-> IF n = 0 THEN b[i + 1] ELSE FromLE(Slice(b, i + 1, n)),
       raw |-> Slice(b, i, 1 + n), next |-> i + 1 + n]

Times(n, Read(_, _), b, i) ==
  LET from[k \in 0..n] ==
        IF k = 0 THEN [value |-> <<>>, next |-> i]
        ELSE LET before == from[k - 1]
                 item == Read(b, before.next)
             IN  [value |-> Append(before.value, item.value), next |-> item.next]
  IN  from[n]

\* A length and as many bytes: the raw bytes of both are kept.
Script(b, i) ==
  LET len == VarUint(b, i)
  IN  [value |-> len.raw \o Slice(b, len.next, len.value), next |-> len.next + len.value]

read_tx_input(b, i) ==
  LET script == Script(b, i + HashLen + U32)
  IN  [value |-> [outpoint |-> Slice(b, i, HashLen + U32), script_sig |-> script.value,
                  seq_no |-> Slice(b, script.next, U32), witness |-> <<>>],
       next |-> script.next + U32]

read_tx_output(b, i) ==
  LET script == Script(b, i + U64)
  IN  [value |-> [value |-> Slice(b, i, U64), script_pubkey |-> script.value],
       next |-> script.next]

\* Witness::consensus_decode of the bitcoin library.
Witness(b, i) ==
  LET count == VarUint(b, i)
  IN  Times(count.value, Script, b, count.next)

\* The witnesses stand behind the outputs, one for each input.
Rest(b, i, in_count, inputs, outputs, witnessed) ==
  LET witness == Times(IF witnessed THEN in_count.value ELSE 0, Witness, b, outputs.next)
  IN  [value |-> [version |-> Slice(b, i, U32), in_count |-> in_count.raw,
                  inputs |-> [k \in DOMAIN inputs.value |->
                    IF witnessed THEN [inputs.value[k] EXCEPT !.witness = witness.value[k]]
                    ELSE inputs.value[k]],
                  out_count |-> VarUint(b, inputs.next).raw, outputs |-> outputs.value,
                  locktime |-> Slice(b, witness.next, U32)],
       next |-> witness.next + U32]

Outputs(b, out_count) == Times(out_count.value, read_tx_output, b, out_count.next)
WithInputs(b, i, in_count, inputs, witnessed) ==
  Rest(b, i, in_count, inputs, Outputs(b, VarUint(b, inputs.next)), witnessed)
Counted(b, i, in_count, witnessed) ==
  WithInputs(b, i, in_count, Times(in_count.value, read_tx_input, b, in_count.next), witnessed)

\* read_tx: no inputs means a marker, after which flags tell whether witnesses follow.
read_tx(b, i) ==
  LET first == VarUint(b, i + U32)
      marked == first.value = 0
  IN  Counted(b, i, IF marked THEN VarUint(b, first.next + 1) ELSE first,
              marked /\ b[first.next + 1] % 2 = 1)

read_block_header(b, i) ==
  [value |-> [version |-> Slice(b, i, U32), prev_hash |-> Slice(b, i + U32, HashLen),
              merkle_root |-> Slice(b, i + U32 + HashLen, HashLen),
              \* timestamp, bits and nonce
              rest |-> Slice(b, i + U32 + 2 * HashLen, 3 * U32)],
   next |-> i + 4 * U32 + 2 * HashLen]

\* read_merkle_branch: behind the hashes comes the side mask.
read_merkle_branch(b, i) ==
  LET count == VarUint(b, i)
  IN  Bytes(b, count.next, count.value * HashLen + U32)

read_aux_pow_extension(b, i) ==
  LET coinbase_branch == read_merkle_branch(b, read_tx(b, i).next + HashLen)
      blockchain_branch == read_merkle_branch(b, coinbase_branch.next)
  IN  read_block_header(b, blockchain_branch.next)

IsAuxPow(version) == version[2] % 2 = 1       \* version & (1 << 8)

read_block(b, i) ==
  LET header == read_block_header(b, i)
      behind == IF IsAuxPow(header.value.version)
                THEN read_aux_pow_extension(b, header.next).next ELSE header.next
      tx_count == VarUint(b, behind)
  IN  [header |-> header.value, txs |-> Times(tx_count.value, read_tx, b, tx_count.next).value]

\* BlkFile::read_block: the size of the block stands in front of it.
BlkFileRead(file, key, offset, chunk) == read_block(ReadFrom(file, key, offset - U32, chunk), U32)

----------------------------------------------------------------------------
(* ToRaw: what block hash and txid are computed from. *)

InputBytes(in) == in.outpoint \o in.script_sig \o in.seq_no
OutputBytes(out) == out.value \o out.script_pubkey
Flatten(Each(_), seq) == FlattenSeq([i \in DOMAIN seq |-> Each(seq[i])])
Bug_TxBytes(tx) == tx.version \o tx.in_count \o Flatten(InputBytes, tx.inputs)
                     \o tx.out_count \o Flatten(OutputBytes, tx.outputs)
                     \o FlattenSeq([i \in DOMAIN tx.inputs |-> FlattenSeq(tx.inputs[i].witness)])
                     \o tx.locktime
TxBytes(tx) == tx.version \o tx.in_count \o Flatten(InputBytes, tx.inputs)
                 \o tx.out_count \o Flatten(OutputBytes, tx.outputs) \o tx.locktime
HeaderBytes(header) == header.version \o header.prev_hash \o header.merkle_root \o header.rest

----------------------------------------------------------------------------
(* What the node writes. *)

\* The node counts in as few bytes as it can.
CompactSize(n) == IF n < 253 THEN <<n>> ELSE <<253, n % 256, n \div 256>>
WithLength(bytes) == CompactSize(Len(bytes)) \o bytes
NodeInput(in) == in.outpoint \o WithLength(in.script_sig) \o in.seq_no
NodeOutput(out) == out.value \o WithLength(out.script_pubkey)
NodeWitness(in) == CompactSize(Len(in.witness)) \o Flatten(WithLength, in.witness)

\* The transaction without witnesses, of which the txid is the hash, and as it is stored.
NodeBody(tx) == CompactSize(Len(tx.inputs)) \o Flatten(NodeInput, tx.inputs)
                  \o CompactSize(Len(tx.outputs)) \o Flatten(NodeOutput, tx.outputs)
Stripped(tx) == tx.version \o NodeBody(tx) \o tx.locktime
NodeTx(tx) ==
  IF \A i \in DOMAIN tx.inputs : tx.inputs[i].witness = <<>> THEN Stripped(tx)
  ELSE tx.version \o <<0, 1>> \o NodeBody(tx) \o Flatten(NodeWitness, tx.inputs) \o tx.locktime

NodeBranch(hashes) == CompactSize(Len(hashes)) \o FlattenSeq(hashes) \o <<1, 0, 0, 0>>
NodeAux(aux) == NodeTx(aux.coinbase) \o aux.hash \o NodeBranch(aux.branch1)
                  \o NodeBranch(aux.branch2) \o HeaderBytes(aux.parent)
NodeBlock(block) ==
  HeaderBytes(block.header)
    \o (IF IsAuxPow(block.header.version) THEN NodeAux(block.aux) ELSE <<>>)
    \o CompactSize(Len(block.txs)) \o Flatten(NodeTx, block.txs)

\* A blk file: a magic number and the size of the block before each block, under the key.
Magic == <<249, 190, 180, 217>>
Record(block) == LET n == Len(NodeBlock(block))
                 IN  Magic \o <<n % 256, n \div 256, 0, 0>> \o NodeBlock(block)
NodeFile(blocks, key) == LET plain == Flatten(Record, blocks) IN XorRead(plain, key, 0, Len(plain))
OffsetOf(blocks, k) == Len(Flatten(Record, SubSeq(blocks, 1, k - 1))) + Len(Magic) + U32

IsRead(read, block) ==
  /\ HeaderBytes(read.header) = HeaderBytes(block.header)
  /\ Len(read.txs) = Len(block.txs)
  /\ \A t \in DOMAIN block.txs :
       /\ TxBytes(read.txs[t]) = Stripped(block.txs[t])
       /\ \A i \in DOMAIN block.txs[t].inputs :
            LET witness == block.txs[t].inputs[i].witness
            IN  read.txs[t].inputs[i].witness = [w \in DOMAIN witness |-> WithLength(witness[w])]

\* Every block of a file is found again at its offset, with the header and the
\* transactions that give the hashes of the node, whatever the key of the files and
\* however much the buffer delivers at a time (BlkFile::read_block, Hashed).
FileRead(blocks, key, chunk) ==
  \A k \in DOMAIN blocks :
    IsRead(BlkFileRead(NodeFile(blocks, key), key, OffsetOf(blocks, k), chunk), blocks[k])
============================================================================
