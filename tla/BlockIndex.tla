------------------------------- MODULE BlockIndex -------------------------------
(***************************************************************************)
(* Finding the blocks of the best chain in the block index of the node:    *)
(* get_block_index and ChainIndex (blockchain/parser/index.rs), and the    *)
(* list of checkpoints they start (chain.rs, checkpoint.rs).               *)
(*                                                                         *)
(* The index of the node is a LevelDB with one record per block it knows,  *)
(* stale and failed ones included, under the hash of the block.  An index  *)
(* the code builds is the sequence of its entries, in the order in which   *)
(* they are found: from the tip down.                                      *)
(***************************************************************************)
EXTENDS BlockFile, FiniteSetsExt

BLOCK_VALID_MASK == 7
BLOCK_HAVE_DATA == 8
BLOCK_HAVE_UNDO == 16
BLOCK_FAILED_VALID == 32
BLOCK_FAILED_CHILD == 64
HasBit(status, bit) == (status \div bit) % 2 = 1

\* A result that is a panic of the code.
Panic == <<[panic |-> TRUE]>>

\* read_varint: seven bits a byte, the high bit marks all but the last, and every byte
\* that is marked adds one.
read_varint(b, i) ==
  LET end == Min({k \in i..(Len(b) - 1) : b[k + 1] < 128})
      value[k \in (i - 1)..end] ==
        IF k < i THEN 0
        ELSE value[k - 1] * 128 + (b[k + 1] % 128) + (IF k < end THEN 1 ELSE 0)
  IN  [value |-> value[end], next |-> end + 1]

\* BlockIndexRecord::from: <<>> or the record; a block with undo data alone has no offset to
\* unwrap.
BlockIndexRecord(hash, b) ==
  LET height == read_varint(b, read_varint(b, 0).next)
      status == read_varint(b, height.next)
      blk_index == read_varint(b, read_varint(b, status.next).next)   \* behind the tx count
      data_offset == read_varint(b, blk_index.next)
      header == IF HasBit(status.value, BLOCK_HAVE_UNDO)
                THEN read_varint(b, data_offset.next).next ELSE data_offset.next
  IN  IF ~HasBit(status.value, BLOCK_HAVE_DATA)
      THEN IF HasBit(status.value, BLOCK_HAVE_UNDO) THEN Panic ELSE <<>>
      ELSE <<[block_hash |-> hash, height |-> height.value, status |-> status.value,
              blk_index |-> blk_index.value, data_offset |-> data_offset.value,
              prev_hash |-> read_block_header(b, header).value.prev_hash]>>

\* The records that count: valid so far, not failed, and not below the last height
\* before `start`.
Wanted(record, start) ==
  /\ record.height >= start - 1
  /\ record.status % 8 # 0      \* status & BLOCK_VALID_MASK
  /\ ~HasBit(record.status, BLOCK_FAILED_VALID) /\ ~HasBit(record.status, BLOCK_FAILED_CHILD)

\* The records of the database, a sequence of <<hash, value>>.
Records(db, start) ==
  {r \in UNION {Range(BlockIndexRecord(db[i][1], db[i][2])) : i \in DOMAIN db} : Wanted(r, start)}

Bug_Alone(cur) == cur # {}
Alone(cur) == Cardinality(cur) = 1

\* From the highest height that has one block alone, the parent of that block and on down to
\* its last ancestor that counts.
Branch(records, heights) ==
  LET At(k) == {r \in records : r.height = heights[k]}
      \* `cur`: the block at the k-th height, <<>> as long as none was alone
      from[k \in 1..Len(heights), cur \in {<<>>} \cup {<<r>> : r \in records}] ==
        LET at == IF cur = <<>> /\ Alone(At(k)) THEN <<CHOOSE r \in At(k) : TRUE>> ELSE cur
            prev == {r \in At(k + 1) : r.block_hash = at[1].prev_hash}
            Then(parent) == LET below == from[k + 1, <<parent>>]
                            IN  IF below = Panic THEN Panic ELSE <<parent>> \o below
        IN  CASE k = Len(heights) -> <<>>
              [] at = <<>> -> from[k + 1, <<>>]
              [] prev = {} -> Panic
              [] OTHER -> Then(CHOOSE r \in prev : TRUE)
  IN  IF records = {} THEN <<>> ELSE from[1, <<>>]
BranchOf(records) == Branch(records, SetToSortSeq({r.height : r \in records}, >))
get_block_index(db, start) ==
  IF \E i \in DOMAIN db : BlockIndexRecord(db[i][1], db[i][2]) = Panic
  THEN Panic ELSE BranchOf(Records(db, start))

\* ChainIndex::new and max_height_by_blk.
max_height(index) == Max({0} \cup {index[i].height : i \in DOMAIN index})
max_height_by_blk(index, blk_index) ==
  Max({index[i].height : i \in {j \in DOMAIN index : index[j].blk_index = blk_index}})

\* ChainStorage::get_block: where the block of a height is (<<>> if it is not indexed),
\* and whether its file is closed afterwards.
get_block(index, height) ==
  LET at == SelectSeq(index, LAMBDA r : r.height = height)
  IN  IF at = <<>> THEN <<>>
      ELSE <<[blk_index |-> at[1].blk_index, data_offset |-> at[1].data_offset,
              closed |-> height >= max_height_by_blk(index, at[1].blk_index)]>>

----------------------------------------------------------------------------
(* Checkpoints, the lowest first. *)

BlockId(height, hash) == [height |-> height, hash |-> hash]

\* push and extend: Panic where the code returns the error that its callers unwrap.
push(cp, id) == IF cp[Len(cp)].height < id.height THEN Append(cp, id) ELSE Panic
extend(cp, ids) == FoldLeft(LAMBDA acc, id : IF acc = Panic THEN Panic ELSE push(acc, id), cp, ids)

\* complete and from_block_ids: an index without entries makes no checkpoint.
complete(index) ==
  LET ids == Reverse([i \in DOMAIN index |-> BlockId(index[i].height, index[i].block_hash)])
  IN  IF ids = <<>> THEN <<>> ELSE extend(<<ids[1]>>, Tail(ids))

\* insert: at its height, replacing what conflicts with it there and above.
insert(cp, id) ==
  LET base == SelectSeq(cp, LAMBDA c : c.height < id.height)
      tail == SelectSeq(cp, LAMBDA c : c.height > id.height)
      same == SelectSeq(cp, LAMBDA c : c.height = id.height)
  IN  CASE same = <<id>> -> cp
        [] base = <<>> -> Panic      \* "will break before genesis block"
        [] same # <<>> -> extend(base, <<id>>)
        [] OTHER -> extend(base, <<id>> \o tail)

----------------------------------------------------------------------------
(* What the code is compared with.  A block of the node is [hash, height, prev, status, file,
   offset]. *)

\* WriteVarInt of the node.
WriteVarInt(n) ==
  LET bytes[k \in 0..n] ==      \* the bytes of k with the high bit on each
        (IF k < 128 THEN <<>> ELSE bytes[k \div 128 - 1]) \o <<128 + (k % 128)>>
  IN  IF n < 128 THEN <<n>> ELSE bytes[n \div 128 - 1] \o <<n % 128>>

NodeRecord(block) ==
  <<block.hash,
    WriteVarInt(70000) \o WriteVarInt(block.height) \o WriteVarInt(block.status)
      \o WriteVarInt(200)
      \o (IF HasBit(block.status, BLOCK_HAVE_DATA)
          THEN WriteVarInt(block.file) \o WriteVarInt(block.offset) ELSE <<>>)
      \o (IF HasBit(block.status, BLOCK_HAVE_UNDO) THEN WriteVarInt(5) ELSE <<>>)
      \o HeaderBytes([version |-> <<1, 0, 0, 0>>, prev_hash |-> block.prev,
                      merkle_root |-> <<0, 0>>, rest |-> [i \in 1..12 |-> 0]])>>

Ancestors(blocks, block) ==
  LET Parents(b) == {p \in blocks : p.hash = b.prev}
      from[b \in blocks] == Parents(b) \cup UNION {from[p] : p \in Parents(b)}
  IN  from[block]

Stored(block) == HasBit(block.status, BLOCK_HAVE_DATA) /\ block.status % 8 # 0
IsFailed(block) == block.status >= BLOCK_FAILED_VALID

\* The index is one branch without gaps, down to the last block the indexer knows, of blocks
\* that every longest valid chain holds, each with its file and offset; its checkpoints begin
\* there in order, the next block can be inserted, and a file is closed when no later block
\* is in it (get_block_index, ChainStorage, CheckPoint::insert).
IsBranchOf(index, cp, good, start) ==
  LET top == Max({0} \cup {b.height : b \in good})
      best == {b \in good : b.height = top}
      next == BlockId(max_height(index) + 1, <<255, 255>>)
  IN  /\ index # Panic
      /\ \A i \in DOMAIN index :
           /\ index[i].height = max_height(index) - (i - 1)
           /\ \A tip \in best : \E b \in Ancestors(good, tip) :
                /\ b.hash = index[i].block_hash /\ b.height = index[i].height
                /\ get_block(index, b.height) =
                     <<[blk_index |-> b.file, data_offset |-> b.offset,
                        closed |-> \A j \in 1..(i - 1) : index[j].blk_index # b.file]>>
      \* nothing is missing: where only one block is highest, all of its ancestors are there
      /\ Cardinality(best) = 1 /\ top >= start - 1
           => Len(index) = top - Max({0, start - 1})
      /\ index # <<>> =>
           /\ Len(cp) = Len(index) /\ insert(cp, next) = Append(cp, next)
           /\ \A i \in DOMAIN cp : insert(cp, cp[i]) = cp
           /\ \A i \in 2..Len(cp) :
                insert(cp, BlockId(cp[i].height, <<255, 255>>))
                  = Append(SubSeq(cp, 1, i - 1), BlockId(cp[i].height, <<255, 255>>))
IsBranch(index, good, start) == IsBranchOf(index, complete(index), good, start)
IsOneBranch(blocks, start) ==
  IsBranch(get_block_index([i \in DOMAIN blocks |-> NodeRecord(blocks[i])], start),
           {b \in Range(blocks) : Stored(b) /\ ~IsFailed(b)}, start)
============================================================================
