------------------------------ MODULE BlockWrite ------------------------------
(***************************************************************************)
(* The writes of one block (InscriptionIndexer::handle and                 *)
(* ProcessedData::write) and of one undone block (ReorgCache::restore),    *)
(* one write of RocksDB at a time, with the process killed between any two *)
(* of them.  A write is atomic in itself: a put or a WriteBatch.           *)
(*                                                                         *)
(* A block is a number in the order of mining, and so is its coinbase      *)
(* output: `spends` says which outputs its other transactions take.  The   *)
(* rows of a table are the sequence of blocks they come from; half-written *)
(* rows of a block b are -b, written ones b.                               *)
(***************************************************************************)
EXTENDS Integers, Sequences, FiniteSets, SequencesExt

CONSTANTS
  MaxLen,       \* REORG_CACHE_MAX_LEN
  StartHeight,  \* START_HEIGHT, the first height with tokens
  InitLen,      \* length of the node's chain at first
  MaxBlocks,    \* bound: blocks the node ever has
  MaxCrashes,   \* bound: kills
  MaxStarts     \* bound: starts of the process

ASSUME WriteAssumption ==
  /\ MaxLen \in Nat \ {0} /\ StartHeight \in Nat \ {0}
  /\ InitLen \in Nat /\ InitLen >= StartHeight + MaxLen
  /\ MaxBlocks \in Nat /\ InitLen =< MaxBlocks /\ MaxCrashes \in Nat /\ MaxStarts \in Nat

VARIABLES
  node,        \* the best chain: node[h] is its block at height h
  spends,      \* spends[b]: the outputs that block b spends
  trouble,     \* what this history has: "crash" or "reorg"
  mode,        \* the process: "down", "running", or "stopping" (restore_all)
  at,          \* the chain that the process takes the tables to hold
  todo,        \* the writes still to be done, in order
  savepoints,  \* ReorgCache.blocks: the block and what the tables were before it
  db,          \* table -> content
  crashes, starts

vars == <<node, spends, trouble, mode, at, todo, savepoints, db, crashes, starts>>

----------------------------------------------------------------------------
(* The tables, in the order a block writes them. *)

\* remove_batch and extend, two writes each
OrdinalsTables == <<"outpoint_to_partials", "outpoint_to_inscription_offsets">>
HistoryTables == <<"token_id_to_event", "block_events", "last_history_id",
                   "outpoint_to_event", "address_token_to_history">>
MetaTables == <<"token_to_meta", "address_token_to_balance">>
TransferTables == <<"address_location_to_transfer">>

RowTables == OrdinalsTables \o HistoryTables \o MetaTables \o TransferTables
RowNames == {RowTables[i] : i \in DOMAIN RowTables}

Missing == 0   \* a row of block_info that is not there
Heights == 0..MaxBlocks

EmptyDB ==
  [prevouts |-> {}, fullhash_to_address |-> {},
   outpoint_to_partials |-> <<>>, outpoint_to_inscription_offsets |-> <<>>,
   token_id_to_event |-> <<>>, block_events |-> <<>>, last_history_id |-> <<>>,
   outpoint_to_event |-> <<>>, address_token_to_history |-> <<>>,
   token_to_meta |-> <<>>, address_token_to_balance |-> <<>>,
   address_location_to_transfer |-> <<>>,
   last_block |-> 0,
   block_info |-> [h \in Heights |-> Missing],
   proof_of_history |-> [h \in Heights |-> <<>>]]   \* <<>>: DEFAULT_HASH

Put(table, value) == <<[table |-> table, value |-> value]>>

----------------------------------------------------------------------------
(* The node. *)

Unspent(chain) ==
  LET blocks == {chain[h] : h \in DOMAIN chain} IN blocks \ UNION {spends[b] : b \in blocks}

\* A block of a coinbase alone spends nothing. Otherwise its first transaction spends
\* an output from before it, and another one may spend one of the block's own.
SpendsOf(chain, b) ==
  {{}} \cup {{o} : o \in Unspent(chain)} \cup {{o, b} : o \in Unspent(chain)}

Chain(h) == SubSeq(node, 1, h)

\* The node never leaves behind a block that has no savepoint, or one that it is more
\* than MaxLen blocks past (ChainSync has what happens otherwise).
WithinReach(chain) ==
  \/ IsPrefix(at, chain)
  \/ \E fork \in Len(at) - Len(savepoints)..Len(at) :
        IsPrefix(SubSeq(at, 1, fork), chain) /\ Len(chain) =< fork + MaxLen

NewBlock(chain) ==
  /\ Len(spends) < MaxBlocks
  /\ LET b == Len(spends) + 1
     IN  /\ node' = Append(chain, b)
         /\ \E s \in SpendsOf(chain, b) : spends' = Append(spends, s)
  /\ WithinReach(node')

\* The process looks at the node between blocks only, so that a node that moves while
\* it writes is one that moves right afterwards.
Mine ==
  /\ todo = <<>>
  /\ NewBlock(node)
  /\ UNCHANGED <<trouble, mode, at, todo, savepoints, db, crashes, starts>>

\* Two blocks take the place of the last one.
NodeReorg ==
  /\ trouble = "reorg" /\ todo = <<>>
  /\ Len(spends) + 2 =< MaxBlocks
  /\ LET base == Front(node)
         b == Len(spends) + 1
     IN  /\ \E s \in SpendsOf(base, b) : \E t \in {{}} \cup {{o} : o \in {b} \ s} :
              spends' = spends \o <<s, t>>
         /\ node' = base \o <<b, b + 1>>
  /\ WithinReach(node')
  /\ UNCHANGED <<trouble, mode, at, todo, savepoints, db, crashes, starts>>

----------------------------------------------------------------------------
(* One block: InscriptionIndexer::handle. *)

OnNode == IsPrefix(at, node)
AtRest == mode = "running" /\ todo = <<>>

\* handle_reorgs
Tracked(height) == height > Len(node) - MaxLen

\* process_prevouts: every output is in the table or is one of the block's own.
HasPrevouts(b) == spends[b] \ {b} \subseteq db.prevouts

\* Rows that are taken out first and put in afterwards, and rows that are only put in.
Replace(table, b) == Put(table, Append(db[table], -b)) \o Put(table, Append(db[table], b))
Insert(tables, b) ==
  [i \in DOMAIN tables |-> [table |-> tables[i], value |-> Append(db[tables[i]], b)]]

PrevoutsWrites(b) ==
  Put("prevouts", db.prevouts \cup {b}) \o
  Put("prevouts", (db.prevouts \cup {b}) \ spends[b]) \o
  Put("fullhash_to_address", db.fullhash_to_address \cup {b})

TokenWrites(b) ==
  Replace(OrdinalsTables[1], b) \o Replace(OrdinalsTables[2], b) \o
  Insert(HistoryTables \o MetaTables, b) \o
  Replace(TransferTables[1], b)

\* A proof is the hash of the one before it and of the block's history.
Bug_PrevProof(height) == db.proof_of_history[height]
PrevProof(height) == db.proof_of_history[height - 1]

InfoWrites(b, height) ==
  Put("last_block", height) \o
  Put("block_info", [db.block_info EXCEPT ![height] = b]) \o
  Put("proof_of_history", [db.proof_of_history EXCEPT ![height] = Append(PrevProof(height), b)])

\* Before START_HEIGHT only the outputs are kept; a lone coinbase has no tokens.
HasTokens(b, height) == height >= StartHeight /\ spends[b] # {}

Bug_LatePrevouts(b, height) ==
  IF height < StartHeight THEN PrevoutsWrites(b)
  ELSE (IF HasTokens(b, height) THEN TokenWrites(b) ELSE <<>>)
       \o PrevoutsWrites(b) \o InfoWrites(b, height)
Bug_EarlyInfo(b, height) ==
  IF height < StartHeight THEN PrevoutsWrites(b)
  ELSE PrevoutsWrites(b) \o InfoWrites(b, height)
       \o (IF HasTokens(b, height) THEN TokenWrites(b) ELSE <<>>)
BlockWrites(b, height) ==
  IF height < StartHeight THEN PrevoutsWrites(b)
  ELSE PrevoutsWrites(b)
       \o (IF HasTokens(b, height) THEN TokenWrites(b) ELSE <<>>)
       \o InfoWrites(b, height)

\* pop_first
Room(saved) == IF Len(saved) = MaxLen THEN Tail(saved) ELSE saved

\* The next block of the best chain: the cache is cleared far from the tip, the block
\* is parsed and processed, a savepoint is made, and then the writes begin.
Apply ==
  /\ AtRest
  /\ Len(at) < Len(node)
  /\ OnNode
  /\ LET height == Len(at) + 1
         b == node[height]
         cleared == IF Tracked(height) THEN savepoints ELSE <<>>
     IN  /\ HasPrevouts(b)
         /\ at' = Append(at, b)
         /\ todo' = BlockWrites(b, height)
         /\ savepoints' =
              IF Tracked(height)
              THEN Append(Room(cleared), [block |-> b, height |-> height, was |-> db])
              ELSE cleared
  /\ UNCHANGED <<node, spends, trouble, mode, db, crashes, starts>>

\* "Missing prevout for key": the error ends the loop, and run restores everything.
MissingPrevout ==
  /\ AtRest
  /\ Len(at) < Len(node)
  /\ OnNode
  /\ ~HasPrevouts(node[Len(at) + 1])
  /\ savepoints' = IF Tracked(Len(at) + 1) THEN savepoints ELSE <<>>
  /\ mode' = "stopping"
  /\ UNCHANGED <<node, spends, trouble, at, todo, db, crashes, starts>>

Write ==
  /\ mode # "down" /\ todo # <<>>
  /\ db' = [db EXCEPT ![Head(todo).table] = Head(todo).value]
  /\ todo' = Tail(todo)
  /\ UNCHANGED <<node, spends, trouble, mode, at, savepoints, crashes, starts>>

----------------------------------------------------------------------------
(* Undoing a block: one turn of ReorgCache::restore. *)

PutBack(tables, was) == [i \in DOMAIN tables |-> [table |-> tables[i], value |-> was[tables[i]]]]

\* What the block changed is written back and what it added is removed, in two writes.
Undo(table, b, was) == Put(table, Append(was[table], -b)) \o Put(table, was[table])

\* RemoveHistory takes its tables in an order of its own.
Bug_UndoneHistory == <<"last_history_id", "block_events",
                       "outpoint_to_event", "token_id_to_event">>
UndoneHistory == <<"last_history_id", "block_events", "address_token_to_history",
                   "outpoint_to_event", "token_id_to_event">>

\* The outputs the block spent, its own included, are put back.
Bug_RestorePrevouts(b) == <<>>
RestorePrevouts(b) == Put("prevouts", db.prevouts \cup spends[b])

\* The token entries in reverse, then the ordinals entries in reverse. The proofs,
\* the addresses and the outputs that the block created stay.
UndoWrites(b, height, was) ==
  Put("last_block", height - 1) \o
  Put("block_info", [db.block_info EXCEPT ![height] = Missing]) \o
  (IF HasTokens(b, height)
   THEN Undo(TransferTables[1], b, was) \o
        Undo(MetaTables[2], b, was) \o Undo(MetaTables[1], b, was) \o
        PutBack(UndoneHistory, was) \o
        Undo(OrdinalsTables[2], b, was) \o Undo(OrdinalsTables[1], b, was)
   ELSE <<>>) \o
  RestorePrevouts(b)

UndoLast ==
  /\ savepoints # <<>>
  /\ LET s == Last(savepoints)
     IN  todo' = UndoWrites(s.block, s.height, s.was)
  /\ savepoints' = Front(savepoints)
  /\ at' = Front(at)

\* A reorg: the blocks that left the best chain go, the last one first.
RestoreBlock ==
  /\ AtRest
  /\ ~OnNode
  /\ UndoLast
  /\ UNCHANGED <<node, spends, trouble, mode, db, crashes, starts>>

\* restore_all
RestoreAll ==
  /\ mode = "stopping" /\ todo = <<>>
  /\ UndoLast
  /\ UNCHANGED <<node, spends, trouble, mode, db, crashes, starts>>

----------------------------------------------------------------------------
(* The process. *)

\* A signal, seen between two blocks.
Signal ==
  /\ AtRest
  /\ mode' = "stopping"
  /\ UNCHANGED <<node, spends, trouble, at, todo, savepoints, db, crashes, starts>>

Exit ==
  /\ mode = "stopping" /\ todo = <<>> /\ savepoints = <<>>
  /\ mode' = "down"
  /\ UNCHANGED <<node, spends, trouble, at, todo, savepoints, db, crashes, starts>>

\* Killed between two writes.
Crash ==
  /\ trouble = "crash" /\ crashes < MaxCrashes
  /\ mode # "down"
  /\ mode' = "down" /\ todo' = <<>> /\ savepoints' = <<>>
  /\ crashes' = crashes + 1
  /\ UNCHANGED <<node, spends, trouble, at, db, starts>>

\* From the block files the first block must continue the hash in block_info, or the
\* parser panics; without them the node's block at that height is taken for ours.
Start ==
  /\ mode = "down" /\ starts < MaxStarts
  /\ mode' = "running" /\ starts' = starts + 1
  /\ at' = Chain(db.last_block)
  /\ UNCHANGED <<node, spends, trouble, todo, savepoints, db, crashes>>

Terminated == mode = "down" /\ starts = MaxStarts /\ UNCHANGED vars
Waiting == AtRest /\ at = node /\ UNCHANGED vars

\* The blocks up to START_HEIGHT hold a coinbase alone. (The first block with tokens,
\* cut short, would be applied a second time: the process starts again from height 1
\* and the outputs it spent come back.)
Init ==
  /\ node = [h \in 1..InitLen |-> h]
  /\ spends \in [1..InitLen -> SUBSET (1..InitLen)]
  /\ \A b \in 1..InitLen :
       spends[b] \in IF b =< StartHeight THEN {{}} ELSE SpendsOf(Chain(b - 1), b)
  /\ trouble \in {"crash", "reorg"}
  /\ mode = "down" /\ at = <<>> /\ todo = <<>> /\ savepoints = <<>>
  /\ db = EmptyDB
  /\ crashes = 0 /\ starts = 0

Next ==
  \/ Mine \/ NodeReorg
  \/ Apply \/ MissingPrevout \/ Write \/ RestoreBlock \/ RestoreAll
  \/ Signal \/ Exit \/ Crash \/ Start
  \/ Terminated \/ Waiting

Spec == Init /\ [][Next]_vars

----------------------------------------------------------------------------
\* The rows of a table that is the result of a chain.
RowsOf(chain) ==
  LET rows[h \in 0..Len(chain)] ==
        IF h = 0 THEN <<>>
        ELSE IF HasTokens(chain[h], h) THEN Append(rows[h - 1], chain[h]) ELSE rows[h - 1]
  IN  rows[Len(chain)]

(* A block is parsed and processed against tables that hold every block below it
   and nothing else, wherever the process was killed before: the outputs a half-
   written block spent are gone, so that it stops at "Missing prevout" instead of
   minting and moving tokens a second time. *)
AppliesOnParent ==
  [][Apply => \A t \in RowNames : db[t] = RowsOf(at)]_vars

(* Without kills, whatever was applied, undone and applied again, the tables at rest
   are those of the chain the process is at: its rows, its heights, its hashes, and
   every output that a next block may spend. *)
TablesMatchTip ==
  AtRest /\ crashes = 0 =>
    /\ \A t \in RowNames : db[t] = RowsOf(at)
    /\ Unspent(at) \subseteq db.prevouts
    /\ db.last_block = (IF Len(at) < StartHeight THEN 0 ELSE Len(at))
    /\ db.block_info = [h \in Heights |->
                          IF h \in StartHeight..Len(at) THEN at[h] ELSE Missing]

(* Without kills the proof of a height is that of its own chain, although a rollback
   leaves the proofs of the undone blocks behind. *)
ProofChained ==
  AtRest /\ crashes = 0 =>
    \A h \in StartHeight..Len(at) : db.proof_of_history[h] = SubSeq(at, StartHeight, h)

(* last_block names a height only while every table has all the blocks up to it:
   it is written last, and taken back first, so that a start after a kill never
   skips a block. *)
LastBlockWritten ==
  LET chain == SubSeq(at, 1, IF db.last_block < Len(at) THEN db.last_block ELSE Len(at))
  IN  \A t \in RowNames : IsPrefix(RowsOf(chain), db[t])
============================================================================
