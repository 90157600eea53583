# TLA+ development of the WJK-20 indexer

The indexer follows a Bitcoin-like node (Wojakcoin, Bellscoin, Dogecoin, ...), tracks
inscriptions through its transactions, runs the BRC-20-style token protocol over them and
serves the result from RocksDB. This directory specifies the parts whose correctness
decides what users own, and what users are told of it. TLC checks them on small instances,
TLAPS proves the safety properties of the ledger and its rollback, of inscription tracking, of the
event stream, of chain synchronisation, of the writes of a block and of the requests that run between
them for every instance.

Paths are relative to the repository root (`src/src/...` is the indexer crate,
`src/packages/...` its two local packages).

    cd tla
    tlc -workers 2 -config MCTokenLedger_core.cfg MCTokenLedger.tla     # a run
    for m in *Proofs.tla; do tlapm $m; done                             # the proofs

## 1. Inventory

| component | source | state | operations |
|---|---|---|---|
| parser thread | `packages/new-blk-parser/src/lib.rs`, `blockchain/checkpoint.rs` | list of checkpoints, `last_hash`, `reorg_counter` | read block files, poll the node, pop checkpoints on a reorg, fetch and send blocks |
| channel | kanal, `BOUNDED_CHANNEL_SIZE` | queue of `BlockEvent`s | `send_checked`, `try_recv` |
| indexer loop | `src/src/inscriptions/mod.rs` | `prev_height`, the reorg cache | receive, clear or restore the cache, hand the block on, stop |
| block handler | `src/src/inscriptions/indexer.rs`, `process_data.rs`, `utils.rs` | none between blocks | prevouts, parse, process, proof of history, the writes of a block |
| inscription tracking | `src/src/inscriptions/{parser,searcher,leaked,structs}.rs` | offsets per outpoint, partial inscriptions | move, leak into the fees, assemble, create |
| inscription decoding | `envelope.rs`, `tag.rs`, `structs.rs`, `tokens/proto.rs` | none | envelopes of tapscripts, push data, inscriptions in parts, token JSON |
| token ledger | `src/src/tokens/parser.rs` | `TokenCache`; token, balance and transfer tables | load, queue actions, process deploy, mint, transfer, move; write back |
| holders index | `src/src/tokens/holders.rs` | per tick a `BTreeSet` and a count, shared with REST | `init`, `increase`, `decrease` |
| reorg cache | `src/src/reorg.rs` | one savepoint per block near the tip | `new_block`, `push_*`, `restore`, `restore_all` |
| process | `main.rs`, `server/mod.rs` | cancellation token, threads | start, signal, orderly stop; being killed |
| RPC client | `packages/new-blk-parser/src/utils/client.rs` | none | retries, gives up and cancels |
| block files, index | `blockchain/parser/*.rs`, `blockchain/proto/*.rs` | none | find the blocks of the best chain in the node's index, read and decode them from its files |
| storage, codecs | `packages/rocksdb-wrapper`, `src/src/db` | the tables | put, write batches, ranges; keys and values as bytes |
| event stream | `indexer.rs`, `server/threads/event_sender.rs`, `rest/history.rs` | raw and broadcast channels, one receiver per subscriber | number, collect and publish history entries, announce blocks and reorgs, disconnect who falls behind |
| REST API | `src/src/rest` | none | requests of several reads, lists in pages |
| configuration, logging | `src/src/config.rs`, `main.rs` | none | start-up |

How they interact. The parser thread pushes blocks through the bounded channel to the
indexer loop, together with the length of a reorg and the tip's height. The loop first
undoes blocks from the reorg cache, then hands the block over. The handler loads the rows
the block needs, `Parser::parse_block` walks through the transactions and queues token
actions, `TokenCache::process_token_actions` applies the queue to the cache and to the
shared holders index, and `ProcessedData::write` pushes a savepoint and writes table after
table. The loop then announces the block to the subscribers and hands its history to the event
sender, which publishes on the same channel in its own time. REST requests read the tables while
all this happens, without locks or snapshots.

What is hard here:
* the node reorganises between any two RPC calls, and during or while the process is down;
* a block is a dozen separate writes, and the process can be killed between any two;
* savepoints, the holders index and the checkpoints exist in memory only;
* a block is processed in phases: what to load is decided before it is known which
  actions are valid, and the rows are keyed by spellings of a tick, tokens by lower case;
* offsets are sums of values compared with sums of values, through fees and the coinbase;
* threads wait on each other and on the node, and have to end when told to;
* a block and its history come from two threads, ids are given out again after a reorg, and a
  subscriber may be too slow;
* a request reads several tables while blocks are written or undone between two reads;
* bytes are cut by hand: scripts, block files, keys, with widths that have changed.

What makes each component correct: the parser thread and the indexer loop apply every
block on its parent, and get to the node's tip; the block handler never works on rows other
than those of the parent; tracking keeps an inscription on its satoshi; the ledger is the
protocol's (caps, no tokens out of nothing, locked amounts backed by transfers); the index
equals the accounts; undoing a block gives back the tables from before it; a subscriber
can follow the chain from what it is told and misses nothing; an answer joins the rows of one
block; what was written is what is read.

## 2. The modules

| module | models | lines to open first |
|---|---|---|
| `Brc20` | abstract: the token protocol, one action at a time on one table each | `tokens/parser.rs` 328-499 |
| `TokenLedger` | `TokenCache`, `Holders` and the token tables over the blocks of a chain | `tokens/parser.rs`, `tokens/holders.rs` |
| `TokenReorg` | `TokenLedger` with savepoints, rollback and restart | `reorg.rs`, `process_data.rs` 112-176 |
| `LinkedChain` | abstract: tables that are the result of one real chain | `reorg.rs`, `inscriptions/mod.rs` |
| `ChainSync` | parser thread, channel, indexer loop, start, stop and kill against a node | `new-blk-parser/src/lib.rs`, `inscriptions/mod.rs` |
| `BlockWrite` | every single write of a block, of an undone block, kills between them | `inscriptions/indexer.rs`, `process_data.rs` |
| `Inscriptions` | `parse_block` beside the satoshis themselves | `inscriptions/parser.rs`, `searcher.rs`, `leaked.rs` |
| `EventStream` | ids and publication of history, both channels, a subscriber, the end of the process | `inscriptions/mod.rs`, `event_sender.rs`, `rest/history.rs` 3-87 |
| `Readers` | requests of several reads, against the writes of `BlockWrite` | `rest/info.rs`, `rest/tokens.rs` 113-145, `rest/types.rs` 124-165 |
| `Envelope` | scripts to inscriptions | `envelope.rs`, `tag.rs`, `structs.rs` 75-290 |
| `BlockFile` | block files to blocks, and the bytes that are hashed | `reader.rs`, `blk_file.rs`, `proto/tx.rs` |
| `BlockIndex` | the node's block index to the branch that is read from files, and the checkpoints | `parser/index.rs`, `chain.rs`, `checkpoint.rs` |
| `Codecs`, `Paging` | the bytes of rows; ranges and the lists that are read in pages | `db/structs.rs`, `storage.rs`, `rest/address.rs` |
| `LedgerProperties` | what `TokenLedger` keeps true of sums over accounts and transfers, and the refinement of `Brc20` | |
| `TokenLedgerProofs`, `LedgerProofs`, `ReorgProofs` | theorems about `TokenLedger` and, in the last, `TokenReorg`; each module on top of the one before | |
| `InscriptionProofs` | theorems about `Inscriptions` | |
| `EventStreamProofs`, `ChainSyncProofs` | theorems about `EventStream` and `ChainSync` | |
| `BlockWriteProofs` | theorems about `BlockWrite`, and about `Readers` on top of them | |
| `SumProofs` | lemmas: induction over sets of numbers, sums over finite sets | |

The `MC*` modules only give constants their values; `MCAlgorithms` enumerates the inputs of
`Envelope`, `BlockIndex` and `BlockFile`, and `MCTables`, which it extends, those of `Codecs` and `Paging`. In every module a definition called `Bug_X`, next to `X`, is a
plausible mistake in `X`: replacing `X` by it makes the property it stands for fail, which shows
that the property depends on the code at that place.

`Readers` extends `BlockWrite`: its requests run between the very writes of that module. The
abstract specifications are `Brc20` (for `TokenLedger`) and `LinkedChain` (for `ChainSync`);
`EventStream` takes a block's handling as one step, `ChainSync` its application, and
`BlockWrite` takes both apart.

**TokenLedger.** A block goes through the phases "parse" (`BeginBlock`, `Inscribe*`,
`MoveTransfer`, `LeakTransfer`: the queue fills, nothing is checked), `LoadTokensData`,
"process" (`ProcessDeploy`, `ProcessMint`, `ProcessTransfer`, `ProcessTransferred`: one
queued action each, on the cache and `holders`) and `CommitBlock` (the write-back). A
location is whatever an inscription can be on; `OccupiedOffsets` says whether a second one
may be created on it. Amounts are integers in the smallest unit with the number of digits
they were written with. Counters that nothing reads back and history entries are left out.
The `panic!`, `expect` and `unwrap` of a move lead to the phase "panicked".

**Inscriptions.** The model has what the code has (values, offsets, rows in memory and in
the tables) and next to it what the code cannot see: which satoshis each output and the
fees consist of, and which of them are inscribed. `OnItsSatoshi` compares the two.
A satoshi is `<<b, v, k>>`: the `k`-th of the subsidy of block `b`, or of an output from before the first
block (`FirstOuts` has their values).
Outputs without value stand for `OP_RETURN` and are not spent; the coinbase takes the whole
reward, in one output or in two of any size. A script that does not decode (`legal`) is no tapscript and is read
as a scriptSig, as `Inscription::from_parts` does.

**ChainSync.** A block is a number, `prev` its parent. One action is one RPC call, one
channel operation or one iteration of the indexer loop. Applying and undoing a block are
atomic here; `BlockWrite` takes them apart. The block files hold a prefix of the best chain
(the block index is computed from it and stops below the tip).

**BlockWrite.** The content of a table is the sequence of blocks its rows come from, `-b`
while the rows of `b` are half written. The values are computed before the first write, as
in the code, and there is a single writer; a put or a write batch is atomic. A savepoint keeps what each
table was before its block, in place of the single rows, and a table is undone in two batches: what the block
changed is put back and what it added is removed. The node moves
between blocks only, and stays within reach of the savepoints: `ChainSync` has the rest.

**EventStream.** A block is a number in the order of handling. `Handle` is one turn of the
indexer loop: undo, give out ids, save `last_history_id` and the new keys, announce the reorg
and the block. A block far below the tip (`tracked` is FALSE) gets no savepoint and clears the cache. The
reorg and the block are announced in one step: a subscriber that takes the first before the second is sent
has a prefix of the same log. `HandOver` puts the entries into the unbounded queue of the event sender
(`Receive`, `Empty`, `Check`, `Publish`: collect until the queue is empty, publish, look at the
token only with nothing to publish). `Stop`, `CancelToken`, `Exit`, `Restart` are the end of `main` and a
new start. A subscriber takes one event at a time and is dropped when the broadcast channel has
overtaken it; its own channel, when full, makes it one that takes nothing, so that it needs no state.

**Readers.** Every read of a table is an action; a range reads the snapshot its iterator was
opened on. A request is "status" (`last_block`, proof, `block_info`), "proof" (node, `last_block`,
`block_info`, compare, transfers; again if they differ) or "history" (rows, then the block of
a row). What a table holds is, as in `BlockWrite`, the blocks its rows come from. A request ends with the
process (`NoRequest`): the REST thread is not joined and dies with `main`.

**Envelope, BlockFile, BlockIndex, Codecs, Paging.** The operators bear the names of the functions
they translate and work on bytes. Each module ends with what its functions are compared with: a
writer (of scripts, of block files, of the node's index, of rows) and the statement that reading
gives back what was written. The writers of the node's formats are external.

## 3. What the runs show

| run | instance | properties |
|---|---|---|
| `core` | 2 users, 1 tick, 2 locations, 3 blocks of at most 2 inscriptions and any moves, no inscription on an occupied offset | `TypeOK`, `SupplyWithinMax`, `HoldersExact`, `NoPanic`, `TransfersBacked`, `CacheReadsThrough`; `LedgerSpec`: the block-wise processing through the cache implements `Brc20` |
| `jubilee` | one location, two spellings of a tick, occupied offsets | `OneSpelling`, `NothingFromNothing`, also after a panic cut a block short |
| `undo` | blocks with and without savepoints, rollbacks, restarts | `RestoreUndoes`, `LedgerConsistent`, `HoldersExactUntilRollback` |
| `follow` | reorgs of up to 3 blocks, cache of 4, signals, a lost node, restarts; or kills without reorgs | `AppliedLinked`, `OrphansUndoable`, `StopLeavesBestChain`, `FollowsOneChain` (refinement of `LinkedChain`) |
| `live` | reorgs of any depth in the instance, faults, restarts | `CatchesUp`, `StopsWhenTold` under `FairSpec` |
| `write` | a kill between any two writes, or reorgs and orderly stops | `AppliesOnParent`, `LastBlockWritten`, `TablesMatchTip`, `ProofChained` |
| `place` | 2 transactions over 2 blocks, whole inscriptions, two-part ones, tapscripts with a pointer | `OnItsSatoshi`, `LeakedInFees`, `OccupiedSkipped` |
| `stream` | 2 addresses, 3 handled blocks, reorgs, signals, a restart, a subscriber that may fall behind | `HistoryDense`, `HistoryFollowsBlock`, `BlocksReconstructed`, `NoGaps`, `NoSendPanic`; `HistoryPublished`, `Exits` under `FairSpec` |
| `readers` | a request at any point of the writes of up to 5 blocks, with reorgs and orderly stops | `AnswersOneBlock`, `ProofCurrent`, `FailsOnlyInFlight` |
| `algorithms` | every script, block tree, block file, row and pair of tables of a bounded set, see below | `InscriptionsRead`, `IndexIsOneBranch`, `BlocksRead`, `RowsReadBack`, `PagesComplete` |

Two runs end in a counterexample and are kept with what they contradict:

| run | what happens |
|---|---|
| `overwrite` | From the jubilee height on two transfer inscriptions can share a location. `all_transfers` keeps only the last (`tokens/parser.rs:225`). The first to be processed consumes that entry and locks its own amount, the valid row gets the amount of the last, the second is refused (lines 401-404), and the move of the row panics at line 470 when less is locked than the row says. The same shape lets a move pay an account that was not loaded (`tokens/parser.rs:483`). |
| `late` | If the first block of a new branch is already `REORG_CACHE_MAX_LEN` below the tip when the indexer gets it, the reorg cache is cleared before the reorg is undone (`inscriptions/mod.rs:76-81`), and the check of line 91 has nothing to compare with. |

Further divergences, which the models contain; the properties say exactly how far the code goes:

* A rollback restores balances but never tells `Holders`: until the next start the REST list of
  holders may be that of the undone blocks (`reorg.rs:137`). `HoldersExactUntilRollback` says what is left.
* A start without a block index takes the hash at its height from the node
  (`new-blk-parser/src/lib.rs:127`), not from the database: a reorg while a killed process is down is
  not noticed. `Troubles` keeps kills and reorgs apart in `follow`.
* The history of an undone block may be published after the reorg was announced, even after the block
  that took its place, with ids that are used again. `HistoryFollowsBlock` and
  `BlocksReconstructed` say what a subscriber can rely on: blocks and reorgs are in order, and an
  entry never comes before its block.
* A status read across a reorg may join the proof of one block and the hash of another.
  `AnswersOneBlock` excludes exactly the blocks that have left the best chain.
* The length of an `OP_PUSHDATA2` or `OP_PUSHDATA4` is put together from the wrong bytes
  (`inscriptions/structs.rs:245`): `Envelope` translates it as it is, `InscriptionsRead` is stated without it.
* `AddressTokenIdDB` declares 44 bytes and writes 48 (`db/structs.rs:298`), so that a stored list of `block_events`
  is cut at the wrong places and the events of a height (`rest/history.rs:147`) are read only where there are
  none; `TokenId::from_bytes` takes four bytes for a tick of eight (`db/structs.rs:335`) and always fails, so that
  the list of the events of a token (`rest/tokens.rs:206`) exists only while it is empty. `RowsReadBack` says
  that all other rows read back and that these two never do (`ListNeverRead`, `NeverRead`).
* `rest/types.rs:428` calls the offset of a page of transfers the outpoint of the last item of the previous page.
  The range begins at the outpoint and one row is skipped (`rest/address.rs:19`): with several transfers of a token
  in it, the page behind it begins with the second of them, given out already or not, and with a page size of one a
  client never gets past it. `PagesComplete` has completeness for one transfer per outpoint and
  this behaviour (`OffsetIsOutPoint`) for more.
* `rest/types.rs:439` calls the offset of a page of tokens the tick of its last item. It is looked up with its
  padding (`rest/address.rs:35`, 136; `tokens/structs.rs:131`), while the keys of `token_to_meta` are trimmed (line 187).
  A tick of less than eight bytes is not found, and the page begins at the second row of the whole list.
  `PagesComplete` has completeness for ticks of eight bytes and this behaviour (`ShortTickIsNoOffset`) for
  shorter ones. `rest/tokens.rs:65` and 96, `rest/holders.rs:6` and 53 and `rest/history.rs:10` convert a tick
  of a request in the same way.

**Bounds, and why they are enough.** Two users give a sender and a recipient, a user who is
both, and the burn; a third adds no new pair. Two inscriptions per block are a transfer and
what may collide with it, and queued moves are unlimited; three blocks are deploy and mint,
inscribe, move, in one block or spread over three. In `ChainSync` the cache of 4 and reorgs
of 3 have every relation of fork, cache and tip; a channel of capacity 1 is the one that
blocks most. `BlockWrite` has a height below `START_HEIGHT`, one with tokens for the first
time and one with the cache full. `place` begins with outputs of two satoshis and of one
(`FirstOuts`), enough for an inscription that is not the first of its output, transactions of up to two inputs
(`MaxInputs`) and two outputs, an `OP_RETURN`, a fee from a part of an input or all of it, a coinbase split
in any two that the next block spends, and a script that does not decode.

`stream` has `Capacity` 2, so that a block, a history entry and one more event overtake a subscriber
that has taken nothing; a cache of 2, so that three blocks drop a savepoint; `StartHeight` 1,
as of Wojakcoin; one filter, for the other events pass it unchanged. Ids go to 2: one move, or two
actions in different blocks, and the same ids again after a reorg. `readers` has heights up to 3
with a cache of 2 and five blocks, so that two blocks can be undone and replaced between two
reads; kills are left to `BlockWrite`.

The inputs of `algorithms`: tapscripts of up to four pieces out of thirteen (`MaxTapPieces`), among
them headers cut in two, cut-off pushes and headers in payloads; up to three fields with odd values; inscriptions in
up to three parts over one to three scripts, with pieces of up to 255 bytes; block trees of up to five
blocks with headers, failed blocks and one without undo data, at heights and offsets around
the widths of the node's integers; files of two blocks under two keys and three buffer sizes; rows with numbers around the byte boundaries, ticks of three and of eight bytes in upper and lower
case; up to two transfers in an outpoint; two tables between which rows come and go, pages of one and two
rows, read until one is not full (`MaxPages`). Holders and tokens are paged by number over one list. A hash has two bytes (`HashLen`, `HASH`): it is copied
and compared only.

Names marked with the word *bound* in the `CONSTANTS` are the cut-offs; the actions they stop are disabled
there and `Terminated` stutters, so that a deadlock anywhere else would be reported.

**Fairness.** `ChainSync!FairSpec` assumes weak fairness of the parser thread, of the
indexer's handling of an event, of its stopping and of the supervisor's start: two OS threads whose
loops only sleep for a bounded time, and a service that is restarted (within `MaxStarts`).
Nothing is assumed of the node or of faults. `CatchesUp` is stated for a process that stays
up. `EventStream!Fairness` assumes weak fairness of the event sender thread, of the indexer's
hand-over, of its stopping once the token is cancelled, of the cancelling that follows a stop and of
`main` returning when the threads have ended: straight-line code and loops without waits of unknown length. Blocks,
signals, restarts and subscribers owe nothing. `HistoryPublished` needs no fairness of
blocks, because the bound on them makes the queue run empty; for an endless backlog the sender,
which collects until its queue is empty, would depend on the pace of the indexer.

Assumptions that come from outside the code: blocks are valid (no double spends, outputs at most
the inputs); a chain on which the jubilee never comes (Dogecoin) has no witnesses, so that tapscripts come from
`JUBILEE_HEIGHT` on, or on Bellscoin; every block with data in the node's index has a parent with data, and no valid block a
failed parent; in `follow`, `KeepsUp` says that the node does not get more than `MaxLen` blocks past a
fork the tables do not know of, which `late` shows to be needed.

## 4. What is proved

Each theorem holds for all values of the constants that satisfy the named assumption of its model:
`LedgerAssumption` (finitely many users, the burn address not one of them, positive amounts, terms
and limits, `Nil` no row), `InscriptionsAssumption` (values are natural numbers, outputs from before the first block are not empty), `StreamAssumption`, `ChainAssumption` (types of the constants, a cache of at least
one savepoint), `WriteAssumption` (the same, and a node whose chain is at first longer than `START_HEIGHT` by the
length of the cache), and what the table adds.

| theorem | property | further assumption |
|---|---|---|
| `TokenLedgerProofs!TypeCorrect` | `TypeOK`: no balance, locked amount or transfer count goes below zero | |
| `TokenLedgerProofs!SupplyCapped` | `SupplyWithinMax` | |
| `TokenLedgerProofs!SpellingUnique` | `OneSpelling` | |
| `TokenLedgerProofs!HoldersIndexed` | `HoldersExact` | `~OccupiedOffsets` |
| `LedgerProofs!NothingCreated` | `NothingFromNothing` | |
| `LedgerProofs!BlockReadsThrough` | `CacheReadsThrough`, an action property | `~OccupiedOffsets` |
| `LedgerProofs!TransfersAreBacked` | `TransfersBacked` | `~OccupiedOffsets` |
| `LedgerProofs!MovesNeverPanic` | `NoPanic` | `~OccupiedOffsets` |
| `LedgerProofs!LedgerImplemented` | `LedgerSpec`, the refinement of `Brc20` | `~OccupiedOffsets` |
| `ReorgProofs!RollbackIsExact` | `RestoreUndoes`, an action property | `~OccupiedOffsets` |
| `ReorgProofs!ReorgsKeepLedger` | `LedgerConsistent` | `~OccupiedOffsets` |
| `ReorgProofs!MovesNeverPanicAfterReorg` | `NoPanic`, in histories with rollbacks and restarts | `~OccupiedOffsets` |
| `ReorgProofs!HoldersUntilRollback` | `HoldersExactUntilRollback` | `~OccupiedOffsets` |
| `InscriptionProofs!InscriptionsStay` | `OnItsSatoshi` | |
| `InscriptionProofs!LeaksKeepTheirPlace` | `LeakedInFees` | |
| `InscriptionProofs!OccupiedOffsetsSkipped` | `OccupiedSkipped`, an action property | |
| `EventStreamProofs!SendsNeverPanic` | `NoSendPanic` | |
| `EventStreamProofs!HistoryAfterBlock` | `HistoryFollowsBlock` | |
| `EventStreamProofs!SubscribersMissNothing` | `NoGaps` | |
| `EventStreamProofs!ChainReconstructed` | `BlocksReconstructed` | |
| `EventStreamProofs!HistoryIdsDense` | `HistoryDense` | |
| `ChainSyncProofs!TablesAreOneChain` | `AppliedLinked` | `WithinCache` |
| `ChainSyncProofs!EveryOrphanHasSavepoint` | `OrphansUndoable` | `WithinCache` |
| `ChainSyncProofs!StoppedOnBestChain` | `StopLeavesBestChain` | `WithinCache` |
| `ChainSyncProofs!LinkedChainImplemented` | `FollowsOneChain`, the refinement of `LinkedChain` | `WithinCache` |
| `BlockWriteProofs!AppliesOnParentHolds` | `AppliesOnParent`, an action property | |
| `BlockWriteProofs!LastBlockIsWritten` | `LastBlockWritten` | |
| `BlockWriteProofs!TablesMatch` | `TablesMatchTip` | |
| `BlockWriteProofs!ProofsChain` | `ProofChained` | |
| `BlockWriteProofs!AnswersJoinOneBlock` | `AnswersOneBlock` | |
| `BlockWriteProofs!ProofIsCurrent` | `ProofCurrent` | |
| `BlockWriteProofs!FailuresAreInFlight` | `FailsOnlyInFlight` | |

`~OccupiedOffsets` is the protocol as long as an inscription on an occupied offset is skipped: always on Dogecoin,
whose `JUBILEE_HEIGHT` is never reached. From that height on, which is 0 for Wojakcoin and most other coins, and on
Bellscoin mainnet at every height (`inscriptions/parser.rs:173-176`), the theorems hold as far as no two inscriptions of a
transaction share an offset, which the code no longer sees to; `overwrite` shows what happens to these properties when two do. `WithinCache` says that reorgs are at most `REORG_CACHE_MAX_LEN` deep, on a chain so long that
`tip - REORG_CACHE_MAX_LEN` does not wrap where they reach, that the node does not run away from a
fork that is not handled yet (`KeepsUp`), and that no reorg happens to a process that was killed. The cache
is sized for the first, `late` shows the need for the third, and the fourth is the divergence
described above (a killed process loses its savepoints and compares no hash when it starts). The
constants of `follow` satisfy it.

*Types and cap.* `TypeOK` is not inductive alone: the owner of a leaked transfer is read
from a row that must be there, and what a mint adds is a natural number only below the cap.
`TInv` adds `SupplyWithinMax` and `MovableKnown` (a transfer that can still be spent is in
`all_transfers`, and none can outside "parse"). One lemma per action; the minted amount is
bounded in `MintedBounds`, locking in `LockedRow`; the tests of the code keep balances from
going below zero.

*Spelling.* `SInv` adds to `TInv` that nothing is cached outside of a block's processing
(`CacheEmpty`), that a token row is stored under the name of its spelling and has the same
spelling in the cache and in the table (`TicksUnderName`), that a queued deploy finds its name absent
from the cache only if it is absent from the table (`NamesLoaded`), and that holdings, valid transfers and
transfer rows exist under deployed spellings only (`AllSpelled`, which implies `OneSpelling`).

*Holders.* `CInv` adds to `SInv` what a block must have loaded, and `HInv` that the index is the holdings as
one function (`Indexed`), so that `Holders::change` removing one entry and inserting one becomes a change of
the function at one point. An account that a mint or a move finds absent from the cache must hold nothing in the
database (`QueueCovered`), for the tick that the transfer will turn out to have when it
is processed: that is the one `all_transfers` remembers (`TransfersKnown`, where
`~OccupiedOffsets` is used). `BlockReadsThrough` follows from `CInv`.

*Sums.* `NothingFromNothing` compares a sum over all accounts with the supply. `SumProofs` shows
that a sum over a finite set changes by what changes at one point, so that each action is
followed at the one or two accounts it writes. The library's induction theorems take an operator,
which the provers cannot instantiate; `SetInduction` speaks of the set of numbers that have a property
instead and follows from the least-element principle. The same lemma shows that the recursive
function behind a sum, and the one that numbers a block's history, exist.

*Transfers.* `BInv` adds to `CInv` that the locked balance and the transfer count of an account are
the sum and the number of its pending transfers (`Backed`), that a row is never pending in the
cache and in the table at once (`SpentOnce`), that a queued transfer has a location of its own
(`QueuedFresh`), that a loaded transfer is still movable or its move is queued (`MovesQueued`), and that
the token and the sender of a valid transfer are cached (`SendersLoaded`). A move then finds
everything its `unwrap`s ask for, with enough locked; and every processed action is one step of
`Brc20` on what a reader of cache over tables sees, everything else a stutter.

*Rollback.* `restore` undoes balances and transfers but not the index, so the invariant of `ReorgProofs` is built
on `BInv` and the supply, without `Indexed`; that one is kept only until the first rollback
(`rolledBack`). Between blocks nothing is cached (`Quiet`) and the invariant of the ledger says that its
three tables fit together (`TablesOk`): every account is backed by its transfers, every row has a
deployed spelling. A savepoint undoes the writes of its block exactly: a row that the block wrote is
put back, or removed where there was none, which for a new transfer takes `SpentOnce`. Hence the savepoints
lead, one after the other, from the tables now through those that were there before each block
(`SavesLead`), and all of these fit together, so that the next block may be applied on any of them.

*Inscriptions.* `IInv` relates the rows, which are offsets computed from values, to the satoshis, which the code
cannot see. A satoshi is at one place (`Dated`, `Unique`: in one output, in the transaction at work, or
among the fees). At rest the rows are the places of exactly the inscribed satoshis (`Rested`). Within a
transaction (`Mid`) each position is inscribed exactly if its row has been moved by an input before, or
waits in one that is still to come; this is what one input keeps. `TargetIs` and `LeakIs` show that
`calc_offsets`, which forgets the last inputs as far as the fee reaches, and `get_output_index_by_input` find
the output, or the place in the fees, of the satoshi itself; `VoutIs` does it for the
coinbase, with `find_inscription_vout`. The offset of an occupied satoshi is then among the rows moved
before, so that the rule of the code sees it (`OccupiedOffsetsSkipped`).

*Event stream.* Over the types (`SType`) each property has an invariant of its own. `Threads`: the sender
ends only after the token was cancelled. `Following`: an entry in hand, in the queue or
collected has its block in the log already, and logs only grow. `Taking`: what a subscriber got is the filtered log up
to its position. `Rebuilt`: the blocks of the log that no later reorg takes away are the chain of the tables
from the first block after the start; undone blocks were announced after it (`Reach`). `Dense`: a savepoint holds
the entries of exactly its block and the last id before them, so undoing `n` blocks leaves the ids up to that one.

*Chain synchronisation.* A reorg is found by the parser thread against the node of one moment, waits in
the channel, and is undone by the indexer against the node of another. `ChainInv` therefore speaks of all
the chains that the tables will go through (`PlanInv`): there is a plan, with one chain for the tables
now and one after each queued event, where every chain is linked, has savepoints for all its blocks that have
left the best chain (`Stage`), and the last one is what the parser has sent. A step of the node may
orphan blocks of all of them at once; clearing the cache happens only where no reorg can reach
any more (`Settled`). `ParserInv` relates the checkpoints and a round of the parser to the chain it has sent: what it
popped is orphaned and within reach. The three invariants and the refinement follow from the
first chain of the plan and its step to the second.

*Writes of a block.* None of the four properties is inductive: what the tables may hold between two writes
depends on the writes still to come, and what a kill leaves depends on where it struck. `Inv` has three
parts. `Stage`: between two blocks the tables are at rest, exactly those of the chain (`Rest`), or
`Damaged`: they hold the rows of the chain, perhaps with a part of the next block, but that block spends an output
that is not in `prevouts` any more and so is never taken again; within a block there are tables at
rest and a series of writes of which the first `k` are done, and each table is what the last of these made of it
(`Holds`). `AtOk`: the savepoints are those of the last blocks of the chain, each with the rows
of the chain below it, and the node has every block below them. `NodeOk`: in a history with kills no
output is spent twice, so that what a damaged block misses stays missing. `CrashApply` and `CrashUndo` go through the writes:
`prevouts` is the first table a block writes, `last_block` comes after the rows, and a rollback does the reverse;
the mutants that move one of them leave tables that are neither.
The rows of a chain are a recursive function; that it exists, and depends on the blocks of its chain only, is
shown by `SetInduction`.

*Requests.* Between two reads of a request the indexer may undo blocks and apply others. `RInv` adds to the invariant of
`BlockWrite` what a request may rely on. A block has one height, on the node as in the process, and the same
blocks below it there (`OneHeight`, `SamePast`). The block of a proof or of a row of the history, as long as it is on
the node, is at the height it was read for, and `block_info` has no other block at that height (`Belongs`),
because a rollback removes `block_info` of every block it undoes (`InfoOk`): a joined row is of the same
block, however late it is read. A block that was found in `block_info` stays there, or does not come back before
the process stops (`Settled`), and with it every table has all rows up to it. Until the indexer begins a block the
row of `last_block` is there (`Unmoved`), so that a request that fails has met a block in flight.

Only model-checked:
* liveness and everything under fairness, which is outside the prover (`CatchesUp`, `StopsWhenTold`,
  `HistoryPublished`, `Exits`);
* what the algorithms on bytes and lists compute (`InscriptionsRead`, `IndexIsOneBranch`, `BlocksRead`, `RowsReadBack`,
  `PagesComplete`): recursion over scripts, files, trees of blocks and pages, of which nothing is known for every input
  without induction over data; `BlockFile` also needs the bitwise exclusive or of a library module that the
  prover cannot read.

## 5. What is not modelled

* The JSON of token actions, content types and decimals: a library's parser and comparisons on
  strings; `TokenLedger` begins with the decoded action.
* Addresses and the evaluation of output scripts: `Users` are whatever the code tells apart.
* The streamed listings, batches of single reads and the formatting of answers of the REST
  API; of the filters of a subscriber, the ticks (as the addresses).
* Rows written by `serde` (`UsingSerde`), RocksDB, LevelDB, HTTP, configuration, logging, progress bars.
* The parallel hashing of the transactions of a block (`into_par_iter` of a pure function, in order).
* A kill inside the first block that has tokens, and one between the writes of `block_info` and
  `proof_of_history`: both leave traces that the next start does not notice; `BlockWrite`
  leaves out the first by its initial states and the second by stating `ProofChained` for
  histories without kills.
* Coinbases that claim less than they may (`leaked.rs:57`), and spent outputs without value (`leaked.rs:109`),
  where the place of a leaked inscription is a matter of convention.
* `partials.inscription_index`, which is stored and never read (`inscriptions/parser.rs:140`): genesis ids are
  not in `Inscriptions`.
* A page whose offset was spent before the next one is asked for (`rest/address.rs:19`: another row is
  skipped in its place), a node that stores blocks before their parents (`parser/index.rs:217`
  panics) or has undo data without the block (line 144): the properties are stated for the other inputs.
* In `EventStream`, a reorg that comes with a block far below the tip: it is announced, and nothing is undone. `late` shows
  it in `ChainSync`.

## 6. Plan

Done: the modules of section 2, their runs, and theorems for every safety property of the stateful
modules that the runs check and that holds. Left, in the order of what it would say about the code:

1. `Inscriptions` composed with `TokenLedger`: locations and moves produced by transactions,
   so that `OccupiedOffsets` is derived and not assumed. `OccupiedOffsetsSkipped` is the half of it that is about
   tracking.
2. `BlockWrite` composed with `TokenReorg`: the rows of a block as token rows, so that `AppliesOnParent` and
   `RestoreUndoes` become one statement about kills.
3. The JSON of token actions as a conversion from fields to actions, with the decimals of a tick.
4. Proofs about the algorithms, once a decoder is written as a fold whose laws can be stated for one
   step.
