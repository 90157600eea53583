------------------------------- MODULE Readers -------------------------------
(***************************************************************************)
(* A request of the REST API read table by table while the indexer writes  *)
(* or undoes a block: status (rest/info.rs), the proof of a transfer       *)
(* (rest/tokens.rs) and the history of an address (rest/history.rs,        *)
(* rest/types.rs).  Each read of RocksDB is a step; a range reads the      *)
(* snapshot its iterator was opened on.  The writes are those of           *)
(* BlockWrite.                                                             *)
(***************************************************************************)
EXTENDS BlockWrite

VARIABLES
  query,   \* "none", "status", "proof", "history"
  step,    \* the next read, or "done", "failed"
  seen,    \* what was read
  moved,   \* history: the indexer has been inside a block since the first read
  past     \* history: every block that was ever applied

readerVars == <<query, step, seen>>
readVars == <<vars, readerVars, moved, past>>

Nothing == [height |-> 0, best |-> 0, block |-> 0, proof |-> <<>>, rows |-> <<>>]

\* Kills are left to BlockWrite.
ReadInit ==
  /\ Init
  /\ trouble = "reorg"
  /\ query = "none" /\ step = "open" /\ seen = Nothing
  /\ moved = FALSE
  /\ past = {}

----------------------------------------------------------------------------
\* The position of an applied block, or of the one that is being undone.
HeightOf(b) == IF b \in ToSet(at) THEN CHOOSE h \in DOMAIN at : at[h] = b ELSE Len(at) + 1

\* Requests come while the process runs and something is indexed.
Open(q) ==
  /\ step = "open" /\ mode # "down" /\ db.last_block # 0
  /\ query' = q
  /\ moved' = (todo # <<>>)

Reads(q, s) == query = q /\ step = s /\ mode # "down" /\ UNCHANGED <<query, moved>>

\* A row that is not there is an error or a panic of the request.
Go(there, next) == step' = IF there THEN next ELSE "failed"

StatusHeight ==
  /\ Open("status")
  /\ seen' = [Nothing EXCEPT !.height = db.last_block]
  /\ step' = "proof_of_history"

Bug_ProofHeight == db.last_block
ProofHeight == seen.height

StatusProof ==
  /\ Reads("status", "proof_of_history")
  /\ seen' = [seen EXCEPT !.proof = db.proof_of_history[ProofHeight]]
  /\ Go(db.proof_of_history[ProofHeight] # <<>>, "block_info")

StatusBlock ==
  /\ Reads("status", "block_info")
  /\ seen' = [seen EXCEPT !.block = db.block_info[seen.height]]
  /\ Go(db.block_info[seen.height] # Missing, "done")

\* get_best_block_hash, first or once more
ProofBest ==
  /\ Open("proof") \/ Reads("proof", "best")
  /\ seen' = [seen EXCEPT !.best = Last(node)]
  /\ step' = "last_block"

ProofHeightRead ==
  /\ Reads("proof", "last_block")
  /\ seen' = [seen EXCEPT !.height = db.last_block]
  /\ Go(db.last_block # 0, "compare")

\* best_block_hash == last_block_hash
Bug_Synced(b) == seen.height = Len(node)
Synced(b) == b = seen.best

ProofCompare ==
  /\ Reads("proof", "compare")
  /\ LET b == db.block_info[seen.height]
     IN  /\ seen' = [seen EXCEPT !.block = b]
         /\ Go(b # Missing, IF Synced(b) THEN "transfers" ELSE "best")

ProofTransfers ==
  /\ Reads("proof", "transfers")
  /\ seen' = [seen EXCEPT !.rows = db.address_location_to_transfer]
  /\ step' = "done"

\* 503 after five seconds
ProofGivesUp ==
  /\ Reads("proof", "best")
  /\ step' = "unavailable"
  /\ UNCHANGED seen

\* The rows of an address, and then the time of the block of a row.
HistoryRows ==
  /\ Open("history")
  /\ \E b \in ToSet(db.address_token_to_history) :
       seen' = [Nothing EXCEPT !.rows = <<b>>, !.height = HeightOf(b)]
  /\ step' = "created"

HistoryCreated ==
  /\ Reads("history", "created")
  /\ seen' = [seen EXCEPT !.block = db.block_info[seen.height]]
  /\ Go(db.block_info[seen.height] # Missing, "done")

NoRequest == query' = "none" /\ step' = "open" /\ seen' = Nothing /\ moved' = FALSE

\* The answer is sent, and judged as it is; another request may come.
Ended == step \in {"done", "failed", "unavailable"}
Answer == Ended /\ NoRequest

Read ==
  /\ \/ StatusHeight \/ StatusProof \/ StatusBlock
     \/ ProofBest \/ ProofHeightRead \/ ProofCompare \/ ProofTransfers \/ ProofGivesUp
     \/ HistoryRows \/ HistoryCreated
     \/ Answer
  /\ UNCHANGED <<vars, past>>

\* A request ends with the process.
ReadNext ==
  \/ /\ Next /\ ~Ended
     /\ past' = past \cup ToSet(at')
     /\ \/ mode' = "down" /\ NoRequest
        \/ /\ mode' # "down"
           /\ moved' = (moved \/ (query # "none" /\ at' # at))
           /\ UNCHANGED readerVars
  \/ Read

ReadSpec == ReadInit /\ [][ReadNext]_readVars

----------------------------------------------------------------------------
(* An answer that joins rows of two tables joins those of one block, although the
   indexer writes between the two reads: the proof of a status is that of its block,
   the time of a history entry that of its block. Only what was read of a block that
   has left the best chain can be joined to another block: the proofs of undone
   blocks stay in the table. *)
AnswersOneBlock ==
  /\ query = "status" /\ step = "done" =>
       Last(seen.proof) = seen.block \/ Last(seen.proof) \notin ToSet(node)
  /\ query = "history" /\ step = "done" =>
       seen.rows[1] = seen.block \/ seen.rows[1] \notin ToSet(node)

(* "Verifies a transfer": the answer to a proof is read from tables that hold every
   block up to the one that the node called its best, and that block was applied: a
   transfer that its owner has spent, or that only an orphan had, is not proved
   unless the block was undone while the request ran. *)
ProofCurrent ==
  query = "proof" /\ step = "done" =>
    /\ seen.best \in past
    /\ seen.best \in ToSet(at) =>
         IsPrefix(RowsOf(SubSeq(at, 1, HeightOf(seen.best))), seen.rows)

(* A request that fails for a missing row would not fail a second time: it fails only
   if the indexer was between two writes of a block, or went on to another block or
   back from one, while the request ran. *)
FailsOnlyInFlight ==
  step = "failed" => moved
============================================================================
