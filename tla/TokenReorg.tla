----------------------------- MODULE TokenReorg -----------------------------
(***************************************************************************)
(* TokenLedger with the reorg cache (reorg.rs, and the savepoints that     *)
(* inscriptions/process_data.rs pushes before it writes): blocks near the  *)
(* tip leave what is needed to undo their writes, a reorg undoes the last  *)
(* ones, and a restart loses the cache and rebuilds Holders from the       *)
(* database.                                                               *)
(***************************************************************************)
EXTENDS LedgerProperties

CONSTANT MaxLen   \* REORG_CACHE_MAX_LEN

ASSUME MaxLenAssumption == MaxLen \in Nat \ {0}

VARIABLES
  savepoints,   \* the token entries of ReorgCache.blocks, oldest block first
  before,       \* history: for each savepoint, the tables before its block
  rolledBack    \* history: a block has been undone since the process started

reorgVars == <<vars, savepoints, before, rolledBack>>

RInit == Init /\ savepoints = <<>> /\ before = <<>> /\ rolledBack = FALSE

----------------------------------------------------------------------------
(* What ProcessedData::Tokens pushes: the rows its writes replace, and the keys
   of the rows its writes add. *)

Bug_BalancesBefore(u, t) == OrDefault(balances[u][t])
BalancesBefore(u, t) == balances[u][t]

Bug_RestoredTransfer(l) == IF l \in movable THEN transfers[l] ELSE Nil
RestoredTransfer(l) == IF l \in loaded THEN transfers[l] ELSE Nil

Savepoint ==
  [deploysToRemove  |-> {n \in Names : tokens[n] # Nil /\ meta[n] = Nil},
   deploysToRestore |-> [n \in Names |-> IF tokens[n] # Nil THEN meta[n] ELSE Nil],
   balancesToRemove |-> {p \in Users \X Ticks :
                           accounts[p[1]][p[2]] # Nil /\ BalancesBefore(p[1], p[2]) = Nil},
   balancesBefore   |-> [u \in Users |-> [t \in Ticks |->
                           IF accounts[u][t] # Nil THEN BalancesBefore(u, t) ELSE Nil]],
   removeTransfers  |-> {l \in Locations : valid_transfers[l] # Nil},
   restoreTransfers |-> [l \in Locations |-> RestoredTransfer(l)]]

\* handle_reorgs: new_block makes room and the savepoint is pushed.
CommitTracked ==
  /\ CommitBlock
  /\ LET kept(s) == IF Len(s) = MaxLen THEN Tail(s) ELSE s
     IN  /\ savepoints' = Append(kept(savepoints), Savepoint)
         /\ before' = Append(kept(before), db)
  /\ UNCHANGED rolledBack

\* A block far below the tip: the cache is cleared and stays empty.
CommitUntracked ==
  /\ CommitBlock
  /\ savepoints' = <<>>
  /\ before' = <<>>
  /\ UNCHANGED rolledBack

\* One iteration of ReorgCache::restore. Holders is not told.
RestoreBlock ==
  /\ phase = "idle"
  /\ savepoints # <<>>
  /\ LET s == savepoints[Len(savepoints)]
     IN  /\ meta' = [n \in Names |->
              IF n \in s.deploysToRemove THEN Nil
              ELSE IF s.deploysToRestore[n] # Nil THEN s.deploysToRestore[n] ELSE meta[n]]
         /\ balances' = [u \in Users |-> [t \in Ticks |->
              IF s.balancesBefore[u][t] # Nil THEN s.balancesBefore[u][t]
              ELSE IF <<u, t>> \in s.balancesToRemove THEN Nil ELSE balances[u][t]]]
         /\ transfers' = [l \in Locations |->
              IF s.restoreTransfers[l] # Nil THEN s.restoreTransfers[l]
              ELSE IF l \in s.removeTransfers THEN Nil ELSE transfers[l]]
  /\ savepoints' = SubSeq(savepoints, 1, Len(savepoints) - 1)
  /\ before' = SubSeq(before, 1, Len(before) - 1)
  /\ rolledBack' = TRUE
  /\ UNCHANGED <<holders, cache, loaded, movable, phase, blocks>>

Bug_HoldersOf(rows, t) ==
  {<<rows[u][t].balance, u>> : u \in {v \in Users : rows[v][t] # Nil /\ rows[v][t].balance # 0}}
\* Holders::init
HoldersOf(rows, t) ==
  {<<Total(rows[u][t]), u>> : u \in {v \in Users : rows[v][t] # Nil /\ Total(rows[v][t]) # 0}}

\* The process stops, wherever it is, and starts again on the same database. (An
\* orderly stop restores every savepoint first.)
Restart ==
  /\ phase # "idle" \/ savepoints # <<>> \/ rolledBack
  /\ holders' = [t \in Ticks |-> [sorted |-> HoldersOf(balances, t),
                                  stats  |-> Cardinality(HoldersOf(balances, t))]]
  /\ tokens' = NoRows(Names)
  /\ accounts' = NoAccounts
  /\ queue' = <<>>
  /\ all_transfers' = NoRows(Locations)
  /\ valid_transfers' = NoRows(Locations)
  /\ loaded' = {}
  /\ movable' = {}
  /\ phase' = "idle"
  /\ savepoints' = <<>>
  /\ before' = <<>>
  /\ rolledBack' = FALSE
  /\ UNCHANGED <<db, blocks>>

RNext ==
  \/ (Parse \/ Process \/ Terminated) /\ UNCHANGED <<savepoints, before, rolledBack>>
  \/ CommitTracked
  \/ CommitUntracked
  \/ RestoreBlock
  \/ Restart

RSpec == RInit /\ [][RNext]_reorgVars

----------------------------------------------------------------------------
(* ReorgCache::restore takes the token tables back to exactly what they were
   before the undone block, absent rows included, whatever blocks were applied,
   undone and applied again before. *)
RestoreUndoes ==
  [][RestoreBlock => db' = before[Len(before)]]_reorgVars

(* Between a start of the process and its first rollback the Holders index is
   the database's: Holders::init and Holders::change agree, also after a rollback
   and a restart. *)
HoldersExactUntilRollback == ~rolledBack => HoldersExact

(* Rollbacks, new blocks on the restored tables and restarts keep every account's
   locked balance equal to its valid transfers, and the holdings within the supply. *)
LedgerConsistent == TransfersBacked /\ NothingFromNothing
============================================================================
