----------------------------- MODULE EventStream -----------------------------
(***************************************************************************)
(* What a subscriber is told: the history entries of the blocks and their  *)
(* ids (InscriptionIndexer::handle), the two channels they go through      *)
(* (src/server/mod.rs), the thread that publishes them                     *)
(* (src/server/threads/event_sender.rs), a subscriber                      *)
(* (rest/history.rs, subscribe), and the end of the process (src/main.rs). *)
(*                                                                         *)
(* A block is a number in the order of handling.  The tables of history    *)
(* are written at once here (BlockWrite has their single writes), and an   *)
(* entry is kept without its amounts.                                      *)
(***************************************************************************)
EXTENDS Integers, Sequences, FiniteSets, SequencesExt

CONSTANTS
  Users,        \* the addresses
  Actions,      \* the token actions: a move has a sender and a recipient, everything
                \* else is one address's own (a move to oneself is a SendReceive)
  StartHeight,  \* START_HEIGHT
  MaxLen,       \* REORG_CACHE_MAX_LEN
  Capacity,     \* of the broadcast channel (30_000)
  Filters,      \* the `addresses' that a subscriber may ask for; {} asks for all
  MaxActions,   \* bound: token actions of a block
  MaxId,        \* bound: ids in the tables
  MaxBlocks,    \* bound: blocks handled
  MaxFrom,      \* bound: a subscriber comes before the log is longer
  MaxStarts     \* bound: starts of the process

ASSUME StreamAssumption ==
  /\ Actions \subseteq [from : Users, to : Users]
  /\ StartHeight \in Nat \ {0} /\ MaxLen \in Nat \ {0}
  /\ Capacity \in Nat \ {0}
  /\ Filters \subseteq SUBSET Users
  /\ MaxActions \in Nat /\ MaxBlocks \in Nat /\ MaxId \in Nat /\ MaxFrom \in Nat /\ MaxStarts \in Nat

VARIABLES
  \* the indexer
  ipc,         \* "idle", "hand", "stopped", "join", "exit", "panic"
  chain,       \* the blocks the tables are the result of
  rows,        \* address_token_to_history
  lastId,      \* last_history_id
  savepoints,  \* ReorgCache.blocks: what RemoveHistory keeps
  hand,        \* to_write.history
  handled,     \* blocks handled so far
  \* the channels
  queue,       \* raw_event_sender: one batch per block, unbounded
  log,         \* event_sender: everything this process has broadcast
  \* the event sender thread
  spc,         \* "collect", "check", "publish", "done"
  batch,       \* events
  \* a subscriber
  subscribed,
  wants,       \* addresses
  from, pos,   \* the part of the log its receiver has taken
  got,         \* what was sent to it, as positions of the log
  \* the process
  cancelled, starts,
  base         \* history: the length of `chain' when the process started

indexerVars == <<ipc, chain, rows, lastId, savepoints, hand, handled>>
senderVars == <<spc, batch>>
clientVars == <<subscribed, wants, from, pos, got>>
processVars == <<cancelled, starts, base>>
vars == <<indexerVars, queue, log, senderVars, clientVars, processVars>>

NewBlock(b, h) == [type |-> "block", block |-> b, height |-> h]
Reorg(n, h) == [type |-> "reorg", count |-> n, height |-> h]
NewHistory(r) == [type |-> "history", row |-> r]

Init ==
  /\ ipc = "idle" /\ chain = <<>> /\ rows = {} /\ lastId = 0
  /\ savepoints = <<>> /\ hand = <<>> /\ handled = 0
  /\ queue = <<>> /\ log = <<>>
  /\ spc = "collect" /\ batch = <<>>
  /\ subscribed = FALSE /\ wants = {} /\ from = 0 /\ pos = 0 /\ got = <<>>
  /\ cancelled = FALSE /\ starts = 1 /\ base = 0

\* A subscriber is forgotten when it is gone.
Gone == subscribed' = FALSE /\ wants' = {} /\ from' = 0 /\ pos' = 0 /\ got' = <<>>

----------------------------------------------------------------------------
(* The indexer. *)

\* The recipient takes the next id, and a sender the one after it; the sender's
\* entry is put first.
EntriesOf(a, id, b, h) ==
  LET entry(u, i) == [id |-> i, user |-> u, block |-> b, height |-> h]
  IN  IF a.from = a.to THEN <<entry(a.to, id + 1)>>
      ELSE <<entry(a.from, id + 2), entry(a.to, id + 1)>>

History(acts, id, b, h) ==
  LET done[k \in 0..Len(acts)] ==
        IF k = 0 THEN <<>>
        ELSE LET before == done[k - 1]
             IN  before \o EntriesOf(acts[k], id + Len(before), b, h)
  IN  done[Len(acts)]

\* ReorgCache::restore of the last n blocks.
Kept(n) == SubSeq(savepoints, 1, Len(savepoints) - n)
Undone(n) == SubSeq(savepoints, Len(savepoints) - n + 1, Len(savepoints))
RowsAfter(n) == rows \ UNION {s.remove : s \in Range(Undone(n))}
IdAfter(n) == IF n = 0 THEN lastId ELSE Undone(n)[1].lastId

\* last_history_id as it was before the block.
Bug_KeptId(id, entries) == id + Len(entries)
KeptId(id, entries) == id

Room(saved) == IF Len(saved) = MaxLen THEN Tail(saved) ELSE saved

\* A reorg is announced with the height of the block about to be handled.
Bug_ReorgEvent(n, h) == IF n = 0 THEN <<>> ELSE <<Reorg(n, h - 1)>>
ReorgEvent(n, h) == IF n = 0 THEN <<>> ELSE <<Reorg(n, h)>>

\* Every block from START_HEIGHT on is announced, whether it has a history or not.
Bug_BlockEvent(b, h) == IF h > StartHeight THEN <<NewBlock(b, h)>> ELSE <<>>
BlockEvent(b, h) == IF h >= StartHeight THEN <<NewBlock(b, h)>> ELSE <<>>

\* The cache behind a block, with handle_reorgs and without: a block far below the tip gets
\* no savepoint, and those of the blocks before it are forgotten.
Saved(tracked, kept, savepoint) == IF tracked THEN Append(Room(kept), savepoint) ELSE <<>>

\* One turn of the loop: a reorg is undone, the block reaches the tables, and then it
\* is announced. Before START_HEIGHT, and with a coinbase alone, there is no history.
\* (A reorg that comes with a block far below the tip undoes nothing: ChainSync has it.)
Handle ==
  /\ ipc = "idle" /\ ~cancelled
  /\ handled < MaxBlocks
  /\ \E n \in 0..Len(savepoints), tracked \in BOOLEAN :
       LET b == handled + 1
           h == Len(chain) - n + 1
           id == IdAfter(n)
       IN  \E acts \in IF h < StartHeight THEN {<<>>} ELSE SeqOf(Actions, MaxActions) :
             LET entries == History(acts, id, b, h)
             IN  /\ ~tracked => n = 0
                 /\ id + Len(entries) <= MaxId
                 /\ rows' = RowsAfter(n) \cup Range(entries)
                 /\ lastId' = id + Len(entries)
                 /\ savepoints' = Saved(tracked, Kept(n), [lastId |-> KeptId(id, entries),
                                                           remove |-> Range(entries)])
                 /\ chain' = Append(SubSeq(chain, 1, Len(chain) - n), b)
                 /\ log' = log \o ReorgEvent(n, h) \o BlockEvent(b, h)
                 /\ hand' = entries
                 /\ handled' = b
  /\ ipc' = "hand"
  /\ UNCHANGED <<queue, senderVars, clientVars, processVars>>

\* The block's history goes to the event sender. Its end is closed when that thread is
\* gone: an error that is only legitimate when the process is stopping.
HandOver ==
  /\ ipc = "hand"
  /\ IF spc # "done"
     THEN queue' = Append(queue, hand) /\ ipc' = "idle"
     ELSE /\ ipc' = IF cancelled THEN "idle" ELSE "panic"
          /\ UNCHANGED queue
  /\ hand' = <<>>
  /\ UNCHANGED <<chain, rows, lastId, savepoints, handled, log, senderVars, clientVars,
                 processVars>>

\* The loop ends, because of the token or because the parser thread is gone, and
\* restore_all undoes what has a savepoint, without an event.
Stop ==
  /\ ipc = "idle"
  /\ LET n == Len(savepoints)
     IN  /\ chain' = SubSeq(chain, 1, Len(chain) - n)
         /\ rows' = RowsAfter(n)
         /\ lastId' = IdAfter(n)
         /\ savepoints' = <<>>
  /\ ipc' = "stopped"
  /\ UNCHANGED <<hand, handled, queue, log, senderVars, clientVars, processVars>>

Signal ==
  /\ ipc # "exit" /\ ~cancelled
  /\ cancelled' = TRUE
  /\ UNCHANGED <<indexerVars, queue, log, senderVars, clientVars, starts, base>>

CancelToken ==
  /\ ipc = "stopped"
  /\ cancelled' = TRUE
  /\ ipc' = "join"
  /\ UNCHANGED <<chain, rows, lastId, savepoints, hand, handled, queue, log, senderVars,
                 clientVars, starts, base>>

\* event_sender.join(), and main returns: the runtime of the REST API goes with it.
Exit ==
  /\ ipc = "join" /\ spc = "done"
  /\ ipc' = "exit"
  /\ Gone
  /\ UNCHANGED <<chain, rows, lastId, savepoints, hand, handled, queue, log, senderVars,
                 processVars>>

Restart ==
  /\ ipc = "exit" /\ starts < MaxStarts
  /\ ipc' = "idle" /\ spc' = "collect" /\ cancelled' = FALSE
  /\ queue' = <<>> /\ log' = <<>> /\ batch' = <<>>
  /\ starts' = starts + 1 /\ base' = Len(chain)
  /\ UNCHANGED <<chain, rows, lastId, savepoints, hand, handled, clientVars>>

----------------------------------------------------------------------------
(* The event sender thread: it collects until the queue is empty, and publishes. *)

SenderOnly == UNCHANGED <<indexerVars, clientVars, processVars>>

Bug_Collected(v) == v
Collected(v) == batch \o v

Receive ==
  /\ spc = "collect" /\ queue # <<>>
  /\ batch' = Collected(Head(queue))
  /\ queue' = Tail(queue)
  /\ UNCHANGED <<spc, log>> /\ SenderOnly

\* try_recv finds nothing: what was collected is published, or the token is looked at.
Empty ==
  /\ spc = "collect" /\ queue = <<>>
  /\ spc' = IF batch = <<>> THEN "check" ELSE "publish"
  /\ UNCHANGED <<batch, queue, log>> /\ SenderOnly

\* The token decides; a batch may have come in the meantime.
Bug_Finished == TRUE
Bug_Never == cancelled /\ ipc = "exit"
Finished == cancelled

Check ==
  /\ spc = "check"
  /\ spc' = IF Finished THEN "done" ELSE "collect"
  /\ UNCHANGED <<batch, queue, log>> /\ SenderOnly

Publish ==
  /\ spc = "publish"
  /\ IF batch = <<>>
     THEN spc' = "collect" /\ UNCHANGED <<batch, log>>
     ELSE /\ log' = Append(log, NewHistory(Head(batch)))
          /\ batch' = Tail(batch)
          /\ UNCHANGED spc
  /\ UNCHANGED queue /\ SenderOnly

----------------------------------------------------------------------------
(* A subscriber of POST /events; when one is gone, another may come. *)

ClientOnly == UNCHANGED <<indexerVars, queue, log, senderVars, processVars>>

\* It hears of every block and every reorg, and of the entries of its addresses.
Passes(e) == e.type = "history" => wants = {} \/ e.row.user \in wants

Subscribe ==
  /\ ~subscribed /\ ipc # "exit" /\ Len(log) <= MaxFrom
  /\ subscribed' = TRUE
  /\ wants' \in Filters
  /\ from' = Len(log) /\ pos' = Len(log)
  /\ got' = <<>>
  /\ ClientOnly

\* The receiver has been overtaken by more than the channel holds.
Behind == Len(log) - pos > Capacity

\* The next event goes into the subscriber's own channel. While that is full the task
\* waits: a subscriber that does not read is one that takes nothing.
Take ==
  /\ subscribed /\ ~cancelled
  /\ pos < Len(log) /\ ~Behind
  /\ pos' = pos + 1
  /\ got' = IF Passes(log[pos + 1]) THEN Append(got, pos + 1) ELSE got
  /\ UNCHANGED <<subscribed, wants, from>> /\ ClientOnly

\* Lagged: the channel has moved the receiver to the oldest event it holds, and the
\* subscriber is disconnected.
Bug_Overtaken == pos' = Len(log) - Capacity /\ UNCHANGED <<subscribed, wants, from, got>>
Overtaken == Gone

Lagged == subscribed /\ ~cancelled /\ Behind /\ Overtaken /\ ClientOnly

\* The connection is closed, or the task sees the token.
Leave == subscribed /\ Gone /\ ClientOnly

----------------------------------------------------------------------------
Terminated == ipc = "exit" /\ starts = MaxStarts /\ UNCHANGED vars

Sender == Receive \/ Empty \/ Check \/ Publish
Client == Subscribe \/ Take \/ Lagged \/ Leave

Next ==
  \/ Handle \/ HandOver
  \/ Stop \/ Signal \/ CancelToken \/ Exit \/ Restart
  \/ Sender \/ Client
  \/ Terminated

Spec == Init /\ [][Next]_vars

\* Both threads run; the loop of the indexer looks at the token between blocks.
Fairness ==
  /\ WF_vars(HandOver) /\ WF_vars(cancelled /\ Stop) /\ WF_vars(CancelToken)
  /\ WF_vars(Exit) /\ WF_vars(Sender)

FairSpec == Spec /\ Fairness

----------------------------------------------------------------------------
(* Through reorgs, stops and restarts the ids of the entries in the tables are the
   numbers from 1 to last_history_id, in the order of their blocks: an id that was
   given back is given out again, none is skipped and none is used twice.  Proofs of
   history of two indexers are comparable only because of this. *)
HistoryDense ==
  /\ Cardinality(rows) = lastId
  /\ {r.id : r \in rows} = 1..lastId
  /\ \A r, s \in rows : r.height < s.height => r.id < s.id

(* A subscriber hears of a block before it hears of what happened in it, although two
   threads send the two. *)
HistoryFollowsBlock ==
  \A i \in DOMAIN log : log[i].type = "history" =>
    \E j \in 1..i - 1 :
      log[j] = NewBlock(log[i].row.block, log[i].row.height)

\* What a subscriber can make of the blocks and reorgs of a log: the blocks that it was
\* told of and that no later reorg took away.
Stands(events, i) ==
  /\ events[i].type = "block"
  /\ \A j \in i + 1..Len(events) : events[j].type = "reorg" => events[i].height < events[j].height

BlocksTold(events) ==
  {<<events[i].height, events[i].block>> : i \in {j \in DOMAIN events : Stands(events, j)}}

(* A subscriber that forgets the blocks from new_height on when it is told of a reorg
   knows the chain of the tables, block by block, until the process stops: what
   restore_all undoes is not announced. *)
BlocksReconstructed ==
  ipc \in {"idle", "hand"} =>
    BlocksTold(log) = {<<h, chain[h]>> : h \in {x \in base + 1..Len(chain) : x >= StartHeight}}

(* Whatever the speed of the publisher and of the subscriber, what a subscriber gets
   is every event of its filter between its first and its last one, in order: one
   that falls behind is disconnected, never left with a gap. *)
NoGaps ==
  /\ Range(got) = {i \in from + 1..pos : Passes(log[i])}
  /\ \A i, j \in DOMAIN got : i < j => got[i] < got[j]

(* The indexer never meets a closed channel while the process is not being stopped
   ("Failed to send raw event"): the event sender thread ends after the token only. *)
NoSendPanic == ipc # "panic"

(* The entries of every block that stays are published, however many blocks come while
   the thread publishes, unless the process is stopped: what the tables have of this
   process's blocks is in the log in the end. *)
HistoryPublished ==
  []<>(cancelled \/ \A r \in rows : r.height > base => NewHistory(r) \in Range(log))

(* A signal, or a parser thread that is gone, ends the process: the indexer finishes
   its block, the event sender sees the token, and main has nobody left to wait for. *)
Exits == (cancelled \/ ipc = "stopped") ~> ipc = "exit"
============================================================================
