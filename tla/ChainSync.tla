----------------------------- MODULE ChainSync -----------------------------
(***************************************************************************)
(* How the database follows the node's chain: the parser thread            *)
(* (new-blk-parser/src/lib.rs), the bounded channel, the indexer loop      *)
(* (src/inscriptions/mod.rs) with the reorg cache (src/reorg.rs), and the  *)
(* process being stopped, killed and started again (src/main.rs,           *)
(* src/server/mod.rs).  The node is the environment.                       *)
(*                                                                         *)
(* A block is a number in the order of mining, 0 is genesis.  Applying a   *)
(* block and undoing it are atomic here, and of the tables only the        *)
(* identity of the blocks they are the result of is kept.                  *)
(***************************************************************************)
EXTENDS Integers, Sequences

CONSTANTS
  MaxLen,      \* REORG_CACHE_MAX_LEN, which is also reorg_max_len
  Capacity,    \* BOUNDED_CHANNEL_SIZE
  InitLen,     \* length of the node's chain when the indexer first starts
  ReorgDepth,  \* the deepest reorg of the node
  KeepsUp,     \* TRUE: the node never gets far past a fork the tables do not know of
  Troubles,    \* what may happen in one history: sets of "reorg", "signal", "rpc", "kill"
  MaxBlocks,   \* bound: blocks the node ever has
  MaxFaults,   \* bound: faults
  MaxStarts    \* bound: starts of the process

ASSUME ChainAssumption ==
  /\ MaxLen \in Nat \ {0}
  /\ Capacity \in Nat \ {0}
  /\ InitLen \in Nat /\ InitLen > MaxLen   \* tip - MaxLen does not wrap
  /\ ReorgDepth \in Nat
  /\ KeepsUp \in BOOLEAN
  /\ Troubles \subseteq SUBSET {"reorg", "signal", "rpc", "kill"}
  /\ MaxBlocks \in Nat /\ MaxFaults \in Nat /\ MaxStarts \in Nat

VARIABLES
  \* the node
  prev,         \* prev[b]: the parent of block b
  node,         \* the best chain: node[h] is its block at height h
  trouble,      \* what may happen in this history
  \* the parser thread
  ppc,          \* "files", "poll", "pop", "fetch", "send", or "dead"
  cp,           \* the CheckPoint list: ids[1] is at height base
  lastHash,     \* last_hash
  counter,      \* reorg_counter
  best,         \* the height of best_hash
  next,         \* the block about to be sent
  files,        \* the blocks of the block files that are not sent yet
  \* the bounded channel
  chan,
  \* the indexer loop and the database
  running,
  prevHeight,   \* prev_height, 0 when None
  savepoints,   \* the heights of ReorgCache.blocks
  applied,      \* the blocks the tables are the result of, in order
  dbHeight,     \* last_block
  cancelled,    \* the server's token
  \* bounds and history
  faults, starts,
  sent          \* history: the chain the tables hold once the channel is drained

nodeVars == <<prev, node, trouble>>
parserVars == <<ppc, cp, lastHash, counter, best, next, files>>
indexerVars == <<running, prevHeight, savepoints, applied, dbHeight>>
vars == <<nodeVars, parserVars, chan, indexerVars, cancelled, faults, starts, sent>>

Genesis == 0
Tip(c) == IF c = <<>> THEN Genesis ELSE c[Len(c)]
FirstBlocks(c, n) == SubSeq(c, 1, IF n < Len(c) THEN n ELSE Len(c))
NodeAt(h) == IF h = 0 THEN Genesis ELSE node[h]
OnBestChain(b) == b = Genesis \/ \E h \in DOMAIN node : node[h] = b
CpHash == cp.ids[Len(cp.ids)]
CpHeight == cp.base + Len(cp.ids) - 1

ForkHeight(c, d) ==
  CHOOSE h \in 0..Len(c) :
    /\ h <= Len(d) /\ SubSeq(c, 1, h) = SubSeq(d, 1, h)
    /\ h < Len(c) /\ h < Len(d) => c[h + 1] # d[h + 1]

Init ==
  /\ prev = [b \in 1..InitLen |-> b - 1]
  /\ node = [h \in 1..InitLen |-> h]
  /\ trouble \in Troubles
  /\ ppc = "dead"
  /\ cp = [base |-> 0, ids |-> <<Genesis>>]
  /\ lastHash = Genesis /\ counter = 0 /\ best = 0 /\ next = Genesis /\ files = <<>>
  /\ chan = <<>>
  /\ running = FALSE
  /\ prevHeight = 0 /\ savepoints = <<>> /\ applied = <<>> /\ dbHeight = 0
  /\ cancelled = FALSE
  /\ faults = 0 /\ starts = 0
  /\ sent = <<>>

----------------------------------------------------------------------------
(* The node. *)

\* The chain that the tables hold, or that the parser has already read for them.
Taken == IF ppc = "send" THEN Append(FirstBlocks(sent, CpHeight), next) ELSE sent \o files

\* KeepsUp: while that chain has a block that is off the best chain, the best chain
\* is at most MaxLen blocks past the fork.
WithinReach(chain) ==
  LET fork == ForkHeight(Taken, chain)
  IN  KeepsUp => fork = Len(Taken) \/ Len(chain) <= fork + MaxLen

NewBranch(fork, added) ==
  LET new == [i \in 1..added |-> Len(prev) + i]
  IN  /\ Len(prev) + added <= MaxBlocks
      /\ node' = SubSeq(node, 1, fork) \o new
      /\ prev' = prev \o [i \in 1..added |-> IF i = 1 THEN NodeAt(fork) ELSE new[i - 1]]
      /\ WithinReach(node')
      /\ UNCHANGED <<trouble, parserVars, chan, indexerVars, cancelled, faults, starts, sent>>

Mine == NewBranch(Len(node), 1)

\* A branch that is one block longer takes over.
NodeReorg ==
  /\ "reorg" \in trouble
  /\ \E depth \in 1..ReorgDepth : depth < Len(node) /\ NewBranch(Len(node) - depth, depth + 1)

----------------------------------------------------------------------------
(* The parser thread: Indexer::parse_blocks. *)

InParser == UNCHANGED <<nodeVars, indexerVars, starts>>
Dies == ppc' = "dead" /\ UNCHANGED <<cp, lastHash, counter, best, next, files, chan, sent>>
Fault(kind) == kind \in trouble /\ faults < MaxFaults /\ faults' = faults + 1
NoFault == UNCHANGED <<cancelled, faults>>

\* check_ordering: a block that does not continue what was sent is a panic.
InOrder(b) == lastHash = prev[b]

\* Sender::send waits for room.
Send(b, height, tip) ==
  /\ Len(chan) < Capacity
  /\ chan' = Append(chan, [block |-> b, height |-> height, reorgLen |-> counter, tip |-> tip])
  /\ lastHash' = b
  /\ sent' = Append(FirstBlocks(sent, height - 1), b)

\* The block files; cp already stands at their end.
SendFromFiles ==
  /\ ppc = "files" /\ files # <<>> /\ ~cancelled
  /\ IF InOrder(Head(files))
     THEN /\ Send(Head(files), CpHeight - Len(files) + 1, CpHeight)
          /\ files' = Tail(files)
          /\ UNCHANGED <<ppc, cp, counter, best, next>>
     ELSE Dies
  /\ NoFault /\ InParser

FilesDone ==
  /\ ppc = "files" /\ files = <<>> /\ ~cancelled
  /\ ppc' = "poll"
  /\ UNCHANGED <<cp, lastHash, counter, best, next, files, chan, sent>>
  /\ NoFault /\ InParser

\* get_best_block_hash names a block that is not the checkpoint's.
Poll ==
  /\ ppc = "poll" /\ ~cancelled
  /\ Tip(node) # CpHash
  /\ counter' = 0
  /\ best' = Len(node)
  /\ ppc' = "pop"
  /\ UNCHANGED <<cp, lastHash, next, files, chan, sent>>
  /\ NoFault /\ InParser

Sleep == ppc = "poll" /\ ~cancelled /\ Tip(node) = CpHash /\ UNCHANGED vars

\* One step back: prev().unwrap() of the first checkpoint is a panic.
PopCheckpoint ==
  /\ ppc = "pop" /\ counter <= MaxLen
  /\ counter' = counter + 1
  /\ IF Len(cp.ids) = 1
     THEN ppc' = "dead" /\ UNCHANGED <<cp, lastHash>>
     ELSE /\ cp' = [cp EXCEPT !.ids = SubSeq(@, 1, Len(@) - 1)]
          /\ lastHash' = cp.ids[Len(cp.ids) - 1]
          /\ UNCHANGED ppc
  /\ UNCHANGED <<best, next, files, chan, sent>>

\* The checkpoint has negative confirmations.
PopOrphan == ~OnBestChain(CpHash) /\ PopCheckpoint /\ NoFault /\ InParser

\* get_block_info gives up: the client cancels the token, and the error is taken
\* for an orphan.
PopOnError == PopCheckpoint /\ Fault("rpc") /\ cancelled' = TRUE /\ InParser

\* panic!("Reorg chain is too long")
TooLong == ppc = "pop" /\ counter > MaxLen /\ Dies /\ NoFault /\ InParser

ForkFound ==
  /\ ppc = "pop" /\ counter <= MaxLen
  /\ OnBestChain(CpHash)
  /\ ppc' = "fetch"
  /\ UNCHANGED <<cp, lastHash, counter, best, next, files, chan, sent>>
  /\ NoFault /\ InParser

\* The guard against a reorg in the middle of the loop.
Continues(b) == prev[b] = CpHash

Bug_Behind == CpHeight + 1 < best
Behind == CpHeight < best

\* get_block_hash and get_block of the next height; another branch ends the round
\* and forgets reorg_counter.
Fetch ==
  /\ ppc = "fetch" /\ Behind
  /\ IF Continues(node[CpHeight + 1])
     THEN ppc' = "send" /\ next' = node[CpHeight + 1]
     ELSE ppc' = "poll" /\ UNCHANGED next
  /\ UNCHANGED <<cp, lastHash, counter, best, files, chan, sent>>
  /\ NoFault /\ InParser

SendNext ==
  /\ ppc = "send"
  /\ IF InOrder(next)
     THEN /\ Send(next, CpHeight + 1, best)
          /\ cp' = [cp EXCEPT !.ids = Append(@, next)]
          /\ counter' = 0
          /\ ppc' = "fetch"
          /\ UNCHANGED <<best, next, files>>
     ELSE Dies
  /\ NoFault /\ InParser

RoundDone ==
  /\ ppc = "fetch" /\ ~Behind
  /\ ppc' = "poll"
  /\ UNCHANGED <<cp, lastHash, counter, best, next, files, chan, sent>>
  /\ NoFault /\ InParser

\* A call whose result is unwrapped gives up.
RpcPanic ==
  /\ ppc \in {"poll", "fetch"} /\ Dies
  /\ Fault("rpc") /\ cancelled' = TRUE
  /\ InParser

\* The loops look at the token between rounds and between files.
SeesCancel == ppc \in {"files", "poll"} /\ cancelled /\ Dies /\ NoFault /\ InParser

Parser ==
  \/ SendFromFiles \/ FilesDone \/ Poll \/ PopOrphan \/ TooLong \/ ForkFound
  \/ Fetch \/ SendNext \/ RoundDone \/ SeesCancel

----------------------------------------------------------------------------
(* The indexer loop: Indexer::index and ReorgCache. *)

\* tip - 30 is a subtraction of u64: below 30 it wraps to a height no block has.
Bug_HandleReorgs(e) == e.tip >= MaxLen /\ e.height > e.tip - MaxLen + 1
HandleReorgs(e) == e.tip >= MaxLen /\ e.height > e.tip - MaxLen

\* restore(target): savepoints go from the end while the last one is above the target;
\* and the tables without the last n blocks.
Kept(saved, target) ==
  LET left == CHOOSE n \in 0..Len(saved) :
                /\ n > 0 => saved[n] <= target
                /\ \A i \in n + 1..Len(saved) : saved[i] > target
  IN  SubSeq(saved, 1, left)
Undone(c, n) == SubSeq(c, 1, Len(c) - n)

HeightAfter(saved, n) == IF n = 0 THEN dbHeight ELSE saved[Len(saved) - n + 1] - 1

RestoreHeight(e) == IF prevHeight >= e.reorgLen THEN prevHeight - e.reorgLen ELSE 0

Bug_Misplaced(saved, e) == FALSE
Misplaced(saved, e) == saved # <<>> /\ saved[Len(saved)] + 1 # e.height

\* new_block
Saved(saved, e) ==
  IF HandleReorgs(e)
  THEN Append(IF Len(saved) = MaxLen THEN Tail(saved) ELSE saved, e.height)
  ELSE saved

\* restore_all, and the process is gone.
Exit(saved) ==
  /\ applied' = Undone(applied, Len(saved))
  /\ dbHeight' = HeightAfter(saved, Len(saved))
  /\ savepoints' = <<>>
  /\ running' = FALSE
  /\ ppc' = "dead"
  /\ chan' = <<>>
  /\ UNCHANGED <<prevHeight, cp, lastHash, counter, best, next, files, sent>>

\* One turn of the loop: the cache is cleared far from the tip, the reorg is undone,
\* and the block is applied unless the cache does not end right below it.
HandleEvent ==
  /\ running /\ ~cancelled /\ chan # <<>>
  /\ LET e == Head(chan)
         cleared == IF HandleReorgs(e) THEN savepoints ELSE <<>>
         saved == IF e.reorgLen > 0 THEN Kept(cleared, RestoreHeight(e)) ELSE cleared
     IN  IF Misplaced(saved, e)
         THEN Exit(cleared)
         ELSE /\ applied' = Append(Undone(applied, Len(cleared) - Len(saved)), e.block)
              /\ dbHeight' = e.height
              /\ savepoints' = Saved(saved, e)
              /\ prevHeight' = e.height
              /\ chan' = Tail(chan)
              /\ UNCHANGED <<running, parserVars, sent>>
  /\ UNCHANGED <<nodeVars, starts>>
  /\ NoFault

\* The loop ends: the token is cancelled, or the channel is closed and empty.
Bug_Stopping == cancelled
Stopping == cancelled \/ (ppc = "dead" /\ chan = <<>>)

\* Nothing to receive yet: the loop sleeps 50 ms.
Idle == running /\ ~Stopping /\ chan = <<>> /\ UNCHANGED vars

Stop ==
  /\ running
  /\ Stopping
  /\ Exit(savepoints)
  /\ UNCHANGED <<nodeVars, starts>>
  /\ NoFault

\* SIGTERM or SIGINT.
Signal ==
  /\ running /\ ~cancelled
  /\ Fault("signal") /\ cancelled' = TRUE
  /\ UNCHANGED <<nodeVars, parserVars, chan, indexerVars, starts, sent>>

\* The process is gone at once: the reorg cache is lost.
Kill ==
  /\ running
  /\ Fault("kill")
  /\ running' = FALSE /\ ppc' = "dead" /\ chan' = <<>> /\ savepoints' = <<>>
  /\ UNCHANGED <<nodeVars, cp, lastHash, counter, best, next, files, prevHeight, applied,
                 dbHeight, cancelled, starts, sent>>

----------------------------------------------------------------------------
(* The process starts: Server::new reads last_block and its hash. *)

Starting ==
  /\ ~running /\ starts < MaxStarts
  /\ starts' = starts + 1
  /\ running' = TRUE /\ cancelled' = FALSE
  /\ prevHeight' = 0 /\ savepoints' = <<>> /\ chan' = <<>>
  /\ counter' = 0 /\ best' = 0 /\ next' = Genesis
  /\ sent' = applied
  /\ UNCHANGED <<nodeVars, applied, dbHeight, faults>>

\* The block index (without its topmost block) reaches the tables' height, or
\* misses it by one, which the node then fills in: the first block must continue the
\* hash in the database.
StartFromFiles ==
  /\ Starting
  /\ \E top \in dbHeight..Len(node) :
       /\ top = dbHeight \/ top < Len(node)
       /\ files' = SubSeq(node, dbHeight + 1, top)
       /\ LET base == IF dbHeight = 0 THEN 0 ELSE dbHeight - 1
          IN  cp' = [base |-> base, ids |-> [i \in 1..(top - base + 1) |-> NodeAt(base + i - 1)]]
  /\ lastHash' = Tip(applied)
  /\ ppc' = "files"

Bug_StartHeight == dbHeight + 1
StartHeight == dbHeight

\* No block index: the checkpoint is whatever the node has at the tables' height.
StartFromNode ==
  /\ Starting
  /\ StartHeight <= Len(node)
  /\ cp' = [base |-> StartHeight, ids |-> <<NodeAt(StartHeight)>>]
  /\ lastHash' = NodeAt(StartHeight)
  /\ files' = <<>>
  /\ ppc' = "poll"

Start == StartFromFiles \/ StartFromNode

\* The bound on starts is reached.
Terminated == ~running /\ starts = MaxStarts /\ UNCHANGED vars

Next ==
  \/ Mine \/ NodeReorg
  \/ Parser \/ Sleep \/ PopOnError \/ RpcPanic
  \/ HandleEvent \/ Idle \/ Stop \/ Signal \/ Kill
  \/ Start \/ Terminated

Spec == Init /\ [][Next]_vars

\* Threads run; whatever supervises the process starts it again.
Fairness == WF_vars(Parser) /\ WF_vars(HandleEvent) /\ WF_vars(Stop) /\ WF_vars(Start)

FairSpec == Spec /\ Fairness

----------------------------------------------------------------------------
(* Whatever the node, the parser, the channel and restarts do, the tables are the
   result of one chain of blocks, each applied on its parent, and last_block is its
   height: never a block on top of an orphan of the same height.  This is what the
   panic "Invalid blocks order" and the error "Wrong reorg cache tip height" are
   there to guarantee. *)
AppliedLinked ==
  /\ dbHeight = Len(applied)
  /\ \A h \in DOMAIN applied : prev[applied[h]] = (IF h = 1 THEN Genesis ELSE applied[h - 1])

(* Every applied block that left the best chain can still be undone: the reorg
   cache has a savepoint for it. *)
OrphansUndoable ==
  running => \A h \in DOMAIN applied :
    ~OnBestChain(applied[h]) => \E i \in DOMAIN savepoints : savepoints[i] = h

(* An orderly stop, after a signal, a lost node or an error, leaves tables that no
   reorg within reach can contradict: nothing but blocks of the best chain. *)
StopLeavesBestChain ==
  ~running => \A h \in DOMAIN applied : OnBestChain(applied[h])

(* Every change of the tables is a return to an earlier block of their chain or
   the application of a child of the block they then stand on: `restore' and
   `handle' of one event together never skip, repeat or replace a block. *)
Abstract == INSTANCE LinkedChain WITH chain <- applied, parent <- prev

FollowsOneChain == Abstract!Spec

(* A process that is not stopped for good catches up with a node that has become
   quiet, whatever reorgs, panics and restarts came before: the parser's loop never
   settles on a block that is not the best one, and every block reaches the tables. *)
CatchesUp ==
  <>[]running => <>[](dbHeight = Len(node) /\ Tip(applied) = Tip(node))

(* A signal, a node that stops answering or a parser thread that is gone ends the
   process, wherever the parser thread is: blocked on a full channel, in the middle
   of a reorg, or asleep. *)
StopsWhenTold == (cancelled \/ (running /\ ppc = "dead")) ~> ~running
============================================================================
