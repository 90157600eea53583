---------------------------- MODULE TokenLedger ----------------------------
(***************************************************************************)
(* The token ledger of the indexer: TokenCache (tokens/parser.rs), the     *)
(* Holders index (tokens/holders.rs), the token tables of the database and *)
(* the way one block goes through them (inscriptions/indexer.rs,           *)
(* inscriptions/parser.rs, inscriptions/process_data.rs).                  *)
(*                                                                         *)
(* A block is taken in three phases.  "parse": the inscriptions and moves  *)
(* of its transactions are queued as token actions, none of them checked.  *)
(* "process": the rows the queue needs are loaded into the cache, and the  *)
(* actions are applied to the cache and to Holders, one at a time (Holders *)
(* is shared with the REST threads).  Then the cache is written back.      *)
(*                                                                         *)
(* Amounts are counted in the smallest unit; `scale' is the number of      *)
(* decimal digits the amount was written with.  A transfer row is          *)
(* [owner, tick, amt]; the counters of a token (transactions, mint_count,  *)
(* transfer_count) and the history entries are left out.                   *)
(***************************************************************************)
EXTENDS Integers, Sequences, FiniteSets

CONSTANTS
  Users,            \* FullHash values that own outputs
  Burned,           \* OP_RETURN_HASH
  Ticks,            \* OriginalTokenTick: a tick as it was spelled
  Lower,            \* [Ticks -> LowerCaseTokenTick]
  Terms,            \* deploy terms that pass try_parse: [max, lim, dec]
  Amounts,          \* amounts that pass try_parse: [value, scale]
  Locations,        \* Location: an outpoint and an offset in it
  OccupiedOffsets,  \* TRUE: an inscription may be created on an occupied offset (the rule from
                    \* JUBILEE_HEIGHT on, and on Bellscoin)
  Nil,              \* no row
  MaxInscriptions,  \* bound: token inscriptions per block
  MaxBlocks         \* bound: blocks

Names == {Lower[t] : t \in Ticks}
Metas == [tick : Ticks, max : Nat, lim : Nat, dec : Nat, supply : Nat]
Balances == [balance : Nat, transferable : Nat, count : Nat]
Transfers == [owner : Users, tick : Ticks, amt : Nat \ {0}]
Actions ==
       [op : {"deploy"}, tick : Ticks, terms : Terms]
  \cup [op : {"mint"}, owner : Users, tick : Ticks, amt : Amounts]
  \cup [op : {"transfer"}, owner : Users, tick : Ticks, amt : Amounts, loc : Locations]
  \cup [op : {"transferred"}, loc : Locations, recipient : Users \cup {Burned}]

ASSUME LedgerAssumption ==
  /\ IsFiniteSet(Users)
  /\ Burned \notin Users
  /\ Lower \in [Ticks -> Names]
  /\ \A d \in Terms : d.max \in Nat \ {0} /\ d.lim \in Nat \ {0} /\ d.dec \in Nat
  /\ \A a \in Amounts : a.value \in Nat \ {0} /\ a.scale \in Nat
  /\ OccupiedOffsets \in BOOLEAN
  /\ Nil \notin Metas \cup Balances \cup Transfers
  /\ MaxInscriptions \in Nat
  /\ MaxBlocks \in Nat

VARIABLES
  \* tables of the database
  meta,        \* token_to_meta
  balances,    \* address_token_to_balance
  transfers,   \* address_location_to_transfer
  \* the Holders index: per tick its BTreeSet of <<balance, user>> and its length in stats
  holders,
  \* the TokenCache of the block in progress
  tokens, accounts, queue, all_transfers, valid_transfers,
  \* the block in progress
  loaded,      \* transfers_to_remove: the transfer rows its inputs spend
  movable,     \* transfer inscriptions that its inputs may still spend
  phase,
  blocks       \* blocks taken so far

db == <<meta, balances, transfers>>
cache == <<tokens, accounts, queue, all_transfers, valid_transfers>>
vars == <<db, holders, cache, loaded, movable, phase, blocks>>

NoRows(S) == [x \in S |-> Nil]
NoAccounts == [u \in Users |-> [t \in Ticks |-> Nil]]
ZeroBalance == [balance |-> 0, transferable |-> 0, count |-> 0]
OrDefault(row) == IF row = Nil THEN ZeroBalance ELSE row

Init ==
  /\ meta = NoRows(Names)
  /\ balances = NoAccounts
  /\ transfers = NoRows(Locations)
  /\ holders = [t \in Ticks |-> [sorted |-> {}, stats |-> 0]]
  /\ tokens = NoRows(Names)
  /\ accounts = NoAccounts
  /\ queue = <<>>
  /\ all_transfers = NoRows(Locations)
  /\ valid_transfers = NoRows(Locations)
  /\ loaded = {}
  /\ movable = {}
  /\ phase = "idle"
  /\ blocks = 0

----------------------------------------------------------------------------
(* Parse: the queue is filled in the order of the block's transactions. *)

\* TokenCache::load: the valid transfers that the block's inputs spend.
BeginBlock ==
  /\ phase = "idle"
  /\ blocks < MaxBlocks
  /\ \E spent \in SUBSET {l \in Locations : transfers[l] # Nil} :
       /\ loaded' = spent
       /\ movable' = spent
       /\ valid_transfers' = [l \in Locations |-> IF l \in spent THEN transfers[l] ELSE Nil]
       /\ all_transfers' = valid_transfers'
  /\ phase' = "parse"
  /\ blocks' = blocks + 1
  /\ UNCHANGED <<db, holders, tokens, accounts, queue>>

Enqueue(a) ==
  /\ phase = "parse"
  /\ queue' = Append(queue, a)
  /\ UNCHANGED <<db, holders, tokens, accounts, valid_transfers, loaded, phase, blocks>>

Inscriptions == {i \in DOMAIN queue : queue[i].op # "transferred"}
HasRoom == Cardinality(Inscriptions) < MaxInscriptions

InscribeDeploy(t, terms) ==
  /\ HasRoom
  /\ Enqueue([op |-> "deploy", tick |-> t, terms |-> terms])
  /\ UNCHANGED <<all_transfers, movable>>

InscribeMint(u, t, amt) ==
  /\ HasRoom
  /\ Enqueue([op |-> "mint", owner |-> u, tick |-> t, amt |-> amt])
  /\ UNCHANGED <<all_transfers, movable>>

\* A location no inscription of the chain has had.
Fresh(l) == l \notin movable /\ all_transfers[l] = Nil /\ transfers[l] = Nil

\* A location that an earlier inscription of the transaction gave to a transfer of u.
Occupied(l, u) == l \in movable \ loaded /\ all_transfers[l].owner = u

\* "skip inscription which was created into occupied offset" (inscriptions/parser.rs): such
\* an offset is allowed from JUBILEE_HEIGHT on, which is 0 for Wojakcoin and most others
\* and never for Dogecoin, and at every height where it is 133_000, on Bellscoin.
Bug_OffsetAllowed(l, u) == Fresh(l) \/ Occupied(l, u)
OffsetAllowed(l, u) == Fresh(l) \/ (OccupiedOffsets /\ Occupied(l, u))

\* The transfer is queued, and all_transfers remembers the last one of its location.
InscribeTransfer(u, t, amt, l) ==
  /\ Enqueue([op |-> "transfer", owner |-> u, tick |-> t, amt |-> amt, loc |-> l])
  /\ HasRoom
  /\ OffsetAllowed(l, u)
  /\ all_transfers' = [all_transfers EXCEPT ![l] = [owner |-> u, tick |-> t, amt |-> amt.value]]
  /\ movable' = movable \cup {l}

\* An input spends the transfer inscription and an output receives it, or an
\* OP_RETURN output burns it.
MoveTransfer(l, recipient) ==
  /\ l \in movable
  /\ Enqueue([op |-> "transferred", loc |-> l, recipient |-> recipient])
  /\ movable' = movable \ {l}
  /\ UNCHANGED all_transfers

\* The inscription goes to the fee: its tokens come back to the owner.
LeakTransfer(l) == MoveTransfer(l, all_transfers[l].owner)

----------------------------------------------------------------------------
(* Load: fill_tickers_and_users, load_tokens_data. *)

QueuedTransfer(l) == IF all_transfers[l] # Nil THEN all_transfers[l] ELSE valid_transfers[l]

Tickers ==
  {Lower[queue[i].tick] : i \in Inscriptions}
  \cup {Lower[QueuedTransfer(queue[i].loc).tick] :
          i \in {j \in DOMAIN queue \ Inscriptions : QueuedTransfer(queue[j].loc) # Nil}}

\* Does action a need the account of user u in the token named n?
Bug_NeedsAccount(a, u, n) ==
  \/ a.op \in {"mint", "transfer"} /\ a.owner = u /\ Lower[a.tick] = n
  \/ /\ a.op = "transferred"
     /\ valid_transfers[a.loc] # Nil
     /\ valid_transfers[a.loc].owner = u
     /\ Lower[QueuedTransfer(a.loc).tick] = n
NeedsAccount(a, u, n) ==
  \/ a.op \in {"mint", "transfer"} /\ a.owner = u /\ Lower[a.tick] = n
  \/ /\ a.op = "transferred"
     /\ QueuedTransfer(a.loc) # Nil
     /\ Lower[QueuedTransfer(a.loc).tick] = n
     /\ \/ a.recipient = u
        \/ valid_transfers[a.loc] # Nil /\ valid_transfers[a.loc].owner = u

\* Every spent transfer has moved; accounts are read under the spelling of the deploy.
LoadTokensData ==
  /\ phase = "parse"
  /\ loaded \cap movable = {}
  /\ tokens' = [n \in Names |-> IF n \in Tickers THEN meta[n] ELSE Nil]
  /\ accounts' = [u \in Users |-> [t \in Ticks |->
       IF /\ tokens'[Lower[t]] # Nil
          /\ tokens'[Lower[t]].tick = t
          /\ \E i \in DOMAIN queue : NeedsAccount(queue[i], u, Lower[t])
       THEN balances[u][t] ELSE Nil]]
  /\ movable' = {}   \* the parser and its offsets are gone
  /\ phase' = "process"
  /\ UNCHANGED <<db, holders, queue, all_transfers, valid_transfers, loaded, blocks>>

----------------------------------------------------------------------------
(* Holders::change *)

Total(acc) == acc.balance + acc.transferable

Increase(h, t, u, acc, amt) ==
  LET old == <<Total(acc), u>>
  IN  [h EXCEPT ![t] =
        [sorted |-> (@.sorted \ {old}) \cup {<<Total(acc) + amt, u>>},
         stats  |-> IF old \in @.sorted THEN @.stats ELSE @.stats + 1]]

Bug_Decrease(h, t, u, acc, amt) ==
  [h EXCEPT ![t] =
    [sorted |-> (@.sorted \ {<<Total(acc), u>>}) \cup {<<Total(acc) - amt, u>>},
     stats  |-> @.stats]]
Decrease(h, t, u, acc, amt) ==
  LET left == Total(acc) - amt
  IN  [h EXCEPT ![t] =
        [sorted |-> (@.sorted \ {<<Total(acc), u>>}) \cup (IF left # 0 THEN {<<left, u>>} ELSE {}),
         stats  |-> IF left # 0 THEN @.stats ELSE @.stats - 1]]

----------------------------------------------------------------------------
(* Process: process_token_actions, one action of the queue at a time. *)

Dequeue(op) ==
  /\ phase = "process"
  /\ queue # <<>>
  /\ Head(queue).op = op
  /\ queue' = Tail(queue)
  /\ UNCHANGED <<db, loaded, movable, blocks>>

DeployAccepted(a) == tokens[Lower[a.tick]] = Nil

ProcessDeploy ==
  /\ Dequeue("deploy")
  /\ LET a == Head(queue)
     IN  IF DeployAccepted(a)
         THEN tokens' = [tokens EXCEPT ![Lower[a.tick]] =
                [tick |-> a.tick, max |-> a.terms.max, lim |-> a.terms.lim,
                 dec |-> a.terms.dec, supply |-> 0]]
         ELSE UNCHANGED tokens
  /\ UNCHANGED <<holders, accounts, all_transfers, valid_transfers, phase>>

MintAccepted(a) ==
  LET d == tokens[Lower[a.tick]]
  IN  d # Nil /\ a.amt.scale <= d.dec /\ a.amt.value <= d.lim /\ d.supply # d.max

Bug_Minted(a, d) == a.amt.value
Minted(a, d) == IF a.amt.value <= d.max - d.supply THEN a.amt.value ELSE d.max - d.supply

ProcessMint ==
  /\ Dequeue("mint")
  /\ LET a == Head(queue)
         n == Lower[a.tick]
         d == tokens[n]
         row == OrDefault(accounts[a.owner][d.tick])
     IN  IF MintAccepted(a)
         THEN /\ tokens' = [tokens EXCEPT ![n].supply = @ + Minted(a, d)]
              /\ holders' = Increase(holders, d.tick, a.owner, row, Minted(a, d))
              /\ accounts' = [accounts EXCEPT ![a.owner][d.tick] =
                               [row EXCEPT !.balance = @ + Minted(a, d)]]
         ELSE UNCHANGED <<tokens, holders, accounts>>
  /\ UNCHANGED <<all_transfers, valid_transfers, phase>>

Bug_Covers(row, amt) == amt <= Total(row)
Covers(row, amt) == amt <= row.balance

TransferAccepted(a) ==
  LET d == tokens[Lower[a.tick]]
  IN  /\ all_transfers[a.loc] # Nil
      /\ d # Nil
      /\ a.amt.scale <= d.dec
      /\ accounts[a.owner][d.tick] # Nil
      /\ Covers(accounts[a.owner][d.tick], a.amt.value)

Bug_Locked(row, amt) == [row EXCEPT !.transferable = @ + amt, !.count = @ + 1]
Locked(row, amt) ==
  [balance |-> row.balance - amt, transferable |-> row.transferable + amt, count |-> row.count + 1]

\* The remembered row becomes valid with the spelling of the deploy.
Bug_ValidRow(a, d) == all_transfers[a.loc]
ValidRow(a, d) == [owner |-> a.owner, tick |-> d.tick, amt |-> all_transfers[a.loc].amt]

\* all_transfers is consumed even when the transfer is refused.
ProcessTransfer ==
  /\ Dequeue("transfer")
  /\ LET a == Head(queue)
         d == tokens[Lower[a.tick]]
     IN  /\ all_transfers' = [all_transfers EXCEPT ![a.loc] = Nil]
         /\ IF TransferAccepted(a)
            THEN /\ accounts' = [accounts EXCEPT ![a.owner][d.tick] = Locked(@, a.amt.value)]
                 /\ valid_transfers' = [valid_transfers EXCEPT ![a.loc] = ValidRow(a, d)]
            ELSE UNCHANGED <<accounts, valid_transfers>>
  /\ UNCHANGED <<holders, tokens, phase>>

\* The `expect', the `unwrap' and the `panic!' of a transfer's move.
InvalidSender(tr) ==
  \/ tokens[Lower[tr.tick]] = Nil
  \/ LET old == accounts[tr.owner][tokens[Lower[tr.tick]].tick]
     IN  old = Nil \/ old.count = 0 \/ old.transferable < tr.amt

Unlocked(row, amt) ==
  [balance |-> row.balance, transferable |-> row.transferable - amt, count |-> row.count - 1]

\* The recipient's row, read after the sender's was changed: they may be the same.
Bug_RecipientRow(before, after, r, t) == OrDefault(before[r][t])
RecipientRow(before, after, r, t) == OrDefault(after[r][t])

Pay(tr, recipient) ==
  LET t    == tokens[Lower[tr.tick]].tick
      old  == accounts[tr.owner][t]
      sent == [accounts EXCEPT ![tr.owner][t] = Unlocked(old, tr.amt)]
      less == Decrease(holders, t, tr.owner, old, tr.amt)
  IN  IF recipient = Burned
      THEN accounts' = sent /\ holders' = less
      ELSE LET row == RecipientRow(accounts, sent, recipient, t)
           IN  /\ holders' = Increase(less, t, recipient, row, tr.amt)
               /\ accounts' = [sent EXCEPT ![recipient][t] = [row EXCEPT !.balance = @ + tr.amt]]

ProcessTransferred ==
  /\ Dequeue("transferred")
  /\ LET a == Head(queue)
         tr == valid_transfers[a.loc]
     IN  /\ tr # Nil => ~InvalidSender(tr)
         /\ IF tr = Nil
            THEN UNCHANGED <<accounts, holders>>   \* already spent, or never valid
            ELSE Pay(tr, a.recipient)
         /\ valid_transfers' = [valid_transfers EXCEPT ![a.loc] = Nil]
  /\ UNCHANGED <<tokens, all_transfers, phase>>

\* The thread panics in the middle of the block: nothing of it reaches the tables.
PanicTransferred ==
  /\ Dequeue("transferred")
  /\ LET tr == valid_transfers[Head(queue).loc]
     IN  tr # Nil /\ InvalidSender(tr)
  /\ phase' = "panicked"
  /\ UNCHANGED <<holders, tokens, accounts, all_transfers, valid_transfers>>

----------------------------------------------------------------------------
(* ProcessedData::Tokens: the cache is written back. *)

Bug_WrittenTransfer(l) == IF valid_transfers[l] # Nil THEN valid_transfers[l] ELSE transfers[l]
WrittenTransfer(l) ==
  IF valid_transfers[l] # Nil THEN valid_transfers[l]
  ELSE IF l \in loaded THEN Nil ELSE transfers[l]

CommitBlock ==
  /\ phase = "process"
  /\ queue = <<>>
  /\ meta' = [n \in Names |-> IF tokens[n] # Nil THEN tokens[n] ELSE meta[n]]
  /\ balances' = [u \in Users |-> [t \in Ticks |->
       IF accounts[u][t] # Nil THEN accounts[u][t] ELSE balances[u][t]]]
  /\ transfers' = [l \in Locations |-> WrittenTransfer(l)]
  /\ tokens' = NoRows(Names)
  /\ accounts' = NoAccounts
  /\ all_transfers' = NoRows(Locations)
  /\ valid_transfers' = NoRows(Locations)
  /\ loaded' = {}
  /\ phase' = "idle"
  /\ UNCHANGED <<holders, queue, movable, blocks>>

----------------------------------------------------------------------------
Parse ==
  \/ BeginBlock
  \/ \E t \in Ticks, terms \in Terms : InscribeDeploy(t, terms)
  \/ \E u \in Users, t \in Ticks, amt \in Amounts : InscribeMint(u, t, amt)
  \/ \E u \in Users, t \in Ticks, amt \in Amounts, l \in Locations : InscribeTransfer(u, t, amt, l)
  \/ \E l \in Locations, r \in Users \cup {Burned} : MoveTransfer(l, r)
  \/ \E l \in movable : LeakTransfer(l)

\* From the queue to a finished cache.
Process ==
  \/ LoadTokensData
  \/ ProcessDeploy
  \/ ProcessMint
  \/ ProcessTransfer
  \/ ProcessTransferred
  \/ PanicTransferred

\* The bound on blocks is reached, or the process is gone.
Terminated ==
  /\ (phase = "idle" /\ blocks = MaxBlocks) \/ phase = "panicked"
  /\ UNCHANGED vars

Next == Parse \/ Process \/ CommitBlock \/ Terminated

Spec == Init /\ [][Next]_vars

----------------------------------------------------------------------------
(* What a reader of the tables would see if the cache were written back now. *)

Row(u, t) == IF accounts[u][t] # Nil THEN accounts[u][t] ELSE OrDefault(balances[u][t])
Token(n) == IF tokens[n] # Nil THEN tokens[n] ELSE meta[n]
Pending(l) ==
  IF l \in loaded \/ valid_transfers[l] # Nil THEN valid_transfers[l] ELSE transfers[l]

OrNil(S) == S \cup {Nil}

(* The state has the shape the code's types give it; the u64 balances and counters
   of an account stay in Nat, so no `-=' on them wraps.  (That `stats' does not wrap
   either is part of HoldersExact.) *)
TypeOK ==
  /\ meta \in [Names -> OrNil(Metas)] /\ tokens \in [Names -> OrNil(Metas)]
  /\ balances \in [Users -> [Ticks -> OrNil(Balances)]]
  /\ accounts \in [Users -> [Ticks -> OrNil(Balances)]]
  /\ transfers \in [Locations -> OrNil(Transfers)]
  /\ all_transfers \in [Locations -> OrNil(Transfers)]
  /\ valid_transfers \in [Locations -> OrNil(Transfers)]
  /\ holders \in [Ticks -> [sorted : SUBSET (Nat \X Users), stats : Int]]
  /\ queue \in Seq(Actions)
  /\ loaded \subseteq Locations /\ movable \subseteq Locations
  /\ phase \in {"idle", "parse", "process", "panicked"}
  /\ blocks \in Nat

(* The cap of process_token_actions (`amt.min(max - supply)') holds over any
   sequence of mints, in the cache and in token_to_meta: supply never passes max. *)
SupplyWithinMax ==
  \A n \in Names : /\ tokens[n] # Nil => tokens[n].supply <= tokens[n].max
                   /\ meta[n] # Nil => meta[n].supply <= meta[n].max

(* Holders::change keeps the index equal to the accounts at every step of a
   block: one entry per user with tokens, filed under its full balance, and
   stats counts them. *)
HoldersExact ==
  \A t \in Ticks :
    /\ holders[t].sorted =
         {<<Total(Row(u, t)), u>> : u \in {v \in Users : Total(Row(v, t)) # 0}}
    /\ holders[t].stats = Cardinality(holders[t].sorted)

(* Rows are keyed by OriginalTokenTick but tokens by LowerCaseTokenTick: an
   account or a valid transfer under any spelling but the deployed one would be a
   second ledger of the same token. *)
OneSpelling ==
  /\ \A u \in Users, t \in Ticks :
       Total(Row(u, t)) # 0 => Token(Lower[t]) # Nil /\ Token(Lower[t]).tick = t
  /\ \A l \in Locations : Pending(l) # Nil =>
       Token(Lower[Pending(l).tick]) # Nil /\ Token(Lower[Pending(l).tick]).tick = Pending(l).tick

(* The `panic!("Invalid transfer sender balance")', the `expect("Tick must exist")'
   and the `unwrap' of a transfer's move are unreachable. *)
NoPanic == phase # "panicked"
============================================================================
