-------------------------- MODULE TokenLedgerProofs --------------------------
(***************************************************************************)
(* Theorems of TokenLedger, for every value of its constants.              *)
(*                                                                         *)
(* The type invariant and SupplyWithinMax need each other: a mint is cut   *)
(* at max - supply, which is a natural number only below the maximum.      *)
(*                                                                         *)
(* The other two are about what the cache of a block must have loaded.     *)
(*                                                                         *)
(* OneSpelling holds with and without the jubilee rule.  It needs that a   *)
(* deploy in the queue finds a name absent from the cache only when it is  *)
(* absent from token_to_meta (NamesLoaded), and then that no row can be    *)
(* there under any spelling of it.                                         *)
(*                                                                         *)
(* HoldersExact needs the offsets rule without jubilee.  An account that a *)
(* mint or a move finds absent from the cache must have nothing in the     *)
(* database (Covered), for the transfer that will be valid when the move   *)
(* is processed: that is the one all_transfers remembers (TransfersKnown). *)
(***************************************************************************)
EXTENDS TokenLedger, FiniteSetTheorems, TLAPS

\* A transfer that may still be moved by the block is remembered.
MovableKnown ==
  /\ \A l \in movable : all_transfers[l] # Nil
  /\ phase # "parse" => movable = {}

TInv == TypeOK /\ SupplyWithinMax /\ MovableKnown

----------------------------------------------------------------------------
(* The fields of rows and actions. *)

LEMMA TickName == ASSUME NEW t \in Ticks PROVE Lower[t] \in Names
BY DEF Names

LEMMA ActionFields ==
  ASSUME NEW a \in Actions
  PROVE  /\ a.op = "deploy" => a.tick \in Ticks /\ a.terms \in Terms
         /\ a.op = "mint" => a.owner \in Users /\ a.tick \in Ticks /\ a.amt \in Amounts
         /\ a.op = "transfer" =>
              /\ a.owner \in Users /\ a.tick \in Ticks /\ a.amt \in Amounts
              /\ a.loc \in Locations
         /\ a.op = "transferred" => a.loc \in Locations /\ a.recipient \in Users \cup {Burned}
BY DEF Actions

LEMMA QueueStep ==
  ASSUME TypeOK, NEW op, Dequeue(op)
  PROVE  Head(queue) \in Actions /\ Head(queue).op = op /\ queue' \in Seq(Actions)
BY DEF TypeOK, Dequeue

LEMMA DefaultRow ==
  ASSUME NEW row \in OrNil(Balances)
  PROVE  OrDefault(row) \in Balances
BY DEF OrNil, OrDefault, ZeroBalance, Balances

LEMMA TotalNat ==
  ASSUME NEW row \in Balances
  PROVE  Total(row) \in Nat
BY DEF Total, Balances

----------------------------------------------------------------------------
(* The type invariant and SupplyWithinMax, one lemma per action. *)

LEMMA TInvInit == Init => TInv
<1> SUFFICES ASSUME Init PROVE TInv
  OBVIOUS
<1>1. TypeOK
  BY DEF Init, TypeOK, NoRows, NoAccounts, OrNil
<1>2. SupplyWithinMax /\ MovableKnown
  BY DEF Init, SupplyWithinMax, MovableKnown, NoRows
<1> QED BY <1>1, <1>2 DEF TInv

LEMMA TInvBegin == TInv /\ BeginBlock => TInv'
<1> SUFFICES ASSUME TInv, BeginBlock PROVE TInv'
  OBVIOUS
<1> PICK spent \in SUBSET {l \in Locations : transfers[l] # Nil} :
      /\ loaded' = spent
      /\ movable' = spent
      /\ valid_transfers' = [l \in Locations |-> IF l \in spent THEN transfers[l] ELSE Nil]
      /\ all_transfers' = valid_transfers'
  BY DEF BeginBlock
<1>1. TypeOK'
  BY DEF TInv, TypeOK, BeginBlock, db, OrNil
<1>2. SupplyWithinMax'
  BY DEF TInv, SupplyWithinMax, BeginBlock, db
<1>3. MovableKnown'
  BY DEF MovableKnown, BeginBlock
<1> QED BY <1>1, <1>2, <1>3 DEF TInv

LEMMA EnqueueKeeps ==
  ASSUME TInv, NEW a \in Actions, Enqueue(a)
  PROVE  /\ queue' \in Seq(Actions)
         /\ UNCHANGED <<db, holders, tokens, accounts, valid_transfers, loaded, phase>>
         /\ blocks' \in Nat
         /\ SupplyWithinMax'
         /\ phase = "parse"
BY DEF TInv, TypeOK, SupplyWithinMax, Enqueue, db

LEMMA TInvInscribe ==
  ASSUME TInv, NEW a \in Actions, Enqueue(a), UNCHANGED <<all_transfers, movable>>
  PROVE  TInv'
<1>1. TypeOK'
  BY EnqueueKeeps DEF TInv, TypeOK, db
<1>2. MovableKnown'
  BY EnqueueKeeps DEF TInv, MovableKnown
<1> QED BY <1>1, <1>2, EnqueueKeeps DEF TInv

LEMMA TInvInscribeTransfer ==
  ASSUME TInv, NEW u \in Users, NEW t \in Ticks, NEW amt \in Amounts, NEW l \in Locations,
         InscribeTransfer(u, t, amt, l)
  PROVE  TInv'
<1> DEFINE a == [op |-> "transfer", owner |-> u, tick |-> t, amt |-> amt, loc |-> l]
           row == [owner |-> u, tick |-> t, amt |-> amt.value]
<1>1. a \in Actions
  BY DEF Actions
<1>2. Enqueue(a)
  BY DEF InscribeTransfer
<1>3. row \in Transfers /\ row # Nil
  BY LedgerAssumption DEF Transfers
<1>4. /\ all_transfers' = [all_transfers EXCEPT ![l] = row]
      /\ movable' = movable \cup {l}
  BY DEF InscribeTransfer
<1> HIDE DEF a, row
<1>5. TypeOK'
  <2>1. all_transfers' \in [Locations -> OrNil(Transfers)]
    BY <1>3, <1>4 DEF TInv, TypeOK, OrNil
  <2>2. movable' \subseteq Locations
    BY <1>4 DEF TInv, TypeOK
  <2> QED BY <1>1, <1>2, <2>1, <2>2, EnqueueKeeps DEF TInv, TypeOK, db
<1>6. MovableKnown'
  BY <1>1, <1>2, <1>3, <1>4, EnqueueKeeps DEF TInv, TypeOK, MovableKnown
<1> QED BY <1>1, <1>2, <1>5, <1>6, EnqueueKeeps DEF TInv

LEMMA TInvMove ==
  ASSUME TInv, NEW l \in Locations, NEW r \in Users \cup {Burned}, MoveTransfer(l, r)
  PROVE  TInv'
<1> DEFINE a == [op |-> "transferred", loc |-> l, recipient |-> r]
<1>1. a \in Actions
  BY DEF Actions
<1>2. Enqueue(a) /\ movable' = movable \ {l} /\ all_transfers' = all_transfers
  BY DEF MoveTransfer
<1> HIDE DEF a
<1>3. TypeOK'
  BY <1>1, <1>2, EnqueueKeeps DEF TInv, TypeOK, db
<1>4. MovableKnown'
  BY <1>1, <1>2, EnqueueKeeps DEF TInv, MovableKnown
<1> QED BY <1>1, <1>2, <1>3, <1>4, EnqueueKeeps DEF TInv

\* The owner of a leaked transfer is a user: the transfer is remembered.
LEMMA LeakOwner ==
  ASSUME TInv, NEW l \in movable
  PROVE  l \in Locations /\ all_transfers[l] \in Transfers /\ all_transfers[l].owner \in Users
BY DEF TInv, TypeOK, MovableKnown, OrNil, Transfers

LEMMA TInvParse == TInv /\ Parse => TInv'
<1> SUFFICES ASSUME TInv, Parse PROVE TInv'
  OBVIOUS
<1>1. CASE BeginBlock
  BY <1>1, TInvBegin
<1>2. CASE \E t \in Ticks, terms \in Terms : InscribeDeploy(t, terms)
  <2> PICK t \in Ticks, terms \in Terms : InscribeDeploy(t, terms)
    BY <1>2
  <2>1. [op |-> "deploy", tick |-> t, terms |-> terms] \in Actions
    BY DEF Actions
  <2> QED BY <2>1, TInvInscribe DEF InscribeDeploy
<1>3. CASE \E u \in Users, t \in Ticks, amt \in Amounts : InscribeMint(u, t, amt)
  <2> PICK u \in Users, t \in Ticks, amt \in Amounts : InscribeMint(u, t, amt)
    BY <1>3
  <2>1. [op |-> "mint", owner |-> u, tick |-> t, amt |-> amt] \in Actions
    BY DEF Actions
  <2> QED BY <2>1, TInvInscribe DEF InscribeMint
<1>4. CASE \E u \in Users, t \in Ticks, amt \in Amounts, l \in Locations : InscribeTransfer(u, t, amt, l)
  BY <1>4, TInvInscribeTransfer
<1>5. CASE \E l \in Locations, r \in Users \cup {Burned} : MoveTransfer(l, r)
  BY <1>5, TInvMove
<1>6. CASE \E l \in movable : LeakTransfer(l)
  BY <1>6, LeakOwner, TInvMove DEF LeakTransfer
<1> QED BY <1>1, <1>2, <1>3, <1>4, <1>5, <1>6 DEF Parse

LEMMA TInvLoad == TInv /\ LoadTokensData => TInv'
<1> SUFFICES ASSUME TInv, LoadTokensData PROVE TInv'
  OBVIOUS
<1>1. tokens' \in [Names -> OrNil(Metas)]
  BY DEF TInv, TypeOK, LoadTokensData, OrNil
<1>2. accounts' \in [Users -> [Ticks -> OrNil(Balances)]]
  BY DEF TInv, TypeOK, LoadTokensData, OrNil
<1>3. TypeOK'
  BY <1>1, <1>2 DEF TInv, TypeOK, LoadTokensData, db
<1>4. SupplyWithinMax'
  BY DEF TInv, SupplyWithinMax, LoadTokensData, db
<1>5. MovableKnown'
  BY DEF MovableKnown, LoadTokensData
<1> QED BY <1>3, <1>4, <1>5 DEF TInv

LEMMA TInvDeploy == TInv /\ ProcessDeploy => TInv'
<1> SUFFICES ASSUME TInv, ProcessDeploy PROVE TInv'
  OBVIOUS
<1> DEFINE a == Head(queue)
           d == [tick |-> a.tick, max |-> a.terms.max, lim |-> a.terms.lim,
                 dec |-> a.terms.dec, supply |-> 0]
<1>1. a.tick \in Ticks /\ a.terms \in Terms /\ queue' \in Seq(Actions)
  BY QueueStep, ActionFields DEF TInv, ProcessDeploy
<1>2. d \in Metas /\ d.supply <= d.max
  BY <1>1, LedgerAssumption DEF Metas
<1>3. tokens' = tokens \/ tokens' = [tokens EXCEPT ![Lower[a.tick]] = d]
  BY DEF ProcessDeploy
<1> HIDE DEF a, d
<1>4. TypeOK'
  BY <1>1, <1>2, <1>3 DEF TInv, TypeOK, OrNil, ProcessDeploy, Dequeue, db
<1>5. SupplyWithinMax'
  BY <1>2, <1>3 DEF TInv, TypeOK, SupplyWithinMax, ProcessDeploy, Dequeue, db
<1>6. MovableKnown'
  BY DEF TInv, MovableKnown, ProcessDeploy, Dequeue
<1> QED BY <1>4, <1>5, <1>6 DEF TInv

\* What a mint pays is positive, within the amount asked for and within the maximum.
LEMMA MintedBounds ==
  ASSUME TInv, NEW a \in Actions, a.op = "mint", MintAccepted(a)
  PROVE  LET d == tokens[Lower[a.tick]]
         IN  /\ d \in Metas /\ d # Nil /\ d.tick \in Ticks /\ d.supply <= d.max
             /\ Minted(a, d) \in Nat \ {0} /\ Minted(a, d) <= a.amt.value
             /\ d.supply + Minted(a, d) <= d.max
<1> DEFINE d == tokens[Lower[a.tick]]
<1>1. d \in Metas /\ d # Nil /\ d.supply <= d.max /\ d.supply # d.max
  BY TickName, ActionFields DEF TInv, TypeOK, OrNil, SupplyWithinMax, MintAccepted
<1>2. a.amt.value \in Nat \ {0}
  BY ActionFields, LedgerAssumption
<1> HIDE DEF d
<1>3. d.tick \in Ticks /\ d.max \in Nat /\ d.supply \in Nat
  BY <1>1 DEF Metas
<1>4. /\ Minted(a, d) \in Nat \ {0} /\ Minted(a, d) <= a.amt.value
      /\ d.supply + Minted(a, d) <= d.max
  BY <1>1, <1>2, <1>3 DEF Minted
<1> QED BY <1>1, <1>3, <1>4 DEF d

LEMMA IncreaseType ==
  ASSUME NEW h \in [Ticks -> [sorted : SUBSET (Nat \X Users), stats : Int]],
         NEW t \in Ticks, NEW u \in Users, NEW row \in Balances, NEW amt \in Nat
  PROVE  Increase(h, t, u, row, amt) \in [Ticks -> [sorted : SUBSET (Nat \X Users), stats : Int]]
BY TotalNat DEF Increase

LEMMA DecreaseType ==
  ASSUME NEW h \in [Ticks -> [sorted : SUBSET (Nat \X Users), stats : Int]],
         NEW t \in Ticks, NEW u \in Users, NEW row \in Balances, NEW amt \in Nat,
         amt <= Total(row)
  PROVE  Decrease(h, t, u, row, amt) \in [Ticks -> [sorted : SUBSET (Nat \X Users), stats : Int]]
BY TotalNat DEF Decrease

LEMMA TInvMint == TInv /\ ProcessMint => TInv'
<1> SUFFICES ASSUME TInv, ProcessMint PROVE TInv'
  OBVIOUS
<1> DEFINE a == Head(queue)
           n == Lower[a.tick]
           d == tokens[n]
           row == OrDefault(accounts[a.owner][d.tick])
           paid == Minted(a, d)
<1>1. /\ a \in Actions /\ a.op = "mint" /\ queue' \in Seq(Actions)
      /\ a.owner \in Users /\ a.tick \in Ticks /\ n \in Names
  BY QueueStep, ActionFields, TickName DEF TInv, ProcessMint
<1>2. CASE MintAccepted(a)
  <2>1. /\ d \in Metas /\ d # Nil /\ d.tick \in Ticks
        /\ paid \in Nat \ {0} /\ d.supply + paid <= d.max
    BY <1>1, <1>2, MintedBounds
  <2>2. row \in Balances
    BY <1>1, <2>1, DefaultRow DEF TInv, TypeOK
  <2>3. /\ tokens' = [tokens EXCEPT ![n].supply = @ + paid]
        /\ holders' = Increase(holders, d.tick, a.owner, row, paid)
        /\ accounts' = [accounts EXCEPT ![a.owner][d.tick] = [row EXCEPT !.balance = @ + paid]]
    BY <1>2 DEF ProcessMint
  <2> DEFINE d1 == [d EXCEPT !.supply = @ + paid]
             row1 == [row EXCEPT !.balance = @ + paid]
  <2> HIDE DEF a, n, row, paid
  <2>4. /\ d1 \in Metas /\ d1.supply = d.supply + paid /\ d1.max = d.max /\ d1.supply <= d1.max
        /\ tokens' = [tokens EXCEPT ![n] = d1]
    BY <2>1, <2>3 DEF Metas
  <2>5. row1 \in Balances
    BY <2>1, <2>2 DEF Balances
  <2>6. holders' \in [Ticks -> [sorted : SUBSET (Nat \X Users), stats : Int]]
    BY <1>1, <2>1, <2>2, <2>3, IncreaseType DEF TInv, TypeOK
  <2>7. accounts' \in [Users -> [Ticks -> OrNil(Balances)]]
    BY <1>1, <2>1, <2>3, <2>5 DEF TInv, TypeOK, OrNil
  <2>8. TypeOK'
    <3> HIDE DEF d, d1, row1
    <3>1. tokens' \in [Names -> OrNil(Metas)]
      BY <2>4 DEF TInv, TypeOK, OrNil
    <3> QED BY <1>1, <2>6, <2>7, <3>1 DEF TInv, TypeOK, ProcessMint, Dequeue, db
  <2>9. SupplyWithinMax'
    <3> HIDE DEF d, d1, row1
    <3> QED BY <1>1, <2>4 DEF TInv, TypeOK, SupplyWithinMax, ProcessMint, Dequeue, db
  <2>10. MovableKnown'
    BY DEF TInv, MovableKnown, ProcessMint, Dequeue
  <2> QED BY <2>8, <2>9, <2>10 DEF TInv
<1>3. CASE ~MintAccepted(a)
  <2>1. UNCHANGED <<tokens, holders, accounts>>
    BY <1>3 DEF ProcessMint
  <2>2. TypeOK'
    BY <1>1, <2>1 DEF TInv, TypeOK, ProcessMint, Dequeue, db
  <2>3. SupplyWithinMax' /\ MovableKnown'
    BY <2>1 DEF TInv, SupplyWithinMax, MovableKnown, ProcessMint, Dequeue, db
  <2> QED BY <2>2, <2>3 DEF TInv
<1> QED BY <1>2, <1>3

LEMMA LockedRow ==
  ASSUME NEW row \in Balances, NEW amt \in Nat, Covers(row, amt)
  PROVE  Locked(row, amt) \in Balances /\ Total(Locked(row, amt)) = Total(row)
<1>1. /\ row.balance \in Nat /\ row.transferable \in Nat /\ row.count \in Nat
      /\ amt <= row.balance
  BY DEF Balances, Covers
<1> QED BY <1>1 DEF Locked, Balances, Total

LEMMA UnlockedRow ==
  ASSUME NEW row \in Balances, NEW amt \in Nat, row.count # 0, ~(row.transferable < amt)
  PROVE  /\ Unlocked(row, amt) \in Balances
         /\ amt <= Total(row) /\ Total(Unlocked(row, amt)) = Total(row) - amt
<1>1. /\ row.balance \in Nat /\ row.transferable \in Nat /\ row.count \in Nat
      /\ amt <= row.transferable
  BY DEF Balances
<1> QED BY <1>1 DEF Unlocked, Balances, Total

LEMMA CreditedRow ==
  ASSUME NEW row \in Balances, NEW amt \in Nat
  PROVE  /\ [row EXCEPT !.balance = @ + amt] \in Balances
         /\ Total([row EXCEPT !.balance = @ + amt]) = Total(row) + amt
<1>1. row.balance \in Nat /\ row.transferable \in Nat /\ row.count \in Nat
  BY DEF Balances
<1>2. [row EXCEPT !.balance = @ + amt] =
        [balance |-> row.balance + amt, transferable |-> row.transferable, count |-> row.count]
  BY DEF Balances
<1> QED BY <1>1, <1>2 DEF Balances, Total

\* An accepted transfer finds its row, its token and its owner's account.
LEMMA TransferFields ==
  ASSUME TInv, NEW a \in Actions, a.op = "transfer", TransferAccepted(a)
  PROVE  LET d == tokens[Lower[a.tick]]
         IN  /\ d \in Metas /\ d # Nil /\ d.tick \in Ticks
             /\ accounts[a.owner][d.tick] \in Balances
             /\ ValidRow(a, d) \in Transfers /\ ValidRow(a, d) # Nil
             /\ a.amt.value \in Nat \ {0}
<1> DEFINE d == tokens[Lower[a.tick]]
<1>1. d \in Metas /\ d # Nil /\ d.tick \in Ticks
  BY TickName, ActionFields DEF TInv, TypeOK, OrNil, TransferAccepted, Metas
<1>2. accounts[a.owner][d.tick] \in Balances
  <2>1. a.owner \in Users
    BY ActionFields
  <2>2. accounts[a.owner][d.tick] \in OrNil(Balances)
    BY <1>1, <2>1 DEF TInv, TypeOK
  <2>3. accounts[a.owner][d.tick] # Nil
    BY DEF TransferAccepted
  <2> QED BY <2>2, <2>3 DEF OrNil
<1>3. all_transfers[a.loc] \in Transfers
  BY ActionFields DEF TInv, TypeOK, OrNil, TransferAccepted
<1> HIDE DEF d
<1>4. ValidRow(a, d) \in Transfers /\ ValidRow(a, d) # Nil
  BY <1>1, <1>3, ActionFields, LedgerAssumption DEF Transfers, ValidRow
<1> QED BY <1>1, <1>2, <1>4, ActionFields, LedgerAssumption DEF d

LEMMA TInvTransfer == TInv /\ ProcessTransfer => TInv'
<1> SUFFICES ASSUME TInv, ProcessTransfer PROVE TInv'
  OBVIOUS
<1> DEFINE a == Head(queue)
           d == tokens[Lower[a.tick]]
           row == accounts[a.owner][d.tick]
<1>1. /\ a \in Actions /\ a.op = "transfer" /\ queue' \in Seq(Actions)
      /\ a.owner \in Users /\ a.tick \in Ticks /\ a.loc \in Locations
  BY QueueStep, ActionFields DEF TInv, ProcessTransfer
<1>2. all_transfers' \in [Locations -> OrNil(Transfers)]
  BY <1>1 DEF TInv, TypeOK, ProcessTransfer, OrNil
<1>3. /\ accounts' \in [Users -> [Ticks -> OrNil(Balances)]]
      /\ valid_transfers' \in [Locations -> OrNil(Transfers)]
  <2>1. CASE TransferAccepted(a)
    <3>1. /\ d.tick \in Ticks /\ row \in Balances /\ a.amt.value \in Nat
          /\ ValidRow(a, d) \in Transfers
      BY <1>1, <2>1, TransferFields
    <3>2. Covers(row, a.amt.value)
      BY <2>1 DEF TransferAccepted
    <3>3. Locked(row, a.amt.value) \in Balances
      BY <3>1, <3>2, LockedRow
    <3>4. /\ accounts' = [accounts EXCEPT ![a.owner][d.tick] = Locked(row, a.amt.value)]
          /\ valid_transfers' = [valid_transfers EXCEPT ![a.loc] = ValidRow(a, d)]
      BY <1>1, <2>1, <3>1 DEF ProcessTransfer, TInv, TypeOK
    <3> HIDE DEF a, d, row
    <3> QED BY <1>1, <3>1, <3>3, <3>4 DEF TInv, TypeOK, OrNil
  <2>2. CASE ~TransferAccepted(a)
    BY <2>2 DEF ProcessTransfer, TInv, TypeOK
  <2> QED BY <2>1, <2>2
<1>4. TypeOK'
  BY <1>1, <1>2, <1>3 DEF TInv, TypeOK, ProcessTransfer, Dequeue, db
<1>5. SupplyWithinMax' /\ MovableKnown'
  BY DEF TInv, SupplyWithinMax, MovableKnown, ProcessTransfer, Dequeue, db
<1> QED BY <1>4, <1>5 DEF TInv

\* What a move that does not panic finds.
LEMMA MoveFields ==
  ASSUME TInv, NEW l \in Locations, valid_transfers[l] # Nil, ~InvalidSender(valid_transfers[l])
  PROVE  LET tr == valid_transfers[l]
             d == tokens[Lower[tr.tick]]
             old == accounts[tr.owner][d.tick]
         IN  /\ tr \in Transfers /\ tr.owner \in Users /\ tr.amt \in Nat
             /\ Lower[tr.tick] \in Names
             /\ d \in Metas /\ d # Nil /\ d.tick \in Ticks
             /\ old \in Balances /\ old # Nil
             /\ old.count > 0 /\ old.transferable >= tr.amt
             /\ Unlocked(old, tr.amt) \in Balances
             /\ Unlocked(old, tr.amt) # Nil
             /\ tr.amt <= Total(old)
             /\ Total(Unlocked(old, tr.amt)) = Total(old) - tr.amt
<1> DEFINE tr == valid_transfers[l]
           d == tokens[Lower[tr.tick]]
           old == accounts[tr.owner][d.tick]
<1>1. tr \in Transfers /\ tr.owner \in Users /\ tr.amt \in Nat /\ tr.tick \in Ticks
  BY DEF TInv, TypeOK, OrNil, Transfers
<1>2. d \in Metas /\ d # Nil /\ d.tick \in Ticks
  BY <1>1, TickName DEF TInv, TypeOK, OrNil, InvalidSender, Metas
<1>3. old # Nil /\ old.count # 0 /\ ~(old.transferable < tr.amt)
  BY DEF InvalidSender
<1>4. old \in Balances
  <2>1. old \in OrNil(Balances)
    BY <1>1, <1>2 DEF TInv, TypeOK
  <2> QED BY <1>3, <2>1 DEF OrNil
<1> HIDE DEF tr, d, old
<1>5. /\ old.count > 0 /\ old.transferable >= tr.amt
      /\ Unlocked(old, tr.amt) \in Balances
      /\ tr.amt <= Total(old)
      /\ Total(Unlocked(old, tr.amt)) = Total(old) - tr.amt
  <2>1. old.count > 0 /\ old.transferable >= tr.amt
    BY <1>1, <1>3, <1>4 DEF Balances
  <2> QED BY <1>1, <1>3, <1>4, <2>1, UnlockedRow
<1>6. Unlocked(old, tr.amt) # Nil
  BY <1>5, LedgerAssumption
<1>7. Lower[tr.tick] \in Names
  BY <1>1, TickName
<1> QED BY <1>1, <1>2, <1>3, <1>4, <1>5, <1>6, <1>7 DEF tr, d, old

LEMMA TInvTransferred == TInv /\ ProcessTransferred => TInv'
<1> SUFFICES ASSUME TInv, ProcessTransferred PROVE TInv'
  OBVIOUS
<1> DEFINE a == Head(queue)
           tr == valid_transfers[a.loc]
<1>1. /\ queue' \in Seq(Actions) /\ a.loc \in Locations
      /\ a.recipient \in Users \cup {Burned}
  BY QueueStep, ActionFields DEF TInv, ProcessTransferred
<1>2. valid_transfers' \in [Locations -> OrNil(Transfers)]
  BY <1>1 DEF TInv, TypeOK, ProcessTransferred, OrNil
<1>3. /\ accounts' \in [Users -> [Ticks -> OrNil(Balances)]]
      /\ holders' \in [Ticks -> [sorted : SUBSET (Nat \X Users), stats : Int]]
  <2>1. CASE tr = Nil
    BY <2>1 DEF ProcessTransferred, TInv, TypeOK
  <2>2. CASE tr # Nil
    <3> DEFINE t == tokens[Lower[tr.tick]].tick
               old == accounts[tr.owner][t]
               sent == [accounts EXCEPT ![tr.owner][t] = Unlocked(old, tr.amt)]
               less == Decrease(holders, t, tr.owner, old, tr.amt)
               row == RecipientRow(accounts, sent, a.recipient, t)
    <3>1. /\ tr.owner \in Users /\ tr.amt \in Nat /\ t \in Ticks
          /\ old \in Balances /\ Unlocked(old, tr.amt) \in Balances /\ tr.amt <= Total(old)
      BY <1>1, <2>2, MoveFields DEF ProcessTransferred
    <3>2. Pay(tr, a.recipient)
      BY <2>2 DEF ProcessTransferred
    <3> HIDE DEF tr, t, old, a
    <3>3. sent \in [Users -> [Ticks -> OrNil(Balances)]]
      BY <3>1 DEF TInv, TypeOK, OrNil
    <3>4. less \in [Ticks -> [sorted : SUBSET (Nat \X Users), stats : Int]]
      BY <3>1, DecreaseType DEF TInv, TypeOK
    <3>5. CASE a.recipient = Burned
      BY <3>2, <3>3, <3>4, <3>5 DEF Pay, t, old
    <3>6. CASE a.recipient # Burned
      <4>1. a.recipient \in Users
        BY <1>1, <3>6
      <4>2. row \in Balances
        BY <3>1, <3>3, <4>1, DefaultRow DEF RecipientRow
      <4>3. [row EXCEPT !.balance = @ + tr.amt] \in Balances
        BY <3>1, <4>2, CreditedRow
      <4>4. /\ holders' = Increase(less, t, a.recipient, row, tr.amt)
            /\ accounts' = [sent EXCEPT ![a.recipient][t] = [row EXCEPT !.balance = @ + tr.amt]]
        BY <3>2, <3>6 DEF Pay, t, old
      <4> HIDE DEF sent, less, row
      <4> QED BY <3>1, <3>3, <3>4, <4>1, <4>2, <4>3, <4>4, IncreaseType DEF OrNil
    <3> QED BY <3>5, <3>6
  <2> QED BY <2>1, <2>2
<1>4. TypeOK'
  BY <1>1, <1>2, <1>3 DEF TInv, TypeOK, ProcessTransferred, Dequeue, db
<1>5. SupplyWithinMax' /\ MovableKnown'
  BY DEF TInv, SupplyWithinMax, MovableKnown, ProcessTransferred, Dequeue, db
<1> QED BY <1>4, <1>5 DEF TInv

LEMMA TInvPanic == TInv /\ PanicTransferred => TInv'
<1> SUFFICES ASSUME TInv, PanicTransferred PROVE TInv'
  OBVIOUS
<1>1. TypeOK'
  BY QueueStep DEF TInv, TypeOK, PanicTransferred, Dequeue, db
<1>2. SupplyWithinMax' /\ MovableKnown'
  BY DEF TInv, SupplyWithinMax, MovableKnown, PanicTransferred, Dequeue, db
<1> QED BY <1>1, <1>2 DEF TInv

LEMMA TInvCommit == TInv /\ CommitBlock => TInv'
<1> SUFFICES ASSUME TInv, CommitBlock PROVE TInv'
  OBVIOUS
<1>1. TypeOK'
  <2>1. meta' \in [Names -> OrNil(Metas)]
    BY DEF TInv, TypeOK, CommitBlock, OrNil
  <2>2. balances' \in [Users -> [Ticks -> OrNil(Balances)]]
    BY DEF TInv, TypeOK, CommitBlock, OrNil
  <2>3. transfers' \in [Locations -> OrNil(Transfers)]
    BY DEF TInv, TypeOK, CommitBlock, WrittenTransfer, OrNil
  <2>4. /\ tokens' \in [Names -> OrNil(Metas)]
        /\ accounts' \in [Users -> [Ticks -> OrNil(Balances)]]
        /\ all_transfers' \in [Locations -> OrNil(Transfers)]
        /\ valid_transfers' \in [Locations -> OrNil(Transfers)]
    BY DEF CommitBlock, NoRows, NoAccounts, OrNil
  <2> QED BY <2>1, <2>2, <2>3, <2>4 DEF TInv, TypeOK, CommitBlock
<1>2. SupplyWithinMax'
  BY DEF TInv, TypeOK, SupplyWithinMax, CommitBlock, NoRows
<1>3. MovableKnown'
  BY DEF TInv, MovableKnown, CommitBlock
<1> QED BY <1>1, <1>2, <1>3 DEF TInv

LEMMA TInvNext == TInv /\ [Next]_vars => TInv'
<1> SUFFICES ASSUME TInv, [Next]_vars PROVE TInv'
  OBVIOUS
<1>1. CASE Parse
  BY <1>1, TInvParse
<1>2. CASE Process
  BY <1>2, TInvLoad, TInvDeploy, TInvMint, TInvTransfer, TInvTransferred, TInvPanic DEF Process
<1>3. CASE CommitBlock
  BY <1>3, TInvCommit
<1>4. CASE UNCHANGED vars
  BY <1>4 DEF TInv, TypeOK, SupplyWithinMax, MovableKnown, vars, db, cache
<1> QED BY <1>1, <1>2, <1>3, <1>4 DEF Next, Terminated

(* The cache and the tables keep the types of the code through any sequence of
   blocks: in particular no balance, locked balance or transfer count of an account
   ever goes below zero in process_token_actions, also under the jubilee rule. *)
THEOREM TypeCorrect == Spec => []TypeOK
<1>1. TInv => TypeOK
  BY DEF TInv
<1> QED BY TInvInit, TInvNext, <1>1, PTL DEF Spec

(* The cap of a mint holds for every list of terms and amounts and any number of
   tokens, users and blocks: the supply never passes the maximum. *)
THEOREM SupplyCapped == Spec => []SupplyWithinMax
<1>1. TInv => SupplyWithinMax
  BY DEF TInv
<1> QED BY TInvInit, TInvNext, <1>1, PTL DEF Spec

----------------------------------------------------------------------------
(* The cache of a block and the tables. *)

\* Outside of "process" nothing is cached.
CacheEmpty ==
  /\ phase \in {"idle", "parse"} => tokens = NoRows(Names) /\ accounts = NoAccounts
  /\ phase = "idle" => queue = <<>>

TicksUnderName ==
  \A n \in Names : /\ tokens[n] # Nil => Lower[tokens[n].tick] = n
                   /\ meta[n] # Nil => Lower[meta[n].tick] = n
                   /\ tokens[n] # Nil /\ meta[n] # Nil => tokens[n].tick = meta[n].tick

NamesLoaded ==
  phase = "process" =>
    \A i \in DOMAIN queue :
      queue[i].op = "deploy" /\ tokens[Lower[queue[i].tick]] = Nil =>
        meta[Lower[queue[i].tick]] = Nil

\* The ticks under which a token is deployed, and what the accounts hold.
Deployed == {t \in Ticks : Token(Lower[t]) # Nil /\ Token(Lower[t]).tick = t}
Held == [t \in Ticks |-> [u \in Users |-> Total(Row(u, t))]]

AllSpelled ==
  /\ \A u \in Users, t \in Ticks : Held[t][u] # 0 => t \in Deployed
  /\ \A l \in Locations : /\ valid_transfers[l] # Nil => valid_transfers[l].tick \in Deployed
                          /\ transfers[l] # Nil => transfers[l].tick \in Deployed

SInv == TInv /\ CacheEmpty /\ TicksUnderName /\ NamesLoaded /\ AllSpelled

\* Every account of u under a spelling of n is cached, or empty.
Covered(u, n) ==
  \A t \in Ticks :
    Lower[t] = n /\ accounts[u][t] = Nil => Total(OrDefault(balances[u][t])) = 0

QueueCovered ==
  phase = "process" =>
    \A i \in DOMAIN queue :
      /\ queue[i].op = "mint" => Covered(queue[i].owner, Lower[queue[i].tick])
      /\ queue[i].op = "transferred" /\ queue[i].recipient # Burned =>
           /\ all_transfers[queue[i].loc] # Nil =>
                Covered(queue[i].recipient, Lower[all_transfers[queue[i].loc].tick])
           /\ valid_transfers[queue[i].loc] # Nil =>
                Covered(queue[i].recipient, Lower[valid_transfers[queue[i].loc].tick])

TransfersKnown ==
  /\ phase = "parse" =>
       /\ \A l \in Locations : valid_transfers[l] # Nil => all_transfers[l] = valid_transfers[l]
       /\ \A i \in DOMAIN queue : queue[i].op = "transfer" => all_transfers[queue[i].loc] # Nil
  /\ phase \in {"parse", "process"} =>
       \A i \in DOMAIN queue :
         queue[i].op = "transfer" /\ all_transfers[queue[i].loc] # Nil =>
           all_transfers[queue[i].loc].tick = queue[i].tick

CInv == SInv /\ QueueCovered /\ TransfersKnown

\* HoldersExact, with what the users hold as one function.
Entries(f) == {<<f[u], u>> : u \in {v \in Users : f[v] # 0}}
Indexes(h, F) ==
  \A t \in Ticks : h[t].sorted = Entries(F[t]) /\ h[t].stats = Cardinality(Entries(F[t]))
Indexed == Indexes(holders, Held)

HInv == CInv /\ Indexed

----------------------------------------------------------------------------
(* The queue, the cache and the tables. *)

LEMMA TailAction ==
  ASSUME TypeOK, queue # <<>>, NEW i \in DOMAIN Tail(queue)
  PROVE  i + 1 \in DOMAIN queue /\ Tail(queue)[i] = queue[i + 1]
BY DEF TypeOK

LEMMA HeadAction ==
  ASSUME TypeOK, queue # <<>>
  PROVE  1 \in DOMAIN queue /\ queue[1] = Head(queue)
BY DEF TypeOK

LEMMA QueuedAction ==
  ASSUME TypeOK, NEW i \in DOMAIN queue
  PROVE  queue[i] \in Actions
BY DEF TypeOK

LEMMA DeployedFrame ==
  ASSUME UNCHANGED <<tokens, meta>>
  PROVE  Deployed' = Deployed
BY DEF Deployed, Token

LEMMA HeldFrame ==
  ASSUME UNCHANGED <<accounts, balances>>
  PROVE  Held' = Held
BY DEF Held, Row

LEMMA NoBalance == Total(ZeroBalance) = 0
BY DEF Total, ZeroBalance

\* An action leaves the queue, and no token leaves the cache.
LEMMA NamesStayLoaded ==
  ASSUME TInv, NamesLoaded, NEW op, Dequeue(op),
         \A n \in Names : tokens'[n] = Nil => tokens[n] = Nil
  PROVE  NamesLoaded'
<1> SUFFICES ASSUME phase' = "process", NEW i \in DOMAIN queue', queue'[i].op = "deploy",
                    tokens'[Lower[queue'[i].tick]] = Nil
             PROVE  meta'[Lower[queue'[i].tick]] = Nil
  BY DEF NamesLoaded
<1>1. queue # <<>> /\ queue' = Tail(queue) /\ meta' = meta /\ phase = "process"
  BY DEF Dequeue, db
<1>2. i + 1 \in DOMAIN queue /\ queue'[i] = queue[i + 1]
  BY <1>1, TailAction DEF TInv
<1>3. Lower[queue[i + 1].tick] \in Names
  BY <1>2, QueuedAction, ActionFields, TickName DEF TInv
<1> QED BY <1>1, <1>2, <1>3 DEF NamesLoaded

----------------------------------------------------------------------------
(* OneSpelling, one lemma per action. *)

LEMMA SInvInit == Init => SInv
<1> SUFFICES ASSUME Init PROVE SInv
  OBVIOUS
<1>1. CacheEmpty /\ TicksUnderName /\ NamesLoaded
  BY DEF Init, CacheEmpty, TicksUnderName, NamesLoaded, NoRows
<1>2. ASSUME NEW u \in Users, NEW t \in Ticks PROVE Held[t][u] = 0
  BY NoBalance DEF Init, NoAccounts, Held, Row, OrDefault
<1>3. AllSpelled
  BY <1>2 DEF AllSpelled, Init, NoRows
<1> QED BY <1>1, <1>3, TInvInit DEF SInv

LEMMA ParseKeeps ==
  ASSUME Parse
  PROVE  /\ UNCHANGED <<meta, balances, transfers, holders, tokens, accounts>>
         /\ phase \in {"idle", "parse"} /\ phase' = "parse"
         /\ \A l \in Locations : valid_transfers'[l] \in {valid_transfers[l], transfers[l], Nil}
BY DEF Parse, BeginBlock, InscribeDeploy, InscribeMint, InscribeTransfer, MoveTransfer,
       LeakTransfer, Enqueue, db

LEMMA SInvParse == SInv /\ Parse => SInv'
<1> SUFFICES ASSUME SInv, Parse PROVE SInv'
  OBVIOUS
<1>1. TInv'
  BY TInvParse DEF SInv
<1>2. CacheEmpty' /\ TicksUnderName' /\ NamesLoaded'
  BY ParseKeeps DEF SInv, CacheEmpty, TicksUnderName, NamesLoaded, NoRows, NoAccounts
<1>3. AllSpelled'
  BY ParseKeeps, DeployedFrame, HeldFrame DEF SInv, AllSpelled
<1> QED BY <1>1, <1>2, <1>3 DEF SInv

\* Loading changes what is cached, not what a reader of cache and tables sees.
LEMMA LoadKeeps ==
  ASSUME SInv, LoadTokensData
  PROVE  /\ Deployed' = Deployed
         /\ Held' = Held
         /\ \A n \in Names : tokens'[n] \in {meta[n], Nil}
<1>1. /\ tokens' = [n \in Names |-> IF n \in Tickers THEN meta[n] ELSE Nil]
      /\ meta' = meta /\ balances' = balances
  BY DEF LoadTokensData, db
<1>2. tokens = NoRows(Names) /\ accounts = NoAccounts
  BY DEF SInv, CacheEmpty, LoadTokensData
<1>3. ASSUME NEW u \in Users, NEW t \in Ticks PROVE accounts'[u][t] \in {balances[u][t], Nil}
  BY DEF LoadTokensData
<1>4. ASSUME NEW n \in Names PROVE Token(n)' = Token(n) /\ tokens'[n] \in {meta[n], Nil}
  BY <1>1, <1>2 DEF Token, NoRows
<1>5. ASSUME NEW u \in Users, NEW t \in Ticks PROVE Row(u, t)' = Row(u, t)
  BY <1>1, <1>2, <1>3 DEF Row, NoAccounts, OrDefault
<1>6. Deployed' = Deployed
  BY <1>4, TickName DEF Deployed
<1>7. Held' = Held
  BY <1>5 DEF Held
<1> QED BY <1>4, <1>6, <1>7

LEMMA SInvLoad == SInv /\ LoadTokensData => SInv'
<1> SUFFICES ASSUME SInv, LoadTokensData PROVE SInv'
  OBVIOUS
<1>1. TInv'
  BY TInvLoad DEF SInv
<1>2. meta' = meta /\ queue' = queue /\ phase' = "process"
      /\ transfers' = transfers /\ valid_transfers' = valid_transfers
  BY DEF LoadTokensData, db
<1>3. CacheEmpty'
  BY <1>2 DEF CacheEmpty
<1>4. TicksUnderName'
  BY <1>2, LoadKeeps DEF SInv, TicksUnderName
<1>5. NamesLoaded'
  <2> SUFFICES ASSUME NEW i \in DOMAIN queue, queue[i].op = "deploy",
                      tokens'[Lower[queue[i].tick]] = Nil
               PROVE  meta[Lower[queue[i].tick]] = Nil
    BY <1>2 DEF NamesLoaded
  <2>1. Lower[queue[i].tick] \in Tickers
    BY DEF Tickers, Inscriptions
  <2>2. Lower[queue[i].tick] \in Names
    BY QueuedAction, ActionFields, TickName DEF SInv, TInv
  <2> QED BY <2>1, <2>2 DEF LoadTokensData
<1>6. AllSpelled'
  BY <1>2, LoadKeeps DEF SInv, AllSpelled
<1> QED BY <1>1, <1>3, <1>4, <1>5, <1>6 DEF SInv

LEMMA SInvDeploy == SInv /\ ProcessDeploy => SInv'
<1> SUFFICES ASSUME SInv, ProcessDeploy PROVE SInv'
  OBVIOUS
<1> DEFINE a == Head(queue)
           n == Lower[a.tick]
           d == [tick |-> a.tick, max |-> a.terms.max, lim |-> a.terms.lim,
                 dec |-> a.terms.dec, supply |-> 0]
<1>1. TInv'
  BY TInvDeploy DEF SInv
<1>2. /\ a.op = "deploy" /\ a.tick \in Ticks /\ a.terms \in Terms /\ n \in Names
      /\ a = queue[1] /\ 1 \in DOMAIN queue
  BY QueueStep, ActionFields, TickName, HeadAction DEF SInv, TInv, ProcessDeploy, Dequeue
<1>3. d \in Metas /\ d # Nil /\ d.tick = a.tick
  BY <1>2, LedgerAssumption DEF Metas
<1>4. /\ UNCHANGED <<meta, balances, transfers, accounts, valid_transfers, phase>>
      /\ phase = "process"
  BY DEF ProcessDeploy, Dequeue, db
<1>5. CASE tokens[n] = Nil
  <2>1. meta[n] = Nil
    BY <1>2, <1>4, <1>5 DEF SInv, NamesLoaded
  <2>2. tokens' = [tokens EXCEPT ![n] = d]
    BY <1>5 DEF ProcessDeploy, DeployAccepted
  <2> HIDE DEF a, n, d
  <2>3. tokens \in [Names -> OrNil(Metas)]
    BY DEF SInv, TInv, TypeOK
  <2>4. \A m \in Names : m # n => tokens'[m] = tokens[m]
    BY <2>2, <2>3
  <2>5. tokens'[n] = d /\ Lower[d.tick] = n
    BY <1>2, <1>3, <2>2, <2>3 DEF n
  <2>6. NamesLoaded'
    <3>1. \A m \in Names : tokens'[m] = Nil => tokens[m] = Nil
      BY <1>5, <2>4
    <3> QED BY <3>1, NamesStayLoaded DEF SInv, ProcessDeploy
  <2>7. TicksUnderName'
    BY <1>3, <1>4, <2>1, <2>4, <2>5 DEF SInv, TicksUnderName
  <2>8. Deployed \subseteq Deployed'
    <3> SUFFICES ASSUME NEW t \in Deployed PROVE t \in Deployed'
      OBVIOUS
    <3>1. t \in Ticks /\ Lower[t] # n /\ Lower[t] \in Names
      BY <1>5, <2>1, TickName DEF Deployed, Token
    <3> QED BY <1>4, <2>4, <3>1 DEF Deployed, Token
  <2>9. AllSpelled'
    BY <1>4, <2>8, HeldFrame DEF SInv, AllSpelled
  <2> QED BY <1>1, <1>4, <2>6, <2>7, <2>9 DEF SInv, CacheEmpty
<1>6. CASE tokens[n] # Nil
  <2>1. tokens' = tokens
    BY <1>6 DEF ProcessDeploy, DeployAccepted
  <2>2. NamesLoaded'
    BY <2>1, NamesStayLoaded DEF SInv, ProcessDeploy
  <2>3. AllSpelled'
    BY <1>4, <2>1, HeldFrame, DeployedFrame DEF SInv, AllSpelled
  <2> QED BY <1>1, <1>4, <2>1, <2>2, <2>3 DEF SInv, CacheEmpty, TicksUnderName
<1> QED BY <1>5, <1>6

LEMMA SInvMint == SInv /\ ProcessMint => SInv'
<1> SUFFICES ASSUME SInv, ProcessMint PROVE SInv'
  OBVIOUS
<1> DEFINE a == Head(queue)
           n == Lower[a.tick]
           d == tokens[n]
           row == OrDefault(accounts[a.owner][d.tick])
           paid == Minted(a, d)
<1>1. TInv'
  BY TInvMint DEF SInv
<1>2. /\ UNCHANGED <<meta, balances, transfers, valid_transfers, phase>>
      /\ phase = "process"
  BY DEF ProcessMint, Dequeue, db
<1>3. CASE MintAccepted(a)
  <2>1. a \in Actions /\ a.op = "mint" /\ a.owner \in Users /\ n \in Names
    BY QueueStep, ActionFields, TickName DEF SInv, TInv, ProcessMint
  <2>2. d \in Metas /\ d # Nil /\ d.tick \in Ticks
    BY <1>3, <2>1, MintedBounds DEF SInv
  <2>3. /\ tokens' = [tokens EXCEPT ![n].supply = @ + paid]
        /\ accounts' = [accounts EXCEPT ![a.owner][d.tick] = [row EXCEPT !.balance = @ + paid]]
    BY <1>3 DEF ProcessMint
  <2>4. tokens \in [Names -> OrNil(Metas)] /\ accounts \in [Users -> [Ticks -> OrNil(Balances)]]
    BY DEF SInv, TInv, TypeOK
  <2>5. Lower[d.tick] = n
    BY <2>1, <2>2 DEF SInv, TicksUnderName
  <2> HIDE DEF a, n, row, paid
  <2>6. \A m \in Names : m # n => tokens'[m] = tokens[m]
    BY <2>3, <2>4
  <2>7. tokens'[n].tick = d.tick /\ tokens'[n] # Nil
    <3>1. tokens'[n] = [d EXCEPT !.supply = @ + paid]
      BY <2>1, <2>3, <2>4
    <3>2. tokens'[n].tick = d.tick
      BY <2>2, <3>1 DEF Metas
    <3>3. d.supply \in Nat /\ paid \in Nat
      BY <1>3, <2>1, <2>2, MintedBounds DEF SInv, Metas, n, paid
    <3>4. tokens'[n] \in Metas
      BY <2>2, <3>1, <3>3 DEF Metas
    <3> QED BY <3>2, <3>4, LedgerAssumption
  <2> PICK tick \in Ticks : tick = d.tick
    BY <2>2
  <2>8. ASSUME NEW u \in Users, NEW t \in Ticks, t # tick PROVE Held'[t][u] = Held[t][u]
    <3>1. accounts'[u][t] = accounts[u][t]
      BY <2>1, <2>2, <2>3, <2>4, <2>8
    <3> QED BY <1>2, <3>1 DEF Held, Row
  <2> HIDE DEF d
  <2>9. NamesLoaded'
    <3>1. \A m \in Names : tokens'[m] = Nil => tokens[m] = Nil
      BY <2>6, <2>7
    <3> QED BY <3>1, NamesStayLoaded DEF SInv, ProcessMint
  <2>10. TicksUnderName'
    BY <1>2, <2>2, <2>5, <2>6, <2>7 DEF SInv, TicksUnderName, d
  <2>11. Deployed \subseteq Deployed'
    BY <1>2, <2>2, <2>6, <2>7, TickName DEF Deployed, Token, d
  <2>12. tick \in Deployed'
    BY <2>5, <2>7 DEF Deployed, Token
  <2>13. AllSpelled'
    BY <1>2, <2>8, <2>11, <2>12 DEF SInv, AllSpelled
  <2> QED BY <1>1, <1>2, <2>9, <2>10, <2>13 DEF SInv, CacheEmpty
<1>4. CASE ~MintAccepted(a)
  <2>1. UNCHANGED <<tokens, accounts>>
    BY <1>4 DEF ProcessMint
  <2>2. NamesLoaded'
    BY <2>1, NamesStayLoaded DEF SInv, ProcessMint
  <2>3. AllSpelled'
    BY <1>2, <2>1, HeldFrame, DeployedFrame DEF SInv, AllSpelled
  <2> QED BY <1>1, <1>2, <2>1, <2>2, <2>3 DEF SInv, CacheEmpty, TicksUnderName
<1> QED BY <1>3, <1>4

\* An inscribed transfer moves tokens inside of one row.
LEMMA TransferKeepsHeld ==
  ASSUME SInv, ProcessTransfer
  PROVE  Held' = Held
<1> DEFINE a == Head(queue)
           d == tokens[Lower[a.tick]]
           row == accounts[a.owner][d.tick]
           locked == Locked(row, a.amt.value)
<1>1. a \in Actions /\ a.op = "transfer" /\ a.owner \in Users /\ a.loc \in Locations
  BY QueueStep, ActionFields DEF SInv, TInv, ProcessTransfer
<1>2. balances' = balances
  BY DEF ProcessTransfer, Dequeue, db
<1>3. CASE TransferAccepted(a)
  <2>1. d.tick \in Ticks /\ row \in Balances /\ a.amt.value \in Nat
    BY <1>1, <1>3, TransferFields DEF SInv
  <2>2. locked \in Balances /\ Total(locked) = Total(row) /\ locked # Nil /\ row # Nil
    BY <1>3, <2>1, LockedRow, LedgerAssumption DEF TransferAccepted
  <2>3. accounts' = [accounts EXCEPT ![a.owner][d.tick] = locked]
    BY <1>3 DEF ProcessTransfer
  <2>4. accounts \in [Users -> [Ticks -> OrNil(Balances)]]
    BY DEF SInv, TInv, TypeOK
  <2>5. ASSUME NEW u \in Users, NEW t \in Ticks PROVE Total(Row(u, t))' = Total(Row(u, t))
    <3> HIDE DEF a, d, locked
    <3>1. CASE u = a.owner /\ t = d.tick
      <4>1. accounts'[u][t] = locked /\ accounts[u][t] = row
        BY <1>1, <2>1, <2>3, <2>4, <3>1
      <4> QED BY <2>2, <4>1 DEF Row, Total
    <3>2. CASE ~(u = a.owner /\ t = d.tick)
      <4>1. accounts'[u][t] = accounts[u][t]
        BY <1>1, <2>1, <2>3, <2>4, <3>2
      <4> QED BY <1>2, <4>1 DEF Row
    <3> QED BY <3>1, <3>2
  <2> QED BY <2>5 DEF Held
<1>4. CASE ~TransferAccepted(a)
  BY <1>2, <1>4, HeldFrame DEF ProcessTransfer
<1> QED BY <1>3, <1>4

LEMMA SInvTransfer == SInv /\ ProcessTransfer => SInv'
<1> SUFFICES ASSUME SInv, ProcessTransfer PROVE SInv'
  OBVIOUS
<1> DEFINE a == Head(queue)
           d == tokens[Lower[a.tick]]
<1>1. TInv'
  BY TInvTransfer DEF SInv
<1>2. /\ UNCHANGED <<meta, balances, transfers, tokens, phase>>
      /\ phase = "process"
  BY DEF ProcessTransfer, Dequeue, db
<1>3. NamesLoaded'
  BY <1>2, NamesStayLoaded DEF SInv, ProcessTransfer
<1>4. Deployed' = Deployed
  BY <1>2, DeployedFrame
<1>5. AllSpelled'
  <2>1. CASE TransferAccepted(a)
    <3>1. a \in Actions /\ a.op = "transfer" /\ a.loc \in Locations /\ Lower[a.tick] \in Names
      BY QueueStep, ActionFields, TickName DEF SInv, TInv, ProcessTransfer
    <3>2. d # Nil /\ d.tick \in Ticks
      BY <2>1, <3>1, TransferFields DEF SInv
    <3>3. d.tick \in Deployed
      BY <3>1, <3>2 DEF SInv, TicksUnderName, Deployed, Token
    <3>4. valid_transfers' = [valid_transfers EXCEPT ![a.loc] = ValidRow(a, d)]
      BY <2>1 DEF ProcessTransfer
    <3>5. ValidRow(a, d).tick = d.tick
      BY DEF ValidRow
    <3> HIDE DEF a, d
    <3>6. \A l \in Locations : valid_transfers'[l] # Nil => valid_transfers'[l].tick \in Deployed
      BY <3>1, <3>3, <3>4, <3>5 DEF SInv, AllSpelled, TInv, TypeOK
    <3> QED BY <1>2, <1>4, <3>6, TransferKeepsHeld DEF SInv, AllSpelled
  <2>2. CASE ~TransferAccepted(a)
    <3>1. valid_transfers' = valid_transfers
      BY <2>2 DEF ProcessTransfer
    <3> QED BY <1>2, <1>4, <3>1, TransferKeepsHeld DEF SInv, AllSpelled
  <2> QED BY <2>1, <2>2
<1> QED BY <1>1, <1>2, <1>3, <1>5 DEF SInv, CacheEmpty, TicksUnderName

\* A move writes under the spelling of its token.
LEMMA PayTick ==
  ASSUME SInv, NEW l \in Locations, valid_transfers[l] # Nil, ~InvalidSender(valid_transfers[l]),
         NEW r \in Users \cup {Burned}, Pay(valid_transfers[l], r)
  PROVE  LET tr == valid_transfers[l]
             t == tokens[Lower[tr.tick]].tick
         IN  /\ t \in Deployed
             /\ \A u \in Users, s \in Ticks : s # t => accounts'[u][s] = accounts[u][s]
<1> DEFINE tr == valid_transfers[l]
           t == tokens[Lower[tr.tick]].tick
           old == accounts[tr.owner][t]
           sent == [accounts EXCEPT ![tr.owner][t] = Unlocked(old, tr.amt)]
           row == RecipientRow(accounts, sent, r, t)
<1>1. /\ tr.owner \in Users /\ t \in Ticks /\ Lower[tr.tick] \in Names
      /\ tokens[Lower[tr.tick]] # Nil
  BY MoveFields DEF SInv
<1>2. t \in Deployed
  BY <1>1 DEF SInv, TicksUnderName, Deployed, Token
<1>3. \/ r = Burned /\ accounts' = sent
      \/ r # Burned /\ accounts' = [sent EXCEPT ![r][t] = [row EXCEPT !.balance = @ + tr.amt]]
  BY DEF Pay
<1>4. accounts \in [Users -> [Ticks -> OrNil(Balances)]]
  BY DEF SInv, TInv, TypeOK
<1> HIDE DEF tr, t, old, row
<1>5. ASSUME NEW u \in Users, NEW s \in Ticks, s # t PROVE accounts'[u][s] = accounts[u][s]
  <2>1. /\ DOMAIN sent = Users /\ sent[u][s] = accounts[u][s]
        /\ \A v \in Users : DOMAIN sent[v] = Ticks
    BY <1>1, <1>4, <1>5
  <2> QED BY <1>1, <1>3, <1>5, <2>1
<1> QED BY <1>2, <1>5 DEF t, tr

LEMMA SInvTransferred == SInv /\ ProcessTransferred => SInv'
<1> SUFFICES ASSUME SInv, ProcessTransferred PROVE SInv'
  OBVIOUS
<1> DEFINE a == Head(queue)
           tr == valid_transfers[a.loc]
<1>1. TInv'
  BY TInvTransferred DEF SInv
<1>2. /\ UNCHANGED <<meta, balances, transfers, tokens, phase>>
      /\ phase = "process"
  BY DEF ProcessTransferred, Dequeue, db
<1>3. a.loc \in Locations /\ a.recipient \in Users \cup {Burned}
  BY QueueStep, ActionFields DEF SInv, TInv, ProcessTransferred
<1>4. NamesLoaded'
  BY <1>2, NamesStayLoaded DEF SInv, ProcessTransferred
<1>5. Deployed' = Deployed
  BY <1>2, DeployedFrame
<1>6. \A l \in Locations : valid_transfers'[l] \in {valid_transfers[l], Nil}
  BY DEF SInv, TInv, TypeOK, ProcessTransferred
<1>7. \A u \in Users, t \in Ticks : Held'[t][u] # 0 => t \in Deployed
  <2>1. CASE tr = Nil
    BY <1>2, <2>1, HeldFrame DEF ProcessTransferred, SInv, AllSpelled
  <2>2. CASE tr # Nil
    <3>1. ~InvalidSender(tr) /\ Pay(tr, a.recipient)
      BY <2>2 DEF ProcessTransferred
    <3> DEFINE tick == tokens[Lower[tr.tick]].tick
    <3>2. /\ tick \in Deployed
          /\ \A u \in Users, s \in Ticks : s # tick => accounts'[u][s] = accounts[u][s]
      BY <1>3, <2>2, <3>1, PayTick
    <3> HIDE DEF tick
    <3>3. \A u \in Users, s \in Ticks : s # tick => Held'[s][u] = Held[s][u]
      BY <1>2, <3>2 DEF Held, Row
    <3> QED BY <3>2, <3>3 DEF SInv, AllSpelled
  <2> QED BY <2>1, <2>2
<1>8. AllSpelled'
  BY <1>2, <1>5, <1>6, <1>7 DEF SInv, AllSpelled
<1> QED BY <1>1, <1>2, <1>4, <1>8 DEF SInv, CacheEmpty, TicksUnderName

LEMMA SInvPanic == SInv /\ PanicTransferred => SInv'
<1> SUFFICES ASSUME SInv, PanicTransferred PROVE SInv'
  OBVIOUS
<1>1. TInv'
  BY TInvPanic DEF SInv
<1>2. /\ UNCHANGED <<meta, balances, transfers, tokens, accounts, valid_transfers>>
      /\ phase' = "panicked"
  BY DEF PanicTransferred, Dequeue, db
<1>3. AllSpelled'
  BY <1>2, HeldFrame, DeployedFrame DEF SInv, AllSpelled
<1> QED BY <1>1, <1>2, <1>3 DEF SInv, CacheEmpty, TicksUnderName, NamesLoaded

\* Writing the cache back changes nothing a reader of cache and tables sees.
LEMMA CommitKeeps ==
  ASSUME SInv, CommitBlock
  PROVE  Deployed' = Deployed /\ Held' = Held
<1>1. ASSUME NEW n \in Names PROVE Token(n)' = Token(n)
  BY DEF CommitBlock, Token, NoRows
<1>2. ASSUME NEW u \in Users, NEW t \in Ticks PROVE Row(u, t)' = Row(u, t)
  BY DEF CommitBlock, Row, NoAccounts, OrDefault
<1>3. Deployed' = Deployed
  BY <1>1, TickName DEF Deployed
<1>4. Held' = Held
  BY <1>2 DEF Held
<1> QED BY <1>3, <1>4

LEMMA SInvCommit == SInv /\ CommitBlock => SInv'
<1> SUFFICES ASSUME SInv, CommitBlock PROVE SInv'
  OBVIOUS
<1>1. TInv'
  BY TInvCommit DEF SInv
<1>2. CacheEmpty' /\ NamesLoaded'
  BY DEF CommitBlock, CacheEmpty, NamesLoaded
<1>3. TicksUnderName'
  BY DEF SInv, TicksUnderName, CommitBlock, NoRows
<1>4. \A l \in Locations : /\ valid_transfers'[l] = Nil
                          /\ transfers'[l] \in {valid_transfers[l], transfers[l], Nil}
  BY DEF CommitBlock, WrittenTransfer, NoRows
<1>5. AllSpelled'
  BY <1>4, CommitKeeps DEF SInv, AllSpelled
<1> QED BY <1>1, <1>2, <1>3, <1>5 DEF SInv

LEMMA SInvNext == SInv /\ [Next]_vars => SInv'
<1> SUFFICES ASSUME SInv, [Next]_vars PROVE SInv'
  OBVIOUS
<1>1. CASE Parse
  BY <1>1, SInvParse
<1>2. CASE Process
  BY <1>2, SInvLoad, SInvDeploy, SInvMint, SInvTransfer, SInvTransferred, SInvPanic DEF Process
<1>3. CASE CommitBlock
  BY <1>3, SInvCommit
<1>4. CASE UNCHANGED vars
  <2>1. UNCHANGED <<meta, balances, transfers, tokens, accounts, queue, valid_transfers, phase>>
    BY <1>4 DEF vars, db, cache
  <2>2. TInv'
    BY TInvNext DEF SInv
  <2>3. AllSpelled'
    BY <2>1, HeldFrame, DeployedFrame DEF SInv, AllSpelled
  <2> QED BY <2>1, <2>2, <2>3 DEF SInv, CacheEmpty, TicksUnderName, NamesLoaded
<1> QED BY <1>1, <1>2, <1>3, <1>4 DEF Next, Terminated

(* A token never has a second ledger under another spelling of its name: whatever
   spellings the inscriptions use and whatever is cached, tokens are held and
   transfers are valid only under the spelling of the deploy, in the cache and in
   the tables. The jubilee rule does not matter. *)
THEOREM SpellingUnique == Spec => []OneSpelling
<1>1. SInv => OneSpelling
  <2> SUFFICES ASSUME SInv PROVE OneSpelling
    OBVIOUS
  <2>1. ASSUME NEW u \in Users, NEW t \in Ticks, Total(Row(u, t)) # 0
        PROVE  Token(Lower[t]) # Nil /\ Token(Lower[t]).tick = t
    BY <2>1 DEF SInv, AllSpelled, Held, Deployed
  <2>2. ASSUME NEW l \in Locations, Pending(l) # Nil
        PROVE  /\ Token(Lower[Pending(l).tick]) # Nil
               /\ Token(Lower[Pending(l).tick]).tick = Pending(l).tick
    <3>1. Pending(l) \in {valid_transfers[l], transfers[l]}
      BY DEF Pending
    <3>2. Pending(l).tick \in Deployed
      BY <2>2, <3>1 DEF SInv, AllSpelled
    <3> QED BY <3>2 DEF Deployed
  <2> QED BY <2>1, <2>2 DEF OneSpelling
<1> QED BY SInvInit, SInvNext, <1>1, PTL DEF Spec

----------------------------------------------------------------------------
(* The sorted set of a tick, as a function of what its users hold. *)

LEMMA EntriesFinite ==
  ASSUME NEW f \in [Users -> Nat]
  PROVE  IsFiniteSet(Entries(f)) /\ Cardinality(Entries(f)) \in Nat
<1> DEFINE S == {v \in Users : f[v] # 0}
           g == [u \in S |-> <<f[u], u>>]
<1>1. IsFiniteSet(S)
  BY LedgerAssumption, FS_Subset
<1>2. g \in Surjection(S, Entries(f))
  BY DEF Surjection, Entries
<1>3. IsFiniteSet(Entries(f))
  BY <1>1, <1>2, FS_Surjection
<1> QED BY <1>3, FS_CardinalityType

LEMMA EntriesRaise ==
  ASSUME NEW f \in [Users -> Nat], NEW u \in Users, NEW amt \in Nat \ {0}
  PROVE  LET old == <<f[u], u>>
             g == [f EXCEPT ![u] = f[u] + amt]
         IN  /\ Entries(g) = (Entries(f) \ {old}) \cup {<<f[u] + amt, u>>}
             /\ Cardinality(Entries(g)) =
                  IF old \in Entries(f) THEN Cardinality(Entries(f)) ELSE Cardinality(Entries(f)) + 1
<1> DEFINE old == <<f[u], u>>
           new == <<f[u] + amt, u>>
           g == [f EXCEPT ![u] = f[u] + amt]
<1>1. Entries(g) = (Entries(f) \ {old}) \cup {new}
  BY DEF Entries
<1>2. new \notin Entries(f) \ {old}
  BY DEF Entries
<1> HIDE DEF new, old, g
<1>3. /\ IsFiniteSet(Entries(f) \ {old}) /\ Cardinality(Entries(f)) \in Nat
      /\ Cardinality(Entries(f) \ {old}) =
           IF old \in Entries(f) THEN Cardinality(Entries(f)) - 1 ELSE Cardinality(Entries(f))
  BY EntriesFinite, FS_RemoveElement
<1>4. Cardinality(Entries(g)) = Cardinality(Entries(f) \ {old}) + 1
  <2> DEFINE S == Entries(f) \ {old}
  <2>1. IsFiniteSet(S) /\ new \notin S /\ Entries(g) = S \cup {new}
    BY <1>1, <1>2, <1>3
  <2> HIDE DEF S
  <2>2. Cardinality(S \cup {new}) = Cardinality(S) + 1
    BY <2>1, FS_AddElement
  <2> QED BY <2>1, <2>2 DEF S
<1>5. Cardinality(Entries(g)) =
        IF old \in Entries(f) THEN Cardinality(Entries(f)) ELSE Cardinality(Entries(f)) + 1
  BY <1>3, <1>4
<1> QED BY <1>1, <1>5 DEF new, old, g

LEMMA EntriesLower ==
  ASSUME NEW f \in [Users -> Nat], NEW u \in Users, NEW amt \in Nat \ {0}, amt <= f[u]
  PROVE  LET left == f[u] - amt
             g == [f EXCEPT ![u] = left]
         IN  /\ Entries(g) = (Entries(f) \ {<<f[u], u>>}) \cup (IF left # 0 THEN {<<left, u>>} ELSE {})
             /\ Cardinality(Entries(g)) =
                  IF left # 0 THEN Cardinality(Entries(f)) ELSE Cardinality(Entries(f)) - 1
<1> DEFINE old == <<f[u], u>>
           left == f[u] - amt
           new == <<left, u>>
           g == [f EXCEPT ![u] = left]
<1>1. left \in Nat /\ f[u] # 0
  OBVIOUS
<1>2. Entries(g) = (Entries(f) \ {old}) \cup (IF left # 0 THEN {new} ELSE {})
  BY <1>1 DEF Entries
<1>3. new \notin Entries(f) \ {old} /\ old \in Entries(f)
  BY <1>1 DEF Entries
<1> HIDE DEF new, old, g, left
<1>4. /\ IsFiniteSet(Entries(f) \ {old}) /\ Cardinality(Entries(f)) \in Nat
      /\ Cardinality(Entries(f) \ {old}) = Cardinality(Entries(f)) - 1
  BY <1>3, EntriesFinite, FS_RemoveElement
<1>5. Cardinality(Entries(g)) =
        IF left # 0 THEN Cardinality(Entries(f)) ELSE Cardinality(Entries(f)) - 1
  <2>1. CASE left # 0
    <3>1. Entries(g) = (Entries(f) \ {old}) \cup {new} /\ new \notin Entries(f) \ {old}
      BY <1>2, <1>3, <2>1
    <3> QED BY <1>4, <2>1, <3>1, FS_AddElement
  <2>2. CASE left = 0
    <3>1. Entries(g) = Entries(f) \ {old}
      BY <1>2, <2>2
    <3> QED BY <1>4, <2>2, <3>1
  <2> QED BY <2>1, <2>2
<1> QED BY <1>2, <1>5 DEF new, old, g, left

HolderTables == [Ticks -> [sorted : SUBSET (Nat \X Users), stats : Int]]

Put(f, x, y, value) == [f EXCEPT ![x][y] = value]

LEMMA IncreaseIndexes ==
  ASSUME NEW h \in HolderTables, NEW F \in [Ticks -> [Users -> Nat]], Indexes(h, F),
         NEW t \in Ticks, NEW u \in Users, NEW acc, Total(acc) = F[t][u],
         NEW amt \in Nat \ {0}
  PROVE  Indexes(Increase(h, t, u, acc, amt), Put(F, t, u, F[t][u] + amt))
<1> DEFINE G == Put(F, t, u, F[t][u] + amt)
           k == Increase(h, t, u, acc, amt)
           old == <<F[t][u], u>>
<1>1. F[t] \in [Users -> Nat] /\ G[t] = [F[t] EXCEPT ![u] = F[t][u] + amt]
  BY DEF Put
<1>2. /\ Entries(G[t]) = (Entries(F[t]) \ {old}) \cup {<<F[t][u] + amt, u>>}
      /\ Cardinality(Entries(G[t])) =
           IF old \in Entries(F[t]) THEN Cardinality(Entries(F[t])) ELSE Cardinality(Entries(F[t])) + 1
  <2> PICK f, g : f = F[t] /\ g = G[t]
    OBVIOUS
  <2>1. f \in [Users -> Nat] /\ g = [f EXCEPT ![u] = f[u] + amt] /\ old = <<f[u], u>>
    BY <1>1
  <2>2. /\ Entries(g) = (Entries(f) \ {<<f[u], u>>}) \cup {<<f[u] + amt, u>>}
        /\ Cardinality(Entries(g)) =
             IF <<f[u], u>> \in Entries(f) THEN Cardinality(Entries(f)) ELSE Cardinality(Entries(f)) + 1
    BY <2>1, EntriesRaise
  <2> HIDE DEF G
  <2> QED BY <2>2
<1>3. /\ k[t].sorted = (h[t].sorted \ {old}) \cup {<<F[t][u] + amt, u>>}
      /\ k[t].stats = IF old \in h[t].sorted THEN h[t].stats ELSE h[t].stats + 1
  BY DEF Increase, HolderTables
<1>4. ASSUME NEW s \in Ticks, s # t PROVE k[s] = h[s] /\ G[s] = F[s]
  BY <1>4 DEF Increase, HolderTables, Put
<1>5. h[t].sorted = Entries(F[t]) /\ h[t].stats = Cardinality(Entries(F[t]))
  BY DEF Indexes
<1> HIDE DEF G, k, old
<1>6. k[t].sorted = Entries(G[t]) /\ k[t].stats = Cardinality(Entries(G[t]))
  BY <1>2, <1>3, <1>5
<1>7. Indexes(k, G)
  BY <1>4, <1>6 DEF Indexes
<1> QED BY <1>7 DEF G, k

LEMMA DecreaseIndexes ==
  ASSUME NEW h \in HolderTables, NEW F \in [Ticks -> [Users -> Nat]], Indexes(h, F),
         NEW t \in Ticks, NEW u \in Users, NEW acc, Total(acc) = F[t][u],
         NEW amt \in Nat \ {0}, amt <= F[t][u]
  PROVE  Indexes(Decrease(h, t, u, acc, amt), Put(F, t, u, F[t][u] - amt))
<1> DEFINE left == F[t][u] - amt
           G == Put(F, t, u, left)
           k == Decrease(h, t, u, acc, amt)
           old == <<F[t][u], u>>
           new == IF left # 0 THEN {<<left, u>>} ELSE {}
<1>1. F[t] \in [Users -> Nat] /\ G[t] = [F[t] EXCEPT ![u] = left]
  BY DEF Put
<1>2. /\ Entries(G[t]) = (Entries(F[t]) \ {old}) \cup new
      /\ Cardinality(Entries(G[t])) =
           IF left # 0 THEN Cardinality(Entries(F[t])) ELSE Cardinality(Entries(F[t])) - 1
  BY <1>1, EntriesLower DEF Put
<1>3. /\ k[t].sorted = (h[t].sorted \ {old}) \cup new
      /\ k[t].stats = IF left # 0 THEN h[t].stats ELSE h[t].stats - 1
  BY DEF Decrease, HolderTables
<1>4. ASSUME NEW s \in Ticks, s # t PROVE k[s] = h[s] /\ G[s] = F[s]
  BY <1>4 DEF Decrease, HolderTables, Put
<1>5. h[t].sorted = Entries(F[t]) /\ h[t].stats = Cardinality(Entries(F[t]))
  BY DEF Indexes
<1> HIDE DEF G, k, old, new, left
<1>6. k[t].sorted = Entries(G[t]) /\ k[t].stats = Cardinality(Entries(G[t]))
  BY <1>2, <1>3, <1>5
<1>7. Indexes(k, G)
  BY <1>4, <1>6 DEF Indexes
<1> QED BY <1>7 DEF G, k, left

LEMMA HeldType == ASSUME TInv PROVE Held \in [Ticks -> [Users -> Nat]]
<1>1. ASSUME NEW u \in Users, NEW t \in Ticks PROVE Total(Row(u, t)) \in Nat
  <2>1. accounts[u][t] \in OrNil(Balances) /\ balances[u][t] \in OrNil(Balances)
    BY DEF TInv, TypeOK
  <2>2. OrDefault(balances[u][t]) \in Balances
    BY <2>1, DefaultRow
  <2>3. Row(u, t) \in Balances
    BY <2>1, <2>2 DEF Row, OrNil
  <2> QED BY <2>3, TotalNat
<1> QED BY <1>1 DEF Held

LEMMA HoldersAreIndexed == HoldersExact <=> Indexed
BY DEF HoldersExact, Indexed, Indexes, Entries, Held

LEMMA IndexedNext == Indexed' <=> Indexes(holders', Held')
BY DEF Indexed, Indexes, Entries

----------------------------------------------------------------------------
(* HoldersExact without the jubilee rule, one lemma per action. *)

LEMMA HInvInit == Init => HInv
<1> SUFFICES ASSUME Init PROVE HInv
  OBVIOUS
<1>1. SInv
  BY SInvInit
<1>2. QueueCovered /\ TransfersKnown
  BY DEF Init, QueueCovered, TransfersKnown
<1>3. Indexed
  <2>1. \A u \in Users, t \in Ticks : Held[t][u] = 0
    BY NoBalance DEF Init, NoAccounts, Held, Row, OrDefault
  <2>2. \A t \in Ticks : Entries(Held[t]) = {}
    BY <2>1 DEF Entries
  <2> QED BY <2>2, FS_EmptySet DEF Init, Indexed, Indexes
<1> QED BY <1>1, <1>2, <1>3 DEF HInv, CInv

LEMMA CInvInit == Init => CInv
BY HInvInit DEF HInv

LEMMA HoldersFrame ==
  ASSUME Held' = Held, holders' = holders
  PROVE  Indexed => Indexed'
BY IndexedNext DEF Indexed

\* Queueing anything but a transfer.
LEMMA KnownEnqueue ==
  ASSUME CInv, NEW a \in Actions, Enqueue(a), a.op # "transfer", all_transfers' = all_transfers
  PROVE  TransfersKnown'
<1>1. /\ queue' = Append(queue, a) /\ queue \in Seq(Actions)
      /\ valid_transfers' = valid_transfers /\ phase = "parse" /\ phase' = "parse"
  BY DEF CInv, SInv, TInv, TypeOK, Enqueue
<1>2. ASSUME NEW i \in DOMAIN queue', queue'[i].op = "transfer"
      PROVE  i \in DOMAIN queue /\ queue'[i] = queue[i]
  BY <1>1, <1>2
<1> QED BY <1>1, <1>2 DEF CInv, TransfersKnown

LEMMA KnownInscribeTransfer ==
  ASSUME CInv, ~OccupiedOffsets,
         NEW u \in Users, NEW t \in Ticks, NEW amt \in Amounts, NEW l \in Locations,
         InscribeTransfer(u, t, amt, l)
  PROVE  TransfersKnown'
<1> DEFINE a == [op |-> "transfer", owner |-> u, tick |-> t, amt |-> amt, loc |-> l]
           row == [owner |-> u, tick |-> t, amt |-> amt.value]
<1>1. /\ queue' = Append(queue, a) /\ queue \in Seq(Actions)
      /\ valid_transfers' = valid_transfers /\ phase = "parse" /\ phase' = "parse"
      /\ all_transfers' = [all_transfers EXCEPT ![l] = row]
      /\ all_transfers[l] = Nil
      /\ all_transfers \in [Locations -> OrNil(Transfers)]
  BY DEF CInv, SInv, TInv, TypeOK, Enqueue, InscribeTransfer, OffsetAllowed, Fresh
<1>2. a \in Actions /\ row \in Transfers /\ row # Nil /\ row.tick = a.tick /\ a.loc = l
  BY LedgerAssumption DEF Actions, Transfers
<1> HIDE DEF a, row
<1>3. ASSUME NEW m \in Locations, valid_transfers[m] # Nil PROVE all_transfers'[m] = valid_transfers[m]
  BY <1>1, <1>3 DEF CInv, TransfersKnown
<1>4. ASSUME NEW i \in DOMAIN queue', queue'[i].op = "transfer"
      PROVE  /\ all_transfers'[queue'[i].loc] # Nil
             /\ all_transfers'[queue'[i].loc].tick = queue'[i].tick
  <2>1. CASE i \in DOMAIN queue
    <3>1. queue'[i] = queue[i] /\ queue[i].loc \in Locations
      BY <1>1, <1>2, <1>4, <2>1, ActionFields
    <3>2. all_transfers[queue[i].loc] # Nil /\ all_transfers[queue[i].loc].tick = queue[i].tick
      BY <1>1, <1>4, <2>1, <3>1 DEF CInv, TransfersKnown
    <3> QED BY <1>1, <3>1, <3>2
  <2>2. CASE i \notin DOMAIN queue
    <3>1. queue'[i] = a
      BY <1>1, <1>2, <2>2
    <3> QED BY <1>1, <1>2, <3>1
  <2> QED BY <2>1, <2>2
<1> QED BY <1>1, <1>3, <1>4 DEF TransfersKnown

LEMMA KnownBegin == ASSUME CInv, BeginBlock PROVE TransfersKnown'
<1>1. queue = <<>> /\ queue' = queue /\ all_transfers' = valid_transfers' /\ phase' = "parse"
  BY DEF CInv, SInv, CacheEmpty, BeginBlock
<1> QED BY <1>1 DEF TransfersKnown

LEMMA CInvParse == ~OccupiedOffsets /\ CInv /\ Parse => CInv' /\ (Indexed => Indexed')
<1> SUFFICES ASSUME ~OccupiedOffsets, CInv, Parse PROVE CInv' /\ (Indexed => Indexed')
  OBVIOUS
<1>1. SInv'
  BY SInvParse DEF CInv
<1>2. QueueCovered'
  BY ParseKeeps DEF QueueCovered
<1>3. Indexed => Indexed'
  BY ParseKeeps, HeldFrame, HoldersFrame DEF CInv
<1>4. TransfersKnown'
  <2>1. CASE BeginBlock
    BY <2>1, KnownBegin
  <2>2. ASSUME NEW t \in Ticks, NEW terms \in Terms, InscribeDeploy(t, terms) PROVE TransfersKnown'
    <3>1. [op |-> "deploy", tick |-> t, terms |-> terms] \in Actions
      BY DEF Actions
    <3> QED BY <2>2, <3>1, KnownEnqueue DEF InscribeDeploy
  <2>3. ASSUME NEW u \in Users, NEW t \in Ticks, NEW amt \in Amounts, InscribeMint(u, t, amt)
        PROVE  TransfersKnown'
    <3>1. [op |-> "mint", owner |-> u, tick |-> t, amt |-> amt] \in Actions
      BY DEF Actions
    <3> QED BY <2>3, <3>1, KnownEnqueue DEF InscribeMint
  <2>4. ASSUME NEW u \in Users, NEW t \in Ticks, NEW amt \in Amounts, NEW l \in Locations,
               InscribeTransfer(u, t, amt, l)
        PROVE  TransfersKnown'
    BY <2>4, KnownInscribeTransfer
  <2>5. ASSUME NEW l \in Locations, NEW r \in Users \cup {Burned}, MoveTransfer(l, r)
        PROVE  TransfersKnown'
    <3>1. [op |-> "transferred", loc |-> l, recipient |-> r] \in Actions
      BY DEF Actions
    <3> QED BY <2>5, <3>1, KnownEnqueue DEF MoveTransfer
  <2>6. ASSUME NEW l \in movable, LeakTransfer(l) PROVE TransfersKnown'
    BY <2>5, <2>6, LeakOwner DEF LeakTransfer, CInv, SInv
  <2> QED BY <2>1, <2>2, <2>3, <2>4, <2>5, <2>6 DEF Parse
<1> QED BY <1>1, <1>2, <1>3, <1>4 DEF CInv

\* An account that a queued action needs is loaded, or empty.
LEMMA CoveredByLoad ==
  ASSUME SInv, LoadTokensData, NEW u \in Users, NEW n \in Names, n \in Tickers,
         \E i \in DOMAIN queue : NeedsAccount(queue[i], u, n)
  PROVE  Covered(u, n)'
<1> SUFFICES ASSUME NEW t \in Ticks, Lower[t] = n, accounts'[u][t] = Nil
             PROVE  Total(OrDefault(balances[u][t])) = 0
  BY DEF Covered, LoadTokensData, db, OrDefault, Total, ZeroBalance
<1>1. tokens = NoRows(Names) /\ accounts = NoAccounts
  BY DEF SInv, CacheEmpty, LoadTokensData
<1>2. Held[t][u] = Total(OrDefault(balances[u][t]))
  BY <1>1 DEF Held, Row, NoAccounts
<1>3. Token(n) = meta[n]
  BY <1>1 DEF Token, NoRows
<1>4. tokens'[n] = meta[n]
  BY DEF LoadTokensData
<1>5. accounts'[u][t] =
        IF tokens'[n] # Nil /\ tokens'[n].tick = t THEN balances[u][t] ELSE Nil
  BY DEF LoadTokensData
<1>6. CASE t \in Deployed
  <2>1. accounts'[u][t] = balances[u][t]
    BY <1>3, <1>4, <1>5, <1>6 DEF Deployed
  <2> QED BY <2>1, NoBalance DEF OrDefault
<1>7. CASE t \notin Deployed
  BY <1>2, <1>7 DEF SInv, AllSpelled
<1> QED BY <1>6, <1>7

LEMMA QueueCoveredByLoad == ASSUME CInv, LoadTokensData PROVE QueueCovered'
<1>1. /\ queue' = queue /\ all_transfers' = all_transfers /\ valid_transfers' = valid_transfers
      /\ phase = "parse"
  BY DEF LoadTokensData
<1>2. SInv /\ TInv
  BY DEF CInv, SInv
<1>3. ASSUME NEW i \in DOMAIN queue, queue[i].op = "mint"
      PROVE  Covered(queue[i].owner, Lower[queue[i].tick])'
  <2>1. queue[i].owner \in Users /\ Lower[queue[i].tick] \in Names
    BY <1>2, <1>3, QueuedAction, ActionFields, TickName DEF TInv
  <2>2. Lower[queue[i].tick] \in Tickers
    BY <1>3 DEF Tickers, Inscriptions
  <2>3. NeedsAccount(queue[i], queue[i].owner, Lower[queue[i].tick])
    BY <1>3 DEF NeedsAccount
  <2> PICK u \in Users : u = queue[i].owner
    BY <2>1
  <2> PICK n \in Names : n = Lower[queue[i].tick]
    BY <2>1
  <2>4. Covered(u, n)'
    BY <1>2, <2>2, <2>3, CoveredByLoad
  <2> QED BY <1>1, <2>4 DEF Covered
<1>4. ASSUME NEW i \in DOMAIN queue, queue[i].op = "transferred", queue[i].recipient # Burned,
             NEW tr \in Transfers, tr = QueuedTransfer(queue[i].loc), tr # Nil
      PROVE  Covered(queue[i].recipient, Lower[tr.tick])'
  <2>1. queue[i].recipient \in Users /\ Lower[tr.tick] \in Names
    BY <1>2, <1>4, QueuedAction, ActionFields, TickName DEF TInv, Transfers
  <2>2. Lower[tr.tick] \in Tickers
    BY <1>4 DEF Tickers, Inscriptions
  <2>3. NeedsAccount(queue[i], queue[i].recipient, Lower[tr.tick])
    BY <1>4 DEF NeedsAccount
  <2> PICK u \in Users : u = queue[i].recipient
    BY <2>1
  <2>4. Covered(u, Lower[tr.tick])'
    BY <1>2, <2>1, <2>2, <2>3, CoveredByLoad
  <2> QED BY <1>1, <2>4 DEF Covered
<1>5. ASSUME NEW i \in DOMAIN queue, queue[i].op = "transferred"
      PROVE  /\ all_transfers[queue[i].loc] # Nil =>
                  /\ all_transfers[queue[i].loc] = QueuedTransfer(queue[i].loc)
                  /\ all_transfers[queue[i].loc] \in Transfers
             /\ valid_transfers[queue[i].loc] # Nil =>
                  /\ valid_transfers[queue[i].loc] = QueuedTransfer(queue[i].loc)
                  /\ valid_transfers[queue[i].loc] \in Transfers
  <2>1. queue[i].loc \in Locations
    BY <1>2, <1>5, QueuedAction, ActionFields DEF TInv
  <2>2. /\ all_transfers[queue[i].loc] \in OrNil(Transfers)
        /\ valid_transfers[queue[i].loc] \in OrNil(Transfers)
    BY <1>2, <2>1 DEF TInv, TypeOK
  <2> QED BY <1>1, <2>1, <2>2 DEF CInv, TransfersKnown, QueuedTransfer, OrNil
<1>6. ASSUME NEW i \in DOMAIN queue, queue[i].op = "transferred", queue[i].recipient # Burned
      PROVE  /\ all_transfers'[queue'[i].loc] # Nil =>
                  Covered(queue[i].recipient, Lower[all_transfers[queue[i].loc].tick])'
             /\ valid_transfers'[queue'[i].loc] # Nil =>
                  Covered(queue[i].recipient, Lower[valid_transfers[queue[i].loc].tick])'
  <2>1. CASE all_transfers[queue[i].loc] # Nil
    <3> PICK tr \in Transfers : tr = all_transfers[queue[i].loc]
      BY <1>5, <1>6, <2>1
    <3>1. Covered(queue[i].recipient, Lower[tr.tick])'
      BY <1>4, <1>5, <1>6, <2>1
    <3>2. valid_transfers[queue[i].loc] # Nil => valid_transfers[queue[i].loc] = tr
      BY <1>5, <1>6, <2>1
    <3> QED BY <1>1, <3>1, <3>2 DEF Covered
  <2>2. CASE all_transfers[queue[i].loc] = Nil /\ valid_transfers[queue[i].loc] # Nil
    <3> PICK tr \in Transfers : tr = valid_transfers[queue[i].loc]
      BY <1>5, <1>6, <2>2
    <3>1. Covered(queue[i].recipient, Lower[tr.tick])'
      BY <1>4, <1>5, <1>6, <2>2
    <3> QED BY <1>1, <2>2, <3>1 DEF Covered
  <2>3. CASE all_transfers[queue[i].loc] = Nil /\ valid_transfers[queue[i].loc] = Nil
    BY <1>1, <2>3
  <2> QED BY <2>1, <2>2, <2>3
<1> QED BY <1>1, <1>3, <1>6 DEF QueueCovered, Covered

LEMMA CInvLoad == CInv /\ LoadTokensData => CInv' /\ (Indexed => Indexed')
<1> SUFFICES ASSUME CInv, LoadTokensData PROVE CInv' /\ (Indexed => Indexed')
  OBVIOUS
<1>1. SInv'
  BY SInvLoad DEF CInv
<1>2. TransfersKnown'
  BY DEF CInv, TransfersKnown, LoadTokensData
<1>3. Indexed => Indexed'
  BY LoadKeeps, HoldersFrame DEF CInv, LoadTokensData
<1> QED BY <1>1, <1>2, <1>3, QueueCoveredByLoad DEF CInv

\* An action leaves the queue, no account leaves the cache, and a transfer that
\* becomes valid is one that all_transfers remembers.
LEMMA QueueStaysCovered ==
  ASSUME CInv, NEW op, Dequeue(op), phase' # "parse",
         \A u \in Users, t \in Ticks : accounts'[u][t] = Nil => accounts[u][t] = Nil,
         \A l \in Locations : all_transfers'[l] \in {all_transfers[l], Nil},
         \A l \in Locations : valid_transfers'[l] # Nil =>
           \/ valid_transfers'[l] = valid_transfers[l]
           \/ /\ all_transfers[l] # Nil
              /\ Lower[valid_transfers'[l].tick] = Lower[all_transfers[l].tick]
  PROVE  QueueCovered' /\ TransfersKnown'
<1>1. queue # <<>> /\ queue' = Tail(queue) /\ balances' = balances /\ phase = "process"
  BY DEF Dequeue, db
<1>2. TypeOK
  BY DEF CInv, SInv, TInv
<1>3. ASSUME NEW i \in DOMAIN queue'
      PROVE  i + 1 \in DOMAIN queue /\ queue'[i] = queue[i + 1] /\ queue[i + 1] \in Actions
  BY <1>1, <1>2, TailAction, QueuedAction
<1>4. ASSUME NEW u \in Users, NEW n, Covered(u, n) PROVE Covered(u, n)'
  BY <1>1, <1>4 DEF Covered
<1>5. QueueCovered'
  <2> SUFFICES ASSUME NEW i \in DOMAIN queue'
               PROVE  /\ queue'[i].op = "mint" => Covered(queue[i].owner, Lower[queue[i].tick])'
                      /\ queue'[i].op = "transferred" /\ queue'[i].recipient # Burned =>
                           /\ all_transfers'[queue'[i].loc] # Nil =>
                                Covered(queue[i].recipient, Lower[all_transfers[queue[i].loc].tick])'
                           /\ valid_transfers'[queue'[i].loc] # Nil =>
                                Covered(queue[i].recipient, Lower[valid_transfers[queue[i].loc].tick])'
    BY DEF QueueCovered
  <2> PICK b \in Actions : b = queue'[i]
    BY <1>3
  <2>1. i + 1 \in DOMAIN queue /\ queue[i + 1] = b
    BY <1>3
  <2>2. CASE b.op = "mint"
    <3>1. b.owner \in Users /\ Covered(b.owner, Lower[b.tick])
      BY <1>1, <2>1, <2>2, ActionFields DEF CInv, QueueCovered
    <3>2. Covered(b.owner, Lower[b.tick])'
      BY <1>4, <3>1
    <3> QED BY <2>2, <3>2 DEF Covered
  <2>3. CASE b.op = "transferred" /\ b.recipient # Burned
    <3>1. b.recipient \in Users /\ b.loc \in Locations
      BY <2>3, ActionFields
    <3>2. /\ all_transfers[b.loc] # Nil => Covered(b.recipient, Lower[all_transfers[b.loc].tick])
          /\ valid_transfers[b.loc] # Nil => Covered(b.recipient, Lower[valid_transfers[b.loc].tick])
      BY <1>1, <2>1, <2>3 DEF CInv, QueueCovered
    <3>3. ASSUME NEW n, Covered(b.recipient, n) PROVE Covered(b.recipient, n)'
      BY <1>4, <3>1, <3>3
    <3> PICK all, valid : all = all_transfers'[b.loc] /\ valid = valid_transfers'[b.loc]
      OBVIOUS
    <3>4. /\ all # Nil => Covered(b.recipient, Lower[all.tick])
          /\ valid # Nil => Covered(b.recipient, Lower[valid.tick])
      BY <3>1, <3>2
    <3>5. /\ all # Nil => Covered(b.recipient, Lower[all.tick])'
          /\ valid # Nil => Covered(b.recipient, Lower[valid.tick])'
      BY <3>3, <3>4
    <3> QED BY <2>3, <3>5 DEF Covered
  <2>4. CASE b.op # "mint" /\ ~(b.op = "transferred" /\ b.recipient # Burned)
    BY <2>4
  <2> QED BY <2>2, <2>3, <2>4
<1>6. TransfersKnown'
  <2> SUFFICES ASSUME NEW i \in DOMAIN queue', queue'[i].op = "transfer",
                      all_transfers'[queue'[i].loc] # Nil
               PROVE  all_transfers'[queue'[i].loc].tick = queue'[i].tick
    BY DEF TransfersKnown
  <2>1. queue'[i].loc \in Locations
    BY <1>3, ActionFields
  <2> QED BY <1>1, <1>3, <2>1 DEF CInv, TransfersKnown
<1> QED BY <1>5, <1>6

\* What the users hold, of the accounts in a cache and in the table.
HeldOf(acc, bal) ==
  [t \in Ticks |-> [u \in Users |->
     Total(IF acc[u][t] # Nil THEN acc[u][t] ELSE OrDefault(bal[u][t]))]]

LEMMA HeldIsOf == Held = HeldOf(accounts, balances) /\ Held' = HeldOf(accounts', balances')
BY DEF Held, Row, HeldOf, Total, OrDefault, ZeroBalance

LEMMA HeldWith ==
  ASSUME NEW acc \in [Users -> [Ticks -> OrNil(Balances)]], NEW bal,
         NEW u \in Users, NEW t \in Ticks, NEW row \in Balances
  PROVE  HeldOf(Put(acc, u, t, row), bal) = Put(HeldOf(acc, bal), t, u, Total(row))
<1> DEFINE to == Put(acc, u, t, row)
           F == HeldOf(acc, bal)
           G == Put(F, t, u, Total(row))
<1>1. row # Nil
  BY LedgerAssumption
<1>2. ASSUME NEW v \in Users, NEW s \in Ticks PROVE HeldOf(to, bal)[s][v] = G[s][v]
  <2>1. CASE v = u /\ s = t
    <3>1. to[v][s] = row /\ G[s][v] = Total(row)
      BY <2>1 DEF HeldOf, Put
    <3> QED BY <1>1, <3>1 DEF HeldOf
  <2>2. CASE ~(v = u /\ s = t)
    <3>1. to[v][s] = acc[v][s] /\ G[s][v] = F[s][v]
      BY <2>2 DEF HeldOf, Put
    <3> QED BY <3>1 DEF HeldOf
  <2> QED BY <2>1, <2>2
<1>3. \A s \in Ticks : G[s] = [v \in Users |-> G[s][v]]
  BY DEF HeldOf, Put
<1>4. G = [s \in Ticks |-> [v \in Users |-> G[s][v]]]
  BY <1>3 DEF HeldOf, Put
<1>5. HeldOf(to, bal) = [s \in Ticks |-> [v \in Users |-> HeldOf(to, bal)[s][v]]]
  BY DEF HeldOf
<1> HIDE DEF to, F, G
<1>6. HeldOf(to, bal) = G
  BY <1>2, <1>4, <1>5
<1> QED BY <1>6 DEF to, F, G

LEMMA CInvDeploy == CInv /\ ProcessDeploy => CInv' /\ (Indexed => Indexed')
<1> SUFFICES ASSUME CInv, ProcessDeploy PROVE CInv' /\ (Indexed => Indexed')
  OBVIOUS
<1>1. SInv'
  BY SInvDeploy DEF CInv
<1>2. UNCHANGED <<balances, holders, accounts, all_transfers, valid_transfers, phase>>
      /\ phase = "process" /\ Dequeue("deploy")
  BY DEF ProcessDeploy, Dequeue, db
<1>3. QueueCovered' /\ TransfersKnown'
  BY <1>2, QueueStaysCovered
<1>4. Indexed => Indexed'
  BY <1>2, HeldFrame, HoldersFrame DEF CInv
<1> QED BY <1>1, <1>3, <1>4 DEF CInv

LEMMA CInvPanic == CInv /\ PanicTransferred => CInv' /\ (Indexed => Indexed')
<1> SUFFICES ASSUME CInv, PanicTransferred PROVE CInv' /\ (Indexed => Indexed')
  OBVIOUS
<1>1. SInv'
  BY SInvPanic DEF CInv
<1>2. UNCHANGED <<balances, holders, accounts>> /\ phase' = "panicked"
  BY DEF PanicTransferred, Dequeue, db
<1>3. Indexed => Indexed'
  BY <1>2, HeldFrame, HoldersFrame DEF CInv
<1> QED BY <1>1, <1>2, <1>3 DEF CInv, QueueCovered, TransfersKnown

LEMMA CInvCommit == CInv /\ CommitBlock => CInv' /\ (Indexed => Indexed')
<1> SUFFICES ASSUME CInv, CommitBlock PROVE CInv' /\ (Indexed => Indexed')
  OBVIOUS
<1>1. SInv'
  BY SInvCommit DEF CInv
<1>2. holders' = holders /\ phase' = "idle" /\ Held' = Held
  BY CommitKeeps DEF CommitBlock, CInv
<1>3. Indexed => Indexed'
  BY <1>2, HoldersFrame DEF CInv
<1> QED BY <1>1, <1>2, <1>3 DEF CInv, QueueCovered, TransfersKnown

LEMMA CInvTransfer == CInv /\ ProcessTransfer => CInv' /\ (Indexed => Indexed')
<1> SUFFICES ASSUME CInv, ProcessTransfer PROVE CInv' /\ (Indexed => Indexed')
  OBVIOUS
<1> DEFINE a == Head(queue)
           d == tokens[Lower[a.tick]]
<1>1. SInv' /\ SInv /\ TInv
  BY SInvTransfer DEF CInv, SInv
<1>2. UNCHANGED <<balances, holders, tokens, phase>> /\ phase = "process" /\ Dequeue("transfer")
  BY DEF ProcessTransfer, Dequeue, db
<1>3. a \in Actions /\ a.op = "transfer" /\ a.owner \in Users /\ a.loc \in Locations
      /\ Lower[a.tick] \in Names /\ a = queue[1] /\ 1 \in DOMAIN queue
  BY <1>1, <1>2, QueueStep, ActionFields, TickName, HeadAction DEF TInv, Dequeue
<1>4. /\ accounts \in [Users -> [Ticks -> OrNil(Balances)]]
      /\ all_transfers \in [Locations -> OrNil(Transfers)]
      /\ valid_transfers \in [Locations -> OrNil(Transfers)]
  BY <1>1 DEF TInv, TypeOK
<1>5. all_transfers' = [all_transfers EXCEPT ![a.loc] = Nil]
  BY DEF ProcessTransfer
<1>6. /\ \A u \in Users, t \in Ticks : accounts'[u][t] = Nil => accounts[u][t] = Nil
      /\ \A l \in Locations : valid_transfers'[l] # Nil =>
           \/ valid_transfers'[l] = valid_transfers[l]
           \/ /\ all_transfers[l] # Nil
              /\ Lower[valid_transfers'[l].tick] = Lower[all_transfers[l].tick]
  <2>1. CASE TransferAccepted(a)
    <3> DEFINE locked == Locked(accounts[a.owner][d.tick], a.amt.value)
    <3>1. /\ accounts' = [accounts EXCEPT ![a.owner][d.tick] = locked]
          /\ valid_transfers' = [valid_transfers EXCEPT ![a.loc] = ValidRow(a, d)]
      BY <2>1 DEF ProcessTransfer
    <3>2. d # Nil /\ Lower[d.tick] = Lower[a.tick] /\ all_transfers[a.loc] # Nil
      BY <1>1, <1>3, <2>1 DEF TransferAccepted, SInv, TicksUnderName
    <3>3. locked # Nil
      <4>1. accounts[a.owner][d.tick] \in Balances /\ a.amt.value \in Nat
        BY <1>1, <1>3, <2>1, TransferFields
      <4> QED BY <2>1, <4>1, LockedRow, LedgerAssumption DEF TransferAccepted
    <3>4. all_transfers[a.loc].tick = a.tick
      BY <1>2, <1>3, <3>2 DEF CInv, TransfersKnown
    <3>5. ValidRow(a, d).tick = d.tick
      BY DEF ValidRow
    <3> HIDE DEF a, d, locked
    <3>6. \A u \in Users, t \in Ticks : accounts'[u][t] = Nil => accounts[u][t] = Nil
      BY <1>4, <3>1, <3>3
    <3>7. \A l \in Locations : l # a.loc => valid_transfers'[l] = valid_transfers[l]
      BY <1>4, <3>1
    <3>8. valid_transfers'[a.loc] = ValidRow(a, d)
      BY <1>3, <1>4, <3>1
    <3> QED BY <3>2, <3>4, <3>5, <3>6, <3>7, <3>8
  <2>2. CASE ~TransferAccepted(a)
    BY <2>2 DEF ProcessTransfer
  <2> QED BY <2>1, <2>2
<1>7. \A l \in Locations : all_transfers'[l] \in {all_transfers[l], Nil}
  BY <1>3, <1>4, <1>5
<1>8. QueueCovered' /\ TransfersKnown'
  BY <1>2, <1>6, <1>7, QueueStaysCovered
<1>9. Indexed => Indexed'
  BY <1>1, <1>2, TransferKeepsHeld, HoldersFrame DEF CInv
<1> QED BY <1>1, <1>8, <1>9 DEF CInv

LEMMA CInvMint == CInv /\ ProcessMint => CInv' /\ (Indexed => Indexed')
<1> SUFFICES ASSUME CInv, ProcessMint PROVE CInv' /\ (Indexed => Indexed')
  OBVIOUS
<1> DEFINE a == Head(queue)
           n == Lower[a.tick]
           d == tokens[n]
           t == d.tick
           cached == accounts[a.owner][t]
           row == OrDefault(cached)
           paid == Minted(a, d)
           credited == [row EXCEPT !.balance = @ + paid]
<1>1. SInv' /\ SInv /\ TInv
  BY SInvMint DEF CInv, SInv
<1>2. /\ UNCHANGED <<balances, all_transfers, valid_transfers, phase>>
      /\ phase = "process" /\ Dequeue("mint")
  BY DEF ProcessMint, Dequeue, db
<1>3. a \in Actions /\ a.op = "mint" /\ a.owner \in Users /\ n \in Names
      /\ a = queue[1] /\ 1 \in DOMAIN queue
  BY <1>1, <1>2, QueueStep, ActionFields, TickName, HeadAction DEF TInv, Dequeue
<1>4. accounts \in [Users -> [Ticks -> OrNil(Balances)]] /\ holders \in HolderTables
  BY <1>1 DEF TInv, TypeOK, HolderTables
<1>5. CASE MintAccepted(a)
  <2>1. t \in Ticks /\ d # Nil /\ paid \in Nat \ {0} /\ Lower[t] = n
    BY <1>1, <1>3, <1>5, MintedBounds DEF SInv, TicksUnderName
  <2>2. /\ accounts' = Put(accounts, a.owner, t, credited)
        /\ holders' = Increase(holders, t, a.owner, row, paid)
    BY <1>5 DEF ProcessMint, Put
  <2>3. Covered(a.owner, n)
    BY <1>2, <1>3 DEF CInv, QueueCovered
  <2>4. cached \in OrNil(Balances) /\ row \in Balances
    BY <1>3, <1>4, <2>1, DefaultRow
  <2>5. credited \in Balances /\ Total(credited) = Total(row) + paid /\ credited # Nil
    BY <2>1, <2>4, CreditedRow, LedgerAssumption
  <2>6. Total(row) = Held[t][a.owner]
    <3>1. CASE cached = Nil
      <4>1. Total(OrDefault(balances[a.owner][t])) = 0
        BY <2>1, <2>3, <3>1 DEF Covered
      <4>2. Held[t][a.owner] = 0
        BY <1>3, <2>1, <3>1, <4>1 DEF Held, Row
      <4> QED BY <3>1, <4>2, NoBalance DEF OrDefault
    <3>2. CASE cached # Nil
      BY <1>3, <2>1, <3>2 DEF Held, Row, OrDefault
    <3> QED BY <3>1, <3>2
  <2> HIDE DEF a, n, d, t, row, paid, credited, cached
  <2>7. Held' = Put(Held, t, a.owner, Held[t][a.owner] + paid)
    <3>1. Total(credited) = Held[t][a.owner] + paid
      BY <2>5, <2>6
    <3>2. HeldOf(accounts', balances) = Put(HeldOf(accounts, balances), t, a.owner, Total(credited))
      BY <1>3, <1>4, <2>1, <2>2, <2>5, HeldWith
    <3> QED BY <1>2, <3>1, <3>2, HeldIsOf
  <2>8. Indexed => Indexes(Increase(holders, t, a.owner, row, paid),
                           Put(Held, t, a.owner, Held[t][a.owner] + paid))
    BY <1>1, <1>3, <1>4, <2>1, <2>6, HeldType, IncreaseIndexes DEF CInv, Indexed
  <2>9. Indexed => Indexed'
    BY <2>2, <2>7, <2>8, IndexedNext
  <2>10. \A u \in Users, s \in Ticks : accounts'[u][s] = Nil => accounts[u][s] = Nil
    BY <1>4, <2>2, <2>5 DEF Put
  <2>11. QueueCovered' /\ TransfersKnown'
    BY <1>2, <2>10, QueueStaysCovered
  <2> QED BY <1>1, <2>9, <2>11 DEF CInv
<1>6. CASE ~MintAccepted(a)
  <2>1. accounts' = accounts /\ holders' = holders
    BY <1>6 DEF ProcessMint
  <2>2. QueueCovered' /\ TransfersKnown'
    BY <1>2, <2>1, QueueStaysCovered
  <2>3. Indexed => Indexed'
    BY <1>2, <2>1, HeldFrame, HoldersFrame DEF CInv
  <2> QED BY <1>1, <2>2, <2>3 DEF CInv
<1> QED BY <1>5, <1>6

\* The sender's half of a move that does not panic.
LEMMA SentHalf ==
  ASSUME CInv, NEW l \in Locations, valid_transfers[l] # Nil, ~InvalidSender(valid_transfers[l])
  PROVE  LET tr   == valid_transfers[l]
             t    == tokens[Lower[tr.tick]].tick
             old  == accounts[tr.owner][t]
             sent == Put(accounts, tr.owner, t, Unlocked(old, tr.amt))
             less == Decrease(holders, t, tr.owner, old, tr.amt)
         IN  /\ tr.owner \in Users /\ tr.amt \in Nat \ {0}
             /\ t \in Ticks /\ Lower[t] = Lower[tr.tick]
             /\ sent \in [Users -> [Ticks -> OrNil(Balances)]]
             /\ \A u \in Users, s \in Ticks : sent[u][s] = Nil => accounts[u][s] = Nil
             /\ less \in HolderTables
             /\ Indexed => Indexes(less, HeldOf(sent, balances))
<1> DEFINE tr == valid_transfers[l]
           t == tokens[Lower[tr.tick]].tick
           old == accounts[tr.owner][t]
           unlocked == Unlocked(old, tr.amt)
           sent == Put(accounts, tr.owner, t, unlocked)
           less == Decrease(holders, t, tr.owner, old, tr.amt)
<1>1. SInv /\ TInv
  BY DEF CInv, SInv
<1>2. /\ tr \in Transfers /\ tr.owner \in Users /\ Lower[tr.tick] \in Names
      /\ tokens[Lower[tr.tick]] # Nil /\ t \in Ticks
      /\ old \in Balances /\ old # Nil
      /\ unlocked \in Balances /\ unlocked # Nil
      /\ tr.amt <= Total(old) /\ Total(unlocked) = Total(old) - tr.amt
  BY <1>1, MoveFields
<1>3. tr.amt \in Nat \ {0} /\ Lower[t] = Lower[tr.tick]
  BY <1>1, <1>2 DEF Transfers, SInv, TicksUnderName
<1>4. accounts \in [Users -> [Ticks -> OrNil(Balances)]] /\ holders \in HolderTables
  BY <1>1 DEF TInv, TypeOK, HolderTables
<1>5. Total(old) = Held[t][tr.owner]
  BY <1>2 DEF Held, Row
<1>6. less \in HolderTables
  BY <1>2, <1>3, <1>4, DecreaseType DEF HolderTables
<1> HIDE DEF tr, t, old, unlocked, less
<1>7. Indexed => Indexes(less, Put(Held, t, tr.owner, Held[t][tr.owner] - tr.amt))
  BY <1>1, <1>2, <1>3, <1>4, <1>5, HeldType, DecreaseIndexes DEF CInv, Indexed, less
<1>8. HeldOf(sent, balances) = Put(Held, t, tr.owner, Held[t][tr.owner] - tr.amt)
  <2>1. HeldOf(sent, balances) = Put(HeldOf(accounts, balances), t, tr.owner, Total(unlocked))
    BY <1>2, <1>4, HeldWith
  <2>2. Total(unlocked) = Held[t][tr.owner] - tr.amt
    BY <1>2, <1>5
  <2> QED BY <2>1, <2>2, HeldIsOf
<1>9. /\ sent \in [Users -> [Ticks -> OrNil(Balances)]]
      /\ \A u \in Users, s \in Ticks : sent[u][s] = Nil => accounts[u][s] = Nil
  BY <1>2, <1>4 DEF Put, OrNil
<1>10. Indexed => Indexes(less, HeldOf(sent, balances))
  BY <1>7, <1>8
<1> QED BY <1>2, <1>3, <1>6, <1>9, <1>10 DEF tr, t, old, unlocked, less

\* The recipient's half: its row may be the one the sender's half has changed.
LEMMA PaidHalf ==
  ASSUME NEW sent \in [Users -> [Ticks -> OrNil(Balances)]], NEW bal,
         NEW less \in HolderTables,
         HeldOf(sent, bal) \in [Ticks -> [Users -> Nat]],
         NEW r \in Users, NEW t \in Ticks, NEW amt \in Nat \ {0},
         sent[r][t] = Nil => Total(OrDefault(bal[r][t])) = 0
  PROVE  LET row == OrDefault(sent[r][t])
             credited == [row EXCEPT !.balance = @ + amt]
         IN  /\ credited # Nil
             /\ Indexes(less, HeldOf(sent, bal)) =>
                  Indexes(Increase(less, t, r, row, amt), HeldOf(Put(sent, r, t, credited), bal))
<1> DEFINE row == OrDefault(sent[r][t])
           credited == [row EXCEPT !.balance = @ + amt]
           F == HeldOf(sent, bal)
<1>1. row \in Balances
  BY DefaultRow
<1>2. credited \in Balances /\ Total(credited) = Total(row) + amt /\ credited # Nil
  BY <1>1, CreditedRow, LedgerAssumption
<1>3. Total(row) = F[t][r]
  <2>1. CASE sent[r][t] = Nil
    <3>1. F[t][r] = 0
      BY <2>1 DEF HeldOf
    <3> QED BY <2>1, <3>1, NoBalance DEF OrDefault
  <2>2. CASE sent[r][t] # Nil
    BY <2>2 DEF HeldOf, OrDefault
  <2> QED BY <2>1, <2>2
<1> HIDE DEF row, credited, F
<1>4. Indexes(less, F) => Indexes(Increase(less, t, r, row, amt), Put(F, t, r, F[t][r] + amt))
  BY <1>3, IncreaseIndexes DEF F
<1>5. HeldOf(Put(sent, r, t, credited), bal) = Put(F, t, r, F[t][r] + amt)
  <2>1. HeldOf(Put(sent, r, t, credited), bal) = Put(F, t, r, Total(credited))
    BY <1>2, HeldWith DEF F
  <2> QED BY <1>2, <1>3, <2>1
<1>6. Indexes(less, HeldOf(sent, bal)) =>
        Indexes(Increase(less, t, r, row, amt), HeldOf(Put(sent, r, t, credited), bal))
  BY <1>4, <1>5 DEF F
<1> QED BY <1>2, <1>6 DEF row, credited

LEMMA HeldOfType ==
  ASSUME NEW acc \in [Users -> [Ticks -> OrNil(Balances)]],
         NEW bal \in [Users -> [Ticks -> OrNil(Balances)]]
  PROVE  HeldOf(acc, bal) \in [Ticks -> [Users -> Nat]]
<1>1. ASSUME NEW u \in Users, NEW t \in Ticks
      PROVE  Total(IF acc[u][t] # Nil THEN acc[u][t] ELSE OrDefault(bal[u][t])) \in Nat
  <2>1. acc[u][t] \in OrNil(Balances) /\ OrDefault(bal[u][t]) \in Balances
    BY DefaultRow
  <2>2. (IF acc[u][t] # Nil THEN acc[u][t] ELSE OrDefault(bal[u][t])) \in Balances
    BY <2>1 DEF OrNil
  <2> QED BY <2>2, TotalNat
<1> QED BY <1>1 DEF HeldOf

LEMMA CInvTransferred == CInv /\ ProcessTransferred => CInv' /\ (Indexed => Indexed')
<1> SUFFICES ASSUME CInv, ProcessTransferred PROVE CInv' /\ (Indexed => Indexed')
  OBVIOUS
<1> DEFINE a == Head(queue)
           tr == valid_transfers[a.loc]
<1>1. SInv' /\ SInv /\ TInv
  BY SInvTransferred DEF CInv, SInv
<1>2. /\ UNCHANGED <<balances, tokens, all_transfers, phase>>
      /\ phase = "process" /\ Dequeue("transferred")
  BY DEF ProcessTransferred, Dequeue, db
<1>3. /\ a.op = "transferred" /\ a.loc \in Locations /\ a.recipient \in Users \cup {Burned}
      /\ a = queue[1] /\ 1 \in DOMAIN queue
  BY <1>1, <1>2, QueueStep, ActionFields, HeadAction DEF TInv, Dequeue
<1>4. \A l \in Locations : valid_transfers'[l] # Nil => valid_transfers'[l] = valid_transfers[l]
  <2>1. valid_transfers \in [Locations -> OrNil(Transfers)]
    BY <1>1 DEF TInv, TypeOK
  <2> QED BY <1>3, <2>1 DEF ProcessTransferred
<1>5. CASE tr = Nil
  <2>1. accounts' = accounts /\ holders' = holders
    BY <1>5 DEF ProcessTransferred
  <2>2. QueueCovered' /\ TransfersKnown'
    BY <1>2, <1>4, <2>1, QueueStaysCovered
  <2>3. Indexed => Indexed'
    BY <1>2, <2>1, HeldFrame, HoldersFrame DEF CInv
  <2> QED BY <1>1, <2>2, <2>3 DEF CInv
<1>6. CASE tr # Nil
  <2> DEFINE t    == tokens[Lower[tr.tick]].tick
             old  == accounts[tr.owner][t]
             sent == Put(accounts, tr.owner, t, Unlocked(old, tr.amt))
             less == Decrease(holders, t, tr.owner, old, tr.amt)
             row  == OrDefault(sent[a.recipient][t])
             credited == [row EXCEPT !.balance = @ + tr.amt]
  <2>1. ~InvalidSender(tr) /\ Pay(tr, a.recipient)
    BY <1>6 DEF ProcessTransferred
  <2>2. /\ tr.owner \in Users /\ tr.amt \in Nat \ {0}
        /\ t \in Ticks /\ Lower[t] = Lower[tr.tick]
        /\ sent \in [Users -> [Ticks -> OrNil(Balances)]]
        /\ \A u \in Users, s \in Ticks : sent[u][s] = Nil => accounts[u][s] = Nil
        /\ less \in HolderTables
        /\ Indexed => Indexes(less, HeldOf(sent, balances))
    BY <1>3, <1>6, <2>1, SentHalf
  <2>3. CASE a.recipient = Burned
    <3>1. accounts' = sent /\ holders' = less
      BY <2>1, <2>3 DEF Pay, Put
    <3> HIDE DEF a, tr, t, old, sent, less
    <3>2. Indexed => Indexed'
      BY <1>2, <2>2, <3>1, HeldIsOf, IndexedNext
    <3>3. QueueCovered' /\ TransfersKnown'
      BY <1>2, <1>4, <2>2, <3>1, QueueStaysCovered
    <3> QED BY <1>1, <3>2, <3>3 DEF CInv
  <2>4. CASE a.recipient # Burned
    <3>1. /\ accounts' = Put(sent, a.recipient, t, credited)
          /\ holders' = Increase(less, t, a.recipient, row, tr.amt)
      BY <2>1, <2>4 DEF Pay, Put, RecipientRow
    <3>2. a.recipient \in Users
      BY <1>3, <2>4
    <3>3. Covered(a.recipient, Lower[tr.tick])
      BY <1>2, <1>3, <1>6, <2>4 DEF CInv, QueueCovered
    <3>4. sent[a.recipient][t] = Nil => Total(OrDefault(balances[a.recipient][t])) = 0
      BY <2>2, <3>2, <3>3 DEF Covered
    <3>5. HeldOf(sent, balances) \in [Ticks -> [Users -> Nat]]
      BY <1>1, <2>2, HeldOfType DEF TInv, TypeOK
    <3> HIDE DEF a, tr, t, old, sent, less
    <3>6. /\ credited # Nil
          /\ Indexes(less, HeldOf(sent, balances)) =>
               Indexes(Increase(less, t, a.recipient, row, tr.amt),
                       HeldOf(Put(sent, a.recipient, t, credited), balances))
      BY <2>2, <3>2, <3>4, <3>5, PaidHalf
    <3> HIDE DEF row, credited
    <3>7. Indexed => Indexed'
      BY <1>2, <2>2, <3>1, <3>6, HeldIsOf, IndexedNext
    <3>8. \A u \in Users, s \in Ticks : accounts'[u][s] = Nil => accounts[u][s] = Nil
      BY <2>2, <3>1, <3>2, <3>6 DEF Put
    <3>9. QueueCovered' /\ TransfersKnown'
      BY <1>2, <1>4, <3>8, QueueStaysCovered
    <3> QED BY <1>1, <3>7, <3>9 DEF CInv
  <2> QED BY <2>3, <2>4
<1> QED BY <1>5, <1>6

LEMMA CInvNext == ~OccupiedOffsets /\ CInv /\ [Next]_vars => CInv' /\ (Indexed => Indexed')
<1> SUFFICES ASSUME ~OccupiedOffsets, CInv, [Next]_vars PROVE CInv' /\ (Indexed => Indexed')
  OBVIOUS
<1>1. CASE Parse
  BY <1>1, CInvParse
<1>2. CASE Process
  BY <1>2, CInvLoad, CInvDeploy, CInvMint, CInvTransfer, CInvTransferred, CInvPanic DEF Process
<1>3. CASE CommitBlock
  BY <1>3, CInvCommit
<1>4. CASE UNCHANGED vars
  <2>1. UNCHANGED <<balances, accounts, holders, queue, all_transfers, valid_transfers, phase>>
    BY <1>4 DEF vars, db, cache
  <2>2. SInv'
    BY SInvNext DEF CInv
  <2>3. Indexed => Indexed'
    BY <2>1, HeldFrame, HoldersFrame
  <2> QED BY <2>1, <2>2, <2>3 DEF CInv, QueueCovered, Covered, TransfersKnown
<1> QED BY <1>1, <1>2, <1>3, <1>4 DEF Next, Terminated

LEMMA HInvNext == ~OccupiedOffsets /\ HInv /\ [Next]_vars => HInv'
BY CInvNext DEF HInv

(* Without the jubilee rule, Holders::change keeps the index exact over every
   sequence of blocks: each holder is filed once, under what the accounts hold,
   and the number of holders does not wrap. *)
THEOREM HoldersIndexed == ASSUME ~OccupiedOffsets PROVE Spec => []HoldersExact
<1>1. HInv /\ [Next]_vars => HInv'
  BY HInvNext
<1>2. HInv => HoldersExact
  BY HoldersAreIndexed DEF HInv
<1> QED BY HInvInit, <1>1, <1>2, PTL DEF Spec
============================================================================
