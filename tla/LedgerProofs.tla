---------------------------- MODULE LedgerProofs ----------------------------
(***************************************************************************)
(* What a block does to the accounts and the transfers of a token.         *)
(*                                                                         *)
(* NothingFromNothing sums over users.  A sum over a finite set changes by *)
(* what changes at one point (SumProofs), so that it is enough to follow   *)
(* one account at a time: what a reader of cache over tables sees of an    *)
(* account (Row) and of a token (Token) is changed by ProcessMint,         *)
(* ProcessTransfer and ProcessTransferred alone, and a commit changes      *)
(* nothing.  The inductive invariant is SInv of TokenLedgerProofs with the *)
(* property itself: a mint raises the supply and one account by the same   *)
(* amount, a move takes from one account what it gives to another.         *)
(*                                                                         *)
(* CacheReadsThrough follows from CInv of TokenLedgerProofs (QueueCovered):*)
(* an account that a mint or a move adds to the cache holds nothing in     *)
(* address_token_to_balance.                                               *)
(*                                                                         *)
(* The transfers of TokenLedger without inscriptions on occupied offsets:  *)
(* what locks a balance, why a move does not panic, and why the ledger     *)
(* implements Brc20.                                                       *)
(*                                                                         *)
(* The invariant BInv adds to CInv of TokenLedgerProofs:                   *)
(*   Backed         every account's locked balance and transfer count are  *)
(*                  the sum and the number of its pending transfers, as a  *)
(*                  function of one map of locations (PendingMap), so that *)
(*                  an action changes it at one point;                     *)
(*   SpentOnce      a valid transfer of the cache is a loaded row of       *)
(*                  address_location_to_transfer, or at a location that    *)
(*                  has no row there;                                      *)
(*   QueuedFresh    a queued transfer has a location of its own, for which *)
(*                  all_transfers remembers this very transfer;            *)
(*   MovesQueued    a transfer that was loaded can still be moved, or its  *)
(*                  move is queued;                                        *)
(*   SendersLoaded  the token and the owner's account of a valid transfer  *)
(*                  are in the cache while actions are processed.          *)
(* A move then finds the sender's row, with enough locked balance and a    *)
(* counter above zero, because its own transfer is one of those that the   *)
(* row adds up.  The refinement reads each processed action as one step of *)
(* Brc20 and every other one as a stutter.                                 *)
(***************************************************************************)
EXTENDS LedgerProperties, TokenLedgerProofs, SumProofs

----------------------------------------------------------------------------
(* What a reader of cache and tables sees of a step. *)

Credited(row, amt) == [row EXCEPT !.balance = @ + amt]
Raised(d, amt) == [d EXCEPT !.supply = @ + amt]

LEMMA CreditedIs ==
  ASSUME NEW row \in Balances, NEW amt \in Nat
  PROVE  /\ Credited(row, amt) \in Balances /\ Credited(row, amt) # Nil
         /\ Credited(row, amt).balance = row.balance + amt
         /\ Credited(row, amt).transferable = row.transferable
         /\ Credited(row, amt).count = row.count
         /\ Total(Credited(row, amt)) = Total(row) + amt
<1>1. Credited(row, amt) \in Balances /\ Total(Credited(row, amt)) = Total(row) + amt
  BY CreditedRow DEF Credited
<1>2. /\ Credited(row, amt).balance = row.balance + amt
      /\ Credited(row, amt).transferable = row.transferable
      /\ Credited(row, amt).count = row.count
  BY DEF Credited, Balances
<1> QED BY <1>1, <1>2, LedgerAssumption

LEMMA RaisedIs ==
  ASSUME NEW d \in Metas, NEW amt \in Nat
  PROVE  /\ Raised(d, amt) \in Metas /\ Raised(d, amt) # Nil
         /\ Raised(d, amt).supply = d.supply + amt
<1>1. d.supply \in Nat
  BY DEF Metas
<1>2. Raised(d, amt) \in Metas /\ Raised(d, amt).supply = d.supply + amt
  BY <1>1 DEF Raised, Metas
<1> QED BY <1>2, LedgerAssumption

\* Only a deploy and a mint change a token.
LEMMA TokensKept ==
  ASSUME SInv,
         \/ Parse \/ LoadTokensData \/ CommitBlock
         \/ ProcessTransfer \/ ProcessTransferred \/ PanicTransferred
  PROVE  \A n \in Names : Token(n)' = Token(n)
<1>1. CASE Parse
  BY <1>1, ParseKeeps DEF Token
<1>2. CASE LoadTokensData
  <2>1. tokens = NoRows(Names) /\ meta' = meta
    BY <1>2 DEF SInv, CacheEmpty, LoadTokensData, db
  <2> QED BY <1>2, <2>1, LoadKeeps DEF Token, NoRows
<1>3. CASE CommitBlock
  BY <1>3 DEF CommitBlock, Token, NoRows
<1>4. CASE ProcessTransfer \/ ProcessTransferred \/ PanicTransferred
  BY <1>4 DEF ProcessTransfer, ProcessTransferred, PanicTransferred, Dequeue, db, Token
<1> QED BY <1>1, <1>2, <1>3, <1>4

\* Rows are loaded and written back without a change.
LEMMA RowsKept ==
  ASSUME SInv, Parse \/ LoadTokensData \/ CommitBlock \/ ProcessDeploy \/ PanicTransferred
  PROVE  \A u \in Users, t \in Ticks : Row(u, t)' = Row(u, t)
<1>1. CASE Parse
  BY <1>1, ParseKeeps DEF Row, OrDefault
<1>2. CASE LoadTokensData
  <2>1. accounts = NoAccounts /\ balances' = balances
    BY <1>2 DEF SInv, CacheEmpty, LoadTokensData, db
  <2>2. ASSUME NEW u \in Users, NEW t \in Ticks PROVE accounts'[u][t] \in {balances[u][t], Nil}
    BY <1>2 DEF LoadTokensData
  <2> QED BY <2>1, <2>2 DEF Row, NoAccounts, OrDefault
<1>3. CASE CommitBlock
  BY <1>3 DEF CommitBlock, Row, NoAccounts, OrDefault
<1>4. CASE ProcessDeploy \/ PanicTransferred
  BY <1>4 DEF ProcessDeploy, PanicTransferred, Dequeue, db, Row, OrDefault
<1> QED BY <1>1, <1>2, <1>3, <1>4

\* One row of the cache is written.
LEMMA RowsWith ==
  ASSUME accounts \in [Users -> [Ticks -> OrNil(Balances)]], balances' = balances,
         NEW u \in Users, NEW t \in Ticks, NEW row \in Balances,
         accounts' = Put(accounts, u, t, row)
  PROVE  \A v \in Users, s \in Ticks :
           Row(v, s)' = IF v = u /\ s = t THEN row ELSE Row(v, s)
<1>1. row # Nil
  BY LedgerAssumption
<1>2. ASSUME NEW v \in Users, NEW s \in Ticks
      PROVE  accounts'[v][s] = IF v = u /\ s = t THEN row ELSE accounts[v][s]
  BY DEF Put
<1> QED BY <1>1, <1>2 DEF Row, OrDefault

\* A deploy adds a token without supply, or changes nothing.
LEMMA DeployTokens ==
  ASSUME SInv, ProcessDeploy
  PROVE  LET a == Head(queue)
             d == [tick |-> a.tick, max |-> a.terms.max, lim |-> a.terms.lim,
                   dec |-> a.terms.dec, supply |-> 0]
             n == Lower[a.tick]
         IN  /\ a.tick \in Ticks /\ a.terms \in Terms /\ n \in Names
             /\ IF tokens[n] = Nil
                THEN /\ Token(n) = Nil /\ d # Nil
                     /\ \A m \in Names : Token(m)' = IF m = n THEN d ELSE Token(m)
                ELSE \A m \in Names : Token(m)' = Token(m)
<1> DEFINE a == Head(queue)
           n == Lower[a.tick]
           d == [tick |-> a.tick, max |-> a.terms.max, lim |-> a.terms.lim,
                 dec |-> a.terms.dec, supply |-> 0]
<1>1. /\ a.op = "deploy" /\ a.tick \in Ticks /\ a.terms \in Terms /\ n \in Names
      /\ a = queue[1] /\ 1 \in DOMAIN queue /\ phase = "process" /\ meta' = meta
  BY QueueStep, ActionFields, TickName, HeadAction DEF SInv, TInv, ProcessDeploy, Dequeue, db
<1>2. d # Nil
  <2>1. d \in Metas
    BY <1>1, LedgerAssumption DEF Metas
  <2> QED BY <2>1, LedgerAssumption
<1>3. CASE tokens[n] = Nil
  <2>1. meta[n] = Nil
    BY <1>1, <1>3 DEF SInv, NamesLoaded
  <2>2. tokens' = [tokens EXCEPT ![n] = d] /\ tokens \in [Names -> OrNil(Metas)]
    BY <1>3 DEF ProcessDeploy, DeployAccepted, SInv, TInv, TypeOK
  <2> HIDE DEF a, n, d
  <2>3. Token(n) = Nil
    BY <1>3, <2>1 DEF Token
  <2>4. ASSUME NEW m \in Names PROVE Token(m)' = IF m = n THEN d ELSE Token(m)
    BY <1>1, <1>2, <2>2 DEF Token
  <2> QED BY <1>1, <1>2, <1>3, <2>3, <2>4 DEF a, n, d
<1>4. CASE tokens[n] # Nil
  <2>1. tokens' = tokens
    BY <1>4 DEF ProcessDeploy, DeployAccepted
  <2>2. \A m \in Names : Token(m)' = Token(m)
    BY <1>1, <2>1 DEF Token
  <2> QED BY <1>1, <1>4, <2>2
<1> QED BY <1>3, <1>4

\* An accepted mint adds the same amount to the supply and to one row.
LEMMA MintView ==
  ASSUME SInv, ProcessMint, MintAccepted(Head(queue))
  PROVE  LET a == Head(queue)
             n == Lower[a.tick]
             d == tokens[n]
             row == OrDefault(accounts[a.owner][d.tick])
             paid == Minted(a, d)
             credited == Credited(row, paid)
         IN  /\ a \in Actions /\ a.op = "mint" /\ a = queue[1] /\ 1 \in DOMAIN queue
             /\ a.owner \in Users /\ a.tick \in Ticks /\ a.amt \in Amounts /\ n \in Names
             /\ d \in Metas /\ d # Nil /\ d = Token(n) /\ d.tick \in Ticks /\ Lower[d.tick] = n
             /\ paid \in Nat \ {0} /\ paid <= a.amt.value /\ d.supply + paid <= d.max
             /\ row \in Balances /\ credited \in Balances
             /\ accounts' = Put(accounts, a.owner, d.tick, credited) /\ balances' = balances
             /\ \A m \in Names : Token(m)' = IF m = n THEN Raised(d, paid) ELSE Token(m)
<1> DEFINE a == Head(queue)
           n == Lower[a.tick]
           d == tokens[n]
           row == OrDefault(accounts[a.owner][d.tick])
           paid == Minted(a, d)
           credited == Credited(row, paid)
           d1 == Raised(d, paid)
<1>1. TInv
  BY DEF SInv
<1>2. /\ a \in Actions /\ a.op = "mint" /\ a = queue[1] /\ 1 \in DOMAIN queue
      /\ a.owner \in Users /\ a.tick \in Ticks /\ a.amt \in Amounts /\ n \in Names
      /\ meta' = meta /\ balances' = balances
  BY <1>1, QueueStep, ActionFields, TickName, HeadAction DEF TInv, ProcessMint, Dequeue, db
<1>3. /\ d \in Metas /\ d # Nil /\ d.tick \in Ticks
      /\ paid \in Nat \ {0} /\ paid <= a.amt.value /\ d.supply + paid <= d.max
  BY <1>1, <1>2, MintedBounds
<1>4. Lower[d.tick] = n /\ d = Token(n)
  BY <1>2, <1>3 DEF SInv, TicksUnderName, Token
<1>5. row \in Balances
  BY <1>1, <1>2, <1>3, DefaultRow DEF TInv, TypeOK
<1>6. credited \in Balances
  BY <1>3, <1>5, CreditedIs
<1>7. /\ tokens' = [tokens EXCEPT ![n] = d1] /\ tokens \in [Names -> OrNil(Metas)]
      /\ accounts' = Put(accounts, a.owner, d.tick, credited)
  <2>1. /\ tokens' = [tokens EXCEPT ![n].supply = @ + paid] /\ tokens \in [Names -> OrNil(Metas)]
        /\ accounts' = [accounts EXCEPT ![a.owner][d.tick] = [row EXCEPT !.balance = @ + paid]]
    BY <1>1 DEF ProcessMint, TInv, TypeOK
  <2> HIDE DEF a, n, row, paid
  <2> QED BY <1>2, <2>1 DEF Put, Credited, Raised
<1>8. d1 # Nil
  BY <1>3, RaisedIs
<1> HIDE DEF a, n, d, row, paid, credited, d1
<1>9. ASSUME NEW m \in Names PROVE Token(m)' = IF m = n THEN d1 ELSE Token(m)
  BY <1>2, <1>7, <1>8 DEF Token
<1> QED BY <1>2, <1>3, <1>4, <1>5, <1>6, <1>7, <1>9 DEF a, n, d, row, paid, credited, d1

\* An accepted transfer locks its amount inside of one row.
LEMMA TransferView ==
  ASSUME SInv, ProcessTransfer, TransferAccepted(Head(queue))
  PROVE  LET a == Head(queue)
             d == tokens[Lower[a.tick]]
             row == accounts[a.owner][d.tick]
             locked == Locked(row, a.amt.value)
         IN  /\ a \in Actions /\ a.op = "transfer" /\ a = queue[1] /\ 1 \in DOMAIN queue
             /\ a.owner \in Users /\ a.tick \in Ticks /\ a.amt \in Amounts /\ a.loc \in Locations
             /\ Lower[a.tick] \in Names
             /\ d \in Metas /\ d # Nil /\ d = Token(Lower[a.tick]) /\ d.tick \in Ticks
             /\ Lower[d.tick] = Lower[a.tick]
             /\ a.amt.value \in Nat \ {0} /\ a.amt.value <= row.balance
             /\ row \in Balances /\ row # Nil /\ row = Row(a.owner, d.tick) /\ locked \in Balances
             /\ accounts' = Put(accounts, a.owner, d.tick, locked) /\ balances' = balances
             /\ ValidRow(a, d) # Nil
             /\ valid_transfers' = [valid_transfers EXCEPT ![a.loc] = ValidRow(a, d)]
<1> DEFINE a == Head(queue)
           d == tokens[Lower[a.tick]]
           row == accounts[a.owner][d.tick]
           locked == Locked(row, a.amt.value)
<1>1. TInv
  BY DEF SInv
<1>2. /\ a \in Actions /\ a.op = "transfer" /\ a = queue[1] /\ 1 \in DOMAIN queue
      /\ a.owner \in Users /\ a.tick \in Ticks /\ a.amt \in Amounts /\ a.loc \in Locations
      /\ Lower[a.tick] \in Names /\ balances' = balances
  BY <1>1, QueueStep, ActionFields, TickName, HeadAction DEF TInv, ProcessTransfer, Dequeue, db
<1>3. /\ d \in Metas /\ d # Nil /\ d.tick \in Ticks /\ row \in Balances
      /\ ValidRow(a, d) # Nil /\ a.amt.value \in Nat \ {0}
  BY <1>1, <1>2, TransferFields
<1>4. d = Token(Lower[a.tick]) /\ Lower[d.tick] = Lower[a.tick]
  BY <1>2, <1>3 DEF SInv, TicksUnderName, Token
<1>5. row # Nil /\ a.amt.value <= row.balance /\ row = Row(a.owner, d.tick)
  BY DEF TransferAccepted, Covers, Row
<1>6. locked \in Balances
  BY <1>3, LockedRow DEF TransferAccepted
<1>7. /\ accounts' = Put(accounts, a.owner, d.tick, locked)
      /\ valid_transfers' = [valid_transfers EXCEPT ![a.loc] = ValidRow(a, d)]
  <2>1. accounts \in [Users -> [Ticks -> OrNil(Balances)]]
    BY <1>1 DEF TInv, TypeOK
  <2>2. /\ accounts' = [accounts EXCEPT ![a.owner][d.tick] = Locked(@, a.amt.value)]
        /\ valid_transfers' = [valid_transfers EXCEPT ![a.loc] = ValidRow(a, d)]
    BY DEF ProcessTransfer
  <2>3. [accounts EXCEPT ![a.owner][d.tick] = Locked(@, a.amt.value)]
          = Put(accounts, a.owner, d.tick, locked)
    BY <1>2, <1>3, <2>1 DEF Put
  <2> QED BY <2>2, <2>3
<1> QED BY <1>2, <1>3, <1>4, <1>5, <1>6, <1>7

\* A move takes its amount out of the sender's row, and adds it to the recipient's.
LEMMA MoveView ==
  ASSUME SInv, ProcessTransferred, valid_transfers[Head(queue).loc] # Nil
  PROVE  LET a == Head(queue)
             tr == valid_transfers[a.loc]
             t == tr.tick
             old == Row(tr.owner, t)
             unlocked == Unlocked(old, tr.amt)
             sent == Put(accounts, tr.owner, t, unlocked)
             row == OrDefault(sent[a.recipient][t])
             credited == Credited(row, tr.amt)
         IN  /\ a \in Actions /\ a.op = "transferred" /\ a = queue[1] /\ 1 \in DOMAIN queue
             /\ a.loc \in Locations /\ a.recipient \in Users \cup {Burned}
             /\ tr.owner \in Users /\ t \in Ticks /\ tr.amt \in Nat \ {0}
             /\ Token(Lower[t]) # Nil /\ Token(Lower[t]).tick = t
             /\ old \in Balances /\ old.count > 0 /\ old.transferable >= tr.amt
             /\ accounts[tr.owner][t] = old /\ old # Nil
             /\ unlocked \in Balances
             /\ sent \in [Users -> [Ticks -> OrNil(Balances)]]
             /\ IF a.recipient = Burned
                THEN accounts' = sent
                ELSE /\ a.recipient \in Users /\ row \in Balances /\ credited \in Balances
                     /\ accounts' = Put(sent, a.recipient, t, credited)
             /\ balances' = balances
             /\ valid_transfers' = [valid_transfers EXCEPT ![a.loc] = Nil]
<1> DEFINE a == Head(queue)
           tr == valid_transfers[a.loc]
           t == tr.tick
           d == tokens[Lower[tr.tick]]
           old == Row(tr.owner, t)
           unlocked == Unlocked(old, tr.amt)
           sent == Put(accounts, tr.owner, t, unlocked)
           row == OrDefault(sent[a.recipient][t])
           credited == Credited(row, tr.amt)
<1>1. TInv
  BY DEF SInv
<1>2. /\ a \in Actions /\ a.op = "transferred" /\ a = queue[1] /\ 1 \in DOMAIN queue
      /\ a.loc \in Locations /\ a.recipient \in Users \cup {Burned} /\ balances' = balances
      /\ valid_transfers' = [valid_transfers EXCEPT ![a.loc] = Nil]
  BY <1>1, QueueStep, ActionFields, HeadAction DEF TInv, ProcessTransferred, Dequeue, db
<1>3. ~InvalidSender(tr) /\ Pay(tr, a.recipient)
  BY DEF ProcessTransferred
<1>4. /\ tr \in Transfers /\ tr.owner \in Users /\ Lower[tr.tick] \in Names /\ d # Nil
      /\ accounts[tr.owner][d.tick] \in Balances /\ accounts[tr.owner][d.tick] # Nil
      /\ accounts[tr.owner][d.tick].count > 0
      /\ accounts[tr.owner][d.tick].transferable >= tr.amt
      /\ Unlocked(accounts[tr.owner][d.tick], tr.amt) \in Balances
  BY <1>1, <1>2, <1>3, MoveFields
<1>5. t \in Ticks /\ tr.amt \in Nat \ {0}
  BY <1>4 DEF Transfers
<1>6. Token(Lower[t]) = d /\ d.tick = t
  BY <1>2, <1>4 DEF SInv, AllSpelled, Deployed, Token
<1>7. accounts[tr.owner][t] = old /\ old \in Balances /\ old # Nil
      /\ old.count > 0 /\ old.transferable >= tr.amt /\ unlocked \in Balances
  BY <1>4, <1>6 DEF Row
<1>8. sent \in [Users -> [Ticks -> OrNil(Balances)]]
  BY <1>1, <1>7 DEF TInv, TypeOK, Put, OrNil
<1>9. IF a.recipient = Burned THEN accounts' = sent
      ELSE accounts' = Put(sent, a.recipient, t, credited)
  BY <1>3, <1>6, <1>7 DEF Pay, Put, RecipientRow, Credited
<1>10. a.recipient # Burned => a.recipient \in Users /\ row \in Balances /\ credited \in Balances
  <2> SUFFICES ASSUME a.recipient # Burned
               PROVE  a.recipient \in Users /\ row \in Balances /\ credited \in Balances
    OBVIOUS
  <2>1. a.recipient \in Users
    BY <1>2
  <2>2. row \in Balances
    BY <1>5, <1>8, <2>1, DefaultRow
  <2>3. credited \in Balances
    BY <1>5, <2>2, CreditedIs
  <2> QED BY <2>1, <2>2, <2>3
<1> QED BY <1>2, <1>4, <1>5, <1>6, <1>7, <1>8, <1>9, <1>10

----------------------------------------------------------------------------
(* NothingFromNothing *)

Supply == [n \in Names |-> IF Token(n) = Nil THEN 0 ELSE Token(n).supply]
SumOf(F, t) == SumFunctionOnSet(F[t], Users)

LEMMA OutstandingIs ==
  ASSUME NEW t \in Ticks
  PROVE  Outstanding(t) = SumOf(Held, t) /\ Outstanding(t)' = SumOf(Held', t)
<1>1. Held[t] = [u \in Users |-> HeldBy(u, t)] /\ Held'[t] = [u \in Users |-> HeldBy(u, t)']
  BY DEF Held, HeldBy
<1> QED BY <1>1 DEF Outstanding, SumOf

LEMMA SumPut ==
  ASSUME NEW F \in [Ticks -> [Users -> Nat]], NEW t \in Ticks, NEW u \in Users, NEW value \in Nat,
         NEW G, G = Put(F, t, u, value)
  PROVE  /\ \A s \in Ticks : SumOf(F, s) \in Nat /\ SumOf(G, s) \in Nat
         /\ SumOf(G, t) = SumOf(F, t) - F[t][u] + value
         /\ \A s \in Ticks : s # t => SumOf(G, s) = SumOf(F, s)
<1>1. /\ G \in [Ticks -> [Users -> Nat]]
      /\ G[t] = [F[t] EXCEPT ![u] = value] /\ \A s \in Ticks : s # t => G[s] = F[s]
  BY DEF Put
<1>2. ASSUME NEW E \in [Ticks -> [Users -> Nat]], NEW s \in Ticks PROVE SumOf(E, s) \in Nat
  <2>1. \A v \in Users : E[s][v] \in Nat
    OBVIOUS
  <2> QED BY <2>1, SumNat, LedgerAssumption DEF SumOf
<1>3. SumOf(G, t) = SumOf(F, t) - F[t][u] + value
  <2> PICK f, g : f = F[t] /\ g = G[t]
    OBVIOUS
  <2>1. /\ \A v \in Users : f[v] \in Nat /\ g[v] \in Nat
        /\ \A v \in Users \ {u} : f[v] = g[v]
        /\ g[u] = value
    BY <1>1
  <2>2. SumFunctionOnSet(g, Users) = SumFunctionOnSet(f, Users) - f[u] + g[u]
    <3>1. IsFiniteSet(Users) /\ u \in Users /\ \A v \in Users : f[v] \in Nat /\ g[v] \in Nat
      BY <2>1, LedgerAssumption
    <3>2. \A v \in Users \ {u} : f[v] = g[v]
      BY <2>1
    <3> QED BY ONLY <3>1, <3>2, SumChange
  <2> QED BY <2>1, <2>2 DEF SumOf
<1>4. \A s \in Ticks : s # t => SumOf(G, s) = SumOf(F, s)
  BY <1>1 DEF SumOf
<1> QED BY <1>1, <1>2, <1>3, <1>4

LEMMA SupplyNat ==
  ASSUME SInv, NEW n \in Names
  PROVE  Supply[n] \in Nat
BY DEF SInv, TInv, TypeOK, OrNil, Metas, Token, Supply

LEMMA BackedSupply ==
  NothingFromNothing <=> \A t \in Ticks : SumOf(Held, t) <= Supply[Lower[t]]
BY OutstandingIs, TickName DEF NothingFromNothing, Supply

LEMMA BackedSupplyNext ==
  NothingFromNothing' <=> \A t \in Ticks : SumOf(Held', t) <= Supply'[Lower[t]]
BY OutstandingIs, TickName DEF NothingFromNothing, Supply

\* A write of one row: what the users hold changes in one place.
LEMMA HeldPut ==
  ASSUME NEW acc \in [Users -> [Ticks -> OrNil(Balances)]],
         NEW bal \in [Users -> [Ticks -> OrNil(Balances)]],
         NEW u \in Users, NEW t \in Ticks, NEW row \in Balances,
         NEW F, F = HeldOf(acc, bal), NEW G, G = HeldOf(Put(acc, u, t, row), bal)
  PROVE  /\ F \in [Ticks -> [Users -> Nat]] /\ Total(row) \in Nat
         /\ \A s \in Ticks : SumOf(F, s) \in Nat /\ SumOf(G, s) \in Nat
         /\ SumOf(G, t) = SumOf(F, t) - F[t][u] + Total(row)
         /\ \A s \in Ticks : s # t => SumOf(G, s) = SumOf(F, s)
<1>1. F \in [Ticks -> [Users -> Nat]] /\ Total(row) \in Nat
  BY HeldOfType, TotalNat
<1>2. G = Put(F, t, u, Total(row))
  BY HeldWith
<1>3. ASSUME NEW E \in [Ticks -> [Users -> Nat]], NEW value \in Nat, G = Put(E, t, u, value)
      PROVE  /\ \A s \in Ticks : SumOf(E, s) \in Nat /\ SumOf(G, s) \in Nat
             /\ SumOf(G, t) = SumOf(E, t) - E[t][u] + value
             /\ \A s \in Ticks : s # t => SumOf(G, s) = SumOf(E, s)
  BY <1>3, SumPut
<1> PICK value \in Nat : value = Total(row)
  BY <1>1
<1> QED BY <1>1, <1>2, <1>3

\* The row an account has in the cache, if any, is what its user holds.
LEMMA CachedHeld ==
  ASSUME NEW acc \in [Users -> [Ticks -> OrNil(Balances)]],
         NEW bal \in [Users -> [Ticks -> OrNil(Balances)]],
         NEW u \in Users, NEW t \in Ticks
  PROVE  /\ Total(OrDefault(acc[u][t])) <= HeldOf(acc, bal)[t][u]
         /\ acc[u][t] # Nil => Total(acc[u][t]) = HeldOf(acc, bal)[t][u]
<1>1. HeldOf(acc, bal)[t][u] \in Nat
  BY HeldOfType
<1>2. CASE acc[u][t] = Nil
  BY <1>1, <1>2, NoBalance DEF OrDefault
<1>3. CASE acc[u][t] # Nil
  <2>1. Total(acc[u][t]) = HeldOf(acc, bal)[t][u]
    BY <1>3 DEF HeldOf
  <2> QED BY <1>1, <1>3, <2>1 DEF OrDefault
<1> QED BY <1>2, <1>3

\* Minted tokens go to the supply and to one account, which may not be loaded.
LEMMA NothingFromMint == SInv /\ NothingFromNothing /\ ProcessMint => NothingFromNothing'
<1> SUFFICES ASSUME SInv, NothingFromNothing, ProcessMint
             PROVE  \A s \in Ticks : SumOf(Held', s) <= Supply'[Lower[s]]
  BY BackedSupplyNext
<1> DEFINE a == Head(queue)
           n == Lower[a.tick]
           d == tokens[n]
           t == d.tick
           row == OrDefault(accounts[a.owner][t])
           paid == Minted(a, d)
           credited == Credited(row, paid)
<1>1. \A s \in Ticks : SumOf(Held, s) <= Supply[Lower[s]]
  BY BackedSupply
<1>2. accounts \in [Users -> [Ticks -> OrNil(Balances)]] /\ balances \in [Users -> [Ticks -> OrNil(Balances)]]
  BY DEF SInv, TInv, TypeOK
<1>3. CASE MintAccepted(a)
  <2>1. /\ a.owner \in Users /\ n \in Names
        /\ d \in Metas /\ d # Nil /\ d = Token(n) /\ t \in Ticks /\ Lower[t] = n
        /\ paid \in Nat \ {0}
        /\ row \in Balances /\ credited \in Balances
        /\ accounts' = Put(accounts, a.owner, t, credited) /\ balances' = balances
        /\ \A m \in Names : Token(m)' = IF m = n THEN Raised(d, paid) ELSE Token(m)
    BY <1>3, MintView
  <2>2. Total(credited) = Total(row) + paid /\ Total(row) \in Nat
    BY <2>1, CreditedIs, TotalNat
  <2> HIDE DEF a, n, d, t, row, paid, credited
  <2>3. /\ Supply'[n] = Supply[n] + paid
        /\ \A m \in Names : m # n => Supply'[m] = Supply[m]
        /\ \A m \in Names : Supply[m] \in Nat
    <3>1. Raised(d, paid) # Nil /\ Raised(d, paid).supply = d.supply + paid
      BY <2>1, RaisedIs
    <3>2. \A m \in Names : m = n => Token(m)' = Raised(d, paid)
      BY <2>1
    <3>3. Supply'[n] = Supply[n] + paid
      BY <2>1, <3>1, <3>2 DEF Supply
    <3> QED BY <2>1, <3>3, SupplyNat DEF Supply
  <2> PICK u \in Users, row1 \in Balances : u = a.owner /\ row1 = credited
    BY <2>1
  <2>4. Held = HeldOf(accounts, balances) /\ Held' = HeldOf(Put(accounts, u, t, row1), balances)
    BY <2>1, HeldIsOf
  <2>5. /\ Held \in [Ticks -> [Users -> Nat]]
        /\ \A s \in Ticks : SumOf(Held, s) \in Nat /\ SumOf(Held', s) \in Nat
        /\ SumOf(Held', t) = SumOf(Held, t) - Held[t][u] + Total(row1)
        /\ \A s \in Ticks : s # t => SumOf(Held', s) = SumOf(Held, s)
    <3>1. t \in Ticks
      BY <2>1
    <3> QED BY <1>2, <2>4, <3>1, HeldPut
  <2>6. Total(row) <= Held[t][u] /\ Held[t][u] \in Nat
    BY <1>2, <2>1, <2>4, <2>5, CachedHeld DEF row
  <2>7. SumOf(Held', t) <= SumOf(Held, t) + paid
    BY <2>1, <2>2, <2>5, <2>6
  <2> SUFFICES ASSUME NEW s \in Ticks PROVE SumOf(Held', s) <= Supply'[Lower[s]]
    OBVIOUS
  <2>8. Lower[s] \in Names
    BY TickName
  <2>9. SumOf(Held', s) <= SumOf(Held, s) + (IF s = t THEN paid ELSE 0)
    BY <2>1, <2>5, <2>7
  <2>10. Supply'[Lower[s]] = Supply[Lower[s]] + (IF Lower[s] = n THEN paid ELSE 0)
    BY <2>1, <2>3, <2>8
  <2> QED BY <1>1, <2>1, <2>3, <2>5, <2>8, <2>9, <2>10
<1>4. CASE ~MintAccepted(a)
  <2>1. UNCHANGED <<tokens, meta, accounts, balances>>
    BY <1>4 DEF ProcessMint, Dequeue, db
  <2>2. \A m \in Names : Supply'[m] = Supply[m]
    BY <2>1 DEF Supply, Token
  <2> QED BY <1>1, <2>1, <2>2, HeldFrame, TickName
<1> QED BY <1>3, <1>4

\* What a move takes from its sender is what it gives, unless it is burned; the
\* recipient's account may not be loaded.
LEMMA NothingFromMove ==
  SInv /\ NothingFromNothing /\ ProcessTransferred => NothingFromNothing'
<1> SUFFICES ASSUME SInv, NothingFromNothing, ProcessTransferred
             PROVE  \A s \in Ticks : SumOf(Held', s) <= Supply'[Lower[s]]
  BY BackedSupplyNext
<1> DEFINE a == Head(queue)
           tr == valid_transfers[a.loc]
           t == tr.tick
           old == Row(tr.owner, t)
           unlocked == Unlocked(old, tr.amt)
           sent == Put(accounts, tr.owner, t, unlocked)
           row == OrDefault(sent[a.recipient][t])
           credited == Credited(row, tr.amt)
<1>1. \A s \in Ticks : SumOf(Held, s) <= Supply[Lower[s]]
  BY BackedSupply
<1>2. accounts \in [Users -> [Ticks -> OrNil(Balances)]] /\ balances \in [Users -> [Ticks -> OrNil(Balances)]]
  BY DEF SInv, TInv, TypeOK
<1>3. \A n \in Names : Supply'[n] = Supply[n] /\ Supply[n] \in Nat
  BY TokensKept, SupplyNat DEF Supply
<1> SUFFICES ASSUME NEW s \in Ticks PROVE SumOf(Held', s) <= SumOf(Held, s) /\ SumOf(Held, s) \in Nat /\ SumOf(Held', s) \in Nat
  BY <1>1, <1>3, TickName
<1>4. CASE tr = Nil
  <2>1. Held' = Held
    BY <1>4, HeldFrame DEF ProcessTransferred, Dequeue, db
  <2>2. \A v \in Users : Held[s][v] \in Nat
    BY HeldType DEF SInv
  <2>3. SumOf(Held, s) \in Nat
    BY <2>2, SumNat, LedgerAssumption DEF SumOf
  <2> QED BY <2>1, <2>3
<1>5. CASE tr # Nil
  <2>1. /\ a.loc \in Locations /\ a.recipient \in Users \cup {Burned}
        /\ tr.owner \in Users /\ t \in Ticks /\ tr.amt \in Nat \ {0}
        /\ old \in Balances /\ old.count > 0 /\ old.transferable >= tr.amt
        /\ accounts[tr.owner][t] = old /\ old # Nil
        /\ unlocked \in Balances
        /\ sent \in [Users -> [Ticks -> OrNil(Balances)]]
        /\ IF a.recipient = Burned
           THEN accounts' = sent
           ELSE /\ a.recipient \in Users /\ row \in Balances /\ credited \in Balances
                /\ accounts' = Put(sent, a.recipient, t, credited)
        /\ balances' = balances
    BY <1>5, MoveView
  <2> HIDE DEF a, tr, t, old
  <2>2. Total(unlocked) = Total(old) - tr.amt /\ Total(old) \in Nat
    <3>1. old.count # 0 /\ ~(old.transferable < tr.amt)
      BY <2>1 DEF Balances
    <3> HIDE DEF unlocked
    <3>2. Total(Unlocked(old, tr.amt)) = Total(old) - tr.amt
      BY <2>1, <3>1, UnlockedRow
    <3> QED BY <2>1, <3>2, TotalNat DEF unlocked
  <2> DEFINE F == HeldOf(sent, balances)
  <2>3. Held = HeldOf(accounts, balances) /\ Held' = HeldOf(accounts', balances)
    BY <2>1, HeldIsOf
  <2> PICK u \in Users : u = tr.owner
    BY <2>1
  <2>4. Held[t][u] = Total(old)
    <3>1. t \in Ticks /\ accounts[u][t] = old /\ old # Nil
      BY <2>1
    <3> QED BY <1>2, <2>3, <3>1, CachedHeld
  <2>5. /\ \A r \in Ticks : SumOf(Held, r) \in Nat /\ SumOf(F, r) \in Nat
        /\ SumOf(F, t) = SumOf(Held, t) - Held[t][u] + Total(unlocked)
        /\ \A r \in Ticks : r # t => SumOf(F, r) = SumOf(Held, r)
    <3> HIDE DEF unlocked
    <3>1. t \in Ticks /\ unlocked \in Balances /\ sent = Put(accounts, u, t, unlocked)
      BY <2>1
    <3> HIDE DEF sent
    <3> QED BY <1>2, <2>3, <3>1, HeldPut
  <2>6. SumOf(F, t) = SumOf(Held, t) - tr.amt
    BY <2>1, <2>2, <2>4, <2>5
  <2>7. CASE a.recipient = Burned
    <3>1. Held' = F
      BY <2>1, <2>3, <2>7
    <3> HIDE DEF F
    <3> QED BY <2>1, <2>5, <2>6, <3>1
  <2>8. CASE a.recipient # Burned
    <3> HIDE DEF sent, row
    <3>1. Total(credited) = Total(row) + tr.amt /\ Total(row) \in Nat
      BY <2>1, <2>8, CreditedIs, TotalNat
    <3> HIDE DEF credited
    <3> PICK v \in Users : v = a.recipient
      BY <2>1, <2>8
    <3>2. /\ F \in [Ticks -> [Users -> Nat]]
          /\ \A r \in Ticks : SumOf(F, r) \in Nat /\ SumOf(Held', r) \in Nat
          /\ SumOf(Held', t) = SumOf(F, t) - F[t][v] + Total(credited)
          /\ \A r \in Ticks : r # t => SumOf(Held', r) = SumOf(F, r)
      <4>1. /\ t \in Ticks /\ credited \in Balances
            /\ sent \in [Users -> [Ticks -> OrNil(Balances)]]
            /\ accounts' = Put(sent, v, t, credited)
        BY <2>1, <2>8
      <4> QED BY <1>2, <2>3, <4>1, HeldPut
    <3>3. Total(row) <= F[t][v] /\ F[t][v] \in Nat
      <4>1. t \in Ticks /\ sent \in [Users -> [Ticks -> OrNil(Balances)]] /\ row = OrDefault(sent[v][t])
        BY <2>1 DEF row
      <4>2. Total(OrDefault(sent[v][t])) <= F[t][v]
        BY <1>2, <4>1, CachedHeld
      <4>3. F[t][v] \in Nat
        BY <3>2, <4>1
      <4> QED BY <4>1, <4>2, <4>3
    <3> HIDE DEF F
    <3> QED BY <2>1, <2>5, <2>6, <3>1, <3>2, <3>3
  <2> QED BY <2>7, <2>8
<1> QED BY <1>4, <1>5

LEMMA NothingFromNext ==
  SInv /\ NothingFromNothing /\ [Next]_vars => NothingFromNothing'
<1> SUFFICES ASSUME SInv, NothingFromNothing, [Next]_vars PROVE NothingFromNothing'
  OBVIOUS
<1>1. \A s \in Ticks : SumOf(Held, s) <= Supply[Lower[s]]
  BY BackedSupply
<1>2. ASSUME Held' = Held, \A n \in Names : Supply'[n] = Supply[n] PROVE NothingFromNothing'
  BY <1>1, <1>2, TickName, BackedSupplyNext
<1>3. ASSUME \A u \in Users, t \in Ticks : Row(u, t)' = Row(u, t) PROVE Held' = Held
  BY <1>3 DEF Held
<1>4. CASE Parse \/ LoadTokensData \/ CommitBlock \/ PanicTransferred
  <2>1. \A n \in Names : Supply'[n] = Supply[n]
    BY <1>4, TokensKept DEF Supply
  <2>2. Held' = Held
    BY <1>3, <1>4, RowsKept
  <2> QED BY <1>2, <2>1, <2>2
<1>5. CASE ProcessDeploy
  <2>1. Held' = Held
    BY <1>3, <1>5, RowsKept
  <2>2. \A n \in Names : Supply'[n] = Supply[n]
    BY <1>5, DeployTokens DEF Supply
  <2> QED BY <1>2, <2>1, <2>2
<1>6. CASE ProcessMint
  BY <1>6, NothingFromMint
<1>7. CASE ProcessTransfer
  <2>1. \A n \in Names : Supply'[n] = Supply[n]
    BY <1>7, TokensKept DEF Supply
  <2> QED BY <1>2, <1>7, <2>1, TransferKeepsHeld
<1>8. CASE ProcessTransferred
  BY <1>8, NothingFromMove
<1>9. CASE UNCHANGED vars
  <2>1. UNCHANGED <<tokens, meta, accounts, balances>>
    BY <1>9 DEF vars, db, cache
  <2>2. \A n \in Names : Supply'[n] = Supply[n]
    BY <2>1 DEF Supply, Token
  <2> QED BY <1>2, <2>1, <2>2, HeldFrame
<1> QED BY <1>4, <1>5, <1>6, <1>7, <1>8, <1>9 DEF Next, Process, Terminated

LEMMA NothingFromInit == Init => NothingFromNothing
<1> SUFFICES ASSUME Init PROVE NothingFromNothing
  OBVIOUS
<1>1. \A u \in Users, t \in Ticks : Held[t][u] = 0
  BY NoBalance DEF Init, NoAccounts, Held, Row, OrDefault
<1>2. ASSUME NEW t \in Ticks PROVE SumOf(Held, t) = 0
  <2> PICK f : f = Held[t]
    OBVIOUS
  <2>1. \A u \in Users : f[u] = 0
    BY <1>1
  <2>2. SumFunctionOnSet(f, Users) = 0
    BY <2>1, SumZero, LedgerAssumption
  <2> QED BY <2>2 DEF SumOf
<1>3. \A n \in Names : Supply[n] = 0
  BY DEF Init, NoRows, Supply, Token
<1> QED BY <1>2, <1>3, TickName, BackedSupply

(* Whatever the inscriptions of a chain ask for, with the jubilee rule too, and
   wherever a panic cuts a block short: mints, locks, moves, leaks and burns never
   make the accounts of a token hold more than its supply. *)
THEOREM NothingCreated == Spec => []NothingFromNothing
BY SInvInit, SInvNext, NothingFromInit, NothingFromNext, PTL DEF Spec

----------------------------------------------------------------------------
(* CacheReadsThrough *)

\* An account that a mint or a move adds to the cache was covered by the load.
LEMMA ReadsThroughNext == CInv /\ [Next]_vars => ReadsThrough
<1> SUFFICES ASSUME CInv, [Next]_vars, phase = "process",
                    NEW u \in Users, NEW t \in Ticks, accounts[u][t] = Nil, accounts'[u][t] # Nil
             PROVE  Total(OrDefault(balances[u][t])) = 0
  BY DEF ReadsThrough
<1> DEFINE a == Head(queue)
           tr == valid_transfers[a.loc]
<1>1. SInv /\ accounts \in [Users -> [Ticks -> OrNil(Balances)]]
  BY DEF CInv, SInv, TInv, TypeOK
<1>2. accounts' # accounts /\ accounts' # NoAccounts
  BY DEF NoAccounts
<1>3. CASE ProcessMint
  <2> DEFINE n == Lower[a.tick]
             d == tokens[n]
             credited == Credited(OrDefault(accounts[a.owner][d.tick]), Minted(a, d))
  <2>1. MintAccepted(a)
    BY <1>2, <1>3 DEF ProcessMint
  <2>2. /\ a.op = "mint" /\ a = queue[1] /\ 1 \in DOMAIN queue
        /\ a.owner \in Users /\ d.tick \in Ticks /\ Lower[d.tick] = n
        /\ accounts' = Put(accounts, a.owner, d.tick, credited)
    BY <1>1, <1>3, <2>1, MintView
  <2>3. Covered(a.owner, n)
    BY <2>2 DEF CInv, QueueCovered
  <2> HIDE DEF credited, n, d, a
  <2>4. u = a.owner /\ t = d.tick
    BY <1>1, <2>2 DEF Put
  <2> QED BY <2>2, <2>3, <2>4 DEF Covered
<1>4. CASE ProcessTransfer
  <2> DEFINE d == tokens[Lower[a.tick]]
             row == accounts[a.owner][d.tick]
             locked == Locked(row, a.amt.value)
  <2>1. TransferAccepted(a)
    BY <1>2, <1>4 DEF ProcessTransfer
  <2>2. row # Nil /\ accounts' = Put(accounts, a.owner, d.tick, locked)
        /\ a.owner \in Users /\ d.tick \in Ticks
    BY <1>1, <1>4, <2>1, TransferView
  <2> HIDE DEF locked, d, a
  <2> QED BY <1>1, <2>2 DEF Put
<1>5. CASE ProcessTransferred
  <2> DEFINE old == Row(tr.owner, tr.tick)
             sent == Put(accounts, tr.owner, tr.tick, Unlocked(old, tr.amt))
             credited == Credited(OrDefault(sent[a.recipient][tr.tick]), tr.amt)
  <2>1. tr # Nil
    BY <1>2, <1>5 DEF ProcessTransferred
  <2>2. /\ a.op = "transferred" /\ a = queue[1] /\ 1 \in DOMAIN queue
        /\ tr.owner \in Users /\ tr.tick \in Ticks
        /\ accounts[tr.owner][tr.tick] # Nil
        /\ sent \in [Users -> [Ticks -> OrNil(Balances)]]
        /\ IF a.recipient = Burned
           THEN accounts' = sent
           ELSE a.recipient \in Users /\ accounts' = Put(sent, a.recipient, tr.tick, credited)
    BY <1>1, <1>5, <2>1, MoveView
  <2>3. a.recipient # Burned => Covered(a.recipient, Lower[tr.tick])
    BY <2>1, <2>2 DEF CInv, QueueCovered
  <2> HIDE DEF credited, a, tr, old
  <2>4. sent[u][t] = Nil
    BY <1>1, <2>2 DEF Put
  <2> HIDE DEF sent
  <2>5. a.recipient # Burned /\ u = a.recipient /\ t = tr.tick
    BY <2>2, <2>4 DEF Put
  <2> QED BY <2>3, <2>5 DEF Covered
<1> QED BY <1>2, <1>3, <1>4, <1>5
        DEF Next, Process, Parse, BeginBlock, InscribeDeploy, InscribeMint, InscribeTransfer,
            MoveTransfer, LeakTransfer, Enqueue, LoadTokensData, ProcessDeploy, PanicTransferred,
            CommitBlock, Terminated, vars, cache

(* Without the jubilee rule a block loads every account it may write: one that
   processing adds to the cache has no tokens in address_token_to_balance, so the
   write-back of the cache overwrites no balance. *)
THEOREM BlockReadsThrough == ASSUME ~OccupiedOffsets PROVE Spec => CacheReadsThrough
<1>1. CInv /\ [Next]_vars => CInv'
  BY CInvNext
<1>2. CInv /\ [Next]_vars => [ReadsThrough]_vars
  BY ReadsThroughNext
<1> QED BY CInvInit, <1>1, <1>2, PTL DEF Spec, CacheReadsThrough

----------------------------------------------------------------------------
(* The pending transfers, as one function. *)
PendingMap == [l \in Locations |-> Pending(l)]
OwnedIn(P, u, t) == {l \in Locations : P[l] # Nil /\ P[l].owner = u /\ P[l].tick = t}
AmountsOf(P, S) == [l \in S |-> P[l].amt]
Backs(P, row, u, t) ==
  /\ IsFiniteSet(OwnedIn(P, u, t))
  /\ row.transferable = SumFunctionOnSet(AmountsOf(P, OwnedIn(P, u, t)), OwnedIn(P, u, t))
  /\ row.count = Cardinality(OwnedIn(P, u, t))

\* What the pending transfers of an account add up to is locked in its row.
Backed == \A u \in Users, t \in Ticks : Backs(PendingMap, Row(u, t), u, t)

\* A row the block has taken out of the table is never pending in both places.
SpentOnce ==
  /\ phase = "idle" => loaded = {} /\ valid_transfers = NoRows(Locations)
  /\ \A l \in loaded : transfers[l] # Nil
  /\ \A l \in Locations : valid_transfers[l] # Nil => l \in loaded \/ transfers[l] = Nil

\* Without the jubilee rule each queued transfer has a location of its own.
QueuedFresh ==
  phase \in {"parse", "process"} =>
    \A i \in DOMAIN queue : queue[i].op = "transfer" =>
      /\ all_transfers[queue[i].loc] =
           [owner |-> queue[i].owner, tick |-> queue[i].tick, amt |-> queue[i].amt.value]
      /\ transfers[queue[i].loc] = Nil
      /\ valid_transfers[queue[i].loc] = Nil
      /\ \A j \in DOMAIN queue : queue[j].op = "transfer" /\ queue[j].loc = queue[i].loc => j = i

\* A spent transfer waits for its move, or its move is queued.
MovesQueued ==
  phase = "parse" =>
    /\ \A l \in Locations : valid_transfers[l] # Nil => l \in loaded
    /\ \A l \in loaded :
         l \in movable \/ \E i \in DOMAIN queue : queue[i].op = "transferred" /\ queue[i].loc = l

\* What a move of a valid transfer unwraps is there.
SendersLoaded ==
  phase = "process" =>
    \A l \in Locations : valid_transfers[l] # Nil =>
      /\ tokens[Lower[valid_transfers[l].tick]] # Nil
      /\ accounts[valid_transfers[l].owner][valid_transfers[l].tick] # Nil

BInv == CInv /\ Backed /\ SpentOnce /\ QueuedFresh /\ MovesQueued /\ SendersLoaded /\ NoPanic

----------------------------------------------------------------------------
(* Pending transfers as a function of locations. *)

PendingMaps == [Locations -> OrNil(Transfers)]

LEMMA RowFields ==
  ASSUME NEW tr \in Transfers
  PROVE  tr.owner \in Users /\ tr.tick \in Ticks /\ tr.amt \in Nat \ {0} /\ tr # Nil
BY LedgerAssumption DEF Transfers

LEMMA PendingType == ASSUME TInv PROVE PendingMap \in PendingMaps
BY DEF TInv, TypeOK, PendingMap, Pending, PendingMaps

LEMMA PendingTypeNext == ASSUME TInv' PROVE PendingMap' \in PendingMaps
BY DEF TInv, TypeOK, PendingMap, Pending, PendingMaps

LEMMA AmountsNat ==
  ASSUME NEW P \in PendingMaps, NEW u, NEW t, NEW m \in OwnedIn(P, u, t)
  PROVE  P[m].amt \in Nat \ {0}
<1>1. P[m] \in Transfers
  BY DEF PendingMaps, OwnedIn, OrNil
<1> QED BY <1>1, RowFields

\* What the transfers of S lock does not depend on the others.
LEMMA SumOfAmounts ==
  ASSUME NEW S, IsFiniteSet(S), NEW T, S \subseteq T, NEW P, NEW Q, \A m \in S : P[m] = Q[m]
  PROVE  SumFunctionOnSet(AmountsOf(P, S), S) = SumFunctionOnSet(AmountsOf(Q, T), S)
<1> PICK f, g : f = AmountsOf(P, S) /\ g = AmountsOf(Q, T)
  OBVIOUS
<1>1. \A m \in S : f[m] = g[m]
  BY DEF AmountsOf
<1>2. SumFunctionOnSet(f, S) = SumFunctionOnSet(g, S)
  BY <1>1, SumSame
<1> QED BY <1>2

\* A transfer of another account changes nothing of this one.
LEMMA BacksOther ==
  ASSUME NEW P \in PendingMaps, NEW Q \in PendingMaps, NEW l \in Locations,
         \A m \in Locations \ {l} : Q[m] = P[m],
         NEW u, NEW t, NEW row, Backs(P, row, u, t),
         l \notin OwnedIn(P, u, t), l \notin OwnedIn(Q, u, t)
  PROVE  Backs(Q, row, u, t)
<1>1. OwnedIn(Q, u, t) = OwnedIn(P, u, t)
  BY DEF OwnedIn
<1> PICK S : S = OwnedIn(P, u, t)
  OBVIOUS
<1>2. \A m \in S : P[m] = Q[m]
  BY DEF OwnedIn
<1>3. SumFunctionOnSet(AmountsOf(P, S), S) = SumFunctionOnSet(AmountsOf(Q, S), S)
  BY <1>2, SumOfAmounts DEF Backs
<1> QED BY <1>1, <1>3 DEF Backs

LEMMA OneMore ==
  ASSUME NEW S, IsFiniteSet(S), NEW x, x \notin S, NEW T, T = S \cup {x}
  PROVE  IsFiniteSet(T) /\ Cardinality(T) = Cardinality(S) + 1
BY FS_AddElement

LEMMA AmountsMore ==
  ASSUME NEW S, IsFiniteSet(S), NEW x, x \notin S, NEW T, T = S \cup {x}, NEW P, NEW Q,
         \A m \in S : P[m] = Q[m], \A m \in T : Q[m].amt \in Nat, NEW amt, Q[x].amt = amt
  PROVE  SumFunctionOnSet(AmountsOf(Q, T), T) = SumFunctionOnSet(AmountsOf(P, S), S) + amt
<1> PICK f : f = AmountsOf(Q, T)
  OBVIOUS
<1>1. \A m \in S \cup {x} : f[m] \in Nat
  BY DEF AmountsOf
<1>2. SumFunctionOnSet(f, S \cup {x}) = SumFunctionOnSet(f, S) + f[x]
  BY <1>1, SumAdd
<1>3. SumFunctionOnSet(AmountsOf(P, S), S) = SumFunctionOnSet(AmountsOf(Q, T), S)
  BY SumOfAmounts
<1>4. f[x] = Q[x].amt
  BY DEF AmountsOf
<1> QED BY <1>2, <1>3, <1>4

LEMMA OneLess ==
  ASSUME NEW S, IsFiniteSet(S), NEW x \in S, NEW T, T = S \ {x}
  PROVE  /\ IsFiniteSet(T) /\ Cardinality(T) \in Nat
         /\ Cardinality(S) \in Nat /\ Cardinality(T) = Cardinality(S) - 1
BY FS_RemoveElement, FS_CardinalityType

\* A new pending transfer adds its amount and one to the count.
LEMMA BacksMore ==
  ASSUME NEW P \in PendingMaps, NEW Q \in PendingMaps, NEW l \in Locations,
         \A m \in Locations \ {l} : Q[m] = P[m], NEW tr \in Transfers, Q[l] = tr, P[l] = Nil,
         NEW row \in Balances, Backs(P, row, tr.owner, tr.tick),
         NEW more \in Balances, more.transferable = row.transferable + tr.amt,
         more.count = row.count + 1
  PROVE  Backs(Q, more, tr.owner, tr.tick)
<1> PICK S, T : S = OwnedIn(P, tr.owner, tr.tick) /\ T = OwnedIn(Q, tr.owner, tr.tick)
  OBVIOUS
<1>1. T = S \cup {l} /\ l \notin S
  BY RowFields DEF OwnedIn
<1>2. IsFiniteSet(S) /\ IsFiniteSet(T) /\ Cardinality(T) = Cardinality(S) + 1
  <2>1. IsFiniteSet(S)
    BY DEF Backs
  <2> QED BY <1>1, <2>1, OneMore
<1>3. SumFunctionOnSet(AmountsOf(Q, T), T) = SumFunctionOnSet(AmountsOf(P, S), S) + tr.amt
  <2>1. \A m \in S : P[m] = Q[m]
    BY <1>1 DEF OwnedIn
  <2>2. \A m \in T : Q[m].amt \in Nat
    BY AmountsNat
  <2>3. T = S \cup {l} /\ l \notin S /\ IsFiniteSet(S)
    BY <1>1, <1>2
  <2>4. Q[l].amt = tr.amt
    OBVIOUS
  <2> QED BY <2>1, <2>2, <2>3, <2>4, AmountsMore
<1>4. /\ row.transferable = SumFunctionOnSet(AmountsOf(P, S), S)
      /\ row.count = Cardinality(S)
  BY DEF Backs
<1> QED BY <1>2, <1>3, <1>4 DEF Backs

\* A pending transfer is covered by the row it backs; without it, the row has as much less.
LEMMA BacksLess ==
  ASSUME NEW P \in PendingMaps, NEW Q \in PendingMaps, NEW l \in Locations,
         \A m \in Locations \ {l} : Q[m] = P[m], NEW tr \in Transfers, P[l] = tr, Q[l] = Nil,
         NEW row \in Balances, Backs(P, row, tr.owner, tr.tick)
  PROVE  /\ row.count # 0 /\ tr.amt <= row.transferable
         /\ \A less \in Balances :
              less.transferable = row.transferable - tr.amt /\ less.count = row.count - 1 =>
                Backs(Q, less, tr.owner, tr.tick)
<1> PICK S, T : S = OwnedIn(P, tr.owner, tr.tick) /\ T = OwnedIn(Q, tr.owner, tr.tick)
  OBVIOUS
<1>1. T = S \ {l} /\ l \in S
  BY RowFields DEF OwnedIn
<1>2. /\ IsFiniteSet(S) /\ IsFiniteSet(T) /\ Cardinality(S) \in Nat
      /\ Cardinality(T) \in Nat /\ Cardinality(T) = Cardinality(S) - 1
  <2>1. IsFiniteSet(S)
    BY DEF Backs
  <2> QED BY <1>1, <2>1, OneLess
<1> PICK f : f = AmountsOf(P, S)
  OBVIOUS
<1>3. \A m \in S : f[m] \in Nat
  BY AmountsNat DEF AmountsOf
<1>4. SumFunctionOnSet(f, S) = tr.amt + SumFunctionOnSet(f, T) /\ SumFunctionOnSet(f, T) \in Nat
  <2>1. f[l] = tr.amt
    BY <1>1 DEF AmountsOf
  <2>2. \A m \in T : f[m] \in Nat
    BY <1>1, <1>3
  <2>3. SumFunctionOnSet(f, S) = f[l] + SumFunctionOnSet(f, S \ {l})
    <3>1. IsFiniteSet(S) /\ l \in S
      BY <1>1, <1>2
    <3> QED BY <1>3, <3>1, SumRemove
  <2> QED BY <1>1, <1>2, <2>1, <2>2, <2>3, SumNat
<1>5. SumFunctionOnSet(AmountsOf(Q, T), T) = SumFunctionOnSet(f, T)
  <2>1. T \subseteq S /\ \A m \in T : Q[m] = P[m]
    BY <1>1 DEF OwnedIn
  <2> QED BY <1>2, <2>1, SumOfAmounts
<1>6. row.transferable = SumFunctionOnSet(f, S) /\ row.count = Cardinality(S)
  BY DEF Backs
<1>7. tr.amt \in Nat
  BY RowFields
<1>8. row.count # 0 /\ tr.amt <= row.transferable
  BY <1>2, <1>4, <1>6, <1>7
<1>9. ASSUME NEW less \in Balances,
             less.transferable = row.transferable - tr.amt, less.count = row.count - 1
      PROVE  Backs(Q, less, tr.owner, tr.tick)
  <2>1. less.transferable = SumFunctionOnSet(f, T) /\ less.count = Cardinality(T)
    BY <1>2, <1>4, <1>6, <1>7, <1>9
  <2> QED BY <1>2, <1>5, <2>1 DEF Backs
<1> QED BY <1>8, <1>9

\* An account without tokens has no pending transfer: its row says nothing at all.
LEMMA BackedNothing ==
  ASSUME NEW P \in PendingMaps, NEW u \in Users, NEW t \in Ticks,
         NEW row \in Balances, Backs(P, row, u, t), row.transferable = 0
  PROVE  row.count = 0 /\ OwnedIn(P, u, t) = {} /\ Backs(P, ZeroBalance, u, t)
<1> PICK S : S = OwnedIn(P, u, t)
  OBVIOUS
<1> PICK f : f = AmountsOf(P, S)
  OBVIOUS
<1>1. \A m \in S : f[m] \in Nat \ {0}
  BY AmountsNat DEF AmountsOf
<1>2. IsFiniteSet(S) /\ SumFunctionOnSet(f, S) = 0
  BY DEF Backs
<1>3. S = {}
  <2> SUFFICES ASSUME NEW m \in S PROVE FALSE
    OBVIOUS
  <2>1. f[m] <= SumFunctionOnSet(f, S)
    BY <1>1, <1>2, SumBounds
  <2> QED BY <1>1, <1>2, <2>1
<1>4. row.count = 0
  BY <1>3, FS_EmptySet DEF Backs
<1>5. Backs(P, ZeroBalance, u, t)
  BY <1>4 DEF Backs, ZeroBalance
<1> QED BY <1>3, <1>4, <1>5

\* TransfersBacked is what Backed says of the rows.
LEMMA BackedIsBacked == Backed => TransfersBacked
<1> SUFFICES ASSUME Backed, NEW u \in Users, NEW t \in Ticks
             PROVE  /\ Row(u, t).transferable = SumFunctionOnSet(Locks(u, t), PendingOf(u, t))
                    /\ Row(u, t).count = Cardinality(PendingOf(u, t))
  BY DEF TransfersBacked
<1>1. PendingOf(u, t) = OwnedIn(PendingMap, u, t)
  BY DEF PendingOf, OwnedIn, PendingMap
<1>2. Locks(u, t) = AmountsOf(PendingMap, OwnedIn(PendingMap, u, t))
  BY <1>1 DEF Locks, OwnedIn, PendingMap, AmountsOf
<1> QED BY <1>1, <1>2 DEF Backed, Backs

----------------------------------------------------------------------------
(* What a step does to the pending transfers. *)

\* Rows of transfers are loaded and written back without a change.
LEMMA PendingKept ==
  ASSUME TInv, SpentOnce, \/ Parse \/ LoadTokensData \/ CommitBlock
                          \/ ProcessDeploy \/ ProcessMint \/ PanicTransferred
                          \/ UNCHANGED vars
  PROVE  PendingMap' = PendingMap
<1>1. CASE BeginBlock
  <2>1. loaded = {} /\ valid_transfers = NoRows(Locations)
    BY <1>1 DEF BeginBlock, SpentOnce
  <2>2. PICK spent \in SUBSET {l \in Locations : transfers[l] # Nil} :
          /\ loaded' = spent
          /\ valid_transfers' = [l \in Locations |-> IF l \in spent THEN transfers[l] ELSE Nil]
    BY <1>1 DEF BeginBlock
  <2>3. transfers' = transfers
    BY <1>1 DEF BeginBlock, db
  <2> QED BY <2>1, <2>2, <2>3 DEF PendingMap, Pending, NoRows
<1>2. CASE UNCHANGED <<transfers, loaded, valid_transfers>>
  BY <1>2 DEF PendingMap, Pending
<1>3. CASE CommitBlock
  <2>1. /\ transfers' = [l \in Locations |-> WrittenTransfer(l)]
        /\ loaded' = {} /\ valid_transfers' = NoRows(Locations)
    BY <1>3 DEF CommitBlock
  <2>2. ASSUME NEW l \in Locations PROVE Pending(l)' = Pending(l)
    BY <2>1 DEF Pending, WrittenTransfer, NoRows
  <2> QED BY <2>2 DEF PendingMap
<1> QED BY <1>1, <1>2, <1>3
        DEF Parse, InscribeDeploy, InscribeMint, InscribeTransfer, MoveTransfer, LeakTransfer,
            Enqueue, LoadTokensData, ProcessDeploy, ProcessMint, PanicTransferred, Dequeue, db,
            vars, cache

\* A row that becomes valid was pending nowhere.
LEMMA PendingMore ==
  ASSUME TInv, SpentOnce, NEW l \in Locations, NEW tr \in Transfers,
         transfers[l] = Nil, valid_transfers[l] = Nil,
         UNCHANGED <<transfers, loaded>>, valid_transfers' = [valid_transfers EXCEPT ![l] = tr]
  PROVE  /\ PendingMap[l] = Nil /\ PendingMap'[l] = tr
         /\ \A m \in Locations \ {l} : PendingMap'[m] = PendingMap[m]
<1>1. tr # Nil /\ valid_transfers \in [Locations -> OrNil(Transfers)]
  BY RowFields DEF TInv, TypeOK
<1>2. valid_transfers'[l] = tr
      /\ \A m \in Locations \ {l} : valid_transfers'[m] = valid_transfers[m]
  BY <1>1
<1> QED BY <1>1, <1>2 DEF PendingMap, Pending

\* A row that has moved is pending nowhere.
LEMMA PendingLess ==
  ASSUME TInv, SpentOnce, NEW l \in Locations, valid_transfers[l] # Nil,
         UNCHANGED <<transfers, loaded>>, valid_transfers' = [valid_transfers EXCEPT ![l] = Nil]
  PROVE  /\ PendingMap[l] = valid_transfers[l] /\ PendingMap'[l] = Nil
         /\ \A m \in Locations \ {l} : PendingMap'[m] = PendingMap[m]
<1>1. valid_transfers \in [Locations -> OrNil(Transfers)]
  BY DEF TInv, TypeOK
<1>2. valid_transfers'[l] = Nil
      /\ \A m \in Locations \ {l} : valid_transfers'[m] = valid_transfers[m]
  BY <1>1
<1>3. l \in loaded \/ transfers[l] = Nil
  BY DEF SpentOnce
<1> QED BY <1>2, <1>3 DEF PendingMap, Pending

\* A refused transfer and the move of a row that is not valid.
LEMMA PendingFrame ==
  ASSUME TInv, NEW l \in Locations, valid_transfers[l] = Nil,
         UNCHANGED <<transfers, loaded>>, valid_transfers' = [valid_transfers EXCEPT ![l] = Nil]
  PROVE  PendingMap' = PendingMap
<1>1. valid_transfers \in [Locations -> OrNil(Transfers)]
  BY DEF TInv, TypeOK
<1>2. valid_transfers' = valid_transfers
  BY <1>1
<1> QED BY <1>2 DEF PendingMap, Pending

----------------------------------------------------------------------------
(* Backed, one lemma per action. *)

LEMMA RowIsBalance == ASSUME TInv, NEW u \in Users, NEW t \in Ticks PROVE Row(u, t) \in Balances
BY DefaultRow DEF TInv, TypeOK, Row, OrNil

\* A row that is taken for empty because it is not loaded is empty.
LEMMA BacksDefault ==
  ASSUME NEW P \in PendingMaps, NEW u \in Users, NEW t \in Ticks,
         NEW cached \in OrNil(Balances), NEW stored \in Balances,
         Backs(P, IF cached # Nil THEN cached ELSE stored, u, t),
         cached = Nil => Total(stored) = 0
  PROVE  Backs(P, OrDefault(cached), u, t)
<1>1. CASE cached = Nil
  <2>1. stored.transferable = 0 /\ Backs(P, stored, u, t)
    BY <1>1 DEF Balances, Total
  <2> QED BY <1>1, <2>1, BackedNothing DEF OrDefault
<1>2. CASE cached # Nil
  BY <1>2 DEF OrDefault
<1> QED BY <1>1, <1>2

LEMMA BacksCredited ==
  ASSUME NEW P, NEW u, NEW t, NEW row \in Balances, NEW amt \in Nat, Backs(P, row, u, t)
  PROVE  Backs(P, Credited(row, amt), u, t)
BY CreditedIs DEF Backs

LEMMA BackedSame ==
  ASSUME Backed, PendingMap' = PendingMap, \A u \in Users, t \in Ticks : Row(u, t)' = Row(u, t)
  PROVE  Backed'
<1> SUFFICES ASSUME NEW u \in Users, NEW t \in Ticks PROVE Backs(PendingMap', Row(u, t)', u, t)
  BY DEF Backed, Backs, OwnedIn, AmountsOf
<1> QED BY DEF Backed

LEMMA BackedMint == CInv /\ Backed /\ SpentOnce /\ ProcessMint => Backed'
<1> SUFFICES ASSUME CInv, Backed, SpentOnce, ProcessMint PROVE Backed'
  OBVIOUS
<1> DEFINE a == Head(queue)
           n == Lower[a.tick]
           d == tokens[n]
           row == OrDefault(accounts[a.owner][d.tick])
           paid == Minted(a, d)
           credited == Credited(row, paid)
<1>1. SInv /\ TInv /\ accounts \in [Users -> [Ticks -> OrNil(Balances)]]
      /\ balances \in [Users -> [Ticks -> OrNil(Balances)]]
  BY DEF CInv, SInv, TInv, TypeOK
<1>2. PendingMap' = PendingMap /\ PendingMap \in PendingMaps
  BY <1>1, PendingKept, PendingType
<1>3. CASE MintAccepted(a)
  <2>1. /\ a.op = "mint" /\ a = queue[1] /\ 1 \in DOMAIN queue
        /\ a.owner \in Users /\ d.tick \in Ticks /\ Lower[d.tick] = n
        /\ paid \in Nat \ {0} /\ row \in Balances /\ credited \in Balances
        /\ accounts' = Put(accounts, a.owner, d.tick, credited) /\ balances' = balances
    BY <1>1, <1>3, MintView
  <2>2. Covered(a.owner, n)
    BY <2>1 DEF CInv, QueueCovered, ProcessMint, Dequeue
  <2> HIDE DEF a, n, d, paid, credited, row
  <2> PICK u \in Users, t \in Ticks : u = a.owner /\ t = d.tick
    BY <2>1
  <2>3. Backs(PendingMap, row, u, t)
    <3>1. accounts[u][t] \in OrNil(Balances) /\ OrDefault(balances[u][t]) \in Balances
      BY <1>1, DefaultRow
    <3>2. accounts[u][t] = Nil => Total(OrDefault(balances[u][t])) = 0
      BY <2>1, <2>2 DEF Covered
    <3>3. Backs(PendingMap, IF accounts[u][t] # Nil THEN accounts[u][t]
                            ELSE OrDefault(balances[u][t]), u, t)
      BY DEF Backed, Row
    <3> QED BY <1>2, <3>1, <3>2, <3>3, BacksDefault DEF row
  <2>4. Backs(PendingMap, credited, u, t)
    BY <2>1, <2>3, BacksCredited DEF credited
  <2>5. \A v \in Users, s \in Ticks : Row(v, s)' = IF v = u /\ s = t THEN credited ELSE Row(v, s)
    BY <1>1, <2>1, RowsWith
  <2>6. ASSUME NEW v \in Users, NEW s \in Ticks PROVE Backs(PendingMap', Row(v, s)', v, s)
    BY <1>2, <2>4, <2>5 DEF Backed
  <2> QED BY <2>6 DEF Backed, Backs, OwnedIn, AmountsOf
<1>4. CASE ~MintAccepted(a)
  <2>1. \A u \in Users, t \in Ticks : Row(u, t)' = Row(u, t)
    BY <1>4 DEF ProcessMint, Dequeue, db, Row, OrDefault
  <2> QED BY <1>2, <2>1, BackedSame
<1> QED BY <1>3, <1>4

\* The row that a queued transfer makes valid.
LEMMA QueuedRow ==
  ASSUME CInv, QueuedFresh, ProcessTransfer
  PROVE  LET a == Head(queue)
             tr == ValidRow(a, tokens[Lower[a.tick]])
         IN  /\ a.loc \in Locations /\ transfers[a.loc] = Nil /\ valid_transfers[a.loc] = Nil
             /\ all_transfers[a.loc] # Nil
             /\ TransferAccepted(a) =>
                  /\ tr \in Transfers
                  /\ tr.owner = a.owner /\ tr.tick = tokens[Lower[a.tick]].tick
                  /\ tr.amt = a.amt.value
<1> DEFINE a == Head(queue)
           d == tokens[Lower[a.tick]]
           row == [owner |-> a.owner, tick |-> a.tick, amt |-> a.amt.value]
<1>1. SInv /\ TypeOK /\ phase = "process" /\ queue # <<>> /\ Dequeue("transfer")
  BY DEF CInv, SInv, TInv, ProcessTransfer, Dequeue
<1>2. /\ a \in Actions /\ a.op = "transfer" /\ a = queue[1] /\ 1 \in DOMAIN queue
      /\ a.owner \in Users /\ a.loc \in Locations /\ a.tick \in Ticks /\ a.amt \in Amounts
  BY <1>1, QueueStep, HeadAction, ActionFields
<1>3. /\ all_transfers[a.loc] = row /\ transfers[a.loc] = Nil /\ valid_transfers[a.loc] = Nil
  BY <1>1, <1>2 DEF QueuedFresh
<1>4. a.amt.value \in Nat \ {0}
  BY <1>2, LedgerAssumption
<1>5. row # Nil
  <2>1. row \in Transfers
    BY <1>2, <1>4 DEF Transfers
  <2> QED BY <2>1, LedgerAssumption
<1>6. ASSUME TransferAccepted(a)
      PROVE  /\ ValidRow(a, d) \in Transfers /\ ValidRow(a, d).owner = a.owner
             /\ ValidRow(a, d).tick = d.tick /\ ValidRow(a, d).amt = a.amt.value
  <2>1. d.tick \in Ticks
    BY <1>1, <1>6, TransferView
  <2>2. all_transfers[a.loc].amt = a.amt.value
    BY <1>3
  <2> HIDE DEF a, d
  <2> QED BY <1>2, <1>4, <2>1, <2>2 DEF ValidRow, Transfers
<1> HIDE DEF row
<1> QED BY <1>2, <1>3, <1>5, <1>6

LEMMA BackedTransfer ==
  CInv /\ Backed /\ SpentOnce /\ QueuedFresh /\ ProcessTransfer => Backed'
<1> SUFFICES ASSUME CInv, Backed, SpentOnce, QueuedFresh, ProcessTransfer PROVE Backed'
  OBVIOUS
<1> DEFINE a == Head(queue)
           d == tokens[Lower[a.tick]]
           row == accounts[a.owner][d.tick]
           locked == Locked(row, a.amt.value)
<1>1. SInv /\ TInv /\ accounts \in [Users -> [Ticks -> OrNil(Balances)]]
  BY DEF CInv, SInv, TInv, TypeOK
<1>2. PendingMap \in PendingMaps /\ PendingMap' \in PendingMaps
  <2>1. TInv'
    BY <1>1, TInvTransfer
  <2> QED BY <1>1, <2>1, PendingType, PendingTypeNext
<1>3. UNCHANGED <<transfers, loaded>>
  BY DEF ProcessTransfer, Dequeue, db
<1>4. a.loc \in Locations /\ transfers[a.loc] = Nil /\ valid_transfers[a.loc] = Nil
  BY QueuedRow
<1>5. CASE TransferAccepted(a)
  <2> DEFINE tr == ValidRow(a, d)
  <2>1. tr \in Transfers /\ tr.owner = a.owner /\ tr.tick = d.tick /\ tr.amt = a.amt.value
    BY <1>5, QueuedRow
  <2>2. /\ a.owner \in Users /\ d.tick \in Ticks
        /\ a.amt.value \in Nat \ {0} /\ a.amt.value <= row.balance
        /\ row \in Balances /\ row = Row(a.owner, d.tick) /\ locked \in Balances
        /\ accounts' = Put(accounts, a.owner, d.tick, locked) /\ balances' = balances
        /\ valid_transfers' = [valid_transfers EXCEPT ![a.loc] = tr]
    BY <1>1, <1>5, TransferView
  <2>3. locked.transferable = row.transferable + a.amt.value /\ locked.count = row.count + 1
    BY DEF Locked
  <2> HIDE DEF a, d, tr, row, locked
  <2> PICK u \in Users, t \in Ticks, l \in Locations : u = a.owner /\ t = d.tick /\ l = a.loc
    BY <1>4, <2>2
  <2>4. /\ PendingMap[l] = Nil /\ PendingMap'[l] = tr
        /\ \A m \in Locations \ {l} : PendingMap'[m] = PendingMap[m]
    BY <1>1, <1>3, <1>4, <2>1, <2>2, PendingMore
  <2> PICK P \in PendingMaps, Q \in PendingMaps, tr1 \in Transfers :
        P = PendingMap /\ Q = PendingMap' /\ tr1 = tr
    BY <1>2, <2>1
  <2>5. /\ P[l] = Nil /\ Q[l] = tr1 /\ \A m \in Locations \ {l} : Q[m] = P[m]
        /\ tr1.owner = u /\ tr1.tick = t /\ tr1.amt = a.amt.value
    BY <2>1, <2>4
  <2>6. Backs(Q, locked, u, t)
    <3>1. Backs(P, row, u, t)
      BY <2>2 DEF Backed
    <3> QED BY <2>2, <2>3, <2>5, <3>1, BacksMore
  <2>7. \A v \in Users, s \in Ticks : Row(v, s)' = IF v = u /\ s = t THEN locked ELSE Row(v, s)
    BY <1>1, <2>2, RowsWith
  <2>8. ASSUME NEW v \in Users, NEW s \in Ticks, ~(v = u /\ s = t) PROVE Backs(Q, Row(v, s), v, s)
    <3>1. l \notin OwnedIn(P, v, s) /\ l \notin OwnedIn(Q, v, s)
      BY <2>5, <2>8 DEF OwnedIn
    <3>2. Backs(P, Row(v, s), v, s)
      BY DEF Backed
    <3> PICK row1 : row1 = Row(v, s)
      OBVIOUS
    <3> QED BY <2>5, <3>1, <3>2, BacksOther
  <2>9. ASSUME NEW v \in Users, NEW s \in Ticks PROVE Backs(PendingMap', Row(v, s)', v, s)
    BY <2>6, <2>7, <2>8
  <2> QED BY <2>9 DEF Backed, Backs, OwnedIn, AmountsOf
<1>6. CASE ~TransferAccepted(a)
  <2>1. accounts' = accounts /\ balances' = balances /\ valid_transfers' = valid_transfers
    BY <1>6 DEF ProcessTransfer, Dequeue, db
  <2>2. PendingMap' = PendingMap
    BY <1>3, <2>1 DEF PendingMap, Pending
  <2>3. \A u \in Users, t \in Ticks : Row(u, t)' = Row(u, t)
    BY <2>1 DEF Row, OrDefault
  <2> QED BY <2>2, <2>3, BackedSame
<1> QED BY <1>5, <1>6

LEMMA BackedMove == CInv /\ Backed /\ SpentOnce /\ ProcessTransferred => Backed'
<1> SUFFICES ASSUME CInv, Backed, SpentOnce, ProcessTransferred PROVE Backed'
  OBVIOUS
<1> DEFINE a == Head(queue)
           tr == valid_transfers[a.loc]
           t == tr.tick
           old == Row(tr.owner, t)
           unlocked == Unlocked(old, tr.amt)
           sent == Put(accounts, tr.owner, t, unlocked)
           row == OrDefault(sent[a.recipient][t])
           credited == Credited(row, tr.amt)
<1>1. SInv /\ TInv /\ accounts \in [Users -> [Ticks -> OrNil(Balances)]]
      /\ balances \in [Users -> [Ticks -> OrNil(Balances)]]
  BY DEF CInv, SInv, TInv, TypeOK
<1>2. PendingMap \in PendingMaps /\ PendingMap' \in PendingMaps
  <2>1. TInv'
    BY <1>1, TInvTransferred
  <2> QED BY <1>1, <2>1, PendingType, PendingTypeNext
<1>3. /\ UNCHANGED <<transfers, loaded, balances>>
      /\ valid_transfers' = [valid_transfers EXCEPT ![a.loc] = Nil]
  BY DEF ProcessTransferred, Dequeue, db
<1>4. a.loc \in Locations
  BY <1>1, QueueStep, ActionFields DEF TInv, ProcessTransferred
<1>5. CASE tr # Nil
  <2>1. /\ a.op = "transferred" /\ a = queue[1] /\ 1 \in DOMAIN queue
        /\ a.recipient \in Users \cup {Burned}
        /\ tr.owner \in Users /\ t \in Ticks /\ tr.amt \in Nat \ {0}
        /\ old \in Balances
        /\ unlocked \in Balances
        /\ sent \in [Users -> [Ticks -> OrNil(Balances)]]
        /\ IF a.recipient = Burned
           THEN accounts' = sent
           ELSE /\ a.recipient \in Users /\ row \in Balances /\ credited \in Balances
                /\ accounts' = Put(sent, a.recipient, t, credited)
    BY <1>1, <1>5, MoveView
  <2>2. tr \in Transfers
    BY <1>1, <1>4, <1>5 DEF TInv, TypeOK, OrNil
  <2>3. unlocked.transferable = old.transferable - tr.amt /\ unlocked.count = old.count - 1
    BY DEF Unlocked
  <2>4. a.recipient # Burned => Covered(a.recipient, Lower[t])
    BY <1>5, <2>1 DEF CInv, QueueCovered, ProcessTransferred, Dequeue
  <2> HIDE DEF a, tr, t, old, unlocked
  <2> PICK u \in Users, tick \in Ticks, l \in Locations, tr1 \in Transfers :
        u = tr.owner /\ tick = t /\ l = a.loc /\ tr1 = tr
    BY <1>4, <2>1, <2>2
  <2>5. /\ PendingMap[l] = tr1 /\ PendingMap'[l] = Nil
        /\ \A m \in Locations \ {l} : PendingMap'[m] = PendingMap[m]
    BY <1>1, <1>3, <1>5, PendingLess DEF tr
  <2> PICK P \in PendingMaps, Q \in PendingMaps : P = PendingMap /\ Q = PendingMap'
    BY <1>2
  <2>6. /\ P[l] = tr1 /\ Q[l] = Nil /\ \A m \in Locations \ {l} : Q[m] = P[m]
        /\ tr1.owner = u /\ tr1.tick = tick
    BY <2>5 DEF t
  <2> PICK left \in Balances : left = unlocked
    BY <2>1
  <2>7. Backs(Q, left, u, tick)
    <3>1. Backs(P, old, u, tick)
      BY DEF Backed, old
    <3> QED BY <2>1, <2>3, <2>6, <3>1, BacksLess
  <2> DEFINE RowIn(acc, v, s) == IF acc[v][s] # Nil THEN acc[v][s] ELSE OrDefault(balances[v][s])
  <2>8. ASSUME NEW v \in Users, NEW s \in Ticks PROVE Backs(Q, RowIn(sent, v, s), v, s)
    <3>1. left # Nil /\ sent = Put(accounts, u, tick, left)
      BY LedgerAssumption
    <3>2. CASE v = u /\ s = tick
      <4>1. sent[v][s] = left
        BY <1>1, <3>1, <3>2 DEF Put
      <4> QED BY <2>7, <3>1, <3>2, <4>1
    <3>3. CASE ~(v = u /\ s = tick)
      <4>1. sent[v][s] = accounts[v][s]
        BY <1>1, <3>1, <3>3 DEF Put
      <4>2. RowIn(sent, v, s) = Row(v, s)
        BY <4>1 DEF Row
      <4>3. l \notin OwnedIn(P, v, s) /\ l \notin OwnedIn(Q, v, s)
        BY <2>6, <3>3 DEF OwnedIn
      <4> PICK row1 : row1 = Row(v, s)
        OBVIOUS
      <4>4. Backs(P, row1, v, s)
        BY DEF Backed
      <4>5. Backs(Q, row1, v, s)
        BY <2>6, <4>3, <4>4, BacksOther
      <4> QED BY <4>2, <4>5
    <3> QED BY <3>2, <3>3
  <2>9. CASE a.recipient = Burned
    <3>1. accounts' = sent
      BY <2>1, <2>9
    <3> HIDE DEF sent
    <3>2. ASSUME NEW v \in Users, NEW s \in Ticks PROVE Backs(PendingMap', Row(v, s)', v, s)
      BY <1>3, <2>8, <3>1 DEF Row
    <3> QED BY <3>2 DEF Backed, Backs, OwnedIn, AmountsOf
  <2>10. CASE a.recipient # Burned
    <3> PICK r \in Users, paid \in Balances : r = a.recipient /\ paid = credited
      BY <2>1, <2>10
    <3>1. accounts' = Put(sent, r, tick, paid) /\ paid # Nil /\ sent \in [Users -> [Ticks -> OrNil(Balances)]]
      BY <2>1, <2>10, LedgerAssumption
    <3>2. sent[r][tick] = Nil => Total(OrDefault(balances[r][tick])) = 0
      <4>1. sent[r][tick] = Nil => accounts[r][tick] = Nil
        BY <1>1, <2>1, LedgerAssumption DEF Put
      <4> QED BY <2>4, <2>10, <4>1 DEF Covered
    <3> HIDE DEF sent
    <3>3. Backs(Q, row, r, tick)
      <4>1. sent[r][tick] \in OrNil(Balances) /\ OrDefault(balances[r][tick]) \in Balances
        BY <1>1, <3>1, DefaultRow
      <4>2. row = OrDefault(sent[r][tick]) /\ Backs(Q, RowIn(sent, r, tick), r, tick)
        BY <2>8
      <4> HIDE DEF row
      <4> QED BY <3>2, <4>1, <4>2, BacksDefault
    <3>4. Backs(Q, paid, r, tick)
      <4>1. row \in Balances /\ tr.amt \in Nat
        BY <2>1, <2>10
      <4> HIDE DEF row
      <4> QED BY <3>3, <4>1, BacksCredited
    <3>5. ASSUME NEW v \in Users, NEW s \in Ticks
          PROVE  accounts'[v][s] = IF v = r /\ s = tick THEN paid ELSE sent[v][s]
      BY <3>1 DEF Put
    <3>6. ASSUME NEW v \in Users, NEW s \in Ticks PROVE Backs(PendingMap', Row(v, s)', v, s)
      <4>1. CASE v = r /\ s = tick
        BY <3>1, <3>4, <3>5, <4>1 DEF Row
      <4>2. CASE ~(v = r /\ s = tick)
        <5>1. Row(v, s)' = RowIn(sent, v, s)
          BY <1>3, <3>5, <4>2 DEF Row, OrDefault
        <5> QED BY <2>8, <5>1
      <4> QED BY <4>1, <4>2
    <3> QED BY <3>6 DEF Backed, Backs, OwnedIn, AmountsOf
  <2> QED BY <2>9, <2>10
<1>6. CASE tr = Nil
  <2>1. \A u \in Users, s \in Ticks : Row(u, s)' = Row(u, s)
    BY <1>3, <1>6 DEF ProcessTransferred, Row, OrDefault
  <2>2. PendingMap' = PendingMap
    BY <1>1, <1>3, <1>4, <1>6, PendingFrame
  <2> QED BY <2>1, <2>2, BackedSame
<1> QED BY <1>5, <1>6

----------------------------------------------------------------------------
(* The rest of the invariant, one lemma per part. *)

LEMMA SpentOnceNext == CInv /\ SpentOnce /\ QueuedFresh /\ [Next]_vars => SpentOnce'
<1> SUFFICES ASSUME CInv, SpentOnce, QueuedFresh, [Next]_vars PROVE SpentOnce'
  OBVIOUS
<1>1. TInv
  BY DEF CInv, SInv
<1>2. CASE BeginBlock
  BY <1>2 DEF BeginBlock, SpentOnce, db
<1>3. CASE UNCHANGED <<transfers, loaded, valid_transfers>> /\ (phase' = "idle" => phase = "idle")
  BY <1>3 DEF SpentOnce
<1>4. CASE ProcessTransfer
  <2> DEFINE a == Head(queue)
             tr == ValidRow(a, tokens[Lower[a.tick]])
  <2>1. /\ UNCHANGED <<transfers, loaded, phase>> /\ phase = "process"
        /\ valid_transfers' \in {valid_transfers, [valid_transfers EXCEPT ![a.loc] = tr]}
    BY <1>4 DEF ProcessTransfer, Dequeue, db
  <2>2. transfers[a.loc] = Nil /\ a.loc \in Locations
    BY <1>4, QueuedRow
  <2>3. valid_transfers \in [Locations -> OrNil(Transfers)]
    BY <1>1 DEF TInv, TypeOK
  <2> HIDE DEF a, tr
  <2> QED BY <2>1, <2>2, <2>3 DEF SpentOnce
<1>5. CASE ProcessTransferred
  <2>1. /\ UNCHANGED <<transfers, loaded, phase>> /\ phase = "process"
        /\ valid_transfers' = [valid_transfers EXCEPT ![Head(queue).loc] = Nil]
    BY <1>5 DEF ProcessTransferred, Dequeue, db
  <2>2. valid_transfers \in [Locations -> OrNil(Transfers)]
    BY <1>1 DEF TInv, TypeOK
  <2>3. \A l \in Locations : valid_transfers'[l] # Nil => valid_transfers'[l] = valid_transfers[l]
    BY <2>1, <2>2
  <2> QED BY <2>1, <2>3 DEF SpentOnce
<1>6. CASE CommitBlock
  BY <1>6 DEF CommitBlock, SpentOnce, NoRows
<1> QED BY <1>2, <1>3, <1>4, <1>5, <1>6
        DEF Next, Process, Parse, InscribeDeploy, InscribeMint, InscribeTransfer, MoveTransfer,
            LeakTransfer, Enqueue, LoadTokensData, ProcessDeploy, ProcessMint, PanicTransferred,
            Dequeue, Terminated, vars, cache, db

\* A transfer of the queue, with the row that all_transfers remembers of it.
RowOf(a) == [owner |-> a.owner, tick |-> a.tick, amt |-> a.amt.value]

LEMMA RowOfAction ==
  ASSUME NEW a \in Actions, a.op = "transfer"
  PROVE  RowOf(a) \in Transfers /\ RowOf(a) # Nil /\ a.loc \in Locations
<1>1. /\ a.owner \in Users /\ a.tick \in Ticks /\ a.amt \in Amounts /\ a.loc \in Locations
      /\ a.amt.value \in Nat \ {0}
  BY ActionFields, LedgerAssumption
<1>2. RowOf(a) \in Transfers
  BY <1>1 DEF RowOf, Transfers
<1> QED BY <1>1, <1>2, LedgerAssumption

\* Queueing anything but a transfer.
LEMMA FreshEnqueue ==
  ASSUME CInv, QueuedFresh, NEW a \in Actions, Enqueue(a), a.op # "transfer",
         all_transfers' = all_transfers
  PROVE  QueuedFresh'
<1>1. /\ queue' = Append(queue, a) /\ queue \in Seq(Actions)
      /\ valid_transfers' = valid_transfers /\ phase = "parse" /\ transfers' = transfers
  BY DEF CInv, SInv, TInv, TypeOK, Enqueue, db
<1>2. ASSUME NEW i \in DOMAIN queue', queue'[i].op = "transfer"
      PROVE  i \in DOMAIN queue /\ queue'[i] = queue[i]
  BY <1>1, <1>2
<1> QED BY <1>1, <1>2 DEF QueuedFresh

\* Queueing a transfer at a location that no other transfer has.
LEMMA FreshInscribeTransfer ==
  ASSUME CInv, ~OccupiedOffsets, QueuedFresh,
         NEW u \in Users, NEW t \in Ticks, NEW amt \in Amounts, NEW l \in Locations,
         InscribeTransfer(u, t, amt, l)
  PROVE  QueuedFresh'
<1> DEFINE a == [op |-> "transfer", owner |-> u, tick |-> t, amt |-> amt, loc |-> l]
<1>1. /\ queue' = Append(queue, a) /\ queue \in Seq(Actions)
      /\ UNCHANGED <<transfers, valid_transfers>> /\ phase = "parse" /\ phase' = "parse"
      /\ all_transfers' = [all_transfers EXCEPT ![l] = RowOf(a)]
      /\ all_transfers[l] = Nil /\ transfers[l] = Nil
      /\ all_transfers \in [Locations -> OrNil(Transfers)]
  BY DEF CInv, SInv, TInv, TypeOK, Enqueue, InscribeTransfer, OffsetAllowed, Fresh, RowOf, db
<1>2. a \in Actions /\ a.loc = l /\ a.op = "transfer"
  BY DEF Actions
<1>3. valid_transfers[l] = Nil
  BY <1>1 DEF CInv, TransfersKnown
<1> HIDE DEF a
<1>4. ASSUME NEW i \in DOMAIN queue, queue[i].op = "transfer"
      PROVE  /\ queue[i].loc \in Locations \ {l} /\ all_transfers[queue[i].loc] = RowOf(queue[i])
             /\ transfers[queue[i].loc] = Nil /\ valid_transfers[queue[i].loc] = Nil
             /\ \A j \in DOMAIN queue :
                  queue[j].op = "transfer" /\ queue[j].loc = queue[i].loc => j = i
  <2>1. RowOf(queue[i]) # Nil /\ queue[i].loc \in Locations
    BY <1>4, RowOfAction, QueuedAction DEF CInv, SInv, TInv
  <2>2. all_transfers[queue[i].loc] = RowOf(queue[i])
    BY <1>1, <1>4 DEF QueuedFresh, RowOf
  <2> QED BY <1>1, <1>4, <2>1, <2>2 DEF QueuedFresh
<1>5. ASSUME NEW i \in DOMAIN queue'
      PROVE  IF i = Len(queue) + 1 THEN queue'[i] = a ELSE i \in DOMAIN queue /\ queue'[i] = queue[i]
  BY <1>1, <1>2
<1>6. ASSUME NEW i \in DOMAIN queue', queue'[i].op = "transfer"
      PROVE  /\ all_transfers'[queue'[i].loc] = RowOf(queue'[i])
             /\ transfers'[queue'[i].loc] = Nil /\ valid_transfers'[queue'[i].loc] = Nil
             /\ \A j \in DOMAIN queue' :
                  queue'[j].op = "transfer" /\ queue'[j].loc = queue'[i].loc => j = i
  <2>1. CASE i = Len(queue) + 1
    <3>1. queue'[i] = a
      BY <1>5, <2>1
    <3>2. ASSUME NEW j \in DOMAIN queue', queue'[j].op = "transfer", queue'[j].loc = l PROVE j = i
      BY <1>4, <1>5, <2>1, <3>2
    <3> QED BY <1>1, <1>2, <1>3, <3>1, <3>2
  <2>2. CASE i # Len(queue) + 1
    <3>1. i \in DOMAIN queue /\ queue'[i] = queue[i]
      BY <1>5, <2>2
    <3>2. /\ queue[i].loc \in Locations \ {l} /\ all_transfers[queue[i].loc] = RowOf(queue[i])
          /\ transfers[queue[i].loc] = Nil /\ valid_transfers[queue[i].loc] = Nil
      BY <1>4, <1>6, <3>1
    <3>3. ASSUME NEW j \in DOMAIN queue', queue'[j].op = "transfer", queue'[j].loc = queue[i].loc
          PROVE  j = i
      <4>1. j # Len(queue) + 1
        BY <1>2, <1>5, <3>2, <3>3
      <4> QED BY <1>4, <1>5, <1>6, <3>1, <3>3, <4>1
    <3> QED BY <1>1, <3>1, <3>2, <3>3
  <2> QED BY <2>1, <2>2
<1> QED BY <1>6 DEF QueuedFresh, RowOf

LEMMA FreshParse == ~OccupiedOffsets /\ CInv /\ QueuedFresh /\ Parse => QueuedFresh'
<1> SUFFICES ASSUME ~OccupiedOffsets, CInv, QueuedFresh, Parse PROVE QueuedFresh'
  OBVIOUS
<1>1. CASE BeginBlock
  <2>1. queue' = <<>>
    BY <1>1 DEF BeginBlock, CInv, SInv, CacheEmpty
  <2> QED BY <2>1 DEF QueuedFresh
<1>2. ASSUME NEW t \in Ticks, NEW terms \in Terms, InscribeDeploy(t, terms) PROVE QueuedFresh'
  <2>1. [op |-> "deploy", tick |-> t, terms |-> terms] \in Actions
    BY DEF Actions
  <2> QED BY <1>2, <2>1, FreshEnqueue DEF InscribeDeploy
<1>3. ASSUME NEW u \in Users, NEW t \in Ticks, NEW amt \in Amounts, InscribeMint(u, t, amt)
      PROVE  QueuedFresh'
  <2>1. [op |-> "mint", owner |-> u, tick |-> t, amt |-> amt] \in Actions
    BY DEF Actions
  <2> QED BY <1>3, <2>1, FreshEnqueue DEF InscribeMint
<1>4. ASSUME NEW u \in Users, NEW t \in Ticks, NEW amt \in Amounts, NEW l \in Locations,
             InscribeTransfer(u, t, amt, l)
      PROVE  QueuedFresh'
  BY <1>4, FreshInscribeTransfer
<1>5. ASSUME NEW l \in Locations, NEW r \in Users \cup {Burned}, MoveTransfer(l, r)
      PROVE  QueuedFresh'
  <2>1. [op |-> "transferred", loc |-> l, recipient |-> r] \in Actions
    BY DEF Actions
  <2> QED BY <1>5, <2>1, FreshEnqueue DEF MoveTransfer
<1>6. ASSUME NEW l \in movable, LeakTransfer(l) PROVE QueuedFresh'
  BY <1>5, <1>6, LeakOwner DEF LeakTransfer, CInv, SInv
<1> QED BY <1>1, <1>2, <1>3, <1>4, <1>5, <1>6 DEF Parse

\* An action leaves the queue, and writes no row of another one's location.
LEMMA FreshDequeue ==
  ASSUME CInv, QueuedFresh, NEW op, Dequeue(op),
         \A l \in Locations :
           (op = "transfer" => l # Head(queue).loc) =>
             /\ all_transfers'[l] = all_transfers[l]
             /\ valid_transfers'[l] \in {valid_transfers[l], Nil}
  PROVE  QueuedFresh'
<1>1. TypeOK /\ queue # <<>> /\ queue' = Tail(queue) /\ transfers' = transfers /\ phase = "process"
      /\ Head(queue).op = op /\ Head(queue) = queue[1] /\ 1 \in DOMAIN queue
  BY HeadAction DEF CInv, SInv, TInv, Dequeue, db
<1>2. ASSUME NEW i \in DOMAIN queue'
      PROVE  i + 1 \in DOMAIN queue /\ queue'[i] = queue[i + 1] /\ i + 1 # 1
             /\ queue[i + 1] \in Actions /\ i \in Nat
  <2>1. i \in Nat /\ i # 0
    BY <1>1 DEF TypeOK
  <2> QED BY <1>1, <2>1, TailAction, QueuedAction
<1>3. ASSUME NEW i \in DOMAIN queue', queue'[i].op = "transfer"
      PROVE  /\ all_transfers'[queue'[i].loc] = RowOf(queue'[i])
             /\ transfers'[queue'[i].loc] = Nil /\ valid_transfers'[queue'[i].loc] = Nil
             /\ \A j \in DOMAIN queue' :
                  queue'[j].op = "transfer" /\ queue'[j].loc = queue'[i].loc => j = i
  <2> PICK b \in Actions : b = queue'[i]
    BY <1>2
  <2>1. /\ i + 1 \in DOMAIN queue /\ i + 1 # 1 /\ queue[i + 1] = b
        /\ b.op = "transfer" /\ b.loc \in Locations
    BY <1>2, <1>3, RowOfAction
  <2>2. /\ all_transfers[b.loc] = RowOf(b) /\ transfers[b.loc] = Nil /\ valid_transfers[b.loc] = Nil
        /\ \A j \in DOMAIN queue : queue[j].op = "transfer" /\ queue[j].loc = b.loc => j = i + 1
    BY <1>1, <2>1 DEF QueuedFresh, RowOf
  <2>3. op = "transfer" => b.loc # Head(queue).loc
    BY <1>1, <2>1, <2>2
  <2>4. all_transfers'[b.loc] = RowOf(b) /\ transfers'[b.loc] = Nil /\ valid_transfers'[b.loc] = Nil
    BY <1>1, <2>1, <2>2, <2>3
  <2>5. ASSUME NEW j \in DOMAIN queue', queue'[j].op = "transfer", queue'[j].loc = b.loc PROVE j = i
    <3>1. j + 1 = i + 1
      BY <1>2, <2>2, <2>5
    <3> QED BY <1>2, <3>1
  <2> QED BY <2>4, <2>5
<1> QED BY <1>3 DEF QueuedFresh, RowOf

LEMMA QueuedFreshNext == ~OccupiedOffsets /\ CInv /\ QueuedFresh /\ [Next]_vars => QueuedFresh'
<1> SUFFICES ASSUME ~OccupiedOffsets, CInv, QueuedFresh, [Next]_vars PROVE QueuedFresh'
  OBVIOUS
<1>1. /\ all_transfers \in [Locations -> OrNil(Transfers)]
      /\ valid_transfers \in [Locations -> OrNil(Transfers)]
  BY DEF CInv, SInv, TInv, TypeOK
<1>2. CASE Parse
  BY <1>2, FreshParse
<1>3. CASE LoadTokensData
  BY <1>3 DEF LoadTokensData, QueuedFresh, db
<1>4. CASE ProcessDeploy
  BY <1>4, FreshDequeue DEF ProcessDeploy
<1>5. CASE ProcessMint
  BY <1>5, FreshDequeue DEF ProcessMint
<1>6. CASE ProcessTransfer
  <2> DEFINE a == Head(queue)
             tr == ValidRow(a, tokens[Lower[a.tick]])
  <2>1. /\ Dequeue("transfer") /\ all_transfers' = [all_transfers EXCEPT ![a.loc] = Nil]
        /\ valid_transfers' \in {valid_transfers, [valid_transfers EXCEPT ![a.loc] = tr]}
    BY <1>6 DEF ProcessTransfer
  <2> HIDE DEF tr
  <2> QED BY <1>1, <2>1, FreshDequeue
<1>7. CASE ProcessTransferred
  <2>1. /\ Dequeue("transferred") /\ all_transfers' = all_transfers
        /\ valid_transfers' = [valid_transfers EXCEPT ![Head(queue).loc] = Nil]
    BY <1>7 DEF ProcessTransferred
  <2> QED BY <1>1, <2>1, FreshDequeue
<1>8. CASE PanicTransferred \/ CommitBlock
  BY <1>8 DEF PanicTransferred, CommitBlock, QueuedFresh
<1>9. CASE UNCHANGED vars
  BY <1>9 DEF vars, db, cache, QueuedFresh
<1> QED BY <1>2, <1>3, <1>4, <1>5, <1>6, <1>7, <1>8, <1>9 DEF Next, Process, Terminated

\* The queue only grows, and what leaves `movable' enters it.
LEMMA MovesEnqueue ==
  ASSUME CInv, MovesQueued, NEW a \in Actions, Enqueue(a),
         \A l \in movable \ movable' : a.op = "transferred" /\ a.loc = l
  PROVE  MovesQueued'
<1>1. /\ queue' = Append(queue, a) /\ queue \in Seq(Actions) /\ phase = "parse"
      /\ valid_transfers' = valid_transfers /\ loaded' = loaded
  BY DEF CInv, SInv, TInv, TypeOK, Enqueue
<1>2. /\ \A i \in DOMAIN queue : i \in DOMAIN queue' /\ queue'[i] = queue[i]
      /\ Len(queue) + 1 \in DOMAIN queue' /\ queue'[Len(queue) + 1] = a
  BY <1>1
<1>3. ASSUME NEW l \in loaded'
      PROVE  \/ l \in movable'
             \/ \E i \in DOMAIN queue' : queue'[i].op = "transferred" /\ queue'[i].loc = l
  <2>1. CASE l \in movable
    BY <1>2, <2>1
  <2>2. CASE l \notin movable
    <3>1. PICK i \in DOMAIN queue : queue[i].op = "transferred" /\ queue[i].loc = l
      BY <1>1, <1>3, <2>2 DEF MovesQueued
    <3> QED BY <1>2, <3>1
  <2> QED BY <2>1, <2>2
<1> QED BY <1>1, <1>3 DEF MovesQueued

LEMMA MovesQueuedNext == CInv /\ MovesQueued /\ [Next]_vars => MovesQueued'
<1> SUFFICES ASSUME CInv, MovesQueued, [Next]_vars PROVE MovesQueued'
  OBVIOUS
<1>1. CASE BeginBlock
  BY <1>1 DEF BeginBlock, MovesQueued
<1>2. ASSUME NEW t \in Ticks, NEW terms \in Terms, InscribeDeploy(t, terms) PROVE MovesQueued'
  <2>1. [op |-> "deploy", tick |-> t, terms |-> terms] \in Actions
    BY DEF Actions
  <2> QED BY <1>2, <2>1, MovesEnqueue DEF InscribeDeploy
<1>3. ASSUME NEW u \in Users, NEW t \in Ticks, NEW amt \in Amounts, InscribeMint(u, t, amt)
      PROVE  MovesQueued'
  <2>1. [op |-> "mint", owner |-> u, tick |-> t, amt |-> amt] \in Actions
    BY DEF Actions
  <2> QED BY <1>3, <2>1, MovesEnqueue DEF InscribeMint
<1>4. ASSUME NEW u \in Users, NEW t \in Ticks, NEW amt \in Amounts, NEW l \in Locations,
             InscribeTransfer(u, t, amt, l)
      PROVE  MovesQueued'
  <2>1. [op |-> "transfer", owner |-> u, tick |-> t, amt |-> amt, loc |-> l] \in Actions
    BY DEF Actions
  <2> QED BY <1>4, <2>1, MovesEnqueue DEF InscribeTransfer
<1>5. ASSUME NEW l \in Locations, NEW r \in Users \cup {Burned}, MoveTransfer(l, r)
      PROVE  MovesQueued'
  <2> DEFINE a == [op |-> "transferred", loc |-> l, recipient |-> r]
  <2>1. a \in Actions /\ a.op = "transferred" /\ a.loc = l
    BY DEF Actions
  <2>2. Enqueue(a) /\ movable' = movable \ {l}
    BY <1>5 DEF MoveTransfer
  <2> HIDE DEF a
  <2> QED BY <2>1, <2>2, MovesEnqueue
<1>6. ASSUME NEW l \in movable, LeakTransfer(l) PROVE MovesQueued'
  BY <1>5, <1>6, LeakOwner DEF LeakTransfer, CInv, SInv
<1>7. CASE Process \/ CommitBlock
  BY <1>7 DEF Process, LoadTokensData, ProcessDeploy, ProcessMint, ProcessTransfer,
              ProcessTransferred, PanicTransferred, Dequeue, CommitBlock, MovesQueued
<1>8. CASE UNCHANGED vars
  BY <1>8 DEF vars, db, cache, MovesQueued
<1> QED BY <1>1, <1>2, <1>3, <1>4, <1>5, <1>6, <1>7, <1>8 DEF Next, Parse, Terminated

\* A row with a pending transfer is not the row of an account that was never written.
LEMMA BackingRow ==
  ASSUME TInv, Backed, NEW l \in Locations, NEW tr \in Transfers, PendingMap[l] = tr
  PROVE  Row(tr.owner, tr.tick).count # 0 /\ tr.amt <= Row(tr.owner, tr.tick).transferable
<1> PICK P \in PendingMaps : P = PendingMap
  BY PendingType
<1>1. PICK Q \in PendingMaps : Q[l] = Nil /\ \A m \in Locations \ {l} : Q[m] = P[m]
  <2>1. [P EXCEPT ![l] = Nil] \in PendingMaps
    BY DEF PendingMaps, OrNil
  <2> QED BY <2>1 DEF PendingMaps
<1>2. tr.owner \in Users /\ tr.tick \in Ticks
  BY RowFields
<1>3. Row(tr.owner, tr.tick) \in Balances /\ Backs(P, Row(tr.owner, tr.tick), tr.owner, tr.tick)
  BY <1>2, RowIsBalance DEF Backed
<1> PICK row \in Balances : row = Row(tr.owner, tr.tick)
  BY <1>3
<1>4. P[l] = tr /\ Backs(P, row, tr.owner, tr.tick)
  BY <1>3
<1>5. row.count # 0 /\ tr.amt <= row.transferable
  BY <1>1, <1>4, BacksLess
<1> QED BY <1>5

\* Every valid transfer of the cache has its move in the queue when the rows are
\* loaded, and its sender's account is one of them.
LEMMA SendersByLoad ==
  CInv /\ Backed /\ MovesQueued /\ LoadTokensData => SendersLoaded'
<1> SUFFICES ASSUME CInv, Backed, MovesQueued, LoadTokensData,
                    NEW l \in Locations, valid_transfers[l] # Nil
             PROVE  /\ tokens'[Lower[valid_transfers[l].tick]] # Nil
                    /\ accounts'[valid_transfers[l].owner][valid_transfers[l].tick] # Nil
  BY DEF SendersLoaded, LoadTokensData
<1>1. /\ TInv /\ SInv /\ phase = "parse" /\ loaded \cap movable = {}
      /\ tokens = NoRows(Names) /\ accounts = NoAccounts
  BY DEF CInv, SInv, LoadTokensData, CacheEmpty
<1> PICK tr \in Transfers : tr = valid_transfers[l]
  BY <1>1 DEF TInv, TypeOK, OrNil
<1>2. tr.owner \in Users /\ tr.tick \in Ticks /\ Lower[tr.tick] \in Names
  BY RowFields, TickName
<1> PICK u \in Users, t \in Ticks, n \in Names : u = tr.owner /\ t = tr.tick /\ n = Lower[t]
  BY <1>2
<1>3. PICK i \in DOMAIN queue : queue[i].op = "transferred" /\ queue[i].loc = l
  BY <1>1 DEF MovesQueued
<1>4. QueuedTransfer(l) = tr /\ tr # Nil
  <2>1. all_transfers[l] = tr
    BY <1>1 DEF CInv, TransfersKnown
  <2> QED BY <2>1, RowFields DEF QueuedTransfer
<1>5. n \in Tickers /\ NeedsAccount(queue[i], u, n)
  <2>1. i \in DOMAIN queue \ Inscriptions
    BY <1>3 DEF Inscriptions
  <2>2. n \in Tickers
    BY <1>3, <1>4, <2>1 DEF Tickers
  <2>3. NeedsAccount(queue[i], u, n)
    BY <1>3, <1>4 DEF NeedsAccount
  <2> QED BY <2>2, <2>3
<1>6. meta[n] # Nil /\ meta[n].tick = t
  <2>1. t \in Deployed
    BY <1>1 DEF SInv, AllSpelled
  <2> QED BY <1>1, <2>1 DEF Deployed, Token, NoRows
<1>7. tokens'[n] = meta[n]
  BY <1>5 DEF LoadTokensData
<1>8. accounts'[u][t] = IF tokens'[n] # Nil /\ tokens'[n].tick = t THEN balances[u][t] ELSE Nil
  BY <1>5 DEF LoadTokensData
<1>9. balances[u][t] # Nil
  <2>1. PendingMap[l] = tr
    BY <1>4 DEF PendingMap, Pending
  <2>2. Row(u, t).count # 0
    BY <1>1, <2>1, BackingRow
  <2>3. Row(u, t) = OrDefault(balances[u][t])
    BY <1>1 DEF Row, NoAccounts
  <2> QED BY <2>2, <2>3 DEF OrDefault, ZeroBalance
<1> QED BY <1>6, <1>7, <1>8, <1>9

\* Tokens and accounts stay in the cache; a transfer becomes valid on a loaded account.
LEMMA SendersStay ==
  ASSUME CInv, SendersLoaded, NEW op, Dequeue(op),
         \A n \in Names : tokens'[n] = Nil => tokens[n] = Nil,
         \A u \in Users, t \in Ticks : accounts'[u][t] = Nil => accounts[u][t] = Nil,
         \A l \in Locations : valid_transfers'[l] # Nil =>
           \/ valid_transfers'[l] = valid_transfers[l]
           \/ /\ valid_transfers'[l] \in Transfers
              /\ tokens[Lower[valid_transfers'[l].tick]] # Nil
              /\ accounts[valid_transfers'[l].owner][valid_transfers'[l].tick] # Nil
  PROVE  SendersLoaded'
<1> SUFFICES ASSUME NEW l \in Locations, valid_transfers'[l] # Nil
             PROVE  /\ tokens'[Lower[valid_transfers'[l].tick]] # Nil
                    /\ accounts'[valid_transfers'[l].owner][valid_transfers'[l].tick] # Nil
  BY DEF SendersLoaded
<1>1. phase = "process" /\ valid_transfers \in [Locations -> OrNil(Transfers)]
  BY DEF CInv, SInv, TInv, TypeOK, Dequeue
<1> PICK tr \in Transfers : tr = valid_transfers'[l]
  BY <1>1 DEF OrNil
<1>2. tr.owner \in Users /\ tr.tick \in Ticks /\ Lower[tr.tick] \in Names
  BY RowFields, TickName
<1>3. tokens[Lower[tr.tick]] # Nil /\ accounts[tr.owner][tr.tick] # Nil
  BY <1>1 DEF SendersLoaded
<1> QED BY <1>2, <1>3

LEMMA SendersNext ==
  CInv /\ Backed /\ QueuedFresh /\ MovesQueued /\ SendersLoaded /\ [Next]_vars => SendersLoaded'
<1> SUFFICES ASSUME CInv, Backed, QueuedFresh, MovesQueued, SendersLoaded, [Next]_vars
             PROVE  SendersLoaded'
  OBVIOUS
<1> DEFINE a == Head(queue)
           d == tokens[Lower[a.tick]]
<1>1. /\ SInv /\ tokens \in [Names -> OrNil(Metas)]
      /\ accounts \in [Users -> [Ticks -> OrNil(Balances)]]
      /\ valid_transfers \in [Locations -> OrNil(Transfers)]
  BY DEF CInv, SInv, TInv, TypeOK
<1>2. CASE Parse \/ CommitBlock \/ PanicTransferred
  BY <1>2, ParseKeeps DEF CommitBlock, PanicTransferred, SendersLoaded
<1>3. CASE LoadTokensData
  BY <1>3, SendersByLoad
<1>4. CASE ProcessDeploy
  <2>1. UNCHANGED <<accounts, valid_transfers>> /\ Dequeue("deploy")
    BY <1>4 DEF ProcessDeploy
  <2>2. ASSUME NEW n \in Names PROVE tokens'[n] = Nil => tokens[n] = Nil
    <3> DEFINE e == [tick |-> a.tick, max |-> a.terms.max, lim |-> a.terms.lim,
                     dec |-> a.terms.dec, supply |-> 0]
    <3>1. tokens' \in {tokens, [tokens EXCEPT ![Lower[a.tick]] = e]}
      BY <1>4 DEF ProcessDeploy
    <3>2. tokens[Lower[a.tick]] = Nil => e # Nil
      BY <1>1, <1>4, DeployTokens
    <3>3. tokens[Lower[a.tick]] # Nil => tokens' = tokens
      BY <1>4 DEF ProcessDeploy, DeployAccepted
    <3> HIDE DEF e, a
    <3> QED BY <1>1, <3>1, <3>2, <3>3
  <2> QED BY <2>1, <2>2, SendersStay
<1>5. CASE ProcessMint
  <2>1. valid_transfers' = valid_transfers /\ Dequeue("mint")
    BY <1>5 DEF ProcessMint
  <2>2. CASE MintAccepted(a)
    <3> DEFINE credited == Credited(OrDefault(accounts[a.owner][d.tick]), Minted(a, d))
    <3>1. /\ d # Nil /\ credited \in Balances
          /\ accounts' = Put(accounts, a.owner, d.tick, credited)
      BY <1>1, <1>5, <2>2, MintView
    <3>2. tokens' = [tokens EXCEPT ![Lower[a.tick]].supply = @ + Minted(a, d)]
      BY <1>5, <2>2 DEF ProcessMint
    <3> HIDE DEF credited
    <3>3. \A u \in Users, t \in Ticks : accounts'[u][t] = Nil => accounts[u][t] = Nil
      BY <1>1, <3>1, LedgerAssumption DEF Put
    <3>4. \A n \in Names : tokens'[n] = Nil => tokens[n] = Nil
      <4> SUFFICES ASSUME NEW n \in Names, tokens[n] # Nil PROVE tokens'[n] # Nil
        OBVIOUS
      <4>1. n # Lower[a.tick] => tokens'[n] = tokens[n]
        BY <1>1, <3>2
      <4>2. n = Lower[a.tick] => tokens'[n] # Nil
        <5>1. Lower[a.tick] \in Names
          BY <1>1, <1>5, <2>2, MintView
        <5>2. tokens'[Lower[a.tick]] = [tokens[Lower[a.tick]] EXCEPT !.supply = @ + Minted(a, d)]
          BY <1>1, <3>2, <5>1
        <5>3. Raised(d, Minted(a, d)) # Nil
          BY <1>1, <1>5, <2>2, MintView, RaisedIs
        <5> QED BY <5>2, <5>3 DEF Raised
      <4> QED BY <4>1, <4>2
    <3> QED BY <2>1, <3>3, <3>4, SendersStay
  <2>3. CASE ~MintAccepted(a)
    BY <1>5, <2>1, <2>3, SendersStay DEF ProcessMint
  <2> QED BY <2>2, <2>3
<1>6. CASE ProcessTransfer
  <2>1. tokens' = tokens /\ Dequeue("transfer")
    BY <1>6 DEF ProcessTransfer
  <2>2. CASE TransferAccepted(a)
    <3> DEFINE tr == ValidRow(a, d)
               row == accounts[a.owner][d.tick]
               locked == Locked(row, a.amt.value)
    <3>1. /\ a.owner \in Users /\ d # Nil /\ d.tick \in Ticks /\ Lower[d.tick] = Lower[a.tick]
          /\ row # Nil /\ locked \in Balances
          /\ accounts' = Put(accounts, a.owner, d.tick, locked)
          /\ valid_transfers' = [valid_transfers EXCEPT ![a.loc] = tr]
      BY <1>1, <1>6, <2>2, TransferView
    <3>2. a.loc \in Locations /\ tr \in Transfers /\ tr.owner = a.owner /\ tr.tick = d.tick
      BY <1>6, <2>2, QueuedRow
    <3> HIDE DEF tr, locked
    <3>3. \A u \in Users, t \in Ticks : accounts'[u][t] = Nil => accounts[u][t] = Nil
      BY <1>1, <3>1, LedgerAssumption DEF Put
    <3>4. /\ tr \in Transfers /\ tokens[Lower[tr.tick]] # Nil
          /\ accounts[tr.owner][tr.tick] # Nil
      BY <3>1, <3>2
    <3> HIDE DEF a, d, row
    <3>5. ASSUME NEW l \in Locations, valid_transfers'[l] # valid_transfers[l]
          PROVE  valid_transfers'[l] = tr
      BY <1>1, <3>1, <3>5
    <3> QED BY <2>1, <3>3, <3>4, <3>5, SendersStay
  <2>3. CASE ~TransferAccepted(a)
    BY <1>6, <2>1, <2>3, SendersStay DEF ProcessTransfer
  <2> QED BY <2>2, <2>3
<1>7. CASE ProcessTransferred
  <2>1. /\ tokens' = tokens /\ Dequeue("transferred")
        /\ valid_transfers' = [valid_transfers EXCEPT ![a.loc] = Nil]
    BY <1>7 DEF ProcessTransferred
  <2>2. \A l \in Locations : valid_transfers'[l] # Nil => valid_transfers'[l] = valid_transfers[l]
    BY <1>1, <2>1
  <2>3. \A u \in Users, t \in Ticks : accounts'[u][t] = Nil => accounts[u][t] = Nil
    <3>1. CASE valid_transfers[a.loc] = Nil
      BY <1>7, <3>1 DEF ProcessTransferred
    <3>2. CASE valid_transfers[a.loc] # Nil
      <4> DEFINE tr == valid_transfers[a.loc]
                 t == tr.tick
                 unlocked == Unlocked(Row(tr.owner, t), tr.amt)
                 sent == Put(accounts, tr.owner, t, unlocked)
                 credited == Credited(OrDefault(sent[a.recipient][t]), tr.amt)
      <4>1. /\ unlocked \in Balances /\ sent \in [Users -> [Ticks -> OrNil(Balances)]]
            /\ IF a.recipient = Burned THEN accounts' = sent
               ELSE credited \in Balances /\ accounts' = Put(sent, a.recipient, t, credited)
        BY <1>1, <1>7, <3>2, MoveView
      <4> HIDE DEF unlocked, credited, t, tr
      <4>2. \A u \in Users, s \in Ticks : sent[u][s] = Nil => accounts[u][s] = Nil
        BY <1>1, <4>1, LedgerAssumption DEF Put
      <4> HIDE DEF sent
      <4>3. \A u \in Users, s \in Ticks : accounts'[u][s] = Nil => sent[u][s] = Nil
        BY <4>1, LedgerAssumption DEF Put
      <4> QED BY <4>2, <4>3
    <3> QED BY <3>1, <3>2
  <2> QED BY <2>1, <2>2, <2>3, SendersStay
<1>8. CASE UNCHANGED vars
  BY <1>8 DEF vars, db, cache, SendersLoaded
<1> QED BY <1>2, <1>3, <1>4, <1>5, <1>6, <1>7, <1>8 DEF Next, Process, Terminated

\* A valid transfer is backed by its sender's row, which is in the cache.
LEMMA PanicDisabled == CInv /\ Backed /\ SpentOnce /\ SendersLoaded => ~PanicTransferred
<1> SUFFICES ASSUME CInv, Backed, SpentOnce, SendersLoaded, PanicTransferred PROVE FALSE
  OBVIOUS
<1> DEFINE l == Head(queue).loc
<1>1. SInv /\ TInv /\ phase = "process" /\ l \in Locations
      /\ valid_transfers[l] # Nil /\ InvalidSender(valid_transfers[l])
  BY QueueStep, ActionFields DEF CInv, SInv, TInv, PanicTransferred, Dequeue
<1> PICK tr \in Transfers : tr = valid_transfers[l]
  BY <1>1 DEF TInv, TypeOK, OrNil
<1>2. /\ tokens[Lower[tr.tick]] # Nil /\ accounts[tr.owner][tr.tick] # Nil
      /\ tr.owner \in Users /\ tr.tick \in Ticks /\ tr.amt \in Nat
  BY <1>1, RowFields DEF SendersLoaded
<1>3. tokens[Lower[tr.tick]].tick = tr.tick
  BY <1>1, <1>2 DEF SInv, AllSpelled, Deployed, Token
<1>4. accounts[tr.owner][tr.tick] = Row(tr.owner, tr.tick) /\ Row(tr.owner, tr.tick) \in Balances
  BY <1>1, <1>2, RowIsBalance DEF Row
<1>5. PendingMap[l] = tr
  BY <1>1 DEF PendingMap, Pending
<1>6. Row(tr.owner, tr.tick).count # 0 /\ tr.amt <= Row(tr.owner, tr.tick).transferable
  BY <1>1, <1>5, BackingRow
<1>7. ~(Row(tr.owner, tr.tick).transferable < tr.amt)
  BY <1>2, <1>4, <1>6 DEF Balances
<1> QED BY <1>1, <1>2, <1>3, <1>4, <1>6, <1>7 DEF InvalidSender

\* The parts together: the bookkeeping of transfers is exact in every state.
LEMMA BInvInit == Init => BInv
<1> SUFFICES ASSUME Init PROVE BInv
  OBVIOUS
<1>1. CInv
  BY CInvInit
<1>2. SpentOnce /\ QueuedFresh /\ MovesQueued /\ SendersLoaded /\ NoPanic
  BY DEF Init, SpentOnce, QueuedFresh, MovesQueued, SendersLoaded, NoPanic, NoRows
<1>3. Backed
  <2> SUFFICES ASSUME NEW u \in Users, NEW t \in Ticks PROVE Backs(PendingMap, Row(u, t), u, t)
    BY DEF Backed
  <2>1. OwnedIn(PendingMap, u, t) = {}
    BY DEF Init, OwnedIn, PendingMap, Pending, NoRows
  <2>2. Row(u, t).transferable = 0 /\ Row(u, t).count = 0
    BY DEF Init, Row, NoAccounts, OrDefault, ZeroBalance
  <2> QED BY <2>1, <2>2, SumEmpty, FS_EmptySet DEF Backs
<1> QED BY <1>1, <1>2, <1>3 DEF BInv

LEMMA BackedNext == CInv /\ Backed /\ SpentOnce /\ QueuedFresh /\ [Next]_vars => Backed'
<1> SUFFICES ASSUME CInv, Backed, SpentOnce, QueuedFresh, [Next]_vars PROVE Backed'
  OBVIOUS
<1>1. SInv /\ TInv
  BY DEF CInv, SInv
<1>2. CASE Parse \/ LoadTokensData \/ CommitBlock \/ ProcessDeploy \/ PanicTransferred
  BY <1>1, <1>2, PendingKept, RowsKept, BackedSame
<1>3. CASE ProcessMint
  BY <1>3, BackedMint
<1>4. CASE ProcessTransfer
  BY <1>4, BackedTransfer
<1>5. CASE ProcessTransferred
  BY <1>5, BackedMove
<1>6. CASE UNCHANGED vars
  <2>1. \A u \in Users, t \in Ticks : Row(u, t)' = Row(u, t)
    BY <1>6 DEF vars, db, cache, Row, OrDefault
  <2> QED BY <1>1, <1>6, <2>1, PendingKept, BackedSame
<1> QED BY <1>2, <1>3, <1>4, <1>5, <1>6 DEF Next, Process, Terminated

LEMMA BInvNext == ~OccupiedOffsets /\ BInv /\ [Next]_vars => BInv'
<1> SUFFICES ASSUME ~OccupiedOffsets, BInv, [Next]_vars PROVE BInv'
  OBVIOUS
<1>1. ~PanicTransferred /\ NoPanic
  BY PanicDisabled DEF BInv
<1>2. NoPanic'
  BY <1>1
     DEF NoPanic, Next, Parse, BeginBlock, InscribeDeploy, InscribeMint, InscribeTransfer,
         MoveTransfer, LeakTransfer, Enqueue, Process, LoadTokensData, ProcessDeploy, ProcessMint,
         ProcessTransfer, ProcessTransferred, CommitBlock, Terminated, vars
<1> QED BY <1>2, CInvNext, BackedNext, SpentOnceNext, QueuedFreshNext, MovesQueuedNext, SendersNext
        DEF BInv

(* Without the jubilee rule the transferable balance and the transfers count of
   every account are, at every step of every block, what its valid transfers in
   the cache and in address_location_to_transfer add up to. *)
THEOREM TransfersAreBacked == ASSUME ~OccupiedOffsets PROVE Spec => []TransfersBacked
<1>1. BInv /\ [Next]_vars => BInv'
  BY BInvNext
<1>2. BInv => TransfersBacked
  BY BackedIsBacked DEF BInv
<1> QED BY BInvInit, <1>1, <1>2, PTL DEF Spec

(* Without the jubilee rule the `panic!', the `expect' and the `unwrap' of a
   transfer's move are unreachable: the sender's token and account are loaded, and
   its row locks at least what the transfer moves. *)
THEOREM MovesNeverPanic == ASSUME ~OccupiedOffsets PROVE Spec => []NoPanic
<1>1. BInv /\ [Next]_vars => BInv'
  BY BInvNext
<1>2. BInv => NoPanic
  BY DEF BInv
<1> QED BY BInvInit, <1>1, <1>2, PTL DEF Spec

----------------------------------------------------------------------------
(* The refinement of Brc20. *)

\* The state of Brc20 that a reader of cache and tables sees, with PendingMap.
TokenMap == [n \in Names |-> Token(n)]
FreeMap == [u \in Users |-> [t \in Ticks |-> Row(u, t).balance]]

LEMMA LedgerInit == Init => Ledger!Init
<1> SUFFICES ASSUME Init PROVE Ledger!Init
  OBVIOUS
<1>1. \A n \in Names : Token(n) = Nil
  BY DEF Init, Token, NoRows
<1>2. \A u \in Users, t \in Ticks : Row(u, t).balance = 0
  BY DEF Init, Row, NoAccounts, OrDefault, ZeroBalance
<1>3. \A l \in Locations : Pending(l) = Nil
  BY DEF Init, Pending, NoRows
<1> QED BY <1>1, <1>2, <1>3 DEF Ledger!Init, Ledger!Names, Names

LEMMA LedgerStutter ==
  ASSUME TokenMap' = TokenMap, FreeMap' = FreeMap, PendingMap' = PendingMap
  PROVE  UNCHANGED Ledger!vars
BY DEF Ledger!vars, TokenMap, FreeMap, PendingMap

LEMMA FreeKept ==
  ASSUME \A u \in Users, t \in Ticks : Row(u, t)' = Row(u, t)
  PROVE  FreeMap' = FreeMap
BY DEF FreeMap

LEMMA TokensFrame ==
  ASSUME \A n \in Names : Token(n)' = Token(n)
  PROVE  TokenMap' = TokenMap
BY DEF TokenMap

\* One row is written: one free balance changes.
LEMMA FreeWith ==
  ASSUME NEW u \in Users, NEW t \in Ticks, NEW row,
         \A v \in Users, s \in Ticks : Row(v, s)' = IF v = u /\ s = t THEN row ELSE Row(v, s)
  PROVE  FreeMap' = Put(FreeMap, u, t, row.balance)
<1>1. ASSUME NEW v \in Users, NEW s \in Ticks
      PROVE  FreeMap'[v][s] = IF v = u /\ s = t THEN row.balance ELSE FreeMap[v][s]
  BY DEF FreeMap
<1>2. FreeMap' = [v \in Users |-> [s \in Ticks |-> FreeMap'[v][s]]]
  BY DEF FreeMap
<1>3. FreeMap = [v \in Users |-> [s \in Ticks |-> FreeMap[v][s]]]
  BY DEF FreeMap
<1>4. Put(FreeMap, u, t, row.balance)
        = [v \in Users |-> [s \in Ticks |->
             IF v = u /\ s = t THEN row.balance ELSE FreeMap[v][s]]]
  BY <1>3 DEF Put
<1> QED BY <1>1, <1>2, <1>4

LEMMA StepDeploy ==
  SInv /\ SpentOnce /\ ProcessDeploy => [Ledger!Next]_(Ledger!vars)
<1> SUFFICES ASSUME SInv, SpentOnce, ProcessDeploy PROVE [Ledger!Next]_(Ledger!vars)
  OBVIOUS
<1> DEFINE a == Head(queue)
           d == [tick |-> a.tick, max |-> a.terms.max, lim |-> a.terms.lim,
                 dec |-> a.terms.dec, supply |-> 0]
           n == Lower[a.tick]
<1>1. FreeMap' = FreeMap /\ PendingMap' = PendingMap
  BY RowsKept, PendingKept, FreeKept DEF SInv
<1>2. a.tick \in Ticks /\ a.terms \in Terms /\ n \in Names
  BY DeployTokens
<1>3. CASE tokens[n] = Nil
  <2>1. Token(n) = Nil /\ \A m \in Names : Token(m)' = IF m = n THEN d ELSE Token(m)
    BY <1>3, DeployTokens
  <2> PICK t \in Ticks, terms \in Terms : t = a.tick /\ terms = a.terms
    BY <1>2
  <2>2. TokenMap[n] = Nil
    BY <1>2, <2>1 DEF TokenMap
  <2> HIDE DEF d, n
  <2>3. TokenMap' = [TokenMap EXCEPT ![n] = d]
    BY <1>2, <2>1 DEF TokenMap
  <2>4. /\ n = Lower[t]
        /\ d = [tick |-> t, max |-> terms.max, lim |-> terms.lim,
                dec |-> terms.dec, supply |-> 0]
    BY DEF d, n
  <2> HIDE DEF a
  <2>5. Ledger!Deploy(t, terms)
    BY <1>1, <2>2, <2>3, <2>4 DEF Ledger!Deploy, TokenMap, FreeMap, PendingMap
  <2> QED BY <2>5 DEF Ledger!Next
<1>4. CASE tokens[n] # Nil
  <2>1. TokenMap' = TokenMap
    BY <1>4, DeployTokens, TokensFrame
  <2> QED BY <1>1, <2>1, LedgerStutter
<1> QED BY <1>3, <1>4

\* A row taken for empty because it is not loaded has the free balance a reader sees.
LEMMA FreeDefault ==
  ASSUME NEW cached \in OrNil(Balances), NEW stored \in Balances,
         cached = Nil => Total(stored) = 0
  PROVE  OrDefault(cached).balance = (IF cached # Nil THEN cached ELSE stored).balance
<1>1. CASE cached = Nil
  BY <1>1 DEF OrDefault, ZeroBalance, Balances, Total
<1>2. CASE cached # Nil
  BY <1>2 DEF OrDefault
<1> QED BY <1>1, <1>2

LEMMA StepMint ==
  CInv /\ SpentOnce /\ ProcessMint => [Ledger!Next]_(Ledger!vars)
<1> SUFFICES ASSUME CInv, SpentOnce, ProcessMint PROVE [Ledger!Next]_(Ledger!vars)
  OBVIOUS
<1> DEFINE a == Head(queue)
           n == Lower[a.tick]
           d == tokens[n]
           row == OrDefault(accounts[a.owner][d.tick])
           paid == Minted(a, d)
           credited == Credited(row, paid)
<1>1. SInv /\ TInv /\ accounts \in [Users -> [Ticks -> OrNil(Balances)]]
      /\ balances \in [Users -> [Ticks -> OrNil(Balances)]]
  BY DEF CInv, SInv, TInv, TypeOK
<1>2. PendingMap' = PendingMap
  BY <1>1, PendingKept
<1>3. CASE MintAccepted(a)
  <2>1. /\ a.op = "mint" /\ a = queue[1] /\ 1 \in DOMAIN queue
        /\ a.owner \in Users /\ a.tick \in Ticks /\ a.amt \in Amounts /\ n \in Names
        /\ d \in Metas /\ d # Nil /\ d = Token(n) /\ d.tick \in Ticks /\ Lower[d.tick] = n
        /\ paid \in Nat \ {0} /\ paid <= a.amt.value /\ d.supply + paid <= d.max
        /\ row \in Balances /\ credited \in Balances
        /\ accounts' = Put(accounts, a.owner, d.tick, credited) /\ balances' = balances
        /\ \A m \in Names : Token(m)' = IF m = n THEN Raised(d, paid) ELSE Token(m)
    BY <1>1, <1>3, MintView
  <2>2. Covered(a.owner, n)
    BY <2>1 DEF CInv, QueueCovered, ProcessMint, Dequeue
  <2>3. a.amt.scale <= d.dec /\ a.amt.value <= d.lim /\ paid \in {a.amt.value, d.max - d.supply}
    BY <1>3 DEF MintAccepted, Minted
  <2>4. paid <= d.max - d.supply
    BY <2>1 DEF Metas
  <2> PICK u \in Users, t \in Ticks, amt \in Amounts : u = a.owner /\ t = a.tick /\ amt = a.amt
    BY <2>1
  <2> PICK tick \in Ticks : tick = d.tick
    BY <2>1
  <2> HIDE DEF n, d, row, paid, credited
  <2>5. TokenMap[n] = d /\ TokenMap' = [TokenMap EXCEPT ![n].supply = @ + paid]
    <3>1. TokenMap[n] = d
      BY <2>1 DEF TokenMap
    <3>2. TokenMap' = [TokenMap EXCEPT ![n] = Raised(d, paid)]
      BY <2>1 DEF TokenMap
    <3> QED BY <3>1, <3>2 DEF Raised
  <2>6. FreeMap' = [FreeMap EXCEPT ![u][tick] = @ + paid]
    <3>1. FreeMap' = Put(FreeMap, u, tick, credited.balance)
      <4>1. \A v \in Users, s \in Ticks :
              Row(v, s)' = IF v = u /\ s = tick THEN credited ELSE Row(v, s)
        BY <1>1, <2>1, RowsWith
      <4> QED BY <4>1, FreeWith
    <3>2. credited.balance = row.balance + paid
      BY <2>1, CreditedIs DEF credited
    <3>3. row.balance = FreeMap[u][tick]
      <4>1. accounts[u][tick] \in OrNil(Balances) /\ OrDefault(balances[u][tick]) \in Balances
        BY <1>1, DefaultRow
      <4>2. accounts[u][tick] = Nil => Total(OrDefault(balances[u][tick])) = 0
        BY <2>1, <2>2 DEF Covered
      <4>3. OrDefault(accounts[u][tick]).balance = Row(u, tick).balance
        BY <4>1, <4>2, FreeDefault DEF Row
      <4> QED BY <4>3 DEF FreeMap, row
    <3> QED BY <3>1, <3>2, <3>3 DEF Put
  <2>7. /\ n = Lower[t] /\ amt.scale <= d.dec /\ amt.value <= d.lim
        /\ paid \in {amt.value, d.max - d.supply}
        /\ 0 < paid /\ paid <= amt.value /\ paid <= d.max - d.supply
    BY <2>1, <2>3, <2>4 DEF n
  <2>8. Ledger!Mint(u, t, amt)
    <3> HIDE DEF a
    <3>1. /\ [m \in Names |-> Token(m)][Lower[t]] = d
          /\ [m \in Names |-> Token(m)]'
               = [[m \in Names |-> Token(m)] EXCEPT ![Lower[t]].supply = @ + paid]
      BY <2>5, <2>7 DEF TokenMap
    <3>2. [v \in Users |-> [s \in Ticks |-> Row(v, s).balance]]'
            = [[v \in Users |-> [s \in Ticks |-> Row(v, s).balance]] EXCEPT ![u][d.tick] = @ + paid]
      BY <2>6 DEF FreeMap
    <3>3. [l \in Locations |-> Pending(l)]' = [l \in Locations |-> Pending(l)]
      BY <1>2 DEF PendingMap
    <3> DEFINE M == [m \in Names |-> Token(m)]
               F == [v \in Users |-> [s \in Ticks |-> Row(v, s).balance]]
    <3>4. M[Lower[t]] # Nil /\ amt.scale <= M[Lower[t]].dec /\ amt.value <= M[Lower[t]].lim
      BY <2>1, <2>7, <3>1
    <3>5. \E p \in {amt.value, M[Lower[t]].max - M[Lower[t]].supply} :
            /\ 0 < p /\ p <= amt.value /\ p <= M[Lower[t]].max - M[Lower[t]].supply
            /\ M' = [M EXCEPT ![Lower[t]].supply = @ + p]
            /\ F' = [F EXCEPT ![u][M[Lower[t]].tick] = @ + p]
      <4>1. M[Lower[t]] = d
        BY <3>1
      <4>2. F' = [F EXCEPT ![u][M[Lower[t]].tick] = @ + paid]
        BY <3>1, <3>2
      <4>3. M' = [M EXCEPT ![Lower[t]].supply = @ + paid]
        BY <3>1
      <4> HIDE DEF M, F
      <4>4. paid \in {amt.value, M[Lower[t]].max - M[Lower[t]].supply}
            /\ 0 < paid /\ paid <= amt.value /\ paid <= M[Lower[t]].max - M[Lower[t]].supply
        BY <2>7, <4>1
      <4> QED BY <4>2, <4>3, <4>4
    <3> QED BY <3>3, <3>4, <3>5 DEF Ledger!Mint
  <2> QED BY <2>8 DEF Ledger!Next
<1>4. CASE ~MintAccepted(a)
  <2>1. UNCHANGED <<tokens, meta, accounts, balances>>
    BY <1>4 DEF ProcessMint, Dequeue, db
  <2>2. TokenMap' = TokenMap /\ FreeMap' = FreeMap
    BY <2>1 DEF TokenMap, FreeMap, Token, Row, OrDefault
  <2> QED BY <1>2, <2>2, LedgerStutter
<1> QED BY <1>3, <1>4

LEMMA StepTransfer ==
  CInv /\ SpentOnce /\ QueuedFresh /\ ProcessTransfer => [Ledger!Next]_(Ledger!vars)
<1> SUFFICES ASSUME CInv, SpentOnce, QueuedFresh, ProcessTransfer
             PROVE  [Ledger!Next]_(Ledger!vars)
  OBVIOUS
<1> DEFINE a == Head(queue)
           n == Lower[a.tick]
           d == tokens[n]
           row == accounts[a.owner][d.tick]
           locked == Locked(row, a.amt.value)
           tr == ValidRow(a, d)
<1>1. SInv /\ TInv /\ accounts \in [Users -> [Ticks -> OrNil(Balances)]]
  BY DEF CInv, SInv, TInv, TypeOK
<1>2. TokenMap' = TokenMap /\ UNCHANGED <<transfers, loaded>>
  BY <1>1, TokensKept, TokensFrame DEF ProcessTransfer, Dequeue, db
<1>3. a.loc \in Locations /\ transfers[a.loc] = Nil /\ valid_transfers[a.loc] = Nil
  BY QueuedRow
<1>4. CASE TransferAccepted(a)
  <2>1. tr \in Transfers /\ tr = [owner |-> a.owner, tick |-> d.tick, amt |-> a.amt.value]
    <3>1. tr \in Transfers /\ tr.amt = a.amt.value
      BY <1>4, QueuedRow
    <3> QED BY <3>1 DEF ValidRow
  <2>2. /\ a.owner \in Users /\ a.tick \in Ticks /\ a.amt \in Amounts /\ n \in Names
        /\ d # Nil /\ d = Token(n) /\ d.tick \in Ticks
        /\ a.amt.value <= row.balance
        /\ row \in Balances /\ row = Row(a.owner, d.tick) /\ locked \in Balances
        /\ accounts' = Put(accounts, a.owner, d.tick, locked) /\ balances' = balances
        /\ valid_transfers' = [valid_transfers EXCEPT ![a.loc] = tr]
    BY <1>1, <1>4, TransferView
  <2>3. a.amt.scale <= d.dec /\ locked.balance = row.balance - a.amt.value
    BY <1>4 DEF TransferAccepted, Locked
  <2> PICK u \in Users, t \in Ticks, amt \in Amounts, l \in Locations :
        u = a.owner /\ t = a.tick /\ amt = a.amt /\ l = a.loc
    BY <1>3, <2>2
  <2> PICK tick \in Ticks : tick = d.tick
    BY <2>2
  <2>4. n = Lower[t]
    OBVIOUS
  <2> HIDE DEF n, d, row, locked, tr
  <2>5. TokenMap[n] = d
    BY <2>2 DEF TokenMap
  <2>6. FreeMap[u][tick] = row.balance /\ FreeMap' = [FreeMap EXCEPT ![u][tick] = @ - amt.value]
    <3>1. FreeMap' = Put(FreeMap, u, tick, locked.balance)
      <4>1. \A v \in Users, s \in Ticks :
              Row(v, s)' = IF v = u /\ s = tick THEN locked ELSE Row(v, s)
        BY <1>1, <2>2, RowsWith
      <4> QED BY <4>1, FreeWith
    <3>2. row.balance = FreeMap[u][tick]
      BY <2>2 DEF FreeMap
    <3> QED BY <2>3, <3>1, <3>2 DEF Put
  <2>7. PendingMap[l] = Nil /\ PendingMap' = [PendingMap EXCEPT ![l] = tr]
    <3>1. /\ PendingMap[l] = Nil /\ PendingMap'[l] = tr
          /\ \A m \in Locations \ {l} : PendingMap'[m] = PendingMap[m]
      BY <1>1, <1>2, <1>3, <2>1, <2>2, PendingMore
    <3> QED BY <3>1 DEF PendingMap
  <2>8. Ledger!Inscribe(u, t, amt, l)
    <3> HIDE DEF a
    <3> DEFINE M == [m \in Names |-> Token(m)]
               F == [v \in Users |-> [s \in Ticks |-> Row(v, s).balance]]
               P == [m \in Locations |-> Pending(m)]
    <3>1. M[Lower[t]] = d /\ M' = M
      BY <1>2, <2>4, <2>5 DEF TokenMap
    <3>2. F[u][tick] = row.balance /\ F' = [F EXCEPT ![u][tick] = @ - amt.value]
      BY <2>6 DEF FreeMap
    <3>3. P[l] = Nil /\ P' = [P EXCEPT ![l] = tr]
      BY <2>7 DEF PendingMap
    <3>4. M[Lower[t]] # Nil /\ amt.scale <= M[Lower[t]].dec
      BY <2>2, <2>3, <3>1
    <3>5. /\ amt.value <= F[u][M[Lower[t]].tick]
          /\ F' = [F EXCEPT ![u][M[Lower[t]].tick] = @ - amt.value]
      BY <2>2, <3>1, <3>2
    <3>6. P' = [P EXCEPT ![l] = [owner |-> u, tick |-> M[Lower[t]].tick, amt |-> amt.value]]
      BY <2>1, <3>1, <3>3
    <3> QED BY <3>1, <3>3, <3>4, <3>5, <3>6 DEF Ledger!Inscribe
  <2> QED BY <2>8 DEF Ledger!Next
<1>5. CASE ~TransferAccepted(a)
  <2>1. accounts' = accounts /\ balances' = balances /\ valid_transfers' = valid_transfers
    BY <1>5 DEF ProcessTransfer, Dequeue, db
  <2>2. FreeMap' = FreeMap /\ PendingMap' = PendingMap
    BY <1>2, <2>1 DEF FreeMap, Row, OrDefault, PendingMap, Pending
  <2> QED BY <1>2, <2>2, LedgerStutter
<1> QED BY <1>4, <1>5

LEMMA StepMove ==
  CInv /\ SpentOnce /\ ProcessTransferred => [Ledger!Next]_(Ledger!vars)
<1> SUFFICES ASSUME CInv, SpentOnce, ProcessTransferred PROVE [Ledger!Next]_(Ledger!vars)
  OBVIOUS
<1> DEFINE a == Head(queue)
           tr == valid_transfers[a.loc]
           t == tr.tick
           old == Row(tr.owner, t)
           unlocked == Unlocked(old, tr.amt)
           sent == Put(accounts, tr.owner, t, unlocked)
           row == OrDefault(sent[a.recipient][t])
           credited == Credited(row, tr.amt)
<1>1. SInv /\ TInv /\ accounts \in [Users -> [Ticks -> OrNil(Balances)]]
      /\ balances \in [Users -> [Ticks -> OrNil(Balances)]]
  BY DEF CInv, SInv, TInv, TypeOK
<1>2. /\ TokenMap' = TokenMap /\ UNCHANGED <<transfers, loaded, balances>>
      /\ valid_transfers' = [valid_transfers EXCEPT ![a.loc] = Nil]
  BY <1>1, TokensKept, TokensFrame DEF ProcessTransferred, Dequeue, db
<1>3. a.loc \in Locations
  BY <1>1, QueueStep, ActionFields DEF TInv, ProcessTransferred
<1>4. CASE tr # Nil
  <2>1. /\ a.op = "transferred" /\ a = queue[1] /\ 1 \in DOMAIN queue
        /\ a.recipient \in Users \cup {Burned}
        /\ tr.owner \in Users /\ t \in Ticks /\ tr.amt \in Nat \ {0}
        /\ unlocked \in Balances
        /\ sent \in [Users -> [Ticks -> OrNil(Balances)]]
        /\ IF a.recipient = Burned
           THEN accounts' = sent
           ELSE /\ a.recipient \in Users /\ row \in Balances /\ credited \in Balances
                /\ accounts' = Put(sent, a.recipient, t, credited)
    BY <1>1, <1>4, MoveView
  <2>2. unlocked.balance = old.balance
    BY DEF Unlocked
  <2>3. a.recipient # Burned => Covered(a.recipient, Lower[t])
    BY <1>4, <2>1 DEF CInv, QueueCovered, ProcessTransferred, Dequeue
  <2> PICK tr1 : tr1 = tr
    OBVIOUS
  <2>4. tr1.tick = t /\ tr1.amt = tr.amt /\ tr1 # Nil
    BY <1>4
  <2>5. PendingMap[a.loc] = tr1 /\ PendingMap' = [PendingMap EXCEPT ![a.loc] = Nil]
    <3>1. /\ PendingMap[a.loc] = tr /\ PendingMap'[a.loc] = Nil
          /\ \A m \in Locations \ {a.loc} : PendingMap'[m] = PendingMap[m]
      BY <1>1, <1>2, <1>3, <1>4, PendingLess
    <3> QED BY <1>3, <3>1 DEF PendingMap
  <2> HIDE DEF tr, t, old, unlocked
  <2> PICK u \in Users, tick \in Ticks, l \in Locations, r \in Users \cup {Burned} :
        u = tr.owner /\ tick = t /\ l = a.loc /\ r = a.recipient
    BY <1>3, <2>1
  <2> HIDE DEF a
  <2>6. \A v \in Users, s \in Ticks : sent[v][s] = IF v = u /\ s = tick THEN unlocked ELSE accounts[v][s]
    BY <1>1, <2>1 DEF Put
  <2>7. unlocked # Nil /\ credited \in Balances => credited # Nil
    BY <2>1, LedgerAssumption
  <2> HIDE DEF sent, row, credited
  <2>8. CASE r = Burned
    <3>1. ASSUME NEW v \in Users, NEW s \in Ticks PROVE Row(v, s)'.balance = Row(v, s).balance
      <4>1. accounts' = sent /\ unlocked # Nil
        BY <2>1, <2>8, LedgerAssumption
      <4>2. CASE v = u /\ s = tick
        <5>1. Row(v, s)' = unlocked
          BY <2>6, <4>1, <4>2 DEF Row
        <5> QED BY <2>2, <4>2, <5>1 DEF old
      <4>3. CASE ~(v = u /\ s = tick)
        BY <1>2, <2>6, <4>1, <4>3 DEF Row, OrDefault
      <4> QED BY <4>2, <4>3
    <3>2. FreeMap' = FreeMap
      BY <3>1 DEF FreeMap
    <3> DEFINE M == [m \in Names |-> Token(m)]
               F == [v \in Users |-> [s \in Ticks |-> Row(v, s).balance]]
               P == [m \in Locations |-> Pending(m)]
    <3>3. M' = M /\ F' = F
      BY <1>2, <3>2 DEF TokenMap, FreeMap
    <3>4. P[l] # Nil /\ P' = [P EXCEPT ![l] = Nil]
      BY <2>4, <2>5 DEF PendingMap
    <3>5. Ledger!Send(l, r)
      BY <2>8, <3>3, <3>4 DEF Ledger!Send
    <3> QED BY <3>5 DEF Ledger!Next
  <2>9. CASE r # Burned
    <3>1. /\ r \in Users /\ row \in Balances /\ credited \in Balances /\ credited # Nil
          /\ accounts' = Put(sent, r, tick, credited)
          /\ unlocked # Nil
      BY <2>1, <2>9, LedgerAssumption
    <3>2. credited.balance = row.balance + tr.amt
      BY <2>1, <3>1, CreditedIs DEF credited
    <3>3. row.balance = Row(r, tick).balance
      <4>1. sent[r][tick] \in OrNil(Balances) /\ OrDefault(balances[r][tick]) \in Balances
        BY <1>1, <2>1, <3>1, DefaultRow
      <4>2. sent[r][tick] = Nil => Total(OrDefault(balances[r][tick])) = 0
        BY <2>3, <2>6, <2>9, <3>1 DEF Covered
      <4>3. row = OrDefault(sent[r][tick])
        BY DEF row
      <4>4. row.balance = (IF sent[r][tick] # Nil THEN sent[r][tick]
                           ELSE OrDefault(balances[r][tick])).balance
        BY <4>1, <4>2, <4>3, FreeDefault
      <4>5. CASE r = u
        <5>1. sent[r][tick] = unlocked
          BY <2>6, <3>1, <4>5
        <5> QED BY <2>2, <3>1, <4>4, <4>5, <5>1 DEF old
      <4>6. CASE r # u
        <5>1. sent[r][tick] = accounts[r][tick]
          BY <2>6, <3>1, <4>6
        <5> QED BY <4>4, <5>1 DEF Row
      <4> QED BY <4>5, <4>6
    <3>4. ASSUME NEW v \in Users, NEW s \in Ticks
          PROVE  accounts'[v][s] = IF v = r /\ s = tick THEN credited ELSE sent[v][s]
      BY <2>1, <3>1 DEF Put
    <3>5. ASSUME NEW v \in Users, NEW s \in Ticks
          PROVE  Row(v, s)'.balance = IF v = r /\ s = tick THEN Row(v, s).balance + tr.amt
                                                           ELSE Row(v, s).balance
      <4>1. CASE v = r /\ s = tick
        <5>1. Row(v, s)' = credited
          BY <3>1, <3>4, <4>1 DEF Row
        <5> QED BY <3>2, <3>3, <4>1, <5>1
      <4>2. CASE ~(v = r /\ s = tick) /\ v = u /\ s = tick
        <5>1. Row(v, s)' = unlocked
          BY <2>6, <3>1, <3>4, <4>2 DEF Row
        <5> QED BY <2>2, <4>2, <5>1 DEF old
      <4>3. CASE ~(v = r /\ s = tick) /\ ~(v = u /\ s = tick)
        <5>1. accounts'[v][s] = accounts[v][s]
          BY <2>6, <3>4, <4>3
        <5> QED BY <1>2, <4>3, <5>1 DEF Row, OrDefault
      <4> QED BY <4>1, <4>2, <4>3
    <3> DEFINE M == [m \in Names |-> Token(m)]
               F == [v \in Users |-> [s \in Ticks |-> Row(v, s).balance]]
               P == [m \in Locations |-> Pending(m)]
    <3>6. F' = [F EXCEPT ![r][tick] = @ + tr.amt]
      <4> DEFINE G == [F EXCEPT ![r][tick] = @ + tr.amt]
      <4>1. ASSUME NEW v \in Users, NEW s \in Ticks PROVE F'[v][s] = G[v][s]
        BY <3>1, <3>5
      <4>2. F' = [v \in Users |-> [s \in Ticks |-> F'[v][s]]]
        OBVIOUS
      <4>3. G = [v \in Users |-> [s \in Ticks |-> G[v][s]]]
        BY <3>1
      <4> HIDE DEF F, G
      <4> QED BY <4>1, <4>2, <4>3 DEF G
    <3>7. M' = M
      BY <1>2 DEF TokenMap
    <3>8. P[l] = tr1 /\ P' = [P EXCEPT ![l] = Nil]
      BY <2>5 DEF PendingMap
    <3>9. P[l] # Nil /\ F' = [F EXCEPT ![r][P[l].tick] = @ + P[l].amt]
      BY <2>4, <3>6, <3>8
    <3>10. Ledger!Send(l, r)
      BY <2>9, <3>7, <3>8, <3>9 DEF Ledger!Send
    <3> QED BY <3>10 DEF Ledger!Next
  <2> QED BY <2>8, <2>9
<1>5. CASE tr = Nil
  <2>1. PendingMap' = PendingMap
    BY <1>1, <1>2, <1>3, <1>5, PendingFrame
  <2>2. FreeMap' = FreeMap
    BY <1>2, <1>5 DEF ProcessTransferred, FreeMap, Row, OrDefault
  <2> QED BY <1>2, <2>1, <2>2, LedgerStutter
<1> QED BY <1>4, <1>5

LEMMA LedgerStep == BInv /\ [Next]_vars => [Ledger!Next]_(Ledger!vars)
<1> SUFFICES ASSUME BInv, [Next]_vars PROVE [Ledger!Next]_(Ledger!vars)
  OBVIOUS
<1>1. CInv /\ SInv /\ TInv /\ SpentOnce /\ QueuedFresh
  BY DEF BInv, CInv, SInv
<1>2. CASE Parse \/ LoadTokensData \/ CommitBlock \/ PanicTransferred
  <2>1. TokenMap' = TokenMap /\ FreeMap' = FreeMap /\ PendingMap' = PendingMap
    BY <1>1, <1>2, TokensKept, RowsKept, PendingKept, TokensFrame, FreeKept
  <2> QED BY <2>1, LedgerStutter
<1>3. CASE ProcessDeploy
  BY <1>1, <1>3, StepDeploy
<1>4. CASE ProcessMint
  BY <1>1, <1>4, StepMint
<1>5. CASE ProcessTransfer
  BY <1>1, <1>5, StepTransfer
<1>6. CASE ProcessTransferred
  BY <1>1, <1>6, StepMove
<1>7. CASE UNCHANGED vars
  <2>1. TokenMap' = TokenMap /\ FreeMap' = FreeMap
    BY <1>7 DEF vars, db, cache, TokenMap, FreeMap, Token, Row, OrDefault
  <2>2. PendingMap' = PendingMap
    BY <1>1, <1>7, PendingKept
  <2> QED BY <2>1, <2>2, LedgerStutter
<1> QED BY <1>2, <1>3, <1>4, <1>5, <1>6, <1>7 DEF Next, Process, Terminated

(* Without the jubilee rule the block-wise ledger, with its queue, its cache and
   its write-back, is an implementation of the plain ledger of Brc20: every step of
   the code is one legal step of the token protocol, or changes nothing. *)
THEOREM LedgerImplemented == ASSUME ~OccupiedOffsets PROVE Spec => LedgerSpec
<1>1. BInv /\ [Next]_vars => BInv'
  BY BInvNext
<1> QED BY BInvInit, <1>1, LedgerInit, LedgerStep, PTL DEF Spec, LedgerSpec, Ledger!Spec
============================================================================
