----------------------------- MODULE ReorgProofs -----------------------------
(***************************************************************************)
(* Theorems of TokenReorg, for every value of its constants without the    *)
(* jubilee rule: blocks of any length, undone and applied again in any     *)
(* order, with restarts anywhere.                                          *)
(*                                                                         *)
(* A rollback leaves the Holders index behind, so the ledger's invariant   *)
(* BInv is one that does not speak of Holders.  It is kept by a rollback   *)
(* because                                                                 *)
(*   1. between blocks nothing is cached, and BInv says no more than that  *)
(*      the three tables fit together (TablesOk);                          *)
(*   2. a savepoint undoes the writes of its block exactly (CommitUndone): *)
(*      a row the block writes is either restored or, when it was absent,  *)
(*      removed.  This takes SpentOnce: a valid transfer of the cache at a *)
(*      location that was not loaded had no row there;                     *)
(*   3. so the savepoints lead back, one after the other, to tables that   *)
(*      were those of the ledger before (SavesLead).                       *)
(***************************************************************************)
EXTENDS LedgerProofs, TokenReorg

----------------------------------------------------------------------------
(* The tables alone. *)

Rows(b, t) == [u \in Users |-> Total(OrDefault(b[u][t]))]

TablesTyped(m, b, x) ==
  /\ m \in [Names -> OrNil(Metas)]
  /\ b \in [Users -> [Ticks -> OrNil(Balances)]]
  /\ x \in [Locations -> OrNil(Transfers)]

\* t is the spelling of a deployed token.
SpelledIn(m, t) == m[Lower[t]] # Nil /\ m[Lower[t]].tick = t

TablesSpelled(m, b, x) ==
  /\ \A n \in Names : m[n] # Nil => m[n].supply <= m[n].max /\ Lower[m[n].tick] = n
  /\ \A u \in Users, t \in Ticks : Total(OrDefault(b[u][t])) # 0 => SpelledIn(m, t)
  /\ \A l \in Locations : x[l] # Nil => SpelledIn(m, x[l].tick)

TablesBacked(b, x) == \A u \in Users, t \in Ticks : Backs(x, OrDefault(b[u][t]), u, t)

TablesCapped(m, b) ==
  \A t \in Ticks :
    SumFunctionOnSet(Rows(b, t), Users) <= (IF m[Lower[t]] = Nil THEN 0 ELSE m[Lower[t]].supply)

TablesOk(m, b, x) ==
  TablesTyped(m, b, x) /\ TablesSpelled(m, b, x) /\ TablesBacked(b, x) /\ TablesCapped(m, b)

\* Between blocks, or after a start of the process: nothing is cached.
Quiet ==
  /\ phase = "idle"
  /\ tokens = NoRows(Names) /\ accounts = NoAccounts /\ queue = <<>>
  /\ all_transfers = NoRows(Locations) /\ valid_transfers = NoRows(Locations)
  /\ loaded = {} /\ movable = {}

OthersTyped ==
  /\ holders \in [Ticks -> [sorted : SUBSET (Nat \X Users), stats : Int]]
  /\ blocks \in Nat

LInv == BInv /\ NothingFromNothing

\* Without a cache a reader sees the tables.
LEMMA QuietView ==
  ASSUME Quiet
  PROVE  /\ \A n \in Names : Token(n) = meta[n]
         /\ \A u \in Users, t \in Ticks : Row(u, t) = OrDefault(balances[u][t])
         /\ \A l \in Locations : Pending(l) = transfers[l]
BY DEF Quiet, Token, Row, Pending, NoRows, NoAccounts

LEMMA QuietHeld ==
  ASSUME Quiet
  PROVE  \A t \in Ticks : Held[t] = Rows(balances, t)
BY QuietView DEF Held, Rows

LEMMA QuietPending ==
  ASSUME Quiet, transfers \in [Locations -> OrNil(Transfers)]
  PROVE  PendingMap = transfers
BY QuietView DEF PendingMap

\* A state without a cache satisfies the ledger's invariant when its tables fit together.
LEMMA QuietTables == Quiet /\ OthersTyped /\ TablesOk(meta, balances, transfers) => LInv
<1> SUFFICES ASSUME Quiet, OthersTyped, TablesOk(meta, balances, transfers) PROVE LInv
  OBVIOUS
<1>1. TypeOK
  BY DEF Quiet, OthersTyped, TablesOk, TablesTyped, TypeOK, NoRows, NoAccounts, OrNil
<1>2. SupplyWithinMax /\ MovableKnown
  BY DEF Quiet, TablesOk, TablesSpelled, SupplyWithinMax, MovableKnown, NoRows
<1>3. CacheEmpty /\ NamesLoaded
  BY DEF Quiet, CacheEmpty, NamesLoaded
<1>4. TicksUnderName
  BY DEF Quiet, TablesOk, TablesSpelled, TicksUnderName, NoRows
<1>5. \A t \in Ticks : SpelledIn(meta, t) => t \in Deployed
  BY QuietView, TickName DEF SpelledIn, Deployed
<1>6. AllSpelled
  <2>1. ASSUME NEW u \in Users, NEW t \in Ticks, Held[t][u] # 0 PROVE t \in Deployed
    <3>1. Total(OrDefault(balances[u][t])) # 0
      BY <2>1, QuietHeld DEF Rows
    <3>2. SpelledIn(meta, t)
      BY <3>1 DEF TablesOk, TablesSpelled
    <3> QED BY <1>5, <3>2
  <2>2. ASSUME NEW l \in Locations, transfers[l] # Nil PROVE transfers[l].tick \in Deployed
    <3>1. transfers[l] \in Transfers
      BY <2>2 DEF TablesOk, TablesTyped, OrNil
    <3>2. transfers[l].tick \in Ticks
      BY <3>1, RowFields
    <3> QED BY <1>5, <2>2, <3>2 DEF TablesOk, TablesSpelled
  <2>3. \A l \in Locations : valid_transfers[l] = Nil
    BY DEF Quiet, NoRows
  <2> QED BY <2>1, <2>2, <2>3 DEF AllSpelled
<1>7. CInv
  <2>1. QueueCovered /\ TransfersKnown
    BY DEF Quiet, QueueCovered, TransfersKnown
  <2> QED BY <1>1, <1>2, <1>3, <1>4, <1>6, <2>1 DEF CInv, SInv, TInv
<1>8. Backed
  <2>1. PendingMap = transfers
    BY QuietPending DEF TablesOk, TablesTyped
  <2> QED BY <2>1, QuietView DEF TablesOk, TablesBacked, Backed
<1>9. SpentOnce /\ QueuedFresh /\ MovesQueued /\ SendersLoaded /\ NoPanic
  BY DEF Quiet, SpentOnce, QueuedFresh, MovesQueued, SendersLoaded, NoPanic, NoRows
<1>10. NothingFromNothing
  <2> SUFFICES ASSUME NEW t \in Ticks PROVE SumOf(Held, t) <= Supply[Lower[t]]
    BY BackedSupply
  <2>1. SumOf(Held, t) = SumFunctionOnSet(Rows(balances, t), Users)
    BY QuietHeld DEF SumOf
  <2>2. Supply[Lower[t]] = IF meta[Lower[t]] = Nil THEN 0 ELSE meta[Lower[t]].supply
    BY QuietView, TickName DEF Supply
  <2> QED BY <2>1, <2>2 DEF TablesOk, TablesCapped
<1> QED BY <1>7, <1>8, <1>9, <1>10 DEF LInv, BInv

\* And the other way round.
LEMMA TablesOfQuiet == Quiet /\ LInv => TablesOk(meta, balances, transfers)
<1> SUFFICES ASSUME Quiet, LInv PROVE TablesOk(meta, balances, transfers)
  OBVIOUS
<1>1. SInv /\ TInv
  BY DEF LInv, BInv, CInv, SInv
<1>2. TablesTyped(meta, balances, transfers)
  BY <1>1 DEF TInv, TypeOK, TablesTyped
<1>3. \A t \in Ticks : t \in Deployed => SpelledIn(meta, t)
  BY QuietView, TickName DEF SpelledIn, Deployed
<1>4. TablesSpelled(meta, balances, transfers)
  <2>1. \A n \in Names : meta[n] # Nil => meta[n].supply <= meta[n].max /\ Lower[meta[n].tick] = n
    BY <1>1 DEF SInv, TInv, SupplyWithinMax, TicksUnderName
  <2>2. ASSUME NEW u \in Users, NEW t \in Ticks, Total(OrDefault(balances[u][t])) # 0
        PROVE  SpelledIn(meta, t)
    <3>1. Held[t][u] # 0
      BY <2>2, QuietHeld DEF Rows
    <3> QED BY <1>1, <1>3, <3>1 DEF SInv, AllSpelled
  <2>3. ASSUME NEW l \in Locations, transfers[l] # Nil PROVE SpelledIn(meta, transfers[l].tick)
    <3>1. transfers[l].tick \in Deployed
      BY <1>1, <2>3 DEF SInv, AllSpelled
    <3> QED BY <1>3, <3>1 DEF Deployed
  <2> QED BY <2>1, <2>2, <2>3 DEF TablesSpelled
<1>5. TablesBacked(balances, transfers)
  <2>1. PendingMap = transfers
    BY <1>2, QuietPending DEF TablesTyped
  <2> QED BY <2>1, QuietView DEF LInv, BInv, Backed, TablesBacked
<1>6. TablesCapped(meta, balances)
  <2> SUFFICES ASSUME NEW t \in Ticks
               PROVE  SumFunctionOnSet(Rows(balances, t), Users)
                        <= (IF meta[Lower[t]] = Nil THEN 0 ELSE meta[Lower[t]].supply)
    BY DEF TablesCapped
  <2>1. SumOf(Held, t) = SumFunctionOnSet(Rows(balances, t), Users)
    BY QuietHeld DEF SumOf
  <2>2. Supply[Lower[t]] = IF meta[Lower[t]] = Nil THEN 0 ELSE meta[Lower[t]].supply
    BY QuietView, TickName DEF Supply
  <2>3. SumOf(Held, t) <= Supply[Lower[t]]
    BY BackedSupply DEF LInv
  <2> QED BY <2>1, <2>2, <2>3
<1> QED BY <1>2, <1>4, <1>5, <1>6 DEF TablesOk

----------------------------------------------------------------------------
(* A savepoint undoes its block. *)

\* RestoreBlock, table by table.
UndoneMeta(s, m) ==
  [n \in Names |->
     IF n \in s.deploysToRemove THEN Nil
     ELSE IF s.deploysToRestore[n] # Nil THEN s.deploysToRestore[n] ELSE m[n]]
UndoneBalances(s, b) ==
  [u \in Users |-> [t \in Ticks |->
     IF s.balancesBefore[u][t] # Nil THEN s.balancesBefore[u][t]
     ELSE IF <<u, t>> \in s.balancesToRemove THEN Nil ELSE b[u][t]]]
UndoneTransfers(s, x) ==
  [l \in Locations |->
     IF s.restoreTransfers[l] # Nil THEN s.restoreTransfers[l]
     ELSE IF l \in s.removeTransfers THEN Nil ELSE x[l]]

\* The tables d, a value of db, lead back to e.
LeadsBack(s, d, e) ==
  /\ UndoneMeta(s, d[1]) = e[1]
  /\ UndoneBalances(s, d[2]) = e[2]
  /\ UndoneTransfers(s, d[3]) = e[3]
  /\ e = <<e[1], e[2], e[3]>>

LEMMA CommitUndone ==
  ASSUME TInv, SpentOnce, CommitBlock
  PROVE  LeadsBack(Savepoint, db', db)
<1> DEFINE s == Savepoint
<1>1. UndoneMeta(s, meta') = meta
  <2>1. ASSUME NEW n \in Names
        PROVE  /\ n \in s.deploysToRemove <=> tokens[n] # Nil /\ meta[n] = Nil
               /\ s.deploysToRestore[n] = (IF tokens[n] # Nil THEN meta[n] ELSE Nil)
               /\ meta'[n] = IF tokens[n] # Nil THEN tokens[n] ELSE meta[n]
    BY DEF Savepoint, CommitBlock
  <2>2. meta \in [Names -> OrNil(Metas)]
    BY DEF TInv, TypeOK
  <2> HIDE DEF s
  <2>3. ASSUME NEW n \in Names PROVE UndoneMeta(s, meta')[n] = meta[n]
    BY <2>1 DEF UndoneMeta
  <2>4. UndoneMeta(s, meta') = [n \in Names |-> meta[n]]
    BY <2>3 DEF UndoneMeta
  <2> QED BY <2>2, <2>4
<1>2. UndoneBalances(s, balances') = balances
  <2>1. ASSUME NEW u \in Users, NEW t \in Ticks
        PROVE  /\ <<u, t>> \in s.balancesToRemove <=> accounts[u][t] # Nil /\ balances[u][t] = Nil
               /\ s.balancesBefore[u][t] = (IF accounts[u][t] # Nil THEN balances[u][t] ELSE Nil)
               /\ balances'[u][t] = IF accounts[u][t] # Nil THEN accounts[u][t] ELSE balances[u][t]
    BY DEF Savepoint, BalancesBefore, CommitBlock
  <2>2. balances \in [Users -> [Ticks -> OrNil(Balances)]]
    BY DEF TInv, TypeOK
  <2> HIDE DEF s
  <2>3. ASSUME NEW u \in Users, NEW t \in Ticks
        PROVE  UndoneBalances(s, balances')[u][t] = balances[u][t]
    BY <2>1 DEF UndoneBalances
  <2>4. UndoneBalances(s, balances') = [u \in Users |-> [t \in Ticks |-> balances[u][t]]]
    BY <2>3 DEF UndoneBalances
  <2> QED BY <2>2, <2>4
<1>3. UndoneTransfers(s, transfers') = transfers
  <2>1. ASSUME NEW l \in Locations
        PROVE  /\ l \in s.removeTransfers <=> valid_transfers[l] # Nil
               /\ s.restoreTransfers[l] = (IF l \in loaded THEN transfers[l] ELSE Nil)
               /\ transfers'[l] = (IF valid_transfers[l] # Nil THEN valid_transfers[l]
                                   ELSE IF l \in loaded THEN Nil ELSE transfers[l])
    BY DEF Savepoint, RestoredTransfer, CommitBlock, WrittenTransfer
  <2>2. transfers \in [Locations -> OrNil(Transfers)]
    BY DEF TInv, TypeOK
  <2>3. ASSUME NEW l \in Locations
        PROVE  /\ l \in loaded => transfers[l] # Nil
               /\ valid_transfers[l] # Nil => l \in loaded \/ transfers[l] = Nil
    BY DEF SpentOnce
  <2> HIDE DEF s
  <2>4. ASSUME NEW l \in Locations PROVE UndoneTransfers(s, transfers')[l] = transfers[l]
    BY <2>1, <2>3 DEF UndoneTransfers
  <2>5. UndoneTransfers(s, transfers') = [l \in Locations |-> transfers[l]]
    BY <2>4 DEF UndoneTransfers
  <2> QED BY <2>2, <2>5
<1> QED BY <1>1, <1>2, <1>3 DEF LeadsBack, db

LEMMA RestoreIs ==
  ASSUME RestoreBlock
  PROVE  LET s == savepoints[Len(savepoints)]
         IN  /\ meta' = UndoneMeta(s, meta)
             /\ balances' = UndoneBalances(s, balances)
             /\ transfers' = UndoneTransfers(s, transfers)
BY DEF RestoreBlock, UndoneMeta, UndoneBalances, UndoneTransfers

----------------------------------------------------------------------------
(* The invariant of TokenReorg. *)

\* The tables after block i of the cache: those before block i + 1, or the current ones.
After(i) == IF i = Len(before) THEN db ELSE before[i + 1]

SavesLead ==
  /\ \E S : savepoints \in Seq(S)
  /\ \E S : before \in Seq(S)
  /\ Len(savepoints) = Len(before)
  /\ \A i \in 1..Len(before) : LeadsBack(savepoints[i], After(i), before[i])

TablesStand ==
  /\ TablesOk(meta, balances, transfers)
  /\ \A i \in 1..Len(before) : TablesOk(before[i][1], before[i][2], before[i][3])

IdleIsQuiet == phase = "idle" => Quiet

RInv ==
  LInv /\ IdleIsQuiet /\ TablesStand /\ SavesLead /\ (~rolledBack => Indexed)


LEMMA LInvNext == ~OccupiedOffsets /\ LInv /\ [Next]_vars => LInv'
<1> SUFFICES ASSUME ~OccupiedOffsets, LInv, [Next]_vars PROVE LInv'
  OBVIOUS
<1>1. BInv' /\ SInv
  BY BInvNext DEF LInv, BInv, CInv
<1> QED BY <1>1, NothingFromNext DEF LInv

LEMMA QuietNext == LInv /\ IdleIsQuiet /\ [Next]_vars => IdleIsQuiet'
<1> SUFFICES ASSUME LInv, IdleIsQuiet, [Next]_vars, phase' = "idle" PROVE Quiet'
  BY DEF IdleIsQuiet
<1>1. CASE CommitBlock
  <2>1. movable = {} /\ queue = <<>>
    BY <1>1 DEF LInv, BInv, CInv, SInv, TInv, MovableKnown, CommitBlock
  <2> QED BY <1>1, <2>1 DEF CommitBlock, Quiet, NoRows, NoAccounts
<1>2. CASE UNCHANGED vars
  <2>1. UNCHANGED <<phase, tokens, accounts, queue, all_transfers, valid_transfers, loaded, movable>>
    BY <1>2 DEF vars, cache
  <2> QED BY <2>1 DEF IdleIsQuiet, Quiet, NoRows, NoAccounts
<1>3. CASE Parse
  BY <1>3, ParseKeeps
<1>4. CASE Process
  BY <1>4
     DEF Process, LoadTokensData, ProcessDeploy, ProcessMint, ProcessTransfer, ProcessTransferred,
         PanicTransferred, Dequeue
<1> QED BY <1>1, <1>2, <1>3, <1>4 DEF Next, Terminated

\* Only the write-back changes the tables.
LEMMA TablesKept ==
  ASSUME Parse \/ Process \/ Terminated \/ UNCHANGED vars
  PROVE  UNCHANGED <<meta, balances, transfers>>
<1>1. CASE Parse
  BY <1>1, ParseKeeps
<1>2. CASE Process
  BY <1>2
     DEF Process, LoadTokensData, ProcessDeploy, ProcessMint, ProcessTransfer, ProcessTransferred,
         PanicTransferred, Dequeue, db
<1>3. CASE Terminated \/ UNCHANGED vars
  BY <1>3 DEF Terminated, vars, db
<1> QED BY <1>1, <1>2, <1>3

LEMMA QuietTablesNext ==
  /\ Quiet' /\ OthersTyped' /\ TablesOk(meta', balances', transfers') => LInv'
  /\ Quiet' /\ LInv' => TablesOk(meta', balances', transfers')
<1>1. (Quiet /\ OthersTyped /\ TablesOk(meta, balances, transfers) => LInv)'
  BY QuietTables, PTL
<1>2. (Quiet /\ LInv => TablesOk(meta, balances, transfers))'
  BY TablesOfQuiet, PTL
<1>3. TablesOk(meta, balances, transfers)' <=> TablesOk(meta', balances', transfers')
  BY DEF TablesOk, TablesTyped, TablesSpelled, TablesBacked, TablesCapped, SpelledIn, Rows, Backs
<1> QED BY <1>1, <1>2, <1>3

LEMMA RInvInit == RInit => RInv
<1> SUFFICES ASSUME RInit PROVE RInv
  OBVIOUS
<1>1. Init /\ savepoints = <<>> /\ before = <<>> /\ rolledBack = FALSE
  BY DEF RInit
<1>2. LInv /\ Indexed
  BY <1>1, BInvInit, NothingFromInit, HInvInit DEF LInv, HInv
<1>3. Quiet
  BY <1>1 DEF Init, Quiet
<1>4. TablesStand
  BY <1>1, <1>2, <1>3, TablesOfQuiet DEF TablesStand
<1>5. SavesLead
  <2>1. <<>> \in Seq({}) /\ Len(<<>>) = 0
    OBVIOUS
  <2> QED BY <1>1, <2>1 DEF SavesLead
<1> QED BY <1>2, <1>3, <1>4, <1>5 DEF RInv, IdleIsQuiet

----------------------------------------------------------------------------
(* One lemma per action. *)

\* Making room and pushing: the entries move down by k.
LEMMA Pushed ==
  ASSUME NEW S, NEW s \in Seq(S), NEW e, NEW k \in {0, 1}, k <= Len(s),
         NEW r, r = Append(IF k = 1 THEN Tail(s) ELSE s, e)
  PROVE  /\ r \in Seq(S \cup {e})
         /\ Len(r) = Len(s) - k + 1
         /\ \A i \in 1..(Len(s) - k) : r[i] = s[i + k]
         /\ r[Len(s) - k + 1] = e
<1>1. CASE k = 0
  BY <1>1
<1>2. CASE k = 1
  <2> PICK q : q = Tail(s)
    OBVIOUS
  <2>1. q \in Seq(S) /\ Len(q) = Len(s) - 1 /\ \A i \in 1..(Len(s) - 1) : q[i] = s[i + 1]
    BY <1>2
  <2>2. r = Append(q, e)
    BY <1>2
  <2> QED BY <1>2, <2>1, <2>2
<1> QED BY <1>1, <1>2

LEMMA Popped ==
  ASSUME NEW S, NEW s \in Seq(S), s # <<>>, NEW r, r = SubSeq(s, 1, Len(s) - 1)
  PROVE  /\ r \in Seq(S)
         /\ Len(r) = Len(s) - 1
         /\ \A i \in 1..(Len(s) - 1) : r[i] = s[i]
<1> PICK n \in Nat : n = Len(s) - 1
  OBVIOUS
<1>1. r = [i \in 1..n |-> s[i]]
  OBVIOUS
<1>2. \A i \in 1..n : s[i] \in S
  OBVIOUS
<1> QED BY <1>1, <1>2

LEMMA SoundNext ==
  ASSUME ~OccupiedOffsets, RInv, [Next]_vars
  PROVE  LInv' /\ IdleIsQuiet' /\ (Indexed => Indexed')
<1>1. LInv' /\ IdleIsQuiet'
  BY LInvNext, QuietNext DEF RInv
<1>2. CInv
  BY DEF RInv, LInv, BInv
<1> QED BY <1>1, <1>2, CInvNext

\* The tables an action leaves are those the primed invariant speaks of.
LEMMA TablesNext ==
  TablesOk(meta, balances, transfers)' <=> TablesOk(meta', balances', transfers')
BY DEF TablesOk, TablesTyped, TablesSpelled, TablesBacked, TablesCapped, SpelledIn, Rows, Backs

LEMMA TablesStandNext ==
  ASSUME TablesOk(meta', balances', transfers'),
         \A i \in 1..Len(before') : TablesOk(before'[i][1], before'[i][2], before'[i][3])
  PROVE  TablesStand'
<1>1. ASSUME NEW i PROVE
  TablesOk(before[i][1], before[i][2], before[i][3])'
        <=> TablesOk(before'[i][1], before'[i][2], before'[i][3])
  BY DEF TablesOk, TablesTyped, TablesSpelled, TablesBacked, TablesCapped, SpelledIn, Rows, Backs
<1> QED BY <1>1, TablesNext DEF TablesStand

LEMMA SavesLeadNext ==
  ASSUME \E S : savepoints' \in Seq(S), \E S : before' \in Seq(S),
         Len(savepoints') = Len(before'),
         \A i \in 1..Len(before') :
           LeadsBack(savepoints'[i], IF i = Len(before') THEN db' ELSE before'[i + 1], before'[i])
  PROVE  SavesLead'
BY DEF SavesLead, After, LeadsBack, UndoneMeta, UndoneBalances, UndoneTransfers

LEMMA RInvKept ==
  ASSUME ~OccupiedOffsets, RInv, Parse \/ Process \/ Terminated \/ UNCHANGED vars,
         UNCHANGED <<savepoints, before, rolledBack>>
  PROVE  RInv'
<1>1. LInv' /\ IdleIsQuiet' /\ (Indexed => Indexed')
  BY SoundNext DEF Next
<1>2. UNCHANGED <<meta, balances, transfers>>
  BY TablesKept
<1>3. TablesStand'
  <2>1. TablesOk(meta', balances', transfers')
    BY <1>2 DEF RInv, TablesStand
  <2>2. \A i \in 1..Len(before') : TablesOk(before'[i][1], before'[i][2], before'[i][3])
    BY DEF RInv, TablesStand
  <2> QED BY <2>1, <2>2, TablesStandNext
<1>4. SavesLead'
  <2>1. db' = db
    BY <1>2 DEF db
  <2>2. \A i \in 1..Len(before') :
          LeadsBack(savepoints'[i], IF i = Len(before') THEN db' ELSE before'[i + 1], before'[i])
    BY <2>1 DEF RInv, SavesLead, After
  <2> QED BY <2>2, SavesLeadNext DEF RInv, SavesLead
<1> QED BY <1>1, <1>3, <1>4 DEF RInv

LEMMA CommitStands ==
  ASSUME ~OccupiedOffsets, RInv, CommitBlock
  PROVE  /\ LInv' /\ IdleIsQuiet' /\ (Indexed => Indexed')
         /\ TablesOk(meta', balances', transfers')
         /\ LeadsBack(Savepoint, db', db)
<1>1. LInv' /\ IdleIsQuiet' /\ (Indexed => Indexed')
  BY SoundNext DEF Next
<1>2. Quiet'
  BY <1>1 DEF IdleIsQuiet, CommitBlock
<1>3. TInv /\ SpentOnce
  BY DEF RInv, LInv, BInv, CInv, SInv
<1> QED BY <1>1, <1>2, <1>3, QuietTablesNext, CommitUndone


\* The tables that led back to before[i] still do after one more block.
LEMMA TrackedLeads ==
  ASSUME ~OccupiedOffsets, RInv, CommitTracked
  PROVE  SavesLead' /\ \A i \in 1..Len(before') : TablesOk(before'[i][1], before'[i][2], before'[i][3])
<1> PICK S : savepoints \in Seq(S)
  BY DEF RInv, SavesLead
<1> PICK T : before \in Seq(T)
  BY DEF RInv, SavesLead
<1> PICK n \in Nat : n = Len(before)
  OBVIOUS
<1>1. Len(savepoints) = n /\ Len(before) = n
  BY DEF RInv, SavesLead
<1> PICK k \in {0, 1} : k = IF n = MaxLen THEN 1 ELSE 0
  OBVIOUS
<1>2. k <= n
  BY MaxLenAssumption
<1> PICK s : s = Savepoint
  OBVIOUS
<1>3. /\ savepoints' = Append(IF k = 1 THEN Tail(savepoints) ELSE savepoints, s)
      /\ before' = Append(IF k = 1 THEN Tail(before) ELSE before, db)
  BY <1>1 DEF CommitTracked
<1> PICK p, q : p = savepoints' /\ q = before'
  OBVIOUS
<1>4. /\ p \in Seq(S \cup {s}) /\ Len(p) = n - k + 1
      /\ \A i \in 1..(n - k) : p[i] = savepoints[i + k]
      /\ p[n - k + 1] = s
  <2>1. k <= Len(savepoints) /\ p = Append(IF k = 1 THEN Tail(savepoints) ELSE savepoints, s)
    BY <1>1, <1>2, <1>3
  <2>2. /\ p \in Seq(S \cup {s}) /\ Len(p) = Len(savepoints) - k + 1
        /\ \A i \in 1..(Len(savepoints) - k) : p[i] = savepoints[i + k]
        /\ p[Len(savepoints) - k + 1] = s
    BY ONLY <2>1, Pushed, savepoints \in Seq(S), k \in {0, 1}
  <2> QED BY <1>1, <2>2
<1>5. /\ q \in Seq(T \cup {db}) /\ Len(q) = n - k + 1
      /\ \A i \in 1..(n - k) : q[i] = before[i + k]
      /\ q[n - k + 1] = db
  <2>1. k <= Len(before) /\ q = Append(IF k = 1 THEN Tail(before) ELSE before, db)
    BY <1>1, <1>2, <1>3
  <2>2. /\ q \in Seq(T \cup {db}) /\ Len(q) = Len(before) - k + 1
        /\ \A i \in 1..(Len(before) - k) : q[i] = before[i + k]
        /\ q[Len(before) - k + 1] = db
    BY ONLY <2>1, Pushed, before \in Seq(T), k \in {0, 1}
  <2> QED BY <1>1, <2>2
<1>6. LeadsBack(s, db', db)
  BY CommitStands DEF CommitTracked
<1>7. ASSUME NEW i \in 1..Len(q)
      PROVE  LeadsBack(p[i], IF i = Len(q) THEN db' ELSE q[i + 1], q[i])
  <2>1. CASE i = Len(q)
    BY <1>4, <1>5, <1>6, <2>1
  <2>2. CASE i # Len(q)
    <3>1. i \in 1..(n - k) /\ i + k \in 1..n
      BY <1>5, <2>2
    <3>2. LeadsBack(savepoints[i + k], After(i + k), before[i + k])
      BY <1>1, <3>1 DEF RInv, SavesLead
    <3>3. q[i + 1] = After(i + k)
      <4>1. CASE i = n - k
        BY <1>1, <1>5, <4>1 DEF After
      <4>2. CASE i # n - k
        <5>1. i + 1 \in 1..(n - k) /\ i + k # n /\ (i + 1) + k = (i + k) + 1
          BY <3>1, <4>2
        <5>2. q[i + 1] = before[(i + 1) + k]
          BY <1>5, <5>1
        <5> QED BY <1>1, <5>1, <5>2 DEF After
      <4> QED BY <4>1, <4>2
    <3>4. p[i] = savepoints[i + k] /\ q[i] = before[i + k]
      BY <1>4, <1>5, <3>1
    <3> QED BY <2>2, <3>2, <3>3, <3>4
  <2> QED BY <2>1, <2>2
<1>8. SavesLead'
  BY <1>4, <1>5, <1>7, SavesLeadNext
<1>9. ASSUME NEW i \in 1..Len(q) PROVE TablesOk(q[i][1], q[i][2], q[i][3])
  <2>1. CASE i \in 1..(n - k)
    <3>1. i + k \in 1..n /\ q[i] = before[i + k]
      BY <1>5, <2>1
    <3> QED BY <1>1, <3>1 DEF RInv, TablesStand
  <2>2. CASE i \notin 1..(n - k)
    <3>1. q[i] = db
      BY <1>5, <2>2
    <3>2. q[i][1] = meta /\ q[i][2] = balances /\ q[i][3] = transfers
      BY <3>1 DEF db
    <3> QED BY <3>2 DEF RInv, TablesStand
  <2> QED BY <2>1, <2>2
<1> QED BY <1>8, <1>9

LEMMA RInvTracked == ~OccupiedOffsets /\ RInv /\ CommitTracked => RInv'
<1> SUFFICES ASSUME ~OccupiedOffsets, RInv, CommitTracked PROVE RInv'
  OBVIOUS
<1>1. LInv' /\ IdleIsQuiet' /\ (Indexed => Indexed') /\ TablesOk(meta', balances', transfers')
  BY CommitStands DEF CommitTracked
<1>2. TablesStand' /\ SavesLead'
  BY <1>1, TrackedLeads, TablesStandNext
<1>3. ~rolledBack' => Indexed'
  BY <1>1 DEF CommitTracked, RInv
<1> QED BY <1>1, <1>2, <1>3 DEF RInv

LEMMA RInvUntracked == ~OccupiedOffsets /\ RInv /\ CommitUntracked => RInv'
<1> SUFFICES ASSUME ~OccupiedOffsets, RInv, CommitUntracked PROVE RInv'
  OBVIOUS
<1>1. LInv' /\ IdleIsQuiet' /\ (Indexed => Indexed') /\ TablesOk(meta', balances', transfers')
  BY CommitStands DEF CommitUntracked
<1>2. savepoints' = <<>> /\ before' = <<>> /\ <<>> \in Seq({}) /\ Len(<<>>) = 0
  BY DEF CommitUntracked
<1>3. TablesStand'
  BY <1>1, <1>2, TablesStandNext
<1>4. SavesLead'
  BY <1>2, SavesLeadNext
<1>5. ~rolledBack' => Indexed'
  BY <1>1 DEF CommitUntracked, RInv
<1> QED BY <1>1, <1>3, <1>4, <1>5 DEF RInv

\* The last savepoint takes the tables back to what they were.
LEMMA RestoredTables ==
  ASSUME RInv, RestoreBlock
  PROVE  /\ Len(before) \in Nat \ {0}
         /\ db' = before[Len(before)]
         /\ TablesOk(meta', balances', transfers')
<1> PICK n : n = Len(before)
  OBVIOUS
<1>1. n \in Nat \ {0} /\ Len(savepoints) = n
  <2> PICK S : savepoints \in Seq(S)
    BY DEF RInv, SavesLead
  <2>1. savepoints # <<>> /\ Len(savepoints) = n
    BY DEF RestoreBlock, RInv, SavesLead
  <2> QED BY <2>1
<1> PICK e : e = before[n]
  OBVIOUS
<1>2. LeadsBack(savepoints[n], db, e)
  BY <1>1 DEF RInv, SavesLead, After
<1>3. meta' = e[1] /\ balances' = e[2] /\ transfers' = e[3] /\ e = <<e[1], e[2], e[3]>>
  BY <1>1, <1>2, RestoreIs DEF LeadsBack, db
<1>4. db' = e
  BY <1>3 DEF db
<1>5. TablesOk(e[1], e[2], e[3])
  BY <1>1 DEF RInv, TablesStand
<1>6. TablesOk(meta', balances', transfers')
  BY <1>3, <1>5
<1> QED BY <1>1, <1>4, <1>6

LEMMA RInvRestore == RInv /\ RestoreBlock => RInv'
<1> SUFFICES ASSUME RInv, RestoreBlock PROVE RInv'
  OBVIOUS
<1> PICK S : savepoints \in Seq(S)
  BY DEF RInv, SavesLead
<1> PICK T : before \in Seq(T)
  BY DEF RInv, SavesLead
<1> PICK n : n = Len(before)
  OBVIOUS
<1>1. n \in Nat \ {0} /\ Len(before) = n /\ Len(savepoints) = n
  BY RestoredTables DEF RInv, SavesLead
<1>2. db' = before[n] /\ TablesOk(meta', balances', transfers')
  BY RestoredTables
<1>3. Quiet' /\ OthersTyped'
  <2>1. Quiet /\ OthersTyped
    BY DEF RestoreBlock, RInv, IdleIsQuiet, LInv, BInv, CInv, SInv, TInv, TypeOK, OthersTyped
  <2>2. UNCHANGED <<holders, tokens, accounts, queue, all_transfers, valid_transfers, loaded,
                    movable, phase, blocks>>
    BY DEF RestoreBlock, cache
  <2> QED BY <2>1, <2>2 DEF Quiet, OthersTyped, NoRows, NoAccounts
<1>4. LInv' /\ IdleIsQuiet'
  BY <1>2, <1>3, QuietTablesNext DEF IdleIsQuiet
<1> PICK p, q : p = savepoints' /\ q = before'
  OBVIOUS
<1>5. /\ p \in Seq(S) /\ Len(p) = n - 1 /\ \A i \in 1..(n - 1) : p[i] = savepoints[i]
      /\ q \in Seq(T) /\ Len(q) = n - 1 /\ \A i \in 1..(n - 1) : q[i] = before[i]
  <2>1. savepoints # <<>> /\ before # <<>>
    BY <1>1
  <2>2. p = SubSeq(savepoints, 1, Len(savepoints) - 1) /\ q = SubSeq(before, 1, Len(before) - 1)
    BY DEF RestoreBlock
  <2>3. p \in Seq(S) /\ Len(p) = n - 1 /\ \A i \in 1..(n - 1) : p[i] = savepoints[i]
    BY <1>1, <2>1, <2>2, Popped
  <2>4. q \in Seq(T) /\ Len(q) = n - 1 /\ \A i \in 1..(n - 1) : q[i] = before[i]
    BY <1>1, <2>1, <2>2, Popped
  <2> QED BY <2>3, <2>4
<1>6. ASSUME NEW i \in 1..Len(q)
      PROVE  LeadsBack(p[i], IF i = Len(q) THEN db' ELSE q[i + 1], q[i])
  <2>1. i \in 1..(n - 1) /\ i \in 1..n /\ i # n
    <3>1. Len(q) = n - 1
      BY <1>5
    <3> QED BY ONLY <1>1, <3>1, i \in 1..Len(q)
  <2>2. p[i] = savepoints[i] /\ q[i] = before[i]
    BY <1>5, <2>1
  <2>3. LeadsBack(savepoints[i], before[i + 1], before[i])
    BY <1>1, <2>1 DEF RInv, SavesLead, After
  <2>4. before[i + 1] = IF i = Len(q) THEN db' ELSE q[i + 1]
    <3>1. CASE i = Len(q)
      BY <1>1, <1>2, <1>5, <3>1
    <3>2. CASE i # Len(q)
      <4>1. Len(q) = n - 1
        BY <1>5
      <4>2. i + 1 \in 1..(n - 1)
        BY ONLY <1>1, <2>1, <3>2, <4>1
      <4>3. q[i + 1] = before[i + 1]
        BY <1>5, <4>2
      <4> QED BY <3>2, <4>3
    <3> QED BY <3>1, <3>2
  <2> QED BY <2>2, <2>3, <2>4
<1>7. SavesLead'
  BY <1>5, <1>6, SavesLeadNext
<1>8. ASSUME NEW i \in 1..Len(q) PROVE TablesOk(q[i][1], q[i][2], q[i][3])
  <2>1. i \in 1..(n - 1) /\ i \in 1..n
    <3>1. Len(q) = n - 1
      BY <1>5
    <3> QED BY ONLY <1>1, <3>1, i \in 1..Len(q)
  <2>2. q[i] = before[i]
    BY <1>5, <2>1
  <2> QED BY <1>1, <2>1, <2>2 DEF RInv, TablesStand
<1>9. TablesStand'
  BY <1>2, <1>8, TablesStandNext
<1>10. rolledBack'
  BY DEF RestoreBlock
<1> QED BY <1>4, <1>7, <1>9, <1>10 DEF RInv

\* Holders::init rebuilds exactly what Holders::change kept.
LEMMA RebuiltHolders ==
  ASSUME RInv, Restart
  PROVE  Quiet' /\ OthersTyped' /\ Indexed' /\ UNCHANGED <<meta, balances, transfers>>
<1>1. Quiet' /\ UNCHANGED <<meta, balances, transfers, blocks>>
  BY DEF Restart, Quiet, db, NoRows, NoAccounts
<1>2. (Quiet => \A t \in Ticks : Held[t] = Rows(balances, t))'
  BY QuietHeld, PTL
<1>3. ASSUME NEW t \in Ticks PROVE Held'[t] = Rows(balances, t)
  BY <1>1, <1>2 DEF Rows
<1>4. ASSUME NEW t \in Ticks PROVE HoldersOf(balances, t) = Entries(Rows(balances, t))
  <2>1. \A u \in Users : Rows(balances, t)[u] # 0 => balances[u][t] # Nil
    BY NoBalance DEF Rows, OrDefault
  <2>2. \A u \in Users : balances[u][t] # Nil => Rows(balances, t)[u] = Total(balances[u][t])
    BY DEF Rows, OrDefault
  <2> QED BY <2>1, <2>2 DEF HoldersOf, Entries
<1>5. ASSUME NEW t \in Ticks
      PROVE  /\ holders'[t].sorted = Entries(Held'[t])
             /\ holders'[t].stats = Cardinality(Entries(Held'[t]))
  BY <1>3, <1>4 DEF Restart
<1>6. Indexed'
  BY <1>5, IndexedNext DEF Indexes
<1>7. OthersTyped'
  <2>1. blocks' \in Nat
    BY <1>1 DEF RInv, LInv, BInv, CInv, SInv, TInv, TypeOK
  <2>2. ASSUME NEW t \in Ticks
        PROVE  /\ HoldersOf(balances, t) \in SUBSET (Nat \X Users)
               /\ Cardinality(HoldersOf(balances, t)) \in Nat
    <3> DEFINE f == Rows(balances, t)
    <3>1. \A u \in Users : f[u] \in Nat
      <4>1. TablesTyped(meta, balances, transfers)
        BY DEF RInv, TablesStand, TablesOk
      <4> QED BY <4>1, DefaultRow, TotalNat DEF TablesTyped, Rows
    <3>2. f \in [Users -> Nat]
      BY <3>1 DEF Rows
    <3> HIDE DEF f
    <3>3. IsFiniteSet(Entries(f))
      BY <3>2, EntriesFinite, LedgerAssumption
    <3>4. Entries(f) \in SUBSET (Nat \X Users)
      BY <3>1 DEF Entries
    <3>5. HoldersOf(balances, t) = Entries(f)
      BY <1>4 DEF f
    <3> QED BY <3>3, <3>4, <3>5, FS_CardinalityType
  <2>3. holders' \in [Ticks -> [sorted : SUBSET (Nat \X Users), stats : Int]]
    BY <2>2 DEF Restart
  <2> QED BY <2>1, <2>3 DEF OthersTyped
<1> QED BY <1>1, <1>6, <1>7

LEMMA RInvRestart == RInv /\ Restart => RInv'
<1> SUFFICES ASSUME RInv, Restart PROVE RInv'
  OBVIOUS
<1>1. Quiet' /\ OthersTyped' /\ Indexed' /\ UNCHANGED <<meta, balances, transfers>>
  BY RebuiltHolders
<1>2. TablesOk(meta', balances', transfers')
  BY <1>1 DEF RInv, TablesStand
<1>3. LInv' /\ IdleIsQuiet'
  BY <1>1, <1>2, QuietTablesNext DEF IdleIsQuiet
<1>4. savepoints' = <<>> /\ before' = <<>> /\ <<>> \in Seq({}) /\ Len(<<>>) = 0
  BY DEF Restart
<1>5. TablesStand'
  BY <1>2, <1>4, TablesStandNext
<1>6. SavesLead'
  BY <1>4, SavesLeadNext
<1> QED BY <1>1, <1>3, <1>5, <1>6 DEF RInv

LEMMA RInvNext == ~OccupiedOffsets /\ RInv /\ [RNext]_reorgVars => RInv'
<1> SUFFICES ASSUME ~OccupiedOffsets, RInv, [RNext]_reorgVars PROVE RInv'
  OBVIOUS
<1>1. CASE (Parse \/ Process \/ Terminated) /\ UNCHANGED <<savepoints, before, rolledBack>>
  BY <1>1, RInvKept
<1>2. CASE CommitTracked
  BY <1>2, RInvTracked
<1>3. CASE CommitUntracked
  BY <1>3, RInvUntracked
<1>4. CASE RestoreBlock
  BY <1>4, RInvRestore
<1>5. CASE Restart
  BY <1>5, RInvRestart
<1>6. CASE UNCHANGED reorgVars
  BY <1>6, RInvKept DEF reorgVars
<1> QED BY <1>1, <1>2, <1>3, <1>4, <1>5, <1>6 DEF RNext

(* Without the jubilee rule ReorgCache::restore takes the token tables back to
   exactly what they were before the undone block: after any number of blocks,
   however the cache was cut at its limit or cleared, and whatever was undone and
   applied again before. *)
THEOREM RollbackIsExact == ASSUME ~OccupiedOffsets PROVE RSpec => RestoreUndoes
<1>1. RInv /\ [RNext]_reorgVars => RInv'
  BY RInvNext
<1>2. RInv => [RestoreBlock => db' = before[Len(before)]]_reorgVars
  BY RestoredTables
<1> QED BY RInvInit, <1>1, <1>2, PTL DEF RSpec, RestoreUndoes

(* Without the jubilee rule rollbacks, blocks on restored tables and restarts at
   any step keep every account's transferable balance and transfers count equal to
   what its valid transfers add up to, and the holdings of a token within its
   supply. *)
THEOREM ReorgsKeepLedger == ASSUME ~OccupiedOffsets PROVE RSpec => []LedgerConsistent
<1>1. RInv /\ [RNext]_reorgVars => RInv'
  BY RInvNext
<1>2. RInv => LedgerConsistent
  BY BackedIsBacked DEF RInv, LInv, BInv, LedgerConsistent
<1> QED BY RInvInit, <1>1, <1>2, PTL DEF RSpec

(* Nor does a move panic after a rollback or a restart: the accounts of a rolled
   back block never leave a transfer whose sender cannot pay it. *)
THEOREM MovesNeverPanicAfterReorg == ASSUME ~OccupiedOffsets PROVE RSpec => []NoPanic
<1>1. RInv /\ [RNext]_reorgVars => RInv'
  BY RInvNext
<1>2. RInv => NoPanic
  BY DEF RInv, LInv, BInv
<1> QED BY RInvInit, <1>1, <1>2, PTL DEF RSpec

(* Without the jubilee rule the Holders index is that of the accounts from a start
   of the process until its first rollback: Holders::init files the same entries
   as Holders::change would have. *)
THEOREM HoldersUntilRollback ==
  ASSUME ~OccupiedOffsets PROVE RSpec => []HoldersExactUntilRollback
<1>1. RInv /\ [RNext]_reorgVars => RInv'
  BY RInvNext
<1>2. RInv => HoldersExactUntilRollback
  BY HoldersAreIndexed DEF RInv, HoldersExactUntilRollback
<1> QED BY RInvInit, <1>1, <1>2, PTL DEF RSpec
============================================================================
