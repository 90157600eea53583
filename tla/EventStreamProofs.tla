-------------------------- MODULE EventStreamProofs --------------------------
(***************************************************************************)
(* The safety properties of EventStream, each by an invariant of its own   *)
(* over the same types (SType):                                            *)
(*   SendsNeverPanic         Threads: the event sender ends only after the *)
(*                           process was told to;                          *)
(*   HistoryAfterBlock       Following: an entry on its way (in hand,      *)
(*                           in the queue, collected) has its block in     *)
(*                           the log already, and a log only grows;        *)
(*   SubscribersMissNothing  Taking: the events a subscriber got are those *)
(*                           of its filter up to its position;             *)
(*   ChainReconstructed      Rebuilt: the blocks of a log that no later    *)
(*                           reorg takes away are those of the chain;      *)
(*   HistoryIdsDense         Dense: every savepoint has the entries of its *)
(*                           block and the last id before them, so that    *)
(*                           undoing blocks leaves the ids up to that one. *)
(***************************************************************************)
EXTENDS EventStream, SumProofs

Entry == [id : Nat, user : Users, block : Nat, height : Nat]

USE StreamAssumption

----------------------------------------------------------------------------
(* The entries of a block. *)

\* The entries e of block b at height h have the ids after id, each of them once.
Numbered(e, id, b, h) ==
  /\ e \in Seq(Entry)
  /\ \A i \in DOMAIN e : e[i].block = b /\ e[i].height = h
  /\ \A i \in DOMAIN e : e[i].id \in id + 1..id + Len(e)
  /\ \A k \in id + 1..id + Len(e) : \E i \in DOMAIN e : e[i].id = k
  /\ \A i, j \in DOMAIN e : e[i].id = e[j].id => i = j

\* The entries of the next action.
With(acts, id, b, h, before, k) == before \o EntriesOf(acts[k], id + Len(before), b, h)

\* done[k] is the history of the first k actions.
Histories(acts, id, b, h, n, done) ==
  done = [k \in 0..n |-> IF k = 0 THEN <<>> ELSE With(acts, id, b, h, done[k - 1], k)]

LEMMA WithNumbered ==
  ASSUME NEW acts, NEW id \in Nat, NEW b \in Nat, NEW h \in Nat, NEW e, NEW k,
         Numbered(e, id, b, h), acts[k] \in Actions
  PROVE  Numbered(With(acts, id, b, h, e, k), id, b, h)
<1> DEFINE a == acts[k]
           n == Len(e)
           e1 == [id |-> id + n + 1, user |-> a.to, block |-> b, height |-> h]
           e2 == [id |-> id + n + 2, user |-> a.from, block |-> b, height |-> h]
           w == With(acts, id, b, h, e, k)
<1>1. /\ e \in Seq(Entry) /\ n \in Nat
      /\ \A i \in DOMAIN e : e[i].block = b /\ e[i].height = h
      /\ \A i \in DOMAIN e : e[i].id \in id + 1..id + n
      /\ \A i \in id + 1..id + n : \E j \in DOMAIN e : e[j].id = i
      /\ \A i, j \in DOMAIN e : e[i].id = e[j].id => i = j
  BY DEF Numbered
<1>2. a \in [from : Users, to : Users]
  OBVIOUS
<1>3. e1 \in Entry /\ e2 \in Entry
  BY <1>1, <1>2 DEF Entry
<1>4. /\ e1.id = id + n + 1 /\ e1.block = b /\ e1.height = h
      /\ e2.id = id + n + 2 /\ e2.block = b /\ e2.height = h
  OBVIOUS
<1> HIDE DEF e1, e2, n
<1>5. CASE a.from = a.to
  <2>1. w = e \o <<e1>>
    BY <1>5 DEF With, EntriesOf, e1, n
  <2>2. /\ w \in Seq(Entry) /\ Len(w) = n + 1 /\ w[n + 1] = e1
        /\ \A i \in 1..n : w[i] = e[i]
    BY <2>1, <1>1, <1>3 DEF n
  <2>3. DOMAIN e = 1..n /\ DOMAIN w = 1..n + 1
    BY <2>2, <1>1 DEF n
  <2> HIDE DEF w
  <2>4. \A i \in DOMAIN w : i \in 1..n \/ i = n + 1
    BY <2>3, <1>1
  <2>5. \A i \in DOMAIN w : w[i].block = b /\ w[i].height = h
    BY <1>1, <1>4, <2>2, <2>3, <2>4
  <2>6. \A i \in DOMAIN w : w[i].id \in id + 1..id + Len(w)
    BY <1>1, <1>4, <2>2, <2>3, <2>4
  <2>7. \A i \in id + 1..id + Len(w) : \E j \in DOMAIN w : w[j].id = i
    <3> SUFFICES ASSUME NEW i \in id + 1..id + Len(w) PROVE \E j \in DOMAIN w : w[j].id = i
      OBVIOUS
    <3>1. CASE i \in id + 1..id + n
      <4> PICK j \in DOMAIN e : e[j].id = i
        BY <3>1, <1>1
      <4>1. j \in 1..n /\ j \in DOMAIN w /\ w[j] = e[j]
        BY <1>1, <2>2, <2>3
      <4> QED BY <4>1
    <3>2. CASE i = id + n + 1
      <4>1. n + 1 \in DOMAIN w
        BY <1>1, <2>3
      <4> WITNESS n + 1 \in DOMAIN w
      <4> QED BY <3>2, <1>4, <2>2
    <3>3. i \in id + 1..id + n \/ i = id + n + 1
      BY <2>2, <1>1
    <3> QED BY <3>1, <3>2, <3>3
  <2>8. \A i, j \in DOMAIN w : w[i].id = w[j].id => i = j
    <3>1. \A i \in 1..n : w[i].id \in id + 1..id + n /\ i \in DOMAIN e /\ w[i] = e[i]
      BY <1>1, <2>2, <2>3
    <3>2. w[n + 1].id = id + n + 1
      BY <1>4, <2>2
    <3>3. \A i, j \in 1..n : w[i].id = w[j].id => i = j
      BY <1>1, <3>1
    <3>4. \A i \in 1..n : w[i].id # w[n + 1].id
      BY <1>1, <3>1, <3>2
    <3> QED BY <2>4, <3>3, <3>4
  <2> QED BY <2>2, <2>5, <2>6, <2>7, <2>8 DEF Numbered, w
<1>6. CASE a.from # a.to
  <2>1. w = e \o <<e2, e1>>
    BY <1>6 DEF With, EntriesOf, e1, e2, n
  <2>2. /\ w \in Seq(Entry) /\ Len(w) = n + 2 /\ w[n + 1] = e2 /\ w[n + 2] = e1
        /\ \A i \in 1..n : w[i] = e[i]
    BY <2>1, <1>1, <1>3 DEF n
  <2>3. DOMAIN e = 1..n /\ DOMAIN w = 1..n + 2
    BY <2>2, <1>1 DEF n
  <2> HIDE DEF w
  <2>4. \A i \in DOMAIN w : i \in 1..n \/ i = n + 1 \/ i = n + 2
    BY <2>3, <1>1
  <2>5. \A i \in DOMAIN w : w[i].block = b /\ w[i].height = h
    BY <1>1, <1>4, <2>2, <2>3, <2>4
  <2>6. \A i \in DOMAIN w : w[i].id \in id + 1..id + Len(w)
    <3>1. ASSUME NEW i \in 1..n PROVE w[i].id \in id + 1..id + n + 2
      <4>1. w[i] = e[i] /\ e[i].id \in id + 1..id + n
        BY <1>1, <2>2, <2>3
      <4>2. \A j \in id + 1..id + n : j \in id + 1..id + n + 2
        BY <1>1
      <4> QED BY <4>1, <4>2
    <3>2. w[n + 1].id = id + n + 2 /\ w[n + 2].id = id + n + 1
      BY <1>4, <2>2
    <3>3. id + n + 2 \in id + 1..id + n + 2 /\ id + n + 1 \in id + 1..id + n + 2 /\ id + (n + 2) = id + n + 2
      BY <1>1
    <3>4. Len(w) = n + 2
      BY <2>2
    <3>5. \A i \in DOMAIN w : w[i].id \in id + 1..id + n + 2
      BY <2>4, <3>1, <3>2, <3>3
    <3> QED BY <3>3, <3>4, <3>5
  <2>7. \A i \in id + 1..id + Len(w) : \E j \in DOMAIN w : w[j].id = i
    <3> SUFFICES ASSUME NEW i \in id + 1..id + Len(w) PROVE \E j \in DOMAIN w : w[j].id = i
      OBVIOUS
    <3>1. CASE i \in id + 1..id + n
      <4> PICK j \in DOMAIN e : e[j].id = i
        BY <3>1, <1>1
      <4>1. j \in 1..n /\ j \in DOMAIN w /\ w[j] = e[j]
        BY <1>1, <2>2, <2>3
      <4> QED BY <4>1
    <3>2. CASE i = id + n + 2
      <4>1. n + 1 \in DOMAIN w
        BY <1>1, <2>3
      <4> WITNESS n + 1 \in DOMAIN w
      <4> QED BY <3>2, <1>4, <2>2
    <3>3. CASE i = id + n + 1
      <4>1. n + 2 \in DOMAIN w
        BY <1>1, <2>3
      <4> WITNESS n + 2 \in DOMAIN w
      <4> QED BY <3>3, <1>4, <2>2
    <3>4. i \in id + 1..id + n \/ i = id + n + 1 \/ i = id + n + 2
      BY <2>2, <1>1
    <3> QED BY <3>1, <3>2, <3>3, <3>4
  <2>8. \A i, j \in DOMAIN w : w[i].id = w[j].id => i = j
    <3>1. \A i \in 1..n : w[i].id \in id + 1..id + n /\ i \in DOMAIN e /\ w[i] = e[i]
      BY <1>1, <2>2, <2>3
    <3>2. w[n + 1].id = id + n + 2 /\ w[n + 2].id = id + n + 1
      BY <1>4, <2>2
    <3>3. \A i, j \in 1..n : w[i].id = w[j].id => i = j
      BY <1>1, <3>1
    <3>4. \A i \in 1..n : w[i].id # w[n + 1].id /\ w[i].id # w[n + 2].id
      BY <1>1, <3>1, <3>2
    <3>5. w[n + 1].id # w[n + 2].id
      BY <1>1, <3>2
    <3> QED BY <2>4, <3>3, <3>4, <3>5
  <2> QED BY <2>2, <2>5, <2>6, <2>7, <2>8 DEF Numbered, w
<1> QED BY <1>5, <1>6

\* The recursive function behind a history exists.
LEMMA HistoriesExist ==
  ASSUME NEW acts, NEW id, NEW b, NEW h, NEW n \in Nat
  PROVE  \E done : Histories(acts, id, b, h, n, done)
<1> DEFINE P == {m \in Nat : \E done : Histories(acts, id, b, h, m, done)}
<1>1. 0 \in P
  <2> DEFINE done == [k \in 0..0 |-> <<>>]
  <2>1. Histories(acts, id, b, h, 0, done)
    BY DEF Histories
  <2> QED BY <2>1
<1>2. ASSUME NEW m \in P PROVE m + 1 \in P
  <2> PICK f : Histories(acts, id, b, h, m, f)
    OBVIOUS
  <2> DEFINE g == [k \in 0..m + 1 |-> IF k = m + 1 THEN With(acts, id, b, h, f[m], m + 1) ELSE f[k]]
             w == [k \in 0..m + 1 |-> IF k = 0 THEN <<>> ELSE With(acts, id, b, h, g[k - 1], k)]
  <2>1. ASSUME NEW k \in 0..m + 1 PROVE g[k] = w[k]
    <3>1. CASE k = m + 1
      <4>1. k # 0 /\ k - 1 = m /\ g[m] = f[m]
        BY <3>1
      <4>2. g[k] = With(acts, id, b, h, f[m], m + 1) /\ w[k] = With(acts, id, b, h, g[k - 1], k)
        BY <3>1, <4>1
      <4> HIDE DEF g, w
      <4> QED BY <4>1, <4>2, <3>1
    <3>2. CASE k \in 0..m
      <4>1. f[k] = IF k = 0 THEN <<>> ELSE With(acts, id, b, h, f[k - 1], k)
        BY <3>2 DEF Histories
      <4>2. g[k] = f[k] /\ (k # 0 => g[k - 1] = f[k - 1])
        BY <3>2
      <4>3. w[k] = IF k = 0 THEN <<>> ELSE With(acts, id, b, h, g[k - 1], k)
        OBVIOUS
      <4> HIDE DEF g, w
      <4> QED BY <4>1, <4>2, <4>3
    <3> QED BY <3>1, <3>2
  <2>2. g = w
    BY <2>1
  <2>3. Histories(acts, id, b, h, m + 1, g)
    BY <2>2 DEF Histories
  <2> QED BY <2>3
<1>3. P = Nat
  BY <1>1, <1>2, SetInduction
<1> QED BY <1>3

LEMMA HistoryIs ==
  ASSUME NEW acts, NEW id, NEW b, NEW h, Len(acts) \in Nat
  PROVE  \E done : /\ Histories(acts, id, b, h, Len(acts), done)
                   /\ History(acts, id, b, h) = done[Len(acts)]
<1> DEFINE d == CHOOSE done : Histories(acts, id, b, h, Len(acts), done)
<1>1. Histories(acts, id, b, h, Len(acts), d)
  BY HistoriesExist
<1>2. History(acts, id, b, h) = d[Len(acts)]
  BY DEF History, Histories, With
<1> QED BY <1>1, <1>2

\* The entries of a block are numbered from the id on, and no action has none.
LEMMA HistoryNumbered ==
  ASSUME NEW acts \in Seq(Actions), NEW id \in Nat, NEW b \in Nat, NEW h \in Nat
  PROVE  /\ Numbered(History(acts, id, b, h), id, b, h)
         /\ acts = <<>> => History(acts, id, b, h) = <<>>
<1> DEFINE n == Len(acts)
<1>0. n \in Nat
  OBVIOUS
<1> PICK done : /\ Histories(acts, id, b, h, n, done)
                /\ History(acts, id, b, h) = done[n]
  BY HistoryIs
<1>1. \A k \in 0..n : done[k] = IF k = 0 THEN <<>> ELSE With(acts, id, b, h, done[k - 1], k)
  BY DEF Histories
<1>2. done[0] = <<>>
  BY <1>0, <1>1
<1> DEFINE P == {k \in Nat : k <= n => Numbered(done[k], id, b, h)}
<1>3. 0 \in P
  <2>1. Numbered(<<>>, id, b, h)
    BY DEF Numbered
  <2> QED BY <1>2, <2>1
<1>4. ASSUME NEW k \in P PROVE k + 1 \in P
  <2>1. CASE k + 1 <= n
    <3>1. Numbered(done[k], id, b, h) /\ acts[k + 1] \in Actions
      BY <2>1, <1>0
    <3>2. done[k + 1] = With(acts, id, b, h, done[k], k + 1)
      BY <2>1, <1>0, <1>1
    <3>3. Numbered(done[k + 1], id, b, h)
      BY <3>1, <3>2, WithNumbered
    <3> QED BY <3>3
  <2> QED BY <2>1
<1>5. P = Nat
  BY <1>3, <1>4, SetInduction
<1>6. Numbered(done[n], id, b, h)
  BY <1>0, <1>5
<1> QED BY <1>2, <1>6

----------------------------------------------------------------------------
(* The types of the variables. *)

Event == [type : {"block"}, block : Nat, height : Nat]
         \cup [type : {"reorg"}, count : Nat, height : Nat]
         \cup [type : {"history"}, row : Entry]

Savepoint == [lastId : Nat, remove : SUBSET Entry]

SType ==
  /\ ipc \in {"idle", "hand", "stopped", "join", "exit", "panic"}
  /\ chain \in Seq(Nat) /\ rows \in SUBSET Entry /\ lastId \in Nat
  /\ savepoints \in Seq(Savepoint) /\ Len(savepoints) <= Len(chain)
  /\ hand \in Seq(Entry) /\ handled \in Nat
  /\ queue \in Seq(Seq(Entry)) /\ log \in Seq(Event)
  /\ spc \in {"collect", "check", "publish", "done"} /\ batch \in Seq(Entry)
  /\ subscribed \in BOOLEAN
  /\ from \in Nat /\ pos \in Nat /\ got \in Seq(Nat)
  /\ cancelled \in BOOLEAN /\ starts \in Nat /\ base \in Nat

LEMMA EventTypes ==
  /\ \A b, h \in Nat : NewBlock(b, h) \in Event
  /\ \A n, h \in Nat : Reorg(n, h) \in Event
  /\ \A r \in Entry : NewHistory(r) \in Event
BY DEF NewBlock, Reorg, NewHistory, Event

LEMMA IdAfterType ==
  ASSUME SType, NEW n \in 0..Len(savepoints)
  PROVE  /\ IdAfter(n) \in Nat
         /\ IdAfter(n) = IF n = 0 THEN lastId ELSE savepoints[Len(savepoints) - n + 1].lastId
<1>0. savepoints \in Seq(Savepoint) /\ lastId \in Nat /\ Len(savepoints) \in Nat
  BY DEF SType
<1>1. CASE n = 0
  BY <1>0, <1>1 DEF IdAfter
<1>2. CASE n # 0
  <2>1. Undone(n)[1] = savepoints[Len(savepoints) - n + 1]
    BY <1>0, <1>2 DEF Undone
  <2>2. savepoints[Len(savepoints) - n + 1] \in Savepoint
    BY <1>0, <1>2
  <2> QED BY <1>2, <2>1, <2>2 DEF IdAfter, Savepoint
<1> QED BY <1>1, <1>2

LEMMA KeptType ==
  ASSUME SType, NEW n \in 0..Len(savepoints)
  PROVE  /\ Kept(n) \in Seq(Savepoint) /\ Len(Kept(n)) = Len(savepoints) - n
         /\ \A i \in 1..Len(savepoints) - n : Kept(n)[i] = savepoints[i]
  BY DEF SType, Kept

LEMMA RoomType ==
  ASSUME NEW saved \in Seq(Savepoint)
  PROVE  LET d == IF Len(saved) = MaxLen THEN 1 ELSE 0
         IN  /\ Room(saved) \in Seq(Savepoint) /\ Len(Room(saved)) = Len(saved) - d
             /\ \A i \in 1..Len(saved) - d : Room(saved)[i] = saved[i + d]
<1>1. CASE Len(saved) = MaxLen
  <2>1. saved # <<>>
    BY <1>1
  <2> QED BY <1>1, <2>1 DEF Room
<1>2. CASE Len(saved) # MaxLen
  BY <1>2 DEF Room
<1> QED BY <1>1, <1>2

\* What a block does: n blocks are undone, and the entries are those of block b at
\* height h; the savepoints of the others are kept with its own, or there are none.
HandleAs(n, b, h, entries) ==
  /\ b = handled + 1 /\ h = Len(chain) - n + 1 /\ b \in Nat /\ h \in Nat
  /\ Numbered(entries, IdAfter(n), b, h)
  /\ h < StartHeight => entries = <<>>
  /\ rows' = RowsAfter(n) \cup Range(entries)
  /\ lastId' = IdAfter(n) + Len(entries)
  /\ \/ savepoints' = Append(Room(Kept(n)), [lastId |-> IdAfter(n), remove |-> Range(entries)])
     \/ savepoints' = <<>>
  /\ chain' = Append(SubSeq(chain, 1, Len(chain) - n), b)
  /\ log' = log \o ReorgEvent(n, h) \o BlockEvent(b, h)
  /\ hand' = entries
  /\ handled' = b

LEMMA HandleView ==
  ASSUME SType, Handle
  PROVE  \E n \in 0..Len(savepoints), b \in Nat, h \in Nat, entries \in Seq(Entry) :
           HandleAs(n, b, h, entries)
<1>0. handled \in Nat /\ Len(chain) \in Nat /\ Len(savepoints) \in Nat /\ Len(savepoints) <= Len(chain)
  BY DEF SType
<1> PICK n \in 0..Len(savepoints), tracked \in BOOLEAN :
       \E acts \in IF Len(chain) - n + 1 < StartHeight THEN {<<>>} ELSE SeqOf(Actions, MaxActions) :
         LET entries == History(acts, IdAfter(n), handled + 1, Len(chain) - n + 1)
         IN  /\ rows' = RowsAfter(n) \cup Range(entries)
             /\ lastId' = IdAfter(n) + Len(entries)
             /\ savepoints' = Saved(tracked, Kept(n), [lastId |-> KeptId(IdAfter(n), entries),
                                                       remove |-> Range(entries)])
             /\ chain' = Append(SubSeq(chain, 1, Len(chain) - n), handled + 1)
             /\ log' = log \o ReorgEvent(n, Len(chain) - n + 1)
                           \o BlockEvent(handled + 1, Len(chain) - n + 1)
             /\ hand' = entries
             /\ handled' = handled + 1
  BY DEF Handle
<1> DEFINE b == handled + 1
           h == Len(chain) - n + 1
<1> PICK acts \in IF h < StartHeight THEN {<<>>} ELSE SeqOf(Actions, MaxActions) :
         LET entries == History(acts, IdAfter(n), b, h)
         IN  /\ rows' = RowsAfter(n) \cup Range(entries)
             /\ lastId' = IdAfter(n) + Len(entries)
             /\ savepoints' = Saved(tracked, Kept(n), [lastId |-> KeptId(IdAfter(n), entries),
                                                       remove |-> Range(entries)])
             /\ chain' = Append(SubSeq(chain, 1, Len(chain) - n), b)
             /\ log' = log \o ReorgEvent(n, h) \o BlockEvent(b, h)
             /\ hand' = entries
             /\ handled' = b
  OBVIOUS
<1> DEFINE entries == History(acts, IdAfter(n), b, h)
<1>1. b \in Nat /\ h \in Nat /\ IdAfter(n) \in Nat
  BY <1>0, IdAfterType
<1>2. acts \in Seq(Actions) /\ (h < StartHeight => acts = <<>>)
  <2>1. CASE h < StartHeight
    BY <2>1
  <2>2. CASE ~(h < StartHeight)
    <3>1. PICK m \in 0..MaxActions : acts \in [1..m -> Actions]
      BY <2>2 DEF SeqOf
    <3> QED BY <2>2, <3>1
  <2> QED BY <2>1, <2>2
<1>3. Numbered(entries, IdAfter(n), b, h) /\ (h < StartHeight => entries = <<>>)
  BY <1>1, <1>2, HistoryNumbered
<1>4. entries \in Seq(Entry)
  BY <1>3 DEF Numbered
<1>5. HandleAs(n, b, h, entries)
  BY <1>1, <1>3 DEF HandleAs, KeptId, Saved
<1> QED BY <1>1, <1>4, <1>5

LEMMA RangeIn ==
  ASSUME NEW S, NEW s \in Seq(S)
  PROVE  /\ Range(s) \subseteq S
         /\ \A x : x \in Range(s) <=> \E i \in DOMAIN s : s[i] = x
BY DEF Range

LEMMA EventSeqs ==
  ASSUME NEW n \in Nat, NEW b \in Nat, NEW h \in Nat
  PROVE  ReorgEvent(n, h) \in Seq(Event) /\ BlockEvent(b, h) \in Seq(Event)
BY EventTypes DEF ReorgEvent, BlockEvent

LEMMA NoneTyped ==
  /\ <<>> \in Seq(Nat) /\ <<>> \in Seq(Entry) /\ <<>> \in Seq(Event)
  /\ <<>> \in Seq(Savepoint) /\ <<>> \in Seq(Seq(Entry))
OBVIOUS

LEMMA STypeInit ==
  Init => SType
<1> SUFFICES ASSUME Init PROVE SType
  OBVIOUS
<1>1. Len(savepoints) = 0 /\ Len(chain) = 0
  BY DEF Init
<1>2. /\ ipc = "idle" /\ spc = "collect" /\ rows \in SUBSET Entry
      /\ lastId \in Nat /\ handled \in Nat /\ from \in Nat /\ pos \in Nat
      /\ starts \in Nat /\ base \in Nat
      /\ subscribed \in BOOLEAN /\ cancelled \in BOOLEAN
  BY DEF Init
<1>3. /\ chain \in Seq(Nat) /\ savepoints \in Seq(Savepoint) /\ hand \in Seq(Entry)
      /\ queue \in Seq(Seq(Entry)) /\ log \in Seq(Event) /\ batch \in Seq(Entry) /\ got \in Seq(Nat)
  BY NoneTyped DEF Init
<1> QED BY <1>1, <1>2, <1>3 DEF SType

LEMMA STypeHandle ==
  ASSUME SType, Handle
  PROVE  SType'
<1> PICK n \in 0..Len(savepoints), b \in Nat, h \in Nat, entries \in Seq(Entry) :
       HandleAs(n, b, h, entries)
  BY HandleView
<1>0. /\ chain \in Seq(Nat) /\ rows \in SUBSET Entry /\ lastId \in Nat
      /\ savepoints \in Seq(Savepoint) /\ Len(savepoints) <= Len(chain)
      /\ log \in Seq(Event) /\ handled \in Nat
  BY DEF SType
<1>1. IdAfter(n) \in Nat /\ n \in Nat
  BY IdAfterType
<1>2. rows' \in SUBSET Entry
  BY <1>0, RangeIn DEF HandleAs, RowsAfter
<1>3. lastId' \in Nat
  BY <1>1 DEF HandleAs
<1>4. savepoints' \in Seq(Savepoint) /\ Len(savepoints') <= Len(savepoints) - n + 1
  <2>1. [lastId |-> IdAfter(n), remove |-> Range(entries)] \in Savepoint
    BY <1>1, RangeIn DEF Savepoint
  <2>2. Room(Kept(n)) \in Seq(Savepoint) /\ Len(Room(Kept(n))) <= Len(savepoints) - n
    BY <1>0, KeptType, RoomType
  <2>3. CASE savepoints' = Append(Room(Kept(n)), [lastId |-> IdAfter(n), remove |-> Range(entries)])
    BY <2>1, <2>2, <2>3, <1>0
  <2>4. CASE savepoints' = <<>>
    <3>1. savepoints' \in Seq(Savepoint) /\ Len(savepoints') = 0
      BY <2>4, NoneTyped
    <3> QED BY <1>0, <3>1
  <2> QED BY <2>3, <2>4 DEF HandleAs
<1>5. chain' \in Seq(Nat) /\ Len(chain') = Len(chain) - n + 1
  <2> DEFINE c == SubSeq(chain, 1, Len(chain) - n)
  <2>1. c \in Seq(Nat) /\ Len(c) = Len(chain) - n
    BY <1>0, <1>1
  <2>2. chain' = Append(c, b)
    BY DEF HandleAs
  <2> QED BY <2>1, <2>2
<1>6. log' \in Seq(Event)
  BY <1>0, <1>1, EventSeqs DEF HandleAs
<1>7. hand' = entries /\ handled' = b
  BY DEF HandleAs
<1>8. Len(savepoints') <= Len(chain')
  BY <1>0, <1>4, <1>5
<1>9. ipc' = "hand" /\ UNCHANGED <<queue, senderVars, clientVars, processVars>>
  BY DEF Handle
<1> QED BY <1>2, <1>3, <1>4, <1>5, <1>6, <1>7, <1>8, <1>9
        DEF SType, senderVars, clientVars, processVars

LEMMA STypeIndexer ==
  ASSUME SType, HandOver \/ Stop \/ Signal \/ CancelToken \/ Exit \/ Restart
  PROVE  SType'
<1>1. CASE HandOver
  <2>1. Append(queue, hand) \in Seq(Seq(Entry))
    BY DEF SType
  <2>2. CASE spc # "done"
    BY <1>1, <2>1, <2>2, NoneTyped DEF SType, HandOver, senderVars, clientVars, processVars
  <2>3. CASE spc = "done"
    BY <1>1, <2>3, NoneTyped DEF SType, HandOver, senderVars, clientVars, processVars
  <2> QED BY <2>2, <2>3
<1>2. CASE Stop
  <2>1. Len(savepoints) \in 0..Len(savepoints) /\ IdAfter(Len(savepoints)) \in Nat
    BY IdAfterType DEF SType
  <2>2. RowsAfter(Len(savepoints)) \in SUBSET Entry
    BY DEF SType, RowsAfter
  <2>3. SubSeq(chain, 1, Len(chain) - Len(savepoints)) \in Seq(Nat)
    <3>1. chain \in Seq(Nat) /\ Len(savepoints) \in Nat /\ Len(savepoints) <= Len(chain)
      BY DEF SType
    <3> QED BY <3>1
  <2>4. /\ savepoints' = <<>> /\ Len(savepoints') = 0
        /\ chain' \in Seq(Nat) /\ rows' \in SUBSET Entry /\ lastId' \in Nat
    BY <1>2, <2>1, <2>2, <2>3 DEF Stop
  <2>5. ipc' = "stopped" /\ UNCHANGED <<hand, handled, queue, log, senderVars, clientVars, processVars>>
    BY <1>2 DEF Stop
  <2> QED BY <2>4, <2>5 DEF SType, senderVars, clientVars, processVars
<1>3. CASE Signal
  BY <1>3 DEF SType, Signal, indexerVars, senderVars, clientVars
<1>4. CASE CancelToken
  BY <1>4 DEF SType, CancelToken, senderVars, clientVars
<1>5. CASE Exit
  BY <1>5, NoneTyped DEF SType, Exit, Gone, senderVars, processVars
<1>6. CASE Restart
  <2>1. /\ queue' \in Seq(Seq(Entry)) /\ log' \in Seq(Event) /\ batch' \in Seq(Entry)
    BY <1>6, NoneTyped DEF Restart
  <2>2. starts \in Nat /\ Len(chain) \in Nat
    BY DEF SType
  <2>3. starts' \in Nat /\ base' \in Nat
    BY <1>6, <2>2 DEF Restart
  <2>4. /\ ipc' = "idle" /\ spc' = "collect" /\ cancelled' \in BOOLEAN
        /\ UNCHANGED <<chain, rows, lastId, savepoints, hand, handled, clientVars>>
    BY <1>6 DEF Restart
  <2> QED BY <2>1, <2>3, <2>4 DEF SType, clientVars
<1> QED BY <1>1, <1>2, <1>3, <1>4, <1>5, <1>6

LEMMA STypeSender ==
  ASSUME SType, Sender
  PROVE  SType'
<1> USE DEF SenderOnly, indexerVars, clientVars, processVars
<1>1. CASE Receive
  <2>1. Head(queue) \in Seq(Entry) /\ Tail(queue) \in Seq(Seq(Entry))
    BY <1>1 DEF SType, Receive
  <2> QED BY <1>1, <2>1 DEF SType, Receive, Collected
<1>2. CASE Empty
  BY <1>2 DEF SType, Empty
<1>3. CASE Check
  BY <1>3 DEF SType, Check
<1>4. CASE Publish
  <2>1. CASE batch = <<>>
    BY <1>4, <2>1 DEF SType, Publish
  <2>2. CASE batch # <<>>
    <3>1. NewHistory(Head(batch)) \in Event /\ Tail(batch) \in Seq(Entry)
      BY <2>2, EventTypes DEF SType
    <3>2. Append(log, NewHistory(Head(batch))) \in Seq(Event)
      BY <3>1 DEF SType
    <3>3. log' \in Seq(Event) /\ batch' \in Seq(Entry)
      BY <1>4, <2>2, <3>1, <3>2 DEF Publish
    <3>4. UNCHANGED <<spc, queue, indexerVars, clientVars, processVars>>
      BY <1>4, <2>2 DEF Publish
    <3> QED BY <3>3, <3>4 DEF SType
  <2> QED BY <2>1, <2>2
<1> QED BY <1>1, <1>2, <1>3, <1>4 DEF Sender

LEMMA STypeClient ==
  ASSUME SType, Client
  PROVE  SType'
<1> USE DEF ClientOnly, indexerVars, senderVars, processVars
<1>1. CASE Subscribe
  BY <1>1 DEF SType, Subscribe
<1>2. CASE Take
  BY <1>2 DEF SType, Take
<1>3. CASE Lagged
  BY <1>3, NoneTyped DEF SType, Lagged, Overtaken, Gone
<1>4. CASE Leave
  BY <1>4, NoneTyped DEF SType, Leave, Gone
<1> QED BY <1>1, <1>2, <1>3, <1>4 DEF Client

LEMMA STypeNext ==
  SType /\ [Next]_vars => SType'
<1> SUFFICES ASSUME SType, [Next]_vars PROVE SType'
  OBVIOUS
<1>1. CASE Terminated \/ UNCHANGED vars
  BY <1>1 DEF SType, Terminated, vars, indexerVars, senderVars, clientVars, processVars
<1> QED BY <1>1, STypeHandle, STypeIndexer, STypeSender, STypeClient DEF Next

----------------------------------------------------------------------------
(* The two threads. *)

Threads ==
  /\ spc = "done" => cancelled
  /\ ipc # "panic"
  /\ ipc # "hand" => hand = <<>>
  /\ ~subscribed => from = 0 /\ pos = 0 /\ got = <<>>
  /\ ipc = "exit" => ~subscribed
  /\ ipc \in {"stopped", "join", "exit"} => savepoints = <<>>

LEMMA ThreadsNext ==
  Threads /\ [Next]_vars => Threads'
<1> SUFFICES ASSUME Threads, [Next]_vars PROVE Threads'
  OBVIOUS
<1> USE DEF Threads, indexerVars, senderVars, clientVars, processVars
<1>1. CASE Handle
  BY <1>1 DEF Handle
<1>2. CASE HandOver
  BY <1>2 DEF HandOver
<1>3. CASE Stop
  BY <1>3 DEF Stop
<1>4. CASE Signal \/ CancelToken
  BY <1>4 DEF Signal, CancelToken
<1>5. CASE Exit \/ Restart
  BY <1>5 DEF Exit, Restart, Gone
<1>6. CASE Sender
  BY <1>6 DEF Sender, Receive, Empty, Check, Publish, SenderOnly, Finished
<1>7. CASE Client
  BY <1>7 DEF Client, Subscribe, Take, Lagged, Overtaken, Leave, Gone, ClientOnly
<1>8. CASE Terminated \/ UNCHANGED vars
  BY <1>8 DEF Terminated, vars
<1> QED BY <1>1, <1>2, <1>3, <1>4, <1>5, <1>6, <1>7, <1>8 DEF Next

\* InscriptionIndexer::handle (src/inscriptions/indexer.rs) never panics with "Failed
\* to send raw event": the event sender thread leaves its loop after the token only, and
\* what it leaves behind is a process that is being stopped.
THEOREM SendsNeverPanic == Spec => []NoSendPanic
<1>1. Init => Threads
  BY DEF Init, Threads
<1>2. Threads => NoSendPanic
  BY DEF Threads, NoSendPanic
<1> QED BY <1>1, <1>2, ThreadsNext, PTL DEF Spec

----------------------------------------------------------------------------
(* The log. *)

\* A log that has grown, by events that are no history entries.
Grown(old, new) ==
  /\ Len(old) <= Len(new)
  /\ \A i \in 1..Len(old) : new[i] = old[i]
  /\ \A i \in Len(old) + 1..Len(new) : new[i].type # "history"

LEMMA GrownAppend ==
  ASSUME NEW old \in Seq(Event), NEW e \in Event, e.type # "history"
  PROVE  /\ Grown(old, Append(old, e)) /\ Append(old, e) \in Seq(Event)
         /\ Len(Append(old, e)) = Len(old) + 1 /\ Append(old, e)[Len(old) + 1] = e
BY DEF Grown

LEMMA GrownTwice ==
  ASSUME NEW a \in Seq(Event), NEW b \in Seq(Event), NEW c \in Seq(Event),
         Grown(a, b), Grown(b, c)
  PROVE  Grown(a, c)
<1>0. Len(a) \in Nat /\ Len(b) \in Nat /\ Len(c) \in Nat /\ Len(a) <= Len(b) /\ Len(b) <= Len(c)
  BY DEF Grown
<1>1. ASSUME NEW i \in 1..Len(b) PROVE c[i] = b[i]
  BY DEF Grown
<1>2. ASSUME NEW i \in 1..Len(a) PROVE c[i] = a[i]
  <2>1. i \in 1..Len(b)
    BY <1>0
  <2> QED BY <1>1, <2>1 DEF Grown
<1>3. ASSUME NEW i \in Len(a) + 1..Len(c) PROVE c[i].type # "history"
  <2>1. CASE i <= Len(b)
    <3>1. i \in Len(a) + 1..Len(b) /\ i \in 1..Len(b)
      BY <1>0, <2>1
    <3> QED BY <1>1, <3>1 DEF Grown
  <2>2. CASE i > Len(b)
    <3>1. i \in Len(b) + 1..Len(c)
      BY <1>0, <2>2
    <3> QED BY <3>1 DEF Grown
  <2> QED BY <1>0, <2>1, <2>2
<1> QED BY <1>0, <1>2, <1>3 DEF Grown

\* A block appends at most two events: the reorg and the block.
Told1(n, h) == IF n = 0 THEN log ELSE Append(log, Reorg(n, h))
Told2(n, b, h) == IF h >= StartHeight THEN Append(Told1(n, h), NewBlock(b, h)) ELSE Told1(n, h)

LEMMA HandleLog ==
  ASSUME SType, NEW n \in Nat, NEW b \in Nat, NEW h \in Nat, NEW entries, HandleAs(n, b, h, entries)
  PROVE  /\ log' = Told2(n, b, h) /\ Told1(n, h) \in Seq(Event) /\ log' \in Seq(Event)
         /\ Grown(log, log')
         /\ h >= StartHeight => \E j \in 1..Len(log') : log'[j] = NewBlock(b, h)
<1>0. log \in Seq(Event) /\ Grown(log, log)
  BY DEF SType, Grown
<1>1. /\ Reorg(n, h) \in Event /\ Reorg(n, h).type # "history"
      /\ NewBlock(b, h) \in Event /\ NewBlock(b, h).type # "history"
  BY EventTypes DEF Reorg, NewBlock
<1> DEFINE t1 == Told1(n, h)
<1>2. /\ log \o ReorgEvent(n, h) = t1 /\ t1 \in Seq(Event) /\ Grown(log, t1)
  <2>1. CASE n = 0
    BY <1>0, <2>1 DEF ReorgEvent, Told1
  <2>2. CASE n # 0
    BY <1>0, <1>1, <2>2, GrownAppend DEF ReorgEvent, Told1
  <2> QED BY <2>1, <2>2
<1> HIDE DEF t1
<1>3. log' = t1 \o BlockEvent(b, h)
  BY <1>2 DEF HandleAs
<1>4. CASE h >= StartHeight
  <2>1. log' = Append(t1, NewBlock(b, h))
    BY <1>2, <1>3, <1>4 DEF BlockEvent
  <2>2. Grown(t1, log') /\ log' \in Seq(Event) /\ Len(log') = Len(t1) + 1
        /\ log'[Len(t1) + 1] = NewBlock(b, h)
    BY <1>1, <1>2, <2>1, GrownAppend
  <2>3. Len(t1) + 1 \in 1..Len(log')
    BY <1>2, <2>2
  <2>4. Grown(log, log')
    BY <1>0, <1>2, <2>2, GrownTwice
  <2> QED BY <1>2, <1>4, <2>1, <2>2, <2>3, <2>4 DEF Told2, t1
<1>5. CASE ~(h >= StartHeight)
  <2>1. log' = t1
    BY <1>2, <1>3, <1>5 DEF BlockEvent
  <2> QED BY <1>2, <1>5, <2>1 DEF Told2, t1
<1> QED BY <1>4, <1>5

\* What the other steps do to the log.
LEMMA PublishLog ==
  ASSUME SType, Publish, batch # <<>>
  PROVE  /\ log' = Append(log, NewHistory(Head(batch)))
         /\ Len(log') = Len(log) + 1 /\ log'[Len(log) + 1] = NewHistory(Head(batch))
         /\ \A i \in 1..Len(log) : log'[i] = log[i]
<1>1. log \in Seq(Event) /\ log' = Append(log, NewHistory(Head(batch)))
  BY DEF SType, Publish
<1>2. NewHistory(Head(batch)) \in Event
  <2>1. Head(batch) \in Entry
    BY DEF SType
  <2> QED BY <2>1, EventTypes
<1> QED BY <1>1, <1>2

----------------------------------------------------------------------------
(* The history of a block follows the block. *)

Announced(r) == \E j \in 1..Len(log) : log[j] = NewBlock(r.block, r.height)

AllAnnounced(s) == \A i \in 1..Len(s) : Announced(s[i])

Following ==
  /\ HistoryFollowsBlock
  /\ AllAnnounced(hand)
  /\ AllAnnounced(batch)
  /\ \A q \in 1..Len(queue) : AllAnnounced(queue[q])

LEMMA StillAnnounced ==
  ASSUME NEW r, Announced(r), Len(log) \in Nat, Len(log') \in Nat, Len(log) <= Len(log'),
         \A i \in 1..Len(log) : log'[i] = log[i]
  PROVE  Announced(r)'
BY DEF Announced

LEMMA FollowingSame ==
  ASSUME Following, UNCHANGED <<log, hand, batch, queue>>
  PROVE  Following'
BY DEF Following, HistoryFollowsBlock, AllAnnounced, Announced

LEMMA FollowingHandle ==
  ASSUME SType, Threads, Following, Handle
  PROVE  Following'
<1> PICK n \in 0..Len(savepoints), b \in Nat, h \in Nat, entries \in Seq(Entry) :
       HandleAs(n, b, h, entries)
  BY HandleView
<1>1. /\ Grown(log, log') /\ log \in Seq(Event) /\ log' \in Seq(Event)
      /\ h >= StartHeight => \E j \in 1..Len(log') : log'[j] = NewBlock(b, h)
  BY HandleLog DEF SType
<1>2. Len(log) \in Nat /\ Len(log') \in Nat /\ Len(log) <= Len(log')
      /\ \A i \in 1..Len(log) : log'[i] = log[i]
  BY <1>1 DEF Grown
<1>3. HistoryFollowsBlock'
  <2> SUFFICES ASSUME NEW i \in DOMAIN log', log'[i].type = "history"
               PROVE  \E j \in 1..i - 1 : log'[j] = NewBlock(log'[i].row.block, log'[i].row.height)
    BY DEF HistoryFollowsBlock
  <2>1. i \in DOMAIN log /\ log'[i] = log[i]
    BY <1>1, SMTT(30) DEF Grown
  <2>2. PICK j \in 1..i - 1 : log[j] = NewBlock(log[i].row.block, log[i].row.height)
    BY <2>1 DEF Following, HistoryFollowsBlock
  <2>3. j \in 1..Len(log)
    BY <1>1, <2>1
  <2> QED BY <1>2, <2>1, <2>2, <2>3
<1>4. AllAnnounced(hand)'
  <2> SUFFICES ASSUME NEW i \in 1..Len(hand')
               PROVE  \E j \in 1..Len(log') : log'[j] = NewBlock(hand'[i].block, hand'[i].height)
    BY DEF AllAnnounced, Announced
  <2>1. hand' = entries /\ Numbered(entries, IdAfter(n), b, h) /\ (h < StartHeight => entries = <<>>)
    BY DEF HandleAs
  <2>2. entries[i].block = b /\ entries[i].height = h /\ entries # <<>>
    BY <2>1 DEF Numbered
  <2>3. h >= StartHeight
    BY <2>1, <2>2
  <2> QED BY <1>1, <2>1, <2>2, <2>3
<1>5. UNCHANGED <<batch, queue>>
  BY DEF Handle, senderVars
<1>6. AllAnnounced(batch)'
  BY <1>2, <1>5, StillAnnounced DEF Following, AllAnnounced
<1>7. (\A q \in 1..Len(queue) : AllAnnounced(queue[q]))'
  BY <1>2, <1>5, StillAnnounced DEF Following, AllAnnounced
<1> QED BY <1>3, <1>4, <1>6, <1>7 DEF Following

LEMMA FollowingHandOver ==
  ASSUME SType, Following, HandOver
  PROVE  Following'
<1>1. log' = log /\ batch' = batch /\ hand' = <<>>
  BY DEF HandOver, senderVars
<1>2. AllAnnounced(<<>>)
  BY DEF AllAnnounced
<1>3. \A q \in 1..Len(queue') : queue'[q] = hand \/ \E p \in 1..Len(queue) : queue'[q] = queue[p]
  <2>1. CASE spc # "done"
    <3>1. queue' = Append(queue, hand) /\ queue \in Seq(Seq(Entry))
      BY <2>1 DEF HandOver, SType
    <3> QED BY <3>1
  <2>2. CASE spc = "done"
    BY <2>2 DEF HandOver, SType
  <2> QED BY <2>1, <2>2
<1>4. \A q \in 1..Len(queue') : AllAnnounced(queue'[q])
  BY <1>3 DEF Following
<1> QED BY <1>1, <1>2, <1>4 DEF Following, HistoryFollowsBlock, AllAnnounced, Announced

LEMMA FollowingSender ==
  ASSUME SType, Following, Sender
  PROVE  Following'
<1>1. CASE Receive
  <2>1. /\ queue # <<>> /\ queue \in Seq(Seq(Entry)) /\ batch \in Seq(Entry)
        /\ batch' = batch \o Head(queue) /\ queue' = Tail(queue) /\ log' = log /\ hand' = hand
    BY <1>1 DEF Receive, SType, Collected, SenderOnly, indexerVars
  <2>2. Head(queue) = queue[1] /\ 1 \in 1..Len(queue) /\ Head(queue) \in Seq(Entry)
    BY <2>1
  <2>3. AllAnnounced(batch \o Head(queue))
    <3>1. AllAnnounced(batch) /\ AllAnnounced(Head(queue))
      BY <2>2 DEF Following
    <3> DEFINE c == Head(queue)
    <3>2. \A i \in 1..Len(batch \o c) :
            (\E j \in 1..Len(batch) : (batch \o c)[i] = batch[j])
            \/ (\E j \in 1..Len(c) : (batch \o c)[i] = c[j])
      <4> SUFFICES ASSUME NEW i \in 1..Len(batch \o c)
                   PROVE  (\E j \in 1..Len(batch) : (batch \o c)[i] = batch[j])
                          \/ (\E j \in 1..Len(c) : (batch \o c)[i] = c[j])
        OBVIOUS
      <4>1. Len(batch) \in Nat /\ Len(c) \in Nat /\ Len(batch \o c) = Len(batch) + Len(c)
        BY <2>1, <2>2
      <4>2. CASE i <= Len(batch)
        BY <2>1, <2>2, <4>1, <4>2
      <4>3. CASE i > Len(batch)
        <5>1. i - Len(batch) \in 1..Len(c) /\ (batch \o c)[i] = c[i - Len(batch)]
          BY <2>1, <2>2, <4>1, <4>3
        <5> QED BY <5>1
      <4> QED BY <4>1, <4>2, <4>3
    <3> QED BY <3>1, <3>2 DEF AllAnnounced
  <2>4. \A q \in 1..Len(Tail(queue)) : q + 1 \in 1..Len(queue) /\ Tail(queue)[q] = queue[q + 1]
    BY <2>1
  <2>5. \A q \in 1..Len(Tail(queue)) : AllAnnounced(Tail(queue)[q])
    BY <2>4 DEF Following
  <2> QED BY <2>1, <2>3, <2>5 DEF Following, HistoryFollowsBlock, AllAnnounced, Announced
<1>2. CASE Empty \/ Check
  <2>1. UNCHANGED <<log, hand, batch, queue>>
    BY <1>2 DEF Empty, Check, SenderOnly, indexerVars
  <2> QED BY <2>1, FollowingSame
<1>3. CASE Publish /\ batch = <<>>
  <2>1. UNCHANGED <<log, hand, batch, queue>>
    BY <1>3 DEF Publish, SenderOnly, indexerVars
  <2> QED BY <2>1, FollowingSame
<1>4. CASE Publish /\ batch # <<>>
  <2> DEFINE r == Head(batch)
  <2>0. log \in Seq(Event) /\ batch \in Seq(Entry) /\ Len(log) \in Nat
    BY DEF SType
  <2>1. /\ Len(log') = Len(log) + 1 /\ log'[Len(log) + 1] = NewHistory(r)
        /\ \A i \in 1..Len(log) : log'[i] = log[i]
        /\ log' = Append(log, NewHistory(r))
    BY <1>4, PublishLog
  <2>2. UNCHANGED <<hand, queue>> /\ batch' = Tail(batch)
    BY <1>4 DEF Publish, SenderOnly, indexerVars
  <2>3. r = batch[1] /\ 1 \in 1..Len(batch)
    BY <1>4, <2>0
  <2>4. Announced(r)
    BY <2>3 DEF Following, AllAnnounced
  <2>5. \A x : Announced(x) => Announced(x)'
    BY <2>0, <2>1, StillAnnounced
  <2>6. HistoryFollowsBlock'
    <3> SUFFICES ASSUME NEW i \in DOMAIN log', log'[i].type = "history"
                 PROVE  \E j \in 1..i - 1 : log'[j] = NewBlock(log'[i].row.block, log'[i].row.height)
      BY DEF HistoryFollowsBlock
    <3>0. DOMAIN log' = 1..Len(log) + 1 /\ DOMAIN log = 1..Len(log)
      BY <2>0, <2>1
    <3>1. CASE i \in 1..Len(log)
      <4>1. PICK j \in 1..i - 1 : log[j] = NewBlock(log[i].row.block, log[i].row.height)
        BY <2>1, <3>0, <3>1 DEF Following, HistoryFollowsBlock
      <4>2. j \in 1..Len(log)
        BY <3>1
      <4> QED BY <2>1, <3>1, <4>1, <4>2
    <3>2. CASE i = Len(log) + 1
      <4>1. log'[i].row = r
        BY <2>1, <3>2 DEF NewHistory
      <4>2. PICK j \in 1..Len(log) : log[j] = NewBlock(r.block, r.height)
        BY <2>4 DEF Announced
      <4>3. j \in 1..i - 1
        BY <2>0, <3>2
      <4> QED BY <2>1, <4>1, <4>2, <4>3
    <3> QED BY <2>0, <3>0, <3>1, <3>2
  <2>7. \A i \in 1..Len(Tail(batch)) : i + 1 \in 1..Len(batch) /\ Tail(batch)[i] = batch[i + 1]
    BY <1>4, <2>0
  <2>8. AllAnnounced(hand)'
    BY <2>2, <2>5 DEF Following, AllAnnounced
  <2>9. AllAnnounced(batch)'
    BY <2>2, <2>5, <2>7 DEF Following, AllAnnounced
  <2>10. (\A q \in 1..Len(queue) : AllAnnounced(queue[q]))'
    BY <2>2, <2>5 DEF Following, AllAnnounced
  <2> QED BY <2>6, <2>8, <2>9, <2>10 DEF Following
<1> QED BY <1>1, <1>2, <1>3, <1>4 DEF Sender

LEMMA FollowingNext ==
  SType /\ Threads /\ Following /\ [Next]_vars => Following'
<1> SUFFICES ASSUME SType, Threads, Following, [Next]_vars PROVE Following'
  OBVIOUS
<1>1. CASE Stop \/ Signal \/ CancelToken \/ Exit \/ Terminated \/ UNCHANGED vars
  <2>1. UNCHANGED <<log, hand, batch, queue>>
    BY <1>1 DEF Stop, Signal, CancelToken, Exit, Terminated, vars, indexerVars, senderVars
  <2> QED BY <2>1, FollowingSame
<1>2. CASE Client
  <2>1. UNCHANGED <<log, hand, batch, queue>>
    BY <1>2 DEF Client, Subscribe, Take, Lagged, Leave, ClientOnly, indexerVars, senderVars
  <2> QED BY <2>1, FollowingSame
<1>3. CASE Restart
  <2>1. log' = <<>> /\ hand' = <<>> /\ batch' = <<>> /\ queue' = <<>>
    BY <1>3 DEF Restart, Threads
  <2>2. Len(log') = 0 /\ Len(hand') = 0 /\ Len(batch') = 0 /\ Len(queue') = 0 /\ DOMAIN log' = {}
    BY <2>1
  <2> QED BY <2>2 DEF Following, HistoryFollowsBlock, AllAnnounced
<1> QED BY <1>1, <1>2, <1>3, FollowingHandle, FollowingHandOver, FollowingSender DEF Next

\* A history entry (src/server/threads/event_sender.rs) is broadcast after the NewBlock
\* of its block (src/inscriptions/indexer.rs): the indexer sends the one before it hands
\* over the other, and whatever waits in the queue or in the batch is already announced.
THEOREM HistoryAfterBlock == Spec => []HistoryFollowsBlock
<1> DEFINE I == SType /\ Threads /\ Following
<1>1. Init => I
  <2> SUFFICES ASSUME Init PROVE I
    OBVIOUS
  <2>1. Len(log) = 0 /\ Len(hand) = 0 /\ Len(batch) = 0 /\ Len(queue) = 0 /\ DOMAIN log = {}
    BY DEF Init
  <2>2. Following
    BY <2>1 DEF Following, HistoryFollowsBlock, AllAnnounced
  <2> QED BY <2>2, STypeInit DEF Init, Threads
<1>2. I /\ [Next]_vars => I'
  BY STypeNext, ThreadsNext, FollowingNext
<1>3. I => HistoryFollowsBlock
  BY DEF Following
<1> HIDE DEF I
<1> QED BY <1>1, <1>2, <1>3, PTL DEF Spec

----------------------------------------------------------------------------
(* What a subscriber is sent. *)

Taking == from <= pos /\ pos <= Len(log) /\ NoGaps

\* Passes, with the addresses as an argument.
Hears(asked, e) == e.type = "history" => asked = {} \/ e.row.user \in asked

LEMMA NoGapsHears ==
  /\ NoGaps <=> /\ Range(got) = {i \in from + 1..pos : Hears(wants, log[i])}
                /\ \A i, j \in DOMAIN got : i < j => got[i] < got[j]
  /\ NoGaps' <=> /\ Range(got') = {i \in from' + 1..pos' : Hears(wants', log'[i])}
                 /\ \A i, j \in DOMAIN got' : i < j => got'[i] < got'[j]
BY DEF NoGaps, Passes, Hears

\* The log may grow behind what the receiver has taken.
LEMMA TakingGrown ==
  ASSUME SType, Taking, UNCHANGED clientVars, Len(log') \in Nat, Len(log) <= Len(log'),
         \A i \in 1..Len(log) : log'[i] = log[i]
  PROVE  Taking'
<1>1. /\ got \in Seq(Nat) /\ from \in Nat /\ pos \in Nat /\ Len(log) \in Nat
      /\ from <= pos /\ pos <= Len(log)
      /\ Range(got) = {i \in from + 1..pos : Hears(wants, log[i])}
      /\ \A i, j \in DOMAIN got : i < j => got[i] < got[j]
  BY NoGapsHears DEF SType, Taking
<1>2. got' = got /\ from' = from /\ pos' = pos /\ wants' = wants
  BY DEF clientVars
<1>3. \A i \in from + 1..pos : log'[i] = log[i]
  BY <1>1
<1>4. {i \in from' + 1..pos' : Hears(wants', log'[i])} = {i \in from + 1..pos : Hears(wants, log[i])}
  BY <1>2, <1>3
<1>5. Range(got) = {i \in from' + 1..pos' : Hears(wants', log'[i])}
  BY <1>1, <1>4
<1>6. NoGaps'
  BY <1>1, <1>2, <1>5, NoGapsHears
<1> QED BY <1>1, <1>2, <1>6 DEF Taking

LEMMA TakingNone ==
  ASSUME from' = 0, pos' = 0, got' = <<>>, Len(log') \in Nat
  PROVE  Taking'
<1>1. Range(<<>>) = {} /\ DOMAIN <<>> = {}
  BY DEF Range
<1>2. from' + 1..pos' = {}
  OBVIOUS
<1> QED BY <1>1, <1>2 DEF Taking, NoGaps

LEMMA TakingTake ==
  ASSUME SType, Taking, Take
  PROVE  Taking'
<1> DEFINE S == {i \in from + 1..pos : Hears(wants, log[i])}
           T == {i \in from + 1..pos + 1 : Hears(wants, log[i])}
<1>1. /\ got \in Seq(Nat) /\ from \in Nat /\ pos \in Nat /\ Len(log) \in Nat
      /\ from <= pos /\ pos < Len(log)
      /\ Range(got) = S
      /\ \A i, j \in DOMAIN got : i < j => got[i] < got[j]
  BY NoGapsHears DEF SType, Taking, Take
<1>2. /\ pos' = pos + 1 /\ UNCHANGED <<wants, from, log>>
      /\ got' = IF Hears(wants, log[pos + 1]) THEN Append(got, pos + 1) ELSE got
  BY DEF Take, ClientOnly, Passes, Hears
<1>3. T = IF Hears(wants, log[pos + 1]) THEN S \cup {pos + 1} ELSE S
  BY <1>1
<1>4. Range(got') = T /\ \A i, j \in DOMAIN got' : i < j => got'[i] < got'[j]
  <2>1. CASE Hears(wants, log[pos + 1])
    <3>1. got' = Append(got, pos + 1) /\ got' \in Seq(Nat) /\ Len(got') = Len(got) + 1
          /\ got'[Len(got) + 1] = pos + 1 /\ \A i \in 1..Len(got) : got'[i] = got[i]
      BY <1>1, <1>2, <2>1
    <3>2. Range(got') = Range(got) \cup {pos + 1}
      <4>1. DOMAIN got' = 1..Len(got) + 1 /\ DOMAIN got = 1..Len(got) /\ Len(got) \in Nat
        BY <1>1, <3>1
      <4>2. \A i \in DOMAIN got' : i \in DOMAIN got \/ i = Len(got) + 1
        BY <4>1
      <4>3. Len(got) + 1 \in DOMAIN got' /\ \A i \in DOMAIN got : i \in DOMAIN got' /\ got'[i] = got[i]
        BY <3>1, <4>1
      <4> HIDE DEF S, T
      <4> QED BY <3>1, <4>2, <4>3 DEF Range
    <3>3. \A i \in 1..Len(got) : got[i] <= pos
      <4>1. \A i \in 1..Len(got) : got[i] \in Range(got)
        BY <1>1, RangeIn
      <4> QED BY <1>1, <4>1
    <3>4. \A i, j \in DOMAIN got' : i < j => got'[i] < got'[j]
      <4> SUFFICES ASSUME NEW i \in DOMAIN got', NEW j \in DOMAIN got', i < j
                   PROVE  got'[i] < got'[j]
        OBVIOUS
      <4>1. i \in 1..Len(got) /\ got'[i] = got[i] /\ got[i] \in Nat
        BY <1>1, <3>1
      <4>2. CASE j \in 1..Len(got)
        BY <1>1, <3>1, <4>1, <4>2
      <4>3. CASE j = Len(got) + 1
        BY <1>1, <3>1, <3>3, <4>1, <4>3
      <4> QED BY <3>1, <4>2, <4>3
    <3> QED BY <1>1, <1>3, <2>1, <3>2, <3>4
  <2>2. CASE ~Hears(wants, log[pos + 1])
    BY <1>1, <1>2, <1>3, <2>2
  <2> QED BY <2>1, <2>2
<1>5. T = {i \in from' + 1..pos' : Hears(wants', log'[i])}
  BY <1>2
<1>6. from' <= pos' /\ pos' <= Len(log')
  BY <1>1, <1>2
<1> QED BY <1>4, <1>5, <1>6, NoGapsHears DEF Taking

LEMMA TakingNext ==
  SType /\ Threads /\ Taking /\ [Next]_vars => Taking'
<1> SUFFICES ASSUME SType, Threads, Taking, [Next]_vars PROVE Taking'
  OBVIOUS
<1>0. log \in Seq(Event) /\ Len(log) \in Nat /\ log' \in Seq(Event) /\ Len(log') \in Nat
  <2>1. SType'
    BY STypeNext
  <2>2. log \in Seq(Event)
    BY DEF SType
  <2>3. log' \in Seq(Event)
    BY <2>1 DEF SType
  <2> QED BY <2>2, <2>3
<1>1. CASE Handle
  <2> PICK n \in 0..Len(savepoints), b \in Nat, h \in Nat, entries \in Seq(Entry) :
         HandleAs(n, b, h, entries)
    BY <1>1, HandleView
  <2>1. Grown(log, log')
    BY HandleLog
  <2>2. UNCHANGED clientVars
    BY <1>1 DEF Handle
  <2> QED BY <1>0, <2>1, <2>2, TakingGrown DEF Grown
<1>2. CASE HandOver \/ Stop \/ Signal \/ CancelToken \/ Terminated \/ UNCHANGED vars
  <2>1. UNCHANGED <<log, clientVars>>
    BY <1>2 DEF HandOver, Stop, Signal, CancelToken, Terminated, vars, indexerVars
  <2> QED BY <1>0, <2>1, TakingGrown
<1>3. CASE Exit
  BY <1>0, <1>3, TakingNone DEF Exit, Gone
<1>4. CASE Restart
  <2>1. from' = 0 /\ pos' = 0 /\ got' = <<>>
    BY <1>4 DEF Restart, Threads, clientVars
  <2> QED BY <1>0, <2>1, TakingNone
<1>5. CASE Receive \/ Empty \/ Check \/ (Publish /\ batch = <<>>)
  <2>1. UNCHANGED <<log, clientVars>>
    BY <1>5 DEF Receive, Empty, Check, Publish, SenderOnly
  <2> QED BY <1>0, <2>1, TakingGrown
<1>6. CASE Publish /\ batch # <<>>
  <2>1. UNCHANGED clientVars
    BY <1>6 DEF Publish, SenderOnly
  <2> QED BY <1>0, <1>6, <2>1, PublishLog, TakingGrown
<1>7. CASE Subscribe
  <2>1. UNCHANGED log /\ from' = Len(log) /\ pos' = Len(log) /\ got' = <<>>
    BY <1>7 DEF Subscribe, ClientOnly
  <2>2. Range(<<>>) = {} /\ DOMAIN <<>> = {} /\ from' + 1..pos' = {}
    BY <1>0, <2>1 DEF Range
  <2> QED BY <1>0, <2>1, <2>2 DEF Taking, NoGaps
<1>8. CASE Take
  BY <1>8, TakingTake
<1>9. CASE Lagged \/ Leave
  BY <1>0, <1>9, TakingNone DEF Lagged, Leave, Overtaken, Gone
<1> QED BY <1>1, <1>2, <1>3, <1>4, <1>5, <1>6, <1>7, <1>8, <1>9 DEF Next, Sender, Client

\* A subscriber (src/rest/history.rs, subscribe) is sent every event of its filter
\* between the first and the last that its receiver took, in order and once: it is
\* disconnected when the broadcast channel overtakes it.
THEOREM SubscribersMissNothing == Spec => []NoGaps
<1> DEFINE I == SType /\ Threads /\ Taking
<1>1. Init => I
  <2> SUFFICES ASSUME Init PROVE I
    OBVIOUS
  <2>1. from = 0 /\ pos = 0 /\ got = <<>> /\ Len(log) = 0
    BY DEF Init
  <2>2. Range(<<>>) = {} /\ DOMAIN <<>> = {} /\ from + 1..pos = {}
    BY <2>1 DEF Range
  <2> QED BY <2>1, <2>2, STypeInit DEF Init, Threads, Taking, NoGaps
<1>2. I /\ [Next]_vars => I'
  BY STypeNext, ThreadsNext, TakingNext
<1>3. I => NoGaps
  BY DEF Taking
<1> HIDE DEF I
<1> QED BY <1>1, <1>2, <1>3, PTL DEF Spec

----------------------------------------------------------------------------
(* The blocks that a subscriber knows. *)

\* The savepoints are of blocks that this process has handled.
Reach == base + Len(savepoints) <= Len(chain)

\* The blocks of chain c above height s that are announced.
ChainTold(c, s) == {<<h, c[h]>> : h \in {x \in s + 1..Len(c) : x >= StartHeight}}

Rebuilt == Reach /\ (ipc \in {"idle", "hand"} => BlocksTold(log) = ChainTold(chain, base))

LEMMA ToldMember ==
  ASSUME NEW l \in Seq(Event), NEW x
  PROVE  x \in BlocksTold(l) <=>
           \E i \in 1..Len(l) : Stands(l, i) /\ x = <<l[i].height, l[i].block>>
BY DEF BlocksTold

LEMMA StandsAppend ==
  ASSUME NEW l \in Seq(Event), NEW e \in Event
  PROVE  /\ \A i \in 1..Len(l) : Stands(Append(l, e), i) <=>
              Stands(l, i) /\ (e.type = "reorg" => l[i].height < e.height)
         /\ Stands(Append(l, e), Len(l) + 1) <=> e.type = "block"
<1> DEFINE k == Append(l, e)
<1>1. /\ Len(l) \in Nat /\ Len(k) = Len(l) + 1 /\ k[Len(l) + 1] = e
      /\ \A i \in 1..Len(l) : k[i] = l[i]
  OBVIOUS
<1> HIDE DEF k
<1>2. ASSUME NEW i \in 1..Len(l)
      PROVE  Stands(k, i) <=> Stands(l, i) /\ (e.type = "reorg" => l[i].height < e.height)
  <2>1. ASSUME Stands(k, i) PROVE Stands(l, i) /\ (e.type = "reorg" => l[i].height < e.height)
    <3>1. /\ k[i].type = "block"
          /\ \A j \in i + 1..Len(k) : k[j].type = "reorg" => k[i].height < k[j].height
      BY <2>1 DEF Stands
    <3>2. \A j \in i + 1..Len(l) : j \in i + 1..Len(k) /\ k[j] = l[j]
      BY <1>1
    <3>3. Len(l) + 1 \in i + 1..Len(k)
      BY <1>1
    <3>4. k[i] = l[i]
      BY <1>1
    <3>5. e.type = "reorg" => l[i].height < e.height
      BY <1>1, <3>1, <3>3, <3>4
    <3>6. l[i].type = "block"
          /\ \A j \in i + 1..Len(l) : l[j].type = "reorg" => l[i].height < l[j].height
      BY <3>1, <3>2, <3>4
    <3> QED BY <3>5, <3>6 DEF Stands
  <2>2. ASSUME Stands(l, i), e.type = "reorg" => l[i].height < e.height PROVE Stands(k, i)
    <3>1. l[i].type = "block"
          /\ \A j \in i + 1..Len(l) : l[j].type = "reorg" => l[i].height < l[j].height
      BY <2>2 DEF Stands
    <3>2. k[i] = l[i]
      BY <1>1
    <3>3. ASSUME NEW j \in i + 1..Len(k), k[j].type = "reorg" PROVE k[i].height < k[j].height
      <4>1. CASE j = Len(l) + 1
        BY <1>1, <2>2, <3>2, <3>3, <4>1
      <4>2. CASE j # Len(l) + 1
        <5>1. j \in i + 1..Len(l) /\ k[j] = l[j]
          BY <1>1, <4>2
        <5> QED BY <3>1, <3>2, <3>3, <5>1
      <4> QED BY <4>1, <4>2
    <3> QED BY <3>1, <3>2, <3>3 DEF Stands
  <2> QED BY <2>1, <2>2
<1>3. Stands(k, Len(l) + 1) <=> e.type = "block"
  <2>1. Len(l) + 1 + 1..Len(k) = {}
    BY <1>1
  <2> QED BY <1>1, <2>1 DEF Stands
<1> QED BY <1>2, <1>3 DEF k

LEMMA ToldAppend ==
  ASSUME NEW l \in Seq(Event), NEW e \in Event, NEW x
  PROVE  x \in BlocksTold(Append(l, e)) <=>
           \/ /\ \E i \in 1..Len(l) : /\ Stands(l, i) /\ x = <<l[i].height, l[i].block>>
                                      /\ e.type = "reorg" => l[i].height < e.height
           \/ e.type = "block" /\ x = <<e.height, e.block>>
<1> DEFINE k == Append(l, e)
<1>1. /\ k \in Seq(Event) /\ Len(l) \in Nat /\ Len(k) = Len(l) + 1 /\ k[Len(l) + 1] = e
      /\ \A i \in 1..Len(l) : k[i] = l[i]
  OBVIOUS
<1>2. /\ \A i \in 1..Len(l) : Stands(k, i) <=>
              Stands(l, i) /\ (e.type = "reorg" => l[i].height < e.height)
      /\ Stands(k, Len(l) + 1) <=> e.type = "block"
  BY StandsAppend
<1> HIDE DEF k
<1>3. x \in BlocksTold(k) <=> \E i \in 1..Len(k) : Stands(k, i) /\ x = <<k[i].height, k[i].block>>
  BY <1>1, ToldMember
<1>4. \A i : i \in 1..Len(k) <=> i \in 1..Len(l) \/ i = Len(l) + 1
  BY <1>1
<1> QED BY <1>1, <1>2, <1>3, <1>4 DEF k

LEMMA ToldHistory ==
  ASSUME NEW l \in Seq(Event), NEW e \in Event, e.type = "history"
  PROVE  BlocksTold(Append(l, e)) = BlocksTold(l)
<1> SUFFICES ASSUME NEW x PROVE x \in BlocksTold(Append(l, e)) <=> x \in BlocksTold(l)
  OBVIOUS
<1> QED BY ToldAppend, ToldMember

LEMMA ToldReorg ==
  ASSUME NEW l \in Seq(Event), NEW n \in Nat, NEW h \in Nat
  PROVE  BlocksTold(Append(l, Reorg(n, h))) = {x \in BlocksTold(l) : x[1] < h}
<1> DEFINE e == Reorg(n, h)
<1>1. e \in Event /\ e.type = "reorg" /\ e.height = h
  BY EventTypes DEF Reorg
<1> HIDE DEF e
<1> SUFFICES ASSUME NEW x PROVE x \in BlocksTold(Append(l, e)) <=> x \in BlocksTold(l) /\ x[1] < h
  BY DEF e
<1>2. x \in BlocksTold(Append(l, e)) <=>
        \/ \E i \in 1..Len(l) : Stands(l, i) /\ (e.type = "reorg" => l[i].height < e.height) /\ x = <<l[i].height, l[i].block>>
        \/ e.type = "block" /\ x = <<e.height, e.block>>
  BY <1>1, ToldAppend
<1>3. x \in BlocksTold(l) <=> \E i \in 1..Len(l) : Stands(l, i) /\ x = <<l[i].height, l[i].block>>
  BY ToldMember
<1> QED BY <1>1, <1>2, <1>3

LEMMA ToldBlock ==
  ASSUME NEW l \in Seq(Event), NEW b \in Nat, NEW h \in Nat
  PROVE  BlocksTold(Append(l, NewBlock(b, h))) = BlocksTold(l) \cup {<<h, b>>}
<1> DEFINE e == NewBlock(b, h)
<1>1. e \in Event /\ e.type = "block" /\ e.height = h /\ e.block = b
  BY EventTypes DEF NewBlock
<1> HIDE DEF e
<1> SUFFICES ASSUME NEW x PROVE x \in BlocksTold(Append(l, e)) <=> x \in BlocksTold(l) \/ x = <<h, b>>
  BY DEF e
<1>2. x \in BlocksTold(Append(l, e)) <=>
        \/ \E i \in 1..Len(l) : Stands(l, i) /\ (e.type = "reorg" => l[i].height < e.height) /\ x = <<l[i].height, l[i].block>>
        \/ e.type = "block" /\ x = <<e.height, e.block>>
  BY <1>1, ToldAppend
<1>3. x \in BlocksTold(l) <=> \E i \in 1..Len(l) : Stands(l, i) /\ x = <<l[i].height, l[i].block>>
  BY ToldMember
<1> QED BY <1>1, <1>2, <1>3

LEMMA ChainCut ==
  ASSUME NEW c \in Seq(Nat), NEW s \in Nat, NEW n \in 0..Len(c)
  PROVE  {x \in ChainTold(c, s) : x[1] < Len(c) - n + 1} = ChainTold(SubSeq(c, 1, Len(c) - n), s)
<1> DEFINE d == SubSeq(c, 1, Len(c) - n)
<1>1. Len(c) \in Nat /\ Len(d) = Len(c) - n /\ \A i \in 1..Len(c) - n : d[i] = c[i]
  OBVIOUS
<1> HIDE DEF d
<1> SUFFICES ASSUME NEW x
             PROVE  x \in ChainTold(c, s) /\ x[1] < Len(c) - n + 1 <=> x \in ChainTold(d, s)
  BY DEF d
<1>2. x \in ChainTold(c, s) <=> \E h \in s + 1..Len(c) : h >= StartHeight /\ x = <<h, c[h]>>
  BY DEF ChainTold
<1>3. x \in ChainTold(d, s) <=> \E h \in s + 1..Len(d) : h >= StartHeight /\ x = <<h, d[h]>>
  BY DEF ChainTold
<1>4. ASSUME x \in ChainTold(c, s), x[1] < Len(c) - n + 1 PROVE x \in ChainTold(d, s)
  <2> PICK h \in s + 1..Len(c) : h >= StartHeight /\ x = <<h, c[h]>>
    BY <1>2, <1>4
  <2>1. h \in s + 1..Len(d) /\ d[h] = c[h]
    BY <1>1, <1>4
  <2> QED BY <1>3, <2>1
<1>5. ASSUME x \in ChainTold(d, s) PROVE x \in ChainTold(c, s) /\ x[1] < Len(c) - n + 1
  <2> PICK h \in s + 1..Len(d) : h >= StartHeight /\ x = <<h, d[h]>>
    BY <1>3, <1>5
  <2>1. h \in s + 1..Len(c) /\ d[h] = c[h] /\ h < Len(c) - n + 1
    BY <1>1
  <2> QED BY <1>2, <2>1
<1> QED BY <1>4, <1>5

LEMMA ChainGrows ==
  ASSUME NEW c \in Seq(Nat), NEW s \in Nat, s <= Len(c), NEW b \in Nat
  PROVE  ChainTold(Append(c, b), s) =
           IF Len(c) + 1 >= StartHeight THEN ChainTold(c, s) \cup {<<Len(c) + 1, b>>}
                                        ELSE ChainTold(c, s)
<1> DEFINE d == Append(c, b)
           n == Len(c) + 1
<1>1. Len(c) \in Nat /\ Len(d) = n /\ d[n] = b /\ \A i \in 1..Len(c) : d[i] = c[i]
  OBVIOUS
<1> HIDE DEF d
<1> SUFFICES ASSUME NEW x
             PROVE  x \in ChainTold(d, s) <=>
                      x \in ChainTold(c, s) \/ (n >= StartHeight /\ x = <<n, b>>)
  BY DEF d
<1>2. x \in ChainTold(c, s) <=> \E h \in s + 1..Len(c) : h >= StartHeight /\ x = <<h, c[h]>>
  BY DEF ChainTold
<1>3. x \in ChainTold(d, s) <=> \E h \in s + 1..Len(d) : h >= StartHeight /\ x = <<h, d[h]>>
  BY DEF ChainTold
<1>4. \A h : h \in s + 1..Len(d) <=> h \in s + 1..Len(c) \/ h = n
  BY <1>1
<1>5. \A h \in s + 1..Len(c) : d[h] = c[h]
  BY <1>1
<1> QED BY <1>1, <1>2, <1>3, <1>4, <1>5

LEMMA ReachHandle ==
  ASSUME SType, Reach, NEW n \in 0..Len(savepoints), NEW b \in Nat, NEW h \in Nat, NEW entries,
         HandleAs(n, b, h, entries)
  PROVE  base + Len(savepoints') <= Len(chain')
<1>0. /\ chain \in Seq(Nat) /\ savepoints \in Seq(Savepoint) /\ base \in Nat
      /\ base + Len(savepoints) <= Len(chain) /\ Len(savepoints) \in Nat /\ Len(chain) \in Nat
  BY DEF SType, Reach
<1>1. Room(Kept(n)) \in Seq(Savepoint) /\ Len(Room(Kept(n))) <= Len(savepoints) - n
  BY KeptType, RoomType
<1>2. Len(savepoints') <= Len(savepoints) - n + 1 /\ Len(savepoints') \in Nat
  <2> DEFINE k == Room(Kept(n))
             x == [lastId |-> IdAfter(n), remove |-> Range(entries)]
             l == Len(savepoints)
  <2>1. savepoints' = Append(k, x) \/ savepoints' = <<>>
    BY DEF HandleAs
  <2>4. l \in Nat /\ n \in Nat
    BY <1>0
  <2>2. k \in Seq(Savepoint) /\ Len(k) <= l - n
    BY <1>1
  <2> HIDE DEF k, x
  <2>3. Len(k) \in Nat /\ (Len(savepoints') = Len(k) + 1 \/ Len(savepoints') = 0)
    BY <2>1, <2>2
  <2> HIDE DEF l
  <2>5. Len(k) + 1 <= l - n + 1
    BY <2>2, <2>3, <2>4
  <2> QED BY <2>3, <2>4, <2>5 DEF l
<1>3. Len(chain') = Len(chain) - n + 1
  <2> DEFINE c == SubSeq(chain, 1, Len(chain) - n)
  <2>1. c \in Seq(Nat) /\ Len(c) = Len(chain) - n
    BY <1>0
  <2>2. chain' = Append(c, b)
    BY DEF HandleAs
  <2> QED BY <2>1, <2>2
<1> QED BY <1>0, <1>2, <1>3

LEMMA RebuiltHandle ==
  ASSUME SType, Rebuilt, Handle
  PROVE  Rebuilt'
<1> PICK n \in 0..Len(savepoints), b \in Nat, h \in Nat, entries \in Seq(Entry) :
       HandleAs(n, b, h, entries)
  BY HandleView
<1> DEFINE c == SubSeq(chain, 1, Len(chain) - n)
<1>0. /\ chain \in Seq(Nat) /\ log \in Seq(Event) /\ base \in Nat
      /\ Len(savepoints) \in Nat /\ Len(chain) \in Nat
      /\ base + Len(savepoints) <= Len(chain) /\ n \in 0..Len(chain)
      /\ c \in Seq(Nat) /\ Len(c) = Len(chain) - n
  <2>1. /\ chain \in Seq(Nat) /\ log \in Seq(Event) /\ base \in Nat
        /\ Len(savepoints) \in Nat /\ Len(chain) \in Nat
        /\ base + Len(savepoints) <= Len(chain)
    BY DEF SType, Rebuilt, Reach
  <2>2. n \in Nat /\ n <= Len(chain)
    BY <2>1
  <2>3. c \in Seq(Nat) /\ Len(c) = Len(chain) - n
    BY <2>1, <2>2
  <2> QED BY <2>1, <2>2, <2>3
<1>1. /\ ipc = "idle" /\ ipc' = "hand" /\ base' = base
  BY DEF Handle, processVars
<1>2. chain' = Append(c, b) /\ h = Len(c) + 1 /\ log' = Told2(n, b, h)
      /\ Told1(n, h) \in Seq(Event)
  <2>1. chain' = Append(c, b) /\ h = Len(c) + 1
    BY <1>0 DEF HandleAs
  <2>2. log' = Told2(n, b, h) /\ Told1(n, h) \in Seq(Event)
    BY HandleLog
  <2> QED BY <2>1, <2>2
<1>3. BlocksTold(log) = ChainTold(chain, base)
  BY <1>1 DEF Rebuilt
<1>4. BlocksTold(Told1(n, h)) = ChainTold(c, base)
  <2>1. CASE n = 0
    <3>1. c = chain
      BY <1>0, <2>1
    <3> QED BY <1>3, <2>1, <3>1 DEF Told1
  <2>2. CASE n # 0
    <3>1. BlocksTold(Told1(n, h)) = {x \in BlocksTold(log) : x[1] < h}
      BY <1>0, <2>2, ToldReorg DEF Told1
    <3>2. {x \in ChainTold(chain, base) : x[1] < Len(chain) - n + 1} = ChainTold(c, base)
      BY <1>0, ChainCut
    <3> QED BY <1>0, <1>2, <1>3, <3>1, <3>2
  <2> QED BY <2>1, <2>2
<1>5. base <= Len(c)
  BY <1>0
<1> HIDE DEF c
<1>6. ChainTold(chain', base) = IF h >= StartHeight THEN ChainTold(c, base) \cup {<<h, b>>}
                                                   ELSE ChainTold(c, base)
  BY <1>0, <1>2, <1>5, ChainGrows
<1>7. BlocksTold(log') = ChainTold(chain', base)
  <2>1. CASE h >= StartHeight
    <3>1. BlocksTold(log') = BlocksTold(Told1(n, h)) \cup {<<h, b>>}
      BY <1>2, <2>1, ToldBlock DEF Told2
    <3> QED BY <1>4, <1>6, <2>1, <3>1
  <2>2. CASE ~(h >= StartHeight)
    BY <1>2, <1>4, <1>6, <2>2 DEF Told2
  <2> QED BY <2>1, <2>2
<1>8. Reach'
  BY <1>1, ReachHandle DEF Reach, Rebuilt
<1> QED BY <1>1, <1>7, <1>8 DEF Rebuilt

LEMMA RebuiltSame ==
  ASSUME Rebuilt, UNCHANGED <<log, chain, savepoints, base>>,
         ipc' \in {"idle", "hand"} => ipc \in {"idle", "hand"}
  PROVE  Rebuilt'
BY DEF Rebuilt, Reach

LEMMA RebuiltNext ==
  SType /\ Threads /\ Rebuilt /\ [Next]_vars => Rebuilt'
<1> SUFFICES ASSUME SType, Threads, Rebuilt, [Next]_vars PROVE Rebuilt'
  OBVIOUS
<1>1. CASE Handle
  BY <1>1, RebuiltHandle
<1>2. CASE HandOver \/ Signal \/ CancelToken \/ Exit \/ Terminated \/ UNCHANGED vars
  <2>1. UNCHANGED <<log, chain, savepoints, base>>
        /\ (ipc' \in {"idle", "hand"} => ipc \in {"idle", "hand"})
    BY <1>2 DEF HandOver, Signal, CancelToken, Exit, Terminated, vars, indexerVars, processVars
  <2> QED BY <2>1, RebuiltSame
<1>3. CASE Stop
  <2>0. /\ base \in Nat /\ chain \in Seq(Nat) /\ Len(savepoints) \in Nat /\ Len(chain) \in Nat
        /\ base + Len(savepoints) <= Len(chain)
    BY DEF SType, Rebuilt, Reach
  <2>1. /\ ipc' = "stopped" /\ base' = base /\ savepoints' = <<>>
        /\ chain' = SubSeq(chain, 1, Len(chain) - Len(savepoints))
    BY <1>3 DEF Stop, processVars
  <2>2. Len(chain') = Len(chain) - Len(savepoints) /\ Len(savepoints') = 0
    BY <2>0, <2>1
  <2> QED BY <2>0, <2>1, <2>2 DEF Rebuilt, Reach
<1>4. CASE Restart
  <2>1. log' = <<>> /\ base' = Len(chain) /\ chain' = chain /\ savepoints' = savepoints
    BY <1>4 DEF Restart
  <2>2. savepoints = <<>>
    BY <1>4 DEF Restart, Threads
  <2>3. chain \in Seq(Nat) /\ Len(chain) \in Nat /\ Len(savepoints) = 0
    BY <2>2 DEF SType
  <2>4. BlocksTold(log') = {} /\ ChainTold(chain', base') = {}
    BY <2>1, <2>3 DEF BlocksTold, ChainTold
  <2> QED BY <2>1, <2>3, <2>4 DEF Rebuilt, Reach
<1>5. CASE Receive \/ Empty \/ Check \/ (Publish /\ batch = <<>>)
  <2>1. UNCHANGED <<log, chain, savepoints, base, ipc>>
    BY <1>5 DEF Receive, Empty, Check, Publish, SenderOnly, indexerVars, processVars
  <2> QED BY <2>1, RebuiltSame
<1>6. CASE Publish /\ batch # <<>>
  <2>1. UNCHANGED <<chain, savepoints, base, ipc>>
    BY <1>6 DEF Publish, SenderOnly, indexerVars, processVars
  <2>2. NewHistory(Head(batch)) \in Event /\ NewHistory(Head(batch)).type = "history"
        /\ log \in Seq(Event)
    <3>1. Head(batch) \in Entry /\ log \in Seq(Event)
      BY <1>6 DEF SType
    <3> QED BY <3>1, EventTypes DEF NewHistory
  <2>3. BlocksTold(log') = BlocksTold(log)
    BY <1>6, <2>2, PublishLog, ToldHistory
  <2> QED BY <2>1, <2>3 DEF Rebuilt, Reach
<1>7. CASE Client
  <2>1. UNCHANGED <<log, chain, savepoints, base, ipc>>
    BY <1>7 DEF Client, Subscribe, Take, Lagged, Leave, ClientOnly, indexerVars, processVars
  <2> QED BY <2>1, RebuiltSame
<1> QED BY <1>1, <1>2, <1>3, <1>4, <1>5, <1>6, <1>7 DEF Next, Sender

\* The blocks and reorgs of the event stream (src/server/mod.rs) tell the chain of the
\* tables: a reorg is announced with the height from which the blocks are taken back,
\* and a block that is handled is announced before the next one.
THEOREM ChainReconstructed == Spec => []BlocksReconstructed
<1> DEFINE I == SType /\ Threads /\ Rebuilt
<1>1. Init => I
  <2> SUFFICES ASSUME Init PROVE I
    OBVIOUS
  <2>1. /\ chain = <<>> /\ savepoints = <<>> /\ log = <<>> /\ base = 0
        /\ Len(chain) = 0 /\ Len(savepoints) = 0 /\ Len(log) = 0
    BY DEF Init
  <2>2. BlocksTold(log) = {} /\ ChainTold(chain, base) = {}
    BY <2>1 DEF BlocksTold, ChainTold
  <2>3. Rebuilt
    <3>1. Reach
      BY <2>1 DEF Reach
    <3>2. BlocksTold(log) = ChainTold(chain, base)
      BY <2>2
    <3> QED BY <3>1, <3>2 DEF Rebuilt
  <2>4. Threads
    BY DEF Init, Threads
  <2> QED BY <2>3, <2>4, STypeInit
<1>2. I /\ [Next]_vars => I'
  BY STypeNext, ThreadsNext, RebuiltNext
<1>3. I => BlocksReconstructed
  <2>1. ChainTold(chain, base) = {<<h, chain[h]>> : h \in {x \in base + 1..Len(chain) : x >= StartHeight}}
    BY DEF ChainTold
  <2> QED BY <2>1 DEF Rebuilt, BlocksReconstructed
<1> HIDE DEF I
<1> QED BY <1>1, <1>2, <1>3, PTL DEF Spec

----------------------------------------------------------------------------
(* The ids of the entries in the tables. *)

\* Every id up to lastId once, in the order of the heights, which end with the chain.
IdsDense ==
  /\ \A r \in rows : r.id \in 1..lastId /\ r.height <= Len(chain)
  /\ \A k \in 1..lastId : \E r \in rows : r.id = k
  /\ \A r, s \in rows : r.id = s.id => r = s
  /\ \A r, s \in rows : r.height < s.height => r.id < s.id

\* The height of the block that savepoint i undoes.
SavedHeight(i) == Len(chain) - Len(savepoints) + i

\* A savepoint has the entries of its block, and the id before the first of them.
SavepointsExact ==
  /\ \A i \in 1..Len(savepoints) : savepoints[i].remove = {r \in rows : r.height = SavedHeight(i)}
  /\ \A i \in 1..Len(savepoints) :
       \A r \in rows : r.id > savepoints[i].lastId <=> r.height >= SavedHeight(i)
  /\ \A i \in 1..Len(savepoints) : savepoints[i].lastId <= lastId
  /\ \A i, j \in 1..Len(savepoints) : i <= j => savepoints[i].lastId <= savepoints[j].lastId

Dense == IdsDense /\ SavepointsExact

LEMMA RowsAfterHeight ==
  ASSUME SType, Dense, NEW n \in 0..Len(savepoints)
  PROVE  /\ RowsAfter(n) = {r \in rows : r.height <= Len(chain) - n}
         /\ \A r \in rows : r.id <= IdAfter(n) <=> r.height <= Len(chain) - n
         /\ IdAfter(n) <= lastId
         /\ \A i \in 1..Len(savepoints) - n : savepoints[i].lastId <= IdAfter(n)
<1> DEFINE L == Len(savepoints)
           C == Len(chain)
<1>0. /\ savepoints \in Seq(Savepoint) /\ L \in Nat /\ C \in Nat /\ L <= C /\ lastId \in Nat
      /\ \A r \in rows : r.id \in Nat /\ r.height \in Nat /\ r.height <= C /\ r.id <= lastId
  BY DEF SType, Dense, IdsDense, Entry
<1>1. \A i \in 1..L : savepoints[i].lastId \in Nat
  <2>1. \A i \in 1..L : savepoints[i] \in Savepoint
    BY <1>0
  <2> QED BY <2>1 DEF Savepoint
<1>2. IdAfter(n) = IF n = 0 THEN lastId ELSE savepoints[L - n + 1].lastId
  BY IdAfterType
<1>3. \A i \in 1..L : savepoints[i].remove = {r \in rows : r.height = C - L + i}
  BY DEF Dense, SavepointsExact, SavedHeight
<1>4. \A i \in 1..L : \A r \in rows : r.id > savepoints[i].lastId <=> r.height >= C - L + i
  BY DEF Dense, SavepointsExact, SavedHeight
<1>5. \A i \in 1..L : savepoints[i].lastId <= lastId
  BY DEF Dense, SavepointsExact
<1>6. \A i, j \in 1..L : i <= j => savepoints[i].lastId <= savepoints[j].lastId
  BY DEF Dense, SavepointsExact
<1> HIDE DEF L, C
<1>7. RowsAfter(n) = {r \in rows : r.height <= C - n}
  <2> DEFINE u == Undone(n)
  <2>1. /\ Len(u) = n /\ DOMAIN u = 1..n /\ \A i \in 1..n : u[i] = savepoints[L - n + i]
    BY <1>0 DEF Undone, L
  <2> HIDE DEF u
  <2>2. ASSUME NEW r \in rows, NEW s \in Range(u), r \in s.remove PROVE r.height > C - n
    <3> PICK i \in 1..n : s = savepoints[L - n + i]
      BY <2>1 DEF Range
    <3>1. L - n + i \in 1..L
      BY <1>0 DEF L
    <3>2. r.height = C - L + (L - n + i)
      BY <1>3, <2>2, <3>1
    <3> QED BY <1>0, <3>2
  <2>3. ASSUME NEW r \in rows, r.height > C - n PROVE \E s \in Range(u) : r \in s.remove
    <3> DEFINE i == r.height - (C - n)
    <3>1. i \in 1..n /\ L - n + i \in 1..L /\ r.height = C - L + (L - n + i)
      BY <1>0, <2>3 DEF L
    <3>2. r \in savepoints[L - n + i].remove
      BY <1>3, <3>1
    <3>3. u[i] \in Range(u)
      BY <2>1, <3>1 DEF Range
    <3> QED BY <2>1, <3>1, <3>2, <3>3
  <2>4. ASSUME NEW r \in rows
        PROVE  r \in UNION {s.remove : s \in Range(u)} <=> r.height > C - n
    BY <2>2, <2>3
  <2>5. \A r \in rows : r.height > C - n <=> ~(r.height <= C - n)
    BY <1>0
  <2>6. RowsAfter(n) = rows \ UNION {s.remove : s \in Range(u)}
    BY DEF RowsAfter, u
  <2> QED BY <2>4, <2>5, <2>6
<1>8. ASSUME NEW r \in rows PROVE r.id <= IdAfter(n) <=> r.height <= C - n
  <2>1. CASE n = 0
    BY <1>0, <1>2, <2>1
  <2>2. CASE n # 0
    <3>1. L - n + 1 \in 1..L
      BY <1>0, <2>2 DEF L
    <3>2. r.id > IdAfter(n) <=> r.height >= C - L + (L - n + 1)
      BY <1>2, <1>4, <2>2, <3>1
    <3>3. IdAfter(n) \in Nat
      BY IdAfterType
    <3> QED BY <1>0, <3>2, <3>3
  <2> QED BY <2>1, <2>2
<1>9. IdAfter(n) <= lastId
  <2>1. CASE n = 0
    BY <1>0, <1>2, <2>1
  <2>2. CASE n # 0
    <3>1. L - n + 1 \in 1..L
      BY <1>0, <2>2 DEF L
    <3> QED BY <1>2, <1>5, <2>2, <3>1
  <2> QED BY <2>1, <2>2
<1>10. ASSUME NEW i \in 1..L - n PROVE savepoints[i].lastId <= IdAfter(n)
  <2>0. i \in 1..L
    BY <1>0
  <2>1. CASE n = 0
    BY <1>2, <1>5, <2>0, <2>1
  <2>2. CASE n # 0
    <3>1. L - n + 1 \in 1..L /\ i <= L - n + 1
      BY <1>0, <2>2 DEF L
    <3> QED BY <1>2, <1>6, <2>0, <2>2, <3>1
  <2> QED BY <2>1, <2>2
<1> QED BY <1>7, <1>8, <1>9, <1>10 DEF L, C

\* The rows of the n blocks are gone, and so are their ids.
LEMMA DenseAfter ==
  ASSUME SType, Dense, NEW n \in 0..Len(savepoints)
  PROVE  /\ \A r \in RowsAfter(n) : r \in rows /\ r.id \in 1..IdAfter(n) /\ r.height <= Len(chain) - n
         /\ \A k \in 1..IdAfter(n) : \E r \in RowsAfter(n) : r.id = k
<1>0. IdAfter(n) \in Nat /\ lastId \in Nat /\ IdAfter(n) <= lastId
  BY IdAfterType, RowsAfterHeight DEF SType
<1>1. \A r \in RowsAfter(n) : r \in rows /\ r.height <= Len(chain) - n /\ r.id <= IdAfter(n)
  BY RowsAfterHeight
<1>2. \A r \in rows : r.id \in 1..lastId
  BY DEF Dense, IdsDense
<1>3. \A r \in RowsAfter(n) : r.id \in 1..IdAfter(n)
  BY <1>0, <1>1, <1>2
<1>4. ASSUME NEW k \in 1..IdAfter(n) PROVE \E r \in RowsAfter(n) : r.id = k
  <2>1. k \in 1..lastId
    BY <1>0
  <2> PICK r \in rows : r.id = k
    BY <2>1 DEF Dense, IdsDense
  <2>2. r.id <= IdAfter(n)
    BY <1>0
  <2>3. r \in RowsAfter(n)
    BY <2>2, RowsAfterHeight
  <2> QED BY <2>3
<1> QED BY <1>1, <1>3, <1>4

LEMMA NewRows ==
  ASSUME NEW e, NEW id \in Nat, NEW b \in Nat, NEW h \in Nat, Numbered(e, id, b, h)
  PROVE  /\ \A r \in Range(e) : r.height = h /\ r.id \in id + 1..id + Len(e)
         /\ \A k \in id + 1..id + Len(e) : \E r \in Range(e) : r.id = k
         /\ \A r, s \in Range(e) : r.id = s.id => r = s
BY DEF Numbered, Range

LEMMA DenseHandle ==
  ASSUME SType, Dense, Handle
  PROVE  Dense'
<1> PICK n \in 0..Len(savepoints), b \in Nat, h \in Nat, entries \in Seq(Entry) :
       HandleAs(n, b, h, entries)
  BY HandleView
<1> DEFINE A == RowsAfter(n)
           R == Range(entries)
           id == IdAfter(n)
           m == Len(entries)
           L == Len(savepoints)
           C == Len(chain)
           d == IF Len(Kept(n)) = MaxLen THEN 1 ELSE 0
           K == Room(Kept(n))
           x == [lastId |-> id, remove |-> R]
<1>0. /\ chain \in Seq(Nat) /\ savepoints \in Seq(Savepoint) /\ L \in Nat /\ C \in Nat /\ L <= C
      /\ lastId \in Nat
  BY DEF SType
<1>1. id \in Nat /\ m \in Nat /\ h = C - n + 1 /\ n \in Nat /\ n <= L
  <2>1. h = C - n + 1
    BY DEF HandleAs
  <2>2. id \in Nat
    BY IdAfterType
  <2> QED BY <1>0, <2>1, <2>2
<1>2. rows' = A \cup R /\ lastId' = id + m
  BY DEF HandleAs
<1>3. /\ \A r \in A : r \in rows /\ r.id \in 1..id /\ r.height <= C - n
      /\ \A k \in 1..id : \E r \in A : r.id = k
  BY DenseAfter
<1>4. /\ \A r \in R : r.height = h /\ r.id \in id + 1..id + m
      /\ \A k \in id + 1..id + m : \E r \in R : r.id = k
      /\ \A r, s \in R : r.id = s.id => r = s
  <2>1. Numbered(entries, id, b, h)
    BY DEF HandleAs
  <2>2. id \in Nat /\ b \in Nat /\ h \in Nat
    BY <1>1
  <2> HIDE DEF id
  <2> QED BY <2>1, <2>2, NewRows
<1>5. \A r \in rows : r.id \in Nat /\ r.height \in Nat
  BY DEF SType, Entry
<1>6. Len(chain') = h
  <2> DEFINE c == SubSeq(chain, 1, Len(chain) - n)
  <2>1. c \in Seq(Nat) /\ Len(c) = Len(chain) - n
    BY <1>0
  <2>2. chain' = Append(c, b)
    BY DEF HandleAs
  <2> QED BY <1>1, <2>1, <2>2
<1>7. /\ K \in Seq(Savepoint) /\ Len(K) = L - n - d /\ d \in 0..1 /\ d <= L - n
      /\ \A i \in 1..L - n - d : K[i] = savepoints[i + d]
  <2>1. /\ Kept(n) \in Seq(Savepoint) /\ Len(Kept(n)) = L - n
        /\ \A i \in 1..L - n : Kept(n)[i] = savepoints[i]
    BY KeptType
  <2>2. /\ Room(Kept(n)) \in Seq(Savepoint) /\ Len(Room(Kept(n))) = Len(Kept(n)) - d
        /\ \A i \in 1..Len(Kept(n)) - d : Room(Kept(n))[i] = Kept(n)[i + d]
    BY <2>1, RoomType
  <2>3. d \in 0..1 /\ d <= L - n
    BY <2>1
  <2> HIDE DEF d
  <2>4. \A i \in 1..L - n - d : i + d \in 1..L - n
    BY <1>0, <2>3
  <2> QED BY <2>1, <2>2, <2>3, <2>4
<1> HIDE DEF A, R, id, m, L, C, d, K
<1>8. ASSUME savepoints' # <<>>
      PROVE  /\ Len(savepoints') = L - n - d + 1
             /\ \A i \in 1..L - n - d : savepoints'[i] = savepoints[i + d]
             /\ savepoints'[L - n - d + 1].remove = R /\ savepoints'[L - n - d + 1].lastId = id
  <2>1. savepoints' = Append(K, x) /\ x \in Savepoint
    BY <1>1, <1>8, RangeIn DEF HandleAs, K, R, id, Savepoint
  <2>2. x.remove = R /\ x.lastId = id
    OBVIOUS
  <2> HIDE DEF x
  <2> QED BY <1>7, <2>1, <2>2
<1>9. IdsDense'
  <2>1. \A r \in A \cup R : r.id \in 1..id + m /\ r.height <= h
    BY <1>0, <1>1, <1>3, <1>4, <1>5
  <2>2. \A k \in 1..id + m : \E r \in A \cup R : r.id = k
    <3> SUFFICES ASSUME NEW k \in 1..id + m PROVE \E r \in A \cup R : r.id = k
      OBVIOUS
    <3>1. k \in 1..id \/ k \in id + 1..id + m
      BY <1>1
    <3> QED BY <1>3, <1>4, <3>1
  <2>3. \A r \in A : \A s \in R : r.id < s.id /\ r.height < s.height
    BY <1>0, <1>1, <1>3, <1>4, <1>5, SMTT(30)
  <2>4. \A r, s \in A \cup R : r.id = s.id => r = s
    <3>1. \A r, s \in A : r.id = s.id => r = s
      BY <1>3 DEF Dense, IdsDense
    <3>2. \A r \in A : \A s \in R : r.id # s.id
      BY <1>1, <1>3, <1>4
    <3> QED BY <1>4, <3>1, <3>2
  <2>5. \A r, s \in A \cup R : r.height < s.height => r.id < s.id
    <3>1. \A r, s \in A : r.height < s.height => r.id < s.id
      BY <1>3 DEF Dense, IdsDense
    <3>2. \A r, s \in R : ~(r.height < s.height)
      BY <1>1, <1>4
    <3>3. \A r \in R : \A s \in A : ~(r.height < s.height)
      BY <1>0, <1>1, <1>3, <1>4, <1>5
    <3> QED BY <2>3, <3>1, <3>2, <3>3
  <2> QED BY <1>2, <1>6, <2>1, <2>2, <2>4, <2>5 DEF IdsDense
<1>10. ASSUME savepoints' # <<>> PROVE SavepointsExact'
  <2> DEFINE N == L - n - d + 1
  <2>0. N \in Nat /\ n \in Nat /\ d \in Nat /\ h = C - n + 1 /\ L - n - d \in Nat /\ C \in Nat
    <3>1. d \in Nat /\ L \in Nat /\ n \in Nat /\ n <= L /\ d <= L - n
      BY <1>0, <1>1, <1>7
    <3> HIDE DEF L, d
    <3>2. L - n - d \in Nat /\ L - n - d + 1 \in Nat
      BY <3>1
    <3> QED BY <1>0, <1>1, <3>1, <3>2
  <2>1. \A i \in 1..N : i \in 1..L - n - d \/ i = N
    BY <1>0, <1>7, <2>0
  <2>2. \A i \in 1..L - n - d : i + d \in 1..L /\ i + d \in 1..L - n /\ C - L + (i + d) = h - N + i
    BY <1>0, <1>1, <1>7, <2>0
  <2>3. h - N + N = h
    BY <1>1, <2>0
  <2>4. \A i \in 1..L - n - d :
          /\ savepoints[i + d].remove = {r \in rows : r.height = h - N + i}
          /\ \A r \in rows : r.id > savepoints[i + d].lastId <=> r.height >= h - N + i
          /\ savepoints[i + d].lastId <= id
    <3> SUFFICES ASSUME NEW i \in 1..L - n - d
                 PROVE  /\ savepoints[i + d].remove = {r \in rows : r.height = h - N + i}
                        /\ \A r \in rows : r.id > savepoints[i + d].lastId <=> r.height >= h - N + i
                        /\ savepoints[i + d].lastId <= id
      OBVIOUS
    <3>1. i + d \in 1..L /\ i + d \in 1..L - n /\ C - L + (i + d) = h - N + i
      BY <2>2
    <3>2. SavedHeight(i + d) = h - N + i
      BY <3>1 DEF SavedHeight, C, L
    <3>3. savepoints[i + d].lastId <= id
      BY <3>1, RowsAfterHeight DEF L, id
    <3> HIDE DEF N
    <3> QED BY <3>1, <3>2, <3>3 DEF Dense, SavepointsExact, L
  <2>5. \A i \in 1..L - n - d : savepoints[i + d].lastId \in Nat
    <3>1. \A i \in 1..L : savepoints[i] \in Savepoint
      BY <1>0 DEF L
    <3> QED BY <2>2, <3>1 DEF Savepoint
  <2>6. \A i \in 1..L - n - d : h - N + i <= C - n
    BY <1>0, <1>7, <2>0
  <2> HIDE DEF N
  <2>7. \A i \in 1..N : savepoints'[i].remove = {r \in A \cup R : r.height = h - N + i}
    <3> SUFFICES ASSUME NEW i \in 1..N
                 PROVE  savepoints'[i].remove = {r \in A \cup R : r.height = h - N + i}
      OBVIOUS
    <3>1. CASE i \in 1..L - n - d
      <4>1. savepoints'[i].remove = {r \in rows : r.height = h - N + i}
        BY <1>8, <1>10, <2>4, <3>1
      <4>2. h - N + i <= C - n
        BY <2>6, <3>1
      <4>3. \A r \in R : r.height # h - N + i
        BY <1>0, <1>1, <1>4, <4>2, <2>0 DEF C
      <4>4. \A r \in rows : r.height = h - N + i => r \in A
        BY <4>2, <1>5, RowsAfterHeight DEF A, C
      <4> QED BY <1>3, <4>1, <4>3, <4>4
    <3>2. CASE i = N
      <4>1. savepoints'[i].remove = R
        BY <1>8, <1>10, <3>2 DEF N
      <4>2. \A r \in A : r.height # h
        BY <1>0, <1>1, <1>3, <1>5, <2>0 DEF C
      <4>3. h - N + i = h
        BY <2>3, <3>2
      <4> QED BY <1>4, <4>1, <4>2, <4>3
    <3> QED BY <2>1, <3>1, <3>2
  <2>8. \A i \in 1..N : \A r \in A \cup R : r.id > savepoints'[i].lastId <=> r.height >= h - N + i
    <3> SUFFICES ASSUME NEW i \in 1..N, NEW r \in A \cup R
                 PROVE  r.id > savepoints'[i].lastId <=> r.height >= h - N + i
      OBVIOUS
    <3>1. CASE i \in 1..L - n - d
      <4>1. savepoints'[i].lastId = savepoints[i + d].lastId /\ savepoints[i + d].lastId <= id
        BY <1>8, <1>10, <2>4, <3>1
      <4>2. CASE r \in A
        BY <1>3, <2>4, <3>1, <4>1, <4>2
      <4>3. CASE r \in R
        <5>1. r.id > savepoints'[i].lastId
          BY <1>1, <1>4, <2>5, <3>1, <4>1, <4>3
        <5>2. r.height = h /\ h - N + i <= C - n /\ C \in Nat
          BY <1>0, <1>4, <2>6, <3>1, <4>3
        <5>3. r.height >= h - N + i
          BY <2>0, <5>2
        <5> QED BY <5>1, <5>3
      <4> QED BY <4>2, <4>3
    <3>2. CASE i = N
      <4>1. savepoints'[i].lastId = id
        BY <1>8, <1>10, <3>2 DEF N
      <4>2. h - N + i = h
        BY <2>3, <3>2
      <4>3. CASE r \in A
        <5>1. r.id \in 1..id /\ r.height <= C - n /\ r.height \in Nat
          BY <1>3, <1>5, <4>3
        <5>2. ~(r.id > id) /\ ~(r.height >= h)
          BY <1>0, <1>1, <2>0, <5>1
        <5> QED BY <4>1, <4>2, <5>2
      <4>4. CASE r \in R
        <5>1. r.id > id /\ r.height >= h
          BY <1>1, <1>4, <4>4
        <5> QED BY <4>1, <4>2, <5>1
      <4> QED BY <4>3, <4>4
    <3> QED BY <2>1, <3>1, <3>2
  <2>9. \A i \in 1..N : savepoints'[i].lastId <= id
    <3>1. savepoints'[N].lastId = id
      BY <1>8, <1>10 DEF N
    <3> QED BY <1>1, <1>8, <1>10, <2>1, <2>4, <3>1
  <2>10. \A i, j \in 1..N : i <= j => savepoints'[i].lastId <= savepoints'[j].lastId
    <3> SUFFICES ASSUME NEW i \in 1..N, NEW j \in 1..N, i <= j
                 PROVE  savepoints'[i].lastId <= savepoints'[j].lastId
      OBVIOUS
    <3>1. CASE j = N
      <4>1. savepoints'[j].lastId = id
        BY <1>8, <1>10, <3>1 DEF N
      <4> QED BY <2>9, <4>1
    <3>2. CASE j # N
      <4>1. j \in 1..L - n - d
        BY <2>1, <3>2
      <4>2. i \in 1..L - n - d
        BY <4>1, <2>0
      <4>3. i + d \in 1..L /\ j + d \in 1..L /\ i + d <= j + d
        BY <2>0, <2>2, <4>1, <4>2
      <4>4. savepoints[i + d].lastId <= savepoints[j + d].lastId
        BY <4>3 DEF Dense, SavepointsExact, L
      <4> QED BY <1>8, <1>10, <4>1, <4>2, <4>4
    <3> QED BY <3>1, <3>2
  <2>11. \A i \in 1..N : savepoints'[i].lastId <= id + m
    <3>1. \A i \in 1..N : savepoints'[i].lastId \in Nat
      <4>1. savepoints'[N].lastId \in Nat
        BY <1>1, <1>8, <1>10 DEF N
      <4> QED BY <1>8, <1>10, <2>1, <2>5, <4>1
    <3> QED BY <1>1, <2>9, <3>1
  <2>12. Len(savepoints') = N /\ \A i : Len(chain') - Len(savepoints') + i = h - N + i
    BY <1>6, <1>8, <1>10 DEF N
  <2>13. \A i \in 1..Len(savepoints') : SavedHeight(i)' = h - N + i
    BY <2>12 DEF SavedHeight
  <2>14. \A i \in 1..Len(savepoints') :
           /\ savepoints'[i].remove = {r \in rows' : r.height = SavedHeight(i)'}
           /\ \A r \in rows' : r.id > savepoints'[i].lastId <=> r.height >= SavedHeight(i)'
    <3> SUFFICES ASSUME NEW i \in 1..Len(savepoints')
                 PROVE  /\ savepoints'[i].remove = {r \in rows' : r.height = SavedHeight(i)'}
                        /\ \A r \in rows' : r.id > savepoints'[i].lastId <=> r.height >= SavedHeight(i)'
      OBVIOUS
    <3>1. i \in 1..N /\ SavedHeight(i)' = h - N + i /\ rows' = A \cup R
      BY <1>2, <2>12, <2>13
    <3>2. savepoints'[i].remove = {r \in A \cup R : r.height = h - N + i}
      BY <2>7, <3>1
    <3>3. \A r \in A \cup R : r.id > savepoints'[i].lastId <=> r.height >= h - N + i
      BY <2>8, <3>1
    <3> QED BY <3>1, <3>2, <3>3
  <2>15. \A i \in 1..Len(savepoints') : savepoints'[i].lastId <= lastId'
    BY <1>2, <2>11, <2>12
  <2>16. \A i, j \in 1..Len(savepoints') : i <= j => savepoints'[i].lastId <= savepoints'[j].lastId
    BY <2>10, <2>12
  <2> QED BY <2>14, <2>15, <2>16 DEF SavepointsExact
<1>11. ASSUME savepoints' = <<>> PROVE SavepointsExact'
  <2>1. Len(savepoints') = 0
    BY <1>11
  <2> QED BY <2>1 DEF SavepointsExact
<1> QED BY <1>9, <1>10, <1>11 DEF Dense

LEMMA DenseStop ==
  ASSUME SType, Dense, Stop
  PROVE  Dense'
<1> DEFINE n == Len(savepoints)
<1>0. /\ chain \in Seq(Nat) /\ n \in 0..Len(savepoints) /\ n \in Nat /\ Len(chain) \in Nat /\ n <= Len(chain)
  BY DEF SType
<1>1. /\ rows' = RowsAfter(n) /\ lastId' = IdAfter(n) /\ savepoints' = <<>>
      /\ chain' = SubSeq(chain, 1, Len(chain) - n)
  BY DEF Stop
<1>2. Len(chain') = Len(chain) - n /\ Len(savepoints') = 0
  BY <1>0, <1>1
<1>3. /\ \A r \in RowsAfter(n) : r \in rows /\ r.id \in 1..IdAfter(n) /\ r.height <= Len(chain) - n
      /\ \A k \in 1..IdAfter(n) : \E r \in RowsAfter(n) : r.id = k
  BY <1>0, DenseAfter
<1> HIDE DEF n
<1>4. IdsDense'
  <2>1. /\ \A r \in rows' : r.id \in 1..lastId'
        /\ \A k \in 1..lastId' : \E r \in rows' : r.id = k
    BY <1>1, <1>3
  <2>2. \A r \in rows' : r \in rows /\ r.height <= Len(chain')
    BY <1>1, <1>2, <1>3
  <2>3. /\ \A r, s \in rows' : r.id = s.id => r = s
        /\ \A r, s \in rows' : r.height < s.height => r.id < s.id
    BY <2>2 DEF Dense, IdsDense
  <2> QED BY <2>1, <2>2, <2>3 DEF IdsDense
<1>5. SavepointsExact'
  BY <1>2 DEF SavepointsExact
<1> QED BY <1>4, <1>5 DEF Dense

LEMMA DenseSame ==
  ASSUME Dense, UNCHANGED <<rows, lastId, savepoints, chain>>
  PROVE  Dense'
BY DEF Dense, IdsDense, SavepointsExact, SavedHeight

LEMMA DenseNext ==
  SType /\ Dense /\ [Next]_vars => Dense'
<1> SUFFICES ASSUME SType, Dense, [Next]_vars PROVE Dense'
  OBVIOUS
<1>1. CASE HandOver \/ Signal \/ CancelToken \/ Exit \/ Restart \/ Terminated \/ UNCHANGED vars
  <2>1. UNCHANGED <<rows, lastId, savepoints, chain>>
    BY <1>1 DEF HandOver, Signal, CancelToken, Exit, Restart, Terminated, vars, indexerVars
  <2> QED BY <2>1, DenseSame
<1>2. CASE Sender \/ Client
  <2>1. UNCHANGED <<rows, lastId, savepoints, chain>>
    BY <1>2 DEF Sender, Receive, Empty, Check, Publish, SenderOnly,
                Client, Subscribe, Take, Lagged, Leave, ClientOnly, indexerVars
  <2> QED BY <2>1, DenseSame
<1> QED BY <1>1, <1>2, DenseHandle, DenseStop DEF Next

\* The ids number the entries, so that there are as many entries as ids.
LEMMA IdsCount ==
  ASSUME SType, IdsDense
  PROVE  HistoryDense
<1> DEFINE f == [k \in 1..lastId |-> CHOOSE r \in rows : r.id = k]
<1>0. lastId \in Nat
  BY DEF SType
<1>1. \A k \in 1..lastId : f[k] \in rows /\ f[k].id = k
  BY DEF IdsDense
<1>2. f \in [1..lastId -> rows]
  BY <1>1
<1>3. \A r \in rows : r.id \in 1..lastId /\ f[r.id] = r
  BY <1>1 DEF IdsDense
<1> HIDE DEF f
<1>4. f \in Injection(1..lastId, rows)
  BY <1>1, <1>2 DEF Injection, IsInjective
<1>5. f \in Surjection(1..lastId, rows)
  BY <1>2, <1>3 DEF Surjection
<1>6. ExistsBijection(1..lastId, rows)
  BY <1>4, <1>5 DEF ExistsBijection, Bijection
<1>7. IsFiniteSet(1..lastId) /\ Cardinality(1..lastId) = lastId
  BY <1>0, FS_Interval
<1>8. Cardinality(rows) = lastId
  BY <1>6, <1>7, FS_Bijection
<1>9. {r.id : r \in rows} = 1..lastId
  BY DEF IdsDense
<1> QED BY <1>8, <1>9 DEF HistoryDense, IdsDense

\* last_history_id (src/inscriptions/process_data.rs, src/reorg.rs): after any series of blocks,
\* reorgs, stops and restarts the entries in address_token_to_history have the ids from
\* 1 to last_history_id, each once and in the order of their blocks.
THEOREM HistoryIdsDense == Spec => []HistoryDense
<1> DEFINE I == SType /\ Dense
<1>1. Init => I
  <2> SUFFICES ASSUME Init PROVE I
    OBVIOUS
  <2>1. rows = {} /\ lastId = 0 /\ 1..lastId = {} /\ Len(savepoints) = 0
    BY DEF Init
  <2>2. IdsDense
    BY <2>1 DEF IdsDense
  <2>3. SavepointsExact
    BY <2>1 DEF SavepointsExact
  <2> QED BY <2>2, <2>3, STypeInit DEF Dense
<1>2. I /\ [Next]_vars => I'
  BY STypeNext, DenseNext
<1>3. I => HistoryDense
  BY IdsCount DEF Dense
<1> HIDE DEF I
<1> QED BY <1>1, <1>2, <1>3, PTL DEF Spec
============================================================================
