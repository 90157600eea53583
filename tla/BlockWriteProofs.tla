-------------------------- MODULE BlockWriteProofs --------------------------
(***************************************************************************)
(* The four safety properties of BlockWrite and the three of Readers, for  *)
(* every length of the chain, of the cache and of a history.               *)
(*                                                                         *)
(* What is hard here is that a block is many writes, that the process may  *)
(* be killed between any two of them, and that nothing of it is undone     *)
(* then.  Between two blocks (Resting) the tables are either at Rest,      *)
(* exactly those of the chain the process is at, or Damaged: the rows of   *)
(* that chain, perhaps with a part of the next block, which however spends *)
(* an output that is no longer in prevouts, so that it can never be        *)
(* applied, and the process cannot go on from there.  Within a block       *)
(* (ApplyFlight, UndoFlight) there are tables d0 at rest, a series w of    *)
(* writes of which the first k are done, and each table is what the last   *)
(* of these made of it (Holds).  What a kill there leaves is again one of  *)
(* the two (CrashApply, CrashUndo), because prevouts is the first table    *)
(* that a block writes and last_block comes after all the rows, and        *)
(* because an undone block gives up last_block first and prevouts last.    *)
(*                                                                         *)
(* Histories with a reorg need one thing more: AtOk says that the          *)
(* savepoints are those of the last blocks of `at`, each with the rows of  *)
(* the chain below it, and that the node has every block below them.       *)
(*                                                                         *)
(* The rows of a chain are a recursive function (RowsOf): that it exists   *)
(* (RowsExist) and depends only on the blocks of the chain (RowsAgree) is  *)
(* shown by induction over sets of numbers, what one more block makes of   *)
(* it by RowsAppend.                                                       *)
(*                                                                         *)
(* A request reads tables that change between its reads.  RInv adds to Inv *)
(* what it may rely on.  A block has one height, on the node as in the     *)
(* process, and the same blocks below it there (ChainsOk).  The block of a *)
(* proof or of a row of the history, as long as it is on the node, is at   *)
(* the height it was read for, and block_info has no other block there     *)
(* (Belongs): a joined row is of the same block, however late it is read.  *)
(* A block that was found in block_info stays there, or is not applied     *)
(* again before the process stops (Settled), and with it every table has   *)
(* all the rows up to it (InfoHasRows).  Every step of the node and of the *)
(* indexer keeps these (Follows).  Unmoved: until the indexer begins a     *)
(* block, the row of last_block is there.                                  *)
(***************************************************************************)
EXTENDS Readers, SumProofs

USE WriteAssumption

----------------------------------------------------------------------------
(* Sequences of writes. *)

IsASeq(s) == \E T : s \in Seq(T)

LEMMA Concat ==
  ASSUME NEW u, NEW v, IsASeq(u), IsASeq(v)
  PROVE  /\ IsASeq(u \o v) /\ Len(u \o v) = Len(u) + Len(v) /\ Len(u) \in Nat /\ Len(v) \in Nat
         /\ \A i \in 1..Len(u) : (u \o v)[i] = u[i]
         /\ \A i \in 1..Len(v) : (u \o v)[Len(u) + i] = v[i]
         /\ \A i \in Len(u) + 1..Len(u) + Len(v) : (u \o v)[i] = v[i - Len(u)]
<1> PICK S : u \in Seq(S)
  BY DEF IsASeq
<1> PICK T : v \in Seq(T)
  BY DEF IsASeq
<1>1. u \in Seq(S \cup T) /\ v \in Seq(S \cup T)
  OBVIOUS
<1>2. u \o v \in Seq(S \cup T)
  BY <1>1
<1> QED BY <1>1, <1>2 DEF IsASeq

LEMMA PutIs ==
  ASSUME NEW t, NEW v
  PROVE  /\ IsASeq(Put(t, v)) /\ Len(Put(t, v)) = 1
         /\ Put(t, v)[1].table = t /\ Put(t, v)[1].value = v
<1>1. Put(t, v) \in Seq({[table |-> t, value |-> v]})
  BY DEF Put
<1> QED BY <1>1 DEF IsASeq, Put

RowSet == {"outpoint_to_partials", "outpoint_to_inscription_offsets",
           "token_id_to_event", "block_events", "last_history_id",
           "outpoint_to_event", "address_token_to_history",
           "token_to_meta", "address_token_to_balance", "address_location_to_transfer"}

Elements(s) == {s[i] : i \in 1..Len(s)}

LEMMA ElementsConcat ==
  ASSUME NEW u, NEW v, IsASeq(u), IsASeq(v)
  PROVE  Elements(u \o v) = Elements(u) \cup Elements(v)
<1> DEFINE s == u \o v
<1>1. /\ Len(s) = Len(u) + Len(v) /\ Len(u) \in Nat /\ Len(v) \in Nat
      /\ \A i \in 1..Len(u) : s[i] = u[i]
      /\ \A i \in 1..Len(v) : s[Len(u) + i] = v[i]
      /\ \A i \in Len(u) + 1..Len(u) + Len(v) : s[i] = v[i - Len(u)]
  BY Concat
<1> HIDE DEF s
<1>2. ASSUME NEW i \in 1..Len(s) PROVE s[i] \in Elements(u) \cup Elements(v)
  <2>1. CASE i \in 1..Len(u)
    BY <1>1, <2>1 DEF Elements
  <2>2. CASE i \notin 1..Len(u)
    <3>1. i \in Len(u) + 1..Len(u) + Len(v) /\ i - Len(u) \in 1..Len(v)
      BY <1>1, <2>2
    <3> QED BY <1>1, <3>1 DEF Elements
  <2> QED BY <2>1, <2>2
<1>3. ASSUME NEW i \in 1..Len(u) PROVE u[i] \in Elements(s)
  <2>1. i \in 1..Len(s) /\ u[i] = s[i]
    BY <1>1
  <2> QED BY <2>1 DEF Elements
<1>4. ASSUME NEW i \in 1..Len(v) PROVE v[i] \in Elements(s)
  <2>1. Len(u) + i \in 1..Len(s) /\ v[i] = s[Len(u) + i]
    BY <1>1
  <2> QED BY <2>1 DEF Elements
<1>5. Elements(s) = Elements(u) \cup Elements(v)
  BY <1>2, <1>3, <1>4 DEF Elements
<1> QED BY <1>5 DEF s

LEMMA TablesAre ==
  /\ IsASeq(OrdinalsTables) /\ IsASeq(HistoryTables) /\ IsASeq(MetaTables) /\ IsASeq(TransferTables)
  /\ IsASeq(UndoneHistory)
  /\ Elements(OrdinalsTables) = {"outpoint_to_partials", "outpoint_to_inscription_offsets"}
  /\ Elements(HistoryTables) = {"token_id_to_event", "block_events", "last_history_id",
                                "outpoint_to_event", "address_token_to_history"}
  /\ Elements(MetaTables) = {"token_to_meta", "address_token_to_balance"}
  /\ Elements(TransferTables) = {"address_location_to_transfer"}
  /\ Elements(UndoneHistory) = Elements(HistoryTables)
<1>1. /\ IsASeq(OrdinalsTables) /\ IsASeq(HistoryTables) /\ IsASeq(MetaTables)
      /\ IsASeq(TransferTables) /\ IsASeq(UndoneHistory)
  <2>1. OrdinalsTables \in Seq(RowSet)
    BY DEF OrdinalsTables, RowSet
  <2>2. HistoryTables \in Seq(RowSet)
    BY DEF HistoryTables, RowSet
  <2>3. MetaTables \in Seq(RowSet)
    BY DEF MetaTables, RowSet
  <2>4. TransferTables \in Seq(RowSet)
    BY DEF TransferTables, RowSet
  <2>5. UndoneHistory \in Seq(RowSet)
    BY DEF UndoneHistory, RowSet
  <2> QED BY <2>1, <2>2, <2>3, <2>4, <2>5 DEF IsASeq
<1>2. /\ Len(OrdinalsTables) = 2 /\ Len(HistoryTables) = 5 /\ Len(MetaTables) = 2
      /\ Len(TransferTables) = 1 /\ Len(UndoneHistory) = 5
  BY DEF OrdinalsTables, HistoryTables, MetaTables, TransferTables, UndoneHistory
<1>4. 1..1 = {1} /\ 1..2 = {1, 2} /\ 1..5 = {1, 2, 3, 4, 5}
  OBVIOUS
<1>5. Elements(OrdinalsTables) = {"outpoint_to_partials", "outpoint_to_inscription_offsets"}
  BY <1>2, <1>4 DEF Elements, OrdinalsTables
<1>6. Elements(HistoryTables) = {"token_id_to_event", "block_events", "last_history_id",
                                "outpoint_to_event", "address_token_to_history"}
  BY <1>2, <1>4 DEF Elements, HistoryTables
<1>7. Elements(MetaTables) = {"token_to_meta", "address_token_to_balance"}
  BY <1>2, <1>4 DEF Elements, MetaTables
<1>8. Elements(TransferTables) = {"address_location_to_transfer"}
  BY <1>2, <1>4 DEF Elements, TransferTables
<1>9. Elements(UndoneHistory) = {"token_id_to_event", "block_events", "last_history_id",
                                "outpoint_to_event", "address_token_to_history"}
  BY <1>2, <1>4 DEF Elements, UndoneHistory
<1> QED BY <1>1, <1>5, <1>6, <1>7, <1>8, <1>9 DEF IsASeq

LEMMA RowNamesAre ==
  /\ RowNames = RowSet
  /\ RowNames = Elements(OrdinalsTables) \cup Elements(HistoryTables \o MetaTables)
                  \cup Elements(TransferTables)
<1>1. IsASeq(OrdinalsTables \o HistoryTables) /\ IsASeq(OrdinalsTables \o HistoryTables \o MetaTables)
      /\ IsASeq(HistoryTables \o MetaTables)
  BY TablesAre, Concat
<1>2. Elements(RowTables) = Elements(OrdinalsTables) \cup Elements(HistoryTables)
                            \cup Elements(MetaTables) \cup Elements(TransferTables)
  BY <1>1, TablesAre, ElementsConcat DEF RowTables
<1>3. Elements(HistoryTables \o MetaTables) = Elements(HistoryTables) \cup Elements(MetaTables)
  BY TablesAre, ElementsConcat
<1>4. RowNames = Elements(RowTables)
  <2>1. IsASeq(RowTables)
    BY <1>1, TablesAre, Concat DEF RowTables
  <2>2. DOMAIN RowTables = 1..Len(RowTables)
    BY <2>1 DEF IsASeq
  <2> QED BY <2>2 DEF RowNames, Elements
<1> QED BY <1>2, <1>3, <1>4, TablesAre DEF RowSet

----------------------------------------------------------------------------
(* What a series of writes leaves in a table. *)

\* Not written by w; written, and v in the end.
Skips(w, t) == \A i \in 1..Len(w) : w[i].table # t
Ends(w, t, v) ==
  \E i \in 1..Len(w) : /\ w[i].table = t
                       /\ \A j \in i..Len(w) : w[j].table = t => w[j].value = v

LEMMA SkipsConcat ==
  ASSUME NEW u, NEW v, IsASeq(u), IsASeq(v), NEW t
  PROVE  Skips(u \o v, t) <=> Skips(u, t) /\ Skips(v, t)
<1> DEFINE s == u \o v
<1>1. /\ Len(s) = Len(u) + Len(v) /\ Len(u) \in Nat /\ Len(v) \in Nat
      /\ \A i \in 1..Len(u) : s[i] = u[i]
      /\ \A i \in 1..Len(v) : s[Len(u) + i] = v[i]
      /\ \A i \in Len(u) + 1..Len(u) + Len(v) : s[i] = v[i - Len(u)]
  BY Concat
<1> HIDE DEF s
<1>2. ASSUME Skips(u, t), Skips(v, t), NEW i \in 1..Len(s) PROVE s[i].table # t
  <2>1. CASE i \in 1..Len(u)
    BY <1>1, <1>2, <2>1 DEF Skips
  <2>2. CASE i \notin 1..Len(u)
    <3>1. i \in Len(u) + 1..Len(u) + Len(v) /\ i - Len(u) \in 1..Len(v)
      BY <1>1, <2>2
    <3> QED BY <1>1, <1>2, <3>1 DEF Skips
  <2> QED BY <2>1, <2>2
<1>3. ASSUME Skips(s, t), NEW i \in 1..Len(u) PROVE u[i].table # t
  <2>1. i \in 1..Len(s) /\ u[i] = s[i]
    BY <1>1
  <2> QED BY <1>3, <2>1 DEF Skips
<1>4. ASSUME Skips(s, t), NEW i \in 1..Len(v) PROVE v[i].table # t
  <2>1. Len(u) + i \in 1..Len(s) /\ v[i] = s[Len(u) + i]
    BY <1>1
  <2> QED BY <1>4, <2>1 DEF Skips
<1>5. Skips(s, t) <=> Skips(u, t) /\ Skips(v, t)
  BY <1>2, <1>3, <1>4 DEF Skips
<1> QED BY <1>5 DEF s

LEMMA EndsConcat ==
  ASSUME NEW u, NEW v, IsASeq(u), IsASeq(v), NEW t, NEW x
  PROVE  /\ Ends(v, t, x) => Ends(u \o v, t, x)
         /\ Ends(u, t, x) /\ Skips(v, t) => Ends(u \o v, t, x)
<1> DEFINE s == u \o v
<1>1. /\ Len(s) = Len(u) + Len(v) /\ Len(u) \in Nat /\ Len(v) \in Nat
      /\ \A i \in 1..Len(u) : s[i] = u[i]
      /\ \A i \in 1..Len(v) : s[Len(u) + i] = v[i]
      /\ \A i \in Len(u) + 1..Len(u) + Len(v) : s[i] = v[i - Len(u)]
  BY Concat
<1> HIDE DEF s
<1>2. ASSUME Ends(v, t, x) PROVE Ends(s, t, x)
  <2> PICK i \in 1..Len(v) : v[i].table = t /\ \A j \in i..Len(v) : v[j].table = t => v[j].value = x
    BY <1>2 DEF Ends
  <2>1. Len(u) + i \in 1..Len(s) /\ s[Len(u) + i].table = t
    BY <1>1
  <2>2. ASSUME NEW j \in Len(u) + i..Len(s), s[j].table = t PROVE s[j].value = x
    <3>1. j \in Len(u) + 1..Len(u) + Len(v) /\ j - Len(u) \in i..Len(v)
      BY <1>1
    <3>2. s[j] = v[j - Len(u)]
      BY <1>1, <3>1
    <3> QED BY <2>2, <3>1, <3>2
  <2> QED BY <2>1, <2>2 DEF Ends
<1>3. ASSUME Ends(u, t, x), Skips(v, t) PROVE Ends(s, t, x)
  <2> PICK i \in 1..Len(u) : u[i].table = t /\ \A j \in i..Len(u) : u[j].table = t => u[j].value = x
    BY <1>3 DEF Ends
  <2>1. i \in 1..Len(s) /\ s[i].table = t
    BY <1>1
  <2>2. ASSUME NEW j \in i..Len(s), s[j].table = t PROVE s[j].value = x
    <3>1. CASE j \in 1..Len(u)
      <4>1. s[j] = u[j] /\ j \in i..Len(u)
        BY <1>1, <3>1
      <4> QED BY <2>2, <4>1
    <3>2. CASE j \notin 1..Len(u)
      <4>1. j \in Len(u) + 1..Len(u) + Len(v) /\ j - Len(u) \in 1..Len(v)
        BY <1>1, <3>2
      <4>2. s[j] = v[j - Len(u)]
        BY <1>1, <4>1
      <4> QED BY <1>3, <2>2, <4>1, <4>2 DEF Skips
    <3> QED BY <3>1, <3>2
  <2> QED BY <2>1, <2>2 DEF Ends
<1> QED BY <1>2, <1>3 DEF s

\* A single write, and a series of writes to different tables.
LEMMA PutEnds ==
  ASSUME NEW t, NEW v
  PROVE  /\ IsASeq(Put(t, v)) /\ Ends(Put(t, v), t, v)
         /\ \A u : u # t => Skips(Put(t, v), u)
<1>1. Len(Put(t, v)) = 1 /\ Put(t, v)[1].table = t /\ Put(t, v)[1].value = v
  BY PutIs
<1>2. 1..1 = {1}
  OBVIOUS
<1> QED BY <1>1, <1>2, PutIs DEF Ends, Skips

\* w writes the tables of S and no others, values in P on the way and f in the end.
Rewrites(w, S, P, f) ==
  /\ IsASeq(w)
  /\ \A i \in 1..Len(w) : w[i].table \in S /\ w[i].value \in P[w[i].table]
  /\ \A t \in S : Ends(w, t, f[t])

LEMMA RewritesConcat ==
  ASSUME NEW u, NEW v, NEW S, NEW T, NEW P, NEW f,
         Rewrites(u, S, P, f), Rewrites(v, T, P, f), S \cap T = {}
  PROVE  Rewrites(u \o v, S \cup T, P, f)
<1> DEFINE s == u \o v
<1>0. IsASeq(u) /\ IsASeq(v)
  BY DEF Rewrites
<1>1. /\ IsASeq(s) /\ Len(s) = Len(u) + Len(v) /\ Len(u) \in Nat /\ Len(v) \in Nat
      /\ \A i \in 1..Len(u) : s[i] = u[i]
      /\ \A i \in Len(u) + 1..Len(u) + Len(v) : s[i] = v[i - Len(u)]
  BY <1>0, Concat
<1>2. ASSUME NEW t \in T PROVE Ends(s, t, f[t])
  <2>1. Ends(v, t, f[t])
    BY DEF Rewrites
  <2> QED BY <1>0, <2>1, EndsConcat
<1>3. ASSUME NEW t \in S PROVE Ends(s, t, f[t])
  <2>1. Ends(u, t, f[t])
    BY DEF Rewrites
  <2>2. Skips(v, t)
    BY DEF Rewrites, Skips
  <2> QED BY <1>0, <2>1, <2>2, EndsConcat
<1> HIDE DEF s
<1>4. ASSUME NEW i \in 1..Len(s) PROVE s[i].table \in S \cup T /\ s[i].value \in P[s[i].table]
  <2>1. CASE i \in 1..Len(u)
    BY <1>1, <2>1 DEF Rewrites
  <2>2. CASE i \notin 1..Len(u)
    <3>1. i \in Len(u) + 1..Len(u) + Len(v) /\ i - Len(u) \in 1..Len(v)
      BY <1>1, <2>2
    <3> QED BY <1>1, <3>1 DEF Rewrites
  <2> QED BY <2>1, <2>2
<1> QED BY <1>1, <1>2, <1>3, <1>4 DEF Rewrites, s

LEMMA RewritesTwice ==
  ASSUME NEW t, NEW x, NEW y, NEW P, NEW f, x \in P[t], y \in P[t], f[t] = y
  PROVE  Rewrites(Put(t, x) \o Put(t, y), {t}, P, f)
<1> DEFINE u == Put(t, x)
           v == Put(t, y)
           s == u \o v
<1>0. IsASeq(u) /\ IsASeq(v)
  BY PutIs
<1>1. /\ Len(u) = 1 /\ u[1].table = t /\ u[1].value = x
      /\ Len(v) = 1 /\ v[1].table = t /\ v[1].value = y
  BY PutIs
<1>2. IsASeq(s) /\ Len(s) = 2 /\ s[1] = u[1] /\ s[2] = v[1]
  <2> HIDE DEF u, v
  <2>1. /\ IsASeq(s) /\ Len(s) = Len(u) + Len(v)
        /\ \A i \in 1..Len(u) : s[i] = u[i]
        /\ \A i \in 1..Len(v) : s[Len(u) + i] = v[i]
    BY <1>0, Concat
  <2> HIDE DEF s
  <2>2. 1 \in 1..Len(u) /\ 1 \in 1..Len(v) /\ Len(u) + 1 = 2
    BY <1>1
  <2> QED BY <1>1, <2>1, <2>2
<1>3. Ends(s, t, y)
  BY <1>0, PutEnds, EndsConcat
<1> HIDE DEF s, u, v
<1>4. \A i \in 1..Len(s) : s[i].table = t /\ s[i].value \in P[t]
  BY <1>1, <1>2
<1>5. Rewrites(s, {t}, P, f)
  BY <1>2, <1>3, <1>4 DEF Rewrites
<1> QED BY <1>5 DEF s, u, v

LEMMA RewritesEach ==
  ASSUME NEW ts, IsASeq(ts), NEW P, NEW f, \A t \in Elements(ts) : f[t] \in P[t],
         NEW w, w = [i \in DOMAIN ts |-> [table |-> ts[i], value |-> f[ts[i]]]]
  PROVE  Rewrites(w, Elements(ts), P, f)
<1> PICK T : ts \in Seq(T)
  BY DEF IsASeq
<1> DEFINE W == {[table |-> t, value |-> f[t]] : t \in T}
<1>1. DOMAIN ts = 1..Len(ts) /\ Len(ts) \in Nat /\ \A i \in 1..Len(ts) : ts[i] \in T
  OBVIOUS
<1>2. \A i \in 1..Len(ts) : w[i] = [table |-> ts[i], value |-> f[ts[i]]]
  BY <1>1
<1>3. w \in [1..Len(ts) -> W]
  BY <1>1
<1>4. w \in Seq(W) /\ Len(w) = Len(ts)
  BY <1>1, <1>3
<1>5. \A i \in 1..Len(ts) : w[i].table = ts[i] /\ w[i].value = f[ts[i]]
  BY <1>2
<1>6. \A i \in 1..Len(w) : w[i].table \in Elements(ts) /\ w[i].value \in P[w[i].table]
  BY <1>4, <1>5 DEF Elements
<1>7. ASSUME NEW t \in Elements(ts) PROVE Ends(w, t, f[t])
  <2> PICK i \in 1..Len(ts) : ts[i] = t
    BY DEF Elements
  <2>1. \A j \in i..Len(w) : w[j].table = t => w[j].value = f[t]
    BY <1>1, <1>4, <1>5
  <2> QED BY <2>1, <1>4, <1>5 DEF Ends
<1> QED BY <1>4, <1>6, <1>7 DEF Rewrites, IsASeq

LEMMA RewritesRows ==
  ASSUME NEW w, NEW P, NEW f, Rewrites(w, RowNames, P, f)
  PROVE  /\ IsASeq(w)
         /\ \A i \in 1..Len(w) : w[i].table \in RowNames /\ w[i].value \in P[w[i].table]
         /\ \A t \in RowNames : Ends(w, t, f[t])
         /\ \A t : t \notin RowNames => Skips(w, t)
BY DEF Rewrites, Skips

LEMMA TokenWritesAre ==
  ASSUME NEW b
  PROVE  Rewrites(TokenWrites(b), RowNames,
                  [t \in RowNames |-> {Append(db[t], b), Append(db[t], -b)}],
                  [t \in RowNames |-> Append(db[t], b)])
<1> DEFINE P == [t \in RowNames |-> {Append(db[t], b), Append(db[t], -b)}]
           f == [t \in RowNames |-> Append(db[t], b)]
           ts == HistoryTables \o MetaTables
<1>1. /\ RowNames = RowSet /\ Elements(ts) = Elements(HistoryTables) \cup Elements(MetaTables)
      /\ IsASeq(ts)
  BY RowNamesAre, TablesAre, ElementsConcat, Concat
<1>2. \A t \in RowNames : /\ Append(db[t], b) \in P[t] /\ Append(db[t], -b) \in P[t]
                          /\ f[t] = Append(db[t], b)
  OBVIOUS
<1>3. /\ OrdinalsTables[1] = "outpoint_to_partials"
      /\ OrdinalsTables[2] = "outpoint_to_inscription_offsets"
      /\ TransferTables[1] = "address_location_to_transfer"
  BY DEF OrdinalsTables, TransferTables
<1>4. Elements(ts) = {"token_id_to_event", "block_events", "last_history_id", "outpoint_to_event",
                      "address_token_to_history", "token_to_meta", "address_token_to_balance"}
  BY <1>1, TablesAre
<1>5. \A t \in Elements(ts) : t \in RowNames
  BY <1>1, <1>4 DEF RowSet
<1>6. /\ OrdinalsTables[1] \in RowNames /\ OrdinalsTables[2] \in RowNames /\ TransferTables[1] \in RowNames
  BY <1>1, <1>3 DEF RowSet
<1>7. ASSUME NEW t \in RowNames PROVE Rewrites(Replace(t, b), {t}, P, f)
  <2> HIDE DEF P, f
  <2> QED BY <1>2, RewritesTwice DEF Replace
<1>8. Rewrites(Insert(ts, b), Elements(ts), P, f)
  <2>1. \A t \in Elements(ts) : f[t] \in P[t] /\ f[t] = Append(db[t], b)
    BY <1>2, <1>5
  <2>2. \A i \in DOMAIN ts : ts[i] \in Elements(ts)
    <3> PICK T : ts \in Seq(T)
      BY <1>1 DEF IsASeq
    <3>1. DOMAIN ts = 1..Len(ts)
      OBVIOUS
    <3> QED BY <3>1 DEF Elements
  <2> HIDE DEF P, f, ts
  <2>3. Insert(ts, b) = [i \in DOMAIN ts |-> [table |-> ts[i], value |-> f[ts[i]]]]
    BY <2>1, <2>2 DEF Insert
  <2> QED BY <1>1, <2>1, <2>3, RewritesEach
<1> DEFINE w1 == Replace(OrdinalsTables[1], b)
           w2 == Replace(OrdinalsTables[2], b)
           w3 == Insert(ts, b)
           w4 == Replace(TransferTables[1], b)
           T1 == {OrdinalsTables[1]}
           T2 == {OrdinalsTables[2]}
           T4 == {TransferTables[1]}
<1>9. /\ Rewrites(w1, T1, P, f) /\ Rewrites(w2, T2, P, f)
      /\ Rewrites(w3, Elements(ts), P, f) /\ Rewrites(w4, T4, P, f)
  BY <1>6, <1>7, <1>8
<1>10. /\ T1 \cap T2 = {} /\ (T1 \cup T2) \cap Elements(ts) = {}
       /\ (T1 \cup T2 \cup Elements(ts)) \cap T4 = {}
  BY <1>3, <1>4
<1>11. T1 \cup T2 \cup Elements(ts) \cup T4 = RowNames
  BY <1>1, <1>3, <1>4 DEF RowSet
<1>12. TokenWrites(b) = w1 \o w2 \o w3 \o w4
  BY DEF TokenWrites
<1> HIDE DEF w1, w2, w3, w4, T1, T2, T4, P, f, ts
<1>13. Rewrites(w1 \o w2, T1 \cup T2, P, f)
  BY <1>9, <1>10, RewritesConcat
<1>14. Rewrites(w1 \o w2 \o w3, T1 \cup T2 \cup Elements(ts), P, f)
  BY <1>9, <1>10, <1>13, RewritesConcat
<1>15. Rewrites(TokenWrites(b), RowNames, P, f)
  BY <1>9, <1>10, <1>11, <1>12, <1>14, RewritesConcat
<1> QED BY <1>15 DEF P, f

----------------------------------------------------------------------------
(* Prefixes, and the rows of a chain. *)

LEMMA PrefixIs ==
  ASSUME NEW s \in Seq(Int), NEW t \in Seq(Int)
  PROVE  IsPrefix(s, t) <=> Len(s) <= Len(t) /\ \A i \in 1..Len(s) : s[i] = t[i]
<1>1. Len(s) \in Nat /\ Len(t) \in Nat
  OBVIOUS
<1>2. SubSeq(s, 1, Len(s)) = s
  OBVIOUS
<1>3. ASSUME Len(s) <= Len(t)
      PROVE  /\ SubSeq(t, 1, Len(s)) \in Seq(Int) /\ Len(SubSeq(t, 1, Len(s))) = Len(s)
             /\ \A i \in 1..Len(s) : SubSeq(t, 1, Len(s))[i] = t[i]
  BY <1>1, <1>3
<1>4. ASSUME Len(s) <= Len(t), \A i \in 1..Len(s) : s[i] = t[i]
      PROVE  s = SubSeq(t, 1, Len(s))
  <2> PICK u : u = SubSeq(t, 1, Len(s))
    OBVIOUS
  <2>1. u \in Seq(Int) /\ Len(u) = Len(s) /\ \A i \in 1..Len(s) : u[i] = s[i]
    BY <1>3, <1>4
  <2>2. u = s
    BY <2>1
  <2> QED BY <2>2
<1> QED BY <1>2, <1>3, <1>4 DEF IsPrefix

LEMMA PrefixSelf == ASSUME NEW s \in Seq(Int) PROVE IsPrefix(s, s)
BY PrefixIs

LEMMA PrefixTrans ==
  ASSUME NEW s \in Seq(Int), NEW t \in Seq(Int), NEW u \in Seq(Int), IsPrefix(s, t), IsPrefix(t, u)
  PROVE  IsPrefix(s, u)
<1>1. Len(s) <= Len(t) /\ \A i \in 1..Len(s) : s[i] = t[i]
  BY PrefixIs
<1>2. Len(t) <= Len(u) /\ \A i \in 1..Len(t) : t[i] = u[i]
  BY PrefixIs
<1>3. Len(s) \in Nat /\ Len(t) \in Nat /\ Len(u) \in Nat
  OBVIOUS
<1>4. Len(s) <= Len(u) /\ \A i \in 1..Len(s) : s[i] = u[i]
  BY <1>1, <1>2, <1>3
<1> QED BY <1>4, PrefixIs

LEMMA PrefixAppend ==
  ASSUME NEW s \in Seq(Int), NEW t \in Seq(Int), IsPrefix(s, t), NEW x \in Int
  PROVE  Append(t, x) \in Seq(Int) /\ IsPrefix(s, Append(t, x))
<1> DEFINE u == Append(t, x)
<1>1. u \in Seq(Int) /\ Len(u) = Len(t) + 1 /\ \A i \in 1..Len(t) : u[i] = t[i]
  OBVIOUS
<1>2. Len(t) \in Nat /\ Len(s) \in Nat
  OBVIOUS
<1> HIDE DEF u
<1>3. Len(t) <= Len(u) /\ \A i \in 1..Len(t) : t[i] = u[i]
  BY <1>1, <1>2
<1>4. IsPrefix(t, u)
  BY <1>1, <1>3, PrefixIs
<1>5. IsPrefix(s, u)
  BY <1>1, <1>4, PrefixTrans
<1> QED BY <1>1, <1>5 DEF u

\* The first n blocks of a chain.
LEMMA FirstBlocks ==
  ASSUME NEW c \in Seq(Nat), NEW n \in 0..Len(c)
  PROVE  /\ SubSeq(c, 1, n) \in Seq(Nat) /\ Len(SubSeq(c, 1, n)) = n
         /\ \A i \in 1..n : SubSeq(c, 1, n)[i] = c[i]
<1>1. n \in Nat /\ n <= Len(c)
  OBVIOUS
<1> QED BY <1>1

LEMMA SameChain ==
  ASSUME NEW c \in Seq(Nat), NEW d \in Seq(Nat), Len(c) = Len(d), \A i \in 1..Len(c) : c[i] = d[i]
  PROVE  c = d
OBVIOUS

\* RowsOf, for the outputs sp that the blocks spend: the same for spends (RowsOfIs).
Tokens(sp, b, h) == h >= StartHeight /\ sp[b] # {}
RowsTo(sp, c, n, g) ==
  g = [h \in 0..n |-> IF h = 0 THEN <<>>
                      ELSE IF Tokens(sp, c[h], h) THEN Append(g[h - 1], c[h]) ELSE g[h - 1]]
RowsIn(sp, c) == (CHOOSE g : RowsTo(sp, c, Len(c), g))[Len(c)]

LEMMA RowsOfIs == ASSUME NEW c PROVE RowsOf(c) = RowsIn(spends, c)
BY DEF RowsOf, RowsIn, RowsTo, Tokens, HasTokens

LEMMA RowsExist ==
  ASSUME NEW sp, NEW c, NEW n \in Nat
  PROVE  \E g : RowsTo(sp, c, n, g)
<1> DEFINE F(h, before) == IF Tokens(sp, c[h], h) THEN Append(before, c[h]) ELSE before
           P == {m \in Nat : \E g : g = [h \in 0..m |-> IF h = 0 THEN <<>> ELSE F(h, g[h - 1])]}
<1> HIDE DEF F
<1>1. 0 \in P
  <2> DEFINE g == [h \in 0..0 |-> <<>>]
  <2>1. g = [h \in 0..0 |-> IF h = 0 THEN <<>> ELSE F(h, g[h - 1])]
    OBVIOUS
  <2> QED BY <2>1
<1>2. ASSUME NEW m \in P PROVE m + 1 \in P
  <2> PICK f : f = [h \in 0..m |-> IF h = 0 THEN <<>> ELSE F(h, f[h - 1])]
    OBVIOUS
  <2> DEFINE g == [h \in 0..m + 1 |-> IF h = m + 1 THEN F(m + 1, f[m]) ELSE f[h]]
             w == [h \in 0..m + 1 |-> IF h = 0 THEN <<>> ELSE F(h, g[h - 1])]
  <2>1. ASSUME NEW h \in 0..m + 1 PROVE g[h] = w[h]
    <3>1. CASE h = m + 1
      <4>1. h # 0 /\ h - 1 = m /\ g[m] = f[m]
        BY <3>1
      <4>2. g[h] = F(h, f[m]) /\ w[h] = F(h, g[h - 1])
        BY <3>1, <4>1
      <4> HIDE DEF g, w
      <4> QED BY <4>1, <4>2
    <3>2. CASE h \in 0..m
      <4>1. f[h] = IF h = 0 THEN <<>> ELSE F(h, f[h - 1])
        BY <3>2
      <4>2. g[h] = f[h] /\ (h # 0 => g[h - 1] = f[h - 1])
        BY <3>2
      <4>3. w[h] = IF h = 0 THEN <<>> ELSE F(h, g[h - 1])
        OBVIOUS
      <4> HIDE DEF g, w
      <4> QED BY <4>1, <4>2, <4>3
    <3> QED BY <3>1, <3>2
  <2>2. g = w
    BY <2>1
  <2>3. m + 1 \in Nat
    OBVIOUS
  <2> HIDE DEF g
  <2> QED BY <2>2, <2>3
<1>3. P = Nat
  BY <1>1, <1>2, SetInduction
<1>4. n \in P
  <2> HIDE DEF P
  <2> QED BY <1>3
<1> QED BY <1>4 DEF RowsTo, F

\* The rows of the first n blocks depend on those blocks and what they spend.
SameBlocks(sp, tp, c, d, n) == \A h \in 1..n : c[h] = d[h] /\ sp[c[h]] = tp[c[h]]

LEMMA RowsAgree ==
  ASSUME NEW sp, NEW tp, NEW c, NEW d, NEW n \in Nat,
         NEW g, NEW k, NEW x \in Nat, NEW y \in Nat, RowsTo(sp, c, x, g), RowsTo(tp, d, y, k),
         n <= x, n <= y, SameBlocks(sp, tp, c, d, n)
  PROVE  g[n] = k[n]
<1>0. n \in Nat /\ x \in Nat /\ y \in Nat /\ n <= x /\ n <= y
  OBVIOUS
<1>1. \A h \in 0..x : g[h] = IF h = 0 THEN <<>> ELSE IF Tokens(sp, c[h], h) THEN Append(g[h - 1], c[h]) ELSE g[h - 1]
  BY DEF RowsTo
<1>2. \A h \in 0..y : k[h] = IF h = 0 THEN <<>> ELSE IF Tokens(tp, d[h], h) THEN Append(k[h - 1], d[h]) ELSE k[h - 1]
  BY DEF RowsTo
<1> DEFINE P == {m \in Nat : m <= n => g[m] = k[m]}
<1>3. 0 \in P
  BY <1>0, <1>1, <1>2
<1>4. ASSUME NEW m \in P PROVE m + 1 \in P
  <2>1. ASSUME m + 1 <= n PROVE g[m + 1] = k[m + 1]
    <3>1. /\ m + 1 \in 0..x /\ m + 1 \in 0..y /\ m + 1 \in 1..n /\ m + 1 # 0 /\ (m + 1) - 1 = m
          /\ m <= n
      BY <1>0, <2>1
    <3>2. g[m] = k[m]
      BY <3>1
    <3>3. c[m + 1] = d[m + 1] /\ (Tokens(sp, c[m + 1], m + 1) <=> Tokens(tp, d[m + 1], m + 1))
      BY <3>1 DEF Tokens, SameBlocks
    <3> QED BY <1>1, <1>2, <3>1, <3>2, <3>3
  <2> QED BY <2>1
<1>5. P = Nat
  BY <1>3, <1>4, SetInduction
<1>6. n \in P
  <2> HIDE DEF P
  <2> QED BY <1>0, <1>5
<1> QED BY <1>6

LEMMA RowsSame ==
  ASSUME NEW sp, NEW tp, NEW c \in Seq(Nat), \A h \in 1..Len(c) : sp[c[h]] = tp[c[h]]
  PROVE  RowsIn(sp, c) = RowsIn(tp, c)
<1> DEFINE g == CHOOSE x : RowsTo(sp, c, Len(c), x)
           k == CHOOSE x : RowsTo(tp, c, Len(c), x)
<1>1. Len(c) \in Nat /\ Len(c) \in 0..Len(c)
  OBVIOUS
<1>2. RowsTo(sp, c, Len(c), g) /\ RowsTo(tp, c, Len(c), k)
  BY <1>1, RowsExist
<1> HIDE DEF g, k
<1>3. g[Len(c)] = k[Len(c)]
  <2>1. Len(c) <= Len(c) /\ \A h \in 1..Len(c) : c[h] = c[h] /\ sp[c[h]] = tp[c[h]]
    BY <1>1
  <2> PICK n : n = Len(c)
    OBVIOUS
  <2>2. SameBlocks(sp, tp, c, c, n)
    BY <2>1 DEF SameBlocks
  <2>3. n \in Nat /\ n <= n /\ RowsTo(sp, c, n, g) /\ RowsTo(tp, c, n, k)
    BY <1>1, <1>2
  <2>4. g[n] = k[n]
    BY ONLY <2>2, <2>3, RowsAgree
  <2> QED BY <2>4
<1> QED BY <1>3 DEF RowsIn, g, k

LEMMA RowsEmpty == ASSUME NEW sp PROVE RowsIn(sp, <<>>) = <<>>
<1> DEFINE g == CHOOSE x : RowsTo(sp, <<>>, 0, x)
<1>1. RowsTo(sp, <<>>, 0, g)
  BY RowsExist
<1> HIDE DEF g
<1>2. g[0] = <<>>
  BY <1>1 DEF RowsTo
<1>3. Len(<<>>) = 0
  OBVIOUS
<1> QED BY <1>2, <1>3 DEF RowsIn, g

LEMMA RowsAppend ==
  ASSUME NEW sp, NEW c \in Seq(Nat), NEW b \in Nat
  PROVE  RowsIn(sp, Append(c, b)) =
           IF Tokens(sp, b, Len(c) + 1) THEN Append(RowsIn(sp, c), b) ELSE RowsIn(sp, c)
<1> DEFINE d == Append(c, b)
           g == CHOOSE x : RowsTo(sp, c, Len(c), x)
           k == CHOOSE x : RowsTo(sp, d, Len(d), x)
<1>1. /\ Len(c) \in Nat /\ Len(c) \in 0..Len(c) /\ d \in Seq(Nat) /\ Len(d) = Len(c) + 1
      /\ d[Len(c) + 1] = b /\ \A h \in 1..Len(c) : c[h] = d[h]
  OBVIOUS
<1> HIDE DEF d
<1>2. Len(d) \in Nat /\ Len(c) <= Len(d) /\ Len(d) \in 0..Len(d) /\ Len(d) # 0 /\ Len(d) - 1 = Len(c)
  BY <1>1
<1>3. RowsTo(sp, c, Len(c), g) /\ RowsTo(sp, d, Len(d), k)
  BY <1>1, <1>2, RowsExist
<1> HIDE DEF g, k
<1>4. g[Len(c)] = k[Len(c)]
  <2>1. Len(c) <= Len(d) /\ \A h \in 1..Len(c) : c[h] = d[h] /\ sp[c[h]] = sp[c[h]]
    BY <1>1, <1>2
  <2> PICK n : n = Len(c)
    OBVIOUS
  <2>2. n <= Len(d) /\ SameBlocks(sp, sp, c, d, n)
    BY <1>1, <2>1 DEF SameBlocks
  <2>3. n \in Nat /\ n <= n /\ Len(d) \in Nat /\ RowsTo(sp, c, n, g) /\ RowsTo(sp, d, Len(d), k)
    BY <1>1, <1>2, <1>3
  <2>4. g[n] = k[n]
    BY ONLY <2>2, <2>3, RowsAgree
  <2> QED BY <2>4
<1>5. k[Len(d)] = IF Tokens(sp, d[Len(d)], Len(d)) THEN Append(k[Len(d) - 1], d[Len(d)]) ELSE k[Len(d) - 1]
  BY <1>2, <1>3 DEF RowsTo
<1>6. RowsIn(sp, d) = k[Len(d)] /\ RowsIn(sp, c) = g[Len(c)]
  BY DEF RowsIn, g, k
<1> QED BY <1>1, <1>2, <1>4, <1>5, <1>6 DEF d

LEMMA FirstBlocksAppend ==
  ASSUME NEW c \in Seq(Nat), NEW n \in Nat, n + 1 <= Len(c)
  PROVE  SubSeq(c, 1, n + 1) = Append(SubSeq(c, 1, n), c[n + 1])
<1> DEFINE x == SubSeq(c, 1, n)
           y == SubSeq(c, 1, n + 1)
<1>1. c[n + 1] \in Nat /\ n \in 0..Len(c) /\ n + 1 \in 0..Len(c)
  OBVIOUS
<1>2. x \in Seq(Nat) /\ Len(x) = n /\ \A i \in 1..n : x[i] = c[i]
  BY <1>1, FirstBlocks
<1>3. y \in Seq(Nat) /\ Len(y) = n + 1 /\ \A i \in 1..n + 1 : y[i] = c[i]
  BY <1>1, FirstBlocks
<1> HIDE DEF x, y
<1> DEFINE z == Append(x, c[n + 1])
<1>4. z \in Seq(Nat) /\ Len(z) = n + 1 /\ z[n + 1] = c[n + 1] /\ \A i \in 1..n : z[i] = x[i]
  BY <1>1, <1>2
<1> HIDE DEF z
<1>5. \A i \in 1..n + 1 : i \in 1..n \/ i = n + 1
  OBVIOUS
<1>6. \A i \in 1..Len(y) : y[i] = z[i]
  BY <1>2, <1>3, <1>4, <1>5
<1>7. y = z
  BY <1>3, <1>4, <1>6, SameChain
<1> QED BY <1>7 DEF x, y, z

LEMMA RowsType ==
  ASSUME NEW sp, NEW c \in Seq(Nat), NEW n \in 0..Len(c)
  PROVE  RowsIn(sp, SubSeq(c, 1, n)) \in Seq(Int)
<1> DEFINE R(m) == RowsIn(sp, SubSeq(c, 1, m))
           P == {m \in Nat : m <= Len(c) => R(m) \in Seq(Int)}
<1>0. Len(c) \in Nat /\ n \in Nat /\ n <= Len(c)
  OBVIOUS
<1>1. 0 \in P
  <2>1. SubSeq(c, 1, 0) = <<>>
    BY <1>0
  <2>2. R(0) = <<>> /\ <<>> \in Seq(Int)
    <3>1. RowsIn(sp, <<>>) = <<>>
      BY RowsEmpty
    <3>2. <<>> \in Seq(Int)
      OBVIOUS
    <3> QED BY <2>1, <3>1, <3>2
  <2> HIDE DEF R
  <2> QED BY <2>2
<1>2. ASSUME NEW m \in P PROVE m + 1 \in P
  <2> SUFFICES ASSUME m + 1 <= Len(c) PROVE R(m + 1) \in Seq(Int)
    OBVIOUS
  <2>0. m \in Nat /\ m <= Len(c) /\ c[m + 1] \in Nat /\ c[m + 1] \in Int /\ m \in 0..Len(c)
    BY <1>0
  <2>1. R(m) \in Seq(Int)
    BY <2>0
  <2>2. R(m + 1) = IF Tokens(sp, c[m + 1], m + 1) THEN Append(R(m), c[m + 1]) ELSE R(m)
    <3>1. SubSeq(c, 1, m) \in Seq(Nat) /\ Len(SubSeq(c, 1, m)) = m
      BY <2>0, FirstBlocks
    <3>2. SubSeq(c, 1, m + 1) = Append(SubSeq(c, 1, m), c[m + 1])
      BY <2>0, FirstBlocksAppend
    <3> PICK x : x = SubSeq(c, 1, m)
      OBVIOUS
    <3>3. x \in Seq(Nat) /\ Len(x) = m
      BY <3>1
    <3>4. RowsIn(sp, Append(x, c[m + 1])) =
            IF Tokens(sp, c[m + 1], m + 1) THEN Append(RowsIn(sp, x), c[m + 1]) ELSE RowsIn(sp, x)
      BY <2>0, <3>3, RowsAppend
    <3> QED BY <3>2, <3>4
  <2> PICK x, y, v : x = R(m) /\ y = R(m + 1) /\ v = c[m + 1]
    OBVIOUS
  <2> HIDE DEF R
  <2>3. x \in Seq(Int) /\ v \in Int /\ (y = Append(x, v) \/ y = x)
    BY <2>0, <2>1, <2>2
  <2>4. Append(x, v) \in Seq(Int)
    BY <2>3
  <2> QED BY <2>3, <2>4
<1>3. P = Nat
  BY <1>1, <1>2, SetInduction
<1>4. n \in P
  <2> HIDE DEF P
  <2> QED BY <1>0, <1>3
<1> QED BY <1>0, <1>4

\* Rows come block by block: they are a sequence, those of a shorter chain are a prefix
\* of them, and there are none before START_HEIGHT.
LEMMA RowsGrow ==
  ASSUME NEW sp, NEW c \in Seq(Nat), NEW n \in 0..Len(c)
  PROVE  /\ RowsIn(sp, SubSeq(c, 1, n)) \in Seq(Int) /\ RowsIn(sp, c) \in Seq(Int)
         /\ IsPrefix(RowsIn(sp, SubSeq(c, 1, n)), RowsIn(sp, c))
         /\ Len(c) < StartHeight => RowsIn(sp, c) = <<>>
<1> DEFINE R(m) == RowsIn(sp, SubSeq(c, 1, m))
           P == {m \in Nat : m <= Len(c) => /\ R(m) \in Seq(Int)
                                            /\ n <= m => IsPrefix(R(n), R(m))
                                            /\ m < StartHeight => R(m) = <<>>}
<1>0. Len(c) \in Nat /\ n \in Nat /\ n <= Len(c)
  OBVIOUS
<1>1. 0 \in P
  <2>1. SubSeq(c, 1, 0) = <<>>
    BY <1>0
  <2>2. R(0) = <<>> /\ <<>> \in Seq(Int)
    <3>1. RowsIn(sp, <<>>) = <<>>
      BY RowsEmpty
    <3>2. <<>> \in Seq(Int)
      OBVIOUS
    <3> QED BY <2>1, <3>1, <3>2
  <2>3. n <= 0 => n = 0
    BY <1>0
  <2>4. IsPrefix(<<>>, <<>>)
    <3>1. <<>> \in Seq(Int)
      OBVIOUS
    <3> QED BY <3>1, PrefixSelf
  <2> HIDE DEF R
  <2> QED BY <2>2, <2>3, <2>4
<1>2. ASSUME NEW m \in P PROVE m + 1 \in P
  <2> SUFFICES ASSUME m + 1 <= Len(c)
               PROVE  /\ R(m + 1) \in Seq(Int)
                      /\ n <= m + 1 => IsPrefix(R(n), R(m + 1))
                      /\ m + 1 < StartHeight => R(m + 1) = <<>>
    OBVIOUS
  <2>0. m \in Nat /\ m <= Len(c) /\ c[m + 1] \in Nat /\ c[m + 1] \in Int /\ m \in 0..Len(c)
    BY <1>0
  <2>1. R(m) \in Seq(Int) /\ (n <= m => IsPrefix(R(n), R(m))) /\ (m < StartHeight => R(m) = <<>>)
    BY <2>0
  <2>2. R(m + 1) = IF Tokens(sp, c[m + 1], m + 1) THEN Append(R(m), c[m + 1]) ELSE R(m)
    <3>1. SubSeq(c, 1, m) \in Seq(Nat) /\ Len(SubSeq(c, 1, m)) = m
      BY <2>0, FirstBlocks
    <3>2. SubSeq(c, 1, m + 1) = Append(SubSeq(c, 1, m), c[m + 1])
      BY <2>0, FirstBlocksAppend
    <3> PICK x : x = SubSeq(c, 1, m)
      OBVIOUS
    <3>3. x \in Seq(Nat) /\ Len(x) = m
      BY <3>1
    <3>4. RowsIn(sp, Append(x, c[m + 1])) =
            IF Tokens(sp, c[m + 1], m + 1) THEN Append(RowsIn(sp, x), c[m + 1]) ELSE RowsIn(sp, x)
      BY <2>0, <3>3, RowsAppend
    <3> QED BY <3>2, <3>4
  <2> HIDE DEF R
  <2>3. R(m + 1) \in Seq(Int)
    <3> PICK x, y, v : x = R(m) /\ y = R(m + 1) /\ v = c[m + 1]
      OBVIOUS
    <3>1. x \in Seq(Int) /\ v \in Int /\ (y = Append(x, v) \/ y = x)
      BY <2>0, <2>1, <2>2
    <3>2. Append(x, v) \in Seq(Int)
      BY <3>1
    <3> QED BY <3>1, <3>2
  <2>4. CASE n <= m
    <3>1. IsPrefix(R(n), R(m + 1))
      <4>1. R(n) \in Seq(Int)
        BY RowsType DEF R
      <4> QED BY <2>0, <2>1, <2>2, <2>4, <4>1, PrefixAppend
    <3>2. m + 1 < StartHeight => R(m + 1) = <<>>
      BY <2>0, <2>1, <2>2 DEF Tokens
    <3> QED BY <2>3, <3>1, <3>2
  <2>5. CASE n = m + 1
    <3>1. m + 1 < StartHeight => R(m + 1) = <<>>
      BY <2>0, <2>1, <2>2 DEF Tokens
    <3> QED BY <2>3, <2>5, <3>1, PrefixSelf
  <2>6. n <= m + 1 => n <= m \/ n = m + 1
    BY <1>0, <2>0
  <2>7. m + 1 < StartHeight => R(m + 1) = <<>>
    BY <2>0, <2>1, <2>2 DEF Tokens
  <2> QED BY <2>3, <2>4, <2>5, <2>6, <2>7
<1>3. P = Nat
  BY <1>1, <1>2, SetInduction
<1>4. n \in P /\ Len(c) \in P
  <2> HIDE DEF P
  <2> QED BY <1>0, <1>3
<1>5. SubSeq(c, 1, Len(c)) = c
  OBVIOUS
<1>6. R(Len(c)) = RowsIn(sp, c)
  BY <1>5
<1>7. n <= n /\ Len(c) <= Len(c)
  BY <1>0
<1> HIDE DEF R
<1>8. R(n) \in Seq(Int) /\ R(Len(c)) \in Seq(Int) /\ IsPrefix(R(n), R(Len(c)))
      /\ (Len(c) < StartHeight => R(Len(c)) = <<>>)
  BY <1>0, <1>4, <1>7
<1> QED BY <1>6, <1>8 DEF R

----------------------------------------------------------------------------
(* Tables d on the way from d0, after the first k of the writes w. *)

Tables == RowSet \cup {"prevouts", "fullhash_to_address", "last_block", "block_info", "proof_of_history"}

\* td is what is left of w.
Left(td, w, k) ==
  /\ IsASeq(td) /\ Len(w) \in Nat /\ k \in 0..Len(w) /\ Len(td) = Len(w) - k
  /\ \A i \in 1..Len(td) : td[i] = w[k + i]

\* A table is what the last of the writes made of it.
Holds(d, d0, w, k) ==
  \A t \in Tables :
    \/ d[t] = d0[t] /\ \A i \in 1..k : w[i].table # t
    \/ \E i \in 1..k : w[i].table = t /\ d[t] = w[i].value /\ \A j \in i + 1..k : w[j].table # t

LEMMA HoldsFirst == ASSUME NEW d, NEW w PROVE Holds(d, d, w, 0)
<1>1. 1..0 = {}
  OBVIOUS
<1> QED BY <1>1 DEF Holds

LEMMA LeftFirst == ASSUME NEW w, IsASeq(w) PROVE Left(w, w, 0)
<1> PICK T : w \in Seq(T)
  BY DEF IsASeq
<1>1. Len(w) \in Nat /\ 0 \in 0..Len(w) /\ Len(w) = Len(w) - 0 /\ \A i \in 1..Len(w) : w[i] = w[0 + i]
  OBVIOUS
<1> QED BY <1>1 DEF Left

Updated(f, h, v) == [f EXCEPT ![h] = v]

\* The tables e after the first j of the writes, and what is left of them.
WroteOne(e, d0, w, u, j) ==
  /\ DOMAIN e = Tables /\ Left(u, w, j) /\ Holds(e, d0, w, j)
  /\ u = <<>> => j = Len(w)

LEMMA HoldsWrite ==
  ASSUME NEW d, DOMAIN d = Tables, NEW d0, NEW w, NEW k, NEW td, Left(td, w, k), td # <<>>, Holds(d, d0, w, k),
         NEW x, x = Updated(d, Head(td).table, Head(td).value), NEW y, y = Tail(td),
         NEW v, v = k + 1
  PROVE  WroteOne(x, d0, w, y, v)
<1> DEFINE e == [d EXCEPT ![Head(td).table] = Head(td).value]
           u == Tail(td)
<1> PICK T : td \in Seq(T)
  BY DEF IsASeq, Left
<1>1. /\ u \in Seq(T) /\ Len(td) \in Nat /\ Len(td) >= 1 /\ Len(u) = Len(td) - 1 /\ Head(td) = td[1]
      /\ \A i \in 1..Len(u) : u[i] = td[i + 1]
  OBVIOUS
<1>2. /\ Len(w) \in Nat /\ k \in Nat /\ k <= Len(w) /\ Len(td) = Len(w) - k
      /\ \A i \in 1..Len(td) : td[i] = w[k + i]
  BY DEF Left
<1>3. k + 1 \in 1..Len(w) /\ Head(td) = w[k + 1] /\ Len(u) = Len(w) - (k + 1)
  BY <1>1, <1>2
<1>4. Left(u, w, k + 1)
  <2>1. ASSUME NEW i \in 1..Len(u) PROVE u[i] = w[(k + 1) + i]
    <3>1. i + 1 \in 1..Len(td) /\ k + (i + 1) = (k + 1) + i
      BY <1>1, <1>2
    <3> QED BY <1>1, <1>2, <3>1
  <2>2. IsASeq(u)
    BY <1>1 DEF IsASeq
  <2>3. k + 1 \in 0..Len(w)
    BY <1>3
  <2> HIDE DEF u
  <2> QED BY <1>2, <1>3, <2>1, <2>2, <2>3 DEF Left
<1>5. DOMAIN e = Tables /\ \A t \in Tables : e[t] = IF w[k + 1].table = t THEN w[k + 1].value ELSE d[t]
  BY <1>3
<1>6. Holds(e, d0, w, k + 1)
  <2> HIDE DEF e
  <2> SUFFICES ASSUME NEW t \in Tables
      PROVE \/ e[t] = d0[t] /\ \A i \in 1..k + 1 : w[i].table # t
            \/ \E i \in 1..k + 1 : w[i].table = t /\ e[t] = w[i].value /\ \A j \in i + 1..k + 1 : w[j].table # t
    BY DEF Holds
  <2>0. \A i \in 1..k + 1 : i \in 1..k \/ i = k + 1
    BY <1>2
  <2>1. CASE w[k + 1].table = t
    <3>1. k + 1 \in 1..k + 1 /\ k + 1 + 1..k + 1 = {}
      BY <1>2
    <3>2. e[t] = w[k + 1].value
      BY <1>5, <2>1
    <3> QED BY <2>1, <3>1, <3>2
  <2>2. CASE w[k + 1].table # t
    <3>1. e[t] = d[t]
      BY <1>5, <2>2
    <3>2. CASE d[t] = d0[t] /\ \A i \in 1..k : w[i].table # t
      BY <2>0, <2>2, <3>1, <3>2
    <3>3. CASE \E i \in 1..k : w[i].table = t /\ d[t] = w[i].value /\ \A j \in i + 1..k : w[j].table # t
      <4> PICK i \in 1..k : w[i].table = t /\ d[t] = w[i].value /\ \A j \in i + 1..k : w[j].table # t
        BY <3>3
      <4>1. i \in 1..k + 1 /\ \A j \in i + 1..k + 1 : j \in i + 1..k \/ j = k + 1
        BY <1>2
      <4> QED BY <2>2, <3>1, <4>1
    <3> QED BY <3>2, <3>3 DEF Holds
  <2> QED BY <2>1, <2>2
<1>7. u = <<>> => k + 1 = Len(w)
  <2>0. u \in Seq(T)
    BY <1>1
  <2> HIDE DEF u
  <2>1. u = <<>> => Len(u) = 0
    BY <2>0
  <2> QED BY <1>2, <1>3, <2>1
<1>8. DOMAIN e = Tables
  BY <1>5
<1>9. x = e /\ y = u
  BY DEF Updated
<1> HIDE DEF e, u
<1> QED BY <1>4, <1>6, <1>7, <1>8, <1>9 DEF WroteOne

\* A table that was not written yet, one that will not be written any more, and any other.
LEMMA HoldsOld ==
  ASSUME NEW d, NEW d0, NEW w, NEW k, Holds(d, d0, w, k),
         NEW t \in Tables, \A i \in 1..k : w[i].table # t
  PROVE  d[t] = d0[t]
BY DEF Holds

LEMMA HoldsNew ==
  ASSUME NEW d, NEW d0, NEW w, NEW k \in Nat, Holds(d, d0, w, k), k <= Len(w), Len(w) \in Nat,
         NEW t \in Tables, \A i \in k + 1..Len(w) : w[i].table # t, NEW v, Ends(w, t, v)
  PROVE  d[t] = v
<1> PICK n \in 1..Len(w) : w[n].table = t /\ \A j \in n..Len(w) : w[j].table = t => w[j].value = v
  BY DEF Ends
<1>1. n \in 1..k
  <2>1. n \notin k + 1..Len(w)
    OBVIOUS
  <2> QED BY <2>1
<1> PICK i \in 1..k : w[i].table = t /\ d[t] = w[i].value /\ \A j \in i + 1..k : w[j].table # t
  BY <1>1 DEF Holds
<1>2. i >= n
  <2>1. n \notin i + 1..k
    OBVIOUS
  <2> QED BY <1>1, <2>1
<1>3. i \in n..Len(w)
  BY <1>2
<1> QED BY <1>3

LEMMA HoldsSome ==
  ASSUME NEW d, NEW d0, NEW w, NEW k, Holds(d, d0, w, k), NEW t \in Tables
  PROVE  d[t] = d0[t] \/ \E i \in 1..k : w[i].table = t /\ d[t] = w[i].value
BY DEF Holds

----------------------------------------------------------------------------
(* The writes of a block and of an undone block. *)

\* What a row table t may hold on the way from x: one more block, or a half of it.
Halves(x, b) == {Append(x, b), Append(x, -b)}

ApplyIs(w, d, sp, b, h) ==
  /\ IsASeq(w) /\ Len(w) \in Nat /\ Len(w) >= 3
  /\ w[1].table = "prevouts" /\ w[1].value = d["prevouts"] \cup {b}
  /\ w[2].table = "prevouts" /\ w[2].value = (d["prevouts"] \cup {b}) \ sp[b]
  /\ w[3].table = "fullhash_to_address"
  /\ h < StartHeight => Len(w) = 3
  /\ h >= StartHeight =>
       LET m == Len(w) - 3
       IN  /\ m >= 3
           /\ w[m + 1].table = "last_block" /\ w[m + 1].value = h
           /\ w[m + 2].table = "block_info" /\ w[m + 2].value = Updated(d["block_info"], h, b)
           /\ w[m + 3].table = "proof_of_history"
           /\ w[m + 3].value = Updated(d["proof_of_history"], h, Append(d["proof_of_history"][h - 1], b))
           /\ \A i \in 4..m : w[i].table \in RowSet /\ w[i].value \in Halves(d[w[i].table], b)
           /\ Tokens(sp, b, h) => \A t \in RowSet : Ends(w, t, Append(d[t], b))
           /\ ~Tokens(sp, b, h) => m = 3

\* The same for an undone block, and for a row table that held x before it.
Remains(x, b) == {x, Append(x, -b)}

UndoIs(w, d, sp, b, h, was) ==
  /\ IsASeq(w) /\ Len(w) \in Nat /\ Len(w) >= 3
  /\ w[1].table = "last_block" /\ w[1].value = h - 1
  /\ w[2].table = "block_info" /\ w[2].value = Updated(d["block_info"], h, Missing)
  /\ w[Len(w)].table = "prevouts" /\ w[Len(w)].value = d["prevouts"] \cup sp[b]
  /\ \A i \in 3..Len(w) - 1 : w[i].table \in RowSet /\ w[i].value \in Remains(was[w[i].table], b)
  /\ Tokens(sp, b, h) => \A t \in RowSet : Ends(w, t, was[t])
  /\ ~Tokens(sp, b, h) => Len(w) = 3

LEMMA ThreePuts ==
  ASSUME NEW t1, NEW v1, NEW t2, NEW v2, NEW t3, NEW v3
  PROVE  LET w == Put(t1, v1) \o Put(t2, v2) \o Put(t3, v3)
         IN  /\ IsASeq(w) /\ Len(w) = 3
             /\ w[1].table = t1 /\ w[1].value = v1 /\ w[2].table = t2 /\ w[2].value = v2
             /\ w[3].table = t3 /\ w[3].value = v3
<1> DEFINE x == Put(t1, v1)
           y == Put(t2, v2)
           z == Put(t3, v3)
<1>1. /\ IsASeq(x) /\ Len(x) = 1 /\ x[1].table = t1 /\ x[1].value = v1
      /\ IsASeq(y) /\ Len(y) = 1 /\ y[1].table = t2 /\ y[1].value = v2
      /\ IsASeq(z) /\ Len(z) = 1 /\ z[1].table = t3 /\ z[1].value = v3
  BY PutIs
<1>0. IsASeq(x) /\ IsASeq(y) /\ IsASeq(z) /\ IsASeq(x \o y)
  <2>1. IsASeq(x) /\ IsASeq(y) /\ IsASeq(z)
    BY <1>1
  <2> HIDE DEF x, y, z
  <2> QED BY <2>1, Concat
<1> HIDE DEF x, y, z
<1> DEFINE u == x \o y
<1>2. IsASeq(u) /\ Len(u) = 2 /\ u[1] = x[1] /\ u[2] = y[1]
  <2>1. /\ IsASeq(u) /\ Len(u) = Len(x) + Len(y)
        /\ \A i \in 1..Len(x) : u[i] = x[i]
        /\ \A i \in 1..Len(y) : u[Len(x) + i] = y[i]
    BY <1>0, Concat
  <2> HIDE DEF u
  <2>2. 1 \in 1..Len(x) /\ 1 \in 1..Len(y) /\ Len(x) + 1 = 2 /\ Len(x) + Len(y) = 2
    BY <1>1
  <2> QED BY <2>1, <2>2
<1>5. IsASeq(u) /\ IsASeq(z)
  BY <1>0
<1> HIDE DEF u
<1> DEFINE w == u \o z
<1>3. IsASeq(w) /\ Len(w) = 3 /\ w[1] = u[1] /\ w[2] = u[2] /\ w[3] = z[1]
  <2>1. /\ IsASeq(w) /\ Len(w) = Len(u) + Len(z)
        /\ \A i \in 1..Len(u) : w[i] = u[i]
        /\ \A i \in 1..Len(z) : w[Len(u) + i] = z[i]
    BY <1>5, Concat
  <2> HIDE DEF w
  <2>2. 1 \in 1..Len(u) /\ 2 \in 1..Len(u) /\ 1 \in 1..Len(z) /\ Len(u) + 1 = 3 /\ Len(u) + Len(z) = 3
    BY <1>1, <1>2
  <2> QED BY <2>1, <2>2
<1> HIDE DEF w
<1>4. /\ w[1].table = t1 /\ w[1].value = v1 /\ w[2].table = t2 /\ w[2].value = v2
      /\ w[3].table = t3 /\ w[3].value = v3
  BY <1>1, <1>2, <1>3
<1> QED BY <1>3, <1>4 DEF w, u, x, y, z


\* Three parts, one after another.
LEMMA ThreeParts ==
  ASSUME NEW x, NEW y, NEW z, IsASeq(x), IsASeq(y), IsASeq(z)
  PROVE  LET w == x \o y \o z
         IN  /\ IsASeq(w) /\ Len(x) \in Nat /\ Len(y) \in Nat /\ Len(z) \in Nat
             /\ Len(w) = Len(x) + Len(y) + Len(z)
             /\ \A i \in 1..Len(x) : w[i] = x[i]
             /\ \A i \in 1..Len(y) : w[Len(x) + i] = y[i]
             /\ \A i \in Len(x) + 1..Len(x) + Len(y) : w[i] = y[i - Len(x)]
             /\ \A i \in 1..Len(z) : w[Len(x) + Len(y) + i] = z[i]
             /\ \A t, v : Ends(y, t, v) /\ Skips(z, t) => Ends(w, t, v)
<1> DEFINE u == x \o y
           w == u \o z
<1>1. /\ IsASeq(u) /\ Len(u) = Len(x) + Len(y) /\ Len(x) \in Nat /\ Len(y) \in Nat
      /\ \A i \in 1..Len(x) : u[i] = x[i]
      /\ \A i \in 1..Len(y) : u[Len(x) + i] = y[i]
      /\ \A i \in Len(x) + 1..Len(x) + Len(y) : u[i] = y[i - Len(x)]
  BY Concat
<1>2. \A t, v : Ends(y, t, v) => Ends(u, t, v)
  BY EndsConcat
<1> HIDE DEF u
<1>3. /\ IsASeq(w) /\ Len(w) = Len(u) + Len(z) /\ Len(z) \in Nat
      /\ \A i \in 1..Len(u) : w[i] = u[i]
      /\ \A i \in 1..Len(z) : w[Len(u) + i] = z[i]
  BY <1>1, Concat
<1>4. \A t, v : Ends(u, t, v) /\ Skips(z, t) => Ends(w, t, v)
  BY <1>1, EndsConcat
<1> HIDE DEF w
<1>5. /\ \A i \in 1..Len(x) : i \in 1..Len(u)
      /\ \A i \in 1..Len(y) : Len(x) + i \in 1..Len(u)
      /\ \A i \in Len(x) + 1..Len(x) + Len(y) : i \in 1..Len(u)
  BY <1>1
<1>6. /\ \A i \in 1..Len(x) : w[i] = x[i]
      /\ \A i \in 1..Len(y) : w[Len(x) + i] = y[i]
      /\ \A i \in Len(x) + 1..Len(x) + Len(y) : w[i] = y[i - Len(x)]
  BY <1>1, <1>3, <1>5
<1>7. /\ Len(w) = Len(x) + Len(y) + Len(z)
      /\ \A i \in 1..Len(z) : w[Len(x) + Len(y) + i] = z[i]
  BY <1>1, <1>3
<1>8. \A t, v : Ends(y, t, v) /\ Skips(z, t) => Ends(w, t, v)
  BY <1>2, <1>4
<1> QED BY <1>1, <1>3, <1>6, <1>7, <1>8 DEF w, u

LEMMA BlockWritesAre ==
  ASSUME NEW b, NEW h \in Nat, DOMAIN db = Tables
  PROVE  ApplyIs(BlockWrites(b, h), db, spends, b, h)
<1> DEFINE x == PrevoutsWrites(b)
           y == IF HasTokens(b, h) THEN TokenWrites(b) ELSE <<>>
           z == InfoWrites(b, h)
           w == x \o y \o z
           W == BlockWrites(b, h)
<1>1. /\ IsASeq(x) /\ Len(x) = 3
      /\ x[1].table = "prevouts" /\ x[1].value = db["prevouts"] \cup {b}
      /\ x[2].table = "prevouts" /\ x[2].value = (db["prevouts"] \cup {b}) \ spends[b]
      /\ x[3].table = "fullhash_to_address"
  <2> PICK v1, v2, v3 : /\ v1 = db["prevouts"] \cup {b} /\ v2 = (db["prevouts"] \cup {b}) \ spends[b]
                        /\ v3 = db["fullhash_to_address"] \cup {b}
    OBVIOUS
  <2> PICK t1, t2, t3 : t1 = "prevouts" /\ t2 = "prevouts" /\ t3 = "fullhash_to_address"
    OBVIOUS
  <2>1. x = Put(t1, v1) \o Put(t2, v2) \o Put(t3, v3)
    BY DEF PrevoutsWrites
  <2> HIDE DEF x
  <2>2. /\ IsASeq(x) /\ Len(x) = 3 /\ x[1].table = t1 /\ x[1].value = v1
        /\ x[2].table = t2 /\ x[2].value = v2 /\ x[3].table = t3 /\ x[3].value = v3
    BY ONLY <2>1, ThreePuts, SMTT(30)
  <2>3. v1 = db["prevouts"] \cup {b} /\ v2 = (db["prevouts"] \cup {b}) \ spends[b]
    OBVIOUS
  <2> QED BY <2>2, <2>3
<1>2. /\ IsASeq(z) /\ Len(z) = 3
      /\ z[1].table = "last_block" /\ z[1].value = h
      /\ z[2].table = "block_info" /\ z[2].value = Updated(db["block_info"], h, b)
      /\ z[3].table = "proof_of_history"
      /\ z[3].value = Updated(db["proof_of_history"], h, Append(db["proof_of_history"][h - 1], b))
  BY ThreePuts DEF InfoWrites, PrevProof, Updated
<1>3. RowNames = RowSet
  BY RowNamesAre
<1>4. /\ IsASeq(y) /\ \A i \in 1..Len(y) : y[i].table \in RowSet /\ y[i].value \in Halves(db[y[i].table], b)
      /\ HasTokens(b, h) => \A t \in RowSet : Ends(y, t, Append(db[t], b))
      /\ ~HasTokens(b, h) => Len(y) = 0
  <2>1. CASE HasTokens(b, h)
    <3>1. y = TokenWrites(b)
      BY <2>1
    <3> HIDE DEF y
    <3> DEFINE P == [t \in RowNames |-> {Append(db[t], b), Append(db[t], -b)}]
               f == [t \in RowNames |-> Append(db[t], b)]
    <3>2. Rewrites(y, RowNames, P, f)
      BY <3>1, TokenWritesAre
    <3>3. \A t \in RowSet : P[t] = Halves(db[t], b) /\ f[t] = Append(db[t], b)
      BY <1>3 DEF Halves
    <3> HIDE DEF P, f
    <3> QED BY <1>3, <2>1, <3>2, <3>3 DEF Rewrites
  <2>2. CASE ~HasTokens(b, h)
    <3>1. y = <<>>
      BY <2>2
    <3> HIDE DEF y
    <3>2. Len(y) = 0 /\ y \in Seq({}) /\ 1..Len(y) = {}
      BY <3>1
    <3> QED BY <2>2, <3>2 DEF IsASeq
  <2> QED BY <2>1, <2>2
<1>5. HasTokens(b, h) <=> Tokens(spends, b, h)
  BY DEF HasTokens, Tokens
<1>6. W = IF h < StartHeight THEN x ELSE w
  BY DEF BlockWrites
<1> HIDE DEF x, y, z, W
<1>7. CASE h < StartHeight
  <2>1. W = x
    BY <1>6, <1>7
  <2>2. ~(h >= StartHeight) /\ Len(x) \in Nat /\ Len(x) >= 3
    BY <1>1, <1>7
  <2>3. ApplyIs(x, db, spends, b, h)
    BY <1>1, <2>2 DEF ApplyIs
  <2> QED BY <2>1, <2>3 DEF W
<1>8. CASE ~(h < StartHeight)
  <2>1. W = w
    BY <1>6, <1>8
  <2>2. /\ IsASeq(w) /\ Len(y) \in Nat /\ Len(w) = 3 + Len(y) + 3
        /\ \A i \in 1..3 : w[i] = x[i]
        /\ \A i \in 3 + 1..3 + Len(y) : w[i] = y[i - 3]
        /\ \A i \in 1..3 : w[3 + Len(y) + i] = z[i]
        /\ \A t, v : Ends(y, t, v) /\ Skips(z, t) => Ends(w, t, v)
    <3>1. IsASeq(x) /\ IsASeq(y) /\ IsASeq(z)
      BY <1>1, <1>2, <1>4
    <3>2. /\ IsASeq(w) /\ Len(x) \in Nat /\ Len(y) \in Nat /\ Len(z) \in Nat
          /\ Len(w) = Len(x) + Len(y) + Len(z)
          /\ \A i \in 1..Len(x) : w[i] = x[i]
          /\ \A i \in Len(x) + 1..Len(x) + Len(y) : w[i] = y[i - Len(x)]
          /\ \A i \in 1..Len(z) : w[Len(x) + Len(y) + i] = z[i]
          /\ \A t, v : Ends(y, t, v) /\ Skips(z, t) => Ends(w, t, v)
      BY <3>1, ThreeParts
    <3> HIDE DEF w
    <3> PICK n, l : n = Len(x) /\ l = Len(z)
      OBVIOUS
    <3>3. n = 3 /\ l = 3
      BY <1>1, <1>2
    <3> QED BY <3>2, <3>3
  <2> HIDE DEF w
  <2> DEFINE m == Len(w) - 3
  <2>3. m = 3 + Len(y) /\ Len(w) \in Nat /\ Len(w) >= 3 /\ m >= 3 /\ m \in Nat
    BY <2>2
  <2> HIDE DEF m
  <2>4. /\ w[1] = x[1] /\ w[2] = x[2] /\ w[3] = x[3]
        /\ w[m + 1] = z[1] /\ w[m + 2] = z[2] /\ w[m + 3] = z[3]
    BY <2>2, <2>3
  <2>5. ASSUME NEW i \in 4..m PROVE w[i].table \in RowSet /\ w[i].value \in Halves(db[w[i].table], b)
    <3>1. i \in 3 + 1..3 + Len(y) /\ i - 3 \in 1..Len(y)
      BY <2>2, <2>3
    <3>2. w[i] = y[i - 3]
      BY <2>2, <3>1
    <3> QED BY <1>4, <3>1, <3>2
  <2>6. ASSUME HasTokens(b, h), NEW t \in RowSet PROVE Ends(w, t, Append(db[t], b))
    <3>1. \A i \in 1..3 : i = 1 \/ i = 2 \/ i = 3
      OBVIOUS
    <3>2. Skips(z, t)
      BY <1>2, <3>1 DEF Skips, RowSet
    <3> QED BY <1>4, <2>2, <2>6, <3>2
  <2>7. ~HasTokens(b, h) => m = 3
    BY <1>4, <2>3
  <2>8. ~(h < StartHeight) /\ h >= StartHeight
    BY <1>8
  <2> QED BY <1>1, <1>2, <1>5, <2>1, <2>2, <2>3, <2>4, <2>5, <2>6, <2>7, <2>8 DEF ApplyIs, W, m
<1> QED BY <1>7, <1>8

\* The rows are put back one table after another.
LEMMA UndoneRows ==
  ASSUME NEW b, NEW was
  PROVE  Rewrites(Undo(TransferTables[1], b, was) \o
                  Undo(MetaTables[2], b, was) \o Undo(MetaTables[1], b, was) \o
                  PutBack(UndoneHistory, was) \o
                  Undo(OrdinalsTables[2], b, was) \o Undo(OrdinalsTables[1], b, was), RowSet,
                  [t \in RowSet |-> {was[t], Append(was[t], -b)}], [t \in RowSet |-> was[t]])
<1> DEFINE P == [t \in RowSet |-> {was[t], Append(was[t], -b)}]
           f == [t \in RowSet |-> was[t]]
           ts == UndoneHistory
<1>1. Elements(ts) = Elements(HistoryTables) /\ IsASeq(ts)
  BY TablesAre
<1>2. \A t \in RowSet : was[t] \in P[t] /\ Append(was[t], -b) \in P[t] /\ f[t] = was[t]
  OBVIOUS
<1>3. /\ OrdinalsTables[1] = "outpoint_to_partials"
      /\ OrdinalsTables[2] = "outpoint_to_inscription_offsets"
      /\ TransferTables[1] = "address_location_to_transfer"
      /\ MetaTables[1] = "token_to_meta" /\ MetaTables[2] = "address_token_to_balance"
  BY DEF OrdinalsTables, TransferTables, MetaTables
<1>4. Elements(ts) = {"token_id_to_event", "block_events", "last_history_id", "outpoint_to_event",
                      "address_token_to_history"}
  BY <1>1, TablesAre
<1>5. \A t \in Elements(ts) : t \in RowSet
  BY <1>4 DEF RowSet
<1>6. /\ OrdinalsTables[1] \in RowSet /\ OrdinalsTables[2] \in RowSet /\ TransferTables[1] \in RowSet
      /\ MetaTables[1] \in RowSet /\ MetaTables[2] \in RowSet
  BY <1>3 DEF RowSet
<1>7. ASSUME NEW t \in RowSet PROVE Rewrites(Undo(t, b, was), {t}, P, f)
  <2> HIDE DEF P, f
  <2> QED BY <1>2, RewritesTwice DEF Undo
<1>8. Rewrites(PutBack(ts, was), Elements(ts), P, f)
  <2>1. \A t \in Elements(ts) : f[t] \in P[t] /\ f[t] = was[t]
    BY <1>2, <1>5
  <2>2. \A i \in DOMAIN ts : ts[i] \in Elements(ts)
    <3> PICK T : ts \in Seq(T)
      BY <1>1 DEF IsASeq
    <3>1. DOMAIN ts = 1..Len(ts)
      OBVIOUS
    <3> QED BY <3>1 DEF Elements
  <2> HIDE DEF P, f, ts
  <2>3. PutBack(ts, was) = [i \in DOMAIN ts |-> [table |-> ts[i], value |-> f[ts[i]]]]
    BY <2>1, <2>2 DEF PutBack
  <2> QED BY <1>1, <2>1, <2>3, RewritesEach
<1> DEFINE w1 == Undo(TransferTables[1], b, was)
           w2 == Undo(MetaTables[2], b, was)
           w3 == Undo(MetaTables[1], b, was)
           w4 == PutBack(ts, was)
           w5 == Undo(OrdinalsTables[2], b, was)
           w6 == Undo(OrdinalsTables[1], b, was)
           T1 == {TransferTables[1]}
           T2 == T1 \cup {MetaTables[2]}
           T3 == T2 \cup {MetaTables[1]}
           T4 == T3 \cup Elements(ts)
           T5 == T4 \cup {OrdinalsTables[2]}
<1>9. /\ Rewrites(w1, T1, P, f) /\ Rewrites(w2, {MetaTables[2]}, P, f)
      /\ Rewrites(w3, {MetaTables[1]}, P, f) /\ Rewrites(w4, Elements(ts), P, f)
      /\ Rewrites(w5, {OrdinalsTables[2]}, P, f) /\ Rewrites(w6, {OrdinalsTables[1]}, P, f)
  BY <1>6, <1>7, <1>8
<1>10. /\ T1 \cap {MetaTables[2]} = {} /\ T2 \cap {MetaTables[1]} = {} /\ T3 \cap Elements(ts) = {}
       /\ T4 \cap {OrdinalsTables[2]} = {} /\ T5 \cap {OrdinalsTables[1]} = {}
  BY <1>3, <1>4
<1>11. T5 \cup {OrdinalsTables[1]} = RowSet
  BY <1>3, <1>4 DEF RowSet
<1>12. /\ T2 = T1 \cup {MetaTables[2]} /\ T3 = T2 \cup {MetaTables[1]} /\ T4 = T3 \cup Elements(ts)
       /\ T5 = T4 \cup {OrdinalsTables[2]}
  OBVIOUS
<1> HIDE DEF w1, w2, w3, w4, w5, w6, T1, T2, T3, T4, T5, P, f, ts
<1>13. Rewrites(w1 \o w2, T2, P, f)
  BY <1>9, <1>10, <1>12, RewritesConcat
<1>14. Rewrites(w1 \o w2 \o w3, T3, P, f)
  BY <1>9, <1>10, <1>12, <1>13, RewritesConcat
<1>15. Rewrites(w1 \o w2 \o w3 \o w4, T4, P, f)
  BY <1>9, <1>10, <1>12, <1>14, RewritesConcat
<1>16. Rewrites(w1 \o w2 \o w3 \o w4 \o w5, T5, P, f)
  BY <1>9, <1>10, <1>12, <1>15, RewritesConcat
<1>17. Rewrites(w1 \o w2 \o w3 \o w4 \o w5 \o w6, RowSet, P, f)
  BY <1>9, <1>10, <1>11, <1>16, RewritesConcat
<1> QED BY <1>17 DEF w1, w2, w3, w4, w5, w6, P, f, ts

LEMMA UndoWritesAre ==
  ASSUME NEW b, NEW h \in Nat, NEW was, DOMAIN db = Tables
  PROVE  UndoIs(UndoWrites(b, h, was), db, spends, b, h, was)
<1> DEFINE r == Undo(TransferTables[1], b, was) \o
                Undo(MetaTables[2], b, was) \o Undo(MetaTables[1], b, was) \o
                PutBack(UndoneHistory, was) \o
                Undo(OrdinalsTables[2], b, was) \o Undo(OrdinalsTables[1], b, was)
           p == Put("last_block", h - 1)
           q == Put("block_info", Updated(db.block_info, h, Missing))
           x == p \o q
           y == IF HasTokens(b, h) THEN r ELSE <<>>
           z == RestorePrevouts(b)
           w == x \o y \o z
<1>1. /\ IsASeq(x) /\ Len(x) = 2
      /\ x[1].table = "last_block" /\ x[1].value = h - 1
      /\ x[2].table = "block_info" /\ x[2].value = Updated(db["block_info"], h, Missing)
  <2>1. /\ IsASeq(p) /\ Len(p) = 1 /\ p[1].table = "last_block" /\ p[1].value = h - 1
    BY PutIs
  <2>2. /\ IsASeq(q) /\ Len(q) = 1 /\ q[1].table = "block_info"
        /\ q[1].value = Updated(db["block_info"], h, Missing)
    BY PutIs
  <2>3. IsASeq(p) /\ IsASeq(q)
    BY <2>1, <2>2
  <2> HIDE DEF p, q
  <2>4. /\ IsASeq(x) /\ Len(x) = Len(p) + Len(q)
        /\ \A i \in 1..Len(p) : x[i] = p[i]
        /\ \A i \in 1..Len(q) : x[Len(p) + i] = q[i]
    BY <2>3, Concat
  <2> HIDE DEF x
  <2>5. 1 \in 1..Len(p) /\ 1 \in 1..Len(q) /\ Len(p) + 1 = 2 /\ Len(p) + Len(q) = 2
    BY <2>1, <2>2
  <2>6. x[1] = p[1] /\ x[2] = q[1] /\ Len(x) = 2
    BY <2>4, <2>5
  <2> QED BY <2>1, <2>2, <2>4, <2>6
<1>2. /\ IsASeq(z) /\ Len(z) = 1
      /\ z[1].table = "prevouts" /\ z[1].value = db["prevouts"] \cup spends[b]
  BY PutIs DEF RestorePrevouts
<1>4. /\ IsASeq(y)
      /\ \A i \in 1..Len(y) : y[i].table \in RowSet /\ y[i].value \in Remains(was[y[i].table], b)
      /\ HasTokens(b, h) => \A t \in RowSet : Ends(y, t, was[t])
      /\ ~HasTokens(b, h) => Len(y) = 0
  <2>1. CASE HasTokens(b, h)
    <3> DEFINE P == [t \in RowSet |-> {was[t], Append(was[t], -b)}]
               f == [t \in RowSet |-> was[t]]
    <3>1. Rewrites(r, RowSet, P, f)
      BY UndoneRows
    <3>2. Rewrites(y, RowSet, P, f)
      BY <2>1, <3>1
    <3>3. \A t \in RowSet : P[t] = Remains(was[t], b) /\ f[t] = was[t]
      BY DEF Remains
    <3> HIDE DEF P, f, y
    <3> QED BY <2>1, <3>2, <3>3 DEF Rewrites
  <2>2. CASE ~HasTokens(b, h)
    <3>1. y = <<>>
      BY <2>2
    <3> HIDE DEF y
    <3>2. Len(y) = 0 /\ y \in Seq({}) /\ 1..Len(y) = {}
      BY <3>1
    <3> QED BY <2>2, <3>2 DEF IsASeq
  <2> QED BY <2>1, <2>2
<1>5. HasTokens(b, h) <=> Tokens(spends, b, h)
  BY DEF HasTokens, Tokens
<1>6. UndoWrites(b, h, was) = w
  BY DEF UndoWrites, Updated
<1> HIDE DEF x, y, z
<1>7. /\ IsASeq(w) /\ Len(y) \in Nat /\ Len(w) = 2 + Len(y) + 1
      /\ \A i \in 1..2 : w[i] = x[i]
      /\ \A i \in 2 + 1..2 + Len(y) : w[i] = y[i - 2]
      /\ w[2 + Len(y) + 1] = z[1]
      /\ \A t, v : Ends(y, t, v) /\ Skips(z, t) => Ends(w, t, v)
  <2>1. IsASeq(x) /\ IsASeq(y) /\ IsASeq(z)
    BY <1>1, <1>2, <1>4
  <2>2. /\ IsASeq(w) /\ Len(x) \in Nat /\ Len(y) \in Nat /\ Len(z) \in Nat
        /\ Len(w) = Len(x) + Len(y) + Len(z)
        /\ \A i \in 1..Len(x) : w[i] = x[i]
        /\ \A i \in Len(x) + 1..Len(x) + Len(y) : w[i] = y[i - Len(x)]
        /\ \A i \in 1..Len(z) : w[Len(x) + Len(y) + i] = z[i]
        /\ \A t, v : Ends(y, t, v) /\ Skips(z, t) => Ends(w, t, v)
    BY <2>1, ThreeParts
  <2> HIDE DEF w
  <2> PICK n, l : n = Len(x) /\ l = Len(z)
    OBVIOUS
  <2>3. n = 2 /\ l = 1 /\ 1 \in 1..1
    BY <1>1, <1>2
  <2> QED BY <2>2, <2>3
<1> HIDE DEF w
<1> PICK l : l = Len(w)
  OBVIOUS
<1>8. l = Len(y) + 3 /\ l \in Nat /\ l >= 3 /\ 2 + Len(y) + 1 = l
  BY <1>7
<1>9. w[1] = x[1] /\ w[2] = x[2] /\ w[l] = z[1]
  BY <1>7, <1>8
<1>10. ASSUME NEW i \in 3..l - 1
       PROVE  w[i].table \in RowSet /\ w[i].value \in Remains(was[w[i].table], b)
  <2>1. i \in 2 + 1..2 + Len(y) /\ i - 2 \in 1..Len(y)
    BY <1>7, <1>8
  <2>2. w[i] = y[i - 2]
    BY <1>7, <2>1
  <2> QED BY <1>4, <2>1, <2>2
<1>11. ASSUME HasTokens(b, h), NEW t \in RowSet PROVE Ends(w, t, was[t])
  <2>1. \A i \in 1..1 : i = 1
    OBVIOUS
  <2>2. Skips(z, t)
    BY <1>2, <2>1 DEF Skips, RowSet
  <2> QED BY <1>4, <1>7, <1>11, <2>2
<1>12. ~HasTokens(b, h) => l = 3
  BY <1>4, <1>8
<1>13. UndoIs(w, db, spends, b, h, was)
  BY <1>1, <1>2, <1>5, <1>7, <1>8, <1>9, <1>10, <1>11, <1>12 DEF UndoIs
<1> QED BY <1>6, <1>13

\* Where the writes of a block to a table are.
LEMMA ApplyTables ==
  ASSUME NEW w, NEW d, NEW sp, NEW b, NEW h \in Nat, ApplyIs(w, d, sp, b, h), NEW i \in 1..Len(w)
  PROVE  /\ w[i].table = "prevouts" => i = 1 \/ i = 2
         /\ w[i].table = "last_block" => h >= StartHeight /\ i = Len(w) - 2
         /\ w[i].table = "block_info" => h >= StartHeight /\ i = Len(w) - 1
         /\ w[i].table = "proof_of_history" => h >= StartHeight /\ i = Len(w)
         /\ w[i].table \in RowSet =>
              /\ h >= StartHeight /\ Tokens(sp, b, h) /\ i \in 4..Len(w) - 3
              /\ w[i].value \in Halves(d[w[i].table], b)
<1> PICK l : l = Len(w)
  OBVIOUS
<1>1. /\ l \in Nat /\ l >= 3 /\ i \in 1..l
      /\ w[1].table = "prevouts" /\ w[2].table = "prevouts" /\ w[3].table = "fullhash_to_address"
  BY DEF ApplyIs
<1>2. ASSUME i \in 1..3
      PROVE  /\ w[i].table = "prevouts" \/ w[i].table = "fullhash_to_address"
             /\ w[i].table = "prevouts" => i = 1 \/ i = 2
  <2>1. i = 1 \/ i = 2 \/ i = 3
    BY <1>2
  <2>2. CASE i = 1
    BY <1>1, <2>2
  <2>3. CASE i = 2
    BY <1>1, <2>3
  <2>4. CASE i = 3
    BY <1>1, <2>4
  <2> QED BY <2>1, <2>2, <2>3, <2>4
<1>3. CASE i \in 1..3
  BY <1>2, <1>3 DEF RowSet
<1>4. CASE i \notin 1..3
  <2>1. h >= StartHeight
    BY <1>1, <1>4 DEF ApplyIs
  <2> PICK m : m = l - 3
    OBVIOUS
  <2>2. /\ m >= 3 /\ m \in Nat
        /\ w[m + 1].table = "last_block" /\ w[m + 2].table = "block_info"
        /\ w[m + 3].table = "proof_of_history"
        /\ \A j \in 4..m : w[j].table \in RowSet /\ w[j].value \in Halves(d[w[j].table], b)
        /\ ~Tokens(sp, b, h) => m = 3
    BY <1>1, <2>1 DEF ApplyIs
  <2>3. i \in 4..m \/ i = m + 1 \/ i = m + 2 \/ i = m + 3
    BY <1>1, <1>4, <2>2
  <2>4. l = m + 3 /\ l - 2 = m + 1 /\ l - 1 = m + 2
    BY <1>1
  <2>5. CASE i \in 4..m
    <3>1. Tokens(sp, b, h)
      BY <2>2, <2>5
    <3>2. w[i].table \in RowSet /\ w[i].value \in Halves(d[w[i].table], b)
      BY <2>2, <2>5
    <3>3. i \in 4..Len(w) - 3
      BY <2>5
    <3> QED BY <2>1, <3>1, <3>2, <3>3 DEF RowSet
  <2>6. CASE i = m + 1
    BY <2>1, <2>2, <2>4, <2>6 DEF RowSet
  <2>7. CASE i = m + 2
    BY <2>1, <2>2, <2>4, <2>7 DEF RowSet
  <2>8. CASE i = m + 3
    BY <2>1, <2>2, <2>4, <2>8 DEF RowSet
  <2> QED BY <2>3, <2>5, <2>6, <2>7, <2>8
<1> QED BY <1>3, <1>4

\* What the tables hold after k of the writes of block b.
HalfApplied(d, d0, sp, b, h, k) ==
  /\ k = 0 => d["prevouts"] = d0["prevouts"]
  /\ k = 1 => d["prevouts"] = d0["prevouts"] \cup {b}
  /\ k >= 2 => d["prevouts"] = (d0["prevouts"] \cup {b}) \ sp[b]
  /\ \A t \in RowSet : d[t] = d0[t] \/ (Tokens(sp, b, h) /\ d[t] \in Halves(d0[t], b))
  /\ k < 2 => \A t \in RowSet : d[t] = d0[t]
  /\ \/ d["last_block"] = d0["last_block"]
     \/ /\ h >= StartHeight /\ d["last_block"] = h /\ k >= 2
        /\ Tokens(sp, b, h) => \A t \in RowSet : d[t] = Append(d0[t], b)

LEMMA ApplyAfter ==
  ASSUME NEW w, NEW d0, NEW d, NEW sp, NEW b, NEW h \in Nat, ApplyIs(w, d0, sp, b, h),
         NEW k \in 0..Len(w), Holds(d, d0, w, k)
  PROVE  HalfApplied(d, d0, sp, b, h, k)
<1> PICK l : l = Len(w)
  OBVIOUS
<1>1. l \in Nat /\ l >= 3 /\ k \in Nat /\ k <= l /\ Len(w) \in Nat /\ k <= Len(w)
  BY DEF ApplyIs
<1>2. \A i \in 1..k : i \in 1..Len(w)
  BY <1>1
<1>3. "prevouts" \in Tables /\ "last_block" \in Tables /\ \A t \in RowSet : t \in Tables
  BY DEF Tables
<1>4. k = 0 => d["prevouts"] = d0["prevouts"]
  <2>1. ASSUME k = 0 PROVE \A i \in 1..k : w[i].table # "prevouts"
    BY <2>1
  <2> QED BY <1>3, <2>1, HoldsOld
<1>5. k = 1 => d["prevouts"] = d0["prevouts"] \cup {b}
  <2> SUFFICES ASSUME k = 1 PROVE d["prevouts"] = w[1].value
    BY DEF ApplyIs
  <2>1. 1 \in 1..k /\ w[1].table = "prevouts" /\ \A i \in 1..k : i = 1
    BY DEF ApplyIs
  <2>2. ~ \A i \in 1..k : w[i].table # "prevouts"
    BY <2>1
  <2>3. \E i \in 1..k : w[i].table = "prevouts" /\ d["prevouts"] = w[i].value
    BY <1>3, <2>2 DEF Holds
  <2> QED BY <2>1, <2>3
<1>6. k >= 2 => d["prevouts"] = (d0["prevouts"] \cup {b}) \ sp[b]
  <2> SUFFICES ASSUME k >= 2 PROVE d["prevouts"] = w[2].value
    BY DEF ApplyIs
  <2>1. w[2].table = "prevouts" /\ \A j \in 2..Len(w) : w[j].table = "prevouts" => j = 2
    <3>1. w[2].table = "prevouts"
      BY DEF ApplyIs
    <3>2. \A j \in 2..Len(w) : j \in 1..Len(w) /\ j # 1
      BY <1>1
    <3> QED BY <3>1, <3>2, ApplyTables
  <2>2. 2 \in 1..Len(w) /\ 2 \in 1..k
    BY <1>1
  <2>3. Ends(w, "prevouts", w[2].value)
    BY <2>1, <2>2 DEF Ends
  <2>4. \A i \in k + 1..Len(w) : w[i].table # "prevouts"
    <3>1. \A i \in k + 1..Len(w) : i \in 2..Len(w) /\ i # 2
      BY <1>1
    <3> QED BY <2>1, <3>1
  <2> QED BY <1>1, <1>3, <2>3, <2>4, HoldsNew
<1>7. ASSUME NEW t \in RowSet
      PROVE  /\ d[t] = d0[t] \/ (Tokens(sp, b, h) /\ d[t] \in Halves(d0[t], b))
             /\ k < 2 => d[t] = d0[t]
  <2>1. d[t] = d0[t] \/ \E i \in 1..k : w[i].table = t /\ d[t] = w[i].value
    BY <1>3, HoldsSome
  <2>2. CASE d[t] = d0[t]
    BY <2>2
  <2>3. CASE \E i \in 1..k : w[i].table = t /\ d[t] = w[i].value
    <3> PICK i \in 1..k : w[i].table = t /\ d[t] = w[i].value
      BY <2>3
    <3>1. i \in 1..Len(w)
      BY <1>2
    <3>2. Tokens(sp, b, h) /\ i \in 4..Len(w) - 3 /\ w[i].value \in Halves(d0[t], b)
      BY <3>1, ApplyTables
    <3>3. ~(k < 2)
      BY <1>1, <3>2
    <3> QED BY <3>2, <3>3
  <2> QED BY <2>1, <2>2, <2>3
<1>8. \/ d["last_block"] = d0["last_block"]
      \/ /\ h >= StartHeight /\ d["last_block"] = h /\ k >= 2
         /\ Tokens(sp, b, h) => \A t \in RowSet : d[t] = Append(d0[t], b)
  <2>1. CASE d["last_block"] = d0["last_block"]
    BY <2>1
  <2>2. CASE \E i \in 1..k : w[i].table = "last_block" /\ d["last_block"] = w[i].value
    <3> PICK i \in 1..k : w[i].table = "last_block" /\ d["last_block"] = w[i].value
      BY <2>2
    <3>1. i \in 1..Len(w)
      BY <1>2
    <3>2. h >= StartHeight /\ i = Len(w) - 2
      BY <3>1, ApplyTables
    <3> PICK m : m = Len(w) - 3
      OBVIOUS
    <3>3. m >= 3 /\ m \in Nat /\ m + 1 = i /\ w[m + 1].value = h
      BY <1>1, <3>2 DEF ApplyIs
    <3>4. d["last_block"] = h /\ k >= 2
      BY <1>1, <3>3
    <3>5. ASSUME Tokens(sp, b, h), NEW t \in RowSet PROVE d[t] = Append(d0[t], b)
      <4>1. Ends(w, t, Append(d0[t], b))
        BY <3>2, <3>5 DEF ApplyIs
      <4>2. \A j \in k + 1..Len(w) : j \in 1..Len(w) /\ ~(j \in 4..Len(w) - 3)
        BY <1>1, <3>3
      <4>3. \A j \in k + 1..Len(w) : w[j].table # t
        BY <4>2, ApplyTables
      <4> PICK v : v = Append(d0[t], b)
        OBVIOUS
      <4>4. Ends(w, t, v) /\ t \in Tables /\ k \in Nat /\ k <= Len(w) /\ Len(w) \in Nat
        BY <1>1, <1>3, <4>1
      <4>5. d[t] = v
        BY ONLY <4>3, <4>4, Holds(d, d0, w, k), HoldsNew
      <4> QED BY <4>5
    <3> QED BY <3>2, <3>4, <3>5
  <2> QED BY <1>3, <2>1, <2>2, HoldsSome
<1> QED BY <1>4, <1>5, <1>6, <1>7, <1>8 DEF HalfApplied

LEMMA ApplyDone ==
  ASSUME NEW w, NEW d0, NEW d, NEW sp, NEW b, NEW h \in Nat, ApplyIs(w, d0, sp, b, h),
         Holds(d, d0, w, Len(w))
  PROVE  /\ d["prevouts"] = (d0["prevouts"] \cup {b}) \ sp[b]
         /\ \A t \in RowSet : d[t] = IF Tokens(sp, b, h) THEN Append(d0[t], b) ELSE d0[t]
         /\ h < StartHeight => /\ d["last_block"] = d0["last_block"] /\ d["block_info"] = d0["block_info"]
                               /\ d["proof_of_history"] = d0["proof_of_history"]
         /\ h >= StartHeight =>
              /\ d["last_block"] = h /\ d["block_info"] = Updated(d0["block_info"], h, b)
              /\ d["proof_of_history"] =
                   Updated(d0["proof_of_history"], h, Append(d0["proof_of_history"][h - 1], b))
<1> PICK l : l = Len(w)
  OBVIOUS
<1>1. l \in Nat /\ l >= 3 /\ l \in 0..l /\ l <= l /\ l + 1..l = {} /\ Holds(d, d0, w, l)
  BY DEF ApplyIs
<1>2. "prevouts" \in Tables /\ "last_block" \in Tables /\ "block_info" \in Tables
      /\ "proof_of_history" \in Tables /\ \A t \in RowSet : t \in Tables
  BY DEF Tables
<1>0. \A i \in 1..l :
        /\ w[i].table = "last_block" => i = l - 2
        /\ w[i].table = "block_info" => i = l - 1
        /\ w[i].table = "proof_of_history" => i = l
  <2>1. ASSUME NEW i \in 1..Len(w)
        PROVE  /\ w[i].table = "last_block" => i = l - 2
               /\ w[i].table = "block_info" => i = l - 1
               /\ w[i].table = "proof_of_history" => i = l
    BY ApplyTables
  <2> QED BY <2>1
<1>10. HalfApplied(d, d0, sp, b, h, l)
  BY <1>1, ApplyAfter
<1>3. d["prevouts"] = (d0["prevouts"] \cup {b}) \ sp[b]
  BY <1>1, <1>10 DEF HalfApplied
<1>4. ASSUME NEW t \in RowSet PROVE d[t] = IF Tokens(sp, b, h) THEN Append(d0[t], b) ELSE d0[t]
  <2>1. CASE Tokens(sp, b, h)
    <3> PICK v : v = Append(d0[t], b)
      OBVIOUS
    <3>1. Ends(w, t, v) /\ t \in Tables /\ l \in Nat /\ l <= Len(w) /\ Len(w) \in Nat
      BY <1>1, <1>2, <2>1 DEF ApplyIs, Tokens
    <3>2. \A i \in l + 1..Len(w) : w[i].table # t
      BY <1>1
    <3>3. d[t] = v
      BY ONLY <1>1, <3>1, <3>2, HoldsNew
    <3> QED BY <2>1, <3>3
  <2>2. CASE ~Tokens(sp, b, h)
    BY <1>10, <2>2 DEF HalfApplied
  <2> QED BY <2>1, <2>2
<1>5. ASSUME h < StartHeight, NEW t \in {"last_block", "block_info", "proof_of_history"}
      PROVE  d[t] = d0[t]
  <2>1. ~(h >= StartHeight)
    BY <1>5
  <2>2. \A i \in 1..l : w[i].table # t
    BY <2>1, ApplyTables
  <2> QED BY <1>1, <1>2, <2>2, HoldsOld
<1>6. ASSUME h >= StartHeight, NEW n \in 1..l, NEW t \in Tables, w[n].table = t,
             \A i \in 1..l : w[i].table = t => i = n
      PROVE  d[t] = w[n].value
  <2>1. Ends(w, t, w[n].value)
    <3>1. \A j \in n..Len(w) : j \in 1..l
      BY <1>1
    <3> QED BY <1>6, <3>1 DEF Ends
  <2> PICK v : v = w[n].value
    OBVIOUS
  <2>2. \A i \in l + 1..Len(w) : w[i].table # t
    BY <1>1
  <2>3. Ends(w, t, v) /\ t \in Tables /\ l \in Nat /\ l <= Len(w) /\ Len(w) \in Nat
    BY <1>1, <1>6, <2>1
  <2>4. d[t] = v
    BY ONLY <1>1, <2>2, <2>3, HoldsNew
  <2> QED BY <2>4
<1>7. ASSUME h >= StartHeight
      PROVE  /\ d["last_block"] = h /\ d["block_info"] = Updated(d0["block_info"], h, b)
             /\ d["proof_of_history"] =
                  Updated(d0["proof_of_history"], h, Append(d0["proof_of_history"][h - 1], b))
  <2> PICK m : m = l - 3
    OBVIOUS
  <2>1. /\ w[m + 1].table = "last_block" /\ w[m + 1].value = h
        /\ w[m + 2].table = "block_info" /\ w[m + 2].value = Updated(d0["block_info"], h, b)
        /\ w[m + 3].table = "proof_of_history"
        /\ w[m + 3].value = Updated(d0["proof_of_history"], h, Append(d0["proof_of_history"][h - 1], b))
    BY <1>7 DEF ApplyIs
  <2>2. /\ m + 1 = l - 2 /\ m + 2 = l - 1 /\ m + 3 = l
        /\ m >= 3
    BY <1>1, <1>7 DEF ApplyIs
  <2>3. m + 1 \in 1..l /\ m + 2 \in 1..l /\ m + 3 \in 1..l
    BY <1>1, <2>2
  <2>7. \A i \in 1..l :
          /\ w[i].table = "last_block" => i = m + 1
          /\ w[i].table = "block_info" => i = m + 2
          /\ w[i].table = "proof_of_history" => i = m + 3
    BY <1>0, <2>2
  <2>4. d["last_block"] = w[m + 1].value
    BY <1>2, <1>6, <1>7, <2>1, <2>3, <2>7
  <2>5. d["block_info"] = w[m + 2].value
    BY <1>2, <1>6, <1>7, <2>1, <2>3, <2>7
  <2>6. d["proof_of_history"] = w[m + 3].value
    BY <1>2, <1>6, <1>7, <2>1, <2>3, <2>7
  <2> QED BY <2>1, <2>4, <2>5, <2>6
<1> QED BY <1>3, <1>4, <1>5, <1>7

\* What the tables hold after k of the writes of an undone block b.
LEMMA UndoTables ==
  ASSUME NEW w, NEW d, NEW sp, NEW b, NEW h \in Nat, NEW was, UndoIs(w, d, sp, b, h, was),
         NEW i \in 1..Len(w)
  PROVE  /\ w[i].table # "proof_of_history"
         /\ w[i].table = "prevouts" => i = Len(w)
         /\ w[i].table = "last_block" => i = 1
         /\ w[i].table = "block_info" => i = 2
         /\ w[i].table \in RowSet =>
              /\ Tokens(sp, b, h)
              /\ w[i].value \in Remains(was[w[i].table], b)
<1> PICK l : l = Len(w)
  OBVIOUS
<1>1. /\ l \in Nat /\ l >= 3 /\ i \in 1..l
      /\ w[1].table = "last_block" /\ w[2].table = "block_info" /\ w[l].table = "prevouts"
  BY DEF UndoIs
<1>2. i = 1 \/ i = 2 \/ i \in 3..l - 1 \/ i = l
  BY <1>1
<1>3. CASE i = 1
  BY <1>1, <1>3 DEF RowSet
<1>4. CASE i = 2
  BY <1>1, <1>4 DEF RowSet
<1>5. CASE i = l
  BY <1>1, <1>5 DEF RowSet
<1>6. CASE i \in 3..l - 1
  <2>1. Tokens(sp, b, h)
    <3>1. l # 3
      BY <1>1, <1>6
    <3> QED BY <3>1 DEF UndoIs
  <2>2. /\ w[i].table \in RowSet
        /\ w[i].value \in Remains(was[w[i].table], b)
    BY <1>6 DEF UndoIs
  <2> QED BY <2>1, <2>2 DEF RowSet
<1> QED BY <1>2, <1>3, <1>4, <1>5, <1>6

\* What the tables hold after k of n writes, and after all of them.
HalfUndone(d, d0, sp, b, h, was, k, n) ==
  /\ d["proof_of_history"] = d0["proof_of_history"]
  /\ k = 0 => d["last_block"] = d0["last_block"]
  /\ k # 0 => d["last_block"] = h - 1
  /\ k # n => d["prevouts"] = d0["prevouts"]
  /\ \A t \in RowSet : d[t] = d0[t] \/ (k # 0 /\ Tokens(sp, b, h) /\ d[t] \in Remains(was[t], b))

Undone(d, d0, sp, b, h, was) ==
  /\ d["proof_of_history"] = d0["proof_of_history"]
  /\ d["last_block"] = h - 1
  /\ d["prevouts"] = d0["prevouts"] \cup sp[b]
  /\ d["block_info"] = Updated(d0["block_info"], h, Missing)
  /\ \A t \in RowSet : d[t] = IF Tokens(sp, b, h) THEN was[t] ELSE d0[t]

LEMMA UndoAfter ==
  ASSUME NEW w, NEW d0, NEW d, NEW sp, NEW b, NEW h \in Nat, NEW was, UndoIs(w, d0, sp, b, h, was),
         NEW k \in 0..Len(w), Holds(d, d0, w, k)
  PROVE  HalfUndone(d, d0, sp, b, h, was, k, Len(w))
<1> PICK l : l = Len(w)
  OBVIOUS
<1>1. /\ l \in Nat /\ l >= 3 /\ k \in Nat /\ k <= l /\ k \in 0..l /\ Len(w) \in Nat
      /\ w[1].table = "last_block" /\ w[2].table = "block_info" /\ w[l].table = "prevouts"
      /\ w[1].value = h - 1 /\ w[2].value = Updated(d0["block_info"], h, Missing)
      /\ w[l].value = d0["prevouts"] \cup sp[b]
  BY DEF UndoIs
<1>2. "prevouts" \in Tables /\ "last_block" \in Tables /\ "block_info" \in Tables
      /\ "proof_of_history" \in Tables /\ \A t \in RowSet : t \in Tables
  BY DEF Tables
<1>3. \A i \in 1..k : i \in 1..Len(w)
  BY <1>1
<1>0. \A i \in 1..l :
        /\ w[i].table # "proof_of_history"
        /\ w[i].table = "prevouts" => i = l
        /\ w[i].table = "last_block" => i = 1
        /\ w[i].table = "block_info" => i = 2
  <2>1. ASSUME NEW i \in 1..Len(w)
        PROVE  /\ w[i].table # "proof_of_history"
               /\ w[i].table = "prevouts" => i = l
               /\ w[i].table = "last_block" => i = 1
               /\ w[i].table = "block_info" => i = 2
    BY UndoTables
  <2> QED BY <2>1
<1>4. d["proof_of_history"] = d0["proof_of_history"]
  <2>1. \A i \in 1..k : w[i].table # "proof_of_history"
    BY <1>0, <1>3
  <2> QED BY <1>2, <2>1, HoldsOld
<1>5. ASSUME NEW n \in 1..k, NEW t \in Tables, w[n].table = t,
             \A i \in 1..l : w[i].table = t => i = n
      PROVE  d[t] = w[n].value
  <2>1. ~ \A i \in 1..k : w[i].table # t
    BY <1>5
  <2> PICK i \in 1..k : w[i].table = t /\ d[t] = w[i].value
    BY <2>1 DEF Holds
  <2>2. i = n
    BY <1>3, <1>5
  <2> QED BY <2>2
<1>6. d["last_block"] = IF k = 0 THEN d0["last_block"] ELSE h - 1
  <2>1. CASE k = 0
    <3>1. \A i \in 1..k : w[i].table # "last_block"
      BY <2>1
    <3> QED BY <1>2, <2>1, <3>1, HoldsOld
  <2>2. CASE k # 0
    <3>1. 1 \in 1..k
      BY <1>1, <2>2
    <3>2. d["last_block"] = w[1].value
      BY <1>0, <1>1, <1>2, <1>5, <3>1
    <3> QED BY <1>1, <2>2, <3>2
  <2> QED BY <2>1, <2>2
<1>7. d["prevouts"] = IF k < Len(w) THEN d0["prevouts"] ELSE d0["prevouts"] \cup sp[b]
  <2>1. CASE k < l
    <3>1. \A i \in 1..k : i # l
      BY <1>1, <2>1
    <3>2. \A i \in 1..k : w[i].table # "prevouts"
      BY <1>0, <1>3, <3>1
    <3> QED BY <1>2, <2>1, <3>2, HoldsOld
  <2>2. CASE ~(k < l)
    <3>1. k = l /\ l \in 1..k
      BY <1>1, <2>2
    <3>2. d["prevouts"] = w[l].value
      BY <1>0, <1>1, <1>2, <1>5, <3>1
    <3> QED BY <1>1, <2>2, <3>2
  <2> QED BY <2>1, <2>2
<1>8. k # Len(w) => d["prevouts"] = d0["prevouts"]
  BY <1>1, <1>7
<1>9. ASSUME NEW t \in RowSet
      PROVE  d[t] = d0[t] \/ (k # 0 /\ Tokens(sp, b, h) /\ d[t] \in Remains(was[t], b))
  <2>1. d[t] = d0[t] \/ \E i \in 1..k : w[i].table = t /\ d[t] = w[i].value
    BY <1>2, HoldsSome
  <2>2. CASE \E i \in 1..k : w[i].table = t /\ d[t] = w[i].value
    <3> PICK i \in 1..k : w[i].table = t /\ d[t] = w[i].value
      BY <2>2
    <3>1. i \in 1..Len(w) /\ k # 0
      BY <1>1, <1>3
    <3>2. w[i].table \in RowSet
      OBVIOUS
    <3>3. /\ Tokens(sp, b, h)
          /\ w[i].value \in Remains(was[w[i].table], b)
      BY <3>1, <3>2, UndoTables
    <3> QED BY <3>1, <3>3
  <2> QED BY <2>1, <2>2
<1> QED BY <1>1, <1>4, <1>6, <1>8, <1>9 DEF HalfUndone

LEMMA UndoDone ==
  ASSUME NEW w, NEW d0, NEW d, NEW sp, NEW b, NEW h \in Nat, NEW was, UndoIs(w, d0, sp, b, h, was),
         Holds(d, d0, w, Len(w))
  PROVE  Undone(d, d0, sp, b, h, was)
<1> PICK k : k = Len(w)
  OBVIOUS
<1>1. /\ k \in Nat /\ k >= 3 /\ k \in 0..Len(w) /\ k # 0 /\ Holds(d, d0, w, k)
      /\ w[2].table = "block_info" /\ w[k].table = "prevouts"
      /\ w[2].value = Updated(d0["block_info"], h, Missing)
      /\ w[k].value = d0["prevouts"] \cup sp[b]
  BY DEF UndoIs
<1>2. "prevouts" \in Tables /\ "block_info" \in Tables /\ \A t \in RowSet : t \in Tables
  BY DEF Tables
<1>3. d["proof_of_history"] = d0["proof_of_history"] /\ d["last_block"] = h - 1
  <2>1. HalfUndone(d, d0, sp, b, h, was, k, Len(w))
    BY <1>1, UndoAfter
  <2> QED BY <1>1, <2>1 DEF HalfUndone
<1>4. \A i \in 1..k :
        /\ w[i].table = "prevouts" => i = k
        /\ w[i].table = "block_info" => i = 2
  <2>1. ASSUME NEW i \in 1..Len(w)
        PROVE  /\ w[i].table = "prevouts" => i = Len(w)
               /\ w[i].table = "block_info" => i = 2
    BY UndoTables
  <2> QED BY <2>1
<1>5. ASSUME NEW n \in 1..k, NEW t \in Tables, w[n].table = t,
             \A i \in 1..k : w[i].table = t => i = n
      PROVE  d[t] = w[n].value
  <2>1. ~ \A i \in 1..k : w[i].table # t
    BY <1>5
  <2> PICK i \in 1..k : w[i].table = t /\ d[t] = w[i].value
    BY <1>1, <2>1 DEF Holds
  <2>2. i = n
    BY <1>5
  <2> QED BY <2>2
<1>6. d["prevouts"] = d0["prevouts"] \cup sp[b] /\ d["block_info"] = Updated(d0["block_info"], h, Missing)
  <2>1. 2 \in 1..k /\ k \in 1..k
    BY <1>1
  <2>2. d["prevouts"] = w[k].value
    BY <1>1, <1>2, <1>4, <1>5, <2>1
  <2>3. d["block_info"] = w[2].value
    BY <1>1, <1>2, <1>4, <1>5, <2>1
  <2> QED BY <1>1, <2>2, <2>3
<1>7. ASSUME NEW t \in RowSet PROVE d[t] = IF Tokens(sp, b, h) THEN was[t] ELSE d0[t]
  <2>1. CASE Tokens(sp, b, h)
    <3> PICK v : v = was[t]
      OBVIOUS
    <3>1. Ends(w, t, v) /\ t \in Tables /\ k \in Nat /\ k <= Len(w) /\ Len(w) \in Nat
      BY <1>1, <1>2, <2>1 DEF UndoIs
    <3>2. \A i \in k + 1..Len(w) : w[i].table # t
      BY <1>1
    <3>3. d[t] = v
      BY ONLY <1>1, <3>1, <3>2, HoldsNew
    <3> QED BY <2>1, <3>3
  <2>2. CASE ~Tokens(sp, b, h)
    <3>1. HalfUndone(d, d0, sp, b, h, was, k, Len(w))
      BY <1>1, UndoAfter
    <3> QED BY <2>2, <3>1 DEF HalfUndone
  <2> QED BY <2>1, <2>2
<1> QED BY <1>3, <1>6, <1>7 DEF Undone

----------------------------------------------------------------------------
(* Tables at rest, and what a kill leaves. *)

\* last_block after n blocks: 0 before the first height with tokens.
LastOf(n) == IF n < StartHeight THEN 0 ELSE n
RowsAre(sp, d, c) == \A t \in RowSet : d[t] = RowsIn(sp, c)

\* With kills, what a block spent stays spent; without them everything is in its place.
Spent(sp, d, c) == \A h \in 1..Len(c) : sp[c[h]] \cap d["prevouts"] = {}
Kept(sp, d, c) ==
  /\ \A h \in 1..Len(c) : c[h] \in d["prevouts"] \/ \E j \in 1..Len(c) : c[h] \in sp[c[j]]
  /\ d["block_info"] = [h \in Heights |-> IF h \in StartHeight..Len(c) THEN c[h] ELSE Missing]
  /\ DOMAIN d["proof_of_history"] = Heights /\ d["proof_of_history"][StartHeight - 1] = <<>>
  /\ \A h \in StartHeight..Len(c) : d["proof_of_history"][h] = SubSeq(c, StartHeight, h)

Rest(sp, cr, tr, d, c) ==
  /\ RowsAre(sp, d, c) /\ d["last_block"] = LastOf(Len(c))
  /\ tr = "crash" => Spent(sp, d, c)
  /\ cr = 0 => Kept(sp, d, c)

\* The rows of a chain are there, and nothing before them.
Reaches(sp, d, c) == \A t \in RowSet : d[t] \in Seq(Int) /\ IsPrefix(RowsIn(sp, c), d[t])

\* What a kill in the middle of a block leaves: a next block that cannot be applied.
Damaged(sp, nd, d, c) ==
  /\ Len(c) >= StartHeight /\ Len(c) < Len(nd) /\ d["last_block"] = Len(c)
  /\ Reaches(sp, d, c)
  /\ \E o \in sp[Len(c) + 1] : o # Len(c) + 1 /\ o \notin d["prevouts"]

\* The blocks from height StartHeight on.
LEMMA PartIs ==
  ASSUME NEW c \in Seq(Nat), NEW s \in Nat, NEW k \in Nat, s >= 1, s <= k + 1, k <= Len(c),
         NEW m, m = k - s + 1
  PROVE  /\ SubSeq(c, s, k) \in Seq(Nat) /\ Len(SubSeq(c, s, k)) = m
         /\ \A i \in 1..m : SubSeq(c, s, k)[i] = c[s + i - 1]
<1>1. CASE s = k + 1
  <2>1. SubSeq(c, s, k) = <<>> /\ m = 0 /\ 1..0 = {} /\ <<>> \in Seq(Nat) /\ Len(<<>>) = 0
    BY <1>1
  <2> QED BY <2>1
<1>2. CASE s <= k
  BY <1>2
<1> QED BY <1>1, <1>2

LEMMA PartAs ==
  ASSUME NEW c, NEW s, NEW k, NEW m, NEW x,
         c \in Seq(Nat), s \in Nat, k \in Nat, s >= 1, s <= k + 1, k <= Len(c), m = k - s + 1,
         x = SubSeq(c, s, k)
  PROVE  x \in Seq(Nat) /\ Len(x) = m /\ \A i \in 1..m : x[i] = c[s + i - 1]
BY PartIs

LEMMA LastBlocks ==
  ASSUME NEW c \in Seq(Nat), NEW b \in Nat
  PROVE  /\ \A h \in StartHeight..Len(c) : SubSeq(Append(c, b), StartHeight, h) = SubSeq(c, StartHeight, h)
         /\ Len(c) + 1 >= StartHeight =>
              SubSeq(Append(c, b), StartHeight, Len(c) + 1) =
                IF Len(c) + 1 = StartHeight THEN Append(<<>>, b) ELSE Append(SubSeq(c, StartHeight, Len(c)), b)
<1> PICK S : S = StartHeight
  OBVIOUS
<1> PICK n : n = Len(c)
  OBVIOUS
<1> PICK e : e = Append(c, b)
  OBVIOUS
<1>1. /\ S \in Nat /\ S >= 1 /\ n \in Nat /\ e \in Seq(Nat) /\ Len(e) = n + 1 /\ e[n + 1] = b
      /\ \A i \in 1..n : e[i] = c[i]
  OBVIOUS
<1>2. ASSUME NEW h \in S..n PROVE SubSeq(e, S, h) = SubSeq(c, S, h)
  <2>1. h \in 1..n /\ h \in Nat /\ S <= h /\ h <= n
    BY <1>1
  <2> PICK x, y : x = SubSeq(e, S, h) /\ y = SubSeq(c, S, h)
    OBVIOUS
  <2> PICK m : m = h - S + 1
    OBVIOUS
  <2>0. /\ e \in Seq(Nat) /\ c \in Seq(Nat) /\ S \in Nat /\ h \in Nat /\ S >= 1 /\ S <= h + 1
        /\ h <= Len(e) /\ h <= Len(c) /\ m = h - S + 1
    BY <1>1, <2>1
  <2>a. x = SubSeq(e, S, h) /\ y = SubSeq(c, S, h)
    OBVIOUS
  <2>2. x \in Seq(Nat) /\ Len(x) = m /\ \A i \in 1..m : x[i] = e[S + i - 1]
    <3>1. /\ e \in Seq(Nat) /\ S \in Nat /\ h \in Nat /\ S >= 1 /\ S <= h + 1 /\ h <= Len(e)
          /\ m = h - S + 1 /\ x = SubSeq(e, S, h)
      BY <2>0, <2>a
    <3> QED BY ONLY <3>1, PartAs
  <2>3. y \in Seq(Nat) /\ Len(y) = m /\ \A i \in 1..m : y[i] = c[S + i - 1]
    <3>1. /\ c \in Seq(Nat) /\ S \in Nat /\ h \in Nat /\ S >= 1 /\ S <= h + 1 /\ h <= Len(c)
          /\ m = h - S + 1 /\ y = SubSeq(c, S, h)
      BY <2>0, <2>a
    <3> QED BY ONLY <3>1, PartAs
  <2>4. \A i \in 1..m : S + i - 1 \in 1..n
    BY <1>1, <2>1
  <2>5. \A i \in 1..m : x[i] = y[i]
    BY <1>1, <2>2, <2>3, <2>4
  <2>6. x = y
    BY <2>2, <2>3, <2>5, SameChain
  <2> QED BY <2>6
<1>3. ASSUME n + 1 >= S
      PROVE  SubSeq(e, S, n + 1) = IF n + 1 = S THEN Append(<<>>, b) ELSE Append(SubSeq(c, S, n), b)
  <2> PICK x, y : x = SubSeq(e, S, n + 1) /\ y = SubSeq(c, S, n)
    OBVIOUS
  <2> PICK m : m = n + 1 - S
    OBVIOUS
  <2>1. m \in Nat
    BY <1>1, <1>3
  <2>2. x \in Seq(Nat) /\ Len(x) = m + 1 /\ \A i \in 1..m + 1 : x[i] = e[S + i - 1]
    <3> PICK k : k = n + 1
      OBVIOUS
    <3> PICK l : l = m + 1
      OBVIOUS
    <3>1. k \in Nat /\ S <= k + 1 /\ k <= Len(e) /\ l = k - S + 1 /\ x = SubSeq(e, S, k)
      BY <1>1, <1>3
    <3>0. e \in Seq(Nat) /\ S \in Nat /\ S >= 1
      BY <1>1
    <3>2. x \in Seq(Nat) /\ Len(x) = l /\ \A i \in 1..l : x[i] = e[S + i - 1]
      BY ONLY <3>0, <3>1, PartAs
    <3> QED BY <3>2
  <2>3. y \in Seq(Nat) /\ Len(y) = m /\ \A i \in 1..m : y[i] = c[S + i - 1]
    <3>1. S <= n + 1 /\ n <= Len(c) /\ m = n - S + 1 /\ y = SubSeq(c, S, n) /\ c \in Seq(Nat)
      BY <1>1, <1>3
    <3>2. S \in Nat /\ S >= 1 /\ n \in Nat
      BY <1>1
    <3> QED BY ONLY <3>1, <3>2, PartAs
  <2> PICK z : z = Append(y, b)
    OBVIOUS
  <2>4. z \in Seq(Nat) /\ Len(z) = m + 1 /\ z[m + 1] = b /\ \A i \in 1..m : z[i] = y[i]
    <3>1. z = Append(y, b) /\ y \in Seq(Nat) /\ Len(y) = m /\ b \in Nat
      BY <2>3
    <3> QED BY ONLY <3>1
  <2>5. ASSUME NEW i \in 1..m + 1 PROVE x[i] = z[i]
    <3>1. CASE i = m + 1
      <4>1. S + i - 1 = n + 1
        BY <1>1, <2>1, <3>1
      <4> QED BY <1>1, <2>2, <2>4, <3>1, <4>1
    <3>2. CASE i \in 1..m
      <4> PICK j : j = S + i - 1
        OBVIOUS
      <4>1. j \in 1..n
        BY <1>1, <2>1, <3>2
      <4>2. x[i] = e[j] /\ y[i] = c[j] /\ z[i] = y[i]
        BY <2>2, <2>3, <2>4, <3>2
      <4>3. e[j] = c[j]
        BY <1>1, <4>1
      <4> QED BY <4>2, <4>3
    <3>3. i = m + 1 \/ i \in 1..m
      BY ONLY <2>1, i \in 1..m + 1
    <3> QED BY <3>1, <3>2, <3>3
  <2>6. x = z
    <3>1. Len(x) = Len(z) /\ \A i \in 1..Len(x) : x[i] = z[i]
      BY <2>1, <2>2, <2>4, <2>5
    <3> QED BY ONLY <2>2, <2>4, <3>1, SameChain
  <2>7. n + 1 = S => y = <<>>
    <3>1. n + 1 = S => Len(y) = 0
      BY <2>1, <2>3
    <3> QED BY <2>3, <3>1
  <2> QED BY <2>6, <2>7
<1> QED BY <1>2, <1>3

\* A block that was written: the tables are at rest one block further.
LEMMA AppendIs ==
  ASSUME NEW c \in Seq(Nat), NEW b \in Nat, NEW e, e = Append(c, b), NEW n, n = Len(c)
  PROVE  /\ e \in Seq(Nat) /\ n \in Nat /\ Len(e) = n + 1 /\ e[n + 1] = b
         /\ \A i \in 1..n : e[i] = c[i] /\ i \in 1..n + 1
         /\ \A i \in 1..n + 1 : i = n + 1 \/ i \in 1..n
OBVIOUS

LEMMA RestApply ==
  ASSUME NEW sp, NEW cr, NEW tr, NEW d0, NEW d, NEW c \in Seq(Nat), NEW b \in Nat, NEW w,
         ApplyIs(w, d0, sp, b, Len(c) + 1), Holds(d, d0, w, Len(w)), Rest(sp, cr, tr, d0, c),
         Len(c) + 1 <= MaxBlocks, tr = "crash" => \A h \in 1..Len(c) : b \notin sp[c[h]]
  PROVE  Rest(sp, cr, tr, d, Append(c, b))
<1> PICK n : n = Len(c)
  OBVIOUS
<1> PICK e : e = Append(c, b)
  OBVIOUS
<1> PICK k : k = n + 1
  OBVIOUS
<1>1. /\ n \in Nat /\ e \in Seq(Nat) /\ Len(e) = k /\ e[k] = b /\ k \in Nat /\ k = n + 1 /\ k - 1 = n
      /\ \A i \in 1..n : e[i] = c[i] /\ i \in 1..k
      /\ \A i \in 1..k : i = k \/ i \in 1..n
  BY AppendIs
<1>2. ApplyIs(w, d0, sp, b, k) /\ k <= MaxBlocks
  OBVIOUS
<1>3. /\ d["prevouts"] = (d0["prevouts"] \cup {b}) \ sp[b]
      /\ \A t \in RowSet : d[t] = IF Tokens(sp, b, k) THEN Append(d0[t], b) ELSE d0[t]
      /\ k < StartHeight => /\ d["last_block"] = d0["last_block"] /\ d["block_info"] = d0["block_info"]
                            /\ d["proof_of_history"] = d0["proof_of_history"]
      /\ k >= StartHeight =>
           /\ d["last_block"] = k /\ d["block_info"] = Updated(d0["block_info"], k, b)
           /\ d["proof_of_history"] =
                Updated(d0["proof_of_history"], k, Append(d0["proof_of_history"][n], b))
  <2> PICK l : l = Len(w)
    OBVIOUS
  <2>1. k \in Nat /\ ApplyIs(w, d0, sp, b, k) /\ l = Len(w) /\ Holds(d, d0, w, l)
    BY <1>1, <1>2
  <2>2. /\ d["prevouts"] = (d0["prevouts"] \cup {b}) \ sp[b]
        /\ \A t \in RowSet : d[t] = IF Tokens(sp, b, k) THEN Append(d0[t], b) ELSE d0[t]
    BY <2>1, ApplyDone
  <2>3. k < StartHeight => /\ d["last_block"] = d0["last_block"] /\ d["block_info"] = d0["block_info"]
                           /\ d["proof_of_history"] = d0["proof_of_history"]
    BY <2>1, ApplyDone
  <2>4. k >= StartHeight => d["last_block"] = k /\ d["block_info"] = Updated(d0["block_info"], k, b)
    BY <2>1, ApplyDone
  <2>5. k >= StartHeight =>
          d["proof_of_history"] =
            Updated(d0["proof_of_history"], k, Append(d0["proof_of_history"][k - 1], b))
    BY <2>1, ApplyDone
  <2>6. k - 1 = n
    BY <1>1
  <2> QED BY <2>2, <2>3, <2>4, <2>5, <2>6
<1>4. RowsAre(sp, d, e)
  <2>1. \A t \in RowSet : d0[t] = RowsIn(sp, c)
    BY DEF Rest, RowsAre
  <2>2. RowsIn(sp, e) = IF Tokens(sp, b, k) THEN Append(RowsIn(sp, c), b) ELSE RowsIn(sp, c)
    BY RowsAppend
  <2> QED BY <1>3, <2>1, <2>2 DEF RowsAre
<1>5. d["last_block"] = LastOf(Len(e))
  <2>1. d0["last_block"] = LastOf(n)
    BY DEF Rest
  <2>2. CASE k < StartHeight
    <3>1. n < StartHeight
      BY <1>1, <2>2
    <3> QED BY <1>1, <1>3, <2>1, <2>2, <3>1 DEF LastOf
  <2>3. CASE ~(k < StartHeight)
    <3>1. k >= StartHeight
      BY <1>1, <2>3
    <3> QED BY <1>1, <1>3, <2>3, <3>1 DEF LastOf
  <2> QED BY <2>2, <2>3
<1>6. ASSUME tr = "crash" PROVE Spent(sp, d, e)
  <2>1. \A h \in 1..n : sp[c[h]] \cap d0["prevouts"] = {}
    BY <1>6 DEF Rest, Spent
  <2>2. \A h \in 1..n : b \notin sp[c[h]]
    BY <1>6
  <2>3. ASSUME NEW h \in 1..k PROVE sp[e[h]] \cap d["prevouts"] = {}
    <3>1. CASE h = k
      BY <1>1, <1>3, <3>1
    <3>2. CASE h \in 1..n
      <4>1. e[h] = c[h]
        BY <1>1, <3>2
      <4>2. sp[c[h]] \cap d["prevouts"] = {}
        BY <1>3, <2>1, <2>2, <3>2
      <4> QED BY <4>1, <4>2
    <3> QED BY <1>1, <3>1, <3>2
  <2> QED BY <1>1, <2>3 DEF Spent
<1>7. ASSUME cr = 0 PROVE Kept(sp, d, e)
  <2>0. Kept(sp, d0, c)
    BY <1>7 DEF Rest
  <2>1. ASSUME NEW h \in 1..k PROVE e[h] \in d["prevouts"] \/ \E j \in 1..k : e[h] \in sp[e[j]]
    <3>0. k \in 1..k
      BY <1>1
    <3>1. e[h] \in sp[b] \/ e[h] \notin sp[b]
      OBVIOUS
    <3>2. CASE e[h] \in sp[b]
      BY <1>1, <3>0, <3>2
    <3>3. CASE e[h] \notin sp[b] /\ h = k
      BY <1>1, <1>3, <3>3
    <3>4. CASE e[h] \notin sp[b] /\ h \in 1..n
      <4>1. e[h] = c[h]
        BY <1>1, <3>4
      <4>2. c[h] \in d0["prevouts"] \/ \E j \in 1..n : c[h] \in sp[c[j]]
        BY <2>0, <3>4 DEF Kept
      <4>3. CASE c[h] \in d0["prevouts"]
        BY <1>3, <3>4, <4>1, <4>3
      <4>4. CASE \E j \in 1..n : c[h] \in sp[c[j]]
        BY <1>1, <4>1, <4>4
      <4> QED BY <4>2, <4>3, <4>4
    <3> QED BY <1>1, <3>2, <3>3, <3>4
  <2>2. /\ d["block_info"] = [h \in Heights |-> IF h \in StartHeight..k THEN e[h] ELSE Missing]
        /\ DOMAIN d["proof_of_history"] = Heights /\ d["proof_of_history"][StartHeight - 1] = <<>>
        /\ \A h \in StartHeight..k : d["proof_of_history"][h] = SubSeq(e, StartHeight, h)
    <3> PICK f : f = d0["block_info"]
      OBVIOUS
    <3> PICK g : g = d0["proof_of_history"]
      OBVIOUS
    <3>1. /\ f = [h \in Heights |-> IF h \in StartHeight..n THEN c[h] ELSE Missing]
          /\ DOMAIN g = Heights /\ g[StartHeight - 1] = <<>>
          /\ \A h \in StartHeight..n : g[h] = SubSeq(c, StartHeight, h)
      BY <2>0 DEF Kept
    <3>2. CASE k < StartHeight
      <4>1. StartHeight..k = {} /\ StartHeight..n = {}
        BY <1>1, <3>2
      <4>2. d["block_info"] = f /\ d["proof_of_history"] = g
        BY <1>3, <3>2
      <4> QED BY <3>1, <4>1, <4>2
    <3>3. CASE ~(k < StartHeight)
      <4>1. /\ k >= StartHeight /\ k \in Heights /\ StartHeight - 1 # k
            /\ \A h \in StartHeight..k : h = k \/ h \in StartHeight..n
            /\ \A h \in StartHeight..n : h \in 1..n /\ h # k /\ h \in StartHeight..k
            /\ StartHeight \in Nat /\ k \in StartHeight..k /\ StartHeight - 1 \in Heights
            /\ \A h \in StartHeight..k : h \in Heights
        <5> PICK S : S = StartHeight
          OBVIOUS
        <5> PICK M : M = MaxBlocks
          OBVIOUS
        <5>0. S \in Nat /\ S >= 1 /\ M \in Nat
          OBVIOUS
        <5>1. n \in Nat /\ k = n + 1 /\ k >= S /\ k <= M
          BY <1>1, <1>2, <3>3
        <5>2. k \in 0..M /\ S - 1 # k /\ k \in S..k /\ S - 1 \in 0..M /\ k >= S
          BY ONLY <5>0, <5>1
        <5>3. \A h \in S..k : (h = k \/ h \in S..n) /\ h \in 0..M
          BY ONLY <5>0, <5>1
        <5>4. \A h \in S..n : h \in 1..n /\ h # k /\ h \in S..k
          BY ONLY <5>0, <5>1
        <5> QED BY <5>0, <5>2, <5>3, <5>4 DEF Heights
      <4>2. d["block_info"] = Updated(f, k, b) /\ d["proof_of_history"] = Updated(g, k, Append(g[n], b))
        BY <1>3, <4>1
      <4>3. Updated(f, k, b) = [h \in Heights |-> IF h \in StartHeight..k THEN e[h] ELSE Missing]
        <5> PICK x : x = Updated(f, k, b)
          OBVIOUS
        <5> PICK y : y = [h \in Heights |-> IF h \in StartHeight..k THEN e[h] ELSE Missing]
          OBVIOUS
        <5>1. DOMAIN x = Heights /\ x[k] = b /\ \A h \in Heights : h # k => x[h] = f[h]
          BY <3>1, <4>1 DEF Updated
        <5>2. x = [h \in Heights |-> x[h]]
          BY <3>1 DEF Updated
        <5>3. ASSUME NEW h \in Heights PROVE x[h] = IF h \in StartHeight..k THEN e[h] ELSE Missing
          <6>1. CASE h = k
            BY <1>1, <4>1, <5>1, <6>1
          <6>2. CASE h # k /\ h \in StartHeight..k
            <7>1. h \in StartHeight..n /\ h \in 1..n
              BY <4>1, <6>2
            <7>2. e[h] = c[h] /\ f[h] = c[h]
              BY <1>1, <3>1, <7>1
            <7> QED BY <5>1, <6>2, <7>2
          <6>3. CASE h # k /\ h \notin StartHeight..k
            <7>1. h \notin StartHeight..n
              BY <4>1, <6>3
            <7>2. f[h] = Missing
              BY <3>1, <7>1
            <7> QED BY <5>1, <6>3, <7>2
          <6> QED BY <6>1, <6>2, <6>3
        <5>4. \A h \in Heights : y[h] = IF h \in StartHeight..k THEN e[h] ELSE Missing
          OBVIOUS
        <5>5. x = y
          BY <5>2, <5>3, <5>4
        <5> QED BY <5>5
      <4> PICK q : q = Updated(g, k, Append(g[n], b))
        OBVIOUS
      <4>4. DOMAIN q = Heights /\ q[k] = Append(g[n], b) /\ \A h \in Heights : h # k => q[h] = g[h]
        BY <3>1, <4>1 DEF Updated
      <4>5. q[StartHeight - 1] = <<>>
        BY <3>1, <4>1, <4>4
      <4>6. ASSUME NEW h \in StartHeight..k PROVE q[h] = SubSeq(e, StartHeight, h)
        <5>1. CASE h = k
          <6>1. SubSeq(e, StartHeight, k) =
                  IF k = StartHeight THEN Append(<<>>, b) ELSE Append(SubSeq(c, StartHeight, n), b)
            <7>1. n + 1 >= StartHeight
              BY <1>1, <4>1
            <7>2. SubSeq(e, StartHeight, n + 1) =
                    IF n + 1 = StartHeight THEN Append(<<>>, b) ELSE Append(SubSeq(c, StartHeight, n), b)
              BY <7>1, LastBlocks
            <7> QED BY <1>1, <7>2
          <6>2. CASE k = StartHeight
            <7>1. g[n] = <<>>
              BY <1>1, <3>1, <6>2
            <7> QED BY <4>4, <5>1, <6>1, <6>2, <7>1
          <6>3. CASE k # StartHeight
            <7>1. n \in StartHeight..n
              BY <1>1, <4>1, <6>3
            <7> QED BY <3>1, <4>4, <5>1, <6>1, <6>3, <7>1
          <6> QED BY <6>2, <6>3
        <5>2. CASE h # k
          <6>1. h \in StartHeight..n /\ h \in Heights
            BY <4>1, <5>2
          <6>2. SubSeq(e, StartHeight, h) = SubSeq(c, StartHeight, h)
            BY <6>1, LastBlocks
          <6> QED BY <3>1, <4>4, <5>2, <6>1, <6>2
        <5> QED BY <5>1, <5>2
      <4> QED BY <4>2, <4>3, <4>4, <4>5, <4>6
    <3> QED BY <3>2, <3>3
  <2> QED BY <1>1, <2>1, <2>2 DEF Kept
<1> QED BY <1>4, <1>5, <1>6, <1>7 DEF Rest

\* A block that was undone: the tables are at rest one block before it.
LEMMA RestUndo ==
  ASSUME NEW sp, NEW cr, NEW tr, NEW d0, NEW d, NEW c \in Seq(Nat), NEW b \in Nat, NEW w, NEW was,
         NEW k \in Nat, k = Len(c) + 1, UndoIs(w, d0, sp, b, k, was), Holds(d, d0, w, Len(w)),
         Rest(sp, cr, tr, d0, Append(c, b)), Len(c) >= StartHeight,
         \A t \in RowSet : was[t] = RowsIn(sp, c),
         tr = "crash" => \A h \in 1..Len(c) : sp[c[h]] \cap sp[b] = {}
  PROVE  Rest(sp, cr, tr, d, c)
<1> PICK n : n = Len(c)
  OBVIOUS
<1> PICK e : e = Append(c, b)
  OBVIOUS
<1>1. /\ n \in Nat /\ e \in Seq(Nat) /\ Len(e) = k /\ e[k] = b /\ k \in Nat /\ k - 1 = n
      /\ \A i \in 1..n : e[i] = c[i] /\ i \in 1..k
      /\ \A i \in 1..k : i = k \/ i \in 1..n
      /\ n >= StartHeight /\ StartHeight \in Nat
  BY AppendIs
<1>2. Rest(sp, cr, tr, d0, e)
  OBVIOUS
<1>3. /\ d["proof_of_history"] = d0["proof_of_history"] /\ d["last_block"] = n
      /\ d["prevouts"] = d0["prevouts"] \cup sp[b]
      /\ d["block_info"] = Updated(d0["block_info"], k, Missing)
      /\ \A t \in RowSet : d[t] = IF Tokens(sp, b, k) THEN was[t] ELSE d0[t]
  <2>1. Undone(d, d0, sp, b, k, was)
    BY UndoDone
  <2> QED BY <1>1, <2>1 DEF Undone
<1>4. RowsAre(sp, d, c)
  <2>1. \A t \in RowSet : d0[t] = RowsIn(sp, e)
    BY <1>2 DEF Rest, RowsAre
  <2>2. RowsIn(sp, e) = IF Tokens(sp, b, k) THEN Append(RowsIn(sp, c), b) ELSE RowsIn(sp, c)
    BY RowsAppend
  <2>3. \A t \in RowSet : was[t] = RowsIn(sp, c)
    OBVIOUS
  <2> QED BY <1>3, <2>1, <2>2, <2>3 DEF RowsAre
<1>5. d["last_block"] = LastOf(n)
  BY <1>1, <1>3 DEF LastOf
<1>6. ASSUME tr = "crash" PROVE Spent(sp, d, c)
  <2>1. \A h \in 1..k : sp[e[h]] \cap d0["prevouts"] = {}
    BY <1>1, <1>2, <1>6 DEF Rest, Spent
  <2>2. ASSUME NEW h \in 1..n PROVE sp[c[h]] \cap d["prevouts"] = {}
    <3>1. sp[c[h]] \cap d0["prevouts"] = {}
      BY <1>1, <2>1
    <3>2. sp[c[h]] \cap sp[b] = {}
      BY <1>6
    <3> QED BY <1>3, <3>1, <3>2
  <2> QED BY <2>2 DEF Spent
<1>7. ASSUME cr = 0 PROVE Kept(sp, d, c)
  <2>0. Kept(sp, d0, e)
    BY <1>2, <1>7 DEF Rest
  <2>1. ASSUME NEW h \in 1..n PROVE c[h] \in d["prevouts"] \/ \E j \in 1..n : c[h] \in sp[c[j]]
    <3>1. e[h] = c[h] /\ (e[h] \in d0["prevouts"] \/ \E j \in 1..k : e[h] \in sp[e[j]])
      BY <1>1, <2>0 DEF Kept
    <3>2. CASE c[h] \in d0["prevouts"]
      BY <1>3, <3>2
    <3>3. CASE \E j \in 1..k : c[h] \in sp[e[j]]
      <4> PICK j \in 1..k : c[h] \in sp[e[j]]
        BY <3>3
      <4>1. CASE j = k
        BY <1>1, <1>3, <4>1
      <4>2. CASE j \in 1..n
        BY <1>1, <4>2
      <4> QED BY <1>1, <4>1, <4>2
    <3> QED BY <3>1, <3>2, <3>3
  <2> PICK f : f = d0["block_info"]
    OBVIOUS
  <2>2. f = [h \in Heights |-> IF h \in StartHeight..k THEN e[h] ELSE Missing]
    BY <1>1, <2>0 DEF Kept
  <2>3. d["block_info"] = [h \in Heights |-> IF h \in StartHeight..n THEN c[h] ELSE Missing]
    <3> PICK x : x = Updated(f, k, Missing)
      OBVIOUS
    <3> PICK y : y = [h \in Heights |-> IF h \in StartHeight..n THEN c[h] ELSE Missing]
      OBVIOUS
    <3>1. /\ DOMAIN x = Heights /\ x = [h \in Heights |-> x[h]]
          /\ \A h \in Heights : x[h] = IF h = k THEN Missing ELSE f[h]
      BY <2>2 DEF Updated
    <3>2. ASSUME NEW h \in Heights PROVE x[h] = IF h \in StartHeight..n THEN c[h] ELSE Missing
      <4>0. f[h] = IF h \in StartHeight..k THEN e[h] ELSE Missing
        BY <2>2
      <4>1. CASE h = k
        <5>1. h \notin StartHeight..n
          BY <1>1, <4>1
        <5> QED BY <3>1, <4>1, <5>1
      <4>2. CASE h # k /\ h \in StartHeight..n
        <5>1. h \in StartHeight..k /\ h \in 1..n
          BY <1>1, <4>2
        <5> QED BY <1>1, <3>1, <4>0, <4>2, <5>1
      <4>3. CASE h # k /\ h \notin StartHeight..n
        <5>1. h \notin StartHeight..k
          BY <1>1, <4>3
        <5> QED BY <3>1, <4>0, <4>3, <5>1
      <4> QED BY <4>1, <4>2, <4>3
    <3>3. \A h \in Heights : y[h] = IF h \in StartHeight..n THEN c[h] ELSE Missing
      OBVIOUS
    <3>4. x = y
      BY <3>1, <3>2, <3>3
    <3> QED BY <1>3, <3>4
  <2>4. \A h \in StartHeight..n : d["proof_of_history"][h] = SubSeq(c, StartHeight, h)
    <3>1. ASSUME NEW h \in StartHeight..n PROVE d0["proof_of_history"][h] = SubSeq(c, StartHeight, h)
      <4>1. h \in StartHeight..k
        BY <1>1
      <4>2. d0["proof_of_history"][h] = SubSeq(e, StartHeight, h)
        BY <1>1, <2>0, <4>1 DEF Kept
      <4>3. SubSeq(e, StartHeight, h) = SubSeq(c, StartHeight, h)
        BY LastBlocks
      <4> QED BY <4>2, <4>3
    <3> QED BY <1>3, <3>1
  <2>5. DOMAIN d["proof_of_history"] = Heights /\ d["proof_of_history"][StartHeight - 1] = <<>>
    BY <1>3, <2>0 DEF Kept
  <2> QED BY <2>1, <2>3, <2>4, <2>5 DEF Kept
<1> QED BY <1>4, <1>5, <1>6, <1>7 DEF Rest

\* A start takes the tables for those of the chain up to last_block. Below StartHeight
\* that is the empty chain.
LEMMA AtLastBlock ==
  ASSUME NEW sp, NEW cr, NEW tr, NEW d, NEW nd \in Seq(Nat), NEW n \in 0..Len(nd),
         Rest(sp, cr, tr, d, SubSeq(nd, 1, n))
  PROVE  d["last_block"] \in 0..n /\ Rest(sp, cr, tr, d, SubSeq(nd, 1, d["last_block"]))
<1> PICK c : c = SubSeq(nd, 1, n)
  OBVIOUS
<1>1. c \in Seq(Nat) /\ Len(c) = n /\ n \in Nat /\ Rest(sp, cr, tr, d, c)
  BY FirstBlocks
<1>2. d["last_block"] = LastOf(n)
  BY <1>1 DEF Rest
<1>3. CASE ~(n < StartHeight)
  <2>1. d["last_block"] = n
    BY <1>2, <1>3 DEF LastOf
  <2> QED BY <1>1, <2>1
<1>4. CASE n < StartHeight
  <2>1. d["last_block"] = 0 /\ SubSeq(nd, 1, 0) = <<>>
    BY <1>2, <1>4 DEF LastOf
  <2>2. RowsIn(sp, c) = <<>> /\ RowsIn(sp, <<>>) = <<>>
    <3>1. 0 \in 0..Len(c) /\ Len(c) < StartHeight
      BY <1>1, <1>4
    <3>2. RowsIn(sp, c) = <<>>
      BY <1>1, <3>1, RowsGrow
    <3> QED BY <3>2, RowsEmpty
  <2>3. Len(<<>>) = 0 /\ 1..0 = {} /\ StartHeight..0 = {} /\ LastOf(0) = 0 /\ StartHeight..n = {}
    BY <1>1, <1>4 DEF LastOf
  <2>4. RowsAre(sp, d, <<>>)
    BY <1>1, <2>2 DEF Rest, RowsAre
  <2>5. Spent(sp, d, <<>>)
    BY <2>3 DEF Spent
  <2>6. ASSUME cr = 0 PROVE Kept(sp, d, <<>>)
    <3>1. Kept(sp, d, c)
      BY <1>1, <2>6 DEF Rest
    <3>2. /\ d["block_info"] = [h \in Heights |-> Missing]
          /\ DOMAIN d["proof_of_history"] = Heights /\ d["proof_of_history"][StartHeight - 1] = <<>>
      BY <1>1, <2>3, <3>1 DEF Kept
    <3> QED BY <2>3, <3>2 DEF Kept
  <2>7. Rest(sp, cr, tr, d, <<>>)
    BY <2>1, <2>3, <2>4, <2>5, <2>6 DEF Rest
  <2>8. 0 \in 0..n
    BY <1>1
  <2> PICK m : m = d["last_block"]
    OBVIOUS
  <2>9. m \in 0..n /\ Rest(sp, cr, tr, d, SubSeq(nd, 1, m))
    BY <2>1, <2>7, <2>8
  <2> QED BY <2>9
<1> QED BY <1>3, <1>4

\* A history with kills has no reorg: blocks are mined in the order of their numbers, and
\* no output is spent twice.
OnceSpent(sp, n) ==
  /\ \A h \in 1..n : /\ sp[h] \subseteq 1..h
                     /\ h <= StartHeight => sp[h] = {}
                     /\ sp[h] # {} => \E o \in sp[h] : o # h
  /\ \A g \in 1..n, h \in 1..n : g # h => sp[g] \cap sp[h] = {}

\* What a kill leaves, on the node's chain: the next start goes on from last_block.
Fallen(sp, cr, nd, d) ==
  \E m \in 0..Len(nd) : /\ d["last_block"] = m
                        /\ \/ Rest(sp, cr, "crash", d, SubSeq(nd, 1, m))
                           \/ Damaged(sp, nd, d, SubSeq(nd, 1, m))

LEMMA FallenAtRest ==
  ASSUME NEW sp, NEW cr, NEW nd \in Seq(Nat), NEW n \in 0..Len(nd), NEW d,
         Rest(sp, cr, "crash", d, SubSeq(nd, 1, n))
  PROVE  Fallen(sp, cr, nd, d)
<1>1. d["last_block"] \in 0..n /\ Rest(sp, cr, "crash", d, SubSeq(nd, 1, d["last_block"]))
  BY AtLastBlock
<1>2. d["last_block"] \in 0..Len(nd)
  BY <1>1
<1> QED BY <1>1, <1>2 DEF Fallen

\* Killed in the middle of a block.
LEMMA CrashApply ==
  ASSUME NEW sp, NEW cr, NEW cs, cs # 0, NEW nd \in Seq(Nat), \A i \in 1..Len(nd) : nd[i] = i,
         OnceSpent(sp, Len(nd)), NEW n \in Nat, NEW h \in Nat, h = n + 1, h <= Len(nd),
         NEW d0, NEW d, NEW w, ApplyIs(w, d0, sp, h, h), NEW k \in 0..Len(w), Holds(d, d0, w, k),
         Rest(sp, cr, "crash", d0, SubSeq(nd, 1, n))
  PROVE  Fallen(sp, cs, nd, d)
<1> PICK c : c = SubSeq(nd, 1, n)
  OBVIOUS
<1> PICK e : e = SubSeq(nd, 1, h)
  OBVIOUS
<1>0. n \in 0..Len(nd) /\ h \in 0..Len(nd) /\ h \in 1..Len(nd) /\ StartHeight \in Nat /\ StartHeight >= 1
      /\ k \in Nat
  <2>1. Len(nd) \in Nat /\ n <= Len(nd)
    OBVIOUS
  <2>2. Len(w) \in Nat
    BY DEF ApplyIs
  <2>3. k \in Nat
    BY <2>2
  <2> QED BY <2>1, <2>3
<1>1. /\ c \in Seq(Nat) /\ Len(c) = n /\ \A i \in 1..n : c[i] = nd[i]
      /\ e \in Seq(Nat) /\ Len(e) = h /\ \A i \in 1..h : e[i] = nd[i]
  BY <1>0, FirstBlocks
<1>2. e = Append(c, h)
  BY <1>0, FirstBlocksAppend
<1>3. HalfApplied(d, d0, sp, h, h, k)
  BY ApplyAfter
<1>4. Rest(sp, cr, "crash", d0, c)
  OBVIOUS
<1>5. RowsIn(sp, e) = IF Tokens(sp, h, h) THEN Append(RowsIn(sp, c), h) ELSE RowsIn(sp, c)
  <2>1. RowsIn(sp, Append(c, h)) =
          IF Tokens(sp, h, Len(c) + 1) THEN Append(RowsIn(sp, c), h) ELSE RowsIn(sp, c)
    BY <1>1, RowsAppend
  <2>2. Len(c) + 1 = h
    BY <1>1
  <2> QED BY <1>2, <2>1, <2>2
<1>6. /\ \A t \in RowSet : d0[t] = RowsIn(sp, c)
      /\ d0["last_block"] = LastOf(n)
      /\ \A i \in 1..n : sp[c[i]] \cap d0["prevouts"] = {}
  BY <1>1, <1>4 DEF Rest, RowsAre, Spent
<1>7. \A i \in 1..n : c[i] = i /\ sp[i] \subseteq 1..i /\ h \notin sp[i] /\ i \in 1..Len(nd)
  <2>1. ASSUME NEW i \in 1..n PROVE c[i] = i /\ sp[i] \subseteq 1..i /\ i \in 1..Len(nd) /\ h \notin 1..i
    BY <1>0, <1>1 DEF OnceSpent
  <2> QED BY <2>1
<1>8. ASSUME d["last_block"] # d0["last_block"] PROVE Fallen(sp, cs, nd, d)
  <2>1. /\ h >= StartHeight /\ d["last_block"] = h /\ k >= 2
        /\ d["prevouts"] = (d0["prevouts"] \cup {h}) \ sp[h]
        /\ \A t \in RowSet : d[t] = IF Tokens(sp, h, h) THEN Append(d0[t], h) ELSE d0[t]
    BY <1>3, <1>8 DEF HalfApplied
  <2>2. RowsAre(sp, d, e) /\ d["last_block"] = LastOf(Len(e))
    BY <1>0, <1>1, <1>5, <1>6, <2>1 DEF RowsAre, LastOf
  <2>3. ASSUME NEW i \in 1..h PROVE sp[e[i]] \cap d["prevouts"] = {}
    <3>1. CASE i = h
      <4>1. e[i] = h
        BY <1>0, <1>1, <3>1
      <4> QED BY <2>1, <4>1
    <3>2. CASE i \in 1..n
      <4>1. e[i] = i /\ c[i] = i
        BY <1>0, <1>1, <1>7, <3>2
      <4>2. sp[i] \cap d0["prevouts"] = {} /\ h \notin sp[i]
        BY <1>6, <1>7, <3>2, <4>1
      <4> QED BY <2>1, <4>1, <4>2
    <3>3. i = h \/ i \in 1..n
      BY <1>0
    <3> QED BY <3>1, <3>2, <3>3
  <2>4. Rest(sp, cs, "crash", d, e)
    BY <1>1, <2>2, <2>3 DEF Rest, Spent
  <2> QED BY <1>0, <2>4, FallenAtRest
<1>9. ASSUME d["last_block"] = d0["last_block"], RowsAre(sp, d, c), d["prevouts"] \subseteq d0["prevouts"] \cup {h}
      PROVE  Fallen(sp, cs, nd, d)
  <2>1. ASSUME NEW i \in 1..n PROVE sp[c[i]] \cap d["prevouts"] = {}
    <3>1. c[i] = i /\ h \notin sp[i]
      BY <1>7
    <3> QED BY <1>6, <1>9, <3>1
  <2>2. Rest(sp, cs, "crash", d, c)
    BY <1>1, <1>6, <1>9, <2>1 DEF Rest, Spent
  <2> QED BY <1>0, <2>2, FallenAtRest
<1>10. ASSUME d["last_block"] = d0["last_block"], sp[h] # {}, k >= 2
       PROVE  Fallen(sp, cs, nd, d)
  <2>1. h > StartHeight
    <3>1. h <= StartHeight => sp[h] = {}
      BY <1>0 DEF OnceSpent
    <3> QED BY <1>0, <1>10, <3>1
  <2>2. n >= StartHeight /\ n < Len(nd) /\ d["last_block"] = n
    BY <1>0, <1>6, <1>10, <2>1 DEF LastOf
  <2>3. RowsIn(sp, c) \in Seq(Int)
    <3>1. 0 \in 0..Len(c)
      BY <1>1
    <3> QED BY <1>1, <3>1, RowsGrow
  <2>4. ASSUME NEW t \in RowSet PROVE d[t] \in Seq(Int) /\ IsPrefix(RowsIn(sp, c), d[t])
    <3>1. d[t] = d0[t] \/ d[t] \in Halves(d0[t], h)
      BY <1>3 DEF HalfApplied
    <3>2. d[t] = RowsIn(sp, c) \/ \E x \in Int : d[t] = Append(RowsIn(sp, c), x)
      <4>1. h \in Int /\ -h \in Int /\ d0[t] = RowsIn(sp, c)
        BY <1>6
      <4>2. d[t] = RowsIn(sp, c) \/ d[t] = Append(RowsIn(sp, c), h) \/ d[t] = Append(RowsIn(sp, c), -h)
        BY <3>1, <4>1 DEF Halves
      <4> QED BY <4>1, <4>2
    <3>3. IsPrefix(RowsIn(sp, c), RowsIn(sp, c))
      BY <2>3, PrefixSelf
    <3> QED BY <2>3, <3>2, <3>3, PrefixAppend
  <2>5. \E o \in sp[h] : o # h /\ o \notin d["prevouts"]
    <3>1. \E o \in sp[h] : o # h
      BY <1>0, <1>10 DEF OnceSpent
    <3>2. d["prevouts"] = (d0["prevouts"] \cup {h}) \ sp[h]
      BY <1>3, <1>10 DEF HalfApplied
    <3> QED BY <3>1, <3>2
  <2>6. Damaged(sp, nd, d, c)
    BY <1>1, <2>2, <2>4, <2>5 DEF Damaged, Reaches
  <2> QED BY <1>0, <2>2, <2>6 DEF Fallen
<1>11. CASE k < 2
  <2>1. RowsAre(sp, d, c)
    BY <1>3, <1>6, <1>11 DEF HalfApplied, RowsAre
  <2>2. d["prevouts"] \subseteq d0["prevouts"] \cup {h}
    <3>1. k = 0 \/ k = 1
      BY <1>0, <1>11
    <3> QED BY <1>3, <3>1 DEF HalfApplied
  <2> QED BY <1>8, <1>9, <2>1, <2>2
<1>12. CASE k >= 2 /\ sp[h] = {}
  <2>1. ~Tokens(sp, h, h)
    BY <1>12 DEF Tokens
  <2>2. RowsAre(sp, d, c)
    BY <1>3, <1>6, <2>1 DEF HalfApplied, RowsAre
  <2>3. d["prevouts"] \subseteq d0["prevouts"] \cup {h}
    BY <1>3, <1>12 DEF HalfApplied
  <2> QED BY <1>8, <1>9, <2>2, <2>3
<1>13. k < 2 \/ k >= 2
  BY <1>0
<1> QED BY <1>8, <1>10, <1>11, <1>12, <1>13

\* Killed in the middle of an undone block. Its outputs are put back last.
LEMMA CrashUndo ==
  ASSUME NEW sp, NEW cr, NEW cs, cs # 0, NEW nd \in Seq(Nat), \A i \in 1..Len(nd) : nd[i] = i,
         OnceSpent(sp, Len(nd)), NEW n \in Nat, n >= StartHeight, NEW h \in Nat, h = n + 1, h <= Len(nd),
         NEW d0, NEW d, NEW w, NEW was, UndoIs(w, d0, sp, h, h, was),
         \A t \in RowSet : was[t] = RowsIn(sp, SubSeq(nd, 1, n)),
         NEW k \in 0..Len(w), k # Len(w), Holds(d, d0, w, k),
         Rest(sp, cr, "crash", d0, SubSeq(nd, 1, h))
  PROVE  Fallen(sp, cs, nd, d)
<1> PICK c : c = SubSeq(nd, 1, n)
  OBVIOUS
<1> PICK e : e = SubSeq(nd, 1, h)
  OBVIOUS
<1>0. /\ n \in 0..Len(nd) /\ h \in 0..Len(nd) /\ h \in 1..Len(nd) /\ StartHeight \in Nat /\ StartHeight >= 1
      /\ n < Len(nd) /\ ~(h < StartHeight) /\ ~(n < StartHeight)
  <2>1. Len(nd) \in Nat
    OBVIOUS
  <2> QED BY <2>1
<1>1. /\ c \in Seq(Nat) /\ Len(c) = n /\ \A i \in 1..n : c[i] = nd[i]
      /\ e \in Seq(Nat) /\ Len(e) = h /\ \A i \in 1..h : e[i] = nd[i]
  BY <1>0, FirstBlocks
<1>2. e = Append(c, h)
  BY <1>0, FirstBlocksAppend
<1>3. HalfUndone(d, d0, sp, h, h, was, k, Len(w))
  BY UndoAfter
<1>4. Rest(sp, cr, "crash", d0, e) /\ \A t \in RowSet : was[t] = RowsIn(sp, c)
  OBVIOUS
<1>5. RowsIn(sp, e) = IF Tokens(sp, h, h) THEN Append(RowsIn(sp, c), h) ELSE RowsIn(sp, c)
  <2>1. RowsIn(sp, Append(c, h)) =
          IF Tokens(sp, h, Len(c) + 1) THEN Append(RowsIn(sp, c), h) ELSE RowsIn(sp, c)
    BY <1>1, RowsAppend
  <2>2. Len(c) + 1 = h
    BY <1>1
  <2> QED BY <1>2, <2>1, <2>2
<1>6. /\ \A t \in RowSet : d0[t] = RowsIn(sp, e)
      /\ d0["last_block"] = h
      /\ \A i \in 1..h : sp[e[i]] \cap d["prevouts"] = {}
  <2>1. d["prevouts"] = d0["prevouts"]
    BY <1>3 DEF HalfUndone
  <2> QED BY <1>0, <1>1, <1>4, <2>1 DEF Rest, RowsAre, Spent, LastOf
<1>7. RowsIn(sp, c) \in Seq(Int)
  <2>1. 0 \in 0..Len(c)
    BY <1>1
  <2> QED BY <1>1, <2>1, RowsGrow
<1>8. CASE k = 0
  <2>1. RowsAre(sp, d, e) /\ d["last_block"] = h
    BY <1>3, <1>6, <1>8 DEF HalfUndone, RowsAre
  <2>2. Rest(sp, cs, "crash", d, e)
    BY <1>0, <1>1, <1>6, <2>1 DEF Rest, Spent, LastOf
  <2> QED BY <1>0, <2>2, FallenAtRest
<1>9. CASE k # 0 /\ sp[h] = {}
  <2>1. RowsAre(sp, d, c)
    BY <1>3, <1>5, <1>6, <1>9 DEF HalfUndone, RowsAre, Tokens
  <2>2. d["last_block"] = LastOf(n)
    <3>1. d["last_block"] = h - 1
      BY <1>3, <1>9 DEF HalfUndone
    <3> QED BY <1>0, <3>1 DEF LastOf
  <2>3. ASSUME NEW i \in 1..n PROVE sp[c[i]] \cap d["prevouts"] = {}
    <3>1. i \in 1..h
      BY <1>0
    <3>2. c[i] = e[i]
      BY <1>1, <3>1
    <3> QED BY <1>6, <3>1, <3>2
  <2>4. Rest(sp, cs, "crash", d, c)
    BY <1>1, <2>1, <2>2, <2>3 DEF Rest, Spent
  <2> QED BY <1>0, <2>4, FallenAtRest
<1>10. CASE k # 0 /\ sp[h] # {}
  <2>1. d["last_block"] = n
    <3>1. d["last_block"] = h - 1
      BY <1>3, <1>10 DEF HalfUndone
    <3> QED BY <1>0, <3>1
  <2>2. ASSUME NEW t \in RowSet PROVE d[t] \in Seq(Int) /\ IsPrefix(RowsIn(sp, c), d[t])
    <3>1. d[t] = RowsIn(sp, e) \/ d[t] \in Remains(was[t], h)
      BY <1>3, <1>6 DEF HalfUndone
    <3>2. d[t] = RowsIn(sp, c) \/ \E x \in Int : d[t] = Append(RowsIn(sp, c), x)
      <4>1. h \in Int /\ -h \in Int /\ was[t] = RowsIn(sp, c)
        BY <1>4
      <4>2. d[t] = RowsIn(sp, c) \/ d[t] = Append(RowsIn(sp, c), h) \/ d[t] = Append(RowsIn(sp, c), -h)
        BY <1>5, <3>1, <4>1 DEF Remains
      <4> QED BY <4>1, <4>2
    <3>3. IsPrefix(RowsIn(sp, c), RowsIn(sp, c))
      BY <1>7, PrefixSelf
    <3> QED BY <1>7, <3>2, <3>3, PrefixAppend
  <2>3. \E o \in sp[h] : o # h /\ o \notin d["prevouts"]
    <3>1. \E o \in sp[h] : o # h
      BY <1>0, <1>10 DEF OnceSpent
    <3>2. e[h] = h /\ h \in 1..h
      BY <1>0, <1>1
    <3>3. sp[h] \cap d["prevouts"] = {}
      BY <1>6, <3>2
    <3> QED BY <3>1, <3>3
  <2>4. Damaged(sp, nd, d, c)
    BY <1>0, <1>1, <2>1, <2>2, <2>3 DEF Damaged, Reaches
  <2> QED BY <1>0, <2>1, <2>4 DEF Fallen
<1> QED BY <1>8, <1>9, <1>10

----------------------------------------------------------------------------
(* What last_block says. *)

LastWritten(sp, d, c) ==
  LET m == IF d["last_block"] < Len(c) THEN d["last_block"] ELSE Len(c)
  IN  \A t \in RowSet : IsPrefix(RowsIn(sp, SubSeq(c, 1, m)), d[t])

LEMMA Written ==
  ASSUME NEW sp, NEW d, NEW c \in Seq(Nat), NEW x \in Seq(Nat), NEW n \in Nat,
         n = IF d["last_block"] < Len(c) THEN d["last_block"] ELSE Len(c),
         n <= Len(c), n <= Len(x), \A i \in 1..n : c[i] = x[i], Reaches(sp, d, x)
  PROVE  LastWritten(sp, d, c)
<1> PICK y : y = SubSeq(c, 1, n)
  OBVIOUS
<1>1. n \in 0..Len(c) /\ n \in 0..Len(x)
  OBVIOUS
<1>2. y = SubSeq(x, 1, n)
  <2> PICK z : z = SubSeq(x, 1, n)
    OBVIOUS
  <2>1. y \in Seq(Nat) /\ Len(y) = n /\ \A i \in 1..n : y[i] = c[i]
    BY <1>1, FirstBlocks
  <2>2. z \in Seq(Nat) /\ Len(z) = n /\ \A i \in 1..n : z[i] = x[i]
    BY <1>1, FirstBlocks
  <2>3. y = z
    <3>1. Len(y) = Len(z) /\ \A i \in 1..Len(y) : y[i] = z[i]
      BY <2>1, <2>2
    <3> QED BY <2>1, <2>2, <3>1, SameChain
  <2> QED BY <2>3
<1>3. /\ RowsIn(sp, y) \in Seq(Int) /\ RowsIn(sp, x) \in Seq(Int) /\ IsPrefix(RowsIn(sp, y), RowsIn(sp, x))
  BY <1>1, <1>2, RowsGrow
<1>4. ASSUME NEW t \in RowSet PROVE IsPrefix(RowsIn(sp, y), d[t])
  <2>1. d[t] \in Seq(Int) /\ IsPrefix(RowsIn(sp, x), d[t])
    BY DEF Reaches
  <2> QED BY <1>3, <2>1, PrefixTrans
<1> QED BY <1>4 DEF LastWritten

LEMMA RestReaches ==
  ASSUME NEW sp, NEW cr, NEW tr, NEW d, NEW c \in Seq(Nat), Rest(sp, cr, tr, d, c)
  PROVE  Reaches(sp, d, c) /\ d["last_block"] \in Nat
<1>1. 0 \in 0..Len(c) /\ Len(c) \in Nat
  OBVIOUS
<1>2. RowsIn(sp, c) \in Seq(Int)
  BY <1>1, RowsGrow
<1>3. IsPrefix(RowsIn(sp, c), RowsIn(sp, c))
  BY <1>2, PrefixSelf
<1> QED BY <1>1, <1>2, <1>3 DEF Rest, RowsAre, Reaches, LastOf

\* In the middle of a block, and of an undone block.
LEMMA ApplyWritten ==
  ASSUME NEW sp, NEW cr, NEW tr, NEW d0, NEW d, NEW c \in Seq(Nat), NEW b \in Nat, NEW w,
         NEW h \in Nat, h = Len(c) + 1, ApplyIs(w, d0, sp, b, h), Rest(sp, cr, tr, d0, c),
         NEW k \in 0..Len(w), Holds(d, d0, w, k), NEW a \in Seq(Nat), a = Append(c, b)
  PROVE  LastWritten(sp, d, a)
<1> PICK n : n = Len(c)
  OBVIOUS
<1>1. /\ n \in Nat /\ Len(a) = h /\ h = n + 1 /\ \A i \in 1..n : a[i] = c[i]
  BY AppendIs
<1>2. HalfApplied(d, d0, sp, b, h, k)
  BY ApplyAfter
<1>3. \A t \in RowSet : d0[t] = RowsIn(sp, c)
  BY DEF Rest, RowsAre
<1>4. RowsIn(sp, c) \in Seq(Int) /\ IsPrefix(RowsIn(sp, c), RowsIn(sp, c))
  <2>1. n \in 0..Len(c)
    BY <1>1
  <2>2. RowsIn(sp, c) \in Seq(Int)
    BY <2>1, RowsGrow
  <2> QED BY <2>2, PrefixSelf
<1>5. RowsIn(sp, a) = IF Tokens(sp, b, h) THEN Append(RowsIn(sp, c), b) ELSE RowsIn(sp, c)
  BY RowsAppend
<1>6. CASE d["last_block"] = d0["last_block"]
  <2>1. ASSUME NEW t \in RowSet PROVE d[t] \in Seq(Int) /\ IsPrefix(RowsIn(sp, c), d[t])
    <3>1. d[t] = RowsIn(sp, c) \/ \E x \in Int : d[t] = Append(RowsIn(sp, c), x)
      <4>1. b \in Int /\ -b \in Int
        OBVIOUS
      <4>2. d[t] = RowsIn(sp, c) \/ d[t] = Append(RowsIn(sp, c), b) \/ d[t] = Append(RowsIn(sp, c), -b)
        BY <1>2, <1>3 DEF HalfApplied, Halves
      <4> QED BY <4>1, <4>2
    <3> QED BY <1>4, <3>1, PrefixAppend
  <2>2. Reaches(sp, d, c)
    BY <2>1 DEF Reaches
  <2> PICK m : m = d["last_block"]
    OBVIOUS
  <2>3. m \in Nat /\ m <= n /\ m = LastOf(n)
    <3>1. m = LastOf(n)
      BY <1>6 DEF Rest
    <3> QED BY <1>1, <3>1 DEF LastOf
  <2>4. m <= Len(a) /\ m <= Len(c) /\ (m = IF m < Len(a) THEN m ELSE Len(a)) /\ \A i \in 1..m : a[i] = c[i]
    BY <1>1, <2>3
  <2> QED BY <2>2, <2>3, <2>4, Written
<1>7. CASE d["last_block"] # d0["last_block"]
  <2>1. d["last_block"] = h /\ \A t \in RowSet : d[t] = RowsIn(sp, a)
    BY <1>2, <1>3, <1>5, <1>7 DEF HalfApplied
  <2>2. RowsIn(sp, a) \in Seq(Int) /\ IsPrefix(RowsIn(sp, a), RowsIn(sp, a))
    <3>1. h \in 0..Len(a)
      BY <1>1
    <3>2. RowsIn(sp, a) \in Seq(Int)
      BY <3>1, RowsGrow
    <3> QED BY <3>2, PrefixSelf
  <2>3. Reaches(sp, d, a)
    BY <2>1, <2>2 DEF Reaches
  <2>4. h <= Len(a) /\ h = IF d["last_block"] < Len(a) THEN d["last_block"] ELSE Len(a)
    BY <1>1, <2>1
  <2> QED BY <2>3, <2>4, Written
<1> QED BY <1>6, <1>7

LEMMA UndoWritten ==
  ASSUME NEW sp, NEW cr, NEW tr, NEW d0, NEW d, NEW a \in Seq(Nat), NEW b \in Nat, NEW w, NEW was,
         NEW h \in Nat, h = Len(a) + 1, UndoIs(w, d0, sp, b, h, was),
         Rest(sp, cr, tr, d0, Append(a, b)), \A t \in RowSet : was[t] = RowsIn(sp, a),
         NEW k \in 0..Len(w), Holds(d, d0, w, k)
  PROVE  LastWritten(sp, d, a)
<1> PICK n : n = Len(a)
  OBVIOUS
<1> PICK e : e = Append(a, b)
  OBVIOUS
<1>1. /\ n \in Nat /\ h = n + 1 /\ h - 1 = n /\ Len(e) = h
  BY AppendIs
<1>2. HalfUndone(d, d0, sp, b, h, was, k, Len(w))
  BY UndoAfter
<1>3. RowsIn(sp, a) \in Seq(Int) /\ IsPrefix(RowsIn(sp, a), RowsIn(sp, a))
  <2>1. n \in 0..Len(a)
    BY <1>1
  <2>2. RowsIn(sp, a) \in Seq(Int)
    BY <2>1, RowsGrow
  <2> QED BY <2>2, PrefixSelf
<1>4. RowsIn(sp, e) = IF Tokens(sp, b, h) THEN Append(RowsIn(sp, a), b) ELSE RowsIn(sp, a)
  BY RowsAppend
<1>5. d0["last_block"] = LastOf(h) /\ \A t \in RowSet : d0[t] = RowsIn(sp, e)
  BY <1>1 DEF Rest, RowsAre
<1>6. ASSUME NEW t \in RowSet PROVE d[t] \in Seq(Int) /\ IsPrefix(RowsIn(sp, a), d[t])
  <2>1. b \in Int /\ -b \in Int
    OBVIOUS
  <2>2. d[t] = RowsIn(sp, e) \/ d[t] \in Remains(was[t], b)
    BY <1>2, <1>5 DEF HalfUndone
  <2>3. was[t] = RowsIn(sp, a)
    OBVIOUS
  <2>4. d[t] = RowsIn(sp, a) \/ d[t] = Append(RowsIn(sp, a), b) \/ d[t] = Append(RowsIn(sp, a), -b)
    BY <1>4, <2>2, <2>3 DEF Remains
  <2>5. d[t] = RowsIn(sp, a) \/ \E x \in Int : d[t] = Append(RowsIn(sp, a), x)
    BY <2>1, <2>4
  <2> QED BY <1>3, <2>5, PrefixAppend
<1>7. Reaches(sp, d, a)
  BY <1>6 DEF Reaches
<1>8. d["last_block"] \in Nat
  <2>1. d["last_block"] = LastOf(h) \/ d["last_block"] = h - 1
    BY <1>2, <1>5 DEF HalfUndone
  <2> QED BY <1>1, <2>1 DEF LastOf
<1> PICK m : m = IF d["last_block"] < Len(a) THEN d["last_block"] ELSE Len(a)
  OBVIOUS
<1>9. m \in Nat /\ m <= Len(a)
  BY <1>1, <1>8
<1> QED BY <1>7, <1>9, Written

----------------------------------------------------------------------------
(* The tables of a chain, when the node has more blocks. *)

LEMMA RestGrown ==
  ASSUME NEW sp, NEW tp, NEW n \in Nat, \A i \in 1..n : tp[i] = sp[i],
         NEW cr, NEW tr, NEW d, NEW c \in Seq(Nat), \A h \in 1..Len(c) : c[h] \in 1..n,
         Rest(sp, cr, tr, d, c)
  PROVE  Rest(tp, cr, tr, d, c)
<1>1. \A h \in 1..Len(c) : sp[c[h]] = tp[c[h]]
  OBVIOUS
<1>2. RowsIn(sp, c) = RowsIn(tp, c)
  BY <1>1, RowsSame
<1>3. RowsAre(tp, d, c) /\ d["last_block"] = LastOf(Len(c))
  BY <1>2 DEF Rest, RowsAre
<1>4. tr = "crash" => Spent(tp, d, c)
  BY <1>1 DEF Rest, Spent
<1>5. ASSUME cr = 0 PROVE Kept(tp, d, c)
  <2>1. Kept(sp, d, c)
    BY <1>5 DEF Rest
  <2>2. \A h \in 1..Len(c) : c[h] \in d["prevouts"] \/ \E j \in 1..Len(c) : c[h] \in tp[c[j]]
    BY <1>1, <2>1 DEF Kept
  <2> QED BY <2>1, <2>2 DEF Kept
<1> QED BY <1>3, <1>4, <1>5 DEF Rest

LEMMA DamagedGrown ==
  ASSUME NEW sp, NEW tp, NEW n \in Nat, \A i \in 1..n : tp[i] = sp[i],
         NEW nd \in Seq(Nat), NEW od \in Seq(Nat), Len(nd) <= n, Len(nd) <= Len(od),
         NEW d, NEW c \in Seq(Nat), \A h \in 1..Len(c) : c[h] \in 1..n, Damaged(sp, nd, d, c)
  PROVE  Damaged(tp, od, d, c)
<1>1. \A h \in 1..Len(c) : sp[c[h]] = tp[c[h]]
  OBVIOUS
<1>2. RowsIn(sp, c) = RowsIn(tp, c)
  BY <1>1, RowsSame
<1>3. Reaches(tp, d, c)
  BY <1>2 DEF Damaged, Reaches
<1> PICK m : m = Len(c)
  OBVIOUS
<1>4. m >= StartHeight /\ m < Len(nd) /\ d["last_block"] = m
      /\ \E o \in sp[m + 1] : o # m + 1 /\ o \notin d["prevouts"]
  BY DEF Damaged
<1>5. m + 1 \in 1..n /\ m < Len(od)
  <2> PICK k, l : k = Len(nd) /\ l = Len(od)
    OBVIOUS
  <2>1. m \in Nat /\ k \in Nat /\ l \in Nat /\ k <= n /\ k <= l /\ m < k
    BY <1>4
  <2>2. m + 1 \in 1..n /\ m < l
    BY ONLY <2>1, n \in Nat
  <2> QED BY <2>2
<1>6. tp[m + 1] = sp[m + 1]
  BY <1>5
<1> QED BY <1>3, <1>4, <1>5, <1>6 DEF Damaged

----------------------------------------------------------------------------
(* The inductive invariant. *)

\* The node: its blocks, and what they spend.
NodeOk(sp, nd, cr, tr) ==
  /\ sp \in Seq(SUBSET Nat) /\ InitLen <= Len(sp) /\ Len(sp) <= MaxBlocks
  /\ nd \in Seq(Nat) /\ InitLen <= Len(nd) /\ Len(nd) <= Len(sp)
  /\ \A h \in 1..Len(nd) : nd[h] \in 1..Len(sp)
  /\ cr \in Nat
  /\ cr # 0 => tr = "crash"
  /\ tr = "crash" => /\ Len(nd) = Len(sp) /\ \A h \in 1..Len(nd) : nd[h] = h
                     /\ OnceSpent(sp, Len(nd))

\* The first n blocks of a chain are on the node.
Agree(a, nd, n) == n <= Len(a) /\ n <= Len(nd) /\ \A h \in 1..n : a[h] = nd[h]

\* A savepoint of the block at height h has the tables of the blocks below it.
SavedIs(sp, a, s, h) ==
  /\ s.height = h /\ s.block = a[h]
  /\ RowsAre(sp, s.was, SubSeq(a, 1, h - 1))

\* The chain of the process: the savepoints are those of its last blocks, and the node
\* has all the blocks below them.
AtOk(sp, nd, tr, a, sv) ==
  /\ a \in Seq(Nat)
  /\ \A h \in 1..Len(a) : a[h] \in 1..Len(sp)
  /\ IsASeq(sv) /\ Len(sv) <= Len(a) /\ Agree(a, nd, Len(a) - Len(sv))
  /\ tr = "crash" => Agree(a, nd, Len(a))
  /\ sv # <<>> => Len(a) - Len(sv) >= StartHeight
  /\ \A i \in 1..Len(sv) : SavedIs(sp, a, sv[i], Len(a) - Len(sv) + i)

\* Between two blocks.
Resting(sp, nd, cr, tr, sv, d, c) ==
  \/ Rest(sp, cr, tr, d, c)
  \/ cr # 0 /\ sv = <<>> /\ Damaged(sp, nd, d, c)

\* Before the next start.
Fell(sp, nd, cr, tr, a, d) ==
  /\ d["last_block"] \in 0..Len(nd)
  /\ Resting(sp, nd, cr, tr, <<>>, d, SubSeq(nd, 1, d["last_block"]))
  /\ cr = 0 => d["last_block"] <= Len(a)

\* In the middle of a block, and of an undone block: k of the writes w are done.
ApplyFlight(sp, cr, tr, a, td, d) ==
  \E d0, w, k, c, b :
    /\ c \in Seq(Nat) /\ b \in Nat /\ a = Append(c, b)
    /\ ApplyIs(w, d0, sp, b, Len(c) + 1) /\ Rest(sp, cr, tr, d0, c)
    /\ Left(td, w, k) /\ Holds(d, d0, w, k)
    /\ Len(c) + 1 <= MaxBlocks

UndoFlight(sp, nd, cr, tr, a, td, d) ==
  \E d0, w, k, b, was :
    /\ b \in Nat
    /\ UndoIs(w, d0, sp, b, Len(a) + 1, was) /\ Rest(sp, cr, tr, d0, Append(a, b))
    /\ Left(td, w, k) /\ Holds(d, d0, w, k)
    /\ \A t \in RowSet : was[t] = RowsIn(sp, a)
    /\ Len(a) >= StartHeight
    /\ tr = "crash" => b = Len(a) + 1 /\ b <= Len(nd)

Stage(sp, nd, cr, tr, md, a, td, sv, d) ==
  /\ md \in {"down", "running", "stopping"}
  /\ md = "down" => td = <<>> /\ sv = <<>> /\ Fell(sp, nd, cr, tr, a, d)
  /\ md # "down" /\ td = <<>> => Resting(sp, nd, cr, tr, sv, d, a)
  /\ td # <<>> => ApplyFlight(sp, cr, tr, a, td, d) \/ UndoFlight(sp, nd, cr, tr, a, td, d)

Inv ==
  /\ NodeOk(spends, node, crashes, trouble)
  /\ AtOk(spends, node, trouble, at, savepoints)
  /\ DOMAIN db = Tables
  /\ Stage(spends, node, crashes, trouble, mode, at, todo, savepoints, db)

\* The outputs that a new block spends are unspent, or its own.
Fresh(s, sp, n) ==
  /\ s \subseteq 1..n + 1
  /\ s # {} => \E o \in s : o # n + 1
  /\ \A g \in 1..n : \A o \in s : o = n + 1 \/ o \notin sp[g]

LEMMA SpendsFresh ==
  ASSUME NEW c, NEW n \in Nat, DOMAIN c = 1..n, \A h \in 1..n : c[h] = h,
         NEW s, s \in SpendsOf(c, n + 1)
  PROVE  Fresh(s, spends, n)
<1> DEFINE B == {c[h] : h \in DOMAIN c}
<1>1. B = 1..n
  OBVIOUS
<1>2. Unspent(c) = (1..n) \ UNION {spends[b] : b \in 1..n}
  BY <1>1 DEF Unspent
<1>3. \A o \in Unspent(c) : o \in 1..n /\ o # n + 1 /\ \A g \in 1..n : o \notin spends[g]
  <2>1. \A o \in 1..n : o # n + 1
    OBVIOUS
  <2>2. ASSUME NEW o \in Unspent(c), NEW g \in 1..n PROVE o \notin spends[g]
    BY <1>2
  <2> QED BY <1>2, <2>1, <2>2
<1>4. s = {} \/ \E o \in Unspent(c) : s = {o} \/ s = {o, n + 1}
  BY DEF SpendsOf
<1>5. CASE s = {}
  BY <1>5 DEF Fresh
<1>6. CASE s # {}
  <2> PICK o \in Unspent(c) : s = {o} \/ s = {o, n + 1}
    BY <1>4, <1>6
  <2>1. s \subseteq 1..n + 1
    <3>1. o \in 1..n + 1 /\ n + 1 \in 1..n + 1
      BY <1>3
    <3> QED BY <3>1
  <2>2. \E p \in s : p # n + 1
    BY <1>3
  <2>3. \A g \in 1..n : \A p \in s : p = n + 1 \/ p \notin spends[g]
    BY <1>3
  <2> QED BY <2>1, <2>2, <2>3 DEF Fresh
<1> QED BY <1>5, <1>6

\* One more block.
LEMMA OnceMore ==
  ASSUME NEW sp, NEW tp, NEW n \in Nat, NEW m, m = n + 1, OnceSpent(sp, n), \A h \in 1..n : tp[h] = sp[h],
         Fresh(tp[m], sp, n), m > StartHeight
  PROVE  OnceSpent(tp, m)
<1>1. \A h \in 1..m : h = m \/ h \in 1..n
  OBVIOUS
<1>2. ASSUME NEW h \in 1..m
      PROVE  /\ tp[h] \subseteq 1..h
             /\ h <= StartHeight => tp[h] = {}
             /\ tp[h] # {} => \E o \in tp[h] : o # h
  <2>1. CASE h = m
    BY <2>1 DEF Fresh
  <2>2. CASE h \in 1..n
    BY <2>2 DEF OnceSpent
  <2> QED BY <1>1, <2>1, <2>2
<1>3. ASSUME NEW g \in 1..n PROVE tp[g] \cap tp[m] = {}
  <2>1. tp[g] = sp[g] /\ sp[g] \subseteq 1..g
    BY DEF OnceSpent
  <2>2. m \notin 1..g
    OBVIOUS
  <2>3. \A o \in tp[m] : o = m \/ o \notin sp[g]
    BY DEF Fresh
  <2> QED BY <2>1, <2>2, <2>3
<1>4. ASSUME NEW g \in 1..m, NEW h \in 1..m, g # h PROVE tp[g] \cap tp[h] = {}
  <2>1. CASE g = m
    BY <1>1, <1>3, <1>4, <2>1
  <2>2. CASE h = m
    BY <1>1, <1>3, <1>4, <2>2
  <2>3. CASE g \in 1..n /\ h \in 1..n
    BY <1>4, <2>3 DEF OnceSpent
  <2> QED BY <1>1, <2>1, <2>2, <2>3
<1> QED BY <1>2, <1>4 DEF OnceSpent

LEMMA EmptyIs ==
  /\ DOMAIN EmptyDB = Tables /\ \A t \in RowSet : EmptyDB[t] = <<>>
  /\ EmptyDB["last_block"] = 0 /\ EmptyDB["prevouts"] = {}
  /\ EmptyDB["block_info"] = [h \in Heights |-> Missing]
  /\ EmptyDB["proof_of_history"] = [h \in Heights |-> <<>>]
<1>1. DOMAIN EmptyDB = Tables
  BY DEF EmptyDB, Tables, RowSet
<1>2. \A t \in RowSet : EmptyDB[t] = <<>>
  BY DEF EmptyDB, RowSet
<1>3. /\ EmptyDB["last_block"] = 0 /\ EmptyDB["prevouts"] = {}
      /\ EmptyDB["block_info"] = [h \in Heights |-> Missing]
      /\ EmptyDB["proof_of_history"] = [h \in Heights |-> <<>>]
  BY DEF EmptyDB
<1> QED BY <1>1, <1>2, <1>3

LEMMA EmptyRests ==
  ASSUME NEW sp, NEW cr, NEW tr
  PROVE  Rest(sp, cr, tr, EmptyDB, <<>>)
<1>0. Len(<<>>) = 0 /\ 1..0 = {} /\ StartHeight..0 = {} /\ LastOf(0) = 0
  BY DEF LastOf
<1>1. RowsAre(sp, EmptyDB, <<>>)
  BY RowsEmpty, EmptyIs DEF RowsAre
<1>2. EmptyDB["last_block"] = LastOf(Len(<<>>))
  BY <1>0, EmptyIs
<1>3. Spent(sp, EmptyDB, <<>>)
  BY <1>0 DEF Spent
<1>4. Kept(sp, EmptyDB, <<>>)
  <2>1. StartHeight - 1 \in Heights
    BY DEF Heights
  <2>2. DOMAIN EmptyDB["proof_of_history"] = Heights /\ EmptyDB["proof_of_history"][StartHeight - 1] = <<>>
    BY <2>1, EmptyIs
  <2>3. EmptyDB["block_info"] =
          [h \in Heights |-> IF h \in StartHeight..Len(<<>>) THEN <<>>[h] ELSE Missing]
    BY <1>0, EmptyIs
  <2> QED BY <1>0, <2>2, <2>3 DEF Kept
<1> QED BY <1>1, <1>2, <1>3, <1>4 DEF Rest

LEMMA InitInv ==
  ASSUME Init
  PROVE  Inv
<1> PICK n : n = InitLen
  OBVIOUS
<1>1. /\ n \in Nat /\ StartHeight \in Nat /\ n > StartHeight /\ StartHeight >= 1 /\ n <= MaxBlocks
  OBVIOUS
<1>2. node \in Seq(Nat) /\ Len(node) = n /\ \A h \in 1..n : node[h] = h
  BY <1>1 DEF Init
<1>3. spends \in Seq(SUBSET Nat) /\ Len(spends) = n
  <2>1. spends \in [1..n -> SUBSET (1..n)]
    BY DEF Init
  <2>2. SUBSET (1..n) \subseteq SUBSET Nat
    OBVIOUS
  <2>3. spends \in [1..n -> SUBSET Nat]
    BY <2>1, <2>2
  <2> QED BY <1>1, <2>3
<1>4. /\ at = <<>> /\ todo = <<>> /\ savepoints = <<>> /\ mode = "down" /\ db = EmptyDB
      /\ crashes = 0
      /\ \A b \in 1..n : spends[b] \in IF b <= StartHeight THEN {{}} ELSE SpendsOf(Chain(b - 1), b)
  BY DEF Init
<1>5. ASSUME NEW h \in 1..n PROVE Fresh(spends[h], spends, h - 1)
  <2>1. CASE h <= StartHeight
    <3>1. spends[h] = {}
      BY <1>4, <2>1
    <3> QED BY <3>1 DEF Fresh
  <2>2. CASE ~(h <= StartHeight)
    <3> PICK m : m = h - 1
      OBVIOUS
    <3> PICK c : c = Chain(m)
      OBVIOUS
    <3>1. m \in Nat /\ m + 1 = h /\ m \in 0..Len(node) /\ \A i \in 1..m : i \in 1..n
      BY <1>1, <1>2
    <3>2. c \in Seq(Nat) /\ Len(c) = m /\ \A i \in 1..m : c[i] = i
      <4>1. c = SubSeq(node, 1, m)
        BY DEF Chain
      <4>2. c \in Seq(Nat) /\ Len(c) = m /\ \A i \in 1..m : c[i] = node[i]
        BY <1>2, <3>1, <4>1, FirstBlocks
      <4> QED BY <1>2, <3>1, <4>2
    <3>3. DOMAIN c = 1..m
      BY <3>2
    <3>4. spends[h] \in SpendsOf(c, m + 1)
      BY <1>4, <2>2, <3>1
    <3>5. Fresh(spends[h], spends, m)
      BY <3>1, <3>2, <3>3, <3>4, SpendsFresh
    <3> QED BY <3>5
  <2> QED BY <2>1, <2>2
<1>6. OnceSpent(spends, n)
  <2>1. ASSUME NEW h \in 1..n
        PROVE  /\ spends[h] \subseteq 1..h
               /\ h <= StartHeight => spends[h] = {}
               /\ spends[h] # {} => \E o \in spends[h] : o # h
    <3>1. h - 1 + 1 = h
      OBVIOUS
    <3>2. h <= StartHeight => spends[h] = {}
      BY <1>4
    <3> QED BY <1>5, <3>1, <3>2 DEF Fresh
  <2>2. ASSUME NEW g \in 1..n, NEW h \in 1..n, g < h PROVE spends[g] \cap spends[h] = {}
    <3>1. g \in 1..h - 1 /\ h - 1 + 1 = h /\ h \notin 1..g
      BY <2>2
    <3>2. \A o \in spends[h] : o = h \/ o \notin spends[g]
      BY <1>5, <3>1 DEF Fresh
    <3> QED BY <2>1, <3>1, <3>2
  <2>3. ASSUME NEW g \in 1..n, NEW h \in 1..n, g # h PROVE spends[g] \cap spends[h] = {}
    <3>1. g < h \/ h < g
      BY <2>3
    <3> QED BY <2>2, <3>1
  <2> QED BY <2>1, <2>3 DEF OnceSpent
<1>7. NodeOk(spends, node, crashes, trouble)
  BY <1>1, <1>2, <1>3, <1>4, <1>6 DEF NodeOk
<1>8. AtOk(spends, node, trouble, at, savepoints)
  <2>1. <<>> \in Seq(Nat) /\ Len(<<>>) = 0 /\ 1..0 = {}
    OBVIOUS
  <2>2. IsASeq(<<>>)
    BY <2>1 DEF IsASeq
  <2>3. Agree(<<>>, node, 0)
    BY <1>1, <1>2, <2>1 DEF Agree
  <2>4. AtOk(spends, node, trouble, <<>>, <<>>)
    BY <2>1, <2>2, <2>3 DEF AtOk
  <2> QED BY <1>4, <2>4
<1>9. Fell(spends, node, crashes, trouble, at, db)
  <2>1. db["last_block"] = 0 /\ 0 \in 0..Len(node) /\ 0 <= Len(at)
    BY <1>1, <1>2, <1>4, EmptyIs
  <2>2. SubSeq(node, 1, 0) = <<>>
    BY <1>2
  <2>3. Rest(spends, crashes, trouble, db, <<>>)
    BY <1>4, EmptyRests
  <2> QED BY <2>1, <2>2, <2>3 DEF Fell, Resting
<1>10. Stage(spends, node, crashes, trouble, mode, at, todo, savepoints, db)
  BY <1>4, <1>9 DEF Stage
<1>11. DOMAIN db = Tables
  BY <1>4, EmptyIs
<1> QED BY <1>7, <1>8, <1>10, <1>11 DEF Inv

----------------------------------------------------------------------------
(* Steps of the node. *)

LEMMA SameFirst ==
  ASSUME NEW c \in Seq(Nat), NEW d \in Seq(Nat), NEW m \in Nat, m <= Len(c), m <= Len(d),
         \A i \in 1..m : c[i] = d[i]
  PROVE  SubSeq(c, 1, m) = SubSeq(d, 1, m)
<1> PICK x : x = SubSeq(c, 1, m)
  OBVIOUS
<1> PICK y : y = SubSeq(d, 1, m)
  OBVIOUS
<1>1. x \in Seq(Nat) /\ Len(x) = m /\ \A i \in 1..m : x[i] = c[i]
  <2>1. m \in 0..Len(c)
    OBVIOUS
  <2> QED BY <2>1, FirstBlocks
<1>2. y \in Seq(Nat) /\ Len(y) = m /\ \A i \in 1..m : y[i] = d[i]
  <2>1. m \in 0..Len(d)
    OBVIOUS
  <2> QED BY <2>1, FirstBlocks
<1>3. Len(x) = Len(y) /\ \A i \in 1..Len(x) : x[i] = y[i]
  BY <1>1, <1>2
<1>4. x = y
  BY <1>1, <1>2, <1>3, SameChain
<1> QED BY <1>4

LEMMA AtMoves ==
  ASSUME NEW sp, NEW tp, NEW n \in Nat, n = Len(sp), NEW l \in Nat, l = Len(tp), n <= l,
         \A i \in 1..n : tp[i] = sp[i], NEW nd, NEW od, NEW tr, NEW a, NEW sv,
         AtOk(sp, nd, tr, a, sv), Agree(a, od, Len(a) - Len(sv)), tr = "crash" => Agree(a, od, Len(a))
  PROVE  AtOk(tp, od, tr, a, sv)
<1>1. /\ a \in Seq(Nat) /\ \A h \in 1..Len(a) : a[h] \in 1..n
      /\ IsASeq(sv) /\ Len(sv) <= Len(a)
      /\ sv # <<>> => Len(a) - Len(sv) >= StartHeight
      /\ \A i \in 1..Len(sv) : SavedIs(sp, a, sv[i], Len(a) - Len(sv) + i)
  BY DEF AtOk
<1>2. \A h \in 1..Len(a) : a[h] \in 1..l
  <2>1. \A h \in 1..Len(a) : a[h] \in 1..n
    BY <1>1
  <2> QED BY ONLY <2>1, n \in Nat, l \in Nat, n <= l
<1>3. ASSUME NEW i \in 1..Len(sv) PROVE SavedIs(tp, a, sv[i], Len(a) - Len(sv) + i)
  <2> PICK p : p = Len(a)
    OBVIOUS
  <2> PICK q : q = Len(sv)
    OBVIOUS
  <2> PICK h : h = p - q + i
    OBVIOUS
  <2>1. p \in Nat /\ q \in Nat /\ q <= p
    <3>1. q \in Nat
      BY <1>1 DEF IsASeq
    <3> QED BY <1>1, <3>1
  <2>2. h \in 1..p /\ h - 1 \in Nat /\ h - 1 <= p /\ \A j \in 1..h - 1 : j \in 1..p
    BY <2>1
  <2>3. SavedIs(sp, a, sv[i], h)
    BY <1>1
  <2> PICK c : c = SubSeq(a, 1, h - 1)
    OBVIOUS
  <2>4. c \in Seq(Nat) /\ Len(c) = h - 1 /\ \A j \in 1..h - 1 : c[j] = a[j]
    <3>1. h - 1 \in 0..Len(a)
      BY <2>2
    <3> QED BY <1>1, <3>1, FirstBlocks
  <2>5. \A j \in 1..Len(c) : sp[c[j]] = tp[c[j]]
    <3> PICK g : g = h - 1
      OBVIOUS
    <3>1. Len(c) = g /\ \A j \in 1..g : j \in 1..p /\ c[j] = a[j]
      BY <2>2, <2>4
    <3>2. \A j \in 1..p : a[j] \in 1..n
      BY <1>1
    <3>3. \A j \in 1..g : c[j] \in 1..n
      BY ONLY <3>1, <3>2
    <3>4. \A i1 \in 1..n : tp[i1] = sp[i1]
      OBVIOUS
    <3> QED BY ONLY <3>1, <3>3, <3>4
  <2>6. RowsIn(sp, c) = RowsIn(tp, c)
    BY ONLY <2>4, <2>5, RowsSame
  <2> QED BY <2>3, <2>6 DEF SavedIs, RowsAre
<1> QED BY <1>1, <1>2, <1>3 DEF AtOk

LEMMA StageMoves ==
  ASSUME NEW sp, NEW tp, NEW n \in Nat, n = Len(sp), \A i \in 1..n : tp[i] = sp[i],
         NEW nd, NEW od, od \in Seq(Nat), NEW cr, NEW tr, NEW a, NEW sv, NEW d, NEW md,
         NodeOk(sp, nd, cr, tr), AtOk(sp, nd, tr, a, sv), Agree(a, od, Len(a) - Len(sv)),
         cr # 0 => Agree(nd, od, Len(nd)), Stage(sp, nd, cr, tr, md, a, <<>>, sv, d)
  PROVE  Stage(tp, od, cr, tr, md, a, <<>>, sv, d)
<1>1. /\ nd \in Seq(Nat) /\ Len(nd) <= n /\ \A h \in 1..Len(nd) : nd[h] \in 1..n
      /\ a \in Seq(Nat) /\ \A h \in 1..Len(a) : a[h] \in 1..n
      /\ Agree(a, nd, Len(a) - Len(sv)) /\ IsASeq(sv)
  BY DEF NodeOk, AtOk
<1>2. ASSUME NEW c \in Seq(Nat), \A h \in 1..Len(c) : c[h] \in 1..n, Resting(sp, nd, cr, tr, sv, d, c)
      PROVE  Resting(tp, od, cr, tr, sv, d, c)
  <2>1. CASE Rest(sp, cr, tr, d, c)
    <3>1. Rest(tp, cr, tr, d, c)
      BY <1>2, <2>1, RestGrown
    <3> QED BY <3>1 DEF Resting
  <2>2. CASE cr # 0 /\ sv = <<>> /\ Damaged(sp, nd, d, c)
    <3>1. Len(nd) <= Len(od)
      BY <2>2 DEF Agree
    <3>2. Damaged(tp, od, d, c)
      BY <1>1, <1>2, <2>2, <3>1, DamagedGrown
    <3> QED BY <2>2, <3>2 DEF Resting
  <2> QED BY <1>2, <2>1, <2>2 DEF Resting
<1>3. ASSUME md # "down" PROVE Resting(tp, od, cr, tr, sv, d, a)
  <2>1. Resting(sp, nd, cr, tr, sv, d, a)
    BY <1>3 DEF Stage
  <2> QED BY <1>1, <1>2, <2>1
<1>4. ASSUME md = "down" PROVE sv = <<>> /\ Fell(tp, od, cr, tr, a, d)
  <2>1. sv = <<>> /\ Fell(sp, nd, cr, tr, a, d)
    BY <1>4 DEF Stage
  <2> PICK m : m = d["last_block"]
    OBVIOUS
  <2> PICK c : c = SubSeq(nd, 1, m)
    OBVIOUS
  <2>2. m \in 0..Len(nd) /\ Resting(sp, nd, cr, tr, sv, d, c) /\ (cr = 0 => m <= Len(a))
    BY <2>1 DEF Fell
  <2>3. c \in Seq(Nat) /\ Len(c) = m /\ \A i \in 1..m : c[i] = nd[i]
    BY <1>1, <2>2, FirstBlocks
  <2>4. m \in Nat /\ m <= Len(nd) /\ \A i \in 1..m : i \in 1..Len(nd)
    BY <1>1, <2>2
  <2>5. Resting(tp, od, cr, tr, sv, d, c)
    <3>1. \A h \in 1..Len(c) : c[h] \in 1..n
      BY <1>1, <2>3, <2>4
    <3> QED BY <1>2, <2>2, <2>3, <3>1
  <2>6. m <= Len(od) /\ \A i \in 1..m : nd[i] = od[i]
    <3>1. CASE cr = 0
      <4> PICK p : p = Len(a)
        OBVIOUS
      <4>1. p \in Nat /\ Len(a) - Len(sv) = p
        BY <1>1, <2>1
      <4>2. p <= Len(od) /\ \A h \in 1..p : a[h] = od[h] /\ a[h] = nd[h]
        BY <1>1, <4>1 DEF Agree
      <4>3. m <= p /\ \A h \in 1..m : h \in 1..p
        BY <2>2, <2>4, <3>1, <4>1
      <4>4. Len(od) \in Nat
        OBVIOUS
      <4> QED BY <2>4, <4>1, <4>2, <4>3, <4>4
    <3>2. CASE cr # 0
      <4>1. Len(nd) <= Len(od) /\ \A h \in 1..Len(nd) : nd[h] = od[h]
        BY <3>2 DEF Agree
      <4>2. Len(nd) \in Nat
        BY <1>1
      <4>3. Len(od) \in Nat
        OBVIOUS
      <4> QED BY <2>4, <4>1, <4>2, <4>3
    <3> QED BY <3>1, <3>2
  <2>7. c = SubSeq(od, 1, m)
    BY <1>1, <2>4, <2>6, SameFirst
  <2>8. m \in 0..Len(od)
    BY <2>4, <2>6
  <2> QED BY <2>1, <2>2, <2>5, <2>7, <2>8 DEF Fell
<1>5. md \in {"down", "running", "stopping"}
  BY DEF Stage
<1> QED BY <1>3, <1>4, <1>5 DEF Stage

\* The node has more blocks than before.
Extends(sp, nd, tp, od) ==
  /\ Len(sp) \in Nat /\ Len(tp) \in Nat /\ Len(sp) <= Len(tp)
  /\ \A i \in 1..Len(sp) : tp[i] = sp[i]
  /\ Len(nd) <= Len(od) /\ \A h \in 1..Len(nd) : od[h] = nd[h]

LEMMA NodeMines ==
  ASSUME NEW sp, NEW nd, NEW cr, NEW tr, NodeOk(sp, nd, cr, tr), NEW s \in SUBSET Nat,
         NEW b, b = Len(sp) + 1, Len(sp) < MaxBlocks, tr = "crash" => Fresh(s, sp, Len(nd)),
         NEW tp, tp = Append(sp, s), NEW od, od = Append(nd, b)
  PROVE  NodeOk(tp, od, cr, tr) /\ Extends(sp, nd, tp, od)
<1> PICK n : n = Len(sp)
  OBVIOUS
<1> PICK m : m = Len(nd)
  OBVIOUS
<1>1. /\ sp \in Seq(SUBSET Nat) /\ InitLen <= n /\ n < MaxBlocks
      /\ nd \in Seq(Nat) /\ InitLen <= m /\ m <= n /\ \A h \in 1..m : nd[h] \in 1..n
      /\ cr \in Nat /\ (cr # 0 => tr = "crash")
      /\ tr = "crash" => m = n /\ (\A h \in 1..m : nd[h] = h) /\ OnceSpent(sp, m)
  BY DEF NodeOk
<1>2. n \in Nat /\ m \in Nat /\ b = n + 1 /\ b \in Nat
  BY <1>1
<1>3. tp \in Seq(SUBSET Nat) /\ Len(tp) = b /\ tp[b] = s /\ \A i \in 1..n : tp[i] = sp[i]
  BY <1>1, <1>2
<1>4. od \in Seq(Nat) /\ Len(od) = m + 1 /\ od[m + 1] = b /\ \A i \in 1..m : od[i] = nd[i]
  BY <1>1, <1>2
<1>5. \A h \in 1..m + 1 : od[h] \in 1..b
  <2>1. \A h \in 1..m + 1 : h = m + 1 \/ h \in 1..m
    BY <1>2
  <2>2. \A x \in 1..n : x \in 1..b
    BY <1>2
  <2>3. b \in 1..b
    BY <1>2
  <2> QED BY <1>1, <1>4, <2>1, <2>2, <2>3
<1>6. ASSUME tr = "crash"
      PROVE  m + 1 = b /\ (\A h \in 1..m + 1 : od[h] = h) /\ OnceSpent(tp, m + 1)
  <2>1. m = n /\ (\A h \in 1..m : nd[h] = h) /\ OnceSpent(sp, m) /\ Fresh(s, sp, m)
    BY <1>1, <1>6
  <2>2. \A h \in 1..m + 1 : h = m + 1 \/ h \in 1..m
    BY <1>2
  <2>3. m + 1 = b /\ \A h \in 1..m + 1 : od[h] = h
    BY <1>2, <1>4, <2>1, <2>2
  <2>4. b > StartHeight
    <3>1. StartHeight \in Nat /\ MaxLen \in Nat /\ InitLen \in Nat /\ InitLen >= StartHeight + MaxLen
      OBVIOUS
    <3> QED BY ONLY <1>1, <1>2, <3>1
  <2>5. OnceSpent(tp, b)
    <3>1. Fresh(tp[b], sp, m) /\ \A h \in 1..m : tp[h] = sp[h]
      BY <1>3, <2>1
    <3> QED BY <1>2, <2>1, <2>3, <2>4, <3>1, OnceMore
  <2> QED BY <2>3, <2>5
<1>7. InitLen <= b /\ b <= MaxBlocks /\ InitLen <= m + 1 /\ m + 1 <= b /\ n <= b /\ m <= m + 1
  <2>1. InitLen \in Nat /\ MaxBlocks \in Nat
    OBVIOUS
  <2> QED BY <1>1, <1>2, <2>1
<1>8. NodeOk(tp, od, cr, tr)
  BY <1>1, <1>3, <1>4, <1>5, <1>6, <1>7 DEF NodeOk
<1> QED BY <1>2, <1>3, <1>4, <1>7, <1>8 DEF Extends

LEMMA SpendsNat ==
  ASSUME NEW c, \A h \in DOMAIN c : c[h] \in Nat, NEW b \in Nat, NEW s, s \in SpendsOf(c, b)
  PROVE  s \in SUBSET Nat
<1>1. Unspent(c) \subseteq Nat
  BY DEF Unspent
<1> QED BY <1>1 DEF SpendsOf

LEMMA MineInv ==
  ASSUME Inv, Mine
  PROVE  Inv'
<1>1. /\ NodeOk(spends, node, crashes, trouble) /\ AtOk(spends, node, trouble, at, savepoints)
      /\ DOMAIN db = Tables /\ Stage(spends, node, crashes, trouble, mode, at, todo, savepoints, db)
  BY DEF Inv
<1>2. /\ todo = <<>> /\ NewBlock(node)
      /\ UNCHANGED <<trouble, mode, at, todo, savepoints, db, crashes, starts>>
  BY DEF Mine
<1> PICK b : b = Len(spends) + 1
  OBVIOUS
<1>3. /\ Len(spends) < MaxBlocks /\ node' = Append(node, b)
      /\ \E s \in SpendsOf(node, b) : spends' = Append(spends, s)
  BY <1>2 DEF NewBlock
<1> PICK s : s \in SpendsOf(node, b) /\ spends' = Append(spends, s)
  BY <1>3
<1>4. /\ spends \in Seq(SUBSET Nat) /\ node \in Seq(Nat) /\ Len(node) \in Nat /\ DOMAIN node = 1..Len(node)
      /\ Len(spends) \in Nat /\ b \in Nat /\ \A h \in DOMAIN node : node[h] \in Nat
  BY <1>1 DEF NodeOk
<1>5. s \in SUBSET Nat
  BY <1>4, SpendsNat
<1>6. trouble = "crash" => Fresh(s, spends, Len(node))
  <2>1. ASSUME trouble = "crash" PROVE Fresh(s, spends, Len(node))
    <3>1. Len(node) = Len(spends) /\ \A h \in 1..Len(node) : node[h] = h
      BY <1>1, <2>1 DEF NodeOk
    <3>2. s \in SpendsOf(node, Len(node) + 1)
      BY <3>1
    <3> QED BY <1>4, <3>1, <3>2, SpendsFresh
  <2> QED BY <2>1
<1>7. /\ NodeOk(spends', node', crashes, trouble) /\ Len(spends') \in Nat /\ Len(spends) <= Len(spends')
      /\ \A i \in 1..Len(spends) : spends'[i] = spends[i]
      /\ Len(node) <= Len(node') /\ \A h \in 1..Len(node) : node'[h] = node[h]
  <2>1. NodeOk(spends', node', crashes, trouble) /\ Extends(spends, node, spends', node')
    BY <1>1, <1>3, <1>5, <1>6, NodeMines
  <2> QED BY <2>1 DEF Extends
<1>8. ASSUME NEW n, n \in Int, Agree(at, node, n) PROVE Agree(at, node', n)
  <2>1. n <= Len(node) /\ \A h \in 1..n : at[h] = node[h]
    BY <1>8 DEF Agree
  <2>2. \A h \in 1..n : h \in 1..Len(node)
    BY <1>4, <1>8, <2>1
  <2>3. Len(node') \in Nat
    BY <1>7 DEF NodeOk
  <2>4. n <= Len(node')
    BY <1>4, <1>7, <1>8, <2>1, <2>3
  <2> QED BY <1>7, <1>8, <2>1, <2>2, <2>4 DEF Agree
<1>9. /\ Len(at) \in Nat /\ Len(savepoints) \in Nat /\ Agree(at, node, Len(at) - Len(savepoints))
      /\ trouble = "crash" => Agree(at, node, Len(at))
  BY <1>1 DEF AtOk, IsASeq
<1>10. /\ Agree(at, node', Len(at) - Len(savepoints))
       /\ trouble = "crash" => Agree(at, node', Len(at))
  BY <1>8, <1>9
<1>11. AtOk(spends', node', trouble, at, savepoints)
  BY <1>1, <1>4, <1>7, <1>10, AtMoves
<1>12. Stage(spends', node', crashes, trouble, mode, at, todo, savepoints, db)
  <2>1. Agree(node, node', Len(node))
    BY <1>4, <1>7 DEF Agree
  <2>2. node' \in Seq(Nat)
    BY <1>7 DEF NodeOk
  <2> QED BY <1>1, <1>2, <1>4, <1>7, <1>10, <2>1, <2>2, StageMoves
<1> QED BY <1>1, <1>2, <1>7, <1>11, <1>12 DEF Inv

LEMMA FrontIs ==
  ASSUME NEW c \in Seq(Nat), NEW n \in Nat, Len(c) = n + 1
  PROVE  /\ Front(c) \in Seq(Nat) /\ Len(Front(c)) = n /\ Front(c) = SubSeq(c, 1, n)
         /\ \A h \in 1..n : Front(c)[h] = c[h]
<1>1. Front(c) = SubSeq(c, 1, n)
  <2>1. Len(c) - 1 = n
    OBVIOUS
  <2> QED BY <2>1 DEF Front
<1>2. n \in 0..Len(c)
  OBVIOUS
<1> QED BY <1>1, <1>2, FirstBlocks

LEMMA PairAdded ==
  ASSUME NEW T, NEW c \in Seq(T), NEW x \in T, NEW y \in T, NEW n \in Nat, n = Len(c),
         NEW d, d = c \o <<x, y>>
  PROVE  /\ d \in Seq(T) /\ Len(d) = n + 2 /\ \A h \in 1..n : d[h] = c[h]
         /\ d[n + 1] = x /\ d[n + 2] = y
<1>1. <<x, y>> \in Seq(T) /\ Len(<<x, y>>) = 2
  OBVIOUS
<1> QED BY <1>1

\* Wherever the node moves, it keeps the blocks below the savepoints.
LEMMA ReachAgrees ==
  ASSUME NEW chain \in Seq(Nat), WithinReach(chain), at \in Seq(Nat),
         Len(savepoints) \in Nat, Len(savepoints) <= Len(at)
  PROVE  Agree(at, chain, Len(at) - Len(savepoints))
<1> PICK p : p = Len(at)
  OBVIOUS
<1> PICK low : low = p - Len(savepoints)
  OBVIOUS
<1>1. p \in Nat /\ low \in Nat /\ low <= p /\ at \in Seq(Int) /\ chain \in Seq(Int) /\ Len(chain) \in Nat
  OBVIOUS
<1>2. CASE IsPrefix(at, chain)
  <2>1. p <= Len(chain) /\ \A h \in 1..p : at[h] = chain[h]
    BY <1>1, <1>2, PrefixIs
  <2>2. \A h \in 1..low : h \in 1..p
    BY <1>1
  <2>3. low <= Len(chain)
    BY <1>1, <2>1
  <2> QED BY <1>1, <2>1, <2>2, <2>3 DEF Agree
<1>3. CASE \E fork \in low..p : IsPrefix(SubSeq(at, 1, fork), chain)
  <2> PICK fork \in low..p : IsPrefix(SubSeq(at, 1, fork), chain)
    BY <1>3
  <2> PICK x : x = SubSeq(at, 1, fork)
    OBVIOUS
  <2>1. fork \in Nat /\ fork \in 0..Len(at) /\ low <= fork
    BY <1>1
  <2>2. x \in Seq(Nat) /\ Len(x) = fork /\ \A h \in 1..fork : x[h] = at[h]
    BY <2>1, FirstBlocks
  <2>3. x \in Seq(Int)
    BY <2>2
  <2>4. fork <= Len(chain) /\ \A h \in 1..fork : x[h] = chain[h]
    BY <1>1, <2>2, <2>3, PrefixIs
  <2>5. \A h \in 1..low : h \in 1..fork
    BY <1>1, <2>1
  <2>6. low <= Len(chain)
    BY <1>1, <2>1, <2>4
  <2> QED BY <1>1, <2>2, <2>4, <2>5, <2>6 DEF Agree
<1> QED BY <1>2, <1>3 DEF WithinReach

LEMMA NodeReorgInv ==
  ASSUME Inv, NodeReorg
  PROVE  Inv'
<1>1. /\ NodeOk(spends, node, crashes, trouble) /\ AtOk(spends, node, trouble, at, savepoints)
      /\ DOMAIN db = Tables /\ Stage(spends, node, crashes, trouble, mode, at, todo, savepoints, db)
  BY DEF Inv
<1> PICK n : n = Len(spends)
  OBVIOUS
<1> PICK b : b = n + 1
  OBVIOUS
<1> PICK base : base = Front(node)
  OBVIOUS
<1>2. /\ todo = <<>> /\ trouble = "reorg" /\ n + 2 <= MaxBlocks
      /\ \E s \in SpendsOf(base, b) : \E t \in {{}} \cup {{o} : o \in {b} \ s} : spends' = spends \o <<s, t>>
      /\ node' = base \o <<b, b + 1>> /\ WithinReach(node')
      /\ UNCHANGED <<trouble, mode, at, todo, savepoints, db, crashes, starts>>
  BY DEF NodeReorg
<1>3. /\ n \in Nat /\ b \in Nat /\ spends \in Seq(SUBSET Nat) /\ node \in Seq(Nat) /\ Len(node) \in Nat
      /\ InitLen <= n /\ InitLen <= Len(node) /\ Len(node) <= n /\ Len(node) >= 1
      /\ \A h \in 1..Len(node) : node[h] \in 1..n
  BY <1>1 DEF NodeOk
<1> PICK m : m = Len(node) - 1
  OBVIOUS
<1>4. m \in Nat /\ Len(node) = m + 1
  BY <1>3
<1>5. base \in Seq(Nat) /\ Len(base) = m /\ \A h \in 1..m : base[h] = node[h]
  BY <1>3, <1>4, FrontIs
<1> PICK s \in SpendsOf(base, b) :
      \E t \in {{}} \cup {{o} : o \in {b} \ s} : spends' = spends \o <<s, t>>
  BY <1>2
<1> PICK t \in {{}} \cup {{o} : o \in {b} \ s} : spends' = spends \o <<s, t>>
  OBVIOUS
<1>6. s \in SUBSET Nat /\ t \in SUBSET Nat
  <2>1. \A h \in DOMAIN base : base[h] \in Nat
    BY <1>5
  <2>2. s \in SUBSET Nat
    BY <1>3, <2>1, SpendsNat
  <2>3. t \in SUBSET Nat
    BY <1>3
  <2> QED BY <2>2, <2>3
<1>7. spends' \in Seq(SUBSET Nat) /\ Len(spends') = n + 2 /\ \A i \in 1..n : spends'[i] = spends[i]
  BY <1>3, <1>6, PairAdded
<1>8. /\ node' \in Seq(Nat) /\ Len(node') = m + 2 /\ \A h \in 1..m : node'[h] = base[h]
      /\ node'[m + 1] = b /\ node'[m + 2] = b + 1
  <2> PICK l : l = b + 1
    OBVIOUS
  <2>1. l \in Nat /\ b \in Nat /\ m \in Nat /\ m = Len(base) /\ base \in Seq(Nat)
    BY <1>3, <1>4, <1>5
  <2>2. node' = base \o <<b, l>>
    BY <1>2
  <2>3. /\ node' \in Seq(Nat) /\ Len(node') = m + 2 /\ \A h \in 1..m : node'[h] = base[h]
        /\ node'[m + 1] = b /\ node'[m + 2] = l
    BY ONLY <2>1, <2>2, PairAdded
  <2> QED BY <2>3
<1>9. \A h \in 1..m + 2 : node'[h] \in 1..n + 2
  <2>1. ASSUME NEW h \in 1..m + 2 PROVE node'[h] \in 1..n + 2
    <3>1. CASE h = m + 1
      BY <1>3, <1>8, <3>1
    <3>2. CASE h = m + 2
      <4>1. node'[h] = b + 1
        BY <1>8, <3>2
      <4> QED BY <1>3, <4>1
    <3>3. CASE h \in 1..m
      <4>0. h \in 1..Len(node)
        BY <1>4, <3>3
      <4>1. node'[h] = node[h] /\ node[h] \in 1..n
        <5>1. node'[h] = base[h] /\ base[h] = node[h]
          BY <1>5, <1>8, <3>3
        <5>2. \A g \in 1..Len(node) : node[g] \in 1..n
          BY <1>3
        <5>3. node[h] \in 1..n
          BY ONLY <4>0, <5>2
        <5> QED BY <5>1, <5>3
      <4>2. n \in Nat
        BY <1>3
      <4>3. node[h] \in 1..n + 2
        BY ONLY <4>1, <4>2
      <4> QED BY <4>1, <4>3
    <3>4. h = m + 1 \/ h = m + 2 \/ h \in 1..m
      <4>1. m \in Nat
        BY <1>4
      <4> QED BY ONLY <4>1, h \in 1..m + 2
    <3> QED BY <3>1, <3>2, <3>3, <3>4
  <2> QED BY <2>1
<1>10. InitLen <= n + 2 /\ InitLen <= m + 2 /\ m + 2 <= n + 2 /\ n <= n + 2 /\ n + 2 \in Nat
  <2>1. InitLen \in Nat
    OBVIOUS
  <2> QED BY <1>3, <1>4, <2>1
<1>11. crashes = 0 /\ crashes \in Nat /\ trouble # "crash"
  BY <1>1, <1>2 DEF NodeOk
<1>12. NodeOk(spends', node', crashes, trouble)
  BY <1>2, <1>7, <1>8, <1>9, <1>10, <1>11 DEF NodeOk
<1>13. Agree(at, node', Len(at) - Len(savepoints))
  <2>1. at \in Seq(Nat) /\ Len(savepoints) \in Nat /\ Len(savepoints) <= Len(at)
    BY <1>1 DEF AtOk, IsASeq
  <2> QED BY <1>2, <1>8, <2>1, ReachAgrees
<1>14. AtOk(spends', node', trouble, at, savepoints)
  <2> PICK l : l = n + 2
    OBVIOUS
  <2>1. n \in Nat /\ n = Len(spends) /\ l \in Nat /\ l = Len(spends') /\ n <= l
    BY <1>3, <1>7, <1>10
  <2>2. AtOk(spends, node, trouble, at, savepoints) /\ \A i \in 1..n : spends'[i] = spends[i]
    BY <1>1, <1>7
  <2> QED BY ONLY <1>11, <1>13, <2>1, <2>2, AtMoves
<1>15. Stage(spends', node', crashes, trouble, mode, at, todo, savepoints, db)
  <2>1. n \in Nat /\ n = Len(spends) /\ (\A i \in 1..n : spends'[i] = spends[i]) /\ node' \in Seq(Nat)
    BY <1>3, <1>7, <1>8
  <2>2. NodeOk(spends, node, crashes, trouble) /\ AtOk(spends, node, trouble, at, savepoints)
    BY <1>1
  <2>3. Stage(spends, node, crashes, trouble, mode, at, <<>>, savepoints, db)
    BY <1>1, <1>2
  <2>4. Stage(spends', node', crashes, trouble, mode, at, <<>>, savepoints, db)
    BY ONLY <1>11, <1>13, <2>1, <2>2, <2>3, StageMoves
  <2> QED BY <1>2, <2>4
<1> QED BY <1>1, <1>2, <1>12, <1>14, <1>15 DEF Inv

----------------------------------------------------------------------------
(* A block is taken. *)

\* The tables hold every block below the next one, or that one cannot be applied.
LEMMA ApplyAtRest ==
  ASSUME Inv, Apply
  PROVE  Rest(spends, crashes, trouble, db, at)
<1>1. /\ mode = "running" /\ todo = <<>> /\ Len(at) < Len(node)
      /\ HasPrevouts(node[Len(at) + 1])
  BY DEF Apply, AtRest
<1>2. /\ NodeOk(spends, node, crashes, trouble) /\ AtOk(spends, node, trouble, at, savepoints)
      /\ Stage(spends, node, crashes, trouble, mode, at, todo, savepoints, db)
  BY DEF Inv
<1>3. Resting(spends, node, crashes, trouble, savepoints, db, at)
  BY <1>1, <1>2 DEF Stage
<1>4. ASSUME crashes # 0, Damaged(spends, node, db, at) PROVE FALSE
  <2> PICK h : h = Len(at) + 1
    OBVIOUS
  <2>1. trouble = "crash" /\ \A i \in 1..Len(node) : node[i] = i
    BY <1>2, <1>4 DEF NodeOk
  <2>2. h \in 1..Len(node)
    BY <1>1, <1>2 DEF AtOk, NodeOk
  <2>3. node[h] = h
    BY <2>1, <2>2
  <2>4. spends[h] \ {h} \subseteq db["prevouts"]
    BY <1>1, <2>3 DEF HasPrevouts
  <2>5. \E o \in spends[h] : o # h /\ o \notin db["prevouts"]
    BY <1>4 DEF Damaged
  <2> QED BY <2>4, <2>5
<1> QED BY <1>3, <1>4 DEF Resting

LEMMA RoomIs ==
  ASSUME NEW sv, IsASeq(sv)
  PROVE  \E k \in {0, 1} : /\ IsASeq(Room(sv)) /\ Len(Room(sv)) = Len(sv) - k /\ k <= Len(sv)
                           /\ \A i \in 1..Len(sv) - k : Room(sv)[i] = sv[i + k]
<1> PICK T : sv \in Seq(T)
  BY DEF IsASeq
<1>1. CASE Len(sv) = MaxLen
  <2>1. Len(sv) \in Nat /\ Len(sv) >= 1 /\ Room(sv) = Tail(sv)
    BY <1>1 DEF Room
  <2>2. sv # <<>>
    BY <2>1
  <2>3. /\ Tail(sv) \in Seq(T) /\ Len(Tail(sv)) = Len(sv) - 1
        /\ \A i \in 1..Len(sv) - 1 : Tail(sv)[i] = sv[i + 1]
    BY <2>2
  <2> QED BY <2>1, <2>3 DEF IsASeq
<1>2. CASE Len(sv) # MaxLen
  <2>1. Room(sv) = sv
    BY <1>2 DEF Room
  <2>2. Len(sv) = Len(sv) - 0 /\ 0 <= Len(sv) /\ \A i \in 1..Len(sv) - 0 : sv[i] = sv[i + 0]
    OBVIOUS
  <2> QED BY <2>1, <2>2
<1> QED BY <1>1, <1>2

LEMMA SavedSame ==
  ASSUME NEW sp, NEW a \in Seq(Nat), NEW e \in Seq(Nat), NEW h \in Nat, h >= 1, h <= Len(a), h <= Len(e),
         \A i \in 1..h : e[i] = a[i], NEW s, SavedIs(sp, a, s, h)
  PROVE  SavedIs(sp, e, s, h)
<1> PICK n : n = h - 1
  OBVIOUS
<1>1. n \in Nat /\ n <= Len(a) /\ n <= Len(e) /\ \A i \in 1..n : i \in 1..h
  OBVIOUS
<1>2. \A i \in 1..n : e[i] = a[i]
  BY <1>1
<1>3. SubSeq(e, 1, n) = SubSeq(a, 1, n)
  BY <1>1, <1>2, SameFirst
<1>4. h \in 1..h
  OBVIOUS
<1> QED BY <1>3, <1>4 DEF SavedIs

LEMMA AtApply ==
  ASSUME NEW sp, NEW nd \in Seq(Nat), NEW tr, NEW a, NEW sv, AtOk(sp, nd, tr, a, sv),
         Agree(a, nd, Len(a)), NEW p \in Nat, p = Len(a), NEW h \in Nat, h = p + 1, h <= Len(nd),
         NEW b, b = nd[h], b \in 1..Len(sp), NEW e, e = Append(a, b), NEW d, RowsAre(sp, d, a),
         NEW s, s.block = b, s.height = h, s.was = d,
         NEW tv, tv = <<>> \/ (p >= StartHeight /\ tv = Append(Room(sv), s))
  PROVE  AtOk(sp, nd, tr, e, tv)
<1>1. /\ a \in Seq(Nat) /\ b \in Nat /\ \A i \in 1..p : a[i] \in 1..Len(sp)
      /\ \A i \in 1..p : a[i] = nd[i]
      /\ IsASeq(sv) /\ Len(sv) <= p
      /\ sv # <<>> => p - Len(sv) >= StartHeight
      /\ \A i \in 1..Len(sv) : SavedIs(sp, a, sv[i], p - Len(sv) + i)
  BY DEF AtOk, Agree
<1>2. /\ e \in Seq(Nat) /\ Len(e) = h /\ e[h] = b /\ \A i \in 1..p : e[i] = a[i]
      /\ \A i \in 1..h : i = h \/ i \in 1..p
  BY <1>1, AppendIs
<1>3. \A i \in 1..h : e[i] = nd[i] /\ e[i] \in 1..Len(sp)
  BY <1>1, <1>2
<1>4. ASSUME NEW m \in Nat, m <= h PROVE Agree(e, nd, m)
  <2>1. \A i \in 1..m : i \in 1..h
    BY <1>4
  <2>2. m <= Len(nd)
    BY <1>4
  <2> QED BY <1>2, <1>3, <1>4, <2>1, <2>2 DEF Agree
<1>5. Agree(e, nd, Len(e))
  BY <1>2, <1>4
<1>6. CASE tv = <<>>
  <2>1. Len(tv) = 0 /\ 1..0 = {} /\ <<>> \in Seq(Nat)
    BY <1>6
  <2>2. IsASeq(tv)
    BY <1>6, <2>1 DEF IsASeq
  <2>3. Len(e) - Len(tv) = Len(e) /\ Len(tv) <= Len(e)
    BY <1>2, <2>1
  <2> QED BY <1>2, <1>3, <1>5, <1>6, <2>1, <2>2, <2>3 DEF AtOk
<1>7. CASE p >= StartHeight /\ tv = Append(Room(sv), s)
  <2> PICK q : q = Len(sv)
    OBVIOUS
  <2> PICK k \in {0, 1} : /\ IsASeq(Room(sv)) /\ Len(Room(sv)) = q - k /\ k <= q
                          /\ \A i \in 1..q - k : Room(sv)[i] = sv[i + k]
    BY <1>1, RoomIs
  <2> PICK r : r = q - k
    OBVIOUS
  <2>1. q \in Nat /\ q <= p /\ r \in Nat /\ r <= p /\ r = q - k /\ r <= q
    <3>1. q \in Nat /\ q <= p
      BY <1>1 DEF IsASeq
    <3>2. (k = 0 \/ k = 1) /\ k <= q /\ r = q - k
      OBVIOUS
    <3> QED BY ONLY <3>1, <3>2, p \in Nat
  <2>2. /\ IsASeq(tv) /\ Len(tv) = r + 1 /\ tv[r + 1] = s /\ \A i \in 1..r : tv[i] = sv[i + k]
    <3> PICK rv : rv = Room(sv)
      OBVIOUS
    <3> PICK T : rv \in Seq(T)
      BY DEF IsASeq
    <3>1. rv \in Seq(T \cup {s}) /\ Len(rv) = r /\ tv = Append(rv, s) /\ s \in T \cup {s}
      BY <1>7
    <3>2. tv \in Seq(T \cup {s}) /\ Len(tv) = r + 1 /\ tv[r + 1] = s /\ \A i \in 1..r : tv[i] = rv[i]
      <4>1. Append(rv, s) \in Seq(T \cup {s}) /\ Len(Append(rv, s)) = r + 1
        BY ONLY <2>1, <3>1
      <4>2. Append(rv, s)[r + 1] = s /\ \A i \in 1..r : Append(rv, s)[i] = rv[i]
        BY ONLY <2>1, <3>1
      <4> QED BY ONLY <3>1, <4>1, <4>2
    <3>3. \A i \in 1..r : rv[i] = sv[i + k]
      OBVIOUS
    <3> QED BY <3>2, <3>3 DEF IsASeq
  <2> PICK low : low = p - r
    OBVIOUS
  <2>3. low \in Nat /\ low <= h /\ Len(e) - Len(tv) = low /\ Len(tv) <= Len(e)
    <3>1. low = p - r /\ h = p + 1
      OBVIOUS
    <3>2. low \in Nat /\ low <= h /\ h - (r + 1) = low /\ r + 1 <= h
      BY ONLY <2>1, <3>1, p \in Nat
    <3> QED BY <1>2, <2>2, <3>2
  <2>4. low >= StartHeight
    <3>1. CASE q = 0
      <4>1. low = p
        BY <2>1, <3>1
      <4> QED BY <1>7, <4>1
    <3>2. CASE q # 0
      <4>1. sv # <<>>
        BY <3>2
      <4>2. p - q >= StartHeight /\ StartHeight \in Nat
        BY <1>1, <4>1
      <4> QED BY <2>1, <4>2
    <3> QED BY <3>1, <3>2
  <2>5. ASSUME NEW i \in 1..r + 1 PROVE SavedIs(sp, e, tv[i], low + i)
    <3>1. CASE i = r + 1
      <4>1. low + i = h /\ tv[i] = s
        BY <2>1, <2>2, <3>1
      <4>2. SubSeq(e, 1, p) = a
        <5>1. SubSeq(e, 1, p) = SubSeq(a, 1, p)
          <6>1. p <= Len(e) /\ p <= Len(a)
            BY <1>2
          <6> QED BY <1>1, <1>2, <6>1, SameFirst
        <5>2. SubSeq(a, 1, p) = a
          BY <1>1
        <5> QED BY <5>1, <5>2
      <4>3. h - 1 = p
        OBVIOUS
      <4>4. SavedIs(sp, e, s, h)
        BY <1>2, <4>2, <4>3 DEF SavedIs
      <4> QED BY <4>1, <4>4
    <3>2. CASE i \in 1..r
      <4> PICK j : j = i + k
        OBVIOUS
      <4> PICK g : g = low + i
        OBVIOUS
      <4>1. j \in 1..q /\ g = p - q + j /\ g \in Nat /\ g >= 1 /\ g <= p
        <5>1. (k = 0 \/ k = 1) /\ j = i + k /\ g = low + i /\ low = p - r
          OBVIOUS
        <5> QED BY ONLY <2>1, <3>2, <5>1, p \in Nat
      <4>2. tv[i] = sv[j] /\ SavedIs(sp, a, sv[j], g)
        BY <1>1, <2>2, <3>2, <4>1
      <4>3. g <= Len(a) /\ g <= Len(e) /\ \A x \in 1..g : x \in 1..p
        <5>1. p = Len(a) /\ Len(e) = h /\ h = p + 1
          BY <1>2
        <5>2. g <= p /\ g <= h /\ \A x \in 1..g : x \in 1..p
          BY ONLY <4>1, <5>1, p \in Nat
        <5> QED BY <5>1, <5>2
      <4>4. SavedIs(sp, e, sv[j], g)
        BY <1>1, <1>2, <4>1, <4>2, <4>3, SavedSame
      <4> QED BY <4>2, <4>4
    <3>3. i = r + 1 \/ i \in 1..r
      BY ONLY <2>1, i \in 1..r + 1
    <3> QED BY <3>1, <3>2, <3>3
  <2>6. Agree(e, nd, low)
    BY <1>4, <2>3
  <2> QED BY <1>2, <1>3, <1>5, <2>2, <2>3, <2>4, <2>5, <2>6 DEF AtOk
<1> QED BY <1>6, <1>7

LEMMA ApplyInv ==
  ASSUME Inv, Apply
  PROVE  Inv'
<1>1. /\ NodeOk(spends, node, crashes, trouble) /\ AtOk(spends, node, trouble, at, savepoints)
      /\ DOMAIN db = Tables /\ Stage(spends, node, crashes, trouble, mode, at, todo, savepoints, db)
  BY DEF Inv
<1>2. Rest(spends, crashes, trouble, db, at)
  BY ApplyAtRest
<1> PICK p : p = Len(at)
  OBVIOUS
<1> PICK h : h = p + 1
  OBVIOUS
<1> PICK b : b = node[h]
  OBVIOUS
<1> PICK s : s = [block |-> b, height |-> h, was |-> db]
  OBVIOUS
<1>3. /\ mode = "running" /\ todo = <<>> /\ p < Len(node) /\ IsPrefix(at, node)
      /\ at' = Append(at, b) /\ todo' = BlockWrites(b, h)
      /\ savepoints' = IF Tracked(h) THEN Append(Room(savepoints), s) ELSE <<>>
      /\ UNCHANGED <<node, spends, trouble, mode, db, crashes, starts>>
  BY DEF Apply, AtRest, OnNode
<1>4. /\ at \in Seq(Nat) /\ p \in Nat /\ h \in Nat /\ node \in Seq(Nat) /\ Len(node) \in Nat
      /\ h <= Len(node) /\ h \in 1..Len(node) /\ Len(node) <= MaxBlocks /\ InitLen <= Len(node)
  <2>1. /\ at \in Seq(Nat) /\ node \in Seq(Nat) /\ Len(node) <= Len(spends) /\ Len(spends) <= MaxBlocks
        /\ Len(spends) \in Nat /\ InitLen <= Len(node)
    BY <1>1 DEF AtOk, NodeOk
  <2>2. Len(node) <= MaxBlocks
    <3>1. MaxBlocks \in Nat
      OBVIOUS
    <3> QED BY <2>1, <3>1
  <2> QED BY <1>3, <2>1, <2>2
<1>5. b \in 1..Len(spends) /\ b \in Nat
  BY <1>1, <1>4 DEF NodeOk
<1>6. Agree(at, node, p)
  <2>1. at \in Seq(Int) /\ node \in Seq(Int)
    BY <1>4
  <2>2. p <= Len(node) /\ \A i \in 1..p : at[i] = node[i]
    BY <1>3, <2>1, PrefixIs
  <2> QED BY <1>4, <2>2 DEF Agree
<1>7. savepoints' = <<>> \/ (p >= StartHeight /\ savepoints' = Append(Room(savepoints), s))
  <2>1. ASSUME Tracked(h) PROVE p >= StartHeight
    <3>1. h > Len(node) - MaxLen
      BY <2>1 DEF Tracked
    <3>2. /\ InitLen >= StartHeight + MaxLen /\ InitLen \in Nat /\ StartHeight \in Nat /\ MaxLen \in Nat
          /\ h = p + 1
      OBVIOUS
    <3> QED BY ONLY <1>4, <3>1, <3>2
  <2> QED BY <1>3, <2>1
<1>8. AtOk(spends, node, trouble, at', savepoints')
  <2>1. RowsAre(spends, db, at)
    BY <1>2 DEF Rest
  <2>2. s.block = b /\ s.height = h /\ s.was = db
    OBVIOUS
  <2>3. Agree(at, node, Len(at)) /\ p = Len(at) /\ h = p + 1 /\ b = node[h]
    BY <1>6
  <2>4. AtOk(spends, node, trouble, at, savepoints) /\ at' = Append(at, b)
    BY <1>1, <1>3
  <2> QED BY ONLY <1>4, <1>5, <1>7, <2>1, <2>2, <2>3, <2>4, AtApply
<1> PICK w : w = todo'
  OBVIOUS
<1>9. ApplyIs(w, db, spends, b, h)
  BY <1>1, <1>3, <1>4, BlockWritesAre
<1>10. IsASeq(w) /\ w # <<>>
  BY <1>9 DEF ApplyIs
<1>11. ApplyFlight(spends, crashes, trouble, at', w, db)
  <2>1. Left(w, w, 0) /\ Holds(db, db, w, 0)
    BY <1>10, LeftFirst, HoldsFirst
  <2>2. Len(at) + 1 = h /\ h <= MaxBlocks
    <3>1. MaxBlocks \in Nat
      OBVIOUS
    <3> QED BY <1>4, <3>1
  <2>3. ApplyIs(w, db, spends, b, Len(at) + 1) /\ Len(at) + 1 <= MaxBlocks
    BY <1>9, <2>2
  <2>4. at \in Seq(Nat) /\ at' = Append(at, b)
    BY <1>3, <1>4
  <2> QED BY <1>2, <1>5, <2>1, <2>3, <2>4 DEF ApplyFlight
<1>12. Stage(spends, node, crashes, trouble, mode, at', w, savepoints', db)
  BY <1>3, <1>10, <1>11 DEF Stage
<1> QED BY <1>1, <1>3, <1>8, <1>12 DEF Inv

LEMMA MissingPrevoutInv ==
  ASSUME Inv, MissingPrevout
  PROVE  Inv'
<1>1. /\ NodeOk(spends, node, crashes, trouble) /\ AtOk(spends, node, trouble, at, savepoints)
      /\ DOMAIN db = Tables /\ Stage(spends, node, crashes, trouble, mode, at, todo, savepoints, db)
  BY DEF Inv
<1>2. /\ mode = "running" /\ todo = <<>> /\ IsPrefix(at, node) /\ mode' = "stopping"
      /\ savepoints' = savepoints \/ savepoints' = <<>>
      /\ UNCHANGED <<node, spends, trouble, at, todo, db, crashes, starts>>
  BY DEF MissingPrevout, AtRest, OnNode
<1>3. at \in Seq(Nat) /\ node \in Seq(Nat) /\ Len(at) \in Nat
  BY <1>1 DEF AtOk, NodeOk
<1>4. Agree(at, node, Len(at))
  <2>1. at \in Seq(Int) /\ node \in Seq(Int)
    BY <1>3
  <2>2. Len(at) <= Len(node) /\ \A i \in 1..Len(at) : at[i] = node[i]
    BY <1>2, <2>1, PrefixIs
  <2> QED BY <1>3, <2>2 DEF Agree
<1>5. AtOk(spends, node, trouble, at, <<>>)
  <2>1. Len(<<>>) = 0 /\ 1..0 = {} /\ <<>> \in Seq(Nat)
    OBVIOUS
  <2>2. IsASeq(<<>>) /\ Len(at) - 0 = Len(at) /\ 0 <= Len(at)
    BY <1>3, <2>1 DEF IsASeq
  <2> QED BY <1>1, <1>4, <2>1, <2>2 DEF AtOk
<1>6. AtOk(spends, node, trouble, at, savepoints')
  BY <1>1, <1>2, <1>5
<1>7. Resting(spends, node, crashes, trouble, savepoints', db, at)
  <2>1. Resting(spends, node, crashes, trouble, savepoints, db, at)
    BY <1>1, <1>2 DEF Stage
  <2> QED BY <1>2, <2>1 DEF Resting
<1>8. Stage(spends, node, crashes, trouble, mode', at, todo, savepoints', db)
  BY <1>2, <1>7 DEF Stage
<1> QED BY <1>1, <1>2, <1>6, <1>8 DEF Inv

----------------------------------------------------------------------------
(* A write. *)

LEMMA CrashChain ==
  ASSUME NEW sp, NEW nd, NEW cr, NodeOk(sp, nd, cr, "crash"), NEW a, NEW n \in Nat, Agree(a, nd, n)
  PROVE  \A h \in 1..n : a[h] = h /\ h \in 1..Len(nd)
<1>1. n <= Len(nd) /\ \A h \in 1..n : a[h] = nd[h]
  BY DEF Agree
<1>2. Len(nd) \in Nat /\ \A h \in 1..Len(nd) : nd[h] = h
  BY DEF NodeOk
<1>3. \A h \in 1..n : h \in 1..Len(nd)
  BY <1>1, <1>2
<1> QED BY <1>1, <1>2, <1>3

LEMMA WriteInv ==
  ASSUME Inv, Write
  PROVE  Inv'
<1>1. /\ NodeOk(spends, node, crashes, trouble) /\ AtOk(spends, node, trouble, at, savepoints)
      /\ DOMAIN db = Tables /\ Stage(spends, node, crashes, trouble, mode, at, todo, savepoints, db)
  BY DEF Inv
<1>2. /\ mode # "down" /\ todo # <<>>
      /\ db' = [db EXCEPT ![Head(todo).table] = Head(todo).value]
      /\ todo' = Tail(todo)
      /\ UNCHANGED <<node, spends, trouble, mode, at, savepoints, crashes, starts>>
  BY DEF Write
<1> PICK e : e = db'
  OBVIOUS
<1> PICK u : u = todo'
  OBVIOUS
<1>3. /\ at \in Seq(Nat) /\ Len(at) \in Nat /\ node \in Seq(Nat) /\ Len(node) \in Nat
      /\ trouble = "crash" => Agree(at, node, Len(at))
  BY <1>1 DEF AtOk, NodeOk
<1>4. trouble = "crash" => \A h \in 1..Len(at) : at[h] = h /\ h \in 1..Len(node)
  BY <1>1, <1>3, CrashChain
<1>5. trouble = "crash" => OnceSpent(spends, Len(node))
  BY <1>1 DEF NodeOk
<1>6. ASSUME ApplyFlight(spends, crashes, trouble, at, todo, db)
      PROVE  /\ DOMAIN e = Tables
             /\ u = <<>> => Rest(spends, crashes, trouble, e, at)
             /\ u # <<>> => ApplyFlight(spends, crashes, trouble, at, u, e)
  <2> PICK d0, w, k, c, b :
        /\ c \in Seq(Nat) /\ b \in Nat /\ at = Append(c, b)
        /\ ApplyIs(w, d0, spends, b, Len(c) + 1) /\ Rest(spends, crashes, trouble, d0, c)
        /\ Left(todo, w, k) /\ Holds(db, d0, w, k)
        /\ Len(c) + 1 <= MaxBlocks
    BY <1>6 DEF ApplyFlight
  <2> PICK j : j = k + 1
    OBVIOUS
  <2>1. WroteOne(e, d0, w, u, j)
    <3>1. e = Updated(db, Head(todo).table, Head(todo).value) /\ u = Tail(todo)
      BY <1>2 DEF Updated
    <3> QED BY <1>1, <1>2, <3>1, HoldsWrite
  <2>2. DOMAIN e = Tables /\ Left(u, w, j) /\ Holds(e, d0, w, j) /\ (u = <<>> => j = Len(w))
    BY <2>1 DEF WroteOne
  <2>3. ASSUME u = <<>> PROVE Rest(spends, crashes, trouble, e, at)
    <3> PICK n : n = Len(c)
      OBVIOUS
    <3>1. n \in Nat /\ Len(at) = n + 1 /\ at[n + 1] = b /\ \A h \in 1..n : at[h] = c[h] /\ h \in 1..n + 1
      BY AppendIs
    <3>2. ASSUME trouble = "crash" PROVE \A h \in 1..n : b \notin spends[c[h]]
      <4>1. b = n + 1
        <5>1. n + 1 \in 1..Len(at)
          BY <3>1
        <5> QED BY <1>4, <3>1, <3>2, <5>1
      <4>2. ASSUME NEW h \in 1..n PROVE b \notin spends[c[h]]
        <5>1. h \in 1..Len(at)
          BY <3>1
        <5>2. c[h] = h /\ h \in 1..Len(node)
          BY <1>4, <3>1, <3>2, <5>1
        <5>3. spends[h] \subseteq 1..h
          BY <1>5, <3>2, <5>2 DEF OnceSpent
        <5>4. n + 1 \notin 1..h
          BY <3>1
        <5> QED BY <4>1, <5>2, <5>3, <5>4
      <4> QED BY <4>2
    <3>3. Holds(e, d0, w, Len(w))
      BY <2>2, <2>3
    <3>4. Rest(spends, crashes, trouble, e, Append(c, b))
      BY <3>2, <3>3, RestApply
    <3> QED BY <3>4
  <2>4. ApplyFlight(spends, crashes, trouble, at, u, e)
    BY <2>2 DEF ApplyFlight
  <2> QED BY <2>2, <2>3, <2>4
<1>7. ASSUME UndoFlight(spends, node, crashes, trouble, at, todo, db)
      PROVE  /\ DOMAIN e = Tables
             /\ u = <<>> => Rest(spends, crashes, trouble, e, at)
             /\ u # <<>> => UndoFlight(spends, node, crashes, trouble, at, u, e)
  <2> PICK d0, w, k, b, was :
        /\ b \in Nat
        /\ UndoIs(w, d0, spends, b, Len(at) + 1, was) /\ Rest(spends, crashes, trouble, d0, Append(at, b))
        /\ Left(todo, w, k) /\ Holds(db, d0, w, k)
        /\ \A t \in RowSet : was[t] = RowsIn(spends, at)
        /\ Len(at) >= StartHeight
        /\ trouble = "crash" => b = Len(at) + 1 /\ b <= Len(node)
    BY <1>7 DEF UndoFlight
  <2> PICK j : j = k + 1
    OBVIOUS
  <2>1. WroteOne(e, d0, w, u, j)
    <3>1. e = Updated(db, Head(todo).table, Head(todo).value) /\ u = Tail(todo)
      BY <1>2 DEF Updated
    <3> QED BY <1>1, <1>2, <3>1, HoldsWrite
  <2>2. DOMAIN e = Tables /\ Left(u, w, j) /\ Holds(e, d0, w, j) /\ (u = <<>> => j = Len(w))
    BY <2>1 DEF WroteOne
  <2>3. ASSUME u = <<>> PROVE Rest(spends, crashes, trouble, e, at)
    <3> PICK n : n = Len(at)
      OBVIOUS
    <3> PICK h : h = n + 1
      OBVIOUS
    <3>1. n \in Nat /\ h \in Nat
      BY <1>3
    <3>2. ASSUME trouble = "crash" PROVE \A i \in 1..n : spends[at[i]] \cap spends[b] = {}
      <4>1. b = h /\ h \in 1..Len(node)
        BY <1>3, <3>1, <3>2
      <4>2. ASSUME NEW i \in 1..n PROVE spends[at[i]] \cap spends[b] = {}
        <5>1. at[i] = i /\ i \in 1..Len(node) /\ i # h
          BY <1>4, <3>1, <3>2
        <5> QED BY <1>5, <3>2, <4>1, <5>1 DEF OnceSpent
      <4> QED BY <4>2
    <3>3. Holds(e, d0, w, Len(w))
      BY <2>2, <2>3
    <3>4. UndoIs(w, d0, spends, b, h, was)
      OBVIOUS
    <3> QED BY <1>3, <3>1, <3>2, <3>3, <3>4, RestUndo
  <2>4. UndoFlight(spends, node, crashes, trouble, at, u, e)
    BY <2>2 DEF UndoFlight
  <2> QED BY <2>2, <2>3, <2>4
<1>8. \/ ApplyFlight(spends, crashes, trouble, at, todo, db)
      \/ UndoFlight(spends, node, crashes, trouble, at, todo, db)
  BY <1>1, <1>2 DEF Stage
<1>9. DOMAIN e = Tables
  BY <1>6, <1>7, <1>8
<1>10. Stage(spends, node, crashes, trouble, mode, at, u, savepoints, e)
  <2>1. u = <<>> => Resting(spends, node, crashes, trouble, savepoints, e, at)
    BY <1>6, <1>7, <1>8 DEF Resting
  <2>2. u # <<>> => \/ ApplyFlight(spends, crashes, trouble, at, u, e)
                    \/ UndoFlight(spends, node, crashes, trouble, at, u, e)
    BY <1>6, <1>7, <1>8
  <2> QED BY <1>1, <1>2, <2>1, <2>2 DEF Stage
<1> QED BY <1>1, <1>2, <1>9, <1>10 DEF Inv

----------------------------------------------------------------------------
(* A block is undone. *)

LEMMA FewerAgree ==
  ASSUME NEW a, NEW nd, NEW c, NEW p \in Nat, NEW m \in Nat, Agree(a, nd, p), m <= p, m <= Len(c),
         \A i \in 1..m : c[i] = a[i], Len(nd) \in Nat
  PROVE  Agree(c, nd, m)
<1>1. p <= Len(nd) /\ \A h \in 1..p : a[h] = nd[h]
  BY DEF Agree
<1>2. m <= Len(nd) /\ \A h \in 1..m : h \in 1..p
  BY <1>1
<1> QED BY <1>1, <1>2 DEF Agree

\* The last block of the chain goes, and its savepoint.
LEMMA AtUndo ==
  ASSUME NEW sp, NEW nd \in Seq(Nat), NEW tr, NEW a, NEW sv, AtOk(sp, nd, tr, a, sv), sv # <<>>
  PROVE  /\ AtOk(sp, nd, tr, Front(a), Front(sv))
         /\ Len(a) - 1 \in Nat /\ Len(a) - 1 >= StartHeight
         /\ SavedIs(sp, a, Last(sv), Len(a))
<1> PICK p : p = Len(a)
  OBVIOUS
<1> PICK q : q = Len(sv)
  OBVIOUS
<1> PICK n : n = p - 1
  OBVIOUS
<1> PICK low : low = p - q
  OBVIOUS
<1> PICK T : sv \in Seq(T)
  BY DEF AtOk, IsASeq
<1>1. /\ a \in Seq(Nat) /\ \A h \in 1..p : a[h] \in 1..Len(sp)
      /\ q <= p /\ Agree(a, nd, low) /\ (tr = "crash" => Agree(a, nd, p)) /\ low >= StartHeight
      /\ \A i \in 1..q : SavedIs(sp, a, sv[i], low + i)
  BY DEF AtOk
<1>2. p \in Nat /\ q \in Nat /\ q >= 1 /\ StartHeight \in Nat
  BY <1>1
<1>3. n \in Nat /\ p = n + 1 /\ low \in Nat /\ low <= n /\ n >= StartHeight /\ low + q = p /\ q - 1 \in Nat
      /\ n - (q - 1) = low /\ q - 1 <= n /\ n <= p
  <2>1. n = p - 1 /\ low = p - q
    OBVIOUS
  <2> QED BY ONLY <1>1, <1>2, <2>1
<1> PICK c : c = Front(a)
  OBVIOUS
<1>4. c \in Seq(Nat) /\ Len(c) = n /\ \A h \in 1..n : c[h] = a[h]
  BY <1>1, <1>3, FrontIs
<1> PICK tv : tv = Front(sv)
  OBVIOUS
<1>5. /\ tv \in Seq(T) /\ Len(tv) = q - 1 /\ \A i \in 1..q - 1 : tv[i] = sv[i]
  <2>1. tv = SubSeq(sv, 1, q - 1)
    BY DEF Front
  <2> QED BY <1>2, <1>3, <2>1
<1>6. SavedIs(sp, a, Last(sv), p)
  <2>1. Last(sv) = sv[q] /\ q \in 1..q
    BY <1>2 DEF Last
  <2> QED BY <1>1, <1>3, <2>1
<1>7. \A h \in 1..n : h \in 1..p
  BY <1>3
<1>8. \A h \in 1..n : c[h] \in 1..Len(sp)
  BY <1>1, <1>4, <1>7
<1>9. Agree(c, nd, low)
  <2>1. \A h \in 1..low : h \in 1..n
    BY <1>3
  <2>2. Len(nd) \in Nat
    OBVIOUS
  <2>3. low <= Len(c) /\ low <= low /\ \A h \in 1..low : c[h] = a[h]
    BY <1>3, <1>4, <2>1
  <2> QED BY <1>1, <1>3, <2>2, <2>3, FewerAgree
<1>10. ASSUME tr = "crash" PROVE Agree(c, nd, n)
  <2>1. Len(nd) \in Nat
    OBVIOUS
  <2>2. n <= Len(c) /\ Agree(a, nd, p)
    BY <1>1, <1>3, <1>4, <1>10
  <2> QED BY <1>2, <1>3, <1>4, <2>1, <2>2, FewerAgree
<1>11. ASSUME NEW i \in 1..q - 1 PROVE SavedIs(sp, c, tv[i], low + i)
  <2> PICK h : h = low + i
    OBVIOUS
  <2>1. h \in Nat /\ h >= 1 /\ h <= n /\ h <= p /\ i \in 1..q
    BY <1>2, <1>3
  <2>2. SavedIs(sp, a, sv[i], h) /\ tv[i] = sv[i]
    BY <1>1, <1>5, <2>1
  <2>3. \A j \in 1..h : j \in 1..n
    BY <1>3, <2>1
  <2>4. h <= Len(a) /\ h <= Len(c) /\ \A j \in 1..h : c[j] = a[j]
    BY <1>4, <2>1, <2>3
  <2>5. SavedIs(sp, c, sv[i], h)
    BY <1>1, <1>4, <2>1, <2>2, <2>4, SavedSame
  <2> QED BY <2>2, <2>5
<1>12. AtOk(sp, nd, tr, c, tv)
  <2>1. IsASeq(tv)
    BY <1>5 DEF IsASeq
  <2>2. Len(c) - Len(tv) = low /\ Len(tv) <= Len(c)
    BY <1>3, <1>4, <1>5
  <2> QED BY <1>1, <1>4, <1>5, <1>8, <1>9, <1>10, <1>11, <2>1, <2>2 DEF AtOk
<1> QED BY <1>3, <1>6, <1>12

LEMMA UndoLastInv ==
  ASSUME Inv, mode # "down", todo = <<>>, UndoLast,
         UNCHANGED <<node, spends, trouble, mode, db, crashes, starts>>
  PROVE  Inv'
<1>1. /\ NodeOk(spends, node, crashes, trouble) /\ AtOk(spends, node, trouble, at, savepoints)
      /\ DOMAIN db = Tables /\ Stage(spends, node, crashes, trouble, mode, at, todo, savepoints, db)
  BY DEF Inv
<1> PICK s : s = Last(savepoints)
  OBVIOUS
<1>2. /\ savepoints # <<>> /\ todo' = UndoWrites(s.block, s.height, s.was)
      /\ savepoints' = Front(savepoints) /\ at' = Front(at)
  BY DEF UndoLast
<1> PICK n : n = Len(at) - 1
  OBVIOUS
<1> PICK c : c = Front(at)
  OBVIOUS
<1>3. /\ at \in Seq(Nat) /\ node \in Seq(Nat) /\ Len(node) \in Nat
      /\ trouble = "crash" => Agree(at, node, Len(at))
  BY <1>1 DEF AtOk, NodeOk
<1>4. AtOk(spends, node, trouble, c, savepoints') /\ n \in Nat /\ n >= StartHeight
      /\ SavedIs(spends, at, s, Len(at))
  BY <1>1, <1>2, <1>3, AtUndo
<1> PICK h : h = n + 1
  OBVIOUS
<1> PICK b : b = at[h]
  OBVIOUS
<1>5. h = Len(at) /\ h \in Nat /\ n + 1 <= Len(at) /\ h \in 1..h
  BY <1>3, <1>4
<1>6. /\ c \in Seq(Nat) /\ Len(c) = n /\ c = SubSeq(at, 1, n) /\ b \in Nat
      /\ at = Append(c, b)
  <2>1. c \in Seq(Nat) /\ Len(c) = n /\ c = SubSeq(at, 1, n)
    BY <1>3, <1>4, <1>5, FrontIs
  <2>2. SubSeq(at, 1, n + 1) = Append(SubSeq(at, 1, n), at[n + 1])
    BY <1>3, <1>4, <1>5, FirstBlocksAppend
  <2>3. SubSeq(at, 1, n + 1) = at
    BY <1>3, <1>5
  <2>4. b \in Nat
    BY <1>3, <1>5
  <2> QED BY <2>1, <2>2, <2>3, <2>4
<1>7. /\ s.block = b /\ s.height = h /\ \A t \in RowSet : s.was[t] = RowsIn(spends, c)
  <2>1. SavedIs(spends, at, s, h)
    BY <1>4, <1>5
  <2>2. h - 1 = n
    BY <1>4
  <2> QED BY <1>6, <2>1, <2>2 DEF SavedIs, RowsAre
<1>8. Rest(spends, crashes, trouble, db, at)
  BY <1>1, <1>2 DEF Stage, Resting
<1> PICK w : w = todo'
  OBVIOUS
<1>9. UndoIs(w, db, spends, b, h, s.was)
  BY <1>1, <1>2, <1>5, <1>7, UndoWritesAre
<1>10. IsASeq(w) /\ w # <<>>
  BY <1>9 DEF UndoIs
<1>11. UndoFlight(spends, node, crashes, trouble, c, w, db)
  <2>1. Left(w, w, 0) /\ Holds(db, db, w, 0)
    BY <1>10, LeftFirst, HoldsFirst
  <2>2. Len(c) + 1 = h /\ Len(c) >= StartHeight
    BY <1>4, <1>6
  <2>3. trouble = "crash" => b = h /\ h <= Len(node)
    <3>1. ASSUME trouble = "crash" PROVE at[h] = h /\ h \in 1..Len(node)
      BY <1>1, <1>3, <1>5, <3>1, CrashChain
    <3> QED BY <1>3, <3>1
  <2>4. trouble = "crash" => b = Len(c) + 1 /\ b <= Len(node)
    BY <2>2, <2>3
  <2>5. UndoIs(w, db, spends, b, Len(c) + 1, s.was) /\ Rest(spends, crashes, trouble, db, Append(c, b))
    BY <1>6, <1>8, <1>9, <2>2
  <2> QED BY <1>6, <1>7, <2>1, <2>2, <2>4, <2>5 DEF UndoFlight
<1>12. Stage(spends, node, crashes, trouble, mode, c, w, savepoints', db)
  BY <1>1, <1>10, <1>11 DEF Stage
<1> QED BY <1>1, <1>2, <1>4, <1>12 DEF Inv

----------------------------------------------------------------------------
(* The process stops, is killed, and starts. *)

LEMMA AtFresh ==
  ASSUME NEW sp, NEW nd, NEW tr, NEW a \in Seq(Nat), \A h \in 1..Len(a) : a[h] \in 1..Len(sp),
         Agree(a, nd, Len(a))
  PROVE  AtOk(sp, nd, tr, a, <<>>)
<1>1. Len(<<>>) = 0 /\ 1..0 = {} /\ <<>> \in Seq(Nat) /\ Len(a) \in Nat
  OBVIOUS
<1>2. IsASeq(<<>>) /\ Len(a) - 0 = Len(a) /\ 0 <= Len(a)
  BY <1>1 DEF IsASeq
<1> QED BY <1>1, <1>2 DEF AtOk

\* A chain that the node has, all of it.
LEMMA OnTheNode ==
  ASSUME NEW a \in Seq(Nat), NEW nd \in Seq(Nat), NEW n \in Nat, n = Len(a), Agree(a, nd, n)
  PROVE  n \in 0..Len(nd) /\ a = SubSeq(nd, 1, n)
<1>1. n <= Len(nd) /\ \A h \in 1..n : a[h] = nd[h]
  BY DEF Agree
<1>2. SubSeq(a, 1, n) = a
  OBVIOUS
<1>3. SubSeq(a, 1, n) = SubSeq(nd, 1, n)
  BY <1>1, SameFirst
<1> QED BY <1>1, <1>2, <1>3

LEMMA RestingFell ==
  ASSUME NEW sp, NEW nd \in Seq(Nat), NEW cr, NEW tr, NEW a \in Seq(Nat), Agree(a, nd, Len(a)),
         NEW d, Resting(sp, nd, cr, tr, <<>>, d, a)
  PROVE  Fell(sp, nd, cr, tr, a, d)
<1> PICK n : n = Len(a)
  OBVIOUS
<1>1. n \in Nat /\ n \in 0..Len(nd) /\ a = SubSeq(nd, 1, n)
  BY OnTheNode
<1>2. CASE Rest(sp, cr, tr, d, a)
  <2> PICK m : m = d["last_block"]
    OBVIOUS
  <2>1. m \in 0..n /\ Rest(sp, cr, tr, d, SubSeq(nd, 1, m))
    BY <1>1, <1>2, AtLastBlock
  <2>2. m \in 0..Len(nd) /\ m <= Len(a)
    BY <1>1, <2>1
  <2> QED BY <2>1, <2>2 DEF Fell, Resting
<1>3. CASE cr # 0 /\ Damaged(sp, nd, d, a)
  <2>1. d["last_block"] = n
    BY <1>3 DEF Damaged
  <2>2. Resting(sp, nd, cr, tr, <<>>, d, SubSeq(nd, 1, n))
    BY <1>1
  <2> QED BY <1>1, <1>3, <2>1, <2>2 DEF Fell
<1> QED BY <1>2, <1>3 DEF Resting

LEMMA SignalInv ==
  ASSUME Inv, Signal
  PROVE  Inv'
<1>1. /\ NodeOk(spends, node, crashes, trouble) /\ AtOk(spends, node, trouble, at, savepoints)
      /\ DOMAIN db = Tables /\ Stage(spends, node, crashes, trouble, mode, at, todo, savepoints, db)
  BY DEF Inv
<1>2. /\ mode = "running" /\ todo = <<>> /\ mode' = "stopping"
      /\ UNCHANGED <<node, spends, trouble, at, todo, savepoints, db, crashes, starts>>
  BY DEF Signal, AtRest
<1>3. Stage(spends, node, crashes, trouble, mode', at, todo, savepoints, db)
  BY <1>1, <1>2 DEF Stage
<1> QED BY <1>1, <1>2, <1>3 DEF Inv

LEMMA ExitInv ==
  ASSUME Inv, Exit
  PROVE  Inv'
<1>1. /\ NodeOk(spends, node, crashes, trouble) /\ AtOk(spends, node, trouble, at, savepoints)
      /\ DOMAIN db = Tables /\ Stage(spends, node, crashes, trouble, mode, at, todo, savepoints, db)
  BY DEF Inv
<1>2. /\ mode = "stopping" /\ todo = <<>> /\ savepoints = <<>> /\ mode' = "down"
      /\ UNCHANGED <<node, spends, trouble, at, todo, savepoints, db, crashes, starts>>
  BY DEF Exit
<1>3. /\ at \in Seq(Nat) /\ node \in Seq(Nat) /\ Agree(at, node, Len(at))
  <2>1. at \in Seq(Nat) /\ node \in Seq(Nat) /\ Agree(at, node, Len(at) - Len(savepoints))
    BY <1>1 DEF AtOk, NodeOk
  <2>2. Len(at) - Len(savepoints) = Len(at)
    BY <1>2, <2>1
  <2> QED BY <2>1, <2>2
<1>4. Resting(spends, node, crashes, trouble, <<>>, db, at)
  BY <1>1, <1>2 DEF Stage
<1>5. Fell(spends, node, crashes, trouble, at, db)
  BY <1>3, <1>4, RestingFell
<1>6. Stage(spends, node, crashes, trouble, mode', at, todo, savepoints, db)
  BY <1>2, <1>5 DEF Stage
<1> QED BY <1>1, <1>2, <1>6 DEF Inv

LEMMA CrashInv ==
  ASSUME Inv, Crash
  PROVE  Inv'
<1>1. /\ NodeOk(spends, node, crashes, trouble) /\ AtOk(spends, node, trouble, at, savepoints)
      /\ DOMAIN db = Tables /\ Stage(spends, node, crashes, trouble, mode, at, todo, savepoints, db)
  BY DEF Inv
<1> PICK cs : cs = crashes + 1
  OBVIOUS
<1>2. /\ trouble = "crash" /\ mode # "down" /\ mode' = "down" /\ todo' = <<>> /\ savepoints' = <<>>
      /\ crashes' = cs /\ UNCHANGED <<node, spends, trouble, at, db, starts>>
  BY DEF Crash
<1> PICK n : n = Len(at)
  OBVIOUS
<1>3. /\ at \in Seq(Nat) /\ node \in Seq(Nat) /\ n \in Nat /\ Len(node) \in Nat
      /\ Agree(at, node, n) /\ (\A h \in 1..Len(at) : at[h] \in 1..Len(spends))
      /\ cs \in Nat /\ cs # 0 /\ OnceSpent(spends, Len(node)) /\ \A i \in 1..Len(node) : node[i] = i
  BY <1>1, <1>2 DEF AtOk, NodeOk
<1>4. n \in 0..Len(node) /\ at = SubSeq(node, 1, n)
  BY <1>3, OnTheNode
<1>5. NodeOk(spends, node, cs, trouble)
  BY <1>1, <1>2, <1>3 DEF NodeOk
<1>6. AtOk(spends, node, trouble, at, <<>>)
  BY <1>3, AtFresh
<1>7. ASSUME todo = <<>> PROVE Fell(spends, node, cs, trouble, at, db)
  <2>1. \/ Rest(spends, crashes, trouble, db, at)
        \/ Damaged(spends, node, db, at)
    BY <1>1, <1>2, <1>7 DEF Stage, Resting
  <2>2. Resting(spends, node, cs, trouble, <<>>, db, at)
    BY <1>3, <2>1 DEF Resting, Rest
  <2> QED BY <1>3, <2>2, RestingFell
<1>8. ASSUME Fallen(spends, cs, node, db) PROVE Fell(spends, node, cs, trouble, at, db)
  <2> PICK m \in 0..Len(node) : /\ db["last_block"] = m
                                /\ \/ Rest(spends, cs, "crash", db, SubSeq(node, 1, m))
                                   \/ Damaged(spends, node, db, SubSeq(node, 1, m))
    BY <1>8 DEF Fallen
  <2> QED BY <1>2, <1>3 DEF Fell, Resting
<1>9. ASSUME ApplyFlight(spends, crashes, trouble, at, todo, db)
      PROVE  Fell(spends, node, cs, trouble, at, db)
  <2> PICK d0, w, k, c, b :
        /\ c \in Seq(Nat) /\ b \in Nat /\ at = Append(c, b)
        /\ ApplyIs(w, d0, spends, b, Len(c) + 1) /\ Rest(spends, crashes, trouble, d0, c)
        /\ Left(todo, w, k) /\ Holds(db, d0, w, k)
    BY <1>9 DEF ApplyFlight
  <2> PICK m : m = Len(c)
    OBVIOUS
  <2>1. m \in Nat /\ Len(at) = m + 1 /\ at[m + 1] = b /\ \A i \in 1..m : at[i] = c[i] /\ i \in 1..m + 1
    BY AppendIs
  <2> PICK h : h = m + 1
    OBVIOUS
  <2>2. h \in Nat /\ n = h /\ h \in 1..n /\ m <= h /\ m <= n /\ m <= Len(node) /\ h <= Len(node)
    <3> PICK l : l = Len(node)
      OBVIOUS
    <3>1. n = m + 1 /\ h = m + 1 /\ m \in Nat
      BY <2>1
    <3>2. n <= l /\ l \in Nat
      <4>1. n <= Len(node)
        BY <1>3 DEF Agree
      <4> QED BY <1>3, <4>1
    <3>3. h \in Nat /\ n = h /\ h \in 1..n /\ m <= h /\ m <= n /\ m <= l /\ h <= l
      BY ONLY <3>1, <3>2
    <3> QED BY <3>3
  <2>3. b = h
    <3>1. NodeOk(spends, node, crashes, "crash") /\ Agree(at, node, n) /\ n \in Nat
      BY <1>1, <1>2, <1>3
    <3>2. at[h] = h
      <4>1. \A i \in 1..n : at[i] = i
        BY ONLY <3>1, CrashChain
      <4> QED BY <2>2, <4>1
    <3> QED BY <2>1, <3>2
  <2>4. Agree(c, node, m)
    <3>1. m <= Len(c) /\ \A i \in 1..m : c[i] = at[i]
      BY <2>1
    <3> QED BY <1>3, <2>1, <2>2, <3>1, FewerAgree
  <2>5. c = SubSeq(node, 1, m)
    BY <1>3, <2>1, <2>4, OnTheNode
  <2>6. ApplyIs(w, d0, spends, h, h) /\ Rest(spends, crashes, "crash", d0, SubSeq(node, 1, m))
    BY <1>2, <2>3, <2>5
  <2>7. k \in 0..Len(w)
    BY DEF Left
  <2>8. Fallen(spends, cs, node, db)
    BY <1>3, <2>1, <2>2, <2>6, <2>7, CrashApply
  <2> QED BY <1>8, <2>8
<1>10. ASSUME todo # <<>>, UndoFlight(spends, node, crashes, trouble, at, todo, db)
       PROVE  Fell(spends, node, cs, trouble, at, db)
  <2> PICK d0, w, k, b, was :
        /\ b \in Nat
        /\ UndoIs(w, d0, spends, b, Len(at) + 1, was) /\ Rest(spends, crashes, trouble, d0, Append(at, b))
        /\ Left(todo, w, k) /\ Holds(db, d0, w, k)
        /\ \A t \in RowSet : was[t] = RowsIn(spends, at)
        /\ Len(at) >= StartHeight
        /\ trouble = "crash" => b = Len(at) + 1 /\ b <= Len(node)
    BY <1>10 DEF UndoFlight
  <2> PICK h : h = n + 1
    OBVIOUS
  <2>1. b = h /\ h \in Nat /\ h <= Len(node) /\ h \in 1..Len(node) /\ n + 1 <= Len(node) /\ n >= StartHeight
    BY <1>2, <1>3
  <2>2. Append(at, b) = SubSeq(node, 1, h)
    <3>1. SubSeq(node, 1, n + 1) = Append(SubSeq(node, 1, n), node[n + 1])
      BY <1>3, <2>1, FirstBlocksAppend
    <3>2. node[h] = b
      BY <1>3, <2>1
    <3> QED BY <1>4, <3>1, <3>2
  <2>3. /\ UndoIs(w, d0, spends, h, h, was) /\ Rest(spends, crashes, "crash", d0, SubSeq(node, 1, h))
        /\ \A t \in RowSet : was[t] = RowsIn(spends, SubSeq(node, 1, n))
    BY <1>2, <1>4, <2>1, <2>2
  <2>4. k \in 0..Len(w) /\ k # Len(w)
    <3>1. k \in 0..Len(w) /\ Len(w) \in Nat /\ Len(todo) = Len(w) - k /\ IsASeq(todo)
      BY DEF Left
    <3>2. Len(todo) # 0
      BY <1>10, <3>1 DEF IsASeq
    <3> QED BY <3>1, <3>2
  <2>5. Fallen(spends, cs, node, db)
    <3>1. h = n + 1 /\ n \in Nat /\ cs # 0 /\ node \in Seq(Nat) /\ OnceSpent(spends, Len(node))
          /\ \A i \in 1..Len(node) : node[i] = i
      BY <1>3
    <3>2. Holds(db, d0, w, k)
      OBVIOUS
    <3> QED BY ONLY <2>1, <2>3, <2>4, <3>1, <3>2, CrashUndo
  <2> QED BY <1>8, <2>5
<1>11. Fell(spends, node, cs, trouble, at, db)
  BY <1>1, <1>7, <1>9, <1>10 DEF Stage
<1>12. Stage(spends, node, cs, trouble, mode', at, todo', savepoints', db)
  BY <1>2, <1>11 DEF Stage
<1> QED BY <1>1, <1>2, <1>5, <1>6, <1>12 DEF Inv

LEMMA StartInv ==
  ASSUME Inv, Start
  PROVE  Inv'
<1>1. /\ NodeOk(spends, node, crashes, trouble) /\ AtOk(spends, node, trouble, at, savepoints)
      /\ DOMAIN db = Tables /\ Stage(spends, node, crashes, trouble, mode, at, todo, savepoints, db)
  BY DEF Inv
<1> PICK m : m = db["last_block"]
  OBVIOUS
<1> PICK c : c = SubSeq(node, 1, m)
  OBVIOUS
<1>2. /\ mode = "down" /\ mode' = "running" /\ at' = c
      /\ UNCHANGED <<node, spends, trouble, todo, savepoints, db, crashes>>
  BY DEF Start, Chain
<1>3. /\ todo = <<>> /\ savepoints = <<>> /\ m \in 0..Len(node)
      /\ Resting(spends, node, crashes, trouble, <<>>, db, c)
  BY <1>1, <1>2 DEF Stage, Fell
<1>4. /\ node \in Seq(Nat) /\ Len(node) \in Nat /\ \A h \in 1..Len(node) : node[h] \in 1..Len(spends)
  BY <1>1 DEF NodeOk
<1>5. c \in Seq(Nat) /\ Len(c) = m /\ \A h \in 1..m : c[h] = node[h]
  BY <1>3, <1>4, FirstBlocks
<1>6. m <= Len(node) /\ m <= Len(c) /\ \A h \in 1..m : h \in 1..Len(node)
  BY <1>3, <1>4, <1>5
<1>7. Agree(c, node, Len(c)) /\ \A h \in 1..Len(c) : c[h] \in 1..Len(spends)
  BY <1>4, <1>5, <1>6 DEF Agree
<1>8. AtOk(spends, node, trouble, c, savepoints)
  BY <1>3, <1>5, <1>7, AtFresh
<1>9. Stage(spends, node, crashes, trouble, mode', c, todo, savepoints, db)
  BY <1>2, <1>3 DEF Stage
<1> QED BY <1>1, <1>2, <1>8, <1>9 DEF Inv

----------------------------------------------------------------------------
(* The theorems. *)

LEMMA NextInv ==
  ASSUME Inv, [Next]_vars
  PROVE  Inv'
<1>1. CASE Mine
  BY <1>1, MineInv
<1>2. CASE NodeReorg
  BY <1>2, NodeReorgInv
<1>3. CASE Apply
  BY <1>3, ApplyInv
<1>4. CASE MissingPrevout
  BY <1>4, MissingPrevoutInv
<1>5. CASE Write
  BY <1>5, WriteInv
<1>6. CASE RestoreBlock
  <2>1. /\ mode # "down" /\ todo = <<>> /\ UndoLast
        /\ UNCHANGED <<node, spends, trouble, mode, db, crashes, starts>>
    BY <1>6 DEF RestoreBlock, AtRest
  <2> QED BY <2>1, UndoLastInv
<1>7. CASE RestoreAll
  <2>1. /\ mode # "down" /\ todo = <<>> /\ UndoLast
        /\ UNCHANGED <<node, spends, trouble, mode, db, crashes, starts>>
    BY <1>7 DEF RestoreAll
  <2> QED BY <2>1, UndoLastInv
<1>8. CASE Signal
  BY <1>8, SignalInv
<1>9. CASE Exit
  BY <1>9, ExitInv
<1>10. CASE Crash
  BY <1>10, CrashInv
<1>11. CASE Start
  BY <1>11, StartInv
<1>12. CASE UNCHANGED vars
  BY <1>12 DEF Inv, vars
<1>13. CASE Terminated \/ Waiting
  BY <1>12, <1>13 DEF Terminated, Waiting
<1> QED BY <1>1, <1>2, <1>3, <1>4, <1>5, <1>6, <1>7, <1>8, <1>9, <1>10, <1>11, <1>12, <1>13 DEF Next

LEMMA SpecInv == Spec => []Inv
<1>1. Init => Inv
  BY InitInv
<1>2. Inv /\ [Next]_vars => Inv'
  BY NextInv
<1> QED BY <1>1, <1>2, PTL DEF Spec

LEMMA RestsAt ==
  ASSUME Inv, AtRest, crashes = 0
  PROVE  /\ RowsAre(spends, db, at) /\ Kept(spends, db, at) /\ db["last_block"] = LastOf(Len(at))
<1>1. Resting(spends, node, crashes, trouble, savepoints, db, at)
  BY DEF Inv, Stage, AtRest
<1>2. Rest(spends, crashes, trouble, db, at)
  BY <1>1 DEF Resting
<1> QED BY <1>2 DEF Rest

\* A block is applied on tables that hold every block below it, and nothing else:
\* wherever the process was killed before (InscriptionIndexer::handle).
THEOREM AppliesOnParentHolds == Spec => AppliesOnParent
<1>1. Inv /\ Apply => \A t \in RowNames : db[t] = RowsOf(at)
  <2> SUFFICES ASSUME Inv, Apply, NEW t \in RowNames PROVE db[t] = RowsOf(at)
    OBVIOUS
  <2>1. Rest(spends, crashes, trouble, db, at)
    BY ApplyAtRest
  <2>2. t \in RowSet
    BY RowNamesAre
  <2>3. db[t] = RowsIn(spends, at)
    BY <2>1, <2>2 DEF Rest, RowsAre
  <2> QED BY <2>3, RowsOfIs
<1>2. Inv /\ [Next]_vars => [Apply => \A t \in RowNames : db[t] = RowsOf(at)]_vars
  BY <1>1
<1> QED BY <1>2, SpecInv, PTL DEF Spec, AppliesOnParent

\* Without kills, the tables at rest are those of the chain the process is at, whatever
\* was applied and undone before (ProcessedData::write, ReorgCache::restore).
THEOREM TablesMatch == Spec => []TablesMatchTip
<1>1. Inv => TablesMatchTip
  <2> SUFFICES ASSUME Inv, AtRest, crashes = 0
      PROVE  /\ \A t \in RowNames : db[t] = RowsOf(at)
             /\ Unspent(at) \subseteq db.prevouts
             /\ db.last_block = (IF Len(at) < StartHeight THEN 0 ELSE Len(at))
             /\ db.block_info = [h \in Heights |->
                                   IF h \in StartHeight..Len(at) THEN at[h] ELSE Missing]
    BY DEF TablesMatchTip
  <2>1. RowsAre(spends, db, at) /\ Kept(spends, db, at) /\ db["last_block"] = LastOf(Len(at))
    BY RestsAt
  <2>2. ASSUME NEW t \in RowNames PROVE db[t] = RowsOf(at)
    <3>1. db[t] = RowsIn(spends, at)
      BY <2>1, RowNamesAre DEF RowsAre
    <3> QED BY <3>1, RowsOfIs
  <2>3. ASSUME NEW o \in Unspent(at) PROVE o \in db["prevouts"]
    <3>1. DOMAIN at = 1..Len(at)
      BY DEF Inv, AtOk
    <3> PICK h \in 1..Len(at) : o = at[h]
      BY <3>1 DEF Unspent
    <3>2. \A j \in 1..Len(at) : o \notin spends[at[j]]
      BY <3>1 DEF Unspent
    <3> QED BY <2>1, <3>2 DEF Kept
  <2>4. db.last_block = (IF Len(at) < StartHeight THEN 0 ELSE Len(at))
    BY <2>1 DEF LastOf
  <2>5. db.block_info = [h \in Heights |-> IF h \in StartHeight..Len(at) THEN at[h] ELSE Missing]
    BY <2>1 DEF Kept
  <2> QED BY <2>2, <2>3, <2>4, <2>5
<1> QED BY <1>1, SpecInv, PTL

\* Without kills, the proof of a height is that of the chain the process is at, although
\* a rollback leaves the proofs of the undone blocks behind (generate_history_hash).
THEOREM ProofsChain == Spec => []ProofChained
<1>1. Inv => ProofChained
  <2> SUFFICES ASSUME Inv, AtRest, crashes = 0, NEW h \in StartHeight..Len(at)
      PROVE  db.proof_of_history[h] = SubSeq(at, StartHeight, h)
    BY DEF ProofChained
  <2>1. Kept(spends, db, at)
    BY RestsAt
  <2> QED BY <2>1 DEF Kept
<1> QED BY <1>1, SpecInv, PTL

LEMMA InvWritten ==
  ASSUME Inv
  PROVE  LastWritten(spends, db, at)
<1>1. /\ NodeOk(spends, node, crashes, trouble) /\ AtOk(spends, node, trouble, at, savepoints)
      /\ Stage(spends, node, crashes, trouble, mode, at, todo, savepoints, db)
  BY DEF Inv
<1>2. at \in Seq(Nat) /\ Len(at) \in Nat /\ node \in Seq(Nat) /\ Len(node) \in Nat
  BY <1>1 DEF AtOk, NodeOk
<1>3. ASSUME NEW c \in Seq(Nat), Resting(spends, node, crashes, trouble, savepoints, db, c)
      PROVE  Reaches(spends, db, c) /\ db["last_block"] \in Nat
  <2>1. CASE Rest(spends, crashes, trouble, db, c)
    BY <2>1, RestReaches
  <2>2. CASE Damaged(spends, node, db, c)
    BY <2>2 DEF Damaged
  <2> QED BY <1>3, <2>1, <2>2 DEF Resting
<1> PICK m : m = db["last_block"]
  OBVIOUS
<1> PICK n : n = IF m < Len(at) THEN m ELSE Len(at)
  OBVIOUS
<1>4. ASSUME mode # "down", todo = <<>> PROVE LastWritten(spends, db, at)
  <2>1. Reaches(spends, db, at) /\ m \in Nat
    BY <1>1, <1>2, <1>3, <1>4 DEF Stage
  <2>2. n \in Nat /\ n <= Len(at)
    BY <1>2, <2>1
  <2> QED BY <1>2, <2>1, <2>2, Written
<1>5. ASSUME mode = "down" PROVE LastWritten(spends, db, at)
  <2> PICK c : c = SubSeq(node, 1, m)
    OBVIOUS
  <2>1. savepoints = <<>> /\ m \in 0..Len(node) /\ Resting(spends, node, crashes, trouble, savepoints, db, c)
    BY <1>1, <1>5 DEF Stage, Fell
  <2>2. c \in Seq(Nat) /\ Len(c) = m /\ \A h \in 1..m : c[h] = node[h]
    BY <1>2, <2>1, FirstBlocks
  <2>3. Reaches(spends, db, c) /\ m \in Nat
    BY <1>3, <2>1, <2>2
  <2>4. Agree(at, node, Len(at))
    <3>1. Agree(at, node, Len(at) - Len(savepoints))
      BY <1>1 DEF AtOk
    <3>2. Len(at) - Len(savepoints) = Len(at)
      BY <1>2, <2>1
    <3> QED BY <3>1, <3>2
  <2>5. n \in Nat /\ n <= Len(at) /\ n <= m
    BY <1>2, <2>3
  <2>6. \A h \in 1..n : h \in 1..m /\ h \in 1..Len(at)
    BY <1>2, <2>3, <2>5
  <2>7. \A h \in 1..n : at[h] = c[h]
    BY <2>2, <2>4, <2>6 DEF Agree
  <2>8. n <= Len(c)
    BY <2>2, <2>5
  <2> QED BY <1>2, <2>2, <2>3, <2>5, <2>7, <2>8, Written
<1>6. ASSUME ApplyFlight(spends, crashes, trouble, at, todo, db) PROVE LastWritten(spends, db, at)
  <2> PICK d0, w, k, c, b :
        /\ c \in Seq(Nat) /\ b \in Nat /\ at = Append(c, b)
        /\ ApplyIs(w, d0, spends, b, Len(c) + 1) /\ Rest(spends, crashes, trouble, d0, c)
        /\ Left(todo, w, k) /\ Holds(db, d0, w, k)
    BY <1>6 DEF ApplyFlight
  <2> PICK h : h = Len(c) + 1
    OBVIOUS
  <2>1. h \in Nat /\ ApplyIs(w, d0, spends, b, h) /\ k \in 0..Len(w)
    BY DEF Left
  <2> QED BY <1>2, <2>1, ApplyWritten
<1>7. ASSUME UndoFlight(spends, node, crashes, trouble, at, todo, db) PROVE LastWritten(spends, db, at)
  <2> PICK d0, w, k, b, was :
        /\ b \in Nat
        /\ UndoIs(w, d0, spends, b, Len(at) + 1, was) /\ Rest(spends, crashes, trouble, d0, Append(at, b))
        /\ Left(todo, w, k) /\ Holds(db, d0, w, k)
        /\ \A t \in RowSet : was[t] = RowsIn(spends, at)
    BY <1>7 DEF UndoFlight
  <2> PICK h : h = Len(at) + 1
    OBVIOUS
  <2>1. h \in Nat /\ UndoIs(w, d0, spends, b, h, was) /\ k \in 0..Len(w)
    BY <1>2 DEF Left
  <2> QED BY <1>2, <2>1, UndoWritten
<1> QED BY <1>1, <1>4, <1>5, <1>6, <1>7 DEF Stage

\* last_block names a height only while every table has all the blocks up to it, so that
\* a start after a kill never skips a block (the order of the writes of handle and of
\* restore).
THEOREM LastBlockIsWritten == Spec => []LastBlockWritten
<1>1. Inv => LastBlockWritten
  <2> SUFFICES ASSUME Inv PROVE LastBlockWritten
    OBVIOUS
  <2> PICK c : c = SubSeq(at, 1, IF db["last_block"] < Len(at) THEN db["last_block"] ELSE Len(at))
    OBVIOUS
  <2>1. \A t \in RowSet : IsPrefix(RowsIn(spends, c), db[t])
    BY InvWritten DEF LastWritten
  <2>2. RowsOf(c) = RowsIn(spends, c)
    BY RowsOfIs
  <2>3. \A t \in RowNames : IsPrefix(RowsOf(c), db[t])
    BY <2>1, <2>2, RowNamesAre
  <2> QED BY <2>3 DEF LastBlockWritten
<1> QED BY <1>1, SpecInv, PTL

----------------------------------------------------------------------------
(* Requests: what they may rely on while blocks come and go. *)

IsOn(nd, b) == \E j \in 1..Len(nd) : nd[j] = b
OneHeight(c) == \A i, j \in 1..Len(c) : c[i] = c[j] => i = j

\* A block of the process that is on the node has the same blocks below it there.
SamePast(a, nd) ==
  \A h \in 1..Len(a) : IsOn(nd, a[h]) => h <= Len(nd) /\ \A i \in 1..h : nd[i] = a[i]

\* Block p was at height h.  If it is on the node, then at that height, the process has
\* no other block there, and neither has block_info.
Belongs(n, nd, a, info, p, h) ==
  /\ p \in Int /\ p <= n
  /\ IsOn(nd, p) => /\ h \in 1..Len(nd) /\ nd[h] = p
                    /\ h <= Len(a) => a[h] = p
                    /\ info[h] \in {p, Missing}

\* The blocks of block_info, and those that are just being undone.
InfoOk(nd, md, a, info, ps) ==
  \A h \in Heights : info[h] # Missing =>
    /\ info[h] \in ps
    /\ h <= Len(a) => info[h] = a[h]
    /\ h > Len(a) => /\ \A i \in 1..Len(a) : a[i] # info[h]
                     /\ md = "running" => ~IsOn(nd, info[h])

\* Block b was in block_info: it still is, or it is not going to be applied again.
Settled(nd, md, a, info, b) ==
  /\ \A h \in 1..Len(a) : a[h] = b => info[h] = b
  /\ IsOn(nd, b) => md = "stopping" \/ \E h \in 1..Len(a) : a[h] = b

ChainsOk ==
  /\ trouble = "reorg"
  /\ OneHeight(node) /\ OneHeight(at) /\ SamePast(at, node) /\ Len(at) <= Len(node)
  /\ \A h \in 1..Len(at) : at[h] \in past
  /\ past \subseteq 1..Len(spends)

ProofsOk(n, nd, a, info, proofs) ==
  /\ DOMAIN proofs = Heights
  /\ \A h \in Heights : proofs[h] # <<>> => Belongs(n, nd, a, info, Last(proofs[h]), h)

\* The last write of an undone block is one of prevouts.
Undoing(td) == td # <<>> /\ td[Len(td)].table = "prevouts"

TablesOk ==
  /\ db["last_block"] \in Heights
  /\ InfoOk(node, mode, at, db["block_info"], past)
  /\ ProofsOk(Len(spends), node, at, db["block_info"], db["proof_of_history"])
  /\ Undoing(todo) => Len(at) < Len(node)

HasBelonged(p, h) == Belongs(Len(spends), node, at, db["block_info"], p, h)

\* What a request knows before its next read.
Allowed(q, s, v) ==
  /\ DOMAIN v = DOMAIN Nothing
  /\ mode = "down" => q = "none"
  /\ q = "none" => s = "open"
  /\ q = "status" /\ s \in {"proof_of_history", "block_info"} => v.height \in Heights
  /\ q = "status" /\ s = "block_info" => v.proof # <<>> /\ HasBelonged(Last(v.proof), v.height)
  /\ q = "history" /\ s = "created" => HasBelonged(v.rows[1], v.height)
  /\ q = "proof" /\ s = "compare" => v.height \in Heights \ {0}
  /\ q = "proof" /\ s = "transfers" => v.best \in past /\ Settled(node, mode, at, db["block_info"], v.best)

RequestOk == Allowed(query, step, seen) /\ AnswersOneBlock /\ ProofCurrent

\* As long as no block has been begun, what a request reads is there.
Unmoved ==
  query # "none" /\ ~moved =>
    /\ todo = <<>> /\ db["last_block"] # 0 /\ step # "failed"
    /\ query = "status" /\ step \in {"proof_of_history", "block_info"} => seen.height = db["last_block"]
    /\ query = "proof" /\ step = "compare" => seen.height = db["last_block"]
    /\ query = "history" /\ step = "created" => db["block_info"][seen.height] # Missing

RInv == Inv /\ ChainsOk /\ TablesOk /\ RequestOk /\ Unmoved

----------------------------------------------------------------------------
(* The node changes above its old blocks. *)

\* Among the first n blocks, od has none that nd does not have, at the same height.
Keeps(nd, od, n) ==
  /\ Len(nd) <= Len(od)
  /\ \A j \in 1..Len(od) : od[j] <= n => j <= Len(nd) /\ \A i \in 1..j : od[i] = nd[i]

LEMMA KeepsSelf == ASSUME NEW nd, Len(nd) \in Nat, NEW n PROVE Keeps(nd, nd, n)
BY DEF Keeps

LEMMA NodeShape ==
  ASSUME NEW nd \in Seq(Nat), NEW od \in Seq(Nat), NEW n \in Nat, NEW m \in Nat, NEW k, k = Len(nd),
         NEW l, l = Len(od), m <= k, k <= l, \A i \in 1..m : od[i] = nd[i],
         \A i \in 1..l : i <= m \/ od[i] = n + (i - m),
         \A h \in 1..k : nd[h] \in 1..n, OneHeight(nd)
  PROVE  Keeps(nd, od, n) /\ OneHeight(od)
<1>1. k \in Nat /\ l \in Nat /\ m <= k /\ k <= l /\ m \in Nat /\ n \in Nat
  OBVIOUS
<1>2. ASSUME NEW j \in 1..l, od[j] <= n
      PROVE  j \in 1..m
  <2>1. j <= m \/ od[j] = n + (j - m)
    OBVIOUS
  <2> PICK x : x = od[j]
    OBVIOUS
  <2>2. x <= n /\ (j <= m \/ x = n + (j - m)) /\ j \in 1..l
    BY <1>2, <2>1
  <2> QED BY ONLY <1>1, <2>2
<1>3. \A j \in 1..m : j \in 1..k /\ j <= k /\ \A i \in 1..j : i \in 1..m
  BY ONLY <1>1
<1>4. ASSUME NEW j \in 1..l, od[j] <= n
      PROVE  j <= k /\ \A i \in 1..j : od[i] = nd[i]
  <2>1. j \in 1..m
    BY <1>2, <1>4
  <2> QED BY <1>3, <2>1
<1>5. Keeps(nd, od, n)
  BY <1>1, <1>4 DEF Keeps
<1>6. ASSUME NEW i \in 1..l, NEW j \in 1..l, od[i] = od[j]
      PROVE  i = j
  <2>1. CASE i \in 1..m
    <3>1. od[i] = nd[i] /\ i \in 1..k /\ nd[i] \in 1..n
      BY <1>3, <2>1
    <3> PICK x : x = od[j]
      OBVIOUS
    <3>2. x <= n
      BY <1>6, <3>1
    <3>3. j \in 1..m
      BY <1>2, <3>2
    <3>4. od[j] = nd[j] /\ j \in 1..k
      BY <1>3, <3>3
    <3> QED BY <1>6, <3>1, <3>4 DEF OneHeight
  <2>2. CASE j \in 1..m
    <3>1. od[j] = nd[j] /\ j \in 1..k /\ nd[j] \in 1..n
      BY <1>3, <2>2
    <3> PICK x : x = od[i]
      OBVIOUS
    <3>2. x <= n
      BY <1>6, <3>1
    <3>3. i \in 1..m
      BY <1>2, <3>2
    <3>4. od[i] = nd[i] /\ i \in 1..k
      BY <1>3, <3>3
    <3> QED BY <1>6, <3>1, <3>4 DEF OneHeight
  <2>3. CASE i \notin 1..m /\ j \notin 1..m
    <3>1. ~(i <= m) /\ ~(j <= m)
      BY <1>1, <2>3
    <3>2. od[i] = n + (i - m) /\ od[j] = n + (j - m)
      BY <3>1
    <3>3. i \in Int /\ j \in Int
      OBVIOUS
    <3>4. n + (i - m) = n + (j - m)
      BY <1>6, <3>2
    <3> QED BY ONLY <1>1, <3>3, <3>4
  <2> QED BY <2>1, <2>2, <2>3
<1> QED BY <1>5, <1>6 DEF OneHeight

\* The blocks of the node, and of the process.
ChainsTyped ==
  /\ node \in Seq(Nat) /\ at \in Seq(Nat) /\ Len(node) \in Nat /\ Len(at) \in Nat
  /\ Len(spends) \in Nat /\ Len(node) <= MaxBlocks
  /\ \A h \in 1..Len(node) : node[h] \in 1..Len(spends)
  /\ \A h \in 1..Len(at) : at[h] \in 1..Len(spends)

LEMMA ChainFacts == Inv => ChainsTyped
<1> SUFFICES ASSUME Inv PROVE ChainsTyped
  OBVIOUS
<1>1. NodeOk(spends, node, crashes, trouble) /\ AtOk(spends, node, trouble, at, savepoints)
  BY DEF Inv
<1>2. /\ node \in Seq(Nat) /\ spends \in Seq(SUBSET Nat) /\ at \in Seq(Nat)
      /\ Len(node) <= Len(spends) /\ Len(spends) <= MaxBlocks
  BY <1>1 DEF NodeOk, AtOk
<1>3. MaxBlocks \in Nat
  OBVIOUS
<1>4. Len(node) <= MaxBlocks
  <2> PICK x, y : x = Len(node) /\ y = Len(spends)
    OBVIOUS
  <2>1. x \in Nat /\ y \in Nat /\ x <= y /\ y <= MaxBlocks
    BY <1>2
  <2> QED BY ONLY <1>3, <2>1, x = Len(node)
<1> QED BY <1>1, <1>2, <1>4 DEF NodeOk, AtOk, ChainsTyped

LEMMA ChainFactsNext == Inv' => ChainsTyped'
<1>1. (Inv => ChainsTyped)'
  BY ChainFacts, PTL
<1> QED BY <1>1

LEMMA NodeKeeps ==
  ASSUME Inv, OneHeight(node), Mine \/ NodeReorg
  PROVE  /\ Keeps(node, node', Len(spends)) /\ OneHeight(node') /\ node' \in Seq(Nat)
         /\ Len(spends') \in Nat /\ Len(spends) <= Len(spends')
<1> PICK n, k : n = Len(spends) /\ k = Len(node)
  OBVIOUS
<1>1. /\ node \in Seq(Nat) /\ n \in Nat /\ k \in Nat /\ \A h \in 1..k : node[h] \in 1..n
      /\ spends \in Seq(SUBSET Nat)
  BY ChainFacts DEF Inv, NodeOk, ChainsTyped
<1>2. NodeOk(spends', node', crashes', trouble')
  BY MineInv, NodeReorgInv DEF Inv
<1>3. node' \in Seq(Nat) /\ spends' \in Seq(SUBSET Nat)
  BY <1>2 DEF NodeOk
<1> PICK nn, sn : nn = node' /\ sn = spends'
  OBVIOUS
<1>4. CASE Mine
  <2> PICK b : b = n + 1
    OBVIOUS
  <2>1. node' = Append(node, b)
    BY <1>4 DEF Mine, NewBlock
  <2>2. \E s \in SpendsOf(node, b) : spends' = Append(spends, s)
    BY <1>4 DEF Mine, NewBlock
  <2> PICK s : spends' = Append(spends, s)
    BY <2>2
  <2>3. b \in Nat /\ nn = Append(node, b)
    BY <1>1, <2>1
  <2>4. Len(nn) = k + 1 /\ nn[k + 1] = b /\ \A i \in 1..k : nn[i] = node[i]
    BY <1>1, <2>3
  <2>5. \A i \in 1..k + 1 : i <= k \/ i = k + 1
    BY <1>1
  <2>6. \A i \in 1..k + 1 : i <= k \/ nn[i] = n + (i - k)
    <3>1. n + ((k + 1) - k) = b
      BY <1>1
    <3> QED BY <2>4, <2>5, <3>1
  <2>7. k <= k + 1 /\ k <= k
    BY <1>1
  <2> PICK l : l = k + 1
    OBVIOUS
  <2>8. Keeps(node, nn, n) /\ OneHeight(nn)
    <3>1. nn \in Seq(Nat) /\ l = Len(nn) /\ k <= l /\ \A i \in 1..l : i <= k \/ nn[i] = n + (i - k)
      BY <1>3, <2>4, <2>6, <2>7
    <3>2. OneHeight(node) /\ k = Len(node) /\ k <= k /\ \A i \in 1..k : nn[i] = node[i]
      BY <2>4, <2>7
    <3> QED BY ONLY <1>1, <3>1, <3>2, NodeShape
  <2>9. Len(spends') = n + 1
    BY <1>1
  <2> QED BY <1>1, <1>3, <2>8, <2>9
<1>5. CASE NodeReorg
  <2> PICK b, c, base, m : b = n + 1 /\ c = n + 2 /\ base = Front(node) /\ m = k - 1
    OBVIOUS
  <2>1. /\ node' = base \o <<b, b + 1>>
        /\ \E s \in SpendsOf(base, b) : \E t \in {{}} \cup {{o} : o \in {b} \ s} : spends' = spends \o <<s, t>>
    BY <1>5 DEF NodeReorg
  <2> PICK s, t : spends' = spends \o <<s, t>>
    BY <2>1
  <2>2. k >= 1 /\ m \in Nat /\ k = m + 1
    <3>1. InitLen <= k /\ InitLen >= StartHeight + MaxLen /\ InitLen \in Nat /\ StartHeight \in Nat \ {0} /\ MaxLen \in Nat
      BY DEF Inv, NodeOk
    <3> QED BY ONLY <1>1, <3>1, m = k - 1
  <2>3. base \in Seq(Nat) /\ Len(base) = m /\ \A i \in 1..m : base[i] = node[i]
    BY <1>1, <2>2, FrontIs
  <2>4. b \in Nat /\ c \in Nat /\ nn = base \o <<b, c>>
    <3>1. b + 1 = c
      BY <1>1
    <3> QED BY <1>1, <2>1, <3>1
  <2>5. Len(nn) = m + 2 /\ nn[m + 1] = b /\ nn[m + 2] = c /\ \A i \in 1..m : nn[i] = base[i]
    <3>1. b \in Nat /\ c \in Nat /\ m \in Nat /\ m = Len(base) /\ base \in Seq(Nat)
      BY <2>2, <2>3, <2>4
    <3> QED BY ONLY <2>4, <3>1, PairAdded
  <2> PICK l : l = m + 2
    OBVIOUS
  <2>6. \A i \in 1..l : i <= m \/ nn[i] = n + (i - m)
    <3>1. \A i \in 1..m + 2 : i <= m \/ i = m + 1 \/ i = m + 2
      BY <2>2
    <3>2. n + ((m + 1) - m) = b /\ n + ((m + 2) - m) = c
      BY <1>1, <2>2
    <3> QED BY <2>5, <3>1, <3>2
  <2>7. Keeps(node, nn, n) /\ OneHeight(nn)
    <3>1. nn \in Seq(Nat) /\ l = Len(nn) /\ k <= l /\ m <= k /\ m \in Nat
      BY <1>3, <2>2, <2>5
    <3>2. OneHeight(node) /\ k = Len(node) /\ \A i \in 1..m : nn[i] = node[i]
      BY <2>3, <2>5
    <3> QED BY ONLY <1>1, <2>6, <3>1, <3>2, NodeShape
  <2>8. Len(spends') = n + 2
    <3>1. Len(<<s, t>>) = 2
      OBVIOUS
    <3> QED BY <1>1, <3>1
  <2> QED BY <1>1, <1>3, <2>7, <2>8
<1> QED BY <1>4, <1>5

----------------------------------------------------------------------------
(* What was true of a block stays true. *)

LEMMA OnKept ==
  ASSUME NEW nd, NEW od, NEW n \in Nat, Keeps(nd, od, n), NEW b \in Int, b <= n, IsOn(od, b)
  PROVE  IsOn(nd, b)
<1> PICK j \in 1..Len(od) : od[j] = b
  BY DEF IsOn
<1>1. j <= Len(nd) /\ od[j] = nd[j]
  <2>1. od[j] <= n
    OBVIOUS
  <2>2. j <= Len(nd) /\ \A i \in 1..j : od[i] = nd[i]
    BY <2>1 DEF Keeps
  <2>3. j \in 1..j
    OBVIOUS
  <2> QED BY <2>2, <2>3
<1>2. j \in 1..Len(nd)
  BY <1>1
<1> QED BY <1>1, <1>2 DEF IsOn

LEMMA BelongsKept ==
  ASSUME NEW n \in Nat, NEW k \in Nat, n <= k, NEW nd, NEW od, Len(nd) \in Nat, Len(od) \in Nat,
         Keeps(nd, od, n), OneHeight(nd), NEW a, NEW c, NEW info, NEW jnfo, NEW p, NEW h,
         Belongs(n, nd, a, info, p, h),
         h \in 1..Len(od) =>
           /\ h <= Len(c) => (h <= Len(a) /\ c[h] = a[h]) \/ c[h] = od[h]
           /\ jnfo[h] \in {info[h], Missing} \/ (h <= Len(a) /\ jnfo[h] = a[h])
  PROVE  Belongs(k, od, c, jnfo, p, h)
<1>1. p \in Int /\ p <= n /\ p <= k
  <2>1. p \in Int /\ p <= n
    BY DEF Belongs
  <2> QED BY ONLY <2>1, n \in Nat, k \in Nat, n <= k
<1>2. ASSUME IsOn(od, p)
      PROVE  /\ h \in 1..Len(od) /\ od[h] = p
             /\ h <= Len(c) => c[h] = p
             /\ jnfo[h] \in {p, Missing}
  <2> PICK j \in 1..Len(od) : od[j] = p
    BY <1>2 DEF IsOn
  <2>1. j <= Len(nd) /\ nd[j] = p
    <3>1. od[j] <= n
      BY <1>1
    <3>2. j <= Len(nd) /\ \A i \in 1..j : od[i] = nd[i]
      BY <3>1 DEF Keeps
    <3>3. j \in 1..j
      OBVIOUS
    <3> QED BY <3>2, <3>3
  <2>2. j \in 1..Len(nd)
    BY <2>1
  <2>3. IsOn(nd, p)
    BY <2>1, <2>2 DEF IsOn
  <2>4. h \in 1..Len(nd) /\ nd[h] = p /\ (h <= Len(a) => a[h] = p) /\ info[h] \in {p, Missing}
    BY <2>3 DEF Belongs
  <2>5. h = j
    BY <2>1, <2>2, <2>4 DEF OneHeight
  <2> QED BY <2>4, <2>5
<1> QED BY <1>1, <1>2 DEF Belongs

LEMMA SamePastKept ==
  ASSUME NEW n \in Nat, NEW nd, NEW od, Len(nd) \in Nat, Len(od) \in Nat, Keeps(nd, od, n), OneHeight(nd),
         NEW a, \A h \in 1..Len(a) : a[h] \in 1..n, SamePast(a, nd)
  PROVE  SamePast(a, od)
<1> SUFFICES ASSUME NEW h \in 1..Len(a), IsOn(od, a[h])
             PROVE  h <= Len(od) /\ \A i \in 1..h : od[i] = a[i]
  BY DEF SamePast
<1> PICK j \in 1..Len(od) : od[j] = a[h]
  BY DEF IsOn
<1>1. j <= Len(nd) /\ \A i \in 1..j : od[i] = nd[i]
  <2>1. od[j] <= n
    OBVIOUS
  <2> QED BY <2>1 DEF Keeps
<1>2. j \in 1..Len(nd) /\ j \in 1..j
  BY <1>1
<1>3. IsOn(nd, a[h]) /\ nd[j] = a[h]
  BY <1>1, <1>2 DEF IsOn
<1>4. h <= Len(nd) /\ \A i \in 1..h : nd[i] = a[i]
  BY <1>3 DEF SamePast
<1>5. h \in 1..Len(nd) /\ h \in 1..h
  BY <1>4
<1>6. h = j
  BY <1>2, <1>3, <1>4, <1>5 DEF OneHeight
<1> QED BY <1>1, <1>4, <1>6

\* A step of the node or of the indexer, in what blocks are where.
Carries ==
  /\ Keeps(node, node', Len(spends)) /\ Len(spends) <= Len(spends')
  /\ \A h \in 1..Len(at') : (h <= Len(at) /\ at'[h] = at[h]) \/ at'[h] = node'[h]
  /\ \A h \in Heights : \/ db'["block_info"][h] \in {db["block_info"][h], Missing}
                        \/ h <= Len(at) /\ db'["block_info"][h] = at[h]

LEMMA HasBelongedKept ==
  ASSUME Inv, Inv', ChainsOk, Carries, NEW p, NEW h, HasBelonged(p, h)
  PROVE  Belongs(Len(spends'), node', at', db'["block_info"], p, h)
<1> PICK n, k, nd, od, a, c : n = Len(spends) /\ k = Len(spends') /\ nd = node /\ od = node' /\ a = at /\ c = at'
  OBVIOUS
<1> PICK info, jnfo : info = db["block_info"] /\ jnfo = db'["block_info"]
  OBVIOUS
<1>1. n \in Nat /\ Len(nd) \in Nat /\ Len(a) \in Nat
  BY ChainFacts DEF ChainsTyped
<1>2. k \in Nat /\ Len(od) \in Nat /\ Len(c) \in Nat /\ Len(od) <= MaxBlocks
  BY ChainFactsNext DEF ChainsTyped
<1>3. /\ n <= k /\ Keeps(nd, od, n) /\ OneHeight(nd) /\ Belongs(n, nd, a, info, p, h)
  BY DEF Carries, ChainsOk, HasBelonged
<1>4. h \in 1..Len(od) => h \in Heights
  <2>1. MaxBlocks \in Nat
    BY WriteAssumption
  <2> QED BY <1>2, <2>1 DEF Heights
<1>5. ASSUME h \in 1..Len(od)
      PROVE  /\ h <= Len(c) => (h <= Len(a) /\ c[h] = a[h]) \/ c[h] = od[h]
             /\ jnfo[h] \in {info[h], Missing} \/ (h <= Len(a) /\ jnfo[h] = a[h])
  <2>1. h <= Len(c) => h \in 1..Len(c)
    BY <1>2, <1>5
  <2> QED BY <1>4, <1>5, <2>1 DEF Carries
<1>6. Belongs(k, od, c, jnfo, p, h)
  BY ONLY <1>1, <1>2, <1>3, <1>5, BelongsKept
<1> QED BY <1>6

LEMMA ProofsKept ==
  ASSUME Inv, Inv', ChainsOk, TablesOk, Carries, db'["proof_of_history"] = db["proof_of_history"]
  PROVE  ProofsOk(Len(spends'), node', at', db'["block_info"], db'["proof_of_history"])
<1> PICK f : f = db["proof_of_history"]
  OBVIOUS
<1>1. DOMAIN f = Heights
  BY DEF TablesOk, ProofsOk
<1>2. ASSUME NEW h \in Heights, f[h] # <<>>
      PROVE  Belongs(Len(spends'), node', at', db'["block_info"], Last(f[h]), h)
  <2> PICK p : p = Last(f[h])
    OBVIOUS
  <2>1. HasBelonged(p, h)
    BY <1>2 DEF TablesOk, ProofsOk, HasBelonged
  <2>2. Belongs(Len(spends'), node', at', db'["block_info"], p, h)
    BY <2>1, HasBelongedKept
  <2> QED BY <2>2
<1> QED BY <1>1, <1>2 DEF ProofsOk

\* Tables at rest.
LEMMA Quiet ==
  ASSUME Inv, trouble = "reorg"
  PROVE  /\ mode # "down" /\ todo = <<>> => Rest(spends, 0, trouble, db, at)
         /\ mode = "down" => /\ todo = <<>> /\ db["last_block"] \in 0..Len(node)
                             /\ Rest(spends, 0, trouble, db, SubSeq(node, 1, db["last_block"]))
<1>1. /\ Stage(spends, node, crashes, trouble, mode, at, todo, savepoints, db)
      /\ crashes = 0
  BY DEF Inv, NodeOk
<1> QED BY <1>1 DEF Stage, Fell, Resting

LEMMA RestInfo ==
  ASSUME NEW sp, NEW tr, NEW d, NEW c, Len(c) \in Nat, Rest(sp, 0, tr, d, c), NEW h \in Heights
  PROVE  /\ d["block_info"][h] # Missing => h \in StartHeight..Len(c) /\ d["block_info"][h] = c[h]
         /\ h \in StartHeight..Len(c) => d["block_info"][h] = c[h]
<1>1. d["block_info"] = [i \in Heights |-> IF i \in StartHeight..Len(c) THEN c[i] ELSE Missing]
  BY DEF Rest, Kept
<1>2. d["block_info"][h] = IF h \in StartHeight..Len(c) THEN c[h] ELSE Missing
  BY <1>1
<1> QED BY <1>2

----------------------------------------------------------------------------
(* The steps that leave blocks and tables as they are. *)

Follows ==
  /\ ChainsOk' /\ TablesOk' /\ Carries
  /\ mode = "down" \/ mode' = "down" \/
     \A b \in past : Settled(node, mode, at, db["block_info"], b) =>
                     Settled(node', mode', at', db'["block_info"], b)

\* Every block of the process is in the past of the requests.
Remembers == past' = past \cup ToSet(at')

LEMMA SamePastBlocks ==
  ASSUME Inv, ChainsOk, Remembers, at' = at
  PROVE  past' = past
<1>1. DOMAIN at = 1..Len(at)
  BY ChainFacts DEF ChainsTyped
<1>2. \A h \in 1..Len(at) : at[h] \in past
  BY DEF ChainsOk
<1>3. ToSet(at) \subseteq past
  BY <1>1, <1>2 DEF ToSet
<1> QED BY <1>3 DEF Remembers

LEMMA StillFollows ==
  ASSUME Inv, Inv', ChainsOk, TablesOk, Remembers,
         UNCHANGED <<node, spends, trouble, at, todo, db>>, mode' \in {mode, "stopping", "down"}
  PROVE  Follows
<1>1. past' = past
  BY SamePastBlocks
<1>2. ChainsOk'
  BY <1>1 DEF ChainsOk
<1>3. Carries
  <2>1. Keeps(node, node, Len(spends)) /\ Len(spends) <= Len(spends)
    BY ChainFacts, KeepsSelf DEF ChainsTyped
  <2>2. ASSUME NEW h \in 1..Len(at') PROVE h <= Len(at) /\ at'[h] = at[h]
    BY ChainFacts DEF ChainsTyped
  <2> QED BY <2>1, <2>2 DEF Carries
<1>4. ProofsOk(Len(spends'), node', at', db'["block_info"], db'["proof_of_history"])
  BY <1>3, ProofsKept
<1>5. InfoOk(node', mode', at', db'["block_info"], past')
  <2>1. InfoOk(node, mode, at, db["block_info"], past)
    BY DEF TablesOk
  <2> QED BY <1>1, <2>1 DEF InfoOk
<1>6. TablesOk'
  BY <1>4, <1>5 DEF TablesOk
<1>7. ASSUME mode' # "down", NEW b \in past, Settled(node, mode, at, db["block_info"], b)
      PROVE  Settled(node', mode', at', db'["block_info"], b)
  BY <1>7 DEF Settled
<1> QED BY <1>2, <1>3, <1>6, <1>7 DEF Follows

LEMMA NodeFollows ==
  ASSUME Inv, Inv', ChainsOk, TablesOk, Remembers, Mine \/ NodeReorg
  PROVE  Follows
<1>1. UNCHANGED <<trouble, mode, at, todo, db>>
  BY DEF Mine, NodeReorg
<1>2. past' = past
  BY <1>1, SamePastBlocks
<1> PICK n, k : n = Len(spends) /\ k = Len(spends')
  OBVIOUS
<1>3. /\ Keeps(node, node', n) /\ OneHeight(node') /\ n \in Nat /\ k \in Nat /\ n <= k
      /\ Len(node) \in Nat /\ Len(node') \in Nat /\ Len(at) \in Nat
      /\ \A h \in 1..Len(at) : at[h] \in 1..n
  <2>1. OneHeight(node)
    BY DEF ChainsOk
  <2> QED BY <2>1, ChainFacts, ChainFactsNext, NodeKeeps DEF ChainsTyped
<1>4. \A b \in past : b \in Int /\ b <= n /\ b \in 1..k
  <2>1. past \subseteq 1..n
    BY DEF ChainsOk
  <2>2. \A x \in 1..n : x \in Int /\ x <= n /\ x \in 1..k
    BY ONLY <1>3
  <2> QED BY <2>1, <2>2
<1>5. ASSUME NEW b \in past, IsOn(node', b) PROVE IsOn(node, b)
  BY <1>3, <1>4, <1>5, OnKept
<1>6. ChainsOk'
  <2>1. SamePast(at, node')
    BY <1>3, SamePastKept DEF ChainsOk
  <2>2. Len(at) <= Len(node')
    <3>1. Len(at) <= Len(node) /\ Len(node) <= Len(node')
      BY <1>3 DEF ChainsOk, Keeps
    <3> PICK x, y, z : x = Len(at) /\ y = Len(node) /\ z = Len(node')
      OBVIOUS
    <3>2. x <= y /\ y <= z /\ x \in Nat /\ y \in Nat /\ z \in Nat
      BY <1>3, <3>1
    <3>3. x <= z
      BY ONLY <3>2
    <3> QED BY <3>3
  <2>3. OneHeight(at) /\ trouble = "reorg" /\ \A h \in 1..Len(at) : at[h] \in past
    BY DEF ChainsOk
  <2>4. past \subseteq 1..k
    BY <1>4
  <2> QED BY <1>1, <1>2, <1>3, <2>1, <2>2, <2>3, <2>4 DEF ChainsOk
<1>7. Carries
  <2>1. ASSUME NEW h \in 1..Len(at') PROVE h <= Len(at) /\ at'[h] = at[h]
    BY <1>1, <1>3
  <2> QED BY <1>1, <1>3, <2>1 DEF Carries
<1>8. ProofsOk(Len(spends'), node', at', db'["block_info"], db'["proof_of_history"])
  BY <1>1, <1>7, ProofsKept
<1>9. InfoOk(node', mode, at, db["block_info"], past)
  <2>1. InfoOk(node, mode, at, db["block_info"], past)
    BY DEF TablesOk
  <2> QED BY <1>5, <2>1 DEF InfoOk
<1>10. TablesOk'
  <2>1. Undoing(todo) => Len(at) < Len(node')
    <3>1. Undoing(todo) => Len(at) < Len(node)
      BY DEF TablesOk
    <3>2. Len(node) <= Len(node')
      BY <1>3 DEF Keeps
    <3> PICK x, y, z : x = Len(at) /\ y = Len(node) /\ z = Len(node')
      OBVIOUS
    <3>3. (Undoing(todo) => x < y) /\ y <= z /\ x \in Nat /\ y \in Nat /\ z \in Nat
      BY <1>3, <3>1, <3>2
    <3>4. Undoing(todo) => x < z
      BY ONLY <3>3
    <3> QED BY <3>4
  <2>2. db["last_block"] \in Heights
    BY DEF TablesOk
  <2> QED BY <1>1, <1>2, <1>8, <1>9, <2>1, <2>2 DEF TablesOk
<1>11. ASSUME NEW b \in past, Settled(node, mode, at, db["block_info"], b)
       PROVE  Settled(node', mode', at', db'["block_info"], b)
  BY <1>1, <1>5, <1>11 DEF Settled
<1> QED BY <1>6, <1>7, <1>10, <1>11 DEF Follows

LEMMA StartFollows ==
  ASSUME Inv, Inv', ChainsOk, TablesOk, Remembers, Start
  PROVE  Follows
<1> PICK m : m = db["last_block"]
  OBVIOUS
<1>1. mode = "down" /\ at' = SubSeq(node, 1, m) /\ UNCHANGED <<node, spends, trouble, todo, db>>
  BY DEF Start, Chain
<1>2. todo = <<>> /\ m \in 0..Len(node) /\ Rest(spends, 0, trouble, db, SubSeq(node, 1, m))
  BY <1>1, Quiet DEF ChainsOk
<1> PICK a : a = at'
  OBVIOUS
<1>3. a \in Seq(Nat) /\ Len(a) = m /\ (\A h \in 1..m : a[h] = node[h]) /\ DOMAIN a = 1..m
  BY <1>1, <1>2, ChainFacts, FirstBlocks DEF ChainsTyped
<1>4. m \in Nat /\ m <= Len(node) /\ Len(node) \in Nat /\ \A h \in 1..m : h \in 1..Len(node)
  BY <1>2, ChainFacts DEF ChainsTyped
<1>5. \A h \in 1..m : a[h] \in past' /\ a[h] \in 1..Len(spends)
  <2>1. ToSet(a) = {a[h] : h \in 1..m}
    BY <1>3 DEF ToSet
  <2>2. \A h \in 1..Len(node) : node[h] \in 1..Len(spends)
    BY ChainFacts DEF ChainsTyped
  <2>3. \A h \in 1..m : a[h] \in 1..Len(spends)
    BY <1>3, <1>4, <2>2
  <2> QED BY <2>1, <2>3 DEF Remembers
<1>6. past' \subseteq 1..Len(spends)
  <2>1. ToSet(a) = {a[h] : h \in 1..m}
    BY <1>3 DEF ToSet
  <2> QED BY <1>5, <2>1 DEF Remembers, ChainsOk
<1>7. OneHeight(a) /\ SamePast(a, node)
  <2>1. OneHeight(a)
    BY <1>3, <1>4 DEF OneHeight, ChainsOk
  <2>2. ASSUME NEW h \in 1..Len(a) PROVE h <= Len(node) /\ \A i \in 1..h : node[i] = a[i]
    <3>1. h \in 1..m /\ \A i \in 1..h : i \in 1..m
      BY <1>3, <1>4
    <3> QED BY <1>3, <1>4, <3>1
  <2> QED BY <2>1, <2>2 DEF SamePast
<1>8. ChainsOk'
  BY <1>1, <1>3, <1>4, <1>5, <1>6, <1>7 DEF ChainsOk
<1>9. Carries
  <2>1. Keeps(node, node, Len(spends)) /\ Len(spends) <= Len(spends)
    BY ChainFacts, KeepsSelf DEF ChainsTyped
  <2> QED BY <1>1, <1>3, <2>1 DEF Carries
<1>10. ProofsOk(Len(spends'), node', at', db'["block_info"], db'["proof_of_history"])
  BY <1>1, <1>9, ProofsKept
<1>11. InfoOk(node, mode', a, db["block_info"], past')
  <2>1. ASSUME NEW h \in Heights, db["block_info"][h] # Missing
        PROVE  /\ db["block_info"][h] \in past' /\ h <= Len(a) /\ db["block_info"][h] = a[h]
               /\ ~(h > Len(a))
    <3>1. Rest(spends, 0, trouble, db, a) /\ Len(a) \in Nat
      BY <1>1, <1>2, <1>3
    <3>2. h \in StartHeight..Len(a) /\ db["block_info"][h] = a[h]
      BY <2>1, <3>1, RestInfo
    <3>3. db["block_info"][h] \in past
      BY <2>1 DEF TablesOk, InfoOk
    <3> QED BY <3>1, <3>2, <3>3 DEF Remembers
  <2> QED BY <2>1 DEF InfoOk
<1>12. TablesOk'
  <2>1. db["last_block"] \in Heights
    BY DEF TablesOk
  <2>2. ~Undoing(todo)
    BY <1>2 DEF Undoing
  <2> QED BY <1>1, <1>10, <1>11, <2>1, <2>2 DEF TablesOk
<1> QED BY <1>1, <1>8, <1>9, <1>12 DEF Follows

----------------------------------------------------------------------------
(* The steps that take and undo a block. *)

LEMMA OnNodeIs ==
  ASSUME Inv
  PROVE  IsPrefix(at, node) <=> Len(at) <= Len(node) /\ \A i \in 1..Len(at) : at[i] = node[i]
<1>1. at \in Seq(Int) /\ node \in Seq(Int)
  BY ChainFacts DEF ChainsTyped
<1> QED BY <1>1, PrefixIs

LEMMA ApplyEnds ==
  ASSUME NEW w, NEW d, NEW sp, NEW b, NEW h \in Nat, ApplyIs(w, d, sp, b, h)
  PROVE  ~Undoing(w)
<1> PICK l : l = Len(w)
  OBVIOUS
<1>1. l \in Nat /\ l >= 3
  BY DEF ApplyIs
<1>2. l \in 1..l /\ l # 1 /\ l # 2
  BY <1>1
<1>3. w[l].table = "prevouts" => l = 1 \/ l = 2
  BY <1>2, ApplyTables
<1> QED BY <1>2, <1>3 DEF Undoing

LEMMA ApplyFollows ==
  ASSUME Inv, Inv', ChainsOk, TablesOk, Remembers, Apply
  PROVE  Follows
<1> PICK n, m, x, a : n = Len(at) /\ m = n + 1 /\ x = node[m] /\ a = at'
  OBVIOUS
<1>1. /\ mode = "running" /\ todo = <<>> /\ n < Len(node) /\ IsPrefix(at, node)
      /\ a = Append(at, x) /\ todo' = BlockWrites(x, m)
      /\ UNCHANGED <<node, spends, trouble, mode, db>>
  BY DEF Apply, AtRest, OnNode
<1>2. /\ at \in Seq(Nat) /\ node \in Seq(Nat) /\ n \in Nat /\ m \in Nat /\ Len(node) \in Nat
      /\ m <= Len(node) /\ m \in 1..Len(node) /\ x \in Nat /\ x \in 1..Len(spends)
      /\ \A h \in 1..m : h \in 1..Len(node)
  <2>1. at \in Seq(Nat) /\ node \in Seq(Nat) /\ n \in Nat /\ Len(node) \in Nat
    BY ChainFacts DEF ChainsTyped
  <2>2. m \in Nat /\ m <= Len(node) /\ m \in 1..Len(node) /\ \A h \in 1..m : h \in 1..Len(node)
    BY <1>1, <2>1
  <2> QED BY <2>1, <2>2, ChainFacts DEF ChainsTyped
<1>3. /\ a \in Seq(Nat) /\ Len(a) = m /\ DOMAIN a = 1..m /\ a[m] = x
      /\ \A h \in 1..n : a[h] = at[h] /\ h \in 1..m
      /\ \A h \in 1..m : h = m \/ h \in 1..n
  BY <1>1, <1>2, AppendIs
<1>4. \A h \in 1..m : a[h] = node[h]
  <2>1. \A h \in 1..n : at[h] = node[h]
    BY <1>1, OnNodeIs
  <2> QED BY <1>3, <2>1
<1>5. \A h \in 1..m : a[h] \in past' /\ a[h] \in 1..Len(spends)
  <2>1. ToSet(a) = {a[h] : h \in 1..m}
    BY <1>3 DEF ToSet
  <2>2. \A h \in 1..m : a[h] \in 1..Len(spends)
    BY <1>2, <1>4, ChainFacts DEF ChainsTyped
  <2> QED BY <2>1, <2>2 DEF Remembers
<1>6. past' \subseteq 1..Len(spends)
  <2>1. ToSet(a) = {a[h] : h \in 1..m}
    BY <1>3 DEF ToSet
  <2> QED BY <1>5, <2>1 DEF Remembers, ChainsOk
<1>7. OneHeight(a) /\ SamePast(a, node)
  <2>1. OneHeight(a)
    <3>1. ASSUME NEW i \in 1..m, NEW j \in 1..m, a[i] = a[j] PROVE i = j
      <4>1. node[i] = node[j] /\ i \in 1..Len(node) /\ j \in 1..Len(node)
        BY <1>2, <1>4, <3>1
      <4> QED BY <4>1 DEF OneHeight, ChainsOk
    <3> QED BY <1>3, <3>1 DEF OneHeight
  <2>2. ASSUME NEW h \in 1..Len(a) PROVE h <= Len(node) /\ \A i \in 1..h : node[i] = a[i]
    <3>1. h \in 1..m /\ \A i \in 1..h : i \in 1..m
      BY <1>2, <1>3
    <3>2. h <= Len(node)
      BY <1>2, <3>1
    <3> QED BY <1>4, <3>1, <3>2
  <2> QED BY <2>1, <2>2 DEF SamePast
<1>8. ChainsOk'
  BY <1>1, <1>2, <1>3, <1>5, <1>6, <1>7 DEF ChainsOk
<1>9. Carries
  <2>1. Keeps(node, node, Len(spends)) /\ Len(spends) <= Len(spends)
    BY ChainFacts, KeepsSelf DEF ChainsTyped
  <2> QED BY <1>1, <1>3, <1>4, <2>1 DEF Carries
<1>10. ProofsOk(Len(spends'), node', at', db'["block_info"], db'["proof_of_history"])
  BY <1>1, <1>9, ProofsKept
<1>11. InfoOk(node, mode', a, db["block_info"], past')
  <2>1. ASSUME NEW h \in Heights, db["block_info"][h] # Missing
        PROVE  /\ db["block_info"][h] \in past' /\ h <= Len(a) /\ db["block_info"][h] = a[h]
               /\ ~(h > Len(a))
    <3>1. Rest(spends, 0, trouble, db, at)
      BY <1>1, Quiet DEF ChainsOk
    <3>2. h \in StartHeight..Len(at) /\ db["block_info"][h] = at[h]
      <4>1. Len(at) \in Nat
        BY <1>2
      <4> QED BY <2>1, <3>1, <4>1, RestInfo
    <3>3. h \in 1..n /\ h <= m /\ ~(h > m)
      <4>1. StartHeight \in Nat \ {0}
        BY WriteAssumption
      <4>2. n \in Nat /\ m = n + 1 /\ Len(at) = n
        BY <1>1, <1>2
      <4> QED BY ONLY <3>2, <4>1, <4>2
    <3>4. db["block_info"][h] \in past
      BY <2>1 DEF TablesOk, InfoOk
    <3> QED BY <1>3, <3>2, <3>3, <3>4 DEF Remembers
  <2> QED BY <2>1 DEF InfoOk
<1>12. TablesOk'
  <2>1. db["last_block"] \in Heights
    BY DEF TablesOk
  <2>2. ~Undoing(todo')
    <3>1. ApplyIs(todo', db, spends, x, m)
      BY <1>1, <1>2, BlockWritesAre DEF Inv
    <3> QED BY <1>2, <3>1, ApplyEnds
  <2> QED BY <1>1, <1>10, <1>11, <2>1, <2>2 DEF TablesOk
<1>13. ASSUME NEW b \in past, Settled(node, mode, at, db["block_info"], b)
       PROVE  Settled(node', mode', at', db'["block_info"], b)
  <2>1. IsOn(node, b) => \E h \in 1..n : at[h] = b
    BY <1>1, <1>13 DEF Settled
  <2>2. ASSUME NEW h \in 1..m, a[h] = b PROVE h \in 1..n /\ at[h] = b
    <3>1. IsOn(node, b)
      BY <1>2, <1>4, <2>2 DEF IsOn
    <3> PICK g \in 1..n : at[g] = b
      BY <2>1, <3>1
    <3>2. a[g] = b /\ g \in 1..m
      BY <1>3
    <3>3. g = h
      BY <1>3, <1>7, <2>2, <3>2 DEF OneHeight
    <3> QED BY <3>3
  <2>3. IsOn(node, b) => \E h \in 1..m : a[h] = b
    BY <1>3, <2>1
  <2>4. \A h \in 1..n : at[h] = b => db["block_info"][h] = b
    BY <1>13 DEF Settled
  <2>5. \A h \in 1..m : a[h] = b => db["block_info"][h] = b
    BY <2>2, <2>4
  <2> QED BY <1>1, <1>3, <2>3, <2>5 DEF Settled
<1> QED BY <1>8, <1>9, <1>12, <1>13 DEF Follows

LEMMA UndoFollows ==
  ASSUME Inv, Inv', ChainsOk, TablesOk, Remembers, todo = <<>>, UndoLast,
         mode = "stopping" \/ (mode = "running" /\ ~OnNode),
         UNCHANGED <<node, spends, trouble, mode, db>>
  PROVE  Follows
<1> PICK n, m, a : n = Len(at) /\ m = n - 1 /\ a = at'
  OBVIOUS
<1>1. savepoints # <<>> /\ a = Front(at)
  BY DEF UndoLast
<1>2. /\ at \in Seq(Nat) /\ node \in Seq(Nat) /\ n \in Nat /\ Len(node) \in Nat /\ n <= Len(node)
      /\ \A h \in 1..n : at[h] \in 1..Len(spends) /\ at[h] \in past
  BY ChainFacts DEF ChainsTyped, ChainsOk
<1>3. n >= 1 /\ m \in Nat /\ n = m + 1
  <2>1. AtOk(spends, node, trouble, at, savepoints)
    BY DEF Inv
  <2> PICK k : k = Len(savepoints)
    OBVIOUS
  <2>2. k \in Nat /\ n - k >= StartHeight
    BY <1>1, <2>1 DEF AtOk, IsASeq
  <2>3. StartHeight \in Nat \ {0}
    BY WriteAssumption
  <2>4. n >= 1
    BY ONLY <1>2, <2>2, <2>3
  <2> QED BY <1>2, <2>4
<1>4. /\ a \in Seq(Nat) /\ Len(a) = m /\ DOMAIN a = 1..m
      /\ \A h \in 1..m : a[h] = at[h] /\ h \in 1..n
      /\ \A h \in 1..n : h = n \/ h \in 1..m
  <2>1. a \in Seq(Nat) /\ Len(a) = m /\ \A h \in 1..m : a[h] = at[h]
    <3>1. Front(at) \in Seq(Nat) /\ Len(Front(at)) = m /\ \A h \in 1..m : Front(at)[h] = at[h]
      <4>1. at \in Seq(Nat) /\ m \in Nat /\ Len(at) = m + 1
        BY <1>2, <1>3
      <4> QED BY ONLY <4>1, FrontIs
    <3> QED BY <1>1, <3>1
  <2>2. (\A h \in 1..m : h \in 1..n) /\ \A h \in 1..n : h = n \/ h \in 1..m
    BY <1>3
  <2> QED BY <2>1, <2>2
<1>5. past' = past
  <2>1. ToSet(a) = {a[h] : h \in 1..m}
    BY <1>4 DEF ToSet
  <2> QED BY <1>2, <1>4, <2>1 DEF Remembers
<1>6. OneHeight(a) /\ SamePast(a, node)
  <2>1. OneHeight(a)
    BY <1>4 DEF OneHeight, ChainsOk
  <2>2. ASSUME NEW h \in 1..Len(a), IsOn(node, a[h])
        PROVE  h <= Len(node) /\ \A i \in 1..h : node[i] = a[i]
    <3>1. h \in 1..m /\ \A i \in 1..h : i \in 1..m
      BY <1>3, <1>4
    <3>2. h <= Len(node) /\ \A i \in 1..h : node[i] = at[i]
      BY <1>4, <2>2, <3>1 DEF SamePast, ChainsOk
    <3> QED BY <1>4, <3>1, <3>2
  <2> QED BY <2>1, <2>2 DEF SamePast
<1>7. ChainsOk'
  <2>1. m <= Len(node)
    BY <1>2, <1>3
  <2> QED BY <1>2, <1>4, <1>5, <1>6, <2>1 DEF ChainsOk
<1>8. Carries
  <2>1. Keeps(node, node, Len(spends)) /\ Len(spends) <= Len(spends)
    BY ChainFacts, KeepsSelf DEF ChainsTyped
  <2>2. \A h \in 1..m : h <= n
    BY <1>3
  <2> QED BY <1>4, <2>1, <2>2 DEF Carries
<1>9. ProofsOk(Len(spends'), node', at', db'["block_info"], db'["proof_of_history"])
  BY <1>8, ProofsKept
\* A running process undoes a block that has left the node.
<1>10. ASSUME mode = "running" PROVE ~IsOn(node, at[n])
  <2>1. ASSUME IsOn(node, at[n]) PROVE FALSE
    <3>1. n \in 1..n /\ n \in 1..Len(at)
      BY <1>3
    <3>2. n <= Len(node) /\ \A i \in 1..n : node[i] = at[i]
      BY <2>1, <3>1 DEF SamePast, ChainsOk
    <3>3. IsPrefix(at, node)
      BY <3>2, OnNodeIs
    <3> QED BY <1>10, <3>3 DEF OnNode
  <2> QED BY <2>1
<1>11. InfoOk(node, mode, a, db["block_info"], past)
  <2>1. ASSUME NEW h \in Heights, db["block_info"][h] # Missing
        PROVE  /\ db["block_info"][h] \in past
               /\ h <= Len(a) => db["block_info"][h] = a[h]
               /\ h > Len(a) => /\ \A i \in 1..Len(a) : a[i] # db["block_info"][h]
                                /\ mode = "running" => ~IsOn(node, db["block_info"][h])
    <3>1. Rest(spends, 0, trouble, db, at)
      BY Quiet DEF ChainsOk
    <3>2. h \in StartHeight..Len(at) /\ db["block_info"][h] = at[h]
      <4>1. Len(at) \in Nat
        BY <1>2
      <4> QED BY <2>1, <3>1, <4>1, RestInfo
    <3>3. h \in 1..n
      <4>1. StartHeight \in Nat \ {0}
        BY WriteAssumption
      <4> QED BY <1>2, <3>2, <4>1
    <3>4. CASE h \in 1..m
      <4>1. ~(h > m)
        BY <1>3, <3>4
      <4> QED BY <1>2, <1>4, <3>2, <3>3, <3>4, <4>1
    <3>5. CASE h = n
      <4>1. ASSUME NEW i \in 1..m PROVE a[i] # at[n]
        <5>1. i # n /\ i \in 1..n /\ n \in 1..n /\ n = Len(at) /\ a[i] = at[i]
          <6>1. n = m + 1 /\ m \in Nat /\ n = Len(at)
            BY <1>2, <1>3
          <6>2. i # n /\ i \in 1..n /\ n \in 1..n
            BY ONLY <6>1, i \in 1..m
          <6>3. a[i] = at[i]
            BY <1>4
          <6> QED BY <6>1, <6>2, <6>3
        <5> QED BY <5>1 DEF OneHeight, ChainsOk
      <4>2. ~(n <= m)
        BY <1>3
      <4> QED BY <1>2, <1>4, <1>10, <3>2, <3>3, <3>5, <4>1, <4>2
    <3> QED BY <1>4, <3>3, <3>4, <3>5
  <2> QED BY <2>1 DEF InfoOk
<1>12. TablesOk'
  <2>1. db["last_block"] \in Heights
    BY DEF TablesOk
  <2>2. Len(a) < Len(node)
    BY <1>2, <1>3, <1>4
  <2> QED BY <1>5, <1>9, <1>11, <2>1, <2>2 DEF TablesOk
<1>13. ASSUME NEW b \in past, Settled(node, mode, at, db["block_info"], b)
       PROVE  Settled(node', mode', at', db'["block_info"], b)
  <2>1. \A h \in 1..m : a[h] = b => db["block_info"][h] = b
    BY <1>4, <1>13 DEF Settled
  <2>2. ASSUME IsOn(node, b), mode # "stopping" PROVE \E h \in 1..m : a[h] = b
    <3> PICK h \in 1..n : at[h] = b
      BY <1>13, <2>2 DEF Settled
    <3>1. h # n
      BY <1>10, <2>2
    <3>2. h \in 1..m
      BY <1>4, <3>1
    <3> QED BY <1>4, <3>2
  <2> QED BY <1>4, <2>1, <2>2 DEF Settled
<1> QED BY <1>7, <1>8, <1>12, <1>13 DEF Follows

----------------------------------------------------------------------------
(* One write of a block, in what block_info, the proofs and last_block say of it. *)

\* Tables d become e when the process is at block b of height n, and one more may be
\* on its way out.
WriteDoes(e, d, n, b) ==
  /\ e["last_block"] \in {d["last_block"], n}
  /\ \A x \in Heights : \/ e["block_info"][x] = d["block_info"][x]
                        \/ x = n /\ e["block_info"][x] = b
                        \/ x = n + 1 /\ e["block_info"][x] = Missing
  /\ DOMAIN d["proof_of_history"] = Heights => DOMAIN e["proof_of_history"] = Heights
  /\ \A x \in Heights : DOMAIN d["proof_of_history"] = Heights =>
       \/ e["proof_of_history"][x] = d["proof_of_history"][x]
       \/ /\ x = n /\ e["proof_of_history"][x] # <<>>
          /\ Last(e["proof_of_history"][x]) = b

LEMMA SetTable ==
  ASSUME NEW d, DOMAIN d = Tables, NEW t, NEW v, NEW e, e = Updated(d, t, v)
  PROVE  \A u \in Tables : e[u] = IF u = t THEN v ELSE d[u]
BY DEF Updated

LEMMA SetHeight ==
  ASSUME NEW f, DOMAIN f = Heights, NEW h, NEW v, NEW g, g = Updated(f, h, v)
  PROVE  DOMAIN g = Heights /\ \A x \in Heights : g[x] = IF x = h THEN v ELSE f[x]
BY DEF Updated

LEMMA ApplyWrites ==
  ASSUME NEW sp, NEW tr, NEW d0, NEW d, DOMAIN d = Tables, NEW c \in Seq(Nat), NEW b \in Nat, NEW w,
         NEW m \in Nat, m = Len(c) + 1, ApplyIs(w, d0, sp, b, m), Rest(sp, 0, tr, d0, c),
         NEW k \in Nat, NEW j, j = k + 1, j \in 1..Len(w), Holds(d, d0, w, k),
         NEW e, e = Updated(d, w[j].table, w[j].value)
  PROVE  WriteDoes(e, d, m, b)
<1> PICK l : l = Len(w)
  OBVIOUS
<1>1. l \in Nat /\ l >= 3 /\ j \in 1..l /\ \A i \in 1..k : i \in 1..l /\ i # j
  BY DEF ApplyIs
<1>2. /\ "last_block" \in Tables /\ "block_info" \in Tables /\ "proof_of_history" \in Tables
      /\ \A u \in Tables : e[u] = IF u = w[j].table THEN w[j].value ELSE d[u]
  <2>1. "last_block" \in Tables /\ "block_info" \in Tables /\ "proof_of_history" \in Tables
    BY DEF Tables
  <2> PICK t, v : t = w[j].table /\ v = w[j].value
    OBVIOUS
  <2>2. DOMAIN d = Tables /\ e = Updated(d, t, v)
    OBVIOUS
  <2>3. \A u \in Tables : e[u] = IF u = t THEN v ELSE d[u]
    BY ONLY <2>2, SetTable
  <2> QED BY <2>1, <2>3
<1>3. ASSUME NEW i \in 1..l
      PROVE  /\ w[i].table = "last_block" => m >= StartHeight /\ i = l - 2
             /\ w[i].table = "block_info" => m >= StartHeight /\ i = l - 1
             /\ w[i].table = "proof_of_history" => m >= StartHeight /\ i = l
  BY ApplyTables
<1>4. e["last_block"] \in {d["last_block"], m}
  <2>1. CASE w[j].table = "last_block"
    <3>1. m >= StartHeight /\ j = l - 2
      BY <1>1, <1>3, <2>1
    <3>2. w[(l - 3) + 1].value = m /\ (l - 3) + 1 = l - 2
      BY <1>1, <3>1 DEF ApplyIs
    <3> QED BY <1>2, <2>1, <3>1, <3>2
  <2>2. CASE w[j].table # "last_block"
    BY <1>2, <2>2
  <2> QED BY <2>1, <2>2
<1>5. DOMAIN d0["block_info"] = Heights /\ DOMAIN d0["proof_of_history"] = Heights
  BY DEF Rest, Kept
<1>6. ASSUME NEW x \in Heights
      PROVE  e["block_info"][x] = d["block_info"][x] \/ (x = m /\ e["block_info"][x] = b)
  <2>1. CASE w[j].table = "block_info"
    <3>1. m >= StartHeight /\ j = l - 1 /\ \A i \in 1..k : w[i].table # "block_info"
      BY <1>1, <1>3, <2>1
    <3>2. w[(l - 3) + 2].value = Updated(d0["block_info"], m, b) /\ (l - 3) + 2 = l - 1
      BY <1>1, <3>1 DEF ApplyIs
    <3>3. d["block_info"] = d0["block_info"]
      <4>1. "block_info" \in Tables
        BY <1>2
      <4> QED BY <3>1, <4>1 DEF Holds
    <3>4. e["block_info"] = Updated(d0["block_info"], m, b)
      BY <1>2, <2>1, <3>1, <3>2
    <3>5. e["block_info"][x] = IF x = m THEN b ELSE d0["block_info"][x]
      BY <1>5, <3>4, SetHeight
    <3> QED BY <3>3, <3>5
  <2>2. CASE w[j].table # "block_info"
    BY <1>2, <2>2
  <2> QED BY <2>1, <2>2
<1>7. CASE w[j].table = "proof_of_history"
  <2> PICK f, s : f = d0["proof_of_history"] /\ s = f[m - 1]
    OBVIOUS
  <2>1. m >= StartHeight /\ j = l /\ \A i \in 1..k : w[i].table # "proof_of_history"
    BY <1>1, <1>3, <1>7
  <2>2. w[(l - 3) + 3].value = Updated(f, m, Append(s, b)) /\ (l - 3) + 3 = l
    BY <1>1, <2>1 DEF ApplyIs
  <2>3. d["proof_of_history"] = f
    BY <1>2, <2>1, HoldsOld
  <2>4. s \in Seq(Nat)
    <3> PICK n : n = Len(c)
      OBVIOUS
    <3>1. n \in Nat /\ m - 1 = n /\ StartHeight \in Nat \ {0}
      BY WriteAssumption
    <3>2. CASE n = StartHeight - 1
      <4>1. s = <<>>
        BY <3>1, <3>2 DEF Rest, Kept
      <4> QED BY <4>1
    <3>3. CASE n # StartHeight - 1
      <4>1. n \in StartHeight..n /\ StartHeight >= 1 /\ StartHeight <= n + 1 /\ n <= n
        BY ONLY <2>1, <3>1, <3>3, m \in Nat
      <4>2. s = SubSeq(c, StartHeight, n)
        BY <3>1, <4>1 DEF Rest, Kept
      <4> PICK i : i = n - StartHeight + 1
        OBVIOUS
      <4>3. SubSeq(c, StartHeight, n) \in Seq(Nat)
        BY <3>1, <4>1, PartIs
      <4> QED BY <4>2, <4>3
    <3> QED BY <3>2, <3>3
  <2> PICK q : q = Append(s, b)
    OBVIOUS
  <2>5. q # <<>> /\ Last(q) = b
    <3> PICK r : r = Len(s)
      OBVIOUS
    <3>1. q \in Seq(Nat) /\ r \in Nat /\ Len(q) = r + 1 /\ q[r + 1] = b
      BY <2>4, AppendIs
    <3>2. q # <<>>
      BY ONLY <3>1
    <3> QED BY <3>1, <3>2 DEF Last
  <2> PICK g : g = e["proof_of_history"]
    OBVIOUS
  <2>6. g = Updated(f, m, q)
    BY <1>2, <1>7, <2>1, <2>2
  <2>7. DOMAIN g = Heights /\ \A x \in Heights : g[x] = IF x = m THEN q ELSE f[x]
    BY <1>5, <2>6, SetHeight
  <2>8. \A x \in Heights : g[x] = f[x] \/ (x = m /\ g[x] # <<>> /\ Last(g[x]) = b)
    BY <2>5, <2>7
  <2>9. \A x \in Heights : e["block_info"][x] = d["block_info"][x] \/ (x = m /\ e["block_info"][x] = b)
    BY <1>6
  <2>10. d["proof_of_history"] = f /\ e["proof_of_history"] = g /\ DOMAIN g = Heights
    BY <2>3, <2>7
  <2> QED BY ONLY <1>4, <2>8, <2>9, <2>10 DEF WriteDoes
<1>8. CASE w[j].table # "proof_of_history"
  <2>1. e["proof_of_history"] = d["proof_of_history"]
    BY <1>2, <1>8
  <2> QED BY <1>4, <1>6, <2>1 DEF WriteDoes
<1> QED BY <1>7, <1>8

LEMMA UndoWrites1 ==
  ASSUME NEW sp, NEW tr, NEW d0, NEW d, DOMAIN d = Tables, NEW a \in Seq(Nat), NEW b \in Nat, NEW w, NEW was,
         NEW h \in Nat, h = Len(a) + 1, UndoIs(w, d0, sp, b, h, was), Rest(sp, 0, tr, d0, Append(a, b)),
         NEW k \in Nat, NEW j, j = k + 1, j \in 1..Len(w), Holds(d, d0, w, k),
         NEW e, e = Updated(d, w[j].table, w[j].value), NEW y
  PROVE  WriteDoes(e, d, Len(a), y)
<1> PICK l : l = Len(w)
  OBVIOUS
<1>1. l \in Nat /\ l >= 3 /\ j \in 1..l /\ \A i \in 1..k : i \in 1..l /\ i # j
  BY DEF UndoIs
<1>2. /\ "last_block" \in Tables /\ "block_info" \in Tables /\ "proof_of_history" \in Tables
      /\ \A u \in Tables : e[u] = IF u = w[j].table THEN w[j].value ELSE d[u]
  <2>1. "last_block" \in Tables /\ "block_info" \in Tables /\ "proof_of_history" \in Tables
    BY DEF Tables
  <2> PICK t, v : t = w[j].table /\ v = w[j].value
    OBVIOUS
  <2>2. DOMAIN d = Tables /\ e = Updated(d, t, v)
    OBVIOUS
  <2>3. \A u \in Tables : e[u] = IF u = t THEN v ELSE d[u]
    BY ONLY <2>2, SetTable
  <2> QED BY <2>1, <2>3
<1>3. ASSUME NEW i \in 1..l
      PROVE  /\ w[i].table # "proof_of_history"
             /\ w[i].table = "last_block" => i = 1
             /\ w[i].table = "block_info" => i = 2
  BY UndoTables
<1>4. e["last_block"] \in {d["last_block"], Len(a)}
  <2>1. CASE w[j].table = "last_block"
    <3>1. j = 1 /\ w[1].value = h - 1
      BY <1>1, <1>3, <2>1 DEF UndoIs
    <3>2. h - 1 = Len(a)
      OBVIOUS
    <3> QED BY <1>2, <2>1, <3>1, <3>2
  <2>2. CASE w[j].table # "last_block"
    BY <1>2, <2>2
  <2> QED BY <2>1, <2>2
<1>5. DOMAIN d0["block_info"] = Heights
  BY DEF Rest, Kept
<1>6. ASSUME NEW x \in Heights
      PROVE  e["block_info"][x] = d["block_info"][x] \/ (x = Len(a) + 1 /\ e["block_info"][x] = Missing)
  <2>1. CASE w[j].table = "block_info"
    <3>1. j = 2 /\ \A i \in 1..k : w[i].table # "block_info"
      BY <1>1, <1>3, <2>1
    <3>2. w[2].value = Updated(d0["block_info"], h, Missing)
      BY DEF UndoIs
    <3>3. d["block_info"] = d0["block_info"]
      BY <1>2, <3>1, HoldsOld
    <3>4. e["block_info"] = Updated(d0["block_info"], h, Missing)
      BY <1>2, <2>1, <3>1, <3>2
    <3>5. e["block_info"][x] = IF x = h THEN Missing ELSE d0["block_info"][x]
      BY <1>5, <3>4, SetHeight
    <3> QED BY <3>3, <3>5
  <2>2. CASE w[j].table # "block_info"
    BY <1>2, <2>2
  <2> QED BY <2>1, <2>2
<1>7. e["proof_of_history"] = d["proof_of_history"]
  BY <1>1, <1>2, <1>3
<1> QED BY <1>4, <1>6, <1>7 DEF WriteDoes

LEMMA WriteIs ==
  ASSUME Inv, trouble = "reorg", Write
  PROVE  /\ WriteDoes(db', db, Len(at), at[Len(at)]) /\ Len(at) >= 1
         /\ Undoing(todo') => Undoing(todo)
<1>1. /\ todo # <<>> /\ todo' = Tail(todo) /\ crashes = 0 /\ DOMAIN db = Tables
      /\ db' = Updated(db, Head(todo).table, Head(todo).value)
      /\ ApplyFlight(spends, crashes, trouble, at, todo, db)
         \/ UndoFlight(spends, node, crashes, trouble, at, todo, db)
  BY DEF Write, Updated, Inv, NodeOk, Stage
<1>2. at \in Seq(Nat) /\ Len(at) \in Nat
  BY ChainFacts DEF ChainsTyped
<1>3. ASSUME NEW w, NEW k, Left(todo, w, k), NEW j, j = k + 1
      PROVE  k \in Nat /\ j \in 1..Len(w) /\ Head(todo) = w[j]
  <2> PICK T : todo \in Seq(T)
    BY <1>3 DEF Left, IsASeq
  <2>1. Len(todo) \in Nat /\ Len(todo) >= 1 /\ Head(todo) = todo[1] /\ 1 \in 1..Len(todo)
    BY <1>1
  <2>2. /\ Len(w) \in Nat /\ k \in 0..Len(w) /\ Len(todo) = Len(w) - k
        /\ todo[1] = w[k + 1]
    BY <1>3, <2>1 DEF Left
  <2>3. k \in Nat /\ j \in 1..Len(w)
    <3> PICK x, y : x = Len(todo) /\ y = Len(w)
      OBVIOUS
    <3>1. x \in Nat /\ x >= 1 /\ y \in Nat /\ k \in 0..y /\ x = y - k /\ j = k + 1
      BY <1>3, <2>1, <2>2
    <3>2. k \in Nat /\ j \in 1..y
      BY ONLY <3>1
    <3> QED BY <3>2
  <2> QED BY <1>3, <2>1, <2>2, <2>3
<1>4. ASSUME ApplyFlight(spends, crashes, trouble, at, todo, db)
      PROVE  WriteDoes(db', db, Len(at), at[Len(at)]) /\ Len(at) >= 1
  <2> PICK d0, w, k, c, b :
        /\ c \in Seq(Nat) /\ b \in Nat /\ at = Append(c, b)
        /\ ApplyIs(w, d0, spends, b, Len(c) + 1) /\ Rest(spends, crashes, trouble, d0, c)
        /\ Left(todo, w, k) /\ Holds(db, d0, w, k)
    BY <1>4 DEF ApplyFlight
  <2> PICK m, j : m = Len(c) + 1 /\ j = k + 1
    OBVIOUS
  <2>1. k \in Nat /\ j \in 1..Len(w) /\ Head(todo) = w[j]
    BY <1>3
  <2>2. m \in Nat /\ Len(at) = m /\ at[m] = b /\ m >= 1
    BY AppendIs
  <2>3. /\ ApplyIs(w, d0, spends, b, m) /\ Rest(spends, 0, trouble, d0, c)
        /\ db' = Updated(db, w[j].table, w[j].value)
    BY <1>1, <2>1
  <2>4. WriteDoes(db', db, m, b)
    BY <1>1, <2>1, <2>2, <2>3, ApplyWrites
  <2> QED BY <2>2, <2>4
<1>5. ASSUME UndoFlight(spends, node, crashes, trouble, at, todo, db)
      PROVE  WriteDoes(db', db, Len(at), at[Len(at)]) /\ Len(at) >= 1
  <2> PICK d0, w, k, b, was :
        /\ b \in Nat
        /\ UndoIs(w, d0, spends, b, Len(at) + 1, was) /\ Rest(spends, crashes, trouble, d0, Append(at, b))
        /\ Left(todo, w, k) /\ Holds(db, d0, w, k) /\ Len(at) >= StartHeight
    BY <1>5 DEF UndoFlight
  <2> PICK h, j, n : h = n + 1 /\ j = k + 1 /\ n = Len(at)
    OBVIOUS
  <2>1. k \in Nat /\ j \in 1..Len(w) /\ Head(todo) = w[j]
    BY <1>3
  <2>2. h \in Nat /\ n >= 1
    BY <1>2, WriteAssumption
  <2>3. /\ UndoIs(w, d0, spends, b, h, was) /\ Rest(spends, 0, trouble, d0, Append(at, b))
        /\ db' = Updated(db, w[j].table, w[j].value)
    BY <1>1, <2>1
  <2>4. WriteDoes(db', db, Len(at), at[n])
    BY <1>1, <1>2, <2>1, <2>2, <2>3, UndoWrites1
  <2> QED BY <2>2, <2>4
<1>6. ASSUME Undoing(todo') PROVE Undoing(todo)
  <2>1. IsASeq(todo)
    BY <1>1 DEF ApplyFlight, UndoFlight, Left
  <2> PICK T : todo \in Seq(T)
    BY <2>1 DEF IsASeq
  <2> PICK u, l : u = todo' /\ l = Len(todo)
    OBVIOUS
  <2>2. l \in Nat /\ l >= 1 /\ u \in Seq(T) /\ Len(u) = l - 1 /\ \A i \in 1..l - 1 : u[i] = todo[i + 1]
    BY <1>1
  <2>3. u # <<>> /\ u[Len(u)].table = "prevouts"
    BY <1>6 DEF Undoing
  <2>4. l - 1 \in 1..l - 1 /\ (l - 1) + 1 = l
    <3>1. Len(u) # 0
      BY <2>2, <2>3
    <3> QED BY <2>2, <3>1
  <2>5. u[Len(u)] = todo[l]
    BY <2>2, <2>4
  <2> QED BY <1>1, <2>3, <2>5 DEF Undoing
<1> QED BY <1>1, <1>4, <1>5, <1>6

LEMMA WriteFollows ==
  ASSUME Inv, Inv', ChainsOk, TablesOk, Remembers, Write
  PROVE  Follows
<1> PICK n, info, jnfo : n = Len(at) /\ info = db["block_info"] /\ jnfo = db'["block_info"]
  OBVIOUS
<1>1. UNCHANGED <<node, spends, trouble, mode, at>>
  BY DEF Write
<1>2. /\ WriteDoes(db', db, n, at[n]) /\ n >= 1 /\ (Undoing(todo') => Undoing(todo))
  BY WriteIs DEF ChainsOk
<1>3. /\ n \in Nat /\ Len(node) \in Nat /\ Len(node) <= MaxBlocks /\ n <= Len(node) /\ n \in 1..n
      /\ at[n] \in 1..Len(spends) /\ at[n] \in past /\ MaxBlocks \in Nat /\ Len(spends) \in Nat
  <2>1. n \in Nat /\ n \in 1..n
    BY <1>2, ChainFacts DEF ChainsTyped
  <2> QED BY <2>1, ChainFacts, WriteAssumption DEF ChainsTyped, ChainsOk
<1>4. n \in Heights /\ ~(n + 1 <= n) /\ \A h \in 1..n : h \in Heights /\ h <= n /\ h # n + 1
  BY <1>3 DEF Heights
<1>5. past' = past
  BY <1>1, SamePastBlocks
<1>6. ChainsOk'
  BY <1>1, <1>5 DEF ChainsOk
<1>7. \A x \in Heights : \/ jnfo[x] = info[x]
                         \/ x = n /\ jnfo[x] = at[n]
                         \/ x = n + 1 /\ jnfo[x] = Missing
  BY <1>2 DEF WriteDoes
<1>8. Carries
  <2>1. Keeps(node, node, Len(spends)) /\ Len(spends) <= Len(spends)
    BY ChainFacts, KeepsSelf DEF ChainsTyped
  <2>2. ASSUME NEW h \in 1..Len(at') PROVE h <= Len(at) /\ at'[h] = at[h]
    BY <1>1, <1>4
  <2>3. ASSUME NEW h \in Heights PROVE jnfo[h] \in {info[h], Missing} \/ (h <= Len(at) /\ jnfo[h] = at[h])
    BY <1>3, <1>7
  <2> QED BY <1>1, <2>1, <2>2, <2>3 DEF Carries
<1>9. InfoOk(node, mode, at, jnfo, past)
  <2>1. ASSUME NEW h \in Heights, jnfo[h] # Missing
        PROVE  /\ jnfo[h] \in past
               /\ h <= Len(at) => jnfo[h] = at[h]
               /\ h > Len(at) => /\ \A i \in 1..Len(at) : at[i] # jnfo[h]
                                 /\ mode = "running" => ~IsOn(node, jnfo[h])
    <3>1. CASE jnfo[h] = info[h]
      <4>1. InfoOk(node, mode, at, info, past)
        BY DEF TablesOk
      <4> QED BY <2>1, <3>1, <4>1 DEF InfoOk
    <3>2. CASE h = n /\ jnfo[h] = at[n]
      <4>1. ~(n > n)
        BY <1>3
      <4> QED BY <1>3, <3>2, <4>1
    <3> QED BY <1>7, <2>1, <3>1, <3>2
  <2> QED BY <2>1 DEF InfoOk
<1> PICK f, g : f = db["proof_of_history"] /\ g = db'["proof_of_history"]
  OBVIOUS
<1>10. /\ DOMAIN g = Heights
       /\ \A x \in Heights : g[x] = f[x] \/ (x = n /\ g[x] # <<>> /\ Last(g[x]) = at[n])
  <2>1. DOMAIN f = Heights
    BY DEF TablesOk, ProofsOk
  <2> QED BY <1>2, <2>1 DEF WriteDoes
<1>11. ASSUME NEW x \in Heights, g[x] # <<>>
       PROVE  Belongs(Len(spends), node, at, jnfo, Last(g[x]), x)
  <2> PICK p : p = Last(g[x])
    OBVIOUS
  <2>1. CASE g[x] = f[x]
    <3>1. HasBelonged(p, x)
      BY <1>11, <2>1 DEF TablesOk, ProofsOk, HasBelonged
    <3>2. Belongs(Len(spends'), node', at', db'["block_info"], p, x)
      BY <1>8, <3>1, HasBelongedKept
    <3> QED BY <1>1, <3>2
  <2>2. CASE x = n /\ p = at[n]
    <3>1. p \in Int /\ p <= Len(spends)
      BY <1>3, <2>2
    <3>2. ASSUME IsOn(node, p) PROVE x \in 1..Len(node) /\ node[x] = p
      <4>1. n <= Len(node) /\ \A i \in 1..n : node[i] = at[i]
        BY <1>3, <2>2, <3>2 DEF SamePast, ChainsOk
      <4>2. n \in 1..Len(node)
        BY <1>2, <1>3
      <4> QED BY <1>3, <2>2, <4>1, <4>2
    <3>3. jnfo[x] \in {p, Missing}
      BY <1>3, <1>9, <1>11, <2>2 DEF InfoOk
    <3> QED BY <2>2, <3>1, <3>2, <3>3 DEF Belongs
  <2> QED BY <1>10, <1>11, <2>1, <2>2
<1>12. TablesOk'
  <2>1. db'["last_block"] \in Heights
    <3>1. db["last_block"] \in Heights
      BY DEF TablesOk
    <3> QED BY <1>2, <1>4, <3>1 DEF WriteDoes
  <2>2. ProofsOk(Len(spends), node, at, jnfo, g)
    BY <1>10, <1>11 DEF ProofsOk
  <2>3. Undoing(todo') => Len(at) < Len(node)
    BY <1>2 DEF TablesOk
  <2> QED BY <1>1, <1>5, <1>9, <2>1, <2>2, <2>3 DEF TablesOk
<1>13. ASSUME NEW b \in past, Settled(node, mode, at, info, b)
       PROVE  Settled(node', mode', at', jnfo, b)
  <2>1. ASSUME NEW h \in 1..n, at[h] = b PROVE jnfo[h] = b
    <3>1. info[h] = b
      BY <1>13, <2>1 DEF Settled
    <3> QED BY <1>4, <1>7, <2>1, <3>1
  <2> QED BY <1>1, <1>13, <2>1 DEF Settled
<1> QED BY <1>6, <1>8, <1>12, <1>13 DEF Follows

----------------------------------------------------------------------------
(* The rows a request finds. *)

\* Every row of a chain is one of its blocks with tokens.
Among(x, c, m) == \A i \in 1..Len(x) : \E h \in StartHeight..m : x[i] = c[h]

LEMMA RowsAmong ==
  ASSUME NEW sp, NEW c \in Seq(Nat)
  PROVE  Among(RowsIn(sp, c), c, Len(c))
<1> DEFINE R(m) == RowsIn(sp, SubSeq(c, 1, m))
           P == {m \in Nat : m <= Len(c) => Among(R(m), c, m)}
<1>0. Len(c) \in Nat
  OBVIOUS
<1>1. 0 \in P
  <2>1. SubSeq(c, 1, 0) = <<>>
    BY <1>0
  <2>2. R(0) = <<>>
    <3>1. RowsIn(sp, <<>>) = <<>>
      BY RowsEmpty
    <3> QED BY <2>1, <3>1
  <2> HIDE DEF R
  <2>3. Len(<<>>) = 0 /\ 1..0 = {}
    OBVIOUS
  <2> QED BY <2>2, <2>3 DEF Among
<1>2. ASSUME NEW m \in P PROVE m + 1 \in P
  <2> SUFFICES ASSUME m + 1 <= Len(c) PROVE Among(R(m + 1), c, m + 1)
    OBVIOUS
  <2>0. m \in Nat /\ m <= Len(c) /\ c[m + 1] \in Nat /\ m \in 0..Len(c)
    BY <1>0
  <2>1. Among(R(m), c, m) /\ R(m) \in Seq(Int)
    BY <2>0, RowsType
  <2>2. R(m + 1) = IF Tokens(sp, c[m + 1], m + 1) THEN Append(R(m), c[m + 1]) ELSE R(m)
    <3> PICK x : x = SubSeq(c, 1, m)
      OBVIOUS
    <3>1. x \in Seq(Nat) /\ Len(x) = m
      BY <2>0, FirstBlocks
    <3>2. SubSeq(c, 1, m + 1) = Append(x, c[m + 1])
      BY <2>0, FirstBlocksAppend
    <3>3. RowsIn(sp, Append(x, c[m + 1])) =
            IF Tokens(sp, c[m + 1], m + 1) THEN Append(RowsIn(sp, x), c[m + 1]) ELSE RowsIn(sp, x)
      BY <2>0, <3>1, RowsAppend
    <3> QED BY <3>2, <3>3
  <2> PICK x, y, v, k : x = R(m) /\ y = R(m + 1) /\ v = c[m + 1] /\ k = m + 1
    OBVIOUS
  <2> HIDE DEF R
  <2>3. /\ x \in Seq(Int) /\ Among(x, c, m) /\ (y = Append(x, v) \/ y = x)
        /\ \A h \in StartHeight..m : h \in StartHeight..k
        /\ y = x \/ k \in StartHeight..k
    <3>0. StartHeight \in Nat
      BY WriteAssumption
    <3>1. \A h \in StartHeight..m : h \in StartHeight..k
      BY ONLY <2>0, <3>0, k = m + 1
    <3>2. x \in Seq(Int) /\ Among(x, c, m)
      BY <2>1
    <3>3. y = Append(x, v) \/ y = x
      BY <2>2
    <3>4. k >= StartHeight => k \in StartHeight..k
      BY ONLY <2>0, <3>0, k = m + 1
    <3>5. y = x \/ k >= StartHeight
      BY <2>2 DEF Tokens
    <3> QED BY <3>1, <3>2, <3>3, <3>4, <3>5
  <2>4. ASSUME NEW i \in 1..Len(y) PROVE \E h \in StartHeight..k : y[i] = c[h]
    <3> PICK n : n = Len(x)
      OBVIOUS
    <3>1. CASE i \in 1..n /\ y[i] = x[i]
      BY <2>3, <3>1 DEF Among
    <3>2. CASE y # x /\ y[i] = v
      BY <2>3, <3>2
    <3>3. (i \in 1..n /\ y[i] = x[i]) \/ (y # x /\ y[i] = v)
      <4>1. CASE y = x
        BY <4>1
      <4>2. CASE y = Append(x, v)
        <5>0. x \in Seq(Int) /\ v \in Int
          BY <2>0, <2>3
        <5>1. n \in Nat /\ Len(y) = n + 1 /\ y[n + 1] = v /\ \A j \in 1..n : y[j] = x[j]
          BY ONLY <4>2, <5>0, n = Len(x)
        <5>2. i \in 1..n \/ i = n + 1
          BY <5>1
        <5> QED BY <4>1, <5>1, <5>2
      <4> QED BY <2>3, <4>1, <4>2
    <3> QED BY <3>1, <3>2, <3>3
  <2> QED BY <2>4 DEF Among
<1>3. P = Nat
  BY <1>1, <1>2, SetInduction
<1> PICK n : n = Len(c)
  OBVIOUS
<1>4. n \in P
  <2> HIDE DEF P
  <2> QED BY <1>0, <1>3
<1>5. Among(RowsIn(sp, SubSeq(c, 1, n)), c, n)
  <2>1. n <= Len(c)
    BY <1>0
  <2> QED BY <1>4, <2>1
<1>6. SubSeq(c, 1, n) = c
  BY <1>0
<1> HIDE DEF R, P
<1> QED BY <1>5, <1>6

\* Rows of chain c, and perhaps one of block b, whole or half.
Partly(c, b) ==
  \A t \in RowSet : db[t] \in {RowsIn(spends, c), Append(RowsIn(spends, c), b), Append(RowsIn(spends, c), -b)}

Forward(c, b) ==
  /\ c \in Seq(Nat) /\ b \in Nat /\ at = Append(c, b) /\ Partly(c, b)
  /\ Len(at) \in Heights
  /\ db["block_info"][Len(at)] # Missing => RowsAre(spends, db, at)

Backward(b) ==
  /\ b \in Nat /\ Partly(at, b) /\ Undoing(todo)
  /\ Len(at) + 1 \in Heights => /\ db["proof_of_history"][Len(at) + 1] # <<>>
                                /\ Last(db["proof_of_history"][Len(at) + 1]) = b

LEMMA RowsForward ==
  ASSUME Inv, trouble = "reorg", ApplyFlight(spends, crashes, trouble, at, todo, db)
  PROVE  \E c, b : Forward(c, b)
<1> PICK d0, w, k, c, b :
      /\ c \in Seq(Nat) /\ b \in Nat /\ at = Append(c, b)
      /\ ApplyIs(w, d0, spends, b, Len(c) + 1) /\ Rest(spends, crashes, trouble, d0, c)
      /\ Left(todo, w, k) /\ Holds(db, d0, w, k) /\ Len(c) + 1 <= MaxBlocks
  BY DEF ApplyFlight
<1> PICK n, m, l : n = Len(c) /\ m = n + 1 /\ l = Len(w)
  OBVIOUS
<1>1. /\ n \in Nat /\ m \in Nat /\ Len(at) = m /\ m <= MaxBlocks /\ MaxBlocks \in Nat
      /\ ApplyIs(w, d0, spends, b, m) /\ k \in 0..l /\ l \in Nat /\ l >= 3 /\ crashes = 0
  <2>1. n \in Nat /\ Len(at) = n + 1
    BY AppendIs
  <2>2. m \in Nat /\ Len(at) = m /\ m <= MaxBlocks /\ MaxBlocks \in Nat
    BY <2>1, WriteAssumption
  <2>3. k \in 0..l /\ l \in Nat
    BY DEF Left
  <2>4. l >= 3
    BY DEF ApplyIs
  <2>5. crashes = 0
    BY DEF Inv, NodeOk
  <2> QED BY <2>1, <2>2, <2>3, <2>4, <2>5
<1>2. m \in Heights /\ m \notin StartHeight..n
  BY <1>1 DEF Heights
<1>3. \A t \in RowSet : d0[t] = RowsIn(spends, c) /\ t \in Tables
  BY DEF Rest, RowsAre, Tables
<1>4. Partly(c, b)
  <2>1. HalfApplied(db, d0, spends, b, m, k)
    BY <1>1, ApplyAfter
  <2> QED BY <1>3, <2>1 DEF HalfApplied, Halves, Partly
<1>5. RowsIn(spends, at) = IF Tokens(spends, b, m) THEN Append(RowsIn(spends, c), b) ELSE RowsIn(spends, c)
  BY RowsAppend
<1>6. ASSUME db["block_info"][m] # Missing
      PROVE  RowsAre(spends, db, at)
  <2>1. d0["block_info"][m] = Missing
    BY <1>1, <1>2 DEF Rest, Kept
  <2>2. db["block_info"] # d0["block_info"]
    BY <1>6, <2>1
  <2>3. \E i \in 1..k : w[i].table = "block_info"
    <3>1. "block_info" \in Tables
      BY DEF Tables
    <3> QED BY <2>2, <3>1, HoldsSome
  <2> PICK i \in 1..k : w[i].table = "block_info"
    BY <2>3
  <2>4. i \in 1..l /\ i = l - 1 /\ k \in Nat /\ k <= l
    <3>1. i \in 1..l /\ k \in Nat /\ k <= l
      BY <1>1
    <3> QED BY <1>1, <3>1, ApplyTables
  <2>5. ASSUME NEW t \in RowSet, NEW j \in 1..l, w[j].table = t
        PROVE  Tokens(spends, b, m) /\ j <= l - 3 /\ j \in Nat
    <3>1. Tokens(spends, b, m) /\ j \in 4..l - 3
      BY <1>1, <2>5, ApplyTables
    <3> QED BY <1>1, <3>1
  <2>6. ASSUME NEW t \in RowSet, Tokens(spends, b, m)
        PROVE  db[t] = Append(d0[t], b)
    <3>1. ASSUME NEW j \in k + 1..l PROVE w[j].table # t
      <4>1. j \in 1..l /\ ~(j <= l - 3)
        BY <1>1, <2>4
      <4> QED BY <2>5, <4>1
    <3> PICK v : v = Append(d0[t], b)
      OBVIOUS
    <3>2. Ends(w, t, v)
      <4>1. m >= StartHeight
        BY <2>6 DEF Tokens
      <4> QED BY <1>1, <2>6, <4>1 DEF ApplyIs
    <3>3. k \in Nat /\ k <= Len(w) /\ Len(w) \in Nat /\ t \in Tables /\ \A j \in k + 1..Len(w) : w[j].table # t
      BY <1>1, <1>3, <2>4, <3>1
    <3>4. db[t] = v
      BY ONLY <3>2, <3>3, Holds(db, d0, w, k), HoldsNew
    <3> QED BY <3>4
  <2>7. ASSUME NEW t \in RowSet, ~Tokens(spends, b, m)
        PROVE  db[t] = d0[t]
    <3>1. \A j \in 1..k : w[j].table # t
      <4>1. \A j \in 1..k : j \in 1..l
        BY <1>1
      <4> QED BY <2>5, <2>7, <4>1
    <3> QED BY <1>3, <3>1, HoldsOld
  <2> QED BY <1>3, <1>5, <2>6, <2>7 DEF RowsAre
<1> QED BY <1>1, <1>2, <1>4, <1>6 DEF Forward

LEMMA RowsBackward ==
  ASSUME Inv, trouble = "reorg", UndoFlight(spends, node, crashes, trouble, at, todo, db), todo # <<>>
  PROVE  \E b : Backward(b)
<1> PICK d0, w, k, b, was :
      /\ b \in Nat
      /\ UndoIs(w, d0, spends, b, Len(at) + 1, was) /\ Rest(spends, crashes, trouble, d0, Append(at, b))
      /\ Left(todo, w, k) /\ Holds(db, d0, w, k) /\ \A t \in RowSet : was[t] = RowsIn(spends, at)
      /\ Len(at) >= StartHeight
  BY DEF UndoFlight
<1> PICK n, m, l, e : n = Len(at) /\ m = n + 1 /\ l = Len(w) /\ e = Append(at, b)
  OBVIOUS
<1>1. /\ at \in Seq(Nat) /\ n \in Nat /\ m \in Nat /\ UndoIs(w, d0, spends, b, m, was)
      /\ k \in 0..l /\ l \in Nat /\ l >= 3 /\ crashes = 0
      /\ e \in Seq(Nat) /\ Len(e) = m /\ e[m] = b /\ n >= StartHeight /\ StartHeight \in Nat \ {0}
  <2>1. at \in Seq(Nat) /\ n \in Nat /\ m \in Nat
    BY ChainFacts DEF ChainsTyped
  <2>2. e \in Seq(Nat) /\ Len(e) = m /\ e[m] = b
    BY <2>1, AppendIs
  <2> QED BY <2>1, <2>2, WriteAssumption DEF Left, UndoIs, Inv, NodeOk
<1>2. HalfUndone(db, d0, spends, b, m, was, k, l)
  BY <1>1, UndoAfter
<1>3. RowsIn(spends, e) = IF Tokens(spends, b, m) THEN Append(RowsIn(spends, at), b) ELSE RowsIn(spends, at)
  BY <1>1, RowsAppend
<1>4. Partly(at, b)
  <2>1. \A t \in RowSet : d0[t] = RowsIn(spends, e)
    BY DEF Rest, RowsAre
  <2> QED BY <1>2, <1>3, <2>1 DEF HalfUndone, Remains, Partly
<1>5. Undoing(todo)
  <2> PICK T, j : todo \in Seq(T) /\ j = Len(todo)
    BY DEF Left, IsASeq
  <2>1. j \in Nat /\ j >= 1 /\ j \in 1..j
    OBVIOUS
  <2>2. j = l - k /\ todo[j] = w[k + j]
    BY <2>1 DEF Left
  <2>3. k + j = l
    BY <1>1, <2>1, <2>2
  <2> QED BY <2>2, <2>3 DEF Undoing, UndoIs
<1>6. ASSUME m \in Heights
      PROVE  db["proof_of_history"][m] # <<>> /\ Last(db["proof_of_history"][m]) = b
  <2> PICK p, q : p = SubSeq(e, StartHeight, m) /\ q = m - StartHeight + 1
    OBVIOUS
  <2>1. q \in Nat /\ q >= 1 /\ StartHeight >= 1 /\ StartHeight <= m + 1 /\ m <= m /\ m \in StartHeight..m
        /\ StartHeight + q - 1 = m /\ q \in 1..q
    BY <1>1
  <2>2. p \in Seq(Nat) /\ Len(p) = q /\ \A i \in 1..q : p[i] = e[StartHeight + i - 1]
    <3> PICK f : f = StartHeight
      OBVIOUS
    <3>1. e \in Seq(Nat) /\ f \in Nat /\ m \in Nat /\ f >= 1 /\ f <= m + 1 /\ m <= Len(e)
      BY <1>1, <2>1
    <3>2. q = m - f + 1 /\ p = SubSeq(e, f, m)
      OBVIOUS
    <3>3. p \in Seq(Nat) /\ Len(p) = q /\ \A i \in 1..q : p[i] = e[f + i - 1]
      BY ONLY <3>1, <3>2, PartAs
    <3> QED BY <3>3
  <2>3. p[q] = b
    <3>1. p[q] = e[StartHeight + q - 1]
      BY <2>1, <2>2
    <3> QED BY <1>1, <2>1, <3>1
  <2>4. p # <<>> /\ Last(p) = b
    <3>1. p # <<>>
      <4>1. Len(<<>>) = 0 /\ Len(p) = q
        BY <2>2
      <4>2. ASSUME p = <<>> PROVE FALSE
        <5>1. q = 0
          BY ONLY <4>1, <4>2
        <5> QED BY ONLY <2>1, <5>1
      <4> QED BY <4>2
    <3>2. Last(p) = p[q]
      BY <2>2 DEF Last
    <3> QED BY <2>3, <3>1, <3>2
  <2>5. db["proof_of_history"] = d0["proof_of_history"]
    BY <1>2 DEF HalfUndone
  <2>6. d0["proof_of_history"][m] = p
    BY <1>1, <2>1 DEF Rest, Kept
  <2> QED BY <2>4, <2>5, <2>6
<1> QED BY <1>4, <1>5, <1>6 DEF Backward

LEMMA TableRows ==
  ASSUME Inv, trouble = "reorg", mode # "down"
  PROVE  \/ RowsAre(spends, db, at)
         \/ \E c, b : Forward(c, b)
         \/ \E b : Backward(b)
<1>1. CASE todo = <<>>
  <2>1. Rest(spends, 0, trouble, db, at)
    BY <1>1, Quiet
  <2> QED BY <2>1 DEF Rest
<1>2. CASE todo # <<>>
  <2>1. ApplyFlight(spends, crashes, trouble, at, todo, db) \/ UndoFlight(spends, node, crashes, trouble, at, todo, db)
    BY <1>2 DEF Inv, Stage
  <2> QED BY <1>2, <2>1, RowsForward, RowsBackward
<1> QED BY <1>1, <1>2

\* The block of every row of the history was once at the height that its time is read
\* from.
LEMMA OneOf ==
  ASSUME Inv, trouble = "reorg", mode # "down", NEW t \in RowSet, NEW r \in ToSet(db[t])
  PROVE  \/ \E h \in 1..Len(at) : r = at[h]
         \/ r \in Int /\ r <= 0
         \/ Backward(r)
<1>1. at \in Seq(Nat)
  BY ChainFacts DEF ChainsTyped
<1>0. ASSUME NEW m \in Nat, NEW h \in StartHeight..m PROVE h \in 1..m
  BY WriteAssumption
<1>2. ASSUME NEW x \in Seq(Int), r \in ToSet(x) PROVE \E i \in 1..Len(x) : r = x[i]
  BY <1>2 DEF ToSet
<1>3. ASSUME NEW c \in Seq(Nat), r \in ToSet(RowsIn(spends, c)) PROVE \E h \in 1..Len(c) : r = c[h]
  <2>1. RowsIn(spends, c) \in Seq(Int)
    <3>1. Len(c) \in 0..Len(c)
      OBVIOUS
    <3> QED BY <3>1, RowsGrow
  <2> PICK x : x = RowsIn(spends, c)
    OBVIOUS
  <2> PICK i \in 1..Len(x) : r = x[i]
    BY <1>2, <1>3, <2>1
  <2>2. Among(x, c, Len(c)) /\ Len(c) \in Nat
    BY RowsAmong
  <2> QED BY <1>0, <2>2 DEF Among
<1>4. ASSUME NEW c \in Seq(Nat), NEW v \in Int, r \in ToSet(Append(RowsIn(spends, c), v))
      PROVE  r = v \/ \E h \in 1..Len(c) : r = c[h]
  <2>1. RowsIn(spends, c) \in Seq(Int)
    <3>1. Len(c) \in 0..Len(c)
      OBVIOUS
    <3> QED BY <3>1, RowsGrow
  <2> PICK x, y, n : x = RowsIn(spends, c) /\ y = Append(x, v) /\ n = Len(x)
    OBVIOUS
  <2>2. /\ y \in Seq(Int) /\ n \in Nat /\ Len(y) = n + 1 /\ y[n + 1] = v
        /\ \A i \in 1..n : y[i] = x[i]
    BY <2>1
  <2> PICK i \in 1..Len(y) : r = y[i]
    BY <1>2, <1>4, <2>2
  <2>3. CASE i \in 1..n
    <3>1. Among(x, c, Len(c)) /\ Len(c) \in Nat
      BY RowsAmong
    <3> QED BY <1>0, <2>2, <2>3, <3>1 DEF Among
  <2>4. i \in 1..n \/ i = n + 1
    BY <2>2
  <2> QED BY <2>2, <2>3, <2>4
<1>5. ASSUME NEW c \in Seq(Nat), NEW b \in Nat, Partly(c, b)
      PROVE  r = b \/ (r \in Int /\ r <= 0) \/ \E h \in 1..Len(c) : r = c[h]
  <2>1. b \in Int /\ -b \in Int /\ -b <= 0
    OBVIOUS
  <2>2. CASE db[t] = RowsIn(spends, c)
    BY <1>3, <2>2
  <2>3. CASE db[t] = Append(RowsIn(spends, c), b)
    BY <1>4, <2>1, <2>3
  <2>4. CASE db[t] = Append(RowsIn(spends, c), -b)
    <3>1. r = -b \/ \E h \in 1..Len(c) : r = c[h]
      BY <1>4, <2>1, <2>4
    <3> QED BY <2>1, <3>1
  <2>5. \/ db[t] = RowsIn(spends, c) \/ db[t] = Append(RowsIn(spends, c), b)
        \/ db[t] = Append(RowsIn(spends, c), -b)
    BY <1>5 DEF Partly
  <2> QED BY <2>2, <2>3, <2>4, <2>5
<1>6. CASE RowsAre(spends, db, at)
  BY <1>1, <1>3, <1>6 DEF RowsAre
<1>7. CASE \E c, b : Forward(c, b)
  <2> PICK c, b : Forward(c, b)
    BY <1>7
  <2>1. c \in Seq(Nat) /\ b \in Nat /\ at = Append(c, b) /\ Partly(c, b)
    BY DEF Forward
  <2> PICK n : n = Len(c)
    OBVIOUS
  <2>2. n \in Nat /\ Len(at) = n + 1 /\ at[n + 1] = b /\ \A i \in 1..n : at[i] = c[i] /\ i \in 1..n + 1
    BY <2>1, AppendIs
  <2>3. n + 1 \in 1..n + 1
    BY <2>2
  <2>4. r = b \/ (r \in Int /\ r <= 0) \/ \E h \in 1..n : r = c[h]
    BY <1>5, <2>1
  <2> QED BY <2>2, <2>3, <2>4
<1>8. CASE \E b : Backward(b)
  <2> PICK b : Backward(b)
    BY <1>8
  <2>1. b \in Nat /\ Partly(at, b)
    BY DEF Backward
  <2> QED BY <1>1, <1>5, <2>1
<1> QED BY <1>6, <1>7, <1>8, TableRows

LEMMA HeightIs ==
  ASSUME OneHeight(at), DOMAIN at = 1..Len(at), NEW h \in 1..Len(at)
  PROVE  HeightOf(at[h]) = h
<1>1. at[h] \in ToSet(at)
  BY DEF ToSet
<1> PICK g : g = CHOOSE k \in DOMAIN at : at[k] = at[h]
  OBVIOUS
<1>2. g \in 1..Len(at) /\ at[g] = at[h]
  OBVIOUS
<1>3. g = h
  BY <1>2 DEF OneHeight
<1> QED BY <1>1, <1>3 DEF HeightOf

LEMMA AppliedBelongs ==
  ASSUME Inv, ChainsOk, TablesOk, NEW h \in 1..Len(at)
  PROVE  HasBelonged(at[h], h)
<1> PICK p : p = at[h]
  OBVIOUS
<1>1. /\ p \in 1..Len(spends) /\ Len(spends) \in Nat /\ Len(at) \in Nat /\ Len(node) \in Nat
      /\ Len(at) <= Len(node) /\ Len(node) <= MaxBlocks /\ MaxBlocks \in Nat
  BY ChainFacts, WriteAssumption DEF ChainsTyped, ChainsOk
<1>2. h \in Heights /\ h <= Len(at) /\ h \in 1..h /\ h >= 1
  BY <1>1 DEF Heights
<1>3. IsOn(node, p) => h \in 1..Len(node) /\ node[h] = p
  <2>1. IsOn(node, p) => h <= Len(node) /\ \A i \in 1..h : node[i] = at[i]
    BY DEF SamePast, ChainsOk
  <2> QED BY <1>1, <1>2, <2>1
<1>4. db["block_info"][h] \in {p, Missing}
  BY <1>2 DEF InfoOk, TablesOk
<1>5. p \in Int /\ p <= Len(spends)
  BY <1>1
<1> QED BY <1>3, <1>4, <1>5 DEF Belongs, HasBelonged

LEMMA HistoryBelongs ==
  ASSUME Inv, ChainsOk, TablesOk, mode # "down", NEW r \in ToSet(db["address_token_to_history"])
  PROVE  HasBelonged(r, HeightOf(r))
<1>1. DOMAIN at = 1..Len(at) /\ OneHeight(at) /\ trouble = "reorg"
  BY ChainFacts DEF ChainsTyped, ChainsOk
<1>2. ASSUME NEW h \in 1..Len(at), r = at[h] PROVE HasBelonged(r, HeightOf(r))
  BY <1>1, <1>2, HeightIs, AppliedBelongs
<1>3. \/ \E h \in 1..Len(at) : r = at[h]
      \/ r \in Int /\ r <= 0
      \/ Backward(r)
  <2>1. "address_token_to_history" \in RowSet
    BY DEF RowSet
  <2> QED BY <1>1, <2>1, OneOf
\* Half-written rows are of no block.
<1>4. ASSUME r \in Int, r <= 0 PROVE HasBelonged(r, HeightOf(r))
  <2>1. Len(spends) \in Nat /\ \A j \in 1..Len(node) : node[j] \in 1..Len(spends)
    BY ChainFacts DEF ChainsTyped
  <2>2. r <= Len(spends) /\ r \notin 1..Len(spends)
    BY ONLY <1>4, <2>1
  <2>3. ~IsOn(node, r)
    BY <2>1, <2>2 DEF IsOn
  <2> QED BY <1>4, <2>2, <2>3 DEF Belongs, HasBelonged
\* The block that is being undone.
<1>5. ASSUME Backward(r), \A h \in 1..Len(at) : r # at[h] PROVE HasBelonged(r, HeightOf(r))
  <2> PICK m : m = Len(at) + 1
    OBVIOUS
  <2>1. HeightOf(r) = m
    BY <1>1, <1>5 DEF HeightOf, ToSet
  <2>2. m \in Heights
    <3>1. Len(at) < Len(node)
      BY <1>5 DEF Backward, TablesOk
    <3>2. Len(at) \in Nat /\ Len(node) \in Nat /\ Len(node) <= MaxBlocks /\ MaxBlocks \in Nat
      BY ChainFacts, WriteAssumption DEF ChainsTyped
    <3> PICK x, y : x = Len(at) /\ y = Len(node)
      OBVIOUS
    <3>3. m \in 0..MaxBlocks
      BY ONLY <3>1, <3>2, x = Len(at), y = Len(node), m = Len(at) + 1
    <3> QED BY <3>3 DEF Heights
  <2>3. db["proof_of_history"][m] # <<>> /\ Last(db["proof_of_history"][m]) = r
    BY <1>5, <2>2 DEF Backward
  <2> QED BY <2>1, <2>2, <2>3 DEF TablesOk, ProofsOk, HasBelonged
<1> QED BY <1>2, <1>3, <1>4, <1>5

\* The tables have every row up to a block that is in block_info.
LEMMA InfoHasRows ==
  ASSUME Inv, ChainsOk, mode # "down", NEW h \in 1..Len(at), db["block_info"][h] = at[h]
  PROVE  \A t \in RowSet : IsPrefix(RowsIn(spends, SubSeq(at, 1, h)), db[t])
<1>1. /\ at \in Seq(Nat) /\ Len(at) \in Nat /\ h \in 0..Len(at) /\ trouble = "reorg"
      /\ db["block_info"][h] # Missing /\ h \in Nat /\ h <= Len(at)
  <2>1. at \in Seq(Nat) /\ Len(at) \in Nat /\ at[h] \in 1..Len(spends) /\ Len(spends) \in Nat
    BY ChainFacts DEF ChainsTyped
  <2> QED BY <2>1 DEF ChainsOk, Missing
<1> PICK y : y = RowsIn(spends, SubSeq(at, 1, h))
  OBVIOUS
\* Those of a chain that has the block, with one more row at most.
<1>2. ASSUME NEW c \in Seq(Nat), h <= Len(c), SubSeq(c, 1, h) = SubSeq(at, 1, h), NEW b \in Nat, Partly(c, b),
             NEW t \in RowSet
      PROVE  IsPrefix(y, db[t])
  <2> PICK x : x = RowsIn(spends, c)
    OBVIOUS
  <2>1. h \in 0..Len(c)
    BY <1>1, <1>2
  <2>2. y \in Seq(Int) /\ x \in Seq(Int) /\ IsPrefix(y, x)
    BY <1>2, <2>1, RowsGrow
  <2>3. b \in Int /\ -b \in Int
    OBVIOUS
  <2>4. IsPrefix(y, Append(x, b)) /\ IsPrefix(y, Append(x, -b))
    BY <2>2, <2>3, PrefixAppend
  <2> QED BY <1>2, <2>2, <2>4 DEF Partly
<1>3. ASSUME RowsAre(spends, db, at), NEW t \in RowSet PROVE IsPrefix(y, db[t])
  <2>1. Partly(at, 0)
    BY <1>3 DEF RowsAre, Partly
  <2> QED BY <1>1, <1>2, <2>1
<1>4. ASSUME NEW c, NEW b, Forward(c, b), NEW t \in RowSet PROVE IsPrefix(y, db[t])
  <2>1. c \in Seq(Nat) /\ b \in Nat /\ at = Append(c, b) /\ Partly(c, b)
    BY <1>4 DEF Forward
  <2> PICK n : n = Len(c)
    OBVIOUS
  <2>2. n \in Nat /\ Len(at) = n + 1 /\ \A i \in 1..n : c[i] = at[i]
    BY <2>1, AppendIs
  <2>3. CASE h <= n
    <3>1. \A i \in 1..h : i \in 1..n
      BY <1>1, <2>2, <2>3
    <3>2. h <= Len(c) /\ h <= Len(at) /\ \A i \in 1..h : c[i] = at[i]
      BY <1>1, <2>2, <2>3, <3>1
    <3>3. SubSeq(c, 1, h) = SubSeq(at, 1, h)
      BY ONLY <1>1, <2>1, <3>2, SameFirst
    <3> QED BY <1>2, <2>1, <3>2, <3>3
  <2>4. CASE h = n + 1
    <3>1. RowsAre(spends, db, at)
      BY <1>1, <1>4, <2>2, <2>4 DEF Forward
    <3> QED BY <1>3, <3>1
  <2>5. h <= n \/ h = n + 1
    BY <1>1, <2>2
  <2> QED BY <2>3, <2>4, <2>5
<1>5. ASSUME NEW b, Backward(b), NEW t \in RowSet PROVE IsPrefix(y, db[t])
  BY <1>1, <1>2, <1>5 DEF Backward
<1>6. \A t \in RowSet : IsPrefix(y, db[t])
  BY <1>1, <1>3, <1>4, <1>5, TableRows
<1> QED BY <1>6

----------------------------------------------------------------------------
(* The steps of the node and of the indexer, under a request. *)

LEMMA IndexerFollows ==
  ASSUME Inv, Inv', ChainsOk, TablesOk, Remembers, Next
  PROVE  Follows
<1>1. CASE Mine \/ NodeReorg
  BY <1>1, NodeFollows
<1>2. CASE Apply
  BY <1>2, ApplyFollows
<1>3. CASE Write
  BY <1>3, WriteFollows
<1>4. CASE RestoreBlock
  <2>1. /\ todo = <<>> /\ UndoLast /\ mode = "running" /\ ~OnNode
        /\ UNCHANGED <<node, spends, trouble, mode, db>>
    BY <1>4 DEF RestoreBlock, AtRest
  <2> QED BY <2>1, UndoFollows
<1>5. CASE RestoreAll
  <2>1. /\ todo = <<>> /\ UndoLast /\ mode = "stopping"
        /\ UNCHANGED <<node, spends, trouble, mode, db>>
    BY <1>5 DEF RestoreAll
  <2> QED BY <2>1, UndoFollows
<1>6. CASE Start
  BY <1>6, StartFollows
<1>7. CASE MissingPrevout \/ Signal \/ Exit
  <2>1. UNCHANGED <<node, spends, trouble, at, todo, db>> /\ mode' \in {mode, "stopping", "down"}
    BY <1>7 DEF MissingPrevout, Signal, Exit
  <2> QED BY <2>1, StillFollows
<1>8. CASE Terminated \/ Waiting
  <2>1. UNCHANGED <<node, spends, trouble, at, todo, db>> /\ mode' \in {mode, "stopping", "down"}
    BY <1>8 DEF Terminated, Waiting, vars
  <2> QED BY <2>1, StillFollows
<1>9. ~Crash
  BY DEF ChainsOk, Crash
<1> QED BY <1>1, <1>2, <1>3, <1>4, <1>5, <1>6, <1>7, <1>8, <1>9 DEF Next

\* What a request has read stays true while the indexer goes on.
LEMMA RequestKept ==
  ASSUME Inv, Inv', ChainsOk, TablesOk, RequestOk, Follows, Remembers,
         UNCHANGED readerVars, ~Ended, mode' # "down"
  PROVE  RequestOk'
<1>1. query' = query /\ step' = step /\ seen' = seen /\ step \notin {"done", "failed", "unavailable"}
  BY DEF readerVars, Ended
<1>2. DOMAIN seen = DOMAIN Nothing /\ (query = "none" => step = "open") /\ (mode = "down" => query = "none")
  BY DEF RequestOk, Allowed
<1>3. ASSUME NEW p, NEW h, HasBelonged(p, h)
      PROVE  Belongs(Len(spends'), node', at', db'["block_info"], p, h)
  BY <1>3, HasBelongedKept DEF Follows
<1>4. query = "status" /\ step \in {"proof_of_history", "block_info"} => seen.height \in Heights
  BY DEF RequestOk, Allowed
<1>5. ASSUME query = "status", step = "block_info"
      PROVE  seen.proof # <<>> /\ HasBelonged(Last(seen.proof), seen.height)'
  <2> PICK p, h : p = Last(seen.proof) /\ h = seen.height
    OBVIOUS
  <2>1. seen.proof # <<>> /\ HasBelonged(p, h)
    BY <1>5 DEF RequestOk, Allowed
  <2>2. Belongs(Len(spends'), node', at', db'["block_info"], p, h)
    BY <1>3, <2>1
  <2>3. Last(seen'.proof) = p /\ seen'.height = h
    BY <1>1
  <2>4. Belongs(Len(spends'), node', at', db'["block_info"], Last(seen'.proof), seen'.height)
    BY <2>2, <2>3
  <2> QED BY <2>1, <2>4 DEF HasBelonged
<1>6. ASSUME query = "history", step = "created"
      PROVE  HasBelonged(seen.rows[1], seen.height)'
  <2> PICK p, h : p = seen.rows[1] /\ h = seen.height
    OBVIOUS
  <2>1. HasBelonged(p, h)
    BY <1>6 DEF RequestOk, Allowed
  <2>2. Belongs(Len(spends'), node', at', db'["block_info"], p, h)
    BY <1>3, <2>1
  <2>3. seen'.rows[1] = p /\ seen'.height = h
    BY <1>1
  <2>4. Belongs(Len(spends'), node', at', db'["block_info"], seen'.rows[1], seen'.height)
    BY <2>2, <2>3
  <2> QED BY <2>4 DEF HasBelonged
<1>7. query = "proof" /\ step = "compare" => seen.height \in Heights \ {0}
  BY DEF RequestOk, Allowed
<1>8. ASSUME query = "proof", step = "transfers"
      PROVE  seen.best \in past' /\ Settled(node', mode', at', db'["block_info"], seen.best)
  <2> PICK b : b = seen.best
    OBVIOUS
  <2>1. b \in past /\ Settled(node, mode, at, db["block_info"], b)
    BY <1>8 DEF RequestOk, Allowed
  <2>2. mode # "down"
    BY <1>2, <1>8
  <2>3. b \in past'
    BY <2>1 DEF Remembers
  <2>4. \A x \in past : Settled(node, mode, at, db["block_info"], x) =>
                        Settled(node', mode', at', db'["block_info"], x)
    BY <2>2 DEF Follows
  <2>5. Settled(node', mode', at', db'["block_info"], b)
    BY <2>1, <2>4
  <2> QED BY <2>3, <2>5
<1>9. AnswersOneBlock' /\ ProofCurrent'
  BY <1>1 DEF AnswersOneBlock, ProofCurrent
<1> QED BY <1>1, <1>2, <1>4, <1>5, <1>6, <1>7, <1>8, <1>9 DEF RequestOk, Allowed

\* The indexer begins or undoes no block without moving.
LEMMA UnmovedKept ==
  ASSUME Inv, ChainsOk, RequestOk, Unmoved, Next, UNCHANGED readerVars, mode' # "down",
         moved' = (moved \/ (query # "none" /\ at' # at))
  PROVE  Unmoved'
<1>1. query' = query /\ step' = step /\ seen' = seen
  BY DEF readerVars
<1> SUFFICES ASSUME query # "none", ~moved, at' = at PROVE Unmoved'
  <2>1. query' # "none" /\ ~moved' => query # "none" /\ ~moved /\ at' = at
    BY <1>1
  <2> QED BY <2>1 DEF Unmoved
<1>2. todo = <<>> /\ mode # "down"
  BY DEF Unmoved, RequestOk, Allowed
<1>3. at \in Seq(Nat) /\ Len(at) \in Nat
  BY ChainFacts DEF ChainsTyped
<1>4. ~Apply
  <2>1. ASSUME NEW x, at = Append(at, x) PROVE FALSE
    <3> PICK n : n = Len(at)
      OBVIOUS
    <3>1. Len(Append(at, x)) = n + 1 /\ n \in Nat
      BY <1>3
    <3> QED BY <2>1, <3>1
  <2> QED BY <2>1 DEF Apply
<1>5. ~UndoLast
  <2>1. ASSUME UndoLast PROVE FALSE
    <3>1. savepoints # <<>> /\ at = Front(at)
      BY <2>1 DEF UndoLast
    <3> PICK n, m, k : n = Len(at) /\ m = n - 1 /\ k = Len(savepoints)
      OBVIOUS
    <3>2. n - k >= StartHeight /\ k \in Nat /\ StartHeight \in Nat \ {0}
      BY <3>1, WriteAssumption DEF Inv, AtOk, IsASeq
    <3>3. m \in Nat /\ n = m + 1
      BY ONLY <1>3, <3>2, n = Len(at), m = n - 1
    <3>4. Len(Front(at)) = m
      BY <1>3, <3>3, FrontIs
    <3> QED BY <3>1, <3>3, <3>4
  <2> QED BY <2>1
<1>6. ~Start /\ ~Write /\ ~RestoreBlock /\ ~RestoreAll /\ ~Crash
  BY <1>2, <1>5 DEF Start, Write, RestoreBlock, RestoreAll, Crash, ChainsOk
<1>7. todo' = todo /\ db' = db
  <2>1. CASE Mine \/ NodeReorg \/ MissingPrevout \/ Signal \/ Exit
    BY <2>1 DEF Mine, NodeReorg, MissingPrevout, Signal, Exit
  <2>2. CASE Terminated \/ Waiting
    BY <2>2 DEF Terminated, Waiting, vars
  <2> QED BY <1>4, <1>6, <2>1, <2>2 DEF Next
<1>8. Unmoved
  OBVIOUS
<1> QED BY <1>1, <1>7, <1>8 DEF Unmoved

----------------------------------------------------------------------------
(* The reads. *)

\* Between two blocks the row of last_block is there, and its proof.
LEMMA TipThere ==
  ASSUME Inv, ChainsOk, mode # "down", todo = <<>>, db["last_block"] # 0,
         NEW h, h = db["last_block"]
  PROVE  db["proof_of_history"][h] # <<>> /\ db["block_info"][h] # Missing
<1>1. Rest(spends, 0, trouble, db, at)
  BY Quiet DEF ChainsOk
<1> PICK n : n = Len(at)
  OBVIOUS
<1>2. /\ at \in Seq(Nat) /\ n \in Nat /\ n <= MaxBlocks /\ MaxBlocks \in Nat /\ StartHeight \in Nat \ {0}
      /\ Len(spends) \in Nat /\ \A i \in 1..n : at[i] \in 1..Len(spends)
  <2>1. /\ at \in Seq(Nat) /\ n \in Nat /\ n <= Len(node) /\ Len(node) <= MaxBlocks /\ Len(node) \in Nat
        /\ Len(spends) \in Nat /\ \A i \in 1..n : at[i] \in 1..Len(spends)
    BY ChainFacts DEF ChainsTyped, ChainsOk
  <2>2. MaxBlocks \in Nat /\ StartHeight \in Nat \ {0}
    BY WriteAssumption
  <2> PICK y : y = Len(node)
    OBVIOUS
  <2>3. n <= MaxBlocks
    BY ONLY <2>1, <2>2, y = Len(node)
  <2> QED BY <2>1, <2>2, <2>3
<1>3. h = n /\ n >= StartHeight
  <2>1. h = LastOf(n)
    BY <1>1 DEF Rest
  <2> QED BY <2>1 DEF LastOf
<1>4. n \in Heights /\ n \in StartHeight..n /\ n \in 1..n
  BY <1>2, <1>3 DEF Heights
<1>5. db["block_info"][h] = at[n]
  BY <1>1, <1>2, <1>3, <1>4, RestInfo
<1>6. at[n] # Missing
  BY <1>2, <1>4 DEF Missing
<1> PICK p, q : p = SubSeq(at, StartHeight, n) /\ q = n - StartHeight + 1
  OBVIOUS
<1>7. db["proof_of_history"][h] = p
  BY <1>1, <1>3, <1>4 DEF Rest, Kept
<1>8. Len(p) = q
  <2>1. /\ at \in Seq(Nat) /\ StartHeight \in Nat /\ n \in Nat /\ StartHeight >= 1
        /\ StartHeight <= n + 1 /\ n <= Len(at)
    BY <1>2, <1>3
  <2>2. q = n - StartHeight + 1 /\ p = SubSeq(at, StartHeight, n)
    OBVIOUS
  <2> QED BY ONLY <2>1, <2>2, PartAs
<1>9. p # <<>>
  <2>1. Len(<<>>) = 0
    OBVIOUS
  <2>2. ASSUME p = <<>> PROVE FALSE
    <3>1. q = 0
      BY ONLY <1>8, <2>1, <2>2
    <3> QED BY ONLY <1>2, <1>3, <3>1, q = n - StartHeight + 1
  <2> QED BY <2>2
<1> QED BY <1>5, <1>6, <1>7, <1>9

\* The time of a block with a row in the history is there.
LEMMA RowTimeThere ==
  ASSUME Inv, ChainsOk, mode # "down", todo = <<>>, NEW r \in ToSet(db["address_token_to_history"])
  PROVE  db["block_info"][HeightOf(r)] # Missing
<1>1. Rest(spends, 0, trouble, db, at)
  BY Quiet DEF ChainsOk
<1>2. /\ at \in Seq(Nat) /\ Len(at) \in Nat /\ DOMAIN at = 1..Len(at) /\ Len(spends) \in Nat
      /\ OneHeight(at) /\ \A i \in 1..Len(at) : at[i] \in 1..Len(spends)
  BY ChainFacts DEF ChainsTyped, ChainsOk
<1> PICK x : x = RowsIn(spends, at)
  OBVIOUS
<1>3. db["address_token_to_history"] = x
  <2>1. "address_token_to_history" \in RowSet
    BY DEF RowSet
  <2> QED BY <1>1, <2>1 DEF Rest, RowsAre
<1>4. x \in Seq(Int) /\ Among(x, at, Len(at))
  <2>1. Len(at) \in 0..Len(at)
    BY <1>2
  <2> QED BY <1>2, <2>1, RowsGrow, RowsAmong
<1> PICK i \in 1..Len(x) : r = x[i]
  BY <1>3, <1>4 DEF ToSet
<1> PICK h \in StartHeight..Len(at) : r = at[h]
  BY <1>4 DEF Among
<1>5. h \in 1..Len(at) /\ h \in Heights
  <2>1. Len(at) <= Len(node) /\ Len(node) <= MaxBlocks /\ Len(node) \in Nat /\ MaxBlocks \in Nat
        /\ StartHeight \in Nat \ {0}
    BY ChainFacts, WriteAssumption DEF ChainsTyped, ChainsOk
  <2> PICK y, n : y = Len(node) /\ n = Len(at)
    OBVIOUS
  <2>2. n \in Nat /\ n <= y /\ y <= MaxBlocks /\ y \in Nat /\ MaxBlocks \in Nat /\ StartHeight \in Nat \ {0}
        /\ h \in StartHeight..n
    BY <1>2, <2>1
  <2>3. h \in 1..n /\ h \in 0..MaxBlocks
    BY ONLY <2>2
  <2> QED BY <2>3 DEF Heights
<1>6. HeightOf(r) = h
  BY <1>2, <1>5, HeightIs
<1>7. db["block_info"][h] = at[h]
  BY <1>1, <1>2, <1>5, RestInfo
<1> QED BY <1>2, <1>5, <1>6, <1>7 DEF Missing

LEMMA FieldSet ==
  ASSUME NEW s, DOMAIN s = DOMAIN Nothing, NEW f \in DOMAIN Nothing, NEW v, NEW u, u = Updated(s, f, v)
  PROVE  DOMAIN u = DOMAIN Nothing /\ \A g \in DOMAIN Nothing : u[g] = IF g = f THEN v ELSE s[g]
BY DEF Updated

LEMMA Fields == DOMAIN Nothing = {"height", "best", "block", "proof", "rows"}
BY DEF Nothing

\* A row whose proof was read is that of the block of the height, or off the node.
LEMMA Joins ==
  ASSUME NEW p, NEW h, HasBelonged(p, h), db["block_info"][h] # Missing, DOMAIN node = 1..Len(node)
  PROVE  p = db["block_info"][h] \/ p \notin ToSet(node)
<1>1. ASSUME p \in ToSet(node) PROVE IsOn(node, p)
  BY <1>1 DEF ToSet, IsOn
<1> QED BY <1>1 DEF HasBelonged, Belongs

\* The block that the process last put into the tables, when the node calls it its best.
LEMMA BestSettled ==
  ASSUME Inv, ChainsOk, TablesOk, mode # "down", NEW h \in Heights \ {0}, db["block_info"][h] # Missing,
         NEW b, b = db["block_info"][h]
  PROVE  b \in past /\ Settled(node, mode, at, db["block_info"], b)
<1>1. /\ b \in past
      /\ h <= Len(at) => b = at[h]
      /\ h > Len(at) => /\ \A i \in 1..Len(at) : at[i] # b
                        /\ mode = "running" => ~IsOn(node, b)
  BY DEF TablesOk, InfoOk
<1>2. Len(at) \in Nat /\ h \in Nat \ {0} /\ OneHeight(at) /\ mode \in {"running", "stopping"}
  <2>1. Len(at) \in Nat
    BY ChainFacts DEF ChainsTyped
  <2>2. h \in Nat \ {0}
    BY WriteAssumption DEF Heights
  <2>3. mode \in {"running", "stopping"}
    BY DEF Inv, Stage
  <2> QED BY <2>1, <2>2, <2>3 DEF ChainsOk
<1>3. CASE h <= Len(at)
  <2>1. h \in 1..Len(at) /\ at[h] = b
    BY <1>1, <1>2, <1>3
  <2>2. \A i \in 1..Len(at) : at[i] = b => i = h
    BY <1>2, <2>1 DEF OneHeight
  <2> QED BY <1>1, <2>1, <2>2 DEF Settled
<1>4. CASE h > Len(at)
  BY <1>1, <1>2, <1>4 DEF Settled
<1> QED BY <1>2, <1>3, <1>4

\* The rows of a chain, before and after a step.
RowsEqual == \A c : RowsOf(c) = RowsIn(spends, c)

LEMMA RowsEqualHolds == TRUE => RowsEqual
BY RowsOfIs DEF RowsEqual

LEMMA RowsEqualNext == RowsEqual'
<1>1. (TRUE => RowsEqual)'
  BY RowsEqualHolds, PTL
<1> QED BY <1>1

LEMMA ReadOk ==
  ASSUME UNCHANGED <<vars, past>>, NEW q, NEW s, NEW v, q = query', s = step', v = seen',
         Allowed(q, s, v), AnswersOneBlock', ProofCurrent'
  PROVE  RequestOk'
<1>1. /\ node' = node /\ spends' = spends /\ mode' = mode /\ at' = at /\ db' = db /\ past' = past
  BY DEF vars
<1> QED BY <1>1 DEF RequestOk, Allowed, HasBelonged

LEMMA StatusReads ==
  ASSUME Inv, ChainsOk, TablesOk, RequestOk, Unmoved, UNCHANGED <<vars, past>>,
         StatusHeight \/ StatusProof \/ StatusBlock
  PROVE  RequestOk' /\ Unmoved'
<1>1. /\ node' = node /\ spends' = spends /\ mode' = mode /\ at' = at /\ db' = db /\ past' = past /\ todo' = todo
  BY DEF vars
<1> PICK q, s, v, h : q = query' /\ s = step' /\ v = seen' /\ h = seen.height
  OBVIOUS
<1>2. /\ DOMAIN seen = DOMAIN Nothing /\ "height" \in DOMAIN Nothing /\ "proof" \in DOMAIN Nothing
      /\ "block" \in DOMAIN Nothing /\ DOMAIN node = 1..Len(node)
  BY Fields, ChainFacts DEF RequestOk, Allowed, ChainsTyped
<1>3. CASE StatusHeight
  <2>1. /\ q = "status" /\ s = "proof_of_history" /\ mode # "down" /\ db["last_block"] # 0
        /\ moved' = (todo # <<>>) /\ v = Updated(Nothing, "height", db["last_block"])
    BY <1>3 DEF StatusHeight, Open, Updated
  <2>2. DOMAIN v = DOMAIN Nothing /\ v["height"] = db["last_block"]
    BY <1>2, <2>1, FieldSet
  <2>3. Allowed(q, s, v)
    BY <2>1, <2>2 DEF Allowed, TablesOk
  <2>4. AnswersOneBlock' /\ ProofCurrent'
    BY <2>1 DEF AnswersOneBlock, ProofCurrent
  <2>5. Unmoved'
    BY <1>1, <2>1, <2>2 DEF Unmoved
  <2> QED BY <2>3, <2>4, <2>5, ReadOk
<1>4. CASE StatusProof
  <2> PICK p : p = db["proof_of_history"][h]
    OBVIOUS
  <2>1. /\ query = "status" /\ step = "proof_of_history" /\ q = "status" /\ mode # "down" /\ moved' = moved
        /\ s = (IF p # <<>> THEN "block_info" ELSE "failed") /\ v = Updated(seen, "proof", p)
    BY <1>4 DEF StatusProof, Reads, ProofHeight, Go, Updated
  <2>2. DOMAIN v = DOMAIN Nothing /\ v["height"] = h /\ v["proof"] = p
    BY <1>2, <2>1, FieldSet
  <2>3. h \in Heights
    BY <2>1 DEF RequestOk, Allowed
  <2>4. p # <<>> => HasBelonged(Last(p), h)
    BY <2>3 DEF TablesOk, ProofsOk, HasBelonged
  <2>5. Allowed(q, s, v)
    BY <2>1, <2>2, <2>3, <2>4 DEF Allowed
  <2>6. AnswersOneBlock' /\ ProofCurrent'
    BY <2>1 DEF AnswersOneBlock, ProofCurrent
  <2>7. ~moved => todo = <<>> /\ db["last_block"] # 0 /\ h = db["last_block"]
    BY <2>1 DEF Unmoved
  <2>8. ~moved => p # <<>>
    BY <2>1, <2>7, TipThere
  <2>9. Unmoved'
    BY <1>1, <2>1, <2>2, <2>7, <2>8 DEF Unmoved
  <2> QED BY <2>5, <2>6, <2>9, ReadOk
<1>5. CASE StatusBlock
  <2> PICK b : b = db["block_info"][h]
    OBVIOUS
  <2>1. /\ query = "status" /\ step = "block_info" /\ q = "status" /\ mode # "down" /\ moved' = moved
        /\ s = (IF b # Missing THEN "done" ELSE "failed") /\ v = Updated(seen, "block", b)
    BY <1>5 DEF StatusBlock, Reads, Go, Updated
  <2>2. DOMAIN v = DOMAIN Nothing /\ v["proof"] = seen["proof"] /\ v["block"] = b
    BY <1>2, <2>1, FieldSet
  <2> PICK p : p = Last(seen.proof)
    OBVIOUS
  <2>3. HasBelonged(p, h)
    BY <2>1 DEF RequestOk, Allowed
  <2>4. b # Missing => p = b \/ p \notin ToSet(node)
    BY <1>2, <2>3, Joins
  <2>5. Allowed(q, s, v)
    BY <2>1, <2>2 DEF Allowed
  <2>6. AnswersOneBlock' /\ ProofCurrent'
    <3>1. q = "status" /\ (s = "done" => Last(v.proof) = v.block \/ Last(v.proof) \notin ToSet(node))
      BY <2>1, <2>2, <2>4
    <3> QED BY <1>1, <3>1 DEF AnswersOneBlock, ProofCurrent
  <2>7. ~moved => todo = <<>> /\ db["last_block"] # 0 /\ h = db["last_block"]
    BY <2>1 DEF Unmoved
  <2>8. ~moved => b # Missing
    BY <2>1, <2>7, TipThere
  <2>9. Unmoved'
    BY <1>1, <2>1, <2>7, <2>8 DEF Unmoved
  <2> QED BY <2>5, <2>6, <2>9, ReadOk
<1> QED BY <1>3, <1>4, <1>5

LEMMA HistoryReads ==
  ASSUME Inv, ChainsOk, TablesOk, RequestOk, Unmoved, UNCHANGED <<vars, past>>,
         HistoryRows \/ HistoryCreated
  PROVE  RequestOk' /\ Unmoved'
<1>1. /\ node' = node /\ spends' = spends /\ mode' = mode /\ at' = at /\ db' = db /\ past' = past /\ todo' = todo
  BY DEF vars
<1> PICK q, s, v, h : q = query' /\ s = step' /\ v = seen' /\ h = seen.height
  OBVIOUS
<1>2. /\ DOMAIN seen = DOMAIN Nothing /\ "height" \in DOMAIN Nothing /\ "rows" \in DOMAIN Nothing
      /\ "block" \in DOMAIN Nothing /\ DOMAIN node = 1..Len(node)
  BY Fields, ChainFacts DEF RequestOk, Allowed, ChainsTyped
<1>3. CASE HistoryRows
  <2>1. /\ q = "history" /\ s = "created" /\ mode # "down" /\ db["last_block"] # 0 /\ moved' = (todo # <<>>)
        /\ \E b \in ToSet(db["address_token_to_history"]) :
             v = [Nothing EXCEPT !.rows = <<b>>, !.height = HeightOf(b)]
    BY <1>3 DEF HistoryRows, Open
  <2> PICK b \in ToSet(db["address_token_to_history"]) :
             v = [Nothing EXCEPT !.rows = <<b>>, !.height = HeightOf(b)]
    BY <2>1
  <2> PICK g, r : g = HeightOf(b) /\ r = <<b>>
    OBVIOUS
  <2>2. DOMAIN v = DOMAIN Nothing /\ v["height"] = g /\ v["rows"] = r /\ r[1] = b
    <3>1. v = Updated(Updated(Nothing, "rows", r), "height", g)
      BY DEF Updated
    <3> PICK u : u = Updated(Nothing, "rows", r)
      OBVIOUS
    <3>2. DOMAIN u = DOMAIN Nothing /\ u["rows"] = r
      BY <1>2, FieldSet
    <3>3. DOMAIN v = DOMAIN Nothing /\ v["height"] = g /\ v["rows"] = u["rows"]
      BY <1>2, <3>1, <3>2, FieldSet
    <3> QED BY <3>2, <3>3
  <2>3. HasBelonged(b, g)
    BY <2>1, HistoryBelongs
  <2>4. Allowed(q, s, v)
    BY <2>1, <2>2, <2>3 DEF Allowed
  <2>5. AnswersOneBlock' /\ ProofCurrent'
    BY <2>1 DEF AnswersOneBlock, ProofCurrent
  <2>6. todo = <<>> => db["block_info"][g] # Missing
    BY <2>1, RowTimeThere
  <2>7. Unmoved'
    BY <1>1, <2>1, <2>2, <2>6 DEF Unmoved
  <2> QED BY <2>4, <2>5, <2>7, ReadOk
<1>4. CASE HistoryCreated
  <2> PICK b : b = db["block_info"][h]
    OBVIOUS
  <2>1. /\ query = "history" /\ step = "created" /\ q = "history" /\ mode # "down" /\ moved' = moved
        /\ s = (IF b # Missing THEN "done" ELSE "failed") /\ v = Updated(seen, "block", b)
    BY <1>4 DEF HistoryCreated, Reads, Go, Updated
  <2>2. DOMAIN v = DOMAIN Nothing /\ v["rows"] = seen["rows"] /\ v["block"] = b
    BY <1>2, <2>1, FieldSet
  <2> PICK p : p = seen.rows[1]
    OBVIOUS
  <2>3. HasBelonged(p, h)
    BY <2>1 DEF RequestOk, Allowed
  <2>4. b # Missing => p = b \/ p \notin ToSet(node)
    BY <1>2, <2>3, Joins
  <2>5. Allowed(q, s, v)
    BY <2>1, <2>2 DEF Allowed
  <2>6. AnswersOneBlock' /\ ProofCurrent'
    <3>1. q = "history" /\ (s = "done" => v.rows[1] = v.block \/ v.rows[1] \notin ToSet(node))
      BY <2>1, <2>2, <2>4
    <3> QED BY <1>1, <3>1 DEF AnswersOneBlock, ProofCurrent
  <2>7. ~moved => todo = <<>> /\ db["last_block"] # 0 /\ b # Missing
    BY <2>1 DEF Unmoved
  <2>8. Unmoved'
    BY <1>1, <2>1, <2>7 DEF Unmoved
  <2> QED BY <2>5, <2>6, <2>8, ReadOk
<1> QED BY <1>3, <1>4

LEMMA ProofReads ==
  ASSUME Inv, ChainsOk, TablesOk, RequestOk, Unmoved, UNCHANGED <<vars, past>>,
         ProofBest \/ ProofHeightRead \/ ProofCompare \/ ProofTransfers \/ ProofGivesUp
  PROVE  RequestOk' /\ Unmoved'
<1>1. /\ node' = node /\ spends' = spends /\ mode' = mode /\ at' = at /\ db' = db /\ past' = past /\ todo' = todo
  BY DEF vars
<1> PICK q, s, v, h, l : q = query' /\ s = step' /\ v = seen' /\ h = seen.height /\ l = db["last_block"]
  OBVIOUS
<1>2. /\ DOMAIN seen = DOMAIN Nothing /\ "height" \in DOMAIN Nothing /\ "rows" \in DOMAIN Nothing
      /\ "block" \in DOMAIN Nothing /\ "best" \in DOMAIN Nothing
  BY Fields DEF RequestOk, Allowed
<1>3. AnswersOneBlock' /\ (s # "done" => ProofCurrent')
  <2>1. q = "proof"
    BY DEF ProofBest, ProofHeightRead, ProofCompare, ProofTransfers, ProofGivesUp, Open, Reads
  <2> QED BY <2>1 DEF AnswersOneBlock, ProofCurrent
<1>4. CASE ProofBest
  <2>1. /\ q = "proof" /\ s = "last_block" /\ mode # "down"
        /\ (moved' = (todo # <<>>) /\ l # 0) \/ (query = "proof" /\ moved' = moved)
        /\ v = Updated(seen, "best", Last(node))
    BY <1>4 DEF ProofBest, Open, Reads, Updated
  <2>2. DOMAIN v = DOMAIN Nothing
    BY <1>2, <2>1, FieldSet
  <2>3. Allowed(q, s, v)
    BY <2>1, <2>2 DEF Allowed
  <2>4. ASSUME ~moved' PROVE todo = <<>> /\ l # 0
    <3>1. CASE moved' = (todo # <<>>) /\ l # 0
      BY <2>4, <3>1
    <3>2. CASE query = "proof" /\ moved' = moved
      <4>1. query # "none" /\ ~moved
        BY <2>4, <3>2
      <4> QED BY <4>1 DEF Unmoved
    <3> QED BY <2>1, <3>1, <3>2
  <2>5. Unmoved'
    BY <1>1, <2>1, <2>4 DEF Unmoved
  <2> QED BY <1>3, <2>1, <2>3, <2>5, ReadOk
<1>5. CASE ProofHeightRead
  <2>1. /\ q = "proof" /\ query = "proof" /\ mode # "down" /\ moved' = moved
        /\ s = (IF l # 0 THEN "compare" ELSE "failed") /\ v = Updated(seen, "height", l)
    BY <1>5 DEF ProofHeightRead, Reads, Go, Updated
  <2>2. DOMAIN v = DOMAIN Nothing /\ v["height"] = l
    BY <1>2, <2>1, FieldSet
  <2>3. Allowed(q, s, v)
    BY <2>1, <2>2 DEF Allowed, TablesOk
  <2>4. ~moved => todo = <<>> /\ l # 0
    BY <2>1 DEF Unmoved
  <2>5. Unmoved'
    BY <1>1, <2>1, <2>2, <2>4 DEF Unmoved
  <2> QED BY <1>3, <2>1, <2>3, <2>5, ReadOk
<1>6. CASE ProofCompare
  <2> PICK b : b = db["block_info"][h]
    OBVIOUS
  <2>1. /\ q = "proof" /\ query = "proof" /\ step = "compare" /\ mode # "down" /\ moved' = moved
        /\ s = (IF b # Missing THEN IF b = seen.best THEN "transfers" ELSE "best" ELSE "failed")
        /\ v = Updated(seen, "block", b)
    BY <1>6 DEF ProofCompare, Reads, Go, Updated, Synced
  <2>2. DOMAIN v = DOMAIN Nothing /\ v["best"] = seen["best"]
    BY <1>2, <2>1, FieldSet
  <2>3. h \in Heights \ {0}
    BY <2>1 DEF RequestOk, Allowed
  <2>4. b # Missing => b \in past /\ Settled(node, mode, at, db["block_info"], b)
    BY <2>1, <2>3, BestSettled
  <2>5. Allowed(q, s, v)
    BY <2>1, <2>2, <2>4 DEF Allowed
  <2>6. ~moved => todo = <<>> /\ l # 0 /\ h = l
    BY <2>1 DEF Unmoved
  <2>7. ~moved => b # Missing
    BY <2>1, <2>6, TipThere
  <2>8. Unmoved'
    BY <1>1, <2>1, <2>6, <2>7 DEF Unmoved
  <2>9. s # "done"
    BY <2>1
  <2> QED BY <1>3, <2>5, <2>8, <2>9, ReadOk
<1>7. CASE ProofTransfers
  <2> PICK r, b : r = db["address_location_to_transfer"] /\ b = seen.best
    OBVIOUS
  <2>1. /\ q = "proof" /\ query = "proof" /\ step = "transfers" /\ s = "done" /\ mode # "down" /\ moved' = moved
        /\ v = Updated(seen, "rows", r)
    BY <1>7 DEF ProofTransfers, Reads, Updated
  <2>2. DOMAIN v = DOMAIN Nothing /\ v["best"] = b /\ v["rows"] = r
    BY <1>2, <2>1, FieldSet
  <2>3. b \in past /\ Settled(node, mode, at, db["block_info"], b)
    BY <2>1 DEF RequestOk, Allowed
  <2>4. Allowed(q, s, v)
    BY <2>1, <2>2 DEF Allowed
  <2>5. ~moved => todo = <<>> /\ l # 0
    BY <2>1 DEF Unmoved
  <2>6. Unmoved'
    BY <1>1, <2>1, <2>5 DEF Unmoved
  <2> PICK g : g = HeightOf(b)
    OBVIOUS
  <2>7. ASSUME b \in ToSet(at) PROVE IsPrefix(RowsIn(spends, SubSeq(at, 1, g)), r)
    <3>1. DOMAIN at = 1..Len(at) /\ OneHeight(at)
      BY ChainFacts DEF ChainsTyped, ChainsOk
    <3> PICK k \in 1..Len(at) : b = at[k]
      BY <2>7, <3>1 DEF ToSet
    <3>2. g = k
      BY <3>1, HeightIs
    <3>3. db["block_info"][k] = at[k]
      BY <2>3 DEF Settled
    <3>4. "address_location_to_transfer" \in RowSet
      BY DEF RowSet
    <3> QED BY <2>1, <3>2, <3>3, <3>4, InfoHasRows
  <2>8. ProofCurrent'
    <3>1. HeightOf(b)' = g
      BY <1>1 DEF HeightOf
    <3>2. \A x : RowsOf(x)' = RowsIn(spends, x)
      BY <1>1, RowsEqualNext DEF RowsEqual
    <3>3. v.best = b /\ v.rows = r
      BY <2>2
    <3>4. (IsPrefix(RowsOf(SubSeq(at, 1, HeightOf(b))), r))' <=> IsPrefix(RowsIn(spends, SubSeq(at, 1, g)), r)
      BY <1>1, <3>1, <3>2
    <3>5. v.best \in past' /\ (v.best \in ToSet(at) => (IsPrefix(RowsOf(SubSeq(at, 1, HeightOf(b))), r))')
      BY <1>1, <2>3, <2>7, <3>3, <3>4
    <3> QED BY <1>1, <3>3, <3>5 DEF ProofCurrent
  <2> QED BY <1>3, <2>4, <2>6, <2>8, ReadOk
<1>8. CASE ProofGivesUp
  <2>1. /\ q = "proof" /\ query = "proof" /\ s = "unavailable" /\ mode # "down" /\ moved' = moved /\ v = seen
    BY <1>8 DEF ProofGivesUp, Reads
  <2>2. Allowed(q, s, v)
    BY <1>2, <2>1 DEF Allowed
  <2>3. Unmoved'
    BY <1>1, <2>1 DEF Unmoved
  <2> QED BY <1>3, <2>1, <2>2, <2>3, ReadOk
<1> QED BY <1>4, <1>5, <1>6, <1>7, <1>8

\* No request.
LEMMA NoRequestOk ==
  ASSUME NoRequest
  PROVE  RequestOk' /\ Unmoved'
<1>1. query' = "none" /\ step' = "open" /\ DOMAIN seen' = DOMAIN Nothing
  BY DEF NoRequest
<1> QED BY <1>1 DEF RequestOk, Allowed, Unmoved, AnswersOneBlock, ProofCurrent

LEMMA ReadInitInv ==
  ASSUME ReadInit
  PROVE  RInv
<1>1. /\ Init /\ trouble = "reorg" /\ query = "none" /\ step = "open" /\ seen = Nothing /\ moved = FALSE
      /\ past = {} /\ at = <<>> /\ todo = <<>> /\ db = EmptyDB /\ node = [h \in 1..InitLen |-> h]
  BY DEF ReadInit, Init
<1>2. Inv
  BY <1>1, InitInv
<1>3. InitLen \in Nat /\ Len(node) = InitLen /\ \A h \in 1..InitLen : node[h] = h
  <2>1. InitLen \in Nat
    BY WriteAssumption
  <2> QED BY <1>1, <2>1
<1>4. Len(at) = 0 /\ 1..0 = {}
  BY <1>1
<1>5. ChainsOk
  <2>1. OneHeight(node)
    BY <1>3 DEF OneHeight
  <2>2. OneHeight(at) /\ SamePast(at, node) /\ \A h \in 1..Len(at) : at[h] \in past
    BY <1>4 DEF OneHeight, SamePast
  <2>3. Len(at) <= Len(node)
    BY <1>3, <1>4
  <2> QED BY <1>1, <2>1, <2>2, <2>3 DEF ChainsOk
<1>6. TablesOk
  <2>1. /\ db["last_block"] = 0 /\ db["block_info"] = [h \in Heights |-> Missing]
        /\ db["proof_of_history"] = [h \in Heights |-> <<>>]
    BY <1>1 DEF EmptyDB
  <2>2. 0 \in Heights
    BY WriteAssumption DEF Heights
  <2>3. ~Undoing(todo)
    BY <1>1 DEF Undoing
  <2> QED BY <2>1, <2>2, <2>3 DEF TablesOk, InfoOk, ProofsOk
<1>7. RequestOk /\ Unmoved
  BY <1>1 DEF RequestOk, Allowed, Unmoved, AnswersOneBlock, ProofCurrent
<1> QED BY <1>2, <1>5, <1>6, <1>7 DEF RInv

LEMMA ReadNextInv ==
  ASSUME RInv, [ReadNext]_readVars
  PROVE  RInv'
<1>1. Inv /\ ChainsOk /\ TablesOk /\ RequestOk /\ Unmoved
  BY DEF RInv
\* The tables stay, whatever is read of them.
<1>2. ASSUME UNCHANGED <<vars, past>> PROVE Inv' /\ ChainsOk' /\ TablesOk'
  <2>1. Inv'
    BY <1>1, <1>2, NextInv
  <2>2. /\ node' = node /\ spends' = spends /\ mode' = mode /\ at' = at /\ db' = db /\ past' = past
        /\ todo' = todo /\ trouble' = trouble
    BY <1>2 DEF vars
  <2>3. ChainsOk'
    BY <1>1, <2>2 DEF ChainsOk
  <2>4. TablesOk'
    BY <1>1, <2>2 DEF TablesOk
  <2> QED BY <2>1, <2>3, <2>4
<1>3. CASE /\ Next /\ ~Ended /\ past' = past \cup ToSet(at')
           /\ \/ mode' = "down" /\ NoRequest
              \/ /\ mode' # "down"
                 /\ moved' = (moved \/ (query # "none" /\ at' # at))
                 /\ UNCHANGED readerVars
  <2>1. Inv'
    BY <1>1, <1>3, NextInv
  <2>2. Follows
    BY <1>1, <1>3, <2>1, IndexerFollows DEF Remembers
  <2>3. ChainsOk' /\ TablesOk'
    BY <2>2 DEF Follows
  <2>4. CASE NoRequest
    BY <2>1, <2>3, <2>4, NoRequestOk DEF RInv
  <2>5. CASE /\ mode' # "down"
             /\ moved' = (moved \/ (query # "none" /\ at' # at))
             /\ UNCHANGED readerVars
    <3>1. RequestOk'
      BY <1>1, <1>3, <2>1, <2>2, <2>5, RequestKept DEF Remembers
    <3>2. Unmoved'
      BY <1>1, <1>3, <2>5, UnmovedKept
    <3> QED BY <2>1, <2>3, <3>1, <3>2 DEF RInv
  <2> QED BY <1>3, <2>4, <2>5
<1>4. CASE Read
  <2>1. UNCHANGED <<vars, past>>
    BY <1>4 DEF Read
  <2>2. CASE StatusHeight \/ StatusProof \/ StatusBlock
    BY <1>1, <1>2, <2>1, <2>2, StatusReads DEF RInv
  <2>3. CASE ProofBest \/ ProofHeightRead \/ ProofCompare \/ ProofTransfers \/ ProofGivesUp
    BY <1>1, <1>2, <2>1, <2>3, ProofReads DEF RInv
  <2>4. CASE HistoryRows \/ HistoryCreated
    BY <1>1, <1>2, <2>1, <2>4, HistoryReads DEF RInv
  <2>5. CASE Answer
    BY <1>2, <2>1, <2>5, NoRequestOk DEF RInv, Answer
  <2> QED BY <1>4, <2>2, <2>3, <2>4, <2>5 DEF Read
<1>5. CASE UNCHANGED readVars
  <2>1. UNCHANGED <<vars, past>> /\ UNCHANGED <<query, step, seen, moved>>
    BY <1>5 DEF readVars, readerVars
  <2>2. /\ node' = node /\ spends' = spends /\ mode' = mode /\ at' = at /\ db' = db /\ todo' = todo
    BY <2>1 DEF vars
  <2> PICK q, s, v : q = query' /\ s = step' /\ v = seen'
    OBVIOUS
  <2>3. Allowed(q, s, v)
    BY <1>1, <2>1 DEF RequestOk
  <2>4. AnswersOneBlock'
    BY <1>1, <2>1, <2>2 DEF RequestOk, AnswersOneBlock
  <2>5. ProofCurrent'
    <3> PICK b, r, g : b = seen.best /\ r = seen.rows /\ g = HeightOf(b)
      OBVIOUS
    <3>1. HeightOf(b)' = g
      BY <2>2 DEF HeightOf
    <3>2. \A x : RowsOf(x)' = RowsIn(spends, x) /\ RowsOf(x) = RowsIn(spends, x)
      BY <2>2, RowsEqualNext, RowsEqualHolds DEF RowsEqual
    <3>3. query = "proof" /\ step = "done" => b \in past /\ (b \in ToSet(at) => IsPrefix(RowsOf(SubSeq(at, 1, g)), r))
      BY <1>1 DEF RequestOk, ProofCurrent
    <3>4. (IsPrefix(RowsOf(SubSeq(at, 1, HeightOf(b))), r))' <=> IsPrefix(RowsIn(spends, SubSeq(at, 1, g)), r)
      BY <2>2, <3>1, <3>2
    <3>5. IsPrefix(RowsOf(SubSeq(at, 1, g)), r) <=> IsPrefix(RowsIn(spends, SubSeq(at, 1, g)), r)
      BY <3>2
    <3>6. seen'.best = b /\ seen'.rows = r
      BY <2>1
    <3> QED BY <2>1, <2>2, <3>3, <3>4, <3>5, <3>6 DEF ProofCurrent
  <2>6. RequestOk'
    BY <2>1, <2>3, <2>4, <2>5, ReadOk
  <2>7. Unmoved'
    BY <1>1, <2>1, <2>2 DEF Unmoved
  <2> QED BY <1>2, <2>1, <2>6, <2>7 DEF RInv
<1> QED BY <1>3, <1>4, <1>5 DEF ReadNext

LEMMA ReadSpecInv == ReadSpec => []RInv
<1>1. ReadInit => RInv
  BY ReadInitInv
<1>2. RInv /\ [ReadNext]_readVars => RInv'
  BY ReadNextInv
<1> QED BY <1>1, <1>2, PTL DEF ReadSpec

\* An answer that joins rows of two tables joins those of one block, whatever the indexer
\* writes or undoes between the two reads: the proof that status sends with a block, the
\* time that an entry of a history is sent with (rest/info.rs, rest/types.rs).
THEOREM AnswersJoinOneBlock == ReadSpec => []AnswersOneBlock
<1>1. RInv => AnswersOneBlock
  BY DEF RInv, RequestOk
<1> QED BY <1>1, ReadSpecInv, PTL

\* The proof of a transfer is read from tables that hold every block up to the one that
\* the node called its best, as long as the process has that block (validate_tx,
\* rest/tokens.rs).
THEOREM ProofIsCurrent == ReadSpec => []ProofCurrent
<1>1. RInv => ProofCurrent
  BY DEF RInv, RequestOk
<1> QED BY <1>1, ReadSpecInv, PTL

\* A request fails for a missing row only when the indexer was within a block, or went
\* to another one, while it ran (the unwraps and internal errors of the handlers).
THEOREM FailuresAreInFlight == ReadSpec => []FailsOnlyInFlight
<1>1. RInv => FailsOnlyInFlight
  BY DEF RInv, RequestOk, Allowed, Unmoved, FailsOnlyInFlight
<1> QED BY <1>1, ReadSpecInv, PTL
============================================================================
