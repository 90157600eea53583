------------------------------- MODULE MCTables -------------------------------
(* The rows of the tables and the lists that the REST API reads from them, on bounded
   inputs, the second part of those of MCAlgorithms. *)
EXTENDS Paging

VARIABLE input

Nothing == [kind |-> "none"]     \* before an input is chosen

\* Ticks as they are deployed: short ones, and of all eight bytes, in upper and lower case.
Text(bytes) == Tick(bytes)[1]
wjk == Text(<<119, 106, 107>>)
WOJ == Text(<<87, 79, 74>>)
wojakcat == Text(<<119, 111, 106, 97, 107, 99, 97, 116>>)
WojakDog == Text(<<87, 111, 106, 97, 107, 68, 111, 103>>)
MOONWOJK == Text(<<77, 79, 79, 78, 87, 79, 74, 75>>)
Deployed == {wjk, WOJ, wojakcat, WojakDog, MOONWOJK}
Alice == <<1, 0>>
Bob == <<1, 1>>

Hashes == {<<0, 1>>, <<255, 255>>}
Numbers == {0, 1, 255, 256, 65537}
RowTypes == {<<AddressLocation, Hashes \X Hashes \X Numbers \X Numbers>>, <<TxPrevout, Hashes \X Numbers>>,
             <<BlockInfo, Hashes \X Numbers>>, <<AddressTokenIdDB, Hashes \X Deployed \X Numbers>>,
             <<AddressToken, Hashes \X Deployed>>, <<TokenId, Deployed \X Numbers>>}
Long(n) == [i \in 1..n |-> 7]
Scripts == [is_tapscript : BOOLEAN, script_buffer : {<<>>, <<1>>, Long(255), Long(256)}]
Rows ==
  /\ input = Nothing
  /\ \/ \E rows \in RowTypes : \E value \in rows[2] :
            input' = [kind |-> "row", type |-> rows[1], value |-> value]
     \/ \E n \in 0..3 : \E offsets \in [1..n -> {<<0>>, <<255>>, <<70000>>}] :
            input' = [kind |-> "offsets", value |-> offsets]
     \/ \E n \in 0..2 : \E ids \in [1..n -> {Alice, Bob} \X {wjk, WojakDog} \X {1, 256}] :
            input' = [kind |-> "block_events", value |-> ids]
     \/ \E n \in 0..2 : \E parts \in [1..n -> Scripts] :
            input' = [kind |-> "partials", inscription_index |-> 258, genesis_txid |-> <<7, 0>>,
                      parts |-> parts]
     \/ \E n \in 0..9 : \E last \in {1, 122} :
            input' = [kind |-> "tick", bytes |-> [i \in 1..n |-> IF i < n THEN 119 ELSE last]]

Row(key, value) == [key |-> key, value |-> value]

\* The transfers in an outpoint are of one address.  They come with its transaction and go when
\* it is spent: they are there for the first page, for the later ones, or for all (the second
\* table serves the third page too).
OutPoints == {<<<<1, 9>>, 1>>, <<<<1, 9>>, 256>>, <<<<2, 0>>, 0>>}
Inscribed == {{<<Alice, 5, wjk>>}, {<<Alice, 5, WOJ>>}, {<<Bob, 5, wjk>>}}
               \cup {{<<Alice, 5, tick>>, <<Alice, 300, other>>} :
                      tick \in {wjk, WOJ}, other \in {wjk, WOJ}}
Contents == {[there |-> {}, transfers |-> {}]}
              \cup [there : {{1}, {2}, {1, 2}}, transfers : Inscribed]
TransferRow(at, t) == Row(get_bytes(AddressLocation, <<t[1], at[1], at[2], t[2]>>), t[3])
TransferTables ==
  {[k \in 1..2 |-> UNION {{TransferRow(at, t) : t \in contents[at].transfers} :
                            at \in {o \in OutPoints : k \in contents[o].there}}] :
     contents \in [OutPoints -> Contents]}

\* A balance comes with the first tokens and does not go, but for a reorg.
BalanceRow(address, tick) == Row(AddressTokenBytes(address, tick), 0)
BalanceRows == {BalanceRow(Alice, tick) : tick \in Deployed} \cup {BalanceRow(Bob, wjk)}
Searches == {<<>>, <<119>>, <<87, 79, 74>>}

Ids == {0, 1, 255, 256}
Owned == {<<Alice, wjk>>, <<Alice, WOJ>>, <<Bob, wjk>>}
HistoryRow(id, o) == Row(HistoryFrom(o[1], o[2], id), 0)
HistoryTables == {{HistoryRow(id, owner[id]) : id \in DOMAIN owner} :
                    owner \in UNION {[ids -> Owned] : ids \in SUBSET Ids}}
ProofRow(height) == Row(to_be_bytes(height, U32_LEN), 0)

Pages ==
  /\ input = Nothing
  /\ \E limit \in 1..2 :
       \/ \E tables \in TransferTables :
            input' = [kind |-> "transfers", tables |-> tables, limit |-> limit]
       \/ \E first, later \in SUBSET BalanceRows, search \in Searches :
            input' = [kind |-> "tokens", tables |-> <<first, later>>, search |-> search,
                      limit |-> limit]
       \* events and proofs are added only: three events between the pages, one proof
       \/ \E first \in HistoryTables :
            input' = [kind |-> "history", limit |-> limit,
                      tables |-> <<first, first \cup {HistoryRow(257, o) : o \in Owned}>>]
       \/ \E heights \in SUBSET Ids :
            input' = [kind |-> "proofs", limit |-> limit,
                      tables |-> <<{ProofRow(h) : h \in heights}, {ProofRow(h) : h \in heights \cup {257}}>>]
       \/ \E n \in 0..5 :
            input' = [kind |-> "numbered", limit |-> limit, list |-> [i \in 1..n |-> i]]

(* What the indexer loads is what it has stored: from_bytes inverts get_bytes for the keys and
   values coded by hand (transfers, prevouts, block_info, history, balances), for the sets of
   offsets and for the parts of an inscription, and trim_tick_bytes gives back every tick that is
   accepted.  Two do not read back, and are never taken for something else either: a key of
   token_id_to_event (TokenId) and, unless it is empty, a list of block_events. *)
RowsReadBack ==
  CASE input.kind = "row" ->
         IF input.type = TokenId THEN NeverRead(input.type, input.value)
         ELSE RowRead(input.type, input.value)
    [] input.kind = "offsets" -> ListRead(InscriptionOffset, input.value)
    [] input.kind = "block_events" ->
         IF input.value = <<>> THEN ListRead(AddressTokenIdDB, input.value)
         ELSE ListNeverRead(AddressTokenIdDB, input.value)
    [] input.kind = "partials" ->
         PartialsRead([f \in {"inscription_index", "genesis_txid", "parts"} |-> input[f]])
    [] input.kind = "tick" -> TickRead(input.bytes)
    [] OTHER -> TRUE

(* A client that pages through the transfers, the tokens or the events of an address, or through
   the proofs, gets every entry that is there throughout, once, events by falling ids and
   proofs by falling heights, although the tables change between its requests, as long as the
   entries it took for offsets are still there; the numbered pages of a list (holders, tokens)
   make it up.  Two kinds of offsets do less than rest/types.rs:428 and 439 say: behind an outpoint
   with several transfers of the token the next page begins with the second of them, and behind a
   tick of less than eight bytes with the second token of the address. *)
PagesComplete ==
  CASE input.kind = "transfers" ->
         IF OnePerOutPoint(input.tables, Alice, wjk)
         THEN TransferPages(input.tables, Alice, wjk, input.limit)
         ELSE \A k \in DOMAIN input.tables :
                OffsetIsOutPoint(input.tables[k], Alice, wjk, input.limit)
    [] input.kind = "tokens" ->
         IF LongTicksOnly(input.tables, Alice, input.search)
         THEN AddressTokenPages(input.tables, Deployed, Alice, input.search, input.limit)
         ELSE \A k \in DOMAIN input.tables :
                ShortTickIsNoOffset(input.tables[k], Deployed, Alice, input.search, input.limit)
    [] input.kind = "history" -> HistoryPages(input.tables, Alice, wjk, input.limit)
    [] input.kind = "proofs" -> ProofPages(input.tables, input.limit)
    [] input.kind = "numbered" -> NumberedPages(input.list, input.limit)
    [] OTHER -> TRUE
============================================================================
