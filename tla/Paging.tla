-------------------------------- MODULE Paging --------------------------------
(***************************************************************************)
(* Lists that the REST API gives out in pages: RocksTable::range           *)
(* (rocksdb-wrapper/src/storage.rs) and the handlers that page through it  *)
(* with the last entry of a page as the offset of the next (address.rs,    *)
(* history.rs, tokens.rs), and the numbered pages of holders and tokens.   *)
(*                                                                         *)
(* A table is a set of rows [key, value], the key as bytes.                *)
(***************************************************************************)
EXTENDS Codecs, Functions

MaxPages == 8       \* bound: the pages a client asks for

Included(key) == [kind |-> "included", key |-> key]
Excluded(key) == [kind |-> "excluded", key |-> key]
Unbounded == [kind |-> "unbounded", key |-> <<>>]

\* RocksDB orders keys byte by byte.
Less(a, b) ==
  \/ \E i \in DOMAIN a \cap DOMAIN b : a[i] < b[i] /\ \A j \in 1..(i - 1) : a[j] = b[j]
  \/ Len(a) < Len(b) /\ \A i \in DOMAIN a : a[i] = b[i]

\* range: the iterator is placed at the first bound, which is skipped if it is excluded, and
\* taken while it is within the other.
range(table, start, end, reversed) ==
  LET Ahead(a, b) == IF reversed THEN Less(b, a) ELSE Less(a, b)
      first == IF reversed THEN end ELSE start
      last == IF reversed THEN start ELSE end
      Begun(key) == first.kind = "unbounded" \/ ~Ahead(key, first.key)
      Skipped(key) == first.kind = "excluded" /\ key = first.key
      Within(key) == CASE last.kind = "unbounded" -> TRUE
                       [] last.kind = "included" -> ~Ahead(last.key, key)
                       [] last.kind = "excluded" -> Ahead(key, last.key)
  IN  SetToSortSeq({r \in table : Begun(r.key) /\ ~Skipped(r.key) /\ Within(r.key)},
                   LAMBDA r, s : Ahead(r.key, s.key))

take(seq, n) == SubSeq(seq, 1, Min({n, Len(seq)}))
skip(seq, n) == SubSeq(seq, n + 1, Len(seq))

ZeroHash == [i \in 1..HASH |-> 0]
LastBytes(n) == [i \in 1..n |-> 255]      \* u64::MAX, u32::MAX and the greatest hash or tick

----------------------------------------------------------------------------
(* The handlers: a page of a table behind an offset (<<>>: from the beginning). *)

\* address_token_transfers: an offset is the outpoint of a transfer.  Rows are
\* <<address, txid, vout, offset>> with the tick of the transfer as value.
TransferFrom(address, outpoint) ==
  get_bytes(AddressLocation, <<address, outpoint[1], outpoint[2], 0>>)
TransferEnd(address) == address \o LastBytes(HASH + U32_LEN + U64_LEN)

\* The filter comes first, then the row of the offset is skipped.
Listed(rows, Keep(_), offset) == skip(SelectSeq(rows, Keep), Len(offset))

address_token_transfers(table, address, tick, offset, limit) ==
  LET from == TransferFrom(address, IF offset = <<>> THEN <<ZeroHash, 0>> ELSE offset[1])
  IN  take(Listed(range(table, Included(from), Excluded(TransferEnd(address)), FALSE),
                  LAMBDA r : r.value = tick, offset),
           limit)

\* token_to_meta: the deployed ticks under their lower case.
token_to_meta(deployed, key) == SetToSeq({tick \in deployed : FromOriginal(tick) = key})

\* address_tokens and address_tokens_tick: an offset is the tick of the last row, looked up
\* for the spelling of its deploy; where nothing is found (unwrap_or_default), the list begins
\* at its first row.  A search is the beginning of a tick.
AddressTokenBytes(address, tick) == get_bytes(AddressToken, <<address, tick>>)
TickOf(row) == from_bytes(AddressToken, row.key)[1][2]
Matches(row, search) == search = <<>> \/ IsPrefix(LowerCaseTokenTick(search), FromOriginal(TickOf(row)))
address_tokens(table, deployed, address, search, offset, limit) ==
  LET found == IF offset = <<>> THEN <<>> ELSE token_to_meta(deployed, FromRest(offset[1]))
      tick == IF found = <<>> THEN [i \in 1..TICK_STORAGE_LEN |-> 0] ELSE found[1]
  IN  take(Listed(range(table, Included(AddressTokenBytes(address, tick)),
                        Included(address \o LastBytes(TICK_STORAGE_LEN)), FALSE),
                  LAMBDA r : Matches(r, search), offset),
           limit)

\* address_token_history: the newest first, an offset is the id of an event.
HistoryFrom(address, tick, id) == get_bytes(AddressTokenIdDB, <<address, tick, id>>)
Bug_address_token_history(table, address, tick, offset, limit) ==
  LET to == IF offset = <<>> THEN address \o tick \o LastBytes(U64_LEN)
            ELSE HistoryFrom(address, tick, offset[1])
  IN  take(range(table, Included(HistoryFrom(address, tick, 0)), Included(to), TRUE), limit)
address_token_history(table, address, tick, offset, limit) ==
  LET to == IF offset = <<>> THEN address \o tick \o LastBytes(U64_LEN)
            ELSE HistoryFrom(address, tick, offset[1])
  IN  take(range(table, Included(HistoryFrom(address, tick, 0)), Excluded(to), TRUE), limit)

\* proof_of_history: the highest first, an offset is a height.
proof_of_history(table, offset, limit) ==
  LET to == IF offset = <<>> THEN LastBytes(U32_LEN) ELSE to_be_bytes(offset[1], U32_LEN)
  IN  take(range(table, Unbounded, Excluded(to), TRUE), limit)

\* holders and tokens: a page by its number, and how many there are.
page_of(list, page, page_size) == take(skip(list, (page - 1) * page_size), page_size)
pages(list, page_size) == (Len(list) + page_size - 1) \div page_size

----------------------------------------------------------------------------
(* What the code is compared with. *)

\* The pages a client gets that goes on until a page is not full, table k being there for
\* page k, and whether the rows it took for offsets were still there.
Follow(Page(_, _), Cursor(_), tables, limit) ==
  LET Table(k) == tables[Min({k, Len(tables)})]
      after[k \in 0..MaxPages] ==
        IF k = 0 THEN [list |-> <<>>, offset |-> <<>>, more |-> TRUE, kept |-> TRUE]
        ELSE LET before == after[k - 1]
                 page == Page(Table(k), before.offset)
                 more == Len(page) = limit
             IN  IF ~before.more THEN before
                 ELSE [list |-> before.list \o page, more |-> more,
                       offset |-> IF more THEN <<Cursor(page[limit])>> ELSE <<>>,
                       kept |-> before.kept /\ (more => page[limit] \in Table(k + 1))]
  IN  after[MaxPages]

\* Every wanted row that is there throughout is given out, nothing is given out twice or out
\* of order, and nothing but wanted rows that were there for one of the pages.
Complete(read, tables, Wanted(_), InOrder(_, _)) ==
  read.kept =>
    /\ ~read.more
    /\ IsInjective(read.list)
    /\ \A i, j \in DOMAIN read.list : i < j => InOrder(read.list[i], read.list[j])
    /\ \A row \in UNION Range(tables) :
         IF Wanted(row) THEN (\A k \in DOMAIN tables : row \in tables[k]) => row \in Range(read.list)
         ELSE row \notin Range(read.list)
    /\ Range(read.list) \subseteq UNION Range(tables)
AnyOrder(row, next) == TRUE

\* Transfers of one token at an address (address_token_transfers).
OutPointOf(row) == SubSeq(from_bytes(AddressLocation, row.key)[1], 2, 3)
IsTransferOf(row, address, tick) == row.value = tick /\ SubSeq(row.key, 1, HASH) = address
OnePerOutPoint(tables, address, tick) ==
  \A row, other \in {r \in UNION Range(tables) : IsTransferOf(r, address, tick)} :
    OutPointOf(row) = OutPointOf(other) => row = other
\* With several transfers in an outpoint, the page behind it begins after the first of them.
OffsetIsOutPoint(table, address, tick, limit) ==
  LET listed == address_token_transfers(table, address, tick, <<>>, Cardinality(table))
  IN  \A i \in DOMAIN listed :
        LET first == CHOOSE k \in DOMAIN listed :
                       /\ OutPointOf(listed[k]) = OutPointOf(listed[i])
                       /\ k = 1 \/ OutPointOf(listed[k - 1]) # OutPointOf(listed[k])
        IN  address_token_transfers(table, address, tick, <<OutPointOf(listed[i])>>, limit)
              = take(skip(listed, first), limit)
TransferPages(tables, address, tick, limit) ==
  LET Page(table, offset) == address_token_transfers(table, address, tick, offset, limit)
  IN  Complete(Follow(Page, OutPointOf, tables, limit), tables,
               LAMBDA row : IsTransferOf(row, address, tick), AnyOrder)

\* The tokens of an address that match a search (address_tokens).
IsTokenOf(row, address, search) == Matches(row, search) /\ SubSeq(row.key, 1, HASH) = address
LongTicksOnly(tables, address, search) ==
  \A row \in UNION Range(tables) :
    IsTokenOf(row, address, search) => Len(trim_tick_bytes(TickOf(row))) = TICK_STORAGE_LEN
\* A tick of less than eight bytes is not found: the page behind it is all but the first row.
ShortTickIsNoOffset(table, deployed, address, search, limit) ==
  LET listed == address_tokens(table, deployed, address, search, <<>>, Cardinality(table))
  IN  \A i \in DOMAIN listed :
        LET tick == TickOf(listed[i])
            page == address_tokens(table, deployed, address, search, <<tick>>, limit)
        IN  page = take(skip(listed, IF Len(trim_tick_bytes(tick)) < TICK_STORAGE_LEN THEN 1 ELSE i),
                        limit)
AddressTokenPages(tables, deployed, address, search, limit) ==
  LET Page(table, offset) == address_tokens(table, deployed, address, search, offset, limit)
  IN  Complete(Follow(Page, TickOf, tables, limit), tables,
               LAMBDA row : IsTokenOf(row, address, search), AnyOrder)

\* The events of an address and a token, the newest first, while new ones are added: none of
\* those that were there when the first page was asked for is missed (address_token_history).
HistoryPages(tables, address, tick, limit) ==
  LET Page(table, offset) == address_token_history(table, address, tick, offset, limit)
      Id(row) == from_bytes(AddressTokenIdDB, row.key)[1][3]
  IN  Complete(Follow(Page, Id, tables, limit), tables,
               LAMBDA row : SubSeq(row.key, 1, HASH + TICK_STORAGE_LEN) = address \o tick,
               LAMBDA row, next : Id(row) > Id(next))

\* The proofs of all blocks, the highest first, while blocks are added (proof_of_history).
ProofPages(tables, limit) ==
  LET Page(table, offset) == proof_of_history(table, offset, limit)
      Height(row) == from_be_bytes(row.key)
  IN  Complete(Follow(Page, Height, tables, limit), tables, LAMBDA row : TRUE,
               LAMBDA row, next : Height(row) > Height(next))

\* Numbered pages of one list make it up, and there are as many as the answer says (holders,
\* tokens).
NumberedPages(list, page_size) ==
  FlattenSeq([p \in 1..pages(list, page_size) |-> page_of(list, p, page_size)]) = list
============================================================================
