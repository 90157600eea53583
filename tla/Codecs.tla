-------------------------------- MODULE Codecs --------------------------------
(***************************************************************************)
(* The bytes of the rows: the Pebble implementations of db/structs.rs and  *)
(* of rocksdb-wrapper/src/item.rs, and the ticks of tokens/structs.rs.     *)
(*                                                                         *)
(* A row type is a sequence of fields, and the places where from_bytes     *)
(* cuts the bytes; a value is the tuple of its fields.  Values written by  *)
(* serde (UsingSerde) are left to the library.                             *)
(***************************************************************************)
EXTENDS Integers, Sequences, SequencesExt, FiniteSetsExt

HASH == 2        \* bound: the bytes of a hash, 32 in the code
TICK_STORAGE_LEN == 8
U32_LEN == 4
U64_LEN == 8

RAW(width) == [kind |-> "raw", width |-> width]
BE(width) == [kind |-> "be", width |-> width]
LE(width) == [kind |-> "le", width |-> width]

\* Which byte of a number stands at place i.
ByteOf(n, k) == IF k > 3 THEN 0 ELSE (n \div 256^(k - 1)) % 256
to_be_bytes(n, width) == [i \in 1..width |-> ByteOf(n, width + 1 - i)]
to_le_bytes(n, width) == [i \in 1..width |-> ByteOf(n, i)]
from_be_bytes(bytes) == FoldLeft(LAMBDA n, byte : n * 256 + byte, 0, bytes)

\* A result: <<>> where the code fails, <<value>> where it does not.
Failed == <<>>
Ok(value) == <<value>>

FieldBytes(field, value) ==
  CASE field.kind = "raw" -> value
    [] field.kind = "be" -> to_be_bytes(value, field.width)
    [] field.kind = "le" -> to_le_bytes(value, field.width)
FieldFrom(field, bytes) ==
  CASE field.kind = "raw" -> bytes
    [] field.kind = "be" -> from_be_bytes(bytes)
    [] field.kind = "le" -> from_be_bytes(Reverse(bytes))

\* The row types.  A cut below 0 counts from the end.
OutPointFields == <<RAW(HASH), LE(U32_LEN)>>
AddressLocation == [fields |-> <<RAW(HASH)>> \o OutPointFields \o <<BE(U64_LEN)>>,
                    cuts |-> <<HASH, 2 * HASH, 2 * HASH + U32_LEN>>]
TxPrevout == [fields |-> <<RAW(HASH), BE(U64_LEN)>>, cuts |-> <<HASH>>]
BlockInfo == [fields |-> <<RAW(HASH), BE(U32_LEN)>>, cuts |-> <<HASH>>]
Bug_AddressTokenIdDB == [fields |-> <<RAW(HASH), RAW(TICK_STORAGE_LEN), BE(U64_LEN)>>,
                         cuts |-> <<HASH, HASH + 4>>]
AddressTokenIdDB == [fields |-> <<RAW(HASH), RAW(TICK_STORAGE_LEN), BE(U64_LEN)>>,
                     cuts |-> <<HASH, -U64_LEN>>]
\* The tick is cut off after four bytes and does not fit.
TokenId == [fields |-> <<RAW(TICK_STORAGE_LEN), BE(U64_LEN)>>, cuts |-> <<4>>]
AddressToken == [fields |-> <<RAW(HASH), RAW(TICK_STORAGE_LEN)>>, cuts |-> <<HASH>>]
\* An offset, as in the sets of outpoint_to_inscription_offsets.
InscriptionOffset == [fields |-> <<BE(U64_LEN)>>, cuts |-> <<>>]

get_bytes(type, value) ==
  FlattenSeq([i \in DOMAIN type.fields |-> FieldBytes(type.fields[i], value[i])])

\* from_bytes: every field must have its width (try_into).
from_bytes(type, bytes) ==
  LET At(cut) == IF cut < 0 THEN Len(bytes) + cut ELSE cut
      ends == <<0>> \o [i \in DOMAIN type.cuts |-> At(type.cuts[i])] \o <<Len(bytes)>>
      Field(i) == SubSeq(bytes, ends[i] + 1, ends[i + 1])
  IN  IF \A i \in DOMAIN type.fields : ends[i + 1] - ends[i] = type.fields[i].width
      THEN Ok([i \in DOMAIN type.fields |-> FieldFrom(type.fields[i], Field(i))])
      ELSE Failed

\* FIXED_SIZE: AddressTokenIdDB declares a tick of four bytes.
FixedSize(type) == IF type = AddressTokenIdDB THEN HASH + 4 + U64_LEN ELSE U64_LEN

\* Vec and HashSet: one after the other, and read back in chunks of the declared size.
ListBytes(type, values) == FlattenSeq([i \in DOMAIN values |-> get_bytes(type, values[i])])
ListFrom(type, bytes) ==
  LET size == FixedSize(type)
      n == (Len(bytes) + size - 1) \div size
      Chunk(i) == SubSeq(bytes, (i - 1) * size + 1, Min({i * size, Len(bytes)}))
      items == [i \in 1..n |-> from_bytes(type, Chunk(i))]
  IN  IF \E i \in 1..n : items[i] = Failed THEN Failed ELSE Ok([i \in 1..n |-> items[i][1]])

\* Partials: an index, the genesis transaction, and any number of scripts with their lengths.
PartBytes(part) == <<IF part.is_tapscript THEN 1 ELSE 0>>
                     \o to_be_bytes(Len(part.script_buffer), U32_LEN) \o part.script_buffer
PartialsBytes(p) == to_be_bytes(p.inscription_index, U32_LEN) \o p.genesis_txid
                      \o FlattenSeq([i \in DOMAIN p.parts |-> PartBytes(p.parts[i])])

ScriptLen(bytes, at) == from_be_bytes(SubSeq(bytes, at + 2, at + 5))
PartialsFrom(bytes) ==
  LET from[at \in 0..Len(bytes)] ==
        IF at = Len(bytes) THEN <<>>
        ELSE LET len == ScriptLen(bytes, at)
             IN  <<[is_tapscript |-> bytes[at + 1] = 1,
                    script_buffer |-> SubSeq(bytes, at + 6, at + 5 + len)]>> \o from[at + 5 + len]
  IN  [inscription_index |-> from_be_bytes(SubSeq(bytes, 1, U32_LEN)),
       genesis_txid |-> SubSeq(bytes, U32_LEN + 1, U32_LEN + HASH),
       parts |-> from[U32_LEN + HASH]]

\* Ticks: padded with zeros to eight bytes.
Tick(bytes) == IF Len(bytes) \in 1..TICK_STORAGE_LEN
               THEN Ok([i \in 1..TICK_STORAGE_LEN |-> IF i =< Len(bytes) THEN bytes[i] ELSE 0])
               ELSE Failed
trim_tick_bytes(tick) ==
  SubSeq(tick, 1, Max({0} \cup {i \in DOMAIN tick : tick[i] # 0}))

\* LowerCaseTokenTick::from, of ASCII: the bytes it is given, zeros included.  The tick of a
\* table (OriginalTokenTick) is trimmed before, the tick of a request (OriginalTokenTickRest,
\* whose as_ref are all eight bytes) is not.
LowerCaseTokenTick(bytes) ==
  [i \in DOMAIN bytes |-> IF bytes[i] \in 65..90 THEN bytes[i] + 32 ELSE bytes[i]]
FromOriginal(tick) == LowerCaseTokenTick(trim_tick_bytes(tick))
FromRest(tick) == LowerCaseTokenTick(tick)

----------------------------------------------------------------------------
(* What the code is compared with. *)

\* A row, a list of rows, the parts of an inscription and a tick are read back as they were
\* written (get_bytes, from_bytes; try_from, trim_tick_bytes).
RowRead(type, value) == from_bytes(type, get_bytes(type, value)) = Ok(value)
NeverRead(type, value) == from_bytes(type, get_bytes(type, value)) = Failed
ListRead(type, values) == ListFrom(type, ListBytes(type, values)) = Ok(values)
ListNeverRead(type, values) == ListFrom(type, ListBytes(type, values)) = Failed
PartialsRead(p) == PartialsFrom(PartialsBytes(p)) = p
TickRead(bytes) ==
  IF Len(bytes) \in 1..TICK_STORAGE_LEN THEN trim_tick_bytes(Tick(bytes)[1]) = bytes
  ELSE Tick(bytes) = Failed
============================================================================
