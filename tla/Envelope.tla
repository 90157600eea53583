------------------------------- MODULE Envelope -------------------------------
(***************************************************************************)
(* Reading inscriptions out of scripts: RawEnvelope::from_tapscript and    *)
(* the fields of an envelope (inscriptions/envelope.rs, tag.rs), the push  *)
(* data of a scriptSig and the inscriptions in parts they make up          *)
(* (inscriptions/structs.rs).  A script is the sequence of its bytes.      *)
(*                                                                         *)
(* Of an inscription only what the parser reads is kept: content type,     *)
(* body and pointer.  The remaining fields, and the stutter and pushnum    *)
(* flags of an envelope, are computed by the code and read by nobody.      *)
(***************************************************************************)
EXTENDS Integers, Sequences, SequencesExt, FiniteSetsExt

\* Instructions that are not opcodes: a push, a push that is cut off, the end.
PUSH == 0
TRUNCATED == -1
END == -2

OP_PUSHDATA1 == 76
OP_PUSHDATA2 == 77
OP_PUSHDATA4 == 78
OP_PUSHNUM_NEG1 == 79
OP_PUSHNUM_0 == 80       \* OP_PUSHNUM_n is 80 + n, for n in 1..16
OP_IF == 99
OP_ENDIF == 104
PROTOCOL_ID == <<111, 114, 100>>
PointerTag == <<2>>
ContentTypeTag == <<1>>

None == [found |-> "none"]
Partial == [found |-> "partial"]
Single(inscription) == [found |-> "single", inscription |-> inscription]
Many(inscriptions) == [found |-> "many", inscriptions |-> inscriptions]

\* An optional value: <<>> or <<value>>.
Absent == <<>>
Present(value) == <<value>>

LittleEndian(bytes) == FoldRight(LAMBDA byte, rest : byte + 256 * rest, bytes, 0)

----------------------------------------------------------------------------
(* The instructions of a tapscript. *)

\* Script::instructions of the bitcoin library: pushes and opcodes, up to the first push
\* that is longer than what is left.
LengthBytes(opcode) ==
  CASE opcode = OP_PUSHDATA1 -> 1 [] opcode = OP_PUSHDATA2 -> 2 [] opcode = OP_PUSHDATA4 -> 4
    [] OTHER -> 0

InstructionAt(script, i) ==
  LET n == LengthBytes(script[i])
      truncated == [op |-> TRUNCATED, next |-> Len(script) + 1]
      len == IF n = 0 THEN script[i] ELSE LittleEndian(SubSeq(script, i + 1, i + n))
  IN  CASE script[i] > OP_PUSHDATA4 -> [op |-> script[i], next |-> i + 1]
        [] i + n > Len(script) -> truncated
        [] i + n + len > Len(script) -> truncated
        [] OTHER -> [op |-> PUSH, data |-> SubSeq(script, i + n + 1, i + n + len),
                     next |-> i + n + len + 1]

instructions(script) ==
  LET from[i \in 1..(Len(script) + 1)] ==
        IF i > Len(script) THEN <<>>
        ELSE <<InstructionAt(script, i)>> \o from[InstructionAt(script, i).next]
  IN  from[1]

IsPush(instruction, data) == instruction.op = PUSH /\ instruction.data = data

\* What an instruction adds to the payload of an envelope.
Pushnums == {OP_PUSHNUM_NEG1} \cup {OP_PUSHNUM_0 + n : n \in 1..16}
InPayload(instruction) == instruction.op \in {PUSH} \cup Pushnums
PayloadOf(instruction) ==
  CASE instruction.op = PUSH -> instruction.data
    [] instruction.op = OP_PUSHNUM_NEG1 -> <<129>>
    [] OTHER -> <<instruction.op - OP_PUSHNUM_0>>

\* from_instructions, behind the header: where the payload that begins at i ends.
PayloadEnd(ins, i) ==
  CHOOSE j \in i..(Len(ins) + 1) :
    /\ \A k \in i..(j - 1) : InPayload(ins[k])
    /\ j =< Len(ins) => ~InPayload(ins[j])
Payload(ins, i) == [k \in 1..(PayloadEnd(ins, i) - i) |-> PayloadOf(ins[i + k - 1])]

\* from_tapscript from instruction i on: what was read is never read again, whether it
\* turned out to be an envelope or not.
from_instructions(ins) ==
  LET At(i) == IF i =< Len(ins) THEN ins[i] ELSE [op |-> END]
      failed == [ok |-> FALSE, payloads |-> <<>>]
      from[i \in 1..(Len(ins) + 2)] ==
        CASE i > Len(ins) -> [ok |-> TRUE, payloads |-> <<>>]
          [] ins[i].op = TRUNCATED -> failed
          [] ~IsPush(ins[i], <<>>) -> from[i + 1]
          [] At(i + 1).op # OP_IF -> from[i + 1]
          [] ~IsPush(At(i + 2), PROTOCOL_ID) -> from[i + 2]
          [] OTHER ->
               LET end == PayloadEnd(ins, i + 3)
               IN  CASE At(end).op = TRUNCATED -> failed
                     [] At(end).op = OP_ENDIF ->
                          [from[end + 1] EXCEPT !.payloads = <<Payload(ins, i + 3)>> \o @]
                     [] OTHER -> from[end + 1]
  IN  from[1]
from_tapscript(script) == from_instructions(instructions(script))

----------------------------------------------------------------------------
(* The fields of an envelope: ParsedEnvelope::from. *)

\* Tags and values alternate up to the first empty tag; the body is behind it.
Bug_IsBodyTag(payload, i) == payload[i] = <<>>
IsBodyTag(payload, i) == i % 2 = 1 /\ payload[i] = <<>>
BodyTag(payload) ==
  LET tags == {i \in DOMAIN payload : IsBodyTag(payload, i)}
  IN  IF tags = {} THEN Len(payload) + 1 ELSE Min(tags)

\* Tag::take: the first value of the tag; a tag without value is an incomplete field.
Field(payload, tag) ==
  LET keys == {i \in 1..(BodyTag(payload) - 2) : i % 2 = 1 /\ payload[i] = tag}
  IN  IF keys = {} THEN Absent ELSE Present(payload[Min(keys) + 1])

\* Inscription::pointer: eight bytes, little endian, and zeros behind them.
pointer(value) ==
  IF value = Absent \/ \E i \in 9..Len(value[1]) : value[1][i] # 0 THEN Absent
  ELSE Present(LittleEndian(SubSeq(value[1], 1, Min({8, Len(value[1])}))))

ParsedEnvelope(payload) ==
  [content_type |-> Field(payload, ContentTypeTag),
   pointer |-> pointer(Field(payload, PointerTag)),
   body |-> IF BodyTag(payload) > Len(payload) THEN Absent
            ELSE Present(FlattenSeq(SubSeq(payload, BodyTag(payload) + 1, Len(payload))))]

----------------------------------------------------------------------------
(* Inscriptions in parts, pushed by scriptSigs: InscriptionParser. *)

Undecodable == [ok |-> FALSE, pushes |-> <<>>]

\* The length of a long push as the code computes it: the opcode stands in for the low
\* byte, and the last length byte is never read.
LongPush(script, i) ==
  CASE script[i] = OP_PUSHDATA1 -> script[i + 1]
    [] script[i] = OP_PUSHDATA2 -> script[i + 1] * 256 + script[i]
    [] script[i] = OP_PUSHDATA4 ->
         script[i + 3] * 256^3 + script[i + 2] * 256^2 + script[i + 1] * 256 + script[i]

decode_push_datas(script) ==
  LET then(push, rest) == [rest EXCEPT !.pushes = IF rest.ok THEN <<push>> \o @ ELSE @]
      from[i \in 1..(Len(script) + 1)] ==
        IF i > Len(script) THEN [ok |-> TRUE, pushes |-> <<>>]
        ELSE LET op == script[i]
                 n == LengthBytes(op)
                 len == IF n = 0 THEN op ELSE LongPush(script, i)
             IN  CASE op - OP_PUSHNUM_0 \in 1..16 -> then(<<op - OP_PUSHNUM_0>>, from[i + 1])
                   [] op > OP_PUSHDATA4 -> Undecodable
                   [] i + n > Len(script) -> Undecodable
                   [] i + n + len > Len(script) -> Undecodable
                   [] OTHER -> then(SubSeq(script, i + n + 1, i + n + len), from[i + n + len + 1])
  IN  from[1]

NotANumber == -1
push_data_to_number(data) == IF Len(data) > 8 THEN NotANumber ELSE LittleEndian(data)

\* How many of the pieces come next, n of them being missing: each is numbered by how
\* many are still to come.
Continuing(n, pushes) ==
  Max({k \in 0..Min({n, Len(pushes) \div 2}) :
         \A j \in 1..k : push_data_to_number(pushes[2 * j - 1]) = n - j})

Pieces(k, pushes) == FlattenSeq([j \in 1..k |-> pushes[2 * j]])

\* InscriptionParser::parse: a script after the first must go on with the next piece.
parse(scripts) ==
  LET push == [i \in DOMAIN scripts |-> decode_push_datas(scripts[i])]
      first == push[1].pushes
      Rest(i) == IF i = 1 THEN SubSeq(first, 4, Len(first)) ELSE push[i].pushes
      after[i \in 0..Len(scripts)] ==
        IF i = 0 THEN [left |-> push_data_to_number(first[2]), body |-> <<>>]
        ELSE LET before == after[i - 1]
                 k == Continuing(before.left, Rest(i))
             IN  CASE before.left \in {0, NotANumber} -> before
                   [] i > 1 /\ (~push[i].ok \/ k = 0) -> [before EXCEPT !.left = NotANumber]
                   [] OTHER -> [left |-> before.left - k, body |-> before.body \o Pieces(k, Rest(i))]
      end == after[Len(scripts)]
  IN  CASE ~push[1].ok \/ Len(first) < 3 -> None
        [] first[1] # PROTOCOL_ID \/ push_data_to_number(first[2]) = 0 -> None
        [] end.left = NotANumber -> None
        [] end.left = 0 -> Single([content_type |-> Present(first[3]), pointer |-> Absent,
                                     body |-> Present(end.body)])
        [] OTHER -> Partial

\* Inscription::from_parts: a tapscript that cannot be decoded is tried as a scriptSig.
from_parts(parts) ==
  LET scripts == [i \in DOMAIN parts |-> parts[i].script]
      tap == from_tapscript(scripts[1])
  IN  IF Len(parts) = 1 /\ parts[1].is_tapscript /\ tap.ok
      THEN Many([i \in DOMAIN tap.payloads |-> ParsedEnvelope(tap.payloads[i])])
      ELSE parse(scripts)

----------------------------------------------------------------------------
(* What the code is compared with. *)

\* An envelope is OP_FALSE OP_IF "ord", pushes, OP_ENDIF; a header within the pushes of
\* an earlier one is data.
IsHeader(ins, i) ==
  /\ i + 2 =< Len(ins)
  /\ IsPush(ins[i], <<>>) /\ ins[i + 1].op = OP_IF /\ IsPush(ins[i + 2], PROTOCOL_ID)
Envelopes(ins) ==
  LET Free[i \in 1..Len(ins)] ==
        /\ IsHeader(ins, i)
        /\ \A j \in 1..(i - 1) : Free[j] => PayloadEnd(ins, j + 3) < i
      closed == {i \in 1..Len(ins) :
                   /\ Free[i] /\ PayloadEnd(ins, i + 3) =< Len(ins)
                   /\ ins[PayloadEnd(ins, i + 3)].op = OP_ENDIF}
      starts == SetToSortSeq(closed, <)
  IN  [k \in DOMAIN starts |-> Payload(ins, starts[k] + 3)]

\* The envelopes of a tapscript are read one for one, and a tapscript that cannot be
\* decoded holds none (Inscription::from_parts).
EnvelopesRead(script) ==
  LET ins == instructions(script)
      found == from_parts(<<[is_tapscript |-> TRUE, script |-> script]>>)
  IN  IF \E i \in DOMAIN ins : ins[i].op = TRUNCATED THEN found = None
      ELSE found = Many([k \in DOMAIN Envelopes(ins) |-> ParsedEnvelope(Envelopes(ins)[k])])

\* The bytes of a pointer below 2^24, in any number of bytes; 2^64 and beyond is none.
IsPointer(n, bytes) ==
  \A i \in DOMAIN bytes : bytes[i] = IF i > 3 THEN 0 ELSE (n \div 256^(i - 1)) % 256
PointerRead(value, n) ==
  IF n = Absent THEN value = Absent \/ \E i \in 9..Len(value[1]) : value[1][i] # 0
  ELSE value # Absent /\ IsPointer(n[1], value[1])

\* Fields in any order, values of any length and a body in any number of pushes come back
\* as they were written, the first value of a tag winning (ParsedEnvelope::from).
FieldsRead(fields, body) ==
  LET payload == FlattenSeq(fields) \o (IF body = Absent THEN <<>> ELSE <<<<>>>> \o body[1])
      First(tag) == LET at == {i \in DOMAIN fields : fields[i][1] = tag}
                    IN  IF at = {} THEN Absent ELSE Present(fields[Min(at)][2])
      parsed == ParsedEnvelope(payload)
  IN  /\ parsed.content_type = First(ContentTypeTag)
      /\ PointerRead(First(PointerTag), parsed.pointer)
      /\ parsed.body = IF body = Absent THEN Absent ELSE Present(FlattenSeq(body[1]))

\* A push with the shortest opcode there is for it, up to 255 bytes.
PushOf(data) ==
  CASE Len(data) = 1 /\ data[1] \in 1..16 -> <<OP_PUSHNUM_0 + data[1]>>
    [] Len(data) =< 75 -> <<Len(data)>> \o data
    [] OTHER -> <<OP_PUSHDATA1, Len(data)>> \o data
NumberOf(n) == IF n = 0 THEN <<>> ELSE <<n>>

\* An inscription written in pieces, which are cut into scripts anywhere between two
\* pieces, reads as a part until its last script is there and then as what was written,
\* whatever the scripts push behind their pieces to unlock the output (InscriptionParser).
PartsRead(content_type, chunks, cuts, unlocking) ==
  LET n == Len(chunks)
      last == SetToSortSeq(cuts \cup {n}, <)      \* the last piece of each script
      First(s) == IF s = 1 THEN 1 ELSE last[s - 1] + 1
      Header(s) == IF s = 1 THEN <<PROTOCOL_ID, NumberOf(n), content_type>> ELSE <<>>
      PiecesOf(s) == FlattenSeq([j \in 1..(last[s] - First(s) + 1) |->
                       <<NumberOf(n - (First(s) + j - 1)), chunks[First(s) + j - 1]>>])
      Script(s) == FlattenSeq([j \in DOMAIN (Header(s) \o PiecesOf(s) \o unlocking) |->
                     PushOf((Header(s) \o PiecesOf(s) \o unlocking)[j])])
      Parts(k) == [s \in 1..k |-> [is_tapscript |-> FALSE, script |-> Script(s)]]
  IN  \A k \in DOMAIN last :
        from_parts(Parts(k)) =
          IF k < Len(last) THEN Partial
          ELSE Single([content_type |-> Present(content_type), pointer |-> Absent,
                       body |-> Present(FlattenSeq(chunks))])
============================================================================
