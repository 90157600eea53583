----------------------------- MODULE MCAlgorithms -----------------------------
(* The pure algorithms on bounded inputs: every state but the first holds one input, and each
   invariant says what its algorithm makes of it.  The inputs here are scripts and the files of
   the node; MCTables has those of the tables. *)
EXTENDS MCTables, Envelope, BlockIndex

Init == input = Nothing

\* Tapscripts put together from these pieces: a header, parts of it, pushes that end
\* before or after the end of the script, numbers, OP_IF, OP_ENDIF and OP_NOP.
TapPieces == {<<0>>, <<OP_IF>>, <<0, OP_IF>>, <<3, 111, 114, 100>>, <<0, OP_IF, 3, 111, 114, 100>>,
              <<OP_ENDIF>>, <<1, 1>>, <<81>>, <<79>>, <<97>>, <<2, 1>>, <<76, 2>>, <<77, 1, 0>>}
MaxTapPieces == 4
Tapscript ==
  /\ input = Nothing
  /\ \E n \in 1..MaxTapPieces : \E pieces \in [1..n -> TapPieces] :
       input' = [kind |-> "tapscript", script |-> FlattenSeq(pieces)]

Values == {<<>>, <<0>>, <<3, 1>>, <<1, 0, 0, 0, 0, 0, 0, 0, 0>>, <<1, 0, 0, 0, 0, 0, 0, 0, 1>>}
Bodies == {<<>>, <<<<1>>>>, <<<<>>, <<1>>>>, <<<<1>>, <<>>, <<2, 3>>>>}
Fields ==
  /\ input = Nothing
  /\ \E n \in 0..3 : \E fields \in [1..n -> {ContentTypeTag, PointerTag, <<5>>} \X Values] :
     \E body \in {Absent} \cup {Present(b) : b \in Bodies} :
       input' = [kind |-> "fields", fields |-> fields, body |-> body]

Parts ==
  /\ input = Nothing
  /\ \E n \in 1..3 : \E chunks \in [1..n -> {<<>>, <<16>>, <<17, 0>>, Long(76), Long(255)}] :
     \E cuts \in SUBSET (0..(n - 1)) : \E content_type \in {<<>>, <<7>>} :
     \E unlocking \in {<<>>, <<Long(71)>>, <<Long(71), Long(30)>>} :
       \* only the first script may be without a piece
       input' = [kind |-> "parts", content_type |-> content_type, chunks |-> chunks,
                 cuts |-> cuts, unlocking |-> unlocking]

\* Block trees of the node: the n-th block is called n and has an earlier one as its parent.
\* Blocks without data have no descendants with data, failed ones no descendants that are not.
Statuses == {29, 11, 2, 61, 75}   \* with and without undo data; a header alone; failed; its child
Offsets == <<8, 127, 128, 16511, 16512>>
BlockTree ==
  /\ input = Nothing
  /\ \E n \in 1..5 : \E parent \in [2..n -> 1..(n - 1)] : \E status \in [1..n -> Statuses] :
     \E base \in {0, 126}, below \in 0..2 :
       LET Height[i \in 1..n] == IF i = 1 THEN base ELSE Height[parent[i]] + 1
       IN  /\ \A i \in 2..n : /\ parent[i] < i
                              /\ status[i] # 2 => status[parent[i]] # 2
                              /\ status[parent[i]] > 32 => status[i] \in {2, 75}
                              /\ status[i] = 75 => status[parent[i]] > 32
           /\ status[1] = 29 /\ \A i \in 2..n : status[i] = 11 => i = n
           /\ input' = [kind |-> "tree", start |-> base + below + (IF base = 0 THEN 0 ELSE 1),
                blocks |-> [i \in 1..n |->
                  [hash |-> <<i, 0>>, height |-> Height[i], status |-> status[i],
                   prev |-> IF i = 1 THEN <<0, 0>> ELSE <<parent[i], 0>>,
                   file |-> i \div 3, offset |-> Offsets[i]]]]

In(script_sig, witness) == [outpoint |-> <<1, 2, 0, 0, 0, 1>>, script_sig |-> script_sig,
                            seq_no |-> <<255, 255, 255, 254>>, witness |-> witness]
Out(script) == [value |-> <<0, 1, 2, 3, 4, 5, 6, 7>>, script_pubkey |-> script]
Tx(inputs, outputs) == [version |-> <<2, 0, 0, 0>>, inputs |-> inputs, outputs |-> outputs,
                        locktime |-> <<9, 8, 7, 6>>]
Txs == {Tx(<<In(<<5, 6>>, <<>>)>>, <<Out(<<>>)>>),
        Tx(<<In(<<>>, <<<<1>>, <<>>>>), In(<<0>>, <<>>)>>, <<Out(<<1>>), Out(<<2>>)>>),
        Tx(<<In(Long(253), <<Long(300)>>)>>, <<Out(Long(252))>>)}
Header(version) == [version |-> version, prev_hash |-> <<3, 4>>, merkle_root |-> <<5, 6>>,
                    rest |-> [i \in 1..12 |-> i]]
Aux == [coinbase |-> CHOOSE tx \in Txs : TRUE, hash |-> <<1, 1>>, branch1 |-> <<<<1, 2>>, <<3, 4>>>>,
        branch2 |-> <<>>, parent |-> Header(<<0, 1, 0, 0>>)]
NodeBlocks == [header : {Header(<<4, 0, 0, 0>>), Header(<<4, 1, 98, 0>>)}, aux : {Aux},
               txs : {<<t>> : t \in Txs} \cup {<<t, u>> : t, u \in Txs}]
Files ==
  /\ input = Nothing
  /\ \E first \in NodeBlocks, second \in {b \in NodeBlocks : Len(b.txs) = 1} :
     \E key \in {<<>>, <<1, 255, 3>>}, chunk \in {1, 7, 1000} :
       input' = [kind |-> "file", blocks |-> <<first, second>>, key |-> key, chunk |-> chunk]

Next == Tapscript \/ Fields \/ Parts \/ BlockTree \/ Files \/ Rows \/ Pages
Spec == Init /\ [][Next]_input

(* What RawEnvelope::from_tapscript, ParsedEnvelope::from and InscriptionParser::parse read
   is what was inscribed: the envelopes of a tapscript that pushes, opcodes and headers
   surround in any order, fields and bodies of any length, and inscriptions in parts that are
   complete exactly when their last script is there. *)
InscriptionsRead ==
  CASE input.kind = "tapscript" -> EnvelopesRead(input.script)
    [] input.kind = "fields" -> FieldsRead(input.fields, input.body)
    [] input.kind = "parts" ->
         PartsRead(input.content_type, input.chunks, input.cuts, input.unlocking)
    [] OTHER -> TRUE

(* What get_block_index makes of the records of the node, forks, failed blocks and headers
   without data among them, is one gapless branch that no other longest chain contradicts,
   and its checkpoints can be extended and replaced at every height: blocks read from files
   are never from two branches. *)
IndexIsOneBranch == input.kind = "tree" => IsOneBranch(input.blocks, input.start)

(* BlkFile::read_block finds every block of a file again at its offset, under any key and
   buffer size, with auxiliary proofs of work and witnesses, and the bytes that to_bytes gives
   to be hashed are those of the node: no transaction gets a txid the node does not know. *)
BlocksRead == input.kind = "file" => FileRead(input.blocks, input.key, input.chunk)
============================================================================
