---------------------------- MODULE Inscriptions ----------------------------
(***************************************************************************)
(* Where inscriptions are: Parser::parse_block (inscriptions/parser.rs),   *)
(* with the offset arithmetic of searcher.rs and leaked.rs and the         *)
(* assembly of inscriptions from scripts (inscriptions/structs.rs).        *)
(*                                                                         *)
(* The code knows outpoints, values and offsets.  Next to it the model     *)
(* keeps the satoshis themselves: `utxo` and `feeSats` say which satoshis  *)
(* an output and the fees of the block consist of, in order, and           *)
(* `inscribed` which of them carry an inscription.  Outputs of a           *)
(* transaction and inputs are counted from 1, offsets from 0.  An output   *)
(* without value stands for OP_RETURN: nobody can spend it.  A satoshi is  *)
(* <<b, v, k>>: the k-th of the subsidy of block b (v = 0), or of output v *)
(* before the first block (b = 0).                                         *)
(***************************************************************************)
EXTENDS Integers, Sequences, FiniteSets, SequencesExt

CONSTANTS
  Outs,        \* the outputs of a transaction: sequences of values
  FirstOuts,   \* the values of the outputs before the first block
  Subsidy,     \* the new satoshis of a block
  Bells,       \* JUBILEE_HEIGHT is that of Bellscoin
  Scripts,     \* what the script of an input may hold
  Nil,
  MaxInputs,   \* bound: inputs of a transaction
  MaxTxs,      \* bound: transactions
  MaxBlocks    \* bound: blocks

Satoshis == Nat \X Nat \X Nat
Outpoints == Int \X Nat   \* the transaction and the output
Txs == [id : Nat, inputs : Seq(Outpoints), values : Seq(Nat), outs : Seq(Nat),
        scripts : Seq(Scripts), sats : Seq(Satoshis)]

(* A script is [tap, legal, npieces, pieces, pointers].  A legal tapscript, one that can be
   read to its end, has an envelope per pointer (Nil: without the field).  Every other
   script, an illegal tapscript too, is taken for pushes that begin with "ord", a number of
   pieces and a content type (npieces = 0: they do not) and go on with pieces, each
   numbered by how many come after it. *)
ASSUME InscriptionsAssumption ==
  /\ Outs \subseteq Seq(Nat) \ {<<>>} /\ Subsidy \in Nat
  /\ FirstOuts \in Seq(Nat \ {0})
  /\ Scripts \subseteq [tap : BOOLEAN, legal : BOOLEAN, npieces : Nat, pieces : Seq(Nat),
                        pointers : Seq(Nat \cup {Nil})]
  /\ Nil \notin Nat \cup (Nat \X Nat) \cup Txs
  /\ MaxInputs \in Nat /\ MaxTxs \in Nat /\ MaxBlocks \in Nat /\ Bells \in BOOLEAN

VARIABLES
  utxo,           \* the unspent outputs: outpoint -> its satoshis
  inscribed,      \* history: the satoshis that carry an inscription
  db_offsets,     \* outpoint_to_inscription_offsets: <<outpoint, offset>>
  db_partials,    \* outpoint_to_partials: outpoint -> scripts
  \* parse_block
  jubilee,        \* is_jubilee_height
  inBlock,
  loaded,         \* the outpoints the block has spent so far
  offsets,        \* inscription_outpoint_to_offsets
  partials,       \* outpoint_to_partials
  leaked,         \* LeakedInscriptions.inscriptions: offsets into the fees
  total_amount,   \* LeakedInscriptions.total_amount
  feeSats,        \* the satoshis of the fees
  tx,             \* the transaction, or Nil
  input_index,    \* the input that comes next
  created,        \* the satoshis the last input made a token action of
  \* bounds
  txs, blocks

chainVars == <<utxo, inscribed, feeSats>>
vars == <<chainVars, db_offsets, db_partials, jubilee, inBlock, loaded, offsets, partials,
          leaked, total_amount, tx, input_index, created, txs, blocks>>

----------------------------------------------------------------------------
(* Arithmetic of offsets. *)

SumOf(values) == SumFunction(values)
Before(values, i) == SumFunctionOnSet(values, 1..(i - 1))

\* calc_offsets: the fee is taken off the last inputs, and an input that is gone
\* altogether has no offset.
KeptInputs(values, fee) ==
  LET left(i) == fee - (SumOf(values) - Before(values, i + 1))   \* of the fee, before input i
  IN  CHOOSE n \in 0..Len(values) :
        /\ n # 0 => values[n] > left(n)
        /\ \A i \in (n + 1)..Len(values) : values[i] =< left(i)
calc_offsets(values, fee) == [i \in 1..KeptInputs(values, fee) |-> Before(values, i)]

\* The output an offset falls into, and where in it.
Bug_InOutput(offset, outs, v) == offset =< Before(outs, v + 1)
InOutput(offset, outs, v) == offset < Before(outs, v + 1)
OutputAt(offset, outs) ==
  LET v == CHOOSE v \in DOMAIN outs :
             InOutput(offset, outs, v) /\ \A w \in 1..(v - 1) : ~InOutput(offset, outs, w)
  IN  <<v, offset - Before(outs, v)>>

\* get_output_index_by_input
get_output(offset, outs) ==
  IF offset = Nil \/ offset >= SumOf(outs) THEN Nil ELSE OutputAt(offset, outs)

\* find_fee and add: where in the fees of the block a leaked satoshi is.
Bug_FeeOffset(values, i, offset, outs) == Before(values, i) + offset
FeeOffset(values, i, offset, outs) == Before(values, i) + offset - SumOf(outs)
LeakOffset(values, i, offset, outs) ==
  LET fee == SumOf(values) - SumOf(outs)
  IN  total_amount - (fee - FeeOffset(values, i, offset, outs))

\* find_inscription_vout: behind the reward of the coinbase come the fees.
find_inscription_vout(offset, outs) ==
  LET at == offset + (SumOf(outs) - total_amount)
  IN  IF at >= SumOf(outs) THEN Nil ELSE OutputAt(at, outs)

----------------------------------------------------------------------------
(* Assembly: InscriptionParser::parse. *)

\* How many of the pieces continue the count down from n.
Continuing(n, pieces) ==
  CHOOSE k \in 0..Len(pieces) :
    /\ \A j \in 1..k : pieces[j] = n - j
    /\ k < Len(pieces) /\ k < n => pieces[k + 1] # n - k - 1
    /\ k =< n

Malformed == -1

\* The pieces still missing after a script; a later script must go on at once.
PiecesLeft(parts) ==
  LET left[i \in 1..Len(parts)] ==
        IF i = 1
        THEN IF parts[1].npieces = 0 THEN Malformed
             ELSE parts[1].npieces - Continuing(parts[1].npieces, parts[1].pieces)
        ELSE IF left[i - 1] = Malformed \/ Continuing(left[i - 1], parts[i].pieces) = 0
             THEN Malformed
             ELSE left[i - 1] - Continuing(left[i - 1], parts[i].pieces)
  IN  left[Len(parts)]

\* from_parts: one element per inscription, its pointer or Nil; or Partial, or None.
HasEnvelopes(parts) == Len(parts) = 1 /\ parts[1].tap /\ parts[1].legal
Found(parts) ==
  IF HasEnvelopes(parts) THEN parts[1].pointers
  ELSE IF PiecesLeft(parts) = 0 THEN <<Nil>> ELSE <<>>
IsPartial(parts) == ~HasEnvelopes(parts) /\ PiecesLeft(parts) > 0

----------------------------------------------------------------------------
NoRows == [o \in {} |-> <<>>]
Drop(rows, keys) == [o \in DOMAIN rows \ keys |-> rows[o]]
Add(rows, new) == [o \in DOMAIN rows \cup DOMAIN new |-> IF o \in DOMAIN new THEN new[o] ELSE rows[o]]
Only(rows, keys) == [o \in DOMAIN rows \cap keys |-> rows[o]]

\* The outputs of a transaction that consist of satoshis, from a sequence of them.
Outputs(id, outs, sats) ==
  [o \in {<<id, v>> : v \in {w \in DOMAIN outs : outs[w] > 0}} |->
     SubSeq(sats, Before(outs, o[2]) + 1, Before(outs, o[2] + 1))]

Init ==
  /\ utxo = [o \in {<<0, v>> : v \in DOMAIN FirstOuts} |->
              [k \in 1..FirstOuts[o[2]] |-> <<0, o[2], k>>]]
  /\ inscribed = {}
  /\ db_offsets = {} /\ db_partials = NoRows
  /\ jubilee \in BOOLEAN
  /\ inBlock = FALSE
  /\ loaded = {} /\ offsets = {} /\ partials = NoRows
  /\ leaked = {} /\ total_amount = 0 /\ feeSats = <<>>
  /\ tx = Nil /\ input_index = 1 /\ created = {}
  /\ txs = 0 /\ blocks = 0

\* A new block; the jubilee height may have come.
BeginBlock ==
  /\ ~inBlock /\ blocks < MaxBlocks
  /\ inBlock' = TRUE
  /\ \E j \in BOOLEAN : (jubilee => j) /\ jubilee' = j
  /\ loaded' = {} /\ offsets' = {} /\ partials' = NoRows
  /\ leaked' = {} /\ total_amount' = 0 /\ feeSats' = <<>>
  /\ blocks' = blocks + 1
  /\ UNCHANGED <<utxo, inscribed, db_offsets, db_partials, tx, input_index, created, txs>>

Spendable == {s \in UNION {[1..n -> DOMAIN utxo] : n \in 1..MaxInputs} : IsInjective(s)}

(* A transaction: its rows are loaded (the code loads those of the whole block, and
   only this transaction uses them) and its fee is added to the fees. The code asks every input for
   a tapscript; the one coin before its jubilee, but for Bellscoin, is Dogecoin (JUBILEE_HEIGHT,
   main.rs:70), which has no witnesses. *)
BeginTx ==
  /\ inBlock /\ tx = Nil /\ txs < MaxTxs
  /\ \E inputs \in Spendable, outs \in Outs :
     \E scripts \in [DOMAIN inputs -> Scripts] :
       LET values == [i \in DOMAIN inputs |-> Len(utxo[inputs[i]])]
           sats == FlattenSeq([i \in DOMAIN inputs |-> utxo[inputs[i]]])
       IN  /\ SumOf(outs) =< SumOf(values)
           /\ \A i \in DOMAIN scripts : scripts[i].tap => jubilee \/ Bells
           /\ tx' = [id |-> txs + 1, inputs |-> inputs, values |-> values, outs |-> outs,
                     scripts |-> scripts, sats |-> sats]
           /\ utxo' = Add(Drop(utxo, Range(inputs)), Outputs(txs + 1, outs, sats))
           /\ feeSats' = feeSats \o SubSeq(sats, SumOf(outs) + 1, Len(sats))
           /\ total_amount' = total_amount + SumOf(values) - SumOf(outs)
           /\ offsets' = offsets \cup {l \in db_offsets : l[1] \in Range(inputs)}
           /\ partials' = Add(partials, Only(db_partials, Range(inputs)))
           /\ loaded' = loaded \cup Range(inputs)
  /\ input_index' = 1
  /\ txs' = txs + 1
  /\ UNCHANGED <<inscribed, db_offsets, db_partials, jubilee, inBlock, leaked, created, blocks>>

\* The offset of a satoshi of an input among the satoshis of the transaction.
Cum(i, offset) ==
  LET cum == calc_offsets(tx.values, SumOf(tx.values) - SumOf(tx.outs))
  IN  IF i \in DOMAIN cum THEN cum[i] + offset ELSE Nil
Target(i, offset) == get_output(Cum(i, offset), tx.outs)
LocationOf(target) == <<<<tx.id, target[1]>>, target[2]>>

\* convert_to_template: the pointer counts when it points into the outputs.
Placed(i, pointer) ==
  LET pointed == get_output(pointer, tx.outs)
  IN  LocationOf(IF pointed # Nil THEN pointed ELSE Target(i, 0))

\* What a script of input i makes of the partials: the parts it completes or continues.
Parts(i) ==
  LET op == tx.inputs[i]
  IN  IF op \in DOMAIN partials THEN Append(partials[op], tx.scripts[i]) ELSE <<tx.scripts[i]>>

\* An inscription on an occupied offset is skipped before the jubilee, but not on Bellscoin.
Bug_Skipped(location, here) == FALSE
Skipped(location, here) == ~Bells /\ ~jubilee /\ location \in here

\* By the satoshis themselves: an inscription is born on the one its pointer names, or
\* on the first of its input.
BornOn(i, pointer) ==
  LET first == Before(tx.values, i)
      inOutputs(n) == n < SumOf(tx.outs)
  IN  tx.sats[1 + (IF pointer # Nil /\ inOutputs(first) /\ inOutputs(pointer)
                   THEN pointer ELSE first)]

(* One input: the inscriptions on it move, and one that its script completes is
   created. *)
Input ==
  /\ tx # Nil
  /\ LET i == input_index
         op == tx.inputs[i]
         here == {l[2] : l \in {m \in offsets : m[1] = op}}
         gone == {k \in here : Target(i, k) = Nil}
         moved == {l \in offsets : l[1] # op} \cup {LocationOf(Target(i, k)) : k \in here \ gone}
         considered == jubilee \/ i = 1
         found == IF considered THEN Found(Parts(i)) ELSE <<>>
         lost == found # <<>> /\ Target(i, 0) = Nil
         places == IF lost THEN {} ELSE {Placed(i, found[n]) : n \in DOMAIN found}
     IN  /\ offsets' = moved \cup places
         /\ leaked' = leaked
              \cup {LeakOffset(tx.values, i, k, tx.outs) : k \in gone}
              \cup {LeakOffset(tx.values, i, 0, tx.outs) : n \in IF lost THEN {1} ELSE {}}
         /\ created' = IF lost THEN {} ELSE
              {BornOn(i, found[n]) : n \in {m \in DOMAIN found : ~Skipped(Placed(i, found[m]), moved)}}
         /\ inscribed' = inscribed \cup {BornOn(i, found[n]) : n \in DOMAIN found}
         /\ partials' =
              IF ~considered THEN partials
              ELSE IF IsPartial(Parts(i)) /\ i \in DOMAIN tx.outs
              THEN Add(Drop(partials, {op}), [o \in {<<tx.id, i>>} |-> Parts(i)])
              ELSE Drop(partials, {op})
         /\ IF i = Len(tx.inputs) THEN tx' = Nil /\ input_index' = 1
            ELSE input_index' = i + 1 /\ UNCHANGED tx
  /\ UNCHANGED <<utxo, feeSats, db_offsets, db_partials, jubilee, inBlock, loaded,
                 total_amount, txs, blocks>>

\* One output, or two, one of them without value perhaps.
CoinbaseOutputs(reward) == {<<reward>>} \cup {<<k, reward - k>> : k \in 0..reward}

NewSats == [k \in 1..Subsidy |-> <<blocks, 0, k>>]

(* The coinbase takes the subsidy and all fees; what leaked is in its outputs. The
   rows of the outpoints that were spent go, the rows in memory come. *)
EndBlock ==
  /\ inBlock /\ tx = Nil
  /\ \E outs \in CoinbaseOutputs(Subsidy + total_amount) :
       LET sats == NewSats \o feeSats
           vouts == {find_inscription_vout(k, outs) : k \in leaked} \ {Nil}
       IN  /\ utxo' = Add(utxo, Outputs(-blocks, outs, sats))
           /\ db_offsets' = {l \in db_offsets : l[1] \notin loaded} \cup offsets
                            \cup {<<<<-blocks, t[1]>>, t[2]>> : t \in vouts}
  /\ db_partials' = Add(Drop(db_partials, loaded), partials)
  /\ inBlock' = FALSE
  /\ loaded' = {} /\ offsets' = {} /\ partials' = NoRows
  /\ leaked' = {} /\ total_amount' = 0 /\ feeSats' = <<>> /\ created' = {}
  /\ UNCHANGED <<inscribed, jubilee, tx, input_index, txs, blocks>>

Terminated == ~inBlock /\ blocks = MaxBlocks /\ UNCHANGED vars

Next == BeginBlock \/ BeginTx \/ Input \/ EndBlock \/ Terminated

Spec == Init /\ [][Next]_vars

----------------------------------------------------------------------------
\* Between transactions: the rows that count are those in memory and those of the
\* database that were not loaded yet.
AtTx == tx = Nil
Tracked == {l \in offsets \cup {m \in db_offsets : m[1] \notin loaded} : l[1] \in DOMAIN utxo}
PartialRows == Add(Drop(db_partials, loaded), partials)

Places(sats) == {k \in 0..(Len(sats) - 1) : sats[k + 1] \in inscribed}

(* An inscription stays on its satoshi: through any number of transactions of any
   number of blocks, through outputs and fees and the coinbase, the offsets that the
   code computes from values point at exactly the satoshis that inscriptions were
   created on, and at no other. *)
OnItsSatoshi ==
  AtTx => Tracked = UNION {{<<o, k>> : k \in Places(utxo[o])} : o \in DOMAIN utxo}

(* What leaks into the fees keeps its place in them until the coinbase, whatever other
   transactions of the block leak before and after. *)
LeakedInFees == AtTx => leaked = Places(feeSats)

(* Before the jubilee no token action is made of an inscription created on a satoshi
   that carries one already ("skip inscription which was created into occupied
   offset"): the assumption ~OccupiedOffsets of TokenLedger. *)
OccupiedSkipped ==
  [][Input /\ ~jubilee /\ ~Bells => created' \cap inscribed = {}]_vars
============================================================================
