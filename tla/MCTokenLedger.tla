--------------------------- MODULE MCTokenLedger ---------------------------
(* TokenLedger, with its properties, on small instances. *)
EXTENDS LedgerProperties, TLC

CONSTANTS alice, bob, opReturn, l1, l2

\* Two spellings of one token.
TwoSpellings == "Wojk" :> "wojk" @@ "wojk" :> "wojk"
OneSpelled == "wojk" :> "wojk"
TwoTokens == "aaaa" :> "aaaa" @@ "bbbb" :> "bbbb"

SmallTerms == {[max |-> 3, lim |-> 2, dec |-> 0]}
OneAmount == {[value |-> 1, scale |-> 0]}
SmallAmounts == {[value |-> 1, scale |-> 0], [value |-> 2, scale |-> 0]}
MixedAmounts == SmallAmounts \cup {[value |-> 1, scale |-> 1]}

UserSymmetry == Permutations(Users)
Symmetry == Permutations(Users) \cup Permutations(Locations)
============================================================================
