---------------------------- MODULE MCTokenReorg ----------------------------
(* TokenReorg on small instances. *)
EXTENDS TokenReorg, TLC

CONSTANTS alice, bob, opReturn, l1

OneSpelled == "wojk" :> "wojk"
SmallTerms == {[max |-> 3, lim |-> 2, dec |-> 0]}
SmallAmounts == {[value |-> 1, scale |-> 0], [value |-> 2, scale |-> 0]}

UserSymmetry == Permutations(Users)
============================================================================
