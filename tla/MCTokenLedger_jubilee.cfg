\* Jubilee rule: transfers of one location, two spellings of one token.
SPECIFICATION Spec
CONSTANTS
  alice = alice
  bob = bob
  opReturn = opReturn
  Nil = Nil
  l1 = l1
  l2 = l2
  Users = {alice, bob}
  Burned = opReturn
  Ticks = {"Wojk", "wojk"}
  Lower <- TwoSpellings
  Terms <- SmallTerms
  Amounts <- SmallAmounts
  Locations = {l1}
  OccupiedOffsets = TRUE
  MaxInscriptions = 2
  MaxBlocks = 3
SYMMETRY UserSymmetry
INVARIANTS OneSpelling NothingFromNothing
