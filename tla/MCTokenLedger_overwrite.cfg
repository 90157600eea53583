\* Jubilee rule: the panic of a transfer's move.
SPECIFICATION Spec
CONSTANTS
  alice = alice
  bob = bob
  opReturn = opReturn
  Nil = Nil
  l1 = l1
  l2 = l2
  Users = {alice, bob}
  Burned = opReturn
  Ticks = {"wojk"}
  Lower <- OneSpelled
  Terms <- SmallTerms
  Amounts <- SmallAmounts
  Locations = {l1}
  OccupiedOffsets = TRUE
  MaxInscriptions = 3
  MaxBlocks = 2
SYMMETRY UserSymmetry
INVARIANTS NoPanic
