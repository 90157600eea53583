\* One token, one transfer location, two savepoints.
SPECIFICATION RSpec
CONSTANTS
  alice = alice
  bob = bob
  opReturn = opReturn
  l1 = l1
  Nil = Nil
  Users = {alice, bob}
  Burned = opReturn
  Ticks = {"wojk"}
  Lower <- OneSpelled
  Terms <- SmallTerms
  Amounts <- SmallAmounts
  Locations = {l1}
  OccupiedOffsets = FALSE
  MaxInscriptions = 2
  MaxBlocks = 3
  MaxLen = 2
SYMMETRY UserSymmetry
INVARIANTS LedgerConsistent HoldersExactUntilRollback
PROPERTY RestoreUndoes
