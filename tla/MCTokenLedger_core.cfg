\* One token, two users, blocks of at most two inscriptions, no inscription on an occupied offset.
SPECIFICATION Spec
CONSTANTS
  alice = alice
  bob = bob
  opReturn = opReturn
  Nil = Nil
  l1 = l1
  l2 = l2
  Users = {alice, bob}
  Burned = opReturn
  Ticks = {"wojk"}
  Lower <- OneSpelled
  Terms <- SmallTerms
  Amounts <- MixedAmounts
  Locations = {l1, l2}
  OccupiedOffsets = FALSE
  MaxInscriptions = 2
  MaxBlocks = 3
SYMMETRY Symmetry
INVARIANTS TypeOK SupplyWithinMax HoldersExact NoPanic TransfersBacked
PROPERTIES LedgerSpec CacheReadsThrough
