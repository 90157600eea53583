\* Two addresses, three blocks, reorgs, a restart, and a subscriber that may fall behind.
SPECIFICATION FairSpec
CONSTANTS
  alice = alice
  bob = bob
  Users = {alice, bob}
  Actions <- MintAndMove
  StartHeight = 1
  MaxLen = 2
  Capacity = 2
  Filters = {{alice}}
  MaxFrom = 0
  MaxActions = 1
  MaxId = 2
  MaxBlocks = 3
  MaxStarts = 2
INVARIANTS HistoryDense HistoryFollowsBlock BlocksReconstructed NoGaps NoSendPanic
PROPERTIES HistoryPublished Exits
