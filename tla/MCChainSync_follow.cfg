\* Three-block reorgs, also in the middle of a round, or a killed process.
SPECIFICATION Spec
CONSTANTS
  MaxLen = 4
  Capacity = 1
  InitLen = 6
  ReorgDepth = 3
  KeepsUp = TRUE
  Troubles = {{"reorg", "signal", "rpc"}, {"signal", "kill"}}
  MaxBlocks = 12
  MaxFaults = 2
  MaxStarts = 3
INVARIANTS AppliedLinked OrphansUndoable StopLeavesBestChain
PROPERTY FollowsOneChain
