\* Liveness: a signal or a lost node, a restart, reorgs of any depth.
SPECIFICATION FairSpec
CONSTANTS
  MaxLen = 2
  Capacity = 1
  InitLen = 4
  ReorgDepth = 3
  KeepsUp = FALSE
  Troubles = {{"reorg", "signal", "rpc"}}
  MaxBlocks = 9
  MaxFaults = 1
  MaxStarts = 2
PROPERTIES CatchesUp StopsWhenTold
