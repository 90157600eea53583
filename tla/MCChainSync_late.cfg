\* A one-block reorg that is seen late.
SPECIFICATION Spec
CONSTANTS
  MaxLen = 2
  Capacity = 1
  InitLen = 3
  ReorgDepth = 1
  KeepsUp = FALSE
  Troubles = {{"reorg"}}
  MaxBlocks = 7
  MaxFaults = 0
  MaxStarts = 1
INVARIANTS AppliedLinked
