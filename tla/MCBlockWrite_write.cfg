\* Kills between any two writes, or reorgs; height 1 is before START_HEIGHT.
SPECIFICATION Spec
CONSTANTS
  MaxLen = 2
  StartHeight = 2
  InitLen = 4
  MaxBlocks = 6
  MaxCrashes = 1
  MaxStarts = 2
INVARIANTS TablesMatchTip ProofChained LastBlockWritten
PROPERTY AppliesOnParent
