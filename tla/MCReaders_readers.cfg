\* A request between the writes of the first blocks, of a reorg and of an orderly stop.
SPECIFICATION ReadSpec
CONSTANTS
  MaxLen = 2
  StartHeight = 1
  InitLen = 3
  MaxBlocks = 5
  MaxCrashes = 0
  MaxStarts = 1
INVARIANTS AnswersOneBlock ProofCurrent FailsOnlyInFlight
