\* Two blocks, two transactions between them, five satoshis at most.
SPECIFICATION Spec
CONSTANTS
  Nil = Nil
  Bells = FALSE
  Outs <- MCOuts
  FirstOuts <- MCFirstOuts
  Subsidy = 1
  Scripts <- MCScripts
  MaxInputs = 2
  MaxTxs = 2
  MaxBlocks = 2
INVARIANTS OnItsSatoshi LeakedInFees
PROPERTY OccupiedSkipped
