SPECIFICATION Spec
CONSTANTS
  N = 16
  Blocks <- MCBlocks
  Configs <- GoodConfigs
  Attempts = 2
INVARIANTS IInv FoundIsAvailable FullIsFull RecordsAreDisjoint NoPanic
PROPERTIES Terminates RoundsRunOut
CHECK_DEADLOCK FALSE
