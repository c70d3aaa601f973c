CONSTANTS
  Window = 3
  MaxSequence = 7
  Input <- MCInput
SPECIFICATION WindowSpec
INVARIANTS
  WindowSummarisesHistory
PROPERTY ImplementsIdeal
