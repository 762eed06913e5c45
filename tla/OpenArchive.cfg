SPECIFICATION Spec
CONSTANTS
  NumFormats = 3
  MaxKept = 2
  NoHandler = NoHandler
INVARIANTS
  TypeOK
  FirstFormatWins
  CountsMatchHolders
CHECK_DEADLOCK FALSE
