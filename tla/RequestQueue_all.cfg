SPECIFICATION FairSpec
CONSTANTS
  column = column
  file = file
  None = None
  Contexts = {column, file}
  Unnamed = {file}
  MaxRequests = 4
INVARIANT LockHeld InTurn
PROPERTY ImplementsSerial OverlayLifts Announced
