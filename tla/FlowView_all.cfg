SPECIFICATION FairSpec
CONSTANTS
  a = a
  b = b
  f = f
  g = g
  None = None
  Gone = Gone
  Accounts = {a, b}
  Flow <- MCFlow
  Restored <- MCRestored
  Filed = {b}
  Files = {f, g}
  MaxColumns = 9
  MaxActs = 3
INVARIANT TypeOK EndsEmpty OneCard  NoneStuck Agree FilesAgree
PROPERTY Settles
CHECK_DEADLOCK FALSE
