SPECIFICATION LiveSpec
CONSTANTS
  a = a
  b = b
  c = c
  r1 = r1
  r2 = r2
  r3 = r3
  None = None
  Tiles = {a, b}
  Filled = {a, b}
  Requests = {r1, r2, r3}
  Jobs <- MCImageOrJson
  Failing = {r1, r2, r3}
  MaxSize = 1
  MaxAge = 0
  MaxTime = 1
PROPERTY RequestEnds
CHECK_DEADLOCK FALSE
