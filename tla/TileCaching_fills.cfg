SPECIFICATION Spec
CONSTANTS
  a = a
  b = b
  c = c
  r1 = r1
  r2 = r2
  r3 = r3
  None = None
  Tiles = {a, b, c}
  Filled = {a, b}
  Requests = {r1, r2, r3}
  Jobs <- MCMixedJobs
  Failing = {r1, r2, r3}
  MaxSize = 1
  MaxAge = 1
  MaxTime = 2
SYMMETRY MCRequestsAlike
INVARIANT TypeOK FilledOrFailed ImageHasTile
PROPERTY KeptWhilePromised
CHECK_DEADLOCK FALSE
