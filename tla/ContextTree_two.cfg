SPECIFICATION LiveSpec
CONSTANTS
  f1 = f1
  f2 = f2
  a1 = a1
  a2 = a2
  a3 = a3
  a4 = a4
  a5 = a5
  a6 = a6
  a7 = a7
  None = None
  File = File
  Contexts = {f1, f2}
  Sources <- MCAllClusters
  Entities = {a1, a2, a3, a7}
  Batches <- MCSinglesAndAll
  Ids = {1, 2, 3, 4, 5, 6, 7, 8, 9, 10, 11, 12}
  Key <- MCKey
  MaxSize = 2
  MaxRequests = 4
INVARIANT AccountsPlaced
PROPERTY RequestEnds
CHECK_DEADLOCK FALSE
