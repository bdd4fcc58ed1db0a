SPECIFICATION Spec
CONSTANTS
  f1 = f1
  f2 = f2
  a1 = a1
  a2 = a2
  a3 = a3
  a4 = a4
  a5 = a5
  a6 = a6
  a7 = a7
  None = None
  File = File
  Contexts = {f1}
  Sources <- MCOwnClusters
  Entities = {a1, a2, a3, a4, a5, a6, a7}
  Batches <- MCBatches
  Ids = {1, 2, 3, 4, 5, 6, 7, 8, 9, 10}
  Key <- MCKey
  MaxSize = 2
  MaxRequests = 3
INVARIANT TypeOK Forest NoEmptyCluster LeavesBounded LinksResolve Simplified
PROPERTY AncestorsFound
CHECK_DEADLOCK FALSE
