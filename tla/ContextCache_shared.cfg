\* Two requests and two contexts: a is created by t1, b is there; nobody deletes.
SPECIFICATION LiveSpec
CONSTANTS
  t1 = t1
  t2 = t2
  a = a
  b = b
  None = None
  Threads = {t1, t2}
  Contexts = {a, b}
  MaxGen = 2
  MaxSlots = 2
  MaxCalls = 2
  Preloaded = {b}
  Creators <- MCOneCreator
  Removers = {}
  Tracked = {a}
INVARIANTS
  WriterExclusion
  NoLostEdit
  TakenWhileWritten
  HoldsBalance
PROPERTY
  RequestEnds
