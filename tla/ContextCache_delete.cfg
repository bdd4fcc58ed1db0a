\* Requests that create and delete a context while others use it.
SPECIFICATION LiveSpec
CONSTANTS
  t1 = t1
  t2 = t2
  a = a
  b = b
  None = None
  Threads = {t1, t2}
  Contexts = {a}
  MaxGen = 5
  MaxSlots = 2
  MaxCalls = 2
  Preloaded = {}
  Creators <- MCOneCreator
  Removers = {t1}
  Tracked = {}
PROPERTY
  RequestEnds
