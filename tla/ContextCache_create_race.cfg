\* Two requests are the first to name one context.
SPECIFICATION Spec
CONSTANTS
  t1 = t1
  t2 = t2
  a = a
  b = b
  None = None
  Threads = {t1, t2}
  Contexts = {a}
  MaxGen = 2
  MaxSlots = 2
  MaxCalls = 2
  Preloaded = {}
  Creators <- MCAnyCreator
  Removers = {}
  Tracked = {a}
INVARIANT
  WriterExclusion
