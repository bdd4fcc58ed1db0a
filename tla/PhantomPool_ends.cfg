SPECIFICATION LiveSpec
CONSTANTS
  x = x
  y = y
  c1 = c1
  c2 = c2
  c3 = c3
  w1 = w1
  w2 = w2
  Blank = Blank
  None = None
  Reconnect = Reconnect
  Clients = {c1, c2, c3}
  Sources = {x, y}
  Jobs <- MCJobs
  Renderers = {w1}
  PoolSize = 1
  Started = {w1}
  Calling = {}
  Bad = {y}
  Lossy = {}
  Mortal = {}
  MaxSize = 1
INVARIANT IdleInPool AnswerAwaited OwnImage
PROPERTY ImplementsService
