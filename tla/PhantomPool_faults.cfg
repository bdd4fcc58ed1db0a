SPECIFICATION Spec
CONSTANTS
  x = x
  y = y
  c1 = c1
  c2 = c2
  c3 = c3
  w1 = w1
  w2 = w2
  Blank = Blank
  None = None
  Reconnect = Reconnect
  Clients = {c1, c2}
  Sources = {x}
  Jobs <- MCInline
  Renderers = {w1, w2}
  PoolSize = 1
  Started = {}
  Calling = {x}
  Bad = {}
  Lossy = {w1}
  Mortal = {w2}
  MaxSize = 0
SYMMETRY MCClientsAlike
INVARIANT OnePlace
CHECK_DEADLOCK FALSE
