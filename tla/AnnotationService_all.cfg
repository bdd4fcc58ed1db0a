SPECIFICATION Spec
CONSTANTS
  c1 = c1
  c2 = c2
  u1 = u1
  u2 = u2
  here = here
  there = there
  wide = wide
  top = top
  left = left
  right = right
  one = one
  two = two
  g = g
  None = None
  Clients = {c1, c2}
  Uuids = {u1, u2}
  Groups = {g}
  Places = {here, there}
  Tiles = {top, left, right}
  Bins = {one, two}
  Cover <- MCCover
  MaxTime = 1
  MaxFailures = 1
SYMMETRY MCAlike
INVARIANT Coherent
PROPERTY ImplementsStore
