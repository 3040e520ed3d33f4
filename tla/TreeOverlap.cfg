\* Two requests whose steps interleave.
SPECIFICATION Spec
CONSTANTS
  f = f  g = g  h = h  x = x  y = y  a = a  b = b
  Items = {f, g, x}
  Folders = {f, g}
  Old = {f, g}
  Bases = {a, b}
  Given <- MCGiven
  OldName <- MCOldName
  Partitions = {}
  Reqs = {r1, r2}
  Root = root
  NoPart = nopart
  MaxRequests = 2
INVARIANTS
  WalkCollectsSubtree
PROPERTIES
  RequestsEnd
\* The requests are bounded: behaviours end.
CHECK_DEADLOCK FALSE
