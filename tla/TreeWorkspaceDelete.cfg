\* The workspace delete against its own comment.
SPECIFICATION Spec
CONSTANTS
  f = f  g = g  h = h  x = x  y = y  a = a  b = b
  Items = {f, g, h, x, y}
  Folders = {f, g, h}
  Old = {f, g, x}
  Bases = {a, b}
  Given <- MCGiven
  OldName <- MCOldName
  Partitions = {p1}
  Reqs = {r1}
  Root = root
  NoPart = nopart
  MaxRequests = 1
PROPERTIES
  WorkspaceDeleteTakesDescendants
\* The requests are bounded: behaviours end.
CHECK_DEADLOCK FALSE
