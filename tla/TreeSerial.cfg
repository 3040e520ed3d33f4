\* One request at a time, from every small tree.
SPECIFICATION Spec
CONSTANTS
  f = f  g = g  h = h  x = x  y = y  a = a  b = b
  Items = {f, g, h, x, y}
  Folders = {f, g, h}
  Old = {f, g, x}
  Bases = {a, b}
  Given <- MCGiven
  OldName <- MCOldName
  Partitions = {p1}
  Reqs = {r1}
  Root = root
  NoPart = nopart
  MaxRequests = 2
INVARIANTS
  TypeOK
  FoldersFormATree
  BinHoldsWholeFolders
  NothingIsOrphaned
  FolderKeepsPartition
  SiblingNamesDiffer
  CopyIsComplete
PROPERTY RunawayCopyGoesOn
\* The requests are bounded: behaviours end.
CHECK_DEADLOCK FALSE
