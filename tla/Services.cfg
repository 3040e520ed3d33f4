\* Storage quota, object mirror, accounts and migration, each on its own.
SPECIFICATION Spec
CONSTANTS
  \* StorageQuota
  Files = {f1, f2}
  Uploads = {u}
  Total = 2
  Parts = {p1, p2}
  NoPart = nopart
  TargetOf <- MCTargetOf
  Workers = {h1, h2}
  Limits = {1, 3}
  Sizes = {1, 2}
  MaxJobs = 3
  MaxEvents = 1
  \* ObjectMirror
  w = w  x = x  y = y  a = a  ab = ab
  Entries = {w, x, y}
  Directories = {w}
  Workspace = w
  WorkspaceName = a
  Top = top
  Labels = {a, ab}
  Extends <- MCExtends
  FirstNames = {n1, n2}
  Callers = {c1, c2}
  MaxCalls = 3
  MaxTrouble = 1
  \* Accounts
  Users = {u1, u2, u3}
  Managers = {u1}
  RoleDocs = {d1, d2}
  RoleKey <- MCRoleKey
  Clerks = {k1, k2}
  MaxErrands = 4
  \* BillingMigration
  plansCol = plansCol  paysCol = paysCol
  planIdx = planIdx  keyIdx = keyIdx  payIdx = payIdx
  Collections = {plansCol, paysCol}
  Indexes = {planIdx, keyIdx, payIdx}
  Of <- MCOf
  Unique = {planIdx, keyIdx, payIdx}
  Scanned = {planIdx, keyIdx}
  Differing = {payIdx}
  PlanIndex = planIdx
  Catalogue = {free}
  Scripts = {s1, s2}
  MaxRuns = 2
  MaxStarts = 1
  MaxSignups = 1
INVARIANTS
  ServicesTypeOK
  OvershootIsBounded
  PartitionsFit
  UploadBookedOnce
  MergedFileIsWhole
  MirrorMatchesTree
  SyncInsertsOnce
  SomebodyAdministers
  AssignedRoleExists
  DeletedLeavesNothing
  SuccessIsComplete
  FailureIsExplained
PROPERTIES
  BlockStopsGrowth
  PurgeKeepsACopy
SYMMETRY QuotaSymmetry
\* Requests, runs and starts are bounded: behaviours end.
CHECK_DEADLOCK FALSE
