SPECIFICATION FactSpec
CONSTANTS
  FactIds = {f1, f2}
  Owners = {u1}
  Keys = {k1}
  Jobs = {j1, j2}
  NoFact = NoFact
  NoOwner = NoOwner
  NoKey = NoKey
  NoJob = NoJob
  MaxOps = 1
  FactDBMayFail = FALSE
CHECK_DEADLOCK FALSE
INVARIANT KeyIsShownOnce
