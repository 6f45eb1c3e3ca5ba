SPECIFICATION TrackerSpec
CONSTANTS
  i1 = i1
  i2 = i2
  a1 = a1
  a2 = a2
  Main = Main
  Ids = {i1, i2}
  Actors = {Main, a1, a2}
  Steps = {"s"}
  Outputs <- MCOutputs
  MaxTasks = 1
  RetainFor = 1
  LockWait = 1
  MaxClock = 2
  StoreMayFail = TRUE
SYMMETRY Symmetric
INVARIANTS
  StatusReachesStore
  TrackerInv
PROPERTIES
  OnlyTerminalForgotten
  DurableEndIsFinal
