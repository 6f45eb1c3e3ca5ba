SPECIFICATION Spec
CONSTANTS
  i1 = i1
  i2 = i2
  r1 = r1
  r2 = r2
  Main = Main
  Ids = {i1, i2}
  Requests = {r1, r2}
  Actors <- MCActors
  Steps <- MCSteps
  Outputs <- MCOutputs
  MaxTasks = 1
  RetainFor = 1
  LockWait = 0
  MaxClock = 2
  StoreMayFail = FALSE
  MaxConcurrent = 1
  Heard = {"speech", "envelope", "noise", "blank"}
  ToolsMayPanic = TRUE
SYMMETRY Symmetric
INVARIANTS
  TranscriptIsSpeech
