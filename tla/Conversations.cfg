SPECIFICATION PartSpec
CONSTANTS
  None = None
  Ids = {i1, i2}
  Turns = {t1, t2}
  Confirms = {c1, c2, c3}
  Users = {u1, u2}
  Sessions = {s1, s2}
  MaxActions = 1
  RetainFor = 1
  LockWait = 1
  MaxClock = 3
  DatabaseMayFail = FALSE
  ToolsMayPanic = TRUE
  Chats = {s1, s2}
  Queries = {t1, t2, a1}
  AgentTurns = {a1}
  NoChat = NoChat
  Untitled = Untitled
  HistoryLimit = 2
  CountLimit = 200
  ChatDBMayFail = TRUE
  FactIds = {c1, c2, c3}
  Owners = {u1, u2}
  Keys = {s1, s2}
  Jobs = {t1, t2}
  NoFact = NoFact
  NoOwner = NoOwner
  NoKey = NoKey
  NoJob = NoJob
  MaxOps = 2
  FactDBMayFail = TRUE
  ToolCallers = {c1, c2, c3}
  MaxRetry = 1
  TripAfter = 1
  CBMaxRequests = 1
  CBInterval = 2
  CBTimeout = 1
  MaxTicks = 4
SYMMETRY Symmetric
CHECK_DEADLOCK FALSE
INVARIANTS
  ActionsAreHonest
  ActionInv
  ChatInv
  FactInv
  ToolInv
PROPERTIES
  ActionsMoveForward
  RefinesConfirmOnce
  OnlyOwnFacts
