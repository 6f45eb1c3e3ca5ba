SPECIFICATION PartSpec
CONSTANTS
  None = None
  Ids = {i1, i2}
  Turns = {t1, t2}
  Confirms = {c1, c2}
  Users = {u1}
  Sessions = {s1}
  MaxActions = 1
  RetainFor = 1
  LockWait = 0
  MaxClock = 2
  DatabaseMayFail = TRUE
  ToolsMayPanic = FALSE
  Chats = {s1}
  Queries = {q1, q2, a1}
  AgentTurns = {a1}
  NoChat = NoChat
  Untitled = Untitled
  HistoryLimit = 2
  CountLimit = 200
  ChatDBMayFail = TRUE
  StepNames = {a, b}
  NoStep = NoStep
  Runs = {r1, r2}
  RepoMayFail = TRUE
  Workers = {w1, w2}
  MaxJobs = 3
CHECK_DEADLOCK FALSE
INVARIANTS
  PoolInv
PROPERTIES
  ExecutionSettles
  SessionsGetTitles
  RunsEnd
  PoolEnds
