SPECIFICATION WorkSpec
CONSTANTS
  sa = sa
  sb = sb
  heardText = heardText
  tidyText = tidyText
  Absent = Absent
  Nobody = Nobody
  FileIds = {t1, t2, t3}
  Snapshots = {v1, v2}
  ReadMayFail = FALSE
  WriteMayFail = TRUE
  TaskIds = {v1, v2}
  StepsOf = {sa, sb}
  Transcripts = {heardText, tidyText}
  NoText = NoText
  Views <- MCViews
  NoRecord = NoRecord
  MySQLMayFail = TRUE
  StepNames = {t1, t2, t3}
  NoStep = NoStep
  Runs = {v1, v2}
  RepoMayFail = TRUE
  ChunkSizes = {1, 2}
  MaxBufferSamples = 4
  Pad = 2
  MinSilence = 1
  MaxSamples = 6
  Files <- MCFiles
  Lattices <- MCLattices
  ChunkMillis = 2000
  MaxPollMillis = 5
  PollMillis = 2
  Latencies = {0, 3}
  MaxWindow = 5
  Overlap = 2
  MaxRecording = 14
  u1 = u1
  s1 = s1
  n1 = n1
  n2 = n2
  None = None
  Requests = {v1, v2}
  Users = {u1}
  Sessions = {s1}
  Names = {n1, n2}
  Texts <- MCTexts
  MaxChunks = 2
  Size <- MCSize
  MaxStarts = 3
  Chunks <- MCChunks
  Askers = {"u1", "u2"}
  NoAsker = NoAsker
  ChatIds = {"s1", "s2"}
  NoChatId = NoChatId
  ChunkSources = {"a", "b"}
  ChunkRunes <- MCChunkRunes
  HeaderRunes = 1
  SuffixRunes = 1
  SeparatorRunes = 1
  BudgetRunes = 8
  SearchTopK = 3
  TopK = 2
  Documents <- MCDocuments
  MaxRunes = 12
  MinRunes = 2
  OverlapRunes = 2
  Links = {l1, l2}
  NoLink = NoLink
  MaxProviderResults = 3
  MaxDocuments = 2
  MaxQueries = 2
  Providers = 1
  ReplySize = 2
  RerankSize = 3
  WebQueries = {qa, qb}
  Searches = {c1, c2, c3}
  NoSearch = NoSearch
  MaxKeys = 1
  TTL = 1
  MaxTime = 3
SYMMETRY Symmetric
CHECK_DEADLOCK FALSE
INVARIANTS
  FileInv
  RepoInv
  RunnerInv
  StreamInv
  AsrInv
  SourceIsWhole
  ListsWhatIsThere
  TurnInv
  ChunkInv
  WebInv
  CacheInv
PROPERTIES
  OthersUntouched
