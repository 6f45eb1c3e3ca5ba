SPECIFICATION PartSpec
CONSTANTS
  r1 = r1
  r2 = r2
  u1 = u1
  s1 = s1
  n1 = n1
  n2 = n2
  None = None
  Requests = {r1, r2}
  Users = {u1}
  Sessions = {s1}
  Names = {n1, n2}
  Texts <- MCTexts
  MaxChunks = 2
  Size <- MCSize
  MaxStarts = 3
  Chunks <- MCChunks
  Askers = {"u1", "u2"}
  NoAsker = NoAsker
  ChatIds = {"s1", "s2"}
  NoChatId = NoChatId
  ChunkSources = {"a", "b"}
  ChunkRunes <- MCChunkRunes
  HeaderRunes = 1
  SuffixRunes = 1
  SeparatorRunes = 1
  BudgetRunes = 8
  SearchTopK = 3
  TopK = 2
  Documents <- MCDocuments
  MaxRunes = 12
  MinRunes = 2
  OverlapRunes = 2
  Links = {l1, l2}
  NoLink = NoLink
  MaxProviderResults = 3
  MaxDocuments = 2
  MaxQueries = 2
  Providers = 1
  ReplySize = 2
  RerankSize = 3
  WebQueries = {qa, qb}
  Searches = {c1, c2, c3}
  NoSearch = NoSearch
  MaxKeys = 1
  TTL = 1
  MaxTime = 3
SYMMETRY Symmetric
CHECK_DEADLOCK FALSE
INVARIANT VectorSearchOnly
