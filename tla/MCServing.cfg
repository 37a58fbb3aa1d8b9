SPECIFICATION ServingSpec
CONSTANTS
    Visits = {v1, v2}  Removals = {d1}  Owners = {o1, o2}  Ids = {i1}
    Questioners = {q1, q2}  Threads = {t1, t2}  MaxGeneration = 2
    Streams = {s1}  Replies = {a1}  MaxHistory = 2  MaxEvents = 1  MaxClears = 1
    Requests = {r1}  Workers = {w1, w2}
    MaxCalls = 2  MaxInput = 2  MaxOutput = 2  MaxTotal = 3  CallInput = 2  CallOutput = 1
    BatchSize = 2  FailoverTTL = 2  DailyLimit = 2
    TracedRuns = {g1, g2}  PoolThreads = {p1}  MaxModelCalls = 2
    Readers = {e1, e2}  Builders = {b1}  MaxPublications = 3
    ChunkCount = 3  MaxSize = 2  RetrievalK = 3  RerankK = 2  RrfK = 60  Denominator = 226920  Window = 2  MaxChars = 3
    Models = {m1, m2, m3}  ToolModels = {m1}  NoModel = NoModel  StandIn <- OneStandIn
    Articles <- KbArticles
    SearchLimit = 2  MaxToolLoops = 2  MaxToolCalls = 2  MaxFound = 3  MaxCitation = 3
    MinQuality = 80  MinFactuality = 80  MinRelevance = 80
INVARIANTS StoreSafety CacheSafety StreamSafety LedgerSafety RetrieverSafety RetrievalSafety
    AgenticSafety
PROPERTY ProviderSafety
CHECK_DEADLOCK FALSE
