SPECIFICATION Spec
CONSTANTS
    Jobs = {j1, j2}
    Workers = {w1, w2}
    Default = default
    Tenants = {default, acme}
    acme = acme
    k1 = k1  p1 = p1  p2 = p2  n1 = n1  n2 = n2
    NoKey = NoKey  None = None
    Requests <- KeyedRequests
    LegacyJobs = {}
    Lease = 2  Heartbeat = 1  Offsets = {0}  QueuedStale = 1  LegacyStale = 1
    Punctual = FALSE
    MaxCopies = 2
SYMMETRY SymWorkers
INVARIANTS JobSafety OneJobPerKey
PROPERTY TerminalIsFinal
