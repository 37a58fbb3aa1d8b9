SPECIFICATION OperationsSpec
CONSTANTS
    Jobs = {j1, j2}
    Workers = {w1}
    Default = default
    Tenants = {default, acme}
    acme = acme
    k1 = k1  p1 = p1  p2 = p2  n1 = n1  n2 = n2
    NoKey = NoKey  None = None
    Requests <- MixedRequests
    LegacyJobs = {}
    Lease = 3  Heartbeat = 1  Offsets <- HostClocks  QueuedStale = 1  LegacyStale = 1
    Punctual = TRUE
    MaxCopies = 2
    Escalators = {e1, e2}  Keys = {k1}  Passes = {b1, b2}
    Backend = "local"  IncludePending = TRUE  MaxRecords = 2
    Traces = {t1}  Imports = {i1, i2}  ApiRebuilds = {f1}  CliRebuilds = {f2}  MaxDecisions = 1
    Uploads = {u1, u2}  Legacy = legacy  Previews = {v1}
    Drafts = {s1}  Editors = {m1, m2}
    MaxEdits = 2  MaxArticles = 2  MaxRebuilds = 2  QuestionCount = 4
    Askers = {q1, q2}  MaxRetrievers = 2  MaxReissues = 1
    MaxRows = 4  MinItems = 2  MinDouble = 2  MinRawPercent = 70  MinKappaPercent = 60
    Levels = {1, 2}  DefaultFloors <- SettingsFloors
    MaxTraces = 2  TopScore = 3  MinLabels = 2
INVARIANTS
    OwnerIsNotReaped EscalationSafety ObjectsSafety KbSafety CalibrationSafety TuningSafety
PROPERTIES ImplementsLifecycle ReviewSafety
CHECK_DEADLOCK FALSE
