SPECIFICATION LivenessSpec
CONSTANTS
    j1 = j1  j2 = j2  w1 = w1  n1 = n1  n2 = n2  payload = payload  noKey = noKey
    default = default  None = None  i1 = i1  i2 = i2  a1 = a1  a2 = a2
    Asks = {r1, r2, r3}  Dialogs = {d1}  MaxPipelines = 2  PoolSize = 2  Evaluators = TRUE
    Invokers = {c1, c2, c3}  FailureThreshold = 2  ResetTimeout = 2  MaxAttempts = 2
    Mails = {m1, m2}  Poison = {m1}  Letters = {l1}  MaxPosts = 2  Messages = {g1, g2}
    NoMail = NoMail
INVARIANTS CapacitySafety BreakerSafety ChannelsSafety
PROPERTIES JobsTerminate LocksAreFreed AsksReturn CapacityComesBack CircuitRecovers EveryMailTaken
CHECK_DEADLOCK FALSE
