SPECIFICATION ReleasesSpec
CONSTANTS
    Docs = {d1, d2, d3}  Poisoned = {d3}  Scores = {0, 60, 100}
    MinQuality = 80  MinRelevance = 80  MinFactuality = 80
    MaxIterations = 2
    Regressions = {r1, r2}  Requests = {q1, q2}  Variants = {A, B}  Staged = A
    CaseCount = 1  MaxRegressions = 0  MinPassPercent = 85
    Admins = {m1, m2}  Trials = {x1, x2}  Customers = {c1}
    MaxGreen = 1  MaxDeployments = 2  DropThreshold = 50  MaxScore = 2
    Documents = {u1}  Encrypting = TRUE  MaxRuns = 2  MaxSpoilt = 1
INVARIANTS GraphSafety FailsClosed RegressionSafety RolloutSafety 
PROPERTY GraphRequestEnds
CHECK_DEADLOCK FALSE
