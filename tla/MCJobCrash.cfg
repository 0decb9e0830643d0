SPECIFICATION Spec
CONSTANTS
    w1 = w1
    w2 = w2
    s1 = s1
    s2 = s2
    r1 = r1
    Runners = {w1}
    Stoppers = {s1}
    Reapers = {r1}
    Home <- OneProcess
    Kinds = {"Generic", "Scheduled"}
    MaxFails = 2
    ShouldRetry = TRUE
    MaxCrashes = 1
    MaxSuspects = 0
    MaxLosses = 0
    MaxRedisFaults = 0
INVARIANTS TypeOK AckSound CoreAgrees
PROPERTY ContractSpec
CHECK_DEADLOCK FALSE
