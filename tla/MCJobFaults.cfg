SPECIFICATION SceneSpec
CONSTANTS
    w1 = w1
    w2 = w2
    s1 = s1
    s2 = s2
    r1 = r1
    Runners = {w1, w2}
    Stoppers = {s1}
    Reapers = {r1}
    Home <- TwoProcesses
    Kinds = {"Generic"}
    MaxFails = 1
    ShouldRetry = TRUE
    MaxCrashes = 0
    MaxSuspects = 1
    MaxLosses = 1
    MaxRedisFaults = 1
INVARIANTS FaultSound
CHECK_DEADLOCK FALSE
