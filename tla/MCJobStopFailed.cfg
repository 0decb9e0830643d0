SPECIFICATION Spec
CONSTANTS
    w1 = w1
    w2 = w2
    s1 = s1
    s2 = s2
    r1 = r1
    Runners = {w1}
    Stoppers = {s1}
    Reapers = {}
    Home <- OneProcess
    Kinds = {"Generic"}
    MaxFails = 2
    ShouldRetry = TRUE
    MaxCrashes = 0
    MaxSuspects = 0
    MaxLosses = 0
    MaxRedisFaults = 0
PROPERTY StopOfFailedJobHonoured
CHECK_DEADLOCK FALSE
