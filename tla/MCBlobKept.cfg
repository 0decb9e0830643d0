SPECIFICATION Spec
CONSTANTS
    l1 = l1
    m1 = m1
    m2 = m2
    p1 = p1
    p2 = p2
    x1 = x1
    Layers = {l1}
    Arts = {m1, m2}
    Uses <- SharedLayer
    Initial = {m1}
    Pushers = {p1}
    Deleters = {x1}
    MaxRuns = 1
    MaxCrashes = 0
    MaxFaults = 0
INVARIANTS ArtifactBlobsStored
CHECK_DEADLOCK FALSE
