SPECIFICATION PlatformSpec
CONSTANTS
    SchedRequests = {"set", "bad", "drop", "new"}
    Old = "old"
    Vendor <- MCVendor
    Op <- MCOp
    BadCron = {"bad"}
    Scores = {1, 2}
    MaxTicks = 2
    MaxMishaps = 1
    Nodes = {n1, n2}
    Sleep = 120
    Horizon = 240
    Jitter = {0, 2, 4}
    MaxJitter = 4
    LockTTL = 30
    MaxTurnCrashes = 1
    Layers = {"l1"}
    Arts = {"m1"}
    Uses <- SharedLayer
    Initial = {}
    Pushers = {"p1", "p2"}
    Deleters = {"x1"}
    MaxRuns = 1
    MaxCrashes = 1
    MaxFaults = 1
    CfgCalls = {1, 2, 3}
    Cores = {1, 2}
    Passports = 2
    HubPage = 2
    TokenRoom = 2
    Latency = 1
    ReadOnlyFor = 1
    CredLife = 2
    AwsLife = 1
    QTypes = {"scan", "plan"}
    BatchSize = 1
    Workers = 2
INVARIANTS BlobsSound  QueueAhead ConfigSound AdaptersSound RegistryAuthSound 
PROPERTIES NotFiredWhenDeleted
CHECK_DEADLOCK FALSE
