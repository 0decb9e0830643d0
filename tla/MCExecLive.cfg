SPECIFICATION FairSpec
CONSTANTS
    h1 = h1
    h2 = h2
    s1 = s1
    d1 = d1
    NTasks = 1
    Handlers = {h1, h2}
    Stoppers = {}
    Sweepers = {}
    MaxTries = 2
    MaxRev = 2
    MaxLosses = 1
    SubmitFails = FALSE
    Expires = FALSE
PROPERTY EventuallyFinal
CHECK_DEADLOCK FALSE
