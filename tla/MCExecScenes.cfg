SPECIFICATION SceneSpec
CONSTANTS
    h1 = h1
    h2 = h2
    s1 = s1
    d1 = d1
    NTasks = 2
    Handlers = {h1}
    Stoppers = {s1}
    Sweepers = {d1}
    MaxTries = 5
    MaxRev = 1
    MaxLosses = 0
    SubmitFails = TRUE
    Expires = TRUE
INVARIANTS ExecSound
CHECK_DEADLOCK FALSE
