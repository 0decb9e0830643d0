SPECIFICATION LiveSpec
CONSTANTS
    Blobs <- MCBlobs
    Bytes <- MCBytes
    Content <- MCContent
    HeadOf <- MCHead
    UploadBytes <- MCUploadBytes
    Limits <- MCLimits
    Uploads = {"u1", "u2"}
    ManifestPuts = {"m1", "t1", "c1"}
    Mounts = {"t1"}
    Copies = {"c1"}
    Deletes = {"d1"}
    Recounts = {"g1"}
    Strict = {"g1"}
    Admins = {"a1"}
    MaxCrashes = 1
    Digests = {"c1", "c2"}
    Scans = {"index", "other", "image", "again", "all1", "all2"}
    Targets <- MCTargets
    ScanAlls <- MCScanAlls
    Stoppable = {"image"}
    Checks = {p1}
    CheckOf <- MCCheckOf
    MaxRestarts = 1
    Pulls <- MCPulls
    Kind <- MCKind
    Images <- MCImages
    Indexes <- MCIndexes
    MaxMoves = 1
PROPERTIES RequestsEnd ScansEnd PushesEnd
CHECK_DEADLOCK FALSE
