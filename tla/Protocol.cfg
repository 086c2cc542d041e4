\* A controller update kept to its contract; two crashes, lost requests or failed saves.
SPECIFICATION ProtocolFairSpec
CONSTANTS
    a1 = a1  a2 = a2  u1 = u1  h1 = h1  h2 = h2
    r1 = r1  r2 = r2  upd = upd  v0 = v0  v1 = v1
    NoJob = NoJob  NoRev = NoRev  NoOwner = NoOwner
    Owners = {}
    Jobs = {u1}
    ApplyJobs = {}
    ActionJobs = {}
    ConnectJobs = {}
    ExclusiveJobs = {u1}
    UpdateJobs = {u1}
    Unrunnable = {}
    Target <- MCTarget
    Version <- MCVersion
    OldVersion = v0
    Calls = {h1, h2}
    PassWall = TRUE
    CandidateLimit = 2
    MaxRetries = 2
    MaxFaults = 2
INVARIANTS RunsAtMostOnce
PROPERTIES KeepsContract
