\* An apply behind a job of the other engine, and one candidate per check-in: the apply is handed, no job stays running.
SPECIFICATION FairSpec
CONSTANTS
    a1 = a1  a2 = a2  b1 = b1  p1 = p1  p2 = p2  u1 = u1  x1 = x1
    h1 = h1  h2 = h2  h3 = h3  r1 = r1  r2 = r2  key1 = key1  upd = upd  foreign = foreign  o1 = o1  o2 = o2
    NoJob = NoJob  NoRev = NoRev  NoOwner = NoOwner
    Owners = {o1}
    Jobs = {a1, x1}
    ApplyJobs = {a1}
    ActionJobs = {}
    ConnectJobs = {}
    ExclusiveJobs = {}
    Unrunnable = {x1}
    Target <- MCTarget
    Calls = {h1}
    PassWall = FALSE
    CandidateLimit = 1
PROPERTIES EveryRunningJobEnds QueuedIsHanded
