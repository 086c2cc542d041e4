\* A result that is being recorded while the owner is unlinked.
SPECIFICATION Spec
CONSTANTS
    a1 = a1  a2 = a2  b1 = b1  p1 = p1  p2 = p2  u1 = u1  x1 = x1
    h1 = h1  h2 = h2  h3 = h3  r1 = r1  r2 = r2  key1 = key1  upd = upd  foreign = foreign  o1 = o1  o2 = o2
    NoJob = NoJob  NoRev = NoRev  NoOwner = NoOwner
    Owners = {o1}
    Jobs = {a1}
    ApplyJobs = {a1}
    ActionJobs = {}
    ConnectJobs = {}
    ExclusiveJobs = {}
    Unrunnable = {}
    Target <- MCTarget
    Calls = {h1}
    PassWall = FALSE
    CandidateLimit = 1
SYMMETRY Symmetry
INVARIANTS ReleasedStaysUnapproved
