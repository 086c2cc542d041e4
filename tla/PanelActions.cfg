\* Two actions with one key, and three results at once: cancel, delivery, janitor, unbind.
SPECIFICATION Spec
CONSTANTS
    a1 = a1  a2 = a2  b1 = b1  p1 = p1  p2 = p2  u1 = u1  x1 = x1
    h1 = h1  h2 = h2  h3 = h3  r1 = r1  r2 = r2  key1 = key1  upd = upd  foreign = foreign  o1 = o1  o2 = o2
    NoJob = NoJob  NoRev = NoRev  NoOwner = NoOwner
    Owners = {o1}
    Jobs = {p1, p2}
    ApplyJobs = {}
    ActionJobs = {p1, p2}
    ConnectJobs = {p1, p2}
    ExclusiveJobs = {p1, p2}
    Unrunnable = {}
    Target <- MCTarget
    Calls = {h1, h2, h3}
    PassWall = FALSE
    CandidateLimit = 2
SYMMETRY Symmetry
INVARIANTS TypeOK IInv OwnerOK IdempotentActions CancelledNeverHanded ToldOnceUnlessOverwritten
PROPERTIES PartnerCancelSticks
