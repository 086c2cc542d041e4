\* One action, handed again after a crash, and one failed request.
SPECIFICATION FairSpec
CONSTANTS
    p1 = p1  p2 = p2  u1 = u1  a1 = a1  a2 = a2  r1 = r1  r2 = r2
    o1 = o1  o2 = o2  v0 = v0  v1 = v1
    NoOwner = NoOwner  NoTask = NoTask  NoVersion = NoVersion
    Plain = {}
    Updates = {}
    Actions = {a1}
    Reboots = {}
    Version <- MCVersion
    OldVersion = v0
    OwnerOf <- MCOneOwner
    Owners = {o1}
    Answers = {o1}
    Repeats = FALSE
    MaxHanded = 2
    MaxFaults = 2
PROPERTIES PendingDrains
