\* A job, an update and two reboots, each handed once, two faults, the owner stays.
SPECIFICATION FairSpec
CONSTANTS
    p1 = p1  p2 = p2  u1 = u1  a1 = a1  a2 = a2  r1 = r1  r2 = r2
    o1 = o1  o2 = o2  v0 = v0  v1 = v1
    NoOwner = NoOwner  NoTask = NoTask  NoVersion = NoVersion
    Plain = {p1}
    Updates = {u1}
    Actions = {}
    Reboots = {r1, r2}
    Version <- MCVersion
    OldVersion = v0
    OwnerOf <- MCOneOwner
    Owners = {o1}
    Answers = {o1}
    Repeats = FALSE
    MaxHanded = 1
    MaxFaults = 2
PROPERTIES EndedRebootResolves
