\* A reboot of one owner, an action of another, released and claimed at any check-in, three faults.
SPECIFICATION Spec
CONSTANTS
    p1 = p1  p2 = p2  u1 = u1  a1 = a1  a2 = a2  r1 = r1  r2 = r2
    o1 = o1  o2 = o2  v0 = v0  v1 = v1
    NoOwner = NoOwner  NoTask = NoTask  NoVersion = NoVersion
    Plain = {}
    Updates = {}
    Actions = {a2}
    Reboots = {r1}
    Version <- MCVersion
    OldVersion = v0
    OwnerOf <- MCTwoOwners
    Owners = {o1, o2}
    Answers = {NoOwner, o1, o2}
    Repeats = TRUE
    MaxHanded = 2
    MaxFaults = 3
INVARIANTS VctlIInv ConnectRunsAtMostOnce RebootAfterDelivery SuccessIsTrue
PROPERTIES NothingOfFormerOwnerSent
