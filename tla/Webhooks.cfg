\* Two processes, two partners with one webhook each, two failures.
SPECIFICATION FairSpec
CONSTANTS
    web = web
    worker = worker
    connect = connect
    other = other
    w1 = w1
    w2 = w2
    Procs = {web, worker}
    Partners = {connect, other}
    Webhooks = {w1, w2}
    PartnerOf <- MCPartnerOf
    Queueing = {worker}
    Sweeping = {worker}
    Registries <- MCRegistries
    MaxAttempts = 2
    MaxFaults = 2
CHECK_DEADLOCK FALSE
INVARIANTS TypeOK OneSenderInTime LeaseHolds
PROPERTIES EverySettles ReachesPartner
