\* A job and a controller update, any answers, the retry budget of the code; three crashes, failed saves or requests.
SPECIFICATION AgentFairSpec
CONSTANTS
    t1 = t1  u1 = u1  r1 = r1  v0 = v0  v1 = v1
    NoTask = NoTask  NoRevision = NoRevision
    Tasks = {t1, u1}
    ApplyTasks = {t1}
    UpdateTasks = {u1}
    Version <- MCVersion
    OldVersion = v0
    Revisions = {r1}
    MaxRetries = 6
    MaxFaults = 3
INVARIANTS AgentIInv JournalCoherent UpdateSuccessConfirmed
PROPERTIES CheckInsResume
