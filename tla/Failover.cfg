\* Everything works, or nothing of the balancer's own; a node or two that change, a mishap.
SPECIFICATION FairSpec
CONSTANTS
    m1 = m1  m2 = m2  c1 = c1  b1 = b1  Stage = Stage  None = None
    Members = {m1, m2}
    Chain = {c1}
    Borrow = {b1}
    Worlds <- MCWorlds
INVARIANTS TypeOK HealthyKeepsChoice
PROPERTIES TrafficCarried HandedBack DownIsOver
