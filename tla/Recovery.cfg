\* One failure, or one act of the owner, in a router with a node or a shunt.
SPECIFICATION FairSpec
CONSTANTS
    Selections = {"node", "shunt"}
    Trigger = 1
    Recover = 1
    Worlds <- MCForeign
    Gaps = {0, 1, 3}
    MaxFaults = 1
INVARIANTS TypeOK PanelOutageKeepsVpn AwaitingIsParked
PROPERTIES NeverRearmsMissing BackToProxy NoBlackHole NeverSilent AttentionLifted
