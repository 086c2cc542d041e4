\* The watchdog probes a node while the agent switches to direct.
SPECIFICATION Spec
CONSTANTS
    Selections = {"node"}
    Trigger = 1
    Recover = 1
    Worlds <- MCOutage
    Gaps = {0, 1, 3}
    MaxFaults = 2
PROPERTIES WatchdogLeavesOthersDirect
