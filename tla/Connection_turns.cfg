\* Two copies of a device, one started with --once, under every fault.
CONSTANTS
    Daemon = {d1, d2}
    Once = {d2}
    OutCap = 1
    MaxMissed = 2
    MaxAttempt = 1
    Faults = {"cut", "hush", "reset", "restart", "refuse", "revoke"}
    MaxFaults = 1
    MaxEdits = 1
SPECIFICATION Spec
INVARIANTS FatalIsEarned AliveIsKept GatewayKnowsTheSet
PROPERTIES TurnsNeedALostNotice
CHECK_DEADLOCK FALSE
