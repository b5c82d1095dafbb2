\* Two copies of a device on links that stand, one write of which fails.
CONSTANTS
    Daemon = {d1, d2}
    Once = {}
    OutCap = 1
    MaxMissed = 2
    MaxAttempt = 1
    Faults = {"reset"}
    MaxFaults = 1
    MaxEdits = 0
SPECIFICATION FairSpec
PROPERTIES NeverTakeTurns
CHECK_DEADLOCK FALSE
