\* Two copies of a device, with a link that breaks with or without a word.
CONSTANTS
    Daemon = {d1, d2}
    Once = {}
    OutCap = 1
    MaxMissed = 2
    MaxAttempt = 1
    Faults = {"cut", "hush", "reset"}
    MaxFaults = 1
    MaxEdits = 0
SPECIFICATION FairSpec
PROPERTIES StaysOnline
CHECK_DEADLOCK FALSE
