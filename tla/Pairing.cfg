\* Two runs of login or up, on a fresh directory or a paired one.
CONSTANTS
    Runs = 2
    Expires = 3
    Interval = 1
    SlowDownBy = 1
    Timeout = 1
SPECIFICATION FairSpec
INVARIANTS KeyMatchesDevice
PROPERTIES PollsKeepTheirDistance PairingEnds
CHECK_DEADLOCK FALSE
