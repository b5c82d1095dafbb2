\* A command and the daemon edit, one after the other or at once, while the daemon follows.
CONSTANTS
    a1 = a1
    c1 = c1
    cli1 = cli1
    daemon = daemon
    Alias = {a1}
    Cred = {c1}
    Cli = {cli1}
    Daemon = daemon
    Detached = {a1}
    MaxEdits = 2
    MaxClock = 3
    MaxErrors = 1
SPECIFICATION FairSpec
CHECK_DEADLOCK FALSE
INVARIANTS ConfigIsWhole NoLostEdit
PROPERTIES EditsAreSeen
