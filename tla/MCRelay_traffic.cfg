\* Two concurrent calls, confirmations and every failure on one session, with the
\* queues at their smallest; what the main loop and the tasks wait for.
CONSTANTS
    Sid = {s1}
    Alias = {"fs"}
    Cred = {}
    NoCred = "none"
    Rid = {r1, r2}
    Tables <- MCMixed
    Admissions <- MCOpen
    Unset = Unset
    DefaultMax = 1
    QueueCap = 1
    OutCap = 1
    MaxConfirm = 1
    MaxOpens = 1
    MaxStrays = 0
    Failures = {"writer", "ctrl-c", "hang"}
SPECIFICATION FairSpec
INVARIANTS NoCallLost
PROPERTIES MainReturns EndIsReported
