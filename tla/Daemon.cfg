\* A hand-run daemon, a probe and the service contend; the service is installed
\* and removed, and everything may crash.
CONSTANTS
    Pid = {p1, p2, p3}
    None = None
    Inode = {1, 2, 3, 4}
    MaxPolls = 2
    MaxTries = 2
    KillAfter = 1
    Linger = 1
    MaxEvents = 4
SPECIFICATION FairSpec
INVARIANTS OneDaemon DownForAReason InstallApplies
PROPERTIES ServiceComesUp
CHECK_DEADLOCK FALSE
