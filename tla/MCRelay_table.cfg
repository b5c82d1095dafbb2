\* The session table under opens, evictions, reloads that change, remove or restore a
\* server, approvals that come and go, and sessions that end in every way.
CONSTANTS
    Sid = {s1, s2}
    Alias = {"fs"}
    Cred = {"alice"}
    NoCred = "none"
    Rid = {}
    Tables <- MCChanges
    Admissions <- MCAdmissions
    Unset = Unset
    DefaultMax = 1
    QueueCap = 1
    OutCap = 1
    MaxConfirm = 1
    MaxOpens = 2
    MaxStrays = 0
    Failures = {"hang"}
SPECIFICATION Spec
INVARIANTS TableCurrent WithinCap NoSilentEnd ExclusiveProcess
SYMMETRY Symmetry
