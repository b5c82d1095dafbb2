\* Two sessions, of stdio or of http, compete for one place while calls, dialogs,
\* answers and a stray of a backend are under way; sids are reused.
CONSTANTS
    Sid = {s1, s2}
    Alias = {"fs"}
    Cred = {}
    NoCred = "none"
    Rid = {r1}
    Tables <- MCEither
    Admissions <- MCOpen
    Unset = Unset
    DefaultMax = 1
    QueueCap = 1
    OutCap = 1
    MaxConfirm = 1
    MaxOpens = 2
    MaxStrays = 1
    Failures = {}
SPECIFICATION Spec
ACTION_CONSTRAINT Steady
INVARIANTS DialogsCounted CountFollowsCalls
PROPERTIES EvictionSparesCalls CloseIsLast
SYMMETRY Symmetry
