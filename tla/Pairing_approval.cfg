\* One run, while approvals are turned on.
CONSTANTS
    Runs = 1
    Expires = 1
    Interval = 1
    SlowDownBy = 1
    Timeout = 1
SPECIFICATION Spec
PROPERTIES PairingKeepsApproval
CHECK_DEADLOCK FALSE
