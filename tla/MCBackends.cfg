\* A stdio session: messages, lines, exits, held pipes and the clock; or an HTTP
\* session: initializes and other messages in any order.
CONSTANTS
    Idle = 2
    MaxSent = 2
    MaxEvents = 1
    Drain = 1
    MaxLine = 1
    MsgBytes = 2
    InCap = 2
    MaxWritten = 3
SPECIFICATION BackendsSpec
INVARIANTS StdinWhole EndIsEarned HeadersFollow
PROPERTIES LinesArrive IdleIsQuiet DeleteIsLast HandsOver
