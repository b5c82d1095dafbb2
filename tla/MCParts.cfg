\* One session under every rule, with overlapping requests and a server that changes
\* its tools; two credentials and room for one; and, one at a time, the parts whose
\* instances MCParts gives.
CONSTANTS
    read = read
    long = long
    Tool = {read, long}
    Long = {long}
    Id = {i1, i2}
    Policies <- MCPolicies
    Confirms = {"never", "destructive", "always"}
    MaxRequests = 3
    Cred = {1, 2}
    Nameless = 0
    MaxAgents = 1
    NotifyEvery = 1
    Stamp = {1, 2}
    MaxFaults = 2
    Name <- MCName
    Kept <- MCKept
    Number <- MCNumber
    Default <- MCDefault
    MaxAlias = 3
    File <- MCFile
    Def = {"command", "remote"}
    Local = {"command"}
    None = "none"
    Tables <- MCTables
    Before <- MCBefore
    MaxPicks = 2
    MaxServers = 1
    Line <- MCLine
    Eol <- MCEol
    MaxLines = 4
    MaxChunk = 7
    MaxBuffered = 5
SPECIFICATION PartsSpec
CHECK_DEADLOCK FALSE
INVARIANTS
    ListingsFiltered ShownIsCallable UnaskedIsHarmless
    ListIsExact AliasesFit AttachesWhatWasAsked EventsAsWritten
SYMMETRY Symmetry
