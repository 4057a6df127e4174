\* The draft on grants, against wildcard agent capabilities.
CONSTANTS
    r1 = r1
    r2 = r2
    n1 = n1
    n2 = n2
    kI = kI
    kP = kP
    kQ = kQ
    kA = kA
    kX = kX
    gw = gw
    ip1 = ip1
    None = None
    NoParams = NoParams
    Malformed = Malformed
    NoIP = NoIP
    MatchPattern <- MCMatchPattern
    Nonces <- MCNonces
    MaxLifetime = 2
    Half = 16
    EpochOffset = 4
    TicksPerSecond = 2
    Requests <- MCOneRequest
    Loads = {"grants"}
    Calls <- MCCalls
    MaxClock <- MCMaxClock
    MaxRestarts <- MCMaxRestarts
SPECIFICATION Spec
INVARIANT RequestWithinGrants
CHECK_DEADLOCK FALSE
