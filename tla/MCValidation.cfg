\* One call of Validate over the whole table of claims and options, and two
\* concurrent calls on one nonce store with a restart.
CONSTANTS
    r1 = r1
    r2 = r2
    n1 = n1
    n2 = n2
    kI = kI
    kP = kP
    kQ = kQ
    kA = kA
    kX = kX
    gw = gw
    ip1 = ip1
    None = None
    NoParams = NoParams
    Malformed = Malformed
    NoIP = NoIP
    MatchPattern <- MCMatchPattern
    Nonces <- MCNonces
    MaxLifetime = 2
    Half = 16
    EpochOffset = 4
    TicksPerSecond = 2
    Requests <- MCTwoRequests
    Loads = {"single", "shared"}
    Calls <- MCCalls
    MaxClock <- MCMaxClock
    MaxRestarts <- MCMaxRestarts
SPECIFICATION Spec
INVARIANTS TypeOK DelegationHonoured RepresentationAuthorized AgentKeyChain
           LifetimeBounded OnePermitPerNonce OnlyAuthenticSpent ReplayExplained
PROPERTY UsesAtomicStore
CHECK_DEADLOCK FALSE
