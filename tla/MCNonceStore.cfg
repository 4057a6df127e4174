\* MemNonceStore: safety, refinement of the atomic store, and that calls end.
CONSTANTS
    c1 = c1
    c2 = c2
    c3 = c3
    n1 = n1
    n2 = n2
    Callers <- MCCallers
    Nonces <- MCNonces
    NoNonce = NoNonce
    NoCaller = NoCaller
    MaxRestarts = 1
SPECIFICATION FairSpec
INVARIANTS TypeOK MutexInv AcceptedOnce LookupFresh RefusalJustified
PROPERTIES ImplementsAtomic CallsEnd
