\* Conjunction, audit notes and time windows of EvaluateConstraints.
CONSTANTS
    Malformed = Malformed
    NoIP = NoIP
    ip1 = ip1
    ip2 = ip2
    Lists <- MCLists
    Contexts <- MCContexts
SPECIFICATION Spec
INVARIANTS TypeOK LoopIsConjunction SkippedIsNoted WindowsAreArcs
CHECK_DEADLOCK FALSE
