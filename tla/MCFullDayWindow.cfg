\* A window that ends where it starts, claimed to be the whole day.
CONSTANTS
    Malformed = Malformed
    NoIP = NoIP
    ip1 = ip1
    ip2 = ip2
    Lists <- MCLists
    Contexts <- MCContexts
SPECIFICATION Spec
INVARIANT FullDayWindow
CHECK_DEADLOCK FALSE
