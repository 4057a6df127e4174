\* PluginRegistry: safety, refinement of the atomic registry, calls end.
CONSTANTS
    c1 = c1
    c2 = c2
    p1 = p1
    p2 = p2
    s1 = s1
    s2 = s2
    None = None
    Callers <- MCCallers
    Plugins <- MCPlugins
    Schemes <- MCSchemes
    SchemeOf <- MCSchemeOf
SPECIFICATION FairSpec
INVARIANTS TypeOK LockInv CheckFresh
PROPERTIES NeverReplaced ImplementsAtomic CallsEnd
