CONSTANTS
    Globs <- MCGlobs
    GlobMatch <- MCGlobMatch
    Ids <- MCIds
    RuleLists <- MCRuleLists
SPECIFICATION Spec
INVARIANT OneOrMoreParts
CHECK_DEADLOCK FALSE
