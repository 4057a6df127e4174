CONSTANTS
    Globs <- MCGlobs
    GlobMatch <- MCGlobMatch
    Ids <- MCIds
    RuleLists <- MCRuleLists
SPECIFICATION Spec
INVARIANTS TypeOK DecisionOfSet MatchIsMeaning RankIsForm
PROPERTY Monotone
CHECK_DEADLOCK FALSE
