--------------------------- MODULE MatchPriority ---------------------------
(* Matching a capability id against a wildcard pattern, with the priority of *)
(* the match (match_priority.go).  Ids and patterns are the sequences of     *)
(* segments that strings.Split makes of them.                                *)
EXTENDS Integers, Sequences

CONSTANTS Globs,            \* pattern segments with a '*' or '?' among letters
          GlobMatch(_, _)   \* filepath.Match(pattern segment, id segment)

NoMatch == 0
Global == 1
Scheme == 2
Multi == 3
Single == 4
Exact == 5

Stars(pat) == {k \in DOMAIN pat : pat[k] = "**"}

ContainsWildcard(segs) == \E k \in DOMAIN segs : segs[k] \in {"*", "**"} \cup Globs

MatchSingleSegment(idSeg, patSeg) == \/ patSeg = "*"
                                     \/ patSeg \in Globs /\ GlobMatch(patSeg, idSeg)
                                     \/ patSeg = idSeg

MatchSingleSegments(id, pat) ==
    /\ Len(id) = Len(pat)
    /\ Stars(pat) = {}
    /\ \A k \in DOMAIN pat : MatchSingleSegment(id[k], pat[k])

(* What is before the first and after the last "**" is matched segment by    *)
(* segment at the two ends of the id; what is between is not looked at.      *)
MatchDoubleStarSegments(id, pat) ==
    \E first, last \in Stars(pat) :
        LET prefix == first - 1
            suffix == Len(pat) - last
        IN /\ \A k \in Stars(pat) : first <= k /\ k <= last
           /\ prefix + suffix <= Len(id)
           /\ \A k \in 1..prefix : MatchSingleSegment(id[k], pat[k])
           /\ \A k \in 1..suffix :
                 MatchSingleSegment(id[Len(id) - suffix + k], pat[last + k])

MatchScheme(id, pat) == /\ Len(pat) >= 2
                        /\ pat[1] = "*"
                        /\ ~ContainsWildcard(Tail(pat))
                        /\ Len(id) = Len(pat)
                        /\ Tail(id) = Tail(pat)

(* Mutant: a "**" matches without a look at the other segments. *)
MatchCapabilityPriorityLoose(id, pat) ==
    IF id = pat THEN Exact
    ELSE IF pat \in {<<"*">>, <<"**">>, <<"*", "*">>} THEN Global
    ELSE IF MatchScheme(id, pat) THEN Scheme
    ELSE IF Stars(pat) # {} THEN Multi
    ELSE IF MatchSingleSegments(id, pat) THEN Single
    ELSE NoMatch

(* Mutant: the class of "*" segments is tried before the scheme wildcard. *)
MatchCapabilityPrioritySingleFirst(id, pat) ==
    IF id = pat THEN Exact
    ELSE IF pat \in {<<"*">>, <<"**">>, <<"*", "*">>} THEN Global
    ELSE IF MatchSingleSegments(id, pat) THEN Single
    ELSE IF MatchDoubleStarSegments(id, pat) THEN Multi
    ELSE IF MatchScheme(id, pat) THEN Scheme
    ELSE NoMatch

MatchCapabilityPriority(id, pat) ==
    IF id = pat THEN Exact
    ELSE IF pat \in {<<"*">>, <<"**">>, <<"*", "*">>} THEN Global
    ELSE IF MatchScheme(id, pat) THEN Scheme
    ELSE IF MatchDoubleStarSegments(id, pat) THEN Multi
    ELSE IF MatchSingleSegments(id, pat) THEN Single
    ELSE NoMatch
=============================================================================
