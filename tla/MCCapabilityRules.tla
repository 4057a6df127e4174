-------------------------- MODULE MCCapabilityRules --------------------------
(* Ids of up to three segments and patterns of up to three of the five       *)
(* kinds of segments, in lists of up to three rules.                         *)
EXTENDS CapabilityRules, SequencesExt

MCGlobs == {"q*"}
MCGlobMatch(pat, seg) == pat = "q*" /\ seg \in {"query", "quota"}

MCIds == UNION {[1..n -> {"db", "query", "quota"}] : n \in 1..3}

Rules(patterns) == [pattern : patterns, deny : BOOLEAN]

(* Every pattern alone. *)
AllPatterns == UNION {[1..n -> {"db", "query", "q*", "*", "**"}] : n \in 1..3}
OneRule == {<<rule>> : rule \in Rules(AllPatterns)}

(* Patterns of each priority together, twice where two can tie. *)
SomePatterns == {<<"db", "query">>, <<"db", "*">>, <<"db", "q*">>, <<"**">>,
                 <<"*", "query">>, <<"db", "**">>, <<"*", "q*">>}
ThreeRules == UNION {[1..n -> Rules(SomePatterns)] : n \in 2..3}

MCRuleLists == {<<>>} \cup OneRule \cup ThreeRules
=============================================================================
