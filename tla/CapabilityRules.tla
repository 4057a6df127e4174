-------------------------- MODULE CapabilityRules --------------------------
(* MatchCapabilityRules (match_priority.go:89-110): one pass over a rule     *)
(* list that keeps the best match so far, where deny overrides allow at the  *)
(* same priority.                                                            *)
EXTENDS MatchPriority

CONSTANTS Ids,        \* capability ids
          RuleLists   \* lists of rules [pattern, deny]

IsList(s) == s \in Seq({s[x] : x \in DOMAIN s})

ASSUME RulesAssumption ==
    /\ \A i \in Ids : IsList(i)
    /\ \A list \in RuleLists :
          /\ IsList(list)
          /\ \A j \in DOMAIN list : /\ IsList(list[j].pattern)
                                    /\ list[j].deny \in BOOLEAN

VARIABLES id,     \* the argument id
          rules,  \* the argument rules
          k,      \* the index of the loop
          best    \* the best match so far

vars == <<id, rules, k, best>>

Patterns == UNION {{list[j].pattern : j \in DOMAIN list} : list \in RuleLists}

(* The zero CapabilityRuleMatch. *)
Unmatched == [matched |-> FALSE, deny |-> FALSE, priority |-> NoMatch,
              pattern |-> <<>>]

TypeOK == /\ id \in Ids
          /\ rules \in RuleLists
          /\ k \in 1..Len(rules) + 1
          /\ best \in [matched : BOOLEAN, deny : BOOLEAN,
                       priority : NoMatch..Exact,
                       pattern : Patterns \cup {<<>>}]

(* Mutant: the loop starts at the second rule. *)
InitAtSecond == /\ id \in Ids
                /\ rules \in RuleLists
                /\ k = 2
                /\ best = Unmatched

Init == /\ id \in Ids
        /\ rules \in RuleLists
        /\ k = 1
        /\ best = Unmatched

InLoop == k <= Len(rules)

PriorityOf(rule) == MatchCapabilityPriority(id, rule.pattern)

Continue == k' = k + 1 /\ UNCHANGED <<id, rules>>

Take(rule) == best' = [matched |-> TRUE, deny |-> rule.deny,
                       priority |-> PriorityOf(rule),
                       pattern |-> rule.pattern]

(* Mutant: a later rule of the same priority replaces an earlier one. *)
TakeHigherOrEqual == /\ InLoop
                     /\ PriorityOf(rules[k]) >= best.priority
                     /\ PriorityOf(rules[k]) > NoMatch
                     /\ Take(rules[k])
                     /\ Continue

(* Mutant: a deny rule is taken whatever its priority. *)
TakeAnyDeny == /\ InLoop
               /\ PriorityOf(rules[k]) > NoMatch
               /\ rules[k].deny
               /\ ~best.deny
               /\ Take(rules[k])
               /\ Continue

TakeHigher == /\ InLoop
              /\ PriorityOf(rules[k]) > best.priority
              /\ Take(rules[k])
              /\ Continue

TakeDeny == /\ InLoop
            /\ PriorityOf(rules[k]) = best.priority
            /\ PriorityOf(rules[k]) > NoMatch
            /\ rules[k].deny
            /\ ~best.deny
            /\ Take(rules[k])
            /\ Continue

Skip == /\ InLoop
        /\ PriorityOf(rules[k]) <= best.priority
        /\ ~(/\ PriorityOf(rules[k]) = best.priority
             /\ PriorityOf(rules[k]) > NoMatch
             /\ rules[k].deny
             /\ ~best.deny)
        /\ best' = best
        /\ Continue

Next == TakeHigher \/ TakeDeny \/ Skip

Spec == Init /\ [][Next]_vars

-----------------------------------------------------------------------------
(* The decision that a set of rules defines, without an order. *)
Decides(b, i, S) ==
    LET priority(rule) == MatchCapabilityPriority(i, rule.pattern)
    IN /\ \A rule \in S : priority(rule) <= b.priority
       /\ b.matched <=> b.priority > NoMatch
       /\ b.matched => \E rule \in S : /\ priority(rule) = b.priority
                                       /\ rule.pattern = b.pattern
                                       /\ rule.deny = b.deny
       /\ b.deny <=> \E rule \in S : /\ priority(rule) = b.priority
                                     /\ priority(rule) > NoMatch
                                     /\ rule.deny

(* After any number of rules the loop holds the decision of the rules it has *)
(* seen as a set: the highest priority wins and one deny at that priority    *)
(* is enough, wherever it is in the list (match_priority.go:86-110).         *)
DecisionOfSet == Decides(best, id, {rules[j] : j \in 1..k - 1})

(* A further rule never makes the decision laxer at the same priority, nor   *)
(* lowers the priority (match_priority.go:92-106).                           *)
Monotone == [][/\ best'.priority >= best.priority
               /\ best'.priority = best.priority /\ best.deny => best'.deny]_vars

-----------------------------------------------------------------------------
(* What a pattern means, segment by segment: cut[j] is where the part of the *)
(* id that pat[j] matches starts.  "**" matches one or more segments, as the *)
(* comments say (match_priority.go:18, 51, 171).                             *)
Denotes(i, pat) ==
    \E cut \in [1..Len(pat) + 1 -> 1..Len(i) + 1] :
        /\ cut[1] = 1
        /\ cut[Len(pat) + 1] = Len(i) + 1
        /\ \A j \in DOMAIN pat :
              IF pat[j] = "**" THEN cut[j + 1] > cut[j]
              ELSE /\ cut[j + 1] = cut[j] + 1
                   /\ MatchSingleSegment(i[cut[j]], pat[j])

GlobalPatterns == {<<"*">>, <<"**">>, <<"*", "*">>}

AtMostOneStar(pat) == \A x, y \in Stars(pat) : x = y

(* The id is one segment short of the pattern: a "**" is left with nothing.  *)
StarIsEmpty(i, pat) == Stars(pat) # {} /\ Len(i) = Len(pat) - 1

(* The branches of the code agree with the meaning of the patterns: the list *)
(* has a match exactly when one of them means the id.  This is for patterns  *)
(* with at most one "**" and ids that leave it a segment                     *)
(* (match_priority.go:62-82, 172-209); OneOrMoreParts has the others.        *)
MatchIsMeaning ==
    ~InLoop /\ (\A j \in DOMAIN rules : /\ rules[j].pattern \notin GlobalPatterns
                                        /\ AtMostOneStar(rules[j].pattern)
                                        /\ ~StarIsEmpty(id, rules[j].pattern))
        => (best.matched <=>
               \E j \in DOMAIN rules : Denotes(id, rules[j].pattern))

(* The comment "'**' matches one or more cross-segment parts"                *)
(* (match_priority.go:51): a match of the class of "**" gives each of them a *)
(* part of the id, and the segments between two of them are segments of the  *)
(* id too.                                                                   *)
OneOrMoreParts == best.priority = Multi => Denotes(id, best.pattern)

(* The forms of the five levels (match_priority.go:11-21): a pattern may     *)
(* have several.                                                             *)
HasForm(pat, level) ==
    CASE level = Global -> pat \in GlobalPatterns
      [] level = Scheme -> /\ Len(pat) >= 2
                           /\ pat[1] = "*"
                           /\ ~ContainsWildcard(Tail(pat))
      [] level = Multi -> Stars(pat) # {}
      [] level = Single -> Stars(pat) = {}

(* The class a pattern falls into is its own: unless it is the very id, it   *)
(* ranks as the most general of its forms, whichever branches it failed for  *)
(* this id, so that which of two rules wins depends on the patterns only     *)
(* (match_priority.go:62-82).                                                *)
RankIsForm ==
    /\ best.priority = Exact => best.pattern = id
    /\ best.priority \in Global..Single =>
          /\ HasForm(best.pattern, best.priority)
          /\ \A level \in Global..best.priority - 1 : ~HasForm(best.pattern, level)
=============================================================================
