----------------------- MODULE CapabilityRulesProofs -----------------------
(* Proofs about MatchCapabilityRules, for rule lists of any length and any   *)
(* patterns: type correctness, that the loop computes the decision of its    *)
(* rules as a set, that a set has one decision, so that the order of the     *)
(* rules does not matter, and that a match is what a pattern denotes, in the *)
(* class of the pattern's most general form.                                 *)
EXTENDS CapabilityRules, SequenceLemmas

(* A priority is one of the six levels. *)
LEMMA PriorityRange ==
    ASSUME NEW i, NEW pat
    PROVE  MatchCapabilityPriority(i, pat) \in NoMatch..Exact
BY DEF MatchCapabilityPriority, NoMatch, Global, Scheme, Multi, Single, Exact

(* The inductive invariant. *)
IInv == TypeOK /\ DecisionOfSet

LEMMA ListFacts ==
    ASSUME NEW list \in RuleLists
    PROVE  /\ Len(list) \in Nat /\ DOMAIN list = 1..Len(list)
           /\ \A j \in DOMAIN list : /\ list[j].deny \in BOOLEAN
                                     /\ IsList(list[j].pattern)
                                     /\ list[j].pattern \in Patterns
<1>1. Len(list) \in Nat /\ DOMAIN list = 1..Len(list)
  <2>1. list \in Seq({list[j] : j \in DOMAIN list})
      BY RulesAssumption DEF IsList
  <2> QED
      BY <2>1
<1>2. \A j \in DOMAIN list : list[j].deny \in BOOLEAN /\ IsList(list[j].pattern)
    BY RulesAssumption
<1>3. ASSUME NEW j \in DOMAIN list PROVE list[j].pattern \in Patterns
  <2>1. list[j].pattern \in {list[m].pattern : m \in DOMAIN list}
      OBVIOUS
  <2> QED
      BY <2>1 DEF Patterns
<1> QED
    BY <1>1, <1>2, <1>3

LEMMA InitIInv == Init => IInv
<1> SUFFICES ASSUME Init PROVE IInv
    OBVIOUS
<1>1. TypeOK
    BY ListFacts DEF Init, TypeOK, Unmatched, NoMatch, Exact
<1>2. {rules[j] : j \in 1..k - 1} = {}
    BY DEF Init
<1>3. DecisionOfSet
    BY <1>2 DEF Init, DecisionOfSet, Decides, Unmatched, NoMatch
<1> QED
    BY <1>1, <1>3 DEF IInv

(* One more rule (match_priority.go:91-107). *)
LEMMA TakeDecides ==
    ASSUME NEW i, NEW S, NEW b, NEW c, NEW rule, Decides(b, i, S),
           b.priority \in NoMatch..Exact, b.deny \in BOOLEAN,
           rule.deny \in BOOLEAN,
           c = [matched |-> TRUE, deny |-> rule.deny,
                priority |-> MatchCapabilityPriority(i, rule.pattern),
                pattern |-> rule.pattern],
           \/ c.priority > b.priority
           \/ c.priority = b.priority /\ c.priority > NoMatch /\ rule.deny
    PROVE  Decides(c, i, S \cup {rule})
<1>1. /\ c.matched = TRUE /\ c.deny = rule.deny /\ c.pattern = rule.pattern
      /\ c.priority = MatchCapabilityPriority(i, rule.pattern)
      /\ c.priority \in NoMatch..Exact
    BY PriorityRange
<1>2. \A r \in S : /\ MatchCapabilityPriority(i, r.pattern) \in NoMatch..Exact
                   /\ MatchCapabilityPriority(i, r.pattern) <= b.priority
    BY PriorityRange DEF Decides
<1>3. c.priority >= b.priority /\ c.priority > NoMatch
    BY <1>1 DEF NoMatch, Exact
<1>4. \A r \in S \cup {rule} :
          MatchCapabilityPriority(i, r.pattern) <= c.priority
    BY <1>1, <1>2, <1>3 DEF NoMatch, Exact
<1>5. c.deny <=> \E r \in S \cup {rule} :
                    /\ MatchCapabilityPriority(i, r.pattern) = c.priority
                    /\ MatchCapabilityPriority(i, r.pattern) > NoMatch
                    /\ r.deny
  <2>1. CASE rule.deny
      BY <1>1, <1>3, <2>1
  <2>2. CASE ~rule.deny
    <3>1. c.priority > b.priority
        BY <2>2
    <3>2. \A r \in S : MatchCapabilityPriority(i, r.pattern) # c.priority
        BY <1>1, <1>2, <3>1 DEF NoMatch, Exact
    <3> QED
        BY <1>1, <2>2, <3>2
  <2> QED
      BY <2>1, <2>2
<1> QED
    BY <1>1, <1>3, <1>4, <1>5 DEF Decides

LEMMA SkipDecides ==
    ASSUME NEW i, NEW S, NEW b, NEW rule, Decides(b, i, S),
           b.priority \in NoMatch..Exact, b.deny \in BOOLEAN,
           MatchCapabilityPriority(i, rule.pattern) <= b.priority,
           ~(/\ MatchCapabilityPriority(i, rule.pattern) = b.priority
             /\ MatchCapabilityPriority(i, rule.pattern) > NoMatch
             /\ rule.deny
             /\ ~b.deny)
    PROVE  Decides(b, i, S \cup {rule})
BY DEF Decides

(* Every turn of the loop preserves the invariant. *)
LEMMA NextIInv == IInv /\ [Next]_vars => IInv'
<1> SUFFICES ASSUME IInv, [Next]_vars PROVE IInv'
    OBVIOUS
<1>1. CASE UNCHANGED vars
    BY <1>1 DEF vars, IInv, TypeOK, DecisionOfSet
<1>2. CASE Next
  <2>1. /\ k \in 1..Len(rules) /\ k' = k + 1 /\ UNCHANGED <<id, rules>>
        /\ Len(rules) \in Nat /\ k \in DOMAIN rules
        /\ rules[k].deny \in BOOLEAN /\ rules[k].pattern \in Patterns
      BY <1>2, ListFacts DEF IInv, TypeOK, Next, TakeHigher, TakeDeny, Skip,
                             InLoop, Continue
  <2>2. {rules[j] : j \in 1..k' - 1}
           = {rules[j] : j \in 1..k - 1} \cup {rules[k]}
      BY <2>1
  <2>3. /\ best.priority \in NoMatch..Exact /\ best.deny \in BOOLEAN
        /\ Decides(best, id, {rules[j] : j \in 1..k - 1})
      BY DEF IInv, TypeOK, DecisionOfSet
  <2>4. PriorityOf(rules[k]) \in NoMatch..Exact
      BY PriorityRange DEF PriorityOf
  <2>5. CASE TakeHigher \/ TakeDeny
    <3>1. /\ best' = [matched |-> TRUE, deny |-> rules[k].deny,
                      priority |-> MatchCapabilityPriority(id, rules[k].pattern),
                      pattern |-> rules[k].pattern]
          /\ \/ best'.priority > best.priority
             \/ /\ best'.priority = best.priority
                /\ best'.priority > NoMatch
                /\ rules[k].deny
        BY <2>5 DEF TakeHigher, TakeDeny, Take, PriorityOf
    <3>2. Decides(best', id, {rules[j] : j \in 1..k - 1} \cup {rules[k]})
        BY <2>1, <2>3, <3>1, TakeDecides
    <3>3. DecisionOfSet'
        BY <2>1, <2>2, <3>2 DEF DecisionOfSet
    <3>4. TypeOK'
        BY <2>1, <2>4, <3>1 DEF IInv, TypeOK, PriorityOf, Patterns
    <3> QED
        BY <3>3, <3>4 DEF IInv
  <2>6. CASE Skip
    <3>1. Decides(best, id, {rules[j] : j \in 1..k - 1} \cup {rules[k]})
        BY <2>3, <2>6, SkipDecides DEF Skip, PriorityOf
    <3>2. best' = best
        BY <2>6 DEF Skip
    <3>3. DecisionOfSet'
        BY <2>1, <2>2, <3>1, <3>2 DEF DecisionOfSet
    <3>4. TypeOK'
        BY <2>1, <3>2 DEF IInv, TypeOK, Patterns
    <3> QED
        BY <3>3, <3>4 DEF IInv
  <2> QED
      BY <1>2, <2>5, <2>6 DEF Next
<1> QED
    BY <1>1, <1>2

(* The inductive invariant holds throughout: the best rule so far decides    *)
(* the rules read (match_priority.go:86-110).                                *)
THEOREM Invariance == Spec => []IInv
<1> QED
    BY InitIInv, NextIInv, PTL DEF Spec

(* Type correctness of the rule loop. *)
THEOREM TypeCorrect == Spec => []TypeOK
<1>1. IInv => TypeOK
    BY DEF IInv
<1> QED
    BY <1>1, Invariance, PTL

(* The loop computes the decision of the set of rules it has seen            *)
(* (match_priority.go:86-110).                                               *)
THEOREM LoopDecidesSet == Spec => []DecisionOfSet
<1>1. IInv => DecisionOfSet
    BY DEF IInv
<1> QED
    BY <1>1, Invariance, PTL

(* A set of rules has one decision: two lists with the same rules, in any    *)
(* order and with any repetition, are decided alike                          *)
(* (match_priority.go:89-110).                                               *)
THEOREM OrderIrrelevant ==
    ASSUME NEW i, NEW S, NEW b, NEW c,
           Decides(b, i, S), Decides(c, i, S),
           b.priority \in NoMatch..Exact, c.priority \in NoMatch..Exact,
           {b.matched, b.deny, c.matched, c.deny} \subseteq BOOLEAN
    PROVE  /\ b.priority = c.priority
           /\ b.matched = c.matched
           /\ b.deny = c.deny
<1>1. b.priority = c.priority
  <2>1. ASSUME NEW x, NEW y, Decides(x, i, S), Decides(y, i, S),
               x.priority \in NoMatch..Exact, y.priority \in NoMatch..Exact
        PROVE  x.priority <= y.priority
    <3>1. CASE x.priority > NoMatch
        BY <2>1, <3>1 DEF Decides
    <3>2. CASE ~(x.priority > NoMatch)
        BY <2>1, <3>2 DEF NoMatch, Exact
    <3> QED
        BY <3>1, <3>2
  <2>2. b.priority <= c.priority /\ c.priority <= b.priority
      BY <2>1
  <2> QED
      BY <2>2 DEF NoMatch, Exact
<1>2. b.matched = c.matched /\ b.deny = c.deny
    BY <1>1 DEF Decides
<1> QED
    BY <1>1, <1>2

-----------------------------------------------------------------------------
(* The branches of MatchCapabilityPriority against the meaning of a pattern. *)

LEMMA Lengths ==
    ASSUME NEW s, IsList(s)
    PROVE  Len(s) \in Nat /\ DOMAIN s = 1..Len(s)
BY DEF IsList

(* Segment by segment, a segment of the pattern for one of the id.           *)
LEMMA AlignedDenotes ==
    ASSUME NEW i, NEW pat, IsList(i), IsList(pat), Len(i) = Len(pat),
           \A x \in 1..Len(pat) : MatchSingleSegment(i[x], pat[x])
    PROVE  Denotes(i, pat)
<1> DEFINE cut == [x \in 1..Len(pat) + 1 |-> x]
<1>1. Len(pat) \in Nat /\ DOMAIN pat = 1..Len(pat)
    BY Lengths
<1>2. /\ cut \in [1..Len(pat) + 1 -> 1..Len(i) + 1]
      /\ cut[1] = 1 /\ cut[Len(pat) + 1] = Len(i) + 1
      /\ \A x \in 1..Len(pat) : cut[x] = x /\ cut[x + 1] = x + 1
    BY <1>1
<1> HIDE DEF cut
<1>3. \A x \in DOMAIN pat :
         IF pat[x] = "**" THEN cut[x + 1] > cut[x]
         ELSE /\ cut[x + 1] = cut[x] + 1
              /\ MatchSingleSegment(i[cut[x]], pat[x])
    BY <1>1, <1>2
<1> QED
    BY <1>2, <1>3 DEF Denotes

LEMMA SchemeDenotes ==
    ASSUME NEW i, NEW pat, IsList(i), IsList(pat), MatchScheme(i, pat)
    PROVE  Denotes(i, pat)
<1>1. /\ Len(pat) \in Nat /\ Len(pat) >= 2 /\ Len(i) = Len(pat)
      /\ pat[1] = "*" /\ Tail(i) = Tail(pat)
    BY Lengths DEF MatchScheme
<1>2. \A x \in 2..Len(pat) : i[x] = Tail(i)[x - 1] /\ pat[x] = Tail(pat)[x - 1]
    BY <1>1 DEF IsList
<1>3. ASSUME NEW x \in 1..Len(pat) PROVE MatchSingleSegment(i[x], pat[x])
  <2>1. CASE x = 1
      BY <1>1, <2>1 DEF MatchSingleSegment
  <2>2. CASE x # 1
    <3>1. x \in 2..Len(pat)
        BY <1>1, <2>2
    <3>2. i[x] = pat[x]
        BY <1>1, <1>2, <3>1
    <3> QED
        BY <3>2 DEF MatchSingleSegment
  <2> QED
      BY <2>1, <2>2
<1> QED
    BY <1>1, <1>3, AlignedDenotes

(* The segments before the "**" are at the start of the id, those after it   *)
(* at its end (match_priority.go:172-209).                                   *)
LEMMA StarDenotes ==
    ASSUME NEW i, NEW pat, IsList(i), IsList(pat), AtMostOneStar(pat),
           ~StarIsEmpty(i, pat), MatchDoubleStarSegments(i, pat)
    PROVE  Denotes(i, pat)
<1> DEFINE n == Len(pat)
           m == Len(i)
<1>1. n \in Nat /\ m \in Nat /\ DOMAIN pat = 1..n
    BY Lengths
<1>2. PICK star \in Stars(pat) :
         /\ star - 1 + (n - star) <= m
         /\ \A x \in 1..star - 1 : MatchSingleSegment(i[x], pat[x])
         /\ \A x \in 1..n - star :
               MatchSingleSegment(i[m - (n - star) + x], pat[star + x])
    BY DEF MatchDoubleStarSegments, AtMostOneStar
<1>3. /\ star \in 1..n /\ pat[star] = "**"
      /\ \A x \in 1..n : pat[x] = "**" => x = star
    BY <1>1 DEF Stars, AtMostOneStar
<1> DEFINE cut == [x \in 1..n + 1 |-> IF x <= star THEN x ELSE m - n + x]
<1>4. /\ cut \in [1..n + 1 -> 1..m + 1]
      /\ cut[1] = 1 /\ cut[n + 1] = m + 1
    BY <1>1, <1>2, <1>3
<1>5. ASSUME NEW x \in DOMAIN pat
      PROVE  IF pat[x] = "**" THEN cut[x + 1] > cut[x]
             ELSE /\ cut[x + 1] = cut[x] + 1
                  /\ MatchSingleSegment(i[cut[x]], pat[x])
  <2>1. CASE x < star
    <3>1. cut[x] = x /\ cut[x + 1] = x + 1 /\ pat[x] # "**" /\ x \in 1..star - 1
        BY <1>1, <1>3, <2>1
    <3> HIDE DEF cut
    <3> QED
        BY <1>2, <3>1
  <2>2. CASE x = star
    <3>1. cut[x] = star /\ cut[x + 1] = m - n + star + 1
        BY <1>1, <1>3, <2>2
    <3>2. m # n - 1
        BY <1>2 DEF StarIsEmpty
    <3> HIDE DEF cut
    <3>3. star \in Int /\ n \in Int /\ m \in Int /\ m >= n - 1
        BY <1>1, <1>2, <1>3
    <3>4. cut[x + 1] > cut[x]
        BY <3>1, <3>2, <3>3
    <3> QED
        BY <1>3, <2>2, <3>4
  <2>3. CASE x > star
    <3>1. /\ cut[x] = m - n + x /\ cut[x + 1] = m - n + x + 1
          /\ pat[x] # "**"
        BY <1>1, <1>3, <2>3
    <3>2. /\ x - star \in 1..n - star /\ star + (x - star) = x
          /\ m - (n - star) + (x - star) = m - n + x
        BY <1>1, <1>3, <2>3
    <3> HIDE DEF cut
    <3>3. MatchSingleSegment(i[m - n + x], pat[x])
        BY <1>2, <3>2
    <3> QED
        BY <1>1, <1>3, <3>1, <3>3
  <2> QED
      BY <1>1, <1>3, <2>1, <2>2, <2>3
<1> HIDE DEF cut
<1> QED
    BY <1>4, <1>5 DEF Denotes

(* A pattern that means the id is matched by one of the branches.            *)
LEMMA DenotedMatches ==
    ASSUME NEW i, NEW pat, IsList(i), IsList(pat), AtMostOneStar(pat),
           Denotes(i, pat)
    PROVE  MatchSingleSegments(i, pat) \/ MatchDoubleStarSegments(i, pat)
<1> DEFINE n == Len(pat)
           m == Len(i)
<1>1. n \in Nat /\ m \in Nat /\ DOMAIN pat = 1..n
    BY Lengths
<1>2. PICK cut \in [1..n + 1 -> 1..m + 1] :
         /\ cut[1] = 1
         /\ cut[n + 1] = m + 1
         /\ \A x \in DOMAIN pat :
               IF pat[x] = "**" THEN cut[x + 1] > cut[x]
               ELSE /\ cut[x + 1] = cut[x] + 1
                    /\ MatchSingleSegment(i[cut[x]], pat[x])
    BY DEF Denotes
<1>3. \A x \in 1..n + 1 : cut[x] \in Int
    BY <1>1, <1>2
<1>4. CASE Stars(pat) = {}
  <2>1. \A x \in 1..n : /\ pat[x] # "**" /\ cut[x + 1] = cut[x] + 1
                        /\ MatchSingleSegment(i[cut[x]], pat[x])
      BY <1>1, <1>2, <1>4 DEF Stars
  <2>2. \A x \in 1..n + 1 : cut[x] = cut[1] + (x - 1)
    <3>1. PICK end \in Int : end = n + 1
        BY <1>1
    <3>2. \A x \in 1..end - 1 : cut[x + 1] = cut[x] + 1
        BY <1>1, <2>1, <3>1
    <3>3. 1 \in Int /\ \A x \in 1..end : cut[x] \in Int
        BY <1>3, <3>1
    <3>4. \A x \in 1..end : cut[x] = cut[1] + (x - 1)
        BY <3>2, <3>3, SteadySteps, ZenonT(40)
    <3> QED
        BY <3>1, <3>4
  <2>3. m = n /\ \A x \in 1..n : cut[x] = x
      BY <1>1, <1>2, <2>2
  <2> QED
      BY <1>1, <1>4, <2>1, <2>3 DEF MatchSingleSegments
<1>5. CASE Stars(pat) # {}
  <2>1. PICK star \in Stars(pat) : \A x \in Stars(pat) : x = star
      BY <1>5 DEF AtMostOneStar
  <2>2. star \in 1..n /\ pat[star] = "**"
      BY <1>1 DEF Stars
  <2>3. \A x \in 1..n : x # star =>
           /\ cut[x + 1] = cut[x] + 1
           /\ MatchSingleSegment(i[cut[x]], pat[x])
      BY <1>1, <1>2, <2>1 DEF Stars
  <2>4. \A x \in 1..star : cut[x] = x
    <3>1. \A x \in 1..star : cut[x] \in Int
        BY <1>1, <1>3, <2>2
    <3>2. \A x \in 1..star - 1 : cut[x + 1] = cut[x] + 1
        BY <1>1, <2>2, <2>3
    <3>3. \A x \in 1..star : cut[x] = cut[1] + (x - 1)
      <4>1. star \in Int /\ 1 \in Int
          BY <2>2
      <4> QED
          BY <3>1, <3>2, <4>1, SteadySteps, ZenonT(40)
    <3> QED
        BY <1>2, <2>2, <3>3
  <2>5. \A x \in star + 1..n + 1 : cut[x] = m - n + x
    <3>1. PICK from \in Int, end \in Int : from = star + 1 /\ end = n + 1
        BY <1>1, <2>2
    <3>2. \A x \in from..end : cut[x] \in Int
        BY <1>1, <1>3, <2>2, <3>1
    <3>3. \A x \in from..end - 1 : cut[x + 1] = cut[x] + 1
        BY <1>1, <2>2, <2>3, <3>1
    <3>4. \A x \in from..end : cut[x] = cut[from] + (x - from)
        BY <3>2, <3>3, SteadySteps
    <3>5. cut[end] = cut[from] + (end - from) /\ cut[from] \in Int
        BY <1>1, <1>3, <2>2, <3>1, <3>4
    <3>6. cut[from] = m + 1 - (end - from)
      <4>1. cut[end] = m + 1
          BY <1>2, <3>1
      <4>2. \A c, d, x \in Int : c = d + x => d = c - x
          OBVIOUS
      <4>3. m + 1 \in Int /\ end - from \in Int
          BY <1>1
      <4> QED
          BY <3>5, <4>1, <4>2, <4>3
    <3>7. ASSUME NEW x \in from..end PROVE cut[x] = m - n + x
      <4>1. cut[x] = m + 1 - (end - from) + (x - from)
          BY <3>4, <3>6
      <4> QED
          BY <1>1, <3>1, <4>1
    <3> QED
        BY <3>1, <3>7
  <2>6. star - 1 + (n - star) <= m
    <3>1. cut[star + 1] > cut[star]
        BY <1>1, <1>2, <2>2
    <3> QED
        BY <1>1, <2>2, <2>4, <2>5, <3>1
  <2>7. \A x \in 1..star - 1 : MatchSingleSegment(i[x], pat[x])
      BY <1>1, <2>2, <2>3, <2>4
  <2>8. ASSUME NEW x \in 1..n - star
        PROVE  MatchSingleSegment(i[m - (n - star) + x], pat[star + x])
    <3>1. /\ star + x \in 1..n /\ star + x # star
          /\ star + x \in star + 1..n + 1
          /\ m - (n - star) + x = m - n + (star + x)
        BY <1>1, <2>2
    <3> QED
        BY <2>3, <2>5, <3>1
  <2> QED
    <3>1. \A x \in Stars(pat) : star <= x /\ x <= star
        BY <2>1, <2>2
    <3> QED
        BY <2>6, <2>7, <2>8, <3>1 DEF MatchDoubleStarSegments
<1> QED
    BY <1>4, <1>5

(* A rule has a priority exactly when its pattern means the id               *)
(* (match_priority.go:49-82, 172-209).                                       *)
LEMMA PriorityIsMeaning ==
    ASSUME NEW i, NEW pat, IsList(i), IsList(pat),
           pat \notin GlobalPatterns, AtMostOneStar(pat), ~StarIsEmpty(i, pat)
    PROVE  MatchCapabilityPriority(i, pat) > NoMatch <=> Denotes(i, pat)
<1>1. MatchCapabilityPriority(i, pat) > NoMatch
         <=> \/ i = pat \/ MatchScheme(i, pat)
             \/ MatchDoubleStarSegments(i, pat) \/ MatchSingleSegments(i, pat)
    BY DEF MatchCapabilityPriority, GlobalPatterns,
           NoMatch, Global, Scheme, Multi, Single, Exact
<1>2. ASSUME i = pat PROVE Denotes(i, pat)
    BY <1>2, AlignedDenotes DEF MatchSingleSegment
<1>3. ASSUME MatchSingleSegments(i, pat) PROVE Denotes(i, pat)
    BY <1>3, Lengths, AlignedDenotes DEF MatchSingleSegments
<1> QED
    BY <1>1, <1>2, <1>3, SchemeDenotes, StarDenotes, DenotedMatches

(* A list has a match exactly when one of its patterns means the id, for     *)
(* lists, patterns and ids of any length (match_priority.go:49-110).         *)
THEOREM MatchesAreMeanings == Spec => []MatchIsMeaning
<1>1. ASSUME IInv PROVE MatchIsMeaning
  <2> SUFFICES ASSUME ~InLoop,
                      \A j \in DOMAIN rules :
                          /\ rules[j].pattern \notin GlobalPatterns
                          /\ AtMostOneStar(rules[j].pattern)
                          /\ ~StarIsEmpty(id, rules[j].pattern)
               PROVE  best.matched <=>
                          \E j \in DOMAIN rules : Denotes(id, rules[j].pattern)
      BY DEF MatchIsMeaning
  <2>1. /\ id \in Ids /\ rules \in RuleLists /\ k = Len(rules) + 1
        /\ Len(rules) \in Nat /\ DOMAIN rules = 1..k - 1
        /\ best.priority \in NoMatch..Exact
      BY <1>1, ListFacts DEF IInv, TypeOK, InLoop
  <2>2. ASSUME NEW j \in DOMAIN rules
        PROVE  MatchCapabilityPriority(id, rules[j].pattern) > NoMatch
                   <=> Denotes(id, rules[j].pattern)
      BY <2>1, ListFacts, RulesAssumption, PriorityIsMeaning
  <2>3. Decides(best, id, {rules[j] : j \in DOMAIN rules})
      BY <1>1, <2>1 DEF IInv, DecisionOfSet
  <2>4. ASSUME best.matched
        PROVE  \E j \in DOMAIN rules : Denotes(id, rules[j].pattern)
    <3>1. PICK j \in DOMAIN rules :
             MatchCapabilityPriority(id, rules[j].pattern) = best.priority
        BY <2>3, <2>4 DEF Decides
    <3> QED
        BY <2>2, <2>3, <2>4, <3>1 DEF Decides
  <2>5. ASSUME NEW j \in DOMAIN rules, Denotes(id, rules[j].pattern)
        PROVE  best.matched
    <3>1. /\ MatchCapabilityPriority(id, rules[j].pattern) > NoMatch
          /\ MatchCapabilityPriority(id, rules[j].pattern) <= best.priority
          /\ MatchCapabilityPriority(id, rules[j].pattern) \in NoMatch..Exact
        BY <2>2, <2>3, <2>5, PriorityRange DEF Decides
    <3> QED
        BY <2>1, <2>3, <3>1 DEF Decides, NoMatch, Exact
  <2> QED
      BY <2>4, <2>5
<1> QED
    BY <1>1, Invariance, PTL

(* A pattern falls into the class of its most general form, whatever the id  *)
(* (match_priority.go:62-82).                                                *)
LEMMA TailFacts ==
    ASSUME NEW s, IsList(s), Len(s) >= 1
    PROVE  /\ Tail(s) \in Seq({s[x] : x \in DOMAIN s})
           /\ Len(Tail(s)) = Len(s) - 1 /\ DOMAIN Tail(s) = 1..Len(s) - 1
           /\ \A x \in 1..Len(s) - 1 : Tail(s)[x] = s[x + 1]
BY DEF IsList

LEMMA SchemeFirst ==
    ASSUME NEW i, NEW pat, IsList(i), IsList(pat), HasForm(pat, Scheme),
           MatchSingleSegments(i, pat)
    PROVE  MatchScheme(i, pat)
<1>1. /\ Len(pat) \in Nat /\ Len(pat) >= 2 /\ pat[1] = "*"
      /\ ~ContainsWildcard(Tail(pat)) /\ Len(i) = Len(pat)
      /\ DOMAIN pat = 1..Len(pat)
      /\ \A x \in 1..Len(pat) : MatchSingleSegment(i[x], pat[x])
    BY Lengths DEF HasForm, MatchSingleSegments, Global, Scheme, Multi, Single
<1>2. /\ DOMAIN Tail(pat) = 1..Len(pat) - 1
      /\ \A x \in 1..Len(pat) - 1 : /\ Tail(pat)[x] = pat[x + 1]
                                    /\ Tail(i)[x] = i[x + 1]
    BY <1>1, TailFacts
<1>3. ASSUME NEW x \in 1..Len(pat) - 1 PROVE i[x + 1] = pat[x + 1]
  <2>1. pat[x + 1] \notin {"*", "**"} \cup Globs
      BY <1>1, <1>2 DEF ContainsWildcard
  <2>2. MatchSingleSegment(i[x + 1], pat[x + 1])
      BY <1>1
  <2> QED
      BY <2>1, <2>2 DEF MatchSingleSegment
<1>4. Tail(i) = Tail(pat)
  <2>1. /\ Len(Tail(i)) = Len(pat) - 1 /\ Len(Tail(pat)) = Len(pat) - 1
        /\ Tail(i) \in Seq({i[x] : x \in DOMAIN i})
        /\ Tail(pat) \in Seq({pat[x] : x \in DOMAIN pat})
      BY <1>1, TailFacts
  <2>2. \A x \in 1..Len(Tail(i)) : Tail(i)[x] = Tail(pat)[x]
      BY <1>2, <1>3, <2>1
  <2> QED
      BY <2>1, <2>2, SameSequence
<1> QED
    BY <1>1, <1>4 DEF MatchScheme

LEMMA RankOfPattern ==
    ASSUME NEW i, NEW pat, IsList(i), IsList(pat),
           NEW rank, rank = MatchCapabilityPriority(i, pat)
    PROVE  /\ rank = Exact => pat = i
           /\ rank \in Global..Single =>
                 /\ HasForm(pat, rank)
                 /\ \A level \in Global..rank - 1 : ~HasForm(pat, level)
<1> USE DEF NoMatch, Global, Scheme, Multi, Single, Exact
<1>1. rank = Exact => pat = i
    BY DEF MatchCapabilityPriority
<1>2. CASE rank = Global
  <2>1. HasForm(pat, Global)
      BY <1>2 DEF MatchCapabilityPriority, GlobalPatterns, HasForm
  <2>2. Global..rank - 1 = {}
      BY <1>2
  <2> QED
      BY <1>2, <2>1, <2>2
<1>3. CASE rank = Scheme
  <2>1. pat \notin GlobalPatterns /\ MatchScheme(i, pat)
      BY <1>3 DEF MatchCapabilityPriority, GlobalPatterns
  <2>2. HasForm(pat, Scheme) /\ ~HasForm(pat, Global)
      BY <2>1 DEF HasForm, MatchScheme
  <2>3. \A level \in Global..rank - 1 : level = Global
      BY <1>3
  <2> QED
      BY <1>3, <2>2, <2>3
<1>4. CASE rank = Multi
  <2>1. pat \notin GlobalPatterns /\ Stars(pat) # {}
      BY <1>4 DEF MatchCapabilityPriority, GlobalPatterns, MatchDoubleStarSegments
  <2>2. ~HasForm(pat, Scheme)
    <3> SUFFICES ASSUME HasForm(pat, Scheme) PROVE FALSE
        OBVIOUS
    <3>1. /\ Len(pat) >= 2 /\ pat[1] = "*" /\ ~ContainsWildcard(Tail(pat))
          /\ Len(pat) \in Nat /\ DOMAIN pat = 1..Len(pat)
        BY Lengths DEF HasForm
    <3>2. PICK x \in 1..Len(pat) : pat[x] = "**"
        BY <2>1, <3>1 DEF Stars
    <3>3. /\ x - 1 \in 1..Len(pat) - 1 /\ (x - 1) + 1 = x
        BY <3>1, <3>2
    <3>4. x - 1 \in DOMAIN Tail(pat) /\ Tail(pat)[x - 1] = "**"
        BY <3>1, <3>2, <3>3, TailFacts
    <3> QED
        BY <3>1, <3>4 DEF ContainsWildcard
  <2> QED
      BY <1>4, <2>1, <2>2 DEF HasForm
<1>5. CASE rank = Single
  <2>1. /\ pat \notin GlobalPatterns /\ ~MatchScheme(i, pat)
        /\ MatchSingleSegments(i, pat)
      BY <1>5 DEF MatchCapabilityPriority, GlobalPatterns
  <2>2. ~HasForm(pat, Scheme)
      BY <2>1, SchemeFirst
  <2>3. Stars(pat) = {}
      BY <2>1 DEF MatchSingleSegments
  <2> QED
      BY <1>5, <2>1, <2>2, <2>3 DEF HasForm
<1> QED
    BY <1>1, <1>2, <1>3, <1>4, <1>5

(* A match ranks as the most general form of its pattern, for any ids,       *)
(* patterns and globs (match_priority.go:62-82).                             *)
THEOREM RanksAreForms == Spec => []RankIsForm
<1>1. ASSUME IInv PROVE RankIsForm
  <2>1. CASE best.matched
    <3>1. PICK j \in 1..k - 1 :
             /\ MatchCapabilityPriority(id, rules[j].pattern) = best.priority
             /\ rules[j].pattern = best.pattern
        BY <1>1, <2>1 DEF IInv, DecisionOfSet, Decides
    <3>2. /\ id \in Ids /\ rules \in RuleLists /\ j \in DOMAIN rules
          /\ k \in 1..Len(rules) + 1
        BY <1>1, ListFacts DEF IInv, TypeOK
    <3>3. IsList(id) /\ IsList(best.pattern)
        BY <3>1, <3>2, RulesAssumption
    <3> QED
        BY <3>1, <3>3, RankOfPattern DEF RankIsForm
  <2>2. CASE ~best.matched
    <3>1. ~(best.priority > NoMatch)
        BY <1>1, <2>2 DEF IInv, DecisionOfSet, Decides
    <3>2. best.priority \in NoMatch..Exact
        BY <1>1 DEF IInv, TypeOK
    <3> QED
        BY <3>1, <3>2 DEF RankIsForm, NoMatch, Global, Single, Exact
  <2> QED
      BY <2>1, <2>2
<1> QED
    BY <1>1, Invariance, PTL

(* A further rule never makes the decision laxer (match_priority.go:92-106). *)
THEOREM NeverLaxer == Spec => Monotone
<1>1. ASSUME IInv, [Next]_vars
      PROVE  \/ /\ best'.priority >= best.priority
                /\ best'.priority = best.priority /\ best.deny => best'.deny
             \/ UNCHANGED vars
  <2>1. best.priority \in NoMatch..Exact
      BY <1>1 DEF IInv, TypeOK
  <2>2. CASE TakeHigher \/ TakeDeny
    <3>1. /\ best'.deny = rules[k].deny
          /\ best'.priority = PriorityOf(rules[k])
          /\ PriorityOf(rules[k]) \in NoMatch..Exact
        BY <2>2, PriorityRange DEF TakeHigher, TakeDeny, Take, PriorityOf
    <3> QED
        BY <2>1, <2>2, <3>1 DEF TakeHigher, TakeDeny, NoMatch, Exact
  <2>3. CASE Skip
      BY <2>1, <2>3 DEF Skip, NoMatch, Exact
  <2> QED
      BY <1>1, <2>2, <2>3 DEF Next
<1> QED
    BY <1>1, Invariance, PTL DEF Spec, Monotone
=============================================================================
