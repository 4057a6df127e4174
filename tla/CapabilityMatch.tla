--------------------------- MODULE CapabilityMatch ---------------------------
(* MatchCapabilities and CapabilitySubset of aicjwt/capmatch.go as they run: *)
(* the loop over the capabilities, and for each pattern the memoised         *)
(* recursion of matchTokensMemo with its call stack.                         *)
(*                                                                           *)
(* A "scheme:id" string is the sequence of its tokens: the parts between the *)
(* separators ':' and '/', and the separators themselves.  tokenize gives    *)
(* that sequence for every string.  A slice that remains is a position.      *)
EXTENDS TokenGlob

CONSTANTS Questions,  \* calls [mode, list, req] of the two functions
          NoParams    \* no params member

Slash == <<<<"lit", 47>>>>
Colon == <<<<"lit", 58>>>>
Star == <<<<"any">>>>
DoubleStar == <<<<"any">>, <<"any">>>>

IsList(s) == s \in Seq({s[x] : x \in DOMAIN s})

(* A list of tokens, which are lists of items; words are lists too. *)
IsToken(s) == /\ IsList(s)
              /\ \A x \in DOMAIN s :
                    s[x][1] = "alt" => \A word \in s[x][2] : IsList(word)
IsText(s) == IsList(s) /\ \A x \in DOMAIN s : IsToken(s[x])

ASSUME QuestionsAssumption ==
    \A qu \in Questions :
        /\ qu.mode \in {"match", "subset"}
        /\ IsList(qu.list)
        /\ IsText(qu.req.scheme) /\ IsText(qu.req.id)
        /\ \A i \in DOMAIN qu.list : /\ IsText(qu.list[i].scheme)
                                    /\ IsText(qu.list[i].id)

VARIABLES q,      \* the arguments: mode "match" or "subset", list and req
          k,      \* the loop index
          best,   \* the best score so far
          stack,  \* calls of matchTokensMemo: [j, next]; call x is at token x
                  \* of the pattern and token j of the target, and next is
                  \* where the rest of the target starts in the next attempt
          memo,   \* results by the lengths that remain
          ret     \* "idle", "call" (just called), or what was returned last

vars == <<q, k, best, stack, memo, ret>>

-----------------------------------------------------------------------------
(* The text of a pattern, given as Capabilities!CapPattern gives it. *)
Text(pair) == pair[1] \o <<Colon>> \o pair[2]

TextOf(c) == Text(<<c.scheme, c.id>>)

Colons(text) == {x \in DOMAIN text : text[x] = Colon}

(* strings.Split(text, ":")[0] *)
FirstSegment(text) ==
    SubSeq(text, 1, (CHOOSE x \in Colons(text) :
                         \A y \in Colons(text) : x <= y) - 1)

(* The pattern is exactly [scheme, "*"]. *)
SchemeWildcard(p) == /\ Colons(p) = {Len(p) - 1}
                     /\ p[Len(p)] = Star

SameScheme(p, t) == FirstSegment(p) = FirstSegment(t)

(* patternScore. *)
PatternScore(p) ==
    LET has(kind) == \E x \in DOMAIN p : \E y \in DOMAIN p[x] : p[x][y][1] = kind
        hasDouble == \E x \in DOMAIN p : \E y \in DOMAIN p[x] :
                        /\ p[x][y] = <<"any">>
                        /\ y < Len(p[x])
                        /\ p[x][y + 1] = <<"any">>
    IN CASE SchemeWildcard(p) -> 1
         [] has("any") /\ ~SchemeWildcard(p) -> IF hasDouble THEN 4 ELSE 5
         [] has("alt") /\ ~has("any") -> 3
         [] has("class") /\ ~has("alt") /\ ~has("any") -> 2
         [] OTHER -> 6

(* Mutant: a "**" takes one token, or all that is left. *)
SplitsGreedy(p, t, i, j) ==
    IF p[i] = DoubleStar THEN {j + 1, Len(t) + 1} \cap (j + 1..Len(t) + 1)
    ELSE {n \in {j + 1} :
             /\ j <= Len(t)
             /\ IF p[i] = Star THEN t[j] \notin {Slash, Colon}
                ELSE MatchToken(p[i], t[j])}

(* Where the rest of the target may start after the token of the pattern at  *)
(* i took its part of the target at j.                                       *)
Splits(p, t, i, j) ==
    IF p[i] = DoubleStar THEN j + 1..Len(t) + 1
    ELSE {n \in {j + 1} :
             /\ j <= Len(t)
             /\ IF p[i] = Star THEN t[j] \notin {Slash, Colon}
                ELSE MatchToken(p[i], t[j])}

Key(p, t, i, j) == <<Len(p) - i + 1, Len(t) - j + 1>>

(* The denotation of a pattern, independent of the recursion: the token of   *)
(* the pattern stands for the part of the target from `from` to before `to`. *)
TokenSpans(tok, t, from, to) ==
    CASE tok = DoubleStar -> from < to
      [] tok = Star -> /\ to = from + 1
                       /\ from <= Len(t)
                       /\ t[from] \notin {Slash, Colon}
      [] OTHER -> /\ to = from + 1
                  /\ from <= Len(t)
                  /\ MatchToken(tok, t[from])

(* The target from j can be cut into parts, one for each token of the        *)
(* pattern from i; end[x] is where the part of token x ends.                 *)
Means(p, t, i, j) ==
    \E end \in [i..Len(p) -> 1..Len(t) + 1] :
        LET start(x) == IF x = i THEN j ELSE end[x - 1]
        IN /\ \A x \in i..Len(p) : TokenSpans(p[x], t, start(x), end[x])
           /\ start(Len(p) + 1) = Len(t) + 1

PatternMeans(pair, target) ==
    LET p == Text(pair)
        t == Text(target)
    IN IF SchemeWildcard(p) THEN SameScheme(p, t) ELSE Means(p, t, 1, 1)

Caps == INSTANCE Capabilities WITH MatchPattern <- PatternMeans

-----------------------------------------------------------------------------
Pattern == TextOf(q.list[k])
Target == TextOf(q.req)
Depth == Len(stack)
Top == stack[Depth]
TopKey == Key(Pattern, Target, Depth, Top.j)

Init == /\ q \in Questions
        /\ k = 1
        /\ best = 0
        /\ stack = <<>>
        /\ memo = <<>>
        /\ ret = "idle"

InLoop == k <= Len(q.list)

(* matchPattern decides a scheme-level wildcard by the scheme alone. *)
SchemeLevel == /\ InLoop /\ ret = "idle"
               /\ SchemeWildcard(Pattern)
               /\ ret' = IF SameScheme(Pattern, Target) THEN "yes" ELSE "no"
               /\ UNCHANGED <<q, k, best, stack, memo>>

(* Mutant: one memo serves all patterns of the list. *)
CallFirstKeepsMemo == /\ InLoop /\ ret = "idle"
                      /\ ~SchemeWildcard(Pattern)
                      /\ stack' = <<[j |-> 1, next |-> 2]>>
                      /\ memo' = memo
                      /\ ret' = "call"
                      /\ UNCHANGED <<q, k, best>>

(* matchTokens: the first call, with an empty memo. *)
CallFirst == /\ InLoop /\ ret = "idle"
             /\ ~SchemeWildcard(Pattern)
             /\ stack' = <<[j |-> 1, next |-> 2]>>
             /\ memo' = <<>>
             /\ ret' = "call"
             /\ UNCHANGED <<q, k, best>>

Return(result) == /\ stack' = SubSeq(stack, 1, Depth - 1)
                  /\ ret' = IF result THEN "yes" ELSE "no"
                  /\ UNCHANGED <<q, k, best>>

(* len(p) == 0 *)
PatternUsedUp == /\ ret = "call"
                 /\ Depth > Len(Pattern)
                 /\ Return(Top.j > Len(Target))
                 /\ memo' = memo

Remembered == /\ ret = "call"
              /\ Depth <= Len(Pattern)
              /\ TopKey \in DOMAIN memo
              /\ Return(memo[TopKey])
              /\ memo' = memo

(* Mutant: a failure is remembered when the call is entered. *)
SolveRemembers == /\ ret = "call"
                  /\ Depth <= Len(Pattern)
                  /\ TopKey \notin DOMAIN memo
                  /\ memo' = [key \in DOMAIN memo \cup {TopKey} |->
                                 IF key = TopKey THEN FALSE ELSE memo[key]]
                  /\ ret' = "no"
                  /\ UNCHANGED <<q, k, best, stack>>

(* The switch is entered: no attempt has succeeded yet. *)
Solve == /\ ret = "call"
         /\ Depth <= Len(Pattern)
         /\ TopKey \notin DOMAIN memo
         /\ ret' = "no"
         /\ UNCHANGED <<q, k, best, stack, memo>>

Attempt == /\ Depth > 0 /\ ret = "no"
           /\ Top.next \in Splits(Pattern, Target, Depth, Top.j)
           /\ stack' = Append([stack EXCEPT ![Depth].next = @ + 1],
                              [j |-> Top.next, next |-> Top.next + 1])
           /\ ret' = "call"
           /\ UNCHANGED <<q, k, best, memo>>

Remember(result) ==
    memo' = [key \in DOMAIN memo \cup {TopKey} |->
                IF key = TopKey THEN result ELSE memo[key]]

Succeed == /\ Depth > 0 /\ ret = "yes"
           /\ Remember(TRUE)
           /\ Return(TRUE)

GiveUp == /\ Depth > 0 /\ ret = "no"
          /\ Top.next \notin Splits(Pattern, Target, Depth, Top.j)
          /\ Remember(FALSE)
          /\ Return(FALSE)

(* The loop of the caller after matchPattern returned: a match counts if it  *)
(* is better than the best so far and, in a subset, its params are within.   *)
Better == /\ ret = "yes"
          /\ PatternScore(Pattern) > best
          /\ q.mode = "subset" =>
                Caps!ParamsWithinGrant(q.list[k].params, q.req.params)

(* Mutant: a match skips the next capability. *)
TallySkips == /\ InLoop /\ stack = <<>> /\ ret \in {"yes", "no"}
              /\ best' = IF Better THEN PatternScore(Pattern) ELSE best
              /\ k' = IF Better THEN k + 2 ELSE k + 1
              /\ ret' = "idle"
              /\ UNCHANGED <<q, stack, memo>>

Tally == /\ InLoop /\ stack = <<>> /\ ret \in {"yes", "no"}
         /\ best' = IF Better THEN PatternScore(Pattern) ELSE best
         /\ k' = k + 1
         /\ ret' = "idle"
         /\ UNCHANGED <<q, stack, memo>>

Next == \/ SchemeLevel \/ CallFirst
        \/ PatternUsedUp \/ Remembered \/ Solve
        \/ Attempt \/ Succeed \/ GiveUp
        \/ Tally

Spec == Init /\ [][Next]_vars

-----------------------------------------------------------------------------
TypeOK == /\ q \in Questions
          /\ k \in 1..Len(q.list) + 1
          /\ best \in 0..6
          /\ stack \in Seq([j : Nat, next : Nat])
          /\ DOMAIN memo \subseteq Nat \X Nat
          /\ \A key \in DOMAIN memo : memo[key] \in BOOLEAN
          /\ ret \in {"idle", "call", "yes", "no"}

(* The comment "the outcome for a given (len(p), len(t)) is deterministic"   *)
(* (capmatch.go:69-73): what is remembered under the lengths that remain is  *)
(* whether the rest of the pattern means the rest of the target, whichever   *)
(* way the recursion came there.                                             *)
MemoSound ==
    stack # <<>> =>
        \A i \in 1..Len(Pattern), j \in 1..Len(Target) + 1 :
            LET key == Key(Pattern, Target, i, j)
            IN key \in DOMAIN memo =>
                  (memo[key] <=> Means(Pattern, Target, i, j))

(* "memoization bounds the worst case to O(len(p)*len(t))"                   *)
(* (capmatch.go:72): a call in progress is not one that was solved before,   *)
(* so each pair of positions is solved once.                                 *)
SolvedOnce ==
    \A x \in DOMAIN stack :
        (x < Depth \/ ret # "call") =>
            Key(Pattern, Target, x, stack[x].j) \notin DOMAIN memo

(* What docs/draft-wei-aic-jwt-02.md:841-848, 873-874 and 886-888 leave of   *)
(* the wildcards: none in the scheme, and not "scheme:*".                    *)
DraftForm(c) ==
    /\ \A x \in DOMAIN c.scheme : \A y \in DOMAIN c.scheme[x] :
          c.scheme[x][y][1] = "lit"
    /\ c.id # <<Star>>

(* The answer of either function is the one of Capabilities over what        *)
(* patterns mean: some cut of the target fits, whatever the order in which   *)
(* cuts and capabilities are tried, and whatever the scores                  *)
(* (capmatch.go:74-104, 230-240, 337-352).  It speaks of the capabilities of *)
(* the draft's form: the code also gives the other wildcards a meaning,      *)
(* which the draft forbids.                                                  *)
AnswerIsMeaning ==
    (/\ ~InLoop
     /\ \A i \in DOMAIN q.list : DraftForm(q.list[i])) =>
        (best > 0 <=> IF q.mode = "match"
                      THEN Caps!MatchCapabilities(q.list, q.req)
                      ELSE Caps!CapabilitySubset(q.req, q.list))

(* A token matches exactly when it can be cut to fit: no way of expanding a  *)
(* '*' or an alternation inside a token is missed (capmatch.go:119-161).     *)
TokensMean ==
    (/\ stack # <<>>
     /\ Depth <= Len(Pattern)
     /\ Top.j <= Len(Target)) =>
        (MatchToken(Pattern[Depth], Target[Top.j])
             <=> TokenMeans(Pattern[Depth], Target[Top.j]))
=============================================================================
