------------------------------ MODULE TokenGlob ------------------------------
(* matchToken of aicjwt/capmatch.go: a token of a capability pattern against *)
(* a token of a target, neither of which contains a separator.  A token is a *)
(* sequence of items: <<"lit", c>> a character (its code), <<"any">> a '*',  *)
(* <<"alt", words>> an alternation "{a,b}" with the set of its words, and    *)
(* <<"class", body>> a class "[a-z]" with the characters of its body.  An    *)
(* alternation or class that is not closed has no words or no body, and      *)
(* matches nothing.  In a target an item is only itself.                     *)
EXTENDS Integers, Sequences

Dash == 45

(* inCharClass: the body is read from left to right, "x-y" as a range. *)
InCharClass(body, ch) ==
    LET From[x \in 1..Len(body) + 1] ==
            IF x > Len(body) THEN FALSE
            ELSE IF x + 2 <= Len(body) /\ body[x + 1] = Dash
            THEN (body[x] <= ch /\ ch <= body[x + 2]) \/ From[x + 3]
            ELSE body[x] = ch \/ From[x + 1]
    IN From[1]

InClass(class, item) == item[1] = "lit" /\ InCharClass(class[2], item[2])

(* The word is what the target has at ti. *)
HasWordAt(t, ti, word) == /\ ti + Len(word) <= Len(t) + 1
                          /\ SubSeq(t, ti, ti + Len(word) - 1) = word

(* Mutant: an alternation commits to its first word that fits. *)
MatchItemCommits(item, t, ti, rest) ==
    CASE item[1] = "any" -> \E k \in ti..Len(t) + 1 : rest[k]
      [] item[1] = "alt" -> LET fit == {w \in item[2] : HasWordAt(t, ti, w)}
                            IN /\ fit # {}
                               /\ rest[ti + Len(CHOOSE w \in fit : TRUE)]
      [] item[1] = "class" -> ti <= Len(t) /\ InClass(item, t[ti]) /\ rest[ti + 1]
      [] OTHER -> ti <= Len(t) /\ t[ti] = item /\ rest[ti + 1]

(* The item at the position ti of the target, where rest[k] says whether the *)
(* items after it match from k on: '*' and alternations try every way.       *)
MatchItem(item, t, ti, rest) ==
    CASE item[1] = "any" -> \E k \in ti..Len(t) + 1 : rest[k]
      [] item[1] = "alt" -> \E word \in item[2] : /\ HasWordAt(t, ti, word)
                                                  /\ rest[ti + Len(word)]
      [] item[1] = "class" -> ti <= Len(t) /\ InClass(item, t[ti]) /\ rest[ti + 1]
      [] OTHER -> ti <= Len(t) /\ t[ti] = item /\ rest[ti + 1]

(* matchTokenAt from the start of both. *)
MatchToken(p, t) ==
    LET At[pi \in 1..Len(p) + 1] ==
            [ti \in 1..Len(t) + 1 |->
                IF pi > Len(p) THEN ti > Len(t)
                ELSE MatchItem(p[pi], t, ti, At[pi + 1])]
    IN At[1][1]

-----------------------------------------------------------------------------
(* The part of the target from `from` up to before `to` is one that the item *)
(* stands for.                                                               *)
ItemSpans(item, t, from, to) ==
    CASE item[1] = "any" -> from <= to
      [] item[1] = "alt" -> from <= to /\ SubSeq(t, from, to - 1) \in item[2]
      [] item[1] = "class" -> to = from + 1 /\ InClass(item, t[from])
      [] OTHER -> to = from + 1 /\ t[from] = item

(* What a token means: the target can be cut into parts, one for each item.  *)
(* end[x] is where the part of item x ends.                                  *)
TokenMeans(p, t) ==
    \E end \in [DOMAIN p -> 1..Len(t) + 1] :
        LET start(x) == IF x = 1 THEN 1 ELSE end[x - 1]
        IN /\ \A x \in DOMAIN p : ItemSpans(p[x], t, start(x), end[x])
           /\ start(Len(p) + 1) = Len(t) + 1
=============================================================================
