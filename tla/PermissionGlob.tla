--------------------------- MODULE PermissionGlob ---------------------------
(* MatchCapability of aic.go: full capability identifiers against patterns   *)
(* with '*', '?' and "**".  A string is the sequence of its characters, each *)
(* a string of length one.                                                   *)
EXTENDS Integers, Sequences

HasPrefix(s, p) == Len(p) <= Len(s) /\ SubSeq(s, 1, Len(p)) = p

HasSuffix(s, p) == /\ Len(p) <= Len(s)
                   /\ SubSeq(s, Len(s) - Len(p) + 1, Len(s)) = p

From(s, n) == SubSeq(s, n, Len(s))
Before(s, n) == SubSeq(s, 1, n)

TrimPrefix(s, p) == IF HasPrefix(s, p) THEN From(s, Len(p) + 1) ELSE s
TrimSuffix(s, p) == IF HasSuffix(s, p) THEN Before(s, Len(s) - Len(p)) ELSE s

(* strings.TrimLeft and strings.TrimRight of "/". *)
TrimLeft(s) == From(s, CHOOSE n \in 1..Len(s) + 1 :
                           /\ \A x \in 1..n - 1 : s[x] = "/"
                           /\ n <= Len(s) => s[n] # "/")
TrimRight(s) == Before(s, CHOOSE n \in 0..Len(s) :
                              /\ \A x \in n + 1..Len(s) : s[x] = "/"
                              /\ n >= 1 => s[n] # "/")

(* path.Match without classes and escapes: '*' and '?' never take a '/'. *)
PathMatch(p, s) ==
    LET At[pi \in 1..Len(p) + 1] ==
            [si \in 1..Len(s) + 1 |->
                IF pi > Len(p) THEN si > Len(s)
                ELSE IF p[pi] = "*"
                THEN \E n \in si..Len(s) + 1 : /\ \A x \in si..n - 1 : s[x] # "/"
                                               /\ At[pi + 1][n]
                ELSE /\ si <= Len(s)
                     /\ IF p[pi] = "?" THEN s[si] # "/" ELSE s[si] = p[pi]
                     /\ At[pi + 1][si + 1]]
    IN At[1][1]

DoubleStars(p) == {n \in 1..Len(p) - 1 : p[n] = "*" /\ p[n + 1] = "*"}

(* strings.Split(p, "**") has two parts: there is a first "**", and none     *)
(* that does not overlap it.                                                 *)
FirstDoubleStar(p) == CHOOSE n \in DoubleStars(p) :
                          \A m \in DoubleStars(p) : n <= m
OneDoubleStar(p) == /\ DoubleStars(p) # {}
                    /\ DoubleStars(From(p, FirstDoubleStar(p) + 2)) = {}

PrefixOf(p) == TrimRight(Before(p, FirstDoubleStar(p) - 1))
SuffixOf(p) == TrimLeft(From(p, FirstDoubleStar(p) + 2))

(* Every part of the text between slashes is there and is not "..".          *)
(* strings.Split gives the parts between the ends and the slashes.           *)
SegmentsOK(s) ==
    LET ends == {0, Len(s) + 1} \cup {n \in DOMAIN s : s[n] = "/"}
    IN \A a, b \in ends :
          (a < b /\ \A n \in ends : n <= a \/ b <= n) =>
              SubSeq(s, a + 1, b - 1) \notin {<<>>, <<".", ".">>}

(* Mutant: prefix and suffix may share a part of the identifier. *)
MatchDoubleStarOverlaps(id, p) ==
    /\ OneDoubleStar(p)
    /\ HasPrefix(id, PrefixOf(p)) /\ HasSuffix(id, SuffixOf(p))
    /\ LET rest == TrimSuffix(TrimPrefix(id, PrefixOf(p)), SuffixOf(p))
           bare == TrimSuffix(TrimPrefix(rest, <<"/">>), <<"/">>)
       IN bare = <<>> \/ SegmentsOK(bare)

MatchDoubleStar(id, p) ==
    LET prefix == PrefixOf(p)
        suffix == SuffixOf(p)
        rest == IF prefix = <<>> THEN id
                ELSE TrimPrefix(TrimPrefix(id, prefix), <<"/">>)
        middle == IF suffix = <<>> THEN rest
                  ELSE TrimSuffix(TrimSuffix(rest, suffix), <<"/">>)
    IN /\ OneDoubleStar(p)
       /\ HasPrefix(id, prefix)
       /\ HasSuffix(rest, suffix)
       /\ middle = <<>> \/ SegmentsOK(middle)

MatchCapability(id, p) == \/ id = p
                          \/ p \in {<<"*", "*">>, <<"*">>}
                          \/ PathMatch(p, id)
                          \/ DoubleStars(p) # {} /\ MatchDoubleStar(id, p)

-----------------------------------------------------------------------------
(* What "prefix**suffix" means, independent of the order of the trims: the   *)
(* identifier is the prefix, a slash or none, whole segments or nothing, a   *)
(* slash or none, and the suffix, one after the other.                       *)
DoubleStarFits(id, p) ==
    \E a \in 0..Len(id) : \E b \in a..Len(id) :
        LET middle == SubSeq(id, a + 1, b)
            joins == {<<>>, <<"/">>}
            before == IF PrefixOf(p) = <<>> THEN {<<>>}
                      ELSE {PrefixOf(p) \o s : s \in joins}
            after == IF SuffixOf(p) = <<>> THEN {<<>>}
                     ELSE {s \o SuffixOf(p) : s \in joins}
        IN /\ OneDoubleStar(p)
           /\ Before(id, a) \in before
           /\ From(id, b + 1) \in after
           /\ middle = <<>> \/ SegmentsOK(middle)
=============================================================================
