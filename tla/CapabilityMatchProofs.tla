------------------------ MODULE CapabilityMatchProofs ------------------------
(* Proofs about the memoised matcher for patterns, targets and lists of any  *)
(* length: what is remembered is what the rest of the pattern means, each    *)
(* pair of positions is solved once, and the answer is the meaning.          *)
EXTENDS CapabilityMatch, SequenceLemmas

-----------------------------------------------------------------------------
(* The denotation, one token at a time.                                      *)

LEMMA SplitsAreSpans ==
    ASSUME NEW p, NEW t, Len(t) \in Nat, NEW i, NEW j \in 1..Len(t) + 1,
           NEW c \in 1..Len(t) + 1
    PROVE  c \in Splits(p, t, i, j) <=> TokenSpans(p[i], t, j, c)
<1>1. CASE p[i] = DoubleStar
  <2>1. Splits(p, t, i, j) = j + 1..Len(t) + 1
      BY <1>1 DEF Splits
  <2>2. TokenSpans(p[i], t, j, c) <=> j < c
      BY <1>1 DEF TokenSpans, DoubleStar, Star
  <2> QED
      BY <2>1, <2>2
<1>2. CASE p[i] = Star
    BY <1>2 DEF Splits, TokenSpans, Star, DoubleStar
<1>3. CASE p[i] # Star /\ p[i] # DoubleStar
    BY <1>3 DEF Splits, TokenSpans
<1> QED
    BY <1>1, <1>2, <1>3

LEMMA SplitsInside ==
    ASSUME NEW p, NEW t, Len(t) \in Nat, NEW i, NEW j \in 1..Len(t) + 1,
           NEW c \in Splits(p, t, i, j)
    PROVE  c \in 1..Len(t) + 1 /\ c >= j + 1
BY DEF Splits

(* The attempts are an interval that starts just after j.                    *)
LEMMA SplitsContiguous ==
    ASSUME NEW p, NEW t, Len(t) \in Nat, NEW i, NEW j \in 1..Len(t) + 1,
           NEW c \in Splits(p, t, i, j), NEW n \in j + 1..c
    PROVE  n \in Splits(p, t, i, j)
<1>1. CASE p[i] = DoubleStar
    BY <1>1 DEF Splits
<1>2. CASE p[i] # DoubleStar
    BY <1>2 DEF Splits
<1> QED
    BY <1>1, <1>2

(* The parts that the tokens of a pattern may stand for. *)
Spans(p, t) == {s \in (1..Len(p)) \X (1..Len(t) + 1) \X (1..Len(t) + 1) :
                    TokenSpans(p[s[1]], t, s[2], s[3])}

LEMMA MeansIsCuts ==
    ASSUME NEW p, NEW t, Len(p) \in Nat, Len(t) \in Nat,
           NEW i \in 1..Len(p) + 1, NEW j \in 1..Len(t) + 1
    PROVE  Means(p, t, i, j) <=> Cuts(Spans(p, t), Len(p), Len(t), i, j)
<1> DEFINE Start(end, x) == IF x = i THEN j ELSE end[x - 1]
<1>1. ASSUME NEW end \in [i..Len(p) -> 1..Len(t) + 1], NEW x \in i..Len(p)
      PROVE  TokenSpans(p[x], t, Start(end, x), end[x])
                 <=> <<x, Start(end, x), end[x]>> \in Spans(p, t)
  <2>1. x \in 1..Len(p) /\ Start(end, x) \in 1..Len(t) + 1 /\ end[x] \in 1..Len(t) + 1
      OBVIOUS
  <2> HIDE DEF Start
  <2> QED
      BY <2>1 DEF Spans
<1>2. Means(p, t, i, j)
         <=> \E end \in [i..Len(p) -> 1..Len(t) + 1] :
                /\ \A x \in i..Len(p) : TokenSpans(p[x], t, Start(end, x), end[x])
                /\ Start(end, Len(p) + 1) = Len(t) + 1
    BY DEF Means
<1>3. Cuts(Spans(p, t), Len(p), Len(t), i, j)
         <=> \E end \in [i..Len(p) -> 1..Len(t) + 1] :
                /\ \A x \in i..Len(p) : <<x, Start(end, x), end[x]>> \in Spans(p, t)
                /\ Start(end, Len(p) + 1) = Len(t) + 1
    BY DEF Cuts
<1> HIDE DEF Start
<1> QED
    BY <1>1, <1>2, <1>3

LEMMA MeansAtEnd ==
    ASSUME NEW p, NEW t, Len(p) \in Nat, Len(t) \in Nat,
           NEW j \in 1..Len(t) + 1
    PROVE  Means(p, t, Len(p) + 1, j) <=> j = Len(t) + 1
<1>1. Means(p, t, Len(p) + 1, j)
         <=> Cuts(Spans(p, t), Len(p), Len(t), Len(p) + 1, j)
    BY MeansIsCuts
<1> QED
    BY <1>1, CutsAtEnd

LEMMA MeansStep ==
    ASSUME NEW p, NEW t, Len(p) \in Nat, Len(t) \in Nat,
           NEW i \in 1..Len(p), NEW j \in 1..Len(t) + 1
    PROVE  Means(p, t, i, j) <=>
               \E c \in Splits(p, t, i, j) : Means(p, t, i + 1, c)
<1> DEFINE Rest(c) == Cuts(Spans(p, t), Len(p), Len(t), i + 1, c)
<1>1. Means(p, t, i, j)
         <=> \E c \in 1..Len(t) + 1 : <<i, j, c>> \in Spans(p, t) /\ Rest(c)
  <2>1. Means(p, t, i, j) <=> Cuts(Spans(p, t), Len(p), Len(t), i, j)
      BY MeansIsCuts
  <2> QED
      BY <2>1, CutsStep
<1>2. \A c \in 1..Len(t) + 1 : Means(p, t, i + 1, c) <=> Rest(c)
  <2>1. i + 1 \in 1..Len(p) + 1
      OBVIOUS
  <2> QED
      BY <2>1, MeansIsCuts
<1>3. \A c \in 1..Len(t) + 1 : <<i, j, c>> \in Spans(p, t)
                                   <=> c \in Splits(p, t, i, j)
    BY SplitsAreSpans DEF Spans
<1>4. \A c \in Splits(p, t, i, j) : c \in 1..Len(t) + 1
    BY SplitsInside
<1> HIDE DEF Rest
<1> QED
    BY <1>1, <1>2, <1>3, <1>4

-----------------------------------------------------------------------------
(* Inside a token: matchTokenAt against what the items stand for.            *)

ItemParts(p, t) == {s \in (1..Len(p)) \X (1..Len(t) + 1) \X (1..Len(t) + 1) :
                        ItemSpans(p[s[1]], t, s[2], s[3])}

(* The items from pi on stand for the target from ti on. *)
ItemsMean(p, t, pi, ti) == Cuts(ItemParts(p, t), Len(p), Len(t), pi, ti)

LEMMA TokenFacts ==
    ASSUME NEW p, IsToken(p)
    PROVE  /\ Len(p) \in Nat /\ DOMAIN p = 1..Len(p)
           /\ \A x \in 1..Len(p) :
                 p[x][1] = "alt" => \A word \in p[x][2] : IsList(word)
BY DEF IsToken, IsList

LEMMA ListFacts ==
    ASSUME NEW s, IsList(s)
    PROVE  Len(s) \in Nat /\ DOMAIN s = 1..Len(s)
BY DEF IsList

LEMMA TokenMeansIsItemsMean ==
    ASSUME NEW p, NEW t, IsToken(p), IsList(t)
    PROVE  TokenMeans(p, t) <=> ItemsMean(p, t, 1, 1)
<1> DEFINE Start(end, x) == IF x = 1 THEN 1 ELSE end[x - 1]
<1>1. /\ Len(p) \in Nat /\ DOMAIN p = 1..Len(p) /\ Len(t) \in Nat
    BY TokenFacts, ListFacts
<1>2. ASSUME NEW end \in [1..Len(p) -> 1..Len(t) + 1], NEW x \in 1..Len(p)
      PROVE  ItemSpans(p[x], t, Start(end, x), end[x])
                 <=> <<x, Start(end, x), end[x]>> \in ItemParts(p, t)
  <2>1. Start(end, x) \in 1..Len(t) + 1 /\ end[x] \in 1..Len(t) + 1
      BY <1>1
  <2> HIDE DEF Start
  <2> QED
      BY <2>1 DEF ItemParts
<1>3. TokenMeans(p, t)
         <=> \E end \in [1..Len(p) -> 1..Len(t) + 1] :
                /\ \A x \in 1..Len(p) : ItemSpans(p[x], t, Start(end, x), end[x])
                /\ Start(end, Len(p) + 1) = Len(t) + 1
    BY <1>1 DEF TokenMeans
<1>4. ItemsMean(p, t, 1, 1)
         <=> \E end \in [1..Len(p) -> 1..Len(t) + 1] :
                /\ \A x \in 1..Len(p) :
                      <<x, Start(end, x), end[x]>> \in ItemParts(p, t)
                /\ Start(end, Len(p) + 1) = Len(t) + 1
    BY DEF Cuts, ItemsMean
<1> HIDE DEF Start
<1> QED
    BY <1>2, <1>3, <1>4

(* A word at a position is the part from there for as long as the word.      *)
LEMMA WordIsPart ==
    ASSUME NEW t, IsList(t), NEW ti \in 1..Len(t) + 1, NEW words,
           \A word \in words : IsList(word), NEW rest
    PROVE  (\E word \in words : HasWordAt(t, ti, word) /\ rest[ti + Len(word)])
           <=> \E c \in 1..Len(t) + 1 : /\ ti <= c
                                        /\ SubSeq(t, ti, c - 1) \in words
                                        /\ rest[c]
<1>1. Len(t) \in Nat
    BY ListFacts
<1>2. ASSUME NEW word \in words, HasWordAt(t, ti, word), rest[ti + Len(word)]
      PROVE  \E c \in 1..Len(t) + 1 : /\ ti <= c
                                      /\ SubSeq(t, ti, c - 1) \in words
                                      /\ rest[c]
  <2>1. Len(word) \in Nat
      BY ListFacts
  <2>2. /\ ti + Len(word) \in 1..Len(t) + 1 /\ ti <= ti + Len(word)
        /\ SubSeq(t, ti, ti + Len(word) - 1) = word
      BY <1>1, <1>2, <2>1 DEF HasWordAt
  <2> DEFINE c == ti + Len(word)
  <2>3. c \in 1..Len(t) + 1 /\ ti <= c /\ SubSeq(t, ti, c - 1) = word /\ rest[c]
      BY <1>2, <2>2
  <2> HIDE DEF c
  <2> QED
      BY <1>2, <2>3
<1>3. ASSUME NEW c \in 1..Len(t) + 1, ti <= c, SubSeq(t, ti, c - 1) \in words,
             rest[c]
      PROVE  \E word \in words : HasWordAt(t, ti, word) /\ rest[ti + Len(word)]
  <2> DEFINE word == SubSeq(t, ti, c - 1)
  <2>1. Len(word) = c - ti
    <3>1. t \in Seq({t[x] : x \in DOMAIN t})
        BY DEF IsList
    <3>2. ti \in Int /\ c - 1 \in Int /\ 1 <= ti /\ c - 1 <= Len(t)
        BY <1>1
    <3>3. Len(word) = IF ti <= c - 1 THEN (c - 1) - ti + 1 ELSE 0
        BY <3>1, <3>2, PartFacts
    <3> QED
        BY <1>1, <1>3, <3>3
  <2>2. ti + Len(word) = c /\ ti + Len(word) - 1 = c - 1
      BY <1>1, <2>1
  <2>3. HasWordAt(t, ti, word)
      BY <1>1, <2>2 DEF HasWordAt
  <2> HIDE DEF word
  <2>4. word \in words
      BY <1>3 DEF word
  <2> QED
      BY <1>3, <2>2, <2>3, <2>4
<1> QED
    BY <1>2, <1>3

(* One item: every way to let it stand for a part is tried, and no other     *)
(* (capmatch.go:127-168).                                                    *)
LEMMA ItemTakesParts ==
    ASSUME NEW p, NEW t, IsToken(p), IsList(t), NEW pi \in 1..Len(p),
           NEW ti \in 1..Len(t) + 1, NEW rest
    PROVE  MatchItem(p[pi], t, ti, rest)
               <=> \E c \in 1..Len(t) + 1 : ItemSpans(p[pi], t, ti, c) /\ rest[c]
<1>1. Len(t) \in Nat
    BY ListFacts
<1>2. CASE p[pi][1] = "any"
  <2>1. MatchItem(p[pi], t, ti, rest) <=> \E c \in ti..Len(t) + 1 : rest[c]
      BY <1>2 DEF MatchItem
  <2>2. \A c : ItemSpans(p[pi], t, ti, c) <=> ti <= c
      BY <1>2 DEF ItemSpans
  <2>3. \A c : c \in ti..Len(t) + 1 <=> c \in 1..Len(t) + 1 /\ ti <= c
      BY <1>1
  <2> QED
      BY <2>1, <2>2, <2>3
<1>3. CASE p[pi][1] = "alt"
  <2>1. \A word \in p[pi][2] : IsList(word)
      BY <1>3, TokenFacts
  <2>2. MatchItem(p[pi], t, ti, rest)
           <=> \E word \in p[pi][2] : HasWordAt(t, ti, word) /\ rest[ti + Len(word)]
      BY <1>3 DEF MatchItem
  <2>3. \A c : ItemSpans(p[pi], t, ti, c)
                  <=> ti <= c /\ SubSeq(t, ti, c - 1) \in p[pi][2]
      BY <1>3 DEF ItemSpans
  <2>4. (\E word \in p[pi][2] : HasWordAt(t, ti, word) /\ rest[ti + Len(word)])
           <=> \E c \in 1..Len(t) + 1 : /\ ti <= c
                                        /\ SubSeq(t, ti, c - 1) \in p[pi][2]
                                        /\ rest[c]
      BY <2>1, WordIsPart
  <2> QED
      BY <2>2, <2>3, <2>4
<1>4. CASE p[pi][1] = "class"
  <2>1. MatchItem(p[pi], t, ti, rest)
           <=> ti <= Len(t) /\ InClass(p[pi], t[ti]) /\ rest[ti + 1]
      BY <1>4 DEF MatchItem
  <2>2. \A c : ItemSpans(p[pi], t, ti, c)
                  <=> c = ti + 1 /\ InClass(p[pi], t[ti])
      BY <1>4 DEF ItemSpans
  <2>3. ti <= Len(t) <=> ti + 1 \in 1..Len(t) + 1
      BY <1>1
  <2> QED
      BY <2>1, <2>2, <2>3
<1>5. CASE p[pi][1] \notin {"any", "alt", "class"}
  <2>1. MatchItem(p[pi], t, ti, rest)
           <=> ti <= Len(t) /\ t[ti] = p[pi] /\ rest[ti + 1]
      BY <1>5 DEF MatchItem
  <2>2. \A c : ItemSpans(p[pi], t, ti, c) <=> c = ti + 1 /\ t[ti] = p[pi]
      BY <1>5 DEF ItemSpans
  <2>3. ti <= Len(t) <=> ti + 1 \in 1..Len(t) + 1
      BY <1>1
  <2> QED
      BY <2>1, <2>2, <2>3
<1> QED
    BY <1>2, <1>3, <1>4, <1>5

LEMMA ItemsMeanStep ==
    ASSUME NEW p, NEW t, IsToken(p), IsList(t), NEW pi \in 1..Len(p),
           NEW ti \in 1..Len(t) + 1, NEW rest,
           \A c \in 1..Len(t) + 1 : rest[c] <=> ItemsMean(p, t, pi + 1, c)
    PROVE  ItemsMean(p, t, pi, ti) <=> MatchItem(p[pi], t, ti, rest)
<1>1. Len(p) \in Nat /\ Len(t) \in Nat
    BY TokenFacts, ListFacts
<1>2. ItemsMean(p, t, pi, ti)
         <=> \E c \in 1..Len(t) + 1 : /\ <<pi, ti, c>> \in ItemParts(p, t)
                                      /\ ItemsMean(p, t, pi + 1, c)
    BY <1>1, CutsStep DEF ItemsMean
<1>3. \A c \in 1..Len(t) + 1 : <<pi, ti, c>> \in ItemParts(p, t)
                                   <=> ItemSpans(p[pi], t, ti, c)
    BY DEF ItemParts
<1> QED
    BY <1>2, <1>3, ItemTakesParts

(* The recursive function of MatchToken. *)
IsTable(f, p, t) ==
    f = [pi \in 1..Len(p) + 1 |->
            [ti \in 1..Len(t) + 1 |->
                IF pi > Len(p) THEN ti > Len(t)
                ELSE MatchItem(p[pi], t, ti, f[pi + 1])]]

LEMMA TableEntry ==
    ASSUME NEW f, NEW p, NEW t, IsTable(f, p, t),
           NEW pi \in 1..Len(p) + 1, NEW ti \in 1..Len(t) + 1
    PROVE  f[pi][ti] = IF pi > Len(p) THEN ti > Len(t)
                       ELSE MatchItem(p[pi], t, ti, f[pi + 1])
<1>1. f = [x \in 1..Len(p) + 1 |->
             [y \in 1..Len(t) + 1 |->
                IF x > Len(p) THEN y > Len(t)
                ELSE MatchItem(p[x], t, y, f[x + 1])]]
    BY Zenon DEF IsTable
<1>2. f[pi] = [y \in 1..Len(t) + 1 |->
                 IF pi > Len(p) THEN y > Len(t)
                 ELSE MatchItem(p[pi], t, y, f[pi + 1])]
    BY <1>1, Zenon
<1> QED
    BY <1>2, Zenon

(* The meanings make such a function, ... *)
LEMMA TableExists ==
    ASSUME NEW p, NEW t, IsToken(p), IsList(t)
    PROVE  \E f : IsTable(f, p, t)
<1> DEFINE n == Len(p)
           m == Len(t)
           f == [pi \in 1..n + 1 |-> [ti \in 1..m + 1 |-> ItemsMean(p, t, pi, ti)]]
<1>1. n \in Nat /\ m \in Nat
    BY TokenFacts, ListFacts
<1>2. ASSUME NEW pi \in 1..n + 1, NEW ti \in 1..m + 1
      PROVE  ItemsMean(p, t, pi, ti) = IF pi > n THEN ti > m
                                       ELSE MatchItem(p[pi], t, ti, f[pi + 1])
  <2>1. CASE pi > n
    <3>1. pi = n + 1
        BY <1>1, <2>1
    <3>2. ItemsMean(p, t, pi, ti) <=> ti = m + 1
        BY <1>1, <3>1, CutsAtEnd DEF ItemsMean
    <3>3. ti = m + 1 <=> ti > m
        BY <1>1
    <3>4. ItemsMean(p, t, pi, ti) <=> ti > m
        BY <3>2, <3>3
    <3>5. ItemsMean(p, t, pi, ti) = (ti > m)
      <4>1. ItemsMean(p, t, pi, ti) \in BOOLEAN
          BY DEF ItemsMean, Cuts
      <4>2. CASE ti > m
        <5>1. ItemsMean(p, t, pi, ti) = TRUE
            BY <3>4, <4>1, <4>2
        <5>2. (ti > m) = TRUE
            BY <4>2
        <5> QED
            BY <5>1, <5>2, Zenon
      <4>3. CASE ~(ti > m)
        <5>1. ItemsMean(p, t, pi, ti) = FALSE
            BY <3>4, <4>1, <4>3
        <5>2. (ti > m) = FALSE
            BY <4>3
        <5> QED
            BY <5>1, <5>2, Zenon
      <4> QED
          BY <4>2, <4>3
    <3> QED
        BY <2>1, <3>5
  <2>2. CASE pi <= n
    <3>1. pi \in 1..n /\ pi + 1 \in 1..n + 1
        BY <1>1, <2>2
    <3>2. \A c \in 1..m + 1 : f[pi + 1][c] = ItemsMean(p, t, pi + 1, c)
        BY <3>1, Zenon
    <3> HIDE DEF f
    <3>3. ItemsMean(p, t, pi, ti) <=> MatchItem(p[pi], t, ti, f[pi + 1])
        BY <3>1, <3>2, ItemsMeanStep
    <3>4. ItemsMean(p, t, pi, ti) = MatchItem(p[pi], t, ti, f[pi + 1])
        BY <3>3 DEF ItemsMean, Cuts, MatchItem
    <3> QED
        BY <1>1, <2>2, <3>4
  <2> QED
      BY <1>1, <2>1, <2>2
<1>3. IsTable(f, p, t)
    BY <1>2, Zenon DEF IsTable
<1> QED
    BY <1>3

(* ... and every such function is of them. *)
LEMMA TableMeans ==
    ASSUME NEW f, NEW p, NEW t, IsToken(p), IsList(t), IsTable(f, p, t)
    PROVE  \A pi \in 1..Len(p) + 1 : \A ti \in 1..Len(t) + 1 :
               f[pi][ti] <=> ItemsMean(p, t, pi, ti)
<1> DEFINE n == Len(p)
           m == Len(t)
           S == {pi \in Int : \A ti \in 1..m + 1 : f[pi][ti] <=> ItemsMean(p, t, pi, ti)}
<1>1. n \in Nat /\ m \in Nat
    BY TokenFacts, ListFacts
<1>2. n + 1 \in S
  <2>1. ASSUME NEW ti \in 1..m + 1
        PROVE  f[n + 1][ti] <=> ItemsMean(p, t, n + 1, ti)
    <3>1. n + 1 \in 1..n + 1 /\ n + 1 > n
        BY <1>1
    <3>2. f[n + 1][ti] = (ti > m)
        BY <3>1, TableEntry
    <3>3. ItemsMean(p, t, n + 1, ti) <=> ti = m + 1
        BY <1>1, CutsAtEnd DEF ItemsMean
    <3>4. ti = m + 1 <=> ti > m
        BY <1>1
    <3> QED
        BY <3>2, <3>3, <3>4
  <2> QED
      BY <1>1, <2>1
<1>3. ASSUME NEW pi \in 1..(n + 1) - 1, pi + 1 \in S PROVE pi \in S
  <2>1. ASSUME NEW ti \in 1..m + 1
        PROVE  f[pi][ti] <=> ItemsMean(p, t, pi, ti)
    <3>1. pi \in 1..n /\ pi \in 1..n + 1 /\ ~(pi > n)
        BY <1>1
    <3>2. f[pi][ti] = MatchItem(p[pi], t, ti, f[pi + 1])
        BY <3>1, TableEntry
    <3>3. \A c \in 1..m + 1 : f[pi + 1][c] <=> ItemsMean(p, t, pi + 1, c)
        BY <1>3
    <3>4. ItemsMean(p, t, pi, ti) <=> MatchItem(p[pi], t, ti, f[pi + 1])
        BY <3>1, <3>3, ItemsMeanStep
    <3> QED
        BY <3>2, <3>4
  <2> QED
      BY <1>1, <2>1
<1> HIDE DEF S
<1>4. 1..n + 1 \subseteq S
  <2>1. PICK end \in Int : end = n + 1
      BY <1>1
  <2>2. 1 \in Int /\ end \in S /\ \A pi \in 1..end - 1 : pi + 1 \in S => pi \in S
      BY <1>2, <1>3, <2>1
  <2>3. 1..end \subseteq S
      BY <2>2, Downward
  <2> QED
      BY <2>1, <2>3
<1> QED
    BY <1>4 DEF S

(* A token of a pattern matches exactly the tokens that can be cut to fit,   *)
(* for tokens of any length (capmatch.go:115-171).                           *)
THEOREM TokenMatchIsMeaning ==
    ASSUME NEW p, NEW t, IsToken(p), IsList(t)
    PROVE  MatchToken(p, t) <=> TokenMeans(p, t)
<1> DEFINE At == CHOOSE f : IsTable(f, p, t)
<1>1. IsTable(At, p, t)
    BY TableExists, Zenon
<1>2. MatchToken(p, t) = At[1][1]
    BY Zenon DEF MatchToken, IsTable
<1>3. 1 \in 1..Len(p) + 1 /\ 1 \in 1..Len(t) + 1
    BY TokenFacts, ListFacts
<1> HIDE DEF At
<1>4. At[1][1] <=> ItemsMean(p, t, 1, 1)
    BY <1>1, <1>3, TableMeans
<1> QED
    BY <1>2, <1>4, TokenMeansIsItemsMean

-----------------------------------------------------------------------------
(* The inductive invariant: what the call stack says.                        *)

MeansAt(i, j) == Means(Pattern, Target, i, j)

SplitsAt(x) == Splits(Pattern, Target, x, stack[x].j)

(* A call is in progress, just begun, or just answered. *)
Phases == /\ ret = "idle" => stack = <<>>
          /\ stack # <<>> => InLoop /\ ~SchemeWildcard(Pattern) /\ stack[1].j = 1
          /\ ret \in {"yes", "no"} => InLoop
          /\ ret = "call" => stack # <<>> /\ Top.next = Top.j + 1
          /\ ret # "call" /\ stack # <<>> => Depth <= Len(Pattern)

Frames == \A x \in 1..Depth : /\ x <= Len(Pattern) + 1
                              /\ stack[x].j \in 1..Len(Target) + 1
                              /\ stack[x].next > stack[x].j

(* A call is an attempt of the one below, whose earlier attempts failed. *)
Trail == \A x \in 1..Depth - 1 :
            /\ x <= Len(Pattern)
            /\ stack[x + 1].j = stack[x].next - 1
            /\ stack[x + 1].j \in SplitsAt(x)
            /\ \A c \in SplitsAt(x) : c < stack[x + 1].j => ~MeansAt(x + 1, c)

(* What was returned last tells about the call on top. *)
Failures == ret = "no" /\ stack # <<>> =>
               \A c \in SplitsAt(Depth) : c < Top.next => ~MeansAt(Depth + 1, c)

Success == ret = "yes" /\ stack # <<>> => MeansAt(Depth, Top.j)

Covering(i) == Caps!Covers(q.list[i], q.req)

Decided == ret \in {"yes", "no"} /\ stack = <<>> => (ret = "yes" <=> Covering(k))

Grants(i) == /\ Covering(i)
             /\ q.mode = "subset" =>
                   Caps!ParamsWithinGrant(q.list[i].params, q.req.params)

BestIsFound == best > 0 <=> \E i \in 1..k - 1 : Grants(i)

IInv == /\ TypeOK /\ MemoSound /\ SolvedOnce
        /\ Phases /\ Frames /\ Trail /\ Failures /\ Success /\ Decided
        /\ BestIsFound

-----------------------------------------------------------------------------
LEMMA TextLengths ==
    ASSUME q \in Questions
    PROVE  /\ Len(Target) \in Nat
           /\ Len(q.list) \in Nat /\ DOMAIN q.list = 1..Len(q.list)
           /\ InLoop /\ k \in 1..Len(q.list) + 1 => Len(Pattern) \in Nat
<1>1. /\ IsList(q.list) /\ IsText(q.req.scheme) /\ IsText(q.req.id)
      /\ \A i \in DOMAIN q.list : /\ IsText(q.list[i].scheme)
                                  /\ IsText(q.list[i].id)
    BY QuestionsAssumption
<1>2. \A u, v : IsText(u) /\ IsText(v) => Len(Text(<<u, v>>)) \in Nat
    BY DEF IsText, IsList, Text
<1>3. Len(q.list) \in Nat /\ DOMAIN q.list = 1..Len(q.list)
    BY <1>1 DEF IsList
<1>4. Len(Target) \in Nat
    BY <1>1, <1>2 DEF Target, TextOf
<1>5. ASSUME InLoop, k \in 1..Len(q.list) + 1 PROVE Len(Pattern) \in Nat
  <2>1. k \in DOMAIN q.list
      BY <1>3, <1>5 DEF InLoop
  <2> QED
      BY <1>1, <1>2, <2>1 DEF Pattern, TextOf
<1> QED
    BY <1>3, <1>4, <1>5

LEMMA TextIsText ==
    ASSUME NEW u, NEW v, IsText(u), IsText(v)
    PROVE  IsText(Text(<<u, v>>))
<1> DEFINE w == Text(<<u, v>>)
<1>1. /\ Len(u) \in Nat /\ DOMAIN u = 1..Len(u)
      /\ Len(v) \in Nat /\ DOMAIN v = 1..Len(v)
    BY DEF IsText, IsList
<1>2. IsToken(Colon)
    BY DEF IsToken, IsList, Colon
<1>3. /\ Len(w) = Len(u) + 1 + Len(v) /\ DOMAIN w = 1..Len(w)
      /\ \A x \in 1..Len(w) : w[x] = IF x <= Len(u) THEN u[x]
                                     ELSE IF x = Len(u) + 1 THEN Colon
                                     ELSE v[x - Len(u) - 1]
    BY DEF IsText, IsList, Text
<1>4. w \in Seq({w[x] : x \in DOMAIN w})
  <2> DEFINE S == {u[x] : x \in DOMAIN u} \cup {v[x] : x \in DOMAIN v} \cup {Colon}
  <2>1. u \in Seq(S) /\ v \in Seq(S) /\ <<Colon>> \in Seq(S)
    <3>1. u \in [1..Len(u) -> S] /\ v \in [1..Len(v) -> S]
        BY <1>1 DEF IsText, IsList
    <3> QED
        BY <1>1, <3>1
  <2> HIDE DEF S
  <2>2. w \in Seq(S)
      BY <2>1 DEF Text
  <2> HIDE DEF w
  <2>3. w \in [1..Len(w) -> {w[x] : x \in DOMAIN w}] /\ Len(w) \in Nat
      BY <2>2
  <2> QED
      BY <2>3
<1> HIDE DEF w
<1>5. \A x \in DOMAIN w : IsToken(w[x])
  <2>1. ASSUME NEW x \in DOMAIN w PROVE IsToken(w[x])
    <3>1. CASE x <= Len(u)
        BY <1>1, <1>3, <2>1, <3>1 DEF IsText
    <3>2. CASE x = Len(u) + 1
        BY <1>1, <1>2, <1>3, <2>1, <3>2
    <3>3. CASE x > Len(u) + 1
      <4>1. x - Len(u) - 1 \in DOMAIN v /\ w[x] = v[x - Len(u) - 1]
          BY <1>1, <1>3, <2>1, <3>3
      <4> QED
          BY <4>1 DEF IsText
    <3> QED
        BY <1>1, <1>3, <2>1, <3>1, <3>2, <3>3
  <2> QED
      BY <2>1
<1>6. IsText(w)
    BY <1>4, <1>5 DEF IsText, IsList
<1> QED
    BY <1>6 DEF w

LEMMA TextsAreTexts ==
    ASSUME TypeOK
    PROVE  IsText(Target) /\ (InLoop => IsText(Pattern))
<1>1. /\ IsText(q.req.scheme) /\ IsText(q.req.id)
      /\ IsList(q.list)
      /\ \A i \in DOMAIN q.list : /\ IsText(q.list[i].scheme)
                                  /\ IsText(q.list[i].id)
    BY QuestionsAssumption DEF TypeOK
<1>2. InLoop => k \in DOMAIN q.list
    BY <1>1 DEF TypeOK, InLoop, IsList
<1> QED
    BY <1>1, <1>2, TextIsText DEF Target, Pattern, TextOf

LEMMA ElementOfSeq ==
    \A S : \A s \in Seq(S) : \A x \in 1..Len(s) : s[x] \in S
OBVIOUS

LEMMA SubSeqOfSeq ==
    \A S : \A s \in Seq(S) : \A n \in 0..Len(s) :
        /\ SubSeq(s, 1, n) \in Seq(S) /\ Len(SubSeq(s, 1, n)) = n
        /\ DOMAIN SubSeq(s, 1, n) = 1..n
        /\ \A x \in 1..n : SubSeq(s, 1, n)[x] = s[x]
OBVIOUS

LEMMA KeyIsInjective ==
    ASSUME NEW p, NEW t, Len(p) \in Nat, Len(t) \in Nat,
           NEW i \in 1..Len(p) + 1, NEW j \in 1..Len(t) + 1
    PROVE  /\ Key(p, t, i, j) \in Nat \X Nat
           /\ \A x \in 1..Len(p) + 1, y \in 1..Len(t) + 1 :
                 Key(p, t, x, y) = Key(p, t, i, j) => x = i /\ y = j
BY DEF Key

LEMMA ScoreIsPositive == \A p : PatternScore(p) \in 1..6
BY DEF PatternScore

LEMMA CoveringIsMeaning ==
    Covering(k) <=> IF SchemeWildcard(Pattern) THEN SameScheme(Pattern, Target)
                    ELSE MeansAt(1, 1)
BY DEF Covering, Caps!Covers, Caps!CapPattern, PatternMeans, MeansAt, Pattern,
       Target, TextOf

(* A step inside the recursion leaves the texts alone.                       *)
LEMMA SameTexts ==
    ASSUME UNCHANGED <<q, k>>
    PROVE  Pattern' = Pattern /\ Target' = Target /\ InLoop' = InLoop
BY DEF Pattern, Target, InLoop

(* A call that returns the meaning of its part leaves a correct caller.      *)
LEMMA PopKeeps ==
    ASSUME IInv, Depth > 0, NEW result \in BOOLEAN, Return(result),
           result <=> MeansAt(Depth, Top.j)
    PROVE  (Phases /\ Frames /\ Trail /\ Failures /\ Success /\ Decided)'
<1>1. /\ stack \in Seq([j : Nat, next : Nat]) /\ Depth \in Nat
      /\ q \in Questions /\ k \in 1..Len(q.list) + 1
      /\ InLoop /\ ~SchemeWildcard(Pattern) /\ stack[1].j = 1
    BY DEF IInv, TypeOK, Phases, Depth
<1>2. /\ Len(Pattern) \in Nat /\ Len(Target) \in Nat
    BY <1>1, TextLengths
<1> PICK up \in Nat : Depth = up + 1
  <2>1. Depth - 1 \in Nat /\ Depth = (Depth - 1) + 1
      BY <1>1
  <2> QED
      BY <2>1
<1>3. /\ Pattern' = Pattern /\ Target' = Target /\ InLoop' = InLoop
      /\ q' = q /\ k' = k
    BY SameTexts DEF Return
<1>4. /\ Len(stack') = up /\ Depth' = up
      /\ \A x \in 1..up : stack'[x] = stack[x]
      /\ stack' = <<>> <=> up = 0
      /\ ret' = IF result THEN "yes" ELSE "no"
  <2>1. stack' = SubSeq(stack, 1, up)
      BY <1>1 DEF Return
  <2>2. up \in 0..Len(stack)
      BY <1>1 DEF Depth
  <2>3. Len(stack') = up /\ \A x \in 1..up : stack'[x] = stack[x]
      BY <1>1, <2>1, <2>2, SMTT(20)
  <2>4. stack' = <<>> <=> up = 0
      BY <1>1, <2>1, <2>2, <2>3
  <2> QED
      BY <2>3, <2>4 DEF Return, Depth
<1>5. up > 0 => Top' = stack[up]
    BY <1>1, <1>4 DEF Top
<1>6. ASSUME up > 0
      PROVE  /\ up \in 1..Len(Pattern)
             /\ stack[up].j \in 1..Len(Target) + 1
             /\ stack[up].next - 1 = Top.j
             /\ Top.j \in SplitsAt(up)
             /\ \A c \in SplitsAt(up) : c < Top.j => ~MeansAt(up + 1, c)
             /\ stack[up].next \in Nat
  <2>1. up \in 1..Depth - 1 /\ up \in 1..Depth /\ Depth = up + 1
      BY <1>1, <1>6
  <2>2. /\ up <= Len(Pattern)
        /\ stack[up + 1].j = stack[up].next - 1
        /\ stack[up + 1].j \in SplitsAt(up)
        /\ \A c \in SplitsAt(up) : c < stack[up + 1].j => ~MeansAt(up + 1, c)
      BY <2>1 DEF IInv, Trail
  <2>3. stack[up].j \in 1..Len(Target) + 1
      BY <2>1 DEF IInv, Frames
  <2>4. stack[up].next \in Nat
    <3>1. up \in 1..Len(stack)
        BY <2>1 DEF Depth
    <3>2. stack \in Seq([j : Nat, next : Nat])
        BY <1>1
    <3>3. stack[up] \in [j : Nat, next : Nat]
        BY <3>1, <3>2, ElementOfSeq
    <3> QED
        BY <3>3
  <2> QED
      BY <1>2, <2>1, <2>2, <2>3, <2>4 DEF Top
<1>7. up > 0 => SplitsAt(up)' = SplitsAt(up)
    BY <1>3, <1>4, <1>1 DEF SplitsAt
<1>8. Phases'
    BY <1>1, <1>3, <1>4, <1>5, <1>6 DEF Phases
<1>9. Frames'
  <2> SUFFICES ASSUME NEW x \in 1..up
               PROVE  /\ x <= Len(Pattern) + 1
                      /\ stack[x].j \in 1..Len(Target) + 1
                      /\ stack[x].next > stack[x].j
      BY <1>3, <1>4 DEF Frames
  <2>1. x \in 1..Depth
      OBVIOUS
  <2> QED
      BY <2>1 DEF Frames, IInv
<1>10. Trail'
  <2> SUFFICES ASSUME NEW x \in 1..up - 1
               PROVE  /\ x <= Len(Pattern)
                      /\ stack'[x + 1].j = stack'[x].next - 1
                      /\ stack'[x + 1].j \in SplitsAt(x)'
                      /\ \A c \in SplitsAt(x)' :
                            c < stack'[x + 1].j => ~MeansAt(x + 1, c)'
      BY <1>3, <1>4 DEF Trail
  <2>1. stack'[x] = stack[x] /\ stack'[x + 1] = stack[x + 1]
      BY <1>1, <1>4
  <2>2. SplitsAt(x)' = SplitsAt(x) /\ \A c : MeansAt(x + 1, c)' <=> MeansAt(x + 1, c)
      BY <1>3, <2>1 DEF SplitsAt, MeansAt
  <2>3. x \in 1..Depth - 1
      BY <1>1
  <2> QED
      BY <2>1, <2>2, <2>3 DEF IInv, Trail
<1>11. Failures'
  <2> SUFFICES ASSUME ~result, up > 0, NEW c \in SplitsAt(up), c < stack[up].next
               PROVE  ~MeansAt(up + 1, c)
      BY <1>3, <1>4, <1>5, <1>7 DEF Failures, MeansAt
  <2>1. c \in Nat
      BY <1>2, <1>6, SplitsInside DEF SplitsAt
  <2>2. CASE c < Top.j
      BY <1>6, <2>2
  <2>3. CASE c = Top.j
      BY <1>1, <2>3
  <2>4. Top.j \in Nat
      BY <1>2, <1>6, SplitsInside DEF SplitsAt
  <2> QED
      BY <1>6, <2>1, <2>2, <2>3, <2>4
<1>12. Success'
  <2> SUFFICES ASSUME result, up > 0 PROVE MeansAt(up, stack[up].j)
      BY <1>3, <1>4, <1>5 DEF Success, MeansAt
  <2>1. MeansAt(up + 1, Top.j)
      BY <1>1
  <2> QED
      BY <1>2, <1>6, <2>1, MeansStep DEF MeansAt, SplitsAt
<1>13. Decided'
  <2> SUFFICES ASSUME up = 0 PROVE result <=> Covering(k)
      BY <1>3, <1>4 DEF Decided, Covering, Caps!Covers
  <2>1. Depth = 1 /\ Top.j = 1
      BY <1>1 DEF Top
  <2> QED
      BY <1>1, <2>1, CoveringIsMeaning
<1> QED
    BY <1>8, <1>9, <1>10, <1>11, <1>12, <1>13

(* Remembering the meaning keeps the memo sound, and does not touch the keys *)
(* of the calls below.                                                       *)
LEMMA RememberKeeps ==
    ASSUME IInv, Depth > 0, Depth <= Len(Pattern), ret # "call",
           NEW result \in BOOLEAN, Remember(result), Return(result),
           result <=> MeansAt(Depth, Top.j)
    PROVE  /\ MemoSound' /\ SolvedOnce'
           /\ DOMAIN memo' \subseteq Nat \X Nat
           /\ \A key \in DOMAIN memo' : memo'[key] \in BOOLEAN
<1>1. /\ stack \in Seq([j : Nat, next : Nat]) /\ Depth \in Nat
      /\ q \in Questions /\ k \in 1..Len(q.list) + 1 /\ InLoop
      /\ DOMAIN memo \subseteq Nat \X Nat
      /\ \A key \in DOMAIN memo : memo[key] \in BOOLEAN
      /\ Depth = Len(stack)
    BY DEF IInv, TypeOK, Phases, Depth
<1>2. /\ Len(Pattern) \in Nat /\ Len(Target) \in Nat
    BY <1>1, TextLengths
<1>3. Pattern' = Pattern /\ Target' = Target
    BY SameTexts DEF Return
<1>4. /\ Depth \in 1..Len(Pattern) + 1 /\ Top.j \in 1..Len(Target) + 1
    BY <1>1, <1>2 DEF IInv, Frames, Top
<1>5. /\ TopKey \in Nat \X Nat
      /\ \A x \in 1..Len(Pattern) + 1, y \in 1..Len(Target) + 1 :
            Key(Pattern, Target, x, y) = TopKey => x = Depth /\ y = Top.j
    BY <1>2, <1>4, KeyIsInjective DEF TopKey
<1>6. /\ DOMAIN memo' = DOMAIN memo \cup {TopKey}
      /\ \A key \in DOMAIN memo' :
            memo'[key] = IF key = TopKey THEN result ELSE memo[key]
    BY DEF Remember
<1>7. MemoSound'
  <2> SUFFICES ASSUME NEW i \in 1..Len(Pattern), NEW y \in 1..Len(Target) + 1,
                      Key(Pattern, Target, i, y) \in DOMAIN memo'
               PROVE  memo'[Key(Pattern, Target, i, y)] <=> MeansAt(i, y)
      BY <1>3 DEF MemoSound, MeansAt
  <2>1. CASE Key(Pattern, Target, i, y) = TopKey
      BY <1>2, <1>5, <1>6, <2>1
  <2>2. CASE Key(Pattern, Target, i, y) # TopKey
    <3>1. Key(Pattern, Target, i, y) \in DOMAIN memo /\ stack # <<>>
        BY <1>1, <1>6, <2>2
    <3>2. memo[Key(Pattern, Target, i, y)] <=> MeansAt(i, y)
        BY <3>1 DEF IInv, MemoSound, MeansAt
    <3> QED
        BY <1>6, <2>2, <3>2
  <2> QED
      BY <2>1, <2>2
<1>8. SolvedOnce'
  <2>1. stack' = SubSeq(stack, 1, Depth - 1) /\ Depth - 1 \in 0..Len(stack)
      BY <1>1 DEF Return
  <2>2. /\ DOMAIN stack' = 1..Depth - 1
        /\ \A x \in 1..Depth - 1 : stack'[x] = stack[x]
      BY <1>1, <2>1
  <2> SUFFICES ASSUME NEW x \in 1..Depth - 1
               PROVE  Key(Pattern, Target, x, stack[x].j) \notin DOMAIN memo'
      BY <1>3, <2>2 DEF SolvedOnce
  <2>3. x \in DOMAIN stack /\ x < Depth /\ x \in 1..Depth
      BY <1>1
  <2>4. Key(Pattern, Target, x, stack[x].j) \notin DOMAIN memo
      BY <2>3 DEF IInv, SolvedOnce
  <2>5. x \in 1..Len(Pattern) + 1 /\ stack[x].j \in 1..Len(Target) + 1
      BY <1>2, <1>4, <2>3 DEF IInv, Frames
  <2>6. Key(Pattern, Target, x, stack[x].j) # TopKey
    <3>1. Key(Pattern, Target, x, stack[x].j) = TopKey => x = Depth
        BY <1>5, <2>5
    <3>2. x # Depth
        BY <1>1, <2>3
    <3> QED
        BY <3>1, <3>2
  <2> QED
      BY <1>6, <2>4, <2>6
<1> QED
    BY <1>1, <1>5, <1>6, <1>7, <1>8

(* What the steps outside the recursion start from.                          *)
LEMMA Facts ==
    ASSUME IInv
    PROVE  /\ q \in Questions /\ k \in 1..Len(q.list) + 1
           /\ k \in Nat /\ Len(q.list) \in Nat /\ best \in 0..6
           /\ stack \in Seq([j : Nat, next : Nat]) /\ Depth \in Nat
           /\ Depth = Len(stack) /\ (Depth > 0 <=> stack # <<>>)
           /\ InLoop => Len(Pattern) \in Nat
           /\ Len(Target) \in Nat
BY TextLengths DEF IInv, TypeOK, Depth

LEMMA TopFacts ==
    ASSUME IInv, Depth > 0
    PROVE  /\ InLoop /\ Len(Pattern) \in Nat /\ Len(Target) \in Nat
           /\ Depth \in 1..Len(Pattern) + 1
           /\ Top.j \in 1..Len(Target) + 1
           /\ Top.next \in Nat /\ Top.next > Top.j
<1>1. /\ stack \in Seq([j : Nat, next : Nat]) /\ Depth \in 1..Len(stack)
      /\ Depth \in 1..Depth /\ stack # <<>>
    BY Facts
<1>2. InLoop /\ Len(Pattern) \in Nat /\ Len(Target) \in Nat
    BY <1>1, Facts DEF IInv, Phases
<1>3. Top \in [j : Nat, next : Nat]
    BY <1>1, ElementOfSeq DEF Top
<1>4. /\ Depth <= Len(Pattern) + 1
      /\ Top.j \in 1..Len(Target) + 1
      /\ Top.next > Top.j
    BY <1>1 DEF IInv, Frames, Top
<1> QED
    BY <1>1, <1>2, <1>3, <1>4

(* The stack without its top frame. *)
LEMMA PopFacts ==
    ASSUME IInv, Depth > 0
    PROVE  stack' = SubSeq(stack, 1, Depth - 1) =>
               /\ stack' \in Seq([j : Nat, next : Nat]) /\ Depth - 1 \in Nat
               /\ Len(stack') = Depth - 1 /\ DOMAIN stack' = 1..Depth - 1
               /\ \A x \in 1..Depth - 1 : stack'[x] = stack[x]
<1> DEFINE up == Depth - 1
           Frame == [j : Nat, next : Nat]
<1>1. stack \in Seq(Frame) /\ up \in Nat /\ up \in 0..Len(stack)
    BY Facts
<1> HIDE DEF up, Frame
<1>2. ASSUME stack' = SubSeq(stack, 1, up)
      PROVE  /\ stack' \in Seq(Frame) /\ Len(stack') = up /\ DOMAIN stack' = 1..up
             /\ \A x \in 1..up : stack'[x] = stack[x]
    BY <1>1, <1>2, SubSeqOfSeq
<1> QED
    BY <1>1, <1>2 DEF up, Frame

(* The first call of a pattern, and its scheme-level answer.                 *)
LEMMA StartKeeps ==
    ASSUME IInv, SchemeLevel \/ CallFirst
    PROVE  IInv'
<1>1. /\ InLoop /\ ret = "idle" /\ stack = <<>>
      /\ UNCHANGED <<q, k, best>>
    BY DEF IInv, Phases, SchemeLevel, CallFirst
<1>2. Pattern' = Pattern /\ Target' = Target /\ InLoop'
    BY <1>1, SameTexts
<1>3. BestIsFound'
    BY <1>1 DEF IInv, BestIsFound, Grants, Covering, Caps!Covers
<1>4. CASE SchemeLevel
  <2>1. /\ stack' = stack /\ memo' = memo /\ ret' \in {"yes", "no"}
        /\ ret' = "yes" <=> SameScheme(Pattern, Target)
        /\ SchemeWildcard(Pattern)
      BY <1>4 DEF SchemeLevel
  <2>2. Decided'
      BY <1>1, <2>1, CoveringIsMeaning DEF Decided, Covering, Caps!Covers
  <2>3. TypeOK'
      BY <1>1, <2>1 DEF IInv, TypeOK
  <2>4. (MemoSound /\ SolvedOnce /\ Phases /\ Frames /\ Trail /\ Failures /\ Success)'
      BY <1>1, <1>2, <2>1
      DEF MemoSound, SolvedOnce, Phases, Frames, Trail, Failures, Success, Depth
  <2> QED
      BY <1>3, <2>2, <2>3, <2>4 DEF IInv
<1>5. CASE CallFirst
  <2>1. /\ stack' = <<[j |-> 1, next |-> 2]>> /\ memo' = <<>> /\ ret' = "call"
        /\ ~SchemeWildcard(Pattern)
      BY <1>5 DEF CallFirst
  <2>2. /\ Len(stack') = 1 /\ Depth' = 1 /\ DOMAIN stack' = {1}
        /\ stack'[1].j = 1 /\ stack'[1].next = 2 /\ DOMAIN memo' = {}
        /\ stack' # <<>> /\ stack' \in Seq([j : Nat, next : Nat])
      BY <2>1 DEF Depth
  <2>3. Len(Pattern) \in Nat /\ Len(Target) \in Nat
      BY <1>1, Facts
  <2>4. TypeOK'
      BY <1>1, <2>1, <2>2 DEF IInv, TypeOK
  <2>5. MemoSound' /\ SolvedOnce'
      BY <2>1, <2>2 DEF MemoSound, SolvedOnce
  <2>6. Phases' /\ Frames'
      BY <1>2, <2>1, <2>2, <2>3 DEF Phases, Frames, Top
  <2>7. (Trail /\ Failures /\ Success /\ Decided)'
      BY <2>1, <2>2 DEF Trail, Failures, Success, Decided
  <2> QED
      BY <1>3, <2>4, <2>5, <2>6, <2>7 DEF IInv
<1> QED
    BY <1>4, <1>5

LEMMA TallyKeeps ==
    ASSUME IInv, Tally
    PROVE  IInv'
<1>1. /\ InLoop /\ stack = <<>> /\ ret \in {"yes", "no"}
      /\ best' = (IF Better THEN PatternScore(Pattern) ELSE best)
      /\ k' = k + 1 /\ ret' = "idle"
      /\ q' = q /\ stack' = stack /\ memo' = memo
    BY DEF Tally
<1>2. PatternScore(Pattern) \in 1..6
    BY ScoreIsPositive
<1>3. TypeOK'
    BY <1>1, <1>2, Facts DEF IInv, TypeOK, InLoop
<1>4. (MemoSound /\ SolvedOnce /\ Phases /\ Frames /\ Trail /\ Failures
          /\ Success /\ Decided)'
    BY <1>1 DEF MemoSound, SolvedOnce, Phases, Frames, Trail, Failures, Success,
                Decided, Depth
<1>5. \A i : Grants(i)' <=> Grants(i)
    BY <1>1 DEF Grants, Covering, Caps!Covers
<1>6. Better => Grants(k)
    BY <1>1 DEF Better, IInv, Decided, Grants
<1>7. Grants(k) /\ best = 0 => Better
    BY <1>1, <1>2 DEF Better, IInv, Decided, Grants
<1>8. BestIsFound'
  <2>1. 1..k' - 1 = (1..k - 1) \cup {k}
      BY <1>1, Facts
  <2>2. best > 0 <=> \E i \in 1..k - 1 : Grants(i)
      BY DEF IInv, BestIsFound
  <2>3. best' > 0 <=> best > 0 \/ Better
      BY <1>1, <1>2, Facts
  <2>4. best' > 0 <=> \E i \in 1..k' - 1 : Grants(i)
    <3>1. best > 0 \/ Better <=> best > 0 \/ Grants(k)
        BY <1>6, <1>7, Facts
    <3>2. (\E i \in 1..k' - 1 : Grants(i))
             <=> (\E i \in 1..k - 1 : Grants(i)) \/ Grants(k)
        BY <2>1, Zenon
    <3> QED
        BY <2>2, <2>3, <3>1, <3>2
  <2> QED
      BY <1>5, <2>4 DEF BestIsFound
<1> QED
    BY <1>3, <1>4, <1>8 DEF IInv

(* A call that returns, with or without remembering.                         *)
LEMMA ReturnKeeps ==
    ASSUME IInv, PatternUsedUp \/ Remembered \/ Succeed \/ GiveUp
    PROVE  IInv'
<1>1. Depth > 0 /\ UNCHANGED <<q, k, best>> /\ stack' = SubSeq(stack, 1, Depth - 1)
    BY Facts DEF IInv, Phases, PatternUsedUp, Remembered, Succeed, GiveUp, Return
<1>2. /\ InLoop /\ Len(Pattern) \in Nat /\ Len(Target) \in Nat
      /\ Depth \in 1..Len(Pattern) + 1 /\ Top.j \in 1..Len(Target) + 1
    BY <1>1, TopFacts
<1>3. Pattern' = Pattern /\ Target' = Target
    BY <1>1, SameTexts
<1>4. BestIsFound'
    BY <1>1 DEF IInv, BestIsFound, Grants, Covering, Caps!Covers
<1>5. /\ stack' \in Seq([j : Nat, next : Nat]) /\ Depth - 1 \in Nat
      /\ Len(stack') = Depth - 1 /\ DOMAIN stack' = 1..Depth - 1
      /\ \A x \in 1..Depth - 1 : stack'[x] = stack[x]
    BY <1>1, PopFacts
<1>6. ASSUME NEW result \in BOOLEAN, Return(result), result <=> MeansAt(Depth, Top.j),
             \/ memo' = memo
             \/ Remember(result) /\ ret # "call" /\ Depth <= Len(Pattern)
      PROVE  IInv'
  <2>1. (Phases /\ Frames /\ Trail /\ Failures /\ Success /\ Decided)'
      BY <1>1, <1>6, PopKeeps
  <2>2. /\ MemoSound' /\ SolvedOnce'
        /\ DOMAIN memo' \subseteq Nat \X Nat
        /\ \A key \in DOMAIN memo' : memo'[key] \in BOOLEAN
    <3>1. CASE memo' = memo
      <4>1. MemoSound'
          BY <1>1, <1>3, <3>1, Facts DEF IInv, MemoSound
      <4>2. SolvedOnce'
        <5> SUFFICES ASSUME NEW x \in 1..Depth - 1
                     PROVE  Key(Pattern, Target, x, stack[x].j) \notin DOMAIN memo
            BY <1>3, <1>5, <3>1 DEF SolvedOnce
        <5>1. x \in DOMAIN stack /\ x < Depth
            BY Facts
        <5> QED
            BY <5>1 DEF IInv, SolvedOnce
      <4> QED
          BY <3>1, <4>1, <4>2 DEF IInv, TypeOK
    <3>2. CASE Remember(result) /\ ret # "call" /\ Depth <= Len(Pattern)
        BY <1>1, <1>6, <3>2, RememberKeeps
    <3> QED
        BY <1>6, <3>1, <3>2
  <2>3. TypeOK'
      BY <1>1, <1>5, <1>6, <2>2 DEF IInv, TypeOK, Return
  <2> QED
      BY <1>4, <2>1, <2>2, <2>3 DEF IInv
<1>7. CASE PatternUsedUp
  <2>1. Depth = Len(Pattern) + 1
      BY <1>2, <1>7 DEF PatternUsedUp
  <2>2. (Top.j > Len(Target)) <=> MeansAt(Depth, Top.j)
      BY <1>2, <2>1, MeansAtEnd DEF MeansAt
  <2>3. CASE MeansAt(Depth, Top.j)
    <3>1. Return(TRUE) /\ memo' = memo
        BY <1>7, <2>2, <2>3 DEF PatternUsedUp, Return
    <3> QED
        BY <1>6, <2>3, <3>1
  <2>4. CASE ~MeansAt(Depth, Top.j)
    <3>1. Return(FALSE) /\ memo' = memo
        BY <1>7, <2>2, <2>4 DEF PatternUsedUp, Return
    <3> QED
        BY <1>6, <2>4, <3>1
  <2> QED
      BY <2>3, <2>4
<1>8. CASE Remembered
  <2>1. Depth \in 1..Len(Pattern) /\ stack # <<>> /\ TopKey \in DOMAIN memo
      BY <1>1, <1>2, <1>8, Facts DEF Remembered
  <2>2. memo[TopKey] <=> MeansAt(Depth, Top.j)
      BY <1>2, <2>1 DEF IInv, MemoSound, MeansAt, TopKey
  <2>3. memo[TopKey] \in BOOLEAN
      BY <2>1 DEF IInv, TypeOK
  <2> QED
      BY <1>6, <1>8, <2>2, <2>3 DEF Remembered
<1>9. CASE Succeed
  <2>1. MeansAt(Depth, Top.j) /\ Depth <= Len(Pattern) /\ ret # "call"
      BY <1>9, <1>1, Facts DEF IInv, Success, Phases, Succeed
  <2> QED
      BY <1>6, <1>9, <2>1 DEF Succeed
<1>10. CASE GiveUp
  <2>1. Depth \in 1..Len(Pattern) /\ ret = "no" /\ stack # <<>>
      BY <1>10, <1>1, <1>2, Facts DEF IInv, Phases, GiveUp
  <2>2. Top.next > Top.j /\ Top.next \in Nat
      BY <1>1, TopFacts
  <2>3. ASSUME NEW c \in SplitsAt(Depth) PROVE ~MeansAt(Depth + 1, c)
    <3>1. c \in 1..Len(Target) + 1
        BY <1>2, SplitsInside DEF SplitsAt, Top
    <3>2. c < Top.next
      <4>1. SUFFICES ASSUME Top.next \in Top.j + 1..c PROVE FALSE
          BY <1>2, <2>2, <3>1
      <4>2. Top.next \in SplitsAt(Depth)
          BY <1>2, <4>1, SplitsContiguous DEF SplitsAt, Top
      <4> QED
          BY <1>10, <4>2 DEF GiveUp, SplitsAt, Top
    <3> QED
        BY <2>1, <3>2 DEF IInv, Failures
  <2>4. ~MeansAt(Depth, Top.j)
      BY <1>2, <2>1, <2>3, MeansStep DEF MeansAt, SplitsAt, Top
  <2>5. Return(FALSE) /\ Remember(FALSE)
      BY <1>10, Zenon DEF GiveUp
  <2>6. ret # "call" /\ Depth <= Len(Pattern)
      BY <1>2, <2>1
  <2> QED
      BY <1>6, <2>4, <2>5, <2>6
<1> QED
    BY <1>7, <1>8, <1>9, <1>10

LEMMA SolveKeeps ==
    ASSUME IInv, Solve
    PROVE  IInv'
<1>1. /\ ret = "call" /\ Depth <= Len(Pattern) /\ TopKey \notin DOMAIN memo
      /\ ret' = "no" /\ UNCHANGED <<q, k, best, stack, memo>>
    BY DEF Solve
<1>2. /\ stack # <<>> /\ Depth > 0 /\ Top.next = Top.j + 1 /\ InLoop
    BY <1>1, Facts DEF IInv, Phases
<1>3. /\ Pattern' = Pattern /\ Target' = Target /\ InLoop'
      /\ Depth' = Depth /\ Top' = Top /\ \A x : SplitsAt(x)' = SplitsAt(x)
    BY <1>1, <1>2, SameTexts DEF Depth, Top, SplitsAt
<1>4. TypeOK' /\ MemoSound' /\ BestIsFound'
    BY <1>1, <1>3
    DEF IInv, TypeOK, MemoSound, BestIsFound, Grants, Covering, Caps!Covers
<1>5. SolvedOnce'
  <2> SUFFICES ASSUME NEW x \in DOMAIN stack
               PROVE  Key(Pattern, Target, x, stack[x].j) \notin DOMAIN memo
      BY <1>1, <1>3 DEF SolvedOnce
  <2>1. CASE x < Depth
      BY <2>1 DEF IInv, SolvedOnce
  <2>2. CASE x = Depth
      BY <1>1, <2>2 DEF TopKey, Top
  <2> QED
      BY <2>1, <2>2, Facts
<1>6. Phases' /\ Success' /\ Decided'
    BY <1>1, <1>2, <1>3 DEF IInv, Phases, Success, Decided
<1>7. Frames' /\ Trail'
    BY <1>1, <1>3 DEF IInv, Frames, Trail, MeansAt
<1>8. Failures'
  <2> SUFFICES ASSUME NEW c \in SplitsAt(Depth), c < Top.next
               PROVE  FALSE
      BY <1>3 DEF Failures
  <2>1. c \in 1..Len(Target) + 1 /\ c >= Top.j + 1
      BY <1>2, TopFacts, SplitsInside DEF SplitsAt, Top
  <2> QED
      BY <1>2, <2>1, TopFacts
<1> QED
    BY <1>4, <1>5, <1>6, <1>7, <1>8 DEF IInv

(* The stack with the call of the next attempt on top. *)
LEMMA PushFacts ==
    ASSUME IInv, Attempt
    PROVE  /\ stack' \in Seq([j : Nat, next : Nat]) /\ Len(stack') = Depth + 1
           /\ DOMAIN stack' = 1..Depth + 1 /\ Depth' = Depth + 1 /\ stack' # <<>>
           /\ \A x \in 1..Depth - 1 : stack'[x] = stack[x]
           /\ stack'[Depth].j = Top.j /\ stack'[Depth].next = Top.next + 1
           /\ stack'[Depth + 1] = [j |-> Top.next, next |-> Top.next + 1]
           /\ stack'[Depth + 1].next = Top.next + 1
           /\ Top' = [j |-> Top.next, next |-> Top.next + 1]
<1> DEFINE Frame == [j : Nat, next : Nat]
           call == [j |-> Top.next, next |-> Top.next + 1]
<1>0. stack' = Append([stack EXCEPT ![Depth].next = @ + 1], call)
    BY DEF Attempt
<1>1. /\ Depth > 0 /\ Top.next \in Nat
      /\ stack \in Seq(Frame) /\ Depth = Len(stack) /\ Depth \in Nat
    BY Facts, TopFacts DEF Attempt
<1> PICK d \in 1..Len(stack) : d = Depth
    BY <1>1
<1> DEFINE base == [stack EXCEPT ![d].next = @ + 1]
<1>2. stack[d] \in Frame /\ Top = stack[d]
    BY <1>1, ElementOfSeq DEF Top
<1>3. /\ base \in Seq(Frame) /\ Len(base) = d
      /\ \A x \in 1..d - 1 : base[x] = stack[x]
      /\ base[d].j = Top.j /\ base[d].next = Top.next + 1
    BY <1>1, <1>2
<1>4. call \in Frame /\ stack' = Append(base, call) /\ call.next = Top.next + 1
    BY <1>0, <1>1
<1> HIDE DEF base, call, Frame
<1>5. /\ stack' \in Seq(Frame) /\ Len(stack') = d + 1
      /\ DOMAIN stack' = 1..d + 1
      /\ \A x \in 1..d : stack'[x] = base[x]
      /\ stack'[d + 1] = call
    BY <1>3, <1>4
<1>6. Depth' = d + 1 /\ stack' # <<>> /\ Top' = call
    BY <1>5 DEF Depth, Top
<1> QED
    BY <1>3, <1>4, <1>5, <1>6 DEF call, Frame

LEMMA AttemptKeeps ==
    ASSUME IInv, Attempt
    PROVE  IInv'
<1> DEFINE Frame == [j : Nat, next : Nat]
           call == [j |-> Top.next, next |-> Top.next + 1]
<1>1. /\ Depth > 0 /\ ret = "no" /\ ret' = "call"
      /\ Top.next \in SplitsAt(Depth)
      /\ stack' = Append([stack EXCEPT ![Depth].next = @ + 1], call)
      /\ UNCHANGED <<q, k, best, memo>>
    BY DEF Attempt, SplitsAt, Top
<1>2. /\ stack # <<>> /\ InLoop /\ ~SchemeWildcard(Pattern) /\ stack[1].j = 1
      /\ Depth <= Len(Pattern) /\ stack \in Seq(Frame)
      /\ Depth = Len(stack) /\ Depth \in Nat
    BY <1>1, Facts DEF IInv, Phases
<1>3. /\ Len(Pattern) \in Nat /\ Len(Target) \in Nat
      /\ Top.j \in 1..Len(Target) + 1
      /\ Top.next \in 1..Len(Target) + 1 /\ Top.next >= Top.j + 1
  <2>1. /\ Len(Pattern) \in Nat /\ Len(Target) \in Nat
        /\ Top.j \in 1..Len(Target) + 1
      BY <1>1, TopFacts
  <2> QED
      BY <1>1, <2>1, SplitsInside DEF SplitsAt, Top
<1>4. /\ Pattern' = Pattern /\ Target' = Target /\ InLoop'
    BY <1>1, <1>2, SameTexts
<1>5. /\ stack' \in Seq(Frame) /\ Len(stack') = Depth + 1
      /\ DOMAIN stack' = 1..Depth + 1 /\ Depth' = Depth + 1 /\ stack' # <<>>
      /\ \A x \in 1..Depth - 1 : stack'[x] = stack[x]
      /\ stack'[Depth].j = Top.j /\ stack'[Depth].next = Top.next + 1
      /\ stack'[Depth + 1] = call
      /\ Top' = call
    BY PushFacts
<1>6. TypeOK' /\ MemoSound' /\ BestIsFound'
    BY <1>1, <1>2, <1>4, <1>5
    DEF IInv, TypeOK, MemoSound, BestIsFound, Grants, Covering, Caps!Covers
<1>7. \A x \in 1..Depth : stack'[x].j = stack[x].j
  <2> SUFFICES ASSUME NEW x \in 1..Depth PROVE stack'[x].j = stack[x].j
      OBVIOUS
  <2>1. CASE x = Depth
      BY <1>5, <2>1, Zenon DEF Top
  <2>2. CASE x # Depth
    <3>1. x \in 1..Depth - 1
        BY <1>2, <2>2
    <3> QED
        BY <1>5, <3>1
  <2> QED
      BY <2>1, <2>2
<1>8. SolvedOnce'
  <2> SUFFICES ASSUME NEW x \in 1..Depth
               PROVE  Key(Pattern, Target, x, stack[x].j) \notin DOMAIN memo
      BY <1>1, <1>2, <1>4, <1>5, <1>7 DEF SolvedOnce
  <2>1. x \in DOMAIN stack
      BY <1>2
  <2> QED
      BY <1>1, <2>1 DEF IInv, SolvedOnce
<1>9. Phases' /\ Failures' /\ Success' /\ Decided'
    BY <1>1, <1>2, <1>3, <1>4, <1>5, <1>7
    DEF Phases, Failures, Success, Decided
<1>10. Frames'
  <2> SUFFICES ASSUME NEW x \in 1..Depth + 1
               PROVE  /\ x <= Len(Pattern) + 1
                      /\ stack'[x].j \in 1..Len(Target) + 1
                      /\ stack'[x].next > stack'[x].j
      BY <1>4, <1>5 DEF Frames
  <2>1. CASE x \in 1..Depth - 1
    <3>1. x \in 1..Depth /\ stack'[x] = stack[x]
        BY <1>2, <1>5, <2>1
    <3> QED
        BY <3>1 DEF IInv, Frames
  <2>2. CASE x = Depth
    <3>1. stack'[x].j = Top.j /\ stack'[x].next = Top.next + 1
        BY <1>5, <2>2, Zenon
    <3> QED
        BY <1>2, <1>3, <2>2, <3>1, SMTT(20)
  <2>3. CASE x = Depth + 1
    <3>1. stack'[x] = call
        BY <1>5, <2>3, Zenon
    <3> QED
        BY <1>2, <1>3, <2>3, <3>1
  <2>4. x \in 1..Depth - 1 \/ x = Depth \/ x = Depth + 1
      BY <1>2
  <2> QED
      BY <2>1, <2>2, <2>3, <2>4
<1>11. Trail'
  <2> SUFFICES ASSUME NEW x \in 1..Depth
               PROVE  /\ x <= Len(Pattern)
                      /\ stack'[x + 1].j = stack'[x].next - 1
                      /\ stack'[x + 1].j \in SplitsAt(x)
                      /\ \A c \in SplitsAt(x) :
                            c < stack'[x + 1].j => ~MeansAt(x + 1, c)
      BY <1>2, <1>4, <1>5, <1>7 DEF Trail, SplitsAt, MeansAt
  <2>1. CASE x \in 1..Depth - 1
    <3>1. x + 1 \in 1..Depth /\ stack'[x] = stack[x]
        BY <1>2, <1>5, <2>1
    <3>2. stack'[x + 1].j = stack[x + 1].j
        BY <1>7, <3>1
    <3> QED
        BY <2>1, <3>1, <3>2 DEF IInv, Trail
  <2>2. CASE x = Depth
    <3>0. stack'[x + 1] = call /\ stack'[x].next = Top.next + 1
        BY <1>5, <2>2, Zenon
    <3>1. stack'[x + 1].j = Top.next /\ stack'[x].next = Top.next + 1
        BY <3>0
    <3>2. \A c \in SplitsAt(Depth) : c < Top.next => ~MeansAt(Depth + 1, c)
        BY <1>1, <1>2 DEF IInv, Failures
    <3>3. (Top.next + 1) - 1 = Top.next
        BY <1>3
    <3> QED
        BY <1>1, <1>2, <2>2, <3>1, <3>2, <3>3, Zenon
  <2> QED
      BY <1>2, <2>1, <2>2
<1> QED
    BY <1>6, <1>8, <1>9, <1>10, <1>11 DEF IInv

-----------------------------------------------------------------------------
LEMMA InitEstablishes == Init => IInv
<1> SUFFICES ASSUME Init PROVE IInv
    OBVIOUS
<1>1. /\ q \in Questions /\ k = 1 /\ best = 0
      /\ stack = <<>> /\ memo = <<>> /\ ret = "idle"
    BY DEF Init
<1>2. Len(q.list) \in Nat
    BY <1>1, TextLengths
<1>3. TypeOK /\ MemoSound /\ SolvedOnce /\ BestIsFound
    BY <1>1, <1>2 DEF TypeOK, MemoSound, SolvedOnce, BestIsFound
<1>4. Phases /\ Frames /\ Trail /\ Failures /\ Success /\ Decided
    BY <1>1 DEF Phases, Frames, Trail, Failures, Success, Decided, Depth
<1> QED
    BY <1>3, <1>4 DEF IInv

LEMMA StepKeeps == IInv /\ [Next]_vars => IInv'
<1> SUFFICES ASSUME IInv, [Next]_vars PROVE IInv'
    OBVIOUS
<1>1. CASE SchemeLevel \/ CallFirst
    BY <1>1, StartKeeps
<1>2. CASE PatternUsedUp \/ Remembered \/ Succeed \/ GiveUp
    BY <1>2, ReturnKeeps
<1>3. CASE Solve
    BY <1>3, SolveKeeps
<1>4. CASE Attempt
    BY <1>4, AttemptKeeps
<1>5. CASE Tally
    BY <1>5, TallyKeeps
<1>6. CASE UNCHANGED vars
    BY <1>6
    DEF vars, IInv, TypeOK, MemoSound, SolvedOnce, Phases, Frames, Trail,
        Failures, Success, Decided, BestIsFound, Grants, Covering, Caps!Covers,
        MeansAt, SplitsAt, Pattern, Target, Top, Depth, InLoop
<1> QED
    BY <1>1, <1>2, <1>3, <1>4, <1>5, <1>6 DEF Next

LEMMA Inductive == Spec => []IInv
BY InitEstablishes, StepKeeps, PTL DEF Spec

(* The machine stays within its types, for lists and texts of any length.    *)
THEOREM TypeCorrect == Spec => []TypeOK
<1>1. IInv => TypeOK
    BY DEF IInv
<1> QED
    BY <1>1, Inductive, PTL

(* Within the matcher, the tokens that meet are tokens of texts.             *)
THEOREM TokensAreMeanings == Spec => []TokensMean
<1>1. ASSUME IInv PROVE TokensMean
  <2> SUFFICES ASSUME stack # <<>>, Depth <= Len(Pattern), Top.j <= Len(Target)
               PROVE  MatchToken(Pattern[Depth], Target[Top.j])
                          <=> TokenMeans(Pattern[Depth], Target[Top.j])
      BY DEF TokensMean
  <2>1. InLoop /\ Depth \in Nat \ {0} /\ Top.j \in 1..Len(Target) + 1
      BY <1>1 DEF IInv, TypeOK, Phases, Frames, Depth, Top
  <2>2. IsText(Pattern) /\ IsText(Target)
      BY <1>1, <2>1, TextsAreTexts DEF IInv
  <2>3. Depth \in DOMAIN Pattern /\ Top.j \in DOMAIN Target
    <3>1. /\ Len(Pattern) \in Nat /\ DOMAIN Pattern = 1..Len(Pattern)
          /\ Len(Target) \in Nat /\ DOMAIN Target = 1..Len(Target)
        BY <2>2, ListFacts DEF IsText
    <3> QED
        BY <2>1, <3>1
  <2>4. IsToken(Pattern[Depth]) /\ IsToken(Target[Top.j])
      BY <2>2, <2>3 DEF IsText
  <2> QED
      BY <2>4, TokenMatchIsMeaning DEF IsToken
<1> QED
    BY <1>1, Inductive, PTL

(* The lengths that remain determine the outcome, as capmatch.go:69-73 says: *)
(* a remembered result is right for whichever call asks for it.              *)
THEOREM MemoIsSound == Spec => []MemoSound
<1>1. IInv => MemoSound
    BY DEF IInv
<1> QED
    BY <1>1, Inductive, PTL

(* No pair of positions is solved twice in a match (capmatch.go:72).         *)
THEOREM EachPairSolvedOnce == Spec => []SolvedOnce
<1>1. IInv => SolvedOnce
    BY DEF IInv
<1> QED
    BY <1>1, Inductive, PTL

(* MatchCapabilities and CapabilitySubset answer what the patterns mean, for *)
(* every list, pattern and target (capmatch.go:230-240, 337-352).            *)
LEMMA AnswerOfLoop ==
    IInv /\ ~InLoop =>
        (best > 0 <=> IF q.mode = "match"
                      THEN Caps!MatchCapabilities(q.list, q.req)
                      ELSE Caps!CapabilitySubset(q.req, q.list))
<1>1. ASSUME IInv, ~InLoop PROVE
          best > 0 <=> IF q.mode = "match"
                       THEN Caps!MatchCapabilities(q.list, q.req)
                       ELSE Caps!CapabilitySubset(q.req, q.list)
  <2>1. q.mode \in {"match", "subset"} /\ DOMAIN q.list = 1..Len(q.list)
      BY <1>1, Facts, QuestionsAssumption, TextLengths
  <2>2. 1..k - 1 = DOMAIN q.list
      BY <1>1, <2>1, Facts DEF InLoop
  <2>3. best > 0 <=> \E i \in DOMAIN q.list : Grants(i)
      BY <1>1, <2>2 DEF IInv, BestIsFound
  <2>4. CASE q.mode = "match"
      BY <2>3, <2>4 DEF Grants, Covering, Caps!MatchCapabilities
  <2>5. CASE q.mode = "subset"
      BY <2>3, <2>5 DEF Grants, Covering, Caps!CapabilitySubset
  <2> QED
      BY <2>1, <2>4, <2>5
<1> QED
    BY <1>1

(* In particular for lists of the draft's form.                              *)
THEOREM AnswersAreMeanings == Spec => []AnswerIsMeaning
<1>1. IInv => AnswerIsMeaning
    BY AnswerOfLoop DEF AnswerIsMeaning
<1> QED
    BY <1>1, Inductive, PTL

-----------------------------------------------------------------------------
(* The matcher's work is bounded by the lengths of the texts.                *)

(* The stack is no deeper than the pattern is long, no attempt is beyond the *)
(* target, and the memo has at most one entry for each pair of lengths that  *)
(* may remain: "memoization bounds the worst case to O(len(p)*len(t))"       *)
(* (capmatch.go:72).                                                         *)
WithinLengths ==
    stack # <<>> =>
        /\ Depth <= Len(Pattern) + 1
        /\ \A x \in 1..Depth : stack[x].next <= Len(Target) + 2
        /\ DOMAIN memo \subseteq (1..Len(Pattern)) \X (0..Len(Target))

LEMMA WithinLengthsStep ==
    ASSUME IInv, WithinLengths, [Next]_vars
    PROVE  WithinLengths'
<1>1. CASE SchemeLevel \/ Tally
    BY <1>1 DEF IInv, Phases, SchemeLevel, Tally, WithinLengths
<1>2. CASE CallFirst
  <2>1. /\ stack' = <<[j |-> 1, next |-> 2]>> /\ memo' = <<>>
        /\ Pattern' = Pattern /\ Target' = Target
        /\ Len(Pattern) \in Nat /\ Len(Target) \in Nat
      BY <1>2, Facts, SameTexts DEF CallFirst
  <2>2. Depth' = 1 /\ stack'[1].next = 2 /\ DOMAIN memo' = {}
      BY <2>1 DEF Depth
  <2> QED
      BY <2>1, <2>2 DEF WithinLengths
<1>3. CASE PatternUsedUp \/ Remembered \/ Succeed \/ GiveUp
  <2>1. /\ Depth > 0 /\ UNCHANGED <<q, k>>
        /\ stack' = SubSeq(stack, 1, Depth - 1)
      BY <1>3, Facts DEF IInv, Phases, PatternUsedUp, Remembered, Succeed, GiveUp,
                         Return
  <2>2. /\ Len(stack') = Depth - 1 /\ Depth - 1 \in Nat
        /\ \A x \in 1..Depth - 1 : stack'[x] = stack[x]
      BY <2>1, PopFacts
  <2>3. /\ Pattern' = Pattern /\ Target' = Target
        /\ Len(Pattern) \in Nat /\ Len(Target) \in Nat
        /\ Depth \in 1..Len(Pattern) + 1 /\ Top.j \in 1..Len(Target) + 1
      BY <2>1, SameTexts, TopFacts
  <2>4. DOMAIN memo' \subseteq (1..Len(Pattern)) \X (0..Len(Target))
    <3>1. DOMAIN memo \subseteq (1..Len(Pattern)) \X (0..Len(Target))
        BY <2>1, Facts DEF WithinLengths
    <3>2. CASE memo' = memo
        BY <3>1, <3>2
    <3>3. CASE Succeed \/ GiveUp
      <4>1. DOMAIN memo' = DOMAIN memo \cup {TopKey}
          BY <3>3 DEF Succeed, GiveUp, Remember
      <4>2. Depth <= Len(Pattern)
          BY <2>1, <3>3, Facts DEF IInv, Phases, Succeed, GiveUp
      <4>3. TopKey \in (1..Len(Pattern)) \X (0..Len(Target))
          BY <2>3, <4>2 DEF TopKey, Key
      <4> QED
          BY <3>1, <4>1, <4>3
    <3> QED
        BY <1>3, <3>2, <3>3 DEF PatternUsedUp, Remembered
  <2>5. \A x \in 1..Depth : stack[x].next <= Len(Target) + 2
      BY <2>1, Facts DEF WithinLengths
  <2>6. Depth' = Depth - 1
      BY <2>2 DEF Depth
  <2>7. \A x \in 1..Depth' : stack'[x].next <= Len(Target') + 2
      BY <2>2, <2>3, <2>5, <2>6
  <2> QED
      BY <2>3, <2>4, <2>6, <2>7 DEF WithinLengths
<1>4. CASE Solve \/ UNCHANGED vars
  <2>1. UNCHANGED <<q, k, stack, memo>>
      BY <1>4 DEF Solve, vars
  <2> QED
      BY <2>1, SameTexts DEF WithinLengths, Depth
<1>5. CASE Attempt
  <2>1. /\ Depth > 0 /\ memo' = memo
        /\ Pattern' = Pattern /\ Target' = Target
        /\ Len(Pattern) \in Nat /\ Len(Target) \in Nat /\ Depth \in Nat
        /\ stack # <<>>
      BY <1>5, TopFacts, SameTexts, Facts DEF Attempt
  <2>2. Depth <= Len(Pattern)
      BY <1>5, <2>1 DEF IInv, Phases, Attempt
  <2>3. Top.next \in 1..Len(Target) + 1
      BY <1>5, <2>1, TopFacts, SplitsInside DEF Attempt
  <2>4. /\ Depth' = Depth + 1
        /\ \A x \in 1..Depth - 1 : stack'[x] = stack[x]
        /\ stack'[Depth].next = Top.next + 1
        /\ stack'[Depth + 1].next = Top.next + 1
      BY <1>5, PushFacts
  <2>5. ASSUME NEW x \in 1..Depth + 1 PROVE stack'[x].next <= Len(Target) + 2
    <3>1. CASE x \in 1..Depth - 1
      <4>1. x \in 1..Depth /\ stack'[x] = stack[x]
          BY <2>1, <2>4, <3>1
      <4> QED
          BY <2>1, <4>1 DEF WithinLengths
    <3>2. CASE x \in {Depth, Depth + 1}
      <4>1. stack'[x].next = Top.next + 1
          BY <2>4, <3>2
      <4> QED
          BY <2>1, <2>3, <4>1
    <3> QED
        BY <2>1, <3>1, <3>2
  <2> QED
      BY <2>1, <2>2, <2>4, <2>5 DEF WithinLengths
<1> QED
    BY <1>1, <1>2, <1>3, <1>4, <1>5 DEF Next

(* The recursion stays within the lengths, for texts of any length. *)
THEOREM WorkWithinLengths == Spec => []WithinLengths
<1>1. Init => WithinLengths
    BY DEF Init, WithinLengths
<1>2. IInv /\ WithinLengths /\ [Next]_vars => WithinLengths'
    BY WithinLengthsStep
<1> QED
    BY <1>1, <1>2, Inductive, PTL DEF Spec

(* How far the recursion is: the attempts of the call x that are over; the   *)
(* last one of a call below the top still goes on.                           *)
TriedUpTo(x) == IF x < Depth THEN stack[x].next - 1 ELSE stack[x].next

(* The search goes on where it was: the first calls are as far as they were, *)
(* and the next one is further, or new; or the first call returned.          *)
SearchAdvances ==
    \/ stack # <<>> /\ stack' = <<>>
    \/ \E x \in 1..Depth' :
          /\ \A y \in 1..x - 1 : TriedUpTo(y)' = TriedUpTo(y)
          /\ x <= Depth => TriedUpTo(x)' > TriedUpTo(x)

(* Every step brings the answer nearer: it goes to the next capability, or   *)
(* remembers a result that was not known, or advances the search, or begins  *)
(* a pattern or its attempts.  With WithinLengths no order of capabilities   *)
(* and no text keeps the matcher busy for ever (capmatch.go:74-104).         *)
MatcherAdvances ==
    [][/\ k' \in {k, k + 1}
       /\ k' = k =>
             \/ ret = "idle" /\ ret' # "idle"
             \/ /\ ret # "idle" /\ ret' # "idle"
                /\ DOMAIN memo \subseteq DOMAIN memo'
                /\ \/ DOMAIN memo # DOMAIN memo'
                   \/ SearchAdvances
                   \/ stack' = stack /\ ret = "call" /\ ret' = "no"]_vars

LEMMA PopAdvances ==
    ASSUME IInv, PatternUsedUp \/ Remembered
    PROVE  SearchAdvances
<1>1. Depth > 0 /\ stack' = SubSeq(stack, 1, Depth - 1)
    BY Facts DEF IInv, Phases, PatternUsedUp, Remembered, Return
<1>2. /\ Len(stack') = Depth - 1 /\ Depth - 1 \in Nat
      /\ stack' \in Seq([j : Nat, next : Nat])
      /\ \A x \in 1..Depth - 1 : stack'[x] = stack[x]
    BY <1>1, PopFacts
<1>3. Depth' = Depth - 1
    BY <1>2 DEF Depth
<1>4. stack # <<>>
    BY <1>1, Facts
<1>5. CASE Depth = 1
  <2>1. stack' = <<>>
      BY <1>2, <1>5
  <2> QED
      BY <1>4, <2>1 DEF SearchAdvances
<1>6. CASE Depth # 1
  <2>1. /\ stack \in Seq([j : Nat, next : Nat]) /\ Depth = Len(stack)
        /\ Depth \in Nat
      BY Facts
  <2>2. PICK d \in Nat : d = Depth - 1
      BY <1>2
  <2>3. /\ d \in 1..d /\ Depth = d + 1 /\ Depth' = d
      BY <1>1, <1>3, <1>6, <2>1, <2>2
  <2>4. stack[d].next \in Nat
    <3>1. d \in 1..Len(stack)
        BY <2>1, <2>3
    <3>2. stack[d] \in [j : Nat, next : Nat]
        BY <2>1, <3>1, ElementOfSeq
    <3> QED
        BY <3>2
  <2>5. \A y \in 1..d - 1 : TriedUpTo(y)' = TriedUpTo(y)
    <3>1. \A y \in 1..d - 1 : /\ y < Depth /\ y < Depth'
                               /\ stack'[y] = stack[y]
        BY <1>2, <2>3, SMTT(30)
    <3> QED
        BY <3>1 DEF TriedUpTo
  <2>6. TriedUpTo(d)' > TriedUpTo(d)
    <3>1. TriedUpTo(d) = stack[d].next - 1
        BY <2>3 DEF TriedUpTo
    <3>2. TriedUpTo(d)' = stack'[d].next
        BY <2>3 DEF TriedUpTo
    <3>3. stack'[d] = stack[d]
        BY <1>2, <2>3
    <3> QED
        BY <2>4, <3>1, <3>2, <3>3
  <2> QED
      BY <2>3, <2>5, <2>6 DEF SearchAdvances
<1> QED
    BY <1>5, <1>6

LEMMA AttemptAdvances ==
    ASSUME IInv, Attempt
    PROVE  SearchAdvances
<1>1. /\ Depth > 0 /\ Depth \in Nat /\ Top.next \in Nat
      /\ Top = stack[Depth]
    BY Facts, TopFacts DEF Attempt, Top
<1>2. /\ Depth' = Depth + 1
      /\ \A x \in 1..Depth - 1 : stack'[x] = stack[x]
      /\ stack'[Depth].next = Top.next + 1
    BY PushFacts
<1>3. ASSUME NEW y \in 1..Depth PROVE TriedUpTo(y)' = TriedUpTo(y)
  <2>1. CASE y \in 1..Depth - 1
    <3>1. stack'[y] = stack[y] /\ y < Depth /\ y < Depth'
        BY <1>1, <1>2, <2>1
    <3> QED
        BY <3>1 DEF TriedUpTo
  <2>2. CASE y = Depth
    <3>1. TriedUpTo(y) = Top.next
        BY <1>1, <2>2 DEF TriedUpTo
    <3>2. TriedUpTo(y)' = (Top.next + 1) - 1
        BY <1>1, <1>2, <2>2 DEF TriedUpTo
    <3> QED
        BY <1>1, <3>1, <3>2
  <2> QED
      BY <1>1, <2>1, <2>2
<1>4. /\ Depth + 1 \in 1..Depth' /\ ~(Depth + 1 <= Depth)
      /\ (Depth + 1) - 1 = Depth
    BY <1>1, <1>2
<1> QED
    BY <1>3, <1>4 DEF SearchAdvances

(* Every step of either function brings the answer nearer. *)
THEOREM MatcherEnds == Spec => MatcherAdvances
<1> DEFINE Step == /\ k' \in {k, k + 1}
                   /\ k' = k =>
                         \/ ret = "idle" /\ ret' # "idle"
                         \/ /\ ret # "idle" /\ ret' # "idle"
                            /\ DOMAIN memo \subseteq DOMAIN memo'
                            /\ \/ DOMAIN memo # DOMAIN memo'
                               \/ SearchAdvances
                               \/ stack' = stack /\ ret = "call" /\ ret' = "no"
<1>1. ASSUME IInv, Next PROVE Step
  <2>1. CASE SchemeLevel \/ CallFirst
      BY <2>1 DEF SchemeLevel, CallFirst
  <2>2. CASE PatternUsedUp \/ Remembered
    <3>1. /\ UNCHANGED <<k, memo>> /\ ret = "call" /\ ret' \in {"yes", "no"}
        BY <2>2 DEF PatternUsedUp, Remembered, Return
    <3>2. SearchAdvances
        BY <1>1, <2>2, PopAdvances
    <3> QED
        BY <3>1, <3>2
  <2>3. CASE Solve
      BY <2>3 DEF Solve
  <2>4. CASE Attempt
    <3>1. UNCHANGED <<k, memo>> /\ ret = "no" /\ ret' = "call"
        BY <2>4 DEF Attempt
    <3>2. SearchAdvances
        BY <1>1, <2>4, AttemptAdvances
    <3> QED
        BY <3>1, <3>2
  <2>5. CASE Succeed \/ GiveUp
    <3>1. /\ k' = k /\ ret \in {"yes", "no"} /\ ret' \in {"yes", "no"}
          /\ DOMAIN memo' = DOMAIN memo \cup {TopKey}
        BY <2>5 DEF Succeed, GiveUp, Remember, Return
    <3>2. TopKey \notin DOMAIN memo
      <4>1. Depth \in DOMAIN stack
        <5>1. Depth > 0
            BY <2>5 DEF Succeed, GiveUp
        <5> QED
            BY <1>1, <5>1, Facts
      <4> QED
          BY <1>1, <3>1, <4>1 DEF IInv, SolvedOnce, TopKey, Top
    <3> QED
        BY <3>1, <3>2
  <2>6. CASE Tally
    <3>1. k' = k + 1 /\ k \in Nat
        BY <1>1, <2>6, Facts DEF Tally
    <3> QED
        BY <3>1
  <2> QED
      BY <1>1, <2>1, <2>2, <2>3, <2>4, <2>5, <2>6 DEF Next
<1>2. IInv /\ [Next]_vars => [Step]_vars
    BY <1>1
<1> QED
    BY <1>2, Inductive, PTL DEF Spec, MatcherAdvances

-----------------------------------------------------------------------------
(* Patterns without '*', alternation or class.                               *)

LiteralToken(p) == \A x \in DOMAIN p : p[x][1] = "lit"

Literal(text) == \A x \in DOMAIN text : LiteralToken(text[x])

LEMMA LiteralTokenMeansItself ==
    ASSUME NEW p, NEW t, IsToken(p), IsToken(t), LiteralToken(p)
    PROVE  TokenMeans(p, t) <=> p = t
<1>1. /\ Len(p) \in Nat /\ DOMAIN p = 1..Len(p)
      /\ Len(t) \in Nat /\ DOMAIN t = 1..Len(t)
    BY TokenFacts
<1>2. \A x \in 1..Len(p) : \A from, to :
          ItemSpans(p[x], t, from, to) <=> to = from + 1 /\ t[from] = p[x]
    BY <1>1 DEF ItemSpans, LiteralToken
<1>3. \A x \in 1..Len(p) : \A from, to \in 1..Len(t) + 1 :
          <<x, from, to>> \in ItemParts(p, t) => to = from + 1
    BY <1>2 DEF ItemParts
<1>4. ItemsMean(p, t, 1, 1)
         <=> /\ Len(p) = Len(t)
             /\ \A x \in 1..Len(p) : <<x, x, x + 1>> \in ItemParts(p, t)
    BY <1>1, <1>3, SingleCuts DEF ItemsMean
<1>5. Len(p) = Len(t) =>
          \A x \in 1..Len(p) : <<x, x, x + 1>> \in ItemParts(p, t) <=> t[x] = p[x]
    BY <1>1, <1>2 DEF ItemParts
<1>6. Len(p) = Len(t) /\ (\A x \in 1..Len(p) : p[x] = t[x]) => p = t
    BY SameSequence DEF IsToken, IsList
<1>7. ItemsMean(p, t, 1, 1) <=> p = t
    BY <1>4, <1>5, <1>6
<1> QED
    BY <1>7, TokenMeansIsItemsMean DEF IsToken

LEMMA LiteralMeansItself ==
    ASSUME NEW p, NEW t, IsText(p), IsText(t), Literal(p)
    PROVE  Means(p, t, 1, 1) <=> p = t
<1>1. /\ Len(p) \in Nat /\ DOMAIN p = 1..Len(p)
      /\ Len(t) \in Nat /\ DOMAIN t = 1..Len(t)
    BY ListFacts DEF IsText
<1>2. \A x \in 1..Len(p) : p[x] # Star /\ p[x] # DoubleStar
    BY <1>1 DEF Literal, LiteralToken, Star, DoubleStar
<1>3. \A x \in 1..Len(p) : \A from, to :
          TokenSpans(p[x], t, from, to)
              <=> /\ to = from + 1 /\ from <= Len(t)
                  /\ MatchToken(p[x], t[from])
    BY <1>2 DEF TokenSpans
<1>4. \A x \in 1..Len(p) : \A y \in 1..Len(t) :
          MatchToken(p[x], t[y]) <=> p[x] = t[y]
  <2>1. ASSUME NEW x \in 1..Len(p), NEW y \in 1..Len(t)
        PROVE  MatchToken(p[x], t[y]) <=> p[x] = t[y]
    <3>1. IsToken(p[x]) /\ IsToken(t[y]) /\ LiteralToken(p[x])
        BY <1>1 DEF IsText, Literal
    <3>2. MatchToken(p[x], t[y]) <=> TokenMeans(p[x], t[y])
        BY <3>1, TokenMatchIsMeaning DEF IsToken
    <3> QED
        BY <3>1, <3>2, LiteralTokenMeansItself
  <2> QED
      BY <2>1
<1>5. \A x \in 1..Len(p) : \A from, to \in 1..Len(t) + 1 :
          <<x, from, to>> \in Spans(p, t) => to = from + 1
    BY <1>3 DEF Spans
<1>6. 1 \in 1..Len(p) + 1 /\ 1 \in 1..Len(t) + 1
    BY <1>1
<1>7. Means(p, t, 1, 1) <=> Cuts(Spans(p, t), Len(p), Len(t), 1, 1)
    BY <1>1, <1>6, MeansIsCuts
<1>8. Cuts(Spans(p, t), Len(p), Len(t), 1, 1)
         <=> /\ Len(p) = Len(t)
             /\ \A x \in 1..Len(p) : <<x, x, x + 1>> \in Spans(p, t)
    BY <1>1, <1>5, SingleCuts
<1>9. Len(p) = Len(t) =>
          \A x \in 1..Len(p) : <<x, x, x + 1>> \in Spans(p, t) <=> p[x] = t[x]
    BY <1>1, <1>3, <1>4 DEF Spans
<1>10. Len(p) = Len(t) /\ (\A x \in 1..Len(p) : p[x] = t[x]) => p = t
    BY SameSequence DEF IsText, IsList
<1> QED
    BY <1>7, <1>8, <1>9, <1>10

LEMMA LiteralText ==
    ASSUME NEW u, NEW v, IsText(u), IsText(v), Literal(u), Literal(v)
    PROVE  Literal(Text(<<u, v>>)) /\ ~SchemeWildcard(Text(<<u, v>>))
<1> DEFINE w == Text(<<u, v>>)
<1>1. /\ Len(u) \in Nat /\ DOMAIN u = 1..Len(u)
      /\ Len(v) \in Nat /\ DOMAIN v = 1..Len(v)
    BY ListFacts DEF IsText
<1>2. LiteralToken(Colon)
    BY DEF LiteralToken, Colon
<1>3. /\ Len(w) = Len(u) + 1 + Len(v) /\ DOMAIN w = 1..Len(w)
      /\ \A x \in 1..Len(w) : w[x] = IF x <= Len(u) THEN u[x]
                                     ELSE IF x = Len(u) + 1 THEN Colon
                                     ELSE v[x - Len(u) - 1]
    BY DEF IsText, IsList, Text
<1> HIDE DEF w
<1>4. ASSUME NEW x \in DOMAIN w PROVE LiteralToken(w[x])
  <2>1. CASE x <= Len(u)
      BY <1>1, <1>3, <1>4, <2>1 DEF Literal
  <2>2. CASE x = Len(u) + 1
      BY <1>1, <1>2, <1>3, <1>4, <2>2
  <2>3. CASE x > Len(u) + 1
    <3>1. x - Len(u) - 1 \in DOMAIN v /\ w[x] = v[x - Len(u) - 1]
        BY <1>1, <1>3, <1>4, <2>3
    <3> QED
        BY <3>1 DEF Literal
  <2> QED
      BY <1>1, <1>3, <1>4, <2>1, <2>2, <2>3
<1>5. Literal(w)
    BY <1>4 DEF Literal
<1>6. ~SchemeWildcard(w)
  <2>1. Len(w) \in DOMAIN w
      BY <1>1, <1>3
  <2>2. LiteralToken(w[Len(w)])
      BY <1>4, <2>1
  <2>3. ~LiteralToken(Star)
      BY DEF LiteralToken, Star
  <2> QED
      BY <2>2, <2>3 DEF SchemeWildcard
<1> QED
    BY <1>5, <1>6 DEF w

(* A capability without wildcards covers what has its own text and nothing   *)
(* else (capmatch.go:53-104).                                                *)
THEOREM LiteralsAreExact ==
    ASSUME NEW u, NEW v, IsText(u), IsText(v), Literal(u), Literal(v),
           NEW x, NEW y, IsText(x), IsText(y)
    PROVE  PatternMeans(<<u, v>>, <<x, y>>) <=> Text(<<u, v>>) = Text(<<x, y>>)
<1>1. PatternMeans(<<u, v>>, <<x, y>>)
         <=> Means(Text(<<u, v>>), Text(<<x, y>>), 1, 1)
    BY LiteralText DEF PatternMeans
<1>2. /\ IsText(Text(<<u, v>>)) /\ IsText(Text(<<x, y>>))
      /\ Literal(Text(<<u, v>>))
    BY LiteralText, TextIsText
<1> QED
    BY <1>1, <1>2, LiteralMeansItself

(* So a grant that covers a capability without wildcards covers everything   *)
(* that the capability covers: the condition under which a permitted request *)
(* is within the grants (ValidationProofs!NarrowRequestWithinGrants).        *)
THEOREM LiteralsDoNotWiden ==
    ASSUME NEW u, NEW v, IsText(u), IsText(v), Literal(u), Literal(v),
           NEW x, NEW y, IsText(x), IsText(y),
           PatternMeans(<<u, v>>, <<x, y>>),
           NEW grant, PatternMeans(grant, <<u, v>>)
    PROVE  PatternMeans(grant, <<x, y>>)
<1>1. Text(<<u, v>>) = Text(<<x, y>>)
    BY LiteralsAreExact
<1> QED
    BY <1>1 DEF PatternMeans
=============================================================================
