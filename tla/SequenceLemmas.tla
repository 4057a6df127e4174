--------------------------- MODULE SequenceLemmas ---------------------------
(* Facts about natural numbers and sequences that the proofs about the       *)
(* matchers share.  Induction is done by a least counterexample.             *)
EXTENDS Integers, Sequences, WellFoundedInduction, TLAPS

LEMMA SmallestExists ==
    ASSUME NEW E, E # {}, E \subseteq Nat
    PROVE  \E n \in E : \A m \in E : n <= m
<1>1. PICK less : /\ IsWellFoundedOn(less, Nat)
                  /\ \A x, y \in Nat : y < x => <<y, x>> \in less
    BY NatLessThanWellFounded DEF OpToRel
<1>2. PICK n \in E : \A m \in E : ~(<<m, n>> \in less)
    BY <1>1, WFMin
<1>3. \A m \in E : m \in Nat /\ n \in Nat /\ ~(m < n)
    BY <1>1, <1>2
<1> QED
    BY <1>3

(* A set that has the first number, and the next one after each it has.      *)
LEMMA Upward ==
    ASSUME NEW a \in Int, NEW b \in Int, NEW S,
           a \in S, \A n \in a..b - 1 : n \in S => n + 1 \in S
    PROVE  a..b \subseteq S
<1> DEFINE E == {m \in Nat : a + m \in a..b /\ a + m \notin S}
<1>1. ASSUME E # {} PROVE FALSE
  <2>1. PICK m \in E : \A n \in E : m <= n
      BY <1>1, SmallestExists
  <2>2. m \in Nat /\ a + m \in a..b /\ a + m \notin S
      BY <2>1
  <2>3. m # 0
      BY <2>2
  <2>4. m - 1 \in Nat /\ m - 1 \notin E
      BY <2>1, <2>2, <2>3
  <2>5. a + (m - 1) \in a..b - 1 /\ a + (m - 1) + 1 = a + m
      BY <2>2, <2>3
  <2>6. a + (m - 1) \in S
      BY <2>4, <2>5
  <2> QED
      BY <2>2, <2>5, <2>6
<1>2. ASSUME NEW n \in a..b PROVE n \in S
  <2>1. n - a \in Nat /\ a + (n - a) = n
      OBVIOUS
  <2> QED
      BY <1>1, <2>1
<1> QED
    BY <1>2

(* The same from the last number down. *)
LEMMA Downward ==
    ASSUME NEW a \in Int, NEW b \in Int, NEW S,
           b \in S, \A n \in a..b - 1 : n + 1 \in S => n \in S
    PROVE  a..b \subseteq S
<1> DEFINE T == {n \in Int : b - n \in S}
<1>1. 0 \in T
    OBVIOUS
<1>2. ASSUME NEW n \in 0..(b - a) - 1, n \in T PROVE n + 1 \in T
  <2>1. b - n - 1 \in a..b - 1 /\ (b - n - 1) + 1 = b - n
      BY <1>2
  <2>2. b - n - 1 \in S
      BY <1>2, <2>1
  <2>3. b - (n + 1) = b - n - 1
      BY <1>2
  <2> QED
      BY <1>2, <2>2, <2>3
<1> HIDE DEF T
<1>3. 0..b - a \subseteq T
    BY <1>1, <1>2, Upward
<1>4. ASSUME NEW n \in a..b PROVE n \in S
  <2>1. b - n \in 0..b - a /\ b - (b - n) = n
      OBVIOUS
  <2> QED
      BY <1>3, <2>1 DEF T
<1> QED
    BY <1>4

(* Positions that grow by one at each step.                                  *)
LEMMA SteadySteps ==
    ASSUME NEW a \in Int, NEW b \in Int, NEW f,
           \A n \in a..b : f[n] \in Int,
           \A n \in a..b - 1 : f[n + 1] = f[n] + 1
    PROVE  \A n \in a..b : f[n] = f[a] + (n - a)
<1> DEFINE S == {n \in Int : f[n] = f[a] + (n - a)}
<1>1. CASE a > b
    BY <1>1
<1>2. CASE a <= b
  <2>1. a \in S
      BY <1>2
  <2>2. ASSUME NEW n \in a..b - 1, n \in S PROVE n + 1 \in S
    <3>1. f[n + 1] = f[n] + 1 /\ f[n] = f[a] + (n - a) /\ f[a] \in Int
        BY <1>2, <2>2
    <3> QED
        BY <3>1
  <2> HIDE DEF S
  <2>3. a..b \subseteq S
      BY <2>1, <2>2, Upward
  <2> QED
      BY <2>3 DEF S
<1> QED
    BY <1>1, <1>2

-----------------------------------------------------------------------------
(* The numbers from j up to m can be cut into parts for i to n, where R says *)
(* which part, <<x, from, to>>, is one for x; end[x] is where part x ends.   *)
Cuts(R, n, m, i, j) ==
    \E end \in [i..n -> 1..m + 1] :
        LET start(x) == IF x = i THEN j ELSE end[x - 1]
        IN /\ \A x \in i..n : <<x, start(x), end[x]>> \in R
           /\ start(n + 1) = m + 1

LEMMA CutsAtEnd ==
    ASSUME NEW R, NEW n \in Nat, NEW m \in Nat, NEW j \in 1..m + 1
    PROVE  Cuts(R, n, m, n + 1, j) <=> j = m + 1
<1>1. ASSUME j = m + 1 PROVE Cuts(R, n, m, n + 1, j)
  <2> DEFINE from == n + 1
             none == [x \in from..n |-> 1]
             Start(end, x) == IF x = from THEN j ELSE end[x - 1]
             Cut(end) == /\ \A x \in from..n : <<x, Start(end, x), end[x]>> \in R
                         /\ Start(end, n + 1) = m + 1
  <2>1. none \in [from..n -> 1..m + 1]
      OBVIOUS
  <2>2. \A x \in from..n : FALSE
      OBVIOUS
  <2>3. Cut(none)
      BY <1>1, <2>2
  <2>4. Cuts(R, n, m, from, j) <=> \E end \in [from..n -> 1..m + 1] : Cut(end)
      BY DEF Cuts
  <2> HIDE DEF Cut, none
  <2> QED
      BY <2>1, <2>3, <2>4
<1> QED
    BY <1>1 DEF Cuts

LEMMA CutsStep ==
    ASSUME NEW R, NEW n \in Nat, NEW m \in Nat,
           NEW i \in 1..n, NEW j \in 1..m + 1
    PROVE  Cuts(R, n, m, i, j) <=>
               \E c \in 1..m + 1 : <<i, j, c>> \in R /\ Cuts(R, n, m, i + 1, c)
<1> DEFINE Ends(from) == [from..n -> 1..m + 1]
           Start(from, first, end, x) == IF x = from THEN first ELSE end[x - 1]
           Cut(from, first, end) ==
               /\ \A x \in from..n :
                     <<x, Start(from, first, end, x), end[x]>> \in R
               /\ Start(from, first, end, n + 1) = m + 1
<1>1. \A from, first :
          Cuts(R, n, m, from, first) <=> \E end \in Ends(from) : Cut(from, first, end)
    BY DEF Cuts
<1>2. ASSUME NEW end \in Ends(i), Cut(i, j, end)
      PROVE  \E c \in 1..m + 1 : <<i, j, c>> \in R /\ Cuts(R, n, m, i + 1, c)
  <2> DEFINE c == end[i]
             rest == [x \in i + 1..n |-> end[x]]
  <2>1. c \in 1..m + 1 /\ <<i, j, c>> \in R
      BY <1>2
  <2>2. rest \in Ends(i + 1)
      BY <1>2
  <2>3. ASSUME NEW x \in i + 1..n
        PROVE  <<x, Start(i + 1, c, rest, x), rest[x]>> \in R
    <3>1. Start(i + 1, c, rest, x) = Start(i, j, end, x) /\ rest[x] = end[x]
        OBVIOUS
    <3> QED
        BY <1>2, <3>1
  <2>4. Start(i + 1, c, rest, n + 1) = Start(i, j, end, n + 1)
      OBVIOUS
  <2>5. Cut(i + 1, c, rest)
      BY <1>2, <2>3, <2>4
  <2>6. Cuts(R, n, m, i + 1, c)
      BY <1>1, <2>2, <2>5
  <2> QED
      BY <2>1, <2>6
<1>3. ASSUME NEW c \in 1..m + 1, <<i, j, c>> \in R,
             NEW rest \in Ends(i + 1), Cut(i + 1, c, rest)
      PROVE  Cuts(R, n, m, i, j)
  <2> DEFINE end == [x \in i..n |-> IF x = i THEN c ELSE rest[x]]
  <2>1. end \in Ends(i)
      BY <1>3
  <2>2. ASSUME NEW x \in i..n
        PROVE  <<x, Start(i, j, end, x), end[x]>> \in R
    <3>1. CASE x = i
        BY <1>3, <3>1
    <3>2. CASE x # i
      <4>1. /\ Start(i, j, end, x) = Start(i + 1, c, rest, x)
            /\ end[x] = rest[x] /\ x \in i + 1..n
          BY <3>2
      <4> QED
          BY <1>3, <4>1
    <3> QED
        BY <3>1, <3>2
  <2>3. Start(i, j, end, n + 1) = Start(i + 1, c, rest, n + 1)
      OBVIOUS
  <2>4. Cut(i, j, end)
      BY <1>3, <2>2, <2>3
  <2> QED
      BY <1>1, <2>1, <2>4
<1> HIDE DEF Ends, Cut
<1> QED
    BY <1>1, <1>2, <1>3

(* When every part has one element, the only cut has part x at x.            *)
LEMMA SingleCuts ==
    ASSUME NEW R, NEW n \in Nat, NEW m \in Nat,
           \A x \in 1..n : \A from, to \in 1..m + 1 :
               <<x, from, to>> \in R => to = from + 1
    PROVE  Cuts(R, n, m, 1, 1)
               <=> n = m /\ \A x \in 1..n : <<x, x, x + 1>> \in R
<1> DEFINE Start(end, x) == IF x = 1 THEN 1 ELSE end[x - 1]
           Cut(end) == /\ \A x \in 1..n : <<x, Start(end, x), end[x]>> \in R
                       /\ Start(end, n + 1) = m + 1
<1>1. Cuts(R, n, m, 1, 1) <=> \E end \in [1..n -> 1..m + 1] : Cut(end)
    BY DEF Cuts
<1>2. ASSUME NEW end \in [1..n -> 1..m + 1], Cut(end)
      PROVE  n = m /\ \A x \in 1..n : <<x, x, x + 1>> \in R
  <2> DEFINE at == [x \in 1..n + 1 |-> Start(end, x)]
  <2>1. \A x \in 1..n + 1 : at[x] = Start(end, x) /\ at[x] \in 1..m + 1
      OBVIOUS
  <2>2. \A x \in 1..n : at[x + 1] = end[x] /\ x + 1 \in 1..n + 1
      OBVIOUS
  <2>3. \A x \in 1..n : /\ <<x, at[x], at[x + 1]>> \in R
                        /\ at[x] \in 1..m + 1 /\ at[x + 1] \in 1..m + 1
      BY <1>2, <2>1, <2>2
  <2> HIDE DEF at
  <2>4. PICK last \in Int : last = n + 1
      OBVIOUS
  <2>5. /\ 1 \in Int
        /\ \A x \in 1..last : at[x] \in Int
        /\ \A x \in 1..last - 1 : at[x + 1] = at[x] + 1
    <3>1. \A x \in 1..n : at[x + 1] = at[x] + 1
        BY <2>3
    <3>2. \A x \in 1..last : at[x] \in Int
        BY <2>1, <2>4
    <3>3. last - 1 = n
        BY <2>4
    <3> QED
        BY <3>1, <3>2, <3>3
  <2>6. \A x \in 1..last : at[x] = at[1] + (x - 1)
      BY <2>5, SteadySteps, ZenonT(40)
  <2>7. at[1] = 1 /\ at[last] = m + 1
      BY <1>2, <2>1, <2>4
  <2>8. \A x \in 1..last : at[x] = x
      BY <2>6, <2>7
  <2> QED
      BY <2>3, <2>4, <2>7, <2>8
<1>3. ASSUME n = m, \A x \in 1..n : <<x, x, x + 1>> \in R
      PROVE  \E end \in [1..n -> 1..m + 1] : Cut(end)
  <2> DEFINE end == [x \in 1..n |-> x + 1]
  <2>1. end \in [1..n -> 1..m + 1]
      BY <1>3
  <2>2. \A x \in 1..n : Start(end, x) = x /\ end[x] = x + 1
      OBVIOUS
  <2>3. Start(end, n + 1) = m + 1
      BY <1>3
  <2>4. Cut(end)
      BY <1>3, <2>2, <2>3
  <2> HIDE DEF end, Cut
  <2> QED
      BY <2>1, <2>4
<1> HIDE DEF Cut
<1> QED
    BY <1>1, <1>2, <1>3

-----------------------------------------------------------------------------
LEMMA SequenceFacts ==
    ASSUME NEW S, NEW s \in Seq(S)
    PROVE  /\ Len(s) \in Nat /\ DOMAIN s = 1..Len(s)
           /\ \A n \in 1..Len(s) : s[n] \in S
OBVIOUS

LEMMA SameSequence ==
    ASSUME NEW S, NEW s \in Seq(S), NEW T, NEW t \in Seq(T),
           Len(s) = Len(t), \A n \in 1..Len(s) : s[n] = t[n]
    PROVE  s = t
OBVIOUS

(* A part of a sequence. *)
LEMMA PartFacts ==
    ASSUME NEW S, NEW s \in Seq(S), NEW m \in Int, NEW n \in Int,
           1 <= m, n <= Len(s)
    PROVE  /\ SubSeq(s, m, n) \in Seq(S)
           /\ Len(SubSeq(s, m, n)) = IF m <= n THEN n - m + 1 ELSE 0
           /\ \A x \in 1..n - m + 1 : SubSeq(s, m, n)[x] = s[m + x - 1]
OBVIOUS
=============================================================================
