-------------------------- MODULE AICSessionProofs --------------------------
(* Proofs about an X.509 session: the loop that computes its permissions,    *)
(* for lists of any length and whatever MatchCapability is; what a "**"      *)
(* means, for every text and pattern; and the identity, from its maker to    *)
(* whoever reads its text.                                                   *)
EXTENDS AICSession, SequenceLemmas

-----------------------------------------------------------------------------
(* The inductive invariant.                                                  *)

(* An order is only asked for when there is one. *)
Ordered == phase = "issue" => order \in Orders

AreLists(s) == IsList(s) /\ \A x \in DOMAIN s : IsList(s[x])

Lists == Decodable(cert) /\ IsCaps(Caps) /\ AreLists(Perms)

(* The loop has not begun. *)
Fresh == phase \notin {"intersect", "done"} =>
             i = 1 /\ j = 1 /\ seen = {} /\ result = <<>>

Through == phase = "done" => Perms = <<>> \/ i > Len(Caps)

Ids == {result[x] : x \in 1..Len(result)}

Distinct == \A x, y \in 1..Len(result) : result[x] = result[y] => x = y

(* The pair of capability x and grant y has been looked at. *)
Past(x, y) == x < i \/ (x = i /\ y < j)

Covered(id) == \E x \in 1..Len(Caps), y \in 1..Len(Perms) :
                  /\ Past(x, y)
                  /\ FullID(Caps[x]) = id
                  /\ MatchCapability(id, Perms[y])

SeenIsCovered == Ids = seen /\ \A id : id \in seen <=> Covered(id)

(* At most one identifier was taken for each capability. *)
Count == \/ Len(result) <= i - 1
         \/ Len(result) = i /\ i <= Len(Caps) /\ FullID(Caps[i]) \in seen

IInv == /\ TypeOK
        /\ Ordered /\ Lists /\ Fresh /\ Through
        /\ Distinct /\ SeenIsCovered /\ Count

-----------------------------------------------------------------------------
LEMMA ListFacts ==
    ASSUME NEW s, IsList(s)
    PROVE  Len(s) \in Nat /\ DOMAIN s = 1..Len(s)
BY DEF IsList

LEMMA EmptyLists == IsCaps(<<>>) /\ AreLists(<<>>) /\ Len(<<>>) = 0
BY DEF IsList, IsCaps, AreLists

LEMMA SeqIsList ==
    ASSUME NEW S, NEW s \in Seq(S)
    PROVE  IsList(s)
<1>1. s \in [1..Len(s) -> {s[x] : x \in DOMAIN s}] /\ Len(s) \in Nat
    OBVIOUS
<1> QED
    BY <1>1 DEF IsList

(* The texts are over whatever they are made of. *)
LEMMA ListIsText ==
    ASSUME NEW s, IsList(s), NEW T, {s[x] : x \in DOMAIN s} \subseteq T
    PROVE  s \in Seq(T)
<1>1. s \in [1..Len(s) -> T] /\ Len(s) \in Nat
    BY DEF IsList
<1> QED
    BY <1>1

LEMMA FullIDIsList ==
    ASSUME NEW c, IsList(c.scheme), IsList(c.id)
    PROVE  IsList(FullID(c))
<1> DEFINE T == {c.scheme[x] : x \in DOMAIN c.scheme}
                \cup {c.id[x] : x \in DOMAIN c.id} \cup {":"}
<1>1. c.scheme \in Seq(T) /\ c.id \in Seq(T) /\ <<":">> \in Seq(T)
  <2>1. <<":">> \in Seq(T)
      OBVIOUS
  <2>2. /\ {c.scheme[x] : x \in DOMAIN c.scheme} \subseteq T
        /\ {c.id[x] : x \in DOMAIN c.id} \subseteq T
      OBVIOUS
  <2> HIDE DEF T
  <2> QED
      BY <2>1, <2>2, ListIsText
<1> HIDE DEF T
<1>2. c.scheme \o <<":">> \o c.id \in Seq(T)
    BY <1>1
<1>3. FullID(c) \in Seq(T)
    BY <1>1, <1>2 DEF FullID
<1> QED
    BY <1>3, SeqIsList

LEMMA AppendToList ==
    ASSUME NEW S, NEW s \in Seq(S), NEW e
    PROVE  /\ Append(s, e) \in Seq(S \cup {e})
           /\ Len(Append(s, e)) = Len(s) + 1 /\ Len(s) \in Nat
           /\ \A x \in 1..Len(s) : Append(s, e)[x] = s[x] /\ s[x] \in S
           /\ Append(s, e)[Len(s) + 1] = e
OBVIOUS

LEMMA GrantIdsAreLists ==
    ASSUME NEW p, IsCaps(p.grants)
    PROVE  AreLists(GrantIds(p))
<1> DEFINE S == {FullID(p.grants[x]) : x \in DOMAIN p.grants}
<1>1. DOMAIN p.grants = 1..Len(p.grants) /\ Len(p.grants) \in Nat
    BY ListFacts DEF IsCaps
<1>2. GrantIds(p) \in [1..Len(p.grants) -> S]
    BY <1>1 DEF GrantIds
<1>3. GrantIds(p) \in Seq(S)
    BY <1>1, <1>2
<1>4. IsList(GrantIds(p))
    BY <1>3, SeqIsList
<1>5. ASSUME NEW x \in DOMAIN GrantIds(p) PROVE IsList(GrantIds(p)[x])
  <2>1. x \in DOMAIN p.grants /\ GrantIds(p)[x] = FullID(p.grants[x])
      BY DEF GrantIds
  <2> QED
      BY <2>1, FullIDIsList DEF IsCaps
<1> QED
    BY <1>4, <1>5 DEF AreLists

(* Before the loop, nothing has been covered and nothing taken.              *)
LEMMA FreshHolds ==
    ASSUME TypeOK, i = 1, j = 1, seen = {}, result = <<>>, Lists
    PROVE  Distinct /\ SeenIsCovered /\ Count /\ Len(result) <= Len(Caps)
<1>1. ASSUME NEW x \in 1..Len(Caps), NEW y \in 1..Len(Perms) PROVE ~Past(x, y)
    BY ListFacts DEF Lists, Past
<1>2. Len(Caps) \in Nat
    BY ListFacts DEF Lists, IsCaps, AreLists
<1> QED
    BY <1>1, <1>2 DEF Distinct, SeenIsCovered, Count, Ids, Covered

LEMMA InitEstablishes == Init => IInv
<1> SUFFICES ASSUME Init PROVE IInv
    OBVIOUS
<1>1. /\ order \in Orders \cup {NoOrder} /\ Decodable(cert)
      /\ phase \in {"issue", "parseAIC"} /\ aic = Nil /\ pa = Nil
      /\ i = 1 /\ j = 1 /\ seen = {} /\ result = <<>>
    BY SessionAssumption DEF Init
<1>2. Caps = <<>> /\ Perms = <<>>
    BY <1>1 DEF Caps, Perms
<1>3. TypeOK /\ Lists
    BY <1>1, <1>2, EmptyLists DEF TypeOK, Lists
<1>4. Ordered
    BY DEF Init, Ordered
<1> QED
    BY <1>1, <1>3, <1>4, FreshHolds DEF IInv, Fresh, Through

(* The calls before the loop, as long as what they leave is a list.          *)
LEMMA BeforeLoop ==
    ASSUME IInv, phase \notin {"intersect", "done"}, UNCHANGED <<order, loop>>,
           phase' \in {"parseAIC", "validateAIC", "name", "parsePA",
                       "intersect", "refused"},
           Lists'
    PROVE  IInv'
<1>1. /\ i' = 1 /\ j' = 1 /\ seen' = {} /\ result' = <<>>
      /\ order' \in Orders \cup {NoOrder}
    BY DEF IInv, Fresh, TypeOK, loop
<1>2. /\ Len(Caps') \in Nat /\ Len(Perms') \in Nat
    BY ListFacts DEF Lists, IsCaps, AreLists
<1>3. TypeOK'
    BY <1>1, <1>2 DEF TypeOK
<1>4. ASSUME NEW x \in 1..Len(Caps'), NEW y \in 1..Len(Perms') PROVE ~Past(x, y)'
    BY <1>1, <1>2 DEF Past
<1>5. (Distinct /\ SeenIsCovered /\ Count)'
    BY <1>1, <1>2, <1>4 DEF Distinct, SeenIsCovered, Count, Ids, Covered
<1> QED
    BY <1>1, <1>3, <1>5 DEF IInv, Ordered, Fresh, Through

LEMMA Concatenation ==
    ASSUME NEW S, NEW s \in Seq(S), NEW e
    PROVE  /\ <<e>> \o s \in Seq(S \cup {e})
           /\ Len(<<e>> \o s) = Len(s) + 1 /\ Len(s) \in Nat
           /\ (<<e>> \o s)[1] = e
           /\ \A x \in 2..Len(s) + 1 : (<<e>> \o s)[x] = s[x - 1]
OBVIOUS

(* What an identity is made of. *)
LEMMA DigestFacts ==
    ASSUME NEW algo, KnownHash(algo)
    PROVE  algo \in DOMAIN DigestLen /\ HashOutputLen[algo] = DigestLen[algo]
BY DEF KnownHash, HashOutputLen, DigestLen

LEMMA HashesAreLong == \A h \in KeyHashes : HashLen[h] \in Nat /\ HashLen[h] # 0
<1> TAKE h \in KeyHashes
<1>1. HashLen[h] \in Nat /\ HashLen[h] > 0
    BY HashAssumption
<1> QED
    BY <1>1

LEMMA MadeUid ==
    ASSUME order \in Orders, Uid # <<>>
    PROVE  IsUid(Uid[1]) /\ KeyHashOK(Uid[1].hash, Uid[1].algo)
<1> DEFINE algo == HashAlgoOID(order.algo)
           hash == Digest[algo][order.key]
<1>1. /\ CanHash(order.key, order.algo)
      /\ Uid[1] = [realm |-> order.realm, identifier |-> order.identifier,
                   hash |-> hash, algo |-> algo]
    BY DEF Uid, MakePrincipalUid
<1>2. order.key # "" /\ KnownHash(algo)
    BY <1>1 DEF CanHash
<1>3. algo \in DOMAIN DigestLen /\ HashOutputLen[algo] = DigestLen[algo]
    BY <1>2, DigestFacts
<1>4. hash \in KeyHashes /\ HashLen[hash] = HashOutputLen[algo]
    BY <1>2, <1>3, SessionAssumption, DigestAssumption
<1>5. algo # "" /\ HashAlgoOID(algo) = algo
    BY <1>2 DEF KnownHash, HashOutputLen, HashAlgoOID
<1>6. HashLen[hash] # 0
    BY <1>4, HashesAreLong
<1>7. /\ Uid[1].realm = order.realm /\ Uid[1].identifier = order.identifier
      /\ Uid[1].hash = hash /\ Uid[1].algo = algo
    BY <1>1
<1> HIDE DEF hash, algo
<1>8. IsList(order.realm) /\ IsList(order.identifier)
    BY SessionAssumption
<1> QED
    BY <1>2, <1>4, <1>5, <1>6, <1>7, <1>8 DEF IsUid, KeyHashOK

LEMMA IssuedExtension ==
    ASSUME IInv, Issue
    PROVE  /\ Decodable(cert')
           /\ 1 \in DOMAIN cert' /\ cert'[1].oid = "AIC"
           /\ cert'[1].value.uid = Uid[1]
<1>1. order \in Orders /\ Uid # <<>>
    BY DEF IInv, Ordered, Issue, Issuable
<1> DEFINE value == [order.aic EXCEPT !.version = order.version, !.uid = Uid[1]]
           ext == [oid |-> "AIC", ok |-> TRUE, value |-> value]
           rest == order.extensions
<1>2. cert' = <<ext>> \o rest
    BY DEF Issue
<1>3. /\ Decodable(rest) /\ {"version", "uid", "caps"} \subseteq DOMAIN order.aic
      /\ IsCaps(order.aic.caps)
    BY <1>1, SessionAssumption
<1>4. value.caps = order.aic.caps /\ value.uid = Uid[1]
    BY <1>3
<1>5. ext.oid = "AIC" /\ ext.value = value
    OBVIOUS
<1>6. rest \in Seq({rest[x] : x \in DOMAIN rest})
    BY <1>3 DEF Decodable, IsList
<1> HIDE DEF ext, value, rest
<1>7. /\ IsList(cert') /\ Len(cert') = Len(rest) + 1 /\ Len(rest) \in Nat
      /\ cert'[1] = ext
      /\ \A x \in 2..Len(rest) + 1 : cert'[x] = rest[x - 1]
  <2> PICK S : S = {rest[x] : x \in DOMAIN rest}
      OBVIOUS
  <2>1. rest \in Seq(S)
      BY <1>6
  <2>2. /\ cert' \in Seq(S \cup {ext})
        /\ Len(cert') = Len(rest) + 1 /\ Len(rest) \in Nat
        /\ cert'[1] = ext
        /\ \A x \in 2..Len(rest) + 1 : cert'[x] = rest[x - 1]
      BY <1>2, <2>1, Concatenation
  <2>3. IsList(cert')
      BY <2>2, SeqIsList
  <2> QED
      BY <2>2, <2>3
<1>8. ASSUME NEW n \in DOMAIN cert', cert'[n].ok
      PROVE  /\ cert'[n].oid = "AIC" => /\ IsCaps(cert'[n].value.caps)
                                        /\ IsUid(cert'[n].value.uid)
             /\ cert'[n].oid = "PA" => IsCaps(cert'[n].value.grants)
  <2>1. n \in 1..Len(rest) + 1
      BY <1>7, ListFacts
  <2>2. CASE n = 1
      BY <1>1, <1>3, <1>4, <1>5, <1>7, <2>2, MadeUid
  <2>3. CASE n # 1
    <3>1. n - 1 \in 1..Len(rest) /\ cert'[n] = rest[n - 1]
        BY <1>7, <2>1, <2>3
    <3>2. n - 1 \in DOMAIN rest
        BY <1>3, <3>1, ListFacts DEF Decodable
    <3> QED
        BY <1>3, <1>8, <3>1, <3>2 DEF Decodable
  <2> QED
      BY <2>2, <2>3
<1>9. 1 \in DOMAIN cert'
    BY <1>7, ListFacts
<1> QED
    BY <1>4, <1>5, <1>7, <1>8, <1>9 DEF Decodable

LEMMA ExtensionIsDecodable ==
    ASSUME IInv, NEW oid, ~NoExtension(cert, oid)
    PROVE  /\ Extension(cert, oid).oid = oid
           /\ Extension(cert, oid).ok =>
                 /\ oid = "AIC" => /\ IsCaps(Extension(cert, oid).value.caps)
                                   /\ IsUid(Extension(cert, oid).value.uid)
                 /\ oid = "PA" => IsCaps(Extension(cert, oid).value.grants)
<1>1. IsList(cert)
    BY DEF IInv, Lists, Decodable
<1>2. DOMAIN cert = 1..Len(cert) /\ Len(cert) \in Nat
    BY <1>1, ListFacts
<1> DEFINE E == Extensions(cert, oid)
<1>3. PICK n \in E : \A m \in E : n <= m
  <2>1. E # {} /\ E \subseteq Nat
      BY <1>2 DEF NoExtension, Extensions
  <2> QED
      BY <2>1, SmallestExists
<1>4. FirstOf(E) \in E
    BY <1>3 DEF FirstOf
<1>5. FirstOf(E) \in DOMAIN cert /\ cert[FirstOf(E)].oid = oid
    BY <1>4 DEF Extensions
<1> QED
    BY <1>5 DEF Extension, IInv, Lists, Decodable

(* The calls before the loop leave lists, so they keep the invariant.        *)
LEMMA CallsKeep ==
    ASSUME IInv,
           \/ Issue \/ NotIssued \/ AICAbsent \/ ParseAIC \/ CheckAIC
           \/ Name \/ PAAbsent \/ ParsePA
    PROVE  IInv'
<1>1. /\ phase \notin {"intersect", "done"} /\ UNCHANGED <<order, loop>>
      /\ phase' \in {"parseAIC", "validateAIC", "name", "parsePA",
                     "intersect", "refused"}
    BY DEF Issue, NotIssued, AICAbsent, ParseAIC, CheckAIC, Name, PAAbsent, ParsePA
<1>2. Decodable(cert')
  <2>1. CASE Issue
      BY <2>1, IssuedExtension
  <2>2. CASE ~Issue
    <3>1. cert' = cert
        BY <2>2 DEF NotIssued, AICAbsent, ParseAIC, CheckAIC, Name, PAAbsent, ParsePA
    <3> QED
        BY <3>1 DEF IInv, Lists
  <2> QED
      BY <2>1, <2>2
<1>3. IsCaps(Caps')
  <2>1. CASE ParseAIC
    <3>1. \/ aic' = Nil
          \/ aic' = Extension(cert, "AIC").value /\ Extension(cert, "AIC").ok
        BY <2>1 DEF ParseAIC
    <3>2. ~NoExtension(cert, "AIC")
        BY <2>1 DEF ParseAIC
    <3> QED
        BY <3>1, <3>2, ExtensionIsDecodable, EmptyLists DEF Caps
  <2>2. CASE ~ParseAIC
    <3>1. aic' = aic
        BY <2>2 DEF Issue, NotIssued, AICAbsent, CheckAIC, Name, PAAbsent, ParsePA
    <3> QED
        BY <3>1 DEF IInv, Lists, Caps
  <2> QED
      BY <2>1, <2>2
<1>4. AreLists(Perms')
  <2>1. CASE ParsePA
    <3>1. \/ pa' = Nil
          \/ pa' = Extension(cert, "PA").value /\ Extension(cert, "PA").ok
        BY <2>1 DEF ParsePA
    <3>2. ~NoExtension(cert, "PA")
        BY <2>1 DEF ParsePA
    <3>3. pa' = Nil \/ IsCaps(pa'.grants)
        BY <3>1, <3>2, ExtensionIsDecodable
    <3> QED
        BY <3>3, GrantIdsAreLists, EmptyLists DEF Perms
  <2>2. CASE ~ParsePA
    <3>1. pa' = pa
        BY <2>2 DEF Issue, NotIssued, AICAbsent, ParseAIC, CheckAIC, Name, PAAbsent
    <3> QED
        BY <3>1 DEF IInv, Lists, Perms
  <2> QED
      BY <2>1, <2>2
<1>5. Lists'
    BY <1>2, <1>3, <1>4 DEF Lists
<1> QED
    BY <1>1, <1>5, BeforeLoop

-----------------------------------------------------------------------------
(* What the steps of the loop start from.                                    *)
LEMMA LoopFacts ==
    ASSUME IInv
    PROVE  /\ Len(Caps) \in Nat /\ Len(Perms) \in Nat
           /\ i \in 1..Len(Caps) + 1 /\ j \in 1..Len(Perms) + 1
           /\ i \in Nat /\ j \in Nat
           /\ result \in Seq(seen) /\ Len(result) \in Nat
BY ListFacts DEF IInv, Lists, IsCaps, AreLists, TypeOK

(* A step of the loop keeps everything but the positions and the result.     *)
LEMMA LoopFrame ==
    ASSUME IInv, InLoop, UNCHANGED <<order, cert, phase, aic, pa>>
    PROVE  /\ Caps' = Caps /\ Perms' = Perms
           /\ Ordered' /\ Lists' /\ Fresh' /\ Through'
           /\ order' \in Orders \cup {NoOrder} /\ phase' = "intersect"
BY DEF IInv, InLoop, Caps, Perms, Ordered, Lists, Fresh, Through, TypeOK

LEMMA TakeKeeps ==
    ASSUME IInv, Take
    PROVE  IInv'
<1> DEFINE id == FullID(Caps[i])
<1>1. /\ InLoop /\ j \in 1..Len(Perms) /\ i \in 1..Len(Caps)
      /\ id \notin seen /\ MatchCapability(id, Perms[j])
      /\ seen' = seen \cup {id} /\ result' = Append(result, id)
      /\ j' = j + 1 /\ i' = i
    BY LoopFacts DEF Take, Matches, InLoop
<1>2. /\ Caps' = Caps /\ Perms' = Perms
      /\ Ordered' /\ Lists' /\ Fresh' /\ Through'
      /\ order' \in Orders \cup {NoOrder} /\ phase' = "intersect"
    BY <1>1, LoopFrame DEF Take
<1> PICK e : e = id
    OBVIOUS
<1>3. /\ result' \in Seq(seen \cup {e})
      /\ Len(result') = Len(result) + 1 /\ Len(result) \in Nat
      /\ \A x \in 1..Len(result) : result'[x] = result[x] /\ result[x] \in seen
      /\ result'[Len(result) + 1] = e
    BY <1>1, LoopFacts, AppendToList
<1>4. Len(result) <= i - 1
    BY <1>1 DEF IInv, Count
<1>5. TypeOK'
    BY <1>1, <1>2, <1>3, <1>4, LoopFacts DEF TypeOK
<1>6. Count'
    BY <1>1, <1>2, <1>3, <1>4, LoopFacts DEF Count
<1>7. Distinct'
  <2> SUFFICES ASSUME NEW x \in 1..Len(result) + 1, NEW y \in 1..Len(result) + 1,
                      result'[x] = result'[y]
               PROVE  x = y
      BY <1>3 DEF Distinct
  <2>1. e \notin seen
      BY <1>1
  <2>2. CASE x \in 1..Len(result) /\ y \in 1..Len(result)
      BY <1>3, <2>2 DEF IInv, Distinct
  <2> QED
      BY <1>3, <2>1, <2>2
<1>8. Ids' = seen \cup {e}
  <2>1. Ids' = {result'[x] : x \in 1..Len(result) + 1}
      BY <1>3 DEF Ids
  <2>2. Ids = seen
      BY DEF IInv, SeenIsCovered
  <2>3. 1..Len(result) + 1 = (1..Len(result)) \cup {Len(result) + 1}
      BY <1>3
  <2> QED
      BY <1>3, <2>1, <2>2, <2>3 DEF Ids
<1>9. \A x \in 1..Len(Caps), y \in 1..Len(Perms) :
          Past(x, y)' <=> Past(x, y) \/ (x = i /\ y = j)
    BY <1>1, LoopFacts DEF Past
<1>10. ASSUME NEW c PROVE c \in seen' <=> Covered(c)'
  <2>1. Covered(c)' <=> \E x \in 1..Len(Caps), y \in 1..Len(Perms) :
                          /\ Past(x, y) \/ (x = i /\ y = j)
                          /\ FullID(Caps[x]) = c
                          /\ MatchCapability(c, Perms[y])
      BY <1>2, <1>9 DEF Covered
  <2>2. Covered(c)' <=> Covered(c) \/ c = e
      BY <1>1, <2>1 DEF Covered
  <2> QED
      BY <1>1, <2>2 DEF IInv, SeenIsCovered
<1> QED
    BY <1>1, <1>2, <1>5, <1>6, <1>7, <1>8, <1>10 DEF IInv, SeenIsCovered

LEMMA SkipKeeps ==
    ASSUME IInv, Skip
    PROVE  IInv'
<1>1. /\ InLoop /\ j \in 1..Len(Perms) /\ i \in 1..Len(Caps)
      /\ FullID(Caps[i]) \in seen \/ ~MatchCapability(FullID(Caps[i]), Perms[j])
      /\ seen' = seen /\ result' = result
      /\ j' = j + 1 /\ i' = i
    BY LoopFacts DEF Skip, Matches, InLoop
<1>2. /\ Caps' = Caps /\ Perms' = Perms
      /\ Ordered' /\ Lists' /\ Fresh' /\ Through'
      /\ order' \in Orders \cup {NoOrder} /\ phase' = "intersect"
    BY <1>1, LoopFrame DEF Skip
<1>3. TypeOK'
    BY <1>1, <1>2, LoopFacts DEF IInv, TypeOK
<1>4. Count' /\ Distinct' /\ Ids' = Ids
    BY <1>1, <1>2 DEF IInv, Count, Distinct, Ids
<1>5. \A x \in 1..Len(Caps), y \in 1..Len(Perms) :
          Past(x, y)' <=> Past(x, y) \/ (x = i /\ y = j)
    BY <1>1, LoopFacts DEF Past
<1>6. ASSUME NEW c PROVE c \in seen <=> Covered(c)'
  <2>1. Covered(c)' <=> \E x \in 1..Len(Caps), y \in 1..Len(Perms) :
                          /\ Past(x, y) \/ (x = i /\ y = j)
                          /\ FullID(Caps[x]) = c
                          /\ MatchCapability(c, Perms[y])
      BY <1>2, <1>5 DEF Covered
  <2>2. c \in seen <=> Covered(c)
      BY DEF IInv, SeenIsCovered
  <2> QED
      BY <1>1, <2>1, <2>2 DEF Covered
<1> QED
    BY <1>1, <1>2, <1>3, <1>4, <1>6 DEF IInv, SeenIsCovered

LEMMA NextCapabilityKeeps ==
    ASSUME IInv, NextCapability
    PROVE  IInv'
<1>1. /\ InLoop /\ j = Len(Perms) + 1 /\ i \in 1..Len(Caps)
      /\ seen' = seen /\ result' = result
      /\ j' = 1 /\ i' = i + 1
    BY LoopFacts DEF NextCapability, InLoop
<1>2. /\ Caps' = Caps /\ Perms' = Perms
      /\ Ordered' /\ Lists' /\ Fresh' /\ Through'
      /\ order' \in Orders \cup {NoOrder} /\ phase' = "intersect"
    BY <1>1, LoopFrame DEF NextCapability
<1>3. TypeOK'
    BY <1>1, <1>2, LoopFacts DEF IInv, TypeOK
<1>4. Count' /\ Distinct' /\ Ids' = Ids
    BY <1>1, <1>2, LoopFacts DEF IInv, Count, Distinct, Ids
<1>5. \A x \in 1..Len(Caps), y \in 1..Len(Perms) : Past(x, y)' <=> Past(x, y)
    BY <1>1, LoopFacts DEF Past
<1>6. \A c : Covered(c)' <=> Covered(c)
    BY <1>2, <1>5 DEF Covered
<1> QED
    BY <1>1, <1>2, <1>3, <1>4, <1>6 DEF IInv, SeenIsCovered

LEMMA FinishKeeps ==
    ASSUME IInv, Finish
    PROVE  IInv'
<1>1. /\ UNCHANGED <<order, cert, aic, pa, i, j, seen, result>>
      /\ phase' = "done" /\ (Perms = <<>> \/ i > Len(Caps))
      /\ Caps' = Caps /\ Perms' = Perms
    BY DEF Finish, loop, Caps, Perms
<1> QED
    BY <1>1 DEF IInv, TypeOK, Ordered, Lists, Fresh, Through, Distinct,
                SeenIsCovered, Count, Ids, Covered, Past

LEMMA StepKeeps == IInv /\ [Next]_vars => IInv'
<1> SUFFICES ASSUME IInv, [Next]_vars PROVE IInv'
    OBVIOUS
<1>1. CASE \/ Issue \/ NotIssued \/ AICAbsent \/ ParseAIC \/ CheckAIC
           \/ Name \/ PAAbsent \/ ParsePA
    BY <1>1, CallsKeep
<1>2. CASE Take
    BY <1>2, TakeKeeps
<1>3. CASE Skip
    BY <1>3, SkipKeeps
<1>4. CASE NextCapability
    BY <1>4, NextCapabilityKeeps
<1>5. CASE Finish
    BY <1>5, FinishKeeps
<1>6. CASE UNCHANGED vars
    BY <1>6 DEF vars, IInv, TypeOK, Ordered, Lists, Fresh, Through, Distinct,
                SeenIsCovered, Count, Ids, Covered, Past, Caps, Perms
<1> QED
    BY <1>1, <1>2, <1>3, <1>4, <1>5, <1>6 DEF Next

LEMMA Inductive == Spec => []IInv
BY InitEstablishes, StepKeeps, PTL DEF Spec

(* The session stays within its types: in particular no identifier enters    *)
(* the result that the map does not hold, and at most one per capability.    *)
THEOREM TypeCorrect == Spec => []TypeOK
<1>1. IInv => TypeOK
    BY DEF IInv
<1> QED
    BY <1>1, Inductive, PTL

-----------------------------------------------------------------------------
(* A pattern without wildcards matches its own text and no other.            *)

(* What PathMatch says of the item at pi, where rest[n] says whether the     *)
(* items after it match from n on.                                           *)
PathEntry(p, s, pi, si, rest) ==
    IF pi > Len(p) THEN si > Len(s)
    ELSE IF p[pi] = "*"
    THEN \E n \in si..Len(s) + 1 : /\ \A x \in si..n - 1 : s[x] # "/"
                                   /\ rest[n]
    ELSE /\ si <= Len(s)
         /\ IF p[pi] = "?" THEN s[si] # "/" ELSE s[si] = p[pi]
         /\ rest[si + 1]

IsPathTable(f, p, s) ==
    f = [pi \in 1..Len(p) + 1 |->
            [si \in 1..Len(s) + 1 |-> PathEntry(p, s, pi, si, f[pi + 1])]]

(* What is left of the two texts is the same. *)
SameRest(p, s, pi, si) ==
    /\ Len(p) - pi = Len(s) - si
    /\ \A x \in 0..Len(p) - pi : p[pi + x] = s[si + x]

LEMMA SameRestStep ==
    ASSUME NEW p, NEW s, Len(p) \in Nat, Len(s) \in Nat,
           NEW pi \in 1..Len(p), NEW si \in 1..Len(s) + 1
    PROVE  SameRest(p, s, pi, si) <=> /\ si <= Len(s)
                                      /\ s[si] = p[pi]
                                      /\ SameRest(p, s, pi + 1, si + 1)
<1> DEFINE n == Len(p)
           m == Len(s)
<1>1. ASSUME SameRest(p, s, pi, si)
      PROVE  si <= m /\ s[si] = p[pi] /\ SameRest(p, s, pi + 1, si + 1)
  <2>1. /\ n - pi = m - si
        /\ \A x \in 0..n - pi : p[pi + x] = s[si + x]
      BY <1>1 DEF SameRest
  <2>2. /\ si <= m /\ 0 \in 0..n - pi /\ pi + 0 = pi /\ si + 0 = si
        /\ n - (pi + 1) = m - (si + 1)
      BY <2>1
  <2>3. p[pi] = s[si]
      BY <2>1, <2>2
  <2>4. ASSUME NEW x \in 0..n - (pi + 1) PROVE p[(pi + 1) + x] = s[(si + 1) + x]
    <3>1. x \in Int /\ 0 <= x /\ x <= n - (pi + 1) /\ n \in Int /\ pi \in Int
        BY <2>4
    <3>2. x + 1 \in 0..n - pi
        BY <3>1
    <3>3. p[pi + (x + 1)] = s[si + (x + 1)]
        BY <2>1, <3>2, ZenonT(20)
    <3>4. (pi + 1) + x = pi + (x + 1) /\ (si + 1) + x = si + (x + 1)
        BY <3>1
    <3> QED
        BY <3>3, <3>4, ZenonT(20)
  <2> QED
      BY <2>2, <2>3, <2>4 DEF SameRest
<1>2. ASSUME si <= m, s[si] = p[pi], SameRest(p, s, pi + 1, si + 1)
      PROVE  SameRest(p, s, pi, si)
  <2>1. /\ n - (pi + 1) = m - (si + 1)
        /\ \A x \in 0..n - (pi + 1) : p[(pi + 1) + x] = s[(si + 1) + x]
      BY <1>2 DEF SameRest
  <2>2. n - pi = m - si
      BY <1>2, <2>1
  <2>3. ASSUME NEW x \in 0..n - pi PROVE p[pi + x] = s[si + x]
    <3>1. CASE x = 0
        BY <1>2, <3>1
    <3>2. CASE x > 0
      <4>1. PICK y \in 0..n - (pi + 1) : x = y + 1
        <5>1. x - 1 \in 0..n - (pi + 1) /\ x = (x - 1) + 1
            BY <3>2
        <5> QED
            BY <5>1
      <4>2. pi + x = (pi + 1) + y /\ si + x = (si + 1) + y
          BY <4>1
      <4> QED
          BY <2>1, <4>2
    <3> QED
        BY <3>1, <3>2
  <2> QED
      BY <2>2, <2>3 DEF SameRest
<1> QED
    BY <1>1, <1>2

LEMMA LiteralEntry ==
    ASSUME NEW p, NEW s, IsList(p), IsList(s), IsLiteral(p),
           NEW pi \in 1..Len(p) + 1, NEW si \in 1..Len(s) + 1, NEW rest,
           pi <= Len(p) => \A c \in 1..Len(s) + 1 :
                               rest[c] <=> SameRest(p, s, pi + 1, c)
    PROVE  PathEntry(p, s, pi, si, rest) <=> SameRest(p, s, pi, si)
<1>1. Len(p) \in Nat /\ Len(s) \in Nat /\ DOMAIN p = 1..Len(p)
    BY ListFacts
<1>2. CASE pi > Len(p)
  <2>1. pi = Len(p) + 1 /\ (si > Len(s) <=> si = Len(s) + 1)
      BY <1>1, <1>2
  <2>2. SameRest(p, s, pi, si) <=> si = Len(s) + 1
      BY <1>1, <2>1 DEF SameRest
  <2> QED
      BY <1>2, <2>1, <2>2 DEF PathEntry
<1>3. CASE pi <= Len(p)
  <2>1. pi \in 1..Len(p) /\ p[pi] \notin {"*", "?"}
      BY <1>1, <1>3 DEF IsLiteral
  <2>2. PathEntry(p, s, pi, si, rest)
           <=> si <= Len(s) /\ s[si] = p[pi] /\ rest[si + 1]
      BY <1>1, <1>3, <2>1 DEF PathEntry
  <2>3. si <= Len(s) => si + 1 \in 1..Len(s) + 1
      BY <1>1
  <2>4. si <= Len(s) => (rest[si + 1] <=> SameRest(p, s, pi + 1, si + 1))
      BY <1>3, <2>3
  <2> QED
      BY <1>1, <2>1, <2>2, <2>4, SameRestStep
<1> QED
    BY <1>1, <1>2, <1>3

LEMMA PathTableEntry ==
    ASSUME NEW f, NEW p, NEW s, IsPathTable(f, p, s),
           NEW pi \in 1..Len(p) + 1, NEW si \in 1..Len(s) + 1
    PROVE  f[pi][si] = PathEntry(p, s, pi, si, f[pi + 1])
<1>1. f = [x \in 1..Len(p) + 1 |->
             [y \in 1..Len(s) + 1 |-> PathEntry(p, s, x, y, f[x + 1])]]
    BY Zenon DEF IsPathTable
<1>2. f[pi] = [y \in 1..Len(s) + 1 |-> PathEntry(p, s, pi, y, f[pi + 1])]
    BY <1>1, Zenon
<1> QED
    BY <1>2, Zenon

LEMMA LiteralTableExists ==
    ASSUME NEW p, NEW s, IsList(p), IsList(s), IsLiteral(p)
    PROVE  \E f : IsPathTable(f, p, s)
<1> DEFINE n == Len(p)
           m == Len(s)
           f == [pi \in 1..n + 1 |-> [si \in 1..m + 1 |-> SameRest(p, s, pi, si)]]
<1>1. n \in Nat /\ m \in Nat
    BY ListFacts
<1>2. ASSUME NEW pi \in 1..n + 1, NEW si \in 1..m + 1
      PROVE  SameRest(p, s, pi, si) = PathEntry(p, s, pi, si, f[pi + 1])
  <2>1. ASSUME pi <= n
        PROVE  \A c \in 1..m + 1 : f[pi + 1][c] = SameRest(p, s, pi + 1, c)
    <3>1. pi + 1 \in 1..n + 1
        BY <1>1, <2>1
    <3> QED
        BY <3>1, Zenon
  <2> HIDE DEF f
  <2>2. PathEntry(p, s, pi, si, f[pi + 1]) <=> SameRest(p, s, pi, si)
      BY <2>1, LiteralEntry
  <2>3. PathEntry(p, s, pi, si, f[pi + 1]) \in BOOLEAN
    <3>1. CASE pi > n
        BY <3>1 DEF PathEntry
    <3>2. CASE ~(pi > n) /\ p[pi] = "*"
        BY <3>2, Zenon DEF PathEntry
    <3>3. CASE ~(pi > n) /\ p[pi] # "*"
        BY <3>3, Zenon DEF PathEntry
    <3> QED
        BY <3>1, <3>2, <3>3
  <2>4. SameRest(p, s, pi, si) \in BOOLEAN
      BY Zenon DEF SameRest
  <2> QED
      BY <2>2, <2>3, <2>4, Zenon
<1>3. IsPathTable(f, p, s)
    BY <1>2, Zenon DEF IsPathTable
<1> QED
    BY <1>3

LEMMA LiteralTable ==
    ASSUME NEW f, NEW p, NEW s, IsList(p), IsList(s), IsLiteral(p),
           IsPathTable(f, p, s)
    PROVE  f[1][1] <=> SameRest(p, s, 1, 1)
<1> DEFINE n == Len(p)
           m == Len(s)
           S == {pi \in Int : \A si \in 1..m + 1 : f[pi][si] <=> SameRest(p, s, pi, si)}
<1>1. n \in Nat /\ m \in Nat
    BY ListFacts
<1>2. ASSUME NEW pi \in 1..n + 1, NEW si \in 1..m + 1
      PROVE  f[pi][si] = PathEntry(p, s, pi, si, f[pi + 1])
    BY PathTableEntry
<1>3. n + 1 \in S
  <2>1. n + 1 \in 1..n + 1 /\ n + 1 > n
      BY <1>1
  <2>2. ASSUME NEW si \in 1..m + 1 PROVE f[n + 1][si] <=> SameRest(p, s, n + 1, si)
    <3>1. f[n + 1][si] = PathEntry(p, s, n + 1, si, f[(n + 1) + 1])
        BY <1>2, <2>1
    <3>2. ~(n + 1 <= Len(p))
        BY <1>1
    <3>3. PathEntry(p, s, n + 1, si, f[(n + 1) + 1]) <=> SameRest(p, s, n + 1, si)
        BY <2>1, <3>2, LiteralEntry
    <3> QED
        BY <3>1, <3>3
  <2> QED
      BY <1>1, <2>2
<1>4. ASSUME NEW pi \in 1..n, pi + 1 \in S PROVE pi \in S
  <2>1. pi \in 1..n + 1
      BY <1>1
  <2>2. ASSUME NEW si \in 1..m + 1 PROVE f[pi][si] <=> SameRest(p, s, pi, si)
    <3>1. f[pi][si] = PathEntry(p, s, pi, si, f[pi + 1])
        BY <1>2, <2>1
    <3>2. \A c \in 1..m + 1 : f[pi + 1][c] <=> SameRest(p, s, pi + 1, c)
        BY <1>4
    <3>3. PathEntry(p, s, pi, si, f[pi + 1]) <=> SameRest(p, s, pi, si)
        BY <2>1, <3>2, LiteralEntry
    <3> QED
        BY <3>1, <3>3
  <2> QED
      BY <2>2
<1> HIDE DEF S
<1>5. 1..n + 1 \subseteq S
  <2>1. PICK end \in Int : end = n + 1
      BY <1>1
  <2>2. 1 \in Int /\ end \in S /\ \A pi \in 1..end - 1 : pi + 1 \in S => pi \in S
      BY <1>1, <1>3, <1>4, <2>1
  <2>3. 1..end \subseteq S
      BY <2>2, Downward
  <2> QED
      BY <2>1, <2>3
<1>6. 1 \in S /\ 1 \in 1..m + 1
    BY <1>1, <1>5
<1> QED
    BY <1>6 DEF S

LEMMA LiteralPath ==
    ASSUME NEW p, NEW s, IsList(p), IsList(s), IsLiteral(p)
    PROVE  PathMatch(p, s) => s = p
<1> DEFINE At == CHOOSE f : IsPathTable(f, p, s)
<1>1. IsPathTable(At, p, s)
    BY LiteralTableExists, Zenon
<1>2. PathMatch(p, s) = At[1][1]
    BY Zenon DEF PathMatch, IsPathTable, PathEntry
<1> HIDE DEF At
<1> SUFFICES ASSUME PathMatch(p, s) PROVE s = p
    OBVIOUS
<1>3. SameRest(p, s, 1, 1)
    BY <1>1, <1>2, LiteralTable
<1>4. Len(p) \in Nat /\ Len(s) \in Nat
    BY ListFacts
<1>5. /\ Len(p) = Len(s)
      /\ \A x \in 0..Len(p) - 1 : p[1 + x] = s[1 + x]
    BY <1>3, <1>4 DEF SameRest
<1>6. ASSUME NEW y \in 1..Len(s) PROVE s[y] = p[y]
  <2>1. y - 1 \in 0..Len(p) - 1 /\ 1 + (y - 1) = y
      BY <1>4, <1>5
  <2> QED
      BY <1>5, <2>1
<1> QED
    BY <1>5, <1>6, SameSequence DEF IsList

(* MatchCapability of a pattern without wildcards is equality.               *)
LEMMA LiteralMatch ==
    ASSUME NEW p, NEW s, IsList(p), IsList(s), IsLiteral(p)
    PROVE  MatchCapability(s, p) <=> s = p
<1>1. Len(p) \in Nat /\ DOMAIN p = 1..Len(p)
    BY ListFacts
<1>2. DoubleStars(p) = {}
    BY <1>1 DEF DoubleStars, IsLiteral
<1>3. p \notin {<<"*", "*">>, <<"*">>}
    BY <1>1 DEF IsLiteral
<1> QED
    BY <1>2, <1>3, LiteralPath DEF MatchCapability

(* What is asked for without a wildcard is confirmed when it is the          *)
(* identifier of a capability.                                               *)
LEMMA ConfirmedIsDeclared ==
    ASSUME IInv, aic # Nil, NEW r \in Requests, IsLiteral(r)
    PROVE  CheckPermission(aic, r) <=> r \in {FullID(Caps[x]) : x \in 1..Len(Caps)}
<1>1. Caps = aic.caps /\ DOMAIN aic.caps = 1..Len(Caps)
    BY ListFacts DEF Caps, IInv, Lists, IsCaps
<1>2. ASSUME NEW x \in 1..Len(Caps)
      PROVE  MatchCapability(FullID(Caps[x]), r) <=> FullID(Caps[x]) = r
  <2>1. IsList(FullID(Caps[x]))
      BY <1>1, FullIDIsList DEF IInv, Lists, IsCaps
  <2>2. IsList(r)
      BY SessionAssumption
  <2> QED
      BY <2>1, <2>2, LiteralMatch
<1> QED
    BY <1>1, <1>2 DEF CheckPermission

-----------------------------------------------------------------------------
(* The permissions are the capabilities that a grant covers, each once, and  *)
(* CheckPermission agrees with them (aic.go:322-332, 335-361).               *)
THEOREM PermissionsAreExact == Spec => []IntersectionExact
<1> DEFINE ids == {FullID(Caps[x]) : x \in 1..Len(Caps)}
<1>1. IInv => IntersectionExact
  <2> SUFFICES ASSUME IInv, phase = "done" PROVE IntersectionExact
      BY DEF IntersectionExact
  <2>1. Distinct /\ Ids = seen /\ \A id : id \in seen <=> Covered(id)
      BY DEF IInv, SeenIsCovered
  <2>2. ASSUME NEW x \in 1..Len(Caps), NEW y \in 1..Len(Perms) PROVE Past(x, y)
    <3>1. Perms # <<>>
        BY <2>2, EmptyLists
    <3> QED
        BY <3>1, LoopFacts DEF IInv, Through, Past
  <2>3. \A id : id \in Ids <=> id \in ids /\ Granted(id, Perms)
      BY <2>1, <2>2 DEF Covered, Granted
  <2>4. ASSUME NEW r \in Requests, IsLiteral(r)
        PROVE  (aic # Nil /\ CheckPermission(aic, r)) <=> r \in ids
    <3>1. CASE aic = Nil
      <4>1. ids = {}
          BY <3>1, EmptyLists DEF Caps
      <4> QED
          BY <3>1, <4>1
    <3>2. CASE aic # Nil
        BY <2>4, <3>2, ConfirmedIsDeclared
    <3> QED
        BY <3>1, <3>2
  <2> HIDE DEF ids
  <2>5. /\ {id \in ids : Granted(id, Perms)} \subseteq Ids
        /\ Ids \subseteq {id \in ids : Granted(id, Perms) \/ Contested(id, Perms)}
      BY <2>3
  <2>6. ASSUME NEW r \in Requests, IsLiteral(r)
        PROVE  /\ aic # Nil /\ CheckPermission(aic, r) /\ Granted(r, Perms)
                     => r \in Ids
               /\ r \in Ids
                     => /\ aic # Nil /\ CheckPermission(aic, r)
                        /\ Granted(r, Perms) \/ Contested(r, Perms)
      BY <2>3, <2>4, <2>6
  <2> QED
      BY <2>1, <2>5, <2>6 DEF IntersectionExact, Distinct, Ids, ids
<1> QED
    BY <1>1, Inductive, PTL

-----------------------------------------------------------------------------
(* Texts: what matchDoubleStar cuts off, by positions.                       *)

LEMMA PrefixByPosition ==
    ASSUME NEW S, NEW s \in Seq(S), NEW p \in Seq(S)
    PROVE  HasPrefix(s, p) <=> /\ Len(p) <= Len(s)
                               /\ \A x \in 1..Len(p) : s[x] = p[x]
<1>1. Len(s) \in Nat /\ Len(p) \in Nat
    OBVIOUS
<1>2. CASE Len(p) <= Len(s)
  <2> DEFINE head == SubSeq(s, 1, Len(p))
  <2>1. /\ head \in Seq(S) /\ Len(head) = Len(p)
        /\ \A x \in 1..Len(p) : head[x] = s[x]
      BY <1>1, <1>2
  <2>2. HasPrefix(s, p) <=> head = p
      BY <1>2 DEF HasPrefix
  <2> HIDE DEF head
  <2>3. (\A x \in 1..Len(p) : s[x] = p[x]) => head = p
      BY <2>1, SameSequence
  <2> QED
      BY <1>2, <2>1, <2>2, <2>3
<1> QED
    BY <1>2 DEF HasPrefix

LEMMA SuffixByPosition ==
    ASSUME NEW S, NEW s \in Seq(S), NEW p \in Seq(S)
    PROVE  HasSuffix(s, p) <=> /\ Len(p) <= Len(s)
                               /\ \A x \in 1..Len(p) : s[Len(s) - Len(p) + x] = p[x]
<1>1. Len(s) \in Nat /\ Len(p) \in Nat
    OBVIOUS
<1>2. CASE Len(p) <= Len(s)
  <2> DEFINE from == Len(s) - Len(p)
             tail == SubSeq(s, from + 1, Len(s))
  <2>1. /\ tail \in Seq(S) /\ Len(tail) = Len(p)
        /\ \A x \in 1..Len(p) : tail[x] = s[from + x]
    <3>1. from + 1 \in Int /\ 1 <= from + 1 /\ Len(s) - (from + 1) + 1 = Len(p)
        BY <1>1, <1>2
    <3>2. /\ tail \in Seq(S)
          /\ Len(tail) = IF from + 1 <= Len(s) THEN Len(s) - (from + 1) + 1 ELSE 0
          /\ \A x \in 1..Len(s) - (from + 1) + 1 : tail[x] = s[from + 1 + x - 1]
        BY <1>1, <3>1, PartFacts
    <3>3. \A x \in 1..Len(p) : from + 1 + x - 1 = from + x
        BY <1>1
    <3> HIDE DEF tail
    <3> QED
        BY <1>1, <1>2, <3>1, <3>2, <3>3
  <2>2. HasSuffix(s, p) <=> tail = p
      BY <1>2 DEF HasSuffix
  <2> HIDE DEF tail
  <2>3. (\A x \in 1..Len(p) : s[from + x] = p[x]) => tail = p
      BY <2>1, SameSequence
  <2> QED
      BY <1>2, <2>1, <2>2, <2>3
<1> QED
    BY <1>2 DEF HasSuffix

(* A part of a part. *)
LEMMA PartOfPart ==
    ASSUME NEW S, NEW s \in Seq(S), NEW a \in 0..Len(s), NEW b \in a..Len(s),
           NEW c \in a..b, NEW d \in c..b
    PROVE  SubSeq(SubSeq(s, a + 1, b), c - a + 1, d - a) = SubSeq(s, c + 1, d)
<1> DEFINE part == SubSeq(s, a + 1, b)
           left == SubSeq(part, c - a + 1, d - a)
           right == SubSeq(s, c + 1, d)
<1>1. /\ part \in Seq(S) /\ Len(part) = b - a
      /\ \A x \in 1..b - a : part[x] = s[a + x]
    OBVIOUS
<1>2. /\ right \in Seq(S) /\ Len(right) = d - c
      /\ \A x \in 1..d - c : right[x] = s[c + x]
    OBVIOUS
<1> HIDE DEF part, right
<1>3. /\ left \in Seq(S) /\ Len(left) = d - c
      /\ \A x \in 1..d - c : left[x] = part[c - a + x]
    BY <1>1
<1> HIDE DEF left
<1>4. \A x \in 1..d - c : left[x] = right[x]
    BY <1>1, <1>2, <1>3
<1>5. left = right
    BY <1>2, <1>3, <1>4, SameSequence
<1> QED
    BY <1>5 DEF left, right, part

(* What the trims of a prefix and of the slash after it leave.               *)
SlashAfter(s, n) == n < Len(s) /\ s[n + 1] = "/"
SlashBefore(s, n) == n > 0 /\ s[n] = "/"

FrontEnd(s, p) == IF SlashAfter(s, Len(p)) THEN Len(p) + 1 ELSE Len(p)

LEMMA SlashIsText ==
    ASSUME NEW S, "/" \in S
    PROVE  <<"/">> \in Seq(S) /\ Len(<<"/">>) = 1 /\ <<"/">>[1] = "/"
OBVIOUS

LEMMA OneByPosition ==
    ASSUME NEW S, NEW s \in Seq(S), NEW p \in Seq(S)
    PROVE  Len(p) = 1 =>
               /\ HasPrefix(s, p) <=> Len(s) >= 1 /\ s[1] = p[1]
               /\ HasSuffix(s, p) <=> Len(s) >= 1 /\ s[Len(s)] = p[1]
<1>1. HasPrefix(s, p) <=> /\ Len(p) <= Len(s)
                          /\ \A x \in 1..Len(p) : s[x] = p[x]
    BY PrefixByPosition
<1>2. HasSuffix(s, p) <=> /\ Len(p) <= Len(s)
                          /\ \A x \in 1..Len(p) : s[Len(s) - Len(p) + x] = p[x]
    BY SuffixByPosition
<1>3. Len(s) \in Nat /\ Len(s) - 1 + 1 = Len(s)
    OBVIOUS
<1> QED
    BY <1>1, <1>2, <1>3

LEMMA SlashByPosition ==
    ASSUME NEW S, "/" \in S, NEW s \in Seq(S)
    PROVE  /\ HasPrefix(s, <<"/">>) <=> Len(s) >= 1 /\ s[1] = "/"
           /\ HasSuffix(s, <<"/">>) <=> Len(s) >= 1 /\ s[Len(s)] = "/"
<1>1. \A p \in Seq(S) : Len(p) = 1 =>
         /\ HasPrefix(s, p) <=> Len(s) >= 1 /\ s[1] = p[1]
         /\ HasSuffix(s, p) <=> Len(s) >= 1 /\ s[Len(s)] = p[1]
    BY OneByPosition
<1> QED
    BY <1>1, SlashIsText

LEMMA FrontTrimmed ==
    ASSUME NEW S, "/" \in S, NEW s \in Seq(S), NEW p \in Seq(S), HasPrefix(s, p)
    PROVE  /\ FrontEnd(s, p) \in Len(p)..Len(s)
           /\ TrimPrefix(TrimPrefix(s, p), <<"/">>) = From(s, FrontEnd(s, p) + 1)
<1> DEFINE n == Len(p)
           tail == From(s, n + 1)
<1>1. n \in 0..Len(s) /\ Len(s) \in Nat
    BY PrefixByPosition
<1>2. TrimPrefix(s, p) = tail
    BY DEF TrimPrefix
<1>3. tail \in Seq(S) /\ Len(tail) = Len(s) - n /\ (n < Len(s) => tail[1] = s[n + 1])
    BY <1>1 DEF From
<1> HIDE DEF tail
<1>4. HasPrefix(tail, <<"/">>) <=> Len(tail) >= 1 /\ tail[1] = "/"
    BY <1>3, SlashByPosition
<1> USE DEF tail
<1>5. CASE SlashAfter(s, n)
  <2>1. HasPrefix(tail, <<"/">>)
      BY <1>1, <1>3, <1>4, <1>5 DEF SlashAfter
  <2>2. TrimPrefix(tail, <<"/">>) = From(tail, 2)
      BY <2>1, SlashIsText DEF TrimPrefix
  <2>3. From(tail, 2) = From(s, n + 2)
    <3>1. n + 1 \in n..Len(s)
        BY <1>1, <1>5 DEF SlashAfter
    <3>2. SubSeq(SubSeq(s, n + 1, Len(s)), (n + 1) - n + 1, Len(s) - n)
             = SubSeq(s, n + 1 + 1, Len(s))
        BY <1>1, <3>1, PartOfPart
    <3> QED
        BY <1>1, <1>3, <3>2 DEF From
  <2> QED
      BY <1>1, <1>2, <1>5, <2>2, <2>3 DEF FrontEnd, SlashAfter
<1>6. CASE ~SlashAfter(s, n)
  <2>1. ~HasPrefix(tail, <<"/">>)
      BY <1>1, <1>3, <1>4, <1>6 DEF SlashAfter
  <2> QED
      BY <1>1, <1>2, <1>6, <2>1 DEF FrontEnd, TrimPrefix
<1> QED
    BY <1>5, <1>6

BackEnd(s, p) == LET n == Len(s) - Len(p)
                 IN IF SlashBefore(s, n) THEN n - 1 ELSE n

LEMMA BackTrimmed ==
    ASSUME NEW S, "/" \in S, NEW s \in Seq(S), NEW p \in Seq(S), HasSuffix(s, p)
    PROVE  /\ BackEnd(s, p) \in 0..Len(s) - Len(p)
           /\ TrimSuffix(TrimSuffix(s, p), <<"/">>) = Before(s, BackEnd(s, p))
<1> DEFINE n == Len(s) - Len(p)
           head == Before(s, n)
<1>1. n \in 0..Len(s) /\ Len(s) \in Nat /\ Len(p) \in Nat
    BY SuffixByPosition
<1>2. TrimSuffix(s, p) = head
    BY DEF TrimSuffix
<1>3. head \in Seq(S) /\ Len(head) = n /\ (n > 0 => head[n] = s[n])
    BY <1>1 DEF Before
<1> HIDE DEF head
<1>4. HasSuffix(head, <<"/">>) <=> n > 0 /\ head[n] = "/"
    BY <1>1, <1>3, SlashByPosition
<1> USE DEF head
<1>5. CASE SlashBefore(s, n)
  <2>1. HasSuffix(head, <<"/">>)
      BY <1>1, <1>3, <1>4, <1>5 DEF SlashBefore
  <2>2. TrimSuffix(head, <<"/">>) = Before(head, n - 1)
      BY <1>3, <2>1, SlashIsText DEF TrimSuffix
  <2>3. Before(head, n - 1) = Before(s, n - 1)
    <3> DEFINE left == Before(head, n - 1)
               right == Before(s, n - 1)
    <3>1. n > 0
        BY <1>5 DEF SlashBefore
    <3>2. \A x \in 1..n : head[x] = s[x]
        BY <1>1 DEF Before
    <3> HIDE DEF head
    <3>3. /\ left \in Seq(S) /\ Len(left) = n - 1
          /\ \A x \in 1..n - 1 : left[x] = head[x]
        BY <1>1, <1>3, <3>1 DEF Before
    <3>4. /\ right \in Seq(S) /\ Len(right) = n - 1
          /\ \A x \in 1..n - 1 : right[x] = s[x]
        BY <1>1, <1>3, <3>1 DEF Before
    <3>5. \A x \in 1..n - 1 : x \in 1..n
        BY <1>1
    <3> HIDE DEF left, right
    <3>6. left = right
        BY <3>2, <3>3, <3>4, <3>5, SameSequence
    <3> QED
        BY <3>6 DEF left, right
  <2> QED
      BY <1>1, <1>2, <1>5, <2>2, <2>3 DEF BackEnd, SlashBefore
<1>6. CASE ~SlashBefore(s, n)
  <2>1. ~HasSuffix(head, <<"/">>)
      BY <1>1, <1>3, <1>4, <1>6 DEF SlashBefore
  <2> QED
      BY <1>1, <1>2, <1>6, <2>1 DEF BackEnd, TrimSuffix
<1> QED
    BY <1>5, <1>6

(* A joined text by its positions. *)
LEMMA JoinsByPosition ==
    ASSUME NEW S, "/" \in S, NEW p \in Seq(S), NEW s \in Seq(S)
    PROVE  /\ s \in {p \o t : t \in {<<>>, <<"/">>}}
                 <=> /\ Len(s) \in {Len(p), Len(p) + 1}
                     /\ \A x \in 1..Len(p) : s[x] = p[x]
                     /\ Len(s) = Len(p) + 1 => s[Len(s)] = "/"
           /\ s \in {t \o p : t \in {<<>>, <<"/">>}}
                 <=> /\ Len(s) \in {Len(p), Len(p) + 1}
                     /\ \A x \in 1..Len(p) : s[Len(s) - Len(p) + x] = p[x]
                     /\ Len(s) = Len(p) + 1 => s[1] = "/"
<1> PICK slash : slash = <<"/">>
    OBVIOUS
<1>1. slash \in Seq(S) /\ Len(slash) = 1 /\ slash[1] = "/"
    BY SlashIsText
<1>2. p \o <<>> = p /\ <<>> \o p = p
    OBVIOUS
<1> DEFINE ps == p \o slash
           sp == slash \o p
<1>3. /\ ps \in Seq(S) /\ Len(ps) = Len(p) + 1 /\ ps[Len(p) + 1] = "/"
      /\ \A x \in 1..Len(p) : ps[x] = p[x]
    BY <1>1
<1>4. /\ sp \in Seq(S) /\ Len(sp) = Len(p) + 1 /\ sp[1] = "/"
      /\ \A x \in 1..Len(p) : sp[x + 1] = p[x]
    BY <1>1
<1>5. /\ s \in {p \o t : t \in {<<>>, <<"/">>}} <=> s = p \/ s = ps
      /\ s \in {t \o p : t \in {<<>>, <<"/">>}} <=> s = p \/ s = sp
    BY <1>2
<1> HIDE DEF ps, sp
<1>6. Len(s) \in Nat /\ Len(p) \in Nat
    OBVIOUS
<1>7. s = p <=> Len(s) = Len(p) /\ \A x \in 1..Len(p) : s[x] = p[x]
    BY SameSequence
<1>8. s = ps <=> /\ Len(s) = Len(p) + 1 /\ s[Len(s)] = "/"
                 /\ \A x \in 1..Len(p) : s[x] = p[x]
  <2>1. ASSUME Len(s) = Len(p) + 1, s[Len(s)] = "/",
               \A x \in 1..Len(p) : s[x] = p[x]
        PROVE  s = ps
    <3>1. \A x \in 1..Len(s) : s[x] = ps[x]
        BY <1>3, <1>6, <2>1
    <3> QED
        BY <1>3, <2>1, <3>1, SameSequence
  <2> QED
      BY <1>3, <2>1
<1>9. s = sp <=> /\ Len(s) = Len(p) + 1 /\ s[1] = "/"
                 /\ \A x \in 1..Len(p) : s[x + 1] = p[x]
  <2>1. ASSUME Len(s) = Len(p) + 1, s[1] = "/",
               \A x \in 1..Len(p) : s[x + 1] = p[x]
        PROVE  s = sp
    <3>1. ASSUME NEW x \in 1..Len(s) PROVE s[x] = sp[x]
      <4>1. CASE x = 1
          BY <1>4, <2>1, <4>1
      <4>2. CASE x # 1
        <5>1. x - 1 \in 1..Len(p) /\ (x - 1) + 1 = x
            BY <1>6, <2>1, <4>2
        <5>2. s[(x - 1) + 1] = p[x - 1] /\ sp[(x - 1) + 1] = p[x - 1]
            BY <1>4, <2>1, <5>1
        <5> QED
            BY <5>1, <5>2
      <4> QED
          BY <4>1, <4>2
    <3> QED
        BY <1>4, <2>1, <3>1, SameSequence
  <2> QED
      BY <1>4, <2>1
<1>10. Len(s) = Len(p) + 1 => \A x \in 1..Len(p) : Len(s) - Len(p) + x = x + 1
    BY <1>6
<1>11. Len(s) = Len(p) => \A x \in 1..Len(p) : Len(s) - Len(p) + x = x
    BY <1>6
<1>12. Len(p) # Len(p) + 1
    BY <1>6
<1>13. (\A x \in 1..Len(p) : s[Len(s) - Len(p) + x] = p[x])
          <=> \/ Len(s) = Len(p) /\ \A x \in 1..Len(p) : s[x] = p[x]
              \/ Len(s) = Len(p) + 1 /\ \A x \in 1..Len(p) : s[x + 1] = p[x]
              \/ /\ Len(s) \notin {Len(p), Len(p) + 1}
                 /\ \A x \in 1..Len(p) : s[Len(s) - Len(p) + x] = p[x]
    BY <1>10, <1>11, <1>12
<1> QED
    BY <1>5, <1>7, <1>8, <1>9, <1>12, <1>13

(* Whole segments neither begin nor end with a slash. *)
LEMMA SegmentsHaveEnds ==
    ASSUME NEW S, NEW s \in Seq(S), Len(s) > 0, SegmentsOK(s)
    PROVE  s[1] # "/" /\ s[Len(s)] # "/"
<1> DEFINE ends == {0, Len(s) + 1} \cup {n \in DOMAIN s : s[n] = "/"}
<1>1. Len(s) \in Nat /\ DOMAIN s = 1..Len(s)
    OBVIOUS
<1>2. \A a, b \in ends :
          (a < b /\ \A n \in ends : n <= a \/ b <= n) => SubSeq(s, a + 1, b - 1) # <<>>
    BY DEF SegmentsOK
<1>3. \A n \in ends : n \in 0..Len(s) + 1
    BY <1>1
<1>4. \A n \in 1..Len(s) : s[n] = "/" => n \in ends
    BY <1>1
<1>5. 0 \in ends /\ Len(s) + 1 \in ends
    OBVIOUS
<1>6. \A m \in 1..Len(s) + 1 : SubSeq(s, m, m - 1) = <<>>
    BY <1>1
<1> HIDE DEF ends
<1>7. ASSUME s[1] = "/" PROVE FALSE
  <2>1. SubSeq(s, 0 + 1, 1 - 1) # <<>>
      BY <1>1, <1>2, <1>3, <1>4, <1>5, <1>7
  <2>2. SubSeq(s, 1, 1 - 1) = <<>>
      BY <1>1, <1>6
  <2> QED
      BY <2>1, <2>2
<1>8. ASSUME s[Len(s)] = "/" PROVE FALSE
  <2>1. SubSeq(s, Len(s) + 1, Len(s) + 1 - 1) # <<>>
      BY <1>1, <1>2, <1>3, <1>4, <1>5, <1>8
  <2>2. Len(s) + 1 \in 1..Len(s) + 1
      BY <1>1
  <2> QED
      BY <1>6, <2>1, <2>2
<1> QED
    BY <1>7, <1>8

(* The two trims of slashes are defined.                                     *)
LEMMA TrimmedRight ==
    ASSUME NEW S, NEW s \in Seq(S)
    PROVE  TrimRight(s) \in Seq(S)
<1> DEFINE End(n) == /\ \A x \in n + 1..Len(s) : s[x] = "/"
                     /\ n >= 1 => s[n] # "/"
           E == {n \in 0..Len(s) : \A x \in n + 1..Len(s) : s[x] = "/"}
<1>1. Len(s) \in Nat
    OBVIOUS
<1>2. PICK n \in E : \A m \in E : n <= m
  <2>1. Len(s) \in E /\ E \subseteq Nat
      BY <1>1
  <2> HIDE DEF E
  <2> QED
      BY <2>1, SmallestExists
<1>3. End(n)
  <2>1. ASSUME n >= 1, s[n] = "/" PROVE FALSE
    <3>1. n \in 1..Len(s)
        BY <1>2, <2>1
    <3>2. n - 1 \in 0..Len(s) /\ \A x \in (n - 1) + 1..Len(s) : x = n \/ x \in n + 1..Len(s)
        BY <3>1
    <3>3. n - 1 \in E
        BY <1>2, <2>1, <3>2
    <3> QED
        BY <1>2, <3>1, <3>3
  <2> QED
      BY <1>2, <2>1
<1> DEFINE c == CHOOSE m \in 0..Len(s) : End(m)
<1>4. c \in 0..Len(s)
    BY <1>2, <1>3 DEF E
<1>5. TrimRight(s) = Before(s, c)
    BY DEF TrimRight
<1> HIDE DEF c
<1> QED
    BY <1>1, <1>4, <1>5 DEF Before

LEMMA TrimmedLeft ==
    ASSUME NEW S, NEW s \in Seq(S)
    PROVE  TrimLeft(s) \in Seq(S) /\ (Len(TrimLeft(s)) > 0 => TrimLeft(s)[1] # "/")
<1> DEFINE Start(n) == /\ \A x \in 1..n - 1 : s[x] = "/"
                       /\ n <= Len(s) => s[n] # "/"
           E == {n \in 1..Len(s) + 1 : n <= Len(s) => s[n] # "/"}
<1>1. Len(s) \in Nat
    OBVIOUS
<1>2. PICK n \in E : \A m \in E : n <= m
  <2>1. Len(s) + 1 \in E /\ E \subseteq Nat
      BY <1>1
  <2> HIDE DEF E
  <2> QED
      BY <2>1, SmallestExists
<1>3. Start(n)
  <2>1. ASSUME NEW x \in 1..n - 1 PROVE s[x] = "/"
    <3>1. x \in 1..Len(s) + 1 /\ x < n /\ x \notin E
        BY <1>1, <1>2
    <3> QED
        BY <1>1, <3>1
  <2> QED
      BY <1>2, <2>1
<1> DEFINE c == CHOOSE m \in 1..Len(s) + 1 : Start(m)
<1>4. c \in 1..Len(s) + 1 /\ Start(c)
    BY <1>2, <1>3 DEF E
<1>5. TrimLeft(s) = From(s, c)
    BY DEF TrimLeft
<1> HIDE DEF c
<1> QED
    BY <1>1, <1>4, <1>5 DEF From

-----------------------------------------------------------------------------
(* Where the prefix of a pattern may end, and its suffix begin, in s.        *)
FrontAt(s, p, a) == \/ p = <<>> /\ a = 0
                    \/ /\ p # <<>> /\ HasPrefix(s, p)
                       /\ a = Len(p) \/ (a = Len(p) + 1 /\ s[a] = "/")

BackAt(s, p, b) == \/ p = <<>> /\ b = Len(s)
                   \/ /\ p # <<>> /\ HasSuffix(s, p)
                      /\ \/ b = Len(s) - Len(p)
                         \/ b = Len(s) - Len(p) - 1 /\ s[b + 1] = "/"

FrontTexts(p) == IF p = <<>> THEN {<<>>} ELSE {p \o t : t \in {<<>>, <<"/">>}}
BackTexts(p) == IF p = <<>> THEN {<<>>} ELSE {t \o p : t \in {<<>>, <<"/">>}}

LEMMA EmptyFits ==
    ASSUME NEW S, NEW s \in Seq(S), NEW p \in Seq(S)
    PROVE  p = <<>> => HasPrefix(s, p) /\ HasSuffix(s, p) /\ Len(p) = 0
<1>1. HasPrefix(s, p) <=> /\ Len(p) <= Len(s)
                          /\ \A x \in 1..Len(p) : s[x] = p[x]
    BY PrefixByPosition
<1>2. HasSuffix(s, p) <=> /\ Len(p) <= Len(s)
                          /\ \A x \in 1..Len(p) : s[Len(s) - Len(p) + x] = p[x]
    BY SuffixByPosition
<1>3. p = <<>> => Len(p) = 0
    OBVIOUS
<1> QED
    BY <1>1, <1>2, <1>3

LEMMA FrontIsJoined ==
    ASSUME NEW S, "/" \in S, NEW s \in Seq(S), NEW p \in Seq(S),
           NEW a \in 0..Len(s)
    PROVE  FrontAt(s, p, a) <=> Before(s, a) \in FrontTexts(p)
<1> DEFINE head == Before(s, a)
<1>1. Len(s) \in Nat /\ Len(p) \in Nat /\ a \in Nat
    OBVIOUS
<1>2. /\ head \in Seq(S) /\ Len(head) = a
      /\ \A x \in 1..a : head[x] = s[x]
    BY DEF Before
<1> HIDE DEF head
<1>3. CASE p = <<>>
    BY <1>1, <1>2, <1>3 DEF FrontAt, FrontTexts, head
<1>4. CASE p # <<>>
  <2>1. head \in {p \o t : t \in {<<>>, <<"/">>}}
            <=> /\ a \in {Len(p), Len(p) + 1}
                /\ \A x \in 1..Len(p) : head[x] = p[x]
                /\ a = Len(p) + 1 => head[a] = "/"
      BY <1>2, JoinsByPosition
  <2>2. HasPrefix(s, p) <=> Len(p) <= Len(s) /\ \A x \in 1..Len(p) : s[x] = p[x]
      BY PrefixByPosition
  <2>3. a \in {Len(p), Len(p) + 1} =>
            Len(p) <= Len(s) /\ \A x \in 1..Len(p) : head[x] = s[x]
      BY <1>1, <1>2
  <2>4. a = Len(p) + 1 => head[a] = s[a]
      BY <1>1, <1>2
  <2> QED
      BY <1>4, <2>1, <2>2, <2>3, <2>4 DEF FrontAt, FrontTexts, head
<1> QED
    BY <1>3, <1>4

LEMMA BackIsJoined ==
    ASSUME NEW S, "/" \in S, NEW s \in Seq(S), NEW p \in Seq(S),
           NEW b \in 0..Len(s)
    PROVE  BackAt(s, p, b) <=> From(s, b + 1) \in BackTexts(p)
<1> DEFINE tail == From(s, b + 1)
<1>1. Len(s) \in Nat /\ Len(p) \in Nat /\ b \in Nat
    OBVIOUS
<1>2. /\ tail \in Seq(S) /\ Len(tail) = Len(s) - b
      /\ \A x \in 1..Len(s) - b : tail[x] = s[b + x]
    BY DEF From
<1> HIDE DEF tail
<1>3. CASE p = <<>>
    BY <1>1, <1>2, <1>3 DEF BackAt, BackTexts, tail
<1>4. CASE p # <<>>
  <2>1. tail \in {t \o p : t \in {<<>>, <<"/">>}}
            <=> /\ Len(s) - b \in {Len(p), Len(p) + 1}
                /\ \A x \in 1..Len(p) : tail[(Len(s) - b) - Len(p) + x] = p[x]
                /\ Len(s) - b = Len(p) + 1 => tail[1] = "/"
    <3>1. tail \in Seq(S) /\ Len(tail) = Len(s) - b
        BY <1>2
    <3>2. tail \in Seq(S) => (tail \in {t \o p : t \in {<<>>, <<"/">>}}
              <=> /\ Len(tail) \in {Len(p), Len(p) + 1}
                  /\ \A x \in 1..Len(p) : tail[Len(tail) - Len(p) + x] = p[x]
                  /\ Len(tail) = Len(p) + 1 => tail[1] = "/")
        BY JoinsByPosition
    <3> QED
        BY <3>1, <3>2
  <2>2. HasSuffix(s, p) <=> /\ Len(p) <= Len(s)
                            /\ \A x \in 1..Len(p) : s[Len(s) - Len(p) + x] = p[x]
      BY SuffixByPosition
  <2>3. ASSUME Len(s) - b \in {Len(p), Len(p) + 1}
        PROVE  /\ Len(p) <= Len(s)
               /\ \A x \in 1..Len(p) :
                     tail[(Len(s) - b) - Len(p) + x] = s[Len(s) - Len(p) + x]
    <3>1. ASSUME NEW x \in 1..Len(p)
          PROVE  tail[(Len(s) - b) - Len(p) + x] = s[Len(s) - Len(p) + x]
      <4>1. /\ (Len(s) - b) - Len(p) + x \in 1..Len(s) - b
            /\ b + ((Len(s) - b) - Len(p) + x) = Len(s) - Len(p) + x
          BY <1>1, <2>3
      <4> QED
          BY <1>2, <4>1
    <3> QED
        BY <1>1, <2>3, <3>1
  <2>4. Len(s) - b = Len(p) + 1 => tail[1] = s[b + 1]
      BY <1>1, <1>2
  <2>5. /\ Len(s) - b = Len(p) <=> b = Len(s) - Len(p)
        /\ Len(s) - b = Len(p) + 1 <=> b = Len(s) - Len(p) - 1
      BY <1>1
  <2>6. BackAt(s, p, b) <=> /\ HasSuffix(s, p)
                            /\ \/ Len(s) - b = Len(p)
                               \/ Len(s) - b = Len(p) + 1 /\ s[b + 1] = "/"
      BY <1>4, <2>5 DEF BackAt
  <2>7. Len(p) # Len(p) + 1
      BY <1>1
  <2> QED
      BY <1>4, <2>1, <2>2, <2>3, <2>4, <2>6, <2>7 DEF BackTexts, tail
<1> QED
    BY <1>3, <1>4

(* Whole segments between the two, or nothing. *)
SegmentsAt(s, a, b) == SubSeq(s, a + 1, b) = <<>> \/ SegmentsOK(SubSeq(s, a + 1, b))

LEMMA SegmentsFacts ==
    ASSUME NEW S, NEW s \in Seq(S), NEW a \in 0..Len(s), NEW b \in a..Len(s),
           SegmentsAt(s, a, b)
    PROVE  a < b => s[a + 1] # "/" /\ s[b] # "/"
<1> DEFINE part == SubSeq(s, a + 1, b)
<1>1. part \in Seq(S) /\ Len(part) = b - a
    OBVIOUS
<1>2. a < b => part[1] = s[a + 1] /\ part[b - a] = s[b]
    OBVIOUS
<1>3. part = <<>> \/ SegmentsOK(part)
    BY DEF SegmentsAt
<1> HIDE DEF part
<1>4. ASSUME a < b PROVE s[a + 1] # "/" /\ s[b] # "/"
  <2>1. Len(part) > 0 /\ part # <<>>
      BY <1>1, <1>4
  <2> QED
      BY <1>1, <1>2, <1>3, <1>4, <2>1, SegmentsHaveEnds
<1> QED
    BY <1>4

LEMMA NothingBetween ==
    ASSUME NEW S, NEW s \in Seq(S), NEW a \in 0..Len(s)
    PROVE  SegmentsAt(s, a, a)
BY DEF SegmentsAt

(* The end that the code finds.                                              *)
Front(s, p) == IF p = <<>> THEN 0 ELSE FrontEnd(s, p)

LEMMA FrontFound ==
    ASSUME NEW S, "/" \in S, NEW s \in Seq(S), NEW p \in Seq(S), HasPrefix(s, p)
    PROVE  /\ Front(s, p) \in 0..Len(s) /\ FrontAt(s, p, Front(s, p))
           /\ IF p = <<>> THEN s = From(s, Front(s, p) + 1)
              ELSE TrimPrefix(TrimPrefix(s, p), <<"/">>) = From(s, Front(s, p) + 1)
<1>1. Len(p) \in Nat /\ Len(s) \in Nat /\ Len(p) <= Len(s)
    BY PrefixByPosition
<1>2. CASE p = <<>>
    BY <1>2 DEF Front, FrontAt, From
<1>3. CASE p # <<>>
  <2>1. FrontAt(s, p, FrontEnd(s, p))
      BY <1>1, <1>3 DEF FrontAt, FrontEnd, SlashAfter
  <2> QED
      BY <1>1, <1>3, <2>1, FrontTrimmed DEF Front
<1> QED
    BY <1>2, <1>3

Back(s, p) == IF p = <<>> THEN Len(s) ELSE BackEnd(s, p)

LEMMA BackFound ==
    ASSUME NEW S, "/" \in S, NEW s \in Seq(S), NEW p \in Seq(S), HasSuffix(s, p)
    PROVE  /\ Back(s, p) \in 0..Len(s) /\ BackAt(s, p, Back(s, p))
           /\ IF p = <<>> THEN s = Before(s, Back(s, p))
              ELSE TrimSuffix(TrimSuffix(s, p), <<"/">>) = Before(s, Back(s, p))
<1>1. Len(p) \in Nat /\ Len(s) \in Nat /\ Len(p) <= Len(s)
    BY SuffixByPosition
<1>2. CASE p = <<>>
    BY <1>2 DEF Back, BackAt, Before
<1>3. CASE p # <<>>
  <2>1. BackAt(s, p, BackEnd(s, p))
      BY <1>1, <1>3 DEF BackAt, BackEnd, SlashBefore
  <2> QED
      BY <1>1, <1>3, <2>1, BackTrimmed DEF Back
<1> QED
    BY <1>2, <1>3

(* What follows position a, by the positions of the whole. *)
LEMMA RestFacts ==
    ASSUME NEW S, NEW s \in Seq(S), NEW q \in Seq(S), NEW a \in 0..Len(s)
    PROVE  /\ From(s, a + 1) \in Seq(S) /\ Len(From(s, a + 1)) = Len(s) - a
           /\ \A x \in 1..Len(s) - a : From(s, a + 1)[x] = s[a + x]
           /\ HasSuffix(From(s, a + 1), q)
                 <=> HasSuffix(s, q) /\ Len(q) <= Len(s) - a
<1> DEFINE rest == From(s, a + 1)
<1>1. Len(s) \in Nat /\ Len(q) \in Nat /\ a \in Nat /\ Len(s) - a \in Nat
    OBVIOUS
<1>2. /\ rest \in Seq(S) /\ Len(rest) = Len(s) - a
      /\ \A x \in 1..Len(s) - a : rest[x] = s[a + x]
    BY DEF From
<1> HIDE DEF rest
<1>3. rest \in Seq(S) => (HasSuffix(rest, q)
         <=> /\ Len(q) <= Len(rest)
             /\ \A x \in 1..Len(q) : rest[Len(rest) - Len(q) + x] = q[x])
    BY SuffixByPosition
<1>4. HasSuffix(s, q)
         <=> /\ Len(q) <= Len(s)
             /\ \A x \in 1..Len(q) : s[Len(s) - Len(q) + x] = q[x]
    BY SuffixByPosition
<1>5. ASSUME Len(q) <= Len(s) - a, NEW x \in 1..Len(q)
      PROVE  rest[Len(rest) - Len(q) + x] = s[Len(s) - Len(q) + x]
  <2>1. /\ Len(rest) - Len(q) + x \in 1..Len(s) - a
        /\ a + (Len(rest) - Len(q) + x) = Len(s) - Len(q) + x
      BY <1>1, <1>2, <1>5
  <2> QED
      BY <1>2, <2>1
<1>6. Len(q) <= Len(s) - a => Len(q) <= Len(s)
    BY <1>1
<1>7. HasSuffix(rest, q) <=> HasSuffix(s, q) /\ Len(q) <= Len(s) - a
    BY <1>2, <1>3, <1>4, <1>5, <1>6
<1> QED
    BY <1>2, <1>7 DEF rest

(* The trims, in their order, find the ends of the middle.                   *)
Rest(s, p) == IF p = <<>> THEN s ELSE TrimPrefix(TrimPrefix(s, p), <<"/">>)
Middle(r, q) == IF q = <<>> THEN r ELSE TrimSuffix(TrimSuffix(r, q), <<"/">>)

LEMMA TrimsFind ==
    ASSUME NEW S, "/" \in S, NEW s \in Seq(S), NEW p \in Seq(S), NEW q \in Seq(S),
           HasPrefix(s, p), HasSuffix(Rest(s, p), q)
    PROVE  \E a \in 0..Len(s) : \E b \in a..Len(s) :
              /\ a = Front(s, p) /\ b = a + Back(Rest(s, p), q)
              /\ FrontAt(s, p, a) /\ BackAt(s, q, b)
              /\ Middle(Rest(s, p), q) = SubSeq(s, a + 1, b)
<1> DEFINE rest == Rest(s, p)
           a == Front(s, p)
           c == Back(rest, q)
<1>1. a \in 0..Len(s) /\ FrontAt(s, p, a) /\ rest = From(s, a + 1)
    BY FrontFound DEF Rest
<1> HIDE DEF a, rest
<1>2. /\ rest \in Seq(S) /\ Len(rest) = Len(s) - a
      /\ \A x \in 1..Len(s) - a : rest[x] = s[a + x]
      /\ HasSuffix(rest, q) <=> HasSuffix(s, q) /\ Len(q) <= Len(s) - a
    BY <1>1, RestFacts, ZenonT(40)
<1>3. HasSuffix(rest, q)
    BY DEF rest
<1>4. /\ c \in 0..Len(rest) /\ BackAt(rest, q, c)
      /\ Middle(rest, q) = Before(rest, c)
  <2>1. rest \in Seq(S) /\ HasSuffix(rest, q)
      BY <1>2, <1>3
  <2>2. /\ Back(rest, q) \in 0..Len(rest) /\ BackAt(rest, q, Back(rest, q))
        /\ IF q = <<>> THEN rest = Before(rest, Back(rest, q))
           ELSE TrimSuffix(TrimSuffix(rest, q), <<"/">>) = Before(rest, Back(rest, q))
      BY <2>1, BackFound
  <2> QED
      BY <2>2 DEF Middle
<1> HIDE DEF c
<1>5. Len(s) \in Nat /\ Len(q) \in Nat /\ a \in Nat /\ c \in Nat
    BY <1>1, <1>2, <1>4
<1>6. a + c \in a..Len(s) /\ (a + c) - a = c
    BY <1>1, <1>2, <1>4, <1>5
<1>7. BackAt(s, q, a + c)
  <2>1. CASE q = <<>>
    <3>1. c = Len(rest)
        BY <1>4, <2>1 DEF BackAt
    <3>2. a + c = Len(s)
        BY <1>2, <1>5, <3>1
    <3> QED
        BY <2>1, <3>2 DEF BackAt
  <2>2. CASE q # <<>> /\ c = Len(rest) - Len(q)
    <3>1. a + c = Len(s) - Len(q)
        BY <1>2, <1>5, <2>2
    <3> QED
        BY <1>2, <1>3, <2>2, <3>1 DEF BackAt
  <2>3. CASE q # <<>> /\ c = Len(rest) - Len(q) - 1 /\ rest[c + 1] = "/"
    <3>1. /\ a + c = Len(s) - Len(q) - 1 /\ a + c + 1 = a + (c + 1)
          /\ c + 1 \in 1..Len(s) - a
        BY <1>2, <1>5, <2>3
    <3>2. s[a + c + 1] = "/"
        BY <1>2, <2>3, <3>1
    <3> QED
        BY <1>2, <1>3, <2>3, <3>1, <3>2 DEF BackAt
  <2> QED
      BY <1>4, <2>1, <2>2, <2>3 DEF BackAt
<1>8. Middle(rest, q) = SubSeq(s, a + 1, a + c)
  <2>1. SubSeq(SubSeq(s, a + 1, Len(s)), a - a + 1, (a + c) - a) = SubSeq(s, a + 1, a + c)
    <3>1. Len(s) \in a..Len(s) /\ a \in a..Len(s) /\ a + c \in a..Len(s)
        BY <1>1, <1>5, <1>6
    <3> QED
        BY <1>1, <3>1, PartOfPart
  <2>2. a - a + 1 = 1
      BY <1>5
  <2> QED
      BY <1>1, <1>4, <1>6, <2>1, <2>2 DEF Before, From
<1> QED
    BY <1>1, <1>6, <1>7, <1>8 DEF a, c, rest

(* Wherever the pieces fit, they fit where the trims look.                   *)
LEMMA FitsAtFront ==
    ASSUME NEW S, "/" \in S, NEW s \in Seq(S), NEW p \in Seq(S), NEW q \in Seq(S),
           Len(q) > 0 => q[1] # "/",
           NEW a \in 0..Len(s), NEW b \in a..Len(s),
           FrontAt(s, p, a), BackAt(s, q, b), SegmentsAt(s, a, b)
    PROVE  /\ HasPrefix(s, p)
           /\ Front(s, p) \in 0..Len(s)
           /\ \E c \in Front(s, p)..Len(s) :
                 BackAt(s, q, c) /\ SegmentsAt(s, Front(s, p), c)
<1> DEFINE f == Front(s, p)
<1>1. Len(s) \in Nat /\ Len(p) \in Nat /\ Len(q) \in Nat /\ a \in Nat /\ b \in Nat
    OBVIOUS
<1>2. HasPrefix(s, p)
  <2>1. p = <<>> => HasPrefix(s, p)
      BY EmptyFits
  <2> QED
      BY <2>1 DEF FrontAt
<1>3. f \in 0..Len(s)
    BY <1>2, FrontFound
<1>4. f = a \/ (p # <<>> /\ f = a + 1 /\ s[a + 1] = "/" /\ a < Len(s))
  <2>1. CASE p = <<>>
      BY <2>1 DEF Front, FrontAt
  <2>2. CASE p # <<>>
      BY <1>1, <2>2 DEF Front, FrontAt, FrontEnd, SlashAfter
  <2> QED
      BY <2>1, <2>2
<1> HIDE DEF f
<1>5. CASE f = a
    BY <1>2, <1>3, <1>5 DEF f
<1>6. CASE f = a + 1 /\ s[a + 1] = "/" /\ a < Len(s)
  <2>1. a = b
      BY <1>1, <1>6, SegmentsFacts
  <2>2. q # <<>> /\ HasSuffix(s, q)
      BY <1>1, <1>6, <2>1 DEF BackAt
  <2>3. Len(q) > 0
      BY <2>2
  <2>4. Len(q) <= Len(s) /\ s[Len(s) - Len(q) + 1] = q[1]
    <3>1. Len(q) <= Len(s) /\ \A x \in 1..Len(q) : s[Len(s) - Len(q) + x] = q[x]
        BY <2>2, SuffixByPosition
    <3> QED
        BY <1>1, <2>3, <3>1
  <2>5. a # Len(s) - Len(q)
      BY <1>6, <2>3, <2>4
  <2>6. f = Len(s) - Len(q)
      BY <1>1, <1>6, <2>1, <2>2, <2>5 DEF BackAt
  <2>7. BackAt(s, q, f)
      BY <2>2, <2>6 DEF BackAt
  <2>8. SegmentsAt(s, f, f)
      BY <1>3, NothingBetween
  <2>9. f \in f..Len(s)
      BY <1>3
  <2> QED
      BY <1>2, <1>3, <2>7, <2>8, <2>9 DEF f
<1> QED
    BY <1>4, <1>5, <1>6

LEMMA FitsAtBack ==
    ASSUME NEW S, "/" \in S, NEW s \in Seq(S), NEW p \in Seq(S), NEW q \in Seq(S),
           HasPrefix(s, p), Front(s, p) \in 0..Len(s),
           NEW c \in Front(s, p)..Len(s),
           BackAt(s, q, c), SegmentsAt(s, Front(s, p), c)
    PROVE  /\ HasSuffix(Rest(s, p), q)
           /\ c = Front(s, p) + Back(Rest(s, p), q)
<1> DEFINE f == Front(s, p)
           rest == Rest(s, p)
<1>1. rest = From(s, f + 1)
    BY FrontFound DEF Rest
<1> HIDE DEF rest
<1>2. f \in 0..Len(s) /\ c \in f..Len(s) /\ SegmentsAt(s, f, c)
    OBVIOUS
<1> HIDE DEF f
<1>3. /\ rest \in Seq(S) /\ Len(rest) = Len(s) - f
      /\ \A x \in 1..Len(s) - f : rest[x] = s[f + x]
      /\ HasSuffix(rest, q) <=> HasSuffix(s, q) /\ Len(q) <= Len(s) - f
    BY <1>1, <1>2, RestFacts, ZenonT(40)
<1>4. Len(s) \in Nat /\ Len(q) \in Nat /\ f \in Nat /\ c \in Nat
    BY <1>2
<1>5. CASE q = <<>>
  <2>1. HasSuffix(s, q) /\ Len(q) = 0
      BY <1>5, EmptyFits
  <2>2. c = Len(s)
      BY <1>5 DEF BackAt
  <2>3. HasSuffix(rest, q) /\ Back(rest, q) = Len(s) - f
      BY <1>2, <1>3, <1>4, <1>5, <2>1 DEF Back
  <2>4. c = f + Back(rest, q)
      BY <1>4, <2>2, <2>3
  <2> QED
      BY <2>3, <2>4 DEF rest, f
<1>6. CASE q # <<>>
  <2> DEFINE n == Len(s) - Len(q)
             m == Len(rest) - Len(q)
  <2>1. HasSuffix(s, q) /\ Len(q) <= Len(s) /\ (c = n \/ (c = n - 1 /\ s[n] = "/"))
    <3>1. HasSuffix(s, q) /\ (c = n \/ (c = n - 1 /\ s[c + 1] = "/"))
        BY <1>6 DEF BackAt
    <3>2. n - 1 + 1 = n
        BY <1>4
    <3> QED
        BY <3>1, <3>2, SuffixByPosition
  <2>2. f <= n /\ Len(q) <= Len(s) - f
      BY <1>2, <1>4, <2>1
  <2>3. HasSuffix(rest, q) /\ m = n - f /\ m >= 0
      BY <1>3, <1>4, <2>1, <2>2
  <2>4. m > 0 => rest[m] = s[n]
    <3>1. m > 0 => m \in 1..Len(s) - f /\ f + m = n
        BY <1>3, <1>4, <2>3
    <3> QED
        BY <1>3, <3>1
  <2>5. Back(rest, q) = IF m > 0 /\ s[n] = "/" THEN m - 1 ELSE m
      BY <1>6, <2>4 DEF Back, BackEnd, SlashBefore
  <2>6. CASE c = n
    <3>1. ~(m > 0 /\ s[n] = "/")
      <4>1. m > 0 => f < c
          BY <1>4, <2>3, <2>6
      <4>2. f < c => s[c] # "/"
          BY <1>2, SegmentsFacts
      <4> QED
          BY <2>6, <4>1, <4>2
    <3>2. c = f + Back(rest, q)
        BY <1>4, <2>3, <2>5, <2>6, <3>1
    <3> QED
        BY <2>3, <3>2 DEF rest, f
  <2>7. CASE c = n - 1 /\ s[n] = "/"
    <3>1. m > 0
        BY <1>2, <1>4, <2>3, <2>7
    <3>2. c = f + Back(rest, q)
        BY <1>4, <2>3, <2>5, <2>7, <3>1
    <3> QED
        BY <2>3, <3>2 DEF rest, f
  <2> QED
      BY <2>1, <2>6, <2>7
<1> QED
    BY <1>5, <1>6

LEMMA PartsOfPattern ==
    ASSUME NEW S, NEW p \in Seq(S), DoubleStars(p) # {}
    PROVE  /\ PrefixOf(p) \in Seq(S) /\ SuffixOf(p) \in Seq(S)
           /\ Len(SuffixOf(p)) > 0 => SuffixOf(p)[1] # "/"
<1>1. FirstDoubleStar(p) \in DoubleStars(p)
  <2>1. DoubleStars(p) \subseteq Nat
      BY DEF DoubleStars
  <2>2. \E n \in DoubleStars(p) : \A m \in DoubleStars(p) : n <= m
      BY <2>1, SmallestExists
  <2> QED
      BY <2>2 DEF FirstDoubleStar
<1>2. FirstDoubleStar(p) \in 1..Len(p) - 1 /\ Len(p) \in Nat
    BY <1>1 DEF DoubleStars
<1>3. /\ Before(p, FirstDoubleStar(p) - 1) \in Seq(S)
      /\ From(p, FirstDoubleStar(p) + 2) \in Seq(S)
    BY <1>2 DEF Before, From
<1> QED
    BY <1>3, TrimmedRight, TrimmedLeft DEF PrefixOf, SuffixOf

(* For every text and every pattern with a "**": the trims of                *)
(* matchDoubleStar accept exactly the texts that are a prefix, a slash or    *)
(* none, whole segments or nothing, a slash or none, and a suffix, one after *)
(* the other (aic.go:396-428).                                               *)
THEOREM DoubleStarIsMeaning ==
    ASSUME NEW S, NEW id \in Seq(S), NEW p \in Seq(S), DoubleStars(p) # {}
    PROVE  MatchDoubleStar(id, p) <=> DoubleStarFits(id, p)
<1> DEFINE T == S \cup {"/"}
           pre == PrefixOf(p)
           suf == SuffixOf(p)
<1>1. id \in Seq(T) /\ "/" \in T /\ p \in Seq(T)
    OBVIOUS
<1> HIDE DEF T
<1>2. pre \in Seq(T) /\ suf \in Seq(T) /\ (Len(suf) > 0 => suf[1] # "/")
    BY <1>1, PartsOfPattern
<1>3. MatchDoubleStar(id, p)
         <=> /\ OneDoubleStar(p) /\ HasPrefix(id, pre)
             /\ HasSuffix(Rest(id, pre), suf)
             /\ \/ Middle(Rest(id, pre), suf) = <<>>
                \/ SegmentsOK(Middle(Rest(id, pre), suf))
    BY DEF MatchDoubleStar, Rest, Middle
<1>4. DoubleStarFits(id, p)
         <=> \E a \in 0..Len(id) : \E b \in a..Len(id) :
                /\ OneDoubleStar(p)
                /\ FrontAt(id, pre, a) /\ BackAt(id, suf, b) /\ SegmentsAt(id, a, b)
  <2> HIDE DEF pre, suf
  <2>1. \A a \in 0..Len(id) : FrontAt(id, pre, a) <=> Before(id, a) \in FrontTexts(pre)
      BY <1>1, <1>2, FrontIsJoined
  <2>2. \A b \in 0..Len(id) : BackAt(id, suf, b) <=> From(id, b + 1) \in BackTexts(suf)
      BY <1>1, <1>2, BackIsJoined
  <2>3. \A a \in 0..Len(id) : \A b \in a..Len(id) : b \in 0..Len(id)
      BY <1>1
  <2>4. DoubleStarFits(id, p)
           <=> \E a \in 0..Len(id) : \E b \in a..Len(id) :
                  /\ OneDoubleStar(p)
                  /\ Before(id, a) \in FrontTexts(pre)
                  /\ From(id, b + 1) \in BackTexts(suf)
                  /\ SegmentsAt(id, a, b)
      BY DEF DoubleStarFits, SegmentsAt, FrontTexts, BackTexts, pre, suf
  <2> QED
      BY <2>1, <2>2, <2>3, <2>4
<1> HIDE DEF pre, suf
<1>5. ASSUME MatchDoubleStar(id, p) PROVE DoubleStarFits(id, p)
  <2>1. \E a \in 0..Len(id) : \E b \in a..Len(id) :
           /\ FrontAt(id, pre, a) /\ BackAt(id, suf, b)
           /\ Middle(Rest(id, pre), suf) = SubSeq(id, a + 1, b)
      BY <1>1, <1>2, <1>3, <1>5, TrimsFind
  <2> QED
      BY <1>3, <1>4, <1>5, <2>1 DEF SegmentsAt
<1>6. ASSUME DoubleStarFits(id, p) PROVE MatchDoubleStar(id, p)
  <2>1. PICK a \in 0..Len(id) : \E b \in a..Len(id) :
           FrontAt(id, pre, a) /\ BackAt(id, suf, b) /\ SegmentsAt(id, a, b)
      BY <1>4, <1>6
  <2>2. PICK b \in a..Len(id) :
           FrontAt(id, pre, a) /\ BackAt(id, suf, b) /\ SegmentsAt(id, a, b)
      BY <2>1
  <2>3. /\ HasPrefix(id, pre) /\ Front(id, pre) \in 0..Len(id)
        /\ \E c \in Front(id, pre)..Len(id) :
              BackAt(id, suf, c) /\ SegmentsAt(id, Front(id, pre), c)
      BY <1>1, <1>2, <2>2, FitsAtFront
  <2>4. PICK c \in Front(id, pre)..Len(id) :
           BackAt(id, suf, c) /\ SegmentsAt(id, Front(id, pre), c)
      BY <2>3
  <2>5. /\ HasSuffix(Rest(id, pre), suf)
        /\ c = Front(id, pre) + Back(Rest(id, pre), suf)
      BY <1>1, <1>2, <2>3, <2>4, FitsAtBack
  <2>6. Middle(Rest(id, pre), suf) = SubSeq(id, Front(id, pre) + 1, c)
    <3>1. \E x \in 0..Len(id) : \E y \in x..Len(id) :
             /\ x = Front(id, pre) /\ y = x + Back(Rest(id, pre), suf)
             /\ FrontAt(id, pre, x) /\ BackAt(id, suf, y)
             /\ Middle(Rest(id, pre), suf) = SubSeq(id, x + 1, y)
      <4>1. /\ id \in Seq(T) /\ pre \in Seq(T) /\ suf \in Seq(T) /\ "/" \in T
            /\ HasPrefix(id, pre) /\ HasSuffix(Rest(id, pre), suf)
          BY <1>1, <1>2, <2>3, <2>5
      <4> QED
          BY <4>1, TrimsFind
    <3> QED
        BY <2>5, <3>1
  <2> QED
      BY <1>3, <1>4, <1>6, <2>3, <2>4, <2>5, <2>6 DEF SegmentsAt
<1> QED
    BY <1>5, <1>6

(* The same of every pair of capability and grant that a session compares    *)
(* (aic.go:396-428).                                                         *)
THEOREM DoubleStarsAreMeanings == Spec => []DoubleStarMeans
<1>1. IInv => DoubleStarMeans
  <2> SUFFICES ASSUME IInv, InLoop, j <= Len(Perms), DoubleStars(Perms[j]) # {}
               PROVE  MatchDoubleStar(FullID(Caps[i]), Perms[j])
                         <=> DoubleStarFits(FullID(Caps[i]), Perms[j])
      BY DEF DoubleStarMeans
  <2> DEFINE id == FullID(Caps[i])
             p == Perms[j]
             T == {id[x] : x \in DOMAIN id} \cup {p[x] : x \in DOMAIN p}
  <2>1. i \in DOMAIN Caps /\ j \in DOMAIN Perms
    <3>1. /\ DOMAIN Caps = 1..Len(Caps) /\ DOMAIN Perms = 1..Len(Perms)
        BY ListFacts DEF IInv, Lists, IsCaps, AreLists
    <3> QED
        BY <3>1, LoopFacts DEF InLoop
  <2>2. IsList(id) /\ IsList(p)
      BY <2>1, FullIDIsList DEF IInv, Lists, IsCaps, AreLists
  <2> HIDE DEF id, p
  <2>3. id \in Seq(T) /\ p \in Seq(T)
    <3>1. /\ {id[x] : x \in DOMAIN id} \subseteq T
          /\ {p[x] : x \in DOMAIN p} \subseteq T
        OBVIOUS
    <3> HIDE DEF T
    <3> QED
        BY <2>2, <3>1, ListIsText
  <2> HIDE DEF T
  <2>4. DoubleStars(p) # {}
      BY DEF p
  <2>5. MatchDoubleStar(id, p) <=> DoubleStarFits(id, p)
      BY <2>3, <2>4, DoubleStarIsMeaning
  <2> QED
      BY <2>5 DEF id, p
<1> QED
    BY <1>1, Inductive, PTL

-----------------------------------------------------------------------------
(* The identity.                                                             *)

(* Where the colons of the text of an identity are.                          *)
LEMMA JoinFacts ==
    ASSUME NEW T, NEW s \in Seq(T), NEW u \in Seq(T)
    PROVE  /\ s \o u \in Seq(T) /\ Len(s \o u) = Len(s) + Len(u)
           /\ Len(s) \in Nat /\ Len(u) \in Nat
           /\ \A x \in 1..Len(s) : (s \o u)[x] = s[x]
           /\ \A x \in 1..Len(u) : (s \o u)[Len(s) + x] = u[x]
OBVIOUS

LEMMA OneFacts ==
    ASSUME NEW T, NEW e \in T
    PROVE  <<e>> \in Seq(T) /\ Len(<<e>>) = 1 /\ <<e>>[1] = e
OBVIOUS

LEMMA JoinOneFacts ==
    ASSUME NEW T, NEW s \in Seq(T), NEW e \in T
    PROVE  /\ s \o <<e>> \in Seq(T) /\ Len(s \o <<e>>) = Len(s) + 1
           /\ Len(s) \in Nat
           /\ \A x \in 1..Len(s) : (s \o <<e>>)[x] = s[x]
           /\ (s \o <<e>>)[Len(s) + 1] = e
OBVIOUS

(* The text of r, n and h, whose colons are at mid and last.                 *)
IsTextOf(t, r, n, h, mid, last) ==
    /\ mid \in Nat /\ last \in Nat
    /\ mid = Len(r) + 1 /\ last = mid + Len(n) + 1 /\ Len(t) = last + 1
    /\ \A x \in 1..Len(r) : t[x] = r[x]
    /\ t[mid] = ":"
    /\ \A x \in 1..Len(n) : t[mid + x] = n[x]
    /\ t[last] = ":" /\ t[last + 1] = h

LEMMA TextOfUid ==
    ASSUME NEW T, NEW r \in Seq(T), NEW n \in Seq(T), NEW h \in T, ":" \in T,
           NEW t, t = r \o <<":">> \o n \o <<":">> \o <<h>>
    PROVE  t \in Seq(T) /\ \E mid, last : IsTextOf(t, r, n, h, mid, last)
<1> PICK a : a = r \o <<":">>
    OBVIOUS
<1> PICK b : b = a \o n
    OBVIOUS
<1> PICK c : c = b \o <<":">>
    OBVIOUS
<1> PICK mid : mid = Len(r) + 1
    OBVIOUS
<1> PICK last : last = mid + Len(n) + 1
    OBVIOUS
<1>1. Len(r) \in Nat /\ Len(n) \in Nat /\ mid \in Nat /\ last \in Nat
    OBVIOUS
<1>2. /\ a \in Seq(T) /\ Len(a) = mid
      /\ \A x \in 1..Len(r) : a[x] = r[x]
      /\ a[mid] = ":"
    BY JoinOneFacts
<1>3. /\ b \in Seq(T) /\ Len(b) = mid + Len(n)
      /\ \A x \in 1..Len(a) : b[x] = a[x]
      /\ \A x \in 1..Len(n) : b[Len(a) + x] = n[x]
    BY <1>2, JoinFacts
<1>4. /\ c \in Seq(T) /\ Len(c) = Len(b) + 1
      /\ \A x \in 1..Len(b) : c[x] = b[x]
      /\ c[Len(b) + 1] = ":"
    BY <1>3, JoinOneFacts
<1>5. t = c \o <<h>>
    OBVIOUS
<1>6. /\ t \in Seq(T) /\ Len(t) = Len(c) + 1
      /\ \A x \in 1..Len(c) : t[x] = c[x]
      /\ t[Len(c) + 1] = h
    BY <1>4, <1>5, JoinOneFacts
<1>7. \A x \in 1..mid : t[x] = a[x]
    BY <1>1, <1>2, <1>3, <1>4, <1>6
<1>8. \A x \in 1..Len(n) : t[mid + x] = n[x]
  <2> TAKE x \in 1..Len(n)
  <2>1. mid + x \in 1..Len(b) /\ mid + x \in 1..Len(c)
      BY <1>1, <1>3, <1>4
  <2> QED
      BY <1>2, <1>3, <1>4, <1>6, <2>1
<1>9. \A x \in 1..Len(r) : t[x] = r[x]
    BY <1>1, <1>2, <1>7
<1>10. t[mid] = ":" /\ t[last] = ":" /\ t[last + 1] = h /\ Len(t) = last + 1
    BY <1>1, <1>2, <1>3, <1>4, <1>6, <1>7
<1>11. IsTextOf(t, r, n, h, mid, last)
    BY <1>1, <1>8, <1>9, <1>10 DEF IsTextOf
<1> QED
    BY <1>6, <1>11

OnlyThese(E, mid, last) == E = {mid, last}

HasColon(s) == ":" \in {s[x] : x \in DOMAIN s}

LEMMA ColonsOfText ==
    ASSUME NEW T, NEW t \in Seq(T), NEW r \in Seq(T), NEW n \in Seq(T),
           NEW h, h # ":", NEW mid, NEW last, IsTextOf(t, r, n, h, mid, last)
    PROVE  /\ Colons(t) \subseteq 1..last
           /\ mid \in Colons(t) /\ last \in Colons(t)
           /\ OnlyThese(Colons(t), mid, last) <=> ~HasColon(r) /\ ~HasColon(n)
<1>1. /\ mid \in Nat /\ last \in Nat /\ Len(r) \in Nat /\ Len(n) \in Nat
      /\ mid = Len(r) + 1 /\ last = mid + Len(n) + 1
      /\ DOMAIN r = 1..Len(r) /\ DOMAIN n = 1..Len(n)
      /\ DOMAIN t = 1..last + 1
    BY DEF IsTextOf
<1>2. /\ \A x \in 1..Len(r) : t[x] = r[x]
      /\ t[mid] = ":"
      /\ \A x \in 1..Len(n) : t[mid + x] = n[x]
      /\ t[last] = ":" /\ t[last + 1] = h
    BY DEF IsTextOf
<1>3. \A x : x \in Colons(t) <=> x \in 1..last + 1 /\ t[x] = ":"
    BY <1>1 DEF Colons
<1>4. Colons(t) \subseteq 1..last
  <2>1. ASSUME NEW x \in Colons(t) PROVE x \in 1..last
    <3>1. x \in 1..last + 1 /\ x # last + 1
        BY <1>2, <1>3
    <3> QED
        BY <1>1, <3>1, SMTT(30)
  <2> QED
      BY <2>1
<1>5. mid \in Colons(t) /\ last \in Colons(t)
    BY <1>1, <1>2, <1>3, SMTT(30)
<1>6. ASSUME ~HasColon(r), ~HasColon(n), NEW x \in Colons(t), x # mid, x # last
      PROVE  FALSE
  <2>1. x \in 1..last /\ t[x] = ":"
      BY <1>3, <1>4
  <2>2. CASE x < mid
    <3>1. x \in 1..Len(r)
        BY <1>1, <2>1, <2>2
    <3> QED
        BY <1>1, <1>2, <1>6, <2>1, <3>1, SMTT(30) DEF HasColon
  <2>3. CASE x > mid
    <3>1. x - mid \in 1..Len(n) /\ mid + (x - mid) = x
        BY <1>1, <1>6, <2>1, <2>3
    <3>2. t[mid + (x - mid)] = n[x - mid]
        BY <1>2, <3>1
    <3> QED
        BY <1>1, <1>6, <2>1, <3>1, <3>2 DEF HasColon
  <2> QED
      BY <1>1, <1>6, <2>1, <2>2, <2>3
<1>7. ASSUME HasColon(r) \/ HasColon(n)
      PROVE  \E c \in Colons(t) : c # mid /\ c # last
  <2>1. CASE HasColon(r)
    <3>1. PICK x \in 1..Len(r) : r[x] = ":"
        BY <1>1, <2>1 DEF HasColon
    <3>2. t[x] = ":" /\ x \in 1..last + 1 /\ x # mid /\ x # last
        BY <1>1, <1>2, <3>1
    <3> QED
        BY <1>3, <3>2
  <2>2. CASE HasColon(n)
    <3>1. PICK x \in 1..Len(n) : n[x] = ":"
        BY <1>1, <2>2 DEF HasColon
    <3>2. t[mid + x] = ":"
        BY <1>2, <3>1
    <3>3. mid + x \in 1..last + 1 /\ mid + x # mid /\ mid + x # last
        BY <1>1
    <3> QED
        BY <1>3, <3>2, <3>3
  <2> QED
      BY <1>7, <2>1, <2>2
<1>8. ~HasColon(r) /\ ~HasColon(n) => Colons(t) = {mid, last}
    BY <1>5, <1>6
<1> QED
    BY <1>4, <1>5, <1>7, <1>8 DEF OnlyThese

(* The first two colons split the text.                                      *)
LEMMA FirstIsFirst ==
    ASSUME NEW E, E # {}, E \subseteq Nat
    PROVE  FirstOf(E) \in E /\ \A m \in E : FirstOf(E) <= m
BY SmallestExists DEF FirstOf

LEMMA FirstTwo ==
    ASSUME NEW E, E \subseteq Nat, NEW mid \in E, NEW last \in E, mid < last,
           \A x \in E : x <= last
    PROVE  /\ \A x \in E : E \ {x} # {}
           /\ FirstOf(E \ {FirstOf(E)}) \in E
           /\ E = {mid, last} =>
                  FirstOf(E) = mid /\ FirstOf(E \ {FirstOf(E)}) = last
           /\ E # {mid, last} => FirstOf(E \ {FirstOf(E)}) < last
<1> PICK first : first = FirstOf(E)
    OBVIOUS
<1> PICK second : second = FirstOf(E \ {first})
    OBVIOUS
<1>1. mid \in Nat /\ last \in Nat
    OBVIOUS
<1>2. \A x \in E : E \ {x} # {}
    BY <1>1
<1>3. first \in E /\ \A m \in E : first <= m
    BY FirstIsFirst
<1>4. second \in E \ {first} /\ \A m \in E \ {first} : second <= m
  <2>1. E \ {first} # {} /\ E \ {first} \subseteq Nat
      BY <1>2, <1>3
  <2> QED
      BY <2>1, FirstIsFirst
<1>5. ASSUME E = {mid, last} PROVE first = mid /\ second = last
  <2>1. first = mid
      BY <1>1, <1>3, <1>5
  <2> QED
      BY <1>4, <1>5, <2>1
<1>6. ASSUME NEW c \in E, c # mid, c # last PROVE second < last
  <2>1. c \in Nat /\ second \in Nat /\ c < last
      BY <1>1, <1>4, <1>6
  <2>2. c \in E \ {first} \/ mid \in E \ {first}
      BY <1>6
  <2>3. second <= c \/ second <= mid
      BY <1>4, <2>2
  <2> QED
      BY <1>1, <2>1, <2>3
<1> QED
    BY <1>2, <1>4, <1>5, <1>6

LEMMA PartsOfText ==
    ASSUME NEW T, NEW t \in Seq(T), NEW r \in Seq(T), NEW n \in Seq(T),
           NEW h, NEW mid, NEW last, IsTextOf(t, r, n, h, mid, last)
    PROVE  /\ Before(t, mid - 1) = r
           /\ SubSeq(t, mid + 1, last - 1) = n
           /\ From(t, last + 1) = <<h>>
           /\ \A c \in 1..last : Len(From(t, c + 1)) = last + 1 - c
<1>1. /\ mid \in Nat /\ last \in Nat /\ Len(r) \in Nat /\ Len(n) \in Nat
      /\ mid = Len(r) + 1 /\ last = mid + Len(n) + 1 /\ Len(t) = last + 1
    BY DEF IsTextOf
<1>2. /\ \A x \in 1..Len(r) : t[x] = r[x]
      /\ \A x \in 1..Len(n) : t[mid + x] = n[x]
      /\ t[last + 1] = h
    BY DEF IsTextOf
<1>3. SubSeq(t, 1, mid - 1) = r
  <2> DEFINE part == SubSeq(t, 1, mid - 1)
  <2>1. /\ part \in Seq(T) /\ Len(part) = Len(r)
        /\ \A x \in 1..Len(r) : part[x] = t[x]
      BY <1>1
  <2> HIDE DEF part
  <2>2. part = r
      BY <1>2, <2>1, SameSequence
  <2> QED
      BY <2>2 DEF part
<1>4. SubSeq(t, mid + 1, last - 1) = n
  <2> DEFINE part == SubSeq(t, mid + 1, last - 1)
  <2>1. /\ part \in Seq(T) /\ Len(part) = Len(n)
        /\ \A x \in 1..Len(n) : part[x] = t[mid + x]
      BY <1>1
  <2> HIDE DEF part
  <2>2. part = n
      BY <1>2, <2>1, SameSequence
  <2> QED
      BY <2>2 DEF part
<1>5. SubSeq(t, last + 1, last + 1) = <<h>>
  <2> DEFINE part == SubSeq(t, last + 1, last + 1)
  <2>1. part \in Seq(T) /\ Len(part) = 1 /\ part[1] = t[last + 1]
      BY <1>1
  <2> HIDE DEF part
  <2>2. part = <<h>>
      BY <1>2, <2>1
  <2> QED
      BY <2>2 DEF part
<1>6. \A c \in 1..last : Len(SubSeq(t, c + 1, last + 1)) = last + 1 - c
    BY <1>1
<1> QED
    BY <1>1, <1>3, <1>4, <1>5, <1>6 DEF Before, From

(* What ParsePrincipalUid reads of a text with a fingerprint in its place.   *)
LEMMA TextIsReadBack ==
    ASSUME NEW T, NEW t \in Seq(T), NEW r \in Seq(T), NEW n \in Seq(T),
           Len(r) \in 1..Limits.realm, Len(n) \in 1..Limits.identifier,
           NEW h \in KeyHashes, HashLen[h] <= 64, h # ":",
           NEW mid, NEW last, IsTextOf(t, r, n, h, mid, last)
    PROVE  ParsePrincipalUid(t)
              = IF HasColon(r) \/ HasColon(n) THEN <<>>
                ELSE <<[realm |-> r, identifier |-> n, hash |-> h,
                        algo |-> "sha256"]>>
<1>1. mid \in Nat /\ last \in Nat /\ mid < last
  <2>1. /\ mid \in Nat /\ last \in Nat /\ last = mid + Len(n) + 1
      BY DEF IsTextOf
  <2> QED
      BY <2>1
<1>2. /\ Colons(t) \subseteq 1..last
      /\ mid \in Colons(t) /\ last \in Colons(t)
      /\ OnlyThese(Colons(t), mid, last) <=> ~HasColon(r) /\ ~HasColon(n)
    BY ColonsOfText
<1>3. /\ Before(t, mid - 1) = r
      /\ SubSeq(t, mid + 1, last - 1) = n
      /\ From(t, last + 1) = <<h>>
      /\ \A c \in 1..last : Len(From(t, c + 1)) = last + 1 - c
    BY PartsOfText
<1> PICK C : C = Colons(t)
    OBVIOUS
<1>4. C \subseteq Nat /\ mid \in C /\ last \in C /\ \A x \in C : x <= last
    BY <1>1, <1>2
<1>5. /\ \A x \in C : C \ {x} # {}
      /\ FirstOf(C \ {FirstOf(C)}) \in C
      /\ C = {mid, last} =>
             FirstOf(C) = mid /\ FirstOf(C \ {FirstOf(C)}) = last
      /\ C # {mid, last} => FirstOf(C \ {FirstOf(C)}) < last
  <2>1. \A E : E \subseteq Nat /\ mid \in E /\ last \in E /\ (\A x \in E : x <= last) =>
          /\ \A x \in E : E \ {x} # {}
          /\ FirstOf(E \ {FirstOf(E)}) \in E
          /\ E = {mid, last} =>
                 FirstOf(E) = mid /\ FirstOf(E \ {FirstOf(E)}) = last
          /\ E # {mid, last} => FirstOf(E \ {FirstOf(E)}) < last
      BY <1>1, FirstTwo
  <2> QED
      BY <1>4, <2>1
<1> PICK first : first = FirstOf(C)
    OBVIOUS
<1> PICK second : second = FirstOf(C \ {first})
    OBVIOUS
<1>6. ParsePrincipalUid(t) = ReadUid(t, first, second)
  <2>1. ~\A x \in Colons(t) : Colons(t) \ {x} = {}
      BY <1>2, <1>5
  <2> QED
      BY <2>1 DEF ParsePrincipalUid
<1>7. CASE ~HasColon(r) /\ ~HasColon(n)
  <2>1. first = mid /\ second = last
      BY <1>2, <1>5, <1>7 DEF OnlyThese
  <2>2. Len(<<h>>) = 1 /\ <<h>>[1] = h
      OBVIOUS
  <2>3. ReadUid(t, mid, last)
           = <<[realm |-> r, identifier |-> n, hash |-> h, algo |-> "sha256"]>>
      BY <1>3, <2>2 DEF ReadUid
  <2> QED
      BY <1>6, <1>7, <2>1, <2>3
<1>8. CASE HasColon(r) \/ HasColon(n)
  <2>1. second < last /\ second \in 1..last
      BY <1>2, <1>5, <1>8 DEF OnlyThese
  <2>2. Len(From(t, second + 1)) = last + 1 - second
      BY <1>3, <2>1
  <2>3. last + 1 - second # 1
      BY <1>1, <2>1
  <2>4. ReadUid(t, first, second) = <<>>
      BY <2>2, <2>3 DEF ReadUid
  <2> QED
      BY <1>6, <1>8, <2>4
<1> QED
    BY <1>7, <1>8

LEMMA UidIsReadBack ==
    ASSUME NEW r, IsList(r), NEW n, IsList(n),
           Len(r) \in 1..Limits.realm, Len(n) \in 1..Limits.identifier,
           NEW h \in KeyHashes, HashLen[h] <= 64
    PROVE  ParsePrincipalUid(r \o <<":">> \o n \o <<":">> \o <<h>>)
              = IF HasColon(r) \/ HasColon(n) THEN <<>>
                ELSE <<[realm |-> r, identifier |-> n, hash |-> h,
                        algo |-> "sha256"]>>
<1>1. h # ":"
    BY HashAssumption
<1>2. PICK T : r \in Seq(T) /\ n \in Seq(T) /\ h \in T /\ ":" \in T
  <2> DEFINE T == {r[x] : x \in DOMAIN r} \cup {n[x] : x \in DOMAIN n} \cup {h, ":"}
  <2>1. /\ {r[x] : x \in DOMAIN r} \subseteq T /\ {n[x] : x \in DOMAIN n} \subseteq T
        /\ h \in T /\ ":" \in T
      OBVIOUS
  <2> HIDE DEF T
  <2>2. r \in Seq(T) /\ n \in Seq(T)
      BY <2>1, ListIsText
  <2> QED
      BY <2>1, <2>2
<1> DEFINE t == r \o <<":">> \o n \o <<":">> \o <<h>>
<1>3. t \in Seq(T) /\ \E mid, last : IsTextOf(t, r, n, h, mid, last)
    BY <1>2, TextOfUid
<1> HIDE DEF t
<1>4. PICK mid, last : IsTextOf(t, r, n, h, mid, last)
    BY <1>3
<1>5. ParsePrincipalUid(t)
              = IF HasColon(r) \/ HasColon(n) THEN <<>>
                ELSE <<[realm |-> r, identifier |-> n, hash |-> h,
                        algo |-> "sha256"]>>
    BY <1>1, <1>2, <1>3, <1>4, TextIsReadBack
<1> QED
    BY <1>5 DEF t

-----------------------------------------------------------------------------
(* What has been read and found valid; the text and what was read of it; and *)
(* the identity that an order was given.                                     *)
IsRead(uid) == ParsePrincipalUid(PrincipalText(uid))

Unread == phase \in {"issue", "parseAIC"} => aic = Nil

AICTyped == aic # Nil => IsUid(aic.uid)

AICValid == (phase \in {"name", "parsePA", "intersect", "done"} /\ aic # Nil) =>
                ValidateAIC(aic)

NameRead == (phase \in {"parsePA", "intersect", "done"} /\ aic # Nil) =>
                named = IsRead(aic.uid)

GivenUid == (order # NoOrder /\ phase = "parseAIC") =>
                /\ 1 \in DOMAIN cert /\ cert[1].oid = "AIC"
                /\ KeyHashOK(cert[1].value.uid.hash, cert[1].value.uid.algo)

IdInv == Unread /\ AICTyped /\ AICValid /\ NameRead /\ GivenUid

LEMMA IdInit == Init => IdInv
<1> SUFFICES ASSUME Init PROVE IdInv
    OBVIOUS
<1>1. /\ aic = Nil /\ phase \in {"issue", "parseAIC"}
      /\ phase = "issue" \/ order = NoOrder
    BY DEF Init
<1> QED
    BY <1>1 DEF IdInv, Unread, AICTyped, AICValid, NameRead, GivenUid

LEMMA IdStep == IInv /\ IdInv /\ [Next]_vars => IdInv'
<1> SUFFICES ASSUME IInv, IdInv, [Next]_vars PROVE IdInv'
    OBVIOUS
<1> USE DEF IdInv, Unread, AICTyped, AICValid, NameRead, GivenUid
<1>1. CASE Issue
  <2>1. phase' = "parseAIC" /\ aic' = Nil /\ order \in Orders /\ Uid # <<>>
      BY <1>1 DEF Issue, Issuable, IInv, Ordered
  <2>2. /\ 1 \in DOMAIN cert' /\ cert'[1].oid = "AIC"
        /\ cert'[1].value.uid = Uid[1]
      BY <1>1, IssuedExtension
  <2>3. KeyHashOK(Uid[1].hash, Uid[1].algo)
      BY <2>1, MadeUid
  <2> QED
      BY <2>1, <2>2, <2>3
<1>2. CASE NotIssued
    BY <1>2 DEF NotIssued
<1>3. CASE AICAbsent
    BY <1>3 DEF AICAbsent
<1>4. CASE ParseAIC
  <2>1. \/ aic' = Nil /\ phase' = "refused"
        \/ /\ aic' = Extension(cert, "AIC").value /\ Extension(cert, "AIC").ok
           /\ phase' = "validateAIC"
      BY <1>4 DEF ParseAIC
  <2>2. ~NoExtension(cert, "AIC")
      BY <1>4 DEF ParseAIC
  <2> QED
      BY <2>1, <2>2, ExtensionIsDecodable
<1>5. CASE CheckAIC
    BY <1>5 DEF CheckAIC
<1>6. CASE Name
    BY <1>6 DEF Name, IsRead
<1>7. CASE PAAbsent
    BY <1>7 DEF PAAbsent
<1>8. CASE ParsePA
    BY <1>8 DEF ParsePA
<1>9. CASE Take \/ Skip \/ NextCapability \/ Finish
  <2>1. /\ phase = "intersect" /\ phase' \in {"intersect", "done"}
        /\ UNCHANGED <<order, cert, aic, named>>
      BY <1>9 DEF Take, Skip, NextCapability, Finish, InLoop
  <2> QED
      BY <2>1
<1>10. CASE UNCHANGED vars
    BY <1>10 DEF vars
<1> QED
    BY <1>1, <1>2, <1>3, <1>4, <1>5, <1>6, <1>7, <1>8, <1>9, <1>10 DEF Next

LEMMA IdInductive == Spec => []IdInv
BY IdInit, IdStep, Inductive, PTL DEF Spec

(* An extension that comes first is the first one. *)
LEMMA FirstExtension ==
    ASSUME NEW c, IsList(c), NEW oid, 1 \in DOMAIN c, c[1].oid = oid
    PROVE  Extension(c, oid) = c[1]
<1> PICK E : E = Extensions(c, oid)
    OBVIOUS
<1>1. 1 \in E /\ E \subseteq Nat /\ \A m \in E : m >= 1
    BY ListFacts DEF Extensions
<1>2. FirstOf(E) \in E /\ FirstOf(E) <= 1
    BY <1>1, FirstIsFirst
<1>3. FirstOf(E) = 1
    BY <1>1, <1>2
<1> QED
    BY <1>3 DEF Extension

(* For every realm, identifier and hash algorithm: the library's identities  *)
(* are valid for the library; their text is read back as it was, or refused  *)
(* because of a ':' in it; and what is read back is valid exactly for a hash *)
(* of 32 bytes (principal.go:30-64, aic.go:554-575).                         *)
THEOREM IdentitiesSurvive == Spec => []IdentitySurvives
<1>1. IInv /\ IdInv => IdentitySurvives
  <2> SUFFICES ASSUME IInv, IdInv PROVE IdentitySurvives
      OBVIOUS
  <2>1. ASSUME order # NoOrder, phase = "parseAIC"
        PROVE  LET uid == Extension(cert, "AIC").value.uid
               IN KeyHashOK(uid.hash, uid.algo)
    <3>1. /\ 1 \in DOMAIN cert /\ cert[1].oid = "AIC"
          /\ KeyHashOK(cert[1].value.uid.hash, cert[1].value.uid.algo)
        BY <2>1 DEF IdInv, GivenUid
    <3>2. Extension(cert, "AIC") = cert[1]
        BY <3>1, FirstExtension DEF IInv, Lists, Decodable
    <3> QED
        BY <3>1, <3>2
  <2>2. ASSUME phase \in {"parsePA", "intersect", "done"}, aic # Nil
        PROVE  LET uid == aic.uid
               IN IF named = <<>>
                  THEN ":" \in {uid.realm[x] : x \in DOMAIN uid.realm}
                               \cup {uid.identifier[x] : x \in DOMAIN uid.identifier}
                  ELSE /\ named[1].realm = uid.realm
                       /\ named[1].identifier = uid.identifier
                       /\ named[1].hash = uid.hash
                       /\ KeyHashOK(named[1].hash, named[1].algo)
                             <=> HashLen[uid.hash] = 32
    <3> DEFINE uid == aic.uid
               algo == HashAlgoOID(uid.algo)
               read == [realm |-> uid.realm, identifier |-> uid.identifier,
                        hash |-> uid.hash, algo |-> "sha256"]
               colon == HasColon(uid.realm) \/ HasColon(uid.identifier)
    <3>1. IsUid(uid) /\ ValidateAIC(aic) /\ named = IsRead(uid)
        BY <2>2 DEF IdInv, AICTyped, AICValid, NameRead
    <3>2. /\ Len(uid.realm) \in 1..Limits.realm
          /\ Len(uid.identifier) \in 1..Limits.identifier
          /\ KeyHashOK(uid.hash, uid.algo)
        BY <3>1 DEF ValidateAIC
    <3>3. KnownHash(algo) /\ HashLen[uid.hash] = HashOutputLen[algo]
          /\ HashLen[uid.hash] # 0
        BY <3>2 DEF KeyHashOK
    <3>4. HashOutputLen[algo] \in {32, 48, 64}
        BY <3>3 DEF KnownHash, HashOutputLen
    <3>5. uid.hash # "" /\ uid.hash \in KeyHashes
        BY <3>1, <3>3, HashAssumption DEF IsUid
    <3>6. HashLen[uid.hash] <= 64
        BY <3>3, <3>4
    <3>7. PrincipalText(uid)
             = uid.realm \o <<":">> \o uid.identifier \o <<":">> \o <<uid.hash>>
        BY <3>5 DEF PrincipalText
    <3>8. IsList(uid.realm) /\ IsList(uid.identifier)
        BY <3>1 DEF IsUid
    <3> HIDE DEF uid, algo
    <3>9. named = IF colon THEN <<>> ELSE <<read>>
      <4>1. ParsePrincipalUid(uid.realm \o <<":">> \o uid.identifier
                                  \o <<":">> \o <<uid.hash>>)
               = IF HasColon(uid.realm) \/ HasColon(uid.identifier) THEN <<>>
                 ELSE <<read>>
          BY <3>2, <3>5, <3>6, <3>8, UidIsReadBack
      <4> QED
          BY <3>1, <3>7, <4>1 DEF IsRead
    <3>10. colon <=> ":" \in {uid.realm[x] : x \in DOMAIN uid.realm}
                             \cup {uid.identifier[x] : x \in DOMAIN uid.identifier}
        BY DEF HasColon
    <3>11. <<read>> # <<>> /\ <<read>>[1] = read
        OBVIOUS
    <3>12. /\ read.realm = uid.realm /\ read.identifier = uid.identifier
           /\ read.hash = uid.hash /\ read.algo = "sha256"
        OBVIOUS
    <3>13. KeyHashOK(uid.hash, "sha256") <=> HashLen[uid.hash] = 32
      <4>1. /\ HashAlgoOID("sha256") = "sha256" /\ KnownHash("sha256")
            /\ HashOutputLen["sha256"] = 32
          BY DEF HashAlgoOID, KnownHash, HashOutputLen
      <4> QED
          BY <3>3, <4>1 DEF KeyHashOK
    <3> HIDE DEF read, colon
    <3>14. CASE colon
      <4>1. named = <<>>
          BY <3>9, <3>14
      <4> QED
          BY <3>10, <3>14, <4>1 DEF uid
    <3>15. CASE ~colon
      <4>1. named # <<>> /\ named[1] = read
          BY <3>9, <3>11, <3>15
      <4>2. /\ named[1].realm = uid.realm
            /\ named[1].identifier = uid.identifier
            /\ named[1].hash = uid.hash
            /\ KeyHashOK(named[1].hash, named[1].algo)
                  <=> HashLen[uid.hash] = 32
          BY <3>12, <3>13, <4>1
      <4> QED
          BY <4>1, <4>2 DEF uid
    <3> QED
        BY <3>14, <3>15
  <2> QED
      BY <2>1, <2>2 DEF IdentitySurvives
<1> QED
    BY <1>1, Inductive, IdInductive, PTL
=============================================================================
