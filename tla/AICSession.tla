----------------------------- MODULE AICSession -----------------------------
(* A session with an AIC certificate: its issuer makes the identity and the  *)
(* key binding, or it comes from elsewhere; a consumer parses and validates  *)
(* both extensions, writes the principal down and reads it back, and         *)
(* computes the permissions, one pair of capability and grant at a time.     *)
EXTENDS AIC

CONSTANTS Orders,        \* what an issuer asks for
          Certificates,  \* extensions of certificates from elsewhere
          Requests,      \* the permissions that a consumer asks for
          NoOrder, Nil

IsList(s) == s \in Seq({s[x] : x \in DOMAIN s})
IsCaps(s) == IsList(s) /\ \A x \in DOMAIN s : IsList(s[x].scheme) /\ IsList(s[x].id)
IsUid(uid) == /\ IsList(uid.realm) /\ IsList(uid.identifier)
              /\ uid.hash \in KeyHashes \cup {""}

(* A value that was decoded has the lists and texts of its type. *)
Decodable(extensions) ==
    /\ IsList(extensions)
    /\ \A n \in DOMAIN extensions :
          LET ext == extensions[n]
          IN ext.ok => /\ ext.oid = "AIC" => /\ IsCaps(ext.value.caps)
                                             /\ IsUid(ext.value.uid)
                       /\ ext.oid = "PA" => IsCaps(ext.value.grants)

ASSUME SessionAssumption ==
    /\ \A c \in Certificates : Decodable(c)
    /\ \A r \in Requests : IsList(r)
    /\ \A o \in Orders : /\ Decodable(o.extensions)
                         /\ {"version", "uid", "caps"} \subseteq DOMAIN o.aic
                         /\ IsCaps(o.aic.caps)
                         /\ IsList(o.realm) /\ IsList(o.identifier)
                         /\ o.key # "" => \A algo \in DOMAIN DigestLen :
                                              o.key \in DOMAIN Digest[algo]

VARIABLES order,   \* the order, or NoOrder
          cert,    \* the extensions, in order: [oid, ok, value]
          phase,   \* the next call
          aic, pa, \* the parsed values, or Nil
          named,   \* the principal as read back: <<uid>>, or <<>>
          i, j,    \* the loop variables of IntersectPermissionsStr
          seen,    \* its map
          result   \* and its result

vars == <<order, cert, phase, aic, pa, named, i, j, seen, result>>
loop == <<i, j, seen, result>>

Init == /\ \/ order \in Orders /\ cert = order.extensions /\ phase = "issue"
           \/ order = NoOrder /\ cert \in Certificates /\ phase = "parseAIC"
        /\ aic = Nil /\ pa = Nil /\ named = <<>>
        /\ i = 1 /\ j = 1 /\ seen = {} /\ result = <<>>

-----------------------------------------------------------------------------
Uid == MakePrincipalUid(order.realm, order.identifier, order.key, order.algo)

Binding == IF order.bind THEN MakeAgentKeyBinding(order.agentKey, order.agentAlgo)
           ELSE <<NoBinding>>

Issuable == /\ Uid # <<>> /\ Binding # <<>>
            /\ TBSVersionOK(order.version, Binding[1])

(* The identity is made from the certificate of the principal, the binding   *)
(* from the key of the agent, and the version of the DA is checked.          *)
Issue == /\ phase = "issue" /\ Issuable
         /\ cert' = <<[oid |-> "AIC", ok |-> TRUE,
                       value |-> [order.aic EXCEPT !.version = order.version,
                                                   !.uid = Uid[1]]]>>
                    \o order.extensions
         /\ phase' = "parseAIC"
         /\ UNCHANGED <<order, aic, pa, named, loop>>

NotIssued == /\ phase = "issue" /\ ~Issuable
             /\ phase' = "refused"
             /\ UNCHANGED <<order, cert, aic, pa, named, loop>>

(* ParseAIC and ValidateAIC. *)
AICAbsent == /\ phase = "parseAIC" /\ NoExtension(cert, "AIC")
             /\ phase' = "name"
             /\ UNCHANGED <<order, cert, aic, pa, named, loop>>

ParseAIC == /\ phase = "parseAIC" /\ ~NoExtension(cert, "AIC")
            /\ LET ext == Extension(cert, "AIC")
               IN IF ext.ok /\ IsPresent(ext.value.da)
                  THEN aic' = ext.value /\ phase' = "validateAIC"
                  ELSE aic' = Nil /\ phase' = "refused"
            /\ UNCHANGED <<order, cert, pa, named, loop>>

CheckAIC == /\ phase = "validateAIC"
            /\ phase' = IF ValidateAIC(aic) THEN "name" ELSE "refused"
            /\ UNCHANGED <<order, cert, aic, pa, named, loop>>

(* Principal, and ParsePrincipalUid by whoever gets the text. *)
Name == /\ phase = "name"
        /\ named' = ParsePrincipalUid(IF aic = Nil THEN <<>>
                                      ELSE PrincipalText(aic.uid))
        /\ phase' = "parsePA"
        /\ UNCHANGED <<order, cert, aic, pa, loop>>

(* ParseUserPermissionExtension and ValidatePrincipalAuthorization. *)
PAAbsent == /\ phase = "parsePA" /\ NoExtension(cert, "PA")
            /\ phase' = "intersect"
            /\ UNCHANGED <<order, cert, aic, pa, named, loop>>

ParsePA == /\ phase = "parsePA" /\ ~NoExtension(cert, "PA")
           /\ LET ext == Extension(cert, "PA")
              IN IF ext.ok /\ ValidatePrincipalAuthorization(ext.value)
                 THEN pa' = ext.value /\ phase' = "intersect"
                 ELSE pa' = Nil /\ phase' = "refused"
           /\ UNCHANGED <<order, cert, aic, named, loop>>

-----------------------------------------------------------------------------
Caps == IF aic = Nil THEN <<>> ELSE aic.caps
Perms == IF pa = Nil THEN <<>> ELSE GrantIds(pa)

InLoop == phase = "intersect" /\ i <= Len(Caps) /\ Perms # <<>>

(* Mutant: what is in the result already is added again. *)
MatchesAgain == MatchCapability(FullID(Caps[i]), Perms[j])

Matches == /\ FullID(Caps[i]) \notin seen
           /\ MatchCapability(FullID(Caps[i]), Perms[j])

Take == /\ InLoop /\ j <= Len(Perms) /\ Matches
        /\ seen' = seen \cup {FullID(Caps[i])}
        /\ result' = Append(result, FullID(Caps[i]))
        /\ j' = j + 1
        /\ UNCHANGED <<order, cert, phase, aic, pa, named, i>>

Skip == /\ InLoop /\ j <= Len(Perms) /\ ~Matches
        /\ j' = j + 1
        /\ UNCHANGED <<order, cert, phase, aic, pa, named, i, seen, result>>

(* Mutant: the patterns are read once, for the first capability. *)
NextCapabilityKeepsJ == /\ InLoop /\ j > Len(Perms)
                        /\ i' = i + 1
                        /\ UNCHANGED <<order, cert, phase, aic, pa, named, j,
                                       seen, result>>

NextCapability == /\ InLoop /\ j > Len(Perms)
                  /\ i' = i + 1 /\ j' = 1
                  /\ UNCHANGED <<order, cert, phase, aic, pa, named, seen, result>>

Finish == /\ phase = "intersect" /\ (Perms = <<>> \/ i > Len(Caps))
          /\ phase' = "done"
          /\ UNCHANGED <<order, cert, aic, pa, named, loop>>

Next == \/ Issue \/ NotIssued
        \/ AICAbsent \/ ParseAIC \/ CheckAIC
        \/ Name
        \/ PAAbsent \/ ParsePA
        \/ Take \/ Skip \/ NextCapability \/ Finish

Spec == Init /\ [][Next]_vars

-----------------------------------------------------------------------------
TypeOK == /\ order \in Orders \cup {NoOrder}
          /\ phase \in {"issue", "parseAIC", "validateAIC", "name", "parsePA",
                        "intersect", "done", "refused"}
          /\ i \in 1..Len(Caps) + 1
          /\ j \in 1..Len(Perms) + 1
          /\ result \in Seq(seen)
          /\ Len(result) <= Len(Caps)

Granted(id, patterns) == \E x \in 1..Len(patterns) : MatchCapability(id, patterns[x])

IsLiteral(text) == \A x \in DOMAIN text : text[x] \notin {"*", "?"}

(* The comment of IntersectPermissionsStr lets the grant SELECT:* cover the  *)
(* capability SELECT:/api/tables (aic.go:342-345), where path.Match keeps    *)
(* '*' from every '/'.  A pair that the two may see in different ways: a     *)
(* '*' in the pattern, a '/' in the identifier, and no match.                *)
Contested(id, patterns) ==
    \E y \in 1..Len(patterns) :
        /\ \E x \in DOMAIN patterns[y] : patterns[y][x] = "*"
        /\ DoubleStars(patterns[y]) = {}
        /\ \E x \in DOMAIN id : id[x] = "/"
        /\ ~MatchCapability(id, patterns[y])

(* The permissions of a session are the capabilities that some grant covers, *)
(* each full identifier once, whatever the order of capabilities and grants, *)
(* contested pairs left open (aic.go:335-361).  CheckPermission takes what   *)
(* is asked for as the pattern and IntersectPermissionsStr the grant, but    *)
(* they agree: what is asked for without a wildcard is a permission of the   *)
(* session exactly when CheckPermission confirms it and a grant covers it    *)
(* (aic.go:322-332).                                                         *)
IntersectionExact ==
    phase = "done" =>
        LET permissions == {result[x] : x \in 1..Len(result)}
            ids == {FullID(Caps[x]) : x \in 1..Len(Caps)}
            Open(id) == Granted(id, Perms) \/ Contested(id, Perms)
            Confirmed(r) == aic # Nil /\ CheckPermission(aic, r)
        IN /\ \A x, y \in 1..Len(result) : result[x] = result[y] => x = y
           /\ {id \in ids : Granted(id, Perms)} \subseteq permissions
           /\ permissions \subseteq {id \in ids : Open(id)}
           /\ \A r \in Requests : IsLiteral(r) =>
                 /\ Confirmed(r) /\ Granted(r, Perms) => r \in permissions
                 /\ r \in permissions => Confirmed(r) /\ Open(r)

(* A "**" takes whole segments or nothing, between a prefix and a suffix     *)
(* that do not overlap in the identifier: the trims of matchDoubleStar, one  *)
(* after the other, find exactly these (aic.go:396-428).                     *)
DoubleStarMeans ==
    (InLoop /\ j <= Len(Perms) /\ DoubleStars(Perms[j]) # {}) =>
        (MatchDoubleStar(FullID(Caps[i]), Perms[j])
             <=> DoubleStarFits(FullID(Caps[i]), Perms[j]))

(* An identity that the library made is valid for the library.  Its text is  *)
(* read back, or refused because of a ':' in it, and never as another realm, *)
(* identifier or key hash; but the hash algorithm is lost, so what is read   *)
(* back is valid only for a hash of 32 bytes (principal.go:30-64,            *)
(* aic.go:554-575).                                                          *)
IdentitySurvives ==
    /\ (order # NoOrder /\ phase = "parseAIC") =>
           LET uid == Extension(cert, "AIC").value.uid
           IN KeyHashOK(uid.hash, uid.algo)
    /\ (phase \in {"parsePA", "intersect", "done"} /\ aic # Nil) =>
           LET uid == aic.uid
           IN IF named = <<>> THEN ":" \in {uid.realm[x] : x \in DOMAIN uid.realm}
                                          \cup {uid.identifier[x] :
                                                    x \in DOMAIN uid.identifier}
              ELSE /\ named[1].realm = uid.realm
                   /\ named[1].identifier = uid.identifier
                   /\ named[1].hash = uid.hash
                   /\ KeyHashOK(named[1].hash, named[1].algo)
                         <=> HashLen[uid.hash] = 32
=============================================================================
