--------------------------------- MODULE AIC ---------------------------------
(* The values of the X.509 AIC and PrincipalAuthorization extensions and     *)
(* what the library does with them: make, validate, name, and compare        *)
(* permissions (aic.go, principal.go, user_permission.go, hash.go).          *)
(*                                                                           *)
(* Realms, identifiers, schemes and capability ids are sequences of          *)
(* characters.  Of the other texts only the length is kept.  A key hash is   *)
(* one of KeyHashes, written in base64url as one character.  Parameters are  *)
(* [size, json, max]: "none", "object", "array", "scalar" or "malformed",    *)
(* and the member "max" of an object (0 if there is no such integer).        *)
EXTENDS PermissionGlob

CONSTANTS KeyHashes,     \* digests, and other byte strings in their place
          HashLen,       \* their lengths in bytes; "" is no bytes
          Digest,        \* the digest of a key with an algorithm, external
          Limits         \* MaxCapabilities and the other bounds, scaled

ASSUME HashAssumption == /\ "" \notin KeyHashes /\ ":" \notin KeyHashes
                         /\ HashLen \in [KeyHashes \cup {""} -> Nat]
                         /\ HashLen[""] = 0
                         /\ \A h \in KeyHashes : HashLen[h] > 0

(* The hash functions of crypto/sha256, sha512 and sha3 (FIPS 180-4, 202).    *)
DigestLen == [sha256 |-> 32, sha384 |-> 48, sha512 |-> 64,
              sha3_256 |-> 32, sha3_384 |-> 48, sha3_512 |-> 64]

ASSUME DigestAssumption ==
    \A algo \in DOMAIN DigestLen : \A key \in DOMAIN Digest[algo] :
        /\ Digest[algo][key] \in KeyHashes
        /\ HashLen[Digest[algo][key]] = DigestLen[algo]

FullID(c) == IF c.scheme = <<>> THEN c.id ELSE c.scheme \o <<":">> \o c.id

-----------------------------------------------------------------------------
HashOutputLen == [sha256 |-> 32, sha384 |-> 48, sha512 |-> 64,
                  sha3_256 |-> 32, sha3_384 |-> 48, sha3_512 |-> 64]

(* HashAlgoOID: an omitted algorithm is SHA-256. *)
HashAlgoOID(algo) == IF algo = "" THEN "sha256" ELSE algo

(* HashOIDName and HashOutputLen know the same algorithms. *)
KnownHash(algo) == algo \in DOMAIN HashOutputLen

(* ValidatePrincipalUidKeyHash, and ValidateAgentKeyBinding. *)
KeyHashOK(hash, algo) == /\ HashLen[hash] # 0
                         /\ KnownHash(HashAlgoOID(algo))
                         /\ HashLen[hash] = HashOutputLen[HashAlgoOID(algo)]

(* KeyHashFromSPKI has an answer; "" is no certificate, or no SPKI.          *)
CanHash(key, algo) == key # "" /\ KnownHash(HashAlgoOID(algo))

(* MakePrincipalUidFromCertWithAlgo and MakeAgentKeyBinding: <<>> is the     *)
(* error, <<value>> the value.                                               *)
MakePrincipalUid(realm, identifier, key, algo) ==
    IF ~CanHash(key, algo) THEN <<>>
    ELSE <<[realm |-> realm, identifier |-> identifier,
            hash |-> Digest[HashAlgoOID(algo)][key], algo |-> HashAlgoOID(algo)]>>

NoBinding == [hash |-> "", algo |-> ""]
MakeAgentKeyBinding(key, algo) ==
    IF ~CanHash(key, algo) THEN <<>>
    ELSE <<[hash |-> Digest[HashAlgoOID(algo)][key], algo |-> HashAlgoOID(algo)]>>

EffectiveVersion(version) == IF version = 0 THEN 1 ELSE version

(* ValidateDelegationAuthTBSVersion. *)
TBSVersionOK(version, binding) ==
    CASE EffectiveVersion(version) = 1 -> HashLen[binding.hash] = 0
      [] EffectiveVersion(version) = 2 -> KeyHashOK(binding.hash, binding.algo)
      [] OTHER -> FALSE

-----------------------------------------------------------------------------
(* The text {realm}:{identifier}:{keyFingerprint} of a PrincipalUid.         *)
PrincipalText(uid) == uid.realm \o <<":">> \o uid.identifier \o <<":">>
                      \o (IF uid.hash = "" THEN <<>> ELSE <<uid.hash>>)

Colons(s) == {n \in DOMAIN s : s[n] = ":"}
FirstOf(set) == CHOOSE n \in set : \A m \in set : n <= m
LastOf(set) == CHOOSE n \in set : \A m \in set : n >= m

ReadUid(s, first, second) ==
    LET realm == Before(s, first - 1)
        identifier == SubSeq(s, first + 1, second - 1)
        print == From(s, second + 1)
    IN IF /\ Len(realm) \in 1..Limits.realm
          /\ Len(identifier) \in 1..Limits.identifier
          /\ Len(print) = 1 /\ print[1] \in KeyHashes
          /\ HashLen[print[1]] <= 64
       THEN <<[realm |-> realm, identifier |-> identifier,
               hash |-> print[1], algo |-> "sha256"]>>
       ELSE <<>>

(* Mutant: the key fingerprint is what follows the last ':'. *)
ParsePrincipalUidLast(s) ==
    IF \A n \in Colons(s) : Colons(s) \ {n} = {} THEN <<>>
    ELSE ReadUid(s, FirstOf(Colons(s)), LastOf(Colons(s)))

(* strings.SplitN(s, ":", 3): the third part has the colons that are left.   *)
ParsePrincipalUid(s) ==
    IF \A n \in Colons(s) : Colons(s) \ {n} = {} THEN <<>>
    ELSE ReadUid(s, FirstOf(Colons(s)), FirstOf(Colons(s) \ {FirstOf(Colons(s))}))

-----------------------------------------------------------------------------
ConstraintScheme == <<"c", "1">>           \* "varwof/constraint-v1"
ConstraintSchemes == {<<"c">>, <<"c", "2">>, ConstraintScheme}

IsJSONContainer(params) == params.json \in {"object", "array"}

ParamsOK(params, max) == /\ params.size <= max
                         /\ params.size > 0 => IsJSONContainer(params)

(* A capability or a grant. *)
CapabilityOK(c) == /\ Len(c.scheme) \in 1..Limits.scheme
                   /\ Len(c.id) \in 1..Limits.id
                   /\ ParamsOK(c.params, 4096)

ConstraintOK(c) == /\ c.scheme \in ConstraintSchemes
                   /\ c.id # <<>>
                   /\ ParamsOK(c.params, 512)

MaxConcurrent == <<"m">>                   \* "max-concurrent"

(* ValidateMaxConcurrentParam. *)
MaxConcurrentOK(params) == params.json = "object" /\ params.max \in 1..1024

IsPresent(da) == \/ da.code > 0 \/ da.description > 0
                 \/ da.signed \/ da.nonce > 0
                 \/ da.lifetime > 0 \/ da.stamped

DelegationOK(da) ==
    LET lifetime == IF da.lifetime = 0 THEN 3600 ELSE da.lifetime
    IN /\ IsPresent(da)
       /\ da.code \in 1..64 /\ da.description \in 1..512
       /\ da.nonce = 32
       /\ lifetime \in 1..86400

ValidateAIC(aic) ==
    /\ EffectiveVersion(aic.version) \in {1, 2}
    /\ aic.agentId \in 1..256
    /\ Len(aic.caps) <= Limits.capabilities
    /\ \A i \in DOMAIN aic.caps : /\ CapabilityOK(aic.caps[i])
                                  /\ aic.caps[i].scheme # ConstraintScheme
    /\ Len(aic.exts) <= Limits.extensions
    /\ \A i \in DOMAIN aic.exts : aic.exts[i].critical => aic.exts[i].known
    /\ Len(aic.uid.realm) \in 1..Limits.realm
    /\ Len(aic.uid.identifier) \in 1..Limits.identifier
    /\ KeyHashOK(aic.uid.hash, aic.uid.algo)
    /\ DelegationOK(aic.da)
    /\ Len(aic.constraints) <= Limits.constraints
    /\ \A i \in DOMAIN aic.constraints :
          LET c == aic.constraints[i]
          IN /\ ConstraintOK(c)
             /\ (c.id = MaxConcurrent /\ c.params.size > 0) =>
                    MaxConcurrentOK(c.params)

ValidatePrincipalAuthorization(pa) ==
    /\ Len(pa.grants) <= Limits.grants
    /\ \A i \in DOMAIN pa.grants : CapabilityOK(pa.grants[i])
    /\ Len(pa.constraints) <= Limits.constraints
    /\ \A i \in DOMAIN pa.constraints : ConstraintOK(pa.constraints[i])
    /\ pa.mode \in 0..1
    /\ pa.maxAgents \in 0..255

(* The first extension of a certificate with the identifier, if any. *)
Extensions(cert, oid) == {n \in DOMAIN cert : cert[n].oid = oid}
NoExtension(cert, oid) == Extensions(cert, oid) = {}
Extension(cert, oid) == cert[FirstOf(Extensions(cert, oid))]

-----------------------------------------------------------------------------
GrantIds(pa) == [i \in DOMAIN pa.grants |-> FullID(pa.grants[i])]

(* Mutant: the capability is taken for the pattern. *)
CheckPermissionSwapped(aic, required) ==
    \E i \in DOMAIN aic.caps : MatchCapability(required, FullID(aic.caps[i]))

CheckPermission(aic, required) ==
    \E i \in DOMAIN aic.caps : MatchCapability(FullID(aic.caps[i]), required)
=============================================================================
