---------------------------- MODULE MCAICSession ----------------------------
(* Orders with every algorithm and version; certificates from elsewhere with *)
(* one field at or beyond a bound; one capability against one grant over     *)
(* many short texts; and lists in which capabilities and grants overlap.     *)
EXTENDS AICSession

Algos == DOMAIN HashOutputLen
MCKeyHashes == {"d20", "d32", "d48", "d64", "d65"}
MCHashLen == [h \in MCKeyHashes \cup {""} |->
                 CASE h = "" -> 0 [] h = "d20" -> 20 [] h = "d32" -> 32
                   [] h = "d48" -> 48 [] h = "d64" -> 64 [] OTHER -> 65]
MCDigest == [a \in Algos |-> [key \in {"k", "l"} |->
                CASE a \in {"sha256", "sha3_256"} -> "d32"
                  [] a \in {"sha384", "sha3_384"} -> "d48"
                  [] OTHER -> "d64"]]
MCLimits == [realm |-> 3, identifier |-> 3, scheme |-> 2, id |-> 7,
             capabilities |-> 2, constraints |-> 1, extensions |-> 1,
             grants |-> 2]

None == [size |-> 0, json |-> "none", max |-> 0]
Json(kind, size, n) == [size |-> size, json |-> kind, max |-> n]
Cap(scheme, id, params) == [scheme |-> scheme, id |-> id, params |-> params]
S == <<"s">>
A == <<"a">>
Slash == <<"/">>

DA == [code |-> 1, description |-> 1, nonce |-> 32, lifetime |-> 0,
       stamped |-> TRUE, signed |-> TRUE]
NoDA == [code |-> 0, description |-> 0, nonce |-> 0, lifetime |-> 0,
         stamped |-> FALSE, signed |-> FALSE]
OfUid(realm, identifier, hash, algo) ==
    [realm |-> realm, identifier |-> identifier, hash |-> hash, algo |-> algo]
Base == [version |-> 1, agentId |-> 1, uid |-> OfUid(A, A, "d32", ""),
         caps |-> <<Cap(S, A, None)>>, exts |-> <<>>, da |-> DA,
         constraints |-> <<>>]
PA == [grants |-> <<Cap(S, A, None)>>, constraints |-> <<>>, mode |-> 0,
       maxAgents |-> 1]

AICExt(value) == [oid |-> "AIC", ok |-> TRUE, value |-> value]
PAExt(value) == [oid |-> "PA", ok |-> TRUE, value |-> value]
Garbled(oid) == [oid |-> oid, ok |-> FALSE, value |-> Nil]

-----------------------------------------------------------------------------
Params == {None, Json("object", 9, 0), Json("object", 9, 1),
           Json("object", 12, 1025), Json("array", 2, 0), Json("scalar", 1, 0),
           Json("malformed", 3, 0), Json("object", 513, 5),
           Json("object", 4097, 5)}

OddCaps == {Cap(scheme, A, None) :
               scheme \in {<<>>, <<"s", "s">>, <<"s", "s", "s">>} \cup ConstraintSchemes}
           \cup {Cap(S, <<>>, None)} \cup {Cap(S, A, p) : p \in Params}
OddConstraints == {Cap(scheme, id, p) : scheme \in ConstraintSchemes \cup {S},
                                        id \in {<<>>, A, MaxConcurrent},
                                        p \in Params}
OddAICs ==
    {[Base EXCEPT !.version = v] : v \in {0, 2, 3}}
    \cup {[Base EXCEPT !.agentId = n] : n \in {0, 256, 257}}
    \cup {[Base EXCEPT !.uid = OfUid(r, n, h, a)] :
             r \in {<<>>, <<"a", ":">>, <<"a", "a", "a", "a">>},
             n \in {<<>>, <<":", "a">>, <<"a", "a", "a">>},
             h \in {"d32"}, a \in {""}}
    \cup {[Base EXCEPT !.uid = OfUid(A, n, h, a)] :
             n \in {A, <<"a", ":", "a">>},
             h \in MCKeyHashes \cup {""}, a \in Algos \cup {"", "blake3"}}
    \cup {[Base EXCEPT !.caps = <<c>>] : c \in OddCaps}
    \cup {[Base EXCEPT !.caps = [n \in 1..3 |-> Cap(S, A, None)]]}
    \cup {[Base EXCEPT !.exts = e] :
             e \in {<<[known |-> k, critical |-> c]>> : k, c \in BOOLEAN}
                   \cup {[n \in 1..2 |-> [known |-> TRUE, critical |-> FALSE]]}}
    \cup {[Base EXCEPT !.constraints = <<c>>] : c \in OddConstraints}
    \cup {[Base EXCEPT !.constraints =
              [n \in 1..2 |-> Cap(ConstraintScheme, A, None)]]}
    \cup {[Base EXCEPT !.da = NoDA]}
    \cup {[Base EXCEPT !.da.code = n] : n \in {0, 64, 65}}
    \cup {[Base EXCEPT !.da.description = n] : n \in {0, 512, 513}}
    \cup {[Base EXCEPT !.da.nonce = n] : n \in {0, 31, 33}}
    \cup {[Base EXCEPT !.da.lifetime = n] : n \in {-1, 1, 86400, 86401}}
OddPAs ==
    {[PA EXCEPT !.grants = <<c>>] : c \in OddCaps}
    \cup {[PA EXCEPT !.grants = [n \in 1..3 |-> Cap(S, A, None)]]}
    \cup {[PA EXCEPT !.constraints = <<c>>] : c \in OddConstraints}
    \cup {[PA EXCEPT !.constraints =
              [n \in 1..2 |-> Cap(ConstraintScheme, A, None)]]}
    \cup {[PA EXCEPT !.mode = n] : n \in {-1, 1, 2}}
    \cup {[PA EXCEPT !.maxAgents = n] : n \in {-1, 0, 255, 256}}

Odd == {<<AICExt(a), PAExt(PA)>> : a \in OddAICs}
       \cup {<<AICExt(Base), PAExt(p)>> : p \in OddPAs}
       \cup {<<>>, <<AICExt(Base)>>, <<PAExt(PA)>>, <<PAExt(PA), AICExt(Base)>>,
             <<Garbled("AIC"), PAExt(PA)>>, <<AICExt(Base), Garbled("PA")>>}

-----------------------------------------------------------------------------
Short == UNION {[1..n -> {"a", "/", "."}] : n \in 1..3}
Ids == Short \cup {<<"a", "/", "b", "/", "a">>, <<"a", "/", ".", ".", "/", "b">>,
                   <<"a", "/", "/", "b">>, <<"a", "/", "b", "b">>}
Parts == {<<>>, A, <<"a", "/">>, <<"a", "/", "b">>, <<"/", "b">>, <<"b", "/", "a">>}
Patterns == {pre \o <<"*", "*">> \o suf : pre, suf \in Parts}
            \cup {<<"*">>, <<"a", "?">>, <<"a", "*">>, <<"*", "/", "*">>,
                  <<"*", "*", "*">>, <<"*", "*", "*", "*">>,
                  <<"*", "*", "a", "*", "*">>}

OnePair == {<<AICExt([Base EXCEPT !.caps = <<Cap(S, c, None)>>]),
              PAExt([PA EXCEPT !.grants = <<Cap(S, g, None)>>])>> :
               c \in Ids, g \in {p \in Patterns : Len(p) <= 7}}

Overlapping == {Cap(S, A, None), Cap(S, <<"a", ":", "b">>, None),
                Cap(<<"s", ":">>, A, None), Cap(S, <<":", "a">>, None),
                Cap(S, <<"*">>, None), Cap(S, <<"*", "*">>, None),
                Cap(<<"*", "*">>, A, None)}

Lists == {<<AICExt([Base EXCEPT !.caps = cs]), PAExt([PA EXCEPT !.grants = gs])>> :
             cs, gs \in {<<>>} \cup {<<c>> : c \in Overlapping}
                               \cup {<<c, d>> : c, d \in Overlapping}}

(* The identifiers of Overlapping, and texts near the capabilities of        *)
(* OnePair.                                                                  *)
MCRequests == {FullID(c) : c \in Overlapping}
              \cup {<<"s", ":">> \o id :
                        id \in {A, <<"b">>, <<"a", "/">>, <<"/", "a">>,
                                <<"a", "a">>, <<"a", "/", "a">>, <<"a", "?">>}}

MCCertificates == Odd \cup OnePair \cup Lists

MCOrders == {[key |-> key, algo |-> algo, agentKey |-> agent,
              agentAlgo |-> agentAlgo, version |-> version, bind |-> bind,
              realm |-> realm, identifier |-> identifier,
              aic |-> Base, extensions |-> <<PAExt(PA)>>] :
                key \in {"", "k"}, algo \in Algos \cup {"", "blake3"},
                agent \in {"", "l"}, agentAlgo \in {"", "sha3_512", "blake3"},
                version \in 0..3, bind \in BOOLEAN, realm \in {A, <<"a", ":">>},
                identifier \in {A, <<"a", ":", "a">>}}
=============================================================================
