-------------------------- MODULE MCCapabilityMatch --------------------------
(* Patterns of up to two path parts under literal and wildcard schemes, with *)
(* alternations and classes in a part, against the targets they nearly       *)
(* match; and lists whose capabilities differ in score and in params.        *)
EXTENDS CapabilityMatch

Lit(code) == <<"lit", code>>
A == <<Lit(97)>>
B == <<Lit(98)>>
AB == <<Lit(97), Lit(98)>>
Any == <<"any">>
Alt(words) == <<"alt", words>>
Class(body) == <<"class", body>>
Parens == {<<Alt({A, AB}), Lit(98)>>, <<Alt({<<>>, A}), Alt({B})>>,
           <<Alt({})>>, <<Class(<<97, Dash, 98>>), Any>>,
           <<Class(<<98, Dash>>)>>, <<Class(<<>>), Any>>,
           <<Any, Lit(98)>>, <<Any, Lit(97), Any>>, <<Lit(97), Any, Any>>}

Path(parts) == IF Len(parts) = 1 THEN parts ELSE <<parts[1], Slash, parts[2]>>
Paths(parts) == {Path(<<x>>) : x \in parts}
                \cup {Path(<<x, y>>) : x, y \in parts}

Cap(scheme, id, params) == [scheme |-> scheme, id |-> id, params |-> params]
Match(list, req) == [mode |-> "match", list |-> list, req |-> req]
Subset(list, req) == [mode |-> "subset", list |-> list, req |-> req]

Targets == {Cap(<<A>>, id, NoParams) :
                id \in Paths({A, B}) \cup {<<A, Colon, B>>, <<<<>>>>,
                                           <<A, Slash, <<>>>>}}
           \cup {Cap(<<B>>, <<A>>, NoParams)}

OneGlob == {Match(<<Cap(s, id, NoParams)>>, t) :
                s \in {<<A>>, <<Star>>, <<DoubleStar>>},
                id \in Paths({A, Star, DoubleStar}), t \in Targets}

InToken == {Match(<<Cap(<<A>>, Path(<<part>>), NoParams)>>,
                  Cap(<<A>>, Path(<<word>>), NoParams)) :
                part \in Parens,
                word \in {<<>>, A, B, AB, AB \o B, A \o AB, <<Lit(45)>>}}

(* Several globs, where the first cut that fits leaves the wrong rest. *)
Deep == {Match(<<Cap(<<A>>, id, NoParams)>>, Cap(<<A>>, t, NoParams)) :
            id \in {<<DoubleStar, Slash, DoubleStar, Slash, A>>,
                    <<DoubleStar, Slash, A, Slash, Star>>},
            t \in {<<A, Slash, A, Slash, A>>, <<A, Slash, B, Slash, B>>,
                   <<B, Slash, A, Slash, B>>}}

Bound(n) == [path \in {<<"max">>} |-> <<"num", n>>]
Granted == {Cap(<<A>>, id, params) :
                id \in {<<Star>>, <<DoubleStar>>, <<A>>, <<<<Lit(97), Any>>>>},
                params \in {NoParams, Bound(5),
                            [path \in {<<"max">>} |-> <<"str", 5>>],
                            [path \in {<<"in">>} |-> <<"arr", {1, 2}>>]}}
Asked == {Cap(<<A>>, <<A>>, params) :
             params \in {NoParams, Bound(5), Bound(6),
                         [path \in {<<"in">>} |-> <<"arr", {2}>>],
                         [path \in {<<"in">>} |-> <<"arr", {2, 3}>>]}}

Lists == {Subset(<<g>>, r) : g \in Granted, r \in Asked}
         \cup {Subset(<<g, h>>, r) : g \in Granted, h \in Granted,
                                     r \in {Cap(<<A>>, <<A>>, Bound(5))}}
         \cup {Subset(<<>>, r) : r \in Asked}
         \cup {Match(<<Cap(<<A>>, <<A, Slash, x>>, NoParams),
                       Cap(<<A>>, <<A, Slash, y>>, NoParams)>>,
                     Cap(<<A>>, <<A, Slash, B>>, NoParams)) :
                  x, y \in {A, B, DoubleStar}}

MCQuestions == OneGlob \cup InToken \cup Deep \cup Lists
=============================================================================
