---------------------------- MODULE MCValidation ----------------------------
(* Tokens and options for model checking the pipeline.  Four tokens that     *)
(* pass every check are varied one claim at a time (outer or DA), or one     *)
(* outer and one DA claim together; the options one member at a time.        *)
EXTENDS Validation, TLC

CONSTANTS r1, r2,                 \* calls
          n1, n2,                 \* nonces
          kI, kP, kQ, kA, kX,     \* keys: issuer, two principals, two agents
          gw, ip1                 \* the gateway's audience, a source address

MCOneRequest == {r1}
MCTwoRequests == {r1, r2}
MCNonces == {n1, n2}

(* What matchPattern answers for ids of the form "query:x": '*' matches one  *)
(* segment, whatever its text, and '**' one or more.                         *)
MCMatchPattern(p, t) ==
    /\ p[1] = t[1]
    /\ \/ p[2] = t[2]
       \/ p[2] = "query:*" /\ t[2] # "query:a/b"
       \/ p[2] = "query:**"

Cap(scheme, id, params) == [scheme |-> scheme, id |-> id, params |-> params]
Bound(n) == [path \in {<<"max">>} |-> <<"num", n>>]
Rows(n, tables) == [path \in {<<"max">>, <<"scope", "tables">>} |->
                       IF path = <<"max">> THEN <<"num", n>>
                       ELSE <<"arr", tables>>]
Query(id, params) == Cap("db", id, params)

Window(start, end) == Cap(ConstraintScheme, "time-window",
                          [start |-> start, end |-> end])
AtMost(max) == Cap(ConstraintScheme, "max-concurrent", max)
GeoFence == Cap(ConstraintScheme, "geo-fence", Malformed)

Principal(realm, id, key, alg) ==
    [realm |-> realm, id |-> id, key_hash |-> KeyHashOf(key, alg),
     hash_alg |-> alg]

Alice == Principal("corp", "alice", kP, "sha-256")
Bob == Principal("corp", "bob", kQ, "sha-256")
Agent == <<"agent", "db">>
OtherAgent == <<"agent", "web">>

-----------------------------------------------------------------------------
(* Grants, delegations and tokens that pass.                                 *)

BaseDA == [form |-> "ok", kid |-> "alice-1", signer |-> kP, ver |-> 2,
           iss |-> SubjectID(Alice), sub |-> Agent, aud |-> {"as"},
           exp |-> 2, iat |-> 1, jti |-> n1, agent_id |-> Agent,
           principal |-> Alice, caps |-> <<Query("query:read", Bound(10))>>,
           mode |-> "authorized", cons |-> <<Window(360, 1320)>>,
           lifetime |-> 1, ts |-> 1, nonce |-> n1, akb |-> None]

Binding3 == [hash_alg |-> "sha-256", key_hash |-> KeyHashOf(kA, "sha-256")]
BaseDA3 == [BaseDA EXCEPT !.ver = 3, !.akb = Binding3]
RepresentativeDA == [BaseDA3 EXCEPT !.mode = "representative",
                                    !.sub = SubjectID(Alice)]

(* The outer token that an issuer makes of a DA. *)
Issued(d) == [form |-> "ok", kid |-> "as-1", signer |-> kI, iss |-> "as",
              sub |-> d.sub, aud |-> {gw}, iat |-> 1, exp |-> 2,
              nbf |-> None, jti |-> d.nonce, cnf |-> KeyHashOf(kA, "jkt"),
              principal |-> d.principal, mode |-> d.mode, caps |-> d.caps,
              cons |-> d.cons, chain_depth |-> 0, max_depth |-> 1,
              status |-> FALSE, da |-> d,
              act |-> IF d.mode = "representative" THEN d.agent_id ELSE None]

LightToken == [Issued(BaseDA) EXCEPT !.da = None]

BaseTokens == {Issued(BaseDA), Issued(BaseDA3), Issued(RepresentativeDA)}

AlicePA == [ver |-> 1, principal |-> Alice,
            allowed_mode |-> "representative_allowed",
            grants |-> <<Query("query:read", Bound(5)),
                         Query("query:*", Bound(20)),
                         Cap("rows", "read", Rows(5, {"a", "b"}))>>,
            cons |-> <<AtMost(2)>>]

NoMaterial == [jwk |-> <<>>, x5c |-> {}]

BaseOptions == [issuerKeys |-> [k \in {"as-1"} |-> kI], presenterKey |-> kA,
                request |-> Query("query:read", NoParams),
                ctx |-> [now |-> 720, ip |-> ip1, count |-> 0],
                strict |-> FALSE, nonceStore |-> TRUE, plugins |-> {"db"},
                statusChecker |-> TRUE, pa |-> AlicePA,
                rejectDepthGT1 |-> FALSE, requireJtiNonceMatch |-> FALSE,
                issuer |-> "as", audience |-> {gw}, material |-> NoMaterial,
                jwks |-> ("alice-1" :> kP @@ "bob-1" :> kQ)]

-----------------------------------------------------------------------------
(* One claim of the outer token differs. *)
OuterVariants(t) ==
    {[t EXCEPT !.form = "malformed"], [t EXCEPT !.kid = "as-9"],
     [t EXCEPT !.signer = kX], [t EXCEPT !.iss = "other-as"],
     [t EXCEPT !.sub = OtherAgent], [t EXCEPT !.sub = SubjectID(Bob)],
     [t EXCEPT !.aud = {"elsewhere"}], [t EXCEPT !.exp = 3],
     [t EXCEPT !.exp = 4], [t EXCEPT !.exp = 1], [t EXCEPT !.iat = 0],
     [t EXCEPT !.nbf = 2], [t EXCEPT !.jti = n2],
     [t EXCEPT !.cnf = KeyHashOf(kX, "jkt")],
     [t EXCEPT !.principal = Bob], [t EXCEPT !.principal.hash_alg = "md5"],
     [t EXCEPT !.mode = "authorized"], [t EXCEPT !.mode = "representative"],
     [t EXCEPT !.caps = <<Query("query:**", Bound(10))>>],
     [t EXCEPT !.caps = <<Query("query:read", Bound(30))>>],
     [t EXCEPT !.caps = <<>>], [t EXCEPT !.cons = <<>>],
     [t EXCEPT !.chain_depth = 2], [t EXCEPT !.max_depth = 2],
     [t EXCEPT !.max_depth = 256], [t EXCEPT !.status = TRUE],
     [t EXCEPT !.act = OtherAgent], [t EXCEPT !.act = None],
     [t EXCEPT !.act = Agent], [t EXCEPT !.da = None],
     [t EXCEPT !.exp = Half - 1], [t EXCEPT !.exp = Half - 1, !.iat = -1],
     [t EXCEPT !.iat = -Half]}

(* One claim of the DA differs. *)
DAVariants(d) ==
    {[d EXCEPT !.form = "malformed"], [d EXCEPT !.form = "short nonce"],
     [d EXCEPT !.kid = "bob-1"], [d EXCEPT !.kid = "nobody"],
     [d EXCEPT !.signer = kQ], [d EXCEPT !.signer = kX],
     [d EXCEPT !.ver = 2], [d EXCEPT !.ver = 3], [d EXCEPT !.ver = 4],
     [d EXCEPT !.iss = SubjectID(Bob)], [d EXCEPT !.sub = OtherAgent],
     [d EXCEPT !.sub = SubjectID(Alice)], [d EXCEPT !.aud = {"other-as"}],
     [d EXCEPT !.exp = 3], [d EXCEPT !.iat = 0], [d EXCEPT !.iat = 2],
     [d EXCEPT !.jti = n2], [d EXCEPT !.agent_id = OtherAgent],
     [d EXCEPT !.principal = Bob],
     [d EXCEPT !.principal.key_hash = KeyHashOf(kQ, "sha-256")],
     [d EXCEPT !.caps = <<Query("query:write", Bound(10))>>], [d EXCEPT !.caps = <<>>],
     [d EXCEPT !.mode = "authorized"], [d EXCEPT !.mode = "representative"],
     [d EXCEPT !.cons = <<>>], [d EXCEPT !.lifetime = 0],
     [d EXCEPT !.lifetime = 3, !.exp = 4],
     [d EXCEPT !.lifetime = 2, !.exp = 3], [d EXCEPT !.ts = 2],
     [d EXCEPT !.ts = Half - 2, !.exp = Half - 1],
     [d EXCEPT !.ts = Half - 1, !.exp = -Half],
     [d EXCEPT !.ts = Half - EpochOffset - 1, !.exp = Half - EpochOffset],
     [d EXCEPT !.nonce = n2], [d EXCEPT !.akb = None],
     [d EXCEPT !.akb = [Binding3 EXCEPT !.key_hash = KeyHashOf(kX, "sha-256")]],
     [d EXCEPT !.akb = [hash_alg |-> "jkt", key_hash |-> KeyHashOf(kA, "jkt")]],
     [d EXCEPT !.akb = [Binding3 EXCEPT !.key_hash = KeyHashOf(kA, "jkt")]],
     [d EXCEPT !.akb = [Binding3 EXCEPT !.hash_alg = "sha-384"]]}

(* A different delegation, carried faithfully by the issuer. *)
Delegations(d) ==
    DAVariants(d) \cup
    {[d EXCEPT !.principal = Bob, !.iss = SubjectID(Bob), !.kid = "bob-1",
               !.signer = kQ,
               !.sub = IF @ = SubjectID(Alice) THEN SubjectID(Bob) ELSE @],
     [d EXCEPT !.principal.hash_alg = ""],
     [d EXCEPT !.principal = Principal("corp", "alice", kP, "jkt")],
     [d EXCEPT !.caps = <<Query("query:**", Bound(10))>>],
     [d EXCEPT !.caps = <<Query("query:read", Bound(30))>>],
     [d EXCEPT !.caps = <<Cap("fs", "query:read", Bound(1))>>],
     [d EXCEPT !.caps = <<Query("query:write", Bound(15)),
                          Query("query:read", Bound(3))>>],
     [d EXCEPT !.caps = <<Query("query:read", NoParams)>>],
     [d EXCEPT !.caps = <<Cap("rows", "read", Rows(5, {"a"}))>>],
     [d EXCEPT !.caps = <<Cap("rows", "read", Rows(4, {"a", "c"}))>>],
     [d EXCEPT !.caps = <<Cap("rows", "read", Bound(5))>>],
     [d EXCEPT !.cons = <<Window(1320, 360)>>],
     [d EXCEPT !.cons = <<GeoFence, AtMost(1)>>],
     [d EXCEPT !.mode = "authorized", !.sub = d.agent_id]}

OptionVariants(o) ==
    {[o EXCEPT !.issuerKeys = <<>>], [o EXCEPT !.presenterKey = None],
     [o EXCEPT !.presenterKey = kX], [o EXCEPT !.request = None],
     [o EXCEPT !.request = Query("query:write", NoParams)],
     [o EXCEPT !.request = Cap("fs", "query:read", NoParams)],
     [o EXCEPT !.ctx.now = 1439], [o EXCEPT !.ctx.count = 2],
     [o EXCEPT !.strict = TRUE], [o EXCEPT !.nonceStore = FALSE],
     [o EXCEPT !.plugins = {}], [o EXCEPT !.statusChecker = FALSE],
     [o EXCEPT !.pa = None], [o EXCEPT !.pa.principal = Bob],
     [o EXCEPT !.pa.ver = 2], [o EXCEPT !.pa.allowed_mode = "authorized_only"],
     [o EXCEPT !.pa.grants = <<Query("query:read", Bound(5))>>],
     [o EXCEPT !.pa.cons = <<GeoFence>>],
     [o EXCEPT !.rejectDepthGT1 = TRUE],
     [o EXCEPT !.requireJtiNonceMatch = TRUE],
     [o EXCEPT !.issuer = None], [o EXCEPT !.issuer = "other-as"],
     [o EXCEPT !.audience = {}], [o EXCEPT !.audience = {"elsewhere", gw}],
     [o EXCEPT !.jwks = ("alice-1" :> kQ)], [o EXCEPT !.jwks = <<>>],
     [o EXCEPT !.material.x5c = {kP, kQ}, !.jwks = <<>>],
     [o EXCEPT !.material.jwk = ("alice-1" :> kQ)],
     [o EXCEPT !.material.jwk = ("x" :> kP), !.jwks = <<>>]}

-----------------------------------------------------------------------------
(* One call: every outer claim alone, and together with every claim of a DA  *)
(* with an agent key; every delegation, and those with an agent key under    *)
(* every option.                                                             *)
BaseDAs == {BaseDA, BaseDA3, RepresentativeDA}

OneClaim == UNION {OuterVariants(t) : t \in BaseTokens \cup {LightToken}}

TwoClaims ==
    UNION {UNION {{[t EXCEPT !.da = d] : t \in OuterVariants(Issued(e))}
                  : d \in DAVariants(e)} : e \in {BaseDA3, RepresentativeDA}}

Delegated(bases) == {Issued(d) : d \in UNION {Delegations(e) : e \in bases}}

MCSingleCalls ==
    {<<t, BaseOptions>> : t \in OneClaim \cup TwoClaims \cup Delegated({BaseDA})}
    \cup ((BaseTokens \cup {LightToken} \cup Delegated(BaseDAs \ {BaseDA}))
              \X ({BaseOptions} \cup OptionVariants(BaseOptions)))

(* Representative tokens under options that differ in one member. *)
MCGrantCalls ==
    {<<t, BaseOptions>> : t \in {Issued(d) : d \in Delegations(RepresentativeDA)}}
    \cup {<<Issued([RepresentativeDA EXCEPT !.caps = <<Query("query:**", Bound(10))>>]),
            [BaseOptions EXCEPT !.request = Query("query:a/b", NoParams)]>>}

(* Tokens with a DA, some with claims at the ends of their range. *)
MCLifetimeCalls ==
    {<<t, BaseOptions>> : t \in OuterVariants(Issued(BaseDA))}

(* Concurrent calls: one delegation in two tokens, a forged DA with its      *)
(* nonce, a delegation of its own, and gateways that reject late.            *)
Forged == [BaseDA EXCEPT !.signer = kX]
Other == [BaseDA EXCEPT !.nonce = n2, !.jti = n2]
SharedTokens == {Issued(BaseDA), Issued(Forged), Issued(Other), LightToken,
                 [Issued(BaseDA) EXCEPT !.status = TRUE]}

MCSharedCalls ==
    (SharedTokens \X {BaseOptions})
    \cup ({Issued(BaseDA)} \X {[BaseOptions EXCEPT !.nonceStore = FALSE],
                               [BaseOptions EXCEPT !.audience = {"elsewhere"}],
                               [BaseOptions EXCEPT !.request = None]})

(* One call in one process, for the whole table and past every expiry; two   *)
(* concurrent calls and a restart, within the first tick; and the loads of   *)
(* the runs that ask one question of the drafts.                             *)
MCCalls == [single |-> [r \in {r1, r2} |-> IF r = r1 THEN MCSingleCalls ELSE {}],
            shared |-> [r \in {r1, r2} |-> MCSharedCalls],
            again  |-> [r \in {r1, r2} |-> MCSharedCalls],
            grants |-> [r \in {r1} |-> MCGrantCalls],
            long   |-> [r \in {r1} |-> MCLifetimeCalls]]
MCMaxClock == [l \in DOMAIN MCCalls |-> CASE l = "single" -> 6
                                          [] l = "shared" -> 1
                                          [] l = "again" -> 3
                                          [] l = "grants" -> 2
                                          [] l = "long" -> 4]
MCMaxRestarts == [l \in DOMAIN MCCalls |-> IF l = "shared" THEN 1 ELSE 0]
=============================================================================
