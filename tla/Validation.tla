----------------------------- MODULE Validation -----------------------------
(* The validation pipeline of aicjwt/validate.go.  Several calls of Validate *)
(* run concurrently in one process, on tokens an issuer or anybody else made *)
(* and under options the gateway chose; they share the nonce store.  Every   *)
(* step of the pipeline is an action, and the process may restart between    *)
(* any two, which drops the calls in progress and empties the store.         *)
(*                                                                           *)
(* Names are tuples of the parts that the code joins with ':'.  A key hash   *)
(* is the pair of its algorithm and the key: hashes are collision-free and   *)
(* two algorithms never give comparable values.                              *)
EXTENDS Capabilities, Constraints

CONSTANTS Requests,        \* calls of Validate
          Nonces,          \* DA nonces
          Loads,           \* names of the workloads that are explored
          Calls,           \* per load and call: the arguments <<token, opts>>
                           \* it may get
          MaxLifetime,     \* the longest lifetime, in seconds
          Half,            \* claims are integers in -Half..Half-1 (2^63)
          EpochOffset,     \* seconds from the year 1 to 1970
          TicksPerSecond,  \* resolution of the clock below the second
          MaxClock,        \* bound: the last tick of a load
          MaxRestarts,     \* bound: restarts in a load
          None             \* nil: an absent claim, option, key or name

ASSUME NoneAssumption == None \notin Nonces
ASSUME ClockAssumption == /\ TicksPerSecond \in Nat \ {0}
                          /\ \A l \in Loads : /\ MaxClock[l] \in Nat
                                              /\ MaxRestarts[l] \in Nat
                          /\ MaxLifetime \in Nat
                          /\ Half \in Nat
                          /\ MaxLifetime < Half
                          /\ EpochOffset \in 0..Half
ASSUME CallsAssumption ==
    \A l \in Loads, r \in Requests : \A call \in Calls[l][r] :
        LET t == call[1]
        IN /\ t # None
           /\ {t.iat, t.exp} \subseteq -Half..Half - 1
           /\ t.da # None => /\ t.da.nonce \in Nonces
                             /\ t.da.ts \in -Half..Half - 1

VARIABLES load,      \* bound: the workload of this behaviour
          clock,     \* time.Now(), in ticks
          seen,      \* nonces recorded by the shared NonceStore
          restarts,  \* restarts of the process so far
          pc,        \* per call: the step it is at
          tok,       \* per call: the argument token
          opt,       \* per call: the argument opts
          now,       \* per call: opts.Now after withDefaults
          born,      \* per call: the process incarnation that runs it
          decision,  \* per call: the Decision returned, or None
          error      \* per call: the step that failed, or "nil"

env == <<load, clock, restarts>>
args == <<tok, opt, now, born>>
vars == <<env, seen, pc, args, decision, error>>

-----------------------------------------------------------------------------
(* Keys, names and hashes.                                                   *)

SupportedHashAlgs ==
    [alg \in {"sha-256", "sha-384", "sha-512", "jkt"} |->
        CASE alg = "sha-384" -> 48
          [] alg = "sha-512" -> 64
          [] OTHER -> 32]

DefaultAlg(alg) == IF alg = "" THEN "sha-256" ELSE alg

KeyHashOf(key, alg) == <<DefaultAlg(alg), key>>

HashLen(hash) == SupportedHashAlgs[hash[1]]

SubjectID(p) == <<p.realm, p.id>>

(* resolvePrincipalKey: the bundled JWK with the header's kid, else the      *)
(* bundled key with the claimed hash, else the online JWKS; None if nowhere. *)
LookupByBinding(material, p) ==
    LET pool == IF p.hash_alg = "jkt"
                THEN {material.jwk[k] : k \in DOMAIN material.jwk}
                ELSE material.x5c
        match == {k \in pool : KeyHashOf(k, p.hash_alg) = p.key_hash}
    IN IF match = {} THEN None ELSE CHOOSE k \in match : TRUE

ResolvePrincipalKey(p, kid, o) ==
    LET bound == LookupByBinding(o.material, p)
    IN IF kid \in DOMAIN o.material.jwk THEN o.material.jwk[kid]
       ELSE IF bound # None THEN bound
       ELSE IF kid \in DOMAIN o.jwks THEN o.jwks[kid]
       ELSE None

-----------------------------------------------------------------------------
(* The checks of each step, as predicates on the outer token t, its DA d,    *)
(* the options o and the sampled time n.                                     *)

Unix(n) == n \div TicksPerSecond

(* A sum or difference of two int64.  *)
Wrap(x) == IF x >= Half THEN x - 2 * Half
           ELSE IF x < -Half THEN x + 2 * Half
           ELSE x

(* Steps 0 to 2.  t.form is "ok" if the token is within the size bound, its  *)
(* parts decode without duplicate members, CheckHeader accepts its header    *)
(* and the claims that no later step reads are there.                        *)
OuterSignatureOK(t, o) == /\ t.kid \in DOMAIN o.issuerKeys
                          /\ t.signer = o.issuerKeys[t.kid]

CheckOuterRequired(t) ==
    /\ t.form = "ok"
    /\ t.iat # 0 /\ t.exp # 0 /\ t.exp > t.iat
    /\ DefaultAlg(t.principal.hash_alg) \in DOMAIN SupportedHashAlgs
    /\ t.mode \in {"authorized", "representative"}
    /\ Len(t.caps) >= 1

(* Step 3. *)
CheckTime(t, n) == /\ t.nbf # None => t.nbf <= Unix(n)
                   /\ Unix(n) <= t.exp

CheckAgentKeyBinding(b) ==
    /\ b.hash_alg \in DOMAIN SupportedHashAlgs \ {"jkt"}
    /\ HashLen(b.key_hash) = SupportedHashAlgs[b.hash_alg]

(* d.form is "ok" if the DA decodes like an outer token and its remaining    *)
(* claims are there, and "short nonce" if only its nonce is not 32 bytes.    *)
CheckDARequired(d) ==
    /\ \/ d.ver = 2 /\ d.akb = None
       \/ d.ver = 3 /\ d.akb # None /\ CheckAgentKeyBinding(d.akb)
    /\ d.agent_id # None
    /\ d.exp # 0 /\ d.ts # 0
    /\ Len(d.caps) >= 1
    /\ d.mode \in {"authorized", "representative"}
    /\ d.lifetime \in 1..MaxLifetime
    /\ d.jti = d.nonce
    /\ d.iat \in {0, d.ts}

(* Step 4, ValidateDA up to the nonce store: canonical expiry, freshness at  *)
(* the resolution of the clock, the RFC 7523 subject rules, the principal's  *)
(* signature and the key hash the DA claims for that key.  A time.Time       *)
(* counts from the year 1: a ts that wraps there is in the far past, and     *)
(* stale.                                                                    *)
DATimesOK(d, n) == /\ d.exp = Wrap(d.ts + d.lifetime)
                   /\ Unix(n) <= d.exp
                   /\ d.ts + EpochOffset < Half
                   /\ n - d.ts * TicksPerSecond <= d.lifetime * TicksPerSecond

DASubjectOK(d) == /\ d.iss = SubjectID(d.principal)
                  /\ d.mode = "authorized" => d.sub = d.agent_id
                  /\ d.mode = "representative" =>
                        d.sub = SubjectID(d.principal)

DASignatureOK(d, o) ==
    LET pub == ResolvePrincipalKey(d.principal, d.kid, o)
    IN /\ pub # None
       /\ d.signer = pub
       /\ DefaultAlg(d.principal.hash_alg) \in DOMAIN SupportedHashAlgs
       /\ KeyHashOf(pub, d.principal.hash_alg) = d.principal.key_hash

(* Mutant: the signature and the key hash of the DA are not verified. *)
ValidateDAUnsigned(d, o, n) == /\ CheckDARequired(d)
                               /\ DATimesOK(d, n)
                               /\ DASubjectOK(d)
                               /\ d.form = "ok"

ValidateDAOK(d, o, n) == /\ CheckDARequired(d)
                         /\ DATimesOK(d, n)
                         /\ DASubjectOK(d)
                         /\ DASignatureOK(d, o)
                         /\ d.form = "ok"

(* Step 4, validateDA after ValidateDA has returned. *)
(* Mutant: without a presenter key the binding is not checked. *)
PresenterUnchecked(d, o) ==
    d.ver = 3 /\ o.presenterKey # None =>
        KeyHashOf(o.presenterKey, d.akb.hash_alg) = d.akb.key_hash

PresenterHoldsAgentKey(d, o) ==
    d.ver = 3 => /\ o.presenterKey # None
                 /\ KeyHashOf(o.presenterKey, d.akb.hash_alg) = d.akb.key_hash

OuterWithinDA(t, d) == /\ t.exp <= d.exp
                       /\ t.iss \in d.aud
                       /\ Wrap(t.exp - t.iat) <= d.lifetime

BindOuterOK(t, d, o) == /\ o.requireJtiNonceMatch => t.jti = d.nonce
                        /\ PresenterHoldsAgentKey(d, o)
                        /\ OuterWithinDA(t, d)

(* Mutant: the actor of a representative token is not compared. *)
CheckRolesAnyActor(t, d) == \/ /\ d.mode = "representative"
                               /\ t.sub = d.sub
                               /\ t.sub = SubjectID(d.principal)
                            \/ /\ d.mode = "authorized"
                               /\ d.agent_id = t.sub
                               /\ t.act = None

(* Step 5. *)
CheckRoles(t, d) == \/ /\ d.mode = "representative"
                       /\ t.sub = d.sub
                       /\ t.sub = SubjectID(d.principal)
                       /\ t.act = d.agent_id
                    \/ /\ d.mode = "authorized"
                       /\ d.agent_id = t.sub
                       /\ t.act = None

CheckConsistency(t, d) == /\ CheckRoles(t, d)
                          /\ d.principal = t.principal
                          /\ d.mode = t.mode
                          /\ d.caps = t.caps
                          /\ d.cons = t.cons

(* Step 6. *)
CheckPA(t, o) ==
    /\ o.pa # None
    /\ o.pa.ver = 1
    /\ o.pa.principal = t.principal
    /\ o.pa.allowed_mode = "representative_allowed"
    /\ \A i \in DOMAIN t.caps : CapabilitySubset(t.caps[i], o.pa.grants)
    /\ EvaluateConstraints(o.pa.cons, o.ctx, o.strict)

(* Step 8. *)
CheckDepth(t, o) == /\ t.chain_depth \in 0..255
                    /\ t.max_depth \in 0..255
                    /\ t.chain_depth <= t.max_depth
                    /\ o.rejectDepthGT1 => t.max_depth <= 1

(* The issuer, audience and presenter checks after step 10. *)
CheckIssuer(t, o) == o.issuer # None => t.iss = o.issuer
CheckAudience(t, o) == o.audience # {} => t.aud \cap o.audience # {}
CheckPresenter(t, o) == o.presenterKey # None =>
                            KeyHashOf(o.presenterKey, "jkt") = t.cnf

-----------------------------------------------------------------------------
Labels == {"idle", "outer", "time", "route", "da", "nonce", "bind",
           "consistency", "pa", "constraints", "depth", "capability",
           "plugin", "status", "binding", "decide", "done"}

Errors == {"nil", "step1", "step3", "step4 profile", "step4 DA",
           "nonce reuse", "step4 binding", "step5",
           "step6", "step7", "step8", "step9", "step10", "binding"}

Init == /\ load \in Loads
        /\ clock = 0
        /\ seen = {}
        /\ restarts = 0
        /\ pc = [r \in Requests |-> "idle"]
        /\ tok = [r \in Requests |-> None]
        /\ opt = [r \in Requests |-> None]
        /\ now = [r \in Requests |-> 0]
        /\ born = [r \in Requests |-> 0]
        /\ decision = [r \in Requests |-> None]
        /\ error = [r \in Requests |-> "nil"]

(* Mutant: a zero opts.Now is not replaced by the current time. *)
StartAtZeroTime(r) ==
    /\ pc[r] = "idle"
    /\ pc' = [pc EXCEPT ![r] = "outer"]
    /\ \E call \in Calls[load][r] : /\ tok' = [tok EXCEPT ![r] = call[1]]
                                  /\ opt' = [opt EXCEPT ![r] = call[2]]
    /\ now' = [now EXCEPT ![r] = 0 - 1]
    /\ born' = [born EXCEPT ![r] = restarts]
    /\ UNCHANGED <<env, seen, decision, error>>

(* Validate is entered: withDefaults samples the clock once for all steps.   *)
Start(r) == /\ pc[r] = "idle"
            /\ pc' = [pc EXCEPT ![r] = "outer"]
            /\ \E call \in Calls[load][r] :
                  /\ tok' = [tok EXCEPT ![r] = call[1]]
                  /\ opt' = [opt EXCEPT ![r] = call[2]]
            /\ now' = [now EXCEPT ![r] = clock]
            /\ born' = [born EXCEPT ![r] = restarts]
            /\ UNCHANGED <<env, seen, decision, error>>

Goto(r, label) == /\ pc' = [pc EXCEPT ![r] = label]
                  /\ UNCHANGED <<decision, error>>

(* return nil, err *)
Fail(r, step) == /\ pc' = [pc EXCEPT ![r] = "done"]
                 /\ error' = [error EXCEPT ![r] = step]
                 /\ UNCHANGED decision

(* One check of the pipeline, which leaves the store alone. *)
Check(r, label, ok, step, next) ==
    /\ pc[r] = label
    /\ IF ok THEN Goto(r, next) ELSE Fail(r, step)
    /\ UNCHANGED <<env, seen, args>>

(* Steps 0 to 2. *)
VerifyOuter(r) == Check(r, "outer",
                        /\ OuterSignatureOK(tok[r], opt[r])
                        /\ CheckOuterRequired(tok[r]),
                        "step1", "time")

(* Step 3. *)
TimeChecks(r) == Check(r, "time", CheckTime(tok[r], now[r]), "step3", "route")

(* Step 4 applies to the full profile. *)
FullProfile(r) == /\ pc[r] = "route"
                  /\ tok[r].da # None
                  /\ Check(r, "route", TRUE, "step4 profile", "da")

(* Mutant: the lifetime of the lightweight profile is not bounded. *)
LightweightUnbounded(r) == /\ pc[r] = "route"
                           /\ tok[r].da = None
                           /\ Check(r, "route", tok[r].mode # "representative",
                                    "step4 profile", "constraints")

(* Mutant: representative mode does not need a DA. *)
LightweightAnyMode(r) == /\ pc[r] = "route"
                         /\ tok[r].da = None
                         /\ Check(r, "route",
                                  Wrap(tok[r].exp - tok[r].iat) <= MaxLifetime,
                                  "step4 profile", "constraints")

(* The lightweight profile has no DA: authorized mode only, with a bounded   *)
(* lifetime.  Steps 5 and 6 do not apply to it.                              *)
Lightweight(r) == /\ pc[r] = "route"
                  /\ tok[r].da = None
                  /\ Check(r, "route",
                           /\ tok[r].mode # "representative"
                           /\ Wrap(tok[r].exp - tok[r].iat) <= MaxLifetime,
                           "step4 profile", "constraints")

(* Mutant: the nonce is also recorded when the DA is decoded. *)
ValidateDARecordsFirst(r) ==
    /\ pc[r] = "da"
    /\ IF ValidateDAOK(tok[r].da, opt[r], now[r])
       THEN Goto(r, "nonce") ELSE Fail(r, "step4 DA")
    /\ seen' = seen \cup {tok[r].da.nonce}
    /\ UNCHANGED <<env, args>>

(* ValidateDA up to the nonce store. *)
ValidateDA(r) == Check(r, "da", ValidateDAOK(tok[r].da, opt[r], now[r]),
                       "step4 DA", "nonce")

(* Mutant: the nonce is recorded without looking it up. *)
SpendNonceBlindly(r) == /\ pc[r] = "nonce"
                        /\ opt[r].nonceStore
                        /\ seen' = seen \cup {tok[r].da.nonce}
                        /\ Goto(r, "bind")
                        /\ UNCHANGED <<env, args>>

(* Mutant: the nonce is looked up but not recorded. *)
SpendNonceForgets(r) == /\ pc[r] = "nonce"
                        /\ opt[r].nonceStore
                        /\ tok[r].da.nonce \notin seen
                        /\ Goto(r, "bind")
                        /\ UNCHANGED <<env, seen, args>>

(* NonceStore.CheckAndAdd, one indivisible step (AtomicNonceStore).          *)
SpendNonce(r) == /\ pc[r] = "nonce"
                 /\ opt[r].nonceStore
                 /\ tok[r].da.nonce \notin seen
                 /\ seen' = seen \cup {tok[r].da.nonce}
                 /\ Goto(r, "bind")
                 /\ UNCHANGED <<env, args>>

RefuseNonce(r) == /\ pc[r] = "nonce"
                  /\ opt[r].nonceStore
                  /\ tok[r].da.nonce \in seen
                  /\ Check(r, "nonce", FALSE, "nonce reuse", "bind")

(* opts.NonceStore is nil. *)
SkipNonce(r) == /\ pc[r] = "nonce"
                /\ ~opt[r].nonceStore
                /\ Check(r, "nonce", TRUE, "step4 DA", "bind")

(* validateDA after ValidateDA. *)
BindOuter(r) == Check(r, "bind", BindOuterOK(tok[r], tok[r].da, opt[r]),
                      "step4 binding", "consistency")

(* Step 5; step 6 follows in representative mode only. *)
Consistency(r) == Check(r, "consistency",
                        CheckConsistency(tok[r], tok[r].da), "step5",
                        IF tok[r].mode = "representative"
                        THEN "pa" ELSE "constraints")

PrincipalAuthorization(r) == Check(r, "pa", CheckPA(tok[r], opt[r]),
                                   "step6", "constraints")

(* Step 7. *)
ConstraintChecks(r) ==
    Check(r, "constraints",
          EvaluateConstraints(tok[r].cons, opt[r].ctx, opt[r].strict),
          "step7", "depth")

(* Step 8. *)
DepthCheck(r) == Check(r, "depth", CheckDepth(tok[r], opt[r]),
                       "step8", "capability")

(* Step 9: the request capability is within the token and its scheme has a   *)
(* plugin.                                                                   *)
MatchRequest(r) ==
    /\ pc[r] = "capability"
    /\ opt[r].request # None
    /\ Check(r, "capability",
             /\ MatchCapabilities(tok[r].caps, opt[r].request)
             /\ opt[r].request.scheme \in opt[r].plugins,
             "step9", "plugin")

NoRequest(r) == /\ pc[r] = "capability"
                /\ opt[r].request = None
                /\ Check(r, "capability", TRUE, "step9", "status")

(* The plugin is the deployment's: it permits or denies as it sees fit. *)
PluginAnswers(r) == \E permits \in BOOLEAN :
                        Check(r, "plugin", permits, "step9", "status")

(* Step 10.  The status checker is the deployment's. *)
NoStatusClaim(r) == /\ pc[r] = "status"
                    /\ ~tok[r].status
                    /\ Check(r, "status", TRUE, "step10", "binding")

StatusAnswers(r) == /\ pc[r] = "status"
                    /\ tok[r].status
                    /\ \E valid \in BOOLEAN :
                          Check(r, "status", opt[r].statusChecker /\ valid,
                                "step10", "binding")

(* iss, aud and cnf. *)
Binding(r) == Check(r, "binding",
                    /\ CheckIssuer(tok[r], opt[r])
                    /\ CheckAudience(tok[r], opt[r])
                    /\ CheckPresenter(tok[r], opt[r]),
                    "binding", "decide")

(* The decision names the principal as the actor and the agent as the        *)
(* executor of a representative token, and the agent as both otherwise.      *)
DecisionOf(t) ==
    LET representative == t.mode = "representative"
    IN [actor |-> IF representative THEN <<t.principal.id>> ELSE t.sub,
        executor |-> IF representative /\ t.act # None THEN t.act ELSE t.sub,
        principal |-> t.principal.id,
        capabilities |-> t.caps]

Decide(r) == /\ pc[r] = "decide"
             /\ pc' = [pc EXCEPT ![r] = "done"]
             /\ decision' = [decision EXCEPT ![r] = DecisionOf(tok[r])]
             /\ UNCHANGED <<env, seen, args, error>>

Pipeline(r) == \/ VerifyOuter(r) \/ TimeChecks(r)
               \/ FullProfile(r) \/ Lightweight(r)
               \/ ValidateDA(r)
               \/ SpendNonce(r) \/ RefuseNonce(r) \/ SkipNonce(r)
               \/ BindOuter(r) \/ Consistency(r)
               \/ PrincipalAuthorization(r)
               \/ ConstraintChecks(r) \/ DepthCheck(r)
               \/ MatchRequest(r) \/ NoRequest(r) \/ PluginAnswers(r)
               \/ NoStatusClaim(r) \/ StatusAnswers(r)
               \/ Binding(r) \/ Decide(r)

(* Time passes. *)
Tick == /\ clock < MaxClock[load]
        /\ clock' = clock + 1
        /\ UNCHANGED <<load, restarts, seen, pc, args, decision, error>>

(* The process dies: calls in progress are gone, answers that were given     *)
(* stay given, and the new process starts with an empty nonce store.         *)
Restart ==
    LET Keep(f, none) ==
            [r \in Requests |-> IF pc[r] = "done" THEN f[r] ELSE none]
    IN /\ restarts < MaxRestarts[load]
       /\ restarts' = restarts + 1
       /\ seen' = {}
       /\ pc' = Keep(pc, "idle")
       /\ tok' = Keep(tok, None)
       /\ opt' = Keep(opt, None)
       /\ now' = Keep(now, 0)
       /\ born' = Keep(born, 0)
       /\ UNCHANGED <<load, clock, decision, error>>

Next == \/ \E r \in Requests : Start(r) \/ Pipeline(r)
        \/ Tick
        \/ Restart

Spec == Init /\ [][Next]_vars

-----------------------------------------------------------------------------
AllCalls == UNION {UNION {Calls[l][r] : r \in Requests} : l \in Loads}
CallTokens == {call[1] : call \in AllCalls}
CallOptions == {call[2] : call \in AllCalls}

CallDecisions == {DecisionOf(t) : t \in CallTokens}

TypeOK == /\ load \in Loads
          /\ clock \in 0..MaxClock[load]
          /\ restarts \in 0..MaxRestarts[load]
          /\ seen \subseteq Nonces
          /\ pc \in [Requests -> Labels]
          /\ tok \in [Requests -> CallTokens \cup {None}]
          /\ opt \in [Requests -> CallOptions \cup {None}]
          /\ now \in [Requests -> 0..MaxClock[load]]
          /\ born \in [Requests -> 0..MaxRestarts[load]]
          /\ error \in [Requests -> Errors]
          /\ decision \in [Requests -> CallDecisions \cup {None}]

Permitted(r) == decision[r] # None

(* The DA was signed with the very key its principal is identified by. *)
Authentic(d) == KeyHashOf(d.signer, d.principal.hash_alg) = d.principal.key_hash

(* Labels a call reaches only after the nonce step let it through. *)
BeyondNonce == {"bind", "consistency", "pa", "constraints", "depth",
                "capability", "plugin", "status", "binding", "decide"}

(* Errors of the steps after the nonce step. *)
LateErrors == {"step4 binding", "step5", "step6", "step7", "step8", "step9",
               "step10", "binding"}

(* A permitted full-profile token is exactly what its principal delegated:   *)
(* the principal signed the DA, the decision names that principal, that      *)
(* agent as the executor and those capabilities, and the DA had not expired  *)
(* (validate.go:129-147, 223-238).                                           *)
DelegationHonoured ==
    \A r \in Requests :
        LET d == tok[r].da
        IN Permitted(r) /\ d # None =>
             /\ Authentic(d)
             /\ decision[r].executor = d.agent_id
             /\ decision[r].actor = IF d.mode = "representative"
                                    THEN <<d.principal.id>> ELSE d.agent_id
             /\ decision[r].capabilities = d.caps
             /\ now[r] <= (d.ts + d.lifetime) * TicksPerSecond
             /\ tok[r].exp <= d.ts + d.lifetime

(* Nobody acts in a principal's name on the issuer's word alone: such a      *)
(* permit needs a DA signed by that principal and an authorization of the  *)
(* same principal whose grants cover every capability and whose constraints  *)
(* hold (validate.go:136-137, 149-154).                                      *)
RepresentationAuthorized ==
    \A r \in Requests :
        Permitted(r) /\ tok[r].mode = "representative" =>
            /\ tok[r].da # None
            /\ Authentic(tok[r].da)
            /\ opt[r].pa.principal = tok[r].da.principal
            /\ \A i \in DOMAIN decision[r].capabilities :
                  CapabilitySubset(decision[r].capabilities[i],
                                   opt[r].pa.grants)
            /\ EvaluateConstraints(opt[r].pa.cons, opt[r].ctx, opt[r].strict)

(* With a ver 3 DA, one key is at both ends: the key that the principal      *)
(* bound to the delegation is the one the issuer confirmed in cnf and the    *)
(* one the presenter holds (validate.go:209-220, 545-566).                   *)
AgentKeyChain ==
    \A r \in Requests :
        LET d == tok[r].da
        IN Permitted(r) /\ d # None /\ d.ver = 3 =>
             \E key \in {opt[r].presenterKey} \ {None} :
                 /\ tok[r].cnf = KeyHashOf(key, "jkt")
                 /\ d.akb.key_hash = KeyHashOf(key, d.akb.hash_alg)

(* One process, with a nonce store, permits a delegation at most once,       *)
(* whichever calls carry it (validate.go:528-532).                           *)
OnePermitPerNonce ==
    \A r, q \in Requests :
        (/\ r # q
         /\ Permitted(r) /\ Permitted(q)
         /\ tok[r].da # None /\ tok[q].da # None
         /\ tok[r].da.nonce = tok[q].da.nonce
         /\ opt[r].nonceStore /\ opt[q].nonceStore)
        => born[r] # born[q]

(* Call r has gone through the store of its process: it was not stopped      *)
(* before the nonce step, nor at it.                                         *)
Spent(r) == /\ \/ pc[r] \in BeyondNonce
               \/ pc[r] = "done" /\ error[r] \in LateErrors \cup {"nil"}
            /\ tok[r].da # None
            /\ opt[r].nonceStore

(* Only a DA that its principal signed can use up a nonce: a call that fails *)
(* a check before the store leaves the nonce to its owner                    *)
(* (validate.go:507-532).                                                    *)
OnlyAuthenticSpent ==
    \A n \in seen : \E r \in Requests : /\ Spent(r)
                                        /\ born[r] = restarts
                                        /\ tok[r].da.nonce = n
                                        /\ Authentic(tok[r].da)

(* A nonce reuse is reported only against another call of the same process   *)
(* that went through the store with the nonce (validate.go:528-532).         *)
ReplayExplained ==
    \A r \in Requests :
        error[r] = "nonce reuse" /\ born[r] = restarts =>
            \E q \in Requests \ {r} : /\ Spent(q)
                                      /\ born[q] = restarts
                                      /\ tok[q].da.nonce = tok[r].da.nonce

(* No profile lets a token that was issued after 1970 live longer than the   *)
(* longest lifetime, at the width of its claims: the DA bounds one, the      *)
(* pipeline the other (validate.go:138-140, 426, 574).                       *)
LifetimeBounded ==
    \A r \in Requests :
        Permitted(r) => /\ Unix(now[r]) <= tok[r].exp
                        /\ tok[r].iat >= 0 =>
                              tok[r].exp - tok[r].iat <= MaxLifetime

(* The draft's "The lifetime exp - iat MUST NOT exceed the DA's              *)
(* requested_lifetime" (docs/draft-wei-aic-jwt-02.md:554-555), whatever iat  *)
(* claims.                                                                   *)
LifetimeNeverExceeded ==
    \A r \in Requests :
        Permitted(r) /\ tok[r].da # None =>
            tok[r].exp - tok[r].iat <= tok[r].da.lifetime

(* The draft's "effective capabilities are a subset of the principal grants" *)
(* (docs/draft-wei-aic-jwt-02.md:1412-1413): a request permitted in representative     *)
(* mode is one that the principal's own grants allow.                        *)
RequestWithinGrants ==
    \A r \in Requests :
        Permitted(r) /\ tok[r].mode = "representative"
                     /\ opt[r].request # None =>
            MatchCapabilities(opt[r].pa.grants, opt[r].request)

(* The draft's "such a cache MUST NOT reject a valid token on legitimate     *)
(* reuse" (docs/draft-wei-aic-jwt-02.md:1374-1375): a token that was permitted is not  *)
(* refused for its nonce when it is presented again.                         *)
LegitimateReuse ==
    \A r, q \in Requests :
        Permitted(q) /\ tok[r] = tok[q] => error[r] # "nonce reuse"

-----------------------------------------------------------------------------
(* The pipeline as a client of the nonce store: a call asks when it reaches  *)
(* the nonce step and keeps its answer until it returns.                     *)
StoreStatus(r) ==
    IF tok[r] = None \/ born[r] # restarts THEN "idle"
    ELSE IF tok[r].da = None \/ ~opt[r].nonceStore THEN "idle"
    ELSE IF pc[r] = "nonce" THEN "asked"
    ELSE IF pc[r] \in BeyondNonce THEN "granted"
    ELSE IF error[r] = "nonce reuse" THEN "refused"
    ELSE "idle"

Store == INSTANCE AtomicNonceStore
         WITH Callers <- Requests,
              NoNonce <- None,
              status <- [r \in Requests |-> StoreStatus(r)],
              asked <- [r \in Requests |->
                          IF StoreStatus(r) = "idle" THEN None
                          ELSE tok[r].da.nonce],
              grants <- [n \in Nonces |-> IF n \in seen THEN 1 ELSE 0]

(* The pipeline uses the store as AtomicNonceStore says: it asks once, acts  *)
(* on the one answer, and no call changes the store otherwise                *)
(* (validate.go:528-532).                                                    *)
UsesAtomicStore == Store!Spec
=============================================================================
