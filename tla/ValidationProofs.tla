-------------------------- MODULE ValidationProofs --------------------------
(* Proofs about the pipeline, for any number of calls and nonces, any set of *)
(* arguments and any bounds: type correctness, every safety invariant of     *)
(* Validation, and that the pipeline uses the nonce store as an atomic one.  *)
EXTENDS Validation, TLAPS

(* The labels from which a check of the pipeline is known to have passed.    *)
FromTime == Labels \ {"idle", "outer", "done"}
FromRoute == FromTime \ {"time"}
FromConsistency == BeyondNonce \ {"bind"}
FromAuthorization == FromConsistency \ {"consistency"}
FromConstraints == FromAuthorization \ {"pa"}
FromDepth == FromConstraints \ {"constraints"}
FromCapability == FromDepth \ {"depth"}
FromPlugin == FromCapability \ {"capability"}

InFlight(r) == pc[r] \notin {"idle", "done"}

(* The call is at one of the labels, or it returned a decision.              *)
At(r, labels) == pc[r] \in labels \/ (pc[r] = "done" /\ error[r] = "nil")

(* The call is past the nonce step, wherever it ended after that.            *)
Cleared(r) == \/ pc[r] \in BeyondNonce
              \/ pc[r] = "done" /\ error[r] \in LateErrors \cup {"nil"}

(* How the variables of one call fit together. *)
CallShape(r) ==
    /\ pc[r] # "idle" => tok[r] \in CallTokens
    /\ InFlight(r) => born[r] = restarts
    /\ born[r] <= restarts
    /\ pc[r] # "done" => error[r] = "nil"
    /\ decision[r] # None => /\ pc[r] = "done"
                             /\ error[r] = "nil"
                             /\ decision[r] = DecisionOf(tok[r])
    /\ pc[r] \in {"da", "nonce", "bind", "consistency", "pa"} =>
          tok[r].da # None

(* What the checks a call has passed say of its arguments: they are never    *)
(* undone, since the arguments of a call never change.                       *)
PassedChecks(r) ==
    /\ At(r, FromTime) => /\ OuterSignatureOK(tok[r], opt[r])
                          /\ CheckOuterRequired(tok[r])
    /\ At(r, FromRoute) => CheckTime(tok[r], now[r])
    /\ At(r, FromConstraints) /\ tok[r].da = None =>
          /\ tok[r].mode # "representative"
          /\ Wrap(tok[r].exp - tok[r].iat) <= MaxLifetime
    /\ (pc[r] = "nonce" \/ Cleared(r)) /\ tok[r].da # None =>
          ValidateDAOK(tok[r].da, opt[r], now[r])
    /\ At(r, FromConsistency) /\ tok[r].da # None =>
          BindOuterOK(tok[r], tok[r].da, opt[r])
    /\ At(r, FromAuthorization) /\ tok[r].da # None =>
          CheckConsistency(tok[r], tok[r].da)
    /\ At(r, FromConstraints) /\ tok[r].da # None
                              /\ tok[r].mode = "representative" =>
          CheckPA(tok[r], opt[r])
    /\ At(r, FromDepth) => EvaluateConstraints(tok[r].cons, opt[r].ctx,
                                               opt[r].strict)
    /\ At(r, FromCapability) => CheckDepth(tok[r], opt[r])
    /\ At(r, FromPlugin) /\ opt[r].request # None =>
          /\ MatchCapabilities(tok[r].caps, opt[r].request)
          /\ opt[r].request.scheme \in opt[r].plugins
    /\ At(r, {"binding", "decide"}) /\ tok[r].status => opt[r].statusChecker
    /\ At(r, {"decide"}) => /\ CheckIssuer(tok[r], opt[r])
                            /\ CheckAudience(tok[r], opt[r])
                            /\ CheckPresenter(tok[r], opt[r])

(* The store holds exactly the nonces spent in this incarnation, each spent  *)
(* by one call, and only a spent nonce is refused.                           *)
SeenIsSpent ==
    \A n \in Nonces :
        n \in seen <=> \E r \in Requests : /\ Spent(r)
                                           /\ born[r] = restarts
                                           /\ tok[r].da.nonce = n

SpentOnce == \A r, q \in Requests :
                 r # q /\ Spent(r) /\ Spent(q) /\ born[r] = born[q] =>
                     tok[r].da.nonce # tok[q].da.nonce

RefusedWasSeen ==
    \A r \in Requests :
        error[r] = "nonce reuse" /\ born[r] = restarts =>
            tok[r].da.nonce \in seen

(* The inductive invariant. *)
IInv == /\ TypeOK
        /\ \A r \in Requests : CallShape(r) /\ PassedChecks(r)
        /\ SeenIsSpent
        /\ SpentOnce
        /\ RefusedWasSeen

-----------------------------------------------------------------------------
(* A call without arguments satisfies the invariant (validate.go:81).        *)
LEMMA InitIInv == Init => IInv
<1> SUFFICES ASSUME Init PROVE IInv
    OBVIOUS
<1>1. TypeOK
    BY ClockAssumption DEF Init, TypeOK, Labels, Errors
<1>2. ASSUME NEW r \in Requests PROVE CallShape(r) /\ PassedChecks(r)
    BY <1>2 DEF Init, CallShape, PassedChecks, InFlight, At, Cleared, Labels,
                BeyondNonce, FromTime, FromRoute, FromConsistency,
                FromAuthorization, FromConstraints, FromDepth,
                FromCapability, FromPlugin
<1>3. \A r \in Requests : ~Spent(r)
    BY DEF Init, Spent, BeyondNonce
<1>4. SeenIsSpent /\ SpentOnce /\ RefusedWasSeen
    BY <1>3 DEF Init, SeenIsSpent, SpentOnce, RefusedWasSeen
<1> QED
    BY <1>1, <1>2, <1>4 DEF IInv

(* The token of a call in progress is one of the arguments. *)
LEMMA TokenFacts ==
    ASSUME NEW t \in CallTokens
    PROVE  /\ t # None
           /\ t.iat \in -Half..Half - 1 /\ t.exp \in -Half..Half - 1
           /\ t.da # None => t.da.nonce \in Nonces /\ t.da.ts \in -Half..Half - 1
BY CallsAssumption DEF CallTokens, AllCalls

(* A step of one call leaves the others and every argument alone.            *)
LEMMA PipelineLocal ==
    ASSUME TypeOK, NEW q \in Requests, Pipeline(q)
    PROVE  /\ UNCHANGED <<env, args>>
           /\ pc[q] \notin {"idle", "done"}
           /\ \A r \in Requests \ {q} : UNCHANGED <<pc[r], error[r], decision[r]>>
<1> USE DEF TypeOK, env, args, Goto, Fail, Check
<1>1. CASE VerifyOuter(q) \/ TimeChecks(q) \/ FullProfile(q) \/ Lightweight(q)
           \/ ValidateDA(q)
    BY <1>1 DEF VerifyOuter, TimeChecks, FullProfile, Lightweight, ValidateDA
<1>2. CASE SpendNonce(q) \/ RefuseNonce(q) \/ SkipNonce(q)
    BY <1>2 DEF SpendNonce, RefuseNonce, SkipNonce
<1>3. CASE BindOuter(q) \/ Consistency(q) \/ PrincipalAuthorization(q)
           \/ ConstraintChecks(q) \/ DepthCheck(q)
    BY <1>3 DEF BindOuter, Consistency, PrincipalAuthorization,
                ConstraintChecks, DepthCheck
<1>4. CASE MatchRequest(q) \/ NoRequest(q) \/ PluginAnswers(q)
           \/ NoStatusClaim(q) \/ StatusAnswers(q) \/ Binding(q)
    BY <1>4 DEF MatchRequest, NoRequest, PluginAnswers, NoStatusClaim,
                StatusAnswers, Binding
<1>5. CASE Decide(q)
    BY <1>5 DEF Decide
<1> QED
    BY <1>1, <1>2, <1>3, <1>4, <1>5 DEF Pipeline

(* A step of a call keeps its own variables in shape. *)
LEMMA PipelineShape ==
    ASSUME TypeOK, NEW q \in Requests, CallShape(q), Pipeline(q)
    PROVE  CallShape(q)'
<1> USE DEF TypeOK, CallShape, InFlight, env, args, Goto, Fail, Check
<1>1. CASE VerifyOuter(q) \/ TimeChecks(q) \/ FullProfile(q) \/ Lightweight(q)
           \/ ValidateDA(q)
    BY <1>1 DEF VerifyOuter, TimeChecks, FullProfile, Lightweight, ValidateDA
<1>2. CASE SpendNonce(q) \/ RefuseNonce(q) \/ SkipNonce(q)
    BY <1>2 DEF SpendNonce, RefuseNonce, SkipNonce
<1>3. CASE BindOuter(q) \/ Consistency(q) \/ PrincipalAuthorization(q)
           \/ ConstraintChecks(q) \/ DepthCheck(q)
    BY <1>3 DEF BindOuter, Consistency, PrincipalAuthorization,
                ConstraintChecks, DepthCheck
<1>4. CASE MatchRequest(q) \/ NoRequest(q) \/ PluginAnswers(q)
           \/ NoStatusClaim(q) \/ StatusAnswers(q) \/ Binding(q)
    BY <1>4 DEF MatchRequest, NoRequest, PluginAnswers, NoStatusClaim,
                StatusAnswers, Binding
<1>5. CASE Decide(q)
    BY <1>5 DEF Decide
<1> QED
    BY <1>1, <1>2, <1>3, <1>4, <1>5 DEF Pipeline

(* A step of a call adds to what is known of its arguments. *)
LEMMA PipelineChecks ==
    ASSUME TypeOK, NEW q \in Requests, CallShape(q), PassedChecks(q),
           Pipeline(q)
    PROVE  PassedChecks(q)'
<1> DEFINE Moves(label, ok, step, next) ==
               /\ pc[q] = label /\ error[q] = "nil"
               /\ \/ ok /\ pc'[q] = next /\ error'[q] = "nil"
                  \/ pc'[q] = "done" /\ error'[q] = step
<1>1. /\ UNCHANGED args
      /\ DOMAIN pc = Requests /\ DOMAIN error = Requests
      /\ pc[q] # "done" => error[q] = "nil"
      /\ pc[q] \in {"consistency", "pa"} => tok[q].da # None
    BY PipelineLocal DEF TypeOK, CallShape
<1> USE DEF args, PassedChecks, At, Cleared, Labels, BeyondNonce, LateErrors,
            FromTime, FromRoute, FromConsistency, FromAuthorization,
            FromConstraints, FromDepth, FromCapability, FromPlugin
<1>2. CASE VerifyOuter(q)
  <2>1. Moves("outer", OuterSignatureOK(tok[q], opt[q])
                         /\ CheckOuterRequired(tok[q]), "step1", "time")
      BY <1>1, <1>2 DEF VerifyOuter, Check, Goto, Fail
  <2> QED
      BY <1>1, <2>1
<1>3. CASE TimeChecks(q)
  <2>1. Moves("time", CheckTime(tok[q], now[q]), "step3", "route")
      BY <1>1, <1>3 DEF TimeChecks, Check, Goto, Fail
  <2> QED
      BY <1>1, <2>1
<1>4. CASE FullProfile(q)
  <2>1. tok[q].da # None /\ Moves("route", TRUE, "step4 profile", "da")
      BY <1>1, <1>4 DEF FullProfile, Check, Goto, Fail
  <2> QED
      BY <1>1, <2>1
<1>5. CASE Lightweight(q)
  <2>1. tok[q].da = None /\ Moves("route",
             tok[q].mode # "representative"
             /\ Wrap(tok[q].exp - tok[q].iat) <= MaxLifetime,
             "step4 profile", "constraints")
      BY <1>1, <1>5 DEF Lightweight, Check, Goto, Fail
  <2> QED
      BY <1>1, <2>1
<1>6. CASE ValidateDA(q)
  <2>1. Moves("da", ValidateDAOK(tok[q].da, opt[q], now[q]), "step4 DA", "nonce")
      BY <1>1, <1>6 DEF ValidateDA, Check, Goto, Fail
  <2> QED
      BY <1>1, <2>1
<1>7. CASE SpendNonce(q) \/ RefuseNonce(q) \/ SkipNonce(q)
  <2>1. Moves("nonce", TRUE, "nonce reuse", "bind")
      BY <1>1, <1>7 DEF SpendNonce, RefuseNonce, SkipNonce, Check, Goto, Fail
  <2> QED
      BY <1>1, <2>1
<1>8. CASE BindOuter(q)
  <2>1. Moves("bind", BindOuterOK(tok[q], tok[q].da, opt[q]), "step4 binding",
            "consistency")
      BY <1>1, <1>8 DEF BindOuter, Check, Goto, Fail
  <2> QED
      BY <1>1, <2>1
<1>9. CASE Consistency(q)
  <2>1. Moves("consistency", CheckConsistency(tok[q], tok[q].da), "step5",
            IF tok[q].mode = "representative" THEN "pa" ELSE "constraints")
      BY <1>1, <1>9 DEF Consistency, Check, Goto, Fail
  <2> QED
      BY <1>1, <2>1
<1>10. CASE PrincipalAuthorization(q)
  <2>1. Moves("pa", CheckPA(tok[q], opt[q]), "step6", "constraints")
      BY <1>1, <1>10 DEF PrincipalAuthorization, Check, Goto, Fail
  <2> QED
      BY <1>1, <2>1
<1>11. CASE ConstraintChecks(q)
  <2>1. Moves("constraints",
            EvaluateConstraints(tok[q].cons, opt[q].ctx, opt[q].strict),
            "step7", "depth")
      BY <1>1, <1>11 DEF ConstraintChecks, Check, Goto, Fail
  <2> QED
      BY <1>1, <2>1
<1>12. CASE DepthCheck(q)
  <2>1. Moves("depth", CheckDepth(tok[q], opt[q]), "step8", "capability")
      BY <1>1, <1>12 DEF DepthCheck, Check, Goto, Fail
  <2> QED
      BY <1>1, <2>1
<1>13. CASE MatchRequest(q)
  <2>1. opt[q].request # None
        /\ Moves("capability",
                 MatchCapabilities(tok[q].caps, opt[q].request)
                 /\ opt[q].request.scheme \in opt[q].plugins,
                 "step9", "plugin")
      BY <1>1, <1>13 DEF MatchRequest, Check, Goto, Fail
  <2> QED
      BY <1>1, <2>1
<1>14. CASE NoRequest(q)
  <2>1. opt[q].request = None /\ Moves("capability", TRUE, "step9", "status")
      BY <1>1, <1>14 DEF NoRequest, Check, Goto, Fail
  <2> QED
      BY <1>1, <2>1
<1>15. CASE PluginAnswers(q)
  <2>1. Moves("plugin", TRUE, "step9", "status")
      BY <1>1, <1>15 DEF PluginAnswers, Check, Goto, Fail
  <2> QED
      BY <1>1, <2>1
<1>16. CASE NoStatusClaim(q) \/ StatusAnswers(q)
  <2>1. Moves("status", tok[q].status => opt[q].statusChecker, "step10", "binding")
      BY <1>1, <1>16 DEF NoStatusClaim, StatusAnswers, Check, Goto, Fail
  <2> QED
      BY <1>1, <2>1
<1>17. CASE Binding(q)
  <2>1. Moves("binding", CheckIssuer(tok[q], opt[q]) /\ CheckAudience(tok[q], opt[q])
                       /\ CheckPresenter(tok[q], opt[q]), "binding", "decide")
      BY <1>1, <1>17 DEF Binding, Check, Goto, Fail
  <2> QED
      BY <1>1, <2>1
<1>18. CASE Decide(q)
  <2>1. pc[q] = "decide" /\ error[q] = "nil"
        /\ pc'[q] = "done" /\ error'[q] = "nil"
      BY <1>1, <1>18 DEF Decide
  <2> QED
      BY <1>1, <2>1
<1> QED
    BY <1>2, <1>3, <1>4, <1>5, <1>6, <1>7, <1>8, <1>9, <1>10, <1>11,
       <1>12, <1>13, <1>14, <1>15, <1>16, <1>17, <1>18
       DEF Pipeline

(* A step of a call keeps the types. *)
LEMMA PipelineType ==
    ASSUME TypeOK, NEW q \in Requests, CallShape(q), Pipeline(q)
    PROVE  TypeOK'
<1>1. tok[q] \in CallTokens
    BY PipelineLocal DEF CallShape
<1>2. DecisionOf(tok[q]) \in CallDecisions
    BY <1>1 DEF CallDecisions
<1>3. pc[q] = "nonce" => tok[q].da.nonce \in Nonces
    BY <1>1, TokenFacts DEF CallShape
<1> USE DEF TypeOK, env, args, Goto, Fail, Check, Labels, Errors
<1>4. CASE VerifyOuter(q) \/ TimeChecks(q) \/ FullProfile(q) \/ Lightweight(q)
           \/ ValidateDA(q)
    BY <1>4, ZenonT(40) DEF VerifyOuter, TimeChecks, FullProfile, Lightweight, ValidateDA
<1>5. CASE SpendNonce(q)
    BY <1>5, <1>3 DEF SpendNonce
<1>6. CASE RefuseNonce(q) \/ SkipNonce(q)
    BY <1>6 DEF RefuseNonce, SkipNonce
<1>7. CASE BindOuter(q) \/ Consistency(q) \/ PrincipalAuthorization(q)
           \/ ConstraintChecks(q) \/ DepthCheck(q)
    BY <1>7, ZenonT(40) DEF BindOuter, Consistency, PrincipalAuthorization,
                ConstraintChecks, DepthCheck
<1>8. CASE MatchRequest(q) \/ NoRequest(q) \/ PluginAnswers(q)
           \/ NoStatusClaim(q) \/ StatusAnswers(q) \/ Binding(q)
    BY <1>8, ZenonT(40) DEF MatchRequest, NoRequest, PluginAnswers, NoStatusClaim,
                StatusAnswers, Binding
<1>9. CASE Decide(q)
    BY <1>9, <1>2 DEF Decide
<1> QED
    BY <1>4, <1>5, <1>6, <1>7, <1>8, <1>9 DEF Pipeline

(* SpendNonce is the one step that makes its call a spent one, and the only  *)
(* one that touches the store.                                               *)
LEMMA PipelineSpent ==
    ASSUME TypeOK, NEW q \in Requests, CallShape(q), Pipeline(q),
           ~SpendNonce(q)
    PROVE  /\ seen' = seen
           /\ Spent(q)' = Spent(q)
           /\ error[q]' = "nonce reuse" =>
                 pc[q] = "nonce" /\ tok[q].da.nonce \in seen
<1> USE DEF TypeOK, CallShape, Spent, InFlight, BeyondNonce, LateErrors, env,
            args, Goto, Fail, Check
<1>1. CASE VerifyOuter(q) \/ TimeChecks(q) \/ FullProfile(q) \/ Lightweight(q)
           \/ ValidateDA(q)
    BY <1>1, ZenonT(40) DEF VerifyOuter, TimeChecks, FullProfile, Lightweight, ValidateDA
<1>2. CASE RefuseNonce(q) \/ SkipNonce(q)
    BY <1>2 DEF RefuseNonce, SkipNonce
<1>3. CASE BindOuter(q) \/ Consistency(q) \/ PrincipalAuthorization(q)
           \/ ConstraintChecks(q) \/ DepthCheck(q)
    BY <1>3 DEF BindOuter, Consistency, PrincipalAuthorization,
                ConstraintChecks, DepthCheck
<1>4. CASE MatchRequest(q) \/ NoRequest(q) \/ PluginAnswers(q)
           \/ NoStatusClaim(q) \/ StatusAnswers(q) \/ Binding(q)
    BY <1>4 DEF MatchRequest, NoRequest, PluginAnswers, NoStatusClaim,
                StatusAnswers, Binding
<1>5. CASE Decide(q)
    BY <1>5 DEF Decide
<1> QED
    BY <1>1, <1>2, <1>3, <1>4, <1>5 DEF Pipeline

(* What is known of one call depends on the variables of that call only.     *)
LEMMA UntouchedCall ==
    ASSUME NEW r \in Requests, CallShape(r), PassedChecks(r),
           UNCHANGED <<pc[r], tok[r], opt[r], now[r], born[r], error[r],
                       decision[r]>>,
           restarts' = restarts
    PROVE  /\ CallShape(r)' /\ PassedChecks(r)'
           /\ Spent(r)' = Spent(r)
BY DEF CallShape, PassedChecks, Spent, InFlight, At, Cleared

(* A step of a call preserves what is known of the store. *)
LEMMA PipelineStore ==
    ASSUME IInv, NEW q \in Requests, Pipeline(q)
    PROVE  SeenIsSpent' /\ SpentOnce' /\ RefusedWasSeen'
<1> USE DEF IInv
<1>1. /\ UNCHANGED <<tok, opt, born, restarts>>
      /\ pc[q] \notin {"idle", "done"}
      /\ \A r \in Requests \ {q} : UNCHANGED <<pc[r], error[r]>>
    BY PipelineLocal DEF env, args
<1>2. \A r \in Requests \ {q} : Spent(r)' = Spent(r)
    BY <1>1 DEF Spent
<1>3. born[q] = restarts /\ error[q] = "nil"
    BY <1>1 DEF CallShape, InFlight
<1>4. CASE SpendNonce(q)
  <2> DEFINE n == tok[q].da.nonce
  <2>1. /\ pc[q] = "nonce" /\ opt[q].nonceStore
        /\ n \notin seen /\ seen' = seen \cup {n}
        /\ pc'[q] = "bind" /\ UNCHANGED error
      BY <1>4 DEF SpendNonce, Goto, TypeOK
  <2>2. n \in Nonces /\ tok[q].da # None
      BY <2>1, TokenFacts DEF CallShape
  <2>3. Spent(q)' /\ ~Spent(q)
      BY <2>1, <2>2, <1>1 DEF Spent, BeyondNonce
  <2>4. \A r \in Requests \ {q} :
            Spent(r) /\ born[r] = restarts => tok[r].da.nonce # n
      BY <2>1, <2>2 DEF SeenIsSpent
  <2>5. SeenIsSpent'
      BY <1>1, <1>2, <1>3, <2>1, <2>2, <2>3, <2>4 DEF SeenIsSpent
  <2>6. SpentOnce'
      BY <1>1, <1>2, <1>3, <2>3, <2>4 DEF SpentOnce
  <2>7. RefusedWasSeen'
      BY <1>1, <2>1 DEF RefusedWasSeen
  <2> QED
      BY <2>5, <2>6, <2>7
<1>5. CASE ~SpendNonce(q)
  <2>1. /\ seen' = seen
        /\ Spent(q)' = Spent(q)
        /\ error[q]' = "nonce reuse" => tok[q].da.nonce \in seen
      BY <1>5, PipelineSpent
  <2>2. SeenIsSpent' /\ SpentOnce'
      BY <1>1, <1>2, <2>1, ZenonT(40) DEF SeenIsSpent, SpentOnce
  <2>3. RefusedWasSeen'
      BY <1>1, <2>1 DEF RefusedWasSeen
  <2> QED
      BY <2>2, <2>3
<1> QED
    BY <1>4, <1>5

(* A call starts: its arguments are fresh, and it has spent nothing.         *)
LEMMA StartIInv == ASSUME IInv, NEW q \in Requests, Start(q) PROVE IInv'
<1> USE DEF IInv
<1>1. /\ UNCHANGED <<load, clock, restarts, seen, decision, error>>
      /\ pc[q] = "idle" /\ pc'[q] = "outer" /\ born'[q] = restarts
      /\ tok'[q] \in CallTokens /\ opt'[q] \in CallOptions
      /\ \A r \in Requests \ {q} :
            UNCHANGED <<pc[r], tok[r], opt[r], now[r], born[r]>>
    BY DEF Start, TypeOK, env, CallTokens, CallOptions, AllCalls
<1>2. TypeOK'
    BY <1>1 DEF Start, TypeOK, Labels
<1>3. CallShape(q)'
    BY <1>1 DEF CallShape, InFlight, TypeOK
<1>4. PassedChecks(q)'
    BY <1>1 DEF PassedChecks, At, Cleared, BeyondNonce, FromTime, FromRoute,
                FromConsistency, FromAuthorization, FromConstraints, FromDepth,
                FromCapability, FromPlugin, Labels
<1>5. \A r \in Requests \ {q} : /\ CallShape(r)' /\ PassedChecks(r)'
                                /\ Spent(r)' = Spent(r)
    BY <1>1, UntouchedCall
<1>6. ~Spent(q) /\ ~Spent(q)' /\ error[q] # "nonce reuse"
    BY <1>1 DEF Spent, BeyondNonce, CallShape
<1>7. \A r \in Requests : /\ Spent(r)' <=> Spent(r)
                          /\ Spent(r) => /\ tok'[r] = tok[r]
                                         /\ born'[r] = born[r]
    BY <1>1, <1>5, <1>6
<1>8. SeenIsSpent' /\ SpentOnce'
    BY <1>1, <1>7 DEF SeenIsSpent, SpentOnce
<1>9. RefusedWasSeen'
    BY <1>1, <1>6 DEF RefusedWasSeen
<1> QED
    BY <1>2, <1>3, <1>4, <1>5, <1>8, <1>9

(* A restart keeps only the calls that returned, all of an older incarnation *)
(* than the new, empty store.                                                *)
LEMMA RestartIInv == ASSUME IInv, Restart PROVE IInv'
<1> USE DEF IInv
<1>1. /\ restarts' = restarts + 1 /\ restarts \in Nat /\ seen' = {}
      /\ UNCHANGED <<decision, error>>
    BY ClockAssumption DEF Restart, TypeOK
<1>2. ASSUME NEW r \in Requests, pc[r] = "done"
      PROVE  UNCHANGED <<pc[r], tok[r], opt[r], now[r], born[r]>>
    BY <1>2 DEF Restart
<1>3. ASSUME NEW r \in Requests, pc[r] # "done"
      PROVE  pc'[r] = "idle" /\ born'[r] = 0
    BY <1>3 DEF Restart
<1>4. TypeOK'
    BY ClockAssumption DEF Restart, TypeOK, Labels
<1>5. ASSUME NEW r \in Requests PROVE CallShape(r)' /\ PassedChecks(r)'
  <2>1. CASE pc[r] = "done"
    <3>1. CallShape(r)'
        BY <1>1, <1>2, <2>1 DEF CallShape, InFlight, TypeOK
    <3>2. PassedChecks(r)'
        BY <1>1, <1>2, <2>1 DEF PassedChecks, At, Cleared
    <3> QED
        BY <3>1, <3>2
  <2>2. CASE pc[r] # "done"
    <3>1. CallShape(r)'
        BY <1>1, <1>3, <2>2 DEF CallShape, InFlight
    <3>2. PassedChecks(r)'
        BY <1>1, <1>3, <2>2
           DEF PassedChecks, At, Cleared, BeyondNonce, FromTime, FromRoute,
               FromConsistency, FromAuthorization, FromConstraints, FromDepth,
                FromCapability, FromPlugin, Labels
    <3> QED
        BY <3>1, <3>2
  <2> QED
      BY <2>1, <2>2
<1>6. ASSUME NEW r \in Requests
      PROVE  /\ Spent(r)' => Spent(r) /\ pc[r] = "done"
             /\ born'[r] # restarts'
  <2>1. born[r] <= restarts /\ born[r] \in Nat
      BY DEF CallShape, TypeOK
  <2> QED
      BY <1>1, <1>2, <1>3, <2>1 DEF Spent, BeyondNonce
<1>7. SeenIsSpent'
    BY <1>1, <1>6 DEF SeenIsSpent
<1>8. RefusedWasSeen'
    BY <1>6 DEF RefusedWasSeen
<1>9. SpentOnce'
    BY <1>2, <1>6 DEF SpentOnce
<1> QED
    BY <1>4, <1>5, <1>7, <1>8, <1>9

(* Every step preserves the invariant. *)
LEMMA NextIInv == IInv /\ [Next]_vars => IInv'
<1> SUFFICES ASSUME IInv, [Next]_vars PROVE IInv'
    OBVIOUS
<1>1. ASSUME NEW q \in Requests, Pipeline(q) PROVE IInv'
  <2>1. TypeOK'
      BY <1>1, PipelineType DEF IInv
  <2>2. CallShape(q)' /\ PassedChecks(q)'
      BY <1>1, PipelineShape, PipelineChecks DEF IInv
  <2>3. \A r \in Requests \ {q} : CallShape(r)' /\ PassedChecks(r)'
      BY <1>1, PipelineLocal, UntouchedCall DEF IInv, env, args
  <2>4. SeenIsSpent' /\ SpentOnce' /\ RefusedWasSeen'
      BY <1>1, PipelineStore
  <2> QED
      BY <2>1, <2>2, <2>3, <2>4 DEF IInv
<1>2. CASE Tick \/ UNCHANGED vars
  <2>1. /\ UNCHANGED <<restarts, seen, pc, args, decision, error>>
        /\ TypeOK'
      BY <1>2, ClockAssumption DEF Tick, vars, env, IInv, TypeOK, args
  <2>2. \A r \in Requests : /\ CallShape(r)' /\ PassedChecks(r)'
                            /\ Spent(r)' = Spent(r)
      BY <2>1, UntouchedCall DEF IInv, args
  <2>3. SeenIsSpent' /\ SpentOnce' /\ RefusedWasSeen'
      BY <2>1, <2>2 DEF IInv, SeenIsSpent, SpentOnce, RefusedWasSeen, args
  <2> QED
      BY <2>1, <2>2, <2>3 DEF IInv
<1> QED
    BY <1>1, <1>2, StartIInv, RestartIInv DEF Next

(* The inductive invariant holds throughout: a call has passed the checks of *)
(* the steps behind it (validate.go:96-221).                                 *)
THEOREM Invariance == Spec => []IInv
<1> QED
    BY InitIInv, NextIInv, PTL DEF Spec

(* Type correctness of the pipeline. *)
THEOREM TypeCorrect == Spec => []TypeOK
<1>1. IInv => TypeOK
    BY DEF IInv
<1> QED
    BY <1>1, Invariance, PTL

-----------------------------------------------------------------------------
(* A permitted call passed every check. *)
LEMMA PermittedFacts ==
    ASSUME IInv, NEW r \in Requests, Permitted(r)
    PROVE  /\ tok[r] \in CallTokens
           /\ decision[r] = DecisionOf(tok[r])
           /\ CheckTime(tok[r], now[r])
           /\ CheckPresenter(tok[r], opt[r])
           /\ tok[r].da = None => /\ tok[r].mode # "representative"
                                  /\ Wrap(tok[r].exp - tok[r].iat)
                                        <= MaxLifetime
           /\ tok[r].da # None =>
                 /\ ValidateDAOK(tok[r].da, opt[r], now[r])
                 /\ BindOuterOK(tok[r], tok[r].da, opt[r])
                 /\ CheckConsistency(tok[r], tok[r].da)
                 /\ tok[r].mode = "representative" => CheckPA(tok[r], opt[r])
           /\ opt[r].request # None =>
                 MatchCapabilities(tok[r].caps, opt[r].request)
<1>1. pc[r] = "done" /\ error[r] = "nil"
    BY DEF IInv, CallShape, Permitted
<1> QED
    BY <1>1 DEF IInv, CallShape, PassedChecks, Permitted, At, Cleared

(* Whatever the profile, the mode and the options, and whichever calls run   *)
(* at the same time, a permitted call passed every check that applies to it  *)
(* at the time it sampled when it began: none is skipped on any path.  What  *)
(* the plugin and the status checker answered is not kept, only that they    *)
(* were there to be asked (validate.go:96-221).                              *)
EveryCheckPassed ==
    \A r \in Requests :
        Permitted(r) =>
            /\ OuterSignatureOK(tok[r], opt[r])
            /\ CheckOuterRequired(tok[r])
            /\ CheckTime(tok[r], now[r])
            /\ tok[r].da # None =>
                  /\ ValidateDAOK(tok[r].da, opt[r], now[r])
                  /\ BindOuterOK(tok[r], tok[r].da, opt[r])
                  /\ CheckConsistency(tok[r], tok[r].da)
                  /\ opt[r].nonceStore => Spent(r)
            /\ tok[r].da = None => Wrap(tok[r].exp - tok[r].iat) <= MaxLifetime
            /\ tok[r].mode = "representative" =>
                  tok[r].da # None /\ CheckPA(tok[r], opt[r])
            /\ EvaluateConstraints(tok[r].cons, opt[r].ctx, opt[r].strict)
            /\ CheckDepth(tok[r], opt[r])
            /\ opt[r].request # None =>
                  /\ MatchCapabilities(tok[r].caps, opt[r].request)
                  /\ opt[r].request.scheme \in opt[r].plugins
            /\ tok[r].status => opt[r].statusChecker
            /\ CheckIssuer(tok[r], opt[r])
            /\ CheckAudience(tok[r], opt[r])
            /\ CheckPresenter(tok[r], opt[r])

(* Nothing is permitted past a check (validate.go:96-221). *)
THEOREM PermitsPassEveryCheck == Spec => []EveryCheckPassed
<1>1. ASSUME IInv, NEW r \in Requests, Permitted(r)
      PROVE  pc[r] = "done" /\ error[r] = "nil"
    BY <1>1 DEF IInv, CallShape, Permitted
<1>2. ASSUME IInv PROVE EveryCheckPassed
    BY <1>1, <1>2 DEF EveryCheckPassed, IInv, PassedChecks, At, Cleared, Spent
<1> QED
    BY <1>2, Invariance, PTL

(* A DA that ValidateDA accepts was signed by its principal. *)
LEMMA ValidIsAuthentic ==
    ASSUME NEW d, NEW o, NEW n, ValidateDAOK(d, o, n)
    PROVE  Authentic(d)
BY DEF ValidateDAOK, DASignatureOK, Authentic

(* Only a DA that its principal signed uses up a nonce                       *)
(* (validate.go:507-532).                                                    *)
THEOREM AuthenticSpends == Spec => []OnlyAuthenticSpent
<1>1. ASSUME IInv PROVE OnlyAuthenticSpent
  <2> SUFFICES ASSUME NEW n \in seen
               PROVE  \E r \in Requests : /\ Spent(r)
                                          /\ born[r] = restarts
                                          /\ tok[r].da.nonce = n
                                          /\ Authentic(tok[r].da)
      BY DEF OnlyAuthenticSpent
  <2>1. n \in Nonces
      BY <1>1 DEF IInv, TypeOK
  <2>2. PICK r \in Requests :
            Spent(r) /\ born[r] = restarts /\ tok[r].da.nonce = n
      BY <1>1, <2>1 DEF IInv, SeenIsSpent
  <2>3. ValidateDAOK(tok[r].da, opt[r], now[r])
      BY <1>1, <2>2 DEF IInv, PassedChecks, Cleared, Spent
  <2> QED
      BY <2>2, <2>3, ValidIsAuthentic
<1> QED
    BY <1>1, Invariance, PTL

(* One process permits a delegation at most once, whatever calls carry it    *)
(* (validate.go:528-532).                                                    *)
THEOREM PermitOncePerNonce == Spec => []OnePermitPerNonce
<1>1. ASSUME IInv PROVE OnePermitPerNonce
  <2>1. ASSUME NEW r \in Requests, Permitted(r), tok[r].da # None,
               opt[r].nonceStore
        PROVE  Spent(r)
      BY <1>1, <2>1 DEF IInv, CallShape, Permitted, Spent
  <2> QED
      BY <1>1, <2>1 DEF IInv, SpentOnce, OnePermitPerNonce
<1> QED
    BY <1>1, Invariance, PTL

(* A nonce reuse is reported only against another call that spent the nonce  *)
(* (validate.go:528-532).                                                    *)
THEOREM ReplaysExplained == Spec => []ReplayExplained
<1>1. ASSUME IInv PROVE ReplayExplained
  <2> SUFFICES ASSUME NEW r \in Requests, error[r] = "nonce reuse",
                      born[r] = restarts
               PROVE  \E q \in Requests \ {r} :
                         /\ Spent(q)
                         /\ born[q] = restarts
                         /\ tok[q].da.nonce = tok[r].da.nonce
      BY DEF ReplayExplained
  <2>1. tok[r].da.nonce \in seen /\ tok[r].da.nonce \in Nonces
      BY <1>1 DEF IInv, RefusedWasSeen, TypeOK
  <2>2. PICK q \in Requests : /\ Spent(q) /\ born[q] = restarts
                              /\ tok[q].da.nonce = tok[r].da.nonce
      BY <1>1, <2>1 DEF IInv, SeenIsSpent
  <2>3. ~Spent(r)
      BY <1>1 DEF IInv, CallShape, Spent, BeyondNonce, LateErrors
  <2> QED
      BY <2>2, <2>3
<1> QED
    BY <1>1, Invariance, PTL

(* The agent's key is the one the principal bound, the issuer confirmed and  *)
(* the presenter holds (validate.go:209-220, 545-566).                       *)
THEOREM AgentKeyChained == Spec => []AgentKeyChain
<1>1. ASSUME IInv PROVE AgentKeyChain
    BY <1>1, PermittedFacts
       DEF AgentKeyChain, BindOuterOK, PresenterHoldsAgentKey, CheckPresenter
<1> QED
    BY <1>1, Invariance, PTL

(* Representation needs a DA and an authorization of one principal           *)
(* (validate.go:136-137, 149-154).                                           *)
THEOREM RepresentationIsAuthorized == Spec => []RepresentationAuthorized
<1>1. ASSUME IInv PROVE RepresentationAuthorized
  <2> SUFFICES ASSUME NEW r \in Requests, Permitted(r),
                      tok[r].mode = "representative"
               PROVE  /\ tok[r].da # None
                      /\ Authentic(tok[r].da)
                      /\ opt[r].pa.principal = tok[r].da.principal
                      /\ \A i \in DOMAIN decision[r].capabilities :
                            CapabilitySubset(decision[r].capabilities[i],
                                             opt[r].pa.grants)
                      /\ EvaluateConstraints(opt[r].pa.cons, opt[r].ctx,
                                             opt[r].strict)
      BY DEF RepresentationAuthorized
  <2>1. tok[r].da # None /\ CheckPA(tok[r], opt[r])
        /\ ValidateDAOK(tok[r].da, opt[r], now[r])
        /\ CheckConsistency(tok[r], tok[r].da)
      BY <1>1, PermittedFacts
  <2>2. Authentic(tok[r].da)
      BY <2>1, ValidIsAuthentic
  <2>3. decision[r] = DecisionOf(tok[r])
      BY <1>1, PermittedFacts
  <2>4. decision[r].capabilities = tok[r].caps
      BY <2>3 DEF DecisionOf
  <2> QED
      BY <2>1, <2>2, <2>4 DEF CheckPA, CheckConsistency
<1> QED
    BY <1>1, Invariance, PTL

(* A difference of claims that the pipeline found small is small, unless iat *)
(* is negative: only then can it wrap.                                       *)
LEMMA WrapOfDifference ==
    ASSUME NEW exp \in -Half..Half - 1, NEW iat \in -Half..Half - 1,
           iat >= 0, NEW bound \in Nat, Wrap(exp - iat) <= bound
    PROVE  exp - iat <= bound
BY ClockAssumption DEF Wrap

(* ts + requested_lifetime wraps to less than the sum.                       *)
LEMMA WrapOfSum ==
    ASSUME NEW ts \in -Half..Half - 1, NEW lifetime \in 1..MaxLifetime
    PROVE  Wrap(ts + lifetime) \in Int /\ Wrap(ts + lifetime) <= ts + lifetime
BY ClockAssumption DEF Wrap

(* No profile lets a token issued after 1970 live longer than the longest    *)
(* lifetime (validate.go:138-140, 426, 574).                                 *)
THEOREM LifetimesBounded == Spec => []LifetimeBounded
<1>1. ASSUME IInv PROVE LifetimeBounded
  <2> SUFFICES ASSUME NEW r \in Requests, Permitted(r)
               PROVE  /\ Unix(now[r]) <= tok[r].exp
                      /\ tok[r].iat >= 0 =>
                            tok[r].exp - tok[r].iat <= MaxLifetime
      BY DEF LifetimeBounded
  <2>1. /\ tok[r].exp \in -Half..Half - 1 /\ tok[r].iat \in -Half..Half - 1
        /\ Unix(now[r]) <= tok[r].exp
      BY <1>1, PermittedFacts, TokenFacts DEF CheckTime
  <2>2. PICK bound \in 0..MaxLifetime : Wrap(tok[r].exp - tok[r].iat) <= bound
    <3>1. CASE tok[r].da = None
        BY <1>1, <3>1, PermittedFacts, ClockAssumption
    <3>2. CASE tok[r].da # None
      <4>1. /\ Wrap(tok[r].exp - tok[r].iat) <= tok[r].da.lifetime
            /\ tok[r].da.lifetime \in 1..MaxLifetime
          BY <1>1, <3>2, PermittedFacts
             DEF BindOuterOK, OuterWithinDA, ValidateDAOK, CheckDARequired
      <4> QED
          BY <4>1, ClockAssumption
    <3> QED
        BY <3>1, <3>2
  <2>3. tok[r].iat >= 0 => tok[r].exp - tok[r].iat <= bound
      BY <2>1, <2>2, WrapOfDifference, ClockAssumption
  <2> QED
      BY <2>1, <2>2, <2>3, ClockAssumption
<1> QED
    BY <1>1, Invariance, PTL

(* What holds of the draft's bound on the lifetime: a token that was issued  *)
(* after 1970 lives no longer than its DA allows.  Only an earlier iat makes *)
(* LifetimeNeverExceeded fail (validate.go:574).                             *)
DelegatedLifetimeBounded ==
    \A r \in Requests :
        Permitted(r) /\ tok[r].da # None /\ tok[r].iat >= 0 =>
            tok[r].exp - tok[r].iat <= tok[r].da.lifetime

(* The lifetime of the DA bounds the token's (validate.go:574). *)
THEOREM DelegatedLifetimesBounded == Spec => []DelegatedLifetimeBounded
<1>1. ASSUME IInv PROVE DelegatedLifetimeBounded
  <2> SUFFICES ASSUME NEW r \in Requests, Permitted(r),
                      tok[r].da # None, tok[r].iat >= 0
               PROVE  tok[r].exp - tok[r].iat <= tok[r].da.lifetime
      BY DEF DelegatedLifetimeBounded
  <2>1. tok[r].exp \in -Half..Half - 1 /\ tok[r].iat \in -Half..Half - 1
      BY <1>1, PermittedFacts, TokenFacts
  <2>2. /\ Wrap(tok[r].exp - tok[r].iat) <= tok[r].da.lifetime
        /\ tok[r].da.lifetime \in Nat
      BY <1>1, PermittedFacts, ClockAssumption
         DEF BindOuterOK, OuterWithinDA, ValidateDAOK, CheckDARequired
  <2> QED
      BY <2>1, <2>2, WrapOfDifference
<1> QED
    BY <1>1, Invariance, PTL

(* What holds of the draft's "effective capabilities are a subset of the     *)
(* principal grants": the request is one the grants allow whenever the       *)
(* agent's capabilities that cover it do not widen what covers them.  Only a *)
(* pattern among them can make RequestWithinGrants fail: a capability        *)
(* without wildcards widens nothing                                          *)
(* (CapabilityMatchProofs!LiteralsDoNotWiden; capmatch.go:230-240, 337-352). *)
DoesNotWiden(c, request) ==
    Covers(c, request) =>
        \A pattern : MatchPattern(pattern, CapPattern(c)) =>
                         MatchPattern(pattern, CapPattern(request))

NarrowRequestWithinGrants ==
    \A r \in Requests :
        (/\ Permitted(r) /\ tok[r].mode = "representative"
         /\ opt[r].request # None
         /\ \A i \in DOMAIN tok[r].caps :
               DoesNotWiden(tok[r].caps[i], opt[r].request))
        => MatchCapabilities(opt[r].pa.grants, opt[r].request)

(* A request that the agent may make is within the grants, unless a pattern  *)
(* widened it (validate.go:149-154, 174-178).                                *)
THEOREM NarrowRequestsWithinGrants == Spec => []NarrowRequestWithinGrants
<1>1. ASSUME IInv PROVE NarrowRequestWithinGrants
  <2> SUFFICES ASSUME NEW r \in Requests, Permitted(r),
                      tok[r].mode = "representative", opt[r].request # None,
                      \A i \in DOMAIN tok[r].caps :
                          DoesNotWiden(tok[r].caps[i], opt[r].request)
               PROVE  MatchCapabilities(opt[r].pa.grants, opt[r].request)
      BY DEF NarrowRequestWithinGrants
  <2>1. CheckPA(tok[r], opt[r])
        /\ MatchCapabilities(tok[r].caps, opt[r].request)
      BY <1>1, PermittedFacts
  <2>2. PICK i \in DOMAIN tok[r].caps : Covers(tok[r].caps[i], opt[r].request)
      BY <2>1 DEF MatchCapabilities
  <2>3. PICK g \in DOMAIN opt[r].pa.grants :
            Covers(opt[r].pa.grants[g], tok[r].caps[i])
      BY <2>1 DEF CheckPA, CapabilitySubset
  <2>4. Covers(opt[r].pa.grants[g], opt[r].request)
      BY <2>2, <2>3 DEF DoesNotWiden, Covers
  <2> QED
      BY <2>4 DEF MatchCapabilities
<1> QED
    BY <1>1, Invariance, PTL

(* A permitted full-profile token is what its principal delegated            *)
(* (validate.go:129-147, 223-238).                                           *)
THEOREM DelegationsHonoured == Spec => []DelegationHonoured
<1>1. ASSUME IInv PROVE DelegationHonoured
  <2> SUFFICES ASSUME NEW r \in Requests, Permitted(r), tok[r].da # None
               PROVE  LET d == tok[r].da
                      IN /\ Authentic(d)
                         /\ decision[r].executor = d.agent_id
                         /\ decision[r].actor = IF d.mode = "representative"
                                                THEN <<d.principal.id>>
                                                ELSE d.agent_id
                         /\ decision[r].capabilities = d.caps
                         /\ now[r] <= (d.ts + d.lifetime) * TicksPerSecond
                         /\ tok[r].exp <= d.ts + d.lifetime
      BY DEF DelegationHonoured
  <2> DEFINE t == tok[r]
             d == tok[r].da
  <2>1. /\ ValidateDAOK(d, opt[r], now[r])
        /\ BindOuterOK(t, d, opt[r])
        /\ CheckConsistency(t, d)
        /\ decision[r] = DecisionOf(t)
      BY <1>1, PermittedFacts
  <2>2. Authentic(d)
      BY <2>1, ValidIsAuthentic
  <2>3. /\ decision[r].executor = d.agent_id
        /\ decision[r].actor = IF d.mode = "representative"
                               THEN <<d.principal.id>> ELSE d.agent_id
        /\ decision[r].capabilities = d.caps
      BY <2>1 DEF CheckConsistency, CheckRoles, DecisionOf, ValidateDAOK,
                  CheckDARequired
  <2>4. tok[r].exp <= d.ts + d.lifetime
    <3>1. /\ tok[r].exp <= d.exp
          /\ d.exp = Wrap(d.ts + d.lifetime)
          /\ d.lifetime \in 1..MaxLifetime
        BY <2>1 DEF ValidateDAOK, DATimesOK, BindOuterOK, OuterWithinDA,
                    CheckDARequired
    <3>2. tok[r].exp \in Int /\ d.ts \in -Half..Half - 1
        BY <1>1, PermittedFacts, TokenFacts, ClockAssumption
    <3>3. PICK ts \in -Half..Half - 1, lifetime \in 1..MaxLifetime :
              ts = d.ts /\ lifetime = d.lifetime
        BY <3>1, <3>2
    <3>4. Wrap(ts + lifetime) \in Int /\ Wrap(ts + lifetime) <= ts + lifetime
        BY WrapOfSum
    <3>5. tok[r].exp <= Wrap(ts + lifetime)
        BY <3>1, <3>3
    <3>6. ts \in Int /\ lifetime \in Int
        BY ClockAssumption
    <3>7. tok[r].exp <= ts + lifetime
        BY <3>2, <3>4, <3>5, <3>6
    <3> QED
        BY <3>3, <3>7
  <2>5. now[r] <= (d.ts + d.lifetime) * TicksPerSecond
    <3>1. /\ now[r] - d.ts * TicksPerSecond <= d.lifetime * TicksPerSecond
          /\ d.lifetime \in 1..MaxLifetime
        BY <2>1 DEF ValidateDAOK, DATimesOK, CheckDARequired
    <3>2. now[r] \in Int /\ d.ts \in Int /\ d.lifetime \in Int
          /\ TicksPerSecond \in Int
        BY <1>1, <3>1, PermittedFacts, TokenFacts, ClockAssumption
           DEF IInv, TypeOK
    <3>3. (d.ts + d.lifetime) * TicksPerSecond
             = d.ts * TicksPerSecond + d.lifetime * TicksPerSecond
        BY <3>2
    <3>4. d.ts * TicksPerSecond \in Int /\ d.lifetime * TicksPerSecond \in Int
        BY <3>2
    <3> QED
        BY <3>1, <3>2, <3>3, <3>4
  <2> QED
      BY <2>2, <2>3, <2>4, <2>5
<1> QED
    BY <1>1, Invariance, PTL

-----------------------------------------------------------------------------
(* The pipeline as a client of the atomic store. *)
AskedOf(r) == IF StoreStatus(r) = "idle" THEN None ELSE tok[r].da.nonce

AbstractStatus == [r \in Requests |-> StoreStatus(r)]
AbstractAsked == [r \in Requests |-> AskedOf(r)]
AbstractGrants == [n \in Nonces |-> IF n \in seen THEN 1 ELSE 0]

LEMMA InitRefines == Init => Store!Init
<1> SUFFICES ASSUME Init PROVE Store!Init
    OBVIOUS
<1>1. \A r \in Requests : StoreStatus(r) = "idle"
    BY DEF Init, StoreStatus
<1> QED
    BY <1>1 DEF Init, Store!Init

(* A step of one call moves the abstract status of that call only. *)
LEMMA AbstractStep ==
    ASSUME NEW q \in Requests, NEW s, NEW a,
           \A r \in Requests \ {q} : /\ StoreStatus(r)' = StoreStatus(r)
                                     /\ AskedOf(r)' = AskedOf(r),
           StoreStatus(q)' = s, AskedOf(q)' = a
    PROVE  /\ AbstractStatus' = [AbstractStatus EXCEPT ![q] = s]
           /\ AbstractAsked' = [AbstractAsked EXCEPT ![q] = a]
BY DEF AbstractStatus, AbstractAsked

(* Steps other than the three of the store either leave the status of the    *)
(* call alone or return the answer.                                          *)
LEMMA OtherStepStatus ==
    ASSUME TypeOK, NEW q \in Requests, CallShape(q), Pipeline(q),
           ~ValidateDA(q), ~SpendNonce(q), ~RefuseNonce(q)
    PROVE  /\ StoreStatus(q) \in {"idle", "granted"}
           /\ StoreStatus(q)' \in {StoreStatus(q), "idle"}
<1> USE DEF TypeOK, CallShape, StoreStatus, InFlight, BeyondNonce, env, args,
            Goto, Fail, Check
<1>1. CASE VerifyOuter(q) \/ TimeChecks(q) \/ FullProfile(q) \/ Lightweight(q)
    BY <1>1, ZenonT(40) DEF VerifyOuter, TimeChecks, FullProfile, Lightweight
<1>2. CASE SkipNonce(q) \/ BindOuter(q) \/ Consistency(q)
           \/ PrincipalAuthorization(q)
    BY <1>2 DEF SkipNonce, BindOuter, Consistency, PrincipalAuthorization
<1>3. CASE ConstraintChecks(q) \/ DepthCheck(q) \/ MatchRequest(q)
           \/ NoRequest(q) \/ PluginAnswers(q)
    BY <1>3 DEF ConstraintChecks, DepthCheck, MatchRequest, NoRequest,
                PluginAnswers
<1>4. CASE NoStatusClaim(q) \/ StatusAnswers(q) \/ Binding(q) \/ Decide(q)
    BY <1>4 DEF NoStatusClaim, StatusAnswers, Binding, Decide
<1> QED
    BY <1>1, <1>2, <1>3, <1>4 DEF Pipeline

(* Each step of a call is one step of the atomic store or invisible to it.   *)
LEMMA PipelineRefines ==
    ASSUME IInv, NEW q \in Requests, Pipeline(q)
    PROVE  [Store!Next]_(Store!vars)
<1>1. TypeOK /\ CallShape(q)
    BY DEF IInv
<1>2. /\ UNCHANGED <<tok, opt, born, restarts>>
      /\ pc[q] \notin {"idle", "done"}
      /\ \A r \in Requests \ {q} : UNCHANGED <<pc[r], error[r]>>
    BY <1>1, PipelineLocal DEF env, args
<1>3. \A r \in Requests \ {q} : /\ StoreStatus(r)' = StoreStatus(r)
                                /\ AskedOf(r)' = AskedOf(r)
    BY <1>2 DEF StoreStatus, AskedOf
<1>4. /\ tok[q] # None /\ tok[q] \in CallTokens
      /\ tok[q].da # None => tok[q].da.nonce \in Nonces
      /\ born[q] = restarts /\ error[q] = "nil"
    BY <1>1, <1>2, TokenFacts DEF CallShape, InFlight
<1> DEFINE n == tok[q].da.nonce
<1>5. CASE ValidateDA(q) /\ pc'[q] = "nonce" /\ opt[q].nonceStore
  <2>1. tok[q].da # None /\ pc[q] = "da" /\ seen' = seen
      BY <1>1, <1>5 DEF ValidateDA, Check, CallShape
  <2>2. PICK m \in Nonces : m = n
      BY <1>4, <2>1
  <2>3. /\ StoreStatus(q) = "idle" /\ StoreStatus(q)' = "asked"
        /\ AskedOf(q)' = m
      BY <1>2, <1>4, <1>5, <2>1, <2>2 DEF StoreStatus, AskedOf, BeyondNonce
  <2>4. Store!Ask(q, m)
      BY <1>3, <2>1, <2>3, AbstractStep
         DEF Store!Ask, AbstractStatus, AbstractAsked, AskedOf
  <2> QED
      BY <2>4 DEF Store!Next
<1>6. CASE ValidateDA(q) /\ ~(pc'[q] = "nonce" /\ opt[q].nonceStore)
  <2>1. /\ pc[q] = "da" /\ seen' = seen
        /\ \/ pc'[q] = "nonce" /\ ~opt[q].nonceStore
           \/ pc'[q] = "done" /\ error'[q] = "step4 DA"
      BY <1>1, <1>6 DEF ValidateDA, Check, Goto, Fail, TypeOK
  <2>2. StoreStatus(q) = "idle" /\ StoreStatus(q)' = "idle"
      BY <1>2, <1>4, <2>1 DEF StoreStatus, BeyondNonce
  <2>3. \A r \in Requests : /\ StoreStatus(r)' = StoreStatus(r)
                            /\ AskedOf(r)' = AskedOf(r)
      BY <1>3, <2>2 DEF AskedOf
  <2> QED
      BY <2>1, <2>3 DEF Store!vars, AskedOf
<1>7. CASE SpendNonce(q)
  <2>1. /\ pc[q] = "nonce" /\ pc'[q] = "bind" /\ opt[q].nonceStore
        /\ n \notin seen /\ seen' = seen \cup {n}
        /\ tok[q].da # None
      BY <1>1, <1>7 DEF SpendNonce, Goto, TypeOK, CallShape
  <2>2. /\ StoreStatus(q) = "asked" /\ StoreStatus(q)' = "granted"
        /\ AskedOf(q) = n /\ AskedOf(q)' = n
      BY <1>2, <1>4, <2>1 DEF StoreStatus, AskedOf, BeyondNonce
  <2>3. AbstractGrants' = [AbstractGrants EXCEPT ![n] = @ + 1]
      BY <1>4, <2>1 DEF AbstractGrants
  <2>4. AbstractAsked' = AbstractAsked
      BY <1>3, <2>2 DEF AbstractAsked
  <2>5. Store!Grant(q)
      BY <1>3, <2>1, <2>2, <2>3, <2>4, AbstractStep, ZenonT(40)
         DEF Store!Grant, AbstractStatus, AbstractAsked, AbstractGrants, AskedOf
  <2> QED
      BY <2>5 DEF Store!Next
<1>8. CASE RefuseNonce(q)
  <2>1. /\ pc[q] = "nonce" /\ pc'[q] = "done" /\ opt[q].nonceStore
        /\ n \in seen /\ seen' = seen /\ error'[q] = "nonce reuse"
        /\ tok[q].da # None
      BY <1>1, <1>8 DEF RefuseNonce, Check, Fail, TypeOK, CallShape
  <2>2. /\ StoreStatus(q) = "asked" /\ StoreStatus(q)' = "refused"
        /\ AskedOf(q) = n /\ AskedOf(q)' = n
      BY <1>2, <1>4, <2>1 DEF StoreStatus, AskedOf, BeyondNonce
  <2>3. AbstractAsked' = AbstractAsked
      BY <1>3, <2>2 DEF AbstractAsked
  <2>4. Store!Refuse(q)
      BY <1>3, <2>1, <2>2, <2>3, AbstractStep
         DEF Store!Refuse, AbstractStatus, AbstractAsked, AskedOf
  <2> QED
      BY <2>4 DEF Store!Next
<1>9. CASE ~ValidateDA(q) /\ ~SpendNonce(q) /\ ~RefuseNonce(q)
  <2>1. seen' = seen
      BY <1>1, <1>9, PipelineSpent
  <2>2. /\ StoreStatus(q) \in {"idle", "granted"}
        /\ StoreStatus(q)' \in {StoreStatus(q), "idle"}
      BY <1>1, <1>9, OtherStepStatus
  <2>3. CASE StoreStatus(q)' = StoreStatus(q)
    <3>1. \A r \in Requests : /\ StoreStatus(r)' = StoreStatus(r)
                              /\ AskedOf(r)' = AskedOf(r)
        BY <1>2, <1>3, <2>3 DEF AskedOf
    <3> QED
        BY <2>1, <3>1 DEF Store!vars, AskedOf
  <2>4. CASE StoreStatus(q) = "granted" /\ StoreStatus(q)' = "idle"
    <3>1. AskedOf(q)' = None
        BY <2>4 DEF AskedOf
    <3>2. Store!Return(q)
        BY <1>3, <2>1, <2>4, <3>1, AbstractStep
           DEF Store!Return, AbstractStatus, AbstractAsked, AskedOf
    <3> QED
        BY <3>2 DEF Store!Next
  <2> QED
      BY <2>2, <2>3, <2>4
<1> QED
    BY <1>5, <1>6, <1>7, <1>8, <1>9
(* A restart of the process is one of the store. *)
LEMMA RestartRefines == ASSUME IInv, Restart PROVE Store!Restart
<1>1. /\ restarts' = restarts + 1 /\ restarts \in Nat /\ seen' = {}
      /\ UNCHANGED error
    BY ClockAssumption DEF Restart, IInv, TypeOK
<1>2. \A r \in Requests : StoreStatus(r)' = "idle"
  <2> SUFFICES ASSUME NEW r \in Requests PROVE StoreStatus(r)' = "idle"
      OBVIOUS
  <2>1. CASE pc[r] = "done"
    <3>1. born'[r] = born[r]
        BY <2>1 DEF Restart
    <3>2. born[r] <= restarts /\ born[r] \in Nat
        BY DEF IInv, CallShape, TypeOK
    <3>3. born'[r] # restarts'
        BY <1>1, <3>1, <3>2
    <3> QED
        BY <3>3 DEF StoreStatus
  <2>2. CASE pc[r] # "done"
    <3>1. tok'[r] = None
        BY <2>2 DEF Restart
    <3> QED
        BY <3>1 DEF StoreStatus
  <2> QED
      BY <2>1, <2>2
<1> QED
    BY <1>1, <1>2 DEF Store!Restart

LEMMA NextRefines == IInv /\ [Next]_vars => [Store!Next]_(Store!vars)
<1> SUFFICES ASSUME IInv, [Next]_vars PROVE [Store!Next]_(Store!vars)
    OBVIOUS
<1>1. ASSUME NEW q \in Requests, Start(q) PROVE UNCHANGED Store!vars
  <2>1. /\ UNCHANGED <<restarts, seen, error>> /\ error[q] = "nil"
        /\ pc[q] = "idle" /\ pc'[q] = "outer"
        /\ \A r \in Requests \ {q} : UNCHANGED <<pc[r], tok[r], opt[r], born[r]>>
      BY <1>1 DEF Start, IInv, TypeOK, CallShape, env
  <2>2. \A r \in Requests : /\ StoreStatus(r)' = StoreStatus(r)
                            /\ r = q => StoreStatus(r) = "idle"
      BY <2>1 DEF StoreStatus, BeyondNonce
  <2>3. \A r \in Requests : AskedOf(r)' = AskedOf(r)
      BY <2>1, <2>2 DEF AskedOf
  <2> QED
      BY <2>1, <2>2, <2>3 DEF Store!vars, AskedOf
<1>2. CASE Tick \/ UNCHANGED vars
  <2>1. UNCHANGED <<restarts, seen, pc, tok, opt, born, error>>
      BY <1>2 DEF Tick, vars, env, args
  <2>2. \A r \in Requests : /\ StoreStatus(r)' = StoreStatus(r)
                            /\ AskedOf(r)' = AskedOf(r)
      BY <2>1 DEF StoreStatus, AskedOf
  <2> QED
      BY <2>1, <2>2 DEF Store!vars, AskedOf
<1>3. CASE Restart
    BY <1>3, RestartRefines DEF Store!Next
<1> QED
    BY <1>1, <1>2, <1>3, PipelineRefines DEF Next

(* The pipeline is a correct client of the atomic store                      *)
(* (validate.go:528-532).                                                    *)
THEOREM PipelineUsesAtomicStore == Spec => UsesAtomicStore
<1> QED
    BY InitRefines, NextRefines, Invariance, PTL
       DEF Spec, Store!Spec, UsesAtomicStore

-----------------------------------------------------------------------------
(* A call leads to its end.                                                  *)

(* The steps a call has still to take, at most. *)
StepsLeft(r) == CASE pc[r] = "outer" -> 15
                  [] pc[r] = "time" -> 14
                  [] pc[r] = "route" -> 13
                  [] pc[r] = "da" -> 12
                  [] pc[r] = "nonce" -> 11
                  [] pc[r] = "bind" -> 10
                  [] pc[r] = "consistency" -> 9
                  [] pc[r] = "pa" -> 8
                  [] pc[r] = "constraints" -> 7
                  [] pc[r] = "depth" -> 6
                  [] pc[r] = "capability" -> 5
                  [] pc[r] = "plugin" -> 4
                  [] pc[r] = "status" -> 3
                  [] pc[r] = "binding" -> 2
                  [] pc[r] = "decide" -> 1
                  [] OTHER -> 0

(* Each step of a call brings it nearer to its end, no other step sends it   *)
(* back, and what it returned stands, through restarts too: no profile or    *)
(* mode takes a call through more than fifteen steps (validate.go:81-247).   *)
StepsCountDown ==
    [][\A r \in Requests :
          /\ Pipeline(r) => StepsLeft(r)' < StepsLeft(r)
          /\ InFlight(r) => StepsLeft(r)' <= StepsLeft(r)
          /\ pc[r] = "done" => UNCHANGED <<pc[r], tok[r], opt[r], decision[r],
                                           error[r]>>]_vars

LEMMA PipelineCountsDown ==
    ASSUME IInv, NEW q \in Requests, Pipeline(q)
    PROVE  StepsLeft(q)' < StepsLeft(q)
<1> DEFINE From(label, next) == pc[q] = label /\ pc'[q] \in next \cup {"done"}
<1>1. DOMAIN pc = Requests
    BY DEF IInv, TypeOK
<1> USE DEF Goto, Fail, Check
<1>2. CASE VerifyOuter(q) \/ TimeChecks(q) \/ FullProfile(q) \/ Lightweight(q)
           \/ ValidateDA(q)
  <2>1. \/ From("outer", {"time"}) \/ From("time", {"route"})
        \/ From("route", {"da", "constraints"}) \/ From("da", {"nonce"})
      BY <1>1, <1>2 DEF VerifyOuter, TimeChecks, FullProfile, Lightweight,
                        ValidateDA
  <2> QED
      BY <2>1 DEF StepsLeft
<1>3. CASE SpendNonce(q) \/ RefuseNonce(q) \/ SkipNonce(q)
  <2>1. From("nonce", {"bind"})
      BY <1>1, <1>3 DEF SpendNonce, RefuseNonce, SkipNonce
  <2> QED
      BY <2>1 DEF StepsLeft
<1>4. CASE BindOuter(q) \/ Consistency(q) \/ PrincipalAuthorization(q)
           \/ ConstraintChecks(q) \/ DepthCheck(q)
  <2>1. \/ From("bind", {"consistency"}) \/ From("consistency", {"pa", "constraints"})
        \/ From("pa", {"constraints"}) \/ From("constraints", {"depth"})
        \/ From("depth", {"capability"})
      BY <1>1, <1>4 DEF BindOuter, Consistency, PrincipalAuthorization,
                        ConstraintChecks, DepthCheck
  <2> QED
      BY <2>1 DEF StepsLeft
<1>5. CASE MatchRequest(q) \/ NoRequest(q) \/ PluginAnswers(q)
           \/ NoStatusClaim(q) \/ StatusAnswers(q) \/ Binding(q)
  <2>1. \/ From("capability", {"plugin", "status"}) \/ From("plugin", {"status"})
        \/ From("status", {"binding"}) \/ From("binding", {"decide"})
      BY <1>1, <1>5 DEF MatchRequest, NoRequest, PluginAnswers, NoStatusClaim,
                        StatusAnswers, Binding
  <2> QED
      BY <2>1 DEF StepsLeft
<1>6. CASE Decide(q)
    BY <1>1, <1>6 DEF Decide, StepsLeft
<1> QED
    BY <1>2, <1>3, <1>4, <1>5, <1>6 DEF Pipeline

(* Every call of Validate counts down (validate.go:81-247). *)
THEOREM CallsComeToAnEnd == Spec => StepsCountDown
<1>1. ASSUME IInv, [Next]_vars
      PROVE  [\A r \in Requests :
                 /\ Pipeline(r) => StepsLeft(r)' < StepsLeft(r)
                 /\ InFlight(r) => StepsLeft(r)' <= StepsLeft(r)
                 /\ pc[r] = "done" => UNCHANGED <<pc[r], tok[r], opt[r],
                                                  decision[r], error[r]>>]_vars
  <2> SUFFICES ASSUME Next, NEW r \in Requests
               PROVE  /\ Pipeline(r) => StepsLeft(r)' < StepsLeft(r)
                      /\ InFlight(r) => StepsLeft(r)' <= StepsLeft(r)
                      /\ pc[r] = "done" => UNCHANGED <<pc[r], tok[r], opt[r],
                                                       decision[r], error[r]>>
      BY <1>1
  <2>1. StepsLeft(r) \in Nat /\ StepsLeft(r)' \in Nat
      BY DEF StepsLeft
  <2>2. ASSUME Pipeline(r) PROVE StepsLeft(r)' < StepsLeft(r)
      BY <1>1, <2>2, PipelineCountsDown
  <2>3. ASSUME NEW q \in Requests, Pipeline(q), q # r
        PROVE  UNCHANGED <<pc[r], tok[r], opt[r], decision[r], error[r]>>
      BY <1>1, <2>3, PipelineLocal DEF IInv, args
  <2>4. ASSUME NEW q \in Requests, Start(q), InFlight(r) \/ pc[r] = "done"
        PROVE  UNCHANGED <<pc[r], tok[r], opt[r], decision[r], error[r]>>
      BY <1>1, <2>4 DEF IInv, TypeOK, Start, InFlight
  <2>5. ASSUME Tick
        PROVE  UNCHANGED <<pc[r], tok[r], opt[r], decision[r], error[r]>>
      BY <2>5 DEF Tick, args
  <2>6. ASSUME Restart, pc[r] = "done"
        PROVE  UNCHANGED <<pc[r], tok[r], opt[r], decision[r], error[r]>>
      BY <2>6 DEF Restart
  <2>7. ASSUME Restart, pc[r] # "done" PROVE StepsLeft(r)' = 0
      BY <2>7 DEF Restart, StepsLeft
  <2>8. pc'[r] = pc[r] => StepsLeft(r)' = StepsLeft(r)
      BY DEF StepsLeft
  <2>9. Pipeline(r) => pc[r] # "done"
      BY <1>1, PipelineLocal DEF IInv
  <2>10. CASE \E q \in Requests : Start(q)
      BY <2>1, <2>2, <2>4, <2>8, <2>9, <2>10
  <2>11. CASE \E q \in Requests : Pipeline(q)
      BY <2>1, <2>2, <2>3, <2>8, <2>9, <2>11
  <2>12. CASE Tick
      BY <2>1, <2>2, <2>5, <2>8, <2>9, <2>12
  <2>13. CASE Restart
      BY <2>1, <2>2, <2>6, <2>7, <2>8, <2>9, <2>13
  <2> QED
      BY <2>10, <2>11, <2>12, <2>13 DEF Next
<1> QED
    BY <1>1, Invariance, PTL DEF Spec, StepsCountDown
=============================================================================
