# Verification of varwof/types

TLA+ models of the AIC (agent identity credential) library: its JWT profile
(`aicjwt/`) and its X.509 profile (the top-level package `pki`). TLC checks
every module on small instances; TLAPS proves the safety properties of the
modelled components for all values of their constants.

## 1. The system

A *principal* (a user) signs a *delegation authorization* (DA) for an *agent*.
An *authorization server* embeds the DA in an *outer* access token. A gateway
calls `Validate` on each request; in `representative` mode it also supplies the
principal's own authorization (PA). Everything in the library is a synchronous
function call. What the goroutines of a gateway share is the nonce store and, in
the X.509 profile, the plugin registry.

| component | state | operations | hard behaviour | correct when |
|---|---|---|---|---|
| nonce store (`aicjwt/nonce.go`) | a map, a mutex | `CheckAndAdd` | concurrent callers; lost at a restart | a nonce is accepted once, a replay is refused for cause, no call blocks the next |
| pipeline (`aicjwt/validate.go`) | per call: token, options, sampled time, step | `Validate`, `ValidateDA` | eleven ordered steps with an effect (the nonce) in the middle; two profiles, two modes, three DA versions | a permit is what the principal delegated, to the holder of the agent key, within its lifetime; only authentic DAs spend nonces |
| constraints (`aicjwt/constraints.go`) | loop index, audit notes | `EvaluateConstraints`, three evaluators | early returns, skipped types, windows across midnight | a nil error is the conjunction of the constraints, nothing is skipped silently, windows are arcs of the clock |
| capability matching (`aicjwt/capmatch.go`) | per call: loop index, best score, the recursion's stack and memo | `MatchCapabilities`, `CapabilitySubset`, `ParamsWithinGrant`, glob matching | wildcards on both sides; backtracking in a token and between tokens; a memo keyed by lengths | the answer is what the patterns denote, whatever the order of attempts, grants and scores |
| JWS, keys, hashes (`jws.go`, `keyhash.go`, `certjwk.go`, `jsonutil.go`, `claims.go`) | none | decode, verify, key lookup | three key sources with a precedence | a key is used only for the principal it is bound to |
| rule matching (`match_priority.go`) | loop index, best rule so far | `MatchCapabilityPriority`, `MatchCapabilityRules` | overlapping pattern classes, ties | the decision is that of the set of rules, and deny overrides allow |
| plugin registry (`plugin.go`) | a map, an RWMutex | `Register`, `Find`, `Execute`, `Reset`, `Len`, `Keys` | readers and writers; plugins that call back | lookups and changes are atomic, a plugin is never replaced, no call blocks for ever |
| X.509 AIC (`aic.go`, `oid.go`, `hash.go`) | per session: extension values; in the permission loop two indices and a map | make, parse and validate the extension, permission checks | globs with `**`; identifiers that join two names with `:`; the same tables in three places | the permissions are exactly the covered capabilities, what the library makes it accepts |
| permissions, principals, supervision (`user_permission.go`, `principal.go`, `supervision.go`) | none | parse and validate a PA, write and read a principal as text, field limits | a `:` inside a name; the text drops the hash algorithm | a principal is never read back as another |
| `cmd/aic` | none | file input and output | none | not modelled |

Interactions: `Validate` calls `NonceStore.CheckAndAdd` once per full-profile
token, `EvaluateConstraints` for the token and for the PA, `CapabilitySubset`
for the PA grants, `MatchCapabilities` for the request, then a plugin and a
status checker that the deployment supplies. `PluginRegistry.Execute` calls a
plugin, which may call the registry. In the X.509 profile a consumer calls
`ParseAIC` and `ValidateAIC`, `ParseUserPermissionExtension` and
`ValidatePrincipalAuthorization`, then `IntersectPermissions` with both results,
and passes the text of `Principal` on to others, who read it with
`ParsePrincipalUid`.

## 2. The modules

    AtomicNonceStore <--implements-- NonceStore         (NonceStoreProofs)
           ^
           +---------implements----- Validation         (ValidationProofs)
                                       EXTENDS Capabilities, Constraints
                                     ConstraintLoop     (ConstraintProofs)
                                       EXTENDS Constraints
                                     CapabilityRules    (CapabilityRulesProofs)
                                       EXTENDS MatchPriority
                                     CapabilityMatch    (CapabilityMatchProofs)
                                       EXTENDS TokenGlob, INSTANCE Capabilities
                                     AICSession         (AICSessionProofs)
                                       EXTENDS AIC EXTENDS PermissionGlob
    AtomicRegistry <--implements---- PluginRegistry     (PluginRegistryProofs)

    SequenceLemmas: what the proofs about patterns and texts share

Each `MC*` module gives one of them finite constants. Definitions keep the names
of the source (`CheckAndAdd`, `ResolvePrincipalKey`, `CheckPA`, ...);
`PROJECT.json` lists the lines behind each. Definitions whose comment starts
with "Mutant:" are the broken variants that show each property can fail; no
specification uses them.

**NonceStore** (`nonce.go`). `mu` is the mutex, `seen` the key set of the map,
`pc` the place of each caller in `CheckAndAdd`: `Lock`, the lookup
(`CheckSeen`, `CheckUnseen`), `Add`, the deferred `Unlock`, `Return`. `Restart`
empties the store and drops the calls, because the map is never persisted.
`grants` is a history variable that counts nil errors.

**AtomicNonceStore** is the contract in the `NonceStore` interface
(`validate.go:37-41`): look up and record in one step. `NonceStore` implements
it, with a refinement mapping that reads a caller's abstract status off its
place and answer. `Validation` uses it: the property `UsesAtomicStore` maps
every call of the pipeline to a client of the same atomic store, which
justifies that `SpendNonce` is one action there.

**Validation** (`validate.go`). A call is a token and options (`tok`, `opt`),
the time sampled at entry (`now`), its step (`pc`) and its outcome (`decision`,
`error`). Each numbered step of `Validate` is an action whose predicate is the
conjunction of the checks of that step, in the order of the code between steps;
`ValidateDA`, the nonce store and the rest of step 4 are separate, since the
effect on the store lies between them. `Tick` lets time pass between any two
steps, `Restart` kills the process. `seen` is shared by the calls.
Abstractions: a token is a record of claims; decoding, duplicate-member checks,
size limits and the claims that no later step reads are one `form` member that
is well formed or not. Signature verification is equality of signer and key. A
key hash is the pair of algorithm and key (hashes do not collide and two
algorithms never agree). Names joined by ':' are tuples. The clock counts
ticks, several to a second, because staleness is compared below the second and
expiry in whole seconds. Integers have a width: claims lie in `-Half..Half-1`,
and the differences and sums of claims that the code computes on `int64` go
through `Wrap`. `EpochOffset` is the distance from year 1 to 1970, by which
`time.Unix` shifts: a `ts` that it carries past the end wraps there, and
`DATimesOK` asks that it does not. `load` names the workload that a behaviour
runs: a bound, with its own arguments, last tick and number of restarts, so that
one run explores both a table of single calls and calls that share a store.

**Constraints** holds the three evaluators and the conjunction that the pipeline
uses; **ConstraintLoop** is the loop itself, with its early returns and notes. A
CIDR prefix is the set of addresses in it, a time a minute of the day.

**Capabilities** holds `MatchCapabilities`, `ParamsWithinGrant` and
`CapabilitySubset` over an abstract pattern relation, the form in which the
pipeline uses them. Params are the leaves of the JSON value by their paths, so
"no member more, none missing, at every depth" is equality of two domains.

**TokenGlob** and **CapabilityMatch** (`capmatch.go`): how that relation is
computed. A `scheme:id` text is the sequence of its tokens, a token the sequence
of its items (a character, `*`, an alternation, a class); `tokenize` yields this
form for every string. `MatchToken` is `matchTokenAt` as a recursive function
over the items of the pattern, `MatchItem` what it does with one of them.
`CapabilityMatch` is a state machine: `stack` is the call stack of
`matchTokensMemo`, `memo` its map, `CallFirst`, `Attempt`, `Succeed`, `GiveUp`,
`PatternUsedUp` and `Remembered` are its calls and returns, `Tally` is the
caller's loop with its score. Next to it stands what a pattern denotes, without
any order of attempts: the target can be cut into parts, one for each token
(`Means`), and a part into pieces, one for each item (`TokenMeans`). `DraftForm`
is the form that the draft allows a capability: no wildcard in the scheme, and
not `scheme:*`.

**MatchPriority** and **CapabilityRules** (`match_priority.go`): the class of a
pattern for an id, segment by segment, and the rule loop (`TakeHigher`,
`TakeDeny`, `Skip`). The glob inside a segment (`filepath.Match`) is the
constant relation `GlobMatch`. `Denotes` is what a pattern means by the comments
of the code, where a `**` takes one or more segments; `HasForm` is the form of
pattern that each of the five levels names.

**PluginRegistry** (`plugin.go`): `writer` and `readers` are the RWMutex; a
writer first announces itself, which keeps new readers out, and then waits for
the readers inside (`Announce`, `Drained`). `Register` looks up and writes in
separate steps. `Execute` is a lookup whose result is run after the read lock
is released (`RunPlugin`); a goroutine inside a plugin may call everything but
`Execute` again, which bounds the depth of the calls. A nil plugin and an empty
scheme are refused before the lock and change nothing, so they are left out;
`Len` is the size of what `Keys` returns.

**AtomicRegistry** is the promise: each operation takes effect at one point
between call and return. To the mapping, the lookup of `Execute` is a `Find`
that has returned when the plugin starts.

**PermissionGlob** (`aic.go:380-428`): `MatchCapability` and `matchDoubleStar`
on sequences of characters, with the `strings` functions they call and
`path.Match` without classes and escapes. `DoubleStarFits` is what
`prefix**suffix` denotes.

**AIC** (`aic.go`, `principal.go`, `user_permission.go`, `hash.go`): the values
and pure functions of the X.509 profile. Names are character sequences, because
`:` and `/` in them matter; other texts are their lengths; params are a size,
a JSON kind and the member `max`. A key hash is one of a set with lengths.
`Limits` scales the large bounds (names, list lengths) down; the others are the
code's numbers.

**AICSession** composes them in the order of a consumer: `Issue` makes the
identity and the binding (or the certificate comes from elsewhere), then
`ParseAIC`, `CheckAIC`, `Name`, `ParsePA`, and the permission loop pair by pair
(`Take`, `Skip`, `NextCapability`, `Finish`). `order`, `cert`, `aic`, `pa` are
the values that pass between the calls, `i`, `j`, `seen`, `result` the variables
of the loop. The library does not prescribe this order; the calls share nothing
but these values, so any other order in which each has its arguments gives the
same results. `Requests` are the permissions that a consumer asks
`CheckPermission` for, to compare its answers with `result`.

## 3. What the runs check

| run | bounds | what it shows |
|---|---|---|
| `nonce_store` | 3 callers, 2 nonces, 1 restart | mutual exclusion (`MutexInv`), one acceptance per nonce and incarnation (`AcceptedOnce`), what a lookup saw still holds at the insertion (`LookupFresh`), a replay is reported only for an accepted nonce (`RefusalJustified`), refinement (`ImplementsAtomic`), no way out keeps the mutex (`CallsEnd`) |
| `constraint_loop` | lists of up to 2 constraints, all types at their boundaries | `LoopIsConjunction`, `SkippedIsNoted`, `WindowsAreArcs` (windows that do not end where they start) |
| `validation` | two loads. One call: every single deviation and every delegation; for DAs with an agent key, in either mode, also every pair of an outer and a DA deviation, and every delegation under every option; clock 0..6, `int64` as -16..15. Shared store: 2 calls, 2 nonces, 1 restart, clock 0..1 | `DelegationHonoured`, `RepresentationAuthorized`, `AgentKeyChain`, `LifetimeBounded`; `OnePermitPerNonce`, `OnlyAuthenticSpent`, `ReplayExplained`, `UsesAtomicStore` |
| `capability_rules` | ids and patterns of up to 3 segments; every pattern alone, and lists of 2 or 3 rules that tie or outrank each other | `DecisionOfSet`, `Monotone`, a match is what the patterns denote (`MatchIsMeaning`), the class it ends in is the most general form of its pattern (`RankIsForm`) |
| `plugin_registry` | 2 goroutines, 2 plugins of one scheme, a scheme without plugin | `LockInv`, `CheckFresh`, `NeverReplaced`, `ImplementsAtomic`, `CallsEnd` |
| `cap_match` | schemes of one token, ids of up to 2 parts (3 parts where several globs meet), 9 tokens with alternations and classes, lists of up to 2 capabilities | `MemoSound`, `SolvedOnce`, `TokensMean`, for lists of the draft's form `AnswerIsMeaning` |
| `aic_session` | every algorithm, version and key present or not; every field at and next to its bounds; 43 identifiers against 39 patterns; lists of up to 2 capabilities and 2 grants; requests of both literals and patterns | `IntersectionExact` (the permission loop, and `CheckPermission` beside it), `DoubleStarMeans`, `IdentitySurvives` |

One run of each module also checks its type invariant. Five further runs, one
property each, end in a counterexample (section 6).

Why the bounds are enough. In the stores two callers make every race; the third
caller adds one that waits while two compete. Two nonces distinguish "this
nonce" from "a nonce"; one restart separates two incarnations. A pipeline check
reads one or two claims, so a pair of deviations (one in the outer token, one
in the DA) covers the case that one check hides another; single calls suffice
there because calls meet only in the store, which the shared load covers. It
needs no more than one tick, as the store does not look at the time. The clock
of single calls runs from before `ts` to after `exp`, two ticks to the second, so that
both sides of the sub-second boundary are met. The minutes are those at and
next to the ends of the windows. Patterns of three segments have room for a
prefix, a `**` and a suffix, and for two `**` around a literal. Two plugins
compete for one scheme; the other scheme gives lookups that find nothing.
Sixteen is more than twice every other time of the pipeline, so what wraps is
what wraps at 64 bits. Two `**` in a pattern make the matcher come to one pair
of lengths twice, which is what the memo is for; two capabilities with one memo
each show whether it is reset. Ids of three characters, with a few longer ones,
have room for a prefix and a suffix that overlap, touch, or leave an empty or a
`..` part between them. Two capabilities and two grants make every overlap.

`CHECK_DEADLOCK FALSE` is set where the modelled functions return and the
system is then done (the loops, the matcher, the session and the pipeline). The two stores are checked
for deadlock.

Fairness. A goroutine that can take a step eventually does (the Go scheduler):
weak fairness of each call's own steps. `sync.Mutex` hands the lock to a waiter
that has starved for a millisecond, and `sync.RWMutex` admits the waiting
writer before later readers and the waiting readers when a writer leaves: strong
fairness of `Lock`, `Announce` and `RLock`. Callers need not call again, a
plugin in the registry need not return, time need not pass. The pipeline
is checked for safety only and has no fairness: it is straight-line code that
waits for the mutex of the store, whose release `nonce_store` checks, and for
the plugin and the status checker of the deployment.

## 4. What is proved

All proofs hold for any number of callers, calls, nonces, plugins, rules and
constraints, and for lists, patterns and texts of any length, from the
assumptions named in the modules: `None`-like values are not members of the sets
they stand beside, the bounds are natural numbers, arguments have the members
the code's types give them (`CallsAssumption`, `ListsAssumption`,
`ContextsAssumption`, `RulesAssumption`, `SchemeAssumption`,
`QuestionsAssumption`, `SessionAssumption`), a hash of a name is a text without
`:` of a positive length, an absent one has length 0 (`HashAssumption`), and the
hash functions of the standard library give hashes of their own lengths
(`DigestAssumption`). Every safety invariant and every action property that a
passing run checks is a theorem, both refinements and the pipeline's use of the
atomic store included.

- **NonceStoreProofs**. The invariant adds `CallShape` (a caller's place
  determines whether it has an argument and an answer) to the properties. Mutual
  exclusion makes the lookup fresh, a fresh lookup makes the acceptance unique.
  Every safety property of the run is a theorem, the refinement included.
  `NeverAllWaiting` is freedom from deadlock (whoever holds the mutex can go on),
  `CallsComeToAnEnd` that a call has at most five steps of its own and no other
  caller adds one.
- **ValidationProofs**. The invariant says of each call that it has passed the
  checks of all steps before its place (`PassedChecks`), that `seen` is exactly
  what the calls of this incarnation have spent (`SeenIsSpent`, `SpentOnce`),
  and that a refused nonce was seen (`RefusedWasSeen`). Each property of
  `validation` follows from the facts of a permitted call;
  the per-step lemmas split the pipeline into what is local to a call and what
  touches the store. `PermitsPassEveryCheck` states the whole list: nothing is
  permitted past a check. `CallsComeToAnEnd` counts the steps of a call down from
  fifteen. `LifetimesBounded` is, like the property, about tokens
  issued after 1970 (`iat >= 0`). Two theorems mark where the disagreements of
  section 6 begin:
  `DelegatedLifetimesBounded` (an `iat` that is not negative is enough for the
  draft's bound on the lifetime) and `NarrowRequestsWithinGrants` (a request is
  within the grants unless the agent's capability is a pattern that allows more
  than what the grant that covers it allows).
- **ConstraintProofs**. The loop computes the conjunction, and the windows
  that do not end where they start decide arcs for all 1440 minutes
  (`WindowsDecideArcs`), by arithmetic.
  `SkippedAreNoted` carries the positions of the notes as the witness: each note
  is of one unknown constraint, in the order of the list, and none is without.
- **CapabilityRulesProofs**. `DecisionOfSet` is inductive with the types.
  `OrderIrrelevant` follows: two lists of the same rules have one decision.
  `Monotone` is an action property from the same invariant. `MatchesAreMeanings`
  goes through the branches of the code: for a pattern with at most one `**` and
  an id that leaves it a segment, one of them accepts the id exactly when the id
  can be cut to fit the segments. `RanksAreForms` follows the order of the
  branches: a match of one class has not the form of a class below it, for the
  branch of that class would have taken it.
- **PluginRegistryProofs**. The invariant adds `CallShape` and `FoundIsPlugin`.
  The lock gives `CheckFresh`; `CheckFresh` makes a write an `Add` of the atomic
  registry, and gives `NeverReplaced`. The refinement is proved action by
  action. `NeverAllWaiting` is more than freedom from deadlock: somebody can go on
  without a plugin returning, so no plugin blocks the registry.
  `OperationsComeToAnEnd` counts the steps of an operation down from six.
- **CapabilityMatchProofs**. `AnswersAreMeanings` is the end to end theorem, for
  capabilities of the draft's form; `AnswerOfLoop`, from which it follows, holds
  without that condition. The
  invariant describes the stack: each call is one token further than the one below it and was reached by one of its attempts (`Trail`); the
  attempts a call has finished all failed (`Failures`); a return that says yes is
  right about the call that returned (`Success`); the memo is right
  (`MemoSound`) and holds no call in progress (`SolvedOnce`). Two lemmas tie an
  attempt to the denotation: the pattern from `i` means the target from `j` if
  and only if some split does for the rest. `Decided` and `BestIsFound` carry
  this through the callers' loops, where every score is positive.
  `TokenMatchIsMeaning` opens the single token: the recursion over its items
  says yes exactly when the token can be cut into pieces, whatever mix of `*`,
  alternations and classes. `WorkWithinLengths` bounds the stack and the memo by
  the lengths of the texts (the bound that the comment at `capmatch.go:72`
  claims), `MatcherEnds` gives the lexicographic measure that every step lowers,
  so both functions end. `LiteralsAreExact` and `LiteralsDoNotWiden` say of
  capabilities without wildcards that they cover their own text only, which
  meets the condition of `NarrowRequestsWithinGrants`.
- **AICSessionProofs**. The loop invariant says that `result` has no
  repetitions, has the elements of `seen`, and that these are the identifiers of
  the capabilities before `i`, and of `i` itself as far as `j`, that are covered.
  `PermissionsAreExact` follows at the end of the loop, for any globs. Its part
  on `CheckPermission`, which swaps pattern and text, rests on `LiteralMatch`: as
  a pattern, a text without wildcards matches itself and nothing else.
  `DoubleStarIsMeaning` splits the text at the ends of prefix and suffix and
  shows that the trims, overlaps and empty parts included, decide what the
  pattern denotes. `IdentitiesSurvive` has an invariant of its own (`IdInv`): the
  AIC is the one in the certificate, and the name is what `ParsePrincipalUid`
  makes of its text. Its core is that the first two `:` of a text written from
  parts without `:` are the two that were written.
- **SequenceLemmas**. Induction over texts without the library's induction
  theorems, which take an operator and are out of reach: a least counterexample
  exists (`SmallestExists`), hence induction upwards and downwards on an interval
  in terms of sets (`Upward`, `Downward`), and the recursion of cuts (`Cuts`): a
  text can be cut from `i` on exactly when a first part fits and the rest can be
  cut.

Only model-checked: the two liveness properties, `CallsEnd` in `nonce_store` and
in `plugin_registry`. They rest on fairness, hence on
`ENABLED`, which the prover does not treat. What they need besides fairness is
proved: no call is sent back or has more than a fixed number of steps left, and
in the two stores somebody can always go on (`CanStep` spells out the guards of
the actions).

## 5. Hazards

`PROJECT.json` lists each hazard at its line with the properties that cover it.
Six have none. The growth of the nonce map (`nonce.go:25`) has no bound in the
code to check. The count of `max-concurrent` (`constraints.go:76`) is taken and
released by the caller, outside this repository. The spellings of the constraint
scheme (`aic.go:466`) matter only to a consumer that reads a capability as a
constraint, which nothing here does. A nonce that is spent in step 4 stays spent when a later
step rejects the token (`validate.go:529`); nothing bounds this, except that the
DA must be authentic (`OnlyAuthenticSpent`). The time is sampled at entry
(`validate.go:82`): the properties speak of the sampled time, the code does not
bound that of the decision. A plugin that `Execute` has found runs even if a
`Reset` comes in between (`plugin.go:142`); neither the code nor the docs promise
otherwise.

## 6. Disagreements between the code and what is written about it

| run | what is written | what the code does |
|---|---|---|
| `request_within_grants` | effective capabilities are a subset of the grants (draft) | an agent's `**` is matched as a literal segment by a grant's `*`, and then allows more |
| `legitimate_reuse` | a cache must not reject legitimate reuse (draft) | a second presentation is refused |
| `one_or_more_parts` | `**` matches one or more parts (comments in `match_priority.go`) | `a:**` also matches `a`, and what stands between two `**` is not looked at |
| `full_day_window` | `start == end` is the full day (draft) | it is one minute |
| `lifetime_wraps` | `exp - iat` must not exceed the requested lifetime (draft) | for an `iat` near the least integer the difference wraps below zero and passes; `exp` itself stays bounded by the DA |

More were read off the code and have no run:

- The draft rejects unknown constraint types; `EvaluateConstraints` does so only
  with `ConstraintStrict` (`SkippedIsNoted` has the rest).
- The comment at `validate.go:547` says that `cnf` has already been compared with
  the presenter's key; that happens after step 10, and `AgentKeyChain` shows that
  both comparisons hold before a permit.
- In `match_priority.go` `*:q*` outranks `*:query`, although higher priorities
  are called more specific.
- The draft forbids wildcards in the scheme and the id `*`
  (`draft-wei-aic-jwt-02.md:841-848, 873-874, 886-888`). `capmatch.go` has no such
  check and matches the scheme as any other token; `aicjwt/conformance_test.go:29`
  even tests `http:*`. `AnswerIsMeaning` speaks of the other capabilities only.
- The comment at `aic.go:343-345` has a grant `SELECT:*` cover
  `SELECT:/api/tables`; the `*` of `path.Match` takes no `/`, so it does not.
  `IntersectionExact` leaves such pairs open (`Contested`). In
  the other direction `ca/**` also covers `cab`, because the prefix may end
  inside a part.
- The comment at `user_permission.go:46` says at most 8 constraints; the bound is
  `MaxAuthorizationConstraints`, 32.
- The comments at `aic.go:479`, `aic.go:551-552` and `principal.go:76` say that
  SM3 is built in. `hash.go` knows the six SHA-2 and SHA-3 algorithms only, so an
  identity with an SM3 hash is neither made nor accepted.
- `ParsePrincipalUid` refuses a `:` in realm and identifier after it has split at
  the first two, so that check never fires; it reads every key hash as SHA-256
  (`IdentitySurvives` states both effects).

## 7. Not modelled

- ASN.1, base64, JSON decoding and elliptic-curve code: the standard library's,
  used through their results.
- `jws.go`, `jsonutil.go` and most of `claims.go`: decoding and member checks of
  one token, which either yields the record the pipeline starts from or fails
  before any state changes. The pipeline has them as the claim `form`.
- `supervision.go`: independent checks of the fields of one record.
- SPIFFE helpers, `SigAlgoToOID`, `HasProtocol`, the splitting in
  `IntersectPermissionsStrAny`, classes and escapes of `path.Match`, and the
  decoders of the retired v1.4 permission types: text functions without state
  that no other modelled part calls, or library behaviour.
- The fallback of `paramsWithin` to floating point for numbers beyond 64 bits.
- The caller's slots for `max-concurrent`: not in this repository.
- `cmd/aic`: reads files and prints.
- In the pipeline: a time that the caller gives instead of the sampled one
  (`validate.go:73-77`), the size limits of PA params (`validate.go:652-661`), and
  the difference between no list of constraints and an empty one.
- In the tokens: the score counts a wildcard character inside the body of an
  alternation or class (`capmatch.go:198-211`), and a target character `*`, `{` or
  `[` can lie in a range of a class (`capmatch.go:145-153`); items have neither.
- The field sizes of an AIC other than those of identities, capabilities and
  grants have a part in `ValidateAIC` only: they decide whether a session goes on.

What could follow: the claim forms of a token as the order of their checks.
