---------------------------- MODULE Capabilities ----------------------------
(* Capability evaluation of aicjwt/capmatch.go over lists of capabilities    *)
(* [scheme, id, params].  params is NoParams (absent, or null in a grant) or *)
(* the JSON value as its leaves: a function from paths of member names to    *)
(* pairs <<kind, value>> of kind "num", "str", "bool", "null", "arr" (the    *)
(* set of its elements) or "empty" (an object without members).              *)
EXTENDS Integers, Sequences

CONSTANTS MatchPattern(_, _),  \* a "scheme:id" pattern matches a target
          NoParams             \* no params member

(* The "scheme:id" form that is matched. *)
CapPattern(c) == <<c.scheme, c.id>>

Covers(grant, c) == MatchPattern(CapPattern(grant), CapPattern(c))

(* MatchCapabilities ranks the matches, but every match has a score of at    *)
(* least 1 and nothing but "best > 0" is returned.                           *)
MatchCapabilities(allowed, req) ==
    \E i \in DOMAIN allowed : Covers(allowed[i], req)

(* paramsWithin at a leaf: a number bounds, an array is a superset, anything *)
(* else is repeated.                                                         *)
LeafWithin(grant, agent) ==
    /\ grant[1] = agent[1]
    /\ CASE grant[1] = "num" -> agent[2] <= grant[2]
         [] grant[1] = "arr" -> agent[2] \subseteq grant[2]
         [] OTHER -> agent[2] = grant[2]

(* A grant without params is unconstrained.  Otherwise the agent repeats its *)
(* members, no more and no fewer, at every depth.                            *)
ParamsWithinGrant(grant, agent) ==
    \/ grant = NoParams
    \/ /\ agent # NoParams
       /\ DOMAIN agent = DOMAIN grant
       /\ \A path \in DOMAIN agent : LeafWithin(grant[path], agent[path])

(* A grant that matches but whose params are exceeded is skipped, so another *)
(* grant may still cover the capability.                                     *)
CapabilitySubset(agent, grants) ==
    \E i \in DOMAIN grants :
        /\ Covers(grants[i], agent)
        /\ ParamsWithinGrant(grants[i].params, agent.params)
=============================================================================
