---------------------------- MODULE Constraints ----------------------------
(* The built-in authorization constraints of aicjwt/constraints.go.  A       *)
(* constraint is a record [scheme, id, params]; params of a shape that the   *)
(* evaluator cannot decode is Malformed.  A request context is a record      *)
(* [now, ip, count]: the minute of the day (UTC), the source address (or     *)
(* NoIP) and the number of executions the caller counted.                    *)
EXTENDS Integers, Sequences

CONSTANTS Malformed,  \* params, a CIDR or an HH:MM that does not parse
          NoIP        \* no source address in the request context

ConstraintScheme == "varwof/constraint-v1"
MaxConcurrentMin == 1
MaxConcurrentMax == 1024
MinutesPerDay == 1440

BuiltinConstraintIDs == {"allowed-cidr", "max-concurrent", "time-window"}

(* params: a sequence of prefixes, each the set of addresses it contains or  *)
(* Malformed.  The loop stops at the first prefix that contains the address, *)
(* and fails at a malformed one it meets before.                             *)
AllowedCIDR(params, ctx) ==
    /\ params # Malformed
    /\ ctx.ip # NoIP
    /\ \E i \in DOMAIN params :
          /\ \A j \in 1..i : params[j] # Malformed
          /\ ctx.ip \in params[i]

(* params: the decoded max. *)
MaxConcurrent(params, ctx) ==
    /\ params # Malformed
    /\ params \in MaxConcurrentMin..MaxConcurrentMax
    /\ ctx.count < params

(* Mutant: every window is taken for an overnight one. *)
TimeWindowOvernight(params, ctx) ==
    /\ params # Malformed
    /\ params.start # Malformed
    /\ params.end # Malformed
    /\ params.start <= ctx.now \/ ctx.now <= params.end

(* params: [start, end], minutes of the day; start > end crosses midnight. *)
TimeWindow(params, ctx) ==
    /\ params # Malformed
    /\ params.start # Malformed
    /\ params.end # Malformed
    /\ IF params.start <= params.end
       THEN params.start <= ctx.now /\ ctx.now <= params.end
       ELSE params.start <= ctx.now \/ ctx.now <= params.end

(* The evaluator that BuiltinConstraintIDs maps the constraint to. *)
Eval(c, ctx) == \/ c.id = "allowed-cidr" /\ AllowedCIDR(c.params, ctx)
                \/ c.id = "max-concurrent" /\ MaxConcurrent(c.params, ctx)
                \/ c.id = "time-window" /\ TimeWindow(c.params, ctx)

(* One turn of the loop of EvaluateConstraints lets c pass: an unknown type  *)
(* passes with an audit note unless strict.                                  *)
Passes(c, ctx, strict) ==
    /\ c.scheme = ConstraintScheme
    /\ IF c.id \in BuiltinConstraintIDs THEN Eval(c, ctx) ELSE ~strict

(* EvaluateConstraints returns no error: every turn of the loop passes.      *)
EvaluateConstraints(cs, ctx, strict) ==
    \A i \in DOMAIN cs : Passes(cs[i], ctx, strict)
=============================================================================
