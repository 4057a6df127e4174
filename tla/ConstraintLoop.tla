--------------------------- MODULE ConstraintLoop ---------------------------
(* EvaluateConstraints (aicjwt/constraints.go:122-141) as it runs: a loop    *)
(* over the constraints that returns at the first failure and collects an    *)
(* audit note for each unknown type it skips.                                *)
EXTENDS Constraints

CONSTANTS Lists,     \* constraint lists of a token or a PA
          Contexts   \* request contexts

(* HH:MM parses to a minute of the day, or not at all. *)
Minutes == 0..MinutesPerDay - 1

ASSUME ListsAssumption ==
    \A list \in Lists :
        /\ list \in Seq({list[j] : j \in DOMAIN list})
        /\ \A j \in DOMAIN list :
              list[j].id = "time-window" /\ list[j].params # Malformed =>
                  /\ list[j].params.start \in Minutes \cup {Malformed}
                  /\ list[j].params.end \in Minutes \cup {Malformed}
ASSUME ContextsAssumption == \A c \in Contexts : c.now \in Minutes

VARIABLES cs,       \* the argument cs
          ctx,      \* the argument ctx
          strict,   \* the argument strict
          i,        \* the loop index
          notes,    \* the notes collected so far (constraint types)
          result    \* "running", "nil" or the error returned

vars == <<cs, ctx, strict, i, notes, result>>

Results == {"running", "nil", "scheme not allowed", "unknown type", "denied"}

TypeOK == /\ cs \in Lists
          /\ ctx \in Contexts
          /\ strict \in BOOLEAN
          /\ i \in 1..Len(cs) + 1
          /\ notes \in Seq({cs[j].id : j \in DOMAIN cs})
          /\ result \in Results

Init == /\ cs \in Lists
        /\ ctx \in Contexts
        /\ strict \in BOOLEAN
        /\ i = 1
        /\ notes = <<>>
        /\ result = "running"

AtConstraint == result = "running" /\ i <= Len(cs)

Fail(error) == result' = error /\ UNCHANGED <<cs, ctx, strict, i, notes>>

(* Mutant: the index skips an entry. *)
ContinueByTwo == i' = i + 2 /\ UNCHANGED <<cs, ctx, strict, result>>

Continue == i' = i + 1 /\ UNCHANGED <<cs, ctx, strict, result>>

WrongScheme == /\ AtConstraint
               /\ cs[i].scheme # ConstraintScheme
               /\ Fail("scheme not allowed")

RejectUnknown == /\ AtConstraint
                 /\ cs[i].scheme = ConstraintScheme
                 /\ cs[i].id \notin BuiltinConstraintIDs
                 /\ strict
                 /\ Fail("unknown type")

(* Mutant: break instead of continue at an unknown type. *)
NoteUnknownBreaks == /\ AtConstraint
                     /\ cs[i].scheme = ConstraintScheme
                     /\ cs[i].id \notin BuiltinConstraintIDs
                     /\ ~strict
                     /\ notes' = Append(notes, cs[i].id)
                     /\ result' = "nil"
                     /\ UNCHANGED <<cs, ctx, strict, i>>

(* Mutant: an unknown type is skipped without a note. *)
NoteUnknownSilently == /\ AtConstraint
                       /\ cs[i].scheme = ConstraintScheme
                       /\ cs[i].id \notin BuiltinConstraintIDs
                       /\ ~strict
                       /\ notes' = notes
                       /\ Continue

NoteUnknown == /\ AtConstraint
               /\ cs[i].scheme = ConstraintScheme
               /\ cs[i].id \notin BuiltinConstraintIDs
               /\ ~strict
               /\ notes' = Append(notes, cs[i].id)
               /\ Continue

EvalDenies == /\ AtConstraint
              /\ cs[i].scheme = ConstraintScheme
              /\ cs[i].id \in BuiltinConstraintIDs
              /\ ~Eval(cs[i], ctx)
              /\ Fail("denied")

EvalAllows == /\ AtConstraint
              /\ cs[i].scheme = ConstraintScheme
              /\ cs[i].id \in BuiltinConstraintIDs
              /\ Eval(cs[i], ctx)
              /\ notes' = notes
              /\ Continue

Finish == /\ result = "running"
          /\ i > Len(cs)
          /\ result' = "nil"
          /\ UNCHANGED <<cs, ctx, strict, i, notes>>

Next == \/ WrongScheme \/ RejectUnknown \/ NoteUnknown
        \/ EvalDenies \/ EvalAllows \/ Finish

Spec == Init /\ [][Next]_vars

-----------------------------------------------------------------------------
(* A nil error means that every constraint holds, the ones after an unknown  *)
(* type included, and an error that some constraint does not                 *)
(* (constraints.go:124-140).                                                 *)
LoopIsConjunction ==
    /\ result = "nil" => EvaluateConstraints(cs, ctx, strict)
    /\ result \notin {"running", "nil"} =>
          ~EvaluateConstraints(cs, ctx, strict)

(* Nothing is skipped silently: every unknown type the loop went past left   *)
(* its audit note, in order, and only in the lenient mode                    *)
(* (constraints.go:129-135).  at[x] is the index of the entry of note x.     *)
SkippedIsNoted ==
    /\ \E at \in [1..Len(notes) -> 1..i - 1] :
          /\ \A x, y \in DOMAIN at : x < y => at[x] < at[y]
          /\ \A x \in DOMAIN at : notes[x] = cs[at[x]].id
          /\ {at[x] : x \in DOMAIN at}
                = {j \in 1..i - 1 : cs[j].id \notin BuiltinConstraintIDs}
    /\ notes # <<>> => ~strict

(* A time window read as an arc of the clock face: the minutes met walking   *)
(* from start up to end, past midnight if need be (constraints.go:105-113).  *)
OnArc(params, minute) == (minute - params.start) % MinutesPerDay
                            <= (params.end - params.start) % MinutesPerDay

WellFormedWindow(c) == /\ c.id = "time-window"
                       /\ c.params # Malformed
                       /\ Malformed \notin {c.params.start, c.params.end}

(* A list that passed has the minute on the arc of each of its windows, and  *)
(* a well-formed window denies only a minute that is off its arc.  Windows   *)
(* that end where they start are FullDayWindow's.                            *)
WindowsAreArcs ==
    /\ result = "nil" =>
          \A j \in DOMAIN cs :
              cs[j].id = "time-window" =>
                  /\ WellFormedWindow(cs[j])
                  /\ cs[j].params.start # cs[j].params.end =>
                        OnArc(cs[j].params, ctx.now)
    /\ (/\ result = "denied"
        /\ WellFormedWindow(cs[i])
        /\ cs[i].params.start # cs[i].params.end)
       => ~OnArc(cs[i].params, ctx.now)

(* docs/draft-wei-aic-jwt-02.md:984-986: "`start == end` denotes a full      *)
(* 24-hour window", so such a window denies no request.  The code violates   *)
(* it: start <= cur <= end leaves one minute of the day                      *)
(* (constraints.go:107).                                                     *)
FullDayWindow ==
    result = "denied" /\ WellFormedWindow(cs[i]) =>
        cs[i].params.start # cs[i].params.end
=============================================================================
