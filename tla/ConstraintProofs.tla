-------------------------- MODULE ConstraintProofs --------------------------
(* Proofs about EvaluateConstraints for lists of any length: type            *)
(* correctness, that the loop computes the conjunction of its constraints,   *)
(* and that a time window is an arc of the clock face.                       *)
EXTENDS ConstraintLoop, TLAPS

(* The entries before the index passed, and the result says where the loop   *)
(* stopped and why.                                                          *)
Progress ==
    /\ \A j \in 1..i - 1 : Passes(cs[j], ctx, strict)
    /\ result = "nil" => i = Len(cs) + 1
    /\ result \notin {"running", "nil"} =>
          /\ i <= Len(cs)
          /\ ~Passes(cs[i], ctx, strict)
    /\ result = "denied" => ~Eval(cs[i], ctx)

(* The inductive invariant. *)
IInv == TypeOK /\ Progress

LEMMA ListFacts ==
    ASSUME NEW list \in Lists
    PROVE  Len(list) \in Nat /\ DOMAIN list = 1..Len(list)
BY ListsAssumption

LEMMA InitIInv == Init => IInv
<1> SUFFICES ASSUME Init PROVE IInv
    OBVIOUS
<1>1. TypeOK
    BY ListFacts DEF Init, TypeOK, Results
<1>2. Progress
    BY DEF Init, Progress
<1> QED
    BY <1>1, <1>2 DEF IInv

(* Each turn of the loop preserves the invariant (constraints.go:124-139).   *)
LEMMA NextIInv == IInv /\ [Next]_vars => IInv'
<1> SUFFICES ASSUME IInv, [Next]_vars PROVE IInv'
    OBVIOUS
<1>1. /\ Len(cs) \in Nat /\ DOMAIN cs = 1..Len(cs)
      /\ i \in 1..Len(cs) + 1 /\ i \in Nat
      /\ cs \in Lists
    BY ListFacts DEF IInv, TypeOK
<1>2. CASE UNCHANGED vars
    BY <1>2 DEF vars, IInv, TypeOK, Progress
<1>3. CASE WrongScheme \/ RejectUnknown \/ EvalDenies
  <2>1. /\ UNCHANGED <<cs, ctx, strict, i, notes>>
        /\ result' \in {"scheme not allowed", "unknown type", "denied"}
        /\ i <= Len(cs) /\ ~Passes(cs[i], ctx, strict)
        /\ result' = "denied" => ~Eval(cs[i], ctx)
      BY <1>3 DEF WrongScheme, RejectUnknown, EvalDenies, AtConstraint, Fail,
                  Passes
  <2> QED
      BY <2>1 DEF IInv, TypeOK, Progress, Results
<1>4. CASE NoteUnknown \/ EvalAllows
  <2>1. /\ i' = i + 1 /\ i <= Len(cs) /\ result = "running"
        /\ UNCHANGED <<cs, ctx, strict, result>>
        /\ Passes(cs[i], ctx, strict)
      BY <1>4 DEF NoteUnknown, EvalAllows, AtConstraint, Continue, Passes
  <2>2. notes' \in Seq({cs[j].id : j \in DOMAIN cs})
    <3> DEFINE ids == {cs[j].id : j \in DOMAIN cs}
    <3>1. cs[i].id \in ids
        BY <1>1, <2>1
    <3>2. notes \in Seq(ids)
        BY DEF IInv, TypeOK
    <3>3. notes' = notes \/ notes' = Append(notes, cs[i].id)
        BY <1>4 DEF NoteUnknown, EvalAllows
    <3> HIDE DEF ids
    <3>4. notes' \in Seq(ids)
        BY <3>1, <3>2, <3>3
    <3> QED
        BY <3>4 DEF ids
  <2>3. TypeOK'
      BY <1>1, <2>1, <2>2 DEF IInv, TypeOK
  <2>4. Progress'
      BY <1>1, <2>1 DEF IInv, Progress
  <2> QED
      BY <2>3, <2>4 DEF IInv
<1>5. CASE Finish
    BY <1>1, <1>5 DEF Finish, IInv, TypeOK, Progress, Results
<1> QED
    BY <1>2, <1>3, <1>4, <1>5 DEF Next

(* The inductive invariant holds throughout: the loop keeps the conjunction  *)
(* of what it has read (constraints.go:124-140).                             *)
THEOREM Invariance == Spec => []IInv
<1> QED
    BY InitIInv, NextIInv, PTL DEF Spec

(* Type correctness of the loop; a note is the type of some constraint.      *)
THEOREM TypeCorrect == Spec => []TypeOK
<1>1. IInv => TypeOK
    BY DEF IInv
<1> QED
    BY <1>1, Invariance, PTL

(* The early returns and the skipping of unknown types compute exactly the   *)
(* conjunction of the constraints (constraints.go:124-140).                  *)
THEOREM LoopComputesConjunction == Spec => []LoopIsConjunction
<1>1. ASSUME IInv PROVE LoopIsConjunction
    BY <1>1, ListFacts
       DEF IInv, TypeOK, Progress, LoopIsConjunction, EvaluateConstraints
<1> QED
    BY <1>1, Invariance, PTL

(* The loop goes past an entry: with its note if the type is unknown, and    *)
(* without one if it is built in.                                            *)
LEMMA NotesGrow ==
    ASSUME IInv, SkippedIsNoted, NoteUnknown \/ EvalAllows
    PROVE  SkippedIsNoted'
<1> DEFINE Unknown(n) == {j \in 1..n - 1 : cs[j].id \notin BuiltinConstraintIDs}
           Noted(at, ns, n) ==
               /\ \A x, y \in DOMAIN at : x < y => at[x] < at[y]
               /\ \A x \in DOMAIN at : ns[x] = cs[at[x]].id
               /\ {at[x] : x \in DOMAIN at} = Unknown(n)
<1>1. /\ i \in Nat \ {0} /\ i' = i + 1 /\ UNCHANGED <<cs, strict>>
      /\ notes \in Seq({cs[j].id : j \in DOMAIN cs}) /\ Len(notes) \in Nat
    BY ListFacts DEF IInv, TypeOK, NoteUnknown, EvalAllows, Continue
<1>2. PICK at \in [1..Len(notes) -> 1..i - 1] : Noted(at, notes, i)
    BY DEF SkippedIsNoted
<1>3. CASE NoteUnknown
  <2> DEFINE n == Len(notes) + 1
             more == [x \in 1..n |-> IF x = n THEN i ELSE at[x]]
  <2>1. /\ cs[i].id \notin BuiltinConstraintIDs /\ ~strict
        /\ notes' = Append(notes, cs[i].id)
      BY <1>3 DEF NoteUnknown
  <2>2. /\ Len(notes') = n /\ notes'[n] = cs[i].id
        /\ \A x \in 1..Len(notes) : notes'[x] = notes[x]
      BY <1>1, <2>1
  <2>3. more \in [1..n -> 1..i]
      BY <1>1
  <2>4. \A x, y \in 1..n : x < y => more[x] < more[y]
    <3>1. ASSUME NEW x \in 1..n, NEW y \in 1..n, x < y
          PROVE  more[x] < more[y]
      <4>1. x \in 1..Len(notes) /\ more[x] = at[x] /\ at[x] \in 1..i - 1
          BY <1>1, <3>1
      <4>2. CASE y = n
          BY <1>1, <4>1, <4>2
      <4>3. CASE y # n
        <5>1. y \in 1..Len(notes) /\ more[y] = at[y]
            BY <1>1, <4>3
        <5>2. at[x] < at[y]
            BY <1>2, <3>1, <4>1, <5>1
        <5> QED
            BY <4>1, <5>1, <5>2
      <4> QED
          BY <4>2, <4>3
    <3> QED
        BY <3>1
  <2>5. \A x \in 1..n : notes'[x] = cs[more[x]].id
      BY <1>1, <1>2, <2>2
  <2>6. {more[x] : x \in 1..n} = {at[x] : x \in DOMAIN at} \cup {i}
    <3>1. /\ n \in 1..n /\ more[n] = i
          /\ \A x \in 1..n : x # n => x \in DOMAIN at /\ more[x] = at[x]
          /\ \A x \in DOMAIN at : x \in 1..n /\ x # n
        BY <1>1, <1>2
    <3> QED
        BY <3>1
  <2>7. Unknown(i + 1) = Unknown(i) \cup {i}
      BY <1>1, <2>1
  <2>8. Noted(more, notes', i')
      BY <1>1, <1>2, <2>3, <2>4, <2>5, <2>6, <2>7
  <2>9. more \in [1..Len(notes') -> 1..i' - 1]
      BY <1>1, <2>2, <2>3
  <2> HIDE DEF more
  <2> QED
      BY <1>1, <2>1, <2>8, <2>9 DEF SkippedIsNoted
<1>4. CASE EvalAllows
  <2>1. cs[i].id \in BuiltinConstraintIDs /\ notes' = notes
      BY <1>4 DEF EvalAllows
  <2>2. Unknown(i + 1) = Unknown(i)
      BY <1>1, <2>1
  <2>3. at \in [1..Len(notes') -> 1..i' - 1]
      BY <1>1, <1>2, <2>1
  <2>4. Noted(at, notes', i')
      BY <1>1, <1>2, <2>1, <2>2
  <2>5. notes' # <<>> => ~strict'
      BY <1>1, <2>1 DEF SkippedIsNoted
  <2> QED
      BY <1>1, <2>3, <2>4, <2>5 DEF SkippedIsNoted
<1> QED
    BY <1>3, <1>4

(* No unknown type is skipped without its note, in the lenient mode only     *)
(* (constraints.go:129-135).                                                 *)
THEOREM SkippedAreNoted == Spec => []SkippedIsNoted
<1>1. ASSUME Init PROVE SkippedIsNoted
  <2>1. /\ notes = <<>> /\ Len(notes) = 0 /\ i = 1
      BY <1>1 DEF Init
  <2>2. << >> \in [1..Len(notes) -> 1..i - 1] /\ DOMAIN << >> = {}
      BY <2>1
  <2>3. {j \in 1..i - 1 : cs[j].id \notin BuiltinConstraintIDs} = {}
      BY <2>1
  <2> QED
      BY <2>1, <2>2, <2>3 DEF SkippedIsNoted
<1>2. IInv /\ SkippedIsNoted /\ [Next]_vars => SkippedIsNoted'
  <2> SUFFICES ASSUME IInv, SkippedIsNoted, [Next]_vars PROVE SkippedIsNoted'
      OBVIOUS
  <2>1. CASE NoteUnknown \/ EvalAllows
      BY <2>1, NotesGrow
  <2>2. CASE UNCHANGED <<cs, strict, i, notes>>
      BY <2>2 DEF SkippedIsNoted
  <2> QED
      BY <2>1, <2>2 DEF Next, vars, WrongScheme, RejectUnknown, EvalDenies,
                        Finish, Fail
<1> QED
    BY <1>1, <1>2, Invariance, PTL DEF Spec

-----------------------------------------------------------------------------
(* The distance between two minutes, walking forward. *)
LEMMA DayModulo ==
    ASSUME NEW a \in Minutes, NEW b \in Minutes
    PROVE  (a - b) % MinutesPerDay = IF b <= a THEN a - b
                                     ELSE a - b + MinutesPerDay
BY DEF Minutes, MinutesPerDay

(* The two comparisons of evalTimeWindow test membership of an arc of the    *)
(* clock face, on both sides of midnight (constraints.go:105-113).           *)
LEMMA WindowIsArc ==
    ASSUME NEW start \in Minutes, NEW end \in Minutes, NEW minute \in Minutes
    PROVE  (minute - start) % MinutesPerDay <= (end - start) % MinutesPerDay
           <=> IF start <= end THEN start <= minute /\ minute <= end
               ELSE start <= minute \/ minute <= end
<1>1. (minute - start) % MinutesPerDay = IF start <= minute THEN minute - start
                                         ELSE minute - start + MinutesPerDay
    BY DayModulo
<1>2. (end - start) % MinutesPerDay = IF start <= end THEN end - start
                                      ELSE end - start + MinutesPerDay
    BY DayModulo
<1> QED
    BY <1>1, <1>2 DEF Minutes, MinutesPerDay

LEMMA TimeWindowIsArc ==
    ASSUME NEW p, NEW c, c.now \in Minutes,
           p # Malformed, p.start \in Minutes, p.end \in Minutes,
           p.start # Malformed, p.end # Malformed
    PROVE  TimeWindow(p, c) <=> OnArc(p, c.now)
BY WindowIsArc DEF TimeWindow, OnArc

(* A window of a list that passed is well-formed and has the minute on its   *)
(* arc.                                                                      *)
LEMMA PassedOnArc ==
    ASSUME IInv, result = "nil", NEW j \in DOMAIN cs, cs[j].id = "time-window"
    PROVE  WellFormedWindow(cs[j]) /\ OnArc(cs[j].params, ctx.now)
<1>1. TimeWindow(cs[j].params, ctx)
    BY ListFacts DEF IInv, TypeOK, Progress, Passes, Eval, BuiltinConstraintIDs
<1>2. /\ cs[j].params # Malformed
      /\ cs[j].params.start # Malformed /\ cs[j].params.end # Malformed
    BY <1>1 DEF TimeWindow
<1>3. /\ cs[j].params.start \in Minutes /\ cs[j].params.end \in Minutes
      /\ ctx.now \in Minutes
    BY <1>2, ListsAssumption, ContextsAssumption DEF IInv, TypeOK
<1>4. OnArc(cs[j].params, ctx.now)
    BY <1>1, <1>2, <1>3, TimeWindowIsArc
<1> QED
    BY <1>2, <1>4 DEF WellFormedWindow

(* A well-formed window that denied is one whose arc misses the minute. *)
LEMMA DeniedOffArc ==
    ASSUME IInv, result = "denied", WellFormedWindow(cs[i])
    PROVE  ~OnArc(cs[i].params, ctx.now)
<1>1. ~TimeWindow(cs[i].params, ctx)
    BY DEF IInv, Progress, Eval, WellFormedWindow
<1>2. i \in DOMAIN cs
    BY ListFacts DEF IInv, TypeOK, Progress
<1>3. /\ cs[i].params # Malformed
      /\ cs[i].params.start # Malformed /\ cs[i].params.end # Malformed
    BY DEF WellFormedWindow
<1>4. /\ cs[i].params.start \in Minutes /\ cs[i].params.end \in Minutes
      /\ ctx.now \in Minutes
    BY <1>2, <1>3, ListsAssumption, ContextsAssumption
        DEF IInv, TypeOK, WellFormedWindow
<1> QED
    BY <1>1, <1>3, <1>4, TimeWindowIsArc

(* Windows that do not end where they start pass the minutes on their arcs   *)
(* and deny those off them (constraints.go:105-113).                         *)
THEOREM WindowsDecideArcs == Spec => []WindowsAreArcs
<1>1. IInv => WindowsAreArcs
    BY PassedOnArc, DeniedOffArc DEF WindowsAreArcs
<1> QED
    BY <1>1, Invariance, PTL
=============================================================================
