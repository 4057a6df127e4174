\* The memoised matcher and the loops around it, against what patterns mean.
CONSTANTS
    NoParams = NoParams
    Questions <- MCQuestions
SPECIFICATION Spec
INVARIANTS TypeOK MemoSound SolvedOnce AnswerIsMeaning TokensMean
CHECK_DEADLOCK FALSE
