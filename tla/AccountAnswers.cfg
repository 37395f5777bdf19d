SPECIFICATION Spec
CONSTANTS
    Requests = {q1}
    Handles = {h1, h2}
    Missing = Missing
    MaxMsa = 1
    MaxKeys = 2
INVARIANTS
    TypeOK
    AnswerWasRight
    BodyTellsChange
    RefusedSignUps
CHECK_DEADLOCK FALSE
