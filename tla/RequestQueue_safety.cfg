\* Three calls and two helper requests compete for three identifiers per queue, so the counter wraps
\* and the queue-full case is reached.
SPECIFICATION Spec
CONSTANTS
    Calls = {c1, c2, c3}
    NoCall = NoCall
    NumIds = 3
    MaxHelpers = 2
SYMMETRY CallSymmetry
INVARIANTS
    TypeOK
    IdsUnique
    NoLostWakeup
    StartedInOrder
    CallbacksFindRequest
    InProgressIsDriven
    NoCallLost
\* The clients make finitely many calls: the daemon may come to rest.
CHECK_DEADLOCK FALSE
PROPERTY
    AnswersOnce
