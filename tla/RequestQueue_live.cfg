SPECIFICATION FairSpec
CONSTANTS
    Calls = {c1, c2}
    NoCall = NoCall
    NumIds = 3
    MaxHelpers = 2
PROPERTY
    EveryCallAnswered
\* The clients make finitely many calls: the daemon may come to rest.
CHECK_DEADLOCK FALSE
