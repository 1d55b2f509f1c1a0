\* No stop and no failing write: only the jobs of the pool race with the requests.
SPECIFICATION Spec
CONSTANTS
    Codes = {e, a, b}
    EmptyCode = e
    DummyCode = dummy
    TornKey = torn
    Unreadable = Unreadable
    Null = Null
    Plugins = {p1, p2}
    Requests = {r1}
    MaxCrashes = 0
    MaxFailures = 0
SYMMETRY LockSymmetry
INVARIANT
    DataUsesALockCode
