\* Two stops and one failing write, at any point.
SPECIFICATION Spec
CONSTANTS
    Codes = {e, a}
    EmptyCode = e
    DummyCode = dummy
    TornKey = torn
    Unreadable = Unreadable
    Null = Null
    Plugins = {p1, p2}
    Requests = {r1, r2}
    MaxCrashes = 2
    MaxFailures = 1
SYMMETRY LockSymmetry
INVARIANTS
    TypeOK
    UnlockedByCurrentCode
    KeysAgree
    LockedMeansClosed
    UnlockOpensAll
