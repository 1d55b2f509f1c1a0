\* One shutdown while a value is being replaced.
SPECIFICATION Spec
CONSTANTS
    Values = {v1, v2}
    Garbage = {}
    Empty = Empty
    Unreadable = Unreadable
    DirNames = {d1, d2}
    MaxTime = 2
    MaxShutdowns = 1
    MaxFailures = 0
    MaxDamage = 0
INVARIANT
    SurvivesShutdown
