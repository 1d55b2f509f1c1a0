\* A damaged file, a failing write and a shutdown, in any order.
SPECIFICATION Spec
CONSTANTS
    Values = {v1, v2}
    Garbage = {g}
    Empty = Empty
    Unreadable = Unreadable
    DirNames = {d1, d2, d3}
    MaxTime = 1
    MaxShutdowns = 1
    MaxFailures = 1
    MaxDamage = 1
SYMMETRY StoreSymmetry
INVARIANTS
    ReadsLastPut
    NoOlderValue
PROPERTY
    PutRepairs
