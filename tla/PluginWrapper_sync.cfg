\* Two stops, anywhere, and one failing operation of the plugin.
SPECIFICATION Spec
CONSTANTS
    Collections = {c1, c2}
    Standalone = standalone
    Secrets = {s1, s2}
    MaxCrashes = 2
    MaxFailures = 1
    MaxTxFailures = 0
SYMMETRY NameSymmetry
INVARIANTS
    InSync
    ToldIsTrue
