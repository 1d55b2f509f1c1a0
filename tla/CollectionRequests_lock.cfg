\* Three requests for a collection: of a storage plugin, of an encrypted
\* storage plugin with relock, and of one whose name is used again;
\* and for a standalone secret of a plugin of either kind.
SPECIFICATION Spec
CONSTANTS
    plain = plain
    relocked = relocked
    changing = changing
    standalone = standalone
    unsupported = unsupported
    Names = {plain, relocked, changing, standalone, unsupported}
    Standalone = {standalone, unsupported}
    Encrypted = {relocked, changing, unsupported}
    Faulty = {changing, standalone}
    SemanticsOf <- MCSemanticsOf
    Codes = {k1, k2}
    DeviceKey = DeviceKey
    EmptyKey = EmptyKey
    Null = Null
    r1 = r1
    r2 = r2
    r3 = r3
    Requests = {r1, r2, r3}
    OpsOf <- MCOpsOf
SYMMETRY CodeSymmetry
INVARIANTS
    TypeOK
    OneContinuation
    NoInternalError
    NeverAskedNeverWrong
    EveryAccessAsks
PROPERTY
    KeepsUnlocked
