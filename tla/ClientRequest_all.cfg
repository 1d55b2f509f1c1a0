\* Every class of requests, started twice, with a setter called in between.
SPECIFICATION Spec
CONSTANTS
    Classes <- MCAllClasses
    MaxSets = 1
    MaxStarts = 2
    MaxFaults = 1
\* A request that has finished need not be started again.
CHECK_DEADLOCK FALSE
INVARIANTS
    ParametersArrive
    SuccessIsTheDaemons
    FinishedIsCurrent
PROPERTY
    RequestFinishes
