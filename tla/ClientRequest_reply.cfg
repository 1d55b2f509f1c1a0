\* One call of a VerifyRequest, without faults.
SPECIFICATION Spec
CONSTANTS
    Classes <- MCVerify
    MaxSets = 0
    MaxStarts = 1
    MaxFaults = 0
CHECK_DEADLOCK FALSE
INVARIANT
    FailureIsTold
