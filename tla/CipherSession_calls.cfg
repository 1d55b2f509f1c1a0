\* Two requests of one or two processes, and one token per process.
SPECIFICATION Spec
CONSTANTS
    r1 = r1
    r2 = r2
    p1 = p1
    p2 = p2
    CipherRequests <- MCCipherRequests
    Processes <- MCProcesses
    MaxSessions = 2
    MaxCalls = 4
    MaxFaults = 1
SYMMETRY MCSymmetry
\* When the calls are used up the applications stop.
CHECK_DEADLOCK FALSE
INVARIANTS
    TypeOK
    OwnSession
    BlocksInOrder
    OwnReply
    NoCallForgotten
