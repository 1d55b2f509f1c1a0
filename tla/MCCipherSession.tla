--------------------------- MODULE MCCipherSession ---------------------------
EXTENDS CipherSession, TLC

CONSTANTS r1, r2, p1, p2
MCCipherRequests == {r1, r2}
MCProcesses == {p1, p2}
MCSymmetry == Permutations(MCCipherRequests) \cup Permutations(MCProcesses)
=============================================================================
