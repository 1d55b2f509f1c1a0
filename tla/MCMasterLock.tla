---------------------------- MODULE MCMasterLock ----------------------------
(* Instances of MasterLock for TLC. *)
EXTENDS MasterLock, TLC

\* Plugins are interchangeable, and so are requests.
LockSymmetry == Permutations(Plugins) \cup Permutations(Requests)
=============================================================================
