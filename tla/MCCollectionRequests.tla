------------------------ MODULE MCCollectionRequests ------------------------
(* Instances of CollectionRequests for TLC. *)
EXTENDS CollectionRequests, TLC

CONSTANTS plain, relocked, changing, standalone, unsupported, r1, r2, r3

\* An encrypted collection that is always relocked, and two whose names are
\* used again for collections with the other unlock semantic.  That of a
\* standalone secret is stored and never looked at.
MCSemanticsOf ==
    [n \in Names |-> IF n \in {plain, changing} THEN BOOLEAN ELSE {FALSE}]

\* One request of any kind, while a second one deletes the collection or the
\* secret and a third one creates it
MCOpsOf ==
    [r \in Requests |->
       CASE r = r1 -> Ops
         [] r = r2 -> {"deleteCollection", "deleteStandaloneSecret"}
         [] r = r3 -> {"createCustomLockCollection",
                       "setStandaloneCustomLockSecret"}]

\* Lock codes are interchangeable.
CodeSymmetry == Permutations(Codes)
=============================================================================
