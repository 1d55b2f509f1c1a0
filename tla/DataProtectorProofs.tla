------------------------ MODULE DataProtectorProofs ------------------------
(***************************************************************************)
(* Proofs about DataProtector: getData returns what the last putData       *)
(* stored while none was cut short and at most one file of a directory was *)
(* damaged; shutdowns and failing writes bring no older value back; and a  *)
(* putData that returns Success leaves one directory which holds the new   *)
(* value only.  For any values, names and number of shutdowns, failures    *)
(* and damages.                                                            *)
(*                                                                         *)
(* The inductive invariant says how far the running putData has come: its  *)
(* directory has no other files than the ones already committed, and there *)
(* is no other directory than the ones it is going to remove.              *)
(***************************************************************************)
EXTENDS DataProtector, TLAPS, FiniteSetTheorems

-----------------------------------------------------------------------------
(* The inductive invariant *)

\* The directories there are, when ds is the file system
Present(ds) == {d \in DirNames : ds[d] # NoDir}

\* File j of directory x was committed with value v, and may be damaged since.
Holds(x, j, v) == (j \in x.damaged \/ x.file[j] = v) /\ x.temp[j] = Absent

\* How far putData has come in its directory x
Opening(x, k) ==
    /\ x.damaged = {}
    /\ \A j \in Files : /\ x.file[j] = Absent
                        /\ j < k => x.temp[j] = Empty
                        /\ j >= k => x.temp[j] = Absent
Writing(x, k, v) ==
    \A j \in Files : /\ j < k => Holds(x, j, v)
                     /\ j >= k => j \notin x.damaged /\ x.file[j] = Absent
                     /\ j > k => x.temp[j] = Empty
Complete(x, v) == \A j \in Files : Holds(x, j, v)

\* A damaged file holds none of the values any more.
Spoiled(x) == \A j \in x.damaged : x.file[j] \notin Values

Typed ==
    /\ dirs \in [DirNames -> Dir \cup {NoDir}]
    /\ now \in 0 .. MaxTime
    /\ pc \in {"idle", "open", "write", "commit", "remove"}
    /\ committed \in Values \cup {Empty} /\ attempted \subseteq Values
    /\ shutdowns \in Nat /\ failures \in Nat /\ damages \in Nat
    /\ \A d \in Present(dirs) : Spoiled(dirs[d])

Running ==
    pc # "idle" =>
      /\ put \in [dir : DirNames, bytes : Values, old : SUBSET DirNames, k : Files]
      /\ put.bytes \in attempted /\ put.dir \notin put.old
      /\ Present(dirs) = put.old \cup {put.dir}
      /\ pc = "open" => Opening(dirs[put.dir], put.k)
      /\ pc \in {"write", "commit"} => Writing(dirs[put.dir], put.k, put.bytes)
      /\ pc = "remove" => Complete(dirs[put.dir], put.bytes)

\* Without damage there are only values S on the disk and in the cache.
Only(S, x) ==
    /\ x.damaged = {}
    /\ \A j \in Files : x.file[j] \in S \cup {Absent} /\ x.temp[j] \in S \cup {Absent}
Known(v, a) == {v, Empty} \cup a
OnlyKnown ==
    damages = 0 => /\ m_data \in Known(committed, attempted)
                   /\ \A d \in Present(dirs) : Only(Known(committed, attempted), dirs[d])

\* Between calls of putData none of which was cut short
OneDamaged(x) == \E k \in Files : x.damaged \subseteq {k}
Steady ==
    pc = "idle" /\ shutdowns = 0 /\ failures = 0 =>
      \/ committed = Empty /\ Present(dirs) = {} /\ m_data = Empty
      \/ \E d \in DirNames :
           /\ committed \in Values /\ Present(dirs) = {d} /\ Complete(dirs[d], committed)
           /\ OneDamaged(dirs[d]) => m_data \in {Empty, committed}

DataInv == Typed /\ Running /\ OnlyKnown /\ Steady
-----------------------------------------------------------------------------
(* Directories *)

\* The three files, and the clock
LEMMA Bounds ==
    /\ Files = {0, 1, 2} /\ MaxTime \in Nat /\ Files \subseteq Nat
    /\ \A x \in Dir : x # NoDir
<1>1. ASSUME NEW x \in Dir PROVE x # NoDir
  <2>1. DOMAIN x = {"file", "temp", "damaged", "mtime"}
    BY DEF Dir
  <2>2. DOMAIN NoDir = {"mtime"}
    BY DEF NoDir
  <2> QED BY <2>1, <2>2
<1> QED BY <1>1, BoundsAssumption DEF Files

\* What a step does to the other directories when it writes directory d
LEMMA Replaced ==
    ASSUME Typed, NEW d \in DirNames, NEW y \in Dir, Spoiled(y),
           dirs' = [dirs EXCEPT ![d] = y]
    PROVE  /\ dirs' \in [DirNames -> Dir \cup {NoDir}]
           /\ dirs'[d] = y /\ \A e \in DirNames : e # d => dirs'[e] = dirs[e]
           /\ Present(dirs') = Present(dirs) \cup {d}
           /\ \A e \in Present(dirs') : Spoiled(dirs'[e])
           /\ \A S : Only(S, y) /\ (\A e \in Present(dirs) : Only(S, dirs[e]))
                     => \A e \in Present(dirs') : Only(S, dirs'[e])
<1>1. dirs \in [DirNames -> Dir \cup {NoDir}] /\ \A e \in Present(dirs) : Spoiled(dirs[e])
  BY DEF Typed
<1>2. /\ dirs' \in [DirNames -> Dir \cup {NoDir}]
      /\ dirs'[d] = y /\ \A e \in DirNames : e # d => dirs'[e] = dirs[e]
  BY <1>1
<1>3. Present(dirs') = Present(dirs) \cup {d}
  BY <1>2, Bounds DEF Present
<1>4. \A e \in Present(dirs') : e = d \/ (e \in Present(dirs) /\ dirs'[e] = dirs[e])
  BY <1>2, <1>3 DEF Present
<1> QED BY <1>1, <1>2, <1>3, <1>4

\* A directory that is there is one with files.
LEMMA PresentIsDir ==
    ASSUME Typed, NEW d \in Present(dirs)
    PROVE  d \in DirNames /\ dirs[d] \in Dir /\ Spoiled(dirs[d])
BY DEF Typed, Present

-----------------------------------------------------------------------------
(* putData *)

\* mkdir
LEMMA MakeDirectoryInv ==
    ASSUME DataInv, NEW bytes \in Values, MakeDirectory(bytes)
    PROVE  DataInv'
<1>1. Typed /\ OnlyKnown
  BY DEF DataInv
<1>2. /\ pc' = "open" /\ attempted' = attempted \cup {bytes}
      /\ now' = now /\ m_data' = m_data /\ committed' = committed
      /\ shutdowns' = shutdowns /\ failures' = failures /\ damages' = damages
  BY DEF MakeDirectory
<1>3. PICK d \in DirNames \ Subdirs :
          /\ dirs' = [dirs EXCEPT ![d] = NewDir]
          /\ put' = [dir |-> d, bytes |-> bytes, old |-> OldDirectories, k |-> 0]
  BY DEF MakeDirectory
<1>4. PICK y : y = NewDir
  OBVIOUS
<1>5. /\ y \in Dir /\ y.damaged = {}
      /\ \A j \in Files : y.file[j] = Absent /\ y.temp[j] = Absent
  BY <1>1, <1>4 DEF NewDir, Dir, Typed
<1>6. Spoiled(y) /\ Opening(y, 0)
  BY <1>5, Bounds DEF Spoiled, Opening
<1>7. /\ dirs' \in [DirNames -> Dir \cup {NoDir}] /\ dirs'[d] = y
      /\ Present(dirs') = Present(dirs) \cup {d}
      /\ \A e \in Present(dirs') : Spoiled(dirs'[e])
      /\ \A S : Only(S, y) /\ (\A e \in Present(dirs) : Only(S, dirs[e]))
                => \A e \in Present(dirs') : Only(S, dirs'[e])
  BY <1>1, <1>3, <1>4, <1>5, <1>6, Replaced
<1>8. /\ put'.dir = d /\ put'.bytes = bytes /\ put'.old = Present(dirs) /\ put'.k = 0
      /\ put' \in [dir : DirNames, bytes : Values, old : SUBSET DirNames, k : Files]
      /\ d \notin Present(dirs)
  BY <1>3, Bounds DEF OldDirectories, Subdirs, Exists, Present
<1>9. Typed'
  BY <1>1, <1>2, <1>7 DEF Typed
<1>10. Running'
  BY <1>2, <1>6, <1>7, <1>8 DEF Running
<1>11. OnlyKnown'
  <2> SUFFICES ASSUME damages = 0
               PROVE  /\ m_data' \in Known(committed', attempted')
                      /\ \A e \in Present(dirs') : Only(Known(committed', attempted'), dirs'[e])
    BY <1>2 DEF OnlyKnown
  <2>1. Known(committed, attempted) \subseteq Known(committed', attempted')
    BY <1>2 DEF Known
  <2>2. \A e \in Present(dirs) : Only(Known(committed', attempted'), dirs[e])
    BY <1>1, <2>1 DEF OnlyKnown, Only
  <2>3. Only(Known(committed', attempted'), y)
    BY <1>5 DEF Only
  <2> QED BY <1>1, <1>2, <1>7, <2>1, <2>2, <2>3 DEF OnlyKnown
<1>12. Steady'
  BY <1>2 DEF Steady
<1> QED BY <1>9, <1>10, <1>11, <1>12 DEF DataInv

\* Steps of putData which only write its own directory
LEMMA PutStep ==
    ASSUME DataInv, pc # "idle",
           UNCHANGED <<now, m_data, committed, attempted, shutdowns, failures, damages>>,
           NEW y \in Dir, Spoiled(y), dirs' = [dirs EXCEPT ![put.dir] = y],
           damages = 0 => Only(Known(committed, attempted), y),
           put' \in [dir : DirNames, bytes : Values, old : SUBSET DirNames, k : Files],
           put'.dir = put.dir, put'.bytes = put.bytes, put'.old = put.old,
           pc' \in {"open", "write", "commit", "remove"},
           pc' = "open" => Opening(y, put'.k),
           pc' \in {"write", "commit"} => Writing(y, put'.k, put'.bytes),
           pc' = "remove" => Complete(y, put'.bytes)
    PROVE  DataInv'
<1>1. Typed /\ Running /\ OnlyKnown
  BY DEF DataInv
<1>2. /\ put.dir \in DirNames /\ put.bytes \in attempted /\ put.dir \notin put.old
      /\ Present(dirs) = put.old \cup {put.dir}
  BY <1>1 DEF Running
<1>3. PICK d \in DirNames : d = put.dir
  BY <1>2
<1>4. /\ dirs' \in [DirNames -> Dir \cup {NoDir}] /\ dirs'[d] = y
      /\ Present(dirs') = Present(dirs) \cup {d}
      /\ \A e \in Present(dirs') : Spoiled(dirs'[e])
      /\ \A S : Only(S, y) /\ (\A e \in Present(dirs) : Only(S, dirs[e]))
                => \A e \in Present(dirs') : Only(S, dirs'[e])
  BY <1>1, <1>3, Replaced
<1>5. Typed'
  BY <1>1, <1>4 DEF Typed
<1>6. Running'
  BY <1>2, <1>3, <1>4 DEF Running
<1>7. OnlyKnown'
  BY <1>1, <1>4 DEF OnlyKnown
<1>8. Steady'
  BY DEF Steady
<1> QED BY <1>5, <1>6, <1>7, <1>8 DEF DataInv

\* The locals of putData when it goes on to the next file, or starts again
LEMMA PutFields ==
    ASSUME NEW p \in [dir : DirNames, bytes : Values, old : SUBSET DirNames, k : Files],
           NEW n \in Files
    PROVE  /\ [p EXCEPT !.k = n] \in
                [dir : DirNames, bytes : Values, old : SUBSET DirNames, k : Files]
           /\ [p EXCEPT !.k = n].dir = p.dir /\ [p EXCEPT !.k = n].bytes = p.bytes
           /\ [p EXCEPT !.k = n].old = p.old /\ [p EXCEPT !.k = n].k = n
OBVIOUS

\* The facts about a running putData that its steps need
LEMMA RunningFacts ==
    ASSUME DataInv, pc # "idle"
    PROVE  /\ put \in [dir : DirNames, bytes : Values, old : SUBSET DirNames, k : Files]
           /\ put.dir \in DirNames /\ put.bytes \in Values /\ put.k \in Files
           /\ put.k \in {0, 1, 2} /\ put.bytes \in attempted
           /\ dirs[put.dir] \in Dir /\ Spoiled(dirs[put.dir])
           /\ damages = 0 => Only(Known(committed, attempted), dirs[put.dir])
           /\ now \in 0 .. MaxTime
<1>1. Typed /\ Running /\ OnlyKnown
  BY DEF DataInv
<1>2. /\ put \in [dir : DirNames, bytes : Values, old : SUBSET DirNames, k : Files]
      /\ put.bytes \in attempted /\ put.dir \in Present(dirs)
  BY <1>1 DEF Running
<1>3. dirs[put.dir] \in Dir /\ Spoiled(dirs[put.dir])
  BY <1>1, <1>2, PresentIsDir
<1>4. damages = 0 => Only(Known(committed, attempted), dirs[put.dir])
  BY <1>1, <1>2 DEF OnlyKnown
<1>5. put.dir \in DirNames /\ put.bytes \in Values /\ put.k \in Files
  BY <1>2
<1> QED BY <1>1, <1>2, <1>3, <1>4, <1>5, Bounds DEF Typed

\* QSaveFile::open
LEMMA OpenFileInv ==
    ASSUME DataInv, OpenFile
    PROVE  DataInv'
<1>1. /\ pc = "open"
      /\ UNCHANGED <<now, m_data, committed, attempted, shutdowns, failures, damages>>
      /\ dirs' = [dirs EXCEPT ![put.dir] = Touched([dirs[put.dir] EXCEPT !.temp[put.k] = Empty])]
      /\ \/ put.k < 2 /\ put' = [put EXCEPT !.k = put.k + 1] /\ pc' = "open"
         \/ put.k = 2 /\ put' = [put EXCEPT !.k = 0] /\ pc' = "write"
  BY DEF OpenFile
<1>2. PICK x \in Dir, k \in Files : x = dirs[put.dir] /\ k = put.k
  BY <1>1, RunningFacts
<1>3. /\ put \in [dir : DirNames, bytes : Values, old : SUBSET DirNames, k : Files]
      /\ k \in {0, 1, 2} /\ Spoiled(x) /\ now \in 0 .. MaxTime
      /\ damages = 0 => Only(Known(committed, attempted), x)
  BY <1>1, <1>2, RunningFacts
<1>4. Opening(x, k)
  BY <1>1, <1>2 DEF DataInv, Running
<1>5. PICK y : y = Touched([x EXCEPT !.temp[k] = Empty])
  OBVIOUS
<1>6. /\ y \in Dir /\ y.damaged = x.damaged /\ y.file = x.file
      /\ \A j \in Files : y.temp[j] = IF j = k THEN Empty ELSE x.temp[j]
  BY <1>3, <1>5 DEF Touched, Dir
<1>7. Spoiled(y)
  BY <1>3, <1>6 DEF Spoiled
<1>8. damages = 0 => Only(Known(committed, attempted), y)
  BY <1>3, <1>6 DEF Only, Known
<1>9. dirs' = [dirs EXCEPT ![put.dir] = y]
  BY <1>1, <1>2, <1>5
<1>10. CASE k < 2
  <2>1. PICK n \in Files : n = k + 1
    BY <1>3, <1>10, Bounds
  <2>2. put' = [put EXCEPT !.k = n] /\ pc' = "open"
    BY <1>1, <1>2, <1>10, <2>1, <1>3
  <2>3. /\ put' \in [dir : DirNames, bytes : Values, old : SUBSET DirNames, k : Files]
        /\ put'.dir = put.dir /\ put'.bytes = put.bytes /\ put'.old = put.old /\ put'.k = n
    BY <1>3, <2>2, PutFields
  <2>4. Opening(y, n)
    BY <1>3, <1>4, <1>6, <2>1, Bounds DEF Opening
  <2> QED BY <1>1, <1>6, <1>7, <1>8, <1>9, <2>2, <2>3, <2>4, PutStep
<1>11. CASE k = 2
  <2>1. put' = [put EXCEPT !.k = 0] /\ pc' = "write" /\ 0 \in Files
    BY <1>1, <1>2, <1>11, Bounds
  <2>2. /\ put' \in [dir : DirNames, bytes : Values, old : SUBSET DirNames, k : Files]
        /\ put'.dir = put.dir /\ put'.bytes = put.bytes /\ put'.old = put.old /\ put'.k = 0
    BY <1>3, <2>1, PutFields
  <2>3. Writing(y, 0, put'.bytes)
    BY <1>4, <1>6, <1>11, Bounds DEF Opening, Writing
  <2> QED BY <1>1, <1>6, <1>7, <1>8, <1>9, <2>1, <2>2, <2>3, PutStep
<1> QED BY <1>3, <1>10, <1>11

\* QSaveFile::write
LEMMA WriteFileInv ==
    ASSUME DataInv, WriteFile
    PROVE  DataInv'
<1>1. /\ pc = "write" /\ pc' = "commit" /\ put' = put
      /\ UNCHANGED <<now, m_data, committed, attempted, shutdowns, failures, damages>>
      /\ dirs' = [dirs EXCEPT ![put.dir].temp[put.k] = put.bytes]
  BY DEF WriteFile
<1>2. PICK x \in Dir, k \in Files : x = dirs[put.dir] /\ k = put.k
  BY <1>1, RunningFacts
<1>3. /\ put \in [dir : DirNames, bytes : Values, old : SUBSET DirNames, k : Files]
      /\ k \in {0, 1, 2} /\ Spoiled(x) /\ put.bytes \in Values /\ put.bytes \in attempted
      /\ damages = 0 => Only(Known(committed, attempted), x)
  BY <1>1, <1>2, RunningFacts
<1>4. Writing(x, k, put.bytes)
  BY <1>1, <1>2 DEF DataInv, Running
<1>5. PICK y : y = [x EXCEPT !.temp[k] = put.bytes]
  OBVIOUS
<1>6. /\ y \in Dir /\ y.damaged = x.damaged /\ y.file = x.file
      /\ \A j \in Files : y.temp[j] = IF j = k THEN put.bytes ELSE x.temp[j]
  BY <1>3, <1>5 DEF Dir
<1>7. Spoiled(y)
  BY <1>3, <1>6 DEF Spoiled
<1>8. damages = 0 => Only(Known(committed, attempted), y)
  BY <1>3, <1>6 DEF Only, Known
<1>9. dirs' = [dirs EXCEPT ![put.dir] = y]
  BY <1>1, <1>2, <1>5
<1>10. Writing(y, put'.k, put'.bytes)
  BY <1>1, <1>2, <1>3, <1>4, <1>6, Bounds DEF Writing, Holds
<1> QED BY <1>1, <1>3, <1>6, <1>7, <1>8, <1>9, <1>10, PutStep

\* QSaveFile::commit
LEMMA CommitFileInv ==
    ASSUME DataInv, CommitFile
    PROVE  DataInv'
<1>1. /\ pc = "commit"
      /\ UNCHANGED <<now, m_data, committed, attempted, shutdowns, failures, damages>>
      /\ dirs' = [dirs EXCEPT ![put.dir] = Touched(
            [dirs[put.dir] EXCEPT !.temp[put.k] = Absent, !.file[put.k] = put.bytes])]
      /\ \/ put.k < 2 /\ put' = [put EXCEPT !.k = put.k + 1] /\ pc' = "write"
         \/ put.k = 2 /\ put' = [put EXCEPT !.k = 0] /\ pc' = "remove"
  BY DEF CommitFile
<1>2. PICK x \in Dir, k \in Files : x = dirs[put.dir] /\ k = put.k
  BY <1>1, RunningFacts
<1>3. /\ put \in [dir : DirNames, bytes : Values, old : SUBSET DirNames, k : Files]
      /\ k \in {0, 1, 2} /\ Spoiled(x) /\ put.bytes \in Values /\ put.bytes \in attempted
      /\ damages = 0 => Only(Known(committed, attempted), x)
      /\ now \in 0 .. MaxTime
  BY <1>1, <1>2, RunningFacts
<1>4. Writing(x, k, put.bytes)
  BY <1>1, <1>2 DEF DataInv, Running
<1>5. PICK y : y = Touched([x EXCEPT !.temp[k] = Absent, !.file[k] = put.bytes])
  OBVIOUS
<1>6. /\ y \in Dir /\ y.damaged = x.damaged
      /\ \A j \in Files : y.temp[j] = IF j = k THEN Absent ELSE x.temp[j]
      /\ \A j \in Files : y.file[j] = IF j = k THEN put.bytes ELSE x.file[j]
  BY <1>3, <1>5 DEF Touched, Dir, Content
<1>7. Spoiled(y)
  <2>1. k \notin x.damaged /\ x.damaged \subseteq Files
    BY <1>3, <1>4, Bounds DEF Writing, Dir
  <2> QED BY <1>3, <1>6, <2>1 DEF Spoiled
<1>8. damages = 0 => Only(Known(committed, attempted), y)
  BY <1>3, <1>6 DEF Only, Known
<1>9. dirs' = [dirs EXCEPT ![put.dir] = y]
  BY <1>1, <1>2, <1>5
<1>10. CASE k < 2
  <2>1. PICK n \in Files : n = k + 1
    BY <1>3, <1>10, Bounds
  <2>2. put' = [put EXCEPT !.k = n] /\ pc' = "write"
    BY <1>1, <1>2, <1>10, <2>1, <1>3
  <2>3. /\ put' \in [dir : DirNames, bytes : Values, old : SUBSET DirNames, k : Files]
        /\ put'.dir = put.dir /\ put'.bytes = put.bytes /\ put'.old = put.old /\ put'.k = n
    BY <1>3, <2>2, PutFields
  <2>4. Writing(y, n, put'.bytes)
    BY <1>3, <1>4, <1>6, <2>1, <2>3, Bounds DEF Writing, Holds
  <2> QED BY <1>1, <1>6, <1>7, <1>8, <1>9, <2>2, <2>3, <2>4, PutStep
<1>11. CASE k = 2
  <2>1. put' = [put EXCEPT !.k = 0] /\ pc' = "remove" /\ 0 \in Files
    BY <1>1, <1>2, <1>11, Bounds
  <2>2. /\ put' \in [dir : DirNames, bytes : Values, old : SUBSET DirNames, k : Files]
        /\ put'.dir = put.dir /\ put'.bytes = put.bytes /\ put'.old = put.old /\ put'.k = 0
    BY <1>3, <2>1, PutFields
  <2>3. Complete(y, put'.bytes)
    BY <1>4, <1>6, <1>11, <2>2, Bounds DEF Writing, Complete, Holds
  <2> QED BY <1>1, <1>6, <1>7, <1>8, <1>9, <2>1, <2>2, <2>3, PutStep
<1> QED BY <1>3, <1>10, <1>11

\* The files QDir lists are files of the directory.
LEMMA ListedFacts ==
    ASSUME NEW d
    PROVE  \A f \in Listed(d) :
             /\ f = <<f[1], f[2]>> /\ f[1] \in {"file", "temp"} /\ f[2] \in Files
             /\ f[1] = "file" => dirs[d].file[f[2]] # Absent
             /\ f[1] = "temp" => dirs[d].temp[f[2]] # Absent
BY DEF Listed

\* removeRecursively deletes a file of an old directory.
LEMMA RemoveFileInv ==
    ASSUME DataInv, RemoveFile
    PROVE  DataInv'
<1>1. /\ pc = "remove" /\ pc' = pc /\ put' = put
      /\ UNCHANGED <<now, m_data, committed, attempted, shutdowns, failures, damages>>
  BY DEF RemoveFile
<1>2. PICK d \in put.old : \E f \in Listed(d) :
          dirs' = [dirs EXCEPT ![d] = Touched(
                IF f[1] = "file" THEN [dirs[d] EXCEPT !.file[f[2]] = Absent]
                                 ELSE [dirs[d] EXCEPT !.temp[f[2]] = Absent])]
  BY DEF RemoveFile
<1>3. PICK f \in Listed(d) :
          dirs' = [dirs EXCEPT ![d] = Touched(
                IF f[1] = "file" THEN [dirs[d] EXCEPT !.file[f[2]] = Absent]
                                 ELSE [dirs[d] EXCEPT !.temp[f[2]] = Absent])]
  BY <1>2
<1>4. Typed /\ Running /\ OnlyKnown
  BY DEF DataInv
<1>5. /\ put.dir \notin put.old /\ Present(dirs) = put.old \cup {put.dir}
      /\ Complete(dirs[put.dir], put.bytes) /\ put.dir \in DirNames
      /\ put \in [dir : DirNames, bytes : Values, old : SUBSET DirNames, k : Files]
      /\ put.bytes \in attempted
  BY <1>1, <1>4 DEF Running
<1>6. d \in Present(dirs) /\ d \in DirNames /\ d # put.dir
  BY <1>5 DEF Present
<1>7. PICK x \in Dir : x = dirs[d] /\ Spoiled(x)
  BY <1>4, <1>6, PresentIsDir
<1>8. PICK k \in Files : k = f[2]
  BY ListedFacts
<1>9. PICK y : y = Touched(IF f[1] = "file" THEN [x EXCEPT !.file[k] = Absent]
                                            ELSE [x EXCEPT !.temp[k] = Absent])
  OBVIOUS
<1>10. /\ y \in Dir /\ y.damaged = x.damaged
       /\ \A j \in Files : y.file[j] = x.file[j] \/ y.file[j] = Absent
       /\ \A j \in Files : y.temp[j] = x.temp[j] \/ y.temp[j] = Absent
  <2>1. now \in 0 .. MaxTime
    BY <1>4 DEF Typed
  <2>2. CASE f[1] = "file"
    BY <1>9, <2>1, <2>2 DEF Touched, Dir
  <2>3. CASE f[1] # "file"
    BY <1>9, <2>1, <2>3 DEF Touched, Dir
  <2> QED BY <2>2, <2>3
<1>11. Spoiled(y)
  <2>1. x.damaged \subseteq Files /\ Absent \notin Values
    BY ContentAssumption DEF Dir
  <2> QED BY <1>7, <1>10, <2>1 DEF Spoiled
<1>12. \A S : Only(S, x) => Only(S, y)
  BY <1>10 DEF Only
<1>13. dirs' = [dirs EXCEPT ![d] = y]
  BY <1>3, <1>7, <1>8, <1>9
<1>14. /\ dirs' \in [DirNames -> Dir \cup {NoDir}]
       /\ \A e \in DirNames : e # d => dirs'[e] = dirs[e]
       /\ Present(dirs') = Present(dirs) \cup {d}
       /\ \A e \in Present(dirs') : Spoiled(dirs'[e])
       /\ \A S : Only(S, y) /\ (\A e \in Present(dirs) : Only(S, dirs[e]))
                 => \A e \in Present(dirs') : Only(S, dirs'[e])
  BY <1>4, <1>6, <1>10, <1>11, <1>13, Replaced
<1>15. Typed'
  BY <1>1, <1>4, <1>14 DEF Typed
<1>16. Running'
  <2>1. dirs'[put.dir] = dirs[put.dir] /\ Present(dirs') = Present(dirs)
    BY <1>5, <1>6, <1>14
  <2> QED BY <1>1, <1>5, <2>1 DEF Running
<1>17. OnlyKnown'
  BY <1>1, <1>4, <1>6, <1>7, <1>12, <1>14 DEF OnlyKnown
<1>18. Steady'
  BY <1>1 DEF Steady
<1> QED BY <1>15, <1>16, <1>17, <1>18 DEF DataInv

\* An old directory without files is removed.
LEMMA RemoveDirectoryInv ==
    ASSUME DataInv, RemoveDirectory
    PROVE  DataInv'
<1>1. /\ pc = "remove" /\ pc' = pc
      /\ UNCHANGED <<now, m_data, committed, attempted, shutdowns, failures, damages>>
  BY DEF RemoveDirectory
<1>2. PICK d \in put.old : /\ dirs' = [dirs EXCEPT ![d] = NoDir]
                           /\ put' = [put EXCEPT !.old = put.old \ {d}]
  BY DEF RemoveDirectory
<1>3. Typed /\ Running /\ OnlyKnown
  BY DEF DataInv
<1>4. /\ put.dir \notin put.old /\ Present(dirs) = put.old \cup {put.dir}
      /\ Complete(dirs[put.dir], put.bytes)
      /\ put \in [dir : DirNames, bytes : Values, old : SUBSET DirNames, k : Files]
      /\ put.bytes \in attempted
  BY <1>1, <1>3 DEF Running
<1>5. /\ put' \in [dir : DirNames, bytes : Values, old : SUBSET DirNames, k : Files]
      /\ put'.dir = put.dir /\ put'.bytes = put.bytes /\ put'.old = put.old \ {d}
  BY <1>2, <1>4
<1>6. d \in DirNames /\ d # put.dir /\ put.dir \in DirNames
  BY <1>4
<1>7. /\ dirs' \in [DirNames -> Dir \cup {NoDir}] /\ dirs'[d] = NoDir
      /\ \A e \in DirNames : e # d => dirs'[e] = dirs[e]
  BY <1>2, <1>3, <1>6 DEF Typed
<1>8. Present(dirs') = Present(dirs) \ {d}
  BY <1>7 DEF Present
<1>9. \A e \in Present(dirs') : e \in Present(dirs) /\ dirs'[e] = dirs[e]
  BY <1>7, <1>8 DEF Present
<1>10. Typed'
  BY <1>1, <1>3, <1>7, <1>9 DEF Typed
<1>11. Running'
  <2>1. dirs'[put.dir] = dirs[put.dir]
    BY <1>6, <1>7
  <2>2. Present(dirs') = put'.old \cup {put'.dir}
    BY <1>4, <1>5, <1>6, <1>8
  <2>3. put'.bytes \in attempted' /\ put'.dir \notin put'.old
        /\ Complete(dirs'[put'.dir], put'.bytes)
    BY <1>1, <1>4, <1>5, <2>1
  <2> QED BY <1>1, <1>5, <2>2, <2>3 DEF Running
<1>12. OnlyKnown'
  BY <1>1, <1>3, <1>9 DEF OnlyKnown
<1>13. Steady'
  BY <1>1 DEF Steady
<1> QED BY <1>10, <1>11, <1>12, <1>13 DEF DataInv

\* The last old directory is gone: Success is returned.
LEMMA ReturnSuccessInv ==
    ASSUME DataInv, ReturnSuccess
    PROVE  DataInv'
<1>1. /\ pc = "remove" /\ put.old = {} /\ m_data' = Empty /\ committed' = put.bytes
      /\ attempted' = {} /\ pc' = "idle"
      /\ UNCHANGED <<dirs, now, shutdowns, failures, damages>>
  BY DEF ReturnSuccess
<1>2. Typed /\ Running /\ OnlyKnown
  BY DEF DataInv
<1>3. /\ Present(dirs) = {put.dir} /\ Complete(dirs[put.dir], put.bytes)
      /\ put.dir \in DirNames /\ put.bytes \in Values
  BY <1>1, <1>2 DEF Running
<1>4. Typed'
  BY <1>1, <1>2, <1>3 DEF Typed
<1>5. Running'
  BY <1>1 DEF Running
<1>6. OnlyKnown'
  <2> SUFFICES ASSUME damages = 0
               PROVE  /\ Empty \in Known(put.bytes, {})
                      /\ Only(Known(put.bytes, {}), dirs[put.dir])
    BY <1>1, <1>3 DEF OnlyKnown
  <2>1. dirs[put.dir].damaged = {}
    BY <1>2, <1>3 DEF OnlyKnown, Only
  <2> QED BY <1>3, <2>1 DEF Only, Known, Complete, Holds
<1>7. Steady'
  BY <1>1, <1>3 DEF Steady
<1> QED BY <1>4, <1>5, <1>6, <1>7 DEF DataInv

\* putData returns an error: its temporary files are discarded.
LEMMA ReturnErrorInv ==
    ASSUME DataInv, ReturnError
    PROVE  DataInv'
<1>1. /\ pc # "idle" /\ failures' = failures + 1 /\ pc' = "idle"
      /\ UNCHANGED <<now, m_data, committed, attempted, shutdowns, damages>>
      /\ \/ dirs' = dirs
         \/ dirs' = [dirs EXCEPT ![put.dir] =
                       Touched([dirs[put.dir] EXCEPT !.temp = [k \in Files |-> Absent]])]
  BY DEF ReturnError
<1>2. Typed /\ OnlyKnown
  BY DEF DataInv
<1>3. PICK x \in Dir : x = dirs[put.dir]
  BY <1>1, RunningFacts
<1>4. PICK d \in DirNames : d = put.dir
  BY <1>1, RunningFacts
<1>5. /\ Spoiled(x) /\ now \in 0 .. MaxTime
      /\ damages = 0 => Only(Known(committed, attempted), x)
  BY <1>1, <1>3, RunningFacts
<1>6. PICK y : y = Touched([x EXCEPT !.temp = [k \in Files |-> Absent]])
  OBVIOUS
<1>7. /\ y \in Dir /\ y.damaged = x.damaged /\ y.file = x.file
      /\ \A j \in Files : y.temp[j] = Absent
  BY <1>5, <1>6 DEF Touched, Dir
<1>8. Spoiled(y) /\ (damages = 0 => Only(Known(committed, attempted), y))
  BY <1>5, <1>7 DEF Spoiled, Only
<1>9. CASE dirs' = dirs
  <2>1. Typed' /\ OnlyKnown'
    BY <1>1, <1>2, <1>9 DEF Typed, OnlyKnown
  <2> QED BY <1>1, <1>2, <2>1 DEF DataInv, Running, Steady, Typed
<1>10. CASE dirs' = [dirs EXCEPT ![d] = y]
  <2>1. /\ dirs' \in [DirNames -> Dir \cup {NoDir}]
        /\ \A e \in Present(dirs') : Spoiled(dirs'[e])
        /\ \A S : Only(S, y) /\ (\A e \in Present(dirs) : Only(S, dirs[e]))
                  => \A e \in Present(dirs') : Only(S, dirs'[e])
    BY <1>2, <1>7, <1>8, <1>10, Replaced
  <2>2. Typed'
    BY <1>1, <1>2, <2>1 DEF Typed
  <2>3. OnlyKnown'
    BY <1>1, <1>2, <1>8, <2>1 DEF OnlyKnown
  <2> QED BY <1>1, <1>2, <2>2, <2>3 DEF DataInv, Running, Steady, Typed
<1> QED BY <1>1, <1>3, <1>4, <1>6, <1>9, <1>10

-----------------------------------------------------------------------------
(* getData *)

\* Two and three different elements
LEMMA SmallSets ==
    /\ \A a, b : a # b => IsFiniteSet({a, b}) /\ Cardinality({a, b}) = 2
    /\ \A a, b, c : a # b /\ a # c /\ b # c =>
         IsFiniteSet({a, b, c}) /\ Cardinality({a, b, c}) = 3
<1>1. ASSUME NEW a, NEW b, a # b PROVE IsFiniteSet({a, b}) /\ Cardinality({a, b}) = 2
  <2>1. {a, b} = {a} \cup {b}
    OBVIOUS
  <2>2. IsFiniteSet({a}) /\ Cardinality({a}) = 1 /\ b \notin {a}
    BY <1>1, FS_Singleton
  <2>3. /\ IsFiniteSet({a} \cup {b})
        /\ Cardinality({a} \cup {b}) = IF b \in {a} THEN Cardinality({a}) ELSE Cardinality({a}) + 1
    BY <2>2, FS_AddElement
  <2> QED BY <2>1, <2>2, <2>3
<1>2. ASSUME NEW a, NEW b, NEW c, a # b, a # c, b # c
      PROVE  IsFiniteSet({a, b, c}) /\ Cardinality({a, b, c}) = 3
  <2>1. {a, b, c} = {a, b} \cup {c}
    OBVIOUS
  <2>2. IsFiniteSet({a, b}) /\ Cardinality({a, b}) = 2
    BY <1>1, <1>2
  <2> QED BY <1>2, <2>1, <2>2, FS_AddElement
<1> QED BY <1>1, <1>2

\* The names of the files are finitely many.
LEMMA FilesFinite == IsFiniteSet(Files)
<1>1. IsFiniteSet({0, 1, 2})
  BY SmallSets
<1> QED BY <1>1, Bounds

\* A directory has finitely many files.
LEMMA ListedFinite ==
    ASSUME NEW d
    PROVE  /\ IsFiniteSet(Listed(d)) /\ Cardinality(Listed(d)) \in Nat
           /\ \A v : /\ IsFiniteSet({f \in Listed(d) : ReadAll(d, f) = v})
                     /\ Votes(d, v) \in Nat
                     /\ Votes(d, v) > 0 => \E f \in Listed(d) : ReadAll(d, f) = v
<1>1. IsFiniteSet({"file", "temp"}) /\ IsFiniteSet(Files)
  <2>1. {"file", "temp"} = {"file"} \cup {"temp"}
    OBVIOUS
  <2>2. IsFiniteSet({"file", "temp"})
    <3>1. IsFiniteSet({"file"})
      BY FS_Singleton
    <3> QED BY <2>1, <3>1, FS_AddElement
  <2> QED BY <2>2, FilesFinite
<1>2. IsFiniteSet({"file", "temp"} \X Files)
  BY <1>1, FS_Product
<1>3. Listed(d) \subseteq {"file", "temp"} \X Files
  BY ListedFacts
<1>4. IsFiniteSet(Listed(d))
  BY <1>2, <1>3, FS_Subset
<1>5. ASSUME NEW v
      PROVE  /\ IsFiniteSet({f \in Listed(d) : ReadAll(d, f) = v})
             /\ Votes(d, v) \in Nat
             /\ Votes(d, v) > 0 => \E f \in Listed(d) : ReadAll(d, f) = v
  <2>1. {f \in Listed(d) : ReadAll(d, f) = v} \in SUBSET Listed(d)
    OBVIOUS
  <2>2. IsFiniteSet({f \in Listed(d) : ReadAll(d, f) = v})
    BY <1>4, <2>1, FS_Subset
  <2>3. Votes(d, v) \in Nat
    BY <2>2, FS_CardinalityType DEF Votes
  <2>4. ASSUME ~ \E f \in Listed(d) : ReadAll(d, f) = v PROVE Votes(d, v) = 0
    <3>1. {f \in Listed(d) : ReadAll(d, f) = v} = {}
      BY <2>4
    <3> QED BY <3>1, FS_EmptySet DEF Votes
  <2> QED BY <2>2, <2>3, <2>4
<1> QED BY <1>4, <1>5, FS_CardinalityType

\* More than half of the files of a directory: at least one
LEMMA EnoughFacts ==
    ASSUME NEW d
    PROVE  /\ Enough(d) \in Nat /\ Enough(d) > 0
           /\ Cardinality(Listed(d)) \in {2, 3} => Enough(d) = 2
BY ListedFinite DEF Enough

\* The decision is a content of one of the files, or nothing.
LEMMA DecideKnown ==
    ASSUME NEW d, NEW S, Empty \in S, Only(S, dirs[d])
    PROVE  \A r \in Decide(d) : r.data \in S
<1> SUFFICES ASSUME NEW r \in Decide(d) PROVE r.data \in S
  OBVIOUS
<1>1. CASE r = Irretrievable
  BY <1>1 DEF Irretrievable
<1>2. CASE \E v \in Content : Votes(d, v) >= Enough(d) /\ r = Success(v)
  <2>1. PICK v \in Content : Votes(d, v) >= Enough(d) /\ r = Success(v)
    BY <1>2
  <2>2. PICK f \in Listed(d) : ReadAll(d, f) = v
    <3>1. Enough(d) \in Nat /\ Enough(d) > 0
      BY EnoughFacts
    <3>2. Votes(d, v) \in Nat /\ (Votes(d, v) > 0 => \E f \in Listed(d) : ReadAll(d, f) = v)
      BY ListedFinite
    <3> QED BY <2>1, <3>1, <3>2
  <2>3. /\ f[1] \in {"file", "temp"} /\ f[2] \in Files
        /\ f[1] = "file" => dirs[d].file[f[2]] # Absent
        /\ f[1] = "temp" => dirs[d].temp[f[2]] # Absent
    BY ListedFacts
  <2>4. ContentOf(d, f) \in S
    BY <2>3 DEF ContentOf, Only
  <2>5. v \in S
    BY <2>2, <2>4 DEF ReadAll
  <2> QED BY <2>1, <2>5 DEF Success
<1> QED BY <1>1, <1>2 DEF Decide

\* With at most one damaged file the two others outvote it.
LEMMA DecideMajority ==
    ASSUME NEW d, NEW v \in Values, dirs[d] \in Dir, Spoiled(dirs[d]),
           Complete(dirs[d], v), OneDamaged(dirs[d])
    PROVE  Decide(d) = {Success(v)}
<1>1. PICK k \in Files : dirs[d].damaged \subseteq {k}
  BY DEF OneDamaged
<1>2. PICK i \in Files, j \in Files : i # j /\ i # k /\ j # k /\ Files = {i, j, k}
  <2>1. k \in {0, 1, 2}
    BY Bounds
  <2>2. CASE k = 0
    <3>1. 1 \in Files /\ 2 \in Files /\ 1 # 2 /\ 1 # k /\ 2 # k /\ Files = {1, 2, k}
      BY <2>2, Bounds
    <3> QED BY <3>1
  <2>3. CASE k = 1
    <3>1. 0 \in Files /\ 2 \in Files /\ 0 # 2 /\ 0 # k /\ 2 # k /\ Files = {0, 2, k}
      BY <2>3, Bounds
    <3> QED BY <3>1
  <2>4. CASE k = 2
    <3>1. 0 \in Files /\ 1 \in Files /\ 0 # 1 /\ 0 # k /\ 1 # k /\ Files = {0, 1, k}
      BY <2>4, Bounds
    <3> QED BY <3>1
  <2> QED BY <2>1, <2>2, <2>3, <2>4
<1>3. /\ dirs[d].file[i] = v /\ dirs[d].file[j] = v
      /\ \A n \in Files : dirs[d].temp[n] = Absent
  BY <1>1, <1>2 DEF Complete, Holds
<1>4. v # Absent /\ v # Unreadable /\ v \in Content
  BY ContentAssumption DEF Content
<1>5. PICK a : a = <<"file", i>>
  OBVIOUS
<1>6. PICK b : b = <<"file", j>>
  OBVIOUS
<1>7. PICK c : c = <<"file", k>>
  OBVIOUS
<1>8. a # b /\ a # c /\ b # c
  BY <1>2, <1>5, <1>6, <1>7
<1>9. Listed(d) = {<<"file", n>> : n \in {m \in Files : dirs[d].file[m] # Absent}}
  BY <1>3 DEF Listed
<1>10. Listed(d) = {a, b} \/ Listed(d) = {a, b, c}
  <2>1. a \in Listed(d) /\ b \in Listed(d)
    BY <1>3, <1>4, <1>5, <1>6, <1>9
  <2>2. \A f \in Listed(d) : f = a \/ f = b \/ f = c
    BY <1>2, <1>5, <1>6, <1>7, <1>9
  <2> QED BY <2>1, <2>2
<1>11. Enough(d) = 2
  <2>1. Cardinality({a, b}) = 2 /\ Cardinality({a, b, c}) = 3
    BY <1>8, SmallSets
  <2>2. Cardinality(Listed(d)) \in {2, 3}
    BY <1>10, <2>1
  <2> QED BY <2>2, EnoughFacts
<1>12. ReadAll(d, a) = v /\ ReadAll(d, b) = v /\ ContentOf(d, a) = v
  BY <1>3, <1>4, <1>5, <1>6 DEF ReadAll, ContentOf
<1>13. Votes(d, v) >= 2
  <2>1. {a, b} \in SUBSET {f \in Listed(d) : ReadAll(d, f) = v}
    BY <1>10, <1>12
  <2>2. Cardinality({a, b}) = 2
    BY <1>8, SmallSets
  <2>3. IsFiniteSet({f \in Listed(d) : ReadAll(d, f) = v}) /\ Votes(d, v) \in Nat
    BY ListedFinite
  <2>4. Cardinality({a, b}) <= Votes(d, v)
    BY <2>1, <2>3, FS_Subset DEF Votes
  <2> QED BY <2>2, <2>3, <2>4
<1>14. ASSUME NEW w, w # v PROVE Votes(d, w) <= 1
  <2>1. {f \in Listed(d) : ReadAll(d, f) = w} \in SUBSET {c}
    BY <1>10, <1>12, <1>14
  <2>2. Cardinality({f \in Listed(d) : ReadAll(d, f) = w}) <= Cardinality({c})
    BY <2>1, FS_Subset, FS_Singleton
  <2> QED BY <2>2, FS_Singleton DEF Votes
<1>15. {w \in Content : Votes(d, w) >= Enough(d)} = {v}
  <2>1. ASSUME NEW w \in Content, Votes(d, w) >= Enough(d) PROVE w = v
    <3>1. Votes(d, w) \in Nat
      BY ListedFinite
    <3>2. Votes(d, w) > 1
      BY <1>11, <2>1, <3>1
    <3> QED BY <1>14, <3>1, <3>2
  <2> QED BY <1>4, <1>11, <1>13, <2>1
<1>16. ~ \A f \in Listed(d) : ContentOf(d, f) = Unreadable
  BY <1>4, <1>10, <1>12
<1> QED BY <1>15, <1>16 DEF Decide

\* getData caches its decision and removes empty directories.
LEMMA GetDataInv ==
    ASSUME DataInv, GetData
    PROVE  DataInv'
<1>1. /\ pc = "idle" /\ pc' = pc
      /\ UNCHANGED <<now, committed, attempted, shutdowns, failures, damages>>
  BY DEF GetData
<1>2. PICK d \in FirstInTimeOrder : \E r \in Decide(d) :
          /\ m_data' = r.data
          /\ dirs' = [e \in DirNames |->
                IF Exists(e) /\ e # d /\ Listed(e) = {} THEN NoDir ELSE dirs[e]]
  BY DEF GetData
<1>3. PICK r \in Decide(d) : m_data' = r.data
  BY <1>2
<1>4. Typed /\ OnlyKnown /\ Steady
  BY DEF DataInv
<1>5. d \in Present(dirs)
  BY DEF FirstInTimeOrder, Subdirs, Exists, Present
<1>6. /\ dirs' \in [DirNames -> Dir \cup {NoDir}]
      /\ \A e \in DirNames : dirs'[e] = dirs[e] \/ dirs'[e] = NoDir
      /\ dirs'[d] = dirs[d]
  <2>1. dirs \in [DirNames -> Dir \cup {NoDir}] /\ d \in DirNames
    BY <1>4, <1>5 DEF Typed, Present
  <2> QED BY <1>2, <2>1
<1>7. \A e \in Present(dirs') : e \in Present(dirs) /\ dirs'[e] = dirs[e]
  BY <1>6 DEF Present
<1>8. Typed'
  BY <1>1, <1>4, <1>6, <1>7 DEF Typed
<1>9. Running'
  BY <1>1 DEF Running
<1>10. OnlyKnown'
  <2> SUFFICES ASSUME damages = 0
               PROVE  /\ m_data' \in Known(committed, attempted)
                      /\ \A e \in Present(dirs') : Only(Known(committed, attempted), dirs'[e])
    BY <1>1 DEF OnlyKnown
  <2>1. Only(Known(committed, attempted), dirs[d]) /\ Empty \in Known(committed, attempted)
    BY <1>4, <1>5 DEF OnlyKnown, Known
  <2>2. r.data \in Known(committed, attempted)
    BY <2>1, DecideKnown
  <2> QED BY <1>3, <1>4, <1>7, <2>2 DEF OnlyKnown
<1>11. Steady'
  <2> SUFFICES ASSUME shutdowns = 0, failures = 0
               PROVE  \E e \in DirNames :
                        /\ committed \in Values /\ Present(dirs') = {e}
                        /\ Complete(dirs'[e], committed)
                        /\ OneDamaged(dirs'[e]) => m_data' \in {Empty, committed}
    BY <1>1 DEF Steady
  <2>1. /\ d \in DirNames /\ committed \in Values /\ Present(dirs) = {d}
        /\ Complete(dirs[d], committed)
    BY <1>1, <1>4, <1>5 DEF Steady, Present
  <2>2. Present(dirs') = {d}
    BY <1>5, <1>6, <1>7, <2>1 DEF Present
  <2>3. OneDamaged(dirs[d]) => m_data' = committed
    <3>1. dirs[d] \in Dir /\ Spoiled(dirs[d])
      BY <1>4, <1>5, PresentIsDir
    <3>2. OneDamaged(dirs[d]) => Decide(d) = {Success(committed)}
      BY <2>1, <3>1, DecideMajority
    <3> QED BY <1>3, <3>2 DEF Success
  <2> QED BY <1>6, <2>1, <2>2, <2>3
<1> QED BY <1>8, <1>9, <1>10, <1>11 DEF DataInv

-----------------------------------------------------------------------------
(* The environment *)

\* A file is damaged, also while putData runs.
LEMMA DamageInv ==
    ASSUME DataInv, Damage
    PROVE  DataInv'
<1>1. /\ damages' = damages + 1
      /\ UNCHANGED <<now, m_data, pc, put, committed, attempted, shutdowns, failures>>
  BY DEF Damage
<1>2. PICK d \in Subdirs, k \in Files, c \in Garbage \cup {Empty, Unreadable, Absent} :
          /\ dirs[d].file[k] \in Values
          /\ dirs' = [dirs EXCEPT ![d].file[k] = c, ![d].damaged = @ \cup {k}]
  BY DEF Damage
<1>3. Typed /\ Running /\ Steady
  BY DEF DataInv
<1>4. d \in Present(dirs) /\ d \in DirNames
  BY DEF Subdirs, Exists, Present
<1>5. PICK x \in Dir : x = dirs[d] /\ Spoiled(x)
  BY <1>3, <1>4, PresentIsDir
<1>6. PICK y : y = [[x EXCEPT !.file[k] = c] EXCEPT !.damaged = x.damaged \cup {k}]
  OBVIOUS
<1>7. /\ y \in Dir /\ y.damaged = x.damaged \cup {k} /\ y.temp = x.temp
      /\ \A j \in Files : y.file[j] = IF j = k THEN c ELSE x.file[j]
  BY <1>6 DEF Dir, Content
<1>8. dirs' = [dirs EXCEPT ![d] = y]
  <2>1. dirs \in [DirNames -> Dir \cup {NoDir}]
    BY <1>3 DEF Typed
  <2> QED BY <1>2, <1>4, <1>5, <1>6, <2>1 DEF Dir
<1>9. c \notin Values /\ Absent \notin Values
  BY ContentAssumption
<1>10. Spoiled(y)
  <2>1. x.damaged \subseteq Files
    BY DEF Dir
  <2> QED BY <1>5, <1>7, <1>9, <2>1 DEF Spoiled
<1>11. /\ dirs' \in [DirNames -> Dir \cup {NoDir}] /\ dirs'[d] = y
       /\ \A e \in DirNames : e # d => dirs'[e] = dirs[e]
       /\ Present(dirs') = Present(dirs)
       /\ \A e \in Present(dirs') : Spoiled(dirs'[e])
  <2>1. /\ dirs' \in [DirNames -> Dir \cup {NoDir}] /\ dirs'[d] = y
        /\ \A e \in DirNames : e # d => dirs'[e] = dirs[e]
        /\ Present(dirs') = Present(dirs) \cup {d}
        /\ \A e \in Present(dirs') : Spoiled(dirs'[e])
    BY <1>3, <1>4, <1>7, <1>8, <1>10, Replaced
  <2> QED BY <1>4, <2>1
<1>12. Typed'
  BY <1>1, <1>3, <1>11 DEF Typed
<1>13. \A v : Complete(x, v) => Complete(y, v)
  BY <1>7 DEF Complete, Holds
<1>14. Running'
  <2> SUFFICES ASSUME pc # "idle"
               PROVE  /\ pc = "open" => Opening(dirs'[put.dir], put.k)
                      /\ pc \in {"write", "commit"} => Writing(dirs'[put.dir], put.k, put.bytes)
                      /\ pc = "remove" => Complete(dirs'[put.dir], put.bytes)
    BY <1>1, <1>3, <1>11 DEF Running
  <2>1. /\ pc = "open" => Opening(dirs[put.dir], put.k)
        /\ pc \in {"write", "commit"} => Writing(dirs[put.dir], put.k, put.bytes)
        /\ pc = "remove" => Complete(dirs[put.dir], put.bytes)
        /\ put.dir \in DirNames /\ put.k \in Files
    BY <1>3 DEF Running
  <2>2. CASE put.dir # d
    BY <1>11, <2>1, <2>2
  <2>3. CASE put.dir = d
    <3>1. x.file[k] # Absent
      BY <1>2, <1>5, <1>9
    <3>2. ~Opening(x, put.k)
      BY <3>1 DEF Opening
    <3>3. ASSUME Writing(x, put.k, put.bytes) PROVE Writing(y, put.k, put.bytes)
      <4>1. k < put.k
        BY <2>1, <3>1, <3>3, Bounds DEF Writing
      <4> QED BY <1>7, <2>1, <3>3, <4>1, Bounds DEF Writing, Holds
    <3> QED BY <1>5, <1>11, <1>13, <2>1, <2>3, <3>2, <3>3
  <2> QED BY <2>2, <2>3
<1>15. OnlyKnown'
  BY <1>1, <1>3 DEF OnlyKnown, Typed
<1>16. Steady'
  <2> SUFFICES ASSUME pc = "idle", shutdowns = 0, failures = 0
               PROVE  \E e \in DirNames :
                        /\ committed \in Values /\ Present(dirs') = {e}
                        /\ Complete(dirs'[e], committed)
                        /\ OneDamaged(dirs'[e]) => m_data \in {Empty, committed}
    BY <1>1 DEF Steady
  <2>1. /\ committed \in Values /\ Present(dirs) = {d} /\ Complete(x, committed)
        /\ OneDamaged(x) => m_data \in {Empty, committed}
    BY <1>3, <1>4, <1>5 DEF Steady
  <2>2. OneDamaged(y) => OneDamaged(x)
    BY <1>7 DEF OneDamaged
  <2> QED BY <1>4, <1>11, <1>13, <2>1, <2>2
<1> QED BY <1>12, <1>14, <1>15, <1>16 DEF DataInv

\* The device is shut down, the object is made anew, or time passes.
LEMMA OtherInv ==
    ASSUME DataInv, ShutDown \/ Reopen \/ Tick \/ UNCHANGED vars
    PROVE  DataInv'
<1>1. Typed /\ Running /\ OnlyKnown /\ Steady
  BY DEF DataInv
<1>2. CASE ShutDown
  <2>1. /\ shutdowns' = shutdowns + 1 /\ pc' = "idle" /\ m_data' = Empty
        /\ UNCHANGED <<dirs, now, committed, attempted, failures, damages>>
    BY <1>2 DEF ShutDown
  <2>2. Typed'
    BY <1>1, <2>1 DEF Typed
  <2>3. Running' /\ Steady'
    BY <1>1, <2>1 DEF Running, Steady, Typed
  <2>4. OnlyKnown'
    BY <1>1, <2>1 DEF OnlyKnown, Known
  <2> QED BY <2>2, <2>3, <2>4 DEF DataInv
<1>3. CASE Reopen
  <2>1. /\ m_data' = Empty
        /\ UNCHANGED <<dirs, now, pc, put, committed, attempted, shutdowns, failures, damages>>
    BY <1>3 DEF Reopen
  <2>2. Typed' /\ Running'
    BY <1>1, <2>1 DEF Typed, Running
  <2>3. OnlyKnown' /\ Steady'
    BY <1>1, <2>1 DEF OnlyKnown, Known, Steady
  <2> QED BY <2>2, <2>3 DEF DataInv
<1>4. CASE Tick
  <2>1. /\ now < MaxTime /\ now' = now + 1
        /\ UNCHANGED <<dirs, m_data, pc, put, committed, attempted, shutdowns, failures, damages>>
    BY <1>4 DEF Tick
  <2>2. now' \in 0 .. MaxTime
    BY <1>1, <2>1, Bounds DEF Typed
  <2>3. Typed' /\ Running'
    BY <1>1, <2>1, <2>2 DEF Typed, Running
  <2>4. OnlyKnown' /\ Steady'
    BY <1>1, <2>1 DEF OnlyKnown, Steady
  <2> QED BY <2>3, <2>4 DEF DataInv
<1>5. CASE UNCHANGED vars
  BY <1>1, <1>5 DEF vars, Typed, Running, OnlyKnown, Steady, DataInv
<1> QED BY <1>2, <1>3, <1>4, <1>5

-----------------------------------------------------------------------------
(* The theorems *)

\* The invariant holds in every state of every behaviour.
THEOREM DataInvAlways == Spec => []DataInv
<1>1. Init => DataInv
  <2> SUFFICES ASSUME Init PROVE DataInv
    OBVIOUS
  <2>1. dirs \in [DirNames -> Dir \cup {NoDir}] /\ Present(dirs) = {}
    BY DEF Init, Present
  <2>2. Typed
    BY <2>1, Bounds DEF Init, Typed
  <2> QED BY <2>1, <2>2 DEF Init, Running, OnlyKnown, Known, Steady, DataInv
<1>2. DataInv /\ [Next]_vars => DataInv'
  BY GetDataInv, MakeDirectoryInv, OpenFileInv, WriteFileInv, CommitFileInv, RemoveFileInv,
     RemoveDirectoryInv, ReturnSuccessInv, ReturnErrorInv, DamageInv, OtherInv
     DEF Next, PutData
<1> QED BY <1>1, <1>2, PTL DEF Spec

\* At most one damaged file: OneDamaged says what the property counts.
LEMMA OneDamagedCounted ==
    ASSUME NEW x \in Dir, Cardinality(x.damaged) <= 1
    PROVE  OneDamaged(x)
<1> SUFFICES ASSUME ~OneDamaged(x) PROVE FALSE
  OBVIOUS
<1>1. x.damaged \in SUBSET Files /\ 0 \in Files
  BY Bounds DEF Dir
<1>2. PICK i \in x.damaged : i # 0
  BY <1>1 DEF OneDamaged
<1>3. PICK j \in x.damaged : j # i
  BY <1>1, <1>2 DEF OneDamaged
<1>4. IsFiniteSet(x.damaged)
  BY <1>1, FilesFinite, FS_Subset
<1>5. Cardinality({i, j}) = 2 /\ {i, j} \in SUBSET x.damaged
  BY <1>2, <1>3, SmallSets
<1>6. Cardinality({i, j}) <= Cardinality(x.damaged) /\ Cardinality(x.damaged) \in Nat
  BY <1>4, <1>5, FS_Subset, FS_CardinalityType
<1> QED BY <1>5, <1>6

\* While no putData was cut short, getData returns what the last one stored,
\* whichever single file has been damaged (dataprotector.cpp: getData takes the
\* majority of the files).
THEOREM AlwaysReadsLastPut == Spec => []ReadsLastPut
<1>1. DataInv => ReadsLastPut
  <2> SUFFICES ASSUME DataInv, pc = "idle", shutdowns = 0, failures = 0,
                      \A d \in Subdirs : Cardinality(dirs[d].damaged) <= 1
               PROVE  Answers = {Success(committed)}
    BY DEF ReadsLastPut
  <2>1. Typed /\ Steady /\ Subdirs = Present(dirs)
    BY DEF DataInv, Subdirs, Exists, Present
  <2>2. CASE committed = Empty /\ Present(dirs) = {} /\ m_data = Empty
    BY <2>1, <2>2 DEF Answers
  <2>3. ASSUME NEW d \in DirNames, committed \in Values, Present(dirs) = {d},
               Complete(dirs[d], committed),
               OneDamaged(dirs[d]) => m_data \in {Empty, committed}
        PROVE  Answers = {Success(committed)}
    <3>1. dirs[d] \in Dir /\ Spoiled(dirs[d])
      BY <2>1, <2>3, PresentIsDir
    <3>2. OneDamaged(dirs[d])
      BY <2>1, <2>3, <3>1, OneDamagedCounted
    <3>3. Decide(d) = {Success(committed)}
      BY <2>3, <3>1, <3>2, DecideMajority
    <3>4. FirstInTimeOrder = {d}
      <4>1. dirs[d].mtime \in Nat
        BY <3>1 DEF Dir
      <4> QED BY <2>1, <2>3, <4>1 DEF FirstInTimeOrder
    <3>5. UNION {Decide(e) : e \in FirstInTimeOrder} = {Success(committed)}
      BY <3>3, <3>4
    <3> QED BY <2>1, <2>3, <3>2, <3>5 DEF Answers
  <2> QED BY <2>1, <2>2, <2>3 DEF Steady
<1> QED BY <1>1, DataInvAlways, PTL

\* Without damage, getData answers with the value last stored, with one which a
\* putData cut short was writing since, or with nothing (dataprotector.cpp:
\* putData writes a directory of its own and removes the others last).
THEOREM NeverAnOlderValue == Spec => []NoOlderValue
<1>1. DataInv => NoOlderValue
  <2> SUFFICES ASSUME DataInv, damages = 0, NEW r \in Answers
               PROVE  r.data \in {committed, Empty} \cup attempted
    BY DEF NoOlderValue
  <2>1. /\ m_data \in Known(committed, attempted)
        /\ \A d \in Present(dirs) : Only(Known(committed, attempted), dirs[d])
    BY DEF DataInv, OnlyKnown
  <2>2. CASE r \in {Success(m_data), Success(Empty)}
    BY <2>1, <2>2 DEF Success, Known
  <2>3. ASSUME NEW d \in FirstInTimeOrder, r \in Decide(d)
        PROVE  r.data \in {committed, Empty} \cup attempted
    <3>1. d \in Present(dirs)
      BY DEF FirstInTimeOrder, Subdirs, Exists, Present
    <3>2. r.data \in Known(committed, attempted)
      BY <2>1, <2>3, <3>1, DecideKnown DEF Known
    <3> QED BY <3>2 DEF Known
  <2> QED BY <2>2, <2>3 DEF Answers
<1> QED BY <1>1, DataInvAlways, PTL

\* A putData that returns Success leaves one directory, with the new value in
\* all of its undamaged files and no temporary file, whatever was cut short
\* before (dataprotector.cpp: removal of the old directories).
THEOREM PutAlwaysRepairs == Spec => PutRepairs
<1>1. DataInv => (ReturnSuccess =>
        /\ Subdirs' = {put.dir}
        /\ \A k \in Files \ dirs[put.dir].damaged : dirs'[put.dir].file[k] = put.bytes
        /\ \A k \in Files : dirs'[put.dir].temp[k] = Absent)
  <2> SUFFICES ASSUME DataInv, ReturnSuccess
               PROVE  /\ Subdirs' = {put.dir}
                      /\ \A k \in Files \ dirs[put.dir].damaged :
                            dirs'[put.dir].file[k] = put.bytes
                      /\ \A k \in Files : dirs'[put.dir].temp[k] = Absent
    OBVIOUS
  <2>1. pc = "remove" /\ put.old = {} /\ dirs' = dirs
    BY DEF ReturnSuccess
  <2>2. Present(dirs) = {put.dir} /\ Complete(dirs[put.dir], put.bytes)
    BY <2>1 DEF DataInv, Running
  <2>3. Subdirs' = Present(dirs)
    BY <2>1 DEF Subdirs, Exists, Present
  <2> QED BY <2>1, <2>2, <2>3 DEF Complete, Holds
<1> QED BY <1>1, DataInvAlways, PTL DEF PutRepairs
=============================================================================
