--------------------------- MODULE DataProtector ---------------------------
(***************************************************************************)
(* The redundant store that keeps the daemon's salt and its lock code test *)
(* (SecretsImpl/dataprotector.cpp).  A value is kept as three equal files  *)
(* in one directory; putData writes a new directory and then removes the   *)
(* old ones; getData picks a directory and takes the majority of its       *)
(* files.                                                                  *)
(*                                                                         *)
(* putData is modelled step by step on the file system, so that the device *)
(* can shut down, or a system call can fail, between any two of its steps. *)
(* The order in which QDir lists directories, and the temporary file of a  *)
(* QSaveFile, are Qt's: QDir::Time lists the most recently modified entry  *)
(* first (entries of the same second in any order), and a QSaveFile is a   *)
(* listed file of its directory until it is committed or discarded.        *)
(***************************************************************************)
EXTENDS Naturals, FiniteSets

CONSTANTS
    Values,          \* the non-empty byte arrays callers store
    Garbage,         \* what a damaged file may hold instead
    Empty,           \* the empty byte array
    Unreadable,      \* a file that can be listed but not opened
    DirNames,        \* names of data directories (UUIDs in the code)
    MaxTime,         \* bound on the clock, in seconds
    MaxShutdowns,    \* bound on the shutdowns while data is written
    MaxFailures,     \* bound on the system calls that fail
    MaxDamage        \* bound on the files damaged on the flash

Absent == "absent"                       \* no such file

ASSUME ContentAssumption ==
    /\ Values \cap Garbage = {}
    /\ Empty # Unreadable
    /\ {Empty, Unreadable} \cap (Values \cup Garbage) = {}
    /\ Absent \notin Values \cup Garbage \cup {Empty, Unreadable}
ASSUME BoundsAssumption ==
    {MaxTime, MaxShutdowns, MaxFailures, MaxDamage} \subseteq Nat

VARIABLES
    dirs,        \* dirs[d]: the directory called d, or NoDir
    now,         \* the clock that stamps modifications
    m_data,      \* the cached value
    pc,          \* where putData is, "idle" when it is not running
    put,         \* the locals of the running putData
    committed,   \* history: the value of the last putData that returned Success
    attempted,   \* history: the values given to putData since then
    shutdowns, failures, damages   \* history: how many there were

vars == <<dirs, now, m_data, pc, put, committed, attempted, shutdowns, failures, damages>>
-----------------------------------------------------------------------------
Files == 0 .. 2                          \* file0, file1, file2
Content == Values \cup Garbage \cup {Empty, Unreadable}

\* file[k] is the file, temp[k] the temporary file of its QSaveFile, damaged
\* the files that were damaged since they were written.
Dir == [file : [Files -> Content \cup {Absent}],
        temp : [Files -> Values \cup {Empty, Absent}],
        damaged : SUBSET Files, mtime : 0 .. MaxTime]
NoDir == [mtime |-> 0]

Exists(d) == dirs[d] # NoDir
Subdirs == {d \in DirNames : Exists(d)}

NewDir == [file |-> [k \in Files |-> Absent], temp |-> [k \in Files |-> Absent],
           damaged |-> {}, mtime |-> now]

\* The files QDir::Files lists in directory d, as (kind, number) pairs.
Listed(d) == {<<"file", k>> : k \in {j \in Files : dirs[d].file[j] # Absent}}
        \cup {<<"temp", k>> : k \in {j \in Files : dirs[d].temp[j] # Absent}}

ContentOf(d, f) == IF f[1] = "file" THEN dirs[d].file[f[2]] ELSE dirs[d].temp[f[2]]

\* readAll on a file that could not be opened yields nothing.
ReadAll(d, f) == IF ContentOf(d, f) = Unreadable THEN Empty ELSE ContentOf(d, f)

\* Creating, renaming or removing an entry of a directory stamps it.
Touched(dir) == [dir EXCEPT !.mtime = now]
-----------------------------------------------------------------------------
(* getData. *)

\* The directories that may be listed first.
FirstInTimeOrder == {d \in Subdirs : \A e \in Subdirs : dirs[e].mtime <= dirs[d].mtime}

Votes(d, v) == Cardinality({f \in Listed(d) : ReadAll(d, f) = v})

\* minimumValidOccourences
Enough(d) == Cardinality(Listed(d)) \div 2 + 1

Success(v) == [status |-> "Success", data |-> v]
Irretrievable == [status |-> "Irretrievable", data |-> Empty]

\* The majority decision over the files of directory d.  std::remove_if only
\* permutes the contents (nothing is erased), so empty files vote too.
Decide(d) ==
    LET winners == {v \in Content : Votes(d, v) >= Enough(d)} IN
    IF \/ \A f \in Listed(d) : ContentOf(d, f) = Unreadable
       \/ winners = {}
    THEN {Irretrievable}
    ELSE {Success(v) : v \in winners}

\* What getData can answer in this state.
Answers ==
    IF m_data # Empty THEN {Success(m_data)}
    ELSE IF Subdirs = {} THEN {Success(Empty)}
    ELSE UNION {Decide(d) : d \in FirstInTimeOrder}

\* The other directories are removed with rmdir, which only succeeds on those
\* that hold no files.
GetData ==
    /\ pc = "idle" /\ m_data = Empty /\ Subdirs # {}
    /\ \E d \in FirstInTimeOrder : \E r \in Decide(d) :
          /\ m_data' = r.data
          /\ dirs' = [e \in DirNames |->
                IF Exists(e) /\ e # d /\ Listed(e) = {} THEN NoDir ELSE dirs[e]]
    /\ UNCHANGED <<now, pc, put, committed, attempted, shutdowns, failures, damages>>
-----------------------------------------------------------------------------
NoPut == [dir |-> "none", bytes |-> Empty, old |-> {}, k |-> 0]

Init ==
    /\ dirs = [d \in DirNames |-> NoDir]
    /\ now = 0
    /\ m_data = Empty
    /\ pc = "idle"
    /\ put = NoPut
    /\ committed = Empty
    /\ attempted = {}
    /\ shutdowns = 0 /\ failures = 0 /\ damages = 0
-----------------------------------------------------------------------------
(* putData, one step per file system operation. *)

\* Mutation: one old directory is left out of the list.
OldDirectoriesButNewest == Subdirs \ FirstInTimeOrder

\* The directories found before the new one is made; removed at the end.
OldDirectories == Subdirs

\* mkpath, listing the old directories, mkdir.
MakeDirectory(bytes) ==
    /\ pc = "idle"
    /\ \E d \in DirNames \ Subdirs :
          /\ dirs' = [dirs EXCEPT ![d] = NewDir]
          /\ put' = [dir |-> d, bytes |-> bytes, old |-> OldDirectories, k |-> 0]
    /\ attempted' = attempted \cup {bytes}
    /\ pc' = "open"
    /\ UNCHANGED <<now, m_data, committed, shutdowns, failures, damages>>

OpenFile ==
    /\ pc = "open"
    /\ dirs' = [dirs EXCEPT ![put.dir] = Touched([@ EXCEPT !.temp[put.k] = Empty])]
    /\ \/ put.k < 2 /\ put' = [put EXCEPT !.k = @ + 1] /\ pc' = "open"
       \/ put.k = 2 /\ put' = [put EXCEPT !.k = 0] /\ pc' = "write"
    /\ UNCHANGED <<now, m_data, committed, attempted, shutdowns, failures, damages>>

WriteFile ==
    /\ pc = "write"
    /\ dirs' = [dirs EXCEPT ![put.dir].temp[put.k] = put.bytes]
    /\ pc' = "commit"
    /\ UNCHANGED <<now, m_data, put, committed, attempted, shutdowns, failures, damages>>

CommitFile ==
    /\ pc = "commit"
    /\ dirs' = [dirs EXCEPT ![put.dir] = Touched(
            [@ EXCEPT !.temp[put.k] = Absent, !.file[put.k] = put.bytes])]
    /\ \/ put.k < 2 /\ put' = [put EXCEPT !.k = @ + 1] /\ pc' = "write"
       \/ put.k = 2 /\ put' = [put EXCEPT !.k = 0] /\ pc' = "remove"
    /\ UNCHANGED <<now, m_data, committed, attempted, shutdowns, failures, damages>>

\* removeRecursively deletes an old directory's files and then the directory.
RemoveFile ==
    /\ pc = "remove"
    /\ \E d \in put.old : \E f \in Listed(d) :
          dirs' = [dirs EXCEPT ![d] = Touched(
                IF f[1] = "file" THEN [@ EXCEPT !.file[f[2]] = Absent]
                                 ELSE [@ EXCEPT !.temp[f[2]] = Absent])]
    /\ UNCHANGED <<now, m_data, pc, put, committed, attempted, shutdowns, failures, damages>>

RemoveDirectory ==
    /\ pc = "remove"
    /\ \E d \in put.old :
          /\ Listed(d) = {}
          /\ dirs' = [dirs EXCEPT ![d] = NoDir]
          /\ put' = [put EXCEPT !.old = @ \ {d}]
    /\ UNCHANGED <<now, m_data, pc, committed, attempted, shutdowns, failures, damages>>

\* Mutation: the cached value is not cleared.
ReturnSuccessKeepsCache ==
    /\ pc = "remove" /\ put.old = {}
    /\ committed' = put.bytes
    /\ attempted' = {}
    /\ pc' = "idle" /\ put' = NoPut
    /\ UNCHANGED <<dirs, now, m_data, shutdowns, failures, damages>>

ReturnSuccess ==
    /\ pc = "remove" /\ put.old = {}
    /\ m_data' = Empty
    /\ committed' = put.bytes
    /\ attempted' = {}
    /\ pc' = "idle" /\ put' = NoPut
    /\ UNCHANGED <<dirs, now, shutdowns, failures, damages>>

\* An operation of the running putData fails: it returns an error, and the
\* QSaveFiles not committed are discarded by their destructors.
ReturnError ==
    /\ pc \in {"open", "write", "commit", "remove"}
    /\ pc = "remove" => put.old # {}
    /\ failures < MaxFailures
    /\ failures' = failures + 1
    /\ dirs' = IF \E k \in Files : dirs[put.dir].temp[k] # Absent
               THEN [dirs EXCEPT ![put.dir] =
                        Touched([@ EXCEPT !.temp = [k \in Files |-> Absent]])]
               ELSE dirs
    /\ pc' = "idle" /\ put' = NoPut
    /\ UNCHANGED <<now, m_data, committed, attempted, shutdowns, damages>>
-----------------------------------------------------------------------------
(* The environment. *)

\* The device shuts down in the middle of putData; what is on disk stays.
ShutDown ==
    /\ pc # "idle"
    /\ shutdowns < MaxShutdowns
    /\ shutdowns' = shutdowns + 1
    /\ pc' = "idle" /\ put' = NoPut
    /\ m_data' = Empty
    /\ UNCHANGED <<dirs, now, committed, attempted, failures, damages>>

\* The object is created anew (the daemon makes one per use).
Reopen ==
    /\ pc = "idle" /\ m_data # Empty
    /\ m_data' = Empty
    /\ UNCHANGED <<dirs, now, pc, put, committed, attempted, shutdowns, failures, damages>>

\* A flash block of one file goes bad: the file is lost, cut, garbled or
\* cannot be opened any more.
Damage ==
    /\ \E d \in Subdirs : \E k \in Files, c \in Garbage \cup {Empty, Unreadable, Absent} :
          /\ dirs[d].file[k] \in Values
          /\ dirs' = [dirs EXCEPT ![d].file[k] = c, ![d].damaged = @ \cup {k}]
    /\ damages < MaxDamage
    /\ damages' = damages + 1
    /\ UNCHANGED <<now, m_data, pc, put, committed, attempted, shutdowns, failures>>

Tick ==
    /\ now < MaxTime
    /\ now' = now + 1
    /\ UNCHANGED <<dirs, m_data, pc, put, committed, attempted, shutdowns, failures, damages>>

PutData ==
    \/ \E bytes \in Values : MakeDirectory(bytes)
    \/ OpenFile \/ WriteFile \/ CommitFile
    \/ RemoveFile \/ RemoveDirectory
    \/ ReturnSuccess \/ ReturnError

Next == GetData \/ PutData \/ ShutDown \/ Reopen \/ Damage \/ Tick

Spec == Init /\ [][Next]_vars
-----------------------------------------------------------------------------
(* Properties. *)

TypeOK ==
    /\ \A d \in DirNames : Exists(d) => dirs[d] \in Dir
    /\ now \in 0 .. MaxTime
    /\ m_data \in Values \cup Garbage \cup {Empty}
    /\ pc \in {"idle", "open", "write", "commit", "remove"}
    /\ put \in [dir : DirNames \cup {"none"}, bytes : Values \cup {Empty},
                old : SUBSET DirNames, k : Files]
    /\ committed \in Values \cup {Empty}

\* While no putData was cut short, getData returns what the last one stored,
\* from the cache or from disk, whichever single file has been damaged.
ReadsLastPut ==
    /\ pc = "idle" /\ shutdowns = 0 /\ failures = 0
    /\ \A d \in Subdirs : Cardinality(dirs[d].damaged) <= 1
    => Answers = {Success(committed)}

\* Whatever shutdowns and failures came before, a putData that returns Success
\* leaves one directory, with three files of the new value and no temporary
\* ones: every trace of earlier, interrupted writes is gone.
PutRepairs ==
    [][ReturnSuccess =>
        /\ Subdirs' = {put.dir}
        /\ \A k \in Files \ dirs[put.dir].damaged :
              dirs'[put.dir].file[k] = put.bytes
        /\ \A k \in Files : dirs'[put.dir].temp[k] = Absent]_vars

\* Shutdowns and failing writes bring no older value back: without damage,
\* getData answers with the value last stored, with one that a putData cut
\* short was writing since, or with nothing.
NoOlderValue ==
    /\ pc = "idle"
    /\ damages = 0
    => \A r \in Answers : r.data \in {committed, Empty} \cup attempted

\* "What we want to protect from: When the device shuts down while writing new
\* data" (dataprotector.cpp:23): after a shutdown in putData, getData still
\* returns the old value or the new one, never Irretrievable or nothing.
SurvivesShutdown ==
    pc = "idle" /\ failures = 0 /\ committed # Empty
    => \A r \in Answers : r.status = "Success" /\ r.data \in Values
=============================================================================
