----------------------------- MODULE MasterLock -----------------------------
(***************************************************************************)
(* The master lock of the daemon: the lock code, the keys derived from it  *)
(* (SecretsImpl/secrets.cpp), and the lock code requests which lock,       *)
(* unlock and re-encrypt every storage plugin's metadata database and its  *)
(* device-locked data (SecretsImpl/secretsrequestprocessor.cpp,            *)
(* pluginfunctionwrappers.cpp, metadatadb.cpp).                            *)
(*                                                                         *)
(* The lock code requests run in the main thread, and wait for every job   *)
(* they give to the one thread of the secrets pool.  So they exclude each  *)
(* other, but jobs which other requests queued before run first, and the   *)
(* daemon can stop between the jobs of a request.                          *)
(*                                                                         *)
(* Key derivation is a fixed injective function of the code: a key is      *)
(* represented by its code.  Each plugin keeps at most one collection, for *)
(* all of its device-locked data.  The stored lock code test is one value; *)
(* what a failing or an interrupted write leaves of it is what module      *)
(* DataProtector shows of putData.                                         *)
(***************************************************************************)
EXTENDS Naturals

CONSTANTS
    Codes,             \* lock codes the user may enter
    EmptyCode,         \* the empty lock code, one of Codes
    DummyCode,         \* the code forgetLockCode derives keys from
    TornKey,           \* a key read while it is being overwritten
    Unreadable,        \* a stored test without a majority (Irretrievable)
    Null,              \* no key, no file, no code, no request
    Plugins,           \* storage and encrypted storage plugins
    Requests,          \* requests which may be waiting for the user
    MaxCrashes,        \* bound on the times the daemon is stopped
    MaxFailures        \* bound on the writes that fail

ASSUME CodesAssumption ==
    /\ EmptyCode \in Codes
    /\ {DummyCode, TornKey, Unreadable, Null} \cap Codes = {}
    /\ DummyCode # TornKey /\ DummyCode # Null /\ TornKey # Null
    /\ Unreadable \notin {DummyCode, TornKey, Null}
    /\ "lost" \notin Codes \cup {Null, Unreadable}
ASSUME BoundAssumption == {MaxCrashes, MaxFailures} \subseteq Nat

VARIABLES
    testCode,     \* the code of the stored test cipher text, Null if none,
                  \* or Unreadable
    dbKey,        \* the key each plugin's metadata database is encrypted with
    dataKey,      \* the key each plugin's device-locked data is encrypted with
    m_locked, m_noLockCode,
    keyData,      \* the cached keys (m_bkdbLockKeyData, m_deviceLockKeyData)
    connKey,      \* the key of the open metadata connection, Null if closed
    jobs,         \* the plugins with a createCollection job in the pool
    m_pendingRequests, \* what each request waiting for the user is about
    op,           \* the lock code request the main thread is executing
    crashes, failures, \* history: how many there were
    testFailed,   \* history: the stored test was replaced by a write that was
                  \* reported as failed, and the keys have not followed yet
    mixedWith     \* history: see Mixed

vars == <<testCode, dbKey, dataKey, m_locked, m_noLockCode, keyData, connKey,
          jobs, m_pendingRequests, op, crashes, failures, testFailed, mixedWith>>
disk == <<testCode, dbKey, dataKey>>
lock == <<m_locked, m_noLockCode, keyData>>
history == <<crashes, failures, testFailed, mixedWith>>
-----------------------------------------------------------------------------
Keys == Codes \cup {DummyCode, TornKey}

\* Mutation: the copy of the old key is shallow, and changes with the cache.
OldKeyShallow(new) == new

\* The deep copy of the cached keys, taken before they are replaced.
OldKey(new) == keyData

\* What the main thread is doing.  op.old is what the cached keys were before
\* the request, op.was the code of the stored test; op.dbs and op.data are the
\* plugins whose metadata database, and whose device-locked data, it has yet to
\* process, op.failed those whose job failed.
NoOp == [kind |-> "none", old |-> Null, was |-> Null, new |-> Null, dbs |-> {},
         data |-> {}, failed |-> {}]
Off == [NoOp EXCEPT !.kind = "off"]            \* the daemon is not running
Op(kind, new, data) ==
    [kind |-> kind, old |-> OldKey(new), was |-> testCode, new |-> new,
     dbs |-> Plugins, data |-> data, failed |-> {}]

Prompts == {Null} \cup [asks : {"code", "oldCode"}, old : {Null}]
                  \cup [asks : {"newCode"}, old : Codes]

Idle == op = NoOp
PoolFree == jobs = {}

\* isMasterLocked: closed, or opened with a key that is not the right one.
IsMasterLocked(p) == connKey[p] = Null \/ connKey[p] # dbKey[p]

\* Mutation: a missing file is not created.
OpensExistingOnly(p, key) ==
    key # Null /\ (connKey[p] # Null \/ dbKey[p] = key)

\* MetadataDatabase::unlock: the connection uses the key (given to the open
\* connection, or to a new one).  Opening fails with a wrong key and with no
\* key at all; opening a missing file creates it with the key.
Opens(p, key) ==
    key # Null /\ (connKey[p] # Null \/ dbKey[p] \in {Null, key})
ConnUnlocked(p, key) == IF Opens(p, key) THEN key ELSE connKey[p]
FileUnlocked(p, key) ==
    IF Opens(p, key) /\ dbKey[p] = Null THEN key ELSE dbKey[p]

\* History: the keys on disk are those of the stored code (Null); or some are
\* those of another code, and changing the code to that one makes all agree
\* (this code); or neither ("lost").
\*
\* What a change of the code leaves, when it is done or cut short.  In a locked
\* daemon (op.old # op.was) it re-encrypts nothing.
Mixed(done) ==
    IF op.old = op.new THEN mixedWith
    ELSE IF op.failed # {} THEN "lost"
    ELSE IF op.was = op.new THEN mixedWith
    ELSE IF op.old = op.was /\ done /\ mixedWith \in {Null, op.new} THEN Null
    ELSE IF mixedWith = Null THEN op.was ELSE "lost"

\* The stored test becomes another one, and no key follows.
MixedByTest(test) ==
    IF test = testCode THEN mixedWith
    ELSE IF testCode \in Codes
         THEN (IF mixedWith = Null THEN testCode ELSE "lost")
    ELSE IF mixedWith = test THEN Null ELSE mixedWith
-----------------------------------------------------------------------------
(* SecretsRequestQueue::testLockCode and initialize. *)

TestLockCode(code) == testCode = code

\* Mutation: any code passes.
CompareTestCipherTextAny(code) == code \in Codes

\* compareTestCipherText(..., writeIfNotExists = true)
CompareTestCipherText(code) == testCode \in {Null, code}

\* What can be read after putData(code) reported an error: it fails before,
\* between and after the three files, and while it removes the old ones.
LeftByFailure(code) == {testCode, code, Unreadable}

\* After a stop in putData, empty files of the new directory may win too.
LeftByStop(code) == LeftByFailure(code) \cup {Null}

\* initialize(code, UnlockMode), after the comparison, and initialize(code,
\* ModifyLockMode), after the test cipher text was written.
Initialize(code) ==
    /\ keyData' = code
    /\ m_locked' = FALSE
    /\ m_noLockCode' = (code = EmptyCode)
    /\ testFailed' = FALSE

InitializeUnlock(code) ==
    /\ testCode' = IF testCode = Null THEN code ELSE testCode
    /\ Initialize(code)

InitializeModify(code) == testCode' = code /\ Initialize(code)

\* initialize("ff...f", LockMode)
InitializeLock ==
    /\ keyData' = DummyCode
    /\ m_locked' = TRUE
    /\ UNCHANGED <<testCode, m_noLockCode, testFailed>>
-----------------------------------------------------------------------------
\* The first start is to come: nothing is on disk.
Init ==
    /\ testCode = Null
    /\ dbKey = [p \in Plugins |-> Null]
    /\ dataKey = [p \in Plugins |-> Null]
    /\ m_locked = TRUE /\ m_noLockCode = FALSE /\ keyData = Null
    /\ connKey = [p \in Plugins |-> Null]
    /\ jobs = {}
    /\ m_pendingRequests = [r \in Requests |-> Null]
    /\ op = Off
    /\ crashes = 0 /\ failures = 0
    /\ testFailed = FALSE
    /\ mixedWith = Null

\* The controller tries the empty code.  If it is right, or no test is stored,
\* every plugin's metadata database is opened (initializePlugins).
Start ==
    /\ op = Off
    /\ \/ /\ CompareTestCipherText(EmptyCode)
          /\ InitializeUnlock(EmptyCode)
          /\ op' = Op("unlock", EmptyCode, {})
          /\ mixedWith' = MixedByTest(EmptyCode)
          /\ UNCHANGED failures
       \/ /\ ~CompareTestCipherText(EmptyCode)
          /\ op' = NoOp
          /\ UNCHANGED <<testCode, lock, testFailed, failures, mixedWith>>
       \/ /\ testCode = Null /\ failures < MaxFailures
          /\ failures' = failures + 1
          /\ op' = NoOp
          /\ testCode' \in LeftByFailure(EmptyCode)
          /\ mixedWith' = MixedByTest(testCode')
          /\ UNCHANGED <<lock, testFailed>>
    /\ UNCHANGED <<dbKey, dataKey, connKey, jobs, m_pendingRequests, crashes>>

\* The codes whose test is written by what the daemon does next.
Writing ==
    {code \in Codes :
        \/ op = Off /\ testCode = Null /\ code = EmptyCode
        \/ Idle /\ \E r \in Requests :
              /\ m_pendingRequests[r] # Null
              /\ m_pendingRequests[r].asks = "newCode"
              /\ TestLockCode(m_pendingRequests[r].old)}

\* The daemon is stopped: at any point of a request, also while it writes the
\* test of a code.
Stop ==
    /\ crashes < MaxCrashes
    /\ crashes' = crashes + 1
    /\ \/ /\ op # Off
          /\ mixedWith' = IF op.kind = "modify" THEN Mixed(FALSE) ELSE mixedWith
          /\ UNCHANGED testCode
       \/ \E code \in Writing :
          /\ testCode' \in LeftByStop(code)
          /\ mixedWith' = MixedByTest(testCode')
    /\ m_locked' = TRUE /\ m_noLockCode' = FALSE /\ keyData' = Null
    /\ connKey' = [p \in Plugins |-> Null]
    /\ jobs' = {}
    /\ m_pendingRequests' = [r \in Requests |-> Null]
    /\ op' = Off
    /\ testFailed' = FALSE
    /\ UNCHANGED <<dbKey, dataKey, failures>>
-----------------------------------------------------------------------------
(* The lock code requests (on the metadata database, made by the platform  *)
(* application; every other client is refused).                            *)

\* provideLockCode: without a lock code there is nothing to ask the user.  (When
\* the stored test is another one's nevertheless, the request fails.)
ProvideLockCode(r) ==
    /\ Idle /\ m_pendingRequests[r] = Null
    /\ \/ /\ m_noLockCode /\ CompareTestCipherText(EmptyCode)
          /\ InitializeUnlock(EmptyCode)
          /\ op' = Op("unlock", EmptyCode, {})
          /\ UNCHANGED m_pendingRequests
       \/ /\ ~m_noLockCode
          /\ m_pendingRequests' =
                [m_pendingRequests EXCEPT ![r] = [asks |-> "code", old |-> Null]]
          /\ UNCHANGED <<testCode, lock, op, testFailed>>
    /\ UNCHANGED <<dbKey, dataKey, connKey, jobs, crashes, failures, mixedWith>>

\* modifyLockCode: ask for the old code.
ModifyLockCode(r) ==
    /\ Idle /\ m_pendingRequests[r] = Null
    /\ m_pendingRequests' =
          [m_pendingRequests EXCEPT ![r] = [asks |-> "oldCode", old |-> Null]]
    /\ UNCHANGED <<disk, lock, connKey, jobs, op, history>>

\* userInputInteractionCompleted, when the user cancelled, and the replies of
\* the operations below when the code given is not the right one.  (The entry
\* of a cancelled request stays in the code's m_pendingRequests, but nothing
\* looks for it any more.)
RequestFails(r) ==
    /\ Idle /\ m_pendingRequests[r] # Null
    /\ m_pendingRequests' = [m_pendingRequests EXCEPT ![r] = Null]
    /\ UNCHANGED <<disk, lock, connKey, jobs, op, history>>

\* provideLockCodeWithLockCode
ProvideLockCodeWithLockCode(r, code) ==
    /\ Idle /\ m_pendingRequests[r] # Null
    /\ m_pendingRequests[r].asks = "code"
    /\ TestLockCode(code) /\ CompareTestCipherText(code)
    /\ InitializeUnlock(code)
    /\ op' = Op("unlock", code, {})
    /\ m_pendingRequests' = [m_pendingRequests EXCEPT ![r] = Null]
    /\ UNCHANGED <<dbKey, dataKey, connKey, jobs, crashes, failures, mixedWith>>

\* Mutation: the old code is not put aside with the other parameters.
PutAsideNothing(code) == Null

PutAside(code) == code

\* modifyLockCodeWithLockCode: the old code is kept, not tested, and the new
\* one asked for.
ModifyLockCodeWithLockCode(r, code) ==
    /\ Idle /\ m_pendingRequests[r] # Null
    /\ m_pendingRequests[r].asks = "oldCode"
    /\ m_pendingRequests' =
          [m_pendingRequests EXCEPT ![r] = [asks |-> "newCode", old |-> PutAside(code)]]
    /\ UNCHANGED <<disk, lock, connKey, jobs, op, history>>

\* modifyLockCodeWithLockCodes, in a locked daemon too: initialize writes the
\* new test cipher text and caches the new keys.  When the write fails, the
\* request goes on all the same with the cached keys, and the test may be the
\* new one nevertheless.
ModifyLockCodeWithLockCodes(r, new) ==
    /\ Idle /\ m_pendingRequests[r] # Null
    /\ m_pendingRequests[r].asks = "newCode"
    /\ TestLockCode(m_pendingRequests[r].old)
    /\ \/ /\ InitializeModify(new)
          /\ op' = Op("modify", new, Plugins)
          /\ UNCHANGED <<failures, mixedWith>>
       \/ /\ failures < MaxFailures
          /\ failures' = failures + 1
          /\ testCode' \in LeftByFailure(new)
          /\ testFailed' = (testFailed \/ testCode' # testCode)
          /\ mixedWith' = IF testCode' # testCode \/ m_locked THEN "lost" ELSE mixedWith
          /\ op' = Op("modify", keyData, Plugins)
          /\ UNCHANGED lock
    /\ m_pendingRequests' = [m_pendingRequests EXCEPT ![r] = Null]
    /\ UNCHANGED <<dbKey, dataKey, connKey, jobs, crashes>>

ForgetLockCode ==
    /\ Idle
    /\ InitializeLock
    /\ op' = Op("lock", DummyCode, {})
    /\ UNCHANGED <<dbKey, dataKey, connKey, jobs, m_pendingRequests, history>>
-----------------------------------------------------------------------------
(* The pool jobs of the running lock code request, one plugin at a time. *)

\* masterUnlockPlugins: a plugin that fails does not end the loop.
UnlockPlugin(p) ==
    /\ op.kind = "unlock" /\ PoolFree /\ p \in op.dbs
    /\ \/ /\ op' = [op EXCEPT !.dbs = @ \ {p}]
          /\ connKey' = [connKey EXCEPT ![p] =
                  IF IsMasterLocked(p) THEN ConnUnlocked(p, op.new) ELSE @]
          /\ dbKey' = [dbKey EXCEPT ![p] =
                  IF IsMasterLocked(p) THEN FileUnlocked(p, op.new) ELSE @]
          /\ UNCHANGED failures
       \/ /\ IsMasterLocked(p)
          /\ failures < MaxFailures
          /\ failures' = failures + 1
          /\ op' = [op EXCEPT !.dbs = @ \ {p}, !.failed = @ \cup {p}]
          /\ UNCHANGED <<connKey, dbKey>>
    /\ UNCHANGED <<testCode, dataKey, lock, jobs, m_pendingRequests, crashes,
                   testFailed, mixedWith>>

\* Mutation: the plugins already locked are the ones locked.
ConnLockedInverted(p) == IF IsMasterLocked(p) THEN Null ELSE connKey[p]

ConnLocked(p) == IF IsMasterLocked(p) THEN connKey[p] ELSE Null

\* masterLockPlugins
LockPlugin(p) ==
    /\ op.kind = "lock" /\ PoolFree /\ p \in op.dbs
    /\ op' = [op EXCEPT !.dbs = @ \ {p}]
    /\ connKey' = [connKey EXCEPT ![p] = ConnLocked(p)]
    /\ UNCHANGED <<disk, lock, jobs, m_pendingRequests, history>>

\* modifyMasterLockPlugins for plugin p.  MetadataDatabase::reencrypt gives the
\* old key to the connection and, if the database can then be read, rekeys it.
RekeyPlugin(p) ==
    /\ op.kind = "modify" /\ PoolFree /\ p \in op.dbs
    /\ \/ /\ Opens(p, op.old) /\ FileUnlocked(p, op.old) = op.old
          /\ dbKey' = [dbKey EXCEPT ![p] = op.new]
          /\ connKey' = [connKey EXCEPT ![p] = op.new]
          /\ op' = [op EXCEPT !.dbs = @ \ {p}]
          /\ UNCHANGED failures
       \/ /\ Opens(p, op.old) /\ FileUnlocked(p, op.old) = op.old
          /\ failures < MaxFailures
          /\ failures' = failures + 1
          /\ dbKey' = [dbKey EXCEPT ![p] = op.old]
          /\ connKey' = [connKey EXCEPT ![p] = op.old]
          /\ op' = [op EXCEPT !.dbs = @ \ {p}, !.failed = @ \cup {p}]
       \/ /\ ~Opens(p, op.old) \/ FileUnlocked(p, op.old) # op.old
          /\ connKey' = [connKey EXCEPT ![p] = ConnUnlocked(p, op.old)]
          /\ op' = [op EXCEPT !.dbs = @ \ {p}]
          /\ UNCHANGED <<dbKey, failures>>
    /\ UNCHANGED <<testCode, dataKey, lock, jobs, m_pendingRequests, crashes,
                   testFailed, mixedWith>>

\* unlockDeviceLockedCollectionsAndReencrypt: the collection is rekeyed if the
\* metadata can be read and the collection opens with the old key.
ReencryptData(p) ==
    /\ op.kind = "modify" /\ PoolFree /\ op.dbs = {} /\ p \in op.data
    /\ \/ /\ dataKey' = [dataKey EXCEPT ![p] =
                IF ~IsMasterLocked(p) /\ @ # Null /\ @ = op.old THEN op.new ELSE @]
          /\ op' = [op EXCEPT !.data = @ \ {p}]
          /\ UNCHANGED failures
       \/ /\ ~IsMasterLocked(p) /\ dataKey[p] # Null /\ dataKey[p] = op.old
          /\ failures < MaxFailures
          /\ failures' = failures + 1
          /\ op' = [op EXCEPT !.data = @ \ {p}, !.failed = @ \cup {p}]
          /\ UNCHANGED dataKey
    /\ UNCHANGED <<testCode, dbKey, lock, connKey, jobs, m_pendingRequests,
                   crashes, testFailed, mixedWith>>

\* The request returns Succeeded, whatever its jobs reported.
EndOp ==
    /\ op.kind \in {"unlock", "lock", "modify"} /\ op.dbs = {} /\ op.data = {}
    /\ op' = NoOp
    /\ mixedWith' = IF op.kind = "modify" THEN Mixed(TRUE) ELSE mixedWith
    /\ UNCHANGED <<disk, lock, connKey, jobs, m_pendingRequests, crashes, failures,
                   testFailed>>
-----------------------------------------------------------------------------
(* createDeviceLockCollection, standing for every request that writes      *)
(* device-locked data: it queues a job with a reference to the cached key. *)

CreateDeviceLockCollection(p) ==
    /\ Idle /\ ~m_locked
    /\ p \notin jobs
    /\ jobs' = jobs \cup {p}
    /\ UNCHANGED <<disk, lock, connKey, m_pendingRequests, op, history>>

\* The job runs, also while the main thread executes a lock code request.  It
\* may then have read the key while that request was overwriting it with the
\* bytes of another one.
KeysRead ==
    {keyData} \cup (IF ~Idle /\ op.old # keyData THEN {TornKey} ELSE {})

CreateCollectionJob(p) ==
    /\ p \in jobs
    /\ jobs' = jobs \ {p}
    /\ \/ /\ ~IsMasterLocked(p) /\ dataKey[p] = Null
          /\ \E key \in KeysRead :
                dataKey' = [dataKey EXCEPT ![p] = key]
          /\ mixedWith' = IF ~Idle /\ op.old # keyData THEN "lost" ELSE mixedWith
       \/ /\ IsMasterLocked(p) \/ dataKey[p] # Null
          /\ UNCHANGED <<dataKey, mixedWith>>
    /\ UNCHANGED <<testCode, dbKey, lock, connKey, m_pendingRequests, op, crashes,
                   failures, testFailed>>
-----------------------------------------------------------------------------
UserInput(r, code) ==
    \/ ProvideLockCodeWithLockCode(r, code)
    \/ ModifyLockCodeWithLockCode(r, code)
    \/ ModifyLockCodeWithLockCodes(r, code)

Pool(p) ==
    \/ UnlockPlugin(p) \/ LockPlugin(p) \/ RekeyPlugin(p) \/ ReencryptData(p)
    \/ CreateCollectionJob(p)

Next ==
    \/ \E r \in Requests : ProvideLockCode(r) \/ ModifyLockCode(r) \/ RequestFails(r)
    \/ \E r \in Requests, code \in Codes : UserInput(r, code)
    \/ ForgetLockCode
    \/ \E p \in Plugins : CreateDeviceLockCollection(p) \/ Pool(p)
    \/ EndOp
    \/ Start
    \/ Stop

Spec == Init /\ [][Next]_vars
-----------------------------------------------------------------------------
(* Properties. *)

TypeOK ==
    /\ testCode \in Codes \cup {Null, Unreadable}
    /\ dbKey \in [Plugins -> Keys \cup {Null}]
    /\ dataKey \in [Plugins -> Keys \cup {Null}]
    /\ m_locked \in BOOLEAN /\ m_noLockCode \in BOOLEAN
    /\ keyData \in Codes \cup {DummyCode, Null}
    /\ connKey \in [Plugins -> Keys \cup {Null}]
    /\ jobs \subseteq Plugins
    /\ m_pendingRequests \in [Requests -> Prompts]
    /\ op \in {NoOp, Off} \cup
          [kind : {"unlock", "lock", "modify"}, old : Codes \cup {DummyCode, Null},
           was : Codes \cup {Null, Unreadable}, new : Codes \cup {DummyCode, Null},
           dbs : SUBSET Plugins, data : SUBSET Plugins, failed : SUBSET Plugins]
    /\ crashes \in 0 .. MaxCrashes /\ failures \in 0 .. MaxFailures
    /\ testFailed \in BOOLEAN
    /\ mixedWith \in Codes \cup {Null, "lost"}

\* The daemon is unlocked only with the keys of the code whose test is stored,
\* whatever codes were entered, changed, forgotten or left unwritten; and when
\* it believes that there is no lock code, the stored test is the empty code's.
\* The one exception is a write of the test which was reported as failed but
\* left a test that is not the old one; it lasts until a code is accepted again.
UnlockedByCurrentCode ==
    ~testFailed =>
        /\ ~m_locked => keyData = testCode
        /\ m_noLockCode => testCode = EmptyCode

\* While the lock code is not being changed, every metadata database and all
\* device-locked data are encrypted with the key of the stored code.  Four things
\* break this: a stop in a change of the code, and a change in a locked daemon,
\* after which some keys are still those of the code before, and changing the
\* code back to that one repairs them; and for good, a write of a change that
\* fails, and a job that writes data while a request replaces the cached keys.
KeysAgree ==
    op.kind # "modify" /\ mixedWith # "lost" =>
        \A p \in Plugins : {dbKey[p], dataKey[p]} \subseteq {Null, testCode, mixedWith}

\* Between requests, no metadata database can be read while the daemon is
\* locked, whether by forgetLockCode or because it was just started, and
\* whatever raced with forgetLockCode or failed.  Only a missing database that a
\* failing change in the locked daemon has made, with the keys of no code at all
\* (the ones forgetLockCode leaves), is open then.
LockedMeansClosed ==
    Idle /\ m_locked =>
        \A p \in Plugins : IsMasterLocked(p) \/ dbKey[p] = DummyCode

\* A request that unlocks the daemon opens every metadata database but those
\* which fail, also after one that failed, as long as the keys on disk agree.
UnlockOpensAll ==
    op.kind = "unlock" /\ mixedWith = Null =>
        \A p \in Plugins \ (op.dbs \cup op.failed) : ~IsMasterLocked(p)

\* "if that matches the existing lock code, they will then be prompted for the
\* new lock code.  The datum will then be re-encrypted with a key derived from
\* the new lock code" (lib/Secrets/lockcoderequest.cpp:49): when a change of
\* the lock code has succeeded, and no write failed, every metadata database
\* is encrypted with the new code's key.  Does not hold in a locked daemon:
\* the databases are closed then, and stay as they are.
ChangedMeansReencrypted ==
    op.kind = "modify" /\ op.dbs = {} /\ failures = 0 /\ crashes = 0 =>
        \A p \in Plugins : dbKey[p] = op.new

\* "A collection whose lock type is CreateCollectionRequest::DeviceLock will
\* use the device-lock code for its security"
\* (lib/Secrets/createcollectionrequest.cpp:91): device-locked data is never
\* encrypted with a key that no lock code of the user gives.
DataUsesALockCode == \A p \in Plugins : dataKey[p] \in Codes \cup {Null}
=============================================================================
