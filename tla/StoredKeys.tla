----------------------------- MODULE StoredKeys -----------------------------
(***************************************************************************)
(* The requests of the crypto daemon other than cipher sessions            *)
(* (CryptoImpl/cryptorequestprocessor.cpp, cryptopluginfunctionwrappers.cpp,*)
(* cryptopluginwrapper.cpp) and the helpers of the secrets daemon they     *)
(* call (SecretsImpl/secretscryptohelpers.cpp).                            *)
(*                                                                         *)
(* A request either gives a job to a pool, or calls a helper, which puts a *)
(* request of its own into the secrets queue; until that is answered the   *)
(* parameters of the crypto request wait in m_pendingRequests.  Stored     *)
(* keys are checked for, generated, stored and used in several such steps, *)
(* and the steps of two requests interleave.                               *)
(*                                                                         *)
(* Three plugins: sqlcipher stores keys and uses them, openssl only uses   *)
(* them, sqlite only stores secrets.  One collection of sqlcipher is looked*)
(* at, which may be locked.  What the secrets daemon does with a helper's  *)
(* request before its last job is CollectionRequests: here it ends in a    *)
(* failure or in that job.  A key is represented by the request which made *)
(* it.                                                                     *)
(***************************************************************************)
EXTENDS Naturals, Sequences, FiniteSets

CONSTANTS
    Requests, \* the requests of the clients
    OpsOf,    \* what each of them may be
    Names,    \* names of keys
    PluginOf, \* the storage plugin each name belongs to
    Old,      \* a key made before
    Null      \* no key, no name, no plugin, nothing pending

CryptoPlugins == {"sqlcipher", "openssl"}
CryptoStoragePlugins == {"sqlcipher"}
StoragePlugins == {"sqlcipher", "sqlite"}

ASSUME NamesAssumption ==
    /\ PluginOf \in [Names -> StoragePlugins] /\ Null \notin Names
ASSUME RequestsAssumption ==
    /\ IsFiniteSet(Requests) /\ Null \notin Requests /\ Old \notin Requests
    /\ Old # Null /\ OpsOf \in [Requests -> SUBSET STRING]

VARIABLES
    keys,    \* the stored key of each name
    keep,    \* the unlock semantic of the collection: it stays unlocked
    locked,  \* whether the collection is locked
    leftOpen, \* history: a job that failed has left it open
    request, \* what each client asked for and was answered
    m_pendingRequests,         \* parameters put aside
    m_cryptoApiHelperRequests, \* helper requests the secrets daemon works on
    pool,    \* the jobs of each thread pool; the first one is running
    events   \* finished() signals and completed helpers, in order

vars == <<keys, keep, locked, leftOpen, request, m_pendingRequests,
          m_cryptoApiHelperRequests, pool, events>>
storage == <<keys, keep, locked, leftOpen>>
waiting == <<m_pendingRequests, m_cryptoApiHelperRequests>>

----------------------------------------------------------------------------
JobOps == {"generateRandomData", "seedRandomDataGenerator",
           "generateInitializationVector", "generateKey", "calculateDigest"}
UseOps == {"sign", "verify", "encrypt", "decrypt"}
StoreOps == {"generateStoredKey", "importStoredKey"}
LockOps == {"queryLockStatus", "modifyLockCode", "provideLockCode",
            "forgetLockCode"}
Ops == JobOps \cup UseOps \cup StoreOps \cup LockOps
         \cup {"importKey", "storedKey", "deleteStoredKey",
               "storedKeyIdentifiers"}

\* Requests of the secrets queue made for a crypto request
Dialogs == {"userInput", "lockStatus", "lockCode"} \* end without a job
Helpers == {"storeKeyPreCheck", "useKeyPreCheck", "getKey", "setKey",
            "deleteKey", "keyIdentifiers"} \cup Dialogs
StoreJobs == {"generateAndStoreKey", "importAndStoreKey"}
Jobs == JobOps \cup UseOps \cup StoreJobs \cup {"importKey", "storedKey"}
          \cup (Helpers \ Dialogs)

\* What a Key object holds besides its identifier
Parts == {"none", "public", "all"}
CollectionKeys == {"empty", "right", "wrong"}
Results == {"Succeeded", "Failed", "IncorrectPassphrase"}

Blank == [op |-> "none", name |-> Null, plugin |-> Null, parts |-> "none",
          ui |-> FALSE, result |-> "none", reply |-> "none"]

\* name, plugin, parts and ui are the job's arguments, key is the key it may
\* unlock the collection with.
Job == [request : Requests, job : Jobs, name : Names \cup {Null},
        plugin : CryptoPlugins \cup {Null}, parts : Parts, ui : BOOLEAN,
        key : CollectionKeys, stage : {"queued", "open"}, wasLocked : BOOLEAN]

Pools == {"secrets", "crypto"}

\* Null is not an entry of m_cryptoApiHelperRequests.
ASSUME NullAssumption ==
    Null \notin [type : Helpers, name : Names \cup {Null}, running : BOOLEAN]

\* What each variable may be: each request has at most one job and one
\* signal, and the parameter lists have the lengths the code gives them.
TypeOK ==
    /\ keys \in [Names -> Requests \cup {Old, Null}]
    /\ keep \in BOOLEAN /\ locked \in BOOLEAN /\ leftOpen \in BOOLEAN
    /\ request \in [Requests ->
         [op : Ops \cup {"none"}, name : Names \cup {Null},
          plugin : CryptoPlugins \cup {Null}, parts : Parts, ui : BOOLEAN,
          result : Results \cup {"none"}, reply : Parts]]
    /\ \A r \in Requests :
         /\ \/ m_pendingRequests[r] = Null
            \/ /\ m_pendingRequests[r].type \in Ops
               /\ Len(m_pendingRequests[r].parameters) <= 9
         /\ \/ m_cryptoApiHelperRequests[r] = Null
            \/ m_cryptoApiHelperRequests[r] \in
                 [type : Helpers, name : Names \cup {Null}, running : BOOLEAN]
    /\ \A p \in Pools :
         /\ Len(pool[p]) <= Cardinality(Requests)
         /\ \A i \in 1 .. Len(pool[p]) : pool[p][i] \in Job
    /\ Len(events) <= Cardinality(Requests)

\* The daemon has just started: the collection is locked.
Init ==
    /\ keys \in [Names -> {Old, Null}]
    /\ keep \in BOOLEAN
    /\ locked = TRUE /\ leftOpen = FALSE
    /\ request = [r \in Requests |-> Blank]
    /\ m_pendingRequests = [r \in Requests |-> Null]
    /\ m_cryptoApiHelperRequests = [r \in Requests |-> Null]
    /\ pool = [p \in Pools |-> <<>>]
    /\ events = <<>>

----------------------------------------------------------------------------
(* Steps the handlers have in common *)

\* Mutation: the pool of a plugin which also stores keys is that of the
\* other crypto plugins.
threadPoolForPluginByKind(plugin) ==
    IF plugin \in CryptoPlugins THEN "crypto" ELSE "secrets"

\* Both daemons use one thread for a plugin which both stores and uses keys.
threadPoolForPlugin(plugin) ==
    IF plugin \in CryptoStoragePlugins THEN "secrets"
    ELSE IF plugin \in CryptoPlugins THEN "crypto" ELSE "secrets"

NewJob(r, job, name, plugin, key) ==
    [request |-> r, job |-> job, name |-> name, plugin |-> plugin,
     parts |-> "none", ui |-> FALSE, key |-> key, stage |-> "queued",
     wasLocked |-> FALSE]

\* QtConcurrent::run() with a watcher
Run(p, job) == pool' = [pool EXCEPT ![p] = Append(@, job)]

\* requestFinished(), which replies to the client
Answer(r, result, reply) ==
    request' = [request EXCEPT ![r].result = result, ![r].reply = reply]

\* The helpers: a request of the secrets queue for a crypto request
Helper(type, name) == [type |-> type, name |-> name, running |-> FALSE]

storeKeyPreCheck(n) == Helper("storeKeyPreCheck", n)
storeKey(n) == Helper("setKey", n)
deleteStoredKeyHelper(n) == Helper("deleteKey", n)
storedKeyIdentifiersHelper(n) == Helper("keyIdentifiers", n)
useKeyPreCheck(n) == Helper("useKeyPreCheck", n)
storedKeyHelper(n) == Helper("getKey", n)
userInput(n) == Helper("userInput", n)
queryCryptoPluginLockStatus == Helper("lockStatus", Null)
modifyCryptoPluginLockCode == Helper("lockCode", Null)
provideCryptoPluginLockCode == Helper("lockCode", Null)
forgetCryptoPluginLockCode == Helper("lockCode", Null)

\* The parameters wait for the helper, whose request joins the secrets queue.
Call(r, helper, parameters) ==
    /\ m_cryptoApiHelperRequests' =
         [m_cryptoApiHelperRequests EXCEPT ![r] = helper]
    /\ m_pendingRequests' = [m_pendingRequests EXCEPT
         ![r] = [type |-> request'[r].op, parameters |-> parameters]]

\* A key reference lacks the parts the operation needs.
IsReference(op, parts) ==
    IF op \in {"sign", "decrypt"} THEN parts # "all" ELSE parts = "none"

Arrives(r, q) == request[r].op = "none" /\ q.op \in OpsOf[r]

\* The request has wrong parameters, or the secrets queue is full.
Refused(r, q) ==
    /\ request' = [request EXCEPT ![r] = [q EXCEPT !.result = "Failed"]]
    /\ UNCHANGED <<storage, waiting, pool, events>>

StartsJob(r, q, job) ==
    /\ Arrives(r, q)
    /\ \/ Refused(r, q)
       \/ /\ request' = [request EXCEPT ![r] = q]
          /\ Run(threadPoolForPlugin(q.plugin), job)
          /\ UNCHANGED <<storage, waiting, events>>

StartsHelper(r, q, helper, parameters) ==
    /\ Arrives(r, q)
    /\ \/ Refused(r, q)
       \/ /\ request' = [request EXCEPT ![r] = q]
          /\ Call(r, helper, parameters)
          /\ UNCHANGED <<storage, pool, events>>

----------------------------------------------------------------------------
(* The main thread: requests arrive *)

PlainJob(r, op, p) ==
    StartsJob(r, [Blank EXCEPT !.op = op, !.plugin = p],
              NewJob(r, op, Null, p, "empty"))

generateRandomData(r, p) == PlainJob(r, "generateRandomData", p)
seedRandomDataGenerator(r, p) == PlainJob(r, "seedRandomDataGenerator", p)
generateInitializationVector(r, p) ==
    PlainJob(r, "generateInitializationVector", p)
generateKey(r, p) == PlainJob(r, "generateKey", p)
calculateDigest(r, p) == PlainJob(r, "calculateDigest", p)

importKey(r, p, ui) ==
    StartsJob(r, [Blank EXCEPT !.op = "importKey", !.plugin = p, !.ui = ui],
              [NewJob(r, "importKey", Null, p, "empty") EXCEPT !.ui = ui])

\* ui: the key is derived from what the user enters.
generateStoredKey(r, n, p, ui) ==
    StartsHelper(r, [Blank EXCEPT !.op = "generateStoredKey", !.name = n,
                                  !.plugin = p, !.ui = ui],
                 storeKeyPreCheck(n), <<n, "kpg", "skdf", ui, "custom", p>>)

importStoredKey(r, n, p, ui) ==
    StartsHelper(r, [Blank EXCEPT !.op = "importStoredKey", !.name = n,
                                  !.plugin = p, !.ui = ui],
                 storeKeyPreCheck(n), <<"data", n, ui, "custom", p>>)

\* A key in a crypto plugin is read as it is, the collection locked or not.
storedKey(r, n, parts) ==
    LET q == [Blank EXCEPT !.op = "storedKey", !.name = n, !.parts = parts] IN
    IF PluginOf[n] \in CryptoPlugins
      THEN LET p == PluginOf[n] IN
           StartsJob(r, [q EXCEPT !.plugin = p],
                     [NewJob(r, "storedKey", n, p, "empty") EXCEPT
                        !.parts = parts, !.stage = "open"])
      ELSE StartsHelper(r, q, storedKeyHelper(n), <<n, parts>>)

deleteStoredKey(r, n) ==
    StartsHelper(r, [Blank EXCEPT !.op = "deleteStoredKey", !.name = n],
                 deleteStoredKeyHelper(n), <<n>>)

storedKeyIdentifiers(r, n) ==
    StartsHelper(r, [Blank EXCEPT !.op = "storedKeyIdentifiers", !.name = n],
                 storedKeyIdentifiersHelper(n), <<>>)

\* A key with the parts needed is used at once.  A reference to a key in the
\* crypto plugin itself is checked, one to a key elsewhere is read first.
UseKey(r, op, n, p, parts, before, after) ==
    LET q == [Blank EXCEPT !.op = op, !.name = n, !.plugin = p,
                           !.parts = parts] IN
    IF ~IsReference(op, parts)
      THEN StartsJob(r, q, [NewJob(r, op, n, p, "empty") EXCEPT
                              !.parts = parts, !.stage = "open"])
      ELSE IF PluginOf[n] = p
        THEN StartsHelper(r, q, useKeyPreCheck(n),
                          before \o << <<n, parts>> >> \o after)
        ELSE StartsHelper(r, q, storedKeyHelper(n), before \o after)

sign(r, n, p, parts) ==
    UseKey(r, "sign", n, p, parts, <<"data">>,
           <<"padding", "digest", "custom", p>>)
verify(r, n, p, parts) ==
    UseKey(r, "verify", n, p, parts, <<"signature", "data">>,
           <<"padding", "digest", "custom", p>>)
encrypt(r, n, p, parts) ==
    UseKey(r, "encrypt", n, p, parts, <<"data", "iv">>,
           <<"mode", "padding", "authentication", "custom", p>>)
decrypt(r, n, p, parts) ==
    UseKey(r, "decrypt", n, p, parts, <<"data", "iv">>,
           <<"mode", "padding", "authentication", "tag", "custom", p>>)

\* The secrets daemon locks and unlocks crypto plugins too.
LockRequest(r, op, p, helper, parameters) ==
    StartsHelper(r, [Blank EXCEPT !.op = op, !.plugin = p], helper,
                 <<"pid", "type", p>> \o parameters)
queryLockStatus(r, p) ==
    LockRequest(r, "queryLockStatus", p, queryCryptoPluginLockStatus, <<>>)
modifyLockCode(r, p) ==
    LockRequest(r, "modifyLockCode", p, modifyCryptoPluginLockCode, <<"ui">>)
provideLockCode(r, p) ==
    LockRequest(r, "provideLockCode", p, provideCryptoPluginLockCode, <<"ui">>)
forgetLockCode(r, p) ==
    LockRequest(r, "forgetLockCode", p, forgetCryptoPluginLockCode, <<"ui">>)

----------------------------------------------------------------------------
(* The pools *)

UsesCollection(n) == n # Null /\ PluginOf[n] = "sqlcipher"

\* A key that is only generated or imported is stored later.
OnCollection(j) ==
    j.job \notin JobOps \cup {"importKey"} /\ UsesCollection(j.name)

Event(j, result) ==
    [request |-> j.request, job |-> j.job, name |-> j.name,
     plugin |-> j.plugin, parts |-> j.parts, ui |-> j.ui, key |-> j.key,
     result |-> result]

\* The job of pool p is done.
Done(p, result) ==
    /\ pool' = [pool EXCEPT ![p] = Tail(@)]
    /\ events' = Append(events, Event(Head(pool[p]), result))

\* unlockCollection(), prepareToStoreKey() and the secrets daemon's wrappers:
\* a locked collection is opened with the key given.
UnlockCollection(p) ==
    LET j == Head(pool[p]) IN
    /\ pool[p] # <<>> /\ j.stage = "queued" /\ OnCollection(j)
    /\ \/ /\ locked /\ j.key # "right"
          /\ Done(p, "Failed")
          /\ UNCHANGED locked
       \/ /\ locked => j.key = "right"
          /\ locked' = FALSE
          /\ pool' = [pool EXCEPT
               ![p] = <<[j EXCEPT !.stage = "open", !.wasLocked = locked]>>
                        \o Tail(@)]
          /\ UNCHANGED events
    /\ UNCHANGED <<keys, keep, leftOpen, request, waiting>>

\* The sqlcipher plugin reads the key from the collection.
storedKey_internal(n) ==
    /\ keys[n] # Null
    /\ UsesCollection(n) => ~locked

\* A key object with an identifier of this plugin is read from the collection
\* even when it has all its parts.
getFullKey(j) == PluginOf[j.name] = j.plugin => storedKey_internal(j.name)

\* Mutation: nobody looks whether the name is taken by now.
prepareToStoreKeyAnyway(j) == ~locked

\* The wrapper looks for a key of that name once more.
prepareToStoreKey(j) == keys[j.name] = Null /\ ~locked

SetSecret(j, result) ==
    keys' = [keys EXCEPT ![j.name] =
               IF result = "Succeeded" THEN j.request ELSE @]

\* The plugin generates or imports the key and stores it, or fails.
generateAndStoreKey(j, result) ==
    /\ j.job = "generateAndStoreKey"
    /\ result = "Succeeded" => prepareToStoreKey(j)
    /\ SetSecret(j, result)
    /\ result # "IncorrectPassphrase"

importAndStoreKey(j, result) ==
    /\ j.job = "importAndStoreKey"
    /\ result = "Succeeded" => prepareToStoreKey(j)
    /\ SetSecret(j, result)

\* The wrappers of the crypto operations: with a key of its own a plugin has
\* to find it.
UsesKey(op, j, result) ==
    /\ j.job = op
    /\ result = "Succeeded" => getFullKey(j)
    /\ result # "IncorrectPassphrase" /\ UNCHANGED keys

Signs(j, result) == UsesKey("sign", j, result)
Verifies(j, result) == UsesKey("verify", j, result)
Encrypts(j, result) == UsesKey("encrypt", j, result)
Decrypts(j, result) == UsesKey("decrypt", j, result)

\* The key is returned from its storage plugin.
ReadsKey(j, result) ==
    /\ j.job \in {"getKey", "storedKey"}
    /\ result = "Succeeded" => storedKey_internal(j.name)
    /\ result # "IncorrectPassphrase" /\ UNCHANGED keys

\* unlockCollectionAndStoreSecret(): the wrappers refuse a name that is taken.
StoresSecret(j, result) ==
    /\ j.job = "setKey"
    /\ result = "Succeeded" => keys[j.name] = Null
    /\ SetSecret(j, result)
    /\ result # "IncorrectPassphrase"

RemovesSecret(j, result) ==
    /\ j.job = "deleteKey"
    /\ keys' = [keys EXCEPT ![j.name] =
                  IF result = "Succeeded" THEN Null ELSE @]
    /\ result # "IncorrectPassphrase"

\* collectionSecretPreCheck(): is the name free?  Whether a key to be used is
\* there is left to the plugin.
PreChecks(j, result) ==
    /\ j.job \in {"storeKeyPreCheck", "useKeyPreCheck"}
    /\ j.job = "storeKeyPreCheck" /\ result = "Succeeded" => keys[j.name] = Null
    /\ result # "IncorrectPassphrase" /\ UNCHANGED keys

\* Jobs without a stored key
NoStoredKey(j, result) ==
    /\ j.job \in JobOps \cup {"keyIdentifiers", "importKey"}
    /\ result = "IncorrectPassphrase" => j.job = "importKey"
    /\ UNCHANGED keys

\* What the job does to the stored keys, and how it may end
Effect(j, result) ==
    \/ generateAndStoreKey(j, result) \/ importAndStoreKey(j, result)
    \/ Signs(j, result) \/ Verifies(j, result)
    \/ Encrypts(j, result) \/ Decrypts(j, result)
    \/ ReadsKey(j, result)
    \/ StoresSecret(j, result)
    \/ RemovesSecret(j, result)
    \/ PreChecks(j, result)
    \/ NoStoredKey(j, result)

\* The crypto wrappers relock what was locked, those of the secrets daemon
\* only what does not stay unlocked.
Relocks(j) == j.wasLocked /\ (j.job \in Helpers => ~keep)

\* storedKeyIdentifiersFromCollection() returns without relocking when the
\* names of the keys cannot be read from the collection it has opened.
MayLeaveOpen(j, result) == j.job = "keyIdentifiers" /\ result = "Failed"

\* The job does its work and relocks the collection.
RunJob(p, result) ==
    LET j == Head(pool[p]) IN
    /\ pool[p] # <<>>
    /\ OnCollection(j) => j.stage = "open"
    /\ Effect(j, result)
    /\ \/ /\ locked' = IF Relocks(j) THEN TRUE ELSE locked
          /\ UNCHANGED leftOpen
       \/ /\ Relocks(j) /\ MayLeaveOpen(j, result)
          /\ leftOpen' = TRUE
          /\ UNCHANGED locked
    /\ Done(p, result)
    /\ UNCHANGED <<keep, request, waiting>>

----------------------------------------------------------------------------
(* The secrets daemon *)

Queued(r) ==
    /\ m_cryptoApiHelperRequests[r] # Null
    /\ ~m_cryptoApiHelperRequests[r].running

\* A collection, a secret or a dialog is refused, or it is a dialog.
HelperEnds(r, result) ==
    LET h == m_cryptoApiHelperRequests[r] IN
    /\ Queued(r)
    /\ result = "Failed" \/ h.type \in Dialogs
    /\ m_cryptoApiHelperRequests' =
         [m_cryptoApiHelperRequests EXCEPT ![r].running = TRUE]
    /\ events' = Append(events,
         Event(NewJob(r, h.type, h.name, Null, "empty"), result))
    /\ UNCHANGED <<storage, request, m_pendingRequests, pool>>

\* The last job of the helper's request.  The main thread has waited for the
\* answer of isCollectionLocked(), and if it was locked the user has given a
\* code.  A name nobody gave is refused.
HelperRuns(r, key) ==
    LET h == m_cryptoApiHelperRequests[r] IN
    /\ Queued(r)
    /\ h.type \notin Dialogs /\ h.name # Null
    /\ pool["secrets"] = <<>>
    /\ IF UsesCollection(h.name) /\ locked
         THEN key \in {"right", "wrong"} ELSE key = "empty"
    /\ m_cryptoApiHelperRequests' =
         [m_cryptoApiHelperRequests EXCEPT ![r].running = TRUE]
    /\ Run("secrets", NewJob(r, h.type, h.name, Null, key))
    /\ UNCHANGED <<storage, request, m_pendingRequests, events>>

----------------------------------------------------------------------------
(* The main thread: a helper has completed *)

\* asynchronousCryptoRequestCompleted() and the slot it calls take the
\* helper's and the request's entries.
Completed(r, helpers) ==
    /\ events # <<>> /\ Head(events).request = r
    /\ Head(events).job \in helpers
    /\ m_cryptoApiHelperRequests[r] # Null /\ m_pendingRequests[r] # Null
    /\ events' = Tail(events)
    /\ UNCHANGED storage

Taken(r) ==
    /\ m_cryptoApiHelperRequests' =
         [m_cryptoApiHelperRequests EXCEPT ![r] = Null]
    /\ m_pendingRequests' = [m_pendingRequests EXCEPT ![r] = Null]

\* The request is over.
Replies(r, result, reply) ==
    /\ Answer(r, result, reply)
    /\ Taken(r)
    /\ UNCHANGED pool

\* The request goes on with a job.
GoesOn(r, job) ==
    /\ Run(threadPoolForPlugin(job.plugin), job)
    /\ Taken(r)
    /\ UNCHANGED request

\* The key read from another plugin has all its parts.  p: the parameters put
\* aside, of which the job needs the plugin.
WithKey(r, op, plugin) ==
    LET e == Head(events) IN
    /\ m_pendingRequests[r].type = op
    /\ \/ e.result # "Succeeded" /\ Replies(r, e.result, "none")
       \/ /\ e.result = "Succeeded"
          /\ GoesOn(r, [NewJob(r, op, e.name, plugin, "empty") EXCEPT
                          !.parts = "all", !.stage = "open"])

sign_withKey(r, p) == WithKey(r, "sign", p[5])
verify_withKey(r, p) == WithKey(r, "verify", p[6])
encrypt_withKey(r, p) == WithKey(r, "encrypt", p[7])
decrypt_withKey(r, p) == WithKey(r, "decrypt", p[8])

\* The reply has the components the client asked for.
storedKey2(r, p) ==
    /\ m_pendingRequests[r].type = "storedKey"
    /\ Replies(r, Head(events).result, p[2])

secretsStoredKeyCompleted(r) ==
    LET p == m_pendingRequests[r].parameters IN
    /\ Completed(r, {"getKey"})
    /\ \/ storedKey2(r, p)
       \/ sign_withKey(r, p)
       \/ verify_withKey(r, p)
       \/ encrypt_withKey(r, p)
       \/ decrypt_withKey(r, p)

\* The key stays in the plugin, which gets the key of the collection.
WithCollectionKey(r, op, given, plugin) ==
    LET e == Head(events) IN
    /\ m_pendingRequests[r].type = op
    /\ \/ e.result # "Succeeded" /\ Replies(r, e.result, "none")
       \/ /\ e.result = "Succeeded"
          /\ GoesOn(r, [NewJob(r, op, given[1], plugin, e.key) EXCEPT
                          !.parts = given[2]])

sign_withCollectionKey(r, p) == WithCollectionKey(r, "sign", p[2], p[6])
verify_withCollectionKey(r, p) == WithCollectionKey(r, "verify", p[3], p[7])
encrypt_withCollectionKey(r, p) == WithCollectionKey(r, "encrypt", p[3], p[8])

\* Mutation: the plugin is taken where encrypt has it.
decrypt_withCollectionKeyShifted(r, p) ==
    WithCollectionKey(r, "decrypt", p[3], p[8])

decrypt_withCollectionKey(r, p) == WithCollectionKey(r, "decrypt", p[3], p[9])

secretsUseKeyPreCheckCompleted(r) ==
    LET p == m_pendingRequests[r].parameters IN
    /\ Completed(r, {"useKeyPreCheck"})
    /\ \/ sign_withCollectionKey(r, p)
       \/ verify_withCollectionKey(r, p)
       \/ encrypt_withCollectionKey(r, p)
       \/ decrypt_withCollectionKey(r, p)

\* One job in a plugin which stores keys, otherwise the key is stored when it
\* has been generated.
generateStoredKey_withKdfData(r, n, p, key) ==
    GoesOn(r, NewJob(r, IF PluginOf[n] = p THEN "generateAndStoreKey"
                                           ELSE "generateKey", n, p, key))

\* The passphrase, first the empty one, is tried by importing the key.
importStoredKey_withPassphrase(r, n, ui, p, key) ==
    GoesOn(r, [NewJob(r, IF PluginOf[n] = p THEN "importAndStoreKey"
                                            ELSE "importKey", n, p, key) EXCEPT
                 !.ui = ui])

\* The user is asked for a passphrase, unless the secrets queue is full.
promptForKeyPassphrase(r, n, parameters) ==
    \/ /\ UNCHANGED request
       /\ Call(r, userInput(n), parameters)
    \/ /\ Answer(r, "Failed", "none")
       /\ Taken(r)

generateStoredKey_afterPreCheck(r, p) ==
    LET e == Head(events) IN
    \/ e.result # "Succeeded" /\ Replies(r, e.result, "none")
    \/ /\ e.result = "Succeeded" /\ ~p[4]
       /\ generateStoredKey_withKdfData(r, p[1], p[6], e.key)
    \/ /\ e.result = "Succeeded" /\ p[4]
       /\ promptForKeyPassphrase(r, p[1],
                                 <<p[1], p[2], p[3], p[5], p[6], e.key>>)
       /\ UNCHANGED pool

importStoredKey_afterPreCheck(r, p) ==
    LET e == Head(events) IN
    \/ e.result # "Succeeded" /\ Replies(r, e.result, "none")
    \/ /\ e.result = "Succeeded"
       /\ importStoredKey_withPassphrase(r, p[2], p[3], p[5], e.key)

secretsStoreKeyPreCheckCompleted(r) ==
    LET p == m_pendingRequests[r].parameters
        type == m_pendingRequests[r].type IN
    /\ Completed(r, {"storeKeyPreCheck"})
    /\ \/ /\ type = "generateStoredKey"
          /\ generateStoredKey_afterPreCheck(r, p)
       \/ /\ type = "importStoredKey"
          /\ importStoredKey_afterPreCheck(r, p)

\* Mutation: the collection key and the plugin name are taken in the wrong
\* order.
generateStoredKey_withInputDataSwapped(r, p) ==
    generateStoredKey_withKdfData(r, p[1], p[6], p[5])

generateStoredKey_withInputData(r, p) ==
    generateStoredKey_withKdfData(r, p[1], p[5], p[6])

importKey_withPassphrase(r, p) ==
    GoesOn(r, [NewJob(r, "importKey", Null, p[4], "empty") EXCEPT !.ui = p[2]])

secretsUserInputCompleted(r) ==
    LET p == m_pendingRequests[r].parameters
        e == Head(events)
        type == m_pendingRequests[r].type IN
    /\ Completed(r, {"userInput"})
    /\ \/ e.result # "Succeeded" /\ Replies(r, e.result, "none")
       \/ /\ e.result = "Succeeded" /\ type = "generateStoredKey"
          /\ generateStoredKey_withInputData(r, p)
       \/ /\ e.result = "Succeeded" /\ type = "importKey"
          /\ importKey_withPassphrase(r, p)
       \/ /\ e.result = "Succeeded" /\ type = "importStoredKey"
          /\ importStoredKey_withPassphrase(r, p[2], p[3], p[5], p[6])

\* Mutation: the reply is the key that was put aside.
WithAllParts(parts) == parts

\* The reply is the key without its secret parts.
WithoutSecrets(parts) == IF parts = "all" THEN "public" ELSE parts

generateStoredKey_inStoragePlugin(r, key) ==
    Replies(r, Head(events).result, WithoutSecrets(key[2]))

importStoredKey_inStoragePlugin(r, key) ==
    Replies(r, Head(events).result, WithoutSecrets(key[2]))

secretsStoreKeyCompleted(r) ==
    LET p == m_pendingRequests[r].parameters
        type == m_pendingRequests[r].type IN
    /\ Completed(r, {"setKey"})
    /\ \/ /\ type = "generateStoredKey"
          /\ generateStoredKey_inStoragePlugin(r, p[1])
       \/ /\ type = "importStoredKey"
          /\ importStoredKey_inStoragePlugin(r, p[1])

secretsDeleteStoredKeyCompleted(r) ==
    /\ Completed(r, {"deleteKey"})
    /\ Replies(r, Head(events).result, "none")

secretsStoredKeyIdentifiersCompleted(r) ==
    /\ Completed(r, {"keyIdentifiers"})
    /\ Replies(r, Head(events).result, "none")

\* The lock status is the reply.
secretsCryptoPluginLockStatusRequestCompleted(r) ==
    /\ Completed(r, {"lockStatus"})
    /\ Replies(r, Head(events).result, "none")

secretsCryptoPluginLockCodeRequestCompleted(r) ==
    /\ Completed(r, {"lockCode"})
    /\ Replies(r, Head(events).result, "none")

----------------------------------------------------------------------------
(* The main thread: a job has finished *)

Finished(r, jobs, stored) ==
    /\ events # <<>> /\ Head(events).request = r
    /\ Head(events).job \in jobs /\ (Head(events).name # Null) = stored
    /\ events' = Tail(events)
    /\ UNCHANGED <<storage, pool>>

\* The results of the job are the reply.
JobFinished(r) ==
    LET e == Head(events) IN
    /\ Finished(r, JobOps, FALSE)
    /\ Answer(r, e.result, IF e.job = "generateKey" THEN "all" ELSE "none")
    /\ UNCHANGED waiting

\* The result of a job with a key, or the components of it that were wanted
KeyUsed(r) ==
    LET e == Head(events) IN
    /\ Finished(r, UseOps \cup {"storedKey"}, TRUE)
    /\ Answer(r, e.result, IF e.job = "storedKey" THEN e.parts ELSE "none")
    /\ UNCHANGED waiting

generateStoredKey_inCryptoPlugin(r) ==
    /\ Finished(r, {"generateAndStoreKey"}, TRUE)
    /\ Answer(r, Head(events).result, WithoutSecrets("all"))
    /\ UNCHANGED waiting

\* generateStoredKey_withKdfData(): the key for another plugin is stored now.
KeyGenerated(r) ==
    LET e == Head(events) IN
    /\ Finished(r, {"generateKey"}, TRUE)
    /\ \/ /\ Answer(r, "Failed", "none")
          /\ UNCHANGED waiting
       \/ /\ e.result = "Succeeded"
          /\ UNCHANGED request
          /\ Call(r, storeKey(e.name), << <<e.name, "all">> >>)

WantsPassphrase(e) == e.result = "IncorrectPassphrase" /\ e.ui

\* Mutation: the reply is sent while the user is asked.
KeyImportedTwice(r) ==
    LET e == Head(events) IN
    /\ Finished(r, {"importKey"}, FALSE)
    /\ Answer(r, e.result, "all")
    /\ IF WantsPassphrase(e)
         THEN Call(r, userInput(Null), <<"data", e.ui, "custom", e.plugin>>)
         ELSE UNCHANGED waiting

KeyImported(r) ==
    LET e == Head(events) IN
    /\ Finished(r, {"importKey"}, FALSE)
    /\ \/ /\ WantsPassphrase(e)
          /\ promptForKeyPassphrase(r, Null, <<"data", e.ui, "custom", e.plugin>>)
       \/ /\ ~WantsPassphrase(e)
          /\ Answer(r, e.result, "all")
          /\ UNCHANGED waiting

\* importStoredKey_withPassphrase() in the plugin which keeps the key
KeyImportedAndStored(r) ==
    LET e == Head(events) IN
    /\ Finished(r, {"importAndStoreKey"}, TRUE)
    /\ \/ /\ WantsPassphrase(e)
          /\ promptForKeyPassphrase(r, e.name,
               <<"data", e.name, e.ui, "custom", e.plugin, e.key>>)
       \/ /\ ~WantsPassphrase(e)
          /\ Answer(r, e.result, WithoutSecrets("all"))
          /\ UNCHANGED waiting

\* importStoredKey_withPassphrase() for another plugin: where a passphrase is
\* needed the parameters are put aside, but nobody is asked for it.  The key
\* is stored under the identifier of the imported key, which has none.
KeyImportedToStore(r) ==
    LET e == Head(events) IN
    /\ Finished(r, {"importKey"}, TRUE)
    /\ \/ /\ WantsPassphrase(e)
          /\ m_pendingRequests' = [m_pendingRequests EXCEPT
               ![r] = [type |-> "importStoredKey",
                       parameters |-> <<"data", e.name, e.ui, "custom",
                                        e.plugin, e.key>>]]
          /\ UNCHANGED <<request, m_cryptoApiHelperRequests>>
       \/ /\ e.result = "Succeeded"
          /\ UNCHANGED request
          /\ Call(r, storeKey(Null), << <<e.name, "none">> >>)
       \/ /\ ~WantsPassphrase(e)
          /\ Answer(r, "Failed",
                    IF e.result = "Succeeded" THEN "all" ELSE "none")
          /\ UNCHANGED waiting

----------------------------------------------------------------------------
Arrival(r) ==
    /\ request[r] = Blank
    /\ \/ \E p \in CryptoPlugins :
            \/ generateRandomData(r, p)
            \/ seedRandomDataGenerator(r, p)
            \/ generateInitializationVector(r, p)
            \/ generateKey(r, p)
            \/ calculateDigest(r, p)
            \/ queryLockStatus(r, p)
            \/ modifyLockCode(r, p)
            \/ provideLockCode(r, p)
            \/ forgetLockCode(r, p)
            \/ \E ui \in BOOLEAN : importKey(r, p, ui)
            \/ \E n \in Names, ui \in BOOLEAN :
                 \/ generateStoredKey(r, n, p, ui)
                 \/ importStoredKey(r, n, p, ui)
            \/ \E n \in Names, parts \in Parts :
                 \/ sign(r, n, p, parts)
                 \/ verify(r, n, p, parts)
                 \/ encrypt(r, n, p, parts)
                 \/ decrypt(r, n, p, parts)
       \/ \E n \in Names :
            \/ deleteStoredKey(r, n)
            \/ storedKeyIdentifiers(r, n)
            \/ \E parts \in Parts : storedKey(r, n, parts)

Completion(r) ==
    /\ events # <<>> /\ Head(events).request = r
    /\ \/ secretsStoredKeyCompleted(r)
       \/ secretsUseKeyPreCheckCompleted(r)
       \/ secretsStoreKeyPreCheckCompleted(r)
       \/ secretsStoreKeyCompleted(r)
       \/ secretsDeleteStoredKeyCompleted(r)
       \/ secretsStoredKeyIdentifiersCompleted(r)
       \/ secretsUserInputCompleted(r)
       \/ secretsCryptoPluginLockStatusRequestCompleted(r)
       \/ secretsCryptoPluginLockCodeRequestCompleted(r)
       \/ JobFinished(r)
       \/ KeyUsed(r)
       \/ generateStoredKey_inCryptoPlugin(r)
       \/ KeyGenerated(r)
       \/ KeyImported(r)
       \/ KeyImportedAndStored(r)
       \/ KeyImportedToStore(r)

Next ==
    \/ \E r \in Requests :
         \/ Arrival(r)
         \/ Completion(r)
         \/ \E result \in Results \ {"IncorrectPassphrase"} : HelperEnds(r, result)
         \/ \E key \in CollectionKeys : HelperRuns(r, key)
    \/ \E p \in Pools :
         \/ UnlockCollection(p)
         \/ \E result \in Results : RunJob(p, result)

Spec == Init /\ [][Next]_vars
----------------------------------------------------------------------------
(* Properties *)

\* What may still make request r go on: a job, a signal, a queued helper
Drivers(r) ==
    Cardinality({d \in Pools \X (1 .. Cardinality(Requests)) :
                   d[2] <= Len(pool[d[1]]) /\ pool[d[1]][d[2]].request = r})
    + Cardinality({i \in 1 .. Len(events) : events[i].request = r})
    + IF Queued(r) THEN 1 ELSE 0

Working(r) == request[r].op # "none" /\ request[r].result = "none"

InOwnPlugin(r) == PluginOf[request[r].name] = request[r].plugin

\* Exactly one job, signal or helper drives a request until it is answered,
\* and none after that, so it is answered once; a helper which completes
\* finds the parameters of its request.  The exception is a key for another
\* plugin whose import wants a passphrase (NoneForgotten).
OneDriver ==
    /\ \A r \in Requests :
         \/ Drivers(r) = IF Working(r) THEN 1 ELSE 0
         \/ /\ Working(r) /\ request[r].op = "importStoredKey"
            /\ request[r].ui /\ ~InOwnPlugin(r) /\ Drivers(r) = 0
    /\ \A i \in 1 .. Len(events) :
         LET e == events[i] IN
         e.job \in Helpers =>
           /\ m_cryptoApiHelperRequests[e.request].type = e.job
           /\ m_pendingRequests[e.request].type = request[e.request].op

\* Every request is answered in the end: something still drives it.
\* Does not hold for an import into another storage plugin whose passphrase is
\* to be asked for: nobody is asked (cryptorequestprocessor.cpp:1029).
NoneForgotten == \A r \in Requests : Working(r) => Drivers(r) > 0

\* Each job works on the key and with the plugin its client named, whichever
\* lists the parameters went through.
OwnArguments ==
    \A p \in Pools : \A i \in 1 .. Len(pool[p]) :
      LET j == pool[p][i]
          q == request[j.request] IN
      /\ j.job \notin JobOps \cup {"importKey"} => j.name = q.name
      /\ j.job \notin Helpers => j.plugin = q.plugin
      /\ j.job \in UseOps => j.job = q.op

\* A job of pool p works on the collection, which it has opened.
OpenedBy(p) ==
    LET j == Head(pool[p]) IN
    /\ pool[p] # <<>> /\ OnCollection(j) /\ j.stage = "open"
    /\ j.job \in UseOps => IsReference(j.job, j.parts)
    /\ j.job # "storedKey"

\* A job which has opened the collection finds it open: no other thread
\* relocks it in between.  And a collection which is to be relocked is open
\* only while the job that unlocked it runs, unless a keyIdentifiers job has
\* failed to read the names (pluginfunctionwrappers.cpp:358): from then on it
\* is open, and no job finds that it was locked before.
OpenOnlyInUse ==
    /\ \A p \in Pools : OpenedBy(p) => ~locked
    /\ \/ keep \/ locked \/ leftOpen
       \/ \E p \in Pools : OpenedBy(p) /\ Head(pool[p]).wasLocked

\* A key whose client was told Succeeded is there, unless another request
\* deleted it: of two requests which both found the name free before either
\* stored its key, one fails.
StoredIsKept ==
    \A r \in Requests :
      request[r].op \in StoreOps /\ request[r].result = "Succeeded" =>
        \/ keys[request[r].name] = r
        \/ \E s \in Requests \ {r} :
             request[s].name = request[r].name /\ request[s].op = "deleteStoredKey"

\* The secret parts of a stored key are only sent to a client that asks for
\* them with storedKey, whether the request succeeded or failed.  There is one
\* exception: a key imported for another plugin which could not be handed to
\* the secrets daemon is sent back in full with the error
\* (cryptorequestprocessor.cpp:1060).  It is not a stored key then.
SecretsStay ==
    \A r \in Requests :
      /\ request[r].op \in StoreOps /\ request[r].reply = "all" =>
           /\ request[r].op = "importStoredKey" /\ request[r].result = "Failed"
           /\ ~InOwnPlugin(r) /\ keys[request[r].name] # r
      /\ request[r].op = "storedKey" =>
           request[r].reply \in {"none", request[r].parts}
====
