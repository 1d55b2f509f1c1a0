------------------------- MODULE CollectionRequests -------------------------
(***************************************************************************)
(* The requests of the secrets daemon which work on a collection: create   *)
(* and delete it, set, get, find and delete its secrets, list its keys,    *)
(* and the checks the crypto daemon makes before it uses or stores a key;  *)
(* and those which work on a standalone secret                             *)
(* (SecretsImpl/secretsrequestprocessor.cpp, pluginfunctionwrappers.cpp,   *)
(* pluginwrapper.cpp).                                                     *)
(*                                                                         *)
(* Each request is a chain of continuations: it reads the metadata of the  *)
(* collection in a job of the pool, finds out in the main thread whether   *)
(* the collection is locked, asks the user for the collection's lock code  *)
(* or for the device lock (m_pendingRequests holds the parameters for      *)
(* that time), derives the key in another job, and gives the operation to  *)
(* the pool.  Other requests go on between any two of these steps.         *)
(*                                                                         *)
(* The state of one name, of a collection or of a standalone secret, is    *)
(* never read by a request for another one, so a behaviour looks at one    *)
(* name.  The secrets of a collection are left out: what an operation      *)
(* finds in the opened collection makes it succeed or fail (for them see   *)
(* PluginWrapper).  Key derivation is injective: a key is                  *)
(* represented by its code.  The daemon is unlocked all the time (for its  *)
(* lock see MasterLock).                                                   *)
(***************************************************************************)
EXTENDS Naturals, Sequences, FiniteSets

CONSTANTS
    Names,       \* names of collections and of standalone secrets
    Standalone,  \* those of standalone secrets
    Encrypted,   \* those kept by an encrypted storage plugin
    SemanticsOf, \* for each name, how it may be created: TRUE = stay unlocked
    Faulty,      \* names for which the metadata or the opened database may fail
    Codes,       \* lock codes the user may enter for a collection
    DeviceKey,   \* the key of the device lock
    EmptyKey,    \* the empty QByteArray
    Null,        \* no collection, no key, no request
    Requests,    \* at most this many requests are made
    OpsOf        \* what each of them may be

ASSUME NamesAssumption ==
    /\ Encrypted \subseteq Names /\ Faulty \subseteq Names
    /\ Standalone \subseteq Names
    /\ SemanticsOf \in [Names -> SUBSET BOOLEAN]
ASSUME KeysAssumption ==
    /\ DeviceKey \notin Codes /\ EmptyKey \notin Codes /\ Null \notin Codes
    /\ DeviceKey # EmptyKey /\ DeviceKey # Null /\ EmptyKey # Null
ASSUME RequestsAssumption ==
    /\ IsFiniteSet(Requests) /\ Null \notin Requests
    /\ OpsOf \in [Requests -> SUBSET STRING]

VARIABLES
    name,       \* the name this behaviour is about, never changes
    collection, \* the stored collection: its metadata and key, or Null
    opened,     \* whether the encrypted storage plugin has it open
    m_collectionEncryptionKeys, \* its cached key, Null if there is none
    secret,     \* the stored standalone secret: its metadata and key, or Null
    m_standaloneSecretEncryptionKeys, \* its cached key, Null if there is none
    m_pendingRequests, \* the type and number of the parameters put aside
    interaction, \* what the authentication plugin asks the user for
    request,    \* how far each request is
    pool,       \* the jobs of the one thread of the secrets pool
    events,     \* finished() signals the main thread has not handled yet
    blocked     \* the request whose handler is in waitForFinished()

vars == <<name, collection, opened, m_collectionEncryptionKeys, secret,
          m_standaloneSecretEncryptionKeys, m_pendingRequests, interaction,
          request, pool, events, blocked>>
storage == <<name, collection, opened, secret>>
caches == <<m_collectionEncryptionKeys, m_standaloneSecretEncryptionKeys>>
dialogs == <<m_pendingRequests, interaction>>

----------------------------------------------------------------------------
Keys == Codes \cup {DeviceKey, EmptyKey}

IsEncrypted == name \in Encrypted

\* CollectionMetadata and SecretMetadata: usesDeviceLockKey, and whether unlockSemantic is
\* DeviceLockKeepUnlocked or CustomLockKeepUnlocked
Metadata == [device : BOOLEAN, keep : BOOLEAN]

\* Only an encrypted storage plugin creates a collection with a key.  With the
\* others the key is whatever a request encrypts a secret with.
NewCollection(metadata, key) ==
    [metadata |-> metadata, key |-> IF IsEncrypted THEN key ELSE EmptyKey]

SecretOps == {"setCollectionSecret", "getCollectionSecret",
              "findCollectionSecrets", "deleteCollectionSecret"}
PreChecks == {"useCollectionKeyPreCheck", "setCollectionKeyPreCheck"}
CreateOps == {"createDeviceLockCollection", "createCustomLockCollection"}
SetStandaloneOps == {"setStandaloneDeviceLockSecret",
                     "setStandaloneCustomLockSecret"}
StandaloneOps == SetStandaloneOps \cup
    {"getStandaloneSecret", "findStandaloneSecrets", "deleteStandaloneSecret"}
Ops == SecretOps \cup PreChecks \cup CreateOps \cup StandaloneOps
         \cup {"deleteCollection", "storedKeyIdentifiers", "userInput"}

\* The types of dialogs in which the user enters the secret itself
UserInputTypes == {"setCollectionUserInputSecret",
                   "setStandaloneDeviceLockUserInputSecret",
                   "setStandaloneCustomLockUserInputSecret"}

Results == {"Pending", "Succeeded", "Failed", "WrongKey", "InternalError"}

\* Null is neither a collection or a secret nor a list of parameters.
ASSUME NullAssumption ==
    /\ Null \notin [metadata : Metadata, key : Keys]
    /\ Null \notin [type : Ops \cup UserInputTypes, size : 1 .. 8]

Blank == [op |-> "none", interactive |-> FALSE, at |-> "start",
          withUi |-> FALSE, metadata |-> Null, key |-> EmptyKey,
          asked |-> FALSE, locked |-> FALSE, result |-> "Pending"]

\* What each variable may be: at most one job, one finished() signal for each
\* request, and parameter lists of the lengths the continuations take.
TypeOK ==
    /\ name \in Names
    /\ collection \in [metadata : Metadata, key : Keys] \cup {Null}
    /\ opened \in BOOLEAN
    /\ m_collectionEncryptionKeys \in Keys \cup {Null}
    /\ secret \in [metadata : Metadata, key : Keys] \cup {Null}
    /\ m_standaloneSecretEncryptionKeys \in Keys \cup {Null}
    /\ m_pendingRequests \in
         [Requests -> [type : Ops \cup UserInputTypes, size : 1 .. 8]
                        \cup {Null}]
    /\ interaction \in [Requests -> {"none", "input", "authentication"}]
    /\ request \in [Requests ->
         [op : Ops \cup {"none"}, interactive : BOOLEAN,
          at : {"start", "metadata", "locked", "asking", "derive", "run",
                "done"},
          withUi : BOOLEAN, metadata : Metadata \cup {Null}, key : Keys,
          asked : BOOLEAN, locked : BOOLEAN, result : Results]]
    /\ pool \in Seq(Requests) /\ Len(pool) <= Cardinality(Requests)
    /\ events \in Seq(Requests) /\ Len(events) <= Cardinality(Requests)
    /\ blocked \in Requests \cup {Null}

\* How something of this name may have been created: with the key of the
\* device lock, or one derived from a code
Creations ==
    {mk \in Metadata \X (Codes \cup {DeviceKey}) :
       mk[1].keep \in SemanticsOf[name] /\ (mk[1].device <=> mk[2] = DeviceKey)}

\* The daemon has just started: a collection of an earlier run is locked.  An
\* encrypted storage plugin has no standalone secrets.
Init ==
    /\ name \in Names
    /\ collection \in {Null} \cup
         IF name \in Standalone THEN {}
         ELSE { NewCollection(mk[1], mk[2]) : mk \in Creations }
    /\ secret \in {Null} \cup
         IF name \in Standalone \ Encrypted
           THEN { [metadata |-> mk[1], key |-> mk[2]] : mk \in Creations } ELSE {}
    /\ opened = FALSE
    /\ m_collectionEncryptionKeys = Null
    /\ m_standaloneSecretEncryptionKeys = Null
    /\ m_pendingRequests = [r \in Requests |-> Null]
    /\ interaction = [r \in Requests |-> "none"]
    /\ request = [r \in Requests |-> Blank]
    /\ pool = <<>>
    /\ events = <<>>
    /\ blocked = Null

----------------------------------------------------------------------------
(* Steps the handlers have in common *)

MainFree == blocked = Null

\* QtConcurrent::run on the pool: state q of r says which job it is
Run(r, q) ==
    /\ request' = [request EXCEPT ![r] = q]
    /\ pool' = Append(pool, r)

\* requestFinished(), which replies to the caller
Finish(r, result) ==
    /\ request' =
         [request EXCEPT ![r] = [Blank EXCEPT !.at = "done", !.result = result]]
    /\ UNCHANGED pool

\* No dialog of r is open and none of its parameters are put aside.
NoDialog(r) ==
    /\ interaction' = [interaction EXCEPT ![r] = "none"]
    /\ m_pendingRequests' = [m_pendingRequests EXCEPT ![r] = Null]

RequiresRelock(metadata) == ~metadata.keep

\* Mutation: the pre-checks put the same parameters aside for both
\* kinds of dialog.
PutAsideSame(kind, type) ==
    CASE type = "createCustomLockCollection" -> 8
      [] type = "findCollectionSecrets" -> 7
      [] type = "storedKeyIdentifiers" -> 6
      [] type \in {"setCollectionUserInputSecret", "deleteCollection"} -> 5
      [] type \in {"setCollectionSecret", "getCollectionSecret",
                   "deleteCollectionSecret", "getStandaloneSecret",
                   "setStandaloneCustomLockUserInputSecret"} -> 4
      [] type \in {"setStandaloneDeviceLockUserInputSecret",
                   "setStandaloneCustomLockSecret"} -> 2
      [] type \in PreChecks -> 2
      [] type = "userInput" -> 1

\* Mutation: the list is not filled.
PutAsideNothing(kind, type) == 0

\* How many parameters m_pendingRequests.insert() puts aside before a dialog
PutAside(kind, type) ==
    CASE type = "createCustomLockCollection" -> 8
      [] type = "findCollectionSecrets" -> 7
      [] type = "storedKeyIdentifiers" -> 6
      [] type \in {"setCollectionUserInputSecret", "deleteCollection"} -> 5
      [] type \in {"setCollectionSecret", "getCollectionSecret",
                   "deleteCollectionSecret", "getStandaloneSecret",
                   "setStandaloneCustomLockUserInputSecret"} -> 4
      [] type \in {"setStandaloneDeviceLockUserInputSecret",
                   "setStandaloneCustomLockSecret"} -> 2
      [] type \in PreChecks /\ kind = "authentication" -> 2
      [] type = "useCollectionKeyPreCheck" /\ kind = "input" -> 5
      [] type = "setCollectionKeyPreCheck" /\ kind = "input" -> 3
      [] type = "userInput" -> 1

\* How many of them userInputInteractionCompleted and authenticationCompleted
\* insist on; 0: it has no continuation for that type
Expected(kind, type) ==
    CASE type \in {"getCollectionSecret", "setCollectionSecret",
                   "deleteCollectionSecret", "getStandaloneSecret"} -> 4
      [] type = "deleteCollection" -> 5
      [] type = "storedKeyIdentifiers" -> 6
      [] type = "findCollectionSecrets" -> 7
      [] type \in PreChecks -> IF kind = "authentication" THEN 2
                               ELSE IF type = "useCollectionKeyPreCheck"
                                    THEN 5 ELSE 3
      [] kind = "input" /\ type = "createCustomLockCollection" -> 8
      [] kind = "input" /\ type = "setCollectionUserInputSecret" -> 5
      [] kind = "input" /\ type = "setStandaloneCustomLockUserInputSecret" -> 4
      [] /\ kind = "input"
         /\ type \in {"setStandaloneDeviceLockUserInputSecret",
                      "setStandaloneCustomLockSecret"} -> 2
      [] kind = "input" /\ type = "userInput" -> 1
      [] OTHER -> 0

\* Mutation: no return after a dialog that could not be started
AskAnyhow(r, q, kind, type) ==
    /\ interaction' = [interaction EXCEPT ![r] = kind]
    /\ m_pendingRequests' = [m_pendingRequests EXCEPT
         ![r] = [type |-> type, size |-> PutAside(kind, type)]]
    /\ \/ /\ request' = [request EXCEPT ![r] = [q EXCEPT !.at = "asking"]]
          /\ UNCHANGED pool
       \/ Finish(r, "Failed")

\* The authentication plugin starts a dialog and the parameters are put
\* aside, or it refuses and the request is over.
Ask(r, q, kind, type) ==
    \/ /\ interaction' = [interaction EXCEPT ![r] = kind]
       /\ m_pendingRequests' = [m_pendingRequests EXCEPT
            ![r] = [type |-> type, size |-> PutAside(kind, type)]]
       /\ request' = [request EXCEPT ![r] = [q EXCEPT !.at = "asking"]]
       /\ UNCHANGED pool
    \/ /\ Finish(r, "Failed")
       /\ NoDialog(r)

\* Without the code, or the device lock, the collection cannot be used.
AskForKey(r) ==
    LET q == request[r] IN
    \/ /\ ~q.interactive
       /\ Finish(r, "Failed")
       /\ NoDialog(r)
    \/ /\ q.interactive
       /\ Ask(r, q, IF q.metadata.device THEN "authentication" ELSE "input",
              q.op)

\* The operation of r goes to the pool with a key.
RunWith(r, q, key) ==
    Run(r, [Blank EXCEPT !.at = "run", !.op = q.op, !.asked = q.asked,
                         !.metadata = q.metadata, !.key = key])

\* The key for a storage plugin is cached now, before it was of any use.
CacheAndRun(r, q, key) ==
    /\ m_collectionEncryptionKeys' =
         IF /\ ~IsEncrypted /\ m_collectionEncryptionKeys = Null
            /\ ~RequiresRelock(q.metadata)
           THEN key ELSE m_collectionEncryptionKeys
    /\ UNCHANGED m_standaloneSecretEncryptionKeys
    /\ RunWith(r, q, key)

setCollectionSecretWithEncryptionKey(r, q, key) == CacheAndRun(r, q, key)
getCollectionSecretWithEncryptionKey(r, q, key) == CacheAndRun(r, q, key)
findCollectionSecretsWithEncryptionKey(r, q, key) == CacheAndRun(r, q, key)
deleteCollectionSecretWithEncryptionKey(r, q, key) == CacheAndRun(r, q, key)

\* For these OperationFinished says what becomes of the cached key.
createCustomLockCollectionWithEncryptionKey(r, q, key) ==
    RunWith(r, q, key) /\ UNCHANGED caches
deleteCollectionWithEncryptionKey(r, q, key) ==
    RunWith(r, q, key) /\ UNCHANGED caches
storedKeyIdentifiersWithEncryptionKey(r, q, key) ==
    RunWith(r, q, key) /\ UNCHANGED caches
setStandaloneCustomLockSecretWithEncryptionKey(r, q, key) ==
    RunWith(r, q, key) /\ UNCHANGED caches
useCollectionKeyPreCheckWithEncryptionKey(r, q, key) ==
    RunWith(r, q, key) /\ UNCHANGED caches
setCollectionKeyPreCheckWithEncryptionKey(r, q, key) ==
    RunWith(r, q, key) /\ UNCHANGED caches

\* A key which is cached already is used instead of the one that was given.
getStandaloneSecretWithEncryptionKey(r, q, key) ==
    LET used == IF ~IsEncrypted /\ m_standaloneSecretEncryptionKeys # Null
                  THEN m_standaloneSecretEncryptionKeys ELSE key IN
    /\ m_standaloneSecretEncryptionKeys' =
         IF IsEncrypted THEN m_standaloneSecretEncryptionKeys ELSE used
    /\ UNCHANGED m_collectionEncryptionKeys
    /\ RunWith(r, q, used)

\* The continuation of the request's own type
WithEncryptionKey(r, q, key) ==
    CASE q.op = "setCollectionSecret" ->
           setCollectionSecretWithEncryptionKey(r, q, key)
      [] q.op = "getCollectionSecret" ->
           getCollectionSecretWithEncryptionKey(r, q, key)
      [] q.op = "findCollectionSecrets" ->
           findCollectionSecretsWithEncryptionKey(r, q, key)
      [] q.op = "deleteCollectionSecret" ->
           deleteCollectionSecretWithEncryptionKey(r, q, key)
      [] q.op = "deleteCollection" ->
           deleteCollectionWithEncryptionKey(r, q, key)
      [] q.op = "storedKeyIdentifiers" ->
           storedKeyIdentifiersWithEncryptionKey(r, q, key)
      [] q.op = "useCollectionKeyPreCheck" ->
           useCollectionKeyPreCheckWithEncryptionKey(r, q, key)
      [] q.op = "setCollectionKeyPreCheck" ->
           setCollectionKeyPreCheckWithEncryptionKey(r, q, key)
      [] q.op = "getStandaloneSecret" ->
           getStandaloneSecretWithEncryptionKey(r, q, key)

\* isCollectionLocked() in the pool, while the main thread waits
CheckLock(r) ==
    /\ Run(r, [request[r] EXCEPT !.at = "locked"])
    /\ blocked' = r
    /\ NoDialog(r)
    /\ UNCHANGED caches

\* The key for a collection of a storage plugin: cached, or asked for
UseCachedKey(r) ==
    /\ \/ /\ m_collectionEncryptionKeys # Null
          /\ WithEncryptionKey(r, request[r], m_collectionEncryptionKeys)
          /\ NoDialog(r)
       \/ /\ m_collectionEncryptionKeys = Null
          /\ AskForKey(r)
          /\ UNCHANGED caches
    /\ UNCHANGED blocked

GetAuthenticationCode(r) ==
    IF IsEncrypted THEN CheckLock(r) ELSE UseCachedKey(r)

----------------------------------------------------------------------------
(* The main thread: requests arrive *)

Arriving(r, op) ==
    /\ MainFree /\ request[r].at = "start" /\ op \in OpsOf[r]
    /\ op \in StandaloneOps <=> name \in Standalone

\* Every request but userInput and the creation of a collection begins by
\* reading the metadata; one with wrong parameters is refused.
Begin(r, q) ==
    /\ Arriving(r, q.op)
    /\ \/ Run(r, q)
       \/ Finish(r, "Failed")
    /\ UNCHANGED <<storage, caches, dialogs, events, blocked>>

\* A request which is never possible
Refuse(r, op) ==
    /\ Arriving(r, op)
    /\ Finish(r, "Failed")
    /\ UNCHANGED <<storage, caches, dialogs, events, blocked>>

ReadMetadata(r, op, interactive) ==
    Begin(r, [Blank EXCEPT !.op = op, !.at = "metadata",
                           !.interactive = interactive])

\* withUi: the secret is what the user will enter
setCollectionSecret(r, interactive, withUi) ==
    Begin(r, [Blank EXCEPT !.op = "setCollectionSecret", !.at = "metadata",
                           !.interactive = interactive, !.withUi = withUi])

getCollectionSecret(r, interactive) ==
    ReadMetadata(r, "getCollectionSecret", interactive)

findCollectionSecrets(r, interactive) ==
    ReadMetadata(r, "findCollectionSecrets", interactive)

deleteCollectionSecret(r, interactive) ==
    ReadMetadata(r, "deleteCollectionSecret", interactive)

deleteCollection(r, interactive) ==
    ReadMetadata(r, "deleteCollection", interactive)

\* The crypto daemon's requests allow the interaction.
storedKeyIdentifiers(r) == ReadMetadata(r, "storedKeyIdentifiers", TRUE)
useCollectionKeyPreCheck(r) == ReadMetadata(r, "useCollectionKeyPreCheck", TRUE)
setCollectionKeyPreCheck(r) == ReadMetadata(r, "setCollectionKeyPreCheck", TRUE)

\* The key of the device lock is read when the request is handled.
createDeviceLockCollection(r, keep) ==
    /\ keep \in SemanticsOf[name]
    /\ Begin(r, [Blank EXCEPT
                   !.op = "createDeviceLockCollection", !.at = "run",
                   !.metadata = [device |-> TRUE, keep |-> keep],
                   !.key = DeviceKey])

\* A request without interaction is refused like one with wrong parameters.
createCustomLockCollection(r, keep) ==
    /\ Arriving(r, "createCustomLockCollection") /\ keep \in SemanticsOf[name]
    /\ Ask(r, [Blank EXCEPT !.op = "createCustomLockCollection",
                            !.metadata = [device |-> FALSE, keep |-> keep]],
           "input", "createCustomLockCollection")
    /\ UNCHANGED <<storage, caches, events, blocked>>

userInput(r) ==
    /\ Arriving(r, "userInput")
    /\ Ask(r, [Blank EXCEPT !.op = "userInput"], "input", "userInput")
    /\ UNCHANGED <<storage, caches, events, blocked>>

\* Encrypted storage plugins cannot hold such secrets.
setStandaloneDeviceLockSecret(r, keep, withUi) ==
    /\ keep \in SemanticsOf[name]
    /\ IF IsEncrypted THEN Refuse(r, "setStandaloneDeviceLockSecret")
       ELSE Begin(r, [Blank EXCEPT
                        !.op = "setStandaloneDeviceLockSecret",
                        !.at = "metadata", !.withUi = withUi,
                        !.metadata = [device |-> TRUE, keep |-> keep]])

setStandaloneCustomLockSecret(r, keep, withUi) ==
    /\ keep \in SemanticsOf[name]
    /\ Begin(r, [Blank EXCEPT
                   !.op = "setStandaloneCustomLockSecret", !.at = "metadata",
                   !.metadata = [device |-> FALSE, keep |-> keep],
                   !.withUi = withUi])

getStandaloneSecret(r, interactive) ==
    ReadMetadata(r, "getStandaloneSecret", interactive)

deleteStandaloneSecret(r) == ReadMetadata(r, "deleteStandaloneSecret", FALSE)

\* OperationNotSupportedError
findStandaloneSecrets(r) == Refuse(r, "findStandaloneSecrets")

----------------------------------------------------------------------------
(* The main thread: jobs have finished *)

\* The next finished() signal is that of r's job
Finished(r, at) ==
    /\ MainFree /\ events # <<>> /\ r = Head(events) /\ request[r].at = at
    /\ events' = Tail(events)
    /\ UNCHANGED storage

\* There is no such collection, or its owner is someone else; a standalone
\* secret that is to be set exists already, or its dialog is impossible.
RefusedByMetadata(r) ==
    /\ Finished(r, "metadata")
    /\ request[r].op = "getStandaloneSecret" => request[r].result = "Failed"
    /\ request[r].op \in SetStandaloneOps =>
         request[r].result = "Succeeded" \/ request[r].withUi
    /\ Finish(r, "Failed")
    /\ UNCHANGED <<caches, dialogs, blocked>>

setCollectionSecretWithMetadata(r) ==
    /\ Finished(r, "metadata") /\ request[r].result = "Succeeded"
    /\ request[r].op = "setCollectionSecret"
    /\ IF request[r].withUi
         THEN /\ Ask(r, request[r], "input", "setCollectionUserInputSecret")
              /\ UNCHANGED <<caches, blocked>>
         ELSE GetAuthenticationCode(r)

\* The requests which need the key for a storage plugin
UseKeyWithMetadata(r, op) ==
    /\ Finished(r, "metadata") /\ request[r].result = "Succeeded"
    /\ request[r].op = op
    /\ GetAuthenticationCode(r)

getCollectionSecretWithMetadata(r) ==
    UseKeyWithMetadata(r, "getCollectionSecret")

findCollectionSecretsWithMetadata(r) ==
    UseKeyWithMetadata(r, "findCollectionSecrets")

deleteCollectionSecretWithMetadata(r) ==
    UseKeyWithMetadata(r, "deleteCollectionSecret")

useCollectionKeyPreCheckWithMetadata(r) ==
    UseKeyWithMetadata(r, "useCollectionKeyPreCheck")

setCollectionKeyPreCheckWithMetadata(r) ==
    UseKeyWithMetadata(r, "setCollectionKeyPreCheck")

\* The two for which a storage plugin's collection is never locked
UsePluginWithMetadata(r, op) ==
    /\ Finished(r, "metadata") /\ request[r].result = "Succeeded"
    /\ request[r].op = op
    /\ IF IsEncrypted
         THEN CheckLock(r)
         ELSE /\ WithEncryptionKey(r, request[r], EmptyKey)
              /\ UNCHANGED <<dialogs, blocked>>

deleteCollectionWithMetadata(r) ==
    UsePluginWithMetadata(r, "deleteCollection")

storedKeyIdentifiersWithMetadata(r) ==
    UsePluginWithMetadata(r, "storedKeyIdentifiers")

\* "invalid secret means that it doesn't yet exist, which is what we want"
SetStandaloneWithMetadata(r, op) ==
    /\ Finished(r, "metadata") /\ request[r].result = "Failed"
    /\ request[r].op = op
    /\ UNCHANGED <<caches, blocked>>

writeStandaloneDeviceLockSecret(r) == RunWith(r, request[r], DeviceKey)

setStandaloneDeviceLockSecretWithMetadata(r) ==
    /\ SetStandaloneWithMetadata(r, "setStandaloneDeviceLockSecret")
    /\ IF request[r].withUi
         THEN Ask(r, request[r], "input",
                  "setStandaloneDeviceLockUserInputSecret")
         ELSE writeStandaloneDeviceLockSecret(r) /\ UNCHANGED dialogs

setStandaloneCustomLockSecretGetAuthenticationCode(r) ==
    Ask(r, request[r], "input", "setStandaloneCustomLockSecret")

setStandaloneCustomLockSecretWithMetadata(r) ==
    /\ SetStandaloneWithMetadata(r, "setStandaloneCustomLockSecret")
    /\ IF request[r].withUi
         THEN Ask(r, request[r], "input",
                  "setStandaloneCustomLockUserInputSecret")
         ELSE setStandaloneCustomLockSecretGetAuthenticationCode(r)

getStandaloneSecretWithMetadata(r) ==
    /\ Finished(r, "metadata") /\ request[r].result = "Succeeded"
    /\ request[r].op = "getStandaloneSecret"
    /\ \/ /\ m_standaloneSecretEncryptionKeys # Null
          /\ getStandaloneSecretWithEncryptionKey(
               r, request[r], m_standaloneSecretEncryptionKeys)
          /\ UNCHANGED dialogs
       \/ /\ m_standaloneSecretEncryptionKeys = Null
          /\ AskForKey(r)
          /\ UNCHANGED caches
    /\ UNCHANGED blocked

\* Neither the user nor a key is needed.
deleteStandaloneSecretWithMetadata(r) ==
    /\ Finished(r, "metadata") /\ request[r].result = "Succeeded"
    /\ request[r].op = "deleteStandaloneSecret"
    /\ RunWith(r, request[r], EmptyKey)
    /\ UNCHANGED <<caches, dialogs, blocked>>

\* waitForFinished() returns.  deleteCollectionSecret passes the device lock
\* key for an unlocked collection, the others an empty one.
LockChecked(r) ==
    /\ blocked = r /\ \A i \in 1 .. Len(pool) : pool[i] # r
    /\ blocked' = Null
    /\ LET q == request[r] IN
       \/ /\ q.result # "Succeeded"
          /\ Finish(r, "Failed")
          /\ UNCHANGED <<caches, dialogs>>
       \/ /\ q.result = "Succeeded" /\ q.locked
          /\ AskForKey(r)
          /\ UNCHANGED caches
       \/ /\ q.result = "Succeeded" /\ ~q.locked
          /\ WithEncryptionKey(r, q, IF q.op = "deleteCollectionSecret"
                                       THEN DeviceKey ELSE EmptyKey)
          /\ UNCHANGED dialogs
    /\ UNCHANGED <<storage, events>>

\* The key was derived from the code: the request goes on with it.
KeyDerived(r, op, WithKey(_, _, _)) ==
    /\ Finished(r, "derive") /\ request[r].op = op
    /\ \/ /\ request[r].result = "Succeeded"
          /\ WithKey(r, request[r], request[r].key)
       \/ /\ request[r].result # "Succeeded"
          /\ Finish(r, "Failed")
          /\ UNCHANGED caches
    /\ UNCHANGED <<dialogs, blocked>>

createCustomLockCollectionWithAuthenticationCode(r) ==
    KeyDerived(r, "createCustomLockCollection",
               createCustomLockCollectionWithEncryptionKey)
storedKeyIdentifiersWithAuthenticationCode(r) ==
    KeyDerived(r, "storedKeyIdentifiers", storedKeyIdentifiersWithEncryptionKey)
setCollectionSecretWithAuthenticationCode(r) ==
    KeyDerived(r, "setCollectionSecret", setCollectionSecretWithEncryptionKey)
getCollectionSecretWithAuthenticationCode(r) ==
    KeyDerived(r, "getCollectionSecret", getCollectionSecretWithEncryptionKey)
findCollectionSecretsWithAuthenticationCode(r) ==
    KeyDerived(r, "findCollectionSecrets",
               findCollectionSecretsWithEncryptionKey)
deleteCollectionSecretWithAuthenticationCode(r) ==
    KeyDerived(r, "deleteCollectionSecret",
               deleteCollectionSecretWithEncryptionKey)
useCollectionKeyPreCheckWithAuthenticationCode(r) ==
    KeyDerived(r, "useCollectionKeyPreCheck",
               useCollectionKeyPreCheckWithEncryptionKey)
setCollectionKeyPreCheckWithAuthenticationCode(r) ==
    KeyDerived(r, "setCollectionKeyPreCheck",
               setCollectionKeyPreCheckWithEncryptionKey)
setStandaloneCustomLockSecretWithAuthenticationCode(r) ==
    KeyDerived(r, "setStandaloneCustomLockSecret",
               setStandaloneCustomLockSecretWithEncryptionKey)
getStandaloneSecretWithAuthenticationCode(r) ==
    KeyDerived(r, "getStandaloneSecret", getStandaloneSecretWithEncryptionKey)

\* The last step of every request: what the operation's success means for
\* the cached key.  storedKeyIdentifiers inserts the key it was given, which
\* is empty unless the collection was locked.
CachedKey(q) ==
    CASE q.result # "Succeeded" -> m_collectionEncryptionKeys
      [] q.op \in CreateOps /\ ~IsEncrypted /\ q.metadata.keep -> q.key
      [] q.op = "deleteCollection" -> Null
      [] /\ q.op = "storedKeyIdentifiers"
         /\ ~(q.asked /\ RequiresRelock(q.metadata)) -> q.key
      [] OTHER -> m_collectionEncryptionKeys

CachedStandaloneKey(q) ==
    CASE q.result # "Succeeded" \/ IsEncrypted ->
           m_standaloneSecretEncryptionKeys
      [] q.op \in SetStandaloneOps -> q.key
      [] q.op = "deleteStandaloneSecret" -> Null
      [] OTHER -> m_standaloneSecretEncryptionKeys

OperationFinished(r) ==
    /\ Finished(r, "run")
    /\ m_collectionEncryptionKeys' = CachedKey(request[r])
    /\ m_standaloneSecretEncryptionKeys' = CachedStandaloneKey(request[r])
    /\ Finish(r, request[r].result)
    /\ UNCHANGED <<dialogs, blocked>>

----------------------------------------------------------------------------
(* The main thread: the user has answered *)

\* result.code() is not Succeeded: the dialog was cancelled or failed.  The
\* parameters stay where they are.
InteractionFailed(r) ==
    /\ MainFree /\ interaction[r] # "none"
    /\ interaction' = [interaction EXCEPT ![r] = "none"]
    /\ Finish(r, "Failed")
    /\ UNCHANGED <<storage, caches, m_pendingRequests,
                   events, blocked>>

\* The request that was put aside is the one the dialog was for.
Recognised(r) ==
    /\ m_pendingRequests[r] # Null
    /\ m_pendingRequests[r].size =
         Expected(interaction[r], m_pendingRequests[r].type)

\* A collection is deleted by one job which derives the key too.
deleteCollectionWithLockCode(r, q) == Run(r, [q EXCEPT !.at = "run"])

\* The user has entered the secret itself or the code it is locked with.  The
\* first needs a key now, the code goes to ...WithAuthenticationCode, which
\* gives its derivation to the pool.
userInputInteractionCompleted(r, code) ==
    /\ MainFree /\ interaction[r] = "input"
    /\ LET type == IF Recognised(r) THEN m_pendingRequests[r].type ELSE "none"
           q == [Blank EXCEPT !.op = request[r].op, !.key = code,
                              !.metadata = request[r].metadata, !.asked = TRUE]
       IN
       \/ /\ type = "setCollectionUserInputSecret"
          /\ GetAuthenticationCode(r)
       \/ /\ type = "setStandaloneCustomLockUserInputSecret"
          /\ setStandaloneCustomLockSecretGetAuthenticationCode(r)
          /\ UNCHANGED <<caches, blocked>>
       \/ /\ type \notin {"setCollectionUserInputSecret",
                          "setStandaloneCustomLockUserInputSecret"}
          /\ CASE type = "none" -> Finish(r, "InternalError")
               [] type = "userInput" -> Finish(r, "Succeeded")
               [] type = "deleteCollection" ->
                    deleteCollectionWithLockCode(r, q)
               [] type = "setStandaloneDeviceLockUserInputSecret" ->
                    writeStandaloneDeviceLockSecret(r)
               [] OTHER -> Run(r, [q EXCEPT !.at = "derive"])
          /\ NoDialog(r)
          /\ UNCHANGED <<caches, blocked>>
    /\ UNCHANGED <<storage, events>>

authenticationCompleted(r) ==
    /\ MainFree /\ interaction[r] = "authentication"
    /\ IF Recognised(r)
         THEN WithEncryptionKey(r, [request[r] EXCEPT !.asked = TRUE],
                                DeviceKey)
         ELSE /\ Finish(r, "InternalError")
              /\ UNCHANGED caches
    /\ NoDialog(r)
    /\ UNCHANGED <<storage, events, blocked>>

----------------------------------------------------------------------------
(* The thread of the pool *)

NextJob(r, at) == pool # <<>> /\ r = Head(pool) /\ request[r].at = at

\* The next job belongs to r, which it leaves in state q
Job(r, at, q) ==
    /\ NextJob(r, at)
    /\ pool' = Tail(pool)
    /\ request' = [request EXCEPT ![r] = q]
    /\ UNCHANGED <<name, caches, dialogs, blocked>>

Signals(r) == events' = Append(events, r)

collectionMetadata(r) ==
    /\ name \notin Standalone
    /\ Job(r, "metadata",
           IF collection = Null
             THEN [request[r] EXCEPT !.result = "Failed"]
             ELSE [request[r] EXCEPT !.result = "Succeeded",
                                     !.metadata = collection.metadata])
    /\ Signals(r)
    /\ UNCHANGED <<collection, opened, secret>>

\* A query that fails looks like a secret that does not exist.  The metadata of
\* a request that sets the secret are its own.
secretMetadata(r) ==
    /\ name \in Standalone
    /\ \E found \in IF secret = Null THEN {FALSE}
                    ELSE {TRUE} \cup IF name \in Faulty THEN {FALSE} ELSE {} :
         Job(r, "metadata",
             [request[r] EXCEPT
                !.result = IF found THEN "Succeeded" ELSE "Failed",
                !.metadata = IF found /\ request[r].op \notin SetStandaloneOps
                               THEN secret.metadata ELSE request[r].metadata])
    /\ Signals(r)
    /\ UNCHANGED <<collection, opened, secret>>

\* Mutation: the file of a collection that was never opened
\* is not looked for.
isCollectionLockedIfOpened(r) ==
    /\ Job(r, "locked", [request[r] EXCEPT !.result = "Succeeded",
                                           !.locked = FALSE])
    /\ UNCHANGED <<collection, opened, secret, events>>

\* Nobody but waitForFinished() watches this job.
isCollectionLocked(r) ==
    /\ Job(r, "locked",
           [request[r] EXCEPT
              !.result = IF collection = Null THEN "Failed" ELSE "Succeeded",
              !.locked = ~opened])
    /\ UNCHANGED <<collection, opened, secret, events>>

deriveKeyFromCode(r) ==
    /\ \E result \in {"Succeeded", "Failed"} :
         Job(r, "derive", [request[r] EXCEPT !.result = result])
    /\ Signals(r)
    /\ UNCHANGED <<collection, opened, secret>>

\* How an operation may end: its result, the collection, whether it is open
Outcome(result, c, o) == [result |-> result, collection |-> c, opened |-> o]

Unchanged(results) == { Outcome(x, collection, opened) : x \in results }

\* Both wrappers' createCollection; a collection that is to be relocked is
\* closed at once.
Created(q) ==
    IF collection # Null
      THEN Unchanged({"Failed"})
      ELSE Unchanged({"Failed"}) \cup
             { Outcome("Succeeded", NewCollection(q.metadata, q.key),
                       IsEncrypted /\ ~RequiresRelock(q.metadata)) }

\* removeCollection closes the database before it removes the file, and does
\* neither when the metadata cannot be deleted.
Removed ==
    { Outcome("Succeeded", Null, FALSE), Outcome("Failed", collection, FALSE) }
      \cup (IF name \in Faulty
              THEN {Outcome("Failed", collection, IsEncrypted)} ELSE {})

\* Mutation: relocks without asking who has unlocked the collection
UsedRelocksAlways(q) ==
    { Outcome(x, collection, ~RequiresRelock(q.metadata)) :
        x \in {"Succeeded", "Failed"} }

\* Mutation: relocks after success only
UsedRelocksOnSuccess(q) ==
    { Outcome(x, collection,
              opened \/ ~RequiresRelock(q.metadata) \/ x = "Failed") :
        x \in {"Succeeded", "Failed"} }

\* The collection is open: the operation finds what it needs or not.  A
\* collection it has unlocked itself is locked again if its metadata said so
\* when the request read them; storedKeyIdentifiers does so after success only.
Used(q) ==
    { Outcome(x, collection, opened \/ ~RequiresRelock(q.metadata)) :
        x \in {"Succeeded", "Failed"} }
      \cup (IF q.op = "storedKeyIdentifiers" /\ name \in Faulty
              THEN {Outcome("Failed", collection, TRUE)} ELSE {})

\* EncryptedStoragePluginFunctionWrapper: unlock..., with setEncryptionKey;
\* after a wrong key the collection is closed.
EncryptedOutcomes(q) ==
    CASE q.op \in CreateOps -> Created(q)
      [] q.op \notin CreateOps /\ collection = Null -> Unchanged({"Failed"})
      [] /\ q.op \notin CreateOps /\ collection # Null
         /\ ~opened /\ q.key # collection.key -> Unchanged({"WrongKey"})
      [] OTHER -> IF q.op = "deleteCollection" THEN Removed ELSE Used(q)

\* StoragePluginFunctionWrapper: the key is for the encryption plugin, which
\* refuses an empty one.  storedKeyIdentifiers is a query of the metadata.
PlainOutcomes(q) ==
    CASE q.op \in CreateOps -> Created(q)
      [] q.op = "deleteCollection" -> Removed
      [] q.op = "storedKeyIdentifiers" -> Unchanged({"Succeeded"})
      [] \/ /\ q.op \in {"setCollectionSecret", "getCollectionSecret"}
            /\ q.key = EmptyKey \/ collection = Null
         \/ q.op \in PreChecks /\ collection = Null -> Unchanged({"Failed"})
      [] OTHER -> Unchanged({"Succeeded", "Failed"})

RunOperation(r) ==
    /\ NextJob(r, "run") /\ name \notin Standalone
    /\ \E o \in IF IsEncrypted THEN EncryptedOutcomes(request[r])
                ELSE PlainOutcomes(request[r]) :
         /\ Job(r, "run", [request[r] EXCEPT !.result = o.result])
         /\ collection' = o.collection
         /\ opened' = o.opened
    /\ UNCHANGED secret
    /\ Signals(r)

\* encryptAndStoreSecret, getAndDecryptSecret, removeSecret, for a storage
\* plugin: the result and what is stored then.  A secret that exists is not
\* written over, and with another key than its own it is not decrypted.
StandaloneOutcomes(q) ==
    CASE q.op \in SetStandaloneOps ->
           { <<"Failed", secret>> } \cup
             (IF secret # Null THEN {}
              ELSE { <<"Succeeded", [metadata |-> q.metadata, key |-> q.key]>> })
      [] q.op = "deleteStandaloneSecret" ->
           { <<"Succeeded", Null>>, <<"Failed", secret>> }
      [] q.op = "getStandaloneSecret" /\ secret = Null ->
           { <<"Failed", secret>> }
      [] q.op = "getStandaloneSecret" /\ secret # Null ->
           IF q.key # secret.key THEN { <<"WrongKey", secret>> }
           ELSE { <<"Succeeded", secret>>, <<"Failed", secret>> }

\* The encrypted storage plugin "doesn't support standalone secret operations".
RunStandaloneOperation(r) ==
    /\ NextJob(r, "run") /\ name \in Standalone
    /\ \E o \in IF IsEncrypted THEN { <<"Failed", secret>> }
                ELSE StandaloneOutcomes(request[r]) :
         /\ Job(r, "run", [request[r] EXCEPT !.result = o[1]])
         /\ secret' = o[2]
    /\ UNCHANGED <<collection, opened>>
    /\ Signals(r)

----------------------------------------------------------------------------
\* Every request was answered.
Stopped ==
    /\ \A r \in Requests : request[r].at = "done"
    /\ UNCHANGED vars

Arrives(r) ==
    \/ \E i, u \in BOOLEAN : setCollectionSecret(r, i, u)
    \/ \E i \in BOOLEAN : getCollectionSecret(r, i)
    \/ \E i \in BOOLEAN : findCollectionSecrets(r, i)
    \/ \E i \in BOOLEAN : deleteCollectionSecret(r, i)
    \/ \E i \in BOOLEAN : deleteCollection(r, i)
    \/ storedKeyIdentifiers(r)
    \/ useCollectionKeyPreCheck(r)
    \/ setCollectionKeyPreCheck(r)
    \/ \E keep \in BOOLEAN : createDeviceLockCollection(r, keep)
    \/ \E keep \in BOOLEAN : createCustomLockCollection(r, keep)
    \/ userInput(r)
    \/ \E k, u \in BOOLEAN : setStandaloneDeviceLockSecret(r, k, u)
    \/ \E k, u \in BOOLEAN : setStandaloneCustomLockSecret(r, k, u)
    \/ \E i \in BOOLEAN : getStandaloneSecret(r, i)
    \/ findStandaloneSecrets(r)
    \/ deleteStandaloneSecret(r)

MainThread(r) ==
    \/ RefusedByMetadata(r)
    \/ setCollectionSecretWithMetadata(r)
    \/ getCollectionSecretWithMetadata(r)
    \/ findCollectionSecretsWithMetadata(r)
    \/ deleteCollectionSecretWithMetadata(r)
    \/ useCollectionKeyPreCheckWithMetadata(r)
    \/ setCollectionKeyPreCheckWithMetadata(r)
    \/ deleteCollectionWithMetadata(r)
    \/ storedKeyIdentifiersWithMetadata(r)
    \/ setStandaloneDeviceLockSecretWithMetadata(r)
    \/ setStandaloneCustomLockSecretWithMetadata(r)
    \/ getStandaloneSecretWithMetadata(r)
    \/ deleteStandaloneSecretWithMetadata(r)
    \/ LockChecked(r)
    \/ createCustomLockCollectionWithAuthenticationCode(r)
    \/ storedKeyIdentifiersWithAuthenticationCode(r)
    \/ setCollectionSecretWithAuthenticationCode(r)
    \/ getCollectionSecretWithAuthenticationCode(r)
    \/ findCollectionSecretsWithAuthenticationCode(r)
    \/ deleteCollectionSecretWithAuthenticationCode(r)
    \/ useCollectionKeyPreCheckWithAuthenticationCode(r)
    \/ setCollectionKeyPreCheckWithAuthenticationCode(r)
    \/ setStandaloneCustomLockSecretWithAuthenticationCode(r)
    \/ getStandaloneSecretWithAuthenticationCode(r)
    \/ OperationFinished(r)

User(r) ==
    \/ InteractionFailed(r)
    \/ \E code \in Codes : userInputInteractionCompleted(r, code)
    \/ authenticationCompleted(r)

Pool(r) ==
    \/ collectionMetadata(r)
    \/ secretMetadata(r)
    \/ isCollectionLocked(r)
    \/ deriveKeyFromCode(r)
    \/ RunOperation(r)
    \/ RunStandaloneOperation(r)

Next ==
    \/ \E r \in Requests : Arrives(r) \/ MainThread(r) \/ User(r) \/ Pool(r)
    \/ Stopped

Spec == Init /\ [][Next]_vars

----------------------------------------------------------------------------
(* Properties *)

Count(r, s) == Cardinality({ i \in 1 .. Len(s) : s[i] = r })

\* A request that was made is in one place: a job of the pool, a finished()
\* signal, the handler that waits for the lock check, a dialog, or its reply.
\* So no step of the chain of continuations loses it, and none answers it and
\* goes on.
OneContinuation ==
    \A r \in Requests : request[r].at # "start" =>
      Count(r, pool) + Count(r, events)
        + (IF blocked = r /\ Count(r, pool) = 0 THEN 1 ELSE 0)
        + (IF interaction[r] # "none" THEN 1 ELSE 0)
        + (IF request[r].at = "done" THEN 1 ELSE 0) = 1

\* A dialog's completion always finds the parameters it needs: no request is
\* answered with "Internal error: incorrect parameter count!".
NoInternalError ==
    \A r \in Requests : request[r].result # "InternalError"

\* A request on a collection whose user was never asked for the key is never
\* told that the key was wrong: what the lock check saw is still so when the
\* operation runs.
NeverAskedNeverWrong ==
    name \notin Standalone => \A r \in Requests :
      request[r].at = "run" /\ request[r].result = "WrongKey" =>
        request[r].asked

\* A collection of an encrypted storage plugin that is to be relocked after
\* each access is used only by requests whose user has entered the code or
\* passed the device lock, however many requests are under way.
EveryAccessAsks ==
    IsEncrypted /\ SemanticsOf[name] = {FALSE} /\ name \notin Faulty =>
      /\ ~opened
      /\ \A r \in Requests :
           /\ request[r].at = "run" /\ request[r].result = "Succeeded"
           /\ request[r].op \notin CreateOps
           => request[r].asked

\* No request but a deletion closes a collection that is open, whatever the
\* metadata it has read say, which may be those of an earlier collection.
KeepsUnlocked ==
    [][ opened /\ collection' = collection
          /\ ~(pool # <<>> /\ request[Head(pool)].op = "deleteCollection")
        => opened' ]_vars

\* A collection of a storage plugin is never used with the empty key: the key
\* that is cached for it is one the user or the device lock provided.  Does not
\* hold: storedKeyIdentifiers puts the empty key into the cache.
UsableKeys ==
    ~IsEncrypted => m_collectionEncryptionKeys # EmptyKey

\* The key that is cached for a standalone secret is the one it is stored with.
\* Does not hold: getStandaloneSecret caches the key of the code the user has
\* entered before it tries it, and nobody is asked again until the secret is
\* deleted or the daemon is started again.
FittingKeys ==
    secret # Null /\ m_standaloneSecretEncryptionKeys # Null =>
      m_standaloneSecretEncryptionKeys = secret.key

=============================================================================
