--------------------------- MODULE PluginWrapper ---------------------------
(***************************************************************************)
(* A storage plugin and the daemon's metadata about its content            *)
(* (SecretsImpl/pluginwrapper.cpp, metadatadb.cpp): every operation that   *)
(* changes the plugin's collections and secrets also changes the metadata  *)
(* database, in a transaction that is committed after the plugin's own     *)
(* change, and initialize() brings the metadata in line with the plugin    *)
(* again, after a stop between the two.                                    *)
(*                                                                         *)
(* The operations run one at a time, in the one thread of the secrets      *)
(* pool.  The model is of both wrappers: StoragePluginWrapper, whose       *)
(* collections are never locked and which keeps standalone secrets, and    *)
(* EncryptedStoragePluginWrapper, with the behaviour of the sqlite and the *)
(* sqlcipher plugins, which are never locked as a whole.  The content of a *)
(* secret is left out, and of its metadata all but where it comes from: a  *)
(* client's request, or initialize(), which can only guess it.             *)
(***************************************************************************)
EXTENDS Database

CONSTANTS
    Collections,       \* names of collections
    Standalone,        \* the notional collection of standalone secrets
    Secrets,           \* names of secrets
    MaxCrashes,        \* bound on the times the daemon is stopped
    MaxFailures,       \* bound on the plugin's operations that fail
    MaxTxFailures      \* bound on SQLite's BEGINs and COMMITs that fail

ASSUME NamesAssumption == Standalone \notin Collections
ASSUME BoundsAssumption == {MaxCrashes, MaxFailures, MaxTxFailures} \subseteq Nat

VARIABLES
    encrypted,         \* whether this is an EncryptedStoragePluginWrapper
    store,             \* the plugin's content: a set of items
    db,                \* the connection to the metadata database
    isOpen,            \* whether it is open, which is: not master-locked
    unlocked,          \* the collections open in the (encrypted) plugin
    m_initialized,
    job,               \* the running operation
    told,              \* history: what clients were told about each item
    crashes, failures, txFailures   \* history: how many there were

vars == <<encrypted, store, db, isOpen, unlocked, m_initialized, job, told,
          crashes, failures, txFailures>>
-----------------------------------------------------------------------------
\* A collection c is the item <<c>>, a secret s of it the item <<c, s>>.
CollectionItems == {<<c>> : c \in Collections}
SecretItems == Collections \X Secrets
StandaloneItems == {Standalone} \X Secrets
Items == CollectionItems \cup SecretItems \cup StandaloneItems

ItemsOf(c) == {<<c>>} \cup ({c} \X Secrets)

\* A row of the metadata database, by the origin of what it says.
Origin == {"none", "client", "imported"}
Metadata == [Items -> Origin]

Kinds == {"createCollection", "removeCollection", "setSecret", "removeSecret"}
NoJob == [kind |-> "none"]
Job == {NoJob} \cup [kind : Kinds, item : Items, at : {"plugin", "commit"}]

Quiet == job = NoJob

Usable(c, ul) == encrypted => c \in ul

\* What the running or finished operation is about.
Concerned(j) ==
    IF j.kind = "removeCollection" THEN ItemsOf(j.item[1]) ELSE {j.item}

\* What SQLite does, within the bound.
Bounded(outcomes) == {o \in outcomes : o.failed => txFailures < MaxTxFailures}
Failed(o) == IF o.failed THEN txFailures + 1 ELSE txFailures
-----------------------------------------------------------------------------
(* initialize(): the metadata of everything the plugin lists. *)

\* The plugin lists the secrets of the collections which are not locked, when
\* ul are the unlocked ones.
Known(c, ul) == Usable(c, ul)

\* Mutation: the secrets of locked collections, which the plugin does not list,
\* are taken for deleted.
ResyncedAsListed(metadata, ul) ==
    [i \in Items |->
        IF i \in StandaloneItems THEN metadata[i]
        ELSE IF \/ i \notin store \/ <<i[1]>> \notin store
                \/ i \in SecretItems /\ ~Known(i[1], ul) THEN "none"
        ELSE IF metadata[i] = "none" THEN "imported" ELSE metadata[i]]

\* initializeCollectionsFromPluginData, initializeSecretsFromPluginData.  Rows
\* of collections the plugin does not have are deleted with their secrets;
\* the notional standalone collection is listed by neither side.
Resynced(metadata, ul) ==
    [i \in Items |->
        IF \/ i \in StandaloneItems
           \/ i \in SecretItems /\ <<i[1]>> \in store /\ ~Known(i[1], ul)
        THEN metadata[i]
        ELSE IF i \notin store \/ <<i[1]>> \notin store THEN "none"
        ELSE IF metadata[i] = "none" THEN "imported" ELSE metadata[i]]

\* Mutation: locked collections are not looked at again.
InitializedAnyhow(ul) == TRUE

\* Whether nothing is left to learn, when the collections ul are unlocked.
InitializedWhen(ul) ==
    encrypted => \A c \in Collections : <<c>> \in store => c \in ul

\* initialize() on connection d.  The result of the commit is only logged.
Initialize(d) ==
    \/ /\ m_initialized
       /\ db' = d
       /\ UNCHANGED <<m_initialized, txFailures>>
    \/ /\ ~m_initialized
       /\ \E b \in Bounded(BeginTransaction(d)) :
             \/ /\ ~b.ok
                /\ db' = b.db
                /\ txFailures' = Failed(b)
                /\ UNCHANGED m_initialized
             \/ /\ b.ok
                /\ \E e \in Bounded(CommitTransaction(Written(b.db, Resynced(b.db.view, unlocked')))) :
                      /\ db' = e.db
                      /\ txFailures' = Failed(e)
                /\ m_initialized' = InitializedWhen(unlocked')
-----------------------------------------------------------------------------
\* The daemon's first start: nothing is stored, nothing is open.
Init ==
    /\ encrypted \in BOOLEAN
    /\ store = {}
    /\ db = Opened([i \in Items |-> "none"])
    /\ isOpen = FALSE
    /\ unlocked = {}
    /\ m_initialized = FALSE
    /\ job = NoJob
    /\ told = [i \in Items |-> "nothing"]
    /\ crashes = 0 /\ failures = 0 /\ txFailures = 0

\* masterUnlock with the right key.
MasterUnlock ==
    /\ Quiet /\ ~isOpen
    /\ isOpen' = TRUE
    /\ unlocked' = unlocked
    /\ Initialize(db)
    /\ UNCHANGED <<encrypted, store, job, told, crashes, failures>>

\* masterLock closes the connection.
MasterLock ==
    /\ Quiet /\ isOpen
    /\ isOpen' = FALSE
    /\ db' = Closed(db)
    /\ UNCHANGED <<encrypted, store, unlocked, m_initialized, job, told, crashes,
                   failures, txFailures>>

\* setEncryptionKey of a collection: with the right key it is opened, with a
\* wrong or an empty key it is closed.
SetEncryptionKey(c, opens) ==
    /\ Quiet /\ isOpen /\ encrypted /\ <<c>> \in store
    /\ unlocked' = IF opens THEN unlocked \cup {c} ELSE unlocked \ {c}
    /\ Initialize(db)
    /\ UNCHANGED <<encrypted, store, isOpen, job, told, crashes, failures>>
-----------------------------------------------------------------------------
(* The operations which change collections and secrets: the metadata is    *)
(* changed in a transaction, then the plugin, then it is committed.        *)

\* The checks made before the transaction is begun.
Allowed(kind, i) ==
    /\ kind \in {"createCollection", "removeCollection"} <=> i \in CollectionItems
    /\ kind = "createCollection" => db.view[i] = "none"
    /\ kind \in {"setSecret", "removeSecret"} =>
          IF encrypted THEN i[1] \in unlocked
          ELSE kind = "setSecret" =>
                 /\ i \in SecretItems => db.view[<<i[1]>>] # "none"
                 /\ db.view[i] = "none"

\* The metadata operation violates a constraint of the tables.
Violates(kind, i, metadata) ==
    /\ kind = "setSecret"
    /\ \/ metadata[i] # "none"
       \/ i \in SecretItems /\ metadata[<<i[1]>>] = "none"

\* insert and delete; deleting a collection deletes the rows of its secrets.
Changed(kind, i, metadata) ==
    IF kind \in {"createCollection", "setSecret"} THEN [metadata EXCEPT ![i] = "client"]
    ELSE [j \in Items |-> IF j = i \/ (kind = "removeCollection" /\ j \in ItemsOf(i[1]))
                          THEN "none" ELSE metadata[j]]

Start(kind, i) ==
    /\ Quiet /\ isOpen /\ Allowed(kind, i)
    /\ \E b \in Bounded(BeginTransaction(db)) :
          /\ txFailures' = Failed(b)
          /\ \/ /\ ~b.ok
                /\ db' = b.db
                /\ UNCHANGED job
             \/ /\ b.ok /\ Violates(kind, i, b.db.view)
                /\ db' = RolledBack(b.db)
                /\ UNCHANGED job
             \/ /\ b.ok /\ ~Violates(kind, i, b.db.view)
                /\ db' = Written(b.db, Changed(kind, i, b.db.view))
                /\ job' = [kind |-> kind, item |-> i, at |-> "plugin"]
    /\ UNCHANGED <<encrypted, store, isOpen, unlocked, m_initialized, told, crashes,
                   failures>>

\* The plugin refuses to create what it has, and to put a secret into a
\* collection which it does not have or which is locked.
PluginRefuses(j) ==
    \/ j.kind = "createCollection" /\ j.item \in store
    \/ /\ j.kind \in {"setSecret", "removeSecret"} /\ j.item \in SecretItems
       /\ encrypted /\ j.item[1] \notin unlocked
    \/ j.kind = "setSecret" /\ j.item \in SecretItems /\ <<j.item[1]>> \notin store

\* The plugin's operation, in a transaction of its own.
PluginOperation ==
    /\ ~Quiet /\ job.at = "plugin" /\ ~PluginRefuses(job)
    /\ store' = IF job.kind \in {"createCollection", "setSecret"}
                THEN store \cup {job.item} ELSE store \ Concerned(job)
    /\ unlocked' = IF ~encrypted THEN unlocked
                   ELSE IF job.kind = "createCollection" THEN unlocked \cup {job.item[1]}
                   ELSE IF job.kind = "removeCollection" THEN unlocked \ {job.item[1]}
                   ELSE unlocked
    /\ job' = [job EXCEPT !.at = "commit"]
    /\ UNCHANGED <<encrypted, db, isOpen, m_initialized, told, crashes, failures,
                   txFailures>>

\* It refuses or fails: the metadata is rolled back and the error returned.
\* The sqlcipher plugin closes a collection before it removes it.
PluginFails ==
    /\ ~Quiet /\ job.at = "plugin"
    /\ PluginRefuses(job) \/ failures < MaxFailures
    /\ failures' = IF PluginRefuses(job) THEN failures ELSE failures + 1
    /\ unlocked' = IF job.kind = "removeCollection" THEN unlocked \ {job.item[1]} ELSE unlocked
    /\ db' = RolledBack(db)
    /\ job' = NoJob
    /\ UNCHANGED <<encrypted, store, isOpen, m_initialized, told, crashes, txFailures>>

Committed == CommitTransaction(db)

\* The commit; Succeeded is returned whatever it returned.  createCollection
\* then locks the collection again, if it is not to be kept unlocked.
Finish ==
    /\ ~Quiet /\ job.at = "commit"
    /\ \E e \in Bounded(Committed) :
          /\ db' = e.db
          /\ txFailures' = Failed(e)
    /\ unlocked' \in {unlocked} \cup
            (IF job.kind = "createCollection" THEN {unlocked \ {job.item[1]}} ELSE {})
    /\ told' = [i \in Items |->
            IF i \notin Concerned(job) THEN told[i]
            ELSE IF job.kind \in {"createCollection", "setSecret"} THEN "created"
            ELSE "removed"]
    /\ job' = NoJob
    /\ UNCHANGED <<encrypted, store, isOpen, m_initialized, crashes, failures>>
-----------------------------------------------------------------------------
\* The daemon is stopped and started again.  Nobody was told how the running
\* operation ended.
Crash ==
    /\ crashes < MaxCrashes
    /\ crashes' = crashes + 1
    /\ db' = Opened(db.disk)
    /\ isOpen' = FALSE
    /\ unlocked' = {}
    /\ m_initialized' = FALSE
    /\ told' = IF Quiet THEN told
               ELSE [i \in Items |-> IF i \in Concerned(job) THEN "nothing" ELSE told[i]]
    /\ job' = NoJob
    /\ UNCHANGED <<encrypted, store, failures, txFailures>>

Next ==
    \/ MasterUnlock \/ MasterLock
    \/ \E c \in Collections, opens \in BOOLEAN : SetEncryptionKey(c, opens)
    \/ \E kind \in Kinds, i \in Items : Start(kind, i)
    \/ PluginOperation \/ PluginFails \/ Finish
    \/ Crash

Spec == Init /\ [][Next]_vars
-----------------------------------------------------------------------------
(* Properties. *)

TypeOK ==
    /\ encrypted \in BOOLEAN
    /\ store \subseteq Items
    /\ db \in Connection(Metadata)
    /\ isOpen \in BOOLEAN
    /\ unlocked \subseteq Collections
    /\ m_initialized \in BOOLEAN
    /\ job \in Job
    /\ told \in [Items -> {"nothing", "created", "removed"}]
    /\ crashes \in 0 .. MaxCrashes
    /\ failures \in 0 .. MaxFailures /\ txFailures \in 0 .. MaxTxFailures

\* Between operations, and while the daemon is unlocked, the metadata database
\* has a row for every collection of the plugin and for none other, and so for
\* the secrets of every collection that can be used; once m_initialized, which
\* is never looked at again, also for those of locked collections.  Whatever
\* operations were cut short or refused before.
InSync ==
    Quiet /\ isOpen =>
        \A i \in CollectionItems \cup SecretItems :
            i \in CollectionItems \/ m_initialized \/ Usable(i[1], unlocked)
            => (i \in store <=> db.disk[i] # "none")

\* What clients were told stays true across stops: a collection or secret whose
\* creation succeeded is there, with the metadata its creator gave it; one whose
\* removal succeeded is not, and initialize() does not bring it back.
ToldIsTrue ==
    Quiet => \A i \in Items :
        /\ told[i] = "created" => i \in store /\ db.disk[i] = "client"
        /\ told[i] = "removed" => i \notin store /\ db.disk[i] = "none"

\* "step three: initialize the metadata db based on plugin data. this ensures
\* our data is in sync." (pluginwrapper.cpp:216): the standalone secrets too.
\* Does not hold: only the secrets of collections are compared.
StandaloneInSync ==
    Quiet /\ isOpen /\ m_initialized =>
        \A i \in StandaloneItems : i \in store <=> db.disk[i] # "none"

\* "already in an "outer" transaction" (database.cpp:400), of a counter that is
\* not zero when beginTransaction is called: SQLite is in a transaction then.
\* Does not hold with MaxTxFailures > 0: a BEGIN that fails is counted.
OuterTransaction == Quiet /\ db.sem > 0 => db.tx
=============================================================================
