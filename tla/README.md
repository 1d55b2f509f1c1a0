# A TLA+ model of the Sailfish OS secrets and crypto daemon

This directory is a verification development for the daemon `sailfishsecretsd`
(`src/daemon`, with `src/database` and the plugins it loads) and for the client
libraries that call it (`src/lib`). It holds TLA+
modules of the parts that carry the daemon's logic, TLC configurations that
check them on small instances, and TLAPS proofs of the properties that matter
most. `PROJECT.json` lists the runs, the mutants, the source lines of every
definition, the hazards the properties are for, and the theorems.

## 1. The system

Clients call the daemon over peer-to-peer D-Bus. Everything below runs in one
main thread (a Qt event loop) and in two thread pools of **one** thread each,
that of the secrets daemon and that of the crypto daemon. A plugin that is both a
crypto and a storage plugin is used in the secrets pool by both daemons, other
crypto plugins in the crypto pool, everything else in the secrets pool
(`controller.cpp:122-131`).

| Part | State it keeps | Operations | Interacts with |
|---|---|---|---|
| Request queue (`requestqueue.cpp`), once for secrets and once for crypto | `m_requests`, `m_enqueuingRequests`, a request identifier counter shared by both | `handleRequest`, `enqueueRequest`, `finishEnqueueRequest`, `handleRequests`, `requestFinished` | itself by posted invocations; processors by virtual handlers; clients by delayed replies |
| Controller (`controller.cpp`) | the two queues, thread pools, loaded plugins | start: load plugins, try the empty lock code | both queues |
| Master lock (`secrets.cpp`) | the cached keys (`m_bkdbLockKey`, `m_deviceLockKey`), `m_locked`, `m_noLockCode`; on disk the salt and a test cipher text | `initialize` in unlock, modify and lock mode, `testLockCode` | DataProtector; the processor |
| DataProtector (`dataprotector.cpp`) | a directory with three copies of one value | `getData`, `putData` | file system |
| Secrets request processor (`secretsrequestprocessor.cpp`) | `m_pendingRequests`, cached collection and secret keys | every secrets request, and its continuation after user input or authentication | pool jobs, authentication plugins, queue |
| Plugin wrappers (`pluginwrapper.cpp`, `metadatadb.cpp`) | one metadata database per storage plugin, `m_initialized` | create/remove collections and secrets, lock, unlock, rekey, `initialize` | plugin, `database.cpp` |
| Crypto queue, processor (`CryptoImpl`) | `m_pendingRequests` of its own | every crypto request; those on stored keys make helper requests to the secrets queue | secrets queue, crypto plugins |
| Plugins (`src/plugins`) | collections, secrets, keys, cipher sessions | storage, encryption, authentication, crypto | wrappers |
| Client libraries (`src/lib`) | per request object: attributes, status, result, outputs, a watcher or a queue of watchers | setters, `startRequest`, the watcher's `finished` | the daemon, by D-Bus calls with a timeout of 180 s |
| QML, tool | - | - | the client libraries |

What is hard here: the interleaving of posted invocations, completions of
workers and user interactions with requests of other clients; keys passed by
alias into another thread; operations that change two stores (the plugin and
its metadata, or all plugins and the lock code test) and can be cut short by a
stop of the daemon; results that are not looked at; identifiers that wrap; the
transaction counter; parameters that travel by position through five lists and
back; replies that are lost, late or of another type; tokens of cipher sessions
that are given out again. `PROJECT.json` lists each at its line under "hazards".

What makes each part correct:

- queue: each call is answered exactly once; requests start in the order they
  came; no request is left without an event that will get to it;
- DataProtector: a value once stored is returned until another one is stored,
  whatever happens to one copy or in the middle of a write;
- master lock: the daemon is unlocked only with the keys of the current code;
  locked means no metadata can be read; all data follows a change of the code;
- plugin wrappers: metadata and plugin agree, and clients are told the truth;
- processors: no request uses a key or a lock state that is out of date; each
  request goes on in one place, with its own parameters, until it is answered;
- client libraries: what the application set is what the processor gets; what
  the daemon answered is what the application sees; every request finishes;
- cipher sessions: a request works on the session it opened, block by block.

## 2. Modules

| Module | Models | Proved in |
|---|---|---|
| `AnsweredCalls` | abstract: what a queue promises to clients | refined in `RequestQueueProofs` |
| `RequestQueue` | both request queues, their event loop, helper requests | `RequestQueueProofs` |
| `DataProtector` | `getData`/`putData` file by file | `DataProtectorProofs` |
| `MasterLock` | lock code requests, cached keys, keys on disk | `MasterLockProofs` |
| `Database` | operators: a connection's transactions and their counter | - |
| `PluginWrapper` | a plugin and its metadata database | `PluginWrapperProofs` |
| `CollectionRequests` | the requests on a collection, its secrets and standalone secrets, with locks, cached keys and dialogs | `CollectionRequestsProofs` |
| `StoredKeys` | the requests of the crypto daemon but cipher sessions, their helper requests and jobs | `StoredKeysProofs` |
| `CipherSession` | cipher requests from the client object to the plugin's table of sessions and back | `CipherSessionProofs` |
| `CallPath` | operators: what a call is made of, hop by hop | `ClientRequestProofs` |
| `SecretsApi`, `CryptoApi` | tables: every request class, manager function, D-Bus method, request type and reply of the two APIs | `ClientRequestProofs` |
| `ClientRequest` | a request object of either library, its calls, and what becomes of them | `ClientRequestProofs` |
| `MC...` | symmetry sets and constants for TLC | - |

A definition named `X<Something>` under a comment "Mutation:" is a plausible
bug in `X`. It is not used by the specification; `PROJECT.json` pairs it with
the property that TLC finds violated when it takes X's place.

### RequestQueue

A queue is `m_requests` (a sequence, in list order) and `m_enqueuingRequests`
(a function from identifiers). The event loop is one sequence of posted
invocations over both queues; a handler that runs is in `pass` (the iterator of
`handleRequests`). A call may be refused (unknown peer, full queue), or is
enqueued, listed by a later `finishEnqueueRequest`, handled by a pass, and
either answered at once, or left in progress until a worker or a helper request
completes it. The 100 ms limit is a nondeterministic yield after any element.
`quint64` identifiers are `0 .. NumIds - 1`; the counter wraps around and takes 0
like any other value. The search for a free one never tries the identifier the
counter had before, in the code and in the model.

`AnsweredCalls` is the abstraction: a call is open, then answered or refused,
once. `RequestQueue` instantiates it as `Promise`, with its own `sent` and
`replies` for those of the abstraction, and `AnswersOnce` is the abstract
specification as a property: every step of the queues, the containers, posted
invocations and helper requests hidden, is a step of it or a stutter.

### DataProtector

The store is a set of directories, each with three files, `QSaveFile`
temporaries and a modification time; `putData` takes one step for each file
system call. A shutdown may come between any two, each write may fail, and a
file may become garbage. Modification times may be equal: then either directory
may be listed first.

### MasterLock

Keys are identified with the lock codes they are derived from. On disk:
`testCode` (the stored test), `dbKey` (a metadata database for each plugin) and
`dataKey` (its device-locked data). In memory: `keyData`, `m_locked`,
`m_noLockCode`, `connKey` (the open connections), `jobs` (queued pool jobs of
other requests) and `m_pendingRequests` (prompts). A lock code request runs its
pool jobs plugin by plugin (`op`) while the main thread waits; jobs that were in
the pool before run first, and may write with keys that are being replaced. The
lock code may be changed in a locked daemon too, as in the code.

`Start` is the controller's constructor, from the first start on, and `Stop` ends
the daemon at any point, also while it writes the test. A stop or an error in
`putData` leaves what `DataProtector` shows that it can: the old test, the new
one, one that cannot be read (`Unreadable`), or, after a stop, none
(`LeftByFailure`, `LeftByStop`). Which of two equally old directories is read is
chosen once, when they are left. On a test that cannot be read the daemon stays
locked and publishes a notification: the model is of the build with
`HAS_NEMO_NOTIFICATIONS`. Without it `dealWithDataCorruption` deletes all
secrets (`secrets.cpp:2639-2690`).

Two history variables. `mixedWith` is `Null` while every key on disk agrees with
the stored test. After an interrupted change, or one in a locked daemon, it is the
code before: changing the code back to that one makes all keys agree again.
`"lost"` means that nothing is claimed any more, after a write of a change failed or
a job wrote data while the cached keys were replaced. `testFailed` says that a
write of the test was reported as failed and left another test.

### Database and PluginWrapper

A connection has the counter `m_transactionSemaphore`, SQLite's own transaction
state, the content it sees and the content on disk. `PluginWrapper` runs
operations one at a time, in three steps: metadata change in a transaction,
the plugin's own change, commit. `encrypted` chooses the wrapper. Stops come
anywhere; after one, `masterUnlock` runs `initialize()`, which compares the
lists of plugin and metadata, leaving out collections that are locked; unlocking
a collection runs it again. `told` is a history variable: the last success
clients were told of each collection and secret. `MaxTxFailures` bounds the
BEGINs and COMMITs that fail; see section 5 for why the runs set it to 0.

### CollectionRequests

A request on a collection is a chain of continuations, and `request[r].at` says
which one is next: read the metadata (pool), ask the plugin whether the
collection is locked (pool, while the main thread sits in `waitForFinished`:
`blocked`), ask the user (`interaction`, with the parameters in
`m_pendingRequests`), derive the key (pool), run the operation (pool), reply.
`pool` is the queue of the one thread, `events` the `finished()` signals the main
thread has not handled yet. What a request carries from one step to the next is
what the code passes: the metadata it read at the start (`metadata`), the key.
`asked` records that the user entered a code or passed the device lock.

`collection` is the stored collection (its metadata and the key it was created
with) and `opened` whether the plugin has it open; `m_collectionEncryptionKeys`
is the cached key. Requests for two names share nothing but the pool, so each
behaviour follows one name, and `Names`, `Encrypted`, `SemanticsOf` and `Faulty`
say what kinds of names there are: kept by a storage plugin or by an encrypted
one (the sqlcipher plugin, which is a crypto storage plugin), reused with another
unlock semantic or not, with a metadata database or collection database that may
fail or not. Secrets are abstracted: an operation on an open collection succeeds
or fails. Key derivation is injective, so a key is its code. The daemon stays
unlocked; its lock is the subject of `MasterLock`.

The parameter lists are modelled by their lengths, one for each request type and
kind of dialog, because that is what the completions check.

A name in `Standalone` is that of a standalone secret instead. Its requests have
continuations and a cache of their own (`m_standaloneSecretEncryptionKeys`), and
no lock: `secret` is the stored secret with the key it was encrypted with. A plugin
in `Encrypted` refuses them.

### CallPath, SecretsApi, CryptoApi and ClientRequest

A call goes through five lists of parameters: `startRequest` gives attributes to a
function of the manager, the function sends them over D-Bus, a D-Bus method of
the daemon puts them in the queue, a case of `handlePendingRequest` takes them
off, and a reply goes back, built by that case or by one of
`handleFinishedRequest`. Everything goes by position. `SecretsApi` and
`CryptoApi` are these lists, one definition for each function, method, case and
reply, in the order the code has; `CallPath` has the constructors they are
written with and what a hop does to values. A value has a kind, what the code
looks at (a lock type, an empty name, an interaction mode), and the plugin name
it holds.

`ClientRequest` follows one request object of any class through setters, one or
more starts, and the life of its call: at the client, in the queue, with the
processor, answered, lost, timed out, with the connection closed or the daemon
locked in between. `CallPath!Usual` and its variants say what each class's
`startRequest` and its lambda do with answers, since the classes differ in
whether they look for an error.

### CipherSession

A `CipherRequest` may have several calls under way and keeps their watchers in
`m_watcherQueue`. The module has the four steps at the client, the crypto queue,
the lookup of the key (a helper request), the one crypto thread, the table of
sessions of the plugin with its tokens for each client process, the replies, and
the event loop of each client process, which delivers `finished` signals and
deferred deletions in order. Data is the number of the call it was sent with;
`fed` and `shown` are history variables (the blocks a session was given, the
outputs the application saw), and `opened` the call that opened the session a
request works on. The lambda of `UpdateCipher` takes completed calls off the queue
in a loop, one turn for each (`taking`, `TakeCompleted`). `WaitForFinished` delivers
the signal of the last call of the queue before those in front of it, which is
what `m_completedHash` is for.

A call may be one that cannot be sent: its reply is an error at once, and the
request is Finished, whatever it still waits for (`NotSent`). The name of the plugin
may be changed between two steps, also to one the daemon does not have
(`SetCryptoPluginName`, `NoSuchPlugin`).

Four history variables name requests that were ever used in a way the code does
not cope with: `astray`, which went on with a token they had lost; `restarted`,
which were initialized with calls under way; `disordered`, which could not send a
call with others under way, or waited for the last of several calls other than
`UpdateCipher`; `misfired`, one of whose watchers took the reply to another call.
A request in `astray` harms the other
requests of its process as well, and also later, when the token has been given
out again, so `OwnSession` and `BlocksInOrder` are about the processes where
there is none, and none that misfired (`Undisturbed`). Taking requests out of
`astray` again when they are initialized is not enough: what they did to the
token stays. That came out of the proof, and needs more calls than the run has.

Left out: slots of the application run when a lambda is done, not from within its
signals; an entry of `m_completedHash` whose watcher was deleted does not match a
new watcher at the same address; one plugin has sessions; an application stops
when `MaxCalls` calls have been made.

### StoredKeys

The requests of the crypto daemon other than sessions. Each gives a job to a
pool or makes a helper request (`m_cryptoApiHelperRequests`) with its parameters
put aside in `m_pendingRequests`; the secrets daemon completes the helper, and the
continuation of that request type takes the parameters back. Plugins: one which
stores keys and uses them (sqlcipher), one which only uses them (openssl), one which
only stores secrets (sqlite). `pool` has one queue for each thread pool, and
`threadPoolForPlugin` decides which; a job opens the collection, does its work
and relocks it in separate steps, so that two threads can meet there. A listing
of keys that fails after its unlock may leave the collection open (`MayLeaveOpen`,
and `leftOpen` records it). A key is the request that made it; a name that is
taken is refused by the wrappers, whatever the check before had found. The secrets daemon's side of a helper is one step
here; its own chain is `CollectionRequests`.

## 3. Runs

| Run | Bounds | Shows |
|---|---|---|
| `queue_safety` | 3 calls, 3 identifiers, 2 helper requests | identifiers wrap and collide with ones in use, the queue gets full, passes yield; all safety properties and `AnswersOnce` hold |
| `queue_live` | 2 calls, 3 identifiers, 2 helper requests | every call is answered, under fairness |
| `protector_faults` | 2 values, 3 directories, a damaged file, a failing write, a shutdown | `ReadsLastPut`, `NoOlderValue`, `PutRepairs` |
| `protector_shutdown` | a shutdown while a value is replaced | violated: the previous value is lost |
| `lock_change` | 2 codes, the empty one and another, 2 plugins, 2 requests, 2 stops, 1 failing write, a job of each plugin in the pool | `UnlockedByCurrentCode`, `KeysAgree`, `LockedMeansClosed`, `UnlockOpensAll` |
| `lock_race` | 3 codes, 2 plugins, 1 request, no stop and no failing write | violated: a collection gets the dummy key |
| `wrapper_sync` | 2 collections, 2 secrets, 2 stops, 1 plugin failure | `InSync`, `ToldIsTrue` |
| `requests_lock` | 5 names (3 kinds of collections, 2 of standalone secrets), 2 codes, 3 requests: one of any kind, a deletion, a creation | `OneContinuation`, `NoInternalError`, `NeverAskedNeverWrong`, `EveryAccessAsks`, `KeepsUnlocked` |
| `api_requests` | every request class, 2 starts, 1 setter, 1 fault (refused call, closed connection, lock or unlock) and any number of timeouts | `ParametersArrive`, `SuccessIsTheDaemons`, `FinishedIsCurrent`, `RequestFinishes` |
| `api_reply` | one `VerifyRequest`, no faults | violated: a failure is reported as Succeeded |
| `cipher_sessions` | 2 request objects in 1 or 2 processes, 1 token for each process, 4 calls, 1 fault (a failing step, a call not sent, an unknown plugin, a lost reply) | `OwnSession`, `BlocksInOrder`, `OwnReply`, `NoCallForgotten` |
| `stored_keys` | 2 requests, one of any kind, one that generates or deletes a key; 2 keys, of a plugin that can use its keys and of one that cannot | `OneDriver`, `OwnArguments`, `OpenOnlyInUse`, `StoredIsKept`, `SecretsStay` |

Bounds: three identifiers and two calls with helper requests are the least with which one request is
enqueued, one listed and an identifier comes round again; two plugins, the least
for which a stop leaves one rekeyed and one not; two stops, because the first may
leave a state which only a second one makes worse (a lock code change that is
being undone); two codes of the lock, between which the code is changed and changed
back (a third one adds nothing that two do not show: the run has been made with
three as well, 11 million states); two collections, one locked while the other is not; a request
overtaken by a deletion and a creation, so that its metadata and its key are those
of an earlier collection of that name; two codes, a right one and a wrong one; two
starts of a request object, so that something of the first can be left over; one
token for each process, so that every second session reuses it (the code has four);
four calls, an initialization, two blocks and a finalization, or two sessions; two
crypto requests, because they share the key, the collection and the pools.

Where a configuration says `CHECK_DEADLOCK FALSE`, the clients of the model have
made all their calls and the system comes to rest.

### Fairness

`RequestQueue!FairSpec` has weak fairness of the event loop (it always runs the
next posted invocation: Qt's contract), of the handlers it runs, and of the
worker threads (a job given to a pool ends). It has strong fairness of `GoesPast`:
a pass that comes again and again to a request in progress, at the same place of the
list, in the end gets past it and does not yield there each time. The handler gives
such a request a glance and walks on, and 100 ms are far more than that takes.
Otherwise the yield needs none: each pass handles one element at least, as the code
does. User interaction is part of a
job here: it is assumed to end, with an error if not with an input.

`ClientRequest!Spec` has weak fairness of `Deliver` and `Timeout`, and of nothing
else: the application's event loop delivers a reply that has arrived, and the
D-Bus interface ends a call with an error after the 180 seconds set in
`createInterface`. Nothing is assumed of the daemon, which may never answer.

### External behaviour

Modelled from how the code uses it: Qt's event loop, D-Bus connections, the file
system (a directory's modification time changes when an entry is added or
removed; `QSaveFile::commit` renames), SQLite (BEGIN within a transaction fails;
a statement outside one is committed at once; a failed COMMIT may or may not
roll back), the user.

## 4. Proofs

Nothing in the proofs bounds the number of calls, requests, names, codes, plugins,
stops or faults: these are constants, of which only what the `ASSUME`s say is
used. The assumptions are that the sets named in a model's constants are finite
where the code's are, that bounds are natural numbers, that keys, codes and
contents of files which differ in the code differ in the model
(`CodesAssumption`, `KeysAssumption`, `ContentAssumption`, where `Absent`, no
file, is no content either), that `Null` is none of the values it stands
beside (`NullAssumption`), and that the request classes considered are classes of
the two libraries (`ClassesAssumption`). TLC evaluates each of them on the runs.

Each invariant below is inductive only together with facts that no property
states. They are the argument, so they are given here.

**The queues** (`RequestQueueProofs`): every safety property of the runs, and the
refinement.

- `IdsAlwaysUnique` needs the identifiers of the two containers to be disjoint.
- `WakeupNeverLost` needs an invariant about the position of the running pass:
  everything behind it that could be handled has an invocation posted after it.
- `CallbacksAlwaysFind`, `InProgressAlwaysDriven`, `CallNeverLost` and
  `QueuesAnswerOnce` see each queue as the set of its live requests (`Served`).
  Jobs and helpers belong to requests in progress, one each; every request in
  progress has one; a helper request knows its crypto request, and no two the
  same one; calls that have no reply are those of the live requests. A step is
  one of a few changes of these sets, and a lemma for each says what it keeps.
  While a completion is being handled, the request it is for is exempt
  (`FoundBut`).
- `QueuesAnswerOnce` is the refinement of `AnsweredCalls`: initial states are
  initial there, and each step is a call, an answer, a refusal or a stutter.
- `AlwaysStartedInOrder` is the only one about the lists themselves: what is
  behind the pass arrived later than what it has started.

**The master lock** (`MasterLockProofs`): all properties of the run, for any codes,
plugins, requests, stops and failing writes, with jobs in the pool and changes in a
locked daemon. The parts of the invariant `IInv`:

- `CachedKeys`, `OpUsesStoredCode`: which keys are cached in each lock state, and
  which the running request has for old and for new ones. Where a change starts from
  keys that are no code's, the daemon was locked.
- `JobsFirst`: jobs of other requests are in the pool only while the daemon is
  unlocked or before the first job of a lock code request, so that none of them runs
  between the jobs of a request.
- `Settled`: while the code is not being changed, the keys of each plugin are those
  of the stored code or of `mixedWith`; no connection uses the latter, and no data is
  ahead of its metadata. This last part is what makes changing back work.
- `Progress`, `LockedProgress`: how far a change has come with each plugin, in an
  unlocked daemon, where databases, connections and data are passed one after
  another, and in a locked one, where nothing moves.
- `ClosedSoFar`: while the daemon locks itself, the plugins it has dealt with are
  closed.

**DataProtector** (`DataProtectorProofs`): `AlwaysReadsLastPut`,
`NeverAnOlderValue`, `PutAlwaysRepairs`. The invariant `DataInv` says how far the
running `putData` has come: its new directory holds the files already committed
and the temporaries still open and nothing else, and the only other directories
are those it has listed for removal (`Running`); between calls that were not cut
short there is one directory, all of whose files were committed with the value
stored, and a cache that agrees with it if at most one of them is damaged
(`Steady`); without damage, nothing is on disk or cached but values that were
stored last or attempted since (`OnlyKnown`). That two of three equal files
outvote the third is the lemma about `getData`.

**Plugin wrappers** (`PluginWrapperProofs`): `AlwaysInSync` and `ToldStaysTrue`,
as long as no BEGIN or COMMIT has failed (`txFailures = 0`, a state and not a
constant; section 5 shows what a failure does). In the invariant the plugin agrees
with the rows on disk before the plugin's own step and with the rows to be
committed after it, and both stores are closed: no secret is stored or has a row
without its collection. Without that last part `initialize()`, which goes by
collections, would repair less than it has to.

**Collections and standalone secrets** (`CollectionRequestsProofs`): all
properties of the run. `Placed` says that a request is in one of the pool, the
signals, the waiting handler and the dialogs, which one its own state tells, and
what each continuation relies on there: the parameters put aside have the length
that the completion of this dialog expects. `CheckHolds` is the heart of
`CheckedStaysTrue`: the main thread waits for the lock check, so the check is the
last job of the pool and then the pool is empty; the operation which relies on
what it saw is the next job, and nothing relocks the collection in between.

**Stored keys** (`StoredKeysProofs`): all properties of the run. `Driven` says that
one job, signal or helper drives a request. `Arguments` gives, for each type of
helper and of request, the list of parameters that is waiting for it, in full, so
that the continuation, which takes them by position, finds the request's own
again. `OneOpens`: only the first job of the thread of a plugin that stores and
uses keys has the collection open. `Kept` says that a signal, too, that tells of a
stored key has it in the store. `Owned` and `Shown` are for `SecretsStay`: what each
type of request may be answered with, for failures too, and that a key which is
sent back with one is not in the store.

**Cipher sessions** (`CipherSessionProofs`): `TypeCorrect`, `AlwaysOwnSession`,
`AlwaysOwnReply`, `NoCallEverForgotten` and `BlocksAlwaysInOrder`: all properties
of the run. The parts of `SessionsInv`:

- `Pipeline`: calls leave the queue in their order, those on a session reach the
  thread in that order, and a call without an answer is in the queue, in the pool
  or with the secrets queue.
- `Waiting`, `Signals`, `Completed`: the calls a request waits for are its own and in
  order; the event loop has each signal once, and after the reply; what is completed
  is an answered `UpdateCipher` call, and the loop runs while the head is.
- `Alike`, `Served`, `InTurn`, for requests that have neither misfired nor are
  `disordered` (`Regular`): the calls waited for are of the present mode and plugin;
  each call that was answered is completed or has its signal in the event loop, after
  those of the calls before it; none of the watchers waited for is about to be
  deleted. Hence the watcher that fires is the one at the head of the queue
  (`OwnReply`), or one of `UpdateCipher`, which does not care; and a queue that is not
  empty has something to come (`NoCallForgotten`).
- `NoStrayWatcher`: only a request that was restarted or disordered has watchers
  outside its queue.
- `Sessions`, `TokensInForce`, `TokenHeld`, `TokenGiven`: in a process without
  `astray` and `misfired` requests, the token of a call on its way, the one
  a request holds and the one it is about to get each stand for a session of that
  request, and no finalization is under way before a later call on the token.
  `OwnSession` speaks of calls the thread has seen only; what makes it true is
  about those it has not.
- `FailedIsAstray`: a finalization that failed, after which the client keeps the
  token, has put its process under the exception.

`BlocksInOrder` needs a second invariant, `BlocksInv`, which is proved on top of
the first: a step may rely on `SessionsInv` before and after it.

- `AwaitsLast`, `HoldsLast`, `UsesLast`: `SessionsInv` says that a token stands for
  a session of its request; this, that it is the last one the request opened. The
  property compares what is shown with what that session was fed. Requests whose
  replies were lost are exempt: the client forgets the call, and the daemon does not.
- `SeenInOrder`, `FedInOrder`: the thread works on the blocks in the order the calls
  were made in, so a session is fed them in that order. Two threads would break it.
- `OpenedIsOwn` and `ShownInOrder`: of what the session was fed, the blocks shown come
  first (`ShownFirst`), the others are waited for (`OthersAwaited`), and what is
  waited for and has succeeded is one of these (`AwaitedAreFed`). As both the queue of
  watchers and the session are in the order of the calls, the block at the head of the
  queue is the next one to be shown. Every step that takes from the queue takes its
  head (`HeadTaken`), however the signals came, so nothing else is needed of them: the
  argument covers `waitForFinished` and calls that were not sent. When nothing
  is waited for, nothing is left to show.

**Client requests** (`ClientRequestProofs`): `ParametersAlwaysArrive`,
`SuccessIsAlwaysTheDaemons` and `FinishedIsAlwaysCurrent`, for any set of classes
and any number of starts, setters and faults. There are two parts.

- The tables. `Fits` says when a manager function, a D-Bus method and a case of
  `handlePendingRequest` fit together: each takes the parameters from the places
  where the one before it put them, and the method maps the plugin names it has
  to. `Transported` proves, of any three that fit, that the attributes arrive;
  `SecretsTable` and `CryptoTable` prove that those of the two APIs fit, one by
  one, and `SecretsStart` and `CryptoStart` that each class calls a function there
  is. Nothing is assumed of the tables: a case for an entry with two parameters
  swapped cannot be proved. Overloaded functions have different numbers of
  parameters (`SecretsOverloads`, `CryptoOverloads`), which is how a call finds
  the one that is meant.
- The object. `ClientInv` follows the call: on its way it is the message of the
  attributes it was started with (`MessageRight`), in the queue and with the
  processor it has these attributes under their names (`QueuedRight`,
  `GivenRight`), the answers to come have the types that are expected, but for
  `Verify` and `Decrypt` (`RepliesRight`, `Mistyped`), and the status says where the
  call is (`StatusFollows`). It is about the attributes at the start, which the
  call keeps in `call.attrs`: the object may be started again, with others, when it
  has finished. `AttributesKept` says what of them still is so at the object, and
  there `customParameters` has to be left out, whose setter does not refuse while
  the request is active.

### Only model-checked

Liveness: `EveryCallAnswered` and `RequestFinishes`. TLAPS does not prove
properties that rest on fairness. Every other property of the passing runs is a
theorem.

## 5. What the runs found

Three runs expect a violation and are listed under "findings" with the comment or
doc each one contradicts. Other properties one would expect are stated in the
modules ("Does not hold" in their comments) and are not part of a run. To see the
trace, give the configuration the property in place of its own and the
constant named here:

| Property | Configuration | What happens |
|---|---|---|
| `MasterLock!ChangedMeansReencrypted` | `MasterLock_change.cfg`, INVARIANT | changing the lock code while the daemon is locked succeeds; the databases are closed and stay as they are, and the old keys are those of the cache (`secretsrequestprocessor.cpp:4611`) |
| `PluginWrapper!StandaloneInSync` | `PluginWrapper_sync.cfg`, INVARIANT | a stop between the plugin's change and the metadata commit leaves a standalone secret on one side for ever: neither side lists them when they are compared (`sqliteplugin/plugin.cpp:104`, `metadatadb_p.h:97`) |
| `PluginWrapper!OuterTransaction` | `PluginWrapper_sync.cfg`, `MaxTxFailures = 1`, INVARIANT | `Database::beginTransaction` increments the counter before BEGIN and leaves it so when BEGIN fails (`database.cpp:395`): the counter says "in a transaction", SQLite is not, and no rollback undoes anything any more |
| `CollectionRequests!UsableKeys` | `CollectionRequests_lock.cfg`, INVARIANT | `storedKeyIdentifiers` on a storage plugin's collection puts the empty key into the cache, over a good one too (`secretsrequestprocessor.cpp:1302`); the collection cannot be used until it is deleted or the daemon restarts |
| `CollectionRequests!FittingKeys` | `CollectionRequests_lock.cfg`, INVARIANT | `getStandaloneSecret` caches the key of the code the user entered before it tries it (`secretsrequestprocessor.cpp:3233`), and nobody is asked again |
| `StoredKeys!NoneForgotten` | `StoredKeys_requests.cfg`, INVARIANT | importing a key that wants a passphrase into a plugin which only stores: the parameters are put aside, but no dialog is started (`cryptorequestprocessor.cpp:1029`), and the client waits for its timeout |
| `CipherSession!StepsFinish` | `CipherSession_calls.cfg`, INVARIANT | a step that is ignored, for want of a session or for a wrong mode, leaves the request Active (`cipherrequest.cpp:576`) |

In several passing properties such cases are exceptions, named in their comments:

- `SuccessIsTheDaemons`: most classes do not look for an error in the lambda, so that
  a lost reply finishes as Succeeded with default outputs, and the immediate replies
  of Verify and Decrypt have the wrong signature.
- `UnlockedByCurrentCode`: `putData` reports an error with the new test already
  readable, and the result is not looked at (`secretsrequestprocessor.cpp:4621`). The
  daemon goes on with the old keys; the code it now accepts is the new one.
- `KeysAgree`: a change that is stopped or made in a locked daemon leaves keys of the
  code before, and changing back repairs them; a failed write of a change, or a job
  that writes while the keys are replaced, leaves keys that nothing need repair.
- `OwnSession`: a token kept after a finalization that failed, a call sent before
  the finalization is answered, or the reply to a finalization taken by a watcher of
  another call.
- `OwnReply`: an initialization with calls under way; a call that could not be sent
  with others under way, after which the mode may be changed
  (`cipherrequest.cpp:584-596, 628-648, 692-720`); and `waitForFinished`
  (`cipherrequest.cpp:759-766`), which waits for the last call and so delivers its
  signal first, whose lambda takes the head's watcher unless it is that of
  `UpdateCipher`.
- `NoCallForgotten`: in a queue with calls of several modes, which a call that was not
  sent makes possible, a completed `UpdateCipher` call that is not the head stays there
  when another mode's lambda takes the head.
- `BlocksInOrder`: a call that was not sent says Finished with blocks not yet shown.
- `OpenOnlyInUse`: a listing of keys that fails after its unlock leaves the
  collection open.
- `SecretsStay`: a key imported for another plugin which could not be handed to the
  secrets daemon is sent back in full with the failure
  (`cryptorequestprocessor.cpp:1060-1064`). The client had given it itself.
- `ParametersArrive` leaves out the default authentication plugin name of two
  requests, which the daemon does not map (`secrets.cpp:287`, `crypto.cpp:194`).

Further observations, met while modelling:

- The result of re-encrypting the metadata is only logged, so a failed rekey
  leaves data under two codes (`mixedWith = "lost"` covers it in `KeysAgree`).
- The docs say that the user is asked before `forgetLockCode`, which the code does
  not do.
- The key for a storage plugin is cached before it was of any use; the code has a
  FIXME (`secretsrequestprocessor.cpp:4175`).
- A request that waits for the user keeps the metadata it has read. If the
  collection is deleted and created again meanwhile, it may open a collection that
  is to be relocked and leave it open. `EveryAccessAsks` is therefore about names
  which are always created with relock.
- `unlockAndRemoveCollection` does not relock a collection whose metadata cannot be
  deleted, and `storedKeyIdentifiersFromCollection` not one whose listing fails
  after the unlock (`pluginfunctionwrappers.cpp:354-358, 398-416`). `EveryAccessAsks`
  is about names without such failures.
- `storedKeyIdentifiersFromCollection` relocks through `cryptoStoragePlugin` in the
  branch where that pointer is null (`pluginfunctionwrappers.cpp:424`). The branch
  is taken for encrypted storage plugins which are not crypto plugins; the model is
  of the other branch.
- The parameters of a dialog that fails or is cancelled stay in
  `m_pendingRequests`.
- The timer that ends an idle cipher session is created in a thread of the pool,
  which has no event loop, and never fires (`opensslcryptoplugin.cpp:1327`); the
  model has no such timeout. Lost sessions use up the four tokens of a process. The
  test that expects sessions to expire, `cipherTimeout`
  (`tst_cryptorequests.cpp:2500`), is skipped.
- `CipherRequest::waitForFinished` may return with the request Active and the result of
  an earlier call: when the last call is an `UpdateCipher` that is not the head of the
  queue, its lambda only notes it as completed.
- A key imported for another storage plugin is stored under the identifier of the
  imported key, which has none, and is refused there
  (`cryptorequestprocessor.cpp:1044`).

## 6. Plan

Modelled: the queues, the lock code and its storage, the consistency of plugin and
metadata, the requests on collections and standalone secrets, both client
libraries, the crypto processor with its sessions. Left:

1. The lock codes of single plugins (`lockSpecificPlugin`,
   `unlockSpecificPlugin` and their prompts), which follow the pattern of
   `MasterLock` with no state of the daemon's own.
2. Composition: `MasterLock` over `DataProtector` itself, for the salt as well,
   instead of what a write of the test may leave.

### Not modelled

- Application permissions: stateless queries of `/proc` and a desktop file.
- Loading of plugins: file I/O at the start, with no later effect.
- What OpenSSL, gpgme and SQLite compute; the gnupg plugins, which drive gpgme
  processes; the example USB token plugin, an in-memory store.
- The value classes of `src/lib` (keys, secrets, filters) and their serialisation:
  data without state.
- The dialogs of the authentication plugins, seen from outside as one answer or a
  failure; the interaction service of an application likewise.
- QML bindings, the tool, examples and tests: no state of their own beyond the
  client libraries.
- `src/3rdparty/qt5-sqlcipher`: a third-party driver.
