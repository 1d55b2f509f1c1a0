---------------------------- MODULE CipherSession ----------------------------
(***************************************************************************)
(* Cipher sessions, end to end: CipherRequest objects of the client        *)
(* library, which may have several calls under way and keep their watchers *)
(* in a queue; the crypto queue of the daemon and its thread; and the      *)
(* sessions the openssl plugin keeps per client process, under tokens that *)
(* are given out again once a session is gone.  The types of the messages  *)
(* are the ones of CryptoApi.  Data is the number of the call it was sent  *)
(* with.                                                                   *)
(***************************************************************************)
EXTENDS Naturals, Sequences, FiniteSets, SequencesExt

CONSTANTS
    CipherRequests, \* the CipherRequest objects
    Processes,      \* the client processes
    MaxSessions,    \* MAX_CIPHER_SESSIONS_PER_CLIENT
    MaxCalls,       \* how many calls are sent
    MaxFaults       \* how often something fails: an operation, a send, a reply, a name

ASSUME SessionsAssumption ==
    /\ MaxSessions \in Nat \ {0}
    /\ MaxCalls \in Nat /\ MaxFaults \in Nat

Crypto == INSTANCE CryptoApi

VARIABLES
    process,               \* the process of each request object
    m_cipherMode, m_cryptoPluginName, m_status, m_result, m_cipherSessionToken,
    m_watcherQueue,        \* per request: the calls whose replies are waited for
    m_completedHash,       \* per request: UpdateCipher calls whose lambda has run
    taking,                \* requests in the loop of that lambda
    watchers,              \* calls whose watcher has not been deleted
    events,                \* per process: what its event loop has to deliver
    calls,                 \* all calls made, with their answers
    m_requests,            \* the crypto queue: calls not handled yet
    pool,                  \* jobs of the crypto thread
    m_cipherSessions,      \* per process and token: the call that opened it, or 0
    faults,
    fed,                   \* per opening call: the UpdateCipher calls applied
    opened,                \* per request: the call that initialized it last, or 0
    shown,                 \* per request: the outputs since it initialized
    astray,                \* requests that went on while finalizing, or whose finalization failed
    restarted,             \* requests that initialized with calls under way
    disordered,            \* requests that could not send with calls under way, or waited
                           \* for the last of several calls other than UpdateCipher
    misfired,              \* requests one of whose watchers took another's reply
    crashed                \* processes that are no more

client == <<m_cipherMode, m_cryptoPluginName, m_status, m_result, m_cipherSessionToken,
            m_watcherQueue, m_completedHash, taking, watchers>>
daemon == <<m_requests, pool, m_cipherSessions, fed>>
application == <<opened, restarted, disordered>>
vars == <<process, client, events, calls, daemon, faults, shown, astray,
          application, misfired, crashed>>

Tokens == 1 .. MaxSessions - 1
Modes == {"InitializeCipher", "UpdateCipherAuthentication", "UpdateCipher", "FinalizeCipher"}

\* The plugin with the sessions, and a name that is not one of the daemon's plugins.
m_cryptoPlugins == {"openssl"}
PluginNames == m_cryptoPlugins \cup {"unknown"}

Init ==
    /\ process \in [CipherRequests -> Processes]
    /\ m_cipherMode = [r \in CipherRequests |-> "InitializeCipher"]
    /\ m_cryptoPluginName = [r \in CipherRequests |-> "openssl"]
    /\ m_status = [r \in CipherRequests |-> "Inactive"]
    /\ m_result = [r \in CipherRequests |-> "Succeeded"]
    /\ m_cipherSessionToken = [r \in CipherRequests |-> 0]
    /\ m_watcherQueue = [r \in CipherRequests |-> <<>>]
    /\ m_completedHash = [r \in CipherRequests |-> {}]
    /\ watchers = {} /\ calls = <<>> /\ m_requests = <<>> /\ pool = <<>>
    /\ events = [p \in Processes |-> <<>>]
    /\ m_cipherSessions = [p \in Processes |-> [t \in Tokens |-> 0]]
    /\ fed = [c \in 1 .. MaxCalls |-> <<>>]
    /\ opened = [r \in CipherRequests |-> 0]
    /\ shown = [r \in CipherRequests |-> <<>>]
    /\ astray = {} /\ restarted = {} /\ disordered = {} /\ misfired = {} /\ crashed = {}
    /\ taking = {} /\ faults = 0

\* What may fail does, MaxFaults times.
Fault == faults < MaxFaults /\ faults' = faults + 1
-----------------------------------------------------------------------------
(* The application. *)

SetCipherMode(r) ==
    /\ m_status[r] # "Active"
    /\ \E m \in Modes \ {m_cipherMode[r]} : m_cipherMode' = [m_cipherMode EXCEPT ![r] = m]
    /\ m_status' = [m_status EXCEPT ![r] = IF @ = "Finished" THEN "Inactive" ELSE @]
    /\ UNCHANGED <<process, m_cryptoPluginName, m_result, m_cipherSessionToken,
                   m_watcherQueue, m_completedHash, taking, watchers, events, calls, daemon,
                   faults, shown, astray, application, misfired, crashed>>

\* The name of a plugin that does not exist is one of the faults.
SetCryptoPluginName(r) ==
    /\ m_status[r] # "Active"
    /\ \E n \in PluginNames \ {m_cryptoPluginName[r]} :
        /\ m_cryptoPluginName' = [m_cryptoPluginName EXCEPT ![r] = n]
        /\ IF n \in m_cryptoPlugins THEN UNCHANGED faults ELSE Fault
    /\ m_status' = [m_status EXCEPT ![r] = IF @ = "Finished" THEN "Inactive" ELSE @]
    /\ UNCHANGED <<process, m_cipherMode, m_result, m_cipherSessionToken, m_watcherQueue,
                   m_completedHash, taking, watchers, events, calls, daemon, shown, astray,
                   application, misfired, crashed>>

Expected(mode) ==
    CASE mode = "InitializeCipher" -> Crypto!initializeCipherSession.reply
      [] mode = "UpdateCipherAuthentication" ->
            Crypto!updateCipherSessionAuthentication.reply
      [] mode = "UpdateCipher" -> Crypto!updateCipherSession.reply
      [] mode = "FinalizeCipher" -> Crypto!finalizeCipherSession.reply

Sending(r) ==
    /\ calls' = Append(calls, [request |-> r, mode |-> m_cipherMode[r],
                               plugin |-> m_cryptoPluginName[r],
                               token |-> m_cipherSessionToken'[r], session |-> 0,
                               answer |-> "none", given |-> 0, reply |-> "none"])
    /\ m_requests' = Append(m_requests, Len(calls'))
    /\ watchers' = watchers \cup {Len(calls')}
    /\ m_status' = [m_status EXCEPT ![r] = "Active"]
    /\ m_result' = [m_result EXCEPT ![r] = "Pending"]
    /\ UNCHANGED <<faults, disordered>>

\* The call is not sent, and its reply an error at once: the request is Finished,
\* whatever it still waits for.
NotSent(r) ==
    /\ Fault
    /\ m_status' = [m_status EXCEPT ![r] = "Finished"]
    /\ m_result' = [m_result EXCEPT ![r] = "Failed"]
    /\ disordered' = IF m_watcherQueue'[r] # <<>> THEN disordered \cup {r} ELSE disordered
    /\ UNCHANGED <<calls, m_requests, watchers>>

Event(kind, c) == [kind |-> kind, call |-> c]

\* startRequest in mode InitializeCipher: earlier calls are forgotten and their
\* watchers deleted later.  Nothing keeps it from being called while Active.
StartInitialize(r) ==
    /\ m_cipherMode[r] = "InitializeCipher"
    /\ m_cipherSessionToken' = [m_cipherSessionToken EXCEPT ![r] = 0]
    /\ events' = [events EXCEPT ![process[r]] =
                    @ \o [i \in DOMAIN m_watcherQueue[r] |->
                            Event("deleteLater", m_watcherQueue[r][i])]]
    /\ \/ /\ Sending(r)
          /\ m_watcherQueue' = [m_watcherQueue EXCEPT ![r] = <<Len(calls')>>]
          /\ opened' = [opened EXCEPT ![r] = Len(calls')]
       \/ /\ m_watcherQueue' = [m_watcherQueue EXCEPT ![r] = <<>>]
          /\ NotSent(r)
          /\ opened' = [opened EXCEPT ![r] = 0]
    /\ shown' = [shown EXCEPT ![r] = <<>>]
    /\ restarted' = IF m_watcherQueue[r] # <<>> THEN restarted \cup {r} ELSE restarted
    /\ UNCHANGED <<process, m_cipherMode, m_cryptoPluginName, m_completedHash, taking, pool,
                   m_cipherSessions, fed, astray, misfired, crashed>>

\* The other modes, with a session: one more call under way.  After a finalization
\* the token may be in the hands of another request.
Continue(r) ==
    /\ m_cipherSessionToken[r] # 0
    /\ UNCHANGED m_cipherSessionToken
    /\ \/ /\ Sending(r)
          /\ m_watcherQueue' = [m_watcherQueue EXCEPT ![r] = Append(@, Len(calls'))]
          /\ astray' = IF \E c \in ToSet(m_watcherQueue[r]) : calls[c].mode = "FinalizeCipher"
                       THEN astray \cup {r} ELSE astray
       \/ /\ UNCHANGED <<m_watcherQueue, astray>>
          /\ NotSent(r)
    /\ UNCHANGED <<process, m_cipherMode, m_cryptoPluginName, m_completedHash, taking, events,
                   pool, m_cipherSessions, fed, shown, opened, restarted, misfired, crashed>>

StartUpdateAuthentication(r) ==
    /\ m_cipherMode[r] = "UpdateCipherAuthentication"
    /\ Continue(r)

StartUpdate(r) ==
    /\ m_cipherMode[r] = "UpdateCipher"
    /\ Continue(r)

StartFinalize(r) ==
    /\ m_cipherMode[r] = "FinalizeCipher"
    /\ Continue(r)

\* The other modes, without one: a warning, and the request stays active.
StartIgnored(r) ==
    /\ m_cipherMode[r] # "InitializeCipher" /\ m_cipherSessionToken[r] = 0
    /\ m_status' = [m_status EXCEPT ![r] = "Active"]
    /\ m_result' = [m_result EXCEPT ![r] = "Pending"]
    /\ UNCHANGED <<process, m_cipherMode, m_cryptoPluginName, m_cipherSessionToken,
                   m_watcherQueue, m_completedHash, taking, watchers, events, calls, daemon,
                   faults, shown, astray, application, misfired, crashed>>
-----------------------------------------------------------------------------
(* The crypto queue and its thread.  A call has the answer of the daemon     *)
(* when it is sent, and a reply when the client has received it.             *)

Type(mode) ==
    CASE mode = "InitializeCipher" -> "InitializeCipherSession"
      [] mode = "UpdateCipherAuthentication" -> "UpdateCipherSessionAuthentication"
      [] mode = "UpdateCipher" -> "UpdateCipherSession"
      [] mode = "FinalizeCipher" -> "FinalizeCipherSession"

ProcessOf(c) == process[calls[c].request]

\* The reply to a call, or its timeout, reaches the client: the watcher of the
\* call posts the signal finished to its event loop.
Received(c, reply, answer, given, session) ==
    /\ calls' = [calls EXCEPT ![c].answer = answer, ![c].given = given,
                              ![c].session = session,
                              ![c].reply = IF @ = "none" THEN reply ELSE @]
    /\ events' = IF c \in watchers /\ calls[c].reply = "none"
                 THEN [events EXCEPT ![ProcessOf(c)] = Append(@, Event("finished", c))]
                 ELSE events

\* Sends the answer; types are the ones of the reply, which is an error for the
\* client when it expects others.
Reply(c, answer, given, session, types) ==
    Received(c, IF Crypto!Matches(types, Expected(calls[c].mode)) THEN "answer" ELSE "mismatch",
             answer, given, session)

FinishedTypes(c) == Crypto!FinishedReplies[Type(calls[c].mode)]

Fails(c, session) == Fault /\ Reply(c, "Failed", 0, session, FinishedTypes(c))

\* The handlers of the processor.  A plugin that does not exist is an answer at once.
NoSuchPlugin(c) ==
    /\ calls[c].plugin \notin m_cryptoPlugins
    /\ Reply(c, "Failed", 0, 0, Crypto!PendingCases[Type(calls[c].mode)].reply)
    /\ UNCHANGED <<pool, faults>>

ToThePool(c) ==
    /\ calls[c].plugin \in m_cryptoPlugins
    /\ pool' = Append(pool, c)
    /\ UNCHANGED <<calls, events, faults>>

\* A key reference is looked up first; a key may be refused at once as well.
InitializeRequested(c) ==
    /\ calls[c].mode = "InitializeCipher"
    /\ \/ NoSuchPlugin(c)
       \/ ToThePool(c)
       \/ /\ calls[c].plugin \in m_cryptoPlugins /\ Fault
          /\ Reply(c, "Failed", 0, 0, Crypto!PendingCases[Type(calls[c].mode)].reply)
          /\ UNCHANGED pool
       \/ /\ calls[c].plugin \in m_cryptoPlugins
          /\ calls' = [calls EXCEPT ![c].answer = "checking"]
          /\ UNCHANGED <<pool, events, faults>>
    /\ UNCHANGED astray

UpdateAuthenticationRequested(c) ==
    /\ calls[c].mode = "UpdateCipherAuthentication"
    /\ NoSuchPlugin(c) \/ ToThePool(c)
    /\ UNCHANGED astray

UpdateRequested(c) ==
    /\ calls[c].mode = "UpdateCipher"
    /\ NoSuchPlugin(c) \/ ToThePool(c)
    /\ UNCHANGED astray

FinalizeRequested(c) ==
    /\ calls[c].mode = "FinalizeCipher"
    /\ \/ NoSuchPlugin(c) /\ astray' = astray \cup {calls[c].request}
       \/ ToThePool(c) /\ UNCHANGED astray

HandlePendingRequest ==
    /\ m_requests # <<>>
    /\ m_requests' = Tail(m_requests)
    /\ LET c == Head(m_requests)
       IN \/ InitializeRequested(c) \/ UpdateAuthenticationRequested(c)
          \/ UpdateRequested(c) \/ FinalizeRequested(c)
    /\ UNCHANGED <<process, client, m_cipherSessions, fed, shown, application, misfired, crashed>>

\* Mutation: a key that is not found is not an answer.
KeyLookedUpSilently(c) ==
    /\ calls[c].answer = "checking"
    /\ calls' = [calls EXCEPT ![c].answer = "none"]
    /\ pool' = Append(pool, c) \/ UNCHANGED pool
    /\ UNCHANGED <<process, client, events, m_requests, m_cipherSessions, fed, faults, shown,
                   astray, application, misfired, crashed>>

\* The secrets queue has the key, or the key of its collection.
KeyLookedUp(c) ==
    /\ calls[c].answer = "checking"
    /\ \/ /\ pool' = Append(pool, c)
          /\ calls' = [calls EXCEPT ![c].answer = "none"]
          /\ UNCHANGED <<events, faults>>
       \/ /\ Fails(c, 0)
          /\ UNCHANGED pool
    /\ UNCHANGED <<process, client, m_requests, m_cipherSessions, fed, shown, astray, application, misfired, crashed>>

\* The process id the plugin is given as the client.
clientId(c) == ProcessOf(c)

\* Mutation: tokens in use are given out as well.
getNextCipherSessionTokenAny(p) == {1}

\* Mutation: one token more than there is room for.
getNextCipherSessionTokenTooMany(p) ==
    LET free == {t \in 1 .. MaxSessions : t \in Tokens => m_cipherSessions[p][t] = 0}
    IN {t \in free : \A u \in free : t <= u}

\* The lowest token that is free; none, which the code says with 0, when all are
\* in use.
getNextCipherSessionToken(p) ==
    LET free == {t \in Tokens : m_cipherSessions[p][t] = 0}
    IN {t \in free : \A u \in free : t <= u}

initializeCipherSession(c) ==
    LET p == clientId(c)
        next == getNextCipherSessionToken(p)
    IN /\ calls[c].mode = "InitializeCipher"
       /\ \/ \E t \in next :
                /\ m_cipherSessions' = [m_cipherSessions EXCEPT ![p][t] = c]
                /\ Reply(c, "Succeeded", t, c, FinishedTypes(c))
                /\ UNCHANGED faults
          \/ /\ next = {}
             /\ Reply(c, "Failed", 0, 0, FinishedTypes(c))
             /\ UNCHANGED <<m_cipherSessions, faults>>
          \/ Fails(c, 0) /\ UNCHANGED m_cipherSessions
       /\ UNCHANGED <<fed, astray>>

Session(c) ==
    IF calls[c].token \in Tokens THEN m_cipherSessions[clientId(c)][calls[c].token] ELSE 0

UnknownSession(c) ==
    /\ calls[c].mode # "InitializeCipher" /\ Session(c) = 0
    /\ Reply(c, "Failed", 0, 0, FinishedTypes(c))
    /\ UNCHANGED <<m_cipherSessions, fed, astray, faults>>

updateCipherSessionAuthentication(c) ==
    /\ calls[c].mode = "UpdateCipherAuthentication" /\ Session(c) # 0
    /\ \/ Reply(c, "Succeeded", 0, Session(c), FinishedTypes(c)) /\ UNCHANGED faults
       \/ Fails(c, Session(c))
    /\ UNCHANGED <<m_cipherSessions, fed, astray>>

updateCipherSession(c) ==
    /\ calls[c].mode = "UpdateCipher" /\ Session(c) # 0
    /\ \/ /\ Reply(c, "Succeeded", 0, Session(c), FinishedTypes(c))
          /\ fed' = [fed EXCEPT ![Session(c)] = Append(@, c)]
          /\ UNCHANGED faults
       \/ Fails(c, Session(c)) /\ UNCHANGED fed
    /\ UNCHANGED <<m_cipherSessions, astray>>

\* The session is gone, whatever the result.
finalizeCipherSession(c) ==
    /\ calls[c].mode = "FinalizeCipher" /\ Session(c) # 0
    /\ m_cipherSessions' = [m_cipherSessions EXCEPT ![clientId(c)][calls[c].token] = 0]
    /\ \/ /\ Reply(c, "Succeeded", 0, Session(c), FinishedTypes(c))
          /\ UNCHANGED <<astray, faults>>
       \/ /\ Fails(c, Session(c))
          /\ astray' = astray \cup {calls[c].request}
    /\ UNCHANGED fed

Operation(c) ==
    \/ initializeCipherSession(c) \/ UnknownSession(c) \/ updateCipherSession(c)
    \/ updateCipherSessionAuthentication(c) \/ finalizeCipherSession(c)

\* Mutation: the crypto thread pool has two threads.
RunJobOnTwoThreads ==
    \E i \in 1 .. 2 :
        /\ i \in DOMAIN pool
        /\ pool' = RemoveAt(pool, i)
        /\ Operation(pool[i])
        /\ UNCHANGED <<process, client, m_requests, shown, application, misfired, crashed>>

\* Sessions have a timer of 60 s for their inactivity.  It is started in the
\* thread of the pool, which runs no event loop, and so it never fires.
RunJob ==
    /\ pool # <<>>
    /\ pool' = Tail(pool)
    /\ Operation(Head(pool))
    /\ UNCHANGED <<process, client, m_requests, shown, application, misfired, crashed>>
-----------------------------------------------------------------------------
(* Replies, and the watchers' lambdas. *)

\* The oldest call of a process has waited for 180 seconds.
Timeout(c) ==
    /\ calls[c].reply = "none" /\ Fault
    /\ \A d \in 1 .. c - 1 : ProcessOf(d) = ProcessOf(c) => calls[d].reply # "none"
    /\ Received(c, "lost", calls[c].answer, calls[c].given, calls[c].session)
    /\ UNCHANGED <<process, client, daemon, shown, astray, application, misfired, crashed>>

\* The arguments of the reply to a call; those of an error are defaults.
ResultOf(c) == IF calls[c].reply = "answer" THEN calls[c].answer ELSE "Succeeded"
TokenOf(c) == IF calls[c].reply = "answer" THEN calls[c].given ELSE 0

\* A signal of an event loop is delivered.
Consumed(p, k) == RemoveAt(events[p], k)

\* Mutation: the output of a call is shown when its reply comes.
UpdateFinishedOutOfOrder(r, c, k) ==
    /\ calls[c].mode = "UpdateCipher"
    /\ m_watcherQueue' = [m_watcherQueue EXCEPT ![r] = SelectSeq(@, LAMBDA d : d # c)]
    /\ m_status' = IF m_watcherQueue'[r] = <<>> THEN [m_status EXCEPT ![r] = "Finished"]
                                                ELSE m_status
    /\ shown' = IF calls[c].answer = "Succeeded" THEN [shown EXCEPT ![r] = Append(@, c)]
                                                 ELSE shown
    /\ events' = [events EXCEPT ![ProcessOf(c)] = Consumed(ProcessOf(c), k)]
    /\ UNCHANGED <<m_result, m_cipherSessionToken, m_completedHash, taking, watchers, misfired,
                   crashed>>

\* The lambda of UpdateCipher: the call is completed, and the loop runs while the
\* head of the queue is.
UpdateFinished(r, c, k) ==
    /\ calls[c].mode = "UpdateCipher"
    /\ m_completedHash' = [m_completedHash EXCEPT ![r] = @ \cup {c}]
    /\ taking' = IF m_watcherQueue[r] # <<>> /\ Head(m_watcherQueue[r]) \in m_completedHash'[r]
                 THEN taking \cup {r} ELSE taking
    /\ events' = [events EXCEPT ![ProcessOf(c)] = Consumed(ProcessOf(c), k)]
    /\ UNCHANGED <<m_status, m_result, m_cipherSessionToken, m_watcherQueue, watchers, shown,
                   misfired, crashed>>

\* One turn of the loop takes the head of the queue; a call that failed has no output.
TakeCompleted(r) ==
    LET c == Head(m_watcherQueue[r])
        left == Tail(m_watcherQueue[r])
    IN /\ r \in taking
       /\ m_completedHash' = [m_completedHash EXCEPT ![r] = @ \ {c}]
       /\ m_watcherQueue' = [m_watcherQueue EXCEPT ![r] = left]
       /\ watchers' = watchers \ {c}
       /\ m_status' = IF left = <<>> THEN [m_status EXCEPT ![r] = "Finished"] ELSE m_status
       /\ m_result' = [m_result EXCEPT ![r] = ResultOf(c)]
       /\ shown' = IF calls[c].reply = "answer" /\ calls[c].answer = "Succeeded"
                   THEN [shown EXCEPT ![r] = Append(@, c)] ELSE shown
       /\ taking' = IF left # <<>> /\ Head(left) \in m_completedHash[r]
                    THEN taking ELSE taking \ {r}
       /\ UNCHANGED <<process, m_cipherMode, m_cryptoPluginName, m_cipherSessionToken, events,
                      calls, daemon, faults, astray, application, misfired, crashed>>

\* The other lambdas take the head of the queue, whose call may be another one,
\* and wait for its reply.
Dequeued(r, c, k) ==
    LET d == Head(m_watcherQueue[r])
    IN /\ m_watcherQueue[r] # <<>> /\ calls[d].reply # "none"
       /\ m_watcherQueue' = [m_watcherQueue EXCEPT ![r] = Tail(@)]
       /\ m_status' = IF Len(m_watcherQueue[r]) = 1
                      THEN [m_status EXCEPT ![r] = "Finished"] ELSE m_status
       /\ IF c = d
          THEN /\ watchers' = watchers \ {c}
               /\ events' = [events EXCEPT ![ProcessOf(c)] = Consumed(ProcessOf(c), k)]
               /\ UNCHANGED misfired
          ELSE /\ events' = [events EXCEPT ![ProcessOf(c)] =
                              Append(Consumed(ProcessOf(c), k), Event("deleteLater", d))]
               /\ misfired' = misfired \cup {r}
               /\ UNCHANGED watchers
       /\ UNCHANGED <<m_completedHash, taking, shown, crashed>>

InitializeFinished(r, c, k) ==
    LET d == Head(m_watcherQueue[r])
    IN /\ calls[c].mode = "InitializeCipher"
       /\ Dequeued(r, c, k)
       /\ m_cipherSessionToken' = [m_cipherSessionToken EXCEPT ![r] = TokenOf(d)]
       /\ m_result' = [m_result EXCEPT ![r] =
                         IF ResultOf(d) = "Succeeded" /\ TokenOf(d) = 0 THEN "Failed"
                         ELSE ResultOf(d)]

UpdateAuthenticationFinished(r, c, k) ==
    /\ calls[c].mode = "UpdateCipherAuthentication"
    /\ Dequeued(r, c, k)
    /\ m_result' = [m_result EXCEPT ![r] = ResultOf(Head(m_watcherQueue[r]))]
    /\ UNCHANGED m_cipherSessionToken

FinalizeFinished(r, c, k) ==
    LET d == Head(m_watcherQueue[r])
    IN /\ calls[c].mode = "FinalizeCipher"
       /\ Dequeued(r, c, k)
       /\ m_result' = [m_result EXCEPT ![r] = ResultOf(d)]
       /\ m_cipherSessionToken' =
             IF ResultOf(d) = "Succeeded" THEN [m_cipherSessionToken EXCEPT ![r] = 0]
             ELSE m_cipherSessionToken

\* The signal number k of its event loop is that of call c.
Finished(r, c, k) ==
    \/ UpdateFinished(r, c, k) \/ InitializeFinished(r, c, k)
    \/ UpdateAuthenticationFinished(r, c, k) \/ FinalizeFinished(r, c, k)

\* The queue is empty: what dequeue returns is undefined, and the process ends.
NothingToDequeue(r, c) ==
    /\ calls[c].mode # "UpdateCipher" /\ m_watcherQueue[r] = <<>>
    /\ misfired' = misfired \cup {r}
    /\ crashed' = crashed \cup {process[r]}
    /\ events' = [events EXCEPT ![ProcessOf(c)] = <<>>]
    /\ UNCHANGED <<m_status, m_result, m_cipherSessionToken, m_watcherQueue,
                   m_completedHash, taking, watchers, shown>>

\* A watcher is deleted; so are the signals of it that have not been delivered.
WatcherDeleted(c) ==
    /\ watchers' = watchers \ {c}
    /\ events' = [events EXCEPT ![ProcessOf(c)] = Consumed(ProcessOf(c), 1)]
    /\ UNCHANGED <<m_status, m_result, m_cipherSessionToken, m_watcherQueue,
                   m_completedHash, taking, shown, misfired, crashed>>

\* A process whose thread is neither gone nor in the loop of a lambda.
Free(p) == p \notin crashed /\ \A r \in taking : process[r] # p

\* One event of the event loop.
DeliverEvent(p) ==
    /\ events[p] # <<>> /\ Free(p)
    /\ LET e == Head(events[p])
           c == e.call
           r == calls[c].request
       IN IF e.kind = "deleteLater" \/ c \notin watchers THEN WatcherDeleted(c)
          ELSE Finished(r, c, 1) \/ NothingToDequeue(r, c)
    /\ UNCHANGED <<process, m_cipherMode, m_cryptoPluginName, calls, daemon, faults, astray,
                   application>>

\* The application waits for the last call of the queue; its signal is delivered
\* before the others of the event loop.
WaitForFinished(r) ==
    LET c == Last(m_watcherQueue[r])
    IN /\ Free(process[r])
       /\ m_status[r] = "Active" /\ m_watcherQueue[r] # <<>> /\ c \in watchers
       /\ \E k \in DOMAIN events[process[r]] :
            /\ events[process[r]][k] = Event("finished", c)
            /\ Finished(r, c, k)
       /\ disordered' = IF Len(m_watcherQueue[r]) > 1 /\ calls[c].mode # "UpdateCipher"
                        THEN disordered \cup {r} ELSE disordered
       /\ UNCHANGED <<process, m_cipherMode, m_cryptoPluginName, calls, daemon, faults, astray,
                      opened, restarted>>
-----------------------------------------------------------------------------
\* An application sets the mode once between two steps: the mode it sets last is
\* the one that counts.  It goes on until MaxCalls calls have been made.
Application(r) ==
    /\ Free(process[r]) /\ Len(calls) < MaxCalls
    /\ \/ m_status[r] # "Inactive" /\ SetCipherMode(r)
       \/ SetCryptoPluginName(r)
       \/ StartInitialize(r) \/ StartUpdateAuthentication(r) \/ StartUpdate(r)
       \/ StartFinalize(r) \/ StartIgnored(r)

Next ==
    \/ \E r \in CipherRequests : Application(r) \/ WaitForFinished(r) \/ TakeCompleted(r)
    \/ HandlePendingRequest \/ RunJob
    \/ \E c \in DOMAIN calls : KeyLookedUp(c) \/ Timeout(c)
    \/ \E p \in Processes : DeliverEvent(p)

Spec == Init /\ [][Next]_vars
-----------------------------------------------------------------------------
(* Properties. *)

TypeOK ==
    /\ m_cipherMode \in [CipherRequests -> Modes]
    /\ m_cryptoPluginName \in [CipherRequests -> PluginNames]
    /\ m_status \in [CipherRequests -> {"Inactive", "Active", "Finished"}]
    /\ m_result \in [CipherRequests -> {"Pending", "Succeeded", "Failed"}]
    /\ m_cipherSessionToken \in [CipherRequests -> {0} \cup Tokens]
    /\ \A p \in Processes, t \in Tokens : m_cipherSessions[p][t] \in 0 .. Len(calls)
    /\ \A r \in CipherRequests : ToSet(m_watcherQueue[r]) \subseteq DOMAIN calls

\* No request of the process of r has ever used a token it had lost, and none
\* of their watchers has taken the reply of another call.
Undisturbed(r) == \A q \in astray \cup misfired : process[q] # process[r]

\* A call works on a session of its own process, and on the one its own request
\* object opened, although tokens are given out again.  A request gets at the
\* session of another one of its process only when one of them goes on with the
\* token of a session it has lost: after a finalization that failed
\* (cipherrequest.cpp: the token is kept unless it succeeded), when it sends
\* another call before its finalization is answered, or when a watcher of another
\* call takes the reply to a finalization.
OwnSession ==
    \A c \in DOMAIN calls :
        LET s == calls[c].session
        IN s # 0 => /\ ProcessOf(s) = ProcessOf(c)
                    /\ Undisturbed(calls[c].request) => calls[s].request = calls[c].request

LostReply(r) ==
    \E c \in DOMAIN calls : calls[c].request = r /\ calls[c].reply \in {"lost", "mismatch"}

\* The application is shown the outputs of the blocks it gave, each once and in
\* the order the plugin worked on them, however many calls are under way, whatever
\* could not be sent and for whichever call waitForFinished waited.  All of them
\* have been shown when no call is under way, and when the status says Finished;
\* apart from a request that says so because a call could not be sent while
\* others were under way (cipherrequest.cpp:628-648, 692-720).
BlocksInOrder ==
    \A r \in CipherRequests :
        opened[r] # 0 /\ Undisturbed(r) /\ ~LostReply(r) =>
            /\ IsPrefix(shown[r], fed[opened[r]])
            /\ m_watcherQueue[r] = <<>> \/ (m_status[r] = "Finished" /\ r \notin disordered) =>
                shown[r] = fed[opened[r]]

\* A watcher takes its own reply from the queue of watchers, and never finds it
\* empty.  It may go wrong in three ways (cipherrequest.cpp): a request that
\* initializes with calls under way, since watchers that have been told to delete
\* themselves may still fire; one that could not send a call and was given another
\* mode with others under way; and one with several calls under way, none of them
\* UpdateCipher, for which waitForFinished delivers the last one's signal first.
OwnReply == misfired \subseteq restarted \cup disordered

\* Nothing is left to do in the daemon nor in the processes.
Quiet ==
    /\ m_requests = <<>> /\ pool = <<>> /\ taking = {}
    /\ \A c \in DOMAIN calls : calls[c].answer # "checking"
    /\ \A p \in Processes : events[p] = <<>> \/ p \in crashed

\* No call is forgotten: when everything has come to rest, no request waits for a
\* reply any more; apart from requests whose watchers took each other's replies,
\* or whose calls are of several modes because one could not be sent: an
\* UpdateCipher call that is completed and not the head of the queue stays there
\* when the lambda of another mode takes the head.
NoCallForgotten ==
    Quiet => \A r \in CipherRequests :
                \/ m_watcherQueue[r] = <<>> \/ process[r] \in crashed
                \/ r \in misfired \cup disordered

\* "real code should not use the waitForFinished() method, but instead should
\* react to the statusChanged() signal to determine when each step of the
\* request has finished" (cipherrequest.cpp:72).  Does not hold: a step that is
\* ignored, for a wrong mode or without a session, leaves the request Active.
StepsFinish ==
    Quiet => \A r \in CipherRequests : m_status[r] # "Active" \/ process[r] \in crashed
=============================================================================
