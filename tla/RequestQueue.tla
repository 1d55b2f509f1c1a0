---------------------------- MODULE RequestQueue ----------------------------
(***************************************************************************)
(* The two request queues of the daemon (daemon/requestqueue.cpp), one for *)
(* the Secrets API and one for the Crypto API, and the helper requests by  *)
(* which a Crypto request uses the Secrets queue                           *)
(* (SecretsImpl/secretscryptohelpers.cpp).                                 *)
(*                                                                         *)
(* Both queues live in the daemon's main thread.  Its event loop runs one  *)
(* handler at a time: a D-Bus method call, a posted finishEnqueueRequest   *)
(* or handleRequests, or the callback of a job that ended on a worker      *)
(* thread.  One pass of handleRequests over m_requests is modelled by one  *)
(* step per list element, during which nothing else runs in that thread.   *)
(***************************************************************************)
EXTENDS Naturals, Sequences

CONSTANTS
    Calls,       \* D-Bus method calls made by the clients
    NoCall,      \* the "call" of a helper request: it has no D-Bus message
    NumIds,      \* number of request identifiers (2^64 in the code)
    MaxHelpers   \* bound on the helper requests made by crypto requests

ASSUME NoCallAssumption == NoCall \notin Calls
ASSUME NumIdsAssumption == NumIds \in Nat /\ NumIds > 1
ASSUME MaxHelpersAssumption == MaxHelpers \in Nat

VARIABLES
    requestId,            \* the static counter shared by both queues
    m_enqueuingRequests,  \* per queue, the requests not yet in the list
    m_requests,           \* per queue, the list of requests
    posted,               \* the queued invocations of the event loop, in order
    pass,                 \* the pass of handleRequests being run, if any
    working,              \* <<queue, id>> of the jobs running for a request
    m_cryptoApiHelperRequests, \* crypto ids waiting for a helper request
    helpersMade,          \* number of helper requests made so far
    sent,                 \* the calls made by the clients
    replies               \* number of replies sent to each call

vars == <<requestId, m_enqueuingRequests, m_requests, posted, pass, working,
          m_cryptoApiHelperRequests, helpersMade, sent, replies>>
-----------------------------------------------------------------------------
(* Requests, events and passes. *)

Queues == {"secrets", "crypto"}
Ids == 0 .. NumIds - 1
NoId == NumIds

RequestStatus == {"Pending", "InProgress", "Finished"}

\* RequestData.  cryptoRequestId is NoId unless isSecretsCryptoRequest.
RequestData == [id : Ids, call : Calls \cup {NoCall}, status : RequestStatus,
                cryptoRequestId : Ids \cup {NoId}]

Event == [slot : {"finishEnqueueRequest", "handleRequests"},
          queue : Queues, id : Ids \cup {NoId}]

FinishEnqueue(q, i) == [slot |-> "finishEnqueueRequest", queue |-> q, id |-> i]
HandleRequestsOf(q) == [slot |-> "handleRequests", queue |-> q, id |-> NoId]

NoPass == [queue |-> "none", at |-> 0]
PassAt(q, i) == [queue |-> q, at |-> i]

Idle == pass = NoPass        \* the event loop may run another handler

HasId(list, i) == \E n \in DOMAIN list : list[n].id = i

UsedIds(q) == {r.id : r \in m_enqueuingRequests[q]}
                \cup {m_requests[q][n].id : n \in DOMAIN m_requests[q]}

\* QList::erase
Erase(list, n) ==
    [m \in 1 .. Len(list) - 1 |-> IF m < n THEN list[m] ELSE list[m + 1]]

\* Mutation: the status of the request is not changed.
SetStatusForgotten(list, n, s) == list

SetStatus(list, n, s) == [list EXCEPT ![n].status = s]

\* Mutation: the request is put at the front.
ListedFirst(list, r) == <<r>> \o list

\* QList::append
Listed(list, r) == Append(list, r)
-----------------------------------------------------------------------------
(* enqueueRequest: the identifier is the first free one after the static  *)
(* counter; the scan stops before it would come back to the counter.       *)

Candidate(k) == (requestId + k) % NumIds

\* Mutation: the scan looks only at the requests being enqueued.
NextFreeIdIgnoresListed(q, i) ==
    LET enqueuing == {r.id : r \in m_enqueuingRequests[q]} IN
    \E k \in 1 .. NumIds - 1 :
        /\ i = Candidate(k)
        /\ i \notin enqueuing
        /\ \A j \in 1 .. k - 1 : Candidate(j) \in enqueuing

\* Mutation: the scan does not look at the requests being enqueued.
NextFreeIdIgnoresEnqueuing(q, i) ==
    \E k \in 1 .. NumIds - 1 :
        /\ i = Candidate(k)
        /\ ~HasId(m_requests[q], i)
        /\ \A j \in 1 .. k - 1 : HasId(m_requests[q], Candidate(j))

NextFreeId(q, i) ==
    \E k \in 1 .. NumIds - 1 :
        /\ i = Candidate(k)
        /\ i \notin UsedIds(q)
        /\ \A j \in 1 .. k - 1 : Candidate(j) \in UsedIds(q)

QueueFull(q) == \A k \in 1 .. NumIds - 1 : Candidate(k) \in UsedIds(q)

\* The value of m_enqueuingRequests after QMap::insert(i, request).
Inserted(q, i, call, cid) ==
    [m_enqueuingRequests EXCEPT ![q] =
        {r \in @ : r.id # i}
          \cup {[id |-> i, call |-> call, status |-> "Pending",
                 cryptoRequestId |-> cid]}]

Reply(call) == replies' = [replies EXCEPT ![call] = @ + 1]
-----------------------------------------------------------------------------
Init ==
    /\ requestId = 0
    /\ m_enqueuingRequests = [q \in Queues |-> {}]
    /\ m_requests = [q \in Queues |-> << >>]
    /\ posted = << >>
    /\ pass = NoPass
    /\ working = {}
    /\ m_cryptoApiHelperRequests = {}
    /\ helpersMade = 0
    /\ sent = {}
    /\ replies = [c \in Calls |-> 0]
-----------------------------------------------------------------------------
(* handleRequest for a client's D-Bus call on queue q. *)

\* The peer's PID cannot be determined.  An error reply is sent, and as the
\* message is not marked as having a delayed reply, QtDBus sends the return
\* value of the slot as well.
RefuseUnknownPeer(c) ==
    /\ Idle /\ c \in Calls \ sent
    /\ sent' = sent \cup {c}
    /\ replies' = [replies EXCEPT ![c] = @ + 2]
    /\ UNCHANGED <<requestId, m_enqueuingRequests, m_requests, posted, pass,
                   working, m_cryptoApiHelperRequests, helpersMade>>

\* No identifier is free: the call returns the error (the counter moved on).
RefuseQueueFull(c, q) ==
    /\ Idle /\ c \in Calls \ sent
    /\ QueueFull(q)
    /\ sent' = sent \cup {c}
    /\ Reply(c)
    /\ requestId' = Candidate(1)
    /\ UNCHANGED <<m_enqueuingRequests, m_requests, posted, pass, working,
                   m_cryptoApiHelperRequests, helpersMade>>

EnqueueRequest(c, q) ==
    /\ Idle /\ c \in Calls \ sent
    /\ \E i \in Ids :
          /\ NextFreeId(q, i)
          /\ m_enqueuingRequests' = Inserted(q, i, c, NoId)
          /\ posted' = Append(posted, FinishEnqueue(q, i))
    /\ sent' = sent \cup {c}
    /\ requestId' = Candidate(1)
    /\ UNCHANGED <<m_requests, pass, working, m_cryptoApiHelperRequests,
                   helpersMade, replies>>

HandleRequest(c, q) ==
    RefuseUnknownPeer(c) \/ RefuseQueueFull(c, q) \/ EnqueueRequest(c, q)
-----------------------------------------------------------------------------
(* finishEnqueueRequest, run from the event loop. *)
FinishEnqueueRequest(q) ==
    /\ Idle /\ posted # << >>
    /\ Head(posted).slot = "finishEnqueueRequest" /\ Head(posted).queue = q
    /\ \/ \E r \in m_enqueuingRequests[q] :
             /\ r.id = Head(posted).id
             /\ m_enqueuingRequests' = [m_enqueuingRequests EXCEPT ![q] = @ \ {r}]
             /\ m_requests' = [m_requests EXCEPT ![q] = Listed(@, r)]
             /\ posted' = Append(Tail(posted), HandleRequestsOf(q))
       \/ /\ \A r \in m_enqueuingRequests[q] : r.id # Head(posted).id
          /\ posted' = Tail(posted)
          /\ UNCHANGED <<m_enqueuingRequests, m_requests>>
    /\ UNCHANGED <<requestId, pass, working, m_cryptoApiHelperRequests,
                   helpersMade, sent, replies>>
-----------------------------------------------------------------------------
(* requestFinished(i): the list and the posted events after it, when the  *)
(* list was rs and the events were evs.  The code changes the first request *)
(* with the identifier; there is no second one (IdsUnique).                 *)

\* Mutation: the search starts at the second request.
FinishedInSkipsFirst(rs, q, i) ==
    [rs EXCEPT ![q] = [n \in DOMAIN @ |->
        IF @[n].id = i /\ n > 1 THEN [@[n] EXCEPT !.status = "Finished"] ELSE @[n]]]

FinishedIn(rs, q, i) ==
    [rs EXCEPT ![q] = [n \in DOMAIN @ |->
        IF @[n].id = i THEN [@[n] EXCEPT !.status = "Finished"] ELSE @[n]]]

\* Mutation: the request is finished and no pass is asked for.
PostedByFinishNothing(rs, evs, q, i) == evs

PostedByFinish(rs, evs, q, i) ==
    IF HasId(rs[q], i) THEN Append(evs, HandleRequestsOf(q)) ELSE evs

\* A crypto request makes a helper request on the secrets queue
\* (storeKeyPreCheck, storeKey, storedKey, userInput, ...).  The list rs and
\* the events evs are the ones its caller has produced so far.
StartHelper(cid, rs, evs, yielding) ==
    /\ helpersMade < MaxHelpers
    /\ ~QueueFull("secrets")
    /\ \E i \in Ids :
          /\ NextFreeId("secrets", i)
          /\ m_enqueuingRequests' = Inserted("secrets", i, NoCall, cid)
          /\ posted' = Append(evs, FinishEnqueue("secrets", i)) \o yielding
    /\ requestId' = Candidate(1)
    /\ helpersMade' = helpersMade + 1
    /\ m_requests' = rs

\* What the Crypto processor does next for request cid, when a helper or a job
\* of it has ended: it finishes the request, starts a job for it, or makes
\* another helper request (if that is refused, the request is finished with
\* the error).
Resume(cid, rs, evs, yielding, withJob) ==
    \/ /\ m_requests' = FinishedIn(rs, "crypto", cid)
       /\ posted' = PostedByFinish(rs, evs, "crypto", cid) \o yielding
       /\ requestId' \in {requestId} \cup
                (IF QueueFull("secrets") THEN {Candidate(1)} ELSE {})
       /\ working' = working \ {<<"crypto", cid>>}
       /\ m_cryptoApiHelperRequests' = m_cryptoApiHelperRequests \ {cid}
       /\ UNCHANGED <<m_enqueuingRequests, helpersMade>>
    \/ /\ withJob
       /\ m_requests' = rs
       /\ posted' = evs \o yielding
       /\ working' = working \cup {<<"crypto", cid>>}
       /\ m_cryptoApiHelperRequests' = m_cryptoApiHelperRequests \ {cid}
       /\ UNCHANGED <<m_enqueuingRequests, requestId, helpersMade>>
    \/ /\ StartHelper(cid, rs, evs, yielding)
       /\ working' = working \ {<<"crypto", cid>>}
       /\ m_cryptoApiHelperRequests' = m_cryptoApiHelperRequests \cup {cid}
-----------------------------------------------------------------------------
(* handleRequests: a pass over the list. *)

\* Mutation: the pass starts one before the first request.
BeginPassBefore(q) ==
    /\ Idle /\ posted # << >>
    /\ Head(posted) = HandleRequestsOf(q)
    /\ posted' = Tail(posted)
    /\ pass' = PassAt(q, 0)
    /\ UNCHANGED <<requestId, m_enqueuingRequests, m_requests, working,
                   m_cryptoApiHelperRequests, helpersMade, sent, replies>>

BeginPass(q) ==
    /\ Idle /\ posted # << >>
    /\ Head(posted) = HandleRequestsOf(q)
    /\ posted' = Tail(posted)
    /\ pass' = PassAt(q, 1)
    /\ UNCHANGED <<requestId, m_enqueuingRequests, m_requests, working,
                   m_cryptoApiHelperRequests, helpersMade, sent, replies>>

At(q, s) == /\ pass.queue = q
            /\ pass.at \in DOMAIN m_requests[q]
            /\ m_requests[q][pass.at].status = s

Current(q) == m_requests[q][pass.at]

\* After a list element: go on with the list, or, when more than 100 ms have passed
\* and the list is not empty, post another pass and return to the event loop.
\* yielding is what the pass itself posts, rest the list it leaves.
\* Mutation: a pass that yields does not ask for another one.
AdvanceForgetsRest(q, next, rest, yielding) ==
    /\ yielding = << >>
    /\ pass' = PassAt(q, next) \/ (rest # << >> /\ pass' = NoPass)

Advance(q, next, rest, yielding) ==
    \/ /\ yielding = << >>
       /\ pass' = PassAt(q, next)
    \/ /\ rest # << >>
       /\ yielding = <<HandleRequestsOf(q)>>
       /\ pass' = NoPass

Yields(q) == {<< >>, <<HandleRequestsOf(q)>>}

\* asynchronousCryptoRequestCompleted and the slots of the Crypto processor
\* connected to its signals, or the reply to the client; the request is erased.
CompleteSecrets(rs, yielding) ==
    LET r == Current("secrets") IN
    \/ /\ r.cryptoRequestId = NoId
       /\ Reply(r.call)
       /\ m_requests' = rs
       /\ posted' = posted \o yielding
       /\ UNCHANGED <<requestId, m_enqueuingRequests, working,
                      m_cryptoApiHelperRequests, helpersMade>>
    \/ /\ r.cryptoRequestId \in m_cryptoApiHelperRequests
       /\ Resume(r.cryptoRequestId, rs, posted, yielding, TRUE)
       /\ UNCHANGED replies
    \/ /\ r.cryptoRequestId \in Ids \ m_cryptoApiHelperRequests
       /\ m_requests' = rs
       /\ posted' = posted \o yielding
       /\ UNCHANGED <<requestId, m_enqueuingRequests, working, replies,
                      m_cryptoApiHelperRequests, helpersMade>>

\* SecretsRequestQueue::handlePendingRequest: the request completes at once, or
\* a job (or a user interaction) is started for it.
SecretsPending ==
    /\ At("secrets", "Pending")
    /\ \E y \in Yields("secrets") :
        \/ LET rest == Erase(m_requests["secrets"], pass.at) IN
             /\ Advance("secrets", pass.at, rest, y)
             /\ CompleteSecrets([m_requests EXCEPT !["secrets"] = rest], y)
        \/ LET kept == SetStatus(m_requests["secrets"], pass.at, "InProgress") IN
             /\ Advance("secrets", pass.at + 1, kept, y)
             /\ m_requests' = [m_requests EXCEPT !["secrets"] = kept]
             /\ posted' = posted \o y
             /\ working' = working \cup {<<"secrets", Current("secrets").id>>}
             /\ UNCHANGED <<requestId, m_enqueuingRequests, replies,
                            m_cryptoApiHelperRequests, helpersMade>>
    /\ UNCHANGED sent

\* SecretsRequestQueue::handleFinishedRequest.
SecretsFinished ==
    /\ At("secrets", "Finished")
    /\ \E y \in Yields("secrets") :
        LET rest == Erase(m_requests["secrets"], pass.at) IN
          /\ Advance("secrets", pass.at, rest, y)
          /\ CompleteSecrets([m_requests EXCEPT !["secrets"] = rest], y)
    /\ UNCHANGED sent

\* CryptoRequestQueue::handlePendingRequest: the request completes at once
\* (also when its helper request is refused), waits for a job, or waits for a
\* helper request.
CryptoPending ==
    /\ At("crypto", "Pending")
    /\ \E y \in Yields("crypto") :
        \/ LET rest == Erase(m_requests["crypto"], pass.at) IN
             /\ Advance("crypto", pass.at, rest, y)
             /\ m_requests' = [m_requests EXCEPT !["crypto"] = rest]
             /\ posted' = posted \o y
             /\ Reply(Current("crypto").call)
             /\ requestId' \in {requestId} \cup
                    (IF QueueFull("secrets") THEN {Candidate(1)} ELSE {})
             /\ UNCHANGED <<m_enqueuingRequests, working,
                            m_cryptoApiHelperRequests, helpersMade>>
        \/ LET kept == SetStatus(m_requests["crypto"], pass.at, "InProgress")
               i == Current("crypto").id IN
             /\ Advance("crypto", pass.at + 1, kept, y)
             /\ \/ /\ m_requests' = [m_requests EXCEPT !["crypto"] = kept]
                   /\ posted' = posted \o y
                   /\ working' = working \cup {<<"crypto", i>>}
                   /\ UNCHANGED <<requestId, m_enqueuingRequests,
                                  m_cryptoApiHelperRequests, helpersMade>>
                \/ /\ StartHelper(i, [m_requests EXCEPT !["crypto"] = kept],
                                  posted, y)
                   /\ m_cryptoApiHelperRequests' = m_cryptoApiHelperRequests \cup {i}
                   /\ UNCHANGED working
             /\ UNCHANGED replies
    /\ UNCHANGED sent

\* Mutation: a finished crypto request is answered and stays in the list.
CryptoFinishedKept ==
    /\ At("crypto", "Finished")
    /\ \E y \in Yields("crypto") :
          /\ Advance("crypto", pass.at + 1, m_requests["crypto"], y)
          /\ posted' = posted \o y
          /\ Reply(Current("crypto").call)
    /\ UNCHANGED <<requestId, m_enqueuingRequests, m_requests, working,
                   m_cryptoApiHelperRequests, helpersMade, sent>>

\* CryptoRequestQueue::handleFinishedRequest.
CryptoFinished ==
    /\ At("crypto", "Finished")
    /\ \E y \in Yields("crypto") :
        LET rest == Erase(m_requests["crypto"], pass.at) IN
          /\ Advance("crypto", pass.at, rest, y)
          /\ m_requests' = [m_requests EXCEPT !["crypto"] = rest]
          /\ posted' = posted \o y
          /\ Reply(Current("crypto").call)
    /\ UNCHANGED <<requestId, m_enqueuingRequests, working,
                   m_cryptoApiHelperRequests, helpersMade, sent>>

SkipInProgress(q) ==
    /\ At(q, "InProgress")
    /\ \E y \in Yields(q) :
          /\ Advance(q, pass.at + 1, m_requests[q], y)
          /\ posted' = posted \o y
    /\ UNCHANGED <<requestId, m_enqueuingRequests, m_requests, working,
                   m_cryptoApiHelperRequests, helpersMade, sent, replies>>

EndPass(q) ==
    /\ pass.queue = q
    /\ pass.at \notin DOMAIN m_requests[q]
    /\ pass' = NoPass
    /\ UNCHANGED <<requestId, m_enqueuingRequests, m_requests, posted, working,
                   m_cryptoApiHelperRequests, helpersMade, sent, replies>>
-----------------------------------------------------------------------------
(* The callback of a job which ended on a worker thread. *)

SecretsJobDone(i) ==
    /\ Idle
    /\ <<"secrets", i>> \in working
    /\ working' = working \ {<<"secrets", i>>}
    /\ m_requests' = FinishedIn(m_requests, "secrets", i)
    /\ posted' = PostedByFinish(m_requests, posted, "secrets", i)
    /\ UNCHANGED <<requestId, m_enqueuingRequests, pass, helpersMade,
                   m_cryptoApiHelperRequests, sent, replies>>

CryptoJobDone(i) ==
    /\ Idle
    /\ <<"crypto", i>> \in working
    /\ Resume(i, m_requests, posted, << >>, FALSE)
    /\ UNCHANGED <<pass, sent, replies>>
-----------------------------------------------------------------------------
EventLoop(q) ==
    \/ FinishEnqueueRequest(q)
    \/ BeginPass(q)
    \/ SkipInProgress(q)
    \/ EndPass(q)

Handler == SecretsPending \/ SecretsFinished \/ CryptoPending \/ CryptoFinished

Next ==
    \/ \E c \in Calls, q \in Queues : HandleRequest(c, q)
    \/ \E q \in Queues : EventLoop(q)
    \/ Handler
    \/ \E i \in Ids : SecretsJobDone(i) \/ CryptoJobDone(i)

Spec == Init /\ [][Next]_vars

\* The pass of queue q goes past the n-th request, which is in progress.
GoesPast(q, n) ==
    /\ pass = PassAt(q, n)
    /\ SkipInProgress(q)
    /\ pass' = PassAt(q, n + 1)

\* The event loop runs whatever was posted; every job ends (the daemon has no
\* timeouts: a plugin or a user who never answers keeps the request open); and
\* going past a request in progress, which takes no time by itself, is not
\* interrupted for more than 100 ms in every pass.
Fairness ==
    /\ WF_vars((\E q \in Queues : EventLoop(q)) \/ Handler)
    /\ \A i \in Ids : WF_vars(SecretsJobDone(i)) /\ WF_vars(CryptoJobDone(i))
    /\ \A q \in Queues, n \in 1 .. NumIds - 1 : SF_vars(GoesPast(q, n))

FairSpec == Spec /\ Fairness
-----------------------------------------------------------------------------
(* Properties. *)

TypeOK ==
    /\ requestId \in Ids
    /\ m_enqueuingRequests \in [Queues -> SUBSET RequestData]
    /\ m_requests \in [Queues -> Seq(RequestData)]
    /\ posted \in Seq(Event)
    /\ pass \in {NoPass} \cup [queue : Queues, at : Nat \ {0}]
    /\ working \subseteq Queues \X Ids
    /\ m_cryptoApiHelperRequests \subseteq Ids
    /\ helpersMade \in Nat
    /\ sent \subseteq Calls
    /\ replies \in [Calls -> Nat]

\* No two requests of a queue, listed or being enqueued, share an identifier,
\* although the counter wraps and serves both queues: requestFinished and
\* finishEnqueueRequest find their request by it.
IdsUnique ==
    \A q \in Queues :
        /\ \A m, n \in DOMAIN m_requests[q] :
              m_requests[q][m].id = m_requests[q][n].id => m = n
        /\ \A r \in m_enqueuingRequests[q] : ~HasId(m_requests[q], r.id)
        /\ \A r, s \in m_enqueuingRequests[q] : r.id = s.id => r = s

Posted(e) == \E n \in DOMAIN posted : posted[n] = e

\* A request that waits for the queue is never forgotten: one being enqueued
\* has its finishEnqueueRequest posted, and while a listed one is Pending or
\* Finished, a pass is posted or the running pass has yet to reach it.
NoLostWakeup ==
    \A q \in Queues :
        /\ \A r \in m_enqueuingRequests[q] : Posted(FinishEnqueue(q, r.id))
        /\ \A n \in DOMAIN m_requests[q] :
              m_requests[q][n].status # "InProgress" =>
                 \/ Posted(HandleRequestsOf(q))
                 \/ pass.queue = q /\ pass.at <= n

\* Requests are started in the order they were listed: behind a request that
\* was not started yet there is none that was, whatever passes yielded between.
StartedInOrder ==
    \A q \in Queues : \A m, n \in DOMAIN m_requests[q] :
        /\ m < n
        /\ m_requests[q][m].status = "Pending"
        => m_requests[q][n].status = "Pending"

\* A callback always finds its request: the request of a running job is listed
\* and in progress, and so is a crypto request waiting for its helper.  So
\* requestFinished never meets an unknown request, and
\* asynchronousCryptoRequestCompleted never meets an unknown crypto request.
Waits(q, i) == \E n \in DOMAIN m_requests[q] :
    m_requests[q][n].id = i /\ m_requests[q][n].status = "InProgress"

IsHelperOf(r, cid) == r.cryptoRequestId = cid

CallbacksFindRequest ==
    /\ \A w \in working : Waits(w[1], w[2])
    /\ \A cid \in m_cryptoApiHelperRequests :
          Waits("crypto", cid) /\ <<"crypto", cid>> \notin working
    /\ \A r \in m_enqueuingRequests["secrets"] :
          r.cryptoRequestId # NoId => r.cryptoRequestId \in m_cryptoApiHelperRequests
    /\ \A n \in DOMAIN m_requests["secrets"] :
          LET cid == m_requests["secrets"][n].cryptoRequestId IN
          cid # NoId => cid \in m_cryptoApiHelperRequests

\* Nobody waits for an event that cannot come: a request in progress has a job
\* running or, on the crypto queue, a helper request somewhere in the secrets
\* queue.
InProgressIsDriven ==
    \A q \in Queues : \A n \in DOMAIN m_requests[q] :
        LET i == m_requests[q][n].id IN
        m_requests[q][n].status = "InProgress" =>
            \/ <<q, i>> \in working
            \/ /\ q = "crypto"
               /\ i \in m_cryptoApiHelperRequests
               /\ \/ \E r \in m_enqueuingRequests["secrets"] : IsHelperOf(r, i)
                  \/ \E m \in DOMAIN m_requests["secrets"] :
                        IsHelperOf(m_requests["secrets"][m], i)

\* A call whose reply is still due is carried by a request of some queue.
NoCallLost ==
    \A c \in sent : replies[c] = 0 =>
        \E q \in Queues :
            \/ \E r \in m_enqueuingRequests[q] : r.call = c
            \/ \E n \in DOMAIN m_requests[q] : m_requests[q][n].call = c

\* The queues implement the promise made to the clients: a call is answered
\* once, and not before it was made (twice if its peer is not known).
Promise == INSTANCE AnsweredCalls
    WITH Calls <- Calls, sent <- sent, replies <- replies

AnswersOnce == Promise!ASpec

\* Every call is eventually answered.
EveryCallAnswered == \A c \in Calls : c \in sent ~> replies[c] > 0
=============================================================================
