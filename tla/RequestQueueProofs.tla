------------------------- MODULE RequestQueueProofs -------------------------
(* Proofs about the request queues, for any number of calls, identifiers and *)
(* helper requests.                                                          *)
EXTENDS RequestQueue, TLAPS, SequenceTheorems

-----------------------------------------------------------------------------
(* The operations on lists. *)

\* A function on 1 .. k is a sequence of length k.
LEMMA FunctionIsSeq ==
    ASSUME NEW S, NEW k \in Nat, NEW f \in [1 .. k -> S]
    PROVE  f \in Seq(S) /\ Len(f) = k /\ DOMAIN f = 1 .. k
<1>1. f \in Seq(S)
  BY SeqDef
<1>2. DOMAIN f = 1 .. k /\ DOMAIN f = 1 .. Len(f) /\ Len(f) \in Nat
  BY <1>1, LenProperties
<1>3. Len(f) = k
  <2>1. CASE Len(f) > k
    <3>1. Len(f) \in 1 .. Len(f) /\ Len(f) \notin 1 .. k
      BY <2>1, <1>2
    <3> QED BY <3>1, <1>2
  <2>2. CASE Len(f) < k
    <3>1. k \in 1 .. k /\ k \notin 1 .. Len(f)
      BY <2>2, <1>2
    <3> QED BY <3>1, <1>2
  <2> QED BY <2>1, <2>2, <1>2
<1> QED BY <1>1, <1>2, <1>3

\* QList::erase moves the elements behind the erased one forward.
LEMMA EraseList ==
    ASSUME NEW S, NEW list \in Seq(S), NEW n \in DOMAIN list
    PROVE  /\ Erase(list, n) \in Seq(S)
           /\ Len(Erase(list, n)) = Len(list) - 1
           /\ DOMAIN Erase(list, n) = 1 .. Len(list) - 1
           /\ \A m \in 1 .. Len(list) - 1 :
                 Erase(list, n)[m] = IF m < n THEN list[m] ELSE list[m + 1]
<1> DEFINE e == Erase(list, n)
<1>1. Len(list) - 1 \in Nat /\ DOMAIN list = 1 .. Len(list)
  OBVIOUS
<1>2. e \in [1 .. Len(list) - 1 -> S]
  BY <1>1 DEF Erase
<1>3. \A m \in 1 .. Len(list) - 1 : e[m] = IF m < n THEN list[m] ELSE list[m + 1]
  BY <1>1 DEF Erase
<1> HIDE DEF e
<1> QED
  BY <1>1, <1>2, <1>3, FunctionIsSeq DEF e

\* The status of the n-th request is set.
LEMMA SetStatusList ==
    ASSUME NEW list \in Seq(RequestData), NEW n \in DOMAIN list,
           NEW s \in RequestStatus
    PROVE  /\ SetStatus(list, n, s) \in Seq(RequestData)
           /\ DOMAIN SetStatus(list, n, s) = DOMAIN list
           /\ Len(SetStatus(list, n, s)) = Len(list)
           /\ \A m \in DOMAIN list :
                 /\ SetStatus(list, n, s)[m].id = list[m].id
                 /\ SetStatus(list, n, s)[m].call = list[m].call
                 /\ SetStatus(list, n, s)[m].cryptoRequestId = list[m].cryptoRequestId
                 /\ SetStatus(list, n, s)[m].status =
                       IF m = n THEN s ELSE list[m].status
<1> DEFINE r == [list[n] EXCEPT !.status = s]
<1>1. DOMAIN list = 1 .. Len(list) /\ list[n] \in RequestData
  BY LenProperties
<1>2. r \in RequestData
  BY <1>1 DEF RequestData
<1>3. SetStatus(list, n, s) = [list EXCEPT ![n] = r]
  BY DEF SetStatus
<1>4. /\ r.id = list[n].id /\ r.status = s /\ r.call = list[n].call
      /\ r.cryptoRequestId = list[n].cryptoRequestId
  BY <1>1 DEF RequestData
<1> HIDE DEF r
<1>5. /\ [list EXCEPT ![n] = r] \in Seq(RequestData)
      /\ Len([list EXCEPT ![n] = r]) = Len(list)
      /\ \A m \in 1 .. Len(list) :
            [list EXCEPT ![n] = r][m] = IF m = n THEN r ELSE list[m]
  BY <1>1, <1>2, ExceptSeq
<1> QED
  BY <1>1, <1>3, <1>4, <1>5

\* requestFinished changes the status of the request with the identifier.
LEMMA FinishedInList ==
    ASSUME NEW rs \in [Queues -> Seq(RequestData)], NEW q \in Queues, NEW i \in Ids
    PROVE  /\ FinishedIn(rs, q, i) \in [Queues -> Seq(RequestData)]
           /\ \A p \in Queues : p # q => FinishedIn(rs, q, i)[p] = rs[p]
           /\ DOMAIN FinishedIn(rs, q, i)[q] = DOMAIN rs[q]
           /\ Len(FinishedIn(rs, q, i)[q]) = Len(rs[q])
           /\ \A m \in DOMAIN rs[q] :
                 /\ FinishedIn(rs, q, i)[q][m].id = rs[q][m].id
                 /\ FinishedIn(rs, q, i)[q][m].call = rs[q][m].call
                 /\ FinishedIn(rs, q, i)[q][m].cryptoRequestId = rs[q][m].cryptoRequestId
                 /\ FinishedIn(rs, q, i)[q][m].status =
                       IF rs[q][m].id = i THEN "Finished" ELSE rs[q][m].status
<1> DEFINE list == rs[q]
           e == [n \in DOMAIN list |->
                   IF list[n].id = i THEN [list[n] EXCEPT !.status = "Finished"]
                                     ELSE list[n]]
<1>1. list \in Seq(RequestData) /\ DOMAIN list = 1 .. Len(list) /\ Len(list) \in Nat
  OBVIOUS
<1>2. FinishedIn(rs, q, i) = [rs EXCEPT ![q] = e]
  BY DEF FinishedIn
<1>3. rs[q] = list
  OBVIOUS
<1> HIDE DEF list
<1>4. \A m \in DOMAIN list : e[m] =
         IF list[m].id = i THEN [list[m] EXCEPT !.status = "Finished"] ELSE list[m]
  OBVIOUS
<1>5. \A m \in DOMAIN list :
         list[m] \in RequestData /\ [list[m] EXCEPT !.status = "Finished"] \in RequestData
  <2>1. \A r \in RequestData : [r EXCEPT !.status = "Finished"] \in RequestData
    BY DEF RequestData, RequestStatus
  <2>2. \A m \in DOMAIN list : list[m] \in RequestData
    BY <1>1, ElementOfSeq
  <2> QED BY <2>1, <2>2
<1>6. e \in [1 .. Len(list) -> RequestData]
  BY <1>1, <1>4, <1>5
<1> HIDE DEF e
<1>7. e \in Seq(RequestData) /\ Len(e) = Len(list) /\ DOMAIN e = DOMAIN list
  BY <1>1, <1>6, FunctionIsSeq
<1>8. \A m \in DOMAIN list :
         /\ e[m].id = list[m].id
         /\ e[m].call = list[m].call
         /\ e[m].cryptoRequestId = list[m].cryptoRequestId
         /\ e[m].status = IF list[m].id = i THEN "Finished" ELSE list[m].status
  <2>1. \A r \in RequestData : /\ [r EXCEPT !.status = "Finished"].id = r.id
                               /\ [r EXCEPT !.status = "Finished"].call = r.call
                               /\ [r EXCEPT !.status = "Finished"].cryptoRequestId =
                                     r.cryptoRequestId
                               /\ [r EXCEPT !.status = "Finished"].status = "Finished"
    BY DEF RequestData
  <2> SUFFICES ASSUME NEW m \in DOMAIN list
               PROVE  /\ e[m].id = list[m].id
                      /\ e[m].call = list[m].call
                      /\ e[m].cryptoRequestId = list[m].cryptoRequestId
                      /\ e[m].status = IF list[m].id = i THEN "Finished" ELSE list[m].status
    OBVIOUS
  <2>2. CASE list[m].id = i
    <3>1. e[m] = [list[m] EXCEPT !.status = "Finished"] /\ list[m] \in RequestData
      BY <1>4, <1>5, <2>2
    <3> QED BY <2>1, <2>2, <3>1
  <2>3. CASE list[m].id # i
    BY <1>4, <2>3
  <2> QED BY <2>2, <2>3
<1>9. FinishedIn(rs, q, i)[q] = e
  BY <1>2
<1> QED
  BY <1>2, <1>3, <1>7, <1>8, <1>9

\* requestFinished neither adds nor removes a request.
LEMMA FinishedInDomain ==
    ASSUME NEW rs \in [Queues -> Seq(RequestData)], NEW q \in Queues, NEW i \in Ids
    PROVE  DOMAIN FinishedIn(rs, q, i)[q] = DOMAIN rs[q]
BY FinishedInList

\* requestFinished changes the status of the request, and of no other one.
LEMMA FinishedInStatus ==
    ASSUME NEW rs \in [Queues -> Seq(RequestData)], NEW q \in Queues, NEW i \in Ids
    PROVE  \A m \in DOMAIN rs[q] :
              FinishedIn(rs, q, i)[q][m].status =
                 IF rs[q][m].id = i THEN "Finished" ELSE rs[q][m].status
BY FinishedInList
-----------------------------------------------------------------------------
(* Type correctness. *)

\* The invocations the queues post are events.
LEMMA EventType ==
    ASSUME NEW q \in Queues, NEW i \in Ids
    PROVE  FinishEnqueue(q, i) \in Event /\ HandleRequestsOf(q) \in Event
BY DEF FinishEnqueue, HandleRequestsOf, Event, NoId, Ids

\* The counter wraps around.
LEMMA CandidateIsId ==
    ASSUME requestId \in Ids, NEW k \in Nat
    PROVE  Candidate(k) \in Ids
BY NumIdsAssumption DEF Candidate, Ids

\* A pass that yields posts an event.
LEMMA YieldType ==
    ASSUME NEW q \in Queues, NEW evs \in Seq(Event), NEW y \in Yields(q)
    PROVE  y \in Seq(Event) /\ evs \o y \in Seq(Event)
<1>1. HandleRequestsOf(q) \in Event
  BY DEF HandleRequestsOf, Event
<1>2. y \in Seq(Event)
  <2>1. << >> \in Seq(Event)
    BY EmptySeq
  <2>2. \A e \in Event : <<e>> \in Seq(Event)
    OBVIOUS
  <2> QED BY <1>1, <2>1, <2>2 DEF Yields
<1> QED BY <1>2, ConcatProperties

\* Inserting a request keeps the type of m_enqueuingRequests.
LEMMA InsertedType ==
    ASSUME TypeOK, NEW q \in Queues, NEW i \in Ids, NEW c \in Calls \cup {NoCall},
           NEW cid \in Ids \cup {NoId}
    PROVE  Inserted(q, i, c, cid) \in [Queues -> SUBSET RequestData]
<1>1. [id |-> i, call |-> c, status |-> "Pending", cryptoRequestId |-> cid]
        \in RequestData
  BY DEF RequestData, RequestStatus
<1> QED BY <1>1 DEF Inserted, TypeOK

\* Making a helper request keeps all state typed.
LEMMA HelperType ==
    ASSUME TypeOK, NEW cid \in Ids, NEW q \in Queues,
           NEW rs \in [Queues -> Seq(RequestData)],
           NEW evs \in Seq(Event), NEW y \in Seq(Event),
           StartHelper(cid, rs, evs, y)
    PROVE  /\ requestId' \in Ids
           /\ m_enqueuingRequests' \in [Queues -> SUBSET RequestData]
           /\ m_requests' \in [Queues -> Seq(RequestData)]
           /\ posted' \in Seq(Event)
           /\ helpersMade' \in Nat
<1>1. PICK i \in Ids : /\ m_enqueuingRequests' = Inserted("secrets", i, NoCall, cid)
                      /\ posted' = Append(evs, FinishEnqueue("secrets", i)) \o y
  BY DEF StartHelper
<1>2. Append(evs, FinishEnqueue("secrets", i)) \in Seq(Event)
  BY EventType DEF Queues
<1>3. posted' \in Seq(Event)
  BY <1>1, <1>2, ConcatProperties
<1>4. m_enqueuingRequests' \in [Queues -> SUBSET RequestData]
  BY <1>1, InsertedType DEF Queues
<1>5. requestId' \in Ids
  BY CandidateIsId DEF StartHelper, TypeOK
<1> QED BY <1>3, <1>4, <1>5 DEF StartHelper, TypeOK

\* Resuming a crypto request keeps all state typed.
LEMMA ResumeType ==
    ASSUME TypeOK, NEW cid \in Ids, NEW withJob \in BOOLEAN,
           NEW rs \in [Queues -> Seq(RequestData)],
           NEW evs \in Seq(Event), NEW y \in Seq(Event),
           Resume(cid, rs, evs, y, withJob)
    PROVE  /\ requestId' \in Ids
           /\ m_enqueuingRequests' \in [Queues -> SUBSET RequestData]
           /\ m_requests' \in [Queues -> Seq(RequestData)]
           /\ posted' \in Seq(Event)
           /\ working' \subseteq Queues \X Ids
           /\ m_cryptoApiHelperRequests' \subseteq Ids
           /\ helpersMade' \in Nat
<1>0. "crypto" \in Queues
  BY DEF Queues
<1>1. CASE /\ m_requests' = FinishedIn(rs, "crypto", cid)
           /\ posted' = PostedByFinish(rs, evs, "crypto", cid) \o y
           /\ requestId' \in {requestId} \cup
                  (IF QueueFull("secrets") THEN {Candidate(1)} ELSE {})
           /\ working' = working \ {<<"crypto", cid>>}
           /\ m_cryptoApiHelperRequests' = m_cryptoApiHelperRequests \ {cid}
           /\ UNCHANGED <<m_enqueuingRequests, helpersMade>>
  <2>1. PostedByFinish(rs, evs, "crypto", cid) \in Seq(Event)
    BY <1>0, EventType DEF PostedByFinish
  <2>2. posted' \in Seq(Event)
    BY <1>1, <2>1, ConcatProperties
  <2>3. requestId' \in Ids
    BY <1>1, CandidateIsId DEF TypeOK
  <2>4. m_requests' \in [Queues -> Seq(RequestData)]
    BY <1>0, <1>1, FinishedInList
  <2> QED BY <1>1, <2>2, <2>3, <2>4 DEF TypeOK
<1>2. CASE /\ m_requests' = rs
           /\ posted' = evs \o y
           /\ working' = working \cup {<<"crypto", cid>>}
           /\ m_cryptoApiHelperRequests' = m_cryptoApiHelperRequests \ {cid}
           /\ UNCHANGED <<m_enqueuingRequests, requestId, helpersMade>>
  BY <1>0, <1>2, ConcatProperties DEF TypeOK
<1>3. CASE /\ StartHelper(cid, rs, evs, y)
           /\ working' = working \ {<<"crypto", cid>>}
           /\ m_cryptoApiHelperRequests' = m_cryptoApiHelperRequests \cup {cid}
  BY <1>0, <1>3, HelperType DEF TypeOK
<1> QED BY <1>1, <1>2, <1>3 DEF Resume

\* A reply is counted.
LEMMA ReplyType ==
    ASSUME replies \in [Calls -> Nat], NEW c, Reply(c)
    PROVE  replies' \in [Calls -> Nat]
<1>1. replies' = [replies EXCEPT ![c] = replies[c] + 1]
  BY DEF Reply
<1>2. CASE c \in Calls
  <2>1. replies[c] + 1 \in Nat
    BY <1>2
  <2> QED BY <1>1, <2>1
<1>3. CASE c \notin Calls
  BY <1>1, <1>3
<1> QED BY <1>2, <1>3

\* Completing a request of the secrets queue keeps all state typed.
LEMMA CompleteType ==
    ASSUME TypeOK, At("secrets", "Pending") \/ At("secrets", "Finished"),
           NEW rs \in [Queues -> Seq(RequestData)], NEW y \in Seq(Event),
           CompleteSecrets(rs, y)
    PROVE  /\ requestId' \in Ids
           /\ m_enqueuingRequests' \in [Queues -> SUBSET RequestData]
           /\ m_requests' \in [Queues -> Seq(RequestData)]
           /\ posted' \in Seq(Event)
           /\ working' \subseteq Queues \X Ids
           /\ m_cryptoApiHelperRequests' \subseteq Ids
           /\ helpersMade' \in Nat
           /\ replies' \in [Calls -> Nat]
<1> DEFINE r == Current("secrets")
<1>1. posted \o y \in Seq(Event)
  BY ConcatProperties DEF TypeOK
<1>2. CASE /\ r.cryptoRequestId = NoId
           /\ Reply(r.call)
           /\ m_requests' = rs
           /\ posted' = posted \o y
           /\ UNCHANGED <<requestId, m_enqueuingRequests, working,
                          m_cryptoApiHelperRequests, helpersMade>>
  <2>1. replies' \in [Calls -> Nat]
    BY <1>2, ReplyType DEF TypeOK
  <2> QED BY <1>1, <1>2, <2>1 DEF TypeOK
<1>3. CASE /\ r.cryptoRequestId \in m_cryptoApiHelperRequests
           /\ Resume(r.cryptoRequestId, rs, posted, y, TRUE)
           /\ UNCHANGED replies
  <2>1. r.cryptoRequestId \in Ids /\ posted \in Seq(Event)
    BY <1>3 DEF TypeOK
  <2> QED BY <1>3, <2>1, ResumeType DEF TypeOK
<1>4. CASE /\ m_requests' = rs
           /\ posted' = posted \o y
           /\ UNCHANGED <<requestId, m_enqueuingRequests, working, replies,
                          m_cryptoApiHelperRequests, helpersMade>>
  BY <1>1, <1>4 DEF TypeOK
<1> QED BY <1>2, <1>3, <1>4 DEF CompleteSecrets

\* A pass goes on, or ends and leaves an event behind.
LEMMA AdvanceType ==
    ASSUME NEW q \in Queues, NEW next \in Nat \ {0}, NEW rest, NEW y,
           Advance(q, next, rest, y)
    PROVE  pass' \in {NoPass} \cup [queue : Queues, at : Nat \ {0}]
BY DEF Advance, PassAt

\* At the current element of a pass, the list is not empty.
LEMMA AtElement ==
    ASSUME TypeOK, NEW q \in Queues, NEW s, At(q, s)
    PROVE  /\ pass.at \in DOMAIN m_requests[q]
           /\ pass.at \in Nat \ {0}
           /\ m_requests[q] \in Seq(RequestData)
           /\ Current(q) \in RequestData
           /\ Current(q) = m_requests[q][pass.at]
           /\ Current(q).status = s
           /\ pass.queue = q
           /\ pass # NoPass
<1>1. m_requests[q] \in Seq(RequestData) /\ pass.at \in DOMAIN m_requests[q]
  BY DEF TypeOK, At
<1>2. pass.at \in 1 .. Len(m_requests[q]) /\ Len(m_requests[q]) \in Nat
  BY <1>1, LenProperties
<1>3. m_requests[q][pass.at] \in RequestData
  BY <1>1, <1>2, ElementOfSeq
<1>4. pass # NoPass
  BY DEF At, NoPass, Queues
<1> QED BY <1>1, <1>2, <1>3, <1>4 DEF At, Current

\* Both queues start empty, with all state typed.
THEOREM TypeInit == Init => TypeOK
<1> SUFFICES ASSUME Init PROVE TypeOK
  OBVIOUS
<1>1. requestId \in Ids
  BY NumIdsAssumption DEF Init, Ids
<1>2. posted \in Seq(Event) /\ m_requests \in [Queues -> Seq(RequestData)]
  BY EmptySeq DEF Init
<1> QED BY <1>1, <1>2 DEF Init, TypeOK

\* Every step keeps all state typed.
THEOREM TypeStep == TypeOK /\ [Next]_vars => TypeOK'
<1> SUFFICES ASSUME TypeOK, [Next]_vars PROVE TypeOK'
  OBVIOUS
<1>0. "secrets" \in Queues /\ "crypto" \in Queues
  BY DEF Queues
<1>1. ASSUME NEW c \in Calls, NEW q \in Queues, HandleRequest(c, q)
      PROVE  TypeOK'
  <2>1. CASE RefuseUnknownPeer(c)
    <3>1. replies' \in [Calls -> Nat]
      <4>1. replies[c] + 2 \in Nat
        BY DEF TypeOK
      <4> QED BY <2>1, <4>1 DEF RefuseUnknownPeer, TypeOK
    <3> QED BY <2>1, <3>1 DEF RefuseUnknownPeer, TypeOK
  <2>2. CASE RefuseQueueFull(c, q)
    <3>1. replies' \in [Calls -> Nat]
      BY <2>2, ReplyType DEF RefuseQueueFull, TypeOK
    <3>2. requestId' \in Ids
      BY <2>2, CandidateIsId DEF RefuseQueueFull, TypeOK
    <3> QED BY <2>2, <3>1, <3>2 DEF RefuseQueueFull, TypeOK
  <2>3. CASE EnqueueRequest(c, q)
    <3>1. PICK i \in Ids : /\ m_enqueuingRequests' = Inserted(q, i, c, NoId)
                          /\ posted' = Append(posted, FinishEnqueue(q, i))
      BY <2>3 DEF EnqueueRequest
    <3>2. m_enqueuingRequests' \in [Queues -> SUBSET RequestData]
      BY <3>1, InsertedType
    <3>3. posted' \in Seq(Event)
      BY <3>1, EventType DEF TypeOK
    <3>4. requestId' \in Ids
      BY <2>3, CandidateIsId DEF EnqueueRequest, TypeOK
    <3> QED BY <2>3, <3>2, <3>3, <3>4 DEF EnqueueRequest, TypeOK
  <2> QED BY <1>1, <2>1, <2>2, <2>3 DEF HandleRequest
<1>2. ASSUME NEW q \in Queues, FinishEnqueueRequest(q)
      PROVE  TypeOK'
  <2>0. posted \in Seq(Event) /\ posted # << >>
    BY <1>2 DEF FinishEnqueueRequest, TypeOK
  <2>1. Tail(posted) \in Seq(Event)
    BY <2>0, HeadTailProperties
  <2>2. Append(Tail(posted), HandleRequestsOf(q)) \in Seq(Event)
    <3>1. HandleRequestsOf(q) \in Event
      BY DEF HandleRequestsOf, Event
    <3> QED BY <2>1, <3>1
  <2>3. ASSUME NEW r \in m_enqueuingRequests[q],
               m_enqueuingRequests' = [m_enqueuingRequests EXCEPT ![q] = @ \ {r}],
               m_requests' = [m_requests EXCEPT ![q] = Listed(@, r)]
        PROVE  /\ m_enqueuingRequests' \in [Queues -> SUBSET RequestData]
               /\ m_requests' \in [Queues -> Seq(RequestData)]
    <3>1. m_requests[q] \in Seq(RequestData) /\ r \in RequestData
      BY DEF TypeOK
    <3>2. Append(m_requests[q], r) \in Seq(RequestData)
      BY <3>1
    <3> QED BY <2>3, <3>2 DEF TypeOK, Listed
  <2> QED BY <1>2, <2>1, <2>2, <2>3 DEF FinishEnqueueRequest, TypeOK
<1>3. ASSUME NEW q \in Queues, BeginPass(q)
      PROVE  TypeOK'
  <2>1. posted' \in Seq(Event)
    BY <1>3, HeadTailProperties DEF BeginPass, TypeOK
  <2> QED BY <1>3, <2>1 DEF BeginPass, TypeOK, PassAt
<1>4. ASSUME NEW q \in Queues, SkipInProgress(q)
      PROVE  TypeOK'
  <2>1. PICK y \in Yields(q) : /\ Advance(q, pass.at + 1, m_requests[q], y)
                              /\ posted' = posted \o y
    BY <1>4 DEF SkipInProgress
  <2>2. pass.at + 1 \in Nat \ {0}
    BY <1>4, AtElement DEF SkipInProgress
  <2>3. pass' \in {NoPass} \cup [queue : Queues, at : Nat \ {0}]
    BY <2>1, <2>2, AdvanceType
  <2>4. posted' \in Seq(Event)
    BY <2>1, YieldType DEF TypeOK
  <2> QED BY <1>4, <2>3, <2>4 DEF SkipInProgress, TypeOK
<1>5. ASSUME NEW q \in Queues, EndPass(q)
      PROVE  TypeOK'
  BY <1>5 DEF EndPass, TypeOK
<1>6. ASSUME SecretsPending
      PROVE  TypeOK'
  <2>0. At("secrets", "Pending") /\ UNCHANGED sent
    BY <1>6 DEF SecretsPending
  <2>a. /\ pass.at \in DOMAIN m_requests["secrets"]
        /\ pass.at \in Nat \ {0}
        /\ m_requests["secrets"] \in Seq(RequestData)
        /\ Current("secrets") \in RequestData
    BY <1>0, <2>0, AtElement
  <2> DEFINE rest == Erase(m_requests["secrets"], pass.at)
             kept == SetStatus(m_requests["secrets"], pass.at, "InProgress")
  <2>1. ASSUME NEW y \in Yields("secrets"),
               Advance("secrets", pass.at, rest, y),
               CompleteSecrets([m_requests EXCEPT !["secrets"] = rest], y)
        PROVE  TypeOK'
    <3>1. rest \in Seq(RequestData)
      BY <2>a, EraseList
    <3> HIDE DEF rest
    <3>2. [m_requests EXCEPT !["secrets"] = rest] \in [Queues -> Seq(RequestData)]
      BY <3>1 DEF TypeOK
    <3>3. pass' \in {NoPass} \cup [queue : Queues, at : Nat \ {0}]
      BY <1>0, <2>a, <2>1, AdvanceType
    <3>4. y \in Seq(Event)
      BY <1>0, YieldType DEF TypeOK
    <3> QED BY <2>0, <2>1, <3>2, <3>3, <3>4, CompleteType DEF TypeOK
  <2>2. ASSUME NEW y \in Yields("secrets"),
               Advance("secrets", pass.at + 1, kept, y),
               m_requests' = [m_requests EXCEPT !["secrets"] = kept],
               posted' = posted \o y,
               working' = working \cup {<<"secrets", Current("secrets").id>>},
               UNCHANGED <<requestId, m_enqueuingRequests, replies,
                           m_cryptoApiHelperRequests, helpersMade>>
        PROVE  TypeOK'
    <3>1. kept \in Seq(RequestData)
      BY <2>a, SetStatusList DEF RequestStatus
    <3> HIDE DEF kept
    <3>2. m_requests' \in [Queues -> Seq(RequestData)]
      BY <2>2, <3>1 DEF TypeOK
    <3>3. pass' \in {NoPass} \cup [queue : Queues, at : Nat \ {0}]
      BY <1>0, <2>a, <2>2, AdvanceType
    <3>4. posted' \in Seq(Event)
      BY <1>0, <2>2, YieldType DEF TypeOK
    <3>5. working' \subseteq Queues \X Ids
      BY <1>0, <2>a, <2>2 DEF TypeOK, RequestData
    <3> QED BY <2>0, <2>2, <3>2, <3>3, <3>4, <3>5 DEF TypeOK
  <2> QED BY <1>6, <2>1, <2>2 DEF SecretsPending
<1>7. ASSUME SecretsFinished
      PROVE  TypeOK'
  <2>0. At("secrets", "Finished") /\ UNCHANGED sent
    BY <1>7 DEF SecretsFinished
  <2>a. /\ pass.at \in DOMAIN m_requests["secrets"]
        /\ pass.at \in Nat \ {0}
        /\ m_requests["secrets"] \in Seq(RequestData)
    BY <1>0, <2>0, AtElement
  <2> DEFINE rest == Erase(m_requests["secrets"], pass.at)
  <2>1. PICK y \in Yields("secrets") :
           /\ Advance("secrets", pass.at, rest, y)
           /\ CompleteSecrets([m_requests EXCEPT !["secrets"] = rest], y)
    BY <1>7 DEF SecretsFinished
  <2>2. rest \in Seq(RequestData)
    BY <2>a, EraseList
  <2> HIDE DEF rest
  <2>3. [m_requests EXCEPT !["secrets"] = rest] \in [Queues -> Seq(RequestData)]
    BY <2>2 DEF TypeOK
  <2>4. pass' \in {NoPass} \cup [queue : Queues, at : Nat \ {0}]
    BY <1>0, <2>a, <2>1, AdvanceType
  <2>5. y \in Seq(Event)
    BY <1>0, YieldType DEF TypeOK
  <2> QED BY <2>0, <2>1, <2>3, <2>4, <2>5, CompleteType DEF TypeOK
<1>8. ASSUME CryptoPending
      PROVE  TypeOK'
  <2>0. At("crypto", "Pending") /\ UNCHANGED sent
    BY <1>8 DEF CryptoPending
  <2>a. /\ pass.at \in DOMAIN m_requests["crypto"]
        /\ pass.at \in Nat \ {0}
        /\ m_requests["crypto"] \in Seq(RequestData)
        /\ Current("crypto").id \in Ids
    BY <1>0, <2>0, AtElement DEF RequestData
  <2> DEFINE rest == Erase(m_requests["crypto"], pass.at)
             kept == SetStatus(m_requests["crypto"], pass.at, "InProgress")
             i == Current("crypto").id
  <2>1. ASSUME NEW y \in Yields("crypto"),
               Advance("crypto", pass.at, rest, y),
               m_requests' = [m_requests EXCEPT !["crypto"] = rest],
               posted' = posted \o y,
               Reply(Current("crypto").call),
               requestId' \in {requestId} \cup
                    (IF QueueFull("secrets") THEN {Candidate(1)} ELSE {}),
               UNCHANGED <<m_enqueuingRequests, working,
                           m_cryptoApiHelperRequests, helpersMade>>
        PROVE  TypeOK'
    <3>1. rest \in Seq(RequestData)
      BY <2>a, EraseList
    <3> HIDE DEF rest
    <3>2. m_requests' \in [Queues -> Seq(RequestData)]
      BY <2>1, <3>1 DEF TypeOK
    <3>3. pass' \in {NoPass} \cup [queue : Queues, at : Nat \ {0}]
      BY <1>0, <2>a, <2>1, AdvanceType
    <3>4. posted' \in Seq(Event)
      BY <1>0, <2>1, YieldType DEF TypeOK
    <3>5. requestId' \in Ids
      BY <2>1, CandidateIsId DEF TypeOK
    <3>6. replies' \in [Calls -> Nat]
      BY <2>1, ReplyType DEF TypeOK
    <3> QED BY <2>0, <2>1, <3>2, <3>3, <3>4, <3>5, <3>6 DEF TypeOK
  <2>2. ASSUME NEW y \in Yields("crypto"),
               Advance("crypto", pass.at + 1, kept, y),
               UNCHANGED replies,
               \/ /\ m_requests' = [m_requests EXCEPT !["crypto"] = kept]
                  /\ posted' = posted \o y
                  /\ working' = working \cup {<<"crypto", i>>}
                  /\ UNCHANGED <<requestId, m_enqueuingRequests,
                                 m_cryptoApiHelperRequests, helpersMade>>
               \/ /\ StartHelper(i, [m_requests EXCEPT !["crypto"] = kept],
                                 posted, y)
                  /\ m_cryptoApiHelperRequests' = m_cryptoApiHelperRequests \cup {i}
                  /\ UNCHANGED working
        PROVE  TypeOK'
    <3>1. kept \in Seq(RequestData)
      BY <2>a, SetStatusList DEF RequestStatus
    <3>2. i \in Ids
      BY <2>a
    <3> HIDE DEF kept, i
    <3>3. [m_requests EXCEPT !["crypto"] = kept] \in [Queues -> Seq(RequestData)]
      BY <3>1 DEF TypeOK
    <3>4. pass' \in {NoPass} \cup [queue : Queues, at : Nat \ {0}]
      BY <1>0, <2>a, <2>2, AdvanceType
    <3>5. y \in Seq(Event) /\ posted \o y \in Seq(Event) /\ posted \in Seq(Event)
      BY <1>0, YieldType DEF TypeOK
    <3>6. CASE /\ m_requests' = [m_requests EXCEPT !["crypto"] = kept]
               /\ posted' = posted \o y
               /\ working' = working \cup {<<"crypto", i>>}
               /\ UNCHANGED <<requestId, m_enqueuingRequests,
                              m_cryptoApiHelperRequests, helpersMade>>
      <4>1. working' \subseteq Queues \X Ids
        BY <1>0, <3>2, <3>6 DEF TypeOK
      <4> QED BY <2>0, <2>2, <3>3, <3>4, <3>5, <3>6, <4>1 DEF TypeOK
    <3>7. CASE /\ StartHelper(i, [m_requests EXCEPT !["crypto"] = kept], posted, y)
               /\ m_cryptoApiHelperRequests' = m_cryptoApiHelperRequests \cup {i}
               /\ UNCHANGED working
      BY <1>0, <2>0, <2>2, <3>2, <3>3, <3>4, <3>5, <3>7, HelperType DEF TypeOK
    <3> QED BY <2>2, <3>6, <3>7
  <2> QED BY <1>8, <2>1, <2>2 DEF CryptoPending
<1>9. ASSUME CryptoFinished
      PROVE  TypeOK'
  <2>0. At("crypto", "Finished")
    BY <1>9 DEF CryptoFinished
  <2>a. /\ pass.at \in DOMAIN m_requests["crypto"]
        /\ pass.at \in Nat \ {0}
        /\ m_requests["crypto"] \in Seq(RequestData)
    BY <1>0, <2>0, AtElement
  <2> DEFINE rest == Erase(m_requests["crypto"], pass.at)
  <2>1. PICK y \in Yields("crypto") :
           /\ Advance("crypto", pass.at, rest, y)
           /\ m_requests' = [m_requests EXCEPT !["crypto"] = rest]
           /\ posted' = posted \o y
           /\ Reply(Current("crypto").call)
    BY <1>9 DEF CryptoFinished
  <2>2. rest \in Seq(RequestData)
    BY <2>a, EraseList
  <2> HIDE DEF rest
  <2>3. m_requests' \in [Queues -> Seq(RequestData)]
    BY <2>1, <2>2 DEF TypeOK
  <2>4. pass' \in {NoPass} \cup [queue : Queues, at : Nat \ {0}]
    BY <1>0, <2>a, <2>1, AdvanceType
  <2>5. posted' \in Seq(Event)
    BY <1>0, <2>1, YieldType DEF TypeOK
  <2>6. replies' \in [Calls -> Nat]
    BY <2>1, ReplyType DEF TypeOK
  <2> QED BY <1>9, <2>3, <2>4, <2>5, <2>6 DEF CryptoFinished, TypeOK
<1>10. ASSUME NEW i \in Ids, SecretsJobDone(i)
       PROVE  TypeOK'
  <2>1. m_requests' \in [Queues -> Seq(RequestData)]
    BY <1>0, <1>10, FinishedInList DEF SecretsJobDone, TypeOK
  <2>2. posted' \in Seq(Event)
    BY <1>0, <1>10, EventType DEF SecretsJobDone, PostedByFinish, TypeOK
  <2> QED BY <1>10, <2>1, <2>2 DEF SecretsJobDone, TypeOK
<1>11. ASSUME NEW i \in Ids, CryptoJobDone(i)
       PROVE  TypeOK'
  <2>1. << >> \in Seq(Event) /\ posted \in Seq(Event)
        /\ m_requests \in [Queues -> Seq(RequestData)]
    BY EmptySeq DEF TypeOK
  <2>2. Resume(i, m_requests, posted, << >>, FALSE) /\ UNCHANGED <<pass, sent, replies>>
    BY <1>11 DEF CryptoJobDone
  <2> QED BY <2>1, <2>2, ResumeType DEF TypeOK
<1>12. CASE UNCHANGED vars
  BY <1>12 DEF vars, TypeOK
<1> QED
  BY <1>1, <1>2, <1>3, <1>4, <1>5, <1>6, <1>7, <1>8, <1>9, <1>10, <1>11, <1>12
     DEF Next, EventLoop, Handler

\* In every behaviour of the queues all state has its type: identifiers stay
\* below the wrap-around, the lists hold requests and the pass stays in range.
THEOREM TypeCorrect == Spec => []TypeOK
BY TypeInit, TypeStep, PTL DEF Spec
-----------------------------------------------------------------------------
(* Identifiers are unique. *)

Unique(list) == \A m, n \in DOMAIN list : list[m].id = list[n].id => m = n

\* The list new has no identifier the list old has not, and none twice.
Keeps(new, old) ==
    /\ Unique(old) => Unique(new)
    /\ \A i : HasId(new, i) => HasId(old, i)

\* The same of the lists of both queues.
KeepsAll(rs) == \A q \in Queues : Keeps(rs[q], m_requests[q])

\* Erasing a request leaves the identifiers of the others.
LEMMA EraseKeeps ==
    ASSUME NEW list \in Seq(RequestData), NEW n \in DOMAIN list
    PROVE  Keeps(Erase(list, n), list)
<1> DEFINE e == Erase(list, n)
<1>0. Len(list) \in Nat /\ DOMAIN list = 1 .. Len(list)
  OBVIOUS
<1>1. /\ DOMAIN e = 1 .. Len(list) - 1
      /\ \A m \in 1 .. Len(list) - 1 : e[m] = IF m < n THEN list[m] ELSE list[m + 1]
  BY EraseList
<1> HIDE DEF e
<1>2. ASSUME Unique(list), NEW a \in DOMAIN e, NEW b \in DOMAIN e, e[a].id = e[b].id
      PROVE  a = b
  <2> DEFINE at(m) == IF m < n THEN m ELSE m + 1
  <2>1. at(a) \in DOMAIN list /\ at(b) \in DOMAIN list
    BY <1>0, <1>1, <1>2
  <2>2. e[a] = list[at(a)] /\ e[b] = list[at(b)]
    BY <1>1, <1>2
  <2>3. at(a) = at(b)
    <3> HIDE DEF at
    <3> QED BY <1>2, <2>1, <2>2 DEF Unique
  <2> QED BY <1>0, <1>1, <1>2, <2>3
<1>3. ASSUME NEW i, HasId(e, i)
      PROVE  HasId(list, i)
  BY <1>0, <1>1, <1>3 DEF HasId
<1>4. Unique(list) => Unique(e)
  BY <1>2 DEF Unique
<1> QED BY <1>3, <1>4 DEF Keeps, e

\* Setting a status changes no identifier.
LEMMA SetStatusKeeps ==
    ASSUME NEW list \in Seq(RequestData), NEW n \in DOMAIN list,
           NEW s \in RequestStatus
    PROVE  Keeps(SetStatus(list, n, s), list)
<1> DEFINE e == SetStatus(list, n, s)
<1>1. DOMAIN e = DOMAIN list /\ \A m \in DOMAIN list : e[m].id = list[m].id
  BY SetStatusList
<1> HIDE DEF e
<1> QED BY <1>1 DEF Keeps, Unique, HasId, e

\* requestFinished changes no identifier.
LEMMA FinishedInKeeps ==
    ASSUME NEW rs \in [Queues -> Seq(RequestData)], NEW q \in Queues, NEW i \in Ids,
           KeepsAll(rs)
    PROVE  KeepsAll(FinishedIn(rs, q, i))
<1> DEFINE e == FinishedIn(rs, q, i)
<1>1. /\ \A p \in Queues : p # q => e[p] = rs[p]
      /\ DOMAIN e[q] = DOMAIN rs[q]
  BY FinishedInList
<1>4. \A m \in DOMAIN rs[q] : e[q][m].id = rs[q][m].id
  BY FinishedInList
<1> HIDE DEF e
<1>5. Unique(rs[q]) => Unique(e[q])
  BY <1>1, <1>4 DEF Unique
<1>6. \A j : HasId(e[q], j) => HasId(rs[q], j)
  BY <1>1, <1>4 DEF HasId
<1>7. Keeps(e[q], m_requests[q])
  BY <1>5, <1>6 DEF KeepsAll, Keeps
<1> QED BY <1>1, <1>7 DEF KeepsAll, e

\* Replacing the list of one queue by a list with no new identifier.
LEMMA ReplaceKeeps ==
    ASSUME TypeOK, NEW q \in Queues, NEW list, Keeps(list, m_requests[q])
    PROVE  KeepsAll([m_requests EXCEPT ![q] = list])
<1>1. \A p \in Queues : Keeps(m_requests[p], m_requests[p])
  BY DEF Keeps
<1>2. \A p \in Queues :
         [m_requests EXCEPT ![q] = list][p] = IF p = q THEN list ELSE m_requests[p]
  BY DEF TypeOK
<1> QED BY <1>1, <1>2 DEF KeepsAll

\* Requests leave the lists or stay: uniqueness is kept.
LEMMA UniqueKept ==
    ASSUME IdsUnique, KeepsAll(m_requests'), UNCHANGED m_enqueuingRequests
    PROVE  IdsUnique'
<1> SUFFICES ASSUME NEW q \in Queues
             PROVE  /\ Unique(m_requests'[q])
                    /\ \A r \in m_enqueuingRequests[q] : ~HasId(m_requests'[q], r.id)
                    /\ \A r, s \in m_enqueuingRequests[q] : r.id = s.id => r = s
  BY DEF IdsUnique, Unique
<1>1. Unique(m_requests[q])
  BY DEF IdsUnique, Unique
<1>2. Keeps(m_requests'[q], m_requests[q])
  BY DEF KeepsAll
<1> QED BY <1>1, <1>2 DEF IdsUnique, Keeps

\* A request is inserted under the next free identifier.
LEMMA UniqueInserted ==
    ASSUME TypeOK, IdsUnique, KeepsAll(m_requests'), NEW q \in Queues, NEW i \in Ids,
           NextFreeId(q, i), NEW c, NEW cid,
           m_enqueuingRequests' = Inserted(q, i, c, cid)
    PROVE  IdsUnique'
<1>1. i \notin UsedIds(q)
  BY DEF NextFreeId
<1>2. \A r \in m_enqueuingRequests[q] : r.id # i
  BY <1>1 DEF UsedIds
<1>3. ~HasId(m_requests[q], i)
  BY <1>1 DEF UsedIds, HasId
<1> DEFINE new == [id |-> i, call |-> c, status |-> "Pending", cryptoRequestId |-> cid]
<1>4. new.id = i
  OBVIOUS
<1>5. /\ m_enqueuingRequests'[q] =
            {r \in m_enqueuingRequests[q] : r.id # i} \cup {new}
      /\ \A p \in Queues : p # q => m_enqueuingRequests'[p] = m_enqueuingRequests[p]
  BY DEF Inserted, TypeOK
<1> HIDE DEF new
<1> SUFFICES ASSUME NEW p \in Queues
             PROVE  /\ Unique(m_requests'[p])
                    /\ \A r \in m_enqueuingRequests'[p] : ~HasId(m_requests'[p], r.id)
                    /\ \A r, s \in m_enqueuingRequests'[p] : r.id = s.id => r = s
  BY DEF IdsUnique, Unique
<1>6. Unique(m_requests[p]) /\ Keeps(m_requests'[p], m_requests[p])
  BY DEF IdsUnique, Unique, KeepsAll
<1>7. \A r \in m_enqueuingRequests'[p] : ~HasId(m_requests[p], r.id)
  BY <1>3, <1>4, <1>5 DEF IdsUnique
<1>8. \A r, s \in m_enqueuingRequests'[p] : r.id = s.id => r = s
  BY <1>2, <1>4, <1>5 DEF IdsUnique
<1> QED BY <1>6, <1>7, <1>8 DEF Keeps

\* A helper request, made while the lists are being changed.
LEMMA HelperUnique ==
    ASSUME TypeOK, IdsUnique, NEW cid, NEW rs, KeepsAll(rs), NEW evs, NEW y,
           StartHelper(cid, rs, evs, y)
    PROVE  IdsUnique'
<1>1. PICK i \in Ids : /\ NextFreeId("secrets", i)
                      /\ m_enqueuingRequests' = Inserted("secrets", i, NoCall, cid)
  BY DEF StartHelper
<1>2. m_requests' = rs /\ "secrets" \in Queues
  BY DEF StartHelper, Queues
<1> QED BY <1>1, <1>2, UniqueInserted

\* What the Crypto processor does for a request that is resumed.
LEMMA ResumeUnique ==
    ASSUME TypeOK, IdsUnique, NEW cid \in Ids,
           NEW rs \in [Queues -> Seq(RequestData)], KeepsAll(rs),
           NEW evs, NEW y, NEW withJob, Resume(cid, rs, evs, y, withJob)
    PROVE  IdsUnique'
<1>1. CASE /\ m_requests' = FinishedIn(rs, "crypto", cid)
           /\ UNCHANGED <<m_enqueuingRequests, helpersMade>>
  <2>1. KeepsAll(m_requests')
    BY <1>1, FinishedInKeeps DEF Queues
  <2> QED BY <1>1, <2>1, UniqueKept
<1>2. CASE m_requests' = rs /\ UNCHANGED <<m_enqueuingRequests, requestId, helpersMade>>
  BY <1>2, UniqueKept
<1>3. CASE StartHelper(cid, rs, evs, y)
  BY <1>3, HelperUnique
<1> QED BY <1>1, <1>2, <1>3 DEF Resume

\* The end of a request of the secrets queue.
LEMMA CompleteUnique ==
    ASSUME TypeOK, IdsUnique, NEW rs \in [Queues -> Seq(RequestData)], KeepsAll(rs),
           NEW y, CompleteSecrets(rs, y)
    PROVE  IdsUnique'
<1> DEFINE r == Current("secrets")
<1>1. CASE m_requests' = rs /\ UNCHANGED m_enqueuingRequests
  BY <1>1, UniqueKept
<1>2. CASE /\ r.cryptoRequestId \in m_cryptoApiHelperRequests
           /\ Resume(r.cryptoRequestId, rs, posted, y, TRUE)
  <2>1. r.cryptoRequestId \in Ids
    BY <1>2 DEF TypeOK
  <2> QED BY <1>2, <2>1, ResumeUnique
<1> QED BY <1>1, <1>2 DEF CompleteSecrets

\* Every step keeps the identifiers unique.
THEOREM UniqueStep == TypeOK /\ IdsUnique /\ [Next]_vars => IdsUnique'
<1> SUFFICES ASSUME TypeOK, IdsUnique, [Next]_vars PROVE IdsUnique'
  OBVIOUS
<1>0. /\ "secrets" \in Queues /\ "crypto" \in Queues
      /\ m_requests \in [Queues -> Seq(RequestData)]
  BY DEF Queues, TypeOK
<1>s. KeepsAll(m_requests)
  BY DEF KeepsAll, Keeps
<1>e. ASSUME NEW q \in Queues, NEW s, At(q, s)
      PROVE  LET rs == [m_requests EXCEPT ![q] = Erase(m_requests[q], pass.at)]
             IN  KeepsAll(rs) /\ rs \in [Queues -> Seq(RequestData)]
  <2>1. pass.at \in DOMAIN m_requests[q] /\ m_requests[q] \in Seq(RequestData)
    BY <1>e, AtElement
  <2> DEFINE rest == Erase(m_requests[q], pass.at)
  <2>2. Keeps(rest, m_requests[q]) /\ rest \in Seq(RequestData)
    BY <2>1, EraseKeeps, EraseList
  <2> HIDE DEF rest
  <2>3. [m_requests EXCEPT ![q] = rest] \in [Queues -> Seq(RequestData)]
    BY <1>0, <2>2
  <2> QED BY <2>2, <2>3, ReplaceKeeps DEF rest
<1>k. ASSUME NEW q \in Queues, NEW s, At(q, s)
      PROVE  KeepsAll([m_requests EXCEPT
                 ![q] = SetStatus(m_requests[q], pass.at, "InProgress")])
  <2>1. pass.at \in DOMAIN m_requests[q] /\ m_requests[q] \in Seq(RequestData)
    BY <1>k, AtElement
  <2> DEFINE kept == SetStatus(m_requests[q], pass.at, "InProgress")
  <2>2. Keeps(kept, m_requests[q])
    BY <2>1, SetStatusKeeps DEF RequestStatus
  <2> HIDE DEF kept
  <2> QED BY <2>2, ReplaceKeeps DEF kept
<1>1. ASSUME NEW c \in Calls, NEW q \in Queues, HandleRequest(c, q)
      PROVE  IdsUnique'
  <2>1. CASE RefuseUnknownPeer(c) \/ RefuseQueueFull(c, q)
    BY <2>1, <1>s, UniqueKept DEF RefuseUnknownPeer, RefuseQueueFull
  <2>2. CASE EnqueueRequest(c, q)
    <3>1. PICK i \in Ids : /\ NextFreeId(q, i)
                          /\ m_enqueuingRequests' = Inserted(q, i, c, NoId)
      BY <2>2 DEF EnqueueRequest
    <3>2. m_requests' = m_requests
      BY <2>2 DEF EnqueueRequest
    <3> QED BY <3>1, <3>2, <1>s, UniqueInserted
  <2> QED BY <1>1, <2>1, <2>2 DEF HandleRequest
<1>2. ASSUME NEW q \in Queues, FinishEnqueueRequest(q)
      PROVE  IdsUnique'
  <2>1. CASE UNCHANGED <<m_enqueuingRequests, m_requests>>
    BY <2>1, <1>s, UniqueKept
  <2>2. ASSUME NEW r \in m_enqueuingRequests[q],
               m_enqueuingRequests' = [m_enqueuingRequests EXCEPT ![q] = @ \ {r}],
               m_requests' = [m_requests EXCEPT ![q] = Listed(@, r)]
        PROVE  IdsUnique'
    <3> DEFINE list == m_requests[q]
               new == Append(list, r)
    <3>1. list \in Seq(RequestData) /\ r \in RequestData
      BY DEF TypeOK
    <3>2. /\ DOMAIN list = 1 .. Len(list) /\ Len(list) \in Nat
          /\ DOMAIN new = 1 .. Len(list) + 1
          /\ new[Len(list) + 1] = r
          /\ \A m \in 1 .. Len(list) : new[m] = list[m]
      BY <3>1, AppendProperties
    <3>3. /\ m_enqueuingRequests'[q] = m_enqueuingRequests[q] \ {r}
          /\ m_requests'[q] = new
          /\ \A p \in Queues : p # q => /\ m_enqueuingRequests'[p] = m_enqueuingRequests[p]
                                        /\ m_requests'[p] = m_requests[p]
      BY <2>2 DEF TypeOK, Listed
    <3>4. /\ Unique(list)
          /\ \A s \in m_enqueuingRequests[q] : ~HasId(list, s.id)
          /\ \A s, t \in m_enqueuingRequests[q] : s.id = t.id => s = t
      BY DEF IdsUnique, Unique
    <3> HIDE DEF list, new
    <3>5. \A m \in 1 .. Len(list) : list[m].id # r.id
      BY <3>2, <3>4 DEF HasId
    <3>6. Unique(new)
      BY <3>2, <3>4, <3>5 DEF Unique
    <3>7. \A i : HasId(new, i) => HasId(list, i) \/ i = r.id
      BY <3>2 DEF HasId
    <3>8. \A s \in m_enqueuingRequests'[q] : ~HasId(new, s.id)
      BY <3>3, <3>4, <3>7
    <3>9. ASSUME NEW p \in Queues
          PROVE  /\ Unique(m_requests'[p])
                 /\ \A s \in m_enqueuingRequests'[p] : ~HasId(m_requests'[p], s.id)
                 /\ \A s, t \in m_enqueuingRequests'[p] : s.id = t.id => s = t
      <4>1. CASE p = q
        BY <3>3, <3>4, <3>6, <3>8, <4>1
      <4>2. CASE p # q
        BY <3>3, <4>2 DEF IdsUnique, Unique
      <4> QED BY <4>1, <4>2
    <3> QED BY <3>9 DEF IdsUnique, Unique
  <2> QED BY <1>2, <2>1, <2>2 DEF FinishEnqueueRequest
<1>3. ASSUME NEW q \in Queues, BeginPass(q) \/ SkipInProgress(q) \/ EndPass(q)
      PROVE  IdsUnique'
  BY <1>3, <1>s, UniqueKept DEF BeginPass, SkipInProgress, EndPass
<1>4. ASSUME SecretsPending
      PROVE  IdsUnique'
  <2>0. At("secrets", "Pending")
    BY <1>4 DEF SecretsPending
  <2>1. ASSUME NEW y, CompleteSecrets(
                   [m_requests EXCEPT !["secrets"] =
                       Erase(m_requests["secrets"], pass.at)], y)
        PROVE  IdsUnique'
    BY <1>0, <1>e, <2>0, <2>1, CompleteUnique
  <2>2. CASE /\ m_requests' = [m_requests EXCEPT !["secrets"] =
                     SetStatus(m_requests["secrets"], pass.at, "InProgress")]
             /\ UNCHANGED m_enqueuingRequests
    BY <1>0, <1>k, <2>0, <2>2, UniqueKept
  <2> QED BY <1>4, <2>1, <2>2 DEF SecretsPending
<1>5. ASSUME SecretsFinished
      PROVE  IdsUnique'
  <2>0. At("secrets", "Finished")
    BY <1>5 DEF SecretsFinished
  <2>1. PICK y : CompleteSecrets([m_requests EXCEPT !["secrets"] =
                                    Erase(m_requests["secrets"], pass.at)], y)
    BY <1>5 DEF SecretsFinished
  <2> QED BY <1>0, <1>e, <2>0, <2>1, CompleteUnique
<1>6. ASSUME CryptoPending
      PROVE  IdsUnique'
  <2>0. At("crypto", "Pending")
    BY <1>6 DEF CryptoPending
  <2> DEFINE kept == [m_requests EXCEPT !["crypto"] =
                        SetStatus(m_requests["crypto"], pass.at, "InProgress")]
  <2>1. CASE /\ m_requests' = [m_requests EXCEPT !["crypto"] =
                                  Erase(m_requests["crypto"], pass.at)]
             /\ UNCHANGED m_enqueuingRequests
    BY <1>0, <1>e, <2>0, <2>1, UniqueKept
  <2>k. KeepsAll(kept)
    BY <1>0, <1>k, <2>0
  <2>2. CASE m_requests' = kept /\ UNCHANGED m_enqueuingRequests
    BY <2>k, <2>2, UniqueKept
  <2>3. ASSUME NEW y, StartHelper(Current("crypto").id, kept, posted, y)
        PROVE  IdsUnique'
    <3> HIDE DEF kept
    <3> QED BY <2>k, <2>3, HelperUnique
  <2> QED BY <1>6, <2>1, <2>2, <2>3 DEF CryptoPending
<1>7. ASSUME CryptoFinished
      PROVE  IdsUnique'
  <2>0. At("crypto", "Finished")
    BY <1>7 DEF CryptoFinished
  <2>1. /\ m_requests' = [m_requests EXCEPT !["crypto"] =
                             Erase(m_requests["crypto"], pass.at)]
        /\ UNCHANGED m_enqueuingRequests
    BY <1>7 DEF CryptoFinished
  <2> QED BY <1>0, <1>e, <2>0, <2>1, UniqueKept
<1>8. ASSUME NEW i \in Ids, SecretsJobDone(i)
      PROVE  IdsUnique'
  BY <1>0, <1>s, <1>8, FinishedInKeeps, UniqueKept DEF SecretsJobDone
<1>9. ASSUME NEW i \in Ids, CryptoJobDone(i)
      PROVE  IdsUnique'
  BY <1>0, <1>s, <1>9, ResumeUnique DEF CryptoJobDone
<1>10. CASE UNCHANGED vars
  BY <1>s, <1>10, UniqueKept DEF vars
<1> QED
  BY <1>1, <1>2, <1>3, <1>4, <1>5, <1>6, <1>7, <1>8, <1>9, <1>10
     DEF Next, EventLoop, Handler

\* No two requests of a queue ever share an identifier, however many calls are
\* made and however often the counter wraps: enqueueRequest skips the
\* identifiers of listed requests and of requests being enqueued.
THEOREM IdsAlwaysUnique == Spec => []IdsUnique
<1>1. Init => IdsUnique
  BY DEF Init, IdsUnique, HasId
<1> QED BY <1>1, TypeInit, TypeStep, UniqueStep, PTL DEF Spec
-----------------------------------------------------------------------------
(* No request is forgotten. *)

In(evs, e) == \E n \in DOMAIN evs : evs[n] = e

\* Behind an append, events are the ones before it and the new one.
LEMMA InAppend ==
    ASSUME NEW evs \in Seq(Event), NEW f \in Event
    PROVE  In(Append(evs, f), f) /\ \A e : In(evs, e) => In(Append(evs, f), e)
<1>1. /\ DOMAIN evs = 1 .. Len(evs) /\ Len(evs) \in Nat
      /\ DOMAIN Append(evs, f) = 1 .. Len(evs) + 1
      /\ Append(evs, f)[Len(evs) + 1] = f
      /\ \A m \in 1 .. Len(evs) : Append(evs, f)[m] = evs[m]
  BY AppendProperties
<1> QED BY <1>1 DEF In

\* A concatenation has the events of both parts.
LEMMA InConcat ==
    ASSUME NEW a \in Seq(Event), NEW b \in Seq(Event)
    PROVE  \A e : In(a, e) \/ In(b, e) => In(a \o b, e)
<1> DEFINE ab == a \o b
<1>1. /\ DOMAIN a = 1 .. Len(a) /\ Len(a) \in Nat
      /\ DOMAIN b = 1 .. Len(b) /\ Len(b) \in Nat
      /\ DOMAIN ab = 1 .. Len(a) + Len(b)
  BY ConcatProperties
<1>2. /\ \A m \in 1 .. Len(a) : ab[m] = a[m]
      /\ \A m \in 1 .. Len(b) : ab[Len(a) + m] = b[m]
  OBVIOUS
<1> HIDE DEF ab
<1>3. ASSUME NEW e, In(a, e)
      PROVE  In(ab, e)
  BY <1>1, <1>2, <1>3 DEF In
<1>4. ASSUME NEW e, In(b, e)
      PROVE  In(ab, e)
  <2>1. PICK m \in 1 .. Len(b) : b[m] = e
    BY <1>1, <1>4 DEF In
  <2>2. Len(a) + m \in DOMAIN ab /\ ab[Len(a) + m] = e
    BY <1>1, <1>2, <2>1
  <2> QED BY <2>2 DEF In
<1> QED BY <1>3, <1>4 DEF ab

\* Taking the first event leaves the others.
LEMMA InTail ==
    ASSUME NEW evs \in Seq(Event), evs # << >>, NEW e, In(evs, e), e # Head(evs)
    PROVE  In(Tail(evs), e)
<1>1. /\ DOMAIN evs = 1 .. Len(evs) /\ Len(evs) \in Nat
      /\ DOMAIN Tail(evs) = 1 .. Len(evs) - 1
      /\ \A m \in 1 .. Len(evs) - 1 : Tail(evs)[m] = evs[m + 1]
      /\ Head(evs) = evs[1]
  BY HeadTailProperties, EmptySeq
<1>2. PICK n \in 1 .. Len(evs) : evs[n] = e
  BY <1>1 DEF In
<1>3. n # 1
  BY <1>1, <1>2
<1>4. n - 1 \in DOMAIN Tail(evs) /\ Tail(evs)[n - 1] = e
  BY <1>1, <1>2, <1>3
<1> QED BY <1>4 DEF In

\* The two halves of NoLostWakeup.
EnqueuingAwaited ==
    \A q \in Queues : \A r \in m_enqueuingRequests[q] : In(posted, FinishEnqueue(q, r.id))

Awaited(q, list, evs, p) ==
    \A n \in DOMAIN list : list[n].status # "InProgress" =>
        In(evs, HandleRequestsOf(q)) \/ (p.queue = q /\ p.at <= n)

ListsAwaited == \A q \in Queues : Awaited(q, m_requests[q], posted, pass)

\* NoLostWakeup is their conjunction.
LEMMA Halves == NoLostWakeup <=> EnqueuingAwaited /\ ListsAwaited
BY DEF NoLostWakeup, EnqueuingAwaited, ListsAwaited, Awaited, Posted, In

\* A step that forgets no event.
Grows == \A e : In(posted, e) => In(posted', e)

\* Without an insertion, and with no event forgotten, the first half is kept.
LEMMA EnqueuingKept ==
    ASSUME EnqueuingAwaited, Grows, UNCHANGED m_enqueuingRequests
    PROVE  EnqueuingAwaited'
BY DEF EnqueuingAwaited, Grows

\* An inserted request has its finishEnqueueRequest posted.
LEMMA EnqueuingInserted ==
    ASSUME TypeOK, EnqueuingAwaited, Grows, NEW q \in Queues, NEW i, NEW c, NEW cid,
           m_enqueuingRequests' = Inserted(q, i, c, cid),
           In(posted', FinishEnqueue(q, i))
    PROVE  EnqueuingAwaited'
<1> DEFINE new == [id |-> i, call |-> c, status |-> "Pending", cryptoRequestId |-> cid]
<1>1. new.id = i
  OBVIOUS
<1>2. /\ m_enqueuingRequests'[q] =
            {r \in m_enqueuingRequests[q] : r.id # i} \cup {new}
      /\ \A p \in Queues : p # q => m_enqueuingRequests'[p] = m_enqueuingRequests[p]
  BY DEF Inserted, TypeOK
<1> HIDE DEF new
<1> SUFFICES ASSUME NEW p \in Queues, NEW r \in m_enqueuingRequests'[p]
             PROVE  In(posted', FinishEnqueue(p, r.id))
  BY DEF EnqueuingAwaited
<1>3. CASE p = q /\ r = new
  BY <1>1, <1>3
<1>4. CASE r \in m_enqueuingRequests[p]
  BY <1>4 DEF EnqueuingAwaited, Grows
<1> QED BY <1>2, <1>3, <1>4

\* A list no pass is running over is awaited by an event, which stays.
LEMMA OtherAwaited ==
    ASSUME NEW q \in Queues, NEW list, Awaited(q, list, posted, pass), pass.queue # q,
           Grows
    PROVE  Awaited(q, list, posted', pass')
BY DEF Awaited, Grows

\* A pass that erases the current request still reaches the ones behind it, or
\* leaves an event for them.
LEMMA EraseAwaited ==
    ASSUME TypeOK, ListsAwaited, Grows, NEW q \in Queues, NEW s, At(q, s),
           NEW y \in Yields(q), \A e : In(y, e) => In(posted', e),
           Advance(q, pass.at, Erase(m_requests[q], pass.at), y)
    PROVE  Awaited(q, Erase(m_requests[q], pass.at), posted', pass')
<1> DEFINE list == m_requests[q]
           rest == Erase(list, pass.at)
<1>1. list \in Seq(RequestData) /\ pass.at \in DOMAIN list /\ pass.queue = q
  BY AtElement
<1>2. Awaited(q, list, posted, pass)
  BY DEF ListsAwaited
<1> HIDE DEF list
<1>3. /\ DOMAIN list = 1 .. Len(list) /\ Len(list) \in Nat
      /\ DOMAIN rest = 1 .. Len(list) - 1
      /\ \A m \in 1 .. Len(list) - 1 :
            rest[m] = IF m < pass.at THEN list[m] ELSE list[m + 1]
  BY <1>1, EraseList DEF rest
<1> HIDE DEF rest
<1>4. CASE y = << >> /\ pass' = PassAt(q, pass.at)
  <2> SUFFICES ASSUME NEW n \in DOMAIN rest, rest[n].status # "InProgress",
                      ~(pass'.at <= n)
               PROVE  In(posted', HandleRequestsOf(q))
    BY <1>4 DEF Awaited, PassAt, list, rest
  <2>1. pass'.at = pass.at
    BY <1>4 DEF PassAt
  <2>2. n < pass.at /\ n \in DOMAIN list /\ list[n].status # "InProgress"
    BY <1>1, <1>3, <2>1
  <2>3. In(posted, HandleRequestsOf(q))
    BY <1>1, <1>3, <1>2, <2>2 DEF Awaited
  <2> QED BY <2>3 DEF Grows
<1>5. CASE y = <<HandleRequestsOf(q)>>
  BY <1>5 DEF In, Awaited
<1> QED BY <1>4, <1>5 DEF Advance, list, rest

\* A pass that leaves the current request behind in progress.
LEMMA KeptAwaited ==
    ASSUME TypeOK, ListsAwaited, Grows, NEW q \in Queues, NEW s, At(q, s),
           NEW y \in Yields(q), \A e : In(y, e) => In(posted', e),
           NEW kept, DOMAIN kept = DOMAIN m_requests[q],
           kept[pass.at].status = "InProgress",
           \A n \in DOMAIN kept : n # pass.at => kept[n].status = m_requests[q][n].status,
           Advance(q, pass.at + 1, kept, y)
    PROVE  Awaited(q, kept, posted', pass')
<1>1. /\ m_requests[q] \in Seq(RequestData) /\ pass.at \in DOMAIN m_requests[q]
      /\ pass.queue = q
  BY AtElement
<1>2. DOMAIN m_requests[q] = 1 .. Len(m_requests[q]) /\ Len(m_requests[q]) \in Nat
  BY <1>1
<1>3. Awaited(q, m_requests[q], posted, pass)
  BY DEF ListsAwaited
<1>4. CASE y = << >> /\ pass' = PassAt(q, pass.at + 1)
  <2> SUFFICES ASSUME NEW n \in DOMAIN kept, kept[n].status # "InProgress",
                      ~(pass'.at <= n)
               PROVE  In(posted', HandleRequestsOf(q))
    BY <1>4 DEF Awaited, PassAt
  <2>1. pass'.at = pass.at + 1
    BY <1>4 DEF PassAt
  <2>2. n < pass.at /\ m_requests[q][n].status # "InProgress"
    BY <1>1, <1>2, <2>1
  <2>3. In(posted, HandleRequestsOf(q))
    BY <1>1, <1>2, <1>3, <2>2 DEF Awaited
  <2> QED BY <2>3 DEF Grows
<1>5. CASE y = <<HandleRequestsOf(q)>>
  BY <1>5 DEF In, Awaited
<1> QED BY <1>4, <1>5 DEF Advance

\* A helper request is posted, and no event is forgotten.
LEMMA HelperAwaited ==
    ASSUME TypeOK, EnqueuingAwaited, NEW cid, NEW rs, NEW y \in Seq(Event),
           StartHelper(cid, rs, posted, y)
    PROVE  /\ Grows
           /\ \A e : In(y, e) => In(posted', e)
           /\ EnqueuingAwaited'
           /\ m_requests' = rs
<1>1. PICK i \in Ids :
         /\ m_enqueuingRequests' = Inserted("secrets", i, NoCall, cid)
         /\ posted' = Append(posted, FinishEnqueue("secrets", i)) \o y
  BY DEF StartHelper
<1> DEFINE f == FinishEnqueue("secrets", i)
           evs == Append(posted, f)
<1>2. "secrets" \in Queues /\ posted \in Seq(Event)
  BY DEF Queues, TypeOK
<1>3. f \in Event
  BY <1>2, EventType
<1> HIDE DEF f
<1>4. evs \in Seq(Event) /\ In(evs, f) /\ \A e : In(posted, e) => In(evs, e)
  BY <1>2, <1>3, InAppend
<1>5. posted' = evs \o y
  BY <1>1 DEF f
<1> HIDE DEF evs
<1>6. \A e : In(evs, e) \/ In(y, e) => In(posted', e)
  BY <1>4, <1>5, InConcat
<1>7. Grows /\ In(posted', f) /\ \A e : In(y, e) => In(posted', e)
  BY <1>4, <1>6 DEF Grows
<1>8. EnqueuingAwaited'
  BY <1>1, <1>2, <1>7, EnqueuingInserted DEF f
<1> QED BY <1>7, <1>8 DEF StartHelper

\* Resuming a crypto request: a finished one has a pass posted for it.
LEMMA ResumeAwaited ==
    ASSUME TypeOK, EnqueuingAwaited, ListsAwaited, NEW cid \in Ids,
           NEW rs \in [Queues -> Seq(RequestData)],
           rs["crypto"] = m_requests["crypto"], pass.queue # "crypto",
           NEW y \in Seq(Event), NEW withJob, Resume(cid, rs, posted, y, withJob)
    PROVE  /\ Grows
           /\ \A e : In(y, e) => In(posted', e)
           /\ EnqueuingAwaited'
           /\ Awaited("crypto", m_requests'["crypto"], posted', pass')
           /\ m_requests'["secrets"] = rs["secrets"]
<1>0. "secrets" \in Queues /\ "crypto" \in Queues /\ posted \in Seq(Event)
  BY DEF Queues, TypeOK
<1>1. Awaited("crypto", m_requests["crypto"], posted, pass)
  BY <1>0 DEF ListsAwaited
<1>2. ASSUME m_requests' = FinishedIn(rs, "crypto", cid),
             posted' = PostedByFinish(rs, posted, "crypto", cid) \o y,
             UNCHANGED m_enqueuingRequests
      PROVE  /\ Grows
             /\ \A e : In(y, e) => In(posted', e)
             /\ EnqueuingAwaited'
             /\ Awaited("crypto", m_requests'["crypto"], posted', pass')
             /\ m_requests'["secrets"] = rs["secrets"]
  <2> DEFINE f == HandleRequestsOf("crypto")
             evs == PostedByFinish(rs, posted, "crypto", cid)
  <2>1. f \in Event
    BY <1>0 DEF HandleRequestsOf, Event
  <2>2. /\ evs \in Seq(Event)
        /\ \A e : In(posted, e) => In(evs, e)
        /\ HasId(rs["crypto"], cid) => In(evs, f)
    <3>1. evs = IF HasId(rs["crypto"], cid) THEN Append(posted, f) ELSE posted
      BY DEF PostedByFinish
    <3> HIDE DEF evs, f
    <3>2. Append(posted, f) \in Seq(Event) /\ In(Append(posted, f), f)
          /\ \A e : In(posted, e) => In(Append(posted, f), e)
      BY <1>0, <2>1, InAppend
    <3> QED BY <1>0, <3>1, <3>2
  <2>3. posted' = evs \o y
    BY <1>2
  <2> HIDE DEF evs
  <2>4. \A e : In(evs, e) \/ In(y, e) => In(posted', e)
    BY <2>2, <2>3, InConcat
  <2>5. Grows /\ (HasId(rs["crypto"], cid) => In(posted', f))
        /\ \A e : In(y, e) => In(posted', e)
    BY <2>2, <2>4 DEF Grows
  <2>6. EnqueuingAwaited'
    BY <1>2, <2>5, EnqueuingKept
  <2>7. m_requests'["secrets"] = rs["secrets"]
    <3>1. \A p \in Queues : p # "crypto" => FinishedIn(rs, "crypto", cid)[p] = rs[p]
      BY <1>0, FinishedInList
    <3> QED BY <1>0, <1>2, <3>1
  <2>8. /\ DOMAIN m_requests'["crypto"] = DOMAIN rs["crypto"]
        /\ \A m \in DOMAIN rs["crypto"] :
              m_requests'["crypto"][m].status =
                 IF rs["crypto"][m].id = cid THEN "Finished" ELSE rs["crypto"][m].status
    <3> DEFINE e == FinishedIn(rs, "crypto", cid)
    <3>1. DOMAIN e["crypto"] = DOMAIN rs["crypto"]
      BY <1>0, FinishedInDomain
    <3>2. \A m \in DOMAIN rs["crypto"] : e["crypto"][m].status =
             IF rs["crypto"][m].id = cid THEN "Finished" ELSE rs["crypto"][m].status
      BY <1>0, FinishedInStatus
    <3> QED BY <1>2, <3>1, <3>2
  <2>9. Awaited("crypto", m_requests'["crypto"], posted', pass')
    <3>1. CASE HasId(rs["crypto"], cid)
      BY <2>5, <3>1 DEF Awaited
    <3>2. CASE ~HasId(rs["crypto"], cid)
      <4>1. Awaited("crypto", m_requests["crypto"], posted', pass')
        BY <1>0, <1>1, <2>5, OtherAwaited
      <4> QED BY <2>8, <3>2, <4>1 DEF Awaited, HasId
    <3> QED BY <3>1, <3>2
  <2> QED BY <2>5, <2>6, <2>7, <2>9
<1>3. ASSUME m_requests' = rs, posted' = posted \o y, UNCHANGED m_enqueuingRequests
      PROVE  /\ Grows
             /\ \A e : In(y, e) => In(posted', e)
             /\ EnqueuingAwaited'
             /\ Awaited("crypto", m_requests'["crypto"], posted', pass')
  <2>1. Grows /\ \A e : In(y, e) => In(posted', e)
    BY <1>0, <1>3, InConcat DEF Grows
  <2> QED BY <1>0, <1>1, <1>3, <2>1, EnqueuingKept, OtherAwaited
<1>4. ASSUME StartHelper(cid, rs, posted, y)
      PROVE  /\ Grows
             /\ \A e : In(y, e) => In(posted', e)
             /\ EnqueuingAwaited'
             /\ Awaited("crypto", m_requests'["crypto"], posted', pass')
             /\ m_requests' = rs
  <2>1. /\ Grows
        /\ \A e : In(y, e) => In(posted', e)
        /\ EnqueuingAwaited'
        /\ m_requests' = rs
    BY <1>4, HelperAwaited
  <2> QED BY <1>0, <1>1, <2>1, OtherAwaited
<1>5. \/ /\ m_requests' = FinishedIn(rs, "crypto", cid)
         /\ posted' = PostedByFinish(rs, posted, "crypto", cid) \o y
         /\ UNCHANGED m_enqueuingRequests
      \/ m_requests' = rs /\ posted' = posted \o y /\ UNCHANGED m_enqueuingRequests
      \/ StartHelper(cid, rs, posted, y)
  BY DEF Resume
<1> QED BY <1>2, <1>3, <1>4, <1>5

\* The end of a request of the secrets queue.
LEMMA CompleteAwaited ==
    ASSUME TypeOK, EnqueuingAwaited, ListsAwaited, pass.queue = "secrets",
           NEW rs \in [Queues -> Seq(RequestData)],
           rs["crypto"] = m_requests["crypto"], NEW y \in Seq(Event),
           CompleteSecrets(rs, y)
    PROVE  /\ Grows
           /\ \A e : In(y, e) => In(posted', e)
           /\ EnqueuingAwaited'
           /\ Awaited("crypto", m_requests'["crypto"], posted', pass')
           /\ m_requests'["secrets"] = rs["secrets"]
<1> DEFINE r == Current("secrets")
<1>0. "crypto" \in Queues /\ posted \in Seq(Event) /\ pass.queue # "crypto"
  BY DEF Queues, TypeOK
<1>1. Awaited("crypto", m_requests["crypto"], posted, pass)
  BY <1>0 DEF ListsAwaited
<1>2. CASE m_requests' = rs /\ posted' = posted \o y /\ UNCHANGED m_enqueuingRequests
  <2>1. Grows /\ \A e : In(y, e) => In(posted', e)
    BY <1>0, <1>2, InConcat DEF Grows
  <2> QED BY <1>0, <1>1, <1>2, <2>1, EnqueuingKept, OtherAwaited
<1>3. CASE /\ r.cryptoRequestId \in m_cryptoApiHelperRequests
           /\ Resume(r.cryptoRequestId, rs, posted, y, TRUE)
  <2>1. r.cryptoRequestId \in Ids
    BY <1>3 DEF TypeOK
  <2> QED BY <1>0, <1>3, <2>1, ResumeAwaited
<1> QED BY <1>2, <1>3 DEF CompleteSecrets

\* Every step keeps NoLostWakeup.  FinishEnqueueRequest needs IdsUnique: the
\* event it takes belongs to no other request.
THEOREM WakeupStep ==
    TypeOK /\ IdsUnique /\ NoLostWakeup /\ [Next]_vars => NoLostWakeup'
<1> SUFFICES ASSUME TypeOK, IdsUnique, EnqueuingAwaited, ListsAwaited, [Next]_vars
             PROVE  EnqueuingAwaited' /\ ListsAwaited'
  BY Halves, PTL
<1>0. /\ "secrets" \in Queues /\ "crypto" \in Queues
      /\ m_requests \in [Queues -> Seq(RequestData)] /\ posted \in Seq(Event)
  BY DEF Queues, TypeOK
<1>i. Idle => \A q \in Queues : pass.queue # q
  BY DEF Idle, NoPass, Queues
<1>k. ASSUME Idle, Grows, UNCHANGED m_requests
      PROVE  ListsAwaited'
  BY <1>i, <1>k, OtherAwaited DEF ListsAwaited
<1>1. ASSUME NEW c \in Calls, NEW q \in Queues, HandleRequest(c, q)
      PROVE  EnqueuingAwaited' /\ ListsAwaited'
  <2>1. CASE RefuseUnknownPeer(c) \/ RefuseQueueFull(c, q)
    <3>1. Grows /\ Idle /\ UNCHANGED <<m_enqueuingRequests, m_requests>>
      BY <2>1 DEF RefuseUnknownPeer, RefuseQueueFull, Grows
    <3> QED BY <3>1, <1>k, EnqueuingKept
  <2>2. CASE EnqueueRequest(c, q)
    <3>1. PICK i \in Ids : /\ m_enqueuingRequests' = Inserted(q, i, c, NoId)
                          /\ posted' = Append(posted, FinishEnqueue(q, i))
      BY <2>2 DEF EnqueueRequest
    <3>2. FinishEnqueue(q, i) \in Event
      BY EventType
    <3>3. Grows /\ In(posted', FinishEnqueue(q, i))
      BY <1>0, <3>1, <3>2, InAppend DEF Grows
    <3>4. Idle /\ UNCHANGED m_requests
      BY <2>2 DEF EnqueueRequest
    <3> QED BY <3>1, <3>3, <3>4, <1>k, EnqueuingInserted
  <2> QED BY <1>1, <2>1, <2>2 DEF HandleRequest
<1>2. ASSUME NEW q \in Queues, FinishEnqueueRequest(q)
      PROVE  EnqueuingAwaited' /\ ListsAwaited'
  <2>0. /\ posted # << >> /\ Idle /\ UNCHANGED pass
        /\ Head(posted).slot = "finishEnqueueRequest" /\ Head(posted).queue = q
    BY <1>2 DEF FinishEnqueueRequest
  <2>t. Tail(posted) \in Seq(Event)
    BY <1>0, <2>0, HeadTailProperties
  <2>f. HandleRequestsOf(q) \in Event
    BY DEF HandleRequestsOf, Event
  <2>1. \A p \in Queues : \A i :
           /\ FinishEnqueue(p, i) = Head(posted) => p = q /\ i = Head(posted).id
           /\ HandleRequestsOf(p) # Head(posted)
    BY <2>0 DEF FinishEnqueue, HandleRequestsOf
  <2>2. \A e : In(Tail(posted), e) => In(posted', e)
    <3>1. posted' = Tail(posted) \/ posted' = Append(Tail(posted), HandleRequestsOf(q))
      BY <1>2 DEF FinishEnqueueRequest
    <3> QED BY <2>t, <2>f, <3>1, InAppend
  <2>3. \A p \in Queues : In(posted, HandleRequestsOf(p)) => In(posted', HandleRequestsOf(p))
    BY <1>0, <2>0, <2>1, <2>2, InTail
  <2>4. ASSUME NEW p \in Queues
        PROVE  Awaited(p, m_requests[p], posted', pass')
    BY <1>i, <2>0, <2>3 DEF Awaited, ListsAwaited
  <2>5. ASSUME NEW p \in Queues, NEW s \in m_enqueuingRequests[p],
               p # q \/ s.id # Head(posted).id
        PROVE  In(posted', FinishEnqueue(p, s.id))
    <3>1. In(posted, FinishEnqueue(p, s.id)) /\ FinishEnqueue(p, s.id) # Head(posted)
      BY <2>1, <2>5 DEF EnqueuingAwaited
    <3> QED BY <1>0, <2>0, <2>2, <3>1, InTail
  <2>6. CASE /\ \A r \in m_enqueuingRequests[q] : r.id # Head(posted).id
             /\ UNCHANGED <<m_enqueuingRequests, m_requests>>
    BY <2>4, <2>5, <2>6 DEF EnqueuingAwaited, ListsAwaited
  <2>7. ASSUME NEW r \in m_enqueuingRequests[q], r.id = Head(posted).id,
               m_enqueuingRequests' = [m_enqueuingRequests EXCEPT ![q] = @ \ {r}],
               m_requests' = [m_requests EXCEPT ![q] = Listed(@, r)],
               posted' = Append(Tail(posted), HandleRequestsOf(q))
        PROVE  EnqueuingAwaited' /\ ListsAwaited'
    <3>1. /\ m_enqueuingRequests'[q] = m_enqueuingRequests[q] \ {r}
          /\ \A p \in Queues : p # q => /\ m_enqueuingRequests'[p] = m_enqueuingRequests[p]
                                        /\ m_requests'[p] = m_requests[p]
      BY <1>0, <2>7 DEF TypeOK
    <3>2. \A s \in m_enqueuingRequests'[q] : s.id # Head(posted).id
      BY <2>7, <3>1 DEF IdsUnique
    <3>3. ASSUME NEW p \in Queues, NEW s \in m_enqueuingRequests'[p]
          PROVE  In(posted', FinishEnqueue(p, s.id))
      BY <2>5, <3>1, <3>2
    <3>4. In(posted', HandleRequestsOf(q))
      BY <2>t, <2>f, <2>7, InAppend
    <3>5. ASSUME NEW p \in Queues
          PROVE  Awaited(p, m_requests'[p], posted', pass')
      <4>1. CASE p = q
        BY <3>4, <4>1 DEF Awaited
      <4>2. CASE p # q
        BY <2>4, <3>1, <4>2
      <4> QED BY <4>1, <4>2
    <3> QED BY <3>3, <3>5 DEF EnqueuingAwaited, ListsAwaited
  <2> QED BY <1>2, <2>6, <2>7 DEF FinishEnqueueRequest
<1>3. ASSUME NEW q \in Queues, BeginPass(q)
      PROVE  EnqueuingAwaited' /\ ListsAwaited'
  <2>0. /\ posted # << >> /\ Idle /\ Head(posted) = HandleRequestsOf(q)
        /\ posted' = Tail(posted) /\ pass' = PassAt(q, 1)
        /\ UNCHANGED <<m_enqueuingRequests, m_requests>>
    BY <1>3 DEF BeginPass
  <2>1. \A p \in Queues : /\ \A i : FinishEnqueue(p, i) # Head(posted)
                          /\ p # q => HandleRequestsOf(p) # Head(posted)
    BY <2>0 DEF FinishEnqueue, HandleRequestsOf
  <2>2. EnqueuingAwaited'
    BY <1>0, <2>0, <2>1, InTail DEF EnqueuingAwaited
  <2>3. ASSUME NEW p \in Queues
        PROVE  Awaited(p, m_requests[p], posted', pass')
    <3>1. CASE p = q
      <4>1. DOMAIN m_requests[q] = 1 .. Len(m_requests[q]) /\ Len(m_requests[q]) \in Nat
        BY <1>0
      <4> QED BY <2>0, <3>1, <4>1 DEF Awaited, PassAt
    <3>2. CASE p # q
      <4>1. \A n \in DOMAIN m_requests[p] :
               m_requests[p][n].status # "InProgress" => In(posted, HandleRequestsOf(p))
        BY <1>i, <2>0 DEF ListsAwaited, Awaited
      <4>2. In(posted, HandleRequestsOf(p)) => In(posted', HandleRequestsOf(p))
        BY <1>0, <2>0, <2>1, <3>2, InTail
      <4> QED BY <4>1, <4>2 DEF Awaited
    <3> QED BY <3>1, <3>2
  <2> QED BY <2>0, <2>2, <2>3 DEF ListsAwaited
<1>4. ASSUME NEW q \in Queues, SkipInProgress(q)
      PROVE  EnqueuingAwaited' /\ ListsAwaited'
  <2>1. PICK y \in Yields(q) : /\ Advance(q, pass.at + 1, m_requests[q], y)
                              /\ posted' = posted \o y
    BY <1>4 DEF SkipInProgress
  <2>2. Grows /\ \A e : In(y, e) => In(posted', e)
    BY <1>0, <2>1, YieldType, InConcat DEF Grows
  <2>3. At(q, "InProgress") /\ UNCHANGED <<m_requests, m_enqueuingRequests>>
    BY <1>4 DEF SkipInProgress
  <2>4. pass.queue = q /\ m_requests[q][pass.at].status = "InProgress"
    BY <2>3 DEF At
  <2>5. Awaited(q, m_requests[q], posted', pass')
    BY <2>1, <2>2, <2>3, <2>4, KeptAwaited
  <2>6. \A p \in Queues : p # q => Awaited(p, m_requests[p], posted', pass')
    BY <2>2, <2>4, OtherAwaited DEF ListsAwaited
  <2> QED BY <2>2, <2>3, <2>5, <2>6, EnqueuingKept DEF ListsAwaited
<1>5. ASSUME NEW q \in Queues, EndPass(q)
      PROVE  EnqueuingAwaited' /\ ListsAwaited'
  <2>0. /\ pass.queue = q /\ pass.at \notin DOMAIN m_requests[q]
        /\ UNCHANGED <<m_enqueuingRequests, m_requests, posted>>
    BY <1>5 DEF EndPass
  <2>1. pass.at \in Nat \ {0}
    BY <2>0 DEF TypeOK, NoPass, Queues
  <2>2. DOMAIN m_requests[q] = 1 .. Len(m_requests[q]) /\ Len(m_requests[q]) \in Nat
    BY <1>0
  <2>3. \A n \in DOMAIN m_requests[q] : ~(pass.at <= n)
    BY <2>0, <2>1, <2>2
  <2>4. \A p \in Queues : Awaited(p, m_requests[p], posted, pass')
    BY <2>0, <2>3 DEF ListsAwaited, Awaited
  <2> QED BY <2>0, <2>4 DEF ListsAwaited, EnqueuingAwaited
<1>e. ASSUME NEW s, At("secrets", s), NEW y \in Yields("secrets"),
             Advance("secrets", pass.at, Erase(m_requests["secrets"], pass.at), y),
             CompleteSecrets([m_requests EXCEPT !["secrets"] =
                                 Erase(m_requests["secrets"], pass.at)], y)
      PROVE  EnqueuingAwaited' /\ ListsAwaited'
  <2> DEFINE rest == Erase(m_requests["secrets"], pass.at)
             rs == [m_requests EXCEPT !["secrets"] = rest]
  <2>1. /\ pass.at \in DOMAIN m_requests["secrets"] /\ pass.queue = "secrets"
        /\ m_requests["secrets"] \in Seq(RequestData)
    BY <1>0, <1>e, AtElement
  <2>2. rest \in Seq(RequestData)
    BY <2>1, EraseList
  <2>3. y \in Seq(Event)
    BY <1>0, YieldType
  <2>4. CompleteSecrets(rs, y)
    BY <1>e
  <2>r. rest = Erase(m_requests["secrets"], pass.at)
    OBVIOUS
  <2> HIDE DEF rest
  <2>5. /\ rs \in [Queues -> Seq(RequestData)]
        /\ rs["crypto"] = m_requests["crypto"] /\ rs["secrets"] = rest
    BY <1>0, <2>2
  <2> HIDE DEF rs
  <2>6. /\ Grows
        /\ \A e : In(y, e) => In(posted', e)
        /\ EnqueuingAwaited'
        /\ Awaited("crypto", m_requests'["crypto"], posted', pass')
        /\ m_requests'["secrets"] = rest
    BY <2>1, <2>3, <2>4, <2>5, CompleteAwaited
  <2>7. Awaited("secrets", m_requests'["secrets"], posted', pass')
    BY <1>0, <1>e, <2>6, <2>r, EraseAwaited
  <2> QED BY <2>6, <2>7 DEF ListsAwaited, Queues
<1>6. ASSUME SecretsPending
      PROVE  EnqueuingAwaited' /\ ListsAwaited'
  <2>0. At("secrets", "Pending")
    BY <1>6 DEF SecretsPending
  <2> DEFINE kept == SetStatus(m_requests["secrets"], pass.at, "InProgress")
  <2>1. ASSUME NEW y \in Yields("secrets"),
               Advance("secrets", pass.at + 1, kept, y),
               m_requests' = [m_requests EXCEPT !["secrets"] = kept],
               posted' = posted \o y,
               UNCHANGED m_enqueuingRequests
        PROVE  EnqueuingAwaited' /\ ListsAwaited'
    <3>1. /\ pass.at \in DOMAIN m_requests["secrets"] /\ pass.queue = "secrets"
          /\ m_requests["secrets"] \in Seq(RequestData)
      BY <1>0, <2>0, AtElement
    <3>s. "InProgress" \in RequestStatus
      BY DEF RequestStatus
    <3>a. /\ DOMAIN kept = DOMAIN m_requests["secrets"]
          /\ \A n \in DOMAIN m_requests["secrets"] :
                kept[n].status = IF n = pass.at THEN "InProgress"
                                 ELSE m_requests["secrets"][n].status
      BY <3>1, <3>s, SetStatusList
    <3> HIDE DEF kept
    <3>2. /\ DOMAIN kept = DOMAIN m_requests["secrets"]
          /\ kept[pass.at].status = "InProgress"
          /\ \A n \in DOMAIN kept : n # pass.at =>
                kept[n].status = m_requests["secrets"][n].status
      BY <3>1, <3>a
    <3>3. Grows /\ \A e : In(y, e) => In(posted', e)
      BY <1>0, <2>1, YieldType, InConcat DEF Grows
    <3>4. Awaited("secrets", kept, posted', pass')
      BY <1>0, <2>0, <2>1, <3>2, <3>3, KeptAwaited
    <3>5. Awaited("crypto", m_requests["crypto"], posted', pass')
      BY <1>0, <3>1, <3>3, OtherAwaited DEF ListsAwaited
    <3>6. m_requests'["secrets"] = kept /\ m_requests'["crypto"] = m_requests["crypto"]
      BY <1>0, <2>1
    <3> QED BY <2>1, <3>3, <3>4, <3>5, <3>6, EnqueuingKept DEF ListsAwaited, Queues
  <2> QED BY <1>6, <1>e, <2>0, <2>1 DEF SecretsPending
<1>7. ASSUME SecretsFinished
      PROVE  EnqueuingAwaited' /\ ListsAwaited'
  BY <1>7, <1>e DEF SecretsFinished
<1>r. ASSUME NEW s, At("crypto", s), NEW y \in Yields("crypto"),
             Advance("crypto", pass.at, Erase(m_requests["crypto"], pass.at), y),
             m_requests' = [m_requests EXCEPT !["crypto"] =
                               Erase(m_requests["crypto"], pass.at)],
             posted' = posted \o y, UNCHANGED m_enqueuingRequests
      PROVE  EnqueuingAwaited' /\ ListsAwaited'
  <2>1. pass.queue = "crypto"
    BY <1>r DEF At
  <2>2. Grows /\ \A e : In(y, e) => In(posted', e)
    BY <1>0, <1>r, YieldType, InConcat DEF Grows
  <2>3. Awaited("crypto", Erase(m_requests["crypto"], pass.at), posted', pass')
    BY <1>0, <1>r, <2>2, EraseAwaited
  <2>4. Awaited("secrets", m_requests["secrets"], posted', pass')
    BY <1>0, <2>1, <2>2, OtherAwaited DEF ListsAwaited
  <2>5. /\ m_requests'["crypto"] = Erase(m_requests["crypto"], pass.at)
        /\ m_requests'["secrets"] = m_requests["secrets"]
    BY <1>0, <1>r
  <2> QED BY <1>r, <2>2, <2>3, <2>4, <2>5, EnqueuingKept DEF ListsAwaited, Queues
<1>8. ASSUME CryptoPending
      PROVE  EnqueuingAwaited' /\ ListsAwaited'
  <2>0. At("crypto", "Pending")
    BY <1>8 DEF CryptoPending
  <2> DEFINE kept == SetStatus(m_requests["crypto"], pass.at, "InProgress")
  <2>1. ASSUME NEW y \in Yields("crypto"),
               Advance("crypto", pass.at + 1, kept, y),
               \/ /\ m_requests' = [m_requests EXCEPT !["crypto"] = kept]
                  /\ posted' = posted \o y
                  /\ UNCHANGED m_enqueuingRequests
               \/ StartHelper(Current("crypto").id,
                              [m_requests EXCEPT !["crypto"] = kept], posted, y)
        PROVE  EnqueuingAwaited' /\ ListsAwaited'
    <3>1. /\ pass.at \in DOMAIN m_requests["crypto"] /\ pass.queue = "crypto"
          /\ m_requests["crypto"] \in Seq(RequestData)
      BY <1>0, <2>0, AtElement
    <3>s. "InProgress" \in RequestStatus
      BY DEF RequestStatus
    <3>a. /\ DOMAIN kept = DOMAIN m_requests["crypto"]
          /\ \A n \in DOMAIN m_requests["crypto"] :
                kept[n].status = IF n = pass.at THEN "InProgress"
                                 ELSE m_requests["crypto"][n].status
      BY <3>1, <3>s, SetStatusList
    <3> HIDE DEF kept
    <3>2. /\ DOMAIN kept = DOMAIN m_requests["crypto"]
          /\ kept[pass.at].status = "InProgress"
          /\ \A n \in DOMAIN kept : n # pass.at =>
                kept[n].status = m_requests["crypto"][n].status
      BY <3>1, <3>a
    <3>y. y \in Seq(Event)
      BY <1>0, YieldType
    <3>3. /\ Grows /\ \A e : In(y, e) => In(posted', e)
          /\ EnqueuingAwaited'
          /\ m_requests' = [m_requests EXCEPT !["crypto"] = kept]
      <4>1. CASE /\ m_requests' = [m_requests EXCEPT !["crypto"] = kept]
                 /\ posted' = posted \o y
                 /\ UNCHANGED m_enqueuingRequests
        <5>1. Grows /\ \A e : In(y, e) => In(posted', e)
          BY <1>0, <3>y, <4>1, InConcat DEF Grows
        <5> QED BY <4>1, <5>1, EnqueuingKept
      <4>2. CASE StartHelper(Current("crypto").id,
                             [m_requests EXCEPT !["crypto"] = kept], posted, y)
        BY <3>y, <4>2, HelperAwaited
      <4> QED BY <2>1, <4>1, <4>2
    <3>4. Awaited("crypto", kept, posted', pass')
      BY <1>0, <2>0, <2>1, <3>2, <3>3, KeptAwaited
    <3>5. Awaited("secrets", m_requests["secrets"], posted', pass')
      BY <1>0, <3>1, <3>3, OtherAwaited DEF ListsAwaited
    <3>6. m_requests'["crypto"] = kept /\ m_requests'["secrets"] = m_requests["secrets"]
      BY <1>0, <3>3
    <3> QED BY <3>3, <3>4, <3>5, <3>6 DEF ListsAwaited, Queues
  <2> QED BY <1>8, <1>r, <2>0, <2>1 DEF CryptoPending
<1>9. ASSUME CryptoFinished
      PROVE  EnqueuingAwaited' /\ ListsAwaited'
  BY <1>9, <1>r DEF CryptoFinished
<1>10. ASSUME NEW i \in Ids, SecretsJobDone(i)
       PROVE  EnqueuingAwaited' /\ ListsAwaited'
  <2>0. /\ Idle /\ UNCHANGED <<m_enqueuingRequests, pass>>
        /\ m_requests' = FinishedIn(m_requests, "secrets", i)
        /\ posted' = PostedByFinish(m_requests, posted, "secrets", i)
    BY <1>10 DEF SecretsJobDone
  <2>1. HandleRequestsOf("secrets") \in Event
    BY <1>0 DEF HandleRequestsOf, Event
  <2>2. Grows /\ (HasId(m_requests["secrets"], i) => In(posted', HandleRequestsOf("secrets")))
    BY <1>0, <2>0, <2>1, InAppend DEF PostedByFinish, Grows
  <2>3. \A p \in Queues : Awaited(p, m_requests[p], posted', pass')
    BY <1>i, <2>0, <2>2, OtherAwaited DEF ListsAwaited
  <2>4. /\ DOMAIN m_requests'["secrets"] = DOMAIN m_requests["secrets"]
        /\ \A m \in DOMAIN m_requests["secrets"] :
              m_requests'["secrets"][m].status =
                 IF m_requests["secrets"][m].id = i THEN "Finished"
                 ELSE m_requests["secrets"][m].status
    <3> DEFINE e == FinishedIn(m_requests, "secrets", i)
    <3>1. /\ DOMAIN e["secrets"] = DOMAIN m_requests["secrets"]
          /\ \A m \in DOMAIN m_requests["secrets"] : e["secrets"][m].status =
                IF m_requests["secrets"][m].id = i THEN "Finished"
                ELSE m_requests["secrets"][m].status
      BY <1>0, FinishedInList
    <3> QED BY <2>0, <3>1
  <2>5. m_requests'["crypto"] = m_requests["crypto"]
    <3>1. \A p \in Queues : p # "secrets" =>
             FinishedIn(m_requests, "secrets", i)[p] = m_requests[p]
      BY <1>0, FinishedInList
    <3> QED BY <1>0, <2>0, <3>1
  <2>6. Awaited("secrets", m_requests'["secrets"], posted', pass')
    <3>1. CASE HasId(m_requests["secrets"], i)
      BY <2>2, <3>1 DEF Awaited
    <3>2. CASE ~HasId(m_requests["secrets"], i)
      <4>1. Awaited("secrets", m_requests["secrets"], posted', pass')
        BY <1>0, <2>3
      <4> QED BY <2>4, <3>2, <4>1 DEF Awaited, HasId
    <3> QED BY <3>1, <3>2
  <2> QED BY <2>0, <2>2, <2>3, <2>5, <2>6, EnqueuingKept DEF ListsAwaited, Queues
<1>11. ASSUME NEW i \in Ids, CryptoJobDone(i)
       PROVE  EnqueuingAwaited' /\ ListsAwaited'
  <2>0. Idle /\ Resume(i, m_requests, posted, << >>, FALSE)
    BY <1>11 DEF CryptoJobDone
  <2>1. pass.queue # "crypto" /\ pass.queue # "secrets" /\ << >> \in Seq(Event)
    BY <1>0, <1>i, <2>0, EmptySeq
  <2>2. /\ Grows /\ EnqueuingAwaited'
        /\ Awaited("crypto", m_requests'["crypto"], posted', pass')
        /\ m_requests'["secrets"] = m_requests["secrets"]
    BY <1>0, <2>0, <2>1, ResumeAwaited
  <2>3. Awaited("secrets", m_requests["secrets"], posted', pass')
    BY <1>0, <2>1, <2>2, OtherAwaited DEF ListsAwaited
  <2> QED BY <2>2, <2>3 DEF ListsAwaited, Queues
<1>12. CASE UNCHANGED vars
  BY <1>12 DEF vars, EnqueuingAwaited, ListsAwaited
<1> QED
  BY <1>1, <1>2, <1>3, <1>4, <1>5, <1>6, <1>7, <1>8, <1>9, <1>10, <1>11, <1>12
     DEF Next, EventLoop, Handler

\* A request that waits for the queue is never forgotten, for any number of
\* calls, identifiers and helper requests and however passes yield: its
\* finishEnqueueRequest or a pass is posted, or the running pass will reach it.
THEOREM WakeupNeverLost == Spec => []NoLostWakeup
<1>1. Init => IdsUnique
  BY DEF Init, IdsUnique, HasId
<1>2. Init => NoLostWakeup
  BY DEF Init, NoLostWakeup
<1> QED BY <1>1, <1>2, TypeInit, TypeStep, UniqueStep, WakeupStep, PTL DEF Spec
-----------------------------------------------------------------------------
(* Proofs that the request queues keep their promise to the clients: every   *)
(* call stays with one request until its one reply, every job and helper     *)
(* finds the request it was started for, and nobody waits for nothing.       *)
(*                                                                           *)
(* The argument does not need the order of the lists.  It sees each queue as *)
(* the set of its live requests, listed or being enqueued, and a step as one *)
(* of a few changes of these sets; only StartedInOrder looks at the lists.   *)

-----------------------------------------------------------------------------
(* Sets of requests.  LS and LC are the live requests of the secrets and the *)
(* crypto queue, JS and JC the identifiers with a running job, H those with  *)
(* a helper request, S the calls made and R the replies counted.             *)

DistinctIds(L) == \A r, s \in L : r.id = s.id => r = s

InProgressIn(L, i) == \E r \in L : r.id = i /\ r.status = "InProgress"

JobsFound(L, J) == \A i \in J : InProgressIn(L, i)

HelpersFound(LC, JC, H) == \A i \in H : InProgressIn(LC, i) /\ i \notin JC

HelpersKnown(LS, H) ==
    \A r \in LS : r.cryptoRequestId # NoId => r.cryptoRequestId \in H

OneHelper(LS) ==
    \A r, s \in LS :
        r.cryptoRequestId # NoId /\ r.cryptoRequestId = s.cryptoRequestId => r.id = s.id

SecretsDriven(LS, JS) == \A r \in LS : r.status = "InProgress" => r.id \in JS

Driven(r, LS, JC, H) ==
    r.id \in JC \/ (r.id \in H /\ \E s \in LS : s.cryptoRequestId = r.id)

CryptoDriven(LS, LC, JC, H) ==
    \A r \in LC : r.status = "InProgress" => Driven(r, LS, JC, H)

\* Jobs and helper requests belong to requests in progress, one each, and
\* every request in progress has one.
Found(LS, LC, JS, JC, H) ==
    /\ JobsFound(LS, JS)
    /\ JobsFound(LC, JC)
    /\ HelpersFound(LC, JC, H)
    /\ HelpersKnown(LS, H)
    /\ OneHelper(LS)
    /\ SecretsDriven(LS, JS)
    /\ CryptoDriven(LS, LC, JC, H)

\* The same while the crypto request i is in the hands of the Crypto processor:
\* what it waited for has ended, and what comes next is not yet decided.
FoundBut(LS, LC, JS, JC, H, i) ==
    /\ JobsFound(LS, JS)
    /\ JobsFound(LC, JC)
    /\ HelpersFound(LC, JC \ {i}, H \ {i})
    /\ HelpersKnown(LS, H \ {i})
    /\ OneHelper(LS)
    /\ SecretsDriven(LS, JS)
    /\ \A r \in LC : r.status = "InProgress" /\ r.id # i => Driven(r, LS, JC, H)
    /\ InProgressIn(LC, i)

\* The request t is r, with status s if it has the identifier i.
SameBut(t, r, i, s) ==
    /\ t.id = r.id
    /\ t.call = r.call
    /\ t.cryptoRequestId = r.cryptoRequestId
    /\ t.status = IF r.id = i THEN s ELSE r.status

\* M is L, where the request with identifier i has got status s.
Marked(M, L, i, s) ==
    /\ \A r \in L : \E t \in M : SameBut(t, r, i, s)
    /\ \A t \in M : \E r \in L : SameBut(t, r, i, s)

\* The identifier of r is new to L.
FreshIn(L, r) == \A s \in L : s.id # r.id
-----------------------------------------------------------------------------
(* How these changes keep Found. *)

\* A client's request is added to the secrets queue.
LEMMA FoundPutSecrets ==
    ASSUME NEW LS, NEW LC, NEW JS, NEW JC, NEW H, Found(LS, LC, JS, JC, H),
           NEW r, r.status = "Pending", r.cryptoRequestId = NoId
    PROVE  Found(LS \cup {r}, LC, JS, JC, H)
<1>1. CryptoDriven(LS \cup {r}, LC, JC, H)
  BY DEF Found, CryptoDriven, Driven
<1> QED BY <1>1 DEF Found, JobsFound, InProgressIn, HelpersKnown, OneHelper, SecretsDriven

\* A client's request is added to the crypto queue.
LEMMA FoundPutCrypto ==
    ASSUME NEW LS, NEW LC, NEW JS, NEW JC, NEW H, Found(LS, LC, JS, JC, H),
           NEW r, r.status = "Pending"
    PROVE  Found(LS, LC \cup {r}, JS, JC, H)
BY DEF Found, JobsFound, InProgressIn, HelpersFound, CryptoDriven, Driven

\* A client's request, not in progress, leaves the secrets queue.
LEMMA FoundDropSecrets ==
    ASSUME NEW LS, NEW LC \in SUBSET RequestData, NEW JS, NEW JC, NEW H \in SUBSET Ids,
           Found(LS, LC, JS, JC, H),
           NEW r \in LS, r.status # "InProgress", r.cryptoRequestId = NoId
    PROVE  Found(LS \ {r}, LC, JS, JC, H)
<1>1. \A s \in LC : s.id # NoId
  BY NumIdsAssumption DEF RequestData, Ids, NoId
<1>2. CryptoDriven(LS \ {r}, LC, JC, H)
  BY <1>1 DEF Found, CryptoDriven, Driven
<1> QED BY <1>2 DEF Found, JobsFound, InProgressIn, HelpersKnown, OneHelper, SecretsDriven

\* A request, not in progress, leaves the crypto queue.
LEMMA FoundDropCrypto ==
    ASSUME NEW LS, NEW LC, NEW JS, NEW JC, NEW H, Found(LS, LC, JS, JC, H),
           NEW r \in LC, r.status # "InProgress"
    PROVE  Found(LS, LC \ {r}, JS, JC, H)
BY DEF Found, JobsFound, InProgressIn, HelpersFound, CryptoDriven, Driven

\* A request of the secrets queue is started.
LEMMA FoundStartSecrets ==
    ASSUME NEW LS, NEW LC, NEW JS, NEW JC, NEW H, Found(LS, LC, JS, JC, H),
           NEW MS, NEW r \in LS, Marked(MS, LS, r.id, "InProgress")
    PROVE  Found(MS, LC, JS \cup {r.id}, JC, H)
<1>1. JobsFound(MS, JS \cup {r.id})
  <2>1. InProgressIn(MS, r.id)
    BY DEF Marked, SameBut, InProgressIn
  <2>2. \A i \in JS : InProgressIn(MS, i)
    BY DEF Found, JobsFound, InProgressIn, Marked, SameBut
  <2> QED BY <2>1, <2>2 DEF JobsFound
<1>2. HelpersKnown(MS, H) /\ OneHelper(MS)
  BY DEF Found, HelpersKnown, OneHelper, Marked, SameBut
<1>3. SecretsDriven(MS, JS \cup {r.id})
  BY DEF Found, SecretsDriven, Marked, SameBut
<1>4. CryptoDriven(MS, LC, JC, H)
  BY DEF Found, CryptoDriven, Driven, Marked, SameBut
<1> QED BY <1>1, <1>2, <1>3, <1>4 DEF Found

\* A job of the secrets queue has ended.
LEMMA FoundEndSecrets ==
    ASSUME NEW LS, NEW LC, NEW JS, NEW JC, NEW H, Found(LS, LC, JS, JC, H),
           NEW MS, NEW i, Marked(MS, LS, i, "Finished")
    PROVE  Found(MS, LC, JS \ {i}, JC, H)
<1>1. JobsFound(MS, JS \ {i})
  BY DEF Found, JobsFound, InProgressIn, Marked, SameBut
<1>2. HelpersKnown(MS, H) /\ OneHelper(MS)
  BY DEF Found, HelpersKnown, OneHelper, Marked, SameBut
<1>3. SecretsDriven(MS, JS \ {i})
  BY DEF Found, SecretsDriven, Marked, SameBut
<1>4. CryptoDriven(MS, LC, JC, H)
  BY DEF Found, CryptoDriven, Driven, Marked, SameBut
<1> QED BY <1>1, <1>2, <1>3, <1>4 DEF Found

\* A crypto request comes into the hands of its processor when its job ends...
LEMMA FoundButAfterJob ==
    ASSUME NEW LS, NEW LC, NEW JS, NEW JC, NEW H, Found(LS, LC, JS, JC, H), NEW i \in JC
    PROVE  FoundBut(LS, LC, JS, JC, H, i)
<1>1. i \notin H
  BY DEF Found, HelpersFound
<1> QED BY <1>1 DEF Found, FoundBut, JobsFound, HelpersFound, HelpersKnown, CryptoDriven

\* ... when its helper request ends and leaves the secrets queue ...
LEMMA FoundButAfterHelper ==
    ASSUME NEW LS, NEW LC, NEW JS, NEW JC, NEW H \in SUBSET Ids,
           Found(LS, LC, JS, JC, H), DistinctIds(LS),
           NEW r \in LS, r.status # "InProgress", r.cryptoRequestId \in H
    PROVE  FoundBut(LS \ {r}, LC, JS, JC, H, r.cryptoRequestId)
<1> DEFINE i == r.cryptoRequestId
<1>0. i # NoId
  BY NumIdsAssumption DEF Ids, NoId
<1>1. \A s \in LS \ {r} : s.cryptoRequestId # i
  BY <1>0 DEF Found, OneHelper, DistinctIds
<1>2. HelpersKnown(LS \ {r}, H \ {i}) /\ OneHelper(LS \ {r})
  BY <1>1 DEF Found, HelpersKnown, OneHelper
<1>3. JobsFound(LS \ {r}, JS) /\ SecretsDriven(LS \ {r}, JS)
  BY DEF Found, JobsFound, InProgressIn, SecretsDriven
<1>4. \A s \in LC : s.status = "InProgress" /\ s.id # i => Driven(s, LS \ {r}, JC, H)
  BY DEF Found, CryptoDriven, Driven
<1>5. HelpersFound(LC, JC \ {i}, H \ {i}) /\ InProgressIn(LC, i)
  BY DEF Found, HelpersFound
<1> QED BY <1>2, <1>3, <1>4, <1>5 DEF Found, FoundBut

\* ... and when a pass starts it.
LEMMA FoundButAfterStart ==
    ASSUME NEW LS, NEW LC, NEW JS, NEW JC, NEW H, Found(LS, LC, JS, JC, H),
           DistinctIds(LC), NEW MC, NEW r \in LC, r.status = "Pending",
           Marked(MC, LC, r.id, "InProgress")
    PROVE  /\ FoundBut(LS, MC, JS, JC, H, r.id)
           /\ r.id \notin JC /\ r.id \notin H
<1>1. r.id \notin JC /\ r.id \notin H
  BY DEF Found, JobsFound, HelpersFound, InProgressIn, DistinctIds
<1>2. InProgressIn(MC, r.id)
  BY DEF InProgressIn, Marked, SameBut
<1>3. \A i : InProgressIn(LC, i) => InProgressIn(MC, i)
  BY DEF InProgressIn, Marked, SameBut
<1>4. JobsFound(MC, JC) /\ HelpersFound(MC, JC \ {r.id}, H \ {r.id})
  BY <1>3 DEF Found, JobsFound, HelpersFound
<1>5. HelpersKnown(LS, H \ {r.id})
  BY <1>1 DEF Found, HelpersKnown
<1>6. \A t \in MC : t.status = "InProgress" /\ t.id # r.id => Driven(t, LS, JC, H)
  BY DEF Found, CryptoDriven, Driven, Marked, SameBut
<1> QED BY <1>1, <1>2, <1>4, <1>5, <1>6 DEF Found, FoundBut

\* The processor finishes the request ...
LEMMA FoundFinished ==
    ASSUME NEW LS, NEW LC, NEW JS, NEW JC, NEW H, NEW i, FoundBut(LS, LC, JS, JC, H, i),
           NEW MC, Marked(MC, LC, i, "Finished")
    PROVE  Found(LS, MC, JS, JC \ {i}, H \ {i})
<1>1. \A j : j # i /\ InProgressIn(LC, j) => InProgressIn(MC, j)
  BY DEF InProgressIn, Marked, SameBut
<1>2. JobsFound(MC, JC \ {i}) /\ HelpersFound(MC, JC \ {i}, H \ {i})
  BY <1>1 DEF FoundBut, JobsFound, HelpersFound
<1>3. CryptoDriven(LS, MC, JC \ {i}, H \ {i})
  <2> SUFFICES ASSUME NEW t \in MC, t.status = "InProgress"
               PROVE  Driven(t, LS, JC \ {i}, H \ {i})
    BY DEF CryptoDriven
  <2>1. PICK r \in LC : SameBut(t, r, i, "Finished")
    BY DEF Marked
  <2>2. r.id # i /\ r.status = "InProgress" /\ t.id = r.id
    BY <2>1 DEF SameBut
  <2> QED BY <2>2 DEF FoundBut, Driven
<1> QED BY <1>2, <1>3 DEF Found, FoundBut

\* ... starts a job for it ...
LEMMA FoundJob ==
    ASSUME NEW LS, NEW LC, NEW JS, NEW JC, NEW H, NEW i, FoundBut(LS, LC, JS, JC, H, i)
    PROVE  Found(LS, LC, JS, JC \cup {i}, H \ {i})
<1>1. JobsFound(LC, JC \cup {i}) /\ HelpersFound(LC, JC \cup {i}, H \ {i})
  BY DEF FoundBut, JobsFound, HelpersFound
<1>2. CryptoDriven(LS, LC, JC \cup {i}, H \ {i})
  BY DEF FoundBut, CryptoDriven, Driven
<1> QED BY <1>1, <1>2 DEF Found, FoundBut

\* ... or makes a helper request for it.
LEMMA FoundHelper ==
    ASSUME NEW LS, NEW LC, NEW JS, NEW JC, NEW H, NEW i, FoundBut(LS, LC, JS, JC, H, i),
           NEW r, r.status = "Pending", r.cryptoRequestId = i
    PROVE  Found(LS \cup {r}, LC, JS, JC \ {i}, H \cup {i})
<1>1. JobsFound(LC, JC \ {i}) /\ HelpersFound(LC, JC \ {i}, H \cup {i})
  BY DEF FoundBut, JobsFound, HelpersFound
<1>2. HelpersKnown(LS \cup {r}, H \cup {i}) /\ OneHelper(LS \cup {r})
  BY DEF FoundBut, HelpersKnown, OneHelper
<1>3. JobsFound(LS \cup {r}, JS) /\ SecretsDriven(LS \cup {r}, JS)
  BY DEF FoundBut, JobsFound, InProgressIn, SecretsDriven
<1>4. CryptoDriven(LS \cup {r}, LC, JC \ {i}, H \cup {i})
  BY DEF FoundBut, CryptoDriven, Driven
<1> QED BY <1>1, <1>2, <1>3, <1>4 DEF Found
-----------------------------------------------------------------------------
(* The calls. *)

\* Crypto requests carry a call; secrets requests carry one or are helpers.
Kinds(LS, LC) ==
    /\ \A r \in LC : r.call \in Calls /\ r.cryptoRequestId = NoId
    /\ \A r \in LS : r.call \in Calls <=> r.cryptoRequestId = NoId

\* The reply to a call that is carried is still due.
Due(L, S, R) == \A r \in L : r.call \in Calls => r.call \in S /\ R[r.call] = 0

\* No two requests carry the same call.
OneCarrier(LS, LC) ==
    /\ \A r, s \in LS : r.call \in Calls /\ r.call = s.call => r.id = s.id
    /\ \A r, s \in LC : r.call = s.call => r.id = s.id
    /\ \A r \in LS, s \in LC : r.call # s.call

\* A call without a reply is carried.
Carried(LS, LC, S, R) == \A c \in S : R[c] = 0 => \E r \in LS \cup LC : r.call = c

\* No call is answered before it was made.
NotBefore(S, R) == \A c \in Calls \ S : R[c] = 0

Carrying(LS, LC, S, R) ==
    /\ Kinds(LS, LC)
    /\ Due(LS, S, R)
    /\ Due(LC, S, R)
    /\ OneCarrier(LS, LC)
    /\ Carried(LS, LC, S, R)
    /\ NotBefore(S, R)

\* A call is refused on the spot.
LEMMA CarryingRefuse ==
    ASSUME NEW LS, NEW LC, NEW S \in SUBSET Calls, NEW R \in [Calls -> Nat],
           Carrying(LS, LC, S, R), NEW c \in Calls \ S, NEW k \in Nat \ {0}
    PROVE  Carrying(LS, LC, S \cup {c}, [R EXCEPT ![c] = k])
<1> DEFINE Q == [R EXCEPT ![c] = k]
<1>1. Q[c] # 0 /\ \A d \in Calls : d # c => Q[d] = R[d]
  OBVIOUS
<1> HIDE DEF Q
<1>2. Due(LS, S \cup {c}, Q) /\ Due(LC, S \cup {c}, Q)
  BY <1>1 DEF Carrying, Due
<1>3. Carried(LS, LC, S \cup {c}, Q)
  BY <1>1 DEF Carrying, Carried
<1>4. NotBefore(S \cup {c}, Q)
  BY <1>1 DEF Carrying, NotBefore
<1> QED BY <1>2, <1>3, <1>4 DEF Carrying, Q

\* A call is made, and carried by a new request of the secrets queue ...
LEMMA CarryingPutSecrets ==
    ASSUME NEW LS, NEW LC, NEW S \in SUBSET Calls, NEW R, Carrying(LS, LC, S, R),
           NEW r, r.call \in Calls \ S, r.cryptoRequestId = NoId
    PROVE  Carrying(LS \cup {r}, LC, S \cup {r.call}, R)
<1>1. \A s \in LS \cup LC : s.call \in Calls => s.call # r.call
  BY DEF Carrying, Due
<1>2. Kinds(LS \cup {r}, LC)
  BY DEF Carrying, Kinds
<1>3. OneCarrier(LS \cup {r}, LC)
  BY <1>1 DEF Carrying, OneCarrier, Kinds
<1>4. Due(LS \cup {r}, S \cup {r.call}, R) /\ Due(LC, S \cup {r.call}, R)
  BY DEF Carrying, Due, NotBefore
<1>5. Carried(LS \cup {r}, LC, S \cup {r.call}, R) /\ NotBefore(S \cup {r.call}, R)
  BY DEF Carrying, Carried, NotBefore
<1> QED BY <1>2, <1>3, <1>4, <1>5 DEF Carrying

\* ... or of the crypto queue.
LEMMA CarryingPutCrypto ==
    ASSUME NEW LS, NEW LC, NEW S \in SUBSET Calls, NEW R, Carrying(LS, LC, S, R),
           NEW r, r.call \in Calls \ S, r.cryptoRequestId = NoId
    PROVE  Carrying(LS, LC \cup {r}, S \cup {r.call}, R)
<1>1. \A s \in LS \cup LC : s.call \in Calls => s.call # r.call
  BY DEF Carrying, Due
<1>2. Kinds(LS, LC \cup {r})
  BY DEF Carrying, Kinds
<1>3. OneCarrier(LS, LC \cup {r})
  BY <1>1 DEF Carrying, OneCarrier, Kinds
<1>4. Due(LS, S \cup {r.call}, R) /\ Due(LC \cup {r}, S \cup {r.call}, R)
  BY DEF Carrying, Due, NotBefore
<1>5. Carried(LS, LC \cup {r}, S \cup {r.call}, R) /\ NotBefore(S \cup {r.call}, R)
  BY DEF Carrying, Carried, NotBefore
<1> QED BY <1>2, <1>3, <1>4, <1>5 DEF Carrying

\* A request of the secrets queue is answered and leaves ...
LEMMA CarryingAnswerSecrets ==
    ASSUME NEW LS, NEW LC, NEW S \in SUBSET Calls, NEW R \in [Calls -> Nat],
           Carrying(LS, LC, S, R), DistinctIds(LS), NEW r \in LS, r.call \in Calls
    PROVE  Carrying(LS \ {r}, LC, S, [R EXCEPT ![r.call] = 1])
<1> DEFINE Q == [R EXCEPT ![r.call] = 1]
<1>1. Q[r.call] # 0 /\ \A d \in Calls : d # r.call => Q[d] = R[d]
  OBVIOUS
<1> HIDE DEF Q
<1>2. \A s \in (LS \ {r}) \cup LC : s.call # r.call
  BY DEF Carrying, OneCarrier, DistinctIds
<1>3. Kinds(LS \ {r}, LC) /\ OneCarrier(LS \ {r}, LC)
  BY DEF Carrying, Kinds, OneCarrier
<1>4. Due(LS \ {r}, S, Q) /\ Due(LC, S, Q)
  BY <1>1, <1>2 DEF Carrying, Due
<1>5. Carried(LS \ {r}, LC, S, Q)
  BY <1>1 DEF Carrying, Carried
<1>6. NotBefore(S, Q)
  BY <1>1 DEF Carrying, NotBefore, Due
<1> QED BY <1>3, <1>4, <1>5, <1>6 DEF Carrying, Q

\* ... or a request of the crypto queue is.
LEMMA CarryingAnswerCrypto ==
    ASSUME NEW LS, NEW LC, NEW S \in SUBSET Calls, NEW R \in [Calls -> Nat],
           Carrying(LS, LC, S, R), DistinctIds(LC), NEW r \in LC
    PROVE  Carrying(LS, LC \ {r}, S, [R EXCEPT ![r.call] = 1])
<1>0. r.call \in Calls
  BY DEF Carrying, Kinds
<1> DEFINE Q == [R EXCEPT ![r.call] = 1]
<1>1. Q[r.call] # 0 /\ \A d \in Calls : d # r.call => Q[d] = R[d]
  BY <1>0
<1> HIDE DEF Q
<1>2. \A s \in LS \cup (LC \ {r}) : s.call # r.call
  BY DEF Carrying, OneCarrier, DistinctIds
<1>3. Kinds(LS, LC \ {r}) /\ OneCarrier(LS, LC \ {r})
  BY DEF Carrying, Kinds, OneCarrier
<1>4. Due(LS, S, Q) /\ Due(LC \ {r}, S, Q)
  BY <1>1, <1>2 DEF Carrying, Due
<1>5. Carried(LS, LC \ {r}, S, Q)
  BY <1>1 DEF Carrying, Carried
<1>6. NotBefore(S, Q)
  BY <1>0, <1>1 DEF Carrying, NotBefore, Due
<1> QED BY <1>3, <1>4, <1>5, <1>6 DEF Carrying, Q

\* A helper request carries no call: it comes and goes.
LEMMA CarryingHelper ==
    ASSUME NEW LS, NEW LC, NEW S \in SUBSET Calls, NEW R, Carrying(LS, LC, S, R), NEW r,
           r.call \notin Calls, r.cryptoRequestId # NoId
    PROVE  Carrying(LS \cup {r}, LC, S, R) /\ Carrying(LS \ {r}, LC, S, R)
<1>1. Kinds(LS \cup {r}, LC) /\ OneCarrier(LS \cup {r}, LC)
  BY DEF Carrying, Kinds, OneCarrier
<1>2. Kinds(LS \ {r}, LC) /\ OneCarrier(LS \ {r}, LC)
  BY DEF Carrying, Kinds, OneCarrier
<1>3. Due(LS \cup {r}, S, R) /\ Due(LS \ {r}, S, R)
  BY DEF Carrying, Due
<1>4. Carried(LS \cup {r}, LC, S, R) /\ Carried(LS \ {r}, LC, S, R)
  BY DEF Carrying, Carried
<1> QED BY <1>1, <1>2, <1>3, <1>4 DEF Carrying

\* A status changes, in the secrets queue or in the crypto queue.
LEMMA CarryingMarked ==
    ASSUME NEW LS, NEW LC, NEW S, NEW R, Carrying(LS, LC, S, R),
           NEW M, NEW i, NEW s
    PROVE  /\ Marked(M, LS, i, s) => Carrying(M, LC, S, R)
           /\ Marked(M, LC, i, s) => Carrying(LS, M, S, R)
<1>1. ASSUME Marked(M, LS, i, s)
      PROVE  Carrying(M, LC, S, R)
  <2>1. Kinds(M, LC) /\ Due(M, S, R)
    BY <1>1 DEF Carrying, Kinds, Due, Marked, SameBut
  <2>2. OneCarrier(M, LC)
    BY <1>1 DEF Carrying, OneCarrier, Marked, SameBut
  <2>3. Carried(M, LC, S, R)
    BY <1>1 DEF Carrying, Carried, Marked, SameBut
  <2> QED BY <2>1, <2>2, <2>3 DEF Carrying
<1>2. ASSUME Marked(M, LC, i, s)
      PROVE  Carrying(LS, M, S, R)
  <2>1. Kinds(LS, M) /\ Due(M, S, R)
    BY <1>2 DEF Carrying, Kinds, Due, Marked, SameBut
  <2>2. OneCarrier(LS, M)
    BY <1>2 DEF Carrying, OneCarrier, Marked, SameBut
  <2>3. Carried(LS, M, S, R)
    BY <1>2 DEF Carrying, Carried, Marked, SameBut
  <2> QED BY <2>1, <2>2, <2>3 DEF Carrying
<1> QED BY <1>1, <1>2
-----------------------------------------------------------------------------
(* From the lists to the sets. *)

LiveIn(E, list) == E \cup {list[n] : n \in DOMAIN list}

UniqueIn(E, list) ==
    /\ Unique(list)
    /\ \A r \in E : ~HasId(list, r.id)
    /\ \A r, s \in E : r.id = s.id => r = s

\* Unique identifiers tell live requests apart.
LEMMA LiveDistinct ==
    ASSUME NEW E, NEW list, UniqueIn(E, list)
    PROVE  DistinctIds(LiveIn(E, list))
BY DEF UniqueIn, Unique, HasId, DistinctIds, LiveIn

\* Live requests are requests.
LEMMA LiveType ==
    ASSUME NEW E \in SUBSET RequestData, NEW list \in Seq(RequestData)
    PROVE  LiveIn(E, list) \in SUBSET RequestData
<1>1. \A n \in DOMAIN list : list[n] \in RequestData
  BY ElementOfSeq
<1> QED BY <1>1 DEF LiveIn

\* finishEnqueueRequest leaves the live requests as they are.
LEMMA LiveAppend ==
    ASSUME NEW E \in SUBSET RequestData, NEW list \in Seq(RequestData), NEW r \in E
    PROVE  LiveIn(E \ {r}, Append(list, r)) = LiveIn(E, list)
<1> DEFINE new == Append(list, r)
<1>1. /\ DOMAIN list = 1 .. Len(list) /\ Len(list) \in Nat
      /\ DOMAIN new = 1 .. Len(list) + 1
      /\ new[Len(list) + 1] = r
      /\ \A m \in 1 .. Len(list) : new[m] = list[m]
  BY AppendProperties
<1> HIDE DEF new
<1>2. {new[n] : n \in DOMAIN new} = {list[n] : n \in DOMAIN list} \cup {r}
  BY <1>1
<1> QED BY <1>2 DEF LiveIn, new

\* Erasing the n-th request takes it, and no other, out of the live ones.
LEMMA LiveErase ==
    ASSUME NEW E, NEW list \in Seq(RequestData), UniqueIn(E, list), NEW n \in DOMAIN list
    PROVE  LiveIn(E, Erase(list, n)) = LiveIn(E, list) \ {list[n]}
<1> DEFINE e == Erase(list, n)
<1>1. /\ DOMAIN list = 1 .. Len(list) /\ Len(list) \in Nat
      /\ DOMAIN e = 1 .. Len(list) - 1
      /\ \A m \in 1 .. Len(list) - 1 : e[m] = IF m < n THEN list[m] ELSE list[m + 1]
  BY EraseList
<1> HIDE DEF e
<1>2. \A m \in DOMAIN e : \E k \in DOMAIN list : k # n /\ e[m] = list[k]
  BY <1>1
<1>3. \A k \in DOMAIN list : k # n => \E m \in DOMAIN e : e[m] = list[k]
  <2> SUFFICES ASSUME NEW k \in DOMAIN list, k # n
               PROVE  \E m \in DOMAIN e : e[m] = list[k]
    OBVIOUS
  <2>1. CASE k < n
    BY <1>1, <2>1
  <2>2. CASE k > n
    <3>1. k - 1 \in DOMAIN e /\ e[k - 1] = list[k]
      BY <1>1, <2>2
    <3> QED BY <3>1
  <2> QED BY <1>1, <2>1, <2>2
<1>4. /\ \A k \in DOMAIN list : list[k] = list[n] => k = n
      /\ \A r \in E : r # list[n]
  BY DEF UniqueIn, Unique, HasId
<1> QED BY <1>2, <1>3, <1>4 DEF LiveIn, e

\* The status of the n-th request is set.
LEMMA LiveSetStatus ==
    ASSUME NEW E, NEW list \in Seq(RequestData), UniqueIn(E, list), NEW n \in DOMAIN list,
           NEW s \in RequestStatus
    PROVE  Marked(LiveIn(E, SetStatus(list, n, s)), LiveIn(E, list), list[n].id, s)
<1> DEFINE e == SetStatus(list, n, s)
           i == list[n].id
<1>1. DOMAIN e = DOMAIN list /\ \A m \in DOMAIN list :
         /\ e[m].id = list[m].id
         /\ e[m].call = list[m].call
         /\ e[m].cryptoRequestId = list[m].cryptoRequestId
         /\ e[m].status = IF m = n THEN s ELSE list[m].status
  BY SetStatusList
<1> HIDE DEF e
<1>2. \A m \in DOMAIN list : SameBut(e[m], list[m], i, s)
  BY <1>1 DEF SameBut, UniqueIn, Unique
<1>3. \A r \in E : SameBut(r, r, i, s)
  BY DEF SameBut, UniqueIn, HasId
<1> QED BY <1>1, <1>2, <1>3 DEF Marked, LiveIn, e

\* requestFinished sets the status of the request with its identifier.
LEMMA LiveFinished ==
    ASSUME NEW E, NEW rs \in [Queues -> Seq(RequestData)], NEW q \in Queues,
           NEW i \in Ids, \A r \in E : r.id # i
    PROVE  Marked(LiveIn(E, FinishedIn(rs, q, i)[q]), LiveIn(E, rs[q]), i, "Finished")
<1> DEFINE e == FinishedIn(rs, q, i)[q]
<1>1. DOMAIN e = DOMAIN rs[q] /\ \A m \in DOMAIN rs[q] :
         /\ e[m].id = rs[q][m].id
         /\ e[m].call = rs[q][m].call
         /\ e[m].cryptoRequestId = rs[q][m].cryptoRequestId
         /\ e[m].status = IF rs[q][m].id = i THEN "Finished" ELSE rs[q][m].status
  BY FinishedInList
<1> HIDE DEF e
<1>2. \A m \in DOMAIN rs[q] : SameBut(e[m], rs[q][m], i, "Finished")
  BY <1>1 DEF SameBut
<1>3. \A r \in E : SameBut(r, r, i, "Finished")
  BY DEF SameBut
<1> QED BY <1>1, <1>2, <1>3 DEF Marked, LiveIn, e
-----------------------------------------------------------------------------
(* The invariant of the queues. *)

Live(q) == LiveIn(m_enqueuingRequests[q], m_requests[q])

Jobs(q) == {i \in Ids : <<q, i>> \in working}

EnqueuingPending ==
    \A q \in Queues : \A r \in m_enqueuingRequests[q] : r.status = "Pending"

AllFound == Found(Live("secrets"), Live("crypto"), Jobs("secrets"), Jobs("crypto"),
                  m_cryptoApiHelperRequests)

AllCarried == Carrying(Live("secrets"), Live("crypto"), sent, replies)

\* Every request is found by what was started for it, and carries its call.
Served == EnqueuingPending /\ AllFound /\ AllCarried

\* IdsUnique, queue by queue.
LEMMA UniqueQueues ==
    ASSUME IdsUnique, NEW q \in Queues
    PROVE  /\ UniqueIn(m_enqueuingRequests[q], m_requests[q])
           /\ DistinctIds(Live(q))
<1>1. UniqueIn(m_enqueuingRequests[q], m_requests[q])
  BY DEF IdsUnique, UniqueIn, Unique
<1> QED BY <1>1, LiveDistinct DEF Live

\* The type of what the invariant is about.
LEMMA LiveTypes ==
    ASSUME TypeOK, NEW q \in Queues
    PROVE  Live(q) \in SUBSET RequestData
BY LiveType DEF TypeOK, Live

\* Starting and ending a job of request i of queue q.
LEMMA JobsChange ==
    ASSUME NEW q \in Queues, NEW i \in Ids
    PROVE  /\ working' = working \cup {<<q, i>>} =>
                /\ Jobs(q)' = Jobs(q) \cup {i}
                /\ \A p \in Queues : p # q => Jobs(p)' = Jobs(p)
           /\ working' = working \ {<<q, i>>} =>
                /\ Jobs(q)' = Jobs(q) \ {i}
                /\ \A p \in Queues : p # q => Jobs(p)' = Jobs(p)
           /\ UNCHANGED working => \A p \in Queues : Jobs(p)' = Jobs(p)
BY DEF Jobs

\* A request is inserted into m_enqueuingRequests.
LEMMA InsertedLive ==
    ASSUME TypeOK, EnqueuingPending, NEW q \in Queues, NEW i \in Ids, NextFreeId(q, i),
           NEW c, NEW cid, m_enqueuingRequests' = Inserted(q, i, c, cid)
    PROVE  LET r == [id |-> i, call |-> c, status |-> "Pending", cryptoRequestId |-> cid]
           IN  /\ EnqueuingPending'
               /\ Live(q)' = LiveIn(m_enqueuingRequests[q], m_requests'[q]) \cup {r}
               /\ \A p \in Queues : p # q =>
                     Live(p)' = LiveIn(m_enqueuingRequests[p], m_requests'[p])
<1> DEFINE new == [id |-> i, call |-> c, status |-> "Pending", cryptoRequestId |-> cid]
<1>1. \A r \in m_enqueuingRequests[q] : r.id # i
  BY DEF NextFreeId, UsedIds
<1>2. new.status = "Pending"
  OBVIOUS
<1>3. /\ m_enqueuingRequests'[q] =
            {r \in m_enqueuingRequests[q] : r.id # i} \cup {new}
      /\ \A p \in Queues : p # q => m_enqueuingRequests'[p] = m_enqueuingRequests[p]
  BY DEF Inserted, TypeOK
<1> HIDE DEF new
<1>4. m_enqueuingRequests'[q] = m_enqueuingRequests[q] \cup {new}
  BY <1>1, <1>3
<1>5. EnqueuingPending'
  BY <1>2, <1>3, <1>4 DEF EnqueuingPending
<1>6. Live(q)' = LiveIn(m_enqueuingRequests[q], m_requests'[q]) \cup {new}
  BY <1>4 DEF Live, LiveIn
<1>7. \A p \in Queues : p # q =>
         Live(p)' = LiveIn(m_enqueuingRequests[p], m_requests'[p])
  BY <1>3 DEF Live
<1> QED BY <1>5, <1>6, <1>7 DEF new

\* A helper request is made.
LEMMA HelperLive ==
    ASSUME TypeOK, EnqueuingPending, NEW cid, NEW rs, NEW evs, NEW y,
           StartHelper(cid, rs, evs, y)
    PROVE  \E r :
              /\ r.status = "Pending" /\ r.call = NoCall /\ r.cryptoRequestId = cid
              /\ EnqueuingPending'
              /\ Live("secrets")' =
                    LiveIn(m_enqueuingRequests["secrets"], rs["secrets"]) \cup {r}
              /\ Live("crypto")' = LiveIn(m_enqueuingRequests["crypto"], rs["crypto"])
<1>1. PICK i \in Ids : /\ NextFreeId("secrets", i)
                      /\ m_enqueuingRequests' = Inserted("secrets", i, NoCall, cid)
  BY DEF StartHelper
<1>2. m_requests' = rs /\ "secrets" \in Queues /\ "crypto" \in Queues
  BY DEF StartHelper, Queues
<1> DEFINE r == [id |-> i, call |-> NoCall, status |-> "Pending", cryptoRequestId |-> cid]
<1>3. r.status = "Pending" /\ r.call = NoCall /\ r.cryptoRequestId = cid
  OBVIOUS
<1>4. /\ EnqueuingPending'
      /\ Live("secrets")' =
            LiveIn(m_enqueuingRequests["secrets"], m_requests'["secrets"]) \cup {r}
      /\ Live("crypto")' = LiveIn(m_enqueuingRequests["crypto"], m_requests'["crypto"])
  BY <1>1, <1>2, InsertedLive
<1> HIDE DEF r
<1> QED BY <1>2, <1>3, <1>4

\* The Crypto processor decides what comes next for request cid.
LEMMA ResumeServed ==
    ASSUME TypeOK, EnqueuingPending, NEW cid \in Ids,
           NEW rs \in [Queues -> Seq(RequestData)], NEW LS, NEW LC,
           LS = LiveIn(m_enqueuingRequests["secrets"], rs["secrets"]),
           LC = LiveIn(m_enqueuingRequests["crypto"], rs["crypto"]),
           \A r \in m_enqueuingRequests["crypto"] : r.id # cid,
           FoundBut(LS, LC, Jobs("secrets"), Jobs("crypto"),
                    m_cryptoApiHelperRequests, cid),
           Carrying(LS, LC, sent, replies), UNCHANGED <<sent, replies>>,
           NEW evs, NEW y, NEW withJob, Resume(cid, rs, evs, y, withJob)
    PROVE  Served'
<1>0. "secrets" \in Queues /\ "crypto" \in Queues
  BY DEF Queues
<1> DEFINE JS == Jobs("secrets")
           JC == Jobs("crypto")
           H == m_cryptoApiHelperRequests
<1>1. CASE /\ m_requests' = FinishedIn(rs, "crypto", cid)
           /\ working' = working \ {<<"crypto", cid>>}
           /\ H' = H \ {cid}
           /\ UNCHANGED m_enqueuingRequests
  <2> DEFINE MC == LiveIn(m_enqueuingRequests["crypto"],
                          FinishedIn(rs, "crypto", cid)["crypto"])
  <2>1. Marked(MC, LC, cid, "Finished")
    BY <1>0, LiveFinished
  <2>2. FinishedIn(rs, "crypto", cid)["secrets"] = rs["secrets"]
    <3>1. \A p \in Queues : p # "crypto" => FinishedIn(rs, "crypto", cid)[p] = rs[p]
      BY <1>0, FinishedInList
    <3> QED BY <1>0, <3>1
  <2>3. Live("secrets")' = LS /\ Live("crypto")' = MC
    BY <1>1, <2>2 DEF Live
  <2>4. Jobs("crypto")' = JC \ {cid} /\ Jobs("secrets")' = JS
    BY <1>0, <1>1, JobsChange
  <2> HIDE DEF MC, JS, JC
  <2>5. Found(LS, MC, JS, JC \ {cid}, H \ {cid})
    BY <2>1, FoundFinished DEF JS, JC
  <2>6. Carrying(LS, MC, sent, replies)
    BY <2>1, CarryingMarked
  <2>7. EnqueuingPending'
    BY <1>1 DEF EnqueuingPending
  <2> QED BY <1>1, <2>3, <2>4, <2>5, <2>6, <2>7 DEF Served, AllFound, AllCarried
<1>2. CASE /\ m_requests' = rs
           /\ working' = working \cup {<<"crypto", cid>>}
           /\ H' = H \ {cid}
           /\ UNCHANGED m_enqueuingRequests
  <2>1. Live("secrets")' = LS /\ Live("crypto")' = LC
    BY <1>2 DEF Live
  <2>2. Jobs("crypto")' = JC \cup {cid} /\ Jobs("secrets")' = JS
    BY <1>0, <1>2, JobsChange
  <2>3. Found(LS, LC, JS, JC \cup {cid}, H \ {cid})
    BY FoundJob
  <2>4. EnqueuingPending'
    BY <1>2 DEF EnqueuingPending
  <2> HIDE DEF JS, JC
  <2> QED BY <1>2, <2>1, <2>2, <2>3, <2>4 DEF Served, AllFound, AllCarried
<1>3. CASE /\ StartHelper(cid, rs, evs, y)
           /\ working' = working \ {<<"crypto", cid>>}
           /\ H' = H \cup {cid}
  <2>1. PICK r : /\ r.status = "Pending" /\ r.call = NoCall /\ r.cryptoRequestId = cid
                 /\ EnqueuingPending'
                 /\ Live("secrets")' = LS \cup {r}
                 /\ Live("crypto")' = LC
    BY <1>3, HelperLive
  <2>2. Jobs("crypto")' = JC \ {cid} /\ Jobs("secrets")' = JS
    BY <1>0, <1>3, JobsChange
  <2>3. Found(LS \cup {r}, LC, JS, JC \ {cid}, H \cup {cid})
    BY <2>1, FoundHelper
  <2>4. sent \in SUBSET Calls /\ cid # NoId /\ NoCall \notin Calls
    BY NoCallAssumption, NumIdsAssumption DEF TypeOK, Ids, NoId
  <2>5. Carrying(LS \cup {r}, LC, sent, replies)
    BY <2>1, <2>4, CarryingHelper
  <2> HIDE DEF JS, JC
  <2> QED BY <1>3, <2>1, <2>2, <2>3, <2>5 DEF Served, AllFound, AllCarried
<1> QED BY <1>1, <1>2, <1>3 DEF Resume

\* Where a pass stands, the live requests without the current one are those of
\* the list it leaves when it erases it.
LEMMA ErasedLive ==
    ASSUME TypeOK, IdsUnique, NEW q \in Queues, NEW s, At(q, s)
    PROVE  /\ Current(q) \in Live(q) /\ Current(q).status = s
           /\ Erase(m_requests[q], pass.at) \in Seq(RequestData)
           /\ LiveIn(m_enqueuingRequests[q], Erase(m_requests[q], pass.at))
                 = Live(q) \ {Current(q)}
<1>1. /\ pass.at \in DOMAIN m_requests[q] /\ m_requests[q] \in Seq(RequestData)
      /\ Current(q) = m_requests[q][pass.at] /\ Current(q).status = s
  BY AtElement
<1>2. UniqueIn(m_enqueuingRequests[q], m_requests[q])
  BY UniqueQueues
<1>3. Current(q) \in Live(q)
  BY <1>1 DEF Live, LiveIn
<1> QED BY <1>1, <1>2, <1>3, LiveErase, EraseList DEF Live

\* ... and those of the list it leaves when it starts the current request are
\* the live ones, that one marked.
LEMMA StartedLive ==
    ASSUME TypeOK, IdsUnique, NEW q \in Queues, NEW s, At(q, s)
    PROVE  LET kept == SetStatus(m_requests[q], pass.at, "InProgress")
           IN  /\ kept \in Seq(RequestData)
               /\ Marked(LiveIn(m_enqueuingRequests[q], kept), Live(q),
                         Current(q).id, "InProgress")
<1>1. /\ pass.at \in DOMAIN m_requests[q] /\ m_requests[q] \in Seq(RequestData)
      /\ Current(q) = m_requests[q][pass.at]
  BY AtElement
<1>2. UniqueIn(m_enqueuingRequests[q], m_requests[q])
  BY UniqueQueues
<1>3. "InProgress" \in RequestStatus
  BY DEF RequestStatus
<1> QED BY <1>1, <1>2, <1>3, LiveSetStatus, SetStatusList DEF Live

\* A request of the secrets queue ends.
LEMMA CompleteServed ==
    ASSUME TypeOK, IdsUnique, Served, UNCHANGED sent,
           NEW s, s # "InProgress", At("secrets", s), NEW y,
           CompleteSecrets([m_requests EXCEPT !["secrets"] =
                               Erase(m_requests["secrets"], pass.at)], y)
    PROVE  /\ Served'
           /\ \/ UNCHANGED replies
              \/ /\ Current("secrets").call \in sent
                 /\ replies[Current("secrets").call] = 0
                 /\ replies' = [replies EXCEPT ![Current("secrets").call] = 1]
<1> DEFINE r == Current("secrets")
           rest == Erase(m_requests["secrets"], pass.at)
           rs == [m_requests EXCEPT !["secrets"] = rest]
           LS == Live("secrets")
           LC == Live("crypto")
           H == m_cryptoApiHelperRequests
<1>0. "secrets" \in Queues /\ "crypto" \in Queues
  BY DEF Queues
<1>1. /\ r \in LS /\ r.status = s /\ rest \in Seq(RequestData)
      /\ LiveIn(m_enqueuingRequests["secrets"], rest) = LS \ {r}
  BY <1>0, ErasedLive
<1>2. CompleteSecrets(rs, y)
  OBVIOUS
<1>3. /\ LS \in SUBSET RequestData /\ LC \in SUBSET RequestData
      /\ DistinctIds(LS) /\ DistinctIds(LC)
      /\ H \in SUBSET Ids /\ sent \in SUBSET Calls /\ replies \in [Calls -> Nat]
  BY <1>0, LiveTypes, UniqueQueues DEF TypeOK
<1>4. /\ Found(LS, LC, Jobs("secrets"), Jobs("crypto"), H)
      /\ Carrying(LS, LC, sent, replies)
  BY DEF Served, AllFound, AllCarried
<1> HIDE DEF rest
<1>5. /\ rs \in [Queues -> Seq(RequestData)] /\ rs["secrets"] = rest
      /\ rs["crypto"] = m_requests["crypto"]
  BY <1>0, <1>1 DEF TypeOK
<1>6. LC = LiveIn(m_enqueuingRequests["crypto"], rs["crypto"])
  BY <1>5 DEF Live
<1> HIDE DEF rs, LS, LC, r
<1>7. CASE /\ r.cryptoRequestId = NoId
           /\ Reply(r.call)
           /\ m_requests' = rs
           /\ UNCHANGED <<m_enqueuingRequests, working, m_cryptoApiHelperRequests>>
  <2>1. Live("secrets")' = LS \ {r} /\ Live("crypto")' = LC
    BY <1>1, <1>5, <1>6, <1>7 DEF Live
  <2>2. Jobs("secrets")' = Jobs("secrets") /\ Jobs("crypto")' = Jobs("crypto")
    BY <1>7 DEF Jobs
  <2>3. Found(LS \ {r}, LC, Jobs("secrets"), Jobs("crypto"), H)
    BY <1>1, <1>3, <1>4, <1>7, FoundDropSecrets
  <2>4. r.call \in Calls
    BY <1>1, <1>4, <1>7 DEF Carrying, Kinds
  <2>5. r.call \in sent /\ replies[r.call] = 0
    BY <1>1, <1>4, <2>4 DEF Carrying, Due
  <2>6. replies' = [replies EXCEPT ![r.call] = 1]
    BY <1>3, <1>7, <2>4, <2>5 DEF Reply
  <2>7. Carrying(LS \ {r}, LC, sent, [replies EXCEPT ![r.call] = 1])
    BY <1>1, <1>3, <1>4, <2>4, CarryingAnswerSecrets
  <2>8. EnqueuingPending'
    BY <1>7 DEF Served, EnqueuingPending
  <2>9. Served'
    BY <1>7, <2>1, <2>2, <2>3, <2>6, <2>7, <2>8 DEF Served, AllFound, AllCarried
  <2> QED BY <2>5, <2>6, <2>9 DEF r
<1>8. CASE /\ r.cryptoRequestId \in H
           /\ Resume(r.cryptoRequestId, rs, posted, y, TRUE)
           /\ UNCHANGED replies
  <2>0. r.cryptoRequestId \in Ids
    BY <1>3, <1>8
  <2>1. FoundBut(LS \ {r}, LC, Jobs("secrets"), Jobs("crypto"), H, r.cryptoRequestId)
    BY <1>1, <1>3, <1>4, <1>8, FoundButAfterHelper
  <2>2. r.cryptoRequestId # NoId
    BY <2>0, NumIdsAssumption DEF Ids, NoId
  <2>3. r.call \notin Calls
    BY <1>1, <1>4, <2>2 DEF Carrying, Kinds
  <2>4. Carrying(LS \ {r}, LC, sent, replies)
    BY <1>3, <1>4, <2>2, <2>3, CarryingHelper
  <2>5. InProgressIn(LC, r.cryptoRequestId)
    BY <1>4, <1>8 DEF Found, HelpersFound
  <2>6. \A e \in m_enqueuingRequests["crypto"] : e \in LC /\ e.status = "Pending"
    BY <1>0 DEF LC, Live, LiveIn, Served, EnqueuingPending
  <2>7. \A e \in m_enqueuingRequests["crypto"] : e.id # r.cryptoRequestId
    BY <1>3, <2>5, <2>6 DEF InProgressIn, DistinctIds
  <2>8. LS \ {r} = LiveIn(m_enqueuingRequests["secrets"], rs["secrets"])
    BY <1>1, <1>5
  <2>9. EnqueuingPending
    BY DEF Served
  <2> QED BY <1>5, <1>6, <1>8, <2>0, <2>1, <2>4, <2>7, <2>8, <2>9, ResumeServed
<1>9. CASE r.cryptoRequestId \in Ids \ H
  <2>1. r.cryptoRequestId # NoId
    BY <1>9, NumIdsAssumption DEF Ids, NoId
  <2> QED BY <1>1, <1>4, <1>9, <2>1 DEF Found, HelpersKnown
<1> QED BY <1>2, <1>7, <1>8, <1>9 DEF CompleteSecrets, r
-----------------------------------------------------------------------------
(* Every step keeps the invariant, and is a step of the promise. *)

PromiseStep == [Promise!ANext]_<<sent, replies>>

\* A reply to a call that is due.
LEMMA AnswerStep ==
    ASSUME NEW c \in Calls, c \in sent, replies[c] = 0,
           replies' = [replies EXCEPT ![c] = 1], UNCHANGED sent
    PROVE  PromiseStep
BY DEF PromiseStep, Promise!ANext, Promise!Answer

\* A step that leaves requests, jobs, helpers and calls as they are.
LEMMA SameServed ==
    ASSUME Served, EnqueuingPending', \A q \in Queues : Live(q)' = Live(q),
           UNCHANGED <<working, m_cryptoApiHelperRequests, sent, replies>>
    PROVE  Served' /\ PromiseStep
<1>1. Live("secrets")' = Live("secrets") /\ Live("crypto")' = Live("crypto")
  BY DEF Queues
<1>2. Jobs("secrets")' = Jobs("secrets") /\ Jobs("crypto")' = Jobs("crypto")
  BY DEF Jobs
<1>3. PromiseStep
  BY DEF PromiseStep
<1> QED BY <1>1, <1>2, <1>3 DEF Served, AllFound, AllCarried

\* A request of the crypto queue, not in progress, is answered and erased.
LEMMA AnsweredServed ==
    ASSUME TypeOK, IdsUnique, Served, UNCHANGED sent,
           NEW s, s # "InProgress", At("crypto", s), Reply(Current("crypto").call),
           m_requests' = [m_requests EXCEPT !["crypto"] =
                             Erase(m_requests["crypto"], pass.at)],
           UNCHANGED <<m_enqueuingRequests, working, m_cryptoApiHelperRequests>>
    PROVE  Served' /\ PromiseStep
<1> DEFINE r == Current("crypto")
           rest == Erase(m_requests["crypto"], pass.at)
           LS == Live("secrets")
           LC == Live("crypto")
           H == m_cryptoApiHelperRequests
<1>0. "secrets" \in Queues /\ "crypto" \in Queues
  BY DEF Queues
<1>1. /\ r \in LC /\ r.status = s
      /\ LiveIn(m_enqueuingRequests["crypto"], rest) = LC \ {r}
  BY <1>0, ErasedLive
<1>2. /\ DistinctIds(LC) /\ sent \in SUBSET Calls /\ replies \in [Calls -> Nat]
  BY <1>0, UniqueQueues DEF TypeOK
<1>3. /\ Found(LS, LC, Jobs("secrets"), Jobs("crypto"), H)
      /\ Carrying(LS, LC, sent, replies)
  BY DEF Served, AllFound, AllCarried
<1> HIDE DEF rest
<1>4. m_requests'["crypto"] = rest /\ m_requests'["secrets"] = m_requests["secrets"]
  BY <1>0 DEF TypeOK, rest
<1>5. Live("secrets")' = LS /\ Live("crypto")' = LC \ {r}
  BY <1>1, <1>4 DEF Live
<1> HIDE DEF r, LS, LC
<1>6. Found(LS, LC \ {r}, Jobs("secrets"), Jobs("crypto"), H)
  BY <1>1, <1>3, FoundDropCrypto
<1>7. r.call \in Calls /\ r.call \in sent /\ replies[r.call] = 0
  BY <1>1, <1>3 DEF Carrying, Kinds, Due
<1>8. replies' = [replies EXCEPT ![r.call] = 1]
  BY <1>2, <1>7 DEF Reply, r
<1>9. Carrying(LS, LC \ {r}, sent, [replies EXCEPT ![r.call] = 1])
  BY <1>1, <1>2, <1>3, CarryingAnswerCrypto
<1>10. Jobs("secrets")' = Jobs("secrets") /\ Jobs("crypto")' = Jobs("crypto")
  BY DEF Jobs
<1>11. EnqueuingPending'
  BY DEF Served, EnqueuingPending
<1>12. Served'
  BY <1>5, <1>6, <1>8, <1>9, <1>10, <1>11 DEF Served, AllFound, AllCarried
<1> QED BY <1>7, <1>8, <1>12, AnswerStep

\* A client's call.
LEMMA CallServed ==
    ASSUME TypeOK, Served, NEW c \in Calls, NEW q \in Queues, HandleRequest(c, q)
    PROVE  Served' /\ PromiseStep
<1> DEFINE LS == Live("secrets")
           LC == Live("crypto")
           H == m_cryptoApiHelperRequests
<1>0. /\ "secrets" \in Queues /\ "crypto" \in Queues
      /\ sent \in SUBSET Calls /\ replies \in [Calls -> Nat]
  BY DEF Queues, TypeOK
<1>1. /\ EnqueuingPending
      /\ Found(LS, LC, Jobs("secrets"), Jobs("crypto"), H)
      /\ Carrying(LS, LC, sent, replies)
  BY DEF Served, AllFound, AllCarried
<1>2. /\ c \in Calls \ sent /\ sent' = sent \cup {c}
      /\ UNCHANGED <<working, m_cryptoApiHelperRequests>>
  BY DEF HandleRequest, RefuseUnknownPeer, RefuseQueueFull, EnqueueRequest
<1>3. replies[c] = 0
  BY <1>1, <1>2 DEF Carrying, NotBefore
<1>4. Jobs("secrets")' = Jobs("secrets") /\ Jobs("crypto")' = Jobs("crypto")
  BY <1>2 DEF Jobs
<1>5. CASE RefuseUnknownPeer(c) \/ RefuseQueueFull(c, q)
  <2>1. PICK k \in {1, 2} : replies' = [replies EXCEPT ![c] = k]
    BY <1>0, <1>3, <1>5 DEF RefuseUnknownPeer, RefuseQueueFull, Reply
  <2>2. UNCHANGED <<m_enqueuingRequests, m_requests>>
    BY <1>5 DEF RefuseUnknownPeer, RefuseQueueFull
  <2>3. Live("secrets")' = LS /\ Live("crypto")' = LC /\ EnqueuingPending'
    BY <1>1, <2>2 DEF Live, EnqueuingPending
  <2> HIDE DEF LS, LC
  <2>k. k \in Nat \ {0}
    OBVIOUS
  <2>4. Carrying(LS, LC, sent \cup {c}, [replies EXCEPT ![c] = k])
    BY <1>0, <1>1, <1>2, <2>k, CarryingRefuse
  <2>5. Served'
    BY <1>1, <1>2, <1>4, <2>1, <2>3, <2>4 DEF Served, AllFound, AllCarried
  <2>6. Promise!Refuse(c, k)
    BY <1>2, <2>1 DEF Promise!Refuse
  <2> QED BY <2>5, <2>6 DEF PromiseStep, Promise!ANext
<1>6. CASE EnqueueRequest(c, q)
  <2>1. PICK i \in Ids : /\ NextFreeId(q, i)
                         /\ m_enqueuingRequests' = Inserted(q, i, c, NoId)
    BY <1>6 DEF EnqueueRequest
  <2>2. UNCHANGED <<m_requests, replies>>
    BY <1>6 DEF EnqueueRequest
  <2> DEFINE r == [id |-> i, call |-> c, status |-> "Pending", cryptoRequestId |-> NoId]
  <2>3. r.status = "Pending" /\ r.call = c /\ r.cryptoRequestId = NoId
    OBVIOUS
  <2>4. /\ EnqueuingPending'
        /\ Live(q)' = LiveIn(m_enqueuingRequests[q], m_requests'[q]) \cup {r}
        /\ \A p \in Queues : p # q =>
              Live(p)' = LiveIn(m_enqueuingRequests[p], m_requests'[p])
    BY <1>1, <2>1, InsertedLive
  <2> HIDE DEF r
  <2>5. Live(q)' = Live(q) \cup {r} /\ \A p \in Queues : p # q => Live(p)' = Live(p)
    BY <2>2, <2>4 DEF Live
  <2>6. Served'
    <3>1. CASE q = "secrets"
      <4>1. Live("secrets")' = LS \cup {r} /\ Live("crypto")' = LC
        BY <1>0, <2>5, <3>1
      <4> HIDE DEF LS, LC
      <4>2. Found(LS \cup {r}, LC, Jobs("secrets"), Jobs("crypto"), H)
        BY <1>1, <2>3, FoundPutSecrets
      <4>3. Carrying(LS \cup {r}, LC, sent \cup {c}, replies)
        BY <1>0, <1>1, <1>2, <2>3, CarryingPutSecrets
      <4> QED BY <1>2, <1>4, <2>2, <2>4, <4>1, <4>2, <4>3 DEF Served, AllFound, AllCarried
    <3>2. CASE q = "crypto"
      <4>1. Live("secrets")' = LS /\ Live("crypto")' = LC \cup {r}
        BY <1>0, <2>5, <3>2
      <4> HIDE DEF LS, LC
      <4>2. Found(LS, LC \cup {r}, Jobs("secrets"), Jobs("crypto"), H)
        BY <1>1, <2>3, FoundPutCrypto
      <4>3. Carrying(LS, LC \cup {r}, sent \cup {c}, replies)
        BY <1>0, <1>1, <1>2, <2>3, CarryingPutCrypto
      <4> QED BY <1>2, <1>4, <2>2, <2>4, <4>1, <4>2, <4>3 DEF Served, AllFound, AllCarried
    <3> QED BY <3>1, <3>2 DEF Queues
  <2>7. Promise!Make(c)
    BY <1>2, <2>2 DEF Promise!Make
  <2> QED BY <2>6, <2>7 DEF PromiseStep, Promise!ANext
<1> QED BY <1>5, <1>6 DEF HandleRequest

\* Each step of the queues keeps the invariant and the promise.
THEOREM ServedStep ==
    TypeOK /\ IdsUnique /\ Served /\ [Next]_vars => Served' /\ PromiseStep
<1> SUFFICES ASSUME TypeOK, IdsUnique, Served, [Next]_vars
             PROVE  Served' /\ PromiseStep
  OBVIOUS
<1> DEFINE LS == Live("secrets")
           LC == Live("crypto")
           H == m_cryptoApiHelperRequests
<1>0. /\ "secrets" \in Queues /\ "crypto" \in Queues
      /\ m_requests \in [Queues -> Seq(RequestData)]
  BY DEF Queues, TypeOK
<1>a. /\ EnqueuingPending
      /\ Found(LS, LC, Jobs("secrets"), Jobs("crypto"), H)
      /\ Carrying(LS, LC, sent, replies)
  BY DEF Served, AllFound, AllCarried
<1>b. DistinctIds(LS) /\ DistinctIds(LC)
  BY <1>0, UniqueQueues
<1>c. UNCHANGED m_enqueuingRequests => EnqueuingPending'
  BY <1>a DEF EnqueuingPending
<1>d. \A q \in Queues : \A i : InProgressIn(Live(q), i) =>
         \A r \in m_enqueuingRequests[q] : r.id # i
  <2> SUFFICES ASSUME NEW q \in Queues, NEW i, InProgressIn(Live(q), i),
                      NEW r \in m_enqueuingRequests[q]
               PROVE  r.id # i
    OBVIOUS
  <2>1. r \in Live(q) /\ r.status = "Pending" /\ DistinctIds(Live(q))
    BY <1>a, UniqueQueues DEF Live, LiveIn, EnqueuingPending
  <2> QED BY <2>1 DEF InProgressIn, DistinctIds
<1>1. ASSUME NEW c \in Calls, NEW q \in Queues, HandleRequest(c, q)
      PROVE  Served' /\ PromiseStep
  BY <1>1, CallServed
<1>2. ASSUME NEW q \in Queues, FinishEnqueueRequest(q)
      PROVE  Served' /\ PromiseStep
  <2>0. UNCHANGED <<working, m_cryptoApiHelperRequests, sent, replies>>
    BY <1>2 DEF FinishEnqueueRequest
  <2>1. CASE UNCHANGED <<m_enqueuingRequests, m_requests>>
    BY <1>c, <2>0, <2>1, SameServed DEF Live
  <2>2. ASSUME NEW r \in m_enqueuingRequests[q],
               m_enqueuingRequests' = [m_enqueuingRequests EXCEPT ![q] = @ \ {r}],
               m_requests' = [m_requests EXCEPT ![q] = Listed(@, r)]
        PROVE  Served' /\ PromiseStep
    <3>1. /\ m_enqueuingRequests'[q] = m_enqueuingRequests[q] \ {r}
          /\ m_requests'[q] = Append(m_requests[q], r)
          /\ \A p \in Queues : p # q => /\ m_enqueuingRequests'[p] = m_enqueuingRequests[p]
                                        /\ m_requests'[p] = m_requests[p]
      BY <2>2 DEF TypeOK, Listed
    <3>2. EnqueuingPending'
      BY <1>a, <3>1 DEF EnqueuingPending
    <3>3. /\ m_enqueuingRequests[q] \in SUBSET RequestData
          /\ m_requests[q] \in Seq(RequestData)
      BY DEF TypeOK
    <3>4. Live(q)' = Live(q)
      BY <3>1, <3>3, LiveAppend DEF Live
    <3>5. \A p \in Queues : Live(p)' = Live(p)
      BY <3>1, <3>4 DEF Live
    <3> QED BY <2>0, <3>2, <3>5, SameServed
  <2> QED BY <1>2, <2>1, <2>2 DEF FinishEnqueueRequest
<1>3. ASSUME NEW q \in Queues, BeginPass(q) \/ SkipInProgress(q) \/ EndPass(q)
      PROVE  Served' /\ PromiseStep
  <2>1. UNCHANGED <<m_enqueuingRequests, m_requests, working,
                    m_cryptoApiHelperRequests, sent, replies>>
    BY <1>3 DEF BeginPass, SkipInProgress, EndPass
  <2> QED BY <1>c, <2>1, SameServed DEF Live
<1>e. ASSUME NEW s, s # "InProgress", At("secrets", s), NEW y, UNCHANGED sent,
             CompleteSecrets([m_requests EXCEPT !["secrets"] =
                                 Erase(m_requests["secrets"], pass.at)], y)
      PROVE  Served' /\ PromiseStep
  <2>1. /\ Served'
        /\ \/ UNCHANGED replies
           \/ /\ Current("secrets").call \in sent
              /\ replies[Current("secrets").call] = 0
              /\ replies' = [replies EXCEPT ![Current("secrets").call] = 1]
    BY <1>e, CompleteServed
  <2>2. sent \in SUBSET Calls
    BY DEF TypeOK
  <2>3. UNCHANGED replies => PromiseStep
    BY <1>e DEF PromiseStep
  <2> QED BY <1>e, <2>1, <2>2, <2>3, AnswerStep
<1>4. ASSUME SecretsPending
      PROVE  Served' /\ PromiseStep
  <2>0. At("secrets", "Pending") /\ UNCHANGED sent
    BY <1>4 DEF SecretsPending
  <2> DEFINE kept == SetStatus(m_requests["secrets"], pass.at, "InProgress")
             r == Current("secrets")
  <2>1. CASE /\ m_requests' = [m_requests EXCEPT !["secrets"] = kept]
             /\ working' = working \cup {<<"secrets", r.id>>}
             /\ UNCHANGED <<m_enqueuingRequests, replies, m_cryptoApiHelperRequests>>
    <3>1. Marked(LiveIn(m_enqueuingRequests["secrets"], kept), LS, r.id, "InProgress")
      BY <1>0, <2>0, StartedLive
    <3>2. r \in LS /\ r.id \in Ids
      BY <1>0, <2>0, ErasedLive, AtElement DEF RequestData
    <3>3. Jobs("secrets")' = Jobs("secrets") \cup {r.id} /\ Jobs("crypto")' = Jobs("crypto")
      BY <1>0, <2>1, <3>2, JobsChange
    <3> HIDE DEF kept
    <3>4. m_requests'["secrets"] = kept /\ m_requests'["crypto"] = m_requests["crypto"]
      BY <1>0, <2>1
    <3>5. Live("crypto")' = LC /\ Marked(Live("secrets")', LS, r.id, "InProgress")
      BY <2>1, <3>1, <3>4 DEF Live
    <3> HIDE DEF LS, LC, r
    <3>6. Found(Live("secrets")', LC, Jobs("secrets") \cup {r.id}, Jobs("crypto"), H)
      BY <1>a, <3>2, <3>5, FoundStartSecrets
    <3>7. Carrying(Live("secrets")', LC, sent, replies)
      BY <1>a, <3>5, CarryingMarked
    <3>8. Served'
      BY <1>c, <2>0, <2>1, <3>3, <3>5, <3>6, <3>7 DEF Served, AllFound, AllCarried
    <3> QED BY <2>0, <2>1, <3>8 DEF PromiseStep
  <2> QED BY <1>4, <1>e, <2>0, <2>1 DEF SecretsPending
<1>5. ASSUME SecretsFinished
      PROVE  Served' /\ PromiseStep
  BY <1>5, <1>e DEF SecretsFinished
<1>6. ASSUME CryptoPending
      PROVE  Served' /\ PromiseStep
  <2>0. At("crypto", "Pending") /\ UNCHANGED sent
    BY <1>6 DEF CryptoPending
  <2> DEFINE kept == SetStatus(m_requests["crypto"], pass.at, "InProgress")
             r == Current("crypto")
             MC == LiveIn(m_enqueuingRequests["crypto"], kept)
             rs == [m_requests EXCEPT !["crypto"] = kept]
  <2>1. Marked(MC, LC, r.id, "InProgress")
    BY <1>0, <2>0, StartedLive
  <2>2. r \in LC /\ r.status = "Pending" /\ r.id \in Ids
    BY <1>0, <2>0, ErasedLive, AtElement DEF RequestData
  <2> HIDE DEF kept
  <2>3. rs["crypto"] = kept /\ rs["secrets"] = m_requests["secrets"]
    BY <1>0
  <2>4. /\ LS = LiveIn(m_enqueuingRequests["secrets"], rs["secrets"])
        /\ MC = LiveIn(m_enqueuingRequests["crypto"], rs["crypto"])
    BY <2>3 DEF Live
  <2> HIDE DEF rs, MC, LS, LC, r
  <2>5. /\ FoundBut(LS, MC, Jobs("secrets"), Jobs("crypto"), H, r.id)
        /\ r.id \notin Jobs("crypto") /\ r.id \notin H
    BY <1>a, <1>b, <2>1, <2>2, FoundButAfterStart
  <2>6. Carrying(LS, MC, sent, replies)
    BY <1>a, <2>1, CarryingMarked
  <2>7. CASE /\ m_requests' = rs
             /\ working' = working \cup {<<"crypto", r.id>>}
             /\ UNCHANGED <<m_enqueuingRequests, replies, m_cryptoApiHelperRequests>>
    <3>1. Live("secrets")' = LS /\ Live("crypto")' = MC
      BY <2>4, <2>7 DEF Live
    <3>2. Jobs("crypto")' = Jobs("crypto") \cup {r.id} /\ Jobs("secrets")' = Jobs("secrets")
      BY <1>0, <2>2, <2>7, JobsChange
    <3>3. Found(LS, MC, Jobs("secrets"), Jobs("crypto") \cup {r.id}, H \ {r.id})
      BY <2>5, FoundJob
    <3>4. H \ {r.id} = H' /\ sent' = sent /\ replies' = replies
      BY <2>0, <2>5, <2>7
    <3>5. Served'
      BY <1>c, <2>6, <2>7, <3>1, <3>2, <3>3, <3>4 DEF Served, AllFound, AllCarried
    <3> QED BY <3>4, <3>5 DEF PromiseStep
  <2>8. ASSUME NEW y, StartHelper(r.id, rs, posted, y), H' = H \cup {r.id},
               UNCHANGED <<working, replies>>
        PROVE  Served' /\ PromiseStep
    <3>1. PICK h : /\ h.status = "Pending" /\ h.call = NoCall /\ h.cryptoRequestId = r.id
                   /\ EnqueuingPending'
                   /\ Live("secrets")' = LS \cup {h}
                   /\ Live("crypto")' = MC
      BY <1>a, <2>4, <2>8, HelperLive
    <3>2. Jobs("crypto")' = Jobs("crypto") \ {r.id} /\ Jobs("secrets")' = Jobs("secrets")
      BY <2>5, <2>8 DEF Jobs
    <3>3. Found(LS \cup {h}, MC, Jobs("secrets"), Jobs("crypto") \ {r.id}, H \cup {r.id})
      BY <2>5, <3>1, FoundHelper
    <3>4. sent \in SUBSET Calls /\ r.id # NoId /\ NoCall \notin Calls
      BY <2>2, NoCallAssumption, NumIdsAssumption DEF TypeOK, Ids, NoId
    <3>5. Carrying(LS \cup {h}, MC, sent, replies)
      BY <2>6, <3>1, <3>4, CarryingHelper
    <3>6. Served'
      BY <2>0, <2>8, <3>1, <3>2, <3>3, <3>5 DEF Served, AllFound, AllCarried
    <3> QED BY <2>0, <2>8, <3>6 DEF PromiseStep
  <2>9. CASE /\ m_requests' = [m_requests EXCEPT !["crypto"] =
                                  Erase(m_requests["crypto"], pass.at)]
             /\ Reply(Current("crypto").call)
             /\ UNCHANGED <<m_enqueuingRequests, working, m_cryptoApiHelperRequests>>
    BY <2>0, <2>9, AnsweredServed
  <2> QED BY <1>6, <2>7, <2>8, <2>9 DEF CryptoPending, rs, kept, r
<1>7. ASSUME CryptoFinished
      PROVE  Served' /\ PromiseStep
  <2>1. /\ At("crypto", "Finished")
        /\ m_requests' = [m_requests EXCEPT !["crypto"] =
                             Erase(m_requests["crypto"], pass.at)]
        /\ Reply(Current("crypto").call)
        /\ UNCHANGED <<m_enqueuingRequests, working, m_cryptoApiHelperRequests, sent>>
    BY <1>7 DEF CryptoFinished
  <2> QED BY <2>1, AnsweredServed
<1>8. ASSUME NEW i \in Ids, SecretsJobDone(i)
      PROVE  Served' /\ PromiseStep
  <2>1. /\ m_requests' = FinishedIn(m_requests, "secrets", i)
        /\ working' = working \ {<<"secrets", i>>} /\ i \in Jobs("secrets")
        /\ UNCHANGED <<m_enqueuingRequests, m_cryptoApiHelperRequests, sent, replies>>
    BY <1>8 DEF SecretsJobDone, Jobs
  <2>2. \A r \in m_enqueuingRequests["secrets"] : r.id # i
    <3>1. InProgressIn(Live("secrets"), i)
      BY <1>a, <2>1 DEF Found, JobsFound
    <3> QED BY <1>0, <1>d, <3>1
  <2>3. Marked(Live("secrets")', LS, i, "Finished")
    BY <1>0, <2>1, <2>2, LiveFinished DEF Live
  <2>4. m_requests'["crypto"] = m_requests["crypto"]
    <3>1. \A p \in Queues : p # "secrets" =>
             FinishedIn(m_requests, "secrets", i)[p] = m_requests[p]
      BY <1>0, FinishedInList
    <3> QED BY <1>0, <2>1, <3>1
  <2>5. Live("crypto")' = LC
    BY <2>1, <2>4 DEF Live
  <2>6. Jobs("secrets")' = Jobs("secrets") \ {i} /\ Jobs("crypto")' = Jobs("crypto")
    BY <1>0, <2>1, JobsChange
  <2> HIDE DEF LS, LC
  <2>7. Found(Live("secrets")', LC, Jobs("secrets") \ {i}, Jobs("crypto"), H)
    BY <1>a, <2>3, FoundEndSecrets
  <2>8. Carrying(Live("secrets")', LC, sent, replies)
    BY <1>a, <2>3, CarryingMarked
  <2>9. Served'
    BY <1>c, <2>1, <2>5, <2>6, <2>7, <2>8 DEF Served, AllFound, AllCarried
  <2> QED BY <2>1, <2>9 DEF PromiseStep
<1>9. ASSUME NEW i \in Ids, CryptoJobDone(i)
      PROVE  Served' /\ PromiseStep
  <2>1. /\ Resume(i, m_requests, posted, << >>, FALSE) /\ i \in Jobs("crypto")
        /\ UNCHANGED <<sent, replies>>
    BY <1>9 DEF CryptoJobDone, Jobs
  <2>2. FoundBut(LS, LC, Jobs("secrets"), Jobs("crypto"), H, i)
    BY <1>a, <2>1, FoundButAfterJob
  <2>3. \A r \in m_enqueuingRequests["crypto"] : r.id # i
    <3>1. InProgressIn(Live("crypto"), i)
      BY <1>a, <2>1 DEF Found, JobsFound
    <3> QED BY <1>0, <1>d, <3>1
  <2>4. /\ LS = LiveIn(m_enqueuingRequests["secrets"], m_requests["secrets"])
        /\ LC = LiveIn(m_enqueuingRequests["crypto"], m_requests["crypto"])
    BY DEF Live
  <2> HIDE DEF LS, LC
  <2>5. Served'
    BY <1>0, <1>a, <2>1, <2>2, <2>3, <2>4, ResumeServed
  <2> QED BY <2>1, <2>5 DEF PromiseStep
<1>10. CASE UNCHANGED vars
  BY <1>c, <1>10, SameServed DEF vars, Live
<1> QED
  BY <1>1, <1>2, <1>3, <1>4, <1>5, <1>6, <1>7, <1>8, <1>9, <1>10
     DEF Next, EventLoop, Handler

\* Initially nothing is live, nothing runs and nothing is due.
LEMMA ServedInit == Init => Served
<1> SUFFICES ASSUME Init PROVE Served
  OBVIOUS
<1>1. "secrets" \in Queues /\ "crypto" \in Queues
  BY DEF Queues
<1>2. \A q \in Queues : m_enqueuingRequests[q] = {} /\ m_requests[q] = << >>
  BY DEF Init
<1>3. \A q \in Queues : Live(q) = {}
  BY <1>2, EmptySeq DEF Live, LiveIn
<1>4. Jobs("secrets") = {} /\ Jobs("crypto") = {}
  BY DEF Init, Jobs
<1>5. EnqueuingPending
  BY <1>2 DEF EnqueuingPending
<1>6. Found({}, {}, {}, {}, {})
  BY DEF Found, JobsFound, HelpersFound, HelpersKnown, OneHelper, SecretsDriven,
         CryptoDriven
<1>7. Carrying({}, {}, {}, replies)
  BY DEF Init, Carrying, Kinds, Due, OneCarrier, Carried, NotBefore
<1>8. m_cryptoApiHelperRequests = {} /\ sent = {}
  BY DEF Init
<1> QED BY <1>1, <1>3, <1>4, <1>5, <1>6, <1>7, <1>8 DEF Served, AllFound, AllCarried

\* The conjunction that is inductive.
QueueInv == TypeOK /\ IdsUnique /\ Served

\* It holds at first, and every step keeps it.
LEMMA QueueInvInductive ==
    /\ Init => QueueInv
    /\ QueueInv /\ [Next]_vars => QueueInv' /\ PromiseStep
<1>1. Init => IdsUnique
  BY DEF Init, IdsUnique, HasId
<1> QED BY <1>1, TypeInit, ServedInit, TypeStep, UniqueStep, ServedStep DEF QueueInv

\* So it holds in every state.
LEMMA QueueInvAlways == Spec => []QueueInv
BY QueueInvInductive, PTL DEF Spec

\* A callback always finds its request, for any number of calls, identifiers
\* and helper requests: the request of a running job is listed and in progress,
\* so is a crypto request that has a helper, and no helper request outlives the
\* crypto request it works for.
THEOREM CallbacksAlwaysFind == Spec => []CallbacksFindRequest
<1>1. QueueInv => CallbacksFindRequest
  <2> SUFFICES ASSUME QueueInv PROVE CallbacksFindRequest
    OBVIOUS
  <2>0. "secrets" \in Queues /\ "crypto" \in Queues
    BY DEF Queues
  <2>1. Found(Live("secrets"), Live("crypto"), Jobs("secrets"), Jobs("crypto"),
              m_cryptoApiHelperRequests)
    BY DEF QueueInv, Served, AllFound
  <2>2. \A q \in Queues : \A i : InProgressIn(Live(q), i) => Waits(q, i)
    BY DEF QueueInv, Served, EnqueuingPending, InProgressIn, Live, LiveIn, Waits
  <2>3. ASSUME NEW w \in working
        PROVE  Waits(w[1], w[2])
    <3>1. w[1] \in Queues /\ w[2] \in Ids /\ w = <<w[1], w[2]>>
      BY DEF QueueInv, TypeOK
    <3>2. w[2] \in Jobs(w[1])
      BY <3>1 DEF Jobs
    <3>3. \A q \in Queues : \A i \in Jobs(q) : InProgressIn(Live(q), i)
      BY <2>1 DEF Found, JobsFound, Queues
    <3> QED BY <2>2, <3>1, <3>2, <3>3
  <2>4. ASSUME NEW cid \in m_cryptoApiHelperRequests
        PROVE  Waits("crypto", cid) /\ <<"crypto", cid>> \notin working
    <3>1. cid \in Ids /\ InProgressIn(Live("crypto"), cid) /\ cid \notin Jobs("crypto")
      BY <2>1 DEF QueueInv, TypeOK, Found, HelpersFound
    <3> QED BY <2>0, <2>2, <3>1 DEF Jobs
  <2>5. \A r \in Live("secrets") :
           r.cryptoRequestId # NoId => r.cryptoRequestId \in m_cryptoApiHelperRequests
    BY <2>1 DEF Found, HelpersKnown
  <2> QED BY <2>3, <2>4, <2>5 DEF CallbacksFindRequest, Live, LiveIn
<1> QED BY <1>1, QueueInvAlways, PTL

\* Nobody waits for an event that cannot come, for any number of calls,
\* identifiers and helper requests: a request in progress has a job running or a
\* helper request in the secrets queue.
THEOREM InProgressAlwaysDriven == Spec => []InProgressIsDriven
<1>1. QueueInv => InProgressIsDriven
  <2> SUFFICES ASSUME QueueInv, NEW q \in Queues, NEW n \in DOMAIN m_requests[q],
                      m_requests[q][n].status = "InProgress"
               PROVE  LET i == m_requests[q][n].id IN
                      \/ <<q, i>> \in working
                      \/ /\ q = "crypto"
                         /\ i \in m_cryptoApiHelperRequests
                         /\ \/ \E r \in m_enqueuingRequests["secrets"] : IsHelperOf(r, i)
                            \/ \E m \in DOMAIN m_requests["secrets"] :
                                  IsHelperOf(m_requests["secrets"][m], i)
    BY DEF InProgressIsDriven
  <2> DEFINE r == m_requests[q][n]
  <2>1. r \in Live(q) /\ r.status = "InProgress"
    BY DEF Live, LiveIn
  <2>2. /\ SecretsDriven(Live("secrets"), Jobs("secrets"))
        /\ CryptoDriven(Live("secrets"), Live("crypto"), Jobs("crypto"),
                        m_cryptoApiHelperRequests)
    BY DEF QueueInv, Served, AllFound, Found
  <2>3. \A s \in Live("secrets") : s.cryptoRequestId = r.id =>
           \/ \E e \in m_enqueuingRequests["secrets"] : IsHelperOf(e, r.id)
           \/ \E m \in DOMAIN m_requests["secrets"] :
                 IsHelperOf(m_requests["secrets"][m], r.id)
    BY DEF Live, LiveIn, IsHelperOf
  <2> HIDE DEF r
  <2>4. CASE q = "secrets"
    BY <2>1, <2>2, <2>4 DEF SecretsDriven, Jobs, r
  <2>5. CASE q = "crypto"
    BY <2>1, <2>2, <2>3, <2>5 DEF CryptoDriven, Driven, Jobs, r
  <2> QED BY <2>4, <2>5 DEF Queues
<1> QED BY <1>1, QueueInvAlways, PTL

\* No call is lost, for any number of calls, identifiers and helper requests:
\* while its reply is due, a request of some queue carries it.
THEOREM CallNeverLost == Spec => []NoCallLost
<1>1. QueueInv => NoCallLost
  <2> SUFFICES ASSUME QueueInv, NEW c \in sent, replies[c] = 0
               PROVE  \E q \in Queues :
                         \/ \E r \in m_enqueuingRequests[q] : r.call = c
                         \/ \E n \in DOMAIN m_requests[q] : m_requests[q][n].call = c
    BY DEF NoCallLost
  <2>1. PICK r \in Live("secrets") \cup Live("crypto") : r.call = c
    BY DEF QueueInv, Served, AllCarried, Carrying, Carried
  <2>2. PICK q \in Queues : r \in Live(q)
    BY <2>1 DEF Queues
  <2> QED BY <2>1, <2>2 DEF Live, LiveIn
<1> QED BY <1>1, QueueInvAlways, PTL

\* The queues implement AnsweredCalls: every step is one of its steps or leaves
\* calls and replies alone, so a call is answered once and never before it was
\* made, for any number of calls, identifiers and helper requests.
THEOREM QueuesAnswerOnce == Spec => AnswersOnce
<1>1. Init => Promise!AInit
  BY DEF Init, Promise!AInit
<1>2. QueueInv /\ [Next]_vars => [Promise!ANext]_(Promise!avars)
  BY QueueInvInductive DEF PromiseStep, Promise!avars
<1> QED BY <1>1, <1>2, QueueInvAlways, PTL DEF Spec, AnswersOnce, Promise!ASpec
-----------------------------------------------------------------------------
(* Requests are started in order. *)

Ordered(list) ==
    \A m, n \in DOMAIN list :
        m < n /\ list[m].status = "Pending" => list[n].status = "Pending"

\* What a pass has gone past is started.
Behind(list, k) == \A n \in DOMAIN list : n < k => list[n].status # "Pending"

BehindPass == \A q \in Queues : pass.queue = q => Behind(m_requests[q], pass.at)

InOrder == (\A q \in Queues : Ordered(m_requests[q])) /\ BehindPass

\* A new request is put behind the others.
LEMMA OrderedAppend ==
    ASSUME NEW list \in Seq(RequestData), Ordered(list),
           NEW r \in RequestData, r.status = "Pending"
    PROVE  Ordered(Append(list, r))
<1> DEFINE new == Append(list, r)
<1>1. /\ DOMAIN list = 1 .. Len(list) /\ Len(list) \in Nat
      /\ DOMAIN new = 1 .. Len(list) + 1
      /\ new[Len(list) + 1] = r
      /\ \A m \in 1 .. Len(list) : new[m] = list[m]
  BY AppendProperties
<1> HIDE DEF new
<1>2. Ordered(new)
  BY <1>1 DEF Ordered
<1> QED BY <1>2 DEF new

\* Erasing a request moves none past another.
LEMMA OrderedErase ==
    ASSUME NEW list \in Seq(RequestData), Ordered(list), NEW n \in DOMAIN list,
           Behind(list, n)
    PROVE  Ordered(Erase(list, n)) /\ Behind(Erase(list, n), n)
<1> DEFINE e == Erase(list, n)
           at(m) == IF m < n THEN m ELSE m + 1
<1>1. /\ DOMAIN list = 1 .. Len(list) /\ Len(list) \in Nat
      /\ DOMAIN e = 1 .. Len(list) - 1
      /\ \A m \in 1 .. Len(list) - 1 : e[m] = IF m < n THEN list[m] ELSE list[m + 1]
  BY EraseList
<1> HIDE DEF e
<1>2. \A m \in DOMAIN e : at(m) \in DOMAIN list /\ e[m] = list[at(m)]
  BY <1>1
<1>3. \A l, m \in DOMAIN e : l < m => at(l) < at(m)
  BY <1>1
<1>4. \A m \in DOMAIN e : m < n => at(m) < n
  BY <1>1
<1> HIDE DEF at
<1>5. Ordered(e) /\ Behind(e, n)
  BY <1>2, <1>3, <1>4 DEF Ordered, Behind
<1> QED BY <1>5 DEF e

\* The request a pass is at is the first that is not started.
LEMMA OrderedStart ==
    ASSUME NEW list \in Seq(RequestData), Ordered(list), NEW n \in DOMAIN list,
           Behind(list, n)
    PROVE  LET e == SetStatus(list, n, "InProgress")
           IN  Ordered(e) /\ Behind(e, n + 1)
<1> DEFINE e == SetStatus(list, n, "InProgress")
<1>0. "InProgress" \in RequestStatus
  BY DEF RequestStatus
<1>1. DOMAIN e = DOMAIN list
  BY <1>0, SetStatusList
<1>2. \A m \in DOMAIN list : e[m].status = IF m = n THEN "InProgress" ELSE list[m].status
  BY <1>0, SetStatusList
<1>3. DOMAIN list = 1 .. Len(list) /\ Len(list) \in Nat
  OBVIOUS
<1> HIDE DEF e
<1>4. Ordered(e) /\ Behind(e, n + 1)
  BY <1>1, <1>2, <1>3 DEF Ordered, Behind
<1> QED BY <1>4 DEF e

\* Only a started request is finished.
LEMMA OrderedFinished ==
    ASSUME NEW rs \in [Queues -> Seq(RequestData)], NEW q \in Queues, NEW i \in Ids,
           Ordered(rs[q]), \A n \in DOMAIN rs[q] : rs[q][n].id = i =>
                               rs[q][n].status # "Pending"
    PROVE  Ordered(FinishedIn(rs, q, i)[q])
<1> DEFINE e == FinishedIn(rs, q, i)[q]
<1>1. DOMAIN e = DOMAIN rs[q]
  BY FinishedInDomain
<1>2. \A m \in DOMAIN rs[q] : e[m].status =
         IF rs[q][m].id = i THEN "Finished" ELSE rs[q][m].status
  BY FinishedInList
<1> HIDE DEF e
<1>3. Ordered(e)
  BY <1>1, <1>2 DEF Ordered
<1> QED BY <1>3 DEF e

\* A request in progress is the only one with its identifier.
LEMMA WaitingNotPending ==
    ASSUME IdsUnique, NEW q \in Queues, NEW i, InProgressIn(Live(q), i),
           NEW n \in DOMAIN m_requests[q], m_requests[q][n].id = i
    PROVE  m_requests[q][n].status # "Pending"
<1>1. DistinctIds(Live(q)) /\ m_requests[q][n] \in Live(q)
  BY UniqueQueues DEF Live, LiveIn
<1> QED BY <1>1 DEF DistinctIds, InProgressIn

\* A pass that has dealt with a request of its list goes on behind it, or ends.
LEMMA AdvanceInOrder ==
    ASSUME NEW q \in Queues, NEW next, NEW list, NEW y, Advance(q, next, list, y),
           Behind(list, next), m_requests'[q] = list,
           \A p \in Queues : Ordered(m_requests'[p])
    PROVE  InOrder'
<1>1. CASE pass' = PassAt(q, next)
  BY <1>1 DEF InOrder, BehindPass, PassAt
<1>2. CASE pass' = NoPass
  BY <1>2 DEF InOrder, BehindPass, NoPass, Queues
<1> QED BY <1>1, <1>2 DEF Advance

\* Whatever the Crypto processor decides, the lists stay in order.
LEMMA ResumeInOrder ==
    ASSUME IdsUnique, NEW cid \in Ids, InProgressIn(Live("crypto"), cid),
           NEW rs \in [Queues -> Seq(RequestData)], rs["crypto"] = m_requests["crypto"],
           \A q \in Queues : Ordered(rs[q]),
           NEW evs, NEW y, NEW withJob, Resume(cid, rs, evs, y, withJob)
    PROVE  /\ \A q \in Queues : Ordered(m_requests'[q])
           /\ m_requests'["secrets"] = rs["secrets"]
<1>0. "secrets" \in Queues /\ "crypto" \in Queues
  BY DEF Queues
<1>1. CASE m_requests' = FinishedIn(rs, "crypto", cid)
  <2>1. \A p \in Queues : p # "crypto" => FinishedIn(rs, "crypto", cid)[p] = rs[p]
    BY <1>0, FinishedInList
  <2>2. Ordered(FinishedIn(rs, "crypto", cid)["crypto"])
    BY <1>0, WaitingNotPending, OrderedFinished
  <2> QED BY <1>0, <1>1, <2>1, <2>2 DEF Queues
<1>2. CASE m_requests' = rs
  BY <1>2
<1> QED BY <1>1, <1>2 DEF Resume, StartHelper

\* Every step keeps the lists in order.
THEOREM InOrderStep == QueueInv /\ InOrder /\ [Next]_vars => InOrder'
<1> SUFFICES ASSUME QueueInv, InOrder, [Next]_vars PROVE InOrder'
  OBVIOUS
<1>0. /\ "secrets" \in Queues /\ "crypto" \in Queues
      /\ m_requests \in [Queues -> Seq(RequestData)]
      /\ TypeOK /\ IdsUnique /\ EnqueuingPending
  BY DEF QueueInv, Served, TypeOK, Queues
<1>a. /\ \A i \in m_cryptoApiHelperRequests : InProgressIn(Live("crypto"), i)
      /\ \A i \in Jobs("secrets") : InProgressIn(Live("secrets"), i)
      /\ \A i \in Jobs("crypto") : InProgressIn(Live("crypto"), i)
  BY DEF QueueInv, Served, AllFound, Found, JobsFound, HelpersFound
<1>b. Idle => \A q \in Queues : pass.queue # q
  BY DEF Idle, NoPass, Queues
<1>c. ASSUME NEW q \in Queues, NEW s, At(q, s)
      PROVE  /\ pass.at \in DOMAIN m_requests[q] /\ m_requests[q] \in Seq(RequestData)
             /\ Ordered(m_requests[q]) /\ Behind(m_requests[q], pass.at)
             /\ \A list : [m_requests EXCEPT ![q] = list][q] = list
             /\ \A list, p \in Queues : p # q =>
                   [m_requests EXCEPT ![q] = list][p] = m_requests[p]
  <2>1. pass.at \in DOMAIN m_requests[q] /\ pass.queue = q
    BY <1>c DEF At
  <2> QED BY <1>0, <2>1 DEF InOrder, BehindPass
<1>1. CASE UNCHANGED <<m_requests, pass>>
  BY <1>1 DEF InOrder, BehindPass
<1>2. ASSUME NEW q \in Queues, FinishEnqueueRequest(q)
      PROVE  InOrder'
  <2>1. UNCHANGED pass /\ Idle
    BY <1>2 DEF FinishEnqueueRequest
  <2>2. ASSUME NEW r \in m_enqueuingRequests[q],
               m_requests' = [m_requests EXCEPT ![q] = Listed(@, r)]
        PROVE  InOrder'
    <3>1. r \in RequestData /\ r.status = "Pending" /\ Ordered(m_requests[q])
      BY <1>0 DEF TypeOK, EnqueuingPending, InOrder
    <3>2. Ordered(Append(m_requests[q], r))
      BY <1>0, <3>1, OrderedAppend
    <3>3. \A p \in Queues : m_requests'[p] =
             IF p = q THEN Append(m_requests[q], r) ELSE m_requests[p]
      BY <1>0, <2>2 DEF Listed
    <3>4. \A p \in Queues : Ordered(m_requests'[p])
      BY <3>2, <3>3 DEF InOrder
    <3> QED BY <1>b, <2>1, <3>4 DEF InOrder, BehindPass
  <2> QED BY <1>1, <1>2, <2>1, <2>2 DEF FinishEnqueueRequest
<1>3. ASSUME NEW q \in Queues, BeginPass(q)
      PROVE  InOrder'
  <2>1. UNCHANGED m_requests /\ pass' = PassAt(q, 1)
    BY <1>3 DEF BeginPass
  <2>2. DOMAIN m_requests[q] = 1 .. Len(m_requests[q]) /\ Len(m_requests[q]) \in Nat
    BY <1>0
  <2>3. Behind(m_requests[q], 1)
    BY <2>2 DEF Behind
  <2> QED BY <2>1, <2>3 DEF InOrder, BehindPass, PassAt
<1>4. ASSUME NEW q \in Queues, SkipInProgress(q)
      PROVE  InOrder'
  <2>1. At(q, "InProgress") /\ UNCHANGED m_requests
    BY <1>4 DEF SkipInProgress
  <2>2. PICK y : Advance(q, pass.at + 1, m_requests[q], y)
    BY <1>4 DEF SkipInProgress
  <2>3. m_requests[q][pass.at].status = "InProgress"
    BY <2>1 DEF At
  <2>4. DOMAIN m_requests[q] = 1 .. Len(m_requests[q]) /\ Len(m_requests[q]) \in Nat
    BY <1>0
  <2>5. Behind(m_requests[q], pass.at) /\ pass.at \in DOMAIN m_requests[q]
    BY <1>c, <2>1
  <2>6. Behind(m_requests[q], pass.at + 1)
    BY <2>3, <2>4, <2>5 DEF Behind
  <2> QED BY <2>1, <2>2, <2>6, AdvanceInOrder DEF InOrder
<1>5. ASSUME NEW q \in Queues, EndPass(q)
      PROVE  InOrder'
  BY <1>5 DEF EndPass, InOrder, BehindPass, NoPass, Queues
<1>k. ASSUME NEW q \in Queues, At(q, "Pending"), NEW y,
             Advance(q, pass.at + 1, SetStatus(m_requests[q], pass.at, "InProgress"), y),
             m_requests' = [m_requests EXCEPT ![q] =
                               SetStatus(m_requests[q], pass.at, "InProgress")]
      PROVE  InOrder'
  <2> DEFINE kept == SetStatus(m_requests[q], pass.at, "InProgress")
  <2>1. Ordered(kept) /\ Behind(kept, pass.at + 1)
    BY <1>c, <1>k, OrderedStart
  <2> HIDE DEF kept
  <2>2. m_requests' = [m_requests EXCEPT ![q] = kept]
    BY <1>k DEF kept
  <2>3. m_requests'[q] = kept /\ \A p \in Queues : p # q => m_requests'[p] = m_requests[p]
    BY <1>0, <2>2
  <2>4. \A p \in Queues : Ordered(m_requests'[p])
    BY <2>1, <2>3 DEF InOrder
  <2> QED BY <1>k, <2>1, <2>3, <2>4, AdvanceInOrder DEF kept
<1>e. ASSUME NEW q \in Queues, NEW s, At(q, s), NEW y,
             Advance(q, pass.at, Erase(m_requests[q], pass.at), y),
             \/ m_requests' = [m_requests EXCEPT ![q] = Erase(m_requests[q], pass.at)]
             \/ /\ q = "secrets"
                /\ CompleteSecrets([m_requests EXCEPT ![q] =
                                       Erase(m_requests[q], pass.at)], y)
      PROVE  InOrder'
  <2> DEFINE rest == Erase(m_requests[q], pass.at)
             rs == [m_requests EXCEPT ![q] = rest]
  <2>1. Ordered(rest) /\ Behind(rest, pass.at) /\ rest \in Seq(RequestData)
    BY <1>c, <1>e, OrderedErase, EraseList
  <2>2. rs = [m_requests EXCEPT ![q] = Erase(m_requests[q], pass.at)]
    OBVIOUS
  <2> HIDE DEF rest
  <2>3. /\ rs \in [Queues -> Seq(RequestData)] /\ rs[q] = rest
        /\ \A p \in Queues : p # q => rs[p] = m_requests[p]
    BY <1>0, <2>1
  <2> HIDE DEF rs
  <2>4. \A p \in Queues : Ordered(rs[p])
    BY <2>1, <2>3 DEF InOrder
  <2>5. (\A p \in Queues : Ordered(m_requests'[p])) /\ m_requests'[q] = rest
    <3>1. CASE m_requests' = rs
      BY <2>3, <2>4, <3>1
    <3>2. ASSUME q = "secrets", NEW cid \in m_cryptoApiHelperRequests,
                 Resume(cid, rs, posted, y, TRUE)
          PROVE  (\A p \in Queues : Ordered(m_requests'[p])) /\ m_requests'[q] = rest
      <4>1. cid \in Ids /\ InProgressIn(Live("crypto"), cid)
        BY <1>0, <1>a DEF TypeOK
      <4>2. rs["crypto"] = m_requests["crypto"]
        BY <1>0, <2>3, <3>2
      <4>3. /\ \A p \in Queues : Ordered(m_requests'[p])
            /\ m_requests'["secrets"] = rs["secrets"]
        BY <1>0, <2>3, <2>4, <3>2, <4>1, <4>2, ResumeInOrder
      <4> QED BY <2>3, <3>2, <4>3
    <3> QED BY <1>e, <2>2, <3>1, <3>2 DEF CompleteSecrets
  <2> QED BY <1>e, <2>1, <2>5, AdvanceInOrder DEF rest
<1>6. ASSUME SecretsPending
      PROVE  InOrder'
  <2>1. At("secrets", "Pending")
    BY <1>6 DEF SecretsPending
  <2> QED BY <1>0, <1>6, <1>e, <1>k, <2>1 DEF SecretsPending
<1>7. ASSUME SecretsFinished
      PROVE  InOrder'
  BY <1>0, <1>7, <1>e DEF SecretsFinished
<1>8. ASSUME CryptoPending
      PROVE  InOrder'
  <2>1. At("crypto", "Pending")
    BY <1>8 DEF CryptoPending
  <2> QED BY <1>0, <1>8, <1>e, <1>k, <2>1 DEF CryptoPending, StartHelper
<1>9. ASSUME CryptoFinished
      PROVE  InOrder'
  BY <1>0, <1>9, <1>e DEF CryptoFinished
<1>10. ASSUME NEW i \in Ids, SecretsJobDone(i)
       PROVE  InOrder'
  <2>1. /\ m_requests' = FinishedIn(m_requests, "secrets", i) /\ UNCHANGED pass
        /\ Idle /\ i \in Jobs("secrets")
    BY <1>10 DEF SecretsJobDone, Jobs
  <2>2. Ordered(FinishedIn(m_requests, "secrets", i)["secrets"])
    BY <1>0, <1>a, <2>1, WaitingNotPending, OrderedFinished DEF InOrder
  <2>3. \A p \in Queues : p # "secrets" =>
           FinishedIn(m_requests, "secrets", i)[p] = m_requests[p]
    BY <1>0, FinishedInList
  <2>4. \A p \in Queues : Ordered(m_requests'[p])
    BY <2>1, <2>2, <2>3 DEF InOrder
  <2> QED BY <1>b, <2>1, <2>4 DEF InOrder, BehindPass
<1>11. ASSUME NEW i \in Ids, CryptoJobDone(i)
       PROVE  InOrder'
  <2>1. /\ Resume(i, m_requests, posted, << >>, FALSE) /\ UNCHANGED pass
        /\ Idle /\ i \in Jobs("crypto")
    BY <1>11 DEF CryptoJobDone, Jobs
  <2>2. \A p \in Queues : Ordered(m_requests'[p])
    BY <1>0, <1>a, <2>1, ResumeInOrder DEF InOrder
  <2> QED BY <1>b, <2>1, <2>2 DEF InOrder, BehindPass
<1>12. ASSUME NEW c \in Calls, NEW q \in Queues, HandleRequest(c, q)
       PROVE  InOrder'
  BY <1>1, <1>12 DEF HandleRequest, RefuseUnknownPeer, RefuseQueueFull, EnqueueRequest
<1>13. CASE UNCHANGED vars
  BY <1>1, <1>13 DEF vars
<1> QED
  BY <1>2, <1>3, <1>4, <1>5, <1>6, <1>7, <1>8, <1>9, <1>10, <1>11, <1>12, <1>13
     DEF Next, EventLoop, Handler

\* Requests are started in the order they were listed, for any number of calls,
\* identifiers and helper requests, whatever passes yielded between: the current
\* pass has left nothing behind it that was not started.
THEOREM AlwaysStartedInOrder == Spec => []StartedInOrder
<1>1. Init => InOrder
  BY DEF Init, InOrder, Ordered, BehindPass, Behind
<1>2. InOrder => StartedInOrder
  BY DEF InOrder, Ordered, StartedInOrder
<1> QED BY <1>1, <1>2, QueueInvAlways, InOrderStep, PTL DEF Spec
=============================================================================
