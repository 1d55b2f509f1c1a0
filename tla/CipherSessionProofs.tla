------------------------- MODULE CipherSessionProofs -------------------------
(***************************************************************************)
(* Proofs about CipherSession: for any number of request objects,          *)
(* processes, tokens, calls and faults.                                    *)
(***************************************************************************)
EXTENDS CipherSession, TLAPS
-----------------------------------------------------------------------------
(* The inductive invariant. *)

Call == [request : CipherRequests, mode : Modes, plugin : PluginNames,
         token : {0} \cup Tokens, session : Nat,
         answer : {"none", "checking", "Succeeded", "Failed"}, given : {0} \cup Tokens,
         reply : {"none", "answer", "mismatch", "lost"}]

Events == [kind : {"finished", "deleteLater"}, call : Nat]

\* The shapes of the variables the other parts speak of.
TypedClient ==
    /\ process \in [CipherRequests -> Processes]
    /\ m_cipherMode \in [CipherRequests -> Modes]
    /\ m_cryptoPluginName \in [CipherRequests -> PluginNames]
    /\ m_status \in [CipherRequests -> {"Inactive", "Active", "Finished"}]
    /\ m_result \in [CipherRequests -> {"Pending", "Succeeded", "Failed"}]
    /\ m_cipherSessionToken \in [CipherRequests -> {0} \cup Tokens]
    /\ m_watcherQueue \in [CipherRequests -> Seq(Nat)]
    /\ DOMAIN m_completedHash = CipherRequests
    /\ events \in [Processes -> Seq(Events)]
    /\ astray \subseteq CipherRequests /\ misfired \subseteq CipherRequests
    /\ taking \subseteq CipherRequests

TypedDaemon ==
    /\ calls \in Seq(Call)
    /\ m_requests \in Seq(Nat) /\ pool \in Seq(Nat)
    /\ m_cipherSessions \in [Processes -> [Tokens -> Nat]]

\* How many calls have left the crypto queue: calls leave it in their order.
Handled == Len(calls) - Len(m_requests)

QueueInOrder ==
    /\ Handled >= 0
    /\ \A i \in DOMAIN m_requests : m_requests[i] = Handled + i

\* A call is in the pool once, not in the queue, and for a plugin there is.  The
\* calls on a session reach the thread in the order they were made in.
PoolInOrder ==
    /\ \A i \in DOMAIN pool : /\ pool[i] \in 1 .. Handled /\ calls[pool[i]].answer = "none"
                              /\ calls[pool[i]].plugin \in m_cryptoPlugins
    /\ \A i, j \in DOMAIN pool :
        i < j => /\ pool[i] # pool[j]
                 /\ \/ calls[pool[i]].mode = "InitializeCipher"
                    \/ calls[pool[j]].mode = "InitializeCipher"
                    \/ pool[i] < pool[j]

\* What has not been answered is in the queue, in the pool or with the secrets
\* queue, and what has been answered has been replied to.
Accounted ==
    \A c \in DOMAIN calls :
        /\ c > Handled => calls[c].answer = "none"
        /\ c <= Handled /\ calls[c].answer = "none" => \E i \in DOMAIN pool : pool[i] = c
        /\ calls[c].answer = "checking" => calls[c].mode = "InitializeCipher"
        /\ calls[c].answer = "checking" => calls[c].plugin \in m_cryptoPlugins
        /\ calls[c].reply = "none" => calls[c].answer \in {"none", "checking"}
        /\ calls[c].reply \in {"answer", "mismatch"} => calls[c].answer \in {"Succeeded", "Failed"}

Pipeline == QueueInOrder /\ PoolInOrder /\ Accounted

\* The calls a request object waits for are its own, in the order they were made
\* in; an initialization is waited for alone, and without a token.
Waiting ==
    \A r \in CipherRequests :
        /\ \A i \in DOMAIN m_watcherQueue[r] :
            /\ m_watcherQueue[r][i] \in DOMAIN calls
            /\ calls[m_watcherQueue[r][i]].request = r
            /\ calls[m_watcherQueue[r][i]].mode = "InitializeCipher" =>
                Len(m_watcherQueue[r]) = 1 /\ m_cipherSessionToken[r] = 0
        /\ \A i, j \in DOMAIN m_watcherQueue[r] :
            i < j => m_watcherQueue[r][i] < m_watcherQueue[r][j]

\* A request whose watchers have taken their own replies, and whose sends have not
\* failed with calls under way nor overtaken each other.
Regular(r) == r \notin misfired \cup disordered

\* It is active while it waits, for calls of the mode and the plugin it has.
Alike ==
    \A r \in CipherRequests : Regular(r) =>
        \A i \in DOMAIN m_watcherQueue[r] :
            /\ m_status[r] = "Active"
            /\ calls[m_watcherQueue[r][i]].mode = m_cipherMode[r]
            /\ calls[m_watcherQueue[r][i]].plugin = m_cryptoPluginName[r]

\* The event loop of a process has signals of calls of that process, each once
\* and after the reply.
Signals ==
    /\ watchers \subseteq DOMAIN calls
    /\ \A p \in Processes : \A k \in DOMAIN events[p] :
        /\ events[p][k].call \in DOMAIN calls
        /\ ProcessOf(events[p][k].call) = p
        /\ events[p][k].kind = "finished" =>
            /\ calls[events[p][k].call].reply # "none"
            /\ \A l \in DOMAIN events[p] : events[p][l] = events[p][k] => l = k

\* What is completed is a call of UpdateCipher that has a reply.  The loop of the
\* lambda goes on as long as the head of the queue is completed.
Completed ==
    \A r \in CipherRequests :
        /\ \A c \in m_completedHash[r] : /\ c \in DOMAIN calls /\ calls[c].mode = "UpdateCipher"
                                         /\ calls[c].reply # "none"
        /\ r \in taking => /\ m_watcherQueue[r] # <<>>
                           /\ m_watcherQueue[r][1] \in m_completedHash[r]
                           /\ process[r] \notin crashed
        /\ /\ Regular(r) /\ process[r] \notin crashed
           /\ m_watcherQueue[r] # <<>> /\ m_watcherQueue[r][1] \in m_completedHash[r]
           => r \in taking

\* The watcher of a call that is waited for is there, nobody has told it to
\* delete itself, and once the call is answered it is completed or the event loop
\* has its signal, ...
Served ==
    \A r \in CipherRequests : Regular(r) /\ process[r] \notin crashed =>
        \A i \in DOMAIN m_watcherQueue[r] :
            /\ m_watcherQueue[r][i] \in watchers
            /\ \A k \in DOMAIN events[process[r]] :
                events[process[r]][k] # Event("deleteLater", m_watcherQueue[r][i])
            /\ calls[m_watcherQueue[r][i]].reply # "none" =>
                \/ m_watcherQueue[r][i] \in m_completedHash[r]
                \/ \E k \in DOMAIN events[process[r]] :
                    events[process[r]][k] = Event("finished", m_watcherQueue[r][i])

\* ... after those of the calls before it.
InTurn ==
    \A r \in CipherRequests : Regular(r) /\ process[r] \notin crashed =>
        \A i, j \in DOMAIN m_watcherQueue[r], k \in DOMAIN events[process[r]] :
            i < j /\ events[process[r]][k] = Event("finished", m_watcherQueue[r][j]) =>
                \/ m_watcherQueue[r][i] \in m_completedHash[r]
                \/ \E l \in DOMAIN events[process[r]] :
                    /\ l < k
                    /\ events[process[r]][l] = Event("finished", m_watcherQueue[r][i])

\* A request that has not initialized with calls under way, and is regular, has no
\* other watchers than the ones in its queue.
NoStrayWatcher ==
    \A c \in watchers : \/ calls[c].request \in restarted \cup disordered
                        \/ \E i \in DOMAIN m_watcherQueue[calls[c].request] :
                              m_watcherQueue[calls[c].request][i] = c

\* The sessions of a process.
Sessions ==
    /\ \A p \in Processes, t \in Tokens :
        m_cipherSessions[p][t] # 0 =>
            /\ m_cipherSessions[p][t] \in DOMAIN calls
            /\ ProcessOf(m_cipherSessions[p][t]) = p
    /\ \A c \in DOMAIN calls : calls[c].session # 0 =>
        /\ calls[c].session \in DOMAIN calls
        /\ ProcessOf(calls[c].session) = ProcessOf(c)
        /\ Undisturbed(calls[c].request) =>
              calls[calls[c].session].request = calls[c].request

Calm(p) == \A q \in astray \cup misfired : process[q] # p

\* A call on a session that the thread has not seen.
Unseen(c) == calls[c].answer = "none" /\ calls[c].mode # "InitializeCipher"

\* A call on its way finds the session of its own request, and no call comes
\* after the one that finalizes it.
TokensInForce ==
    \A c \in DOMAIN calls : Unseen(c) /\ Calm(ProcessOf(c)) =>
        /\ calls[c].token \in Tokens
        /\ m_cipherSessions[ProcessOf(c)][calls[c].token] # 0
        /\ calls[m_cipherSessions[ProcessOf(c)][calls[c].token]].request = calls[c].request
        /\ calls[c].mode = "FinalizeCipher" =>
            \A d \in DOMAIN calls :
                Unseen(d) /\ ProcessOf(d) = ProcessOf(c) /\ calls[d].token = calls[c].token
                    => d <= c

\* No call on its way ends the session that process p has under token t.
NotEnding(p, t) ==
    \A c \in DOMAIN calls :
        Unseen(c) /\ ProcessOf(c) = p /\ calls[c].token = t => calls[c].mode # "FinalizeCipher"

\* A request waits for a finalization.
Finalizing(r) ==
    \E i \in DOMAIN m_watcherQueue[r] : calls[m_watcherQueue[r][i]].mode = "FinalizeCipher"

\* The token a request holds, while it does not finalize, is that of its session.
TokenHeld ==
    \A r \in CipherRequests :
        \/ m_cipherSessionToken[r] = 0
        \/ ~Calm(process[r])
        \/ Finalizing(r)
        \/ /\ m_cipherSessions[process[r]][m_cipherSessionToken[r]] # 0
           /\ calls[m_cipherSessions[process[r]][m_cipherSessionToken[r]]].request = r
           /\ NotEnding(process[r], m_cipherSessionToken[r])

\* The token a request is about to be given is that of the session its call opened.
TokenGiven ==
    \A r \in CipherRequests : Calm(process[r]) =>
        \A i \in DOMAIN m_watcherQueue[r] :
            \/ calls[m_watcherQueue[r][i]].mode # "InitializeCipher"
            \/ TokenOf(m_watcherQueue[r][i]) = 0
            \/ /\ m_cipherSessions[process[r]][TokenOf(m_watcherQueue[r][i])]
                        = m_watcherQueue[r][i]
               /\ NotEnding(process[r], TokenOf(m_watcherQueue[r][i]))

\* A finalization that failed has led its request astray.
FailedIsAstray ==
    \A c \in DOMAIN calls :
        calls[c].mode = "FinalizeCipher" /\ calls[c].answer = "Failed" => ~Calm(ProcessOf(c))

SessionsInv ==
    /\ TypedClient /\ TypedDaemon /\ Pipeline /\ Waiting /\ Alike /\ Signals /\ Completed
    /\ Served /\ InTurn /\ NoStrayWatcher /\ OwnReply
    /\ Sessions /\ TokensInForce /\ TokenHeld /\ TokenGiven /\ FailedIsAstray
-----------------------------------------------------------------------------
(* What the steps do. *)

\* What a request sends is a call of its own, the last one, without an answer.
LEMMA SendingDoes ==
    ASSUME TypedClient, TypedDaemon, NEW r \in CipherRequests, Sending(r),
           m_cipherSessionToken'[r] \in {0} \cup Tokens
    PROVE  /\ calls' \in Seq(Call) /\ m_requests' \in Seq(Nat)
           /\ Len(calls') = Len(calls) + 1 /\ DOMAIN calls' = 1 .. Len(calls) + 1
           /\ DOMAIN calls = 1 .. Len(calls)
           /\ \A c \in DOMAIN calls : calls'[c] = calls[c]
           /\ calls'[Len(calls) + 1].request = r
           /\ calls'[Len(calls) + 1].mode = m_cipherMode[r]
           /\ calls'[Len(calls) + 1].plugin = m_cryptoPluginName[r]
           /\ calls'[Len(calls) + 1].token = m_cipherSessionToken'[r]
           /\ calls'[Len(calls) + 1].session = 0
           /\ calls'[Len(calls) + 1].answer = "none"
           /\ calls'[Len(calls) + 1].given = 0
           /\ calls'[Len(calls) + 1].reply = "none"
           /\ Len(m_requests') = Len(m_requests) + 1
           /\ \A i \in 1 .. Len(m_requests) : m_requests'[i] = m_requests[i]
           /\ m_requests'[Len(m_requests) + 1] = Len(calls) + 1
           /\ watchers' = watchers \cup {Len(calls) + 1}
<1>1. PICK q : q = [request |-> r, mode |-> m_cipherMode[r], plugin |-> m_cryptoPluginName[r],
                    token |-> m_cipherSessionToken'[r], session |-> 0,
                    answer |-> "none", given |-> 0, reply |-> "none"]
  OBVIOUS
<1>2. q \in Call
  BY <1>1 DEF TypedClient, Call
<1>3. /\ q.request = r /\ q.mode = m_cipherMode[r] /\ q.plugin = m_cryptoPluginName[r]
      /\ q.token = m_cipherSessionToken'[r]
      /\ q.session = 0 /\ q.answer = "none" /\ q.given = 0 /\ q.reply = "none"
  BY <1>1
<1>4. /\ calls' = Append(calls, q) /\ m_requests' = Append(m_requests, Len(calls'))
      /\ watchers' = watchers \cup {Len(calls')}
  BY <1>1 DEF Sending
<1>5. calls \in Seq(Call) /\ m_requests \in Seq(Nat)
  BY DEF TypedDaemon
<1> HIDE <1>1
<1>6. /\ calls' \in Seq(Call) /\ Len(calls') = Len(calls) + 1
      /\ \A c \in 1 .. Len(calls) : calls'[c] = calls[c]
      /\ calls'[Len(calls) + 1] = q
      /\ DOMAIN calls = 1 .. Len(calls) /\ DOMAIN calls' = 1 .. Len(calls) + 1
  BY <1>2, <1>4, <1>5
<1>7. /\ m_requests' \in Seq(Nat) /\ Len(m_requests') = Len(m_requests) + 1
      /\ \A i \in 1 .. Len(m_requests) : m_requests'[i] = m_requests[i]
      /\ m_requests'[Len(m_requests) + 1] = Len(calls) + 1
  BY <1>4, <1>5, <1>6
<1> QED
  BY <1>3, <1>4, <1>6, <1>7

\* A call keeps what it was sent with.
SameCalls ==
    /\ Len(calls') = Len(calls) /\ DOMAIN calls' = DOMAIN calls
    /\ \A c \in DOMAIN calls :
        /\ calls'[c].request = calls[c].request /\ calls'[c].mode = calls[c].mode
        /\ calls'[c].plugin = calls[c].plugin /\ calls'[c].token = calls[c].token

\* A reply, or a timeout, changes one call, and posts its signal the first time.
LEMMA ReceivedDoes ==
    ASSUME TypedClient, TypedDaemon, NEW c \in DOMAIN calls,
           NEW reply \in {"answer", "mismatch", "lost"},
           NEW answer \in {"none", "checking", "Succeeded", "Failed"},
           NEW given \in {0} \cup Tokens, NEW session \in Nat,
           Received(c, reply, answer, given, session)
    PROVE  /\ calls' \in Seq(Call) /\ SameCalls
           /\ \A d \in DOMAIN calls : d # c => calls'[d] = calls[d]
           /\ calls'[c].answer = answer /\ calls'[c].given = given
           /\ calls'[c].session = session
           /\ calls'[c].reply = IF calls[c].reply = "none" THEN reply ELSE calls[c].reply
<1>1. calls \in Seq(Call) /\ calls[c] \in Call
  BY DEF TypedDaemon
<1>2. PICK q : q = [calls[c] EXCEPT !.answer = answer, !.given = given, !.session = session,
                                    !.reply = IF @ = "none" THEN reply ELSE @]
  OBVIOUS
<1>3. /\ q \in Call /\ q.request = calls[c].request /\ q.mode = calls[c].mode
      /\ q.plugin = calls[c].plugin /\ q.token = calls[c].token /\ q.answer = answer /\ q.given = given
      /\ q.session = session
      /\ q.reply = IF calls[c].reply = "none" THEN reply ELSE calls[c].reply
  BY <1>1, <1>2, ZenonT(30) DEF Call
<1>4. calls' = [calls EXCEPT ![c] = q]
  BY <1>1, <1>2 DEF Received
<1> HIDE <1>2
<1>5. /\ calls' \in Seq(Call) /\ Len(calls') = Len(calls) /\ DOMAIN calls' = DOMAIN calls
      /\ calls'[c] = q /\ \A d \in DOMAIN calls : d # c => calls'[d] = calls[d]
  BY <1>1, <1>3, <1>4
<1> QED
  BY <1>3, <1>5 DEF SameCalls

-----------------------------------------------------------------------------
(* The way of a call through the daemon. *)

\* The numbers of the calls in the queue and in the pool.
LEMMA CallNumbers ==
    ASSUME TypedDaemon, Pipeline
    PROVE  /\ DOMAIN calls = 1 .. Len(calls) /\ Len(calls) \in Nat
           /\ DOMAIN m_requests = 1 .. Len(m_requests) /\ Len(m_requests) \in Nat
           /\ DOMAIN pool = 1 .. Len(pool) /\ Len(pool) \in Nat
           /\ Handled \in Nat /\ Handled + Len(m_requests) = Len(calls)
           /\ \A i \in DOMAIN pool : pool[i] \in DOMAIN calls /\ pool[i] \in 1 .. Handled
<1>1. /\ DOMAIN calls = 1 .. Len(calls) /\ Len(calls) \in Nat
      /\ DOMAIN m_requests = 1 .. Len(m_requests) /\ Len(m_requests) \in Nat
      /\ DOMAIN pool = 1 .. Len(pool) /\ Len(pool) \in Nat
  BY DEF TypedDaemon
<1>2. Handled \in Nat /\ Handled + Len(m_requests) = Len(calls)
  BY <1>1 DEF Handled, Pipeline, QueueInOrder
<1>3. \A i \in DOMAIN pool : pool[i] \in 1 .. Handled
  BY DEF Pipeline, PoolInOrder
<1>4. \A n \in 1 .. Handled : n \in 1 .. Len(calls)
  BY <1>1, <1>2
<1>5. \A i \in DOMAIN pool : pool[i] \in DOMAIN calls
  BY <1>1, <1>3, <1>4
<1> QED
  BY <1>1, <1>2, <1>3, <1>5

\* A new call is the last of the crypto queue.
LEMMA PipelineSends ==
    ASSUME TypedClient, TypedDaemon, Pipeline, NEW r \in CipherRequests, Sending(r),
           m_cipherSessionToken'[r] \in {0} \cup Tokens, pool' = pool
    PROVE  Pipeline'
<1>1. /\ calls' \in Seq(Call) /\ m_requests' \in Seq(Nat)
      /\ Len(calls') = Len(calls) + 1 /\ DOMAIN calls' = 1 .. Len(calls) + 1
      /\ \A c \in DOMAIN calls : calls'[c] = calls[c]
      /\ calls'[Len(calls) + 1].answer = "none" /\ calls'[Len(calls) + 1].reply = "none"
      /\ Len(m_requests') = Len(m_requests) + 1
      /\ \A i \in 1 .. Len(m_requests) : m_requests'[i] = m_requests[i]
      /\ m_requests'[Len(m_requests) + 1] = Len(calls) + 1
  BY SendingDoes
<1>2. /\ DOMAIN calls = 1 .. Len(calls) /\ Len(calls) \in Nat
      /\ DOMAIN m_requests = 1 .. Len(m_requests) /\ Len(m_requests) \in Nat
      /\ Handled \in Nat /\ Handled + Len(m_requests) = Len(calls)
      /\ \A i \in DOMAIN pool : pool[i] \in DOMAIN calls /\ pool[i] \in 1 .. Handled
  BY CallNumbers
<1>3. Handled' = Handled
  BY <1>1, <1>2 DEF Handled
<1>4. DOMAIN m_requests' = 1 .. Len(m_requests) + 1
  BY <1>1
<1>5. QueueInOrder'
  <2>1. \A i \in 1 .. Len(m_requests) : m_requests'[i] = Handled + i
    BY <1>1, <1>2 DEF Pipeline, QueueInOrder
  <2>2. m_requests'[Len(m_requests) + 1] = Handled + (Len(m_requests) + 1)
    BY <1>1, <1>2
  <2>3. \A i \in DOMAIN m_requests' : m_requests'[i] = Handled + i
    BY <2>1, <2>2, <1>2, <1>4
  <2> QED
    BY <2>3, <1>2, <1>3 DEF QueueInOrder
<1>6. PoolInOrder'
  BY <1>1, <1>2, <1>3 DEF Pipeline, PoolInOrder
<1>7. Accounted'
  BY <1>1, <1>2, <1>3 DEF Pipeline, Accounted
<1> QED
  BY <1>5, <1>6, <1>7 DEF Pipeline

\* The first call of the crypto queue, and what is left in it.
LEMMA HeadOfQueue ==
    ASSUME TypedDaemon, Pipeline, m_requests # <<>>, m_requests' = Tail(m_requests),
           SameCalls
    PROVE  /\ Head(m_requests) = Handled + 1 /\ Head(m_requests) \in DOMAIN calls
           /\ Handled' = Handled + 1 /\ m_requests' \in Seq(Nat) /\ QueueInOrder'
           /\ calls[Head(m_requests)].answer = "none"
           /\ \A i \in DOMAIN pool : pool[i] # Head(m_requests)
<1>1. /\ DOMAIN calls = 1 .. Len(calls) /\ Len(calls) \in Nat
      /\ DOMAIN m_requests = 1 .. Len(m_requests) /\ Len(m_requests) \in Nat
      /\ Handled \in Nat /\ Handled + Len(m_requests) = Len(calls)
      /\ \A i \in DOMAIN pool : pool[i] \in DOMAIN calls /\ pool[i] \in 1 .. Handled
  BY CallNumbers
<1>2. /\ Len(m_requests) > 0
      /\ Head(m_requests) = m_requests[1] /\ Len(m_requests') = Len(m_requests) - 1
      /\ m_requests' \in Seq(Nat)
      /\ DOMAIN m_requests' = 1 .. Len(m_requests) - 1
      /\ \A i \in DOMAIN m_requests' : m_requests'[i] = m_requests[i + 1]
  BY DEF TypedDaemon
<1>3. Handled' = Handled + 1
  BY <1>1, <1>2 DEF Handled, SameCalls
<1>4. Head(m_requests) = Handled + 1
  BY <1>1, <1>2 DEF Pipeline, QueueInOrder
<1>5. QueueInOrder'
  <2>1. \A i \in DOMAIN m_requests' : i + 1 \in DOMAIN m_requests /\ i \in Nat
    BY <1>1, <1>2
  <2>2. \A i \in DOMAIN m_requests' : m_requests'[i] = Handled + (i + 1)
    BY <1>2, <2>1 DEF Pipeline, QueueInOrder
  <2>3. \A i \in DOMAIN m_requests' : m_requests'[i] = (Handled + 1) + i
    BY <2>1, <2>2, <1>1
  <2> QED
    BY <2>3, <1>1, <1>3 DEF QueueInOrder
<1>6. Head(m_requests) \in DOMAIN calls /\ Head(m_requests) > Handled
  BY <1>1, <1>2, <1>4
<1>7. calls[Head(m_requests)].answer = "none"
  BY <1>6 DEF Pipeline, Accounted
<1> QED
  BY <1>1, <1>2, <1>3, <1>4, <1>5, <1>6, <1>7

\* It is given to the thread.
LEMMA PipelineStarts ==
    ASSUME TypedDaemon, Pipeline, m_requests # <<>>, m_requests' = Tail(m_requests),
           calls' = calls, pool' = Append(pool, Head(m_requests)),
           calls[Head(m_requests)].plugin \in m_cryptoPlugins
    PROVE  Pipeline' /\ pool' \in Seq(Nat)
<1>1. SameCalls
  BY DEF SameCalls
<1>2. PICK c : c = Head(m_requests)
  OBVIOUS
<1>3. /\ c = Handled + 1 /\ c \in DOMAIN calls /\ Handled' = Handled + 1 /\ QueueInOrder'
      /\ calls[c].answer = "none" /\ \A i \in DOMAIN pool : pool[i] # c
  BY <1>1, <1>2, HeadOfQueue
<1>0. /\ DOMAIN calls = 1 .. Len(calls) /\ Len(calls) \in Nat /\ Handled \in Nat
      /\ \A i \in DOMAIN pool : pool[i] \in DOMAIN calls /\ pool[i] \in 1 .. Handled
  BY CallNumbers
<1>4. /\ Len(pool') = Len(pool) + 1 /\ Len(pool) \in Nat /\ pool'[Len(pool) + 1] = c
      /\ \A i \in 1 .. Len(pool) : pool'[i] = pool[i]
      /\ DOMAIN pool = 1 .. Len(pool) /\ DOMAIN pool' = 1 .. Len(pool) + 1
  BY <1>2, <1>3 DEF TypedDaemon
<1>5. pool' \in Seq(Nat) /\ calls[c].plugin \in m_cryptoPlugins
  BY <1>2, <1>3 DEF TypedDaemon
<1> HIDE <1>2
<1>6. PoolInOrder'
  <2>1. \A i \in DOMAIN pool' : i \in DOMAIN pool \/ i = Len(pool) + 1
    BY <1>4
  <2>2. \A i \in DOMAIN pool : pool'[i] = pool[i] /\ pool[i] < c /\ i < Len(pool) + 1
    BY <1>0, <1>3, <1>4
  <2>3. \A i \in DOMAIN pool' : /\ pool'[i] \in 1 .. Handled' /\ calls'[pool'[i]].answer = "none"
                                /\ calls'[pool'[i]].plugin \in m_cryptoPlugins
    <3>1. \A i \in DOMAIN pool : /\ pool[i] \in 1 .. Handled + 1 /\ calls[pool[i]].answer = "none"
                                 /\ calls[pool[i]].plugin \in m_cryptoPlugins
      BY <1>0 DEF Pipeline, PoolInOrder
    <3> QED
      BY <1>0, <1>3, <1>4, <1>5, <2>1, <2>2, <3>1
  <2>4. \A i, j \in DOMAIN pool' :
            i < j => /\ pool'[i] # pool'[j]
                     /\ \/ calls[pool'[i]].mode = "InitializeCipher"
                        \/ calls[pool'[j]].mode = "InitializeCipher"
                        \/ pool'[i] < pool'[j]
    <3> SUFFICES ASSUME NEW i \in DOMAIN pool', NEW j \in DOMAIN pool', i < j
                 PROVE  /\ pool'[i] # pool'[j]
                        /\ \/ calls[pool'[i]].mode = "InitializeCipher"
                           \/ calls[pool'[j]].mode = "InitializeCipher"
                           \/ pool'[i] < pool'[j]
      OBVIOUS
    <3>1. i \in DOMAIN pool
      BY <1>4
    <3>2. CASE j \in DOMAIN pool
      BY <3>1, <3>2, <2>2 DEF Pipeline, PoolInOrder
    <3>3. CASE j = Len(pool) + 1
      <4>1. pool'[i] = pool[i] /\ pool'[j] = c /\ pool[i] < c /\ pool[i] # c
        BY <3>1, <3>3, <1>3, <1>4, <2>2
      <4> QED
        BY <4>1
    <3> QED
      BY <3>2, <3>3, <2>1
  <2> QED
    BY <2>3, <2>4 DEF PoolInOrder
<1>7. \A d \in DOMAIN calls : d <= Handled' /\ calls[d].answer = "none" =>
                                \E i \in DOMAIN pool' : pool'[i] = d
  <2> SUFFICES ASSUME NEW d \in DOMAIN calls, d <= Handled + 1, calls[d].answer = "none"
               PROVE  \E i \in DOMAIN pool' : pool'[i] = d
    BY <1>3
  <2>1. CASE d = c
    BY <2>1, <1>4
  <2>2. CASE d # c
    <3>1. d <= Handled
      BY <2>2, <1>0, <1>3
    <3>2. PICK i \in DOMAIN pool : pool[i] = d
      BY <3>1 DEF Pipeline, Accounted
    <3> QED
      BY <3>2, <1>4
  <2> QED
    BY <2>1, <2>2
<1>8. \A d \in DOMAIN calls : d > Handled' => d > Handled
  BY <1>0, <1>3
<1>9. Accounted'
  BY <1>7, <1>8 DEF Pipeline, Accounted
<1> QED
  BY <1>3, <1>5, <1>6, <1>9 DEF Pipeline

\* A call is answered, or its key is looked up, without the thread.
LEMMA PipelineSkips ==
    ASSUME TypedDaemon, Pipeline, m_requests # <<>>, m_requests' = Tail(m_requests),
           pool' = pool, SameCalls,
           NEW c, c = Head(m_requests),
           \A d \in DOMAIN calls : d # c => calls'[d] = calls[d],
           \/ /\ calls'[c].answer = "checking" /\ calls[c].mode = "InitializeCipher"
              /\ calls[c].plugin \in m_cryptoPlugins /\ calls'[c].reply = calls[c].reply
           \/ calls'[c].answer \in {"Succeeded", "Failed"} /\ calls'[c].reply # "none"
    PROVE  Pipeline'
<1>0. /\ DOMAIN calls = 1 .. Len(calls) /\ Len(calls) \in Nat /\ Handled \in Nat
      /\ \A i \in DOMAIN pool : pool[i] \in DOMAIN calls /\ pool[i] \in 1 .. Handled
  BY CallNumbers
<1>1. /\ c = Handled + 1 /\ c \in DOMAIN calls /\ Handled' = Handled + 1 /\ QueueInOrder'
      /\ calls[c].answer = "none" /\ \A i \in DOMAIN pool : pool[i] # c
  BY HeadOfQueue
<1>2. \A i \in DOMAIN pool : calls'[pool[i]] = calls[pool[i]]
  BY <1>0, <1>1
<1>3. PoolInOrder'
  BY <1>0, <1>1, <1>2 DEF Pipeline, PoolInOrder
<1>4. \A d \in DOMAIN calls : d # c => (d > Handled' <=> d > Handled)
  BY <1>0, <1>1
<1>5. ~(c > Handled')
  BY <1>0, <1>1
<1>6. calls[c].reply \notin {"answer", "mismatch"}
  BY <1>1 DEF Pipeline, Accounted
<1>7. Accounted'
  BY <1>0, <1>1, <1>4, <1>5, <1>6 DEF Pipeline, Accounted, SameCalls
<1> QED
  BY <1>1, <1>3, <1>7 DEF Pipeline

\* The key has been looked up: the call goes to the thread.
LEMMA PipelineLookedUp ==
    ASSUME TypedDaemon, Pipeline, m_requests' = m_requests, SameCalls,
           NEW c \in DOMAIN calls, calls[c].answer = "checking", pool' = Append(pool, c),
           \A d \in DOMAIN calls : d # c => calls'[d] = calls[d],
           calls'[c].answer = "none", calls'[c].reply = calls[c].reply
    PROVE  Pipeline' /\ pool' \in Seq(Nat)
<1>0. /\ DOMAIN calls = 1 .. Len(calls) /\ Len(calls) \in Nat /\ Handled \in Nat
      /\ \A i \in DOMAIN pool : pool[i] \in DOMAIN calls /\ pool[i] \in 1 .. Handled
  BY CallNumbers
<1>1. Handled' = Handled
  BY DEF Handled, SameCalls
<1>2. /\ Len(pool') = Len(pool) + 1 /\ Len(pool) \in Nat /\ pool'[Len(pool) + 1] = c
      /\ \A i \in 1 .. Len(pool) : pool'[i] = pool[i]
      /\ DOMAIN pool = 1 .. Len(pool) /\ DOMAIN pool' = 1 .. Len(pool) + 1
      /\ pool' \in Seq(Nat)
  BY <1>0 DEF TypedDaemon
<1>3. \A i \in DOMAIN pool : pool[i] # c
  BY DEF Pipeline, PoolInOrder
<1>4. calls[c].mode = "InitializeCipher" /\ c <= Handled /\ calls[c].plugin \in m_cryptoPlugins
  BY <1>0 DEF Pipeline, Accounted
<1>5. calls[c].reply \notin {"answer", "mismatch"}
  BY DEF Pipeline, Accounted
<1>6. QueueInOrder'
  BY <1>1 DEF Pipeline, QueueInOrder
<1>7. PoolInOrder'
  BY <1>0, <1>1, <1>2, <1>3, <1>4 DEF Pipeline, PoolInOrder, SameCalls
<1>8. Accounted'
  BY <1>0, <1>1, <1>2, <1>4, <1>5 DEF Pipeline, Accounted, SameCalls
<1> QED
  BY <1>2, <1>6, <1>7, <1>8 DEF Pipeline

\* The answer to a call that is not in the thread's pool, or the loss of it.
LEMMA PipelineAnswers ==
    ASSUME TypedDaemon, Pipeline, m_requests' = m_requests, pool' = pool, SameCalls,
           NEW c \in DOMAIN calls,
           \A d \in DOMAIN calls : d # c => calls'[d] = calls[d],
           calls'[c].reply # "none",
           \/ /\ calls[c].answer = "checking" /\ calls'[c].answer \in {"Succeeded", "Failed"}
           \/ /\ calls'[c].answer = calls[c].answer
              /\ calls'[c].reply \in {"answer", "mismatch"} =>
                    calls[c].answer \in {"Succeeded", "Failed"}
    PROVE  Pipeline'
<1>0. /\ DOMAIN calls = 1 .. Len(calls) /\ Len(calls) \in Nat /\ Handled \in Nat
      /\ \A i \in DOMAIN pool : pool[i] \in DOMAIN calls /\ pool[i] \in 1 .. Handled
  BY CallNumbers
<1>1. Handled' = Handled
  BY DEF Handled, SameCalls
<1>2. QueueInOrder'
  BY <1>1 DEF Pipeline, QueueInOrder
<1>3. \A i \in DOMAIN pool : calls'[pool[i]].answer = "none"
  BY <1>0 DEF Pipeline, PoolInOrder
<1>4. PoolInOrder'
  BY <1>0, <1>1, <1>3 DEF Pipeline, PoolInOrder, SameCalls
<1>5. Accounted'
  BY <1>0, <1>1 DEF Pipeline, Accounted, SameCalls
<1> QED
  BY <1>2, <1>4, <1>5 DEF Pipeline

\* The thread takes the first call of the pool and answers it.
LEMMA PipelineRuns ==
    ASSUME TypedDaemon, Pipeline, m_requests' = m_requests, pool # <<>>, pool' = Tail(pool),
           SameCalls, NEW c, c = Head(pool),
           \A d \in DOMAIN calls : d # c => calls'[d] = calls[d],
           calls'[c].answer \in {"Succeeded", "Failed"}, calls'[c].reply # "none"
    PROVE  Pipeline' /\ pool' \in Seq(Nat)
<1>0. /\ DOMAIN calls = 1 .. Len(calls) /\ Len(calls) \in Nat /\ Handled \in Nat
      /\ \A i \in DOMAIN pool : pool[i] \in DOMAIN calls /\ pool[i] \in 1 .. Handled
  BY CallNumbers
<1>1. Handled' = Handled
  BY DEF Handled, SameCalls
<1>2. /\ Len(pool') = Len(pool) - 1 /\ Len(pool) \in Nat /\ Len(pool) > 0 /\ pool[1] = c
      /\ DOMAIN pool = 1 .. Len(pool) /\ DOMAIN pool' = 1 .. Len(pool) - 1
      /\ \A i \in DOMAIN pool' : pool'[i] = pool[i + 1] /\ i + 1 \in DOMAIN pool
      /\ pool' \in Seq(Nat) /\ 1 \in DOMAIN pool
  BY DEF TypedDaemon
<1>3. \A i \in DOMAIN pool' : pool'[i] # c /\ pool'[i] \in DOMAIN calls
  <2>1. \A i \in DOMAIN pool' : 1 < i + 1
    BY <1>2
  <2>2. \A i, j \in DOMAIN pool : i < j => pool[i] # pool[j]
    BY DEF Pipeline, PoolInOrder
  <2>3. \A j \in DOMAIN pool : 1 < j => pool[j] # c
    BY <1>2, <2>2
  <2>4. \A i \in DOMAIN pool' : pool[i + 1] # c /\ pool[i + 1] \in DOMAIN calls
    BY <1>0, <1>2, <2>1, <2>3
  <2> QED
    BY <1>2, <2>4
<1>4. c \in DOMAIN calls /\ c <= Handled
  BY <1>0, <1>2
<1>5. PoolInOrder'
  <2>1. \A i \in DOMAIN pool' : calls'[pool'[i]] = calls[pool'[i]]
    BY <1>3
  <2>2. \A i \in DOMAIN pool' : /\ pool'[i] \in 1 .. Handled /\ calls[pool'[i]].answer = "none"
                                /\ calls[pool'[i]].plugin \in m_cryptoPlugins
    BY <1>2 DEF Pipeline, PoolInOrder
  <2>3. \A i, j \in DOMAIN pool' : i < j => i + 1 < j + 1
    BY <1>2
  <2>4. \A i, j \in DOMAIN pool' :
            i < j => /\ pool'[i] # pool'[j]
                     /\ \/ calls[pool'[i]].mode = "InitializeCipher"
                        \/ calls[pool'[j]].mode = "InitializeCipher"
                        \/ pool'[i] < pool'[j]
    BY <1>2, <2>3 DEF Pipeline, PoolInOrder
  <2>5. \A i \in DOMAIN pool' : /\ pool'[i] \in 1 .. Handled' /\ calls'[pool'[i]].answer = "none"
                                /\ calls'[pool'[i]].plugin \in m_cryptoPlugins
    BY <1>1, <2>1, <2>2
  <2>6. \A i, j \in DOMAIN pool' :
            i < j => /\ pool'[i] # pool'[j]
                     /\ \/ calls'[pool'[i]].mode = "InitializeCipher"
                        \/ calls'[pool'[j]].mode = "InitializeCipher"
                        \/ pool'[i] < pool'[j]
    BY <2>1, <2>4
  <2> QED
    BY <2>5, <2>6 DEF PoolInOrder
<1>6. \A d \in DOMAIN calls : d # c /\ d <= Handled /\ calls[d].answer = "none" =>
                                \E i \in DOMAIN pool' : pool'[i] = d
  <2> SUFFICES ASSUME NEW d \in DOMAIN calls, d # c, d <= Handled, calls[d].answer = "none"
               PROVE  \E i \in DOMAIN pool' : pool'[i] = d
    OBVIOUS
  <2>1. PICK i \in DOMAIN pool : pool[i] = d
    BY DEF Pipeline, Accounted
  <2>2. i - 1 \in DOMAIN pool' /\ pool'[i - 1] = d
    BY <2>1, <1>2
  <2> QED
    BY <2>2
<1>7. Accounted'
  BY <1>0, <1>1, <1>4, <1>6 DEF Pipeline, Accounted, SameCalls
<1>8. QueueInOrder'
  BY <1>1 DEF Pipeline, QueueInOrder
<1> QED
  BY <1>2, <1>5, <1>7, <1>8 DEF Pipeline

-----------------------------------------------------------------------------
(* Replies. *)

\* Call c may have got its reply, and then its signal has been posted.
Heard(c) ==
    /\ SameCalls
    /\ \A d \in DOMAIN calls : d # c => calls'[d].reply = calls[d].reply
    /\ \/ calls'[c].reply = calls[c].reply /\ events' = events
       \/ /\ calls[c].reply = "none" /\ calls'[c].reply # "none"
          /\ events' = IF c \in watchers
                       THEN [events EXCEPT ![ProcessOf(c)] = Append(@, Event("finished", c))]
                       ELSE events

\* A reply overtakes no other one of the same queue, when the request is regular.
NextReply(c) ==
    \A r \in CipherRequests : Regular(r) => \A i, j \in DOMAIN m_watcherQueue[r] :
        i < j /\ m_watcherQueue[r][j] = c /\ calls[c].reply = "none" =>
            calls[m_watcherQueue[r][i]].reply # "none"

ClientKept == <<process, m_cipherMode, m_cryptoPluginName, m_status, m_result,
                m_cipherSessionToken, m_watcherQueue, m_completedHash, taking, watchers,
                opened, restarted, disordered, misfired, crashed>>

\* The signal of c is the last one of its event loop.
LEMMA Posting ==
    ASSUME TypedClient, NEW c \in Nat, ProcessOf(c) \in Processes,
           events' = [events EXCEPT ![ProcessOf(c)] = Append(@, Event("finished", c))]
    PROVE  /\ events' \in [Processes -> Seq(Events)]
           /\ \A p \in Processes : p # ProcessOf(c) => events'[p] = events[p]
           /\ Len(events[ProcessOf(c)]) \in Nat
           /\ DOMAIN events[ProcessOf(c)] = 1 .. Len(events[ProcessOf(c)])
           /\ DOMAIN events'[ProcessOf(c)] = 1 .. Len(events[ProcessOf(c)]) + 1
           /\ \A k \in DOMAIN events[ProcessOf(c)] :
                 events'[ProcessOf(c)][k] = events[ProcessOf(c)][k]
           /\ events'[ProcessOf(c)][Len(events[ProcessOf(c)]) + 1] = Event("finished", c)
<1>1. PICK e : e = Event("finished", c)
  OBVIOUS
<1>2. e \in Events
  BY <1>1 DEF Event, Events
<1>3. PICK p : p = ProcessOf(c)
  OBVIOUS
<1>4. /\ events \in [Processes -> Seq(Events)] /\ p \in Processes
      /\ events' = [events EXCEPT ![p] = Append(@, e)] /\ events[p] \in Seq(Events)
  BY <1>1, <1>3 DEF TypedClient
<1>5. /\ events' \in [Processes -> Seq(Events)]
      /\ events'[p] = Append(events[p], e)
      /\ \A q \in Processes : q # p => events'[q] = events[q]
  BY <1>2, <1>4
<1>6. /\ Len(events[p]) \in Nat /\ DOMAIN events[p] = 1 .. Len(events[p])
      /\ DOMAIN events'[p] = 1 .. Len(events[p]) + 1
      /\ \A k \in 1 .. Len(events[p]) : events'[p][k] = events[p][k]
      /\ events'[p][Len(events[p]) + 1] = e
  BY <1>2, <1>4, <1>5
<1> QED
  BY <1>1, <1>3, <1>5, <1>6

\* Signals of different kinds or calls are different.
LEMMA EventParts ==
    ASSUME NEW k, NEW c, NEW l, NEW d
    PROVE  /\ Event(k, c).kind = k /\ Event(k, c).call = c
           /\ Event(k, c) = Event(l, d) <=> k = l /\ c = d
BY DEF Event

\* The fields of a call.
LEMMA CallFields ==
    ASSUME TypedDaemon, NEW c \in DOMAIN calls
    PROVE  /\ c \in Nat \ {0} /\ calls[c].request \in CipherRequests /\ calls[c].mode \in Modes
           /\ calls[c].plugin \in PluginNames
           /\ calls[c].token \in {0} \cup Tokens /\ calls[c].session \in Nat
           /\ calls[c].answer \in {"none", "checking", "Succeeded", "Failed"}
           /\ calls[c].given \in {0} \cup Tokens
           /\ calls[c].reply \in {"none", "answer", "mismatch", "lost"}
<1>1. c \in Nat \ {0} /\ calls[c] \in Call
  BY DEF TypedDaemon
<1> QED
  BY <1>1 DEF Call

\* What the client library knows stays true when a reply arrives.
LEMMA ClientHears ==
    ASSUME TypedClient, TypedDaemon, Waiting, Alike, Signals, Completed, Served, InTurn,
           NoStrayWatcher, NEW c \in DOMAIN calls, Heard(c), NextReply(c), UNCHANGED ClientKept
    PROVE  /\ events' \in [Processes -> Seq(Events)]
           /\ Waiting' /\ Alike' /\ Signals' /\ Completed' /\ Served' /\ InTurn'
           /\ NoStrayWatcher'
<1>1. /\ process' = process /\ m_cipherMode' = m_cipherMode /\ m_status' = m_status
      /\ m_cryptoPluginName' = m_cryptoPluginName /\ taking' = taking
      /\ m_watcherQueue' = m_watcherQueue /\ m_completedHash' = m_completedHash
      /\ m_cipherSessionToken' = m_cipherSessionToken
      /\ watchers' = watchers /\ restarted' = restarted /\ crashed' = crashed
      /\ disordered' = disordered /\ misfired' = misfired
      /\ \A r : Regular(r)' <=> Regular(r)
  BY DEF ClientKept, Regular
<1>2. /\ DOMAIN calls' = DOMAIN calls
      /\ \A d \in DOMAIN calls : calls'[d].request = calls[d].request
                                 /\ calls'[d].mode = calls[d].mode
                                 /\ calls'[d].plugin = calls[d].plugin
  BY DEF Heard, SameCalls
<1>3. \A d \in DOMAIN calls : (d # c => calls'[d].reply = calls[d].reply)
                              /\ (calls[d].reply # "none" => calls'[d].reply # "none")
  BY DEF Heard
<1>4. \A d \in DOMAIN calls : ProcessOf(d)' = ProcessOf(d) /\ ProcessOf(d) \in Processes
                              /\ calls[d].request \in CipherRequests
  <2>1. \A d \in DOMAIN calls : calls[d].request \in CipherRequests
    BY CallFields
  <2> QED
    BY <1>1, <1>2, <2>1 DEF ProcessOf, TypedClient
<1>5. Waiting'
  BY <1>1, <1>2 DEF Waiting
<1>50. Alike'
  BY <1>1, <1>2 DEF Alike, Waiting
<1>51. Completed'
  BY <1>1, <1>2, <1>3 DEF Completed
<1>6. NoStrayWatcher'
  BY <1>1, <1>2 DEF NoStrayWatcher, Signals
<1>7. CASE events' = events /\ (calls'[c].reply = calls[c].reply \/ c \notin watchers)
  <2>1. events' \in [Processes -> Seq(Events)]
    BY <1>7 DEF TypedClient
  <2>2. Signals'
    BY <1>1, <1>2, <1>3, <1>4, <1>7 DEF Signals
  <2>3. Served'
    <3>1. \A r \in CipherRequests : Regular(r) /\ process[r] \notin crashed =>
            \A i \in DOMAIN m_watcherQueue[r] :
                /\ m_watcherQueue[r][i] \in DOMAIN calls
                /\ calls'[m_watcherQueue[r][i]].reply = calls[m_watcherQueue[r][i]].reply
      BY <1>3, <1>7 DEF Served, Waiting
    <3> QED
      BY <1>1, <1>7, <3>1 DEF Served
  <2>4. InTurn'
    BY <1>1, <1>7 DEF InTurn
  <2> QED
    BY <1>5, <1>50, <1>51, <1>6, <2>1, <2>2, <2>3, <2>4
<1>8. CASE /\ calls[c].reply = "none" /\ calls'[c].reply # "none" /\ c \in watchers
           /\ events' = [events EXCEPT ![ProcessOf(c)] = Append(@, Event("finished", c))]
  <2>1. PICK pc : pc = ProcessOf(c)
    OBVIOUS
  <2>2. PICK n : n = Len(events[pc]) + 1
    OBVIOUS
  <2>3. /\ events' \in [Processes -> Seq(Events)]
        /\ \A p \in Processes : p # pc => events'[p] = events[p]
        /\ n \in Nat /\ DOMAIN events[pc] = 1 .. n - 1 /\ DOMAIN events'[pc] = 1 .. n
        /\ \A k \in DOMAIN events[pc] : events'[pc][k] = events[pc][k]
        /\ events'[pc][n] = Event("finished", c) /\ pc \in Processes
    <3>1. c \in Nat
      BY DEF TypedDaemon
    <3>2. /\ events' \in [Processes -> Seq(Events)] /\ pc \in Processes
          /\ \A p \in Processes : p # pc => events'[p] = events[p]
          /\ Len(events[pc]) \in Nat /\ DOMAIN events[pc] = 1 .. Len(events[pc])
          /\ DOMAIN events'[pc] = 1 .. Len(events[pc]) + 1
          /\ \A k \in DOMAIN events[pc] : events'[pc][k] = events[pc][k]
          /\ events'[pc][Len(events[pc]) + 1] = Event("finished", c)
      BY <1>4, <1>8, <2>1, <3>1, Posting
    <3> QED
      BY <2>2, <3>2
  <2>4. \A p \in Processes : \A k \in DOMAIN events'[p] :
            \/ k \in DOMAIN events[p] /\ events'[p][k] = events[p][k]
            \/ p = pc /\ k = n /\ events'[p][k] = Event("finished", c)
    BY <2>3
  <2>5. \A p \in Processes : \A k \in DOMAIN events[p] :
            k \in DOMAIN events'[p] /\ events'[p][k] = events[p][k]
    BY <2>3
  <2>6. \A p \in Processes : \A k \in DOMAIN events[p] : events[p][k] # Event("finished", c)
    BY <1>8, EventParts DEF Signals
  <2>7. Signals'
    <3>1. watchers' \subseteq DOMAIN calls'
      BY <1>1, <1>2 DEF Signals
    <3> SUFFICES ASSUME NEW p \in Processes, NEW k \in DOMAIN events'[p]
                 PROVE  /\ events'[p][k].call \in DOMAIN calls
                        /\ ProcessOf(events'[p][k].call) = p
                        /\ events'[p][k].kind = "finished" =>
                            /\ calls'[events'[p][k].call].reply # "none"
                            /\ \A l \in DOMAIN events'[p] : events'[p][l] = events'[p][k] => l = k
      BY <3>1, <1>1, <1>2, <1>4 DEF Signals
    <3>2. CASE k \in DOMAIN events[p] /\ events'[p][k] = events[p][k]
      BY <3>2, <2>4, <2>6, <1>3 DEF Signals
    <3>3. CASE p = pc /\ k = n /\ events'[p][k] = Event("finished", c)
      BY <3>3, <2>1, <2>4, <2>6, <1>8, EventParts
    <3> QED
      BY <3>2, <3>3, <2>4
  <2>8. Served'
    <3> SUFFICES ASSUME NEW r \in CipherRequests, Regular(r), process[r] \notin crashed,
                        NEW i \in DOMAIN m_watcherQueue[r]
                 PROVE  /\ m_watcherQueue[r][i] \in watchers
                        /\ \A k \in DOMAIN events'[process[r]] :
                            events'[process[r]][k] # Event("deleteLater", m_watcherQueue[r][i])
                        /\ calls'[m_watcherQueue[r][i]].reply # "none" =>
                            \/ m_watcherQueue[r][i] \in m_completedHash[r]
                            \/ \E k \in DOMAIN events'[process[r]] :
                                events'[process[r]][k] = Event("finished", m_watcherQueue[r][i])
      BY <1>1 DEF Served
    <3>1. process[r] \in Processes
      BY DEF TypedClient
    <3>2. \A k \in DOMAIN events'[process[r]] :
                            events'[process[r]][k] # Event("deleteLater", m_watcherQueue[r][i])
      BY <3>1, <2>4, EventParts DEF Served
    <3>3. m_watcherQueue[r][i] \in DOMAIN calls /\ calls[m_watcherQueue[r][i]].request = r
      BY DEF Waiting
    <3>4. CASE m_watcherQueue[r][i] = c
      <4>1. process[r] = pc
        BY <2>1, <3>3, <3>4 DEF ProcessOf
      <4>2. n \in DOMAIN events'[process[r]]
            /\ events'[process[r]][n] = Event("finished", m_watcherQueue[r][i])
        BY <3>4, <4>1, <2>2, <2>3 DEF TypedClient
      <4> QED
        BY <3>2, <4>2 DEF Served
    <3>5. CASE m_watcherQueue[r][i] # c
      BY <3>1, <3>2, <3>3, <3>5, <2>5, <1>3 DEF Served
    <3> QED
      BY <3>4, <3>5
  <2>9. InTurn'
    <3> SUFFICES ASSUME NEW r \in CipherRequests, Regular(r), process[r] \notin crashed,
                        NEW i \in DOMAIN m_watcherQueue[r], NEW j \in DOMAIN m_watcherQueue[r],
                        NEW k \in DOMAIN events'[process[r]], i < j,
                        m_watcherQueue[r][i] \notin m_completedHash[r],
                        events'[process[r]][k] = Event("finished", m_watcherQueue[r][j])
                 PROVE  \E l \in DOMAIN events'[process[r]] :
                            /\ l < k
                            /\ events'[process[r]][l] = Event("finished", m_watcherQueue[r][i])
      BY <1>1 DEF InTurn
    <3>1. process[r] \in Processes
      BY DEF TypedClient
    <3>2. CASE k \in DOMAIN events[process[r]] /\ events'[process[r]][k] = events[process[r]][k]
      <4>1. PICK l \in DOMAIN events[process[r]] :
                l < k /\ events[process[r]][l] = Event("finished", m_watcherQueue[r][i])
        BY <3>2 DEF InTurn
      <4> QED
        BY <3>1, <4>1, <2>5
    <3>3. CASE process[r] = pc /\ k = n /\ events'[pc][k] = Event("finished", c)
      <4>1. m_watcherQueue[r][j] = c
        BY <3>3, EventParts
      <4>2. calls[m_watcherQueue[r][i]].reply # "none"
        BY <4>1, <1>8 DEF NextReply
      <4>3. PICK l \in DOMAIN events[process[r]] :
                events[process[r]][l] = Event("finished", m_watcherQueue[r][i])
        BY <4>2 DEF Served
      <4>4. l < k
        BY <3>3, <4>3, <2>3
      <4> QED
        BY <3>1, <4>3, <4>4, <2>5
    <3> QED
      BY <3>1, <3>2, <3>3, <2>4
  <2> QED
    BY <1>5, <1>50, <1>51, <1>6, <2>3, <2>7, <2>8, <2>9
<1> QED
  BY <1>7, <1>8 DEF Heard

\* An initialization is alone in its queue.
LEMMA InitializationIsNext ==
    ASSUME TypedClient, Waiting, NEW c, calls[c].mode = "InitializeCipher"
    PROVE  NextReply(c)
<1> SUFFICES ASSUME NEW r \in CipherRequests, NEW i \in DOMAIN m_watcherQueue[r],
                    NEW j \in DOMAIN m_watcherQueue[r], i < j, m_watcherQueue[r][j] = c
             PROVE  FALSE
  BY DEF NextReply
<1>2. Len(m_watcherQueue[r]) = 1
  BY DEF Waiting
<1>3. m_watcherQueue[r] \in Seq(Nat)
  BY DEF TypedClient
<1> QED
  BY <1>2, <1>3

\* The first call of the pool is the first of its queue without an answer.
LEMMA HeadOfPoolIsNext ==
    ASSUME TypedClient, TypedDaemon, Pipeline, Waiting, Alike, pool # <<>>, NEW c, c = Head(pool)
    PROVE  c \in DOMAIN calls /\ NextReply(c) /\ calls[c].answer = "none" /\ c \in 1 .. Handled
<1>1. /\ 1 \in DOMAIN pool /\ pool[1] = c
  BY DEF TypedDaemon
<1>2. /\ Handled \in Nat /\ DOMAIN pool = 1 .. Len(pool) /\ Len(pool) \in Nat
      /\ c \in DOMAIN calls /\ c \in 1 .. Handled
  BY <1>1, CallNumbers
<1>3. calls[c].answer = "none"
  BY <1>1 DEF Pipeline, PoolInOrder
<1>4. CASE calls[c].mode = "InitializeCipher"
  BY <1>2, <1>3, <1>4, InitializationIsNext
<1>5. CASE calls[c].mode # "InitializeCipher"
  <2> SUFFICES ASSUME NEW r \in CipherRequests, Regular(r), NEW i \in DOMAIN m_watcherQueue[r],
                      NEW j \in DOMAIN m_watcherQueue[r], i < j, m_watcherQueue[r][j] = c,
                      calls[m_watcherQueue[r][i]].reply = "none"
               PROVE  FALSE
    BY <1>2, <1>3 DEF NextReply
  <2>1. PICK d : d = m_watcherQueue[r][i]
    OBVIOUS
  <2>2. d \in DOMAIN calls /\ calls[d].mode = calls[c].mode /\ d < c /\ calls[d].reply = "none"
    BY <2>1 DEF Waiting, Alike
  <2>3. calls[d].answer = "none"
    BY <1>5, <2>2 DEF Pipeline, Accounted
  <2>4. d \in Nat /\ d <= Handled
    BY <1>2, <2>2, CallFields
  <2>5. PICK k \in DOMAIN pool : pool[k] = d
    BY <2>2, <2>3, <2>4 DEF Pipeline, Accounted
  <2>6. k # 1
    BY <1>1, <1>2, <2>2, <2>4, <2>5
  <2>7. 1 < k
    BY <1>2, <2>6
  <2>8. c < d
    BY <1>1, <1>5, <2>2, <2>5, <2>7 DEF Pipeline, PoolInOrder
  <2> QED
    BY <1>2, <2>2, <2>4, <2>8
<1> QED
  BY <1>4, <1>5

\* So is the first call of the crypto queue, when its plugin does not exist.
LEMMA NoPluginIsNext ==
    ASSUME TypedClient, TypedDaemon, Pipeline, Waiting, Alike, NEW c \in DOMAIN calls,
           c = Handled + 1, calls[c].plugin \notin m_cryptoPlugins
    PROVE  NextReply(c)
<1>1. CASE calls[c].mode = "InitializeCipher"
  BY <1>1, InitializationIsNext
<1>2. CASE calls[c].mode # "InitializeCipher"
  <2> SUFFICES ASSUME NEW r \in CipherRequests, Regular(r), NEW i \in DOMAIN m_watcherQueue[r],
                      NEW j \in DOMAIN m_watcherQueue[r], i < j, m_watcherQueue[r][j] = c,
                      calls[m_watcherQueue[r][i]].reply = "none"
               PROVE  FALSE
    BY DEF NextReply
  <2>1. PICK d : d = m_watcherQueue[r][i]
    OBVIOUS
  <2>2. /\ d \in DOMAIN calls /\ calls[d].mode = calls[c].mode /\ d < c
        /\ calls[d].plugin = calls[c].plugin /\ calls[d].reply = "none"
    BY <2>1 DEF Waiting, Alike
  <2>3. calls[d].answer = "none"
    BY <1>2, <2>2 DEF Pipeline, Accounted
  <2>4. Handled \in Nat /\ d \in Nat
    BY <2>2, CallNumbers, CallFields
  <2>5. d <= Handled
    BY <2>2, <2>4
  <2>6. PICK k \in DOMAIN pool : pool[k] = d
    BY <2>2, <2>3, <2>5 DEF Pipeline, Accounted
  <2> QED
    BY <2>2, <2>6 DEF Pipeline, PoolInOrder
<1> QED
  BY <1>1, <1>2

\* The daemon answers a call.
LEMMA ReplyDoes ==
    ASSUME TypedClient, TypedDaemon, NEW c \in DOMAIN calls,
           NEW answer \in {"Succeeded", "Failed"},
           NEW given \in {0} \cup Tokens, NEW session \in Nat, NEW types,
           Reply(c, answer, given, session, types)
    PROVE  /\ calls' \in Seq(Call) /\ Heard(c) /\ SameCalls
           /\ \A d \in DOMAIN calls : d # c => calls'[d] = calls[d]
           /\ calls'[c].answer = answer /\ calls'[c].given = given
           /\ calls'[c].session = session /\ calls'[c].reply # "none"
           /\ calls[c].reply = "lost" => calls'[c].reply = "lost"
<1>1. PICK x \in {"answer", "mismatch"} : Received(c, x, answer, given, session)
  BY DEF Reply
<1>2. /\ calls' \in Seq(Call) /\ SameCalls
      /\ \A d \in DOMAIN calls : d # c => calls'[d] = calls[d]
      /\ calls'[c].answer = answer /\ calls'[c].given = given
      /\ calls'[c].session = session
      /\ calls'[c].reply = IF calls[c].reply = "none" THEN x ELSE calls[c].reply
  BY <1>1, ReceivedDoes
<1>3. events' = IF c \in watchers /\ calls[c].reply = "none"
                THEN [events EXCEPT ![ProcessOf(c)] = Append(@, Event("finished", c))]
                ELSE events
  BY <1>1 DEF Received
<1>4. Heard(c)
  BY <1>2, <1>3 DEF Heard
<1> QED
  BY <1>2, <1>4

\* The same for a reply that gives no token.
LEMMA ReplyGivesNothing ==
    ASSUME TypedClient, TypedDaemon, NEW c \in DOMAIN calls,
           NEW answer \in {"Succeeded", "Failed"}, NEW session \in Nat, NEW types,
           Reply(c, answer, 0, session, types)
    PROVE  /\ calls' \in Seq(Call) /\ Heard(c) /\ SameCalls
           /\ \A d \in DOMAIN calls : d # c => calls'[d] = calls[d]
           /\ calls'[c].answer = answer /\ calls'[c].given = 0
           /\ calls'[c].session = session /\ calls'[c].reply # "none"
<1>1. PICK g : g = 0
  OBVIOUS
<1>2. g \in {0} \cup Tokens /\ Reply(c, answer, g, session, types)
  BY <1>1
<1>3. /\ calls' \in Seq(Call) /\ Heard(c) /\ SameCalls
      /\ \A d \in DOMAIN calls : d # c => calls'[d] = calls[d]
      /\ calls'[c].answer = answer /\ calls'[c].given = g
      /\ calls'[c].session = session /\ calls'[c].reply # "none"
  BY <1>2, ReplyDoes
<1> QED
  BY <1>1, <1>3

\* A call waits for its key.
LEMMA CheckingDoes ==
    ASSUME TypedDaemon, NEW c \in DOMAIN calls, NEW a \in {"none", "checking"},
           calls' = [calls EXCEPT ![c].answer = a], events' = events
    PROVE  /\ calls' \in Seq(Call) /\ Heard(c) /\ SameCalls
           /\ \A d \in DOMAIN calls : d # c => calls'[d] = calls[d]
           /\ calls'[c].answer = a /\ calls'[c].reply = calls[c].reply
           /\ calls'[c].given = calls[c].given /\ calls'[c].session = calls[c].session
<1>1. calls \in Seq(Call) /\ calls[c] \in Call
  BY DEF TypedDaemon
<1>2. PICK q : q = [calls[c] EXCEPT !.answer = a]
  OBVIOUS
<1>3. /\ q \in Call /\ q.request = calls[c].request /\ q.mode = calls[c].mode
      /\ q.plugin = calls[c].plugin /\ q.token = calls[c].token /\ q.answer = a /\ q.given = calls[c].given
      /\ q.session = calls[c].session /\ q.reply = calls[c].reply
  BY <1>1, <1>2 DEF Call
<1>4. calls' = [calls EXCEPT ![c] = q]
  BY <1>1, <1>2
<1> HIDE <1>2
<1>5. /\ calls' \in Seq(Call) /\ Len(calls') = Len(calls) /\ DOMAIN calls' = DOMAIN calls
      /\ calls'[c] = q /\ \A d \in DOMAIN calls : d # c => calls'[d] = calls[d]
  BY <1>1, <1>3, <1>4
<1>6. SameCalls
  BY <1>3, <1>5 DEF SameCalls
<1> QED
  BY <1>3, <1>5, <1>6 DEF Heard

-----------------------------------------------------------------------------
(* Sessions and tokens. *)

\* A process that is calm has been calm.
LEMMA CalmBefore ==
    ASSUME process' = process, astray \subseteq astray', misfired \subseteq misfired',
           NEW p, Calm(p)'
    PROVE  Calm(p)
BY DEF Calm

\* The process of a call stays the same.
LEMMA SameProcesses ==
    ASSUME TypedClient, TypedDaemon, SameCalls, process' = process
    PROVE  \A c \in DOMAIN calls : ProcessOf(c)' = ProcessOf(c) /\ ProcessOf(c) \in Processes
<1>1. \A c \in DOMAIN calls : calls[c].request \in CipherRequests
  BY CallFields
<1> QED
  BY <1>1 DEF SameCalls, ProcessOf, TypedClient

\* As long as sessions and tokens are not touched, answers do no harm.
LEMMA TokensKept ==
    ASSUME TypedClient, TypedDaemon, Waiting, Sessions, TokensInForce, TokenHeld, TokenGiven,
           SameCalls, UNCHANGED ClientKept, m_cipherSessions' = m_cipherSessions,
           astray \subseteq astray',
           \A c \in DOMAIN calls : Unseen(c)' => Unseen(c),
           \A c \in DOMAIN calls :
                calls[c].mode = "InitializeCipher" => TokenOf(c)' \in {TokenOf(c), 0}
    PROVE  TokensInForce' /\ TokenHeld' /\ TokenGiven'
<1>1. /\ process' = process /\ m_cipherMode' = m_cipherMode /\ misfired' = misfired
      /\ m_watcherQueue' = m_watcherQueue /\ m_cipherSessionToken' = m_cipherSessionToken
  BY DEF ClientKept
<1>2. \A p : Calm(p)' => Calm(p)
  BY <1>1, CalmBefore
<1>3. \A c \in DOMAIN calls : ProcessOf(c)' = ProcessOf(c) /\ ProcessOf(c) \in Processes
  BY <1>1, SameProcesses
<1>4. /\ DOMAIN calls' = DOMAIN calls
      /\ \A c \in DOMAIN calls :
            /\ calls'[c].request = calls[c].request /\ calls'[c].mode = calls[c].mode
            /\ calls'[c].token = calls[c].token
  BY DEF SameCalls
<1>5. \A p, t : NotEnding(p, t) => NotEnding(p, t)'
  BY <1>3, <1>4 DEF NotEnding
<1>6. \A p \in Processes, t \in Tokens : m_cipherSessions[p][t] # 0 =>
            m_cipherSessions[p][t] \in DOMAIN calls
  BY DEF Sessions
<1>7. TokensInForce'
  BY <1>1, <1>2, <1>3, <1>4, <1>6 DEF TokensInForce
<1>70. \A r \in CipherRequests : Finalizing(r)' <=> Finalizing(r)
  BY <1>1, <1>4 DEF Finalizing, Waiting
<1>8. TokenHeld'
  BY <1>1, <1>2, <1>4, <1>5, <1>6, <1>70 DEF TokenHeld, TypedClient
<1>9. TokenGiven'
  <2> SUFFICES ASSUME NEW r \in CipherRequests, Calm(process[r])',
                      NEW i \in DOMAIN m_watcherQueue[r],
                      calls'[m_watcherQueue[r][i]].mode = "InitializeCipher",
                      TokenOf(m_watcherQueue[r][i])' # 0
               PROVE  /\ m_cipherSessions[process[r]][TokenOf(m_watcherQueue[r][i])']
                            = m_watcherQueue[r][i]
                      /\ NotEnding(process[r], TokenOf(m_watcherQueue[r][i]))'
    BY <1>1 DEF TokenGiven
  <2>1. PICK c : c = m_watcherQueue[r][i]
    OBVIOUS
  <2>2. c \in DOMAIN calls /\ calls[c].mode = "InitializeCipher"
    BY <1>4, <2>1 DEF Waiting
  <2>3. TokenOf(c)' = TokenOf(c) /\ TokenOf(c) # 0
    BY <1>1, <2>1, <2>2
  <2>4. Calm(process[r])
    BY <1>1, <1>2
  <2>5. /\ m_cipherSessions[process[r]][TokenOf(c)] = c
        /\ NotEnding(process[r], TokenOf(c))
    BY <2>1, <2>2, <2>3, <2>4 DEF TokenGiven
  <2> QED
    BY <1>1, <1>5, <2>1, <2>3, <2>5
<1> QED
  BY <1>7, <1>8, <1>9

\* A session is recorded for a call that is on its way to it.
LEMMA SessionsKept ==
    ASSUME TypedClient, TypedDaemon, Sessions, TokensInForce, FailedIsAstray,
           SameCalls, process' = process, misfired' = misfired,
           m_cipherSessions' = m_cipherSessions, astray \subseteq astray',
           NEW c \in DOMAIN calls, \A d \in DOMAIN calls : d # c => calls'[d] = calls[d],
           \/ calls'[c].session \in {calls[c].session, 0}
           \/ Unseen(c) /\ calls'[c].session = Session(c),
           calls[c].mode = "FinalizeCipher" /\ calls'[c].answer = "Failed" =>
                calls[c].answer = "Failed" \/ ~Calm(ProcessOf(c))'
    PROVE  Sessions' /\ FailedIsAstray'
<1>2. \A p : Calm(p)' => Calm(p)
  BY CalmBefore
<1>3. \A d \in DOMAIN calls : ProcessOf(d)' = ProcessOf(d) /\ ProcessOf(d) \in Processes
  BY SameProcesses
<1>4. /\ DOMAIN calls' = DOMAIN calls
      /\ \A d \in DOMAIN calls :
            /\ calls'[d].request = calls[d].request /\ calls'[d].mode = calls[d].mode
            /\ calls'[d].token = calls[d].token
  BY DEF SameCalls
<1>5. FailedIsAstray'
  <2> SUFFICES ASSUME NEW d \in DOMAIN calls, calls[d].mode = "FinalizeCipher",
                      calls'[d].answer = "Failed"
               PROVE  ~Calm(ProcessOf(d))'
    BY <1>4 DEF FailedIsAstray
  <2>1. CASE d = c /\ ~Calm(ProcessOf(c))'
    BY <2>1
  <2>2. CASE calls[d].answer = "Failed"
    BY <2>2, <1>2, <1>3 DEF FailedIsAstray
  <2> QED
    BY <2>1, <2>2
<1>6. \A p \in Processes, t \in Tokens :
        m_cipherSessions[p][t] # 0 =>
            /\ m_cipherSessions[p][t] \in DOMAIN calls
            /\ ProcessOf(m_cipherSessions[p][t])' = p
  BY <1>3 DEF Sessions
<1>7. \A d \in DOMAIN calls : calls'[d].session # 0 =>
        /\ calls'[d].session \in DOMAIN calls
        /\ ProcessOf(calls'[d].session) = ProcessOf(d)
        /\ Undisturbed(calls[d].request)' =>
              calls[calls'[d].session].request = calls[d].request
  <2> SUFFICES ASSUME NEW d \in DOMAIN calls, calls'[d].session # 0
               PROVE  /\ calls'[d].session \in DOMAIN calls
                      /\ ProcessOf(calls'[d].session) = ProcessOf(d)
                      /\ Undisturbed(calls[d].request)' =>
                            calls[calls'[d].session].request = calls[d].request
    OBVIOUS
  <2>1. Undisturbed(calls[d].request)' => Undisturbed(calls[d].request) /\ Calm(ProcessOf(d))
    BY <1>4 DEF Undisturbed, Calm, ProcessOf
  <2>2. CASE calls'[d].session = calls[d].session
    BY <2>1, <2>2 DEF Sessions
  <2>3. CASE d = c /\ Unseen(c) /\ calls'[c].session = Session(c)
    <3>1. PICK p : p = ProcessOf(c)
      OBVIOUS
    <3>2. PICK t : t = calls[c].token
      OBVIOUS
    <3>3. t \in Tokens /\ Session(c) = m_cipherSessions[p][t] /\ p \in Processes
      BY <1>3, <2>3, <3>1, <3>2 DEF Session, clientId
    <3>4. /\ Session(c) \in DOMAIN calls /\ ProcessOf(Session(c)) = p
      BY <2>3, <3>3 DEF Sessions
    <3>5. Calm(p) => calls[Session(c)].request = calls[c].request
      BY <2>3, <3>1, <3>2, <3>3 DEF TokensInForce
    <3> QED
      BY <2>1, <2>3, <3>1, <3>4, <3>5
  <2> QED
    BY <2>2, <2>3
<1>8. Sessions'
  <2>1. \A d \in DOMAIN calls : calls'[d].session # 0 =>
            process'[calls'[calls'[d].session].request] = process'[calls'[d].request]
    BY <1>4, <1>7 DEF ProcessOf
  <2>2. \A d \in DOMAIN calls : calls'[d].session # 0 =>
            /\ calls'[d].session \in DOMAIN calls'
            /\ Undisturbed(calls[d].request)' =>
                  calls'[calls'[d].session].request = calls'[d].request
    BY <1>4, <1>7 DEF Undisturbed
  <2>3. \A p \in Processes, t \in Tokens :
            m_cipherSessions'[p][t] # 0 =>
                /\ m_cipherSessions'[p][t] \in DOMAIN calls'
                /\ process'[calls'[m_cipherSessions'[p][t]].request] = p
    BY <1>4, <1>6 DEF ProcessOf
  <2> QED
    BY <1>4, <2>1, <2>2, <2>3 DEF Sessions, ProcessOf
<1> QED
  BY <1>5, <1>8

-----------------------------------------------------------------------------
(* The steps of the daemon. *)

\* A step of the daemon leaves the client alone, but for a reply.
LEMMA DaemonStep ==
    ASSUME SessionsInv, NEW c \in DOMAIN calls, Heard(c), NextReply(c), UNCHANGED ClientKept,
           astray' \subseteq CipherRequests,
           TypedDaemon', Pipeline', Sessions', FailedIsAstray',
           TokensInForce', TokenHeld', TokenGiven'
    PROVE  SessionsInv'
<1>1. /\ events' \in [Processes -> Seq(Events)]
      /\ Waiting' /\ Alike' /\ Signals' /\ Completed' /\ Served' /\ InTurn' /\ NoStrayWatcher'
  BY ClientHears DEF SessionsInv
<1>2. TypedClient'
  BY <1>1 DEF SessionsInv, TypedClient, ClientKept
<1>3. OwnReply'
  BY DEF SessionsInv, OwnReply, ClientKept
<1> QED
  BY <1>1, <1>2, <1>3 DEF SessionsInv

\* ... and does not touch sessions.
LEMMA DaemonStepKeeps ==
    ASSUME SessionsInv, NEW c \in DOMAIN calls, Heard(c), NextReply(c), UNCHANGED ClientKept,
           astray \subseteq astray', astray' \subseteq CipherRequests,
           m_cipherSessions' = m_cipherSessions,
           TypedDaemon', Pipeline',
           \A d \in DOMAIN calls : d # c => calls'[d] = calls[d],
           Unseen(c)' => Unseen(c),
           calls[c].mode = "InitializeCipher" => TokenOf(c)' \in {TokenOf(c), 0},
           \/ calls'[c].session \in {calls[c].session, 0}
           \/ Unseen(c) /\ calls'[c].session = Session(c),
           calls[c].mode = "FinalizeCipher" /\ calls'[c].answer = "Failed" =>
                calls[c].answer = "Failed" \/ ~Calm(ProcessOf(c))'
    PROVE  SessionsInv'
<1>1. SameCalls /\ process' = process /\ misfired' = misfired
  BY DEF Heard, ClientKept
<1>2. Sessions' /\ FailedIsAstray'
  BY <1>1, SessionsKept DEF SessionsInv
<1>3. \A d \in DOMAIN calls : Unseen(d)' => Unseen(d)
  BY DEF Unseen
<1>4. \A d \in DOMAIN calls :
        calls[d].mode = "InitializeCipher" => TokenOf(d)' \in {TokenOf(d), 0}
  BY DEF TokenOf
<1>5. TokensInForce' /\ TokenHeld' /\ TokenGiven'
  BY <1>1, <1>3, <1>4, TokensKept DEF SessionsInv
<1> QED
  BY <1>2, <1>5, DaemonStep

\* The answer to c fails, or the reply to it is lost: no token is given.
LEMMA NoTokenGiven ==
    ASSUME NEW c, calls'[c].given = 0 \/ calls'[c].reply # "answer"
    PROVE  TokenOf(c)' = 0
BY DEF TokenOf

\* The crypto queue hands a call to the processor.
LEMMA HandlePendingRequestKeeps ==
    ASSUME SessionsInv, HandlePendingRequest
    PROVE  SessionsInv'
<1>1. PICK c : c = Head(m_requests)
  OBVIOUS
<1>2. /\ UNCHANGED ClientKept /\ m_cipherSessions' = m_cipherSessions
      /\ m_requests # <<>> /\ m_requests' = Tail(m_requests)
      /\ \/ InitializeRequested(c) \/ UpdateAuthenticationRequested(c)
         \/ UpdateRequested(c) \/ FinalizeRequested(c)
  BY <1>1 DEF HandlePendingRequest, client, application, ClientKept
<1>4. c \in DOMAIN calls /\ calls[c].answer = "none" /\ c = Handled + 1
  <2>1. m_requests[1] = c /\ 1 \in DOMAIN m_requests
    BY <1>1, <1>2 DEF SessionsInv, TypedDaemon
  <2>2. /\ DOMAIN calls = 1 .. Len(calls) /\ Handled \in Nat
        /\ Handled + Len(m_requests) = Len(calls) /\ Len(m_requests) \in Nat
        /\ DOMAIN m_requests = 1 .. Len(m_requests)
    BY CallNumbers DEF SessionsInv
  <2>3. c = Handled + 1
    BY <2>1, <2>2 DEF SessionsInv, Pipeline, QueueInOrder
  <2>4. c \in DOMAIN calls /\ c > Handled
    BY <2>1, <2>2, <2>3
  <2> QED
    BY <2>3, <2>4 DEF SessionsInv, Pipeline, Accounted
<1>3. astray \subseteq astray' /\ astray' \subseteq CipherRequests
  <2>1. calls[c].request \in CipherRequests
    BY <1>4, CallFields DEF SessionsInv
  <2>2. astray' = astray \/ astray' = astray \cup {calls[c].request}
    BY <1>2 DEF InitializeRequested, UpdateAuthenticationRequested, UpdateRequested,
                FinalizeRequested
  <2> QED
    BY <2>1, <2>2 DEF SessionsInv, TypedClient
<1>5. CASE ToThePool(c)
  <2>0. calls' = calls /\ events' = events /\ pool' = Append(pool, c)
        /\ calls[c].plugin \in m_cryptoPlugins
    BY <1>5 DEF ToThePool
  <2>1. Pipeline' /\ pool' \in Seq(Nat)
    BY <1>1, <1>2, <2>0, PipelineStarts DEF SessionsInv
  <2>2. Heard(c)
    BY <2>0 DEF Heard, SameCalls
  <2>3. m_requests' \in Seq(Nat)
    BY <1>2 DEF SessionsInv, TypedDaemon
  <2>4. TypedDaemon'
    BY <1>2, <2>0, <2>1, <2>3 DEF SessionsInv, TypedDaemon
  <2>5. Sessions' /\ FailedIsAstray'
    BY <1>2, <1>3, <1>4, <2>0, <2>2, SessionsKept DEF SessionsInv, Heard, ClientKept
  <2>6. TokensInForce' /\ TokenHeld' /\ TokenGiven'
    <3>1. \A d \in DOMAIN calls : /\ Unseen(d)' => Unseen(d)
                                  /\ TokenOf(d)' \in {TokenOf(d), 0}
      BY <2>0 DEF Unseen, TokenOf
    <3> QED
      BY <1>2, <1>3, <2>2, <3>1, TokensKept DEF SessionsInv, Heard
  <2>7. TypedClient'
    BY <1>2, <1>3, <2>0 DEF SessionsInv, TypedClient, ClientKept
  <2>8. Waiting' /\ Alike' /\ Signals' /\ Completed' /\ Served' /\ InTurn' /\ NoStrayWatcher'
        /\ OwnReply'
    BY <1>2, <2>0 DEF SessionsInv, ClientKept, Waiting, Alike, Signals, Completed, Served, InTurn,
                      NoStrayWatcher, OwnReply, ProcessOf, Regular
  <2> QED
    BY <2>1, <2>4, <2>5, <2>6, <2>7, <2>8 DEF SessionsInv
<1>6. CASE /\ calls[c].mode = "InitializeCipher" /\ pool' = pool /\ events' = events
           /\ calls[c].plugin \in m_cryptoPlugins
           /\ calls' = [calls EXCEPT ![c].answer = "checking"]
  <2>1. /\ calls' \in Seq(Call) /\ Heard(c) /\ SameCalls
        /\ \A d \in DOMAIN calls : d # c => calls'[d] = calls[d]
        /\ calls'[c].answer = "checking" /\ calls'[c].reply = calls[c].reply
        /\ calls'[c].given = calls[c].given /\ calls'[c].session = calls[c].session
    BY <1>4, <1>6, CheckingDoes DEF SessionsInv
  <2>2. Pipeline'
    BY <1>1, <1>2, <1>6, <2>1, PipelineSkips DEF SessionsInv
  <2>3. TypedDaemon'
    BY <1>2, <1>6, <2>1 DEF SessionsInv, TypedDaemon
  <2>4. NextReply(c)
    BY <1>6, InitializationIsNext DEF SessionsInv
  <2>5. TokenOf(c)' = TokenOf(c) /\ ~Unseen(c)'
    BY <2>1 DEF TokenOf, Unseen
  <2> QED
    BY <1>2, <1>3, <1>4, <1>6, <2>1, <2>2, <2>3, <2>4, <2>5, DaemonStepKeeps
<1>7. CASE /\ calls[c].mode = "InitializeCipher" \/ calls[c].plugin \notin m_cryptoPlugins
           /\ calls[c].mode = "FinalizeCipher" => astray' = astray \cup {calls[c].request}
           /\ pool' = pool
           /\ Reply(c, "Failed", 0, 0, Crypto!PendingCases[Type(calls[c].mode)].reply)
  <2>0. TypedClient /\ TypedDaemon /\ Pipeline /\ Waiting /\ Alike
    BY DEF SessionsInv
  <2>1. /\ calls' \in Seq(Call) /\ Heard(c) /\ SameCalls
        /\ \A d \in DOMAIN calls : d # c => calls'[d] = calls[d]
        /\ calls'[c].answer = "Failed" /\ calls'[c].given = 0
        /\ calls'[c].session = 0 /\ calls'[c].reply # "none"
    BY <1>4, <1>7, <2>0, ReplyGivesNothing
  <2>2. Pipeline'
    BY <1>1, <1>2, <1>7, <2>0, <2>1, PipelineSkips
  <2>3. TypedDaemon'
    BY <1>2, <1>7, <2>0, <2>1 DEF TypedDaemon
  <2>4. NextReply(c)
    BY <1>4, <1>7, <2>0, InitializationIsNext, NoPluginIsNext
  <2>5. TokenOf(c)' = 0 /\ ~Unseen(c)'
    BY <2>1, NoTokenGiven DEF Unseen
  <2>6. calls[c].mode = "FinalizeCipher" => ~Calm(ProcessOf(c))'
    BY <1>2, <1>4, <1>7, <2>1 DEF Calm, ProcessOf, SameCalls, ClientKept
  <2> QED
    BY <1>2, <1>3, <1>4, <1>7, <2>1, <2>2, <2>3, <2>4, <2>5, <2>6, DaemonStepKeeps
<1> QED
  BY <1>2, <1>5, <1>6, <1>7 DEF InitializeRequested, UpdateAuthenticationRequested,
                                UpdateRequested, FinalizeRequested, NoSuchPlugin

\* The secrets queue answers with the key, or without it.
LEMMA KeyLookedUpKeeps ==
    ASSUME SessionsInv, NEW c \in DOMAIN calls, KeyLookedUp(c)
    PROVE  SessionsInv'
<1>1. /\ UNCHANGED ClientKept /\ astray' = astray /\ m_cipherSessions' = m_cipherSessions
      /\ m_requests' = m_requests /\ calls[c].answer = "checking"
  BY DEF KeyLookedUp, client, application, ClientKept
<1>2. astray \subseteq astray' /\ astray' \subseteq CipherRequests
  BY <1>1 DEF SessionsInv, TypedClient
<1>3. calls[c].mode = "InitializeCipher"
  BY <1>1 DEF SessionsInv, Pipeline, Accounted
<1>4. NextReply(c)
  BY <1>3, InitializationIsNext DEF SessionsInv
<1>5. CASE /\ pool' = Append(pool, c) /\ events' = events
           /\ calls' = [calls EXCEPT ![c].answer = "none"]
  <2>1. /\ calls' \in Seq(Call) /\ Heard(c) /\ SameCalls
        /\ \A d \in DOMAIN calls : d # c => calls'[d] = calls[d]
        /\ calls'[c].answer = "none" /\ calls'[c].reply = calls[c].reply
        /\ calls'[c].given = calls[c].given /\ calls'[c].session = calls[c].session
    BY <1>5, CheckingDoes DEF SessionsInv
  <2>2. Pipeline' /\ pool' \in Seq(Nat)
    BY <1>1, <1>5, <2>1, PipelineLookedUp DEF SessionsInv
  <2>3. TypedDaemon'
    BY <1>1, <2>1, <2>2 DEF SessionsInv, TypedDaemon
  <2>4. TokenOf(c)' = TokenOf(c) /\ ~Unseen(c)'
    BY <1>3, <2>1 DEF TokenOf, Unseen, SameCalls
  <2> QED
    BY <1>1, <1>2, <1>3, <1>4, <2>1, <2>2, <2>3, <2>4, DaemonStepKeeps
<1>6. CASE pool' = pool /\ Fails(c, 0)
  <2>1. /\ calls' \in Seq(Call) /\ Heard(c) /\ SameCalls
        /\ \A d \in DOMAIN calls : d # c => calls'[d] = calls[d]
        /\ calls'[c].answer = "Failed" /\ calls'[c].given = 0
        /\ calls'[c].session = 0 /\ calls'[c].reply # "none"
    BY <1>6, ReplyDoes DEF SessionsInv, Fails
  <2>2. Pipeline'
    BY <1>1, <1>6, <2>1, PipelineAnswers DEF SessionsInv
  <2>3. TypedDaemon'
    BY <1>1, <1>6, <2>1 DEF SessionsInv, TypedDaemon
  <2>4. TokenOf(c)' = 0 /\ ~Unseen(c)'
    BY <2>1, NoTokenGiven DEF Unseen
  <2> QED
    BY <1>1, <1>2, <1>3, <1>4, <2>1, <2>2, <2>3, <2>4, DaemonStepKeeps
<1> QED
  BY <1>5, <1>6 DEF KeyLookedUp

\* The client gives up waiting for a reply.
LEMMA TimeoutKeeps ==
    ASSUME SessionsInv, NEW c \in DOMAIN calls, Timeout(c)
    PROVE  SessionsInv'
<1>1. /\ UNCHANGED ClientKept /\ astray' = astray /\ m_cipherSessions' = m_cipherSessions
      /\ m_requests' = m_requests /\ pool' = pool /\ calls[c].reply = "none"
  BY DEF Timeout, client, application, daemon, ClientKept
<1>2. astray \subseteq astray' /\ astray' \subseteq CipherRequests
  BY <1>1 DEF SessionsInv, TypedClient
<1>3. NextReply(c)
  <2> SUFFICES ASSUME NEW r \in CipherRequests, NEW i \in DOMAIN m_watcherQueue[r],
                      NEW j \in DOMAIN m_watcherQueue[r], i < j, m_watcherQueue[r][j] = c
               PROVE  calls[m_watcherQueue[r][i]].reply # "none"
    BY DEF NextReply
  <2>1. PICK d : d = m_watcherQueue[r][i]
    OBVIOUS
  <2>2. d \in DOMAIN calls /\ calls[d].request = r /\ calls[c].request = r /\ d < c
    BY <2>1 DEF SessionsInv, Waiting
  <2>3. d \in Nat \ {0} /\ c \in Nat \ {0}
    BY <2>2, CallFields DEF SessionsInv
  <2>4. d \in 1 .. c - 1 /\ ProcessOf(d) = ProcessOf(c)
    BY <2>2, <2>3 DEF ProcessOf
  <2> QED
    BY <2>1, <2>4 DEF Timeout
<1>4. Received(c, "lost", calls[c].answer, calls[c].given, calls[c].session)
  BY DEF Timeout
<1>5. /\ calls' \in Seq(Call) /\ SameCalls
      /\ \A d \in DOMAIN calls : d # c => calls'[d] = calls[d]
      /\ calls'[c].answer = calls[c].answer /\ calls'[c].session = calls[c].session
      /\ calls'[c].reply = "lost"
  <2>1. /\ calls[c].answer \in {"none", "checking", "Succeeded", "Failed"}
        /\ calls[c].given \in {0} \cup Tokens /\ calls[c].session \in Nat
    BY CallFields DEF SessionsInv
  <2>2. PICK a \in {"none", "checking", "Succeeded", "Failed"} : a = calls[c].answer
    BY <2>1
  <2>3. PICK g \in {0} \cup Tokens : g = calls[c].given
    BY <2>1
  <2>4. PICK n \in Nat : n = calls[c].session
    BY <2>1
  <2>5. Received(c, "lost", a, g, n)
    BY <1>4, <2>2, <2>3, <2>4
  <2>6. TypedClient /\ TypedDaemon
    BY DEF SessionsInv
  <2>7. /\ calls' \in Seq(Call) /\ SameCalls
        /\ \A d \in DOMAIN calls : d # c => calls'[d] = calls[d]
        /\ calls'[c].answer = a /\ calls'[c].session = n
        /\ calls'[c].reply = IF calls[c].reply = "none" THEN "lost" ELSE calls[c].reply
    BY <2>5, <2>6, ReceivedDoes
  <2> QED
    BY <1>1, <2>2, <2>4, <2>7
<1>6. Heard(c)
  BY <1>1, <1>4, <1>5 DEF Heard, Received
<1>7. Pipeline'
  BY <1>1, <1>5, PipelineAnswers DEF SessionsInv
<1>8. TypedDaemon'
  BY <1>1, <1>5 DEF SessionsInv, TypedDaemon
<1>9. TokenOf(c)' = 0 /\ (Unseen(c)' => Unseen(c))
  BY <1>5, NoTokenGiven DEF Unseen, SameCalls
<1> QED
  BY <1>1, <1>2, <1>3, <1>5, <1>6, <1>7, <1>8, <1>9, DaemonStepKeeps

\* No call that is still to come, and no request, relies on token t of process p.
NobodyRelies(p, t) ==
    Calm(p)' =>
        /\ \A c \in DOMAIN calls : Unseen(c)' /\ ProcessOf(c) = p => calls[c].token # t
        /\ \A r \in CipherRequests :
                process[r] = p /\ m_cipherSessionToken[r] = t =>
                    Finalizing(r)

\* The tokens that are about to be given are other ones, or that of session v.
NobodyElseIsGiven(p, t, v) ==
    \A r \in CipherRequests : \A i \in DOMAIN m_watcherQueue[r] :
        Calm(process[r])' /\ calls[m_watcherQueue[r][i]].mode = "InitializeCipher" =>
            \/ TokenOf(m_watcherQueue[r][i])' = 0
            \/ /\ TokenOf(m_watcherQueue[r][i])' = TokenOf(m_watcherQueue[r][i])
               /\ process[r] = p => TokenOf(m_watcherQueue[r][i]) # t
            \/ /\ process[r] = p /\ TokenOf(m_watcherQueue[r][i])' = t
               /\ m_watcherQueue[r][i] = v

\* Session v, or none, is put under token t of process p, which nobody uses.
LEMMA SessionPut ==
    ASSUME TypedClient, TypedDaemon, Waiting, Sessions, TokensInForce, TokenHeld, TokenGiven,
           SameCalls, UNCHANGED ClientKept, astray \subseteq astray',
           NEW p \in Processes, NEW t \in Tokens, NEW v \in Nat,
           m_cipherSessions' = [m_cipherSessions EXCEPT ![p][t] = v],
           \A c \in DOMAIN calls : Unseen(c)' => Unseen(c),
           NobodyRelies(p, t), NobodyElseIsGiven(p, t, v)
    PROVE  /\ m_cipherSessions' \in [Processes -> [Tokens -> Nat]]
           /\ TokensInForce' /\ TokenHeld' /\ TokenGiven'
<1>0. /\ m_cipherSessions' \in [Processes -> [Tokens -> Nat]]
      /\ m_cipherSessions'[p][t] = v
      /\ \A q \in Processes, u \in Tokens :
            q # p \/ u # t => m_cipherSessions'[q][u] = m_cipherSessions[q][u]
  BY DEF TypedDaemon
<1>1. /\ process' = process /\ m_cipherMode' = m_cipherMode /\ misfired' = misfired
      /\ m_watcherQueue' = m_watcherQueue /\ m_cipherSessionToken' = m_cipherSessionToken
  BY DEF ClientKept
<1>2. \A q : Calm(q)' => Calm(q)
  BY <1>1, CalmBefore
<1>3. \A c \in DOMAIN calls : ProcessOf(c)' = ProcessOf(c) /\ ProcessOf(c) \in Processes
  BY <1>1, SameProcesses
<1>4. /\ DOMAIN calls' = DOMAIN calls
      /\ \A c \in DOMAIN calls :
            /\ calls'[c].request = calls[c].request /\ calls'[c].mode = calls[c].mode
            /\ calls'[c].token = calls[c].token
  BY DEF SameCalls
<1>5. \A q, u : NotEnding(q, u) => NotEnding(q, u)'
  BY <1>3, <1>4 DEF NotEnding
<1>6. \A q \in Processes, u \in Tokens : m_cipherSessions[q][u] # 0 =>
            m_cipherSessions[q][u] \in DOMAIN calls
  BY DEF Sessions
<1>7. TokensInForce'
  <2> SUFFICES ASSUME NEW c \in DOMAIN calls, Unseen(c)', Calm(ProcessOf(c))'
               PROVE  /\ calls'[c].token \in Tokens
                      /\ m_cipherSessions'[ProcessOf(c)'][calls'[c].token] # 0
                      /\ calls'[m_cipherSessions'[ProcessOf(c)'][calls'[c].token]].request
                            = calls'[c].request
                      /\ calls'[c].mode = "FinalizeCipher" =>
                            \A d \in DOMAIN calls' :
                                Unseen(d)' /\ ProcessOf(d)' = ProcessOf(c)'
                                    /\ calls'[d].token = calls'[c].token => d <= c
    BY <1>4 DEF TokensInForce
  <2>1. PICK q : q = ProcessOf(c)
    OBVIOUS
  <2>2. PICK u : u = calls[c].token
    OBVIOUS
  <2>3. Unseen(c) /\ Calm(q) /\ Calm(q)' /\ q \in Processes
    BY <1>2, <1>3, <2>1
  <2>4. /\ u \in Tokens /\ m_cipherSessions[q][u] # 0
        /\ calls[m_cipherSessions[q][u]].request = calls[c].request
        /\ calls[c].mode = "FinalizeCipher" =>
              \A d \in DOMAIN calls : Unseen(d) /\ ProcessOf(d) = q /\ calls[d].token = u => d <= c
    BY <2>1, <2>2, <2>3 DEF TokensInForce
  <2>5. q # p \/ u # t
    BY <2>1, <2>2, <2>3 DEF NobodyRelies
  <2>6. m_cipherSessions'[q][u] = m_cipherSessions[q][u] /\ m_cipherSessions[q][u] \in DOMAIN calls
    BY <1>0, <1>6, <2>3, <2>4, <2>5
  <2> QED
    BY <1>3, <1>4, <2>1, <2>2, <2>4, <2>6
<1>70. \A r \in CipherRequests : Finalizing(r)' <=> Finalizing(r)
  BY <1>1, <1>4 DEF Finalizing, Waiting
<1>8. TokenHeld'
  <2> SUFFICES ASSUME NEW r \in CipherRequests, m_cipherSessionToken[r] # 0, Calm(process[r])',
                      ~Finalizing(r)
               PROVE  /\ m_cipherSessions'[process[r]][m_cipherSessionToken[r]] # 0
                      /\ calls'[m_cipherSessions'[process[r]][m_cipherSessionToken[r]]].request = r
                      /\ NotEnding(process[r], m_cipherSessionToken[r])'
    BY <1>1, <1>70 DEF TokenHeld
  <2>1. PICK q : q = process[r]
    OBVIOUS
  <2>2. PICK u : u = m_cipherSessionToken[r]
    OBVIOUS
  <2>3. u \in Tokens /\ q \in Processes /\ Calm(q) /\ Calm(q)'
    BY <1>1, <1>2, <2>1, <2>2 DEF TypedClient
  <2>4. /\ m_cipherSessions[q][u] # 0 /\ calls[m_cipherSessions[q][u]].request = r
        /\ NotEnding(q, u)
    BY <2>1, <2>2, <2>3 DEF TokenHeld
  <2>5. q # p \/ u # t
    BY <2>1, <2>2, <2>3 DEF NobodyRelies
  <2>6. m_cipherSessions'[q][u] = m_cipherSessions[q][u] /\ m_cipherSessions[q][u] \in DOMAIN calls
    BY <1>0, <1>6, <2>3, <2>4, <2>5
  <2>7. NotEnding(q, u)'
    BY <1>5, <2>4
  <2> QED
    BY <1>1, <1>4, <2>1, <2>2, <2>4, <2>6, <2>7
<1>9. TokenGiven'
  <2> SUFFICES ASSUME NEW r \in CipherRequests, Calm(process[r])',
                      NEW i \in DOMAIN m_watcherQueue[r],
                      calls'[m_watcherQueue[r][i]].mode = "InitializeCipher",
                      TokenOf(m_watcherQueue[r][i])' # 0
               PROVE  /\ m_cipherSessions'[process[r]][TokenOf(m_watcherQueue[r][i])']
                            = m_watcherQueue[r][i]
                      /\ NotEnding(process[r], TokenOf(m_watcherQueue[r][i]))'
    BY <1>1 DEF TokenGiven
  <2>1. PICK c : c = m_watcherQueue[r][i]
    OBVIOUS
  <2>2. PICK q : q = process[r]
    OBVIOUS
  <2>3. c \in DOMAIN calls /\ calls[c].mode = "InitializeCipher" /\ q \in Processes
    BY <1>4, <2>1, <2>2 DEF Waiting, TypedClient
  <2>4. Calm(q) /\ Calm(q)'
    BY <1>1, <1>2, <2>2
  <2>5. CASE TokenOf(c)' = TokenOf(c) /\ (q = p => TokenOf(c) # t)
    <3>1. PICK u : u = TokenOf(c)
      OBVIOUS
    <3>2. u # 0 /\ u = TokenOf(c)'
      BY <1>1, <2>1, <2>5, <3>1
    <3>3. m_cipherSessions[q][u] = c /\ NotEnding(q, u)
      BY <2>1, <2>2, <2>3, <2>4, <3>1, <3>2 DEF TokenGiven
    <3>4. u \in Tokens
      <4>1. calls[c].given \in {0} \cup Tokens
        BY <2>3, CallFields
      <4> QED
        BY <4>1, <3>1, <3>2 DEF TokenOf
    <3>5. m_cipherSessions'[q][u] = c
      BY <1>0, <2>3, <2>5, <3>1, <3>3, <3>4
    <3>6. NotEnding(q, u)'
      BY <1>5, <3>3
    <3> QED
      BY <1>1, <2>1, <2>2, <3>2, <3>5, <3>6
  <2>6. CASE q = p /\ TokenOf(c)' = t /\ c = v
    <3>1. NotEnding(p, t)'
      BY <1>3, <1>4, <2>4, <2>6 DEF NotEnding, NobodyRelies
    <3> QED
      BY <1>0, <1>1, <2>1, <2>2, <2>6, <3>1
  <2> QED
    BY <1>1, <2>1, <2>2, <2>3, <2>5, <2>6 DEF NobodyElseIsGiven
<1> QED
  BY <1>0, <1>7, <1>8, <1>9

\* Calls on a session that are not in the thread yet were made after the first
\* one of the pool.
LEMMA UnseenIsLater ==
    ASSUME TypedClient, TypedDaemon, Pipeline, Waiting, Alike, pool # <<>>, NEW c,
           c = Head(pool),
           calls[c].mode # "InitializeCipher", NEW d \in DOMAIN calls, Unseen(d), d # c
    PROVE  c < d
<1>1. c \in DOMAIN calls /\ c \in 1 .. Handled
  BY HeadOfPoolIsNext
<1>2. /\ Handled \in Nat /\ DOMAIN pool = 1 .. Len(pool) /\ Len(pool) \in Nat
  BY CallNumbers
<1>3. d \in Nat /\ c \in Nat
  BY <1>1, CallFields
<1>4. CASE d > Handled
  BY <1>1, <1>2, <1>3, <1>4
<1>5. CASE d <= Handled
  <2>1. PICK k \in DOMAIN pool : pool[k] = d
    BY <1>5 DEF Unseen, Pipeline, Accounted
  <2>2. 1 \in DOMAIN pool /\ pool[1] = c
    BY DEF TypedDaemon
  <2>3. 1 < k
    BY <1>2, <2>1, <2>2
  <2> QED
    BY <2>1, <2>2, <2>3 DEF Pipeline, PoolInOrder, Unseen
<1> QED
  BY <1>2, <1>3, <1>4, <1>5

\* The thread answers the first call of the pool and opens or ends no session.
LEMMA JobKeeps ==
    ASSUME SessionsInv, pool # <<>>, pool' = Tail(pool), NEW c, c = Head(pool),
           UNCHANGED ClientKept, astray' = astray, m_requests' = m_requests,
           m_cipherSessions' = m_cipherSessions,
           NEW a \in {"Succeeded", "Failed"}, NEW s \in Nat, NEW types,
           Reply(c, a, 0, s, types),
           s = 0 \/ (calls[c].mode # "InitializeCipher" /\ s = Session(c)),
           calls[c].mode = "FinalizeCipher" => ~Calm(ProcessOf(c))
    PROVE  SessionsInv'
<1>1. c \in DOMAIN calls /\ NextReply(c) /\ calls[c].answer = "none"
  BY HeadOfPoolIsNext DEF SessionsInv
<1>2. /\ calls' \in Seq(Call) /\ Heard(c) /\ SameCalls
      /\ \A d \in DOMAIN calls : d # c => calls'[d] = calls[d]
      /\ calls'[c].answer = a /\ calls'[c].given = 0
      /\ calls'[c].session = s /\ calls'[c].reply # "none"
  BY <1>1, ReplyGivesNothing DEF SessionsInv
<1>3. Pipeline' /\ pool' \in Seq(Nat)
  BY <1>2, PipelineRuns DEF SessionsInv
<1>4. TypedDaemon'
  BY <1>2, <1>3 DEF SessionsInv, TypedDaemon
<1>5. TokenOf(c)' = 0 /\ ~Unseen(c)'
  BY <1>2, NoTokenGiven DEF Unseen
<1>6. \/ calls'[c].session \in {calls[c].session, 0}
      \/ Unseen(c) /\ calls'[c].session = Session(c)
  BY <1>1, <1>2 DEF Unseen
<1>7. calls[c].mode = "FinalizeCipher" => ~Calm(ProcessOf(c))'
  <2>1. ProcessOf(c)' = ProcessOf(c)
    BY <1>1, <1>2, SameProcesses DEF SessionsInv, ClientKept
  <2> QED
    BY <2>1 DEF Calm, ClientKept
<1>8. astray \subseteq astray' /\ astray' \subseteq CipherRequests
  BY DEF SessionsInv, TypedClient
<1> QED
  BY <1>1, <1>2, <1>3, <1>4, <1>5, <1>6, <1>7, <1>8, DaemonStepKeeps

\* A session is opened.
LEMMA OpeningKeeps ==
    ASSUME SessionsInv, pool # <<>>, pool' = Tail(pool), NEW c, c = Head(pool),
           UNCHANGED ClientKept, astray' = astray, m_requests' = m_requests,
           calls[c].mode = "InitializeCipher",
           NEW t \in getNextCipherSessionToken(ProcessOf(c)),
           m_cipherSessions' = [m_cipherSessions EXCEPT ![ProcessOf(c)][t] = c],
           NEW types, Reply(c, "Succeeded", t, c, types)
    PROVE  SessionsInv'
<1>1. c \in DOMAIN calls /\ NextReply(c) /\ calls[c].answer = "none" /\ c \in Nat
      /\ calls[c].request \in CipherRequests
  BY HeadOfPoolIsNext, CallFields DEF SessionsInv
<1>2. PICK p : p = ProcessOf(c)
  OBVIOUS
<1>3. p \in Processes
  BY <1>1, <1>2 DEF ProcessOf, SessionsInv, TypedClient
<1>4. t \in Tokens /\ m_cipherSessions[p][t] = 0
  BY <1>2 DEF getNextCipherSessionToken
<1>5. /\ calls' \in Seq(Call) /\ Heard(c) /\ SameCalls
      /\ \A d \in DOMAIN calls : d # c => calls'[d] = calls[d]
      /\ calls'[c].answer = "Succeeded" /\ calls'[c].given = t
      /\ calls'[c].session = c /\ calls'[c].reply # "none"
  BY <1>1, <1>4, ReplyDoes DEF SessionsInv
<1>6. Pipeline' /\ pool' \in Seq(Nat)
  BY <1>5, PipelineRuns DEF SessionsInv
<1>7. astray \subseteq astray' /\ astray' \subseteq CipherRequests
  BY DEF SessionsInv, TypedClient
<1>8. \A d \in DOMAIN calls : Unseen(d)' => Unseen(d) /\ d # c
  BY <1>5 DEF Unseen
<1>9. /\ process' = process /\ misfired' = misfired
      /\ m_cipherSessions' = [m_cipherSessions EXCEPT ![p][t] = c]
  BY <1>2 DEF ClientKept
<1>10. Calm(p)' => Calm(p)
  BY <1>7, <1>9, CalmBefore
<1>11. NobodyRelies(p, t)
  <2>1. ASSUME Calm(p)'
        PROVE  \A d \in DOMAIN calls : Unseen(d)' /\ ProcessOf(d) = p => calls[d].token # t
    BY <1>4, <1>8, <1>10, <2>1 DEF SessionsInv, TokensInForce
  <2>2. ASSUME Calm(p)'
        PROVE  \A r \in CipherRequests : process[r] = p /\ m_cipherSessionToken[r] = t =>
                Finalizing(r)
    <3>1. 0 \notin Tokens
      BY DEF Tokens
    <3> QED
      BY <1>4, <1>10, <2>2, <3>1 DEF SessionsInv, TokenHeld
  <2> QED
    BY <2>1, <2>2 DEF NobodyRelies
<1>12. /\ TypedClient /\ TypedDaemon /\ Waiting /\ Sessions /\ TokensInForce
       /\ TokenHeld /\ TokenGiven
       /\ SameCalls /\ c \in Nat
       /\ \A d \in DOMAIN calls : Unseen(d)' => Unseen(d)
  BY <1>1, <1>5, <1>8 DEF SessionsInv
<1>13. NobodyElseIsGiven(p, t, c)
  <2> SUFFICES ASSUME NEW r \in CipherRequests, NEW i \in DOMAIN m_watcherQueue[r],
                      Calm(process[r])', calls[m_watcherQueue[r][i]].mode = "InitializeCipher",
                      TokenOf(m_watcherQueue[r][i])' # 0
               PROVE  \/ /\ TokenOf(m_watcherQueue[r][i])' = TokenOf(m_watcherQueue[r][i])
                         /\ process[r] = p => TokenOf(m_watcherQueue[r][i]) # t
                      \/ /\ process[r] = p /\ TokenOf(m_watcherQueue[r][i])' = t
                         /\ m_watcherQueue[r][i] = c
    BY DEF NobodyElseIsGiven
  <2>1. PICK d : d = m_watcherQueue[r][i] /\ m_watcherQueue'[r][i] = d
    BY DEF ClientKept
  <2>2. d \in DOMAIN calls /\ calls[d].request = r
    BY <2>1 DEF SessionsInv, Waiting
  <2>3. TokenOf(d)' # 0
    BY <2>1
  <2>4. CASE d = c
    BY <2>1, <2>2, <2>3, <2>4, <1>2, <1>5 DEF TokenOf, ProcessOf
  <2>5. CASE d # c
    <3>1. TokenOf(d)' = TokenOf(d) /\ TokenOf(d) # 0
      BY <1>5, <2>2, <2>3, <2>5 DEF TokenOf
    <3>2. d # 0
      BY <2>2, CallFields DEF SessionsInv
    <3>3. Calm(process[r])
      BY <1>7, <1>9, CalmBefore
    <3>4. m_cipherSessions[process[r]][TokenOf(d)] = d
      BY <2>1, <3>1, <3>3 DEF SessionsInv, TokenGiven
    <3> QED
      BY <1>4, <2>1, <3>1, <3>2, <3>4
  <2> QED
    BY <2>4, <2>5
<1>14. /\ m_cipherSessions' \in [Processes -> [Tokens -> Nat]]
       /\ TokensInForce' /\ TokenHeld' /\ TokenGiven'
  BY <1>3, <1>4, <1>7, <1>9, <1>11, <1>12, <1>13, SessionPut
<1>15. TypedDaemon'
  BY <1>5, <1>6, <1>14 DEF SessionsInv, TypedDaemon
<1>16. \A d \in DOMAIN calls : ProcessOf(d)' = ProcessOf(d)
  BY <1>5, <1>9, SameProcesses DEF SessionsInv
<1>17. FailedIsAstray'
  BY <1>1, <1>5, <1>9, <1>16 DEF SessionsInv, FailedIsAstray, SameCalls, Calm
<1>18. Sessions'
  <2>1. \A q \in Processes, u \in Tokens :
            m_cipherSessions'[q][u] # 0 =>
                /\ m_cipherSessions'[q][u] \in DOMAIN calls
                /\ ProcessOf(m_cipherSessions'[q][u]) = q
    BY <1>1, <1>2, <1>3, <1>4, <1>9 DEF SessionsInv, Sessions, TypedDaemon
  <2>2. \A q \in Processes, u \in Tokens :
            m_cipherSessions'[q][u] # 0 =>
                /\ m_cipherSessions'[q][u] \in DOMAIN calls'
                /\ process'[calls'[m_cipherSessions'[q][u]].request] = q
    <3>1. DOMAIN calls' = DOMAIN calls
          /\ \A d \in DOMAIN calls : process'[calls'[d].request] = ProcessOf(d)
      BY <1>5, <1>9 DEF ProcessOf, SameCalls
    <3> QED
      BY <2>1, <3>1
  <2>3. \A d \in DOMAIN calls : calls'[d].session # 0 =>
            /\ calls'[d].session \in DOMAIN calls
            /\ ProcessOf(calls'[d].session) = ProcessOf(d)
            /\ Undisturbed(calls[d].request)' =>
                  calls[calls'[d].session].request = calls[d].request
    <3>1. \A r : Undisturbed(r)' => Undisturbed(r)
      BY <1>7, <1>9 DEF Undisturbed
    <3>2. \A d \in DOMAIN calls : calls'[d].session # 0 =>
              d = c \/ calls'[d].session = calls[d].session
      BY <1>5
    <3> QED
      BY <1>1, <1>5, <3>1, <3>2 DEF SessionsInv, Sessions
  <2>4. \A d \in DOMAIN calls' : calls'[d].session # 0 =>
            /\ calls'[d].session \in DOMAIN calls'
            /\ process'[calls'[calls'[d].session].request] = process'[calls'[d].request]
            /\ Undisturbed(calls[d].request)' =>
                  calls'[calls'[d].session].request = calls'[d].request
    BY <2>3, <1>5, <1>9 DEF ProcessOf, SameCalls, Undisturbed
  <2> QED
    BY <2>2, <2>4 DEF Sessions, ProcessOf
<1> QED
  BY <1>1, <1>5, <1>6, <1>7, <1>14, <1>15, <1>17, <1>18, DaemonStep

\* A session is finalized: no call that is still to come relies on it, or its
\* process is calm no more.
LEMMA FinalizingKeeps ==
    ASSUME SessionsInv, pool # <<>>, pool' = Tail(pool), NEW c, c = Head(pool),
           UNCHANGED ClientKept, astray \subseteq astray', astray' \subseteq CipherRequests,
           m_requests' = m_requests,
           calls[c].mode = "FinalizeCipher", Session(c) # 0,
           m_cipherSessions' = [m_cipherSessions EXCEPT ![ProcessOf(c)][calls[c].token] = 0],
           NEW a \in {"Succeeded", "Failed"}, NEW s \in Nat, s = Session(c), NEW types,
           Reply(c, a, 0, s, types),
           a = "Failed" => calls[c].request \in astray'
    PROVE  SessionsInv'
<1>1. c \in DOMAIN calls /\ NextReply(c) /\ calls[c].answer = "none" /\ c \in Nat
      /\ calls[c].request \in CipherRequests
  BY HeadOfPoolIsNext, CallFields DEF SessionsInv
<1>2. PICK p : p = ProcessOf(c)
  OBVIOUS
<1>3. PICK t : t = calls[c].token
  OBVIOUS
<1>4. p \in Processes /\ t \in Tokens /\ Session(c) = m_cipherSessions[p][t] /\ Session(c) \in Nat
      /\ m_cipherSessions' = [m_cipherSessions EXCEPT ![p][t] = 0]
  <2>1. p \in Processes
    BY <1>1, <1>2 DEF ProcessOf, SessionsInv, TypedClient
  <2>2. t \in Tokens /\ Session(c) = m_cipherSessions[p][t]
    BY <1>2, <1>3 DEF Session, clientId
  <2> QED
    BY <1>2, <1>3, <2>1, <2>2 DEF SessionsInv, TypedDaemon
<1>5. /\ calls' \in Seq(Call) /\ Heard(c) /\ SameCalls
      /\ \A d \in DOMAIN calls : d # c => calls'[d] = calls[d]
      /\ calls'[c].answer = a /\ calls'[c].given = 0
      /\ calls'[c].session = s /\ calls'[c].reply # "none"
  BY <1>1, ReplyGivesNothing DEF SessionsInv
<1>6. Pipeline' /\ pool' \in Seq(Nat)
  BY <1>5, PipelineRuns DEF SessionsInv
<1>7. \A d \in DOMAIN calls : Unseen(d)' => Unseen(d) /\ d # c
  BY <1>5 DEF Unseen
<1>8. process' = process /\ misfired' = misfired
  BY DEF ClientKept
<1>9. Calm(p)' => Calm(p)
  BY <1>8, CalmBefore
<1>10. Unseen(c)
  BY <1>1 DEF Unseen
<1>11. NobodyRelies(p, t)
  <2>1. ASSUME Calm(p)', NEW d \in DOMAIN calls, Unseen(d)', ProcessOf(d) = p, calls[d].token = t
        PROVE  FALSE
    <3>1. c < d
      BY <1>7, <2>1, UnseenIsLater DEF SessionsInv
    <3>2. d <= c
      BY <1>1, <1>2, <1>3, <1>7, <1>9, <1>10, <2>1 DEF SessionsInv, TokensInForce
    <3>3. d \in Nat
      BY CallFields DEF SessionsInv
    <3> QED
      BY <1>1, <3>1, <3>2, <3>3
  <2>2. ASSUME Calm(p)', NEW r \in CipherRequests, process[r] = p, m_cipherSessionToken[r] = t
        PROVE  Finalizing(r)
    <3>1. 0 \notin Tokens
      BY DEF Tokens
    <3>2. ~NotEnding(p, t)
      BY <1>1, <1>2, <1>3, <1>10 DEF NotEnding
    <3> QED
      BY <1>4, <1>9, <2>2, <3>1, <3>2 DEF SessionsInv, TokenHeld
  <2> QED
    BY <2>1, <2>2 DEF NobodyRelies
<1>12. NobodyElseIsGiven(p, t, 0)
  <2> SUFFICES ASSUME NEW r \in CipherRequests, NEW i \in DOMAIN m_watcherQueue[r],
                      Calm(process[r])', calls[m_watcherQueue[r][i]].mode = "InitializeCipher",
                      TokenOf(m_watcherQueue[r][i])' # 0
               PROVE  /\ TokenOf(m_watcherQueue[r][i])' = TokenOf(m_watcherQueue[r][i])
                      /\ process[r] = p => TokenOf(m_watcherQueue[r][i]) # t
    BY DEF NobodyElseIsGiven
  <2>1. PICK d : d = m_watcherQueue[r][i] /\ m_watcherQueue'[r][i] = d
    BY DEF ClientKept
  <2>2. d \in DOMAIN calls /\ calls[d].mode = "InitializeCipher"
    BY <2>1 DEF SessionsInv, Waiting
  <2>3. TokenOf(d)' # 0
    BY <2>1
  <2>4. TokenOf(d)' = TokenOf(d) /\ TokenOf(d) # 0
    BY <1>5, <2>2, <2>3 DEF TokenOf
  <2>5. Calm(process[r])
    BY <1>8, CalmBefore
  <2>6. NotEnding(process[r], TokenOf(d))
    BY <2>1, <2>4, <2>5 DEF SessionsInv, TokenGiven
  <2>7. ~NotEnding(p, t)
    BY <1>1, <1>2, <1>3, <1>10 DEF NotEnding
  <2> QED
    BY <2>1, <2>4, <2>6, <2>7
<1>13. /\ TypedClient /\ TypedDaemon /\ Waiting /\ Sessions /\ TokensInForce
       /\ TokenHeld /\ TokenGiven /\ SameCalls
       /\ \A d \in DOMAIN calls : Unseen(d)' => Unseen(d)
  BY <1>5, <1>7 DEF SessionsInv
<1>14. /\ m_cipherSessions' \in [Processes -> [Tokens -> Nat]]
       /\ TokensInForce' /\ TokenHeld' /\ TokenGiven'
  BY <1>4, <1>11, <1>12, <1>13, SessionPut
<1>15. TypedDaemon'
  BY <1>5, <1>6, <1>14 DEF SessionsInv, TypedDaemon
<1>16. \A d \in DOMAIN calls : ProcessOf(d)' = ProcessOf(d)
  BY <1>5, <1>8, SameProcesses DEF SessionsInv
<1>17. FailedIsAstray'
  <2> SUFFICES ASSUME NEW d \in DOMAIN calls, calls[d].mode = "FinalizeCipher",
                      calls'[d].answer = "Failed"
               PROVE  ~Calm(ProcessOf(d))'
    BY <1>5 DEF FailedIsAstray, SameCalls
  <2>1. CASE d = c
    BY <1>5, <1>8, <1>16, <2>1 DEF Calm, ProcessOf
  <2>2. CASE d # c
    <3>1. ~Calm(ProcessOf(d))
      BY <1>5, <2>2 DEF SessionsInv, FailedIsAstray
    <3>2. Calm(ProcessOf(d))' => Calm(ProcessOf(d))
      BY <1>8, <1>16 DEF Calm
    <3> QED
      BY <3>1, <3>2
  <2> QED
    BY <2>1, <2>2
<1>18. Sessions'
  <2>0. DOMAIN calls' = DOMAIN calls
        /\ \A d \in DOMAIN calls : /\ process'[calls'[d].request] = ProcessOf(d)
                                   /\ calls'[d].request = calls[d].request
    BY <1>5, <1>8 DEF ProcessOf, SameCalls
  <2>1. \A q \in Processes, u \in Tokens :
            m_cipherSessions'[q][u] # 0 =>
                /\ m_cipherSessions'[q][u] \in DOMAIN calls
                /\ ProcessOf(m_cipherSessions'[q][u]) = q
    BY <1>4 DEF SessionsInv, Sessions, TypedDaemon
  <2>2. \A q \in Processes, u \in Tokens :
            m_cipherSessions'[q][u] # 0 =>
                /\ m_cipherSessions'[q][u] \in DOMAIN calls'
                /\ process'[calls'[m_cipherSessions'[q][u]].request] = q
    BY <2>0, <2>1
  <2>3. s \in DOMAIN calls /\ ProcessOf(s) = p /\ (Calm(p) => calls[s].request = calls[c].request)
    BY <1>1, <1>2, <1>3, <1>4, <1>10 DEF SessionsInv, Sessions, TokensInForce
  <2>4. \A r : Undisturbed(r)' => Undisturbed(r)
    BY <1>8 DEF Undisturbed
  <2>5. Undisturbed(calls[c].request) => Calm(p)
    BY <1>2 DEF Undisturbed, Calm, ProcessOf
  <2>6. \A d \in DOMAIN calls : calls'[d].session # 0 =>
            d = c \/ calls'[d].session = calls[d].session
    BY <1>5
  <2>7. \A d \in DOMAIN calls : calls'[d].session # 0 =>
            /\ calls'[d].session \in DOMAIN calls
            /\ ProcessOf(calls'[d].session) = ProcessOf(d)
            /\ Undisturbed(calls[d].request)' =>
                  calls[calls'[d].session].request = calls[d].request
    <3>1. \A d \in DOMAIN calls : calls[d].session # 0 =>
            /\ calls[d].session \in DOMAIN calls
            /\ ProcessOf(calls[d].session) = ProcessOf(d)
            /\ Undisturbed(calls[d].request) =>
                  calls[calls[d].session].request = calls[d].request
      BY DEF SessionsInv, Sessions
    <3>2. ASSUME NEW d \in DOMAIN calls, d # c, calls'[d].session # 0
          PROVE  /\ calls'[d].session \in DOMAIN calls
                 /\ ProcessOf(calls'[d].session) = ProcessOf(d)
                 /\ Undisturbed(calls[d].request)' =>
                       calls[calls'[d].session].request = calls[d].request
      BY <1>8, <2>0, <2>6, <3>1, <3>2 DEF Undisturbed
    <3>3. /\ calls'[c].session \in DOMAIN calls
          /\ ProcessOf(calls'[c].session) = ProcessOf(c)
          /\ Undisturbed(calls[c].request)' =>
                calls[calls'[c].session].request = calls[c].request
      BY <1>1, <1>2, <1>5, <1>8, <2>0, <2>3, <2>5 DEF Undisturbed
    <3> QED
      BY <3>2, <3>3
  <2>8. \A d \in DOMAIN calls' : calls'[d].session # 0 =>
            /\ calls'[d].session \in DOMAIN calls'
            /\ process'[calls'[calls'[d].session].request] = process'[calls'[d].request]
            /\ Undisturbed(calls[d].request)' =>
                  calls'[calls'[d].session].request = calls'[d].request
    BY <2>0, <2>7, <1>8 DEF Undisturbed
  <2> QED
    BY <2>2, <2>8 DEF Sessions, ProcessOf
<1> QED
  BY <1>1, <1>5, <1>6, <1>14, <1>15, <1>17, <1>18, DaemonStep

\* The thread runs a job.
LEMMA RunJobKeeps ==
    ASSUME SessionsInv, RunJob
    PROVE  SessionsInv'
<1>1. PICK c : c = Head(pool)
  OBVIOUS
<1>2. /\ UNCHANGED ClientKept /\ m_requests' = m_requests
      /\ pool # <<>> /\ pool' = Tail(pool) /\ Operation(c)
  BY <1>1 DEF RunJob, client, application, ClientKept
<1>3. c \in DOMAIN calls /\ calls[c].answer = "none" /\ calls[c].request \in CipherRequests
      /\ calls[c].token \in {0} \cup Tokens
  BY <1>1, <1>2, HeadOfPoolIsNext, CallFields DEF SessionsInv
<1>4. ProcessOf(c) \in Processes /\ Session(c) \in Nat
  <2>1. ProcessOf(c) \in Processes
    BY <1>3 DEF ProcessOf, SessionsInv, TypedClient
  <2> QED
    BY <1>3, <2>1 DEF Session, clientId, SessionsInv, TypedDaemon
<1>5. PICK s \in Nat : s = Session(c)
  BY <1>4
<1>6. CASE initializeCipherSession(c)
  <2>1. calls[c].mode = "InitializeCipher" /\ astray' = astray
    BY <1>6 DEF initializeCipherSession
  <2>2. CASE \E t \in getNextCipherSessionToken(ProcessOf(c)) :
                /\ m_cipherSessions' = [m_cipherSessions EXCEPT ![ProcessOf(c)][t] = c]
                /\ Reply(c, "Succeeded", t, c, FinishedTypes(c))
    BY <1>1, <1>2, <2>1, <2>2, OpeningKeeps
  <2>3. CASE /\ Reply(c, "Failed", 0, 0, FinishedTypes(c))
             /\ m_cipherSessions' = m_cipherSessions
    BY <1>1, <1>2, <2>1, <2>3, JobKeeps
  <2> QED
    BY <1>6, <2>2, <2>3 DEF initializeCipherSession, Fails, clientId
<1>7. CASE UnknownSession(c)
  <2>1. /\ calls[c].mode # "InitializeCipher" /\ Session(c) = 0
        /\ Reply(c, "Failed", 0, 0, FinishedTypes(c))
        /\ m_cipherSessions' = m_cipherSessions /\ astray' = astray
    BY <1>7 DEF UnknownSession
  <2>2. ~Calm(ProcessOf(c))
    <3>1. Unseen(c)
      BY <1>3, <2>1 DEF Unseen
    <3> QED
      BY <1>3, <2>1, <3>1 DEF SessionsInv, TokensInForce, Session, clientId
  <2> QED
    BY <1>1, <1>2, <2>1, <2>2, JobKeeps
<1>8. CASE updateCipherSession(c)
  <2>1. /\ calls[c].mode = "UpdateCipher"
        /\ m_cipherSessions' = m_cipherSessions /\ astray' = astray
        /\ \E a \in {"Succeeded", "Failed"} : Reply(c, a, 0, s, FinishedTypes(c))
    BY <1>5, <1>8 DEF updateCipherSession, Fails
  <2> QED
    BY <1>1, <1>2, <1>5, <2>1, JobKeeps
<1>9. CASE updateCipherSessionAuthentication(c)
  <2>1. /\ calls[c].mode = "UpdateCipherAuthentication"
        /\ m_cipherSessions' = m_cipherSessions /\ astray' = astray
        /\ \E a \in {"Succeeded", "Failed"} : Reply(c, a, 0, s, FinishedTypes(c))
    BY <1>5, <1>9 DEF updateCipherSessionAuthentication, Fails
  <2> QED
    BY <1>1, <1>2, <1>5, <2>1, JobKeeps
<1>10. CASE finalizeCipherSession(c)
  <2>1. /\ calls[c].mode = "FinalizeCipher" /\ Session(c) # 0
        /\ m_cipherSessions' = [m_cipherSessions EXCEPT ![ProcessOf(c)][calls[c].token] = 0]
        /\ astray \subseteq astray' /\ astray' \subseteq CipherRequests
        /\ \E a \in {"Succeeded", "Failed"} :
              /\ Reply(c, a, 0, s, FinishedTypes(c))
              /\ a = "Failed" => calls[c].request \in astray'
    BY <1>3, <1>5, <1>10 DEF finalizeCipherSession, Fails, clientId, SessionsInv, TypedClient
  <2> QED
    BY <1>1, <1>2, <1>5, <2>1, FinalizingKeeps
<1> QED
  BY <1>2, <1>6, <1>7, <1>8, <1>9, <1>10 DEF Operation
-----------------------------------------------------------------------------
(* The steps of the application: tokens. *)

\* What one more call, with the number n, leaves as it was.
LEMMA CallsGrow ==
    ASSUME TypedClient, TypedDaemon, NEW r \in CipherRequests, Sending(r),
           m_cipherSessionToken'[r] \in {0} \cup Tokens, process' = process,
           NEW n, n = Len(calls) + 1
    PROVE  /\ DOMAIN calls' = DOMAIN calls \cup {n} /\ n \notin DOMAIN calls /\ n \in Nat
           /\ \A d \in DOMAIN calls : /\ calls'[d] = calls[d] /\ Unseen(d)' = Unseen(d)
                                      /\ ProcessOf(d)' = ProcessOf(d) /\ d < n
           /\ ProcessOf(n)' = process[r]
           /\ Unseen(n)' = (m_cipherMode[r] # "InitializeCipher")
           /\ calls'[n].request = r
           /\ calls'[n].mode = m_cipherMode[r] /\ calls'[n].plugin = m_cryptoPluginName[r]
           /\ calls'[n].token = m_cipherSessionToken'[r]
           /\ calls'[n].session = 0 /\ calls'[n].answer = "none" /\ calls'[n].reply = "none"
           /\ TokenOf(n)' = 0
<1>0. /\ calls' \in Seq(Call)
      /\ Len(calls') = Len(calls) + 1 /\ DOMAIN calls' = 1 .. Len(calls) + 1
      /\ DOMAIN calls = 1 .. Len(calls)
      /\ \A c \in DOMAIN calls : calls'[c] = calls[c]
      /\ calls'[n].request = r /\ calls'[n].mode = m_cipherMode[r]
      /\ calls'[n].plugin = m_cryptoPluginName[r]
      /\ calls'[n].token = m_cipherSessionToken'[r] /\ calls'[n].session = 0
      /\ calls'[n].answer = "none" /\ calls'[n].reply = "none"
  BY SendingDoes
<1>1. Len(calls) \in Nat
  BY DEF TypedDaemon
<1>2. /\ n \in Nat /\ DOMAIN calls' = DOMAIN calls \cup {n} /\ n \notin DOMAIN calls
      /\ \A d \in DOMAIN calls : d < n
  BY <1>0, <1>1
<1>3. \A d \in DOMAIN calls : Unseen(d)' = Unseen(d) /\ ProcessOf(d)' = ProcessOf(d)
  BY <1>0 DEF Unseen, ProcessOf
<1>4. ProcessOf(n)' = process[r] /\ TokenOf(n)' = 0
  BY <1>0 DEF ProcessOf, TokenOf
<1>5. Unseen(n)' = (m_cipherMode[r] # "InitializeCipher")
  BY <1>0 DEF Unseen
<1> QED
  BY <1>0, <1>2, <1>3, <1>4, <1>5

\* Sessions know nothing of a call that has just been sent.
LEMMA SendingSessions ==
    ASSUME TypedClient, TypedDaemon, Sessions, FailedIsAstray,
           NEW r \in CipherRequests, Sending(r),
           m_cipherSessionToken'[r] \in {0} \cup Tokens, process' = process,
           m_cipherSessions' = m_cipherSessions, misfired' = misfired, astray \subseteq astray'
    PROVE  Sessions' /\ FailedIsAstray'
<1>1. PICK n : n = Len(calls) + 1
  OBVIOUS
<1>2. /\ DOMAIN calls' = DOMAIN calls \cup {n}
      /\ \A d \in DOMAIN calls : calls'[d] = calls[d] /\ ProcessOf(d)' = ProcessOf(d)
      /\ calls'[n].session = 0 /\ calls'[n].answer = "none"
  BY <1>1, CallsGrow
<1>3. \A d \in DOMAIN calls : process'[calls'[d].request] = ProcessOf(d)
  BY <1>2 DEF ProcessOf
<1>4. FailedIsAstray'
  <2> SUFFICES ASSUME NEW d \in DOMAIN calls', calls'[d].mode = "FinalizeCipher",
                      calls'[d].answer = "Failed"
               PROVE  ~Calm(ProcessOf(d))'
    BY DEF FailedIsAstray
  <2>1. d \in DOMAIN calls /\ ProcessOf(d)' = ProcessOf(d)
    BY <1>2
  <2>2. ~Calm(ProcessOf(d))
    BY <1>2, <2>1 DEF FailedIsAstray
  <2>3. PICK p : p = ProcessOf(d)
    OBVIOUS
  <2>4. Calm(p)' => Calm(p)
    BY CalmBefore
  <2> QED
    BY <2>1, <2>2, <2>3, <2>4
<1>5. \A q \in Processes, u \in Tokens :
        m_cipherSessions'[q][u] # 0 =>
            /\ m_cipherSessions'[q][u] \in DOMAIN calls'
            /\ process'[calls'[m_cipherSessions'[q][u]].request] = q
  BY <1>2, <1>3 DEF Sessions
<1>6. \A d \in DOMAIN calls' : calls'[d].session # 0 =>
        /\ calls'[d].session \in DOMAIN calls'
        /\ process'[calls'[calls'[d].session].request] = process'[calls'[d].request]
        /\ Undisturbed(calls[d].request)' =>
              calls'[calls'[d].session].request = calls'[d].request
  <2> SUFFICES ASSUME NEW d \in DOMAIN calls, calls'[d].session # 0
               PROVE  /\ calls'[d].session \in DOMAIN calls'
                      /\ process'[calls'[calls'[d].session].request] = process'[calls'[d].request]
                      /\ Undisturbed(calls[d].request)' =>
                            calls'[calls'[d].session].request = calls'[d].request
    BY <1>2
  <2>1. calls'[d] = calls[d] /\ calls[d].session # 0
    BY <1>2
  <2>2. PICK s : s = calls[d].session
    OBVIOUS
  <2>3. /\ s \in DOMAIN calls /\ ProcessOf(s) = ProcessOf(d)
        /\ Undisturbed(calls[d].request) => calls[s].request = calls[d].request
    BY <2>1, <2>2 DEF Sessions
  <2>4. Undisturbed(calls[d].request)' => Undisturbed(calls[d].request)
    BY <2>1 DEF Undisturbed
  <2> QED
    BY <1>2, <1>3, <2>1, <2>2, <2>3, <2>4
<1> QED
  BY <1>4, <1>5, <1>6 DEF Sessions, ProcessOf

\* A call that opens a session disturbs no other one.
LEMMA InitializeTokens ==
    ASSUME SessionsInv, NEW r \in CipherRequests, StartInitialize(r), Sending(r),
           m_watcherQueue' = [m_watcherQueue EXCEPT ![r] = <<Len(calls')>>]
    PROVE  TokensInForce' /\ TokenHeld' /\ TokenGiven'
<1>1. PICK n : n = Len(calls) + 1
  OBVIOUS
<1>2. /\ m_cipherMode[r] = "InitializeCipher" /\ m_cipherMode' = m_cipherMode
      /\ m_cipherSessionToken' = [m_cipherSessionToken EXCEPT ![r] = 0]
      /\ Sending(r) /\ m_watcherQueue' = [m_watcherQueue EXCEPT ![r] = <<Len(calls')>>]
      /\ astray' = astray /\ misfired' = misfired
      /\ process' = process /\ m_cipherSessions' = m_cipherSessions
  BY DEF StartInitialize
<1>3. /\ m_cipherSessionToken'[r] = 0 /\ m_watcherQueue'[r] = <<n>>
      /\ \A q \in CipherRequests : q # r =>
            /\ m_cipherSessionToken'[q] = m_cipherSessionToken[q]
            /\ m_watcherQueue'[q] = m_watcherQueue[q]
  <2>1. Len(calls') = n
    BY <1>1, <1>2, SendingDoes DEF SessionsInv, TypedClient
  <2> QED
    BY <1>2, <2>1 DEF SessionsInv, TypedClient
<1>4. /\ DOMAIN calls' = DOMAIN calls \cup {n} /\ n \notin DOMAIN calls
      /\ \A d \in DOMAIN calls : /\ calls'[d] = calls[d] /\ Unseen(d)' = Unseen(d)
                                 /\ ProcessOf(d)' = ProcessOf(d)
      /\ Unseen(n)' = FALSE /\ TokenOf(n)' = 0
  BY <1>1, <1>2, <1>3, CallsGrow, ZenonT(30) DEF SessionsInv
<1>5. \A p : Calm(p)' = Calm(p)
  BY <1>2 DEF Calm
<1>6. \A p, t : NotEnding(p, t) => NotEnding(p, t)'
  BY <1>4 DEF NotEnding
<1>7. \A p \in Processes, t \in Tokens :
        m_cipherSessions[p][t] # 0 => m_cipherSessions[p][t] \in DOMAIN calls
  BY DEF SessionsInv, Sessions
<1>8. \A d \in DOMAIN calls : ProcessOf(d) \in Processes
  <2>1. \A d \in DOMAIN calls : calls[d].request \in CipherRequests
    BY CallFields DEF SessionsInv
  <2> QED
    BY <2>1 DEF ProcessOf, SessionsInv, TypedClient
<1>9. TokensInForce'
  BY <1>2, <1>4, <1>5, <1>7, <1>8 DEF SessionsInv, TokensInForce
<1>70. \A q \in CipherRequests : q # r => (Finalizing(q)' <=> Finalizing(q))
  <2>1. \A q \in CipherRequests : \A i \in DOMAIN m_watcherQueue[q] :
            m_watcherQueue[q][i] \in DOMAIN calls
    BY DEF SessionsInv, Waiting
  <2> QED
    BY <1>3, <1>4, <2>1 DEF Finalizing
<1>10. TokenHeld'
  BY <1>2, <1>3, <1>4, <1>5, <1>6, <1>7, <1>70 DEF SessionsInv, TokenHeld, TypedClient
<1>11. TokenGiven'
  <2> SUFFICES ASSUME NEW q \in CipherRequests, Calm(process[q])',
                      NEW i \in DOMAIN m_watcherQueue'[q],
                      calls'[m_watcherQueue'[q][i]].mode = "InitializeCipher",
                      TokenOf(m_watcherQueue[q][i])' # 0
               PROVE  /\ m_cipherSessions[process[q]][TokenOf(m_watcherQueue[q][i])']
                            = m_watcherQueue'[q][i]
                      /\ NotEnding(process[q], TokenOf(m_watcherQueue[q][i]))'
    BY <1>2 DEF TokenGiven
  <2>1. q # r
    BY <1>3, <1>4
  <2>2. PICK c : c = m_watcherQueue[q][i] /\ c = m_watcherQueue'[q][i]
    BY <1>3, <2>1
  <2>3. i \in DOMAIN m_watcherQueue[q] /\ c \in DOMAIN calls
    BY <1>3, <2>1, <2>2 DEF SessionsInv, Waiting
  <2>4. PICK t : t = TokenOf(c)
    OBVIOUS
  <2>5. TokenOf(c)' = t /\ t # 0
    BY <1>4, <2>2, <2>3, <2>4 DEF TokenOf
  <2>6. m_cipherSessions[process[q]][t] = c /\ NotEnding(process[q], t)
    <3>1. Calm(process[q])
      BY <1>2 DEF Calm
    <3>2. TokenGiven
      BY DEF SessionsInv
    <3>3. TokenOf(m_watcherQueue[q][i]) = t
      BY <2>2, <2>4
    <3>0. calls[m_watcherQueue[q][i]].mode = "InitializeCipher"
      BY <1>4, <2>2, <2>3
    <3>4. \/ t = 0
          \/ m_cipherSessions[process[q]][t] = m_watcherQueue[q][i] /\ NotEnding(process[q], t)
      BY <2>3, <3>0, <3>1, <3>2, <3>3 DEF TokenGiven
    <3> QED
      BY <2>2, <2>5, <3>4
  <2>7. NotEnding(process[q], t)'
    BY <1>2, <1>6, <2>6
  <2> QED
    BY <2>2, <2>5, <2>6, <2>7
<1> QED
  BY <1>9, <1>10, <1>11

\* A call on a session goes to the session of its request, and one that
\* finalizes it is the last.
LEMMA ContinueTokens ==
    ASSUME SessionsInv, NEW r \in CipherRequests, Continue(r), Sending(r),
           m_watcherQueue' = [m_watcherQueue EXCEPT ![r] = Append(@, Len(calls'))],
           m_cipherMode[r] # "InitializeCipher",
           astray \subseteq astray', Finalizing(r) => r \in astray'
    PROVE  TokensInForce' /\ TokenHeld' /\ TokenGiven'
<1>1. PICK n : n = Len(calls) + 1
  OBVIOUS
<1>2. /\ m_cipherMode' = m_cipherMode /\ m_cipherSessionToken' = m_cipherSessionToken
      /\ m_cipherSessionToken[r] # 0 /\ Sending(r)
      /\ m_watcherQueue' = [m_watcherQueue EXCEPT ![r] = Append(@, Len(calls'))]
      /\ misfired' = misfired /\ process' = process /\ m_cipherSessions' = m_cipherSessions
  BY DEF Continue
<1>3. PICK t : t = m_cipherSessionToken[r]
  OBVIOUS
<1>4. PICK p : p = process[r]
  OBVIOUS
<1>5. t \in Tokens /\ p \in Processes
  BY <1>2, <1>3, <1>4 DEF SessionsInv, TypedClient
<1>6. /\ \A i \in DOMAIN m_watcherQueue'[r] :
            \/ i \in DOMAIN m_watcherQueue[r] /\ m_watcherQueue'[r][i] = m_watcherQueue[r][i]
            \/ m_watcherQueue'[r][i] = n
      /\ \A i \in DOMAIN m_watcherQueue[r] :
            i \in DOMAIN m_watcherQueue'[r] /\ m_watcherQueue'[r][i] = m_watcherQueue[r][i]
      /\ \E i \in DOMAIN m_watcherQueue'[r] : m_watcherQueue'[r][i] = n
      /\ \A q \in CipherRequests : q # r => m_watcherQueue'[q] = m_watcherQueue[q]
  <2>1. Len(calls') = Len(calls) + 1 /\ Len(calls) \in Nat
    BY <1>2, <1>3, <1>5, SendingDoes DEF SessionsInv, TypedDaemon
  <2>2. /\ m_watcherQueue[r] \in Seq(Nat)
        /\ m_watcherQueue'[r] = Append(m_watcherQueue[r], Len(calls'))
    BY <1>2 DEF SessionsInv, TypedClient
  <2>3. /\ Len(m_watcherQueue[r]) \in Nat
        /\ DOMAIN m_watcherQueue[r] = 1 .. Len(m_watcherQueue[r])
        /\ DOMAIN m_watcherQueue'[r] = 1 .. Len(m_watcherQueue[r]) + 1
        /\ m_watcherQueue'[r][Len(m_watcherQueue[r]) + 1] = n
        /\ \A i \in 1 .. Len(m_watcherQueue[r]) : m_watcherQueue'[r][i] = m_watcherQueue[r][i]
    BY <1>1, <2>1, <2>2
  <2>4. \A q \in CipherRequests : q # r => m_watcherQueue'[q] = m_watcherQueue[q]
    BY <1>2 DEF SessionsInv, TypedClient
  <2> QED
    BY <2>3, <2>4
<1>7. /\ DOMAIN calls' = DOMAIN calls \cup {n} /\ n \notin DOMAIN calls /\ n \in Nat
      /\ \A d \in DOMAIN calls : /\ calls'[d] = calls[d] /\ Unseen(d)' = Unseen(d)
                                 /\ ProcessOf(d)' = ProcessOf(d) /\ d < n
      /\ ProcessOf(n)' = p /\ calls'[n].token = t /\ calls'[n].mode = m_cipherMode[r]
      /\ calls'[n].request = r
  BY <1>1, <1>2, <1>3, <1>4, <1>5, CallsGrow, ZenonT(30) DEF SessionsInv
<1>8. \A q : Calm(q)' => Calm(q)
  BY <1>2, CalmBefore
<1>9. \A q \in Processes, u \in Tokens :
        m_cipherSessions[q][u] # 0 => m_cipherSessions[q][u] \in DOMAIN calls
  BY DEF SessionsInv, Sessions
<1>10. \A d \in DOMAIN calls : ProcessOf(d) \in Processes /\ d \in Nat
  <2>1. \A d \in DOMAIN calls : calls[d].request \in CipherRequests /\ d \in Nat
    BY CallFields DEF SessionsInv
  <2> QED
    BY <2>1 DEF ProcessOf, SessionsInv, TypedClient
<1>11. Calm(p)' => ~Finalizing(r)
  BY <1>2, <1>4 DEF Calm
<1>111. \A q \in CipherRequests : Finalizing(q) => Finalizing(q)'
  <2>1. \A q \in CipherRequests : \A i \in DOMAIN m_watcherQueue[q] :
            m_watcherQueue[q][i] \in DOMAIN calls
    BY DEF SessionsInv, Waiting
  <2> QED
    BY <1>6, <1>7, <2>1 DEF Finalizing
<1>112. m_cipherMode[r] = "FinalizeCipher" => Finalizing(r)'
  BY <1>6, <1>7 DEF Finalizing
<1>12. Calm(p)' => /\ m_cipherSessions[p][t] # 0 /\ calls[m_cipherSessions[p][t]].request = r
                   /\ NotEnding(p, t)
  BY <1>2, <1>3, <1>4, <1>8, <1>11 DEF SessionsInv, TokenHeld
<1>13. \A q, u : NotEnding(q, u) /\ (q # p \/ u # t \/ m_cipherMode[r] # "FinalizeCipher")
                    => NotEnding(q, u)'
  BY <1>7 DEF NotEnding
<1>14. TokensInForce'
  <2> SUFFICES ASSUME NEW c \in DOMAIN calls', Unseen(c)', Calm(ProcessOf(c))'
               PROVE  /\ calls'[c].token \in Tokens
                      /\ m_cipherSessions[ProcessOf(c)'][calls'[c].token] # 0
                      /\ calls'[m_cipherSessions[ProcessOf(c)'][calls'[c].token]].request
                            = calls'[c].request
                      /\ calls'[c].mode = "FinalizeCipher" =>
                            \A d \in DOMAIN calls' :
                                Unseen(d)' /\ ProcessOf(d)' = ProcessOf(c)'
                                    /\ calls'[d].token = calls'[c].token => d <= c
    BY <1>2 DEF TokensInForce
  <2>1. CASE c = n
    BY <1>5, <1>7, <1>9, <1>10, <1>12, <2>1
  <2>2. CASE c \in DOMAIN calls
    <3>1. PICK q : q = ProcessOf(c)
      OBVIOUS
    <3>2. PICK u : u = calls[c].token
      OBVIOUS
    <3>3. Unseen(c) /\ Calm(q) /\ Calm(q)' /\ q \in Processes /\ ProcessOf(c)' = q
          /\ calls'[c] = calls[c]
      BY <1>7, <1>8, <1>10, <2>2, <3>1
    <3>4. /\ u \in Tokens /\ m_cipherSessions[q][u] # 0
          /\ calls[m_cipherSessions[q][u]].request = calls[c].request
          /\ calls[c].mode = "FinalizeCipher" =>
              \A d \in DOMAIN calls : Unseen(d) /\ ProcessOf(d) = q /\ calls[d].token = u => d <= c
      BY <2>2, <3>1, <3>2, <3>3 DEF SessionsInv, TokensInForce
    <3>5. calls[c].mode = "FinalizeCipher" => q # p \/ u # t
      BY <1>12, <2>2, <3>1, <3>2, <3>3 DEF NotEnding
    <3>6. m_cipherSessions[q][u] \in DOMAIN calls
      BY <1>9, <3>3, <3>4
    <3>7. calls[c].mode = "FinalizeCipher" =>
              \A d \in DOMAIN calls' : Unseen(d)' /\ ProcessOf(d)' = q /\ calls'[d].token = u
                                          => d <= c
      BY <1>7, <3>4, <3>5
    <3> QED
      BY <1>7, <3>2, <3>3, <3>4, <3>6, <3>7
  <2> QED
    BY <1>7, <2>1, <2>2
<1>15. TokenHeld'
  <2> SUFFICES ASSUME NEW q \in CipherRequests, m_cipherSessionToken[q] # 0, Calm(process[q])',
                      ~Finalizing(q)'
               PROVE  /\ m_cipherSessions[process[q]][m_cipherSessionToken[q]] # 0
                      /\ calls'[m_cipherSessions[process[q]][m_cipherSessionToken[q]]].request = q
                      /\ NotEnding(process[q], m_cipherSessionToken[q])'
    BY <1>2 DEF TokenHeld
  <2>1. PICK o : o = process[q]
    OBVIOUS
  <2>2. PICK u : u = m_cipherSessionToken[q]
    OBVIOUS
  <2>3. u \in Tokens /\ o \in Processes /\ Calm(o) /\ Calm(o)'
    BY <1>2, <1>8, <2>1, <2>2 DEF SessionsInv, TypedClient
  <2>4. ~Finalizing(q)
    BY <1>111
  <2>5. /\ m_cipherSessions[o][u] # 0 /\ calls[m_cipherSessions[o][u]].request = q
        /\ NotEnding(o, u)
    BY <2>1, <2>2, <2>3, <2>4 DEF SessionsInv, TokenHeld
  <2>6. o # p \/ u # t \/ m_cipherMode[r] # "FinalizeCipher"
    BY <1>112, <1>12, <2>3, <2>5
  <2>7. NotEnding(o, u)' /\ m_cipherSessions[o][u] \in DOMAIN calls
    BY <1>9, <1>13, <2>3, <2>5, <2>6
  <2> QED
    BY <1>2, <1>7, <2>1, <2>2, <2>5, <2>7
<1>16. TokenGiven'
  <2> SUFFICES ASSUME NEW q \in CipherRequests, Calm(process[q])',
                      NEW i \in DOMAIN m_watcherQueue'[q],
                      calls'[m_watcherQueue'[q][i]].mode = "InitializeCipher",
                      TokenOf(m_watcherQueue[q][i])' # 0
               PROVE  /\ m_cipherSessions[process[q]][TokenOf(m_watcherQueue[q][i])']
                            = m_watcherQueue'[q][i]
                      /\ NotEnding(process[q], TokenOf(m_watcherQueue[q][i]))'
    BY <1>2 DEF TokenGiven
  <2>1. q # r
    <3> SUFFICES ASSUME q = r PROVE FALSE
      OBVIOUS
    <3>1. PICK c : c = m_watcherQueue'[r][i]
      OBVIOUS
    <3>2. c # n
      BY <1>7, <3>1
    <3>3. i \in DOMAIN m_watcherQueue[r] /\ m_watcherQueue[r][i] = c
      BY <1>6, <3>1, <3>2
    <3>4. c \in DOMAIN calls
      BY <3>3 DEF SessionsInv, Waiting
    <3>5. calls[c].mode = "InitializeCipher"
      BY <1>7, <3>1, <3>4
    <3> QED
      BY <1>2, <3>3, <3>5 DEF SessionsInv, Waiting
  <2>2. PICK c : c = m_watcherQueue[q][i] /\ c = m_watcherQueue'[q][i]
    BY <1>6, <2>1
  <2>3. i \in DOMAIN m_watcherQueue[q] /\ c \in DOMAIN calls /\ calls[c].request = q
    BY <1>6, <2>1, <2>2 DEF SessionsInv, Waiting
  <2>4. PICK u : u = TokenOf(c)
    OBVIOUS
  <2>5. TokenOf(c)' = u /\ u # 0
    BY <1>7, <2>2, <2>3, <2>4 DEF TokenOf
  <2>6. PICK o : o = process[q]
    OBVIOUS
  <2>7. Calm(o)' /\ Calm(o)
    BY <1>2, <1>8, <2>6
  <2>8. m_cipherSessions[o][u] = c /\ NotEnding(o, u)
    <3>1. TokenGiven
      BY DEF SessionsInv
    <3>2. TokenOf(m_watcherQueue[q][i]) = u
      BY <2>2, <2>4
    <3>0. calls[m_watcherQueue[q][i]].mode = "InitializeCipher"
      BY <1>7, <2>2, <2>3
    <3>3. u = 0 \/ (m_cipherSessions[o][u] = m_watcherQueue[q][i] /\ NotEnding(o, u))
      BY <2>3, <2>6, <2>7, <3>0, <3>1, <3>2 DEF TokenGiven
    <3> QED
      BY <2>2, <2>5, <3>3
  <2>9. o # p \/ u # t
    BY <1>12, <2>1, <2>3, <2>7, <2>8
  <2>10. NotEnding(o, u)'
    BY <1>13, <2>8, <2>9
  <2> QED
    BY <1>2, <2>2, <2>5, <2>6, <2>8, <2>10
<1> QED
  BY <1>14, <1>15, <1>16

-----------------------------------------------------------------------------
(* The steps of the application: calls and their watchers. *)

\* The numbers the client library knows of.
LEMMA ClientNumbers ==
    ASSUME TypedClient, TypedDaemon, Waiting, Signals, Completed, NEW n, n = Len(calls) + 1
    PROVE  /\ n \notin watchers
           /\ \A r \in CipherRequests :
                 /\ n \notin m_completedHash[r] /\ process[r] \in Processes
                 /\ m_watcherQueue[r] \in Seq(Nat)
                 /\ \A i \in DOMAIN m_watcherQueue[r] :
                       m_watcherQueue[r][i] \in DOMAIN calls /\ m_watcherQueue[r][i] # n
           /\ \A p \in Processes : \A k \in DOMAIN events[p] :
                 events[p][k].call # n /\ events[p][k].call \in DOMAIN calls
<1>1. n \notin DOMAIN calls
  BY DEF TypedDaemon
<1> QED
  BY <1>1 DEF Signals, Waiting, Completed, TypedClient

\* One more call on a session.
LEMMA ContinueClient ==
    ASSUME SessionsInv, NEW r \in CipherRequests, Continue(r), Sending(r),
           m_watcherQueue' = [m_watcherQueue EXCEPT ![r] = Append(@, Len(calls'))],
           m_cipherMode[r] # "InitializeCipher", astray' \subseteq CipherRequests
    PROVE  TypedClient' /\ TypedDaemon' /\ Waiting' /\ Alike' /\ Signals' /\ Completed'
           /\ Served' /\ InTurn' /\ NoStrayWatcher' /\ OwnReply'
<1>1. PICK n : n = Len(calls) + 1
  OBVIOUS
<1>2. /\ m_cipherMode' = m_cipherMode /\ m_cipherSessionToken' = m_cipherSessionToken
      /\ Sending(r) /\ m_cipherSessionToken[r] # 0 /\ m_cryptoPluginName' = m_cryptoPluginName
      /\ m_status' = [m_status EXCEPT ![r] = "Active"]
      /\ m_result' = [m_result EXCEPT ![r] = "Pending"]
      /\ m_watcherQueue' = [m_watcherQueue EXCEPT ![r] = Append(@, Len(calls'))]
      /\ misfired' = misfired /\ process' = process /\ m_cipherSessions' = m_cipherSessions
      /\ events' = events /\ pool' = pool /\ m_completedHash' = m_completedHash
      /\ restarted' = restarted /\ crashed' = crashed /\ taking' = taking
      /\ disordered' = disordered /\ \A q : Regular(q)' <=> Regular(q)
  BY DEF Continue, Sending, Regular
<1>3. TypedClient /\ TypedDaemon /\ Waiting /\ Alike /\ Signals /\ Completed /\ Served /\ InTurn
      /\ NoStrayWatcher /\ OwnReply
  BY DEF SessionsInv
<1>4. m_cipherSessionToken'[r] \in {0} \cup Tokens
  BY <1>2, <1>3 DEF TypedClient
<1>5. /\ DOMAIN calls' = DOMAIN calls \cup {n} /\ n \notin DOMAIN calls /\ n \in Nat
      /\ \A d \in DOMAIN calls : calls'[d] = calls[d] /\ ProcessOf(d)' = ProcessOf(d) /\ d < n
      /\ calls'[n].mode = m_cipherMode[r] /\ calls'[n].plugin = m_cryptoPluginName[r]
      /\ calls'[n].request = r /\ calls'[n].reply = "none"
  BY <1>1, <1>2, <1>3, <1>4, CallsGrow
<1>6. /\ calls' \in Seq(Call) /\ m_requests' \in Seq(Nat) /\ Len(calls') = n
      /\ watchers' = watchers \cup {n}
  BY <1>1, <1>2, <1>3, <1>4, SendingDoes
<1>7. /\ n \notin watchers
      /\ \A q \in CipherRequests :
            /\ n \notin m_completedHash[q] /\ process[q] \in Processes
            /\ m_watcherQueue[q] \in Seq(Nat)
            /\ \A i \in DOMAIN m_watcherQueue[q] :
                  m_watcherQueue[q][i] \in DOMAIN calls /\ m_watcherQueue[q][i] # n
      /\ \A p \in Processes : \A k \in DOMAIN events[p] :
            events[p][k].call # n /\ events[p][k].call \in DOMAIN calls
  BY <1>1, <1>3, ClientNumbers
<1>8. PICK m : m = Len(m_watcherQueue[r]) + 1
  OBVIOUS
<1>9. /\ m_watcherQueue' \in [CipherRequests -> Seq(Nat)]
      /\ \A q \in CipherRequests : q # r => m_watcherQueue'[q] = m_watcherQueue[q]
      /\ m \in Nat /\ DOMAIN m_watcherQueue[r] = 1 .. m - 1 /\ DOMAIN m_watcherQueue'[r] = 1 .. m
      /\ m_watcherQueue'[r][m] = n
      /\ \A i \in DOMAIN m_watcherQueue[r] : m_watcherQueue'[r][i] = m_watcherQueue[r][i]
  <2>1. /\ m_watcherQueue' \in [CipherRequests -> Seq(Nat)]
        /\ m_watcherQueue'[r] = Append(m_watcherQueue[r], n)
        /\ \A q \in CipherRequests : q # r => m_watcherQueue'[q] = m_watcherQueue[q]
    BY <1>2, <1>3, <1>5, <1>6 DEF TypedClient
  <2>2. /\ DOMAIN m_watcherQueue'[r] = 1 .. Len(m_watcherQueue[r]) + 1
        /\ DOMAIN m_watcherQueue[r] = 1 .. Len(m_watcherQueue[r]) /\ Len(m_watcherQueue[r]) \in Nat
        /\ m_watcherQueue'[r][Len(m_watcherQueue[r]) + 1] = n
        /\ \A i \in 1 .. Len(m_watcherQueue[r]) : m_watcherQueue'[r][i] = m_watcherQueue[r][i]
    BY <1>5, <1>7, <2>1
  <2> QED
    BY <1>8, <2>1, <2>2
<1>10. \A q \in CipherRequests : \A i \in DOMAIN m_watcherQueue'[q] :
            \/ i \in DOMAIN m_watcherQueue[q] /\ m_watcherQueue'[q][i] = m_watcherQueue[q][i]
            \/ q = r /\ i = m /\ m_watcherQueue'[q][i] = n
  BY <1>9
<1>11. TypedClient'
  BY <1>2, <1>3, <1>9 DEF TypedClient
<1>12. TypedDaemon'
  BY <1>2, <1>3, <1>6 DEF TypedDaemon
<1>13. Waiting'
  <2>3. \A q \in CipherRequests : \A i \in DOMAIN m_watcherQueue'[q] :
            /\ m_watcherQueue'[q][i] \in DOMAIN calls'
            /\ calls'[m_watcherQueue'[q][i]].request = q
            /\ calls'[m_watcherQueue'[q][i]].mode = "InitializeCipher" =>
                Len(m_watcherQueue'[q]) = 1 /\ m_cipherSessionToken'[q] = 0
    <3> SUFFICES ASSUME NEW q \in CipherRequests, NEW i \in DOMAIN m_watcherQueue'[q]
                 PROVE  /\ m_watcherQueue'[q][i] \in DOMAIN calls'
                        /\ calls'[m_watcherQueue'[q][i]].request = q
                        /\ calls'[m_watcherQueue'[q][i]].mode = "InitializeCipher" =>
                            Len(m_watcherQueue'[q]) = 1 /\ m_cipherSessionToken[q] = 0
      BY <1>2
    <3>1. CASE q = r /\ m_watcherQueue'[q][i] = n
      BY <1>5, <3>1
    <3>2. CASE i \in DOMAIN m_watcherQueue[q] /\ m_watcherQueue'[q][i] = m_watcherQueue[q][i]
      <4>1. PICK c : c = m_watcherQueue[q][i]
        OBVIOUS
      <4>2. c \in DOMAIN calls /\ calls[c].request = q
            /\ (calls[c].mode = "InitializeCipher" =>
                    Len(m_watcherQueue[q]) = 1 /\ m_cipherSessionToken[q] = 0)
        BY <1>3, <3>2, <4>1 DEF Waiting
      <4>3. calls[c].mode = "InitializeCipher" => q # r
        BY <1>2, <4>2
      <4> QED
        BY <1>5, <1>9, <3>2, <4>1, <4>2, <4>3
    <3> QED
      BY <1>10, <3>1, <3>2
  <2>4. \A q \in CipherRequests : \A i, j \in DOMAIN m_watcherQueue'[q] :
            i < j => m_watcherQueue'[q][i] < m_watcherQueue'[q][j]
    <3> SUFFICES ASSUME NEW q \in CipherRequests, NEW i \in DOMAIN m_watcherQueue'[q],
                        NEW j \in DOMAIN m_watcherQueue'[q], i < j
                 PROVE  m_watcherQueue'[q][i] < m_watcherQueue'[q][j]
      OBVIOUS
    <3>1. CASE q = r /\ j = m
      <4>1. i \in DOMAIN m_watcherQueue[r]
        BY <1>9, <3>1
      <4> QED
        <5>1. m_watcherQueue'[r][i] = m_watcherQueue[r][i] /\ m_watcherQueue[r][i] \in DOMAIN calls
          BY <1>7, <1>9, <4>1
        <5>2. m_watcherQueue[r][i] < n
          BY <1>5, <5>1
        <5> QED
          BY <1>9, <3>1, <5>1, <5>2
    <3>2. CASE j \in DOMAIN m_watcherQueue[q] /\ m_watcherQueue'[q][j] = m_watcherQueue[q][j]
      <4>1. i \in DOMAIN m_watcherQueue[q] /\ m_watcherQueue'[q][i] = m_watcherQueue[q][i]
        BY <1>9, <1>10, <3>2
      <4> QED
        BY <1>3, <3>2, <4>1 DEF Waiting
    <3> QED
      BY <1>10, <3>1, <3>2
  <2> QED
    BY <2>3, <2>4 DEF Waiting
<1>130. Alike'
  <2> SUFFICES ASSUME NEW q \in CipherRequests, Regular(q), NEW i \in DOMAIN m_watcherQueue'[q]
               PROVE  /\ m_status'[q] = "Active"
                      /\ calls'[m_watcherQueue'[q][i]].mode = m_cipherMode[q]
                      /\ calls'[m_watcherQueue'[q][i]].plugin = m_cryptoPluginName[q]
    BY <1>2 DEF Alike
  <2>1. CASE q = r /\ m_watcherQueue'[q][i] = n
    BY <1>2, <1>3, <1>5, <2>1 DEF TypedClient
  <2>2. CASE i \in DOMAIN m_watcherQueue[q] /\ m_watcherQueue'[q][i] = m_watcherQueue[q][i]
    <3>1. PICK c : c = m_watcherQueue[q][i]
      OBVIOUS
    <3>2. c \in DOMAIN calls /\ m_status[q] = "Active" /\ calls[c].mode = m_cipherMode[q]
          /\ calls[c].plugin = m_cryptoPluginName[q]
      BY <1>3, <1>7, <2>2, <3>1 DEF Alike
    <3>3. m_status'[q] = "Active"
      BY <1>2, <1>3, <3>2 DEF TypedClient
    <3> QED
      BY <1>5, <2>2, <3>1, <3>2, <3>3
  <2> QED
    BY <1>10, <2>1, <2>2
<1>131. Completed'
  <2>1. \A q \in CipherRequests : \A c \in m_completedHash[q] :
            /\ c \in DOMAIN calls' /\ calls'[c].mode = "UpdateCipher" /\ calls'[c].reply # "none"
    BY <1>3, <1>5 DEF Completed
  <2>2. \A q \in CipherRequests : m_watcherQueue[q] # <<>> =>
            m_watcherQueue'[q] # <<>> /\ m_watcherQueue'[q][1] = m_watcherQueue[q][1]
    <3> SUFFICES ASSUME NEW q \in CipherRequests, m_watcherQueue[q] # <<>>
                 PROVE  m_watcherQueue'[q] # <<>> /\ m_watcherQueue'[q][1] = m_watcherQueue[q][1]
      OBVIOUS
    <3>1. CASE q # r
      BY <1>9, <3>1
    <3>2. CASE q = r
      <4>1. 1 \in DOMAIN m_watcherQueue[r]
        BY <1>7, <3>2
      <4>2. m \in DOMAIN m_watcherQueue'[r]
        BY <1>8, <1>9, <1>7
      <4> QED
        BY <1>9, <3>2, <4>1, <4>2
    <3> QED
      BY <3>1, <3>2
  <2>3. \A q \in CipherRequests : m_watcherQueue'[q] # <<>> /\ m_watcherQueue[q] = <<>> =>
            m_watcherQueue'[q][1] \notin m_completedHash[q]
    <3> SUFFICES ASSUME NEW q \in CipherRequests, m_watcherQueue'[q] # <<>>,
                        m_watcherQueue[q] = <<>>
                 PROVE  m_watcherQueue'[q][1] = n
      BY <1>7
    <3>1. q = r
      BY <1>9
    <3>2. m = 1
      BY <1>8, <3>1
    <3> QED
      BY <1>9, <3>1, <3>2
  <2> QED
    BY <1>2, <1>3, <2>1, <2>2, <2>3 DEF Completed
<1>14. Signals'
  BY <1>2, <1>3, <1>5, <1>6, <1>7 DEF Signals
<1>15. Served'
  <2> SUFFICES ASSUME NEW q \in CipherRequests, Regular(q), process[q] \notin crashed,
                      NEW i \in DOMAIN m_watcherQueue'[q]
               PROVE  /\ m_watcherQueue'[q][i] \in watchers'
                      /\ \A k \in DOMAIN events[process[q]] :
                            events[process[q]][k] # Event("deleteLater", m_watcherQueue'[q][i])
                      /\ calls'[m_watcherQueue'[q][i]].reply # "none" =>
                            \/ m_watcherQueue'[q][i] \in m_completedHash[q]
                            \/ \E k \in DOMAIN events[process[q]] :
                                events[process[q]][k] = Event("finished", m_watcherQueue'[q][i])
    BY <1>2 DEF Served
  <2>1. CASE q = r /\ i = m /\ m_watcherQueue'[q][i] = n
    <3>1. n \in watchers' /\ calls'[n].reply = "none"
      BY <1>5, <1>6
    <3>2. process[q] \in Processes
      BY <1>7
    <3>3. \A k \in DOMAIN events[process[q]] : events[process[q]][k].call # n
      BY <1>7, <3>2
    <3>4. \A k \in DOMAIN events[process[q]] :
            events[process[q]][k] # Event("deleteLater", n)
      BY <3>3, EventParts
    <3> QED
      BY <2>1, <3>1, <3>4
  <2>2. CASE i \in DOMAIN m_watcherQueue[q] /\ m_watcherQueue'[q][i] = m_watcherQueue[q][i]
    <3>1. PICK c : c = m_watcherQueue[q][i]
      OBVIOUS
    <3>2. c \in DOMAIN calls /\ calls'[c] = calls[c]
      BY <1>5, <1>7, <2>2, <3>1
    <3>3. /\ c \in watchers
          /\ \A k \in DOMAIN events[process[q]] : events[process[q]][k] # Event("deleteLater", c)
          /\ calls[c].reply # "none" =>
                \/ c \in m_completedHash[q]
                \/ \E k \in DOMAIN events[process[q]] : events[process[q]][k] = Event("finished", c)
      BY <1>3, <2>2, <3>1 DEF Served
    <3> QED
      BY <1>6, <2>2, <3>1, <3>2, <3>3
  <2> QED
    BY <1>10, <2>1, <2>2
<1>16. InTurn'
  <2>1. ASSUME NEW q \in CipherRequests, Regular(q), process[q] \notin crashed,
               NEW i \in DOMAIN m_watcherQueue'[q], NEW j \in DOMAIN m_watcherQueue'[q],
               NEW k \in DOMAIN events[process[q]], i < j,
               m_watcherQueue'[q][i] \notin m_completedHash[q],
               events[process[q]][k] = Event("finished", m_watcherQueue'[q][j])
        PROVE  \E l \in DOMAIN events[process[q]] :
                    l < k /\ events[process[q]][l] = Event("finished", m_watcherQueue'[q][i])
    <3>1. m_watcherQueue'[q][j] # n
      BY <1>7, <2>1, EventParts
    <3>2. j \in DOMAIN m_watcherQueue[q] /\ m_watcherQueue'[q][j] = m_watcherQueue[q][j]
      BY <1>10, <3>1
    <3>3. i \in DOMAIN m_watcherQueue[q] /\ m_watcherQueue'[q][i] = m_watcherQueue[q][i]
      BY <1>9, <1>10, <2>1, <3>2
    <3>4. InTurn
      BY <1>3
    <3>5. /\ m_watcherQueue[q][i] \notin m_completedHash[q]
          /\ events[process[q]][k] = Event("finished", m_watcherQueue[q][j])
      BY <2>1, <3>2, <3>3
    <3>6. \A a, b \in DOMAIN m_watcherQueue[q] :
            a < b /\ events[process[q]][k] = Event("finished", m_watcherQueue[q][b]) =>
                \/ m_watcherQueue[q][a] \in m_completedHash[q]
                \/ \E l \in DOMAIN events[process[q]] :
                    l < k /\ events[process[q]][l] = Event("finished", m_watcherQueue[q][a])
      BY <2>1, <3>4, ZenonT(30) DEF InTurn
    <3> QED
      BY <2>1, <3>2, <3>3, <3>5, <3>6, ZenonT(30)
  <2>2. /\ \A q \in CipherRequests : Regular(q)' => Regular(q)
        /\ process' = process /\ crashed' = crashed /\ events' = events
        /\ m_completedHash' = m_completedHash
    BY <1>2
  <2> QED
    BY ONLY <2>1, <2>2 DEF InTurn
<1>17. NoStrayWatcher'
  <2> SUFFICES ASSUME NEW c \in watchers', calls'[c].request \notin restarted \cup disordered
               PROVE  \E i \in DOMAIN m_watcherQueue'[calls'[c].request] :
                        m_watcherQueue'[calls'[c].request][i] = c
    BY <1>2 DEF NoStrayWatcher
  <2>1. CASE c = n
    <3>1. m \in DOMAIN m_watcherQueue'[r] /\ m_watcherQueue'[r][m] = n
      BY <1>8, <1>9, <1>7
    <3> QED
      BY <1>5, <2>1, <3>1
  <2>2. CASE c \in watchers
    <3>1. c \in DOMAIN calls /\ calls'[c] = calls[c] /\ calls[c].request \in CipherRequests
      BY <1>3, <1>5, <2>2, CallFields DEF Signals
    <3>2. PICK i \in DOMAIN m_watcherQueue[calls[c].request] :
                m_watcherQueue[calls[c].request][i] = c
      BY <1>3, <2>2, <3>1 DEF NoStrayWatcher
    <3>3. /\ i \in DOMAIN m_watcherQueue'[calls[c].request]
          /\ m_watcherQueue'[calls[c].request][i] = c
      <4>1. CASE calls[c].request = r
        <5>1. i \in DOMAIN m_watcherQueue[r] /\ m_watcherQueue[r][i] = c
          BY <3>2, <4>1
        <5>2. i \in DOMAIN m_watcherQueue'[r] /\ m_watcherQueue'[r][i] = c
          BY <1>9, <5>1
        <5> QED
          BY <4>1, <5>2
      <4>2. CASE calls[c].request # r
        BY <1>9, <3>1, <3>2, <4>2
      <4> QED
        BY <4>1, <4>2
    <3> QED
      BY <3>1, <3>3
  <2> QED
    BY <1>6, <2>1, <2>2
<1>18. OwnReply'
  BY <1>2, <1>3 DEF OwnReply
<1> QED
  BY <1>11, <1>12, <1>13, <1>130, <1>131, <1>14, <1>15, <1>16, <1>17, <1>18

\* A function on the first n numbers is a sequence.
LEMMA Lists ==
    ASSUME NEW S, NEW n \in Nat, NEW f \in [1 .. n -> S]
    PROVE  f \in Seq(S) /\ Len(f) = n /\ DOMAIN f = 1 .. n
<1>1. f \in Seq(S)
  OBVIOUS
<1> QED
  BY <1>1

\* One sequence of a family is extended.
LEMMA Extended ==
    ASSUME NEW S, NEW P, NEW e \in [P -> Seq(S)], NEW p \in P, NEW d \in Seq(S),
           NEW f, f = [e EXCEPT ![p] = @ \o d], NEW n, n = Len(e[p])
    PROVE  /\ f \in [P -> Seq(S)] /\ \A q \in P : q # p => f[q] = e[q]
           /\ n \in Nat /\ DOMAIN e[p] = 1 .. n
           /\ \A k \in 1 .. n : k \in DOMAIN f[p] /\ f[p][k] = e[p][k]
           /\ \A k \in DOMAIN f[p] :
                \/ k \in 1 .. n /\ f[p][k] = e[p][k]
                \/ \E i \in DOMAIN d : f[p][k] = d[i]
<1>1. e[p] \o d \in Seq(S) /\ e[p] \in Seq(S)
  OBVIOUS
<1>2. f \in [P -> Seq(S)] /\ f[p] = e[p] \o d /\ \A q \in P : q # p => f[q] = e[q]
  BY <1>1
<1>3. /\ n \in Nat /\ DOMAIN e[p] = 1 .. n /\ Len(d) \in Nat /\ DOMAIN d = 1 .. Len(d)
      /\ DOMAIN f[p] = 1 .. n + Len(d)
      /\ \A k \in 1 .. n + Len(d) : f[p][k] = IF k <= n THEN e[p][k] ELSE d[k - n]
  BY <1>1, <1>2
<1>4. \A k \in 1 .. n : k \in DOMAIN f[p] /\ f[p][k] = e[p][k]
  BY <1>3
<1>5. ASSUME NEW k \in DOMAIN f[p], ~(k <= n)
      PROVE  \E i \in DOMAIN d : f[p][k] = d[i]
  <2>1. k \in 1 .. n + Len(d) /\ n \in Nat /\ Len(d) \in Nat
    BY <1>3
  <2>2. k - n \in 1 .. Len(d)
    BY <1>5, <2>1
  <2> QED
    BY <1>3, <1>5, <2>2
<1>6. ASSUME NEW k \in DOMAIN f[p], k <= n
      PROVE  k \in 1 .. n /\ f[p][k] = e[p][k]
  BY <1>3, <1>6
<1> QED
  BY <1>2, <1>3, <1>4, <1>5, <1>6

\* The watchers of a queue of r are told to delete themselves.
DeletesWatchers(r, queue) ==
    events' = [events EXCEPT ![process[r]] =
                @ \o [i \in DOMAIN queue |-> Event("deleteLater", queue[i])]]

\* The event k of process p is for one of them.
IsDeletion(p, k, queue) == \E i \in DOMAIN queue : events'[p][k] = Event("deleteLater", queue[i])

\* The signals a process is left with when the watchers of a queue are told to
\* delete themselves.
LEMMA Deleting ==
    ASSUME TypedClient, NEW r \in CipherRequests, NEW p, p = process[r],
           NEW queue \in Seq(Nat), DeletesWatchers(r, queue)
    PROVE  /\ events' \in [Processes -> Seq(Events)] /\ p \in Processes
           /\ \A q \in Processes : q # p => events'[q] = events[q]
           /\ \A k \in DOMAIN events[p] : k \in DOMAIN events'[p] /\ events'[p][k] = events[p][k]
           /\ \A k \in DOMAIN events'[p] :
                \/ k \in DOMAIN events[p] /\ events'[p][k] = events[p][k]
                \/ IsDeletion(p, k, queue)
<1>1. PICK del : del = [i \in DOMAIN queue |-> Event("deleteLater", queue[i])]
  OBVIOUS
<1>2. \A i \in DOMAIN queue : Event("deleteLater", queue[i]) \in Events
  BY DEF Event, Events
<1>3. del \in Seq(Events) /\ DOMAIN del = DOMAIN queue
      /\ \A i \in DOMAIN del : del[i] = Event("deleteLater", queue[i])
  <2>1. DOMAIN queue = 1 .. Len(queue) /\ Len(queue) \in Nat
    OBVIOUS
  <2>2. del \in [1 .. Len(queue) -> Events]
    BY <1>1, <1>2, <2>1
  <2>3. del \in Seq(Events)
    BY <2>1, <2>2, Lists
  <2> QED
    BY <1>1, <2>1, <2>3
<1>4. /\ events \in [Processes -> Seq(Events)] /\ p \in Processes
      /\ events' = [events EXCEPT ![p] = @ \o del]
  BY <1>1 DEF TypedClient, DeletesWatchers
<1> HIDE <1>1
<1>5. PICK f : f = events'
  OBVIOUS
<1>6. PICK e : e = events
  OBVIOUS
<1>0. PICK n : n = Len(events[p])
  OBVIOUS
<1>7. /\ e \in [Processes -> Seq(Events)] /\ f = [e EXCEPT ![p] = @ \o del] /\ n = Len(e[p])
  BY <1>0, <1>4, <1>5, <1>6
<1>8. /\ f \in [Processes -> Seq(Events)] /\ \A q \in Processes : q # p => f[q] = e[q]
      /\ n \in Nat /\ DOMAIN e[p] = 1 .. n
      /\ \A k \in 1 .. n : k \in DOMAIN f[p] /\ f[p][k] = e[p][k]
      /\ \A k \in DOMAIN f[p] :
            \/ k \in 1 .. n /\ f[p][k] = e[p][k]
            \/ \E i \in DOMAIN del : f[p][k] = del[i]
  BY ONLY <1>3, <1>4, <1>7, Extended
<1>9. \A k \in DOMAIN f[p] :
            \/ k \in DOMAIN e[p] /\ f[p][k] = e[p][k]
            \/ \E i \in DOMAIN queue : f[p][k] = Event("deleteLater", queue[i])
  BY ONLY <1>3, <1>8
<1> QED
  BY ONLY <1>4, <1>5, <1>6, <1>8, <1>9 DEF IsDeletion

\* A request initializes: it has call n to wait for, or nothing when it was not sent.
LEMMA InitializeDoes ==
    ASSUME SessionsInv, NEW r \in CipherRequests, StartInitialize(r), NEW n, n = Len(calls) + 1
    PROVE  /\ calls' \in Seq(Call) /\ m_requests' \in Seq(Nat)
           /\ \A d \in DOMAIN calls : /\ d \in DOMAIN calls' /\ calls'[d] = calls[d]
                                      /\ ProcessOf(d)' = ProcessOf(d)
           /\ watchers \subseteq watchers' /\ watchers' \subseteq watchers \cup {n}
           /\ watchers' \subseteq DOMAIN calls'
           /\ m_watcherQueue' \in [CipherRequests -> Seq(Nat)]
           /\ \A q \in CipherRequests : q # r => m_watcherQueue'[q] = m_watcherQueue[q]
           /\ \A i \in DOMAIN m_watcherQueue'[r] :
                 /\ i = 1 /\ Len(m_watcherQueue'[r]) = 1 /\ m_watcherQueue'[r][i] = n
                 /\ n \in DOMAIN calls' /\ n \in watchers' /\ m_status'[r] = "Active"
                 /\ calls'[n].request = r /\ calls'[n].mode = m_cipherMode[r]
                 /\ calls'[n].plugin = m_cryptoPluginName[r] /\ calls'[n].reply = "none"
           /\ n \in watchers' => /\ calls'[n].request = r
                                 /\ 1 \in DOMAIN m_watcherQueue'[r] /\ m_watcherQueue'[r][1] = n
           /\ m_status' \in [CipherRequests -> {"Inactive", "Active", "Finished"}]
           /\ m_result' \in [CipherRequests -> {"Pending", "Succeeded", "Failed"}]
           /\ \A q \in CipherRequests : q # r => m_status'[q] = m_status[q]
           /\ disordered' = disordered
<1>1. TypedClient /\ TypedDaemon /\ Signals /\ process' = process
      /\ m_cipherSessionToken'[r] \in {0} \cup Tokens
  BY DEF SessionsInv, TypedClient, StartInitialize
<1>2. n \notin DOMAIN calls /\ n \in Nat /\ n \notin watchers
  BY <1>1 DEF TypedDaemon, Signals
<1>3. CASE Sending(r) /\ m_watcherQueue' = [m_watcherQueue EXCEPT ![r] = <<Len(calls')>>]
  <2>1. /\ DOMAIN calls' = DOMAIN calls \cup {n}
        /\ \A d \in DOMAIN calls : calls'[d] = calls[d] /\ ProcessOf(d)' = ProcessOf(d)
        /\ calls'[n].mode = m_cipherMode[r] /\ calls'[n].plugin = m_cryptoPluginName[r]
        /\ calls'[n].request = r /\ calls'[n].reply = "none"
    <3>1. TypedClient /\ TypedDaemon /\ process' = process /\ Sending(r)
      BY <1>1, <1>3
    <3>2. m_cipherSessionToken'[r] \in {0} \cup Tokens
      BY <1>1
    <3>3. DOMAIN calls' = DOMAIN calls \cup {n}
      BY ONLY <3>1, <3>2, n = Len(calls) + 1, r \in CipherRequests, CallsGrow
    <3>4. \A d \in DOMAIN calls : calls'[d] = calls[d] /\ ProcessOf(d)' = ProcessOf(d)
      BY ONLY <3>1, <3>2, n = Len(calls) + 1, r \in CipherRequests, CallsGrow
    <3>5. /\ calls'[n].mode = m_cipherMode[r] /\ calls'[n].plugin = m_cryptoPluginName[r]
          /\ calls'[n].request = r /\ calls'[n].reply = "none"
      BY <3>1, <3>2, SendingDoes
    <3> QED
      BY <3>3, <3>4, <3>5
  <2>2. /\ calls' \in Seq(Call) /\ m_requests' \in Seq(Nat) /\ Len(calls') = n
        /\ watchers' = watchers \cup {n}
    BY <1>1, <1>3, SendingDoes
  <2>3. /\ m_watcherQueue' \in [CipherRequests -> Seq(Nat)]
        /\ \A q \in CipherRequests : q # r => m_watcherQueue'[q] = m_watcherQueue[q]
        /\ m_watcherQueue'[r] = <<n>>
    BY <1>1, <1>2, <1>3, <2>2 DEF TypedClient
  <2>4. /\ DOMAIN m_watcherQueue'[r] = {1} /\ m_watcherQueue'[r][1] = n
        /\ Len(m_watcherQueue'[r]) = 1
    BY <2>3
  <2>5. /\ m_status' \in [CipherRequests -> {"Inactive", "Active", "Finished"}]
        /\ m_result' \in [CipherRequests -> {"Pending", "Succeeded", "Failed"}]
        /\ m_status'[r] = "Active"
        /\ \A q \in CipherRequests : q # r => m_status'[q] = m_status[q]
        /\ disordered' = disordered
    BY <1>1, <1>3 DEF Sending, TypedClient
  <2>6. watchers' \subseteq DOMAIN calls'
    BY <1>1, <2>1, <2>2 DEF Signals
  <2> QED
    BY <2>1, <2>2, <2>3, <2>4, <2>5, <2>6
<1>4. CASE NotSent(r) /\ m_watcherQueue' = [m_watcherQueue EXCEPT ![r] = <<>>]
  <2>1. calls' = calls /\ m_requests' = m_requests /\ watchers' = watchers
    BY <1>4 DEF NotSent
  <2>2. /\ m_watcherQueue' \in [CipherRequests -> Seq(Nat)] /\ m_watcherQueue'[r] = <<>>
        /\ \A q \in CipherRequests : q # r => m_watcherQueue'[q] = m_watcherQueue[q]
    BY <1>1, <1>4 DEF TypedClient
  <2>3. DOMAIN m_watcherQueue'[r] = {}
    BY <2>2
  <2>4. /\ m_status' \in [CipherRequests -> {"Inactive", "Active", "Finished"}]
        /\ m_result' \in [CipherRequests -> {"Pending", "Succeeded", "Failed"}]
        /\ \A q \in CipherRequests : q # r => m_status'[q] = m_status[q]
    BY <1>1, <1>4 DEF NotSent, TypedClient
  <2>5. disordered' = disordered
    BY <1>4, <2>2 DEF NotSent
  <2>6. /\ calls' \in Seq(Call) /\ m_requests' \in Seq(Nat)
        /\ watchers' \subseteq DOMAIN calls'
        /\ \A d \in DOMAIN calls : calls'[d] = calls[d] /\ ProcessOf(d)' = ProcessOf(d)
    BY <1>1, <2>1 DEF TypedDaemon, Signals, ProcessOf
  <2> QED
    BY <1>2, <2>1, <2>2, <2>3, <2>4, <2>5, <2>6
<1> QED
  BY <1>3, <1>4 DEF StartInitialize

\* The watchers of its earlier calls are told to delete themselves.
LEMMA InitializeDeletes ==
    ASSUME TypedClient, Waiting, NEW r \in CipherRequests, StartInitialize(r)
    PROVE  /\ events' \in [Processes -> Seq(Events)]
           /\ \A p \in Processes : \A k \in DOMAIN events[p] :
                 k \in DOMAIN events'[p] /\ events'[p][k] = events[p][k]
           /\ \A p \in Processes : \A k \in DOMAIN events'[p] :
                 \/ k \in DOMAIN events[p] /\ events'[p][k] = events[p][k]
                 \/ /\ events'[p][k].kind = "deleteLater" /\ p = process[r]
                    /\ events'[p][k].call \in DOMAIN calls
                    /\ calls[events'[p][k].call].request = r
<1>0. DeletesWatchers(r, m_watcherQueue[r])
  BY DEF StartInitialize, DeletesWatchers
<1>10. PICK o : o = process[r]
  OBVIOUS
<1>11. /\ events' \in [Processes -> Seq(Events)] /\ o \in Processes
       /\ \A p \in Processes : p # o => events'[p] = events[p]
       /\ \A k \in DOMAIN events[o] : k \in DOMAIN events'[o] /\ events'[o][k] = events[o][k]
       /\ \A k \in DOMAIN events'[o] :
            \/ k \in DOMAIN events[o] /\ events'[o][k] = events[o][k]
            \/ \E i \in DOMAIN m_watcherQueue[r] :
                    events'[o][k] = Event("deleteLater", m_watcherQueue[r][i])
  <2>1. TypedClient /\ m_watcherQueue[r] \in Seq(Nat)
    BY DEF TypedClient
  <2>2. PICK w : w = m_watcherQueue[r]
    OBVIOUS
  <2>3. w \in Seq(Nat) /\ DeletesWatchers(r, w)
    BY <1>0, <2>1, <2>2
  <2>4. events' \in [Processes -> Seq(Events)] /\ o \in Processes
    BY ONLY <1>10, <2>1, <2>3, Deleting
  <2>5. \A p \in Processes : p # o => events'[p] = events[p]
    BY ONLY <1>10, <2>1, <2>3, Deleting
  <2>6. \A k \in DOMAIN events[o] : k \in DOMAIN events'[o] /\ events'[o][k] = events[o][k]
    BY ONLY <1>10, <2>1, <2>3, Deleting
  <2>7. \A k \in DOMAIN events'[o] :
             \/ k \in DOMAIN events[o] /\ events'[o][k] = events[o][k]
             \/ IsDeletion(o, k, w)
    BY ONLY <1>10, <2>1, <2>3, Deleting
  <2> QED
    BY <2>2, <2>4, <2>5, <2>6, <2>7 DEF IsDeletion
<1>12. \A p \in Processes : \A k \in DOMAIN events[p] :
            k \in DOMAIN events'[p] /\ events'[p][k] = events[p][k]
  BY <1>11
<1>13. ASSUME NEW p \in Processes, NEW k \in DOMAIN events'[p]
       PROVE  \/ k \in DOMAIN events[p] /\ events'[p][k] = events[p][k]
              \/ /\ events'[p][k].kind = "deleteLater" /\ p = o
                 /\ events'[p][k].call \in DOMAIN calls
                 /\ calls[events'[p][k].call].request = r
  <2>1. CASE p # o
    BY <1>11, <2>1
  <2>2. CASE p = o /\ k \in DOMAIN events[o] /\ events'[o][k] = events[o][k]
    BY <2>2
  <2>3. CASE /\ p = o
             /\ \E i \in DOMAIN m_watcherQueue[r] :
                    events'[o][k] = Event("deleteLater", m_watcherQueue[r][i])
    <3>1. PICK i \in DOMAIN m_watcherQueue[r] :
                events'[o][k] = Event("deleteLater", m_watcherQueue[r][i])
      BY <2>3
    <3>2. /\ m_watcherQueue[r][i] \in DOMAIN calls
          /\ calls[m_watcherQueue[r][i]].request = r
      BY DEF Waiting
    <3>3. events'[o][k].kind = "deleteLater" /\ events'[o][k].call = m_watcherQueue[r][i]
      BY <3>1, EventParts
    <3> QED
      BY <2>3, <3>2, <3>3
  <2> QED
    BY <1>11, <2>1, <2>2, <2>3
<1> QED
  BY <1>10, <1>11, <1>12, <1>13

\* A request that initializes waits for its new call only.
LEMMA InitializeClient ==
    ASSUME SessionsInv, NEW r \in CipherRequests, StartInitialize(r), Free(process[r])
    PROVE  TypedClient' /\ TypedDaemon' /\ Waiting' /\ Alike' /\ Signals' /\ Completed'
           /\ Served' /\ InTurn' /\ NoStrayWatcher' /\ OwnReply'
<1>1. PICK n : n = Len(calls) + 1
  OBVIOUS
<1>2. /\ m_cipherMode' = m_cipherMode /\ m_cipherMode[r] = "InitializeCipher"
      /\ m_cryptoPluginName' = m_cryptoPluginName /\ taking' = taking
      /\ m_cipherSessionToken' = [m_cipherSessionToken EXCEPT ![r] = 0]
      /\ misfired' = misfired /\ process' = process /\ m_cipherSessions' = m_cipherSessions
      /\ pool' = pool /\ m_completedHash' = m_completedHash
      /\ crashed' = crashed /\ astray' = astray
  BY DEF StartInitialize
<1>3. TypedClient /\ TypedDaemon /\ Waiting /\ Alike /\ Signals /\ Completed /\ Served /\ InTurn
      /\ NoStrayWatcher /\ OwnReply
  BY DEF SessionsInv
<1>4. /\ m_cipherSessionToken' \in [CipherRequests -> {0} \cup Tokens] /\ m_cipherSessionToken'[r] = 0
      /\ \A q \in CipherRequests : q # r => m_cipherSessionToken'[q] = m_cipherSessionToken[q]
  BY <1>2, <1>3 DEF TypedClient
<1>5. /\ calls' \in Seq(Call) /\ m_requests' \in Seq(Nat)
      /\ \A d \in DOMAIN calls : /\ d \in DOMAIN calls' /\ calls'[d] = calls[d]
                                 /\ ProcessOf(d)' = ProcessOf(d)
      /\ m_status' \in [CipherRequests -> {"Inactive", "Active", "Finished"}]
      /\ m_result' \in [CipherRequests -> {"Pending", "Succeeded", "Failed"}]
      /\ \A q \in CipherRequests : q # r => m_status'[q] = m_status[q]
      /\ disordered' = disordered
  BY <1>1, InitializeDoes
<1>6. /\ watchers \subseteq watchers' /\ watchers' \subseteq watchers \cup {n}
      /\ watchers' \subseteq DOMAIN calls'
      /\ n \in watchers' => /\ calls'[n].request = r
                            /\ 1 \in DOMAIN m_watcherQueue'[r] /\ m_watcherQueue'[r][1] = n
  BY <1>1, InitializeDoes
<1>7. /\ n \notin watchers
      /\ \A q \in CipherRequests :
            /\ n \notin m_completedHash[q] /\ process[q] \in Processes
            /\ m_watcherQueue[q] \in Seq(Nat)
            /\ \A i \in DOMAIN m_watcherQueue[q] :
                  m_watcherQueue[q][i] \in DOMAIN calls /\ m_watcherQueue[q][i] # n
      /\ \A p \in Processes : \A k \in DOMAIN events[p] :
            events[p][k].call # n /\ events[p][k].call \in DOMAIN calls
  BY <1>1, <1>3, ClientNumbers
<1>70. n \notin DOMAIN calls
  BY <1>1, <1>3 DEF TypedDaemon
<1>8. /\ m_watcherQueue' \in [CipherRequests -> Seq(Nat)]
      /\ \A q \in CipherRequests : q # r => m_watcherQueue'[q] = m_watcherQueue[q]
  BY <1>1, InitializeDoes
<1>9. \A i \in DOMAIN m_watcherQueue'[r] :
        /\ i = 1 /\ Len(m_watcherQueue'[r]) = 1 /\ m_watcherQueue'[r][i] = n
        /\ n \in DOMAIN calls' /\ n \in watchers' /\ m_status'[r] = "Active"
        /\ calls'[n].request = r /\ calls'[n].mode = m_cipherMode[r]
        /\ calls'[n].plugin = m_cryptoPluginName[r] /\ calls'[n].reply = "none"
  BY <1>1, InitializeDoes
<1>10. PICK o : o = process[r]
  OBVIOUS
<1>11. events' \in [Processes -> Seq(Events)]
  BY <1>3, InitializeDeletes
<1>12. \A p \in Processes : \A k \in DOMAIN events[p] :
            k \in DOMAIN events'[p] /\ events'[p][k] = events[p][k]
  BY <1>3, InitializeDeletes
<1>13. \A p \in Processes : \A k \in DOMAIN events'[p] :
            \/ k \in DOMAIN events[p] /\ events'[p][k] = events[p][k]
            \/ /\ events'[p][k].kind = "deleteLater" /\ p = o
               /\ events'[p][k].call \in DOMAIN calls
               /\ calls[events'[p][k].call].request = r
  BY <1>3, <1>10, InitializeDeletes
<1>130. \A q : Regular(q)' <=> Regular(q)
  BY <1>2, <1>5 DEF Regular
<1>14. TypedClient'
  BY <1>2, <1>3, <1>4, <1>5, <1>8, <1>11 DEF TypedClient
<1>15. TypedDaemon'
  BY <1>2, <1>3, <1>5 DEF TypedDaemon
<1>16. Waiting'
  <2>3. \A q \in CipherRequests : \A i \in DOMAIN m_watcherQueue'[q] :
            /\ m_watcherQueue'[q][i] \in DOMAIN calls'
            /\ calls'[m_watcherQueue'[q][i]].request = q
            /\ calls'[m_watcherQueue'[q][i]].mode = "InitializeCipher" =>
                Len(m_watcherQueue'[q]) = 1 /\ m_cipherSessionToken'[q] = 0
    <3> SUFFICES ASSUME NEW q \in CipherRequests, NEW i \in DOMAIN m_watcherQueue'[q]
                 PROVE  /\ m_watcherQueue'[q][i] \in DOMAIN calls'
                        /\ calls'[m_watcherQueue'[q][i]].request = q
                        /\ calls'[m_watcherQueue'[q][i]].mode = "InitializeCipher" =>
                            Len(m_watcherQueue'[q]) = 1 /\ m_cipherSessionToken'[q] = 0
      OBVIOUS
    <3>1. CASE q = r
      BY <1>4, <1>9, <3>1
    <3>2. CASE q # r
      <4>1. PICK c : c = m_watcherQueue[q][i] /\ c = m_watcherQueue'[q][i]
        BY <1>8, <3>2
      <4>2. c \in DOMAIN calls /\ calls[c].request = q
            /\ (calls[c].mode = "InitializeCipher" =>
                    Len(m_watcherQueue[q]) = 1 /\ m_cipherSessionToken[q] = 0)
        BY <1>3, <1>8, <3>2, <4>1 DEF Waiting
      <4> QED
        BY <1>4, <1>5, <1>8, <3>2, <4>1, <4>2
    <3> QED
      BY <3>1, <3>2
  <2>4. \A q \in CipherRequests : \A i, j \in DOMAIN m_watcherQueue'[q] :
            i < j => m_watcherQueue'[q][i] < m_watcherQueue'[q][j]
    <3>1. \A i, j \in DOMAIN m_watcherQueue'[r] : ~(i < j)
      BY <1>9
    <3> QED
      BY <1>3, <1>8, <3>1 DEF Waiting
  <2> QED
    BY <2>3, <2>4 DEF Waiting
<1>160. Alike'
  <2> SUFFICES ASSUME NEW q \in CipherRequests, Regular(q), NEW i \in DOMAIN m_watcherQueue'[q]
               PROVE  /\ m_status'[q] = "Active"
                      /\ calls'[m_watcherQueue'[q][i]].mode = m_cipherMode[q]
                      /\ calls'[m_watcherQueue'[q][i]].plugin = m_cryptoPluginName[q]
    BY <1>2, <1>130 DEF Alike
  <2>1. CASE q = r
    BY <1>9, <2>1
  <2>2. CASE q # r
    <3>1. PICK c : c = m_watcherQueue[q][i] /\ c = m_watcherQueue'[q][i]
      BY <1>8, <2>2
    <3>2. c \in DOMAIN calls /\ m_status[q] = "Active" /\ calls[c].mode = m_cipherMode[q]
          /\ calls[c].plugin = m_cryptoPluginName[q]
      <4>1. i \in DOMAIN m_watcherQueue[q]
        BY <1>8, <2>2
      <4>2. /\ m_status[q] = "Active" /\ calls[m_watcherQueue[q][i]].mode = m_cipherMode[q]
            /\ calls[m_watcherQueue[q][i]].plugin = m_cryptoPluginName[q]
        BY <1>3, <4>1, ZenonT(30) DEF Alike
      <4> QED
        BY <1>7, <3>1, <4>1, <4>2
    <3> QED
      BY <1>5, <2>2, <3>1, <3>2
  <2> QED
    BY <2>1, <2>2
<1>161. Completed'
  <2>1. \A q \in CipherRequests : \A c \in m_completedHash[q] :
            /\ c \in DOMAIN calls' /\ calls'[c].mode = "UpdateCipher" /\ calls'[c].reply # "none"
    BY <1>3, <1>5 DEF Completed
  <2>2. r \notin taking
    BY DEF Free
  <2>3. m_watcherQueue'[r] # <<>> => m_watcherQueue'[r][1] \notin m_completedHash[r]
    <3>1. m_watcherQueue'[r] \in Seq(Nat)
      BY <1>8
    <3>2. m_watcherQueue'[r] # <<>> => 1 \in DOMAIN m_watcherQueue'[r]
      BY <3>1
    <3> QED
      BY <1>7, <1>9, <3>2
  <2> SUFFICES ASSUME NEW q \in CipherRequests
               PROVE  /\ q \in taking => /\ m_watcherQueue'[q] # <<>>
                                         /\ m_watcherQueue'[q][1] \in m_completedHash[q]
                                         /\ process[q] \notin crashed
                      /\ /\ Regular(q) /\ process[q] \notin crashed
                         /\ m_watcherQueue'[q] # <<>>
                         /\ m_watcherQueue'[q][1] \in m_completedHash[q]
                         => q \in taking
    BY <1>2, <1>130, <2>1 DEF Completed
  <2>4. CASE q = r
    BY <2>2, <2>3, <2>4
  <2>5. CASE q # r
    BY <1>3, <1>8, <2>5 DEF Completed
  <2> QED
    BY <2>4, <2>5
<1>17. Signals'
  <2>1. watchers' \subseteq DOMAIN calls'
    BY <1>6
  <2> SUFFICES ASSUME NEW p \in Processes, NEW k \in DOMAIN events'[p]
               PROVE  /\ events'[p][k].call \in DOMAIN calls
                      /\ ProcessOf(events'[p][k].call) = p
                      /\ events'[p][k].kind = "finished" =>
                            /\ calls[events'[p][k].call].reply # "none"
                            /\ \A l \in DOMAIN events'[p] : events'[p][l] = events'[p][k] => l = k
    BY <1>2, <1>5, <2>1 DEF Signals
  <2>2. CASE k \in DOMAIN events[p] /\ events'[p][k] = events[p][k]
    <3>1. /\ events[p][k].call \in DOMAIN calls /\ ProcessOf(events[p][k].call) = p
          /\ events[p][k].kind = "finished" =>
                /\ calls[events[p][k].call].reply # "none"
                /\ \A l \in DOMAIN events[p] : events[p][l] = events[p][k] => l = k
      BY <1>3, <2>2 DEF Signals
    <3>2. ASSUME NEW l \in DOMAIN events'[p], events'[p][l] = events'[p][k],
                 events'[p][k].kind = "finished"
          PROVE  l \in DOMAIN events[p] /\ events[p][l] = events[p][k]
      BY <1>13, <2>2, <3>2
    <3> QED
      BY <2>2, <3>1, <3>2
  <2>3. CASE /\ events'[p][k].kind = "deleteLater" /\ p = o
             /\ events'[p][k].call \in DOMAIN calls
             /\ calls[events'[p][k].call].request = r
    BY <1>10, <2>3 DEF ProcessOf
  <2> QED
    BY <1>13, <2>2, <2>3
<1>18. Served'
  <2> SUFFICES ASSUME NEW q \in CipherRequests, Regular(q), process[q] \notin crashed,
                      NEW i \in DOMAIN m_watcherQueue'[q]
               PROVE  /\ m_watcherQueue'[q][i] \in watchers'
                      /\ \A k \in DOMAIN events'[process[q]] :
                            events'[process[q]][k] # Event("deleteLater", m_watcherQueue'[q][i])
                      /\ calls'[m_watcherQueue'[q][i]].reply # "none" =>
                            \/ m_watcherQueue'[q][i] \in m_completedHash[q]
                            \/ \E k \in DOMAIN events'[process[q]] :
                                events'[process[q]][k] = Event("finished", m_watcherQueue'[q][i])
    <3>1. process' = process /\ crashed' = crashed /\ m_completedHash' = m_completedHash
      BY <1>2
    <3> QED
      BY <1>130, <3>1 DEF Served
  <2>0. process[q] \in Processes
    BY <1>7
  <2>1. CASE q = r
    <3>1. n \in watchers' /\ calls'[n].reply = "none" /\ m_watcherQueue'[q][i] = n
      BY <1>9, <2>1
    <3>3. \A k \in DOMAIN events'[process[q]] : events'[process[q]][k].call # n
      BY <1>7, <1>13, <1>70, <2>0
    <3>4. \A k \in DOMAIN events'[process[q]] :
            events'[process[q]][k] # Event("deleteLater", n)
      BY <3>3, EventParts
    <3> QED
      BY <3>1, <3>4
  <2>2. CASE q # r
    <3>0. PICK c : c = m_watcherQueue[q][i]
      OBVIOUS
    <3>1. c = m_watcherQueue'[q][i]
      BY <1>8, <2>2, <3>0
    <3>2. c \in DOMAIN calls /\ calls'[c] = calls[c] /\ i \in DOMAIN m_watcherQueue[q]
          /\ calls[c].request = q
      BY <1>3, <1>5, <1>8, <2>2, <3>0 DEF Waiting
    <3>3. /\ c \in watchers
          /\ \A k \in DOMAIN events[process[q]] : events[process[q]][k] # Event("deleteLater", c)
          /\ calls[c].reply # "none" =>
                \/ c \in m_completedHash[q]
                \/ \E k \in DOMAIN events[process[q]] : events[process[q]][k] = Event("finished", c)
      BY <1>3, <3>0, <3>2 DEF Served
    <3>4. ASSUME NEW k \in DOMAIN events'[process[q]],
                 events'[process[q]][k] = Event("deleteLater", c)
          PROVE  FALSE
      <4>1. events'[process[q]][k].call = c
        BY <3>4, EventParts
      <4>2. ~(k \in DOMAIN events[process[q]] /\ events'[process[q]][k] = events[process[q]][k])
        BY <3>3, <3>4
      <4>3. calls[c].request = r
        BY <1>13, <2>0, <4>1, <4>2
      <4> QED
        BY <2>2, <3>2, <4>3
    <3>5. calls'[c].reply # "none" =>
            \/ c \in m_completedHash[q]
            \/ \E k \in DOMAIN events'[process[q]] : events'[process[q]][k] = Event("finished", c)
      BY <1>12, <2>0, <3>2, <3>3
    <3> QED
      BY <1>6, <3>1, <3>3, <3>4, <3>5
  <2> QED
    BY <2>1, <2>2
<1>19. InTurn'
  <2>0. ASSUME NEW q \in CipherRequests, Regular(q), process[q] \notin crashed,
               NEW i \in DOMAIN m_watcherQueue'[q], NEW j \in DOMAIN m_watcherQueue'[q],
               NEW k \in DOMAIN events'[process[q]], i < j,
               m_watcherQueue'[q][i] \notin m_completedHash[q],
               events'[process[q]][k] = Event("finished", m_watcherQueue'[q][j])
        PROVE  \E l \in DOMAIN events'[process[q]] :
                    l < k /\ events'[process[q]][l] = Event("finished", m_watcherQueue'[q][i])
    <3>1. q # r
      BY <1>9, <2>0
    <3>2. /\ i \in DOMAIN m_watcherQueue[q] /\ m_watcherQueue'[q][i] = m_watcherQueue[q][i]
          /\ j \in DOMAIN m_watcherQueue[q] /\ m_watcherQueue'[q][j] = m_watcherQueue[q][j]
      BY <1>8, <3>1
    <3>3. events'[process[q]][k].kind = "finished" /\ process[q] \in Processes
      BY <1>7, <2>0, EventParts
    <3>4. k \in DOMAIN events[process[q]] /\ events'[process[q]][k] = events[process[q]][k]
      BY <1>13, <3>3
    <3>5. /\ m_watcherQueue[q][i] \notin m_completedHash[q]
          /\ events[process[q]][k] = Event("finished", m_watcherQueue[q][j])
      BY <2>0, <3>2, <3>4
    <3>6. \A a, b \in DOMAIN m_watcherQueue[q] :
            a < b /\ events[process[q]][k] = Event("finished", m_watcherQueue[q][b]) =>
                \/ m_watcherQueue[q][a] \in m_completedHash[q]
                \/ \E l \in DOMAIN events[process[q]] :
                    l < k /\ events[process[q]][l] = Event("finished", m_watcherQueue[q][a])
      BY <1>3, <2>0, <3>4, ZenonT(30) DEF InTurn
    <3>7. PICK l \in DOMAIN events[process[q]] :
            l < k /\ events[process[q]][l] = Event("finished", m_watcherQueue[q][i])
      BY <2>0, <3>2, <3>5, <3>6, ZenonT(30)
    <3> QED
      BY <1>12, <3>2, <3>3, <3>7
  <2>1. /\ \A q \in CipherRequests : Regular(q)' => Regular(q)
        /\ process' = process /\ crashed' = crashed /\ m_completedHash' = m_completedHash
    BY <1>2, <1>130
  <2> QED
    BY ONLY <2>0, <2>1 DEF InTurn
<1>20. restarted \subseteq restarted' /\ (m_watcherQueue[r] # <<>> => r \in restarted')
  BY DEF StartInitialize
<1>21. NoStrayWatcher'
  <2> SUFFICES ASSUME NEW c \in watchers', calls'[c].request \notin restarted' \cup disordered'
               PROVE  \E i \in DOMAIN m_watcherQueue'[calls'[c].request] :
                        m_watcherQueue'[calls'[c].request][i] = c
    BY DEF NoStrayWatcher
  <2>1. CASE c = n
    BY <1>6, <2>1
  <2>2. CASE c \in watchers
    <3>1. c \in DOMAIN calls /\ calls'[c] = calls[c] /\ calls[c].request \in CipherRequests
      BY <1>3, <1>5, <2>2, CallFields DEF Signals
    <3>2. PICK i \in DOMAIN m_watcherQueue[calls[c].request] :
                m_watcherQueue[calls[c].request][i] = c
      BY <1>3, <1>5, <1>20, <2>2, <3>1 DEF NoStrayWatcher
    <3>3. calls[c].request # r
      BY <1>7, <1>20, <3>1, <3>2
    <3> QED
      BY <1>8, <3>1, <3>2, <3>3
  <2> QED
    BY <1>6, <2>1, <2>2
<1>22. OwnReply'
  BY <1>2, <1>3, <1>5, <1>20 DEF OwnReply
<1> QED
  BY <1>14, <1>15, <1>16, <1>160, <1>161, <1>17, <1>18, <1>19, <1>21, <1>22

-----------------------------------------------------------------------------
(* The steps of the application keep the invariant. *)

\* What stays true as long as nothing happens to calls and sessions.
LEMMA DaemonRests ==
    ASSUME SessionsInv, UNCHANGED <<process, calls, daemon, astray>>, misfired \subseteq misfired'
    PROVE  /\ TypedDaemon' /\ Pipeline' /\ Sessions' /\ FailedIsAstray' /\ TokensInForce'
           /\ \A p : Calm(p)' => Calm(p)
           /\ \A p, t : NotEnding(p, t)' = NotEnding(p, t)
<1>1. /\ process' = process /\ calls' = calls /\ m_requests' = m_requests /\ pool' = pool
      /\ m_cipherSessions' = m_cipherSessions /\ astray' = astray
  BY DEF daemon
<1>2. TypedDaemon'
  BY <1>1 DEF SessionsInv, TypedDaemon
<1>3. Pipeline'
  BY <1>1 DEF SessionsInv, Pipeline, QueueInOrder, PoolInOrder, Accounted, Handled
<1>4. \A p : Calm(p)' => Calm(p)
  BY <1>1, CalmBefore
<1>5. \A r : Undisturbed(r)' => Undisturbed(r)
  BY <1>1 DEF Undisturbed
<1>6. \A c : ProcessOf(c)' = ProcessOf(c) /\ Unseen(c)' = Unseen(c)
  BY <1>1 DEF ProcessOf, Unseen
<1>7. Sessions'
  BY <1>1, <1>5, <1>6 DEF SessionsInv, Sessions
<1>8. FailedIsAstray'
  BY <1>1, <1>4, <1>6 DEF SessionsInv, FailedIsAstray
<1>9. TokensInForce'
  BY <1>1, <1>4, <1>6 DEF SessionsInv, TokensInForce
<1>10. \A p, t : NotEnding(p, t)' = NotEnding(p, t)
  BY <1>1, <1>6 DEF NotEnding
<1> QED
  BY <1>2, <1>3, <1>4, <1>7, <1>8, <1>9, <1>10

\* ... nor to the watchers, and a regular request that waits goes on as it is.
LEMMA ClientRests ==
    ASSUME SessionsInv, UNCHANGED <<process, calls, daemon, astray>>, TypedClient',
           UNCHANGED <<m_cipherSessionToken, m_watcherQueue, m_completedHash, taking, watchers,
                       events, restarted, misfired, crashed>>,
           disordered \subseteq disordered',
           \A r \in CipherRequests : r \notin disordered' /\ r \notin misfired =>
                \/ m_watcherQueue[r] = <<>>
                \/ /\ m_cipherMode'[r] = m_cipherMode[r]
                   /\ m_cryptoPluginName'[r] = m_cryptoPluginName[r]
                   /\ m_status'[r] \in {m_status[r], "Active"}
    PROVE  SessionsInv'
<1>1. /\ process' = process /\ calls' = calls /\ m_cipherSessions' = m_cipherSessions
      /\ m_cipherSessionToken' = m_cipherSessionToken /\ m_watcherQueue' = m_watcherQueue
      /\ m_completedHash' = m_completedHash /\ taking' = taking /\ watchers' = watchers
      /\ events' = events /\ restarted' = restarted /\ misfired' = misfired
      /\ crashed' = crashed /\ astray' = astray
  BY DEF daemon
<1>2. TypedDaemon' /\ Pipeline' /\ Sessions' /\ FailedIsAstray' /\ TokensInForce'
  BY <1>1, DaemonRests
<1>3. \A r \in CipherRequests : Regular(r)' => Regular(r) /\ r \notin disordered' /\ r \notin misfired
  BY <1>1 DEF Regular
<1>4. Waiting'
  BY <1>1 DEF SessionsInv, Waiting
<1>5. Alike'
  <2> SUFFICES ASSUME NEW r \in CipherRequests, Regular(r)', NEW i \in DOMAIN m_watcherQueue[r]
               PROVE  /\ m_status'[r] = "Active"
                      /\ calls[m_watcherQueue[r][i]].mode = m_cipherMode'[r]
                      /\ calls[m_watcherQueue[r][i]].plugin = m_cryptoPluginName'[r]
    BY <1>1 DEF Alike
  <2>1. m_watcherQueue[r] # <<>>
    OBVIOUS
  <2>2. /\ m_cipherMode'[r] = m_cipherMode[r] /\ m_cryptoPluginName'[r] = m_cryptoPluginName[r]
        /\ m_status'[r] \in {m_status[r], "Active"}
    BY <1>3, <2>1
  <2>3. /\ m_status[r] = "Active" /\ calls[m_watcherQueue[r][i]].mode = m_cipherMode[r]
        /\ calls[m_watcherQueue[r][i]].plugin = m_cryptoPluginName[r]
    BY <1>3 DEF SessionsInv, Alike
  <2> QED
    BY <2>2, <2>3
<1>6. Signals'
  BY <1>1 DEF SessionsInv, Signals, ProcessOf
<1>7. Completed'
  BY <1>1, <1>3 DEF SessionsInv, Completed
<1>8. Served'
  BY <1>1, <1>3 DEF SessionsInv, Served
<1>9. InTurn'
  BY <1>1, <1>3 DEF SessionsInv, InTurn
<1>10. NoStrayWatcher' /\ OwnReply'
  BY <1>1 DEF SessionsInv, NoStrayWatcher, OwnReply
<1>11. TokenHeld' /\ TokenGiven'
  BY <1>1 DEF SessionsInv, TokenHeld, TokenGiven, Finalizing, Calm, NotEnding, Unseen, ProcessOf,
              TokenOf
<1> QED
  BY <1>2, <1>4, <1>5, <1>6, <1>7, <1>8, <1>9, <1>10, <1>11 DEF SessionsInv

\* A request whose initialization is not sent has no token, and waits for nothing.
LEMMA NotInitializedTokens ==
    ASSUME SessionsInv, NEW r \in CipherRequests, StartInitialize(r), NotSent(r),
           m_watcherQueue' = [m_watcherQueue EXCEPT ![r] = <<>>]
    PROVE  /\ TokensInForce' /\ TokenHeld' /\ TokenGiven'
           /\ Sessions' /\ FailedIsAstray' /\ Pipeline'
<1>1. /\ UNCHANGED <<process, calls, daemon, astray>> /\ misfired \subseteq misfired'
      /\ process' = process /\ calls' = calls /\ m_cipherSessions' = m_cipherSessions
      /\ misfired' = misfired /\ astray' = astray
      /\ m_cipherSessionToken' = [m_cipherSessionToken EXCEPT ![r] = 0]
  BY DEF StartInitialize, NotSent, daemon
<1>2. /\ Pipeline' /\ Sessions' /\ FailedIsAstray' /\ TokensInForce'
      /\ \A p, t : NotEnding(p, t)' = NotEnding(p, t)
  BY <1>1, DaemonRests
<1>3. /\ m_cipherSessionToken'[r] = 0 /\ m_watcherQueue'[r] = <<>>
      /\ \A q \in CipherRequests : q # r =>
            /\ m_cipherSessionToken'[q] = m_cipherSessionToken[q]
            /\ m_watcherQueue'[q] = m_watcherQueue[q]
  BY <1>1 DEF SessionsInv, TypedClient
<1>4. \A p : Calm(p)' = Calm(p)
  BY <1>1 DEF Calm
<1>5. TokenHeld'
  <2>1. \A q \in CipherRequests : q # r => (Finalizing(q)' <=> Finalizing(q))
    BY <1>1, <1>3 DEF Finalizing
  <2> QED
    BY <1>1, <1>2, <1>3, <1>4, <2>1 DEF SessionsInv, TokenHeld
<1>6. TokenGiven'
  <2>1. DOMAIN m_watcherQueue'[r] = {}
    BY <1>3
  <2>2. \A c : TokenOf(c)' = TokenOf(c)
    BY <1>1 DEF TokenOf
  <2> SUFFICES ASSUME NEW q \in CipherRequests, Calm(process[q])',
                      NEW i \in DOMAIN m_watcherQueue'[q],
                      calls[m_watcherQueue'[q][i]].mode = "InitializeCipher",
                      TokenOf(m_watcherQueue[q][i])' # 0
               PROVE  /\ m_cipherSessions[process[q]][TokenOf(m_watcherQueue[q][i])']
                            = m_watcherQueue'[q][i]
                      /\ NotEnding(process[q], TokenOf(m_watcherQueue[q][i]))'
    BY <1>1 DEF TokenGiven
  <2>3. q # r /\ m_watcherQueue'[q] = m_watcherQueue[q]
    BY <1>3, <2>1
  <2>4. PICK c : c = m_watcherQueue[q][i] /\ c = m_watcherQueue'[q][i]
    BY <2>3
  <2>5. PICK t : t = TokenOf(c) /\ t = TokenOf(c)'
    BY <2>2
  <2>6. PICK o : o = process[q]
    OBVIOUS
  <2>7. Calm(o)
    BY <1>1, <1>4, <2>6
  <2>8. m_cipherSessions[o][t] = c /\ NotEnding(o, t)
    <3>1. t # 0
      BY <2>4, <2>5
    <3>2. i \in DOMAIN m_watcherQueue[q] /\ calls[m_watcherQueue[q][i]].mode = "InitializeCipher"
      BY <2>3
    <3>3. TokenOf(m_watcherQueue[q][i]) = t
      BY <2>4, <2>5
    <3>4. TokenGiven
      BY DEF SessionsInv
    <3>5. t = 0 \/ (m_cipherSessions[o][t] = m_watcherQueue[q][i] /\ NotEnding(o, t))
      BY <2>6, <2>7, <3>2, <3>3, <3>4 DEF TokenGiven
    <3> QED
      BY <2>4, <3>1, <3>5
  <2> QED
    BY <1>1, <1>2, <2>4, <2>5, <2>6, <2>8
<1> QED
  BY <1>2, <1>5, <1>6

\* startRequest in mode InitializeCipher.
LEMMA StartInitializeKeeps ==
    ASSUME SessionsInv, NEW r \in CipherRequests, StartInitialize(r), Free(process[r])
    PROVE  SessionsInv'
<1>1. TypedClient' /\ TypedDaemon' /\ Waiting' /\ Alike' /\ Signals' /\ Completed' /\ Served'
      /\ InTurn' /\ NoStrayWatcher' /\ OwnReply'
  BY InitializeClient
<1>2. CASE Sending(r) /\ m_watcherQueue' = [m_watcherQueue EXCEPT ![r] = <<Len(calls')>>]
  <2>1. TokensInForce' /\ TokenHeld' /\ TokenGiven'
    BY <1>2, InitializeTokens
  <2>2. /\ process' = process /\ m_cipherSessions' = m_cipherSessions
        /\ misfired' = misfired /\ astray' = astray /\ pool' = pool
    BY DEF StartInitialize
  <2>3. m_cipherSessionToken'[r] \in {0} \cup Tokens
    BY DEF StartInitialize, SessionsInv, TypedClient
  <2>4. TypedClient /\ TypedDaemon /\ Sessions /\ FailedIsAstray /\ Pipeline
    BY DEF SessionsInv
  <2>5. Sessions' /\ FailedIsAstray'
    BY <1>2, <2>2, <2>3, <2>4, SendingSessions
  <2>6. Pipeline'
    BY <1>2, <2>2, <2>3, <2>4, PipelineSends
  <2> QED
    BY <1>1, <2>1, <2>5, <2>6 DEF SessionsInv
<1>3. CASE NotSent(r) /\ m_watcherQueue' = [m_watcherQueue EXCEPT ![r] = <<>>]
  <2>1. /\ TokensInForce' /\ TokenHeld' /\ TokenGiven'
        /\ Sessions' /\ FailedIsAstray' /\ Pipeline'
    BY <1>3, NotInitializedTokens
  <2> QED
    BY <1>1, <2>1 DEF SessionsInv
<1> QED
  BY <1>2, <1>3 DEF StartInitialize

\* startRequest in the other modes, with a session.
LEMMA ContinueKeeps ==
    ASSUME SessionsInv, NEW r \in CipherRequests, Continue(r),
           m_cipherMode[r] # "InitializeCipher"
    PROVE  SessionsInv'
<1>1. /\ process' = process /\ m_cipherSessions' = m_cipherSessions
      /\ misfired' = misfired /\ pool' = pool /\ m_cipherSessionToken' = m_cipherSessionToken
      /\ events' = events /\ m_completedHash' = m_completedHash /\ taking' = taking
      /\ restarted' = restarted /\ crashed' = crashed /\ m_cipherMode' = m_cipherMode
      /\ m_cryptoPluginName' = m_cryptoPluginName /\ fed' = fed
  BY DEF Continue
<1>2. TypedClient /\ TypedDaemon /\ Sessions /\ FailedIsAstray /\ Pipeline
  BY DEF SessionsInv
<1>3. CASE /\ Sending(r)
           /\ m_watcherQueue' = [m_watcherQueue EXCEPT ![r] = Append(@, Len(calls'))]
           /\ astray' = IF \E c \in ToSet(m_watcherQueue[r]) : calls[c].mode = "FinalizeCipher"
                        THEN astray \cup {r} ELSE astray
  <2>1. astray \subseteq astray' /\ astray' \subseteq CipherRequests
    BY <1>2, <1>3 DEF TypedClient
  <2>2. Finalizing(r) => r \in astray'
    <3>1. Finalizing(r) => \E c \in ToSet(m_watcherQueue[r]) : calls[c].mode = "FinalizeCipher"
      BY DEF Finalizing, ToSet
    <3> QED
      BY <1>3, <3>1
  <2>3. TypedClient' /\ TypedDaemon' /\ Waiting' /\ Alike' /\ Signals' /\ Completed' /\ Served'
        /\ InTurn' /\ NoStrayWatcher' /\ OwnReply'
    BY <1>3, <2>1, ContinueClient
  <2>4. TokensInForce' /\ TokenHeld' /\ TokenGiven'
    BY <1>3, <2>1, <2>2, ContinueTokens
  <2>5. m_cipherSessionToken'[r] \in {0} \cup Tokens
    BY <1>1, <1>2 DEF TypedClient
  <2>6. Sessions' /\ FailedIsAstray'
    BY <1>1, <1>2, <1>3, <2>1, <2>5, SendingSessions
  <2>7. Pipeline'
    BY <1>1, <1>2, <1>3, <2>5, PipelineSends
  <2> QED
    BY <2>3, <2>4, <2>6, <2>7 DEF SessionsInv
<1>4. CASE m_watcherQueue' = m_watcherQueue /\ astray' = astray /\ NotSent(r)
  <2>1. /\ calls' = calls /\ m_requests' = m_requests /\ watchers' = watchers
        /\ disordered' = IF m_watcherQueue[r] # <<>> THEN disordered \cup {r} ELSE disordered
        /\ m_status' = [m_status EXCEPT ![r] = "Finished"]
        /\ m_result' = [m_result EXCEPT ![r] = "Failed"]
    BY <1>4 DEF NotSent
  <2>2. TypedClient'
    BY <1>1, <1>2, <1>4, <2>1 DEF TypedClient
  <2>3. UNCHANGED <<process, calls, daemon, astray>>
    BY <1>1, <1>4, <2>1 DEF daemon
  <2>4. \A q \in CipherRequests : q \notin disordered' =>
            m_watcherQueue[q] = <<>> \/ m_status'[q] = m_status[q]
    BY <1>2, <2>1 DEF TypedClient
  <2> QED
    BY <1>1, <1>4, <2>1, <2>2, <2>3, <2>4, ClientRests
<1> QED
  BY <1>3, <1>4 DEF Continue

\* A regular request that is not Active waits for nothing.
LEMMA NotActiveWaitsForNothing ==
    ASSUME TypedClient, Alike, NEW r \in CipherRequests, Regular(r), m_status[r] # "Active"
    PROVE  m_watcherQueue[r] = <<>>
<1>1. m_watcherQueue[r] \in Seq(Nat)
  BY DEF TypedClient
<1>2. 1 \notin DOMAIN m_watcherQueue[r]
  BY DEF Alike
<1>3. m_watcherQueue[r] # <<>> => 1 \in DOMAIN m_watcherQueue[r]
  BY <1>1
<1> QED
  BY <1>2, <1>3

\* setCipherMode and setCryptoPluginName.
LEMMA SettersKeep ==
    ASSUME SessionsInv, NEW r \in CipherRequests,
           SetCipherMode(r) \/ SetCryptoPluginName(r)
    PROVE  SessionsInv'
<1>1. /\ UNCHANGED <<process, calls, daemon, astray>>
      /\ UNCHANGED <<m_cipherSessionToken, m_watcherQueue, m_completedHash, taking, watchers,
                     events, restarted, misfired, crashed>>
      /\ disordered' = disordered /\ m_result' = m_result /\ m_status[r] # "Active"
      /\ m_status' = [m_status EXCEPT ![r] = IF @ = "Finished" THEN "Inactive" ELSE @]
  BY DEF SetCipherMode, SetCryptoPluginName, application
<1>2. TypedClient /\ Alike
  BY DEF SessionsInv
<1>3. /\ m_cipherMode' \in [CipherRequests -> Modes]
      /\ m_cryptoPluginName' \in [CipherRequests -> PluginNames]
      /\ \A q \in CipherRequests : q # r => /\ m_cipherMode'[q] = m_cipherMode[q]
                                            /\ m_cryptoPluginName'[q] = m_cryptoPluginName[q]
  <2>1. CASE SetCipherMode(r)
    <3>1. PICK m \in Modes : m_cipherMode' = [m_cipherMode EXCEPT ![r] = m]
      BY <2>1 DEF SetCipherMode
    <3>2. m_cryptoPluginName' = m_cryptoPluginName
      BY <2>1 DEF SetCipherMode
    <3> QED
      BY <1>2, <3>1, <3>2 DEF TypedClient
  <2>2. CASE SetCryptoPluginName(r)
    <3>1. PICK n \in PluginNames : m_cryptoPluginName' = [m_cryptoPluginName EXCEPT ![r] = n]
      BY <2>2 DEF SetCryptoPluginName
    <3>2. m_cipherMode' = m_cipherMode
      BY <2>2 DEF SetCryptoPluginName
    <3> QED
      BY <1>2, <3>1, <3>2 DEF TypedClient
  <2> QED
    BY <2>1, <2>2
<1>4. /\ m_status' \in [CipherRequests -> {"Inactive", "Active", "Finished"}]
      /\ \A q \in CipherRequests : q # r => m_status'[q] = m_status[q]
  BY <1>1, <1>2 DEF TypedClient
<1>5. TypedClient'
  BY <1>1, <1>2, <1>3, <1>4 DEF TypedClient
<1>6. r \notin disordered /\ r \notin misfired => m_watcherQueue[r] = <<>>
  BY <1>1, <1>2, NotActiveWaitsForNothing DEF Regular
<1> QED
  BY <1>1, <1>3, <1>4, <1>5, <1>6, ClientRests

\* startRequest in the other modes, without a session.
LEMMA StartIgnoredKeeps ==
    ASSUME SessionsInv, NEW r \in CipherRequests, StartIgnored(r)
    PROVE  SessionsInv'
<1>1. /\ UNCHANGED <<process, calls, daemon, astray>>
      /\ UNCHANGED <<m_cipherSessionToken, m_watcherQueue, m_completedHash, taking, watchers,
                     events, restarted, misfired, crashed>>
      /\ disordered' = disordered /\ m_cipherMode' = m_cipherMode
      /\ m_cryptoPluginName' = m_cryptoPluginName
      /\ m_status' = [m_status EXCEPT ![r] = "Active"]
      /\ m_result' = [m_result EXCEPT ![r] = "Pending"]
  BY DEF StartIgnored, application
<1>2. TypedClient
  BY DEF SessionsInv
<1>3. TypedClient'
  BY <1>1, <1>2 DEF TypedClient
<1>4. \A q \in CipherRequests : m_status'[q] \in {m_status[q], "Active"}
  BY <1>1, <1>2 DEF TypedClient
<1> QED
  BY <1>1, <1>3, <1>4, ClientRests

\* A step of the application.
LEMMA ApplicationKeeps ==
    ASSUME SessionsInv, NEW r \in CipherRequests, Application(r)
    PROVE  SessionsInv'
<1>1. CASE SetCipherMode(r) \/ SetCryptoPluginName(r)
  BY <1>1, SettersKeep
<1>2. CASE StartInitialize(r)
  BY <1>2, StartInitializeKeeps DEF Application
<1>3. CASE StartUpdateAuthentication(r) \/ StartUpdate(r) \/ StartFinalize(r)
  <2>1. Continue(r) /\ m_cipherMode[r] # "InitializeCipher"
    BY <1>3 DEF StartUpdateAuthentication, StartUpdate, StartFinalize
  <2> QED
    BY <2>1, ContinueKeeps
<1>4. CASE StartIgnored(r)
  BY <1>4, StartIgnoredKeeps
<1> QED
  BY <1>1, <1>2, <1>3, <1>4 DEF Application

-----------------------------------------------------------------------------
(* The event loop. *)

\* A sequence without its first element.
LEMMA TailShifts ==
    ASSUME NEW S, NEW s \in Seq(S), s # <<>>, NEW t, t = Tail(s)
    PROVE  /\ t \in Seq(S) /\ Head(s) = s[1] /\ 1 \in DOMAIN s /\ s[1] \in S
           /\ Len(s) \in Nat /\ DOMAIN s = 1 .. Len(s)
           /\ Len(t) = Len(s) - 1 /\ DOMAIN t = 1 .. Len(s) - 1
           /\ \A k \in DOMAIN s : k # 1 => k - 1 \in DOMAIN t /\ t[k - 1] = s[k]
           /\ \A k \in DOMAIN t : k + 1 \in DOMAIN s /\ t[k] = s[k + 1]
<1>1. /\ t \in Seq(S) /\ Head(s) = s[1] /\ Len(s) \in Nat /\ DOMAIN s = 1 .. Len(s)
      /\ Len(s) # 0 /\ Len(t) = Len(s) - 1 /\ DOMAIN t = 1 .. Len(t)
      /\ \A k \in 1 .. Len(t) : t[k] = s[k + 1]
  OBVIOUS
<1>2. \A k \in DOMAIN t : k + 1 \in DOMAIN s /\ t[k] = s[k + 1]
  BY <1>1
<1>3. \A k \in DOMAIN s : k # 1 => k - 1 \in DOMAIN t /\ (k - 1) + 1 = k
  BY <1>1
<1>4. 1 \in DOMAIN s
  BY <1>1
<1>5. \A k \in DOMAIN s : k # 1 => k - 1 \in DOMAIN t /\ t[k - 1] = s[k]
  BY <1>2, <1>3
<1> QED
  BY <1>1, <1>2, <1>4, <1>5

\* Where an element goes when the one at index k is taken out, and where it was.
Moved(k, l) == IF l < k THEN l ELSE l - 1
Origin(k, m) == IF m < k THEN m ELSE m + 1

\* The order of the others stays.
LEMMA MovedInOrder ==
    ASSUME NEW k \in Nat
    PROVE  /\ \A m \in Nat : Origin(k, m) \in Nat /\ Origin(k, m) # k
                             /\ Moved(k, Origin(k, m)) = m
           /\ \A l \in Nat : l # k => Moved(k, l) \in Int
           /\ \A l, m \in Nat : l # k /\ l < Origin(k, m) => Moved(k, l) < m
           /\ \A l, m \in Nat : l < m => Origin(k, l) < Origin(k, m)
           /\ \A l, m \in Nat : Origin(k, l) = Origin(k, m) => l = m
BY DEF Moved, Origin

\* A sequence without its element number k.
LEMMA Removed ==
    ASSUME NEW S, NEW s \in Seq(S), NEW k \in DOMAIN s, NEW t, t = RemoveAt(s, k)
    PROVE  /\ t \in Seq(S)
           /\ \A l \in DOMAIN s : l # k => Moved(k, l) \in DOMAIN t /\ t[Moved(k, l)] = s[l]
           /\ \A m \in DOMAIN t : Origin(k, m) \in DOMAIN s /\ t[m] = s[Origin(k, m)]
<1>1. Len(s) \in Nat /\ DOMAIN s = 1 .. Len(s) /\ k \in 1 .. Len(s)
  OBVIOUS
<1>2. PICK a : a = SubSeq(s, 1, k - 1)
  OBVIOUS
<1>3. PICK b : b = SubSeq(s, k + 1, Len(s))
  OBVIOUS
<1>4. a \in Seq(S) /\ Len(a) = k - 1 /\ \A i \in 1 .. k - 1 : a[i] = s[i]
  BY <1>1, <1>2
<1>5. b \in Seq(S) /\ Len(b) = Len(s) - k /\ \A i \in 1 .. Len(s) - k : b[i] = s[k + i]
  <2>1. b \in Seq(S)
    BY <1>1, <1>3
  <2>2. Len(b) = Len(s) - k
    BY <1>1, <1>3
  <2>3. \A i \in 1 .. Len(s) - k : b[i] = s[k + i]
    BY <1>1, <1>3
  <2> QED
    BY <2>1, <2>2, <2>3
<1>6. t = a \o b
  BY <1>2, <1>3 DEF RemoveAt
<1> HIDE <1>2, <1>3
<1>7. /\ t \in Seq(S) /\ Len(t) = Len(s) - 1 /\ DOMAIN t = 1 .. Len(s) - 1
      /\ \A m \in 1 .. Len(s) - 1 : t[m] = IF m <= k - 1 THEN a[m] ELSE b[m - (k - 1)]
  <2>1. Len(a) + Len(b) = Len(s) - 1
    BY <1>1, <1>4, <1>5
  <2>2. /\ t \in Seq(S) /\ Len(t) = Len(a) + Len(b) /\ DOMAIN t = 1 .. Len(t)
        /\ \A m \in 1 .. Len(a) + Len(b) : t[m] = IF m <= Len(a) THEN a[m] ELSE b[m - Len(a)]
    <3>1. a \in Seq(S) /\ b \in Seq(S)
      BY <1>4, <1>5
    <3>2. t \in Seq(S) /\ Len(t) = Len(a) + Len(b)
      BY ONLY <1>6, <3>1
    <3>3. \A m \in 1 .. Len(a) + Len(b) : t[m] = IF m <= Len(a) THEN a[m] ELSE b[m - Len(a)]
      BY ONLY <1>6, <3>1
    <3>4. DOMAIN t = 1 .. Len(t)
      BY ONLY <3>2
    <3> QED
      BY ONLY <3>2, <3>3, <3>4
  <2> QED
    BY <1>4, <2>1, <2>2
<1>8. ASSUME NEW m \in DOMAIN t
      PROVE  Origin(k, m) \in DOMAIN s /\ t[m] = s[Origin(k, m)]
  <2>1. m \in 1 .. Len(s) - 1 /\ m \in Nat /\ k \in Nat
    BY <1>1, <1>7
  <2>2. CASE m < k
    <3>1. m \in 1 .. k - 1 /\ Origin(k, m) = m /\ m \in 1 .. Len(s)
      BY <1>1, <2>1, <2>2 DEF Origin
    <3> QED
      BY <1>1, <1>4, <1>7, <2>1, <3>1
  <2>3. CASE ~(m < k)
    <3>1. m - (k - 1) \in 1 .. Len(s) - k /\ Origin(k, m) = m + 1 /\ m + 1 \in 1 .. Len(s)
          /\ k + (m - (k - 1)) = m + 1 /\ ~(m <= k - 1)
      BY <1>1, <2>1, <2>3 DEF Origin
    <3> QED
      BY <1>1, <1>5, <1>7, <2>1, <3>1
  <2> QED
    BY <2>2, <2>3
<1>9. ASSUME NEW l \in DOMAIN s, l # k
      PROVE  Moved(k, l) \in DOMAIN t /\ t[Moved(k, l)] = s[l]
  <2>1. Moved(k, l) \in DOMAIN t /\ Origin(k, Moved(k, l)) = l
    BY <1>1, <1>7, <1>9 DEF Moved, Origin
  <2> QED
    BY <1>8, <2>1
<1> QED
  BY <1>7, <1>8, <1>9

\* Process p has delivered event k, if there is one, and may have told the watchers
\* of the calls in D to delete themselves.
Delivered(p, k, D) ==
    /\ events' \in [Processes -> Seq(Events)]
    /\ \A q \in Processes : q # p => events'[q] = events[q]
    /\ \A l \in DOMAIN events[p] : l # k =>
        Moved(k, l) \in DOMAIN events'[p] /\ events'[p][Moved(k, l)] = events[p][l]
    /\ \A m \in DOMAIN events'[p] :
        \/ Origin(k, m) \in DOMAIN events[p] /\ events'[p][m] = events[p][Origin(k, m)]
        \/ events'[p][m].kind = "deleteLater" /\ events'[p][m].call \in D

\* Event k is taken off, ...
LEMMA EventTaken ==
    ASSUME TypedClient, NEW p \in Processes, NEW k \in DOMAIN events[p],
           events' = [events EXCEPT ![p] = Consumed(p, k)]
    PROVE  Delivered(p, k, {})
<1>1. PICK s : s = events[p]
  OBVIOUS
<1>2. PICK t : t = RemoveAt(s, k)
  OBVIOUS
<1>3. s \in Seq(Events) /\ k \in DOMAIN s
  BY <1>1 DEF TypedClient
<1>4. /\ t \in Seq(Events)
      /\ \A l \in DOMAIN s : l # k => Moved(k, l) \in DOMAIN t /\ t[Moved(k, l)] = s[l]
      /\ \A m \in DOMAIN t : Origin(k, m) \in DOMAIN s /\ t[m] = s[Origin(k, m)]
  BY <1>2, <1>3, Removed
<1>5. events' = [events EXCEPT ![p] = t]
  BY <1>1, <1>2 DEF Consumed
<1>6. events'[p] = t /\ events' \in [Processes -> Seq(Events)]
      /\ \A q \in Processes : q # p => events'[q] = events[q]
  BY <1>4, <1>5 DEF TypedClient
<1> QED
  BY ONLY <1>1, <1>4, <1>6 DEF Delivered

\* ... and one comes last, ...
LEMMA EventTakenOneMore ==
    ASSUME TypedClient, NEW p \in Processes, NEW k \in DOMAIN events[p], NEW d \in Nat,
           events' = [events EXCEPT ![p] = Append(Consumed(p, k), Event("deleteLater", d))]
    PROVE  Delivered(p, k, {d})
<1>1. PICK s : s = events[p]
  OBVIOUS
<1>2. PICK t : t = RemoveAt(s, k)
  OBVIOUS
<1>3. s \in Seq(Events) /\ k \in DOMAIN s
  BY <1>1 DEF TypedClient
<1>4. /\ t \in Seq(Events)
      /\ \A l \in DOMAIN s : l # k => Moved(k, l) \in DOMAIN t /\ t[Moved(k, l)] = s[l]
      /\ \A m \in DOMAIN t : Origin(k, m) \in DOMAIN s /\ t[m] = s[Origin(k, m)]
  BY <1>2, <1>3, Removed
<1>5. PICK e : e = Event("deleteLater", d)
  OBVIOUS
<1>6. e \in Events /\ e.kind = "deleteLater" /\ e.call = d
  BY <1>5 DEF Event, Events
<1>7. PICK u : u = Append(t, e)
  OBVIOUS
<1>8. /\ u \in Seq(Events)
      /\ \A m \in DOMAIN t : m \in DOMAIN u /\ u[m] = t[m]
      /\ \A m \in DOMAIN u : m \in DOMAIN t \/ u[m] = e
  BY ONLY <1>4, <1>6, <1>7
<1>9. events' = [events EXCEPT ![p] = u]
  BY <1>1, <1>2, <1>5, <1>7 DEF Consumed
<1>10. events'[p] = u /\ events' \in [Processes -> Seq(Events)]
      /\ \A q \in Processes : q # p => events'[q] = events[q]
  <2>1. events \in [Processes -> Seq(Events)] /\ u \in Seq(Events)
    BY <1>8 DEF TypedClient
  <2> QED
    BY ONLY <1>9, <2>1, p \in Processes
<1>11. \A l \in DOMAIN s : l # k => Moved(k, l) \in DOMAIN u /\ u[Moved(k, l)] = s[l]
  BY ONLY <1>4, <1>8
<1>12. \A m \in DOMAIN u : \/ Origin(k, m) \in DOMAIN s /\ u[m] = s[Origin(k, m)]
                           \/ u[m].kind = "deleteLater" /\ u[m].call \in {d}
  BY ONLY <1>4, <1>6, <1>8
<1> QED
  BY ONLY <1>1, <1>10, <1>11, <1>12 DEF Delivered

\* ... or nothing happens to the event loop.
LEMMA NoneTaken ==
    ASSUME TypedClient, NEW p \in Processes, events' = events
    PROVE  /\ Len(events[p]) + 1 \in Nat /\ Len(events[p]) + 1 \notin DOMAIN events[p]
           /\ Delivered(p, Len(events[p]) + 1, {})
<1>1. events[p] \in Seq(Events)
  BY DEF TypedClient
<1>2. PICK k : k = Len(events[p]) + 1
  OBVIOUS
<1>3. k \in Nat /\ \A l \in DOMAIN events[p] : l < k /\ l # k /\ l \in Nat
  BY <1>1, <1>2
<1>4. \A l \in DOMAIN events[p] : Moved(k, l) = l /\ Origin(k, l) = l
  BY <1>3 DEF Moved, Origin
<1> QED
  BY <1>2, <1>3, <1>4 DEF Delivered, TypedClient

\* The queue of r loses its first s calls.
QueueShifts(r, s) ==
    /\ m_watcherQueue' \in [CipherRequests -> Seq(Nat)]
    /\ \A q \in CipherRequests : q # r => m_watcherQueue'[q] = m_watcherQueue[q]
    /\ Len(m_watcherQueue'[r]) = Len(m_watcherQueue[r]) - s
    /\ \A i \in DOMAIN m_watcherQueue'[r] :
        i + s \in DOMAIN m_watcherQueue[r] /\ m_watcherQueue'[r][i] = m_watcherQueue[r][i + s]

\* What the loop of the lambda knows of r afterwards.
CompletedAfter(r) ==
    /\ \A x \in m_completedHash'[r] : /\ x \in DOMAIN calls /\ calls[x].mode = "UpdateCipher"
                                      /\ calls[x].reply # "none"
    /\ r \in taking' => m_watcherQueue'[r] # <<>> /\ m_watcherQueue'[r][1] \in m_completedHash'[r]
    /\ Regular(r)' /\ m_watcherQueue'[r] # <<>> /\ m_watcherQueue'[r][1] \in m_completedHash'[r]
        => r \in taking'

\* What a lambda for the reply to call c of r, or the deletion of its watcher,
\* does to the request object; D are the watchers it tells to delete themselves.
Reacts(r, c, D) ==
    /\ watchers' \subseteq watchers
    /\ \A x \in watchers : calls[x].request # r => x \in watchers'
    /\ \A x \in watchers' : calls[x].request = r =>
        \/ r \in restarted \cup disordered'
        \/ \E i \in DOMAIN m_watcherQueue'[r] : m_watcherQueue'[r][i] = x
    /\ \A q \in CipherRequests : q # r =>
        /\ m_completedHash'[q] = m_completedHash[q] /\ m_status'[q] = m_status[q]
        /\ m_cipherSessionToken'[q] = m_cipherSessionToken[q] /\ (q \in taking' <=> q \in taking)
    /\ CompletedAfter(r)
    /\ Regular(r)' => \A i \in DOMAIN m_watcherQueue'[r] :
        /\ m_status'[r] = m_status[r]
        /\ m_watcherQueue'[r][i] \in watchers' /\ m_watcherQueue'[r][i] \notin D
        /\ m_watcherQueue'[r][i] \in m_completedHash[r] \cup {c} =>
              m_watcherQueue'[r][i] \in m_completedHash'[r]

\* The event k that process p has delivered, if any, was for call c of r.
Delivering(p, k, c, r) ==
    /\ k \in Nat /\ r \in CipherRequests /\ process[r] = p /\ p \notin crashed
    /\ c \in DOMAIN calls /\ calls[c].request = r
    /\ k \in DOMAIN events[p] => events[p][k].call = c

\* Every queue loses its first calls, or none.
LEMMA QueuesShrink ==
    ASSUME TypedClient, NEW r \in CipherRequests, NEW s \in {0, 1}, QueueShifts(r, s),
           NEW q \in CipherRequests
    PROVE  /\ m_watcherQueue'[q] \in Seq(Nat) /\ m_watcherQueue[q] \in Seq(Nat)
           /\ \E n \in {0, 1} :
                /\ Len(m_watcherQueue'[q]) = Len(m_watcherQueue[q]) - n
                /\ n = 1 => q = r /\ s = 1
                /\ \A i \in DOMAIN m_watcherQueue'[q] :
                    /\ i \in Nat /\ i + n \in DOMAIN m_watcherQueue[q]
                    /\ m_watcherQueue'[q][i] = m_watcherQueue[q][i + n]
<1>1. /\ m_watcherQueue'[q] \in Seq(Nat) /\ m_watcherQueue[q] \in Seq(Nat)
      /\ \A i \in DOMAIN m_watcherQueue'[q] : i \in Nat /\ i + 0 = i
      /\ Len(m_watcherQueue'[q]) \in Nat /\ Len(m_watcherQueue[q]) \in Nat
  BY DEF TypedClient, QueueShifts
<1>2. CASE q = r
  BY <1>1, <1>2 DEF QueueShifts
<1>3. CASE q # r
  <2>1. m_watcherQueue'[q] = m_watcherQueue[q]
    BY <1>3 DEF QueueShifts
  <2>2. Len(m_watcherQueue'[q]) = Len(m_watcherQueue[q]) - 0
    BY <1>1, <2>1
  <2>3. \A i \in DOMAIN m_watcherQueue'[q] :
                /\ i \in Nat /\ i + 0 \in DOMAIN m_watcherQueue[q]
                /\ m_watcherQueue'[q][i] = m_watcherQueue[q][i + 0]
    BY <1>1, <2>1
  <2> QED
    BY <1>1, <2>2, <2>3
<1> QED
  BY <1>2, <1>3

\* What is waited for afterwards was waited for before, in the same order.
LEMMA WaitedBefore ==
    ASSUME TypedClient, NEW r \in CipherRequests, NEW s \in {0, 1}, QueueShifts(r, s),
           NEW q \in CipherRequests
    PROVE  /\ \A i \in DOMAIN m_watcherQueue'[q] : \E j \in DOMAIN m_watcherQueue[q] :
                m_watcherQueue'[q][i] = m_watcherQueue[q][j]
           /\ \A i, j \in DOMAIN m_watcherQueue'[q] : i < j =>
                \E u, v \in DOMAIN m_watcherQueue[q] :
                    /\ u < v /\ m_watcherQueue'[q][i] = m_watcherQueue[q][u]
                    /\ m_watcherQueue'[q][j] = m_watcherQueue[q][v]
<1>1. PICK n \in {0, 1} : \A k \in DOMAIN m_watcherQueue'[q] :
                /\ k \in Nat /\ k + n \in DOMAIN m_watcherQueue[q]
                /\ m_watcherQueue'[q][k] = m_watcherQueue[q][k + n]
  BY QueuesShrink
<1>2. \A i, j \in DOMAIN m_watcherQueue'[q] : i < j => i + n < j + n
  BY <1>1
<1> QED
  BY <1>1, <1>2

\* The requests go on waiting when an event is delivered.
LEMMA WaitingReacts ==
    ASSUME SessionsInv, NEW p \in Processes, NEW k, NEW c, NEW r, Delivering(p, k, c, r),
           NEW D, NEW s \in {0, 1}, QueueShifts(r, s), Reacts(r, c, D),
           s = 0 => m_cipherSessionToken' = m_cipherSessionToken,
           UNCHANGED <<process, calls, m_cipherMode, m_cryptoPluginName, crashed>>,
           misfired \subseteq misfired', disordered \subseteq disordered'
    PROVE  Waiting' /\ Alike' /\ Completed'
<1>1. /\ process' = process /\ calls' = calls /\ m_cipherMode' = m_cipherMode
      /\ m_cryptoPluginName' = m_cryptoPluginName /\ crashed' = crashed
  OBVIOUS
<1>2. TypedClient /\ Waiting /\ Alike /\ Completed
  BY DEF SessionsInv
<1>3. r \in CipherRequests /\ process[r] \notin crashed
  BY DEF Delivering
<1>4. \A q \in CipherRequests : Regular(q)' => Regular(q)
  BY DEF Regular
<1>5. ASSUME NEW q \in CipherRequests
      PROVE  /\ \A i \in DOMAIN m_watcherQueue'[q] : \E j \in DOMAIN m_watcherQueue[q] :
                    m_watcherQueue'[q][i] = m_watcherQueue[q][j]
             /\ \A i, j \in DOMAIN m_watcherQueue'[q] : i < j =>
                    \E u, v \in DOMAIN m_watcherQueue[q] :
                        /\ u < v /\ m_watcherQueue'[q][i] = m_watcherQueue[q][u]
                        /\ m_watcherQueue'[q][j] = m_watcherQueue[q][v]
  BY <1>2, <1>3, WaitedBefore
<1>6. ASSUME NEW q \in CipherRequests, NEW i \in DOMAIN m_watcherQueue'[q]
      PROVE  /\ m_watcherQueue'[q][i] \in DOMAIN calls
             /\ calls[m_watcherQueue'[q][i]].request = q
             /\ calls[m_watcherQueue'[q][i]].mode = "InitializeCipher" =>
                    Len(m_watcherQueue'[q]) = 1 /\ m_cipherSessionToken'[q] = 0
  <2>1. PICK j \in DOMAIN m_watcherQueue[q] : m_watcherQueue'[q][i] = m_watcherQueue[q][j]
    BY <1>5
  <2>2. /\ m_watcherQueue[q][j] \in DOMAIN calls /\ calls[m_watcherQueue[q][j]].request = q
        /\ calls[m_watcherQueue[q][j]].mode = "InitializeCipher" =>
              Len(m_watcherQueue[q]) = 1 /\ m_cipherSessionToken[q] = 0
    BY <1>2 DEF Waiting
  <2>3. ASSUME Len(m_watcherQueue[q]) = 1, m_cipherSessionToken[q] = 0
        PROVE  Len(m_watcherQueue'[q]) = 1 /\ m_cipherSessionToken'[q] = 0
    <3>1. m_watcherQueue'[q] \in Seq(Nat)
      BY <1>2, <1>3, QueuesShrink
    <3>2. PICK n \in {0, 1} : Len(m_watcherQueue'[q]) = Len(m_watcherQueue[q]) - n
                              /\ (n = 1 => q = r /\ s = 1)
                              /\ \A u \in DOMAIN m_watcherQueue'[q] :
                                    u + n \in DOMAIN m_watcherQueue[q]
      BY <1>2, <1>3, QueuesShrink
    <3>3. Len(m_watcherQueue'[q]) >= 1
      BY <3>1
    <3>4. n = 0
      BY <2>3, <3>2, <3>3
    <3>5. q = r => s = 0
      <4>1. q = r => Len(m_watcherQueue'[q]) = Len(m_watcherQueue[q]) - s
        BY DEF QueueShifts
      <4> QED
        BY <2>3, <3>3, <4>1
    <3>6. m_cipherSessionToken'[q] = m_cipherSessionToken[q]
      BY <3>5 DEF Reacts
    <3> QED
      BY <2>3, <3>2, <3>4, <3>6
  <2> QED
    BY <2>1, <2>2, <2>3
<1>7. Waiting'
  <2>1. \A q \in CipherRequests : \A i, j \in DOMAIN m_watcherQueue'[q] :
            i < j => m_watcherQueue'[q][i] < m_watcherQueue'[q][j]
    BY <1>2, <1>5 DEF Waiting
  <2> QED
    BY <1>1, <1>6, <2>1 DEF Waiting
<1>8. Alike'
  <2> SUFFICES ASSUME NEW q \in CipherRequests, Regular(q)', NEW i \in DOMAIN m_watcherQueue'[q]
               PROVE  /\ m_status'[q] = "Active"
                      /\ calls[m_watcherQueue'[q][i]].mode = m_cipherMode[q]
                      /\ calls[m_watcherQueue'[q][i]].plugin = m_cryptoPluginName[q]
    BY <1>1 DEF Alike
  <2>1. PICK j \in DOMAIN m_watcherQueue[q] : m_watcherQueue'[q][i] = m_watcherQueue[q][j]
    BY <1>5
  <2>2. /\ m_status[q] = "Active" /\ calls[m_watcherQueue[q][j]].mode = m_cipherMode[q]
        /\ calls[m_watcherQueue[q][j]].plugin = m_cryptoPluginName[q]
    BY <1>2, <1>4, ZenonT(30) DEF Alike
  <2>3. m_status'[q] = m_status[q]
    BY DEF Reacts
  <2> QED
    BY <2>1, <2>2, <2>3
<1>9. Completed'
  <2> SUFFICES ASSUME NEW q \in CipherRequests
               PROVE  /\ \A x \in m_completedHash'[q] :
                            /\ x \in DOMAIN calls /\ calls[x].mode = "UpdateCipher"
                            /\ calls[x].reply # "none"
                      /\ q \in taking' => /\ m_watcherQueue'[q] # <<>>
                                          /\ m_watcherQueue'[q][1] \in m_completedHash'[q]
                                          /\ process[q] \notin crashed
                      /\ /\ Regular(q)' /\ process[q] \notin crashed /\ m_watcherQueue'[q] # <<>>
                         /\ m_watcherQueue'[q][1] \in m_completedHash'[q]
                         => q \in taking'
    BY <1>1 DEF Completed
  <2>1. CASE q = r
    BY <1>3, <2>1 DEF Reacts, CompletedAfter
  <2>2. CASE q # r
    <3>1. /\ m_completedHash'[q] = m_completedHash[q] /\ (q \in taking' <=> q \in taking)
          /\ m_watcherQueue'[q] = m_watcherQueue[q]
      BY <2>2 DEF Reacts, QueueShifts
    <3> QED
      BY <1>2, <1>4, <3>1 DEF Completed
  <2> QED
    BY <2>1, <2>2
<1> QED
  BY <1>7, <1>8, <1>9

\* The signals of the event loops are still good when one is delivered.
LEMMA SignalsReact ==
    ASSUME SessionsInv, NEW p \in Processes, NEW k, NEW c, NEW r, Delivering(p, k, c, r),
           NEW D, Delivered(p, k, D), D \subseteq DOMAIN calls, \A d \in D : calls[d].request = r,
           watchers' \subseteq watchers, UNCHANGED <<process, calls>>
    PROVE  Signals'
<1>1. process' = process /\ calls' = calls
  OBVIOUS
<1>2. Signals /\ TypedClient
  BY DEF SessionsInv
<1>3. k \in Nat /\ r \in CipherRequests /\ process[r] = p
  BY DEF Delivering
<1>4. watchers' \subseteq DOMAIN calls
  BY <1>2 DEF Signals
<1> SUFFICES ASSUME NEW o \in Processes, NEW m \in DOMAIN events'[o]
             PROVE  /\ events'[o][m].call \in DOMAIN calls
                    /\ ProcessOf(events'[o][m].call) = o
                    /\ events'[o][m].kind = "finished" =>
                          /\ calls[events'[o][m].call].reply # "none"
                          /\ \A l \in DOMAIN events'[o] : events'[o][l] = events'[o][m] => l = m
  BY <1>1, <1>4 DEF Signals, ProcessOf
<1>5. CASE o # p
  <2>1. events'[o] = events[o]
    BY <1>5 DEF Delivered
  <2> QED
    BY <1>2, <2>1 DEF Signals
<1>6. CASE o = p /\ Origin(k, m) \in DOMAIN events[p] /\ events'[p][m] = events[p][Origin(k, m)]
  <2>1. PICK n : n = Origin(k, m)
    OBVIOUS
  <2>2. /\ events[o][n].call \in DOMAIN calls /\ ProcessOf(events[o][n].call) = o
        /\ events[o][n].kind = "finished" =>
              /\ calls[events[o][n].call].reply # "none"
              /\ \A l \in DOMAIN events[o] : events[o][l] = events[o][n] => l = n
    BY <1>2, <1>6, <2>1 DEF Signals
  <2>3. ASSUME NEW l \in DOMAIN events'[o], events'[o][l] = events'[o][m],
               events'[o][m].kind = "finished"
        PROVE  l = m
    <3>1. Origin(k, l) \in DOMAIN events[p] /\ events'[p][l] = events[p][Origin(k, l)]
      BY <1>6, <2>3 DEF Delivered
    <3>2. Origin(k, l) = n
      BY <1>6, <2>1, <2>2, <2>3, <3>1
    <3>3. events'[o] \in Seq(Events)
      BY DEF Delivered
    <3>4. l \in Nat /\ m \in Nat
      BY <3>3
    <3> QED
      BY <1>3, <2>1, <3>2, <3>4, MovedInOrder
  <2> QED
    BY <1>6, <2>1, <2>2, <2>3
<1>7. CASE o = p /\ events'[p][m].kind = "deleteLater" /\ events'[p][m].call \in D
  BY <1>3, <1>7 DEF ProcessOf
<1> QED
  BY <1>5, <1>6, <1>7 DEF Delivered

\* The signal of another call than the one delivered stays in its event loop.
LEMMA SignalStays ==
    ASSUME SessionsInv, NEW p \in Processes, NEW k, NEW c, NEW r, Delivering(p, k, c, r),
           NEW D, Delivered(p, k, D),
           NEW o \in Processes, NEW x, x # c,
           NEW l \in DOMAIN events[o], events[o][l] = Event("finished", x)
    PROVE  \E m \in DOMAIN events'[o] :
              /\ events'[o][m] = Event("finished", x)
              /\ (m = l /\ o # p) \/ (m = Moved(k, l) /\ l # k /\ o = p)
<1>1. CASE o # p
  <2>1. events'[o] = events[o]
    BY <1>1 DEF Delivered
  <2> QED
    BY <1>1, <2>1
<1>2. CASE o = p
  <2>1. l # k
    BY <1>2, EventParts DEF Delivering
  <2>2. Moved(k, l) \in DOMAIN events'[p] /\ events'[p][Moved(k, l)] = events[p][l]
    BY <1>2, <2>1 DEF Delivered
  <2> QED
    BY <1>2, <2>1, <2>2
<1> QED
  BY <1>1, <1>2

\* Where the signals afterwards come from.
LEMMA SignalWas ==
    ASSUME SessionsInv, NEW p \in Processes, NEW k, NEW c, NEW r, Delivering(p, k, c, r),
           NEW D, Delivered(p, k, D),
           NEW o \in Processes, NEW m \in DOMAIN events'[o]
    PROVE  /\ m \in Nat
           /\ \/ o # p /\ m \in DOMAIN events[o] /\ events'[o][m] = events[o][m]
              \/ o = p /\ Origin(k, m) \in DOMAIN events[o] /\ events'[o][m] = events[o][Origin(k, m)]
              \/ o = p /\ events'[o][m].kind = "deleteLater" /\ events'[o][m].call \in D
<1>1. events'[o] \in Seq(Events)
  BY DEF Delivered
<1>2. m \in Nat
  BY <1>1
<1> QED
  BY <1>2 DEF Delivered

\* What is waited for is still served, in turn, when an event is delivered.
LEMMA ServedReacts ==
    ASSUME SessionsInv, NEW p \in Processes, NEW k, NEW c, NEW r, Delivering(p, k, c, r),
           NEW D, Delivered(p, k, D), \A d \in D : calls[d].request = r,
           NEW s \in {0, 1}, QueueShifts(r, s), Reacts(r, c, D),
           UNCHANGED <<process, calls, restarted, crashed>>,
           misfired \subseteq misfired', disordered \subseteq disordered'
    PROVE  Served' /\ InTurn' /\ NoStrayWatcher'
<1>1. process' = process /\ calls' = calls /\ crashed' = crashed /\ restarted' = restarted
  OBVIOUS
<1>2. TypedClient /\ TypedDaemon /\ Waiting /\ Signals /\ Served /\ InTurn /\ NoStrayWatcher
  BY DEF SessionsInv
<1>3. r \in CipherRequests /\ k \in Nat /\ c \in DOMAIN calls /\ calls[c].request = r
  BY DEF Delivering
<1>4. \A q \in CipherRequests : (Regular(q)' => Regular(q)) /\ process[q] \in Processes
  BY <1>2 DEF Regular, TypedClient
<1>5. ASSUME NEW q \in CipherRequests, Regular(q)', NEW i \in DOMAIN m_watcherQueue'[q],
             NEW x, x = m_watcherQueue'[q][i]
      PROVE  /\ x \in watchers => x \in watchers'
             /\ x \notin D /\ (x \in m_completedHash[q] => x \in m_completedHash'[q])
             /\ x = c => x \in m_completedHash'[q]
  <2>1. PICK j \in DOMAIN m_watcherQueue[q] : m_watcherQueue'[q][i] = m_watcherQueue[q][j]
    BY <1>2, <1>3, WaitedBefore
  <2>2. calls[x].request = q
    BY <1>2, <1>5, <2>1 DEF Waiting
  <2>3. CASE q = r
    BY <1>5, <2>3 DEF Reacts
  <2>4. CASE q # r
    BY <1>3, <2>2, <2>4 DEF Reacts
  <2> QED
    BY <2>3, <2>4
<1>6. Served'
  <2> SUFFICES ASSUME NEW q \in CipherRequests, Regular(q)', process[q] \notin crashed,
                      NEW i \in DOMAIN m_watcherQueue'[q]
               PROVE  /\ m_watcherQueue'[q][i] \in watchers'
                      /\ \A m \in DOMAIN events'[process[q]] :
                            events'[process[q]][m] # Event("deleteLater", m_watcherQueue'[q][i])
                      /\ calls[m_watcherQueue'[q][i]].reply # "none" =>
                            \/ m_watcherQueue'[q][i] \in m_completedHash'[q]
                            \/ \E m \in DOMAIN events'[process[q]] :
                                events'[process[q]][m] = Event("finished", m_watcherQueue'[q][i])
    BY <1>1 DEF Served
  <2>1. PICK j \in DOMAIN m_watcherQueue[q] : m_watcherQueue'[q][i] = m_watcherQueue[q][j]
    BY <1>2, <1>3, WaitedBefore
  <2>2. PICK x : x = m_watcherQueue[q][j] /\ x = m_watcherQueue'[q][i]
    BY <2>1
  <2>3. PICK o \in Processes : o = process[q]
    BY <1>4
  <2>4. /\ x \in watchers => x \in watchers'
        /\ x \notin D /\ (x \in m_completedHash[q] => x \in m_completedHash'[q])
        /\ x = c => x \in m_completedHash'[q]
    BY <1>5, <2>2
  <2>5. /\ x \in watchers
        /\ \A l \in DOMAIN events[o] : events[o][l] # Event("deleteLater", x)
        /\ calls[x].reply # "none" =>
              \/ x \in m_completedHash[q]
              \/ \E l \in DOMAIN events[o] : events[o][l] = Event("finished", x)
    BY <1>2, <1>4, <2>2, <2>3 DEF Served
  <2>6. ASSUME NEW m \in DOMAIN events'[o], events'[o][m] = Event("deleteLater", x)
        PROVE  FALSE
    <3>1. events'[o][m].call \notin D
      BY <2>4, <2>6, EventParts
    <3> QED
      BY <2>5, <2>6, <3>1, SignalWas
  <2>7. calls[x].reply # "none" =>
            x \in m_completedHash'[q]
            \/ \E m \in DOMAIN events'[o] : events'[o][m] = Event("finished", x)
    <3> SUFFICES ASSUME calls[x].reply # "none", x \notin m_completedHash'[q]
                 PROVE  \E m \in DOMAIN events'[o] : events'[o][m] = Event("finished", x)
      OBVIOUS
    <3>1. PICK l \in DOMAIN events[o] : events[o][l] = Event("finished", x)
      BY <2>4, <2>5
    <3>2. x # c
      BY <2>4
    <3> QED
      BY <3>1, <3>2, SignalStays
  <2> QED
    BY <2>2, <2>3, <2>4, <2>5, <2>6, <2>7
<1>7. ASSUME NEW q \in CipherRequests, Regular(q)', process[q] \notin crashed,
             NEW i \in DOMAIN m_watcherQueue'[q], NEW j \in DOMAIN m_watcherQueue'[q],
             NEW m \in DOMAIN events'[process[q]], i < j,
             events'[process[q]][m] = Event("finished", m_watcherQueue'[q][j])
      PROVE  \/ m_watcherQueue'[q][i] \in m_completedHash'[q]
             \/ \E l \in DOMAIN events'[process[q]] :
                  l < m /\ events'[process[q]][l] = Event("finished", m_watcherQueue'[q][i])
  <2>1. PICK u, v \in DOMAIN m_watcherQueue[q] :
            /\ u < v /\ m_watcherQueue'[q][i] = m_watcherQueue[q][u]
            /\ m_watcherQueue'[q][j] = m_watcherQueue[q][v]
    BY <1>2, <1>3, <1>7, WaitedBefore
  <2>2. PICK x : x = m_watcherQueue[q][u] /\ x = m_watcherQueue'[q][i]
    BY <2>1
  <2>3. PICK o \in Processes : o = process[q]
    BY <1>4
  <2>4. events'[o][m].kind = "finished" /\ m \in DOMAIN events'[o]
        /\ events'[o][m] = Event("finished", m_watcherQueue[q][v])
    BY <1>7, <2>1, <2>3, EventParts
  <2>5. m \in Nat
    BY <2>4, SignalWas
  <2>6. PICK n \in DOMAIN events[o] :
            /\ events[o][n] = Event("finished", m_watcherQueue[q][v])
            /\ (n = m /\ o # p) \/ (n = Origin(k, m) /\ o = p)
    BY <2>4, SignalWas
  <2> SUFFICES ASSUME x \notin m_completedHash'[q]
               PROVE  \E l \in DOMAIN events'[o] : l < m /\ events'[o][l] = Event("finished", x)
    BY <2>2, <2>3
  <2>7. x \notin m_completedHash[q] /\ x # c
    BY <1>5, <1>7, <2>2
  <2>8. x \in m_completedHash[q]
        \/ \E l \in DOMAIN events[o] : l < n /\ events[o][l] = Event("finished", x)
    <3>1. Regular(q) /\ process[q] \notin crashed
      BY <1>4, <1>7
    <3>2. /\ n \in DOMAIN events[process[q]]
          /\ events[process[q]][n] = Event("finished", m_watcherQueue[q][v])
      BY <2>3, <2>6
    <3>3. \/ m_watcherQueue[q][u] \in m_completedHash[q]
          \/ \E l \in DOMAIN events[process[q]] :
                /\ l < n
                /\ events[process[q]][l] = Event("finished", m_watcherQueue[q][u])
      BY ONLY <1>2, <2>1, <3>1, <3>2, q \in CipherRequests, ZenonT(30) DEF InTurn
    <3> QED
      BY ONLY <2>2, <2>3, <3>3
  <2>9. PICK l \in DOMAIN events[o] : l < n /\ events[o][l] = Event("finished", x)
    BY ONLY <2>7, <2>8
  <2>10. l \in Nat
    <3>1. events[o] \in Seq(Events)
      BY <1>2 DEF TypedClient
    <3> QED
      BY <3>1
  <2>11. PICK h \in DOMAIN events'[o] :
            /\ events'[o][h] = Event("finished", x)
            /\ (h = l /\ o # p) \/ (h = Moved(k, l) /\ l # k /\ o = p)
    BY <2>7, <2>9, SignalStays
  <2>12. h < m
    <3>1. CASE o # p
      BY <2>6, <2>9, <2>11, <3>1
    <3>2. CASE o = p
      <4>1. h = Moved(k, l) /\ l # k /\ l < Origin(k, m)
        BY <2>6, <2>9, <2>11, <3>2
      <4> QED
        BY <1>3, <2>5, <2>10, <4>1, MovedInOrder
    <3> QED
      BY <3>1, <3>2
  <2> QED
    BY <2>11, <2>12
<1>8. InTurn'
  BY ONLY <1>1, <1>7 DEF InTurn
<1>9. NoStrayWatcher'
  <2> SUFFICES ASSUME NEW x \in watchers', calls[x].request \notin restarted \cup disordered'
               PROVE  \E i \in DOMAIN m_watcherQueue'[calls[x].request] :
                        m_watcherQueue'[calls[x].request][i] = x
    BY <1>1 DEF NoStrayWatcher
  <2>1. CASE calls[x].request = r
    BY <2>1 DEF Reacts
  <2>2. CASE calls[x].request # r
    <3>1. x \in watchers /\ x \in DOMAIN calls
      BY <1>2 DEF Reacts, Signals
    <3>2. calls[x].request \in CipherRequests
      BY <1>2, <3>1, CallFields
    <3>3. m_watcherQueue'[calls[x].request] = m_watcherQueue[calls[x].request]
      BY <2>2, <3>2 DEF QueueShifts
    <3> QED
      BY <1>2, <3>1, <3>3 DEF NoStrayWatcher
  <2> QED
    BY <2>1, <2>2
<1> QED
  BY <1>6, <1>8, <1>9

\* The token r is left with is none, the one it had, or that of a session of its own.
TokenStays(r) ==
    /\ \A q \in CipherRequests : q # r => m_cipherSessionToken'[q] = m_cipherSessionToken[q]
    /\ Calm(process[r])' =>
        \/ m_cipherSessionToken'[r] = 0
        \/ /\ m_cipherSessionToken'[r] = m_cipherSessionToken[r]
           /\ Finalizing(r) => Finalizing(r)'
        \/ /\ m_cipherSessions[process[r]][m_cipherSessionToken'[r]] # 0
           /\ calls[m_cipherSessions[process[r]][m_cipherSessionToken'[r]]].request = r
           /\ NotEnding(process[r], m_cipherSessionToken'[r])

\* Tokens stay in force when an event is delivered.
LEMMA TokensReact ==
    ASSUME SessionsInv, NEW r \in CipherRequests, NEW s \in {0, 1}, QueueShifts(r, s),
           TokenStays(r), UNCHANGED <<process, calls, daemon, astray>>,
           misfired \subseteq misfired'
    PROVE  TokenHeld' /\ TokenGiven'
<1>1. process' = process /\ calls' = calls /\ m_cipherSessions' = m_cipherSessions
  BY DEF daemon
<1>2. /\ \A p : Calm(p)' => Calm(p)
      /\ \A p, t : NotEnding(p, t)' = NotEnding(p, t)
  BY DaemonRests
<1>3. TokenHeld'
  <2> SUFFICES ASSUME NEW q \in CipherRequests, m_cipherSessionToken'[q] # 0, Calm(process[q])',
                      ~Finalizing(q)'
               PROVE  /\ m_cipherSessions[process[q]][m_cipherSessionToken'[q]] # 0
                      /\ calls[m_cipherSessions[process[q]][m_cipherSessionToken'[q]]].request = q
                      /\ NotEnding(process[q], m_cipherSessionToken'[q])
    BY <1>1, <1>2 DEF TokenHeld
  <2>1. Calm(process[q])
    BY <1>1, <1>2
  <2>2. ASSUME m_cipherSessionToken'[q] = m_cipherSessionToken[q], ~Finalizing(q)
        PROVE  /\ m_cipherSessions[process[q]][m_cipherSessionToken'[q]] # 0
               /\ calls[m_cipherSessions[process[q]][m_cipherSessionToken'[q]]].request = q
               /\ NotEnding(process[q], m_cipherSessionToken'[q])
    BY <2>1, <2>2 DEF SessionsInv, TokenHeld
  <2>3. CASE q # r
    <3>1. m_watcherQueue'[q] = m_watcherQueue[q]
      BY <2>3 DEF QueueShifts
    <3>2. ~Finalizing(q)
      BY <1>1, <3>1 DEF Finalizing
    <3> QED
      BY <2>2, <2>3, <3>2 DEF TokenStays
  <2>4. CASE q = r
    BY <2>2, <2>4 DEF TokenStays
  <2> QED
    BY <2>3, <2>4
<1>4. TokenGiven'
  <2> SUFFICES ASSUME NEW q \in CipherRequests, Calm(process[q])',
                      NEW i \in DOMAIN m_watcherQueue'[q],
                      calls[m_watcherQueue'[q][i]].mode = "InitializeCipher",
                      TokenOf(m_watcherQueue[q][i])' # 0
               PROVE  /\ m_cipherSessions[process[q]][TokenOf(m_watcherQueue[q][i])']
                            = m_watcherQueue'[q][i]
                      /\ NotEnding(process[q], TokenOf(m_watcherQueue[q][i]))'
    BY <1>1 DEF TokenGiven
  <2>1. PICK j \in DOMAIN m_watcherQueue[q] : m_watcherQueue'[q][i] = m_watcherQueue[q][j]
    BY WaitedBefore DEF SessionsInv
  <2>2. PICK x : x = m_watcherQueue[q][j]
    OBVIOUS
  <2>3. PICK t : t = TokenOf(x)
    OBVIOUS
  <2>4. TokenOf(m_watcherQueue[q][i])' = t /\ m_watcherQueue'[q][i] = x
    BY <1>1, <2>1, <2>2, <2>3 DEF TokenOf
  <2>5. PICK o : o = process[q]
    OBVIOUS
  <2>6. Calm(o) /\ Calm(o)'
    BY <1>1, <1>2, <2>5
  <2>7. TokenGiven /\ TokenOf(m_watcherQueue[q][j]) = t
        /\ calls[m_watcherQueue[q][j]].mode = "InitializeCipher"
    BY <2>1, <2>2, <2>3 DEF SessionsInv
  <2>8. t = 0 \/ (m_cipherSessions[o][t] = m_watcherQueue[q][j] /\ NotEnding(o, t))
    BY <2>5, <2>6, <2>7 DEF TokenGiven
  <2>9. NotEnding(o, t)' = NotEnding(o, t)
    BY <1>2
  <2> QED
    BY <1>1, <2>2, <2>4, <2>5, <2>8, <2>9
<1> QED
  BY <1>3, <1>4

\* The arguments of a reply.
LEMMA ArgumentsOfReply ==
    ASSUME SessionsInv, NEW d \in DOMAIN calls
    PROVE  /\ ResultOf(d) \in {"Succeeded", "Failed"} /\ TokenOf(d) \in {0} \cup Tokens
           /\ calls[d].mode = "FinalizeCipher" /\ ResultOf(d) = "Failed" => ~Calm(ProcessOf(d))
<1>1. calls[d].given \in {0} \cup Tokens
  BY CallFields DEF SessionsInv
<1>2. calls[d].reply = "answer" => calls[d].answer \in {"Succeeded", "Failed"}
  BY DEF SessionsInv, Pipeline, Accounted
<1> QED
  BY <1>1, <1>2 DEF ResultOf, TokenOf, SessionsInv, FailedIsAstray


\* What an event leaves alone, whatever it is.
EventKept == <<process, m_cipherMode, m_cryptoPluginName, calls, daemon, faults, astray, opened,
               restarted>>

\* The invariant after an event.
LEMMA EventKeeps ==
    ASSUME SessionsInv, NEW p \in Processes, NEW k, NEW c, NEW r, Delivering(p, k, c, r),
           NEW D, Delivered(p, k, D), D \subseteq DOMAIN calls, \A d \in D : calls[d].request = r,
           NEW s \in {0, 1}, QueueShifts(r, s), Reacts(r, c, D), TokenStays(r),
           s = 0 => m_cipherSessionToken' = m_cipherSessionToken,
           UNCHANGED EventKept, crashed' = crashed, TypedClient',
           misfired \subseteq misfired', disordered \subseteq disordered',
           misfired' \subseteq restarted \cup disordered'
    PROVE  SessionsInv'
<1>1. /\ UNCHANGED <<process, calls, m_cipherMode, m_cryptoPluginName, crashed>>
      /\ UNCHANGED <<process, calls, restarted, crashed>> /\ UNCHANGED <<process, calls>>
      /\ UNCHANGED <<process, calls, daemon, astray>> /\ restarted' = restarted
  BY DEF EventKept
<1>2. r \in CipherRequests /\ watchers' \subseteq watchers
  BY DEF Delivering, Reacts
<1>3. Waiting' /\ Alike' /\ Completed'
  BY <1>1, WaitingReacts
<1>4. Signals'
  BY <1>1, <1>2, SignalsReact
<1>5. Served' /\ InTurn' /\ NoStrayWatcher'
  BY <1>1, ServedReacts
<1>6. TypedDaemon' /\ Pipeline' /\ Sessions' /\ FailedIsAstray' /\ TokensInForce'
  BY <1>1, DaemonRests
<1>7. TokenHeld' /\ TokenGiven'
  BY <1>1, <1>2, TokensReact
<1>8. OwnReply'
  BY <1>1 DEF OwnReply
<1> QED
  BY <1>3, <1>4, <1>5, <1>6, <1>7, <1>8 DEF SessionsInv

\* The call an event is for.
LEMMA CallOfEvent ==
    ASSUME SessionsInv, NEW p \in Processes, p \notin crashed, NEW k \in DOMAIN events[p],
           NEW c, c = events[p][k].call, NEW r, r = calls[c].request
    PROVE  /\ Delivering(p, k, c, r) /\ ProcessOf(c) = p
           /\ events[p][k].kind \in {"finished", "deleteLater"}
           /\ events[p][k] = Event(events[p][k].kind, c)
           /\ events[p][k].kind = "finished" => calls[c].reply # "none"
<1>1. events[p] \in Seq(Events)
  BY DEF SessionsInv, TypedClient
<1>2. k \in Nat /\ events[p][k] \in Events
  BY <1>1
<1>3. /\ c \in DOMAIN calls /\ ProcessOf(c) = p
      /\ events[p][k].kind = "finished" => calls[c].reply # "none"
  BY DEF SessionsInv, Signals
<1>4. r \in CipherRequests
  BY <1>3, CallFields DEF SessionsInv
<1>5. events[p][k].kind \in {"finished", "deleteLater"} /\ events[p][k] = Event(events[p][k].kind, c)
  <2>1. PICK e \in Events : e = events[p][k]
    BY <1>2
  <2>2. e.kind \in {"finished", "deleteLater"} /\ e.call = c
    BY <2>1 DEF Events
  <2>3. e = [kind |-> e.kind, call |-> c]
    BY <2>2 DEF Events
  <2> QED
    BY <2>1, <2>2, <2>3 DEF Event
<1> QED
  BY <1>2, <1>3, <1>4, <1>5 DEF Delivering, ProcessOf

\* The queue of r stays as it is.
LEMMA QueueStays ==
    ASSUME TypedClient, NEW r \in CipherRequests, m_watcherQueue' = m_watcherQueue
    PROVE  QueueShifts(r, 0)
<1>1. m_watcherQueue[r] \in Seq(Nat)
  BY DEF TypedClient
<1>2. Len(m_watcherQueue[r]) = Len(m_watcherQueue[r]) - 0
      /\ \A i \in DOMAIN m_watcherQueue[r] : i + 0 = i
  BY <1>1
<1> QED
  BY <1>2 DEF QueueShifts, TypedClient

\* A sequence is empty, or it has elements.
LEMMA EmptyOrNot ==
    ASSUME NEW s \in Seq(Nat)
    PROVE  /\ s = <<>> <=> Len(s) = 0
           /\ s # <<>> => 1 \in DOMAIN s /\ Head(s) = s[1] /\ Len(s) \in Nat
OBVIOUS

\* The queue of r without its head, which is not in it twice.
HeadGone(r, queue, left) ==
    /\ QueueShifts(r, 1) /\ m_watcherQueue'[r] = left /\ left \in Seq(Nat)
    /\ Head(queue) = queue[1] /\ 1 \in DOMAIN queue
    /\ queue[1] \in DOMAIN calls /\ calls[queue[1]].request = r /\ queue[1] \in Nat
    /\ (left = <<>> <=> Len(queue) = 1)
    /\ \A i \in DOMAIN left : \E j \in DOMAIN queue :
         j # 1 /\ left[i] = queue[j] /\ left[i] # queue[1]
    /\ \A j \in DOMAIN queue : queue[j] # queue[1] => \E i \in DOMAIN left : left[i] = queue[j]

\* It is left when the head is taken.
LEMMA HeadLeaves ==
    ASSUME TypedClient, Waiting, NEW r \in CipherRequests,
           NEW queue, queue = m_watcherQueue[r], queue # <<>>, NEW left, left = Tail(queue),
           m_watcherQueue' = [m_watcherQueue EXCEPT ![r] = left]
    PROVE  HeadGone(r, queue, left)
<1>1. queue \in Seq(Nat) /\ queue # <<>>
  BY DEF TypedClient
<1>2. /\ left \in Seq(Nat) /\ Head(queue) = queue[1] /\ 1 \in DOMAIN queue /\ queue[1] \in Nat
      /\ Len(queue) \in Nat /\ Len(left) = Len(queue) - 1
      /\ \A k \in DOMAIN queue : k # 1 => k - 1 \in DOMAIN left /\ left[k - 1] = queue[k]
      /\ \A k \in DOMAIN left : k + 1 \in DOMAIN queue /\ left[k] = queue[k + 1]
  BY ONLY <1>1, TailShifts, left = Tail(queue)
<1>3. queue[1] \in DOMAIN calls /\ calls[queue[1]].request = r
  BY <1>2 DEF Waiting
<1>4. /\ m_watcherQueue' \in [CipherRequests -> Seq(Nat)] /\ m_watcherQueue'[r] = left
      /\ \A q \in CipherRequests : q # r => m_watcherQueue'[q] = m_watcherQueue[q]
  BY <1>2 DEF TypedClient
<1>5. QueueShifts(r, 1)
  BY <1>2, <1>4 DEF QueueShifts
<1>6. left = <<>> <=> Len(queue) = 1
  <2>1. left \in Seq(Nat) /\ Len(left) = Len(queue) - 1 /\ Len(queue) \in Nat
    BY <1>2
  <2>2. left = <<>> <=> Len(left) = 0
    BY ONLY <2>1, EmptyOrNot
  <2> QED
    BY ONLY <2>1, <2>2
<1>7. ASSUME NEW i \in DOMAIN left
      PROVE  \E j \in DOMAIN queue : j # 1 /\ left[i] = queue[j] /\ left[i] # queue[1]
  <2>1. i \in Nat /\ i # 0
    BY <1>2
  <2>2. i + 1 \in DOMAIN queue /\ left[i] = queue[i + 1] /\ i + 1 # 1 /\ 1 < i + 1
    BY <1>2, <2>1
  <2>3. queue[1] < queue[i + 1]
    BY <1>2, <2>2 DEF Waiting
  <2>4. queue[i + 1] \in Nat
    BY ONLY <1>1, <2>2
  <2>5. queue[i + 1] # queue[1]
    BY ONLY <1>2, <2>3, <2>4
  <2> QED
    BY ONLY <2>2, <2>5
<1>8. \A j \in DOMAIN queue : queue[j] # queue[1] => \E i \in DOMAIN left : left[i] = queue[j]
  BY ONLY <1>2
<1> QED
  BY <1>2, <1>3, <1>4, <1>5, <1>6, <1>7, <1>8 DEF HeadGone

\* A watcher is deleted, or a signal of one that is gone is dropped.
LEMMA WatcherDeletedKeeps ==
    ASSUME SessionsInv, NEW p \in Processes, NEW c, NEW r, Delivering(p, 1, c, r),
           1 \in DOMAIN events[p], ProcessOf(c) = p,
           events[p][1] = Event("deleteLater", c) \/ c \notin watchers,
           WatcherDeleted(c), UNCHANGED EventKept, disordered' = disordered
    PROVE  SessionsInv'
<1>1. /\ watchers' = watchers \ {c} /\ events' = [events EXCEPT ![p] = Consumed(p, 1)]
      /\ m_status' = m_status /\ m_result' = m_result
      /\ m_cipherSessionToken' = m_cipherSessionToken /\ m_watcherQueue' = m_watcherQueue
      /\ m_completedHash' = m_completedHash /\ taking' = taking /\ misfired' = misfired
      /\ crashed' = crashed /\ process' = process /\ m_cipherMode' = m_cipherMode
      /\ m_cryptoPluginName' = m_cryptoPluginName /\ astray' = astray /\ calls' = calls
  BY DEF WatcherDeleted, EventKept
<1>2. TypedClient /\ Waiting /\ Signals /\ Completed /\ Served /\ NoStrayWatcher /\ OwnReply
  BY DEF SessionsInv
<1>3. /\ r \in CipherRequests /\ process[r] = p /\ p \notin crashed
      /\ c \in DOMAIN calls /\ calls[c].request = r
  BY DEF Delivering
<1>4. Delivered(p, 1, {})
  BY <1>1, <1>2, EventTaken
<1>5. QueueShifts(r, 0)
  BY <1>1, <1>2, <1>3, QueueStays
<1>6. Regular(r)' => Regular(r)
  BY <1>1 DEF Regular
<1>7. Regular(r) => \A i \in DOMAIN m_watcherQueue[r] :
        m_watcherQueue[r][i] # c /\ m_watcherQueue[r][i] \in watchers
  BY <1>2, <1>3 DEF Served
<1>8. CompletedAfter(r)
  BY <1>1, <1>2, <1>3, <1>6 DEF CompletedAfter, Completed
<1>9. Reacts(r, c, {})
  <2>1. \A x \in watchers : calls[x].request = r =>
            \/ r \in restarted \cup disordered
            \/ \E i \in DOMAIN m_watcherQueue[r] : m_watcherQueue[r][i] = x
    BY <1>2 DEF NoStrayWatcher
  <2>2. \A x \in watchers : calls[x].request # r => x \in watchers'
    BY <1>1, <1>3
  <2> QED
    BY <1>1, <1>6, <1>7, <1>8, <2>1, <2>2 DEF Reacts
<1>10. TokenStays(r)
  BY <1>1 DEF TokenStays, Finalizing
<1>11. TypedClient'
  BY <1>1, <1>2, <1>4 DEF TypedClient, Delivered
<1>12. misfired \subseteq misfired' /\ misfired' \subseteq restarted \cup disordered'
  BY <1>1, <1>2 DEF OwnReply
<1> QED
  BY <1>1, <1>4, <1>5, <1>9, <1>10, <1>11, <1>12, EventKeeps

\* UpdateFinished: the lambda of UpdateCipher.
LEMMA UpdateFinishedKeeps ==
    ASSUME SessionsInv, NEW p \in Processes, NEW k, NEW c, NEW r, Delivering(p, k, c, r),
           k \in DOMAIN events[p], ProcessOf(c) = p, calls[c].reply # "none",
           UpdateFinished(r, c, k), UNCHANGED EventKept, disordered \subseteq disordered'
    PROVE  SessionsInv'
<1>1. PICK completed : completed = m_completedHash[r] \cup {c}
  OBVIOUS
<1>2. /\ calls[c].mode = "UpdateCipher"
      /\ m_completedHash' = [m_completedHash EXCEPT ![r] = completed]
      /\ taking' = IF m_watcherQueue[r] # <<>> /\ Head(m_watcherQueue[r]) \in m_completedHash'[r]
                   THEN taking \cup {r} ELSE taking
      /\ events' = [events EXCEPT ![p] = Consumed(p, k)]
      /\ m_status' = m_status /\ m_result' = m_result
      /\ m_cipherSessionToken' = m_cipherSessionToken /\ m_watcherQueue' = m_watcherQueue
      /\ watchers' = watchers /\ misfired' = misfired /\ crashed' = crashed
  BY <1>1 DEF UpdateFinished
<1>3. /\ process' = process /\ m_cipherMode' = m_cipherMode /\ calls' = calls
      /\ m_cryptoPluginName' = m_cryptoPluginName /\ astray' = astray
  BY DEF EventKept
<1>4. TypedClient /\ Waiting /\ Completed /\ Served /\ NoStrayWatcher /\ OwnReply
  BY DEF SessionsInv
<1>5. /\ r \in CipherRequests /\ process[r] = p /\ p \notin crashed
      /\ c \in DOMAIN calls /\ calls[c].request = r
  BY DEF Delivering
<1>6. Delivered(p, k, {})
  BY <1>2, <1>4, EventTaken
<1>7. QueueShifts(r, 0)
  BY <1>2, <1>4, <1>5, QueueStays
<1>8. Regular(r)' => Regular(r)
  BY <1>2 DEF Regular
<1>9. /\ DOMAIN m_completedHash' = CipherRequests /\ m_completedHash'[r] = completed
      /\ \A q \in CipherRequests : q # r => m_completedHash'[q] = m_completedHash[q]
  BY <1>2, <1>4, <1>5 DEF TypedClient
<1>10. m_watcherQueue[r] # <<>> => Head(m_watcherQueue[r]) = m_watcherQueue[r][1]
  BY <1>4, <1>5 DEF TypedClient
<1>11. CompletedAfter(r)
  <2>1. \A x \in completed : /\ x \in DOMAIN calls /\ calls[x].mode = "UpdateCipher"
                             /\ calls[x].reply # "none"
    BY <1>1, <1>2, <1>4, <1>5 DEF Completed
  <2>2. r \in taking => m_watcherQueue[r] # <<>> /\ m_watcherQueue[r][1] \in completed
    BY <1>1, <1>4, <1>5 DEF Completed
  <2>3. r \in taking' => m_watcherQueue[r] # <<>> /\ m_watcherQueue[r][1] \in completed
    BY <1>2, <1>9, <1>10, <2>2
  <2>4. m_watcherQueue[r] # <<>> /\ m_watcherQueue[r][1] \in completed => r \in taking'
    BY <1>2, <1>9, <1>10
  <2> QED
    BY <1>2, <1>9, <2>1, <2>3, <2>4 DEF CompletedAfter
<1>12. Reacts(r, c, {})
  <2>1. \A x \in watchers : calls[x].request = r =>
            \/ r \in restarted \cup disordered
            \/ \E i \in DOMAIN m_watcherQueue[r] : m_watcherQueue[r][i] = x
    BY <1>4 DEF NoStrayWatcher
  <2>2. Regular(r) => \A i \in DOMAIN m_watcherQueue[r] : m_watcherQueue[r][i] \in watchers
    BY <1>4, <1>5 DEF Served
  <2>3. \A q \in CipherRequests : q # r => (q \in taking' <=> q \in taking)
    BY <1>2
  <2> QED
    BY <1>1, <1>2, <1>8, <1>9, <1>11, <2>1, <2>2, <2>3 DEF Reacts
<1>13. TokenStays(r)
  BY <1>2, <1>3 DEF TokenStays, Finalizing
<1>14. TypedClient'
  <2>1. taking' \subseteq CipherRequests
    BY <1>2, <1>4, <1>5 DEF TypedClient
  <2> QED
    BY <1>2, <1>3, <1>4, <1>6, <1>9, <2>1 DEF TypedClient, Delivered
<1>15. misfired \subseteq misfired' /\ misfired' \subseteq restarted \cup disordered'
  BY <1>2, <1>4 DEF OwnReply
<1> QED
  BY <1>2, <1>6, <1>7, <1>12, <1>13, <1>14, <1>15, EventKeeps

\* TakeCompleted: one turn of its loop.
LEMMA TakeCompletedKeeps ==
    ASSUME SessionsInv, NEW r \in CipherRequests, TakeCompleted(r)
    PROVE  SessionsInv'
<1>1. PICK queue : queue = m_watcherQueue[r]
  OBVIOUS
<1>2. PICK left : left = Tail(queue)
  OBVIOUS
<1>3. PICK c : c = Head(queue)
  OBVIOUS
<1>4. PICK p : p = process[r]
  OBVIOUS
<1>5. /\ r \in taking
      /\ m_completedHash' = [m_completedHash EXCEPT ![r] = @ \ {c}]
      /\ m_watcherQueue' = [m_watcherQueue EXCEPT ![r] = left]
      /\ watchers' = watchers \ {c}
      /\ m_status' = IF left = <<>> THEN [m_status EXCEPT ![r] = "Finished"] ELSE m_status
      /\ m_result' = [m_result EXCEPT ![r] = ResultOf(c)]
      /\ taking' = IF left # <<>> /\ Head(left) \in m_completedHash[r]
                   THEN taking ELSE taking \ {r}
      /\ events' = events /\ crashed' = crashed /\ misfired' = misfired
      /\ disordered' = disordered /\ m_cipherSessionToken' = m_cipherSessionToken
      /\ UNCHANGED EventKept
  BY <1>1, <1>2, <1>3 DEF TakeCompleted, EventKept, application
<1>6. /\ process' = process /\ m_cipherMode' = m_cipherMode /\ calls' = calls
      /\ m_cryptoPluginName' = m_cryptoPluginName /\ astray' = astray
  BY <1>5 DEF EventKept
<1>7. TypedClient /\ Waiting /\ Completed /\ Served /\ NoStrayWatcher /\ OwnReply
  BY DEF SessionsInv
<1>8. queue # <<>> /\ queue[1] \in m_completedHash[r] /\ p \notin crashed /\ p \in Processes
  BY <1>1, <1>4, <1>5, <1>7 DEF Completed, TypedClient
<1>9. /\ QueueShifts(r, 1) /\ m_watcherQueue'[r] = left /\ left \in Seq(Nat)
      /\ Head(queue) = queue[1] /\ 1 \in DOMAIN queue
      /\ queue[1] \in DOMAIN calls /\ calls[queue[1]].request = r
      /\ \A i \in DOMAIN left : \E j \in DOMAIN queue :
           j # 1 /\ left[i] = queue[j] /\ left[i] # queue[1]
      /\ \A j \in DOMAIN queue : queue[j] # queue[1] => \E i \in DOMAIN left : left[i] = queue[j]
  <2>1. HeadGone(r, queue, left)
    BY <1>1, <1>2, <1>5, <1>7, <1>8, HeadLeaves
  <2> QED
    BY ONLY <2>1 DEF HeadGone
<1>10. c = queue[1] /\ c \in DOMAIN calls /\ calls[c].request = r /\ calls[c].mode = "UpdateCipher"
  BY <1>3, <1>7, <1>8, <1>9 DEF Completed
<1>11. left # <<>> => Head(left) = left[1] /\ 1 \in DOMAIN left
  BY <1>9
<1> HIDE <1>1, <1>2, <1>3
<1>12. PICK k : k = Len(events[p]) + 1
  OBVIOUS
<1>13. k \in Nat /\ k \notin DOMAIN events[p] /\ Delivered(p, k, {})
  BY <1>5, <1>7, <1>8, <1>12, NoneTaken
<1>14. Delivering(p, k, c, r)
  BY <1>4, <1>8, <1>10, <1>13 DEF Delivering
<1>15. Regular(r)' => Regular(r)
  BY <1>5 DEF Regular
<1>16. /\ DOMAIN m_completedHash' = CipherRequests /\ m_completedHash'[r] = m_completedHash[r] \ {c}
       /\ \A q \in CipherRequests : q # r => m_completedHash'[q] = m_completedHash[q]
  BY <1>5, <1>7 DEF TypedClient
<1>17. \A i \in DOMAIN left : left[i] # c
  BY <1>9, <1>10
<1>18. CompletedAfter(r)
  <2>1. \A x \in m_completedHash'[r] : /\ x \in DOMAIN calls /\ calls[x].mode = "UpdateCipher"
                                       /\ calls[x].reply # "none"
    BY <1>7, <1>16 DEF Completed
  <2>2. r \in taking' => left # <<>> /\ left[1] \in m_completedHash'[r]
    BY <1>5, <1>11, <1>16, <1>17
  <2>3. left # <<>> /\ left[1] \in m_completedHash'[r] => r \in taking'
    BY <1>5, <1>11, <1>16
  <2> QED
    BY <1>9, <2>1, <2>2, <2>3 DEF CompletedAfter
<1>19. /\ m_status' \in [CipherRequests -> {"Inactive", "Active", "Finished"}]
       /\ \A q \in CipherRequests : q # r => m_status'[q] = m_status[q]
       /\ left # <<>> => m_status' = m_status
  BY <1>5, <1>7 DEF TypedClient
<1>20. Reacts(r, c, {})
  <2>1. ASSUME NEW x \in watchers', calls[x].request = r, r \notin restarted \cup disordered
        PROVE  \E i \in DOMAIN left : left[i] = x
    <3>1. x \in watchers /\ x # c
      BY <1>5, <2>1
    <3>2. PICK j \in DOMAIN queue : queue[j] = x
      BY <1>1, <1>7, <2>1, <3>1 DEF NoStrayWatcher
    <3> QED
      BY <1>9, <1>10, <3>1, <3>2
  <2>2. ASSUME Regular(r)', NEW i \in DOMAIN left PROVE left[i] \in watchers'
    <3>1. PICK j \in DOMAIN queue : left[i] = queue[j] /\ left[i] # c
      BY <1>9, <1>10, <2>2
    <3>2. queue[j] \in watchers
      BY <1>1, <1>4, <1>7, <1>8, <1>15, <2>2 DEF Served
    <3> QED
      BY <1>5, <3>1, <3>2
  <2>3. \A x \in watchers : calls[x].request # r => x \in watchers'
    BY <1>5, <1>10
  <2>4. \A q \in CipherRequests : q # r => (q \in taking' <=> q \in taking)
    BY <1>5
  <2>5. \A i \in DOMAIN left : left # <<>>
    OBVIOUS
  <2> QED
    BY <1>5, <1>9, <1>16, <1>17, <1>18, <1>19, <2>1, <2>2, <2>3, <2>4, <2>5 DEF Reacts
<1>21. TokenStays(r)
  <2>1. Finalizing(r) => Finalizing(r)'
    <3> SUFFICES ASSUME NEW j \in DOMAIN queue, calls[queue[j]].mode = "FinalizeCipher"
                 PROVE  \E i \in DOMAIN left : calls[left[i]].mode = "FinalizeCipher"
      BY <1>1, <1>6, <1>9 DEF Finalizing
    <3>1. queue[j] # queue[1]
      BY <1>10
    <3> QED
      BY <1>9, <3>1
  <2> QED
    BY <1>5, <2>1 DEF TokenStays
<1>22. TypedClient'
  <2>1. ResultOf(c) \in {"Succeeded", "Failed"}
    BY <1>10, ArgumentsOfReply
  <2>2. m_result' \in [CipherRequests -> {"Pending", "Succeeded", "Failed"}]
    BY <1>5, <1>7, <2>1 DEF TypedClient
  <2>3. taking' \subseteq CipherRequests
    BY <1>5, <1>7 DEF TypedClient
  <2>4. m_watcherQueue' \in [CipherRequests -> Seq(Nat)]
    BY <1>9 DEF QueueShifts
  <2> QED
    BY <1>5, <1>6, <1>7, <1>16, <1>19, <2>2, <2>3, <2>4 DEF TypedClient
<1>23. misfired \subseteq misfired' /\ misfired' \subseteq restarted \cup disordered'
  BY <1>5, <1>7 DEF OwnReply
<1> QED
  BY <1>5, <1>8, <1>9, <1>13, <1>14, <1>20, <1>21, <1>22, <1>23, EventKeeps

\* The other lambdas: the head of the queue is taken off, and in a regular request
\* it is the call of the watcher.
LEMMA DequeuedKeeps ==
    ASSUME SessionsInv, NEW p \in Processes, NEW k, NEW c, NEW r, Delivering(p, k, c, r),
           k \in DOMAIN events[p], ProcessOf(c) = p, r \notin taking,
           calls[c].mode # "UpdateCipher",
           Dequeued(r, c, k), UNCHANGED EventKept, disordered \subseteq disordered',
           m_result' \in [CipherRequests -> {"Pending", "Succeeded", "Failed"}],
           m_cipherSessionToken' \in [CipherRequests -> {0} \cup Tokens],
           \A q \in CipherRequests : q # r => m_cipherSessionToken'[q] = m_cipherSessionToken[q],
           c = Head(m_watcherQueue[r]) => TokenStays(r),
           c # Head(m_watcherQueue[r]) => r \in restarted \cup disordered'
    PROVE  SessionsInv'
<1>1. PICK queue : queue = m_watcherQueue[r]
  OBVIOUS
<1>2. PICK d : d = Head(queue)
  OBVIOUS
<1>3. PICK left : left = Tail(queue)
  OBVIOUS
<1>4. /\ queue # <<>>
      /\ m_watcherQueue' = [m_watcherQueue EXCEPT ![r] = left]
      /\ m_status' = IF Len(queue) = 1 THEN [m_status EXCEPT ![r] = "Finished"] ELSE m_status
      /\ m_completedHash' = m_completedHash /\ taking' = taking /\ crashed' = crashed
      /\ c = d => /\ watchers' = watchers \ {c}
                  /\ events' = [events EXCEPT ![p] = Consumed(p, k)]
                  /\ misfired' = misfired
      /\ c # d => /\ events' = [events EXCEPT ![p] =
                                    Append(Consumed(p, k), Event("deleteLater", d))]
                  /\ misfired' = misfired \cup {r} /\ watchers' = watchers
  BY <1>1, <1>2, <1>3 DEF Dequeued
<1>5. (c = d => TokenStays(r)) /\ (c # d => r \in restarted \cup disordered')
  BY <1>1, <1>2
<1>6. /\ process' = process /\ m_cipherMode' = m_cipherMode /\ astray' = astray
      /\ m_cryptoPluginName' = m_cryptoPluginName /\ calls' = calls
  BY DEF EventKept
<1>7. TypedClient /\ Waiting /\ Alike /\ Completed /\ Served /\ NoStrayWatcher /\ OwnReply
  BY DEF SessionsInv
<1>8. /\ r \in CipherRequests /\ process[r] = p /\ p \notin crashed
      /\ c \in DOMAIN calls /\ calls[c].request = r
  BY DEF Delivering
<1>9. HeadGone(r, queue, left)
  BY <1>1, <1>3, <1>4, <1>7, <1>8, HeadLeaves
<1>10. /\ QueueShifts(r, 1) /\ m_watcherQueue'[r] = left /\ left \in Seq(Nat)
       /\ d = queue[1] /\ 1 \in DOMAIN queue
       /\ d \in DOMAIN calls /\ calls[d].request = r /\ d \in Nat
       /\ (left = <<>> <=> Len(queue) = 1)
       /\ \A i \in DOMAIN left : \E j \in DOMAIN queue :
            j # 1 /\ left[i] = queue[j] /\ left[i] # d
       /\ \A j \in DOMAIN queue : queue[j] # d => \E i \in DOMAIN left : left[i] = queue[j]
  BY ONLY <1>2, <1>9 DEF HeadGone
<1>11. m_watcherQueue' \in [CipherRequests -> Seq(Nat)]
  BY <1>10 DEF QueueShifts
<1>12. /\ m_status' \in [CipherRequests -> {"Inactive", "Active", "Finished"}]
       /\ \A q \in CipherRequests : q # r => m_status'[q] = m_status[q]
       /\ left # <<>> => m_status' = m_status
  BY <1>4, <1>7, <1>8, <1>10 DEF TypedClient
<1> HIDE <1>1, <1>2, <1>3
<1>13. \A x \in m_completedHash'[r] : /\ x \in DOMAIN calls /\ calls[x].mode = "UpdateCipher"
                                      /\ calls[x].reply # "none"
  BY <1>4, <1>7, <1>8 DEF Completed
<1>14. CASE c = d
  <2>1. Delivered(p, k, {})
    BY <1>4, <1>7, <1>14, EventTaken
  <2>2. watchers' = watchers \ {c} /\ misfired' = misfired
    BY <1>4, <1>14
  <2>3. Regular(r)' => Regular(r)
    BY <2>2 DEF Regular
  <2>4. Regular(r) => \A i \in DOMAIN left : left[i] \notin m_completedHash[r]
    <3> SUFFICES ASSUME Regular(r), NEW i \in DOMAIN left, left[i] \in m_completedHash[r]
                 PROVE  FALSE
      OBVIOUS
    <3>1. calls[left[i]].mode = "UpdateCipher"
      BY <1>4, <1>13
    <3>2. PICK j \in DOMAIN queue : left[i] = queue[j]
      BY <1>10
    <3>3. calls[queue[j]].mode = m_cipherMode[r] /\ calls[queue[1]].mode = m_cipherMode[r]
      BY <1>1, <1>7, <1>8, <1>10, ZenonT(30) DEF Alike
    <3> QED
      BY <1>10, <1>14, <3>1, <3>2, <3>3
  <2>5. CompletedAfter(r)
    <3>1. r \notin taking'
      BY <1>4
    <3>2. Regular(r)' /\ left # <<>> => left[1] \notin m_completedHash'[r]
      <4>1. left # <<>> => 1 \in DOMAIN left
        BY <1>10, EmptyOrNot
      <4> QED
        BY <1>4, <2>3, <2>4, <4>1
    <3> QED
      BY <1>10, <1>13, <3>1, <3>2 DEF CompletedAfter
  <2>6. Reacts(r, c, {})
    <3>1. ASSUME NEW x \in watchers', calls[x].request = r, r \notin restarted \cup disordered'
          PROVE  \E i \in DOMAIN left : left[i] = x
      <4>1. x \in watchers /\ x # c
        BY <2>2, <3>1
      <4>2. PICK j \in DOMAIN queue : queue[j] = x
        BY <1>1, <1>7, <3>1, <4>1 DEF NoStrayWatcher
      <4> QED
        BY <1>10, <1>14, <4>1, <4>2
    <3>2. ASSUME Regular(r)', NEW i \in DOMAIN left
          PROVE  left[i] \in watchers' /\ left[i] # c
      <4>1. PICK j \in DOMAIN queue : left[i] = queue[j] /\ left[i] # c
        BY <1>10, <1>14, <3>2
      <4>2. queue[j] \in watchers
        BY <1>1, <1>7, <1>8, <2>3, <3>2 DEF Served
      <4> QED
        BY <2>2, <4>1, <4>2
    <3>3. \A x \in watchers : calls[x].request # r => x \in watchers'
      BY <1>8, <2>2
    <3>4. watchers' \subseteq watchers
      BY <2>2
    <3>5. \A i \in DOMAIN left : left # <<>>
      OBVIOUS
    <3> QED
      BY <1>4, <1>10, <1>12, <2>5, <3>1, <3>2, <3>3, <3>4, <3>5 DEF Reacts
  <2>7. misfired \subseteq misfired' /\ misfired' \subseteq restarted \cup disordered'
    BY <1>7, <2>2 DEF OwnReply
  <2>8. TypedClient'
    BY <1>4, <1>6, <1>7, <1>11, <1>12, <2>1, <2>2 DEF TypedClient, Delivered
  <2>9. crashed' = crashed
    BY <1>4
  <2> QED
    BY <1>5, <1>10, <1>14, <2>1, <2>6, <2>7, <2>8, <2>9, EventKeeps
<1>15. CASE c # d
  <2>1. Delivered(p, k, {d})
    BY <1>4, <1>7, <1>10, <1>15, EventTakenOneMore
  <2>2. watchers' = watchers /\ misfired' = misfired \cup {r} /\ r \in restarted \cup disordered'
    BY <1>4, <1>5, <1>15
  <2>3. ~Regular(r)'
    BY <2>2 DEF Regular
  <2>4. CompletedAfter(r)
    BY <1>4, <1>13, <2>3 DEF CompletedAfter
  <2>5. Reacts(r, c, {d})
    BY <1>4, <1>12, <2>2, <2>3, <2>4 DEF Reacts
  <2>6. misfired \subseteq misfired' /\ misfired' \subseteq restarted \cup disordered'
        /\ misfired' \subseteq CipherRequests
    BY <1>7, <1>8, <2>2 DEF OwnReply, TypedClient
  <2>7. TokenStays(r)
    <3>1. ~Calm(process[r])'
      BY <1>6, <2>2 DEF Calm
    <3> QED
      BY <3>1 DEF TokenStays
  <2>8. TypedClient'
    BY <1>4, <1>6, <1>7, <1>11, <1>12, <2>1, <2>6 DEF TypedClient, Delivered
  <2>9. {d} \subseteq DOMAIN calls /\ \A x \in {d} : calls[x].request = r
    BY <1>10
  <2>10. crashed' = crashed
    BY <1>4
  <2> QED
    BY <1>10, <2>1, <2>5, <2>6, <2>7, <2>8, <2>9, <2>10, EventKeeps
<1> QED
  BY <1>14, <1>15

\* A lambda for a reply to call c of r runs.
Replied(p, k, c, r) ==
    /\ Delivering(p, k, c, r) /\ k \in DOMAIN events[p] /\ ProcessOf(c) = p
    /\ r \notin taking /\ calls[c].reply # "none"
    /\ calls[c].mode # "UpdateCipher" /\ m_watcherQueue[r] # <<>> /\ c # Head(m_watcherQueue[r]) =>
        r \in restarted \cup disordered'
    /\ UNCHANGED EventKept /\ disordered \subseteq disordered'

\* The head of the queue it takes.
LEMMA HeadIsCall ==
    ASSUME SessionsInv, NEW p \in Processes, NEW k, NEW c, NEW r, Replied(p, k, c, r),
           Dequeued(r, c, k), NEW d, d = Head(m_watcherQueue[r])
    PROVE  /\ r \in CipherRequests /\ process[r] = p
           /\ m_watcherQueue[r] # <<>> /\ 1 \in DOMAIN m_watcherQueue[r] /\ d = m_watcherQueue[r][1]
           /\ d \in DOMAIN calls /\ calls[d].request = r
<1>1. r \in CipherRequests /\ process[r] = p
  BY DEF Replied, Delivering
<1>2. m_watcherQueue[r] # <<>> /\ m_watcherQueue[r] \in Seq(Nat)
  BY <1>1 DEF SessionsInv, TypedClient, Dequeued
<1>3. 1 \in DOMAIN m_watcherQueue[r] /\ d = m_watcherQueue[r][1]
  BY <1>2, EmptyOrNot
<1>4. d \in DOMAIN calls /\ calls[d].request = r
  BY <1>1, <1>3 DEF SessionsInv, Waiting
<1> QED
  BY <1>1, <1>2, <1>3, <1>4

\* InitializeFinished: the request is given the token of the session it opened.
LEMMA InitializeFinishedKeeps ==
    ASSUME SessionsInv, NEW p \in Processes, NEW k, NEW c, NEW r, Replied(p, k, c, r),
           InitializeFinished(r, c, k)
    PROVE  SessionsInv'
<1>1. PICK d : d = Head(m_watcherQueue[r])
  OBVIOUS
<1>2. PICK t : t = TokenOf(d)
  OBVIOUS
<1>3. PICK res : res = IF ResultOf(d) = "Succeeded" /\ TokenOf(d) = 0 THEN "Failed"
                       ELSE ResultOf(d)
  OBVIOUS
<1>4. /\ calls[c].mode = "InitializeCipher" /\ Dequeued(r, c, k)
      /\ m_cipherSessionToken' = [m_cipherSessionToken EXCEPT ![r] = t]
      /\ m_result' = [m_result EXCEPT ![r] = res]
  BY <1>1, <1>2, <1>3 DEF InitializeFinished
<1>5. TypedClient
  BY DEF SessionsInv
<1>6. /\ r \in CipherRequests /\ process[r] = p /\ m_watcherQueue[r] # <<>>
      /\ 1 \in DOMAIN m_watcherQueue[r] /\ d = m_watcherQueue[r][1]
      /\ d \in DOMAIN calls /\ calls[d].request = r
  BY <1>1, <1>4, HeadIsCall
<1>7. ResultOf(d) \in {"Succeeded", "Failed"} /\ t \in {0} \cup Tokens
  BY <1>2, <1>6, ArgumentsOfReply
<1>8. m_result' \in [CipherRequests -> {"Pending", "Succeeded", "Failed"}]
  BY <1>3, <1>4, <1>5, <1>7 DEF TypedClient
<1>9. /\ m_cipherSessionToken' \in [CipherRequests -> {0} \cup Tokens]
      /\ m_cipherSessionToken'[r] = t
      /\ \A q \in CipherRequests : q # r => m_cipherSessionToken'[q] = m_cipherSessionToken[q]
  BY <1>4, <1>5, <1>6, <1>7 DEF TypedClient
<1>10. ASSUME c = d PROVE TokenStays(r)
  <2>1. ASSUME Calm(process[r])', t # 0
        PROVE  /\ m_cipherSessions[process[r]][t] # 0
               /\ calls[m_cipherSessions[process[r]][t]].request = r
               /\ NotEnding(process[r], t)
    <3>1. process' = process /\ astray' = astray /\ misfired' = misfired
      BY <1>1, <1>4, <1>10 DEF Replied, EventKept, Dequeued
    <3>2. Calm(process[r])
      BY <2>1, <3>1 DEF Calm
    <3>3. calls[m_watcherQueue[r][1]].mode = "InitializeCipher"
      BY <1>4, <1>6, <1>10
    <3>4. TokenGiven /\ TokenOf(m_watcherQueue[r][1]) = t
      BY <1>2, <1>6 DEF SessionsInv
    <3>5. m_cipherSessions[process[r]][t] = d /\ NotEnding(process[r], t)
      BY <1>6, <2>1, <3>2, <3>3, <3>4 DEF TokenGiven
    <3>6. d # 0
      BY <1>6, CallFields DEF SessionsInv
    <3> QED
      BY <1>6, <3>5, <3>6
  <2> QED
    BY <1>9, <2>1 DEF TokenStays
<1>11. calls[c].mode # "UpdateCipher" /\ (c # d => r \in restarted \cup disordered')
  BY <1>1, <1>4, <1>6 DEF Replied
<1> QED
  BY <1>1, <1>4, <1>8, <1>9, <1>10, <1>11, DequeuedKeeps DEF Replied

\* The lambda of a call that is not a finalization leaves the finalizations waiting.
LEMMA FinalizingStays ==
    ASSUME SessionsInv, NEW p \in Processes, NEW k, NEW c, NEW r, Replied(p, k, c, r),
           Dequeued(r, c, k), c = Head(m_watcherQueue[r]), calls[c].mode # "FinalizeCipher",
           Finalizing(r)
    PROVE  Finalizing(r)'
<1>1. PICK queue : queue = m_watcherQueue[r]
  OBVIOUS
<1>2. PICK left : left = Tail(queue)
  OBVIOUS
<1>3. /\ m_watcherQueue' = [m_watcherQueue EXCEPT ![r] = left] /\ calls' = calls
      /\ queue # <<>> /\ r \in CipherRequests /\ TypedClient /\ Waiting
  BY <1>1, <1>2 DEF Dequeued, Replied, Delivering, EventKept, SessionsInv
<1>4. HeadGone(r, queue, left)
  BY <1>1, <1>2, <1>3, HeadLeaves
<1>5. /\ c = queue[1] /\ m_watcherQueue'[r] = left
      /\ \A j \in DOMAIN queue : queue[j] # queue[1] => \E i \in DOMAIN left : left[i] = queue[j]
  BY <1>1, <1>4 DEF HeadGone
<1>6. PICK j \in DOMAIN queue : calls[queue[j]].mode = "FinalizeCipher"
  BY <1>1 DEF Finalizing
<1>7. PICK i \in DOMAIN left : left[i] = queue[j]
  BY <1>5, <1>6
<1> QED
  BY <1>3, <1>5, <1>6, <1>7 DEF Finalizing

\* UpdateAuthenticationFinished: the token stays.
LEMMA UpdateAuthenticationFinishedKeeps ==
    ASSUME SessionsInv, NEW p \in Processes, NEW k, NEW c, NEW r, Replied(p, k, c, r),
           UpdateAuthenticationFinished(r, c, k)
    PROVE  SessionsInv'
<1>1. PICK d : d = Head(m_watcherQueue[r])
  OBVIOUS
<1>2. PICK res : res = ResultOf(d)
  OBVIOUS
<1>3. /\ calls[c].mode = "UpdateCipherAuthentication" /\ Dequeued(r, c, k)
      /\ m_cipherSessionToken' = m_cipherSessionToken
      /\ m_result' = [m_result EXCEPT ![r] = res]
  BY <1>1, <1>2 DEF UpdateAuthenticationFinished
<1>4. TypedClient
  BY DEF SessionsInv
<1>5. /\ r \in CipherRequests /\ m_watcherQueue[r] # <<>> /\ d \in DOMAIN calls
  BY <1>1, <1>3, HeadIsCall
<1>6. res \in {"Succeeded", "Failed"}
  BY <1>2, <1>5, ArgumentsOfReply
<1>7. m_result' \in [CipherRequests -> {"Pending", "Succeeded", "Failed"}]
  BY <1>3, <1>4, <1>6 DEF TypedClient
<1>8. m_cipherSessionToken' \in [CipherRequests -> {0} \cup Tokens]
  BY <1>3, <1>4 DEF TypedClient
<1>9. ASSUME c = d PROVE TokenStays(r)
  <2>1. Finalizing(r) => Finalizing(r)'
    BY <1>1, <1>3, <1>9, FinalizingStays
  <2> QED
    BY <1>3, <2>1 DEF TokenStays
<1>10. calls[c].mode # "UpdateCipher" /\ (c # d => r \in restarted \cup disordered')
  BY <1>1, <1>3, <1>5 DEF Replied
<1> QED
  BY <1>1, <1>3, <1>7, <1>8, <1>9, <1>10, DequeuedKeeps DEF Replied

\* FinalizeFinished: the token is dropped, unless the finalization failed.
LEMMA FinalizeFinishedKeeps ==
    ASSUME SessionsInv, NEW p \in Processes, NEW k, NEW c, NEW r, Replied(p, k, c, r),
           FinalizeFinished(r, c, k)
    PROVE  SessionsInv'
<1>1. PICK d : d = Head(m_watcherQueue[r])
  OBVIOUS
<1>2. PICK res : res = ResultOf(d)
  OBVIOUS
<1>3. /\ calls[c].mode = "FinalizeCipher" /\ Dequeued(r, c, k)
      /\ m_cipherSessionToken' = IF res = "Succeeded" THEN [m_cipherSessionToken EXCEPT ![r] = 0]
                                 ELSE m_cipherSessionToken
      /\ m_result' = [m_result EXCEPT ![r] = res]
  BY <1>1, <1>2 DEF FinalizeFinished
<1>4. TypedClient
  BY DEF SessionsInv
<1>5. /\ r \in CipherRequests /\ process[r] = p /\ m_watcherQueue[r] # <<>> /\ d \in DOMAIN calls
      /\ calls[d].request = r
  BY <1>1, <1>3, HeadIsCall
<1>6. /\ res \in {"Succeeded", "Failed"}
      /\ calls[d].mode = "FinalizeCipher" /\ res = "Failed" => ~Calm(process[r])
  BY <1>2, <1>5, ArgumentsOfReply DEF ProcessOf
<1>7. m_result' \in [CipherRequests -> {"Pending", "Succeeded", "Failed"}]
  BY <1>3, <1>4, <1>6 DEF TypedClient
<1>8. /\ m_cipherSessionToken' \in [CipherRequests -> {0} \cup Tokens]
      /\ res = "Succeeded" => m_cipherSessionToken'[r] = 0
      /\ \A q \in CipherRequests : q # r => m_cipherSessionToken'[q] = m_cipherSessionToken[q]
  BY <1>3, <1>4, <1>5 DEF TypedClient
<1>9. ASSUME c = d PROVE TokenStays(r)
  <2>1. process' = process /\ astray' = astray /\ misfired' = misfired
    BY <1>1, <1>3, <1>9 DEF Replied, EventKept, Dequeued
  <2>2. ASSUME Calm(process[r])' PROVE res = "Succeeded"
    <3>1. Calm(process[r])
      BY <2>1, <2>2 DEF Calm
    <3> QED
      BY <1>3, <1>6, <1>9, <3>1
  <2> QED
    BY <1>8, <2>2 DEF TokenStays
<1>10. calls[c].mode # "UpdateCipher" /\ (c # d => r \in restarted \cup disordered')
  BY <1>1, <1>3, <1>5 DEF Replied
<1> QED
  BY <1>1, <1>3, <1>7, <1>8, <1>9, <1>10, DequeuedKeeps DEF Replied

\* A lambda, whichever it is.
LEMMA FinishedKeeps ==
    ASSUME SessionsInv, NEW p \in Processes, NEW k, NEW c, NEW r, Replied(p, k, c, r),
           Finished(r, c, k)
    PROVE  SessionsInv'
<1>1. CASE UpdateFinished(r, c, k)
  BY <1>1, UpdateFinishedKeeps DEF Replied
<1>2. CASE InitializeFinished(r, c, k)
  BY <1>2, InitializeFinishedKeeps
<1>3. CASE UpdateAuthenticationFinished(r, c, k)
  BY <1>3, UpdateAuthenticationFinishedKeeps
<1>4. CASE FinalizeFinished(r, c, k)
  BY <1>4, FinalizeFinishedKeeps
<1> QED
  BY <1>1, <1>2, <1>3, <1>4 DEF Finished

\* NothingToDequeue: the process is no more.
LEMMA NothingToDequeueKeeps ==
    ASSUME SessionsInv, NEW p \in Processes, NEW k, NEW c, NEW r, Delivering(p, k, c, r), Free(p),
           ProcessOf(c) = p, c \in watchers, NothingToDequeue(r, c), UNCHANGED EventKept,
           disordered' = disordered
    PROVE  SessionsInv'
<1>1. /\ m_watcherQueue[r] = <<>> /\ misfired' = misfired \cup {r}
      /\ crashed' = crashed \cup {p}
      /\ events' = [events EXCEPT ![p] = <<>>]
      /\ m_status' = m_status /\ m_result' = m_result
      /\ m_cipherSessionToken' = m_cipherSessionToken /\ m_watcherQueue' = m_watcherQueue
      /\ m_completedHash' = m_completedHash /\ taking' = taking /\ watchers' = watchers
  BY DEF NothingToDequeue, Delivering
<1>2. /\ process' = process /\ calls' = calls /\ m_cipherMode' = m_cipherMode
      /\ m_cryptoPluginName' = m_cryptoPluginName
      /\ restarted' = restarted /\ m_cipherSessions' = m_cipherSessions /\ astray' = astray
      /\ UNCHANGED <<process, calls, daemon, astray>>
  BY DEF EventKept, daemon
<1>3. /\ TypedClient /\ Waiting /\ Alike /\ Signals /\ Completed /\ Served /\ InTurn
      /\ NoStrayWatcher /\ OwnReply
  BY DEF SessionsInv
<1>4. r \in CipherRequests /\ process[r] = p /\ c \in DOMAIN calls /\ calls[c].request = r
  BY DEF Delivering
<1>5. /\ events' \in [Processes -> Seq(Events)] /\ events'[p] = <<>>
      /\ \A q \in Processes : q # p => events'[q] = events[q]
  BY <1>1, <1>3, <1>4 DEF TypedClient
<1>6. TypedDaemon' /\ Pipeline' /\ Sessions' /\ FailedIsAstray' /\ TokensInForce'
  <2>1. misfired \subseteq misfired'
    BY <1>1
  <2> QED
    BY <1>2, <2>1, DaemonRests
<1>7. TypedClient'
  BY <1>1, <1>2, <1>3, <1>4, <1>5 DEF TypedClient
<1>8. Waiting'
  BY <1>1, <1>2, <1>3 DEF Waiting
<1>9. \A q \in CipherRequests : Regular(q)' => Regular(q)
  BY <1>1 DEF Regular
<1>10. Alike'
  BY <1>1, <1>2, <1>3, <1>9 DEF Alike
<1>11. Signals'
  <2>1. \A o \in Processes : \A l \in DOMAIN events'[o] : o # p /\ events'[o] = events[o]
    BY <1>5
  <2> QED
    BY <1>1, <1>2, <1>3, <2>1 DEF Signals, ProcessOf
<1>12. \A q \in CipherRequests : process[q] \notin crashed' =>
            process[q] \notin crashed /\ events'[process[q]] = events[process[q]]
  BY <1>1, <1>3, <1>4, <1>5 DEF TypedClient
<1>13. Completed'
  <2>1. \A q \in CipherRequests : q \in taking => process[q] \notin crashed'
    BY <1>1, <1>3 DEF Free, Completed
  <2> QED
    BY <1>1, <1>2, <1>3, <1>9, <1>12, <2>1 DEF Completed
<1>14. Served'
  <2>1. ASSUME NEW q \in CipherRequests, Regular(q)', process[q] \notin crashed',
               NEW i \in DOMAIN m_watcherQueue[q]
        PROVE  /\ m_watcherQueue[q][i] \in watchers
               /\ \A l \in DOMAIN events'[process[q]] :
                    events'[process[q]][l] # Event("deleteLater", m_watcherQueue[q][i])
               /\ calls[m_watcherQueue[q][i]].reply # "none" =>
                    \/ m_watcherQueue[q][i] \in m_completedHash[q]
                    \/ \E l \in DOMAIN events'[process[q]] :
                        events'[process[q]][l] = Event("finished", m_watcherQueue[q][i])
    <3>1. Regular(q) /\ process[q] \notin crashed /\ events'[process[q]] = events[process[q]]
      BY <1>9, <1>12, <2>1
    <3>2. /\ m_watcherQueue[q][i] \in watchers
          /\ \A l \in DOMAIN events[process[q]] :
                events[process[q]][l] # Event("deleteLater", m_watcherQueue[q][i])
          /\ calls[m_watcherQueue[q][i]].reply # "none" =>
                \/ m_watcherQueue[q][i] \in m_completedHash[q]
                \/ \E l \in DOMAIN events[process[q]] :
                    events[process[q]][l] = Event("finished", m_watcherQueue[q][i])
      BY ONLY <1>3, <2>1, <3>1, ZenonT(30) DEF Served
    <3> QED
      BY ONLY <3>1, <3>2
  <2> QED
    BY ONLY <1>1, <1>2, <2>1 DEF Served
<1>15. InTurn'
  <2>1. ASSUME NEW q \in CipherRequests, Regular(q)', process[q] \notin crashed',
               NEW i \in DOMAIN m_watcherQueue[q], NEW j \in DOMAIN m_watcherQueue[q],
               NEW l \in DOMAIN events'[process[q]], i < j,
               events'[process[q]][l] = Event("finished", m_watcherQueue[q][j])
        PROVE  \/ m_watcherQueue[q][i] \in m_completedHash[q]
               \/ \E m \in DOMAIN events'[process[q]] :
                    m < l /\ events'[process[q]][m] = Event("finished", m_watcherQueue[q][i])
    <3>1. Regular(q) /\ process[q] \notin crashed /\ events'[process[q]] = events[process[q]]
      BY <1>9, <1>12, <2>1
    <3>2. /\ l \in DOMAIN events[process[q]]
          /\ events[process[q]][l] = Event("finished", m_watcherQueue[q][j])
      BY <2>1, <3>1
    <3>3. \/ m_watcherQueue[q][i] \in m_completedHash[q]
          \/ \E m \in DOMAIN events[process[q]] :
                m < l /\ events[process[q]][m] = Event("finished", m_watcherQueue[q][i])
      BY ONLY <1>3, <2>1, <3>1, <3>2, ZenonT(30) DEF InTurn
    <3> QED
      BY ONLY <3>1, <3>3
  <2> QED
    BY ONLY <1>1, <1>2, <2>1 DEF InTurn
<1>16. NoStrayWatcher'
  BY <1>1, <1>2, <1>3 DEF NoStrayWatcher
<1>17. OwnReply'
  <2>1. r \in restarted \cup disordered
    <3>1. DOMAIN m_watcherQueue[r] = {}
      BY <1>1
    <3> QED
      BY <1>3, <1>4, <3>1 DEF NoStrayWatcher
  <2> QED
    BY <1>1, <1>2, <1>3, <2>1 DEF OwnReply
<1>18. QueueShifts(r, 0)
  BY <1>1, <1>3, <1>4, QueueStays
<1>19. TokenStays(r) /\ misfired \subseteq misfired'
  BY <1>1, <1>2 DEF TokenStays, Finalizing
<1>20. TokenHeld' /\ TokenGiven'
  BY <1>2, <1>4, <1>18, <1>19, TokensReact
<1> QED
  BY <1>6, <1>7, <1>8, <1>10, <1>11, <1>13, <1>14, <1>15, <1>16, <1>17, <1>20 DEF SessionsInv

\* The first signal of an event loop: unless its call is the head of its queue, the
\* request has initialized with calls under way, or is not regular.
LEMMA FirstIsHead ==
    ASSUME SessionsInv, NEW p \in Processes, NEW c, NEW r, Delivering(p, 1, c, r),
           1 \in DOMAIN events[p], events[p][1] = Event("finished", c), c \in watchers,
           calls[c].mode # "UpdateCipher", m_watcherQueue[r] # <<>>, c # Head(m_watcherQueue[r])
    PROVE  r \in restarted \cup disordered
<1> SUFFICES ASSUME r \notin restarted \cup disordered PROVE FALSE
  OBVIOUS
<1>1. TypedClient /\ Waiting /\ Alike /\ Completed /\ InTurn /\ NoStrayWatcher /\ OwnReply
  BY DEF SessionsInv
<1>2. r \in CipherRequests /\ process[r] = p /\ p \notin crashed /\ calls[c].request = r
  BY DEF Delivering
<1>3. Regular(r)
  BY <1>1, <1>2 DEF Regular, OwnReply
<1>4. PICK j \in DOMAIN m_watcherQueue[r] : m_watcherQueue[r][j] = c
  BY <1>1, <1>2 DEF NoStrayWatcher
<1>5. m_watcherQueue[r] \in Seq(Nat)
  BY <1>1, <1>2 DEF TypedClient
<1>6. 1 \in DOMAIN m_watcherQueue[r] /\ Head(m_watcherQueue[r]) = m_watcherQueue[r][1]
  BY <1>5, EmptyOrNot
<1>7. 1 < j
  BY <1>4, <1>5, <1>6
<1>8. m_watcherQueue[r][1] \in m_completedHash[r]
  <2>1. /\ 1 \in DOMAIN events[process[r]]
        /\ events[process[r]][1] = Event("finished", m_watcherQueue[r][j])
    BY <1>2, <1>4
  <2>2. process[r] \notin crashed
    BY <1>2
  <2>3. \/ m_watcherQueue[r][1] \in m_completedHash[r]
        \/ \E l \in DOMAIN events[process[r]] :
              l < 1 /\ events[process[r]][l] = Event("finished", m_watcherQueue[r][1])
    <3>1. InTurn /\ r \in CipherRequests /\ j \in DOMAIN m_watcherQueue[r]
      BY <1>1, <1>2, <1>4
    <3>2. \A i, l \in DOMAIN m_watcherQueue[r], m \in DOMAIN events[process[r]] :
            i < l /\ events[process[r]][m] = Event("finished", m_watcherQueue[r][l]) =>
                \/ m_watcherQueue[r][i] \in m_completedHash[r]
                \/ \E n \in DOMAIN events[process[r]] :
                    n < m /\ events[process[r]][n] = Event("finished", m_watcherQueue[r][i])
      BY ONLY <1>3, <2>2, <3>1, ZenonT(30) DEF InTurn
    <3> QED
      BY ONLY <1>6, <1>7, <2>1, <3>1, <3>2
  <2>4. events[process[r]] \in Seq(Events)
    BY <1>1, <1>2 DEF TypedClient
  <2>5. \A l \in DOMAIN events[process[r]] : ~(l < 1)
    BY ONLY <2>4
  <2> QED
    BY ONLY <2>3, <2>5
<1>9. calls[m_watcherQueue[r][1]].mode = "UpdateCipher"
  BY <1>1, <1>2, <1>8 DEF Completed
<1>10. /\ calls[m_watcherQueue[r][1]].mode = m_cipherMode[r]
       /\ calls[m_watcherQueue[r][j]].mode = m_cipherMode[r]
  BY <1>1, <1>2, <1>3, <1>4, <1>6, ZenonT(30) DEF Alike
<1> QED
  BY <1>4, <1>9, <1>10

\* One event of the event loop.
LEMMA DeliverEventKeeps ==
    ASSUME SessionsInv, NEW p \in Processes, DeliverEvent(p)
    PROVE  SessionsInv'
<1>1. events[p] \in Seq(Events) /\ events[p] # <<>> /\ Free(p) /\ p \notin crashed
  BY DEF DeliverEvent, Free, SessionsInv, TypedClient
<1>2. 1 \in DOMAIN events[p] /\ Head(events[p]) = events[p][1]
  BY <1>1
<1>3. PICK c : c = events[p][1].call
  OBVIOUS
<1>4. PICK r : r = calls[c].request
  OBVIOUS
<1>5. UNCHANGED EventKept /\ disordered' = disordered
  BY DEF DeliverEvent, EventKept, application
<1>6. /\ Delivering(p, 1, c, r) /\ ProcessOf(c) = p
      /\ events[p][1].kind \in {"finished", "deleteLater"}
      /\ events[p][1] = Event(events[p][1].kind, c)
      /\ events[p][1].kind = "finished" => calls[c].reply # "none"
  BY <1>1, <1>2, <1>3, <1>4, CallOfEvent
<1>7. IF events[p][1].kind = "deleteLater" \/ c \notin watchers THEN WatcherDeleted(c)
      ELSE Finished(r, c, 1) \/ NothingToDequeue(r, c)
  BY <1>2, <1>3, <1>4 DEF DeliverEvent
<1> HIDE <1>3, <1>4
<1>8. CASE events[p][1].kind = "deleteLater" \/ c \notin watchers
  BY <1>2, <1>5, <1>6, <1>7, <1>8, WatcherDeletedKeeps
<1>9. CASE events[p][1].kind = "finished" /\ c \in watchers
  <2>1. CASE NothingToDequeue(r, c)
    BY <1>1, <1>5, <1>6, <1>9, <2>1, NothingToDequeueKeeps
  <2>2. CASE Finished(r, c, 1)
    <3>1. r \notin taking
      BY <1>1, <1>6 DEF Free, Delivering
    <3>2. calls[c].mode # "UpdateCipher" /\ m_watcherQueue[r] # <<>> /\ c # Head(m_watcherQueue[r])
            => r \in restarted \cup disordered'
      BY <1>2, <1>5, <1>6, <1>9, FirstIsHead
    <3>3. Replied(p, 1, c, r)
      BY <1>2, <1>5, <1>6, <1>9, <3>1, <3>2 DEF Replied
    <3> QED
      BY <2>2, <3>3, FinishedKeeps
  <2> QED
    BY <1>7, <1>9, <2>1, <2>2
<1> QED
  BY <1>6, <1>8, <1>9

\* waitForFinished: the signal of the last call of the queue.
LEMMA WaitedFor ==
    ASSUME SessionsInv, NEW r \in CipherRequests, WaitForFinished(r)
    PROVE  \E p \in Processes : \E k, c : Replied(p, k, c, r) /\ Finished(r, c, k)
<1>1. PICK p : p = process[r]
  OBVIOUS
<1>2. PICK c : c = Last(m_watcherQueue[r])
  OBVIOUS
<1>3. /\ Free(p) /\ p \notin crashed /\ m_watcherQueue[r] # <<>> /\ UNCHANGED EventKept
      /\ disordered' = IF Len(m_watcherQueue[r]) > 1 /\ calls[c].mode # "UpdateCipher"
                       THEN disordered \cup {r} ELSE disordered
  BY <1>1, <1>2 DEF WaitForFinished, Free, EventKept
<1>4. PICK k \in DOMAIN events[p] : events[p][k] = Event("finished", c) /\ Finished(r, c, k)
  BY <1>1, <1>2 DEF WaitForFinished
<1>5. m_watcherQueue[r] \in Seq(Nat) /\ p \in Processes
  BY <1>1 DEF SessionsInv, TypedClient
<1>6. /\ Len(m_watcherQueue[r]) \in Nat /\ Len(m_watcherQueue[r]) # 0
      /\ c = m_watcherQueue[r][Len(m_watcherQueue[r])]
      /\ Len(m_watcherQueue[r]) \in DOMAIN m_watcherQueue[r]
      /\ Head(m_watcherQueue[r]) = m_watcherQueue[r][1]
  <2>1. c = m_watcherQueue[r][Len(m_watcherQueue[r])]
    BY <1>2 DEF Last
  <2>2. /\ Len(m_watcherQueue[r]) \in Nat /\ Len(m_watcherQueue[r]) # 0
        /\ Len(m_watcherQueue[r]) \in DOMAIN m_watcherQueue[r]
        /\ Head(m_watcherQueue[r]) = m_watcherQueue[r][1]
    BY ONLY <1>3, <1>5
  <2> QED
    BY <2>1, <2>2
<1>7. calls[c].request = r
  BY <1>6 DEF SessionsInv, Waiting
<1>8. events[p][k].call = c /\ events[p][k].kind = "finished"
  BY <1>4, EventParts
<1> HIDE <1>2
<1>9. Delivering(p, k, c, r) /\ ProcessOf(c) = p /\ calls[c].reply # "none"
  BY <1>3, <1>5, <1>7, <1>8, CallOfEvent
<1>10. r \notin taking
  BY <1>1, <1>3 DEF Free
<1>11. calls[c].mode # "UpdateCipher" /\ c # Head(m_watcherQueue[r]) => r \in disordered'
  <2>1. c # Head(m_watcherQueue[r]) => Len(m_watcherQueue[r]) > 1
    BY <1>6
  <2> QED
    BY <1>3, <2>1
<1>12. Replied(p, k, c, r)
  BY <1>3, <1>9, <1>10, <1>11 DEF Replied
<1> QED
  BY <1>4, <1>5, <1>12

\* Its lambda runs.
LEMMA WaitForFinishedKeeps ==
    ASSUME SessionsInv, NEW r \in CipherRequests, WaitForFinished(r)
    PROVE  SessionsInv'
<1>1. PICK p \in Processes : \E k, c : Replied(p, k, c, r) /\ Finished(r, c, k)
  BY WaitedFor
<1>2. PICK k, c : Replied(p, k, c, r) /\ Finished(r, c, k)
  BY <1>1
<1> QED
  BY <1>2, FinishedKeeps

-----------------------------------------------------------------------------
(* The invariant always holds. *)

\* Nothing has been called and nobody waits.
LEMMA SessionsInvInitially ==
    ASSUME Init
    PROVE  SessionsInv
<1>1. /\ calls = <<>> /\ m_requests = <<>> /\ pool = <<>> /\ watchers = {}
      /\ astray = {} /\ misfired = {} /\ restarted = {} /\ taking = {}
      /\ m_watcherQueue = [r \in CipherRequests |-> <<>>]
      /\ m_completedHash = [r \in CipherRequests |-> {}]
      /\ m_cipherSessionToken = [r \in CipherRequests |-> 0]
      /\ m_status = [r \in CipherRequests |-> "Inactive"]
      /\ events = [p \in Processes |-> <<>>]
      /\ m_cipherSessions = [p \in Processes |-> [t \in Tokens |-> 0]]
  BY DEF Init
<1>2. /\ DOMAIN calls = {} /\ Len(calls) = 0 /\ Len(m_requests) = 0
      /\ DOMAIN m_requests = {} /\ DOMAIN pool = {}
  BY <1>1
<1>3. /\ \A r \in CipherRequests : m_watcherQueue[r] = <<>> /\ DOMAIN m_watcherQueue[r] = {}
                                   /\ Len(m_watcherQueue[r]) = 0
      /\ \A p \in Processes : events[p] = <<>> /\ DOMAIN events[p] = {}
  BY <1>1
<1>4. TypedClient
  <2>1. process \in [CipherRequests -> Processes]
        /\ m_cipherMode \in [CipherRequests -> Modes]
        /\ m_cryptoPluginName \in [CipherRequests -> PluginNames]
        /\ m_result \in [CipherRequests -> {"Pending", "Succeeded", "Failed"}]
    BY DEF Init, Modes, PluginNames, m_cryptoPlugins
  <2>2. m_watcherQueue \in [CipherRequests -> Seq(Nat)] /\ events \in [Processes -> Seq(Events)]
    BY <1>1
  <2> QED
    BY <1>1, <2>1, <2>2 DEF TypedClient
<1>5. TypedDaemon
  BY <1>1 DEF TypedDaemon
<1>6. Pipeline
  BY <1>2 DEF Pipeline, QueueInOrder, PoolInOrder, Accounted, Handled
<1>7. Waiting /\ Alike /\ Completed
  BY <1>1, <1>3 DEF Waiting, Alike, Completed
<1>8. Signals /\ NoStrayWatcher /\ OwnReply
  BY <1>1, <1>3 DEF Signals, NoStrayWatcher, OwnReply
<1>9. Served /\ InTurn
  BY <1>3 DEF Served, InTurn
<1>10. Sessions /\ TokensInForce /\ FailedIsAstray
  BY <1>1, <1>2 DEF Sessions, TokensInForce, FailedIsAstray
<1>11. TokenHeld /\ TokenGiven
  BY <1>1, <1>3 DEF TokenHeld, TokenGiven
<1> QED
  BY <1>4, <1>5, <1>6, <1>7, <1>8, <1>9, <1>10, <1>11 DEF SessionsInv

\* A step that changes nothing.
LEMMA StutteringKeeps ==
    ASSUME SessionsInv, UNCHANGED vars
    PROVE  SessionsInv'
<1>1. /\ UNCHANGED <<process, calls, daemon, astray>>
      /\ UNCHANGED <<m_cipherSessionToken, m_watcherQueue, m_completedHash, taking, watchers,
                     events, restarted, misfired, crashed>>
      /\ m_cipherMode' = m_cipherMode /\ m_cryptoPluginName' = m_cryptoPluginName
      /\ m_status' = m_status /\ m_result' = m_result /\ disordered' = disordered
  BY DEF vars, client, application
<1>2. TypedClient'
  BY <1>1 DEF SessionsInv, TypedClient
<1> QED
  BY <1>1, <1>2, ClientRests

\* What CipherRequest, the crypto queue and the openssl plugin know of each
\* other's calls, sessions and tokens is right in every state.
THEOREM SessionsInvAlways == Spec => []SessionsInv
<1>1. Init => SessionsInv
  BY SessionsInvInitially
<1>2. SessionsInv /\ [Next]_vars => SessionsInv'
  <2> SUFFICES ASSUME SessionsInv, [Next]_vars PROVE SessionsInv'
    OBVIOUS
  <2>1. ASSUME NEW r \in CipherRequests, Application(r) PROVE SessionsInv'
    BY <2>1, ApplicationKeeps
  <2>8. ASSUME NEW r \in CipherRequests, WaitForFinished(r) PROVE SessionsInv'
    BY <2>8, WaitForFinishedKeeps
  <2>9. ASSUME NEW r \in CipherRequests, TakeCompleted(r) PROVE SessionsInv'
    BY <2>9, TakeCompletedKeeps
  <2>2. CASE HandlePendingRequest
    BY <2>2, HandlePendingRequestKeeps
  <2>3. CASE RunJob
    BY <2>3, RunJobKeeps
  <2>4. ASSUME NEW c \in DOMAIN calls, KeyLookedUp(c) PROVE SessionsInv'
    BY <2>4, KeyLookedUpKeeps
  <2>5. ASSUME NEW c \in DOMAIN calls, Timeout(c) PROVE SessionsInv'
    BY <2>5, TimeoutKeeps
  <2>6. ASSUME NEW p \in Processes, DeliverEvent(p) PROVE SessionsInv'
    BY <2>6, DeliverEventKeeps
  <2>7. CASE UNCHANGED vars
    BY <2>7, StutteringKeeps
  <2> QED
    BY <2>1, <2>2, <2>3, <2>4, <2>5, <2>6, <2>7, <2>8, <2>9 DEF Next
<1> QED
  BY <1>1, <1>2, PTL DEF Spec

\* The fields of a request object and the table of sessions of the plugin keep
\* to their types: a token is never one there is no room for.
THEOREM TypeCorrect == Spec => []TypeOK
<1>1. SessionsInv => TypeOK
  <2> SUFFICES ASSUME SessionsInv PROVE TypeOK
    OBVIOUS
  <2>1. TypedClient /\ TypedDaemon /\ Waiting /\ Sessions
    BY DEF SessionsInv
  <2>2. DOMAIN calls = 1 .. Len(calls) /\ Len(calls) \in Nat
    BY <2>1 DEF TypedDaemon
  <2>3. \A p \in Processes, t \in Tokens : m_cipherSessions[p][t] \in 0 .. Len(calls)
    <3>1. \A p \in Processes, t \in Tokens :
            m_cipherSessions[p][t] = 0 \/ m_cipherSessions[p][t] \in 1 .. Len(calls)
      BY <2>1, <2>2 DEF Sessions
    <3>2. \A n \in 1 .. Len(calls) : n \in 0 .. Len(calls)
      BY <2>2
    <3>3. 0 \in 0 .. Len(calls)
      BY <2>2
    <3> QED
      BY <3>1, <3>2, <3>3
  <2>4. \A r \in CipherRequests : ToSet(m_watcherQueue[r]) \subseteq DOMAIN calls
    BY <2>1 DEF Waiting, ToSet
  <2> QED
    BY <2>1, <2>3, <2>4 DEF TypeOK, TypedClient
<1> QED
  BY <1>1, SessionsInvAlways, PTL

\* A call reaches a session of its own process, and unless a request of that
\* process has gone on with a token it had lost, the one its own request opened.
THEOREM AlwaysOwnSession == Spec => []OwnSession
<1>1. SessionsInv => OwnSession
  BY DEF SessionsInv, Sessions, OwnSession
<1> QED
  BY <1>1, SessionsInvAlways, PTL

\* A watcher takes the reply to its own call off the queue, unless the request was
\* initialized with calls under way, could not send a call then, or waited for the
\* last of several calls other than UpdateCipher.
THEOREM AlwaysOwnReply == Spec => []OwnReply
<1>1. SessionsInv => OwnReply
  BY DEF SessionsInv
<1> QED
  BY <1>1, SessionsInvAlways, PTL

\* When queue, thread and event loops have come to rest, nobody waits for a reply,
\* except in requests whose calls got out of order.
THEOREM NoCallEverForgotten == Spec => []NoCallForgotten
<1>1. SessionsInv => NoCallForgotten
  <2> SUFFICES ASSUME SessionsInv, Quiet, NEW r \in CipherRequests,
                      m_watcherQueue[r] # <<>>, process[r] \notin crashed, Regular(r)
               PROVE  FALSE
    BY DEF NoCallForgotten, Regular
  <2>1. TypedClient /\ TypedDaemon /\ Pipeline /\ Waiting /\ Completed /\ Served
    BY DEF SessionsInv
  <2>2. 1 \in DOMAIN m_watcherQueue[r]
    BY <2>1 DEF TypedClient
  <2>3. PICK c : c = m_watcherQueue[r][1]
    OBVIOUS
  <2>4. c \in DOMAIN calls
    BY <2>1, <2>2, <2>3 DEF Waiting
  <2>5. m_requests = <<>> /\ pool = <<>> /\ calls[c].answer # "checking"
        /\ events[process[r]] = <<>>
    BY <2>1, <2>4 DEF Quiet, TypedClient
  <2>6. calls[c].reply = "none"
    <3>1. DOMAIN events[process[r]] = {}
      BY <2>5
    <3>2. c \notin m_completedHash[r]
      <4>1. r \notin taking
        BY DEF Quiet
      <4> QED
        BY <2>1, <2>3, <4>1 DEF Completed
    <3> QED
      BY <2>1, <2>2, <2>3, <3>1, <3>2 DEF Served
  <2>7. calls[c].answer = "none"
    BY <2>1, <2>4, <2>5, <2>6 DEF Pipeline, Accounted
  <2>8. c <= Handled
    <3>1. Len(m_requests) = 0
      BY <2>5
    <3>2. DOMAIN calls = 1 .. Len(calls) /\ Len(calls) \in Nat
      BY <2>1 DEF TypedDaemon
    <3> QED
      BY <2>4, <3>1, <3>2 DEF Handled
  <2>9. \E i \in DOMAIN pool : pool[i] = c
    BY <2>1, <2>4, <2>7, <2>8 DEF Pipeline, Accounted
  <2> QED
    BY <2>5, <2>9
<1> QED
  BY <1>1, SessionsInvAlways, PTL
-----------------------------------------------------------------------------
(* The order of the blocks: a second invariant, on top of the first. *)

\* What a request opened last is a call of its own.
OpenedIsOwn ==
    /\ opened \in [CipherRequests -> Nat]
    /\ \A r \in CipherRequests : opened[r] # 0 =>
        opened[r] \in DOMAIN calls /\ calls[opened[r]].request = r

\* The thread has worked on the calls on sessions in the order they were made in.
SeenInOrder ==
    \A c, d \in DOMAIN calls :
        Unseen(c) /\ c < d /\ calls[d].mode # "InitializeCipher" =>
            calls[d].answer # "Succeeded"

\* A request that waits for a session waits for the last one it opened, and the
\* token it then holds is that of this session.
AwaitsLast ==
    \A r \in CipherRequests : \A i \in DOMAIN m_watcherQueue[r] :
        calls[m_watcherQueue[r][i]].mode = "InitializeCipher" => m_watcherQueue[r][i] = opened[r]

HoldsLast ==
    \A r \in CipherRequests :
        \/ m_cipherSessionToken[r] = 0
        \/ ~Calm(process[r])
        \/ Finalizing(r)
        \/ m_cipherSessions[process[r]][m_cipherSessionToken[r]] = opened[r]

\* The calls on their way that work on this session are the ones it waits for.
UsesLast ==
    \A c \in DOMAIN calls :
        Unseen(c) /\ Calm(ProcessOf(c)) /\ ~LostReply(calls[c].request) =>
            (m_cipherSessions[ProcessOf(c)][calls[c].token] = opened[calls[c].request] <=>
                \E i \in DOMAIN m_watcherQueue[calls[c].request] :
                    m_watcherQueue[calls[c].request][i] = c)

\* What a session was fed: calls of UpdateCipher that succeeded, in their order.
FedInOrder ==
    /\ fed \in [1 .. MaxCalls -> Seq(Nat)] /\ shown \in [CipherRequests -> Seq(Nat)]
    /\ Len(calls) <= MaxCalls
    /\ \A s \in 1 .. MaxCalls :
        /\ s > Len(calls) => fed[s] = <<>>
        /\ \A k \in DOMAIN fed[s] : /\ fed[s][k] \in DOMAIN calls
                                    /\ calls[fed[s][k]].mode = "UpdateCipher"
                                    /\ calls[fed[s][k]].answer = "Succeeded"
        /\ \A k, l \in DOMAIN fed[s] : k < l => fed[s][k] < fed[s][l]

Ordered(r) == opened[r] # 0 /\ Undisturbed(r) /\ ~LostReply(r)

\* The outputs that have been shown come first of what the session was fed ...
ShownFirst(r) ==
    /\ Len(shown[r]) <= Len(fed[opened[r]])
    /\ \A k \in DOMAIN shown[r] : shown[r][k] = fed[opened[r]][k]

\* ... the others are waited for ...
OthersAwaited(r) ==
    \A k \in DOMAIN fed[opened[r]] : k > Len(shown[r]) =>
        \E i \in DOMAIN m_watcherQueue[r] : m_watcherQueue[r][i] = fed[opened[r]][k]

\* ... and what succeeded and is waited for is one of them.
AwaitedAreFed(r) ==
    \A i \in DOMAIN m_watcherQueue[r] :
        /\ calls[m_watcherQueue[r][i]].mode = "UpdateCipher"
        /\ calls[m_watcherQueue[r][i]].answer = "Succeeded"
        => \E k \in DOMAIN fed[opened[r]] :
                k > Len(shown[r]) /\ fed[opened[r]][k] = m_watcherQueue[r][i]

ShownInOrder ==
    \A r \in CipherRequests : Ordered(r) => ShownFirst(r) /\ OthersAwaited(r) /\ AwaitedAreFed(r)

BlocksInv ==
    /\ OpenedIsOwn /\ SeenInOrder /\ AwaitsLast /\ HoldsLast /\ UsesLast
    /\ FedInOrder /\ ShownInOrder

\* One more call at the end of a sequence.
LEMMA Appended ==
    ASSUME NEW f \in Seq(Nat), NEW c \in Nat, NEW g, g = Append(f, c)
    PROVE  /\ g \in Seq(Nat) /\ Len(f) \in Nat /\ DOMAIN f = 1 .. Len(f)
           /\ Len(g) = Len(f) + 1 /\ DOMAIN g = 1 .. Len(f) + 1 /\ g[Len(f) + 1] = c
           /\ \A k \in DOMAIN f : g[k] = f[k]
OBVIOUS

\* What a request opened is one of the calls.
LEMMA OpenedIsCall ==
    ASSUME OpenedIsOwn, NEW r \in CipherRequests, opened[r] # 0
    PROVE  opened[r] \in DOMAIN calls /\ calls[opened[r]].request = r
BY DEF OpenedIsOwn

\* The step answers call c, or its reply is lost, or nothing happens to it.
Answers(c) ==
    /\ SameCalls
    /\ \A d \in DOMAIN calls : d # c => calls'[d] = calls[d]
    /\ calls[c].reply # "none" => calls'[c].reply = calls[c].reply
    /\ Unseen(c)' => Unseen(c)

\* A reply that is lost stays lost.
LEMMA LostBefore ==
    ASSUME NEW c \in DOMAIN calls, Answers(c), NEW r, LostReply(r)
    PROVE  LostReply(r)'
<1>1. PICK d \in DOMAIN calls : calls[d].request = r /\ calls[d].reply \in {"lost", "mismatch"}
  BY DEF LostReply
<1>2. d \in DOMAIN calls' /\ calls'[d].request = r /\ calls'[d].reply = calls[d].reply
  BY <1>1 DEF Answers, SameCalls
<1> QED
  BY <1>1, <1>2 DEF LostReply

\* No session is replaced by another one.
NoneReplaced ==
    \A p \in Processes, t \in Tokens :
        \/ m_cipherSessions'[p][t] = m_cipherSessions[p][t]
        \/ m_cipherSessions'[p][t] = 0 \/ m_cipherSessions[p][t] = 0

\* What requests hold and wait for, when the daemon takes a step.
LEMMA DaemonHolds ==
    ASSUME SessionsInv, SessionsInv', BlocksInv, UNCHANGED ClientKept, astray \subseteq astray',
           NEW c \in DOMAIN calls, Answers(c), NoneReplaced
    PROVE  OpenedIsOwn' /\ AwaitsLast' /\ HoldsLast' /\ UsesLast'
<1>1. /\ process' = process /\ misfired' = misfired /\ opened' = opened
      /\ m_watcherQueue' = m_watcherQueue /\ m_cipherSessionToken' = m_cipherSessionToken
  BY DEF ClientKept
<1>2. \A p : Calm(p)' => Calm(p)
  BY <1>1, CalmBefore
<1>3. TypedClient /\ TypedDaemon /\ SameCalls /\ Waiting
  BY DEF SessionsInv, Answers
<1>4. \A d \in DOMAIN calls : ProcessOf(d)' = ProcessOf(d) /\ ProcessOf(d) \in Processes
  BY <1>1, <1>3, SameProcesses
<1>5. \A q \in CipherRequests : \A i \in DOMAIN m_watcherQueue[q] :
            m_watcherQueue[q][i] \in DOMAIN calls
  BY <1>3 DEF Waiting
<1>6. \A r : LostReply(r) => LostReply(r)'
  BY LostBefore
<1>7. /\ DOMAIN calls' = DOMAIN calls
      /\ \A d \in DOMAIN calls :
            /\ calls'[d].request = calls[d].request /\ calls'[d].mode = calls[d].mode
            /\ calls'[d].token = calls[d].token
  BY <1>3 DEF SameCalls
<1>8. \A q \in CipherRequests : Finalizing(q)' <=> Finalizing(q)
  BY <1>1, <1>5, <1>7 DEF Finalizing
<1>9. OpenedIsOwn'
  BY <1>1, <1>7 DEF BlocksInv, OpenedIsOwn
<1>10. AwaitsLast'
  BY <1>1, <1>5, <1>7 DEF BlocksInv, AwaitsLast
<1>11. HoldsLast'
  <2> SUFFICES ASSUME NEW r \in CipherRequests, m_cipherSessionToken[r] # 0, Calm(process[r])',
                      ~Finalizing(r)'
               PROVE  m_cipherSessions'[process[r]][m_cipherSessionToken[r]] = opened[r]
    BY <1>1 DEF HoldsLast
  <2>1. process[r] \in Processes /\ m_cipherSessionToken[r] \in Tokens
    BY <1>3 DEF TypedClient
  <2>2. Calm(process[r]) /\ ~Finalizing(r)
    BY <1>1, <1>2, <1>8
  <2>3. m_cipherSessions[process[r]][m_cipherSessionToken[r]] = opened[r]
    BY <2>2 DEF BlocksInv, HoldsLast
  <2>4. m_cipherSessions[process[r]][m_cipherSessionToken[r]] # 0
    BY <2>2 DEF SessionsInv, TokenHeld
  <2>5. m_cipherSessions'[process[r]][m_cipherSessionToken[r]] # 0
    BY <1>1 DEF SessionsInv, TokenHeld
  <2> QED
    BY <2>1, <2>3, <2>4, <2>5 DEF NoneReplaced
<1>12. UsesLast'
  <2> SUFFICES ASSUME NEW d \in DOMAIN calls, Unseen(d)', Calm(ProcessOf(d))',
                      ~LostReply(calls[d].request)'
               PROVE  m_cipherSessions'[ProcessOf(d)][calls[d].token] = opened[calls[d].request]
                        <=> \E i \in DOMAIN m_watcherQueue[calls[d].request] :
                                m_watcherQueue[calls[d].request][i] = d
    BY <1>1, <1>4, <1>7 DEF UsesLast
  <2>1. PICK p \in Processes : p = ProcessOf(d) /\ p = ProcessOf(d)'
    BY <1>4
  <2>2. Unseen(d)
    BY DEF Answers, Unseen
  <2>3. Calm(p)' /\ Calm(p)
    BY <1>2, <2>1
  <2>4. ~LostReply(calls[d].request)
    BY <1>6, <1>7
  <2>5. calls[d].token \in Tokens /\ m_cipherSessions[p][calls[d].token] # 0
    BY <2>1, <2>2, <2>3 DEF SessionsInv, TokensInForce
  <2>6. m_cipherSessions'[p][calls'[d].token] # 0
    BY <1>7, <2>1, <2>3 DEF SessionsInv, TokensInForce
  <2>7. m_cipherSessions'[p][calls[d].token] = m_cipherSessions[p][calls[d].token]
    BY <1>7, <2>5, <2>6 DEF NoneReplaced
  <2>8. m_cipherSessions[p][calls[d].token] = opened[calls[d].request]
            <=> \E i \in DOMAIN m_watcherQueue[calls[d].request] :
                    m_watcherQueue[calls[d].request][i] = d
    BY <2>1, <2>2, <2>3, <2>4 DEF BlocksInv, UsesLast
  <2> QED
    BY <2>1, <2>7, <2>8
<1> QED
  BY <1>9, <1>10, <1>11, <1>12

\* What is shown, when the daemon takes a step that feeds no session.
LEMMA DaemonShows ==
    ASSUME SessionsInv, BlocksInv, UNCHANGED ClientKept, astray \subseteq astray',
           NEW c \in DOMAIN calls, Answers(c), fed' = fed, shown' = shown,
           calls[c].mode = "UpdateCipher" =>
                (calls'[c].answer = "Succeeded" <=> calls[c].answer = "Succeeded")
    PROVE  FedInOrder' /\ ShownInOrder'
<1>1. /\ process' = process /\ misfired' = misfired /\ m_watcherQueue' = m_watcherQueue
      /\ opened' = opened
  BY DEF ClientKept
<1>2. \A r : LostReply(r) => LostReply(r)'
  BY LostBefore
<1>3. /\ DOMAIN calls' = DOMAIN calls /\ Len(calls') = Len(calls)
      /\ \A d \in DOMAIN calls :
            /\ calls'[d].request = calls[d].request /\ calls'[d].mode = calls[d].mode
            /\ calls[d].mode = "UpdateCipher" =>
                 (calls'[d].answer = "Succeeded" <=> calls[d].answer = "Succeeded")
  BY DEF Answers, SameCalls
<1>4. FedInOrder'
  BY <1>3 DEF BlocksInv, FedInOrder
<1>5. ShownInOrder'
  <2> SUFFICES ASSUME NEW r \in CipherRequests, Ordered(r)'
               PROVE  ShownFirst(r)' /\ OthersAwaited(r)' /\ AwaitedAreFed(r)'
    BY DEF ShownInOrder
  <2>1. Ordered(r)
    BY <1>1, <1>2 DEF Ordered, Undisturbed
  <2>2. ShownFirst(r) /\ OthersAwaited(r) /\ AwaitedAreFed(r)
    BY <2>1 DEF BlocksInv, ShownInOrder
  <2>3. ShownFirst(r)' /\ OthersAwaited(r)'
    BY <1>1, <2>2 DEF ShownFirst, OthersAwaited
  <2>4. AwaitedAreFed(r)'
    <3>1. \A i \in DOMAIN m_watcherQueue[r] : m_watcherQueue[r][i] \in DOMAIN calls
      BY DEF SessionsInv, Waiting
    <3> QED
      BY <1>1, <1>3, <2>2, <3>1 DEF AwaitedAreFed
  <2> QED
    BY <2>3, <2>4
<1> QED
  BY <1>4, <1>5
-----------------------------------------------------------------------------
(* The steps of the daemon keep the order of the blocks. *)

\* A step of the daemon that feeds no session.
LEMMA DaemonBlocks ==
    ASSUME SessionsInv, SessionsInv', BlocksInv, UNCHANGED ClientKept, astray \subseteq astray',
           NEW c \in DOMAIN calls, Answers(c), NoneReplaced, fed' = fed, shown' = shown,
           calls[c].mode = "UpdateCipher" =>
                (calls'[c].answer = "Succeeded" <=> calls[c].answer = "Succeeded"),
           SeenInOrder'
    PROVE  BlocksInv'
<1>1. OpenedIsOwn' /\ AwaitsLast' /\ HoldsLast' /\ UsesLast'
  BY DaemonHolds
<1>2. FedInOrder' /\ ShownInOrder'
  BY DaemonShows
<1> QED
  BY <1>1, <1>2 DEF BlocksInv

\* No call on a session succeeds that had not.
LEMMA SeenKept ==
    ASSUME TypedDaemon, SeenInOrder, NEW c \in DOMAIN calls, Answers(c),
           \/ calls[c].mode = "InitializeCipher"
           \/ calls'[c].answer = calls[c].answer \/ calls'[c].answer = "Failed"
    PROVE  SeenInOrder'
<1>1. \A d \in DOMAIN calls : Unseen(d)' => Unseen(d)
  BY DEF Answers, Unseen
<1>2. DOMAIN calls' = DOMAIN calls /\ \A d \in DOMAIN calls :
        /\ calls'[d].mode = calls[d].mode
        /\ calls[d].mode # "InitializeCipher" /\ calls'[d].answer = "Succeeded" =>
                calls[d].answer = "Succeeded"
  BY DEF Answers, SameCalls
<1> QED
  BY <1>1, <1>2 DEF SeenInOrder

\* The thread answers the first call of the pool.
LEMMA SeenByThread ==
    ASSUME SessionsInv, SeenInOrder, pool # <<>>, NEW c, c = Head(pool), Answers(c),
           calls'[c].answer # "none", calls[c].mode # "InitializeCipher"
    PROVE  SeenInOrder'
<1>0. c \in DOMAIN calls /\ c \in Nat
  BY HeadOfPoolIsNext, CallFields DEF SessionsInv
<1> SUFFICES ASSUME NEW b \in DOMAIN calls, NEW d \in DOMAIN calls, Unseen(b)', b < d,
                    calls[d].mode # "InitializeCipher"
             PROVE  calls'[d].answer # "Succeeded"
  BY <1>0 DEF SeenInOrder, Answers, SameCalls
<1>1. b # c /\ Unseen(b) /\ b \in Nat
  BY <1>0, CallFields DEF Answers, Unseen, SessionsInv
<1>2. c < b
  BY <1>1, UnseenIsLater DEF SessionsInv
<1>3. d # c
  BY <1>0, <1>1, <1>2
<1>4. calls[d].answer # "Succeeded"
  BY <1>1 DEF SeenInOrder
<1> QED
  BY <1>3, <1>4 DEF Answers

\* The crypto queue hands a call to the processor.
LEMMA HandlePendingRequestBlocks ==
    ASSUME SessionsInv, SessionsInv', BlocksInv, HandlePendingRequest
    PROVE  BlocksInv'
<1>1. PICK c : c = Head(m_requests)
  OBVIOUS
<1>2. /\ UNCHANGED ClientKept /\ m_cipherSessions' = m_cipherSessions
      /\ fed' = fed /\ shown' = shown /\ m_requests # <<>>
      /\ \/ InitializeRequested(c) \/ UpdateAuthenticationRequested(c)
         \/ UpdateRequested(c) \/ FinalizeRequested(c)
  BY <1>1 DEF HandlePendingRequest, client, application, ClientKept
<1>3. c \in DOMAIN calls /\ calls[c].answer = "none"
  <2>1. m_requests[1] = c /\ 1 \in DOMAIN m_requests
    BY <1>1, <1>2 DEF SessionsInv, TypedDaemon
  <2>2. /\ DOMAIN calls = 1 .. Len(calls) /\ Handled \in Nat
        /\ Handled + Len(m_requests) = Len(calls) /\ Len(m_requests) \in Nat
        /\ DOMAIN m_requests = 1 .. Len(m_requests)
    BY CallNumbers DEF SessionsInv
  <2>3. c = Handled + 1
    BY <2>1, <2>2 DEF SessionsInv, Pipeline, QueueInOrder
  <2>4. c \in DOMAIN calls /\ c > Handled
    BY <2>1, <2>2, <2>3
  <2> QED
    BY <2>4 DEF SessionsInv, Pipeline, Accounted
<1>4. NoneReplaced /\ TypedDaemon /\ TypedClient /\ SeenInOrder
  BY <1>2 DEF NoneReplaced, SessionsInv, BlocksInv
<1>5. astray \subseteq astray'
  BY <1>2 DEF InitializeRequested, UpdateAuthenticationRequested, UpdateRequested,
              FinalizeRequested
<1>6. /\ Answers(c)
      /\ \/ calls[c].mode = "InitializeCipher"
         \/ calls'[c].answer = calls[c].answer \/ calls'[c].answer = "Failed"
  <2>1. CASE calls' = calls
    BY <2>1 DEF Answers, SameCalls, Unseen
  <2>2. CASE calls[c].mode = "InitializeCipher" /\ events' = events
             /\ calls' = [calls EXCEPT ![c].answer = "checking"]
    <3>1. /\ SameCalls /\ \A d \in DOMAIN calls : d # c => calls'[d] = calls[d]
          /\ calls'[c].answer = "checking" /\ calls'[c].reply = calls[c].reply
      BY <1>3, <1>4, <2>2, CheckingDoes
    <3> QED
      BY <2>2, <3>1 DEF Answers, Unseen
  <2>3. CASE Reply(c, "Failed", 0, 0, Crypto!PendingCases[Type(calls[c].mode)].reply)
    <3>1. /\ Heard(c) /\ SameCalls
          /\ \A d \in DOMAIN calls : d # c => calls'[d] = calls[d]
          /\ calls'[c].answer = "Failed"
      BY <1>3, <1>4, <2>3, ReplyDoes
    <3> QED
      BY <3>1 DEF Answers, Unseen, Heard
  <2> QED
    BY <1>2, <2>1, <2>2, <2>3 DEF InitializeRequested, UpdateAuthenticationRequested,
                          UpdateRequested, FinalizeRequested, NoSuchPlugin, ToThePool
<1>7. SeenInOrder'
  BY <1>3, <1>4, <1>6, SeenKept
<1>8. calls[c].mode = "UpdateCipher" =>
            (calls'[c].answer = "Succeeded" <=> calls[c].answer = "Succeeded")
  BY <1>3, <1>6
<1> QED
  BY <1>2, <1>3, <1>4, <1>5, <1>6, <1>7, <1>8, DaemonBlocks
\* The secrets queue answers with the key, or without it.
LEMMA KeyLookedUpBlocks ==
    ASSUME SessionsInv, SessionsInv', BlocksInv, NEW c \in DOMAIN calls, KeyLookedUp(c)
    PROVE  BlocksInv'
<1>1. /\ UNCHANGED ClientKept /\ astray' = astray /\ m_cipherSessions' = m_cipherSessions
      /\ fed' = fed /\ shown' = shown /\ calls[c].answer = "checking"
  BY DEF KeyLookedUp, client, application, ClientKept
<1>2. calls[c].mode = "InitializeCipher"
  BY <1>1 DEF SessionsInv, Pipeline, Accounted
<1>3. NoneReplaced /\ TypedDaemon /\ TypedClient /\ SeenInOrder
  BY <1>1 DEF NoneReplaced, SessionsInv, BlocksInv
<1>4. Answers(c)
  <2>1. CASE events' = events /\ calls' = [calls EXCEPT ![c].answer = "none"]
    <3>1. /\ SameCalls /\ \A d \in DOMAIN calls : d # c => calls'[d] = calls[d]
          /\ calls'[c].answer = "none" /\ calls'[c].reply = calls[c].reply
      BY <1>3, <2>1, CheckingDoes
    <3> QED
      BY <1>2, <3>1 DEF Answers, Unseen, SameCalls
  <2>2. CASE Fails(c, 0)
    <3>1. /\ Heard(c) /\ SameCalls
          /\ \A d \in DOMAIN calls : d # c => calls'[d] = calls[d]
          /\ calls'[c].answer = "Failed"
      BY <1>3, <2>2, ReplyDoes DEF Fails
    <3> QED
      BY <3>1 DEF Answers, Unseen, Heard
  <2> QED
    BY <2>1, <2>2 DEF KeyLookedUp
<1>5. SeenInOrder'
  BY <1>2, <1>3, <1>4, SeenKept
<1> QED
  BY <1>1, <1>2, <1>3, <1>4, <1>5, DaemonBlocks

\* The client gives up waiting for a reply.
LEMMA TimeoutBlocks ==
    ASSUME SessionsInv, SessionsInv', BlocksInv, NEW c \in DOMAIN calls, Timeout(c)
    PROVE  BlocksInv'
<1>1. /\ UNCHANGED ClientKept /\ astray' = astray /\ m_cipherSessions' = m_cipherSessions
      /\ fed' = fed /\ shown' = shown /\ calls[c].reply = "none"
  BY DEF Timeout, client, daemon, application, ClientKept
<1>2. NoneReplaced /\ TypedDaemon /\ TypedClient /\ SeenInOrder
  BY <1>1 DEF NoneReplaced, SessionsInv, BlocksInv
<1>3. /\ SameCalls /\ \A d \in DOMAIN calls : d # c => calls'[d] = calls[d]
      /\ calls'[c].answer = calls[c].answer
  <2>1. /\ calls[c].answer \in {"none", "checking", "Succeeded", "Failed"}
        /\ calls[c].given \in {0} \cup Tokens /\ calls[c].session \in Nat
    BY <1>2, CallFields
  <2>2. PICK a \in {"none", "checking", "Succeeded", "Failed"} : a = calls[c].answer
    BY <2>1
  <2>3. PICK g \in {0} \cup Tokens : g = calls[c].given
    BY <2>1
  <2>4. PICK n \in Nat : n = calls[c].session
    BY <2>1
  <2>5. Received(c, "lost", a, g, n)
    BY <2>2, <2>3, <2>4 DEF Timeout
  <2>6. /\ SameCalls /\ \A d \in DOMAIN calls : d # c => calls'[d] = calls[d]
        /\ calls'[c].answer = a
    BY <1>2, <2>5, ReceivedDoes
  <2> QED
    BY <2>2, <2>6
<1>4. Answers(c)
  BY <1>1, <1>3 DEF Answers, Unseen, SameCalls
<1>5. SeenInOrder'
  BY <1>2, <1>3, <1>4, SeenKept
<1> QED
  BY <1>1, <1>2, <1>3, <1>4, <1>5, DaemonBlocks

\* A job of the thread that succeeded in updating a session.
LEMMA UpdatingBlocks ==
    ASSUME SessionsInv, SessionsInv', BlocksInv, UNCHANGED ClientKept, astray' = astray,
           pool # <<>>, NEW c, c = Head(pool), Answers(c), calls'[c].answer = "Succeeded",
           calls[c].mode = "UpdateCipher", NEW s, s = Session(c), s # 0, NoneReplaced,
           fed' = [fed EXCEPT ![s] = Append(@, c)], shown' = shown
    PROVE  BlocksInv'
<1>1. /\ process' = process /\ misfired' = misfired /\ m_watcherQueue' = m_watcherQueue
      /\ opened' = opened
  BY DEF ClientKept
<1>2. c \in DOMAIN calls /\ c \in Nat /\ calls[c].answer = "none" /\ Unseen(c)
  BY HeadOfPoolIsNext, CallFields DEF SessionsInv, Unseen
<1>3. OpenedIsOwn' /\ AwaitsLast' /\ HoldsLast' /\ UsesLast'
  BY <1>2, DaemonHolds
<1>4. SeenInOrder'
  BY SeenByThread DEF BlocksInv
<1>5. PICK p \in Processes : p = ProcessOf(c)
  BY <1>2, CallFields DEF SessionsInv, TypedClient, ProcessOf
<1>6. /\ calls[c].token \in Tokens /\ s = m_cipherSessions[p][calls[c].token]
      /\ s \in DOMAIN calls /\ ProcessOf(s) = p
  <2>1. calls[c].token \in Tokens /\ s = m_cipherSessions[p][calls[c].token]
    BY <1>5 DEF Session, clientId
  <2> QED
    BY <1>5, <2>1 DEF SessionsInv, Sessions
<1>7. /\ fed \in [1 .. MaxCalls -> Seq(Nat)] /\ shown \in [CipherRequests -> Seq(Nat)]
      /\ s \in 1 .. MaxCalls /\ s <= Len(calls) /\ Len(calls) <= MaxCalls
      /\ Len(calls) \in Nat /\ MaxCalls \in Nat
  <2>1. fed \in [1 .. MaxCalls -> Seq(Nat)] /\ shown \in [CipherRequests -> Seq(Nat)]
        /\ Len(calls) <= MaxCalls
    BY DEF BlocksInv, FedInOrder
  <2>2. DOMAIN calls = 1 .. Len(calls) /\ Len(calls) \in Nat
    BY DEF SessionsInv, TypedDaemon
  <2> QED
    BY <1>6, <2>1, <2>2, SessionsAssumption
<1>8. /\ fed' \in [1 .. MaxCalls -> Seq(Nat)] /\ fed'[s] = Append(fed[s], c)
      /\ \A o \in 1 .. MaxCalls : o # s => fed'[o] = fed[o]
  BY <1>2, <1>7
<1>9. /\ Len(fed[s]) \in Nat /\ DOMAIN fed[s] = 1 .. Len(fed[s])
      /\ DOMAIN fed'[s] = 1 .. Len(fed[s]) + 1 /\ fed'[s][Len(fed[s]) + 1] = c
      /\ Len(fed'[s]) = Len(fed[s]) + 1
      /\ \A k \in DOMAIN fed[s] : fed'[s][k] = fed[s][k]
  <2>1. PICK f : f = fed[s]
    OBVIOUS
  <2>2. PICK g : g = fed'[s]
    OBVIOUS
  <2>3. f \in Seq(Nat) /\ g = Append(f, c)
    BY <1>7, <1>8, <2>1, <2>2
  <2>4. /\ Len(f) \in Nat /\ DOMAIN f = 1 .. Len(f) /\ Len(g) = Len(f) + 1
        /\ DOMAIN g = 1 .. Len(f) + 1 /\ g[Len(f) + 1] = c
        /\ \A k \in DOMAIN f : g[k] = f[k]
    BY <1>2, <2>3, Appended
  <2> QED
    BY <2>1, <2>2, <2>4
<1>10. /\ DOMAIN calls' = DOMAIN calls /\ Len(calls') = Len(calls)
       /\ \A d \in DOMAIN calls :
            /\ calls'[d].request = calls[d].request /\ calls'[d].mode = calls[d].mode
            /\ d # c => calls'[d].answer = calls[d].answer
  BY DEF Answers, SameCalls
<1>11. \A k \in DOMAIN fed[s] :
            /\ fed[s][k] \in DOMAIN calls /\ fed[s][k] \in Nat /\ fed[s][k] < c
            /\ calls[fed[s][k]].mode = "UpdateCipher" /\ calls[fed[s][k]].answer = "Succeeded"
  <2> SUFFICES ASSUME NEW k \in DOMAIN fed[s], NEW d, d = fed[s][k]
               PROVE  /\ d \in DOMAIN calls /\ d \in Nat /\ d < c
                      /\ calls[d].mode = "UpdateCipher" /\ calls[d].answer = "Succeeded"
    OBVIOUS
  <2>1. d \in DOMAIN calls /\ calls[d].mode = "UpdateCipher" /\ calls[d].answer = "Succeeded"
    BY <1>7 DEF BlocksInv, FedInOrder
  <2>2. d \in Nat
    BY <2>1, CallFields DEF SessionsInv
  <2>3. ~(c < d)
    BY <1>2, <2>1 DEF BlocksInv, SeenInOrder
  <2>4. d # c
    BY <1>2, <2>1
  <2> QED
    BY <1>2, <2>1, <2>2, <2>3, <2>4
<1>12. FedInOrder'
  <2>1. ASSUME NEW o \in 1 .. MaxCalls
        PROVE  /\ o > Len(calls) => fed'[o] = <<>>
               /\ \A k \in DOMAIN fed'[o] : /\ fed'[o][k] \in DOMAIN calls
                                            /\ calls[fed'[o][k]].mode = "UpdateCipher"
                                            /\ calls'[fed'[o][k]].answer = "Succeeded"
               /\ \A k, l \in DOMAIN fed'[o] : k < l => fed'[o][k] < fed'[o][l]
    <3>1. CASE o # s
      <4>1. /\ o > Len(calls) => fed[o] = <<>>
            /\ \A k \in DOMAIN fed[o] : /\ fed[o][k] \in DOMAIN calls
                                        /\ calls[fed[o][k]].mode = "UpdateCipher"
                                        /\ calls[fed[o][k]].answer = "Succeeded"
            /\ \A k, l \in DOMAIN fed[o] : k < l => fed[o][k] < fed[o][l]
        BY DEF BlocksInv, FedInOrder
      <4>2. fed'[o] = fed[o]
        BY <1>8, <3>1
      <4>3. \A k \in DOMAIN fed[o] : calls'[fed[o][k]].answer = "Succeeded"
        BY <1>2, <1>10, <4>1
      <4> QED
        BY <4>1, <4>2, <4>3
    <3>2. CASE o = s
      <4>1. ~(o > Len(calls))
        BY <1>7, <3>2
      <4>2. \A k \in DOMAIN fed'[s] : k \in DOMAIN fed[s] \/ k = Len(fed[s]) + 1
        BY <1>9
      <4>3. \A k \in DOMAIN fed'[s] : /\ fed'[s][k] \in DOMAIN calls
                                      /\ calls[fed'[s][k]].mode = "UpdateCipher"
                                      /\ calls'[fed'[s][k]].answer = "Succeeded"
        BY <1>2, <1>9, <1>10, <1>11, <4>2, SMTT(30)
      <4>4. \A k, l \in DOMAIN fed[s] : k < l => fed[s][k] < fed[s][l]
        BY <1>7 DEF BlocksInv, FedInOrder
      <4>5. ASSUME NEW k \in DOMAIN fed'[s], NEW l \in DOMAIN fed'[s], k < l
            PROVE  fed'[s][k] < fed'[s][l]
        <5>1. k \in DOMAIN fed[s]
          BY <1>9, <4>5
        <5>2. CASE l \in DOMAIN fed[s]
          BY <1>9, <4>4, <4>5, <5>1, <5>2
        <5>3. CASE l = Len(fed[s]) + 1
          BY <1>9, <1>11, <5>1, <5>3
        <5> QED
          BY <4>2, <5>2, <5>3
      <4> QED
        BY <3>2, <4>1, <4>3, <4>5
    <3> QED
      BY <3>1, <3>2
  <2>2. \A o \in 1 .. MaxCalls :
            /\ o > Len(calls') => fed'[o] = <<>>
            /\ \A k \in DOMAIN fed'[o] : /\ fed'[o][k] \in DOMAIN calls'
                                         /\ calls'[fed'[o][k]].mode = "UpdateCipher"
                                         /\ calls'[fed'[o][k]].answer = "Succeeded"
            /\ \A k, l \in DOMAIN fed'[o] : k < l => fed'[o][k] < fed'[o][l]
    BY <1>10, <2>1
  <2>3. Len(calls') <= MaxCalls /\ shown' \in [CipherRequests -> Seq(Nat)]
    BY <1>7, <1>10
  <2> QED
    BY <1>8, <2>2, <2>3 DEF FedInOrder
<1>13. ShownInOrder'
  <2> SUFFICES ASSUME NEW r \in CipherRequests, Ordered(r)'
               PROVE  ShownFirst(r)' /\ OthersAwaited(r)' /\ AwaitedAreFed(r)'
    BY DEF ShownInOrder
  <2>1. PICK o : o = opened[r]
    OBVIOUS
  <2>2. opened'[r] = o
    BY <1>1, <2>1
  <2>3. Ordered(r)
    BY <1>1, <1>2, <2>1, <2>2, LostBefore DEF Ordered, Undisturbed
  <2>4. o # 0 /\ Calm(process[r]) /\ ~LostReply(r)
    BY <2>1, <2>3 DEF Ordered, Undisturbed, Calm
  <2>5. /\ Len(shown[r]) <= Len(fed[o]) /\ \A k \in DOMAIN shown[r] : shown[r][k] = fed[o][k]
        /\ \A k \in DOMAIN fed[o] : k > Len(shown[r]) =>
              \E i \in DOMAIN m_watcherQueue[r] : m_watcherQueue[r][i] = fed[o][k]
        /\ \A i \in DOMAIN m_watcherQueue[r] :
              /\ calls[m_watcherQueue[r][i]].mode = "UpdateCipher"
              /\ calls[m_watcherQueue[r][i]].answer = "Succeeded"
              => \E k \in DOMAIN fed[o] : k > Len(shown[r]) /\ fed[o][k] = m_watcherQueue[r][i]
    BY <2>1, <2>3 DEF BlocksInv, ShownInOrder, ShownFirst, OthersAwaited, AwaitedAreFed
  <2>6. o \in DOMAIN calls /\ calls[o].request = r /\ o \in 1 .. MaxCalls
    <3>1. o \in DOMAIN calls /\ calls[o].request = r
      BY <2>1, <2>4, OpenedIsCall DEF BlocksInv
    <3> QED
      BY <1>7, <3>1, SMTT(30) DEF SessionsInv, TypedDaemon
  <2>7. Len(shown[r]) \in Nat /\ DOMAIN shown[r] = 1 .. Len(shown[r])
    BY <1>7
  <2>8. \A i \in DOMAIN m_watcherQueue[r] : m_watcherQueue[r][i] \in DOMAIN calls
                                            /\ calls[m_watcherQueue[r][i]].request = r
    BY DEF SessionsInv, Waiting
  <2>9. CASE o = s
    <3>1. process[r] = p /\ Calm(p)
      BY <1>6, <2>4, <2>6, <2>9 DEF ProcessOf
    <3>2. calls[c].request = r
      BY <1>2, <1>5, <1>6, <2>6, <2>9, <3>1 DEF SessionsInv, TokensInForce
    <3>5. PICK i \in DOMAIN m_watcherQueue[r] : m_watcherQueue[r][i] = c
      <4>1. /\ Unseen(c) /\ Calm(ProcessOf(c)) /\ ~LostReply(calls[c].request)
            /\ m_cipherSessions[ProcessOf(c)][calls[c].token] = opened[calls[c].request]
        BY <1>2, <1>5, <1>6, <2>1, <2>4, <2>9, <3>1, <3>2
      <4>2. UsesLast
        BY DEF BlocksInv
      <4>3. \E i \in DOMAIN m_watcherQueue[calls[c].request] :
                m_watcherQueue[calls[c].request][i] = c
        BY ONLY <1>2, <4>1, <4>2 DEF UsesLast
      <4> QED
        BY ONLY <3>2, <4>3
    <3>6. ShownFirst(r)'
      <4>1. Len(shown[r]) <= Len(fed'[o])
        BY <1>9, <2>5, <2>7, <2>9
      <4>2. \A k \in DOMAIN shown[r] : k \in DOMAIN fed[o]
        BY <1>9, <2>5, <2>7, <2>9
      <4> QED
        BY <1>9, <2>2, <2>5, <2>9, <4>1, <4>2 DEF ShownFirst
    <3>7. OthersAwaited(r)'
      <4>1. \A k \in DOMAIN fed'[s] : k \in DOMAIN fed[s] \/ fed'[s][k] = c
        BY <1>9
      <4> QED
        BY <1>1, <1>9, <2>2, <2>5, <2>9, <3>5, <4>1 DEF OthersAwaited
    <3>8. AwaitedAreFed(r)'
      <4>1. Len(fed[s]) + 1 \in DOMAIN fed'[s] /\ Len(fed[s]) + 1 > Len(shown[r])
        BY <1>9, <2>5, <2>7, <2>9
      <4>2. \A k \in DOMAIN fed[s] : k \in DOMAIN fed'[s]
        BY <1>9
      <4>3. ASSUME NEW j \in DOMAIN m_watcherQueue[r],
                   calls'[m_watcherQueue[r][j]].mode = "UpdateCipher",
                   calls'[m_watcherQueue[r][j]].answer = "Succeeded"
            PROVE  \E k \in DOMAIN fed'[s] :
                        k > Len(shown[r]) /\ fed'[s][k] = m_watcherQueue[r][j]
        <5>1. CASE m_watcherQueue[r][j] = c
          BY <1>9, <4>1, <5>1
        <5>2. CASE m_watcherQueue[r][j] # c
          <6>1. /\ calls[m_watcherQueue[r][j]].mode = "UpdateCipher"
                /\ calls[m_watcherQueue[r][j]].answer = "Succeeded"
            BY <1>10, <2>8, <4>3, <5>2
          <6>2. PICK k \in DOMAIN fed[s] : k > Len(shown[r])
                                           /\ fed[s][k] = m_watcherQueue[r][j]
            BY <2>5, <2>9, <6>1
          <6> QED
            BY <1>9, <4>2, <6>2
        <5> QED
          BY <5>1, <5>2
      <4> QED
        BY <1>1, <2>2, <2>9, <4>3 DEF AwaitedAreFed
    <3> QED
      BY <3>6, <3>7, <3>8
  <2>10. CASE o # s
    <3>1. fed'[o] = fed[o]
      BY <1>8, <2>6, <2>10
    <3>3. \A i \in DOMAIN m_watcherQueue[r] : m_watcherQueue[r][i] # c
      <4>1. ASSUME NEW i \in DOMAIN m_watcherQueue[r], m_watcherQueue[r][i] = c PROVE FALSE
        <5>1. calls[c].request = r
          BY <2>8, <4>1
        <5>2. Calm(p)
          BY <1>5, <2>4, <5>1 DEF ProcessOf
        <5>3. s = opened[r]
          BY <1>2, <1>5, <1>6, <2>4, <4>1, <5>1, <5>2 DEF BlocksInv, UsesLast
        <5> QED
          BY <2>1, <2>10, <5>3
      <4> QED
        BY <4>1
    <3>4. ShownFirst(r)'
      BY <2>2, <2>5, <3>1 DEF ShownFirst
    <3>5. OthersAwaited(r)'
      <4>1. \A k \in DOMAIN fed[o] : k > Len(shown[r]) =>
                \E i \in DOMAIN m_watcherQueue[r] : m_watcherQueue[r][i] = fed[o][k]
        BY <2>5
      <4> QED
        BY ONLY <1>1, <2>2, <3>1, <4>1, shown' = shown DEF OthersAwaited
    <3>6. AwaitedAreFed(r)'
      <4>1. \A i \in DOMAIN m_watcherQueue[r] :
                /\ calls'[m_watcherQueue[r][i]].mode = calls[m_watcherQueue[r][i]].mode
                /\ calls'[m_watcherQueue[r][i]].answer = calls[m_watcherQueue[r][i]].answer
        BY <1>10, <2>8, <3>3
      <4> QED
        BY <1>1, <2>2, <2>5, <3>1, <4>1 DEF AwaitedAreFed
    <3> QED
      BY <3>4, <3>5, <3>6
  <2> QED
    BY <2>9, <2>10
<1> QED
  BY <1>3, <1>4, <1>12, <1>13 DEF BlocksInv

\* The thread answers the first call of the pool, and feeds no session.
LEMMA JobBlocks ==
    ASSUME SessionsInv, SessionsInv', BlocksInv, UNCHANGED ClientKept, astray \subseteq astray',
           pool # <<>>, NEW c, c = Head(pool), Answers(c), calls'[c].answer # "none",
           calls[c].mode = "UpdateCipher" => calls'[c].answer # "Succeeded",
           NoneReplaced, fed' = fed, shown' = shown
    PROVE  BlocksInv'
<1>1. c \in DOMAIN calls /\ calls[c].answer = "none" /\ TypedDaemon /\ SeenInOrder
  BY HeadOfPoolIsNext DEF SessionsInv, BlocksInv
<1>2. SeenInOrder'
  BY <1>1, SeenKept, SeenByThread
<1> QED
  BY <1>1, <1>2, DaemonBlocks

\* The thread runs a job.
LEMMA RunJobBlocks ==
    ASSUME SessionsInv, SessionsInv', BlocksInv, RunJob
    PROVE  BlocksInv'
<1>1. PICK c : c = Head(pool)
  OBVIOUS
<1>2. /\ UNCHANGED ClientKept /\ shown' = shown /\ pool # <<>> /\ Operation(c)
  BY <1>1 DEF RunJob, client, application, ClientKept
<1>3. /\ c \in DOMAIN calls /\ calls[c].answer = "none" /\ c \in Nat
      /\ calls[c].token \in {0} \cup Tokens /\ TypedClient /\ TypedDaemon
  BY <1>1, <1>2, HeadOfPoolIsNext, CallFields DEF SessionsInv
<1>4. ProcessOf(c) \in Processes /\ Session(c) \in Nat
  <2>1. ProcessOf(c) \in Processes
    BY <1>3, CallFields DEF ProcessOf, TypedClient
  <2> QED
    BY <1>3, <2>1 DEF Session, clientId, TypedDaemon
<1>5. PICK s \in Nat : s = Session(c)
  BY <1>4
<1>6. ASSUME NEW a \in {"Succeeded", "Failed"}, NEW g \in {0} \cup Tokens, NEW n \in Nat,
             NEW types, Reply(c, a, g, n, types)
      PROVE  Answers(c) /\ calls'[c].answer = a
  <2>1. /\ Heard(c) /\ SameCalls /\ \A d \in DOMAIN calls : d # c => calls'[d] = calls[d]
        /\ calls'[c].answer = a
    BY <1>3, <1>6, ReplyDoes
  <2> QED
    BY <2>1 DEF Answers, Unseen, Heard
<1>7. ASSUME NEW a \in {"Succeeded", "Failed"}, NEW n \in Nat, NEW types,
             Reply(c, a, 0, n, types)
      PROVE  Answers(c) /\ calls'[c].answer = a
  <2>1. PICK g \in {0} \cup Tokens : g = 0
    OBVIOUS
  <2>2. Reply(c, a, g, n, types)
    BY <1>7, <2>1
  <2> QED
    BY <1>6, <2>2
<1>8. CASE initializeCipherSession(c)
  <2>1. calls[c].mode = "InitializeCipher" /\ astray' = astray /\ fed' = fed
    BY <1>8 DEF initializeCipherSession
  <2>2. CASE \E t \in getNextCipherSessionToken(ProcessOf(c)) :
                /\ m_cipherSessions' = [m_cipherSessions EXCEPT ![ProcessOf(c)][t] = c]
                /\ Reply(c, "Succeeded", t, c, FinishedTypes(c))
    <3>1. PICK t \in getNextCipherSessionToken(ProcessOf(c)) :
                /\ m_cipherSessions' = [m_cipherSessions EXCEPT ![ProcessOf(c)][t] = c]
                /\ Reply(c, "Succeeded", t, c, FinishedTypes(c))
      BY <2>2
    <3>2. t \in Tokens /\ m_cipherSessions[ProcessOf(c)][t] = 0
      BY DEF getNextCipherSessionToken
    <3>3. NoneReplaced
      BY <1>3, <1>4, <3>1, <3>2 DEF NoneReplaced, TypedDaemon
    <3>4. Answers(c) /\ calls'[c].answer = "Succeeded"
      BY <1>3, <1>6, <3>1, <3>2
    <3> QED
      BY <1>1, <1>2, <2>1, <3>3, <3>4, JobBlocks
  <2>3. CASE Reply(c, "Failed", 0, 0, FinishedTypes(c)) /\ m_cipherSessions' = m_cipherSessions
    <3>1. Answers(c) /\ calls'[c].answer = "Failed" /\ NoneReplaced
      BY <1>7, <2>3 DEF NoneReplaced
    <3> QED
      BY <1>1, <1>2, <2>1, <3>1, JobBlocks
  <2> QED
    BY <1>8, <2>2, <2>3 DEF initializeCipherSession, Fails, clientId
<1>9. CASE UnknownSession(c)
  <2>1. /\ Reply(c, "Failed", 0, 0, FinishedTypes(c)) /\ fed' = fed
        /\ m_cipherSessions' = m_cipherSessions /\ astray' = astray
    BY <1>9 DEF UnknownSession
  <2>2. Answers(c) /\ calls'[c].answer = "Failed" /\ NoneReplaced
    BY <1>7, <2>1 DEF NoneReplaced
  <2> QED
    BY <1>1, <1>2, <2>1, <2>2, JobBlocks
<1>10. CASE updateCipherSession(c)
  <2>1. /\ calls[c].mode = "UpdateCipher" /\ s # 0
        /\ m_cipherSessions' = m_cipherSessions /\ astray' = astray
        /\ \/ /\ Reply(c, "Succeeded", 0, s, FinishedTypes(c))
              /\ fed' = [fed EXCEPT ![s] = Append(@, c)]
           \/ Reply(c, "Failed", 0, s, FinishedTypes(c)) /\ fed' = fed
    BY <1>5, <1>10 DEF updateCipherSession, Fails
  <2>2. NoneReplaced
    BY <2>1 DEF NoneReplaced
  <2>3. CASE /\ Reply(c, "Succeeded", 0, s, FinishedTypes(c))
             /\ fed' = [fed EXCEPT ![s] = Append(@, c)]
    <3>1. Answers(c) /\ calls'[c].answer = "Succeeded"
      BY <1>7, <2>3
    <3> QED
      BY <1>1, <1>2, <1>5, <2>1, <2>2, <2>3, <3>1, UpdatingBlocks
  <2>4. CASE Reply(c, "Failed", 0, s, FinishedTypes(c)) /\ fed' = fed
    <3>1. Answers(c) /\ calls'[c].answer = "Failed"
      BY <1>7, <2>4
    <3> QED
      BY <1>1, <1>2, <2>1, <2>2, <2>4, <3>1, JobBlocks
  <2> QED
    BY <2>1, <2>3, <2>4
<1>11. CASE updateCipherSessionAuthentication(c)
  <2>1. /\ calls[c].mode = "UpdateCipherAuthentication" /\ fed' = fed
        /\ m_cipherSessions' = m_cipherSessions /\ astray' = astray
        /\ \E a \in {"Succeeded", "Failed"} : Reply(c, a, 0, s, FinishedTypes(c))
    BY <1>5, <1>11 DEF updateCipherSessionAuthentication, Fails
  <2>2. Answers(c) /\ calls'[c].answer # "none" /\ NoneReplaced
    BY <1>7, <2>1 DEF NoneReplaced
  <2> QED
    BY <1>1, <1>2, <2>1, <2>2, JobBlocks
<1>12. CASE finalizeCipherSession(c)
  <2>1. /\ calls[c].mode = "FinalizeCipher" /\ fed' = fed
        /\ m_cipherSessions' = [m_cipherSessions EXCEPT ![ProcessOf(c)][calls[c].token] = 0]
        /\ astray \subseteq astray'
        /\ \E a \in {"Succeeded", "Failed"} : Reply(c, a, 0, s, FinishedTypes(c))
    BY <1>5, <1>12 DEF finalizeCipherSession, Fails, clientId
  <2>2. Answers(c) /\ calls'[c].answer # "none"
    BY <1>7, <2>1
  <2>3. NoneReplaced
    BY <1>3, <1>4, <2>1 DEF NoneReplaced, TypedDaemon
  <2> QED
    BY <1>1, <1>2, <2>1, <2>2, <2>3, JobBlocks
<1> QED
  BY <1>2, <1>8, <1>9, <1>10, <1>11, <1>12 DEF Operation
-----------------------------------------------------------------------------
(* The steps of the application keep the order of the blocks. *)

\* Request r has made the call with the number n.
Called(r, n) ==
    /\ DOMAIN calls' = DOMAIN calls \cup {n} /\ n \notin DOMAIN calls /\ n \in Nat
    /\ Len(calls') = n
    /\ \A d \in DOMAIN calls : /\ calls'[d] = calls[d] /\ d < n
                               /\ Unseen(d)' <=> Unseen(d)
                               /\ ProcessOf(d)' = ProcessOf(d)
    /\ ProcessOf(n)' = process[r]
    /\ calls'[n].request = r /\ calls'[n].mode = m_cipherMode[r]
    /\ calls'[n].token = m_cipherSessionToken'[r]
    /\ calls'[n].answer = "none" /\ calls'[n].reply = "none"

\* ... which is what it means to send one.
LEMMA SendingCalls ==
    ASSUME TypedClient, TypedDaemon, NEW r \in CipherRequests, Sending(r),
           m_cipherSessionToken'[r] \in {0} \cup Tokens, process' = process,
           NEW n, n = Len(calls) + 1
    PROVE  Called(r, n)
<1>0. /\ Len(calls) \in Nat /\ DOMAIN calls = 1 .. Len(calls)
      /\ DOMAIN calls' = 1 .. Len(calls) + 1
      /\ \A d \in DOMAIN calls : calls'[d] = calls[d]
      /\ calls'[n].request = r /\ calls'[n].mode = m_cipherMode[r]
      /\ calls'[n].token = m_cipherSessionToken'[r]
      /\ calls'[n].answer = "none" /\ calls'[n].reply = "none"
  <2>1. Len(calls) \in Nat
    BY DEF TypedDaemon
  <2> QED
    BY <2>1, SendingDoes
<1>1. /\ DOMAIN calls' = DOMAIN calls \cup {n} /\ n \notin DOMAIN calls /\ n \in Nat
      /\ \A d \in DOMAIN calls : calls'[d] = calls[d] /\ d < n
      /\ ProcessOf(n)' = process[r]
      /\ calls'[n].request = r /\ calls'[n].mode = m_cipherMode[r]
      /\ calls'[n].token = m_cipherSessionToken'[r]
      /\ calls'[n].answer = "none" /\ calls'[n].reply = "none"
  <2>1. /\ DOMAIN calls' = DOMAIN calls \cup {n} /\ n \notin DOMAIN calls /\ n \in Nat
        /\ \A d \in DOMAIN calls : d < n
    BY <1>0
  <2>2. ProcessOf(n)' = process[r]
    BY <1>0 DEF ProcessOf
  <2> QED
    BY <1>0, <2>1, <2>2
<1>2. Len(calls') = n
  BY SendingDoes
<1>3. \A d \in DOMAIN calls : (Unseen(d)' <=> Unseen(d)) /\ ProcessOf(d)' = ProcessOf(d)
  BY <1>1 DEF Unseen, ProcessOf
<1> QED
  BY <1>1, <1>2, <1>3 DEF Called


\* A call without a reply has not lost it.
LEMMA SendingLoses ==
    ASSUME NEW r, NEW n, Called(r, n), NEW q
    PROVE  LostReply(q)' <=> LostReply(q)
BY DEF Called, LostReply

\* A step that changes none of the variables the order of the blocks is about.
LEMMA NothingBlocks ==
    ASSUME BlocksInv, process' = process, calls' = calls, astray' = astray,
           misfired \subseteq misfired', m_cipherSessions' = m_cipherSessions, fed' = fed,
           shown' = shown, opened' = opened, m_watcherQueue' = m_watcherQueue,
           m_cipherSessionToken' = m_cipherSessionToken
    PROVE  BlocksInv'
<1>1. /\ \A q : (LostReply(q)' <=> LostReply(q)) /\ (Finalizing(q)' <=> Finalizing(q))
      /\ \A d : (Unseen(d)' <=> Unseen(d)) /\ ProcessOf(d)' = ProcessOf(d)
      /\ \A p : Calm(p)' => Calm(p)
  BY DEF LostReply, Unseen, ProcessOf, Calm, Finalizing
<1>2. OpenedIsOwn' /\ SeenInOrder' /\ AwaitsLast'
  BY <1>1 DEF BlocksInv, OpenedIsOwn, SeenInOrder, AwaitsLast
<1>3. HoldsLast' /\ FedInOrder'
  BY <1>1 DEF BlocksInv, HoldsLast, FedInOrder
<1>4. UsesLast'
  BY <1>1 DEF BlocksInv, UsesLast
<1>5. ShownInOrder'
  <2> SUFFICES ASSUME NEW r \in CipherRequests, Ordered(r)'
               PROVE  ShownFirst(r)' /\ OthersAwaited(r)' /\ AwaitedAreFed(r)'
    BY DEF ShownInOrder
  <2>1. Ordered(r)
    BY <1>1 DEF Ordered, Undisturbed
  <2>2. ShownFirst(r) /\ OthersAwaited(r) /\ AwaitedAreFed(r)
    BY <2>1 DEF BlocksInv, ShownInOrder
  <2> QED
    BY <2>2 DEF ShownFirst, OthersAwaited, AwaitedAreFed
<1> QED
  BY <1>2, <1>3, <1>4, <1>5 DEF BlocksInv

\* Requests other than r, and sessions fed, when r sends a call.
LEMMA SendingBlocks ==
    ASSUME SessionsInv, BlocksInv, NEW r \in CipherRequests, Sending(r),
           m_cipherSessionToken'[r] \in {0} \cup Tokens, process' = process,
           fed' = fed, shown' \in [CipherRequests -> Seq(Nat)], Len(calls) < MaxCalls,
           astray \subseteq astray', misfired' = misfired,
           NEW n, n = Len(calls) + 1,
           \A q \in CipherRequests : q # r =>
                /\ m_watcherQueue'[q] = m_watcherQueue[q] /\ shown'[q] = shown[q]
                /\ opened'[q] = opened[q],
           NEW q \in CipherRequests
    PROVE  /\ SeenInOrder' /\ FedInOrder' /\ n \in 1 .. MaxCalls /\ fed[n] = <<>>
           /\ q # r /\ Ordered(q)' => ShownFirst(q)' /\ OthersAwaited(q)' /\ AwaitedAreFed(q)'
<1>1. /\ DOMAIN calls' = DOMAIN calls \cup {n} /\ n \notin DOMAIN calls /\ n \in Nat
      /\ \A d \in DOMAIN calls : calls'[d] = calls[d] /\ d < n /\ (Unseen(d)' <=> Unseen(d))
      /\ calls'[n].request = r /\ calls'[n].answer = "none"
      /\ calls'[n].mode = m_cipherMode[r]
  BY SendingCalls DEF SessionsInv, Called
<1>2. /\ \A d \in DOMAIN calls : d \in Nat
      /\ Len(calls) \in Nat /\ MaxCalls \in Nat /\ DOMAIN calls = 1 .. Len(calls)
  BY CallFields, SessionsAssumption DEF SessionsInv, TypedDaemon
<1>3. Len(calls') = Len(calls) + 1 /\ Len(calls) + 1 <= MaxCalls /\ n \in 1 .. MaxCalls
  <2>1. Len(calls') = Len(calls) + 1
    BY SendingDoes DEF SessionsInv
  <2> QED
    BY <1>2, <2>1
<1>4. SeenInOrder'
  <2> SUFFICES ASSUME NEW b \in DOMAIN calls', NEW d \in DOMAIN calls', Unseen(b)', b < d,
                      calls'[d].mode # "InitializeCipher"
               PROVE  calls'[d].answer # "Succeeded"
    BY DEF SeenInOrder
  <2>1. CASE d = n
    BY <1>1, <2>1
  <2>2. CASE d \in DOMAIN calls
    <3>1. b \in DOMAIN calls
      BY <1>1, <1>2, <2>2
    <3> QED
      BY <1>1, <2>2, <3>1 DEF BlocksInv, SeenInOrder
  <2> QED
    BY <1>1, <2>1, <2>2
<1>5. FedInOrder /\ fed[n] = <<>>
  BY <1>2, <1>3 DEF BlocksInv, FedInOrder
<1>6. FedInOrder'
  <2>1. \A s \in 1 .. MaxCalls :
        /\ s > Len(calls') => fed[s] = <<>>
        /\ \A k \in DOMAIN fed[s] : /\ fed[s][k] \in DOMAIN calls'
                                    /\ calls'[fed[s][k]].mode = "UpdateCipher"
                                    /\ calls'[fed[s][k]].answer = "Succeeded"
        /\ \A k, l \in DOMAIN fed[s] : k < l => fed[s][k] < fed[s][l]
    <3> SUFFICES ASSUME NEW s \in 1 .. MaxCalls
                 PROVE  /\ s > Len(calls') => fed[s] = <<>>
                        /\ \A k \in DOMAIN fed[s] : /\ fed[s][k] \in DOMAIN calls'
                                                    /\ calls'[fed[s][k]].mode = "UpdateCipher"
                                                    /\ calls'[fed[s][k]].answer = "Succeeded"
                        /\ \A k, l \in DOMAIN fed[s] : k < l => fed[s][k] < fed[s][l]
      OBVIOUS
    <3>1. /\ s > Len(calls) => fed[s] = <<>>
          /\ \A k \in DOMAIN fed[s] : /\ fed[s][k] \in DOMAIN calls
                                      /\ calls[fed[s][k]].mode = "UpdateCipher"
                                      /\ calls[fed[s][k]].answer = "Succeeded"
          /\ \A k, l \in DOMAIN fed[s] : k < l => fed[s][k] < fed[s][l]
      BY <1>5 DEF FedInOrder
    <3>2. s > Len(calls') => s > Len(calls)
      BY <1>2, <1>3
    <3> QED
      BY <1>1, <3>1, <3>2
  <2> QED
    BY <1>3, <1>5, <2>1 DEF FedInOrder
<1>7. ASSUME q # r, Ordered(q)'
      PROVE  ShownFirst(q)' /\ OthersAwaited(q)' /\ AwaitedAreFed(q)'
  <2>1. opened'[q] = opened[q] /\ (LostReply(q)' <=> LostReply(q))
    <3>1. Called(r, n)
      BY SendingCalls DEF SessionsInv
    <3> QED
      BY <1>7, <3>1, SendingLoses
  <2>2. Ordered(q)
    BY <1>7, <2>1 DEF Ordered, Undisturbed
  <2>3. ShownFirst(q) /\ OthersAwaited(q) /\ AwaitedAreFed(q)
    BY <2>2 DEF BlocksInv, ShownInOrder
  <2>4. m_watcherQueue'[q] = m_watcherQueue[q] /\ shown'[q] = shown[q]
    BY <1>7
  <2>5. ShownFirst(q)' /\ OthersAwaited(q)'
    BY <2>1, <2>3, <2>4 DEF ShownFirst, OthersAwaited
  <2>6. AwaitedAreFed(q)'
    <3>1. \A i \in DOMAIN m_watcherQueue[q] : m_watcherQueue[q][i] \in DOMAIN calls
      BY DEF SessionsInv, Waiting
    <3> QED
      BY <1>1, <2>1, <2>3, <2>4, <3>1 DEF AwaitedAreFed
  <2> QED
    BY <2>5, <2>6
<1> QED
  BY <1>3, <1>4, <1>5, <1>6, <1>7

\* startRequest in mode InitializeCipher, when the call is sent: a new session,
\* which nothing was fed to.
LEMMA InitializedBlocks ==
    ASSUME SessionsInv, BlocksInv, NEW r \in CipherRequests, StartInitialize(r), Sending(r),
           Len(calls) < MaxCalls,
           m_watcherQueue' = [m_watcherQueue EXCEPT ![r] = <<Len(calls')>>],
           opened' = [opened EXCEPT ![r] = Len(calls')]
    PROVE  BlocksInv'
<1>1. PICK n : n = Len(calls) + 1
  OBVIOUS
<1>2. /\ process' = process /\ m_cipherSessions' = m_cipherSessions
      /\ misfired' = misfired /\ astray' = astray /\ fed' = fed
      /\ m_cipherMode[r] = "InitializeCipher" /\ shown' = [shown EXCEPT ![r] = <<>>]
      /\ m_cipherSessionToken' = [m_cipherSessionToken EXCEPT ![r] = 0]
  BY DEF StartInitialize
<1>3. TypedClient /\ TypedDaemon /\ Waiting /\ OpenedIsOwn
  BY DEF SessionsInv, BlocksInv
<1>4. /\ m_cipherSessionToken'[r] = 0 /\ m_cipherSessionToken'[r] \in {0} \cup Tokens
      /\ \A q \in CipherRequests : q # r => m_cipherSessionToken'[q] = m_cipherSessionToken[q]
  BY <1>2, <1>3 DEF TypedClient
<1>5. Called(r, n)
  BY <1>1, <1>2, <1>3, <1>4, SendingCalls
<1>6. /\ DOMAIN calls' = DOMAIN calls \cup {n} /\ n \notin DOMAIN calls /\ n \in Nat
      /\ \A d \in DOMAIN calls : /\ calls'[d] = calls[d] /\ d < n
                                 /\ Unseen(d)' <=> Unseen(d)
                                 /\ ProcessOf(d)' = ProcessOf(d)
      /\ calls'[n].request = r /\ calls'[n].answer = "none"
      /\ calls'[n].mode = "InitializeCipher" /\ Len(calls') = n
  BY <1>2, <1>5 DEF Called
<1>7. \A q : LostReply(q)' <=> LostReply(q)
  BY <1>5, SendingLoses
<1>8. /\ opened' \in [CipherRequests -> Nat] /\ opened'[r] = n
      /\ \A q \in CipherRequests : q # r => opened'[q] = opened[q]
  BY <1>3, <1>6 DEF OpenedIsOwn
<1>9. /\ shown' \in [CipherRequests -> Seq(Nat)] /\ shown'[r] = <<>>
      /\ \A q \in CipherRequests : q # r => shown'[q] = shown[q]
  BY <1>2 DEF BlocksInv, FedInOrder
<1>10. /\ m_watcherQueue'[r] = <<n>>
       /\ \A q \in CipherRequests : q # r => m_watcherQueue'[q] = m_watcherQueue[q]
  BY <1>3, <1>6 DEF TypedClient
<1>11. \A i \in DOMAIN m_watcherQueue'[r] : m_watcherQueue'[r][i] = n
  BY <1>10
<1>12. /\ SeenInOrder' /\ FedInOrder' /\ fed[n] = <<>>
       /\ \A q \in CipherRequests : q # r /\ Ordered(q)' =>
            ShownFirst(q)' /\ OthersAwaited(q)' /\ AwaitedAreFed(q)'
  BY <1>1, <1>2, <1>4, <1>8, <1>9, <1>10, SendingBlocks
<1>13. OpenedIsOwn'
  <2> SUFFICES ASSUME NEW q \in CipherRequests, opened'[q] # 0
               PROVE  opened'[q] \in DOMAIN calls' /\ calls'[opened'[q]].request = q
    BY <1>8 DEF OpenedIsOwn
  <2>1. CASE q = r
    BY <1>6, <1>8, <2>1
  <2>2. CASE q # r
    BY <1>3, <1>6, <1>8, <2>2 DEF OpenedIsOwn
  <2> QED
    BY <2>1, <2>2
<1>14. AwaitsLast'
  <2> SUFFICES ASSUME NEW q \in CipherRequests, NEW i \in DOMAIN m_watcherQueue'[q],
                      calls'[m_watcherQueue'[q][i]].mode = "InitializeCipher"
               PROVE  m_watcherQueue'[q][i] = opened'[q]
    BY DEF AwaitsLast
  <2>1. CASE q = r
    BY <1>8, <1>11, <2>1
  <2>2. CASE q # r
    BY <1>3, <1>6, <1>8, <1>10, <2>2 DEF Waiting, BlocksInv, AwaitsLast
  <2> QED
    BY <2>1, <2>2
<1>15. \A p : Calm(p)' => Calm(p)
  BY <1>2, CalmBefore
<1>16. HoldsLast'
  <2> SUFFICES ASSUME NEW q \in CipherRequests, q # r, m_cipherSessionToken[q] # 0,
                      Calm(process[q])', ~Finalizing(q)'
               PROVE  m_cipherSessions[process[q]][m_cipherSessionToken[q]] = opened[q]
    BY <1>2, <1>4, <1>8 DEF HoldsLast
  <2>1. ~Finalizing(q)
    BY <1>3, <1>6, <1>10 DEF Finalizing, Waiting
  <2> QED
    BY <1>2, <1>15, <2>1 DEF BlocksInv, HoldsLast
<1>17. UsesLast'
  <2> SUFFICES ASSUME NEW d \in DOMAIN calls', Unseen(d)', Calm(ProcessOf(d))',
                      ~LostReply(calls[d].request)'
               PROVE  m_cipherSessions[ProcessOf(d)'][calls'[d].token] = opened'[calls'[d].request]
                        <=> \E i \in DOMAIN m_watcherQueue'[calls'[d].request] :
                                m_watcherQueue'[calls'[d].request][i] = d
    BY <1>2 DEF UsesLast
  <2>1. d \in DOMAIN calls /\ calls'[d] = calls[d] /\ Unseen(d) /\ ProcessOf(d)' = ProcessOf(d)
    BY <1>6 DEF Unseen
  <2>2. /\ Calm(ProcessOf(d)) /\ ~LostReply(calls[d].request)
        /\ calls[d].request \in CipherRequests /\ d # n
    BY <1>3, <1>6, <1>7, <1>15, <2>1, CallFields
  <2>3. m_cipherSessions[ProcessOf(d)][calls[d].token] = opened[calls[d].request]
            <=> \E i \in DOMAIN m_watcherQueue[calls[d].request] :
                    m_watcherQueue[calls[d].request][i] = d
    BY <2>1, <2>2 DEF BlocksInv, UsesLast
  <2>4. CASE calls[d].request # r
    BY <1>8, <1>10, <2>1, <2>2, <2>3, <2>4
  <2>5. CASE calls[d].request = r
    <3>1. /\ calls[d].token \in Tokens /\ ProcessOf(d) \in Processes
          /\ m_cipherSessions[ProcessOf(d)][calls[d].token] # 0
      BY <1>3, <2>1, <2>2 DEF SessionsInv, TokensInForce, ProcessOf, TypedClient
    <3>2. m_cipherSessions[ProcessOf(d)][calls[d].token] \in DOMAIN calls
      BY <3>1 DEF SessionsInv, Sessions
    <3> QED
      BY <1>6, <1>8, <1>11, <2>1, <2>2, <2>5, <3>2
  <2> QED
    BY <2>4, <2>5
<1>18. ShownInOrder'
  <2>1. ShownFirst(r)' /\ OthersAwaited(r)'
    BY <1>2, <1>8, <1>9, <1>12 DEF ShownFirst, OthersAwaited
  <2>2. AwaitedAreFed(r)'
    BY <1>6, <1>11 DEF AwaitedAreFed
  <2> QED
    BY <1>12, <2>1, <2>2 DEF ShownInOrder
<1> QED
  BY <1>12, <1>13, <1>14, <1>16, <1>17, <1>18 DEF BlocksInv

\* ... and when it is not: the request has no session.
LEMMA NotInitializedBlocks ==
    ASSUME SessionsInv, BlocksInv, NEW r \in CipherRequests, StartInitialize(r), NotSent(r),
           m_watcherQueue' = [m_watcherQueue EXCEPT ![r] = <<>>],
           opened' = [opened EXCEPT ![r] = 0]
    PROVE  BlocksInv'
<1>1. /\ process' = process /\ m_cipherSessions' = m_cipherSessions /\ calls' = calls
      /\ misfired' = misfired /\ astray' = astray /\ fed' = fed
      /\ shown' = [shown EXCEPT ![r] = <<>>]
      /\ m_cipherSessionToken' = [m_cipherSessionToken EXCEPT ![r] = 0]
  BY DEF StartInitialize, NotSent
<1>2. TypedClient /\ TypedDaemon /\ OpenedIsOwn /\ FedInOrder
  BY DEF SessionsInv, BlocksInv
<1>3. /\ m_cipherSessionToken'[r] = 0 /\ opened' \in [CipherRequests -> Nat] /\ opened'[r] = 0
      /\ m_watcherQueue'[r] = <<>> /\ shown' \in [CipherRequests -> Seq(Nat)]
  BY <1>1, <1>2 DEF TypedClient, OpenedIsOwn, FedInOrder
<1>4. \A q \in CipherRequests : q # r =>
            /\ m_cipherSessionToken'[q] = m_cipherSessionToken[q] /\ opened'[q] = opened[q]
            /\ m_watcherQueue'[q] = m_watcherQueue[q] /\ shown'[q] = shown[q]
  BY <1>1, <1>2 DEF TypedClient, OpenedIsOwn, FedInOrder
<1>5. /\ \A q : (LostReply(q)' <=> LostReply(q))
      /\ \A d : (Unseen(d)' <=> Unseen(d)) /\ ProcessOf(d)' = ProcessOf(d)
      /\ \A p : Calm(p)' <=> Calm(p)
      /\ \A q \in CipherRequests : q # r => (Finalizing(q)' <=> Finalizing(q))
  BY <1>1, <1>4 DEF LostReply, Unseen, ProcessOf, Calm, Finalizing
<1>6. OpenedIsOwn' /\ SeenInOrder' /\ FedInOrder'
  <2>1. OpenedIsOwn'
    BY <1>1, <1>2, <1>3, <1>4 DEF OpenedIsOwn
  <2>2. SeenInOrder'
    BY <1>1, <1>5 DEF BlocksInv, SeenInOrder
  <2>3. FedInOrder'
    BY <1>1, <1>2, <1>3 DEF FedInOrder
  <2> QED
    BY <2>1, <2>2, <2>3
<1>7. AwaitsLast'
  BY <1>1, <1>3, <1>4 DEF BlocksInv, AwaitsLast
<1>8. HoldsLast'
  BY <1>1, <1>3, <1>4, <1>5 DEF BlocksInv, HoldsLast
<1>9. UsesLast'
  <2> SUFFICES ASSUME NEW d \in DOMAIN calls, Unseen(d), Calm(ProcessOf(d)),
                      ~LostReply(calls[d].request)
               PROVE  m_cipherSessions[ProcessOf(d)][calls[d].token] = opened'[calls[d].request]
                        <=> \E i \in DOMAIN m_watcherQueue'[calls[d].request] :
                                m_watcherQueue'[calls[d].request][i] = d
    BY <1>1, <1>5 DEF UsesLast
  <2>1. m_cipherSessions[ProcessOf(d)][calls[d].token] # 0
    BY DEF SessionsInv, TokensInForce
  <2>2. m_cipherSessions[ProcessOf(d)][calls[d].token] = opened[calls[d].request]
            <=> \E i \in DOMAIN m_watcherQueue[calls[d].request] :
                    m_watcherQueue[calls[d].request][i] = d
    BY DEF BlocksInv, UsesLast
  <2>3. calls[d].request \in CipherRequests
    BY <1>2, CallFields
  <2>4. CASE calls[d].request # r
    BY <1>4, <2>2, <2>3, <2>4
  <2>5. CASE calls[d].request = r
    <3>1. DOMAIN m_watcherQueue'[r] = {}
      BY <1>3
    <3> QED
      BY <1>3, <2>1, <2>5, <3>1
  <2> QED
    BY <2>4, <2>5
<1>10. ShownInOrder'
  <2> SUFFICES ASSUME NEW q \in CipherRequests, Ordered(q)'
               PROVE  ShownFirst(q)' /\ OthersAwaited(q)' /\ AwaitedAreFed(q)'
    BY DEF ShownInOrder
  <2>1. q # r
    BY <1>3 DEF Ordered
  <2>2. Ordered(q)
    BY <1>1, <1>4, <1>5, <2>1 DEF Ordered, Undisturbed
  <2>3. ShownFirst(q) /\ OthersAwaited(q) /\ AwaitedAreFed(q)
    BY <2>2 DEF BlocksInv, ShownInOrder
  <2> QED
    BY <1>1, <1>4, <2>1, <2>3 DEF ShownFirst, OthersAwaited, AwaitedAreFed
<1> QED
  BY <1>6, <1>7, <1>8, <1>9, <1>10 DEF BlocksInv

\* startRequest in mode InitializeCipher.
LEMMA StartInitializeBlocks ==
    ASSUME SessionsInv, BlocksInv, NEW r \in CipherRequests, StartInitialize(r),
           Len(calls) < MaxCalls
    PROVE  BlocksInv'
<1>1. CASE /\ Sending(r) /\ m_watcherQueue' = [m_watcherQueue EXCEPT ![r] = <<Len(calls')>>]
           /\ opened' = [opened EXCEPT ![r] = Len(calls')]
  BY <1>1, InitializedBlocks
<1>2. CASE /\ NotSent(r) /\ m_watcherQueue' = [m_watcherQueue EXCEPT ![r] = <<>>]
           /\ opened' = [opened EXCEPT ![r] = 0]
  BY <1>2, NotInitializedBlocks
<1> QED
  BY <1>1, <1>2 DEF StartInitialize

\* startRequest in the other modes, when the call is sent.
LEMMA ContinuedBlocks ==
    ASSUME SessionsInv, BlocksInv, NEW r \in CipherRequests, Continue(r), Sending(r),
           Len(calls) < MaxCalls, m_cipherMode[r] # "InitializeCipher",
           m_watcherQueue' = [m_watcherQueue EXCEPT ![r] = Append(@, Len(calls'))],
           astray \subseteq astray', Finalizing(r) => r \in astray'
    PROVE  BlocksInv'
<1>1. PICK n : n = Len(calls) + 1
  OBVIOUS
<1>2. /\ process' = process /\ m_cipherSessions' = m_cipherSessions
      /\ misfired' = misfired /\ fed' = fed /\ shown' = shown /\ opened' = opened
      /\ m_cipherSessionToken[r] # 0 /\ m_cipherSessionToken' = m_cipherSessionToken
  BY DEF Continue
<1>3. TypedClient /\ TypedDaemon /\ OpenedIsOwn /\ Waiting
  BY DEF SessionsInv, BlocksInv
<1>4. m_cipherSessionToken'[r] \in {0} \cup Tokens
  BY <1>2, <1>3 DEF TypedClient
<1>5. Called(r, n)
  BY <1>1, <1>2, <1>3, <1>4, SendingCalls
<1>6. /\ DOMAIN calls' = DOMAIN calls \cup {n} /\ n \notin DOMAIN calls /\ n \in Nat
      /\ \A d \in DOMAIN calls : /\ calls'[d] = calls[d] /\ d < n
                                 /\ Unseen(d)' <=> Unseen(d)
                                 /\ ProcessOf(d)' = ProcessOf(d)
      /\ calls'[n].request = r /\ calls'[n].answer = "none" /\ ProcessOf(n)' = process[r]
      /\ calls'[n].mode = m_cipherMode[r] /\ calls'[n].token = m_cipherSessionToken[r]
      /\ Len(calls') = n
  BY <1>2, <1>5 DEF Called
<1>7. \A q : LostReply(q)' <=> LostReply(q)
  BY <1>5, SendingLoses
<1>8. /\ Len(m_watcherQueue[r]) \in Nat /\ DOMAIN m_watcherQueue[r] = 1 .. Len(m_watcherQueue[r])
      /\ DOMAIN m_watcherQueue'[r] = 1 .. Len(m_watcherQueue[r]) + 1
      /\ m_watcherQueue'[r][Len(m_watcherQueue[r]) + 1] = n
      /\ \A k \in DOMAIN m_watcherQueue[r] : m_watcherQueue'[r][k] = m_watcherQueue[r][k]
      /\ \A q \in CipherRequests : q # r => m_watcherQueue'[q] = m_watcherQueue[q]
  <2>2. PICK f : f = m_watcherQueue[r]
    OBVIOUS
  <2>3. PICK g : g = m_watcherQueue'[r]
    OBVIOUS
  <2>4. /\ f \in Seq(Nat) /\ g = Append(f, n)
        /\ \A q \in CipherRequests : q # r => m_watcherQueue'[q] = m_watcherQueue[q]
    BY <1>2, <1>3, <1>6, <2>2, <2>3 DEF TypedClient
  <2>5. /\ Len(f) \in Nat /\ DOMAIN f = 1 .. Len(f)
        /\ DOMAIN g = 1 .. Len(f) + 1 /\ g[Len(f) + 1] = n
        /\ \A k \in DOMAIN f : g[k] = f[k]
    BY <1>6, <2>4, Appended
  <2> QED
    BY <2>2, <2>3, <2>4, <2>5
<1>9. /\ \A q \in CipherRequests : \A i \in DOMAIN m_watcherQueue[q] :
            i \in DOMAIN m_watcherQueue'[q] /\ m_watcherQueue'[q][i] = m_watcherQueue[q][i]
      /\ \A q \in CipherRequests : \A i \in DOMAIN m_watcherQueue'[q] :
            \/ i \in DOMAIN m_watcherQueue[q] /\ m_watcherQueue'[q][i] = m_watcherQueue[q][i]
            \/ q = r /\ m_watcherQueue'[q][i] = n
      /\ \E i \in DOMAIN m_watcherQueue'[r] : m_watcherQueue'[r][i] = n
  BY <1>8
<1>10. /\ SeenInOrder' /\ FedInOrder'
       /\ \A q \in CipherRequests : q # r /\ Ordered(q)' =>
            ShownFirst(q)' /\ OthersAwaited(q)' /\ AwaitedAreFed(q)'
  <2>1. shown' \in [CipherRequests -> Seq(Nat)]
    BY <1>2 DEF BlocksInv, FedInOrder
  <2> QED
    BY <1>1, <1>2, <1>4, <1>8, <2>1, SendingBlocks
<1>11. OpenedIsOwn'
  BY <1>2, <1>3, <1>6 DEF OpenedIsOwn
<1>12. AwaitsLast'
  <2> SUFFICES ASSUME NEW q \in CipherRequests, NEW i \in DOMAIN m_watcherQueue'[q],
                      calls'[m_watcherQueue'[q][i]].mode = "InitializeCipher"
               PROVE  m_watcherQueue'[q][i] = opened[q]
    BY <1>2 DEF AwaitsLast
  <2>1. i \in DOMAIN m_watcherQueue[q] /\ m_watcherQueue'[q][i] = m_watcherQueue[q][i]
    BY <1>6, <1>9
  <2>2. m_watcherQueue[q][i] \in DOMAIN calls
    BY <1>3, <2>1 DEF Waiting
  <2> QED
    BY <1>6, <2>1, <2>2 DEF BlocksInv, AwaitsLast
<1>13. \A p : Calm(p)' => Calm(p)
  BY <1>2, CalmBefore
<1>14. \A q \in CipherRequests : Finalizing(q) => Finalizing(q)'
  BY <1>3, <1>6, <1>9 DEF Finalizing, Waiting
<1>15. HoldsLast'
  BY <1>2, <1>13, <1>14 DEF BlocksInv, HoldsLast
<1>16. UsesLast'
  <2> SUFFICES ASSUME NEW d \in DOMAIN calls', Unseen(d)', Calm(ProcessOf(d))',
                      ~LostReply(calls[d].request)'
               PROVE  m_cipherSessions[ProcessOf(d)'][calls'[d].token] = opened[calls'[d].request]
                        <=> \E i \in DOMAIN m_watcherQueue'[calls'[d].request] :
                                m_watcherQueue'[calls'[d].request][i] = d
    BY <1>2 DEF UsesLast
  <2>1. CASE d \in DOMAIN calls
    <3>1. /\ calls'[d] = calls[d] /\ Unseen(d) /\ ProcessOf(d)' = ProcessOf(d)
          /\ d # n
      BY <1>6, <2>1
    <3>2. Calm(ProcessOf(d)) /\ ~LostReply(calls[d].request)
      BY <1>7, <1>13, <3>1
    <3>3. m_cipherSessions[ProcessOf(d)][calls[d].token] = opened[calls[d].request]
            <=> \E i \in DOMAIN m_watcherQueue[calls[d].request] :
                    m_watcherQueue[calls[d].request][i] = d
      BY <2>1, <3>1, <3>2 DEF BlocksInv, UsesLast
    <3>4. calls[d].request \in CipherRequests
      BY <1>3, <2>1, CallFields
    <3>5. (\E i \in DOMAIN m_watcherQueue[calls[d].request] :
                    m_watcherQueue[calls[d].request][i] = d)
            <=> \E i \in DOMAIN m_watcherQueue'[calls[d].request] :
                    m_watcherQueue'[calls[d].request][i] = d
      BY ONLY <1>9, <3>1, <3>4
    <3> QED
      BY <3>1, <3>3, <3>5
  <2>2. CASE d = n
    <3>1. Calm(process[r])' /\ Calm(process[r])
      BY <1>2, <1>6, <1>13, <2>2
    <3>2. ~Finalizing(r)
      BY <1>2, <3>1 DEF Calm
    <3>3. m_cipherSessions[process[r]][m_cipherSessionToken[r]] = opened[r]
      BY <1>2, <3>1, <3>2 DEF BlocksInv, HoldsLast
    <3> QED
      BY <1>6, <1>9, <2>2, <3>3
  <2> QED
    BY <1>6, <2>1, <2>2
<1>17. ASSUME Ordered(r)' PROVE ShownFirst(r)' /\ OthersAwaited(r)' /\ AwaitedAreFed(r)'
  <2>1. Ordered(r)
    BY <1>2, <1>7, <1>17 DEF Ordered, Undisturbed
  <2>2. ShownFirst(r) /\ OthersAwaited(r) /\ AwaitedAreFed(r)
    BY <2>1 DEF BlocksInv, ShownInOrder
  <2>3. ShownFirst(r)'
    BY <1>2, <2>2 DEF ShownFirst
  <2>4. OthersAwaited(r)'
    BY <1>2, <1>9, <2>2 DEF OthersAwaited
  <2>5. AwaitedAreFed(r)'
    <3> SUFFICES ASSUME NEW i \in DOMAIN m_watcherQueue'[r],
                        calls'[m_watcherQueue'[r][i]].mode = "UpdateCipher",
                        calls'[m_watcherQueue'[r][i]].answer = "Succeeded"
                 PROVE  \E k \in DOMAIN fed[opened[r]] :
                            k > Len(shown[r]) /\ fed[opened[r]][k] = m_watcherQueue'[r][i]
      BY <1>2 DEF AwaitedAreFed
    <3>1. i \in DOMAIN m_watcherQueue[r] /\ m_watcherQueue'[r][i] = m_watcherQueue[r][i]
      BY <1>6, <1>9
    <3>2. m_watcherQueue[r][i] \in DOMAIN calls
      BY <1>3, <3>1 DEF Waiting
    <3> QED
      BY <1>6, <2>2, <3>1, <3>2 DEF AwaitedAreFed
  <2> QED
    BY <2>3, <2>4, <2>5
<1>18. ShownInOrder'
  BY <1>10, <1>17 DEF ShownInOrder
<1> QED
  BY <1>10, <1>11, <1>12, <1>15, <1>16, <1>18 DEF BlocksInv

\* startRequest in the other modes, with a session.
LEMMA ContinueBlocks ==
    ASSUME SessionsInv, BlocksInv, NEW r \in CipherRequests, Continue(r),
           m_cipherMode[r] # "InitializeCipher", Len(calls) < MaxCalls
    PROVE  BlocksInv'
<1>1. CASE /\ Sending(r)
           /\ m_watcherQueue' = [m_watcherQueue EXCEPT ![r] = Append(@, Len(calls'))]
           /\ astray' = IF \E c \in ToSet(m_watcherQueue[r]) : calls[c].mode = "FinalizeCipher"
                        THEN astray \cup {r} ELSE astray
  <2>1. astray \subseteq astray' /\ (Finalizing(r) => r \in astray')
    BY <1>1 DEF Finalizing, ToSet
  <2> QED
    BY <1>1, <2>1, ContinuedBlocks
<1>2. CASE UNCHANGED <<m_watcherQueue, astray>> /\ NotSent(r)
  <2>1. /\ process' = process /\ calls' = calls /\ astray' = astray /\ misfired' = misfired
        /\ m_cipherSessions' = m_cipherSessions /\ fed' = fed /\ shown' = shown
        /\ opened' = opened /\ m_watcherQueue' = m_watcherQueue
        /\ m_cipherSessionToken' = m_cipherSessionToken
    BY <1>2 DEF Continue, NotSent
  <2> QED
    BY <2>1, NothingBlocks
<1> QED
  BY <1>1, <1>2 DEF Continue

\* The steps of an application.
LEMMA ApplicationBlocks ==
    ASSUME SessionsInv, BlocksInv, NEW r \in CipherRequests, Application(r)
    PROVE  BlocksInv'
<1>1. Len(calls) < MaxCalls
  BY DEF Application
<1>2. CASE SetCipherMode(r) \/ SetCryptoPluginName(r) \/ StartIgnored(r)
  <2>1. /\ process' = process /\ calls' = calls /\ astray' = astray /\ misfired' = misfired
        /\ m_cipherSessions' = m_cipherSessions /\ fed' = fed /\ shown' = shown
        /\ opened' = opened /\ m_watcherQueue' = m_watcherQueue
        /\ m_cipherSessionToken' = m_cipherSessionToken
    BY <1>2 DEF SetCipherMode, SetCryptoPluginName, StartIgnored, daemon, application
  <2> QED
    BY <2>1, NothingBlocks
<1>3. CASE StartInitialize(r)
  BY <1>1, <1>3, StartInitializeBlocks
<1>4. CASE StartUpdateAuthentication(r) \/ StartUpdate(r) \/ StartFinalize(r)
  <2>1. Continue(r) /\ m_cipherMode[r] # "InitializeCipher"
    BY <1>4 DEF StartUpdateAuthentication, StartUpdate, StartFinalize
  <2> QED
    BY <1>1, <2>1, ContinueBlocks
<1> QED
  BY <1>2, <1>3, <1>4 DEF Application
-----------------------------------------------------------------------------
(* The event loop keeps the order of the blocks. *)

\* The call that opened the last session has its blocks.
LEMMA OpenedHasBlocks ==
    ASSUME SessionsInv, BlocksInv, NEW r \in CipherRequests, opened[r] # 0
    PROVE  opened[r] \in 1 .. MaxCalls
<1>1. opened[r] \in DOMAIN calls
  BY OpenedIsCall DEF BlocksInv
<1>2. DOMAIN calls = 1 .. Len(calls) /\ Len(calls) \in Nat /\ MaxCalls \in Nat
  BY SessionsAssumption DEF SessionsInv, TypedDaemon
<1>3. Len(calls) <= MaxCalls
  BY DEF BlocksInv, FedInOrder
<1> QED
  BY <1>1, <1>2, <1>3

\* The head of the queue of r, which has a reply, is taken.
HeadTaken(r) ==
    /\ m_watcherQueue[r] # <<>> /\ calls[m_watcherQueue[r][1]].reply # "none"
    /\ m_watcherQueue' = [m_watcherQueue EXCEPT ![r] = Tail(m_watcherQueue[r])]
    /\ process' = process /\ calls' = calls /\ m_cipherSessions' = m_cipherSessions
    /\ fed' = fed /\ astray' = astray /\ opened' = opened /\ misfired \subseteq misfired'
    /\ shown' \in [CipherRequests -> Seq(Nat)]
    /\ \A q \in CipherRequests : q # r => /\ shown'[q] = shown[q]
                                          /\ m_cipherSessionToken'[q] = m_cipherSessionToken[q]

\* What is waited for afterwards.
Left(r, queue) ==
    /\ queue \in Seq(Nat) /\ 1 \in DOMAIN queue /\ queue[1] \in DOMAIN calls
    /\ calls[queue[1]].request = r /\ queue[1] \in Nat
    /\ \A i \in DOMAIN m_watcherQueue'[r] : \E j \in DOMAIN queue :
         m_watcherQueue'[r][i] = queue[j] /\ m_watcherQueue'[r][i] # queue[1]
    /\ \A j \in DOMAIN queue : queue[j] # queue[1] =>
         \E i \in DOMAIN m_watcherQueue'[r] : m_watcherQueue'[r][i] = queue[j]
    /\ \A q \in CipherRequests : q # r => m_watcherQueue'[q] = m_watcherQueue[q]

\* That is what taking the head leaves.
LEMMA HeadTakenLeaves ==
    ASSUME SessionsInv, NEW r \in CipherRequests, HeadTaken(r), NEW queue, queue = m_watcherQueue[r]
    PROVE  Left(r, queue)
<1>1. TypedClient /\ Waiting /\ queue \in Seq(Nat) /\ queue # <<>>
  BY DEF SessionsInv, TypedClient, HeadTaken
<1>2. PICK left : left = Tail(queue)
  OBVIOUS
<1>3. m_watcherQueue' = [m_watcherQueue EXCEPT ![r] = left]
  BY <1>2 DEF HeadTaken
<1>4. HeadGone(r, queue, left)
  BY <1>1, <1>2, <1>3, HeadLeaves
<1>5. \A q \in CipherRequests : q # r => m_watcherQueue'[q] = m_watcherQueue[q]
  BY <1>1, <1>3 DEF TypedClient
<1> QED
  BY <1>1, <1>4, <1>5 DEF HeadGone, Left

\* The invariant then, when the token of r and what it has been shown are as they
\* should be.
LEMMA HeadTakenBlocks ==
    ASSUME SessionsInv, BlocksInv, NEW r \in CipherRequests, HeadTaken(r),
           Calm(process[r])' =>
                \/ m_cipherSessionToken'[r] = 0 \/ Finalizing(r)'
                \/ m_cipherSessions[process[r]][m_cipherSessionToken'[r]] = opened[r],
           Ordered(r)' => ShownFirst(r)' /\ OthersAwaited(r)' /\ AwaitedAreFed(r)'
    PROVE  BlocksInv'
<1>1. PICK queue : queue = m_watcherQueue[r]
  OBVIOUS
<1>2. /\ 1 \in DOMAIN queue /\ calls[queue[1]].request = r
      /\ \A i \in DOMAIN m_watcherQueue'[r] : \E j \in DOMAIN queue :
            m_watcherQueue'[r][i] = queue[j]
      /\ \A j \in DOMAIN queue : queue[j] # queue[1] =>
            \E i \in DOMAIN m_watcherQueue'[r] : m_watcherQueue'[r][i] = queue[j]
      /\ \A q \in CipherRequests : q # r => m_watcherQueue'[q] = m_watcherQueue[q]
  <2>1. Left(r, queue)
    BY <1>1, HeadTakenLeaves
  <2> QED
    BY <2>1 DEF Left
<1>3. /\ calls[queue[1]].reply # "none"
      /\ process' = process /\ calls' = calls /\ m_cipherSessions' = m_cipherSessions
      /\ fed' = fed /\ astray' = astray /\ opened' = opened /\ misfired \subseteq misfired'
      /\ shown' \in [CipherRequests -> Seq(Nat)]
      /\ \A q \in CipherRequests : q # r => /\ shown'[q] = shown[q]
                                            /\ m_cipherSessionToken'[q] = m_cipherSessionToken[q]
  BY <1>1 DEF HeadTaken
<1>4. /\ \A q : (LostReply(q)' <=> LostReply(q))
      /\ \A d : (Unseen(d)' <=> Unseen(d)) /\ ProcessOf(d)' = ProcessOf(d)
      /\ \A p : Calm(p)' => Calm(p)
      /\ \A q \in CipherRequests : q # r => (Finalizing(q)' <=> Finalizing(q))
  BY <1>2, <1>3 DEF LostReply, Unseen, ProcessOf, Calm, Finalizing
<1>5. OpenedIsOwn' /\ SeenInOrder' /\ FedInOrder'
  <2>1. OpenedIsOwn' /\ SeenInOrder'
    BY <1>3, <1>4 DEF BlocksInv, OpenedIsOwn, SeenInOrder
  <2>2. FedInOrder'
    BY <1>3 DEF BlocksInv, FedInOrder
  <2> QED
    BY <2>1, <2>2
<1>6. AwaitsLast'
  <2> SUFFICES ASSUME NEW q \in CipherRequests, NEW i \in DOMAIN m_watcherQueue'[q],
                      calls[m_watcherQueue'[q][i]].mode = "InitializeCipher"
               PROVE  m_watcherQueue'[q][i] = opened[q]
    BY <1>3 DEF AwaitsLast
  <2>1. PICK j \in DOMAIN m_watcherQueue[q] : m_watcherQueue'[q][i] = m_watcherQueue[q][j]
    BY <1>1, <1>2
  <2> QED
    BY <2>1 DEF BlocksInv, AwaitsLast
<1>7. HoldsLast'
  <2> SUFFICES ASSUME NEW q \in CipherRequests, m_cipherSessionToken'[q] # 0,
                      Calm(process[q])', ~Finalizing(q)'
               PROVE  m_cipherSessions[process[q]][m_cipherSessionToken'[q]] = opened[q]
    BY <1>3 DEF HoldsLast
  <2>1. CASE q = r
    BY <2>1
  <2>2. CASE q # r
    BY <1>3, <1>4, <2>2 DEF BlocksInv, HoldsLast
  <2> QED
    BY <2>1, <2>2
<1>8. UsesLast'
  <2> SUFFICES ASSUME NEW d \in DOMAIN calls', Unseen(d)', Calm(ProcessOf(d))',
                      ~LostReply(calls[d].request)'
               PROVE  m_cipherSessions'[ProcessOf(d)'][calls'[d].token] = opened'[calls'[d].request]
                        <=> \E i \in DOMAIN m_watcherQueue'[calls'[d].request] :
                                m_watcherQueue'[calls'[d].request][i] = d
    BY DEF UsesLast
  <2> d \in DOMAIN calls
    BY <1>3
  <2>0. Unseen(d) /\ Calm(ProcessOf(d)) /\ ~LostReply(calls[d].request)
    BY <1>3, <1>4 DEF Calm, ProcessOf, LostReply
  <2>1. m_cipherSessions[ProcessOf(d)][calls[d].token] = opened[calls[d].request]
            <=> \E i \in DOMAIN m_watcherQueue[calls[d].request] :
                    m_watcherQueue[calls[d].request][i] = d
    BY <2>0 DEF BlocksInv, UsesLast
  <2>2. calls[d].request \in CipherRequests
    BY CallFields DEF SessionsInv
  <2>3. d # queue[1]
    <3>1. calls[d].reply \in {"none", "answer", "mismatch", "lost"}
      BY CallFields DEF SessionsInv
    <3>2. calls[d].reply \in {"none", "lost"}
      BY <2>0, <3>1 DEF SessionsInv, Pipeline, Accounted, Unseen
    <3> QED
      BY <1>3, <2>0, <3>2 DEF LostReply
  <2>4. ASSUME calls[d].request # r
        PROVE  m_cipherSessions[ProcessOf(d)][calls[d].token] = opened[calls[d].request]
                 <=> \E i \in DOMAIN m_watcherQueue'[calls[d].request] :
                        m_watcherQueue'[calls[d].request][i] = d
    BY <1>2, <2>1, <2>2, <2>4
  <2>5. ASSUME calls[d].request = r
        PROVE  m_cipherSessions[ProcessOf(d)][calls[d].token] = opened[calls[d].request]
                 <=> \E i \in DOMAIN m_watcherQueue'[calls[d].request] :
                        m_watcherQueue'[calls[d].request][i] = d
    <3>1. (\E i \in DOMAIN queue : queue[i] = d)
             <=> \E i \in DOMAIN m_watcherQueue'[r] : m_watcherQueue'[r][i] = d
      BY ONLY <1>2, <2>3
    <3> QED
      BY <1>1, <2>1, <2>5, <3>1
  <2>6. m_cipherSessions[ProcessOf(d)][calls[d].token] = opened[calls[d].request]
            <=> \E i \in DOMAIN m_watcherQueue'[calls[d].request] :
                    m_watcherQueue'[calls[d].request][i] = d
    BY <2>4, <2>5
  <2> QED
    BY <1>3, <1>4, <2>6
<1>9. ShownInOrder'
  <2> SUFFICES ASSUME NEW q \in CipherRequests, Ordered(q)'
               PROVE  ShownFirst(q)' /\ OthersAwaited(q)' /\ AwaitedAreFed(q)'
    BY DEF ShownInOrder
  <2>1. CASE q = r
    BY <2>1
  <2>2. CASE q # r
    <3>1. Ordered(q)
      BY <1>3, <1>4 DEF Ordered, Undisturbed
    <3>2. ShownFirst(q) /\ OthersAwaited(q) /\ AwaitedAreFed(q)
      BY <3>1 DEF BlocksInv, ShownInOrder
    <3>3. /\ m_watcherQueue'[q] = m_watcherQueue[q] /\ shown'[q] = shown[q]
          /\ fed' = fed /\ opened' = opened /\ calls' = calls
      BY <1>2, <1>3, <2>2
    <3>4. ShownFirst(q)'
      BY <3>2, <3>3 DEF ShownFirst
    <3>5. OthersAwaited(q)'
      BY <3>2, <3>3 DEF OthersAwaited
    <3>6. AwaitedAreFed(q)'
      BY <3>2, <3>3 DEF AwaitedAreFed
    <3> QED
      BY <3>4, <3>5, <3>6
  <2> QED
    BY <2>1, <2>2
<1> QED
  BY <1>5, <1>6, <1>7, <1>8, <1>9 DEF BlocksInv

\* A lambda that takes the head of the queue, which is no output.
LEMMA DequeuedBlocks ==
    ASSUME SessionsInv, BlocksInv, NEW p \in Processes, NEW k, NEW c, NEW r, Replied(p, k, c, r),
           Dequeued(r, c, k), calls[c].mode # "UpdateCipher",
           \A q \in CipherRequests : q # r => m_cipherSessionToken'[q] = m_cipherSessionToken[q],
           c = Head(m_watcherQueue[r]) /\ Calm(process[r]) =>
                \/ m_cipherSessionToken'[r] = 0 \/ Finalizing(r)'
                \/ m_cipherSessions[process[r]][m_cipherSessionToken'[r]] = opened[r]
    PROVE  BlocksInv'
<1>1. PICK queue : queue = m_watcherQueue[r]
  OBVIOUS
<1>2. PICK d : d = Head(queue)
  OBVIOUS
<1>3. /\ queue # <<>> /\ calls[d].reply # "none"
      /\ m_watcherQueue' = [m_watcherQueue EXCEPT ![r] = Tail(m_watcherQueue[r])]
      /\ c = d => misfired' = misfired
      /\ c # d => misfired' = misfired \cup {r}
      /\ shown' = shown
  BY <1>1, <1>2 DEF Dequeued
<1>4. /\ process' = process /\ calls' = calls /\ astray' = astray /\ fed' = fed
      /\ m_cipherSessions' = m_cipherSessions /\ opened' = opened
  BY DEF Replied, EventKept, daemon
<1>5. r \in CipherRequests /\ d = queue[1]
  BY <1>1, <1>2, HeadIsCall
<1>6. misfired \subseteq misfired' /\ (c # d => r \in misfired')
  BY <1>3
<1>7. HeadTaken(r)
  <2>1. shown' \in [CipherRequests -> Seq(Nat)]
    BY <1>3 DEF BlocksInv, FedInOrder
  <2> QED
    BY <1>1, <1>3, <1>4, <1>5, <1>6, <2>1 DEF HeadTaken
<1>8. /\ \A i \in DOMAIN m_watcherQueue'[r] : \E j \in DOMAIN queue :
            m_watcherQueue'[r][i] = queue[j]
      /\ \A j \in DOMAIN queue : queue[j] # queue[1] =>
            \E i \in DOMAIN m_watcherQueue'[r] : m_watcherQueue'[r][i] = queue[j]
  <2>1. Left(r, queue)
    BY <1>1, <1>5, <1>7, HeadTakenLeaves
  <2> QED
    BY <2>1 DEF Left
<1>9. Calm(process[r])' =>
            \/ m_cipherSessionToken'[r] = 0 \/ Finalizing(r)'
            \/ m_cipherSessions[process[r]][m_cipherSessionToken'[r]] = opened[r]
  <2>1. Calm(process[r])' => c = d /\ Calm(process[r])
    BY <1>4, <1>6 DEF Calm
  <2> QED
    BY <1>1, <1>2, <2>1
<1>10. ASSUME Ordered(r)' PROVE ShownFirst(r)' /\ OthersAwaited(r)' /\ AwaitedAreFed(r)'
  <2>1. LostReply(r)' <=> LostReply(r)
    BY <1>4 DEF LostReply
  <2>2. Ordered(r) /\ c = d
    BY <1>4, <1>6, <1>10, <2>1 DEF Ordered, Undisturbed
  <2>3. ShownFirst(r) /\ OthersAwaited(r) /\ AwaitedAreFed(r)
    BY <1>5, <2>2 DEF BlocksInv, ShownInOrder
  <2>4. ShownFirst(r)'
    BY <1>3, <1>4, <2>3 DEF ShownFirst
  <2>5. OthersAwaited(r)'
    <3> SUFFICES ASSUME NEW l \in DOMAIN fed[opened[r]], l > Len(shown[r])
                 PROVE  \E i \in DOMAIN m_watcherQueue'[r] :
                            m_watcherQueue'[r][i] = fed[opened[r]][l]
      BY <1>3, <1>4 DEF OthersAwaited
    <3>1. PICK j \in DOMAIN queue : queue[j] = fed[opened[r]][l]
      BY <1>1, <2>3 DEF OthersAwaited
    <3>2. opened[r] \in 1 .. MaxCalls
      BY <1>5, <2>2, OpenedHasBlocks DEF Ordered
    <3>3. calls[fed[opened[r]][l]].mode = "UpdateCipher"
      BY <3>2 DEF BlocksInv, FedInOrder
    <3>4. queue[j] # queue[1]
      BY <1>5, <2>2, <3>1, <3>3
    <3> QED
      BY <1>8, <3>1, <3>4
  <2>6. AwaitedAreFed(r)'
    BY <1>1, <1>3, <1>4, <1>8, <2>3 DEF AwaitedAreFed
  <2> QED
    BY <2>4, <2>5, <2>6
<1> QED
  BY <1>5, <1>7, <1>9, <1>10, HeadTakenBlocks

\* InitializeFinished: the token is that of the session the call opened, the last one.
LEMMA InitializeFinishedBlocks ==
    ASSUME SessionsInv, BlocksInv, NEW p \in Processes, NEW k, NEW c, NEW r, Replied(p, k, c, r),
           InitializeFinished(r, c, k)
    PROVE  BlocksInv'
<1>1. PICK d : d = Head(m_watcherQueue[r])
  OBVIOUS
<1>2. PICK t : t = TokenOf(d)
  OBVIOUS
<1>3. /\ calls[c].mode = "InitializeCipher" /\ Dequeued(r, c, k)
      /\ m_cipherSessionToken' = [m_cipherSessionToken EXCEPT ![r] = t]
  BY <1>1, <1>2 DEF InitializeFinished
<1>4. r \in CipherRequests /\ 1 \in DOMAIN m_watcherQueue[r] /\ m_watcherQueue[r][1] = d
  BY <1>1, <1>3, HeadIsCall
<1>5. m_cipherSessionToken'[r] = t
      /\ \A q \in CipherRequests : q # r => m_cipherSessionToken'[q] = m_cipherSessionToken[q]
  BY <1>3, <1>4 DEF SessionsInv, TypedClient
<1>6. ASSUME c = d, Calm(process[r])
      PROVE  t = 0 \/ m_cipherSessions[process[r]][t] = opened[r]
  <2>1. TokenGiven /\ AwaitsLast
    BY DEF SessionsInv, BlocksInv
  <2>2. calls[m_watcherQueue[r][1]].mode = "InitializeCipher" /\ TokenOf(m_watcherQueue[r][1]) = t
    BY <1>2, <1>3, <1>4, <1>6
  <2>3. t = 0 \/ m_cipherSessions[process[r]][t] = d
    BY <1>4, <1>6, <2>1, <2>2 DEF TokenGiven
  <2>4. d = opened[r]
    BY <1>4, <2>1, <2>2 DEF AwaitsLast
  <2> QED
    BY <2>3, <2>4
<1> QED
  BY <1>1, <1>3, <1>5, <1>6, DequeuedBlocks

\* UpdateAuthenticationFinished: the token stays.
LEMMA UpdateAuthenticationFinishedBlocks ==
    ASSUME SessionsInv, BlocksInv, NEW p \in Processes, NEW k, NEW c, NEW r, Replied(p, k, c, r),
           UpdateAuthenticationFinished(r, c, k)
    PROVE  BlocksInv'
<1>1. /\ calls[c].mode = "UpdateCipherAuthentication" /\ Dequeued(r, c, k)
      /\ m_cipherSessionToken' = m_cipherSessionToken
  BY DEF UpdateAuthenticationFinished
<1>2. r \in CipherRequests
  BY DEF Replied, Delivering
<1>3. ASSUME c = Head(m_watcherQueue[r]), Calm(process[r])
      PROVE  \/ m_cipherSessionToken[r] = 0 \/ Finalizing(r)'
             \/ m_cipherSessions[process[r]][m_cipherSessionToken[r]] = opened[r]
  <2>1. Finalizing(r) => Finalizing(r)'
    BY <1>1, <1>3, FinalizingStays
  <2> QED
    BY <1>2, <1>3, <2>1 DEF BlocksInv, HoldsLast
<1> QED
  BY <1>1, <1>3, DequeuedBlocks

\* FinalizeFinished: the token is dropped.
LEMMA FinalizeFinishedBlocks ==
    ASSUME SessionsInv, BlocksInv, NEW p \in Processes, NEW k, NEW c, NEW r, Replied(p, k, c, r),
           FinalizeFinished(r, c, k)
    PROVE  BlocksInv'
<1>1. PICK d : d = Head(m_watcherQueue[r])
  OBVIOUS
<1>2. PICK res : res = ResultOf(d)
  OBVIOUS
<1>3. /\ calls[c].mode = "FinalizeCipher" /\ Dequeued(r, c, k)
      /\ m_cipherSessionToken' = IF res = "Succeeded" THEN [m_cipherSessionToken EXCEPT ![r] = 0]
                                 ELSE m_cipherSessionToken
  BY <1>1, <1>2 DEF FinalizeFinished
<1>4. c \in DOMAIN calls /\ r \in CipherRequests /\ process[r] = p /\ ProcessOf(c) = p
  BY DEF Replied, Delivering
<1>5. /\ res = "Succeeded" => m_cipherSessionToken'[r] = 0
      /\ \A q \in CipherRequests : q # r => m_cipherSessionToken'[q] = m_cipherSessionToken[q]
  BY <1>3, <1>4 DEF SessionsInv, TypedClient
<1>6. ASSUME c = d, Calm(process[r]) PROVE m_cipherSessionToken'[r] = 0
  <2>1. res \in {"Succeeded", "Failed"} /\ (res = "Failed" => ~Calm(ProcessOf(c)))
    BY <1>2, <1>3, <1>4, <1>6, ArgumentsOfReply
  <2> QED
    BY <1>4, <1>5, <1>6, <2>1
<1> QED
  BY <1>1, <1>3, <1>5, <1>6, DequeuedBlocks

\* The first call that is waited for has its output shown next: the one after
\* those that have been shown.
LEMMA NextIsShown ==
    ASSUME SessionsInv, BlocksInv, NEW r \in CipherRequests, Ordered(r),
           NEW queue, queue = m_watcherQueue[r], queue # <<>>,
           calls[queue[1]].mode = "UpdateCipher", calls[queue[1]].answer = "Succeeded",
           NEW f, f = fed[opened[r]], NEW n, n = Len(shown[r]) + 1
    PROVE  /\ n \in DOMAIN f /\ f[n] = queue[1] /\ n <= Len(f)
           /\ \A k, l \in DOMAIN f : k < l => f[k] < f[l]
<1>1. /\ opened[r] \in 1 .. MaxCalls /\ OthersAwaited(r) /\ AwaitedAreFed(r)
  BY OpenedHasBlocks DEF BlocksInv, ShownInOrder, Ordered
<1>2. /\ f \in Seq(Nat) /\ shown[r] \in Seq(Nat)
      /\ \A k, l \in DOMAIN f : k < l => f[k] < f[l]
  BY <1>1 DEF BlocksInv, FedInOrder
<1>3. queue \in Seq(Nat) /\ \A i, j \in DOMAIN queue : i < j => queue[i] < queue[j]
  BY DEF SessionsInv, TypedClient, Waiting
<1>4. 1 \in DOMAIN queue /\ DOMAIN queue = 1 .. Len(queue) /\ Len(queue) \in Nat
      /\ queue[1] \in Nat
  BY <1>3
<1>5. PICK k \in DOMAIN f : k > Len(shown[r]) /\ f[k] = queue[1]
  BY <1>1, <1>4 DEF AwaitedAreFed
<1>6. /\ Len(f) \in Nat /\ DOMAIN f = 1 .. Len(f) /\ Len(shown[r]) \in Nat
      /\ n \in DOMAIN f /\ n <= k /\ n <= Len(f) /\ n > Len(shown[r])
  BY <1>2, <1>5, SMTT(30)
<1>7. PICK i \in DOMAIN queue : queue[i] = f[n]
  BY <1>1, <1>6 DEF OthersAwaited
<1>8. f[n] \in Nat /\ f[k] \in Nat
  BY <1>2, <1>6, SMTT(30)
<1>9. ~(n < k)
  <2>1. ASSUME n < k PROVE FALSE
    <3>1. f[n] < queue[1]
      BY <1>2, <1>5, <1>6, <2>1
    <3>2. i = 1 \/ queue[1] < queue[i]
      <4>1. i \in 1 .. Len(queue) /\ (i = 1 \/ 1 < i)
        BY <1>4, <1>7
      <4>2. 1 < i => queue[1] < queue[i]
        BY <1>3, <1>4, <1>7
      <4> QED
        BY <4>1, <4>2
    <3> QED
      BY <1>4, <1>7, <1>8, <3>1, <3>2
  <2> QED
    BY <2>1
<1>10. n = k
  BY <1>6, <1>9
<1> QED
  BY <1>2, <1>5, <1>6, <1>10

\* UpdateFinished: nothing is shown yet.
LEMMA UpdateFinishedBlocks ==
    ASSUME SessionsInv, BlocksInv, NEW p \in Processes, NEW k, NEW c, NEW r, Replied(p, k, c, r),
           UpdateFinished(r, c, k)
    PROVE  BlocksInv'
<1>1. /\ m_watcherQueue' = m_watcherQueue /\ shown' = shown
      /\ m_cipherSessionToken' = m_cipherSessionToken /\ misfired' = misfired
  BY DEF UpdateFinished
<1>2. /\ process' = process /\ calls' = calls /\ astray' = astray /\ fed' = fed
      /\ m_cipherSessions' = m_cipherSessions /\ opened' = opened
  BY DEF Replied, EventKept, daemon
<1>3. misfired \subseteq misfired'
  BY <1>1
<1> QED
  BY <1>1, <1>2, <1>3, NothingBlocks

\* One turn of the loop: the output of the head of the queue is shown.
LEMMA TakeCompletedBlocks ==
    ASSUME SessionsInv, BlocksInv, NEW r \in CipherRequests, TakeCompleted(r)
    PROVE  BlocksInv'
<1>1. PICK queue : queue = m_watcherQueue[r]
  OBVIOUS
<1>2. PICK c : c = Head(queue)
  OBVIOUS
<1>3. PICK left : left = m_watcherQueue'[r]
  OBVIOUS
<1>4. /\ r \in taking
      /\ m_watcherQueue' = [m_watcherQueue EXCEPT ![r] = Tail(m_watcherQueue[r])]
      /\ shown' = IF calls[c].reply = "answer" /\ calls[c].answer = "Succeeded"
                  THEN [shown EXCEPT ![r] = Append(@, c)] ELSE shown
      /\ m_cipherSessionToken' = m_cipherSessionToken /\ misfired' = misfired
  BY <1>1, <1>2 DEF TakeCompleted
<1>5. /\ process' = process /\ calls' = calls /\ astray' = astray /\ fed' = fed
      /\ m_cipherSessions' = m_cipherSessions /\ opened' = opened
  BY DEF TakeCompleted, daemon, application
<1>6. /\ TypedClient /\ Waiting /\ Completed /\ shown \in [CipherRequests -> Seq(Nat)]
      /\ shown[r] \in Seq(Nat)
  BY DEF SessionsInv, BlocksInv, FedInOrder
<1>7. queue \in Seq(Nat) /\ queue # <<>>
  BY <1>1, <1>4, <1>6 DEF TypedClient, Completed
<1>8. 1 \in DOMAIN queue /\ c = queue[1]
  BY <1>2, <1>7, EmptyOrNot
<1>9. /\ c \in DOMAIN calls /\ calls[c].request = r /\ calls[c].mode = "UpdateCipher"
      /\ calls[c].reply # "none" /\ c \in Nat
  <2>1. c \in m_completedHash[r]
    BY <1>1, <1>4, <1>6, <1>8 DEF Completed
  <2>2. calls[c].request = r
    BY <1>1, <1>6, <1>8 DEF Waiting
  <2>3. c \in Nat
    BY <1>7, <1>8
  <2> QED
    BY <1>6, <2>1, <2>2, <2>3 DEF Completed
<1>10. /\ shown' \in [CipherRequests -> Seq(Nat)]
       /\ \A q \in CipherRequests : q # r => shown'[q] = shown[q]
  <2>1. Append(shown[r], c) \in Seq(Nat)
    BY <1>6, <1>9
  <2> QED
    BY <1>4, <1>6, <2>1
<1>11. HeadTaken(r)
  BY <1>1, <1>4, <1>5, <1>7, <1>8, <1>9, <1>10 DEF HeadTaken
<1>12. Left(r, queue)
  BY <1>1, <1>11, HeadTakenLeaves
<1>13. /\ \A i \in DOMAIN left : \E j \in DOMAIN queue : left[i] = queue[j] /\ left[i] # c
       /\ \A j \in DOMAIN queue : queue[j] # c => \E i \in DOMAIN left : left[i] = queue[j]
  BY <1>3, <1>8, <1>12 DEF Left
<1> HIDE <1>1, <1>2, <1>3
<1>14. Calm(process[r])' =>
            \/ m_cipherSessionToken'[r] = 0 \/ Finalizing(r)'
            \/ m_cipherSessions[process[r]][m_cipherSessionToken'[r]] = opened[r]
  <2>1. Calm(process[r])' => Calm(process[r])
    BY <1>4, <1>5 DEF Calm
  <2>2. Finalizing(r) => Finalizing(r)'
    <3> SUFFICES ASSUME Finalizing(r) PROVE Finalizing(r)'
      OBVIOUS
    <3>1. PICK j \in DOMAIN queue : calls[queue[j]].mode = "FinalizeCipher"
      BY <1>1 DEF Finalizing
    <3>2. PICK i \in DOMAIN left : left[i] = queue[j]
      BY <1>9, <1>13, <3>1
    <3> QED
      BY <1>3, <1>5, <3>1, <3>2 DEF Finalizing
  <2> QED
    BY <1>4, <2>1, <2>2 DEF BlocksInv, HoldsLast
<1>15. ASSUME Ordered(r)' PROVE ShownFirst(r)' /\ OthersAwaited(r)' /\ AwaitedAreFed(r)'
  <2>1. LostReply(r)' <=> LostReply(r)
    BY <1>5 DEF LostReply
  <2>2. Ordered(r)
    BY <1>4, <1>5, <1>15, <2>1 DEF Ordered, Undisturbed
  <2>3. ShownFirst(r) /\ OthersAwaited(r) /\ AwaitedAreFed(r)
    BY <2>2 DEF BlocksInv, ShownInOrder
  <2>4. calls[c].reply = "answer" /\ calls[c].answer \in {"Succeeded", "Failed"}
    <3>1. calls[c].reply \in {"none", "answer", "mismatch", "lost"}
      BY <1>9, CallFields DEF SessionsInv
    <3>2. calls[c].reply = "answer"
      BY <1>9, <2>2, <3>1 DEF Ordered, LostReply
    <3> QED
      BY <1>9, <3>2 DEF SessionsInv, Pipeline, Accounted
  <2>5. PICK f : f = fed[opened[r]]
    OBVIOUS
  <2>6. PICK seen : seen = shown[r]
    OBVIOUS
  <2>7. /\ opened[r] \in 1 .. MaxCalls /\ f \in Seq(Nat) /\ seen \in Seq(Nat)
        /\ \A k \in DOMAIN f : calls[f[k]].answer = "Succeeded"
    <3>1. opened[r] \in 1 .. MaxCalls
      BY <2>2, OpenedHasBlocks DEF Ordered
    <3> QED
      BY <1>6, <2>5, <2>6, <3>1 DEF BlocksInv, FedInOrder
  <2>8. /\ Len(seen) <= Len(f) /\ \A k \in DOMAIN seen : seen[k] = f[k]
        /\ \A k \in DOMAIN f : k > Len(seen) => \E j \in DOMAIN queue : queue[j] = f[k]
        /\ \A j \in DOMAIN queue :
              calls[queue[j]].mode = "UpdateCipher" /\ calls[queue[j]].answer = "Succeeded" =>
                  \E k \in DOMAIN f : k > Len(seen) /\ f[k] = queue[j]
    BY <1>1, <2>3, <2>5, <2>6 DEF ShownFirst, OthersAwaited, AwaitedAreFed
  <2>9. PICK now : now = shown'[r]
    OBVIOUS
  <2>10. SUFFICES
          /\ Len(now) <= Len(f) /\ \A k \in DOMAIN now : now[k] = f[k]
          /\ \A k \in DOMAIN f : k > Len(now) => \E i \in DOMAIN left : left[i] = f[k]
          /\ \A i \in DOMAIN left :
                calls[left[i]].mode = "UpdateCipher" /\ calls[left[i]].answer = "Succeeded" =>
                  \E k \in DOMAIN f : k > Len(now) /\ f[k] = left[i]
    BY <1>3, <1>5, <2>5, <2>9 DEF ShownFirst, OthersAwaited, AwaitedAreFed
  <2>11. CASE calls[c].answer = "Failed"
    <3>1. now = seen
      BY <1>4, <2>6, <2>9, <2>11
    <3>2. \A k \in DOMAIN f : f[k] # c
      BY <2>7, <2>11
    <3>3. \A k \in DOMAIN f : k > Len(now) => \E i \in DOMAIN left : left[i] = f[k]
      BY <1>13, <2>8, <3>1, <3>2
    <3>4. \A i \in DOMAIN left :
            calls[left[i]].mode = "UpdateCipher" /\ calls[left[i]].answer = "Succeeded" =>
              \E k \in DOMAIN f : k > Len(now) /\ f[k] = left[i]
      BY <1>13, <2>8, <3>1
    <3> QED
      BY <2>8, <3>1, <3>3, <3>4
  <2>12. CASE calls[c].answer = "Succeeded"
    <3>1. PICK n : n = Len(seen) + 1
      OBVIOUS
    <3>2. /\ n \in DOMAIN f /\ f[n] = c /\ n <= Len(f)
          /\ \A k, l \in DOMAIN f : k < l => f[k] < f[l]
      BY <1>1, <1>7, <1>8, <1>9, <2>2, <2>5, <2>6, <2>12, <3>1, NextIsShown
    <3>3. /\ Len(seen) \in Nat /\ DOMAIN seen = 1 .. Len(seen)
          /\ Len(now) = n /\ DOMAIN now = 1 .. n /\ now[n] = c
          /\ \A k \in DOMAIN seen : now[k] = seen[k]
      <4>1. now = Append(seen, c)
        BY <1>4, <1>6, <2>4, <2>6, <2>9, <2>12
      <4> QED
        BY <1>9, <2>7, <3>1, <4>1, Appended
    <3>4. \A k \in DOMAIN now : now[k] = f[k]
      <4>1. \A k \in DOMAIN now : k = n \/ k \in DOMAIN seen
        BY <3>1, <3>3
      <4> QED
        BY <2>8, <3>2, <3>3, <4>1
    <3>5. ASSUME NEW k \in DOMAIN f, k > Len(now)
          PROVE  \E i \in DOMAIN left : left[i] = f[k]
      <4>1. k \in Nat /\ k > Len(seen) /\ n < k /\ n \in Nat
        BY <2>7, <3>1, <3>3, <3>5
      <4>2. PICK j \in DOMAIN queue : queue[j] = f[k]
        BY <2>8, <4>1
      <4>3. f[k] # c
        BY <1>9, <2>7, <3>2, <4>1
      <4> QED
        BY <1>13, <4>2, <4>3
    <3>6. ASSUME NEW i \in DOMAIN left, calls[left[i]].mode = "UpdateCipher",
                 calls[left[i]].answer = "Succeeded"
          PROVE  \E k \in DOMAIN f : k > Len(now) /\ f[k] = left[i]
      <4>1. PICK j \in DOMAIN queue : left[i] = queue[j] /\ left[i] # c
        BY <1>13
      <4>2. PICK k \in DOMAIN f : k > Len(seen) /\ f[k] = queue[j]
        BY <2>8, <3>6, <4>1
      <4>3. k # n
        BY <3>2, <4>1, <4>2
      <4>4. k > Len(now)
        BY <2>7, <3>1, <3>3, <4>2, <4>3
      <4> QED
        BY <4>1, <4>2, <4>4
    <3> QED
      BY <3>2, <3>3, <3>4, <3>5, <3>6
  <2> QED
    BY <2>4, <2>11, <2>12
<1> QED
  BY <1>11, <1>14, <1>15, HeadTakenBlocks

\* The lambdas.
LEMMA FinishedBlocks ==
    ASSUME SessionsInv, BlocksInv, NEW p \in Processes, NEW k, NEW c, NEW r, Replied(p, k, c, r),
           Finished(r, c, k)
    PROVE  BlocksInv'
<1>1. CASE UpdateFinished(r, c, k)
  BY <1>1, UpdateFinishedBlocks
<1>2. CASE InitializeFinished(r, c, k)
  BY <1>2, InitializeFinishedBlocks
<1>3. CASE UpdateAuthenticationFinished(r, c, k)
  BY <1>3, UpdateAuthenticationFinishedBlocks
<1>4. CASE FinalizeFinished(r, c, k)
  BY <1>4, FinalizeFinishedBlocks
<1> QED
  BY <1>1, <1>2, <1>3, <1>4 DEF Finished

\* One event of the event loop.
LEMMA DeliverEventBlocks ==
    ASSUME SessionsInv, BlocksInv, NEW p \in Processes, DeliverEvent(p)
    PROVE  BlocksInv'
<1>1. events[p] \in Seq(Events) /\ events[p] # <<>> /\ Free(p) /\ p \notin crashed
  BY DEF DeliverEvent, Free, SessionsInv, TypedClient
<1>2. 1 \in DOMAIN events[p] /\ Head(events[p]) = events[p][1]
  BY <1>1
<1>3. PICK c : c = events[p][1].call
  OBVIOUS
<1>4. PICK r : r = calls[c].request
  OBVIOUS
<1>5. UNCHANGED EventKept /\ disordered' = disordered
  BY DEF DeliverEvent, EventKept, application
<1>6. /\ Delivering(p, 1, c, r) /\ ProcessOf(c) = p
      /\ events[p][1].kind \in {"finished", "deleteLater"}
      /\ events[p][1] = Event(events[p][1].kind, c)
      /\ events[p][1].kind = "finished" => calls[c].reply # "none"
  BY <1>1, <1>2, <1>3, <1>4, CallOfEvent
<1>7. IF events[p][1].kind = "deleteLater" \/ c \notin watchers THEN WatcherDeleted(c)
      ELSE Finished(r, c, 1) \/ NothingToDequeue(r, c)
  BY <1>2, <1>3, <1>4 DEF DeliverEvent
<1> HIDE <1>3, <1>4
<1>8. CASE WatcherDeleted(c) \/ NothingToDequeue(r, c)
  <2>1. /\ misfired \subseteq misfired' /\ m_cipherSessionToken' = m_cipherSessionToken
        /\ m_watcherQueue' = m_watcherQueue /\ shown' = shown
    BY <1>8 DEF WatcherDeleted, NothingToDequeue
  <2>2. /\ process' = process /\ calls' = calls /\ astray' = astray /\ fed' = fed
        /\ m_cipherSessions' = m_cipherSessions /\ opened' = opened
    BY <1>5 DEF EventKept, daemon
  <2> QED
    BY <2>1, <2>2, NothingBlocks
<1>9. CASE events[p][1].kind = "finished" /\ c \in watchers /\ Finished(r, c, 1)
  <2>1. r \notin taking
    BY <1>1, <1>6 DEF Free, Delivering
  <2>2. calls[c].mode # "UpdateCipher" /\ m_watcherQueue[r] # <<>> /\ c # Head(m_watcherQueue[r])
          => r \in restarted \cup disordered'
    BY <1>2, <1>5, <1>6, <1>9, FirstIsHead
  <2>3. Replied(p, 1, c, r)
    BY <1>2, <1>5, <1>6, <1>9, <2>1, <2>2 DEF Replied
  <2> QED
    BY <1>9, <2>3, FinishedBlocks
<1> QED
  BY <1>6, <1>7, <1>8, <1>9

\* waitForFinished: the signal of the last call of the queue.
LEMMA WaitForFinishedBlocks ==
    ASSUME SessionsInv, BlocksInv, NEW r \in CipherRequests, WaitForFinished(r)
    PROVE  BlocksInv'
<1>1. PICK p \in Processes : \E k, c : Replied(p, k, c, r) /\ Finished(r, c, k)
  BY WaitedFor
<1>2. PICK k, c : Replied(p, k, c, r) /\ Finished(r, c, k)
  BY <1>1
<1> QED
  BY <1>2, FinishedBlocks

\* Nothing has been called, fed or shown.
LEMMA BlocksInvInitially ==
    ASSUME Init
    PROVE  BlocksInv
<1>1. /\ calls = <<>> /\ fed = [c \in 1 .. MaxCalls |-> <<>>]
      /\ shown = [r \in CipherRequests |-> <<>>] /\ opened = [r \in CipherRequests |-> 0]
      /\ m_watcherQueue = [r \in CipherRequests |-> <<>>]
      /\ m_cipherSessionToken = [r \in CipherRequests |-> 0]
  BY DEF Init
<1>2. DOMAIN calls = {} /\ Len(calls) = 0 /\ MaxCalls \in Nat
  BY <1>1, SessionsAssumption
<1>3. /\ \A r \in CipherRequests : /\ DOMAIN m_watcherQueue[r] = {} /\ m_cipherSessionToken[r] = 0
                                   /\ opened[r] = 0
      /\ \A s \in 1 .. MaxCalls : fed[s] = <<>> /\ DOMAIN fed[s] = {}
  BY <1>1
<1>4. OpenedIsOwn
  BY <1>1, <1>3 DEF OpenedIsOwn
<1>5. SeenInOrder /\ UsesLast
  BY <1>2 DEF SeenInOrder, UsesLast
<1>6. AwaitsLast /\ HoldsLast
  BY <1>3 DEF AwaitsLast, HoldsLast
<1>7. FedInOrder
  <2>1. fed \in [1 .. MaxCalls -> Seq(Nat)] /\ shown \in [CipherRequests -> Seq(Nat)]
    BY <1>1
  <2>2. Len(calls) <= MaxCalls
    BY <1>2
  <2> QED
    BY <1>3, <2>1, <2>2 DEF FedInOrder
<1>8. ShownInOrder
  BY <1>3 DEF ShownInOrder, Ordered
<1> QED
  BY <1>4, <1>5, <1>6, <1>7, <1>8 DEF BlocksInv

\* What a session was fed, what its request has been shown and what it still
\* waits for fit together in every state.
THEOREM BlocksInvAlways == Spec => []BlocksInv
<1>1. Init => BlocksInv
  BY BlocksInvInitially
<1>2. SessionsInv /\ SessionsInv' /\ BlocksInv /\ [Next]_vars => BlocksInv'
  <2> SUFFICES ASSUME SessionsInv, SessionsInv', BlocksInv, [Next]_vars PROVE BlocksInv'
    OBVIOUS
  <2>1. ASSUME NEW r \in CipherRequests, Application(r) PROVE BlocksInv'
    BY <2>1, ApplicationBlocks
  <2>2. ASSUME NEW r \in CipherRequests, WaitForFinished(r) PROVE BlocksInv'
    BY <2>2, WaitForFinishedBlocks
  <2>3. ASSUME NEW r \in CipherRequests, TakeCompleted(r) PROVE BlocksInv'
    BY <2>3, TakeCompletedBlocks
  <2>4. CASE HandlePendingRequest
    BY <2>4, HandlePendingRequestBlocks
  <2>5. CASE RunJob
    BY <2>5, RunJobBlocks
  <2>6. ASSUME NEW c \in DOMAIN calls, KeyLookedUp(c) PROVE BlocksInv'
    BY <2>6, KeyLookedUpBlocks
  <2>7. ASSUME NEW c \in DOMAIN calls, Timeout(c) PROVE BlocksInv'
    BY <2>7, TimeoutBlocks
  <2>8. ASSUME NEW p \in Processes, DeliverEvent(p) PROVE BlocksInv'
    BY <2>8, DeliverEventBlocks
  <2>9. CASE UNCHANGED vars
    <3>1. /\ process' = process /\ calls' = calls /\ astray' = astray
          /\ misfired \subseteq misfired'
          /\ m_cipherSessions' = m_cipherSessions /\ fed' = fed /\ shown' = shown
          /\ m_watcherQueue' = m_watcherQueue /\ opened' = opened
          /\ m_cipherSessionToken' = m_cipherSessionToken
      BY <2>9 DEF vars, client, daemon, application
    <3> QED
      BY <3>1, NothingBlocks
  <2> QED
    BY <2>1, <2>2, <2>3, <2>4, <2>5, <2>6, <2>7, <2>8, <2>9 DEF Next
<1> QED
  BY <1>1, <1>2, SessionsInvAlways, PTL DEF Spec

\* A sequence that agrees with the beginning of another one is a prefix of it.
LEMMA AgreesIsPrefix ==
    ASSUME NEW s \in Seq(Nat), NEW t \in Seq(Nat), Len(s) <= Len(t),
           \A k \in DOMAIN s : s[k] = t[k]
    PROVE  IsPrefix(s, t) /\ (Len(s) = Len(t) => s = t)
<1>1. /\ Len(s) \in Nat /\ Len(t) \in Nat /\ DOMAIN s = 1 .. Len(s) /\ DOMAIN t = 1 .. Len(t)
  OBVIOUS
<1>2. \A v \in Seq(Nat) : Len(v) = Len(s) /\ (\A k \in 1 .. Len(s) : v[k] = s[k]) => v = s
  <2> SUFFICES ASSUME NEW v \in Seq(Nat), Len(v) = Len(s), \A k \in 1 .. Len(s) : v[k] = s[k]
               PROVE  v = s
    OBVIOUS
  <2>1. v \in [1 .. Len(s) -> Nat] /\ s \in [1 .. Len(s) -> Nat]
    OBVIOUS
  <2> QED
    BY ONLY <2>1, \A k \in 1 .. Len(s) : v[k] = s[k]
<1>3. \A v \in Seq(Nat) : Len(s) <= Len(v) =>
        /\ SubSeq(v, 1, Len(s)) \in Seq(Nat) /\ Len(SubSeq(v, 1, Len(s))) = Len(s)
        /\ \A k \in 1 .. Len(s) : SubSeq(v, 1, Len(s))[k] = v[k]
  BY ONLY s \in Seq(Nat)
<1>4. SubSeq(t, 1, Len(s)) = s
  BY <1>1, <1>2, <1>3
<1>5. SubSeq(s, 1, Len(s)) = s
  BY <1>1, <1>2, <1>3
<1>6. Len(s) = Len(t) => s = t
  BY <1>1, <1>2
<1> QED
  BY <1>4, <1>5, <1>6 DEF IsPrefix

\* An application is shown the outputs of its blocks once each and in the order
\* the plugin worked on them; all of them, when no call is under way or the last
\* step has finished, unless a call could not be sent with others under way.
THEOREM BlocksAlwaysInOrder == Spec => []BlocksInOrder
<1>1. SessionsInv /\ BlocksInv => BlocksInOrder
  <2> SUFFICES ASSUME SessionsInv, BlocksInv, NEW r \in CipherRequests, Ordered(r)
               PROVE  /\ IsPrefix(shown[r], fed[opened[r]])
                      /\ m_watcherQueue[r] = <<>> \/ (m_status[r] = "Finished" /\ r \notin disordered)
                            => shown[r] = fed[opened[r]]
    BY DEF BlocksInOrder, Ordered
  <2>1. ShownFirst(r) /\ OthersAwaited(r)
    BY DEF BlocksInv, ShownInOrder
  <2>2. PICK f : f = fed[opened[r]]
    OBVIOUS
  <2>3. PICK s : s = shown[r]
    OBVIOUS
  <2>4. s \in Seq(Nat) /\ f \in Seq(Nat)
    <3>1. opened[r] \in 1 .. MaxCalls
      BY OpenedHasBlocks DEF Ordered
    <3> QED
      BY <2>2, <2>3, <3>1 DEF BlocksInv, FedInOrder
  <2>5. Len(s) <= Len(f) /\ \A k \in DOMAIN s : s[k] = f[k]
    BY <2>1, <2>2, <2>3 DEF ShownFirst
  <2>6. IsPrefix(s, f) /\ (Len(s) = Len(f) => s = f)
    BY <2>4, <2>5, AgreesIsPrefix
  <2>7. ASSUME m_watcherQueue[r] = <<>> \/ (m_status[r] = "Finished" /\ r \notin disordered)
        PROVE  Len(s) = Len(f)
    <3>1. DOMAIN m_watcherQueue[r] = {}
      <4>1. CASE m_watcherQueue[r] = <<>>
        BY <4>1
      <4>2. CASE m_status[r] = "Finished" /\ r \notin disordered
        <5>1. r \notin misfired
          BY DEF Ordered, Undisturbed
        <5>2. Regular(r)
          BY <4>2, <5>1 DEF Regular
        <5> QED
          BY <4>2, <5>2 DEF SessionsInv, Alike
      <4> QED
        BY <2>7, <4>1, <4>2
    <3>2. \A k \in DOMAIN f : ~(k > Len(s))
      BY <2>1, <2>2, <2>3, <3>1 DEF OthersAwaited
    <3>3. Len(f) \in Nat /\ Len(s) \in Nat /\ DOMAIN f = 1 .. Len(f)
      BY <2>4
    <3>4. Len(f) = 0 \/ Len(f) \in DOMAIN f
      BY <3>3
    <3> QED
      BY <2>5, <3>2, <3>3, <3>4
  <2> QED
    BY <2>2, <2>3, <2>6, <2>7
<1> QED
  BY <1>1, SessionsInvAlways, BlocksInvAlways, PTL
=============================================================================
