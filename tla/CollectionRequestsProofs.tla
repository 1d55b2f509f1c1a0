---------------------- MODULE CollectionRequestsProofs ----------------------
(***************************************************************************)
(* Proofs about the requests on collections and standalone secrets, for    *)
(* any number of requests, codes and names.                                *)
(*                                                                         *)
(* The argument: a request is a token which is in one place at a time (the *)
(* pool, the signals, the waiting handler, a dialog), and its own state    *)
(* says where.  The main thread takes it from there and hands it on, the   *)
(* thread of the pool moves it from the pool to the signals.  The handler  *)
(* that waits for a lock check lets nothing into the pool, so the          *)
(* operation that relies on the check is the next job.                     *)
(***************************************************************************)
EXTENDS CollectionRequests, TLAPS, SequenceTheorems, FiniteSetTheorems

-----------------------------------------------------------------------------
(* The inductive invariant *)

Elements(s) == { s[i] : i \in 1 .. Len(s) }

NoRepetition(s) == \A i, j \in 1 .. Len(s) : s[i] = s[j] => i = j

Ats == {"start", "metadata", "locked", "asking", "derive", "run", "done"}
RequestStates ==
    [op : Ops \cup {"none"}, interactive : BOOLEAN, at : Ats,
     withUi : BOOLEAN, metadata : Metadata \cup {Null}, key : Keys,
     asked : BOOLEAN, locked : BOOLEAN, result : Results]
Parameters == [type : Ops \cup UserInputTypes, size : 1 .. 8]

\* What may be stored under name n
MetadataOf(n) == { m \in Metadata : m.keep \in SemanticsOf[n] }

\* The operations that may need the key of something that exists
LockedOps == SecretOps \cup PreChecks \cup {"deleteCollection", "storedKeyIdentifiers"}
KeyedOps == LockedOps \cup {"getStandaloneSecret"}

OpsAt(at) ==
    CASE at = "metadata" -> KeyedOps \cup SetStandaloneOps \cup {"deleteStandaloneSecret"}
      [] at = "locked" -> LockedOps
      [] at = "run" -> Ops \ {"userInput", "findStandaloneSecrets"}
      [] OTHER -> Ops \cup {"none"}

\* The state of a request for name n: what each continuation relies on
Good(n, q) ==
    /\ q \in RequestStates
    /\ q.result # "InternalError"
    /\ q.op \in OpsAt(q.at)
    /\ q.at = "derive" => q.asked
    /\ q.at \notin {"start", "done"} => (q.op \in StandaloneOps <=> n \in Standalone)
    /\ \/ q.at \in {"locked", "derive", "run"}
       \/ q.at = "asking" /\ q.op # "userInput"
       \/ q.at = "metadata" /\ (q.result = "Succeeded" \/ q.op \in SetStandaloneOps)
       => q.metadata \in MetadataOf(n)

\* The dialogs: what is asked, the type that was put aside, the request's own type
Dialogs ==
    (KeyedOps \X {"input", "authentication"})
      \cup ({"createCustomLockCollection", "userInput", "setStandaloneCustomLockSecret"}
              \X {"input"})
UserInputOp(type) ==
    CASE type = "setCollectionUserInputSecret" -> "setCollectionSecret"
      [] type = "setStandaloneDeviceLockUserInputSecret" ->
           "setStandaloneDeviceLockSecret"
      [] type = "setStandaloneCustomLockUserInputSecret" ->
           "setStandaloneCustomLockSecret"

\* The parameters p were put aside for a dialog of kind k by a request of type op
FitsDialog(op, k, p) ==
    /\ p \in Parameters
    /\ p.size = Expected(k, p.type)
    /\ \/ p.type = op /\ <<op, k>> \in Dialogs
       \/ p.type \in UserInputTypes /\ k = "input" /\ op = UserInputOp(p.type)

\* Where request r is: P and E are the requests of the pool and of the signals
Place(r, q, P, E, b, i) ==
    /\ r \in P => q.at \in {"metadata", "locked", "derive", "run"}
    /\ r \in E => q.at \in {"metadata", "derive", "run"} /\ r \notin P
    /\ q.at \in {"metadata", "derive", "run"} => r \in P \cup E
    /\ b = r <=> q.at = "locked"
    /\ i # "none" <=> q.at = "asking"

Typed ==
    /\ name \in Names
    /\ collection \in [metadata : MetadataOf(name), key : Keys] \cup {Null}
    /\ opened \in BOOLEAN
    /\ m_collectionEncryptionKeys \in Keys \cup {Null}
    /\ secret \in [metadata : MetadataOf(name), key : Keys] \cup {Null}
    /\ m_standaloneSecretEncryptionKeys \in Keys \cup {Null}
    /\ m_pendingRequests \in [Requests -> Parameters \cup {Null}]
    /\ interaction \in [Requests -> {"none", "input", "authentication"}]
    /\ request \in [Requests -> RequestStates]
    /\ pool \in Seq(Requests) /\ NoRepetition(pool)
    /\ events \in Seq(Requests) /\ NoRepetition(events)
    /\ blocked \in Requests \cup {Null}

Placed ==
    \A r \in Requests :
      /\ Good(name, request[r])
      /\ Place(r, request[r], Elements(pool), Elements(events), blocked, interaction[r])
      /\ interaction[r] # "none" =>
           FitsDialog(request[r].op, interaction[r], m_pendingRequests[r])

\* Only an encrypted storage plugin has something open.
OpenExists == opened => IsEncrypted /\ collection # Null

\* An operation on an encrypted collection for which nobody was asked
Unasked(q) ==
    q.at = "run" /\ ~q.asked /\ q.op \notin CreateOps \cup StandaloneOps

\* The lock check is the last job, then nothing is in the pool; what relies on
\* it is the next job, and what it saw is still so.
CheckHolds ==
    /\ \A r \in Requests : blocked = r =>
         IF r \in Elements(pool) THEN pool[Len(pool)] = r
         ELSE /\ pool = <<>>
              /\ request[r].result = "Succeeded" /\ ~request[r].locked => opened
    /\ \A r \in Requests :
         IsEncrypted /\ Unasked(request[r]) /\ r \in Elements(pool) =>
           opened /\ r = Head(pool)

CollectionInv ==
    /\ Typed /\ Placed /\ OpenExists /\ CheckHolds
    /\ NeverAskedNeverWrong /\ EveryAccessAsks

-----------------------------------------------------------------------------
(* The lists of jobs and of signals *)

\* A job or a signal is appended.
LEMMA AppendElements ==
    ASSUME NEW S, NEW s \in Seq(S), NEW e \in S
    PROVE  /\ Append(s, e) \in Seq(S)
           /\ Elements(Append(s, e)) = Elements(s) \cup {e}
           /\ e \notin Elements(s) /\ NoRepetition(s) => NoRepetition(Append(s, e))
           /\ Append(s, e)[Len(Append(s, e))] = e
           /\ s = <<>> => Head(Append(s, e)) = e
           /\ s # <<>> => Head(Append(s, e)) = Head(s)
<1> DEFINE t == Append(s, e)
<1>1. /\ t \in Seq(S) /\ Len(t) = Len(s) + 1 /\ Len(s) \in Nat
      /\ \A i \in 1 .. Len(s) : t[i] = s[i]
      /\ t[Len(s) + 1] = e
  BY AppendProperties, LenProperties
<1>2. s # <<>> => 1 \in 1 .. Len(s)
  BY LenProperties, EmptySeq
<1>3. s = <<>> => Len(s) = 0
  BY EmptySeq
<1>4. Head(t) = t[1] /\ (s # <<>> => Head(s) = s[1])
  BY <1>1, HeadTailProperties, EmptySeq
<1> HIDE DEF t
<1>5. 1 .. Len(t) = (1 .. Len(s)) \cup {Len(s) + 1} /\ Len(s) + 1 \notin 1 .. Len(s)
  BY <1>1
<1>6. Elements(t) = Elements(s) \cup {e}
  BY <1>1, <1>5 DEF Elements
<1>7. e \notin Elements(s) /\ NoRepetition(s) => NoRepetition(t)
  BY <1>1, <1>5 DEF Elements, NoRepetition
<1> QED
  BY <1>1, <1>2, <1>3, <1>4, <1>6, <1>7 DEF t

\* The first job or signal is taken.
LEMMA TailElements ==
    ASSUME NEW S, NEW s \in Seq(S), s # <<>>, NoRepetition(s)
    PROVE  /\ Tail(s) \in Seq(S) /\ NoRepetition(Tail(s))
           /\ Head(s) \in Elements(s) /\ Head(s) \in S
           /\ Elements(Tail(s)) = Elements(s) \ {Head(s)}
           /\ Tail(s) # <<>> => Tail(s)[Len(Tail(s))] = s[Len(s)]
           /\ s[Len(s)] = Head(s) => Tail(s) = <<>>
           /\ s[Len(s)] # Head(s) => Tail(s) # <<>>
<1> DEFINE t == Tail(s)
<1>1. /\ t \in Seq(S) /\ Len(t) = Len(s) - 1 /\ Len(s) \in Nat /\ Len(s) > 0
      /\ \A i \in 1 .. Len(t) : t[i] = s[i + 1]
      /\ Head(s) = s[1] /\ Head(s) \in S
  BY HeadTailProperties, LenProperties, EmptySeq
<1>2. t = <<>> <=> Len(t) = 0
  BY <1>1, EmptySeq
<1> HIDE DEF t
<1>3. NoRepetition(t)
  BY <1>1 DEF NoRepetition
<1>4. Elements(t) = Elements(s) \ {s[1]} /\ s[1] \in Elements(s)
  <2>1. \A x \in Elements(t) : x \in Elements(s) /\ x # s[1]
    BY <1>1 DEF Elements, NoRepetition
  <2>2. \A x \in Elements(s) : x # s[1] => x \in Elements(t)
    <3>1. SUFFICES ASSUME NEW i \in 1 .. Len(s), s[i] # s[1] PROVE s[i] \in Elements(t)
      BY DEF Elements
    <3>2. i - 1 \in 1 .. Len(t) /\ t[i - 1] = s[i]
      BY <3>1, <1>1
    <3> QED BY <3>2 DEF Elements
  <2>3. s[1] \in Elements(s)
    BY <1>1 DEF Elements
  <2> QED BY <2>1, <2>2, <2>3
<1>5. t # <<>> => t[Len(t)] = s[Len(s)]
  BY <1>1, <1>2
<1>6. s[Len(s)] = s[1] <=> Len(s) = 1
  BY <1>1 DEF NoRepetition
<1> QED
  BY <1>1, <1>2, <1>3, <1>4, <1>5, <1>6 DEF t

\* A list without repetitions is not longer than the number of requests.
LEMMA LengthBound ==
    ASSUME NEW S, IsFiniteSet(S), NEW s \in Seq(S), NoRepetition(s)
    PROVE  Len(s) <= Cardinality(S)
<1>1. Len(s) \in Nat /\ s \in [1 .. Len(s) -> S]
  BY LenProperties
<1>2. s \in Injection(1 .. Len(s), S)
  BY <1>1 DEF Injection, IsInjective, NoRepetition
<1>3. Cardinality(1 .. Len(s)) <= Cardinality(S)
  BY <1>2, FS_Injection
<1>4. Cardinality(1 .. Len(s)) = Len(s)
  BY <1>1, FS_Interval
<1> QED BY <1>3, <1>4

\* In a list without repetitions a request occurs once or not at all.
LEMMA CountElements ==
    ASSUME NEW S, NEW s \in Seq(S), NoRepetition(s), NEW r
    PROVE  Count(r, s) = IF r \in Elements(s) THEN 1 ELSE 0
<1> DEFINE places == { i \in 1 .. Len(s) : s[i] = r }
<1>1. CASE r \in Elements(s)
  <2>1. PICK k \in 1 .. Len(s) : s[k] = r
    BY <1>1 DEF Elements
  <2>2. places = {k}
    BY <2>1 DEF NoRepetition
  <2> QED BY <1>1, <2>2, FS_Singleton DEF Count
<1>2. CASE r \notin Elements(s)
  <2>1. places = {}
    BY <1>2 DEF Elements
  <2> QED BY <1>2, <2>1, FS_EmptySet DEF Count
<1> QED BY <1>1, <1>2

-----------------------------------------------------------------------------
(* What a step of the main thread and a job of the pool do to a request *)

CachesTyped ==
    /\ m_collectionEncryptionKeys \in Keys \cup {Null}
    /\ m_standaloneSecretEncryptionKeys \in Keys \cup {Null}

\* The main thread takes r where it was.
Taken(r) ==
    \/ MainFree /\ request[r].at = "start" /\ UNCHANGED events
    \/ MainFree /\ events # <<>> /\ r = Head(events) /\ events' = Tail(events)
    \/ MainFree /\ interaction[r] # "none" /\ UNCHANGED events
    \/ blocked = r /\ r \notin Elements(pool) /\ UNCHANGED events

\* The dialogs of the others are left alone.
DialogsOf(r) ==
    /\ m_pendingRequests' \in [Requests -> Parameters \cup {Null}]
    /\ interaction' \in [Requests -> {"none", "input", "authentication"}]
    /\ \A s \in Requests : s # r =>
         /\ m_pendingRequests'[s] = m_pendingRequests[s]
         /\ interaction'[s] = interaction[s]

\* r has no dialog.
Shut(r) == DialogsOf(r) /\ interaction'[r] = "none"

Moved(r, q) == request' = [request EXCEPT ![r] = q] /\ Good(name, q)

\* The request is over.
Replied(r) ==
    /\ \E q : Moved(r, q) /\ q.at = "done"
    /\ UNCHANGED pool

\* A job of r goes to the pool.  Without a question to the user it may use an
\* encrypted collection only if that is open and nothing can come before it.
Sent(r) ==
    /\ \E q : /\ Moved(r, q) /\ q.at \in {"metadata", "derive", "run"}
              /\ q.at = "run" => q.result = "Pending"
              /\ IsEncrypted /\ Unasked(q) => pool = <<>> /\ opened
    /\ pool' = Append(pool, r)

\* The main thread waits for the lock check.
Waits(r) ==
    /\ \E q : Moved(r, q) /\ q.at = "locked"
    /\ pool' = Append(pool, r)

\* r has a dialog whose completion will find its parameters.
Asked(r) ==
    /\ DialogsOf(r)
    /\ \E q : /\ Moved(r, q) /\ q.at = "asking"
              /\ FitsDialog(q.op, interaction'[r], m_pendingRequests'[r])
    /\ interaction'[r] # "none"
    /\ UNCHANGED pool

Handed(r) ==
    /\ CachesTyped'
    /\ \/ /\ Asked(r) \/ (Shut(r) /\ (Replied(r) \/ Sent(r)))
          /\ blocked' = Null
       \/ Shut(r) /\ Waits(r) /\ blocked' = r

MainStep(r) == Taken(r) /\ Handed(r) /\ UNCHANGED storage

\* An encrypted collection that is relocked after each access
Relocked == IsEncrypted /\ SemanticsOf[name] = {FALSE} /\ name \notin Faulty

\* The thread of the pool does r's job, which leaves it in state q.
Worked(r, q) ==
    /\ Moved(r, q)
    /\ q.at = request[r].at /\ q.op = request[r].op /\ q.asked = request[r].asked
    /\ IF q.at = "locked"
         THEN /\ UNCHANGED <<events, storage>>
              /\ q.result = "Succeeded" /\ ~q.locked => opened
         ELSE events' = Append(events, r)
    /\ q.at = "run" =>
         /\ name \notin Standalone /\ q.result = "WrongKey" => q.asked
         /\ Relocked /\ q.result = "Succeeded" /\ q.op \notin CreateOps => q.asked

PoolStep(r) ==
    /\ pool # <<>> /\ r = Head(pool) /\ pool' = Tail(pool)
    /\ \E q : Worked(r, q)
    /\ collection' \in [metadata : MetadataOf(name), key : Keys] \cup {Null}
    /\ secret' \in [metadata : MetadataOf(name), key : Keys] \cup {Null}
    /\ opened' \in BOOLEAN
    /\ opened' => IsEncrypted /\ collection' # Null
    /\ Relocked => ~opened'
    /\ UNCHANGED <<name, caches, dialogs, blocked>>

\* One request moves: the types of the others are those they had.
LEMMA MovedTyped ==
    ASSUME NEW r \in Requests, Typed, NEW q, Moved(r, q), name' = name, Placed
    PROVE  /\ request' \in [Requests -> RequestStates]
           /\ request'[r] = q
           /\ \A s \in Requests : s # r => request'[s] = request[s]
           /\ \A s \in Requests : Good(name', request'[s])
BY DEF Typed, Moved, Good, Placed

\* A request the main thread has taken is nowhere else.
LEMMA TakenNowhere ==
    ASSUME NEW r \in Requests, CollectionInv, Taken(r)
    PROVE  /\ r \notin Elements(pool) /\ r \notin Elements(events')
           /\ events' \in Seq(Requests) /\ NoRepetition(events')
           /\ \A s \in Requests : s # r => (s \in Elements(events') <=> s \in Elements(events))
           /\ blocked \in {Null, r}
           /\ blocked = r => pool = <<>>
<1> USE DEF CollectionInv, Typed
<1>1. Place(r, request[r], Elements(pool), Elements(events), blocked, interaction[r])
  BY DEF Placed
<1>2. events # <<>> =>
        /\ Tail(events) \in Seq(Requests) /\ NoRepetition(Tail(events))
        /\ Head(events) \in Elements(events)
        /\ Elements(Tail(events)) = Elements(events) \ {Head(events)}
  BY TailElements
<1>3. CASE MainFree /\ request[r].at = "start" /\ UNCHANGED events
  BY <1>1, <1>3 DEF Place, MainFree
<1>4. CASE MainFree /\ events # <<>> /\ r = Head(events) /\ events' = Tail(events)
  BY <1>1, <1>2, <1>4, RequestsAssumption DEF Place, MainFree
<1>5. CASE MainFree /\ interaction[r] # "none" /\ UNCHANGED events
  BY <1>1, <1>5, RequestsAssumption DEF Place, MainFree
<1>6. CASE blocked = r /\ r \notin Elements(pool) /\ UNCHANGED events
  BY <1>1, <1>6 DEF Place, CheckHolds
<1> QED BY <1>3, <1>4, <1>5, <1>6 DEF Taken

\* The places of the requests after r has moved: P and E are the requests of
\* the pool and of the signals, b is the one that waits.
LEMMA PlacesKept ==
    ASSUME NEW r \in Requests, Typed, Placed, NEW q, Moved(r, q), name' = name,
           pool' \in Seq(Requests), events' \in Seq(Requests), DialogsOf(r),
           \A s \in Requests : s # r =>
             /\ s \in Elements(pool') <=> s \in Elements(pool)
             /\ s \in Elements(events') <=> s \in Elements(events)
             /\ blocked' = s <=> blocked = s,
           Place(r, q, Elements(pool'), Elements(events'), blocked', interaction'[r]),
           interaction'[r] # "none" =>
             FitsDialog(q.op, interaction'[r], m_pendingRequests'[r])
    PROVE  Placed'
<1>1. /\ request'[r] = q
      /\ \A s \in Requests : s # r => request'[s] = request[s]
      /\ \A s \in Requests : Good(name', request'[s])
  BY MovedTyped
<1>2. SUFFICES ASSUME NEW s \in Requests
               PROVE  /\ Place(s, request'[s], Elements(pool'), Elements(events'),
                               blocked', interaction'[s])
                      /\ interaction'[s] # "none" =>
                           FitsDialog(request'[s].op, interaction'[s], m_pendingRequests'[s])
  BY <1>1 DEF Placed
<1>3. CASE s = r
  BY <1>1, <1>3
<1>4. CASE s # r
  <2>1. /\ Place(s, request[s], Elements(pool), Elements(events), blocked, interaction[s])
        /\ interaction[s] # "none" =>
             FitsDialog(request[s].op, interaction[s], m_pendingRequests[s])
    BY DEF Placed
  <2>2. /\ request'[s] = request[s] /\ interaction'[s] = interaction[s]
        /\ m_pendingRequests'[s] = m_pendingRequests[s]
    BY <1>1, <1>4 DEF DialogsOf
  <2> QED BY <2>1, <2>2, <1>4 DEF Place
<1> QED BY <1>3, <1>4

\* A step of the main thread preserves the invariant.
LEMMA MainStepInv ==
    ASSUME NEW r \in Requests, CollectionInv, MainStep(r)
    PROVE  CollectionInv'
<1> USE DEF CollectionInv
<1>1. /\ Typed /\ Placed /\ Taken(r) /\ Handed(r)
      /\ name' = name /\ collection' = collection /\ opened' = opened /\ secret' = secret
  BY DEF MainStep, storage
<1>2. /\ r \notin Elements(pool) /\ r \notin Elements(events')
      /\ events' \in Seq(Requests) /\ NoRepetition(events')
      /\ \A s \in Requests : s # r => (s \in Elements(events') <=> s \in Elements(events))
      /\ blocked \in {Null, r}
      /\ blocked = r => pool = <<>>
  BY <1>1, TakenNowhere
<1>3. Null \notin Requests
  BY RequestsAssumption
<1>4. /\ pool \in Seq(Requests) /\ NoRepetition(pool)
      /\ Append(pool, r) \in Seq(Requests)
      /\ Elements(Append(pool, r)) = Elements(pool) \cup {r}
      /\ NoRepetition(Append(pool, r))
      /\ Append(pool, r)[Len(Append(pool, r))] = r
      /\ pool = <<>> => Head(Append(pool, r)) = r
      /\ pool # <<>> => Head(Append(pool, r)) = Head(pool)
  BY <1>1, <1>2, AppendElements DEF Typed
<1>5. DialogsOf(r) /\ CachesTyped'
  BY <1>1 DEF Handed, Asked, Shut
<1>6. PICK q : /\ Moved(r, q)
               /\ \/ /\ q.at = "done" /\ pool' = pool /\ blocked' = Null
                     /\ interaction'[r] = "none"
                  \/ /\ q.at \in {"metadata", "derive", "run"}
                     /\ q.at = "run" => q.result = "Pending"
                     /\ IsEncrypted /\ Unasked(q) => pool = <<>> /\ opened
                     /\ pool' = Append(pool, r) /\ blocked' = Null
                     /\ interaction'[r] = "none"
                  \/ /\ q.at = "locked" /\ pool' = Append(pool, r) /\ blocked' = r
                     /\ interaction'[r] = "none"
                  \/ /\ q.at = "asking" /\ pool' = pool /\ blocked' = Null
                     /\ interaction'[r] # "none"
                     /\ FitsDialog(q.op, interaction'[r], m_pendingRequests'[r])
  <2>1. CASE Asked(r) /\ blocked' = Null
    BY <2>1 DEF Asked
  <2>2. CASE Shut(r) /\ Replied(r) /\ blocked' = Null
    BY <2>2 DEF Shut, Replied
  <2>3. CASE Shut(r) /\ Sent(r) /\ blocked' = Null
    BY <2>3 DEF Shut, Sent
  <2>4. CASE Shut(r) /\ Waits(r) /\ blocked' = r
    BY <2>4 DEF Shut, Waits
  <2> QED BY <1>1, <2>1, <2>2, <2>3, <2>4 DEF Handed
<1>7. /\ request' \in [Requests -> RequestStates]
      /\ request'[r] = q
      /\ \A s \in Requests : s # r => request'[s] = request[s]
  BY <1>1, <1>6, MovedTyped
<1>8. /\ pool' \in Seq(Requests) /\ NoRepetition(pool')
      /\ \A s \in Requests : s # r => (s \in Elements(pool') <=> s \in Elements(pool))
      /\ r \in Elements(pool') <=> q.at \in {"metadata", "derive", "run", "locked"}
      /\ pool # <<>> => Head(pool') = Head(pool)
      /\ pool = <<>> /\ r \in Elements(pool') => Head(pool') = r
  BY <1>2, <1>4, <1>6
<1>9. blocked' \in Requests \cup {Null}
  BY <1>6
<1>10. Typed'
  BY <1>1, <1>2, <1>5, <1>7, <1>8, <1>9 DEF Typed, CachesTyped, DialogsOf
<1>11. Placed'
  <2>1. Place(r, q, Elements(pool'), Elements(events'), blocked', interaction'[r])
    BY <1>2, <1>3, <1>6, <1>8 DEF Place
  <2>2. interaction'[r] # "none" =>
          FitsDialog(q.op, interaction'[r], m_pendingRequests'[r])
    BY <1>6
  <2>3. \A s \in Requests : s # r => (blocked' = s <=> blocked = s)
    BY <1>2, <1>3, <1>6
  <2> QED BY <1>1, <1>2, <1>5, <1>6, <1>8, <2>1, <2>2, <2>3, PlacesKept
<1>12. OpenExists'
  BY <1>1 DEF OpenExists, IsEncrypted
<1>13. CheckHolds'
  <2>1. ASSUME NEW s \in Requests, blocked' = s
        PROVE  s \in Elements(pool') /\ pool'[Len(pool')] = s
    BY <1>3, <1>4, <1>6, <1>8, <2>1
  <2>2. ASSUME NEW s \in Requests,
               IsEncrypted', Unasked(request'[s]), s \in Elements(pool')
        PROVE  opened' /\ s = Head(pool')
    <3>1. IsEncrypted
      BY <1>1, <2>2 DEF IsEncrypted
    <3>2. CASE s = r
      BY <3>1, <3>2, <2>2, <1>1, <1>6, <1>7, <1>8 DEF Unasked
    <3>3. CASE s # r
      <4>1. opened /\ s = Head(pool)
        BY <3>1, <3>3, <2>2, <1>7, <1>8 DEF CheckHolds
      <4>2. pool # <<>>
        BY <3>3, <2>2, <1>8, EmptySeq DEF Elements
      <4> QED BY <4>1, <4>2, <1>1, <1>8
    <3> QED BY <3>2, <3>3
  <2> QED BY <2>1, <2>2 DEF CheckHolds
<1>14. NeverAskedNeverWrong'
  <2>1. q.at = "run" => q.result = "Pending"
    BY <1>6
  <2> QED BY <1>1, <1>7, <2>1 DEF NeverAskedNeverWrong
<1>15. EveryAccessAsks'
  <2>1. q.at = "run" => q.result = "Pending"
    BY <1>6
  <2> QED BY <1>1, <1>7, <2>1 DEF EveryAccessAsks, IsEncrypted
<1> QED BY <1>10, <1>11, <1>12, <1>13, <1>14, <1>15

\* A job of the pool preserves the invariant.
LEMMA PoolStepInv ==
    ASSUME NEW r \in Requests, CollectionInv, PoolStep(r)
    PROVE  CollectionInv'
<1> USE DEF CollectionInv
<1>1. /\ Typed /\ Placed
      /\ name' = name /\ blocked' = blocked
      /\ m_collectionEncryptionKeys' = m_collectionEncryptionKeys
      /\ m_standaloneSecretEncryptionKeys' = m_standaloneSecretEncryptionKeys
      /\ m_pendingRequests' = m_pendingRequests /\ interaction' = interaction
      /\ pool # <<>> /\ r = Head(pool) /\ pool' = Tail(pool)
  BY DEF PoolStep, caches, dialogs
<1>2. PICK q : Worked(r, q)
  BY DEF PoolStep
<1>3. Moved(r, q) /\ DialogsOf(r)
  BY <1>1, <1>2 DEF Worked, DialogsOf, Typed
<1>4. /\ request' \in [Requests -> RequestStates]
      /\ request'[r] = q
      /\ \A s \in Requests : s # r => request'[s] = request[s]
  BY <1>1, <1>3, MovedTyped
<1>5. /\ pool \in Seq(Requests) /\ NoRepetition(pool)
      /\ pool' \in Seq(Requests) /\ NoRepetition(pool')
      /\ r \in Elements(pool)
      /\ Elements(pool') = Elements(pool) \ {r}
      /\ pool' # <<>> => pool'[Len(pool')] = pool[Len(pool)]
      /\ pool[Len(pool)] = r => pool' = <<>>
      /\ pool[Len(pool)] # r => pool' # <<>>
  BY <1>1, TailElements DEF Typed
<1>6. /\ Place(r, request[r], Elements(pool), Elements(events), blocked, interaction[r])
      /\ r \notin Elements(events)
      /\ q.at = request[r].at
      /\ q.at \in {"metadata", "locked", "derive", "run"}
      /\ interaction[r] = "none"
  BY <1>1, <1>2, <1>5 DEF Placed, Place, Worked
<1>7. /\ events' \in Seq(Requests) /\ NoRepetition(events')
      /\ \A s \in Requests : s # r => (s \in Elements(events') <=> s \in Elements(events))
      /\ r \in Elements(events') <=> q.at # "locked"
  <2>1. events \in Seq(Requests) /\ NoRepetition(events)
    BY <1>1 DEF Typed
  <2>2. CASE q.at = "locked"
    BY <2>1, <2>2, <1>2, <1>6 DEF Worked
  <2>3. CASE q.at # "locked"
    <3>1. events' = Append(events, r)
      BY <2>3, <1>2 DEF Worked
    <3>2. /\ events' \in Seq(Requests) /\ NoRepetition(events')
          /\ Elements(events') = Elements(events) \cup {r}
      BY <2>1, <3>1, <1>6, AppendElements
    <3> QED BY <3>2, <2>3
  <2> QED BY <2>2, <2>3
<1>8. Typed'
  BY <1>1, <1>4, <1>5, <1>7 DEF Typed, PoolStep
<1>9. Placed'
  <2>1. Place(r, q, Elements(pool'), Elements(events'), blocked', interaction'[r])
    BY <1>1, <1>5, <1>6, <1>7 DEF Place
  <2>2. \A s \in Requests : s # r => (s \in Elements(pool') <=> s \in Elements(pool))
    BY <1>5
  <2>3. interaction'[r] = "none"
    BY <1>1, <1>6
  <2> QED BY <1>1, <1>3, <1>5, <1>7, <2>1, <2>2, <2>3, PlacesKept
<1>10. OpenExists'
  BY <1>1 DEF PoolStep, OpenExists, IsEncrypted
<1>11. CheckHolds'
  <2>1. ASSUME NEW s \in Requests, blocked' = s
        PROVE  IF s \in Elements(pool') THEN pool'[Len(pool')] = s
               ELSE /\ pool' = <<>>
                    /\ request'[s].result = "Succeeded" /\ ~request'[s].locked => opened'
    <3>1. blocked = s
      BY <2>1, <1>1
    <3>2. CASE s = r
      <4>1. pool[Len(pool)] = r
        BY <3>1, <3>2, <1>5 DEF CheckHolds
      <4>2. q.at = "locked"
        BY <3>1, <3>2, <1>6 DEF Place
      <4>3. q.result = "Succeeded" /\ ~q.locked => opened'
        BY <4>2, <1>2 DEF Worked, storage
      <4> QED BY <3>2, <4>1, <4>3, <1>4, <1>5
    <3>3. CASE s # r
      <4>1. s \in Elements(pool) /\ pool[Len(pool)] = s
        BY <3>1, <1>1 DEF CheckHolds
      <4>2. s \in Elements(pool') /\ pool' # <<>>
        BY <4>1, <3>3, <1>5
      <4> QED BY <4>1, <4>2, <1>5
    <3> QED BY <3>2, <3>3
  <2>2. ASSUME NEW s \in Requests,
               IsEncrypted', Unasked(request'[s]), s \in Elements(pool')
        PROVE  FALSE
    <3>1. s # r /\ s \in Elements(pool) /\ request'[s] = request[s]
      BY <2>2, <1>4, <1>5
    <3>2. s = Head(pool)
      BY <3>1, <2>2, <1>1 DEF CheckHolds, IsEncrypted
    <3> QED BY <3>1, <3>2, <1>1
  <2> QED BY <2>1, <2>2 DEF CheckHolds
<1>12. NeverAskedNeverWrong'
  BY <1>1, <1>2, <1>4 DEF NeverAskedNeverWrong, Worked
<1>13. EveryAccessAsks'
  <2>1. Relocked => ~opened'
    BY DEF PoolStep
  <2>2. Relocked /\ q.at = "run" /\ q.result = "Succeeded" /\ q.op \notin CreateOps => q.asked
    BY <1>2 DEF Worked
  <2> QED BY <1>1, <1>4, <2>1, <2>2 DEF EveryAccessAsks, IsEncrypted, Relocked
<1> QED BY <1>8, <1>9, <1>10, <1>11, <1>12, <1>13

-----------------------------------------------------------------------------
(* The steps the handlers have in common *)

\* The state of a request whose operation has what it needs to run
Ready(q) ==
    /\ q.op \in OpsAt("run") /\ (q.op \in StandaloneOps <=> name \in Standalone)
    /\ q.metadata \in MetadataOf(name) /\ q.asked \in BOOLEAN
    /\ IsEncrypted /\ ~q.asked /\ q.op \notin CreateOps \cup StandaloneOps =>
         pool = <<>> /\ opened

\* requestFinished() is a reply.
LEMMA FinishReplies ==
    ASSUME NEW r \in Requests, NEW x \in Results \ {"InternalError"}, Finish(r, x)
    PROVE  Replied(r)
<1> DEFINE q == [Blank EXCEPT !.at = "done", !.result = x]
<1>1. Good(name, q) /\ q.at = "done"
  BY DEF Good, Blank, RequestStates, OpsAt, Results, Ats, Keys
<1>2. request' = [request EXCEPT ![r] = q] /\ pool' = pool
  BY DEF Finish
<1> QED BY <1>1, <1>2 DEF Replied, Moved

\* An operation with all it needs goes to the pool.
LEMMA RunWithSends ==
    ASSUME NEW r \in Requests, NEW q, Ready(q), NEW key \in Keys, RunWith(r, q, key)
    PROVE  Sent(r)
<1> DEFINE n == [Blank EXCEPT !.at = "run", !.op = q.op, !.asked = q.asked,
                              !.metadata = q.metadata, !.key = key]
<1>1. /\ n.at = "run" /\ n.result = "Pending" /\ n.op = q.op /\ n.asked = q.asked
      /\ n.metadata = q.metadata
  BY DEF Blank
<1>2. n \in RequestStates
  BY DEF Blank, RequestStates, Ready, Results, Ats, MetadataOf, OpsAt
<1>3. request' = [request EXCEPT ![r] = n] /\ pool' = Append(pool, r)
  BY DEF RunWith, Run
<1> HIDE DEF n
<1>4. Good(name, n)
  BY <1>1, <1>2 DEF Good, Ready
<1>5. IsEncrypted /\ Unasked(n) => pool = <<>> /\ opened
  BY <1>1 DEF Unasked, Ready
<1> QED BY <1>1, <1>3, <1>4, <1>5 DEF Sent, Moved

\* The continuation with a key gives the operation to the pool.
LEMMA WithKeySends ==
    ASSUME NEW r \in Requests, Typed, NEW q, Ready(q), q.op \in KeyedOps,
           NEW key \in Keys, WithEncryptionKey(r, q, key)
    PROVE  Sent(r) /\ CachesTyped'
<1>1. CASE q.op \in SecretOps
  <2>1. CacheAndRun(r, q, key)
    BY <1>1 DEF WithEncryptionKey, SecretOps, setCollectionSecretWithEncryptionKey,
                getCollectionSecretWithEncryptionKey,
                findCollectionSecretsWithEncryptionKey,
                deleteCollectionSecretWithEncryptionKey
  <2>2. RunWith(r, q, key) /\ CachesTyped'
    BY <2>1 DEF CacheAndRun, CachesTyped, Typed
  <2> QED BY <2>2, RunWithSends
<1>2. CASE q.op \in PreChecks \cup {"deleteCollection", "storedKeyIdentifiers"}
  <2>1. RunWith(r, q, key) /\ UNCHANGED caches
    BY <1>2 DEF WithEncryptionKey, PreChecks, deleteCollectionWithEncryptionKey,
                storedKeyIdentifiersWithEncryptionKey,
                useCollectionKeyPreCheckWithEncryptionKey,
                setCollectionKeyPreCheckWithEncryptionKey
  <2>2. CachesTyped'
    BY <2>1 DEF caches, CachesTyped, Typed
  <2> QED BY <2>1, <2>2, RunWithSends
<1>3. CASE q.op = "getStandaloneSecret"
  <2> DEFINE used == IF ~IsEncrypted /\ m_standaloneSecretEncryptionKeys # Null
                       THEN m_standaloneSecretEncryptionKeys ELSE key
  <2>1. used \in Keys
    BY DEF Typed
  <2>2. RunWith(r, q, used) /\ CachesTyped'
    BY <1>3, <2>1 DEF WithEncryptionKey, getStandaloneSecretWithEncryptionKey,
                      CachesTyped, Typed
  <2> QED BY <2>1, <2>2, RunWithSends
<1> QED BY <1>1, <1>2, <1>3 DEF KeyedOps, LockedOps

\* A request without a dialog
LEMMA NoDialogShuts ==
    ASSUME NEW r \in Requests, Typed, NoDialog(r)
    PROVE  Shut(r)
BY DEF NoDialog, Shut, DialogsOf, Typed

\* A request that had no dialog and gets none
LEMMA UnchangedShuts ==
    ASSUME NEW r \in Requests, Typed, UNCHANGED dialogs, interaction[r] = "none"
    PROVE  Shut(r)
BY DEF dialogs, Shut, DialogsOf, Typed

\* The caches keep their types.
LEMMA CachesKept ==
    ASSUME Typed, UNCHANGED caches
    PROVE  CachesTyped'
BY DEF caches, CachesTyped, Typed

\* The parameters put aside are those that will be looked for.
LEMMA AskAsks ==
    ASSUME NEW r \in Requests, Typed, NEW q \in RequestStates,
           NEW kind \in {"input", "authentication"}, NEW type,
           Ask(r, q, kind, type),
           q.result # "InternalError", q.op \in Ops,
           q.op \in StandaloneOps <=> name \in Standalone,
           q.op # "userInput" => q.metadata \in MetadataOf(name),
           FitsDialog(q.op, kind, [type |-> type, size |-> PutAside(kind, type)])
    PROVE  Asked(r) \/ (Shut(r) /\ Replied(r))
<1> DEFINE p == [type |-> type, size |-> PutAside(kind, type)]
           n == [q EXCEPT !.at = "asking"]
<1>1. CASE Finish(r, "Failed") /\ NoDialog(r)
  BY <1>1, FinishReplies, NoDialogShuts DEF Results
<1>2. CASE /\ interaction' = [interaction EXCEPT ![r] = kind]
           /\ m_pendingRequests' = [m_pendingRequests EXCEPT ![r] = p]
           /\ request' = [request EXCEPT ![r] = n]
           /\ UNCHANGED pool
  <2>1. p \in Parameters
    BY DEF FitsDialog
  <2>2. n \in RequestStates /\ n.at = "asking" /\ n.op = q.op /\ n.result = q.result
        /\ n.metadata = q.metadata
    BY DEF RequestStates, Ats
  <2>3. Good(name, n)
    BY <2>2 DEF Good, OpsAt
  <2> HIDE DEF p, n
  <2>4. DialogsOf(r) /\ interaction'[r] = kind /\ m_pendingRequests'[r] = p
    BY <1>2, <2>1 DEF DialogsOf, Typed
  <2>5. FitsDialog(n.op, kind, p)
    BY <2>2 DEF p
  <2> QED BY <1>2, <2>2, <2>3, <2>4, <2>5 DEF Asked, Moved
<1> QED BY <1>1, <1>2 DEF Ask

\* For each type of dialog userInputInteractionCompleted or
\* authenticationCompleted expects what was put aside.
LEMMA KeyDialogFits ==
    ASSUME NEW op, NEW kind, <<op, kind>> \in Dialogs
    PROVE  FitsDialog(op, kind, [type |-> op, size |-> PutAside(kind, op)])
<1>1. /\ op \in KeyedOps /\ kind \in {"input", "authentication"}
      \/ /\ op \in {"createCustomLockCollection", "userInput",
                    "setStandaloneCustomLockSecret"}
         /\ kind = "input"
  BY DEF Dialogs
<1>2. op \in Ops
  BY <1>1 DEF KeyedOps, LockedOps, Ops, CreateOps, StandaloneOps, SetStandaloneOps
<1>3. PutAside(kind, op) = Expected(kind, op) /\ PutAside(kind, op) \in 1 .. 8
  BY <1>1 DEF KeyedOps, LockedOps, SecretOps, PreChecks, PutAside, Expected
<1> QED BY <1>2, <1>3 DEF FitsDialog, Parameters

\* The same where the user enters the secret itself
LEMMA InputDialogFits ==
    ASSUME NEW type \in UserInputTypes
    PROVE  FitsDialog(UserInputOp(type), "input",
                      [type |-> type, size |-> PutAside("input", type)])
<1>1. /\ PutAside("input", type) = Expected("input", type)
      /\ PutAside("input", type) \in 1 .. 8
  BY DEF UserInputTypes, PutAside, Expected, PreChecks
<1> QED BY <1>1 DEF FitsDialog, Parameters

\* The key is asked for, or the request is over.
LEMMA AskForKeyAsks ==
    ASSUME NEW r \in Requests, Typed, Placed, AskForKey(r),
           request[r].op \in KeyedOps,
           request[r].op \in StandaloneOps <=> name \in Standalone,
           request[r].metadata \in MetadataOf(name)
    PROVE  Asked(r) \/ (Shut(r) /\ Replied(r))
<1> DEFINE q == request[r]
           kind == IF q.metadata.device THEN "authentication" ELSE "input"
<1>1. CASE Finish(r, "Failed") /\ NoDialog(r)
  BY <1>1, FinishReplies, NoDialogShuts DEF Results
<1>2. CASE Ask(r, q, kind, q.op)
  <2>1. q \in RequestStates /\ q.result # "InternalError"
    BY DEF Placed, Good
  <2>2. kind \in {"input", "authentication"} /\ <<q.op, kind>> \in Dialogs
    BY DEF Dialogs
  <2>3. q.op \in Ops
    BY DEF KeyedOps, LockedOps, Ops, StandaloneOps
  <2> HIDE DEF kind
  <2>4. FitsDialog(q.op, kind, [type |-> q.op, size |-> PutAside(kind, q.op)])
    BY <2>2, KeyDialogFits
  <2> QED BY <1>2, <2>1, <2>2, <2>3, <2>4, AskAsks
<1> QED BY <1>1, <1>2 DEF AskForKey

\* A request that needs the key of something that exists and was found
Keyed(r) ==
    /\ request[r].op \in LockedOps /\ name \notin Standalone
    /\ request[r].metadata \in MetadataOf(name)

\* The main thread gives the lock check to the pool and waits.
LEMMA CheckLockWaits ==
    ASSUME NEW r \in Requests, Typed, Placed, CheckLock(r), Keyed(r)
    PROVE  Handed(r)
<1> DEFINE q == [request[r] EXCEPT !.at = "locked"]
<1>1. request[r] \in RequestStates /\ request[r].result # "InternalError"
  BY DEF Placed, Good
<1>2. q \in RequestStates /\ q.at = "locked" /\ q.op = request[r].op
      /\ q.result = request[r].result /\ q.metadata = request[r].metadata
  BY <1>1 DEF RequestStates, Ats
<1>3. request' = [request EXCEPT ![r] = q] /\ pool' = Append(pool, r) /\ blocked' = r
  BY DEF CheckLock, Run
<1> HIDE DEF q
<1>4. request[r].op \notin StandaloneOps
  BY DEF Keyed, LockedOps, SecretOps, PreChecks, StandaloneOps, SetStandaloneOps
<1>5. Good(name, q)
  BY <1>1, <1>2, <1>4 DEF Good, OpsAt, Keyed
<1>6. Shut(r) /\ CachesTyped'
  BY NoDialogShuts, CachesKept DEF CheckLock
<1> QED BY <1>2, <1>3, <1>5, <1>6 DEF Handed, Waits, Moved

\* The key of a collection of a storage plugin is cached or asked for.
LEMMA UseCachedKeyHands ==
    ASSUME NEW r \in Requests, Typed, Placed, MainFree, UseCachedKey(r), Keyed(r),
           ~IsEncrypted
    PROVE  Handed(r)
<1>1. blocked' = Null
  BY DEF UseCachedKey, MainFree
<1>2. /\ request[r].op \in KeyedOps /\ request[r].op \in Ops
      /\ request[r].op \notin StandaloneOps
      /\ request[r].op \in OpsAt("run") /\ request[r].asked \in BOOLEAN
  BY DEF Keyed, KeyedOps, LockedOps, SecretOps, PreChecks, StandaloneOps, SetStandaloneOps,
         Ops, OpsAt, Placed, Good, RequestStates
<1>3. CASE /\ m_collectionEncryptionKeys # Null
           /\ WithEncryptionKey(r, request[r], m_collectionEncryptionKeys)
           /\ NoDialog(r)
  <2>1. m_collectionEncryptionKeys \in Keys
    BY <1>3 DEF Typed
  <2>2. Ready(request[r])
    BY <1>2 DEF Ready, Keyed
  <2>3. Sent(r) /\ CachesTyped' /\ Shut(r)
    BY <1>2, <1>3, <2>1, <2>2, WithKeySends, NoDialogShuts
  <2> QED BY <1>1, <2>3 DEF Handed
<1>4. CASE AskForKey(r) /\ UNCHANGED caches
  <2>1. Asked(r) \/ (Shut(r) /\ Replied(r))
    BY <1>2, <1>4, AskForKeyAsks DEF Keyed
  <2>2. CachesTyped'
    BY <1>4, CachesKept
  <2> QED BY <1>1, <2>1, <2>2 DEF Handed
<1> QED BY <1>3, <1>4 DEF UseCachedKey

\* How a request on a collection goes on when its metadata are known
LEMMA GetCodeHands ==
    ASSUME NEW r \in Requests, Typed, Placed, MainFree, GetAuthenticationCode(r), Keyed(r)
    PROVE  Handed(r)
BY CheckLockWaits, UseCachedKeyHands DEF GetAuthenticationCode

-----------------------------------------------------------------------------
(* Requests arrive. *)

\* A request that has not arrived has no dialog.
LEMMA ArrivingTaken ==
    ASSUME NEW r \in Requests, CollectionInv, NEW op, Arriving(r, op), UNCHANGED events
    PROVE  /\ Taken(r) /\ blocked = Null /\ interaction[r] = "none"
           /\ op \in StandaloneOps <=> name \in Standalone
<1>1. Place(r, request[r], Elements(pool), Elements(events), blocked, interaction[r])
  BY DEF CollectionInv, Placed
<1> QED BY <1>1 DEF Arriving, Taken, MainFree, Place

\* A request begins with a job or is refused.
LEMMA BeginStep ==
    ASSUME NEW r \in Requests, CollectionInv, NEW q, Begin(r, q),
           (q.op \in StandaloneOps <=> name \in Standalone) => Good(name, q),
           \/ q.at = "metadata"
           \/ q.at = "run" /\ q.result = "Pending" /\ q.op \in CreateOps
    PROVE  MainStep(r)
<1>1. /\ Arriving(r, q.op) /\ UNCHANGED <<storage, caches, dialogs, events, blocked>>
      /\ Run(r, q) \/ Finish(r, "Failed")
  BY DEF Begin
<1>2. /\ Taken(r) /\ blocked = Null /\ interaction[r] = "none" /\ Good(name, q)
  BY <1>1, ArrivingTaken
<1>3. Shut(r) /\ CachesTyped' /\ blocked' = Null /\ Typed
  BY <1>1, <1>2, UnchangedShuts, CachesKept DEF CollectionInv
<1>4. CASE Run(r, q)
  <2>1. Sent(r)
    BY <1>2, <1>4 DEF Run, Sent, Moved, Unasked
  <2> QED BY <1>1, <1>2, <1>3, <2>1 DEF MainStep, Handed
<1>5. CASE Finish(r, "Failed")
  <2>1. Replied(r)
    BY <1>5, FinishReplies DEF Results
  <2> QED BY <1>1, <1>2, <1>3, <2>1 DEF MainStep, Handed
<1> QED BY <1>1, <1>4, <1>5

\* A request that is never possible is refused.
LEMMA RefuseStep ==
    ASSUME NEW r \in Requests, CollectionInv, NEW op, Refuse(r, op)
    PROVE  MainStep(r)
<1>1. /\ Arriving(r, op) /\ UNCHANGED <<storage, caches, dialogs, events, blocked>>
      /\ Finish(r, "Failed")
  BY DEF Refuse
<1>2. /\ Taken(r) /\ blocked = Null /\ interaction[r] = "none"
  BY <1>1, ArrivingTaken
<1>3. Shut(r) /\ CachesTyped' /\ Replied(r)
  BY <1>1, <1>2, UnchangedShuts, CachesKept, FinishReplies DEF CollectionInv, Results
<1> QED BY <1>1, <1>2, <1>3 DEF MainStep, Handed

\* A request whose metadata are read
LEMMA MetadataStep ==
    ASSUME NEW r \in Requests, CollectionInv, NEW q \in RequestStates, Begin(r, q),
           q.op \in OpsAt("metadata"), q.at = "metadata", q.result = "Pending",
           q.op \in SetStandaloneOps => q.metadata \in MetadataOf(name)
    PROVE  MainStep(r)
<1>1. (q.op \in StandaloneOps <=> name \in Standalone) => Good(name, q)
  BY DEF Good
<1> QED BY <1>1, BeginStep

\* The requests that begin by reading the metadata
LEMMA ReadMetadataStep ==
    ASSUME NEW r \in Requests, CollectionInv, NEW op, NEW i \in BOOLEAN,
           ReadMetadata(r, op, i), op \in OpsAt("metadata") \ SetStandaloneOps
    PROVE  MainStep(r)
<1> DEFINE q == [Blank EXCEPT !.op = op, !.at = "metadata", !.interactive = i]
<1>1. Begin(r, q)
  BY DEF ReadMetadata
<1>2. op \in Ops
  BY DEF OpsAt, KeyedOps, LockedOps, Ops, StandaloneOps
<1>3. q \in RequestStates /\ q.at = "metadata" /\ q.op = op /\ q.result = "Pending"
  BY <1>2 DEF Blank, RequestStates, Ats, Results, Keys
<1> HIDE DEF q
<1> QED BY <1>1, <1>3, MetadataStep

\* An arriving request is taken and handed on.
LEMMA ArrivesStep ==
    ASSUME NEW r \in Requests, CollectionInv, Arrives(r)
    PROVE  MainStep(r)
<1> DEFINE At == OpsAt("metadata")
<1>0. Typed /\ SemanticsOf[name] \subseteq BOOLEAN
  BY NamesAssumption DEF CollectionInv, Typed
<1>1. ASSUME NEW i \in BOOLEAN, NEW u \in BOOLEAN, setCollectionSecret(r, i, u)
      PROVE  MainStep(r)
  <2> DEFINE q == [Blank EXCEPT !.op = "setCollectionSecret", !.at = "metadata",
                                !.interactive = i, !.withUi = u]
  <2>1. Begin(r, q)
    BY <1>1 DEF setCollectionSecret
  <2>2. /\ q \in RequestStates /\ q.at = "metadata" /\ q.op = "setCollectionSecret"
        /\ q.result = "Pending"
    BY DEF Blank, RequestStates, Ats, Results, Keys, Ops, SecretOps
  <2> HIDE DEF q
  <2>3. q.op \in OpsAt("metadata") \ SetStandaloneOps
    BY <2>2 DEF OpsAt, KeyedOps, LockedOps, SecretOps, SetStandaloneOps
  <2> QED BY <2>1, <2>2, <2>3, MetadataStep
<1>2. ASSUME NEW op \in KeyedOps \cup {"deleteStandaloneSecret"}, NEW i \in BOOLEAN,
             ReadMetadata(r, op, i)
      PROVE  MainStep(r)
  <2>1. op \in At \ SetStandaloneOps
    BY DEF OpsAt, KeyedOps, LockedOps, SecretOps, PreChecks, SetStandaloneOps
  <2> QED BY <1>2, <2>1, ReadMetadataStep
<1>3. ASSUME NEW keep \in BOOLEAN, createDeviceLockCollection(r, keep)
      PROVE  MainStep(r)
  <2> DEFINE m == [device |-> TRUE, keep |-> keep]
             q == [Blank EXCEPT !.op = "createDeviceLockCollection", !.at = "run",
                                !.metadata = m, !.key = DeviceKey]
  <2>1. Begin(r, q) /\ m \in MetadataOf(name)
    BY <1>3 DEF createDeviceLockCollection, MetadataOf, Metadata
  <2> HIDE DEF m
  <2>2. /\ q \in RequestStates /\ q.op = "createDeviceLockCollection" /\ q.at = "run"
        /\ q.metadata = m /\ q.result = "Pending"
    BY <2>1 DEF Blank, RequestStates, Ats, Results, Keys, Ops, CreateOps, MetadataOf
  <2> HIDE DEF q
  <2>3. /\ q.op \in CreateOps /\ q.op \in OpsAt("run")
    BY <2>2 DEF CreateOps, OpsAt, Ops
  <2>4. (q.op \in StandaloneOps <=> name \in Standalone) => Good(name, q)
    BY <2>1, <2>2, <2>3 DEF Good
  <2> QED BY <2>1, <2>2, <2>3, <2>4, BeginStep
<1>4. ASSUME NEW op \in {"createCustomLockCollection", "userInput"}, NEW q,
             Arriving(r, op), Ask(r, q, "input", op), q \in RequestStates, q.op = op,
             q.result = "Pending", op # "userInput" => q.metadata \in MetadataOf(name),
             UNCHANGED <<storage, caches, events, blocked>>
      PROVE  MainStep(r)
  <2>1. /\ Taken(r) /\ blocked = Null
        /\ op \in StandaloneOps <=> name \in Standalone
    BY <1>4, ArrivingTaken
  <2>2. FitsDialog(op, "input", [type |-> op, size |-> PutAside("input", op)])
    BY KeyDialogFits DEF Dialogs
  <2>3. op \in Ops
    BY DEF Ops, CreateOps
  <2>4. Asked(r) \/ (Shut(r) /\ Replied(r))
    BY <1>0, <1>4, <2>1, <2>2, <2>3, AskAsks
  <2>5. CachesTyped'
    BY <1>0, <1>4, CachesKept
  <2> QED BY <1>4, <2>1, <2>4, <2>5 DEF MainStep, Handed
<1>5. ASSUME NEW keep \in BOOLEAN, createCustomLockCollection(r, keep)
      PROVE  MainStep(r)
  <2> DEFINE m == [device |-> FALSE, keep |-> keep]
             q == [Blank EXCEPT !.op = "createCustomLockCollection", !.metadata = m]
  <2>1. /\ Arriving(r, "createCustomLockCollection") /\ m \in MetadataOf(name)
        /\ Ask(r, q, "input", "createCustomLockCollection")
        /\ UNCHANGED <<storage, caches, events, blocked>>
    BY <1>5 DEF createCustomLockCollection, MetadataOf, Metadata
  <2> HIDE DEF m
  <2>2. /\ q \in RequestStates /\ q.op = "createCustomLockCollection"
        /\ q.metadata = m /\ q.result = "Pending"
    BY <2>1 DEF Blank, RequestStates, Ats, Results, Keys, Ops, CreateOps, MetadataOf
  <2> HIDE DEF q
  <2> QED BY <2>1, <2>2, <1>4
<1>6. ASSUME userInput(r)
      PROVE  MainStep(r)
  <2> DEFINE q == [Blank EXCEPT !.op = "userInput"]
  <2>1. /\ Arriving(r, "userInput") /\ Ask(r, q, "input", "userInput")
        /\ UNCHANGED <<storage, caches, events, blocked>>
    BY <1>6 DEF userInput
  <2>2. q \in RequestStates /\ q.op = "userInput" /\ q.result = "Pending"
    BY DEF Blank, RequestStates, Ats, Results, Keys, Ops
  <2> HIDE DEF q
  <2> QED BY <2>1, <2>2, <1>4
<1>7. ASSUME NEW op \in SetStandaloneOps, NEW m \in MetadataOf(name), NEW u \in BOOLEAN,
             Begin(r, [Blank EXCEPT !.op = op, !.at = "metadata", !.metadata = m,
                                    !.withUi = u])
      PROVE  MainStep(r)
  <2> DEFINE q == [Blank EXCEPT !.op = op, !.at = "metadata", !.metadata = m, !.withUi = u]
  <2>1. op \in Ops /\ op \in At /\ m \in Metadata
    BY DEF OpsAt, MetadataOf, Ops, StandaloneOps
  <2>2. /\ q \in RequestStates /\ q.at = "metadata" /\ q.op = op /\ q.metadata = m
        /\ q.result = "Pending"
    BY <2>1 DEF Blank, RequestStates, Ats, Results, Keys
  <2>3. Begin(r, q)
    BY <1>7
  <2> HIDE DEF q
  <2> QED BY <2>1, <2>2, <2>3, MetadataStep
<1>8. ASSUME NEW k \in BOOLEAN, NEW u \in BOOLEAN, setStandaloneDeviceLockSecret(r, k, u)
      PROVE  MainStep(r)
  <2> DEFINE m == [device |-> TRUE, keep |-> k]
             q == [Blank EXCEPT !.op = "setStandaloneDeviceLockSecret",
                                !.at = "metadata", !.withUi = u, !.metadata = m]
  <2>1. CASE Refuse(r, "setStandaloneDeviceLockSecret")
    BY <2>1, RefuseStep
  <2>2. CASE Begin(r, q)
    <3>1. m \in MetadataOf(name)
      BY <1>8 DEF setStandaloneDeviceLockSecret, MetadataOf, Metadata
    <3> HIDE DEF m
    <3>2. q = [Blank EXCEPT !.op = "setStandaloneDeviceLockSecret",
                            !.at = "metadata", !.metadata = m, !.withUi = u]
      BY DEF Blank
    <3> HIDE DEF q
    <3> QED BY <2>2, <3>1, <3>2, <1>7 DEF SetStandaloneOps
  <2> QED BY <1>8, <2>1, <2>2 DEF setStandaloneDeviceLockSecret
<1>9. ASSUME NEW k \in BOOLEAN, NEW u \in BOOLEAN, setStandaloneCustomLockSecret(r, k, u)
      PROVE  MainStep(r)
  <2> DEFINE m == [device |-> FALSE, keep |-> k]
  <2>1. m \in MetadataOf(name)
    BY <1>9 DEF setStandaloneCustomLockSecret, MetadataOf, Metadata
  <2>2. Begin(r, [Blank EXCEPT !.op = "setStandaloneCustomLockSecret", !.at = "metadata",
                               !.metadata = m, !.withUi = u])
    BY <1>9 DEF setStandaloneCustomLockSecret
  <2> HIDE DEF m
  <2> QED BY <2>1, <2>2, <1>7 DEF SetStandaloneOps
<1>10. ASSUME findStandaloneSecrets(r)
       PROVE  MainStep(r)
  BY <1>10, RefuseStep DEF findStandaloneSecrets
<1>11. ASSUME \/ \E i \in BOOLEAN : getCollectionSecret(r, i)
              \/ \E i \in BOOLEAN : findCollectionSecrets(r, i)
              \/ \E i \in BOOLEAN : deleteCollectionSecret(r, i)
              \/ \E i \in BOOLEAN : deleteCollection(r, i)
              \/ storedKeyIdentifiers(r)
              \/ useCollectionKeyPreCheck(r)
              \/ setCollectionKeyPreCheck(r)
              \/ \E i \in BOOLEAN : getStandaloneSecret(r, i)
              \/ deleteStandaloneSecret(r)
       PROVE  MainStep(r)
  <2>1. {"getCollectionSecret", "findCollectionSecrets", "deleteCollectionSecret",
         "deleteCollection", "storedKeyIdentifiers", "useCollectionKeyPreCheck",
         "setCollectionKeyPreCheck", "getStandaloneSecret", "deleteStandaloneSecret"}
          \subseteq KeyedOps \cup {"deleteStandaloneSecret"}
    BY DEF KeyedOps, LockedOps, SecretOps, PreChecks
  <2> QED
    BY <1>2, <1>11, <2>1 DEF getCollectionSecret, findCollectionSecrets,
       deleteCollectionSecret, deleteCollection, storedKeyIdentifiers,
       useCollectionKeyPreCheck, setCollectionKeyPreCheck, getStandaloneSecret,
       deleteStandaloneSecret
<1> QED
  BY <1>1, <1>3, <1>5, <1>6, <1>8, <1>9, <1>10, <1>11 DEF Arrives

-----------------------------------------------------------------------------
(* Jobs have finished. *)

\* The request of the next signal has no dialog.
LEMMA FinishedTaken ==
    ASSUME NEW r \in Requests, CollectionInv, NEW at, Finished(r, at)
    PROVE  /\ Taken(r) /\ MainFree /\ blocked = Null /\ interaction[r] = "none"
           /\ request[r].at = at /\ Good(name, request[r]) /\ Typed /\ Placed
           /\ UNCHANGED storage
<1>1. /\ events # <<>> /\ r = Head(events) /\ events' = Tail(events) /\ MainFree
      /\ request[r].at = at /\ UNCHANGED storage
  BY DEF Finished
<1>2. r \in Elements(events)
  BY <1>1, TailElements DEF CollectionInv, Typed
<1>3. interaction[r] = "none"
  BY <1>2 DEF CollectionInv, Placed, Place
<1> QED BY <1>1, <1>3 DEF Taken, MainFree, CollectionInv, Placed

\* A request of a collection, whose metadata were found, or whose secret the
\* user has entered
LEMMA KeyedFacts ==
    ASSUME NEW r \in Requests, Good(name, request[r]),
           request[r].op \in LockedOps,
           \/ request[r].at \in {"locked", "asking"}
           \/ request[r].at = "metadata" /\ request[r].result = "Succeeded"
    PROVE  Keyed(r)
<1>1. request[r].op \notin StandaloneOps /\ request[r].op # "userInput"
  BY DEF LockedOps, SecretOps, PreChecks, StandaloneOps, SetStandaloneOps
<1> QED BY <1>1 DEF Good, Keyed

\* What may need a key may run, and creates no collection.
LEMMA LockedOpsRun ==
    ASSUME NEW op \in KeyedOps
    PROVE  op \in OpsAt("run") /\ op \in Ops /\ op \notin CreateOps
BY DEF KeyedOps, LockedOps, SecretOps, PreChecks, StandaloneOps, SetStandaloneOps, Ops, OpsAt,
       CreateOps

\* A request that replies after a signal
LEMMA ReplyStep ==
    ASSUME NEW r \in Requests, CollectionInv, NEW at, Finished(r, at),
           NEW x \in Results \ {"InternalError"}, Finish(r, x), CachesTyped',
           UNCHANGED <<dialogs, blocked>>
    PROVE  MainStep(r)
<1>1. /\ Taken(r) /\ blocked = Null /\ interaction[r] = "none" /\ Typed /\ UNCHANGED storage
  BY FinishedTaken
<1>2. Shut(r) /\ Replied(r)
  BY <1>1, UnchangedShuts, FinishReplies
<1> QED BY <1>1, <1>2 DEF MainStep, Handed

\* A request whose job runs after a signal, without a dialog
LEMMA SendStep ==
    ASSUME NEW r \in Requests, CollectionInv, NEW at, Finished(r, at),
           Sent(r), CachesTyped', UNCHANGED <<dialogs, blocked>>
    PROVE  MainStep(r)
<1>1. /\ Taken(r) /\ blocked = Null /\ interaction[r] = "none" /\ Typed /\ UNCHANGED storage
  BY FinishedTaken
<1>2. Shut(r)
  BY <1>1, UnchangedShuts
<1> QED BY <1>1, <1>2 DEF MainStep, Handed

\* The requests that need the key for a storage plugin too
LEMMA UseKeyStep ==
    ASSUME NEW r \in Requests, CollectionInv, NEW op \in LockedOps, UseKeyWithMetadata(r, op)
    PROVE  MainStep(r)
<1>1. /\ Finished(r, "metadata") /\ request[r].result = "Succeeded" /\ request[r].op = op
      /\ GetAuthenticationCode(r)
  BY DEF UseKeyWithMetadata
<1>2. /\ Taken(r) /\ MainFree /\ Good(name, request[r]) /\ Typed /\ Placed /\ UNCHANGED storage
      /\ request[r].at = "metadata"
  BY <1>1, FinishedTaken
<1>3. Keyed(r)
  BY <1>1, <1>2, KeyedFacts
<1> QED BY <1>1, <1>2, <1>3, GetCodeHands DEF MainStep

\* The two requests for which a storage plugin has no lock
LEMMA UsePluginStep ==
    ASSUME NEW r \in Requests, CollectionInv, NEW op \in LockedOps, UsePluginWithMetadata(r, op)
    PROVE  MainStep(r)
<1>1. /\ Finished(r, "metadata") /\ request[r].result = "Succeeded" /\ request[r].op = op
      /\ IF IsEncrypted THEN CheckLock(r)
         ELSE WithEncryptionKey(r, request[r], EmptyKey) /\ UNCHANGED <<dialogs, blocked>>
  BY DEF UsePluginWithMetadata
<1>2. /\ Taken(r) /\ MainFree /\ Good(name, request[r]) /\ Typed /\ Placed /\ UNCHANGED storage
      /\ request[r].at = "metadata"
  BY <1>1, FinishedTaken
<1>3. Keyed(r) /\ op \in KeyedOps
  BY <1>1, <1>2, KeyedFacts DEF KeyedOps
<1>4. CASE IsEncrypted
  BY <1>1, <1>2, <1>3, <1>4, CheckLockWaits DEF MainStep
<1>5. CASE ~IsEncrypted
  <2>1. Ready(request[r])
    BY <1>1, <1>2, <1>3, <1>5, LockedOpsRun DEF Ready, Good, Keyed, RequestStates
  <2>2. Sent(r) /\ CachesTyped'
    BY <1>1, <1>2, <1>3, <1>5, <2>1, WithKeySends DEF Keys
  <2> QED BY <1>1, <1>5, <2>2, SendStep
<1> QED BY <1>4, <1>5

\* The key was derived: it goes to the operation.
LEMMA DerivedStep ==
    ASSUME NEW r \in Requests, CollectionInv, Finished(r, "derive"),
           UNCHANGED <<dialogs, blocked>>,
           \/ request[r].op \in KeyedOps /\ WithEncryptionKey(r, request[r], request[r].key)
           \/ /\ request[r].op \in CreateOps \cup SetStandaloneOps
              /\ RunWith(r, request[r], request[r].key) /\ UNCHANGED caches
           \/ Finish(r, "Failed") /\ UNCHANGED caches
    PROVE  MainStep(r)
<1>1. /\ Good(name, request[r]) /\ Typed /\ request[r].at = "derive"
  BY FinishedTaken
<1>2. request[r].key \in Keys
  BY <1>1 DEF Good, RequestStates
<1>3. request[r].op \in KeyedOps \cup CreateOps \cup SetStandaloneOps => Ready(request[r])
  BY <1>1, LockedOpsRun DEF Ready, Good, OpsAt, Ops, CreateOps, SetStandaloneOps, StandaloneOps
<1>4. CASE request[r].op \in KeyedOps /\ WithEncryptionKey(r, request[r], request[r].key)
  BY <1>1, <1>2, <1>3, <1>4, WithKeySends, SendStep
<1>5. CASE /\ request[r].op \in CreateOps \cup SetStandaloneOps
           /\ RunWith(r, request[r], request[r].key) /\ UNCHANGED caches
  BY <1>1, <1>2, <1>3, <1>5, RunWithSends, CachesKept, SendStep
<1>6. CASE Finish(r, "Failed") /\ UNCHANGED caches
  BY <1>1, <1>6, CachesKept, ReplyStep DEF Results
<1> QED BY <1>4, <1>5, <1>6

\* The lock check has finished: nothing has come between.
LEMMA LockCheckedStep ==
    ASSUME NEW r \in Requests, CollectionInv, LockChecked(r)
    PROVE  MainStep(r)
<1> DEFINE q == request[r]
<1>1. /\ blocked = r /\ r \notin Elements(pool) /\ blocked' = Null
      /\ UNCHANGED <<storage, events>>
  BY DEF LockChecked, Elements
<1>2. /\ Typed /\ Placed /\ Good(name, q) /\ q.at = "locked" /\ interaction[r] = "none"
  BY <1>1 DEF CollectionInv, Placed, Place
<1>3. Taken(r)
  BY <1>1 DEF Taken
<1>4. q.op \in LockedOps /\ q.op \in KeyedOps /\ Keyed(r)
  BY <1>2, KeyedFacts DEF Good, OpsAt, KeyedOps
<1>5. q.op \notin StandaloneOps
  BY <1>2, <1>4 DEF Good, Keyed
<1>6. q.result = "Succeeded" /\ ~q.locked => pool = <<>> /\ opened
  BY <1>1 DEF CollectionInv, CheckHolds
<1>7. CASE Finish(r, "Failed") /\ UNCHANGED <<caches, dialogs>>
  <2>1. Replied(r) /\ Shut(r) /\ CachesTyped'
    BY <1>2, <1>7, FinishReplies, UnchangedShuts, CachesKept DEF Results
  <2> QED BY <1>1, <1>3, <2>1 DEF MainStep, Handed
<1>8. CASE AskForKey(r) /\ UNCHANGED caches
  <2>1. Asked(r) \/ (Shut(r) /\ Replied(r))
    BY <1>2, <1>4, <1>5, <1>8, AskForKeyAsks DEF Keyed
  <2>2. CachesTyped'
    BY <1>2, <1>8, CachesKept
  <2> QED BY <1>1, <1>3, <2>1, <2>2 DEF MainStep, Handed
<1>9. ASSUME q.result = "Succeeded", ~q.locked, NEW key \in Keys,
             WithEncryptionKey(r, q, key), UNCHANGED dialogs
      PROVE  MainStep(r)
  <2>1. Ready(q)
    BY <1>2, <1>4, <1>5, <1>6, <1>9, LockedOpsRun DEF Ready, Keyed, Good, RequestStates
  <2>2. Sent(r) /\ CachesTyped' /\ Shut(r)
    BY <1>2, <1>4, <1>9, <2>1, WithKeySends, UnchangedShuts
  <2> QED BY <1>1, <1>3, <2>2 DEF MainStep, Handed
<1> QED BY <1>7, <1>8, <1>9 DEF LockChecked, Keys

\* A handler of a signal hands the request on.
LEMMA MainThreadStep ==
    ASSUME NEW r \in Requests, CollectionInv, MainThread(r)
    PROVE  MainStep(r)
<1> DEFINE q == request[r]
<1>0. Typed /\ Placed
  BY DEF CollectionInv
<1>1. ASSUME RefusedByMetadata(r) PROVE MainStep(r)
  <2>1. CachesTyped'
    BY <1>0, <1>1, CachesKept DEF RefusedByMetadata
  <2> QED BY <1>1, <2>1, ReplyStep DEF RefusedByMetadata, Results
<1>2. ASSUME setCollectionSecretWithMetadata(r) PROVE MainStep(r)
  <2>1. /\ Finished(r, "metadata") /\ q.result = "Succeeded" /\ q.op = "setCollectionSecret"
    BY <1>2 DEF setCollectionSecretWithMetadata
  <2>2. /\ Taken(r) /\ MainFree /\ blocked = Null /\ q.at = "metadata" /\ Good(name, q)
        /\ UNCHANGED storage
    BY <2>1, FinishedTaken
  <2>3. q.op \in LockedOps /\ q.op \in Ops
    BY <2>1 DEF LockedOps, SecretOps, Ops
  <2>4. Keyed(r)
    BY <2>1, <2>2, <2>3, KeyedFacts
  <2>5. CASE /\ Ask(r, q, "input", "setCollectionUserInputSecret")
             /\ UNCHANGED <<caches, blocked>>
    <3> DEFINE t == "setCollectionUserInputSecret"
    <3>1. FitsDialog(q.op, "input", [type |-> t, size |-> PutAside("input", t)])
      <4>1. t \in UserInputTypes /\ UserInputOp(t) = q.op
        BY <2>1 DEF UserInputTypes, UserInputOp
      <4> QED BY <4>1, InputDialogFits
    <3>2. Asked(r) \/ (Shut(r) /\ Replied(r))
      BY <1>0, <2>1, <2>2, <2>3, <2>4, <2>5, <3>1, AskAsks DEF Good, Keyed
    <3>3. CachesTyped'
      BY <1>0, <2>5, CachesKept
    <3> QED BY <2>2, <2>5, <3>2, <3>3 DEF MainStep, Handed
  <2>6. CASE GetAuthenticationCode(r)
    BY <1>0, <2>2, <2>4, <2>6, GetCodeHands DEF MainStep
  <2> QED BY <1>2, <2>5, <2>6 DEF setCollectionSecretWithMetadata
<1>3. ASSUME \/ getCollectionSecretWithMetadata(r)
             \/ findCollectionSecretsWithMetadata(r)
             \/ deleteCollectionSecretWithMetadata(r)
             \/ useCollectionKeyPreCheckWithMetadata(r)
             \/ setCollectionKeyPreCheckWithMetadata(r)
      PROVE  MainStep(r)
  <2>1. \E op \in LockedOps : UseKeyWithMetadata(r, op)
    BY <1>3 DEF getCollectionSecretWithMetadata, findCollectionSecretsWithMetadata,
       deleteCollectionSecretWithMetadata, useCollectionKeyPreCheckWithMetadata,
       setCollectionKeyPreCheckWithMetadata, LockedOps, SecretOps, PreChecks
  <2> QED BY <2>1, UseKeyStep
<1>4. ASSUME deleteCollectionWithMetadata(r) \/ storedKeyIdentifiersWithMetadata(r)
      PROVE  MainStep(r)
  <2>1. \E op \in LockedOps : UsePluginWithMetadata(r, op)
    BY <1>4 DEF deleteCollectionWithMetadata, storedKeyIdentifiersWithMetadata, LockedOps
  <2> QED BY <2>1, UsePluginStep
<1>5. ASSUME NEW op \in SetStandaloneOps, SetStandaloneWithMetadata(r, op)
      PROVE  /\ Finished(r, "metadata") /\ q.op = op /\ UNCHANGED <<caches, blocked>>
             /\ Taken(r) /\ blocked' = Null /\ CachesTyped' /\ UNCHANGED storage
             /\ q \in RequestStates /\ q.result # "InternalError" /\ op \in StandaloneOps
             /\ op \in Ops /\ op # "userInput" /\ op \in OpsAt("run")
             /\ (q.op \in StandaloneOps <=> name \in Standalone)
             /\ q.metadata \in MetadataOf(name) /\ q.asked \in BOOLEAN
  <2>1. Finished(r, "metadata") /\ q.op = op /\ UNCHANGED <<caches, blocked>>
    BY <1>5 DEF SetStandaloneWithMetadata
  <2>2. /\ Taken(r) /\ blocked = Null /\ q.at = "metadata" /\ Good(name, q) /\ UNCHANGED storage
    BY <2>1, FinishedTaken
  <2>3. CachesTyped'
    BY <1>0, <2>1, CachesKept
  <2>4. op \in Ops /\ op # "userInput" /\ op \in OpsAt("run") /\ op \in StandaloneOps
    BY DEF SetStandaloneOps, StandaloneOps, Ops, OpsAt
  <2> QED BY <2>1, <2>2, <2>3, <2>4 DEF Good, RequestStates
<1>6. ASSUME NEW op \in SetStandaloneOps, SetStandaloneWithMetadata(r, op), NEW type,
             Ask(r, q, "input", type),
             FitsDialog(op, "input", [type |-> type, size |-> PutAside("input", type)])
      PROVE  MainStep(r)
  <2>1. Asked(r) \/ (Shut(r) /\ Replied(r))
    BY <1>0, <1>5, <1>6, AskAsks
  <2> QED BY <1>5, <1>6, <2>1 DEF MainStep, Handed
<1>7. ASSUME NEW type \in UserInputTypes, NEW op, op = UserInputOp(type),
             op \in SetStandaloneOps, SetStandaloneWithMetadata(r, op),
             Ask(r, q, "input", type)
      PROVE  MainStep(r)
  BY <1>6, <1>7, InputDialogFits
<1>8. ASSUME setStandaloneDeviceLockSecretWithMetadata(r) PROVE MainStep(r)
  <2>1. SetStandaloneWithMetadata(r, "setStandaloneDeviceLockSecret")
    BY <1>8 DEF setStandaloneDeviceLockSecretWithMetadata
  <2>2. CASE Ask(r, q, "input", "setStandaloneDeviceLockUserInputSecret")
    <3>1. /\ "setStandaloneDeviceLockUserInputSecret" \in UserInputTypes
          /\ UserInputOp("setStandaloneDeviceLockUserInputSecret") =
               "setStandaloneDeviceLockSecret"
          /\ "setStandaloneDeviceLockSecret" \in SetStandaloneOps
      BY DEF UserInputTypes, UserInputOp, SetStandaloneOps
    <3> QED BY <1>7, <2>1, <2>2, <3>1
  <2>3. CASE writeStandaloneDeviceLockSecret(r) /\ UNCHANGED dialogs
    <3>1. "setStandaloneDeviceLockSecret" \in SetStandaloneOps
      BY DEF SetStandaloneOps
    <3>2. Ready(q)
      BY <1>5, <2>1, <3>1 DEF Ready
    <3>3. Sent(r)
      BY <2>3, <3>2, RunWithSends DEF writeStandaloneDeviceLockSecret, Keys
    <3> QED BY <1>5, <2>1, <2>3, <3>1, <3>3, SendStep
  <2> QED BY <1>8, <2>2, <2>3 DEF setStandaloneDeviceLockSecretWithMetadata
<1>9. ASSUME setStandaloneCustomLockSecretWithMetadata(r) PROVE MainStep(r)
  <2>1. /\ SetStandaloneWithMetadata(r, "setStandaloneCustomLockSecret")
        /\ "setStandaloneCustomLockSecret" \in SetStandaloneOps
    BY <1>9 DEF setStandaloneCustomLockSecretWithMetadata, SetStandaloneOps
  <2>2. CASE Ask(r, q, "input", "setStandaloneCustomLockUserInputSecret")
    <3>1. /\ "setStandaloneCustomLockUserInputSecret" \in UserInputTypes
          /\ UserInputOp("setStandaloneCustomLockUserInputSecret") =
               "setStandaloneCustomLockSecret"
      BY DEF UserInputTypes, UserInputOp
    <3> QED BY <1>7, <2>1, <2>2, <3>1
  <2>3. CASE Ask(r, q, "input", "setStandaloneCustomLockSecret")
    <3>1. <<"setStandaloneCustomLockSecret", "input">> \in Dialogs
      BY DEF Dialogs
    <3> QED BY <1>6, <2>1, <2>3, <3>1, KeyDialogFits
  <2> QED BY <1>9, <2>2, <2>3 DEF setStandaloneCustomLockSecretWithMetadata,
                                  setStandaloneCustomLockSecretGetAuthenticationCode
<1>10. ASSUME getStandaloneSecretWithMetadata(r) PROVE MainStep(r)
  <2>1. /\ Finished(r, "metadata") /\ q.result = "Succeeded" /\ q.op = "getStandaloneSecret"
        /\ blocked' = blocked
    BY <1>10 DEF getStandaloneSecretWithMetadata
  <2>2. /\ Taken(r) /\ blocked = Null /\ q.at = "metadata" /\ Good(name, q) /\ UNCHANGED storage
    BY <2>1, FinishedTaken
  <2>3. q.op \in KeyedOps /\ q.op \in StandaloneOps
    BY <2>1 DEF KeyedOps, StandaloneOps
  <2>4. /\ (q.op \in StandaloneOps <=> name \in Standalone)
        /\ q.metadata \in MetadataOf(name) /\ q.asked \in BOOLEAN
    BY <2>1, <2>2 DEF Good, RequestStates
  <2>5. CASE /\ m_standaloneSecretEncryptionKeys # Null
             /\ getStandaloneSecretWithEncryptionKey(r, q, m_standaloneSecretEncryptionKeys)
             /\ UNCHANGED dialogs
    <3>1. m_standaloneSecretEncryptionKeys \in Keys
      BY <1>0, <2>5 DEF Typed
    <3>2. WithEncryptionKey(r, q, m_standaloneSecretEncryptionKeys)
      BY <2>1, <2>5 DEF WithEncryptionKey
    <3>3. Ready(q)
      BY <2>3, <2>4, LockedOpsRun DEF Ready
    <3>4. Sent(r) /\ CachesTyped'
      BY <1>0, <2>3, <3>1, <3>2, <3>3, WithKeySends
    <3> QED BY <2>1, <2>5, <3>4, SendStep
  <2>6. CASE AskForKey(r) /\ UNCHANGED caches
    <3>1. Asked(r) \/ (Shut(r) /\ Replied(r))
      BY <1>0, <2>3, <2>4, <2>6, AskForKeyAsks
    <3>2. CachesTyped'
      BY <1>0, <2>6, CachesKept
    <3> QED BY <2>1, <2>2, <3>1, <3>2 DEF MainStep, Handed
  <2> QED BY <1>10, <2>5, <2>6 DEF getStandaloneSecretWithMetadata
<1>11. ASSUME deleteStandaloneSecretWithMetadata(r) PROVE MainStep(r)
  <2>1. /\ Finished(r, "metadata") /\ q.result = "Succeeded"
        /\ q.op = "deleteStandaloneSecret" /\ RunWith(r, q, EmptyKey)
        /\ UNCHANGED <<caches, dialogs, blocked>>
    BY <1>11 DEF deleteStandaloneSecretWithMetadata
  <2>2. q.at = "metadata" /\ Good(name, q)
    BY <2>1, FinishedTaken
  <2>3. Ready(q)
    BY <2>1, <2>2 DEF Ready, Good, RequestStates, OpsAt, Ops, StandaloneOps
  <2>4. Sent(r) /\ CachesTyped'
    BY <1>0, <2>1, <2>3, RunWithSends, CachesKept DEF Keys
  <2> QED BY <2>1, <2>4, SendStep
<1>12. ASSUME LockChecked(r) PROVE MainStep(r)
  BY <1>12, LockCheckedStep
<1>13. ASSUME \/ createCustomLockCollectionWithAuthenticationCode(r)
              \/ setStandaloneCustomLockSecretWithAuthenticationCode(r)
       PROVE  MainStep(r)
  <2>1. /\ Finished(r, "derive") /\ UNCHANGED <<dialogs, blocked>>
        /\ q.op \in CreateOps \cup SetStandaloneOps
        /\ \/ RunWith(r, q, q.key) /\ UNCHANGED caches
           \/ Finish(r, "Failed") /\ UNCHANGED caches
    BY <1>13 DEF createCustomLockCollectionWithAuthenticationCode, KeyDerived,
       setStandaloneCustomLockSecretWithAuthenticationCode, CreateOps, SetStandaloneOps,
       createCustomLockCollectionWithEncryptionKey,
       setStandaloneCustomLockSecretWithEncryptionKey
  <2> QED BY <2>1, DerivedStep
<1>14. ASSUME \/ storedKeyIdentifiersWithAuthenticationCode(r)
              \/ setCollectionSecretWithAuthenticationCode(r)
              \/ getCollectionSecretWithAuthenticationCode(r)
              \/ findCollectionSecretsWithAuthenticationCode(r)
              \/ deleteCollectionSecretWithAuthenticationCode(r)
              \/ useCollectionKeyPreCheckWithAuthenticationCode(r)
              \/ setCollectionKeyPreCheckWithAuthenticationCode(r)
              \/ getStandaloneSecretWithAuthenticationCode(r)
       PROVE  MainStep(r)
  <2>1. /\ Finished(r, "derive") /\ UNCHANGED <<dialogs, blocked>>
        /\ q.op \in KeyedOps
        /\ \/ WithEncryptionKey(r, q, q.key)
           \/ Finish(r, "Failed") /\ UNCHANGED caches
    BY <1>14 DEF storedKeyIdentifiersWithAuthenticationCode, KeyDerived,
       setCollectionSecretWithAuthenticationCode, getCollectionSecretWithAuthenticationCode,
       findCollectionSecretsWithAuthenticationCode,
       deleteCollectionSecretWithAuthenticationCode,
       useCollectionKeyPreCheckWithAuthenticationCode,
       setCollectionKeyPreCheckWithAuthenticationCode,
       getStandaloneSecretWithAuthenticationCode, WithEncryptionKey,
       KeyedOps, LockedOps, SecretOps, PreChecks
  <2> QED BY <2>1, DerivedStep
<1>15. ASSUME OperationFinished(r) PROVE MainStep(r)
  <2>1. /\ Finished(r, "run") /\ Finish(r, q.result) /\ UNCHANGED <<dialogs, blocked>>
        /\ m_collectionEncryptionKeys' = CachedKey(q)
        /\ m_standaloneSecretEncryptionKeys' = CachedStandaloneKey(q)
    BY <1>15 DEF OperationFinished
  <2>2. Good(name, q)
    BY <2>1, FinishedTaken
  <2>3. q.key \in Keys /\ q.result \in Results \ {"InternalError"}
    BY <2>2 DEF Good, RequestStates
  <2>4. CachesTyped'
    BY <1>0, <2>1, <2>3 DEF CachesTyped, Typed, CachedKey, CachedStandaloneKey
  <2> QED BY <2>1, <2>3, <2>4, ReplyStep
<1> QED
  BY <1>1, <1>2, <1>3, <1>4, <1>8, <1>9, <1>10, <1>11, <1>12, <1>13, <1>14, <1>15 DEF MainThread

-----------------------------------------------------------------------------
(* The user has answered. *)

\* A request with a dialog finds its parameters.
LEMMA DialogFound ==
    ASSUME NEW r \in Requests, CollectionInv, interaction[r] # "none"
    PROVE  /\ Recognised(r) /\ m_pendingRequests[r] \in Parameters
           /\ FitsDialog(request[r].op, interaction[r], m_pendingRequests[r])
           /\ request[r].at = "asking" /\ Good(name, request[r]) /\ Typed /\ Placed
<1>1. /\ FitsDialog(request[r].op, interaction[r], m_pendingRequests[r])
      /\ request[r].at = "asking" /\ Good(name, request[r]) /\ Typed /\ Placed
  BY DEF CollectionInv, Placed, Place
<1>2. m_pendingRequests[r] \in Parameters /\ Null \notin Parameters
  BY <1>1, NullAssumption DEF FitsDialog, Parameters
<1> QED BY <1>1, <1>2 DEF Recognised, FitsDialog

\* An answer of the user hands the request on.
LEMMA UserStep ==
    ASSUME NEW r \in Requests, CollectionInv, User(r)
    PROVE  MainStep(r)
<1> DEFINE q == request[r]
           p == m_pendingRequests[r]
<1>1. ASSUME InteractionFailed(r) PROVE MainStep(r)
  <2>1. /\ MainFree /\ interaction[r] # "none" /\ Typed
        /\ interaction' = [interaction EXCEPT ![r] = "none"]
        /\ Finish(r, "Failed")
        /\ UNCHANGED <<storage, caches, m_pendingRequests, events, blocked>>
    BY <1>1 DEF InteractionFailed, CollectionInv
  <2>2. Shut(r)
    BY <2>1 DEF Shut, DialogsOf, Typed
  <2>3. Replied(r) /\ CachesTyped'
    BY <2>1, FinishReplies, CachesKept DEF Results
  <2> QED BY <2>1, <2>2, <2>3 DEF MainStep, Handed, Taken, MainFree
<1>2. ASSUME NEW code \in Codes, userInputInteractionCompleted(r, code) PROVE MainStep(r)
  <2> DEFINE n == [Blank EXCEPT !.op = q.op, !.key = code, !.metadata = q.metadata,
                                !.asked = TRUE]
  <2>1. /\ MainFree /\ interaction[r] = "input" /\ UNCHANGED <<storage, events>>
    BY <1>2 DEF userInputInteractionCompleted
  <2>2. /\ Recognised(r) /\ p \in Parameters /\ FitsDialog(q.op, "input", p)
        /\ q.at = "asking" /\ Good(name, q) /\ Typed /\ Placed
    BY <2>1, DialogFound
  <2>3. Taken(r)
    BY <2>1 DEF Taken
  <2>4. /\ q \in RequestStates /\ q.result # "InternalError" /\ q.asked \in BOOLEAN
        /\ q.metadata \in Metadata \cup {Null} /\ q.op \in Ops \cup {"none"}
        /\ (q.op \in StandaloneOps <=> name \in Standalone)
        /\ q.op # "userInput" => q.metadata \in MetadataOf(name)
    BY <2>2 DEF Good, RequestStates
  <2>5. CASE p.type = "setCollectionUserInputSecret" /\ GetAuthenticationCode(r)
    <3>1. q.op = "setCollectionSecret"
      BY <2>2, <2>5 DEF FitsDialog, UserInputOp, Dialogs, KeyedOps, LockedOps, SecretOps,
                        PreChecks
    <3>2. Keyed(r)
      BY <2>2, <3>1, KeyedFacts DEF LockedOps, SecretOps
    <3> QED BY <2>1, <2>2, <2>3, <2>5, <3>2, GetCodeHands DEF MainStep
  <2>6. CASE /\ p.type = "setStandaloneCustomLockUserInputSecret"
             /\ setStandaloneCustomLockSecretGetAuthenticationCode(r)
             /\ UNCHANGED <<caches, blocked>>
    <3>1. q.op = "setStandaloneCustomLockSecret"
      BY <2>2, <2>6 DEF FitsDialog, UserInputOp, Dialogs, KeyedOps, LockedOps, SecretOps,
                        PreChecks
    <3>2. Ask(r, q, "input", q.op)
      BY <2>6, <3>1 DEF setStandaloneCustomLockSecretGetAuthenticationCode
    <3>3. FitsDialog(q.op, "input", [type |-> q.op, size |-> PutAside("input", q.op)])
      BY <3>1, KeyDialogFits DEF Dialogs
    <3>4. q.op \in Ops
      BY <3>1 DEF Ops, StandaloneOps, SetStandaloneOps
    <3>5. Asked(r) \/ (Shut(r) /\ Replied(r))
      BY <2>2, <2>4, <3>1, <3>2, <3>3, <3>4, AskAsks
    <3>6. CachesTyped' /\ blocked' = Null
      BY <2>1, <2>2, <2>6, CachesKept DEF MainFree
    <3> QED BY <2>1, <2>3, <3>5, <3>6 DEF MainStep, Handed
  <2>7. CASE /\ CASE p.type = "userInput" -> Finish(r, "Succeeded")
                  [] p.type = "deleteCollection" -> deleteCollectionWithLockCode(r, n)
                  [] p.type = "setStandaloneDeviceLockUserInputSecret" ->
                       writeStandaloneDeviceLockSecret(r)
                  [] OTHER -> Run(r, [n EXCEPT !.at = "derive"])
             /\ p.type \notin {"setCollectionUserInputSecret",
                               "setStandaloneCustomLockUserInputSecret"}
             /\ NoDialog(r)
             /\ UNCHANGED <<caches, blocked>>
    <3>1. Shut(r) /\ CachesTyped' /\ blocked' = Null
      BY <2>1, <2>2, <2>7, NoDialogShuts, CachesKept DEF MainFree
    <3>2. SUFFICES Replied(r) \/ Sent(r)
      BY <2>1, <2>3, <3>1 DEF MainStep, Handed
    <3>3. CASE p.type = "userInput" /\ Finish(r, "Succeeded")
      BY <3>3, FinishReplies DEF Results
    <3>4. CASE p.type = "deleteCollection" /\ deleteCollectionWithLockCode(r, n)
      <4> DEFINE m == [n EXCEPT !.at = "run"]
      <4>1. q.op = "deleteCollection"
        BY <2>2, <3>4 DEF FitsDialog, UserInputTypes
      <4>2. /\ m \in RequestStates /\ m.at = "run" /\ m.op = q.op /\ m.asked = TRUE
            /\ m.metadata = q.metadata /\ m.result = "Pending"
        BY <2>4 DEF Blank, RequestStates, Ats, Results, Keys
      <4>3. request' = [request EXCEPT ![r] = m] /\ pool' = Append(pool, r)
        BY <3>4 DEF deleteCollectionWithLockCode, Run
      <4> HIDE DEF m
      <4>4. m.op \in OpsAt("run") /\ m.op \notin {"none", "userInput"}
        BY <4>1, <4>2 DEF OpsAt, Ops
      <4>5. Good(name, m)
        BY <2>4, <4>1, <4>2, <4>4 DEF Good
      <4> QED BY <4>2, <4>3, <4>5 DEF Sent, Moved, Unasked
    <3>5. CASE /\ p.type = "setStandaloneDeviceLockUserInputSecret"
               /\ writeStandaloneDeviceLockSecret(r)
      <4>1. q.op = "setStandaloneDeviceLockSecret"
        BY <2>2, <3>5 DEF FitsDialog, UserInputOp, Dialogs, KeyedOps, LockedOps, SecretOps,
                          PreChecks
      <4>2. Ready(q)
        BY <2>4, <4>1 DEF Ready, OpsAt, Ops, StandaloneOps, SetStandaloneOps
      <4> QED BY <3>5, <4>2, RunWithSends DEF writeStandaloneDeviceLockSecret, Keys
    <3>6. CASE p.type # "userInput" /\ Run(r, [n EXCEPT !.at = "derive"])
      <4> DEFINE m == [n EXCEPT !.at = "derive"]
      <4>1. q.op # "userInput"
        BY <2>2, <3>6 DEF FitsDialog, UserInputTypes, UserInputOp
      <4>2. /\ m \in RequestStates /\ m.at = "derive" /\ m.op = q.op /\ m.asked = TRUE
            /\ m.metadata = q.metadata /\ m.result = "Pending"
        BY <2>4 DEF Blank, RequestStates, Ats, Results, Keys
      <4>3. request' = [request EXCEPT ![r] = m] /\ pool' = Append(pool, r)
        BY <3>6 DEF Run
      <4> HIDE DEF m
      <4>4. m.op \in OpsAt("derive")
        BY <2>4, <4>2 DEF OpsAt
      <4>5. Good(name, m)
        BY <2>4, <4>1, <4>2, <4>4 DEF Good
      <4> QED BY <4>2, <4>3, <4>5 DEF Sent, Moved, Unasked
    <3> HIDE DEF n
    <3> QED BY <2>7, <3>3, <3>4, <3>5, <3>6
  <2>8. p.type # "none"
    BY <2>2 DEF Parameters, Ops, SecretOps, PreChecks, CreateOps, StandaloneOps,
                SetStandaloneOps, UserInputTypes
  <2> QED
    <3> HIDE DEF n
    <3>1. \/ p.type = "setCollectionUserInputSecret" /\ GetAuthenticationCode(r)
          \/ /\ p.type = "setStandaloneCustomLockUserInputSecret"
             /\ setStandaloneCustomLockSecretGetAuthenticationCode(r)
             /\ UNCHANGED <<caches, blocked>>
          \/ /\ p.type \notin {"setCollectionUserInputSecret",
                               "setStandaloneCustomLockUserInputSecret"}
             /\ CASE p.type = "none" -> Finish(r, "InternalError")
                  [] p.type = "userInput" -> Finish(r, "Succeeded")
                  [] p.type = "deleteCollection" -> deleteCollectionWithLockCode(r, n)
                  [] p.type = "setStandaloneDeviceLockUserInputSecret" ->
                       writeStandaloneDeviceLockSecret(r)
                  [] OTHER -> Run(r, [n EXCEPT !.at = "derive"])
             /\ NoDialog(r)
             /\ UNCHANGED <<caches, blocked>>
      BY <1>2, <2>2 DEF userInputInteractionCompleted, n
    <3> QED BY <2>5, <2>6, <2>7, <2>8, <3>1
<1>3. ASSUME authenticationCompleted(r) PROVE MainStep(r)
  <2> DEFINE n == [q EXCEPT !.asked = TRUE]
  <2>1. /\ MainFree /\ interaction[r] = "authentication"
        /\ NoDialog(r) /\ UNCHANGED <<storage, events, blocked>>
    BY <1>3 DEF authenticationCompleted
  <2>2. /\ Recognised(r) /\ FitsDialog(q.op, "authentication", p)
        /\ q.at = "asking" /\ Good(name, q) /\ Typed
    BY <2>1, DialogFound
  <2>3. WithEncryptionKey(r, n, DeviceKey)
    BY <1>3, <2>2 DEF authenticationCompleted
  <2>4. q.op \in KeyedOps
    BY <2>2 DEF FitsDialog, Dialogs
  <2>5. q \in RequestStates
    BY <2>2 DEF Good
  <2>6. n.op = q.op /\ n.metadata = q.metadata /\ n.asked = TRUE
    BY <2>5 DEF RequestStates
  <2> HIDE DEF n
  <2>7. q.op # "userInput"
    BY <2>4 DEF KeyedOps, LockedOps, SecretOps, PreChecks
  <2>8. Ready(n)
    BY <2>2, <2>4, <2>6, <2>7, LockedOpsRun DEF Ready, Good
  <2>9. Sent(r) /\ CachesTyped' /\ Shut(r)
    BY <2>1, <2>2, <2>3, <2>4, <2>6, <2>8, WithKeySends, NoDialogShuts DEF Keys
  <2> QED BY <2>1, <2>9 DEF MainStep, Handed, Taken, MainFree
<1> QED BY <1>1, <1>2, <1>3 DEF User

-----------------------------------------------------------------------------
(* The thread of the pool *)

Stored == [metadata : MetadataOf(name), key : Keys] \cup {Null}

\* How an operation on a collection may end: a wrong key, or a use of a
\* collection that is always relocked, only after the user was asked.
LEMMA OutcomesGood ==
    ASSUME NEW r \in Requests, CollectionInv, r \in Elements(pool),
           request[r].at = "run", name \notin Standalone,
           NEW o \in IF IsEncrypted THEN EncryptedOutcomes(request[r])
                     ELSE PlainOutcomes(request[r])
    PROVE  /\ o.result \in {"Succeeded", "Failed", "WrongKey"}
           /\ o.collection \in Stored
           /\ o.opened \in BOOLEAN
           /\ o.opened => IsEncrypted /\ o.collection # Null
           /\ Relocked => ~o.opened
           /\ o.result = "WrongKey" => request[r].asked
           /\ Relocked /\ request[r].op \notin CreateOps => request[r].asked
           /\ opened /\ o.collection = collection /\ request[r].op # "deleteCollection" =>
                o.opened
<1> DEFINE q == request[r]
<1>1. /\ Good(name, q) /\ q.metadata \in MetadataOf(name) /\ q.key \in Keys
      /\ q.op \notin StandaloneOps /\ q.asked \in BOOLEAN
  BY DEF CollectionInv, Placed, Good, RequestStates
<1>2. /\ collection \in Stored /\ opened \in BOOLEAN
      /\ opened => IsEncrypted /\ collection # Null
      /\ Relocked => ~opened
  BY DEF CollectionInv, Typed, OpenExists, EveryAccessAsks, Relocked, Stored
<1>3. IsEncrypted /\ ~opened /\ q.op \notin CreateOps => q.asked
  BY <1>1 DEF CollectionInv, CheckHolds, Unasked
<1>4. Relocked /\ q.op \notin CreateOps => q.asked
  BY <1>2, <1>3 DEF Relocked
<1>5. q.metadata.keep \in SemanticsOf[name] /\ q.metadata.keep \in BOOLEAN
  BY <1>1 DEF MetadataOf, Metadata
<1>6. Relocked => RequiresRelock(q.metadata) /\ name \notin Faulty
  BY <1>5 DEF Relocked, RequiresRelock
<1>7. RequiresRelock(q.metadata) \in BOOLEAN
  BY <1>5 DEF RequiresRelock
<1> HIDE DEF q
<1>8. NewCollection(q.metadata, q.key) \in Stored /\ NewCollection(q.metadata, q.key) # Null
  <2>1. NewCollection(q.metadata, q.key) \in [metadata : MetadataOf(name), key : Keys]
    BY <1>1 DEF NewCollection, Keys
  <2>2. NewCollection(q.metadata, q.key) \in [metadata : Metadata, key : Keys]
    BY <2>1 DEF MetadataOf
  <2> QED BY <2>1, <2>2, NullAssumption DEF Stored
<1>9. ASSUME NEW rs, NEW u \in Unchanged(rs)
      PROVE  u.result \in rs /\ u.collection = collection /\ u.opened = opened
  BY DEF Unchanged, Outcome
<1>10. ASSUME NEW c \in Created(q)
       PROVE  /\ c.result \in {"Succeeded", "Failed"}
              /\ \/ c.collection = collection /\ c.opened = opened
                 \/ /\ c.collection = NewCollection(q.metadata, q.key) /\ collection = Null
                    /\ c.opened = (IsEncrypted /\ ~RequiresRelock(q.metadata))
  <2>1. \/ c \in Unchanged({"Failed"})
        \/ /\ c = Outcome("Succeeded", NewCollection(q.metadata, q.key),
                          IsEncrypted /\ ~RequiresRelock(q.metadata))
           /\ collection = Null
    BY DEF Created
  <2>2. CASE c \in Unchanged({"Failed"})
    BY <2>2, <1>9
  <2>3. CASE /\ c = Outcome("Succeeded", NewCollection(q.metadata, q.key),
                            IsEncrypted /\ ~RequiresRelock(q.metadata))
             /\ collection = Null
    BY <2>3 DEF Outcome
  <2> QED BY <2>1, <2>2, <2>3
<1>11. ASSUME NEW c \in Created(q)
       PROVE  /\ c.result \in {"Succeeded", "Failed"}
              /\ c.collection \in Stored
              /\ c.opened \in BOOLEAN
              /\ c.opened => IsEncrypted /\ c.collection # Null
              /\ Relocked => ~c.opened
              /\ opened /\ c.collection = collection => c.opened
  BY <1>2, <1>6, <1>7, <1>8, <1>10
<1>12. ASSUME NEW c \in Removed, IsEncrypted => collection # Null
       PROVE  /\ c.result \in {"Succeeded", "Failed"}
              /\ c.collection \in Stored
              /\ c.opened \in BOOLEAN
              /\ c.opened => IsEncrypted /\ c.collection # Null
              /\ Relocked => ~c.opened
  <2>1. \/ c = Outcome("Succeeded", Null, FALSE)
        \/ c = Outcome("Failed", collection, FALSE)
        \/ name \in Faulty /\ c = Outcome("Failed", collection, IsEncrypted)
    BY DEF Removed
  <2>2. CASE c = Outcome("Succeeded", Null, FALSE) \/ c = Outcome("Failed", collection, FALSE)
    <3>1. c.result \in {"Succeeded", "Failed"} /\ c.collection \in {Null, collection}
          /\ c.opened = FALSE
      BY <2>2 DEF Outcome
    <3>2. Null \in Stored
      BY DEF Stored
    <3> QED BY <3>1, <3>2, <1>2
  <2>3. CASE name \in Faulty /\ c = Outcome("Failed", collection, IsEncrypted)
    BY <2>3, <1>2, <1>6, <1>12 DEF Outcome, IsEncrypted
  <2> QED BY <2>1, <2>2, <2>3
<1>13. ASSUME NEW c \in Used(q), IsEncrypted, collection # Null
       PROVE  /\ c.result \in {"Succeeded", "Failed"}
              /\ c.collection = collection
              /\ c.opened \in BOOLEAN
              /\ Relocked => ~c.opened
              /\ opened => c.opened
  <2>1. \/ \E x \in {"Succeeded", "Failed"} :
             c = Outcome(x, collection, opened \/ ~RequiresRelock(q.metadata))
        \/ name \in Faulty /\ c = Outcome("Failed", collection, TRUE)
    BY DEF Used
  <2>2. CASE \E x \in {"Succeeded", "Failed"} :
             c = Outcome(x, collection, opened \/ ~RequiresRelock(q.metadata))
    BY <2>2, <1>2, <1>6, <1>7 DEF Outcome
  <2>3. CASE name \in Faulty /\ c = Outcome("Failed", collection, TRUE)
    BY <2>3, <1>6 DEF Outcome
  <2> QED BY <2>1, <2>2, <2>3
<1>14. CASE IsEncrypted
  <2>1. o \in EncryptedOutcomes(q)
    BY <1>14 DEF q
  <2>2. CASE q.op \in CreateOps
    <3>1. o \in Created(q)
      BY <2>1, <2>2 DEF EncryptedOutcomes
    <3> QED BY <3>1, <1>11, <2>2, <1>4 DEF q
  <2>3. CASE q.op \notin CreateOps /\ collection = Null
    <3>1. o \in Unchanged({"Failed"})
      BY <2>1, <2>3 DEF EncryptedOutcomes
    <3> QED BY <3>1, <1>9, <1>2, <1>4 DEF q
  <2>4. CASE /\ q.op \notin CreateOps /\ collection # Null
             /\ ~opened /\ q.key # collection.key
    <3>1. o \in Unchanged({"WrongKey"})
      BY <2>1, <2>4 DEF EncryptedOutcomes
    <3> QED BY <3>1, <1>9, <1>2, <1>3, <1>4, <1>14, <2>4 DEF q
  <2>5. CASE /\ q.op \notin CreateOps /\ collection # Null
             /\ ~(~opened /\ q.key # collection.key)
    <3>1. o \in IF q.op = "deleteCollection" THEN Removed ELSE Used(q)
      BY <2>1, <2>5 DEF EncryptedOutcomes
    <3>2. CASE q.op = "deleteCollection"
      BY <3>1, <3>2, <2>5, <1>4, <1>12 DEF q
    <3>3. CASE q.op # "deleteCollection"
      BY <3>1, <3>3, <2>5, <1>2, <1>4, <1>13, <1>14 DEF q
    <3> QED BY <3>2, <3>3
  <2> QED BY <2>2, <2>3, <2>4, <2>5
<1>15. CASE ~IsEncrypted
  <2>1. o \in PlainOutcomes(q) /\ ~Relocked /\ ~opened
    BY <1>2, <1>15 DEF q, Relocked
  <2>2. \/ q.op \in CreateOps /\ o \in Created(q)
        \/ q.op = "deleteCollection" /\ o \in Removed
        \/ o \in Unchanged({"Succeeded"})
        \/ o \in Unchanged({"Failed"})
        \/ o \in Unchanged({"Succeeded", "Failed"})
    BY <2>1 DEF PlainOutcomes, CreateOps
  <2>3. CASE q.op \in CreateOps /\ o \in Created(q)
    BY <2>1, <2>3, <1>11 DEF q
  <2>4. CASE q.op = "deleteCollection" /\ o \in Removed
    BY <2>1, <2>4, <1>12, <1>15 DEF q
  <2>5. CASE \/ o \in Unchanged({"Succeeded"})
             \/ o \in Unchanged({"Failed"})
             \/ o \in Unchanged({"Succeeded", "Failed"})
    <3>1. o.result \in {"Succeeded", "Failed"} /\ o.collection = collection /\ o.opened = opened
      BY <2>5, <1>9
    <3> QED BY <3>1, <2>1, <1>2
  <2> QED BY <2>2, <2>3, <2>4, <2>5
<1> QED BY <1>14, <1>15

\* How an operation on a standalone secret may end
LEMMA StandaloneOutcomesGood ==
    ASSUME NEW q, q.op \in SetStandaloneOps \cup {"getStandaloneSecret", "deleteStandaloneSecret"},
           q.metadata \in MetadataOf(name), q.key \in Keys, secret \in Stored,
           NEW o \in StandaloneOutcomes(q)
    PROVE  o[1] \in {"Succeeded", "Failed", "WrongKey"} /\ o[2] \in Stored
<1> DEFINE new == [metadata |-> q.metadata, key |-> q.key]
<1>1. new \in Stored /\ Null \in Stored
  BY DEF Stored
<1>2. o \in { <<"Failed", secret>>, <<"Succeeded", secret>>, <<"WrongKey", secret>>,
              <<"Succeeded", Null>>, <<"Succeeded", new>> }
  BY DEF StandaloneOutcomes, SetStandaloneOps
<1> HIDE DEF new
<1> QED BY <1>1, <1>2

\* A job that only reads
LEMMA ReadingJob ==
    ASSUME NEW r \in Requests, CollectionInv, NEW q, NEW at \in {"metadata", "locked", "derive"},
           Job(r, at, q), UNCHANGED <<collection, opened, secret>>,
           q \in RequestStates, q.at = at, q.op = request[r].op, q.asked = request[r].asked,
           q.result # "InternalError", Good(name, request[r]) => Good(name, q),
           IF at = "locked"
             THEN UNCHANGED events /\ (q.result = "Succeeded" /\ ~q.locked => opened)
             ELSE events' = Append(events, r)
    PROVE  PoolStep(r)
<1>1. /\ pool # <<>> /\ r = Head(pool) /\ request[r].at = at /\ pool' = Tail(pool)
      /\ request' = [request EXCEPT ![r] = q]
      /\ UNCHANGED <<name, caches, dialogs, blocked>>
  BY DEF Job, NextJob
<1>2. Good(name, request[r])
  BY DEF CollectionInv, Placed
<1>3. Worked(r, q)
  BY <1>1, <1>2 DEF Worked, Moved, storage
<1> QED
  BY <1>1, <1>3 DEF PoolStep, CollectionInv, Typed, OpenExists, EveryAccessAsks, Relocked

\* The job of an operation
LEMMA OperationJob ==
    ASSUME NEW r \in Requests, CollectionInv, NEW x \in {"Succeeded", "Failed", "WrongKey"},
           Job(r, "run", [request[r] EXCEPT !.result = x]), events' = Append(events, r),
           collection' \in Stored, secret' \in Stored, opened' \in BOOLEAN,
           opened' => IsEncrypted /\ collection' # Null, Relocked => ~opened',
           name \notin Standalone /\ x = "WrongKey" => request[r].asked,
           Relocked /\ x = "Succeeded" /\ request[r].op \notin CreateOps => request[r].asked
    PROVE  PoolStep(r)
<1> DEFINE q == [request[r] EXCEPT !.result = x]
<1>1. /\ pool # <<>> /\ r = Head(pool) /\ request[r].at = "run" /\ pool' = Tail(pool)
      /\ request' = [request EXCEPT ![r] = q]
      /\ UNCHANGED <<name, caches, dialogs, blocked>>
  BY DEF Job, NextJob
<1>2. Good(name, request[r])
  BY DEF CollectionInv, Placed
<1>3. /\ q \in RequestStates /\ q.at = "run" /\ q.op = request[r].op
      /\ q.asked = request[r].asked /\ q.metadata = request[r].metadata /\ q.result = x
  BY <1>1, <1>2 DEF Good, RequestStates, Results
<1> HIDE DEF q
<1>4. Good(name, q)
  BY <1>1, <1>2, <1>3 DEF Good
<1>5. Worked(r, q)
  BY <1>1, <1>3, <1>4 DEF Worked, Moved
<1> QED BY <1>1, <1>5 DEF PoolStep, Stored

\* Each job of the pool works on the request it belongs to.
LEMMA PoolJob ==
    ASSUME NEW r \in Requests, CollectionInv, Pool(r)
    PROVE  PoolStep(r)
<1>0. /\ Typed /\ Good(name, request[r]) /\ request[r] \in RequestStates
      /\ collection \in Stored /\ secret \in Stored
  BY DEF CollectionInv, Placed, Typed, Stored, Good
<1>1. ASSUME collectionMetadata(r) PROVE PoolStep(r)
  <2> DEFINE q == IF collection = Null
                    THEN [request[r] EXCEPT !.result = "Failed"]
                    ELSE [request[r] EXCEPT !.result = "Succeeded",
                                            !.metadata = collection.metadata]
  <2>1. /\ name \notin Standalone /\ Job(r, "metadata", q)
        /\ events' = Append(events, r) /\ UNCHANGED <<collection, opened, secret>>
    BY <1>1 DEF collectionMetadata, Signals
  <2>2. request[r].at = "metadata"
    BY <2>1 DEF Job, NextJob
  <2>3. /\ q \in RequestStates /\ q.at = "metadata" /\ q.op = request[r].op
        /\ q.asked = request[r].asked /\ q.result \in {"Succeeded", "Failed"}
        /\ q.result = "Succeeded" => q.metadata \in MetadataOf(name)
    <3>1. CASE collection = Null
      BY <1>0, <2>2, <3>1 DEF RequestStates, Results
    <3>2. CASE collection # Null
      <4>1. collection.metadata \in MetadataOf(name)
        BY <1>0, <3>2 DEF Stored
      <4> QED BY <1>0, <2>2, <3>2, <4>1 DEF RequestStates, Results, MetadataOf
    <3> QED BY <3>1, <3>2
  <2> HIDE DEF q
  <2>4. q.op \notin SetStandaloneOps
    BY <1>0, <2>1, <2>2, <2>3 DEF Good, StandaloneOps
  <2>5. Good(name, q)
    BY <1>0, <2>2, <2>3, <2>4 DEF Good
  <2> QED BY <2>1, <2>3, <2>5, ReadingJob
<1>2. ASSUME secretMetadata(r) PROVE PoolStep(r)
  <2>1. PICK found \in IF secret = Null THEN {FALSE}
                       ELSE {TRUE} \cup IF name \in Faulty THEN {FALSE} ELSE {} :
          Job(r, "metadata",
             [request[r] EXCEPT
                !.result = IF found THEN "Succeeded" ELSE "Failed",
                !.metadata = IF found /\ request[r].op \notin SetStandaloneOps
                               THEN secret.metadata ELSE request[r].metadata])
    BY <1>2 DEF secretMetadata
  <2> DEFINE m == IF found /\ request[r].op \notin SetStandaloneOps
                    THEN secret.metadata ELSE request[r].metadata
             x == IF found THEN "Succeeded" ELSE "Failed"
             q == [request[r] EXCEPT !.result = x, !.metadata = m]
  <2>2. /\ Job(r, "metadata", q) /\ request[r].at = "metadata"
        /\ events' = Append(events, r) /\ UNCHANGED <<collection, opened, secret>>
    BY <1>2, <2>1 DEF secretMetadata, Signals, Job, NextJob
  <2>3. x \in {"Succeeded", "Failed"}
    OBVIOUS
  <2>4. /\ m \in Metadata \cup {Null}
        /\ x = "Succeeded" \/ request[r].op \in SetStandaloneOps => m \in MetadataOf(name)
    <3>1. found => secret # Null
      BY <2>1
    <3>2. found => secret.metadata \in MetadataOf(name)
      BY <1>0, <3>1 DEF Stored
    <3>3. request[r].op \in SetStandaloneOps => request[r].metadata \in MetadataOf(name)
      BY <1>0, <2>2 DEF Good
    <3> QED BY <1>0, <3>2, <3>3 DEF RequestStates, MetadataOf
  <2> HIDE DEF m, x
  <2>5. /\ q \in RequestStates /\ q.at = "metadata" /\ q.op = request[r].op
        /\ q.asked = request[r].asked /\ q.result = x /\ q.metadata = m
    BY <1>0, <2>2, <2>3, <2>4 DEF RequestStates, Results
  <2> HIDE DEF q
  <2>6. Good(name, q)
    BY <1>0, <2>2, <2>3, <2>4, <2>5 DEF Good
  <2> QED BY <2>2, <2>3, <2>5, <2>6, ReadingJob
<1>3. ASSUME isCollectionLocked(r) PROVE PoolStep(r)
  <2> DEFINE x == IF collection = Null THEN "Failed" ELSE "Succeeded"
             l == ~opened
             q == [request[r] EXCEPT !.result = x, !.locked = l]
  <2>1. /\ Job(r, "locked", q) /\ request[r].at = "locked"
        /\ UNCHANGED <<collection, opened, secret>> /\ UNCHANGED events
    BY <1>3 DEF isCollectionLocked, Job, NextJob
  <2>2. x \in {"Succeeded", "Failed"} /\ l \in BOOLEAN /\ (~l => opened)
    BY <1>0 DEF Typed
  <2> HIDE DEF x, l
  <2>3. /\ q \in RequestStates /\ q.at = "locked" /\ q.op = request[r].op
        /\ q.asked = request[r].asked /\ q.result = x /\ q.metadata = request[r].metadata
    BY <1>0, <2>1, <2>2 DEF RequestStates, Results
  <2>4. q.locked = l
    BY <1>0 DEF RequestStates
  <2> HIDE DEF q
  <2>5. Good(name, q)
    BY <1>0, <2>1, <2>2, <2>3 DEF Good
  <2>6. q.result = "Succeeded" /\ ~q.locked => opened
    BY <2>2, <2>4
  <2> QED BY <2>1, <2>2, <2>3, <2>5, <2>6, ReadingJob
<1>4. ASSUME deriveKeyFromCode(r) PROVE PoolStep(r)
  <2>1. PICK x \in {"Succeeded", "Failed"} :
          Job(r, "derive", [request[r] EXCEPT !.result = x])
    BY <1>4 DEF deriveKeyFromCode
  <2> DEFINE q == [request[r] EXCEPT !.result = x]
  <2>2. /\ Job(r, "derive", q) /\ request[r].at = "derive"
        /\ events' = Append(events, r) /\ UNCHANGED <<collection, opened, secret>>
    BY <1>4, <2>1 DEF deriveKeyFromCode, Signals, Job, NextJob
  <2>3. /\ q \in RequestStates /\ q.at = "derive" /\ q.op = request[r].op
        /\ q.asked = request[r].asked /\ q.result = x /\ q.metadata = request[r].metadata
    BY <1>0, <2>2 DEF RequestStates, Results
  <2> HIDE DEF q
  <2>4. Good(name, q)
    BY <1>0, <2>2, <2>3 DEF Good
  <2> QED BY <2>2, <2>3, <2>4, ReadingJob
<1>5. ASSUME NextJob(r, "run")
      PROVE  /\ r \in Elements(pool) /\ request[r].at = "run"
             /\ request[r].metadata \in MetadataOf(name) /\ request[r].key \in Keys
             /\ request[r].op \in OpsAt("run")
             /\ request[r].op \in StandaloneOps <=> name \in Standalone
  <2>1. pool # <<>> /\ r = Head(pool) /\ request[r].at = "run"
    BY <1>5 DEF NextJob
  <2>2. r \in Elements(pool)
    BY <1>0, <2>1, TailElements DEF Typed
  <2> QED BY <1>0, <2>1, <2>2 DEF Good, RequestStates
<1>6. ASSUME RunOperation(r) PROVE PoolStep(r)
  <2>1. PICK o \in IF IsEncrypted THEN EncryptedOutcomes(request[r])
                   ELSE PlainOutcomes(request[r]) :
          /\ Job(r, "run", [request[r] EXCEPT !.result = o.result])
          /\ collection' = o.collection
          /\ opened' = o.opened
    BY <1>6 DEF RunOperation
  <2>2. /\ name \notin Standalone /\ secret' = secret /\ events' = Append(events, r)
        /\ NextJob(r, "run")
    BY <1>6 DEF RunOperation, Signals
  <2>3. /\ o.result \in {"Succeeded", "Failed", "WrongKey"}
        /\ o.collection \in Stored
        /\ o.opened \in BOOLEAN
        /\ o.opened => IsEncrypted /\ o.collection # Null
        /\ Relocked => ~o.opened
        /\ o.result = "WrongKey" => request[r].asked
        /\ Relocked /\ request[r].op \notin CreateOps => request[r].asked
    BY <1>5, <2>1, <2>2, OutcomesGood
  <2> QED BY <1>0, <2>1, <2>2, <2>3, OperationJob
<1>7. ASSUME RunStandaloneOperation(r) PROVE PoolStep(r)
  <2>1. PICK o \in IF IsEncrypted THEN { <<"Failed", secret>> }
                   ELSE StandaloneOutcomes(request[r]) :
          /\ Job(r, "run", [request[r] EXCEPT !.result = o[1]])
          /\ secret' = o[2]
    BY <1>7 DEF RunStandaloneOperation
  <2>2. /\ name \in Standalone /\ UNCHANGED <<collection, opened>>
        /\ events' = Append(events, r) /\ NextJob(r, "run")
    BY <1>7 DEF RunStandaloneOperation, Signals
  <2>3. request[r].op \in SetStandaloneOps \cup {"getStandaloneSecret", "deleteStandaloneSecret"}
    BY <1>5, <2>2 DEF OpsAt, StandaloneOps
  <2>4. o[1] \in {"Succeeded", "Failed", "WrongKey"} /\ o[2] \in Stored
    BY <1>0, <1>5, <2>1, <2>2, <2>3, StandaloneOutcomesGood
  <2>5. Relocked => o[1] = "Failed"
    BY <2>1 DEF Relocked
  <2>6. /\ opened \in BOOLEAN
        /\ opened => IsEncrypted /\ collection # Null
        /\ Relocked => ~opened
    BY DEF CollectionInv, Typed, OpenExists, EveryAccessAsks, Relocked
  <2> QED BY <1>0, <2>1, <2>2, <2>4, <2>5, <2>6, OperationJob
<1> QED BY <1>1, <1>2, <1>3, <1>4, <1>6, <1>7 DEF Pool

-----------------------------------------------------------------------------
(* The theorems *)

\* The daemon starts with the invariant.
LEMMA CollectionInvInit ==
    ASSUME Init
    PROVE  CollectionInv
<1> USE DEF Init
<1>1. \A mk \in Creations : mk[1] \in MetadataOf(name) /\ mk[2] \in Keys
  BY DEF Creations, MetadataOf, Keys
<1>2. collection \in Stored
  <2>1. CASE collection = Null
    BY <2>1 DEF Stored
  <2>2. CASE collection # Null
    <3>1. PICK mk \in Creations : collection = NewCollection(mk[1], mk[2])
      BY <2>2
    <3> QED BY <1>1, <3>1 DEF NewCollection, Stored, Keys
  <2> QED BY <2>1, <2>2
<1>3. secret \in Stored
  <2>1. CASE secret = Null
    BY <2>1 DEF Stored
  <2>2. CASE secret # Null
    <3>1. PICK mk \in Creations : secret = [metadata |-> mk[1], key |-> mk[2]]
      BY <2>2
    <3> QED BY <1>1, <3>1 DEF Stored
  <2> QED BY <2>1, <2>2
<1>4. Blank \in RequestStates /\ Blank.at = "start" /\ Blank.result = "Pending"
      /\ Blank.op = "none"
  BY DEF Blank, RequestStates, Ats, Results, Keys
<1>5. pool \in Seq(Requests) /\ NoRepetition(pool) /\ Elements(pool) = {}
  BY EmptySeq DEF NoRepetition, Elements
<1>6. events \in Seq(Requests) /\ NoRepetition(events) /\ Elements(events) = {}
  BY EmptySeq DEF NoRepetition, Elements
<1>7. Typed
  BY <1>2, <1>3, <1>4, <1>5, <1>6 DEF Typed, Stored
<1>8. \A r \in Requests : request[r] = Blank /\ interaction[r] = "none" /\ blocked # r
  BY RequestsAssumption
<1>9. Good(name, Blank)
  BY <1>4 DEF Good, OpsAt
<1>10. Placed
  BY <1>4, <1>5, <1>6, <1>8, <1>9 DEF Placed, Place
<1>11. OpenExists /\ CheckHolds /\ NeverAskedNeverWrong /\ EveryAccessAsks
  BY <1>4, <1>5, <1>8 DEF OpenExists, CheckHolds, NeverAskedNeverWrong, EveryAccessAsks
<1> QED BY <1>7, <1>10, <1>11 DEF CollectionInv

\* The invariant is inductive.
LEMMA CollectionInvNext ==
    ASSUME CollectionInv, [Next]_vars
    PROVE  CollectionInv'
<1>1. CASE UNCHANGED vars
  BY <1>1 DEF vars, CollectionInv, Typed, Placed, OpenExists, CheckHolds,
              NeverAskedNeverWrong, EveryAccessAsks, IsEncrypted
<1>2. CASE Next
  <2>1. ASSUME NEW r \in Requests, Arrives(r) \/ MainThread(r) \/ User(r) PROVE CollectionInv'
    BY <2>1, ArrivesStep, MainThreadStep, UserStep, MainStepInv
  <2>2. ASSUME NEW r \in Requests, Pool(r) PROVE CollectionInv'
    BY <2>2, PoolJob, PoolStepInv
  <2> QED BY <1>1, <1>2, <2>1, <2>2 DEF Next, Stopped
<1> QED BY <1>1, <1>2

\* The invariant holds in every state of every behaviour.
THEOREM CollectionInvAlways == Spec => []CollectionInv
BY CollectionInvInit, CollectionInvNext, PTL DEF Spec

\* Every variable keeps its type.  No job and no signal is there twice, so the
\* pool and the signals never hold more than one entry for each request.
THEOREM TypeCorrect == Spec => []TypeOK
<1>1. CollectionInv => TypeOK
  <2> SUFFICES ASSUME CollectionInv PROVE TypeOK
    OBVIOUS
  <2>1. Typed
    BY DEF CollectionInv
  <2>2. Len(pool) <= Cardinality(Requests) /\ Len(events) <= Cardinality(Requests)
    BY <2>1, RequestsAssumption, LengthBound DEF Typed
  <2>3. [metadata : MetadataOf(name), key : Keys] \subseteq [metadata : Metadata, key : Keys]
    BY DEF MetadataOf
  <2> QED BY <2>1, <2>2, <2>3 DEF Typed, TypeOK, RequestStates, Parameters, Ats
<1> QED BY <1>1, CollectionInvAlways, PTL

\* A request that was made is in one place: no continuation loses it, and none
\* answers it and goes on (secretsrequestprocessor.cpp).
THEOREM AlwaysOneContinuation == Spec => []OneContinuation
<1>1. CollectionInv => OneContinuation
  <2> SUFFICES ASSUME CollectionInv, NEW r \in Requests, request[r].at # "start"
               PROVE  Count(r, pool) + Count(r, events)
                        + (IF blocked = r /\ Count(r, pool) = 0 THEN 1 ELSE 0)
                        + (IF interaction[r] # "none" THEN 1 ELSE 0)
                        + (IF request[r].at = "done" THEN 1 ELSE 0) = 1
    BY DEF OneContinuation
  <2>1. /\ Count(r, pool) = IF r \in Elements(pool) THEN 1 ELSE 0
        /\ Count(r, events) = IF r \in Elements(events) THEN 1 ELSE 0
    BY CountElements DEF CollectionInv, Typed
  <2>2. /\ Place(r, request[r], Elements(pool), Elements(events), blocked, interaction[r])
        /\ request[r].at \in Ats
    BY DEF CollectionInv, Placed, Good, RequestStates
  <2> QED BY <2>1, <2>2 DEF Place, Ats
<1> QED BY <1>1, CollectionInvAlways, PTL

\* userInputInteractionCompleted and authenticationCompleted always find the
\* number of parameters they insist on.
THEOREM NeverInternalError == Spec => []NoInternalError
<1>1. CollectionInv => NoInternalError
  BY DEF CollectionInv, Placed, Good, NoInternalError
<1> QED BY <1>1, CollectionInvAlways, PTL

\* A request whose user was not asked is never told that the key was wrong:
\* what isCollectionLocked() saw is still so when the operation runs, because
\* the main thread has waited for it.
THEOREM CheckedStaysTrue == Spec => []NeverAskedNeverWrong
<1>1. CollectionInv => NeverAskedNeverWrong
  BY DEF CollectionInv
<1> QED BY <1>1, CollectionInvAlways, PTL

\* An encrypted collection which is relocked after each access is used only
\* after its user was asked.
THEOREM RelockedAlwaysAsks == Spec => []EveryAccessAsks
<1>1. CollectionInv => EveryAccessAsks
  BY DEF CollectionInv
<1> QED BY <1>1, CollectionInvAlways, PTL

\* No request but a deletion closes a collection that is open.
THEOREM OpenStaysOpen == Spec => KeepsUnlocked
<1> DEFINE Kept == opened /\ collection' = collection
                     /\ ~(pool # <<>> /\ request[Head(pool)].op = "deleteCollection")
                     => opened'
<1>1. ASSUME CollectionInv, [Next]_vars PROVE [Kept]_vars
  <2>1. CASE UNCHANGED vars
    BY <2>1
  <2>2. ASSUME NEW r \in Requests, Arrives(r) \/ MainThread(r) \/ User(r) PROVE Kept
    <3>1. MainStep(r)
      BY <1>1, <2>2, ArrivesStep, MainThreadStep, UserStep
    <3> QED BY <3>1 DEF MainStep, storage
  <2>3. ASSUME NEW r \in Requests, Pool(r) PROVE Kept
    <3>1. CASE \/ collectionMetadata(r) \/ secretMetadata(r) \/ isCollectionLocked(r)
               \/ deriveKeyFromCode(r) \/ RunStandaloneOperation(r)
      BY <3>1 DEF collectionMetadata, secretMetadata, isCollectionLocked, deriveKeyFromCode,
                  RunStandaloneOperation
    <3>2. CASE RunOperation(r)
      <4>1. PICK o \in IF IsEncrypted THEN EncryptedOutcomes(request[r])
                       ELSE PlainOutcomes(request[r]) :
              collection' = o.collection /\ opened' = o.opened
        BY <3>2 DEF RunOperation
      <4>2. /\ name \notin Standalone /\ pool # <<>> /\ r = Head(pool)
            /\ request[r].at = "run"
        BY <3>2 DEF RunOperation, NextJob
      <4>3. r \in Elements(pool)
        BY <1>1, <4>2, TailElements DEF CollectionInv, Typed
      <4>4. opened /\ o.collection = collection /\ request[r].op # "deleteCollection" =>
              o.opened
        BY <1>1, <4>1, <4>2, <4>3, OutcomesGood
      <4> QED BY <4>1, <4>2, <4>4
    <3> QED BY <2>3, <3>1, <3>2 DEF Pool
  <2> HIDE DEF Kept
  <2> QED BY <1>1, <2>1, <2>2, <2>3 DEF Next, Stopped
<1> QED BY <1>1, CollectionInvAlways, PTL DEF Spec, KeepsUnlocked

=============================================================================
