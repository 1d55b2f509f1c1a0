-------------------------- MODULE StoredKeysProofs --------------------------
(***************************************************************************)
(* Proofs about the requests of the crypto daemon, for any number of       *)
(* requests and names.                                                     *)
(*                                                                         *)
(* The argument: what drives a request is one token, a job, a signal or a  *)
(* helper's request, which carries the request's own arguments.  While a   *)
(* helper works, the parameters put aside are a function of the request    *)
(* and of the helper's type, so the continuation that takes them finds the *)
(* arguments again.  A plugin that both stores and uses keys has one       *)
(* thread, so only the first job of that thread has the collection open.   *)
(***************************************************************************)
EXTENDS StoredKeys, TLAPS, SequenceTheorems, FiniteSetTheorems

-----------------------------------------------------------------------------
(* The inductive invariant *)

Elements(s) == { s[i] : i \in 1 .. Len(s) }
RequestsOf(s) == { s[i].request : i \in 1 .. Len(s) }
Behind(s) == { s[i] : i \in 2 .. Len(s) } \* all but the first

\* No request is in the list twice.
Distinct(s) == \A i, j \in 1 .. Len(s) : s[i].request = s[j].request => i = j

RequestStates ==
    [op : Ops \cup {"none"}, name : Names \cup {Null},
     plugin : CryptoPlugins \cup {Null}, parts : Parts, ui : BOOLEAN,
     result : Results \cup {"none"}, reply : Parts]
HelperStates == [type : Helpers, name : Names \cup {Null}, running : BOOLEAN]
Signals ==
    [request : Requests, job : Jobs \cup Dialogs, name : Names \cup {Null},
     plugin : CryptoPlugins \cup {Null}, parts : Parts, ui : BOOLEAN,
     key : CollectionKeys, result : Results]

\* A request for a key of its plugin, and for one of another plugin
HasKey(q) == q.name \in Names /\ q.plugin \in CryptoPlugins
InPlugin(q) == HasKey(q) /\ q.plugin = PluginOf[q.name]
Elsewhere(q) == HasKey(q) /\ q.plugin # PluginOf[q.name]

\* The arguments of job or signal x are those of request q.
Fits(x, q) ==
    /\ x.job \in JobOps \ {"generateKey"} => x.name = Null /\ q.op = x.job
    /\ x.job = "generateKey" =>
         \/ x.name = Null /\ q.op = "generateKey"
         \/ x.name = q.name /\ q.op = "generateStoredKey" /\ Elsewhere(q)
    /\ x.job = "importKey" =>
         \/ x.name = Null /\ q.op = "importKey" /\ q.name = Null
         \/ x.name = q.name /\ q.op = "importStoredKey" /\ Elsewhere(q)
    /\ x.job = "generateAndStoreKey" =>
         x.name = q.name /\ q.op = "generateStoredKey" /\ InPlugin(q)
    /\ x.job = "importAndStoreKey" =>
         x.name = q.name /\ q.op = "importStoredKey" /\ InPlugin(q)
    /\ x.job \in UseOps =>
         /\ x.name = q.name /\ q.op = x.job /\ q.name \in Names
         /\ IsReference(x.job, x.parts) => InPlugin(q)
    /\ x.job = "storedKey" =>
         x.name = q.name /\ q.op = "storedKey" /\ q.name \in Names /\ x.parts = q.parts
    /\ x.job \notin Helpers => x.plugin = q.plugin /\ q.plugin \in CryptoPlugins
    /\ x.ui => q.ui

\* The parameters w that wait for helper h of request q
UseBefore(op) ==
    CASE op = "sign" -> <<"data">>
      [] op = "verify" -> <<"signature", "data">>
      [] op \in {"encrypt", "decrypt"} -> <<"data", "iv">>
UseAfter(op, p) ==
    CASE op \in {"sign", "verify"} -> <<"padding", "digest", "custom", p>>
      [] op = "encrypt" -> <<"mode", "padding", "authentication", "custom", p>>
      [] op = "decrypt" -> <<"mode", "padding", "authentication", "tag", "custom", p>>

UseList(op, p) == UseBefore(op) \o UseAfter(op, p)
CheckList(op, n, parts, p) == UseBefore(op) \o << <<n, parts>> >> \o UseAfter(op, p)

PreChecked(h, q, w) ==
    /\ h.type = "storeKeyPreCheck" /\ h.name = q.name
    /\ HasKey(q)
    /\ \/ q.op = "generateStoredKey" /\ w = <<q.name, "kpg", "skdf", q.ui, "custom", q.plugin>>
       \/ q.op = "importStoredKey" /\ w = <<"data", q.name, q.ui, "custom", q.plugin>>

Prompted(h, q, w) ==
    /\ h.type = "userInput" /\ h.name = q.name
    /\ \E key \in CollectionKeys, ui \in BOOLEAN :
         /\ ui => q.ui
         /\ \/ /\ q.op = "generateStoredKey" /\ HasKey(q)
               /\ w = <<q.name, "kpg", "skdf", "custom", q.plugin, key>>
            \/ /\ q.op = "importStoredKey" /\ HasKey(q)
               /\ w = <<"data", q.name, ui, "custom", q.plugin, key>>
            \/ /\ q.op = "importKey" /\ q.name = Null /\ q.plugin \in CryptoPlugins
               /\ w = <<"data", ui, "custom", q.plugin>>

KeyRead(h, q, w) ==
    /\ h.type = "getKey" /\ h.name = q.name /\ q.name \in Names
    /\ \/ q.op = "storedKey" /\ w = <<q.name, q.parts>>
       \/ /\ q.op \in UseOps /\ q.plugin \in CryptoPlugins
          /\ w = UseList(q.op, q.plugin)

KeyChecked(h, q, w) ==
    /\ h.type = "useKeyPreCheck" /\ h.name = q.name /\ InPlugin(q)
    /\ q.op \in UseOps /\ IsReference(q.op, q.parts)
    /\ w = CheckList(q.op, q.name, q.parts, q.plugin)

KeyStored(h, q, w) ==
    /\ h.type = "setKey" /\ Elsewhere(q)
    /\ \/ q.op = "generateStoredKey" /\ h.name = q.name /\ w = << <<q.name, "all">> >>
       \/ q.op = "importStoredKey" /\ h.name = Null /\ w = << <<q.name, "none">> >>

NothingNeeded(h, q, w) ==
    /\ h.name = q.name /\ Len(w) <= 9
    /\ \/ h.type = "deleteKey" /\ q.op = "deleteStoredKey"
       \/ h.type = "keyIdentifiers" /\ q.op = "storedKeyIdentifiers"
       \/ h.type \in {"lockStatus", "lockCode"} /\ q.op \in LockOps

HelperFits(h, q, w) ==
    \/ PreChecked(h, q, w) \/ Prompted(h, q, w) \/ KeyRead(h, q, w)
    \/ KeyChecked(h, q, w) \/ KeyStored(h, q, w) \/ NothingNeeded(h, q, w)

\* A job that has to open the collection itself
Opens(j) ==
    /\ OnCollection(j) /\ j.job # "storedKey"
    /\ j.job \in UseOps => IsReference(j.job, j.parts)

JobFits(p, j, q) ==
    /\ Fits(j, q)
    /\ p = IF j.job \in Helpers THEN "secrets" ELSE threadPoolForPlugin(j.plugin)
    /\ j.stage = "queued" => ~j.wasLocked /\ (OnCollection(j) => Opens(j))
    /\ ~Opens(j) => ~j.wasLocked
    /\ j.job \in Helpers => j.name \in Names

Typed ==
    /\ keys \in [Names -> Requests \cup {Old, Null}]
    /\ keep \in BOOLEAN /\ locked \in BOOLEAN /\ leftOpen \in BOOLEAN
    /\ request \in [Requests -> RequestStates]
    /\ m_pendingRequests = [r \in Requests |-> m_pendingRequests[r]]
    /\ m_cryptoApiHelperRequests \in [Requests -> HelperStates \cup {Null}]
    /\ pool \in [Pools -> Seq(Job)] /\ \A p \in Pools : Distinct(pool[p])
    /\ events \in Seq(Signals) /\ Distinct(events)

\* The exception of OneDriver: nobody is asked for the passphrase.
Forgotten(q) == q.op = "importStoredKey" /\ q.ui /\ Elsewhere(q)

\* Request r is driven by what is in one of the pools (S, C), the signals (E),
\* or by its helper's entry h.
DrivenBy(r, q, S, C, E, h) ==
    LET queued == h # Null /\ ~h.running
        works == q.op # "none" /\ q.result = "none" IN
    /\ r \in S => r \notin C /\ r \notin E /\ ~queued /\ works
    /\ r \in C => r \notin E /\ ~queued /\ works
    /\ r \in E => ~queued /\ works
    /\ queued => works
    /\ works => r \in S \/ r \in C \/ r \in E \/ queued \/ Forgotten(q)

Driven ==
    \A r \in Requests :
      DrivenBy(r, request[r], RequestsOf(pool["secrets"]), RequestsOf(pool["crypto"]),
               RequestsOf(events), m_cryptoApiHelperRequests[r])

\* The helper's entry of x's request says what x is; there is none for others.
HelpedBy(x, h) ==
    IF x.job \in Helpers THEN h # Null /\ h.running /\ h.type = x.job /\ h.name = x.name
    ELSE h = Null
Helped(x) == HelpedBy(x, m_cryptoApiHelperRequests[x.request])

Arguments ==
    /\ \A r \in Requests : m_cryptoApiHelperRequests[r] # Null =>
         /\ m_pendingRequests[r].type = request[r].op
         /\ HelperFits(m_cryptoApiHelperRequests[r], request[r], m_pendingRequests[r].parameters)
    /\ \A p \in Pools : \A j \in Elements(pool[p]) :
         JobFits(p, j, request[j.request]) /\ Helped(j)
    /\ \A e \in Elements(events) : Fits(e, request[e.request]) /\ Helped(e)
    /\ \A r \in Requests :
         m_pendingRequests[r] # Null =>
           m_pendingRequests[r].type \in Ops /\ Len(m_pendingRequests[r].parameters) <= 9

\* Only the first job of the plugin's thread has the collection open.
OneOpens ==
    /\ \A p \in Pools : \A j \in Behind(pool[p]) : Opens(j) => j.stage = "queued"
    /\ OpenOnlyInUse

\* A key that was stored for r is there, or another request deletes it.
IsKept(r) ==
    /\ request[r].name \in Names
    /\ \/ keys[request[r].name] = r
       \/ \E s \in Requests \ {r} :
            request[s].name = request[r].name /\ request[s].op = "deleteStoredKey"

Kept ==
    /\ \A r \in Requests :
         request[r].op \in StoreOps /\ request[r].result = "Succeeded" => IsKept(r)
    /\ \A e \in Elements(events) :
         e.job \in StoreJobs \cup {"setKey"} /\ e.result = "Succeeded" => IsKept(e.request)

\* The requests that may have a stored key: an imported key reaches another
\* plugin without a name, and is refused there.
OwnerFits(q) == q.op \in StoreOps /\ (q.op = "importStoredKey" => ~Elsewhere(q))
Owned == \A n \in Names, r \in Requests : keys[n] = r => OwnerFits(request[r])

\* What request q may be answered
ReplyFits(q, result, reply) ==
    /\ q.op \in StoreOps /\ reply = "all" =>
         q.op = "importStoredKey" /\ result = "Failed" /\ Elsewhere(q)
    /\ q.op = "storedKey" => reply \in {"none", q.parts}
Shown == \A r \in Requests : ReplyFits(request[r], request[r].result, request[r].reply)

KeysInv == Typed /\ Driven /\ Arguments /\ OneOpens /\ Kept /\ Owned /\ Shown

-----------------------------------------------------------------------------
(* The lists of jobs and of signals *)

\* A job or a signal is appended.
LEMMA AppendRequest ==
    ASSUME NEW S, NEW s \in Seq(S), NEW e \in S
    PROVE  /\ Append(s, e) \in Seq(S) /\ Append(s, e) # <<>>
           /\ Elements(Append(s, e)) = Elements(s) \cup {e}
           /\ RequestsOf(Append(s, e)) = RequestsOf(s) \cup {e.request}
           /\ e.request \notin RequestsOf(s) /\ Distinct(s) => Distinct(Append(s, e))
           /\ Behind(Append(s, e)) \subseteq Behind(s) \cup {e}
           /\ s = <<>> => Head(Append(s, e)) = e
           /\ s # <<>> => Head(Append(s, e)) = Head(s)
<1> DEFINE t == Append(s, e)
<1>1. /\ t \in Seq(S) /\ Len(t) = Len(s) + 1 /\ Len(s) \in Nat
      /\ \A i \in 1 .. Len(s) : t[i] = s[i]
      /\ t[Len(s) + 1] = e
  BY AppendProperties, LenProperties
<1>2. s # <<>> => 1 \in 1 .. Len(s)
  BY LenProperties, EmptySeq
<1>3. (s = <<>> => Len(s) = 0) /\ t # <<>>
  BY <1>1, EmptySeq
<1>4. Head(t) = t[1] /\ (s # <<>> => Head(s) = s[1])
  BY <1>1, HeadTailProperties, EmptySeq
<1> HIDE DEF t
<1>5. 1 .. Len(t) = (1 .. Len(s)) \cup {Len(s) + 1} /\ Len(s) + 1 \notin 1 .. Len(s)
  BY <1>1
<1>6. Elements(t) = Elements(s) \cup {e} /\ RequestsOf(t) = RequestsOf(s) \cup {e.request}
  BY <1>1, <1>5 DEF Elements, RequestsOf
<1>7. e.request \notin RequestsOf(s) /\ Distinct(s) => Distinct(t)
  BY <1>1, <1>5 DEF RequestsOf, Distinct
<1>8. Behind(t) \subseteq Behind(s) \cup {e}
  <2>1. SUFFICES ASSUME NEW i \in 2 .. Len(t) PROVE t[i] \in Behind(s) \cup {e}
    BY DEF Behind
  <2>2. i \in 2 .. Len(s) \/ i = Len(s) + 1
    BY <1>1
  <2> QED BY <2>2, <1>1 DEF Behind
<1> QED
  BY <1>1, <1>2, <1>3, <1>4, <1>6, <1>7, <1>8 DEF t

\* The elements of a list, their requests, and a list without repetitions
LEMMA ElementsOf ==
    ASSUME NEW S, NEW s \in Seq(S)
    PROVE  /\ Elements(s) \subseteq S
           /\ RequestsOf(s) = { x.request : x \in Elements(s) }
           /\ s # <<>> => Head(s) \in Elements(s) /\ Head(s) \in S
           /\ Behind(s) \subseteq Elements(s)
           /\ \A x \in Elements(s) : x.request \in RequestsOf(s)
<1>1. Len(s) \in Nat /\ (s # <<>> => Len(s) > 0) /\ \A i \in 1 .. Len(s) : s[i] \in S
  BY LenProperties, EmptySeq, ElementOfSeq
<1>2. s # <<>> => Head(s) = s[1]
  BY HeadTailProperties
<1> QED BY <1>1, <1>2 DEF Elements, RequestsOf, Behind

\* The first job or signal is taken.
LEMMA TailRequest ==
    ASSUME NEW S, NEW s \in Seq(S), s # <<>>, Distinct(s)
    PROVE  /\ Tail(s) \in Seq(S) /\ Distinct(Tail(s))
           /\ Head(s) \in Elements(s) /\ Head(s) \in S
           /\ Elements(Tail(s)) = Behind(s)
           /\ Behind(Tail(s)) \subseteq Behind(s)
           /\ RequestsOf(Tail(s)) = RequestsOf(s) \ {Head(s).request}
           /\ Tail(s) # <<>> => Head(Tail(s)) \in Behind(s)
           /\ Elements(s) = Behind(s) \cup {Head(s)}
<1> DEFINE t == Tail(s)
<1>1. /\ t \in Seq(S) /\ Len(t) = Len(s) - 1 /\ Len(s) \in Nat /\ Len(s) > 0
      /\ \A i \in 1 .. Len(t) : t[i] = s[i + 1]
      /\ Head(s) = s[1] /\ Head(s) \in S
  BY HeadTailProperties, LenProperties, EmptySeq
<1>2. t # <<>> => Head(t) = t[1] /\ Len(t) > 0
  BY <1>1, HeadTailProperties, EmptySeq, LenProperties
<1> HIDE DEF t
<1>3. Distinct(t)
  BY <1>1 DEF Distinct
<1>4. Elements(t) = Behind(s)
  <2>1. Elements(t) \subseteq Behind(s)
    <3>1. SUFFICES ASSUME NEW i \in 1 .. Len(t) PROVE t[i] \in Behind(s)
      BY DEF Elements
    <3>2. i + 1 \in 2 .. Len(s) /\ t[i] = s[i + 1]
      BY <1>1
    <3> QED BY <3>2 DEF Behind
  <2>2. Behind(s) \subseteq Elements(t)
    <3>1. SUFFICES ASSUME NEW i \in 2 .. Len(s) PROVE s[i] \in Elements(t)
      BY DEF Behind
    <3>2. i - 1 \in 1 .. Len(t) /\ t[i - 1] = s[i]
      BY <1>1
    <3> QED BY <3>2 DEF Elements
  <2> QED BY <2>1, <2>2
<1>5. Behind(t) \subseteq Elements(t)
  BY <1>1, ElementsOf
<1>6. RequestsOf(t) = RequestsOf(s) \ {s[1].request}
  <2>1. \A x \in RequestsOf(t) : x \in RequestsOf(s) /\ x # s[1].request
    BY <1>1 DEF RequestsOf, Distinct
  <2>2. \A x \in RequestsOf(s) : x # s[1].request => x \in RequestsOf(t)
    <3>1. SUFFICES ASSUME NEW i \in 1 .. Len(s), s[i].request # s[1].request
                   PROVE s[i].request \in RequestsOf(t)
      BY DEF RequestsOf
    <3>2. i - 1 \in 1 .. Len(t) /\ t[i - 1] = s[i]
      BY <3>1, <1>1
    <3> QED BY <3>2 DEF RequestsOf
  <2> QED BY <2>1, <2>2
<1>7. t # <<>> => Head(t) \in Behind(s)
  BY <1>1, <1>2, <1>4 DEF Elements
<1>8. Elements(s) = Behind(s) \cup {s[1]}
  <2>1. 1 .. Len(s) = (2 .. Len(s)) \cup {1}
    BY <1>1
  <2> QED BY <2>1 DEF Elements, Behind
<1> QED
  BY <1>1, <1>3, <1>4, <1>5, <1>6, <1>7, <1>8 DEF t

\* The running job changes.
LEMMA HeadReplaced ==
    ASSUME NEW S, NEW s \in Seq(S), s # <<>>, Distinct(s), NEW e \in S,
           e.request = Head(s).request
    PROVE  LET t == <<e>> \o Tail(s) IN
           /\ t \in Seq(S) /\ t # <<>> /\ Distinct(t) /\ Head(t) = e
           /\ Elements(t) = Behind(s) \cup {e} /\ Behind(t) = Behind(s)
           /\ RequestsOf(t) = RequestsOf(s)
<1> DEFINE t == <<e>> \o Tail(s)
<1>1. /\ Tail(s) \in Seq(S) /\ Len(Tail(s)) = Len(s) - 1 /\ Len(s) \in Nat /\ Len(s) > 0
      /\ \A i \in 1 .. Len(Tail(s)) : Tail(s)[i] = s[i + 1]
      /\ Head(s) = s[1] /\ Head(s) \in S
  BY HeadTailProperties, LenProperties, EmptySeq
<1>2. <<e>> \in Seq(S) /\ Len(<<e>>) = 1 /\ <<e>>[1] = e
  OBVIOUS
<1>3. /\ t \in Seq(S) /\ Len(t) = 1 + Len(Tail(s))
      /\ \A i \in 1 .. Len(t) : t[i] = IF i <= 1 THEN <<e>>[i] ELSE Tail(s)[i - 1]
  BY <1>1, <1>2, ConcatProperties
<1>4. t # <<>>
  BY <1>1, <1>3, EmptySeq
<1>5. Head(t) = t[1]
  BY <1>3, <1>4, HeadTailProperties
<1> HIDE DEF t
<1>6. Len(t) = Len(s) /\ t[1] = e /\ \A i \in 2 .. Len(s) : t[i] = s[i]
  BY <1>1, <1>2, <1>3
<1>7. Behind(t) = Behind(s)
  BY <1>6 DEF Behind
<1>8. 1 .. Len(s) = (2 .. Len(s)) \cup {1}
  BY <1>1
<1>9. Elements(t) = Behind(s) \cup {e}
  BY <1>6, <1>8 DEF Elements, Behind
<1>10. \A i \in 1 .. Len(s) : t[i].request = s[i].request
  BY <1>1, <1>6, <1>8
<1>11. RequestsOf(t) = RequestsOf(s) /\ Distinct(t)
  BY <1>6, <1>10 DEF RequestsOf, Distinct
<1> QED BY <1>3, <1>4, <1>5, <1>6, <1>7, <1>9, <1>11 DEF t

-----------------------------------------------------------------------------
(* What a step does to the request it is about *)

\* The entries of the other requests are left alone.
OthersKept(r) ==
    /\ request' \in [Requests -> RequestStates]
    /\ m_cryptoApiHelperRequests' \in [Requests -> HelperStates \cup {Null}]
    /\ m_pendingRequests' = [s \in Requests |-> m_pendingRequests'[s]]
    /\ \A s \in Requests : s # r =>
         /\ request'[s] = request[s]
         /\ m_cryptoApiHelperRequests'[s] = m_cryptoApiHelperRequests[s]
         /\ m_pendingRequests'[s] = m_pendingRequests[s]

\* The main thread takes a request that arrives or the next signal.
SameRequest(q, n) ==
    /\ n.op = q.op /\ n.name = q.name /\ n.plugin = q.plugin
    /\ n.parts = q.parts /\ n.ui = q.ui
Source(r) ==
    \/ request[r] = Blank /\ UNCHANGED events /\ request'[r].result # "Succeeded"
    \/ /\ events # <<>> /\ Head(events).request = r /\ events' = Tail(events)
       /\ SameRequest(request[r], request'[r])

WaitingFits(h, q, w) == w.type = q.op /\ HelperFits(h, q, w.parameters)
ListBound(w) == w # Null => w.type \in Ops /\ Len(w.parameters) <= 9

\* The client is answered.
Replied(r) ==
    /\ UNCHANGED pool
    /\ request'[r].result # "none"
    /\ m_cryptoApiHelperRequests'[r] = Null
    /\ ReplyFits(request'[r], request'[r].result, request'[r].reply)
    /\ request'[r].result = "Succeeded" /\ request'[r].op \in StoreOps => IsKept(r)

\* A job of the request's own goes to its pool.
Sent(r) ==
    /\ request'[r].result = "none"
    /\ m_cryptoApiHelperRequests'[r] = Null
    /\ \E p \in Pools, j \in Job :
         /\ pool' = [pool EXCEPT ![p] = Append(@, j)]
         /\ j.request = r /\ j.job \notin Helpers
         /\ JobFits(p, j, request'[r])
         /\ Opens(j) => j.stage = "queued"

\* A helper is called.
Called(r) ==
    /\ UNCHANGED pool
    /\ request'[r].result = "none"
    /\ m_cryptoApiHelperRequests'[r] \in HelperStates
    /\ ~m_cryptoApiHelperRequests'[r].running
    /\ WaitingFits(m_cryptoApiHelperRequests'[r], request'[r], m_pendingRequests'[r])

\* Nobody is asked for the passphrase.
Dropped(r) ==
    /\ UNCHANGED pool
    /\ request'[r].result = "none"
    /\ m_cryptoApiHelperRequests'[r] = Null
    /\ Forgotten(request'[r])

MainStep(r) ==
    /\ Source(r) /\ OthersKept(r) /\ UNCHANGED storage
    /\ request'[r].op # "none"
    /\ request'[r].result = "none" => request'[r].reply = request[r].reply
    /\ ListBound(m_pendingRequests'[r])
    /\ Replied(r) \/ Sent(r) \/ Called(r) \/ Dropped(r)

\* If r alone moves the others are driven as before.
LEMMA DrivenKept ==
    ASSUME NEW r \in Requests, Driven, OthersKept(r),
           \A s \in Requests : s # r =>
             /\ s \in RequestsOf(pool'["secrets"]) <=> s \in RequestsOf(pool["secrets"])
             /\ s \in RequestsOf(pool'["crypto"]) <=> s \in RequestsOf(pool["crypto"])
             /\ s \in RequestsOf(events') <=> s \in RequestsOf(events),
           DrivenBy(r, request'[r], RequestsOf(pool'["secrets"]),
                    RequestsOf(pool'["crypto"]), RequestsOf(events'),
                    m_cryptoApiHelperRequests'[r])
    PROVE  Driven'
<1>1. SUFFICES ASSUME NEW s \in Requests, s # r
               PROVE  DrivenBy(s, request'[s], RequestsOf(pool'["secrets"]),
                               RequestsOf(pool'["crypto"]), RequestsOf(events'),
                               m_cryptoApiHelperRequests'[s])
  BY DEF Driven
<1>2. DrivenBy(s, request[s], RequestsOf(pool["secrets"]), RequestsOf(pool["crypto"]),
               RequestsOf(events), m_cryptoApiHelperRequests[s])
  BY DEF Driven
<1>3. /\ request'[s] = request[s]
      /\ m_cryptoApiHelperRequests'[s] = m_cryptoApiHelperRequests[s]
  BY <1>1 DEF OthersKept
<1> QED BY <1>1, <1>2, <1>3 DEF DrivenBy

\* The jobs and signals of the others, and what waits for them, are as before.
LEMMA ArgumentsKept ==
    ASSUME NEW r \in Requests, Arguments, OthersKept(r),
           \A p \in Pools : \A j \in Elements(pool'[p]) :
             \/ j \in Elements(pool[p]) /\ j.request \in Requests \ {r}
             \/ j.request = r /\ JobFits(p, j, request'[r]) /\ HelpedBy(j, m_cryptoApiHelperRequests'[r]),
           \A e \in Elements(events') :
             \/ e \in Elements(events) /\ e.request \in Requests \ {r}
             \/ e.request = r /\ Fits(e, request'[r]) /\ HelpedBy(e, m_cryptoApiHelperRequests'[r]),
           m_cryptoApiHelperRequests'[r] # Null =>
             WaitingFits(m_cryptoApiHelperRequests'[r], request'[r], m_pendingRequests'[r]),
           ListBound(m_pendingRequests'[r])
    PROVE  Arguments'
<1>1. ASSUME NEW s \in Requests
      PROVE  /\ m_cryptoApiHelperRequests'[s] # Null =>
                  WaitingFits(m_cryptoApiHelperRequests'[s], request'[s], m_pendingRequests'[s])
             /\ ListBound(m_pendingRequests'[s])
  <2>1. CASE s = r
    BY <2>1
  <2>2. CASE s # r
    BY <2>2 DEF Arguments, OthersKept, WaitingFits, ListBound
  <2> QED BY <2>1, <2>2
<1>2. ASSUME NEW p \in Pools, NEW j \in Elements(pool'[p])
      PROVE  JobFits(p, j, request'[j.request]) /\ Helped(j)'
  <2>1. CASE j \in Elements(pool[p]) /\ j.request \in Requests \ {r}
    <3>1. JobFits(p, j, request[j.request]) /\ Helped(j)
      BY <2>1 DEF Arguments
    <3>2. /\ request'[j.request] = request[j.request]
          /\ m_cryptoApiHelperRequests'[j.request] = m_cryptoApiHelperRequests[j.request]
      BY <2>1 DEF OthersKept
    <3> QED BY <3>1, <3>2 DEF Helped
  <2>2. CASE j.request = r /\ JobFits(p, j, request'[r]) /\ HelpedBy(j, m_cryptoApiHelperRequests'[r])
    BY <2>2 DEF Helped
  <2> QED BY <2>1, <2>2
<1>3. ASSUME NEW e \in Elements(events')
      PROVE  Fits(e, request'[e.request]) /\ Helped(e)'
  <2>1. CASE e \in Elements(events) /\ e.request \in Requests \ {r}
    <3>1. Fits(e, request[e.request]) /\ Helped(e)
      BY <2>1 DEF Arguments
    <3>2. /\ request'[e.request] = request[e.request]
          /\ m_cryptoApiHelperRequests'[e.request] = m_cryptoApiHelperRequests[e.request]
      BY <2>1 DEF OthersKept
    <3> QED BY <3>1, <3>2 DEF Helped
  <2>2. CASE e.request = r /\ Fits(e, request'[r]) /\ HelpedBy(e, m_cryptoApiHelperRequests'[r])
    BY <2>2 DEF Helped
  <2> QED BY <2>1, <2>2
<1> QED BY <1>1, <1>2, <1>3 DEF Arguments, WaitingFits, ListBound

\* The helper's entry of a request says that there is one.
LEMMA FittingWorks ==
    ASSUME NEW h, NEW q, NEW w, HelperFits(h, q, w)
    PROVE  q.op # "none"
BY DEF HelperFits, PreChecked, Prompted, KeyRead, KeyChecked, KeyStored, NothingNeeded, UseOps,
       LockOps

\* A request the main thread has taken is driven by nothing else.
LEMMA SourceAlone ==
    ASSUME NEW r \in Requests, KeysInv, Source(r)
    PROVE  /\ r \notin RequestsOf(pool["secrets"]) /\ r \notin RequestsOf(pool["crypto"])
           /\ r \notin RequestsOf(events')
           /\ events' \in Seq(Signals) /\ Distinct(events')
           /\ \A e \in Elements(events') : e \in Elements(events) /\ e.request \in Requests \ {r}
           /\ \A s \in Requests : s # r => (s \in RequestsOf(events') <=> s \in RequestsOf(events))
           /\ request[r] = Blank => m_cryptoApiHelperRequests[r] = Null
           /\ request[r] # Blank => request[r].result = "none"
<1> USE DEF KeysInv
<1>1. /\ DrivenBy(r, request[r], RequestsOf(pool["secrets"]), RequestsOf(pool["crypto"]),
                  RequestsOf(events), m_cryptoApiHelperRequests[r])
      /\ events \in Seq(Signals) /\ Distinct(events)
  BY DEF Driven, Typed
<1>2. /\ \A e \in Elements(events) : e.request \in RequestsOf(events) /\ e \in Signals
      /\ events # <<>> => Head(events) \in Elements(events)
  BY <1>1, ElementsOf
<1>3. Blank.op = "none"
  BY DEF Blank
<1>4. \A e \in Elements(events) : e.request \in Requests
  BY <1>2 DEF Signals
<1>5. CASE request[r] = Blank /\ UNCHANGED events
  <2>1. m_cryptoApiHelperRequests[r] = Null
    BY <1>3, <1>5, FittingWorks DEF Arguments
  <2>2. r \notin RequestsOf(pool["secrets"]) \cup RequestsOf(pool["crypto"]) \cup RequestsOf(events)
    BY <1>1, <1>3, <1>5 DEF DrivenBy
  <2> QED BY <1>1, <1>2, <1>4, <1>5, <2>1, <2>2
<1>6. CASE /\ events # <<>> /\ Head(events).request = r /\ events' = Tail(events)
  <2>1. /\ Tail(events) \in Seq(Signals) /\ Distinct(Tail(events))
        /\ Elements(Tail(events)) = Behind(events)
        /\ Behind(events) \subseteq Elements(events)
        /\ RequestsOf(Tail(events)) = RequestsOf(events) \ {r}
        /\ \A e \in Elements(Tail(events)) : e.request \in RequestsOf(Tail(events))
    BY <1>1, <1>6, TailRequest, ElementsOf
  <2>2. r \in RequestsOf(events)
    BY <1>2, <1>6
  <2>3. r \notin RequestsOf(pool["secrets"]) \cup RequestsOf(pool["crypto"])
        /\ request[r].op # "none" /\ request[r].result = "none"
    BY <1>1, <2>2 DEF DrivenBy
  <2> QED BY <1>3, <1>4, <1>6, <2>1, <2>2, <2>3
<1> QED BY <1>5, <1>6 DEF Source

\* What a main-thread step leaves in the pools: the jobs there, and perhaps
\* one of r, which was not in any of them.
LEMMA MainStepPools ==
    ASSUME NEW r \in Requests, KeysInv, MainStep(r)
    PROVE  /\ pool' \in [Pools -> Seq(Job)]
           /\ \A p \in Pools :
                /\ Distinct(pool'[p])
                /\ \A s \in Requests : s # r =>
                     (s \in RequestsOf(pool'[p]) <=> s \in RequestsOf(pool[p]))
                /\ \A j \in Elements(pool'[p]) :
                     \/ j \in Elements(pool[p]) /\ j.request \in Requests \ {r}
                     \/ Sent(r) /\ j.request = r /\ JobFits(p, j, request'[r])
                                /\ j.job \notin Helpers
                /\ \A j \in Behind(pool'[p]) : j \in Behind(pool[p]) \/ (Opens(j) => j.stage = "queued")
                /\ pool[p] # <<>> => pool'[p] # <<>> /\ Head(pool'[p]) = Head(pool[p])
                /\ pool[p] = <<>> /\ pool'[p] # <<>> =>
                     (Opens(Head(pool'[p])) => Head(pool'[p]).stage = "queued")
           /\ Sent(r) => \/ r \in RequestsOf(pool'["secrets"]) /\ r \notin RequestsOf(pool'["crypto"])
                         \/ r \in RequestsOf(pool'["crypto"]) /\ r \notin RequestsOf(pool'["secrets"])
           /\ ~Sent(r) => pool' = pool
<1> USE DEF KeysInv
<1>1. /\ r \notin RequestsOf(pool["secrets"]) /\ r \notin RequestsOf(pool["crypto"])
  BY SourceAlone DEF MainStep
<1>2. /\ pool \in [Pools -> Seq(Job)]
      /\ \A p \in Pools : pool[p] \in Seq(Job) /\ Distinct(pool[p]) /\ r \notin RequestsOf(pool[p])
      /\ Pools = {"secrets", "crypto"}
  BY <1>1 DEF Typed, Pools
<1>3. \A p \in Pools : \A j \in Elements(pool[p]) : j.request \in Requests \ {r}
  <2>1. SUFFICES ASSUME NEW p \in Pools, NEW j \in Elements(pool[p])
                 PROVE  j.request \in Requests \ {r}
    OBVIOUS
  <2>2. j \in Job /\ j.request \in RequestsOf(pool[p])
    BY <1>2, ElementsOf
  <2> QED BY <1>2, <2>2 DEF Job
<1>4. CASE Sent(r)
  <2>1. PICK p \in Pools, j \in Job :
         /\ pool' = [pool EXCEPT ![p] = Append(@, j)]
         /\ j.request = r /\ j.job \notin Helpers
         /\ JobFits(p, j, request'[r])
         /\ Opens(j) => j.stage = "queued"
    BY <1>4 DEF Sent
  <2>2. pool'[p] = Append(pool[p], j) /\ \A o \in Pools : o # p => pool'[o] = pool[o]
    BY <1>2, <2>1
  <2>3. /\ Append(pool[p], j) \in Seq(Job) /\ Append(pool[p], j) # <<>>
        /\ Elements(Append(pool[p], j)) = Elements(pool[p]) \cup {j}
        /\ RequestsOf(Append(pool[p], j)) = RequestsOf(pool[p]) \cup {r}
        /\ Distinct(Append(pool[p], j))
        /\ Behind(Append(pool[p], j)) \subseteq Behind(pool[p]) \cup {j}
        /\ pool[p] = <<>> => Head(Append(pool[p], j)) = j
        /\ pool[p] # <<>> => Head(Append(pool[p], j)) = Head(pool[p])
    BY <1>2, <2>1, AppendRequest
  <2>4. pool' \in [Pools -> Seq(Job)]
    BY <1>2, <2>1, <2>3
  <2>5. \A o \in Pools : o # p => /\ r \notin RequestsOf(pool'[o])
                                  /\ Distinct(pool'[o])
    BY <1>2, <2>2
  <2>6. ASSUME NEW o \in Pools
        PROVE  /\ Distinct(pool'[o])
               /\ \A s \in Requests : s # r =>
                    (s \in RequestsOf(pool'[o]) <=> s \in RequestsOf(pool[o]))
               /\ \A k \in Elements(pool'[o]) :
                    \/ k \in Elements(pool[o]) /\ k.request \in Requests \ {r}
                    \/ Sent(r) /\ k.request = r /\ JobFits(o, k, request'[r])
                               /\ k.job \notin Helpers
               /\ \A k \in Behind(pool'[o]) : k \in Behind(pool[o]) \/ (Opens(k) => k.stage = "queued")
               /\ pool[o] # <<>> => pool'[o] # <<>> /\ Head(pool'[o]) = Head(pool[o])
               /\ pool[o] = <<>> /\ pool'[o] # <<>> =>
                    (Opens(Head(pool'[o])) => Head(pool'[o]).stage = "queued")
    <3>1. CASE o = p
      BY <1>3, <1>4, <2>1, <2>2, <2>3, <3>1
    <3>2. CASE o # p
      BY <1>2, <1>3, <2>2, <3>2
    <3> QED BY <3>1, <3>2
  <2>7. \/ r \in RequestsOf(pool'["secrets"]) /\ r \notin RequestsOf(pool'["crypto"])
        \/ r \in RequestsOf(pool'["crypto"]) /\ r \notin RequestsOf(pool'["secrets"])
    <3>1. p = "secrets" \/ p = "crypto"
      BY <1>2
    <3>2. r \in RequestsOf(pool'[p])
      BY <2>2, <2>3
    <3> QED BY <1>2, <2>5, <3>1, <3>2
  <2> QED BY <1>4, <2>4, <2>6, <2>7
<1>5. CASE ~Sent(r)
  <2>1. pool' = pool
    BY <1>5 DEF MainStep, Replied, Called, Dropped
  <2> QED BY <1>2, <1>3, <1>5, <2>1
<1> QED BY <1>4, <1>5

\* Only a request the main thread already knows is answered with success.
LEMMA SourceTaken ==
    ASSUME NEW r \in Requests, Typed, Driven, Source(r), request'[r].result = "Succeeded"
    PROVE  request[r] # Blank
<1>1. events # <<>> /\ Head(events).request = r
  BY DEF Source
<1>2. Head(events).request \in RequestsOf(events)
  BY <1>1, ElementsOf DEF Typed
<1>3. request[r].op # "none"
  BY <1>1, <1>2 DEF Driven, DrivenBy
<1> QED BY <1>3 DEF Blank

\* Every step of the main thread keeps the invariant.
LEMMA MainStepInv ==
    ASSUME NEW r \in Requests, KeysInv, MainStep(r)
    PROVE  KeysInv'
<1>1. Typed /\ Driven /\ Arguments /\ OneOpens /\ Kept /\ Owned /\ Shown
  BY DEF KeysInv
<1>2. /\ Source(r) /\ OthersKept(r) /\ UNCHANGED storage
      /\ request'[r].op # "none"
      /\ request'[r].result = "none" => request'[r].reply = request[r].reply
      /\ ListBound(m_pendingRequests'[r])
      /\ Replied(r) \/ Sent(r) \/ Called(r) \/ Dropped(r)
  BY DEF MainStep
<1>3. /\ r \notin RequestsOf(pool["secrets"]) /\ r \notin RequestsOf(pool["crypto"])
      /\ r \notin RequestsOf(events')
      /\ events' \in Seq(Signals) /\ Distinct(events')
      /\ \A e \in Elements(events') : e \in Elements(events) /\ e.request \in Requests \ {r}
      /\ \A s \in Requests : s # r => (s \in RequestsOf(events') <=> s \in RequestsOf(events))
      /\ request[r] = Blank => m_cryptoApiHelperRequests[r] = Null
      /\ request[r] # Blank => request[r].result = "none"
  BY <1>2, SourceAlone
<1>4. /\ pool' \in [Pools -> Seq(Job)]
      /\ \A p \in Pools :
           /\ Distinct(pool'[p])
           /\ \A s \in Requests : s # r =>
                (s \in RequestsOf(pool'[p]) <=> s \in RequestsOf(pool[p]))
           /\ \A j \in Elements(pool'[p]) :
                \/ j \in Elements(pool[p]) /\ j.request \in Requests \ {r}
                \/ Sent(r) /\ j.request = r /\ JobFits(p, j, request'[r])
                           /\ j.job \notin Helpers
           /\ \A j \in Behind(pool'[p]) : j \in Behind(pool[p]) \/ (Opens(j) => j.stage = "queued")
           /\ pool[p] # <<>> => pool'[p] # <<>> /\ Head(pool'[p]) = Head(pool[p])
           /\ pool[p] = <<>> /\ pool'[p] # <<>> =>
                (Opens(Head(pool'[p])) => Head(pool'[p]).stage = "queued")
      /\ Sent(r) => \/ r \in RequestsOf(pool'["secrets"]) /\ r \notin RequestsOf(pool'["crypto"])
                    \/ r \in RequestsOf(pool'["crypto"]) /\ r \notin RequestsOf(pool'["secrets"])
      /\ ~Sent(r) => pool' = pool
  BY MainStepPools
<1>5. "secrets" \in Pools /\ "crypto" \in Pools
  BY DEF Pools
<1>6. Typed'
  BY <1>1, <1>2, <1>3, <1>4 DEF Typed, OthersKept, storage
<1>7. Driven'
  <2>1. DrivenBy(r, request'[r], RequestsOf(pool'["secrets"]), RequestsOf(pool'["crypto"]),
                 RequestsOf(events'), m_cryptoApiHelperRequests'[r])
    <3>1. CASE Replied(r)
      <4>1. ~Sent(r) /\ m_cryptoApiHelperRequests'[r] = Null /\ request'[r].result # "none"
        BY <3>1 DEF Replied, Sent
      <4> QED BY <1>3, <1>4, <4>1 DEF DrivenBy
    <3>2. CASE Sent(r)
      <4>1. m_cryptoApiHelperRequests'[r] = Null /\ request'[r].result = "none"
        BY <3>2 DEF Sent
      <4> QED BY <1>2, <1>3, <1>4, <3>2, <4>1 DEF DrivenBy
    <3>3. CASE Called(r)
      <4>1. /\ m_cryptoApiHelperRequests'[r] \in HelperStates /\ ~m_cryptoApiHelperRequests'[r].running
            /\ request'[r].result = "none" /\ pool' = pool
        BY <3>3 DEF Called
      <4>2. m_cryptoApiHelperRequests'[r] # Null
        BY <4>1, NullAssumption DEF HelperStates
      <4> QED BY <1>2, <1>3, <4>1, <4>2 DEF DrivenBy
    <3>4. CASE Dropped(r)
      <4>1. /\ m_cryptoApiHelperRequests'[r] = Null /\ Forgotten(request'[r])
            /\ request'[r].result = "none" /\ pool' = pool
        BY <3>4 DEF Dropped
      <4> QED BY <1>2, <1>3, <4>1 DEF DrivenBy
    <3> QED BY <1>2, <3>1, <3>2, <3>3, <3>4
  <2> QED BY <1>1, <1>2, <1>3, <1>4, <1>5, <2>1, DrivenKept
<1>8. Arguments'
  <2>1. ASSUME NEW p \in Pools, NEW j \in Elements(pool'[p])
        PROVE \/ j \in Elements(pool[p]) /\ j.request \in Requests \ {r}
              \/ /\ j.request = r /\ JobFits(p, j, request'[r])
                 /\ HelpedBy(j, m_cryptoApiHelperRequests'[r])
    <3>1. CASE Sent(r) /\ j.request = r /\ JobFits(p, j, request'[r]) /\ j.job \notin Helpers
      BY <3>1 DEF Sent, HelpedBy
    <3> QED BY <1>4, <3>1
  <2>2. m_cryptoApiHelperRequests'[r] # Null =>
          WaitingFits(m_cryptoApiHelperRequests'[r], request'[r], m_pendingRequests'[r])
    BY <1>2 DEF Replied, Sent, Called, Dropped
  <2> QED BY <1>1, <1>2, <1>3, <2>1, <2>2, ArgumentsKept
<1>9. OneOpens'
  <2>1. \A p \in Pools : \A j \in Behind(pool'[p]) : Opens(j) => j.stage = "queued"
    BY <1>1, <1>4 DEF OneOpens
  <2>2. ASSUME NEW p \in Pools
        PROVE  /\ OpenedBy(p) => OpenedBy(p)' /\ Head(pool'[p]) = Head(pool[p])
               /\ OpenedBy(p)' => OpenedBy(p)
    <3>1. CASE pool[p] # <<>>
      BY <1>4, <3>1 DEF OpenedBy
    <3>2. CASE pool[p] = <<>>
      <4>1. ~OpenedBy(p)
        BY <3>2 DEF OpenedBy
      <4>2. OpenedBy(p)' => pool'[p] # <<>> /\ Opens(Head(pool'[p])) /\ Head(pool'[p]).stage = "open"
        BY DEF OpenedBy, Opens
      <4> QED BY <1>4, <3>2, <4>1, <4>2
    <3> QED BY <3>1, <3>2
  <2>3. OpenOnlyInUse
    BY <1>1 DEF OneOpens
  <2>4. locked' = locked /\ keep' = keep /\ leftOpen' = leftOpen
    BY <1>2 DEF storage
  <2>5. OpenOnlyInUse'
    <3>1. \A p \in Pools : OpenedBy(p)' => ~locked'
      BY <2>2, <2>3, <2>4 DEF OpenOnlyInUse
    <3>2. \/ keep' \/ locked' \/ leftOpen'
          \/ \E p \in Pools : OpenedBy(p)' /\ Head(pool'[p]).wasLocked
      BY <2>2, <2>3, <2>4 DEF OpenOnlyInUse
    <3> QED BY <3>1, <3>2 DEF OpenOnlyInUse
  <2> QED BY <2>1, <2>5 DEF OneOpens
<1>10. /\ \A s \in Requests : request'[s].name = request[s].name \/ (s = r /\ request[r] = Blank)
       /\ \A s \in Requests : request'[s].op = request[s].op \/ (s = r /\ request[r] = Blank)
       /\ \A s \in Requests : request'[s].plugin = request[s].plugin \/ (s = r /\ request[r] = Blank)
       /\ keys' = keys /\ Blank.op = "none" /\ Blank.reply = "none"
  BY <1>2 DEF OthersKept, Source, SameRequest, storage, Blank
<1>11. Kept'
  <2>2. ASSUME NEW s \in Requests, s # r \/ request[r] # Blank, IsKept(s)
        PROVE  IsKept(s)'
    <3>1. CASE keys[request[s].name] = s
      BY <1>10, <2>2, <3>1 DEF IsKept
    <3>2. CASE \E t \in Requests \ {s} :
                 request[t].name = request[s].name /\ request[t].op = "deleteStoredKey"
      <4>1. PICK t \in Requests \ {s} :
                 request[t].name = request[s].name /\ request[t].op = "deleteStoredKey"
        BY <3>2
      <4>2. request[t] # Blank
        BY <1>10, <4>1
      <4>3. request'[t].name = request'[s].name /\ request'[t].op = request[t].op
        BY <1>10, <2>2, <4>1, <4>2
      <4>4. request'[s].name \in Names
        BY <1>10, <2>2 DEF IsKept
      <4> QED BY <4>1, <4>3, <4>4 DEF IsKept
    <3> QED BY <2>2, <3>1, <3>2 DEF IsKept
  <2>4. ASSUME NEW s \in Requests, request'[s].result = "Succeeded", request'[s].op \in StoreOps
        PROVE  IsKept(s)'
    <3>1. CASE s = r
      <4>1. Replied(r)
        BY <1>2, <2>4, <3>1 DEF Sent, Called, Dropped
      <4>2. IsKept(r)
        BY <2>4, <3>1, <4>1 DEF Replied
      <4>4. request[r] # Blank
        BY <1>1, <1>2, <2>4, <3>1, SourceTaken
      <4> QED BY <2>2, <3>1, <4>2, <4>4
    <3>2. CASE s # r
      <4>1. request'[s] = request[s]
        BY <1>2, <3>2 DEF OthersKept
      <4>2. IsKept(s)
        BY <1>1, <2>4, <4>1 DEF Kept
      <4> QED BY <2>2, <3>2, <4>2
    <3> QED BY <3>1, <3>2
  <2>5. ASSUME NEW e \in Elements(events'), e.job \in StoreJobs \cup {"setKey"}, e.result = "Succeeded"
        PROVE  IsKept(e.request)'
    BY <1>1, <1>3, <2>2, <2>5 DEF Kept
  <2> QED BY <2>4, <2>5 DEF Kept
<1>12. Owned'
  <2>1. SUFFICES ASSUME NEW n \in Names, NEW s \in Requests, keys'[n] = s
                 PROVE  OwnerFits(request'[s])
    BY DEF Owned
  <2>2. OwnerFits(request[s])
    BY <1>1, <1>10, <2>1 DEF Owned
  <2>3. s # r \/ request[r] # Blank
    BY <1>10, <2>2 DEF OwnerFits, StoreOps
  <2> QED BY <1>10, <2>2, <2>3 DEF OwnerFits, Elsewhere, HasKey
<1>13. Shown'
  <2>1. SUFFICES ASSUME NEW s \in Requests
                 PROVE  ReplyFits(request'[s], request'[s].result, request'[s].reply)
    BY DEF Shown
  <2>2. CASE s # r
    BY <1>1, <1>2, <2>2 DEF Shown, OthersKept
  <2>3. CASE s = r /\ Replied(r)
    BY <2>3 DEF Replied
  <2>4. CASE s = r /\ request'[r].result = "none" /\ request[r] = Blank
    BY <1>2, <1>10, <2>4 DEF ReplyFits
  <2>5. CASE s = r /\ request'[r].result = "none" /\ request[r] # Blank
    <3>1. SameRequest(request[r], request'[r]) /\ request'[r].reply = request[r].reply
      BY <1>2, <2>5 DEF Source
    <3>2. ReplyFits(request[r], request[r].result, request[r].reply) /\ request[r].result # "Failed"
      BY <1>1, <1>3, <2>5 DEF Shown
    <3> QED BY <2>5, <3>1, <3>2 DEF ReplyFits, SameRequest
  <2> QED BY <1>2, <2>2, <2>3, <2>4, <2>5 DEF Sent, Called, Dropped
<1> QED BY <1>6, <1>7, <1>8, <1>9, <1>11, <1>12, <1>13 DEF KeysInv

-----------------------------------------------------------------------------
(* The pools and the secrets daemon *)

\* The first job of a pool and its request
LEMMA HeadJob ==
    ASSUME KeysInv, NEW p \in Pools, pool[p] # <<>>
    PROVE  LET j == Head(pool[p])
               r == j.request IN
           /\ j \in Job /\ j \in Elements(pool[p]) /\ r \in Requests
           /\ JobFits(p, j, request[r]) /\ Helped(j)
           /\ r \in RequestsOf(pool[p]) /\ r \notin RequestsOf(events)
           /\ \A o \in Pools : o # p => r \notin RequestsOf(pool[o])
           /\ request[r].op # "none" /\ request[r].result = "none"
<1> DEFINE j == Head(pool[p])
<1>1. j \in Elements(pool[p]) /\ j \in Job /\ j.request \in RequestsOf(pool[p])
  BY ElementsOf DEF KeysInv, Typed
<1>2. j.request \in Requests
  BY <1>1 DEF Job
<1>3. JobFits(p, j, request[j.request]) /\ Helped(j)
  BY <1>1 DEF KeysInv, Arguments
<1> HIDE DEF j
<1>4. DrivenBy(j.request, request[j.request], RequestsOf(pool["secrets"]),
               RequestsOf(pool["crypto"]), RequestsOf(events),
               m_cryptoApiHelperRequests[j.request])
  BY <1>2 DEF KeysInv, Driven
<1>5. p = "secrets" \/ p = "crypto"
  BY DEF Pools
<1>6. \A o \in Pools : o = "secrets" \/ o = "crypto"
  BY DEF Pools
<1>7. /\ j.request \notin RequestsOf(events)
      /\ request[j.request].op # "none" /\ request[j.request].result = "none"
  BY <1>1, <1>4, <1>5 DEF DrivenBy
<1>8. \A o \in Pools : o # p => j.request \notin RequestsOf(pool[o])
  BY <1>1, <1>4, <1>5, <1>6 DEF DrivenBy
<1> QED BY <1>1, <1>2, <1>3, <1>7, <1>8 DEF j

\* A plugin that stores keys and uses them has one thread, that of the secrets
\* daemon.
LEMMA OpensInSecrets ==
    ASSUME NEW p, NEW j \in Job, NEW q, JobFits(p, j, q), Opens(j)
    PROVE  p = "secrets"
<1>1. CASE j.job \in Helpers
  BY <1>1 DEF JobFits
<1>2. CASE j.job \notin Helpers
  <2>1. j.plugin = q.plugin /\ Fits(j, q) /\ p = threadPoolForPlugin(j.plugin)
    BY <1>2 DEF JobFits, Fits
  <2>2. j.name # Null /\ PluginOf[j.name] = "sqlcipher"
    BY DEF Opens, OnCollection, UsesCollection
  <2>3. InPlugin(q) /\ j.name = q.name
    BY <1>2, <2>1 DEF Job, Fits, Opens, OnCollection, Jobs, StoreJobs
  <2> QED BY <2>1, <2>2, <2>3 DEF InPlugin, threadPoolForPlugin, CryptoStoragePlugins
<1> QED BY <1>1, <1>2

\* A signal of request r is appended.
LEMMA SignalAppended ==
    ASSUME KeysInv, NEW e \in Signals, e.request \notin RequestsOf(events),
           events' = Append(events, e)
    PROVE  /\ events' \in Seq(Signals) /\ Distinct(events')
           /\ e.request \in RequestsOf(events')
           /\ RequestsOf(events') = RequestsOf(events) \cup {e.request}
           /\ Elements(events') = Elements(events) \cup {e}
           /\ \A x \in Elements(events) : x.request \in Requests \ {e.request}
<1>1. events \in Seq(Signals) /\ Distinct(events)
  BY DEF KeysInv, Typed
<1>2. \A x \in Elements(events) : x.request \in RequestsOf(events) /\ x \in Signals
  BY <1>1, ElementsOf
<1>3. \A x \in Elements(events) : x.request \in Requests \ {e.request}
  BY <1>2 DEF Signals
<1> QED BY <1>1, <1>3, AppendRequest

\* The signal of a job says what the job was.
LEMMA EventOf ==
    ASSUME NEW j \in Job, NEW result \in Results
    PROVE  LET e == Event(j, result) IN
           /\ e \in Signals
           /\ e.request = j.request /\ e.job = j.job /\ e.name = j.name /\ e.plugin = j.plugin
           /\ e.parts = j.parts /\ e.ui = j.ui /\ e.result = result
BY DEF Event, Signals, Job

\* A job is done: its request is driven by the signal, with the same arguments.
LEMMA DoneKeeps ==
    ASSUME KeysInv, NEW p \in Pools, NEW result \in Results, pool[p] # <<>>,
           Done(p, result), UNCHANGED <<request, waiting>>
    PROVE  /\ pool' \in [Pools -> Seq(Job)] /\ \A o \in Pools : Distinct(pool'[o])
           /\ events' \in Seq(Signals) /\ Distinct(events')
           /\ Driven' /\ Arguments'
           /\ \A o \in Pools : \A j \in Behind(pool'[o]) : Opens(j) => j.stage = "queued"
           /\ pool'[p] # <<>> => (Opens(Head(pool'[p])) => Head(pool'[p]).stage = "queued")
           /\ \A o \in Pools : o # p => pool'[o] = pool[o]
           /\ Elements(events') = Elements(events) \cup {Event(Head(pool[p]), result)}
<1> DEFINE j == Head(pool[p])
           r == j.request
           e == Event(j, result)
<1>1. /\ Typed /\ Driven /\ Arguments /\ OneOpens
  BY DEF KeysInv
<1>2. /\ j \in Job /\ j \in Elements(pool[p]) /\ r \in Requests
      /\ JobFits(p, j, request[r]) /\ Helped(j)
      /\ r \in RequestsOf(pool[p]) /\ r \notin RequestsOf(events)
      /\ \A o \in Pools : o # p => r \notin RequestsOf(pool[o])
      /\ request[r].op # "none" /\ request[r].result = "none"
  BY HeadJob
<1>3. /\ e \in Signals /\ e.request = r /\ e.job = j.job /\ e.name = j.name
      /\ e.plugin = j.plugin /\ e.parts = j.parts /\ e.ui = j.ui
  BY <1>2, EventOf
<1>4. /\ pool' = [pool EXCEPT ![p] = Tail(@)] /\ events' = Append(events, e)
  BY DEF Done
<1>5. pool \in [Pools -> Seq(Job)] /\ \A o \in Pools : pool[o] \in Seq(Job) /\ Distinct(pool[o])
  BY <1>1 DEF Typed
<1>6. /\ pool'[p] = Tail(pool[p]) /\ \A o \in Pools : o # p => pool'[o] = pool[o]
  BY <1>4, <1>5
<1>7. /\ Tail(pool[p]) \in Seq(Job) /\ Distinct(Tail(pool[p]))
      /\ Elements(Tail(pool[p])) = Behind(pool[p])
      /\ Behind(Tail(pool[p])) \subseteq Behind(pool[p])
      /\ RequestsOf(Tail(pool[p])) = RequestsOf(pool[p]) \ {r}
      /\ Tail(pool[p]) # <<>> => Head(Tail(pool[p])) \in Behind(pool[p])
      /\ Elements(pool[p]) = Behind(pool[p]) \cup {j}
  BY <1>5, TailRequest
<1>8. /\ events' \in Seq(Signals) /\ Distinct(events')
      /\ r \in RequestsOf(events')
      /\ RequestsOf(events') = RequestsOf(events) \cup {r}
      /\ Elements(events') = Elements(events) \cup {e}
      /\ \A x \in Elements(events) : x.request \in Requests \ {r}
  BY <1>2, <1>3, <1>4, SignalAppended
<1>9. /\ request' = request /\ m_cryptoApiHelperRequests' = m_cryptoApiHelperRequests
      /\ m_pendingRequests' = m_pendingRequests
  BY DEF waiting
<1>10. OthersKept(r)
  BY <1>1, <1>9 DEF OthersKept, Typed
<1> HIDE DEF j, r, e
<1>11. pool' \in [Pools -> Seq(Job)] /\ \A o \in Pools : Distinct(pool'[o])
  BY <1>4, <1>5, <1>6, <1>7
<1>12. \A o \in Pools : /\ r \notin RequestsOf(pool'[o])
                        /\ \A s \in Requests : s # r =>
                             (s \in RequestsOf(pool'[o]) <=> s \in RequestsOf(pool[o]))
  <2>1. SUFFICES ASSUME NEW o \in Pools
                 PROVE  /\ r \notin RequestsOf(pool'[o])
                        /\ \A s \in Requests : s # r =>
                             (s \in RequestsOf(pool'[o]) <=> s \in RequestsOf(pool[o]))
    OBVIOUS
  <2>2. CASE o = p
    BY <1>6, <1>7, <2>2
  <2>3. CASE o # p
    BY <1>2, <1>6, <2>3
  <2> QED BY <2>2, <2>3
<1>13. "secrets" \in Pools /\ "crypto" \in Pools /\ Pools = {"secrets", "crypto"}
  BY DEF Pools
<1>14. DrivenBy(r, request[r], RequestsOf(pool["secrets"]), RequestsOf(pool["crypto"]),
                RequestsOf(events), m_cryptoApiHelperRequests[r])
  BY <1>1, <1>2 DEF Driven
<1>15. Driven'
  <2>1. DrivenBy(r, request'[r], RequestsOf(pool'["secrets"]), RequestsOf(pool'["crypto"]),
                 RequestsOf(events'), m_cryptoApiHelperRequests'[r])
    <3>1. p = "secrets" \/ p = "crypto"
      BY <1>13
    <3> QED BY <1>2, <1>8, <1>9, <1>12, <1>13, <1>14, <3>1 DEF DrivenBy
  <2> QED BY <1>1, <1>2, <1>8, <1>10, <1>12, <1>13, <2>1, DrivenKept
<1>16. Arguments'
  <2>1. ASSUME NEW o \in Pools, NEW k \in Elements(pool'[o])
        PROVE  k \in Elements(pool[o]) /\ k.request \in Requests \ {r}
    <3>1. k \in Elements(pool[o])
      <4>1. CASE o = p
        BY <1>6, <1>7, <4>1
      <4>2. CASE o # p
        BY <1>6, <4>2
      <4> QED BY <4>1, <4>2
    <3>2. k \in Job
      BY <1>5, <3>1, ElementsOf
    <3>3. k.request \in RequestsOf(pool'[o])
      BY <1>11, ElementsOf
    <3> QED BY <1>12, <3>1, <3>2, <3>3 DEF Job
  <2>2. Fits(e, request'[r]) /\ HelpedBy(e, m_cryptoApiHelperRequests'[r])
    <3>1. Fits(j, request[r])
      BY <1>2 DEF JobFits
    <3>2. Fits(e, request[r])
      BY <1>3, <3>1 DEF Fits
    <3>3. HelpedBy(e, m_cryptoApiHelperRequests[r])
      BY <1>2, <1>3 DEF Helped, HelpedBy, r
    <3> QED BY <1>9, <3>2, <3>3
  <2>3. m_cryptoApiHelperRequests'[r] # Null =>
          WaitingFits(m_cryptoApiHelperRequests'[r], request'[r], m_pendingRequests'[r])
    BY <1>1, <1>2, <1>9 DEF Arguments, WaitingFits
  <2>4. ListBound(m_pendingRequests'[r])
    BY <1>1, <1>2, <1>9 DEF Arguments, ListBound
  <2> QED BY <1>1, <1>2, <1>3, <1>8, <1>10, <2>1, <2>2, <2>3, <2>4, ArgumentsKept
<1>17. \A o \in Pools : \A k \in Behind(pool[o]) : Opens(k) => k.stage = "queued"
  BY <1>1 DEF OneOpens
<1>18. \A o \in Pools : \A k \in Behind(pool'[o]) : Opens(k) => k.stage = "queued"
  <2>1. SUFFICES ASSUME NEW o \in Pools, NEW k \in Behind(pool'[o])
                 PROVE  Opens(k) => k.stage = "queued"
    OBVIOUS
  <2>2. k \in Behind(pool[o])
    BY <1>6, <1>7
  <2> QED BY <1>17, <2>2
<1>19. pool'[p] # <<>> => (Opens(Head(pool'[p])) => Head(pool'[p]).stage = "queued")
  BY <1>6, <1>7, <1>17
<1> QED BY <1>6, <1>8, <1>11, <1>15, <1>16, <1>18, <1>19 DEF e, j

\* A signal is that of a request.
LEMMA SignalRequests ==
    ASSUME Typed
    PROVE  \A e \in Elements(events) : e \in Signals /\ e.request \in Requests
<1>1. Elements(events) \subseteq Signals
  BY ElementsOf DEF Typed
<1> QED BY <1>1 DEF Signals

\* Nothing opens the collection from the thread of the crypto plugins.
LEMMA CryptoNotOpen ==
    ASSUME KeysInv
    PROVE  ~OpenedBy("crypto")
<1>1. SUFFICES ASSUME OpenedBy("crypto") PROVE FALSE
  OBVIOUS
<1>2. pool["crypto"] # <<>> /\ Opens(Head(pool["crypto"])) /\ "crypto" \in Pools
  BY <1>1 DEF OpenedBy, Opens, Pools
<1>3. /\ Head(pool["crypto"]) \in Job
      /\ JobFits("crypto", Head(pool["crypto"]), request[Head(pool["crypto"]).request])
  BY <1>2, HeadJob
<1> QED BY <1>2, <1>3, OpensInSecrets

\* A request whose key was stored still finds it if the keys are as they were,
\* or another request deletes the key of that name.
LEMMA StillKept ==
    ASSUME UNCHANGED request, NEW s \in Requests, IsKept(s),
           keys[request[s].name] = s =>
             \/ keys'[request[s].name] = s
             \/ \E t \in Requests \ {s} :
                  request[t].name = request[s].name /\ request[t].op = "deleteStoredKey"
    PROVE  IsKept(s)'
BY DEF IsKept

\* Opening the collection keeps the invariant.
LEMMA UnlockInv ==
    ASSUME KeysInv, NEW p \in Pools, UnlockCollection(p)
    PROVE  KeysInv'
<1> DEFINE j == Head(pool[p])
           r == j.request
<1>1. Typed /\ Driven /\ Arguments /\ OneOpens /\ Kept /\ Owned /\ Shown
  BY DEF KeysInv
<1>2. /\ pool[p] # <<>> /\ j.stage = "queued" /\ OnCollection(j)
      /\ UNCHANGED <<keys, keep, leftOpen, request, waiting>>
  BY DEF UnlockCollection
<1>3. /\ j \in Job /\ j \in Elements(pool[p]) /\ r \in Requests
      /\ JobFits(p, j, request[r]) /\ Helped(j)
      /\ request[r].op # "none" /\ request[r].result = "none"
  BY <1>2, HeadJob
<1>4. Opens(j)
  BY <1>2, <1>3 DEF JobFits
<1>5. p = "secrets" /\ "crypto" \in Pools
  BY <1>3, <1>4, OpensInSecrets DEF Pools
<1>6. ~OpenedBy("crypto") /\ ~OpenedBy(p) /\ \A o \in Pools : ~OpenedBy(o)
  BY <1>2, <1>5, CryptoNotOpen DEF OpenedBy, Pools
<1>7. keep \/ locked \/ leftOpen
  BY <1>1, <1>6 DEF OneOpens, OpenOnlyInUse
<1>8. /\ request' = request /\ keys' = keys /\ keep' = keep /\ leftOpen' = leftOpen
      /\ m_cryptoApiHelperRequests' = m_cryptoApiHelperRequests
      /\ m_pendingRequests' = m_pendingRequests
  BY <1>2 DEF waiting
<1>9. \A s \in Requests : IsKept(s) => IsKept(s)'
  BY <1>8, StillKept
<1>10. Owned' /\ Shown'
  BY <1>1, <1>8 DEF Owned, Shown
<1>11. \A s \in Requests :
         request'[s].op \in StoreOps /\ request'[s].result = "Succeeded" => IsKept(s)'
  BY <1>1, <1>8, <1>9 DEF Kept
<1>12. CASE locked /\ Done(p, "Failed") /\ UNCHANGED locked
  <2>1. /\ pool' \in [Pools -> Seq(Job)] /\ \A o \in Pools : Distinct(pool'[o])
        /\ events' \in Seq(Signals) /\ Distinct(events')
        /\ Driven' /\ Arguments'
        /\ \A o \in Pools : \A k \in Behind(pool'[o]) : Opens(k) => k.stage = "queued"
        /\ pool'[p] # <<>> => (Opens(Head(pool'[p])) => Head(pool'[p]).stage = "queued")
        /\ \A o \in Pools : o # p => pool'[o] = pool[o]
        /\ Elements(events') = Elements(events) \cup {Event(j, "Failed")}
    <3>1. "Failed" \in Results
      BY DEF Results
    <3> QED BY <1>2, <1>12, <3>1, DoneKeeps
  <2>2. Typed'
    BY <1>1, <1>8, <1>12, <2>1 DEF Typed
  <2>3. ~OpenedBy(p)' /\ ~OpenedBy("crypto")'
    BY <1>5, <1>6, <2>1 DEF OpenedBy, Opens
  <2>4. OneOpens'
    <3>1. \A o \in Pools : ~OpenedBy(o)'
      BY <1>5, <2>3 DEF Pools
    <3> QED BY <1>12, <2>1, <3>1 DEF OneOpens, OpenOnlyInUse
  <2>5. Kept'
    <3>1. \A e \in Elements(events') : e \in Elements(events) \/ e.result = "Failed"
      BY <2>1 DEF Event
    <3>2. \A e \in Elements(events) : e.request \in Requests
      BY <1>1, SignalRequests
    <3>3. \A e \in Elements(events') :
            e.job \in StoreJobs \cup {"setKey"} /\ e.result = "Succeeded" => IsKept(e.request)'
      BY <1>1, <1>9, <3>1, <3>2 DEF Kept
    <3> QED BY <1>11, <3>3 DEF Kept
  <2> QED BY <1>10, <2>1, <2>2, <2>4, <2>5 DEF KeysInv
<1>13. CASE /\ locked' = FALSE /\ UNCHANGED events
            /\ pool' = [pool EXCEPT ![p] = <<[j EXCEPT !.stage = "open", !.wasLocked = locked]>> \o Tail(@)]
  <2> DEFINE k == [j EXCEPT !.stage = "open", !.wasLocked = locked]
  <2>1. /\ k \in Job /\ k.request = r /\ k.job = j.job /\ k.name = j.name /\ k.plugin = j.plugin
        /\ k.parts = j.parts /\ k.ui = j.ui /\ k.stage = "open" /\ k.wasLocked = locked
    BY <1>1, <1>3 DEF Job, Typed
  <2>2. pool \in [Pools -> Seq(Job)] /\ \A o \in Pools : pool[o] \in Seq(Job) /\ Distinct(pool[o])
    BY <1>1 DEF Typed
  <2> HIDE DEF k
  <2>3. pool'[p] = <<k>> \o Tail(pool[p]) /\ \A o \in Pools : o # p => pool'[o] = pool[o]
    BY <1>13, <2>2 DEF k
  <2>4. /\ pool'[p] \in Seq(Job) /\ pool'[p] # <<>> /\ Distinct(pool'[p]) /\ Head(pool'[p]) = k
        /\ Elements(pool'[p]) = Behind(pool[p]) \cup {k} /\ Behind(pool'[p]) = Behind(pool[p])
        /\ RequestsOf(pool'[p]) = RequestsOf(pool[p])
    BY <1>2, <2>1, <2>2, <2>3, HeadReplaced
  <2>5. /\ Elements(pool[p]) = Behind(pool[p]) \cup {j}
        /\ Behind(pool[p]) = Elements(Tail(pool[p])) /\ Tail(pool[p]) \in Seq(Job)
        /\ RequestsOf(Tail(pool[p])) = RequestsOf(pool[p]) \ {r}
    BY <1>2, <2>2, TailRequest
  <2>6. pool' \in [Pools -> Seq(Job)] /\ \A o \in Pools : Distinct(pool'[o])
    BY <1>13, <2>2, <2>3, <2>4 DEF k
  <2>7. Typed'
    BY <1>1, <1>8, <1>13, <2>6 DEF Typed
  <2>8. Driven'
    <3>1. RequestsOf(pool'["secrets"]) = RequestsOf(pool["secrets"])
          /\ RequestsOf(pool'["crypto"]) = RequestsOf(pool["crypto"])
      BY <1>5, <2>3, <2>4
    <3> QED BY <1>1, <1>8, <1>13, <3>1 DEF Driven
  <2>9. JobFits(p, k, request[r]) /\ Helped(k) /\ Opens(k)
    <3>1. Fits(j, request[r])
      BY <1>3 DEF JobFits
    <3>2. Fits(k, request[r])
      BY <2>1, <3>1 DEF Fits
    <3>3. Opens(k)
      BY <1>4, <2>1 DEF Opens, OnCollection
    <3>4. Helped(k)
      BY <1>3, <2>1 DEF Helped, HelpedBy
    <3> QED BY <1>3, <2>1, <3>2, <3>3, <3>4 DEF JobFits
  <2>10. Arguments'
    <3>1. ASSUME NEW o \in Pools, NEW x \in Elements(pool'[o])
          PROVE  JobFits(o, x, request[x.request]) /\ Helped(x)
      <4>1. CASE o = p
        BY <1>1, <2>1, <2>4, <2>5, <2>9, <4>1 DEF Arguments
      <4>2. CASE o # p
        BY <1>1, <2>3, <4>2 DEF Arguments
      <4> QED BY <4>1, <4>2
    <3>2. \A x : Helped(x)' = HelpedBy(x, m_cryptoApiHelperRequests[x.request])
      BY <1>8 DEF Helped
    <3>3. \A o \in Pools : \A x \in Elements(pool'[o]) :
            JobFits(o, x, request'[x.request]) /\ Helped(x)'
      BY <1>8, <3>1, <3>2 DEF Helped
    <3>4. \A e \in Elements(events') : Fits(e, request'[e.request]) /\ Helped(e)'
      BY <1>1, <1>8, <1>13, <3>2 DEF Arguments, Helped
    <3>5. \A s \in Requests :
            /\ m_cryptoApiHelperRequests'[s] # Null =>
                 /\ m_pendingRequests'[s].type = request'[s].op
                 /\ HelperFits(m_cryptoApiHelperRequests'[s], request'[s],
                               m_pendingRequests'[s].parameters)
            /\ m_pendingRequests'[s] # Null =>
                 m_pendingRequests'[s].type \in Ops /\ Len(m_pendingRequests'[s].parameters) <= 9
      BY <1>1, <1>8 DEF Arguments
    <3> QED BY <3>3, <3>4, <3>5 DEF Arguments
  <2>11. OneOpens'
    <3>1. \A o \in Pools : \A x \in Behind(pool'[o]) : Opens(x) => x.stage = "queued"
      BY <1>1, <2>3, <2>4 DEF OneOpens
    <3>2. OpenedBy(p)' /\ Head(pool'[p]).wasLocked = locked
      BY <2>1, <2>4, <2>9 DEF OpenedBy, Opens
    <3>3. \/ keep' \/ locked' \/ leftOpen'
          \/ \E o \in Pools : OpenedBy(o)' /\ Head(pool'[o]).wasLocked
      BY <1>7, <1>8, <3>2
    <3> QED BY <1>13, <3>1, <3>3 DEF OneOpens, OpenOnlyInUse
  <2>12. Kept'
    <3>1. \A e \in Elements(events) : e.request \in Requests
      BY <1>1, SignalRequests
    <3> QED BY <1>1, <1>9, <1>11, <1>13, <3>1 DEF Kept
  <2> QED BY <1>10, <2>7, <2>8, <2>10, <2>11, <2>12 DEF KeysInv
<1> QED BY <1>12, <1>13 DEF UnlockCollection

\* What the effect of a job on the keys may be
LEMMA EffectOf ==
    ASSUME NEW j \in Job, NEW result \in Results, Effect(j, result),
           keys \in [Names -> Requests \cup {Old, Null}]
    PROVE  /\ keys' \in [Names -> Requests \cup {Old, Null}]
           /\ \A n \in Names : n # j.name => keys'[n] = keys[n]
           /\ result # "Succeeded" => keys' = keys
           /\ j.job \in StoreJobs \cup {"setKey"} /\ result = "Succeeded" =>
                keys[j.name] = Null /\ keys' = [keys EXCEPT ![j.name] = j.request]
           /\ j.job = "deleteKey" /\ result = "Succeeded" => keys' = [keys EXCEPT ![j.name] = Null]
           /\ j.job \notin StoreJobs \cup {"setKey", "deleteKey"} => keys' = keys
<1>1. j.request \in Requests
  BY DEF Job
<1>2. CASE generateAndStoreKey(j, result) \/ importAndStoreKey(j, result)
  BY <1>1, <1>2 DEF generateAndStoreKey, importAndStoreKey, SetSecret, prepareToStoreKey, StoreJobs
<1>3. CASE StoresSecret(j, result)
  BY <1>1, <1>3 DEF StoresSecret, SetSecret, StoreJobs
<1>4. CASE RemovesSecret(j, result)
  BY <1>1, <1>4 DEF RemovesSecret, StoreJobs
<1>5. CASE Signs(j, result) \/ Verifies(j, result) \/ Encrypts(j, result) \/ Decrypts(j, result)
  BY <1>5 DEF Signs, Verifies, Encrypts, Decrypts, UsesKey, StoreJobs
<1>6. CASE ReadsKey(j, result) \/ PreChecks(j, result)
  BY <1>6 DEF ReadsKey, PreChecks, StoreJobs
<1>7. CASE NoStoredKey(j, result)
  BY <1>7 DEF NoStoredKey, StoreJobs, JobOps
<1> QED BY <1>2, <1>3, <1>4, <1>5, <1>6, <1>7 DEF Effect

\* The request of a job that writes a key is one that may have it or that
\* deletes it.
LEMMA WriterOf ==
    ASSUME KeysInv, NEW p \in Pools, NEW j \in Elements(pool[p]), j.request \in Requests
    PROVE  /\ j.job \in StoreJobs \cup {"setKey"} =>
                /\ request[j.request].name = j.name /\ j.name \in Names
                /\ OwnerFits(request[j.request])
           /\ j.job = "deleteKey" =>
                /\ request[j.request].name = j.name
                /\ request[j.request].op = "deleteStoredKey"
<1>1. JobFits(p, j, request[j.request]) /\ Helped(j)
  BY DEF KeysInv, Arguments
<1>2. j.job \in StoreJobs =>
        /\ request[j.request].name = j.name /\ j.name \in Names
        /\ OwnerFits(request[j.request])
  BY <1>1 DEF JobFits, Fits, StoreJobs, InPlugin, HasKey, OwnerFits, Elsewhere, StoreOps
<1> DEFINE h == m_cryptoApiHelperRequests[j.request]
           q == request[j.request]
           w == m_pendingRequests[j.request].parameters
<1>3. j.job \in {"setKey", "deleteKey"} =>
        h # Null /\ h.type = j.job /\ h.name = j.name /\ j.name \in Names
  BY <1>1 DEF Helped, HelpedBy, Helpers, JobFits
<1>4. h # Null => HelperFits(h, q, w)
  BY DEF KeysInv, Arguments
<1> HIDE DEF h, q, w
<1>6. j.job = "setKey" => KeyStored(h, q, w)
  BY <1>3, <1>4 DEF HelperFits, PreChecked, Prompted, KeyRead, KeyChecked, NothingNeeded
<1>7. j.job = "deleteKey" => NothingNeeded(h, q, w)
  BY <1>3, <1>4 DEF HelperFits, PreChecked, Prompted, KeyRead, KeyChecked, KeyStored
<1>8. j.job = "setKey" => q.name = j.name /\ OwnerFits(q)
  BY <1>3, <1>6, NamesAssumption DEF KeyStored, OwnerFits, StoreOps
<1>9. j.job = "deleteKey" => q.name = j.name /\ q.op = "deleteStoredKey"
  BY <1>3, <1>7 DEF NothingNeeded
<1> QED BY <1>2, <1>3, <1>8, <1>9 DEF q

\* A job keeps the invariant.
LEMMA RunJobInv ==
    ASSUME KeysInv, NEW p \in Pools, NEW result \in Results, RunJob(p, result)
    PROVE  KeysInv'
<1> DEFINE j == Head(pool[p])
           r == j.request
<1>1. Typed /\ Driven /\ Arguments /\ OneOpens /\ Kept /\ Owned /\ Shown
  BY DEF KeysInv
<1>2. /\ pool[p] # <<>> /\ (OnCollection(j) => j.stage = "open")
      /\ Effect(j, result) /\ Done(p, result)
      /\ \/ locked' = (IF Relocks(j) THEN TRUE ELSE locked) /\ leftOpen' = leftOpen
         \/ Relocks(j) /\ locked' = locked /\ leftOpen' = TRUE
      /\ keep' = keep /\ request' = request /\ UNCHANGED waiting
  BY DEF RunJob
<1>3. /\ j \in Job /\ j \in Elements(pool[p]) /\ r \in Requests
      /\ JobFits(p, j, request[r]) /\ Helped(j)
      /\ r \in RequestsOf(pool[p]) /\ r \notin RequestsOf(events)
      /\ request[r].op # "none" /\ request[r].result = "none"
  BY <1>2, HeadJob
<1>4. /\ pool' \in [Pools -> Seq(Job)] /\ \A o \in Pools : Distinct(pool'[o])
      /\ events' \in Seq(Signals) /\ Distinct(events')
      /\ Driven' /\ Arguments'
      /\ \A o \in Pools : \A k \in Behind(pool'[o]) : Opens(k) => k.stage = "queued"
      /\ pool'[p] # <<>> => (Opens(Head(pool'[p])) => Head(pool'[p]).stage = "queued")
      /\ \A o \in Pools : o # p => pool'[o] = pool[o]
      /\ Elements(events') = Elements(events) \cup {Event(j, result)}
  BY <1>2, DoneKeeps
<1>5. keys \in [Names -> Requests \cup {Old, Null}]
  BY <1>1 DEF Typed
<1>6. /\ keys' \in [Names -> Requests \cup {Old, Null}]
      /\ \A n \in Names : n # j.name => keys'[n] = keys[n]
      /\ result # "Succeeded" => keys' = keys
      /\ j.job \in StoreJobs \cup {"setKey"} /\ result = "Succeeded" =>
           keys[j.name] = Null /\ keys' = [keys EXCEPT ![j.name] = r]
      /\ j.job = "deleteKey" /\ result = "Succeeded" => keys' = [keys EXCEPT ![j.name] = Null]
      /\ j.job \notin StoreJobs \cup {"setKey", "deleteKey"} => keys' = keys
  BY <1>2, <1>3, <1>5, EffectOf
<1>7. Typed'
  <2>1. locked' \in BOOLEAN /\ leftOpen' \in BOOLEAN
    BY <1>1, <1>2 DEF Typed
  <2> QED BY <1>1, <1>2, <1>4, <1>6, <2>1 DEF Typed, waiting
<1>8. OneOpens'
  <2>1. ~OpenedBy(p)'
    BY <1>4 DEF OpenedBy, Opens
  <2>2. CASE p = "secrets"
    <3>1. ~OpenedBy("crypto")' /\ ~OpenedBy("crypto")
      BY <1>4, <2>2, CryptoNotOpen DEF OpenedBy, Pools
    <3>2. \A o \in Pools : ~OpenedBy(o)'
      BY <2>1, <2>2, <3>1 DEF Pools
    <3>3. keep' \/ locked' \/ leftOpen'
      <4>1. keep \/ locked \/ leftOpen \/ j.wasLocked
        BY <1>1, <2>2, <3>1 DEF OneOpens, OpenOnlyInUse, Pools
      <4>2. CASE Relocks(j)
        BY <1>1, <1>2, <4>2 DEF Typed
      <4>3. CASE ~Relocks(j)
        <5>1. locked' = locked /\ leftOpen' = leftOpen /\ keep' = keep
          BY <1>2, <4>3
        <5>2. keep \/ ~j.wasLocked
          BY <4>3 DEF Relocks
        <5> QED BY <4>1, <5>1, <5>2
      <4> QED BY <4>2, <4>3
    <3> QED BY <1>4, <3>2, <3>3 DEF OneOpens, OpenOnlyInUse
  <2>3. CASE p = "crypto"
    <3>1. ~Opens(j)
      BY <1>3, <2>3, OpensInSecrets
    <3>2. locked' = locked /\ leftOpen' = leftOpen
      BY <1>2, <1>3, <3>1 DEF JobFits, Relocks
    <3>3. ~OpenedBy("crypto")' /\ ~OpenedBy("crypto") /\ pool'["secrets"] = pool["secrets"]
      BY <1>4, <2>1, <2>3, CryptoNotOpen DEF Pools
    <3>4. OpenedBy("secrets")' <=> OpenedBy("secrets")
      BY <3>3 DEF OpenedBy
    <3>5. \A o \in Pools : o = "secrets" \/ o = "crypto"
      BY DEF Pools
    <3>6. \A o \in Pools : OpenedBy(o)' => ~locked'
      BY <1>1, <3>2, <3>3, <3>4, <3>5 DEF OneOpens, OpenOnlyInUse
    <3>7. \/ keep' \/ locked' \/ leftOpen'
          \/ \E o \in Pools : OpenedBy(o)' /\ Head(pool'[o]).wasLocked
      <4>1. keep \/ locked \/ leftOpen \/ (OpenedBy("secrets") /\ Head(pool["secrets"]).wasLocked)
        BY <1>1, <3>3, <3>5 DEF OneOpens, OpenOnlyInUse
      <4>2. "secrets" \in Pools
        BY DEF Pools
      <4> QED BY <1>2, <3>2, <3>3, <3>4, <4>1, <4>2
    <3> QED BY <1>4, <3>6, <3>7 DEF OneOpens, OpenOnlyInUse
  <2> QED BY <2>2, <2>3 DEF Pools
<1>9. /\ j.job \in StoreJobs \cup {"setKey"} =>
           request[r].name = j.name /\ j.name \in Names /\ OwnerFits(request[r])
      /\ j.job = "deleteKey" => request[r].name = j.name /\ request[r].op = "deleteStoredKey"
  BY <1>3, WriterOf
<1>10. ASSUME NEW s \in Requests, s # r, IsKept(s)
       PROVE  IsKept(s)'
  <2> HIDE DEF j, r
  <2>1. ASSUME keys[request[s].name] = s, keys'[request[s].name] # s
        PROVE  \E t \in Requests \ {s} :
                 request[t].name = request[s].name /\ request[t].op = "deleteStoredKey"
    <3>1. request[s].name \in Names
      BY <1>10 DEF IsKept
    <3>2. j.name = request[s].name /\ keys' # keys
      BY <1>6, <2>1, <3>1
    <3>3. j.job = "deleteKey"
      BY <1>6, <2>1, <3>2, RequestsAssumption
    <3> QED BY <1>3, <1>9, <1>10, <3>2, <3>3
  <2> QED BY <1>2, <1>10, <2>1, StillKept
<1>11. \A s \in Requests :
         request'[s].op \in StoreOps /\ request'[s].result = "Succeeded" => IsKept(s)'
  <2>1. SUFFICES ASSUME NEW s \in Requests, request[s].op \in StoreOps, request[s].result = "Succeeded"
                 PROVE  IsKept(s)'
    BY <1>2
  <2>2. IsKept(s)
    BY <1>1, <2>1 DEF Kept
  <2>3. s # r
    BY <1>3, <2>1
  <2> QED BY <1>10, <2>2, <2>3
<1>12. Kept'
  <2>1. ASSUME NEW e \in Elements(events), e.job \in StoreJobs \cup {"setKey"}, e.result = "Succeeded"
        PROVE  IsKept(e.request)'
    <3>1. e.request \in Requests /\ e.request \in RequestsOf(events)
      BY <1>1, SignalRequests, ElementsOf DEF Typed
    <3>2. IsKept(e.request) /\ e.request # r
      BY <1>1, <1>3, <2>1, <3>1 DEF Kept
    <3> QED BY <1>10, <3>1, <3>2
  <2>2. ASSUME NEW s, s = r, j.job \in StoreJobs \cup {"setKey"}, result = "Succeeded"
        PROVE  IsKept(s)'
    <3> HIDE DEF j, r
    <3>1. request'[s].name = j.name /\ j.name \in Names /\ keys' = [keys EXCEPT ![j.name] = s]
      BY <1>2, <1>6, <1>9, <2>2
    <3>2. keys'[request'[s].name] = s
      BY <1>5, <3>1
    <3> QED BY <3>1, <3>2 DEF IsKept
  <2>3. /\ Event(j, result).job = j.job /\ Event(j, result).result = result
        /\ Event(j, result).request = r
    BY <1>3, EventOf
  <2>4. ASSUME NEW e \in Elements(events'), e.job \in StoreJobs \cup {"setKey"}, e.result = "Succeeded"
        PROVE  IsKept(e.request)'
    <3>1. CASE e \in Elements(events)
      BY <2>1, <2>4, <3>1
    <3>2. CASE e = Event(j, result)
      BY <2>2, <2>3, <2>4, <3>2
    <3> QED BY <1>4, <3>1, <3>2
  <2> QED BY <1>11, <2>4 DEF Kept
<1>13. Owned'
  <2> HIDE DEF j, r
  <2>1. SUFFICES ASSUME NEW n \in Names, NEW s \in Requests, keys'[n] = s
                 PROVE  OwnerFits(request[s])
    BY <1>2 DEF Owned
  <2>2. CASE keys[n] = s
    BY <1>1, <2>2 DEF Owned
  <2>3. CASE keys[n] # s
    <3>1. n = j.name /\ result = "Succeeded" /\ j.job \in StoreJobs \cup {"setKey", "deleteKey"}
      BY <1>6, <2>1, <2>3
    <3>2. j.job # "deleteKey"
      BY <1>5, <1>6, <2>1, <3>1, RequestsAssumption
    <3>3. s = r
      BY <1>5, <1>6, <2>1, <3>1, <3>2
    <3> QED BY <1>9, <3>1, <3>2, <3>3
  <2> QED BY <2>2, <2>3
<1>14. Shown'
  BY <1>1, <1>2 DEF Shown
<1> QED BY <1>4, <1>7, <1>8, <1>12, <1>13, <1>14 DEF KeysInv

\* What waits for a helper does not depend on whether it runs.
LEMMA FitsRunning ==
    ASSUME NEW h, NEW k, NEW q, NEW w, HelperFits(h, q, w), k.type = h.type, k.name = h.name
    PROVE  HelperFits(k, q, w)
<1>1. PreChecked(h, q, w) => PreChecked(k, q, w)
  BY DEF PreChecked
<1>2. Prompted(h, q, w) => Prompted(k, q, w)
  BY Zenon DEF Prompted
<1>3. KeyRead(h, q, w) => KeyRead(k, q, w)
  BY DEF KeyRead
<1>4. KeyChecked(h, q, w) => KeyChecked(k, q, w)
  BY DEF KeyChecked
<1>5. KeyStored(h, q, w) => KeyStored(k, q, w)
  BY DEF KeyStored
<1>6. NothingNeeded(h, q, w) => NothingNeeded(k, q, w)
  BY DEF NothingNeeded
<1> QED BY <1>1, <1>2, <1>3, <1>4, <1>5, <1>6 DEF HelperFits

\* A helper whose request is taken from the secrets queue: its entry is marked,
\* and nothing else drives the crypto request.
LEMMA QueuedAlone ==
    ASSUME KeysInv, NEW r \in Requests, Queued(r),
           m_cryptoApiHelperRequests' = [m_cryptoApiHelperRequests EXCEPT ![r].running = TRUE],
           UNCHANGED <<request, m_pendingRequests>>
    PROVE  LET h == m_cryptoApiHelperRequests[r]
               k == m_cryptoApiHelperRequests'[r] IN
           /\ h \in HelperStates /\ k \in HelperStates /\ k # Null
           /\ k.type = h.type /\ k.name = h.name /\ k.running = TRUE
           /\ OthersKept(r)
           /\ WaitingFits(k, request'[r], m_pendingRequests'[r])
           /\ ListBound(m_pendingRequests'[r])
           /\ \A p \in Pools : r \notin RequestsOf(pool[p])
           /\ r \notin RequestsOf(events)
           /\ request[r].op # "none" /\ request[r].result = "none"
<1> DEFINE h == m_cryptoApiHelperRequests[r]
           k == m_cryptoApiHelperRequests'[r]
<1>1. Typed /\ Driven /\ Arguments
  BY DEF KeysInv
<1>2. m_cryptoApiHelperRequests \in [Requests -> HelperStates \cup {Null}]
  BY <1>1 DEF Typed
<1>3. h \in HelperStates /\ h # Null /\ ~h.running
  BY <1>2 DEF Queued
<1>4. k = [h EXCEPT !.running = TRUE]
  BY <1>2
<1>5. k \in HelperStates /\ k.type = h.type /\ k.name = h.name /\ k.running = TRUE
  BY <1>3, <1>4 DEF HelperStates
<1>6. k # Null
  BY <1>5, NullAssumption DEF HelperStates
<1>7. m_cryptoApiHelperRequests' \in [Requests -> HelperStates \cup {Null}]
      /\ \A s \in Requests : s # r => m_cryptoApiHelperRequests'[s] = m_cryptoApiHelperRequests[s]
  BY <1>2, <1>5
<1>8. OthersKept(r)
  BY <1>1, <1>7 DEF OthersKept, Typed
<1>9. HelperFits(h, request[r], m_pendingRequests[r].parameters)
      /\ m_pendingRequests[r].type = request[r].op
  BY <1>1, <1>3 DEF Arguments
<1> HIDE DEF h, k
<1>10. HelperFits(k, request[r], m_pendingRequests[r].parameters)
  BY <1>5, <1>9, FitsRunning
<1>11. WaitingFits(k, request'[r], m_pendingRequests'[r])
  BY <1>9, <1>10 DEF WaitingFits
<1>12. ListBound(m_pendingRequests'[r])
  BY <1>1 DEF Arguments, ListBound
<1>13. DrivenBy(r, request[r], RequestsOf(pool["secrets"]), RequestsOf(pool["crypto"]),
                RequestsOf(events), h)
  BY <1>1 DEF Driven, h
<1>14. /\ r \notin RequestsOf(pool["secrets"]) /\ r \notin RequestsOf(pool["crypto"])
       /\ r \notin RequestsOf(events)
       /\ request[r].op # "none" /\ request[r].result = "none"
  BY <1>3, <1>13 DEF DrivenBy
<1>15. \A p \in Pools : r \notin RequestsOf(pool[p])
  BY <1>14 DEF Pools
<1> QED BY <1>3, <1>5, <1>6, <1>8, <1>11, <1>12, <1>14, <1>15 DEF h, k

\* The signal of a helper that ends without a job
LEMMA HelperSignal ==
    ASSUME NEW r \in Requests, NEW h \in HelperStates, NEW result \in Results,
           NEW e, e = Event(NewJob(r, h.type, h.name, Null, "empty"), result)
    PROVE  /\ e \in Signals /\ e.request = r /\ e.job = h.type /\ e.name = h.name
           /\ e.result = result
           /\ \A q : Fits(e, q)
<1>1. h.type \in Helpers /\ h.name \in Names \cup {Null}
  BY DEF HelperStates
<1>2. /\ e \in Signals /\ e.request = r /\ e.job = h.type /\ e.name = h.name
      /\ e.result = result /\ e.ui = FALSE
  BY <1>1 DEF NewJob, Event, Signals, Jobs, Parts, CollectionKeys
<1>3. \A q : Fits(e, q)
  BY <1>1, <1>2 DEF Fits, Helpers, Dialogs, JobOps, UseOps
<1> QED BY <1>2, <1>3

\* A helper that ends without a job keeps the invariant.
LEMMA HelperEndsInv ==
    ASSUME KeysInv, NEW r \in Requests, NEW result \in Results \ {"IncorrectPassphrase"},
           HelperEnds(r, result)
    PROVE  KeysInv'
<1> DEFINE h == m_cryptoApiHelperRequests[r]
           k == m_cryptoApiHelperRequests'[r]
<1>1. Typed /\ Driven /\ Arguments /\ OneOpens /\ Kept /\ Owned /\ Shown
  BY DEF KeysInv
<1>2. /\ Queued(r) /\ (result = "Failed" \/ h.type \in Dialogs)
      /\ m_cryptoApiHelperRequests' = [m_cryptoApiHelperRequests EXCEPT ![r].running = TRUE]
      /\ events' = Append(events, Event(NewJob(r, h.type, h.name, Null, "empty"), result))
      /\ keys' = keys /\ keep' = keep /\ locked' = locked /\ leftOpen' = leftOpen
      /\ request' = request /\ m_pendingRequests' = m_pendingRequests /\ pool' = pool
  BY DEF HelperEnds, storage
<1>3. /\ h \in HelperStates /\ k \in HelperStates /\ k # Null
      /\ k.type = h.type /\ k.name = h.name /\ k.running = TRUE
      /\ OthersKept(r)
      /\ WaitingFits(k, request'[r], m_pendingRequests'[r])
      /\ ListBound(m_pendingRequests'[r])
      /\ \A p \in Pools : r \notin RequestsOf(pool[p])
      /\ r \notin RequestsOf(events)
      /\ request[r].op # "none" /\ request[r].result = "none"
  BY <1>2, QueuedAlone
<1>4. PICK e : e = Event(NewJob(r, h.type, h.name, Null, "empty"), result)
  OBVIOUS
<1>5. /\ e \in Signals /\ e.request = r /\ e.job = h.type /\ e.name = h.name /\ e.result = result
      /\ \A q : Fits(e, q)
  <2> HIDE DEF h, k
  <2> QED BY <1>3, <1>4, HelperSignal
<1>6. /\ events' \in Seq(Signals) /\ Distinct(events')
      /\ r \in RequestsOf(events')
      /\ RequestsOf(events') = RequestsOf(events) \cup {r}
      /\ Elements(events') = Elements(events) \cup {e}
      /\ \A x \in Elements(events) : x.request \in Requests \ {r}
  BY <1>2, <1>3, <1>4, <1>5, SignalAppended
<1> HIDE DEF h, k
<1>7. "secrets" \in Pools /\ "crypto" \in Pools
  BY DEF Pools
<1>8. Typed'
  BY <1>1, <1>2, <1>3, <1>6 DEF Typed, OthersKept
<1>9. Driven'
  <2>1. DrivenBy(r, request'[r], RequestsOf(pool'["secrets"]), RequestsOf(pool'["crypto"]),
                 RequestsOf(events'), m_cryptoApiHelperRequests'[r])
    BY <1>2, <1>3, <1>6, <1>7 DEF DrivenBy, k
  <2> QED BY <1>1, <1>2, <1>3, <1>6, <2>1, DrivenKept
<1>10. Arguments'
  <2>1. ASSUME NEW p \in Pools, NEW j \in Elements(pool'[p])
        PROVE  j \in Elements(pool[p]) /\ j.request \in Requests \ {r}
    <3>1. j \in Job /\ j.request \in RequestsOf(pool[p])
      BY <1>1, <1>2, ElementsOf DEF Typed
    <3> QED BY <1>2, <1>3, <3>1 DEF Job
  <2>2. HelpedBy(e, m_cryptoApiHelperRequests'[r])
    BY <1>3, <1>5 DEF HelpedBy, k, HelperStates
  <2> QED BY <1>1, <1>3, <1>5, <1>6, <2>1, <2>2, ArgumentsKept DEF k
<1>11. OneOpens'
  BY <1>1, <1>2 DEF OneOpens, OpenOnlyInUse, OpenedBy
<1>12. \A s \in Requests : IsKept(s) => IsKept(s)'
  BY <1>2, StillKept
<1>13. e.result = "Succeeded" => e.job \notin StoreJobs \cup {"setKey"}
  BY <1>2, <1>5 DEF Dialogs, StoreJobs, h
<1>14. \A s \in Requests : request'[s].op \in StoreOps /\ request'[s].result = "Succeeded" => IsKept(s)'
  BY <1>1, <1>2, <1>12 DEF Kept
<1>15. \A x \in Elements(events') :
         x.job \in StoreJobs \cup {"setKey"} /\ x.result = "Succeeded" => IsKept(x.request)'
  BY <1>1, <1>6, <1>12, <1>13 DEF Kept
<1>16. Owned' /\ Shown'
  BY <1>1, <1>2 DEF Owned, Shown
<1> QED BY <1>8, <1>9, <1>10, <1>11, <1>14, <1>15, <1>16 DEF KeysInv, Kept

\* The last job of a helper keeps the invariant.
LEMMA HelperRunsInv ==
    ASSUME KeysInv, NEW r \in Requests, NEW key \in CollectionKeys, HelperRuns(r, key)
    PROVE  KeysInv'
<1> DEFINE h == m_cryptoApiHelperRequests[r]
           k == m_cryptoApiHelperRequests'[r]
<1>1. Typed /\ Driven /\ Arguments /\ OneOpens /\ Kept /\ Owned /\ Shown
  BY DEF KeysInv
<1>2. /\ Queued(r) /\ h.type \notin Dialogs /\ h.name # Null /\ pool["secrets"] = <<>>
      /\ m_cryptoApiHelperRequests' = [m_cryptoApiHelperRequests EXCEPT ![r].running = TRUE]
      /\ pool' = [pool EXCEPT !["secrets"] = Append(@, NewJob(r, h.type, h.name, Null, key))]
      /\ keys' = keys /\ keep' = keep /\ locked' = locked /\ leftOpen' = leftOpen
      /\ request' = request /\ m_pendingRequests' = m_pendingRequests /\ events' = events
  BY DEF HelperRuns, storage, Run
<1>3. /\ h \in HelperStates /\ k \in HelperStates /\ k # Null
      /\ k.type = h.type /\ k.name = h.name /\ k.running = TRUE
      /\ OthersKept(r)
      /\ WaitingFits(k, request'[r], m_pendingRequests'[r])
      /\ ListBound(m_pendingRequests'[r])
      /\ \A p \in Pools : r \notin RequestsOf(pool[p])
      /\ r \notin RequestsOf(events)
      /\ request[r].op # "none" /\ request[r].result = "none"
  BY <1>2, QueuedAlone
<1>4. PICK j : j = NewJob(r, h.type, h.name, Null, key)
  OBVIOUS
<1>5. /\ j \in Job /\ j.request = r /\ j.job = h.type /\ j.name = h.name
      /\ j.stage = "queued" /\ j.wasLocked = FALSE
      /\ \A q : Fits(j, q)
  <2>1. h.type \notin Dialogs /\ h \in HelperStates
    BY <1>2, <1>3
  <2> HIDE DEF h, k
  <2>2. h.type \in Helpers /\ h.name \in Names \cup {Null}
    BY <2>1 DEF HelperStates
  <2>3. /\ j.request = r /\ j.job = h.type /\ j.name = h.name /\ j.stage = "queued"
        /\ j.wasLocked = FALSE /\ j.ui = FALSE
    BY <1>4 DEF NewJob
  <2>4. j \in Job
    BY <1>4, <2>1, <2>2 DEF NewJob, Job, Jobs, Parts
  <2>5. \A q : Fits(j, q)
    BY <2>2, <2>3 DEF Fits, Helpers, Dialogs, JobOps, UseOps
  <2> QED BY <2>3, <2>4, <2>5
<1>6. "secrets" \in Pools /\ "crypto" \in Pools /\ Pools = {"secrets", "crypto"}
  BY DEF Pools
<1>7. pool \in [Pools -> Seq(Job)] /\ \A p \in Pools : pool[p] \in Seq(Job) /\ Distinct(pool[p])
  BY <1>1 DEF Typed
<1>8. pool'["secrets"] = Append(pool["secrets"], j) /\ pool'["crypto"] = pool["crypto"]
  BY <1>2, <1>4, <1>6, <1>7
<1>9. /\ pool'["secrets"] \in Seq(Job) /\ Distinct(pool'["secrets"])
      /\ Elements(pool'["secrets"]) = Elements(pool["secrets"]) \cup {j}
      /\ RequestsOf(pool'["secrets"]) = RequestsOf(pool["secrets"]) \cup {r}
      /\ Behind(pool'["secrets"]) \subseteq Behind(pool["secrets"]) \cup {j}
      /\ Head(pool'["secrets"]) = j
  <2> HIDE DEF h, k
  <2>1. pool["secrets"] \in Seq(Job) /\ Distinct(pool["secrets"]) /\ r \notin RequestsOf(pool["secrets"])
    BY <1>3, <1>6, <1>7
  <2>2. j \in Job /\ j.request = r
    BY <1>5
  <2>3. /\ Append(pool["secrets"], j) \in Seq(Job) /\ Distinct(Append(pool["secrets"], j))
        /\ Elements(Append(pool["secrets"], j)) = Elements(pool["secrets"]) \cup {j}
        /\ RequestsOf(Append(pool["secrets"], j)) = RequestsOf(pool["secrets"]) \cup {r}
        /\ Behind(Append(pool["secrets"], j)) \subseteq Behind(pool["secrets"]) \cup {j}
        /\ pool["secrets"] = <<>> => Head(Append(pool["secrets"], j)) = j
    BY <2>1, <2>2, AppendRequest
  <2> QED BY <1>2, <1>8, <2>3
<1>10. pool' \in [Pools -> Seq(Job)] /\ \A p \in Pools : Distinct(pool'[p])
  BY <1>2, <1>4, <1>6, <1>7, <1>8, <1>9
<1> HIDE DEF h, k
<1>11. Typed'
  BY <1>1, <1>2, <1>3, <1>10 DEF Typed, OthersKept
<1>12. Driven'
  <2>1. DrivenBy(r, request'[r], RequestsOf(pool'["secrets"]), RequestsOf(pool'["crypto"]),
                 RequestsOf(events'), m_cryptoApiHelperRequests'[r])
    BY <1>2, <1>3, <1>6, <1>8, <1>9 DEF DrivenBy, k
  <2> QED BY <1>1, <1>2, <1>3, <1>8, <1>9, <2>1, DrivenKept
<1>13. h.type \in Helpers /\ h.name \in Names
  BY <1>2, <1>3 DEF HelperStates, h
<1>14. JobFits("secrets", j, request'[r])
  <2>1. OnCollection(j) => Opens(j)
    BY <1>5, <1>13 DEF Opens, OnCollection, Helpers, Dialogs, UseOps
  <2> QED BY <1>5, <1>13, <2>1 DEF JobFits
<1>15. HelpedBy(j, m_cryptoApiHelperRequests'[r])
  BY <1>3, <1>5, <1>13 DEF HelpedBy, k
<1>16. Arguments'
  <2>1. ASSUME NEW p \in Pools, NEW x \in Elements(pool'[p])
        PROVE  \/ x \in Elements(pool[p]) /\ x.request \in Requests \ {r}
               \/ /\ x.request = r /\ JobFits(p, x, request'[r])
                  /\ HelpedBy(x, m_cryptoApiHelperRequests'[r])
    <3>1. CASE x \in Elements(pool[p])
      <4>1. x \in Job /\ x.request \in RequestsOf(pool[p])
        BY <1>7, <3>1, ElementsOf
      <4> QED BY <1>3, <3>1, <4>1 DEF Job
    <3>2. CASE x = j /\ p = "secrets"
      BY <1>5, <1>14, <1>15, <3>2
    <3> QED BY <1>6, <1>8, <1>9, <3>1, <3>2
  <2>2. \A e \in Elements(events') : e \in Elements(events) /\ e.request \in Requests \ {r}
    <3>1. \A e \in Elements(events) : e.request \in RequestsOf(events)
      BY <1>1, ElementsOf DEF Typed
    <3> QED BY <1>1, <1>2, <1>3, <3>1, SignalRequests
  <2> QED BY <1>1, <1>3, <2>1, <2>2, ArgumentsKept DEF k
<1>17. OneOpens'
  <2>1. \A p \in Pools : \A x \in Behind(pool'[p]) : Opens(x) => x.stage = "queued"
    BY <1>1, <1>5, <1>6, <1>8, <1>9 DEF OneOpens
  <2>2. ~OpenedBy("secrets") /\ ~OpenedBy("secrets")' /\ ~OpenedBy("crypto") /\ ~OpenedBy("crypto")'
    BY <1>2, <1>5, <1>8, <1>9, CryptoNotOpen DEF OpenedBy
  <2>3. keep \/ locked \/ leftOpen
    BY <1>1, <1>6, <2>2 DEF OneOpens, OpenOnlyInUse
  <2>4. \A p \in Pools : ~OpenedBy(p)'
    BY <1>6, <2>2
  <2> QED BY <1>2, <2>1, <2>3, <2>4 DEF OneOpens, OpenOnlyInUse
<1>18. \A s \in Requests : IsKept(s) => IsKept(s)'
  BY <1>2, StillKept
<1>19. Kept'
  BY <1>1, <1>2, <1>18, SignalRequests DEF Kept
<1>20. Owned' /\ Shown'
  BY <1>1, <1>2 DEF Owned, Shown
<1> QED BY <1>11, <1>12, <1>16, <1>17, <1>19, <1>20 DEF KeysInv

-----------------------------------------------------------------------------
(* The main thread: a request arrives *)

\* Where the parameters of an operation with a key are found
UsePlugin(op) ==
    CASE op = "sign" -> 5 [] op = "verify" -> 6 [] op = "encrypt" -> 7 [] op = "decrypt" -> 8
UseGiven(op) == IF op = "sign" THEN 2 ELSE 3

\* The lists of parameters have the length the continuation expects, and the
\* plugin and the key's data are at the positions it takes them from.
LEMMA UseLists ==
    ASSUME NEW op \in UseOps, NEW n, NEW parts, NEW p
    PROVE  /\ LET w == UseList(op, p) IN
              Len(w) = UsePlugin(op) /\ w[UsePlugin(op)] = p
           /\ LET w == CheckList(op, n, parts, p) IN
              /\ Len(w) = UsePlugin(op) + 1 /\ w[UsePlugin(op) + 1] = p
              /\ w[UseGiven(op)][1] = n /\ w[UseGiven(op)][2] = parts
<1>1. CASE op = "sign"
  <2>1. UseBefore(op) = <<"data">> /\ UseAfter(op, p) = <<"padding", "digest", "custom", p>>
    BY <1>1 DEF UseBefore, UseAfter
  <2>2. UsePlugin(op) = 5 /\ UseGiven(op) = 2
    BY <1>1 DEF UsePlugin, UseGiven
  <2>3. LET w == <<"data">> \o <<"padding", "digest", "custom", p>> IN
        Len(w) = 5 /\ w[5] = p
    OBVIOUS
  <2>4. LET w == <<"data">> \o << <<n, parts>> >> \o <<"padding", "digest", "custom", p>> IN
        Len(w) = 6 /\ w[6] = p /\ w[2][1] = n /\ w[2][2] = parts
    OBVIOUS
  <2> QED BY <2>1, <2>2, <2>3, <2>4 DEF UseList, CheckList
<1>2. CASE op = "verify"
  <2>1. UseBefore(op) = <<"signature", "data">> /\ UseAfter(op, p) = <<"padding", "digest", "custom", p>>
    BY <1>2 DEF UseBefore, UseAfter
  <2>2. UsePlugin(op) = 6 /\ UseGiven(op) = 3
    BY <1>2 DEF UsePlugin, UseGiven
  <2>3. LET w == <<"signature", "data">> \o <<"padding", "digest", "custom", p>> IN
        Len(w) = 6 /\ w[6] = p
    OBVIOUS
  <2>4. LET w == <<"signature", "data">> \o << <<n, parts>> >> \o <<"padding", "digest", "custom", p>> IN
        Len(w) = 7 /\ w[7] = p /\ w[3][1] = n /\ w[3][2] = parts
    OBVIOUS
  <2> QED BY <2>1, <2>2, <2>3, <2>4 DEF UseList, CheckList
<1>3. CASE op = "encrypt"
  <2>1. UseBefore(op) = <<"data", "iv">> /\ UseAfter(op, p) = <<"mode", "padding", "authentication", "custom", p>>
    BY <1>3 DEF UseBefore, UseAfter
  <2>2. UsePlugin(op) = 7 /\ UseGiven(op) = 3
    BY <1>3 DEF UsePlugin, UseGiven
  <2>3. LET w == <<"data", "iv">> \o <<"mode", "padding", "authentication", "custom", p>> IN
        Len(w) = 7 /\ w[7] = p
    OBVIOUS
  <2>4. LET w == <<"data", "iv">> \o << <<n, parts>> >> \o <<"mode", "padding", "authentication", "custom", p>> IN
        Len(w) = 8 /\ w[8] = p /\ w[3][1] = n /\ w[3][2] = parts
    OBVIOUS
  <2> QED BY <2>1, <2>2, <2>3, <2>4 DEF UseList, CheckList
<1>4. CASE op = "decrypt"
  <2>1. UseBefore(op) = <<"data", "iv">> /\ UseAfter(op, p) = <<"mode", "padding", "authentication", "tag", "custom", p>>
    BY <1>4 DEF UseBefore, UseAfter
  <2>2. UsePlugin(op) = 8 /\ UseGiven(op) = 3
    BY <1>4 DEF UsePlugin, UseGiven
  <2>3. LET w == <<"data", "iv">> \o <<"mode", "padding", "authentication", "tag", "custom", p>> IN
        Len(w) = 8 /\ w[8] = p
    OBVIOUS
  <2>4. LET w == <<"data", "iv">> \o << <<n, parts>> >> \o <<"mode", "padding", "authentication", "tag", "custom", p>> IN
        Len(w) = 9 /\ w[9] = p /\ w[3][1] = n /\ w[3][2] = parts
    OBVIOUS
  <2> QED BY <2>1, <2>2, <2>3, <2>4 DEF UseList, CheckList
<1> QED BY <1>1, <1>2, <1>3, <1>4 DEF UseOps

\* The parameter lists are as long as the code makes them.
LEMMA FittingShort ==
    ASSUME NEW h, NEW q, NEW w, HelperFits(h, q, w)
    PROVE  Len(w) <= 9
<1>1. \A n \in 0 .. 9 : n <= 9
  OBVIOUS
<1>2. PreChecked(h, q, w) => Len(w) \in 0 .. 9
  BY DEF PreChecked
<1>3. Prompted(h, q, w) => Len(w) \in 0 .. 9
  <2>1. SUFFICES ASSUME NEW key, NEW ui,
                        \/ w = <<q.name, "kpg", "skdf", "custom", q.plugin, key>>
                        \/ w = <<"data", q.name, ui, "custom", q.plugin, key>>
                        \/ w = <<"data", ui, "custom", q.plugin>>
                 PROVE  Len(w) \in 0 .. 9
    BY Zenon DEF Prompted
  <2> QED BY <2>1
<1>4. KeyRead(h, q, w) => Len(w) \in 0 .. 9
  <2>1. w = <<q.name, q.parts>> => Len(w) \in 0 .. 9
    OBVIOUS
  <2>2. \A op \in UseOps : UsePlugin(op) \in 0 .. 9
    BY DEF UseOps, UsePlugin
  <2>3. q.op \in UseOps /\ w = UseList(q.op, q.plugin) => Len(w) \in 0 .. 9
    BY <2>2, UseLists
  <2> QED BY <2>1, <2>3 DEF KeyRead
<1>5. KeyChecked(h, q, w) => Len(w) \in 0 .. 9
  <2>1. \A op \in UseOps : UsePlugin(op) + 1 \in 0 .. 9
    BY DEF UseOps, UsePlugin
  <2>2. ASSUME KeyChecked(h, q, w) PROVE Len(w) \in 0 .. 9
    <3>1. q.op \in UseOps /\ w = CheckList(q.op, q.name, q.parts, q.plugin)
      BY <2>2 DEF KeyChecked
    <3>2. Len(w) = UsePlugin(q.op) + 1
      BY <3>1, UseLists
    <3> QED BY <2>1, <3>1, <3>2
  <2> QED BY <2>2
<1>6. KeyStored(h, q, w) => Len(w) \in 0 .. 9
  BY DEF KeyStored
<1>7. NothingNeeded(h, q, w) => Len(w) <= 9
  BY DEF NothingNeeded
<1>8. Len(w) \in 0 .. 9 => Len(w) <= 9
  BY <1>1, Zenon
<1> QED BY <1>2, <1>3, <1>4, <1>5, <1>6, <1>7, <1>8 DEF HelperFits

\* The lists and entries before a step of the main thread
LEMMA EntriesBefore ==
    ASSUME NEW r \in Requests, KeysInv
    PROVE  /\ request \in [Requests -> RequestStates]
           /\ m_cryptoApiHelperRequests \in [Requests -> HelperStates \cup {Null}]
           /\ m_pendingRequests = [s \in Requests |-> m_pendingRequests[s]]
           /\ ListBound(m_pendingRequests[r])
           /\ request[r] = Blank => m_cryptoApiHelperRequests[r] = Null
<1>1. Blank.op = "none"
  BY DEF Blank
<1> QED BY <1>1, FittingWorks DEF KeysInv, Typed, Arguments, ListBound

\* What a client may ask for
Asked(q) ==
    q \in RequestStates /\ q.op \in Ops /\ q.result = "none" /\ q.reply = "none"

\* A request with wrong parameters is answered.
LEMMA RefusedMain ==
    ASSUME NEW r \in Requests, KeysInv, request[r] = Blank, NEW q, Asked(q), Refused(r, q)
    PROVE  MainStep(r)
<1>1. /\ request \in [Requests -> RequestStates]
      /\ m_cryptoApiHelperRequests \in [Requests -> HelperStates \cup {Null}]
      /\ m_pendingRequests = [s \in Requests |-> m_pendingRequests[s]]
      /\ ListBound(m_pendingRequests[r])
      /\ m_cryptoApiHelperRequests[r] = Null
  BY EntriesBefore
<1>2. /\ request' = [request EXCEPT ![r] = [q EXCEPT !.result = "Failed"]]
      /\ UNCHANGED <<storage, pool, events>>
      /\ m_pendingRequests' = m_pendingRequests
      /\ m_cryptoApiHelperRequests' = m_cryptoApiHelperRequests
  BY DEF Refused, waiting
<1>3. PICK n : n = [q EXCEPT !.result = "Failed"]
  OBVIOUS
<1>4. n \in RequestStates /\ n.op = q.op /\ n.result = "Failed" /\ n.reply = "none"
  BY <1>3 DEF Asked, RequestStates, Results
<1>5. /\ request' \in [Requests -> RequestStates] /\ request'[r] = n
      /\ \A s \in Requests : s # r => request'[s] = request[s]
  BY <1>1, <1>2, <1>3, <1>4
<1>6. q.op # "none"
  BY DEF Asked, Ops, JobOps, UseOps, StoreOps, LockOps
<1>7. OthersKept(r)
  BY <1>1, <1>2, <1>5 DEF OthersKept
<1>8. Source(r)
  BY <1>2, <1>4, <1>5 DEF Source
<1>9. Replied(r)
  BY <1>1, <1>2, <1>4, <1>5 DEF Replied, ReplyFits
<1> QED BY <1>1, <1>2, <1>4, <1>5, <1>6, <1>7, <1>8, <1>9 DEF MainStep

\* A request that starts with a job
LEMMA StartsJobMain ==
    ASSUME NEW r \in Requests, KeysInv, request[r] = Blank, NEW q, Asked(q), NEW j \in Job,
           StartsJob(r, q, j),
           j.request = r, j.job \notin Helpers, JobFits(threadPoolForPlugin(q.plugin), j, q),
           Opens(j) => j.stage = "queued"
    PROVE  MainStep(r)
<1>1. /\ request \in [Requests -> RequestStates]
      /\ m_cryptoApiHelperRequests \in [Requests -> HelperStates \cup {Null}]
      /\ m_pendingRequests = [s \in Requests |-> m_pendingRequests[s]]
      /\ ListBound(m_pendingRequests[r])
      /\ m_cryptoApiHelperRequests[r] = Null
  BY EntriesBefore
<1>2. CASE Refused(r, q)
  BY <1>2, RefusedMain
<1>3. CASE /\ request' = [request EXCEPT ![r] = q]
           /\ Run(threadPoolForPlugin(q.plugin), j)
           /\ UNCHANGED <<storage, waiting, events>>
  <2>1. /\ request' \in [Requests -> RequestStates] /\ request'[r] = q
        /\ \A s \in Requests : s # r => request'[s] = request[s]
    BY <1>1, <1>3 DEF Asked
  <2>2. q.op # "none" /\ q.result = "none"
    BY DEF Asked, Ops, JobOps, UseOps, StoreOps, LockOps
  <2>3. /\ m_pendingRequests' = m_pendingRequests /\ events' = events
        /\ m_cryptoApiHelperRequests' = m_cryptoApiHelperRequests /\ UNCHANGED storage
        /\ pool' = [pool EXCEPT ![threadPoolForPlugin(q.plugin)] = Append(@, j)]
    BY <1>3 DEF waiting, Run
  <2>4. OthersKept(r)
    BY <1>1, <2>1, <2>3 DEF OthersKept
  <2>5. Source(r)
    BY <2>1, <2>2, <2>3 DEF Source
  <2>6. threadPoolForPlugin(q.plugin) \in Pools
    BY DEF threadPoolForPlugin, Pools
  <2>7. Sent(r)
    BY <1>1, <2>1, <2>2, <2>3, <2>6 DEF Sent
  <2>8. request'[r].reply = request[r].reply
    BY <2>1 DEF Asked, Blank
  <2> QED BY <1>1, <2>1, <2>2, <2>3, <2>4, <2>5, <2>7, <2>8 DEF MainStep
<1> QED BY <1>2, <1>3 DEF StartsJob

\* A request that starts with a helper
LEMMA StartsHelperMain ==
    ASSUME NEW r \in Requests, KeysInv, request[r] = Blank, NEW q, Asked(q),
           NEW h \in HelperStates, h.running = FALSE, NEW w, HelperFits(h, q, w),
           StartsHelper(r, q, h, w)
    PROVE  MainStep(r)
<1>1. /\ request \in [Requests -> RequestStates]
      /\ m_cryptoApiHelperRequests \in [Requests -> HelperStates \cup {Null}]
      /\ m_pendingRequests = [s \in Requests |-> m_pendingRequests[s]]
      /\ ListBound(m_pendingRequests[r])
      /\ m_cryptoApiHelperRequests[r] = Null
  BY EntriesBefore
<1>2. CASE Refused(r, q)
  BY <1>2, RefusedMain
<1>3. CASE /\ request' = [request EXCEPT ![r] = q]
           /\ Call(r, h, w)
           /\ UNCHANGED <<storage, pool, events>>
  <2>1. /\ request' \in [Requests -> RequestStates] /\ request'[r] = q
        /\ \A s \in Requests : s # r => request'[s] = request[s]
    BY <1>1, <1>3 DEF Asked
  <2>2. q.op # "none" /\ q.result = "none" /\ q.op \in Ops
    BY DEF Asked, Ops, JobOps, UseOps, StoreOps, LockOps
  <2>3. /\ m_cryptoApiHelperRequests' = [m_cryptoApiHelperRequests EXCEPT ![r] = h]
        /\ m_pendingRequests' =
             [m_pendingRequests EXCEPT ![r] = [type |-> q.op, parameters |-> w]]
    BY <1>3, <2>1 DEF Call
  <2>4. PICK x : x = [type |-> q.op, parameters |-> w]
    OBVIOUS
  <2>5. x.type = q.op /\ x.parameters = w
    BY <2>4
  <2>6. /\ m_cryptoApiHelperRequests'[r] = h /\ m_pendingRequests'[r] = x
        /\ m_cryptoApiHelperRequests' \in [Requests -> HelperStates \cup {Null}]
        /\ m_pendingRequests' = [s \in Requests |-> m_pendingRequests'[s]]
        /\ \A s \in Requests : s # r =>
             /\ m_cryptoApiHelperRequests'[s] = m_cryptoApiHelperRequests[s]
             /\ m_pendingRequests'[s] = m_pendingRequests[s]
    BY <1>1, <2>3, <2>4
  <2>7. OthersKept(r)
    BY <1>1, <2>1, <2>6 DEF OthersKept
  <2>8. Source(r)
    BY <1>3, <2>1, <2>2 DEF Source
  <2>9. Called(r)
    BY <1>3, <2>1, <2>2, <2>5, <2>6 DEF Called, WaitingFits
  <2>10. ListBound(m_pendingRequests'[r])
    BY <2>2, <2>5, <2>6, FittingShort DEF ListBound
  <2>11. request'[r].reply = request[r].reply
    BY <2>1 DEF Asked, Blank
  <2> QED BY <1>3, <2>1, <2>2, <2>7, <2>8, <2>9, <2>10, <2>11 DEF MainStep
<1> QED BY <1>2, <1>3 DEF StartsHelper

\* Jobs that need no stored key
LEMMA PlainJobMain ==
    ASSUME NEW r \in Requests, KeysInv, request[r] = Blank, NEW op \in JobOps,
           NEW p \in CryptoPlugins, PlainJob(r, op, p)
    PROVE  MainStep(r)
<1>1. PICK q, j : /\ q = [Blank EXCEPT !.op = op, !.plugin = p]
                  /\ j = NewJob(r, op, Null, p, "empty")
  OBVIOUS
<1>2. Asked(q) /\ q.op = op /\ q.plugin = p
  BY <1>1 DEF Blank, Asked, RequestStates, Ops, Parts
<1>3. /\ j \in Job /\ j.request = r /\ j.job = op /\ j.name = Null /\ j.plugin = p
      /\ j.stage = "queued" /\ j.wasLocked = FALSE /\ j.ui = FALSE
  BY <1>1 DEF NewJob, Job, Jobs, Parts, CollectionKeys
<1>4. op \notin Helpers /\ op \notin UseOps \cup StoreJobs \cup {"importKey", "storedKey"}
  BY DEF JobOps, Helpers, Dialogs, UseOps, StoreJobs
<1>5. Fits(j, q)
  BY <1>2, <1>3, <1>4 DEF Fits, StoreJobs
<1>6. ~OnCollection(j) /\ ~Opens(j)
  BY <1>3 DEF OnCollection, Opens
<1>7. JobFits(threadPoolForPlugin(q.plugin), j, q)
  BY <1>2, <1>3, <1>4, <1>5, <1>6 DEF JobFits
<1>8. StartsJob(r, q, j)
  BY <1>1 DEF PlainJob
<1> QED BY <1>2, <1>3, <1>4, <1>6, <1>7, <1>8, StartsJobMain

\* importKey()
LEMMA ImportKeyMain ==
    ASSUME NEW r \in Requests, KeysInv, request[r] = Blank, NEW p \in CryptoPlugins,
           NEW ui \in BOOLEAN, importKey(r, p, ui)
    PROVE  MainStep(r)
<1>1. PICK q, j : /\ q = [Blank EXCEPT !.op = "importKey", !.plugin = p, !.ui = ui]
                  /\ j = [NewJob(r, "importKey", Null, p, "empty") EXCEPT !.ui = ui]
  OBVIOUS
<1>2. Asked(q) /\ q.op = "importKey" /\ q.plugin = p /\ q.ui = ui /\ q.name = Null
  BY <1>1 DEF Blank, Asked, RequestStates, Ops, Parts
<1>3. /\ j \in Job /\ j.request = r /\ j.job = "importKey" /\ j.name = Null /\ j.plugin = p
      /\ j.stage = "queued" /\ j.wasLocked = FALSE /\ j.ui = ui
  BY <1>1 DEF NewJob, Job, Jobs, Parts, CollectionKeys
<1>4. "importKey" \notin Helpers \cup UseOps \cup JobOps
  BY DEF JobOps, Helpers, Dialogs, UseOps
<1>5. Fits(j, q)
  BY <1>2, <1>3, <1>4 DEF Fits
<1>6. ~OnCollection(j) /\ ~Opens(j)
  BY <1>3 DEF OnCollection, Opens
<1>7. JobFits(threadPoolForPlugin(q.plugin), j, q)
  BY <1>2, <1>3, <1>4, <1>5, <1>6 DEF JobFits
<1>8. StartsJob(r, q, j)
  BY <1>1 DEF importKey
<1> QED BY <1>2, <1>3, <1>4, <1>6, <1>7, <1>8, StartsJobMain

\* A helper's request
LEMMA HelperEntry ==
    ASSUME NEW type \in Helpers, NEW n \in Names \cup {Null}
    PROVE  LET h == Helper(type, n) IN
           h \in HelperStates /\ h.type = type /\ h.name = n /\ h.running = FALSE
BY DEF Helper, HelperStates

\* generateStoredKey() and importStoredKey()
LEMMA StoreKeyMain ==
    ASSUME NEW r \in Requests, KeysInv, request[r] = Blank, NEW n \in Names,
           NEW p \in CryptoPlugins, NEW ui \in BOOLEAN,
           generateStoredKey(r, n, p, ui) \/ importStoredKey(r, n, p, ui)
    PROVE  MainStep(r)
<1>1. PICK h : h = Helper("storeKeyPreCheck", n)
  OBVIOUS
<1>2. h \in HelperStates /\ h.type = "storeKeyPreCheck" /\ h.name = n /\ h.running = FALSE
  BY <1>1, HelperEntry DEF Helpers
<1>3. CASE generateStoredKey(r, n, p, ui)
  <2>1. PICK q, w : /\ q = [Blank EXCEPT !.op = "generateStoredKey", !.name = n, !.plugin = p, !.ui = ui]
                    /\ w = <<n, "kpg", "skdf", ui, "custom", p>>
    OBVIOUS
  <2>2. Asked(q) /\ q.op = "generateStoredKey" /\ q.plugin = p /\ q.ui = ui /\ q.name = n
    BY <2>1 DEF Blank, Asked, RequestStates, Ops, StoreOps, Parts
  <2>3. HelperFits(h, q, w)
    BY <1>2, <2>1, <2>2 DEF HelperFits, PreChecked, HasKey
  <2>4. StartsHelper(r, q, h, w)
    BY <1>1, <1>3, <2>1 DEF generateStoredKey, storeKeyPreCheck
  <2> QED BY <1>2, <2>2, <2>3, <2>4, StartsHelperMain
<1>4. CASE importStoredKey(r, n, p, ui)
  <2>1. PICK q, w : /\ q = [Blank EXCEPT !.op = "importStoredKey", !.name = n, !.plugin = p, !.ui = ui]
                    /\ w = <<"data", n, ui, "custom", p>>
    OBVIOUS
  <2>2. Asked(q) /\ q.op = "importStoredKey" /\ q.plugin = p /\ q.ui = ui /\ q.name = n
    BY <2>1 DEF Blank, Asked, RequestStates, Ops, StoreOps, Parts
  <2>3. HelperFits(h, q, w)
    BY <1>2, <2>1, <2>2 DEF HelperFits, PreChecked, HasKey
  <2>4. StartsHelper(r, q, h, w)
    BY <1>1, <1>4, <2>1 DEF importStoredKey, storeKeyPreCheck
  <2> QED BY <1>2, <2>2, <2>3, <2>4, StartsHelperMain
<1> QED BY <1>3, <1>4

\* A job with a key object that has the parts it needs, or whose components are
\* read as they are: it does not open the collection.
LEMMA OpenJob ==
    ASSUME NEW j \in Job, NEW q, j.job \in UseOps \cup {"storedKey"},
           q.op = j.job, q.name = j.name, q.name \in Names,
           q.plugin = j.plugin, q.plugin \in CryptoPlugins,
           j.job \in UseOps => ~IsReference(j.job, j.parts),
           j.job = "storedKey" => q.parts = j.parts,
           j.stage = "open", j.wasLocked = FALSE, j.ui = FALSE
    PROVE  /\ j.job \notin Helpers /\ ~Opens(j)
           /\ JobFits(threadPoolForPlugin(q.plugin), j, q)
<1>1. /\ j.job \notin Helpers \cup JobOps \cup {"importKey"} \cup StoreJobs
      /\ "storedKey" \notin UseOps
  BY DEF JobOps, Helpers, Dialogs, UseOps, StoreJobs
<1>2. Fits(j, q)
  BY <1>1 DEF Fits, StoreJobs, JobOps
<1>3. ~Opens(j)
  BY DEF Opens
<1> QED BY <1>1, <1>2, <1>3 DEF JobFits

\* storedKey()
LEMMA StoredKeyMain ==
    ASSUME NEW r \in Requests, KeysInv, request[r] = Blank, NEW n \in Names,
           NEW parts \in Parts, storedKey(r, n, parts)
    PROVE  MainStep(r)
<1>1. PICK q : q = [Blank EXCEPT !.op = "storedKey", !.name = n, !.parts = parts]
  OBVIOUS
<1>2. Asked(q) /\ q.op = "storedKey" /\ q.name = n /\ q.parts = parts
  BY <1>1 DEF Blank, Asked, RequestStates, Ops, Parts
<1>3. CASE PluginOf[n] \in CryptoPlugins
  <2>1. PICK k, j, p : /\ p = PluginOf[n] /\ k = [q EXCEPT !.plugin = p]
                       /\ j = [NewJob(r, "storedKey", n, p, "empty") EXCEPT
                                 !.parts = parts, !.stage = "open"]
    OBVIOUS
  <2>2. Asked(k) /\ k.op = "storedKey" /\ k.name = n /\ k.parts = parts /\ k.plugin = p
    BY <1>2, <1>3, <2>1 DEF Asked, RequestStates
  <2>3. "storedKey" \in UseOps \cup {"storedKey"} /\ "storedKey" \notin UseOps
    BY DEF UseOps
  <2>4. p \in CryptoPlugins
    BY <1>3, <2>1
  <2>5. /\ j \in Job /\ j.request = r /\ j.job \notin Helpers /\ ~Opens(j)
        /\ JobFits(threadPoolForPlugin(k.plugin), j, k)
    <3>1. /\ j \in Job /\ j.request = r /\ j.job = "storedKey" /\ j.name = n /\ j.plugin = p
          /\ j.stage = "open" /\ j.wasLocked = FALSE /\ j.ui = FALSE /\ j.parts = parts
      BY <2>1, <2>4 DEF NewJob, Job, Jobs, CollectionKeys
    <3> QED BY <2>2, <2>3, <2>4, <3>1, OpenJob
  <2>6. StartsJob(r, k, j)
    BY <1>1, <1>3, <2>1 DEF storedKey
  <2> QED BY <2>2, <2>5, <2>6, StartsJobMain
<1>4. CASE PluginOf[n] \notin CryptoPlugins
  <2>1. PICK h, w : h = Helper("getKey", n) /\ w = <<n, parts>>
    OBVIOUS
  <2>2. h \in HelperStates /\ h.type = "getKey" /\ h.name = n /\ h.running = FALSE
    BY <2>1, HelperEntry DEF Helpers
  <2>3. HelperFits(h, q, w)
    BY <1>2, <2>1, <2>2 DEF HelperFits, KeyRead
  <2>4. StartsHelper(r, q, h, w)
    BY <1>1, <1>4, <2>1 DEF storedKey, storedKeyHelper
  <2> QED BY <1>2, <2>2, <2>3, <2>4, StartsHelperMain
<1> QED BY <1>3, <1>4

\* deleteStoredKey() and storedKeyIdentifiers()
LEMMA NameOnlyMain ==
    ASSUME NEW r \in Requests, KeysInv, request[r] = Blank, NEW n \in Names,
           deleteStoredKey(r, n) \/ storedKeyIdentifiers(r, n)
    PROVE  MainStep(r)
<1>1. CASE deleteStoredKey(r, n)
  <2>1. PICK q, h, w : /\ q = [Blank EXCEPT !.op = "deleteStoredKey", !.name = n]
                       /\ h = Helper("deleteKey", n) /\ w = <<n>>
    OBVIOUS
  <2>2. Asked(q) /\ q.op = "deleteStoredKey" /\ q.name = n
    BY <2>1 DEF Blank, Asked, RequestStates, Ops, Parts
  <2>3. h \in HelperStates /\ h.type = "deleteKey" /\ h.name = n /\ h.running = FALSE
    BY <2>1, HelperEntry DEF Helpers
  <2>4. Len(w) = 1
    BY <2>1
  <2>5. HelperFits(h, q, w)
    BY <2>2, <2>3, <2>4 DEF HelperFits, NothingNeeded
  <2>6. StartsHelper(r, q, h, w)
    BY <1>1, <2>1 DEF deleteStoredKey, deleteStoredKeyHelper
  <2> QED BY <2>2, <2>3, <2>5, <2>6, StartsHelperMain
<1>2. CASE storedKeyIdentifiers(r, n)
  <2>1. PICK q, h, w : /\ q = [Blank EXCEPT !.op = "storedKeyIdentifiers", !.name = n]
                       /\ h = Helper("keyIdentifiers", n) /\ w = <<>>
    OBVIOUS
  <2>2. Asked(q) /\ q.op = "storedKeyIdentifiers" /\ q.name = n
    BY <2>1 DEF Blank, Asked, RequestStates, Ops, Parts
  <2>3. h \in HelperStates /\ h.type = "keyIdentifiers" /\ h.name = n /\ h.running = FALSE
    BY <2>1, HelperEntry DEF Helpers
  <2>4. Len(w) = 0
    BY <2>1
  <2>5. HelperFits(h, q, w)
    BY <2>2, <2>3, <2>4 DEF HelperFits, NothingNeeded
  <2>6. StartsHelper(r, q, h, w)
    BY <1>2, <2>1 DEF storedKeyIdentifiers, storedKeyIdentifiersHelper
  <2> QED BY <2>2, <2>3, <2>5, <2>6, StartsHelperMain
<1> QED BY <1>1, <1>2

\* The lock code requests
LEMMA LockRequestMain ==
    ASSUME NEW r \in Requests, KeysInv, request[r] = Blank, NEW p \in CryptoPlugins,
           \/ queryLockStatus(r, p) \/ modifyLockCode(r, p)
           \/ provideLockCode(r, p) \/ forgetLockCode(r, p)
    PROVE  MainStep(r)
<1>1. PICK op \in LockOps, type \in {"lockStatus", "lockCode"}, x \in {<<>>, <<"ui">>} :
        LockRequest(r, op, p, Helper(type, Null), x)
  BY DEF queryLockStatus, modifyLockCode, provideLockCode, forgetLockCode, LockOps,
         queryCryptoPluginLockStatus, modifyCryptoPluginLockCode, provideCryptoPluginLockCode,
         forgetCryptoPluginLockCode
<1>2. PICK q, h, w : /\ q = [Blank EXCEPT !.op = op, !.plugin = p]
                     /\ h = Helper(type, Null) /\ w = <<"pid", "type", p>> \o x
  OBVIOUS
<1>3. Asked(q) /\ q.op = op /\ q.name = Null
  BY <1>2 DEF Blank, Asked, RequestStates, Ops, Parts
<1>4. h \in HelperStates /\ h.type = type /\ h.name = Null /\ h.running = FALSE
  BY <1>2, HelperEntry DEF Helpers, Dialogs
<1>5. Len(w) = 3 \/ Len(w) = 4
  <2>1. Len(<<"pid", "type", p>> \o <<>>) = 3 /\ Len(<<"pid", "type", p>> \o <<"ui">>) = 4
    OBVIOUS
  <2> QED BY <1>2, <2>1
<1>6. Len(w) <= 9
  <2>1. \A n \in {3, 4} : n <= 9
    OBVIOUS
  <2>2. Len(w) \in {3, 4}
    BY <1>5
  <2> QED BY <2>1, <2>2, Zenon
<1>7. HelperFits(h, q, w)
  BY <1>3, <1>4, <1>6 DEF HelperFits, NothingNeeded
<1>8. StartsHelper(r, q, h, w)
  BY <1>1, <1>2 DEF LockRequest
<1> QED BY <1>3, <1>4, <1>7, <1>8, StartsHelperMain

\* sign(), verify(), encrypt() and decrypt()
LEMMA UseKeyMain ==
    ASSUME NEW r \in Requests, KeysInv, request[r] = Blank, NEW op \in UseOps, NEW n \in Names,
           NEW p \in CryptoPlugins, NEW parts \in Parts,
           UseKey(r, op, n, p, parts, UseBefore(op), UseAfter(op, p))
    PROVE  MainStep(r)
<1>1. PICK q : q = [Blank EXCEPT !.op = op, !.name = n, !.plugin = p, !.parts = parts]
  OBVIOUS
<1>2. Asked(q) /\ q.op = op /\ q.name = n /\ q.plugin = p /\ q.parts = parts
  BY <1>1 DEF Blank, Asked, RequestStates, Ops, Parts
<1>3. CASE ~IsReference(op, parts)
  <2>1. PICK j : j = [NewJob(r, op, n, p, "empty") EXCEPT !.parts = parts, !.stage = "open"]
    OBVIOUS
  <2>2. op \in UseOps \cup {"storedKey"} /\ op # "storedKey"
    BY DEF UseOps
  <2>3. /\ j \in Job /\ j.request = r /\ j.job \notin Helpers /\ ~Opens(j)
        /\ JobFits(threadPoolForPlugin(q.plugin), j, q)
    <3>1. /\ j \in Job /\ j.request = r /\ j.job = op /\ j.name = n /\ j.plugin = p
          /\ j.stage = "open" /\ j.wasLocked = FALSE /\ j.ui = FALSE /\ j.parts = parts
      BY <2>1 DEF NewJob, Job, Jobs, CollectionKeys
    <3> QED BY <1>2, <1>3, <2>2, <3>1, OpenJob
  <2>4. StartsJob(r, q, j)
    BY <1>1, <1>3, <2>1 DEF UseKey
  <2> QED BY <1>2, <2>3, <2>4, StartsJobMain
<1>4. CASE IsReference(op, parts) /\ PluginOf[n] = p
  <2>1. PICK h, w : /\ h = Helper("useKeyPreCheck", n)
                    /\ w = CheckList(op, n, parts, p)
    OBVIOUS
  <2>2. h \in HelperStates /\ h.type = "useKeyPreCheck" /\ h.name = n /\ h.running = FALSE
    BY <2>1, HelperEntry DEF Helpers
  <2>3. KeyChecked(h, q, w)
    BY <1>2, <1>4, <2>1, <2>2 DEF KeyChecked, InPlugin, HasKey
  <2>4. HelperFits(h, q, w)
    BY <2>3 DEF HelperFits
  <2>5. StartsHelper(r, q, h, w)
    BY <1>1, <1>4, <2>1 DEF UseKey, useKeyPreCheck, CheckList
  <2> QED BY <1>2, <2>2, <2>4, <2>5, StartsHelperMain
<1>5. CASE IsReference(op, parts) /\ PluginOf[n] # p
  <2>1. PICK h, w : /\ h = Helper("getKey", n)
                    /\ w = UseList(op, p)
    OBVIOUS
  <2>2. h \in HelperStates /\ h.type = "getKey" /\ h.name = n /\ h.running = FALSE
    BY <2>1, HelperEntry DEF Helpers
  <2>3. KeyRead(h, q, w)
    BY <1>2, <1>5, <2>1, <2>2 DEF KeyRead
  <2>4. HelperFits(h, q, w)
    BY <2>3 DEF HelperFits
  <2>5. StartsHelper(r, q, h, w)
    BY <1>1, <1>5, <2>1 DEF UseKey, storedKeyHelper, UseList
  <2> QED BY <1>2, <2>2, <2>4, <2>5, StartsHelperMain
<1> QED BY <1>3, <1>4, <1>5

\* Every arrival is a step of the main thread.
LEMMA ArrivalMain ==
    ASSUME NEW r \in Requests, KeysInv, Arrival(r)
    PROVE  MainStep(r)
<1>1. request[r] = Blank
  BY DEF Arrival
<1>2. ASSUME NEW p \in CryptoPlugins,
             \/ generateRandomData(r, p) \/ seedRandomDataGenerator(r, p)
             \/ generateInitializationVector(r, p) \/ generateKey(r, p) \/ calculateDigest(r, p)
      PROVE  MainStep(r)
  <2>1. PICK op \in JobOps : PlainJob(r, op, p)
    BY <1>2 DEF generateRandomData, seedRandomDataGenerator, generateInitializationVector,
                generateKey, calculateDigest, JobOps
  <2> QED BY <1>1, <2>1, PlainJobMain
<1>3. ASSUME NEW p \in CryptoPlugins, NEW n \in Names, NEW parts \in Parts,
             \/ sign(r, n, p, parts) \/ verify(r, n, p, parts)
             \/ encrypt(r, n, p, parts) \/ decrypt(r, n, p, parts)
      PROVE  MainStep(r)
  <2>1. \E op \in UseOps : UseKey(r, op, n, p, parts, UseBefore(op), UseAfter(op, p))
    <3>1. CASE sign(r, n, p, parts)
      <4>1. UseBefore("sign") = <<"data">> /\ UseAfter("sign", p) = <<"padding", "digest", "custom", p>>
        BY DEF UseBefore, UseAfter
      <4> QED BY <3>1, <4>1 DEF sign, UseOps
    <3>2. CASE verify(r, n, p, parts)
      <4>1. /\ UseBefore("verify") = <<"signature", "data">>
            /\ UseAfter("verify", p) = <<"padding", "digest", "custom", p>>
        BY DEF UseBefore, UseAfter
      <4> QED BY <3>2, <4>1 DEF verify, UseOps
    <3>3. CASE encrypt(r, n, p, parts)
      <4>1. /\ UseBefore("encrypt") = <<"data", "iv">>
            /\ UseAfter("encrypt", p) = <<"mode", "padding", "authentication", "custom", p>>
        BY DEF UseBefore, UseAfter
      <4> QED BY <3>3, <4>1 DEF encrypt, UseOps
    <3>4. CASE decrypt(r, n, p, parts)
      <4>1. /\ UseBefore("decrypt") = <<"data", "iv">>
            /\ UseAfter("decrypt", p) = <<"mode", "padding", "authentication", "tag", "custom", p>>
        BY DEF UseBefore, UseAfter
      <4> QED BY <3>4, <4>1 DEF decrypt, UseOps
    <3> QED BY <1>3, <3>1, <3>2, <3>3, <3>4
  <2> QED BY <1>1, <2>1, UseKeyMain
<1>4. ASSUME NEW p \in CryptoPlugins,
             \/ queryLockStatus(r, p) \/ modifyLockCode(r, p)
             \/ provideLockCode(r, p) \/ forgetLockCode(r, p)
      PROVE  MainStep(r)
  BY <1>1, <1>4, LockRequestMain
<1>5. ASSUME NEW p \in CryptoPlugins, NEW ui \in BOOLEAN, importKey(r, p, ui)
      PROVE  MainStep(r)
  BY <1>1, <1>5, ImportKeyMain
<1>6. ASSUME NEW p \in CryptoPlugins, NEW n \in Names, NEW ui \in BOOLEAN,
             generateStoredKey(r, n, p, ui) \/ importStoredKey(r, n, p, ui)
      PROVE  MainStep(r)
  BY <1>1, <1>6, StoreKeyMain
<1>7. ASSUME NEW n \in Names, deleteStoredKey(r, n) \/ storedKeyIdentifiers(r, n)
      PROVE  MainStep(r)
  BY <1>1, <1>7, NameOnlyMain
<1>8. ASSUME NEW n \in Names, NEW parts \in Parts, storedKey(r, n, parts)
      PROVE  MainStep(r)
  BY <1>1, <1>8, StoredKeyMain
<1> QED BY <1>2, <1>3, <1>4, <1>5, <1>6, <1>7, <1>8, Zenon DEF Arrival

-----------------------------------------------------------------------------
(* The main thread: a helper has completed or a job has finished *)

\* The signal that is taken, and the request it is about
TakesSignal(r) ==
    /\ events # <<>> /\ Head(events).request = r /\ events' = Tail(events)
    /\ UNCHANGED storage

\* The first signal is about a request that works and has its arguments; a
\* helper finds the parameters put aside for it, and a key it says is stored is.
LEMMA SignalTaken ==
    ASSUME NEW r \in Requests, KeysInv, events # <<>>, Head(events).request = r
    PROVE  LET e == Head(events)
               h == m_cryptoApiHelperRequests[r]
               q == request[r] IN
           /\ e \in Signals /\ e.key \in CollectionKeys /\ e.result \in Results /\ e.parts \in Parts
           /\ Fits(e, q) /\ q \in RequestStates /\ q.op # "none" /\ q.result = "none"
           /\ e.job \in Helpers =>
                /\ h # Null /\ h.type = e.job /\ h.name = e.name
                /\ HelperFits(h, q, m_pendingRequests[r].parameters)
                /\ m_pendingRequests[r].type = q.op
           /\ e.job \notin Helpers => h = Null
           /\ e.job \in StoreJobs \cup {"setKey"} /\ e.result = "Succeeded" => IsKept(r)
<1> DEFINE e == Head(events)
           h == m_cryptoApiHelperRequests[r]
           q == request[r]
<1>1. Typed /\ Driven /\ Arguments /\ Kept
  BY DEF KeysInv
<1>2. e \in Elements(events) /\ e \in Signals /\ e.request \in RequestsOf(events)
  BY <1>1, ElementsOf DEF Typed
<1>3. e.key \in CollectionKeys /\ e.result \in Results /\ e.parts \in Parts
  BY <1>2 DEF Signals
<1>4. Fits(e, q) /\ HelpedBy(e, h)
  BY <1>1, <1>2 DEF Arguments, Helped
<1>5. q \in RequestStates
  BY <1>1 DEF Typed
<1>6. q.op # "none" /\ q.result = "none"
  BY <1>1, <1>2 DEF Driven, DrivenBy
<1>7. h # Null => HelperFits(h, q, m_pendingRequests[r].parameters) /\ m_pendingRequests[r].type = q.op
  BY <1>1 DEF Arguments
<1>8. e.job \in StoreJobs \cup {"setKey"} /\ e.result = "Succeeded" => IsKept(r)
  BY <1>1, <1>2 DEF Kept
<1> HIDE DEF e, h, q
<1> QED BY <1>2, <1>3, <1>4, <1>5, <1>6, <1>7, <1>8 DEF HelpedBy, e, h, q

\* The client is answered, whether or not a helper was at work.
LEMMA AnswerMain ==
    ASSUME NEW r \in Requests, KeysInv, TakesSignal(r), UNCHANGED pool,
           NEW result \in Results, NEW reply \in Parts, Answer(r, result, reply),
           Taken(r) \/ (UNCHANGED waiting /\ m_cryptoApiHelperRequests[r] = Null),
           ReplyFits(request[r], result, reply),
           result = "Succeeded" /\ request[r].op \in StoreOps => IsKept(r)
    PROVE  MainStep(r)
<1>1. /\ request \in [Requests -> RequestStates]
      /\ m_cryptoApiHelperRequests \in [Requests -> HelperStates \cup {Null}]
      /\ m_pendingRequests = [s \in Requests |-> m_pendingRequests[s]]
      /\ ListBound(m_pendingRequests[r])
  BY EntriesBefore
<1>2. request[r].op # "none"
  BY SignalTaken DEF TakesSignal
<1>3. PICK n : n = [request[r] EXCEPT !.result = result, !.reply = reply]
  OBVIOUS
<1>4. /\ n \in RequestStates /\ n.result = result /\ n.reply = reply
      /\ n.op = request[r].op /\ n.name = request[r].name /\ n.plugin = request[r].plugin
      /\ n.parts = request[r].parts /\ n.ui = request[r].ui
  BY <1>1, <1>3 DEF RequestStates
<1>5. request' = [request EXCEPT ![r] = n]
  BY <1>1, <1>3 DEF Answer
<1>6. /\ request' \in [Requests -> RequestStates] /\ request'[r] = n
      /\ \A s \in Requests : s # r => request'[s] = request[s]
  BY <1>1, <1>4, <1>5
<1>7. /\ m_cryptoApiHelperRequests'[r] = Null
      /\ m_cryptoApiHelperRequests' \in [Requests -> HelperStates \cup {Null}]
      /\ m_pendingRequests' = [s \in Requests |-> m_pendingRequests'[s]]
      /\ \A s \in Requests : s # r =>
           /\ m_cryptoApiHelperRequests'[s] = m_cryptoApiHelperRequests[s]
           /\ m_pendingRequests'[s] = m_pendingRequests[s]
      /\ ListBound(m_pendingRequests'[r])
  <2>1. CASE Taken(r)
    BY <1>1, <2>1 DEF Taken, ListBound
  <2>2. CASE UNCHANGED waiting /\ m_cryptoApiHelperRequests[r] = Null
    BY <1>1, <2>2 DEF waiting
  <2> QED BY <2>1, <2>2
<1>8. OthersKept(r)
  BY <1>6, <1>7 DEF OthersKept
<1>9. Source(r)
  BY <1>4, <1>6 DEF Source, SameRequest, TakesSignal
<1>10. Replied(r)
  <2>1. result # "none"
    BY DEF Results
  <2>2. ReplyFits(n, n.result, n.reply)
    BY <1>4 DEF ReplyFits, Elsewhere, HasKey
  <2> QED BY <1>4, <1>6, <1>7, <2>1, <2>2 DEF Replied
<1>11. request'[r].result # "none"
  BY <1>10 DEF Replied
<1> QED BY <1>2, <1>4, <1>6, <1>7, <1>8, <1>9, <1>10, <1>11 DEF MainStep, TakesSignal

\* The request goes on with a job of its own.
LEMMA GoesOnMain ==
    ASSUME NEW r \in Requests, KeysInv, TakesSignal(r), NEW j \in Job, GoesOn(r, j),
           j.request = r, j.job \notin Helpers,
           JobFits(threadPoolForPlugin(j.plugin), j, request[r]),
           Opens(j) => j.stage = "queued"
    PROVE  MainStep(r)
<1>1. /\ request \in [Requests -> RequestStates]
      /\ m_cryptoApiHelperRequests \in [Requests -> HelperStates \cup {Null}]
      /\ m_pendingRequests = [s \in Requests |-> m_pendingRequests[s]]
  BY EntriesBefore
<1>2. request[r].op # "none" /\ request[r].result = "none"
  BY SignalTaken DEF TakesSignal
<1>3. /\ m_cryptoApiHelperRequests' = [m_cryptoApiHelperRequests EXCEPT ![r] = Null]
      /\ m_pendingRequests' = [m_pendingRequests EXCEPT ![r] = Null]
      /\ pool' = [pool EXCEPT ![threadPoolForPlugin(j.plugin)] = Append(@, j)]
      /\ request' = request
  BY DEF GoesOn, Taken, Run
<1>4. /\ m_cryptoApiHelperRequests'[r] = Null
      /\ m_cryptoApiHelperRequests' \in [Requests -> HelperStates \cup {Null}]
      /\ m_pendingRequests' = [s \in Requests |-> m_pendingRequests'[s]]
      /\ \A s \in Requests : s # r =>
           /\ m_cryptoApiHelperRequests'[s] = m_cryptoApiHelperRequests[s]
           /\ m_pendingRequests'[s] = m_pendingRequests[s]
      /\ m_pendingRequests'[r] = Null
  BY <1>1, <1>3
<1>5. OthersKept(r)
  BY <1>1, <1>3, <1>4 DEF OthersKept
<1>6. Source(r)
  BY <1>3 DEF Source, SameRequest, TakesSignal
<1>7. threadPoolForPlugin(j.plugin) \in Pools
  BY DEF threadPoolForPlugin, Pools
<1>8. Sent(r)
  BY <1>2, <1>3, <1>4, <1>7 DEF Sent
<1> QED BY <1>2, <1>3, <1>4, <1>5, <1>6, <1>8 DEF MainStep, TakesSignal, ListBound

\* The request goes on with a helper.
LEMMA CallMain ==
    ASSUME NEW r \in Requests, KeysInv, TakesSignal(r), UNCHANGED <<pool, request>>,
           NEW h \in HelperStates, h.running = FALSE, NEW w, HelperFits(h, request[r], w),
           Call(r, h, w)
    PROVE  MainStep(r)
<1>1. /\ request \in [Requests -> RequestStates]
      /\ m_cryptoApiHelperRequests \in [Requests -> HelperStates \cup {Null}]
      /\ m_pendingRequests = [s \in Requests |-> m_pendingRequests[s]]
  BY EntriesBefore
<1>2. request[r].op # "none" /\ request[r].result = "none" /\ request[r] \in RequestStates
  BY SignalTaken DEF TakesSignal
<1>3. PICK x : x = [type |-> request[r].op, parameters |-> w]
  OBVIOUS
<1>4. x.type = request[r].op /\ x.parameters = w
  BY <1>3
<1>5. /\ m_cryptoApiHelperRequests' = [m_cryptoApiHelperRequests EXCEPT ![r] = h]
      /\ m_pendingRequests' = [m_pendingRequests EXCEPT ![r] = x]
      /\ request' = request
  BY <1>3 DEF Call
<1>6. /\ m_cryptoApiHelperRequests'[r] = h /\ m_pendingRequests'[r] = x
      /\ m_cryptoApiHelperRequests' \in [Requests -> HelperStates \cup {Null}]
      /\ m_pendingRequests' = [s \in Requests |-> m_pendingRequests'[s]]
      /\ \A s \in Requests : s # r =>
           /\ m_cryptoApiHelperRequests'[s] = m_cryptoApiHelperRequests[s]
           /\ m_pendingRequests'[s] = m_pendingRequests[s]
  BY <1>1, <1>5
<1>7. OthersKept(r)
  BY <1>1, <1>5, <1>6 DEF OthersKept
<1>8. Source(r)
  BY <1>5 DEF Source, SameRequest, TakesSignal
<1>9. Called(r)
  BY <1>2, <1>4, <1>5, <1>6 DEF Called, WaitingFits
<1>10. ListBound(m_pendingRequests'[r])
  <2>1. request[r].op \in Ops
    BY <1>2 DEF RequestStates
  <2> QED BY <1>4, <1>6, <2>1, FittingShort DEF ListBound
<1> QED BY <1>2, <1>5, <1>7, <1>8, <1>9, <1>10 DEF MainStep, TakesSignal

\* The user is asked, or the request ends because the secrets queue is full.
LEMMA PromptMain ==
    ASSUME NEW r \in Requests, KeysInv, TakesSignal(r), UNCHANGED pool,
           NEW n \in Names \cup {Null}, NEW w, promptForKeyPassphrase(r, n, w),
           \A h : h.type = "userInput" /\ h.name = n => HelperFits(h, request[r], w)
    PROVE  MainStep(r)
<1>1. CASE UNCHANGED request /\ Call(r, userInput(n), w)
  <2>1. PICK h : h = Helper("userInput", n)
    OBVIOUS
  <2>2. h \in HelperStates /\ h.type = "userInput" /\ h.name = n /\ h.running = FALSE
    BY <2>1, HelperEntry DEF Helpers, Dialogs
  <2>3. Call(r, h, w)
    BY <1>1, <2>1 DEF userInput
  <2> QED BY <1>1, <2>2, <2>3, CallMain
<1>2. CASE Answer(r, "Failed", "none") /\ Taken(r)
  <2>1. "Failed" \in Results /\ "none" \in Parts
    BY DEF Results, Parts
  <2>2. ReplyFits(request[r], "Failed", "none")
    BY DEF ReplyFits
  <2> QED BY <1>2, <2>1, <2>2, AnswerMain
<1> QED BY <1>1, <1>2 DEF promptForKeyPassphrase

\* What waits for a helper of this type
LEMMA FitsType ==
    ASSUME NEW h, NEW q, NEW w, HelperFits(h, q, w)
    PROVE  /\ h.type = "getKey" => KeyRead(h, q, w)
           /\ h.type = "useKeyPreCheck" => KeyChecked(h, q, w)
           /\ h.type = "storeKeyPreCheck" => PreChecked(h, q, w)
           /\ h.type = "setKey" => KeyStored(h, q, w)
           /\ h.type = "userInput" => Prompted(h, q, w)
           /\ h.type \in {"deleteKey", "keyIdentifiers", "lockStatus", "lockCode"} =>
                NothingNeeded(h, q, w)
BY DEF HelperFits, PreChecked, Prompted, KeyRead, KeyChecked, KeyStored, NothingNeeded

\* A job that waits for its turn
LEMMA QueuedJob ==
    ASSUME NEW j \in Job, NEW q, Fits(j, q), j.job \notin Helpers, j.stage = "queued",
           j.wasLocked = FALSE, OnCollection(j) => Opens(j)
    PROVE  JobFits(threadPoolForPlugin(j.plugin), j, q)
BY DEF JobFits

\* A helper has completed: its entry says which one, and what it was for.
LEMMA CompletedTakes ==
    ASSUME NEW r \in Requests, KeysInv, NEW S, S \subseteq Helpers, Completed(r, S)
    PROVE  /\ TakesSignal(r)
           /\ Head(events).job \in S
           /\ m_cryptoApiHelperRequests[r].type = Head(events).job
           /\ m_cryptoApiHelperRequests[r].name = Head(events).name
           /\ HelperFits(m_cryptoApiHelperRequests[r], request[r], m_pendingRequests[r].parameters)
           /\ m_pendingRequests[r].type = request[r].op
           /\ Head(events).result \in Results /\ Head(events).key \in CollectionKeys
           /\ Head(events).job \in StoreJobs \cup {"setKey"} /\ Head(events).result = "Succeeded" =>
                IsKept(r)
<1>1. /\ events # <<>> /\ Head(events).request = r /\ Head(events).job \in S
      /\ TakesSignal(r)
  BY DEF Completed, TakesSignal
<1> QED BY <1>1, SignalTaken

\* The helper's failure is the reply.
LEMMA FailureMain ==
    ASSUME NEW r \in Requests, KeysInv, TakesSignal(r), NEW result \in Results,
           result # "Succeeded", Replies(r, result, "none")
    PROVE  MainStep(r)
<1>1. "none" \in Parts
  BY DEF Parts
<1>2. ReplyFits(request[r], result, "none")
  BY DEF ReplyFits
<1> QED BY <1>1, <1>2, AnswerMain DEF Replies

\* The key was read: it is used with the plugin that was put aside.
LEMMA WithKeyMain ==
    ASSUME NEW r \in Requests, KeysInv, Completed(r, {"getKey"}), NEW op \in UseOps,
           WithKey(r, op, m_pendingRequests[r].parameters[UsePlugin(op)])
    PROVE  MainStep(r)
<1> DEFINE e == Head(events)
           h == m_cryptoApiHelperRequests[r]
           q == request[r]
           w == m_pendingRequests[r].parameters
<1>1. /\ TakesSignal(r) /\ h.type = "getKey" /\ h.name = e.name /\ HelperFits(h, q, w)
      /\ m_pendingRequests[r].type = q.op /\ e.result \in Results
  <2>1. {"getKey"} \subseteq Helpers
    BY DEF Helpers
  <2> QED BY <2>1, CompletedTakes
<1>2. m_pendingRequests[r].type = op
  BY DEF WithKey
<1>3. KeyRead(h, q, w)
  BY <1>1, FitsType
<1>4. "storedKey" \notin UseOps
  BY DEF UseOps
<1>5. /\ q.op = op /\ e.name = q.name /\ q.name \in Names /\ q.plugin \in CryptoPlugins
      /\ w = UseList(op, q.plugin)
  BY <1>1, <1>2, <1>3, <1>4 DEF KeyRead
<1>6. w[UsePlugin(op)] = q.plugin
  <2> HIDE DEF e, h, q, w
  <2> QED BY <1>5, UseLists
<1>7. CASE e.result # "Succeeded" /\ Replies(r, e.result, "none")
  BY <1>1, <1>7, FailureMain
<1>8. CASE GoesOn(r, [NewJob(r, op, e.name, q.plugin, "empty") EXCEPT
                        !.parts = "all", !.stage = "open"])
  <2>1. PICK j : j = [NewJob(r, op, e.name, q.plugin, "empty") EXCEPT
                        !.parts = "all", !.stage = "open"]
    OBVIOUS
  <2>2. /\ j \in Job /\ j.request = r /\ j.job = op /\ j.name = q.name /\ j.plugin = q.plugin
        /\ j.stage = "open" /\ j.wasLocked = FALSE /\ j.ui = FALSE /\ j.parts = "all"
    <3> HIDE DEF e, q
    <3> QED BY <1>5, <2>1 DEF NewJob, Job, Jobs, CollectionKeys, Parts
  <2> HIDE DEF e, h, q, w
  <2>3. ~IsReference(op, "all")
    BY DEF IsReference
  <2>4. JobFits(threadPoolForPlugin(q.plugin), j, q) /\ j.job \notin Helpers /\ ~Opens(j)
    BY <1>4, <1>5, <2>2, <2>3, OpenJob
  <2>5. GoesOn(r, j)
    BY <1>8, <2>1
  <2> QED BY <1>1, <2>2, <2>4, <2>5, GoesOnMain DEF q
<1> QED BY <1>6, <1>7, <1>8 DEF WithKey

\* secretsStoredKeyCompleted()
LEMMA KeyReadMain ==
    ASSUME NEW r \in Requests, KeysInv, secretsStoredKeyCompleted(r)
    PROVE  MainStep(r)
<1> DEFINE w == m_pendingRequests[r].parameters
           q == request[r]
<1>1. Completed(r, {"getKey"})
  BY DEF secretsStoredKeyCompleted
<1>2. CASE storedKey2(r, w)
  <2>1. /\ TakesSignal(r) /\ m_cryptoApiHelperRequests[r].type = "getKey"
        /\ HelperFits(m_cryptoApiHelperRequests[r], q, w)
        /\ m_pendingRequests[r].type = q.op /\ Head(events).result \in Results
    <3>1. {"getKey"} \subseteq Helpers
      BY DEF Helpers
    <3> QED BY <1>1, <3>1, CompletedTakes
  <2>2. q.op = "storedKey" /\ Replies(r, Head(events).result, w[2])
    BY <1>2, <2>1 DEF storedKey2
  <2>3. w = <<q.name, q.parts>>
    <3>1. KeyRead(m_cryptoApiHelperRequests[r], q, w)
      BY <2>1, FitsType
    <3> QED BY <2>2, <3>1 DEF KeyRead, UseOps
  <2>4. w[2] = q.parts
    BY <2>3
  <2>5. q.parts \in Parts /\ q.op \notin StoreOps
    BY <2>2, EntriesBefore DEF RequestStates, StoreOps
  <2>6. ReplyFits(q, Head(events).result, w[2])
    BY <2>4, <2>5 DEF ReplyFits
  <2> QED BY <2>1, <2>2, <2>4, <2>5, <2>6, AnswerMain DEF Replies
<1>3. \A op \in UseOps : WithKey(r, op, w[UsePlugin(op)]) => MainStep(r)
  BY <1>1, WithKeyMain
<1>4. /\ UsePlugin("sign") = 5 /\ UsePlugin("verify") = 6
      /\ UsePlugin("encrypt") = 7 /\ UsePlugin("decrypt") = 8
  BY DEF UsePlugin
<1>5. CASE sign_withKey(r, w) \/ verify_withKey(r, w) \/ encrypt_withKey(r, w) \/ decrypt_withKey(r, w)
  <2> HIDE DEF w, q
  <2>1. \E op \in UseOps : WithKey(r, op, w[UsePlugin(op)])
    BY <1>4, <1>5 DEF sign_withKey, verify_withKey, encrypt_withKey, decrypt_withKey, UseOps
  <2> QED BY <1>3, <2>1
<1> QED BY <1>2, <1>5 DEF secretsStoredKeyCompleted

\* The key was checked: it is used by the plugin it is in.
LEMMA WithCollectionKeyMain ==
    ASSUME NEW r \in Requests, KeysInv, Completed(r, {"useKeyPreCheck"}), NEW op \in UseOps,
           WithCollectionKey(r, op, m_pendingRequests[r].parameters[UseGiven(op)],
                             m_pendingRequests[r].parameters[UsePlugin(op) + 1])
    PROVE  MainStep(r)
<1> DEFINE e == Head(events)
           h == m_cryptoApiHelperRequests[r]
           q == request[r]
           w == m_pendingRequests[r].parameters
           given == w[UseGiven(op)]
<1>1. /\ TakesSignal(r) /\ h.type = "useKeyPreCheck" /\ HelperFits(h, q, w)
      /\ m_pendingRequests[r].type = q.op /\ e.result \in Results /\ e.key \in CollectionKeys
  <2>1. {"useKeyPreCheck"} \subseteq Helpers
    BY DEF Helpers
  <2> QED BY <2>1, CompletedTakes
<1>2. m_pendingRequests[r].type = op
  BY DEF WithCollectionKey
<1>3. KeyChecked(h, q, w)
  BY <1>1, FitsType
<1>4. /\ q.op = op /\ InPlugin(q) /\ IsReference(op, q.parts)
      /\ w = CheckList(op, q.name, q.parts, q.plugin)
  BY <1>1, <1>2, <1>3 DEF KeyChecked
<1>5. given[1] = q.name /\ given[2] = q.parts /\ w[UsePlugin(op) + 1] = q.plugin
  <2> HIDE DEF e, h, q, w
  <2> QED BY <1>4, UseLists
<1>6. CASE e.result # "Succeeded" /\ Replies(r, e.result, "none")
  BY <1>1, <1>6, FailureMain
<1>7. CASE GoesOn(r, [NewJob(r, op, q.name, q.plugin, e.key) EXCEPT !.parts = q.parts])
  <2>1. PICK j : j = [NewJob(r, op, q.name, q.plugin, e.key) EXCEPT !.parts = q.parts]
    OBVIOUS
  <2>2. q.name \in Names /\ q.plugin \in CryptoPlugins /\ q.parts \in Parts
    BY <1>4, EntriesBefore DEF InPlugin, HasKey, RequestStates
  <2> HIDE DEF e, h, q, w
  <2>3. /\ j \in Job /\ j.request = r /\ j.job = op /\ j.name = q.name /\ j.plugin = q.plugin
        /\ j.stage = "queued" /\ j.wasLocked = FALSE /\ j.ui = FALSE /\ j.parts = q.parts
    BY <1>1, <2>1, <2>2 DEF NewJob, Job, Jobs
  <2>4. /\ op \notin Helpers \cup JobOps \cup {"importKey"} \cup StoreJobs \cup {"storedKey"}
    BY DEF JobOps, Helpers, Dialogs, UseOps, StoreJobs
  <2>5. Fits(j, q)
    BY <1>4, <2>2, <2>3, <2>4 DEF Fits, StoreJobs, JobOps
  <2>6. OnCollection(j) => Opens(j)
    BY <1>4, <2>3, <2>4 DEF Opens
  <2>7. JobFits(threadPoolForPlugin(j.plugin), j, q)
    BY <2>3, <2>4, <2>5, <2>6, QueuedJob
  <2>8. GoesOn(r, j)
    BY <1>7, <2>1
  <2> QED BY <1>1, <2>3, <2>4, <2>7, <2>8, GoesOnMain DEF q
<1> QED BY <1>5, <1>6, <1>7 DEF WithCollectionKey

\* secretsUseKeyPreCheckCompleted()
LEMMA KeyCheckedMain ==
    ASSUME NEW r \in Requests, KeysInv, secretsUseKeyPreCheckCompleted(r)
    PROVE  MainStep(r)
<1> DEFINE w == m_pendingRequests[r].parameters
<1>1. Completed(r, {"useKeyPreCheck"})
  BY DEF secretsUseKeyPreCheckCompleted
<1>2. \A op \in UseOps :
        WithCollectionKey(r, op, w[UseGiven(op)], w[UsePlugin(op) + 1]) => MainStep(r)
  BY <1>1, WithCollectionKeyMain
<1>3. /\ UsePlugin("sign") + 1 = 6 /\ UsePlugin("verify") + 1 = 7
      /\ UsePlugin("encrypt") + 1 = 8 /\ UsePlugin("decrypt") + 1 = 9
      /\ UseGiven("sign") = 2 /\ UseGiven("verify") = 3
      /\ UseGiven("encrypt") = 3 /\ UseGiven("decrypt") = 3
  BY DEF UsePlugin, UseGiven
<1>4. \/ sign_withCollectionKey(r, w) \/ verify_withCollectionKey(r, w)
      \/ encrypt_withCollectionKey(r, w) \/ decrypt_withCollectionKey(r, w)
  BY DEF secretsUseKeyPreCheckCompleted
<1> HIDE DEF w
<1>5. \E op \in UseOps : WithCollectionKey(r, op, w[UseGiven(op)], w[UsePlugin(op) + 1])
  BY <1>3, <1>4 DEF sign_withCollectionKey, verify_withCollectionKey, encrypt_withCollectionKey,
                    decrypt_withCollectionKey, UseOps
<1> QED BY <1>2, <1>5

\* The key is generated, in the plugin which keeps it or to be stored next.
LEMMA GenerateMain ==
    ASSUME NEW r \in Requests, KeysInv, TakesSignal(r), NEW n, NEW p, NEW key \in CollectionKeys,
           request[r].op = "generateStoredKey", HasKey(request[r]),
           n = request[r].name, p = request[r].plugin,
           generateStoredKey_withKdfData(r, n, p, key)
    PROVE  MainStep(r)
<1> DEFINE q == request[r]
           job == IF PluginOf[n] = p THEN "generateAndStoreKey" ELSE "generateKey"
<1>1. PICK j : j = NewJob(r, job, n, p, key)
  OBVIOUS
<1>2. n \in Names /\ p \in CryptoPlugins
  BY DEF HasKey
<1>3. /\ j \in Job /\ j.request = r /\ j.job = job /\ j.name = n /\ j.plugin = p
      /\ j.stage = "queued" /\ j.wasLocked = FALSE /\ j.ui = FALSE
  BY <1>1, <1>2 DEF NewJob, Job, Jobs, StoreJobs, JobOps, Parts
<1>4. Fits(j, q)
  BY <1>3 DEF Fits, JobOps, UseOps, Helpers, Dialogs, InPlugin, Elsewhere, HasKey
<1>5. job \notin Helpers /\ (OnCollection(j) => Opens(j))
  BY <1>3 DEF Helpers, Dialogs, Opens, UseOps
<1>6. JobFits(threadPoolForPlugin(j.plugin), j, q)
  BY <1>3, <1>4, <1>5, QueuedJob
<1>7. GoesOn(r, j)
  BY <1>1 DEF generateStoredKey_withKdfData
<1> HIDE DEF job
<1> QED BY <1>3, <1>5, <1>6, <1>7, GoesOnMain

\* The key is imported, in the plugin which keeps it or to be stored next.
LEMMA ImportMain ==
    ASSUME NEW r \in Requests, KeysInv, TakesSignal(r), NEW n, NEW p, NEW key \in CollectionKeys,
           NEW ui \in BOOLEAN, ui => request[r].ui,
           request[r].op = "importStoredKey", HasKey(request[r]),
           n = request[r].name, p = request[r].plugin,
           importStoredKey_withPassphrase(r, n, ui, p, key)
    PROVE  MainStep(r)
<1> DEFINE q == request[r]
           job == IF PluginOf[n] = p THEN "importAndStoreKey" ELSE "importKey"
<1>1. PICK j : j = [NewJob(r, job, n, p, key) EXCEPT !.ui = ui]
  OBVIOUS
<1>2. n \in Names /\ p \in CryptoPlugins
  BY DEF HasKey
<1>3. /\ j \in Job /\ j.request = r /\ j.job = job /\ j.name = n /\ j.plugin = p
      /\ j.stage = "queued" /\ j.wasLocked = FALSE /\ j.ui = ui
  BY <1>1, <1>2 DEF NewJob, Job, Jobs, StoreJobs, Parts
<1>4. Fits(j, q)
  BY <1>3 DEF Fits, JobOps, UseOps, Helpers, Dialogs, InPlugin, Elsewhere, HasKey
<1>5. job \notin Helpers /\ (OnCollection(j) => Opens(j))
  BY <1>3 DEF Helpers, Dialogs, Opens, UseOps
<1>6. JobFits(threadPoolForPlugin(j.plugin), j, q)
  BY <1>3, <1>4, <1>5, QueuedJob
<1>7. GoesOn(r, j)
  BY <1>1 DEF importStoredKey_withPassphrase
<1> HIDE DEF job
<1> QED BY <1>3, <1>5, <1>6, <1>7, GoesOnMain

\* secretsStoreKeyPreCheckCompleted()
LEMMA PreCheckedMain ==
    ASSUME NEW r \in Requests, KeysInv, secretsStoreKeyPreCheckCompleted(r)
    PROVE  MainStep(r)
<1> DEFINE e == Head(events)
           h == m_cryptoApiHelperRequests[r]
           q == request[r]
           w == m_pendingRequests[r].parameters
<1>1. /\ TakesSignal(r) /\ h.type = "storeKeyPreCheck" /\ HelperFits(h, q, w)
      /\ m_pendingRequests[r].type = q.op /\ e.result \in Results /\ e.key \in CollectionKeys
  <2>1. {"storeKeyPreCheck"} \subseteq Helpers
    BY DEF Helpers
  <2> QED BY <2>1, CompletedTakes DEF secretsStoreKeyPreCheckCompleted
<1>2. PreChecked(h, q, w)
  BY <1>1, FitsType
<1>3. HasKey(q) /\ q.ui \in BOOLEAN
  BY <1>2, EntriesBefore DEF PreChecked, RequestStates
<1>4. CASE q.op = "generateStoredKey" /\ generateStoredKey_afterPreCheck(r, w)
  <2>1. w = <<q.name, "kpg", "skdf", q.ui, "custom", q.plugin>>
    BY <1>2, <1>4 DEF PreChecked
  <2>2. /\ w[1] = q.name /\ w[2] = "kpg" /\ w[3] = "skdf" /\ w[4] = q.ui
        /\ w[5] = "custom" /\ w[6] = q.plugin
    BY <2>1
  <2>3. CASE e.result # "Succeeded" /\ Replies(r, e.result, "none")
    BY <1>1, <2>3, FailureMain
  <2>4. CASE generateStoredKey_withKdfData(r, w[1], w[6], e.key)
    <3> HIDE DEF e, h, w
    <3> QED BY <1>1, <1>3, <1>4, <2>2, <2>4, GenerateMain
  <2>5. CASE /\ promptForKeyPassphrase(r, w[1], <<w[1], w[2], w[3], w[5], w[6], e.key>>)
             /\ UNCHANGED pool
    <3> HIDE DEF e, h, q, w
    <3>1. PICK x : x = <<w[1], w[2], w[3], w[5], w[6], e.key>>
      OBVIOUS
    <3>2. x = <<q.name, "kpg", "skdf", "custom", q.plugin, e.key>>
      BY <2>2, <3>1
    <3>3. \A k : k.type = "userInput" /\ k.name = q.name => Prompted(k, q, x)
      BY <1>1, <1>3, <1>4, <3>2, Zenon DEF Prompted
    <3>4. \A k : k.type = "userInput" /\ k.name = q.name => HelperFits(k, q, x)
      BY <3>3 DEF HelperFits
    <3>5. promptForKeyPassphrase(r, q.name, x) /\ q.name \in Names \cup {Null}
      BY <1>3, <2>2, <2>5, <3>1 DEF HasKey
    <3> QED BY <1>1, <2>5, <3>4, <3>5, PromptMain DEF q
  <2> QED BY <1>4, <2>3, <2>4, <2>5 DEF generateStoredKey_afterPreCheck
<1>5. CASE q.op = "importStoredKey" /\ importStoredKey_afterPreCheck(r, w)
  <2>1. w = <<"data", q.name, q.ui, "custom", q.plugin>>
    BY <1>2, <1>5 DEF PreChecked
  <2>2. w[2] = q.name /\ w[3] = q.ui /\ w[5] = q.plugin
    BY <2>1
  <2>3. CASE e.result # "Succeeded" /\ Replies(r, e.result, "none")
    BY <1>1, <2>3, FailureMain
  <2>4. CASE importStoredKey_withPassphrase(r, w[2], w[3], w[5], e.key)
    <3> HIDE DEF e, h, w
    <3> QED BY <1>1, <1>3, <1>5, <2>2, <2>4, ImportMain
  <2> QED BY <1>5, <2>3, <2>4 DEF importStoredKey_afterPreCheck
<1> QED BY <1>1, <1>4, <1>5 DEF secretsStoreKeyPreCheckCompleted

\* secretsUserInputCompleted()
LEMMA PromptedMain ==
    ASSUME NEW r \in Requests, KeysInv, secretsUserInputCompleted(r)
    PROVE  MainStep(r)
<1> DEFINE e == Head(events)
           h == m_cryptoApiHelperRequests[r]
           q == request[r]
           w == m_pendingRequests[r].parameters
<1>1. /\ TakesSignal(r) /\ h.type = "userInput" /\ HelperFits(h, q, w)
      /\ m_pendingRequests[r].type = q.op /\ e.result \in Results
  <2>1. {"userInput"} \subseteq Helpers
    BY DEF Helpers, Dialogs
  <2> QED BY <2>1, CompletedTakes DEF secretsUserInputCompleted
<1>2. Prompted(h, q, w)
  BY <1>1, FitsType
<1>3. PICK key \in CollectionKeys, ui \in BOOLEAN :
         /\ ui => q.ui
         /\ \/ /\ q.op = "generateStoredKey" /\ HasKey(q)
               /\ w = <<q.name, "kpg", "skdf", "custom", q.plugin, key>>
            \/ /\ q.op = "importStoredKey" /\ HasKey(q)
               /\ w = <<"data", q.name, ui, "custom", q.plugin, key>>
            \/ /\ q.op = "importKey" /\ q.name = Null /\ q.plugin \in CryptoPlugins
               /\ w = <<"data", ui, "custom", q.plugin>>
  BY <1>2, Zenon DEF Prompted
<1>4. CASE e.result # "Succeeded" /\ Replies(r, e.result, "none")
  BY <1>1, <1>4, FailureMain
<1>5. CASE q.op = "generateStoredKey" /\ generateStoredKey_withInputData(r, w)
  <2>1. HasKey(q) /\ w = <<q.name, "kpg", "skdf", "custom", q.plugin, key>>
    BY <1>3, <1>5
  <2>2. w[1] = q.name /\ w[5] = q.plugin /\ w[6] = key
    BY <2>1
  <2>3. generateStoredKey_withKdfData(r, w[1], w[5], w[6])
    BY <1>5 DEF generateStoredKey_withInputData
  <2> HIDE DEF e, h, w
  <2> QED BY <1>1, <1>5, <2>1, <2>2, <2>3, GenerateMain
<1>6. CASE q.op = "importStoredKey" /\ importStoredKey_withPassphrase(r, w[2], w[3], w[5], w[6])
  <2>1. HasKey(q) /\ w = <<"data", q.name, ui, "custom", q.plugin, key>>
    BY <1>3, <1>6
  <2>2. w[2] = q.name /\ w[3] = ui /\ w[5] = q.plugin /\ w[6] = key
    BY <2>1
  <2> HIDE DEF e, h, w
  <2> QED BY <1>1, <1>3, <1>6, <2>1, <2>2, ImportMain
<1>7. CASE q.op = "importKey" /\ importKey_withPassphrase(r, w)
  <2>1. q.name = Null /\ q.plugin \in CryptoPlugins /\ w = <<"data", ui, "custom", q.plugin>>
    BY <1>3, <1>7
  <2>2. w[2] = ui /\ w[4] = q.plugin
    BY <2>1
  <2> HIDE DEF e, h, q, w
  <2>3. PICK j : j = [NewJob(r, "importKey", Null, q.plugin, "empty") EXCEPT !.ui = ui]
    OBVIOUS
  <2>4. /\ j \in Job /\ j.request = r /\ j.job = "importKey" /\ j.name = Null
        /\ j.plugin = q.plugin
        /\ j.stage = "queued" /\ j.wasLocked = FALSE /\ j.ui = ui
    BY <2>1, <2>3 DEF NewJob, Job, Jobs, Parts, CollectionKeys
  <2>5. "importKey" \notin Helpers \cup UseOps \cup JobOps
    BY DEF JobOps, Helpers, Dialogs, UseOps
  <2>6. Fits(j, q)
    BY <1>3, <1>7, <2>1, <2>4, <2>5 DEF Fits
  <2>7. ~OnCollection(j) /\ ~Opens(j)
    BY <2>4 DEF OnCollection, Opens
  <2>8. JobFits(threadPoolForPlugin(j.plugin), j, q)
    BY <2>4, <2>5, <2>6, <2>7, QueuedJob
  <2>9. GoesOn(r, j)
    BY <1>7, <2>2, <2>3 DEF importKey_withPassphrase
  <2> QED BY <1>1, <2>4, <2>5, <2>7, <2>8, <2>9, GoesOnMain DEF q
<1> QED BY <1>1, <1>4, <1>5, <1>6, <1>7 DEF secretsUserInputCompleted

\* secretsStoreKeyCompleted()
LEMMA KeyStoredMain ==
    ASSUME NEW r \in Requests, KeysInv, secretsStoreKeyCompleted(r)
    PROVE  MainStep(r)
<1> DEFINE e == Head(events)
           h == m_cryptoApiHelperRequests[r]
           q == request[r]
           w == m_pendingRequests[r].parameters
<1>1. /\ TakesSignal(r) /\ h.type = "setKey" /\ HelperFits(h, q, w)
      /\ e.result \in Results /\ (e.result = "Succeeded" => IsKept(r))
  <2>1. {"setKey"} \subseteq Helpers
    BY DEF Helpers
  <2> QED BY <2>1, CompletedTakes DEF secretsStoreKeyCompleted
<1>2. KeyStored(h, q, w)
  BY <1>1, FitsType
<1>3. Replies(r, e.result, WithoutSecrets(w[1][2]))
  BY DEF secretsStoreKeyCompleted, generateStoredKey_inStoragePlugin, importStoredKey_inStoragePlugin
<1>4. w[1][2] \in {"all", "none"} /\ q.op \in StoreOps
  <2>1. CASE q.op = "generateStoredKey" /\ w = << <<q.name, "all">> >>
    BY <2>1 DEF StoreOps
  <2>2. CASE q.op = "importStoredKey" /\ w = << <<q.name, "none">> >>
    BY <2>2 DEF StoreOps
  <2> QED BY <1>2, <2>1, <2>2 DEF KeyStored
<1>5. WithoutSecrets(w[1][2]) \in Parts /\ WithoutSecrets(w[1][2]) # "all" /\ q.op # "storedKey"
  BY <1>4 DEF WithoutSecrets, Parts, StoreOps
<1>6. ReplyFits(q, e.result, WithoutSecrets(w[1][2]))
  BY <1>5 DEF ReplyFits
<1> HIDE DEF e, h, w
<1> QED BY <1>1, <1>3, <1>5, <1>6, AnswerMain DEF Replies

\* The helpers whose result is the reply
LEMMA NothingNeededMain ==
    ASSUME NEW r \in Requests, KeysInv,
           \/ secretsDeleteStoredKeyCompleted(r) \/ secretsStoredKeyIdentifiersCompleted(r)
           \/ secretsCryptoPluginLockStatusRequestCompleted(r)
           \/ secretsCryptoPluginLockCodeRequestCompleted(r)
    PROVE  MainStep(r)
<1> DEFINE S == {"deleteKey", "keyIdentifiers", "lockStatus", "lockCode"}
           h == m_cryptoApiHelperRequests[r]
<1>1. PICK type \in S : Completed(r, {type}) /\ Replies(r, Head(events).result, "none")
  BY DEF secretsDeleteStoredKeyCompleted, secretsStoredKeyIdentifiersCompleted,
         secretsCryptoPluginLockStatusRequestCompleted, secretsCryptoPluginLockCodeRequestCompleted
<1>2. {type} \subseteq Helpers
  BY DEF Helpers, Dialogs
<1>3. /\ TakesSignal(r) /\ h.type = type /\ Head(events).result \in Results
      /\ HelperFits(h, request[r], m_pendingRequests[r].parameters)
  BY <1>1, <1>2, CompletedTakes
<1>4. NothingNeeded(h, request[r], m_pendingRequests[r].parameters)
  BY <1>3, FitsType
<1>5. request[r].op \notin StoreOps \cup {"storedKey"}
  BY <1>4 DEF NothingNeeded, StoreOps, LockOps
<1>6. "none" \in Parts
  BY DEF Parts
<1>7. ReplyFits(request[r], Head(events).result, "none")
  BY DEF ReplyFits
<1> QED BY <1>1, <1>3, <1>5, <1>6, <1>7, AnswerMain DEF Replies

\* A job has finished: no helper is at work for its request.
LEMMA FinishedTakes ==
    ASSUME NEW r \in Requests, KeysInv, NEW S, S \cap Helpers = {}, NEW stored,
           Finished(r, S, stored)
    PROVE  LET e == Head(events)
               q == request[r] IN
           /\ TakesSignal(r) /\ UNCHANGED pool
           /\ e.job \in S /\ (e.name # Null) = stored
           /\ Fits(e, q) /\ m_cryptoApiHelperRequests[r] = Null
           /\ e.plugin = q.plugin /\ q.plugin \in CryptoPlugins
           /\ e.result \in Results /\ e.key \in CollectionKeys /\ e.parts \in Parts
           /\ e.ui \in BOOLEAN /\ (e.ui => q.ui)
           /\ e.job \in StoreJobs /\ e.result = "Succeeded" => IsKept(r)
<1> DEFINE e == Head(events)
           q == request[r]
<1>1. /\ events # <<>> /\ e.request = r /\ e.job \in S /\ (e.name # Null) = stored
      /\ TakesSignal(r) /\ UNCHANGED pool
  BY DEF Finished, TakesSignal
<1>2. /\ e \in Signals /\ Fits(e, q) /\ e.result \in Results /\ e.key \in CollectionKeys
      /\ e.parts \in Parts
      /\ (e.job \notin Helpers => m_cryptoApiHelperRequests[r] = Null)
      /\ (e.job \in StoreJobs /\ e.result = "Succeeded" => IsKept(r))
  BY <1>1, SignalTaken
<1>3. e.job \notin Helpers
  BY <1>1
<1>4. /\ e.plugin = q.plugin /\ q.plugin \in CryptoPlugins
      /\ (e.ui => q.ui) /\ e.ui \in BOOLEAN
  <2> HIDE DEF e, q
  <2> QED BY <1>2, <1>3 DEF Fits, Signals
<1> QED BY <1>1, <1>2, <1>3, <1>4

\* The job's results are the reply.
LEMMA ResultMain ==
    ASSUME NEW r \in Requests, KeysInv, NEW S, S \cap Helpers = {}, NEW stored,
           Finished(r, S, stored), UNCHANGED waiting,
           NEW result \in Results, NEW reply \in Parts, Answer(r, result, reply),
           ReplyFits(request[r], result, reply),
           result = "Succeeded" /\ request[r].op \in StoreOps => IsKept(r)
    PROVE  MainStep(r)
<1>1. TakesSignal(r) /\ UNCHANGED pool /\ m_cryptoApiHelperRequests[r] = Null
  BY FinishedTakes
<1> QED BY <1>1, AnswerMain

\* Jobs without a stored key
LEMMA JobFinishedMain ==
    ASSUME NEW r \in Requests, KeysInv, JobFinished(r)
    PROVE  MainStep(r)
<1> DEFINE e == Head(events)
           q == request[r]
           reply == IF e.job = "generateKey" THEN "all" ELSE "none"
<1>1. Finished(r, JobOps, FALSE) /\ Answer(r, e.result, reply) /\ UNCHANGED waiting
  BY DEF JobFinished
<1>2. JobOps \cap Helpers = {}
  BY DEF JobOps, Helpers, Dialogs
<1>3. e.job \in JobOps /\ ~(e.name # Null) /\ Fits(e, q) /\ e.result \in Results
  BY <1>1, <1>2, FinishedTakes
<1>4. q.op = e.job
  <2> HIDE DEF e, q
  <2> QED BY <1>3, NamesAssumption DEF Fits, Elsewhere, HasKey
<1>5. q.op \notin StoreOps \cup {"storedKey"} /\ reply \in Parts
  BY <1>3, <1>4 DEF JobOps, StoreOps, Parts
<1>6. ReplyFits(q, e.result, reply)
  BY <1>5 DEF ReplyFits
<1> HIDE DEF reply
<1> QED BY <1>1, <1>2, <1>3, <1>5, <1>6, ResultMain

\* Jobs with a stored key
LEMMA KeyUsedMain ==
    ASSUME NEW r \in Requests, KeysInv, KeyUsed(r)
    PROVE  MainStep(r)
<1> DEFINE e == Head(events)
           q == request[r]
           reply == IF e.job = "storedKey" THEN e.parts ELSE "none"
           S == UseOps \cup {"storedKey"}
<1>1. Finished(r, S, TRUE) /\ Answer(r, e.result, reply) /\ UNCHANGED waiting
  BY DEF KeyUsed
<1>2. S \cap Helpers = {}
  BY DEF UseOps, Helpers, Dialogs
<1>3. e.job \in S /\ Fits(e, q) /\ e.result \in Results /\ e.parts \in Parts
  BY <1>1, <1>2, FinishedTakes
<1>4. q.op = e.job /\ (e.job = "storedKey" => e.parts = q.parts)
  <2> HIDE DEF e, q
  <2> QED BY <1>3 DEF Fits, UseOps
<1>5. /\ q.op \notin StoreOps /\ reply \in Parts /\ (q.op = "storedKey" => reply = q.parts)
  BY <1>3, <1>4 DEF UseOps, StoreOps, Parts
<1>6. ReplyFits(q, e.result, reply)
  BY <1>5 DEF ReplyFits
<1> HIDE DEF reply, S
<1> QED BY <1>1, <1>2, <1>3, <1>5, <1>6, ResultMain

\* The key was generated in the plugin which keeps it.
LEMMA GeneratedAndStoredMain ==
    ASSUME NEW r \in Requests, KeysInv, generateStoredKey_inCryptoPlugin(r)
    PROVE  MainStep(r)
<1> DEFINE e == Head(events)
           q == request[r]
           S == {"generateAndStoreKey"}
<1>1. Finished(r, S, TRUE) /\ Answer(r, e.result, "public") /\ UNCHANGED waiting
  BY DEF generateStoredKey_inCryptoPlugin, WithoutSecrets
<1>2. S \cap Helpers = {} /\ "public" \in Parts
  BY DEF Helpers, Dialogs, Parts
<1>3. /\ e.job \in S /\ Fits(e, q) /\ e.result \in Results
      /\ e.job \in StoreJobs /\ e.result = "Succeeded" => IsKept(r)
  BY <1>1, <1>2, FinishedTakes
<1>4. q.op = "generateStoredKey"
  BY <1>3 DEF Fits
<1>5. (e.result = "Succeeded" => IsKept(r)) /\ q.op # "storedKey"
  BY <1>3, <1>4 DEF StoreJobs
<1>6. ReplyFits(q, e.result, "public")
  BY <1>5 DEF ReplyFits
<1> HIDE DEF S
<1> QED BY <1>1, <1>2, <1>3, <1>5, <1>6, ResultMain

\* The key was generated for another plugin.
LEMMA KeyGeneratedMain ==
    ASSUME NEW r \in Requests, KeysInv, KeyGenerated(r)
    PROVE  MainStep(r)
<1> DEFINE e == Head(events)
           q == request[r]
           S == {"generateKey"}
<1>1. Finished(r, S, TRUE)
  BY DEF KeyGenerated
<1>2. S \cap Helpers = {} /\ "none" \in Parts /\ "Failed" \in Results
  BY DEF Helpers, Dialogs, Parts, Results
<1>3. /\ TakesSignal(r) /\ UNCHANGED pool /\ e.job \in S /\ e.name # Null /\ Fits(e, q)
  BY <1>1, <1>2, FinishedTakes
<1>4. q.op = "generateStoredKey" /\ e.name = q.name /\ Elsewhere(q)
  BY <1>3 DEF Fits
<1>5. CASE Answer(r, "Failed", "none") /\ UNCHANGED waiting
  <2>1. ReplyFits(q, "Failed", "none")
    BY DEF ReplyFits
  <2> HIDE DEF S
  <2> QED BY <1>1, <1>2, <1>5, <2>1, ResultMain
<1>6. CASE UNCHANGED request /\ Call(r, storeKey(e.name), << <<e.name, "all">> >>)
  <2>1. PICK h, w : h = Helper("setKey", e.name) /\ w = << <<e.name, "all">> >>
    OBVIOUS
  <2> HIDE DEF e, q, S
  <2>2. e.name \in Names \cup {Null}
    BY <1>4 DEF Elsewhere, HasKey
  <2>3. h \in HelperStates /\ h.type = "setKey" /\ h.name = e.name /\ h.running = FALSE
    BY <2>1, <2>2, HelperEntry DEF Helpers
  <2>4. KeyStored(h, q, w)
    BY <1>4, <2>1, <2>3 DEF KeyStored
  <2>5. HelperFits(h, q, w)
    BY <2>4 DEF HelperFits
  <2>6. Call(r, h, w)
    BY <1>6, <2>1 DEF storeKey
  <2> QED BY <1>3, <1>6, <2>3, <2>5, <2>6, CallMain DEF q
<1> QED BY <1>5, <1>6 DEF KeyGenerated

\* importKey(): the passphrase may be asked for.
LEMMA KeyImportedMain ==
    ASSUME NEW r \in Requests, KeysInv, KeyImported(r)
    PROVE  MainStep(r)
<1> DEFINE e == Head(events)
           q == request[r]
           S == {"importKey"}
<1>1. Finished(r, S, FALSE)
  BY DEF KeyImported
<1>2. S \cap Helpers = {} /\ "all" \in Parts
  BY DEF Helpers, Dialogs, Parts
<1>3. /\ TakesSignal(r) /\ UNCHANGED pool /\ e.job \in S /\ ~(e.name # Null) /\ Fits(e, q)
      /\ e.plugin = q.plugin /\ q.plugin \in CryptoPlugins /\ e.result \in Results
      /\ e.ui \in BOOLEAN /\ (e.ui => q.ui)
  BY <1>1, <1>2, FinishedTakes
<1>4. q.op = "importKey" /\ q.name = Null
  BY <1>3, NamesAssumption DEF Fits, Elsewhere, HasKey
<1>5. CASE promptForKeyPassphrase(r, Null, <<"data", e.ui, "custom", e.plugin>>)
  <2>1. PICK w : w = <<"data", e.ui, "custom", e.plugin>>
    OBVIOUS
  <2> HIDE DEF e, q, S
  <2>2. w = <<"data", e.ui, "custom", q.plugin>> /\ "empty" \in CollectionKeys
    BY <1>3, <2>1 DEF CollectionKeys
  <2>3. \A h : h.type = "userInput" /\ h.name = Null => Prompted(h, q, w)
    BY <1>3, <1>4, <2>2, Zenon DEF Prompted
  <2>4. \A h : h.type = "userInput" /\ h.name = Null => HelperFits(h, q, w)
    BY <2>3 DEF HelperFits
  <2>5. promptForKeyPassphrase(r, Null, w)
    BY <1>5, <2>1
  <2> QED BY <1>3, <2>4, <2>5, PromptMain DEF q
<1>6. CASE Answer(r, e.result, "all") /\ UNCHANGED waiting
  <2>1. q.op \notin StoreOps \cup {"storedKey"}
    BY <1>4 DEF StoreOps
  <2>2. ReplyFits(q, e.result, "all")
    BY <2>1 DEF ReplyFits
  <2> HIDE DEF S
  <2> QED BY <1>1, <1>2, <1>3, <1>6, <2>1, <2>2, ResultMain
<1> QED BY <1>5, <1>6 DEF KeyImported

\* importStoredKey() in the plugin which keeps the key
LEMMA KeyImportedAndStoredMain ==
    ASSUME NEW r \in Requests, KeysInv, KeyImportedAndStored(r)
    PROVE  MainStep(r)
<1> DEFINE e == Head(events)
           q == request[r]
           S == {"importAndStoreKey"}
<1>1. Finished(r, S, TRUE)
  BY DEF KeyImportedAndStored
<1>2. S \cap Helpers = {} /\ "public" \in Parts
  BY DEF Helpers, Dialogs, Parts
<1>3. /\ TakesSignal(r) /\ UNCHANGED pool /\ e.job \in S /\ Fits(e, q)
      /\ e.plugin = q.plugin /\ e.result \in Results /\ e.key \in CollectionKeys
      /\ e.ui \in BOOLEAN /\ (e.ui => q.ui)
      /\ e.job \in StoreJobs /\ e.result = "Succeeded" => IsKept(r)
  BY <1>1, <1>2, FinishedTakes
<1>4. q.op = "importStoredKey" /\ e.name = q.name /\ InPlugin(q)
  BY <1>3 DEF Fits
<1>5. CASE promptForKeyPassphrase(r, e.name, <<"data", e.name, e.ui, "custom", e.plugin, e.key>>)
  <2>1. PICK w : w = <<"data", e.name, e.ui, "custom", e.plugin, e.key>>
    OBVIOUS
  <2> HIDE DEF e, q, S
  <2>2. w = <<"data", q.name, e.ui, "custom", q.plugin, e.key>> /\ HasKey(q)
    BY <1>3, <1>4, <2>1 DEF InPlugin
  <2>3. \A h : h.type = "userInput" /\ h.name = q.name => Prompted(h, q, w)
    BY <1>3, <1>4, <2>2, Zenon DEF Prompted
  <2>4. \A h : h.type = "userInput" /\ h.name = q.name => HelperFits(h, q, w)
    BY <2>3 DEF HelperFits
  <2>5. promptForKeyPassphrase(r, q.name, w) /\ q.name \in Names \cup {Null}
    BY <1>4, <1>5, <2>1, <2>2 DEF HasKey
  <2> QED BY <1>3, <2>4, <2>5, PromptMain DEF q
<1>6. CASE Answer(r, e.result, WithoutSecrets("all")) /\ UNCHANGED waiting
  <2>1. (e.result = "Succeeded" => IsKept(r)) /\ q.op # "storedKey"
    BY <1>3, <1>4 DEF StoreJobs
  <2>2. Answer(r, e.result, "public")
    BY <1>6 DEF WithoutSecrets
  <2>3. ReplyFits(q, e.result, "public")
    BY <2>1 DEF ReplyFits
  <2> HIDE DEF S
  <2> QED BY <1>1, <1>2, <1>3, <1>6, <2>1, <2>2, <2>3, ResultMain
<1> QED BY <1>5, <1>6 DEF KeyImportedAndStored

\* importStoredKey() for another plugin: nobody is asked for a passphrase.
LEMMA KeyImportedToStoreMain ==
    ASSUME NEW r \in Requests, KeysInv, KeyImportedToStore(r)
    PROVE  MainStep(r)
<1> DEFINE e == Head(events)
           q == request[r]
           S == {"importKey"}
           x == [type |-> "importStoredKey",
                 parameters |-> <<"data", e.name, e.ui, "custom", e.plugin, e.key>>]
           reply == IF e.result = "Succeeded" THEN "all" ELSE "none"
<1>1. Finished(r, S, TRUE)
  BY DEF KeyImportedToStore
<1>2. S \cap Helpers = {} /\ reply \in Parts /\ "Failed" \in Results
  BY DEF Helpers, Dialogs, Parts, Results
<1>3. /\ TakesSignal(r) /\ UNCHANGED pool /\ e.job \in S /\ e.name # Null /\ Fits(e, q)
      /\ m_cryptoApiHelperRequests[r] = Null
      /\ e.ui \in BOOLEAN /\ (e.ui => q.ui)
  BY <1>1, <1>2, FinishedTakes
<1>4. q.op = "importStoredKey" /\ e.name = q.name /\ Elsewhere(q)
  BY <1>3 DEF Fits
<1>5. CASE /\ WantsPassphrase(e)
           /\ m_pendingRequests' = [m_pendingRequests EXCEPT ![r] = x]
           /\ UNCHANGED <<request, m_cryptoApiHelperRequests>>
  <2>1. /\ request \in [Requests -> RequestStates]
        /\ m_cryptoApiHelperRequests \in [Requests -> HelperStates \cup {Null}]
        /\ m_pendingRequests = [s \in Requests |-> m_pendingRequests[s]]
    BY EntriesBefore
  <2>2. x.type = "importStoredKey" /\ Len(x.parameters) = 6
    BY DEF x
  <2>3. q.op # "none" /\ q.result = "none"
    BY <1>3, SignalTaken DEF TakesSignal
  <2> HIDE DEF x
  <2>4. /\ m_pendingRequests'[r] = x
        /\ m_pendingRequests' = [s \in Requests |-> m_pendingRequests'[s]]
        /\ \A s \in Requests : s # r => m_pendingRequests'[s] = m_pendingRequests[s]
    BY <1>5, <2>1
  <2>5. OthersKept(r)
    BY <1>5, <2>1, <2>4 DEF OthersKept
  <2>6. Source(r)
    BY <1>3, <1>5 DEF Source, SameRequest, TakesSignal
  <2>7. Forgotten(q)
    BY <1>3, <1>4, <1>5 DEF Forgotten, WantsPassphrase
  <2>8. Dropped(r)
    BY <1>3, <1>5, <2>3, <2>7 DEF Dropped
  <2>9. ListBound(m_pendingRequests'[r])
    <3>1. "importStoredKey" \in Ops
      BY DEF Ops, StoreOps
    <3>2. \A n \in {6} : n <= 9
      OBVIOUS
    <3>3. Len(x.parameters) <= 9
      BY <2>2, <3>2, Zenon
    <3> QED BY <2>2, <2>4, <3>1, <3>3 DEF ListBound
  <2> QED BY <1>3, <1>5, <2>3, <2>5, <2>6, <2>8, <2>9 DEF MainStep, TakesSignal
<1>6. CASE UNCHANGED request /\ Call(r, storeKey(Null), << <<e.name, "none">> >>)
  <2>1. PICK h, w : h = Helper("setKey", Null) /\ w = << <<e.name, "none">> >>
    OBVIOUS
  <2> HIDE DEF e, q, S, x
  <2>2. h \in HelperStates /\ h.type = "setKey" /\ h.name = Null /\ h.running = FALSE
    BY <2>1, HelperEntry DEF Helpers
  <2>3. KeyStored(h, q, w)
    BY <1>4, <2>1, <2>2 DEF KeyStored
  <2>4. HelperFits(h, q, w)
    BY <2>3 DEF HelperFits
  <2>5. Call(r, h, w)
    BY <1>6, <2>1 DEF storeKey
  <2> QED BY <1>3, <1>6, <2>2, <2>4, <2>5, CallMain DEF q
<1>7. CASE Answer(r, "Failed", reply) /\ UNCHANGED waiting
  <2>1. ReplyFits(q, "Failed", reply)
    BY <1>4 DEF ReplyFits
  <2> HIDE DEF S, reply
  <2> QED BY <1>1, <1>2, <1>7, <2>1, ResultMain
<1> QED BY <1>5, <1>6, <1>7 DEF KeyImportedToStore

\* Every continuation is a step of the main thread.
LEMMA CompletionMain ==
    ASSUME NEW r \in Requests, KeysInv, Completion(r)
    PROVE  MainStep(r)
BY KeyReadMain, KeyCheckedMain, PreCheckedMain, KeyStoredMain, NothingNeededMain, PromptedMain,
   JobFinishedMain, KeyUsedMain, GeneratedAndStoredMain, KeyGeneratedMain, KeyImportedMain,
   KeyImportedAndStoredMain, KeyImportedToStoreMain, Zenon DEF Completion

-----------------------------------------------------------------------------
(* The invariant and what follows from it *)

\* The invariant holds when the daemon has started.
LEMMA KeysInvInit ==
    ASSUME Init
    PROVE  KeysInv
<1> USE DEF Init
<1>1. /\ Blank \in RequestStates /\ Blank.op = "none" /\ Blank.result = "none"
      /\ Blank.reply = "none"
  BY DEF Blank, RequestStates, Parts
<1>2. /\ <<>> \in Seq(Job) /\ <<>> \in Seq(Signals) /\ Distinct(<<>>)
      /\ Elements(<<>>) = {} /\ RequestsOf(<<>>) = {} /\ Behind(<<>>) = {}
  BY EmptySeq DEF Distinct, Elements, RequestsOf, Behind
<1>3. /\ \A p \in Pools : pool[p] = <<>>
      /\ "secrets" \in Pools /\ "crypto" \in Pools
      /\ \A r \in Requests : /\ request[r] = Blank /\ m_cryptoApiHelperRequests[r] = Null
                             /\ m_pendingRequests[r] = Null
  BY DEF Pools
<1>4. Typed
  <2>1. keys \in [Names -> Requests \cup {Old, Null}]
    OBVIOUS
  <2> QED BY <1>1, <1>2, <1>3, <2>1 DEF Typed
<1>5. Driven
  BY <1>1, <1>2, <1>3 DEF Driven, DrivenBy
<1>6. Arguments
  BY <1>2, <1>3 DEF Arguments
<1>7. OneOpens
  BY <1>2, <1>3 DEF OneOpens, OpenOnlyInUse, OpenedBy
<1>8. Kept /\ Shown
  BY <1>1, <1>2, <1>3 DEF Kept, Shown, ReplyFits, StoreOps
<1>9. Owned
  BY RequestsAssumption DEF Owned
<1> QED BY <1>4, <1>5, <1>6, <1>7, <1>8, <1>9 DEF KeysInv

\* The invariant is inductive.
LEMMA KeysInvNext ==
    ASSUME KeysInv, [Next]_vars
    PROVE  KeysInv'
<1>1. CASE UNCHANGED vars
  <2>1. /\ keys' = keys /\ keep' = keep /\ locked' = locked /\ leftOpen' = leftOpen
        /\ request' = request
        /\ m_pendingRequests' = m_pendingRequests
        /\ m_cryptoApiHelperRequests' = m_cryptoApiHelperRequests
        /\ pool' = pool /\ events' = events
    BY <1>1 DEF vars
  <2>2. \A x : Helped(x)' <=> Helped(x)
    BY <2>1 DEF Helped
  <2>3. \A r : IsKept(r)' <=> IsKept(r)
    BY <2>1 DEF IsKept
  <2>4. \A p : OpenedBy(p)' <=> OpenedBy(p)
    BY <2>1 DEF OpenedBy
  <2>5. Typed'
    BY <2>1 DEF KeysInv, Typed
  <2>6. Driven'
    BY <2>1 DEF KeysInv, Driven
  <2>7. Arguments'
    BY <2>1, <2>2 DEF KeysInv, Arguments
  <2>8. OneOpens'
    BY <2>1, <2>4 DEF KeysInv, OneOpens, OpenOnlyInUse
  <2>9. Kept' /\ Owned' /\ Shown'
    BY <2>1, <2>3 DEF KeysInv, Kept, Owned, Shown
  <2> QED BY <2>5, <2>6, <2>7, <2>8, <2>9 DEF KeysInv
<1>2. ASSUME NEW r \in Requests, Arrival(r) \/ Completion(r) PROVE KeysInv'
  BY <1>2, ArrivalMain, CompletionMain, MainStepInv
<1>3. ASSUME NEW r \in Requests, NEW result \in Results \ {"IncorrectPassphrase"},
             HelperEnds(r, result)
      PROVE  KeysInv'
  BY <1>3, HelperEndsInv
<1>4. ASSUME NEW r \in Requests, NEW key \in CollectionKeys, HelperRuns(r, key) PROVE KeysInv'
  BY <1>4, HelperRunsInv
<1>5. ASSUME NEW p \in Pools, UnlockCollection(p) PROVE KeysInv'
  BY <1>5, UnlockInv
<1>6. ASSUME NEW p \in Pools, NEW result \in Results, RunJob(p, result) PROVE KeysInv'
  BY <1>6, RunJobInv
<1> QED BY <1>1, <1>2, <1>3, <1>4, <1>5, <1>6 DEF Next

\* The invariant holds in every state of every behaviour.
THEOREM KeysInvAlways == Spec => []KeysInv
BY KeysInvInit, KeysInvNext, PTL DEF Spec

\* A list without repetitions is not longer than the number of requests.
LEMMA LengthBound ==
    ASSUME NEW S, NEW s \in Seq(S), Distinct(s), \A x \in S : x.request \in Requests
    PROVE  Len(s) <= Cardinality(Requests)
<1> DEFINE f == [i \in 1 .. Len(s) |-> s[i].request]
<1>1. Len(s) \in Nat /\ \A i \in 1 .. Len(s) : s[i] \in S
  BY LenProperties, ElementOfSeq
<1>2. f \in [1 .. Len(s) -> Requests]
  BY <1>1
<1>3. f \in Injection(1 .. Len(s), Requests)
  BY <1>2 DEF Injection, IsInjective, Distinct
<1> HIDE DEF f
<1>4. Cardinality(1 .. Len(s)) <= Cardinality(Requests)
  BY <1>3, FS_Injection, RequestsAssumption
<1>5. Cardinality(1 .. Len(s)) = Len(s)
  BY <1>1, FS_Interval
<1> QED BY <1>4, <1>5

\* Every variable keeps its type: no request has two jobs or two signals, and
\* no parameter list is longer than the continuations expect.
THEOREM TypeCorrect == Spec => []TypeOK
<1>1. KeysInv => TypeOK
  <2> SUFFICES ASSUME KeysInv PROVE TypeOK
    OBVIOUS
  <2>1. Typed /\ Arguments
    BY DEF KeysInv
  <2>2. (\A x \in Job : x.request \in Requests) /\ (\A x \in Signals : x.request \in Requests)
    BY DEF Job, Signals
  <2>3. ASSUME NEW p \in Pools
        PROVE  /\ Len(pool[p]) <= Cardinality(Requests)
               /\ \A i \in 1 .. Len(pool[p]) : pool[p][i] \in Job
    <3>1. pool[p] \in Seq(Job) /\ Distinct(pool[p])
      BY <2>1 DEF Typed
    <3> QED BY <2>2, <3>1, LengthBound, ElementOfSeq
  <2>4. Len(events) <= Cardinality(Requests)
    <3>1. events \in Seq(Signals) /\ Distinct(events)
      BY <2>1 DEF Typed
    <3> QED BY <2>2, <3>1, LengthBound
  <2>5. ASSUME NEW r \in Requests
        PROVE  /\ \/ m_pendingRequests[r] = Null
                  \/ /\ m_pendingRequests[r].type \in Ops
                     /\ Len(m_pendingRequests[r].parameters) <= 9
               /\ \/ m_cryptoApiHelperRequests[r] = Null
                  \/ m_cryptoApiHelperRequests[r] \in HelperStates
    BY <2>1 DEF Arguments, Typed
  <2> QED BY <2>1, <2>3, <2>4, <2>5 DEF Typed, TypeOK, RequestStates, HelperStates
<1> QED BY <1>1, KeysInvAlways, PTL

\* A request has one place in a list it is in.
LEMMA OnePlace ==
    ASSUME NEW S, NEW s \in Seq(S), Distinct(s), NEW r
    PROVE  LET D == {i \in 1 .. Len(s) : s[i].request = r} IN
           Cardinality(D) = IF r \in RequestsOf(s) THEN 1 ELSE 0
<1> DEFINE D == {i \in 1 .. Len(s) : s[i].request = r}
<1>1. CASE r \in RequestsOf(s)
  <2>1. PICK i \in 1 .. Len(s) : s[i].request = r
    BY <1>1 DEF RequestsOf
  <2>2. D = {i}
    BY <2>1 DEF Distinct
  <2> QED BY <1>1, <2>2, FS_Singleton
<1>2. CASE r \notin RequestsOf(s)
  <2>1. D = {}
    BY <1>2 DEF RequestsOf
  <2> QED BY <1>2, <2>1, FS_EmptySet
<1> QED BY <1>1, <1>2

\* The places of request r in the pools P, each with at most n jobs
Places(P, n, r) ==
    {d \in Pools \X (1 .. n) : d[2] <= Len(P[d[1]]) /\ P[d[1]][d[2]].request = r}

\* A request has one place in the pools when it is in one of them.
LEMMA OnePoolPlace ==
    ASSUME NEW P, NEW n \in Nat, NEW r,
           \A p \in Pools : Distinct(P[p]) /\ Len(P[p]) \in Nat /\ Len(P[p]) <= n,
           ~(r \in RequestsOf(P["secrets"]) /\ r \in RequestsOf(P["crypto"]))
    PROVE  Cardinality(Places(P, n, r)) =
             IF r \in RequestsOf(P["secrets"]) \cup RequestsOf(P["crypto"]) THEN 1 ELSE 0
<1> DEFINE D == Places(P, n, r)
<1>0. Pools = {"secrets", "crypto"}
  BY DEF Pools
<1>1. ASSUME NEW d \in D
      PROVE  /\ d = <<d[1], d[2]>> /\ d[1] \in Pools /\ d[2] \in 1 .. Len(P[d[1]])
             /\ P[d[1]][d[2]].request = r /\ r \in RequestsOf(P[d[1]])
  <2>1. d \in Pools \X (1 .. n) /\ d[2] <= Len(P[d[1]]) /\ P[d[1]][d[2]].request = r
    BY DEF Places
  <2>2. d = <<d[1], d[2]>> /\ d[1] \in Pools /\ d[2] \in 1 .. n
    BY <2>1
  <2>3. d[2] \in 1 .. Len(P[d[1]])
    BY <2>1, <2>2
  <2> QED BY <2>1, <2>2, <2>3 DEF RequestsOf
<1>2. ASSUME NEW p \in Pools, r \in RequestsOf(P[p])
      PROVE  \E d : D = {d}
  <2>1. PICK i \in 1 .. Len(P[p]) : P[p][i].request = r
    BY <1>2 DEF RequestsOf
  <2>2. i \in 1 .. n
    BY <1>2
  <2>3. <<p, i>> \in D
    BY <2>1, <2>2 DEF Places
  <2>4. ASSUME NEW d \in D PROVE d = <<p, i>>
    <3>1. /\ d = <<d[1], d[2]>> /\ d[1] \in Pools /\ d[2] \in 1 .. Len(P[d[1]])
          /\ P[d[1]][d[2]].request = r /\ r \in RequestsOf(P[d[1]])
      BY <1>1
    <3>2. d[1] = p
      BY <1>0, <1>2, <3>1
    <3>3. d[2] = i
      BY <2>1, <3>1, <3>2 DEF Distinct
    <3> QED BY <3>1, <3>2, <3>3
  <2> HIDE DEF D
  <2>5. D = {<<p, i>>}
    BY <2>3, <2>4
  <2> QED BY <2>5
<1>3. CASE r \in RequestsOf(P["secrets"]) \cup RequestsOf(P["crypto"])
  <2>1. PICK d : D = {d}
    BY <1>0, <1>2, <1>3
  <2> HIDE DEF D
  <2>2. Cardinality(D) = 1
    BY <2>1, FS_Singleton
  <2> QED BY <1>3, <2>2 DEF D
<1>4. CASE r \notin RequestsOf(P["secrets"]) \cup RequestsOf(P["crypto"])
  <2>1. D = {}
    BY <1>0, <1>1, <1>4
  <2> HIDE DEF D
  <2>2. Cardinality(D) = 0
    BY <2>1, FS_EmptySet
  <2> QED BY <1>4, <2>2 DEF D
<1> QED BY <1>3, <1>4

\* A request is driven by exactly one job, signal or queued helper until it is
\* answered and by none afterwards, and a helper which completes finds the
\* parameters of its request (cryptorequestprocessor.cpp: m_pendingRequests).
THEOREM AlwaysOneDriver == Spec => []OneDriver
<1>1. KeysInv => OneDriver
  <2> SUFFICES ASSUME KeysInv PROVE OneDriver
    OBVIOUS
  <2>1. Typed /\ Driven /\ Arguments
    BY DEF KeysInv
  <2>2. (\A x \in Job : x.request \in Requests) /\ (\A x \in Signals : x.request \in Requests)
    BY DEF Job, Signals
  <2>3. Cardinality(Requests) \in Nat
    BY RequestsAssumption, FS_CardinalityType
  <2>4. \A p \in Pools : /\ Distinct(pool[p]) /\ Len(pool[p]) \in Nat
                          /\ Len(pool[p]) <= Cardinality(Requests)
    <3> SUFFICES ASSUME NEW p \in Pools
                 PROVE  /\ Distinct(pool[p]) /\ Len(pool[p]) \in Nat
                        /\ Len(pool[p]) <= Cardinality(Requests)
      OBVIOUS
    <3>1. pool[p] \in Seq(Job) /\ Distinct(pool[p])
      BY <2>1 DEF Typed
    <3> QED BY <2>2, <3>1, LengthBound, LenProperties
  <2>5. events \in Seq(Signals) /\ Distinct(events)
    BY <2>1 DEF Typed
  <2>6. ASSUME NEW r \in Requests
        PROVE  \/ Drivers(r) = IF Working(r) THEN 1 ELSE 0
               \/ /\ Working(r) /\ request[r].op = "importStoredKey"
                  /\ request[r].ui /\ ~InOwnPlugin(r) /\ Drivers(r) = 0
    <3> DEFINE jobs == Cardinality({d \in Pools \X (1 .. Cardinality(Requests)) :
                         d[2] <= Len(pool[d[1]]) /\ pool[d[1]][d[2]].request = r})
               signals == Cardinality({i \in 1 .. Len(events) : events[i].request = r})
               queued == IF Queued(r) THEN 1 ELSE 0
    <3>1. DrivenBy(r, request[r], RequestsOf(pool["secrets"]), RequestsOf(pool["crypto"]),
                   RequestsOf(events), m_cryptoApiHelperRequests[r])
      BY <2>1 DEF Driven
    <3>2. jobs = IF r \in RequestsOf(pool["secrets"]) \cup RequestsOf(pool["crypto"])
                 THEN 1 ELSE 0
      <4>1. ~(r \in RequestsOf(pool["secrets"]) /\ r \in RequestsOf(pool["crypto"]))
        BY <3>1 DEF DrivenBy
      <4>2. PICK n \in Nat : n = Cardinality(Requests)
        BY <2>3
      <4>3. \A p \in Pools : Distinct(pool[p]) /\ Len(pool[p]) \in Nat /\ Len(pool[p]) <= n
        BY <2>4, <4>2
      <4>4. Cardinality(Places(pool, n, r)) =
              IF r \in RequestsOf(pool["secrets"]) \cup RequestsOf(pool["crypto"]) THEN 1 ELSE 0
        BY <4>1, <4>3, OnePoolPlace
      <4> QED BY <4>2, <4>4 DEF Places
    <3>3. signals = IF r \in RequestsOf(events) THEN 1 ELSE 0
      BY <2>5, OnePlace
    <3>4. Drivers(r) = jobs + signals + queued
      BY DEF Drivers
    <3> HIDE DEF jobs, signals
    <3>5. Drivers(r) = 1 \/ (Drivers(r) = 0 /\ Working(r) => Forgotten(request[r]))
      BY <3>1, <3>2, <3>3, <3>4 DEF DrivenBy, Queued, Working
    <3>6. Drivers(r) \in {0, 1} /\ (Drivers(r) = 1 => Working(r))
      BY <3>1, <3>2, <3>3, <3>4 DEF DrivenBy, Queued, Working
    <3>7. Forgotten(request[r]) =>
            request[r].op = "importStoredKey" /\ request[r].ui /\ ~InOwnPlugin(r)
      BY DEF Forgotten, Elsewhere, InOwnPlugin
    <3> QED BY <3>5, <3>6, <3>7
  <2>7. ASSUME NEW i \in 1 .. Len(events), events[i].job \in Helpers
        PROVE  /\ m_cryptoApiHelperRequests[events[i].request].type = events[i].job
               /\ m_pendingRequests[events[i].request].type = request[events[i].request].op
    <3>1. events[i] \in Elements(events)
      BY DEF Elements
    <3>2. events[i] \in Signals /\ events[i].request \in Requests
      BY <2>2, <2>5, ElementOfSeq
    <3>3. HelpedBy(events[i], m_cryptoApiHelperRequests[events[i].request])
      BY <2>1, <3>1 DEF Arguments, Helped
    <3>4. /\ m_cryptoApiHelperRequests[events[i].request] # Null
          /\ m_cryptoApiHelperRequests[events[i].request].type = events[i].job
      BY <2>7, <3>3 DEF HelpedBy
    <3> QED BY <2>1, <3>2, <3>4 DEF Arguments
  <2> QED BY <2>6, <2>7 DEF OneDriver
<1> QED BY <1>1, KeysInvAlways, PTL

\* Each job works on the key and with the plugin its client named
\* (cryptorequestprocessor.cpp: lists of parameters taken by position).
THEOREM AlwaysOwnArguments == Spec => []OwnArguments
<1>1. KeysInv => OwnArguments
  <2> SUFFICES ASSUME KeysInv, NEW p \in Pools, NEW i \in 1 .. Len(pool[p])
               PROVE  LET j == pool[p][i]
                          q == request[j.request] IN
                      /\ j.job \notin JobOps \cup {"importKey"} => j.name = q.name
                      /\ j.job \notin Helpers => j.plugin = q.plugin
                      /\ j.job \in UseOps => j.job = q.op
    BY DEF OwnArguments
  <2> DEFINE j == pool[p][i]
             q == request[j.request]
             h == m_cryptoApiHelperRequests[j.request]
             w == m_pendingRequests[j.request].parameters
  <2>1. j \in Elements(pool[p])
    BY DEF Elements
  <2>2. JobFits(p, j, q) /\ HelpedBy(j, h)
    BY <2>1 DEF KeysInv, Arguments, Helped
  <2>3. j \in Job /\ j.request \in Requests
    <3>1. pool[p] \in Seq(Job)
      BY DEF KeysInv, Typed
    <3>2. j \in Job
      BY <3>1, ElementOfSeq
    <3> HIDE DEF j
    <3> QED BY <3>2 DEF Job
  <2>4. h # Null => HelperFits(h, q, w)
    BY <2>3 DEF KeysInv, Arguments
  <2> HIDE DEF j, q, h, w
  <2>5. Fits(j, q) /\ (j.job \in Helpers => j.name \in Names)
    BY <2>2 DEF JobFits
  <2>6. j.job \notin Helpers => j.plugin = q.plugin
    BY <2>5 DEF Fits
  <2>7. j.job \in UseOps => j.job = q.op
    BY <2>5 DEF Fits
  <2>8. CASE j.job \in Helpers
    <3>1. HelperFits(h, q, w) /\ h.name = j.name /\ j.name # Null
      BY <2>2, <2>4, <2>5, <2>8, NamesAssumption DEF HelpedBy
    <3>2. h.name = q.name
      BY <3>1 DEF HelperFits, PreChecked, Prompted, KeyRead, KeyChecked, KeyStored, NothingNeeded
    <3> QED BY <2>6, <2>7, <3>1, <3>2 DEF j, q
  <2>9. CASE j.job \notin Helpers
    <3>1. j.job \notin JobOps \cup {"importKey"} => j.name = q.name
      BY <2>3, <2>5, <2>9 DEF Job, Jobs, Fits, StoreJobs
    <3> QED BY <2>6, <2>7, <3>1 DEF j, q
  <2> QED BY <2>8, <2>9
<1> QED BY <1>1, KeysInvAlways, PTL

\* A job that has opened the collection finds it open, and one that is to be
\* relocked is open only while the job that unlocked it runs: a plugin which
\* stores and uses keys has one thread (controller.cpp:124).  The exception is
\* a failed keyIdentifiers job (pluginfunctionwrappers.cpp:354-358, 398-416).
THEOREM AlwaysOpenOnlyInUse == Spec => []OpenOnlyInUse
<1>1. KeysInv => OpenOnlyInUse
  BY DEF KeysInv, OneOpens
<1> QED BY <1>1, KeysInvAlways, PTL

\* A key whose client was told Succeeded is there, unless another request
\* deleted it: every wrapper looks once more whether the name is free
\* (cryptopluginwrapper.cpp prepareToStoreKey, pluginwrapper.cpp setSecret).
THEOREM AlwaysStoredIsKept == Spec => []StoredIsKept
<1>1. KeysInv => StoredIsKept
  BY DEF KeysInv, Kept, IsKept, StoredIsKept
<1> QED BY <1>1, KeysInvAlways, PTL

\* The secret parts of a key are only sent to a client that asks for them with
\* storedKey, also when the request fails; a key imported for another plugin
\* that is sent back with the error (cryptorequestprocessor.cpp:1060) is not
\* stored.
THEOREM SecretsAlwaysStay == Spec => []SecretsStay
<1>1. KeysInv => SecretsStay
  <2> SUFFICES ASSUME KeysInv, NEW r \in Requests
               PROVE  /\ request[r].op \in StoreOps /\ request[r].reply = "all" =>
                           /\ request[r].op = "importStoredKey" /\ request[r].result = "Failed"
                           /\ ~InOwnPlugin(r) /\ keys[request[r].name] # r
                      /\ request[r].op = "storedKey" =>
                           request[r].reply \in {"none", request[r].parts}
    BY DEF SecretsStay
  <2>1. ReplyFits(request[r], request[r].result, request[r].reply)
    BY DEF KeysInv, Shown
  <2>2. ASSUME request[r].op = "importStoredKey", Elsewhere(request[r])
        PROVE  ~InOwnPlugin(r) /\ keys[request[r].name] # r
    BY <2>2 DEF KeysInv, Owned, OwnerFits, Elsewhere, HasKey, InOwnPlugin
  <2> QED BY <2>1, <2>2 DEF ReplyFits
<1> QED BY <1>1, KeysInvAlways, PTL

=============================================================================
