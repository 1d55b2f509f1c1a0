------------------------ MODULE ClientRequestProofs -------------------------
(* Proofs about the requests of the client libraries, for any set of classes *)
(* and any number of setters, starts and faults.                             *)
(*                                                                           *)
(* A parameter reaches the request processor when the hops of its call fit   *)
(* together.  Fits says what that means for one manager function, one D-Bus  *)
(* method and one case of handlePendingRequest, Transported that fitting     *)
(* hops deliver, and SecretsTable and CryptoTable that the hops of the two   *)
(* libraries fit, call by call.                                              *)
EXTENDS ClientRequest, TLAPS

-----------------------------------------------------------------------------
(* Hops that fit. *)

ServiceAddress == "interactionServiceAddress"

\* The arguments of a function whose parameters are the attributes a.
Args(f, a) == [i \in DOMAIN f.takes |-> a[f.takes[i]]]

\* What the attributes a have become when they were given to a request of a type.
Arrived(params, given, type, a) ==
    /\ \A p \in params :
          /\ p \in DOMAIN given
          /\ given[p] = IF <<type, p>> \in LeftUnmapped THEN a[p] ELSE MAP_PLUGIN_NAMES(a[p])
    /\ ServiceAddress \in DOMAIN given =>
          /\ "userInteractionMode" \in params
          /\ given[ServiceAddress] = Address(a.userInteractionMode)

\* What the manager's function f takes is what the case c of handlePendingRequest
\* takes off the list, when the D-Bus method m is called in between.
Fits(f, m, c) ==
    /\ Names(f.takes) \subseteq Names(c.takes) \ {"QString()", ServiceAddress}
    /\ ServiceAddress \in Names(c.takes) => f.service /\ "userInteractionMode" \in Names(f.takes)
    /\ DOMAIN m.takes = DOMAIN f.gives
    /\ \A i \in DOMAIN m.takes :
          m.takes[i] \in Names(f.takes) \cup {ServiceAddress} => f.gives[i] = m.takes[i]
    /\ Names(m.gives) \subseteq Names(m.takes)
    /\ DOMAIN c.takes \subseteq DOMAIN m.gives
    /\ \A i \in DOMAIN c.takes : c.takes[i] = m.gives[i]
    /\ \A p \in Names(f.takes) :
          p \in m.maps <=> HoldsPlugin(p) /\ <<m.type, p>> \notin LeftUnmapped

\* The replies to a request are of the types its caller expects, except two
\* that hold an int for a VerificationStatus.
Mistyped == {"Verify", "Decrypt"}

Replies(type, expected) ==
    type \notin Mistyped =>
        /\ Matches(PendingCase(type).reply, expected)
        /\ PendingCase(type).immediate \/ Matches(FinishedReply(type), expected)
-----------------------------------------------------------------------------
(* The invariant. *)

StartedWith(a) ==
    IF IsSecrets THEN Secrets!startRequest(class[2], a)
                 ELSE Crypto!startRequest(class[2], a)

IsAttributes(a) ==
    /\ DOMAIN a = Description.attributes
    /\ \A p \in DOMAIN a : a[p] \in Values(p)

CallTypeOK ==
    /\ call = [at |-> call.at, number |-> call.number, attrs |-> call.attrs,
               method |-> call.method, args |-> call.args, expected |-> call.expected,
               type |-> call.type, given |-> call.given, reply |-> call.reply,
               answer |-> call.answer]
    /\ call.number \in 0 .. starts
    /\ call.reply \in {"none", "Succeeded", "Failed", "notConnected", "lost", "mismatch"}
    /\ call.at = "answered" => call.reply # "none"

Typed ==
    /\ TypeOK /\ IsAttributes(attrs) /\ starts \in Nat /\ CallTypeOK

\* The status follows the call.
StatusFollows ==
    /\ m_status = "Active" => call.at \in {"sent", "queued", "processing", "answered"}
    /\ m_status = "Finished" => call.at = "done"
    /\ m_status = "Inactive" => call.at \in {"none", "done"}

\* The attributes the call was made with: the ones the object has, but for the
\* custom parameters.
AttributesKept ==
    /\ call.at # "none" => IsAttributes(call.attrs)
    /\ m_status # "Inactive" =>
          \A p \in Description.attributes \ {"customParameters"} : attrs[p] = call.attrs[p]

\* A message on its way is what the function of the manager sends for the
\* attributes at the start.
MessageRight ==
    call.at = "sent" =>
        /\ call.given = <<>>
        /\ \E f \in ManagerFunctions :
              /\ f.name = StartedWith(call.attrs).call.name
              /\ f.takes = StartedWith(call.attrs).call.args
              /\ Holds(f.accepts, call.attrs)
              /\ call.method = f.name /\ call.expected = f.reply
              /\ call.args = Sent(f, Args(f, call.attrs))

ArrivedAs(given) ==
    Arrived(Names(StartedWith(call.attrs).call.args), given, call.type, call.attrs)

\* A request in the queue holds the attributes at the start.
QueuedRight ==
    call.at = "queued" =>
        call.given = <<>> /\ ArrivedAs(Named(PendingCase(call.type).takes, call.args))

GivenRight == call.given # <<>> => ArrivedAs(call.given)

\* The answers to come have the expected types.
RepliesRight ==
    /\ call.at \in {"queued", "processing"} => Replies(call.type, call.expected)
    /\ call.at = "processing" => ~PendingCase(call.type).immediate

\* What is known of an answer.
AnswerRight ==
    /\ Waiting => call.reply = "none"
    /\ call.reply = "Succeeded" => call.answer = "Succeeded"
    /\ m_status = "Active" /\ call.reply = "mismatch" => call.type \in Mistyped

ClientInv ==
    /\ Typed /\ StatusFollows /\ AttributesKept
    /\ MessageRight /\ QueuedRight /\ GivenRight
    /\ RepliesRight /\ AnswerRight
    /\ SuccessIsTheDaemons /\ FinishedIsCurrent
-----------------------------------------------------------------------------
(* Fitting hops deliver. *)

\* A hop gives a name to the value at the place of the name in its list.
LEMMA NamedValue ==
    ASSUME NEW takes, NEW values, NEW p \in Names(takes)
    PROVE  \E k \in DOMAIN takes :
              /\ takes[k] = p
              /\ Named(takes, values)[p] = IF k \in DOMAIN values THEN values[k]
                                           ELSE EmptyString
<1> DEFINE k == CHOOSE i \in DOMAIN takes : takes[i] = p
<1>1. \E i \in DOMAIN takes : takes[i] = p
  BY DEF Names, ToSet
<1>2. k \in DOMAIN takes /\ takes[k] = p
  BY <1>1
<1>3. Named(takes, values)[p] = IF k \in DOMAIN values THEN values[k] ELSE EmptyString
  BY DEF Named
<1> QED BY <1>2, <1>3

\* The names of a hop are the ones of its list.
LEMMA NamedDomain ==
    ASSUME NEW takes, NEW values
    PROVE  DOMAIN Named(takes, values) = Names(takes)
BY DEF Named

\* The arguments made of attributes are these attributes, by name.
LEMMA NamedArgs ==
    ASSUME NEW f, NEW a, NEW p \in Names(f.takes)
    PROVE  Named(f.takes, Args(f, a))[p] = a[p]
<1>1. PICK k \in DOMAIN f.takes :
         /\ f.takes[k] = p
         /\ Named(f.takes, Args(f, a))[p] = IF k \in DOMAIN Args(f, a) THEN Args(f, a)[k]
                                            ELSE EmptyString
  BY NamedValue
<1> QED BY <1>1 DEF Args

\* Controller::mappedPluginName leaves an address as it is.
LEMMA MapsNoAddress ==
    ASSUME NEW mode
    PROVE  MAP_PLUGIN_NAMES(Address(mode)) = Address(mode)
BY DEF MAP_PLUGIN_NAMES, Address, EmptyString, Value

\* The D-Bus message holds the attributes and the address at the places where
\* the D-Bus method looks for them.
LEMMA SentRight ==
    ASSUME NEW f, NEW m, NEW c, NEW a, Fits(f, m, c)
    PROVE  /\ \A p \in Names(f.takes) \cap Names(m.takes) :
                 Named(m.takes, Sent(f, Args(f, a)))[p] = a[p]
           /\ f.service /\ "userInteractionMode" \in Names(f.takes)
              /\ ServiceAddress \in Names(m.takes) =>
                 Named(m.takes, Sent(f, Args(f, a)))[ServiceAddress]
                    = Address(a.userInteractionMode)
<1> DEFINE sent == Sent(f, Args(f, a))
           env == Named(f.takes, Args(f, a))
<1>1. DOMAIN sent = DOMAIN f.gives
  BY DEF Sent
<1>2. \A i \in DOMAIN f.gives : f.gives[i] \notin {"QString()", ServiceAddress}
         => sent[i] = env[f.gives[i]]
  BY DEF Sent, ServiceAddress
<1>3. \A i \in DOMAIN f.gives : f.gives[i] = ServiceAddress /\ f.service
         => sent[i] = Address(env.userInteractionMode)
  BY DEF Sent, ServiceAddress
<1>4. DOMAIN m.takes = DOMAIN f.gives
  BY DEF Fits
<1>5. ASSUME NEW p \in Names(f.takes), p \in Names(m.takes)
      PROVE  Named(m.takes, sent)[p] = a[p]
  <2>1. PICK k \in DOMAIN m.takes :
           /\ m.takes[k] = p
           /\ Named(m.takes, sent)[p] = IF k \in DOMAIN sent THEN sent[k] ELSE EmptyString
    BY <1>5, NamedValue
  <2>2. f.gives[k] = p /\ p \notin {"QString()", ServiceAddress}
    BY <2>1, <1>5 DEF Fits
  <2>3. Named(m.takes, sent)[p] = env[p]
    BY <2>1, <2>2, <1>1, <1>2, <1>4
  <2> QED BY <2>3, NamedArgs
<1>6. ASSUME f.service, "userInteractionMode" \in Names(f.takes),
             ServiceAddress \in Names(m.takes)
      PROVE  Named(m.takes, sent)[ServiceAddress] = Address(a.userInteractionMode)
  <2>1. PICK k \in DOMAIN m.takes :
           /\ m.takes[k] = ServiceAddress
           /\ Named(m.takes, sent)[ServiceAddress]
                 = IF k \in DOMAIN sent THEN sent[k] ELSE EmptyString
    BY <1>6, NamedValue
  <2>2. f.gives[k] = ServiceAddress
    BY <2>1 DEF Fits
  <2>3. env["userInteractionMode"] = a["userInteractionMode"]
    BY <1>6, NamedArgs
  <2> QED BY <2>1, <2>2, <2>3, <1>1, <1>3, <1>4, <1>6
<1> QED BY <1>5, <1>6

\* The case of handlePendingRequest gets what the D-Bus method has under the
\* same names, with the plugin names it maps.
LEMMA TakenRight ==
    ASSUME NEW f, NEW m, NEW c, NEW args, Fits(f, m, c), NEW p \in Names(c.takes)
    PROVE  /\ p \in Names(m.takes)
           /\ Named(c.takes, Enqueued(m, args))[p] =
                 IF p \in m.maps THEN MAP_PLUGIN_NAMES(Named(m.takes, args)[p])
                 ELSE Named(m.takes, args)[p]
<1> DEFINE list == Enqueued(m, args)
<1>1. PICK k \in DOMAIN c.takes :
         /\ c.takes[k] = p
         /\ Named(c.takes, list)[p] = IF k \in DOMAIN list THEN list[k] ELSE EmptyString
  BY NamedValue
<1>2. k \in DOMAIN m.gives /\ m.gives[k] = p
  BY <1>1 DEF Fits
<1>3. p \in Names(m.gives)
  BY <1>2 DEF Names, ToSet
<1>4. DOMAIN list = DOMAIN m.gives
  BY DEF Enqueued
<1>5. list[k] = IF p \in m.maps THEN MAP_PLUGIN_NAMES(Named(m.takes, args)[p])
                ELSE Named(m.takes, args)[p]
  BY <1>2 DEF Enqueued
<1> QED BY <1>1, <1>2, <1>3, <1>4, <1>5 DEF Fits

\* Parameters that go through fitting hops arrive.
LEMMA Transported ==
    ASSUME NEW f, NEW m, NEW c, NEW a, Fits(f, m, c),
           \A p \in Names(f.takes) : ~HoldsPlugin(p) => MAP_PLUGIN_NAMES(a[p]) = a[p]
    PROVE  Arrived(Names(f.takes), Named(c.takes, Enqueued(m, Sent(f, Args(f, a)))),
                   m.type, a)
<1> DEFINE sent == Sent(f, Args(f, a))
           given == Named(c.takes, Enqueued(m, sent))
<1>1. DOMAIN given = Names(c.takes)
  BY NamedDomain
<1>2. ASSUME NEW p \in Names(f.takes)
      PROVE  /\ p \in DOMAIN given
             /\ given[p] = IF <<m.type, p>> \in LeftUnmapped THEN a[p]
                           ELSE MAP_PLUGIN_NAMES(a[p])
  <2>1. p \in Names(c.takes)
    BY DEF Fits
  <2>2. /\ p \in Names(m.takes)
        /\ given[p] = IF p \in m.maps THEN MAP_PLUGIN_NAMES(Named(m.takes, sent)[p])
                      ELSE Named(m.takes, sent)[p]
    BY <2>1, TakenRight
  <2>3. Named(m.takes, sent)[p] = a[p]
    BY <2>2, SentRight
  <2>4. p \in m.maps <=> HoldsPlugin(p) /\ <<m.type, p>> \notin LeftUnmapped
    BY DEF Fits
  <2> QED BY <2>1, <2>2, <2>3, <2>4, <1>1
<1>3. ASSUME ServiceAddress \in DOMAIN given
      PROVE  /\ "userInteractionMode" \in Names(f.takes)
             /\ given[ServiceAddress] = Address(a.userInteractionMode)
  <2>1. /\ ServiceAddress \in Names(m.takes)
        /\ given[ServiceAddress] =
              IF ServiceAddress \in m.maps
              THEN MAP_PLUGIN_NAMES(Named(m.takes, sent)[ServiceAddress])
              ELSE Named(m.takes, sent)[ServiceAddress]
    BY <1>1, <1>3, TakenRight
  <2>2. f.service /\ "userInteractionMode" \in Names(f.takes)
    BY <1>1, <1>3 DEF Fits
  <2>3. Named(m.takes, sent)[ServiceAddress] = Address(a.userInteractionMode)
    BY <2>1, <2>2, SentRight
  <2> QED BY <2>1, <2>2, <2>3, MapsNoAddress
<1> QED BY <1>2, <1>3 DEF Arrived
-----------------------------------------------------------------------------
(* The hops of the two libraries. *)

\* The hops of a call fit, and so do the types of its replies.
Fitting(f, m, cases, finished) ==
    /\ Fits(f, m, cases[m.type])
    /\ f.name # "finalizeCipherSession" /\ m.type \notin Mistyped =>
          /\ Matches(cases[m.type].reply, f.reply)
          /\ cases[m.type].immediate \/ Matches(finished[m.type], f.reply)

\* The name of a function or method, and how many parameters it takes and gives.
FunctionIs(f, name, taken, given) ==
    f.name = name /\ Len(f.takes) = taken /\ Len(f.gives) = given

MethodIs(m, name, taken) == m.name = name /\ Len(m.takes) = taken

\* The names of the functions of SecretManager and how many parameters they take
\* and give.
LEMMA SecretsFunctionNames ==
    /\ FunctionIs(Secrets!getPluginInfo, "getPluginInfo", 0, 0)
    /\ FunctionIs(Secrets!getHealthInfo, "getHealthInfo", 0, 0)
    /\ FunctionIs(Secrets!userInput, "userInput", 1, 1)
    /\ FunctionIs(Secrets!collectionNames, "collectionNames", 1, 1)
    /\ FunctionIs(Secrets!createCollection_deviceLock, "createCollection", 5, 5)
    /\ FunctionIs(Secrets!createCollection_customLock, "createCollection", 7, 8)
    /\ FunctionIs(Secrets!deleteCollection, "deleteCollection", 3, 4)
    /\ FunctionIs(Secrets!setSecret_collection, "setSecret", 3, 4)
    /\ FunctionIs(Secrets!setSecret_deviceLock, "setSecret", 6, 7)
    /\ FunctionIs(Secrets!setSecret_customLock, "setSecret", 7, 8)
    /\ FunctionIs(Secrets!getSecret, "getSecret", 2, 3)
    /\ FunctionIs(Secrets!findSecrets_collection, "findSecrets", 5, 6)
    /\ FunctionIs(Secrets!findSecrets_standalone, "findSecrets", 4, 6)
    /\ FunctionIs(Secrets!deleteSecret, "deleteSecret", 2, 3)
    /\ FunctionIs(Secrets!queryLockStatus, "queryLockStatus", 2, 2)
    /\ FunctionIs(Secrets!modifyLockCode, "modifyLockCode", 4, 5)
    /\ FunctionIs(Secrets!provideLockCode, "provideLockCode", 4, 5)
    /\ FunctionIs(Secrets!forgetLockCode, "forgetLockCode", 4, 5)
<1>1. FunctionIs(Secrets!getPluginInfo, "getPluginInfo", 0, 0)
  BY DEF Secrets!getPluginInfo, Secrets!Function, FunctionIs
<1>2. FunctionIs(Secrets!getHealthInfo, "getHealthInfo", 0, 0)
  BY DEF Secrets!getHealthInfo, Secrets!Function, FunctionIs
<1>3. FunctionIs(Secrets!userInput, "userInput", 1, 1)
  BY DEF Secrets!userInput, Secrets!Function, FunctionIs
<1>4. FunctionIs(Secrets!collectionNames, "collectionNames", 1, 1)
  BY DEF Secrets!collectionNames, Secrets!Function, FunctionIs
<1>5. FunctionIs(Secrets!createCollection_deviceLock, "createCollection", 5, 5)
  BY DEF Secrets!createCollection_deviceLock, Secrets!Function, FunctionIs
<1>6. FunctionIs(Secrets!createCollection_customLock, "createCollection", 7, 8)
  BY DEF Secrets!createCollection_customLock, Secrets!Function,
      Secrets!Interacting, FunctionIs
<1>7. FunctionIs(Secrets!deleteCollection, "deleteCollection", 3, 4)
  BY DEF Secrets!deleteCollection, Secrets!Function, Secrets!Interacting,
      FunctionIs
<1>8. FunctionIs(Secrets!setSecret_collection, "setSecret", 3, 4)
  BY DEF Secrets!setSecret_collection, Secrets!Function, Secrets!Interacting,
      Secrets!Checking, FunctionIs
<1>9. FunctionIs(Secrets!setSecret_deviceLock, "setSecret", 6, 7)
  BY DEF Secrets!setSecret_deviceLock, Secrets!Function, Secrets!Interacting,
      Secrets!Checking, FunctionIs
<1>10. FunctionIs(Secrets!setSecret_customLock, "setSecret", 7, 8)
  BY DEF Secrets!setSecret_customLock, Secrets!Function, Secrets!Interacting,
      Secrets!Checking, FunctionIs
<1>11. FunctionIs(Secrets!getSecret, "getSecret", 2, 3)
  BY DEF Secrets!getSecret, Secrets!Function, Secrets!Interacting,
      Secrets!Checking, FunctionIs
<1>12. FunctionIs(Secrets!findSecrets_collection, "findSecrets", 5, 6)
  BY DEF Secrets!findSecrets_collection, Secrets!Function, Secrets!Interacting,
      Secrets!Checking, Secrets!Refusing, FunctionIs
<1>13. FunctionIs(Secrets!findSecrets_standalone, "findSecrets", 4, 6)
  BY DEF Secrets!findSecrets_standalone, Secrets!Function, Secrets!Interacting,
      Secrets!Prepending, FunctionIs
<1>14. FunctionIs(Secrets!deleteSecret, "deleteSecret", 2, 3)
  BY DEF Secrets!deleteSecret, Secrets!Function, Secrets!Interacting,
      Secrets!Checking, FunctionIs
<1>15. FunctionIs(Secrets!queryLockStatus, "queryLockStatus", 2, 2)
  BY DEF Secrets!queryLockStatus, Secrets!Function, FunctionIs
<1>16. FunctionIs(Secrets!modifyLockCode, "modifyLockCode", 4, 5)
  BY DEF Secrets!modifyLockCode, Secrets!Function, Secrets!Interacting,
      FunctionIs
<1>17. FunctionIs(Secrets!provideLockCode, "provideLockCode", 4, 5)
  BY DEF Secrets!provideLockCode, Secrets!Function, Secrets!Interacting,
      FunctionIs
<1>18. FunctionIs(Secrets!forgetLockCode, "forgetLockCode", 4, 5)
  BY DEF Secrets!forgetLockCode, Secrets!Function, Secrets!Interacting,
      FunctionIs
<1> QED BY <1>1, <1>2, <1>3, <1>4, <1>5, <1>6, <1>7, <1>8, <1>9, <1>10, <1>11,
      <1>12, <1>13, <1>14, <1>15, <1>16, <1>17, <1>18

\* The names of the D-Bus methods and how many parameters they take.
LEMMA SecretsMethodNames ==
    /\ MethodIs(Secrets!getPluginInfo_DBus, "getPluginInfo", 0)
    /\ MethodIs(Secrets!getHealthInfo_DBus, "getHealthInfo", 0)
    /\ MethodIs(Secrets!userInput_DBus, "userInput", 1)
    /\ MethodIs(Secrets!collectionNames_DBus, "collectionNames", 1)
    /\ MethodIs(Secrets!createCollection_DBus_deviceLock, "createCollection", 5)
    /\ MethodIs(Secrets!createCollection_DBus_customLock, "createCollection", 8)
    /\ MethodIs(Secrets!deleteCollection_DBus, "deleteCollection", 4)
    /\ MethodIs(Secrets!setSecret_DBus_collection, "setSecret", 4)
    /\ MethodIs(Secrets!setSecret_DBus_deviceLock, "setSecret", 7)
    /\ MethodIs(Secrets!setSecret_DBus_customLock, "setSecret", 8)
    /\ MethodIs(Secrets!getSecret_DBus_standalone, "getSecret", 3)
    /\ MethodIs(Secrets!getSecret_DBus_collection, "getSecret", 3)
    /\ MethodIs(Secrets!findSecrets_DBus_standalone, "findSecrets", 6)
    /\ MethodIs(Secrets!findSecrets_DBus_collection, "findSecrets", 6)
    /\ MethodIs(Secrets!deleteSecret_DBus_standalone, "deleteSecret", 3)
    /\ MethodIs(Secrets!deleteSecret_DBus_collection, "deleteSecret", 3)
    /\ MethodIs(Secrets!queryLockStatus_DBus, "queryLockStatus", 2)
    /\ MethodIs(Secrets!modifyLockCode_DBus, "modifyLockCode", 5)
    /\ MethodIs(Secrets!provideLockCode_DBus, "provideLockCode", 5)
    /\ MethodIs(Secrets!forgetLockCode_DBus, "forgetLockCode", 5)
<1>1. MethodIs(Secrets!getPluginInfo_DBus, "getPluginInfo", 0)
  BY DEF Secrets!getPluginInfo_DBus, Secrets!Method, MethodIs
<1>2. MethodIs(Secrets!getHealthInfo_DBus, "getHealthInfo", 0)
  BY DEF Secrets!getHealthInfo_DBus, Secrets!Method, MethodIs
<1>3. MethodIs(Secrets!userInput_DBus, "userInput", 1)
  BY DEF Secrets!userInput_DBus, Secrets!Method, MethodIs
<1>4. MethodIs(Secrets!collectionNames_DBus, "collectionNames", 1)
  BY DEF Secrets!collectionNames_DBus, Secrets!Method, MethodIs
<1>5. MethodIs(Secrets!createCollection_DBus_deviceLock, "createCollection", 5)
  BY DEF Secrets!createCollection_DBus_deviceLock, Secrets!Method, MethodIs
<1>6. MethodIs(Secrets!createCollection_DBus_customLock, "createCollection", 8)
  BY DEF Secrets!createCollection_DBus_customLock, Secrets!Method, MethodIs
<1>7. MethodIs(Secrets!deleteCollection_DBus, "deleteCollection", 4)
  BY DEF Secrets!deleteCollection_DBus, Secrets!Method, MethodIs
<1>8. MethodIs(Secrets!setSecret_DBus_collection, "setSecret", 4)
  BY DEF Secrets!setSecret_DBus_collection, Secrets!Method, MethodIs
<1>9. MethodIs(Secrets!setSecret_DBus_deviceLock, "setSecret", 7)
  BY DEF Secrets!setSecret_DBus_deviceLock, Secrets!Method, MethodIs
<1>10. MethodIs(Secrets!setSecret_DBus_customLock, "setSecret", 8)
  BY DEF Secrets!setSecret_DBus_customLock, Secrets!Method, MethodIs
<1>11. MethodIs(Secrets!getSecret_DBus_standalone, "getSecret", 3)
  BY DEF Secrets!getSecret_DBus_standalone, Secrets!Method, Secrets!When,
      MethodIs
<1>12. MethodIs(Secrets!getSecret_DBus_collection, "getSecret", 3)
  BY DEF Secrets!getSecret_DBus_collection, Secrets!Method, Secrets!When,
      MethodIs
<1>13. MethodIs(Secrets!findSecrets_DBus_standalone, "findSecrets", 6)
  BY DEF Secrets!findSecrets_DBus_standalone, Secrets!Method, Secrets!When,
      Secrets!DroppingFirst, MethodIs
<1>14. MethodIs(Secrets!findSecrets_DBus_collection, "findSecrets", 6)
  BY DEF Secrets!findSecrets_DBus_collection, Secrets!Method, Secrets!When,
      MethodIs
<1>15. MethodIs(Secrets!deleteSecret_DBus_standalone, "deleteSecret", 3)
  BY DEF Secrets!deleteSecret_DBus_standalone, Secrets!Method, Secrets!When,
      MethodIs
<1>16. MethodIs(Secrets!deleteSecret_DBus_collection, "deleteSecret", 3)
  BY DEF Secrets!deleteSecret_DBus_collection, Secrets!Method, Secrets!When,
      MethodIs
<1>17. MethodIs(Secrets!queryLockStatus_DBus, "queryLockStatus", 2)
  BY DEF Secrets!queryLockStatus_DBus, Secrets!Method, MethodIs
<1>18. MethodIs(Secrets!modifyLockCode_DBus, "modifyLockCode", 5)
  BY DEF Secrets!modifyLockCode_DBus, Secrets!Method, MethodIs
<1>19. MethodIs(Secrets!provideLockCode_DBus, "provideLockCode", 5)
  BY DEF Secrets!provideLockCode_DBus, Secrets!Method, MethodIs
<1>20. MethodIs(Secrets!forgetLockCode_DBus, "forgetLockCode", 5)
  BY DEF Secrets!forgetLockCode_DBus, Secrets!Method, MethodIs
<1> QED BY <1>1, <1>2, <1>3, <1>4, <1>5, <1>6, <1>7, <1>8, <1>9, <1>10, <1>11,
      <1>12, <1>13, <1>14, <1>15, <1>16, <1>17, <1>18, <1>19, <1>20

\* The hops of the calls of the Secrets API fit, whichever overload is called;
\* a search in a collection is never taken for one among standalone secrets.
LEMMA SecretsTable ==
    ASSUME NEW f \in Secrets!ManagerFunctions, NEW m \in Secrets!DBusMethods,
           m.name = f.name, Len(m.takes) = Len(f.gives),
           ~(f = Secrets!findSecrets_collection /\ m = Secrets!findSecrets_DBus_standalone)
    PROVE  Fitting(f, m, Secrets!PendingCases, Secrets!FinishedReplies)
<1>1. Fitting(Secrets!getPluginInfo, Secrets!getPluginInfo_DBus,
            Secrets!PendingCases, Secrets!FinishedReplies)
  <2>1. Fits(Secrets!getPluginInfo, Secrets!getPluginInfo_DBus, Secrets!GetPluginInfo_pending)
    BY DEF Secrets!getPluginInfo, Secrets!getPluginInfo_DBus,
        Secrets!GetPluginInfo_pending, Secrets!Function, Secrets!Method,
        Secrets!Case, Secrets!Immediate, Fits, Names, ToSet, ServiceAddress,
        HoldsPlugin, LeftUnmapped
  <2>2. /\ Matches(Secrets!GetPluginInfo_pending.reply, Secrets!getPluginInfo.reply)
        /\ Secrets!GetPluginInfo_pending.immediate
    BY DEF Secrets!getPluginInfo, Secrets!GetPluginInfo_pending,
        Secrets!Function, Secrets!Case, Secrets!Immediate, Matches, IsPrefix
  <2>3. Secrets!getPluginInfo_DBus.type = "GetPluginInfo"
    BY DEF Secrets!getPluginInfo_DBus, Secrets!Method
  <2> QED BY <2>1, <2>2, <2>3 DEF Fitting, Secrets!PendingCases, Secrets!FinishedReplies
<1>2. Fitting(Secrets!getHealthInfo, Secrets!getHealthInfo_DBus,
            Secrets!PendingCases, Secrets!FinishedReplies)
  <2>1. Fits(Secrets!getHealthInfo, Secrets!getHealthInfo_DBus, Secrets!GetHealthInfo_pending)
    BY DEF Secrets!getHealthInfo, Secrets!getHealthInfo_DBus,
        Secrets!GetHealthInfo_pending, Secrets!Function, Secrets!Method,
        Secrets!Case, Secrets!Immediate, Fits, Names, ToSet, ServiceAddress,
        HoldsPlugin, LeftUnmapped
  <2>2. /\ Matches(Secrets!GetHealthInfo_pending.reply, Secrets!getHealthInfo.reply)
        /\ Secrets!GetHealthInfo_pending.immediate
    BY DEF Secrets!getHealthInfo, Secrets!GetHealthInfo_pending,
        Secrets!Function, Secrets!Case, Secrets!Immediate, Matches, IsPrefix
  <2>3. Secrets!getHealthInfo_DBus.type = "GetHealthInfo"
    BY DEF Secrets!getHealthInfo_DBus, Secrets!Method
  <2> QED BY <2>1, <2>2, <2>3 DEF Fitting, Secrets!PendingCases, Secrets!FinishedReplies
<1>3. Fitting(Secrets!userInput, Secrets!userInput_DBus,
            Secrets!PendingCases, Secrets!FinishedReplies)
  <2>1. Fits(Secrets!userInput, Secrets!userInput_DBus, Secrets!UserInput_pending)
    BY DEF Secrets!userInput, Secrets!userInput_DBus, Secrets!UserInput_pending,
        Secrets!Function, Secrets!Method, Secrets!Case, Fits, Names, ToSet,
        ServiceAddress, HoldsPlugin, LeftUnmapped
  <2>2. /\ Matches(Secrets!UserInput_pending.reply, Secrets!userInput.reply)
        /\ Matches(Secrets!UserInput_finished, Secrets!userInput.reply)
    BY DEF Secrets!userInput, Secrets!UserInput_pending,
        Secrets!UserInput_finished, Secrets!Function, Secrets!Case, Matches,
        IsPrefix
  <2>3. Secrets!userInput_DBus.type = "UserInput"
    BY DEF Secrets!userInput_DBus, Secrets!Method
  <2> QED BY <2>1, <2>2, <2>3 DEF Fitting, Secrets!PendingCases, Secrets!FinishedReplies
<1>4. Fitting(Secrets!collectionNames, Secrets!collectionNames_DBus,
            Secrets!PendingCases, Secrets!FinishedReplies)
  <2>1. Fits(Secrets!collectionNames, Secrets!collectionNames_DBus,
             Secrets!CollectionNames_pending)
    BY DEF Secrets!collectionNames, Secrets!collectionNames_DBus,
        Secrets!CollectionNames_pending, Secrets!Function, Secrets!Method,
        Secrets!Case, Fits, Names, ToSet, ServiceAddress, HoldsPlugin,
        LeftUnmapped
  <2>2. /\ Matches(Secrets!CollectionNames_pending.reply, Secrets!collectionNames.reply)
        /\ Matches(Secrets!CollectionNames_finished, Secrets!collectionNames.reply)
    BY DEF Secrets!collectionNames, Secrets!CollectionNames_pending,
        Secrets!CollectionNames_finished, Secrets!Function, Secrets!Case,
        Matches, IsPrefix
  <2>3. Secrets!collectionNames_DBus.type = "CollectionNames"
    BY DEF Secrets!collectionNames_DBus, Secrets!Method
  <2> QED BY <2>1, <2>2, <2>3 DEF Fitting, Secrets!PendingCases, Secrets!FinishedReplies
<1>5. Fitting(Secrets!createCollection_deviceLock, Secrets!createCollection_DBus_deviceLock,
            Secrets!PendingCases, Secrets!FinishedReplies)
  <2>1. Fits(Secrets!createCollection_deviceLock, Secrets!createCollection_DBus_deviceLock,
             Secrets!CreateDeviceLockCollection_pending)
    BY DEF Secrets!createCollection_deviceLock,
        Secrets!createCollection_DBus_deviceLock,
        Secrets!CreateDeviceLockCollection_pending, Secrets!Function,
        Secrets!Method, Secrets!Case, Fits, Names, ToSet, ServiceAddress,
        HoldsPlugin, LeftUnmapped
  <2>2. /\ Matches(Secrets!CreateDeviceLockCollection_pending.reply,
                   Secrets!createCollection_deviceLock.reply)
        /\ Matches(Secrets!CreateDeviceLockCollection_finished,
                   Secrets!createCollection_deviceLock.reply)
    BY DEF Secrets!createCollection_deviceLock,
        Secrets!CreateDeviceLockCollection_pending,
        Secrets!CreateDeviceLockCollection_finished, Secrets!Function,
        Secrets!Case, Matches, IsPrefix
  <2>3. Secrets!createCollection_DBus_deviceLock.type = "CreateDeviceLockCollection"
    BY DEF Secrets!createCollection_DBus_deviceLock, Secrets!Method
  <2> QED BY <2>1, <2>2, <2>3 DEF Fitting, Secrets!PendingCases, Secrets!FinishedReplies
<1>6. Fitting(Secrets!createCollection_customLock, Secrets!createCollection_DBus_customLock,
            Secrets!PendingCases, Secrets!FinishedReplies)
  <2>1. Fits(Secrets!createCollection_customLock, Secrets!createCollection_DBus_customLock,
             Secrets!CreateCustomLockCollection_pending)
    BY DEF Secrets!createCollection_customLock,
        Secrets!createCollection_DBus_customLock,
        Secrets!CreateCustomLockCollection_pending, Secrets!Function,
        Secrets!Interacting, Secrets!Method, Secrets!Case, Fits, Names, ToSet,
        ServiceAddress, HoldsPlugin, LeftUnmapped
  <2>2. /\ Matches(Secrets!CreateCustomLockCollection_pending.reply,
                   Secrets!createCollection_customLock.reply)
        /\ Matches(Secrets!CreateCustomLockCollection_finished,
                   Secrets!createCollection_customLock.reply)
    BY DEF Secrets!createCollection_customLock,
        Secrets!CreateCustomLockCollection_pending,
        Secrets!CreateCustomLockCollection_finished, Secrets!Function,
        Secrets!Interacting, Secrets!Case, Matches, IsPrefix
  <2>3. Secrets!createCollection_DBus_customLock.type = "CreateCustomLockCollection"
    BY DEF Secrets!createCollection_DBus_customLock, Secrets!Method
  <2> QED BY <2>1, <2>2, <2>3 DEF Fitting, Secrets!PendingCases, Secrets!FinishedReplies
<1>7. Fitting(Secrets!deleteCollection, Secrets!deleteCollection_DBus,
            Secrets!PendingCases, Secrets!FinishedReplies)
  <2>1. Fits(Secrets!deleteCollection, Secrets!deleteCollection_DBus,
             Secrets!DeleteCollection_pending)
    BY DEF Secrets!deleteCollection, Secrets!deleteCollection_DBus,
        Secrets!DeleteCollection_pending, Secrets!Function,
        Secrets!Interacting, Secrets!Method, Secrets!Case, Fits, Names, ToSet,
        ServiceAddress, HoldsPlugin, LeftUnmapped
  <2>2. /\ Matches(Secrets!DeleteCollection_pending.reply, Secrets!deleteCollection.reply)
        /\ Matches(Secrets!DeleteCollection_finished, Secrets!deleteCollection.reply)
    BY DEF Secrets!deleteCollection, Secrets!DeleteCollection_pending,
        Secrets!DeleteCollection_finished, Secrets!Function,
        Secrets!Interacting, Secrets!Case, Matches, IsPrefix
  <2>3. Secrets!deleteCollection_DBus.type = "DeleteCollection"
    BY DEF Secrets!deleteCollection_DBus, Secrets!Method
  <2> QED BY <2>1, <2>2, <2>3 DEF Fitting, Secrets!PendingCases, Secrets!FinishedReplies
<1>8. Fitting(Secrets!setSecret_collection, Secrets!setSecret_DBus_collection,
            Secrets!PendingCases, Secrets!FinishedReplies)
  <2>1. Fits(Secrets!setSecret_collection, Secrets!setSecret_DBus_collection,
             Secrets!SetCollectionSecret_pending)
    BY DEF Secrets!setSecret_collection, Secrets!setSecret_DBus_collection,
        Secrets!SetCollectionSecret_pending, Secrets!Function,
        Secrets!Interacting, Secrets!Checking, Secrets!Method, Secrets!Case,
        Fits, Names, ToSet, ServiceAddress, HoldsPlugin, LeftUnmapped
  <2>2. /\ Matches(Secrets!SetCollectionSecret_pending.reply,
                   Secrets!setSecret_collection.reply)
        /\ Matches(Secrets!SetCollectionSecret_finished, Secrets!setSecret_collection.reply)
    BY DEF Secrets!setSecret_collection, Secrets!SetCollectionSecret_pending,
        Secrets!SetCollectionSecret_finished, Secrets!Function,
        Secrets!Interacting, Secrets!Checking, Secrets!Case, Matches, IsPrefix
  <2>3. Secrets!setSecret_DBus_collection.type = "SetCollectionSecret"
    BY DEF Secrets!setSecret_DBus_collection, Secrets!Method
  <2> QED BY <2>1, <2>2, <2>3 DEF Fitting, Secrets!PendingCases, Secrets!FinishedReplies
<1>9. Fitting(Secrets!setSecret_deviceLock, Secrets!setSecret_DBus_deviceLock,
            Secrets!PendingCases, Secrets!FinishedReplies)
  <2>1. Fits(Secrets!setSecret_deviceLock, Secrets!setSecret_DBus_deviceLock,
             Secrets!SetStandaloneDeviceLockSecret_pending)
    BY DEF Secrets!setSecret_deviceLock, Secrets!setSecret_DBus_deviceLock,
        Secrets!SetStandaloneDeviceLockSecret_pending, Secrets!Function,
        Secrets!Interacting, Secrets!Checking, Secrets!Method, Secrets!Case,
        Fits, Names, ToSet, ServiceAddress, HoldsPlugin, LeftUnmapped
  <2>2. /\ Matches(Secrets!SetStandaloneDeviceLockSecret_pending.reply,
                   Secrets!setSecret_deviceLock.reply)
        /\ Matches(Secrets!SetStandaloneDeviceLockSecret_finished,
                   Secrets!setSecret_deviceLock.reply)
    BY DEF Secrets!setSecret_deviceLock,
        Secrets!SetStandaloneDeviceLockSecret_pending,
        Secrets!SetStandaloneDeviceLockSecret_finished, Secrets!Function,
        Secrets!Interacting, Secrets!Checking, Secrets!Case, Matches, IsPrefix
  <2>3. Secrets!setSecret_DBus_deviceLock.type = "SetStandaloneDeviceLockSecret"
    BY DEF Secrets!setSecret_DBus_deviceLock, Secrets!Method
  <2> QED BY <2>1, <2>2, <2>3 DEF Fitting, Secrets!PendingCases, Secrets!FinishedReplies
<1>10. Fitting(Secrets!setSecret_customLock, Secrets!setSecret_DBus_customLock,
            Secrets!PendingCases, Secrets!FinishedReplies)
  <2>1. Fits(Secrets!setSecret_customLock, Secrets!setSecret_DBus_customLock,
             Secrets!SetStandaloneCustomLockSecret_pending)
    BY DEF Secrets!setSecret_customLock, Secrets!setSecret_DBus_customLock,
        Secrets!SetStandaloneCustomLockSecret_pending, Secrets!Function,
        Secrets!Interacting, Secrets!Checking, Secrets!Method, Secrets!Case,
        Fits, Names, ToSet, ServiceAddress, HoldsPlugin, LeftUnmapped
  <2>2. /\ Matches(Secrets!SetStandaloneCustomLockSecret_pending.reply,
                   Secrets!setSecret_customLock.reply)
        /\ Matches(Secrets!SetStandaloneCustomLockSecret_finished,
                   Secrets!setSecret_customLock.reply)
    BY DEF Secrets!setSecret_customLock,
        Secrets!SetStandaloneCustomLockSecret_pending,
        Secrets!SetStandaloneCustomLockSecret_finished, Secrets!Function,
        Secrets!Interacting, Secrets!Checking, Secrets!Case, Matches, IsPrefix
  <2>3. Secrets!setSecret_DBus_customLock.type = "SetStandaloneCustomLockSecret"
    BY DEF Secrets!setSecret_DBus_customLock, Secrets!Method
  <2> QED BY <2>1, <2>2, <2>3 DEF Fitting, Secrets!PendingCases, Secrets!FinishedReplies
<1>11. Fitting(Secrets!getSecret, Secrets!getSecret_DBus_standalone,
            Secrets!PendingCases, Secrets!FinishedReplies)
  <2>1. Fits(Secrets!getSecret, Secrets!getSecret_DBus_standalone,
             Secrets!GetStandaloneSecret_pending)
    BY DEF Secrets!getSecret, Secrets!getSecret_DBus_standalone,
        Secrets!GetStandaloneSecret_pending, Secrets!Function,
        Secrets!Interacting, Secrets!Checking, Secrets!Method, Secrets!When,
        Secrets!Case, Fits, Names, ToSet, ServiceAddress, HoldsPlugin,
        LeftUnmapped
  <2>2. /\ Matches(Secrets!GetStandaloneSecret_pending.reply, Secrets!getSecret.reply)
        /\ Matches(Secrets!GetStandaloneSecret_finished, Secrets!getSecret.reply)
    BY DEF Secrets!getSecret, Secrets!GetStandaloneSecret_pending,
        Secrets!GetStandaloneSecret_finished, Secrets!Function,
        Secrets!Interacting, Secrets!Checking, Secrets!Case, Matches, IsPrefix
  <2>3. Secrets!getSecret_DBus_standalone.type = "GetStandaloneSecret"
    BY DEF Secrets!getSecret_DBus_standalone, Secrets!Method, Secrets!When
  <2> QED BY <2>1, <2>2, <2>3 DEF Fitting, Secrets!PendingCases, Secrets!FinishedReplies
<1>12. Fitting(Secrets!getSecret, Secrets!getSecret_DBus_collection,
            Secrets!PendingCases, Secrets!FinishedReplies)
  <2>1. Fits(Secrets!getSecret, Secrets!getSecret_DBus_collection,
             Secrets!GetCollectionSecret_pending)
    BY DEF Secrets!getSecret, Secrets!getSecret_DBus_collection,
        Secrets!GetCollectionSecret_pending, Secrets!Function,
        Secrets!Interacting, Secrets!Checking, Secrets!Method, Secrets!When,
        Secrets!Case, Fits, Names, ToSet, ServiceAddress, HoldsPlugin,
        LeftUnmapped
  <2>2. /\ Matches(Secrets!GetCollectionSecret_pending.reply, Secrets!getSecret.reply)
        /\ Matches(Secrets!GetCollectionSecret_finished, Secrets!getSecret.reply)
    BY DEF Secrets!getSecret, Secrets!GetCollectionSecret_pending,
        Secrets!GetCollectionSecret_finished, Secrets!Function,
        Secrets!Interacting, Secrets!Checking, Secrets!Case, Matches, IsPrefix
  <2>3. Secrets!getSecret_DBus_collection.type = "GetCollectionSecret"
    BY DEF Secrets!getSecret_DBus_collection, Secrets!Method, Secrets!When
  <2> QED BY <2>1, <2>2, <2>3 DEF Fitting, Secrets!PendingCases, Secrets!FinishedReplies
<1>13. Fitting(Secrets!findSecrets_collection, Secrets!findSecrets_DBus_collection,
            Secrets!PendingCases, Secrets!FinishedReplies)
  <2>1. Fits(Secrets!findSecrets_collection, Secrets!findSecrets_DBus_collection,
             Secrets!FindCollectionSecrets_pending)
    BY DEF Secrets!findSecrets_collection, Secrets!findSecrets_DBus_collection,
        Secrets!FindCollectionSecrets_pending, Secrets!Function,
        Secrets!Interacting, Secrets!Checking, Secrets!Refusing,
        Secrets!Method, Secrets!When, Secrets!Case, Fits, Names, ToSet,
        ServiceAddress, HoldsPlugin, LeftUnmapped
  <2>2. /\ Matches(Secrets!FindCollectionSecrets_pending.reply,
                   Secrets!findSecrets_collection.reply)
        /\ Matches(Secrets!FindCollectionSecrets_finished,
                   Secrets!findSecrets_collection.reply)
    BY DEF Secrets!findSecrets_collection, Secrets!FindCollectionSecrets_pending,
        Secrets!FindCollectionSecrets_finished, Secrets!Function,
        Secrets!Interacting, Secrets!Checking, Secrets!Refusing, Secrets!Case,
        Matches, IsPrefix
  <2>3. Secrets!findSecrets_DBus_collection.type = "FindCollectionSecrets"
    BY DEF Secrets!findSecrets_DBus_collection, Secrets!Method, Secrets!When
  <2> QED BY <2>1, <2>2, <2>3 DEF Fitting, Secrets!PendingCases, Secrets!FinishedReplies
<1>14. Fitting(Secrets!findSecrets_standalone, Secrets!findSecrets_DBus_standalone,
            Secrets!PendingCases, Secrets!FinishedReplies)
  <2>1. Fits(Secrets!findSecrets_standalone, Secrets!findSecrets_DBus_standalone,
             Secrets!FindStandaloneSecrets_pending)
    BY DEF Secrets!findSecrets_standalone, Secrets!findSecrets_DBus_standalone,
        Secrets!FindStandaloneSecrets_pending, Secrets!Function,
        Secrets!Interacting, Secrets!Prepending, Secrets!Method, Secrets!When,
        Secrets!DroppingFirst, Secrets!Case, Fits, Names, ToSet,
        ServiceAddress, HoldsPlugin, LeftUnmapped
  <2>2. /\ Matches(Secrets!FindStandaloneSecrets_pending.reply,
                   Secrets!findSecrets_standalone.reply)
        /\ Matches(Secrets!FindStandaloneSecrets_finished,
                   Secrets!findSecrets_standalone.reply)
    BY DEF Secrets!findSecrets_standalone, Secrets!FindStandaloneSecrets_pending,
        Secrets!FindStandaloneSecrets_finished, Secrets!Function,
        Secrets!Interacting, Secrets!Prepending, Secrets!Case, Matches,
        IsPrefix
  <2>3. Secrets!findSecrets_DBus_standalone.type = "FindStandaloneSecrets"
    BY DEF Secrets!findSecrets_DBus_standalone, Secrets!Method, Secrets!When,
        Secrets!DroppingFirst
  <2> QED BY <2>1, <2>2, <2>3 DEF Fitting, Secrets!PendingCases, Secrets!FinishedReplies
<1>15. Fitting(Secrets!findSecrets_standalone, Secrets!findSecrets_DBus_collection,
            Secrets!PendingCases, Secrets!FinishedReplies)
  <2>1. Fits(Secrets!findSecrets_standalone, Secrets!findSecrets_DBus_collection,
             Secrets!FindCollectionSecrets_pending)
    BY DEF Secrets!findSecrets_standalone, Secrets!findSecrets_DBus_collection,
        Secrets!FindCollectionSecrets_pending, Secrets!Function,
        Secrets!Interacting, Secrets!Prepending, Secrets!Method, Secrets!When,
        Secrets!Case, Fits, Names, ToSet, ServiceAddress, HoldsPlugin,
        LeftUnmapped
  <2>2. /\ Matches(Secrets!FindCollectionSecrets_pending.reply,
                   Secrets!findSecrets_standalone.reply)
        /\ Matches(Secrets!FindCollectionSecrets_finished,
                   Secrets!findSecrets_standalone.reply)
    BY DEF Secrets!findSecrets_standalone, Secrets!FindCollectionSecrets_pending,
        Secrets!FindCollectionSecrets_finished, Secrets!Function,
        Secrets!Interacting, Secrets!Prepending, Secrets!Case, Matches,
        IsPrefix
  <2>3. Secrets!findSecrets_DBus_collection.type = "FindCollectionSecrets"
    BY DEF Secrets!findSecrets_DBus_collection, Secrets!Method, Secrets!When
  <2> QED BY <2>1, <2>2, <2>3 DEF Fitting, Secrets!PendingCases, Secrets!FinishedReplies
<1>16. Fitting(Secrets!deleteSecret, Secrets!deleteSecret_DBus_standalone,
            Secrets!PendingCases, Secrets!FinishedReplies)
  <2>1. Fits(Secrets!deleteSecret, Secrets!deleteSecret_DBus_standalone,
             Secrets!DeleteStandaloneSecret_pending)
    BY DEF Secrets!deleteSecret, Secrets!deleteSecret_DBus_standalone,
        Secrets!DeleteStandaloneSecret_pending, Secrets!Function,
        Secrets!Interacting, Secrets!Checking, Secrets!Method, Secrets!When,
        Secrets!Case, Fits, Names, ToSet, ServiceAddress, HoldsPlugin,
        LeftUnmapped
  <2>2. /\ Matches(Secrets!DeleteStandaloneSecret_pending.reply, Secrets!deleteSecret.reply)
        /\ Matches(Secrets!DeleteStandaloneSecret_finished, Secrets!deleteSecret.reply)
    BY DEF Secrets!deleteSecret, Secrets!DeleteStandaloneSecret_pending,
        Secrets!DeleteStandaloneSecret_finished, Secrets!Function,
        Secrets!Interacting, Secrets!Checking, Secrets!Case, Matches, IsPrefix
  <2>3. Secrets!deleteSecret_DBus_standalone.type = "DeleteStandaloneSecret"
    BY DEF Secrets!deleteSecret_DBus_standalone, Secrets!Method, Secrets!When
  <2> QED BY <2>1, <2>2, <2>3 DEF Fitting, Secrets!PendingCases, Secrets!FinishedReplies
<1>17. Fitting(Secrets!deleteSecret, Secrets!deleteSecret_DBus_collection,
            Secrets!PendingCases, Secrets!FinishedReplies)
  <2>1. Fits(Secrets!deleteSecret, Secrets!deleteSecret_DBus_collection,
             Secrets!DeleteCollectionSecret_pending)
    BY DEF Secrets!deleteSecret, Secrets!deleteSecret_DBus_collection,
        Secrets!DeleteCollectionSecret_pending, Secrets!Function,
        Secrets!Interacting, Secrets!Checking, Secrets!Method, Secrets!When,
        Secrets!Case, Fits, Names, ToSet, ServiceAddress, HoldsPlugin,
        LeftUnmapped
  <2>2. /\ Matches(Secrets!DeleteCollectionSecret_pending.reply, Secrets!deleteSecret.reply)
        /\ Matches(Secrets!DeleteCollectionSecret_finished, Secrets!deleteSecret.reply)
    BY DEF Secrets!deleteSecret, Secrets!DeleteCollectionSecret_pending,
        Secrets!DeleteCollectionSecret_finished, Secrets!Function,
        Secrets!Interacting, Secrets!Checking, Secrets!Case, Matches, IsPrefix
  <2>3. Secrets!deleteSecret_DBus_collection.type = "DeleteCollectionSecret"
    BY DEF Secrets!deleteSecret_DBus_collection, Secrets!Method, Secrets!When
  <2> QED BY <2>1, <2>2, <2>3 DEF Fitting, Secrets!PendingCases, Secrets!FinishedReplies
<1>18. Fitting(Secrets!queryLockStatus, Secrets!queryLockStatus_DBus,
            Secrets!PendingCases, Secrets!FinishedReplies)
  <2>1. Fits(Secrets!queryLockStatus, Secrets!queryLockStatus_DBus,
             Secrets!QueryLockStatus_pending)
    BY DEF Secrets!queryLockStatus, Secrets!queryLockStatus_DBus,
        Secrets!QueryLockStatus_pending, Secrets!Function, Secrets!Method,
        Secrets!Case, Fits, Names, ToSet, ServiceAddress, HoldsPlugin,
        LeftUnmapped
  <2>2. /\ Matches(Secrets!QueryLockStatus_pending.reply, Secrets!queryLockStatus.reply)
        /\ Matches(Secrets!QueryLockStatus_finished, Secrets!queryLockStatus.reply)
    BY DEF Secrets!queryLockStatus, Secrets!QueryLockStatus_pending,
        Secrets!QueryLockStatus_finished, Secrets!Function, Secrets!Case,
        Matches, IsPrefix
  <2>3. Secrets!queryLockStatus_DBus.type = "QueryLockStatus"
    BY DEF Secrets!queryLockStatus_DBus, Secrets!Method
  <2> QED BY <2>1, <2>2, <2>3 DEF Fitting, Secrets!PendingCases, Secrets!FinishedReplies
<1>19. Fitting(Secrets!modifyLockCode, Secrets!modifyLockCode_DBus,
            Secrets!PendingCases, Secrets!FinishedReplies)
  <2>1. Fits(Secrets!modifyLockCode, Secrets!modifyLockCode_DBus,
             Secrets!ModifyLockCode_pending)
    BY DEF Secrets!modifyLockCode, Secrets!modifyLockCode_DBus,
        Secrets!ModifyLockCode_pending, Secrets!Function, Secrets!Interacting,
        Secrets!Method, Secrets!Case, Fits, Names, ToSet, ServiceAddress,
        HoldsPlugin, LeftUnmapped
  <2>2. /\ Matches(Secrets!ModifyLockCode_pending.reply, Secrets!modifyLockCode.reply)
        /\ Matches(Secrets!ModifyLockCode_finished, Secrets!modifyLockCode.reply)
    BY DEF Secrets!modifyLockCode, Secrets!ModifyLockCode_pending,
        Secrets!ModifyLockCode_finished, Secrets!Function,
        Secrets!Interacting, Secrets!Case, Matches, IsPrefix
  <2>3. Secrets!modifyLockCode_DBus.type = "ModifyLockCode"
    BY DEF Secrets!modifyLockCode_DBus, Secrets!Method
  <2> QED BY <2>1, <2>2, <2>3 DEF Fitting, Secrets!PendingCases, Secrets!FinishedReplies
<1>20. Fitting(Secrets!provideLockCode, Secrets!provideLockCode_DBus,
            Secrets!PendingCases, Secrets!FinishedReplies)
  <2>1. Fits(Secrets!provideLockCode, Secrets!provideLockCode_DBus,
             Secrets!ProvideLockCode_pending)
    BY DEF Secrets!provideLockCode, Secrets!provideLockCode_DBus,
        Secrets!ProvideLockCode_pending, Secrets!Function,
        Secrets!Interacting, Secrets!Method, Secrets!Case, Fits, Names, ToSet,
        ServiceAddress, HoldsPlugin, LeftUnmapped
  <2>2. /\ Matches(Secrets!ProvideLockCode_pending.reply, Secrets!provideLockCode.reply)
        /\ Matches(Secrets!ProvideLockCode_finished, Secrets!provideLockCode.reply)
    BY DEF Secrets!provideLockCode, Secrets!ProvideLockCode_pending,
        Secrets!ProvideLockCode_finished, Secrets!Function,
        Secrets!Interacting, Secrets!Case, Matches, IsPrefix
  <2>3. Secrets!provideLockCode_DBus.type = "ProvideLockCode"
    BY DEF Secrets!provideLockCode_DBus, Secrets!Method
  <2> QED BY <2>1, <2>2, <2>3 DEF Fitting, Secrets!PendingCases, Secrets!FinishedReplies
<1>21. Fitting(Secrets!forgetLockCode, Secrets!forgetLockCode_DBus,
            Secrets!PendingCases, Secrets!FinishedReplies)
  <2>1. Fits(Secrets!forgetLockCode, Secrets!forgetLockCode_DBus,
             Secrets!ForgetLockCode_pending)
    BY DEF Secrets!forgetLockCode, Secrets!forgetLockCode_DBus,
        Secrets!ForgetLockCode_pending, Secrets!Function, Secrets!Interacting,
        Secrets!Method, Secrets!Case, Fits, Names, ToSet, ServiceAddress,
        HoldsPlugin, LeftUnmapped
  <2>2. /\ Matches(Secrets!ForgetLockCode_pending.reply, Secrets!forgetLockCode.reply)
        /\ Matches(Secrets!ForgetLockCode_finished, Secrets!forgetLockCode.reply)
    BY DEF Secrets!forgetLockCode, Secrets!ForgetLockCode_pending,
        Secrets!ForgetLockCode_finished, Secrets!Function,
        Secrets!Interacting, Secrets!Case, Matches, IsPrefix
  <2>3. Secrets!forgetLockCode_DBus.type = "ForgetLockCode"
    BY DEF Secrets!forgetLockCode_DBus, Secrets!Method
  <2> QED BY <2>1, <2>2, <2>3 DEF Fitting, Secrets!PendingCases, Secrets!FinishedReplies
<1>22. CASE f = Secrets!getPluginInfo
  <2>1. m.name = "getPluginInfo" /\ Len(m.takes) = 0
    BY <1>22, SecretsFunctionNames DEF FunctionIs
  <2>2. m = Secrets!getPluginInfo_DBus
    BY <2>1, SecretsMethodNames DEF Secrets!DBusMethods, MethodIs
  <2> QED BY <1>22, <2>2, <1>1
<1>23. CASE f = Secrets!getHealthInfo
  <2>1. m.name = "getHealthInfo" /\ Len(m.takes) = 0
    BY <1>23, SecretsFunctionNames DEF FunctionIs
  <2>2. m = Secrets!getHealthInfo_DBus
    BY <2>1, SecretsMethodNames DEF Secrets!DBusMethods, MethodIs
  <2> QED BY <1>23, <2>2, <1>2
<1>24. CASE f = Secrets!userInput
  <2>1. m.name = "userInput" /\ Len(m.takes) = 1
    BY <1>24, SecretsFunctionNames DEF FunctionIs
  <2>2. m = Secrets!userInput_DBus
    BY <2>1, SecretsMethodNames DEF Secrets!DBusMethods, MethodIs
  <2> QED BY <1>24, <2>2, <1>3
<1>25. CASE f = Secrets!collectionNames
  <2>1. m.name = "collectionNames" /\ Len(m.takes) = 1
    BY <1>25, SecretsFunctionNames DEF FunctionIs
  <2>2. m = Secrets!collectionNames_DBus
    BY <2>1, SecretsMethodNames DEF Secrets!DBusMethods, MethodIs
  <2> QED BY <1>25, <2>2, <1>4
<1>26. CASE f = Secrets!createCollection_deviceLock
  <2>1. m.name = "createCollection" /\ Len(m.takes) = 5
    BY <1>26, SecretsFunctionNames DEF FunctionIs
  <2>2. m = Secrets!createCollection_DBus_deviceLock
    <3>1. m \in {Secrets!createCollection_DBus_deviceLock,
               Secrets!createCollection_DBus_customLock}
      BY <2>1, SecretsMethodNames DEF Secrets!DBusMethods, MethodIs
    <3>2. /\ Len(Secrets!createCollection_DBus_customLock.takes) # 5
      BY SecretsMethodNames DEF MethodIs
    <3> QED BY <2>1, <3>1, <3>2
  <2> QED BY <1>26, <2>2, <1>5
<1>27. CASE f = Secrets!createCollection_customLock
  <2>1. m.name = "createCollection" /\ Len(m.takes) = 8
    BY <1>27, SecretsFunctionNames DEF FunctionIs
  <2>2. m = Secrets!createCollection_DBus_customLock
    <3>1. m \in {Secrets!createCollection_DBus_deviceLock,
               Secrets!createCollection_DBus_customLock}
      BY <2>1, SecretsMethodNames DEF Secrets!DBusMethods, MethodIs
    <3>2. /\ Len(Secrets!createCollection_DBus_deviceLock.takes) # 8
      BY SecretsMethodNames DEF MethodIs
    <3> QED BY <2>1, <3>1, <3>2
  <2> QED BY <1>27, <2>2, <1>6
<1>28. CASE f = Secrets!deleteCollection
  <2>1. m.name = "deleteCollection" /\ Len(m.takes) = 4
    BY <1>28, SecretsFunctionNames DEF FunctionIs
  <2>2. m = Secrets!deleteCollection_DBus
    BY <2>1, SecretsMethodNames DEF Secrets!DBusMethods, MethodIs
  <2> QED BY <1>28, <2>2, <1>7
<1>29. CASE f = Secrets!setSecret_collection
  <2>1. m.name = "setSecret" /\ Len(m.takes) = 4
    BY <1>29, SecretsFunctionNames DEF FunctionIs
  <2>2. m = Secrets!setSecret_DBus_collection
    <3>1. m \in {Secrets!setSecret_DBus_collection,
               Secrets!setSecret_DBus_deviceLock,
               Secrets!setSecret_DBus_customLock}
      BY <2>1, SecretsMethodNames DEF Secrets!DBusMethods, MethodIs
    <3>2. /\ Len(Secrets!setSecret_DBus_deviceLock.takes) # 4
          /\ Len(Secrets!setSecret_DBus_customLock.takes) # 4
      BY SecretsMethodNames DEF MethodIs
    <3> QED BY <2>1, <3>1, <3>2
  <2> QED BY <1>29, <2>2, <1>8
<1>30. CASE f = Secrets!setSecret_deviceLock
  <2>1. m.name = "setSecret" /\ Len(m.takes) = 7
    BY <1>30, SecretsFunctionNames DEF FunctionIs
  <2>2. m = Secrets!setSecret_DBus_deviceLock
    <3>1. m \in {Secrets!setSecret_DBus_collection,
               Secrets!setSecret_DBus_deviceLock,
               Secrets!setSecret_DBus_customLock}
      BY <2>1, SecretsMethodNames DEF Secrets!DBusMethods, MethodIs
    <3>2. /\ Len(Secrets!setSecret_DBus_collection.takes) # 7
          /\ Len(Secrets!setSecret_DBus_customLock.takes) # 7
      BY SecretsMethodNames DEF MethodIs
    <3> QED BY <2>1, <3>1, <3>2
  <2> QED BY <1>30, <2>2, <1>9
<1>31. CASE f = Secrets!setSecret_customLock
  <2>1. m.name = "setSecret" /\ Len(m.takes) = 8
    BY <1>31, SecretsFunctionNames DEF FunctionIs
  <2>2. m = Secrets!setSecret_DBus_customLock
    <3>1. m \in {Secrets!setSecret_DBus_collection,
               Secrets!setSecret_DBus_deviceLock,
               Secrets!setSecret_DBus_customLock}
      BY <2>1, SecretsMethodNames DEF Secrets!DBusMethods, MethodIs
    <3>2. /\ Len(Secrets!setSecret_DBus_collection.takes) # 8
          /\ Len(Secrets!setSecret_DBus_deviceLock.takes) # 8
      BY SecretsMethodNames DEF MethodIs
    <3> QED BY <2>1, <3>1, <3>2
  <2> QED BY <1>31, <2>2, <1>10
<1>32. CASE f = Secrets!getSecret
  <2>1. m.name = "getSecret" /\ Len(m.takes) = 3
    BY <1>32, SecretsFunctionNames DEF FunctionIs
  <2>2. m \in {Secrets!getSecret_DBus_standalone, Secrets!getSecret_DBus_collection}
    BY <2>1, SecretsMethodNames DEF Secrets!DBusMethods, MethodIs
  <2> QED BY <1>32, <2>2, <1>11, <1>12
<1>33. CASE f = Secrets!findSecrets_collection
  <2>1. m.name = "findSecrets" /\ Len(m.takes) = 6
    BY <1>33, SecretsFunctionNames DEF FunctionIs
  <2>2. m \in {Secrets!findSecrets_DBus_standalone, Secrets!findSecrets_DBus_collection}
    BY <2>1, SecretsMethodNames DEF Secrets!DBusMethods, MethodIs
  <2> QED BY <1>33, <2>2, <1>13
<1>34. CASE f = Secrets!findSecrets_standalone
  <2>1. m.name = "findSecrets" /\ Len(m.takes) = 6
    BY <1>34, SecretsFunctionNames DEF FunctionIs
  <2>2. m \in {Secrets!findSecrets_DBus_standalone, Secrets!findSecrets_DBus_collection}
    BY <2>1, SecretsMethodNames DEF Secrets!DBusMethods, MethodIs
  <2> QED BY <1>34, <2>2, <1>14, <1>15
<1>35. CASE f = Secrets!deleteSecret
  <2>1. m.name = "deleteSecret" /\ Len(m.takes) = 3
    BY <1>35, SecretsFunctionNames DEF FunctionIs
  <2>2. m \in {Secrets!deleteSecret_DBus_standalone, Secrets!deleteSecret_DBus_collection}
    BY <2>1, SecretsMethodNames DEF Secrets!DBusMethods, MethodIs
  <2> QED BY <1>35, <2>2, <1>16, <1>17
<1>36. CASE f = Secrets!queryLockStatus
  <2>1. m.name = "queryLockStatus" /\ Len(m.takes) = 2
    BY <1>36, SecretsFunctionNames DEF FunctionIs
  <2>2. m = Secrets!queryLockStatus_DBus
    BY <2>1, SecretsMethodNames DEF Secrets!DBusMethods, MethodIs
  <2> QED BY <1>36, <2>2, <1>18
<1>37. CASE f = Secrets!modifyLockCode
  <2>1. m.name = "modifyLockCode" /\ Len(m.takes) = 5
    BY <1>37, SecretsFunctionNames DEF FunctionIs
  <2>2. m = Secrets!modifyLockCode_DBus
    BY <2>1, SecretsMethodNames DEF Secrets!DBusMethods, MethodIs
  <2> QED BY <1>37, <2>2, <1>19
<1>38. CASE f = Secrets!provideLockCode
  <2>1. m.name = "provideLockCode" /\ Len(m.takes) = 5
    BY <1>38, SecretsFunctionNames DEF FunctionIs
  <2>2. m = Secrets!provideLockCode_DBus
    BY <2>1, SecretsMethodNames DEF Secrets!DBusMethods, MethodIs
  <2> QED BY <1>38, <2>2, <1>20
<1>39. CASE f = Secrets!forgetLockCode
  <2>1. m.name = "forgetLockCode" /\ Len(m.takes) = 5
    BY <1>39, SecretsFunctionNames DEF FunctionIs
  <2>2. m = Secrets!forgetLockCode_DBus
    BY <2>1, SecretsMethodNames DEF Secrets!DBusMethods, MethodIs
  <2> QED BY <1>39, <2>2, <1>21
<1> QED BY <1>22, <1>23, <1>24, <1>25, <1>26, <1>27, <1>28, <1>29, <1>30, <1>31,
      <1>32, <1>33, <1>34, <1>35, <1>36, <1>37, <1>38, <1>39 DEF
      Secrets!ManagerFunctions

\* The names of the functions of CryptoManager and how many parameters they take
\* and give.
LEMMA CryptoFunctionNames ==
    /\ FunctionIs(Crypto!getPluginInfo, "getPluginInfo", 0, 0)
    /\ FunctionIs(Crypto!generateRandomData, "generateRandomData", 4, 4)
    /\ FunctionIs(Crypto!seedRandomDataGenerator, "seedRandomDataGenerator", 5, 5)
    /\ FunctionIs(Crypto!generateInitializationVector, "generateInitializationVector", 5, 5)
    /\ FunctionIs(Crypto!generateKey, "generateKey", 5, 5)
    /\ FunctionIs(Crypto!generateStoredKey, "generateStoredKey", 6, 6)
    /\ FunctionIs(Crypto!importKey, "importKey", 4, 4)
    /\ FunctionIs(Crypto!importStoredKey, "importStoredKey", 5, 5)
    /\ FunctionIs(Crypto!storedKey, "storedKey", 3, 3)
    /\ FunctionIs(Crypto!deleteStoredKey, "deleteStoredKey", 1, 1)
    /\ FunctionIs(Crypto!storedKeyIdentifiers, "storedKeyIdentifiers", 3, 3)
    /\ FunctionIs(Crypto!calculateDigest, "calculateDigest", 5, 5)
    /\ FunctionIs(Crypto!sign, "sign", 6, 6)
    /\ FunctionIs(Crypto!verify, "verify", 7, 7)
    /\ FunctionIs(Crypto!encrypt, "encrypt", 8, 8)
    /\ FunctionIs(Crypto!decrypt, "decrypt", 9, 9)
    /\ FunctionIs(Crypto!initializeCipherSession, "initializeCipherSession", 9, 9)
    /\ FunctionIs(Crypto!updateCipherSessionAuthentication,
                  "updateCipherSessionAuthentication", 4, 4)
    /\ FunctionIs(Crypto!updateCipherSession, "updateCipherSession", 4, 4)
    /\ FunctionIs(Crypto!finalizeCipherSession, "finalizeCipherSession", 4, 4)
    /\ FunctionIs(Crypto!queryLockStatus, "queryLockStatus", 2, 2)
    /\ FunctionIs(Crypto!modifyLockCode, "modifyLockCode", 3, 3)
    /\ FunctionIs(Crypto!provideLockCode, "provideLockCode", 3, 3)
    /\ FunctionIs(Crypto!forgetLockCode, "forgetLockCode", 3, 3)
<1>1. FunctionIs(Crypto!getPluginInfo, "getPluginInfo", 0, 0)
  BY DEF Crypto!getPluginInfo, Crypto!Function, FunctionIs
<1>2. FunctionIs(Crypto!generateRandomData, "generateRandomData", 4, 4)
  BY DEF Crypto!generateRandomData, Crypto!Function, FunctionIs
<1>3. FunctionIs(Crypto!seedRandomDataGenerator, "seedRandomDataGenerator", 5, 5)
  BY DEF Crypto!seedRandomDataGenerator, Crypto!Function, FunctionIs
<1>4. FunctionIs(Crypto!generateInitializationVector, "generateInitializationVector", 5, 5)
  BY DEF Crypto!generateInitializationVector, Crypto!Function, FunctionIs
<1>5. FunctionIs(Crypto!generateKey, "generateKey", 5, 5)
  BY DEF Crypto!generateKey, Crypto!Function, FunctionIs
<1>6. FunctionIs(Crypto!generateStoredKey, "generateStoredKey", 6, 6)
  BY DEF Crypto!generateStoredKey, Crypto!Function, FunctionIs
<1>7. FunctionIs(Crypto!importKey, "importKey", 4, 4)
  BY DEF Crypto!importKey, Crypto!Function, FunctionIs
<1>8. FunctionIs(Crypto!importStoredKey, "importStoredKey", 5, 5)
  BY DEF Crypto!importStoredKey, Crypto!Function, FunctionIs
<1>9. FunctionIs(Crypto!storedKey, "storedKey", 3, 3)
  BY DEF Crypto!storedKey, Crypto!Function, FunctionIs
<1>10. FunctionIs(Crypto!deleteStoredKey, "deleteStoredKey", 1, 1)
  BY DEF Crypto!deleteStoredKey, Crypto!Function, FunctionIs
<1>11. FunctionIs(Crypto!storedKeyIdentifiers, "storedKeyIdentifiers", 3, 3)
  BY DEF Crypto!storedKeyIdentifiers, Crypto!Function, FunctionIs
<1>12. FunctionIs(Crypto!calculateDigest, "calculateDigest", 5, 5)
  BY DEF Crypto!calculateDigest, Crypto!Function, FunctionIs
<1>13. FunctionIs(Crypto!sign, "sign", 6, 6)
  BY DEF Crypto!sign, Crypto!Function, FunctionIs
<1>14. FunctionIs(Crypto!verify, "verify", 7, 7)
  BY DEF Crypto!verify, Crypto!Function, FunctionIs
<1>15. FunctionIs(Crypto!encrypt, "encrypt", 8, 8)
  BY DEF Crypto!encrypt, Crypto!Function, FunctionIs
<1>16. FunctionIs(Crypto!decrypt, "decrypt", 9, 9)
  BY DEF Crypto!decrypt, Crypto!Function, FunctionIs
<1>17. FunctionIs(Crypto!initializeCipherSession, "initializeCipherSession", 9, 9)
  BY DEF Crypto!initializeCipherSession, Crypto!Function, FunctionIs
<1>18. FunctionIs(Crypto!updateCipherSessionAuthentication,
                  "updateCipherSessionAuthentication", 4, 4)
  BY DEF Crypto!updateCipherSessionAuthentication, Crypto!Function, FunctionIs
<1>19. FunctionIs(Crypto!updateCipherSession, "updateCipherSession", 4, 4)
  BY DEF Crypto!updateCipherSession, Crypto!Function, FunctionIs
<1>20. FunctionIs(Crypto!finalizeCipherSession, "finalizeCipherSession", 4, 4)
  BY DEF Crypto!finalizeCipherSession, Crypto!Function, FunctionIs
<1>21. FunctionIs(Crypto!queryLockStatus, "queryLockStatus", 2, 2)
  BY DEF Crypto!queryLockStatus, Crypto!Function, FunctionIs
<1>22. FunctionIs(Crypto!modifyLockCode, "modifyLockCode", 3, 3)
  BY DEF Crypto!modifyLockCode, Crypto!Function, FunctionIs
<1>23. FunctionIs(Crypto!provideLockCode, "provideLockCode", 3, 3)
  BY DEF Crypto!provideLockCode, Crypto!Function, FunctionIs
<1>24. FunctionIs(Crypto!forgetLockCode, "forgetLockCode", 3, 3)
  BY DEF Crypto!forgetLockCode, Crypto!Function, FunctionIs
<1> QED BY <1>1, <1>2, <1>3, <1>4, <1>5, <1>6, <1>7, <1>8, <1>9, <1>10, <1>11,
      <1>12, <1>13, <1>14, <1>15, <1>16, <1>17, <1>18, <1>19, <1>20, <1>21,
      <1>22, <1>23, <1>24

\* The names of the D-Bus methods and how many parameters they take.
LEMMA CryptoMethodNames ==
    /\ MethodIs(Crypto!getPluginInfo_DBus, "getPluginInfo", 0)
    /\ MethodIs(Crypto!generateRandomData_DBus, "generateRandomData", 4)
    /\ MethodIs(Crypto!seedRandomDataGenerator_DBus, "seedRandomDataGenerator", 5)
    /\ MethodIs(Crypto!generateInitializationVector_DBus, "generateInitializationVector", 5)
    /\ MethodIs(Crypto!generateKey_DBus, "generateKey", 5)
    /\ MethodIs(Crypto!generateStoredKey_DBus, "generateStoredKey", 6)
    /\ MethodIs(Crypto!importKey_DBus, "importKey", 4)
    /\ MethodIs(Crypto!importStoredKey_DBus, "importStoredKey", 5)
    /\ MethodIs(Crypto!storedKey_DBus, "storedKey", 3)
    /\ MethodIs(Crypto!deleteStoredKey_DBus, "deleteStoredKey", 1)
    /\ MethodIs(Crypto!storedKeyIdentifiers_DBus, "storedKeyIdentifiers", 3)
    /\ MethodIs(Crypto!calculateDigest_DBus, "calculateDigest", 5)
    /\ MethodIs(Crypto!sign_DBus, "sign", 6)
    /\ MethodIs(Crypto!verify_DBus, "verify", 7)
    /\ MethodIs(Crypto!encrypt_DBus, "encrypt", 8)
    /\ MethodIs(Crypto!decrypt_DBus, "decrypt", 9)
    /\ MethodIs(Crypto!initializeCipherSession_DBus, "initializeCipherSession", 9)
    /\ MethodIs(Crypto!updateCipherSessionAuthentication_DBus,
                "updateCipherSessionAuthentication", 4)
    /\ MethodIs(Crypto!updateCipherSession_DBus, "updateCipherSession", 4)
    /\ MethodIs(Crypto!finalizeCipherSession_DBus, "finalizeCipherSession", 4)
    /\ MethodIs(Crypto!queryLockStatus_DBus, "queryLockStatus", 2)
    /\ MethodIs(Crypto!modifyLockCode_DBus, "modifyLockCode", 3)
    /\ MethodIs(Crypto!provideLockCode_DBus, "provideLockCode", 3)
    /\ MethodIs(Crypto!forgetLockCode_DBus, "forgetLockCode", 3)
<1>1. MethodIs(Crypto!getPluginInfo_DBus, "getPluginInfo", 0)
  BY DEF Crypto!getPluginInfo_DBus, Crypto!Method, MethodIs
<1>2. MethodIs(Crypto!generateRandomData_DBus, "generateRandomData", 4)
  BY DEF Crypto!generateRandomData_DBus, Crypto!Method, MethodIs
<1>3. MethodIs(Crypto!seedRandomDataGenerator_DBus, "seedRandomDataGenerator", 5)
  BY DEF Crypto!seedRandomDataGenerator_DBus, Crypto!Method, MethodIs
<1>4. MethodIs(Crypto!generateInitializationVector_DBus, "generateInitializationVector", 5)
  BY DEF Crypto!generateInitializationVector_DBus, Crypto!Method, MethodIs
<1>5. MethodIs(Crypto!generateKey_DBus, "generateKey", 5)
  BY DEF Crypto!generateKey_DBus, Crypto!Method, MethodIs
<1>6. MethodIs(Crypto!generateStoredKey_DBus, "generateStoredKey", 6)
  BY DEF Crypto!generateStoredKey_DBus, Crypto!Method, MethodIs
<1>7. MethodIs(Crypto!importKey_DBus, "importKey", 4)
  BY DEF Crypto!importKey_DBus, Crypto!Method, MethodIs
<1>8. MethodIs(Crypto!importStoredKey_DBus, "importStoredKey", 5)
  BY DEF Crypto!importStoredKey_DBus, Crypto!Method, MethodIs
<1>9. MethodIs(Crypto!storedKey_DBus, "storedKey", 3)
  BY DEF Crypto!storedKey_DBus, Crypto!Method, MethodIs
<1>10. MethodIs(Crypto!deleteStoredKey_DBus, "deleteStoredKey", 1)
  BY DEF Crypto!deleteStoredKey_DBus, Crypto!Method, MethodIs
<1>11. MethodIs(Crypto!storedKeyIdentifiers_DBus, "storedKeyIdentifiers", 3)
  BY DEF Crypto!storedKeyIdentifiers_DBus, Crypto!Method, MethodIs
<1>12. MethodIs(Crypto!calculateDigest_DBus, "calculateDigest", 5)
  BY DEF Crypto!calculateDigest_DBus, Crypto!Method, MethodIs
<1>13. MethodIs(Crypto!sign_DBus, "sign", 6)
  BY DEF Crypto!sign_DBus, Crypto!Method, MethodIs
<1>14. MethodIs(Crypto!verify_DBus, "verify", 7)
  BY DEF Crypto!verify_DBus, Crypto!Method, MethodIs
<1>15. MethodIs(Crypto!encrypt_DBus, "encrypt", 8)
  BY DEF Crypto!encrypt_DBus, Crypto!Method, MethodIs
<1>16. MethodIs(Crypto!decrypt_DBus, "decrypt", 9)
  BY DEF Crypto!decrypt_DBus, Crypto!Method, MethodIs
<1>17. MethodIs(Crypto!initializeCipherSession_DBus, "initializeCipherSession", 9)
  BY DEF Crypto!initializeCipherSession_DBus, Crypto!Method, MethodIs
<1>18. MethodIs(Crypto!updateCipherSessionAuthentication_DBus,
                "updateCipherSessionAuthentication", 4)
  BY DEF Crypto!updateCipherSessionAuthentication_DBus, Crypto!Method, MethodIs
<1>19. MethodIs(Crypto!updateCipherSession_DBus, "updateCipherSession", 4)
  BY DEF Crypto!updateCipherSession_DBus, Crypto!Method, MethodIs
<1>20. MethodIs(Crypto!finalizeCipherSession_DBus, "finalizeCipherSession", 4)
  BY DEF Crypto!finalizeCipherSession_DBus, Crypto!Method, MethodIs
<1>21. MethodIs(Crypto!queryLockStatus_DBus, "queryLockStatus", 2)
  BY DEF Crypto!queryLockStatus_DBus, Crypto!Method, MethodIs
<1>22. MethodIs(Crypto!modifyLockCode_DBus, "modifyLockCode", 3)
  BY DEF Crypto!modifyLockCode_DBus, Crypto!Method, MethodIs
<1>23. MethodIs(Crypto!provideLockCode_DBus, "provideLockCode", 3)
  BY DEF Crypto!provideLockCode_DBus, Crypto!Method, MethodIs
<1>24. MethodIs(Crypto!forgetLockCode_DBus, "forgetLockCode", 3)
  BY DEF Crypto!forgetLockCode_DBus, Crypto!Method, MethodIs
<1> QED BY <1>1, <1>2, <1>3, <1>4, <1>5, <1>6, <1>7, <1>8, <1>9, <1>10, <1>11,
      <1>12, <1>13, <1>14, <1>15, <1>16, <1>17, <1>18, <1>19, <1>20, <1>21,
      <1>22, <1>23, <1>24

\* The hops of the calls of the Crypto API fit, whichever overload is called.
LEMMA CryptoTable ==
    ASSUME NEW f \in Crypto!ManagerFunctions, NEW m \in Crypto!DBusMethods,
           m.name = f.name, Len(m.takes) = Len(f.gives)
    PROVE  Fitting(f, m, Crypto!PendingCases, Crypto!FinishedReplies)
<1>1. Fitting(Crypto!getPluginInfo, Crypto!getPluginInfo_DBus,
            Crypto!PendingCases, Crypto!FinishedReplies)
  <2>1. Fits(Crypto!getPluginInfo, Crypto!getPluginInfo_DBus, Crypto!GetPluginInfo_pending)
    BY DEF Crypto!getPluginInfo, Crypto!getPluginInfo_DBus,
        Crypto!GetPluginInfo_pending, Crypto!Function, Crypto!Method,
        Crypto!Case, Crypto!Immediate, Fits, Names, ToSet, ServiceAddress,
        HoldsPlugin, LeftUnmapped
  <2>2. /\ Matches(Crypto!GetPluginInfo_pending.reply, Crypto!getPluginInfo.reply)
        /\ Crypto!GetPluginInfo_pending.immediate
    BY DEF Crypto!getPluginInfo, Crypto!GetPluginInfo_pending, Crypto!Function,
        Crypto!Case, Crypto!Immediate, Matches, IsPrefix
  <2>3. Crypto!getPluginInfo_DBus.type = "GetPluginInfo"
    BY DEF Crypto!getPluginInfo_DBus, Crypto!Method
  <2> QED BY <2>1, <2>2, <2>3 DEF Fitting, Crypto!PendingCases, Crypto!FinishedReplies
<1>2. Fitting(Crypto!generateRandomData, Crypto!generateRandomData_DBus,
            Crypto!PendingCases, Crypto!FinishedReplies)
  <2>1. Fits(Crypto!generateRandomData, Crypto!generateRandomData_DBus,
             Crypto!GenerateRandomData_pending)
    BY DEF Crypto!generateRandomData, Crypto!generateRandomData_DBus,
        Crypto!GenerateRandomData_pending, Crypto!Function, Crypto!Method,
        Crypto!Case, Fits, Names, ToSet, ServiceAddress, HoldsPlugin,
        LeftUnmapped
  <2>2. /\ Matches(Crypto!GenerateRandomData_pending.reply, Crypto!generateRandomData.reply)
        /\ Matches(Crypto!GenerateRandomData_finished, Crypto!generateRandomData.reply)
    BY DEF Crypto!generateRandomData, Crypto!GenerateRandomData_pending,
        Crypto!GenerateRandomData_finished, Crypto!Function, Crypto!Case,
        Matches, IsPrefix
  <2>3. Crypto!generateRandomData_DBus.type = "GenerateRandomData"
    BY DEF Crypto!generateRandomData_DBus, Crypto!Method
  <2> QED BY <2>1, <2>2, <2>3 DEF Fitting, Crypto!PendingCases, Crypto!FinishedReplies
<1>3. Fitting(Crypto!seedRandomDataGenerator, Crypto!seedRandomDataGenerator_DBus,
            Crypto!PendingCases, Crypto!FinishedReplies)
  <2>1. Fits(Crypto!seedRandomDataGenerator, Crypto!seedRandomDataGenerator_DBus,
             Crypto!SeedRandomDataGenerator_pending)
    BY DEF Crypto!seedRandomDataGenerator, Crypto!seedRandomDataGenerator_DBus,
        Crypto!SeedRandomDataGenerator_pending, Crypto!Function,
        Crypto!Method, Crypto!Case, Fits, Names, ToSet, ServiceAddress,
        HoldsPlugin, LeftUnmapped
  <2>2. /\ Matches(Crypto!SeedRandomDataGenerator_pending.reply,
                   Crypto!seedRandomDataGenerator.reply)
        /\ Matches(Crypto!SeedRandomDataGenerator_finished,
                   Crypto!seedRandomDataGenerator.reply)
    BY DEF Crypto!seedRandomDataGenerator,
        Crypto!SeedRandomDataGenerator_pending,
        Crypto!SeedRandomDataGenerator_finished, Crypto!Function, Crypto!Case,
        Matches, IsPrefix
  <2>3. Crypto!seedRandomDataGenerator_DBus.type = "SeedRandomDataGenerator"
    BY DEF Crypto!seedRandomDataGenerator_DBus, Crypto!Method
  <2> QED BY <2>1, <2>2, <2>3 DEF Fitting, Crypto!PendingCases, Crypto!FinishedReplies
<1>4. Fitting(Crypto!generateInitializationVector, Crypto!generateInitializationVector_DBus,
            Crypto!PendingCases, Crypto!FinishedReplies)
  <2>1. Fits(Crypto!generateInitializationVector, Crypto!generateInitializationVector_DBus,
             Crypto!GenerateInitializationVector_pending)
    BY DEF Crypto!generateInitializationVector,
        Crypto!generateInitializationVector_DBus,
        Crypto!GenerateInitializationVector_pending, Crypto!Function,
        Crypto!Method, Crypto!Case, Fits, Names, ToSet, ServiceAddress,
        HoldsPlugin, LeftUnmapped
  <2>2. /\ Matches(Crypto!GenerateInitializationVector_pending.reply,
                   Crypto!generateInitializationVector.reply)
        /\ Matches(Crypto!GenerateInitializationVector_finished,
                   Crypto!generateInitializationVector.reply)
    BY DEF Crypto!generateInitializationVector,
        Crypto!GenerateInitializationVector_pending,
        Crypto!GenerateInitializationVector_finished, Crypto!Function,
        Crypto!Case, Matches, IsPrefix
  <2>3. Crypto!generateInitializationVector_DBus.type = "GenerateInitializationVector"
    BY DEF Crypto!generateInitializationVector_DBus, Crypto!Method
  <2> QED BY <2>1, <2>2, <2>3 DEF Fitting, Crypto!PendingCases, Crypto!FinishedReplies
<1>5. Fitting(Crypto!generateKey, Crypto!generateKey_DBus,
            Crypto!PendingCases, Crypto!FinishedReplies)
  <2>1. Fits(Crypto!generateKey, Crypto!generateKey_DBus, Crypto!GenerateKey_pending)
    BY DEF Crypto!generateKey, Crypto!generateKey_DBus,
        Crypto!GenerateKey_pending, Crypto!Function, Crypto!Method,
        Crypto!Case, Fits, Names, ToSet, ServiceAddress, HoldsPlugin,
        LeftUnmapped
  <2>2. /\ Matches(Crypto!GenerateKey_pending.reply, Crypto!generateKey.reply)
        /\ Matches(Crypto!GenerateKey_finished, Crypto!generateKey.reply)
    BY DEF Crypto!generateKey, Crypto!GenerateKey_pending,
        Crypto!GenerateKey_finished, Crypto!Function, Crypto!Case, Matches,
        IsPrefix
  <2>3. Crypto!generateKey_DBus.type = "GenerateKey"
    BY DEF Crypto!generateKey_DBus, Crypto!Method
  <2> QED BY <2>1, <2>2, <2>3 DEF Fitting, Crypto!PendingCases, Crypto!FinishedReplies
<1>6. Fitting(Crypto!generateStoredKey, Crypto!generateStoredKey_DBus,
            Crypto!PendingCases, Crypto!FinishedReplies)
  <2>1. Fits(Crypto!generateStoredKey, Crypto!generateStoredKey_DBus,
             Crypto!GenerateStoredKey_pending)
    BY DEF Crypto!generateStoredKey, Crypto!generateStoredKey_DBus,
        Crypto!GenerateStoredKey_pending, Crypto!Function, Crypto!Method,
        Crypto!Case, Fits, Names, ToSet, ServiceAddress, HoldsPlugin,
        LeftUnmapped
  <2>2. /\ Matches(Crypto!GenerateStoredKey_pending.reply, Crypto!generateStoredKey.reply)
        /\ Matches(Crypto!GenerateStoredKey_finished, Crypto!generateStoredKey.reply)
    BY DEF Crypto!generateStoredKey, Crypto!GenerateStoredKey_pending,
        Crypto!GenerateStoredKey_finished, Crypto!Function, Crypto!Case,
        Matches, IsPrefix
  <2>3. Crypto!generateStoredKey_DBus.type = "GenerateStoredKey"
    BY DEF Crypto!generateStoredKey_DBus, Crypto!Method
  <2> QED BY <2>1, <2>2, <2>3 DEF Fitting, Crypto!PendingCases, Crypto!FinishedReplies
<1>7. Fitting(Crypto!importKey, Crypto!importKey_DBus,
            Crypto!PendingCases, Crypto!FinishedReplies)
  <2>1. Fits(Crypto!importKey, Crypto!importKey_DBus, Crypto!ImportKey_pending)
    BY DEF Crypto!importKey, Crypto!importKey_DBus, Crypto!ImportKey_pending,
        Crypto!Function, Crypto!Method, Crypto!Case, Fits, Names, ToSet,
        ServiceAddress, HoldsPlugin, LeftUnmapped
  <2>2. /\ Matches(Crypto!ImportKey_pending.reply, Crypto!importKey.reply)
        /\ Matches(Crypto!ImportKey_finished, Crypto!importKey.reply)
    BY DEF Crypto!importKey, Crypto!ImportKey_pending, Crypto!ImportKey_finished,
        Crypto!Function, Crypto!Case, Matches, IsPrefix
  <2>3. Crypto!importKey_DBus.type = "ImportKey"
    BY DEF Crypto!importKey_DBus, Crypto!Method
  <2> QED BY <2>1, <2>2, <2>3 DEF Fitting, Crypto!PendingCases, Crypto!FinishedReplies
<1>8. Fitting(Crypto!importStoredKey, Crypto!importStoredKey_DBus,
            Crypto!PendingCases, Crypto!FinishedReplies)
  <2>1. Fits(Crypto!importStoredKey, Crypto!importStoredKey_DBus,
             Crypto!ImportStoredKey_pending)
    BY DEF Crypto!importStoredKey, Crypto!importStoredKey_DBus,
        Crypto!ImportStoredKey_pending, Crypto!Function, Crypto!Method,
        Crypto!Case, Fits, Names, ToSet, ServiceAddress, HoldsPlugin,
        LeftUnmapped
  <2>2. /\ Matches(Crypto!ImportStoredKey_pending.reply, Crypto!importStoredKey.reply)
        /\ Matches(Crypto!ImportStoredKey_finished, Crypto!importStoredKey.reply)
    BY DEF Crypto!importStoredKey, Crypto!ImportStoredKey_pending,
        Crypto!ImportStoredKey_finished, Crypto!Function, Crypto!Case,
        Matches, IsPrefix
  <2>3. Crypto!importStoredKey_DBus.type = "ImportStoredKey"
    BY DEF Crypto!importStoredKey_DBus, Crypto!Method
  <2> QED BY <2>1, <2>2, <2>3 DEF Fitting, Crypto!PendingCases, Crypto!FinishedReplies
<1>9. Fitting(Crypto!storedKey, Crypto!storedKey_DBus,
            Crypto!PendingCases, Crypto!FinishedReplies)
  <2>1. Fits(Crypto!storedKey, Crypto!storedKey_DBus, Crypto!StoredKey_pending)
    BY DEF Crypto!storedKey, Crypto!storedKey_DBus, Crypto!StoredKey_pending,
        Crypto!Function, Crypto!Method, Crypto!Case, Fits, Names, ToSet,
        ServiceAddress, HoldsPlugin, LeftUnmapped
  <2>2. /\ Matches(Crypto!StoredKey_pending.reply, Crypto!storedKey.reply)
        /\ Matches(Crypto!StoredKey_finished, Crypto!storedKey.reply)
    BY DEF Crypto!storedKey, Crypto!StoredKey_pending, Crypto!StoredKey_finished,
        Crypto!Function, Crypto!Case, Matches, IsPrefix
  <2>3. Crypto!storedKey_DBus.type = "StoredKey"
    BY DEF Crypto!storedKey_DBus, Crypto!Method
  <2> QED BY <2>1, <2>2, <2>3 DEF Fitting, Crypto!PendingCases, Crypto!FinishedReplies
<1>10. Fitting(Crypto!deleteStoredKey, Crypto!deleteStoredKey_DBus,
            Crypto!PendingCases, Crypto!FinishedReplies)
  <2>1. Fits(Crypto!deleteStoredKey, Crypto!deleteStoredKey_DBus,
             Crypto!DeleteStoredKey_pending)
    BY DEF Crypto!deleteStoredKey, Crypto!deleteStoredKey_DBus,
        Crypto!DeleteStoredKey_pending, Crypto!Function, Crypto!Method,
        Crypto!Case, Fits, Names, ToSet, ServiceAddress, HoldsPlugin,
        LeftUnmapped
  <2>2. /\ Matches(Crypto!DeleteStoredKey_pending.reply, Crypto!deleteStoredKey.reply)
        /\ Matches(Crypto!DeleteStoredKey_finished, Crypto!deleteStoredKey.reply)
    BY DEF Crypto!deleteStoredKey, Crypto!DeleteStoredKey_pending,
        Crypto!DeleteStoredKey_finished, Crypto!Function, Crypto!Case,
        Matches, IsPrefix
  <2>3. Crypto!deleteStoredKey_DBus.type = "DeleteStoredKey"
    BY DEF Crypto!deleteStoredKey_DBus, Crypto!Method
  <2> QED BY <2>1, <2>2, <2>3 DEF Fitting, Crypto!PendingCases, Crypto!FinishedReplies
<1>11. Fitting(Crypto!storedKeyIdentifiers, Crypto!storedKeyIdentifiers_DBus,
            Crypto!PendingCases, Crypto!FinishedReplies)
  <2>1. Fits(Crypto!storedKeyIdentifiers, Crypto!storedKeyIdentifiers_DBus,
             Crypto!StoredKeyIdentifiers_pending)
    BY DEF Crypto!storedKeyIdentifiers, Crypto!storedKeyIdentifiers_DBus,
        Crypto!StoredKeyIdentifiers_pending, Crypto!Function, Crypto!Method,
        Crypto!Case, Fits, Names, ToSet, ServiceAddress, HoldsPlugin,
        LeftUnmapped
  <2>2. /\ Matches(Crypto!StoredKeyIdentifiers_pending.reply,
                   Crypto!storedKeyIdentifiers.reply)
        /\ Matches(Crypto!StoredKeyIdentifiers_finished, Crypto!storedKeyIdentifiers.reply)
    BY DEF Crypto!storedKeyIdentifiers, Crypto!StoredKeyIdentifiers_pending,
        Crypto!StoredKeyIdentifiers_finished, Crypto!Function, Crypto!Case,
        Matches, IsPrefix
  <2>3. Crypto!storedKeyIdentifiers_DBus.type = "StoredKeyIdentifiers"
    BY DEF Crypto!storedKeyIdentifiers_DBus, Crypto!Method
  <2> QED BY <2>1, <2>2, <2>3 DEF Fitting, Crypto!PendingCases, Crypto!FinishedReplies
<1>12. Fitting(Crypto!calculateDigest, Crypto!calculateDigest_DBus,
            Crypto!PendingCases, Crypto!FinishedReplies)
  <2>1. Fits(Crypto!calculateDigest, Crypto!calculateDigest_DBus,
             Crypto!CalculateDigest_pending)
    BY DEF Crypto!calculateDigest, Crypto!calculateDigest_DBus,
        Crypto!CalculateDigest_pending, Crypto!Function, Crypto!Method,
        Crypto!Case, Fits, Names, ToSet, ServiceAddress, HoldsPlugin,
        LeftUnmapped
  <2>2. /\ Matches(Crypto!CalculateDigest_pending.reply, Crypto!calculateDigest.reply)
        /\ Matches(Crypto!CalculateDigest_finished, Crypto!calculateDigest.reply)
    BY DEF Crypto!calculateDigest, Crypto!CalculateDigest_pending,
        Crypto!CalculateDigest_finished, Crypto!Function, Crypto!Case,
        Matches, IsPrefix
  <2>3. Crypto!calculateDigest_DBus.type = "CalculateDigest"
    BY DEF Crypto!calculateDigest_DBus, Crypto!Method
  <2> QED BY <2>1, <2>2, <2>3 DEF Fitting, Crypto!PendingCases, Crypto!FinishedReplies
<1>13. Fitting(Crypto!sign, Crypto!sign_DBus,
            Crypto!PendingCases, Crypto!FinishedReplies)
  <2>1. Fits(Crypto!sign, Crypto!sign_DBus, Crypto!Sign_pending)
    BY DEF Crypto!sign, Crypto!sign_DBus, Crypto!Sign_pending, Crypto!Function,
        Crypto!Method, Crypto!Case, Fits, Names, ToSet, ServiceAddress,
        HoldsPlugin, LeftUnmapped
  <2>2. /\ Matches(Crypto!Sign_pending.reply, Crypto!sign.reply)
        /\ Matches(Crypto!Sign_finished, Crypto!sign.reply)
    BY DEF Crypto!sign, Crypto!Sign_pending, Crypto!Sign_finished,
        Crypto!Function, Crypto!Case, Matches, IsPrefix
  <2>3. Crypto!sign_DBus.type = "Sign"
    BY DEF Crypto!sign_DBus, Crypto!Method
  <2> QED BY <2>1, <2>2, <2>3 DEF Fitting, Crypto!PendingCases, Crypto!FinishedReplies
<1>14. Fitting(Crypto!verify, Crypto!verify_DBus,
            Crypto!PendingCases, Crypto!FinishedReplies)
  <2>1. Fits(Crypto!verify, Crypto!verify_DBus, Crypto!Verify_pending)
    BY DEF Crypto!verify, Crypto!verify_DBus, Crypto!Verify_pending,
        Crypto!Function, Crypto!Method, Crypto!Case, Fits, Names, ToSet,
        ServiceAddress, HoldsPlugin, LeftUnmapped
  <2>2. Crypto!verify_DBus.type \in Mistyped
    BY DEF Crypto!verify_DBus, Crypto!Method, Mistyped
  <2>3. Crypto!verify_DBus.type = "Verify"
    BY DEF Crypto!verify_DBus, Crypto!Method
  <2> QED BY <2>1, <2>2, <2>3 DEF Fitting, Crypto!PendingCases, Crypto!FinishedReplies
<1>15. Fitting(Crypto!encrypt, Crypto!encrypt_DBus,
            Crypto!PendingCases, Crypto!FinishedReplies)
  <2>1. Fits(Crypto!encrypt, Crypto!encrypt_DBus, Crypto!Encrypt_pending)
    BY DEF Crypto!encrypt, Crypto!encrypt_DBus, Crypto!Encrypt_pending,
        Crypto!Function, Crypto!Method, Crypto!Case, Fits, Names, ToSet,
        ServiceAddress, HoldsPlugin, LeftUnmapped
  <2>2. /\ Matches(Crypto!Encrypt_pending.reply, Crypto!encrypt.reply)
        /\ Matches(Crypto!Encrypt_finished, Crypto!encrypt.reply)
    BY DEF Crypto!encrypt, Crypto!Encrypt_pending, Crypto!Encrypt_finished,
        Crypto!Function, Crypto!Case, Matches, IsPrefix
  <2>3. Crypto!encrypt_DBus.type = "Encrypt"
    BY DEF Crypto!encrypt_DBus, Crypto!Method
  <2> QED BY <2>1, <2>2, <2>3 DEF Fitting, Crypto!PendingCases, Crypto!FinishedReplies
<1>16. Fitting(Crypto!decrypt, Crypto!decrypt_DBus,
            Crypto!PendingCases, Crypto!FinishedReplies)
  <2>1. Fits(Crypto!decrypt, Crypto!decrypt_DBus, Crypto!Decrypt_pending)
    BY DEF Crypto!decrypt, Crypto!decrypt_DBus, Crypto!Decrypt_pending,
        Crypto!Function, Crypto!Method, Crypto!Case, Fits, Names, ToSet,
        ServiceAddress, HoldsPlugin, LeftUnmapped
  <2>2. Crypto!decrypt_DBus.type \in Mistyped
    BY DEF Crypto!decrypt_DBus, Crypto!Method, Mistyped
  <2>3. Crypto!decrypt_DBus.type = "Decrypt"
    BY DEF Crypto!decrypt_DBus, Crypto!Method
  <2> QED BY <2>1, <2>2, <2>3 DEF Fitting, Crypto!PendingCases, Crypto!FinishedReplies
<1>17. Fitting(Crypto!initializeCipherSession, Crypto!initializeCipherSession_DBus,
            Crypto!PendingCases, Crypto!FinishedReplies)
  <2>1. Fits(Crypto!initializeCipherSession, Crypto!initializeCipherSession_DBus,
             Crypto!InitializeCipherSession_pending)
    BY DEF Crypto!initializeCipherSession, Crypto!initializeCipherSession_DBus,
        Crypto!InitializeCipherSession_pending, Crypto!Function,
        Crypto!Method, Crypto!Case, Fits, Names, ToSet, ServiceAddress,
        HoldsPlugin, LeftUnmapped
  <2>2. /\ Matches(Crypto!InitializeCipherSession_pending.reply,
                   Crypto!initializeCipherSession.reply)
        /\ Matches(Crypto!InitializeCipherSession_finished,
                   Crypto!initializeCipherSession.reply)
    BY DEF Crypto!initializeCipherSession,
        Crypto!InitializeCipherSession_pending,
        Crypto!InitializeCipherSession_finished, Crypto!Function, Crypto!Case,
        Matches, IsPrefix
  <2>3. Crypto!initializeCipherSession_DBus.type = "InitializeCipherSession"
    BY DEF Crypto!initializeCipherSession_DBus, Crypto!Method
  <2> QED BY <2>1, <2>2, <2>3 DEF Fitting, Crypto!PendingCases, Crypto!FinishedReplies
<1>18. Fitting(Crypto!updateCipherSessionAuthentication,
               Crypto!updateCipherSessionAuthentication_DBus,
            Crypto!PendingCases, Crypto!FinishedReplies)
  <2>1. Fits(Crypto!updateCipherSessionAuthentication,
             Crypto!updateCipherSessionAuthentication_DBus,
             Crypto!UpdateCipherSessionAuthentication_pending)
    BY DEF Crypto!updateCipherSessionAuthentication,
        Crypto!updateCipherSessionAuthentication_DBus,
        Crypto!UpdateCipherSessionAuthentication_pending, Crypto!Function,
        Crypto!Method, Crypto!Case, Fits, Names, ToSet, ServiceAddress,
        HoldsPlugin, LeftUnmapped
  <2>2. /\ Matches(Crypto!UpdateCipherSessionAuthentication_pending.reply,
                   Crypto!updateCipherSessionAuthentication.reply)
        /\ Matches(Crypto!UpdateCipherSessionAuthentication_finished,
                   Crypto!updateCipherSessionAuthentication.reply)
    BY DEF Crypto!updateCipherSessionAuthentication,
        Crypto!UpdateCipherSessionAuthentication_pending,
        Crypto!UpdateCipherSessionAuthentication_finished, Crypto!Function,
        Crypto!Case, Matches, IsPrefix
  <2>3. Crypto!updateCipherSessionAuthentication_DBus.type = "UpdateCipherSessionAuthentication"
    BY DEF Crypto!updateCipherSessionAuthentication_DBus, Crypto!Method
  <2> QED BY <2>1, <2>2, <2>3 DEF Fitting, Crypto!PendingCases, Crypto!FinishedReplies
<1>19. Fitting(Crypto!updateCipherSession, Crypto!updateCipherSession_DBus,
            Crypto!PendingCases, Crypto!FinishedReplies)
  <2>1. Fits(Crypto!updateCipherSession, Crypto!updateCipherSession_DBus,
             Crypto!UpdateCipherSession_pending)
    BY DEF Crypto!updateCipherSession, Crypto!updateCipherSession_DBus,
        Crypto!UpdateCipherSession_pending, Crypto!Function, Crypto!Method,
        Crypto!Case, Fits, Names, ToSet, ServiceAddress, HoldsPlugin,
        LeftUnmapped
  <2>2. /\ Matches(Crypto!UpdateCipherSession_pending.reply, Crypto!updateCipherSession.reply)
        /\ Matches(Crypto!UpdateCipherSession_finished, Crypto!updateCipherSession.reply)
    BY DEF Crypto!updateCipherSession, Crypto!UpdateCipherSession_pending,
        Crypto!UpdateCipherSession_finished, Crypto!Function, Crypto!Case,
        Matches, IsPrefix
  <2>3. Crypto!updateCipherSession_DBus.type = "UpdateCipherSession"
    BY DEF Crypto!updateCipherSession_DBus, Crypto!Method
  <2> QED BY <2>1, <2>2, <2>3 DEF Fitting, Crypto!PendingCases, Crypto!FinishedReplies
<1>20. Fitting(Crypto!finalizeCipherSession, Crypto!finalizeCipherSession_DBus,
            Crypto!PendingCases, Crypto!FinishedReplies)
  <2>1. Fits(Crypto!finalizeCipherSession, Crypto!finalizeCipherSession_DBus,
             Crypto!FinalizeCipherSession_pending)
    BY DEF Crypto!finalizeCipherSession, Crypto!finalizeCipherSession_DBus,
        Crypto!FinalizeCipherSession_pending, Crypto!Function, Crypto!Method,
        Crypto!Case, Fits, Names, ToSet, ServiceAddress, HoldsPlugin,
        LeftUnmapped
  <2>2. Crypto!finalizeCipherSession.name = "finalizeCipherSession"
    BY DEF Crypto!finalizeCipherSession, Crypto!Function
  <2>3. Crypto!finalizeCipherSession_DBus.type = "FinalizeCipherSession"
    BY DEF Crypto!finalizeCipherSession_DBus, Crypto!Method
  <2> QED BY <2>1, <2>2, <2>3 DEF Fitting, Crypto!PendingCases, Crypto!FinishedReplies
<1>21. Fitting(Crypto!queryLockStatus, Crypto!queryLockStatus_DBus,
            Crypto!PendingCases, Crypto!FinishedReplies)
  <2>1. Fits(Crypto!queryLockStatus, Crypto!queryLockStatus_DBus,
             Crypto!QueryLockStatus_pending)
    BY DEF Crypto!queryLockStatus, Crypto!queryLockStatus_DBus,
        Crypto!QueryLockStatus_pending, Crypto!Function, Crypto!Method,
        Crypto!Case, Fits, Names, ToSet, ServiceAddress, HoldsPlugin,
        LeftUnmapped
  <2>2. /\ Matches(Crypto!QueryLockStatus_pending.reply, Crypto!queryLockStatus.reply)
        /\ Matches(Crypto!QueryLockStatus_finished, Crypto!queryLockStatus.reply)
    BY DEF Crypto!queryLockStatus, Crypto!QueryLockStatus_pending,
        Crypto!QueryLockStatus_finished, Crypto!Function, Crypto!Case,
        Matches, IsPrefix
  <2>3. Crypto!queryLockStatus_DBus.type = "QueryLockStatus"
    BY DEF Crypto!queryLockStatus_DBus, Crypto!Method
  <2> QED BY <2>1, <2>2, <2>3 DEF Fitting, Crypto!PendingCases, Crypto!FinishedReplies
<1>22. Fitting(Crypto!modifyLockCode, Crypto!modifyLockCode_DBus,
            Crypto!PendingCases, Crypto!FinishedReplies)
  <2>1. Fits(Crypto!modifyLockCode, Crypto!modifyLockCode_DBus, Crypto!ModifyLockCode_pending)
    BY DEF Crypto!modifyLockCode, Crypto!modifyLockCode_DBus,
        Crypto!ModifyLockCode_pending, Crypto!Function, Crypto!Method,
        Crypto!Case, Fits, Names, ToSet, ServiceAddress, HoldsPlugin,
        LeftUnmapped
  <2>2. /\ Matches(Crypto!ModifyLockCode_pending.reply, Crypto!modifyLockCode.reply)
        /\ Matches(Crypto!ModifyLockCode_finished, Crypto!modifyLockCode.reply)
    BY DEF Crypto!modifyLockCode, Crypto!ModifyLockCode_pending,
        Crypto!ModifyLockCode_finished, Crypto!Function, Crypto!Case, Matches,
        IsPrefix
  <2>3. Crypto!modifyLockCode_DBus.type = "ModifyLockCode"
    BY DEF Crypto!modifyLockCode_DBus, Crypto!Method
  <2> QED BY <2>1, <2>2, <2>3 DEF Fitting, Crypto!PendingCases, Crypto!FinishedReplies
<1>23. Fitting(Crypto!provideLockCode, Crypto!provideLockCode_DBus,
            Crypto!PendingCases, Crypto!FinishedReplies)
  <2>1. Fits(Crypto!provideLockCode, Crypto!provideLockCode_DBus,
             Crypto!ProvideLockCode_pending)
    BY DEF Crypto!provideLockCode, Crypto!provideLockCode_DBus,
        Crypto!ProvideLockCode_pending, Crypto!Function, Crypto!Method,
        Crypto!Case, Fits, Names, ToSet, ServiceAddress, HoldsPlugin,
        LeftUnmapped
  <2>2. /\ Matches(Crypto!ProvideLockCode_pending.reply, Crypto!provideLockCode.reply)
        /\ Matches(Crypto!ProvideLockCode_finished, Crypto!provideLockCode.reply)
    BY DEF Crypto!provideLockCode, Crypto!ProvideLockCode_pending,
        Crypto!ProvideLockCode_finished, Crypto!Function, Crypto!Case,
        Matches, IsPrefix
  <2>3. Crypto!provideLockCode_DBus.type = "ProvideLockCode"
    BY DEF Crypto!provideLockCode_DBus, Crypto!Method
  <2> QED BY <2>1, <2>2, <2>3 DEF Fitting, Crypto!PendingCases, Crypto!FinishedReplies
<1>24. Fitting(Crypto!forgetLockCode, Crypto!forgetLockCode_DBus,
            Crypto!PendingCases, Crypto!FinishedReplies)
  <2>1. Fits(Crypto!forgetLockCode, Crypto!forgetLockCode_DBus, Crypto!ForgetLockCode_pending)
    BY DEF Crypto!forgetLockCode, Crypto!forgetLockCode_DBus,
        Crypto!ForgetLockCode_pending, Crypto!Function, Crypto!Method,
        Crypto!Case, Fits, Names, ToSet, ServiceAddress, HoldsPlugin,
        LeftUnmapped
  <2>2. /\ Matches(Crypto!ForgetLockCode_pending.reply, Crypto!forgetLockCode.reply)
        /\ Matches(Crypto!ForgetLockCode_finished, Crypto!forgetLockCode.reply)
    BY DEF Crypto!forgetLockCode, Crypto!ForgetLockCode_pending,
        Crypto!ForgetLockCode_finished, Crypto!Function, Crypto!Case, Matches,
        IsPrefix
  <2>3. Crypto!forgetLockCode_DBus.type = "ForgetLockCode"
    BY DEF Crypto!forgetLockCode_DBus, Crypto!Method
  <2> QED BY <2>1, <2>2, <2>3 DEF Fitting, Crypto!PendingCases, Crypto!FinishedReplies
<1>25. CASE f = Crypto!getPluginInfo
  <2>1. m.name = "getPluginInfo" /\ Len(m.takes) = 0
    BY <1>25, CryptoFunctionNames DEF FunctionIs
  <2>2. m = Crypto!getPluginInfo_DBus
    BY <2>1, CryptoMethodNames DEF Crypto!DBusMethods, MethodIs
  <2> QED BY <1>25, <2>2, <1>1
<1>26. CASE f = Crypto!generateRandomData
  <2>1. m.name = "generateRandomData" /\ Len(m.takes) = 4
    BY <1>26, CryptoFunctionNames DEF FunctionIs
  <2>2. m = Crypto!generateRandomData_DBus
    BY <2>1, CryptoMethodNames DEF Crypto!DBusMethods, MethodIs
  <2> QED BY <1>26, <2>2, <1>2
<1>27. CASE f = Crypto!seedRandomDataGenerator
  <2>1. m.name = "seedRandomDataGenerator" /\ Len(m.takes) = 5
    BY <1>27, CryptoFunctionNames DEF FunctionIs
  <2>2. m = Crypto!seedRandomDataGenerator_DBus
    BY <2>1, CryptoMethodNames DEF Crypto!DBusMethods, MethodIs
  <2> QED BY <1>27, <2>2, <1>3
<1>28. CASE f = Crypto!generateInitializationVector
  <2>1. m.name = "generateInitializationVector" /\ Len(m.takes) = 5
    BY <1>28, CryptoFunctionNames DEF FunctionIs
  <2>2. m = Crypto!generateInitializationVector_DBus
    BY <2>1, CryptoMethodNames DEF Crypto!DBusMethods, MethodIs
  <2> QED BY <1>28, <2>2, <1>4
<1>29. CASE f = Crypto!generateKey
  <2>1. m.name = "generateKey" /\ Len(m.takes) = 5
    BY <1>29, CryptoFunctionNames DEF FunctionIs
  <2>2. m = Crypto!generateKey_DBus
    BY <2>1, CryptoMethodNames DEF Crypto!DBusMethods, MethodIs
  <2> QED BY <1>29, <2>2, <1>5
<1>30. CASE f = Crypto!generateStoredKey
  <2>1. m.name = "generateStoredKey" /\ Len(m.takes) = 6
    BY <1>30, CryptoFunctionNames DEF FunctionIs
  <2>2. m = Crypto!generateStoredKey_DBus
    BY <2>1, CryptoMethodNames DEF Crypto!DBusMethods, MethodIs
  <2> QED BY <1>30, <2>2, <1>6
<1>31. CASE f = Crypto!importKey
  <2>1. m.name = "importKey" /\ Len(m.takes) = 4
    BY <1>31, CryptoFunctionNames DEF FunctionIs
  <2>2. m = Crypto!importKey_DBus
    BY <2>1, CryptoMethodNames DEF Crypto!DBusMethods, MethodIs
  <2> QED BY <1>31, <2>2, <1>7
<1>32. CASE f = Crypto!importStoredKey
  <2>1. m.name = "importStoredKey" /\ Len(m.takes) = 5
    BY <1>32, CryptoFunctionNames DEF FunctionIs
  <2>2. m = Crypto!importStoredKey_DBus
    BY <2>1, CryptoMethodNames DEF Crypto!DBusMethods, MethodIs
  <2> QED BY <1>32, <2>2, <1>8
<1>33. CASE f = Crypto!storedKey
  <2>1. m.name = "storedKey" /\ Len(m.takes) = 3
    BY <1>33, CryptoFunctionNames DEF FunctionIs
  <2>2. m = Crypto!storedKey_DBus
    BY <2>1, CryptoMethodNames DEF Crypto!DBusMethods, MethodIs
  <2> QED BY <1>33, <2>2, <1>9
<1>34. CASE f = Crypto!deleteStoredKey
  <2>1. m.name = "deleteStoredKey" /\ Len(m.takes) = 1
    BY <1>34, CryptoFunctionNames DEF FunctionIs
  <2>2. m = Crypto!deleteStoredKey_DBus
    BY <2>1, CryptoMethodNames DEF Crypto!DBusMethods, MethodIs
  <2> QED BY <1>34, <2>2, <1>10
<1>35. CASE f = Crypto!storedKeyIdentifiers
  <2>1. m.name = "storedKeyIdentifiers" /\ Len(m.takes) = 3
    BY <1>35, CryptoFunctionNames DEF FunctionIs
  <2>2. m = Crypto!storedKeyIdentifiers_DBus
    BY <2>1, CryptoMethodNames DEF Crypto!DBusMethods, MethodIs
  <2> QED BY <1>35, <2>2, <1>11
<1>36. CASE f = Crypto!calculateDigest
  <2>1. m.name = "calculateDigest" /\ Len(m.takes) = 5
    BY <1>36, CryptoFunctionNames DEF FunctionIs
  <2>2. m = Crypto!calculateDigest_DBus
    BY <2>1, CryptoMethodNames DEF Crypto!DBusMethods, MethodIs
  <2> QED BY <1>36, <2>2, <1>12
<1>37. CASE f = Crypto!sign
  <2>1. m.name = "sign" /\ Len(m.takes) = 6
    BY <1>37, CryptoFunctionNames DEF FunctionIs
  <2>2. m = Crypto!sign_DBus
    BY <2>1, CryptoMethodNames DEF Crypto!DBusMethods, MethodIs
  <2> QED BY <1>37, <2>2, <1>13
<1>38. CASE f = Crypto!verify
  <2>1. m.name = "verify" /\ Len(m.takes) = 7
    BY <1>38, CryptoFunctionNames DEF FunctionIs
  <2>2. m = Crypto!verify_DBus
    BY <2>1, CryptoMethodNames DEF Crypto!DBusMethods, MethodIs
  <2> QED BY <1>38, <2>2, <1>14
<1>39. CASE f = Crypto!encrypt
  <2>1. m.name = "encrypt" /\ Len(m.takes) = 8
    BY <1>39, CryptoFunctionNames DEF FunctionIs
  <2>2. m = Crypto!encrypt_DBus
    BY <2>1, CryptoMethodNames DEF Crypto!DBusMethods, MethodIs
  <2> QED BY <1>39, <2>2, <1>15
<1>40. CASE f = Crypto!decrypt
  <2>1. m.name = "decrypt" /\ Len(m.takes) = 9
    BY <1>40, CryptoFunctionNames DEF FunctionIs
  <2>2. m = Crypto!decrypt_DBus
    BY <2>1, CryptoMethodNames DEF Crypto!DBusMethods, MethodIs
  <2> QED BY <1>40, <2>2, <1>16
<1>41. CASE f = Crypto!initializeCipherSession
  <2>1. m.name = "initializeCipherSession" /\ Len(m.takes) = 9
    BY <1>41, CryptoFunctionNames DEF FunctionIs
  <2>2. m = Crypto!initializeCipherSession_DBus
    BY <2>1, CryptoMethodNames DEF Crypto!DBusMethods, MethodIs
  <2> QED BY <1>41, <2>2, <1>17
<1>42. CASE f = Crypto!updateCipherSessionAuthentication
  <2>1. m.name = "updateCipherSessionAuthentication" /\ Len(m.takes) = 4
    BY <1>42, CryptoFunctionNames DEF FunctionIs
  <2>2. m = Crypto!updateCipherSessionAuthentication_DBus
    BY <2>1, CryptoMethodNames DEF Crypto!DBusMethods, MethodIs
  <2> QED BY <1>42, <2>2, <1>18
<1>43. CASE f = Crypto!updateCipherSession
  <2>1. m.name = "updateCipherSession" /\ Len(m.takes) = 4
    BY <1>43, CryptoFunctionNames DEF FunctionIs
  <2>2. m = Crypto!updateCipherSession_DBus
    BY <2>1, CryptoMethodNames DEF Crypto!DBusMethods, MethodIs
  <2> QED BY <1>43, <2>2, <1>19
<1>44. CASE f = Crypto!finalizeCipherSession
  <2>1. m.name = "finalizeCipherSession" /\ Len(m.takes) = 4
    BY <1>44, CryptoFunctionNames DEF FunctionIs
  <2>2. m = Crypto!finalizeCipherSession_DBus
    BY <2>1, CryptoMethodNames DEF Crypto!DBusMethods, MethodIs
  <2> QED BY <1>44, <2>2, <1>20
<1>45. CASE f = Crypto!queryLockStatus
  <2>1. m.name = "queryLockStatus" /\ Len(m.takes) = 2
    BY <1>45, CryptoFunctionNames DEF FunctionIs
  <2>2. m = Crypto!queryLockStatus_DBus
    BY <2>1, CryptoMethodNames DEF Crypto!DBusMethods, MethodIs
  <2> QED BY <1>45, <2>2, <1>21
<1>46. CASE f = Crypto!modifyLockCode
  <2>1. m.name = "modifyLockCode" /\ Len(m.takes) = 3
    BY <1>46, CryptoFunctionNames DEF FunctionIs
  <2>2. m = Crypto!modifyLockCode_DBus
    BY <2>1, CryptoMethodNames DEF Crypto!DBusMethods, MethodIs
  <2> QED BY <1>46, <2>2, <1>22
<1>47. CASE f = Crypto!provideLockCode
  <2>1. m.name = "provideLockCode" /\ Len(m.takes) = 3
    BY <1>47, CryptoFunctionNames DEF FunctionIs
  <2>2. m = Crypto!provideLockCode_DBus
    BY <2>1, CryptoMethodNames DEF Crypto!DBusMethods, MethodIs
  <2> QED BY <1>47, <2>2, <1>23
<1>48. CASE f = Crypto!forgetLockCode
  <2>1. m.name = "forgetLockCode" /\ Len(m.takes) = 3
    BY <1>48, CryptoFunctionNames DEF FunctionIs
  <2>2. m = Crypto!forgetLockCode_DBus
    BY <2>1, CryptoMethodNames DEF Crypto!DBusMethods, MethodIs
  <2> QED BY <1>48, <2>2, <1>24
<1> QED BY <1>25, <1>26, <1>27, <1>28, <1>29, <1>30, <1>31, <1>32, <1>33, <1>34,
      <1>35, <1>36, <1>37, <1>38, <1>39, <1>40, <1>41, <1>42, <1>43, <1>44,
      <1>45, <1>46, <1>47, <1>48 DEF Crypto!ManagerFunctions
-----------------------------------------------------------------------------
(* Where calls start. *)

\* What every function of a manager is like.
WellFormed(f) ==
    /\ Len(f.gives) \in Nat /\ DOMAIN f.gives = 1 .. Len(f.gives)
    /\ f.accepts = Unchecked \/ f.accepts.param \in Names(f.takes)
    /\ f.service => "userInteractionMode" \in Names(f.takes)
    /\ Matches(f.reply, f.reply)

\* The function f is called by startRequest with attributes of the object, and
\* its refusals are understood where errors are not looked at.
StartedAs(f, s, attributes) ==
    /\ f.name = s.call.name /\ f.takes = s.call.args
    /\ Names(f.takes) \subseteq attributes
    /\ f.name # "finalizeCipherSession"
    /\ s.answers.errors \/ Matches(f.refusal, f.reply)

\* The functions of SecretManager check and use parameters they take.
LEMMA SecretsFunctions ==
    ASSUME NEW f \in Secrets!ManagerFunctions
    PROVE  WellFormed(f)
<1>1. WellFormed(Secrets!getPluginInfo)
  BY DEF Secrets!getPluginInfo, Secrets!Function, Secrets!Unchecked, Unchecked,
      WellFormed, Names, ToSet, Matches, IsPrefix
<1>2. WellFormed(Secrets!getHealthInfo)
  BY DEF Secrets!getHealthInfo, Secrets!Function, Secrets!Unchecked, Unchecked,
      WellFormed, Names, ToSet, Matches, IsPrefix
<1>3. WellFormed(Secrets!userInput)
  BY DEF Secrets!userInput, Secrets!Function, Secrets!Unchecked, Unchecked,
      WellFormed, Names, ToSet, Matches, IsPrefix
<1>4. WellFormed(Secrets!collectionNames)
  BY DEF Secrets!collectionNames, Secrets!Function, Secrets!Unchecked, Unchecked,
      WellFormed, Names, ToSet, Matches, IsPrefix
<1>5. WellFormed(Secrets!createCollection_deviceLock)
  BY DEF Secrets!createCollection_deviceLock, Secrets!Function,
      Secrets!Unchecked, Unchecked, WellFormed, Names, ToSet, Matches,
      IsPrefix
<1>6. WellFormed(Secrets!createCollection_customLock)
  BY DEF Secrets!createCollection_customLock, Secrets!Function,
      Secrets!Interacting, Secrets!Unchecked, Unchecked, WellFormed, Names,
      ToSet, Matches, IsPrefix
<1>7. WellFormed(Secrets!deleteCollection)
  BY DEF Secrets!deleteCollection, Secrets!Function, Secrets!Interacting,
      Secrets!Unchecked, Unchecked, WellFormed, Names, ToSet, Matches,
      IsPrefix
<1>8. WellFormed(Secrets!setSecret_collection)
  BY DEF Secrets!setSecret_collection, Secrets!Function, Secrets!Interacting,
      Secrets!Checking, Secrets!Unchecked, Unchecked, WellFormed, Names,
      ToSet, Matches, IsPrefix
<1>9. WellFormed(Secrets!setSecret_deviceLock)
  BY DEF Secrets!setSecret_deviceLock, Secrets!Function, Secrets!Interacting,
      Secrets!Checking, Secrets!Unchecked, Unchecked, WellFormed, Names,
      ToSet, Matches, IsPrefix
<1>10. WellFormed(Secrets!setSecret_customLock)
  BY DEF Secrets!setSecret_customLock, Secrets!Function, Secrets!Interacting,
      Secrets!Checking, Secrets!Unchecked, Unchecked, WellFormed, Names,
      ToSet, Matches, IsPrefix
<1>11. WellFormed(Secrets!getSecret)
  BY DEF Secrets!getSecret, Secrets!Function, Secrets!Interacting,
      Secrets!Checking, Secrets!Unchecked, Unchecked, WellFormed, Names,
      ToSet, Matches, IsPrefix
<1>12. WellFormed(Secrets!findSecrets_collection)
  BY DEF Secrets!findSecrets_collection, Secrets!Function, Secrets!Interacting,
      Secrets!Checking, Secrets!Refusing, Secrets!Unchecked, Unchecked,
      WellFormed, Names, ToSet, Matches, IsPrefix
<1>13. WellFormed(Secrets!findSecrets_standalone)
  BY DEF Secrets!findSecrets_standalone, Secrets!Function, Secrets!Interacting,
      Secrets!Prepending, Secrets!Unchecked, Unchecked, WellFormed, Names,
      ToSet, Matches, IsPrefix
<1>14. WellFormed(Secrets!deleteSecret)
  BY DEF Secrets!deleteSecret, Secrets!Function, Secrets!Interacting,
      Secrets!Checking, Secrets!Unchecked, Unchecked, WellFormed, Names,
      ToSet, Matches, IsPrefix
<1>15. WellFormed(Secrets!queryLockStatus)
  BY DEF Secrets!queryLockStatus, Secrets!Function, Secrets!Unchecked, Unchecked,
      WellFormed, Names, ToSet, Matches, IsPrefix
<1>16. WellFormed(Secrets!modifyLockCode)
  BY DEF Secrets!modifyLockCode, Secrets!Function, Secrets!Interacting,
      Secrets!Unchecked, Unchecked, WellFormed, Names, ToSet, Matches,
      IsPrefix
<1>17. WellFormed(Secrets!provideLockCode)
  BY DEF Secrets!provideLockCode, Secrets!Function, Secrets!Interacting,
      Secrets!Unchecked, Unchecked, WellFormed, Names, ToSet, Matches,
      IsPrefix
<1>18. WellFormed(Secrets!forgetLockCode)
  BY DEF Secrets!forgetLockCode, Secrets!Function, Secrets!Interacting,
      Secrets!Unchecked, Unchecked, WellFormed, Names, ToSet, Matches,
      IsPrefix
<1> QED BY <1>1, <1>2, <1>3, <1>4, <1>5, <1>6, <1>7, <1>8, <1>9, <1>10, <1>11,
      <1>12, <1>13, <1>14, <1>15, <1>16, <1>17, <1>18 DEF
      Secrets!ManagerFunctions

\* The overloads of a function of SecretManager take different numbers of
\* parameters.
LEMMA SecretsOverloads ==
    ASSUME NEW f \in Secrets!ManagerFunctions, NEW g \in Secrets!ManagerFunctions,
           f.name = g.name, Len(f.takes) = Len(g.takes)
    PROVE  f = g
<1>1. CASE f = Secrets!getPluginInfo
  BY <1>1, SecretsFunctionNames DEF Secrets!ManagerFunctions, FunctionIs
<1>2. CASE f = Secrets!getHealthInfo
  BY <1>2, SecretsFunctionNames DEF Secrets!ManagerFunctions, FunctionIs
<1>3. CASE f = Secrets!userInput
  BY <1>3, SecretsFunctionNames DEF Secrets!ManagerFunctions, FunctionIs
<1>4. CASE f = Secrets!collectionNames
  BY <1>4, SecretsFunctionNames DEF Secrets!ManagerFunctions, FunctionIs
<1>5. CASE f = Secrets!createCollection_deviceLock
  <2>1. g \in {Secrets!createCollection_deviceLock,
             Secrets!createCollection_customLock}
    BY <1>5, SecretsFunctionNames DEF Secrets!ManagerFunctions, FunctionIs
  <2>2. /\ Len(Secrets!createCollection_customLock.takes)
           # Len(Secrets!createCollection_deviceLock.takes)
    BY SecretsFunctionNames DEF FunctionIs
  <2> QED BY <1>5, <2>1, <2>2
<1>6. CASE f = Secrets!createCollection_customLock
  <2>1. g \in {Secrets!createCollection_deviceLock,
             Secrets!createCollection_customLock}
    BY <1>6, SecretsFunctionNames DEF Secrets!ManagerFunctions, FunctionIs
  <2>2. /\ Len(Secrets!createCollection_deviceLock.takes)
           # Len(Secrets!createCollection_customLock.takes)
    BY SecretsFunctionNames DEF FunctionIs
  <2> QED BY <1>6, <2>1, <2>2
<1>7. CASE f = Secrets!deleteCollection
  BY <1>7, SecretsFunctionNames DEF Secrets!ManagerFunctions, FunctionIs
<1>8. CASE f = Secrets!setSecret_collection
  <2>1. g \in {Secrets!setSecret_collection, Secrets!setSecret_deviceLock,
             Secrets!setSecret_customLock}
    BY <1>8, SecretsFunctionNames DEF Secrets!ManagerFunctions, FunctionIs
  <2>2. /\ Len(Secrets!setSecret_deviceLock.takes) # Len(Secrets!setSecret_collection.takes)
        /\ Len(Secrets!setSecret_customLock.takes) # Len(Secrets!setSecret_collection.takes)
    BY SecretsFunctionNames DEF FunctionIs
  <2> QED BY <1>8, <2>1, <2>2
<1>9. CASE f = Secrets!setSecret_deviceLock
  <2>1. g \in {Secrets!setSecret_collection, Secrets!setSecret_deviceLock,
             Secrets!setSecret_customLock}
    BY <1>9, SecretsFunctionNames DEF Secrets!ManagerFunctions, FunctionIs
  <2>2. /\ Len(Secrets!setSecret_collection.takes) # Len(Secrets!setSecret_deviceLock.takes)
        /\ Len(Secrets!setSecret_customLock.takes) # Len(Secrets!setSecret_deviceLock.takes)
    BY SecretsFunctionNames DEF FunctionIs
  <2> QED BY <1>9, <2>1, <2>2
<1>10. CASE f = Secrets!setSecret_customLock
  <2>1. g \in {Secrets!setSecret_collection, Secrets!setSecret_deviceLock,
             Secrets!setSecret_customLock}
    BY <1>10, SecretsFunctionNames DEF Secrets!ManagerFunctions, FunctionIs
  <2>2. /\ Len(Secrets!setSecret_collection.takes) # Len(Secrets!setSecret_customLock.takes)
        /\ Len(Secrets!setSecret_deviceLock.takes) # Len(Secrets!setSecret_customLock.takes)
    BY SecretsFunctionNames DEF FunctionIs
  <2> QED BY <1>10, <2>1, <2>2
<1>11. CASE f = Secrets!getSecret
  BY <1>11, SecretsFunctionNames DEF Secrets!ManagerFunctions, FunctionIs
<1>12. CASE f = Secrets!findSecrets_collection
  <2>1. g \in {Secrets!findSecrets_collection, Secrets!findSecrets_standalone}
    BY <1>12, SecretsFunctionNames DEF Secrets!ManagerFunctions, FunctionIs
  <2>2. /\ Len(Secrets!findSecrets_standalone.takes) # Len(Secrets!findSecrets_collection.takes)
    BY SecretsFunctionNames DEF FunctionIs
  <2> QED BY <1>12, <2>1, <2>2
<1>13. CASE f = Secrets!findSecrets_standalone
  <2>1. g \in {Secrets!findSecrets_collection, Secrets!findSecrets_standalone}
    BY <1>13, SecretsFunctionNames DEF Secrets!ManagerFunctions, FunctionIs
  <2>2. /\ Len(Secrets!findSecrets_collection.takes) # Len(Secrets!findSecrets_standalone.takes)
    BY SecretsFunctionNames DEF FunctionIs
  <2> QED BY <1>13, <2>1, <2>2
<1>14. CASE f = Secrets!deleteSecret
  BY <1>14, SecretsFunctionNames DEF Secrets!ManagerFunctions, FunctionIs
<1>15. CASE f = Secrets!queryLockStatus
  BY <1>15, SecretsFunctionNames DEF Secrets!ManagerFunctions, FunctionIs
<1>16. CASE f = Secrets!modifyLockCode
  BY <1>16, SecretsFunctionNames DEF Secrets!ManagerFunctions, FunctionIs
<1>17. CASE f = Secrets!provideLockCode
  BY <1>17, SecretsFunctionNames DEF Secrets!ManagerFunctions, FunctionIs
<1>18. CASE f = Secrets!forgetLockCode
  BY <1>18, SecretsFunctionNames DEF Secrets!ManagerFunctions, FunctionIs
<1> QED BY <1>1, <1>2, <1>3, <1>4, <1>5, <1>6, <1>7, <1>8, <1>9, <1>10, <1>11,
      <1>12, <1>13, <1>14, <1>15, <1>16, <1>17, <1>18 DEF
      Secrets!ManagerFunctions

\* startRequest of a class of lib/Secrets calls a function that exists, with
\* attributes of the class.
LEMMA SecretsStart ==
    ASSUME NEW c \in DOMAIN Secrets!Requests, NEW a, class = <<"Secrets", c>>, IsAttributes(a)
    PROVE  \E f \in Secrets!ManagerFunctions :
              StartedAs(f, Secrets!startRequest(c, a), Secrets!Requests[c].attributes)
<1>1. CASE c = "CollectionNamesRequest"
  <2>1. Secrets!startRequest(c, a) =
            Secrets!Start(Secrets!Call("collectionNames",
              <<"storagePluginName">>), Secrets!KeepsOnRefusal)
    BY <1>1 DEF Secrets!startRequest, Secrets!CollectionNamesRequest_startRequest
  <2>2. StartedAs(Secrets!collectionNames, Secrets!startRequest(c, a),
                 Secrets!Requests[c].attributes)
    BY <1>1, <2>1 DEF StartedAs, Secrets!collectionNames, Secrets!Function, Secrets!Start,
      Secrets!Call, Secrets!KeepsOnRefusal, Secrets!Usual, Secrets!Requests,
      Secrets!CollectionNamesRequest, Secrets!Request, Names, ToSet, Matches,
      IsPrefix
  <2> QED BY <2>2 DEF Secrets!ManagerFunctions
<1>2. CASE c = "CreateCollectionRequest"
  <2>1. a.collectionLockType.kind \in {"CustomLock", "DeviceLock"}
    BY <1>2 DEF IsAttributes, Description, IsSecrets, Values, Kinds, Value,
        Secrets!Requests, Secrets!CreateCollectionRequest, Secrets!Request
  <2>2. CASE a.collectionLockType.kind = "CustomLock"
    <3>1. Secrets!startRequest(c, a) =
              Secrets!Start(Secrets!Call("createCollection",
                <<"collectionName", "storagePluginName",
                "encryptionPluginName", "authenticationPluginName",
                "customLockUnlockSemantic", "accessControlMode",
                "userInteractionMode">>), Secrets!Usual)
      BY <1>2, <2>2 DEF Secrets!startRequest, Secrets!CreateCollectionRequest_startRequest
    <3>2. StartedAs(Secrets!createCollection_customLock, Secrets!startRequest(c, a),
                   Secrets!Requests[c].attributes)
      BY <1>2, <3>1 DEF StartedAs, Secrets!createCollection_customLock, Secrets!Function,
        Secrets!Interacting, Secrets!Start, Secrets!Call, Secrets!Usual,
        Secrets!Requests, Secrets!CreateCollectionRequest, Secrets!Request,
        Names, ToSet, Matches, IsPrefix
    <3> QED BY <3>2 DEF Secrets!ManagerFunctions
  <2>3. CASE a.collectionLockType.kind = "DeviceLock"
    <3>1. Secrets!startRequest(c, a) =
              Secrets!Start(Secrets!Call("createCollection",
                <<"collectionName", "storagePluginName",
                "encryptionPluginName", "deviceLockUnlockSemantic",
                "accessControlMode">>), Secrets!Usual)
      BY <1>2, <2>3 DEF Secrets!startRequest, Secrets!CreateCollectionRequest_startRequest
    <3>2. StartedAs(Secrets!createCollection_deviceLock, Secrets!startRequest(c, a),
                   Secrets!Requests[c].attributes)
      BY <1>2, <3>1 DEF StartedAs, Secrets!createCollection_deviceLock, Secrets!Function,
        Secrets!Start, Secrets!Call, Secrets!Usual, Secrets!Requests,
        Secrets!CreateCollectionRequest, Secrets!Request, Names, ToSet,
        Matches, IsPrefix
    <3> QED BY <3>2 DEF Secrets!ManagerFunctions
  <2> QED BY <2>1, <2>2, <2>3
<1>3. CASE c = "DeleteCollectionRequest"
  <2>1. Secrets!startRequest(c, a) =
            Secrets!Start(Secrets!Call("deleteCollection",
              <<"collectionName", "storagePluginName",
              "userInteractionMode">>), Secrets!Usual)
    BY <1>3 DEF Secrets!startRequest, Secrets!DeleteCollectionRequest_startRequest
  <2>2. StartedAs(Secrets!deleteCollection, Secrets!startRequest(c, a),
                 Secrets!Requests[c].attributes)
    BY <1>3, <2>1 DEF StartedAs, Secrets!deleteCollection, Secrets!Function,
      Secrets!Interacting, Secrets!Start, Secrets!Call, Secrets!Usual,
      Secrets!Requests, Secrets!DeleteCollectionRequest, Secrets!Request,
      Names, ToSet, Matches, IsPrefix
  <2> QED BY <2>2 DEF Secrets!ManagerFunctions
<1>4. CASE c = "DeleteSecretRequest"
  <2>1. Secrets!startRequest(c, a) =
            Secrets!Start(Secrets!Call("deleteSecret",
              <<"identifier", "userInteractionMode">>), Secrets!IgnoresErrors)
    BY <1>4 DEF Secrets!startRequest, Secrets!DeleteSecretRequest_startRequest
  <2>2. StartedAs(Secrets!deleteSecret, Secrets!startRequest(c, a),
                 Secrets!Requests[c].attributes)
    BY <1>4, <2>1 DEF StartedAs, Secrets!deleteSecret, Secrets!Function, Secrets!Interacting,
      Secrets!Checking, Secrets!Start, Secrets!Call, Secrets!IgnoresErrors,
      Secrets!Usual, Secrets!Requests, Secrets!DeleteSecretRequest,
      Secrets!Request, Names, ToSet, Matches, IsPrefix
  <2> QED BY <2>2 DEF Secrets!ManagerFunctions
<1>5. CASE c = "FindSecretsRequest"
  <2>1. a.collectionName.kind \in {"empty", "named"}
    BY <1>5 DEF IsAttributes, Description, IsSecrets, Values, Kinds, Value,
        Secrets!Requests, Secrets!FindSecretsRequest, Secrets!Request
  <2>2. CASE a.collectionName.kind = "empty"
    <3>1. Secrets!startRequest(c, a) =
              Secrets!Start(Secrets!Call("findSecrets",
                <<"storagePluginName", "filter", "filterOperator",
                "userInteractionMode">>), Secrets!Usual)
      BY <1>5, <2>2 DEF Secrets!startRequest, Secrets!FindSecretsRequest_startRequest
    <3>2. StartedAs(Secrets!findSecrets_standalone, Secrets!startRequest(c, a),
                   Secrets!Requests[c].attributes)
      BY <1>5, <3>1 DEF StartedAs, Secrets!findSecrets_standalone, Secrets!Function,
        Secrets!Interacting, Secrets!Prepending, Secrets!Start, Secrets!Call,
        Secrets!Usual, Secrets!Requests, Secrets!FindSecretsRequest,
        Secrets!Request, Names, ToSet, Matches, IsPrefix
    <3> QED BY <3>2 DEF Secrets!ManagerFunctions
  <2>3. CASE a.collectionName.kind = "named"
    <3>1. Secrets!startRequest(c, a) =
              Secrets!Start(Secrets!Call("findSecrets",
                <<"collectionName", "storagePluginName", "filter",
                "filterOperator", "userInteractionMode">>), Secrets!Usual)
      BY <1>5, <2>3 DEF Secrets!startRequest, Secrets!FindSecretsRequest_startRequest
    <3>2. StartedAs(Secrets!findSecrets_collection, Secrets!startRequest(c, a),
                   Secrets!Requests[c].attributes)
      BY <1>5, <3>1 DEF StartedAs, Secrets!findSecrets_collection, Secrets!Function,
        Secrets!Interacting, Secrets!Checking, Secrets!Refusing,
        Secrets!Start, Secrets!Call, Secrets!Usual, Secrets!Requests,
        Secrets!FindSecretsRequest, Secrets!Request, Names, ToSet, Matches,
        IsPrefix
    <3> QED BY <3>2 DEF Secrets!ManagerFunctions
  <2> QED BY <2>1, <2>2, <2>3
<1>6. CASE c = "HealthCheckRequest"
  <2>1. Secrets!startRequest(c, a) =
            Secrets!Start(Secrets!Call("getHealthInfo",
              <<>>), Secrets!ResetsOnError)
    BY <1>6 DEF Secrets!startRequest, Secrets!HealthCheckRequest_startRequest
  <2>2. StartedAs(Secrets!getHealthInfo, Secrets!startRequest(c, a),
                 Secrets!Requests[c].attributes)
    BY <1>6, <2>1 DEF StartedAs, Secrets!getHealthInfo, Secrets!Function, Secrets!Start,
      Secrets!Call, Secrets!ResetsOnError, Secrets!Usual, Secrets!Requests,
      Secrets!HealthCheckRequest, Secrets!Request, Names, ToSet, Matches,
      IsPrefix
  <2> QED BY <2>2 DEF Secrets!ManagerFunctions
<1>7. CASE c = "InteractionRequest"
  <2>1. Secrets!startRequest(c, a) =
            Secrets!Start(Secrets!Call("userInput",
              <<"interactionParameters">>), Secrets!Usual)
    BY <1>7 DEF Secrets!startRequest, Secrets!InteractionRequest_startRequest
  <2>2. StartedAs(Secrets!userInput, Secrets!startRequest(c, a),
                 Secrets!Requests[c].attributes)
    BY <1>7, <2>1 DEF StartedAs, Secrets!userInput, Secrets!Function, Secrets!Start,
      Secrets!Call, Secrets!Usual, Secrets!Requests,
      Secrets!InteractionRequest, Secrets!Request, Names, ToSet, Matches,
      IsPrefix
  <2> QED BY <2>2 DEF Secrets!ManagerFunctions
<1>8. CASE c = "LockCodeRequest"
  <2>1. a.lockCodeRequestType.kind \in {"QueryLockStatus", "ModifyLockCode", "ProvideLockCode",
              "ForgetLockCode"}
    BY <1>8 DEF IsAttributes, Description, IsSecrets, Values, Kinds, Value,
        Secrets!Requests, Secrets!LockCodeRequest, Secrets!Request
  <2>2. CASE a.lockCodeRequestType.kind = "QueryLockStatus"
    <3>1. Secrets!startRequest(c, a) =
              Secrets!Start(Secrets!Call("queryLockStatus",
                <<"lockCodeTargetType", "lockCodeTarget">>),
                Secrets!ResetsAlways)
      BY <1>8, <2>2 DEF Secrets!startRequest, Secrets!LockCodeRequest_startRequest
    <3>3. Secrets!ResetsAlways.errors
      BY DEF Secrets!ResetsAlways, Secrets!Usual
    <3>2. StartedAs(Secrets!queryLockStatus, Secrets!startRequest(c, a),
                   Secrets!Requests[c].attributes)
      BY <1>8, <3>1, <3>3 DEF StartedAs, Secrets!queryLockStatus, Secrets!Function, Secrets!Start,
        Secrets!Call, Secrets!Requests, Secrets!LockCodeRequest,
        Secrets!Request, Names, ToSet, Matches, IsPrefix
    <3> QED BY <3>2 DEF Secrets!ManagerFunctions
  <2>3. CASE a.lockCodeRequestType.kind = "ModifyLockCode"
    <3>1. Secrets!startRequest(c, a) =
              Secrets!Start(Secrets!Call("modifyLockCode",
                <<"lockCodeTargetType", "lockCodeTarget",
                "interactionParameters", "userInteractionMode">>),
                Secrets!Usual)
      BY <1>8, <2>3 DEF Secrets!startRequest, Secrets!LockCodeRequest_startRequest
    <3>2. StartedAs(Secrets!modifyLockCode, Secrets!startRequest(c, a),
                   Secrets!Requests[c].attributes)
      BY <1>8, <3>1 DEF StartedAs, Secrets!modifyLockCode, Secrets!Function,
        Secrets!Interacting, Secrets!Start, Secrets!Call, Secrets!Usual,
        Secrets!Requests, Secrets!LockCodeRequest, Secrets!Request, Names,
        ToSet, Matches, IsPrefix
    <3> QED BY <3>2 DEF Secrets!ManagerFunctions
  <2>4. CASE a.lockCodeRequestType.kind = "ProvideLockCode"
    <3>1. Secrets!startRequest(c, a) =
              Secrets!Start(Secrets!Call("provideLockCode",
                <<"lockCodeTargetType", "lockCodeTarget",
                "interactionParameters", "userInteractionMode">>),
                Secrets!Usual)
      BY <1>8, <2>4 DEF Secrets!startRequest, Secrets!LockCodeRequest_startRequest
    <3>2. StartedAs(Secrets!provideLockCode, Secrets!startRequest(c, a),
                   Secrets!Requests[c].attributes)
      BY <1>8, <3>1 DEF StartedAs, Secrets!provideLockCode, Secrets!Function,
        Secrets!Interacting, Secrets!Start, Secrets!Call, Secrets!Usual,
        Secrets!Requests, Secrets!LockCodeRequest, Secrets!Request, Names,
        ToSet, Matches, IsPrefix
    <3> QED BY <3>2 DEF Secrets!ManagerFunctions
  <2>5. CASE a.lockCodeRequestType.kind = "ForgetLockCode"
    <3>1. Secrets!startRequest(c, a) =
              Secrets!Start(Secrets!Call("forgetLockCode",
                <<"lockCodeTargetType", "lockCodeTarget",
                "interactionParameters", "userInteractionMode">>),
                Secrets!Usual)
      BY <1>8, <2>5 DEF Secrets!startRequest, Secrets!LockCodeRequest_startRequest
    <3>2. StartedAs(Secrets!forgetLockCode, Secrets!startRequest(c, a),
                   Secrets!Requests[c].attributes)
      BY <1>8, <3>1 DEF StartedAs, Secrets!forgetLockCode, Secrets!Function,
        Secrets!Interacting, Secrets!Start, Secrets!Call, Secrets!Usual,
        Secrets!Requests, Secrets!LockCodeRequest, Secrets!Request, Names,
        ToSet, Matches, IsPrefix
    <3> QED BY <3>2 DEF Secrets!ManagerFunctions
  <2> QED BY <2>1, <2>2, <2>3, <2>4, <2>5
<1>9. CASE c = "PluginInfoRequest"
  <2>1. Secrets!startRequest(c, a) =
            Secrets!Start(Secrets!Call("getPluginInfo",
              <<>>), Secrets!ResetsOnRefusal)
    BY <1>9 DEF Secrets!startRequest, Secrets!PluginInfoRequest_startRequest
  <2>2. StartedAs(Secrets!getPluginInfo, Secrets!startRequest(c, a),
                 Secrets!Requests[c].attributes)
    BY <1>9, <2>1 DEF StartedAs, Secrets!getPluginInfo, Secrets!Function, Secrets!Start,
      Secrets!Call, Secrets!ResetsOnRefusal, Secrets!Usual, Secrets!Requests,
      Secrets!PluginInfoRequest, Secrets!Request, Names, ToSet, Matches,
      IsPrefix
  <2> QED BY <2>2 DEF Secrets!ManagerFunctions
<1>10. CASE c = "StoredSecretRequest"
  <2>1. Secrets!startRequest(c, a) =
            Secrets!Start(Secrets!Call("getSecret",
              <<"identifier", "userInteractionMode">>), Secrets!Usual)
    BY <1>10 DEF Secrets!startRequest, Secrets!StoredSecretRequest_startRequest
  <2>2. StartedAs(Secrets!getSecret, Secrets!startRequest(c, a),
                 Secrets!Requests[c].attributes)
    BY <1>10, <2>1 DEF StartedAs, Secrets!getSecret, Secrets!Function, Secrets!Interacting,
      Secrets!Checking, Secrets!Start, Secrets!Call, Secrets!Usual,
      Secrets!Requests, Secrets!StoredSecretRequest, Secrets!Request, Names,
      ToSet, Matches, IsPrefix
  <2> QED BY <2>2 DEF Secrets!ManagerFunctions
<1>11. CASE c = "StoreSecretRequest"
  <2>1. a.secretStorageType.kind \in {"CollectionSecret", "StandaloneCustomLockSecret",
              "StandaloneDeviceLockSecret"}
    BY <1>11 DEF IsAttributes, Description, IsSecrets, Values, Kinds, Value,
        Secrets!Requests, Secrets!StoreSecretRequest, Secrets!Request
  <2>2. CASE a.secretStorageType.kind = "CollectionSecret"
    <3>1. Secrets!startRequest(c, a) =
              Secrets!Start(Secrets!Call("setSecret",
                <<"secret", "interactionParameters", "userInteractionMode">>),
                Secrets!Usual)
      BY <1>11, <2>2 DEF Secrets!startRequest, Secrets!StoreSecretRequest_startRequest
    <3>2. StartedAs(Secrets!setSecret_collection, Secrets!startRequest(c, a),
                   Secrets!Requests[c].attributes)
      BY <1>11, <3>1 DEF StartedAs, Secrets!setSecret_collection, Secrets!Function,
        Secrets!Interacting, Secrets!Checking, Secrets!Start, Secrets!Call,
        Secrets!Usual, Secrets!Requests, Secrets!StoreSecretRequest,
        Secrets!Request, Names, ToSet, Matches, IsPrefix
    <3> QED BY <3>2 DEF Secrets!ManagerFunctions
  <2>3. CASE a.secretStorageType.kind = "StandaloneCustomLockSecret"
    <3>1. Secrets!startRequest(c, a) =
              Secrets!Start(Secrets!Call("setSecret",
                <<"secret", "encryptionPluginName",
                "authenticationPluginName", "interactionParameters",
                "customLockUnlockSemantic", "accessControlMode",
                "userInteractionMode">>), Secrets!Usual)
      BY <1>11, <2>3 DEF Secrets!startRequest, Secrets!StoreSecretRequest_startRequest
    <3>2. StartedAs(Secrets!setSecret_customLock, Secrets!startRequest(c, a),
                   Secrets!Requests[c].attributes)
      BY <1>11, <3>1 DEF StartedAs, Secrets!setSecret_customLock, Secrets!Function,
        Secrets!Interacting, Secrets!Checking, Secrets!Start, Secrets!Call,
        Secrets!Usual, Secrets!Requests, Secrets!StoreSecretRequest,
        Secrets!Request, Names, ToSet, Matches, IsPrefix
    <3> QED BY <3>2 DEF Secrets!ManagerFunctions
  <2>4. CASE a.secretStorageType.kind = "StandaloneDeviceLockSecret"
    <3>1. Secrets!startRequest(c, a) =
              Secrets!Start(Secrets!Call("setSecret",
                <<"secret", "encryptionPluginName", "interactionParameters",
                "deviceLockUnlockSemantic", "accessControlMode",
                "userInteractionMode">>), Secrets!Usual)
      BY <1>11, <2>4 DEF Secrets!startRequest, Secrets!StoreSecretRequest_startRequest
    <3>2. StartedAs(Secrets!setSecret_deviceLock, Secrets!startRequest(c, a),
                   Secrets!Requests[c].attributes)
      BY <1>11, <3>1 DEF StartedAs, Secrets!setSecret_deviceLock, Secrets!Function,
        Secrets!Interacting, Secrets!Checking, Secrets!Start, Secrets!Call,
        Secrets!Usual, Secrets!Requests, Secrets!StoreSecretRequest,
        Secrets!Request, Names, ToSet, Matches, IsPrefix
    <3> QED BY <3>2 DEF Secrets!ManagerFunctions
  <2> QED BY <2>1, <2>2, <2>3, <2>4
<1> QED BY <1>1, <1>2, <1>3, <1>4, <1>5, <1>6, <1>7, <1>8, <1>9, <1>10, <1>11 DEF
      Secrets!Requests

\* Which function startRequest calls does not depend on the custom parameters.
LEMMA SecretsStartAgrees ==
    ASSUME NEW c \in DOMAIN Secrets!Requests, NEW a, NEW b,
           class = <<"Secrets", c>>, IsAttributes(a),
           \A p \in Secrets!Requests[c].attributes \ {"customParameters"} : a[p] = b[p]
    PROVE  Secrets!startRequest(c, a) = Secrets!startRequest(c, b)
<1>1. CASE c = "CollectionNamesRequest"
  BY <1>1 DEF Secrets!startRequest, Secrets!CollectionNamesRequest_startRequest
<1>2. CASE c = "CreateCollectionRequest"
  <2>1. a.collectionLockType = b.collectionLockType
    BY <1>2 DEF Secrets!Requests, Secrets!CreateCollectionRequest, Secrets!Request
  <2>2. a.collectionLockType.kind \in {"CustomLock", "DeviceLock"}
    BY <1>2 DEF IsAttributes, Description, IsSecrets, Values, Kinds, Value,
        Secrets!Requests, Secrets!CreateCollectionRequest, Secrets!Request
  <2>3. Secrets!CreateCollectionRequest_startRequest(a)
          = Secrets!CreateCollectionRequest_startRequest(b)
    BY <2>1, <2>2 DEF Secrets!CreateCollectionRequest_startRequest
  <2> QED BY <1>2, <2>3 DEF Secrets!startRequest
<1>3. CASE c = "DeleteCollectionRequest"
  BY <1>3 DEF Secrets!startRequest, Secrets!DeleteCollectionRequest_startRequest
<1>4. CASE c = "DeleteSecretRequest"
  BY <1>4 DEF Secrets!startRequest, Secrets!DeleteSecretRequest_startRequest
<1>5. CASE c = "FindSecretsRequest"
  <2>1. a.collectionName = b.collectionName
    BY <1>5 DEF Secrets!Requests, Secrets!FindSecretsRequest, Secrets!Request
  <2>2. a.collectionName.kind \in {"empty", "named"}
    BY <1>5 DEF IsAttributes, Description, IsSecrets, Values, Kinds, Value,
        Secrets!Requests, Secrets!FindSecretsRequest, Secrets!Request
  <2>3. Secrets!FindSecretsRequest_startRequest(a) = Secrets!FindSecretsRequest_startRequest(b)
    BY <2>1, <2>2 DEF Secrets!FindSecretsRequest_startRequest
  <2> QED BY <1>5, <2>3 DEF Secrets!startRequest
<1>6. CASE c = "HealthCheckRequest"
  BY <1>6 DEF Secrets!startRequest, Secrets!HealthCheckRequest_startRequest
<1>7. CASE c = "InteractionRequest"
  BY <1>7 DEF Secrets!startRequest, Secrets!InteractionRequest_startRequest
<1>8. CASE c = "LockCodeRequest"
  <2>1. a.lockCodeRequestType = b.lockCodeRequestType
    BY <1>8 DEF Secrets!Requests, Secrets!LockCodeRequest, Secrets!Request
  <2>2. a.lockCodeRequestType.kind \in {"QueryLockStatus", "ModifyLockCode", "ProvideLockCode",
              "ForgetLockCode"}
    BY <1>8 DEF IsAttributes, Description, IsSecrets, Values, Kinds, Value,
        Secrets!Requests, Secrets!LockCodeRequest, Secrets!Request
  <2>3. Secrets!LockCodeRequest_startRequest(a) = Secrets!LockCodeRequest_startRequest(b)
    BY <2>1, <2>2 DEF Secrets!LockCodeRequest_startRequest
  <2> QED BY <1>8, <2>3 DEF Secrets!startRequest
<1>9. CASE c = "PluginInfoRequest"
  BY <1>9 DEF Secrets!startRequest, Secrets!PluginInfoRequest_startRequest
<1>10. CASE c = "StoredSecretRequest"
  BY <1>10 DEF Secrets!startRequest, Secrets!StoredSecretRequest_startRequest
<1>11. CASE c = "StoreSecretRequest"
  <2>1. a.secretStorageType = b.secretStorageType
    BY <1>11 DEF Secrets!Requests, Secrets!StoreSecretRequest, Secrets!Request
  <2>2. a.secretStorageType.kind \in {"CollectionSecret", "StandaloneCustomLockSecret",
              "StandaloneDeviceLockSecret"}
    BY <1>11 DEF IsAttributes, Description, IsSecrets, Values, Kinds, Value,
        Secrets!Requests, Secrets!StoreSecretRequest, Secrets!Request
  <2>3. Secrets!StoreSecretRequest_startRequest(a) = Secrets!StoreSecretRequest_startRequest(b)
    BY <2>1, <2>2 DEF Secrets!StoreSecretRequest_startRequest
  <2> QED BY <1>11, <2>3 DEF Secrets!startRequest
<1> QED BY <1>1, <1>2, <1>3, <1>4, <1>5, <1>6, <1>7, <1>8, <1>9, <1>10, <1>11 DEF
      Secrets!Requests

\* The functions of CryptoManager check and use parameters they take.
LEMMA CryptoFunctions ==
    ASSUME NEW f \in Crypto!ManagerFunctions
    PROVE  WellFormed(f)
<1>1. WellFormed(Crypto!getPluginInfo)
  BY DEF Crypto!getPluginInfo, Crypto!Function, Crypto!Unchecked, Unchecked,
      WellFormed, Names, ToSet, Matches, IsPrefix
<1>2. WellFormed(Crypto!generateRandomData)
  BY DEF Crypto!generateRandomData, Crypto!Function, Crypto!Unchecked, Unchecked,
      WellFormed, Names, ToSet, Matches, IsPrefix
<1>3. WellFormed(Crypto!seedRandomDataGenerator)
  BY DEF Crypto!seedRandomDataGenerator, Crypto!Function, Crypto!Unchecked,
      Unchecked, WellFormed, Names, ToSet, Matches, IsPrefix
<1>4. WellFormed(Crypto!generateInitializationVector)
  BY DEF Crypto!generateInitializationVector, Crypto!Function, Crypto!Unchecked,
      Unchecked, WellFormed, Names, ToSet, Matches, IsPrefix
<1>5. WellFormed(Crypto!generateKey)
  BY DEF Crypto!generateKey, Crypto!Function, Crypto!Unchecked, Unchecked,
      WellFormed, Names, ToSet, Matches, IsPrefix
<1>6. WellFormed(Crypto!generateStoredKey)
  BY DEF Crypto!generateStoredKey, Crypto!Function, Crypto!Unchecked, Unchecked,
      WellFormed, Names, ToSet, Matches, IsPrefix
<1>7. WellFormed(Crypto!importKey)
  BY DEF Crypto!importKey, Crypto!Function, Crypto!Unchecked, Unchecked,
      WellFormed, Names, ToSet, Matches, IsPrefix
<1>8. WellFormed(Crypto!importStoredKey)
  BY DEF Crypto!importStoredKey, Crypto!Function, Crypto!Unchecked, Unchecked,
      WellFormed, Names, ToSet, Matches, IsPrefix
<1>9. WellFormed(Crypto!storedKey)
  BY DEF Crypto!storedKey, Crypto!Function, Crypto!Unchecked, Unchecked,
      WellFormed, Names, ToSet, Matches, IsPrefix
<1>10. WellFormed(Crypto!deleteStoredKey)
  BY DEF Crypto!deleteStoredKey, Crypto!Function, Crypto!Unchecked, Unchecked,
      WellFormed, Names, ToSet, Matches, IsPrefix
<1>11. WellFormed(Crypto!storedKeyIdentifiers)
  BY DEF Crypto!storedKeyIdentifiers, Crypto!Function, Crypto!Unchecked,
      Unchecked, WellFormed, Names, ToSet, Matches, IsPrefix
<1>12. WellFormed(Crypto!calculateDigest)
  BY DEF Crypto!calculateDigest, Crypto!Function, Crypto!Unchecked, Unchecked,
      WellFormed, Names, ToSet, Matches, IsPrefix
<1>13. WellFormed(Crypto!sign)
  BY DEF Crypto!sign, Crypto!Function, Crypto!Unchecked, Unchecked, WellFormed,
      Names, ToSet, Matches, IsPrefix
<1>14. WellFormed(Crypto!verify)
  BY DEF Crypto!verify, Crypto!Function, Crypto!Unchecked, Unchecked, WellFormed,
      Names, ToSet, Matches, IsPrefix
<1>15. WellFormed(Crypto!encrypt)
  BY DEF Crypto!encrypt, Crypto!Function, Crypto!Unchecked, Unchecked,
      WellFormed, Names, ToSet, Matches, IsPrefix
<1>16. WellFormed(Crypto!decrypt)
  BY DEF Crypto!decrypt, Crypto!Function, Crypto!Unchecked, Unchecked,
      WellFormed, Names, ToSet, Matches, IsPrefix
<1>17. WellFormed(Crypto!initializeCipherSession)
  BY DEF Crypto!initializeCipherSession, Crypto!Function, Crypto!Unchecked,
      Unchecked, WellFormed, Names, ToSet, Matches, IsPrefix
<1>18. WellFormed(Crypto!updateCipherSessionAuthentication)
  BY DEF Crypto!updateCipherSessionAuthentication, Crypto!Function,
      Crypto!Unchecked, Unchecked, WellFormed, Names, ToSet, Matches, IsPrefix
<1>19. WellFormed(Crypto!updateCipherSession)
  BY DEF Crypto!updateCipherSession, Crypto!Function, Crypto!Unchecked,
      Unchecked, WellFormed, Names, ToSet, Matches, IsPrefix
<1>20. WellFormed(Crypto!finalizeCipherSession)
  BY DEF Crypto!finalizeCipherSession, Crypto!Function, Crypto!Unchecked,
      Unchecked, WellFormed, Names, ToSet, Matches, IsPrefix
<1>21. WellFormed(Crypto!queryLockStatus)
  BY DEF Crypto!queryLockStatus, Crypto!Function, Crypto!Unchecked, Unchecked,
      WellFormed, Names, ToSet, Matches, IsPrefix
<1>22. WellFormed(Crypto!modifyLockCode)
  BY DEF Crypto!modifyLockCode, Crypto!Function, Crypto!Unchecked, Unchecked,
      WellFormed, Names, ToSet, Matches, IsPrefix
<1>23. WellFormed(Crypto!provideLockCode)
  BY DEF Crypto!provideLockCode, Crypto!Function, Crypto!Unchecked, Unchecked,
      WellFormed, Names, ToSet, Matches, IsPrefix
<1>24. WellFormed(Crypto!forgetLockCode)
  BY DEF Crypto!forgetLockCode, Crypto!Function, Crypto!Unchecked, Unchecked,
      WellFormed, Names, ToSet, Matches, IsPrefix
<1> QED BY <1>1, <1>2, <1>3, <1>4, <1>5, <1>6, <1>7, <1>8, <1>9, <1>10, <1>11,
      <1>12, <1>13, <1>14, <1>15, <1>16, <1>17, <1>18, <1>19, <1>20, <1>21,
      <1>22, <1>23, <1>24 DEF Crypto!ManagerFunctions

\* The overloads of a function of CryptoManager take different numbers of
\* parameters.
LEMMA CryptoOverloads ==
    ASSUME NEW f \in Crypto!ManagerFunctions, NEW g \in Crypto!ManagerFunctions,
           f.name = g.name, Len(f.takes) = Len(g.takes)
    PROVE  f = g
<1>1. CASE f = Crypto!getPluginInfo
  BY <1>1, CryptoFunctionNames DEF Crypto!ManagerFunctions, FunctionIs
<1>2. CASE f = Crypto!generateRandomData
  BY <1>2, CryptoFunctionNames DEF Crypto!ManagerFunctions, FunctionIs
<1>3. CASE f = Crypto!seedRandomDataGenerator
  BY <1>3, CryptoFunctionNames DEF Crypto!ManagerFunctions, FunctionIs
<1>4. CASE f = Crypto!generateInitializationVector
  BY <1>4, CryptoFunctionNames DEF Crypto!ManagerFunctions, FunctionIs
<1>5. CASE f = Crypto!generateKey
  BY <1>5, CryptoFunctionNames DEF Crypto!ManagerFunctions, FunctionIs
<1>6. CASE f = Crypto!generateStoredKey
  BY <1>6, CryptoFunctionNames DEF Crypto!ManagerFunctions, FunctionIs
<1>7. CASE f = Crypto!importKey
  BY <1>7, CryptoFunctionNames DEF Crypto!ManagerFunctions, FunctionIs
<1>8. CASE f = Crypto!importStoredKey
  BY <1>8, CryptoFunctionNames DEF Crypto!ManagerFunctions, FunctionIs
<1>9. CASE f = Crypto!storedKey
  BY <1>9, CryptoFunctionNames DEF Crypto!ManagerFunctions, FunctionIs
<1>10. CASE f = Crypto!deleteStoredKey
  BY <1>10, CryptoFunctionNames DEF Crypto!ManagerFunctions, FunctionIs
<1>11. CASE f = Crypto!storedKeyIdentifiers
  BY <1>11, CryptoFunctionNames DEF Crypto!ManagerFunctions, FunctionIs
<1>12. CASE f = Crypto!calculateDigest
  BY <1>12, CryptoFunctionNames DEF Crypto!ManagerFunctions, FunctionIs
<1>13. CASE f = Crypto!sign
  BY <1>13, CryptoFunctionNames DEF Crypto!ManagerFunctions, FunctionIs
<1>14. CASE f = Crypto!verify
  BY <1>14, CryptoFunctionNames DEF Crypto!ManagerFunctions, FunctionIs
<1>15. CASE f = Crypto!encrypt
  BY <1>15, CryptoFunctionNames DEF Crypto!ManagerFunctions, FunctionIs
<1>16. CASE f = Crypto!decrypt
  BY <1>16, CryptoFunctionNames DEF Crypto!ManagerFunctions, FunctionIs
<1>17. CASE f = Crypto!initializeCipherSession
  BY <1>17, CryptoFunctionNames DEF Crypto!ManagerFunctions, FunctionIs
<1>18. CASE f = Crypto!updateCipherSessionAuthentication
  BY <1>18, CryptoFunctionNames DEF Crypto!ManagerFunctions, FunctionIs
<1>19. CASE f = Crypto!updateCipherSession
  BY <1>19, CryptoFunctionNames DEF Crypto!ManagerFunctions, FunctionIs
<1>20. CASE f = Crypto!finalizeCipherSession
  BY <1>20, CryptoFunctionNames DEF Crypto!ManagerFunctions, FunctionIs
<1>21. CASE f = Crypto!queryLockStatus
  BY <1>21, CryptoFunctionNames DEF Crypto!ManagerFunctions, FunctionIs
<1>22. CASE f = Crypto!modifyLockCode
  BY <1>22, CryptoFunctionNames DEF Crypto!ManagerFunctions, FunctionIs
<1>23. CASE f = Crypto!provideLockCode
  BY <1>23, CryptoFunctionNames DEF Crypto!ManagerFunctions, FunctionIs
<1>24. CASE f = Crypto!forgetLockCode
  BY <1>24, CryptoFunctionNames DEF Crypto!ManagerFunctions, FunctionIs
<1> QED BY <1>1, <1>2, <1>3, <1>4, <1>5, <1>6, <1>7, <1>8, <1>9, <1>10, <1>11,
      <1>12, <1>13, <1>14, <1>15, <1>16, <1>17, <1>18, <1>19, <1>20, <1>21,
      <1>22, <1>23, <1>24 DEF Crypto!ManagerFunctions

\* startRequest of a class of lib/Crypto calls a function that exists, with
\* attributes of the class.
LEMMA CryptoStart ==
    ASSUME NEW c \in DOMAIN Crypto!Requests, NEW a, class = <<"Crypto", c>>, IsAttributes(a)
    PROVE  \E f \in Crypto!ManagerFunctions :
              StartedAs(f, Crypto!startRequest(c, a), Crypto!Requests[c].attributes)
<1>1. CASE c = "CalculateDigestRequest"
  <2>1. Crypto!startRequest(c, a) =
            Crypto!Start(Crypto!Call("calculateDigest",
              <<"data", "padding", "digestFunction", "customParameters",
              "cryptoPluginName">>), Crypto!Usual)
    BY <1>1 DEF Crypto!startRequest, Crypto!CalculateDigestRequest_startRequest
  <2>2. StartedAs(Crypto!calculateDigest, Crypto!startRequest(c, a),
                 Crypto!Requests[c].attributes)
    BY <1>1, <2>1 DEF StartedAs, Crypto!calculateDigest, Crypto!Function, Crypto!Start,
      Crypto!Call, Crypto!Usual, Crypto!Requests,
      Crypto!CalculateDigestRequest, Crypto!Request, Names, ToSet, Matches,
      IsPrefix
  <2> QED BY <2>2 DEF Crypto!ManagerFunctions
<1>2. CASE c = "DecryptRequest"
  <2>1. Crypto!startRequest(c, a) =
            Crypto!Start(Crypto!Call("decrypt",
              <<"data", "initializationVector", "key", "blockMode", "padding",
              "authenticationData", "authenticationTag", "customParameters",
              "cryptoPluginName">>), Crypto!Usual)
    BY <1>2 DEF Crypto!startRequest, Crypto!DecryptRequest_startRequest
  <2>2. StartedAs(Crypto!decrypt, Crypto!startRequest(c, a),
                 Crypto!Requests[c].attributes)
    BY <1>2, <2>1 DEF StartedAs, Crypto!decrypt, Crypto!Function, Crypto!Start, Crypto!Call,
      Crypto!Usual, Crypto!Requests, Crypto!DecryptRequest, Crypto!Request,
      Names, ToSet, Matches, IsPrefix
  <2> QED BY <2>2 DEF Crypto!ManagerFunctions
<1>3. CASE c = "DeleteStoredKeyRequest"
  <2>1. Crypto!startRequest(c, a) =
            Crypto!Start(Crypto!Call("deleteStoredKey",
              <<"identifier">>), Crypto!Usual)
    BY <1>3 DEF Crypto!startRequest, Crypto!DeleteStoredKeyRequest_startRequest
  <2>2. StartedAs(Crypto!deleteStoredKey, Crypto!startRequest(c, a),
                 Crypto!Requests[c].attributes)
    BY <1>3, <2>1 DEF StartedAs, Crypto!deleteStoredKey, Crypto!Function, Crypto!Start,
      Crypto!Call, Crypto!Usual, Crypto!Requests,
      Crypto!DeleteStoredKeyRequest, Crypto!Request, Names, ToSet, Matches,
      IsPrefix
  <2> QED BY <2>2 DEF Crypto!ManagerFunctions
<1>4. CASE c = "EncryptRequest"
  <2>1. Crypto!startRequest(c, a) =
            Crypto!Start(Crypto!Call("encrypt",
              <<"data", "initializationVector", "key", "blockMode", "padding",
              "authenticationData", "customParameters", "cryptoPluginName">>),
              Crypto!Usual)
    BY <1>4 DEF Crypto!startRequest, Crypto!EncryptRequest_startRequest
  <2>2. StartedAs(Crypto!encrypt, Crypto!startRequest(c, a),
                 Crypto!Requests[c].attributes)
    BY <1>4, <2>1 DEF StartedAs, Crypto!encrypt, Crypto!Function, Crypto!Start, Crypto!Call,
      Crypto!Usual, Crypto!Requests, Crypto!EncryptRequest, Crypto!Request,
      Names, ToSet, Matches, IsPrefix
  <2> QED BY <2>2 DEF Crypto!ManagerFunctions
<1>5. CASE c = "GenerateInitializationVectorRequest"
  <2>1. Crypto!startRequest(c, a) =
            Crypto!Start(Crypto!Call("generateInitializationVector",
              <<"algorithm", "blockMode", "keySize", "customParameters",
              "cryptoPluginName">>), Crypto!Usual)
    BY <1>5 DEF Crypto!startRequest,
      Crypto!GenerateInitializationVectorRequest_startRequest
  <2>2. StartedAs(Crypto!generateInitializationVector, Crypto!startRequest(c, a),
                 Crypto!Requests[c].attributes)
    BY <1>5, <2>1 DEF StartedAs, Crypto!generateInitializationVector, Crypto!Function,
      Crypto!Start, Crypto!Call, Crypto!Usual, Crypto!Requests,
      Crypto!GenerateInitializationVectorRequest, Crypto!Request, Names,
      ToSet, Matches, IsPrefix
  <2> QED BY <2>2 DEF Crypto!ManagerFunctions
<1>6. CASE c = "GenerateKeyRequest"
  <2>1. Crypto!startRequest(c, a) =
            Crypto!Start(Crypto!Call("generateKey",
              <<"keyTemplate", "keyPairGenerationParameters",
              "keyDerivationParameters", "customParameters",
              "cryptoPluginName">>), Crypto!Usual)
    BY <1>6 DEF Crypto!startRequest, Crypto!GenerateKeyRequest_startRequest
  <2>2. StartedAs(Crypto!generateKey, Crypto!startRequest(c, a),
                 Crypto!Requests[c].attributes)
    BY <1>6, <2>1 DEF StartedAs, Crypto!generateKey, Crypto!Function, Crypto!Start,
      Crypto!Call, Crypto!Usual, Crypto!Requests, Crypto!GenerateKeyRequest,
      Crypto!Request, Names, ToSet, Matches, IsPrefix
  <2> QED BY <2>2 DEF Crypto!ManagerFunctions
<1>7. CASE c = "GenerateRandomDataRequest"
  <2>1. Crypto!startRequest(c, a) =
            Crypto!Start(Crypto!Call("generateRandomData",
              <<"numberBytes", "csprngEngineName", "customParameters",
              "cryptoPluginName">>), Crypto!Usual)
    BY <1>7 DEF Crypto!startRequest, Crypto!GenerateRandomDataRequest_startRequest
  <2>2. StartedAs(Crypto!generateRandomData, Crypto!startRequest(c, a),
                 Crypto!Requests[c].attributes)
    BY <1>7, <2>1 DEF StartedAs, Crypto!generateRandomData, Crypto!Function, Crypto!Start,
      Crypto!Call, Crypto!Usual, Crypto!Requests,
      Crypto!GenerateRandomDataRequest, Crypto!Request, Names, ToSet, Matches,
      IsPrefix
  <2> QED BY <2>2 DEF Crypto!ManagerFunctions
<1>8. CASE c = "GenerateStoredKeyRequest"
  <2>1. Crypto!startRequest(c, a) =
            Crypto!Start(Crypto!Call("generateStoredKey",
              <<"keyTemplate", "keyPairGenerationParameters",
              "keyDerivationParameters", "interactionParameters",
              "customParameters", "cryptoPluginName">>), Crypto!Usual)
    BY <1>8 DEF Crypto!startRequest, Crypto!GenerateStoredKeyRequest_startRequest
  <2>2. StartedAs(Crypto!generateStoredKey, Crypto!startRequest(c, a),
                 Crypto!Requests[c].attributes)
    BY <1>8, <2>1 DEF StartedAs, Crypto!generateStoredKey, Crypto!Function, Crypto!Start,
      Crypto!Call, Crypto!Usual, Crypto!Requests,
      Crypto!GenerateStoredKeyRequest, Crypto!Request, Names, ToSet, Matches,
      IsPrefix
  <2> QED BY <2>2 DEF Crypto!ManagerFunctions
<1>9. CASE c = "ImportKeyRequest"
  <2>1. Crypto!startRequest(c, a) =
            Crypto!Start(Crypto!Call("importKey",
              <<"data", "interactionParameters", "customParameters",
              "cryptoPluginName">>), Crypto!ChecksErrors)
    BY <1>9 DEF Crypto!startRequest, Crypto!ImportKeyRequest_startRequest
  <2>2. StartedAs(Crypto!importKey, Crypto!startRequest(c, a),
                 Crypto!Requests[c].attributes)
    BY <1>9, <2>1 DEF StartedAs, Crypto!importKey, Crypto!Function, Crypto!Start, Crypto!Call,
      Crypto!ChecksErrors, Crypto!Usual, Crypto!Requests,
      Crypto!ImportKeyRequest, Crypto!Request, Names, ToSet, Matches, IsPrefix
  <2> QED BY <2>2 DEF Crypto!ManagerFunctions
<1>10. CASE c = "ImportStoredKeyRequest"
  <2>1. Crypto!startRequest(c, a) =
            Crypto!Start(Crypto!Call("importStoredKey",
              <<"data", "keyTemplate", "interactionParameters",
              "customParameters", "cryptoPluginName">>), Crypto!ChecksErrors)
    BY <1>10 DEF Crypto!startRequest, Crypto!ImportStoredKeyRequest_startRequest
  <2>2. StartedAs(Crypto!importStoredKey, Crypto!startRequest(c, a),
                 Crypto!Requests[c].attributes)
    BY <1>10, <2>1 DEF StartedAs, Crypto!importStoredKey, Crypto!Function, Crypto!Start,
      Crypto!Call, Crypto!ChecksErrors, Crypto!Usual, Crypto!Requests,
      Crypto!ImportStoredKeyRequest, Crypto!Request, Names, ToSet, Matches,
      IsPrefix
  <2> QED BY <2>2 DEF Crypto!ManagerFunctions
<1>11. CASE c = "LockCodeRequest"
  <2>1. a.lockCodeRequestType.kind \in {"QueryLockStatus", "ModifyLockCode", "ProvideLockCode",
              "ForgetLockCode"}
    BY <1>11 DEF IsAttributes, Description, IsSecrets, Values, Kinds, Value,
        Crypto!Requests, Crypto!LockCodeRequest, Crypto!Request
  <2>2. CASE a.lockCodeRequestType.kind = "QueryLockStatus"
    <3>1. Crypto!startRequest(c, a) =
              Crypto!Start(Crypto!Call("queryLockStatus",
                <<"lockCodeTargetType", "lockCodeTarget">>),
                Crypto!ResetsAlways)
      BY <1>11, <2>2 DEF Crypto!startRequest, Crypto!LockCodeRequest_startRequest
    <3>3. Crypto!ResetsAlways.errors
      BY DEF Crypto!ResetsAlways, Crypto!Usual
    <3>2. StartedAs(Crypto!queryLockStatus, Crypto!startRequest(c, a),
                   Crypto!Requests[c].attributes)
      BY <1>11, <3>1, <3>3 DEF StartedAs, Crypto!queryLockStatus, Crypto!Function, Crypto!Start,
        Crypto!Call, Crypto!Requests, Crypto!LockCodeRequest, Crypto!Request,
        Names, ToSet, Matches, IsPrefix
    <3> QED BY <3>2 DEF Crypto!ManagerFunctions
  <2>3. CASE a.lockCodeRequestType.kind = "ModifyLockCode"
    <3>1. Crypto!startRequest(c, a) =
              Crypto!Start(Crypto!Call("modifyLockCode",
                <<"lockCodeTargetType", "lockCodeTarget",
                "interactionParameters">>), Crypto!Usual)
      BY <1>11, <2>3 DEF Crypto!startRequest, Crypto!LockCodeRequest_startRequest
    <3>2. StartedAs(Crypto!modifyLockCode, Crypto!startRequest(c, a),
                   Crypto!Requests[c].attributes)
      BY <1>11, <3>1 DEF StartedAs, Crypto!modifyLockCode, Crypto!Function, Crypto!Start,
        Crypto!Call, Crypto!Usual, Crypto!Requests, Crypto!LockCodeRequest,
        Crypto!Request, Names, ToSet, Matches, IsPrefix
    <3> QED BY <3>2 DEF Crypto!ManagerFunctions
  <2>4. CASE a.lockCodeRequestType.kind = "ProvideLockCode"
    <3>1. Crypto!startRequest(c, a) =
              Crypto!Start(Crypto!Call("provideLockCode",
                <<"lockCodeTargetType", "lockCodeTarget",
                "interactionParameters">>), Crypto!Usual)
      BY <1>11, <2>4 DEF Crypto!startRequest, Crypto!LockCodeRequest_startRequest
    <3>2. StartedAs(Crypto!provideLockCode, Crypto!startRequest(c, a),
                   Crypto!Requests[c].attributes)
      BY <1>11, <3>1 DEF StartedAs, Crypto!provideLockCode, Crypto!Function, Crypto!Start,
        Crypto!Call, Crypto!Usual, Crypto!Requests, Crypto!LockCodeRequest,
        Crypto!Request, Names, ToSet, Matches, IsPrefix
    <3> QED BY <3>2 DEF Crypto!ManagerFunctions
  <2>5. CASE a.lockCodeRequestType.kind = "ForgetLockCode"
    <3>1. Crypto!startRequest(c, a) =
              Crypto!Start(Crypto!Call("forgetLockCode",
                <<"lockCodeTargetType", "lockCodeTarget",
                "interactionParameters">>), Crypto!Usual)
      BY <1>11, <2>5 DEF Crypto!startRequest, Crypto!LockCodeRequest_startRequest
    <3>2. StartedAs(Crypto!forgetLockCode, Crypto!startRequest(c, a),
                   Crypto!Requests[c].attributes)
      BY <1>11, <3>1 DEF StartedAs, Crypto!forgetLockCode, Crypto!Function, Crypto!Start,
        Crypto!Call, Crypto!Usual, Crypto!Requests, Crypto!LockCodeRequest,
        Crypto!Request, Names, ToSet, Matches, IsPrefix
    <3> QED BY <3>2 DEF Crypto!ManagerFunctions
  <2> QED BY <2>1, <2>2, <2>3, <2>4, <2>5
<1>12. CASE c = "PluginInfoRequest"
  <2>1. Crypto!startRequest(c, a) =
            Crypto!Start(Crypto!Call("getPluginInfo",
              <<>>), Crypto!Usual)
    BY <1>12 DEF Crypto!startRequest, Crypto!PluginInfoRequest_startRequest
  <2>2. StartedAs(Crypto!getPluginInfo, Crypto!startRequest(c, a),
                 Crypto!Requests[c].attributes)
    BY <1>12, <2>1 DEF StartedAs, Crypto!getPluginInfo, Crypto!Function, Crypto!Start,
      Crypto!Call, Crypto!Usual, Crypto!Requests, Crypto!PluginInfoRequest,
      Crypto!Request, Names, ToSet, Matches, IsPrefix
  <2> QED BY <2>2 DEF Crypto!ManagerFunctions
<1>13. CASE c = "SeedRandomDataGeneratorRequest"
  <2>1. Crypto!startRequest(c, a) =
            Crypto!Start(Crypto!Call("seedRandomDataGenerator",
              <<"seedData", "entropyEstimate", "csprngEngineName",
              "customParameters", "cryptoPluginName">>), Crypto!Usual)
    BY <1>13 DEF Crypto!startRequest, Crypto!SeedRandomDataGeneratorRequest_startRequest
  <2>2. StartedAs(Crypto!seedRandomDataGenerator, Crypto!startRequest(c, a),
                 Crypto!Requests[c].attributes)
    BY <1>13, <2>1 DEF StartedAs, Crypto!seedRandomDataGenerator, Crypto!Function,
      Crypto!Start, Crypto!Call, Crypto!Usual, Crypto!Requests,
      Crypto!SeedRandomDataGeneratorRequest, Crypto!Request, Names, ToSet,
      Matches, IsPrefix
  <2> QED BY <2>2 DEF Crypto!ManagerFunctions
<1>14. CASE c = "SignRequest"
  <2>1. Crypto!startRequest(c, a) =
            Crypto!Start(Crypto!Call("sign",
              <<"data", "key", "padding", "digestFunction",
              "customParameters", "cryptoPluginName">>), Crypto!Usual)
    BY <1>14 DEF Crypto!startRequest, Crypto!SignRequest_startRequest
  <2>2. StartedAs(Crypto!sign, Crypto!startRequest(c, a),
                 Crypto!Requests[c].attributes)
    BY <1>14, <2>1 DEF StartedAs, Crypto!sign, Crypto!Function, Crypto!Start, Crypto!Call,
      Crypto!Usual, Crypto!Requests, Crypto!SignRequest, Crypto!Request,
      Names, ToSet, Matches, IsPrefix
  <2> QED BY <2>2 DEF Crypto!ManagerFunctions
<1>15. CASE c = "StoredKeyIdentifiersRequest"
  <2>1. Crypto!startRequest(c, a) =
            Crypto!Start(Crypto!Call("storedKeyIdentifiers",
              <<"storagePluginName", "collectionName", "customParameters">>),
              Crypto!Usual)
    BY <1>15 DEF Crypto!startRequest, Crypto!StoredKeyIdentifiersRequest_startRequest
  <2>2. StartedAs(Crypto!storedKeyIdentifiers, Crypto!startRequest(c, a),
                 Crypto!Requests[c].attributes)
    BY <1>15, <2>1 DEF StartedAs, Crypto!storedKeyIdentifiers, Crypto!Function, Crypto!Start,
      Crypto!Call, Crypto!Usual, Crypto!Requests,
      Crypto!StoredKeyIdentifiersRequest, Crypto!Request, Names, ToSet,
      Matches, IsPrefix
  <2> QED BY <2>2 DEF Crypto!ManagerFunctions
<1>16. CASE c = "StoredKeyRequest"
  <2>1. Crypto!startRequest(c, a) =
            Crypto!Start(Crypto!Call("storedKey",
              <<"identifier", "keyComponents", "customParameters">>),
              Crypto!Usual)
    BY <1>16 DEF Crypto!startRequest, Crypto!StoredKeyRequest_startRequest
  <2>2. StartedAs(Crypto!storedKey, Crypto!startRequest(c, a),
                 Crypto!Requests[c].attributes)
    BY <1>16, <2>1 DEF StartedAs, Crypto!storedKey, Crypto!Function, Crypto!Start, Crypto!Call,
      Crypto!Usual, Crypto!Requests, Crypto!StoredKeyRequest, Crypto!Request,
      Names, ToSet, Matches, IsPrefix
  <2> QED BY <2>2 DEF Crypto!ManagerFunctions
<1>17. CASE c = "VerifyRequest"
  <2>1. Crypto!startRequest(c, a) =
            Crypto!Start(Crypto!Call("verify",
              <<"signature", "data", "key", "padding", "digestFunction",
              "customParameters", "cryptoPluginName">>), Crypto!Usual)
    BY <1>17 DEF Crypto!startRequest, Crypto!VerifyRequest_startRequest
  <2>2. StartedAs(Crypto!verify, Crypto!startRequest(c, a),
                 Crypto!Requests[c].attributes)
    BY <1>17, <2>1 DEF StartedAs, Crypto!verify, Crypto!Function, Crypto!Start, Crypto!Call,
      Crypto!Usual, Crypto!Requests, Crypto!VerifyRequest, Crypto!Request,
      Names, ToSet, Matches, IsPrefix
  <2> QED BY <2>2 DEF Crypto!ManagerFunctions
<1> QED BY <1>1, <1>2, <1>3, <1>4, <1>5, <1>6, <1>7, <1>8, <1>9, <1>10, <1>11,
      <1>12, <1>13, <1>14, <1>15, <1>16, <1>17 DEF Crypto!Requests

\* Which function startRequest calls does not depend on the custom parameters.
LEMMA CryptoStartAgrees ==
    ASSUME NEW c \in DOMAIN Crypto!Requests, NEW a, NEW b,
           class = <<"Crypto", c>>, IsAttributes(a),
           \A p \in Crypto!Requests[c].attributes \ {"customParameters"} : a[p] = b[p]
    PROVE  Crypto!startRequest(c, a) = Crypto!startRequest(c, b)
<1>1. CASE c = "CalculateDigestRequest"
  BY <1>1 DEF Crypto!startRequest, Crypto!CalculateDigestRequest_startRequest
<1>2. CASE c = "DecryptRequest"
  BY <1>2 DEF Crypto!startRequest, Crypto!DecryptRequest_startRequest
<1>3. CASE c = "DeleteStoredKeyRequest"
  BY <1>3 DEF Crypto!startRequest, Crypto!DeleteStoredKeyRequest_startRequest
<1>4. CASE c = "EncryptRequest"
  BY <1>4 DEF Crypto!startRequest, Crypto!EncryptRequest_startRequest
<1>5. CASE c = "GenerateInitializationVectorRequest"
  BY <1>5 DEF Crypto!startRequest, Crypto!GenerateInitializationVectorRequest_startRequest
<1>6. CASE c = "GenerateKeyRequest"
  BY <1>6 DEF Crypto!startRequest, Crypto!GenerateKeyRequest_startRequest
<1>7. CASE c = "GenerateRandomDataRequest"
  BY <1>7 DEF Crypto!startRequest, Crypto!GenerateRandomDataRequest_startRequest
<1>8. CASE c = "GenerateStoredKeyRequest"
  BY <1>8 DEF Crypto!startRequest, Crypto!GenerateStoredKeyRequest_startRequest
<1>9. CASE c = "ImportKeyRequest"
  BY <1>9 DEF Crypto!startRequest, Crypto!ImportKeyRequest_startRequest
<1>10. CASE c = "ImportStoredKeyRequest"
  BY <1>10 DEF Crypto!startRequest, Crypto!ImportStoredKeyRequest_startRequest
<1>11. CASE c = "LockCodeRequest"
  <2>1. a.lockCodeRequestType = b.lockCodeRequestType
    BY <1>11 DEF Crypto!Requests, Crypto!LockCodeRequest, Crypto!Request
  <2>2. a.lockCodeRequestType.kind \in {"QueryLockStatus", "ModifyLockCode", "ProvideLockCode",
              "ForgetLockCode"}
    BY <1>11 DEF IsAttributes, Description, IsSecrets, Values, Kinds, Value,
        Crypto!Requests, Crypto!LockCodeRequest, Crypto!Request
  <2>3. Crypto!LockCodeRequest_startRequest(a) = Crypto!LockCodeRequest_startRequest(b)
    BY <2>1, <2>2 DEF Crypto!LockCodeRequest_startRequest
  <2> QED BY <1>11, <2>3 DEF Crypto!startRequest
<1>12. CASE c = "PluginInfoRequest"
  BY <1>12 DEF Crypto!startRequest, Crypto!PluginInfoRequest_startRequest
<1>13. CASE c = "SeedRandomDataGeneratorRequest"
  BY <1>13 DEF Crypto!startRequest, Crypto!SeedRandomDataGeneratorRequest_startRequest
<1>14. CASE c = "SignRequest"
  BY <1>14 DEF Crypto!startRequest, Crypto!SignRequest_startRequest
<1>15. CASE c = "StoredKeyIdentifiersRequest"
  BY <1>15 DEF Crypto!startRequest, Crypto!StoredKeyIdentifiersRequest_startRequest
<1>16. CASE c = "StoredKeyRequest"
  BY <1>16 DEF Crypto!startRequest, Crypto!StoredKeyRequest_startRequest
<1>17. CASE c = "VerifyRequest"
  BY <1>17 DEF Crypto!startRequest, Crypto!VerifyRequest_startRequest
<1> QED BY <1>1, <1>2, <1>3, <1>4, <1>5, <1>6, <1>7, <1>8, <1>9, <1>10, <1>11,
      <1>12, <1>13, <1>14, <1>15, <1>16, <1>17 DEF Crypto!Requests
-----------------------------------------------------------------------------
(* Both libraries at once. *)

\* The class is one of lib/Secrets or of lib/Crypto.
LEMMA ClassKnown ==
    ASSUME class \in Classes
    PROVE  \/ \E c \in DOMAIN Secrets!Requests : class = <<"Secrets", c>>
           \/ \E c \in DOMAIN Crypto!Requests : class = <<"Crypto", c>>
BY ClassesAssumption

\* startRequest calls a function of the manager with attributes of the object.
LEMMA Starts ==
    ASSUME class \in Classes, NEW a, IsAttributes(a)
    PROVE  \E f \in ManagerFunctions : StartedAs(f, StartedWith(a), Description.attributes)
<1>1. CASE \E c \in DOMAIN Secrets!Requests : class = <<"Secrets", c>>
  <2>1. PICK c \in DOMAIN Secrets!Requests : class = <<"Secrets", c>>
    BY <1>1
  <2>2. \E f \in Secrets!ManagerFunctions :
           StartedAs(f, Secrets!startRequest(c, a), Secrets!Requests[c].attributes)
    BY <2>1, SecretsStart
  <2> QED BY <2>1, <2>2 DEF ManagerFunctions, StartedWith, Description, IsSecrets
<1>2. CASE \E c \in DOMAIN Crypto!Requests : class = <<"Crypto", c>>
  <2>1. PICK c \in DOMAIN Crypto!Requests : class = <<"Crypto", c>>
    BY <1>2
  <2>2. \E f \in Crypto!ManagerFunctions :
           StartedAs(f, Crypto!startRequest(c, a), Crypto!Requests[c].attributes)
    BY <2>1, CryptoStart
  <2> QED BY <2>1, <2>2 DEF ManagerFunctions, StartedWith, Description, IsSecrets
<1> QED BY <1>1, <1>2, ClassKnown

\* The custom parameters do not decide what startRequest calls.
LEMMA StartAgrees ==
    ASSUME class \in Classes, NEW a, NEW b, IsAttributes(a),
           \A p \in Description.attributes \ {"customParameters"} : a[p] = b[p]
    PROVE  StartedWith(a) = StartedWith(b)
<1>1. CASE \E c \in DOMAIN Secrets!Requests : class = <<"Secrets", c>>
  <2>1. PICK c \in DOMAIN Secrets!Requests : class = <<"Secrets", c>>
    BY <1>1
  <2>2. Description = Secrets!Requests[c]
    BY <2>1 DEF Description, IsSecrets
  <2>3. Secrets!startRequest(c, a) = Secrets!startRequest(c, b)
    BY <2>1, <2>2, SecretsStartAgrees
  <2> QED BY <2>1, <2>3 DEF StartedWith, IsSecrets
<1>2. CASE \E c \in DOMAIN Crypto!Requests : class = <<"Crypto", c>>
  <2>1. PICK c \in DOMAIN Crypto!Requests : class = <<"Crypto", c>>
    BY <1>2
  <2>2. Description = Crypto!Requests[c]
    BY <2>1 DEF Description, IsSecrets
  <2>3. Crypto!startRequest(c, a) = Crypto!startRequest(c, b)
    BY <2>1, <2>2, CryptoStartAgrees
  <2> QED BY <2>1, <2>3 DEF StartedWith, IsSecrets
<1> QED BY <1>1, <1>2, ClassKnown

\* Functions of a manager are known by their name and number of parameters, and
\* are well formed.
LEMMA FunctionsKnown ==
    ASSUME NEW f \in ManagerFunctions
    PROVE  /\ WellFormed(f)
           /\ \A g \in ManagerFunctions : f.name = g.name /\ Len(f.takes) = Len(g.takes) => f = g
BY SecretsFunctions, CryptoFunctions, SecretsOverloads, CryptoOverloads DEF ManagerFunctions

\* A search in a collection is not taken for one among the standalone secrets:
\* the manager refuses an empty name, and the D-Bus method looks for one.
LEMMA SearchKept ==
    ASSUME NEW a,
           Holds(Secrets!findSecrets_collection.accepts, a),
           Holds(Secrets!findSecrets_DBus_standalone.when,
                 Named(Secrets!findSecrets_DBus_standalone.takes,
                       Sent(Secrets!findSecrets_collection,
                            Args(Secrets!findSecrets_collection, a))))
    PROVE  FALSE
<1> DEFINE f == Secrets!findSecrets_collection
           m == Secrets!findSecrets_DBus_standalone
           sent == Sent(f, Args(f, a))
<1>0. m.when = [param |-> "collectionName", kinds |-> {"empty"}]
  BY DEF Secrets!findSecrets_DBus_standalone, Secrets!Method, Secrets!When, Secrets!DroppingFirst
<1>1. /\ DOMAIN m.takes = DOMAIN f.gives
      /\ \A i \in DOMAIN m.takes : m.takes[i] = "collectionName" => f.gives[i] = "collectionName"
  BY DEF Secrets!findSecrets_collection, Secrets!findSecrets_DBus_standalone, Secrets!Function,
    Secrets!Interacting, Secrets!Checking, Secrets!Refusing, Secrets!Method, Secrets!When,
    Secrets!DroppingFirst
<1>2. f.accepts = [param |-> "collectionName", kinds |-> {"named"}]
  BY DEF Secrets!findSecrets_collection, Secrets!Function, Secrets!Interacting,
    Secrets!Checking, Secrets!Refusing
<1>3. "collectionName" \in Names(f.takes)
  BY DEF Secrets!findSecrets_collection, Secrets!Function, Secrets!Interacting,
    Secrets!Checking, Secrets!Refusing, Names, ToSet
<1>4. "collectionName" \in Names(m.takes)
  BY DEF Secrets!findSecrets_DBus_standalone, Secrets!Method, Secrets!When,
    Secrets!DroppingFirst, Names, ToSet
<1> HIDE DEF f, m
<1>5. PICK k \in DOMAIN m.takes :
         /\ m.takes[k] = "collectionName"
         /\ Named(m.takes, sent)["collectionName"] =
               IF k \in DOMAIN sent THEN sent[k] ELSE EmptyString
  BY <1>4, NamedValue
<1>6. k \in DOMAIN sent /\ sent[k] = Named(f.takes, Args(f, a))["collectionName"]
  BY <1>1, <1>5 DEF Sent
<1>7. Named(m.takes, sent)["collectionName"] = a["collectionName"]
  BY <1>3, <1>5, <1>6, NamedArgs
<1>8. Holds(m.when, Named(m.takes, sent)) /\ Holds(f.accepts, a)
  BY DEF f, m
<1> QED BY <1>0, <1>2, <1>7, <1>8 DEF Holds, Unchecked

\* The length of a list made for every place of another one.
LEMMA LengthOf ==
    ASSUME NEW n \in Nat, NEW e(_)
    PROVE  Len([i \in 1 .. n |-> e(i)]) = n
OBVIOUS

\* A message finds D-Bus methods that fit the function it comes from.
LEMMA Hops ==
    ASSUME NEW f \in ManagerFunctions, NEW a, Holds(f.accepts, a),
           NEW m \in Found(DBusMethods, f.name, Sent(f, Args(f, a)))
    PROVE  /\ Fits(f, m, PendingCase(m.type))
           /\ f.name # "finalizeCipherSession" => Replies(m.type, f.reply)
<1> DEFINE sent == Sent(f, Args(f, a))
<1>1. /\ m \in DBusMethods /\ m.name = f.name
      /\ Len(m.takes) = Len(sent) /\ Holds(m.when, Named(m.takes, sent))
  BY DEF Found
<1>2. Len(sent) = Len(f.gives)
  <2>1. Len(f.gives) \in Nat /\ DOMAIN f.gives = 1 .. Len(f.gives)
    BY FunctionsKnown DEF WellFormed
  <2>2. DOMAIN sent = 1 .. Len(f.gives)
    BY <2>1 DEF Sent
  <2>3. sent = [i \in 1 .. Len(f.gives) |-> sent[i]]
    BY <2>2 DEF Sent
  <2> QED BY <2>1, <2>3, LengthOf
<1>3. CASE IsSecrets
  BY <1>1, <1>2, <1>3, SearchKept, SecretsTable DEF Fitting, Replies, PendingCase, FinishedReply,
    ManagerFunctions, DBusMethods
<1>4. CASE ~IsSecrets
  BY <1>1, <1>2, <1>4, CryptoTable DEF Fitting, Replies, PendingCase, FinishedReply,
    ManagerFunctions, DBusMethods
<1> QED BY <1>3, <1>4
-----------------------------------------------------------------------------
(* The steps. *)

\* Attributes that hold no plugin name are not changed by mapping plugin names.
LEMMA NothingToMap ==
    ASSUME NEW a, IsAttributes(a), NEW p \in DOMAIN a, ~HoldsPlugin(p)
    PROVE  MAP_PLUGIN_NAMES(a[p]) = a[p]
<1>1. a[p] \in Values(p)
  BY DEF IsAttributes
<1>2. a[p].plugin \in {"none", "none2"}
  BY <1>1 DEF Values, Value
<1> QED BY <1>2 DEF MAP_PLUGIN_NAMES

\* What depends on the class only stays.
LEMMA ClassKept ==
    ASSUME class' = class
    PROVE  /\ Description' = Description
           /\ \A a : IsAttributes(a)' <=> IsAttributes(a)
           /\ \A a : StartedWith(a)' = StartedWith(a)
           /\ ManagerFunctions' = ManagerFunctions
           /\ \A t : PendingCase(t)' = PendingCase(t)
           /\ \A t, e : Replies(t, e)' <=> Replies(t, e)
<1>1. IsSecrets' = IsSecrets
  BY DEF IsSecrets
<1>2. Description' = Description
  BY <1>1 DEF Description
<1>3. \A p : Values(p)' = Values(p)
  BY <1>1 DEF Values, Kinds
<1>4. \A t : PendingCase(t)' = PendingCase(t) /\ FinishedReply(t)' = FinishedReply(t)
  BY <1>1 DEF PendingCase, FinishedReply
<1> QED BY <1>1, <1>2, <1>3, <1>4 DEF IsAttributes, StartedWith, ManagerFunctions, Replies

\* The first state satisfies the invariant.
LEMMA InvInit == Init => ClientInv
<1> SUFFICES ASSUME Init PROVE ClientInv
  OBVIOUS
<1>1. \A p : ~(Kinds(p) # {p}) => \E v \in FirstValues(p) : TRUE
  <2> SUFFICES ASSUME NEW p, Kinds(p) = {p}
               PROVE  \E v \in FirstValues(p) : TRUE
    OBVIOUS
  <2>1. CASE HoldsPlugin(p)
    <3>1. Value(p, "default") \in Values(p)
      BY <2>1 DEF Values
    <3> QED BY <3>1 DEF FirstValues, Value
  <2>2. CASE ~HoldsPlugin(p)
    <3>1. Value(p, "none") \in Values(p)
      BY <2>2 DEF Values
    <3> QED BY <3>1 DEF FirstValues, Value
  <2> QED BY <2>1, <2>2
<1>2. IsAttributes(attrs)
  <2>1. PICK f \in [Deciding -> UNION {FirstValues(p) : p \in Deciding}] :
           /\ \A p \in Deciding : f[p] \in FirstValues(p)
           /\ attrs = [p \in Description.attributes |->
                         IF p \in Deciding THEN f[p] ELSE CHOOSE v \in FirstValues(p) : TRUE]
    BY DEF Init
  <2>2. \A p \in Description.attributes : p \notin Deciding => Kinds(p) = {p}
    BY DEF Deciding
  <2>3. \A p \in Description.attributes : attrs[p] \in FirstValues(p)
    BY <2>1, <2>2, <1>1
  <2> QED BY <2>1, <2>3 DEF IsAttributes, FirstValues
<1>3. Typed
  <2>1. CallTypeOK
    BY DEF Init, CallTypeOK, NoCall
  <2>2. masterLocked \in BOOLEAN
    BY DEF Init
  <2>3. TypeOK
    BY <1>2, <2>2 DEF Init, TypeOK, IsAttributes, NoCall
  <2> QED BY <1>2, <2>1, <2>3 DEF Init, Typed
<1> QED BY <1>3 DEF Init, ClientInv, NoCall, StatusFollows, AttributesKept, MessageRight,
    QueuedRight, GivenRight, RepliesRight, AnswerRight, Waiting, SuccessIsTheDaemons,
    FinishedIsCurrent

\* The object calls the function that startRequest names, with its attributes.
LEMMA CalledRight ==
    ASSUME class \in Classes, IsAttributes(attrs)
    PROVE  /\ Called \in ManagerFunctions
           /\ StartedAs(Called, Started, Description.attributes)
           /\ Arguments = Args(Called, attrs)
<1>1. Started = StartedWith(attrs)
  BY DEF Started, StartedWith
<1>2. PICK f \in ManagerFunctions : StartedAs(f, Started, Description.attributes)
  BY <1>1, Starts
<1>3. f.name = Started.call.name /\ f.takes = Started.call.args
  BY <1>2 DEF StartedAs
<1>4. /\ Called \in ManagerFunctions /\ Called.name = Started.call.name
      /\ Len(Called.takes) = Len(Started.call.args)
  BY <1>3 DEF Called
<1>5. Called = f
  BY <1>3, <1>4, FunctionsKnown
<1>6. Arguments = Args(f, attrs)
  BY <1>3 DEF Arguments, Args
<1> QED BY <1>2, <1>5, <1>6

\* What a function answers by itself, and when it sends a message.
LEMMA ImmediateRight ==
    ASSUME NEW f \in ManagerFunctions, NEW reply \in ImmediateReplies(f, Args(f, attrs))
    PROVE  /\ reply \in {"notConnected", "mismatch", "Failed", "none"}
           /\ reply = "none" => Holds(f.accepts, attrs)
           /\ reply = "mismatch" => ~Matches(f.refusal, f.reply)
<1> DEFINE env == Named(f.takes, Args(f, attrs))
<1>1. Holds(f.accepts, env) => Holds(f.accepts, attrs)
  <2>1. f.accepts = Unchecked \/ f.accepts.param \in Names(f.takes)
    BY FunctionsKnown DEF WellFormed
  <2>2. \A p \in Names(f.takes) : env[p] = attrs[p]
    BY NamedArgs
  <2> HIDE DEF env
  <2> QED BY <2>1, <2>2 DEF Holds
<1>2. Received(f.refusal, "Failed", f.reply) \in {"Failed", "mismatch"}
  BY DEF Received
<1>3. Received(f.refusal, "Failed", f.reply) = "mismatch" => ~Matches(f.refusal, f.reply)
  BY DEF Received
<1> HIDE DEF env
<1> QED BY <1>1, <1>2, <1>3 DEF ImmediateReplies, env

\* The setters keep the invariant.
LEMMA SetAttributeStep == ClientInv /\ SetAttribute => ClientInv'
<1> SUFFICES ASSUME ClientInv, SetAttribute PROVE ClientInv'
  OBVIOUS
<1>0. class \in Classes /\ class' = class /\ call' = call /\ starts' = starts
  BY DEF SetAttribute, ClientInv, Typed, TypeOK
<1>1. /\ Description' = Description
      /\ \A a : IsAttributes(a)' <=> IsAttributes(a)
      /\ \A a : StartedWith(a)' = StartedWith(a)
      /\ ManagerFunctions' = ManagerFunctions
      /\ \A t : PendingCase(t)' = PendingCase(t)
      /\ \A t, e : Replies(t, e)' <=> Replies(t, e)
  BY <1>0, ClassKept
<1>2. PICK p \in Description.attributes : \E v \in Values(p) :
         /\ Settable(p) /\ attrs' = [attrs EXCEPT ![p] = v]
         /\ outs' = IF ResetsOutputs(p) THEN 0 ELSE outs
  BY DEF SetAttribute
<1>3. PICK v \in Values(p) : /\ Settable(p) /\ attrs' = [attrs EXCEPT ![p] = v]
                             /\ outs' = IF ResetsOutputs(p) THEN 0 ELSE outs
  BY <1>2
<1>4. m_status' = IF m_status = "Finished" THEN "Inactive" ELSE m_status
  BY DEF SetAttribute
<1>5. IsAttributes(attrs')
  BY <1>3 DEF ClientInv, Typed, IsAttributes
<1>6. Typed'
  <2>1. IsAttributes(attrs)'
    BY <1>0, <1>5, ClassKept
  <2> QED BY <1>0, <1>3, <1>4, <2>1 DEF SetAttribute, ClientInv, Typed, TypeOK,
      CallTypeOK, IsAttributes
<1>7. StatusFollows'
  BY <1>0, <1>4 DEF ClientInv, StatusFollows, Typed, TypeOK
<1>8. AttributesKept'
  <2>1. m_status' # "Inactive" => p = "customParameters"
    BY <1>3, <1>4 DEF Settable, ClientInv, Typed, TypeOK
  <2> QED BY <1>0, <1>1, <1>3, <1>4, <2>1 DEF ClientInv, AttributesKept, Typed, IsAttributes
<1>9. MessageRight'
  BY <1>0, <1>1 DEF ClientInv, MessageRight
<1>10. QueuedRight' /\ GivenRight'
  BY <1>0, <1>1 DEF ClientInv, QueuedRight, GivenRight, ArrivedAs, Arrived, LeftUnmapped
<1>11. RepliesRight' /\ AnswerRight'
  BY <1>0, <1>1, <1>4 DEF ClientInv, RepliesRight, AnswerRight, Waiting
<1>12. m_status' # "Finished"
  BY <1>4
<1> QED BY <1>6, <1>7, <1>8, <1>9, <1>10, <1>11, <1>12 DEF ClientInv, SuccessIsTheDaemons,
    FinishedIsCurrent

\* A step of the daemon or of the connection keeps the invariant when the call
\* stays the one of an active object and what is known of it is right.
LEMMA CallStep ==
    ASSUME ClientInv, m_status = "Active",
           UNCHANGED <<class, attrs, m_status, m_result, outs, starts>>,
           m_manager' \in {"null", "unconnected", "up", "down"}, masterLocked' \in BOOLEAN,
           call'.at \in {"queued", "processing", "answered"}, call'.attrs = call.attrs,
           CallTypeOK', QueuedRight', GivenRight', RepliesRight', AnswerRight'
    PROVE  ClientInv'
<1>1. /\ Description' = Description
      /\ \A a : IsAttributes(a)' <=> IsAttributes(a)
  BY ClassKept
<1>2. Typed'
  <2>1. IsAttributes(attrs)'
    BY <1>1 DEF ClientInv, Typed
  <2> QED BY <1>1, <2>1 DEF ClientInv, Typed, TypeOK, IsAttributes
<1>3. StatusFollows' /\ MessageRight'
  BY DEF StatusFollows, MessageRight
<1>4. AttributesKept'
  BY <1>1 DEF ClientInv, AttributesKept, StatusFollows
<1> QED BY <1>2, <1>3, <1>4 DEF ClientInv, SuccessIsTheDaemons, FinishedIsCurrent

\* A call whose reply is lost.
LEMMA LostStep ==
    ASSUME ClientInv, Waiting, call' = Lost,
           UNCHANGED <<class, attrs, m_status, m_result, outs, masterLocked, starts>>,
           m_manager' \in {"null", "unconnected", "up", "down"}
    PROVE  ClientInv'
<1>1. m_status = "Active"
  BY DEF Waiting, ClientInv, StatusFollows, Typed, TypeOK
<1>2. \A a : StartedWith(a)' = StartedWith(a)
  BY ClassKept
<1>3. /\ call'.at = "answered" /\ call'.attrs = call.attrs /\ call'.number = call.number
      /\ call'.type = call.type /\ call'.given = call.given /\ call'.reply = "lost"
      /\ CallTypeOK'
  BY DEF Lost, ClientInv, Typed, CallTypeOK
<1>4. GivenRight'
  BY <1>2, <1>3 DEF ClientInv, GivenRight, ArrivedAs, Arrived, LeftUnmapped
<1>5. QueuedRight' /\ RepliesRight' /\ AnswerRight'
  BY <1>3 DEF QueuedRight, RepliesRight, AnswerRight, Waiting
<1>6. masterLocked' \in BOOLEAN
  BY DEF ClientInv, Typed, TypeOK
<1> QED BY <1>1, <1>3, <1>4, <1>5, <1>6, CallStep

\* Steps that leave the object and its call alone.
LEMMA AloneStep ==
    ASSUME ClientInv,
           UNCHANGED <<class, attrs, m_status, m_result, outs, call, starts>>,
           m_manager' \in {"null", "unconnected", "up", "down"}, masterLocked' \in BOOLEAN
    PROVE  ClientInv'
<1>1. /\ Description' = Description
      /\ \A a : IsAttributes(a)' <=> IsAttributes(a)
      /\ \A a : StartedWith(a)' = StartedWith(a)
      /\ ManagerFunctions' = ManagerFunctions
      /\ \A t : PendingCase(t)' = PendingCase(t)
      /\ \A t, e : Replies(t, e)' <=> Replies(t, e)
  BY ClassKept
<1>2. Typed'
  <2>1. IsAttributes(attrs)'
    BY <1>1 DEF ClientInv, Typed
  <2> QED BY <1>1, <2>1 DEF ClientInv, Typed, TypeOK, IsAttributes, CallTypeOK
<1>3. StatusFollows' /\ AttributesKept'
  BY <1>1 DEF ClientInv, StatusFollows, AttributesKept
<1>4. MessageRight'
  BY <1>1 DEF ClientInv, MessageRight
<1>5. QueuedRight' /\ GivenRight'
  BY <1>1 DEF ClientInv, QueuedRight, GivenRight, ArrivedAs, Arrived, LeftUnmapped
<1>6. RepliesRight' /\ AnswerRight'
  BY <1>1 DEF ClientInv, RepliesRight, AnswerRight, Waiting
<1>7. Started' = Started
  BY <1>1 DEF Started, StartedWith
<1>8. SuccessIsTheDaemons' /\ FinishedIsCurrent'
  BY <1>1, <1>7 DEF ClientInv, SuccessIsTheDaemons, FinishedIsCurrent, Unseen
<1> QED BY <1>2, <1>3, <1>4, <1>5, <1>6, <1>8 DEF ClientInv

\* Dispatch finds a D-Bus method that fits the function of the manager.
LEMMA DispatchStep == ClientInv /\ Dispatch => ClientInv'
<1> SUFFICES ASSUME ClientInv, Dispatch PROVE ClientInv'
  OBVIOUS
<1>0. /\ call.at = "sent" /\ m_status = "Active" /\ class \in Classes
      /\ UNCHANGED <<class, attrs, m_status, m_result, outs, m_manager, masterLocked, starts>>
  BY DEF Dispatch, ClientUnchanged, ClientInv, StatusFollows, Typed, TypeOK
<1>1. /\ \A a : StartedWith(a)' = StartedWith(a)
      /\ \A t : PendingCase(t)' = PendingCase(t)
      /\ \A t, e : Replies(t, e)' <=> Replies(t, e)
  BY <1>0, ClassKept
<1>2. PICK f \in ManagerFunctions :
         /\ f.name = StartedWith(call.attrs).call.name
         /\ f.takes = StartedWith(call.attrs).call.args
         /\ Holds(f.accepts, call.attrs)
         /\ call.method = f.name /\ call.expected = f.reply
         /\ call.args = Sent(f, Args(f, call.attrs))
  BY <1>0 DEF ClientInv, MessageRight
<1>3. PICK m \in Found(DBusMethods, call.method, call.args) :
         call' = [call EXCEPT !.at = "queued", !.type = m.type,
                              !.args = Enqueued(m, call.args)]
  BY DEF Dispatch
<1>4. IsAttributes(call.attrs)
  BY <1>0 DEF ClientInv, AttributesKept
<1>5. f.name # "finalizeCipherSession" /\ Names(f.takes) \subseteq DOMAIN call.attrs
  <2>1. PICK g \in ManagerFunctions :
           StartedAs(g, StartedWith(call.attrs), Description.attributes)
    BY <1>0, <1>4, Starts
  <2> QED BY <1>2, <1>4, <2>1 DEF StartedAs, IsAttributes
<1>6. Fits(f, m, PendingCase(m.type)) /\ Replies(m.type, f.reply)
  BY <1>2, <1>3, <1>5, Hops
<1>7. Arrived(Names(f.takes), Named(PendingCase(m.type).takes, Enqueued(m, call.args)),
              m.type, call.attrs)
  <2>1. \A p \in Names(f.takes) : ~HoldsPlugin(p) =>
           MAP_PLUGIN_NAMES(call.attrs[p]) = call.attrs[p]
    BY <1>4, <1>5, NothingToMap
  <2> QED BY <1>2, <1>6, <2>1, Transported
<1>8. /\ call'.at = "queued" /\ call'.type = m.type /\ call'.args = Enqueued(m, call.args)
      /\ call'.attrs = call.attrs /\ call'.given = call.given /\ call'.expected = call.expected
      /\ call'.reply = call.reply /\ call'.answer = call.answer
      /\ CallTypeOK'
  BY <1>0, <1>3 DEF ClientInv, Typed, CallTypeOK
<1>9. QueuedRight'
  BY <1>0, <1>1, <1>2, <1>7, <1>8 DEF ClientInv, MessageRight, QueuedRight, ArrivedAs,
     Arrived, LeftUnmapped
<1>10. GivenRight'
  BY <1>0, <1>8 DEF ClientInv, MessageRight, GivenRight
<1>11. RepliesRight'
  BY <1>1, <1>2, <1>6, <1>8 DEF RepliesRight
<1>12. AnswerRight'
  BY <1>0, <1>8 DEF ClientInv, AnswerRight, Waiting
<1> QED BY <1>0, <1>8, <1>9, <1>10, <1>11, <1>12, CallStep DEF ClientInv, Typed, TypeOK

\* An answer of the daemon, whose types are the expected ones or that of a request
\* that is answered with an int for a VerificationStatus.
LEMMA AnswerStep ==
    ASSUME ClientInv, Waiting, NEW types, NEW result \in {"Succeeded", "Failed"},
           Matches(types, call.expected) \/ call.type \in Mistyped,
           UNCHANGED <<class, attrs, m_status, m_result, outs, m_manager, masterLocked, starts>>,
           \/ call' = Answer(types, result)
           \/ /\ call' = [Answer(types, result) EXCEPT
                             !.given = Named(PendingCase(call.type).takes, call.args)]
              /\ call.at = "queued"
    PROVE  ClientInv'
<1>1. m_status = "Active"
  BY DEF Waiting, ClientInv, StatusFollows, Typed, TypeOK
<1>2. \A a : StartedWith(a)' = StartedWith(a)
  BY ClassKept
<1>3. /\ call'.at = "answered" /\ call'.attrs = call.attrs
      /\ call'.type = call.type /\ call'.answer = result
      /\ call'.reply = Received(types, result, call.expected)
      /\ CallTypeOK'
  BY DEF Answer, Received, ClientInv, Typed, CallTypeOK
<1>4. GivenRight'
  <2>1. CASE call'.given = call.given
    BY <1>2, <1>3, <2>1 DEF ClientInv, GivenRight, ArrivedAs, Arrived, LeftUnmapped
  <2>2. CASE call.at = "queued" /\ call'.given = Named(PendingCase(call.type).takes, call.args)
    BY <1>2, <1>3, <2>2 DEF ClientInv, GivenRight, QueuedRight, ArrivedAs, Arrived, LeftUnmapped
  <2>3. \/ call'.given = call.given
        \/ call.at = "queued" /\ call'.given = Named(PendingCase(call.type).takes, call.args)
    BY DEF Answer, ClientInv, Typed, CallTypeOK
  <2> QED BY <2>1, <2>2, <2>3
<1>5. QueuedRight' /\ RepliesRight' /\ AnswerRight'
  BY <1>3 DEF QueuedRight, RepliesRight, AnswerRight, Waiting, Received
<1> QED BY <1>1, <1>3, <1>4, <1>5, CallStep DEF ClientInv, Typed, TypeOK

\* The manager understands an answer made of what it expects.
LEMMA ExpectedMatches ==
    ASSUME ClientInv, call.at = "sent"
    PROVE  Matches(call.expected, call.expected)
BY FunctionsKnown DEF ClientInv, MessageRight, WellFormed

\* Reject keeps the invariant.
LEMMA RejectStep == ClientInv /\ Reject => ClientInv'
<1> SUFFICES ASSUME ClientInv, Reject PROVE ClientInv'
  OBVIOUS
<1>1. /\ Waiting /\ call.at = "sent"
      /\ UNCHANGED <<class, attrs, m_status, m_result, outs, m_manager, masterLocked, starts>>
  BY DEF Reject, ClientUnchanged, Waiting
<1>2. CASE call' = Answer(call.expected, "Failed")
  BY <1>1, <1>2, ExpectedMatches, AnswerStep
<1>3. CASE call' = Lost
  BY <1>1, <1>3, LostStep DEF ClientInv, Typed, TypeOK
<1> QED BY <1>2, <1>3 DEF Reject

\* A pending request is refused, answered or kept with its parameters.
LEMMA HandlePendingRequestStep == ClientInv /\ HandlePendingRequest => ClientInv'
<1> SUFFICES ASSUME ClientInv, HandlePendingRequest PROVE ClientInv'
  OBVIOUS
<1> DEFINE c == PendingCase(call.type)
           given == Named(c.takes, call.args)
<1>1. /\ Waiting /\ call.at = "queued" /\ m_status = "Active"
      /\ UNCHANGED <<class, attrs, m_status, m_result, outs, m_manager, masterLocked, starts>>
  BY DEF HandlePendingRequest, ClientUnchanged, Waiting, ClientInv, StatusFollows, Typed, TypeOK
<1>2. Matches(c.reply, call.expected) \/ call.type \in Mistyped
  BY <1>1 DEF ClientInv, RepliesRight, Replies
<1>3. CASE call' = Answer(c.reply, "Failed")
  BY <1>1, <1>2, <1>3, AnswerStep
<1>4. CASE \E result \in {"Succeeded", "Failed"} :
              call' = [Answer(c.reply, result) EXCEPT !.given = given]
  BY <1>1, <1>2, <1>4, AnswerStep
<1>5. CASE /\ ~c.immediate
           /\ call' = [call EXCEPT !.at = "processing", !.given = given, !.args = <<>>]
  <2>1. /\ \A a : StartedWith(a)' = StartedWith(a)
        /\ \A t : PendingCase(t)' = PendingCase(t)
        /\ \A t, e : Replies(t, e)' <=> Replies(t, e)
    BY <1>1, ClassKept
  <2>2. /\ call'.at = "processing" /\ call'.attrs = call.attrs /\ call'.type = call.type
        /\ call'.given = given /\ call'.expected = call.expected
        /\ call'.reply = call.reply /\ call'.answer = call.answer
        /\ CallTypeOK'
    BY <1>1, <1>5 DEF ClientInv, Typed, CallTypeOK
  <2>3. GivenRight'
    BY <1>1, <2>1, <2>2 DEF ClientInv, GivenRight, QueuedRight, ArrivedAs, Arrived, LeftUnmapped
  <2>4. QueuedRight' /\ RepliesRight'
    BY <1>1, <1>5, <2>1, <2>2 DEF ClientInv, QueuedRight, RepliesRight
  <2>5. AnswerRight'
    BY <1>1, <2>2 DEF ClientInv, AnswerRight, Waiting
  <2> QED BY <1>1, <2>2, <2>3, <2>4, <2>5, CallStep DEF ClientInv, Typed, TypeOK
<1> QED BY <1>3, <1>4, <1>5 DEF HandlePendingRequest

\* A request that is not answered at once is answered when it is finished.
LEMMA HandleFinishedRequestStep == ClientInv /\ HandleFinishedRequest => ClientInv'
<1> SUFFICES ASSUME ClientInv, HandleFinishedRequest PROVE ClientInv'
  OBVIOUS
<1>1. /\ Waiting /\ call.at = "processing"
      /\ UNCHANGED <<class, attrs, m_status, m_result, outs, m_manager, masterLocked, starts>>
  BY DEF HandleFinishedRequest, ClientUnchanged, Waiting
<1>2. Matches(FinishedReply(call.type), call.expected) \/ call.type \in Mistyped
  BY <1>1 DEF ClientInv, RepliesRight, Replies
<1> QED BY <1>1, <1>2, AnswerStep DEF HandleFinishedRequest

\* The lambda of the watcher finishes the request with the answer.
LEMMA DeliverStep == ClientInv /\ Deliver => ClientInv'
<1> SUFFICES ASSUME ClientInv, Deliver PROVE ClientInv'
  OBVIOUS
<1>0. /\ m_status = "Active" /\ call.at = "answered" /\ class \in Classes
      /\ UNCHANGED <<class, attrs, m_manager, masterLocked, starts>>
      /\ m_status' = "Finished"
  BY DEF Deliver, ClientInv, Typed, TypeOK
<1>1. /\ Description' = Description
      /\ \A a : IsAttributes(a)' <=> IsAttributes(a)
      /\ \A a : StartedWith(a)' = StartedWith(a)
  BY <1>0, ClassKept
<1>2. /\ call'.at = "done" /\ call'.attrs = call.attrs /\ call'.number = call.number
      /\ call'.type = call.type /\ call'.given = call.given /\ call'.expected = call.expected
      /\ call'.reply = call.reply /\ call'.answer = call.answer
      /\ CallTypeOK'
  BY <1>0 DEF Deliver, ClientInv, Typed, CallTypeOK
<1>3. Typed'
  <2>1. IsAttributes(attrs)'
    BY <1>0, <1>1 DEF ClientInv, Typed
  <2>2. m_result' \in {"Pending", "Succeeded", "Failed"}
    BY <1>0 DEF Deliver, IsError, ClientInv, Typed, CallTypeOK
  <2>3. outs' \in 0 .. starts'
    BY <1>0 DEF Deliver, ClientInv, Typed, TypeOK, CallTypeOK
  <2> QED BY <1>0, <1>1, <1>2, <2>1, <2>2, <2>3 DEF ClientInv, Typed, TypeOK, IsAttributes
<1>4. StatusFollows' /\ AttributesKept'
  BY <1>0, <1>1, <1>2 DEF ClientInv, StatusFollows, AttributesKept
<1>5. MessageRight' /\ QueuedRight' /\ RepliesRight' /\ AnswerRight'
  BY <1>0, <1>2 DEF ClientInv, MessageRight, QueuedRight, RepliesRight, AnswerRight, Waiting
<1>6. GivenRight'
  BY <1>1, <1>2 DEF ClientInv, GivenRight, ArrivedAs, Arrived, LeftUnmapped
<1>7. Started' = Started
  BY <1>0, <1>1 DEF Started, StartedWith
<1>8. SuccessIsTheDaemons'
  <2>1. CASE ~IsError(call.reply)
    BY <1>0, <1>2, <2>1 DEF Deliver, ClientInv, AnswerRight, SuccessIsTheDaemons
  <2>2. CASE IsError(call.reply) /\ Started.answers.lambda
    BY <1>0, <2>2 DEF Deliver, SuccessIsTheDaemons
  <2>3. CASE IsError(call.reply) /\ ~Started.answers.lambda
    BY <1>0, <1>2, <1>7, <2>3 DEF ClientInv, AnswerRight, IsError, Mistyped, Unseen,
      SuccessIsTheDaemons
  <2> QED BY <2>1, <2>2, <2>3
<1>9. FinishedIsCurrent'
  <2>1. HasOutputs(call.expected) => outs' = IF IsError(call.reply) THEN 0 ELSE call.number
    BY DEF Deliver
  <2> QED BY <1>0, <1>1, <1>2, <2>1 DEF ClientInv, AttributesKept, FinishedIsCurrent
<1> QED BY <1>3, <1>4, <1>5, <1>6, <1>8, <1>9 DEF ClientInv

\* A request that is started has made a new call: the manager answered it, or the
\* message is on its way.
LEMMA StartRequestStep == ClientInv /\ StartRequest => ClientInv'
<1> SUFFICES ASSUME ClientInv, StartRequest PROVE ClientInv'
  OBVIOUS
<1> DEFINE new == [NoCall EXCEPT !.number = starts + 1, !.attrs = attrs,
                                 !.expected = Called.reply]
<1>0. /\ class \in Classes /\ IsAttributes(attrs) /\ starts \in Nat /\ starts' = starts + 1
      /\ UNCHANGED <<class, attrs, m_manager, masterLocked>>
  BY DEF StartRequest, ClientInv, Typed, TypeOK
<1>1. /\ Description' = Description
      /\ \A a : IsAttributes(a)' <=> IsAttributes(a)
      /\ \A a : StartedWith(a)' = StartedWith(a)
      /\ ManagerFunctions' = ManagerFunctions
  BY <1>0, ClassKept
<1>2. /\ Called \in ManagerFunctions
      /\ StartedAs(Called, Started, Description.attributes)
      /\ Arguments = Args(Called, attrs)
  BY <1>0, CalledRight
<1>3. PICK reply \in ImmediateReplies(Called, Arguments) :
         IF reply # "none"
         THEN ImmediatelyAnswered(reply, new)
         ELSE /\ m_status' = "Active" /\ m_result' = "Pending"
              /\ call' = [new EXCEPT !.at = "sent", !.method = Called.name,
                                     !.args = Sent(Called, Arguments)]
              /\ UNCHANGED outs
  BY DEF StartRequest
<1>4. /\ reply \in {"notConnected", "mismatch", "Failed", "none"}
      /\ reply = "none" => Holds(Called.accepts, attrs)
      /\ reply = "mismatch" => ~Matches(Called.refusal, Called.reply)
  BY <1>2, <1>3, ImmediateRight
<1>5. IsAttributes(attrs)' /\ IsAttributes(attrs')
  BY <1>0, <1>1
<1>6. outs' \in 0 .. starts' /\ m_status' \in {"Active", "Finished"}
      /\ m_result' \in {"Pending", "Failed"}
  <2>1. outs \in 0 .. starts
    BY DEF ClientInv, Typed, TypeOK
  <2> QED BY <1>0, <1>3, <2>1 DEF ImmediatelyAnswered, OutputsBy
<1>7. SuccessIsTheDaemons' /\ (m_result' # "Succeeded")
  BY <1>6 DEF SuccessIsTheDaemons
<1>8. CASE reply = "none"
  <2>1. /\ call' = [at |-> "sent", number |-> starts + 1, attrs |-> attrs,
                    method |-> Called.name, args |-> Sent(Called, Arguments),
                    expected |-> Called.reply, type |-> "none", given |-> <<>>,
                    reply |-> "none", answer |-> "none"]
        /\ m_status' = "Active"
    BY <1>3, <1>8 DEF NoCall
  <2>2. Typed' /\ StatusFollows'
    BY <1>0, <1>1, <1>5, <1>6, <2>1 DEF ClientInv, Typed, TypeOK, IsAttributes, CallTypeOK,
      StatusFollows
  <2>3. AttributesKept'
    BY <1>0, <1>1, <1>5, <2>1 DEF AttributesKept
  <2>4. MessageRight'
    <3>1. Started = StartedWith(attrs)
      BY DEF Started, StartedWith
    <3>2. /\ Called.name = StartedWith(call'.attrs).call.name
          /\ Called.takes = StartedWith(call'.attrs).call.args
      BY <1>2, <2>1, <3>1 DEF StartedAs
    <3>3. \E f \in ManagerFunctions :
             /\ f.name = StartedWith(call'.attrs).call.name
             /\ f.takes = StartedWith(call'.attrs).call.args
             /\ Holds(f.accepts, call'.attrs)
             /\ call'.method = f.name /\ call'.expected = f.reply
             /\ call'.args = Sent(f, Args(f, call'.attrs))
      BY <1>2, <1>4, <1>8, <2>1, <3>2
    <3> QED BY <1>1, <2>1, <3>3 DEF MessageRight
  <2>5. QueuedRight' /\ GivenRight' /\ RepliesRight' /\ AnswerRight'
    BY <2>1 DEF QueuedRight, GivenRight, RepliesRight, AnswerRight
  <2>6. FinishedIsCurrent'
    BY <2>1 DEF FinishedIsCurrent
  <2> QED BY <1>7, <2>2, <2>3, <2>4, <2>5, <2>6 DEF ClientInv
<1>9. CASE reply # "none"
  <2>1. PICK at \in {"done", "answered"} :
           /\ call' = [at |-> at, number |-> starts + 1, attrs |-> attrs,
                       method |-> "none", args |-> <<>>,
                       expected |-> Called.reply, type |-> "none", given |-> <<>>,
                       reply |-> reply, answer |-> "none"]
           /\ IF at = "done" THEN m_status' = "Finished"
              ELSE m_status' = "Active" /\ ~Started.answers.errors
    BY <1>3, <1>9, ZenonT(30) DEF NoCall, ImmediatelyAnswered
  <2>2. Typed' /\ StatusFollows'
    BY <1>0, <1>1, <1>4, <1>5, <1>6, <1>9, <2>1 DEF ClientInv, Typed, TypeOK, IsAttributes,
      CallTypeOK, StatusFollows
  <2>3. AttributesKept' /\ FinishedIsCurrent'
    BY <1>0, <1>1, <1>5, <1>7, <2>1 DEF AttributesKept, FinishedIsCurrent
  <2>4. MessageRight' /\ QueuedRight' /\ GivenRight' /\ RepliesRight'
    BY <2>1 DEF MessageRight, QueuedRight, GivenRight, RepliesRight
  <2>5. AnswerRight'
    BY <1>2, <1>4, <2>1 DEF StartedAs, AnswerRight, Waiting
  <2> QED BY <1>7, <2>2, <2>3, <2>4, <2>5 DEF ClientInv
<1> QED BY <1>8, <1>9

\* Every step keeps the invariant.
LEMMA InvStep == ClientInv /\ [Next]_vars => ClientInv'
<1> SUFFICES ASSUME ClientInv, [Next]_vars PROVE ClientInv'
  OBVIOUS
<1>0. /\ m_manager \in {"null", "unconnected", "up", "down"} /\ masterLocked \in BOOLEAN
  BY DEF ClientInv, Typed, TypeOK
<1>1. CASE SetManager
  BY <1>0, <1>1, AloneStep DEF SetManager
<1>2. CASE Timeout
  BY <1>0, <1>2, LostStep DEF Timeout, ClientUnchanged
<1>3. CASE Disconnect
  <2>1. CASE Waiting
    BY <1>0, <1>3, <2>1, LostStep DEF Disconnect
  <2>2. CASE ~Waiting
    BY <1>0, <1>3, <2>2, AloneStep DEF Disconnect
  <2> QED BY <2>1, <2>2
<1>4. CASE MasterLockChanges
  BY <1>0, <1>4, AloneStep DEF MasterLockChanges
<1>5. CASE UNCHANGED vars
  BY <1>0, <1>5, AloneStep DEF vars
<1> QED BY <1>1, <1>2, <1>3, <1>4, <1>5, SetAttributeStep, StartRequestStep, DispatchStep,
    RejectStep, HandlePendingRequestStep, HandleFinishedRequestStep, DeliverStep DEF Next
-----------------------------------------------------------------------------
(* The theorems. *)

\* ClientInv holds always: every message, queued request and answer on the way
\* belongs to the attributes the object was started with, and has the types the
\* object expects.
THEOREM ClientInvAlways == Spec => []ClientInv
BY InvInit, InvStep, PTL DEF Spec

\* The variables of the object, of its call and of the connection always have
\* their types.
THEOREM TypeCorrect == Spec => []TypeOK
<1>1. ClientInv => TypeOK
  BY DEF ClientInv, Typed
<1> QED BY <1>1, ClientInvAlways, PTL

\* Whatever class the object has and however often it is set and started, the
\* request processor is given the attributes of the object under their names:
\* nothing is swapped, dropped or left unmapped by startRequest, the manager, the
\* D-Bus method or the case of handlePendingRequest, beyond LeftUnmapped.
THEOREM ParametersAlwaysArrive == Spec => []ParametersArrive
<1>1. ClientInv => ParametersArrive
  <2> SUFFICES ASSUME ClientInv, m_status = "Active", call.given # <<>>
               PROVE  /\ \A p \in Names(Started.call.args) \ {"customParameters"} :
                            /\ p \in DOMAIN call.given
                            /\ call.given[p] = IF <<call.type, p>> \in LeftUnmapped THEN attrs[p]
                                               ELSE MAP_PLUGIN_NAMES(attrs[p])
                      /\ ServiceAddress \in DOMAIN call.given =>
                            call.given[ServiceAddress] = Address(attrs.userInteractionMode)
    BY DEF ParametersArrive, ServiceAddress
  <2>1. /\ class \in Classes /\ IsAttributes(attrs)
        /\ \A p \in Description.attributes \ {"customParameters"} : attrs[p] = call.attrs[p]
    BY DEF ClientInv, Typed, TypeOK, AttributesKept
  <2>2. Started = StartedWith(call.attrs)
    <3>1. StartedWith(attrs) = StartedWith(call.attrs)
      BY <2>1, StartAgrees
    <3> QED BY <3>1 DEF Started, StartedWith
  <2>3. Arrived(Names(Started.call.args), call.given, call.type, call.attrs)
    BY <2>2 DEF ClientInv, GivenRight, ArrivedAs
  <2>4. Names(Started.call.args) \subseteq Description.attributes
    BY <2>1, CalledRight DEF StartedAs
  <2>5. ServiceAddress \in DOMAIN call.given =>
           attrs.userInteractionMode = call.attrs.userInteractionMode
    BY <2>1, <2>3, <2>4 DEF Arrived
  <2> QED BY <2>1, <2>3, <2>4, <2>5 DEF Arrived
<1> QED BY <1>1, ClientInvAlways, PTL

\* A request that finished as Succeeded was answered so by the daemon for its last
\* call, whatever the daemon, the connection and the manager did, apart from the
\* errors its lambda does not look at.
THEOREM SuccessIsAlwaysTheDaemons == Spec => []SuccessIsTheDaemons
<1>1. ClientInv => SuccessIsTheDaemons
  BY DEF ClientInv
<1> QED BY <1>1, ClientInvAlways, PTL

\* A finished request describes the attributes the object has, and its outputs are
\* never left over from an earlier call.
THEOREM FinishedIsAlwaysCurrent == Spec => []FinishedIsCurrent
<1>1. ClientInv => FinishedIsCurrent
  BY DEF ClientInv
<1> QED BY <1>1, ClientInvAlways, PTL
=============================================================================
