----------------------------- MODULE SecretsApi -----------------------------
(*****************************************************************************)
(* The calls of the Secrets API, hop by hop: the functions of SecretManager, *)
(* the D-Bus methods of the daemon (secrets.cpp), the cases of the secrets   *)
(* queue and the request classes of lib/Secrets.  ClientRequest runs them.   *)
(*****************************************************************************)
EXTENDS CallPath
-----------------------------------------------------------------------------
(* The functions of SecretManagerPrivate. *)

getPluginInfo ==
    Function("getPluginInfo", <<>>, <<"Result", "PluginInfos", "PluginInfos",
        "PluginInfos", "PluginInfos">>)

getHealthInfo ==
    Function("getHealthInfo", <<>>, <<"Result", "Health", "Health">>)

userInput ==
    Function("userInput", <<"interactionParameters">>, <<"Result",
        "QByteArray">>)

collectionNames ==
    Function("collectionNames", <<"storagePluginName">>, <<"Result",
        "QVariantMap">>)

createCollection_deviceLock ==
    Function("createCollection", <<"collectionName", "storagePluginName",
        "encryptionPluginName", "deviceLockUnlockSemantic",
        "accessControlMode">>, <<"Result">>)

createCollection_customLock ==
    Interacting(Function("createCollection", <<"collectionName",
        "storagePluginName", "encryptionPluginName",
        "authenticationPluginName", "customLockUnlockSemantic",
        "accessControlMode", "userInteractionMode">>, <<"Result">>))

deleteCollection ==
    Interacting(Function("deleteCollection", <<"collectionName",
        "storagePluginName", "userInteractionMode">>, <<"Result">>))

setSecret_collection ==
    Checking(Interacting(Function("setSecret", <<"secret",
        "interactionParameters", "userInteractionMode">>, <<"Result">>)),
        "secret", {"collection"})

setSecret_deviceLock ==
    Checking(Interacting(Function("setSecret", <<"secret",
        "encryptionPluginName", "interactionParameters",
        "deviceLockUnlockSemantic", "accessControlMode",
        "userInteractionMode">>, <<"Result">>)), "secret", {"standalone"})

setSecret_customLock ==
    Checking(Interacting(Function("setSecret", <<"secret",
        "encryptionPluginName", "authenticationPluginName",
        "interactionParameters", "customLockUnlockSemantic",
        "accessControlMode", "userInteractionMode">>, <<"Result">>)), "secret",
        {"standalone"})

getSecret ==
    Checking(Interacting(Function("getSecret", <<"identifier",
        "userInteractionMode">>, <<"Result", "Secret">>)), "identifier",
        {"standalone", "collection"})

findSecrets_collection ==
    Refusing(<<"Result", "Identifiers">>,
        Checking(Interacting(Function("findSecrets", <<"collectionName",
        "storagePluginName", "filter", "filterOperator",
        "userInteractionMode">>, <<"Result", "Identifiers">>)),
        "collectionName", {"named"}))

findSecrets_standalone ==
    Prepending("QString()", Interacting(Function("findSecrets",
        <<"storagePluginName", "filter", "filterOperator",
        "userInteractionMode">>, <<"Result", "Identifiers">>)))

deleteSecret ==
    Checking(Interacting(Function("deleteSecret", <<"identifier",
        "userInteractionMode">>, <<"Result">>)), "identifier", {"standalone",
        "collection"})

queryLockStatus ==
    Function("queryLockStatus", <<"lockCodeTargetType", "lockCodeTarget">>,
        <<"Result", "LockStatus">>)

modifyLockCode ==
    Interacting(Function("modifyLockCode", <<"lockCodeTargetType",
        "lockCodeTarget", "interactionParameters", "userInteractionMode">>,
        <<"Result">>))

provideLockCode ==
    Interacting(Function("provideLockCode", <<"lockCodeTargetType",
        "lockCodeTarget", "interactionParameters", "userInteractionMode">>,
        <<"Result">>))

forgetLockCode ==
    Interacting(Function("forgetLockCode", <<"lockCodeTargetType",
        "lockCodeTarget", "interactionParameters", "userInteractionMode">>,
        <<"Result">>))

ManagerFunctions ==
    {getPluginInfo, getHealthInfo, userInput, collectionNames,
     createCollection_deviceLock, createCollection_customLock,
     deleteCollection, setSecret_collection, setSecret_deviceLock,
     setSecret_customLock, getSecret, findSecrets_collection,
     findSecrets_standalone, deleteSecret, queryLockStatus, modifyLockCode,
     provideLockCode, forgetLockCode}

-----------------------------------------------------------------------------
(* The D-Bus methods of the daemon. *)

getPluginInfo_DBus ==
    Method("getPluginInfo", <<>>, {}, "GetPluginInfo")

getHealthInfo_DBus ==
    Method("getHealthInfo", <<>>, {}, "GetHealthInfo")

userInput_DBus ==
    Method("userInput", <<"interactionParameters">>, {"interactionParameters"},
        "UserInput")

collectionNames_DBus ==
    Method("collectionNames", <<"storagePluginName">>, {"storagePluginName"},
        "CollectionNames")

createCollection_DBus_deviceLock ==
    Method("createCollection", <<"collectionName", "storagePluginName",
        "encryptionPluginName", "deviceLockUnlockSemantic",
        "accessControlMode">>, {"storagePluginName", "encryptionPluginName"},
        "CreateDeviceLockCollection")

createCollection_DBus_customLock ==
    Method("createCollection", <<"collectionName", "storagePluginName",
        "encryptionPluginName", "authenticationPluginName",
        "customLockUnlockSemantic", "accessControlMode", "userInteractionMode",
        "interactionServiceAddress">>, {"storagePluginName",
        "encryptionPluginName", "authenticationPluginName"},
        "CreateCustomLockCollection")

deleteCollection_DBus ==
    Method("deleteCollection", <<"collectionName", "storagePluginName",
        "userInteractionMode", "interactionServiceAddress">>,
        {"storagePluginName"}, "DeleteCollection")

setSecret_DBus_collection ==
    Method("setSecret", <<"secret", "interactionParameters",
        "userInteractionMode", "interactionServiceAddress">>, {"secret"},
        "SetCollectionSecret")

setSecret_DBus_deviceLock ==
    Method("setSecret", <<"secret", "encryptionPluginName",
        "interactionParameters", "deviceLockUnlockSemantic",
        "accessControlMode", "userInteractionMode",
        "interactionServiceAddress">>, {"secret", "encryptionPluginName",
        "interactionParameters"}, "SetStandaloneDeviceLockSecret")

\* Mutation: two parameters are put in the queue in the wrong order.
setSecret_DBus_customLockSwapped ==
    [Method("setSecret", <<"secret", "encryptionPluginName",
        "authenticationPluginName", "interactionParameters",
        "customLockUnlockSemantic", "accessControlMode", "userInteractionMode",
        "interactionServiceAddress">>, {"secret", "encryptionPluginName",
        "authenticationPluginName", "interactionParameters"},
        "SetStandaloneCustomLockSecret")
     EXCEPT !.gives = <<"secret", "authenticationPluginName", "encryptionPluginName",
        "interactionParameters", "customLockUnlockSemantic", "accessControlMode",
        "userInteractionMode", "interactionServiceAddress">>]

setSecret_DBus_customLock ==
    Method("setSecret", <<"secret", "encryptionPluginName",
        "authenticationPluginName", "interactionParameters",
        "customLockUnlockSemantic", "accessControlMode", "userInteractionMode",
        "interactionServiceAddress">>, {"secret", "encryptionPluginName",
        "authenticationPluginName", "interactionParameters"},
        "SetStandaloneCustomLockSecret")

getSecret_DBus_standalone ==
    When("identifier", {"standalone"}, Method("getSecret", <<"identifier",
        "userInteractionMode", "interactionServiceAddress">>, {"identifier"},
        "GetStandaloneSecret"))

getSecret_DBus_collection ==
    When("identifier", {"invalid", "collection"}, Method("getSecret",
        <<"identifier", "userInteractionMode", "interactionServiceAddress">>,
        {"identifier"}, "GetCollectionSecret"))

findSecrets_DBus_standalone ==
    DroppingFirst(When("collectionName", {"empty"},
        Method("findSecrets", <<"collectionName", "storagePluginName",
        "filter", "filterOperator", "userInteractionMode",
        "interactionServiceAddress">>, {"storagePluginName"},
        "FindStandaloneSecrets")))

findSecrets_DBus_collection ==
    When("collectionName", {"named"}, Method("findSecrets", <<"collectionName",
        "storagePluginName", "filter", "filterOperator", "userInteractionMode",
        "interactionServiceAddress">>, {"storagePluginName"},
        "FindCollectionSecrets"))

deleteSecret_DBus_standalone ==
    When("identifier", {"standalone"}, Method("deleteSecret", <<"identifier",
        "userInteractionMode", "interactionServiceAddress">>, {"identifier"},
        "DeleteStandaloneSecret"))

deleteSecret_DBus_collection ==
    When("identifier", {"invalid", "collection"}, Method("deleteSecret",
        <<"identifier", "userInteractionMode", "interactionServiceAddress">>,
        {"identifier"}, "DeleteCollectionSecret"))

queryLockStatus_DBus ==
    Method("queryLockStatus", <<"lockCodeTargetType", "lockCodeTarget">>,
        {"lockCodeTarget"}, "QueryLockStatus")

modifyLockCode_DBus ==
    Method("modifyLockCode", <<"lockCodeTargetType", "lockCodeTarget",
        "interactionParameters", "userInteractionMode",
        "interactionServiceAddress">>, {"lockCodeTarget",
        "interactionParameters"}, "ModifyLockCode")

provideLockCode_DBus ==
    Method("provideLockCode", <<"lockCodeTargetType", "lockCodeTarget",
        "interactionParameters", "userInteractionMode",
        "interactionServiceAddress">>, {"lockCodeTarget",
        "interactionParameters"}, "ProvideLockCode")

forgetLockCode_DBus ==
    Method("forgetLockCode", <<"lockCodeTargetType", "lockCodeTarget",
        "interactionParameters", "userInteractionMode",
        "interactionServiceAddress">>, {"lockCodeTarget",
        "interactionParameters"}, "ForgetLockCode")

DBusMethods ==
    {getPluginInfo_DBus, getHealthInfo_DBus, userInput_DBus,
     collectionNames_DBus, createCollection_DBus_deviceLock,
     createCollection_DBus_customLock, deleteCollection_DBus,
     setSecret_DBus_collection, setSecret_DBus_deviceLock,
     setSecret_DBus_customLock, getSecret_DBus_standalone,
     getSecret_DBus_collection, findSecrets_DBus_standalone,
     findSecrets_DBus_collection, deleteSecret_DBus_standalone,
     deleteSecret_DBus_collection, queryLockStatus_DBus, modifyLockCode_DBus,
     provideLockCode_DBus, forgetLockCode_DBus}

-----------------------------------------------------------------------------
(* The cases of handlePendingRequest. *)

GetPluginInfo_pending ==
    Immediate(Case(<<>>, Served, <<"Result", "PluginInfos", "PluginInfos", "PluginInfos",
        "PluginInfos">>))

GetHealthInfo_pending ==
    Immediate(Case(<<>>, Served, <<"Result", "Health", "Health">>))

CollectionNames_pending ==
    Case(<<"storagePluginName">>, Refused, <<"Result", "QVariantMap">>)

CreateDeviceLockCollection_pending ==
    Case(<<"collectionName", "storagePluginName", "encryptionPluginName",
        "deviceLockUnlockSemantic", "accessControlMode">>, Refused,
        <<"Result">>)

CreateCustomLockCollection_pending ==
    Case(<<"collectionName", "storagePluginName", "encryptionPluginName",
        "authenticationPluginName", "customLockUnlockSemantic",
        "accessControlMode", "userInteractionMode",
        "interactionServiceAddress">>, Refused, <<"Result">>)

DeleteCollection_pending ==
    Case(<<"collectionName", "storagePluginName", "userInteractionMode",
        "interactionServiceAddress">>, Refused, <<"Result">>)

SetCollectionSecret_pending ==
    Case(<<"secret", "interactionParameters", "userInteractionMode",
        "interactionServiceAddress">>, Refused, <<"Result">>)

SetStandaloneDeviceLockSecret_pending ==
    Case(<<"secret", "encryptionPluginName", "interactionParameters",
        "deviceLockUnlockSemantic", "accessControlMode", "userInteractionMode",
        "interactionServiceAddress">>, Refused, <<"Result">>)

SetStandaloneCustomLockSecret_pending ==
    Case(<<"secret", "encryptionPluginName", "authenticationPluginName",
        "interactionParameters", "customLockUnlockSemantic",
        "accessControlMode", "userInteractionMode",
        "interactionServiceAddress">>, Refused, <<"Result">>)

GetCollectionSecret_pending ==
    Case(<<"identifier", "userInteractionMode", "interactionServiceAddress">>,
        Refused, <<"Result", "Secret">>)

GetStandaloneSecret_pending ==
    Case(<<"identifier", "userInteractionMode", "interactionServiceAddress">>,
        Refused, <<"Result", "Secret">>)

FindCollectionSecrets_pending ==
    Case(<<"collectionName", "storagePluginName", "filter", "filterOperator",
        "userInteractionMode", "interactionServiceAddress">>, Refused,
        <<"Result", "Identifiers">>)

FindStandaloneSecrets_pending ==
    Case(<<"storagePluginName", "filter", "filterOperator",
        "userInteractionMode", "interactionServiceAddress">>, Refused,
        <<"Result", "Identifiers">>)

DeleteCollectionSecret_pending ==
    Case(<<"identifier", "userInteractionMode", "interactionServiceAddress">>,
        Refused, <<"Result">>)

DeleteStandaloneSecret_pending ==
    Case(<<"identifier", "userInteractionMode">>, Refused, <<"Result">>)

QueryLockStatus_pending ==
    Case(<<"lockCodeTargetType", "lockCodeTarget">>, RefusedUnlessMasterLock,
        <<"Result", "LockStatus">>)

ModifyLockCode_pending ==
    Case(<<"lockCodeTargetType", "lockCodeTarget", "interactionParameters",
        "userInteractionMode", "interactionServiceAddress">>,
        RefusedUnlessMasterLock, <<"Result">>)

ProvideLockCode_pending ==
    Case(<<"lockCodeTargetType", "lockCodeTarget", "interactionParameters",
        "userInteractionMode", "interactionServiceAddress">>,
        RefusedUnlessMasterLock, <<"Result">>)

ForgetLockCode_pending ==
    Case(<<"lockCodeTargetType", "lockCodeTarget", "interactionParameters",
        "userInteractionMode", "interactionServiceAddress">>, Refused,
        <<"Result">>)

UserInput_pending ==
    Case(<<"interactionParameters">>, Refused, <<"Result", "QByteArray">>)

PendingCases ==
    [GetPluginInfo |-> GetPluginInfo_pending,
     GetHealthInfo |-> GetHealthInfo_pending,
     CollectionNames |-> CollectionNames_pending,
     CreateDeviceLockCollection |-> CreateDeviceLockCollection_pending,
     CreateCustomLockCollection |-> CreateCustomLockCollection_pending,
     DeleteCollection |-> DeleteCollection_pending,
     SetCollectionSecret |-> SetCollectionSecret_pending,
     SetStandaloneDeviceLockSecret |-> SetStandaloneDeviceLockSecret_pending,
     SetStandaloneCustomLockSecret |-> SetStandaloneCustomLockSecret_pending,
     GetCollectionSecret |-> GetCollectionSecret_pending,
     GetStandaloneSecret |-> GetStandaloneSecret_pending,
     FindCollectionSecrets |-> FindCollectionSecrets_pending,
     FindStandaloneSecrets |-> FindStandaloneSecrets_pending,
     DeleteCollectionSecret |-> DeleteCollectionSecret_pending,
     DeleteStandaloneSecret |-> DeleteStandaloneSecret_pending,
     QueryLockStatus |-> QueryLockStatus_pending,
     ModifyLockCode |-> ModifyLockCode_pending,
     ProvideLockCode |-> ProvideLockCode_pending,
     ForgetLockCode |-> ForgetLockCode_pending,
     UserInput |-> UserInput_pending]

-----------------------------------------------------------------------------
(* The types of the replies in the cases of handleFinishedRequest. *)

GetPluginInfo_finished == <<"PluginInfos", "PluginInfos", "PluginInfos", "PluginInfos">>

GetHealthInfo_finished == <<>>

CollectionNames_finished == <<"Result", "QVariantMap">>

CreateDeviceLockCollection_finished == <<"Result">>

CreateCustomLockCollection_finished == <<"Result">>

DeleteCollection_finished == <<"Result">>

SetCollectionSecret_finished == <<"Result">>

SetStandaloneDeviceLockSecret_finished == <<"Result">>

SetStandaloneCustomLockSecret_finished == <<"Result">>

GetCollectionSecret_finished == <<"Result", "Secret">>

GetStandaloneSecret_finished == <<"Result", "Secret">>

FindCollectionSecrets_finished == <<"Result", "Identifiers">>

FindStandaloneSecrets_finished == <<"Result", "Identifiers">>

DeleteCollectionSecret_finished == <<"Result">>

DeleteStandaloneSecret_finished == <<"Result">>

QueryLockStatus_finished == <<"Result", "LockStatus">>

ModifyLockCode_finished == <<"Result">>

ProvideLockCode_finished == <<"Result">>

ForgetLockCode_finished == <<"Result">>

UserInput_finished == <<"Result", "QByteArray">>

FinishedReplies ==
    [GetPluginInfo |-> GetPluginInfo_finished,
     GetHealthInfo |-> GetHealthInfo_finished,
     CollectionNames |-> CollectionNames_finished,
     CreateDeviceLockCollection |-> CreateDeviceLockCollection_finished,
     CreateCustomLockCollection |-> CreateCustomLockCollection_finished,
     DeleteCollection |-> DeleteCollection_finished,
     SetCollectionSecret |-> SetCollectionSecret_finished,
     SetStandaloneDeviceLockSecret |-> SetStandaloneDeviceLockSecret_finished,
     SetStandaloneCustomLockSecret |-> SetStandaloneCustomLockSecret_finished,
     GetCollectionSecret |-> GetCollectionSecret_finished,
     GetStandaloneSecret |-> GetStandaloneSecret_finished,
     FindCollectionSecrets |-> FindCollectionSecrets_finished,
     FindStandaloneSecrets |-> FindStandaloneSecrets_finished,
     DeleteCollectionSecret |-> DeleteCollectionSecret_finished,
     DeleteStandaloneSecret |-> DeleteStandaloneSecret_finished,
     QueryLockStatus |-> QueryLockStatus_finished,
     ModifyLockCode |-> ModifyLockCode_finished,
     ProvideLockCode |-> ProvideLockCode_finished,
     ForgetLockCode |-> ForgetLockCode_finished,
     UserInput |-> UserInput_finished]

-----------------------------------------------------------------------------
(* The request classes of the client library. *)

CollectionNamesRequest ==
    Request({"storagePluginName"}, {"collectionNames"})

CollectionNamesRequest_startRequest(a) ==
    Start(Call("collectionNames", <<"storagePluginName">>), KeepsOnRefusal)

CreateCollectionRequest ==
    Request({"collectionLockType", "collectionName", "storagePluginName",
        "encryptionPluginName", "authenticationPluginName",
        "deviceLockUnlockSemantic", "customLockUnlockSemantic",
        "accessControlMode", "userInteractionMode"}, {})

CreateCollectionRequest_startRequest(a) ==
    CASE a.collectionLockType.kind = "CustomLock" ->
           Start(Call("createCollection", <<"collectionName",
               "storagePluginName", "encryptionPluginName",
               "authenticationPluginName", "customLockUnlockSemantic",
               "accessControlMode", "userInteractionMode">>), Usual)
      [] a.collectionLockType.kind = "DeviceLock" ->
           Start(Call("createCollection", <<"collectionName",
               "storagePluginName", "encryptionPluginName",
               "deviceLockUnlockSemantic", "accessControlMode">>), Usual)

DeleteCollectionRequest ==
    Request({"collectionName", "storagePluginName", "userInteractionMode"}, {})

DeleteCollectionRequest_startRequest(a) ==
    Start(Call("deleteCollection", <<"collectionName", "storagePluginName",
        "userInteractionMode">>), Usual)

DeleteSecretRequest ==
    Request({"identifier", "userInteractionMode"}, {})

DeleteSecretRequest_startRequest(a) ==
    Start(Call("deleteSecret", <<"identifier", "userInteractionMode">>),
        IgnoresErrors)

FindSecretsRequest ==
    Request({"collectionName", "storagePluginName", "filter", "filterOperator",
        "userInteractionMode"}, {"identifiers"})

FindSecretsRequest_startRequest(a) ==
    CASE a.collectionName.kind = "empty" ->
           Start(Call("findSecrets", <<"storagePluginName", "filter",
               "filterOperator", "userInteractionMode">>), Usual)
      [] a.collectionName.kind # "empty" ->
           Start(Call("findSecrets", <<"collectionName", "storagePluginName",
               "filter", "filterOperator", "userInteractionMode">>), Usual)

HealthCheckRequest ==
    Request({}, {"saltDataHealth", "masterlockHealth"})

HealthCheckRequest_startRequest(a) ==
    Start(Call("getHealthInfo", <<>>), ResetsOnError)

InteractionRequest ==
    Request({"interactionParameters"}, {"userInput"})

InteractionRequest_startRequest(a) ==
    Start(Call("userInput", <<"interactionParameters">>), Usual)

LockCodeRequest ==
    Request({"lockCodeRequestType", "lockCodeTargetType",
        "userInteractionMode", "interactionParameters", "lockCodeTarget"},
        {"lockStatus"})

LockCodeRequest_startRequest(a) ==
    CASE a.lockCodeRequestType.kind = "QueryLockStatus" ->
           Start(Call("queryLockStatus", <<"lockCodeTargetType",
               "lockCodeTarget">>), ResetsAlways)
      [] a.lockCodeRequestType.kind = "ModifyLockCode" ->
           Start(Call("modifyLockCode", <<"lockCodeTargetType",
               "lockCodeTarget", "interactionParameters",
               "userInteractionMode">>), Usual)
      [] a.lockCodeRequestType.kind = "ProvideLockCode" ->
           Start(Call("provideLockCode", <<"lockCodeTargetType",
               "lockCodeTarget", "interactionParameters",
               "userInteractionMode">>), Usual)
      [] a.lockCodeRequestType.kind = "ForgetLockCode" ->
           Start(Call("forgetLockCode", <<"lockCodeTargetType",
               "lockCodeTarget", "interactionParameters",
               "userInteractionMode">>), Usual)

PluginInfoRequest ==
    Request({}, {"storagePlugins", "encryptionPlugins",
        "encryptedStoragePlugins", "authenticationPlugins"})

PluginInfoRequest_startRequest(a) ==
    Start(Call("getPluginInfo", <<>>), ResetsOnRefusal)

StoredSecretRequest ==
    Request({"identifier", "userInteractionMode"}, {"secret"})

StoredSecretRequest_startRequest(a) ==
    Start(Call("getSecret", <<"identifier", "userInteractionMode">>), Usual)

StoreSecretRequest ==
    Request({"secretStorageType", "encryptionPluginName",
        "authenticationPluginName", "secret", "interactionParameters",
        "deviceLockUnlockSemantic", "customLockUnlockSemantic",
        "accessControlMode", "userInteractionMode"}, {})

StoreSecretRequest_startRequest(a) ==
    CASE a.secretStorageType.kind = "CollectionSecret" ->
           Start(Call("setSecret", <<"secret", "interactionParameters",
               "userInteractionMode">>), Usual)
      [] a.secretStorageType.kind = "StandaloneCustomLockSecret" ->
           Start(Call("setSecret", <<"secret", "encryptionPluginName",
               "authenticationPluginName", "interactionParameters",
               "customLockUnlockSemantic", "accessControlMode",
               "userInteractionMode">>), Usual)
      [] a.secretStorageType.kind = "StandaloneDeviceLockSecret" ->
           Start(Call("setSecret", <<"secret", "encryptionPluginName",
               "interactionParameters", "deviceLockUnlockSemantic",
               "accessControlMode", "userInteractionMode">>), Usual)

Requests ==
    [CollectionNamesRequest |-> CollectionNamesRequest,
     CreateCollectionRequest |-> CreateCollectionRequest,
     DeleteCollectionRequest |-> DeleteCollectionRequest,
     DeleteSecretRequest |-> DeleteSecretRequest,
     FindSecretsRequest |-> FindSecretsRequest,
     HealthCheckRequest |-> HealthCheckRequest,
     InteractionRequest |-> InteractionRequest,
     LockCodeRequest |-> LockCodeRequest,
     PluginInfoRequest |-> PluginInfoRequest,
     StoredSecretRequest |-> StoredSecretRequest,
     StoreSecretRequest |-> StoreSecretRequest]

startRequest(class, a) ==
    CASE class = "CollectionNamesRequest" -> CollectionNamesRequest_startRequest(a)
      [] class = "CreateCollectionRequest" -> CreateCollectionRequest_startRequest(a)
      [] class = "DeleteCollectionRequest" -> DeleteCollectionRequest_startRequest(a)
      [] class = "DeleteSecretRequest" -> DeleteSecretRequest_startRequest(a)
      [] class = "FindSecretsRequest" -> FindSecretsRequest_startRequest(a)
      [] class = "HealthCheckRequest" -> HealthCheckRequest_startRequest(a)
      [] class = "InteractionRequest" -> InteractionRequest_startRequest(a)
      [] class = "LockCodeRequest" -> LockCodeRequest_startRequest(a)
      [] class = "PluginInfoRequest" -> PluginInfoRequest_startRequest(a)
      [] class = "StoredSecretRequest" -> StoredSecretRequest_startRequest(a)
      [] class = "StoreSecretRequest" -> StoreSecretRequest_startRequest(a)
=============================================================================
