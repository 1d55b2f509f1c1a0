----------------------------- MODULE CryptoApi ------------------------------
(*****************************************************************************)
(* The calls of the Crypto API, hop by hop: the functions of CryptoManager,  *)
(* the D-Bus methods of the daemon (crypto.cpp), the cases of the crypto     *)
(* queue and the request classes of lib/Crypto.  ClientRequest runs them, and*)
(* CipherSession the four calls of CipherRequest.                            *)
(*****************************************************************************)
EXTENDS CallPath
-----------------------------------------------------------------------------
(* The functions of CryptoManagerPrivate. *)

getPluginInfo ==
    Function("getPluginInfo", <<>>, <<"Result", "PluginInfos", "PluginInfos">>)

generateRandomData ==
    Function("generateRandomData", <<"numberBytes", "csprngEngineName",
        "customParameters", "cryptoPluginName">>, <<"Result", "QByteArray">>)

seedRandomDataGenerator ==
    Function("seedRandomDataGenerator", <<"seedData", "entropyEstimate",
        "csprngEngineName", "customParameters", "cryptoPluginName">>,
        <<"Result">>)

generateInitializationVector ==
    Function("generateInitializationVector", <<"algorithm", "blockMode",
        "keySize", "customParameters", "cryptoPluginName">>, <<"Result",
        "QByteArray">>)

generateKey ==
    Function("generateKey", <<"keyTemplate", "keyPairGenerationParameters",
        "keyDerivationParameters", "customParameters", "cryptoPluginName">>,
        <<"Result", "Key">>)

generateStoredKey ==
    Function("generateStoredKey", <<"keyTemplate",
        "keyPairGenerationParameters", "keyDerivationParameters",
        "interactionParameters", "customParameters", "cryptoPluginName">>,
        <<"Result", "Key">>)

importKey ==
    Function("importKey", <<"data", "interactionParameters",
        "customParameters", "cryptoPluginName">>, <<"Result", "Key">>)

importStoredKey ==
    Function("importStoredKey", <<"data", "keyTemplate",
        "interactionParameters", "customParameters", "cryptoPluginName">>,
        <<"Result", "Key">>)

storedKey ==
    Function("storedKey", <<"identifier", "keyComponents",
        "customParameters">>, <<"Result", "Key">>)

deleteStoredKey ==
    Function("deleteStoredKey", <<"identifier">>, <<"Result">>)

storedKeyIdentifiers ==
    Function("storedKeyIdentifiers", <<"storagePluginName", "collectionName",
        "customParameters">>, <<"Result", "Identifiers">>)

calculateDigest ==
    Function("calculateDigest", <<"data", "padding", "digestFunction",
        "customParameters", "cryptoPluginName">>, <<"Result", "QByteArray">>)

sign ==
    Function("sign", <<"data", "key", "padding", "digestFunction",
        "customParameters", "cryptoPluginName">>, <<"Result", "QByteArray">>)

verify ==
    Function("verify", <<"signature", "data", "key", "padding",
        "digestFunction", "customParameters", "cryptoPluginName">>, <<"Result",
        "VerificationStatus">>)

encrypt ==
    Function("encrypt", <<"data", "initializationVector", "key", "blockMode",
        "padding", "authenticationData", "customParameters",
        "cryptoPluginName">>, <<"Result", "QByteArray", "QByteArray">>)

decrypt ==
    Function("decrypt", <<"data", "initializationVector", "key", "blockMode",
        "padding", "authenticationData", "authenticationTag",
        "customParameters", "cryptoPluginName">>, <<"Result", "QByteArray",
        "VerificationStatus">>)

initializeCipherSession ==
    Function("initializeCipherSession", <<"initializationVector", "key",
        "operation", "blockMode", "encryptionPadding", "signaturePadding",
        "digestFunction", "customParameters", "cryptoPluginName">>, <<"Result",
        "quint32">>)

updateCipherSessionAuthentication ==
    Function("updateCipherSessionAuthentication", <<"authenticationData",
        "customParameters", "cryptoPluginName", "cipherSessionToken">>,
        <<"Result">>)

updateCipherSession ==
    Function("updateCipherSession", <<"data", "customParameters",
        "cryptoPluginName", "cipherSessionToken">>, <<"Result", "QByteArray">>)

finalizeCipherSession ==
    Function("finalizeCipherSession", <<"data", "customParameters",
        "cryptoPluginName", "cipherSessionToken">>, <<"Result", "QByteArray",
        "VerificationStatus">>)

queryLockStatus ==
    Function("queryLockStatus", <<"lockCodeTargetType", "lockCodeTarget">>,
        <<"Result", "LockStatus">>)

modifyLockCode ==
    Function("modifyLockCode", <<"lockCodeTargetType", "lockCodeTarget",
        "interactionParameters">>, <<"Result">>)

provideLockCode ==
    Function("provideLockCode", <<"lockCodeTargetType", "lockCodeTarget",
        "interactionParameters">>, <<"Result">>)

forgetLockCode ==
    Function("forgetLockCode", <<"lockCodeTargetType", "lockCodeTarget",
        "interactionParameters">>, <<"Result">>)

ManagerFunctions ==
    {getPluginInfo, generateRandomData, seedRandomDataGenerator,
     generateInitializationVector, generateKey, generateStoredKey, importKey,
     importStoredKey, storedKey, deleteStoredKey, storedKeyIdentifiers,
     calculateDigest, sign, verify, encrypt, decrypt, initializeCipherSession,
     updateCipherSessionAuthentication, updateCipherSession,
     finalizeCipherSession, queryLockStatus, modifyLockCode, provideLockCode,
     forgetLockCode}

-----------------------------------------------------------------------------
(* The D-Bus methods of the daemon. *)

getPluginInfo_DBus ==
    Method("getPluginInfo", <<>>, {}, "GetPluginInfo")

generateRandomData_DBus ==
    Method("generateRandomData", <<"numberBytes", "csprngEngineName",
        "customParameters", "cryptoPluginName">>, {"cryptoPluginName"},
        "GenerateRandomData")

seedRandomDataGenerator_DBus ==
    Method("seedRandomDataGenerator", <<"seedData", "entropyEstimate",
        "csprngEngineName", "customParameters", "cryptoPluginName">>,
        {"cryptoPluginName"}, "SeedRandomDataGenerator")

generateInitializationVector_DBus ==
    Method("generateInitializationVector", <<"algorithm", "blockMode",
        "keySize", "customParameters", "cryptoPluginName">>,
        {"cryptoPluginName"}, "GenerateInitializationVector")

generateKey_DBus ==
    Method("generateKey", <<"keyTemplate", "keyPairGenerationParameters",
        "keyDerivationParameters", "customParameters", "cryptoPluginName">>,
        {"keyTemplate", "cryptoPluginName"}, "GenerateKey")

generateStoredKey_DBus ==
    Method("generateStoredKey", <<"keyTemplate", "keyPairGenerationParameters",
        "keyDerivationParameters", "interactionParameters", "customParameters",
        "cryptoPluginName">>, {"keyTemplate", "cryptoPluginName"},
        "GenerateStoredKey")

importKey_DBus ==
    Method("importKey", <<"data", "interactionParameters", "customParameters",
        "cryptoPluginName">>, {"interactionParameters", "cryptoPluginName"},
        "ImportKey")

importStoredKey_DBus ==
    Method("importStoredKey", <<"data", "keyTemplate", "interactionParameters",
        "customParameters", "cryptoPluginName">>, {"keyTemplate",
        "interactionParameters", "cryptoPluginName"}, "ImportStoredKey")

storedKey_DBus ==
    Method("storedKey", <<"identifier", "keyComponents", "customParameters">>,
        {"identifier"}, "StoredKey")

deleteStoredKey_DBus ==
    Method("deleteStoredKey", <<"identifier">>, {"identifier"},
        "DeleteStoredKey")

storedKeyIdentifiers_DBus ==
    Method("storedKeyIdentifiers", <<"storagePluginName", "collectionName",
        "customParameters">>, {"storagePluginName"}, "StoredKeyIdentifiers")

calculateDigest_DBus ==
    Method("calculateDigest", <<"data", "padding", "digestFunction",
        "customParameters", "cryptoPluginName">>, {"cryptoPluginName"},
        "CalculateDigest")

sign_DBus ==
    Method("sign", <<"data", "key", "padding", "digestFunction",
        "customParameters", "cryptoPluginName">>, {"key", "cryptoPluginName"},
        "Sign")

verify_DBus ==
    Method("verify", <<"signature", "data", "key", "padding", "digestFunction",
        "customParameters", "cryptoPluginName">>, {"key", "cryptoPluginName"},
        "Verify")

encrypt_DBus ==
    Method("encrypt", <<"data", "initializationVector", "key", "blockMode",
        "padding", "authenticationData", "customParameters",
        "cryptoPluginName">>, {"key", "cryptoPluginName"}, "Encrypt")

decrypt_DBus ==
    Method("decrypt", <<"data", "initializationVector", "key", "blockMode",
        "padding", "authenticationData", "authenticationTag",
        "customParameters", "cryptoPluginName">>, {"key", "cryptoPluginName"},
        "Decrypt")

initializeCipherSession_DBus ==
    Method("initializeCipherSession", <<"initializationVector", "key",
        "operation", "blockMode", "encryptionPadding", "signaturePadding",
        "digestFunction", "customParameters", "cryptoPluginName">>, {"key",
        "cryptoPluginName"}, "InitializeCipherSession")

updateCipherSessionAuthentication_DBus ==
    Method("updateCipherSessionAuthentication", <<"authenticationData",
        "customParameters", "cryptoPluginName", "cipherSessionToken">>,
        {"cryptoPluginName"}, "UpdateCipherSessionAuthentication")

updateCipherSession_DBus ==
    Method("updateCipherSession", <<"data", "customParameters",
        "cryptoPluginName", "cipherSessionToken">>, {"cryptoPluginName"},
        "UpdateCipherSession")

finalizeCipherSession_DBus ==
    Method("finalizeCipherSession", <<"data", "customParameters",
        "cryptoPluginName", "cipherSessionToken">>, {"cryptoPluginName"},
        "FinalizeCipherSession")

queryLockStatus_DBus ==
    Method("queryLockStatus", <<"lockCodeTargetType", "lockCodeTarget">>,
        {"lockCodeTarget"}, "QueryLockStatus")

modifyLockCode_DBus ==
    Method("modifyLockCode", <<"lockCodeTargetType", "lockCodeTarget",
        "interactionParameters">>, {"lockCodeTarget", "interactionParameters"},
        "ModifyLockCode")

provideLockCode_DBus ==
    Method("provideLockCode", <<"lockCodeTargetType", "lockCodeTarget",
        "interactionParameters">>, {"lockCodeTarget", "interactionParameters"},
        "ProvideLockCode")

forgetLockCode_DBus ==
    Method("forgetLockCode", <<"lockCodeTargetType", "lockCodeTarget",
        "interactionParameters">>, {"lockCodeTarget", "interactionParameters"},
        "ForgetLockCode")

DBusMethods ==
    {getPluginInfo_DBus, generateRandomData_DBus, seedRandomDataGenerator_DBus,
     generateInitializationVector_DBus, generateKey_DBus,
     generateStoredKey_DBus, importKey_DBus, importStoredKey_DBus,
     storedKey_DBus, deleteStoredKey_DBus, storedKeyIdentifiers_DBus,
     calculateDigest_DBus, sign_DBus, verify_DBus, encrypt_DBus, decrypt_DBus,
     initializeCipherSession_DBus, updateCipherSessionAuthentication_DBus,
     updateCipherSession_DBus, finalizeCipherSession_DBus,
     queryLockStatus_DBus, modifyLockCode_DBus, provideLockCode_DBus,
     forgetLockCode_DBus}

-----------------------------------------------------------------------------
(* The cases of handlePendingRequest. *)

GetPluginInfo_pending ==
    Immediate(Case(<<>>, Served, <<"Result", "PluginInfos", "PluginInfos">>))

GenerateRandomData_pending ==
    Case(<<"numberBytes", "csprngEngineName", "customParameters",
        "cryptoPluginName">>, Served, <<"Result", "QByteArray">>)

SeedRandomDataGenerator_pending ==
    Case(<<"seedData", "entropyEstimate", "csprngEngineName",
        "customParameters", "cryptoPluginName">>, Served, <<"Result">>)

GenerateInitializationVector_pending ==
    Case(<<"algorithm", "blockMode", "keySize", "customParameters",
        "cryptoPluginName">>, Served, <<"Result", "QByteArray">>)

GenerateKey_pending ==
    Case(<<"keyTemplate", "keyPairGenerationParameters",
        "keyDerivationParameters", "customParameters", "cryptoPluginName">>,
        Served, <<"Result", "Key">>)

GenerateStoredKey_pending ==
    Case(<<"keyTemplate", "keyPairGenerationParameters",
        "keyDerivationParameters", "interactionParameters", "customParameters",
        "cryptoPluginName">>, Served, <<"Result", "Key">>)

ImportKey_pending ==
    Case(<<"data", "interactionParameters", "customParameters",
        "cryptoPluginName">>, Served, <<"Result", "Key">>)

ImportStoredKey_pending ==
    Case(<<"data", "keyTemplate", "interactionParameters", "customParameters",
        "cryptoPluginName">>, Served, <<"Result", "Key">>)

StoredKey_pending ==
    Case(<<"identifier", "keyComponents", "customParameters">>, Served,
        <<"Result", "Key">>)

DeleteStoredKey_pending ==
    Case(<<"identifier">>, Served, <<"Result">>)

StoredKeyIdentifiers_pending ==
    Case(<<"storagePluginName", "collectionName", "customParameters">>, Served,
        <<"Result", "Identifiers">>)

CalculateDigest_pending ==
    Case(<<"data", "padding", "digestFunction", "customParameters",
        "cryptoPluginName">>, Served, <<"Result", "QByteArray">>)

Sign_pending ==
    Case(<<"data", "key", "padding", "digestFunction", "customParameters",
        "cryptoPluginName">>, Served, <<"Result", "QByteArray">>)

Verify_pending ==
    Case(<<"signature", "data", "key", "padding", "digestFunction",
        "customParameters", "cryptoPluginName">>, Served, <<"Result", "int">>)

Encrypt_pending ==
    Case(<<"data", "initializationVector", "key", "blockMode", "padding",
        "authenticationData", "customParameters", "cryptoPluginName">>, Served,
        <<"Result", "QByteArray", "QByteArray">>)

Decrypt_pending ==
    Case(<<"data", "initializationVector", "key", "blockMode", "padding",
        "authenticationData", "authenticationTag", "customParameters",
        "cryptoPluginName">>, Served, <<"Result", "QByteArray", "int">>)

InitializeCipherSession_pending ==
    Case(<<"initializationVector", "key", "operation", "blockMode",
        "encryptionPadding", "signaturePadding", "digestFunction",
        "customParameters", "cryptoPluginName">>, Served, <<"Result",
        "quint32">>)

UpdateCipherSessionAuthentication_pending ==
    Case(<<"authenticationData", "customParameters", "cryptoPluginName",
        "cipherSessionToken">>, Served, <<"Result">>)

UpdateCipherSession_pending ==
    Case(<<"data", "customParameters", "cryptoPluginName",
        "cipherSessionToken">>, Served, <<"Result", "QByteArray">>)

FinalizeCipherSession_pending ==
    Case(<<"data", "customParameters", "cryptoPluginName",
        "cipherSessionToken">>, Served, <<"Result", "QByteArray", "int">>)

QueryLockStatus_pending ==
    Case(<<"lockCodeTargetType", "lockCodeTarget">>, Served, <<"Result",
        "LockStatus">>)

ModifyLockCode_pending ==
    Case(<<"lockCodeTargetType", "lockCodeTarget", "interactionParameters">>,
        Served, <<"Result">>)

ProvideLockCode_pending ==
    Case(<<"lockCodeTargetType", "lockCodeTarget", "interactionParameters">>,
        Served, <<"Result">>)

ForgetLockCode_pending ==
    Case(<<"lockCodeTargetType", "lockCodeTarget", "interactionParameters">>,
        Served, <<"Result">>)

PendingCases ==
    [GetPluginInfo |-> GetPluginInfo_pending,
     GenerateRandomData |-> GenerateRandomData_pending,
     SeedRandomDataGenerator |-> SeedRandomDataGenerator_pending,
     GenerateInitializationVector |-> GenerateInitializationVector_pending,
     GenerateKey |-> GenerateKey_pending,
     GenerateStoredKey |-> GenerateStoredKey_pending,
     ImportKey |-> ImportKey_pending,
     ImportStoredKey |-> ImportStoredKey_pending,
     StoredKey |-> StoredKey_pending,
     DeleteStoredKey |-> DeleteStoredKey_pending,
     StoredKeyIdentifiers |-> StoredKeyIdentifiers_pending,
     CalculateDigest |-> CalculateDigest_pending,
     Sign |-> Sign_pending,
     Verify |-> Verify_pending,
     Encrypt |-> Encrypt_pending,
     Decrypt |-> Decrypt_pending,
     InitializeCipherSession |-> InitializeCipherSession_pending,
     UpdateCipherSessionAuthentication |-> UpdateCipherSessionAuthentication_pending,
     UpdateCipherSession |-> UpdateCipherSession_pending,
     FinalizeCipherSession |-> FinalizeCipherSession_pending,
     QueryLockStatus |-> QueryLockStatus_pending,
     ModifyLockCode |-> ModifyLockCode_pending,
     ProvideLockCode |-> ProvideLockCode_pending,
     ForgetLockCode |-> ForgetLockCode_pending]

-----------------------------------------------------------------------------
(* The types of the replies in the cases of handleFinishedRequest. *)

GetPluginInfo_finished == <<"Result", "PluginInfos", "PluginInfos">>

GenerateRandomData_finished == <<"Result", "QByteArray">>

SeedRandomDataGenerator_finished == <<"Result">>

GenerateInitializationVector_finished == <<"Result", "QByteArray">>

GenerateKey_finished == <<"Result", "Key">>

GenerateStoredKey_finished == <<"Result", "Key">>

ImportKey_finished == <<"Result", "Key">>

ImportStoredKey_finished == <<"Result", "Key">>

StoredKey_finished == <<"Result", "Key">>

DeleteStoredKey_finished == <<"Result">>

StoredKeyIdentifiers_finished == <<"Result", "Identifiers">>

CalculateDigest_finished == <<"Result", "QByteArray">>

\* Mutation: the reply ends with the result.
Sign_finishedShort == <<"Result">>

Sign_finished == <<"Result", "QByteArray">>

Verify_finished == <<"Result", "VerificationStatus">>

Encrypt_finished == <<"Result", "QByteArray", "QByteArray">>

Decrypt_finished == <<"Result", "QByteArray", "VerificationStatus">>

InitializeCipherSession_finished == <<"Result", "quint32", "QByteArray">>

UpdateCipherSessionAuthentication_finished == <<"Result">>

UpdateCipherSession_finished == <<"Result", "QByteArray">>

FinalizeCipherSession_finished == <<"Result", "QByteArray", "VerificationStatus">>

QueryLockStatus_finished == <<"Result", "LockStatus">>

ModifyLockCode_finished == <<"Result">>

ProvideLockCode_finished == <<"Result">>

ForgetLockCode_finished == <<"Result">>

FinishedReplies ==
    [GetPluginInfo |-> GetPluginInfo_finished,
     GenerateRandomData |-> GenerateRandomData_finished,
     SeedRandomDataGenerator |-> SeedRandomDataGenerator_finished,
     GenerateInitializationVector |-> GenerateInitializationVector_finished,
     GenerateKey |-> GenerateKey_finished,
     GenerateStoredKey |-> GenerateStoredKey_finished,
     ImportKey |-> ImportKey_finished,
     ImportStoredKey |-> ImportStoredKey_finished,
     StoredKey |-> StoredKey_finished,
     DeleteStoredKey |-> DeleteStoredKey_finished,
     StoredKeyIdentifiers |-> StoredKeyIdentifiers_finished,
     CalculateDigest |-> CalculateDigest_finished,
     Sign |-> Sign_finished,
     Verify |-> Verify_finished,
     Encrypt |-> Encrypt_finished,
     Decrypt |-> Decrypt_finished,
     InitializeCipherSession |-> InitializeCipherSession_finished,
     UpdateCipherSessionAuthentication |-> UpdateCipherSessionAuthentication_finished,
     UpdateCipherSession |-> UpdateCipherSession_finished,
     FinalizeCipherSession |-> FinalizeCipherSession_finished,
     QueryLockStatus |-> QueryLockStatus_finished,
     ModifyLockCode |-> ModifyLockCode_finished,
     ProvideLockCode |-> ProvideLockCode_finished,
     ForgetLockCode |-> ForgetLockCode_finished]

-----------------------------------------------------------------------------
(* The request classes of the client library. *)

CalculateDigestRequest ==
    Request({"data", "padding", "digestFunction", "cryptoPluginName",
        "customParameters"}, {"digest"})

CalculateDigestRequest_startRequest(a) ==
    Start(Call("calculateDigest", <<"data", "padding", "digestFunction",
        "customParameters", "cryptoPluginName">>), Usual)

DecryptRequest ==
    Request({"data", "initializationVector", "key", "blockMode", "padding",
        "authenticationData", "authenticationTag", "cryptoPluginName",
        "customParameters"}, {"plaintext", "verificationStatus"})

DecryptRequest_startRequest(a) ==
    Start(Call("decrypt", <<"data", "initializationVector", "key", "blockMode",
        "padding", "authenticationData", "authenticationTag",
        "customParameters", "cryptoPluginName">>), Usual)

DeleteStoredKeyRequest ==
    Request({"identifier", "customParameters"}, {})

DeleteStoredKeyRequest_startRequest(a) ==
    Start(Call("deleteStoredKey", <<"identifier">>), Usual)

EncryptRequest ==
    Request({"data", "initializationVector", "key", "blockMode", "padding",
        "authenticationData", "cryptoPluginName", "customParameters"},
        {"ciphertext", "authenticationTag"})

EncryptRequest_startRequest(a) ==
    Start(Call("encrypt", <<"data", "initializationVector", "key", "blockMode",
        "padding", "authenticationData", "customParameters",
        "cryptoPluginName">>), Usual)

GenerateInitializationVectorRequest ==
    Request({"algorithm", "blockMode", "keySize", "cryptoPluginName",
        "customParameters"}, {"generatedIv"})

GenerateInitializationVectorRequest_startRequest(a) ==
    Start(Call("generateInitializationVector", <<"algorithm", "blockMode",
        "keySize", "customParameters", "cryptoPluginName">>), Usual)

GenerateKeyRequest ==
    Request({"cryptoPluginName", "keyDerivationParameters",
        "keyPairGenerationParameters", "keyTemplate", "customParameters"},
        {"generatedKey"})

GenerateKeyRequest_startRequest(a) ==
    Start(Call("generateKey", <<"keyTemplate", "keyPairGenerationParameters",
        "keyDerivationParameters", "customParameters", "cryptoPluginName">>),
        Usual)

GenerateRandomDataRequest ==
    Request({"cryptoPluginName", "csprngEngineName", "numberBytes",
        "customParameters"}, {"generatedData"})

GenerateRandomDataRequest_startRequest(a) ==
    Start(Call("generateRandomData", <<"numberBytes", "csprngEngineName",
        "customParameters", "cryptoPluginName">>), Usual)

GenerateStoredKeyRequest ==
    Request({"cryptoPluginName", "interactionParameters",
        "keyDerivationParameters", "keyPairGenerationParameters",
        "keyTemplate", "customParameters"}, {"generatedKeyReference"})

GenerateStoredKeyRequest_startRequest(a) ==
    Start(Call("generateStoredKey", <<"keyTemplate",
        "keyPairGenerationParameters", "keyDerivationParameters",
        "interactionParameters", "customParameters", "cryptoPluginName">>),
        Usual)

ImportKeyRequest ==
    Request({"cryptoPluginName", "interactionParameters", "data",
        "customParameters"}, {"importedKey"})

ImportKeyRequest_startRequest(a) ==
    Start(Call("importKey", <<"data", "interactionParameters",
        "customParameters", "cryptoPluginName">>), ChecksErrors)

ImportStoredKeyRequest ==
    Request({"cryptoPluginName", "interactionParameters", "data",
        "keyTemplate", "customParameters"}, {"importedKeyReference"})

ImportStoredKeyRequest_startRequest(a) ==
    Start(Call("importStoredKey", <<"data", "keyTemplate",
        "interactionParameters", "customParameters", "cryptoPluginName">>),
        ChecksErrors)

LockCodeRequest ==
    Request({"lockCodeRequestType", "lockCodeTargetType",
        "interactionParameters", "lockCodeTarget", "customParameters"},
        {"lockStatus"})

LockCodeRequest_startRequest(a) ==
    CASE a.lockCodeRequestType.kind = "QueryLockStatus" ->
           Start(Call("queryLockStatus", <<"lockCodeTargetType",
               "lockCodeTarget">>), ResetsAlways)
      [] a.lockCodeRequestType.kind = "ModifyLockCode" ->
           Start(Call("modifyLockCode", <<"lockCodeTargetType",
               "lockCodeTarget", "interactionParameters">>), Usual)
      [] a.lockCodeRequestType.kind = "ProvideLockCode" ->
           Start(Call("provideLockCode", <<"lockCodeTargetType",
               "lockCodeTarget", "interactionParameters">>), Usual)
      [] a.lockCodeRequestType.kind = "ForgetLockCode" ->
           Start(Call("forgetLockCode", <<"lockCodeTargetType",
               "lockCodeTarget", "interactionParameters">>), Usual)

PluginInfoRequest ==
    Request({"customParameters"}, {"cryptoPlugins", "storagePlugins"})

PluginInfoRequest_startRequest(a) ==
    Start(Call("getPluginInfo", <<>>), Usual)

SeedRandomDataGeneratorRequest ==
    Request({"cryptoPluginName", "csprngEngineName", "entropyEstimate",
        "seedData", "customParameters"}, {})

SeedRandomDataGeneratorRequest_startRequest(a) ==
    Start(Call("seedRandomDataGenerator", <<"seedData", "entropyEstimate",
        "csprngEngineName", "customParameters", "cryptoPluginName">>), Usual)

SignRequest ==
    Request({"data", "key", "padding", "digestFunction", "cryptoPluginName",
        "customParameters"}, {"signature"})

SignRequest_startRequest(a) ==
    Start(Call("sign", <<"data", "key", "padding", "digestFunction",
        "customParameters", "cryptoPluginName">>), Usual)

StoredKeyIdentifiersRequest ==
    Request({"storagePluginName", "collectionName", "customParameters"},
        {"identifiers"})

StoredKeyIdentifiersRequest_startRequest(a) ==
    Start(Call("storedKeyIdentifiers", <<"storagePluginName", "collectionName",
        "customParameters">>), Usual)

StoredKeyRequest ==
    Request({"identifier", "keyComponents", "customParameters"}, {"storedKey"})

StoredKeyRequest_startRequest(a) ==
    Start(Call("storedKey", <<"identifier", "keyComponents",
        "customParameters">>), Usual)

VerifyRequest ==
    Request({"signature", "data", "key", "padding", "digestFunction",
        "cryptoPluginName", "customParameters"}, {"verificationStatus"})

VerifyRequest_startRequest(a) ==
    Start(Call("verify", <<"signature", "data", "key", "padding",
        "digestFunction", "customParameters", "cryptoPluginName">>), Usual)

Requests ==
    [CalculateDigestRequest |-> CalculateDigestRequest,
     DecryptRequest |-> DecryptRequest,
     DeleteStoredKeyRequest |-> DeleteStoredKeyRequest,
     EncryptRequest |-> EncryptRequest,
     GenerateInitializationVectorRequest |-> GenerateInitializationVectorRequest,
     GenerateKeyRequest |-> GenerateKeyRequest,
     GenerateRandomDataRequest |-> GenerateRandomDataRequest,
     GenerateStoredKeyRequest |-> GenerateStoredKeyRequest,
     ImportKeyRequest |-> ImportKeyRequest,
     ImportStoredKeyRequest |-> ImportStoredKeyRequest,
     LockCodeRequest |-> LockCodeRequest,
     PluginInfoRequest |-> PluginInfoRequest,
     SeedRandomDataGeneratorRequest |-> SeedRandomDataGeneratorRequest,
     SignRequest |-> SignRequest,
     StoredKeyIdentifiersRequest |-> StoredKeyIdentifiersRequest,
     StoredKeyRequest |-> StoredKeyRequest,
     VerifyRequest |-> VerifyRequest]

startRequest(class, a) ==
    CASE class = "CalculateDigestRequest" -> CalculateDigestRequest_startRequest(a)
      [] class = "DecryptRequest" -> DecryptRequest_startRequest(a)
      [] class = "DeleteStoredKeyRequest" -> DeleteStoredKeyRequest_startRequest(a)
      [] class = "EncryptRequest" -> EncryptRequest_startRequest(a)
      [] class = "GenerateInitializationVectorRequest" -> GenerateInitializationVectorRequest_startRequest(a)
      [] class = "GenerateKeyRequest" -> GenerateKeyRequest_startRequest(a)
      [] class = "GenerateRandomDataRequest" -> GenerateRandomDataRequest_startRequest(a)
      [] class = "GenerateStoredKeyRequest" -> GenerateStoredKeyRequest_startRequest(a)
      [] class = "ImportKeyRequest" -> ImportKeyRequest_startRequest(a)
      [] class = "ImportStoredKeyRequest" -> ImportStoredKeyRequest_startRequest(a)
      [] class = "LockCodeRequest" -> LockCodeRequest_startRequest(a)
      [] class = "PluginInfoRequest" -> PluginInfoRequest_startRequest(a)
      [] class = "SeedRandomDataGeneratorRequest" -> SeedRandomDataGeneratorRequest_startRequest(a)
      [] class = "SignRequest" -> SignRequest_startRequest(a)
      [] class = "StoredKeyIdentifiersRequest" -> StoredKeyIdentifiersRequest_startRequest(a)
      [] class = "StoredKeyRequest" -> StoredKeyRequest_startRequest(a)
      [] class = "VerifyRequest" -> VerifyRequest_startRequest(a)
=============================================================================
