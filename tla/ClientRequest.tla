--------------------------- MODULE ClientRequest ----------------------------
(***************************************************************************)
(* One request object of the client libraries (lib/Secrets and lib/Crypto, *)
(* every class but CipherRequest), from its setters to its result, with    *)
(* the path of the call through the manager, D-Bus, the request queue and  *)
(* back.  The hops of every call are in SecretsApi and CryptoApi; what the *)
(* request processor does is left open, but what it is given is not.       *)
(***************************************************************************)
EXTENDS CallPath, Naturals

CONSTANTS
    Classes,     \* the classes the object may have: <<library, name>>
    MaxSets,     \* how often setters are called
    MaxStarts,   \* how often the request is started
    MaxFaults    \* how many replies are lost and connections broken

ASSUME BoundsAssumption ==
    /\ Classes # {}
    /\ MaxSets \in Nat /\ MaxStarts \in Nat /\ MaxFaults \in Nat

Secrets == INSTANCE SecretsApi
Crypto == INSTANCE CryptoApi

ASSUME ClassesAssumption ==
    Classes \subseteq {<<"Secrets", c>> : c \in DOMAIN Secrets!Requests}
                         \cup {<<"Crypto", c>> : c \in DOMAIN Crypto!Requests}

VARIABLES
    class,          \* of the request object
    attrs,          \* its attributes
    m_status, m_result,
    outs,           \* the call its outputs come from; 0 when default-constructed
    m_manager,      \* "null", or the manager and its connection to the daemon
    call,           \* the last call: where it is and what is known of it
    masterLocked,   \* of the secrets daemon
    sets, starts, faults

vars == <<class, attrs, m_status, m_result, outs, m_manager, call, masterLocked,
          sets, starts, faults>>
-----------------------------------------------------------------------------
(* The tables of the two libraries. *)

IsSecrets == class[1] = "Secrets"
Description == IF IsSecrets THEN Secrets!Requests[class[2]] ELSE Crypto!Requests[class[2]]
Started ==
    IF IsSecrets THEN Secrets!startRequest(class[2], attrs)
                 ELSE Crypto!startRequest(class[2], attrs)
ManagerFunctions == IF IsSecrets THEN Secrets!ManagerFunctions ELSE Crypto!ManagerFunctions
DBusMethods == IF IsSecrets THEN Secrets!DBusMethods ELSE Crypto!DBusMethods
PendingCase(type) == IF IsSecrets THEN Secrets!PendingCases[type] ELSE Crypto!PendingCases[type]
FinishedReply(type) ==
    IF IsSecrets THEN Secrets!FinishedReplies[type] ELSE Crypto!FinishedReplies[type]

\* The kinds the code tells apart, per attribute, and whether a value of the
\* attribute holds a plugin name.
Kinds(p) ==
    CASE p = "secretStorageType" ->
            {"CollectionSecret", "StandaloneCustomLockSecret", "StandaloneDeviceLockSecret"}
      [] p = "collectionLockType" -> {"CustomLock", "DeviceLock"}
      [] p = "lockCodeRequestType" ->
            {"QueryLockStatus", "ModifyLockCode", "ProvideLockCode", "ForgetLockCode"}
      [] p = "lockCodeTargetType" -> {"MetadataDatabase", "ExtensionPlugin"}
      [] p = "userInteractionMode" -> {"SystemInteraction", "ApplicationInteraction"}
      [] p = "collectionName" -> {"empty", "named"}
      [] p = "secret" \/ (p = "identifier" /\ IsSecrets) ->
            {"invalid", "standalone", "collection"}
      [] OTHER -> {p}

HoldsPlugin(p) ==
    p \in {"storagePluginName", "encryptionPluginName", "authenticationPluginName",
           "cryptoPluginName", "lockCodeTarget", "secret", "identifier", "key",
           "keyTemplate", "interactionParameters"}

\* Attributes of one kind that hold no plugin name have two versions.
Values(p) ==
    {Value(k, n) : k \in Kinds(p),
        n \in IF HoldsPlugin(p) THEN {"default", "other"}
              ELSE IF Kinds(p) = {p} THEN {"none", "none2"} ELSE {"none"}}

\* After any setters: every kind of the attributes that decide how the call
\* goes, and default plugins.
FirstValues(p) == {v \in Values(p) : v.plugin \in {"default", "none"}}

Deciding == {p \in Description.attributes : Kinds(p) # {p}}

NoCall ==
    [at |-> "none", number |-> 0, attrs |-> <<>>, method |-> "none", args |-> <<>>,
     expected |-> <<>>, type |-> "none", given |-> <<>>, reply |-> "none", answer |-> "none"]

Init ==
    /\ class \in Classes
    /\ \E f \in [Deciding -> UNION {FirstValues(p) : p \in Deciding}] :
          /\ \A p \in Deciding : f[p] \in FirstValues(p)
          /\ attrs = [p \in Description.attributes |->
                        IF p \in Deciding THEN f[p] ELSE CHOOSE v \in FirstValues(p) : TRUE]
    /\ m_status = "Inactive" /\ m_result = "Succeeded" /\ outs = 0
    /\ m_manager \in {"null", "up"}
    /\ call = NoCall
    /\ masterLocked \in (IF IsSecrets THEN BOOLEAN ELSE {FALSE})
    /\ sets = 0 /\ starts = 0 /\ faults = 0
-----------------------------------------------------------------------------
(* The setters. *)

\* A setter does nothing while the request is active, except the one of the
\* custom parameters.
Settable(p) == m_status # "Active" \/ p = "customParameters"

\* The setters that reset the outputs.
ResetsOutputs(p) ==
    \/ class = <<"Crypto", "VerifyRequest">> /\ p # "customParameters"
    \/ class[2] = "LockCodeRequest" /\ p = "lockCodeRequestType"

SetAttribute ==
    /\ sets < MaxSets
    /\ \E p \in Description.attributes : \E v \in Values(p) \ {attrs[p]} :
          /\ Settable(p)
          /\ attrs' = [attrs EXCEPT ![p] = v]
          /\ outs' = IF ResetsOutputs(p) THEN 0 ELSE outs
    /\ m_status' = IF m_status = "Finished" THEN "Inactive" ELSE m_status
    /\ sets' = sets + 1
    /\ UNCHANGED <<class, m_result, m_manager, call, masterLocked, starts, faults>>

\* A manager made while the daemon cannot be reached has no interface, and
\* never gets one.
SetManager ==
    /\ sets < MaxSets
    /\ m_manager' \in {"up", "unconnected"} \ {m_manager}
    /\ sets' = sets + 1
    /\ UNCHANGED <<class, attrs, m_status, m_result, outs, call, masterLocked, starts, faults>>
-----------------------------------------------------------------------------
(* The call. *)

IsError(reply) == reply \in {"notConnected", "lost", "mismatch"}

Received(types, result, expected) == IF Matches(types, expected) THEN result ELSE "mismatch"

\* Qt picks the overload of the manager's function by the arguments.
Called == CHOOSE f \in ManagerFunctions : /\ f.name = Started.call.name
                                          /\ Len(f.takes) = Len(Started.call.args)

Arguments == [i \in DOMAIN Started.call.args |-> attrs[Started.call.args[i]]]

\* What the manager's function can answer by itself; "none" when it sends.
ImmediateReplies(f, args) ==
    LET refused == Received(f.refusal, "Failed", f.reply)
    IN IF m_manager = "unconnected" THEN {"notConnected"}
       ELSE IF ~Holds(f.accepts, Named(f.takes, args)) THEN {refused}
       ELSE (IF f.service /\ attrs.userInteractionMode.kind = "ApplicationInteraction"
             THEN {refused} ELSE {})
            \cup {IF m_manager = "down" THEN "notConnected" ELSE "none"}

HasOutputs(expected) == Len(expected) > 1

\* The outputs after an immediate answer.
OutputsBy(policy, expected) ==
    IF policy = "keep" \/ ~HasOutputs(expected) THEN outs ELSE 0

\* An immediate answer: an error that is looked at and a refusal finish the
\* request, anything else is left to the watcher.
ImmediatelyAnswered(reply, new) ==
    LET answers == Started.answers IN
    \/ /\ IsError(reply) /\ answers.errors
       /\ m_status' = "Finished" /\ m_result' = "Failed"
       /\ outs' = OutputsBy(answers.onError, new.expected)
       /\ call' = [new EXCEPT !.at = "done", !.reply = reply]
    \/ /\ reply = "Failed"
       /\ m_status' = "Finished" /\ m_result' = "Failed"
       /\ outs' = OutputsBy(answers.onRefusal, new.expected)
       /\ call' = [new EXCEPT !.at = "done", !.reply = reply]
    \/ /\ IsError(reply) /\ ~answers.errors
       /\ m_status' = "Active" /\ m_result' = "Pending"
       /\ call' = [new EXCEPT !.at = "answered", !.reply = reply]
       /\ UNCHANGED outs

StartRequest ==
    /\ m_status # "Active" /\ m_manager # "null"
    /\ starts < MaxStarts
    /\ starts' = starts + 1
    /\ \E reply \in ImmediateReplies(Called, Arguments) :
          LET new == [NoCall EXCEPT !.number = starts + 1, !.attrs = attrs,
                                    !.expected = Called.reply]
          IN IF reply # "none"
             THEN ImmediatelyAnswered(reply, new)
             ELSE /\ m_status' = "Active" /\ m_result' = "Pending"
                  /\ call' = [new EXCEPT !.at = "sent", !.method = Called.name,
                                         !.args = Sent(Called, Arguments)]
                  /\ UNCHANGED outs
    /\ UNCHANGED <<class, attrs, m_manager, masterLocked, sets, faults>>

ClientUnchanged == UNCHANGED <<class, attrs, m_status, m_result, outs, m_manager,
                               masterLocked, sets, starts>>

\* The daemon gets the message.
Dispatch ==
    /\ call.at = "sent"
    /\ \E m \in Found(DBusMethods, call.method, call.args) :
          call' = [call EXCEPT !.at = "queued", !.type = m.type,
                               !.args = Enqueued(m, call.args)]
    /\ ClientUnchanged /\ UNCHANGED faults

Answer(types, result) ==
    [call EXCEPT !.at = "answered", !.answer = result, !.args = <<>>,
                 !.reply = Received(types, result, call.expected)]

Lost == [call EXCEPT !.at = "answered", !.reply = "lost", !.args = <<>>]

\* The queue has no identifier for the request, and the method returns what it
\* has, or the process of the caller is not known, and it is sent an error.
Reject ==
    /\ call.at = "sent" /\ faults < MaxFaults
    /\ call' \in {Answer(call.expected, "Failed"), Lost}
    /\ faults' = faults + 1
    /\ ClientUnchanged

HandlePendingRequest ==
    /\ call.at = "queued"
    /\ LET c == PendingCase(call.type)
           given == Named(c.takes, call.args)
       IN IF masterLocked /\ RefusedWhileLocked(c, call.args)
          THEN call' = Answer(c.reply, "Failed")
          ELSE \/ \E result \in {"Succeeded", "Failed"} :
                     call' = [Answer(c.reply, result) EXCEPT !.given = given]
               \/ /\ ~c.immediate
                  /\ call' = [call EXCEPT !.at = "processing", !.given = given, !.args = <<>>]
    /\ ClientUnchanged /\ UNCHANGED faults

HandleFinishedRequest ==
    /\ call.at = "processing"
    /\ \E result \in {"Succeeded", "Failed"} :
          call' = Answer(FinishedReply(call.type), result)
    /\ ClientUnchanged /\ UNCHANGED faults

\* Mutation: the lambda sets the outputs only when there was none.
DeliverFirstOutputs ==
    /\ m_status = "Active" /\ call.at = "answered"
    /\ m_status' = "Finished"
    /\ m_result' = IF IsError(call.reply) THEN "Failed" ELSE call.reply
    /\ outs' = IF outs = 0 /\ HasOutputs(call.expected) THEN call.number ELSE outs
    /\ call' = [call EXCEPT !.at = "done"]
    /\ UNCHANGED <<class, attrs, m_manager, masterLocked, sets, starts, faults>>

\* Mutation: the lambda returns early on an error.
DeliverNoError ==
    /\ m_status = "Active" /\ call.at = "answered"
    /\ ~IsError(call.reply)
    /\ m_status' = "Finished" /\ m_result' = call.reply
    /\ outs' = IF HasOutputs(call.expected) THEN call.number ELSE outs
    /\ call' = [call EXCEPT !.at = "done"]
    /\ UNCHANGED <<class, attrs, m_manager, masterLocked, sets, starts, faults>>

\* The watcher's lambda.  The first argument of an error is a default result,
\* and that is Succeeded.
Deliver ==
    /\ m_status = "Active" /\ call.at = "answered"
    /\ m_status' = "Finished"
    /\ m_result' = IF ~IsError(call.reply) THEN call.reply
                   ELSE IF Started.answers.lambda THEN "Failed" ELSE "Succeeded"
    /\ outs' = IF ~HasOutputs(call.expected) THEN outs
               ELSE IF IsError(call.reply) THEN 0 ELSE call.number
    /\ call' = [call EXCEPT !.at = "done"]
    /\ UNCHANGED <<class, attrs, m_manager, masterLocked, sets, starts, faults>>

Waiting == call.at \in {"sent", "queued", "processing"}

\* The 180 seconds of the interface have passed.
Timeout ==
    /\ Waiting
    /\ call' = Lost
    /\ ClientUnchanged /\ UNCHANGED faults

\* The daemon stops or the socket is closed.
Disconnect ==
    /\ m_manager = "up" /\ faults < MaxFaults
    /\ m_manager' = "down"
    /\ call' = IF Waiting THEN Lost ELSE call
    /\ faults' = faults + 1
    /\ UNCHANGED <<class, attrs, m_status, m_result, outs, masterLocked, sets, starts>>

\* Another client locks or unlocks the daemon.
MasterLockChanges ==
    /\ IsSecrets /\ faults < MaxFaults
    /\ masterLocked' = ~masterLocked
    /\ faults' = faults + 1
    /\ UNCHANGED <<class, attrs, m_status, m_result, outs, m_manager, call, sets, starts>>

Next ==
    \/ SetAttribute \/ SetManager \/ StartRequest
    \/ Dispatch \/ Reject \/ HandlePendingRequest \/ HandleFinishedRequest
    \/ Deliver \/ Timeout \/ Disconnect \/ MasterLockChanges

Spec == Init /\ [][Next]_vars /\ WF_vars(Deliver) /\ WF_vars(Timeout)
-----------------------------------------------------------------------------
(* Properties. *)

TypeOK ==
    /\ class \in Classes
    /\ \A p \in Description.attributes : attrs[p] \in Values(p)
    /\ m_status \in {"Inactive", "Active", "Finished"}
    /\ m_result \in {"Pending", "Succeeded", "Failed"}
    /\ outs \in 0 .. starts
    /\ m_manager \in {"null", "unconnected", "up", "down"}
    /\ call.at \in {"none", "sent", "queued", "processing", "answered", "done"}
    /\ masterLocked \in BOOLEAN

\* The daemon leaves the default authentication plugin name as it is when it
\* stores a secret in a collection (secrets.cpp:287) and when it generates a
\* stored key (crypto.cpp:194).
LeftUnmapped == {<<"SetCollectionSecret", "interactionParameters">>,
                 <<"GenerateStoredKey", "interactionParameters">>}

\* The request processor is given, under their names, the attributes the object
\* has: no hop (startRequest, the manager, the D-Bus method, the case of
\* handlePendingRequest) swaps, drops or cuts one, default plugin names are
\* replaced by real ones, and no setter changes an attribute under way.
ParametersArrive ==
    m_status = "Active" /\ call.given # <<>> =>
        /\ \A p \in Names(Started.call.args) \ {"customParameters"} :
              /\ p \in DOMAIN call.given
              /\ call.given[p] = IF <<call.type, p>> \in LeftUnmapped THEN attrs[p]
                                 ELSE MAP_PLUGIN_NAMES(attrs[p])
        /\ "interactionServiceAddress" \in DOMAIN call.given =>
              call.given["interactionServiceAddress"] = Address(attrs.userInteractionMode)

\* A failure the daemon answers with is the result the application sees: "The
\* result encapsulates information about whether a given crypto operation
\* succeeded, failed, or is pending conclusion" (lib/Crypto/result.cpp:43).
FailureIsTold ==
    m_status = "Finished" /\ call.answer = "Failed" => m_result = "Failed"

\* The reply is an error and the lambda of the class does not look.
Unseen ==
    \/ call.reply \in {"lost", "notConnected"} /\ ~Started.answers.lambda
    \/ call.reply = "mismatch" /\ call.type \in {"Verify", "Decrypt"}

\* A request that finished as Succeeded was answered so by the daemon, for the
\* call the object made last; apart from errors that no code looks at.
SuccessIsTheDaemons ==
    m_status = "Finished" /\ m_result = "Succeeded" => call.answer = "Succeeded" \/ Unseen

\* A finished request describes the attributes the object has: a setter takes it
\* back to Inactive (the custom parameters can be set while it is active).  The
\* outputs of one that succeeded are the ones of its last call, never left over
\* from an earlier one.
FinishedIsCurrent ==
    m_status = "Finished" =>
        /\ \A p \in Description.attributes \ {"customParameters"} : attrs[p] = call.attrs[p]
        /\ m_result = "Succeeded" /\ HasOutputs(call.expected) =>
              outs = IF IsError(call.reply) THEN 0 ELSE call.number

\* A started request finishes, whatever becomes of the daemon.
RequestFinishes == m_status = "Active" ~> m_status = "Finished"
=============================================================================
