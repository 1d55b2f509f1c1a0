------------------------------ MODULE CallPath ------------------------------
(***************************************************************************)
(* What a call to the daemon is made of, for both APIs.  A request object  *)
(* (lib/Secrets, lib/Crypto) calls a function of its manager, the manager  *)
(* sends a D-Bus message, a D-Bus method of the daemon puts a request type *)
(* and a list of parameters in the queue, a case of handlePendingRequest   *)
(* takes the parameters off that list, and a case of handlePendingRequest  *)
(* or handleFinishedRequest sends the reply.  Parameters travel by their   *)
(* position only: a hop gives names to the values it gets (takes) and      *)
(* passes values on in an order of its own (gives).  Names are the ones of *)
(* the attributes of the request classes, whatever a hop calls them.       *)
(*                                                                         *)
(* A value has a kind, what the code looks at, and the plugin name it      *)
(* holds, if any: the storage plugin of a key, secret or identifier, the   *)
(* authentication plugin of interaction parameters.                        *)
(***************************************************************************)
EXTENDS Sequences, SequencesExt

Value(kind, plugin) == [kind |-> kind, plugin |-> plugin]

\* An empty string, and the address of the interaction service.
EmptyString == Value("empty", "none")
Address(mode) ==
    IF mode.kind = "ApplicationInteraction" THEN Value("address", "none") ELSE EmptyString

\* Controller::mappedPluginName on the plugin name of a value.
MAP_PLUGIN_NAMES(v) == IF v.plugin = "default" THEN [v EXCEPT !.plugin = "mapped"] ELSE v

Names(takes) == ToSet(takes)

\* The values of a list under the names a hop gives them; what is not on the
\* list is default-constructed.
Named(takes, values) ==
    [p \in Names(takes) |->
        LET i == CHOOSE k \in DOMAIN takes : takes[k] = p
        IN IF i \in DOMAIN values THEN values[i] ELSE EmptyString]

Unchecked == [param |-> "none", kinds |-> {}]
Holds(check, env) == check = Unchecked \/ env[check.param].kind \in check.kinds
-----------------------------------------------------------------------------
(* Manager functions. *)

Function(name, takes, reply) ==
    [name |-> name, takes |-> takes, gives |-> takes, reply |-> reply,
     accepts |-> Unchecked, service |-> FALSE, refusal |-> <<"Result">>]

\* The function starts the interaction service of the application when it has
\* to, and sends its address as the last parameter.
Interacting(f) ==
    [f EXCEPT !.service = TRUE, !.gives = Append(@, "interactionServiceAddress")]

\* It answers by itself when a parameter is not of these kinds.
Checking(f, p, kinds) == [f EXCEPT !.accepts = [param |-> p, kinds |-> kinds]]

\* Its own answers have these types.
Refusing(types, f) == [f EXCEPT !.refusal = types]

Prepending(p, f) == [f EXCEPT !.gives = <<p>> \o @]

\* The arguments of the D-Bus message.
Sent(f, args) ==
    LET env == Named(f.takes, args)
        Given(p) ==
            CASE p = "QString()" -> EmptyString
              [] p = "interactionServiceAddress" ->
                    IF f.service THEN Address(env.userInteractionMode) ELSE EmptyString
              [] OTHER -> env[p]
    IN [i \in DOMAIN f.gives |-> Given(f.gives[i])]
-----------------------------------------------------------------------------
(* D-Bus methods. *)

Method(name, takes, maps, type) ==
    [name |-> name, takes |-> takes, gives |-> takes, maps |-> maps, type |-> type,
     when |-> Unchecked]

\* The type of the request depends on the kind of a parameter.
When(p, kinds, m) == [m EXCEPT !.when = [param |-> p, kinds |-> kinds]]

\* The first parameter only decides the type.
DroppingFirst(m) == [m EXCEPT !.gives = Tail(@)]

\* The method Qt finds for a message: overloads differ in their parameters.
Found(methods, name, args) ==
    {m \in methods : /\ m.name = name
                     /\ Len(m.takes) = Len(args)
                     /\ Holds(m.when, Named(m.takes, args))}

\* The list of parameters put in the queue.
Enqueued(m, args) ==
    LET env == Named(m.takes, args)
    IN [i \in DOMAIN m.gives |->
          IF m.gives[i] \in m.maps THEN MAP_PLUGIN_NAMES(env[m.gives[i]]) ELSE env[m.gives[i]]]
-----------------------------------------------------------------------------
(* Cases of handlePendingRequest, replies, and the classes of requests. *)

\* What a locked daemon does with a request.
Served == "served"
Refused == "refused"
RefusedUnlessMasterLock == "refusedUnlessMasterLock"

Case(takes, locked, reply) ==
    [takes |-> takes, locked |-> locked, reply |-> reply, immediate |-> FALSE]

\* The request processor answers at once, never with Pending.
Immediate(c) == [c EXCEPT !.immediate = TRUE]

RefusedWhileLocked(c, params) ==
    \/ c.locked = Refused
    \/ /\ c.locked = RefusedUnlessMasterLock
       /\ Named(c.takes, params).lockCodeTargetType.kind # "MetadataDatabase"

\* A reply is used when its types begin with the expected ones; Qt turns any
\* other one into an error.
Matches(types, expected) == IsPrefix(expected, types)

Request(attributes, outputs) == [attributes |-> attributes, outputs |-> outputs]

Call(name, args) == [name |-> name, args |-> args]

\* What startRequest and its lambda do with answers: whether an immediate error
\* is looked at (errors), whether the lambda looks for one (lambda), and what
\* becomes of the outputs on an immediate error and on an immediate refusal.
Usual == [errors |-> TRUE, lambda |-> FALSE, onError |-> "keep", onRefusal |-> "reply"]
ChecksErrors == [Usual EXCEPT !.lambda = TRUE]
IgnoresErrors == [Usual EXCEPT !.errors = FALSE]
ResetsOnError == [Usual EXCEPT !.onError = "reset"]
KeepsOnRefusal == [Usual EXCEPT !.onRefusal = "keep"]
ResetsOnRefusal == [Usual EXCEPT !.onRefusal = "reset"]
ResetsAlways == [Usual EXCEPT !.onError = "reset", !.onRefusal = "reset"]

Start(call, answers) == [call |-> call, answers |-> answers]
=============================================================================
