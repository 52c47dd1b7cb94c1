------------------------------- MODULE Stubs -------------------------------
(***************************************************************************)
(* The Python classes protoc-gen-connectrpc prints for a service, as       *)
(* tables.  A service is a record of its type name and the sequence of its *)
(* methods; a method's name is its words and how they are joined, of which *)
(* snake_case keeps the words.  A class is a function from attribute names *)
(* (sequences of words) to what the last `def` of that name says: Python   *)
(* keeps no other.                                                         *)
(***************************************************************************)
EXTENDS Naturals, Sequences, FiniteSetsExt, TLC

CONSTANT Keywords       \* the names escape_identifier() does not let through

(* The shape of an RPC: whether each side sends one message or many. *)
Kinds == {"unary", "client_streaming", "server_streaming", "bidi_streaming"}
OneRequest == {"unary", "server_streaming"}
OneResponse == {"unary", "client_streaming"}

(* What the caller of a method passes it. *)
TakesOf(kind) == IF kind \in OneRequest THEN "message" ELSE "iterator"

(* What the call of a method of either class evaluates to. *)
GivesOf(kind) == IF kind \in OneResponse THEN "message" ELSE "iterator"

SnakeCase(name) == name.words

EscapeIdentifier(words) == IF words \in Keywords THEN Append(words, "_") ELSE words

LocalName(method) == EscapeIdentifier(SnakeCase(method.name))

MethodUrl(service, method) == <<service.type, method.name>>

EndpointType(kind) ==
    [unary |-> "unary", client_streaming |-> "client_stream",
     server_streaming |-> "server_stream", bidi_streaming |-> "bidi_stream"][kind]

ExecuteMethod(kind) ==
    [unary |-> <<"execute", "unary">>,
     client_streaming |-> <<"execute", "client", "stream">>,
     server_streaming |-> <<"execute", "server", "stream">>,
     bidi_streaming |-> <<"execute", "bidi", "stream">>][kind]

SupportsGet(method) == method.kind = "unary" /\ method.level = "no_side_effects"

(* A message class belongs to the protobuf implementation it is printed for. *)
MessageIdent(message, option) == [message |-> message, family |-> option]

MethodInfo(service, method, option) ==
    [name |-> method.name, service |-> service.type, level |-> method.level,
     input |-> MessageIdent(method.input, option)]

(* The codecs a class falls back to: the library's own, unless it was      *)
(* printed for google.protobuf.                                            *)
DefaultFamily(option) == IF option = "google" THEN "google" ELSE "py"

(* An argument that is None is not an argument left out: the default the   *)
(* printed constructor declares is passed over, and the library's taken.   *)
CodecFamily(option, argument) ==
    CASE argument = "unset" -> DefaultFamily(option)
      [] argument = "none"  -> "py"
      [] argument = "own"   -> option

Methods(service) == {service.methods[i] : i \in DOMAIN service.methods}
Locals(service) == {LocalName(m) : m \in Methods(service)}

(* Of several definitions of one name, the last. *)
Winner(service, local) ==
    service.methods[Max({i \in DOMAIN service.methods :
                            LocalName(service.methods[i]) = local})]

AsyncSignature(method) ==
    [awaited |-> method.kind \in OneResponse,
     takes |-> TakesOf(method.kind), gives |-> GivesOf(method.kind)]

SyncSignature(method) ==
    [awaited |-> FALSE, takes |-> TakesOf(method.kind), gives |-> GivesOf(method.kind)]

(* The class a service derives from: what each of its methods must be, and *)
(* is, answering `unimplemented`, until the service overrides it.          *)
AsyncService(service) ==
    [l \in Locals(service) |-> AsyncSignature(Winner(service, l))]

SyncService(service) ==
    [l \in Locals(service) |-> SyncSignature(Winner(service, l))]

Endpoint(service, method, option) ==
    [type |-> EndpointType(method.kind), function |-> LocalName(method),
     info |-> MethodInfo(service, method, option)]

(* The applications: a table from URLs, and the path to mount it at.  The  *)
(* asynchronous one is a function of the service it is given at startup.   *)
Endpoints(service, option) ==
    [u \in {MethodUrl(service, m) : m \in Methods(service)} |->
        Endpoint(service,
                 CHOOSE m \in Methods(service) : MethodUrl(service, m) = u, option)]

AsgiApplication(service, option) ==
    [endpoints |-> Endpoints(service, option), path |-> <<service.type>>]

WsgiApplication(service, option) ==
    [endpoints |-> Endpoints(service, option), path |-> <<service.type>>]

(* What the clients inherit and their methods are printed over. *)
BaseNames == {<<"close">>} \cup {ExecuteMethod(k) : k \in Kinds}

ClientMethod(service, method, option, signature) ==
    [execute |-> ExecuteMethod(method.kind), get |-> SupportsGet(method),
     info |-> MethodInfo(service, method, option), awaited |-> signature.awaited,
     takes |-> signature.takes, gives |-> signature.gives]

AsyncClient(service, option) ==
    [l \in Locals(service) |->
        LET method == Winner(service, l)
        IN  ClientMethod(service, method, option, AsyncSignature(method))]

SyncClient(service, option) ==
    [l \in Locals(service) |->
        LET method == Winner(service, l)
        IN  ClientMethod(service, method, option, SyncSignature(method))]
=============================================================================
