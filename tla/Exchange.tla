------------------------------ MODULE Exchange ------------------------------
(***************************************************************************)
(* One call from end to end: the method of a printed client, the request   *)
(* the client makes of it, the route a server finds for it, the service,   *)
(* the answer, an intermediary that may answer itself, cut the answer or   *)
(* repeat the request, and what the caller is told.  Client and server     *)
(* are configured apart from each other; a foreign client of the server    *)
(* may send what no client of this library would.                          *)
(*                                                                         *)
(* A message is small, big (beyond the limits) or bad (does not decode).   *)
(* Header values that are lists are sequences; a body is the sequence of   *)
(* its messages.  What runs concurrently within either side is the subject *)
(* of AsgiStream, WsgiStream and ClientStream.                             *)
(***************************************************************************)
EXTENDS Stubs, WireErrors, SequencesExt

CONSTANTS Settings,     \* services with a server and a client, see below
          Trailers,     \* the trailers services set, of a gRPC call's
          Intermediate, \* answers of intermediaries
          Bodies,       \* what is sent on a stream
          MaxRepeats    \* times an intermediary repeats a request

Messages == {"small", "big", "bad"}

Codings == {"gzip", "br", "zstd", "identity"}

(* Codes that only a service gives a call. *)
ServicesOwn == {"not_found", "already_exists", "failed_precondition", "aborted",
                "out_of_range", "data_loss", "canceled", "deadline_exceeded"}

(* An intermediary answers in HTML or with a failure in JSON of its own.   *)
ASSUME IntermediateAssumption ==
    /\ MaxRepeats \in Nat
    /\ \A r \in Intermediate :
        /\ r.status \in 200..599 /\ r.compression = Absent
        /\ \/ r.type = "html" /\ r.json = Absent
           \/ /\ r.type = "json" /\ r.status # 200
              /\ r.json \in Dicts /\ r.json.code \notin ServicesOwn

(* The methods of a service have different names.  The body of a unary     *)
(* Connect call is one message, or empty; no server has a codec of the     *)
(* name a foreign content type is given.  What a message's own sender does *)
(* not find bad, callers and services of this library do not send.         *)
ASSUME DeploymentAssumption ==
    /\ Bodies \subseteq Seq(Messages \ {"bad"})
    /\ Trailers \subseteq GrpcTrailers
    /\ \A s \in Settings :
        /\ s.service.methods \in Seq(Methods(s.service))
        /\ \A m \in Methods(s.service) :
                m.kind \in Kinds /\ \A n \in Methods(s.service) : m.name = n.name => m = n
        /\ s.raises \subseteq ConnectErrors \cup Others
        /\ s.client.protocol \in {"connect", "grpc", "grpcweb"}
        /\ s.client.send \in Codings /\ s.client.accept \in Seq(Codings) \cup {Absent}
        /\ s.server.mount \in {"root", "service", "prefix"}
        /\ "unknown" \notin s.server.codecs
        /\ \A r \in s.others :
            /\ r.http \in {"GET", "POST", "PUT"} /\ r.compression \in Codings
            /\ r.body \in Seq(Messages)
            /\ r.type \in {"unary", "none"} => Len(r.body) <= 1

VARIABLES setting,  \* [service, raises, option, flavor, server, client, others]
          asked,    \* the caller's method and messages, or Absent
          req,      \* the request
          verdict,  \* what the server made of it: a call, or an exception
          runs,     \* the calls of the service's functions so far
          did,      \* what the last of them did
          resp,     \* the response
          via,      \* what happened to it: "direct", "cut", "replaced"
          result,   \* what the caller was told
          step

vars == <<setting, asked, req, verdict, runs, did, resp, via, result, step>>

server == setting.server
client == setting.client

(* The code's early returns, in its order: the first that applies. *)
Check(applies, e) == [applies |-> applies, with |-> e]

FirstOf(checks, otherwise) ==
    LET hits == {i \in DOMAIN checks : checks[i].applies}
    IN  IF hits = {} THEN otherwise ELSE checks[Min(hits)].with

(* Compression: the names are a sequence where their order is that of a header. *)
ResolveCompressions(names) ==
    IF names = Absent THEN <<"gzip", "identity">>
    ELSE IF "identity" \in ToSet(names) THEN names ELSE Append(names, "identity")

Supported == ToSet(ResolveCompressions(server.compressions))

(* Slips a maintainer could make in the operators that follow them, here   *)
(* and below.                                                              *)
ServersChoice(accept) == ResolveCompressions(server.compressions)[1]

NegotiateCompression(accept) ==
    FirstOf([i \in DOMAIN accept |-> Check(accept[i] \in Supported, accept[i])],
            "identity")

----------------------------------------------------------------------------
(* The client's side of a request. *)

Application == IF setting.flavor = "async"
               THEN AsgiApplication(setting.service, setting.option)
               ELSE WsgiApplication(setting.service, setting.option)

Client == IF setting.flavor = "async" THEN AsyncClient(setting.service, setting.option)
          ELSE SyncClient(setting.service, setting.option)

RequestContext(enveloped) ==
    [type |-> IF client.protocol # "connect" THEN client.protocol
              ELSE IF enveloped THEN "stream" ELSE "unary",
     codec |-> client.codec,
     compression |-> client.send,
     packed |-> client.send # "identity",
     accept |-> ResolveCompressions(client.accept)]

(* A GET request says in its query what a POST says in its headers. *)
GetParams(context) == [context EXCEPT !.type = "none"]

HttpRequest(http, url, context, messages) ==
    [http |-> http, url |-> url, type |-> context.type, codec |-> context.codec,
     compression |-> context.compression, packed |-> context.packed,
     accept |-> context.accept, body |-> messages]

Enveloped(method) == method.kind # "unary" \/ client.protocol # "connect"

Request(method, get, messages) ==
    LET context == RequestContext(Enveloped(method))
        url == MethodUrl(setting.service, method)
    IN  IF get /\ ~Enveloped(method)
        THEN HttpRequest("GET", url, GetParams(context), messages)
        ELSE HttpRequest("POST", url, context, messages)

----------------------------------------------------------------------------
(* The server's side. *)

(* How the servers that an application is mounted in present a URL. *)
Presented(url) ==
    LET root == [root |-> <<>>, service |-> <<url[1]>>, prefix |-> <<"api">>][server.mount]
        path == IF setting.flavor = "async"
                THEN [root |-> url, service |-> url, prefix |-> root \o url]
                ELSE [root |-> url, service |-> Tail(url), prefix |-> url]
    IN  [root |-> root, path |-> path[server.mount]]

WsgiPath(at) ==
    IF at.path \notin DOMAIN Application.endpoints /\ at.root = Application.path
    THEN Application.path \o at.path ELSE at.path

NeverMounted(at) == at.path

AsgiPath(at) ==
    IF /\ at.path \notin DOMAIN Application.endpoints
       /\ at.root # <<>> /\ IsPrefix(at.root, at.path)
    THEN SubSeq(at.path, Len(at.root) + 1, Len(at.path)) ELSE at.path

Path == LET at == Presented(req.url)
        IN  IF setting.flavor = "async" THEN AsgiPath(at) ELSE WsgiPath(at)

Protocol == IF req.type \in {"grpc", "grpcweb"} THEN req.type ELSE "connect"

AnyMethodsGet(endpoint) == req.http \notin {"GET", "POST"}

MethodNotAllowed(endpoint) ==
    req.http \notin IF Protocol = "connect" /\ endpoint.info.level = "no_side_effects"
                    THEN {"GET", "POST"} ELSE {"POST"}

(* A content type of the other kind of call names no codec. *)
CodecOfContentType(stream) ==
    IF Protocol # "connect" \/ req.type = (IF stream THEN "stream" ELSE "unary")
    THEN req.codec ELSE "unknown"

ServerFamily == CodecFamily(setting.option, server.argument)

Undecodable(message, endpoint) ==
    message = "bad" \/ ServerFamily # endpoint.info.input.family

TooLarge(message) == server.limit /\ message = "big"

Called(endpoint, messages) == [type |-> "call", endpoint |-> endpoint, body |-> messages]

(* Reading the request of a unary Connect call, in either application.  A  *)
(* body of no bytes is a message, a small one.                             *)
Message == IF req.body = <<>> THEN "small" ELSE req.body[1]

MissingMessage == Check(req.body = <<>>, Raised("invalid_argument"))

ReadPostAsgi(endpoint) ==
    FirstOf(<<Check(req.compression \notin Supported, Raised("unimplemented")),
              Check(TooLarge(Message), Raised("resource_exhausted")),
              Check(Undecodable(Message, endpoint), Other("text"))>>,
            Called(endpoint, req.body))

ReadGetAsgi(endpoint) ==
    FirstOf(<<MissingMessage,
              Check(req.compression \notin Supported, Raised("unimplemented")),
              Check(Undecodable(Message, endpoint), Other("text"))>>,
            Called(endpoint, req.body))

ReadPostWsgi(endpoint) ==
    FirstOf(<<Check(CodecOfContentType(FALSE) \notin server.codecs, HTTPException(415)),
              Check(req.compression \notin Supported, Raised("unimplemented")),
              Check(TooLarge(Message), Raised("resource_exhausted")),
              Check(Undecodable(Message, endpoint), Raised("invalid_argument"))>>,
            Called(endpoint, req.body))

ReadGetWsgi(endpoint) ==
    FirstOf(<<MissingMessage,
              Check(req.compression \notin Supported, Raised("unimplemented")),
              Check(req.codec \notin server.codecs, Raised("unimplemented")),
              Check(Undecodable(Message, endpoint), Raised("invalid_argument"))>>,
            Called(endpoint, req.body))

(* What frames are inflated with, and whether there is anything to do it. *)
StreamCompression ==
    IF req.compression \in Supported THEN req.compression ELSE "identity"

KnownCompression == Protocol = "connect" \/ req.compression \in Supported

LimitUnlessPacked(message, endpoint) ==
    FirstOf(<<Check(req.packed /\ StreamCompression = "identity", Raised("internal")),
              Check(TooLarge(message) /\ ~req.packed, Raised("resource_exhausted")),
              Check(Undecodable(message, endpoint), Other("text"))>>, Absent)

ReadFrame(message, endpoint) ==
    FirstOf(<<Check(req.packed /\ StreamCompression = "identity", Raised("internal")),
              Check(TooLarge(message), Raised("resource_exhausted")),
              Check(Undecodable(message, endpoint), Other("text"))>>, Absent)

(* The messages in front of the first that cannot be read, and its error. *)
ReadFrames(endpoint) ==
    LET body == IF req.http = "GET" THEN <<>> ELSE req.body
        bad == {i \in DOMAIN body : ReadFrame(body[i], endpoint) # Absent}
    IN  IF bad = {} THEN [good |-> body, error |-> Absent]
        ELSE [good |-> SubSeq(body, 1, Min(bad) - 1),
              error |-> ReadFrame(body[Min(bad)], endpoint)]

(* One message and the end, for either side: a second is seen before its error. *)
Single(read, otherwise) ==
    FirstOf(<<Check(Len(read.good) > 1, Raised("unimplemented")),
              Check(read.error # Absent, read.error),
              Check(read.good = <<>>, Raised("unimplemented"))>>, otherwise)

(* A stream of requests is read by the service itself: an error in it is   *)
(* raised there.                                                           *)
ReadStream(endpoint) ==
    LET read == ReadFrames(endpoint)
    IN  IF ~KnownCompression THEN Raised("unimplemented")
        ELSE IF endpoint.type \in {"unary", "server_stream"}
             THEN Single(read, Called(endpoint, read.good))
             ELSE Called(endpoint, read.good)

UnaryConnect(endpoint) == endpoint.type = "unary" /\ Protocol = "connect"

NoTrailers == Protocol = "grpc" /\ ~server.trailers

HandleAsgi(endpoint) ==
    LET codec == IF req.http = "GET" THEN req.codec
                 ELSE CodecOfContentType(endpoint.type # "unary")
    IN  FirstOf(<<Check(NoTrailers, Other("text")),
                  Check(MethodNotAllowed(endpoint), HTTPException(405)),
                  Check(codec \notin server.codecs, HTTPException(415))>>,
                IF ~UnaryConnect(endpoint) THEN ReadStream(endpoint)
                ELSE IF req.http = "GET" THEN ReadGetAsgi(endpoint)
                ELSE ReadPostAsgi(endpoint))

HandleWsgi(endpoint) ==
    FirstOf(<<Check(NoTrailers, Other("text")),
              Check(MethodNotAllowed(endpoint), HTTPException(405)),
              Check(~UnaryConnect(endpoint) /\ CodecOfContentType(TRUE) \notin server.codecs,
                    HTTPException(415))>>,
            IF ~UnaryConnect(endpoint) THEN ReadStream(endpoint)
            ELSE IF req.http = "GET" THEN ReadGetWsgi(endpoint)
            ELSE ReadPostWsgi(endpoint))

Route == IF Path \notin DOMAIN Application.endpoints THEN HTTPException(404)
         ELSE IF setting.flavor = "async" THEN HandleAsgi(Application.endpoints[Path])
         ELSE HandleWsgi(Application.endpoints[Path])

----------------------------------------------------------------------------
(* The answer. *)

Plain(status, type, json) ==
    [status |-> status, type |-> type, codec |-> "json", compression |-> Absent,
     body |-> <<>>, json |-> json, end |-> Absent]

GrpcStatusForHttp(e) ==
    IF e.type = "http" THEN Plain(e.status, "none", Absent)
    ELSE Plain(StatusOfCode(FromException(e).code), "json", ToDict(FromException(e)))

HandleError(e) ==
    IF e.type = "http" THEN Plain(e.status, "none", Absent)
    ELSE LET error == FromException(e)
         IN  Plain(HttpOfCode(error.code), "json", ToDict(error))

AnswerUnary(outcome) ==
    IF outcome.error # Absent THEN HandleError(outcome.error)
    ELSE [status |-> 200, type |-> "unary", codec |-> req.codec, json |-> Absent,
          compression |-> NegotiateCompression(req.accept),
          body |-> outcome.messages, end |-> Absent]

(* The end of a Connect stream is a JSON object of its own; that of a gRPC *)
(* call, in either of its forms, is trailers.                              *)
End(outcome) ==
    LET error == IF outcome.error = Absent THEN Absent ELSE FromException(outcome.error)
    IN  IF Protocol # "connect" THEN GrpcEnd(outcome.trailers, error)
        ELSE [error |-> IF error = Absent THEN Absent ELSE ToDict(error)]

AnswerStream(outcome) ==
    [status |-> 200, type |-> IF Protocol = "connect" THEN "stream" ELSE Protocol,
     codec |-> req.codec, compression |-> NegotiateCompression(req.accept),
     body |-> outcome.messages, json |-> Absent, end |-> End(outcome)]

(* What an exception the library raised before the service ran is, as an outcome. *)
NoTrailersOfItsOwn == [status |-> Absent, message |-> Absent, details |-> Absent]
Refusal(e) == [messages |-> <<>>, error |-> e, trailers |-> NoTrailersOfItsOwn]

IsUnary == UnaryConnect(Application.endpoints[Path])

Refused(e) ==
    IF e.type = "http" \/ NoTrailers \/ IsUnary THEN HandleError(e)
    ELSE AnswerStream(Refusal(e))

----------------------------------------------------------------------------
(* The client's side of the answer. *)

ClientSupports(name) == name = Absent \/ name \in ToSet(ResolveCompressions(client.accept))

ClientTooLarge(message) == client.limit /\ message = "big"

Told(error) == [ok |-> FALSE, messages |-> <<>>, error |-> error]
Success(messages) == [ok |-> TRUE, messages |-> messages, error |-> Absent]

ValidateResponse ==
    <<Check(resp.status # 200 /\ resp.type # "json", FromHttpStatus(resp.status)),
      Check(resp.status = 200 /\ resp.type \in {"none", "html"}, Raised("unknown")),
      Check(resp.status = 200 /\ (resp.type = "stream" \/ resp.codec # client.codec),
            Raised("internal"))>>

HandleResponseCompression ==
    Check(~ClientSupports(resp.compression), Raised("internal"))

ReceiveUnary ==
    LET e == FirstOf(ValidateResponse \o
                <<HandleResponseCompression,
                  Check(resp.status # 200, FromResponse(resp)),
                  Check(resp.body = <<>>, Raised("unavailable")),
                  Check(resp.body # <<>> /\ ClientTooLarge(resp.body[1]),
                        Raised("resource_exhausted"))>>, Absent)
    IN  IF e = Absent THEN Success(resp.body) ELSE Told(e)

ValidateStreamResponse ==
    <<Check(resp.type # RequestContext(TRUE).type, Raised("unknown")),
      Check(resp.codec # client.codec, Raised("internal"))>>

MissingIsFine ==
    IF resp.end = Absent \/ client.protocol = "connect" \/ resp.end.status = 0
    THEN Absent ELSE GrpcError(resp.end)

(* How a body that was read to where it ends says the call ended.  One of  *)
(* a Connect stream that has no end message says nothing, and succeeds.    *)
HandleResponseComplete ==
    IF client.protocol = "connect"
    THEN IF resp.end = Absent THEN Absent
         ELSE IF resp.end.error = Absent THEN Absent
         ELSE FromDict(resp.end.error, 500, "unknown")
    ELSE IF resp.end = Absent THEN Raised("internal")
         ELSE IF resp.end.status = 0 THEN Absent
         ELSE GrpcError(resp.end)

ReadResponse ==
    LET large == {i \in DOMAIN resp.body : ClientTooLarge(resp.body[i])}
    IN  IF large = {} THEN [good |-> resp.body, error |-> HandleResponseComplete]
        ELSE [good |-> SubSeq(resp.body, 1, Min(large) - 1),
              error |-> Raised("resource_exhausted")]

ReceiveStream ==
    LET e == FirstOf(<<Check(resp.status # 200, FromResponse(resp))>>
                     \o ValidateStreamResponse \o <<HandleResponseCompression>>, Absent)
        read == ReadResponse
        single == Single(read, Absent)
    IN  IF e # Absent THEN Told(e)
        ELSE IF asked.method.kind \in OneResponse
             THEN IF single = Absent THEN Success(read.good) ELSE Told(single)
             ELSE [ok |-> read.error = Absent, messages |-> read.good, error |-> read.error]

----------------------------------------------------------------------------
(* The steps of a call.                                                    *)
(* A result that is an exception of Python's own (a TypeError) is Other.   *)

Init ==
    /\ setting \in Settings
    /\ asked = Absent /\ req = Absent /\ verdict = Absent /\ runs = <<>>
    /\ did = Absent /\ resp = Absent /\ via = "direct" /\ result = Absent
    /\ step = "idle"

(* A caller's own code: it passes what the printed method says it takes.   *)
Payloads(kind) == IF kind \in OneRequest THEN {<<"small">>, <<"big">>} ELSE Bodies

Ask(method, get, messages) ==
    /\ step = "idle"
    /\ asked' = [method |-> method, get |-> get, messages |-> messages]
    /\ UNCHANGED <<setting, verdict, runs, did, resp, via>>

(* The printed method calls self.execute_...(): the library's, unless a    *)
(* method of the service is printed over it, which takes other arguments.  *)
(* Messages of another library's classes fail in the codec, before the     *)
(* request leaves.                                                         *)
Call(method, get, messages) ==
    LET stub == Client[LocalName(method)]
    IN  /\ stub.takes = TakesOf(method.kind) /\ stub.gives = GivesOf(method.kind)
        /\ get => stub.get
        /\ Ask(method, get, messages)
        /\ IF stub.execute \in Locals(setting.service)
           THEN step' = "over" /\ result' = Told(Other("text")) /\ UNCHANGED req
           ELSE IF CodecFamily(setting.option, client.argument) # stub.info.input.family
           THEN step' = "told" /\ result' = Told(Raised("unavailable")) /\ UNCHANGED req
           ELSE /\ step' = "sent" /\ UNCHANGED result
                /\ req' = Request(Winner(setting.service, LocalName(method)), get, messages)

ForeignCall(request, method) ==
    /\ step = "idle"
    /\ req' = HttpRequest(request.http, MethodUrl(setting.service, method), request,
                          request.body)
    /\ step' = "sent"
    /\ UNCHANGED <<setting, asked, verdict, runs, did, resp, via, result>>

Dispatch ==
    /\ step = "sent"
    /\ verdict' = Route
    /\ step' = "routed"
    /\ UNCHANGED <<setting, asked, req, runs, did, resp, via, result>>

Refuse ==
    /\ step = "routed" /\ verdict.type # "call"
    /\ resp' = Refused(verdict)
    /\ step' = "answered"
    /\ UNCHANGED <<setting, asked, req, verdict, runs, did, via, result>>

Service == IF setting.flavor = "async" THEN AsyncService(setting.service)
           ELSE SyncService(setting.service)

(* Two methods of one name but not of one kind: the function the endpoint  *)
(* calls is not one it can call.                                           *)
Fits(endpoint) ==
    LET function == Service[endpoint.function]
    IN  /\ (endpoint.type \in {"unary", "server_stream"}) = (function.takes = "message")
        /\ (endpoint.type \in {"unary", "client_stream"}) = (function.gives = "message")

Outcome(messages, error, trailers) ==
    [messages |-> messages, error |-> error, trailers |-> trailers]

(* The last word of a service: messages, if it can give several, then the  *)
(* error it raises, if it does.  One that reads a stream of requests to    *)
(* its end meets the error in it.                                          *)
Outcomes(endpoint) ==
    LET many == endpoint.type \in {"server_stream", "bidi_stream"}
        reads == endpoint.type \in {"client_stream", "bidi_stream"}
        errors == setting.raises \cup (IF reads THEN {ReadFrames(endpoint).error} \ {Absent} ELSE {})
        own == IF Protocol = "connect" THEN {NoTrailersOfItsOwn} ELSE Trailers
    IN  {Outcome(m, e, t) : m \in IF many THEN Bodies ELSE {<<>>}, e \in errors, t \in own}
        \cup {Outcome(m, Absent, t) :
                m \in IF many THEN Bodies ELSE {<<"small">>, <<"big">>}, t \in own}

Answer(outcome) ==
    /\ did' = outcome
    /\ resp' = IF IsUnary THEN AnswerUnary(outcome) ELSE AnswerStream(outcome)
    /\ step' = "answered"
    /\ UNCHANGED <<setting, asked, req, verdict, via, result>>

Serve ==
    /\ step = "routed" /\ verdict.type = "call" /\ Fits(verdict.endpoint)
    /\ runs' = Append(runs, [method |-> Winner(setting.service, verdict.endpoint.function),
                             body |-> verdict.body])
    /\ \E outcome \in Outcomes(verdict.endpoint) : Answer(outcome)

Misfit ==
    /\ step = "routed" /\ verdict.type = "call" /\ ~Fits(verdict.endpoint)
    /\ Answer(Refusal(Other("text")))
    /\ UNCHANGED runs

(* What is between client and server may answer in the server's place, end *)
(* a body of frames early, or send a request again that says, by being a   *)
(* GET, that this is safe.                                                 *)
Replace ==
    /\ step = "sent" /\ asked # Absent
    /\ resp' \in Intermediate
    /\ via' = "replaced"
    /\ step' = "answered"
    /\ UNCHANGED <<setting, asked, req, verdict, runs, did, result>>

Cut ==
    /\ step = "answered" /\ via = "direct" /\ asked # Absent /\ resp.end # Absent
    /\ \E k \in 0..Len(resp.body) :
            resp' = [resp EXCEPT !.body = SubSeq(@, 1, k), !.end = Absent]
    /\ via' = "cut"
    /\ UNCHANGED <<setting, asked, req, verdict, runs, did, result, step>>

Repeat ==
    /\ step = "answered" /\ req.http = "GET" /\ Len(runs) \in 1..MaxRepeats
    /\ via = "direct"
    /\ step' = "sent"
    /\ UNCHANGED <<setting, asked, req, verdict, runs, did, resp, via, result>>

Receive ==
    /\ step = "answered" /\ asked # Absent
    /\ result' = IF Enveloped(asked.method) THEN ReceiveStream ELSE ReceiveUnary
    /\ step' = "told"
    /\ UNCHANGED <<setting, asked, req, verdict, runs, did, resp, via>>

(* The end of the caller's `with` block calls close(), which changes       *)
(* nothing that is read again; but a method of that name is printed over   *)
(* it, and called with nothing.                                            *)
Leave ==
    /\ step = "told" /\ <<"close">> \in Locals(setting.service)
    /\ step' = "over"
    /\ result' = Told(Other("text"))
    /\ UNCHANGED <<setting, asked, req, verdict, runs, did, resp, via>>

Over ==
    /\ step \in {"told", "over"} \cup (IF asked = Absent THEN {"answered"} ELSE {})
    /\ UNCHANGED vars

Next ==
    \/ \E method \in Methods(setting.service) :
            \/ \E get \in BOOLEAN, messages \in Payloads(method.kind) :
                    Call(method, get, messages)
            \/ \E request \in setting.others : ForeignCall(request, method)
    \/ Dispatch \/ Refuse \/ Serve \/ Misfit
    \/ Replace \/ Cut \/ Repeat \/ Receive \/ Leave \/ Over

Spec == Init /\ [][Next]_vars

----------------------------------------------------------------------------
(* Properties.                                                             *)

(* Types: a call is one of the caller's or a foreign one, and what it has  *)
(* at each step is there from that step on.                                *)
TypeOK ==
    /\ step \in {"idle", "sent", "routed", "answered", "told", "over"}
    /\ via \in {"direct", "cut", "replaced"}
    /\ Len(runs) <= MaxRepeats + 1
    /\ asked # Absent => asked.method \in Methods(setting.service)
    /\ step \in {"sent", "routed", "answered"} =>
            req.http \in {"GET", "POST", "PUT"} /\ req.compression \in Codings
    /\ step = "answered" => resp.status \in 200..599
    /\ step = "told" => result.ok = (result.error = Absent)
    /\ runs # <<>> => did \in [messages : Seq(Messages), trailers : GrpcTrailers,
                               error : ConnectErrors \cup Others \cup {Absent}]

(* A name that two methods of a service share is the last one's, and the   *)
(* printed method of a name the client inherits is found in its place.     *)
Shadowed(method) ==
    \/ Winner(setting.service, LocalName(method)) # method
    \/ ExecuteMethod(method.kind) \in Locals(setting.service)

(* What one side is configured to send, the other is to read.              *)
Compatible ==
    /\ client.codec \in server.codecs
    /\ client.send \in Supported
    /\ ServerFamily = setting.option
    /\ CodecFamily(setting.option, client.argument) = setting.option
    /\ client.protocol = "grpc" => server.trailers
    /\ \A i \in DOMAIN asked.messages : ~TooLarge(asked.messages[i])

(* Of a client and a server that fit each other, whatever they are mounted *)
(* at and speak, a call of a printed method runs that method of the        *)
(* service, on the messages the caller sent, unless the printer gave its   *)
(* name away; and then it never does.                                      *)
CallArrives ==
    (/\ asked # Absent /\ Compatible /\ via # "replaced"
     /\ step \in {"answered", "told", "over"})
        => IF Shadowed(asked.method)
           THEN \A i \in DOMAIN runs : runs[i].method # asked.method
           ELSE /\ runs # <<>>
                /\ \A i \in DOMAIN runs : runs[i].method = asked.method
                                        /\ runs[i].body = asked.messages

(* A request that an intermediary may repeat, as its verb tells, only runs *)
(* methods that are declared to have no side effects, or what is printed   *)
(* in their place; and of such verbs only GET runs anything, never PUT.    *)
SafeToRepeat ==
    \A i \in DOMAIN runs : Len(runs) > 1 \/ req.http # "POST" =>
        /\ req.http = "GET"
        /\ \E method \in Methods(setting.service) :
            /\ method.level = "no_side_effects"
            /\ runs[i].method = Winner(setting.service, LocalName(method))

(* No function of a service meets a message beyond the limit of its        *)
(* server, but in a GET request, whose message no limit is compared with.  *)
LimitKept ==
    \A i \in DOMAIN runs : \A k \in DOMAIN runs[i].body :
        TooLarge(runs[i].body[k]) => req.http = "GET"

(* What the documentation of both applications says of read_max_bytes: the *)
(* limit holds for every request message.                                  *)
ReadLimited ==
    \A i \in DOMAIN runs : \A k \in DOMAIN runs[i].body : ~TooLarge(runs[i].body[k])

Heard == step = "told" /\ via = "direct" /\ runs # <<>>
Fitting(messages) == \A i \in DOMAIN messages : ~ClientTooLarge(messages[i])

(* What a service returned is what its caller gets, through every          *)
(* combination of protocol, codec and compressions, unless a message is    *)
(* beyond the caller's own limit; which is then what the caller is told.   *)
ResultArrives ==
    (Heard /\ did.error = Absent)
        => IF Fitting(did.messages) THEN result = Success(did.messages)
           ELSE ~result.ok /\ result.error.code = "resource_exhausted"

(* What a caller catches of the error of an outcome.  An error without     *)
(* details leaves a grpc-status-details-bin of the service's own trailers  *)
(* standing, which then says all there is; one without a message too       *)
(* leaves a grpc-message.  Otherwise it is the error's own code, message   *)
(* and details, but for a type URL's prefix, which JSON has no place for.  *)
Conveys(told, outcome) ==
    LET error == FromException(outcome.error)
        own == IF Protocol = "connect" THEN NoTrailersOfItsOwn ELSE outcome.trailers
        bare == error.details = <<>>
    IN  IF bare /\ own.details # Absent
        THEN /\ told.code = Get(GrpcCodes, own.details.code, "unknown")
             /\ told.message = own.details.message
             /\ told.details = own.details.details
        ELSE /\ told.code = error.code
             /\ told.message = IF bare /\ error.message = NoText /\ own.message # Absent
                               THEN own.message ELSE error.message
             /\ Len(told.details) = Len(error.details)
             /\ \A i \in DOMAIN error.details :
                    error.details[i].prefix = "usual" \/ Protocol # "connect"
                        => told.details[i] = error.details[i]

(* The caller of a service that raised catches that error, whatever is in  *)
(* it and in the service's own trailers (no more of it is lost than the    *)
(* comment above names), unless a message that was sent before it is       *)
(* beyond the caller's own limit; which is then what the caller is told.   *)
ErrorArrives ==
    (Heard /\ did.error # Absent)
        => /\ ~result.ok
           /\ IF Fitting(did.messages) THEN Conveys(result.error, did)
              ELSE result.error.code = "resource_exhausted"

(* A caller is not told of a success that was none, nor of a reason only   *)
(* the service can have had: a Connect stream that was cut is the one      *)
(* exception, and even that only repeats what the service sent.            *)
NotInvented ==
    step = "told" =>
        /\ result.ok =>
            IF via = "cut" /\ client.protocol = "connect"
            THEN runs # <<>> => IsPrefix(result.messages, did.messages)
            ELSE runs # <<>> /\ did.error = Absent /\ result.messages = did.messages
        /\ (~result.ok /\ result.error.code \in ServicesOwn) =>
            /\ runs # <<>> /\ did.error # Absent
            /\ \/ FromException(did.error).code = result.error.code
               \/ did.trailers.details # Absent
=============================================================================
