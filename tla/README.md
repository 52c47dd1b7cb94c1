# TLA+ verification of connect-python

Models, model checking and proofs for the Python implementation of the Connect
protocol in `src/src/connectrpc`: what its servers do around a service, what
its clients do around a call, and what travels between them. `tlc` checks each
`.cfg` here on a small instance; `tlapm` proves the theorems of the `*Proofs`
modules for every value of the constants. `PROJECT.json` lists the runs, the
theorems, the hazards each property is there for, the source lines behind every
definition, and for every property a slip in the code's logic that breaks it.

    tlc -config AsgiStream.cfg AsgiStream.tla      # a run
    tlapm AsgiStreamProofs.tla                     # a module's proofs

## 1. The system

A *service* is a user's class of methods. The library puts it behind an ASGI or
a WSGI application; generated *clients*, asynchronous or not, call it. An RPC is
unary, client-, server- or bidirectionally streaming, and travels as Connect,
gRPC or gRPC-Web. Unary Connect calls are plain HTTP exchanges; all others are
*enveloped*: a body of frames, with the outcome at its end.

| component | source | state it keeps | operations | what is hard |
|---|---|---|---|---|
| ASGI enveloped call | `_server_async.py` `_handle_stream` | `sent_headers`, `error`, the monitor task, the service's generator | negotiate, read the request, call, send headers, bodies and end, watch for a disconnect | two tasks, cancellation at every await, a `finally` that writes to the wire |
| ASGI application, unary calls, lifespan | `_server_async.py` | the table of endpoints, the service's generator | startup, shutdown, dispatch, answer, answer an error | requests before, without and after a lifespan; a second answer after a failed one |
| WSGI application | `_server_sync.py` | the request input, the error, the iterable | dispatch, run up to the first message, iterate, drain | one call, two error handlings, and a server that may stop iterating |
| Envelope reader | `_envelope.py`, readers in `_protocol_connect.py`, `_protocol_grpc.py` | `_buffer`, `_next_message_length` | `feed`, end-message hooks | chunks that cut anywhere, the order of a frame's checks |
| Client calls | `_client_async.py`, `_client_sync.py`, `_client_shared.py`, `_asyncio_timeout.py` | a timer, the HTTP stream, the reader, the statuses | send, read, time out, map errors, stop early | a generator inside a timeout; deadline against cancellation; resets |
| Interceptors | `_interceptor_async.py`, `_interceptor_sync.py` | the stack of calls | `on_start`, `on_end`, pass on | errors and early closes through a stack of generators |
| Headers | `_headers.py` | `_store`, `_extra` | set, add, delete, list | two tables that must agree |
| Response metadata | `_response_metadata.py` | a context variable, headers, trailers | enter, handle headers, handle trailers | calls that share one object |
| Timeouts on the wire | `_protocol_grpc.py`, `_protocol_connect.py`, `request.py` | none | serialise, parse | digits, units, rounding |
| Protocol negotiation | `_protocol*.py`, both halves of `_handle_*` and `_send_request_*` | none | pick protocol, codec, compression; validate requests and responses | two sides that are configured apart |
| Errors and status tables | `errors.py`, `code.py`, `_protocol.py`, `_protocol_grpc.py` | none | three forms on the wire, one table for each direction | an error must come back from each form, and none be made up |
| Codecs, compression | `_codec.py`, `_compression.py`, `compression/` | none | choose, offer, refuse | lists with defaults, on each side |
| Code generator | `protoc-gen-connectrpc` | none | print a service's classes | names: two methods may be printed under one, or over an inherited one |
| OpenTelemetry | `connectrpc-otel` | the current span of each task's context, a token in each frame | `on_start`, `on_end` | a stream's frame is suspended between the two |
| Conformance programs, example | `conformance`, `example` | | | users of the library |

How they meet: an application calls the service through the interceptors, feeds
the request's chunks to an envelope reader and writes frames and an end; a
client writes a request, feeds the response's chunks to a reader of its own, and
leaves headers and trailers with the current `ResponseMetadata`. Printed code
says which URL, kind, codec and class of message each side starts from. Server
and client share nothing but the wire, and what is between them may answer,
cut or repeat.

## 2. The modules

| module | models | |
|---|---|---|
| `ResponseStream` | what any enveloped response promises its reader | abstract |
| `AsgiStream` | one enveloped call under asyncio; implements `ResponseStream` | |
| `WsgiStream` | one WSGI call; implements `ResponseStream` | |
| `AsgiApp` | an ASGI application: a lifespan call and its requests | |
| `FrameStream` | what a body of frames means, however it is chunked | abstract |
| `EnvelopeReader` | `feed` and the three kinds of reader; implements `FrameStream` | `EnvelopeReaderMC` for TLC |
| `ClientStream` | one call of a client, in three flavours | |
| `Interceptors` | a stack of metadata interceptors around a handler | |
| `Headers` | the class as operators on records | pure |
| `Timeouts` | the two timeout headers as operators on integers | pure |
| `Stubs` | the classes the code generator prints for a service, as tables | pure |
| `WireErrors` | codes, statuses, the forms of an error | pure |
| `Exchange` | one call from a printed client's method to what the caller is told, over `Stubs` and `WireErrors` | `ExchangeMC` for TLC |
| `Telemetry` | the spans of the OpenTelemetry interceptor | `TelemetryMC` for TLC |
| `Metadata` | headers, timeout, trailers and verdict through whole calls, over `Headers` and `Timeouts` | `MetadataMC` for TLC |
| `AsgiStreamProofs`, `WsgiStreamProofs`, `AsgiAppProofs`, `EnvelopeReaderProofs`, `ClientStreamProofs`, `InterceptorsProofs`, `MetadataProofs`, `ExchangeProofs` | the theorems | |

### How state and steps correspond

Concurrency here is cooperative: asyncio changes tasks at an `await` and nowhere
else. So **a step is the code between two awaits**, and a variable (`pc`, `step`,
`life`) names the await a task is suspended at; a cancellation strikes where
the code can be suspended. In the synchronous code a step ends where control
leaves the library, for the service, the HTTP client or the WSGI server.

* `AsgiStream`. `sentHeaders`, `exc`, `mon` and `gen` are the locals of
  `_handle_stream`; `wire` is what the ASGI server was given so far, `verdict`
  what that tells the client. In the `finally`, `exc` is the exception caught
  (`error` in the code, except that a cancellation leaves `error` None). The
  monitor is a task of its own; the server may cancel the handler `MaxCancels`
  times. `CancelAfterDelivery` distinguishes servers on which a cancelled `send`
  may have had its effect, which ASGI does not rule out.
* `WsgiStream`. `pc` runs through `__call__`, the handlers it calls, and the
  iterable they return. `input` is the request not yet read. The WSGI server
  may close the iterable between two chunks.
* `AsgiApp`. `server` is what the ASGI specification says a server does: start,
  serve, stop, and serve anyway when the lifespan call raises. A stream is one
  step here, between its start and its end; `AsgiStream` has the rest.
* `EnvelopeReader`. A body is `off`, its frame boundaries, and `at`, the frame a
  header at some byte describes, at every byte and not only at boundaries: a
  reader that lost its place would read another frame there. `lo` and `hi` bound
  the buffer. `feed` is a generator, so each message is a step.
* `ClientStream`. The consumer runs in the generator's task, inside its timeout.
  `asked` counts cancellations from outside, `timer` is the timeout, and both
  arrive as `pending`, one CancelledError, to be told apart by `__aexit__`
  (`Converted`). `flavor` selects the standard library's timeout, the copy for
  Python 3.10 or the synchronous client, `shape` a unary call or a stream.
* `Interceptors`. Frame *i* is the call of interceptor *i*, the last one the
  handler; a `signal` moves control between neighbours. `orphan` is an inner
  generator that `async for` left suspended when the outer one was closed.
* `Metadata`. A call goes through `Call`, `Serve` or `Refuse`, `Open`, `Respond`,
  `Hear` and `HearEnd`; the caller edits its headers between calls, the service
  its own during one. Names are abstract: `agent` is user-agent, which the
  caller may set; `encoding` the compression header, which the protocol sets or,
  without a compression, removes (this library's clients always pass one); `fixed` all the headers a protocol always writes; `status` grpc-status;
  a trailer- name is a pair. WSGI joins the values of a name before the library
  sees them.
* `Exchange`. A step is one side's work on one message of the wire: `Call` (the
  printed method, down to the request), `Dispatch` or `Refuse` (the application,
  down to the service), `Serve` or `Misfit` (a function of another signature is
  called), `Receive`; `Replace`, `Cut` and `Repeat` are what is in between.
  `ForeignCall` sends requests that no client here writes. `Route` is the code's
  path from the URL to a call or an exception: its early returns are a sequence
  of checks of which the first that applies decides, in the order of the code,
  and the two applications have different ones. A message is small, big (beyond
  a limit) or bad (it does not decode). `setting` holds the service and the
  arguments each side was constructed with.
* `Telemetry`. A frame is one end of a call. `current` is the current span of a
  task's context, `saved` what the token in a frame puts back there. `careful`
  tells programs that end their streams in the order of a stack from others.

## 3. The runs

| run | states | what it shows |
|---|---|---|
| `asgi_stream` | 5 thousand | every kind of call, with two cancellations anywhere, a client that may leave, failing sends and a failing `receive`: the handler implements `ResponseStream`, its end is truthful, nothing is left running, at most one message is sent after a disconnect, and the stream stops after it |
| `asgi_late` | 5 thousand | where a cancelled `send` may have had its effect, a second start event comes only from a cancellation of the send with the headers |
| `envelope` | 62 thousand | every reader on every body, in every chunking: aligned, nothing held back, each frame the fate it calls for |
| `interceptors` | 259 | three interceptors, both flavours: `on_end` calls nest, no error vanishes, and all happen |
| `client` | 115 thousand | every flavour, shape and protocol: successes are complete, deadlines and cancellations are told apart, errors are mapped, nothing is held afterwards |
| `client_deadline` | violation | a deadline that strikes in the consumer's own code is a bare CancelledError |
| `wsgi` | 2 thousand | every kind of call: a truthful end, drained requests behind errors, errors told |
| `asgi_app` | 12 thousand | a lifespan and two requests: no request meets a generator that is not at its yield, one that ran is closed, requests are answered once and truthfully, bugs are raised |
| `metadata` | 5.6 million | headers, deadline, trailers and verdict arrive as they were written, in one call or two under one `ResponseMetadata` |
| `exchange` | 179 thousand | printed clients and others call printed services, in both flavours, over three protocols, each side configured in every way that differs from the default: a call runs the method it names on the messages it was given, limits hold, only a GET of what may be repeated is, and no other verb than POST runs anything; results and errors come back as they were, but for what the service's own gRPC trailers say in an error's place; and nothing is made up of an intermediary's answer or a response that was cut |
| `exchange_limit` | violation | a GET request hands a service a message beyond `read_max_bytes` |
| `telemetry` | 1.7 million | three calls, two of them streams, in three tasks: a task's current span is put back, and the span of a server that finds no other is of its client's trace exactly when there is a span around both |

Type invariants are proved (`TypeCorrect`); only that of `Exchange`, whose values are the
most varied, is a run's too.

### Bounds, and why they are enough

* `MaxCancels = 2`: a cancellation can be swallowed (the `suppress` around the
  monitor) or overtaken by one in the `finally`; a third finds no await the
  second could not have found. The theorems hold for any number.
* Messages are not counted in `AsgiStream`, `ClientStream` and `Interceptors`:
  a service may yield forever, and what matters of a message is whether it is
  *owed* (made, not sent) or *lost*. A client's chunk holds at most
  `MaxBatch = 2` messages, one to be in the middle of; its task is cancelled
  `MaxAsks = 2` times, before and after the deadline.
* `MaxRequests = 2`: a WSGI request with a message read and one not.
* Bodies: all of up to two frames from a set with a frame of each fate, and all
  of three plain frames of length 0 or 1. The reader remembers nothing of a
  frame but a length, so two neighbours show what it could confuse. The limit
  of 3 lies between the sizes the frames have on the wire and inflated.
* Three interceptors: an outermost, an innermost and one that is neither.
* Two requests: each other's neighbours in the application; they share the table.
* `Exchange`: a default server and a default client, and each variation of one
  argument of one of them (mount point, codecs, compressions, limits, trailers,
  default or explicit `None` codecs), all in two flavours and three protocols.
  The conditions of the code each look at one argument of each side, so pairs of
  variations show no more, but for compressions: one setting varies what both
  sides send, accept and support together. The services have a method of each
  kind and idempotency, one with a Python keyword for a name, and clashing names:
  two of one kind, of two kinds, one with side effects and one without, and two
  that hide inherited methods. The proofs hold for every pair of settings.
  Streams carry up to two messages: one to be read, and one that is too many.
  `MaxRepeats = 1`: one repetition is enough to run a method twice.
* `Telemetry`: an outer call and two streams within or beside it, their clients
  and servers in any of three tasks, one of which has a span of its own (a
  framework's). Three frames of one task are an outermost, an innermost and one
  between them. Streams, and tasks without a span, are symmetric.
* `Metadata`: one key, two values (one of them the text of a gRPC status), two
  edits in all (so that a name has two values, is overwritten after an addition
  or deleted), two calls under one `ResponseMetadata`. TLC's integers have 32
  bits, so units are scaled: a header holds numbers below `TooLong = 50` (for
  100000000), a second is 5, a minute 15, an hour 45, and Connect's header holds
  at most 200. The timeouts lie on both sides of each border and beyond the
  last. The proofs hold for all sizes with 1 < second < minute < hour < limit.

### Fairness

* `AsgiStream`: weak fairness of the service's steps, of the handler's loop and
  `finally`, and of the monitor: the event loop runs ready tasks, and a service
  asked for a message does something, though it may yield forever. Nothing is
  assumed of the client or of cancellations. It is what `StopsAfterDisconnect`
  needs.
* `ClientStream`: weak fairness of the task and of its timer; nothing of the
  server, the network, time or the consumer. For `Released`, `DeadlineHolds`.
* `Interceptors`: weak fairness of the frames (`AllEnd`), an orphan's closing by
  the event loop included.
* `WsgiStream`: weak fairness of the application and of the iteration: the server
  iterates or closes (`ErrorsAreTold`).
* `EnvelopeReader`, `AsgiApp`, `Metadata`, `Exchange` and `Telemetry` have safety
  properties only, and no fairness.

`CHECK_DEADLOCK` is on everywhere; states in which a call is over have an
explicit stuttering step (`Over`, `Abandoned`, ...).

## 4. Where the code and its text differ

Two runs end in a counterexample. Each checks a sentence of the repository.

1. `client_deadline`. "Errors surfacing on the client side such as timeouts will
   also be raised as a ConnectError" (`errors.py:81`). The asynchronous generator
   yields inside its timeout, so a deadline can strike while the consumer waits
   for something else.
2. `exchange_limit`. "read_max_bytes: Maximum size of request messages."
   (`_server_sync.py:168`). Bodies and frames are compared with the limit; the
   message of a GET request, which comes in the query, is not, in either
   application.

Others were met while modelling. The models do what the code does, and the
properties say what holds instead:

* "If a server raises a ConnectError, the same exception content will be raised
  on the client as well" (`errors.py:80`). A cancelled handler raises
  `ConnectError(CANCELED)` after its `finally` has closed the response with no
  error: the client sees a success. `TruthfulEnd` excepts it.
* The same sentence, over gRPC: the server writes `grpc-message` only when the
  error has a message, and `grpc-status-details-bin` only when it has details
  (`_protocol_grpc.py:159-181`), and leaves standing what the service itself put
  into trailers of these names. The client reads the service's message for the
  error's, and takes code, message and details from the service's details. Over
  JSON, a detail's type URL comes back under the library's own prefix. `Conveys`
  says, in `ErrorArrives`, exactly what is told in each case.
* "Explicitly close the stream so that any generator finally-blocks run promptly"
  (`_server_async.py:452`). `aclose()` reaches the outermost generator; `async
  for` in an interceptor does not pass it on (the synchronous flavour does, with
  `yield from`). `AllEnd` says that the event loop does, in the end.
* "In HTTP/1, the request body should be drained before returning"
  (`_server_sync.py:657`). Only the error paths drain: `ErrorIsDrained`.
* The OpenTelemetry client names in its request the span that was current before
  it began its own, so the server's span is a sibling of the client's, or of
  another trace when there was none. The assertion of its tests that both have
  one trace (`test_interceptor.py:191`) holds in one process or within a span;
  `TraceJoined` is the condition, for a server that finds no span but,
  in one process, its own client's.
* Two methods whose names differ only in their case are printed under one name,
  and a method named `Close` or `ExecuteUnary` over an inherited one. Nothing
  promises otherwise; `CallArrives` and `SafeToRepeat` except exactly these.

## 5. What is proved

The theorems below are proved by `tlapm` to the last leaf, for every value of
the constants; nothing is taken on trust but the named assumptions.

| theorem | says | by |
|---|---|---|
| `AsgiStreamProofs!TypeCorrect`, `NothingIsLeft` | typing, no task or generator left, any number of cancellations | `Inv` |
| `AsgiStreamProofs!EventsInOrder`, `EndIsTruthful` | order and truth of the events, given `~CancelAfterDelivery` | `Inv` |
| `AsgiStreamProofs!ImplementsResponse` | the handler implements `ResponseStream`, same condition | a step lemma per group of actions |
| `WsgiStreamProofs!TypeCorrect`, `EndIsTruthful`, `ErrorsDrain`, `ImplementsResponse` | the same promises, and draining, for requests of any length | `Inv` |
| `AsgiAppProofs!TypeCorrect`, `ServiceIsThere`, `ServiceIsClosed`, `AnswersAreTrue`, `BugsReachTheServer` | all of the run's properties, for any set of requests | `Inv` |
| `AsgiStreamProofs!AtMostOneLate`, `OnlyCancelsSendTwice` | one message after a disconnect at most; whence a second start event can come, on any ASGI server | `Inv` with `LateInv`, `SentInv` |
| `EnvelopeReaderProofs!TypeCorrect`, `StaysAligned`, `NothingIsHeldBack`, `ReadsFrames`, `FatesAreMet` | all of the run's properties, for any bodies, limits and readers | `Inv`, then one invariant each |
| `ClientStreamProofs!TypeCorrect`, `SuccessIsComplete`, `DeadlineAndCancelDiffer`, `ErrorsAreMapped`, `StreamErrorIsKept`, `NothingIsHeld` | all safety properties of the run, any chunks and cancellations | `Inv` |
| `InterceptorsProofs!TypeCorrect`, `EndsAreNested`, `ErrorsAreReal`, `NothingIsSwallowed` | all safety properties, any number of interceptors | `Inv` |
| `MetadataProofs!CopyKeepsValues` | a copy made from a `Headers`' items holds every value in order | lemmas per method |
| `MetadataProofs!TypeCorrect`, `RequestsArrive`, `DeadlinesArrive`, `ResponsesArrive` | all of the run's properties, any names, values, timeouts, units; a deadline arrives as it is over Connect, and over gRPC loses less than the smallest unit in which it fits the header | `Inv` |
| `ExchangeProofs!LimitHolds`, `RepeatsAreSafe` | no service meets a message beyond the limit, but of a GET; what is repeated, or sent with a verb that is not POST, runs as a GET of a method without side effects or not at all: any services, settings, messages, repetitions | `Inv` |
| `ExchangeProofs!TypeCorrect`, `CallsArrive` | typing; a call of a client and a server that fit runs the method it names, on the messages it was given, unless the printer gave its name away | `CallInv` |
| `ExchangeProofs!ResultsArrive`, `ErrorsArrive`, `NothingInvented` | what the service returned or raised is what the caller is told, and exactly what the service's own gRPC trailers say where the error writes nothing; nothing is told that only the service could have said and did not, whatever an intermediary answers, cuts or repeats | `CallInv` |
| `InterceptorsProofs!SpansAreRestored`, `TracesAreJoined` | the properties of `Telemetry`, any number of calls, streams and tasks; the second for streams that end in any order, and servers that find no other span | `SpanInv` |

The assumptions: `AsgiAssumption`, `WsgiAssumption` and `ClientAssumption` type
the bounds; `LayerAssumption` asks for at least one interceptor;
`StreamAssumption` says a body's boundaries are the sums of its frames' lengths
and five bytes of header each; `UnitsAssumption` orders the units,
`KeysAssumption` keeps the abstract names distinct from user keys and
`TimeoutsAssumption` makes timeouts integers. Of the modules over errors,
`TextsAssumption` says that codes, and the texts the library words, are texts, and
`AbsentAssumption` that what stands for a missing value is no value.
`DeploymentAssumption` types the settings (names of methods differ within a
service; protocols, compressions and mount points are those the constructors
take; a service raises errors whose codes, texts and details are such) and says
that a unary Connect body is one message or none, that no server has a codec of
the name an unknown content type is given, and that callers and services of this
library send messages that decode: only requests of other clients hold bad ones.
`IntermediateAssumption` says that an intermediary that answers for a server does
so in HTML, or as a failure in JSON without one of the codes that are the
service's own; what it takes from the server or sends again is any.
`SpansAssumption` says that the spans of calls, those of tasks and none differ.

Why the invariants are needed, in short:

* `AsgiStream` (`WireInv`, `MonitorInv`, `ServiceInv`, `VerdictInv`). Order of
  events is not inductive alone: the `finally` decides by `sentHeaders` what to
  send, so `WireInv` ties `sentHeaders` and the await to what the server has. It
  fails after a cancelled send that had its effect, hence the condition.
  `MonitorInv` says where the monitor can be alive, `ServiceInv` where a message
  can be owed, and that no exception in flight means the service completed.
  `LateInv` adds that a late message was past the check; `SentInv` is what is left
  of `WireInv` when a cancelled send may have had its effect.
* `WsgiStream` (`WellInv`, `OwedInv`, `ErrorInv`, `SentInv`). The two error
  handlings meet at the start of the response: an error is known only behind a
  drained request, and the verdict exists exactly when the response is closed.
* `AsgiApp` (`LifeInv`, `GenInv`, `UseInv`, `AnswerInv`). That a request finds
  its generator open rests on the table being unset while the generator is not
  started, on a raised lifespan having left no table, and on the server letting
  its requests end before it asks for a shutdown.
* `EnvelopeReader` (`Fixed`, `TypeOK`, `Aligned`). `Aligned` is inductive with
  typing; the boundaries' strict growth gives the rest.
* `ClientStream` (`PlaceInv`, `ClockInv` and the properties themselves).
  `ClockInv` is the argument that a CancelledError nobody asked for is the
  timeout's: pending without an asker implies an expired timer.
* `Interceptors` (`DroppedInv`, `StackInv`, `DepthInv`, `ToldInv`). With nothing
  dropped, the frames outside the one in control are inside their bodies;
  with an orphan, exactly the frames from it inward are.
* `Metadata` (`RequestInv`, `WireInv`, `SeenInv`, `ToldInv`). What is on the wire
  and in the service is a function of what was written; `SeenInv` says that what
  a `ResponseMetadata` holds ends with the values of the current call, and is
  exactly them when the call was its first. Its proof goes through lemmas on
  `Headers`, each method's effect on `GetAll` and on well-keptness.
* `Exchange`, requests (`RequestInv`, `RepeatInv`, and the two properties). The
  work is in `Route`: lemmas say, of each of the four ways to read a unary request and of
  reading frames, which checks a call has passed, and that a GET is answered by
  a method without side effects or not at all. `RepeatInv` says that a second run
  comes of a GET only.

* `Exchange`, calls (`AskInv`, `RunsInv`, `ArrivedInv`, `AnswerInv`, `ToldInv`).
  None of the four properties is inductive: each speaks of a run and of what is
  told several steps later. `AskInv` keeps, until it is answered, that the request
  on its way is the one the printed method wrote, that the verdict on it is
  `Route`'s, so that a repetition is routed alike, and that `Route` is a call when
  it ran. `RunsInv` says what every run was, `ArrivedInv` that there was one.
  `AnswerInv` says where an answer is from: a service's outcome, written by this
  server; a rejection, with no code of the service's own but for a run that was
  first; one of these cut short; or an intermediary's. `ToldInv` is the four
  properties' common reading of what is told. The lemmas under it say that what
  one side writes the other reads: the printed name, the content type, the
  compression that was agreed on, bodies and frames of each kind of call, and
  an error in each of its forms on the wire (a JSON body, the last frame of a
  Connect stream, gRPC trailers with details or without).
* `Telemetry` (`ChainInv`, `HeaderInv`, with `Restored` and `TraceJoined`).
  `Restored` alone says nothing of what is found after the innermost frame has
  ended. `ChainInv` adds that each open frame of a task found the one before it,
  and the first what the task had, and that no frame is open twice. `HeaderInv`
  says that a request names what its client found, and that a client's trace is
  of it; a client is begun before its server, and never again. `TraceJoined` needs
  nothing of the order in which streams end.

**Only model-checked**: liveness (`StopsAfterDisconnect`, `AllEnd`, `Released`,
`DeadlineHolds`, `ErrorsAreTold`), which `tlapm` has no backend for under
fairness; and the two violations. Every invariant, refinement and action
property that a passing run checks is a theorem.

## 6. What is not modelled, and why

* Codecs, compression and protobuf are calls into libraries: a message decodes or
  does not, a frame inflates or does not.
* Texts the library words itself are one text; a property about one is none.
* `Headers`: the order among names, `clear`, and views of `allitems()` that are
  read after a later change: a view taken while no name has two values never
  shows a second one, and one taken before a `clear` may show further values of
  before. The library reads every view at once.
* `ResponseMetadata`: two nested, one entered twice, one entered or left while a
  stream of an earlier one is being read.
* Timeouts: units u and n, malformed headers and negative values with more than
  ten characters, which a client of this repository does not write or writes
  only for a timeout that has passed already; headers of timeouts written by
  hand. The floats of the units are taken as exact.
* A second lifespan, or a second startup within one; ASGI servers that send
  events the specification does not know.
* Of a content type, a codec name and the kind of call; of a GET's query, what the
  headers of a POST say. The Connect protocol version, which every client here
  writes as the servers want it, is left out.
* What was configured by hand against the printed code: a service written with
  another signature than its base class.
* OpenTelemetry's attributes, metrics and the instrumentor that installs the
  interceptor; the code generator's imports, comments and layout. The
  conformance programs and the example hold none of the library's logic.
* Threads. The WSGI application keeps no state across calls, and the synchronous
  client gives each call its own.

## 7. The plan

Done, in this order: the abstract response, the ASGI call and its refinement; the
reader and its refinement; interceptors; the client; the WSGI call; the ASGI
application; headers, timeouts and metadata; printed code, errors and both sides
of a call put together; spans; the proofs of `OneLate`, `TwiceOnlyByCancel`; of the
five properties of `Exchange` and of the two of `Telemetry`.

Next:

1. `ResponseMetadata` nested and reused, and under concurrent tasks, each with a
   copy of the context.
2. An abstract specification of one call, a method that runs at most once per
   request and a caller that is told its outcome or that it failed, which
   `Exchange` implements: its theorems are most of the step simulation.
