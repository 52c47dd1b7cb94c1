------------------------------ MODULE Metadata ------------------------------
(***************************************************************************)
(* What goes round a message: the caller's request headers and timeout on  *)
(* their way to the service, and the service's response headers, trailers  *)
(* and verdict on their way to a ResponseMetadata of the caller.  Calls    *)
(* follow each other; a unary Connect call sends its trailers as headers   *)
(* named trailer-*, a Connect stream in its end message, gRPC as trailers  *)
(* that also hold the status.                                              *)
(*                                                                         *)
(* A name of a response header is a pair of a key and of whether trailer-  *)
(* stands before it.  Options are sequences of at most one value.          *)
(***************************************************************************)
EXTENDS Headers, Timeouts

CONSTANTS
    Keys,       \* names with no meaning to the protocols
    Values,     \* what callers and services write
    Timeouts,   \* what callers ask for
    Defaults,   \* what a client's own timeout_ms may be, options
    MaxEdits,   \* bound: changes callers and services make in all
    MaxUses     \* bound: calls made under one ResponseMetadata

ASSUME KeysAssumption == Keys \cap {"agent", "encoding", "fixed", "status"} = {}
ASSUME TimeoutsAssumption ==
    Timeouts \subseteq Int /\ \A d \in Defaults : d \in Seq(Int) /\ Len(d) <= 1

VARIABLES
    user,      \* the caller's Headers, used for every call
    inside,    \* BOOLEAN: a ResponseMetadata is current
    uses,      \* calls made under it
    seen,      \* its headers and trailers
    phase,     \* how far the call is
    call,      \* its protocol, application, compression and timeout
    request,   \* the headers and the timeout on the wire
    served,    \* the request headers of the service
    deadline,  \* its timeout_ms
    headers,   \* its response_headers
    trailers,  \* its response_trailers
    outcome,   \* how it ended: "none", "ok", "error", "refused" unheard
    wire,      \* the headers of the response
    heard,     \* BOOLEAN: the client has handled them
    end,       \* the trailers of the response
    verdict,   \* what the caller is told
    edits

caller   == <<user, inside, uses, seen>>
asked    == <<call, request>>
service  == <<served, deadline, headers, trailers, outcome>>
response == <<wire, end>>

vars == <<caller, phase, asked, service, response, heard, verdict, edits>>

RequestNames  == Keys \cup {"agent", "encoding", "fixed"}
ResponseKeys  == Keys \cup {"fixed", "status"}
ResponseNames == ResponseKeys \X BOOLEAN
Words         == Values \cup {"ours", "ok", "error"}

Option(S) == {s \in Seq(S) : Len(s) <= 1}

Calls == [protocol : {"unary", "stream", "grpc"}, app : {"asgi", "wsgi"},
          compress : BOOLEAN, timeout : Option(Int)]

NoCall    == [protocol |-> "unary", app |-> "asgi", compress |-> FALSE, timeout |-> <<>>]
NoRequest == [items |-> NoItems(RequestNames), timeout |-> <<>>]

TypeOK ==
    /\ user \in Table(RequestNames, Words) /\ WellKept(user)
    /\ inside \in BOOLEAN /\ uses \in Nat
    /\ seen \in [headers : Table(ResponseKeys, Words), trailers : Table(ResponseKeys, Words)]
    /\ WellKept(seen.headers) /\ WellKept(seen.trailers)
    /\ phase \in {"idle", "asked", "serving", "opened", "answered", "done"}
    /\ call \in Calls
    /\ request \in [items : Items(RequestNames, Words),
                    timeout : Option([value : Int, unit : {"H", "M", "S", "m", "n", "ms"}])]
    /\ served \in Table(RequestNames, Seq(Words)) /\ WellKept(served)
    /\ deadline \in Option(Int)
    /\ headers \in Table(ResponseNames, Words) /\ WellKept(headers)
    /\ trailers \in Table(ResponseKeys, Words) /\ WellKept(trailers)
    /\ outcome \in {"none", "ok", "error", "refused"}
    /\ wire \in Items(ResponseNames, Words)
    /\ heard \in BOOLEAN
    /\ end \in Items(ResponseKeys, Words)
    /\ verdict \in {"none", "ok", "error"}
    /\ edits \in Nat

NothingSeen == [headers |-> Empty(ResponseKeys), trailers |-> Empty(ResponseKeys)]

Init ==
    /\ user = Empty(RequestNames)
    /\ inside = FALSE /\ uses = 0 /\ seen = NothingSeen
    /\ phase = "idle" /\ edits = 0
    /\ call = NoCall /\ request = NoRequest
    /\ served = Empty(RequestNames) /\ deadline = <<>>
    /\ headers = Empty(ResponseNames) /\ trailers = Empty(ResponseKeys)
    /\ outcome = "none"
    /\ wire = NoItems(ResponseNames) /\ end = NoItems(ResponseKeys)
    /\ heard = FALSE /\ verdict = "none"
-----------------------------------------------------------------------------
(* Slips in the operators that follow.                                      *)
KeepsCoding(h, compress) ==
    IF compress /\ ~Has(h, "encoding") THEN SetItem(h, "encoding", "ours") ELSE h
StatusAdded(outcomeOfIt) == AllItems(Add(FromItems(AllItems(trailers)), "status", outcomeOfIt))

\* timeout_ms=0 is falsy.
TimeoutOf(given, default) == IF given \in {<<>>, <<0>>} THEN default ELSE given

\* The coding of the request is the client's, never the caller's.  The clients
\* here always have one ("identity" by default); a create_request_context that
\* is given none removes the caller's.
Coding(h, compress) ==
    IF compress THEN SetItem(h, "encoding", "ours") ELSE DelItem(h, "encoding")

\* create_request_context: a copy of the caller's headers under the
\* protocol's own.  "fixed" stands for all that are always written.
RequestHeaders(compress) ==
    LET copy  == FromItems(AllItems(user))
        fixed == SetItem(copy, "fixed", "ours")
        agent == IF Has(fixed, "agent") THEN fixed ELSE SetItem(fixed, "agent", "ours")
    IN  Coding(agent, compress)

\* The timeout's header.
TimeoutItem(protocol, timeout) ==
    IF timeout = <<>> THEN <<>>
    ELSE IF protocol = "grpc" THEN <<Serialize(timeout[1])>>
    ELSE <<[value |-> timeout[1], unit |-> "ms"]>>

Accepts(protocol, sent) ==
    IF protocol = "grpc" THEN GrpcAccepts(sent) ELSE ConnectAccepts(sent.value)

TimeoutRead(protocol, sent) == IF protocol = "grpc" THEN Parse(sent) ELSE sent.value

\* _process_headers.  A WSGI server has joined the values of a name.
Each(s) == [i \in DOMAIN s |-> <<s[i]>>]
ProcessHeaders(app, items) ==
    IF app = "asgi" THEN FromItems([n \in RequestNames |-> Each(items[n])])
    ELSE [store |-> [n \in RequestNames |-> IF items[n] = <<>> THEN <<>> ELSE <<items[n]>>],
          extra |-> NoItems(RequestNames)]

\* What the protocol itself writes into a response's headers.
Fixed(k) == IF k = "fixed" THEN <<"ours">> ELSE <<>>

\* The headers of a response.
Sent(withTrailers) ==
    [n \in ResponseNames |->
        IF n[2] THEN GetAll(headers, n) \o (IF withTrailers THEN GetAll(trailers, n[1]) ELSE <<>>)
        ELSE Fixed(n[1]) \o GetAll(headers, n)]

\* GRPCEnvelopeWriter.end.
StatusTrailers(outcomeOfIt) ==
    AllItems(SetItem(FromItems(AllItems(trailers)), "status", outcomeOfIt))

\* The trailers of a response; a unary Connect call has none left to send.
Trailing(outcomeOfIt) ==
    IF call.protocol = "grpc" THEN StatusTrailers(outcomeOfIt)
    ELSE IF call.protocol = "stream" THEN AllItems(trailers)
    ELSE NoItems(ResponseKeys)

\* handle_response_headers.
Received(prefixed) == FromItems([k \in ResponseKeys |-> wire[<<k, prefixed>>]])
Some(h)            == \E k \in ResponseKeys : Has(h, k)
HandleHeaders ==
    [headers  |-> IF Some(Received(FALSE)) THEN Received(FALSE) ELSE seen.headers,
     trailers |-> IF Some(Received(TRUE)) THEN Received(TRUE) ELSE seen.trailers]

\* What the response says of the call.
Told == IF outcome = "refused" THEN "error"
        ELSE IF call.protocol = "grpc" THEN IF end["status"][1] = "ok" THEN "ok" ELSE "error"
        ELSE outcome
-----------------------------------------------------------------------------
\* A change of a Headers: h[n] = v, h.add(n, v) or del h[n].
Changed(h, names) ==
    {SetItem(h, n, v) : n \in names, v \in Values}
        \cup {Add(h, n, v) : n \in names, v \in Values}
        \cup {DelItem(h, n) : n \in {m \in names : Has(h, m)}}

Edit == edits < MaxEdits /\ edits' = edits + 1

CallerEdits ==
    /\ phase = "idle" /\ Edit
    /\ user' \in Changed(user, RequestNames)
    /\ UNCHANGED <<inside, uses, seen, phase, asked, service, response, heard, verdict>>

Enter ==
    /\ phase = "idle" /\ ~inside
    /\ inside' = TRUE /\ uses' = 0 /\ seen' = NothingSeen
    /\ UNCHANGED <<user, phase, asked, service, response, heard, verdict, edits>>

Exit ==
    /\ inside
    /\ inside' = FALSE
    /\ UNCHANGED <<user, uses, seen, phase, asked, service, response, heard, verdict, edits>>

Call ==
    /\ phase = "idle"
    /\ IF inside THEN uses < MaxUses /\ uses' = uses + 1 ELSE UNCHANGED uses
    /\ \E p \in {"unary", "stream", "grpc"}, a \in {"asgi", "wsgi"}, c \in BOOLEAN,
          given \in {<<>>} \cup {<<t>> : t \in Timeouts}, default \in Defaults :
           /\ call' = [protocol |-> p, app |-> a, compress |-> c,
                       timeout |-> TimeoutOf(given, default)]
           /\ request' = [items |-> AllItems(RequestHeaders(c)),
                          timeout |-> TimeoutItem(p, TimeoutOf(given, default))]
    /\ phase' = "asked"
    /\ UNCHANGED <<user, inside, seen, service, response, heard, verdict, edits>>

Serve ==
    /\ phase = "asked"
    /\ request.timeout # <<>> => Accepts(call.protocol, request.timeout[1])
    /\ served' = ProcessHeaders(call.app, request.items)
    /\ deadline' = IF request.timeout = <<>> THEN <<>>
                   ELSE <<TimeoutRead(call.protocol, request.timeout[1])>>
    /\ phase' = "serving"
    /\ UNCHANGED <<caller, asked, headers, trailers, outcome, response, heard, verdict, edits>>

\* The timeout cannot be read: an error response without a context.
Refuse ==
    /\ phase = "asked"
    /\ request.timeout # <<>> /\ ~Accepts(call.protocol, request.timeout[1])
    /\ outcome' = "refused"
    /\ wire' = Sent(FALSE)
    /\ phase' = "answered"
    /\ UNCHANGED <<caller, asked, served, deadline, headers, trailers, end, heard, verdict, edits>>

\* The service writes; response headers only until they are sent.
SetHeaders ==
    /\ phase = "serving" /\ Edit
    /\ headers' \in Changed(headers, ResponseNames)
    /\ UNCHANGED <<caller, phase, asked, served, deadline, trailers, outcome, response,
                   heard, verdict>>

SetTrailers ==
    /\ phase \in {"serving", "opened"} /\ Edit
    /\ trailers' \in Changed(trailers, ResponseKeys)
    /\ UNCHANGED <<caller, phase, asked, served, deadline, headers, outcome, response,
                   heard, verdict>>

\* The first message of a stream.
Open ==
    /\ phase = "serving" /\ call.protocol # "unary"
    /\ wire' = Sent(FALSE)
    /\ phase' = "opened"
    /\ UNCHANGED <<caller, asked, service, end, heard, verdict, edits>>

Respond ==
    /\ phase \in {"serving", "opened"}
    /\ outcome' \in {"ok", "error"}
    /\ wire' = IF phase = "opened" THEN wire ELSE Sent(call.protocol = "unary")
    /\ end' = Trailing(outcome')
    /\ phase' = "answered"
    /\ UNCHANGED <<caller, asked, served, deadline, headers, trailers, heard, verdict, edits>>

Hear ==
    /\ phase \in {"opened", "answered"} /\ ~heard
    /\ heard' = TRUE
    /\ seen' = IF inside THEN HandleHeaders ELSE seen
    /\ UNCHANGED <<user, inside, uses, phase, asked, service, response, verdict, edits>>

HearEnd ==
    /\ phase = "answered" /\ heard
    /\ seen' = IF inside THEN [seen EXCEPT !.trailers = AddAll(@, end)] ELSE seen
    /\ verdict' = Told
    /\ phase' = "done"
    /\ UNCHANGED <<user, inside, uses, asked, service, response, heard, edits>>

\* Nothing of a call outlives it but its request's headers and what was seen.
Again ==
    /\ phase = "done"
    /\ phase' = "idle"
    /\ call' = NoCall /\ request' = NoRequest
    /\ served' = Empty(RequestNames) /\ deadline' = <<>>
    /\ headers' = Empty(ResponseNames) /\ trailers' = Empty(ResponseKeys)
    /\ outcome' = "none"
    /\ wire' = NoItems(ResponseNames) /\ end' = NoItems(ResponseKeys)
    /\ heard' = FALSE /\ verdict' = "none"
    /\ UNCHANGED <<caller, edits>>

Next ==
    \/ CallerEdits \/ Enter \/ Exit \/ Call
    \/ Serve \/ Refuse \/ SetHeaders \/ SetTrailers \/ Open \/ Respond
    \/ Hear \/ HearEnd \/ Again

Spec == Init /\ [][Next]_vars
-----------------------------------------------------------------------------
\* The service reads what the caller wrote: every value of every name, in
\* order (joined, under WSGI); but the protocol's own names hold the
\* protocol's values and no other, whatever the caller put there
\* (_protocol_connect.py:192-219, _protocol_grpc.py:208-228).
Arrived(n, values) ==
    GetAll(served, n) = IF call.app = "asgi" THEN Each(values)
                        ELSE IF values = <<>> THEN <<>> ELSE <<values>>

RequestArrives ==
    phase \in {"serving", "opened"} =>
        /\ \A k \in Keys : Arrived(k, GetAll(user, k))
        /\ Arrived("agent", IF Has(user, "agent") THEN GetAll(user, "agent") ELSE <<"ours">>)
        /\ Arrived("encoding", IF call.compress THEN <<"ours">> ELSE <<>>)
        /\ Arrived("fixed", <<"ours">>)

\* Over Connect the service is given the time the caller waits.  Over gRPC it
\* is given some of it, and loses less than one of each unit in which eight
\* digits are enough: none at all if milliseconds are such a unit.  A call is
\* refused only for a timeout the header has no room for
\* (_protocol_grpc.py:124-141, 402-421, _protocol_connect.py:98-114).
DeadlineArrives ==
    /\ phase \in {"serving", "opened"} =>
        /\ deadline = <<>> <=> call.timeout = <<>>
        /\ call.timeout # <<>> /\ call.timeout[1] > 0 =>
            IF call.protocol # "grpc" THEN deadline[1] = call.timeout[1]
            ELSE /\ 0 < deadline[1] /\ deadline[1] <= call.timeout[1]
                 /\ \A unit \in {"m", "S", "M", "H"} :
                        call.timeout[1] < TooLong * Size(unit)
                            => call.timeout[1] - deadline[1] < Size(unit)
    /\ outcome = "refused" =>
        /\ call.timeout # <<>>
        /\ IF call.protocol = "grpc" THEN call.timeout[1] >= TooLong * Hour
           ELSE call.timeout[1] > MaxConnect

\* The caller learns how the service ended, whatever it wrote into its
\* metadata, and reads each of its headers and trailers with all their values
\* in order; those of the calls made before under the same ResponseMetadata
\* may stand in front of the trailers (_response_metadata.py:19-54).
IsSuffix(s, t) == Len(s) <= Len(t) /\ SubSeq(t, Len(t) - Len(s) + 1, Len(t)) = s

Trailed(k) == GetAll(headers, <<k, TRUE>>) \o GetAll(trailers, k)

ResponseArrives ==
    phase = "done" /\ outcome # "refused" =>
        /\ verdict = outcome
        /\ inside =>
            \A k \in ResponseKeys \ {"status"} :
                /\ GetAll(seen.headers, k) = Fixed(k) \o GetAll(headers, <<k, FALSE>>)
                /\ IF uses = 1 THEN GetAll(seen.trailers, k) = Trailed(k)
                   ELSE IsSuffix(Trailed(k), GetAll(seen.trailers, k))
=============================================================================
