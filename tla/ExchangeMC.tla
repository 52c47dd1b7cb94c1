---------------------------- MODULE ExchangeMC ----------------------------
(***************************************************************************)
(* Calls between the two flavors of applications and clients, over the     *)
(* three protocols, each way a configuration can differ from the default,  *)
(* a service without and a service with clashing names.                    *)
(***************************************************************************)
EXTENDS Exchange

Word(w) == [words |-> <<w>>, case |-> "pascal"]
Method(name, kind, level) == [name |-> name, kind |-> kind, level |-> level, input |-> "M"]

MCKeywords == {<<"import">>}
MCTexts == STRING

Plain4 == [type |-> "s.Plain", methods |-> <<
    Method(Word("import"), "unary", "no_side_effects"),
    Method(Word("put"), "unary", "idempotent"),
    Method(Word("collect"), "client_streaming", "unknown"),
    Method(Word("list"), "server_streaming", "no_side_effects"),
    Method(Word("chat"), "bidi_streaming", "unknown")>>]

Narrow == [Plain4 EXCEPT !.methods = SubSeq(@, 2, 4)]

(* GetItem and get_item, of one kind and of two; ExecuteUnary and Close.   *)
Pair(case) == [words |-> <<"get", "item">>, case |-> case]

Clash == [type |-> "s.Clash", methods |-> <<
    Method(Pair("pascal"), "server_streaming", "unknown"),
    Method(Pair("snake"), "server_streaming", "unknown"),
    Method(Word("put"), "unary", "unknown"),
    Method([words |-> <<"execute", "unary">>, case |-> "pascal"], "unary", "unknown"),
    Method(Word("close"), "bidi_streaming", "unknown")>>]

Kinds2 == [type |-> "s.Kinds", methods |-> <<
    Method(Pair("pascal"), "unary", "unknown"),
    Method(Pair("snake"), "server_streaming", "unknown")>>]

(* A method without side effects, and one with, under one name.            *)
Effects == [type |-> "s.Effects", methods |-> <<
    Method(Pair("pascal"), "unary", "no_side_effects"),
    Method(Pair("snake"), "unary", "unknown")>>]

Server == [mount |-> "root", argument |-> "unset", codecs |-> {"proto", "json"},
           compressions |-> Absent, limit |-> FALSE, trailers |-> TRUE]
Servers == {Server, [Server EXCEPT !.mount = "service"], [Server EXCEPT !.mount = "prefix"],
            [Server EXCEPT !.argument = "none"], [Server EXCEPT !.codecs = {"json"}],
            [Server EXCEPT !.compressions = <<>>], [Server EXCEPT !.limit = TRUE],
            [Server EXCEPT !.trailers = FALSE]}

Caller == [protocol |-> "connect", codec |-> "proto", argument |-> "unset",
           send |-> "gzip", accept |-> Absent, limit |-> FALSE]
Callers == {Caller, [Caller EXCEPT !.codec = "json", !.argument = "own"],
            [Caller EXCEPT !.argument = "none"], [Caller EXCEPT !.send = "identity"],
            [Caller EXCEPT !.accept = <<>>], [Caller EXCEPT !.limit = TRUE]}

TwoDetails == <<Detail("usual", "D"), Detail("own", "D")>>
EveryError == {ConnectError(c, "text", <<>>) : c \in Codes}
               \cup {ConnectError("aborted", "", <<>>), ConnectError("aborted", "", TwoDetails),
                      ConnectError("not_found", "text", TwoDetails), Other("text"), Other("")}
SomeErrors == {ConnectError("not_found", "text", <<>>), Other("")}

(* Other clients: their method, kind of content, coding and messages.      *)
Sent(http, type, compression, packed, body) ==
    [http |-> http, type |-> type, codec |-> "proto", compression |-> compression,
     packed |-> packed, accept |-> <<"br", "identity">>, body |-> body]
MCForeign ==
    {Sent("POST", "unary", "identity", FALSE, b) : b \in {<<>>, <<"big">>, <<"bad">>}}
    \cup {Sent("POST", t, "identity", FALSE, b) :
        t \in {"stream", "grpc", "grpcweb"},
        b \in {<<>>, <<"big">>, <<"small", "small">>, <<"small", "bad">>}}
    \cup {Sent("POST", t, "zstd", FALSE, <<"small">>) : t \in {"unary", "stream", "grpc"}}
    \cup {Sent("POST", t, "identity", TRUE, <<"small">>) : t \in {"stream", "grpc"}}
    \cup {Sent("GET", "none", z, z # "identity", b) :
        z \in {"identity", "zstd"}, b \in {<<>>, <<"big">>, <<"bad">>}}
    \cup {Sent("PUT", "unary", "identity", FALSE, <<"small">>),
          Sent("GET", "grpc", "identity", FALSE, <<"small">>)}

Between(service, raises, option, s, c) ==
    {[service |-> service, raises |-> raises, option |-> option, flavor |-> f,
      server |-> s, client |-> [c EXCEPT !.protocol = p],
      others |-> IF p = "connect" /\ c = Caller /\ raises = SomeErrors THEN MCForeign ELSE {}] :
        f \in {"async", "sync"}, p \in {"connect", "grpc", "grpcweb"}}

Brotli == [Server EXCEPT !.compressions = <<"br">>]
MCSettings ==
    Between(Narrow, EveryError, "google", Server, Caller)
    \cup UNION {Between(Plain4, SomeErrors, "google", s, Caller) : s \in Servers}
    \cup UNION {Between(Plain4, SomeErrors, "google", Server, c) : c \in Callers \ {Caller}}
    \cup Between(Plain4, SomeErrors, "py", Brotli,
                 [Caller EXCEPT !.send = "br", !.accept = <<"gzip", "br">>])
    \cup UNION {Between(s, SomeErrors, "google", Server, Caller) : s \in {Clash, Kinds2, Effects}}

OwnDetails == [code |-> 5, message |-> "own", details |-> <<>>]
MCTrailers == {NoTrailersOfItsOwn, [NoTrailersOfItsOwn EXCEPT !.message = "own"],
               [NoTrailersOfItsOwn EXCEPT !.details = OwnDetails]}

MCBodies == {<<>>, <<"small">>, <<"big">>, <<"small", "big">>}

MCIntermediate ==
    {[Plain(s, "html", Absent) EXCEPT !.codec = "none"] : s \in {200, 404, 429, 500, 502}}
    \cup {Plain(503, "json", [code |-> c, message |-> "text", details |-> <<>>]) :
            c \in {Absent, "", "alien", "unauthenticated"}}

=============================================================================
