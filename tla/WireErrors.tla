----------------------------- MODULE WireErrors -----------------------------
(***************************************************************************)
(* What becomes of an exception on its way from a service to a caller: the *)
(* tables between codes, HTTP statuses and gRPC statuses, and the forms an *)
(* error takes in a body, an end message or trailers.                      *)
(*                                                                         *)
(* An exception is a ConnectError (a code, a message, details) or another, *)
(* which has a message only.  A detail is a protobuf Any: its type URL is  *)
(* the usual prefix, or another one, and a name.  A message is empty or    *)
(* not; Absent is what a missing member or header reads as.                *)
(***************************************************************************)
EXTENDS Naturals, Sequences, TLC

CONSTANTS Absent,
          Texts         \* what is written: messages, names and codes

HttpStatusToError ==
    [s \in {400, 401, 403, 404, 429, 502, 503, 504} |->
        IF s = 400 THEN "internal" ELSE IF s = 401 THEN "unauthenticated"
        ELSE IF s = 403 THEN "permission_denied" ELSE IF s = 404 THEN "unimplemented"
        ELSE "unavailable"]

(* A table looked up with a default. *)
Get(table, key, default) == IF key \in DOMAIN table THEN table[key] ELSE default

(* Position in this list is the gRPC status. *)
GrpcCodes ==
    <<"canceled", "unknown", "invalid_argument", "deadline_exceeded", "not_found",
      "already_exists", "permission_denied", "resource_exhausted",
      "failed_precondition", "aborted", "out_of_range", "unimplemented", "internal",
      "unavailable", "data_loss", "unauthenticated">>

Codes == {GrpcCodes[n] : n \in DOMAIN GrpcCodes}

StatusOfCode(code) == CHOOSE n \in DOMAIN GrpcCodes : GrpcCodes[n] = code

(* The HTTP statuses, in the same order. *)
HttpStatuses ==
    <<499, 500, 400, 504, 404, 409, 403, 429, 400, 409, 400, 501, 500, 503, 500, 401>>

HttpOfCode(code) == HttpStatuses[StatusOfCode(code)]

NoText == ""

(* The exceptions of services, their JSON, and the errors of callers, in   *)
(* which a detail's name may have kept a prefix.                           *)
Details == [prefix : Texts, name : Texts]
ConnectErrors == [type : {"connect"}, code : Codes, message : Texts, details : Seq(Details)]
Others == [type : {"other"}, message : Texts]
Dicts == [code : Texts \cup {Absent}, message : Texts, details : Seq(Seq(Texts))]
Errors == [type : {"connect"}, code : Codes, message : Texts,
           details : Seq([prefix : Texts, name : Texts \cup Seq(Texts)])]

GrpcDetails == [code : Nat, message : Texts, details : Seq(Details)]
GrpcTrailers == [status : Nat \cup {Absent}, message : Texts \cup {Absent},
                 details : GrpcDetails \cup {Absent}]
ConnectEnds == [error : Dicts \cup {Absent}]

ASSUME TextsAssumption == Codes \cup {NoText, "text", "usual"} \subseteq Texts

(* What stands for a missing value is no value. *)
ASSUME AbsentAssumption ==
    Absent \notin Nat \cup Texts \cup Errors \cup Others \cup Dicts
                 \cup GrpcDetails \cup GrpcTrailers \cup ConnectEnds

ConnectError(code, message, details) ==
    [type |-> "connect", code |-> code, message |-> message, details |-> details]

Other(message) == [type |-> "other", message |-> message]

(* What the library itself raises carries a text and no details. *)
Raised(code) == ConnectError(code, "text", <<>>)

HTTPException(status) == [type |-> "http", status |-> status]

FromException(e) ==
    IF e.type = "connect" THEN e ELSE ConnectError("unknown", e.message, <<>>)

(* In JSON a detail is its type name and its bytes: the usual prefix is    *)
(* taken off, and another one is part of the name.                         *)
ToDict(error) ==
    [code |-> error.code, message |-> error.message,
     details |-> [i \in DOMAIN error.details |->
        IF error.details[i].prefix = "usual" THEN <<error.details[i].name>>
        ELSE <<error.details[i].prefix, error.details[i].name>>]]

Detail(prefix, name) == [prefix |-> prefix, name |-> name]

FromDict(data, status, unexpected) ==
    ConnectError(
        IF data.code \in Codes THEN data.code
        ELSE IF data.code \in {Absent, NoText} THEN Get(HttpStatusToError, status, "unknown")
        ELSE unexpected,
        data.message,
        [i \in DOMAIN data.details |->
            Detail("usual", IF Len(data.details[i]) = 1 THEN data.details[i][1]
                            ELSE data.details[i])])

FromHttpStatus(status) ==
    ConnectError(Get(HttpStatusToError, status, "unknown"), "text", <<>>)

(* A body that is no JSON object says nothing but its status. *)
FromResponse(response) ==
    IF response.json = Absent THEN FromHttpStatus(response.status)
    ELSE FromDict(response.json, response.status, "unavailable")

(* A slip in what follows: the service's own trailers win.                 *)
OwnTrailersLast(trailers, error) ==
    IF error = Absent THEN [trailers EXCEPT !.status = 0]
    ELSE [trailers EXCEPT !.status = StatusOfCode(error.code),
                          !.message = IF @ = Absent THEN error.message ELSE @]

(* The trailers of a gRPC call: the service's own, overwritten by those of *)
(* its error that there is something to write in.                          *)
GrpcEnd(trailers, error) ==
    IF error = Absent THEN [trailers EXCEPT !.status = 0]
    ELSE [status |-> StatusOfCode(error.code),
          message |-> IF error.message = NoText THEN trailers.message ELSE error.message,
          details |-> IF error.details = <<>> THEN trailers.details
                      ELSE [code |-> StatusOfCode(error.code),
                            message |-> error.message, details |-> error.details]]

(* What a client makes of trailers with a status that is not zero. *)
GrpcError(trailers) ==
    IF trailers.details # Absent
    THEN ConnectError(Get(GrpcCodes, trailers.details.code, "unknown"),
                      trailers.details.message, trailers.details.details)
    ELSE ConnectError(Get(GrpcCodes, trailers.status, "unknown"),
                      IF trailers.message = Absent THEN NoText ELSE trailers.message, <<>>)
=============================================================================
