--------------------------- MODULE ExchangeProofs ---------------------------
(***************************************************************************)
(* Any services, any clients and servers, any messages of other clients.   *)
(***************************************************************************)
EXTENDS Exchange, SequenceTheorems, WellFoundedInduction, TLAPS

(* The forms of an error.                                                  *)

LEMMA ImageSeq ==
    ASSUME NEW S, NEW s \in Seq(S), NEW T, NEW f,
           DOMAIN f = DOMAIN s, f = [i \in DOMAIN f |-> f[i]],
           \A i \in 1..Len(s) : f[i] \in T
    PROVE  f \in Seq(T) /\ Len(f) = Len(s)
<1>1. Len(s) \in Nat /\ DOMAIN s = 1..Len(s)
  OBVIOUS
<1>2. f \in [1..Len(s) -> T]
  BY <1>1
<1>3. f \in Seq(T)
  BY <1>1, <1>2, SeqDef
<1> QED  BY <1>1, <1>3

LEMMA TextsFact ==
    NoText \in Texts /\ "text" \in Texts /\ "usual" \in Texts
  BY TextsAssumption DEF TextsAssumption

LEMMA CodeFact ==
    ASSUME NEW c \in Codes
    PROVE  /\ StatusOfCode(c) \in 1..16 /\ GrpcCodes[StatusOfCode(c)] = c
           /\ HttpOfCode(c) \in 400..599 /\ c \in Texts
<1>1. DOMAIN GrpcCodes = 1..16
  BY DEF GrpcCodes
<1>2. \E n \in DOMAIN GrpcCodes : GrpcCodes[n] = c
  BY DEF Codes
<1>3. StatusOfCode(c) \in DOMAIN GrpcCodes /\ GrpcCodes[StatusOfCode(c)] = c
  BY <1>2 DEF StatusOfCode
<1>4. \A n \in 1..16 : HttpStatuses[n] \in 400..599
  BY DEF HttpStatuses
<1>5. c \in Texts
  BY TextsAssumption DEF TextsAssumption
<1> QED  BY <1>1, <1>3, <1>4, <1>5 DEF HttpOfCode

LEMMA SomeCodes ==
    {"unknown", "invalid_argument", "resource_exhausted", "unimplemented", "internal",
     "unavailable", "unauthenticated", "permission_denied"} \subseteq Codes
<1>1. DOMAIN GrpcCodes = 1..16
  BY DEF GrpcCodes
<1>2. /\ GrpcCodes[2] = "unknown" /\ GrpcCodes[3] = "invalid_argument"
      /\ GrpcCodes[7] = "permission_denied" /\ GrpcCodes[8] = "resource_exhausted"
      /\ GrpcCodes[12] = "unimplemented" /\ GrpcCodes[13] = "internal"
      /\ GrpcCodes[14] = "unavailable" /\ GrpcCodes[16] = "unauthenticated"
  BY DEF GrpcCodes
<1> QED  BY <1>1, <1>2 DEF Codes

LEMMA RaisedFact ==
    ASSUME NEW c \in Codes
    PROVE  /\ Raised(c) \in ConnectErrors /\ Raised(c) \in Errors
           /\ Raised(c) # Absent /\ Raised(c).code = c
<1>1. Raised(c) = [type |-> "connect", code |-> c, message |-> "text", details |-> <<>>]
  BY DEF Raised, ConnectError
<1>2. Raised(c) \in ConnectErrors
  BY <1>1, TextsFact DEF ConnectErrors
<1>3. Raised(c) \in Errors
  BY <1>1, TextsFact DEF Errors
<1> QED  BY <1>1, <1>2, <1>3, AbsentAssumption DEF AbsentAssumption

LEMMA RaisedAbsent ==
    Absent \notin {Raised("internal"), Raised("resource_exhausted"), Other("text")}
<1>1. Other("text") \in Others
  BY TextsAssumption DEF Other, Others, TextsAssumption
<1> QED  BY <1>1, RaisedFact, SomeCodes, AbsentAssumption DEF AbsentAssumption

\* What a client makes of a status, whatever it is.
LEMMA StatusFact ==
    ASSUME NEW s
    PROVE  /\ Get(HttpStatusToError, s, "unknown") \in Codes
           /\ Get(HttpStatusToError, s, "unknown") \notin ServicesOwn
<1>1. Get(HttpStatusToError, s, "unknown") \in
        {"unknown", "internal", "unauthenticated", "permission_denied", "unimplemented",
         "unavailable"}
  BY DEF Get, HttpStatusToError
<1> QED  BY <1>1, SomeCodes DEF ServicesOwn

\* What JSON says of an error, of the library's own or any other.
LEMMA DictFact ==
    ASSUME NEW data \in Dicts, NEW status, NEW unexpected \in Codes
    PROVE  /\ FromDict(data, status, unexpected) \in Errors
           /\ FromDict(data, status, unexpected) # Absent
           /\ \/ FromDict(data, status, unexpected).code = data.code
              \/ FromDict(data, status, unexpected).code = unexpected
              \/ FromDict(data, status, unexpected).code \notin ServicesOwn
<1> DEFINE error == FromDict(data, status, unexpected)
           details == [i \in DOMAIN data.details |->
                         Detail("usual", IF Len(data.details[i]) = 1 THEN data.details[i][1]
                                         ELSE data.details[i])]
           code == IF data.code \in Codes THEN data.code
                   ELSE IF data.code \in {Absent, NoText}
                        THEN Get(HttpStatusToError, status, "unknown")
                   ELSE unexpected
<1>1. error = [type |-> "connect", code |-> code, message |-> data.message,
               details |-> details]
  BY DEF FromDict, ConnectError
<1>2. /\ code \in Codes
      /\ code = data.code \/ code = unexpected \/ code \notin ServicesOwn
  BY StatusFact
<1>3. details \in Seq([prefix : Texts, name : Texts \cup Seq(Texts)])
  <2>1. data.details \in Seq(Seq(Texts))
    BY DEF Dicts
  <2>2. \A i \in 1..Len(data.details) :
            details[i] \in [prefix : Texts, name : Texts \cup Seq(Texts)]
    <3> TAKE i \in 1..Len(data.details)
    <3>1. data.details[i] \in Seq(Texts)
      BY <2>1
    <3>2. Len(data.details[i]) = 1 => data.details[i][1] \in Texts
      BY <3>1
    <3>3. IF Len(data.details[i]) = 1 THEN data.details[i][1] \in Texts
          ELSE data.details[i] \in Seq(Texts)
      BY <3>1, <3>2
    <3> QED  BY <3>3, TextsFact DEF Detail
  <2>3. DOMAIN details = 1..Len(data.details) /\ Len(data.details) \in Nat
    BY <2>1
  <2>4. details = [i \in DOMAIN details |-> details[i]]
    OBVIOUS
  <2> HIDE DEF details
  <2>5. DOMAIN details = DOMAIN data.details
    BY <2>1, <2>3
  <2> QED  BY <2>1, <2>2, <2>4, <2>5, ImageSeq, Zenon
<1>4. data.message \in Texts
  BY DEF Dicts
<1> HIDE DEF code, details
<1>5. error \in Errors
  BY <1>1, <1>2, <1>3, <1>4 DEF Errors
<1> QED  BY <1>1, <1>2, <1>5, AbsentAssumption DEF AbsentAssumption
-----------------------------------------------------------------------------
(* The first of the checks that apply.                                     *)

LEMMA MinFact ==
    ASSUME NEW S \in SUBSET Nat, S # {}
    PROVE  Min(S) \in S /\ \A j \in S : Min(S) <= j
<1>1. PICK x \in S : \A y \in S : <<y, x>> \notin OpToRel(<, Nat)
  BY WFMin, NatLessThanWellFounded, Zenon
<1>2. \A y \in S : ~(y < x)
  BY <1>1, Zenon DEF OpToRel
<1>3. \A y \in S : x <= y
  BY <1>2
<1> QED  BY <1>3 DEF Min

LEMMA FirstOfFact ==
    ASSUME NEW n \in Nat, NEW checks, DOMAIN checks = 1..n, NEW otherwise
    PROVE  \/ /\ FirstOf(checks, otherwise) = otherwise
              /\ \A i \in 1..n : ~checks[i].applies
           \/ \E i \in 1..n : /\ checks[i].applies
                              /\ FirstOf(checks, otherwise) = checks[i].with
<1> DEFINE hits == {i \in DOMAIN checks : checks[i].applies}
<1>1. CASE hits = {}
  BY <1>1 DEF FirstOf
<1>2. CASE hits # {}
  <2>1. Min(hits) \in hits
    <3>1. hits \in SUBSET Nat
      OBVIOUS
    <3> QED  BY <3>1, <1>2, MinFact
  <2>2. FirstOf(checks, otherwise) = checks[Min(hits)].with
    BY <1>2 DEF FirstOf
  <2> QED  BY <2>1, <2>2
<1> QED  BY <1>1, <1>2
-----------------------------------------------------------------------------
(* What a server makes of a request.                                       *)

LEMMA NotACall ==
    /\ \A c : Raised(c).type # "call"
    /\ \A m : Other(m).type # "call"
    /\ \A s : HTTPException(s).type # "call"
  BY DEF Raised, ConnectError, Other, HTTPException

\* A frame within the limit is read, and one beyond it is an error.
LEMMA ReadFrameFact ==
    ASSUME NEW m, NEW e
    PROVE  \/ ReadFrame(m, e) = Absent /\ ~TooLarge(m)
           \/ ReadFrame(m, e) # Absent /\ ReadFrame(m, e).type # "call"
<1> DEFINE checks ==
             <<Check(req.packed /\ StreamCompression = "identity", Raised("internal")),
               Check(TooLarge(m), Raised("resource_exhausted")),
               Check(Undecodable(m, e), Other("text"))>>
<1>1. ReadFrame(m, e) = FirstOf(checks, Absent)
  BY DEF ReadFrame
<1>2. DOMAIN checks = 1..3
  OBVIOUS
<1>3. /\ checks[1].with = Raised("internal")
      /\ checks[2].with = Raised("resource_exhausted")
      /\ checks[2].applies = TooLarge(m)
      /\ checks[3].with = Other("text")
  BY DEF Check
<1> HIDE DEF checks
<1>4. \/ /\ FirstOf(checks, Absent) = Absent
         /\ \A i \in 1..3 : ~checks[i].applies
      \/ \E i \in 1..3 : /\ checks[i].applies
                         /\ FirstOf(checks, Absent) = checks[i].with
  BY <1>2, FirstOfFact
<1>5. CASE FirstOf(checks, Absent) = Absent /\ \A i \in 1..3 : ~checks[i].applies
  BY <1>1, <1>3, <1>5
<1>6. CASE \E i \in 1..3 : FirstOf(checks, Absent) = checks[i].with
  <2>1. PICK i \in 1..3 : FirstOf(checks, Absent) = checks[i].with
    BY <1>6
  <2>2. i = 1 \/ i = 2 \/ i = 3
    OBVIOUS
  <2>3. ReadFrame(m, e) \in {Raised("internal"), Raised("resource_exhausted"), Other("text")}
    BY <1>1, <1>3, <2>1, <2>2
  <2> QED  BY <2>3, NotACall, RaisedAbsent
<1> QED  BY <1>4, <1>5, <1>6

\* The messages in front of the first that cannot be read are within the limit.
LEMMA ReadFramesFact ==
    ASSUME req.body \in Seq(Messages), NEW e
    PROVE  /\ ReadFrames(e).good \in Seq(Messages)
           /\ \A k \in DOMAIN ReadFrames(e).good : ~TooLarge(ReadFrames(e).good[k])
           /\ ReadFrames(e).error = Absent \/ ReadFrames(e).error.type # "call"
<1> DEFINE body == IF req.http = "GET" THEN <<>> ELSE req.body
           bad == {i \in DOMAIN body : ReadFrame(body[i], e) # Absent}
<1>1. body \in Seq(Messages)
  OBVIOUS
<1>2. CASE bad = {}
  <2>1. ReadFrames(e) = [good |-> body, error |-> Absent]
    BY <1>2 DEF ReadFrames
  <2>2. \A k \in DOMAIN body : ReadFrame(body[k], e) = Absent
    BY <1>2
  <2>3. \A k \in DOMAIN body : ~TooLarge(body[k])
    BY <2>2, ReadFrameFact
  <2> QED  BY <1>1, <2>1, <2>3
<1>3. CASE bad # {}
  <2>1. bad \in SUBSET Nat /\ bad \subseteq 1..Len(body)
    BY <1>1
  <2>2. Min(bad) \in bad /\ \A j \in bad : Min(bad) <= j
    BY <1>3, <2>1, MinFact
  <2> DEFINE n == Min(bad)
  <2>3. ReadFrames(e) = [good |-> SubSeq(body, 1, n - 1), error |-> ReadFrame(body[n], e)]
    BY <1>3 DEF ReadFrames
  <2> HIDE DEF bad, body
  <2>4. n \in 1..Len(body) /\ \A k \in 1..(n - 1) : k \notin bad
    <3>1. Len(body) \in Nat
      BY <1>1
    <3>2. n \in bad /\ \A j \in bad : n <= j
      BY <2>2
    <3> HIDE DEF n
    <3>3. n \in 1..Len(body)
      BY <2>1, <3>2
    <3>4. \A k \in 1..(n - 1) : k \notin bad
      BY <3>1, <3>2, <3>3
    <3> QED  BY <3>3, <3>4
  <2>5. \A k \in 1..(n - 1) : ~TooLarge(body[k])
    <3> TAKE k \in 1..(n - 1)
    <3>1. k \in DOMAIN body
      BY <1>1, <2>4
    <3>2. ReadFrame(body[k], e) = Absent
      BY <2>4, <3>1 DEF bad
    <3> QED  BY <3>2, ReadFrameFact
  <2>6. /\ SubSeq(body, 1, n - 1) \in Seq(Messages)
        /\ DOMAIN SubSeq(body, 1, n - 1) = 1..(n - 1)
        /\ \A k \in 1..(n - 1) : SubSeq(body, 1, n - 1)[k] = body[k]
    <3>1. n - 1 \in 0..Len(body) /\ Len(body) \in Nat
      BY <1>1, <2>4
    <3>2. /\ SubSeq(body, 1, n - 1) \in Seq(Messages)
          /\ Len(SubSeq(body, 1, n - 1)) = n - 1
          /\ \A k \in 1..(n - 1) : SubSeq(body, 1, n - 1)[k] = body[k]
      BY <1>1, <3>1
    <3> QED  BY <3>2
  <2>7. ReadFrame(body[n], e).type # "call" \/ ReadFrame(body[n], e) = Absent
    BY ReadFrameFact
  <2> QED  BY <2>3, <2>5, <2>6, <2>7
<1> QED  BY <1>2, <1>3

\* A call is the outcome of checks of which none applied.
LEMMA NoneApplied ==
    ASSUME NEW n \in Nat, NEW checks, DOMAIN checks = 1..n, NEW otherwise,
           \A i \in 1..n : checks[i].with.type # "call" \/ ~checks[i].applies,
           FirstOf(checks, otherwise).type = "call"
    PROVE  FirstOf(checks, otherwise) = otherwise /\ \A i \in 1..n : ~checks[i].applies
<1>1. ~\E i \in 1..n : checks[i].applies /\ FirstOf(checks, otherwise) = checks[i].with
  OBVIOUS
<1> QED  BY <1>1, FirstOfFact

\* What may be given to a service: the messages of the request, within the
\* limit unless they came with a GET.
Within(v, e) ==
    v.type = "call" =>
        /\ v.endpoint = e
        /\ v.body \in Seq(Messages)
        /\ req.http # "GET" => \A k \in DOMAIN v.body : ~TooLarge(v.body[k])

LEMMA CalledFact ==
    ASSUME NEW e, NEW b
    PROVE  Called(e, b) = [type |-> "call", endpoint |-> e, body |-> b]
  BY DEF Called

LEMMA ReadGetFact ==
    ASSUME req.body \in Seq(Messages), req.http = "GET", NEW e
    PROVE  Within(ReadGetAsgi(e), e) /\ Within(ReadGetWsgi(e), e)
<1> DEFINE asgi == <<MissingMessage,
              Check(req.compression \notin Supported, Raised("unimplemented")),
              Check(Undecodable(Message, e), Other("text"))>>
           wsgi == <<MissingMessage,
              Check(req.compression \notin Supported, Raised("unimplemented")),
              Check(req.codec \notin server.codecs, Raised("unimplemented")),
              Check(Undecodable(Message, e), Raised("invalid_argument"))>>
<1>1. /\ DOMAIN asgi = 1..3 /\ DOMAIN wsgi = 1..4
      /\ ReadGetAsgi(e) = FirstOf(asgi, Called(e, req.body))
      /\ ReadGetWsgi(e) = FirstOf(wsgi, Called(e, req.body))
  BY DEF ReadGetAsgi, ReadGetWsgi
<1>2. 3 \in Nat /\ \A i \in 1..3 : asgi[i].with.type # "call" \/ ~asgi[i].applies
  BY NotACall DEF Check, MissingMessage
<1>3. 4 \in Nat /\ \A i \in 1..4 : wsgi[i].with.type # "call" \/ ~wsgi[i].applies
  BY NotACall DEF Check, MissingMessage
<1> HIDE DEF asgi, wsgi
<1>4. ReadGetAsgi(e).type = "call" => ReadGetAsgi(e) = Called(e, req.body)
  BY <1>1, <1>2, NoneApplied, Zenon
<1>5. ReadGetWsgi(e).type = "call" => ReadGetWsgi(e) = Called(e, req.body)
  BY <1>1, <1>3, NoneApplied, Zenon
<1> QED  BY <1>4, <1>5, CalledFact DEF Within

\* The body of a POST is one message, which is compared with the limit.
LEMMA ReadPostFact ==
    ASSUME req.body \in Seq(Messages), Len(req.body) <= 1, NEW e
    PROVE  Within(ReadPostAsgi(e), e) /\ Within(ReadPostWsgi(e), e)
<1> DEFINE asgi == <<Check(req.compression \notin Supported, Raised("unimplemented")),
              Check(TooLarge(Message), Raised("resource_exhausted")),
              Check(Undecodable(Message, e), Other("text"))>>
           wsgi == <<Check(CodecOfContentType(FALSE) \notin server.codecs, HTTPException(415)),
              Check(req.compression \notin Supported, Raised("unimplemented")),
              Check(TooLarge(Message), Raised("resource_exhausted")),
              Check(Undecodable(Message, e), Raised("invalid_argument"))>>
<1>1. /\ DOMAIN asgi = 1..3 /\ DOMAIN wsgi = 1..4
      /\ ReadPostAsgi(e) = FirstOf(asgi, Called(e, req.body))
      /\ ReadPostWsgi(e) = FirstOf(wsgi, Called(e, req.body))
  BY DEF ReadPostAsgi, ReadPostWsgi
<1>2. /\ 3 \in Nat /\ 2 \in 1..3
      /\ \A i \in 1..3 : asgi[i].with.type # "call" \/ ~asgi[i].applies
  BY NotACall DEF Check
<1>3. /\ 4 \in Nat /\ 3 \in 1..4
      /\ \A i \in 1..4 : wsgi[i].with.type # "call" \/ ~wsgi[i].applies
  BY NotACall DEF Check
<1>limit. /\ TooLarge(Message) => asgi[2].applies
          /\ TooLarge(Message) => wsgi[3].applies
  BY DEF Check
<1> HIDE DEF asgi, wsgi
<1>4. ReadPostAsgi(e).type = "call" =>
            ReadPostAsgi(e) = Called(e, req.body) /\ ~TooLarge(Message)
  <2> SUFFICES ASSUME ReadPostAsgi(e).type = "call"
               PROVE  ReadPostAsgi(e) = Called(e, req.body) /\ ~asgi[2].applies
    BY <1>limit
  <2>1. FirstOf(asgi, Called(e, req.body)).type = "call"
    BY <1>1
  <2>2. /\ FirstOf(asgi, Called(e, req.body)) = Called(e, req.body)
        /\ \A i \in 1..3 : ~asgi[i].applies
    BY <1>1, <1>2, <2>1, NoneApplied, Zenon
  <2> QED  BY <1>1, <1>2, <2>2
<1>5. ReadPostWsgi(e).type = "call" =>
            ReadPostWsgi(e) = Called(e, req.body) /\ ~TooLarge(Message)
  <2> SUFFICES ASSUME ReadPostWsgi(e).type = "call"
               PROVE  ReadPostWsgi(e) = Called(e, req.body) /\ ~wsgi[3].applies
    BY <1>limit
  <2>1. FirstOf(wsgi, Called(e, req.body)).type = "call"
    BY <1>1
  <2>2. /\ FirstOf(wsgi, Called(e, req.body)) = Called(e, req.body)
        /\ \A i \in 1..4 : ~wsgi[i].applies
    BY <1>1, <1>3, <2>1, NoneApplied, Zenon
  <2> QED  BY <1>1, <1>3, <2>2
<1>6. ~TooLarge(Message) => \A k \in DOMAIN req.body : ~TooLarge(req.body[k])
  <2> SUFFICES ASSUME NEW k \in DOMAIN req.body  PROVE req.body[k] = Message
    OBVIOUS
  <2>1. k = 1 /\ req.body # <<>>
    OBVIOUS
  <2> QED  BY <2>1 DEF Message
<1> QED  BY <1>4, <1>5, <1>6, CalledFact DEF Within

LEMMA ReadStreamFact ==
    ASSUME req.body \in Seq(Messages), NEW e
    PROVE  Within(ReadStream(e), e)
<1> DEFINE read == ReadFrames(e)
           called == Called(e, read.good)
           checks == <<Check(Len(read.good) > 1, Raised("unimplemented")),
                       Check(read.error # Absent, read.error),
                       Check(read.good = <<>>, Raised("unimplemented"))>>
<1>1. \/ ReadStream(e) = Raised("unimplemented")
      \/ ReadStream(e) = called
      \/ ReadStream(e) = Single(read, called)
  BY DEF ReadStream
<1>2. Within(called, e)
  BY ReadFramesFact, CalledFact DEF Within
<1>3. Single(read, called).type = "call" => Single(read, called) = called
  <2>1. Single(read, called) = FirstOf(checks, called) /\ DOMAIN checks = 1..3
    BY DEF Single
  <2>2. read.error = Absent \/ read.error.type # "call"
    BY ReadFramesFact
  <2> HIDE DEF read, called
  <2>3. 3 \in Nat /\ \A i \in 1..3 : checks[i].with.type # "call" \/ ~checks[i].applies
    <3>1. checks[1].with.type # "call" /\ checks[3].with.type # "call"
      BY NotACall DEF Check
    <3>2. checks[2].with = read.error /\ (checks[2].applies => read.error # Absent)
      BY DEF Check
    <3> HIDE DEF checks
    <3> QED  BY <2>2, <3>1, <3>2
  <2> HIDE DEF checks
  <2> QED  BY <2>1, <2>3, NoneApplied, Zenon
<1>4. Within(Raised("unimplemented"), e)
  BY NotACall DEF Within
<1> HIDE DEF called, read
<1> QED  BY <1>1, <1>2, <1>3, <1>4 DEF Within

LEMMA ForeignContentType ==
    ASSUME CodecOfContentType(FALSE) \notin server.codecs, NEW e
    PROVE  ReadPostWsgi(e).type # "call"
<1> DEFINE wsgi == <<Check(CodecOfContentType(FALSE) \notin server.codecs, HTTPException(415)),
              Check(req.compression \notin Supported, Raised("unimplemented")),
              Check(TooLarge(Message), Raised("resource_exhausted")),
              Check(Undecodable(Message, e), Raised("invalid_argument"))>>
<1>1. DOMAIN wsgi = 1..4 /\ ReadPostWsgi(e) = FirstOf(wsgi, Called(e, req.body))
  BY DEF ReadPostWsgi
<1>2. /\ 4 \in Nat /\ 1 \in 1..4
      /\ \A i \in 1..4 : wsgi[i].with.type # "call" \/ ~wsgi[i].applies
  BY NotACall DEF Check
<1>3. wsgi[1].applies
  BY DEF Check
<1> HIDE DEF wsgi
<1> SUFFICES ASSUME FirstOf(wsgi, Called(e, req.body)).type = "call"  PROVE FALSE
  BY <1>1
<1>4. \A i \in 1..4 : ~wsgi[i].applies
  BY <1>1, <1>2, NoneApplied, Zenon
<1> QED  BY <1>2, <1>3, <1>4

WellFormed(r) ==
    /\ r.body \in Seq(Messages)
    /\ r.type \in {"unary", "none"} => Len(r.body) <= 1

LEMMA UnaryBody ==
    ASSUME setting \in Settings, WellFormed(req), Protocol = "connect",
           CodecOfContentType(FALSE) \in server.codecs
    PROVE  Len(req.body) <= 1
<1>1. "unknown" \notin server.codecs
  BY DeploymentAssumption DEF DeploymentAssumption, server
<1>2. req.type = "unary"
  BY <1>1 DEF CodecOfContentType
<1> QED  BY <1>2 DEF WellFormed

LEMMA HandleAsgiFact ==
    ASSUME setting \in Settings, WellFormed(req), NEW e, HandleAsgi(e).type = "call"
    PROVE  Within(HandleAsgi(e), e) /\ ~MethodNotAllowed(e)
<1> DEFINE codec == IF req.http = "GET" THEN req.codec ELSE CodecOfContentType(e.type # "unary")
           checks == <<Check(NoTrailers, Other("text")),
                       Check(MethodNotAllowed(e), HTTPException(405)),
                       Check(codec \notin server.codecs, HTTPException(415))>>
           read == IF ~UnaryConnect(e) THEN ReadStream(e)
                   ELSE IF req.http = "GET" THEN ReadGetAsgi(e) ELSE ReadPostAsgi(e)
<1>1. DOMAIN checks = 1..3 /\ HandleAsgi(e) = FirstOf(checks, read)
  BY DEF HandleAsgi
<1>2. /\ 3 \in Nat /\ 2 \in 1..3 /\ 3 \in 1..3
      /\ \A i \in 1..3 : checks[i].with.type # "call" \/ ~checks[i].applies
  BY NotACall DEF Check
<1>3. /\ MethodNotAllowed(e) => checks[2].applies
      /\ codec \notin server.codecs => checks[3].applies
  BY DEF Check
<1> HIDE DEF checks
<1>4. FirstOf(checks, read) = read /\ \A i \in 1..3 : ~checks[i].applies
  <2> HIDE DEF read
  <2>1. FirstOf(checks, read).type = "call"
    BY <1>1
  <2> QED  BY <1>1, <1>2, <2>1, NoneApplied, Zenon
<1>5. codec \in server.codecs /\ ~MethodNotAllowed(e) /\ HandleAsgi(e) = read
  <2> HIDE DEF codec, read
  <2> QED  BY <1>1, <1>2, <1>3, <1>4
<1>6. req.body \in Seq(Messages)
  BY DEF WellFormed
<1>7. CASE ~UnaryConnect(e)
  BY <1>5, <1>6, <1>7, ReadStreamFact
<1>8. CASE UnaryConnect(e) /\ req.http = "GET"
  BY <1>5, <1>6, <1>8, ReadGetFact
<1>9. CASE UnaryConnect(e) /\ req.http # "GET"
  <2>1. codec = CodecOfContentType(FALSE) /\ Protocol = "connect"
    <3>1. e.type = "unary" /\ Protocol = "connect"
      BY <1>9 DEF UnaryConnect
    <3>2. (e.type # "unary") = FALSE
      BY <3>1
    <3> QED  BY <1>9, <3>1, <3>2
  <2>2. Len(req.body) <= 1
    BY <1>5, <2>1, UnaryBody
  <2> QED  BY <1>5, <1>6, <1>9, <2>2, ReadPostFact
<1> QED  BY <1>7, <1>8, <1>9

LEMMA HandleWsgiFact ==
    ASSUME setting \in Settings, WellFormed(req), NEW e, HandleWsgi(e).type = "call"
    PROVE  Within(HandleWsgi(e), e) /\ ~MethodNotAllowed(e)
<1> DEFINE checks == <<Check(NoTrailers, Other("text")),
                       Check(MethodNotAllowed(e), HTTPException(405)),
                       Check(~UnaryConnect(e) /\ CodecOfContentType(TRUE) \notin server.codecs,
                             HTTPException(415))>>
           read == IF ~UnaryConnect(e) THEN ReadStream(e)
                   ELSE IF req.http = "GET" THEN ReadGetWsgi(e) ELSE ReadPostWsgi(e)
<1>1. DOMAIN checks = 1..3 /\ HandleWsgi(e) = FirstOf(checks, read)
  BY DEF HandleWsgi
<1>2. /\ 3 \in Nat /\ 2 \in 1..3
      /\ \A i \in 1..3 : checks[i].with.type # "call" \/ ~checks[i].applies
  BY NotACall DEF Check
<1>3. MethodNotAllowed(e) => checks[2].applies
  BY DEF Check
<1> HIDE DEF checks
<1>4. FirstOf(checks, read) = read /\ \A i \in 1..3 : ~checks[i].applies
  <2> HIDE DEF read
  <2>1. FirstOf(checks, read).type = "call"
    BY <1>1
  <2> QED  BY <1>1, <1>2, <2>1, NoneApplied, Zenon
<1>5. ~MethodNotAllowed(e) /\ HandleWsgi(e) = read
  <2> HIDE DEF read
  <2> QED  BY <1>1, <1>2, <1>3, <1>4
<1>6. req.body \in Seq(Messages)
  BY DEF WellFormed
<1>7. CASE ~UnaryConnect(e)
  BY <1>5, <1>6, <1>7, ReadStreamFact
<1>8. CASE UnaryConnect(e) /\ req.http = "GET"
  BY <1>5, <1>6, <1>8, ReadGetFact
<1>9. CASE UnaryConnect(e) /\ req.http # "GET"
  <2>1. HandleWsgi(e) = ReadPostWsgi(e) /\ Protocol = "connect"
    BY <1>5, <1>9 DEF UnaryConnect
  <2>2. CodecOfContentType(FALSE) \in server.codecs
    BY <2>1, ForeignContentType
  <2>3. Len(req.body) <= 1
    BY <2>1, <2>2, UnaryBody
  <2> QED  BY <1>5, <1>6, <2>1, <2>3, ReadPostFact
<1> QED  BY <1>7, <1>8, <1>9

\* An endpoint is that of a method of the service.
LEMMA EndpointFact ==
    ASSUME Path \in DOMAIN Application.endpoints
    PROVE  \E m \in Methods(setting.service) :
             Application.endpoints[Path] = Endpoint(setting.service, m, setting.option)
<1> DEFINE urls == {MethodUrl(setting.service, m) : m \in Methods(setting.service)}
<1>1. Application.endpoints = Endpoints(setting.service, setting.option)
  BY DEF Application, AsgiApplication, WsgiApplication
<1>2. Path \in urls
  BY <1>1 DEF Endpoints
<1> DEFINE found == CHOOSE m \in Methods(setting.service) : MethodUrl(setting.service, m) = Path
<1>3. found \in Methods(setting.service)
  BY <1>2
<1>4. Application.endpoints[Path] = Endpoint(setting.service, found, setting.option)
  BY <1>1, <1>2 DEF Endpoints
<1> HIDE DEF found
<1> QED  BY <1>3, <1>4

\* A call the service may be given: of an endpoint that takes such requests,
\* with messages within the limit unless they came with a GET.
Sound(v) ==
    /\ v.body \in Seq(Messages)
    /\ req.http # "GET" => \A k \in DOMAIN v.body : ~TooLarge(v.body[k])
    /\ ~MethodNotAllowed(v.endpoint)
    /\ \E m \in Methods(setting.service) :
            v.endpoint = Endpoint(setting.service, m, setting.option)

LEMMA RouteFact ==
    ASSUME setting \in Settings, WellFormed(req), Route.type = "call"
    PROVE  Sound(Route)
<1> DEFINE e == Application.endpoints[Path]
<1>1. Path \in DOMAIN Application.endpoints
  BY NotACall DEF Route
<1>2. Route = HandleAsgi(e) \/ Route = HandleWsgi(e)
  BY <1>1 DEF Route
<1>3. Within(Route, e) /\ ~MethodNotAllowed(e)
  <2> HIDE DEF e
  <2> QED  BY <1>2, HandleAsgiFact, HandleWsgiFact
<1>4. Route.endpoint = e
  BY <1>3 DEF Within
<1> QED  BY <1>1, <1>3, <1>4, EndpointFact DEF Within, Sound
-----------------------------------------------------------------------------
(* The steps of a call.                                                    *)

Runs == [method : {Winner(setting.service, l) : l \in Locals(setting.service)},
         body : Seq(Messages)]

\* A request is well formed until it has been answered, and a second run is
\* one of a GET.
RequestInv ==
    /\ setting \in Settings
    /\ step \in {"sent", "routed", "answered"} => WellFormed(req)
    /\ step = "idle" => runs = <<>>
    /\ step = "routed" /\ verdict.type = "call" => Sound(verdict)
    /\ runs \in Seq(Runs)

RepeatInv ==
    /\ step \in {"sent", "routed"} /\ runs # <<>> => req.http = "GET"
    /\ Len(runs) > 1 => req.http = "GET"

Inv == RequestInv /\ RepeatInv /\ LimitKept /\ SafeToRepeat

\* The request of a printed method is well formed: the method that is printed
\* under its name takes as many messages as it does.
LEMMA RequestFact ==
    ASSUME setting \in Settings, NEW method, NEW printed, NEW get \in BOOLEAN,
           TakesOf(printed.kind) = TakesOf(method.kind),
           NEW messages \in Payloads(method.kind)
    PROVE  WellFormed(Request(printed, get, messages))
<1>1. messages \in Seq(Messages) /\ (method.kind \in OneRequest => Len(messages) = 1)
  <2>1. <<"small">> \in Seq(Messages) /\ <<"big">> \in Seq(Messages)
    BY DEF Messages
  <2>2. CASE method.kind \in OneRequest
    <3>1. messages = <<"small">> \/ messages = <<"big">>
      BY <2>2 DEF Payloads
    <3> QED  BY <2>1, <3>1
  <2>3. CASE method.kind \notin OneRequest
    BY <2>3, DeploymentAssumption DEF Payloads, DeploymentAssumption
  <2> QED  BY <2>2, <2>3
<1>2. ~Enveloped(printed) => Len(messages) = 1
  <2>1. ~Enveloped(printed) => TakesOf(printed.kind) = "message"
    BY DEF Enveloped, TakesOf, OneRequest
  <2>2. TakesOf(method.kind) = "message" => method.kind \in OneRequest
    BY DEF TakesOf
  <2> QED  BY <1>1, <2>1, <2>2
<1> DEFINE context == RequestContext(Enveloped(printed))
           request == Request(printed, get, messages)
<1>3. Enveloped(printed) => context.type \notin {"unary", "none"}
  <2>1. client.protocol \in {"connect", "grpc", "grpcweb"}
    BY DeploymentAssumption DEF DeploymentAssumption, client
  <2> QED  BY <2>1 DEF RequestContext
<1>4. request.body = messages /\ (Enveloped(printed) => request.type = context.type)
  BY DEF Request, HttpRequest
<1>5. SUFFICES WellFormed(request)
  OBVIOUS
<1>6. Enveloped(printed) => request.type \notin {"unary", "none"}
  <2> HIDE DEF request, context
  <2> QED  BY <1>3, <1>4
<1> HIDE DEF request, context
<1>7. request.type \in {"unary", "none"} => Len(request.body) <= 1
  BY <1>2, <1>4, <1>6
<1> QED  BY <1>1, <1>4, <1>7, Zenon DEF WellFormed

\* What is printed for a name is what its last method says.
LEMMA StubFact ==
    ASSUME NEW l \in Locals(setting.service)
    PROVE  LET printed == Winner(setting.service, l)
           IN  /\ Client[l].takes = TakesOf(printed.kind)
               /\ Client[l].gives = GivesOf(printed.kind)
               /\ Client[l].get = SupportsGet(printed)
               /\ Client[l].execute = ExecuteMethod(printed.kind)
               /\ Client[l].info.input.family = setting.option
  BY DEF Client, AsyncClient, SyncClient, ClientMethod, AsyncSignature, SyncSignature,
         MethodInfo, MessageIdent

LEMMA InvInit == Init => Inv
<1> SUFFICES ASSUME Init  PROVE Inv
  OBVIOUS
<1>1. runs = <<>> /\ step = "idle" /\ setting \in Settings
  BY DEF Init
<1>2. runs \in Seq(Runs) /\ Len(runs) = 0 /\ DOMAIN runs = {}
  BY <1>1
<1> QED  BY <1>1, <1>2 DEF Inv, RequestInv, RepeatInv, LimitKept, SafeToRepeat

LEMMA RequestStep == RequestInv /\ [Next]_vars => RequestInv'
<1> SUFFICES ASSUME RequestInv, [Next]_vars  PROVE RequestInv'
  OBVIOUS
<1>0. UNCHANGED setting
  BY DEF Next, vars, Call, Ask, ForeignCall, Dispatch, Refuse, Serve, Answer, Misfit,
         Replace, Cut, Repeat, Receive, Leave, Over
<1>1. ASSUME NEW method \in Methods(setting.service), NEW get \in BOOLEAN,
             NEW messages \in Payloads(method.kind), Call(method, get, messages)
      PROVE  RequestInv'
  <2>1. CASE step' = "sent"
    <3> DEFINE l == LocalName(method)
               printed == Winner(setting.service, l)
    <3>1. req' = Request(printed, get, messages)
      BY <1>1, <2>1 DEF Call
    <3>2. TakesOf(printed.kind) = TakesOf(method.kind)
      <4>1. l \in Locals(setting.service)
        BY DEF Locals
      <4>2. Client[l].takes = TakesOf(method.kind)
        BY <1>1 DEF Call
      <4> QED  BY <4>1, <4>2, StubFact
    <3>3. WellFormed(req')
      <4> HIDE DEF printed
      <4> QED  BY <3>1, <3>2, RequestFact DEF RequestInv
    <3> QED  BY <1>0, <1>1, <2>1, <3>3 DEF RequestInv, Call, Ask
  <2>2. CASE step' # "sent"
    BY <1>0, <1>1, <2>2 DEF RequestInv, Call, Ask, Runs
  <2> QED  BY <2>1, <2>2
<1>2. ASSUME NEW method \in Methods(setting.service), NEW request \in setting.others,
             ForeignCall(request, method)
      PROVE  RequestInv'
  <2>1. req'.body = request.body /\ req'.type = request.type
    BY <1>2 DEF ForeignCall, HttpRequest
  <2>2. WellFormed(request)
    BY DeploymentAssumption DEF DeploymentAssumption, RequestInv, WellFormed
  <2>3. WellFormed(req')
    BY <2>1, <2>2 DEF WellFormed
  <2> QED  BY <1>0, <1>2, <2>3 DEF RequestInv, ForeignCall, Runs
<1>3. CASE Dispatch
  <2>1. Route.type = "call" => Sound(Route)
    BY <1>3, RouteFact DEF RequestInv, Dispatch
  <2>2. UNCHANGED <<req, runs>> /\ verdict' = Route /\ step = "sent" /\ step' = "routed"
    BY <1>3 DEF Dispatch
  <2>3. verdict'.type = "call" => Sound(verdict)'
    BY <1>0, <2>1, <2>2 DEF Sound, TooLarge, server, MethodNotAllowed, Protocol
  <2> QED  BY <1>0, <2>2, <2>3 DEF RequestInv, Runs
<1>4. CASE Serve
  <2> DEFINE run == [method |-> Winner(setting.service, verdict.endpoint.function),
                     body |-> verdict.body]
  <2>1. PICK m \in Methods(setting.service) :
            /\ verdict.body \in Seq(Messages)
            /\ verdict.endpoint = Endpoint(setting.service, m, setting.option)
    BY <1>4 DEF Serve, RequestInv, Sound
  <2>2. verdict.endpoint.function \in Locals(setting.service)
    BY <2>1 DEF Endpoint, Locals
  <2>3. run \in Runs
    BY <2>1, <2>2 DEF Runs
  <2>4. runs' = Append(runs, run) /\ step = "routed" /\ step' = "answered" /\ UNCHANGED req
    BY <1>4 DEF Serve, Answer
  <2>5. runs' \in Seq(Runs)
    BY <2>3, <2>4 DEF RequestInv
  <2> QED  BY <1>0, <2>4, <2>5 DEF RequestInv, Runs
<1>5. CASE Refuse \/ Misfit \/ Replace \/ Cut \/ Receive \/ Leave
  BY <1>0, <1>5 DEF RequestInv, Refuse, Misfit, Answer, Replace, Cut, Receive, Leave, Runs
<1>6. CASE Repeat
  BY <1>0, <1>6 DEF RequestInv, Repeat, Runs
<1>7. CASE UNCHANGED vars \/ Over
  BY <1>7 DEF RequestInv, Sound, TooLarge, server, MethodNotAllowed, Protocol, vars, Over, Runs
<1> QED  BY <1>1, <1>2, <1>3, <1>4, <1>5, <1>6, <1>7 DEF Next

\* Every other step than Serve leaves the functions' calls alone.
LEMMA RunsStep ==
    ASSUME RequestInv, [Next]_vars
    PROVE  \/ UNCHANGED <<setting, runs>> /\ (runs # <<>> => UNCHANGED req)
           \/ Serve
  BY DEF RequestInv, Next, vars, Call, Ask, ForeignCall, Dispatch, Refuse, Serve, Answer,
         Misfit, Replace, Cut, Repeat, Receive, Leave, Over

\* The run a sound call makes.
LEMMA ServeFact ==
    ASSUME RequestInv, Serve
    PROVE  \E m \in Methods(setting.service) :
             LET run == [method |-> Winner(setting.service, LocalName(m)),
                         body |-> verdict.body]
             IN  /\ runs' = Append(runs, run)
                 /\ UNCHANGED <<setting, req>>
                 /\ req.http # "GET" => \A k \in DOMAIN run.body : ~TooLarge(run.body[k])
                 /\ req.http \in {"GET", "POST"}
                 /\ req.http = "GET" => m.level = "no_side_effects"
<1>1. PICK m \in Methods(setting.service) :
        verdict.endpoint = Endpoint(setting.service, m, setting.option)
  BY DEF RequestInv, Serve, Sound
<1>2. verdict.endpoint.function = LocalName(m) /\ verdict.endpoint.info.level = m.level
  BY <1>1 DEF Endpoint, MethodInfo
<1>3. Sound(verdict) /\ UNCHANGED <<setting, req>>
  BY DEF RequestInv, Serve, Answer
<1>4. req.http \in {"GET", "POST"} /\ (req.http = "GET" => m.level = "no_side_effects")
  BY <1>2, <1>3 DEF Sound, MethodNotAllowed
<1>5. runs' = Append(runs, [method |-> Winner(setting.service, LocalName(m)),
                            body |-> verdict.body])
  BY <1>2 DEF Serve
<1> WITNESS m \in Methods(setting.service)
<1> QED  BY <1>3, <1>4, <1>5 DEF Sound

LEMMA LimitStep == RequestInv /\ LimitKept /\ [Next]_vars => LimitKept'
<1> SUFFICES ASSUME RequestInv, LimitKept, [Next]_vars  PROVE LimitKept'
  OBVIOUS
<1>1. CASE UNCHANGED <<setting, runs>> /\ (runs # <<>> => UNCHANGED req)
  <2>1. runs = <<>> => DOMAIN runs = {}
    OBVIOUS
  <2> QED  BY <1>1, <2>1 DEF LimitKept, TooLarge, server
<1>2. CASE Serve
  <2>1. PICK run : /\ runs' = Append(runs, run) /\ UNCHANGED <<setting, req>>
                   /\ req.http # "GET" => \A k \in DOMAIN run.body : ~TooLarge(run.body[k])
    BY <1>2, ServeFact
  <2>2. \A i \in DOMAIN runs' : (i \in DOMAIN runs /\ runs'[i] = runs[i]) \/ runs'[i] = run
    BY <2>1 DEF RequestInv
  <2>3. \A i \in DOMAIN runs' : \A k \in DOMAIN runs'[i].body :
            TooLarge(runs'[i].body[k]) => req.http = "GET"
    BY <2>1, <2>2 DEF LimitKept
  <2> QED  BY <2>1, <2>3 DEF LimitKept, TooLarge, server
<1> QED  BY <1>1, <1>2, RunsStep

LEMMA RepeatStep == RequestInv /\ RepeatInv /\ [Next]_vars => RepeatInv'
<1> SUFFICES ASSUME RequestInv, RepeatInv, [Next]_vars  PROVE RepeatInv'
  OBVIOUS
<1>1. CASE Serve
  <2>1. PICK run : runs' = Append(runs, run) /\ UNCHANGED req
    BY <1>1, ServeFact
  <2>2. step = "routed" /\ step' = "answered"
    BY <1>1 DEF Serve, Answer
  <2>3. Len(runs') > 1 => runs # <<>>
    BY <2>1 DEF RequestInv
  <2> QED  BY <2>1, <2>2, <2>3 DEF RepeatInv
<1>2. CASE UNCHANGED <<setting, runs>> /\ (runs # <<>> => UNCHANGED req)
  <2>1. runs # <<>> /\ step' \in {"sent", "routed"} =>
            step \in {"sent", "routed"} \/ req.http = "GET"
    BY DEF RequestInv, Next, vars, Call, Ask, ForeignCall, Dispatch, Refuse, Serve, Answer,
           Misfit, Replace, Cut, Repeat, Receive, Leave, Over
  <2>2. Len(runs) > 1 => runs # <<>>
    BY DEF RequestInv
  <2> QED  BY <1>2, <2>1, <2>2 DEF RepeatInv
<1> QED  BY <1>1, <1>2, RunsStep

LEMMA SafeStep == RequestInv /\ RepeatInv /\ SafeToRepeat /\ [Next]_vars => SafeToRepeat'
<1> SUFFICES ASSUME RequestInv, RepeatInv, SafeToRepeat, [Next]_vars  PROVE SafeToRepeat'
  OBVIOUS
<1>1. CASE UNCHANGED <<setting, runs>> /\ (runs # <<>> => UNCHANGED req)
  <2>1. runs = <<>> => DOMAIN runs = {}
    OBVIOUS
  <2> QED  BY <1>1, <2>1 DEF SafeToRepeat
<1>2. CASE Serve
  <2> DEFINE Safe(run) == \E m \in Methods(setting.service) :
                /\ m.level = "no_side_effects"
                /\ run.method = Winner(setting.service, LocalName(m))
  <2> DEFINE Ran(m, run) ==
                /\ run.method = Winner(setting.service, LocalName(m))
                /\ runs' = Append(runs, run)
                /\ UNCHANGED <<setting, req>>
                /\ req.http \in {"GET", "POST"}
                /\ req.http = "GET" => m.level = "no_side_effects"
  <2>0. PICK m \in Methods(setting.service) : \E run : Ran(m, run)
    BY <1>2, ServeFact
  <2>1. PICK run : Ran(m, run)
    BY <2>0
  <2>2. \A i \in DOMAIN runs' : (i \in DOMAIN runs /\ runs'[i] = runs[i]) \/ runs'[i] = run
    BY <2>1 DEF RequestInv
  <2>3. Len(runs') > 1 \/ req.http # "POST" => req.http = "GET"
    <3>1. Len(runs') > 1 => runs # <<>>
      BY <2>1 DEF RequestInv
    <3> QED  BY <1>2, <2>1, <3>1 DEF RepeatInv, Serve
  <2>4. req.http = "GET" => \A i \in DOMAIN runs : Safe(runs[i])
    BY DEF SafeToRepeat
  <2>5. req.http = "GET" => Safe(run)
    BY <2>1
  <2>6. req.http = "GET" => \A i \in DOMAIN runs' : Safe(runs'[i])
    <3> HIDE DEF Safe
    <3> QED  BY <2>2, <2>4, <2>5
  <2> QED  BY <2>1, <2>3, <2>6 DEF SafeToRepeat
<1> QED  BY <1>1, <1>2, RunsStep

LEMMA Inductive == Spec => []Inv
<1>1. Inv /\ [Next]_vars => Inv'
  BY RequestStep, RepeatStep, LimitStep, SafeStep DEF Inv
<1> QED  BY <1>1, InvInit, PTL DEF Spec

\* read_max_bytes bounds every message a service is given, however it came,
\* but that of a GET: for all services, settings and messages.
THEOREM LimitHolds == Spec => []LimitKept
<1>1. Inv => LimitKept  BY DEF Inv
<1> QED  BY <1>1, Inductive, PTL

\* What a repeated request runs, or one that is no POST, was declared to have
\* no side effects, or is printed under the name of a method that was; and such
\* a request is a GET.
THEOREM RepeatsAreSafe == Spec => []SafeToRepeat
<1>1. Inv => SafeToRepeat  BY DEF Inv
<1> QED  BY <1>1, Inductive, PTL

-----------------------------------------------------------------------------
(* What an error is once it has been written and read.                     *)

\* Every exception of a service has a code.
LEMMA FromExceptionFact ==
    ASSUME NEW e \in ConnectErrors \cup Others
    PROVE  /\ e.type # "http" /\ e # Absent
           /\ FromException(e) \in ConnectErrors /\ FromException(e) # Absent
<1>1. CASE e \in ConnectErrors
  <2>1. FromException(e) = e /\ e.type = "connect"
    BY <1>1 DEF FromException, ConnectErrors
  <2>2. e \in Errors
    <3> DEFINE T == [prefix : Texts, name : Texts \cup Seq(Texts)]
    <3>1. Details \subseteq T
      BY DEF Details
    <3>2. Seq(Details) \subseteq Seq(T)
      <4> HIDE DEF T
      <4> QED  BY <3>1, SeqMonotonic, Zenon
    <3> QED  BY <1>1, <3>2 DEF ConnectErrors, Errors
  <2> QED  BY <1>1, <2>1, <2>2, AbsentAssumption DEF AbsentAssumption
<1>2. CASE e \in Others
  <2>1. e.type = "other" /\ e.message \in Texts
    BY <1>2 DEF Others
  <2> DEFINE f == [type |-> "connect", code |-> "unknown", message |-> e.message,
                   details |-> <<>>]
  <2>2. FromException(e) = f
    BY <2>1 DEF FromException, ConnectError
  <2>3. f \in ConnectErrors
    BY <2>1, SomeCodes DEF ConnectErrors
  <2>4. f \in Errors
    BY <2>1, SomeCodes DEF Errors
  <2> QED  BY <1>2, <2>1, <2>2, <2>3, <2>4, AbsentAssumption DEF AbsentAssumption
<1> QED  BY <1>1, <1>2

\* An error that is written as JSON is read back, but for the prefixes of its
\* details.
LEMMA JsonFact ==
    ASSUME NEW error \in ConnectErrors, NEW status, NEW unexpected \in Codes
    PROVE  /\ ToDict(error) \in Dicts /\ ToDict(error) # Absent
           /\ LET told == FromDict(ToDict(error), status, unexpected)
              IN  /\ told # Absent /\ told.code = error.code /\ told.message = error.message
                  /\ Len(told.details) = Len(error.details)
                  /\ \A i \in DOMAIN error.details :
                        error.details[i].prefix = "usual" => told.details[i] = error.details[i]
<1> DEFINE written == [i \in DOMAIN error.details |->
                          IF error.details[i].prefix = "usual" THEN <<error.details[i].name>>
                          ELSE <<error.details[i].prefix, error.details[i].name>>]
           data == ToDict(error)
           told == FromDict(data, status, unexpected)
           name(i) == IF Len(data.details[i]) = 1 THEN data.details[i][1] ELSE data.details[i]
           read == [i \in DOMAIN data.details |-> Detail("usual", name(i))]
<1>1. /\ error.code \in Codes /\ error.message \in Texts /\ error.details \in Seq(Details)
      /\ \A i \in DOMAIN error.details : error.details[i] \in Details
  BY DEF ConnectErrors
<1>2. data = [code |-> error.code, message |-> error.message, details |-> written]
  BY DEF ToDict
<1>3. written \in Seq(Seq(Texts)) /\ Len(written) = Len(error.details)
  <2>1. \A i \in 1..Len(error.details) : written[i] \in Seq(Texts)
    <3> TAKE i \in 1..Len(error.details)
    <3>1. i \in DOMAIN error.details /\ error.details[i] \in Details
      BY <1>1
    <3>2. error.details[i].name \in Texts /\ error.details[i].prefix \in Texts
      BY <3>1 DEF Details
    <3>3. <<error.details[i].name>> \in Seq(Texts)
      BY <3>2
    <3>4. <<error.details[i].prefix, error.details[i].name>> \in Seq(Texts)
      BY <3>2
    <3> QED  BY <3>1, <3>3, <3>4
  <2>2. DOMAIN written = DOMAIN error.details
    OBVIOUS
  <2>3. written = [i \in DOMAIN written |-> written[i]]
    OBVIOUS
  <2> HIDE DEF written
  <2> QED  BY <1>1, <2>1, <2>2, <2>3, ImageSeq, Zenon
<1>4. error.code \in Texts /\ error.code # Absent
  BY <1>1, CodeFact, AbsentAssumption DEF AbsentAssumption
<1>5. data \in Dicts /\ data # Absent
  <2> HIDE DEF written
  <2>1. data \in Dicts
    BY <1>1, <1>2, <1>3, <1>4 DEF Dicts
  <2> HIDE DEF data
  <2> QED  BY <2>1, AbsentAssumption DEF AbsentAssumption
<1>6. told = [type |-> "connect", code |-> error.code, message |-> error.message,
              details |-> read]
  <2> HIDE DEF written
  <2>1. data.code = error.code /\ data.message = error.message
    BY <1>2
  <2> HIDE DEF data
  <2> QED  BY <1>1, <1>4, <2>1 DEF FromDict, ConnectError
<1>7. DOMAIN read = DOMAIN error.details
  BY <1>2
<1>8. Len(read) = Len(error.details)
  BY <1>1, <1>7
<1>9. ASSUME NEW i \in DOMAIN error.details, error.details[i].prefix = "usual"
      PROVE  read[i] = error.details[i]
  <2>1. data.details[i] = <<error.details[i].name>>
    BY <1>2, <1>9
  <2>2. read[i] = [prefix |-> "usual", name |-> error.details[i].name]
    <3>1. name(i) = error.details[i].name /\ i \in DOMAIN data.details
      BY <1>2, <2>1
    <3> HIDE DEF data, name
    <3> QED  BY <3>1 DEF Detail
  <2>3. error.details[i] \in Details
    BY <1>1
  <2> QED  BY <1>9, <2>2, <2>3 DEF Details
<1>10. told # Absent
  <2> HIDE DEF data
  <2> QED  BY <1>5, DictFact
<1> HIDE DEF read, written, data, told
<1>11. /\ told.code = error.code /\ told.message = error.message
       /\ Len(told.details) = Len(error.details)
       /\ \A i \in DOMAIN error.details :
             error.details[i].prefix = "usual" => told.details[i] = error.details[i]
  BY <1>6, <1>8, <1>9
<1> QED  BY <1>5, <1>10, <1>11 DEF told, data

\* A client reads an error from trailers.
LEMMA GrpcErrorFact ==
    ASSUME NEW trailers \in GrpcTrailers, trailers.status # Absent
    PROVE  GrpcError(trailers) \in Errors /\ GrpcError(trailers) # Absent
<1> DEFINE T == [prefix : Texts, name : Texts \cup Seq(Texts)]
<1>1. Seq(Details) \subseteq Seq(T)
  <2>1. Details \subseteq T
    BY DEF Details
  <2> HIDE DEF T
  <2> QED  BY <2>1, SeqMonotonic, Zenon
<1>2. \A n : Get(GrpcCodes, n, "unknown") \in Codes
  BY SomeCodes DEF Get, Codes
<1>3. CASE trailers.details # Absent
  <2>1. trailers.details \in GrpcDetails
    BY <1>3 DEF GrpcTrailers
  <2>2. GrpcError(trailers) = [type |-> "connect",
            code |-> Get(GrpcCodes, trailers.details.code, "unknown"),
            message |-> trailers.details.message, details |-> trailers.details.details]
    BY <1>3 DEF GrpcError, ConnectError
  <2>3. trailers.details.message \in Texts /\ trailers.details.details \in Seq(T)
    BY <1>1, <2>1 DEF GrpcDetails
  <2>4. GrpcError(trailers) \in Errors
    BY <1>2, <2>2, <2>3 DEF Errors
  <2> QED  BY <2>4, AbsentAssumption DEF AbsentAssumption
<1>4. CASE trailers.details = Absent
  <2> DEFINE message == IF trailers.message = Absent THEN NoText ELSE trailers.message
  <2>1. GrpcError(trailers) = [type |-> "connect",
            code |-> Get(GrpcCodes, trailers.status, "unknown"),
            message |-> message, details |-> <<>>]
    BY <1>4 DEF GrpcError, ConnectError
  <2>2. message \in Texts
    BY TextsFact DEF GrpcTrailers
  <2> HIDE DEF message
  <2>3. GrpcError(trailers) \in Errors
    BY <1>2, <2>1, <2>2 DEF Errors
  <2> QED  BY <2>3, AbsentAssumption DEF AbsentAssumption
<1> QED  BY <1>3, <1>4

LEMMA NatPresent == \A n \in Nat : n # Absent
  BY AbsentAssumption DEF AbsentAssumption

LEMMA GrpcDone ==
    ASSUME NEW trailers \in GrpcTrailers
    PROVE  /\ GrpcEnd(trailers, Absent) # Absent
           /\ GrpcEnd(trailers, Absent).status = 0
<1> DEFINE end == [trailers EXCEPT !.status = 0]
<1>1. GrpcEnd(trailers, Absent) = end
  BY DEF GrpcEnd
<1>2. end \in GrpcTrailers /\ end.status = 0
  BY DEF GrpcTrailers
<1> HIDE DEF end
<1> QED  BY <1>1, <1>2, AbsentAssumption DEF AbsentAssumption

\* An error that is written as trailers is read back, but for what it leaves to
\* trailers of the service's own.
LEMMA GrpcFact ==
    ASSUME NEW trailers \in GrpcTrailers, NEW error \in ConnectErrors
    PROVE  LET end == GrpcEnd(trailers, error)
           IN  /\ end \in GrpcTrailers /\ end # Absent
               /\ end.status # 0 /\ end.status # Absent
               /\ GrpcError(end) =
                    IF error.details = <<>> /\ trailers.details # Absent
                    THEN ConnectError(Get(GrpcCodes, trailers.details.code, "unknown"),
                                      trailers.details.message, trailers.details.details)
                    ELSE ConnectError(error.code,
                            IF /\ error.details = <<>> /\ error.message = NoText
                               /\ trailers.message # Absent
                            THEN trailers.message ELSE error.message,
                            error.details)
<1> DEFINE end == GrpcEnd(trailers, error)
           message == IF error.message = NoText THEN trailers.message ELSE error.message
           own == [code |-> StatusOfCode(error.code), message |-> error.message,
                   details |-> error.details]
           details == IF error.details = <<>> THEN trailers.details ELSE own
<1>1. /\ error.code \in Codes /\ error.message \in Texts /\ error.details \in Seq(Details)
      /\ error.type = "connect"
      /\ error = [type |-> "connect", code |-> error.code, message |-> error.message,
                  details |-> error.details]
  BY DEF ConnectErrors
<1>2. error # Absent /\ error.message # Absent
  <2>1. FromException(error) = error
    BY <1>1 DEF FromException
  <2>2. error # Absent
    BY <2>1, FromExceptionFact
  <2> QED  BY <1>1, <2>2, AbsentAssumption DEF AbsentAssumption
<1>3. end = [status |-> StatusOfCode(error.code), message |-> message, details |-> details]
  BY <1>2 DEF GrpcEnd
<1>4. StatusOfCode(error.code) \in 1..16 /\ GrpcCodes[StatusOfCode(error.code)] = error.code
  BY <1>1, CodeFact
<1>5. own \in GrpcDetails /\ own # Absent
  <2>1. own \in GrpcDetails
    BY <1>1, <1>4 DEF GrpcDetails
  <2> HIDE DEF own
  <2> QED  BY <2>1, AbsentAssumption DEF AbsentAssumption
<1>6. message \in Texts \cup {Absent} /\ details \in GrpcDetails \cup {Absent}
  <2> HIDE DEF own
  <2> QED  BY <1>1, <1>5 DEF GrpcTrailers
<1>7. StatusOfCode(error.code) \in Nat /\ StatusOfCode(error.code) # 0
  BY <1>4
<1>8. end \in GrpcTrailers
  <2> HIDE DEF message, details
  <2> QED  BY <1>3, <1>6, <1>7 DEF GrpcTrailers
<1>9. end # Absent
  <2> HIDE DEF end
  <2> QED  BY <1>8, AbsentAssumption DEF AbsentAssumption
<1>10. end.status # 0 /\ end.status \in Nat
  <2> HIDE DEF message, details
  <2> QED  BY <1>3, <1>7
<1>12. DOMAIN GrpcCodes = 1..16
  BY DEF GrpcCodes
<1>13. Get(GrpcCodes, StatusOfCode(error.code), "unknown") = error.code
  BY <1>4, <1>12 DEF Get
<1>14. CASE error.details # <<>>
  <2>1. end.details = own
    BY <1>3, <1>14
  <2>2. GrpcError(end) = ConnectError(Get(GrpcCodes, own.code, "unknown"), own.message,
                                      own.details)
    <3> HIDE DEF own, end
    <3> QED  BY <1>5, <2>1 DEF GrpcError
  <2>3. GrpcError(end) = ConnectError(error.code, error.message, error.details)
    <3> HIDE DEF end
    <3> QED  BY <1>13, <2>2
  <2> HIDE DEF end
  <2> QED  BY <1>8, <1>9, <1>10, <1>14, <2>3, NatPresent DEF end
<1>15. CASE error.details = <<>>
  <2>1. end.details = trailers.details /\ end.message = message
          /\ end.status = StatusOfCode(error.code)
    BY <1>3, <1>15
  <2>2. CASE trailers.details = Absent
    <3>1. GrpcError(end) = ConnectError(error.code,
                IF message = Absent THEN NoText ELSE message, <<>>)
      <4> HIDE DEF end, message
      <4> QED  BY <1>13, <2>1, <2>2 DEF GrpcError
    <3>2. (IF message = Absent THEN NoText ELSE message) =
              IF error.message = NoText /\ trailers.message # Absent
              THEN trailers.message ELSE error.message
      BY <1>2
    <3>3. GrpcError(end) = ConnectError(error.code,
              IF error.message = NoText /\ trailers.message # Absent
              THEN trailers.message ELSE error.message, error.details)
      <4> HIDE DEF end, message
      <4> QED  BY <1>15, <3>1, <3>2
    <3> HIDE DEF end
    <3> QED  BY <1>8, <1>9, <1>10, <1>15, <2>2, <3>3, NatPresent DEF end
  <2>3. CASE trailers.details # Absent
    <3> HIDE DEF end, message
    <3>1. GrpcError(end) = ConnectError(Get(GrpcCodes, trailers.details.code, "unknown"),
                              trailers.details.message, trailers.details.details)
      BY <2>1, <2>3 DEF GrpcError
    <3> QED  BY <1>8, <1>9, <1>10, <1>15, <2>3, <3>1, NatPresent DEF end
  <2> QED  BY <2>2, <2>3
<1> QED  BY <1>14, <1>15

-----------------------------------------------------------------------------
(* Checks of which it is known which applies first.                        *)

LEMMA FirstIs ==
    ASSUME NEW n \in Nat, NEW checks, DOMAIN checks = 1..n, NEW otherwise, NEW k \in 1..n,
           checks[k].applies, \A i \in 1..n : i < k => ~checks[i].applies
    PROVE  FirstOf(checks, otherwise) = checks[k].with
<1> DEFINE hits == {i \in DOMAIN checks : checks[i].applies}
<1>1. k \in hits /\ hits \in SUBSET Nat /\ \A i \in hits : i \in 1..n /\ ~(i < k)
  OBVIOUS
<1>2. Min(hits) \in hits /\ \A j \in hits : Min(hits) <= j
  <2> HIDE DEF hits
  <2> QED  BY <1>1, MinFact
<1>3. Min(hits) = k
  <2> HIDE DEF hits
  <2>1. Min(hits) \in 1..n /\ Min(hits) <= k /\ ~(Min(hits) < k)
    BY <1>1, <1>2
  <2> QED  BY <2>1
<1> QED  BY <1>1, <1>3 DEF FirstOf

LEMMA NoneIs ==
    ASSUME NEW n \in Nat, NEW checks, DOMAIN checks = 1..n, NEW otherwise,
           \A i \in 1..n : ~checks[i].applies
    PROVE  FirstOf(checks, otherwise) = otherwise
  BY FirstOfFact

LEMMA SevenChecks ==
    ASSUME NEW a, NEW b, NEW c, NEW d, NEW e, NEW f, NEW g
    PROVE  LET all == <<a, b, c>> \o <<d, e, f, g>>
           IN  /\ DOMAIN all = 1..7 /\ all[1] = a /\ all[2] = b /\ all[3] = c
               /\ all[4] = d /\ all[5] = e /\ all[6] = f /\ all[7] = g
<1> DEFINE s == <<a, b, c>>
           t == <<d, e, f, g>>
           S == {a, b, c, d, e, f, g}
           all == s \o t
<1>1. s \in Seq(S) /\ t \in Seq(S) /\ Len(s) = 3 /\ Len(t) = 4
  OBVIOUS
<1>2. /\ s[1] = a /\ s[2] = b /\ s[3] = c
      /\ t[1] = d /\ t[2] = e /\ t[3] = f /\ t[4] = g
  OBVIOUS
<1> HIDE DEF s, t, S
<1>3. /\ all \in Seq(S) /\ Len(all) = Len(s) + Len(t)
      /\ \A i \in 1..Len(s) + Len(t) : all[i] = IF i <= Len(s) THEN s[i] ELSE t[i - Len(s)]
  BY <1>1, ConcatProperties
<1> HIDE DEF all
<1>4. DOMAIN all = 1..7
  BY <1>1, <1>3
<1>5. /\ all[1] = s[1] /\ all[2] = s[2] /\ all[3] = s[3] /\ all[4] = t[1]
      /\ all[5] = t[2] /\ all[6] = t[3] /\ all[7] = t[4]
  BY <1>1, <1>3
<1> QED  BY <1>2, <1>4, <1>5 DEF all, s, t

LEMMA FourChecks ==
    ASSUME NEW a, NEW b, NEW c, NEW d
    PROVE  LET all == <<a>> \o <<b, c>> \o <<d>>
           IN  DOMAIN all = 1..4 /\ all[1] = a /\ all[2] = b /\ all[3] = c /\ all[4] = d
<1> DEFINE s == <<a>>
           t == <<b, c>>
           u == <<d>>
           S == {a, b, c, d}
           v == s \o t
           all == v \o u
<1>1. /\ s \in Seq(S) /\ t \in Seq(S) /\ u \in Seq(S)
      /\ Len(s) = 1 /\ Len(t) = 2 /\ Len(u) = 1
      /\ s[1] = a /\ t[1] = b /\ t[2] = c /\ u[1] = d
  OBVIOUS
<1> HIDE DEF s, t, u, S
<1>2. /\ v \in Seq(S) /\ Len(v) = Len(s) + Len(t)
      /\ \A i \in 1..Len(s) + Len(t) : v[i] = IF i <= Len(s) THEN s[i] ELSE t[i - Len(s)]
  BY <1>1, ConcatProperties
<1>3. v \in Seq(S) /\ Len(v) = 3 /\ v[1] = a /\ v[2] = b /\ v[3] = c
  <2> HIDE DEF v
  <2> QED  BY <1>1, <1>2
<1> HIDE DEF v
<1>4. /\ all \in Seq(S) /\ Len(all) = Len(v) + Len(u)
      /\ \A i \in 1..Len(v) + Len(u) : all[i] = IF i <= Len(v) THEN v[i] ELSE u[i - Len(v)]
  BY <1>1, <1>3, ConcatProperties
<1>5. DOMAIN all = 1..4 /\ all[1] = a /\ all[2] = b /\ all[3] = c /\ all[4] = d
  <2> HIDE DEF all
  <2> QED  BY <1>1, <1>3, <1>4
<1> QED  BY <1>5 DEF v, s, t, u

-----------------------------------------------------------------------------
(* The coding of an answer, and what a client makes of one.                *)

\* A header that lists codings has identity among them.
LEMMA ResolveFact ==
    ASSUME NEW names \in Seq(Codings) \cup {Absent}
    PROVE  /\ ResolveCompressions(names) \in Seq(Codings)
           /\ "identity" \in ToSet(ResolveCompressions(names))
<1>1. CASE names = Absent
  <2>1. ResolveCompressions(names) = <<"gzip", "identity">>
    BY <1>1 DEF ResolveCompressions
  <2>2. <<"gzip", "identity">> \in Seq(Codings)
    BY DEF Codings
  <2>3. "identity" \in ToSet(<<"gzip", "identity">>)
    BY DEF ToSet
  <2> QED  BY <2>1, <2>2, <2>3
<1>2. CASE names # Absent
  <2>1. names \in Seq(Codings)
    BY <1>2
  <2>2. Append(names, "identity") \in Seq(Codings)
    BY <2>1 DEF Codings
  <2>3. "identity" \in ToSet(Append(names, "identity"))
    <3>1. Append(names, "identity")[Len(names) + 1] = "identity"
          /\ Len(names) + 1 \in DOMAIN Append(names, "identity")
      BY <2>1
    <3> QED  BY <3>1, Zenon DEF ToSet
  <2> QED  BY <1>2, <2>1, <2>2, <2>3 DEF ResolveCompressions
<1> QED  BY <1>1, <1>2

\* A server answers in a coding its client named.
LEMMA NegotiateFact ==
    ASSUME NEW accept \in Seq(Codings), "identity" \in ToSet(accept)
    PROVE  NegotiateCompression(accept) \in ToSet(accept)
<1> DEFINE checks == [i \in DOMAIN accept |-> Check(accept[i] \in Supported, accept[i])]
<1>1. /\ NegotiateCompression(accept) = FirstOf(checks, "identity")
      /\ DOMAIN checks = 1..Len(accept) /\ Len(accept) \in Nat
      /\ DOMAIN accept = 1..Len(accept)
  BY DEF NegotiateCompression
<1>2. \A i \in 1..Len(accept) : checks[i].with = accept[i]
  BY <1>1 DEF Check
<1> HIDE DEF checks
<1>3. \/ FirstOf(checks, "identity") = "identity"
      \/ \E i \in 1..Len(accept) : FirstOf(checks, "identity") = checks[i].with
  BY <1>1, FirstOfFact
<1> QED  BY <1>1, <1>2, <1>3 DEF ToSet

\* What a status, or an answer that is no success, is for a client.
LEMMA AnswerFact ==
    ASSUME resp.json = Absent \/ resp.json \in Dicts
    PROVE  /\ FromHttpStatus(resp.status) \in Errors /\ FromHttpStatus(resp.status) # Absent
           /\ FromHttpStatus(resp.status).code \notin ServicesOwn
           /\ FromResponse(resp) \in Errors /\ FromResponse(resp) # Absent
<1>1. FromHttpStatus(resp.status) = [type |-> "connect", message |-> "text", details |-> <<>>,
            code |-> Get(HttpStatusToError, resp.status, "unknown")]
  BY DEF FromHttpStatus, ConnectError
<1>2. FromHttpStatus(resp.status) \in Errors
  BY <1>1, StatusFact, TextsFact DEF Errors
<1>3. FromHttpStatus(resp.status) # Absent
  BY <1>2, AbsentAssumption DEF AbsentAssumption
<1>4. FromHttpStatus(resp.status).code \notin ServicesOwn
  BY <1>1, StatusFact
<1>5. resp.json # Absent =>
        /\ FromResponse(resp) = FromDict(resp.json, resp.status, "unavailable")
        /\ FromResponse(resp) \in Errors /\ FromResponse(resp) # Absent
  BY SomeCodes, DictFact DEF FromResponse
<1>6. resp.json = Absent => FromResponse(resp) = FromHttpStatus(resp.status)
  BY DEF FromResponse
<1> QED  BY <1>2, <1>3, <1>4, <1>5, <1>6

\* What the caller of a unary Connect call is told, by what is wrong with the
\* answer.
LEMMA ReceiveUnaryFact ==
    /\ (resp.status # 200 /\ resp.type # "json" /\ resp.json = Absent)
            => ReceiveUnary = Told(FromHttpStatus(resp.status))
    /\ (/\ resp.status # 200 /\ resp.type = "json" /\ ClientSupports(resp.compression)
        /\ resp.json = Absent \/ resp.json \in Dicts)
            => ReceiveUnary = Told(FromResponse(resp))
    /\ (resp.status = 200 /\ resp.type \in {"none", "html"})
            => ReceiveUnary = Told(Raised("unknown"))
    /\ (/\ resp.status = 200 /\ resp.type = "unary" /\ resp.codec = client.codec
        /\ ClientSupports(resp.compression) /\ resp.body # <<>>)
            => ReceiveUnary = IF ClientTooLarge(resp.body[1])
                              THEN Told(Raised("resource_exhausted")) ELSE Success(resp.body)
<1> DEFINE c1 == Check(resp.status # 200 /\ resp.type # "json", FromHttpStatus(resp.status))
           c2 == Check(resp.status = 200 /\ resp.type \in {"none", "html"}, Raised("unknown"))
           c3 == Check(resp.status = 200 /\ (resp.type = "stream" \/ resp.codec # client.codec),
                       Raised("internal"))
           c4 == Check(~ClientSupports(resp.compression), Raised("internal"))
           c5 == Check(resp.status # 200, FromResponse(resp))
           c6 == Check(resp.body = <<>>, Raised("unavailable"))
           c7 == Check(resp.body # <<>> /\ ClientTooLarge(resp.body[1]),
                       Raised("resource_exhausted"))
           all == <<c1, c2, c3>> \o <<c4, c5, c6, c7>>
           e == FirstOf(all, Absent)
<1>1. ReceiveUnary = IF e = Absent THEN Success(resp.body) ELSE Told(e)
  BY DEF ReceiveUnary, ValidateResponse, HandleResponseCompression
<1>2. /\ DOMAIN all = 1..7 /\ all[1] = c1 /\ all[2] = c2 /\ all[3] = c3
      /\ all[4] = c4 /\ all[5] = c5 /\ all[6] = c6 /\ all[7] = c7
  <2> HIDE DEF c1, c2, c3, c4, c5, c6, c7
  <2> QED  BY SevenChecks
<1>3. /\ c1.with = FromHttpStatus(resp.status) /\ c2.with = Raised("unknown")
      /\ c5.with = FromResponse(resp) /\ c7.with = Raised("resource_exhausted")
  BY DEF Check
<1>4. /\ c1.applies <=> resp.status # 200 /\ resp.type # "json"
      /\ c2.applies <=> resp.status = 200 /\ resp.type \in {"none", "html"}
      /\ c3.applies <=> resp.status = 200 /\ (resp.type = "stream" \/ resp.codec # client.codec)
      /\ c5.applies <=> resp.status # 200
      /\ c6.applies <=> resp.body = <<>>
  BY DEF Check
<1>5. /\ c4.applies <=> ~ClientSupports(resp.compression)
      /\ c7.applies <=> resp.body # <<>> /\ ClientTooLarge(resp.body[1])
  BY DEF Check
<1> HIDE DEF c1, c2, c3, c4, c5, c6, c7, all
<1>a. ASSUME resp.status # 200, resp.type # "json", resp.json = Absent
      PROVE  ReceiveUnary = Told(FromHttpStatus(resp.status))
  <2>1. all[1].applies /\ 7 \in Nat /\ 1 \in 1..7 /\ \A i \in 1..7 : i < 1 => ~all[i].applies
    BY <1>2, <1>4, <1>a
  <2>2. e = all[1].with
    BY <1>2, <2>1, FirstIs, Zenon
  <2> QED  BY <1>1, <1>2, <1>3, <1>a, <2>2, AnswerFact
<1>b. ASSUME resp.status # 200, resp.type = "json", ClientSupports(resp.compression),
             resp.json = Absent \/ resp.json \in Dicts
      PROVE  ReceiveUnary = Told(FromResponse(resp))
  <2>1. all[5].applies /\ 7 \in Nat /\ 5 \in 1..7
    BY <1>2, <1>4, <1>b
  <2>2. ~all[1].applies /\ ~all[2].applies /\ ~all[3].applies /\ ~all[4].applies
    BY <1>2, <1>4, <1>5, <1>b
  <2>3. \A i \in 1..7 : i < 5 => ~all[i].applies
    BY <2>2
  <2>4. e = all[5].with
    BY <1>2, <2>1, <2>3, FirstIs, Zenon
  <2> QED  BY <1>1, <1>2, <1>3, <1>b, <2>4, AnswerFact
<1>c. ASSUME resp.status = 200, resp.type \in {"none", "html"}
      PROVE  ReceiveUnary = Told(Raised("unknown"))
  <2>1. all[2].applies /\ 7 \in Nat /\ 2 \in 1..7 /\ ~all[1].applies
    BY <1>2, <1>4, <1>c
  <2>3. \A i \in 1..7 : i < 2 => ~all[i].applies
    BY <2>1
  <2>4. e = all[2].with
    BY <1>2, <2>1, <2>3, FirstIs, Zenon
  <2> QED  BY <1>1, <1>2, <1>3, <2>4, RaisedFact, SomeCodes
<1>d. ASSUME resp.status = 200, resp.type = "unary", resp.codec = client.codec,
             ClientSupports(resp.compression), resp.body # <<>>
      PROVE  ReceiveUnary = IF ClientTooLarge(resp.body[1])
                            THEN Told(Raised("resource_exhausted")) ELSE Success(resp.body)
  <2>1. /\ ~all[1].applies /\ ~all[2].applies /\ ~all[3].applies /\ ~all[4].applies
        /\ ~all[5].applies /\ ~all[6].applies
    BY <1>2, <1>4, <1>5, <1>d
  <2>2. CASE ClientTooLarge(resp.body[1])
    <3>1. all[7].applies /\ 7 \in Nat /\ 7 \in 1..7
      BY <1>2, <1>5, <1>d, <2>2
    <3>2. \A i \in 1..7 : i < 7 => ~all[i].applies
      BY <2>1
    <3>3. e = all[7].with
      <4> DEFINE k == 7
      <4>1. k \in 1..7 /\ all[k].applies /\ \A i \in 1..7 : i < k => ~all[i].applies
        BY <3>1, <3>2
      <4> HIDE DEF k
      <4>2. e = all[k].with
        BY <1>2, <3>1, <4>1, FirstIs
      <4> QED  BY <4>2 DEF k
    <3> QED  BY <1>1, <1>2, <1>3, <2>2, <3>3, RaisedFact, SomeCodes
  <2>3. CASE ~ClientTooLarge(resp.body[1])
    <3>1. ~all[7].applies /\ 7 \in Nat
      BY <1>2, <1>5, <1>d, <2>3
    <3>2. \A i \in 1..7 : ~all[i].applies
      BY <2>1, <3>1
    <3>3. e = Absent
      BY <1>2, <3>1, <3>2, NoneIs, Zenon
    <3> QED  BY <1>1, <2>3, <3>3
  <2> QED  BY <2>2, <2>3
<1> QED  BY <1>a, <1>b, <1>c, <1>d

\* And of any other call.
LEMMA ReceiveStreamFact ==
    /\ (resp.status # 200 /\ (resp.json = Absent \/ resp.json \in Dicts))
            => ReceiveStream = Told(FromResponse(resp))
    /\ (resp.status = 200 /\ resp.type # RequestContext(TRUE).type)
            => ReceiveStream = Told(Raised("unknown"))
    /\ (/\ resp.status = 200 /\ resp.type = RequestContext(TRUE).type
        /\ resp.codec = client.codec /\ ClientSupports(resp.compression))
            => LET read == ReadResponse
                   single == Single(read, Absent)
               IN  ReceiveStream =
                     IF asked.method.kind \in OneResponse
                     THEN IF single = Absent THEN Success(read.good) ELSE Told(single)
                     ELSE [ok |-> read.error = Absent, messages |-> read.good,
                           error |-> read.error]
<1> DEFINE c1 == Check(resp.status # 200, FromResponse(resp))
           c2 == Check(resp.type # RequestContext(TRUE).type, Raised("unknown"))
           c3 == Check(resp.codec # client.codec, Raised("internal"))
           c4 == Check(~ClientSupports(resp.compression), Raised("internal"))
           all == <<c1>> \o <<c2, c3>> \o <<c4>>
           e == FirstOf(all, Absent)
           read == ReadResponse
           single == Single(read, Absent)
           rest == IF asked.method.kind \in OneResponse
                   THEN IF single = Absent THEN Success(read.good) ELSE Told(single)
                   ELSE [ok |-> read.error = Absent, messages |-> read.good,
                         error |-> read.error]
<1>1. ReceiveStream = IF e # Absent THEN Told(e) ELSE rest
  BY DEF ReceiveStream, ValidateStreamResponse, HandleResponseCompression
<1>2. DOMAIN all = 1..4 /\ all[1] = c1 /\ all[2] = c2 /\ all[3] = c3 /\ all[4] = c4
  <2> HIDE DEF c1, c2, c3, c4
  <2> QED  BY FourChecks
<1>3. /\ c1.with = FromResponse(resp) /\ c2.with = Raised("unknown")
      /\ c1.applies <=> resp.status # 200
      /\ c2.applies <=> resp.type # RequestContext(TRUE).type
      /\ c3.applies <=> resp.codec # client.codec
      /\ c4.applies <=> ~ClientSupports(resp.compression)
  BY DEF Check
<1> HIDE DEF c1, c2, c3, c4, all, rest
<1>a. ASSUME resp.status # 200, resp.json = Absent \/ resp.json \in Dicts
      PROVE  ReceiveStream = Told(FromResponse(resp))
  <2>1. all[1].applies /\ 4 \in Nat /\ 1 \in 1..4 /\ \A i \in 1..4 : i < 1 => ~all[i].applies
    BY <1>2, <1>3, <1>a
  <2>2. e = all[1].with
    BY <1>2, <2>1, FirstIs, Zenon
  <2> QED  BY <1>1, <1>2, <1>3, <1>a, <2>2, AnswerFact
<1>b. ASSUME resp.status = 200, resp.type # RequestContext(TRUE).type
      PROVE  ReceiveStream = Told(Raised("unknown"))
  <2>0. 4 \in Nat /\ 2 \in 1..4
    OBVIOUS
  <2>1. all[2].applies /\ ~all[1].applies
    BY <1>2, <1>3, <1>b
  <2>2. \A i \in 1..4 : i < 2 => ~all[i].applies
    BY <2>1
  <2>3. e = all[2].with
    BY <1>2, <2>0, <2>1, <2>2, FirstIs, Zenon
  <2> QED  BY <1>1, <1>2, <1>3, <2>3, RaisedFact, SomeCodes
<1>c. ASSUME resp.status = 200, resp.type = RequestContext(TRUE).type,
             resp.codec = client.codec, ClientSupports(resp.compression)
      PROVE  ReceiveStream = rest
  <2>1. ~all[1].applies /\ ~all[2].applies /\ ~all[3].applies /\ ~all[4].applies
    BY <1>2, <1>3, <1>c
  <2>2. 4 \in Nat /\ \A i \in 1..4 : ~all[i].applies
    BY <2>1
  <2>3. e = Absent
    BY <1>2, <2>2, NoneIs, Zenon
  <2> QED  BY <1>1, <2>3
<1> QED  BY <1>a, <1>b, <1>c DEF rest

\* A call of one response is told of it, or why there is none.
LEMMA SingleFact ==
    ASSUME NEW read, NEW S, read.good \in Seq(S)
    PROVE  /\ (Len(read.good) = 1 /\ read.error = Absent) => Single(read, Absent) = Absent
           /\ (Len(read.good) <= 1 /\ read.error # Absent)
                    => Single(read, Absent) = read.error
           /\ \/ Single(read, Absent) \in {Raised("unimplemented"), read.error}
              \/ Single(read, Absent) = Absent
           /\ Single(read, Absent) = Absent => read.error = Absent
<1> DEFINE c1 == Check(Len(read.good) > 1, Raised("unimplemented"))
           c2 == Check(read.error # Absent, read.error)
           c3 == Check(read.good = <<>>, Raised("unimplemented"))
           all == <<c1, c2, c3>>
           e == FirstOf(all, Absent)
<1>1. Single(read, Absent) = e
  BY DEF Single
<1>2. DOMAIN all = 1..3 /\ all[1] = c1 /\ all[2] = c2 /\ all[3] = c3
  <2> HIDE DEF c1, c2, c3
  <2> QED  OBVIOUS
<1>3. /\ c1.with = Raised("unimplemented") /\ c2.with = read.error
      /\ c3.with = Raised("unimplemented")
      /\ c1.applies <=> Len(read.good) > 1
      /\ c2.applies <=> read.error # Absent
      /\ c3.applies <=> read.good = <<>>
  BY DEF Check
<1> HIDE DEF c1, c2, c3, all
<1>4. 3 \in Nat /\ 1 \in 1..3 /\ 2 \in 1..3
  OBVIOUS
<1>a. ASSUME Len(read.good) = 1, read.error = Absent
      PROVE  e = Absent
  <2>1. read.good # <<>> /\ ~(Len(read.good) > 1)
    BY <1>a
  <2>2. ~all[1].applies /\ ~all[2].applies /\ ~all[3].applies
    BY <1>2, <1>3, <1>a, <2>1
  <2>3. \A i \in 1..3 : ~all[i].applies
    BY <2>2
  <2> QED  BY <1>2, <1>4, <2>3, NoneIs, Zenon
<1>b. ASSUME Len(read.good) <= 1, read.error # Absent
      PROVE  e = read.error
  <2>0. ~(Len(read.good) > 1)
    BY <1>b
  <2>1. ~all[1].applies /\ all[2].applies
    BY <1>2, <1>3, <1>b, <2>0
  <2>2. \A i \in 1..3 : i < 2 => ~all[i].applies
    BY <2>1
  <2>3. e = all[2].with
    BY <1>2, <1>4, <2>1, <2>2, FirstIs, Zenon
  <2> QED  BY <1>2, <1>3, <2>3
<1>5. \/ e = Absent /\ \A i \in 1..3 : ~all[i].applies
      \/ \E i \in 1..3 : all[i].applies /\ e = all[i].with
  BY <1>2, <1>4, FirstOfFact, Zenon
<1>6. CASE e = Absent /\ \A i \in 1..3 : ~all[i].applies
  <2>1. read.error = Absent
    BY <1>2, <1>3, <1>4, <1>6
  <2> QED  BY <1>1, <1>a, <1>b, <1>6, <2>1
<1>7. CASE \E i \in 1..3 : all[i].applies /\ e = all[i].with
  <2>1. PICK i \in 1..3 : all[i].applies /\ e = all[i].with
    BY <1>7
  <2>2. i = 1 \/ i = 2 \/ i = 3
    OBVIOUS
  <2>3. /\ e = Raised("unimplemented") \/ e = read.error
        /\ e # Absent
    BY <1>2, <1>3, <2>1, <2>2, RaisedFact, SomeCodes
  <2> QED  BY <1>1, <1>a, <1>b, <2>3
<1> QED  BY <1>5, <1>6, <1>7

\* Of a body that is read to the end the caller gets its messages, in order, and
\* what the end says; a body with a message beyond the limit is an error.
BodyFits == \A i \in DOMAIN resp.body : ~ClientTooLarge(resp.body[i])

LEMMA ReadResponseFact ==
    ASSUME resp.body \in Seq(Messages)
    PROVE  /\ BodyFits => ReadResponse = [good |-> resp.body, error |-> HandleResponseComplete]
           /\ ~BodyFits => /\ ReadResponse.error = Raised("resource_exhausted")
                           /\ ReadResponse.good \in Seq(Messages)
                           /\ Len(ReadResponse.good) < Len(resp.body)
<1> DEFINE large == {i \in DOMAIN resp.body : ClientTooLarge(resp.body[i])}
<1>1. BodyFits <=> large = {}
  BY DEF BodyFits
<1>2. large = {} => ReadResponse = [good |-> resp.body, error |-> HandleResponseComplete]
  BY DEF ReadResponse
<1>3. ASSUME large # {}
      PROVE  /\ ReadResponse.error = Raised("resource_exhausted")
             /\ ReadResponse.good \in Seq(Messages)
             /\ Len(ReadResponse.good) < Len(resp.body)
  <2>1. large \in SUBSET Nat /\ large \subseteq 1..Len(resp.body)
    OBVIOUS
  <2>2. Min(large) \in large
    BY <1>3, <2>1, MinFact
  <2> DEFINE n == Min(large)
  <2>3. ReadResponse = [good |-> SubSeq(resp.body, 1, n - 1),
                        error |-> Raised("resource_exhausted")]
    BY <1>3 DEF ReadResponse
  <2>4. n \in 1..Len(resp.body)
    <3> HIDE DEF large
    <3> QED  BY <2>1, <2>2
  <2> HIDE DEF n
  <2>5. Len(resp.body) \in Nat
    OBVIOUS
  <2>6. /\ SubSeq(resp.body, 1, n - 1) \in Seq(Messages)
        /\ Len(SubSeq(resp.body, 1, n - 1)) = n - 1
    BY <2>4
  <2> QED  BY <2>3, <2>4, <2>5, <2>6
<1> QED  BY <1>1, <1>2, <1>3


\* An answer that frames can be read from, as a caller of the stream sees it.
Framed ==
    /\ resp.status = 200 /\ resp.type = RequestContext(TRUE).type
    /\ resp.codec = client.codec /\ ClientSupports(resp.compression)
    /\ resp.body \in Seq(Messages)

LEMMA FramedFact ==
    ASSUME Framed
    PROVE  LET one == asked.method.kind \in OneResponse
               said == HandleResponseComplete
           IN  /\ ReceiveStream.ok = (ReceiveStream.error = Absent)
               /\ ReceiveStream.ok => said = Absent /\ ReceiveStream.messages = resp.body
               /\ ~ReceiveStream.ok =>
                    ReceiveStream.error \in
                        {Raised("unimplemented"), Raised("resource_exhausted"), said}
               /\ (BodyFits /\ said = Absent /\ (one => Len(resp.body) = 1))
                    => ReceiveStream = Success(resp.body)
               /\ (BodyFits /\ said # Absent /\ (one => Len(resp.body) <= 1))
                    => ~ReceiveStream.ok /\ ReceiveStream.error = said
               /\ (~BodyFits /\ (one => Len(resp.body) = 1))
                    => /\ ~ReceiveStream.ok
                       /\ ReceiveStream.error = Raised("resource_exhausted")
<1> DEFINE one == asked.method.kind \in OneResponse
           said == HandleResponseComplete
           read == ReadResponse
           single == Single(read, Absent)
           r == ReceiveStream
<1>1. r = IF one THEN IF single = Absent THEN Success(read.good) ELSE Told(single)
          ELSE [ok |-> read.error = Absent, messages |-> read.good, error |-> read.error]
  BY ReceiveStreamFact DEF Framed
<1>2. /\ \A m : Success(m) = [ok |-> TRUE, messages |-> m, error |-> Absent]
      /\ \A e : Told(e) = [ok |-> FALSE, messages |-> <<>>, error |-> e]
  BY DEF Success, Told
<1>3. resp.body \in Seq(Messages) /\ Len(resp.body) \in Nat
  BY DEF Framed
<1>4. Raised("resource_exhausted") # Absent /\ Raised("unimplemented") # Absent
  BY RaisedFact, SomeCodes
<1>5. CASE BodyFits
  <2>1. read.good = resp.body /\ read.error = said
    BY <1>3, <1>5, ReadResponseFact
  <2>2. /\ (Len(resp.body) = 1 /\ said = Absent) => single = Absent
        /\ (Len(resp.body) <= 1 /\ said # Absent) => single = said
        /\ single \in {Raised("unimplemented"), said} \/ single = Absent
        /\ single = Absent => said = Absent
    <3> HIDE DEF read, said
    <3> QED  BY <1>3, <2>1, SingleFact
  <2> HIDE DEF r, single, said, read
  <2>3. CASE one
    <3>1. CASE single = Absent
      <4>1. r = Success(resp.body) /\ said = Absent
        BY <1>1, <2>1, <2>2, <2>3, <3>1
      <4> HIDE DEF one
      <4> QED  BY <1>2, <1>5, <2>2, <3>1, <4>1 DEF r, said
    <3>2. CASE single # Absent
      <4>1. r = Told(single) /\ single \in {Raised("unimplemented"), said}
        BY <1>1, <2>2, <2>3, <3>2
      <4> HIDE DEF one
      <4> QED  BY <1>2, <1>5, <2>2, <2>3, <3>2, <4>1 DEF r, said, one
    <3> QED  BY <3>1, <3>2
  <2>4. CASE ~one
    <3>1. r = [ok |-> said = Absent, messages |-> resp.body, error |-> said]
      BY <1>1, <2>1, <2>4
    <3>2. r.ok = (said = Absent) /\ r.messages = resp.body /\ r.error = said
      BY <3>1
    <3>3. said = Absent => r = Success(resp.body)
      BY <3>1, <1>2
    <3> HIDE DEF one
    <3> QED  BY <1>5, <2>4, <3>2, <3>3 DEF r, said, one
  <2> QED  BY <2>3, <2>4
<1>6. CASE ~BodyFits
  <2> DEFINE large == Raised("resource_exhausted")
  <2>1. /\ read.good \in Seq(Messages) /\ read.error = large
        /\ Len(read.good) < Len(resp.body) /\ Len(read.good) \in Nat
    <3>1. /\ read.good \in Seq(Messages) /\ read.error = large
          /\ Len(read.good) < Len(resp.body)
      BY <1>3, <1>6, ReadResponseFact
    <3> HIDE DEF read
    <3> QED  BY <3>1
  <2>2. /\ Len(resp.body) = 1 => single = large
        /\ single \in {Raised("unimplemented"), large}
    <3>1. Len(resp.body) = 1 => Len(read.good) <= 1
      BY <1>3, <2>1
    <3> HIDE DEF read
    <3> QED  BY <1>4, <2>1, <3>1, SingleFact
  <2> HIDE DEF r, single, said, read
  <2>3. CASE one
    <3>1. r = Told(single) /\ single # Absent
      BY <1>1, <1>4, <2>2, <2>3
    <3>2. ~r.ok /\ r.error = single
      BY <1>2, <3>1
    <3>3. r.ok = (r.error = Absent)
      BY <1>2, <3>1
    <3> HIDE DEF one
    <3> QED  BY <1>6, <2>2, <2>3, <3>2, <3>3 DEF r, said, one
  <2>4. CASE ~one
    <3>1. r = [ok |-> large = Absent, messages |-> read.good, error |-> large]
      BY <1>1, <2>1, <2>4
    <3>2. r.ok = (r.error = Absent) /\ r.error = large
      BY <3>1
    <3> HIDE DEF one
    <3> QED  BY <1>4, <1>6, <2>4, <3>2 DEF r, said, one
  <2> QED  BY <2>3, <2>4
<1> QED  BY <1>5, <1>6

-----------------------------------------------------------------------------
(* What an answer says of what the service did.                            *)

Exceptions == ConnectErrors \cup Others
AllOutcomes == [messages : Seq(Messages), error : Exceptions \cup {Absent},
                trailers : GrpcTrailers]

\* What a caller is told of the error of an outcome.
Conveyed(told, o) == told # Absent /\ Conveys(told, o)

\* The end of a stream says what the service did.
LEMMA SaidFact ==
    ASSUME NEW o \in AllOutcomes, resp.end = End(o), Protocol = client.protocol
    PROVE  /\ o.error = Absent => HandleResponseComplete = Absent
           /\ o.error # Absent => Conveyed(HandleResponseComplete, o)
           /\ resp.end # Absent
<1> DEFINE error == FromException(o.error)
<1>0. o.trailers \in GrpcTrailers /\ o.error \in Exceptions \cup {Absent}
  BY DEF AllOutcomes
<1>1. o.error # Absent => error \in ConnectErrors /\ error # Absent
  BY <1>0, FromExceptionFact DEF Exceptions
<1>2. CASE Protocol = "connect"
  <2>1. CASE o.error = Absent
    <3>1. resp.end = [error |-> Absent]
      BY <1>2, <2>1 DEF End
    <3>2. resp.end \in ConnectEnds /\ resp.end.error = Absent
      BY <3>1 DEF ConnectEnds
    <3>3. resp.end # Absent
      BY <3>2, AbsentAssumption DEF AbsentAssumption
    <3> QED  BY <1>2, <2>1, <3>2, <3>3 DEF HandleResponseComplete
  <2>2. CASE o.error # Absent
    <3>1. resp.end = [error |-> ToDict(error)]
      BY <1>1, <1>2, <2>2 DEF End
    <3> DEFINE told == FromDict(ToDict(error), 500, "unknown")
    <3>2. /\ ToDict(error) \in Dicts /\ ToDict(error) # Absent
          /\ told # Absent /\ told.code = error.code /\ told.message = error.message
          /\ Len(told.details) = Len(error.details)
          /\ \A i \in DOMAIN error.details :
                error.details[i].prefix = "usual" => told.details[i] = error.details[i]
      <4> HIDE DEF error
      <4> QED  BY <1>1, <2>2, SomeCodes, JsonFact
    <3>3. resp.end.error = ToDict(error)
      BY <3>1
    <3>4. resp.end # Absent
      <4> HIDE DEF error
      <4>1. resp.end \in ConnectEnds
        BY <3>1, <3>2 DEF ConnectEnds
      <4> QED  BY <4>1, AbsentAssumption DEF AbsentAssumption
    <3> HIDE DEF error
    <3>5. HandleResponseComplete = told
      BY <1>2, <3>2, <3>3, <3>4 DEF HandleResponseComplete
    <3> HIDE DEF told
    <3>6. Conveyed(told, o)
      BY <1>2, <3>2 DEF Conveyed, Conveys, NoTrailersOfItsOwn, error
    <3> QED  BY <2>2, <3>4, <3>5, <3>6
  <2> QED  BY <2>1, <2>2
<1>3. CASE Protocol # "connect"
  <2>1. CASE o.error = Absent
    <3>1. resp.end = GrpcEnd(o.trailers, Absent)
      BY <1>3, <2>1 DEF End
    <3>2. resp.end # Absent /\ resp.end.status = 0
      BY <1>0, <3>1, GrpcDone
    <3> QED  BY <1>3, <2>1, <3>2 DEF HandleResponseComplete
  <2>2. CASE o.error # Absent
    <3>1. resp.end = GrpcEnd(o.trailers, error)
      BY <1>3, <2>2 DEF End
    <3> HIDE DEF error
    <3>2. /\ resp.end # Absent /\ resp.end.status # 0
          /\ resp.end \in GrpcTrailers /\ resp.end.status # Absent
          /\ GrpcError(resp.end) =
                IF error.details = <<>> /\ o.trailers.details # Absent
                THEN ConnectError(Get(GrpcCodes, o.trailers.details.code, "unknown"),
                                  o.trailers.details.message, o.trailers.details.details)
                ELSE ConnectError(error.code,
                        IF /\ error.details = <<>> /\ error.message = NoText
                           /\ o.trailers.message # Absent
                        THEN o.trailers.message ELSE error.message,
                        error.details)
      BY <1>0, <1>1, <2>2, <3>1, GrpcFact
    <3>3. GrpcError(resp.end) # Absent
      BY <3>2, GrpcErrorFact
    <3>4. HandleResponseComplete = GrpcError(resp.end)
      BY <1>3, <3>2 DEF HandleResponseComplete
    <3>5. Conveyed(GrpcError(resp.end), o)
      BY <1>3, <3>2, <3>3 DEF Conveyed, Conveys, ConnectError, error
    <3> QED  BY <2>2, <3>2, <3>4, <3>5
  <2> QED  BY <2>1, <2>2
<1> QED  BY <1>2, <1>3

LEMMA HandleErrorFact ==
    ASSUME NEW e \in Exceptions
    PROVE  LET error == FromException(e)
           IN  HandleError(e) =
                 [status |-> HttpOfCode(error.code), type |-> "json", codec |-> "json",
                  compression |-> Absent, body |-> <<>>, json |-> ToDict(error),
                  end |-> Absent]
  BY FromExceptionFact DEF HandleError, Plain, Exceptions

\* What a JSON answer says is the error, whoever reads it.
LEMMA FailedFact ==
    ASSUME NEW e \in Exceptions, resp = HandleError(e), NEW r \in {ReceiveUnary, ReceiveStream}
    PROVE  LET error == FromException(e)
           IN  /\ ~r.ok /\ r.error # Absent
               /\ r.error.code = error.code /\ r.error.message = error.message
               /\ Len(r.error.details) = Len(error.details)
               /\ \A i \in DOMAIN error.details :
                    error.details[i].prefix = "usual" => r.error.details[i] = error.details[i]
<1> DEFINE error == FromException(e)
           told == FromDict(ToDict(error), resp.status, "unavailable")
<1>1. error \in ConnectErrors /\ error.code \in Codes
  <2>1. error \in ConnectErrors
    BY FromExceptionFact DEF Exceptions
  <2> HIDE DEF error
  <2> QED  BY <2>1 DEF ConnectErrors
<1>2. resp.status = HttpOfCode(error.code) /\ resp.type = "json"
        /\ resp.compression = Absent /\ resp.json = ToDict(error)
  BY HandleErrorFact
<1> HIDE DEF error
<1>3. resp.status # 200
  BY <1>1, <1>2, CodeFact
<1>4. /\ ToDict(error) \in Dicts /\ ToDict(error) # Absent
      /\ told # Absent /\ told.code = error.code /\ told.message = error.message
      /\ Len(told.details) = Len(error.details)
      /\ \A i \in DOMAIN error.details :
            error.details[i].prefix = "usual" => told.details[i] = error.details[i]
  BY <1>1, SomeCodes, JsonFact
<1>5. FromResponse(resp) = told
  BY <1>2, <1>4 DEF FromResponse
<1>6. r = Told(told)
  BY <1>2, <1>3, <1>4, <1>5, ReceiveUnaryFact, ReceiveStreamFact DEF ClientSupports
<1> HIDE DEF told
<1>7. ~r.ok /\ r.error = told
  BY <1>6 DEF Told
<1> QED  BY <1>4, <1>7 DEF error

\* A status alone is no reason of the service's own.
LEMMA HttpFact ==
    ASSUME NEW s \in 300..599, resp = HandleError(HTTPException(s)),
           NEW r \in {ReceiveUnary, ReceiveStream}
    PROVE  ~r.ok /\ r.error # Absent /\ r.error.code \notin ServicesOwn
<1>1. resp = [status |-> s, type |-> "none", codec |-> "json", compression |-> Absent,
              body |-> <<>>, json |-> Absent, end |-> Absent]
  BY DEF HandleError, HTTPException, Plain
<1>2. resp.status # 200 /\ resp.type # "json" /\ resp.json = Absent
  BY <1>1
<1>3. FromResponse(resp) = FromHttpStatus(resp.status)
  BY <1>2 DEF FromResponse
<1>4. r = Told(FromHttpStatus(resp.status))
  BY <1>2, <1>3, ReceiveUnaryFact, ReceiveStreamFact
<1>5. ~r.ok /\ r.error = FromHttpStatus(resp.status)
  BY <1>4 DEF Told
<1> QED  BY <1>2, <1>5, AnswerFact

\* The method that is printed under a name.
-----------------------------------------------------------------------------
(* The URL of a printed method, and the endpoint it finds.                 *)

Printed(method) == Winner(setting.service, LocalName(method))

LEMMA MaxFact ==
    ASSUME NEW n \in Nat, NEW S \in SUBSET (1..n), S # {}
    PROVE  Max(S) \in S
<1> DEFINE T == {n - i : i \in S}
<1>1. T \in SUBSET Nat /\ T # {}
  <2>1. PICK i \in S : TRUE
    OBVIOUS
  <2>2. n - i \in T
    BY <2>1
  <2>3. \A i1 \in S : n - i1 \in Nat
    OBVIOUS
  <2> QED  BY <2>2, <2>3
<1>2. Min(T) \in T /\ \A j \in T : Min(T) <= j
  <2> HIDE DEF T
  <2> QED  BY <1>1, MinFact
<1>3. PICK x \in S : Min(T) = n - x
  BY <1>2
<1>4. \A y \in S : n - x <= n - y
  BY <1>2, <1>3
<1>5. \A y \in S : x >= y
  BY <1>4
<1> QED  BY <1>5 DEF Max

\* The last method of a name is one of that name.
LEMMA WinnerFact ==
    ASSUME setting \in Settings, NEW l \in Locals(setting.service)
    PROVE  /\ Winner(setting.service, l) \in Methods(setting.service)
           /\ LocalName(Winner(setting.service, l)) = l
<1> DEFINE ms == setting.service.methods
           named == {i \in DOMAIN ms : LocalName(ms[i]) = l}
<1>1. ms \in Seq(Methods(setting.service))
  BY DeploymentAssumption DEF DeploymentAssumption
<1>2. Len(ms) \in Nat /\ DOMAIN ms = 1..Len(ms)
  BY <1>1
<1>3. named # {}
  BY DEF Locals, Methods
<1>4. named \in SUBSET (1..Len(ms))
  BY <1>2
<1>5. Max(named) \in named
  <2> HIDE DEF named
  <2> QED  BY <1>2, <1>3, <1>4, MaxFact
<1>6. Winner(setting.service, l) = ms[Max(named)]
  BY DEF Winner
<1>7. Max(named) \in DOMAIN ms /\ LocalName(ms[Max(named)]) = l
  BY <1>5
<1> HIDE DEF named
<1> QED  BY <1>6, <1>7 DEF Methods

\* Two shapes that take and give the same are one.
LEMMA KindFact ==
    ASSUME NEW a \in Kinds, NEW b \in Kinds, TakesOf(a) = TakesOf(b), GivesOf(a) = GivesOf(b)
    PROVE  a = b
  BY DEF Kinds, TakesOf, GivesOf, OneRequest, OneResponse

LEMMA MethodFact ==
    ASSUME setting \in Settings, NEW m \in Methods(setting.service)
    PROVE  /\ m.kind \in Kinds /\ LocalName(m) \in Locals(setting.service)
           /\ \A n \in Methods(setting.service) :
                MethodUrl(setting.service, n) = MethodUrl(setting.service, m) => n = m
<1>1. /\ m.kind \in Kinds
      /\ \A n \in Methods(setting.service) : m.name = n.name => m = n
  BY DeploymentAssumption DEF DeploymentAssumption
<1>2. ASSUME NEW n \in Methods(setting.service),
             MethodUrl(setting.service, n) = MethodUrl(setting.service, m)
      PROVE  n.name = m.name
  BY <1>2 DEF MethodUrl
<1> QED  BY <1>1, <1>2 DEF Locals

Follows(abc, a, bc) ==
    /\ DOMAIN abc = 1..3 /\ Len(abc) = 3
    /\ SubSeq(abc, 2, 3) = bc /\ IsPrefix(<<a>>, abc)

LEMMA TupleFact ==
    ASSUME NEW a, NEW b, NEW c
    PROVE  /\ Tail(<<a, b>>) = <<b>> /\ <<a>> \o <<b>> = <<a, b>>
           /\ Follows(<<a>> \o <<b, c>>, a, <<b, c>>)
<1> DEFINE S == {a, b, c}
           s == <<a>>
           t == <<b>>
           u == <<b, c>>
           v == <<a, b>>
           abc == s \o u
           ab == s \o t
<1>1. /\ s \in Seq(S) /\ t \in Seq(S) /\ u \in Seq(S) /\ v \in Seq(S)
      /\ Len(s) = 1 /\ Len(t) = 1 /\ Len(u) = 2 /\ Len(v) = 2
      /\ s[1] = a /\ t[1] = b /\ u[1] = b /\ u[2] = c /\ v[1] = a /\ v[2] = b
  OBVIOUS
<1>2. Tail(v) = t
  OBVIOUS
<1> HIDE DEF S, s, t, u, v
<1>3. /\ ab \in Seq(S) /\ Len(ab) = Len(s) + Len(t)
      /\ \A i \in 1..Len(s) + Len(t) : ab[i] = IF i <= Len(s) THEN s[i] ELSE t[i - Len(s)]
  BY <1>1, ConcatProperties
<1>4. /\ abc \in Seq(S) /\ Len(abc) = Len(s) + Len(u)
      /\ \A i \in 1..Len(s) + Len(u) : abc[i] = IF i <= Len(s) THEN s[i] ELSE u[i - Len(s)]
  BY <1>1, ConcatProperties
<1> HIDE DEF ab, abc
<1>5. ab = v
  <2>1. Len(ab) = Len(v) /\ \A i \in 1..Len(ab) : ab[i] = v[i]
    BY <1>1, <1>3
  <2> QED  BY <1>1, <1>3, <2>1, SeqEqual
<1>6. Len(abc) = 3 /\ DOMAIN abc = 1..3 /\ abc[1] = a /\ abc[2] = b /\ abc[3] = c
  BY <1>1, <1>4
<1>7. SubSeq(abc, 2, 3) = u
  <2>1. /\ SubSeq(abc, 2, 3) \in Seq(S) /\ Len(SubSeq(abc, 2, 3)) = 2
        /\ SubSeq(abc, 2, 3)[1] = abc[2] /\ SubSeq(abc, 2, 3)[2] = abc[3]
    <3>1. /\ SubSeq(abc, 2, 3) \in Seq(S)
          /\ Len(SubSeq(abc, 2, 3)) = 3 - 2 + 1
          /\ \A i \in 1..(3 - 2 + 1) : SubSeq(abc, 2, 3)[i] = abc[2 + i - 1]
      BY <1>4, <1>6, SubSeqProperties
    <3> QED  BY <3>1
  <2>2. \A i \in 1..2 : SubSeq(abc, 2, 3)[i] = u[i]
    BY <1>1, <1>6, <2>1
  <2> QED  BY <1>1, <2>1, <2>2, SeqEqual
<1>8. IsPrefix(s, abc)
  <2>1. /\ SubSeq(abc, 1, 1) \in Seq(S) /\ Len(SubSeq(abc, 1, 1)) = 1
        /\ SubSeq(abc, 1, 1)[1] = abc[1]
    BY <1>4, <1>6
  <2>2. /\ SubSeq(s, 1, 1) \in Seq(S) /\ Len(SubSeq(s, 1, 1)) = 1
        /\ SubSeq(s, 1, 1)[1] = s[1]
    BY <1>1
  <2>3. SubSeq(abc, 1, 1) = SubSeq(s, 1, 1)
    <3>1. \A i \in 1..1 : SubSeq(abc, 1, 1)[i] = SubSeq(s, 1, 1)[i]
      BY <1>1, <1>6, <2>1, <2>2
    <3> QED  BY <2>1, <2>2, <3>1, SeqEqual
  <2> QED  BY <1>1, <1>6, <2>3 DEF IsPrefix
<1>9. Follows(abc, a, u)
  BY <1>6, <1>7, <1>8 DEF Follows, s
<1> QED  BY <1>2, <1>5, <1>9 DEF ab, abc, s, t, u, v

UnderApi(url) == <<"api">> \o url

LEMMA UnderApiFact ==
    ASSUME NEW b, NEW c
    PROVE  /\ DOMAIN UnderApi(<<b, c>>) = 1..3 /\ Len(UnderApi(<<b, c>>)) = 3
           /\ SubSeq(UnderApi(<<b, c>>), 2, 3) = <<b, c>>
           /\ IsPrefix(<<"api">>, UnderApi(<<b, c>>))
<1>1. Follows(UnderApi(<<b, c>>), "api", <<b, c>>)
  BY TupleFact DEF UnderApi
<1> QED  BY <1>1 DEF Follows

\* Wherever an application is mounted, it finds the endpoint of a method's URL.
LEMMA PathFact ==
    ASSUME setting \in Settings, NEW m \in Methods(setting.service),
           req.url = MethodUrl(setting.service, m)
    PROVE  /\ Path \in DOMAIN Application.endpoints
           /\ Application.endpoints[Path] = Endpoint(setting.service, m, setting.option)
<1> DEFINE urls == {MethodUrl(setting.service, n) : n \in Methods(setting.service)}
           url == req.url
           type == setting.service.type
           at == Presented(url)
<1>1. /\ Application.endpoints = Endpoints(setting.service, setting.option)
      /\ Application.path = <<type>>
  BY DEF Application, AsgiApplication, WsgiApplication
<1>2. DOMAIN Application.endpoints = urls
  BY <1>1 DEF Endpoints
<1>3. url = <<type, m.name>> /\ url \in urls
  BY DEF MethodUrl
<1>4. \A u \in urls : DOMAIN u = 1..2
  BY DEF MethodUrl
<1>5. \A x : <<x>> \notin urls
  <2>1. \A x : DOMAIN <<x>> = 1..1
    OBVIOUS
  <2>2. 1..1 # 1..2
    <3>1. 2 \in 1..2 /\ 2 \notin 1..1
      OBVIOUS
    <3> QED  BY <3>1
  <2> HIDE DEF urls
  <2> QED  BY <1>4, <2>1, <2>2
<1>6. /\ Tail(url) = <<m.name>> /\ <<type>> \o Tail(url) = url /\ url[1] = type
  <2> HIDE DEF url, type, urls
  <2> QED  BY <1>3, TupleFact
<1> DEFINE api == UnderApi(url)
<1>7. DOMAIN api = 1..3 /\ Len(api) = 3 /\ SubSeq(api, 2, 3) = url /\ IsPrefix(<<"api">>, api)
  <2> HIDE DEF url, type, urls
  <2> QED  BY <1>3, UnderApiFact
<1>8. api \notin urls
  <2>1. 1..3 # 1..2
    <3>1. 3 \in 1..3 /\ 3 \notin 1..2
      OBVIOUS
    <3> QED  BY <3>1
  <2> HIDE DEF urls, api
  <2> QED  BY <1>4, <1>7, <2>1
<1>9. server.mount \in {"root", "service", "prefix"}
  BY DeploymentAssumption DEF DeploymentAssumption, server
<1>10. Path = url
  <2>1. CASE setting.flavor = "async"
    <3>1. Path = AsgiPath(at)
      BY <2>1 DEF Path
    <3>2. CASE server.mount # "prefix"
      <4>1. at.path = url
        BY <1>9, <2>1, <3>2 DEF Presented
      <4> HIDE DEF at, url, urls
      <4> QED  BY <1>2, <1>3, <3>1, <4>1 DEF AsgiPath
    <3>3. CASE server.mount = "prefix"
      <4>1. at.path = api /\ at.root = <<"api">>
        BY <2>1, <3>3 DEF Presented, UnderApi
      <4>2. Len(<<"api">>) + 1 = 2 /\ <<"api">> # <<>>
        OBVIOUS
      <4> HIDE DEF at, url, urls, api
      <4> QED  BY <1>2, <1>7, <1>8, <3>1, <4>1, <4>2 DEF AsgiPath
    <3> QED  BY <3>2, <3>3
  <2>2. CASE setting.flavor # "async"
    <3>1. Path = WsgiPath(at)
      BY <2>2 DEF Path
    <3>2. CASE server.mount # "service"
      <4>1. at.path = url
        BY <1>9, <2>2, <3>2 DEF Presented
      <4> HIDE DEF at, url, urls
      <4> QED  BY <1>2, <1>3, <3>1, <4>1 DEF WsgiPath
    <3>3. CASE server.mount = "service"
      <4>1. at.path = Tail(url) /\ at.root = <<url[1]>>
        BY <2>2, <3>3 DEF Presented
      <4> HIDE DEF at, url, urls
      <4> QED  BY <1>1, <1>2, <1>5, <1>6, <3>1, <4>1 DEF WsgiPath
    <3> QED  BY <3>2, <3>3
  <2> QED  BY <2>1, <2>2
<1>11. Application.endpoints[url] = Endpoint(setting.service,
            CHOOSE n \in Methods(setting.service) : MethodUrl(setting.service, n) = url,
            setting.option)
  BY <1>1, <1>3 DEF Endpoints
<1>12. (CHOOSE n \in Methods(setting.service) : MethodUrl(setting.service, n) = url) = m
  BY MethodFact
<1> QED  BY <1>2, <1>3, <1>10, <1>11, <1>12

\* A request on its way is that of the method printed under the caller's name,
\* which is of the caller's kind and made with what the library's client has.
Asking ==
    /\ setting \in Settings
    /\ asked.method \in Methods(setting.service) /\ asked.get \in BOOLEAN
    /\ asked.messages \in Payloads(asked.method.kind)
    /\ Printed(asked.method).kind = asked.method.kind
    /\ asked.get => SupportsGet(Printed(asked.method))
    /\ ExecuteMethod(asked.method.kind) \notin Locals(setting.service)
    /\ req = Request(Printed(asked.method), asked.get, asked.messages)

\* Callers send what decodes, and one message where one is taken.
LEMMA PayloadsFact ==
    ASSUME NEW kind, NEW messages \in Payloads(kind)
    PROVE  /\ messages \in Seq(Messages \ {"bad"}) /\ messages \in Seq(Messages)
           /\ kind \in OneRequest => Len(messages) = 1
<1>1. <<"small">> \in Seq(Messages \ {"bad"}) /\ <<"big">> \in Seq(Messages \ {"bad"})
  BY DEF Messages
<1>2. messages \in Seq(Messages \ {"bad"}) /\ (kind \in OneRequest => Len(messages) = 1)
  <2>1. CASE kind \in OneRequest
    <3>1. messages = <<"small">> \/ messages = <<"big">>
      BY <2>1 DEF Payloads
    <3> QED  BY <1>1, <3>1
  <2>2. CASE kind \notin OneRequest
    BY <2>2, DeploymentAssumption DEF Payloads, DeploymentAssumption
  <2> QED  BY <2>1, <2>2
<1>3. Seq(Messages \ {"bad"}) \subseteq Seq(Messages)
  <2>1. Messages \ {"bad"} \subseteq Messages
    OBVIOUS
  <2> QED  BY <2>1, SeqMonotonic, Zenon
<1> QED  BY <1>2, <1>3

\* What can be read off the request of a caller.
LEMMA AskingFact ==
    ASSUME Asking
    PROVE  LET printed == Printed(asked.method)
               enveloped == Enveloped(asked.method)
           IN  /\ printed \in Methods(setting.service)
               /\ LocalName(printed) = LocalName(asked.method)
               /\ printed.kind \in Kinds
               /\ req.body = asked.messages /\ req.codec = client.codec
               /\ req.compression = client.send
               /\ req.packed = (client.send # "identity")
               /\ req.accept = ResolveCompressions(client.accept)
               /\ req.url = MethodUrl(setting.service, printed)
               /\ Protocol = client.protocol
               /\ enveloped => req.http = "POST" /\ req.type = RequestContext(TRUE).type
               /\ ~enveloped => /\ client.protocol = "connect"
                                /\ req.http = "GET" => printed.level = "no_side_effects"
                                /\ req.http # "GET" => req.type = "unary"
                                /\ req.http \in {"GET", "POST"}
<1> DEFINE printed == Printed(asked.method)
           enveloped == Enveloped(printed)
           context == RequestContext(enveloped)
           get == asked.get
<1>1. /\ printed \in Methods(setting.service)
      /\ LocalName(printed) = LocalName(asked.method) /\ printed.kind \in Kinds
  <2>1. LocalName(asked.method) \in Locals(setting.service)
    BY MethodFact DEF Asking
  <2>2. printed \in Methods(setting.service) /\ LocalName(printed) = LocalName(asked.method)
    BY <2>1, WinnerFact DEF Asking, Printed
  <2> HIDE DEF printed
  <2> QED  BY <2>2, MethodFact DEF Asking
<1>2. enveloped = Enveloped(asked.method)
  BY DEF Enveloped, Asking
<1>3. client.protocol \in {"connect", "grpc", "grpcweb"}
  BY DeploymentAssumption DEF DeploymentAssumption, client, Asking
<1>4. req = IF get /\ ~enveloped
            THEN HttpRequest("GET", MethodUrl(setting.service, printed), GetParams(context),
                             asked.messages)
            ELSE HttpRequest("POST", MethodUrl(setting.service, printed), context,
                             asked.messages)
  BY DEF Asking, Request
<1>5. context = [type |-> IF client.protocol # "connect" THEN client.protocol
                          ELSE IF enveloped THEN "stream" ELSE "unary",
                 codec |-> client.codec, compression |-> client.send,
                 packed |-> client.send # "identity",
                 accept |-> ResolveCompressions(client.accept)]
  BY DEF RequestContext
<1>6. GetParams(context) = [context EXCEPT !.type = "none"]
  BY DEF GetParams
<1>7. get => printed.level = "no_side_effects"
  BY DEF Asking, SupportsGet
<1>8. ~enveloped => client.protocol = "connect"
  BY DEF Enveloped
<1>9. enveloped => context.type = RequestContext(TRUE).type
  BY DEF RequestContext
<1> HIDE DEF printed, enveloped
<1>10. CASE get /\ ~enveloped
  <2>1. /\ GetParams(context).codec = client.codec
        /\ GetParams(context).compression = client.send
        /\ GetParams(context).packed = (client.send # "identity")
        /\ GetParams(context).accept = ResolveCompressions(client.accept)
        /\ GetParams(context).type = "none"
    BY <1>5, <1>6
  <2> HIDE DEF context
  <2>2. /\ req.http = "GET" /\ req.url = MethodUrl(setting.service, printed)
        /\ req.type = "none" /\ req.body = asked.messages
        /\ req.codec = client.codec /\ req.compression = client.send
        /\ req.packed = (client.send # "identity")
        /\ req.accept = ResolveCompressions(client.accept)
    BY <1>4, <1>10, <2>1 DEF HttpRequest
  <2>3. Protocol = "connect"
    BY <2>2 DEF Protocol
  <2> QED  BY <1>1, <1>2, <1>7, <1>8, <1>10, <2>2, <2>3 DEF printed, enveloped
<1>11. CASE ~(get /\ ~enveloped)
  <2>1. /\ context.codec = client.codec /\ context.compression = client.send
        /\ context.packed = (client.send # "identity")
        /\ context.accept = ResolveCompressions(client.accept)
        /\ context.type = IF client.protocol # "connect" THEN client.protocol
                          ELSE IF enveloped THEN "stream" ELSE "unary"
    BY <1>5
  <2> HIDE DEF context
  <2>2. /\ req.http = "POST" /\ req.url = MethodUrl(setting.service, printed)
        /\ req.type = context.type /\ req.body = asked.messages
        /\ req.codec = client.codec /\ req.compression = client.send
        /\ req.packed = (client.send # "identity")
        /\ req.accept = ResolveCompressions(client.accept)
    BY <1>4, <1>11, <2>1 DEF HttpRequest
  <2>3. Protocol = client.protocol
    BY <1>3, <2>1, <2>2 DEF Protocol
  <2> QED  BY <1>1, <1>2, <1>8, <1>9, <2>1, <2>2, <2>3 DEF printed, enveloped
<1> QED  BY <1>10, <1>11

\* What the library itself raises of a request.
Refusals ==
    {HTTPException(s) : s \in {404, 405, 415}}
    \cup {Raised(c) : c \in {"internal", "resource_exhausted", "unimplemented",
                             "invalid_argument"}}
    \cup {Other("text")}

LEMMA RefusalsFact ==
    /\ {HTTPException(404), HTTPException(405), HTTPException(415), Raised("internal"),
        Raised("resource_exhausted"), Raised("unimplemented"), Raised("invalid_argument"),
        Other("text")} \subseteq Refusals
    /\ \A e \in Refusals : \/ e \in Exceptions /\ e.type # "http"
                              /\ FromException(e).code \notin ServicesOwn
                           \/ \E s \in 300..599 : e = HTTPException(s)
    /\ \A e \in Refusals : e.type = "http" => \E s \in 300..599 : e = HTTPException(s)
<1>1. \A c \in {"internal", "resource_exhausted", "unimplemented", "invalid_argument"} :
        /\ Raised(c) \in Exceptions /\ Raised(c).type = "connect" /\ Raised(c).code = c
  BY RaisedFact, SomeCodes DEF Exceptions, Raised, ConnectError
<1>2. /\ Other("text") \in Exceptions /\ Other("text").type = "other"
      /\ FromException(Other("text")).code = "unknown"
  <2>1. Other("text") = [type |-> "other", message |-> "text"]
    BY DEF Other
  <2>2. Other("text") \in Exceptions
    BY <2>1, TextsFact DEF Others, Exceptions
  <2> QED  BY <2>1, <2>2 DEF FromException, ConnectError
<1>3. \A c \in {"internal", "resource_exhausted", "unimplemented", "invalid_argument"} :
        FromException(Raised(c)) = Raised(c)
  BY <1>1 DEF FromException
<1>4. ASSUME NEW e \in Refusals
      PROVE  \/ e \in Exceptions /\ e.type # "http" /\ FromException(e).code \notin ServicesOwn
             \/ \E s \in 300..599 : e = HTTPException(s)
  <2>1. CASE \E s \in {404, 405, 415} : e = HTTPException(s)
    BY <2>1
  <2>2. CASE \E c \in {"internal", "resource_exhausted", "unimplemented",
                       "invalid_argument"} : e = Raised(c)
    BY <1>1, <1>3, <2>2 DEF ServicesOwn
  <2>3. CASE e = Other("text")
    BY <1>2, <2>3 DEF ServicesOwn
  <2> QED  BY <2>1, <2>2, <2>3 DEF Refusals
<1>5. ASSUME NEW e \in Refusals, e.type = "http"
      PROVE  \E s \in 300..599 : e = HTTPException(s)
  BY <1>4, <1>5
<1> QED  BY <1>4, <1>5 DEF Refusals

\* The first of the checks, if not what follows them, is one of their errors.
LEMMA FirstIn ==
    ASSUME NEW n \in Nat, NEW checks, DOMAIN checks = 1..n, NEW otherwise, NEW S,
           \A i \in 1..n : checks[i].with \in S
    PROVE  FirstOf(checks, otherwise) \in S \/ FirstOf(checks, otherwise) = otherwise
  BY FirstOfFact

LEMMA FrameErrors ==
    ASSUME NEW m, NEW e
    PROVE  ReadFrame(m, e) \in {Raised("internal"), Raised("resource_exhausted"),
                                Other("text"), Absent}
<1> DEFINE checks ==
             <<Check(req.packed /\ StreamCompression = "identity", Raised("internal")),
               Check(TooLarge(m), Raised("resource_exhausted")),
               Check(Undecodable(m, e), Other("text"))>>
           S == {Raised("internal"), Raised("resource_exhausted"), Other("text")}
<1>1. ReadFrame(m, e) = FirstOf(checks, Absent) /\ DOMAIN checks = 1..3
  BY DEF ReadFrame
<1>2. \A i \in 1..3 : checks[i].with \in S
  BY DEF Check
<1> HIDE DEF checks, S
<1>3. ReadFrame(m, e) \in S \/ ReadFrame(m, e) = Absent
  BY <1>1, <1>2, FirstIn
<1> QED  BY <1>3 DEF S

\* The error in a stream of requests is the library's own.
LEMMA FramesErrors ==
    ASSUME req.body \in Seq(Messages), NEW e
    PROVE  ReadFrames(e).error \in Refusals \cup {Absent}
<1> DEFINE body == IF req.http = "GET" THEN <<>> ELSE req.body
           bad == {i \in DOMAIN body : ReadFrame(body[i], e) # Absent}
<1>1. \/ ReadFrames(e) = [good |-> body, error |-> Absent]
      \/ ReadFrames(e) = [good |-> SubSeq(body, 1, Min(bad) - 1),
                          error |-> ReadFrame(body[Min(bad)], e)]
  BY DEF ReadFrames
<1>2. ReadFrames(e).error = Absent \/ ReadFrames(e).error = ReadFrame(body[Min(bad)], e)
  <2> HIDE DEF body, bad
  <2> QED  BY <1>1
<1> QED  BY <1>2, FrameErrors, RefusalsFact

LEMMA ReadStreamErrors ==
    ASSUME req.body \in Seq(Messages), NEW e
    PROVE  ReadStream(e) \in Refusals \/ ReadStream(e).type = "call"
<1> DEFINE read == ReadFrames(e)
           called == Called(e, read.good)
           checks == <<Check(Len(read.good) > 1, Raised("unimplemented")),
                       Check(read.error # Absent, read.error),
                       Check(read.good = <<>>, Raised("unimplemented"))>>
<1>1. \/ ReadStream(e) = Raised("unimplemented")
      \/ ReadStream(e) = called
      \/ ReadStream(e) = Single(read, called)
  BY DEF ReadStream
<1>2. Single(read, called) \in Refusals \/ Single(read, called) = called
  <2>1. Single(read, called) = FirstOf(checks, called) /\ DOMAIN checks = 1..3
    BY DEF Single
  <2>2. /\ checks[1].with = Raised("unimplemented") /\ checks[3].with = Raised("unimplemented")
        /\ checks[2].with = read.error
        /\ checks[2].applies <=> read.error # Absent
    BY DEF Check
  <2>3. read.error \in Refusals \cup {Absent}
    BY FramesErrors
  <2> HIDE DEF checks, read, called
  <2>4. \/ FirstOf(checks, called) = called
        \/ \E i \in 1..3 : checks[i].applies /\ FirstOf(checks, called) = checks[i].with
    <3>1. 3 \in Nat
      OBVIOUS
    <3> QED  BY <2>1, <3>1, FirstOfFact, Zenon
  <2>5. \A i \in 1..3 : checks[i].applies => checks[i].with \in Refusals
    <3> TAKE i \in 1..3
    <3>1. i = 1 \/ i = 2 \/ i = 3
      OBVIOUS
    <3>2. Raised("unimplemented") \in Refusals
      BY RefusalsFact
    <3>3. checks[2].applies => checks[2].with \in Refusals
      BY <2>2, <2>3
    <3> QED  BY <2>2, <3>1, <3>2, <3>3
  <2> QED  BY <2>1, <2>4, <2>5
<1>3. called.type = "call"
  BY CalledFact
<1> HIDE DEF called, read
<1> QED  BY <1>1, <1>2, <1>3, RefusalsFact

LEMMA ReadErrors ==
    ASSUME NEW e
    PROVE  \A r \in {ReadGetAsgi(e), ReadPostAsgi(e), ReadGetWsgi(e), ReadPostWsgi(e)} :
                r \in Refusals \/ r.type = "call"
<1> DEFINE called == Called(e, req.body)
           ga == <<MissingMessage,
                   Check(req.compression \notin Supported, Raised("unimplemented")),
                   Check(Undecodable(Message, e), Other("text"))>>
           pa == <<Check(req.compression \notin Supported, Raised("unimplemented")),
                   Check(TooLarge(Message), Raised("resource_exhausted")),
                   Check(Undecodable(Message, e), Other("text"))>>
           gw == <<MissingMessage,
                   Check(req.compression \notin Supported, Raised("unimplemented")),
                   Check(req.codec \notin server.codecs, Raised("unimplemented")),
                   Check(Undecodable(Message, e), Raised("invalid_argument"))>>
           pw == <<Check(CodecOfContentType(FALSE) \notin server.codecs, HTTPException(415)),
                   Check(req.compression \notin Supported, Raised("unimplemented")),
                   Check(TooLarge(Message), Raised("resource_exhausted")),
                   Check(Undecodable(Message, e), Raised("invalid_argument"))>>
<1>1. /\ ReadGetAsgi(e) = FirstOf(ga, called) /\ ReadPostAsgi(e) = FirstOf(pa, called)
      /\ ReadGetWsgi(e) = FirstOf(gw, called) /\ ReadPostWsgi(e) = FirstOf(pw, called)
  BY DEF ReadGetAsgi, ReadPostAsgi, ReadGetWsgi, ReadPostWsgi
<1>2. called.type = "call"
  BY CalledFact
<1> HIDE DEF called
<1>3. /\ DOMAIN ga = 1..3 /\ \A i \in 1..3 : ga[i].with \in Refusals
      /\ DOMAIN pa = 1..3 /\ \A i \in 1..3 : pa[i].with \in Refusals
  BY RefusalsFact DEF Check, MissingMessage
<1>4. DOMAIN gw = 1..4 /\ \A i \in 1..4 : gw[i].with \in Refusals
  BY RefusalsFact DEF Check, MissingMessage
<1>5. DOMAIN pw = 1..4 /\ \A i \in 1..4 : pw[i].with \in Refusals
  BY RefusalsFact DEF Check, MissingMessage
<1>6. 3 \in Nat /\ 4 \in Nat
  OBVIOUS
<1> HIDE DEF ga, pa, gw, pw
<1>7. FirstOf(ga, called) \in Refusals \/ FirstOf(ga, called) = called
  BY <1>3, <1>6, FirstIn, Zenon
<1>8. FirstOf(pa, called) \in Refusals \/ FirstOf(pa, called) = called
  BY <1>3, <1>6, FirstIn, Zenon
<1>9. FirstOf(gw, called) \in Refusals \/ FirstOf(gw, called) = called
  BY <1>4, <1>6, FirstIn, Zenon
<1>10. FirstOf(pw, called) \in Refusals \/ FirstOf(pw, called) = called
  BY <1>5, <1>6, FirstIn, Zenon
<1> QED  BY <1>1, <1>2, <1>7, <1>8, <1>9, <1>10

\* A request that is no call is refused with an exception of the library's own.
LEMMA RouteErrors ==
    ASSUME req.body \in Seq(Messages)
    PROVE  Route \in Refusals \/ Route.type = "call"
<1> DEFINE e == Application.endpoints[Path]
           codec == IF req.http = "GET" THEN req.codec ELSE CodecOfContentType(e.type # "unary")
           asgi == <<Check(NoTrailers, Other("text")),
                     Check(MethodNotAllowed(e), HTTPException(405)),
                     Check(codec \notin server.codecs, HTTPException(415))>>
           wsgi == <<Check(NoTrailers, Other("text")),
                     Check(MethodNotAllowed(e), HTTPException(405)),
                     Check(~UnaryConnect(e) /\ CodecOfContentType(TRUE) \notin server.codecs,
                           HTTPException(415))>>
           ra == IF ~UnaryConnect(e) THEN ReadStream(e)
                 ELSE IF req.http = "GET" THEN ReadGetAsgi(e) ELSE ReadPostAsgi(e)
           rw == IF ~UnaryConnect(e) THEN ReadStream(e)
                 ELSE IF req.http = "GET" THEN ReadGetWsgi(e) ELSE ReadPostWsgi(e)
<1>1. /\ ra \in Refusals \/ ra.type = "call"
      /\ rw \in Refusals \/ rw.type = "call"
  <2> HIDE DEF e
  <2> QED  BY ReadErrors, ReadStreamErrors
<1>2. HandleAsgi(e) = FirstOf(asgi, ra) /\ HandleWsgi(e) = FirstOf(wsgi, rw)
  BY DEF HandleAsgi, HandleWsgi
<1>3. /\ DOMAIN asgi = 1..3 /\ \A i \in 1..3 : asgi[i].with \in Refusals
      /\ DOMAIN wsgi = 1..3 /\ \A i \in 1..3 : wsgi[i].with \in Refusals
  <2> HIDE DEF e, codec
  <2> QED  BY RefusalsFact DEF Check
<1>4. 3 \in Nat
  OBVIOUS
<1> HIDE DEF asgi, wsgi, ra, rw
<1>5. FirstOf(asgi, ra) \in Refusals \/ FirstOf(asgi, ra) = ra
  BY <1>3, <1>4, FirstIn, Zenon
<1>6. FirstOf(wsgi, rw) \in Refusals \/ FirstOf(wsgi, rw) = rw
  BY <1>3, <1>4, FirstIn, Zenon
<1>7. Route = HTTPException(404) \/ Route = HandleAsgi(e) \/ Route = HandleWsgi(e)
  BY DEF Route
<1> HIDE DEF e
<1> QED  BY <1>1, <1>2, <1>5, <1>6, <1>7, RefusalsFact

-----------------------------------------------------------------------------
(* A call of a printed method.                                             *)

AskedEndpoint == Endpoint(setting.service, Printed(asked.method), setting.option)

LEMMA EndpointTypes ==
    ASSUME NEW k \in Kinds
    PROVE  /\ EndpointType(k) = "unary" <=> k = "unary"
           /\ EndpointType(k) \in {"unary", "server_stream"} <=> k \in OneRequest
           /\ EndpointType(k) \in {"unary", "client_stream"} <=> k \in OneResponse
           /\ EndpointType(k) \in {"server_stream", "bidi_stream"} <=> k \notin OneResponse
           /\ EndpointType(k) \in {"client_stream", "bidi_stream"} <=> k \notin OneRequest
  BY DEF Kinds, EndpointType, OneRequest, OneResponse

LEMMA AskedEndpointFact ==
    ASSUME Asking
    PROVE  LET e == AskedEndpoint
               kind == asked.method.kind
           IN  /\ Path \in DOMAIN Application.endpoints
               /\ Application.endpoints[Path] = e
               /\ kind \in Kinds /\ e.type = EndpointType(kind)
               /\ e.function = LocalName(asked.method)
               /\ e.info.level = Printed(asked.method).level
               /\ e.info.input.family = setting.option
               /\ UnaryConnect(e) <=> ~Enveloped(asked.method)
               /\ IsUnary <=> ~Enveloped(asked.method)
<1>1. /\ Printed(asked.method) \in Methods(setting.service)
      /\ LocalName(Printed(asked.method)) = LocalName(asked.method)
      /\ req.url = MethodUrl(setting.service, Printed(asked.method))
      /\ Printed(asked.method).kind \in Kinds
      /\ Protocol = client.protocol
  BY AskingFact
<1>2. Printed(asked.method).kind = asked.method.kind /\ setting \in Settings
  BY DEF Asking
<1>3. /\ AskedEndpoint.type = EndpointType(asked.method.kind)
      /\ AskedEndpoint.function = LocalName(asked.method)
      /\ AskedEndpoint.info.level = Printed(asked.method).level
      /\ AskedEndpoint.info.input.family = setting.option
  BY <1>1, <1>2 DEF AskedEndpoint, Endpoint, MethodInfo, MessageIdent
<1>4. UnaryConnect(AskedEndpoint) <=> ~Enveloped(asked.method)
  BY <1>1, <1>2, <1>3, EndpointTypes DEF UnaryConnect, Enveloped
<1>5. /\ Path \in DOMAIN Application.endpoints
      /\ Application.endpoints[Path] = AskedEndpoint
  BY <1>1, <1>2, PathFact DEF AskedEndpoint
<1>6. IsUnary <=> UnaryConnect(AskedEndpoint)
  BY <1>5 DEF IsUnary
<1> QED  BY <1>1, <1>2, <1>3, <1>4, <1>5, <1>6

\* The function an asked endpoint calls is one it can call.
LEMMA AskedFits == ASSUME Asking PROVE Fits(AskedEndpoint)
<1> DEFINE l == LocalName(asked.method)
           kind == asked.method.kind
<1>1. /\ AskedEndpoint.type = EndpointType(kind) /\ AskedEndpoint.function = l
      /\ kind \in Kinds
  BY AskedEndpointFact
<1>2. l \in Locals(setting.service)
  BY MethodFact DEF Asking
<1>3. Winner(setting.service, l).kind = kind
  BY DEF Asking, Printed
<1>4. Service[l].takes = TakesOf(kind) /\ Service[l].gives = GivesOf(kind)
  <2> HIDE DEF l
  <2> QED  BY <1>2, <1>3 DEF Service, AsyncService, SyncService, AsyncSignature,
                             SyncSignature
<1>5. /\ TakesOf(kind) = "message" <=> kind \in OneRequest
      /\ GivesOf(kind) = "message" <=> kind \in OneResponse
  BY DEF TakesOf, GivesOf
<1> HIDE DEF l, kind
<1>6. /\ EndpointType(kind) \in {"unary", "server_stream"} <=> kind \in OneRequest
      /\ EndpointType(kind) \in {"unary", "client_stream"} <=> kind \in OneResponse
  BY <1>1, EndpointTypes
<1> QED  BY <1>1, <1>4, <1>5, <1>6 DEF Fits

\* What fits is read.
LEMMA AskedFrame ==
    ASSUME Asking, Compatible, NEW i \in DOMAIN asked.messages
    PROVE  ReadFrame(asked.messages[i], AskedEndpoint) = Absent
<1> DEFINE m == asked.messages[i]
           e == AskedEndpoint
           checks ==
             <<Check(req.packed /\ StreamCompression = "identity", Raised("internal")),
               Check(TooLarge(m), Raised("resource_exhausted")),
               Check(Undecodable(m, e), Other("text"))>>
<1>1. ReadFrame(m, e) = FirstOf(checks, Absent) /\ DOMAIN checks = 1..3
  BY DEF ReadFrame
<1>2. ~(req.packed /\ StreamCompression = "identity")
  <2>1. req.compression = client.send /\ req.packed = (client.send # "identity")
    BY AskingFact
  <2> QED  BY <2>1 DEF Compatible, StreamCompression
<1>3. ~TooLarge(m)
  BY DEF Compatible
<1>4. ~Undecodable(m, e)
  <2>1. m # "bad"
    BY PayloadsFact DEF Asking
  <2>2. ServerFamily = e.info.input.family
    BY AskedEndpointFact DEF Compatible
  <2> HIDE DEF m, e
  <2> QED  BY <2>1, <2>2 DEF Undecodable
<1> HIDE DEF m, e
<1>5. /\ checks[1].applies <=> (req.packed /\ StreamCompression = "identity")
      /\ checks[2].applies <=> TooLarge(m)
      /\ checks[3].applies <=> Undecodable(m, e)
  BY DEF Check
<1> HIDE DEF checks
<1>6. 3 \in Nat /\ \A j \in 1..3 : ~checks[j].applies
  BY <1>2, <1>3, <1>4, <1>5
<1>7. ReadFrame(m, e) = Absent
  BY <1>1, <1>6, NoneIs, Zenon
<1> QED  BY <1>7 DEF m, e

LEMMA AskedFrames ==
    ASSUME Asking, Compatible, req.http # "GET"
    PROVE  ReadFrames(AskedEndpoint) = [good |-> asked.messages, error |-> Absent]
<1>1. req.body = asked.messages
  BY AskingFact
<1>2. \A i \in DOMAIN req.body : ReadFrame(req.body[i], AskedEndpoint) = Absent
  BY <1>1, AskedFrame
<1> QED  BY <1>1, <1>2 DEF ReadFrames

\* A request the client and the server agree about is the call it was made for.
LEMMA AskedStream ==
    ASSUME Asking, Compatible, Enveloped(asked.method)
    PROVE  ReadStream(AskedEndpoint) = Called(AskedEndpoint, asked.messages)
<1> DEFINE e == AskedEndpoint
           read == [good |-> asked.messages, error |-> Absent]
           called == Called(e, asked.messages)
           checks == <<Check(Len(read.good) > 1, Raised("unimplemented")),
                       Check(read.error # Absent, read.error),
                       Check(read.good = <<>>, Raised("unimplemented"))>>
<1>1. req.http = "POST" /\ req.compression = client.send
  BY AskingFact
<1>2. ReadFrames(e) = read
  BY <1>1, AskedFrames
<1>3. KnownCompression
  BY <1>1 DEF Compatible, KnownCompression
<1>4. read.good = asked.messages /\ read.error = Absent
  OBVIOUS
<1>5. e.type \in {"unary", "server_stream"} => Single(read, called) = called
  <2> SUFFICES ASSUME e.type \in {"unary", "server_stream"}
               PROVE  Single(read, called) = called
    OBVIOUS
  <2>1. asked.method.kind \in OneRequest
    BY AskedEndpointFact, EndpointTypes
  <2>2. asked.messages \in Seq(Messages) /\ Len(asked.messages) = 1
    BY <2>1, PayloadsFact DEF Asking
  <2>3. ~(Len(asked.messages) > 1) /\ asked.messages # <<>>
    BY <2>2
  <2>4. Single(read, called) = FirstOf(checks, called) /\ DOMAIN checks = 1..3
    BY DEF Single
  <2> HIDE DEF called, read, e
  <2>5. /\ checks[1].applies <=> Len(read.good) > 1
        /\ checks[2].applies <=> read.error # Absent
        /\ checks[3].applies <=> read.good = <<>>
    BY DEF Check
  <2> HIDE DEF checks
  <2>6. ~checks[1].applies /\ ~checks[2].applies /\ ~checks[3].applies
    BY <1>4, <2>3, <2>5
  <2>7. 3 \in Nat /\ \A i \in 1..3 : ~checks[i].applies
    BY <2>6
  <2> QED  BY <2>4, <2>7, NoneIs, Zenon
<1> HIDE DEF called
<1>6. ReadStream(e) = IF e.type \in {"unary", "server_stream"}
                      THEN Single(read, called) ELSE called
  BY <1>2, <1>3, <1>4 DEF ReadStream, called
<1> QED  BY <1>5, <1>6 DEF called

LEMMA AskedMessage ==
    ASSUME Asking, Compatible, ~Enveloped(asked.method)
    PROVE  /\ req.body # <<>> /\ ~TooLarge(Message) /\ ~Undecodable(Message, AskedEndpoint)
           /\ req.compression \in Supported /\ req.codec \in server.codecs
           /\ ~NoTrailers /\ ~MethodNotAllowed(AskedEndpoint)
           /\ req.http # "GET" => CodecOfContentType(FALSE) = req.codec
<1>1. /\ req.body = asked.messages /\ req.compression = client.send
      /\ req.codec = client.codec /\ Protocol = client.protocol
      /\ client.protocol = "connect" /\ req.http \in {"GET", "POST"}
      /\ req.http = "GET" => Printed(asked.method).level = "no_side_effects"
      /\ req.http # "GET" => req.type = "unary"
  BY AskingFact
<1>2. asked.messages \in Seq(Messages \ {"bad"}) /\ Len(asked.messages) = 1
  BY PayloadsFact DEF Asking, Enveloped, OneRequest
<1>3. asked.messages # <<>> /\ 1 \in DOMAIN asked.messages /\ asked.messages[1] # "bad"
  BY <1>2
<1>4. Message = asked.messages[1]
  BY <1>1, <1>3 DEF Message
<1>5. ~TooLarge(Message)
  BY <1>3, <1>4 DEF Compatible
<1>6. ~Undecodable(Message, AskedEndpoint)
  BY <1>3, <1>4, AskedEndpointFact DEF Compatible, Undecodable
<1>7. ~NoTrailers
  BY <1>1 DEF NoTrailers
<1>8. ~MethodNotAllowed(AskedEndpoint)
  BY <1>1, AskedEndpointFact DEF MethodNotAllowed
<1>9. req.http # "GET" => CodecOfContentType(FALSE) = req.codec
  BY <1>1 DEF CodecOfContentType
<1> QED  BY <1>1, <1>3, <1>5, <1>6, <1>7, <1>8, <1>9 DEF Compatible

LEMMA AskedRead ==
    ASSUME Asking, Compatible, ~Enveloped(asked.method)
    PROVE  LET called == Called(AskedEndpoint, asked.messages)
           IN  /\ ReadGetAsgi(AskedEndpoint) = called /\ ReadGetWsgi(AskedEndpoint) = called
               /\ ReadPostAsgi(AskedEndpoint) = called
               /\ req.http # "GET" => ReadPostWsgi(AskedEndpoint) = called
<1> DEFINE e == AskedEndpoint
           called == Called(e, req.body)
           ga == <<MissingMessage,
                   Check(req.compression \notin Supported, Raised("unimplemented")),
                   Check(Undecodable(Message, e), Other("text"))>>
           pa == <<Check(req.compression \notin Supported, Raised("unimplemented")),
                   Check(TooLarge(Message), Raised("resource_exhausted")),
                   Check(Undecodable(Message, e), Other("text"))>>
           gw == <<MissingMessage,
                   Check(req.compression \notin Supported, Raised("unimplemented")),
                   Check(req.codec \notin server.codecs, Raised("unimplemented")),
                   Check(Undecodable(Message, e), Raised("invalid_argument"))>>
           pw == <<Check(CodecOfContentType(FALSE) \notin server.codecs, HTTPException(415)),
                   Check(req.compression \notin Supported, Raised("unimplemented")),
                   Check(TooLarge(Message), Raised("resource_exhausted")),
                   Check(Undecodable(Message, e), Raised("invalid_argument"))>>
<1>1. /\ ReadGetAsgi(e) = FirstOf(ga, called) /\ ReadPostAsgi(e) = FirstOf(pa, called)
      /\ ReadGetWsgi(e) = FirstOf(gw, called) /\ ReadPostWsgi(e) = FirstOf(pw, called)
  BY DEF ReadGetAsgi, ReadPostAsgi, ReadGetWsgi, ReadPostWsgi
<1>2. called = Called(e, asked.messages)
  BY AskingFact
<1>3. /\ req.body # <<>> /\ ~TooLarge(Message) /\ ~Undecodable(Message, e)
      /\ req.compression \in Supported /\ req.codec \in server.codecs
      /\ req.http # "GET" => CodecOfContentType(FALSE) = req.codec
  BY AskedMessage
<1> HIDE DEF called, e
<1>4. DOMAIN ga = 1..3 /\ DOMAIN pa = 1..3 /\ DOMAIN gw = 1..4 /\ DOMAIN pw = 1..4
  OBVIOUS
<1>5. /\ ga[1].applies <=> req.body = <<>>
      /\ ga[2].applies <=> req.compression \notin Supported
      /\ ga[3].applies <=> Undecodable(Message, e)
  BY DEF Check, MissingMessage
<1>6. /\ pa[1].applies <=> req.compression \notin Supported
      /\ pa[2].applies <=> TooLarge(Message)
      /\ pa[3].applies <=> Undecodable(Message, e)
  BY DEF Check
<1>7. /\ gw[1].applies <=> req.body = <<>>
      /\ gw[2].applies <=> req.compression \notin Supported
      /\ gw[3].applies <=> req.codec \notin server.codecs
      /\ gw[4].applies <=> Undecodable(Message, e)
  BY DEF Check, MissingMessage
<1>8. /\ pw[1].applies <=> CodecOfContentType(FALSE) \notin server.codecs
      /\ pw[2].applies <=> req.compression \notin Supported
      /\ pw[3].applies <=> TooLarge(Message)
      /\ pw[4].applies <=> Undecodable(Message, e)
  BY DEF Check
<1> HIDE DEF ga, pa, gw, pw
<1>9. 3 \in Nat /\ 4 \in Nat
  OBVIOUS
<1>10. FirstOf(ga, called) = called
  <2>1. ~ga[1].applies /\ ~ga[2].applies /\ ~ga[3].applies
    BY <1>3, <1>5
  <2>2. \A i \in 1..3 : ~ga[i].applies
    BY <2>1
  <2> QED  BY <1>4, <1>9, <2>2, NoneIs, Zenon
<1>11. FirstOf(pa, called) = called
  <2>1. ~pa[1].applies /\ ~pa[2].applies /\ ~pa[3].applies
    BY <1>3, <1>6
  <2>2. \A i \in 1..3 : ~pa[i].applies
    BY <2>1
  <2> QED  BY <1>4, <1>9, <2>2, NoneIs, Zenon
<1>12. FirstOf(gw, called) = called
  <2>1. ~gw[1].applies /\ ~gw[2].applies /\ ~gw[3].applies /\ ~gw[4].applies
    BY <1>3, <1>7
  <2>2. \A i \in 1..4 : ~gw[i].applies
    BY <2>1
  <2> QED  BY <1>4, <1>9, <2>2, NoneIs, Zenon
<1>13. req.http # "GET" => FirstOf(pw, called) = called
  <2> SUFFICES ASSUME req.http # "GET"  PROVE FirstOf(pw, called) = called
    OBVIOUS
  <2>1. ~pw[1].applies /\ ~pw[2].applies /\ ~pw[3].applies /\ ~pw[4].applies
    BY <1>3, <1>8
  <2>2. \A i \in 1..4 : ~pw[i].applies
    BY <2>1
  <2> QED  BY <1>4, <1>9, <2>2, NoneIs, Zenon
<1> QED  BY <1>1, <1>2, <1>10, <1>11, <1>12, <1>13 DEF e

LEMMA AskedRoute ==
    ASSUME Asking, Compatible
    PROVE  Route = Called(AskedEndpoint, asked.messages)
<1> DEFINE e == AskedEndpoint
           called == Called(e, asked.messages)
           codec == IF req.http = "GET" THEN req.codec ELSE CodecOfContentType(e.type # "unary")
           asgi == <<Check(NoTrailers, Other("text")),
                     Check(MethodNotAllowed(e), HTTPException(405)),
                     Check(codec \notin server.codecs, HTTPException(415))>>
           wsgi == <<Check(NoTrailers, Other("text")),
                     Check(MethodNotAllowed(e), HTTPException(405)),
                     Check(~UnaryConnect(e) /\ CodecOfContentType(TRUE) \notin server.codecs,
                           HTTPException(415))>>
           ra == IF ~UnaryConnect(e) THEN ReadStream(e)
                 ELSE IF req.http = "GET" THEN ReadGetAsgi(e) ELSE ReadPostAsgi(e)
           rw == IF ~UnaryConnect(e) THEN ReadStream(e)
                 ELSE IF req.http = "GET" THEN ReadGetWsgi(e) ELSE ReadPostWsgi(e)
<1>1. /\ Path \in DOMAIN Application.endpoints /\ Application.endpoints[Path] = e
      /\ UnaryConnect(e) <=> ~Enveloped(asked.method)
      /\ e.type = EndpointType(asked.method.kind) /\ asked.method.kind \in Kinds
  BY AskedEndpointFact
<1>2. ra = called /\ rw = called
  BY <1>1, AskedStream, AskedRead
<1>3. HandleAsgi(e) = FirstOf(asgi, ra) /\ HandleWsgi(e) = FirstOf(wsgi, rw)
  BY DEF HandleAsgi, HandleWsgi
<1>4. ~NoTrailers /\ ~MethodNotAllowed(e)
  <2>1. CASE Enveloped(asked.method)
    <3>1. req.http = "POST" /\ Protocol = client.protocol
      BY <2>1, AskingFact
    <3> QED  BY <3>1 DEF NoTrailers, MethodNotAllowed, Compatible
  <2>2. CASE ~Enveloped(asked.method)
    BY <2>2, AskedMessage
  <2> QED  BY <2>1, <2>2
<1>5. req.codec \in server.codecs
  BY AskingFact DEF Compatible
<1>6. Enveloped(asked.method) => CodecOfContentType(TRUE) = req.codec
  <2> SUFFICES ASSUME Enveloped(asked.method)  PROVE CodecOfContentType(TRUE) = req.codec
    OBVIOUS
  <2>1. req.type = RequestContext(TRUE).type /\ Protocol = client.protocol
    BY AskingFact
  <2>2. RequestContext(TRUE).type = IF client.protocol # "connect" THEN client.protocol
                                    ELSE "stream"
    BY DEF RequestContext
  <2> QED  BY <2>1, <2>2 DEF CodecOfContentType
<1>7. codec = req.codec
  <2>1. CASE Enveloped(asked.method) /\ Protocol = "connect"
    <3>1. asked.method.kind # "unary"
      BY <2>1, AskingFact DEF Enveloped
    <3>2. (e.type # "unary") = TRUE
      BY <1>1, <3>1, EndpointTypes
    <3> QED  BY <1>6, <2>1, <3>2
  <2>2. CASE Protocol # "connect"
    BY <2>2 DEF CodecOfContentType
  <2>3. CASE ~Enveloped(asked.method) /\ req.http # "GET"
    <3>1. asked.method.kind = "unary"
      BY <2>3 DEF Enveloped
    <3>2. (e.type # "unary") = FALSE
      BY <1>1, <3>1, EndpointTypes
    <3>3. CodecOfContentType(FALSE) = req.codec
      BY <2>3, AskedMessage
    <3> QED  BY <3>2, <3>3
  <2>4. CASE req.http = "GET"
    BY <2>4
  <2> QED  BY <2>1, <2>2, <2>3, <2>4
<1> HIDE DEF e, codec
<1>8. /\ asgi[1].applies <=> NoTrailers
      /\ asgi[2].applies <=> MethodNotAllowed(e)
      /\ asgi[3].applies <=> codec \notin server.codecs
  BY DEF Check
<1>9. /\ wsgi[1].applies <=> NoTrailers
      /\ wsgi[2].applies <=> MethodNotAllowed(e)
      /\ wsgi[3].applies <=> (~UnaryConnect(e) /\ CodecOfContentType(TRUE) \notin server.codecs)
  BY DEF Check
<1>a. DOMAIN asgi = 1..3 /\ DOMAIN wsgi = 1..3
  OBVIOUS
<1> HIDE DEF asgi, wsgi, ra, rw, called
<1>10. 3 \in Nat
  OBVIOUS
<1>11. FirstOf(asgi, ra) = ra
  <2>1. ~asgi[1].applies /\ ~asgi[2].applies /\ ~asgi[3].applies
    BY <1>4, <1>5, <1>7, <1>8
  <2>2. \A i \in 1..3 : ~asgi[i].applies
    BY <2>1
  <2> QED  BY <1>a, <1>10, <2>2, NoneIs, Zenon
<1>12. FirstOf(wsgi, rw) = rw
  <2>1. ~wsgi[1].applies /\ ~wsgi[2].applies /\ ~wsgi[3].applies
    BY <1>1, <1>4, <1>5, <1>6, <1>9
  <2>2. \A i \in 1..3 : ~wsgi[i].applies
    BY <2>1
  <2> QED  BY <1>a, <1>10, <2>2, NoneIs, Zenon
<1>13. Route = HandleAsgi(e) \/ Route = HandleWsgi(e)
  BY <1>1 DEF Route
<1>14. Route = called
  BY <1>2, <1>3, <1>11, <1>12, <1>13
<1> QED  BY <1>14 DEF called, e

\* What services do is typed.
LEMMA OutcomesFact ==
    ASSUME setting \in Settings, req.body \in Seq(Messages), NEW e, NEW o \in Outcomes(e)
    PROVE  /\ o \in AllOutcomes
           /\ (e.type \notin {"server_stream", "bidi_stream"}) =>
                IF o.error = Absent THEN Len(o.messages) = 1 ELSE o.messages = <<>>
<1> DEFINE many == e.type \in {"server_stream", "bidi_stream"}
           reads == e.type \in {"client_stream", "bidi_stream"}
           own == IF Protocol = "connect" THEN {NoTrailersOfItsOwn} ELSE Trailers
           own1 == <<"small">>
           own2 == <<"big">>
<1>1. own \subseteq GrpcTrailers
  <2>1. NoTrailersOfItsOwn \in GrpcTrailers
    BY DEF NoTrailersOfItsOwn, GrpcTrailers
  <2>2. Trailers \subseteq GrpcTrailers
    BY DeploymentAssumption DEF DeploymentAssumption
  <2> QED  BY <2>1, <2>2
<1>2. /\ own1 \in Seq(Messages) /\ own2 \in Seq(Messages) /\ <<>> \in Seq(Messages)
      /\ Len(own1) = 1 /\ Len(own2) = 1
  BY DEF Messages
<1>3. Bodies \subseteq Seq(Messages)
  <2>1. Messages \ {"bad"} \subseteq Messages
    OBVIOUS
  <2>2. Bodies \subseteq Seq(Messages \ {"bad"})
    BY DeploymentAssumption DEF DeploymentAssumption
  <2>3. \A b \in Seq(Messages \ {"bad"}) : b \in Seq(Messages)
    BY <2>1, SeqMonotonic, Zenon
  <2> QED  BY <2>2, <2>3
<1> DEFINE errors == setting.raises
               \cup (IF reads THEN {ReadFrames(e).error} \ {Absent} ELSE {})
<1>4. errors \subseteq Exceptions
  <2>1. setting.raises \subseteq Exceptions
    BY DeploymentAssumption DEF DeploymentAssumption, Exceptions
  <2>2. ReadFrames(e).error \in Exceptions \cup {Absent}
    <3>1. ReadFrames(e).error \in {Raised("internal"), Raised("resource_exhausted"),
                                   Other("text"), Absent}
      <4> DEFINE body == IF req.http = "GET" THEN <<>> ELSE req.body
                 bad == {i \in DOMAIN body : ReadFrame(body[i], e) # Absent}
      <4>1. \/ ReadFrames(e) = [good |-> body, error |-> Absent]
            \/ ReadFrames(e) = [good |-> SubSeq(body, 1, Min(bad) - 1),
                                error |-> ReadFrame(body[Min(bad)], e)]
        BY DEF ReadFrames
      <4>2. \/ ReadFrames(e).error = Absent
            \/ ReadFrames(e).error = ReadFrame(body[Min(bad)], e)
        <5> HIDE DEF body, bad
        <5> QED  BY <4>1
      <4> QED  BY <4>2, FrameErrors
    <3>2. Raised("internal") \in Exceptions /\ Raised("resource_exhausted") \in Exceptions
      BY RaisedFact, SomeCodes DEF Exceptions
    <3>3. Other("text") \in Exceptions
      BY TextsFact DEF Exceptions, Others, Other
    <3> QED  BY <3>1, <3>2, <3>3
  <2> QED  BY <2>1, <2>2
<1> DEFINE failing == IF many THEN Bodies ELSE {<<>>}
           passing == IF many THEN Bodies ELSE {own1, own2}
<1>5. \/ \E m \in failing, x \in errors, t \in own : o = Outcome(m, x, t)
      \/ \E m \in passing, t \in own : o = Outcome(m, Absent, t)
  BY DEF Outcomes
<1>6. /\ failing \subseteq Seq(Messages) /\ passing \subseteq Seq(Messages)
      /\ ~many => \A m \in passing : Len(m) = 1
      /\ ~many => \A m \in failing : m = <<>>
  BY <1>2, <1>3
<1>7. \A x \in Exceptions : x # Absent
  BY FromExceptionFact DEF Exceptions
<1> HIDE DEF own, errors, failing, passing, many
<1>8. CASE \E m \in failing, x \in errors, t \in own : o = Outcome(m, x, t)
  <2>1. PICK m \in failing, x \in errors, t \in own : o = Outcome(m, x, t)
    BY <1>8
  <2>2. o = [messages |-> m, error |-> x, trailers |-> t]
    BY <2>1 DEF Outcome
  <2>3. m \in Seq(Messages) /\ x \in Exceptions /\ t \in GrpcTrailers
    BY <1>1, <1>4, <1>6
  <2>4. o \in AllOutcomes /\ o.error = x /\ o.messages = m
    BY <2>2, <2>3 DEF AllOutcomes
  <2> QED  BY <1>6, <1>7, <2>3, <2>4 DEF many
<1>9. CASE \E m \in passing, t \in own : o = Outcome(m, Absent, t)
  <2>1. PICK m \in passing, t \in own : o = Outcome(m, Absent, t)
    BY <1>9
  <2>2. o = [messages |-> m, error |-> Absent, trailers |-> t]
    BY <2>1 DEF Outcome
  <2>3. m \in Seq(Messages) /\ t \in GrpcTrailers
    BY <1>1, <1>6
  <2>4. o \in AllOutcomes /\ o.error = Absent /\ o.messages = m
    BY <2>2, <2>3 DEF AllOutcomes
  <2> QED  BY <1>6, <2>4 DEF many
<1> QED  BY <1>5, <1>8, <1>9

\* A method of one response answers with one message, or an error.
LEMMA AskedOutcome ==
    ASSUME Asking, NEW o \in Outcomes(AskedEndpoint)
    PROVE  /\ o \in AllOutcomes
           /\ asked.method.kind \in OneResponse =>
                IF o.error = Absent THEN Len(o.messages) = 1 ELSE o.messages = <<>>
<1>1. req.body \in Seq(Messages) /\ setting \in Settings
  BY AskingFact, PayloadsFact DEF Asking
<1>2. asked.method.kind \in OneResponse =>
        AskedEndpoint.type \notin {"server_stream", "bidi_stream"}
  BY AskedEndpointFact, EndpointTypes
<1> QED  BY <1>1, <1>2, OutcomesFact

\* A client supports the coding of the answer to its request.
LEMMA AskedCoding ==
    ASSUME Asking
    PROVE  ClientSupports(NegotiateCompression(req.accept))
<1>1. req.accept = ResolveCompressions(client.accept)
  BY AskingFact
<1>2. client.accept \in Seq(Codings) \cup {Absent}
  BY DeploymentAssumption DEF DeploymentAssumption, client, Asking
<1>3. /\ ResolveCompressions(client.accept) \in Seq(Codings)
      /\ "identity" \in ToSet(ResolveCompressions(client.accept))
  BY <1>2, ResolveFact
<1>4. NegotiateCompression(req.accept) \in ToSet(req.accept)
  BY <1>1, <1>3, NegotiateFact
<1> QED  BY <1>1, <1>4 DEF ClientSupports

\* The answer to a call over frames is one its client reads frames from.
LEMMA AskedFramed ==
    ASSUME Asking, NEW o \in AllOutcomes, Enveloped(asked.method), resp = AnswerStream(o)
    PROVE  /\ Framed /\ resp.body = o.messages /\ resp.end = End(o) /\ resp.end # Absent
           /\ Protocol = client.protocol
<1>1. /\ resp.status = 200 /\ resp.type = IF Protocol = "connect" THEN "stream" ELSE Protocol
      /\ resp.codec = req.codec /\ resp.compression = NegotiateCompression(req.accept)
      /\ resp.body = o.messages /\ resp.end = End(o)
  BY DEF AnswerStream
<1>2. req.codec = client.codec /\ Protocol = client.protocol
  BY AskingFact
<1>3. RequestContext(TRUE).type = IF client.protocol # "connect" THEN client.protocol
                                  ELSE "stream"
  BY DEF RequestContext
<1>4. resp.body \in Seq(Messages)
  BY <1>1 DEF AllOutcomes
<1>5. Framed
  BY <1>1, <1>2, <1>3, <1>4, AskedCoding DEF Framed
<1> QED  BY <1>1, <1>2, <1>5, SaidFact

\* What a caller hears of an answer, and what the properties say of it.
Hearing == IF Enveloped(asked.method) THEN ReceiveStream ELSE ReceiveUnary

Returned(r) == IF Fitting(did.messages) THEN r = Success(did.messages)
               ELSE ~r.ok /\ r.error.code = "resource_exhausted"

Caught(r) ==
    /\ ~r.ok
    /\ IF Fitting(did.messages) THEN Conveyed(r.error, did)
       ELSE r.error.code = "resource_exhausted"

Excuses(r) == /\ FromException(did.error).code = r.error.code \/ did.trailers.details # Absent

\* An answer of the server's that nothing happened to.
Served ==
    /\ runs # <<>> /\ did \in Outcomes(AskedEndpoint)
    /\ resp = IF IsUnary THEN AnswerUnary(did) ELSE AnswerStream(did)

\* What the caller of a unary Connect call hears is what the service did.
LEMMA HeardUnary ==
    ASSUME Asking, Served, ~Enveloped(asked.method)
    PROVE  LET r == ReceiveUnary
           IN  /\ r.ok = (r.error = Absent)
               /\ did.error = Absent => Returned(r)
               /\ did.error # Absent => ~r.ok /\ Conveyed(r.error, did) /\ Fitting(did.messages)
<1>1. resp = AnswerUnary(did) /\ did \in AllOutcomes
  BY AskedEndpointFact, AskedOutcome DEF Served
<1>2. asked.method.kind \in OneResponse
  BY DEF Enveloped, OneResponse
<1>3. did.messages \in Seq(Messages) /\ did.error \in Exceptions \cup {Absent}
  BY <1>1 DEF AllOutcomes
<1>4. CASE did.error = Absent
  <2>1. resp = [status |-> 200, type |-> "unary", codec |-> req.codec, json |-> Absent,
                compression |-> NegotiateCompression(req.accept),
                body |-> did.messages, end |-> Absent]
    BY <1>1, <1>4 DEF AnswerUnary
  <2>2. Len(did.messages) = 1
    BY <1>2, <1>4, AskedOutcome DEF Served
  <2>3. resp.body = did.messages /\ resp.body # <<>> /\ DOMAIN did.messages = 1..1
    <3>1. resp.body = did.messages
      BY <2>1
    <3>2. DOMAIN did.messages = 1..1
      BY <1>3, <2>2, LenProperties
    <3>3. did.messages # <<>>
      BY <2>2, EmptySeq
    <3> QED  BY <3>1, <3>2, <3>3
  <2>4. resp.codec = client.codec /\ ClientSupports(resp.compression)
    BY <2>1, AskingFact, AskedCoding
  <2>5. resp.status = 200 /\ resp.type = "unary"
    BY <2>1
  <2>6. ReceiveUnary = IF ClientTooLarge(resp.body[1])
                       THEN Told(Raised("resource_exhausted")) ELSE Success(resp.body)
    BY <2>3, <2>4, <2>5, ReceiveUnaryFact
  <2>7. Fitting(did.messages) <=> ~ClientTooLarge(did.messages[1])
    BY <2>3 DEF Fitting
  <2>8. CASE ClientTooLarge(did.messages[1])
    <3>1. ReceiveUnary = Told(Raised("resource_exhausted"))
      BY <2>3, <2>6, <2>8
    <3>2. ~ReceiveUnary.ok /\ ReceiveUnary.error = Raised("resource_exhausted")
          /\ ReceiveUnary.ok = FALSE
      BY <3>1 DEF Told
    <3> QED  BY <1>4, <2>7, <2>8, <3>2, RaisedFact, SomeCodes DEF Returned
  <2>9. CASE ~ClientTooLarge(did.messages[1])
    <3>1. ReceiveUnary = Success(did.messages)
      BY <2>3, <2>6, <2>9
    <3>2. ReceiveUnary.ok = TRUE /\ ReceiveUnary.error = Absent
      BY <3>1 DEF Success
    <3> QED  BY <1>4, <2>7, <2>9, <3>1, <3>2 DEF Returned
  <2> QED  BY <2>8, <2>9
<1>5. CASE did.error # Absent
  <2>1. did.error \in Exceptions /\ resp = HandleError(did.error)
    BY <1>1, <1>3, <1>5 DEF AnswerUnary
  <2> DEFINE r == ReceiveUnary
             error == FromException(did.error)
  <2>2. /\ ~r.ok /\ r.error # Absent
        /\ r.error.code = error.code /\ r.error.message = error.message
        /\ Len(r.error.details) = Len(error.details)
        /\ \A i \in DOMAIN error.details :
             error.details[i].prefix = "usual" => r.error.details[i] = error.details[i]
    BY <2>1, FailedFact
  <2>3. Protocol = "connect"
    BY AskingFact
  <2>4. r.ok = FALSE
    <3>1. resp.type = "json" /\ resp.compression = Absent /\ resp.status # 200
          /\ resp.json \in Dicts
      <4>1. error \in ConnectErrors /\ error.code \in Codes
        BY <2>1, FromExceptionFact DEF Exceptions, ConnectErrors
      <4> HIDE DEF error
      <4>2. /\ resp.type = "json" /\ resp.compression = Absent
            /\ resp.status = HttpOfCode(error.code) /\ resp.json = ToDict(error)
        BY <2>1, HandleErrorFact DEF error
      <4>3. resp.status # 200
        BY <4>1, <4>2, CodeFact
      <4>4. ToDict(error) \in Dicts
        BY <4>1, JsonFact
      <4> QED  BY <4>2, <4>3, <4>4
    <3>2. r = Told(FromResponse(resp))
      BY <3>1, ReceiveUnaryFact DEF ClientSupports
    <3> HIDE DEF r
    <3> QED  BY <3>2 DEF Told
  <2> HIDE DEF r, error
  <2>5. Conveyed(r.error, did)
    BY <2>2, <2>3 DEF Conveyed, Conveys, NoTrailersOfItsOwn, error
  <2>6. r.ok = (r.error = Absent)
    BY <2>2, <2>4
  <2>7. Fitting(did.messages)
    <3>1. did.messages = <<>>
      BY <1>2, <1>5, AskedOutcome DEF Served
    <3> QED  BY <3>1 DEF Fitting
  <2> QED  BY <1>5, <2>2, <2>5, <2>6, <2>7 DEF r
<1> QED  BY <1>4, <1>5

\* And of any other call, unless a message is beyond the caller's limit.
LEMMA HeardStream ==
    ASSUME Asking, Served, Enveloped(asked.method)
    PROVE  LET r == ReceiveStream
           IN  /\ r.ok = (r.error = Absent)
               /\ r.ok => did.error = Absent /\ r.messages = did.messages
               /\ did.error = Absent => Returned(r)
               /\ did.error # Absent => Caught(r)
               /\ (~r.ok /\ did.error # Absent /\ r.error.code \in ServicesOwn) => Excuses(r)
               /\ (~r.ok /\ did.error = Absent) => r.error.code \notin ServicesOwn
<1> DEFINE one == asked.method.kind \in OneResponse
           said == HandleResponseComplete
           r == ReceiveStream
           large == Raised("resource_exhausted")
           uni == Raised("unimplemented")
<1>1. resp = AnswerStream(did) /\ did \in AllOutcomes
  BY AskedEndpointFact, AskedOutcome DEF Served
<1>2. /\ Framed /\ resp.body = did.messages /\ resp.end = End(did)
      /\ Protocol = client.protocol
  BY <1>1, AskedFramed
<1>3. /\ did.error = Absent => said = Absent
      /\ did.error # Absent => Conveyed(said, did)
  BY <1>1, <1>2, SaidFact
<1>4. one => IF did.error = Absent THEN Len(did.messages) = 1 ELSE did.messages = <<>>
  BY AskedOutcome DEF Served
<1>5. BodyFits <=> Fitting(did.messages)
  BY <1>2 DEF BodyFits, Fitting
<1>6. /\ r.ok = (r.error = Absent)
      /\ r.ok => said = Absent /\ r.messages = resp.body
      /\ ~r.ok => r.error \in {uni, large, said}
      /\ (BodyFits /\ said = Absent /\ (one => Len(resp.body) = 1)) => r = Success(resp.body)
      /\ (BodyFits /\ said # Absent /\ (one => Len(resp.body) <= 1))
            => ~r.ok /\ r.error = said
      /\ (~BodyFits /\ (one => Len(resp.body) = 1)) => ~r.ok /\ r.error = large
  BY <1>2, FramedFact
<1>7. /\ uni.code = "unimplemented" /\ large.code = "resource_exhausted"
      /\ uni.code \notin ServicesOwn /\ large.code \notin ServicesOwn
  BY RaisedFact, SomeCodes DEF ServicesOwn
<1>8. did.error # Absent => said # Absent
  BY <1>3 DEF Conveyed
<1> HIDE DEF said, r, large, uni
<1>9. CASE did.error = Absent
  <2>1. one => Len(resp.body) = 1
    BY <1>2, <1>4, <1>9
  <2>2. Returned(r)
    <3>1. CASE Fitting(did.messages)
      <4>1. r = Success(did.messages)
        BY <1>2, <1>3, <1>5, <1>6, <1>9, <2>1, <3>1
      <4> QED  BY <3>1, <4>1 DEF Returned
    <3>2. CASE ~Fitting(did.messages)
      <4>1. ~r.ok /\ r.error = large
        BY <1>5, <1>6, <2>1, <3>2
      <4> QED  BY <1>7, <3>2, <4>1 DEF Returned
    <3> QED  BY <3>1, <3>2
  <2>3. ~r.ok => r.error.code \notin ServicesOwn
    <3> SUFFICES ASSUME ~r.ok  PROVE r.error.code \notin ServicesOwn
      OBVIOUS
    <3>1. r.error \in {uni, large, Absent}
      BY <1>3, <1>6, <1>9
    <3>2. r.error # Absent
      BY <1>6
    <3> QED  BY <1>7, <3>1, <3>2
  <2> QED  BY <1>2, <1>6, <1>9, <2>2, <2>3 DEF r
<1>10. CASE did.error # Absent
  <2>1. said # Absent /\ Conveyed(said, did)
    BY <1>3, <1>8, <1>10
  <2>2. one => did.messages = <<>>
    BY <1>4, <1>10
  <2>3. one => BodyFits /\ Len(resp.body) <= 1
    <3> SUFFICES ASSUME one  PROVE BodyFits /\ Len(resp.body) <= 1
      OBVIOUS
    <3>1. resp.body = <<>>
      BY <1>2, <2>2
    <3> QED  BY <3>1 DEF BodyFits
  <2>4. ~r.ok
    BY <1>6, <2>1
  <2>5. /\ Fitting(did.messages) => r.error = said
        /\ ~Fitting(did.messages) => r.error = large
    BY <1>5, <1>6, <2>1, <2>3
  <2>6. Caught(r)
    BY <1>7, <2>1, <2>4, <2>5 DEF Caught
  <2>7. r.error.code \in ServicesOwn => Excuses(r)
    <3> SUFFICES ASSUME r.error.code \in ServicesOwn  PROVE Excuses(r)
      OBVIOUS
    <3>1. r.error = said
      BY <1>6, <1>7, <2>4
    <3> QED  BY <2>1, <3>1 DEF Conveyed, Conveys, NoTrailersOfItsOwn, Excuses
  <2> QED  BY <1>6, <1>10, <2>4, <2>6, <2>7 DEF r
<1> QED  BY <1>9, <1>10

LEMMA HearingBoolean == Hearing.ok \in BOOLEAN
<1>1. ReceiveUnary.ok \in BOOLEAN
  <2> DEFINE e == FirstOf(ValidateResponse \o
                <<HandleResponseCompression,
                  Check(resp.status # 200, FromResponse(resp)),
                  Check(resp.body = <<>>, Raised("unavailable")),
                  Check(resp.body # <<>> /\ ClientTooLarge(resp.body[1]),
                        Raised("resource_exhausted"))>>, Absent)
  <2>1. ReceiveUnary = IF e = Absent THEN Success(resp.body) ELSE Told(e)
    BY DEF ReceiveUnary
  <2> HIDE DEF e
  <2>2. Success(resp.body).ok = TRUE /\ Told(e).ok = FALSE
    BY DEF Success, Told
  <2> QED  BY <2>1, <2>2
<1>2. ReceiveStream.ok \in BOOLEAN
  <2> DEFINE e == FirstOf(<<Check(resp.status # 200, FromResponse(resp))>>
                     \o ValidateStreamResponse \o <<HandleResponseCompression>>, Absent)
             read == ReadResponse
             single == Single(read, Absent)
             many == [ok |-> read.error = Absent, messages |-> read.good, error |-> read.error]
  <2>1. ReceiveStream = IF e # Absent THEN Told(e)
                        ELSE IF asked.method.kind \in OneResponse
                             THEN IF single = Absent THEN Success(read.good) ELSE Told(single)
                             ELSE many
    BY DEF ReceiveStream
  <2>2. /\ many.ok = (read.error = Absent)
        /\ Success(read.good).ok = TRUE /\ Told(e).ok = FALSE /\ Told(single).ok = FALSE
    BY DEF Success, Told
  <2> HIDE DEF e, read, single, many
  <2> QED  BY <2>1, <2>2
<1> QED  BY <1>1, <1>2 DEF Hearing

LEMMA TellsFact ==
    ASSUME NEW e, e # Absent
    PROVE  ~Told(e).ok /\ Told(e).error = e /\ Told(e).error # Absent
  BY DEF Told

\* What the caller of a refused request hears.
Rejected == runs = <<>> /\ verdict \in Refusals /\ resp = Refused(verdict)

\* So is what the library itself raises of a request.
LEMMA HeardRefusal ==
    ASSUME Asking, Rejected
    PROVE  ~Hearing.ok /\ Hearing.error # Absent /\ Hearing.error.code \notin ServicesOwn
<1> DEFINE r == Hearing
<1>1. r \in {ReceiveUnary, ReceiveStream}
  BY DEF Hearing
<1>2. verdict.type = "http" => \E s \in 300..599 : verdict = HTTPException(s)
  BY RefusalsFact DEF Rejected
<1>3. verdict.type # "http" =>
        verdict \in Exceptions /\ FromException(verdict).code \notin ServicesOwn
  <2> SUFFICES ASSUME verdict.type # "http"
               PROVE  verdict \in Exceptions /\ FromException(verdict).code \notin ServicesOwn
    OBVIOUS
  <2>1. \A s : HTTPException(s).type = "http"
    BY DEF HTTPException
  <2> QED  BY <2>1, RefusalsFact DEF Rejected
<1>4. CASE resp = HandleError(verdict)
  <2>1. CASE verdict.type = "http"
    <3>1. PICK s \in 300..599 : verdict = HTTPException(s)
      BY <1>2, <2>1
    <3> HIDE DEF r
    <3> QED  BY <1>1, <1>4, <3>1, HttpFact DEF r
  <2>2. CASE verdict.type # "http"
    <3>1. r.error # Absent /\ ~r.ok /\ r.error.code = FromException(verdict).code
      BY <1>1, <1>3, <1>4, <2>2, FailedFact
    <3> QED  BY <1>3, <2>2, <3>1
  <2> QED  BY <2>1, <2>2
<1>5. CASE resp # HandleError(verdict)
  <2> DEFINE o == Refusal(verdict)
             said == HandleResponseComplete
  <2>1. verdict.type # "http" /\ ~IsUnary /\ resp = AnswerStream(o)
    BY <1>5 DEF Refused, Rejected
  <2>2. Enveloped(asked.method)
    BY <2>1, AskedEndpointFact
  <2>3. o \in AllOutcomes /\ o.error = verdict /\ o.trailers.details = Absent /\ verdict # Absent
    <3>1. <<>> \in Seq(Messages)
      BY EmptySeq
    <3>2. verdict \in Exceptions /\ verdict # Absent
      BY <1>3, <2>1, FromExceptionFact DEF Exceptions
    <3>3. NoTrailersOfItsOwn \in GrpcTrailers /\ NoTrailersOfItsOwn.details = Absent
      BY DEF NoTrailersOfItsOwn, GrpcTrailers
    <3> QED  BY <3>1, <3>2, <3>3 DEF Refusal, AllOutcomes
  <2> HIDE DEF o
  <2>4. Framed /\ resp.end = End(o) /\ Protocol = client.protocol
    BY <2>1, <2>2, <2>3, AskedFramed
  <2>5. Conveyed(said, o)
    BY <2>3, <2>4, SaidFact
  <2>6. said # Absent /\ said.code = FromException(verdict).code
    BY <2>3, <2>5 DEF Conveyed, Conveys, NoTrailersOfItsOwn
  <2>7. r = ReceiveStream
    BY <2>2 DEF Hearing
  <2>8. /\ r.ok = (r.error = Absent)
        /\ r.ok => said = Absent
        /\ ~r.ok => r.error \in {Raised("unimplemented"), Raised("resource_exhausted"), said}
    BY <2>4, <2>7, FramedFact
  <2>9. /\ Raised("unimplemented").code = "unimplemented"
        /\ Raised("resource_exhausted").code = "resource_exhausted"
        /\ "unimplemented" \notin ServicesOwn /\ "resource_exhausted" \notin ServicesOwn
    BY RaisedFact, SomeCodes DEF ServicesOwn
  <2> HIDE DEF r, said
  <2> QED  BY <1>3, <2>1, <2>6, <2>8, <2>9 DEF r
<1> QED  BY <1>4, <1>5

\* A body of frames that was cut has no end; what is left of it is the start of
\* what the service gave.
Shortened ==
    /\ Framed /\ Enveloped(asked.method) /\ resp.end = Absent
    /\ runs # <<>> => IsPrefix(resp.body, did.messages)

LEMMA HeardCut ==
    ASSUME setting \in Settings, Shortened
    PROVE  /\ Hearing.ok = (Hearing.error = Absent)
           /\ Hearing.ok => client.protocol = "connect" /\ Hearing.messages = resp.body
           /\ ~Hearing.ok => Hearing.error.code \notin ServicesOwn
<1> DEFINE r == Hearing
           said == HandleResponseComplete
           uni == Raised("unimplemented")
           large == Raised("resource_exhausted")
           internal == Raised("internal")
<1>1. r = ReceiveStream
  BY DEF Hearing, Shortened
<1>2. said = IF client.protocol = "connect" THEN Absent ELSE internal
  BY DEF HandleResponseComplete, Shortened
<1>3. /\ r.ok = (r.error = Absent)
      /\ r.ok => said = Absent /\ r.messages = resp.body
      /\ ~r.ok => r.error \in {uni, large, said}
  BY <1>1, FramedFact DEF Shortened
<1>4. /\ uni.code \notin ServicesOwn /\ large.code \notin ServicesOwn
      /\ internal.code \notin ServicesOwn /\ internal # Absent
  BY RaisedFact, SomeCodes DEF ServicesOwn
<1> HIDE DEF r, said, uni, large, internal
<1> QED  BY <1>2, <1>3, <1>4 DEF r

\* What an intermediary answers in the server's place is a failure, of no reason
\* of the service's own.
LEMMA HeardReplaced ==
    ASSUME setting \in Settings, resp \in Intermediate
    PROVE  ~Hearing.ok /\ Hearing.error # Absent /\ Hearing.error.code \notin ServicesOwn
<1> DEFINE r == Hearing
           status == FromHttpStatus(resp.status)
           body == FromResponse(resp)
           unknown == Raised("unknown")
<1>1. /\ resp.status \in 200..599 /\ resp.compression = Absent
      /\ \/ resp.type = "html" /\ resp.json = Absent
         \/ /\ resp.type = "json" /\ resp.status # 200
            /\ resp.json \in Dicts /\ resp.json.code \notin ServicesOwn
  BY IntermediateAssumption DEF IntermediateAssumption
<1>2. status # Absent /\ status.code \notin ServicesOwn
  BY <1>1, AnswerFact
<1>3. body # Absent /\ body.code \notin ServicesOwn
  <2>1. CASE resp.json = Absent
    BY <1>2, <2>1 DEF FromResponse
  <2>2. CASE resp.json # Absent
    <3> DEFINE told == FromDict(resp.json, resp.status, "unavailable")
    <3>1. body = told
      BY <2>2 DEF FromResponse
    <3>2. resp.json \in Dicts /\ resp.json.code \notin ServicesOwn
      BY <1>1, <2>2
    <3>3. "unavailable" \in Codes /\ "unavailable" \notin ServicesOwn
      BY SomeCodes DEF ServicesOwn
    <3>4. /\ told # Absent
          /\ \/ told.code = resp.json.code
             \/ told.code = "unavailable"
             \/ told.code \notin ServicesOwn
      BY <3>2, <3>3, DictFact
    <3> HIDE DEF told, body
    <3> QED  BY <3>1, <3>2, <3>3, <3>4
  <2> QED  BY <2>1, <2>2
<1>4. unknown # Absent /\ unknown.code \notin ServicesOwn
  BY RaisedFact, SomeCodes DEF ServicesOwn
<1> SUFFICES \E e \in {status, body, unknown} : r = Told(e)
  <2>1. PICK e \in {status, body, unknown} : r = Told(e)
    OBVIOUS
  <2> HIDE DEF r, status, body, unknown
  <2>2. e # Absent /\ e.code \notin ServicesOwn
    BY <1>2, <1>3, <1>4
  <2> QED  BY <2>1, <2>2, TellsFact DEF r
<1>5. CASE Enveloped(asked.method)
  <2>1. r = ReceiveStream
    BY <1>5 DEF Hearing
  <2>2. CASE resp.status # 200
    BY <1>1, <2>1, <2>2, ReceiveStreamFact
  <2>3. CASE resp.status = 200
    <3>1. resp.type = "html"
      BY <1>1, <2>3
    <3>2. client.protocol \in {"connect", "grpc", "grpcweb"}
      BY DeploymentAssumption DEF DeploymentAssumption, client
    <3>3. RequestContext(TRUE).type \in {"stream", "grpc", "grpcweb"}
      BY <3>2 DEF RequestContext
    <3> QED  BY <2>1, <2>3, <3>1, <3>3, ReceiveStreamFact
  <2> QED  BY <2>2, <2>3
<1>6. CASE ~Enveloped(asked.method)
  <2>1. r = ReceiveUnary
    BY <1>6 DEF Hearing
  <2>2. CASE resp.status # 200
    <3>1. ClientSupports(resp.compression)
      BY <1>1 DEF ClientSupports
    <3> QED  BY <1>1, <2>1, <2>2, <3>1, ReceiveUnaryFact
  <2>3. CASE resp.status = 200
    BY <1>1, <2>1, <2>3, ReceiveUnaryFact
  <2> QED  BY <2>2, <2>3
<1> QED  BY <1>5, <1>6

(* Until it is answered, the caller's request is what Asking says, and     *)
(* what was made of it can be worked out again.                            *)
OnItsWay == asked # Absent /\ step \in {"sent", "routed", "answered"}

AskInv ==
    /\ step \in {"idle", "sent", "routed", "answered", "told", "over"}
    /\ via \in {"direct", "cut", "replaced"}
    /\ step = "idle" => asked = Absent /\ via = "direct"
    /\ step \in {"sent", "routed", "answered"} =>
            req.http \in {"GET", "POST", "PUT"} /\ req.compression \in Codings
    /\ step \in {"sent", "routed"} => via = "direct" /\ Len(runs) <= MaxRepeats
    /\ Len(runs) <= MaxRepeats + 1
    /\ step = "routed" => verdict = Route
    /\ asked # Absent => asked.method \in Methods(setting.service)
    /\ OnItsWay => Asking /\ (runs # <<>> => Route.type = "call")

(* The runs of a call are of the method that is printed under its name.    *)
RunsInv ==
    asked # Absent =>
        \A i \in DOMAIN runs :
            /\ runs[i].method = Printed(asked.method)
            /\ ExecuteMethod(asked.method.kind) \notin Locals(setting.service)
            /\ Compatible => runs[i].body = asked.messages

ArrivedInv ==
    (/\ asked # Absent /\ Compatible /\ ~Shadowed(asked.method)
     /\ via # "replaced" /\ step \in {"answered", "told", "over"}) => runs # <<>>

(* An answer is the server's, whole or cut, or another's.                  *)
AnswerInv ==
    /\ runs # <<>> => did \in AllOutcomes
    /\ step = "answered" =>
        /\ resp.status \in 200..599
        /\ asked # Absent =>
            /\ via = "direct" => Served \/ Rejected
            /\ via = "cut" => Shortened
            /\ via = "replaced" => resp \in Intermediate

(* What may be told of an answer, as all the properties of it have it.     *)
Truthful(r) ==
    /\ r.ok = (r.error = Absent)
    /\ (via = "direct" /\ runs # <<>> /\ did.error = Absent) => Returned(r)
    /\ (via = "direct" /\ runs # <<>> /\ did.error # Absent) => Caught(r)
    /\ r.ok =>
        IF via = "cut" /\ client.protocol = "connect"
        THEN runs # <<>> => IsPrefix(r.messages, did.messages)
        ELSE runs # <<>> /\ did.error = Absent /\ r.messages = did.messages
    /\ (~r.ok /\ r.error.code \in ServicesOwn) => runs # <<>> /\ did.error # Absent /\ Excuses(r)

ToldInv == step = "told" => Truthful(result)

CallInv == AskInv /\ RunsInv /\ ArrivedInv /\ AnswerInv /\ ToldInv

LEMMA HeardServed ==
    ASSUME Asking, Served, via = "direct"
    PROVE  Truthful(Hearing)
<1> DEFINE r == Hearing
<1>1. runs # <<>>
  BY DEF Served
<1>2. Success(did.messages).ok = TRUE /\ Success(did.messages).messages = did.messages
  BY DEF Success
<1>3. "resource_exhausted" \notin ServicesOwn
  BY DEF ServicesOwn
<1>4. /\ r.ok = (r.error = Absent)
      /\ r.ok => did.error = Absent /\ r.messages = did.messages
      /\ did.error = Absent => Returned(r)
      /\ did.error # Absent => Caught(r)
      /\ (~r.ok /\ r.error.code \in ServicesOwn) => did.error # Absent /\ Excuses(r)
  <2>1. CASE ~Enveloped(asked.method)
    <3>1. r = ReceiveUnary
      BY <2>1 DEF Hearing
    <3>2. /\ r.ok = (r.error = Absent)
          /\ did.error = Absent => Returned(r)
          /\ did.error # Absent => ~r.ok /\ Conveyed(r.error, did) /\ Fitting(did.messages)
      BY <2>1, <3>1, HeardUnary
    <3> HIDE DEF r
    <3>3. CASE did.error = Absent
      BY <1>2, <1>3, <3>2, <3>3 DEF Returned
    <3>4. CASE did.error # Absent
      <4>1. Conveyed(r.error, did) => Excuses(r)
        BY DEF Conveyed, Conveys, NoTrailersOfItsOwn, Excuses
      <4> QED  BY <3>2, <3>4, <4>1 DEF Caught
    <3> QED  BY <3>3, <3>4
  <2>2. CASE Enveloped(asked.method)
    <3>1. r = ReceiveStream
      BY <2>2 DEF Hearing
    <3>2. /\ r.ok = (r.error = Absent)
          /\ r.ok => did.error = Absent /\ r.messages = did.messages
          /\ did.error = Absent => Returned(r)
          /\ did.error # Absent => Caught(r)
          /\ (~r.ok /\ did.error # Absent /\ r.error.code \in ServicesOwn) => Excuses(r)
          /\ (~r.ok /\ did.error = Absent) => r.error.code \notin ServicesOwn
      BY <2>2, <3>1, HeardStream
    <3> HIDE DEF r
    <3> QED  BY <3>2
  <2> QED  BY <2>1, <2>2
<1> HIDE DEF r
<1> QED  BY <1>1, <1>4 DEF Truthful, r

\* Whatever became of an answer, what is heard of it is true.
LEMMA HeardFact ==
    ASSUME Asking, via \in {"direct", "cut", "replaced"},
           via = "direct" => Served \/ Rejected,
           via = "cut" => Shortened,
           via = "replaced" => resp \in Intermediate
    PROVE  Truthful(Hearing)
<1> DEFINE r == Hearing
<1>1. r.ok \in BOOLEAN
  BY HearingBoolean
<1>2. setting \in Settings
  BY DEF Asking
<1>3. CASE ~r.ok /\ r.error # Absent /\ r.error.code \notin ServicesOwn
           /\ (via = "direct" => runs = <<>>)
  <2> HIDE DEF r
  <2> QED  BY <1>1, <1>3 DEF Truthful, r
<1>4. CASE via = "direct"
  <2>1. CASE Served
    BY <1>4, <2>1, HeardServed
  <2>2. CASE Rejected
    <3>1. ~r.ok /\ r.error # Absent /\ r.error.code \notin ServicesOwn
      BY <2>2, HeardRefusal
    <3>2. runs = <<>>
      BY <2>2 DEF Rejected
    <3> QED  BY <1>3, <3>1, <3>2
  <2> QED  BY <1>4, <2>1, <2>2
<1>5. CASE via = "cut"
  <2>1. Shortened
    BY <1>5
  <2>2. /\ r.ok = (r.error = Absent)
        /\ r.ok => client.protocol = "connect" /\ r.messages = resp.body
        /\ ~r.ok => r.error.code \notin ServicesOwn
    BY <1>2, <2>1, HeardCut
  <2> HIDE DEF r
  <2> QED  BY <1>5, <2>1, <2>2 DEF Truthful, Shortened, r
<1>6. CASE via = "replaced"
  <2>1. ~r.ok /\ r.error # Absent /\ r.error.code \notin ServicesOwn
    BY <1>2, <1>6, HeardReplaced
  <2> QED  BY <1>3, <1>6, <2>1
<1> QED  BY <1>4, <1>5, <1>6

\* The properties of what a caller is told say no more than that.
LEMMA TruthfulFact ==
    ASSUME ToldInv
    PROVE  ResultArrives /\ ErrorArrives /\ NotInvented
<1>1. ResultArrives
  BY DEF ToldInv, Truthful, ResultArrives, Heard, Returned
<1>2. ErrorArrives
  BY DEF ToldInv, Truthful, ErrorArrives, Heard, Caught, Conveyed
<1>3. NotInvented
  BY DEF ToldInv, Truthful, NotInvented, Excuses
<1> QED  BY <1>1, <1>2, <1>3

-----------------------------------------------------------------------------
(* What is worked out of a setting and a request, as long as both stay.    *)

Same == UNCHANGED <<setting, req>>

LEMMA SameServer ==
    ASSUME Same
    PROVE  /\ Application' = Application /\ Path' = Path
           /\ Protocol' = Protocol /\ Supported' = Supported
           /\ NoTrailers' = NoTrailers /\ ServerFamily' = ServerFamily /\ Message' = Message
           /\ KnownCompression' = KnownCompression /\ StreamCompression' = StreamCompression
           /\ MissingMessage' = MissingMessage
           /\ \A b \in BOOLEAN : CodecOfContentType(b)' = CodecOfContentType(b)
<1>1. Application' = Application
  BY DEF Same, Application, AsgiApplication, WsgiApplication
<1>2. Path' = Path
  BY DEF Same, Path, Presented, AsgiPath, WsgiPath, Application, AsgiApplication,
         WsgiApplication, server
<1>3. /\ Protocol' = Protocol /\ Supported' = Supported
      /\ NoTrailers' = NoTrailers /\ ServerFamily' = ServerFamily /\ Message' = Message
      /\ KnownCompression' = KnownCompression /\ StreamCompression' = StreamCompression
      /\ MissingMessage' = MissingMessage
      /\ \A b \in BOOLEAN : CodecOfContentType(b)' = CodecOfContentType(b)
  BY DEF Same, Protocol, Supported, NoTrailers, server, ServerFamily, Message,
         KnownCompression, StreamCompression, MissingMessage, CodecOfContentType
<1> QED  BY <1>1, <1>2, <1>3

LEMMA SameEndpoint ==
    ASSUME Same, NEW CONSTANT e
    PROVE  /\ MethodNotAllowed(e)' = MethodNotAllowed(e)
           /\ UnaryConnect(e)' = UnaryConnect(e)
           /\ \A m : TooLarge(m)' = TooLarge(m)
           /\ \A m : Undecodable(m, e)' = Undecodable(m, e)
  BY DEF Same, Protocol, MethodNotAllowed, UnaryConnect, TooLarge, Undecodable, server,
         ServerFamily

LEMMA SameFrame ==
    ASSUME Same, NEW CONSTANT m, NEW CONSTANT e
    PROVE  ReadFrame(m, e)' = ReadFrame(m, e)
  BY SameServer, SameEndpoint DEF Same, ReadFrame

LEMMA SameFrames ==
    ASSUME Same, NEW CONSTANT e
    PROVE  ReadFrames(e)' = ReadFrames(e)
  BY SameFrame DEF Same, ReadFrames

LEMMA SameRead ==
    ASSUME Same, NEW CONSTANT e
    PROVE  /\ ReadGetAsgi(e)' = ReadGetAsgi(e) /\ ReadGetWsgi(e)' = ReadGetWsgi(e)
           /\ ReadPostAsgi(e)' = ReadPostAsgi(e) /\ ReadPostWsgi(e)' = ReadPostWsgi(e)
           /\ ReadStream(e)' = ReadStream(e)
<1>1. ReadGetAsgi(e)' = ReadGetAsgi(e) /\ ReadGetWsgi(e)' = ReadGetWsgi(e)
  BY SameServer, SameEndpoint DEF Same, ReadGetAsgi, ReadGetWsgi, server
<1>2. ReadPostAsgi(e)' = ReadPostAsgi(e) /\ ReadPostWsgi(e)' = ReadPostWsgi(e)
  BY SameServer DEF Same, ReadPostAsgi, ReadPostWsgi, server, TooLarge, Undecodable,
         Message, CodecOfContentType, Protocol, ServerFamily
<1>3. ReadStream(e)' = ReadStream(e)
  BY SameFrames, SameServer DEF Same, ReadStream
<1> QED  BY <1>1, <1>2, <1>3

LEMMA SameHandle ==
    ASSUME Same, NEW CONSTANT e
    PROVE  HandleAsgi(e)' = HandleAsgi(e) /\ HandleWsgi(e)' = HandleWsgi(e)
<1>1. HandleAsgi(e)' = HandleAsgi(e)
  BY SameServer, SameEndpoint, SameRead
     DEF Same, HandleAsgi, server, CodecOfContentType, Protocol
<1>2. HandleWsgi(e)' = HandleWsgi(e)
  BY SameServer, SameEndpoint, SameRead
     DEF Same, HandleWsgi, server, CodecOfContentType, Protocol
<1> QED  BY <1>1, <1>2

LEMMA SameRoute == ASSUME Same PROVE Route' = Route
  BY SameHandle, SameServer DEF Same, Route

LEMMA SameUnary == ASSUME Same PROVE IsUnary' = IsUnary
  BY SameServer, SameEndpoint DEF IsUnary

LEMMA SameNegotiation ==
    ASSUME Same, NEW CONSTANT accept
    PROVE  NegotiateCompression(accept)' = NegotiateCompression(accept)
  BY SameServer DEF NegotiateCompression

LEMMA SameAnswer ==
    ASSUME Same, NEW CONSTANT o
    PROVE  /\ End(o)' = End(o)
           /\ AnswerUnary(o)' = AnswerUnary(o) /\ AnswerStream(o)' = AnswerStream(o)
<1>1. End(o)' = End(o)
  BY SameServer DEF End
<1>2. NegotiateCompression(req.accept)' = NegotiateCompression(req.accept)
  BY SameNegotiation DEF Same
<1>3. AnswerUnary(o)' = AnswerUnary(o)
  BY <1>2 DEF AnswerUnary, Same
<1>4. AnswerStream(o)' = AnswerStream(o)
  BY <1>1, <1>2, SameServer DEF AnswerStream, Same
<1> QED  BY <1>1, <1>3, <1>4

LEMMA SameRefused ==
    ASSUME Same, NEW CONSTANT e
    PROVE  Refused(e)' = Refused(e)
  BY SameServer, SameUnary, SameAnswer DEF Refused

LEMMA SameOutcomes ==
    ASSUME Same, NEW CONSTANT e
    PROVE  Outcomes(e)' = Outcomes(e)
<1> DEFINE many == e.type \in {"server_stream", "bidi_stream"}
           read == IF e.type \in {"client_stream", "bidi_stream"}
                   THEN {ReadFrames(e).error} \ {Absent} ELSE {}
           own == IF Protocol = "connect" THEN {NoTrailersOfItsOwn} ELSE Trailers
           All(errors, trailers) ==
                {Outcome(m, x, t) : m \in IF many THEN Bodies ELSE {<<>>},
                                    x \in errors, t \in trailers}
                \cup {Outcome(m, Absent, t) :
                        m \in IF many THEN Bodies ELSE {<<"small">>, <<"big">>}, t \in trailers}
<1>1. Outcomes(e) = All(setting.raises \cup read, own)
  BY DEF Outcomes
<1>2. Outcomes(e)' = All(setting'.raises \cup read', own')
  BY DEF Outcomes
<1>3. read' = read
  BY SameFrames
<1>4. own' = own
  BY SameServer
<1> HIDE DEF read, own, All
<1> QED  BY <1>1, <1>2, <1>3, <1>4 DEF Same

LEMMA SameClient ==
    ASSUME UNCHANGED setting
    PROVE  /\ client' = client /\ server' = server
           /\ \A n : ClientSupports(n)' = ClientSupports(n)
           /\ \A n : ClientTooLarge(n)' = ClientTooLarge(n)
           /\ \A b : RequestContext(b)' = RequestContext(b)
           /\ \A m : Enveloped(m)' = Enveloped(m)
           /\ \A m : Printed(m)' = Printed(m)
  BY DEF client, server, ClientSupports, ClientTooLarge, RequestContext, Enveloped, Printed

LEMMA SameRequest ==
    ASSUME UNCHANGED setting, NEW CONSTANT m, NEW CONSTANT get, NEW CONSTANT messages
    PROVE  Request(m, get, messages)' = Request(m, get, messages)
  BY SameClient DEF Request, GetParams

LEMMA SameAsking ==
    ASSUME Same, UNCHANGED asked
    PROVE  Asking' = Asking /\ AskedEndpoint' = AskedEndpoint /\ Compatible' = Compatible
<1>1. Asking' = Asking
  BY SameClient, SameRequest DEF Same, Asking
<1>2. AskedEndpoint' = AskedEndpoint
  BY SameClient DEF Same, AskedEndpoint
<1>3. Compatible' = Compatible
  BY DEF Same, Compatible, client, server, Supported, ServerFamily, TooLarge
<1> QED  BY <1>1, <1>2, <1>3

LEMMA SameServed ==
    ASSUME Same, UNCHANGED <<asked, runs, did, resp, verdict>>
    PROVE  Served' = Served /\ Rejected' = Rejected /\ Shortened' = Shortened
<1>1. Served' = Served
  BY SameOutcomes, SameAsking, SameUnary, SameAnswer DEF Served
<1>2. Rejected' = Rejected
  BY SameRefused DEF Rejected
<1>3. Shortened' = Shortened
  <2>1. Framed' = Framed
    <3>1. /\ RequestContext(TRUE)' = RequestContext(TRUE)
          /\ ClientSupports(resp.compression)' = ClientSupports(resp.compression)
          /\ client.codec' = client.codec
      BY DEF Same, RequestContext, ClientSupports, client
    <3> QED  BY <3>1 DEF Framed
  <2>2. Enveloped(asked.method)' = Enveloped(asked.method)
    BY DEF Same, Enveloped, client
  <2> QED  BY <2>1, <2>2 DEF Shortened
<1> QED  BY <1>1, <1>2, <1>3

LEMMA SameTruth ==
    ASSUME Same, UNCHANGED <<runs, did, via>>, NEW CONSTANT r
    PROVE  Truthful(r)' = Truthful(r)
<1>1. Fitting(did.messages)' = Fitting(did.messages)
  BY DEF Same, Fitting, ClientTooLarge, client
<1>2. Conveyed(r.error, did)' = Conveyed(r.error, did)
  BY SameServer DEF Conveyed, Conveys
<1>3. Returned(r)' = Returned(r) /\ Caught(r)' = Caught(r) /\ Excuses(r)' = Excuses(r)
  BY <1>1, <1>2 DEF Returned, Caught, Excuses
<1> QED  BY <1>3 DEF Same, Truthful, client

LEMMA RequestParts ==
    ASSUME NEW m, NEW get, NEW messages
    PROVE  /\ Request(m, get, messages).http \in {"GET", "POST"}
           /\ Request(m, get, messages).compression = client.send
<1> DEFINE context == RequestContext(Enveloped(m))
           url == MethodUrl(setting.service, m)
<1>1. context.compression = client.send /\ GetParams(context).compression = client.send
  BY DEF RequestContext, GetParams
<1>2. \/ Request(m, get, messages) = HttpRequest("GET", url, GetParams(context), messages)
      \/ Request(m, get, messages) = HttpRequest("POST", url, context, messages)
  BY DEF Request
<1>3. \A c : /\ HttpRequest("GET", url, c, messages).http = "GET"
             /\ HttpRequest("POST", url, c, messages).http = "POST"
             /\ HttpRequest("GET", url, c, messages).compression = c.compression
             /\ HttpRequest("POST", url, c, messages).compression = c.compression
  BY DEF HttpRequest
<1> HIDE DEF context, url
<1> QED  BY <1>1, <1>2, <1>3

\* A call that is routed is one of the endpoint at its path.
LEMMA RouteEndpoint ==
    ASSUME setting \in Settings, WellFormed(req), Route.type = "call"
    PROVE  Route.endpoint = Application.endpoints[Path]
<1> DEFINE e == Application.endpoints[Path]
<1>1. Path \in DOMAIN Application.endpoints
  BY NotACall DEF Route
<1>2. Route = IF setting.flavor = "async" THEN HandleAsgi(e) ELSE HandleWsgi(e)
  BY <1>1 DEF Route
<1> HIDE DEF e
<1>3. CASE setting.flavor = "async"
  <2>1. Route = HandleAsgi(e)
    BY <1>2, <1>3
  <2> QED  BY <2>1, HandleAsgiFact DEF Within, e
<1>4. CASE setting.flavor # "async"
  <2>1. Route = HandleWsgi(e)
    BY <1>2, <1>4
  <2> QED  BY <2>1, HandleWsgiFact DEF Within, e
<1> QED  BY <1>3, <1>4

LEMMA AnswerStatus ==
    /\ \A e \in Refusals : Refused(e).status \in 200..599
    /\ \A o \in AllOutcomes : /\ AnswerUnary(o).status \in 200..599
                              /\ AnswerStream(o).status \in 200..599
<1>1. \A e \in Exceptions : HandleError(e).status \in 200..599
  <2> TAKE e \in Exceptions
  <2>1. FromException(e).code \in Codes
    BY FromExceptionFact DEF Exceptions, ConnectErrors
  <2>2. HandleError(e).status = HttpOfCode(FromException(e).code)
    BY HandleErrorFact
  <2>3. HttpOfCode(FromException(e).code) \in 400..599
    BY <2>1, CodeFact
  <2> QED  BY <2>2, <2>3
<1>2. \A s \in 300..599 : HandleError(HTTPException(s)).status \in 200..599
  BY DEF HandleError, HTTPException, Plain
<1>3. \A o : AnswerStream(o).status = 200
  BY DEF AnswerStream
<1>4. ASSUME NEW e \in Refusals  PROVE Refused(e).status \in 200..599
  <2>1. e \in Exceptions \/ \E s \in 300..599 : e = HTTPException(s)
    BY RefusalsFact
  <2>2. HandleError(e).status \in 200..599
    BY <1>1, <1>2, <2>1
  <2> QED  BY <1>3, <2>2 DEF Refused
<1>5. ASSUME NEW o \in AllOutcomes  PROVE AnswerUnary(o).status \in 200..599
  <2>1. CASE o.error # Absent
    <3>1. o.error \in Exceptions
      BY <2>1 DEF AllOutcomes
    <3>2. AnswerUnary(o) = HandleError(o.error)
      BY <2>1 DEF AnswerUnary
    <3> QED  BY <1>1, <3>1, <3>2
  <2>2. CASE o.error = Absent
    BY <2>2 DEF AnswerUnary
  <2> QED  BY <2>1, <2>2
<1> QED  BY <1>3, <1>4, <1>5

LEMMA SameRuns ==
    ASSUME Same, UNCHANGED asked
    PROVE  /\ Compatible' = Compatible
           /\ Printed(asked.method)' = Printed(asked.method)
           /\ Shadowed(asked.method)' = Shadowed(asked.method)
           /\ UNCHANGED runs => RunsInv' = RunsInv
<1>1. Compatible' = Compatible
  BY SameAsking
<1>2. Printed(asked.method)' = Printed(asked.method)
  BY DEF Same, Printed
<1>3. Shadowed(asked.method)' = Shadowed(asked.method)
  BY DEF Same, Shadowed
<1>4. ASSUME UNCHANGED runs  PROVE RunsInv' = RunsInv
  BY <1>1, <1>2, <1>4 DEF Same, RunsInv
<1> QED  BY <1>1, <1>2, <1>3, <1>4

LEMMA NoRuns == DOMAIN <<>> = {} /\ Len(<<>>) = 0
  OBVIOUS

LEMMA CallInvInit == Init => CallInv
<1> SUFFICES ASSUME Init  PROVE CallInv
  OBVIOUS
<1>1. /\ asked = Absent /\ runs = <<>> /\ via = "direct" /\ step = "idle"
  BY DEF Init
<1>2. MaxRepeats \in Nat
  BY IntermediateAssumption DEF IntermediateAssumption
<1> QED  BY <1>1, <1>2, NoRuns DEF CallInv, AskInv, OnItsWay, RunsInv, ArrivedInv, AnswerInv, ToldInv

\* Of a printed method the caller may call, the method that is printed there is
\* of the same kind; what it calls is the library's, or its name was given away.
LEMMA CallFact ==
    ASSUME setting \in Settings, NEW method \in Methods(setting.service), NEW get \in BOOLEAN,
           NEW messages \in Payloads(method.kind), Call(method, get, messages)
    PROVE  /\ Printed(method).kind = method.kind
           /\ get => SupportsGet(Printed(method))
           /\ \/ /\ step' = "over" /\ UNCHANGED req
                 /\ ExecuteMethod(method.kind) \in Locals(setting.service)
              \/ /\ step' = "told" /\ UNCHANGED req
                 /\ result' = Told(Raised("unavailable"))
                 /\ CodecFamily(setting.option, client.argument) # setting.option
              \/ /\ step' = "sent"
                 /\ ExecuteMethod(method.kind) \notin Locals(setting.service)
                 /\ req' = Request(Printed(method), get, messages)
<1> DEFINE l == LocalName(method)
           printed == Winner(setting.service, l)
           stub == Client[l]
<1>1. l \in Locals(setting.service) /\ method.kind \in Kinds
  BY MethodFact
<1>2. printed \in Methods(setting.service) /\ printed = Printed(method)
  BY <1>1, WinnerFact DEF Printed
<1>3. printed.kind \in Kinds
  BY <1>2, MethodFact
<1>4. /\ stub.takes = TakesOf(printed.kind) /\ stub.gives = GivesOf(printed.kind)
      /\ stub.get = SupportsGet(printed) /\ stub.execute = ExecuteMethod(printed.kind)
      /\ stub.info.input.family = setting.option
  BY <1>1, StubFact
<1>5. /\ stub.takes = TakesOf(method.kind) /\ stub.gives = GivesOf(method.kind)
      /\ get => stub.get
      /\ IF stub.execute \in Locals(setting.service)
         THEN step' = "over" /\ result' = Told(Other("text")) /\ UNCHANGED req
         ELSE IF CodecFamily(setting.option, client.argument) # stub.info.input.family
         THEN step' = "told" /\ result' = Told(Raised("unavailable")) /\ UNCHANGED req
         ELSE /\ step' = "sent" /\ UNCHANGED result
              /\ req' = Request(Winner(setting.service, l), get, messages)
  BY DEF Call
<1> HIDE DEF stub, printed, l
<1>6. printed.kind = method.kind
  BY <1>1, <1>3, <1>4, <1>5, KindFact
<1>7. req' = Request(Winner(setting.service, l), get, messages)
        => req' = Request(Printed(method), get, messages)
  BY DEF Printed, l
<1> QED  BY <1>2, <1>4, <1>5, <1>6, <1>7

LEMMA UnavailableFact ==
    ASSUME runs = <<>>
    PROVE  Truthful(Told(Raised("unavailable")))
<1> DEFINE r == Told(Raised("unavailable"))
<1>1. r.ok = FALSE /\ r.error = Raised("unavailable")
  BY DEF Told
<1>2. r.error # Absent /\ r.error.code \notin ServicesOwn
  BY <1>1, RaisedFact, SomeCodes DEF ServicesOwn
<1> HIDE DEF r
<1> QED  BY <1>1, <1>2 DEF Truthful, r

LEMMA CallStep ==
    ASSUME RequestInv, CallInv,
           NEW method \in Methods(setting.service), NEW get \in BOOLEAN,
           NEW messages \in Payloads(method.kind), Call(method, get, messages)
    PROVE  CallInv'
<1> USE DEF CallInv
<1>1. /\ step = "idle" /\ setting \in Settings /\ runs = <<>> /\ via = "direct"
      /\ asked' = [method |-> method, get |-> get, messages |-> messages]
      /\ UNCHANGED <<setting, runs, did, via>>
  BY DEF Call, Ask, RequestInv, AskInv
<1>2. /\ asked'.method = method /\ asked'.get = get /\ asked'.messages = messages
      /\ asked'.method \in Methods(setting'.service)
  BY <1>1
<1>3. MaxRepeats \in Nat
  BY IntermediateAssumption DEF IntermediateAssumption
<1>4. /\ Printed(method).kind = method.kind
      /\ get => SupportsGet(Printed(method))
      /\ \/ /\ step' = "over" /\ UNCHANGED req
            /\ ExecuteMethod(method.kind) \in Locals(setting.service)
         \/ /\ step' = "told" /\ UNCHANGED req
            /\ result' = Told(Raised("unavailable"))
            /\ CodecFamily(setting.option, client.argument) # setting.option
         \/ /\ step' = "sent"
            /\ ExecuteMethod(method.kind) \notin Locals(setting.service)
            /\ req' = Request(Printed(method), get, messages)
  BY <1>1, CallFact
<1>5. RunsInv'
  BY <1>1, NoRuns DEF RunsInv
<1>6. step' \in {"over", "told", "sent"}
  BY <1>4
<1>7. AnswerInv'
  BY <1>1, <1>6 DEF AnswerInv
<1>8. ArrivedInv'
  <2>1. CASE step' = "over"
    <3>1. Shadowed(asked.method)'
      BY <1>1, <1>2, <1>4, <2>1 DEF Shadowed
    <3> QED  BY <3>1 DEF ArrivedInv
  <2>2. CASE step' = "told"
    <3>1. ~Compatible'
      BY <1>1, <1>4, <2>2 DEF Compatible, client
    <3> QED  BY <3>1 DEF ArrivedInv
  <2>3. CASE step' = "sent"
    BY <2>3 DEF ArrivedInv
  <2> QED  BY <1>6, <2>1, <2>2, <2>3
<1>9. ToldInv'
  <2> SUFFICES ASSUME step' = "told"  PROVE Truthful(result)'
    BY DEF ToldInv
  <2>1. result' = Told(Raised("unavailable")) /\ Same
    BY <1>1, <1>4 DEF Same
  <2>2. Truthful(Told(Raised("unavailable")))
    BY <1>1, UnavailableFact
  <2> QED  BY <1>1, <2>1, <2>2, SameTruth
<1>10. AskInv'
  <2>1. CASE step' = "sent"
    <3>1. Asking'
      <4>1. Printed(asked.method)' = Printed(method)
        BY <1>1, <1>2 DEF Printed
      <4>2. Request(Printed(asked.method), asked.get, asked.messages)'
              = Request(Printed(method), get, messages)
        BY <1>1, <1>2, <4>1, SameRequest
      <4> QED  BY <1>1, <1>2, <1>4, <2>1, <4>1, <4>2 DEF Asking, Payloads
    <3>2. req'.http \in {"GET", "POST"} /\ req'.compression \in Codings
      <4>1. client.send \in Codings
        BY <1>1, DeploymentAssumption DEF DeploymentAssumption, client
      <4>2. req' = Request(Printed(method), get, messages)
        BY <1>4, <2>1
      <4> QED  BY <4>1, <4>2, RequestParts
    <3> QED  BY <1>1, <1>2, <1>3, <2>1, <3>1, <3>2, NoRuns DEF AskInv, OnItsWay
  <2>2. CASE step' # "sent"
    BY <1>1, <1>2, <1>3, <1>6, <2>2, NoRuns DEF AskInv, OnItsWay
  <2> QED  BY <2>1, <2>2
<1> QED  BY <1>5, <1>7, <1>8, <1>9, <1>10

LEMMA ForeignStep ==
    ASSUME RequestInv, CallInv,
           NEW method \in Methods(setting.service), NEW request \in setting.others,
           ForeignCall(request, method)
    PROVE  CallInv'
<1>1. /\ step = "idle" /\ setting \in Settings /\ runs = <<>> /\ via = "direct"
      /\ asked = Absent /\ step' = "sent"
      /\ UNCHANGED <<setting, asked, runs, did, via>>
  BY DEF ForeignCall, RequestInv, CallInv, AskInv
<1>2. req'.http \in {"GET", "POST", "PUT"} /\ req'.compression \in Codings
  <2>1. request.http \in {"GET", "POST", "PUT"} /\ request.compression \in Codings
    BY <1>1, DeploymentAssumption DEF DeploymentAssumption
  <2>2. req'.http = request.http /\ req'.compression = request.compression
    BY DEF ForeignCall, HttpRequest
  <2> QED  BY <2>1, <2>2
<1>3. MaxRepeats \in Nat
  BY IntermediateAssumption DEF IntermediateAssumption
<1>4. AskInv'
  BY <1>1, <1>2, <1>3, NoRuns DEF AskInv, OnItsWay
<1> QED  BY <1>1, <1>4, NoRuns DEF CallInv, RunsInv, ArrivedInv, AnswerInv, ToldInv

LEMMA DispatchStep == ASSUME RequestInv, CallInv, Dispatch PROVE CallInv'
<1>1. /\ step = "sent" /\ step' = "routed" /\ verdict' = Route /\ Same
      /\ UNCHANGED <<setting, asked, req, runs, did, resp, via>>
  BY DEF Dispatch, Same
<1>2. Route' = Route /\ Asking' = Asking /\ RunsInv' = RunsInv
  BY <1>1, SameRoute, SameAsking, SameRuns
<1>3. AskInv'
  BY <1>1, <1>2 DEF CallInv, AskInv, OnItsWay
<1> QED  BY <1>1, <1>2, <1>3 DEF CallInv, ArrivedInv, AnswerInv, ToldInv

\* What the server may have made of a request that it routed.
LEMMA VerdictFact ==
    ASSUME RequestInv, CallInv, step = "routed"
    PROVE  /\ setting \in Settings /\ WellFormed(req) /\ req.body \in Seq(Messages)
           /\ verdict = Route
           /\ verdict \in Refusals \/ verdict.type = "call"
           /\ asked # Absent =>
                /\ Asking
                /\ verdict.type = "call" => verdict.endpoint = AskedEndpoint
                /\ Compatible => verdict = Called(AskedEndpoint, asked.messages)
                /\ runs # <<>> => verdict.type = "call"
<1>1. /\ setting \in Settings /\ WellFormed(req) /\ req.body \in Seq(Messages)
      /\ verdict = Route
  BY DEF RequestInv, CallInv, AskInv, WellFormed
<1>2. verdict \in Refusals \/ verdict.type = "call"
  BY <1>1, RouteErrors
<1>3. ASSUME asked # Absent
      PROVE  /\ Asking
             /\ verdict.type = "call" => verdict.endpoint = AskedEndpoint
             /\ Compatible => verdict = Called(AskedEndpoint, asked.messages)
             /\ runs # <<>> => verdict.type = "call"
  <2>1. Asking /\ (runs # <<>> => Route.type = "call")
    BY <1>3 DEF CallInv, AskInv, OnItsWay
  <2> QED  BY <1>1, <2>1, RouteEndpoint, AskedRoute, AskedEndpointFact
<1> QED  BY <1>1, <1>2, <1>3

LEMMA RefuseStep == ASSUME RequestInv, CallInv, Refuse PROVE CallInv'
<1>1. /\ step = "routed" /\ step' = "answered" /\ verdict.type # "call"
      /\ resp' = Refused(verdict) /\ Same
      /\ UNCHANGED <<setting, asked, req, verdict, runs, did, via>>
  BY DEF Refuse, Same
<1>2. Route' = Route /\ Asking' = Asking /\ RunsInv' = RunsInv /\ Compatible' = Compatible
  BY <1>1, SameRoute, SameAsking, SameRuns
<1>3. /\ verdict \in Refusals
      /\ asked # Absent => ~Compatible /\ runs = <<>>
  <2>1. Called(AskedEndpoint, asked.messages).type = "call"
    BY CalledFact
  <2> QED  BY <1>1, <2>1, VerdictFact
<1>4. via = "direct"
  BY <1>1 DEF CallInv, AskInv
<1>5. AskInv'
  BY <1>1, <1>2, <1>3 DEF CallInv, AskInv, OnItsWay
<1>6. resp'.status \in 200..599
  BY <1>1, <1>3, AnswerStatus
<1>7. asked # Absent => Rejected'
  <2>1. Refused(verdict)' = Refused(verdict)
    BY <1>1, SameRefused
  <2> QED  BY <1>1, <1>3, <2>1 DEF Rejected
<1>8. AnswerInv'
  BY <1>1, <1>4, <1>6, <1>7 DEF CallInv, AnswerInv
<1>9. ArrivedInv'
  BY <1>1, <1>2, <1>3 DEF ArrivedInv
<1> QED  BY <1>1, <1>2, <1>5, <1>8, <1>9 DEF CallInv, ToldInv

LEMMA ServeStep == ASSUME RequestInv, CallInv, Serve PROVE CallInv'
<1> DEFINE run == [method |-> Winner(setting.service, verdict.endpoint.function),
                   body |-> verdict.body]
<1>1. /\ step = "routed" /\ step' = "answered" /\ verdict.type = "call"
      /\ runs' = Append(runs, run) /\ Same
      /\ did' \in Outcomes(verdict.endpoint)
      /\ resp' = IF IsUnary THEN AnswerUnary(did') ELSE AnswerStream(did')
      /\ UNCHANGED <<setting, asked, req, verdict, via>>
  BY DEF Serve, Answer, Same
<1>2. /\ Route' = Route /\ Asking' = Asking /\ Compatible' = Compatible
      /\ AskedEndpoint' = AskedEndpoint /\ IsUnary' = IsUnary
      /\ Printed(asked.method)' = Printed(asked.method)
  BY <1>1, SameRoute, SameAsking, SameRuns, SameUnary
<1>3. /\ setting \in Settings /\ req.body \in Seq(Messages) /\ verdict = Route
      /\ asked # Absent =>
            /\ Asking /\ verdict.endpoint = AskedEndpoint
            /\ Compatible => verdict = Called(AskedEndpoint, asked.messages)
  BY <1>1, VerdictFact
<1>4. /\ via = "direct" /\ Len(runs) <= MaxRepeats /\ MaxRepeats \in Nat
      /\ runs \in Seq(Runs)
  BY <1>1, IntermediateAssumption DEF CallInv, AskInv, RequestInv, IntermediateAssumption
<1>5. did' \in AllOutcomes
  BY <1>1, <1>3, OutcomesFact
<1>6. /\ runs' # <<>> /\ Len(runs') = Len(runs) + 1 /\ Len(runs) \in Nat
      /\ \A i \in DOMAIN runs' : (i \in DOMAIN runs /\ runs'[i] = runs[i]) \/ runs'[i] = run
  <2> HIDE DEF run
  <2> QED  BY <1>1, <1>4
<1>7. AskInv'
  BY <1>1, <1>2, <1>3, <1>4, <1>6 DEF CallInv, AskInv, OnItsWay
<1>8. RunsInv'
  <2> SUFFICES ASSUME asked # Absent, NEW i \in DOMAIN runs'
               PROVE  /\ runs'[i].method = Printed(asked.method)
                      /\ ExecuteMethod(asked.method.kind) \notin Locals(setting.service)
                      /\ Compatible => runs'[i].body = asked.messages
    BY <1>1, <1>2 DEF RunsInv
  <2>1. Asking /\ verdict.endpoint = AskedEndpoint
        /\ (Compatible => verdict = Called(AskedEndpoint, asked.messages))
    BY <1>3
  <2>2. run.method = Printed(asked.method)
    BY <2>1, AskedEndpointFact DEF Printed
  <2>3. Compatible => run.body = asked.messages
    BY <2>1, CalledFact
  <2>4. ExecuteMethod(asked.method.kind) \notin Locals(setting.service)
    BY <2>1 DEF Asking
  <2>5. CASE i \in DOMAIN runs /\ runs'[i] = runs[i]
    BY <2>4, <2>5 DEF CallInv, RunsInv
  <2>6. CASE runs'[i] = run
    <3> HIDE DEF run
    <3> QED  BY <2>2, <2>3, <2>4, <2>6
  <2> QED  BY <1>6, <2>5, <2>6
<1>9. resp'.status \in 200..599
  BY <1>1, <1>5, AnswerStatus
<1>10. asked # Absent => Served'
  <2> SUFFICES ASSUME asked # Absent  PROVE Served'
    OBVIOUS
  <2>1. did' \in Outcomes(AskedEndpoint)
    BY <1>1, <1>3
  <2>2. Outcomes(AskedEndpoint)' = Outcomes(AskedEndpoint)
    BY <1>1, <1>2, SameOutcomes
  <2>3. /\ AnswerUnary(did)' = AnswerUnary(did') /\ AnswerStream(did)' = AnswerStream(did')
    BY <1>1, SameAnswer
  <2> QED  BY <1>1, <1>2, <1>6, <2>1, <2>2, <2>3 DEF Served
<1>11. AnswerInv'
  BY <1>1, <1>4, <1>5, <1>9, <1>10 DEF AnswerInv
<1>12. ArrivedInv'
  BY <1>6 DEF ArrivedInv
<1> QED  BY <1>1, <1>7, <1>8, <1>11, <1>12 DEF CallInv, ToldInv

LEMMA MisfitStep == ASSUME RequestInv, CallInv, Misfit PROVE CallInv'
<1> DEFINE o == Refusal(Other("text"))
<1>1. /\ step = "routed" /\ step' = "answered" /\ verdict.type = "call"
      /\ ~Fits(verdict.endpoint) /\ did' = o /\ Same
      /\ resp' = IF IsUnary THEN AnswerUnary(o) ELSE AnswerStream(o)
      /\ UNCHANGED <<setting, asked, req, verdict, runs, via>>
  BY DEF Misfit, Answer, Same
<1>2. asked = Absent
  BY <1>1, VerdictFact, AskedFits
<1>3. RunsInv'
  BY <1>1, <1>2 DEF RunsInv
<1>4. o \in AllOutcomes
  <2>1. <<>> \in Seq(Messages)
    BY EmptySeq
  <2>2. Other("text") \in Exceptions
    BY TextsFact DEF Other, Others, Exceptions
  <2>3. NoTrailersOfItsOwn \in GrpcTrailers
    BY DEF NoTrailersOfItsOwn, GrpcTrailers
  <2> QED  BY <2>1, <2>2, <2>3 DEF Refusal, AllOutcomes
<1> HIDE DEF o
<1>5. resp'.status \in 200..599
  BY <1>1, <1>4, AnswerStatus
<1>6. AskInv'
  BY <1>1, <1>2 DEF CallInv, AskInv, OnItsWay
<1> QED  BY <1>1, <1>2, <1>3, <1>4, <1>5, <1>6 DEF CallInv, ArrivedInv, AnswerInv, ToldInv

LEMMA ReplaceStep == ASSUME RequestInv, CallInv, Replace PROVE CallInv'
<1>1. /\ step = "sent" /\ step' = "answered" /\ via' = "replaced" /\ resp' \in Intermediate
      /\ Same /\ UNCHANGED <<setting, asked, req, verdict, runs, did>>
  BY DEF Replace, Same
<1>2. Route' = Route /\ Asking' = Asking /\ RunsInv' = RunsInv
  BY <1>1, SameRoute, SameAsking, SameRuns
<1>3. resp'.status \in 200..599
  BY <1>1, IntermediateAssumption DEF IntermediateAssumption
<1>4. AskInv'
  BY <1>1, <1>2 DEF CallInv, AskInv, OnItsWay
<1> QED  BY <1>1, <1>2, <1>3, <1>4 DEF CallInv, ArrivedInv, AnswerInv, ToldInv

LEMMA RepeatCallStep == ASSUME RequestInv, CallInv, Repeat PROVE CallInv'
<1>1. /\ step = "answered" /\ step' = "sent" /\ via = "direct" /\ Len(runs) \in 1..MaxRepeats
      /\ Same /\ UNCHANGED <<setting, asked, req, verdict, runs, did, resp, via>>
  BY DEF Repeat, Same
<1>2. Route' = Route /\ Asking' = Asking /\ RunsInv' = RunsInv
  BY <1>1, SameRoute, SameAsking, SameRuns
<1>3. AskInv'
  BY <1>1, <1>2 DEF CallInv, AskInv, OnItsWay
<1> QED  BY <1>1, <1>2, <1>3 DEF CallInv, ArrivedInv, AnswerInv, ToldInv

\* An answer that has an end is one of frames, of what the service gave or of
\* nothing.
LEMMA EndFact ==
    ASSUME Asking, resp.end # Absent, Served \/ Rejected
    PROVE  /\ Enveloped(asked.method) /\ Framed
           /\ runs # <<>> => resp.body = did.messages
           /\ \E o \in AllOutcomes : resp = AnswerStream(o)
<1>1. \A e : HandleError(e).end = Absent
  BY DEF HandleError, Plain
<1>2. \A o : AnswerUnary(o).end = Absent
  BY <1>1 DEF AnswerUnary
<1>3. CASE Served
  <2>1. ~IsUnary /\ resp = AnswerStream(did)
    BY <1>2, <1>3 DEF Served
  <2>2. Enveloped(asked.method) /\ did \in AllOutcomes
    BY <1>3, <2>1, AskedEndpointFact, AskedOutcome DEF Served
  <2> QED  BY <2>1, <2>2, AskedFramed
<1>4. CASE Rejected
  <2> DEFINE o == Refusal(verdict)
  <2>1. verdict.type # "http" /\ ~IsUnary /\ resp = AnswerStream(o) /\ runs = <<>>
    BY <1>1, <1>4 DEF Rejected, Refused
  <2>2. Enveloped(asked.method)
    BY <2>1, AskedEndpointFact
  <2>3. o \in AllOutcomes
    <3>1. <<>> \in Seq(Messages)
      BY EmptySeq
    <3>2. \A s : HTTPException(s).type = "http"
      BY DEF HTTPException
    <3>3. verdict \in Exceptions
      <4>1. verdict \in Refusals /\ verdict.type # "http"
        BY <1>4, <2>1 DEF Rejected
      <4>2. verdict \in Exceptions \/ \E s \in 300..599 : verdict = HTTPException(s)
        BY <4>1, RefusalsFact
      <4> QED  BY <3>2, <4>1, <4>2
    <3>4. NoTrailersOfItsOwn \in GrpcTrailers
      BY DEF NoTrailersOfItsOwn, GrpcTrailers
    <3> QED  BY <3>1, <3>3, <3>4 DEF Refusal, AllOutcomes
  <2> HIDE DEF o
  <2> QED  BY <2>1, <2>2, <2>3, AskedFramed
<1> QED  BY <1>3, <1>4

LEMMA CutStep == ASSUME RequestInv, CallInv, Cut PROVE CallInv'
<1>1. /\ step = "answered" /\ via = "direct" /\ asked # Absent /\ resp.end # Absent
      /\ via' = "cut" /\ Same
      /\ UNCHANGED <<setting, asked, req, verdict, runs, did, step>>
  BY DEF Cut, Same
<1>2. PICK k \in 0..Len(resp.body) :
            resp' = [resp EXCEPT !.body = SubSeq(@, 1, k), !.end = Absent]
  BY DEF Cut
<1>3. Route' = Route /\ Asking' = Asking /\ RunsInv' = RunsInv /\ Compatible' = Compatible
      /\ Shadowed(asked.method)' = Shadowed(asked.method)
  BY <1>1, SameRoute, SameAsking, SameRuns
<1>4. Asking /\ (Served \/ Rejected)
  BY <1>1 DEF CallInv, AskInv, AnswerInv, OnItsWay
<1>5. /\ Enveloped(asked.method) /\ Framed
      /\ runs # <<>> => resp.body = did.messages
      /\ \E o \in AllOutcomes : resp = AnswerStream(o)
  BY <1>1, <1>4, EndFact
<1>6. resp'.body = SubSeq(resp.body, 1, k) /\ resp'.end = Absent
      /\ resp'.status = resp.status /\ resp'.type = resp.type
      /\ resp'.codec = resp.codec /\ resp'.compression = resp.compression
  <2>1. PICK o \in AllOutcomes : resp = AnswerStream(o)
    BY <1>5
  <2> QED  BY <1>2, <2>1 DEF AnswerStream
<1>7. resp'.body \in Seq(Messages) /\ IsPrefix(resp'.body, resp.body)
  <2>1. resp.body \in Seq(Messages)
    BY <1>5 DEF Framed
  <2> QED  BY <1>2, <1>6, <2>1 DEF IsPrefix
<1>8. Shortened'
  <2>1. Framed'
    <3>1. /\ RequestContext(TRUE)' = RequestContext(TRUE)
          /\ ClientSupports(resp.compression)' = ClientSupports(resp.compression)
          /\ client.codec' = client.codec
      BY <1>1, <1>6 DEF RequestContext, ClientSupports, client
    <3> QED  BY <1>5, <1>6, <1>7, <3>1 DEF Framed
  <2>2. Enveloped(asked.method)' = Enveloped(asked.method)
    BY <1>1 DEF Enveloped, client
  <2> QED  BY <1>1, <1>5, <1>6, <1>7, <2>1, <2>2 DEF Shortened
<1>9. resp'.status \in 200..599
  BY <1>5, <1>6 DEF Framed
<1>10. AskInv'
  BY <1>1, <1>3 DEF CallInv, AskInv, OnItsWay
<1>11. AnswerInv'
  BY <1>1, <1>8, <1>9 DEF CallInv, AnswerInv
<1>12. ArrivedInv'
  BY <1>1, <1>3 DEF CallInv, ArrivedInv
<1> QED  BY <1>1, <1>3, <1>10, <1>11, <1>12 DEF CallInv, ToldInv

LEMMA ReceiveStep == ASSUME RequestInv, CallInv, Receive PROVE CallInv'
<1>1. /\ step = "answered" /\ asked # Absent /\ step' = "told" /\ result' = Hearing /\ Same
      /\ UNCHANGED <<setting, asked, req, verdict, runs, did, resp, via>>
  BY DEF Receive, Hearing, Same
<1>2. RunsInv' = RunsInv /\ Compatible' = Compatible
      /\ Shadowed(asked.method)' = Shadowed(asked.method)
  BY <1>1, SameRuns
<1>3. /\ Asking /\ via \in {"direct", "cut", "replaced"}
      /\ via = "direct" => Served \/ Rejected
      /\ via = "cut" => Shortened
      /\ via = "replaced" => resp \in Intermediate
  BY <1>1 DEF CallInv, AskInv, AnswerInv, OnItsWay
<1>4. Truthful(Hearing)
  BY <1>3, HeardFact
<1>5. Truthful(result)'
  BY <1>1, <1>4, SameTruth
<1>6. AskInv'
  BY <1>1 DEF CallInv, AskInv, OnItsWay
<1>7. ArrivedInv'
  BY <1>1, <1>2 DEF CallInv, ArrivedInv
<1> QED  BY <1>1, <1>2, <1>5, <1>6, <1>7 DEF CallInv, AnswerInv, ToldInv

LEMMA LeaveStep == ASSUME RequestInv, CallInv, Leave PROVE CallInv'
<1>1. /\ step = "told" /\ step' = "over" /\ Same
      /\ UNCHANGED <<setting, asked, req, verdict, runs, did, resp, via>>
  BY DEF Leave, Same
<1>2. RunsInv' = RunsInv /\ Compatible' = Compatible
      /\ Shadowed(asked.method)' = Shadowed(asked.method)
  BY <1>1, SameRuns
<1>3. AskInv'
  BY <1>1 DEF CallInv, AskInv, OnItsWay
<1>4. ArrivedInv'
  BY <1>1, <1>2 DEF CallInv, ArrivedInv
<1> QED  BY <1>1, <1>2, <1>3, <1>4 DEF CallInv, AnswerInv, ToldInv

LEMMA StutterStep == ASSUME CallInv, UNCHANGED vars PROVE CallInv'
<1>1. Same /\ UNCHANGED <<setting, asked, req, verdict, runs, did, resp, via, result, step>>
  BY DEF vars, Same
<1>2. RunsInv' = RunsInv /\ Compatible' = Compatible /\ Route' = Route /\ Asking' = Asking
      /\ Shadowed(asked.method)' = Shadowed(asked.method)
      /\ Served' = Served /\ Rejected' = Rejected /\ Shortened' = Shortened
  BY <1>1, SameRuns, SameRoute, SameAsking, SameServed
<1>3. Truthful(result)' = Truthful(result)
  BY <1>1, SameTruth
<1>4. AskInv'
  BY <1>1, <1>2 DEF CallInv, AskInv, OnItsWay
<1>5. AnswerInv'
  BY <1>1, <1>2 DEF CallInv, AnswerInv
<1>6. ArrivedInv'
  BY <1>1, <1>2 DEF CallInv, ArrivedInv
<1>7. ToldInv'
  BY <1>1, <1>3 DEF CallInv, ToldInv
<1> QED  BY <1>2, <1>4, <1>5, <1>6, <1>7 DEF CallInv

LEMMA CallInvStep == RequestInv /\ CallInv /\ [Next]_vars => CallInv'
<1> SUFFICES ASSUME RequestInv, CallInv, [Next]_vars  PROVE CallInv'
  OBVIOUS
<1>1. CASE UNCHANGED vars \/ Over
  BY <1>1, StutterStep DEF Over
<1>2. CASE Next /\ ~Over
  BY <1>2, CallStep, ForeignStep, DispatchStep, RefuseStep, ServeStep, MisfitStep,
     ReplaceStep, CutStep, RepeatCallStep, ReceiveStep, LeaveStep DEF Next
<1> QED  BY <1>1, <1>2

LEMMA CallInductive == Spec => []CallInv
<1>1. Inv => RequestInv  BY DEF Inv
<1>2. RequestInv /\ CallInv /\ [Next]_vars => CallInv'  BY CallInvStep
<1> QED  BY <1>1, <1>2, CallInvInit, Inductive, PTL DEF Spec

\* A call is one of the caller's or a foreign one, has at each step what that
\* step reads, and ends as a success or as an error but never as both.
THEOREM TypeCorrect == Spec => []TypeOK
<1>1. CallInv => TypeOK
  <2> SUFFICES ASSUME CallInv  PROVE TypeOK
    OBVIOUS
  <2>1. runs # <<>> => did \in [messages : Seq(Messages), trailers : GrpcTrailers,
                                error : ConnectErrors \cup Others \cup {Absent}]
    BY DEF CallInv, AnswerInv, AllOutcomes, Exceptions
  <2>2. step = "told" => result.ok = (result.error = Absent)
    BY DEF CallInv, ToldInv, Truthful
  <2> QED  BY <2>1, <2>2 DEF CallInv, AskInv, AnswerInv, TypeOK
<1> QED  BY <1>1, CallInductive, PTL

\* Of a client and a server that fit, a call of a printed method runs that
\* method, as often as the request is sent, on the caller's messages and no
\* others; unless the printer gave its name away.
THEOREM CallsArrive == Spec => []CallArrives
<1>1. CallInv => CallArrives
  <2> SUFFICES ASSUME CallInv, asked # Absent, Compatible, via # "replaced",
                      step \in {"answered", "told", "over"}
               PROVE  IF Shadowed(asked.method)
                      THEN \A i \in DOMAIN runs : runs[i].method # asked.method
                      ELSE /\ runs # <<>>
                           /\ \A i \in DOMAIN runs : runs[i].method = asked.method
                                                   /\ runs[i].body = asked.messages
    BY DEF CallArrives
  <2>1. \A i \in DOMAIN runs :
            /\ runs[i].method = Printed(asked.method)
            /\ ExecuteMethod(asked.method.kind) \notin Locals(setting.service)
            /\ runs[i].body = asked.messages
    BY DEF CallInv, RunsInv
  <2>2. ~Shadowed(asked.method) => runs # <<>>
    BY DEF CallInv, ArrivedInv
  <2> QED  BY <2>1, <2>2 DEF Shadowed, Printed
<1> QED  BY <1>1, CallInductive, PTL

\* What a service returned is what its caller gets, and a message beyond the
\* caller's own limit is what the caller is told of instead.
THEOREM ResultsArrive == Spec => []ResultArrives
<1>1. CallInv => ResultArrives  BY TruthfulFact DEF CallInv
<1> QED  BY <1>1, CallInductive, PTL

\* What a service raised is what its caller catches, whatever code, message and
\* details it has, in every protocol, and where the error has nothing to write
\* over gRPC trailers of the service's own, what these say in its place.
THEOREM ErrorsArrive == Spec => []ErrorArrives
<1>1. CallInv => ErrorArrives  BY TruthfulFact DEF CallInv
<1> QED  BY <1>1, CallInductive, PTL

\* No caller is told of a success that was none, or of a reason that only the
\* service can have had, whatever came between the two.
THEOREM NothingInvented == Spec => []NotInvented
<1>1. CallInv => NotInvented  BY TruthfulFact DEF CallInv
<1> QED  BY <1>1, CallInductive, PTL
=============================================================================
