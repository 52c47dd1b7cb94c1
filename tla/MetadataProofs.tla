--------------------------- MODULE MetadataProofs ---------------------------
(***************************************************************************)
(* Any names and values, timeouts of any size, any number of changes and   *)
(* of calls.  The values of each name are followed from one object to the  *)
(* next with lemmas on what each method of Headers does to them.           *)
(***************************************************************************)
EXTENDS Metadata, SequenceTheorems, TLAPS
-----------------------------------------------------------------------------
(* What the methods of Headers do to the values of every name, and that    *)
(* they keep store and extra in step.                                      *)

LEMMA Concat3 ==
    ASSUME NEW V, NEW s \in Seq(V), NEW t \in Seq(V), NEW u \in Seq(V)
    PROVE  s \o (t \o u) = (s \o t) \o u
<1>1. (s \o t) \o u = s \o (t \o u)
  BY ConcatAssociative
<1> QED  BY <1>1, Zenon

LEMMA FirstRest ==
    ASSUME NEW V, NEW s \in Seq(V)
    PROVE  /\ First(s) \in Seq(V) /\ Rest(s) \in Seq(V)
           /\ First(s) \o Rest(s) = s
           /\ Len(First(s)) <= 1
           /\ First(s) = <<>> => s = <<>>
<1>1. CASE s = <<>>
  <2>1. First(s) = SubSeq(s, 1, 0) /\ Rest(s) = SubSeq(s, 2, Len(s))
    BY <1>1 DEF First, Rest
  <2>2. Len(s) = 0
    BY <1>1, EmptySeq
  <2>3. First(s) = <<>> /\ Rest(s) = <<>>
    BY <2>1, <2>2, SubSeqEmpty
  <2>4. <<>> \in Seq(V) /\ <<>> \o <<>> = <<>> /\ Len(<<>>) = 0
    BY EmptySeq, ConcatEmptySeq
  <2>5. First(s) \o Rest(s) = s
    BY <1>1, <2>3, <2>4
  <2>6. First(s) \in Seq(V) /\ Rest(s) \in Seq(V)
    BY <2>3, <2>4, Zenon
  <2>7. Len(First(s)) <= 1
    BY <2>3, <2>4
  <2> QED  BY <1>1, <2>5, <2>6, <2>7, Zenon
<1>2. CASE s # <<>>
  <2>1. Len(s) \in Nat /\ Len(s) >= 1
    BY <1>2, EmptySeq
  <2>2. First(s) = SubSeq(s, 1, 1) /\ Rest(s) = SubSeq(s, 2, Len(s))
    BY <1>2 DEF First, Rest
  <2>3. First(s) \in Seq(V) /\ Len(First(s)) = 1 /\ First(s)[1] = s[1]
    BY <2>1, <2>2, SubSeqProperties
  <2>4. /\ Rest(s) \in Seq(V) /\ Len(Rest(s)) = Len(s) - 1
        /\ \A i \in 1..Len(s) - 1 : Rest(s)[i] = s[i + 1]
    BY <2>1, <2>2, SubSeqProperties
  <2>5. SubSeq(s, 1, 1) \o SubSeq(s, 1 + 1, Len(s)) = SubSeq(s, 1, Len(s))
    <3>1. 1 \in 1 .. Len(s) + 1 /\ 1 \in 1 - 1 .. Len(s) /\ Len(s) \in 1 .. Len(s)
      BY <2>1
    <3> QED  BY <3>1, ConcatAdjacentSubSeq, Zenon
  <2>6. First(s) \o Rest(s) = s
    BY <2>2, <2>5, SubSeqFull
  <2> QED  BY <2>3, <2>4, <2>6, EmptySeq
<1> QED  BY <1>1, <1>2

\* h[n] = v: a header set has the one value, the others keep theirs
\* (_headers.py:46-50).
LEMMA SetItemValues ==
    ASSUME NEW N, NEW V, NEW h \in Table(N, V), WellKept(h),
           NEW n \in N, NEW v \in V
    PROVE  /\ SetItem(h, n, v) \in Table(N, V) /\ WellKept(SetItem(h, n, v))
           /\ \A m \in N : GetAll(SetItem(h, n, v), m) = IF m = n THEN <<v>> ELSE GetAll(h, m)
<1> DEFINE s == SetItem(h, n, v)
<1>1. /\ s.store = [h.store EXCEPT ![n] = <<v>>] /\ s.extra = [h.extra EXCEPT ![n] = <<>>]
      /\ s = [store |-> s.store, extra |-> s.extra]
  BY DEF SetItem
<1>a. <<v>> \in Seq(V) /\ <<>> \in Seq(V) /\ Len(<<v>>) <= 1 /\ <<v>> # <<>> /\ <<v>> \o <<>> = <<v>>
  OBVIOUS
<1>b. s.store \in [N -> Seq(V)] /\ s.extra \in [N -> Seq(V)]
  BY <1>1, <1>a DEF Table
<1>c. s \in Table(N, V)
  BY <1>1, <1>b DEF Table
<1>2. DOMAIN h.store = N /\ DOMAIN s.store = N
  BY <1>1, <1>c DEF Table
<1>3. WellKept(s)
  BY <1>1, <1>2, <1>a DEF Table, WellKept
<1>4. \A m \in N : GetAll(s, m) = IF m = n THEN <<v>> ELSE GetAll(h, m)
  BY <1>1, <1>2, <1>a DEF GetAll, Table
<1> QED  BY <1>c, <1>3, <1>4

\* del h[n] (_headers.py:52-58).
LEMMA DelItemValues ==
    ASSUME NEW N, NEW V, NEW h \in Table(N, V), WellKept(h), NEW n \in N
    PROVE  /\ DelItem(h, n) \in Table(N, V) /\ WellKept(DelItem(h, n))
           /\ \A m \in N : GetAll(DelItem(h, n), m) = IF m = n THEN <<>> ELSE GetAll(h, m)
<1> DEFINE s == DelItem(h, n)
<1>1. /\ s.store = [h.store EXCEPT ![n] = <<>>] /\ s.extra = [h.extra EXCEPT ![n] = <<>>]
      /\ s = [store |-> s.store, extra |-> s.extra]
  BY DEF DelItem
<1>a. <<>> \in Seq(V) /\ <<>> \in Seq(V) /\ Len(<<>>) <= 1 /\ <<>> \o <<>> = <<>>
  OBVIOUS
<1>b. s.store \in [N -> Seq(V)] /\ s.extra \in [N -> Seq(V)]
  BY <1>1, <1>a DEF Table
<1>c. s \in Table(N, V)
  BY <1>1, <1>b DEF Table
<1>2. DOMAIN h.store = N /\ DOMAIN s.store = N
  BY <1>1, <1>c DEF Table
<1>3. WellKept(s)
  BY <1>1, <1>2, <1>a DEF Table, WellKept
<1>4. \A m \in N : GetAll(s, m) = IF m = n THEN <<>> ELSE GetAll(h, m)
  BY <1>1, <1>2, <1>a DEF GetAll, Table
<1> QED  BY <1>c, <1>3, <1>4

\* h.add(n, v) appends, whichever of the two dictionaries it writes to
\* (_headers.py:69-80).
LEMMA AddValues ==
    ASSUME NEW N, NEW V, NEW h \in Table(N, V), WellKept(h),
           NEW n \in N, NEW v \in V
    PROVE  /\ Add(h, n, v) \in Table(N, V) /\ WellKept(Add(h, n, v))
           /\ \A m \in N : GetAll(Add(h, n, v), m) =
                  IF m = n THEN Append(GetAll(h, m), v) ELSE GetAll(h, m)
<1> DEFINE s == Add(h, n, v)
<1>0. /\ DOMAIN h.store = N /\ h.store[n] \in Seq(V) /\ h.extra[n] \in Seq(V)
      /\ h.store \in [N -> Seq(V)] /\ h.extra \in [N -> Seq(V)]
  BY DEF Table
<1>1. CASE Has(h, n)
  <2>0. /\ s.store = h.store /\ s.extra = [h.extra EXCEPT ![n] = Append(@, v)]
        /\ s = [store |-> s.store, extra |-> s.extra]
    BY <1>1 DEF Add
  <2>a. s.extra \in [N -> Seq(V)]
    BY <1>0, <2>0
  <2>1. /\ s.store = h.store /\ s.extra = [h.extra EXCEPT ![n] = Append(@, v)]
        /\ s \in Table(N, V)
    BY <1>0, <2>0, <2>a DEF Table
  <2>2. WellKept(s)
    BY <1>0, <1>1, <2>1 DEF Table, WellKept, Has
  <2>3. h.store[n] \o Append(h.extra[n], v) = Append(h.store[n] \o h.extra[n], v)
    <3>1. /\ Append(h.extra[n], v) = h.extra[n] \o <<v>>
          /\ h.store[n] \o h.extra[n] \in Seq(V) /\ <<v>> \in Seq(V)
      BY <1>0, AppendIsConcat, ConcatProperties
    <3>2. Append(h.store[n] \o h.extra[n], v) = (h.store[n] \o h.extra[n]) \o <<v>>
      BY <3>1, AppendIsConcat
    <3>3. h.store[n] \o (h.extra[n] \o <<v>>) = (h.store[n] \o h.extra[n]) \o <<v>>
      <4>1. \A s1, t1, u1 \in Seq(V) : s1 \o (t1 \o u1) = (s1 \o t1) \o u1
        BY Concat3
      <4>2. h.store[n] \in Seq(V) /\ h.extra[n] \in Seq(V) /\ <<v>> \in Seq(V)
        BY <1>0, <3>1, Zenon
      <4> QED  BY <4>1, <4>2, Zenon
    <3> QED  BY <3>1, <3>2, <3>3, Zenon
  <2>4. \A m \in N : GetAll(s, m) = IF m = n THEN Append(GetAll(h, m), v) ELSE GetAll(h, m)
    BY <2>1, <2>3 DEF GetAll, Table
  <2> QED  BY <2>1, <2>2, <2>4
<1>2. CASE ~Has(h, n)
  <2>0. /\ s.store = [h.store EXCEPT ![n] = <<v>>] /\ s.extra = h.extra
        /\ s = [store |-> s.store, extra |-> s.extra]
    BY <1>2 DEF Add
  <2>a. <<v>> \in Seq(V) /\ Len(<<v>>) <= 1 /\ <<v>> # <<>>
        /\ <<v>> \o <<>> = Append(<<>> \o <<>>, v)
    OBVIOUS
  <2>b. s.store \in [N -> Seq(V)]
    BY <1>0, <2>0, <2>a
  <2>1. /\ s.store = [h.store EXCEPT ![n] = <<v>>] /\ s.extra = h.extra
        /\ s \in Table(N, V)
    BY <1>0, <2>0, <2>b DEF Table
  <2>2. h.store[n] = <<>> /\ h.extra[n] = <<>>
    BY <1>0, <1>2 DEF Has, WellKept
  <2>3. WellKept(s)
    BY <1>0, <2>1, <2>a DEF WellKept
  <2>4. \A m \in N : GetAll(s, m) = IF m = n THEN Append(GetAll(h, m), v) ELSE GetAll(h, m)
    BY <1>0, <2>1, <2>2, <2>a DEF GetAll
  <2> QED  BY <2>1, <2>3, <2>4
<1> QED  BY <1>1, <1>2

\* Adding a list of items appends the values of each name.
LEMMA AddAllValues ==
    ASSUME NEW N, NEW V, NEW h \in Table(N, V), WellKept(h),
           NEW items \in Items(N, V)
    PROVE  /\ AddAll(h, items) \in Table(N, V) /\ WellKept(AddAll(h, items))
           /\ \A n \in N : GetAll(AddAll(h, items), n) = GetAll(h, n) \o items[n]
<1> DEFINE s == AddAll(h, items)
<1>0. DOMAIN h.store = N
  BY DEF Table
<1>1. ASSUME NEW n \in N
      PROVE  /\ s.store[n] \in Seq(V) /\ s.extra[n] \in Seq(V)
             /\ Len(s.store[n]) <= 1
             /\ s.store[n] = <<>> => s.extra[n] = <<>>
             /\ s.store[n] \o s.extra[n] = GetAll(h, n) \o items[n]
  <2>0. h.store[n] \in Seq(V) /\ h.extra[n] \in Seq(V) /\ items[n] \in Seq(V)
    BY DEF Table, Items
  <2>1. /\ s.store[n] = IF Has(h, n) THEN h.store[n] ELSE First(items[n])
        /\ s.extra[n] = h.extra[n] \o (IF Has(h, n) THEN items[n] ELSE Rest(items[n]))
    BY <1>0 DEF AddAll
  <2>2. CASE Has(h, n)
    <3>1. h.store[n] # <<>> /\ Len(h.store[n]) <= 1
      BY <1>0, <2>2 DEF Has, WellKept
    <3>2. h.store[n] \o (h.extra[n] \o items[n]) = (h.store[n] \o h.extra[n]) \o items[n]
      <4>1. \A s1, t1, u1 \in Seq(V) : s1 \o (t1 \o u1) = (s1 \o t1) \o u1
        BY Concat3
      <4> QED  BY <2>0, <4>1, Zenon
    <3>3. s.store[n] = h.store[n] /\ s.extra[n] = h.extra[n] \o items[n]
      BY <2>1, <2>2
    <3>4. s.extra[n] \in Seq(V)
      BY <2>0, <3>3, ConcatProperties
    <3> QED  BY <2>0, <3>1, <3>2, <3>3, <3>4 DEF GetAll
  <2>3. CASE ~Has(h, n)
    <3>1. h.store[n] = <<>> /\ h.extra[n] = <<>>
      BY <1>0, <2>3 DEF Has, WellKept
    <3>2. s.store[n] = First(items[n]) /\ s.extra[n] = <<>> \o Rest(items[n])
      BY <2>1, <2>3, <3>1
    <3>3. s.extra[n] = Rest(items[n])
      BY <2>0, <3>2, FirstRest
    <3>4. GetAll(h, n) \o items[n] = items[n]
      BY <2>0, <3>1 DEF GetAll
    <3>5. First(items[n]) = <<>> => Rest(items[n]) = <<>>
      BY <2>0, FirstRest DEF Rest
    <3> QED  BY <2>0, <3>2, <3>3, <3>4, <3>5, FirstRest
  <2> QED  BY <2>2, <2>3
<1>2. s \in Table(N, V) /\ DOMAIN s.store = N
  <2>1. /\ s.store = [n \in N |-> s.store[n]] /\ s.extra = [n \in N |-> s.extra[n]]
        /\ s = [store |-> s.store, extra |-> s.extra]
    BY <1>0 DEF AddAll
  <2>2. s.store \in [N -> Seq(V)] /\ s.extra \in [N -> Seq(V)]
    BY <1>1, <2>1
  <2> QED  BY <2>1, <2>2 DEF Table
<1>3. WellKept(s)
  BY <1>1, <1>2 DEF WellKept
<1> QED  BY <1>1, <1>2, <1>3 DEF GetAll

LEMMA EmptyValues ==
    ASSUME NEW N, NEW V
    PROVE  /\ Empty(N) \in Table(N, V) /\ WellKept(Empty(N))
           /\ \A n \in N : GetAll(Empty(N), n) = <<>> /\ ~Has(Empty(N), n)
  BY DEF Empty, NoItems, Table, WellKept, GetAll, Has

LEMMA GetAllType ==
    ASSUME NEW N, NEW V, NEW h \in Table(N, V)
    PROVE  /\ \A n \in N : GetAll(h, n) \in Seq(V)
           /\ AllItems(h) \in Items(N, V)
           /\ \A n \in N : AllItems(h)[n] = GetAll(h, n)
<1>1. DOMAIN h.store = N /\ \A n \in N : h.store[n] \in Seq(V) /\ h.extra[n] \in Seq(V)
  BY DEF Table
<1>2. \A n \in N : GetAll(h, n) \in Seq(V)
  BY <1>1, ConcatProperties DEF GetAll
<1>3. AllItems(h) = [n \in N |-> GetAll(h, n)]
  BY <1>1 DEF AllItems
<1> QED  BY <1>2, <1>3 DEF Items

LEMMA HasSome ==
    ASSUME NEW N, NEW V, NEW h \in Table(N, V), WellKept(h), NEW n \in N
    PROVE  Has(h, n) <=> GetAll(h, n) # <<>>
<1>1. DOMAIN h.store = N /\ h.store[n] \in Seq(V) /\ h.extra[n] \in Seq(V)
  BY DEF Table
<1> QED  BY <1>1 DEF WellKept, Has, GetAll

\* Headers(items): the values are those of the items (_headers.py:27-40).
LEMMA FromItemsValues ==
    ASSUME NEW N, NEW V, NEW items \in Items(N, V)
    PROVE  /\ FromItems(items) \in Table(N, V) /\ WellKept(FromItems(items))
           /\ \A n \in N : GetAll(FromItems(items), n) = items[n]
<1>1. DOMAIN items = N
  BY DEF Items
<1>2. /\ FromItems(items) \in Table(N, V) /\ WellKept(FromItems(items))
      /\ \A n \in N : GetAll(FromItems(items), n) = GetAll(Empty(N), n) \o items[n]
  <2>1. FromItems(items) = AddAll(Empty(N), items)
    BY <1>1 DEF FromItems
  <2>2. Empty(N) \in Table(N, V) /\ WellKept(Empty(N))
    BY EmptyValues
  <2>3. /\ AddAll(Empty(N), items) \in Table(N, V) /\ WellKept(AddAll(Empty(N), items))
        /\ \A n \in N : GetAll(AddAll(Empty(N), items), n) = GetAll(Empty(N), n) \o items[n]
    BY <2>2, AddAllValues
  <2> QED  BY <2>1, <2>3, Zenon
<1> QED  BY <1>2, EmptyValues DEF Items

\* A copy through allitems() has the values of the original.
THEOREM CopyKeepsValues ==
    ASSUME NEW N, NEW V, NEW h \in Table(N, V), WellKept(h)
    PROVE  \A n \in N : GetAll(FromItems(AllItems(h)), n) = GetAll(h, n)
  BY GetAllType, FromItemsValues
-----------------------------------------------------------------------------
(* The invariant of a call.                                                 *)

SentTimeout == [value : Int, unit : {"H", "M", "S", "m", "n", "ms"}]
Requests    == [items : Items(RequestNames, Words), timeout : Option(SentTimeout)]
Metadatas   == [headers : Table(ResponseKeys, Words), trailers : Table(ResponseKeys, Words)]

\* What the wire carries of the caller's headers, and what the service
\* makes of it.
RequestInv ==
    /\ phase # "idle" =>
         /\ request.items = AllItems(RequestHeaders(call.compress))
         /\ request.timeout = TimeoutItem(call.protocol, call.timeout)
    /\ phase \in {"serving", "opened"} =>
         /\ served = ProcessHeaders(call.app, request.items)
         /\ request.timeout # <<>> => Accepts(call.protocol, request.timeout[1])
         /\ deadline = IF request.timeout = <<>> THEN <<>>
                       ELSE <<TimeoutRead(call.protocol, request.timeout[1])>>
    /\ outcome = "refused" =>
         /\ phase \in {"answered", "done"}
         /\ request.timeout # <<>> /\ ~Accepts(call.protocol, request.timeout[1])

\* What the wire carries of the service's.
WireInv ==
    /\ phase \in {"idle", "asked", "serving"} => ~heard
    /\ phase = "done" => heard
    /\ phase \notin {"answered", "done"} => outcome = "none"
    /\ phase \in {"answered", "done"} => outcome # "none"
    /\ phase = "opened" => wire = Sent(FALSE) /\ call.protocol # "unary"
    /\ outcome \in {"ok", "error"} =>
         wire = Sent(call.protocol = "unary") /\ end = Trailing(outcome)
    /\ outcome = "refused" => wire = Sent(FALSE)

\* What the caller's ResponseMetadata has of it.
HeardHeaders ==
    \A k \in ResponseKeys : GetAll(seen.headers, k) = wire[<<k, FALSE>>]

Follows(k, values) ==
    \/ GetAll(seen.trailers, k) = values
    \/ uses # 1 /\ \E p \in Seq(Words) : GetAll(seen.trailers, k) = p \o values

SeenInv ==
    inside =>
        /\ phase = "idle" /\ uses = 0 => seen = NothingSeen
        /\ phase # "idle" => uses # 0
        /\ phase # "idle" /\ ~heard /\ uses = 1 => seen = NothingSeen
        /\ heard => HeardHeaders
        /\ heard /\ phase # "done" =>
             \A k \in ResponseKeys : Follows(k, wire[<<k, TRUE>>])
        /\ phase = "done" /\ outcome # "refused" =>
             \A k \in ResponseKeys \ {"status"} : Follows(k, Trailed(k))

ToldInv == phase = "done" /\ outcome # "refused" => verdict = outcome

Inv == TypeOK /\ RequestInv /\ WireInv /\ SeenInv /\ ToldInv
-----------------------------------------------------------------------------
(* What the operators of Metadata return.                                   *)

LEMMA ChangedType ==
    ASSUME NEW N, NEW M \in SUBSET N, NEW h \in Table(N, Words), WellKept(h),
           NEW g \in Changed(h, M)
    PROVE  g \in Table(N, Words) /\ WellKept(g)
<1>1. \/ \E n \in M, v \in Values : g = SetItem(h, n, v) \/ g = Add(h, n, v)
      \/ \E n \in M : g = DelItem(h, n)
  BY DEF Changed
<1>2. ASSUME NEW n \in M, NEW v \in Values, g = SetItem(h, n, v) \/ g = Add(h, n, v)
      PROVE  g \in Table(N, Words) /\ WellKept(g)
  <2>1. n \in N /\ v \in Words
    BY DEF Words
  <2> QED  BY <1>2, <2>1, SetItemValues, AddValues
<1>3. ASSUME NEW n \in M, g = DelItem(h, n) PROVE g \in Table(N, Words) /\ WellKept(g)
  <2>1. n \in N
    OBVIOUS
  <2> QED  BY <1>3, <2>1, DelItemValues
<1> QED  BY <1>1, <1>2, <1>3

\* The caller's values under the protocol's.
LEMMA RequestHeadersValues ==
    ASSUME TypeOK, NEW c \in BOOLEAN
    PROVE  /\ RequestHeaders(c) \in Table(RequestNames, Words)
           /\ \A k \in Keys : GetAll(RequestHeaders(c), k) = GetAll(user, k)
           /\ GetAll(RequestHeaders(c), "fixed") = <<"ours">>
           /\ GetAll(RequestHeaders(c), "agent") =
                IF Has(user, "agent") THEN GetAll(user, "agent") ELSE <<"ours">>
           /\ GetAll(RequestHeaders(c), "encoding") = IF c THEN <<"ours">> ELSE <<>>
<1> DEFINE copy  == FromItems(AllItems(user))
           fixed == SetItem(copy, "fixed", "ours")
           agent == IF Has(fixed, "agent") THEN fixed ELSE SetItem(fixed, "agent", "ours")
           all   == Coding(agent, c)
<1>1. /\ user \in Table(RequestNames, Words) /\ WellKept(user)
      /\ "ours" \in Words
      /\ "agent" \in RequestNames /\ "fixed" \in RequestNames /\ "encoding" \in RequestNames
      /\ Keys \subseteq RequestNames
      /\ "agent" \notin Keys /\ "fixed" \notin Keys /\ "encoding" \notin Keys
  BY KeysAssumption DEF TypeOK, RequestNames, Words, KeysAssumption
<1>2. /\ copy \in Table(RequestNames, Words) /\ WellKept(copy)
      /\ \A n \in RequestNames : GetAll(copy, n) = GetAll(user, n)
  BY <1>1, GetAllType, FromItemsValues, CopyKeepsValues
<1>3. /\ fixed \in Table(RequestNames, Words) /\ WellKept(fixed)
      /\ \A n \in RequestNames :
            GetAll(fixed, n) = IF n = "fixed" THEN <<"ours">> ELSE GetAll(copy, n)
  <2> HIDE DEF copy
  <2> QED  BY <1>1, <1>2, SetItemValues
<1>4. Has(fixed, "agent") <=> Has(user, "agent")
  <2> HIDE DEF fixed
  <2>1. Has(fixed, "agent") <=> GetAll(fixed, "agent") # <<>>
    BY <1>1, <1>3, HasSome
  <2>2. Has(user, "agent") <=> GetAll(user, "agent") # <<>>
    BY <1>1, HasSome
  <2> QED  BY <1>1, <1>2, <1>3, <2>1, <2>2
<1>5. /\ agent \in Table(RequestNames, Words) /\ WellKept(agent)
      /\ \A n \in RequestNames :
            GetAll(agent, n) = IF n = "agent" /\ ~Has(user, "agent") THEN <<"ours">>
                               ELSE GetAll(fixed, n)
  <2> HIDE DEF fixed
  <2>1. CASE Has(fixed, "agent")
    BY <1>3, <1>4, <2>1
  <2>2. CASE ~Has(fixed, "agent")
    <3>1. agent = SetItem(fixed, "agent", "ours")
      BY <2>2
    <3>2. /\ SetItem(fixed, "agent", "ours") \in Table(RequestNames, Words)
          /\ WellKept(SetItem(fixed, "agent", "ours"))
          /\ \A n \in RequestNames : GetAll(SetItem(fixed, "agent", "ours"), n) =
                IF n = "agent" THEN <<"ours">> ELSE GetAll(fixed, n)
      BY <1>1, <1>3, SetItemValues
    <3> QED  BY <1>4, <2>2, <3>1, <3>2
  <2> QED  BY <2>1, <2>2
<1>6. /\ all \in Table(RequestNames, Words)
      /\ \A n \in RequestNames :
            GetAll(all, n) = IF n = "encoding" THEN IF c THEN <<"ours">> ELSE <<>>
                             ELSE GetAll(agent, n)
  <2> HIDE DEF agent
  <2>1. all = IF c THEN SetItem(agent, "encoding", "ours") ELSE DelItem(agent, "encoding")
    BY DEF Coding
  <2>2. /\ SetItem(agent, "encoding", "ours") \in Table(RequestNames, Words)
        /\ \A n \in RequestNames : GetAll(SetItem(agent, "encoding", "ours"), n) =
              IF n = "encoding" THEN <<"ours">> ELSE GetAll(agent, n)
    BY <1>1, <1>5, SetItemValues
  <2>3. /\ DelItem(agent, "encoding") \in Table(RequestNames, Words)
        /\ \A n \in RequestNames : GetAll(DelItem(agent, "encoding"), n) =
              IF n = "encoding" THEN <<>> ELSE GetAll(agent, n)
    BY <1>1, <1>5, DelItemValues
  <2> QED  BY <2>1, <2>2, <2>3
<1>7. RequestHeaders(c) = all
  BY DEF RequestHeaders
<1> HIDE DEF copy, fixed, agent, all
<1> QED  BY <1>1, <1>2, <1>3, <1>5, <1>6, <1>7

LEMMA EachType ==
    ASSUME NEW s \in Seq(Words)
    PROVE  Each(s) \in Seq(Seq(Words))
<1>1. Len(s) \in Nat /\ DOMAIN s = 1 .. Len(s) /\ \A i \in 1 .. Len(s) : <<s[i]>> \in Seq(Words)
  BY LenProperties, ElementOfSeq
<1>2. Each(s) = [i \in 1 .. Len(s) |-> <<s[i]>>]
  BY <1>1 DEF Each
<1>3. Each(s) \in [1 .. Len(s) -> Seq(Words)]
  BY <1>1, <1>2
<1> QED  BY <1>1, <1>3, SeqDef

LEMMA ProcessValues ==
    ASSUME NEW app \in {"asgi", "wsgi"}, NEW items \in Items(RequestNames, Words)
    PROVE  LET h == ProcessHeaders(app, items)
           IN  /\ h \in Table(RequestNames, Seq(Words)) /\ WellKept(h)
               /\ \A n \in RequestNames :
                     GetAll(h, n) = IF app = "asgi" THEN Each(items[n])
                                    ELSE IF items[n] = <<>> THEN <<>> ELSE <<items[n]>>
<1>1. CASE app = "asgi"
  <2> DEFINE each == [n \in RequestNames |-> Each(items[n])]
  <2>1. \A n \in RequestNames : items[n] \in Seq(Words)
    BY DEF Items
  <2>2. each \in Items(RequestNames, Seq(Words))
    BY <2>1, EachType DEF Items
  <2>3. ProcessHeaders(app, items) = FromItems(each)
    BY <1>1 DEF ProcessHeaders
  <2>4. \A n \in RequestNames : each[n] = Each(items[n])
    OBVIOUS
  <2> HIDE DEF each
  <2>5. /\ FromItems(each) \in Table(RequestNames, Seq(Words)) /\ WellKept(FromItems(each))
        /\ \A n \in RequestNames : GetAll(FromItems(each), n) = each[n]
    BY <2>2, FromItemsValues
  <2> QED  BY <1>1, <2>3, <2>4, <2>5
<1>2. CASE app # "asgi"
  <2> DEFINE h == ProcessHeaders(app, items)
  <2>1. /\ h = [store |-> h.store, extra |-> h.extra]
        /\ h.store = [n \in RequestNames |-> IF items[n] = <<>> THEN <<>> ELSE <<items[n]>>]
        /\ h.extra = [n \in RequestNames |-> <<>>]
    BY <1>2 DEF ProcessHeaders, NoItems
  <2>2. ASSUME NEW n \in RequestNames
        PROVE  /\ h.store[n] \in Seq(Seq(Words)) /\ h.extra[n] = <<>>
               /\ Len(h.store[n]) <= 1
               /\ h.store[n] \o h.extra[n] = IF items[n] = <<>> THEN <<>> ELSE <<items[n]>>
    <3>1. items[n] \in Seq(Words)
      BY DEF Items
    <3>2. h.store[n] = (IF items[n] = <<>> THEN <<>> ELSE <<items[n]>>) /\ h.extra[n] = <<>>
      BY <2>1
    <3> QED  BY <3>1, <3>2, ConcatEmptySeq
  <2>3. h.store \in [RequestNames -> Seq(Seq(Words))] /\ h.extra \in [RequestNames -> Seq(Seq(Words))]
    BY <2>1, <2>2
  <2>4. h \in Table(RequestNames, Seq(Words)) /\ DOMAIN h.store = RequestNames
    BY <2>1, <2>3 DEF Table
  <2> QED  BY <1>2, <2>2, <2>4 DEF WellKept, GetAll
<1> QED  BY <1>1, <1>2

LEMMA NamesFact ==
    /\ \A k \in ResponseKeys, b \in BOOLEAN : <<k, b>> \in ResponseNames
    /\ \A n \in ResponseNames : n = <<n[1], n[2]>> /\ n[1] \in ResponseKeys /\ n[2] \in BOOLEAN
    /\ "fixed" \in ResponseKeys /\ "status" \in ResponseKeys
    /\ {"ours", "ok", "error"} \subseteq Words
  BY DEF ResponseNames, ResponseKeys, Words

LEMMA FixedType == \A k : Fixed(k) \in Seq(Words)
<1>1. "ours" \in Words
  BY DEF Words
<1> QED  BY <1>1 DEF Fixed

\* The headers of a response, name by name.
LEMMA SentValues ==
    ASSUME TypeOK, NEW b \in BOOLEAN
    PROVE  /\ Sent(b) \in Items(ResponseNames, Words)
           /\ \A k \in ResponseKeys :
                /\ Sent(b)[<<k, FALSE>>] = Fixed(k) \o GetAll(headers, <<k, FALSE>>)
                /\ Sent(b)[<<k, TRUE>>] = GetAll(headers, <<k, TRUE>>) \o
                                            (IF b THEN GetAll(trailers, k) ELSE <<>>)
<1>1. /\ \A n \in ResponseNames : GetAll(headers, n) \in Seq(Words)
      /\ \A k \in ResponseKeys : GetAll(trailers, k) \in Seq(Words)
  BY GetAllType DEF TypeOK
<1>2. ASSUME NEW n \in ResponseNames PROVE Sent(b)[n] \in Seq(Words)
  <2>1. CASE n[2]
    <3>1. Sent(b)[n] = GetAll(headers, n) \o (IF b THEN GetAll(trailers, n[1]) ELSE <<>>)
      BY <2>1 DEF Sent
    <3>2. (IF b THEN GetAll(trailers, n[1]) ELSE <<>>) \in Seq(Words)
      BY <1>1, NamesFact
    <3> QED  BY <1>1, <3>1, <3>2, ConcatProperties
  <2>2. CASE ~n[2]
    <3>1. Sent(b)[n] = Fixed(n[1]) \o GetAll(headers, n)
      BY <2>2 DEF Sent
    <3> QED  BY <1>1, <3>1, FixedType, ConcatProperties
  <2> QED  BY <2>1, <2>2
<1>3. Sent(b) \in Items(ResponseNames, Words)
  BY <1>2 DEF Sent, Items
<1>4. ASSUME NEW k \in ResponseKeys
      PROVE  /\ Sent(b)[<<k, FALSE>>] = Fixed(k) \o GetAll(headers, <<k, FALSE>>)
             /\ Sent(b)[<<k, TRUE>>] = GetAll(headers, <<k, TRUE>>) \o
                                         (IF b THEN GetAll(trailers, k) ELSE <<>>)
  <2>1. <<k, FALSE>> \in ResponseNames /\ <<k, TRUE>> \in ResponseNames
    BY NamesFact
  <2> QED  BY <2>1 DEF Sent
<1> QED  BY <1>3, <1>4

\* The trailers of a response, name by name.
LEMMA TrailingValues ==
    ASSUME TypeOK, NEW o \in {"ok", "error"}
    PROVE  /\ Trailing(o) \in Items(ResponseKeys, Words)
           /\ \A k \in ResponseKeys \ {"status"} :
                 Trailing(o)[k] = IF call.protocol = "unary" THEN <<>> ELSE GetAll(trailers, k)
           /\ call.protocol = "grpc" => Trailing(o)["status"] = <<o>>
<1> DEFINE copy == FromItems(AllItems(trailers))
           with == SetItem(copy, "status", o)
<1>1. trailers \in Table(ResponseKeys, Words) /\ WellKept(trailers)
  BY DEF TypeOK
<1>2. o \in Words /\ "status" \in ResponseKeys
  BY NamesFact
<1>3. /\ copy \in Table(ResponseKeys, Words) /\ WellKept(copy)
      /\ \A k \in ResponseKeys : GetAll(copy, k) = GetAll(trailers, k)
  BY <1>1, GetAllType, FromItemsValues, CopyKeepsValues
<1>4. /\ with \in Table(ResponseKeys, Words)
      /\ \A k \in ResponseKeys :
            GetAll(with, k) = IF k = "status" THEN <<o>> ELSE GetAll(copy, k)
  <2> HIDE DEF copy
  <2> QED  BY <1>2, <1>3, SetItemValues
<1>5. /\ AllItems(with) \in Items(ResponseKeys, Words)
      /\ \A k \in ResponseKeys : AllItems(with)[k] = GetAll(with, k)
  <2> HIDE DEF with
  <2> QED  BY <1>4, GetAllType
<1>6. /\ AllItems(trailers) \in Items(ResponseKeys, Words)
      /\ \A k \in ResponseKeys : AllItems(trailers)[k] = GetAll(trailers, k)
  BY <1>1, GetAllType
<1>7. /\ NoItems(ResponseKeys) \in Items(ResponseKeys, Words)
      /\ \A k \in ResponseKeys : NoItems(ResponseKeys)[k] = <<>>
  BY DEF NoItems, Items
<1>8. Trailing(o) = IF call.protocol = "grpc" THEN AllItems(with)
                    ELSE IF call.protocol = "stream" THEN AllItems(trailers)
                    ELSE NoItems(ResponseKeys)
  BY DEF Trailing, StatusTrailers
<1>9. call.protocol \in {"unary", "stream", "grpc"}
  BY DEF TypeOK, Calls
<1> HIDE DEF with, copy
<1> QED  BY <1>2, <1>3, <1>4, <1>5, <1>6, <1>7, <1>8, <1>9

LEMMA ReceivedValues ==
    ASSUME TypeOK, NEW b \in BOOLEAN
    PROVE  /\ Received(b) \in Table(ResponseKeys, Words) /\ WellKept(Received(b))
           /\ \A k \in ResponseKeys : GetAll(Received(b), k) = wire[<<k, b>>]
<1> DEFINE items == [k \in ResponseKeys |-> wire[<<k, b>>]]
<1>1. items \in Items(ResponseKeys, Words)
  BY NamesFact DEF TypeOK, Items
<1>2. \A k \in ResponseKeys : items[k] = wire[<<k, b>>]
  OBVIOUS
<1>3. Received(b) = FromItems(items)
  BY DEF Received
<1> HIDE DEF items
<1> QED  BY <1>1, <1>2, <1>3, FromItemsValues

LEMMA OptionFact ==
    ASSUME NEW S, NEW t \in Option(S), t # <<>>
    PROVE  t = <<t[1]>> /\ t[1] \in S
<1>1. t \in Seq(S) /\ Len(t) <= 1
  BY DEF Option
<1>2. Len(t) \in Nat \ {0}
  BY <1>1, EmptySeq
<1>3. Len(t) = 1 /\ 1 \in 1 .. Len(t)
  <2>1. \A n : n \in Nat \ {0} /\ n <= 1 => n = 1 /\ 1 \in 1 .. n
    OBVIOUS
  <2> QED  BY <1>1, <1>2, <2>1, Zenon
<1>4. t[1] \in S
  BY <1>1, <1>3, ElementOfSeq
<1>5. t = <<t[1]>>
  BY <1>1, <1>3, <1>4, SeqEqual
<1> QED  BY <1>4, <1>5

LEMMA TimeoutType ==
    ASSUME NEW p \in {"unary", "stream", "grpc"}, NEW t \in Option(Int)
    PROVE  /\ TimeoutItem(p, t) \in Option(SentTimeout)
           /\ TimeoutItem(p, t) = <<>> <=> t = <<>>
<1>1. CASE t = <<>>
  BY <1>1 DEF TimeoutItem, Option
<1>2. CASE t # <<>>
  <2>1. t[1] \in Int
    BY <1>2, OptionFact
  <2>2. Serialize(t[1]) \in SentTimeout
    <3>1. UnitFor(t[1]) \in {"m", "S", "M", "H"} /\ Size(UnitFor(t[1])) \in Nat \ {0}
      BY UnitsAssumption DEF UnitFor, Size, UnitsAssumption
    <3>2. t[1] \div Size(UnitFor(t[1])) \in Int
      BY <2>1, <3>1
    <3> QED  BY <3>1, <3>2 DEF Serialize, SentTimeout
  <2>3. [value |-> t[1], unit |-> "ms"] \in SentTimeout
    BY <2>1 DEF SentTimeout
  <2>4. \E e \in SentTimeout : TimeoutItem(p, t) = <<e>>
    BY <1>2, <2>2, <2>3 DEF TimeoutItem
  <2> QED  BY <1>2, <2>4 DEF Option
<1> QED  BY <1>1, <1>2

LEMMA NoCallType ==
    /\ NoCall \in Calls /\ NoRequest \in Requests
    /\ <<>> \in Option(Int)
    /\ NoItems(ResponseNames) \in Items(ResponseNames, Words)
    /\ NoItems(ResponseKeys) \in Items(ResponseKeys, Words)
    /\ NothingSeen \in Metadatas
<1>1. \A S : <<>> \in Option(S)
  BY DEF Option
<1>2. Empty(ResponseKeys) \in Table(ResponseKeys, Words)
  BY EmptyValues
<1> QED  BY <1>1, <1>2 DEF NoCall, Calls, NoRequest, Requests, NoItems, Items, NothingSeen, Metadatas

LEMMA HandledType ==
    ASSUME TypeOK
    PROVE  /\ HandleHeaders \in Metadatas
           /\ WellKept(HandleHeaders.headers) /\ WellKept(HandleHeaders.trailers)
<1>1. /\ seen \in Metadatas /\ WellKept(seen.headers) /\ WellKept(seen.trailers)
  BY DEF TypeOK, Metadatas
<1>2. /\ seen.headers \in Table(ResponseKeys, Words)
      /\ seen.trailers \in Table(ResponseKeys, Words)
  BY <1>1 DEF Metadatas
<1>3. /\ HandleHeaders.headers = (IF Some(Received(FALSE)) THEN Received(FALSE) ELSE seen.headers)
      /\ HandleHeaders.trailers = (IF Some(Received(TRUE)) THEN Received(TRUE) ELSE seen.trailers)
      /\ HandleHeaders = [headers |-> HandleHeaders.headers, trailers |-> HandleHeaders.trailers]
  BY DEF HandleHeaders
<1>4. /\ Received(FALSE) \in Table(ResponseKeys, Words) /\ WellKept(Received(FALSE))
      /\ Received(TRUE) \in Table(ResponseKeys, Words) /\ WellKept(Received(TRUE))
  BY ReceivedValues
<1> QED  BY <1>1, <1>2, <1>3, <1>4 DEF Metadatas

\* TypeOK with the sets it is made of left folded.
LEMMA Typed ==
    TypeOK <=>
        /\ user \in Table(RequestNames, Words) /\ WellKept(user)
        /\ inside \in BOOLEAN /\ uses \in Nat
        /\ seen \in Metadatas
        /\ WellKept(seen.headers) /\ WellKept(seen.trailers)
        /\ phase \in {"idle", "asked", "serving", "opened", "answered", "done"}
        /\ call \in Calls
        /\ request \in Requests
        /\ served \in Table(RequestNames, Seq(Words)) /\ WellKept(served)
        /\ deadline \in Option(Int)
        /\ headers \in Table(ResponseNames, Words) /\ WellKept(headers)
        /\ trailers \in Table(ResponseKeys, Words) /\ WellKept(trailers)
        /\ outcome \in {"none", "ok", "error", "refused"}
        /\ wire \in Items(ResponseNames, Words)
        /\ heard \in BOOLEAN
        /\ end \in Items(ResponseKeys, Words)
        /\ verdict \in {"none", "ok", "error"}
        /\ edits \in Nat
  BY DEF TypeOK, Metadatas, Requests, SentTimeout

LEMMA TypeInit == Init => TypeOK
<1> SUFFICES ASSUME Init PROVE TypeOK
  OBVIOUS
<1>1. /\ \A N, V : Empty(N) \in Table(N, V) /\ WellKept(Empty(N))
  BY EmptyValues
<1>2. NothingSeen.headers = Empty(ResponseKeys) /\ NothingSeen.trailers = Empty(ResponseKeys)
  BY DEF NothingSeen
<1> QED  BY <1>1, <1>2, Typed, NoCallType DEF Init

LEMMA TypeStep == TypeOK /\ [Next]_vars => TypeOK'
<1> SUFFICES ASSUME TypeOK, [Next]_vars PROVE TypeOK'
  OBVIOUS
<1> USE Typed DEF vars, caller, asked, service, response
<1>0. Typed'
  BY DEF TypeOK, Metadatas, Requests, SentTimeout
<1>1. CASE CallerEdits
  <2>1. user' \in Table(RequestNames, Words) /\ WellKept(user')
    BY <1>1, ChangedType DEF CallerEdits
  <2>2. edits' \in Nat
    BY <1>1 DEF CallerEdits, Edit
  <2> QED  BY <1>0, <1>1, <2>1, <2>2 DEF CallerEdits
<1>2. CASE Enter
  <2>1. NothingSeen \in Metadatas
    BY NoCallType
  <2>2. WellKept(NothingSeen.headers) /\ WellKept(NothingSeen.trailers)
    BY EmptyValues DEF NothingSeen
  <2> QED  BY <1>0, <1>2, <2>1, <2>2 DEF Enter
<1>3. CASE Exit
  BY <1>0, <1>3 DEF Exit
<1>4. CASE Call
  <2>1. PICK p \in {"unary", "stream", "grpc"}, a \in {"asgi", "wsgi"}, c \in BOOLEAN,
             given \in {<<>>} \cup {<<t>> : t \in Timeouts}, default \in Defaults :
          /\ call' = [protocol |-> p, app |-> a, compress |-> c,
                      timeout |-> TimeoutOf(given, default)]
          /\ request' = [items |-> AllItems(RequestHeaders(c)),
                         timeout |-> TimeoutItem(p, TimeoutOf(given, default))]
    BY <1>4 DEF Call
  <2>2. TimeoutOf(given, default) \in Option(Int)
    <3>1. given \in Option(Int)
      <4>1. CASE given = <<>>
        BY <4>1, NoCallType
      <4>2. ASSUME NEW t \in Timeouts, given = <<t>> PROVE given \in Option(Int)
        <5>1. t \in Int
          BY TimeoutsAssumption DEF TimeoutsAssumption
        <5>2. <<t>> \in Seq(Int) /\ Len(<<t>>) <= 1
          BY <5>1
        <5> QED  BY <4>2, <5>2 DEF Option
      <4> QED  BY <4>1, <4>2
    <3>2. default \in Option(Int)
      BY TimeoutsAssumption DEF Option, TimeoutsAssumption
    <3> QED  BY <3>1, <3>2 DEF TimeoutOf
  <2>3. call' \in Calls
    BY <2>1, <2>2 DEF Calls
  <2>4. AllItems(RequestHeaders(c)) \in Items(RequestNames, Words)
    BY RequestHeadersValues, GetAllType
  <2>5. TimeoutItem(p, TimeoutOf(given, default)) \in Option(SentTimeout)
    BY <2>2, TimeoutType
  <2>6. request' \in Requests
    BY <2>1, <2>4, <2>5 DEF Requests
  <2>7. uses' \in Nat /\ phase' = "asked" /\ UNCHANGED <<user, inside, seen, service, response, heard, verdict, edits>>
    BY <1>4 DEF Call
  <2> QED  BY <1>0, <2>3, <2>6, <2>7
<1>5. CASE Serve
  <2>1. /\ call.app \in {"asgi", "wsgi"} /\ request.items \in Items(RequestNames, Words)
        /\ request.timeout \in Option(SentTimeout)
    BY DEF Calls, Requests
  <2>2. served' \in Table(RequestNames, Seq(Words)) /\ WellKept(served')
    BY <1>5, <2>1, ProcessValues DEF Serve
  <2>3. deadline' \in Option(Int)
    <3>1. CASE request.timeout = <<>>
      BY <1>5, <3>1, NoCallType DEF Serve
    <3>2. CASE request.timeout # <<>>
      <4>1. request.timeout[1] \in SentTimeout
        BY <2>1, <3>2, OptionFact
      <4>2. Size(request.timeout[1].unit) \in Nat /\ Second * Second \in Nat \ {0}
        BY UnitsAssumption DEF Size, UnitsAssumption
      <4>3. TimeoutRead(call.protocol, request.timeout[1]) \in Int
        BY <4>1, <4>2 DEF SentTimeout, TimeoutRead, Parse
      <4>4. deadline' = <<TimeoutRead(call.protocol, request.timeout[1])>>
        BY <1>5, <3>2 DEF Serve
      <4> QED  BY <4>3, <4>4 DEF Option
    <3> QED  BY <3>1, <3>2
  <2> QED  BY <1>0, <1>5, <2>2, <2>3 DEF Serve
<1>6. CASE Refuse
  <2>1. wire' \in Items(ResponseNames, Words)
    BY <1>6, SentValues DEF Refuse
  <2> QED  BY <1>0, <1>6, <2>1 DEF Refuse
<1>7. CASE SetHeaders
  <2>1. headers' \in Table(ResponseNames, Words) /\ WellKept(headers')
    BY <1>7, ChangedType DEF SetHeaders
  <2>2. edits' \in Nat
    BY <1>7 DEF SetHeaders, Edit
  <2> QED  BY <1>0, <1>7, <2>1, <2>2 DEF SetHeaders
<1>8. CASE SetTrailers
  <2>1. trailers' \in Table(ResponseKeys, Words) /\ WellKept(trailers')
    BY <1>8, ChangedType DEF SetTrailers
  <2>2. edits' \in Nat
    BY <1>8 DEF SetTrailers, Edit
  <2> QED  BY <1>0, <1>8, <2>1, <2>2 DEF SetTrailers
<1>9. CASE Open
  <2>1. wire' \in Items(ResponseNames, Words)
    BY <1>9, SentValues DEF Open
  <2> QED  BY <1>0, <1>9, <2>1 DEF Open
<1>10. CASE Respond
  <2>1. (call.protocol = "unary") \in BOOLEAN
    OBVIOUS
  <2>2. wire' \in Items(ResponseNames, Words)
    BY <1>10, <2>1, SentValues DEF Respond
  <2>3. end' \in Items(ResponseKeys, Words)
    BY <1>10, TrailingValues DEF Respond
  <2>4. outcome' \in {"none", "ok", "error", "refused"}
    BY <1>10 DEF Respond
  <2> QED  BY <1>0, <1>10, <2>2, <2>3, <2>4 DEF Respond
<1>11. CASE Hear
  <2>1. seen' \in Metadatas /\ WellKept(seen'.headers) /\ WellKept(seen'.trailers)
    BY <1>11, HandledType DEF Hear
  <2>2. heard' \in BOOLEAN
    BY <1>11 DEF Hear
  <2> QED  BY <1>0, <1>11, <2>1, <2>2 DEF Hear
<1>12. CASE HearEnd
  <2>1. seen' \in Metadatas /\ WellKept(seen'.headers) /\ WellKept(seen'.trailers)
    <3>1. CASE inside
      <4>1. seen.trailers \in Table(ResponseKeys, Words)
        BY DEF Metadatas
      <4>2. AddAll(seen.trailers, end) \in Table(ResponseKeys, Words)
            /\ WellKept(AddAll(seen.trailers, end))
        BY <4>1, AddAllValues
      <4>3. seen' = [seen EXCEPT !.trailers = AddAll(seen.trailers, end)]
        BY <1>12, <3>1 DEF HearEnd
      <4> QED  BY <4>2, <4>3 DEF Metadatas
    <3>2. CASE ~inside
      BY <1>12, <3>2 DEF HearEnd
    <3> QED  BY <3>1, <3>2
  <2>2. verdict' \in {"none", "ok", "error"}
    <3>1. Told \in {"ok", "error", outcome} /\ Told # "refused"
      BY DEF Told
    <3> QED  BY <1>12, <3>1 DEF HearEnd
  <2> QED  BY <1>0, <1>12, <2>1, <2>2 DEF HearEnd
<1>13. CASE Again
  <2>1. \A N, V : Empty(N) \in Table(N, V) /\ WellKept(Empty(N))
    BY EmptyValues
  <2> QED  BY <1>0, <1>13, <2>1, NoCallType DEF Again
<1>14. CASE UNCHANGED vars
  BY <1>0, <1>14
<1> QED
  BY <1>1, <1>2, <1>3, <1>4, <1>5, <1>6, <1>7, <1>8, <1>9, <1>10, <1>11, <1>12, <1>13, <1>14
  DEF Next

\* Every state of the calls is well typed, and no Headers ever keeps values
\* beside a first one it has lost.
THEOREM TypeCorrect == Spec => []TypeOK
<1>1. TypeOK /\ [Next]_vars => TypeOK'
  BY TypeStep
<1> QED  BY TypeInit, <1>1, PTL DEF Spec
-----------------------------------------------------------------------------
(* The request.                                                             *)

LEMMA RequestStep == TypeOK /\ RequestInv /\ WireInv /\ [Next]_vars => RequestInv'
<1> SUFFICES ASSUME TypeOK, RequestInv, WireInv, [Next]_vars PROVE RequestInv'
  OBVIOUS
<1> USE DEF vars, caller, asked, service, response
<1>0. user' = user /\ call' = call =>
          RequestHeaders(call.compress)' = RequestHeaders(call.compress)
  BY DEF RequestHeaders
<1>1. CASE CallerEdits \/ Enter
  BY <1>1 DEF CallerEdits, Enter, RequestInv
<1>2. CASE Exit \/ SetHeaders \/ SetTrailers \/ Hear \/ HearEnd \/ UNCHANGED vars
  BY <1>0, <1>2 DEF Exit, SetHeaders, SetTrailers, Hear, HearEnd, RequestInv
<1>3. CASE Call
  <2>1. PICK p \in {"unary", "stream", "grpc"}, a \in {"asgi", "wsgi"}, c \in BOOLEAN,
             given \in {<<>>} \cup {<<t>> : t \in Timeouts}, default \in Defaults :
          /\ call' = [protocol |-> p, app |-> a, compress |-> c,
                      timeout |-> TimeoutOf(given, default)]
          /\ request' = [items |-> AllItems(RequestHeaders(c)),
                         timeout |-> TimeoutItem(p, TimeoutOf(given, default))]
    BY <1>3 DEF Call
  <2>2. phase' = "asked" /\ user' = user /\ outcome' = outcome /\ phase = "idle"
    BY <1>3 DEF Call
  <2>3. call'.compress = c /\ call'.protocol = p /\ call'.timeout = TimeoutOf(given, default)
    BY <2>1
  <2>4. RequestHeaders(call.compress)' = RequestHeaders(c)
    BY <2>2, <2>3 DEF RequestHeaders
  <2>5. outcome = "none"
    BY <2>2 DEF WireInv
  <2> QED  BY <2>1, <2>2, <2>3, <2>4, <2>5 DEF RequestInv
<1>4. CASE Serve
  BY <1>0, <1>4 DEF Serve, RequestInv, WireInv
<1>5. CASE Refuse
  BY <1>0, <1>5 DEF Refuse, RequestInv
<1>6. CASE Open
  BY <1>0, <1>6 DEF Open, RequestInv
<1>7. CASE Respond
  BY <1>0, <1>7 DEF Respond, RequestInv
<1>8. CASE Again
  BY <1>8 DEF Again, RequestInv
<1> QED  BY <1>1, <1>2, <1>3, <1>4, <1>5, <1>6, <1>7, <1>8 DEF Next

\* The invariant gives the property, by the values of the three objects the
\* headers go through.
LEMMA RequestHolds == TypeOK /\ RequestInv => RequestArrives
<1> SUFFICES ASSUME TypeOK, RequestInv, phase \in {"serving", "opened"}
             PROVE  /\ \A k \in Keys : Arrived(k, GetAll(user, k))
                    /\ Arrived("agent", IF Has(user, "agent") THEN GetAll(user, "agent") ELSE <<"ours">>)
                    /\ Arrived("encoding", IF call.compress THEN <<"ours">> ELSE <<>>)
                    /\ Arrived("fixed", <<"ours">>)
  BY DEF RequestArrives
<1> DEFINE h == RequestHeaders(call.compress)
<1>1. call.compress \in BOOLEAN /\ call.app \in {"asgi", "wsgi"}
  BY DEF TypeOK, Calls
<1>2. /\ h \in Table(RequestNames, Words)
      /\ \A k \in Keys : GetAll(h, k) = GetAll(user, k)
      /\ GetAll(h, "fixed") = <<"ours">>
      /\ GetAll(h, "agent") = IF Has(user, "agent") THEN GetAll(user, "agent") ELSE <<"ours">>
      /\ GetAll(h, "encoding") = IF call.compress THEN <<"ours">> ELSE <<>>
  BY <1>1, RequestHeadersValues
<1>3. request.items = AllItems(h) /\ served = ProcessHeaders(call.app, request.items)
  BY DEF RequestInv
<1> HIDE DEF h
<1>4. /\ AllItems(h) \in Items(RequestNames, Words)
      /\ \A n \in RequestNames : AllItems(h)[n] = GetAll(h, n)
  BY <1>2, GetAllType
<1>5. \A n \in RequestNames : Arrived(n, GetAll(h, n))
  BY <1>1, <1>3, <1>4, ProcessValues DEF Arrived
<1>6. /\ "agent" \in RequestNames /\ "fixed" \in RequestNames /\ "encoding" \in RequestNames
      /\ Keys \subseteq RequestNames
  BY DEF RequestNames
<1> QED  BY <1>2, <1>5, <1>6, Zenon
-----------------------------------------------------------------------------
(* The timeout.                                                             *)

\* The unit of a timeout is no larger than one in which eight digits are enough.
LEMMA UnitFact ==
    ASSUME NEW t \in Int, NEW unit \in {"m", "S", "M", "H"}, t < TooLong * Size(unit)
    PROVE  Size(UnitFor(t)) <= Size(unit)
<1>1. /\ TooLong \in Nat /\ Second \in Nat /\ Minute \in Nat /\ Hour \in Nat
      /\ 1 < Second /\ Second < Minute /\ Minute < Hour
  BY UnitsAssumption DEF UnitsAssumption
<1>2. Size("m") = 1 /\ Size("S") = Second /\ Size("M") = Minute /\ Size("H") = Hour
  BY DEF Size
<1>3. /\ t < TooLong => UnitFor(t) = "m"
      /\ t >= TooLong /\ t < TooLong * Second => UnitFor(t) = "S"
      /\ t >= TooLong /\ t < TooLong * Minute => UnitFor(t) \in {"S", "M"}
      /\ UnitFor(t) \in {"m", "S", "M", "H"}
  BY <1>1 DEF UnitFor
<1>4. CASE unit = "m"
  BY <1>1, <1>2, <1>3, <1>4
<1>5. CASE unit = "S"
  BY <1>1, <1>2, <1>3, <1>5
<1>6. CASE unit = "M"
  BY <1>1, <1>2, <1>3, <1>6
<1>7. CASE unit = "H"
  BY <1>1, <1>2, <1>3, <1>7
<1> QED  BY <1>4, <1>5, <1>6, <1>7

LEMMA GrpcTimeout ==
    ASSUME NEW t \in Int, t > 0
    PROVE  LET sent == Serialize(t)
           IN  /\ 0 < Parse(sent) /\ Parse(sent) <= t
               /\ \A unit \in {"m", "S", "M", "H"} :
                    t < TooLong * Size(unit) => t - Parse(sent) < Size(unit)
               /\ GrpcAccepts(sent) \/ t >= TooLong * Hour
<1> DEFINE s == Size(UnitFor(t))
           v == t \div s
<1>1. /\ TooLong \in Nat /\ Second \in Nat /\ Minute \in Nat /\ Hour \in Nat
      /\ 1 < Second /\ Second < Minute /\ Minute < Hour /\ Hour < TooLong
  BY UnitsAssumption DEF UnitsAssumption
<1>2. /\ s \in Nat /\ 1 <= s /\ s <= Hour
      /\ t < TooLong => s = 1
      /\ t >= TooLong => s <= t
      /\ UnitFor(t) # "n"
  BY <1>1 DEF Size, UnitFor
<1>3. t < TooLong * s \/ (s = Hour /\ t >= TooLong * Minute)
  BY <1>1 DEF Size, UnitFor
<1>4. Serialize(t) = [value |-> v, unit |-> UnitFor(t)] /\ Parse(Serialize(t)) = v * s
  BY <1>2 DEF Serialize, Parse
<1> HIDE DEF s
<1>5. v \in Nat /\ t = v * s + (t % s) /\ t % s \in 0 .. s - 1
  BY <1>2
<1>6. t < TooLong * s => v < TooLong
  BY <1>1, <1>2, <1>5
<1>7. v * s \in Nat /\ v * s <= t /\ t - v * s < s /\ (s = 1 => v * s = t)
  BY <1>2, <1>5
<1>8. v < TooLong \/ t >= TooLong * Hour
  <2>1. t < TooLong * s \/ t >= TooLong * Hour
    BY <1>1, <1>3
  <2> QED  BY <1>6, <2>1
<1> HIDE DEF v
<1>9. Serialize(t).value = v
  BY <1>4
<1> QED
  <2>1. 0 < v * s /\ v * s <= t
    BY <1>1, <1>2, <1>7
  <2>2. ASSUME NEW unit \in {"m", "S", "M", "H"}, t < TooLong * Size(unit)
        PROVE  t - v * s < Size(unit)
    <3>1. s <= Size(unit)
      BY <2>2, UnitFact DEF s
    <3>2. Size(unit) \in Nat
      BY <1>1 DEF Size
    <3> QED  BY <1>2, <1>7, <3>1, <3>2
  <2> QED  BY <1>4, <1>8, <1>9, <2>1, <2>2 DEF GrpcAccepts

\* What gRPC leaves of a timeout.
Rounded(t, left) ==
    /\ 0 < left /\ left <= t
    /\ \A unit \in {"m", "S", "M", "H"} : t < TooLong * Size(unit) => t - left < Size(unit)

LEMMA DeadlineHolds == TypeOK /\ RequestInv => DeadlineArrives
<1> SUFFICES ASSUME TypeOK, RequestInv PROVE DeadlineArrives
  OBVIOUS
<1>0. /\ call.protocol \in {"unary", "stream", "grpc"} /\ call.timeout \in Option(Int)
      /\ TooLong \in Nat /\ Hour \in Nat /\ 1 < Hour /\ Hour < TooLong
  BY UnitsAssumption DEF TypeOK, Calls, UnitsAssumption
<1> DEFINE t == call.timeout[1]
<1>1. phase # "idle" => request.timeout = TimeoutItem(call.protocol, call.timeout)
  BY DEF RequestInv
<1>2. /\ TimeoutItem(call.protocol, call.timeout) = <<>> <=> call.timeout = <<>>
      /\ call.timeout # <<>> => t \in Int
  BY <1>0, TimeoutType, OptionFact
<1>3. call.timeout # <<>> =>
        TimeoutItem(call.protocol, call.timeout)[1] =
          IF call.protocol = "grpc" THEN Serialize(t) ELSE [value |-> t, unit |-> "ms"]
  BY DEF TimeoutItem
<1>4. ASSUME phase \in {"serving", "opened"}
      PROVE  /\ deadline = <<>> <=> call.timeout = <<>>
             /\ call.timeout # <<>> /\ t > 0 =>
                  IF call.protocol # "grpc" THEN deadline[1] = t ELSE Rounded(t, deadline[1])
  <2>1. deadline = IF request.timeout = <<>> THEN <<>>
                   ELSE <<TimeoutRead(call.protocol, request.timeout[1])>>
    BY <1>4 DEF RequestInv
  <2>2. request.timeout = <<>> <=> call.timeout = <<>>
    BY <1>1, <1>2, <1>4
  <2>3. deadline = <<>> <=> call.timeout = <<>>
    BY <2>1, <2>2
  <2>4. ASSUME call.timeout # <<>>, t > 0
        PROVE  IF call.protocol # "grpc" THEN deadline[1] = t ELSE Rounded(t, deadline[1])
    <3>1. deadline[1] = TimeoutRead(call.protocol, request.timeout[1])
      BY <2>1, <2>2, <2>4
    <3>2. t \in Int
      BY <1>2, <2>4
    <3>3. CASE call.protocol = "grpc"
      <4>1. deadline[1] = Parse(Serialize(t))
        BY <1>1, <1>3, <1>4, <2>4, <3>1, <3>3 DEF TimeoutRead
      <4> HIDE DEF t
      <4> QED  BY <2>4, <3>2, <3>3, <4>1, GrpcTimeout DEF Rounded
    <3>4. CASE call.protocol # "grpc"
      BY <1>1, <1>3, <1>4, <2>4, <3>1, <3>4 DEF TimeoutRead
    <3> QED  BY <3>3, <3>4
  <2> QED  BY <2>3, <2>4
<1>5. ASSUME outcome = "refused"
      PROVE  /\ call.timeout # <<>>
             /\ IF call.protocol = "grpc" THEN t >= TooLong * Hour ELSE t > MaxConnect
  <2>1. /\ phase # "idle" /\ request.timeout # <<>>
        /\ ~Accepts(call.protocol, request.timeout[1])
    BY <1>5 DEF RequestInv
  <2>2. call.timeout # <<>> /\ t \in Int
    BY <1>1, <1>2, <2>1
  <2>3. CASE call.protocol = "grpc"
    <3>1. ~GrpcAccepts(Serialize(t))
      BY <1>1, <1>3, <2>1, <2>2, <2>3 DEF Accepts
    <3> HIDE DEF t
    <3>2. t > 0
      BY <1>0, <2>2, <3>1 DEF GrpcAccepts, Serialize
    <3> QED  BY <2>2, <2>3, <3>1, <3>2, GrpcTimeout
  <2>4. CASE call.protocol # "grpc"
    <3>1. ~ConnectAccepts(t)
      BY <1>1, <1>3, <2>1, <2>2, <2>4 DEF Accepts
    <3> HIDE DEF t
    <3>2. MaxConnect \in Nat
      BY UnitsAssumption DEF UnitsAssumption
    <3> QED  BY <2>2, <2>4, <3>1, <3>2 DEF ConnectAccepts
  <2> QED  BY <2>2, <2>3, <2>4
<1> QED  BY <1>4, <1>5 DEF DeadlineArrives, Rounded
-----------------------------------------------------------------------------
(* The response.                                                            *)

LEMMA WireStep == TypeOK /\ WireInv /\ [Next]_vars => WireInv'
<1> SUFFICES ASSUME TypeOK, WireInv, [Next]_vars PROVE WireInv'
  OBVIOUS
<1> USE DEF vars, caller, asked, service, response
<1>0. /\ headers' = headers /\ trailers' = trailers => \A b \in BOOLEAN : Sent(b)' = Sent(b)
      /\ headers' = headers => Sent(FALSE)' = Sent(FALSE)
      /\ trailers' = trailers /\ call' = call =>
            \A o \in {"ok", "error"} : Trailing(o)' = Trailing(o)
  BY DEF Sent, Trailing, StatusTrailers
<1>a. phase \in {"idle", "asked", "serving", "opened", "answered", "done"}
      /\ outcome \in {"none", "ok", "error", "refused"} /\ (call.protocol = "unary") \in BOOLEAN
  BY DEF TypeOK
<1>1. CASE CallerEdits \/ Enter \/ Exit \/ UNCHANGED vars
  <2>1. /\ phase' = phase /\ heard' = heard /\ outcome' = outcome /\ wire' = wire
        /\ call' = call /\ end' = end /\ headers' = headers /\ trailers' = trailers
    BY <1>1 DEF CallerEdits, Enter, Exit
  <2> QED  BY <1>0, <1>a, <2>1 DEF WireInv
<1>2. CASE Call \/ Serve \/ Again
  <2>1. ~heard' /\ outcome' = "none" /\ phase' \in {"idle", "asked", "serving"}
    <3>1. CASE Call \/ Serve
      BY <3>1 DEF Call, Serve, WireInv
    <3>2. CASE Again
      BY <3>2 DEF Again
    <3> QED  BY <1>2, <3>1, <3>2
  <2> QED  BY <2>1 DEF WireInv
<1>3. CASE Refuse
  BY <1>0, <1>a, <1>3 DEF Refuse, WireInv
<1>4. CASE SetHeaders
  BY <1>a, <1>4 DEF SetHeaders, WireInv
<1>5. CASE SetTrailers
  BY <1>0, <1>a, <1>5 DEF SetTrailers, WireInv
<1>6. CASE Open
  BY <1>0, <1>a, <1>6 DEF Open, WireInv
<1>7. CASE Respond
  <2>1. /\ outcome' \in {"ok", "error"} /\ phase' = "answered" /\ phase \in {"serving", "opened"}
        /\ call' = call /\ headers' = headers /\ trailers' = trailers /\ heard' = heard
        /\ end' = Trailing(outcome')
    BY <1>7 DEF Respond
  <2>2. wire' = Sent(call.protocol = "unary")
    <3>1. CASE phase = "opened"
      BY <1>7, <3>1 DEF Respond, WireInv
    <3>2. CASE phase # "opened"
      BY <1>7, <3>2 DEF Respond
    <3> QED  BY <3>1, <3>2
  <2>3. Sent(call.protocol = "unary")' = Sent(call.protocol = "unary")
    BY <1>0, <1>a, <2>1 DEF Sent
  <2>4. Trailing(outcome)' = Trailing(outcome')
    BY <2>1 DEF Trailing, StatusTrailers
  <2> QED  BY <2>1, <2>2, <2>3, <2>4 DEF WireInv
<1>8. CASE Hear \/ HearEnd
  BY <1>0, <1>a, <1>8 DEF Hear, HearEnd, WireInv
<1> QED  BY <1>1, <1>2, <1>3, <1>4, <1>5, <1>6, <1>7, <1>8 DEF Next

LEMMA ToldStep == TypeOK /\ WireInv /\ ToldInv /\ [Next]_vars => ToldInv'
<1> SUFFICES ASSUME TypeOK, WireInv, ToldInv, [Next]_vars PROVE ToldInv'
  OBVIOUS
<1> USE DEF vars, caller, asked, service, response
<1>1. CASE HearEnd
  <2>1. outcome' = outcome /\ verdict' = Told /\ phase = "answered"
    BY <1>1 DEF HearEnd
  <2>2. outcome # "refused" => outcome \in {"ok", "error"} /\ end = Trailing(outcome)
    BY <2>1 DEF WireInv, TypeOK
  <2>3. outcome # "refused" /\ call.protocol = "grpc" => end["status"][1] = outcome
    BY <2>2, TrailingValues
  <2>4. outcome # "refused" => Told = outcome
    BY <2>2, <2>3 DEF Told
  <2> QED  BY <2>1, <2>4 DEF ToldInv
<1>2. CASE CallerEdits \/ Enter \/ Exit \/ Call \/ Serve \/ Refuse \/ SetHeaders \/ SetTrailers
           \/ Open \/ Respond \/ Hear \/ Again \/ UNCHANGED vars
  BY <1>2 DEF CallerEdits, Enter, Exit, Call, Serve, Refuse, SetHeaders, SetTrailers, Open,
              Respond, Hear, Again, ToldInv
<1> QED  BY <1>1, <1>2 DEF Next

\* What Sent and Trailing of the two halves make together.
LEMMA TrailedIsSent ==
    ASSUME TypeOK, WireInv, outcome \in {"ok", "error"}, NEW k \in ResponseKeys \ {"status"}
    PROVE  /\ wire[<<k, TRUE>>] \o end[k] = Trailed(k)
           /\ wire[<<k, FALSE>>] = Fixed(k) \o GetAll(headers, <<k, FALSE>>)
<1> DEFINE unary == call.protocol = "unary"
<1>1. wire = Sent(unary) /\ end = Trailing(outcome) /\ unary \in BOOLEAN
  BY DEF WireInv
<1>2. /\ wire[<<k, FALSE>>] = Fixed(k) \o GetAll(headers, <<k, FALSE>>)
      /\ wire[<<k, TRUE>>] = GetAll(headers, <<k, TRUE>>) \o
                               (IF unary THEN GetAll(trailers, k) ELSE <<>>)
      /\ end[k] = IF unary THEN <<>> ELSE GetAll(trailers, k)
  BY <1>1, SentValues, TrailingValues
<1>3. GetAll(headers, <<k, TRUE>>) \in Seq(Words) /\ GetAll(trailers, k) \in Seq(Words)
  BY NamesFact, GetAllType DEF TypeOK
<1>4. \A a, b \in Seq(Words) : (a \o b) \o <<>> = a \o b /\ (a \o <<>>) \o b = a \o b
  BY ConcatEmptySeq, ConcatProperties
<1>5. CASE unary
  BY <1>2, <1>3, <1>4, <1>5 DEF Trailed
<1>6. CASE ~unary
  BY <1>2, <1>3, <1>4, <1>6 DEF Trailed
<1> QED  BY <1>2, <1>5, <1>6

LEMMA SuffixFact ==
    ASSUME NEW p \in Seq(Words), NEW s \in Seq(Words)
    PROVE  IsSuffix(s, p \o s)
<1> DEFINE t == p \o s
           u == SubSeq(t, Len(t) - Len(s) + 1, Len(t))
<1>1. /\ t \in Seq(Words) /\ Len(t) = Len(p) + Len(s)
      /\ \A i \in 1 .. Len(p) + Len(s) : t[i] = IF i <= Len(p) THEN p[i] ELSE s[i - Len(p)]
      /\ Len(p) \in Nat /\ Len(s) \in Nat
  BY ConcatProperties, LenProperties
<1> HIDE DEF t
<1>2. \A i \in Len(t) - Len(s) + 1 .. Len(t) : t[i] \in Words
  BY <1>1, ElementOfSeq
<1>3. /\ u \in Seq(Words) /\ Len(u) = Len(s)
      /\ \A i \in 1 .. Len(s) : u[i] = t[Len(p) + i]
  BY <1>1, <1>2, SubSeqProperties
<1> HIDE DEF u
<1>4. ASSUME NEW i \in 1 .. Len(s) PROVE u[i] = s[i]
  <2>1. /\ Len(p) + i \in 1 .. Len(p) + Len(s) /\ ~(Len(p) + i <= Len(p))
        /\ Len(p) + i - Len(p) = i
    BY <1>1
  <2>2. t[Len(p) + i] = s[Len(p) + i - Len(p)]
    <3>1. t[Len(p) + i] = IF Len(p) + i <= Len(p) THEN p[Len(p) + i] ELSE s[Len(p) + i - Len(p)]
      BY <1>1, <2>1
    <3> QED  BY <2>1, <3>1
  <2> QED  BY <1>3, <2>1, <2>2
<1>5. u = s
  BY <1>3, <1>4, SeqEqual
<1> QED  BY <1>1, <1>5 DEF IsSuffix, u, t

LEMMA ResponseHolds == TypeOK /\ WireInv /\ SeenInv /\ ToldInv => ResponseArrives
<1> SUFFICES ASSUME TypeOK, WireInv, SeenInv, ToldInv,
                    phase = "done", outcome # "refused"
             PROVE  /\ verdict = outcome
                    /\ inside => \A k \in ResponseKeys \ {"status"} :
                         /\ GetAll(seen.headers, k) = Fixed(k) \o GetAll(headers, <<k, FALSE>>)
                         /\ IF uses = 1 THEN GetAll(seen.trailers, k) = Trailed(k)
                            ELSE IsSuffix(Trailed(k), GetAll(seen.trailers, k))
  BY DEF ResponseArrives
<1>1. verdict = outcome
  BY DEF ToldInv
<1>2. outcome \in {"ok", "error"} /\ heard
  BY DEF WireInv, TypeOK
<1>3. ASSUME inside, NEW k \in ResponseKeys \ {"status"}
      PROVE  /\ GetAll(seen.headers, k) = Fixed(k) \o GetAll(headers, <<k, FALSE>>)
             /\ IF uses = 1 THEN GetAll(seen.trailers, k) = Trailed(k)
                ELSE IsSuffix(Trailed(k), GetAll(seen.trailers, k))
  <2>1. GetAll(seen.headers, k) = wire[<<k, FALSE>>] /\ Follows(k, Trailed(k))
    BY <1>2, <1>3 DEF SeenInv, HeardHeaders
  <2>2. wire[<<k, FALSE>>] = Fixed(k) \o GetAll(headers, <<k, FALSE>>)
    BY <1>2, TrailedIsSent
  <2>3. Trailed(k) \in Seq(Words)
    <3>1. GetAll(headers, <<k, TRUE>>) \in Seq(Words) /\ GetAll(trailers, k) \in Seq(Words)
      BY NamesFact, GetAllType DEF TypeOK
    <3> QED  BY <3>1, ConcatProperties DEF Trailed
  <2>4. <<>> \in Seq(Words) /\ <<>> \o Trailed(k) = Trailed(k)
    BY <2>3, ConcatEmptySeq
  <2>5. IsSuffix(Trailed(k), Trailed(k))
    BY <2>3, <2>4, SuffixFact
  <2>6. \A p \in Seq(Words) : IsSuffix(Trailed(k), p \o Trailed(k))
    BY <2>3, SuffixFact
  <2> QED  BY <2>1, <2>2, <2>5, <2>6 DEF Follows
<1> QED  BY <1>1, <1>3

LEMMA HearStep ==
    ASSUME TypeOK, WireInv, SeenInv, Hear, inside
    PROVE  /\ HeardHeaders'
           /\ \A k \in ResponseKeys : Follows(k, wire[<<k, TRUE>>])'
<1>1. /\ seen' = HandleHeaders /\ wire' = wire /\ uses' = uses /\ ~heard
      /\ phase \in {"opened", "answered"}
  BY DEF Hear, response, service, asked
<1>2. \A b \in BOOLEAN :
        /\ Received(b) \in Table(ResponseKeys, Words) /\ WellKept(Received(b))
        /\ \A k \in ResponseKeys : GetAll(Received(b), k) = wire[<<k, b>>]
  BY ReceivedValues
<1>3. Some(Received(FALSE))
  <2>1. wire = Sent(FALSE) \/ wire = Sent(TRUE)
    BY <1>1 DEF WireInv, TypeOK
  <2>2. wire[<<"fixed", FALSE>>] = Fixed("fixed") \o GetAll(headers, <<"fixed", FALSE>>)
    BY <2>1, NamesFact, SentValues
  <2>3. Fixed("fixed") = <<"ours">> /\ <<"ours">> \in Seq(Words)
        /\ GetAll(headers, <<"fixed", FALSE>>) \in Seq(Words)
    <3>1. GetAll(headers, <<"fixed", FALSE>>) \in Seq(Words)
      BY NamesFact, GetAllType DEF TypeOK
    <3>2. Fixed("fixed") = <<"ours">>
      BY DEF Fixed
    <3>3. Fixed("fixed") \in Seq(Words)
      BY FixedType
    <3> QED  BY <3>1, <3>2, <3>3
  <2>4. \A a, b \in Seq(Words) : a \o b = <<>> => a = <<>>
    BY ConcatEqualIffEmpty
  <2>5. wire[<<"fixed", FALSE>>] # <<>>
    BY <2>2, <2>3, <2>4
  <2>6. Has(Received(FALSE), "fixed")
    BY <1>2, <2>5, NamesFact, HasSome
  <2> QED  BY <2>6, NamesFact DEF Some
<1>4. /\ seen'.headers = Received(FALSE)
      /\ seen'.trailers = IF Some(Received(TRUE)) THEN Received(TRUE) ELSE seen.trailers
  BY <1>1, <1>3 DEF HandleHeaders
<1>5. HeardHeaders'
  BY <1>1, <1>2, <1>4 DEF HeardHeaders
<1>6. ASSUME NEW k \in ResponseKeys PROVE Follows(k, wire[<<k, TRUE>>])'
  <2>1. CASE Some(Received(TRUE))
    BY <1>1, <1>2, <1>4, <2>1 DEF Follows
  <2>2. CASE ~Some(Received(TRUE))
    <3>1. wire[<<k, TRUE>>] = <<>>
      BY <1>2, <2>2, HasSome DEF Some
    <3>2. GetAll(seen.trailers, k) \in Seq(Words)
      BY GetAllType DEF TypeOK
    <3>3. GetAll(seen.trailers, k) \o <<>> = GetAll(seen.trailers, k)
      BY <3>2, ConcatEmptySeq
    <3>4. uses = 1 => GetAll(seen.trailers, k) = <<>>
      <4>1. GetAll(Empty(ResponseKeys), k) = <<>>
        BY EmptyValues
      <4>2. uses = 1 => seen.trailers = Empty(ResponseKeys)
        BY <1>1 DEF SeenInv, NothingSeen
      <4> QED  BY <4>1, <4>2
    <3>5. seen'.trailers = seen.trailers
      BY <1>4, <2>2
    <3> QED  BY <1>1, <3>1, <3>2, <3>3, <3>4, <3>5 DEF Follows
  <2> QED  BY <2>1, <2>2
<1> QED  BY <1>5, <1>6

LEMMA HearEndStep ==
    ASSUME TypeOK, WireInv, SeenInv, HearEnd, inside, outcome # "refused",
           NEW k \in ResponseKeys \ {"status"}
    PROVE  Follows(k, Trailed(k))'
<1>1. /\ phase = "answered" /\ heard /\ uses' = uses
      /\ headers' = headers /\ trailers' = trailers
      /\ seen' = [seen EXCEPT !.trailers = AddAll(seen.trailers, end)]
  BY DEF HearEnd, service
<1>2. outcome \in {"ok", "error"}
  BY <1>1 DEF WireInv, TypeOK
<1>3. wire[<<k, TRUE>>] \o end[k] = Trailed(k)
  BY <1>2, TrailedIsSent
<1>4. GetAll(seen'.trailers, k) = GetAll(seen.trailers, k) \o end[k]
  <2>1. seen.trailers \in Table(ResponseKeys, Words) /\ WellKept(seen.trailers)
        /\ end \in Items(ResponseKeys, Words)
    BY DEF TypeOK
  <2>2. seen'.trailers = AddAll(seen.trailers, end)
    BY <1>1 DEF TypeOK
  <2>3. \A n \in ResponseKeys :
           GetAll(AddAll(seen.trailers, end), n) = GetAll(seen.trailers, n) \o end[n]
    <3>1. \A h \in Table(ResponseKeys, Words) : WellKept(h) =>
             \A n \in ResponseKeys : GetAll(AddAll(h, end), n) = GetAll(h, n) \o end[n]
      BY <2>1, AddAllValues
    <3> QED  BY <2>1, <3>1, Zenon
  <2> QED  BY <2>2, <2>3
<1>5. Follows(k, wire[<<k, TRUE>>])
  BY <1>1 DEF SeenInv
<1>6. Trailed(k)' = Trailed(k)
  BY <1>1 DEF Trailed
<1>7. wire[<<k, TRUE>>] \in Seq(Words) /\ end[k] \in Seq(Words)
  BY NamesFact DEF TypeOK, Items
<1>8. CASE GetAll(seen.trailers, k) = wire[<<k, TRUE>>]
  BY <1>3, <1>4, <1>6, <1>8 DEF Follows
<1>9. CASE uses # 1 /\ \E p \in Seq(Words) : GetAll(seen.trailers, k) = p \o wire[<<k, TRUE>>]
  <2>1. PICK p \in Seq(Words) : GetAll(seen.trailers, k) = p \o wire[<<k, TRUE>>]
    BY <1>9
  <2>2. p \o (wire[<<k, TRUE>>] \o end[k]) = (p \o wire[<<k, TRUE>>]) \o end[k]
    <3>1. \A s1, t1, u1 \in Seq(Words) : s1 \o (t1 \o u1) = (s1 \o t1) \o u1
      BY Concat3
    <3> QED  BY <1>7, <3>1, Zenon
  <2>3. GetAll(seen'.trailers, k) = p \o Trailed(k)'
    BY <1>3, <1>4, <1>6, <2>1, <2>2
  <2> QED  BY <1>1, <1>9, <2>3 DEF Follows
<1> QED  BY <1>5, <1>8, <1>9 DEF Follows

LEMMA SeenStep == TypeOK /\ WireInv /\ SeenInv /\ [Next]_vars => SeenInv'
<1> SUFFICES ASSUME TypeOK, WireInv, SeenInv, [Next]_vars, inside' PROVE SeenInv'
  BY DEF SeenInv
<1> USE DEF vars, caller, asked, service, response
<1>a. phase \in {"idle", "asked", "serving", "opened", "answered", "done"} /\ uses \in Nat
      /\ outcome \in {"none", "ok", "error", "refused"}
  BY DEF TypeOK
<1>1. CASE CallerEdits \/ Exit \/ UNCHANGED vars
  <2>1. /\ inside /\ phase' = phase /\ uses' = uses /\ seen' = seen /\ heard' = heard
        /\ wire' = wire /\ outcome' = outcome /\ headers' = headers /\ trailers' = trailers
    BY <1>1 DEF CallerEdits, Exit
  <2> QED  BY <2>1 DEF SeenInv, HeardHeaders, Follows, Trailed
<1>2. CASE Enter
  <2>1. ~heard /\ phase = "idle"
    BY <1>2 DEF Enter, WireInv
  <2> QED  BY <1>2, <2>1 DEF Enter, SeenInv
<1>3. CASE Call
  <2>1. /\ inside /\ ~heard' /\ phase = "idle" /\ phase' = "asked" /\ uses' = uses + 1 /\ seen' = seen
    BY <1>3 DEF Call, WireInv
  <2>2. uses' # 0 /\ (uses' = 1 => uses = 0)
    BY <1>a, <2>1
  <2> QED  BY <2>1, <2>2 DEF SeenInv
<1>4. CASE Serve \/ SetHeaders \/ Refuse
  <2>1. /\ inside /\ uses' = uses /\ seen' = seen /\ heard' = heard /\ ~heard
        /\ phase # "idle" /\ phase' \notin {"idle", "done"}
    BY <1>4 DEF Serve, SetHeaders, Refuse, WireInv
  <2> QED  BY <2>1 DEF SeenInv
<1>5. CASE Open \/ Respond \/ SetTrailers
  <2>1. /\ inside /\ uses' = uses /\ seen' = seen /\ heard' = heard
        /\ phase # "idle" /\ phase # "done" /\ phase' \notin {"idle", "done"}
    BY <1>5 DEF Open, Respond, SetTrailers
  <2>2. heard => wire' = wire
    BY <1>5 DEF Open, Respond, SetTrailers, WireInv
  <2> QED  BY <2>1, <2>2 DEF SeenInv, HeardHeaders, Follows
<1>6. CASE Hear
  <2>1. /\ inside /\ uses' = uses /\ heard' /\ phase' = phase /\ phase \in {"opened", "answered"}
    BY <1>6 DEF Hear
  <2>2. HeardHeaders' /\ \A k \in ResponseKeys : Follows(k, wire[<<k, TRUE>>])'
    BY <1>6, <2>1, HearStep
  <2> QED  BY <2>1, <2>2 DEF SeenInv
<1>7. CASE HearEnd
  <2>1. /\ inside /\ uses' = uses /\ heard' = heard /\ heard /\ phase' = "done"
        /\ phase = "answered" /\ outcome' = outcome /\ wire' = wire
        /\ seen' = [seen EXCEPT !.trailers = AddAll(seen.trailers, end)]
    BY <1>7 DEF HearEnd
  <2>2. seen'.headers = seen.headers
    BY <2>1 DEF TypeOK
  <2>3. HeardHeaders'
    BY <2>1, <2>2 DEF SeenInv, HeardHeaders
  <2>4. outcome # "refused" => \A k \in ResponseKeys \ {"status"} : Follows(k, Trailed(k))'
    BY <1>7, <2>1, HearEndStep
  <2> QED  BY <2>1, <2>3, <2>4 DEF SeenInv
<1>8. CASE Again
  <2>1. /\ inside /\ uses' = uses /\ ~heard' /\ phase' = "idle" /\ phase = "done"
    BY <1>8 DEF Again
  <2> QED  BY <2>1 DEF SeenInv
<1> QED  BY <1>1, <1>2, <1>3, <1>4, <1>5, <1>6, <1>7, <1>8 DEF Next
-----------------------------------------------------------------------------
LEMMA InvInit == Init => Inv
<1> SUFFICES ASSUME Init PROVE Inv
  OBVIOUS
<1>1. TypeOK
  BY TypeInit
<1> QED  BY <1>1 DEF Init, Inv, RequestInv, WireInv, SeenInv, ToldInv

LEMMA InvStep == Inv /\ [Next]_vars => Inv'
  BY TypeStep, RequestStep, WireStep, SeenStep, ToldStep DEF Inv

\* Whatever the caller put into its headers, the service reads it under the
\* protocol's own.
THEOREM RequestsArrive == Spec => []RequestArrives
<1>1. Inv => RequestArrives
  BY RequestHolds DEF Inv
<1> QED  BY <1>1, InvInit, InvStep, PTL DEF Spec

\* The service's deadline is the caller's over Connect; over gRPC it is before
\* it by less than one of each unit that has room for the caller's timeout.
THEOREM DeadlinesArrive == Spec => []DeadlineArrives
<1>1. Inv => DeadlineArrives
  BY DeadlineHolds DEF Inv
<1> QED  BY <1>1, InvInit, InvStep, PTL DEF Spec

\* The caller learns how the call ended and reads the service's metadata.
THEOREM ResponsesArrive == Spec => []ResponseArrives
<1>1. Inv => ResponseArrives
  BY ResponseHolds DEF Inv
<1> QED  BY <1>1, InvInit, InvStep, PTL DEF Spec
=============================================================================
