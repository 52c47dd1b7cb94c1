------------------------------ MODULE Timeouts ------------------------------
(***************************************************************************)
(* Timeouts on the wire.  gRPC writes a number of at most eight digits and *)
(* a unit, Connect a number of milliseconds of at most ten characters.     *)
(* The sizes of the units are parameters, for TLC's numbers have 32 bits.  *)
(***************************************************************************)
EXTENDS Integers

CONSTANTS
    TooLong,    \* _GRPC_TIMEOUT_MAX_VALUE, the least number of nine digits
    Second,     \* milliseconds in a second,
    Minute,     \* in a minute
    Hour,       \* and in an hour
    MaxConnect  \* the greatest number of ten digits

ASSUME UnitsAssumption ==
    /\ TooLong \in Nat /\ MaxConnect \in Nat
    /\ Second \in Nat /\ Minute \in Nat /\ Hour \in Nat
    /\ 1 < Second /\ Second < Minute /\ Minute < Hour /\ Hour < TooLong

\* _lookup_timeout_unit, for the units a client of this repository writes.
Size(unit) ==
    IF unit = "H" THEN Hour ELSE IF unit = "M" THEN Minute ELSE
    IF unit = "S" THEN Second ELSE 1

\* A slip in the operator that follows.
UnitTooSmall(t) ==
    IF t <= TooLong THEN "m" ELSE IF t < TooLong * Second THEN "S" ELSE
    IF t < TooLong * Minute THEN "M" ELSE "H"

UnitFor(t) ==
    IF t < TooLong THEN "m" ELSE IF t < TooLong * Second THEN "S" ELSE
    IF t < TooLong * Minute THEN "M" ELSE "H"

\* _serialize_timeout rounds down.
Serialize(t) ==
    IF t <= 0 THEN [value |-> 0, unit |-> "n"]
    ELSE [value |-> t \div Size(UnitFor(t)), unit |-> UnitFor(t)]

\* _parse_timeout refuses more than eight digits.
GrpcAccepts(sent) == sent.value < TooLong
Parse(sent)       == IF sent.unit = "n" THEN 0 ELSE sent.value * Size(sent.unit)

\* Connect's header is refused by its length.
ConnectAccepts(t) == t <= MaxConnect
=============================================================================
