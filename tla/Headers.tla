------------------------------ MODULE Headers ------------------------------
(***************************************************************************)
(* The class Headers: a dictionary of the first value of each name, and    *)
(* beside it the list of the others, kept only for names that have any.    *)
(* A name that is missing has no first value: store[n] is <<>>.            *)
(*                                                                         *)
(* Names are taken as already lowered.  The order of the values of a name  *)
(* is kept and the order of the names is not.                              *)
(***************************************************************************)
EXTENDS Naturals, Sequences

Table(names, values) == [store : [names -> Seq(values)], extra : [names -> Seq(values)]]

\* What the methods rely on: "if value wasn't in store, it's not in extra".
WellKept(h) ==
    \A n \in DOMAIN h.store :
        /\ Len(h.store[n]) <= 1
        /\ h.store[n] = <<>> => h.extra[n] = <<>>

\* Lists of items as HTTP carries them: all the values of each name.
Items(names, values) == [names -> Seq(values)]
NoItems(names)       == [n \in names |-> <<>>]

First(s) == SubSeq(s, 1, IF s = <<>> THEN 0 ELSE 1)
Rest(s)  == SubSeq(s, 2, Len(s))
-----------------------------------------------------------------------------
Empty(names) == [store |-> NoItems(names), extra |-> NoItems(names)]

Has(h, n) == h.store[n] # <<>>

\* h[n] = v: one value, whatever there was.
SetItem(h, n, v) ==
    [store |-> [h.store EXCEPT ![n] = <<v>>], extra |-> [h.extra EXCEPT ![n] = <<>>]]

\* del h[n], and h.pop(n, None).
DelItem(h, n) ==
    [store |-> [h.store EXCEPT ![n] = <<>>], extra |-> [h.extra EXCEPT ![n] = <<>>]]

\* h.add(n, v): one more value.
Add(h, n, v) ==
    IF Has(h, n)
    THEN [store |-> h.store, extra |-> [h.extra EXCEPT ![n] = Append(@, v)]]
    ELSE [store |-> [h.store EXCEPT ![n] = <<v>>], extra |-> h.extra]

\* h.getall(n): all values; h[n] is the first of them.
GetAll(h, n) == h.store[n] \o h.extra[n]

\* h.allitems().
AllItems(h) == [n \in DOMAIN h.store |-> GetAll(h, n)]

\* add() for each of the items.
AddAll(h, items) ==
    [store |-> [n \in DOMAIN h.store |->
                    IF Has(h, n) THEN h.store[n] ELSE First(items[n])],
     extra |-> [n \in DOMAIN h.store |->
                    h.extra[n] \o (IF Has(h, n) THEN items[n] ELSE Rest(items[n]))]]

\* Headers(items).
FromItems(items) == AddAll(Empty(DOMAIN items), items)
=============================================================================
