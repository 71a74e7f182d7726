------------------------------ MODULE MCService ------------------------------
(***************************************************************************)
(* An instance of Service for TLC: a purchase under a key, its retry or    *)
(* its cancellation, and the worker that announces it.                     *)
(***************************************************************************)
EXTENDS Service

CONSTANTS e1, p1, k1

a7 == [section |-> "A", number |-> 7, spelling |-> "plain"]

OneSeat == {a7}

KeyedRequests ==
    {[kind |-> "create", event |-> e1, seat |-> a7, person |-> p1, key |-> k1]}
    \cup [kind : {"cancel"}, ticket : Calls]

OpenRow ==
    {[status |-> "published", deadline |-> "ahead",
      pattern |-> <<[section |-> "A", start |-> 1, end |-> 7]>>]}
=============================================================================
