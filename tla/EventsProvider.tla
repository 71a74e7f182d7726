--------------------------- MODULE EventsProvider ---------------------------
(***************************************************************************)
(* The Events Provider, an external HTTP service, and the wire to it       *)
(* (src/services/events_provider_client.py).                               *)
(*                                                                         *)
(* A call has at most one request to the provider outstanding.  The        *)
(* provider handles a request at some moment after it was sent; its answer *)
(* reaches the client later, or never: a client that timed out leaves a    *)
(* request behind that the provider may still handle.  What the provider   *)
(* does with a request is known only from how the client uses it.          *)
(***************************************************************************)
EXTENDS Domain

VARIABLES
    booked,     \* event -> seat -> the ticket that holds it, or None
    wire        \* call -> its last request to the provider and the answer

providerVars == <<booked, wire>>

Stage == {"idle", "seats_sent", "seats_ok",
          "register_sent", "register_ok", "register_refused",
          "unregister_sent", "unregister_ok", "unregister_missing"}

\* seats is the body of the answer to get_free_seats.
Exchange == [stage : Stage, seats : SUBSET Seats]

ProviderTypeOK ==
    /\ booked \in [Events -> [Seats -> Calls \cup {None}]]
    /\ wire \in [Calls -> Exchange]

ProviderInit ==
    /\ booked = [e \in Events |-> [s \in Seats |-> None]]
    /\ wire = [c \in Calls |-> [stage |-> "idle", seats |-> {}]]

Holds(e, t) == \E s \in Seats : booked[e][s] = t

SetStage(c, stage) ==
    wire' = [wire EXCEPT ![c] = [stage |-> stage, seats |-> {}]]

\* GET /api/events/{id}/seats/.  Other clients of the provider hold seats
\* too, so any of the seats free of our tickets may be listed.
ProviderListSeats(c, e) ==
    /\ wire[c].stage = "seats_sent"
    /\ \E free \in SUBSET {s \in Seats : booked[e][s] = None} :
          wire' = [wire EXCEPT ![c] = [stage |-> "seats_ok", seats |-> free]]
    /\ UNCHANGED booked

\* Nobody waits for the answers to a dead client's queries.
ProviderForgetsReads ==
    wire' = [c \in Calls |-> IF wire[c].stage \in {"seats_sent", "seats_ok"}
                             THEN [stage |-> "idle", seats |-> {}]
                             ELSE wire[c]]

\* POST /api/events/{id}/register/ : a free seat is given to a new ticket.
ProviderRegister(c, e, s) ==
    /\ wire[c].stage = "register_sent"
    /\ booked[e][s] = None
    /\ booked' = [booked EXCEPT ![e] = [@ EXCEPT ![s] = c]]
    /\ SetStage(c, "register_ok")

\* ... answered 400: the seat is taken, possibly by another client, or the
\* provider does not accept the registration.
ProviderRefuse(c) ==
    /\ wire[c].stage = "register_sent"
    /\ SetStage(c, "register_refused")
    /\ UNCHANGED booked

\* DELETE /api/events/{id}/unregister/ : the ticket's seat is free again,
\* or 404 if the provider has no such ticket (any more).
ProviderUnregister(c, e, t) ==
    /\ wire[c].stage = "unregister_sent"
    /\ \/ /\ Holds(e, t)
          /\ booked' = [booked EXCEPT ![e] =
                          [s \in Seats |-> IF @[s] = t THEN None ELSE @[s]]]
          /\ SetStage(c, "unregister_ok")
       \/ /\ ~ Holds(e, t)
          /\ SetStage(c, "unregister_missing")
          /\ UNCHANGED booked
=============================================================================
