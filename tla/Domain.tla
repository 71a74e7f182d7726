------------------------------- MODULE Domain -------------------------------
(***************************************************************************)
(* The data the aggregator's use cases handle: HTTP calls and their        *)
(* payloads, the rows of the four tables, and the answers of the API.      *)
(*                                                                         *)
(* One POST /api/tickets call registers at most one ticket, and the Events *)
(* Provider gives every registration a fresh uuid.  A ticket id is         *)
(* therefore named by the call whose registration created it: Calls is     *)
(* both the set of HTTP calls and the set of ticket ids.                   *)
(***************************************************************************)
EXTENDS SeatsPattern

CONSTANTS
    Calls,      \* HTTP calls, each made once; also the ids of tickets
    Events,     \* event uuids
    Seats,      \* the seat names in use, those outside the venue included
    Persons,    \* (first name, last name, email) of a buyer
    Keys        \* idempotency keys

ASSUME SeatsAreSeatNames == Seats \subseteq SeatName

(***************************************************************************)
(* Payloads.  A missing key and an empty one are both None: the code tests *)
(* "if payload.idempotency_key".                                           *)
(***************************************************************************)
TicketRegistration ==
    [kind : {"create"}, event : Events, seat : Seats, person : Persons,
     key : Keys \cup {None}]

Unregistration == [kind : {"cancel"}, ticket : Calls]

SeatsQuery == [kind : {"seats"}, event : Events]

Request == TicketRegistration \cup Unregistration \cup SeatsQuery

\* SHA-256 over the payload without its key; collisions are not modelled.
RequestHash(payload) == <<payload.event, payload.seat, payload.person>>

Hash == Events \X Seats \X Persons

(***************************************************************************)
(* Rows.                                                                   *)
(***************************************************************************)
EventStatus == {"new", "published", "unknown"}

\* deadline says on which side of the registration deadline the clock is.
Event == [status : EventStatus, deadline : {"ahead", "passed"},
          pattern : Pattern \cup {None}]

TicketStatus == {"active", "cancelled"}

Ticket == [event : Events, status : TicketStatus]

IdempotencyKey == [hash : Hash, ticket : Calls]

ASSUME NoneIsNoValue ==
    /\ None \notin Calls
    /\ None \notin Events
    /\ None \notin Keys
    /\ None \notin Request
    /\ None \notin Event
    /\ None \notin Ticket
    /\ None \notin IdempotencyKey

(***************************************************************************)
(* Answers.  "outcome" names how do() ended: it returned, or raised the    *)
(* exception of that name (ending in Error).  ProviderError stands for     *)
(* every failure of the provider that no except clause maps: a status      *)
(* other than the expected ones, a body that cannot be read.  DBAPIError   *)
(* stands for the database being out of reach or the pool exhausted.       *)
(***************************************************************************)
Returned == {"Created", "Cancelled", "Listed"}

Handled == {"EventNotFoundError", "EventNotAvailableError",
            "InvalidSeatError", "SeatTakenError", "TicketNotFoundError",
            "ProviderTemporarilyUnavailableError",
            "IdempotencyConflictError"}

Unhandled == {"ProviderError", "ValueError", "IntegrityError", "DBAPIError"}

Outcome == Returned \cup Handled \cup Unhandled

Answer == [outcome : Outcome, ticket : Calls \cup {None}]

ASSUME NoneIsNoAnswer == None \notin Answer

\* The status code the routes of src/api give an outcome.
StatusCode(kind, outcome) ==
    CASE outcome = "Created" -> 201
      [] outcome \in {"Cancelled", "Listed"} -> 200
      [] outcome \in {"EventNotFoundError", "TicketNotFoundError"} -> 404
      [] outcome \in {"EventNotAvailableError", "InvalidSeatError",
                      "SeatTakenError"} -> 400
      [] outcome = "ProviderTemporarilyUnavailableError" ->
            IF kind = "seats" THEN 409 ELSE 503
      [] outcome = "IdempotencyConflictError" -> 409
      [] OTHER -> 500
=============================================================================
