----------------------------- MODULE MCTickets ------------------------------
(***************************************************************************)
(* Instances of TicketUsecases for TLC: the payloads clients send and the  *)
(* event rows synchronisation writes, one small world per question.        *)
(***************************************************************************)
EXTENDS TicketUsecases, TLC

CONSTANTS
    e1,             \* the event
    p1, p2,         \* two buyers
    k1              \* an idempotency key

Seat(section, number, spelling) ==
    [section |-> section, number |-> number, spelling |-> spelling]

Range(section, start, end) ==
    [section |-> section, start |-> start, end |-> end]

\* A chunk that is no range, such as "balcony".
NoRange == [section |-> None, start |-> 0, end |-> 0]

\* The last seat of a range of the venue, and a seat next to its other range.
a7 == Seat("A", 7, "plain")
b7 == Seat("B", 7, "plain")
VenuePattern == <<NoRange, Range("A", 1, 7), Range("B", 8, 9), Range("A", 5, 6)>>
WidePattern == <<Range("A", 1, 7), Range("B", 7, 9)>>

OneSeat == {a7}
TwoSeats == {a7, b7}

Buy(seat, person, key) ==
    [kind |-> "create", event |-> e1, seat |-> seat, person |-> person,
     key |-> key]

Cancels == [kind : {"cancel"}, ticket : Calls]
Lists == [kind |-> "seats", event |-> e1]

Open == [status |-> "published", deadline |-> "ahead", pattern |-> VenuePattern]

\* One key: a request, its retry, and the key reused for another seat.
KeyRequests == {Buy(a7, p1, k1), Buy(b7, p1, k1)}

\* The same, and cancellations in between.
KeyCancelRequests == KeyRequests \cup Cancels

\* A key used once, and the seat sold to another buyer and given back.
ResaleRequests == {Buy(a7, p1, k1), Buy(a7, p2, None)} \cup Cancels

\* No key: sales, cancellations and listings that share the cached list.
SaleRequests == {Buy(a7, p1, None), Lists} \cup Cancels

\* Everything, with a seat the venue does not have.
AllRequests == {Buy(a7, p1, k1), Buy(a7, p2, k1), Buy(b7, p1, None), Lists}
               \cup Cancels

OpenOnly == {Open}
WholeVenue == {[Open EXCEPT !.pattern = WidePattern]}
AllRows == {Open,
            [Open EXCEPT !.status = "unknown"],
            [Open EXCEPT !.deadline = "passed"],
            [Open EXCEPT !.pattern = None]}

CallSymmetry == Permutations(Calls)
=============================================================================
