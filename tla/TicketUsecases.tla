--------------------------- MODULE TicketUsecases ---------------------------
(***************************************************************************)
(* src/services/ticket_usecases.py and seats_usecases.py: calls that       *)
(* register a ticket, cancel one, or list free seats run concurrently as   *)
(* coroutines of one process.  They share the seats cache, the database    *)
(* and the Events Provider.                                                *)
(*                                                                         *)
(* A coroutine runs alone between two awaits, so an action is what a call  *)
(* does from the completion of one await to the start of the next, and     *)
(* pc[c] is the await the call is suspended in.  Calls are made once; a    *)
(* client's retry is another call with an equal payload.  Next to them run *)
(* the cleanup of idempotency keys (src/services/idempotency_cleanup.py),  *)
(* the synchronisation that rewrites event rows, and crashes.              *)
(***************************************************************************)
EXTENDS SeatsCache, EventsProvider

CONSTANTS
    Requests,   \* the payloads clients send
    EventRows   \* the rows synchronisation may leave in the events table

ASSUME RequestsAreRequests == Requests \subseteq Request
ASSUME EventRowsAreEvents == EventRows \subseteq Event

VARIABLES
    pc,         \* call -> where it is suspended
    op,         \* call -> its payload, None before it arrives
    held,       \* call -> the list object in available_seats, or None
    answer,     \* call -> the answer it ended with, None before
    events,     \* table events: event -> row or None
    tickets,    \* table tickets: ticket -> row or None
    keys,       \* table idempotency_keys: key -> row or None
    outbox,     \* table outbox: the tickets a record announces
    forgotten,  \* history: tickets whose key row was cleaned up
    offered     \* history: calls that ask for a seat that was on sale when
                \* they arrived, or since then and before it was checked

callVars == <<pc, op, held, answer>>
tables == <<events, tickets, keys, outbox>>
history == <<forgotten, offered>>
vars == <<callVars, tables, history, cacheVars, providerVars>>

AwaitsDatabase == {"lookup", "event", "commit", "committed", "ticket",
                   "cancel_commit"}
AwaitsProvider == {"seats", "register", "unregister"}
Running == AwaitsDatabase \cup AwaitsProvider
PC == Running \cup {"idle", "done", "dead"}

TypeOK ==
    /\ pc \in [Calls -> PC]
    /\ op \in [Calls -> Requests \cup {None}]
    /\ held \in [Calls -> Calls \cup {None}]
    /\ answer \in [Calls -> Answer \cup {None}]
    /\ events \in [Events -> EventRows \cup {None}]
    /\ tickets \in [Calls -> Ticket \cup {None}]
    /\ keys \in [Keys -> IdempotencyKey \cup {None}]
    /\ outbox \in SUBSET Calls
    /\ forgotten \in SUBSET Calls
    /\ offered \in SUBSET Calls
    /\ CacheTypeOK
    /\ ProviderTypeOK

Init ==
    /\ pc = [c \in Calls |-> "idle"]
    /\ op = [c \in Calls |-> None]
    /\ held = [c \in Calls |-> None]
    /\ answer = [c \in Calls |-> None]
    /\ events \in [Events -> EventRows \cup {None}]
    /\ tickets = [c \in Calls |-> None]
    /\ keys = [k \in Keys |-> None]
    /\ outbox = {}
    /\ forgotten = {}
    /\ offered = {}
    /\ CacheInit
    /\ ProviderInit

-----------------------------------------------------------------------------
Goto(c, p) == pc' = [pc EXCEPT ![c] = p]

\* The call goes on to await p; its payload and its locals are kept.
Await(c, p) == Goto(c, p) /\ UNCHANGED <<op, held, answer>>

\* do() ends.  Its local variables go away with it.
AnswerWith(c, outcome, ticket) ==
    /\ Goto(c, "done")
    /\ answer' = [answer EXCEPT ![c] = [outcome |-> outcome, ticket |-> ticket]]
    /\ held' = [held EXCEPT ![c] = None]
    /\ UNCHANGED op

Raise(c, error) == AnswerWith(c, error, None)

TablesUnchanged == UNCHANGED <<tables, history>>

\* An event's row puts a seat on sale.
OnSale(event, seat) ==
    /\ event # None
    /\ event.status = "published" /\ event.deadline = "ahead"
    /\ event.pattern # None /\ InVenue(event.pattern, seat)

Arrive(c) ==
    /\ pc[c] = "idle"
    /\ \E o \in Requests :
          /\ op' = [op EXCEPT ![c] = o]
          /\ Goto(c, IF o.kind = "cancel" THEN "ticket"
                     ELSE IF o.kind = "create" /\ o.key # None THEN "lookup"
                     ELSE "event")
          /\ offered' = IF o.kind = "create" /\ OnSale(events[o.event], o.seat)
                        THEN offered \cup {c} ELSE offered
    /\ UNCHANGED <<held, answer, tables, forgotten, cacheVars, providerVars>>

-----------------------------------------------------------------------------
(* Variants: mistakes this code could have made, each refuted by the        *)
(* property named in PROJECT.json.  No specification uses them.             *)

\* return existing instead of existing.ticket_id
LookupKeyReturnsRow(c) ==
    /\ pc[c] = "lookup"
    /\ LET existing == keys[op[c].key] IN
          IF existing = None THEN Await(c, "event")
          ELSE AnswerWith(c, "Created", existing)
    /\ UNCHANGED <<cacheVars, providerVars>> /\ TablesUnchanged

\* any known key is a conflict
LookupKeyAnyConflict(c) ==
    /\ pc[c] = "lookup"
    /\ IF keys[op[c].key] = None THEN Await(c, "event")
       ELSE Raise(c, "IdempotencyConflictError")
    /\ UNCHANGED <<cacheVars, providerVars>> /\ TablesUnchanged

\* the client's timeout taken for a refusal
RegisterFailsAsTaken(c) ==
    /\ pc[c] = "register"
    /\ Raise(c, "SeatTakenError")
    /\ UNCHANGED <<cacheVars, providerVars>> /\ TablesUnchanged

\* the client's timeout taken for a success
RegisterFailsAssumed(c) ==
    /\ pc[c] = "register"
    /\ Await(c, "commit")
    /\ UNCHANGED <<cacheVars, providerVars>> /\ TablesUnchanged

\* a client without timeouts
RegisterWaits(c) ==
    /\ pc[c] = "register"
    /\ wire[c].stage # "register_sent"
    /\ Raise(c, "ProviderTemporarilyUnavailableError")
    /\ UNCHANGED <<cacheVars, providerVars>> /\ TablesUnchanged

\* no primary key on idempotency_keys, or an upsert
KeyIsOverwritten(c) == TRUE

\* commit() before the outbox record and the key are added
CommitTooEarly(c) ==
    /\ pc[c] = "commit"
    /\ tickets' = [tickets EXCEPT ![c] =
                     [event |-> op[c].event, status |-> "active"]]
    /\ Await(c, "committed")
    /\ UNCHANGED <<events, keys, outbox, history, cacheVars, providerVars>>

\* a seat the provider refuses leaves the cached list, too
RegisterRefusedUnlists(c) ==
    /\ pc[c] = "register"
    /\ wire[c].stage = "register_refused"
    /\ lists' = [lists EXCEPT ![held[c]] = @ \ {op[c].seat}]
    /\ Raise(c, "SeatTakenError")
    /\ UNCHANGED <<store, providerVars>> /\ TablesUnchanged

\* the loser of a race for a key gets the winner's ticket
CommitClashAnswered(c) ==
    /\ pc[c] = "commit"
    /\ op[c].key # None /\ keys[op[c].key] # None
    /\ AnswerWith(c, "Created", keys[op[c].key].ticket)
    /\ UNCHANGED <<cacheVars, providerVars>> /\ TablesUnchanged

\* the key is inserted in a transaction of its own, after the ticket's
CommitClashKeepsTicket(c) ==
    /\ pc[c] = "commit"
    /\ op[c].key # None /\ keys[op[c].key] # None
    /\ tickets' = [tickets EXCEPT ![c] =
                     [event |-> op[c].event, status |-> "active"]]
    /\ outbox' = outbox \cup {c}
    /\ Raise(c, "IntegrityError")
    /\ UNCHANGED <<events, keys, history, cacheVars, providerVars>>

\* the provider's failure to unregister is logged and ignored
UnregisterFailsIgnored(c) ==
    /\ pc[c] = "unregister"
    /\ Await(c, "cancel_commit")
    /\ UNCHANGED <<cacheVars, providerVars>> /\ TablesUnchanged

\* a cancelled ticket is deleted
CommitCancelDeletes(c) ==
    /\ pc[c] = "cancel_commit"
    /\ tickets' = [tickets EXCEPT ![op[c].ticket] = None]
    /\ Await(c, "committed")
    /\ UNCHANGED <<events, keys, outbox, history, cacheVars, providerVars>>

\* a cancellation frees the key of its ticket
CommitCancelFreesKey(c) ==
    /\ pc[c] = "cancel_commit"
    /\ tickets' = [tickets EXCEPT ![op[c].ticket].status = "cancelled"]
    /\ keys' = [k \in Keys |->
                  IF keys[k] # None /\ keys[k].ticket = op[c].ticket THEN None
                  ELSE keys[k]]
    /\ Await(c, "committed")
    /\ UNCHANGED <<events, outbox, history, cacheVars, providerVars>>

\* a failed commit is swallowed
DatabaseFailsSilently(c) ==
    /\ pc[c] = "commit"
    /\ AnswerWith(c, "Created", c)
    /\ UNCHANGED <<cacheVars, providerVars>> /\ TablesUnchanged

-----------------------------------------------------------------------------
(* Registration, and the listing of seats, which is its first half.        *)

LookupKey(c) ==
    /\ pc[c] = "lookup"
    /\ LET existing == keys[op[c].key] IN
       \/ existing = None /\ Await(c, "event")
       \/ /\ existing # None
          /\ existing.hash # RequestHash(op[c])
          /\ Raise(c, "IdempotencyConflictError")
       \/ /\ existing # None
          /\ existing.hash = RequestHash(op[c])
          /\ AnswerWith(c, "Created", existing.ticket)
    /\ UNCHANGED <<cacheVars, providerVars>> /\ TablesUnchanged

\* Variant: registration_deadline is not compared.
NotAvailableStatusOnly(o, event) == event.status # "published"

NotAvailable(o, event) ==
    \/ event.status # "published"
    \/ o.kind = "create" /\ event.deadline = "passed"

NoSuchSeat(o, event) ==
    /\ o.kind = "create"
    /\ event.pattern # None => ~ IsValidSeat(event.pattern, o.seat)

EventRefused(c) ==
    /\ pc[c] = "event"
    /\ LET event == events[op[c].event] IN
       \/ event = None /\ Raise(c, "EventNotFoundError")
       \/ /\ event # None
          /\ NotAvailable(op[c], event)
          /\ Raise(c, "EventNotAvailableError")
       \/ /\ event # None
          /\ ~ NotAvailable(op[c], event)
          /\ NoSuchSeat(op[c], event)
          /\ Raise(c, "InvalidSeatError")
    /\ UNCHANGED <<cacheVars, providerVars>> /\ TablesUnchanged

EventAccepted(c) ==
    /\ pc[c] = "event"
    /\ LET event == events[op[c].event] IN
          /\ event # None
          /\ ~ NotAvailable(op[c], event)
          /\ ~ NoSuchSeat(op[c], event)

\* What follows once available_seats is list l, with these seats in it.
UseSeats(c, l, seats) ==
    \/ /\ op[c].kind = "seats"
       /\ AnswerWith(c, "Listed", None)
       /\ SetStage(c, "idle")
    \/ /\ op[c].kind = "create"
       /\ op[c].seat \notin seats
       /\ Raise(c, "SeatTakenError")
       /\ SetStage(c, "idle")
    \/ /\ op[c].kind = "create"
       /\ op[c].seat \in seats
       /\ Goto(c, "register")
       /\ held' = [held EXCEPT ![c] = l]
       /\ UNCHANGED <<op, answer>>
       /\ SetStage(c, "register_sent")

CacheHit(c) ==
    /\ EventAccepted(c)
    /\ LET l == CacheGet(op[c].event) IN
          l # None /\ UseSeats(c, l, lists[l])
    /\ UNCHANGED <<cacheVars, booked>> /\ TablesUnchanged

CacheMiss(c) ==
    /\ EventAccepted(c)
    /\ CacheGet(op[c].event) = None
    /\ Await(c, "seats")
    /\ SetStage(c, "seats_sent")
    /\ UNCHANGED <<cacheVars, booked>> /\ TablesUnchanged

SeatsReturn(c) ==
    /\ pc[c] = "seats"
    /\ wire[c].stage = "seats_ok"
    /\ CacheNew(op[c].event, c, wire[c].seats)
    /\ UseSeats(c, c, wire[c].seats)
    /\ UNCHANGED booked /\ TablesUnchanged

\* A timeout, a lost connection or any error status is an httpx.HTTPError;
\* a body without seats is not.
SeatsFail(c) ==
    /\ pc[c] = "seats"
    /\ \E error \in {"ProviderTemporarilyUnavailableError", "ProviderError"} :
          Raise(c, error)
    /\ SetStage(c, "idle")
    /\ UNCHANGED <<cacheVars, booked>> /\ TablesUnchanged

\* The ticket id is in hand: the seat leaves the list this call holds, the
\* list is cached again, and the commit begins.
RegisterConfirmed(c) ==
    /\ pc[c] = "register"
    /\ wire[c].stage = "register_ok"
    /\ op[c].seat \in lists[held[c]]
    /\ CacheSell(op[c].event, held[c], op[c].seat)
    /\ Goto(c, "commit")
    /\ held' = [held EXCEPT ![c] = None]
    /\ UNCHANGED <<op, answer, providerVars>> /\ TablesUnchanged

\* available_seats.remove() of a seat another call has removed already.
RegisterUnlisted(c) ==
    /\ pc[c] = "register"
    /\ wire[c].stage = "register_ok"
    /\ op[c].seat \notin lists[held[c]]
    /\ Raise(c, "ValueError")
    /\ UNCHANGED <<cacheVars, providerVars>> /\ TablesUnchanged

RegisterRefused(c) ==
    /\ pc[c] = "register"
    /\ wire[c].stage = "register_refused"
    /\ Raise(c, "SeatTakenError")
    /\ UNCHANGED <<cacheVars, providerVars>> /\ TablesUnchanged

\* No answer in time, or an unexpected one.  The request stays on the wire:
\* the provider may have handled it, or still handle it.
RegisterFails(c) ==
    /\ pc[c] = "register"
    /\ \E error \in {"ProviderTemporarilyUnavailableError", "ProviderError"} :
          Raise(c, error)
    /\ UNCHANGED <<cacheVars, providerVars>> /\ TablesUnchanged

KeyIsFree(c) == op[c].key # None => keys[op[c].key] = None

\* One transaction inserts the ticket, its outbox record and its key.
Commit(c) ==
    /\ pc[c] = "commit"
    /\ KeyIsFree(c)
    /\ tickets' = [tickets EXCEPT ![c] =
                     [event |-> op[c].event, status |-> "active"]]
    /\ outbox' = outbox \cup {c}
    /\ keys' = IF op[c].key = None THEN keys
               ELSE [keys EXCEPT ![op[c].key] =
                       [hash |-> RequestHash(op[c]), ticket |-> c]]
    /\ Await(c, "committed")
    /\ UNCHANGED <<events, history, cacheVars, providerVars>>

\* The primary key of idempotency_keys is taken: everything is rolled back.
CommitClash(c) ==
    /\ pc[c] = "commit"
    /\ ~ KeyIsFree(c)
    /\ Raise(c, "IntegrityError")
    /\ UNCHANGED <<cacheVars, providerVars>> /\ TablesUnchanged

\* The database has confirmed the commit.
Respond(c) ==
    /\ pc[c] = "committed"
    /\ IF op[c].kind = "create" THEN AnswerWith(c, "Created", c)
       ELSE AnswerWith(c, "Cancelled", op[c].ticket)
    /\ UNCHANGED <<cacheVars, providerVars>> /\ TablesUnchanged

-----------------------------------------------------------------------------
(* Cancellation.                                                           *)

NoTicket(t) == tickets[t] # None => tickets[t].status = "cancelled"

ReadTicket(c) ==
    /\ pc[c] = "ticket"
    /\ \/ /\ NoTicket(op[c].ticket)
          /\ Raise(c, "TicketNotFoundError")
          /\ UNCHANGED wire
       \/ /\ ~ NoTicket(op[c].ticket)
          /\ Await(c, "unregister")
          /\ SetStage(c, "unregister_sent")
    /\ UNCHANGED <<cacheVars, booked>> /\ TablesUnchanged

\* The event whose registration is undone: event_id of the ticket row.
EventOf(c) == tickets[op[c].ticket].event

UnregisterReturn(c) ==
    /\ pc[c] = "unregister"
    /\ wire[c].stage = "unregister_ok"
    /\ CacheInvalidate(EventOf(c))
    /\ Await(c, "cancel_commit")
    /\ UNCHANGED providerVars /\ TablesUnchanged

UnregisterMissing(c) ==
    /\ pc[c] = "unregister"
    /\ wire[c].stage = "unregister_missing"
    /\ Raise(c, "TicketNotFoundError")
    /\ UNCHANGED <<cacheVars, providerVars>> /\ TablesUnchanged

UnregisterFails(c) ==
    /\ pc[c] = "unregister"
    /\ \E error \in {"ProviderTemporarilyUnavailableError", "ProviderError"} :
          Raise(c, error)
    /\ UNCHANGED <<cacheVars, providerVars>> /\ TablesUnchanged

CommitCancel(c) ==
    /\ pc[c] = "cancel_commit"
    /\ tickets' = [tickets EXCEPT ![op[c].ticket] =
                     [event |-> EventOf(c), status |-> "cancelled"]]
    /\ Await(c, "committed")
    /\ UNCHANGED <<events, keys, outbox, history, cacheVars, providerVars>>

-----------------------------------------------------------------------------
(* The surroundings.                                                       *)

\* A query or a commit fails.  In "committed" only the confirmation is lost.
DatabaseFails(c) ==
    /\ pc[c] \in AwaitsDatabase
    /\ Raise(c, "DBAPIError")
    /\ UNCHANGED <<cacheVars, providerVars>> /\ TablesUnchanged

\* DELETE ... WHERE created_at < older_than.  Ages are abstracted: any of
\* the rows may be old enough.
CleanKeys ==
    /\ \E old \in SUBSET {k \in Keys : keys[k] # None} :
          /\ old # {}
          /\ keys' = [k \in Keys |-> IF k \in old THEN None ELSE keys[k]]
          /\ forgotten' = forgotten \cup {keys[k].ticket : k \in old}
    /\ UNCHANGED <<callVars, events, tickets, outbox, offered, cacheVars,
                   providerVars>>

\* Synchronisation upserts a row, or the deadline of a row passes.
EventSynced(e) ==
    /\ \E row \in EventRows :
          /\ events' = [events EXCEPT ![e] = row]
          /\ offered' = offered \cup
                {c \in Calls : /\ pc[c] \in {"lookup", "event"}
                               /\ op[c].kind = "create" /\ op[c].event = e
                               /\ OnSale(row, op[c].seat)}
    /\ UNCHANGED <<callVars, tickets, keys, outbox, forgotten, cacheVars,
                   providerVars>>

SeatsExpire(e) ==
    /\ CacheExpire(e)
    /\ UNCHANGED <<callVars, tables, history, providerVars>>

\* The process dies and another one starts.  The calls it was serving get no
\* answer; the database and the provider keep what they have.
Crash ==
    /\ pc' = [c \in Calls |-> IF pc[c] \in Running THEN "dead" ELSE pc[c]]
    /\ held' = [c \in Calls |-> None]
    /\ CacheLost
    /\ ProviderForgetsReads
    /\ UNCHANGED <<op, answer, tables, history, booked>>

Provider(c) ==
    /\ \/ ProviderListSeats(c, op[c].event)
       \/ ProviderRegister(c, op[c].event, op[c].seat)
       \/ ProviderRefuse(c)
       \/ ProviderUnregister(c, EventOf(c), op[c].ticket)
    /\ UNCHANGED <<callVars, tables, history, cacheVars>>

Step(c) ==
    \/ LookupKey(c) \/ EventRefused(c) \/ CacheHit(c) \/ CacheMiss(c)
    \/ SeatsReturn(c) \/ SeatsFail(c)
    \/ RegisterConfirmed(c) \/ RegisterUnlisted(c) \/ RegisterRefused(c)
    \/ RegisterFails(c)
    \/ Commit(c) \/ CommitClash(c) \/ Respond(c)
    \/ ReadTicket(c) \/ UnregisterReturn(c) \/ UnregisterMissing(c)
    \/ UnregisterFails(c) \/ CommitCancel(c)
    \/ DatabaseFails(c)

Next ==
    \/ \E c \in Calls : Arrive(c) \/ Step(c) \/ Provider(c)
    \/ \E e \in Events : EventSynced(e) \/ SeatsExpire(e)
    \/ CleanKeys
    \/ Crash

\* Every await ends: httpx gives up after its timeouts, and the database
\* answers or fails.  Nothing is assumed of the clients or the provider.
Fairness == \A c \in Calls : WF_vars(Step(c))

Spec == Init /\ [][Next]_vars
FairSpec == Spec /\ Fairness

-----------------------------------------------------------------------------
(* Correctness.                                                            *)

Stored(t) == tickets[t] # None
Answered(c, outcome) == answer[c] # None /\ answer[c].outcome = outcome
Booked(t) == \E e \in Events : Holds(e, t)

\* README, "Transactional Outbox": the ticket, the outbox record and the key
\* are stored together or not at all.  No outcome, crash or cleanup leaves a
\* notification without its ticket, a ticket without its notification, or a
\* key that points to another request's ticket.
RowsAllOrNothing ==
    /\ \A t \in Calls : Stored(t) <=> t \in outbox
    /\ \A k \in Keys : keys[k] # None =>
          /\ Stored(keys[k].ticket)
          /\ op[keys[k].ticket].key = k
          /\ keys[k].hash = RequestHash(op[keys[k].ticket])

\* Whatever the retries, the races between them and the crashes, two tickets
\* are never stored under one idempotency key, unless the cleanup has deleted
\* the key of one of them in the meantime.
OneTicketPerKey ==
    \A t, u \in Calls :
        /\ t # u /\ Stored(t) /\ Stored(u)
        /\ op[t].key # None /\ op[t].key = op[u].key
        => t \in forgotten \/ u \in forgotten

\* A client told 201 holds a ticket that is in the database, for good, and
\* that was sold for exactly the data it sent, by itself or by an earlier
\* call with its key.
CreatedIsDurable ==
    \A c \in Calls : Answered(c, "Created") =>
        LET t == answer[c].ticket IN
          /\ t \in Calls /\ Stored(t)
          /\ RequestHash(op[t]) = RequestHash(op[c])
          /\ t # c => op[c].key # None /\ op[t].key = op[c].key

\* 409 is answered only to a client that reuses a key for other data: a
\* retry of the same request never gets it.
ConflictIsJustified ==
    \A c \in Calls : Answered(c, "IdempotencyConflictError") =>
        \E t \in Calls : /\ Stored(t)
                         /\ op[t].key = op[c].key
                         /\ RequestHash(op[t]) # RequestHash(op[c])

\* A seat is sold only to a call that asked for it, and only if the event was
\* published, its deadline ahead and the seat one of its venue, all at one time
\* between the call's arrival and the check of the row: the provider is called
\* long after, when the row may say otherwise, and the cached list the seat was
\* found in may be another call's.
SoldWhileOffered ==
    \A e \in Events, s \in Seats : booked[e][s] # None =>
        LET t == booked[e][s] IN
          t \in offered /\ op[t].event = e /\ op[t].seat = s

\* A registration answered with a 4xx code, with the provider's own failures
\* before it included, holds no seat at the provider, then or later: a late
\* request or answer cannot turn the refusal into a booking nobody knows of.
RefusedBooksNothing ==
    \A c \in Calls :
        /\ answer[c] # None /\ op[c].kind = "create"
        /\ StatusCode("create", answer[c].outcome) \in {400, 404, 409}
        => ~ Booked(c) /\ wire[c].stage # "register_sent"

\* A ticket that is cancelled here has been released there, and stays so; a
\* client told 200 has its ticket cancelled here, and so there.
CancelledIsReleased ==
    \A t \in Calls :
        /\ Stored(t) /\ tickets[t].status = "cancelled" => ~ Booked(t)
        /\ \A c \in Calls : Answered(c, "Cancelled") /\ answer[c].ticket = t
              => Stored(t) /\ tickets[t].status = "cancelled"

\* A ticket active here whose seat the provider has released is explained by
\* a cancellation the provider carried out and whose call did not finish.
DriftHasCancel ==
    \A t \in Calls :
        Stored(t) /\ tickets[t].status = "active" /\ ~ Booked(t) =>
          \E c \in Calls : /\ op[c] # None /\ op[c].kind = "cancel"
                           /\ op[c].ticket = t
                           /\ wire[c].stage = "unregister_ok"
                           /\ ~ Answered(c, "Cancelled")

\* Every seat that the provider holds for a ticket is accounted for: the ticket
\* is stored here and active, or its registration is under way, died with the
\* process or was answered by a failure, 500 or 503.  No client is refused, or
\* given another call's ticket, while a seat stays sold behind its back.
SeatsAccountedFor ==
    \A e \in Events, s \in Seats : booked[e][s] # None =>
        LET t == booked[e][s] IN
          \/ Stored(t) /\ tickets[t].status = "active"
          \/ pc[t] \in {"register", "commit", "dead"}
          \/ /\ answer[t] # None
             /\ StatusCode("create", answer[t].outcome) \in {500, 503}

\* What an error tells of the tables.  A registration that ends with one has
\* stored nothing, unless all that was lost is the confirmation of its commit;
\* and the clash of keys is reported only to a call that lost its key to a
\* ticket that is stored.
ErrorsTellStored ==
    \A c \in Calls : answer[c] # None /\ op[c].kind = "create" =>
        /\ Stored(c) => answer[c].outcome \in {"Created", "DBAPIError"}
        /\ answer[c].outcome = "IntegrityError" =>
              /\ op[c].key # None
              /\ \E t \in Calls \ {c} : Stored(t) /\ op[t].key = op[c].key

\* The seats of a list are shared by the calls that hold it, and remove() of a
\* seat that another one removed raises ValueError.  That loses a sale only if
\* the seat was sold twice while the call was under way: to a ticket that is
\* stored, and again after a cancellation had released it.
LostSaleIsResale ==
    \A c \in Calls : Answered(c, "ValueError") =>
        \E t \in Calls \ {c}, x \in Calls :
            /\ Stored(t)
            /\ op[t].event = op[c].event /\ op[t].seat = op[c].seat
            /\ op[x] # None /\ op[x].kind = "cancel" /\ op[x].ticket = t
            /\ wire[x].stage = "unregister_ok"

\* The result stored under a key is never overwritten, and a retry finds it also
\* after its ticket was cancelled; only the cleanup removes it (README,
\* "Идемпотентность регистрации").
KeyRowStable ==
    [][\A k \in Keys : keys[k] # None =>
          \/ keys'[k] = keys[k]
          \/ keys'[k] = None /\ keys[k].ticket \in forgotten']_vars

\* A ticket is only ever cancelled: it is not deleted, reactivated or moved
\* to another event, and its announcement is not withdrawn.
TicketLifecycle ==
    [][\A t \in Calls : Stored(t) =>
          /\ tickets'[t] \in {tickets[t],
                              [tickets[t] EXCEPT !.status = "cancelled"]}
          /\ t \in outbox']_vars

\* Every call that arrives is answered, unless the process dies under it.
EveryCallEnds ==
    \A c \in Calls : pc[c] \in Running ~> pc[c] \in {"done", "dead"}

-----------------------------------------------------------------------------
(* What the README says and the code does not do.                          *)

\* README, "Идемпотентность регистрации": a key used for the first time means a
\* call of the provider, a stored ticket, an outbox record and 201; only an error
\* of the provider stores nothing.  So once the provider's confirmation has been
\* read, nothing but the database or another use of the key may stop it.
ConfirmedIsStored ==
    [][\A c \in Calls :
          /\ pc[c] = "register" /\ pc'[c] # "register"
          /\ wire[c].stage = "register_ok"
          /\ op[c].key # None /\ keys[op[c].key] = None
          => \/ pc'[c] \in {"commit", "dead"}
             \/ answer'[c].outcome \in {"ProviderTemporarilyUnavailableError",
                                       "ProviderError"}]_vars

\* The same table: a call whose key is in use when it is answered gets the
\* stored ticket if its data are the same and 409 if they are not.
KeyReuseAnswered ==
    [][\A c \in Calls :
          /\ pc[c] = "commit" /\ pc'[c] = "done"
          /\ op[c].key # None /\ keys[op[c].key] # None
          => answer'[c].outcome \in
                {"DBAPIError",
                 IF keys[op[c].key].hash = RequestHash(op[c])
                 THEN "Created" ELSE "IdempotencyConflictError"}]_vars
=============================================================================
