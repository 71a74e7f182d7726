# TLA+ model of the events aggregator

The aggregator sells tickets for events of an external *Events Provider*. It
copies the provider's events into PostgreSQL, registers and cancels tickets at
the provider, and tells buyers of their purchase through *Capashino*, an
external notification service. One process, one asyncio event loop; its
concurrency is coroutines that interleave at every `await`.

This directory models the parts of it that carry state across an `await`, a
commit or a crash. Paths below are relative to the repository; the service's
code is in `src/`.

## 1. Inventory

| Component | State | Operations | Hard behaviour |
|---|---|---|---|
| Tickets: `services/ticket_usecases.py`, `api/tickets.py` | tables `tickets`, `idempotency_keys`, `outbox`; locals of each call | register, cancel | concurrent calls and retries; look-up and commit far apart; provider calls that time out; crash between provider and commit |
| Free seats: `services/seats_usecases.py`, `api/seats.py` | the seats cache | list | shares the cached list object with registrations |
| Seats cache: `services/seats_cache.py` | event -> (time, list) | get, set, invalidate | hands out its own mutable list; ttl restarted by every set |
| Provider client: `services/events_provider_client.py` | none | get events, seats; register; unregister | requests that outlive the caller |
| Key cleanup: `services/idempotency_cleanup.py` | `idempotency_keys` | delete expired | runs next to calls that use the keys |
| Outbox worker: `services/outbox_worker.py`, `repositories/outbox.py` | table `outbox`, its session | one batch every 10 s | lost replies, crash between delivery and commit, attempts limit, shutdown |
| Synchronisation: `services/sync.py`, paginator, `repositories/sync_meta.py` | tables `events`, `sync_meta` | daily run, manual trigger, mark failed, status request | overlapping runs, row locks, cursor against data, changes while pages are read, a status request that inserts |
| Seats pattern: `services/seats_pattern.py` | none | `is_valid_seat` | numeric boundaries, spellings of a number |
| Event listing: `services/events_usecases.py`, `repositories/event.py`, `api/events.py` | none | list a page | paging over a changing table, two statements per page, no tie-break |
| Lifecycle: `main.py`, `database.py`, `config.py` | background tasks, connection pool | start, stop, loops | cancellation in the middle of an iteration, death of process with calls and worker, pool exhaustion |
| Metrics, migrations, deployment | - | - | not modelled |

How they interact: calls and loops meet in the database (READ COMMITTED, one
session and transaction each), in the seats cache (one object of the process)
and at the provider. The registration writes the outbox record the worker
delivers; the synchronisation writes the event rows calls check. A process that
dies loses the cache, all calls and all sessions, and nothing else.

What makes each part correct:

* *Tickets*: a 201 names a ticket that is stored for the data sent; a key sells
  once; ticket, outbox record and key are stored together; a refusal (4xx)
  leaves no booking behind at the provider, and a booking with no ticket behind it
  was answered by a failure; an error tells what is stored; a cancelled ticket is
  released there; what is sold was on sale and is a seat of the venue; every call
  is answered.
* *Outbox*: sent means notified, exactly once; a record is settled once, and
  every record is settled.
* *Synchronisation*: the cursor never passes an event that is not stored as it
  is; the table catches up; the status tells how the last run ended, and a run fails
  only for a cause from outside: not because the status was asked for.
* *Listing*: a walk along `next` shows what has been in the list all along, once
  and in order.
* *The service as a whole*: a ticket is sold once, under a key that names no other
  ticket, its buyer is notified at most once, and every ticket stored is announced
  or given up in the end, whatever dies in between.

`PROJECT.json` lists the hazards at their lines with the properties that cover
them, and the lines each definition models.

## 2. Modules

```
SeatsPattern ── Domain ── SeatsCache ─────┐
                     └─── EventsProvider ─┴─ TicketUsecases ─┬─ MCTickets
OutboxWorker ────────────────────────────────────────────────┴─ Service ── MCService
NoticePromise <== OutboxWorker ── MCOutbox
TicketLedger  <== Service
EventsSync ── MCSync
EventListing ── MCListing
```

(`<==` is implemented by; the MC modules are instances for TLC.) The proofs:

```
SeatsPatternProofs ────┐
TicketUsecasesProofs ──┴─ TicketProviderProofs ─┬─ SharedSeatsProofs
                                                └─ ServiceProofs
OutboxWorkerProofs ──────────────────────────────────┘
EventsSyncProofs        EventListingProofs
```

**SeatsPattern** is `is_valid_seat`. A regular expression splits a name into its
section and number or does not match (`section = None`); a pattern is a sequence of
such chunks. Numbers are compared as integers, so "A7", "A07" and "A7" with a newline
after it are one place; `spelling` keeps such names apart. `VenuePlaces` says what a
pattern means, as a set of places.

**Domain** holds payloads, rows and outcomes. One call registers at most one
ticket, so a ticket's uuid is named by the call that created it. A request hash
is the triple it is computed from. An outcome is a return or the name of the
exception `do()` ends with; `StatusCode` is what the routes make of it.

**SeatsCache** keeps list *objects*, named by the call that parsed them, and a
store from event to object: `get` hands out the reference, and a seat removed by
one call is removed for all that hold it. The clock is abstracted: an entry may
expire between any two steps (`CacheExpire`).

**EventsProvider** is external: bookings per seat, and one `wire` entry per call
with the stage of its last request. A client that gave up leaves its request on
the wire, and the provider may still handle it. What is known of the provider is
what the client relies on: a free seat is given to a fresh ticket or refused with
400; `unregister` frees the seats of a ticket or answers 404. A listing may omit
seats (sold by others) but offers none that one of our tickets holds at that
moment.

**TicketUsecases** is the core. `pc[c]` is the await call `c` is suspended in;
an action is what runs from the completion of that await to the start of the
next one, which is the unit of atomicity of asyncio.

| `pc` | awaited | actions that end the wait |
|---|---|---|
| `lookup` | `idempotency.get` | `LookupKey` |
| `event` | `events.get` | `EventRefused`, `CacheHit`, `CacheMiss` |
| `seats` | `get_free_seats` | `SeatsReturn`, `SeatsFail` |
| `register` | `register` | `RegisterConfirmed`, `RegisterUnlisted`, `RegisterRefused`, `RegisterFails` |
| `commit` | `uow.commit`, still to be applied | `Commit`, `CommitClash` |
| `committed` | `uow.commit`, applied | `Respond` |
| `ticket` | `get_by_ticket_id` | `ReadTicket` |
| `unregister` | `unregister` | `UnregisterReturn`, `UnregisterMissing`, `UnregisterFails` |
| `cancel_commit` | `set_cancelled` and `uow.commit` | `CommitCancel` |

`DatabaseFails` may end any database await; in `committed` it loses only the
confirmation. `Crash` kills all calls under way. `CleanKeys`, `EventSynced`,
`SeatsExpire` and `Provider` run at any time. The listing of seats is the same
path with another payload: `NotAvailable` and `UseSeats` say where it differs.
Two variables are history. `forgotten` holds the tickets whose key row the cleanup
deleted. `offered` holds the registrations whose event had a row that put their seat
on sale (`OnSale`: published, deadline ahead, seat in the venue), either when they
arrived or by a synchronisation before they looked the event up.

A stored event row has a seats pattern, `None` where the column is empty;
`EventRefused` asks `IsValidSeat` as the use case does.

**NoticePromise** is what the outbox promises per record, with no worker in it.
**OutboxWorker** is the worker: `loaded` is the session's copy of the batch
(loaded once, `expire_on_commit=False`), `flight` the requests Capashino has yet
to handle, `seen` the idempotency keys it knows. `Promise` instantiates
NoticePromise with the status column as refinement mapping; the other variable,
`notices`, has the same name on both sides.

**EventsSync** models runs of `sync_events`. An event's data are represented by
the `changed_at` they carry. Each run has a session record: the `sync_meta` row as
loaded, the events it has merged, the one not flushed (`dirty`) and the rows
it holds locks on. `Merge` is `session.merge()`, which compares with the committed
row; `Flush` writes, waits for other transactions' locks, and fails on a row
inserted meanwhile; `MetaWritten` is the UPDATE of the columns whose value the
session *changed*, as SQLAlchemy's unit of work computes it; `DeadlockDetected` is
PostgreSQL ending a circle of waits. The provider lists events by `changed_at`, and the
`next` link is a cursor into that order (the client's tests use such a link,
`tests/services/test_events_provider_client.py:72`). An instant is a position in that
order, so changes with equal `changed_at` are neighbours of one day. `EventChanges`
puts a change at the end of the order. `LateChange` puts one among the earlier changes
of the present day, behind a cursor that may have passed: the reason why a poll goes
back to the start of the cursor's day (`sync.py:38`). `late` and `behind` are history:
events whose last change was late, and those of them where it was late while a run was
reading pages. A page
may be empty although it has a link (`EmptyPage`): the paginator ends there.
`GET /api/sync/status` uses the same `get()` as the runs and so inserts the row of
an empty `sync_meta`, in a transaction that `get_db` rolls back; `reader` is where
that request is suspended, and a run that inserts the row meanwhile waits for it.

**Service** is the process: the calls of TicketUsecases (extended) and the worker
of OutboxWorker (instantiated, with a ticket's record named by the ticket) over one
database. A call's commit that adds an outbox record is the worker's `Add`; calls
arrive and run only while the process is up; a shutdown waits for the calls and
then cancels the worker; a crash ends all of them at once. **TicketLedger** is what
the whole promises, with no calls, caches, tables or workers: tickets sold once and
cancelled for good, a key that names one ticket until it is forgotten, clients told
only of sold tickets, buyers notified at most once. `Ledger` in Service is the
refinement mapping: a ticket's state, the key it was sold under, the ticket a key
row names, the tickets answered with 201, and `notices`.

**EventListing** is a client's walk over `GET /api/events`: `Count` and `Select` are the
two statements of a request, each with its own snapshot, `FollowNext` uses the link
`next`, and `SyncCommits` changes any rows between any two of these steps. `IsPage`
gives the pages that `ORDER BY event_time OFFSET .. LIMIT ..` may return: rows with
equal times in any order. `listed`, `atStart` and `disturbed` are history: what the walk
has shown, the table it began with, and what kinds of changes it has met.

Each component module holds, before the definition it varies, a few *variants*
(operators commented so): mistakes the code could plausibly contain. No
specification uses them; each is replaced for its original in turn to see that
the property it is paired with in `PROJECT.json` is then violated.

## 3. Runs

`tlc -config X.cfg M` in this directory.

| Run (cfg, module) | Instance | Distinct states | Shows |
|---|---|---|---|
| `tickets_keys`, MCTickets | 3 calls, one key, 2 payloads and cancellations, 2 seats | 1,161,000 | `TypeOK`, `RowsAllOrNothing`, `OneTicketPerKey`, `CreatedIsDurable`, `ConflictIsJustified`, `ErrorsTellStored`, `SeatsAccountedFor`, `KeyRowStable` |
| `tickets_sales`, MCTickets | 3 calls that buy, cancel or list; 1 seat | 80,000 | `RefusedBooksNothing`, `CancelledIsReleased`, `DriftHasCancel`, `LostSaleIsResale`, `TicketLifecycle` |
| `tickets_answers`, MCTickets | 2 calls of every kind, an event whose row changes, seats outside the venue | 209,000 | `SoldWhileOffered`, `EveryCallEnds` |
| `outbox`, MCOutbox | 3 records, batch 2, 2 attempts, 1 trouble | 74,500 | `TypeOK`, `SentIsNotified`, `FailedAtLimit`, `BatchIsFresh`, `SettledIsFinal`, and `SettlesEverything`: OutboxWorker implements NoticePromise with its liveness |
| `service`, MCService | 2 calls (a purchase, its retry under the key or its cancellation), 1 seat, batch 2, 2 attempts, 1 trouble | 190,600 | `KeepsLedger`: Service implements TicketLedger; `ToldIsAnnounced`, `SoldIsAnnounced` |
| `sync`, MCSync | loop and trigger, status requests, 2 events, page 1, day of 2 instants, times to 3, 1 trouble | 901,000 | `TypeOK`, `CursorCovers`, `StoredUpToCursor`, `NewEventCovered`, `LoneRunSucceeds`, `OutcomeRecorded`, `NeverGoesBack`, `CatchesUp` |
| `listing`, MCListing | 3 events, pages of 2, times to 4, `date_from` 2, 2 commits per walk | 730,000 | `TypeOK`, `NothingSkipped`, `NothingRepeated`, `ListedInOrder`, `NextPageHasResults` |

Runs that refute what the README of the repository says (section 5):
`tickets_confirmed`, `tickets_clash`, `outbox_shutdown`, `sync_race`,
`sync_status`.

*Bounds.* Three calls are the fewest that let two registrations race while a third call
(a retry, a cancellation, a listing) interferes. One event suffices: calls for different
events share only keys, and a second payload with the same key gives those clashes.
`tickets_keys` needs two seats so that two registrations under one key can both be sold;
in `tickets_sales` one seat makes every sale compete. Two attempts and batches of two
among three records let a record be retried, given up, and left out of a batch; records
`r1` and `r2` have the same `created_at`. In `sync` a page of one event forces paging,
and a day of two instants lets changes fall on the same day and on the next, and one
come late on the second day; a late change together with a failure needs two troubles
and is left to the proofs; `sync_race` needs a third day. `service` has a batch larger
than its records, since `outbox` looks at batches; what it adds is who writes the
records and who dies with whom. In `tickets_answers` the seat B7 lies just below a range
of the venue and A7 ends another, next to a chunk that is no range and one that
overlaps; a synchronisation may close or reopen the event at any moment. In `listing`
three events in pages of two have a second page, which any one event that leaves
empties; `date_from` is inside the range of times, so that events enter and leave the
list without being deleted; two commits let a walk meet two kinds of change, or one
between its two statements. The theorems of section 4 have none of these bounds.
`MaxTroubles` (crashes, shutdowns, failures of the database, in `sync` late changes as
well) and `MaxTime` keep these state spaces finite and let liveness be stated as "once
failures stop". In TicketUsecases nothing is bounded but the calls. Symmetry over calls
(and over events in the two sync refutations) is used where no liveness is checked, and
so over the three events of `listing`; `CHOOSE` is not used in any action. Deadlock is
checked in every run: cleanup, synchronisation, a waking loop or a new walk is always
possible, and a circle of row locks is resolved as the database does.

*Fairness.* `TicketUsecases!Fairness`: every await of a call ends. The provider
client uses httpx's default timeouts, so a provider await ends in an answer or
an `httpx.HTTPError`; a query ends in a result or an error. Nothing is assumed
of clients, the provider, the cleanup or the synchronisation. `OutboxWorker`:
the worker's awaits end for the same reasons, the loop wakes up, and a stopped
process is restarted; nothing is assumed of Capashino. `EventsSync`: the awaits of
the loop's runs and of status requests end, and the daily loop goes on; nothing is
assumed of triggered runs (one that never ends overlaps the loop's, and `CatchesUp`
exempts overlapping runs), nobody has to call the trigger or ask for the status, and
the provider may never change. The INSERT of row 1 of `sync_meta` has
strong fairness: it waits for the transactions that have inserted it, new ones may
insert it again and again, and PostgreSQL wakes a waiter when the one it waits for
ends. `Service`: the same assumptions for its calls and its worker, nothing for
clients, provider, Capashino and cleanup. EventListing has no liveness: nobody
promises that a client follows a link.

## 4. Proofs

`tlapm M.tla` proves, for every value of the constants that satisfies the
assumptions below (the column "Module" leaves out the ending `Proofs`):

| Module | Theorem | Statement |
|---|---|---|
| TicketUsecases | `TypeCorrect` | `Spec => []TypeOK` |
| TicketUsecases | `RegistrationIsAtomic` | `Spec => []RowsAllOrNothing` |
| TicketUsecases | `KeySellsOnce` | `Spec => []OneTicketPerKey` |
| TicketUsecases | `CreatedMeansStored` | `Spec => []CreatedIsDurable` |
| TicketUsecases | `ConflictMeansReuse` | `Spec => []ConflictIsJustified` |
| TicketUsecases | `ErrorsAreHonest` | `Spec => []ErrorsTellStored` |
| OutboxWorker | `TypeCorrect` | `Spec => []TypeOK` |
| OutboxWorker | `SentMeansNotified` | `Spec => []SentIsNotified` |
| OutboxWorker | `GivenUpAtLimit` | `Spec => []FailedAtLimit` |
| OutboxWorker | `BatchStaysFresh` | `Spec => []BatchIsFresh` |
| OutboxWorker | `SettledStaysSettled` | `Spec => SettledIsFinal` |
| OutboxWorker | `WorkerKeepsPromise` | `Spec => KeepsPromise`: the safety of NoticePromise |
| TicketProvider | `SoldWasOffered` | `Spec => []SoldWhileOffered` |
| TicketProvider | `RefusalsBookNothing` | `Spec => []RefusedBooksNothing` |
| TicketProvider | `CancellationsRelease` | `Spec => []CancelledIsReleased` |
| TicketProvider | `DriftIsExplained` | `Spec => []DriftHasCancel` |
| TicketProvider | `TicketsAreOnlyCancelled` | `Spec => TicketLifecycle` |
| TicketProvider | `KeyRowsAreKept` | `Spec => KeyRowStable` |
| SharedSeats | `SoldSeatsAreExplained` | `Spec => []SeatsAccountedFor` |
| SharedSeats | `SharedListsLoseResalesOnly` | `Spec => []LostSaleIsResale` |
| SeatsPattern | `PatternIsVenue` | `IsValidSeat` is membership in `VenuePlaces` |
| Service | `CallsAsAlone` | `ServiceSpec => Spec` of TicketUsecases |
| Service | `WorkerAsAlone` | `ServiceSpec => Worker!Spec` |
| Service | `OneNotice` | `ServiceSpec => []OneNoticePerKey` |
| Service | `ToldAreAnnounced` | `ServiceSpec => []ToldIsAnnounced` |
| Service | `ServiceKeepsLedger` | `ServiceSpec => KeepsLedger`: TicketLedger |
| EventsSync | `TypeCorrect` | `Spec => []TypeOK` |
| EventsSync | `NewEventsAreListed` | `Spec => []NewEventCovered` |
| EventsSync | `CursorNeverAhead` | `Spec => []CursorCovers` |
| EventsSync | `CursorMeansStored` | `Spec => []StoredUpToCursor` |
| EventsSync | `OutcomesAreRecorded` | `Spec => OutcomeRecorded` |
| EventsSync | `NothingGoesBack` | `Spec => NeverGoesBack` |
| EventsSync | `LoneRunsSucceed` | `Spec => LoneRunSucceeds` |
| EventsSync | `LoopCursorCovers` | with the loop as the only run, `Spec => []CursorAlwaysCovers` |
| EventsSync | `LoopShowsOk` | with the loop as the only run, `Spec => SuccessShowsOk` |
| EventListing | `TypeCorrect` | `Spec => []TypeOK` |
| EventListing | `NextLeadsToResults` | `Spec => []NextPageHasResults` |
| EventListing | `NoRepetition` | `Spec => []NothingRepeated` |
| EventListing | `NoOmission` | `Spec => []NothingSkipped` |
| EventListing | `PagesInOrder` | `Spec => []ListedInOrder` |

Assumptions. Tickets: `Requests` and `EventRows` are sets of payloads and rows, and
`None` is none of the values it stands beside; no set need be finite. Outbox:
`BatchSize` and `MaxAttempts` are positive, `MaxTroubles` is a natural number, and
`None` is no record, row or reply. Service: both, and finitely many calls. EventsSync
and EventListing: finitely many events, positive page size (and length of a day, and
`date_from`), natural bounds, `None` none of the values it stands beside. That
Capashino creates one notification per idempotency key and answers 409 to a repeated
one is part of its model (`Notify`), as `README.md:219-220` says and the client takes
for granted.

*Types.* `TypeOK` is not inductive: `op[c].seat` has a type only if `op[c]` is a
registration, which depends on where the call is. `TypeInv` adds `Phase(c)`, which
says for every await what payload and locals a call suspended in it has, and
`WirePhase(c)`, the same for the stage of its request (which outlives the call's
interest in it). Each step is covered by one lemma per group of actions.

*Keys.* `KeyInv` strengthens the four key properties with `StoredByCreate` (a
stored ticket belongs to a registration past its commit) and `KeyNamesTicket`:
the key row of a stored ticket names that ticket, or the cleanup has forgotten
it. `OneTicketPerKey` follows, since one row cannot name two tickets. The steps that
leave rows and answers 201 and 409 alone are dealt with by `KeyQuiet`; what
remains is the look-up, the commit, the answer, arrival and the cleanup.

*Errors.* `ErrorsTellStored` is inductive with `TypeInv` and `KeyInv`: that a call
which fails has no ticket is `StoredByCreate`, as only `DatabaseFails` and `Crash`
end a call past its commit, and that a clash has a winner (`ClashHasWinner`) is
`RowsAllOrNothing`, since the row in the way names a stored ticket of the same key.
`ErrorsQuiet` deals with all steps that give no answer or another one.

*Outbox.* None of the outbox properties is inductive. An attempt count stays within
the limit only because the worker counts up a copy that equals a *pending* row
(`BatchIsFresh`, `CurrentInv`), and a pending row has not reached the limit
(`FailedAtLimit`). `CommitInv` carries that across the await of the commit: what is
about to be written is one step from the row it replaces. A row marked sent was
notified because a reply is only received after Capashino has seen the record's
key (`CapashinoInv`), and `seen` only grows; that a record keeps its own id as key
over all attempts makes "seen" and "notified once" the same. `WorkerKeepsPromise`
rests on this invariant: `Add` maps to `Write`, `Commit` to `Settle` or, if the
record stays pending, to a stutter, `Notify` to `Notify` or, for a key already
seen, to a stutter; every other step is invisible.

*The provider.* `CallInv` ties a call to its request: which stages of the wire are
possible in which await (`WireAt`), that a refused registration has no request out
(`RefusedAt`), and that a registration past the event check is in `offered`
(`CheckedAt`). The last rests on `OfferInv`: a call that is still to be checked, and
whose seat the present row puts on sale, is in `offered`; so a check that passes has a
row that offered the seat (`PatternIsVenue` turns what the code computes into what a
venue is). `SoldWhileOffered` follows, as the provider gives a seat only to a request.
`HoldInv` ties bookings to the tables: a seat is held only by a ticket whose
registration was confirmed, a confirmed ticket holds its seat until some call's
cancellation is confirmed, a released ticket holds nothing, and a ticket cancelled here
was released there. That a cancelled ticket stays released is not inductive: it needs
that the provider sees no second request to register it, and indeed the request of a
stored ticket was confirmed (`StoredIsConfirmed`) and its call sends no other
(`WireAt`).

*Seats and lists.* `SeatsAccountedFor` follows from `HoldInv` and what `Settled` says
of calls that have ended: if the provider was asked to register the ticket and did
not refuse it, the call stored it or answered with a failure. `LostSaleIsResale` is about
objects: `ListInv` says that a list was parsed by a call for the same event
(`MadeFor`, for the list a call holds and for the one in the store), and that the
seat of a call in `register` is still in its list or has been confirmed to another
call (`SoldToAnother`), because only `UseSeats` lets a call begin to register, and only
a confirmed sale removes a seat. A ValueError thus has two confirmed registrations
of one seat, and the provider gives a seat twice only if the ticket that had it was
released: that ticket is stored, and `HoldInv` names the call that cancelled it.

*The service.* `CallsAsAlone` and `WorkerAsAlone` say that a step of Service is a step
of each part or invisible to it. So all invariants above hold of Service, and one
more relates the parts: `OutboxAgrees`, the worker has a row for exactly the records
that registrations have written. `OneNotice` follows (a notified ticket has a row, so
it is stored, and `OneTicketPerKey` speaks of stored tickets), and so does
`ToldAreAnnounced`, from what 201 means (`CreatedIsDurable`) to what the worker's
invariant says of the row. The theorems on errors, seats and lists carry over by
`CallsAsAlone` and are not repeated. `ServiceKeepsLedger`
maps `Commit` to `Sell` (whose precondition, the key names nothing, is the primary key
that `Commit` checks), `CommitCancel` to `Cancel`, an answer 201 to `Tell` (by
`CreatedIsDurable`), `CleanKeys` to `Forget`, and Capashino's first acceptance of a
record to `Notify`; all else is invisible, a crash included.

*Synchronisation.* What is said of one run is said of a position `p` and a session `s`,
so that a run that does not move keeps it. `Phase` is what a suspended run holds;
`Known` that nothing is newer than the provider; `Reached` that an event of the provider
is stored, written by the session, in its buffer, or *ahead* of it: no earlier than the
day of the cursor it would write, the buffer, and the next page. That a page and its
link divide the events in this way is the lemma `PageCovers`, by counting the events
changed before one (`Rank`). `Reached` survives any overlap because rows of stored
events never become empty. It gives `NewEventCovered`. For a run that is alone
(`SoloInv`), `Current` sharpens it from *some* data to the *present* data: what the
table will have of an event after the commit (`Final`) is what the provider has, or the
event's present data are pending or ahead, and the row of `sync_meta` is the one the
session loaded. `AllStored` says it of the table: what is not stored is no earlier than
the *day* of the cursor, unless it is `behind`, and no earlier than its *time* unless it
came `late`; `CursorCovers` and `StoredUpToCursor` are the two halves. The halves differ
by late changes only: one that is made while no run reads falls in the present day, and
no cursor is in a later one (`DaysAreOrdered`). The action properties follow from
`SoloInv`, since then `MetaWritten` does write what it is given, and there is no row to
clash over or to wait for. For `OutcomeRecorded` a failure has to be followed to the
end: only its recording, or another trouble, takes a run from `mark_commit` to `idle`
(`MarkedByMarking`), and a run that is alone records it (`SoloMarks`). The two theorems
about the loop are the counterpart of the findings `sync_race` and `sync_status`: both
need the manual trigger, as the loop never overlaps itself (`LoopAlone`), in spite of
crashes and failures.

*Listing.* The rank of an event is the number of events listed before it, and page
`p` shows the ranks from `(p - 1) * PageSize` on (`RowRank`), which ties would blur
(`TieInv`). While nothing is inserted or moved, ranks only fall, so an event shown
has a rank below all later pages (`OnceInv`); while events are only inserted or moved
forward, ranks only rise, so an event not shown yet is behind the pages received
(`SkipInv`) and `has_next` ends the walk only where there is no such rank. For the
order (`OrderInv`) ties need no exception: of the matching events shown, none has a
rank beyond the pages received, and an event ranked up to a position is not later than
one that a page may show behind that position (`RankOrders`).

*Only model-checked*: liveness (`EveryCallEnds`, `SoldIsAnnounced`, the eventual
settling in `SettlesEverything`, `CatchesUp`), as fairness and ENABLED are beyond the
prover. Every safety property of the runs that pass is also a theorem.

## 5. Where code and documentation differ

* **A confirmed sale ends in 500** (`tickets_confirmed`). Two calls hold the same
  list object; both find the seat, the provider confirms both (the seat was
  cancelled in between), and the second `available_seats.remove`
  (`ticket_usecases.py:170`) raises ValueError: nothing is stored, the provider
  keeps the booking. `README.md:180` promises a stored ticket and 201 to the first
  request under a key, and the run shows it for such a request.
* **A race on one key ends in 500** (`tickets_clash`). Both calls find the key free,
  both register, the later commit violates the primary key
  (`ticket_usecases.py:184`). `README.md:181-182` promises 201 with the same
  ticket, or 409, and no second call of the provider.
* **Shutdown does not wait for the iteration** (`outbox_shutdown`). `main.py:98-103`
  cancels the task wherever it is. `README.md:72` says otherwise. Harmless for
  delivery, as `SentIsNotified` shows.
* **Overlapping synchronisations lose an update** (`sync_race`). A triggered run
  fetched a page with the old data of event *a*; the loop's run stores the new data
  of *a*, and an event of the next day, and moves the cursor to that day; the
  triggered run then merges its old data and commits. Its own cursor did not
  change, so it is not written. The row of *a* is stale and the next poll starts
  after it. It takes a run across midnight, and a row that is changed twice.
* **A successful run can leave `failed`** (`sync_status`): the session that loaded `ok`
  sees no change in assigning `ok`, and does not overwrite the failure another
  run recorded meanwhile. `README.md:65` says `ok` after a run that ended well.

Seen while modelling, with no run: `POST /api/tickets` and `DELETE` answer 503
when the provider is out of reach (`api/tickets.py:58-62, 89-93`) and 400 for an
invalid body (`main.py:113-118`), where the table in `README.md:130-140` lists 409
and 422.

Also seen, and within what the properties allow:

* The order of the listing has no tie-break (`repositories/event.py:24`): events
  with one `event_time` may come in another order on the next page, and be shown
  twice or not at all. `NothingRepeated` and `NothingSkipped` exclude ties by name.
* The total and the page come from two statements. A commit between them makes
  `has_next` speak of another table than the page: the walk may end one page early.
  Likewise an event that leaves the list, or moves to a later time, shifts others.
* A ticket cancelled before the worker comes to its record is announced all the
  same; the ledger allows it, as nothing in the repository says otherwise.

## 6. Abstractions to know of

* A read from the database and the code after it are one step; the read is
  atomic with the decision it feeds, so the window between a query's snapshot and the
  return of its await is not modelled. The windows that matter here (look-up
  to commit, event check to provider call) span other awaits and are.
* `set_cancelled` and `commit` of a cancellation are one step: the UPDATE is
  invisible until the commit.
* A commit sent by a process that dies is applied before the crash or never.
* Ages are abstracted: any key may be old enough for the cleanup, any cache
  entry for expiry, any event's deadline may pass.
* One process. The cache is per process, and so is what is said of it.
* In EventsSync the columns of an event are one value; writing some columns of a
  row loaded in one version and merged to another is writing the new version.
* An event that cannot be parsed is a failure of the run (bounded by
  `MaxTroubles`), not a property of the feed: one that stays malformed would stop
  every run.
* In EventsSync a change becomes visible at once or within its day: `LateChange` stays in
  the present day. One that becomes visible on a later day than its own would be
  missed by any cursor cut to the day. One that does so while a run is reading pages,
  behind the page it is at, can be missed if that run goes on past midnight and finds
  an event of the next day; such events are `behind`, and the properties of the cursor
  exempt them by name.
* An iteration of the worker may end at a query, a commit or a delivery with an
  exception other than `httpx.HTTPError`, which counts no attempt (`IterationFails`). It
  is a trouble, so bounded in liveness: a record whose delivery raises every time
  starves all later ones in the code, and `SettlesEverything` does not speak of it.
* The regular expressions of the seats pattern are abstracted to what they yield: a
  section and numbers, or no match. That one place has several spellings is kept;
  the provider may treat them as different seats.
* In EventListing one client walks at a time, as walks share nothing but the table.
  The link `previous`, which only steps back, is left out, and so are `page_size`
  changes between requests.
* In EventsSync one status request is under way at a time, and pages that are empty in
  spite of a link are bounded by `MaxTroubles`.
* In Service the records have no order among them (`NoOrder`): a batch may take any,
  which covers every order `created_at` could give.

## 7. Not modelled

* *Metrics and middleware* (`metrics.py`, `middleware.py`): counters that no code
  reads back.
* *One event by id* (`GET /api/events/{id}`): a single SELECT by primary key.
* *Schema migrations*: run once by Alembic, offline, with no counterpart to
  interleave with.
* *Deployment and configuration*: no program logic.
* *The connection pool* (`database.py`): waiting for a connection ends in an error
  after 30 seconds, and that is `DBAPIError`; the number of connections itself is
  not a variable, since requests hold theirs over provider calls of any length and
  every await of the database may fail anyway.
* *The clock of the seats cache*: an entry may expire between any two steps. A bound
  on the age of a list would be lost the moment `set()` restarts the ttl of an old
  one (`ticket_usecases.py:171`), so nothing that holds would be added.
* *The health check, Sentry and logging.*

## 8. How the development was ordered

The core first (tickets with cache and provider), then the worker and its promise,
the synchronisation, and the proofs of types and keys; then the seats pattern, the
listing, the status request, the composition in Service with its ledger, and the
proofs about provider, service, listing and synchronisation. What could follow:

1. `last_sync_time` as an observable of the status request, and `previous` links with a
   client that turns back.
2. Several processes on one database: the caches would differ, and two workers could
   deliver one record, which the code does not exclude (`FOR UPDATE` is not used).
