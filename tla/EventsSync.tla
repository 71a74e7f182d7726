------------------------------ MODULE EventsSync ------------------------------
(***************************************************************************)
(* src/services/sync.py with its paginator and repositories: runs that     *)
(* copy the provider's events into the table events, following the cursor  *)
(* last_changed_at of the table sync_meta.  The loop of src/main.py makes  *)
(* one run a day, POST /api/sync/trigger makes one at any moment; nothing  *)
(* keeps two of them apart.                                                *)
(*                                                                         *)
(* An event's data are represented by the changed_at they carry, 0 for no  *)
(* event.  A run works in one transaction at READ COMMITTED: its reads see *)
(* what others committed, its writes lock their rows, and SQLAlchemy       *)
(* writes a column only if its value differs from the one it loaded.       *)
(*                                                                         *)
(* The provider is external.  It lists events in the order of changed_at,  *)
(* and the link to the next page is a cursor into that order.  An instant  *)
(* is a position in that order: changes of the same changed_at are         *)
(* neighbours of one day.  Mostly a change is the last of the order; one   *)
(* that becomes visible late goes in among the changes of the present day. *)
(***************************************************************************)
EXTENDS Integers, Sequences, FiniteSets

CONSTANTS
    Events,
    Runs,           \* sync_loop and the calls of trigger_sync
    Loop,           \* the run that sync_loop makes again and again
    PageSize,       \* events on a page of the provider
    DayLength,      \* instants in a day
    MaxTime,        \* bound: the last instant
    MaxTroubles,    \* bound: failures, crashes and late changes
    None

ASSUME EventsFinite == IsFiniteSet(Events)
ASSUME LoopIsRun == Loop \in Runs
ASSUME SizesPositive == PageSize \in Nat \ {0} /\ DayLength \in Nat \ {0}
ASSUME BoundsNat == MaxTime \in Nat /\ MaxTroubles \in Nat

VARIABLES
    feed,       \* the provider: event -> changed_at
    now,        \* the provider's clock
    late,       \* history: events whose last change became visible late
    behind,     \* history: those of them that did so while a run was reading
    rows,       \* table events: event -> changed_at of the data stored
    meta,       \* table sync_meta: its one row, or None
    pc,         \* run -> the await it is suspended in
    run,        \* run -> its session and local variables
    reader,     \* where a request for the sync status is suspended
    overlapped, \* history: two runs have been under way together
    troubles    \* how often a query, a request or the process failed, or a
                \* change came late

provider == <<feed, now, late, behind>>
tables == <<rows, meta>>
vars == <<provider, tables, pc, run, reader, overlapped, troubles>>

Time == 0 .. MaxTime
SyncStatus == {"never_run", "ok", "failed"}
SyncMeta == [last_changed_at : Time, sync_status : SyncStatus]
NewMeta == [last_changed_at |-> 0, sync_status |-> "never_run"]

Working == {"meta", "insert", "page", "merge", "commit", "committed"}
Marking == {"mark", "mark_insert", "mark_commit"}

\* loaded     the session's copy of sync_meta as the database gave it
\* inserted   the session has inserted it, and not committed
\* latest     latest_changed_at
\* next       the changed_at the next page starts from, None after the last
\* buffer     the events of the page that are still to be merged
\* session    the session's copies of events, 0 for none
\* dirty      the event merged and not flushed, and whether it is new
\* locked     the events whose rows the transaction has written
Session ==
    [loaded : SyncMeta \cup {None}, inserted : BOOLEAN, latest : Time,
     next : 0 .. MaxTime + 1 \cup {None}, buffer : Seq(Events \X Time),
     session : [Events -> Time], locked : SUBSET Events,
     dirty : [event : Events, new : BOOLEAN] \cup {None}]

ASSUME NoneIsNoValue ==
    None \notin SyncMeta \cup (0 .. MaxTime + 1) \cup [event : Events, new : BOOLEAN]

NoSession ==
    [loaded |-> None, inserted |-> FALSE, latest |-> 0, next |-> None,
     buffer |-> <<>>, session |-> [e \in Events |-> 0], locked |-> {},
     dirty |-> None]

TypeOK ==
    /\ feed \in [Events -> Time]
    /\ now \in Time
    /\ late \in SUBSET Events /\ behind \in SUBSET late
    /\ rows \in [Events -> Time]
    /\ meta \in SyncMeta \cup {None}
    /\ pc \in [Runs -> Working \cup Marking \cup {"idle"}]
    /\ run \in [Runs -> Session]
    /\ reader \in {"idle", "insert", "inserted"}
    /\ overlapped \in BOOLEAN
    /\ troubles \in 0 .. MaxTroubles

Init ==
    /\ feed = [e \in Events |-> 0]
    /\ now = 0
    /\ late = {} /\ behind = {}
    /\ rows = [e \in Events |-> 0]
    /\ meta = None
    /\ pc = [r \in Runs |-> "idle"]
    /\ run = [r \in Runs |-> NoSession]
    /\ reader = "idle"
    /\ overlapped = FALSE
    /\ troubles = 0

-----------------------------------------------------------------------------
Goto(r, p) == pc' = [pc EXCEPT ![r] = p]
CloseSession(r) == run' = [run EXCEPT ![r] = NoSession]

\* sync_events catches the exception: rollback, and a second session.
Fail(r) == Goto(r, "mark") /\ CloseSession(r)

\* Variant: the time of the cursor, not cut to its day.
DayStartExact(t) == t

\* Variant: the 24 hours up to the cursor instead of its day.
DayStartRolling(t) == t - DayLength

\* last_changed_at.date().isoformat()
DayStart(t) == t - (t % DayLength)

Trouble == troubles < MaxTroubles /\ troubles' = troubles + 1

Begin(r) ==
    /\ pc[r] = "idle"
    /\ Goto(r, "meta")
    /\ overlapped' = (overlapped \/ \E q \in Runs : pc[q] # "idle")
    /\ UNCHANGED <<provider, tables, run, reader, troubles>>

\* The row is known to the session: _run_sync goes on to the first page,
\* _mark_sync_failed to its commit.
MetaLoaded(r, row, inserted) ==
    LET marking == pc[r] \in Marking IN
    /\ Goto(r, IF marking THEN "mark_commit" ELSE "page")
    /\ run' = [run EXCEPT ![r] =
                 [@ EXCEPT !.loaded = row, !.inserted = inserted,
                           !.latest = row.last_changed_at,
                           !.next = IF marking THEN None
                                    ELSE DayStart(row.last_changed_at)]]

GetMeta(r) ==
    /\ pc[r] \in {"meta", "mark"}
    /\ IF meta # None THEN MetaLoaded(r, meta, FALSE)
       ELSE /\ Goto(r, IF pc[r] = "meta" THEN "insert" ELSE "mark_insert")
            /\ UNCHANGED run
    /\ UNCHANGED <<provider, tables, reader, overlapped, troubles>>

\* The INSERT of row 1 waits for that of another transaction, and clashes
\* with it if the other one commits.
InsertMeta(r) ==
    /\ pc[r] \in {"insert", "mark_insert"}
    /\ reader # "inserted" /\ \A q \in Runs \ {r} : ~ run[q].inserted
    /\ \/ meta = None /\ MetaLoaded(r, NewMeta, TRUE)
       \/ meta # None /\ pc[r] = "insert" /\ Fail(r)
       \/ meta # None /\ pc[r] = "mark_insert" /\ Goto(r, "idle") /\ CloseSession(r)
    /\ UNCHANGED <<provider, tables, reader, overlapped, troubles>>

-----------------------------------------------------------------------------
(* GET /api/sync/status uses the same get(), in the transaction of the      *)
(* request, which nobody commits.  One such request at a time is modelled.  *)
(* With a row in the table it only reads.                                   *)

statusUnchanged == <<provider, rows, pc, run, overlapped>>

StatusAsked ==
    /\ reader = "idle" /\ meta = None
    /\ reader' = "insert"
    /\ UNCHANGED <<statusUnchanged, meta, troubles>>

\* The INSERT, or 500 for a primary key taken meanwhile.
StatusInserts ==
    /\ reader = "insert"
    /\ \A q \in Runs : ~ run[q].inserted
    /\ reader' = IF meta = None THEN "inserted" ELSE "idle"
    /\ UNCHANGED <<statusUnchanged, meta, troubles>>

\* Variant: get_db commits what the request has done.
StatusCommitted ==
    /\ reader = "inserted"
    /\ reader' = "idle"
    /\ meta' = NewMeta
    /\ UNCHANGED <<statusUnchanged, troubles>>

\* The answer is on its way and get_db closes the session: a rollback.
StatusAnswered ==
    /\ reader = "inserted"
    /\ reader' = "idle"
    /\ UNCHANGED <<statusUnchanged, meta, troubles>>

StatusRead == StatusAsked \/ StatusInserts \/ StatusAnswered

-----------------------------------------------------------------------------
(* The provider's pages.                                                   *)

Matching(t) == {e \in Events : feed[e] # 0 /\ feed[e] >= t}

\* One page of the events changed at t or later.
IsPage(page, t) ==
    /\ Len(page) \in {PageSize, Cardinality(Matching(t))}
    /\ \A i \in 1 .. Len(page) :
          /\ page[i][1] \in Matching(t)
          /\ page[i][2] = feed[page[i][1]]
          /\ Cardinality({e \in Matching(t) : feed[e] < page[i][2]}) = i - 1

Pages(t) ==
    {page \in UNION {[1 .. n -> Events \X Time] : n \in 0 .. PageSize} :
        IsPage(page, t)}

\* Variant: only the first page is read.
PageAfterNone(page, t) == None

\* The link to the next page, None on the last one.
PageAfter(page, t) ==
    IF Len(page) < Cardinality(Matching(t)) THEN page[Len(page)][2] + 1
    ELSE None

\* Where the paginator goes once its buffer is empty.
Continue(next) == IF next = None THEN "commit" ELSE "page"

GetPage(r) ==
    /\ pc[r] = "page"
    /\ \E page \in Pages(run[r].next) :
          LET next == PageAfter(page, run[r].next) IN
          /\ Goto(r, IF page = <<>> THEN "commit" ELSE "merge")
          /\ run' = [run EXCEPT ![r] = [@ EXCEPT !.buffer = page, !.next = next]]
    /\ UNCHANGED <<provider, tables, reader, overlapped, troubles>>

\* A page without results ends the paging, whatever its link says.
EmptyPage(r) ==
    /\ Trouble
    /\ pc[r] = "page"
    /\ Goto(r, "commit")
    /\ UNCHANGED <<provider, tables, run, reader, overlapped>>

-----------------------------------------------------------------------------
(* The transaction.                                                        *)

\* session.merge(): the row is selected unless the session has it already.
\* What differs from it is written by the next flush.
Merge(r) ==
    /\ pc[r] = "merge"
    /\ run[r].dirty = None
    /\ LET s == run[r]
           e == Head(s.buffer)[1]
           v == Head(s.buffer)[2]
           rest == Tail(s.buffer)
           copy == IF s.session[e] # 0 THEN s.session[e] ELSE rows[e]
       IN /\ run' = [run EXCEPT ![r] =
                       [s EXCEPT !.buffer = rest,
                                 !.session[e] = v,
                                 !.latest = IF v > s.latest THEN v ELSE s.latest,
                                 !.dirty = IF copy = v THEN None
                                           ELSE [event |-> e, new |-> copy = 0]]]
          /\ Goto(r, IF rest = <<>> THEN Continue(s.next) ELSE "merge")
    /\ UNCHANGED <<provider, tables, reader, overlapped, troubles>>

\* Run q has written the row that r is about to write.
WaitsFor(r, q) ==
    /\ q # r
    /\ run[r].dirty # None
    /\ run[r].dirty.event \in run[q].locked

\* autoflush before the next merge, or the flush of commit(): INSERT or
\* UPDATE, which waits while another transaction has written the row.  An
\* INSERT clashes with a row committed in the meantime.
Flush(r) ==
    /\ pc[r] \in {"merge", "commit"}
    /\ run[r].dirty # None
    /\ LET e == run[r].dirty.event IN
          /\ \A q \in Runs : ~ WaitsFor(r, q)
          /\ \/ /\ run[r].dirty.new /\ rows[e] # 0
                /\ Fail(r)
             \/ /\ run[r].dirty.new => rows[e] = 0
                /\ run' = [run EXCEPT ![r] =
                             [@ EXCEPT !.dirty = None,
                                       !.locked = run[r].locked \cup {e}]]
                /\ UNCHANGED pc
    /\ UNCHANGED <<provider, tables, reader, overlapped, troubles>>

\* Runs that wait for one another: the database ends one of them.
DeadlockDetected(r) ==
    /\ pc[r] \in {"merge", "commit"}
    /\ \E circle \in SUBSET Runs :
          /\ r \in circle
          /\ \A p \in circle : \E q \in circle : WaitsFor(p, q)
    /\ Fail(r)
    /\ UNCHANGED <<provider, tables, reader, overlapped, troubles>>

RowsWritten(r) ==
    rows' = [e \in Events |-> IF e \in run[r].locked THEN run[r].session[e]
                              ELSE rows[e]]

\* UPDATE sync_meta SET the columns whose value was changed in the session;
\* the others keep what the table has.
MetaWritten(r, last_changed_at, sync_status) ==
    LET loaded == run[r].loaded
        row == IF meta = None THEN loaded ELSE meta
    IN meta' = [last_changed_at |->
                    IF last_changed_at # loaded.last_changed_at
                    THEN last_changed_at ELSE row.last_changed_at,
                sync_status |->
                    IF sync_status # loaded.sync_status
                    THEN sync_status ELSE row.sync_status]

\* Variant: the cursor is the time of the run, not of what it read.
CommitStampsNow(r) ==
    /\ pc[r] = "commit" /\ run[r].dirty = None
    /\ RowsWritten(r)
    /\ MetaWritten(r, now, "ok")
    /\ Goto(r, "committed") /\ CloseSession(r)
    /\ UNCHANGED <<provider, reader, overlapped, troubles>>

\* Variant: sync_status is set when the first run ends, and by failures.
CommitKeepsStatus(r) ==
    /\ pc[r] = "commit" /\ run[r].dirty = None
    /\ RowsWritten(r)
    /\ MetaWritten(r, run[r].latest,
                   IF run[r].loaded.sync_status = "never_run" THEN "ok"
                   ELSE run[r].loaded.sync_status)
    /\ Goto(r, "committed") /\ CloseSession(r)
    /\ UNCHANGED <<provider, reader, overlapped, troubles>>

\* The events, the cursor and the status become visible together.
Commit(r) ==
    /\ pc[r] = "commit" /\ run[r].dirty = None
    /\ RowsWritten(r)
    /\ MetaWritten(r, run[r].latest, "ok")
    /\ Goto(r, "committed") /\ CloseSession(r)
    /\ UNCHANGED <<provider, reader, overlapped, troubles>>

End(r) ==
    /\ pc[r] = "committed"
    /\ Goto(r, "idle")
    /\ UNCHANGED <<provider, tables, run, reader, overlapped, troubles>>

\* Variant: the failure is recorded in a new row in place of the old one.
MarkFailedAfresh(r) ==
    /\ pc[r] = "mark_commit"
    /\ meta' = [NewMeta EXCEPT !.sync_status = "failed"]
    /\ Goto(r, "idle") /\ CloseSession(r)
    /\ UNCHANGED <<provider, rows, reader, overlapped, troubles>>

\* Variant: the failure is recorded only if no run has ended well yet.
MarkFailedUnlessOk(r) ==
    /\ pc[r] = "mark_commit"
    /\ MetaWritten(r, run[r].loaded.last_changed_at,
                   IF run[r].loaded.sync_status = "ok" THEN "ok" ELSE "failed")
    /\ Goto(r, "idle") /\ CloseSession(r)
    /\ UNCHANGED <<provider, rows, reader, overlapped, troubles>>

MarkFailed(r) ==
    /\ pc[r] = "mark_commit"
    /\ MetaWritten(r, run[r].loaded.last_changed_at, "failed")
    /\ Goto(r, "idle") /\ CloseSession(r)
    /\ UNCHANGED <<provider, rows, reader, overlapped, troubles>>

-----------------------------------------------------------------------------
(* The surroundings.                                                       *)

\* A request or a query fails, or an event cannot be parsed.
RunFails(r) ==
    /\ Trouble
    /\ \/ pc[r] \in Working /\ Fail(r)
       \/ pc[r] \in Marking /\ Goto(r, "idle") /\ CloseSession(r)
    /\ UNCHANGED <<provider, tables, reader, overlapped>>

StatusFails ==
    /\ Trouble
    /\ reader # "idle"
    /\ reader' = "idle"
    /\ UNCHANGED <<statusUnchanged, meta>>

\* The process dies or is shut down.  CancelledError is no Exception: the
\* runs end without marking anything.
Crash ==
    /\ Trouble
    /\ reader # "idle" \/ \E r \in Runs : pc[r] # "idle"
    /\ pc' = [r \in Runs |-> "idle"]
    /\ run' = [r \in Runs |-> NoSession]
    /\ reader' = "idle"
    /\ UNCHANGED <<provider, tables, overlapped>>

EventChanges(e) ==
    /\ now' \in now + 1 .. MaxTime
    /\ feed' = [feed EXCEPT ![e] = now']
    /\ late' = late \ {e} /\ behind' = behind \ {e}
    /\ UNCHANGED <<tables, pc, run, reader, overlapped, troubles>>

Reading == \E r \in Runs : pc[r] \in {"page", "merge", "commit"}

SameDay(t, u) == t \div DayLength = u \div DayLength

\* The provider lists a change of the day only after later ones.
LateChange(e) ==
    /\ Trouble
    /\ \E t \in feed[e] + 1 .. now :
          /\ SameDay(t, now)
          /\ \A f \in Events : feed[f] # t
          /\ feed' = [feed EXCEPT ![e] = t]
    /\ late' = late \cup {e}
    /\ behind' = IF Reading THEN behind \cup {e} ELSE behind \ {e}
    /\ UNCHANGED <<now, tables, pc, run, reader, overlapped>>

Step(r) ==
    \/ GetMeta(r) \/ InsertMeta(r) \/ GetPage(r) \/ Merge(r) \/ Flush(r)
    \/ DeadlockDetected(r) \/ Commit(r) \/ End(r) \/ MarkFailed(r)

Next ==
    \/ \E r \in Runs : Begin(r) \/ Step(r) \/ RunFails(r)
    \/ \E r \in Runs : EmptyPage(r)
    \/ StatusRead \/ StatusFails
    \/ Crash
    \/ \E e \in Events : EventChanges(e) \/ LateChange(e)

\* The awaits of the loop end, and it wakes up every day.  Nobody has to call
\* trigger, or ask for the status.  A waiting INSERT is woken when the
\* transaction it waits for ends, and is not overtaken by later requests for
\* ever.
Fairness ==
    /\ WF_vars(Step(Loop)) /\ SF_vars(InsertMeta(Loop))
    /\ WF_vars(Begin(Loop))
    /\ WF_vars(StatusInserts \/ StatusAnswered)

Spec == Init /\ [][Next]_vars
FairSpec == Spec /\ Fairness

-----------------------------------------------------------------------------
(* Correctness.                                                            *)

Cursor == IF meta = None THEN 0 ELSE meta.last_changed_at

\* The next poll will list the event again.
Covered(e) == feed[e] >= DayStart(Cursor)

\* While no two runs overlap, an event that the table does not have as it is now
\* is listed by the next poll, be it that it changed while pages were read, that
\* a run failed or was cut short, or that its change became visible after later
\* ones: the poll goes back to the start of the cursor's day.  A run that goes on
\* past midnight may pass over what becomes visible behind the page it reads.
CursorCovers ==
    overlapped \/ \A e \in Events \ behind : rows[e] # feed[e] => Covered(e)

\* Even overlapping runs do not hide an event from the table: one that was
\* never stored is listed by the next poll.
NewEventCovered ==
    \A e \in Events \ behind : rows[e] = 0 /\ feed[e] # 0 => Covered(e)

\* The cursor means what GET /api/sync/status shows it for: while no two runs
\* overlap, all that changed before it is stored as the provider has it, but for
\* changes that were not yet visible.  Not even an event that changes while its
\* page is read is lost behind it.
StoredUpToCursor ==
    overlapped \/ \A e \in Events \ late : rows[e] # feed[e] => feed[e] >= Cursor

\* The run fails, or cannot record that it has failed.
GivesUp(r) ==
    \/ pc[r] \in Working /\ pc'[r] = "mark"
    \/ pc[r] \in Marking \ {"mark_commit"} /\ pc'[r] = "idle"

\* A run that no other overlaps fails only if a query, a request or the process
\* does: it never clashes over a row, be it with the row that a request for the
\* status inserts and takes back, and is never the victim of a deadlock.
LoneRunSucceeds ==
    [][\A r \in Runs : GivesUp(r) => overlapped \/ troubles' # troubles]_vars

\* README, sync_status: "ok" when the last run ended well, "failed" when it
\* failed.  Holds for runs that do not overlap, after a failed, interrupted or
\* unmarked one too, unless the failure cannot be recorded.
OutcomeRecorded ==
    [][\A r \in Runs :
          /\ pc[r] = "commit" /\ pc'[r] = "committed"
                => overlapped \/ meta'.sync_status = "ok"
          /\ pc[r] = "mark_commit" /\ pc'[r] = "idle"
                => \/ overlapped \/ troubles' # troubles
                   \/ meta'.sync_status = "failed"]_vars

\* Without overlapping runs, neither the data of an event nor the cursor goes
\* back to an older state.
NeverGoesBack ==
    [][overlapped' \/ /\ \A e \in Events : rows'[e] >= rows[e]
                      /\ Cursor' >= Cursor]_vars

\* Once the provider's events stop changing, and failures stop, the daily
\* runs bring the table to the provider's state.
CatchesUp == <>[](overlapped \/ \A e \in Events \ behind : rows[e] = feed[e])

-----------------------------------------------------------------------------
(* What the README says and the code does not do.                          *)

\* README, "Запуск фоновых процессов" and "GET /api/sync/status": the poll
\* follows the cursor changed_at and updates the table; the next poll goes on
\* from last_changed_at.  Nothing there excludes the manual trigger.  Events
\* that became visible behind a page are left out here too.
CursorAlwaysCovers ==
    \A e \in Events \ behind : rows[e] # feed[e] => Covered(e)

\* The same section: sync_status is "ok" after a run that ended well.
SuccessShowsOk ==
    [][\A r \in Runs : pc[r] = "commit" /\ pc'[r] = "committed"
          => meta'.sync_status = "ok"]_vars
=============================================================================
