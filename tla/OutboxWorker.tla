---------------------------- MODULE OutboxWorker ----------------------------
(***************************************************************************)
(* src/services/outbox_worker.py and the loop around it in src/main.py:    *)
(* the one worker of the process takes batches of pending outbox records   *)
(* and posts a notification for each to Capashino, the notification        *)
(* service.  pc is the await the worker is suspended in.                   *)
(*                                                                         *)
(* Capashino (src/services/notifications_client.py) is external.  A posted *)
(* request is in flight until Capashino handles it, which may be after the *)
(* worker gave up waiting, after a restart, or never.                      *)
(***************************************************************************)
EXTENDS Naturals, FiniteSets

CONSTANTS
    Records,        \* outbox records, named by their id
    created,        \* record -> created_at, the start of its transaction
    BatchSize,      \* settings.outbox_batch_size
    MaxAttempts,    \* settings.outbox_max_attempts
    MaxTroubles,    \* bound: crashes, shutdowns and failed iterations
    None

ASSUME RecordsFinite == IsFiniteSet(Records) /\ None \notin Records
ASSUME CreatedIsTime == created \in [Records -> Nat]
ASSUME SettingsPositive == BatchSize \in Nat \ {0} /\ MaxAttempts \in Nat \ {0}
ASSUME MaxTroublesNat == MaxTroubles \in Nat

VARIABLES
    row,        \* table outbox: record -> its row, or None
    pc,         \* the await the worker is suspended in
    loaded,     \* the session's copy of each record of the batch, or None
    todo,       \* the records of the batch still to be tried
    current,    \* the record being delivered or committed, or None
    reply,      \* the status Capashino answered the current request, or None
    flight,     \* keys of the requests Capashino has yet to handle
    seen,       \* keys of the notifications Capashino has created
    notices,    \* record -> how many notifications its buyer has received
    troubles    \* how often the surroundings have interfered so far

session == <<loaded, todo, current>>
capashino == <<flight, seen, notices>>
vars == <<row, pc, session, reply, capashino, troubles>>

Row == [status : {"pending", "sent", "failed"}, attempts : 0 .. MaxAttempts]

\* What Capashino answers a notification it has created: 2xx, or 409 when it
\* had created it before.
Reply == {"created", "conflict"}

ASSUME NoneIsNoValue == None \notin Row \cup Reply

\* Variant: a fresh idempotency key for every attempt.
DeliveryKeyPerAttempt(r) == <<r, row[r].attempts>>

\* A request carries the record it announces and its idempotency key.
DeliveryKey(r) == r
Notice == [record : Records, key : Records]

PC == {"sleep", "query", "deliver", "commit", "committed", "stopped", "crashed"}

TypeOK ==
    /\ row \in [Records -> Row \cup {None}]
    /\ pc \in PC
    /\ loaded \in [Records -> Row \cup {None}]
    /\ todo \in SUBSET Records
    /\ current \in Records \cup {None}
    /\ reply \in Reply \cup {None}
    /\ flight \in SUBSET Notice
    /\ seen \in SUBSET Records
    /\ notices \in [Records -> Nat]
    /\ troubles \in 0 .. MaxTroubles

Init ==
    /\ row = [r \in Records |-> None]
    /\ pc = "query"
    /\ loaded = [r \in Records |-> None]
    /\ todo = {}
    /\ current = None
    /\ reply = None
    /\ flight = {}
    /\ seen = {}
    /\ notices = [r \in Records |-> 0]
    /\ troubles = 0

-----------------------------------------------------------------------------
\* Variant: WHERE status != 'sent'.
NotSent == {r \in Records : row[r] # None /\ row[r].status # "sent"}

Pending == {r \in Records : row[r] # None /\ row[r].status = "pending"}

\* ORDER BY created_at LIMIT BatchSize; rows created at the same time come
\* in any order.
IsBatch(B) ==
    /\ Cardinality(B) <= BatchSize
    /\ B # Pending => Cardinality(B) = BatchSize
    /\ \A r \in B, q \in Pending \ B : created[r] <= created[q]

Oldest(B) == {r \in B : \A q \in B : created[r] <= created[q]}

\* The session is closed: its copies are dropped, changes not committed lost.
CloseSession ==
    /\ loaded' = [r \in Records |-> None]
    /\ todo' = {}
    /\ current' = None
    /\ reply' = None

\* A registration commits (src/services/ticket_usecases.py).
Add(r) ==
    /\ row[r] = None
    /\ row' = [row EXCEPT ![r] = [status |-> "pending", attempts |-> 0]]
    /\ UNCHANGED <<pc, session, reply, capashino, troubles>>

\* Variant: the record stays in the batch while it is tried.
PostAgain(B) ==
    \E r \in Oldest(B) :
        /\ pc' = "deliver"
        /\ current' = r
        /\ todo' = B
        /\ reply' = None
        /\ flight' = flight \cup {[record |-> r, key |-> DeliveryKey(r)]}

\* The oldest record of B is posted.
Post(B) ==
    \E r \in Oldest(B) :
        /\ pc' = "deliver"
        /\ current' = r
        /\ todo' = B \ {r}
        /\ reply' = None
        /\ flight' = flight \cup {[record |-> r, key |-> DeliveryKey(r)]}

EndIteration == pc' = "sleep" /\ CloseSession /\ UNCHANGED flight

ListPending ==
    /\ pc = "query"
    /\ \E B \in SUBSET Pending :
          /\ IsBatch(B)
          /\ \/ B = {} /\ EndIteration
             \/ /\ Post(B)
                /\ loaded' = [r \in Records |-> IF r \in B THEN row[r] ELSE None]
    /\ UNCHANGED <<row, seen, notices, troubles>>

\* 2xx, or 409 for a notification that exists already.
MarkSent ==
    /\ pc = "deliver"
    /\ reply \in Reply
    /\ loaded' = [loaded EXCEPT ![current].status = "sent"]
    /\ pc' = "commit"
    /\ UNCHANGED <<row, todo, current, reply, capashino, troubles>>

\* Variant: attempts > max_attempts.
MarkFailedLate ==
    /\ pc = "deliver"
    /\ LET attempts == loaded[current].attempts + 1 IN
          loaded' = [loaded EXCEPT ![current] =
              [status |-> IF attempts > MaxAttempts THEN "failed" ELSE @.status,
               attempts |-> attempts]]
    /\ pc' = "commit"
    /\ UNCHANGED <<row, todo, current, reply, capashino, troubles>>

\* Variant: the attempt is not counted.
MarkFailedUncounted ==
    /\ pc = "deliver"
    /\ pc' = "commit"
    /\ UNCHANGED <<row, session, reply, capashino, troubles>>

\* A timeout, a lost connection, any other status.
MarkFailed ==
    /\ pc = "deliver"
    /\ LET attempts == loaded[current].attempts + 1 IN
          loaded' = [loaded EXCEPT ![current] =
              [status |-> IF attempts >= MaxAttempts THEN "failed" ELSE @.status,
               attempts |-> attempts]]
    /\ pc' = "commit"
    /\ UNCHANGED <<row, todo, current, reply, capashino, troubles>>

Commit ==
    /\ pc = "commit"
    /\ row' = [row EXCEPT ![current] = loaded[current]]
    /\ pc' = "committed"
    /\ UNCHANGED <<session, reply, capashino, troubles>>

\* The database has confirmed; the for loop goes on.
NextRecord ==
    /\ pc = "committed"
    /\ \/ todo = {} /\ EndIteration
       \/ Post(todo) /\ UNCHANGED loaded
    /\ UNCHANGED <<row, seen, notices, troubles>>

WakeUp ==
    /\ pc = "sleep"
    /\ pc' = "query"
    /\ UNCHANGED <<row, session, reply, capashino, troubles>>

-----------------------------------------------------------------------------
(* The surroundings.                                                       *)

\* Capashino knows a notification by its key and creates it once.
Notify(m) ==
    /\ m \in flight
    /\ flight' = flight \ {m}
    /\ seen' = seen \cup {m.key}
    /\ notices' = IF m.key \in seen THEN notices
                  ELSE [notices EXCEPT ![m.record] = @ + 1]
    /\ reply' = IF pc = "deliver" /\ current = m.record
                THEN IF m.key \in seen THEN "conflict" ELSE "created"
                ELSE reply
    /\ UNCHANGED <<row, pc, session, troubles>>

\* A request that will not be handled any more.
Lose(m) ==
    /\ m \in flight
    /\ flight' = flight \ {m}
    /\ UNCHANGED <<row, pc, session, reply, seen, notices, troubles>>

Trouble == troubles < MaxTroubles /\ troubles' = troubles + 1

\* An exception other than httpx.HTTPError leaves process_outbox_batch, and the
\* loop logs it: the query or the commit failed, or only the confirmation of
\* the commit, or the delivery raised one, which is no attempt that counts.
IterationFails ==
    /\ Trouble
    /\ pc \in {"query", "deliver", "commit", "committed"}
    /\ pc' = "sleep"
    /\ CloseSession
    /\ UNCHANGED <<row, capashino>>

Interrupted(p) ==
    /\ Trouble
    /\ pc \notin {"stopped", "crashed"}
    /\ pc' = p
    /\ CloseSession
    /\ UNCHANGED <<row, capashino>>

Crash == Interrupted("crashed")

\* Orderly shutdown: task.cancel() raises CancelledError in whatever await
\* the worker is suspended, and the loop does not catch it.
Shutdown == Interrupted("stopped")

Start ==
    /\ pc \in {"stopped", "crashed"}
    /\ pc' = "query"
    /\ UNCHANGED <<row, session, reply, capashino, troubles>>

Work ==
    \/ ListPending \/ MarkSent \/ MarkFailed \/ Commit \/ NextRecord
    \/ WakeUp \/ Start

Next ==
    \/ Work
    \/ \E r \in Records : Add(r)
    \/ \E m \in flight : Notify(m) \/ Lose(m)
    \/ IterationFails \/ Crash \/ Shutdown

Spec == Init /\ [][Next]_vars

\* Every await of the worker ends (httpx gives up after its timeouts), it is
\* woken and restarted; nothing is assumed of Capashino.
FairSpec == Spec /\ WF_vars(Work)

-----------------------------------------------------------------------------
(* Correctness.                                                            *)

\* README, "Гарантии": a record is marked sent only after Capashino created
\* its notification, whatever was lost, late, retried or cut short, and a
\* retry never reaches the buyer as a second notification.
SentIsNotified ==
    \A r \in Records :
        /\ row[r] # None /\ row[r].status = "sent" => notices[r] = 1
        /\ notices[r] <= 1

\* The worker gives a record up at OUTBOX_MAX_ATTEMPTS recorded attempts and
\* not before, so a record that can be retried is still selected.
FailedAtLimit ==
    \A r \in Records : row[r] # None =>
        (row[r].status = "failed" <=> row[r].attempts = MaxAttempts)

\* The copies the worker decides on, loaded once per iteration, are those of
\* the table for every record it has yet to try: no record is posted that is
\* settled already, and no attempt count is overwritten by an older one.
BatchIsFresh ==
    \A r \in todo \cup (IF pc = "deliver" THEN {current} ELSE {}) :
        loaded[r] = row[r] /\ r \in Pending

\* A settled record stays as it is, and an attempt count never goes back.
SettledIsFinal ==
    [][\A r \in Records : row[r] # None =>
          /\ row[r].status # "pending" => row'[r] = row[r]
          /\ row'[r].attempts \in {row[r].attempts, row[r].attempts + 1}]_vars

\* The outbox keeps its promise: no step of the worker, of Capashino or of a
\* failure is anything but a step of NoticePromise or invisible to it, and
\* every record is eventually settled.
Promise == INSTANCE NoticePromise WITH
    status <- [r \in Records |->
                 IF row[r] = None THEN "absent" ELSE row[r].status]

KeepsPromise == Promise!SafeSpec
SettlesEverything == Promise!Spec

\* README, "Запуск фоновых процессов": on shutdown the task is cancelled and
\* waits for the end of the current iteration.
ShutdownEndsIteration ==
    [][pc # "stopped" /\ pc' = "stopped" => pc = "sleep"]_vars
=============================================================================
