---------------------------- MODULE ServiceProofs ----------------------------
(***************************************************************************)
(* Theorems about Service: the use cases and the worker, put together,     *)
(* keep what each of them guarantees alone, and the ledger of the whole.   *)
(***************************************************************************)
EXTENDS Service, TicketProviderProofs

\* The worker of Service once more, with its theorems.
W == INSTANCE OutboxWorkerProofs
    WITH Records <- Calls, created <- NoOrder, pc <- wpc

-----------------------------------------------------------------------------
(* Composition: a step of the service is a step of each part or nothing to  *)
(* it, so the service has every safety property of its parts.              *)

\* For the use cases, the worker's steps do not happen.
LEMMA CallSteps == [ServiceNext]_serviceVars => [Next]_vars
BY DEF ServiceNext, serviceVars, CallStep, ArriveStep, CleanupStep, Outside, WorkerStep,
       ServiceShutdown, ServiceCrash, Next

\* For the worker, a registration that commits adds a record.
LEMMA WorkerSteps == [ServiceNext]_serviceVars => [Worker!Next]_(Worker!vars)
BY DEF ServiceNext, serviceVars, workerVars, CallStep, ArriveStep, CleanupStep, Outside,
       WorkerStep, ServiceShutdown, ServiceCrash, Worker!Next, Worker!vars,
       Worker!session, Worker!capashino

\* The calls of the service behave as TicketUsecases says: sharing the process
\* and the database with the worker adds no behaviour, and all the theorems
\* about TicketUsecases hold of the service.
THEOREM CallsAsAlone == ServiceSpec => Spec
BY CallSteps, PTL DEF ServiceSpec, ServiceInit, Spec

\* The worker of the service behaves as OutboxWorker says, with the calls as
\* the source of its records.
THEOREM WorkerAsAlone == ServiceSpec => Worker!Spec
BY WorkerSteps, PTL DEF ServiceSpec, ServiceInit, Worker!Spec

\* Worker and W are one and the same.
LEMMA SameInit == Worker!Init => W!Init
BY DEF Worker!Init, W!Init

\* So their steps are the same too.
LEMMA SameNext == [Worker!Next]_(Worker!vars) => [W!Next]_(W!vars)
<1>1. Worker!Work => W!Work
  BY DEF Worker!Work, Worker!ListPending, Worker!MarkSent, Worker!MarkFailed,
         Worker!Commit, Worker!NextRecord, Worker!WakeUp, Worker!Start, Worker!Pending,
         Worker!IsBatch, Worker!EndIteration, Worker!Post, Worker!CloseSession,
         Worker!Oldest, Worker!DeliveryKey, Worker!session, Worker!capashino,
         Worker!Reply, Worker!Cardinality,
         W!Work, W!ListPending, W!MarkSent, W!MarkFailed, W!Commit, W!NextRecord,
         W!WakeUp, W!Start, W!Pending, W!IsBatch, W!EndIteration, W!Post, W!CloseSession,
         W!Oldest, W!DeliveryKey, W!session, W!capashino, W!Reply, W!Cardinality
<1>2. \A r \in Calls : Worker!Add(r) => W!Add(r)
  BY DEF Worker!Add, Worker!session, Worker!capashino, W!Add, W!session, W!capashino
<1>3. \A m \in flight : Worker!Notify(m) \/ Worker!Lose(m) => W!Notify(m) \/ W!Lose(m)
  BY DEF Worker!Notify, Worker!Lose, Worker!session, W!Notify, W!Lose, W!session
<1>4. Worker!IterationFails \/ Worker!Crash \/ Worker!Shutdown
        => W!IterationFails \/ W!Crash \/ W!Shutdown
  BY DEF Worker!IterationFails, Worker!Crash, Worker!Shutdown, Worker!Interrupted,
         Worker!Trouble, Worker!CloseSession, Worker!capashino, W!IterationFails, W!Crash,
         W!Shutdown, W!Interrupted, W!Trouble, W!CloseSession, W!capashino
<1>5. UNCHANGED Worker!vars => UNCHANGED W!vars
  BY DEF Worker!vars, Worker!session, Worker!capashino, W!vars, W!session, W!capashino
<1>. QED  BY <1>1, <1>2, <1>3, <1>4, <1>5 DEF Worker!Next, W!Next

\* The invariant of the worker holds in the service.
LEMMA WorkerInvariant == ServiceSpec => []W!Inv
<1>1. W!IsFiniteSet(Calls) /\ NoOrder \in [Calls -> Nat]
  BY CallsFinite DEF NoOrder, IsFiniteSet, W!IsFiniteSet
<1>2. None \notin W!Row \cup W!Reply
  BY NoneIsNoRow DEF Worker!Row, Worker!Reply, W!Row, W!Reply
<1>3. W!Spec => []W!Inv
  BY <1>1, <1>2, W!Invariant, NoneIsNoValue, SettingsPositive, MaxTroublesNat
<1>. QED
  BY <1>3, WorkerAsAlone, SameInit, SameNext, PTL DEF Worker!Spec, W!Spec

-----------------------------------------------------------------------------
(* The table outbox, which both parts use.                                 *)

\* The worker has a row for exactly the records that registrations have added.
OutboxAgrees == \A t \in Calls : row[t] # None <=> t \in outbox

\* Both parts begin with an empty table.
LEMMA OutboxInit == ServiceInit => OutboxAgrees
BY DEF ServiceInit, Init, Worker!Init, OutboxAgrees

\* The worker writes no row that is not there.
LEMMA WorkerKeepsRows ==
    ASSUME W!Inv, WorkerStep
    PROVE  \A r \in Calls : row'[r] # None <=> row[r] # None
<1>1. CASE Worker!Commit
  <2>1. /\ current \in Calls /\ row[current] # None
        /\ loaded[current] # None
        /\ row' = [row EXCEPT ![current] = loaded[current]]
    BY <1>1, NoneIsNoRow
       DEF W!Inv, W!CommitInv, Worker!Commit, W!Pending, Worker!Row, W!Row
  <2>. QED  BY <2>1 DEF W!Inv, W!TypeOK
<1>2. CASE UNCHANGED row
  BY <1>2
<1>. QED
  BY <1>1, <1>2
     DEF WorkerStep, Worker!Work, Worker!ListPending, Worker!MarkSent, Worker!MarkFailed,
         Worker!NextRecord, Worker!WakeUp, Worker!Start, Worker!Notify, Worker!Lose,
         Worker!IterationFails

\* What a step of the service does to the table, seen by either part.
LEMMA RowsStep ==
    ASSUME TypeInv, W!Inv, [ServiceNext]_serviceVars
    PROVE  \/ /\ UNCHANGED outbox
              /\ \A r \in Calls : row'[r] # None <=> row[r] # None
           \/ \E c \in Calls : Commit(c) /\ Worker!Add(c)
<1>1. ASSUME NEW c \in Calls, CallStep(c)
      PROVE  \/ UNCHANGED <<outbox, row>>
             \/ Commit(c) /\ Worker!Add(c)
  <2>1. UNCHANGED outbox \/ Commit(c)
    BY <1>1 DEF CallStep, Step, LookupKey, EventRefused, CacheHit, CacheMiss, SeatsReturn,
         SeatsFail, RegisterConfirmed, RegisterUnlisted, RegisterRefused, RegisterFails,
         CommitClash, Respond, ReadTicket, UnregisterReturn, UnregisterMissing,
         UnregisterFails, CommitCancel, DatabaseFails, TablesUnchanged, tables, history
  <2>. QED  BY <1>1, <2>1 DEF CallStep, workerVars
<1>2. CASE WorkerStep
  BY <1>2, WorkerKeepsRows DEF WorkerStep, vars, tables
<1>3. CASE \/ \E c \in Calls : ArriveStep(c)
           \/ CleanupStep \/ Outside \/ ServiceShutdown \/ ServiceCrash
           \/ UNCHANGED serviceVars
  <2>1. UNCHANGED <<outbox, row>>
    BY <1>3 DEF serviceVars, workerVars, ArriveStep, CleanupStep, Outside, ServiceShutdown,
         ServiceCrash, Worker!Shutdown, Worker!Crash, Worker!Interrupted, Arrive, CleanKeys,
         Provider, EventSynced, SeatsExpire, Crash, TablesUnchanged, tables, history, vars
  <2>. QED  BY <2>1
<1>. QED  BY <1>1, <1>2, <1>3 DEF ServiceNext

\* Every step keeps the two views of the table in agreement.
LEMMA OutboxStep ==
    ASSUME TypeInv, W!Inv, OutboxAgrees, [ServiceNext]_serviceVars
    PROVE  OutboxAgrees'
<1>1. CASE \E c \in Calls : Commit(c) /\ Worker!Add(c)
  <2>1. PICK c \in Calls : Commit(c) /\ Worker!Add(c)
    BY <1>1
  <2>2. /\ outbox' = outbox \cup {c}
        /\ row' = [row EXCEPT ![c] = [status |-> "pending", attempts |-> 0]]
    BY <2>1 DEF Commit, Worker!Add
  <2>3. [status |-> "pending", attempts |-> 0] # None
    BY NoneIsNoRow, SettingsPositive DEF Worker!Row
  <2>. QED  BY <2>2, <2>3 DEF OutboxAgrees, W!Inv, W!TypeOK
<1>. QED  BY <1>1, RowsStep DEF OutboxAgrees

\* Both parts read and write the same table.
LEMMA OutboxInvariant == ServiceSpec => []OutboxAgrees
<1>1. ServiceSpec => []TypeInv
  BY CallsAsAlone, TypeInvariant, PTL
<1>. QED  BY <1>1, OutboxInit, OutboxStep, WorkerInvariant, PTL DEF ServiceSpec

\* Who was notified has a ticket.
LEMMA NotifiedIsStored ==
    ASSUME KeyInv, W!Inv, OutboxAgrees, NEW t \in Calls,
           notices[t] # 0 \/ t \in seen \/ row[t] # None
    PROVE  Stored(t)
BY DEF W!Inv, W!CapashinoInv, OutboxAgrees, KeyInv, RowsAllOrNothing

\* A client that retries under one key hears of one purchase.
THEOREM OneNotice == ServiceSpec => []OneNoticePerKey
<1>1. KeyInv /\ OneTicketPerKey /\ W!Inv /\ OutboxAgrees => OneNoticePerKey
  BY NotifiedIsStored DEF OneTicketPerKey, OneNoticePerKey
<1>. QED
  BY <1>1, CallsAsAlone, KeyInvariant, KeySellsOnce, WorkerInvariant, OutboxInvariant, PTL

\* Whom a call tells of a purchase, on a first try or a retry, the outbox
\* does not forget, though another part of the process keeps it.
THEOREM ToldAreAnnounced == ServiceSpec => []ToldIsAnnounced
<1>1. ASSUME TypeInv, KeyInv, CreatedIsDurable, W!Inv, OutboxAgrees
      PROVE  ToldIsAnnounced
  <2>. SUFFICES ASSUME NEW c \in Calls, Answered(c, "Created")
                PROVE  LET t == answer[c].ticket IN
                       /\ row[t] # None
                       /\ \/ row[t].status = "pending" /\ row[t].attempts < MaxAttempts
                          \/ row[t].status = "sent" /\ notices[t] = 1
                          \/ row[t].status = "failed" /\ row[t].attempts = MaxAttempts
    BY DEF ToldIsAnnounced
  <2>. DEFINE t == answer[c].ticket
  <2>1. t \in Calls /\ t \in outbox
    BY <1>1 DEF CreatedIsDurable, KeyInv, RowsAllOrNothing
  <2>2. row[t] # None /\ row[t] \in W!Row
    BY <1>1, <2>1 DEF OutboxAgrees, W!Inv, W!TypeOK
  <2>3. row[t].status = "failed" <=> row[t].attempts = MaxAttempts
    BY <1>1, <2>1, <2>2 DEF W!Inv, W!FailedAtLimit
  <2>4. row[t].status = "sent" => notices[t] = 1
    BY <1>1, <2>1, <2>2 DEF W!Inv, W!CapashinoInv
  <2>. QED  BY <2>2, <2>3, <2>4, SettingsPositive DEF W!Row
<1>. QED
  BY <1>1, CallsAsAlone, TypeInvariant, KeyInvariant, CreatedMeansStored, WorkerInvariant,
     OutboxInvariant, PTL

-----------------------------------------------------------------------------
(* The ledger.                                                             *)

Told == {t \in Calls : \E c \in Calls : Answered(c, "Created") /\ answer[c].ticket = t}

States == [t \in Calls |-> TicketState(t)]
Unders == [t \in Calls |-> KeyOf(t)]
Keyed == [k \in Keys |-> KeyedTicket(k)]

\* What is sold is seen in the ledger.
LEMMA LedgerState ==
    ASSUME TypeInv, NEW t \in Calls
    PROVE  TicketState(t) = "none" <=> ~ Stored(t)
BY DEF TicketState, Stored, TypeInv, TypeOK, Ticket, TicketStatus

\* A call that ends, or goes on, tells at most that its ticket is sold.
LEMMA LedgerTell ==
    ASSUME TypeInv, TypeInv', KeyInv', NEW c \in Calls,
           UNCHANGED <<op, tickets, keys, notices>>,
           answer[c] = None,
           \/ UNCHANGED answer
           \/ \E outcome, u : answer' = [answer EXCEPT ![c] =
                                 [outcome |-> outcome, ticket |-> u]]
    PROVE  [Ledger!Next]_(Ledger!vars)
<1>1. UNCHANGED <<States, Unders, Keyed, notices>>
  BY DEF States, Unders, Keyed, TicketState, KeyOf, KeyedTicket
<1>2. CASE Answered(c, "Created")'
  <2>1. PICK t \in Calls : t = answer'[c].ticket /\ tickets'[t] # None
    BY <1>2 DEF KeyInv, CreatedIsDurable, Stored
  <2>2. Stored(t)
    BY <2>1 DEF Stored
  <2>3. Told' = Told \cup {t}
    BY <1>2, <2>1 DEF Told, Answered, TypeInv, TypeOK
  <2>4. Ledger!Tell(t)
    BY <1>1, <2>1, <2>2, <2>3, LedgerState
       DEF Ledger!Tell, States, Unders, Keyed, Told
  <2>. QED  BY <2>1, <2>4 DEF Ledger!Next
<1>3. CASE ~ Answered(c, "Created")'
  <2>1. Told' = Told
    BY <1>3 DEF Told, Answered, TypeInv, TypeOK
  <2>. QED  BY <1>1, <2>1 DEF Ledger!vars, States, Unders, Keyed, Told
<1>. QED  BY <1>2, <1>3

\* A registration that commits is a sale under its key.
LEMMA LedgerCommit ==
    ASSUME TypeInv, KeyInv, NEW c \in Calls, Commit(c), UNCHANGED notices
    PROVE  Ledger!Next
<1>. DEFINE k == op[c].key
<1>1. /\ op[c] \in TicketRegistration /\ k \in Keys \cup {None}
      /\ ~ Stored(c)
      /\ UNCHANGED <<op, answer>>
      /\ tickets' = [tickets EXCEPT ![c] =
                       [event |-> op[c].event, status |-> "active"]]
      /\ k = None => keys' = keys
      /\ k # None => /\ keys[k] = None
                     /\ keys' = [keys EXCEPT ![k] =
                                   [hash |-> RequestHash(op[c]), ticket |-> c]]
  BY DEF Commit, KeyIsFree, Await, TypeInv, Phases, Phase, TicketRegistration, KeyInv,
         StoredByCreate, Ended
<1>2. /\ [event |-> op[c].event, status |-> "active"] # None
      /\ [hash |-> RequestHash(op[c]), ticket |-> c] # None
  BY <1>1, NoneIsNoValue
     DEF Ticket, TicketStatus, TicketRegistration, IdempotencyKey, RequestHash, Hash
<1>3. States[c] = "none" /\ States' = [States EXCEPT ![c] = "active"]
  BY <1>1, <1>2 DEF States, TicketState, Stored, TypeInv, TypeOK
<1>4. Unders' = [Unders EXCEPT ![c] = k]
  BY <1>1, <1>2 DEF Unders, KeyOf, TypeInv, TypeOK
<1>5. /\ k = None => UNCHANGED Keyed
      /\ k # None => Keyed[k] = None /\ Keyed' = [Keyed EXCEPT ![k] = c]
  BY <1>1, <1>2 DEF Keyed, KeyedTicket, TypeInv, TypeOK
<1>6. UNCHANGED Told
  BY <1>1 DEF Told, Answered
<1>7. Ledger!Sell(c, k)
  BY <1>3, <1>4, <1>5, <1>6 DEF Ledger!Sell, States, Unders, Keyed, Told
<1>. QED  BY <1>1, <1>7 DEF Ledger!Next

\* A cancellation that commits cancels the ticket, or finds it cancelled.
LEMMA LedgerCancel ==
    ASSUME TypeInv, NEW c \in Calls, CommitCancel(c), UNCHANGED notices
    PROVE  [Ledger!Next]_(Ledger!vars)
<1>. DEFINE u == op[c].ticket
<1>1. /\ u \in Calls /\ Stored(u)
      /\ UNCHANGED <<op, answer, keys>>
      /\ tickets' = [tickets EXCEPT ![u] =
                       [event |-> EventOf(c), status |-> "cancelled"]]
  BY DEF CommitCancel, Await, TypeInv, Phases, Phase, Unregistration
<1>2. [event |-> EventOf(c), status |-> "cancelled"] # None
  BY <1>1, NoneIsNoValue
     DEF EventOf, Stored, TypeInv, TypeOK, Ticket, TicketStatus
<1>3. States' = [States EXCEPT ![u] = "cancelled"]
  BY <1>1, <1>2 DEF States, TicketState, TypeInv, TypeOK
<1>4. UNCHANGED <<Unders, Keyed, Told>>
  BY <1>1, <1>2
     DEF Unders, KeyOf, Keyed, KeyedTicket, Told, Answered, Stored, TypeInv, TypeOK
<1>5. States[u] \in {"active", "cancelled"}
  BY <1>1 DEF States, TicketState, Stored, TypeInv, TypeOK, Ticket, TicketStatus
<1>6. CASE States[u] = "active"
  BY <1>1, <1>3, <1>4, <1>6
     DEF Ledger!Next, Ledger!Cancel, States, Unders, Keyed, Told
<1>7. CASE States[u] = "cancelled"
  <2>1. UNCHANGED States
    BY <1>3, <1>7 DEF States
  <2>. QED  BY <1>4, <2>1 DEF Ledger!vars, States, Unders, Keyed, Told
<1>. QED  BY <1>5, <1>6, <1>7

\* The cleanup forgets keys.
LEMMA LedgerClean ==
    ASSUME TypeInv, CleanKeys, UNCHANGED notices
    PROVE  Ledger!Next
<1>1. PICK old \in SUBSET {k \in Keys : keys[k] # None} :
        keys' = [k \in Keys |-> IF k \in old THEN None ELSE keys[k]]
  BY DEF CleanKeys
<1>2. UNCHANGED <<op, answer, tickets>>
  BY DEF CleanKeys, callVars
<1>3. UNCHANGED <<States, Unders, Told>>
  BY <1>2 DEF States, TicketState, Unders, KeyOf, Told, Answered
<1>4. Keyed' = [k \in Keys |-> IF k \in old THEN None ELSE Keyed[k]]
  BY <1>1 DEF Keyed, KeyedTicket
<1>5. Ledger!Forget(old)
  BY <1>3, <1>4 DEF Ledger!Forget, States, Unders, Keyed, Told
<1>. QED  BY <1>5 DEF Ledger!Next

\* Steps that the ledger does not see.
LEMMA LedgerQuiet ==
    ASSUME UNCHANGED <<tickets, keys, answer, notices>>,
           \A t \in Calls : Stored(t) => op'[t] = op[t]
    PROVE  UNCHANGED Ledger!vars
<1>1. UNCHANGED <<States, Unders, Keyed, Told>>
  BY DEF States, TicketState, Unders, KeyOf, Keyed, KeyedTicket, Told, Answered, Stored
<1>. QED  BY <1>1 DEF Ledger!vars, States, Unders, Keyed, Told

\* Capashino notifies the buyer of a sold ticket, for the first time.
LEMMA LedgerNotify ==
    ASSUME TypeInv, KeyInv, W!Inv, OutboxAgrees, WorkerStep
    PROVE  [Ledger!Next]_(Ledger!vars)
<1>1. UNCHANGED <<op, tickets, keys, answer>>
  BY DEF WorkerStep, vars, callVars, tables
<1>2. CASE UNCHANGED notices
  BY <1>1, <1>2, LedgerQuiet
<1>3. CASE \E m \in flight : Worker!Notify(m) /\ m.key \notin seen
  <2>1. PICK m \in flight : Worker!Notify(m) /\ m.key \notin seen
    BY <1>3
  <2>. DEFINE t == m.record
  <2>2. /\ t \in Calls /\ notices[t] = 0 /\ row[t] # None
        /\ notices' = [notices EXCEPT ![t] = notices[t] + 1]
    BY <2>1 DEF Worker!Notify, W!Inv, W!TypeOK, W!Notice, W!CapashinoInv
  <2>3. States[t] # "none"
    BY <2>2, NotifiedIsStored, LedgerState DEF States
  <2>4. UNCHANGED <<States, Unders, Keyed, Told>>
    BY <1>1 DEF States, TicketState, Unders, KeyOf, Keyed, KeyedTicket, Told, Answered
  <2>5. Ledger!Notify(t)
    BY <2>2, <2>3, <2>4 DEF Ledger!Notify, States, Unders, Keyed, Told
  <2>. QED  BY <2>2, <2>5 DEF Ledger!Next
<1>. QED
  BY <1>2, <1>3
     DEF WorkerStep, Worker!Work, Worker!ListPending, Worker!MarkSent, Worker!MarkFailed,
         Worker!Commit, Worker!NextRecord, Worker!WakeUp, Worker!Start, Worker!Notify,
         Worker!Lose, Worker!IterationFails, Worker!capashino

\* The steps of a call, the worker's table aside.
LEMMA LedgerCall ==
    ASSUME TypeInv, TypeInv', KeyInv, KeyInv', NEW c \in Calls, Step(c),
           UNCHANGED notices
    PROVE  [Ledger!Next]_(Ledger!vars)
<1>1. CASE Commit(c)
  BY <1>1, LedgerCommit
<1>2. CASE CommitCancel(c)
  BY <1>2, LedgerCancel
<1>3. CASE ~ Commit(c) /\ ~ CommitCancel(c)
  <2>1. answer[c] = None
    BY DEF Step, LookupKey, EventRefused, CacheHit, CacheMiss, SeatsReturn, SeatsFail,
           RegisterConfirmed, RegisterUnlisted, RegisterRefused, RegisterFails, Commit,
           CommitClash, Respond, ReadTicket, UnregisterReturn, UnregisterMissing,
           UnregisterFails, CommitCancel, DatabaseFails, EventAccepted, AwaitsDatabase,
           TypeInv, Phases, Phase
  <2>2. UNCHANGED <<op, tickets, keys>>
    BY <1>3 DEF Step, LookupKey, EventRefused, CacheHit, CacheMiss, SeatsReturn, SeatsFail,
           RegisterConfirmed, RegisterUnlisted, RegisterRefused, RegisterFails,
           CommitClash, Respond, ReadTicket, UnregisterReturn, UnregisterMissing,
           UnregisterFails, DatabaseFails, UseSeats, Raise, AnswerWith, Await,
           TablesUnchanged, tables, history
  <2>3. \/ UNCHANGED answer
        \/ \E outcome, u : answer' = [answer EXCEPT ![c] =
                              [outcome |-> outcome, ticket |-> u]]
    BY <1>3 DEF Step, LookupKey, EventRefused, CacheHit, CacheMiss, SeatsReturn, SeatsFail,
           RegisterConfirmed, RegisterUnlisted, RegisterRefused, RegisterFails,
           CommitClash, Respond, ReadTicket, UnregisterReturn, UnregisterMissing,
           UnregisterFails, DatabaseFails, UseSeats, Raise, AnswerWith, Await
  <2>. QED  BY <2>1, <2>2, <2>3, LedgerTell
<1>. QED  BY <1>1, <1>2, <1>3

\* Every step of the service is a step of the ledger, or invisible to it.
LEMMA LedgerStep ==
    ASSUME TypeInv, KeyInv, W!Inv, OutboxAgrees, [ServiceNext]_serviceVars
    PROVE  [Ledger!Next]_(Ledger!vars)
<1>1. TypeInv' /\ KeyInv'
  BY CallSteps, TypeStep, KeyStep
<1>2. ASSUME NEW c \in Calls, CallStep(c)  PROVE [Ledger!Next]_(Ledger!vars)
  <2>1. UNCHANGED notices
    BY <1>2 DEF CallStep, workerVars, Worker!Add, Worker!capashino
  <2>. QED  BY <1>1, <1>2, <2>1, LedgerCall DEF CallStep
<1>3. CASE CleanupStep
  BY <1>3, LedgerClean DEF CleanupStep, workerVars
<1>4. CASE WorkerStep
  BY <1>4, LedgerNotify
<1>5. CASE \/ \E c \in Calls : ArriveStep(c)
           \/ Outside \/ ServiceShutdown \/ ServiceCrash \/ UNCHANGED serviceVars
  <2>1. UNCHANGED <<tickets, keys, answer, notices>>
    BY <1>5 DEF ArriveStep, Outside, ServiceShutdown, ServiceCrash, Worker!Shutdown,
         Worker!Crash, Worker!Interrupted, Worker!capashino, serviceVars, workerVars, vars,
         callVars, tables, Arrive, Provider, EventSynced, SeatsExpire, Crash,
         TablesUnchanged
  <2>2. ASSUME NEW t \in Calls, Stored(t)  PROVE op'[t] = op[t]
    <3>1. pc[t] # "idle"
      BY <2>2 DEF KeyInv, StoredByCreate, Ended
    <3>. QED
      BY <1>5, <3>1 DEF ArriveStep, Outside, ServiceShutdown, ServiceCrash, serviceVars,
           vars, callVars, Arrive, Provider, EventSynced, SeatsExpire, Crash, TypeInv,
           TypeOK
  <2>3. UNCHANGED Ledger!vars
    BY <2>1, <2>2, LedgerQuiet
  <2>. QED  BY <2>3
<1>. QED  BY <1>2, <1>3, <1>4, <1>5 DEF ServiceNext

\* The service keeps the ledger: tickets are sold once, under a key that names
\* no other ticket, clients are told only of tickets that were sold, and the
\* buyer is notified at most once, whatever calls, crashes and the worker do.
THEOREM ServiceKeepsLedger == ServiceSpec => KeepsLedger
<1>1. ServiceInit => Ledger!Init
  BY DEF ServiceInit, Init, Worker!Init, Ledger!Init, TicketState, KeyOf, KeyedTicket,
         Answered
<1>. QED
  BY <1>1, LedgerStep, CallsAsAlone, TypeInvariant, KeyInvariant, WorkerInvariant,
     OutboxInvariant, PTL DEF ServiceSpec, KeepsLedger, Ledger!Spec
=============================================================================
