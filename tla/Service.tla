------------------------------- MODULE Service -------------------------------
(***************************************************************************)
(* The process of src/main.py: the calls of TicketUsecases and the outbox  *)
(* worker of OutboxWorker, in one event loop over one database.  They meet *)
(* in the table outbox: the record a registration commits is the one the   *)
(* worker delivers.  They also live and die together, and while the        *)
(* process is down no call arrives and nothing runs.                       *)
(***************************************************************************)
EXTENDS TicketUsecases, FiniteSets

CONSTANTS
    BatchSize,      \* as in OutboxWorker
    MaxAttempts,
    MaxTroubles

ASSUME CallsFinite == IsFiniteSet(Calls)
ASSUME SettingsPositive == BatchSize \in Nat \ {0} /\ MaxAttempts \in Nat \ {0}
ASSUME MaxTroublesNat == MaxTroubles \in Nat

VARIABLES row, wpc, loaded, todo, current, reply, flight, seen, notices, troubles

workerVars ==
    <<row, wpc, loaded, todo, current, reply, flight, seen, notices, troubles>>

\* The record of a ticket is named by the ticket.  created_at is the start of
\* the transaction that wrote it, in any order with the commits: all equal.
NoOrder == [c \in Calls |-> 0]

Worker == INSTANCE OutboxWorker
    WITH Records <- Calls, created <- NoOrder, pc <- wpc

ASSUME NoneIsNoRow == None \notin Worker!Row \cup Worker!Reply

serviceVars == <<vars, workerVars>>

ServiceInit == Init /\ Worker!Init

\* The process is running.
Up == wpc \notin {"stopped", "crashed"}

\* What a call adds to the table outbox the worker finds there.
CallStep(c) ==
    /\ Up
    /\ Step(c)
    /\ IF outbox' = outbox THEN UNCHANGED workerVars ELSE Worker!Add(c)

ArriveStep(c) == Up /\ Arrive(c) /\ UNCHANGED workerVars

CleanupStep == Up /\ CleanKeys /\ UNCHANGED workerVars

Outside ==
    /\ \/ \E c \in Calls : Provider(c)
       \/ \E e \in Events : EventSynced(e) \/ SeatsExpire(e)
    /\ UNCHANGED workerVars

\* The steps of the worker, of Capashino and of the network.
WorkerStep ==
    /\ Worker!Work \/ Worker!IterationFails
       \/ \E m \in flight : Worker!Notify(m) \/ Worker!Lose(m)
    /\ UNCHANGED vars

NothingRuns == \A c \in Calls : pc[c] \notin Running

\* An orderly shutdown waits for the calls under way before lifespan cancels
\* the worker.  For the calls it is a crash that finds none of them running:
\* the cache is lost.
ServiceShutdown ==
    /\ Worker!Shutdown
    /\ NothingRuns
    /\ Crash

ServiceCrash == Worker!Crash /\ Crash

ServiceNext ==
    \/ \E c \in Calls : CallStep(c) \/ ArriveStep(c)
    \/ CleanupStep
    \/ Outside
    \/ WorkerStep
    \/ ServiceShutdown
    \/ ServiceCrash

ServiceSpec == ServiceInit /\ [][ServiceNext]_serviceVars

\* As in the two modules: awaits end, the loop of the worker goes on, and the
\* process is started again.
ServiceFairSpec ==
    /\ ServiceSpec
    /\ \A c \in Calls : WF_serviceVars(CallStep(c))
    /\ WF_serviceVars(Worker!Work /\ UNCHANGED vars)

-----------------------------------------------------------------------------
(* Correctness.                                                            *)

TicketState(t) == IF tickets[t] = None THEN "none" ELSE tickets[t].status
KeyOf(t) == IF tickets[t] = None THEN None ELSE op[t].key
KeyedTicket(k) == IF keys[k] = None THEN None ELSE keys[k].ticket

Ledger == INSTANCE TicketLedger
    WITH Tickets <- Calls,
         state <- [t \in Calls |-> TicketState(t)],
         under <- [t \in Calls |-> KeyOf(t)],
         keyed <- [k \in Keys |-> KeyedTicket(k)],
         told <- {t \in Calls : \E c \in Calls :
                     Answered(c, "Created") /\ answer[c].ticket = t}

\* README, "Идемпотентность регистрации" and "Гарантии": whatever calls, the
\* worker, the provider and Capashino do, and whenever the process dies, what
\* happens to tickets is what the ledger allows.
KeepsLedger == Ledger!Spec

\* A client that retries with one key hears of one purchase: two tickets of one
\* key are both announced only if the cleanup has forgotten the key in between.
OneNoticePerKey ==
    \A t, u \in Calls :
        /\ t # u /\ notices[t] # 0 /\ notices[u] # 0
        /\ op[t].key # None /\ op[t].key = op[u].key
        => t \in forgotten \/ u \in forgotten

\* A client that is told of a ticket has not bought it in silence: its record is
\* in the outbox, to be tried again while attempts are left, settled as sent
\* when its buyer was notified once, and given up only after the last attempt.
ToldIsAnnounced ==
    \A c \in Calls : Answered(c, "Created") =>
        LET t == answer[c].ticket IN
        /\ row[t] # None
        /\ \/ row[t].status = "pending" /\ row[t].attempts < MaxAttempts
           \/ row[t].status = "sent" /\ notices[t] = 1
           \/ row[t].status = "failed" /\ row[t].attempts = MaxAttempts

Settled(t) == row[t] # None /\ row[t].status \in {"sent", "failed"}

\* Every ticket that a call has stored, with or without telling its client, is
\* announced or given up in the end, by this process or by a later one.
SoldIsAnnounced == \A t \in Calls : Stored(t) ~> Settled(t)
=============================================================================
