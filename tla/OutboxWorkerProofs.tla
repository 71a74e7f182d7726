-------------------------- MODULE OutboxWorkerProofs --------------------------
(***************************************************************************)
(* Theorems about OutboxWorker, for any records, creation times, batch     *)
(* size, limit of attempts and number of troubles.                         *)
(***************************************************************************)
EXTENDS OutboxWorker, TLAPS

-----------------------------------------------------------------------------
(* The invariant.  That an attempt count stays within the limit needs that  *)
(* the worker only tries records that are pending; that a record marked     *)
(* sent was notified needs what Capashino has seen when its reply is read.  *)

\* A record in hand is not among those still to be tried.
CurrentInv ==
    pc \in {"deliver", "commit", "committed"} => current \in Records \ todo

\* A row is given up exactly when its attempts are used up.
AtLimit(R) == R.status = "failed" <=> R.attempts = MaxAttempts

\* What is about to be committed is one step away from the pending row.
CommitInv ==
    pc = "commit" =>
        /\ current \in Pending
        /\ loaded[current] \in Row
        /\ AtLimit(loaded[current])
        /\ loaded[current].attempts \in
              {row[current].attempts, row[current].attempts + 1}
        /\ loaded[current].status = "sent" => current \in seen

\* Requests announce existing records under their own id, and Capashino has
\* notified the buyers of the records it has seen, once each.
CapashinoInv ==
    /\ \A m \in flight : m.key = m.record /\ row[m.record] # None
    /\ \A r \in Records : notices[r] = IF r \in seen THEN 1 ELSE 0
    /\ \A r \in seen : row[r] # None
    /\ pc = "deliver" /\ reply # None => current \in seen
    /\ \A r \in Records : row[r] # None /\ row[r].status = "sent" => r \in seen

Inv ==
    /\ TypeOK
    /\ BatchIsFresh
    /\ FailedAtLimit
    /\ CurrentInv
    /\ CommitInv
    /\ CapashinoInv

\* An empty outbox and a worker about to query it.
LEMMA InvInit == Init => Inv
BY RecordsFinite, SettingsPositive, MaxTroublesNat, NoneIsNoValue
   DEF Init, Inv, TypeOK, PC, BatchIsFresh, FailedAtLimit, CurrentInv,
       CommitInv, CapashinoInv

\* A record that is added is in no batch and known to no one.
LEMMA InvAdd ==
    ASSUME Inv, NEW r \in Records, Add(r)
    PROVE  Inv'
<1>1. [status |-> "pending", attempts |-> 0] \in Row
  BY SettingsPositive DEF Row
<1>2. TypeOK'
  BY <1>1 DEF Inv, TypeOK, Add, session, capashino
<1>3. \A q \in Records : row[q] # None => row'[q] = row[q]
  BY DEF Inv, TypeOK, Add
<1>4. \A q \in Pending : q \in Pending' /\ row'[q] = row[q]
  BY <1>3, NoneIsNoValue DEF Pending
<1>5. BatchIsFresh' /\ CurrentInv'
  BY <1>4 DEF Inv, BatchIsFresh, CurrentInv, Add, session
<1>6. FailedAtLimit'
  BY <1>3, SettingsPositive DEF Inv, TypeOK, FailedAtLimit, Add
<1>7. CommitInv'
  BY <1>4 DEF Inv, CommitInv, AtLimit, Add, session, capashino
<1>8. CapashinoInv'
  BY <1>1, <1>3, NoneIsNoValue
     DEF Inv, TypeOK, Notice, CapashinoInv, Add, session, capashino
<1>. QED  BY <1>2, <1>5, <1>6, <1>7, <1>8 DEF Inv

\* Posting a pending record puts it in hand and its notification in flight.
LEMMA InvPost ==
    ASSUME Inv, NEW B \in SUBSET Pending, Post(B),
           \A r \in B : loaded'[r] = row[r],
           loaded' \in [Records -> Row \cup {None}],
           UNCHANGED <<row, seen, notices, troubles>>
    PROVE  Inv'
<1>1. PICK r \in Oldest(B) :
         /\ pc' = "deliver"
         /\ current' = r
         /\ todo' = B \ {r}
         /\ reply' = None
         /\ flight' = flight \cup {[record |-> r, key |-> DeliveryKey(r)]}
  BY DEF Post
<1>2. r \in B /\ r \in Records /\ row[r] # None
  BY <1>1 DEF Oldest, Pending
<1>3. [record |-> r, key |-> DeliveryKey(r)] \in Notice
  BY <1>2 DEF Notice, DeliveryKey
<1>4. TypeOK'
  BY <1>1, <1>2, <1>3 DEF Inv, TypeOK, PC, Pending
<1>5. BatchIsFresh' /\ CurrentInv' /\ CommitInv'
  BY <1>1, <1>2 DEF BatchIsFresh, CurrentInv, CommitInv, Pending
<1>6. FailedAtLimit'
  BY DEF Inv, FailedAtLimit
<1>7. CapashinoInv'
  BY <1>1, <1>2 DEF Inv, CapashinoInv, DeliveryKey
<1>. QED  BY <1>4, <1>5, <1>6, <1>7 DEF Inv

\* Leaving the batch, in order or not, forgets copies and changes nothing else.
LEMMA InvClose ==
    ASSUME Inv, CloseSession,
           pc' \in {"sleep", "stopped", "crashed"},
           troubles' \in 0 .. MaxTroubles,
           UNCHANGED <<row, capashino>>
    PROVE  Inv'
<1>1. TypeOK'
  BY DEF Inv, TypeOK, PC, CloseSession, capashino
<1>2. BatchIsFresh' /\ CurrentInv' /\ CommitInv'
  BY DEF BatchIsFresh, CurrentInv, CommitInv, CloseSession
<1>3. FailedAtLimit' /\ CapashinoInv'
  BY DEF Inv, FailedAtLimit, CapashinoInv, capashino
<1>. QED  BY <1>1, <1>2, <1>3 DEF Inv

\* The worker decides on a record from a copy that is as the table has it.
LEMMA InvMark ==
    ASSUME Inv, MarkSent \/ MarkFailed
    PROVE  Inv'
<1>1. /\ pc = "deliver" /\ pc' = "commit"
      /\ UNCHANGED <<row, todo, current, reply, capashino, troubles>>
  BY DEF MarkSent, MarkFailed
<1>2. /\ current \in Records /\ current \notin todo
      /\ loaded[current] = row[current] /\ current \in Pending
  BY <1>1 DEF Inv, CurrentInv, BatchIsFresh
<1>3. /\ loaded[current] \in Row /\ loaded[current].status = "pending"
      /\ loaded[current].attempts \in 0 .. MaxAttempts - 1
  <2>1. loaded[current] \in Row /\ loaded[current].status = "pending"
    BY <1>2 DEF Inv, TypeOK, Pending
  <2>2. loaded[current].attempts # MaxAttempts
    BY <1>2, <2>1 DEF Inv, FailedAtLimit, Pending
  <2>. QED  BY <2>1, <2>2, SettingsPositive DEF Row
<1>4. /\ \A r \in Records : r # current => loaded'[r] = loaded[r]
      /\ loaded' \in [Records -> Row \cup {None}]
      /\ loaded'[current] \in Row
      /\ AtLimit(loaded'[current])
      /\ loaded'[current].attempts \in
            {loaded[current].attempts, loaded[current].attempts + 1}
      /\ loaded'[current].status = "sent" => current \in seen
  <2>1. CASE MarkSent
    <3>1. loaded' = [loaded EXCEPT ![current].status = "sent"]
      BY <2>1 DEF MarkSent
    <3>2. loaded'[current] = [loaded[current] EXCEPT !.status = "sent"]
      BY <1>2, <3>1 DEF Inv, TypeOK
    <3>3. /\ loaded'[current] \in Row
          /\ loaded'[current].status = "sent"
          /\ loaded'[current].attempts = loaded[current].attempts
      BY <1>3, <3>2 DEF Row
    <3>4. current \in seen
      BY <1>1, <2>1, NoneIsNoValue DEF MarkSent, Inv, CapashinoInv
    <3>. QED  BY <1>2, <1>3, <3>1, <3>3, <3>4, SettingsPositive
              DEF AtLimit, Inv, TypeOK
  <2>2. CASE MarkFailed
    <3>. DEFINE attempts == loaded[current].attempts + 1
                R == [status |-> IF attempts >= MaxAttempts THEN "failed"
                                 ELSE loaded[current].status,
                      attempts |-> attempts]
    <3>1. loaded' = [loaded EXCEPT ![current] = R]
      BY <2>2 DEF MarkFailed
    <3>2. R \in Row /\ AtLimit(R) /\ R.status # "sent"
      BY <1>3, SettingsPositive DEF AtLimit, Row
    <3>3. loaded'[current] = R
      BY <1>2, <3>1 DEF Inv, TypeOK
    <3>. QED  BY <1>2, <3>1, <3>2, <3>3 DEF Inv, TypeOK
  <2>. QED  BY <2>1, <2>2
<1>5. TypeOK'
  BY <1>1, <1>4 DEF Inv, TypeOK, PC, capashino
<1>6. BatchIsFresh' /\ CurrentInv'
  BY <1>1, <1>2, <1>4 DEF Inv, TypeOK, BatchIsFresh, CurrentInv, Pending
<1>7. CommitInv'
  BY <1>1, <1>2, <1>4 DEF CommitInv, AtLimit, Pending, capashino
<1>8. FailedAtLimit' /\ CapashinoInv'
  BY <1>1 DEF Inv, FailedAtLimit, CapashinoInv, capashino
<1>. QED  BY <1>5, <1>6, <1>7, <1>8 DEF Inv

\* The outcome of the record in hand, and of no other, reaches the table.
LEMMA InvCommit ==
    ASSUME Inv, Commit
    PROVE  Inv'
<1>1. /\ pc = "commit" /\ pc' = "committed"
      /\ row' = [row EXCEPT ![current] = loaded[current]]
      /\ UNCHANGED <<loaded, todo, current, reply, flight, seen, notices,
                     troubles>>
  BY DEF Commit, session, capashino
<1>2. /\ current \in Records \ todo /\ loaded[current] \in Row
      /\ AtLimit(loaded[current])
      /\ loaded[current].status = "sent" => current \in seen
  BY <1>1 DEF Inv, CurrentInv, CommitInv
<1>3. /\ row'[current] = loaded[current] /\ row'[current] # None
      /\ \A r \in Records : r # current => row'[r] = row[r]
  BY <1>1, <1>2, NoneIsNoValue DEF Inv, TypeOK
<1>4. TypeOK'
  BY <1>1, <1>2 DEF Inv, TypeOK, PC
<1>5. BatchIsFresh' /\ CurrentInv' /\ CommitInv'
  BY <1>1, <1>2, <1>3 DEF Inv, TypeOK, BatchIsFresh, CurrentInv, CommitInv, Pending
<1>6. FailedAtLimit'
  BY <1>2, <1>3 DEF Inv, FailedAtLimit, AtLimit
<1>7. CapashinoInv'
  <2>1. \A r \in Records : row[r] # None => row'[r] # None
    BY <1>3
  <2>2. \A m \in flight : m.record \in Records
    BY DEF Inv, TypeOK, Notice
  <2>. QED  BY <1>1, <1>2, <1>3, <2>1, <2>2 DEF Inv, TypeOK, CapashinoInv
<1>. QED  BY <1>4, <1>5, <1>6, <1>7 DEF Inv

\* Capashino handles a request, once per key; the reply is for the record in
\* hand.
LEMMA InvNotify ==
    ASSUME Inv, NEW m \in flight, Notify(m)
    PROVE  Inv'
<1>1. /\ flight' = flight \ {m}
      /\ seen' = seen \cup {m.key}
      /\ notices' = IF m.key \in seen THEN notices
                    ELSE [notices EXCEPT ![m.record] = @ + 1]
      /\ reply' = IF pc = "deliver" /\ current = m.record
                  THEN IF m.key \in seen THEN "conflict" ELSE "created"
                  ELSE reply
      /\ UNCHANGED <<row, pc, loaded, todo, current, troubles>>
  BY DEF Notify, session
<1>2. m.record \in Records /\ m.key = m.record /\ row[m.record] # None
  BY DEF Inv, TypeOK, Notice, CapashinoInv
<1>3. TypeOK'
  BY <1>1, <1>2 DEF Inv, TypeOK, Reply
<1>4. BatchIsFresh' /\ CurrentInv' /\ FailedAtLimit'
  BY <1>1 DEF Inv, BatchIsFresh, CurrentInv, FailedAtLimit, Pending
<1>5. CommitInv'
  BY <1>1 DEF Inv, CommitInv, AtLimit, Pending
<1>6. CapashinoInv'
  <2>1. \A r \in Records : notices'[r] = IF r \in seen' THEN 1 ELSE 0
    BY <1>1, <1>2 DEF Inv, TypeOK, CapashinoInv
  <2>. QED  BY <1>1, <1>2, <2>1 DEF Inv, TypeOK, CapashinoInv
<1>. QED  BY <1>3, <1>4, <1>5, <1>6 DEF Inv

\* Every step keeps the invariant.
LEMMA InvStep == Inv /\ [Next]_vars => Inv'
<1>. SUFFICES ASSUME Inv, [Next]_vars PROVE Inv'
  OBVIOUS
<1>1. CASE UNCHANGED vars
  BY <1>1 DEF vars, session, capashino, Inv, TypeOK, BatchIsFresh, FailedAtLimit,
              CurrentInv, CommitInv, CapashinoInv, Pending, AtLimit
<1>2. CASE ListPending
  <2>1. PICK B \in SUBSET Pending :
           \/ B = {} /\ EndIteration
           \/ /\ Post(B)
              /\ loaded' = [r \in Records |-> IF r \in B THEN row[r] ELSE None]
    BY <1>2 DEF ListPending
  <2>2. UNCHANGED <<row, seen, notices, troubles>>
    BY <1>2 DEF ListPending
  <2>3. CASE EndIteration
    BY <2>2, <2>3, InvClose DEF EndIteration, capashino, Inv, TypeOK
  <2>4. CASE /\ Post(B)
             /\ loaded' = [r \in Records |-> IF r \in B THEN row[r] ELSE None]
    <3>1. loaded' \in [Records -> Row \cup {None}] /\ \A r \in B : loaded'[r] = row[r]
      BY <2>4 DEF Inv, TypeOK, Pending
    <3>. QED  BY <2>2, <2>4, <3>1, InvPost
  <2>. QED  BY <2>1, <2>3, <2>4
<1>3. CASE NextRecord
  <2>1. UNCHANGED <<row, seen, notices, troubles>>
    BY <1>3 DEF NextRecord
  <2>2. CASE EndIteration
    BY <2>1, <2>2, InvClose DEF EndIteration, capashino, Inv, TypeOK
  <2>3. CASE Post(todo) /\ UNCHANGED loaded
    <3>1. todo \in SUBSET Pending /\ \A r \in todo : loaded[r] = row[r]
      BY DEF Inv, BatchIsFresh
    <3>. QED  BY <2>1, <2>3, <3>1, InvPost DEF Inv, TypeOK
  <2>. QED  BY <1>3, <2>2, <2>3 DEF NextRecord
<1>4. CASE WakeUp \/ Start
  BY <1>4 DEF WakeUp, Start, session, capashino, Inv, TypeOK, PC, BatchIsFresh,
              FailedAtLimit, CurrentInv, CommitInv, CapashinoInv, Pending
<1>5. CASE \E m \in flight : Lose(m)
  <2>1. PICK m \in flight : Lose(m)
    BY <1>5
  <2>. QED  BY <2>1 DEF Lose, session, Inv, TypeOK, BatchIsFresh, FailedAtLimit,
                        CurrentInv, CommitInv, CapashinoInv, Pending, AtLimit
<1>6. CASE IterationFails \/ Crash \/ Shutdown
  <2>1. troubles' \in 0 .. MaxTroubles
    BY <1>6, MaxTroublesNat
       DEF IterationFails, Crash, Shutdown, Interrupted, Trouble, Inv, TypeOK
  <2>. QED  BY <1>6, <2>1, InvClose
            DEF IterationFails, Crash, Shutdown, Interrupted
<1>. QED
  BY <1>1, <1>2, <1>3, <1>4, <1>5, <1>6, InvAdd, InvMark, InvCommit, InvNotify
     DEF Next, Work

\* The invariant holds at all times.
LEMMA Invariant == Spec => []Inv
BY InvInit, InvStep, PTL DEF Spec

-----------------------------------------------------------------------------
(* What the worker guarantees.                                             *)

\* The worker's copies, rows, requests and counters keep their types; an
\* attempt count never passes OUTBOX_MAX_ATTEMPTS.
THEOREM TypeCorrect == Spec => []TypeOK
BY Invariant, PTL DEF Inv

\* "sent" in the table means that the buyer was notified, and no buyer is
\* notified twice (README, "Гарантии").
THEOREM SentMeansNotified == Spec => []SentIsNotified
<1>1. Inv => SentIsNotified
  BY DEF Inv, CapashinoInv, SentIsNotified
<1>. QED  BY <1>1, Invariant, PTL

\* A record is given up at the limit of attempts and not before.
THEOREM GivenUpAtLimit == Spec => []FailedAtLimit
BY Invariant, PTL DEF Inv

\* The worker never acts on a stale copy of a record.
THEOREM BatchStaysFresh == Spec => []BatchIsFresh
BY Invariant, PTL DEF Inv

\* No step changes a settled record or turns an attempt count back.
THEOREM SettledStaysSettled == Spec => SettledIsFinal
<1>. DEFINE Final == \A r \in Records : row[r] # None =>
                       /\ row[r].status # "pending" => row'[r] = row[r]
                       /\ row'[r].attempts \in
                             {row[r].attempts, row[r].attempts + 1}
<1>1. Inv /\ [Next]_vars => Final \/ UNCHANGED vars
  <2>. SUFFICES ASSUME Inv, Next PROVE Final
    OBVIOUS
  <2>1. CASE \E r \in Records : Add(r)
    BY <2>1 DEF Add, Inv, TypeOK
  <2>2. CASE Commit
    BY <2>2 DEF Commit, Inv, TypeOK, CurrentInv, CommitInv, Pending
  <2>3. CASE UNCHANGED row
    BY <2>3
  <2>. QED
    BY <2>1, <2>2, <2>3
       DEF Next, Work, ListPending, MarkSent, MarkFailed, NextRecord, WakeUp,
           Start, Notify, Lose, IterationFails, Crash, Shutdown, Interrupted
<1>. QED  BY <1>1, Invariant, PTL DEF Spec, SettledIsFinal

-----------------------------------------------------------------------------
(* OutboxWorker implements the safety of NoticePromise.                    *)

\* Every step of the worker is a step of the promise or invisible to it.
LEMMA PromiseStep == Inv /\ [Next]_vars => [Promise!Next]_(Promise!vars)
<1>. SUFFICES ASSUME Inv, [Next]_vars PROVE [Promise!Next]_(Promise!vars)
  OBVIOUS
<1>. DEFINE st == [r \in Records |->
                     IF row[r] = None THEN "absent" ELSE row[r].status]
<1>1. CASE \E r \in Records : Add(r)
  <2>1. PICK r \in Records : Add(r)
    BY <1>1
  <2>2. st[r] = "absent" /\ st' = [st EXCEPT ![r] = "pending"]
    <3>. DEFINE new == [status |-> "pending", attempts |-> 0]
    <3>1. new # None
      BY SettingsPositive, NoneIsNoValue DEF Row
    <3>2. row[r] = None /\ row' = [row EXCEPT ![r] = new]
      BY <2>1 DEF Add
    <3>3. new.status = "pending"
      OBVIOUS
    <3>. HIDE DEF new
    <3>. QED  BY <3>1, <3>2, <3>3 DEF Inv, TypeOK
  <2>3. Promise!Write(r)
    BY <2>1, <2>2 DEF Add, capashino, Promise!Write, Promise!SetStatus
  <2>. QED  BY <2>3 DEF Promise!Next
<1>2. CASE Commit
  <2>1. /\ current \in Records /\ row[current] # None
        /\ row[current].status = "pending"
        /\ loaded[current] \in Row /\ loaded[current] # None
        /\ loaded[current].status = "sent" => notices[current] = 1
    BY <1>2, NoneIsNoValue
       DEF Commit, Inv, CurrentInv, CommitInv, CapashinoInv, Pending
  <2>2. PICK r \in Records : r = current
    BY <2>1
  <2>6. st[r] = "pending" /\ st' = [st EXCEPT ![r] = loaded[r].status]
    BY <1>2, <2>1, <2>2 DEF Commit, Inv, TypeOK
  <2>3. UNCHANGED notices
    BY <1>2 DEF Commit, capashino
  <2>4. CASE loaded[current].status = "pending"
    <3>1. st' = st
      BY <2>2, <2>4, <2>6
    <3>. QED  BY <2>3, <3>1 DEF Promise!vars
  <2>5. CASE loaded[current].status \in {"sent", "failed"}
    <3>1. Promise!Settle(r)
      BY <2>1, <2>2, <2>3, <2>5, <2>6 DEF Promise!Settle, Promise!SetStatus
    <3>. QED  BY <3>1 DEF Promise!Next
  <2>. QED  BY <2>1, <2>4, <2>5 DEF Row
<1>3. CASE \E m \in flight : Notify(m)
  <2>1. PICK m \in flight : Notify(m)
    BY <1>3
  <2>2. m.record \in Records /\ m.key = m.record /\ row[m.record] # None
    BY DEF Inv, TypeOK, Notice, CapashinoInv
  <2>3. UNCHANGED row
    BY <2>1 DEF Notify
  <2>4. CASE m.key \in seen
    BY <2>1, <2>3, <2>4 DEF Notify, Promise!vars
  <2>5. CASE m.key \notin seen
    <3>1. notices[m.record] = 0 /\ notices' = [notices EXCEPT ![m.record] = 1]
      <4>1. notices[m.record] = 0
        BY <2>2, <2>5 DEF Inv, CapashinoInv
      <4>2. notices' = [notices EXCEPT ![m.record] = 0 + 1]
        BY <2>1, <2>5, <4>1 DEF Notify
      <4>. QED  BY <4>1, <4>2
    <3>2. st[m.record] # "absent"
      BY <2>2 DEF Inv, TypeOK, Row
    <3>3. Promise!Notify(m.record)
      BY <2>3, <3>1, <3>2 DEF Promise!Notify
    <3>. QED  BY <2>2, <3>3 DEF Promise!Next
  <2>. QED  BY <2>4, <2>5
<1>4. CASE UNCHANGED <<row, notices>>
  BY <1>4 DEF Promise!vars
<1>. QED
  BY <1>1, <1>2, <1>3, <1>4
     DEF vars, capashino, Next, Work, ListPending, MarkSent, MarkFailed,
         NextRecord, WakeUp, Start, Lose, IterationFails, Crash, Shutdown,
         Interrupted

\* Whatever is lost, late, repeated or cut short, the outbox keeps what
\* NoticePromise says of every record; its liveness is left to TLC.
THEOREM WorkerKeepsPromise == Spec => KeepsPromise
<1>1. Init => Promise!Init
  BY DEF Init, Promise!Init
<1>. QED  BY <1>1, PromiseStep, Invariant, PTL DEF Spec, KeepsPromise, Promise!SafeSpec
=============================================================================
