-------------------------- MODULE SharedSeatsProofs --------------------------
(***************************************************************************)
(* Theorems about TicketUsecases that rest on who shares a list of seats   *)
(* with whom, and on how the calls whose seat is booked have ended; for    *)
(* any sets of calls, events, seats, persons, keys, payloads and rows.     *)
(***************************************************************************)
EXTENDS TicketProviderProofs

-----------------------------------------------------------------------------
(* What every step keeps.                                                  *)

\* Where a call is before its list of seats is in hand.
Early == {"idle", "lookup", "event", "seats"}

Confirmed(d) == wire[d].stage = "register_ok" /\ pc[d] # "register"

Kept(d) ==
    /\ pc[d] # "idle" => op'[d] = op[d]
    /\ pc[d] \notin Early => pc'[d] \notin Early
    /\ Confirmed(d) => Confirmed(d)'
    /\ Stored(d) => Stored(d)'

\* The only calls that a step of c concerns are c and, in the cancellation of
\* c, the ticket that c names.
LEMMA StepKeeps ==
    ASSUME TypeInv, CallInv, NEW c \in Calls, Step(c)
    PROVE  /\ UNCHANGED op
           /\ \A d \in Calls : Kept(d)
           /\ \A d \in Calls \ {c} :
                 UNCHANGED <<pc[d], held[d], answer[d], wire[d]>>
<1>1. UNCHANGED op
  BY DEF Step, LookupKey, EventRefused, CacheHit, CacheMiss, SeatsReturn, SeatsFail,
         RegisterConfirmed, RegisterUnlisted, RegisterRefused, RegisterFails, CommitClash,
         Respond, ReadTicket, UnregisterReturn, UnregisterMissing, UnregisterFails,
         Commit, CommitCancel, DatabaseFails, UseSeats, Raise, AnswerWith, Await
<1>2. \/ UNCHANGED wire
      \/ /\ pc[c] \in {"event", "seats", "ticket"}
         /\ \E stage \in Stage : SetStage(c, stage)
  BY DEF Step, LookupKey, EventRefused, CacheHit, CacheMiss, SeatsReturn, SeatsFail,
         RegisterConfirmed, RegisterUnlisted, RegisterRefused, RegisterFails, CommitClash,
         Respond, ReadTicket, UnregisterReturn, UnregisterMissing, UnregisterFails,
         Commit, CommitCancel, DatabaseFails, UseSeats, EventAccepted, providerVars, Stage
<1>3. /\ \E p \in PC : /\ pc' = [pc EXCEPT ![c] = p]
                       /\ pc[c] \notin Early => p \notin Early
                       /\ p = "register" => pc[c] \in {"event", "seats"}
      /\ \/ UNCHANGED answer
         \/ \E value : answer' = [answer EXCEPT ![c] = value]
      /\ \/ UNCHANGED held
         \/ \E value : held' = [held EXCEPT ![c] = value]
  <2>1. CASE LookupKey(c) \/ EventRefused(c) \/ SeatsFail(c) \/ RegisterUnlisted(c)
             \/ RegisterRefused(c) \/ RegisterFails(c) \/ CommitClash(c) \/ ReadTicket(c)
    BY <2>1 DEF LookupKey, EventRefused, SeatsFail, RegisterUnlisted, RegisterRefused,
         RegisterFails, CommitClash, ReadTicket, Raise, AnswerWith, Await, Goto, PC,
         Running, AwaitsDatabase, AwaitsProvider, Early
  <2>2. CASE CacheHit(c) \/ CacheMiss(c) \/ SeatsReturn(c)
    BY <2>2 DEF CacheHit, CacheMiss, SeatsReturn, EventAccepted, UseSeats, Raise,
         AnswerWith, Await, Goto, PC, Running, AwaitsProvider, Early
  <2>3. CASE UnregisterMissing(c) \/ UnregisterFails(c) \/ DatabaseFails(c) \/ Respond(c)
    BY <2>3 DEF UnregisterMissing, UnregisterFails, DatabaseFails, Respond, Raise,
         AnswerWith, Goto, PC, Early
  <2>4. CASE RegisterConfirmed(c) \/ UnregisterReturn(c) \/ Commit(c) \/ CommitCancel(c)
    BY <2>4 DEF RegisterConfirmed, UnregisterReturn, Commit, CommitCancel, Await, Goto,
         PC, Running, AwaitsDatabase, Early
  <2>. QED  BY <2>1, <2>2, <2>3, <2>4 DEF Step
<1>4. \A d \in Calls \ {c} : UNCHANGED <<pc[d], held[d], answer[d], wire[d]>>
  BY <1>2, <1>3 DEF SetStage, TypeInv, TypeOK, ProviderTypeOK
<1>5. \A d \in Calls : Stored(d) => Stored(d)'
  <2>1. CASE Commit(c)
    <3>1. [event |-> op[c].event, status |-> "active"] # None
      BY <2>1, NoneIsNoValue DEF Commit, TypeInv, Phases, Phase, Ticket, TicketStatus,
                                 TicketRegistration
    <3>. QED  BY <2>1, <3>1 DEF Commit, Stored, TypeInv, TypeOK
  <2>2. CASE CommitCancel(c)
    <3>1. /\ op[c].ticket \in Calls /\ EventOf(c) \in Events
      BY <2>2 DEF CommitCancel, EventOf, TypeInv, TypeOK, Phases, Phase, Unregistration,
                  Stored, Ticket
    <3>2. [event |-> EventOf(c), status |-> "cancelled"] # None
      BY <3>1, NoneIsNoValue DEF Ticket, TicketStatus
    <3>. QED  BY <2>2, <3>1, <3>2 DEF CommitCancel, Stored, TypeInv, TypeOK
  <2>3. CASE ~ Commit(c) /\ ~ CommitCancel(c)
    BY <2>3 DEF Step, LookupKey, EventRefused, CacheHit, CacheMiss, SeatsReturn,
         SeatsFail, RegisterConfirmed, RegisterUnlisted, RegisterRefused, RegisterFails,
         CommitClash, Respond, ReadTicket, UnregisterReturn, UnregisterMissing,
         UnregisterFails, DatabaseFails, TablesUnchanged, tables, history, Stored
  <2>. QED  BY <2>1, <2>2, <2>3
<1>6. \A d \in Calls : /\ pc[d] \notin Early => pc'[d] \notin Early
                       /\ Confirmed(d) => Confirmed(d)'
  <2>1. pc[c] \in {"event", "seats", "ticket"} => wire[c].stage # "register_ok"
    BY DEF CallInv, WireAt
  <2>2. /\ pc[c] \notin Early => pc'[c] \notin Early
        /\ pc'[c] = "register" => pc[c] \in {"event", "seats"}
    BY <1>3 DEF TypeInv, TypeOK
  <2>3. Confirmed(c) => Confirmed(c)'
    BY <1>2, <2>1, <2>2 DEF Confirmed
  <2>. QED  BY <1>4, <2>2, <2>3 DEF Confirmed
<1>. QED  BY <1>1, <1>4, <1>5, <1>6 DEF Kept

\* Neither arrivals nor the provider nor the surroundings take back what a
\* call has been given.
LEMMA NextKeeps ==
    ASSUME TypeInv, CallInv, [Next]_vars
    PROVE  \A d \in Calls : Kept(d)
<1>1. ASSUME NEW c \in Calls, Step(c)  PROVE \A d \in Calls : Kept(d)
  BY <1>1, StepKeeps
<1>2. ASSUME NEW c \in Calls, Arrive(c)  PROVE \A d \in Calls : Kept(d)
  <2>1. /\ pc[c] = "idle" /\ wire[c].stage = "idle" /\ UNCHANGED <<tickets, wire>>
        /\ \A d \in Calls \ {c} : op'[d] = op[d] /\ pc'[d] = pc[d]
    BY <1>2 DEF Arrive, Goto, TablesUnchanged, tables, history, providerVars, TypeInv,
                TypeOK, CallInv, WireAt
  <2>. QED  BY <2>1 DEF Kept, Confirmed, Stored, Early
<1>3. ASSUME NEW c \in Calls, Provider(c)  PROVE \A d \in Calls : Kept(d)
  <2>1. /\ UNCHANGED <<pc, op, tickets>>
        /\ \A d \in Calls : wire[d].stage = "register_ok" => wire'[d].stage = "register_ok"
    BY <1>3 DEF Provider, ProviderListSeats, ProviderRegister, ProviderRefuse,
                ProviderUnregister, SetStage, callVars, tables, TypeInv, TypeOK,
                ProviderTypeOK
  <2>. QED  BY <2>1 DEF Kept, Confirmed, Stored
<1>4. CASE \/ \E e \in Events : EventSynced(e) \/ SeatsExpire(e)
           \/ CleanKeys \/ Crash \/ UNCHANGED vars
  <2>1. /\ UNCHANGED <<op, tickets>>
        /\ pc' = pc \/ Crash
        /\ wire' = wire \/ ProviderForgetsReads
    BY <1>4 DEF EventSynced, SeatsExpire, CleanKeys, Crash, vars, callVars, tables,
                providerVars
  <2>2. \A d \in Calls : /\ pc'[d] \in {pc[d], "dead"}
                         /\ wire[d].stage = "register_ok" => wire'[d].stage = "register_ok"
    BY <2>1 DEF Crash, ProviderForgetsReads
  <2>. QED  BY <2>1, <2>2 DEF Kept, Confirmed, Stored, Early
<1>. QED  BY <1>1, <1>2, <1>3, <1>4 DEF Next

-----------------------------------------------------------------------------
(* How a call ends whose request to register is out or was confirmed.      *)

Failure == {"ProviderTemporarilyUnavailableError"} \cup Unhandled

\* It has stored its ticket, or has told the client that it failed.
SettledAt(c) ==
    /\ pc[c] = "done"
    /\ wire[c].stage \in {"register_sent", "register_ok"}
    => answer[c] # None /\ (answer[c].outcome \in Failure \/ Stored(c))

Settled == \A c \in Calls : SettledAt(c)

\* A call that ends has had its answer, and one that fails to say so has no
\* request out that the provider could confirm.
LEMMA SettledStep ==
    ASSUME TypeInv, CallInv, KeyInv, NEW c \in Calls, Step(c), pc'[c] = "done",
           wire'[c].stage \in {"register_sent", "register_ok"}
    PROVE  answer'[c] # None /\ (answer'[c].outcome \in Failure \/ Stored(c)')
<1>1. pc[c] \in Running
  BY DEF Step, LookupKey, EventRefused, CacheHit, CacheMiss, EventAccepted, SeatsReturn,
         SeatsFail, RegisterConfirmed, RegisterUnlisted, RegisterRefused, RegisterFails,
         Commit, CommitClash, Respond, ReadTicket, UnregisterReturn, UnregisterMissing,
         UnregisterFails, CommitCancel, DatabaseFails, Running, AwaitsDatabase,
         AwaitsProvider
<1>2. CASE SeatsFail(c) \/ RegisterUnlisted(c) \/ RegisterFails(c) \/ CommitClash(c)
           \/ UnregisterFails(c) \/ DatabaseFails(c)
  <2>1. \E outcome \in Failure : AnswerWith(c, outcome, None)
    BY <1>2 DEF SeatsFail, RegisterUnlisted, RegisterFails, CommitClash, UnregisterFails,
                DatabaseFails, Raise, Failure, Unhandled
  <2>. QED  BY <2>1, NoneIsNoAnswer
            DEF AnswerWith, Failure, Unhandled, Answer, Outcome, Handled, TypeInv, TypeOK
<1>3. CASE Respond(c)
  <2>1. /\ pc[c] = "committed" /\ UNCHANGED <<wire, tickets>>
        /\ op[c].kind = "create" =>
              answer' = [answer EXCEPT ![c] = [outcome |-> "Created", ticket |-> c]]
    BY <1>3 DEF Respond, AnswerWith, providerVars, TablesUnchanged, tables, history
  <2>2. op[c].kind = "create" /\ Stored(c)
    <3>1. op[c].kind = "create"
      BY <2>1 DEF CallInv, WireAt
    <3>. QED  BY <2>1, <3>1 DEF KeyInv, StoredByCreate
  <2>3. answer'[c] # None
    BY <2>1, <2>2, NoneIsNoAnswer
       DEF TypeInv, TypeOK, Answer, Outcome, Returned
  <2>. QED  BY <2>1, <2>2, <2>3 DEF Stored
<1>4. ASSUME \/ LookupKey(c) \/ EventRefused(c) \/ CacheHit(c) \/ CacheMiss(c)
             \/ SeatsReturn(c) \/ RegisterConfirmed(c) \/ RegisterRefused(c)
             \/ Commit(c) \/ ReadTicket(c) \/ UnregisterReturn(c)
             \/ UnregisterMissing(c) \/ CommitCancel(c)
      PROVE  FALSE
  <2>1. CASE CacheHit(c) \/ SeatsReturn(c)
    BY <2>1 DEF CacheHit, SeatsReturn, UseSeats, SetStage, Goto, TypeInv, TypeOK,
                ProviderTypeOK
  <2>2. CASE CacheMiss(c) \/ RegisterConfirmed(c) \/ Commit(c) \/ UnregisterReturn(c)
             \/ CommitCancel(c)
    BY <2>2 DEF CacheMiss, RegisterConfirmed, Commit, UnregisterReturn, CommitCancel,
                Await, Goto, TypeInv, TypeOK
  <2>3. CASE LookupKey(c) \/ EventRefused(c) \/ RegisterRefused(c)
             \/ UnregisterMissing(c)
    BY <2>3 DEF LookupKey, EventRefused, RegisterRefused, UnregisterMissing, CallInv,
                WireAt, providerVars
  <2>4. CASE ReadTicket(c)
    BY <2>4 DEF ReadTicket, CallInv, WireAt, SetStage, TypeInv, TypeOK, ProviderTypeOK
  <2>. QED  BY <1>4, <2>1, <2>2, <2>3, <2>4
<1>. QED  BY <1>2, <1>3, <1>4 DEF Step

\* Every step keeps it.
LEMMA SettledNext ==
    ASSUME TypeInv, CallInv, KeyInv, Settled, [Next]_vars
    PROVE  Settled'
<1>. SUFFICES ASSUME NEW d \in Calls, pc'[d] = "done",
                     wire'[d].stage \in {"register_sent", "register_ok"}
              PROVE  answer'[d] # None /\ (answer'[d].outcome \in Failure \/ Stored(d)')
  BY DEF Settled, SettledAt, Stored
<1>1. Stored(d) => Stored(d)'
  BY NextKeeps DEF Kept
<1>2. SUFFICES ASSUME ~ Step(d)
               PROVE  /\ pc[d] = "done" /\ UNCHANGED answer[d]
                      /\ wire[d].stage \in {"register_sent", "register_ok"}
  BY <1>1, SettledStep DEF Settled, SettledAt
<1>3. ASSUME NEW c \in Calls, Step(c)
      PROVE  UNCHANGED <<pc[d], answer[d], wire[d]>>
  BY <1>2, <1>3, StepKeeps
<1>4. ASSUME NEW c \in Calls, Arrive(c)
      PROVE  UNCHANGED <<pc[d], answer[d], wire[d]>>
  BY <1>4 DEF Arrive, Goto, providerVars, TypeInv, TypeOK
<1>5. ASSUME NEW c \in Calls, Provider(c)
      PROVE  /\ pc[d] = "done" /\ UNCHANGED answer[d]
             /\ wire[d].stage \in {"register_sent", "register_ok"}
  BY <1>5 DEF Provider, ProviderListSeats, ProviderRegister, ProviderRefuse,
              ProviderUnregister, SetStage, callVars, TypeInv, TypeOK, ProviderTypeOK
<1>6. CASE \/ \E e \in Events : EventSynced(e) \/ SeatsExpire(e)
           \/ CleanKeys \/ Crash \/ UNCHANGED vars
  <2>1. /\ UNCHANGED answer
        /\ pc' = pc \/ Crash
        /\ wire' = wire \/ ProviderForgetsReads
    BY <1>6 DEF EventSynced, SeatsExpire, CleanKeys, Crash, vars, callVars, providerVars
  <2>. QED  BY <2>1 DEF Crash, ProviderForgetsReads, Running, AwaitsDatabase,
                        AwaitsProvider
<1>. QED  BY <1>3, <1>4, <1>5, <1>6 DEF Next

\* It holds at all times.
LEMMA SettledInvariant == Spec => []Settled
<1>1. Init => Settled
  BY DEF Init, Settled, SettledAt
<1>. QED  BY <1>1, SettledNext, TypeInvariant, CallInvariant, KeyInvariant, PTL DEF Spec

\* The failures are the codes that tell a client nothing about its seat.
LEMMA FailureCodes ==
    ASSUME NEW outcome \in Failure
    PROVE  StatusCode("create", outcome) \in {500, 503}
BY DEF Failure, Unhandled, StatusCode

\* A seat that is sold at the provider is sold here, or is being sold, or was
\* lost with the process, or its client was told of a failure.
THEOREM SoldSeatsAreExplained == Spec => []SeatsAccountedFor
<1>1. TypeInv /\ CallInv /\ KeyInv /\ HoldInv /\ Settled => SeatsAccountedFor
  <2>. SUFFICES ASSUME TypeInv, CallInv, KeyInv, HoldInv, Settled,
                       NEW e \in Events, NEW s \in Seats, booked[e][s] # None
                PROVE  LET t == booked[e][s] IN
                         \/ Stored(t) /\ tickets[t].status = "active"
                         \/ pc[t] \in {"register", "commit", "dead"}
                         \/ /\ answer[t] # None
                            /\ StatusCode("create", answer[t].outcome) \in {500, 503}
    BY DEF SeatsAccountedFor
  <2> DEFINE t == booked[e][s]
  <2>1. t \in Calls /\ wire[t].stage = "register_ok" /\ Booked(t)
    BY DEF TypeInv, TypeOK, ProviderTypeOK, HoldInv, HolderIsConfirmed, Booked, Holds
  <2>. HIDE DEF t
  <2>2. op[t] \in TicketRegistration
    BY <2>1 DEF TypeInv, Phases, WirePhase
  <2>3. Stored(t) => tickets[t].status = "active"
    BY <2>1 DEF HoldInv, CancelledIsFree, Cancelled, TypeInv, TypeOK, Stored, Ticket,
                TicketStatus
  <2>4. pc[t] = "committed" => Stored(t)
    BY <2>1, <2>2 DEF KeyInv, StoredByCreate, TicketRegistration
  <2>5. pc[t] \in {"register", "commit", "committed", "done", "dead"}
    BY <2>1 DEF CallInv, WireAt, TypeInv, TypeOK, PC, Running, AwaitsDatabase,
                AwaitsProvider, UnregisterStage
  <2>6. pc[t] = "done" =>
           \/ Stored(t)
           \/ answer[t] # None /\ StatusCode("create", answer[t].outcome) \in {500, 503}
    BY <2>1, FailureCodes DEF Settled, SettledAt
  <2>. QED  BY <2>3, <2>4, <2>5, <2>6 DEF t
<1>. QED
  BY <1>1, TypeInvariant, CallInvariant, KeyInvariant, HoldInvariant, SettledInvariant, PTL

-----------------------------------------------------------------------------
(* Lists of seats: a list is made by a call that asked the provider for     *)
(* the seats of its event, and serves calls for that event only.           *)

\* List l has been made by the call of that name, for its event.
MadeFor(l, e) ==
    /\ pc[l] \notin {"idle", "lookup", "event", "seats"}
    /\ op[l] \in TicketRegistration \cup SeatsQuery
    /\ op[l].event = e

\* Another registration of the seat of c has been confirmed and gone on.
SoldToAnother(c) ==
    \E d \in Calls \ {c} :
        /\ op[d] \in TicketRegistration
        /\ op[d].event = op[c].event /\ op[d].seat = op[c].seat
        /\ wire[d].stage = "register_ok"
        /\ pc[d] # "register"

\* Only a call in register holds a list.  Its seat is still in the list, or
\* was sold to another; and a ValueError tells of the latter.
ListedAt(c) ==
    /\ held[c] # None => pc[c] = "register" /\ MadeFor(held[c], op[c].event)
    /\ pc[c] = "register" => op[c].seat \in lists[held[c]] \/ SoldToAnother(c)
    /\ Answered(c, "ValueError") =>
          /\ op[c] \in TicketRegistration
          /\ wire[c].stage = "register_ok"
          /\ SoldToAnother(c)

StoreInv == \A e \in Events : store[e] # None => MadeFor(store[e], e)

ListInv == StoreInv /\ \A c \in Calls : ListedAt(c)

\* What a list was made for does not change.
LEMMA MadeStays ==
    ASSUME TypeInv, CallInv, [Next]_vars, NEW l \in Calls, NEW e, MadeFor(l, e)
    PROVE  MadeFor(l, e)'
<1>1. Kept(l)
  BY NextKeeps
<1>. QED  BY <1>1 DEF Kept, MadeFor, Early

\* A seat that was sold to another call stays sold to it.
LEMMA SoldStays ==
    ASSUME TypeInv, CallInv, [Next]_vars, NEW c \in Calls, pc[c] # "idle",
           SoldToAnother(c)
    PROVE  SoldToAnother(c)'
<1>1. PICK d \in Calls \ {c} :
        /\ op[d] \in TicketRegistration
        /\ op[d].event = op[c].event /\ op[d].seat = op[c].seat
        /\ Confirmed(d)
  BY DEF SoldToAnother, Confirmed
<1>2. pc[d] # "idle"
  BY <1>1, NoneIsNoPayload DEF TypeInv, Phases, Phase
<1>3. Kept(c) /\ Kept(d)
  BY NextKeeps
<1>. QED  BY <1>1, <1>2, <1>3 DEF Kept, SoldToAnother, Confirmed

\* A call that does not get a list, whose list keeps its seat or sells it to
\* another call, and that raises no ValueError now, stays as it was.
LEMMA ListedStays ==
    ASSUME TypeInv, CallInv, ListInv, [Next]_vars, NEW d \in Calls,
           held'[d] \in {held[d], None},
           held'[d] # None => pc'[d] = "register",
           pc'[d] = "register" =>
              /\ pc[d] = "register" /\ held'[d] = held[d]
              /\ op[d].seat \in lists[held[d]] =>
                    op[d].seat \in lists'[held[d]] \/ SoldToAnother(d)',
           answer'[d] = answer[d] \/ ~ Answered(d, "ValueError")'
    PROVE  ListedAt(d)'
<1>1. /\ pc[d] # "idle" => op'[d] = op[d]
      /\ wire[d].stage = "register_ok" /\ pc[d] = "done" =>
            wire'[d].stage = "register_ok"
  BY NextKeeps DEF Kept, Confirmed
<1>2. held'[d] # None => pc'[d] = "register" /\ MadeFor(held[d], op[d].event)'
  <2>. SUFFICES ASSUME held'[d] # None
                PROVE  MadeFor(held[d], op[d].event)'
    OBVIOUS
  <2>1. held[d] \in Calls /\ pc[d] = "register" /\ MadeFor(held[d], op[d].event)
    BY DEF ListInv, ListedAt, TypeInv, TypeOK
  <2>2. PICK l \in Calls, e \in {op[d].event} : l = held[d] /\ e = op[d].event
    BY <2>1
  <2>3. MadeFor(l, e)'
    BY <2>1, <2>2, MadeStays
  <2>. QED  BY <1>1, <2>1, <2>2, <2>3 DEF MadeFor
<1>3. pc'[d] = "register" => op'[d].seat \in lists'[held'[d]] \/ SoldToAnother(d)'
  BY <1>1, SoldStays DEF ListInv, ListedAt
<1>4. Answered(d, "ValueError")' =>
         /\ op'[d] \in TicketRegistration
         /\ wire'[d].stage = "register_ok"
         /\ SoldToAnother(d)'
  <2>. SUFFICES ASSUME Answered(d, "ValueError")'
                PROVE  /\ op'[d] \in TicketRegistration
                       /\ wire'[d].stage = "register_ok"
                       /\ SoldToAnother(d)'
    OBVIOUS
  <2>1. Answered(d, "ValueError") /\ pc[d] = "done"
    BY DEF Answered, TypeInv, Phases, Phase
  <2>. QED  BY <1>1, <2>1, SoldStays DEF ListInv, ListedAt
<1>. QED  BY <1>2, <1>3, <1>4 DEF ListedAt, MadeFor

\* A cache whose entries are kept or dropped is still right.
LEMMA StoreStays ==
    ASSUME TypeInv, CallInv, ListInv, [Next]_vars,
           \A e \in Events : store'[e] \in {store[e], None}
    PROVE  StoreInv'
<1>. SUFFICES ASSUME NEW e \in Events, store'[e] # None
              PROVE  MadeFor(store[e], e)'
  BY DEF StoreInv, MadeFor
<1>1. store[e] \in Calls /\ MadeFor(store[e], e) /\ store'[e] = store[e]
  BY DEF ListInv, StoreInv, TypeInv, TypeOK, CacheTypeOK
<1>2. PICK l \in Calls : l = store[e]
  BY <1>1
<1>3. MadeFor(l, e)'
  BY <1>1, <1>2, MadeStays
<1>. QED  BY <1>1, <1>2, <1>3 DEF MadeFor

\* A step of c that gives out no list and sells no seat.
LEMMA ListQuiet ==
    ASSUME TypeInv, CallInv, ListInv, [Next]_vars, NEW c \in Calls,
           \/ LookupKey(c) \/ EventRefused(c) \/ CacheMiss(c) \/ SeatsFail(c)
           \/ RegisterUnlisted(c) \/ RegisterRefused(c) \/ RegisterFails(c)
           \/ Commit(c) \/ CommitClash(c) \/ Respond(c) \/ ReadTicket(c)
           \/ UnregisterReturn(c) \/ UnregisterMissing(c) \/ UnregisterFails(c)
           \/ CommitCancel(c) \/ DatabaseFails(c)
    PROVE  ListInv'
<1>1. /\ UNCHANGED lists
      /\ \A e \in Events : store'[e] \in {store[e], None}
  BY DEF LookupKey, EventRefused, CacheMiss, SeatsFail, RegisterUnlisted, RegisterRefused,
         RegisterFails, Commit, CommitClash, Respond, ReadTicket, UnregisterReturn,
         UnregisterMissing, UnregisterFails, CommitCancel, DatabaseFails, CacheInvalidate,
         cacheVars, TypeInv, TypeOK, CacheTypeOK
<1>2. /\ UNCHANGED op
      /\ \A d \in Calls \ {c} : UNCHANGED <<pc[d], held[d], answer[d]>>
  BY StepKeeps DEF Step
<1>3. /\ pc'[c] # "register"
      /\ \/ held'[c] = None
         \/ held' = held /\ pc[c] # "register"
      /\ \/ answer' = answer
         \/ RegisterUnlisted(c)
         \/ answer'[c].outcome # "ValueError"
  <2>1. CASE CacheMiss(c) \/ Commit(c) \/ UnregisterReturn(c) \/ CommitCancel(c)
    BY <2>1 DEF CacheMiss, EventAccepted, Commit, UnregisterReturn, CommitCancel, Await,
                Goto, TypeInv, TypeOK
  <2>2. CASE LookupKey(c) \/ ReadTicket(c)
    BY <2>2 DEF LookupKey, ReadTicket, Await, Raise, AnswerWith, Goto, TypeInv, TypeOK
  <2>3. CASE EventRefused(c) \/ SeatsFail(c) \/ RegisterRefused(c) \/ RegisterFails(c)
             \/ CommitClash(c)
    BY <2>3 DEF EventRefused, SeatsFail, RegisterRefused, RegisterFails, CommitClash,
                Raise, AnswerWith, Goto, TypeInv, TypeOK
  <2>4. CASE Respond(c) \/ UnregisterMissing(c) \/ UnregisterFails(c) \/ DatabaseFails(c)
             \/ RegisterUnlisted(c)
    BY <2>4 DEF Respond, UnregisterMissing, UnregisterFails, DatabaseFails,
                RegisterUnlisted, Raise, AnswerWith, Goto, TypeInv, TypeOK
  <2>. QED  BY <2>1, <2>2, <2>3, <2>4
<1>4. held[c] # None => pc[c] = "register"
  BY DEF ListInv, ListedAt
<1>5. ASSUME NEW d \in Calls, ~ (d = c /\ RegisterUnlisted(c))
      PROVE  ListedAt(d)'
  <2>1. CASE d # c
    BY <1>1, <1>2, <2>1, ListedStays DEF ListInv, ListedAt
  <2>2. CASE d = c
    BY <1>1, <1>3, <1>4, <1>5, <2>2, ListedStays DEF Answered
  <2>. QED  BY <2>1, <2>2
<1>6. ASSUME RegisterUnlisted(c)
      PROVE  ListedAt(c)'
  <2>1. /\ op[c] \in TicketRegistration /\ wire[c].stage = "register_ok"
        /\ SoldToAnother(c) /\ pc[c] = "register"
        /\ UNCHANGED <<op, wire>>
    BY <1>2, <1>6 DEF RegisterUnlisted, ListInv, ListedAt, TypeInv, Phases, Phase,
                      providerVars
  <2>2. SoldToAnother(c)'
    BY <2>1, SoldStays
  <2>3. held'[c] = None
    BY <1>6 DEF RegisterUnlisted, Raise, AnswerWith, TypeInv, TypeOK
  <2>. QED  BY <1>3, <2>1, <2>2, <2>3 DEF ListedAt, Answered
<1>. QED  BY <1>1, <1>5, <1>6, StoreStays DEF ListInv

\* The call that asked makes the list; others had it from the cache.
LEMMA ListUseSeats ==
    ASSUME TypeInv, CallInv, ListInv, [Next]_vars, NEW c \in Calls,
           CacheHit(c) \/ SeatsReturn(c)
    PROVE  ListInv'
<1>1. /\ pc[c] \in {"event", "seats"} /\ op[c].event \in Events
      /\ op[c] \in TicketRegistration \cup SeatsQuery
      /\ held[c] = None /\ answer[c] = None
      /\ CacheHit(c) => pc[c] = "event" /\ store[op[c].event] \in Calls
      /\ SeatsReturn(c) => pc[c] = "seats"
  BY DEF CacheHit, EventAccepted, CacheGet, SeatsReturn, TypeInv, TypeOK, CacheTypeOK,
         Phases, Phase, TicketRegistration, SeatsQuery, ListInv, ListedAt
<1>2. PICK e \in Events, l \in Calls :
        e = op[c].event /\ l = (IF pc[c] = "seats" THEN c ELSE store[op[c].event])
  BY <1>1
<1>3. UNCHANGED op /\ \A d \in Calls \ {c} : UNCHANGED <<pc[d], held[d], answer[d]>>
  BY StepKeeps DEF Step
<1>4. \/ /\ pc'[c] = "done" /\ held'[c] = None
         /\ answer'[c].outcome # "ValueError"
      \/ /\ pc'[c] = "register" /\ held'[c] = l /\ answer'[c] = None
         /\ op[c].seat \in lists'[l]
  <2>1. CASE CacheHit(c)
    BY <1>1, <1>2, <2>1 DEF CacheHit, EventAccepted, CacheGet, UseSeats, Raise, AnswerWith,
                            Goto, cacheVars, TypeInv, TypeOK, CacheTypeOK
  <2>2. CASE SeatsReturn(c)
    BY <1>1, <1>2, <2>2 DEF SeatsReturn, CacheNew, UseSeats, Raise, AnswerWith, Goto,
                      TypeInv, TypeOK, CacheTypeOK, ProviderTypeOK, Exchange
  <2>. QED  BY <2>1, <2>2
<1>5. MadeFor(l, e)'
  <2>1. CASE SeatsReturn(c)
    BY <1>1, <1>2, <1>3, <1>4, <2>1 DEF MadeFor
  <2>2. CASE CacheHit(c)
    <3>1. MadeFor(l, e)
      BY <1>1, <1>2, <2>2, NoneIsNoValue DEF ListInv, StoreInv
    <3>. QED  BY <3>1, MadeStays
  <2>. QED  BY <2>1, <2>2
<1>6. StoreInv'
  <2>1. CASE CacheHit(c)
    BY <2>1, StoreStays DEF CacheHit, cacheVars
  <2>2. CASE SeatsReturn(c)
    <3>1. store' = [store EXCEPT ![e] = l]
      BY <1>1, <1>2, <2>2 DEF SeatsReturn, CacheNew
    <3>. SUFFICES ASSUME NEW f \in Events, f # e, store'[f] # None
                  PROVE  MadeFor(store[f], f)'
      BY <1>5, <3>1 DEF StoreInv, MadeFor, TypeInv, TypeOK, CacheTypeOK
    <3>2. store'[f] = store[f] /\ store[f] \in Calls /\ MadeFor(store[f], f)
      BY <3>1 DEF ListInv, StoreInv, TypeInv, TypeOK, CacheTypeOK
    <3>3. PICK m \in Calls : m = store[f]
      BY <3>2
    <3>4. MadeFor(m, f)'
      BY <3>2, <3>3, MadeStays
    <3>. QED  BY <3>2, <3>3, <3>4 DEF MadeFor
  <2>. QED  BY <2>1, <2>2
<1>7. ASSUME NEW d \in Calls, d # c
      PROVE  ListedAt(d)'
  <2>1. held[d] # None => held[d] \in Calls /\ lists'[held[d]] = lists[held[d]]
    <3>1. CASE CacheHit(c)
      BY <3>1 DEF CacheHit, cacheVars, TypeInv, TypeOK
    <3>2. CASE SeatsReturn(c)
      <4>1. held[d] # None => held[d] \in Calls /\ held[d] # c
        BY <1>1, <3>2 DEF ListInv, ListedAt, MadeFor, TypeInv, TypeOK
      <4>. QED  BY <3>2, <4>1 DEF SeatsReturn, CacheNew, TypeInv, TypeOK, CacheTypeOK
    <3>. QED  BY <3>1, <3>2
  <2>2. /\ held'[d] = held[d] /\ pc'[d] = pc[d] /\ answer'[d] = answer[d]
        /\ held[d] # None => pc[d] = "register"
        /\ pc[d] = "register" => held[d] # None
    BY <1>3, <1>7, NoneIsNoValue DEF ListInv, ListedAt, TypeInv, Phases, Phase
  <2>. QED  BY <2>1, <2>2, ListedStays
<1>8. ListedAt(c)'
  BY <1>2, <1>3, <1>4, <1>5, NoneIsNoAnswer DEF ListedAt, MadeFor, Answered
<1>. QED  BY <1>6, <1>7, <1>8 DEF ListInv

\* A registration that goes on takes its seat from the list: the others that
\* hold the list and want the seat have it as the one it was sold to.
LEMMA ListSell ==
    ASSUME TypeInv, CallInv, ListInv, [Next]_vars, NEW c \in Calls,
           RegisterConfirmed(c)
    PROVE  ListInv'
<1>1. /\ pc[c] = "register" /\ op[c] \in TicketRegistration
      /\ op[c].event \in Events /\ held[c] \in Calls
      /\ MadeFor(held[c], op[c].event)
      /\ wire[c].stage = "register_ok" /\ answer[c] = None
  BY NoneIsNoValue
     DEF RegisterConfirmed, TypeInv, Phases, Phase, TicketRegistration, ListInv, ListedAt
<1>2. PICK e \in Events, l \in Calls : e = op[c].event /\ l = held[c]
  BY <1>1
<1>3. /\ UNCHANGED <<op, answer, wire>>
      /\ pc' = [pc EXCEPT ![c] = "commit"]
      /\ held' = [held EXCEPT ![c] = None]
      /\ store' = [store EXCEPT ![e] = l]
      /\ lists' = [lists EXCEPT ![l] = @ \ {op[c].seat}]
  BY <1>2 DEF RegisterConfirmed, CacheSell, Goto, providerVars
<1>4. MadeFor(l, e)'
  BY <1>1, <1>2, MadeStays
<1>5. StoreInv'
  <2>. SUFFICES ASSUME NEW f \in Events, f # e, store'[f] # None
                PROVE  MadeFor(store[f], f)'
    BY <1>3, <1>4 DEF StoreInv, MadeFor, TypeInv, TypeOK, CacheTypeOK
  <2>1. store'[f] = store[f] /\ store[f] \in Calls /\ MadeFor(store[f], f)
    BY <1>3 DEF ListInv, StoreInv, TypeInv, TypeOK, CacheTypeOK
  <2>2. PICK m \in Calls : m = store[f]
    BY <2>1
  <2>3. MadeFor(m, f)'
    BY <2>1, <2>2, MadeStays
  <2>. QED  BY <2>1, <2>2, <2>3 DEF MadeFor
<1>6. ASSUME NEW d \in Calls, d # c
      PROVE  ListedAt(d)'
  <2>1. /\ held'[d] = held[d] /\ pc'[d] = pc[d] /\ answer'[d] = answer[d]
        /\ held[d] # None => pc[d] = "register"
        /\ pc[d] = "register" => held[d] \in Calls /\ MadeFor(held[d], op[d].event)
    BY <1>3, <1>6, NoneIsNoValue DEF ListInv, ListedAt, TypeInv, TypeOK, Phases, Phase
  <2>2. ASSUME pc[d] = "register", op[d].seat \in lists[held[d]],
               op[d].seat \notin lists'[held[d]]
        PROVE  SoldToAnother(d)'
    <3>1. held[d] = l /\ op[d].seat = op[c].seat
      BY <1>3, <2>1, <2>2 DEF TypeInv, TypeOK, CacheTypeOK
    <3>2. op[d].event = op[c].event
      BY <1>1, <1>2, <2>1, <2>2, <3>1 DEF MadeFor
    <3>3. pc'[c] # "register"
      BY <1>3 DEF TypeInv, TypeOK
    <3>. QED  BY <1>1, <1>3, <1>6, <3>1, <3>2, <3>3 DEF SoldToAnother
  <2>. QED  BY <2>1, <2>2, ListedStays
<1>7. ListedAt(c)'
  BY <1>1, <1>3 DEF ListedAt, Answered, TypeInv, TypeOK
<1>. QED  BY <1>5, <1>6, <1>7 DEF ListInv

\* Every step keeps the lists of seats in order.
LEMMA ListNext ==
    ASSUME TypeInv, CallInv, ListInv, [Next]_vars
    PROVE  ListInv'
<1>1. ASSUME NEW c \in Calls, Step(c)  PROVE ListInv'
  BY <1>1, ListQuiet, ListUseSeats, ListSell DEF Step
<1>2. ASSUME NEW c \in Calls, Arrive(c)  PROVE ListInv'
  <2>1. /\ pc[c] = "idle" /\ answer[c] = None /\ held[c] = None
        /\ pc'[c] # "register" /\ UNCHANGED <<answer, held, store, lists>>
        /\ \A d \in Calls : d # c => pc'[d] = pc[d]
    BY <1>2 DEF Arrive, Goto, cacheVars, TypeInv, TypeOK, Phases, Phase, ListInv, ListedAt
  <2>2. ASSUME NEW d \in Calls  PROVE ListedAt(d)'
    <3>1. held[d] # None => pc[d] = "register"
      BY DEF ListInv, ListedAt
    <3>. QED  BY <2>1, <3>1, ListedStays
  <2>. QED  BY <2>1, <2>2, StoreStays DEF ListInv
<1>3. CASE \/ \E c \in Calls : Provider(c)
           \/ \E e \in Events : EventSynced(e) \/ SeatsExpire(e)
           \/ CleanKeys \/ UNCHANGED vars
  <2>1. UNCHANGED <<pc, held, answer, lists>>
    BY <1>3 DEF Provider, EventSynced, SeatsExpire, CacheExpire, CacheInvalidate,
                CleanKeys, vars, callVars, cacheVars
  <2>2. \A e \in Events : store'[e] \in {store[e], None}
    BY <1>3 DEF Provider, EventSynced, SeatsExpire, CacheExpire, CacheInvalidate,
                CleanKeys, vars, cacheVars, TypeInv, TypeOK, CacheTypeOK
  <2>3. ASSUME NEW d \in Calls  PROVE ListedAt(d)'
    <3>1. held[d] # None => pc[d] = "register"
      BY DEF ListInv, ListedAt
    <3>. QED  BY <2>1, <3>1, ListedStays
  <2>. QED  BY <2>2, <2>3, StoreStays DEF ListInv
<1>4. CASE Crash
  <2>1. \A d \in Calls : pc'[d] # "register" /\ held'[d] = None /\ answer'[d] = answer[d]
    BY <1>4 DEF Crash, Running, AwaitsProvider
  <2>2. \A e \in Events : store'[e] = None
    BY <1>4 DEF Crash, CacheLost
  <2>. QED  BY <2>1, <2>2, ListedStays, StoreStays DEF ListInv
<1>. QED  BY <1>1, <1>2, <1>3, <1>4 DEF Next

\* The lists of seats are in order at all times.
LEMMA ListInvariant == Spec => []ListInv
<1>1. Init => ListInv
  BY DEF Init, CacheInit, ListInv, StoreInv, ListedAt, Answered
<1>. QED  BY <1>1, ListNext, TypeInvariant, CallInvariant, PTL DEF Spec

\* Sharing one list of seats between calls never loses the sale of a seat that
\* was sold only once: remove() raises ValueError only after a cancellation
\* has had the seat sold a second time.
THEOREM SharedListsLoseResalesOnly == Spec => []LostSaleIsResale
<1>1. TypeInv /\ HoldInv /\ ListInv /\ ErrorsTellStored => LostSaleIsResale
  <2>. SUFFICES ASSUME TypeInv, HoldInv, ListInv, ErrorsTellStored,
                       NEW c \in Calls, Answered(c, "ValueError")
                PROVE  \E t \in Calls \ {c}, x \in Calls :
                          /\ Stored(t)
                          /\ op[t].event = op[c].event /\ op[t].seat = op[c].seat
                          /\ op[x] # None /\ op[x].kind = "cancel" /\ op[x].ticket = t
                          /\ wire[x].stage = "unregister_ok"
    BY DEF LostSaleIsResale
  <2>1. /\ op[c] \in TicketRegistration
        /\ wire[c].stage = "register_ok"
        /\ SoldToAnother(c)
    BY DEF ListInv, ListedAt
  <2>2. PICK d \in Calls \ {c} :
          /\ op[d].event = op[c].event /\ op[d].seat = op[c].seat
          /\ wire[d].stage = "register_ok"
    BY <2>1 DEF SoldToAnother
  <2>3. \A x \in Calls : wire[x].stage = "unregister_ok" =>
                            op[x] \in Unregistration /\ Stored(op[x].ticket)
    BY DEF TypeInv, Phases, WirePhase
  <2>4. Booked(c)
    <3>1. ~ Stored(c)
      BY <2>1 DEF ErrorsTellStored, Answered, TicketRegistration
    <3>. QED  BY <2>1, <2>3, <3>1 DEF HoldInv, ConfirmedHolds, Releases
  <2>5. booked[op[c].event][op[c].seat] = c
    BY <2>4, NoneIsNoValue DEF Booked, Holds, HoldInv, HolderIsConfirmed
  <2>6. ~ Booked(d)
    BY <2>2, <2>5, NoneIsNoValue DEF Booked, Holds, HoldInv, HolderIsConfirmed
  <2>7. PICK x \in Calls : Releases(x, d)
    BY <2>2, <2>6 DEF HoldInv, ConfirmedHolds
  <2>8. /\ Stored(d) /\ op[x].kind = "cancel" /\ op[x] # None
        /\ op[x].ticket = d /\ wire[x].stage = "unregister_ok"
    BY <2>3, <2>7, NoneIsNoPayload DEF Releases, Unregistration
  <2>. QED  BY <2>2, <2>8
<1>. QED  BY <1>1, TypeInvariant, HoldInvariant, ListInvariant, ErrorsAreHonest, PTL
=============================================================================
