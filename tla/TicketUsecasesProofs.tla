------------------------ MODULE TicketUsecasesProofs ------------------------
(***************************************************************************)
(* Theorems about TicketUsecases, for any sets of calls, events, seats,    *)
(* persons, keys, payloads and event rows.                                 *)
(***************************************************************************)
EXTENDS TicketUsecases, TLAPS

-----------------------------------------------------------------------------
(* Type correctness.  TypeOK alone is not inductive: that a call reads      *)
(* op[c].seat only when its payload has one follows from where it is.       *)

\* What the await of call c tells about its payload and its locals.
Phase(c) ==
    /\ pc[c] = "idle" <=> op[c] = None
    /\ answer[c] # None => pc[c] = "done"
    /\ pc[c] = "lookup" => op[c] \in TicketRegistration /\ op[c].key # None
    /\ pc[c] \in {"event", "seats"} => op[c] \in TicketRegistration \cup SeatsQuery
    /\ pc[c] \in {"register", "commit"} => op[c] \in TicketRegistration
    /\ pc[c] = "register" => held[c] \in Calls
    /\ pc[c] \in {"ticket", "unregister", "cancel_commit"} =>
          op[c] \in Unregistration
    /\ pc[c] \in {"unregister", "cancel_commit"} => Stored(op[c].ticket)
    /\ pc[c] = "committed" => op[c] \in TicketRegistration \cup Unregistration

\* What the stage of its request tells about the payload of call c.
WirePhase(c) ==
    /\ wire[c].stage \in {"seats_sent", "seats_ok"} =>
          op[c] \in TicketRegistration \cup SeatsQuery
    /\ wire[c].stage \in {"register_sent", "register_ok", "register_refused"} =>
          op[c] \in TicketRegistration
    /\ wire[c].stage \in {"unregister_sent", "unregister_ok",
                          "unregister_missing"} =>
          op[c] \in Unregistration /\ Stored(op[c].ticket)

Phases == \A c \in Calls : Phase(c) /\ WirePhase(c)

TypeInv == TypeOK /\ Phases

\* Payloads are told apart by their kind.
LEMMA Kinds ==
    ASSUME NEW o \in Requests
    PROVE  /\ o # None
           /\ o.kind \in {"create", "cancel", "seats"}
           /\ o.kind = "create" <=> o \in TicketRegistration
           /\ o.kind = "cancel" <=> o \in Unregistration
           /\ o.kind = "seats" <=> o \in SeatsQuery
BY RequestsAreRequests, NoneIsNoValue
   DEF Request, TicketRegistration, Unregistration, SeatsQuery

\* No payload a client sends is mistaken for "not arrived yet".
LEMMA NoneIsNoPayload ==
    None \notin TicketRegistration \cup Unregistration \cup SeatsQuery
BY NoneIsNoValue DEF Request

\* A fresh process on an empty database is well typed.
LEMMA TypeInit == Init => TypeInv
BY NoneIsNoValue, NoneIsNoAnswer
   DEF Init, TypeInv, TypeOK, CacheTypeOK, ProviderTypeOK, CacheInit, ProviderInit,
       Phases, Phase, WirePhase, PC, Exchange, Stage, Stored

\* A payload that arrives starts at the first await of its use case.
LEMMA TypeArrive ==
    ASSUME TypeInv, NEW c \in Calls, Arrive(c)
    PROVE  TypeInv'
<1>1. PICK o \in Requests :
        /\ op' = [op EXCEPT ![c] = o]
        /\ Goto(c, IF o.kind = "cancel" THEN "ticket"
                   ELSE IF o.kind = "create" /\ o.key # None THEN "lookup"
                   ELSE "event")
  BY DEF Arrive
<1>2. /\ pc[c] = "idle"
      /\ UNCHANGED <<held, answer, tables, forgotten, cacheVars, providerVars>>
      /\ offered' \in {offered, offered \cup {c}}
  BY DEF Arrive
<1>3. TypeOK'
  BY <1>1, <1>2 DEF TypeInv, TypeOK, CacheTypeOK, ProviderTypeOK, tables, cacheVars,
     providerVars, Goto, PC, Running, AwaitsDatabase, AwaitsProvider
<1>4. ASSUME NEW d \in Calls
      PROVE  (Phase(d) /\ WirePhase(d))'
  <2>. Phase(d) /\ WirePhase(d)
    BY DEF TypeInv, Phases
  <2>1. CASE d = c
    BY <1>1, <1>2, <2>1, Kinds, NoneIsNoPayload
       DEF Goto, Phase, WirePhase, Stored, TypeInv, TypeOK, tables, providerVars
  <2>2. CASE d # c
    BY <1>1, <1>2, <2>2
       DEF Goto, Phase, WirePhase, Stored, TypeInv, TypeOK, tables, providerVars
  <2>. QED  BY <2>1, <2>2
<1>. QED  BY <1>3, <1>4 DEF TypeInv, Phases

\* A call ends with an answer; its request is left on the wire or forgotten.
LEMMA TypeAnswer ==
    ASSUME TypeInv, NEW c \in Calls, pc[c] # "idle",
           NEW outcome \in Outcome, NEW t \in Calls \cup {None},
           AnswerWith(c, outcome, t), TablesUnchanged,
           CacheTypeOK', UNCHANGED booked, UNCHANGED wire \/ SetStage(c, "idle")
    PROVE  TypeInv'
<1>1. TypeOK'
  BY DEF TypeInv, TypeOK, Goto, AnswerWith, PC, Answer, TablesUnchanged, tables, history,
         ProviderTypeOK, SetStage, Exchange, Stage
<1>2. ASSUME NEW d \in Calls  PROVE Phase(d)' /\ WirePhase(d)'
  <2>1. Phase(d) /\ WirePhase(d)
    BY DEF TypeInv, Phases
  <2>2. UNCHANGED <<op, tickets>>
    BY DEF AnswerWith, TablesUnchanged, tables, history
  <2>3. Phase(d)'
    BY <2>1, <2>2 DEF TypeInv, TypeOK, Phase, Stored, Goto, AnswerWith
  <2>4. WirePhase(d)'
    BY <2>1, <2>2 DEF TypeInv, TypeOK, ProviderTypeOK, WirePhase, Stored, SetStage
  <2>. QED  BY <2>3, <2>4
<1>. QED  BY <1>1, <1>2 DEF TypeInv, Phases

\* The list of free seats is in hand, and the cache is as its step left it.
LEMMA TypeUseSeats ==
    ASSUME TypeInv, NEW c \in Calls, pc[c] \in {"event", "seats"},
           NEW l \in Calls, NEW seats, UseSeats(c, l, seats),
           TablesUnchanged, CacheTypeOK', UNCHANGED booked
    PROVE  TypeInv'
<1>1. CASE \E outcome \in Outcome : AnswerWith(c, outcome, None)
                                    /\ SetStage(c, "idle")
  BY <1>1, TypeAnswer
<1>2. CASE /\ op[c].kind = "create"
           /\ Goto(c, "register")
           /\ held' = [held EXCEPT ![c] = l]
           /\ UNCHANGED <<op, answer>>
           /\ SetStage(c, "register_sent")
  <2>1. op[c] \in TicketRegistration
    BY <1>2 DEF TypeInv, Phases, Phase, SeatsQuery
  <2>. QED
    BY <1>2, <2>1
       DEF TypeInv, TypeOK, Phases, Phase, WirePhase, Stored, Goto, PC, Running,
           AwaitsProvider, TablesUnchanged, tables, history, ProviderTypeOK, SetStage,
           Exchange, Stage
<1>. QED
  BY <1>1, <1>2 DEF UseSeats, Raise, Outcome, Returned, Handled

\* Every way a call can raise, from whatever it awaits.
LEMMA TypeRaise ==
    ASSUME TypeInv, NEW c \in Calls,
           \/ ReadTicket(c) /\ NoTicket(op[c].ticket)
           \/ EventRefused(c) \/ SeatsFail(c) \/ RegisterUnlisted(c)
           \/ RegisterRefused(c) \/ RegisterFails(c) \/ CommitClash(c)
           \/ UnregisterMissing(c) \/ UnregisterFails(c) \/ DatabaseFails(c)
    PROVE  TypeInv'
<1>1. PICK outcome \in Handled \cup Unhandled :
        AnswerWith(c, outcome, None) /\ pc[c] # "idle"
  BY DEF ReadTicket, EventRefused, SeatsFail, RegisterUnlisted, RegisterRefused,
         RegisterFails, CommitClash, UnregisterMissing, UnregisterFails,
         DatabaseFails, Raise, Handled, Unhandled, AwaitsDatabase
<1>2. /\ TablesUnchanged
      /\ UNCHANGED <<cacheVars, booked>>
      /\ UNCHANGED wire \/ SetStage(c, "idle")
  BY DEF ReadTicket, EventRefused, SeatsFail, RegisterUnlisted, RegisterRefused,
         RegisterFails, CommitClash, UnregisterMissing, UnregisterFails,
         DatabaseFails, providerVars
<1>3. CacheTypeOK'
  BY <1>2 DEF TypeInv, TypeOK, CacheTypeOK, cacheVars
<1>. QED  BY <1>1, <1>2, <1>3, TypeAnswer DEF Outcome

\* The steps of a registration or a listing keep the types.
LEMMA TypeCreate ==
    ASSUME TypeInv, NEW c \in Calls,
           LookupKey(c) \/ CacheHit(c) \/ SeatsReturn(c) \/ Respond(c)
    PROVE  TypeInv'
<1>1. CASE LookupKey(c)
  <2>1. op[c] \in TicketRegistration /\ op[c].key \in Keys
    BY <1>1 DEF LookupKey, TypeInv, Phases, Phase, TicketRegistration
  <2>2. CacheTypeOK' /\ UNCHANGED <<wire, booked>> /\ TablesUnchanged
    BY <1>1 DEF LookupKey, TypeInv, TypeOK, CacheTypeOK, cacheVars, providerVars
  <2>3. CASE Await(c, "event")
    BY <1>1, <2>1, <2>2, <2>3, NoneIsNoPayload
       DEF LookupKey, TypeInv, TypeOK, Phases, Phase, WirePhase, Await, Goto, PC, Running,
           AwaitsDatabase, TablesUnchanged, tables, history, ProviderTypeOK, Stored
  <2>4. CASE Raise(c, "IdempotencyConflictError")
    BY <1>1, <2>2, <2>4, TypeAnswer DEF LookupKey, Raise, Outcome, Handled
  <2>5. CASE keys[op[c].key] # None
             /\ AnswerWith(c, "Created", keys[op[c].key].ticket)
    <3>1. keys[op[c].key].ticket \in Calls
      BY <2>1, <2>5 DEF TypeInv, TypeOK, IdempotencyKey
    <3>. QED  BY <1>1, <2>2, <2>5, <3>1, TypeAnswer DEF LookupKey, Outcome, Returned
  <2>. QED  BY <1>1, <2>3, <2>4, <2>5 DEF LookupKey
<1>2. CASE CacheHit(c)
  <2>1. /\ op[c].event \in Events
        /\ pc[c] = "event"
    BY <1>2 DEF CacheHit, EventAccepted, TypeInv, Phases, Phase, TicketRegistration,
                SeatsQuery
  <2>2. store[op[c].event] \in Calls /\ CacheTypeOK'
    BY <1>2, <2>1 DEF CacheHit, CacheGet, TypeInv, TypeOK, CacheTypeOK, cacheVars
  <2>. QED  BY <1>2, <2>1, <2>2, TypeUseSeats DEF CacheHit, CacheGet
<1>3. CASE SeatsReturn(c)
  <2>1. op[c].event \in Events /\ pc[c] = "seats"
    BY <1>3 DEF SeatsReturn, TypeInv, Phases, Phase, TicketRegistration, SeatsQuery
  <2>2. CacheTypeOK'
    BY <1>3, <2>1 DEF SeatsReturn, CacheNew, TypeInv, TypeOK, CacheTypeOK,
                      ProviderTypeOK, Exchange
  <2>. QED  BY <1>3, <2>1, <2>2, TypeUseSeats DEF SeatsReturn
<1>4. CASE Respond(c)
  <2>1. /\ op[c] \in TicketRegistration \cup Unregistration
        /\ op[c].kind # "create" => op[c].ticket \in Calls
    BY <1>4 DEF Respond, TypeInv, Phases, Phase, Unregistration, TicketRegistration
  <2>2. CacheTypeOK' /\ UNCHANGED <<wire, booked>> /\ TablesUnchanged
    BY <1>4 DEF Respond, TypeInv, TypeOK, CacheTypeOK, cacheVars, providerVars
  <2>. QED  BY <1>4, <2>1, <2>2, TypeAnswer DEF Respond, Outcome, Returned
<1>. QED  BY <1>1, <1>2, <1>3, <1>4

\* So do the steps that only move a call, and those of a cancellation.
LEMMA TypeMove ==
    ASSUME TypeInv, NEW c \in Calls,
           \/ CacheMiss(c) \/ RegisterConfirmed(c) \/ Commit(c)
           \/ ReadTicket(c) /\ ~ NoTicket(op[c].ticket)
           \/ UnregisterReturn(c) \/ CommitCancel(c)
    PROVE  TypeInv'
<1>. USE NoneIsNoPayload, NoneIsNoValue
     DEF TypeInv, TypeOK, Phases, Phase, WirePhase, Stored, Goto, Await,
         TablesUnchanged, tables, history, cacheVars, providerVars, CacheTypeOK,
         ProviderTypeOK, PC, Running, AwaitsDatabase, AwaitsProvider, Exchange, Stage, SetStage
<1>1. CASE CacheMiss(c)
  BY <1>1 DEF CacheMiss, EventAccepted
<1>2. CASE RegisterConfirmed(c)
  BY <1>2 DEF RegisterConfirmed, CacheSell, TicketRegistration
<1>3. CASE Commit(c)
  BY <1>3 DEF Commit, Ticket, TicketStatus, IdempotencyKey, RequestHash, Hash,
              TicketRegistration
<1>4. CASE ReadTicket(c) /\ ~ NoTicket(op[c].ticket)
  <2>1. /\ op[c] \in Unregistration /\ pc[c] = "ticket"
        /\ Stored(op[c].ticket)
        /\ SetStage(c, "unregister_sent")
    BY <1>4 DEF ReadTicket, NoTicket
  <2>. QED  BY <1>4, <2>1 DEF ReadTicket
<1>6. CASE UnregisterReturn(c)
  BY <1>6 DEF UnregisterReturn, CacheInvalidate, EventOf, Unregistration, Ticket
<1>7. CASE CommitCancel(c)
  BY <1>7 DEF CommitCancel, Ticket, TicketStatus, EventOf, Unregistration
<1>. QED  BY <1>1, <1>2, <1>3, <1>4, <1>6, <1>7

\* So does the provider, whichever request it handles.
LEMMA TypeProvider ==
    ASSUME TypeInv, NEW c \in Calls, Provider(c)
    PROVE  TypeInv'
<1>. USE DEF TypeInv, TypeOK, Phases, Phase, WirePhase, Stored, tables, history,
             callVars, cacheVars, CacheTypeOK, ProviderTypeOK, Exchange, Stage, SetStage
<1>1. CASE ProviderListSeats(c, op[c].event)
  BY <1>1 DEF Provider, ProviderListSeats
<1>2. CASE ProviderRegister(c, op[c].event, op[c].seat)
  BY <1>2 DEF Provider, ProviderRegister, TicketRegistration
<1>3. CASE ProviderRefuse(c)
  BY <1>3 DEF Provider, ProviderRefuse
<1>4. CASE ProviderUnregister(c, EventOf(c), op[c].ticket)
  <2> DEFINE e == EventOf(c)
             released == [s \in Seats |-> IF booked[e][s] = op[c].ticket THEN None
                                          ELSE booked[e][s]]
  <2>1. e \in Events
    BY <1>4 DEF ProviderUnregister, EventOf, Unregistration, Ticket
  <2>2. released \in [Seats -> Calls \cup {None}]
    BY <2>1
  <2>3. booked' \in {booked, [booked EXCEPT ![e] = released]}
    BY <1>4 DEF ProviderUnregister
  <2>4. booked' \in [Events -> [Seats -> Calls \cup {None}]]
    BY <2>1, <2>2, <2>3
  <2>5. /\ wire[c].stage = "unregister_sent"
        /\ \E stage \in {"unregister_ok", "unregister_missing"} : SetStage(c, stage)
    BY <1>4 DEF ProviderUnregister
  <2>6. UNCHANGED <<callVars, tables, history, cacheVars>>
    BY DEF Provider
  <2>. HIDE DEF e, released
  <2>. QED  BY <2>4, <2>5, <2>6
<1>. QED  BY <1>1, <1>2, <1>3, <1>4 DEF Provider

\* So do cleanup, synchronisation, expiry and crashes.
LEMMA TypeSurroundings ==
    ASSUME TypeInv,
           \/ \E e \in Events : EventSynced(e) \/ SeatsExpire(e)
           \/ CleanKeys \/ Crash \/ UNCHANGED vars
    PROVE  TypeInv'
<1>. USE DEF TypeInv, TypeOK, Phases, Phase, WirePhase, Stored, tables, history,
             callVars, cacheVars, providerVars, CacheTypeOK, ProviderTypeOK
<1>1. ASSUME NEW e \in Events, EventSynced(e)  PROVE TypeInv'
  BY <1>1 DEF EventSynced
<1>2. ASSUME NEW e \in Events, SeatsExpire(e)  PROVE TypeInv'
  BY <1>2 DEF SeatsExpire, CacheExpire, CacheInvalidate
<1>3. CASE CleanKeys
  BY <1>3 DEF CleanKeys, IdempotencyKey
<1>4. CASE Crash
  BY <1>4 DEF Crash, CacheLost, ProviderForgetsReads, PC, Running, AwaitsDatabase,
              AwaitsProvider, Exchange, Stage
<1>5. CASE UNCHANGED vars
  BY <1>5 DEF vars
<1>. QED  BY <1>1, <1>2, <1>3, <1>4, <1>5

\* Every step keeps the types.
LEMMA TypeStep == TypeInv /\ [Next]_vars => TypeInv'
BY TypeArrive, TypeRaise, TypeCreate, TypeMove, TypeProvider, TypeSurroundings
   DEF Next, Step

\* The types, and which payload a call has where, hold at all times.
LEMMA TypeInvariant == Spec => []TypeInv
BY TypeInit, TypeStep, PTL DEF Spec

\* In every reachable state the calls, the tables, the cache and the provider
\* hold values of the kind the code expects to find in them.
THEOREM TypeCorrect == Spec => []TypeOK
BY TypeInvariant, PTL DEF TypeInv

-----------------------------------------------------------------------------
(* Idempotency keys and the rows of a registration.                        *)

Ended(c) == pc[c] \in {"committed", "done", "dead"}

\* A ticket is stored by a registration that has committed.
StoredByCreate ==
    /\ \A t \in Calls : Stored(t) => op[t] \in TicketRegistration /\ Ended(t)
    /\ \A c \in Calls : pc[c] = "committed" /\ op[c].kind = "create" => Stored(c)

\* The key row of a stored ticket names it until the cleanup deletes the row.
\* OneTicketPerKey follows: one row cannot name two tickets.
Names(row, t) == row # None /\ row.ticket = t

KeyNamesTicket ==
    \A t \in Calls : Stored(t) /\ op[t].key # None =>
        t \in forgotten \/ Names(keys[op[t].key], t)

KeyInv ==
    /\ StoredByCreate
    /\ KeyNamesTicket
    /\ RowsAllOrNothing
    /\ CreatedIsDurable
    /\ ConflictIsJustified

\* With no row in any table the key invariant holds.
LEMMA KeyInit == Init => KeyInv
BY DEF Init, KeyInv, StoredByCreate, KeyNamesTicket, RowsAllOrNothing,
       CreatedIsDurable, ConflictIsJustified, Stored, Answered

\* Steps that neither store a ticket, nor touch the keys, nor answer a client
\* anything the invariant speaks of.
LEMMA KeyQuiet ==
    ASSUME KeyInv, TypeInv,
           UNCHANGED <<op, keys, outbox, forgotten>>,
           \A t \in Calls : Stored(t)' <=> Stored(t),
           \A c \in Calls : Ended(c) => Ended(c)',
           \A c \in Calls : pc'[c] = "committed" =>
              pc[c] = "committed" \/ op[c].kind # "create",
           \A c \in Calls : \/ answer'[c] = answer[c]
                            \/ answer'[c].outcome \notin
                                  {"Created", "IdempotencyConflictError"}
    PROVE  KeyInv'
<1>1. StoredByCreate'
  BY DEF KeyInv, StoredByCreate
<1>2. KeyNamesTicket'
  BY DEF KeyInv, KeyNamesTicket
<1>3. RowsAllOrNothing'
  BY DEF KeyInv, RowsAllOrNothing, TypeInv, TypeOK, IdempotencyKey, RequestHash
<1>4. CreatedIsDurable'
  BY DEF KeyInv, CreatedIsDurable, Answered, RequestHash
<1>5. ConflictIsJustified'
  BY DEF KeyInv, ConflictIsJustified, Answered, RequestHash
<1>. QED  BY <1>1, <1>2, <1>3, <1>4, <1>5 DEF KeyInv

\* A lookup answers with the ticket of a row the invariant vouches for.
LEMMA KeyLookup ==
    ASSUME KeyInv, TypeInv, NEW c \in Calls, LookupKey(c)
    PROVE  KeyInv'
<1>1. /\ op[c] \in TicketRegistration /\ op[c].key \in Keys
      /\ pc[c] = "lookup"
  BY DEF LookupKey, TypeInv, Phases, Phase, TicketRegistration
<1>2. UNCHANGED <<op, tickets, keys, outbox, forgotten>>
  BY DEF LookupKey, Await, Raise, AnswerWith, TablesUnchanged, tables, history
<1>3. \A d \in Calls : /\ Ended(d) => Ended(d)'
                       /\ pc'[d] = "committed" => pc[d] = "committed"
  BY <1>1 DEF LookupKey, Await, Raise, AnswerWith, Goto, Ended, TypeInv, TypeOK
<1>4. StoredByCreate' /\ KeyNamesTicket' /\ RowsAllOrNothing'
  <2>1. StoredByCreate'
    BY <1>2, <1>3 DEF KeyInv, StoredByCreate, Stored
  <2>2. KeyNamesTicket' /\ RowsAllOrNothing'
    BY <1>2 DEF KeyInv, KeyNamesTicket, RowsAllOrNothing, Stored, RequestHash
  <2>. QED  BY <2>1, <2>2
<1>5. CreatedIsDurable' /\ ConflictIsJustified'
  <2>1. CASE UNCHANGED answer
    BY <1>2, <2>1 DEF KeyInv, CreatedIsDurable, ConflictIsJustified, Answered, Stored,
                      RequestHash
  <2>2. CASE keys[op[c].key] # None
    <3> DEFINE row == keys[op[c].key]
    <3>1. /\ row.ticket \in Calls /\ Stored(row.ticket)
          /\ op[row.ticket].key = op[c].key
          /\ row.hash = RequestHash(op[row.ticket])
      BY <1>1, <2>2 DEF KeyInv, RowsAllOrNothing, TypeInv, TypeOK, IdempotencyKey
    <3>2. \/ /\ row.hash # RequestHash(op[c])
             /\ answer' = [answer EXCEPT ![c] =
                   [outcome |-> "IdempotencyConflictError", ticket |-> None]]
          \/ /\ row.hash = RequestHash(op[c])
             /\ answer' = [answer EXCEPT ![c] =
                   [outcome |-> "Created", ticket |-> row.ticket]]
      BY <2>2 DEF LookupKey, Raise, AnswerWith
    <3>. HIDE DEF row
    <3>3. CreatedIsDurable'
      BY <1>1, <1>2, <3>1, <3>2, NoneIsNoValue
         DEF KeyInv, CreatedIsDurable, Answered, Stored, RequestHash, TypeInv, TypeOK
    <3>4. ConflictIsJustified'
      BY <1>1, <1>2, <3>1, <3>2
         DEF KeyInv, ConflictIsJustified, Answered, Stored, RequestHash, TypeInv, TypeOK
    <3>. QED  BY <3>3, <3>4
  <2>. QED  BY <2>1, <2>2 DEF LookupKey, Await
<1>. QED  BY <1>4, <1>5 DEF KeyInv

\* A commit under a free key adds three rows that agree.
LEMMA KeyCommit ==
    ASSUME KeyInv, TypeInv, NEW c \in Calls, Commit(c)
    PROVE  KeyInv'
<1>1. /\ op[c] \in TicketRegistration /\ pc[c] = "commit"
      /\ op[c].key \in Keys \cup {None}
      /\ ~ Stored(c)
  BY DEF Commit, TypeInv, Phases, Phase, TicketRegistration, KeyInv, StoredByCreate, Ended
<1>2. /\ UNCHANGED <<op, answer, forgotten>>
      /\ outbox' = outbox \cup {c}
      /\ pc' = [pc EXCEPT ![c] = "committed"]
  BY DEF Commit, Await, Goto, history
<1>3. \A t \in Calls : Stored(t)' <=> Stored(t) \/ t = c
  <2>1. [event |-> op[c].event, status |-> "active"] # None
    BY <1>1, NoneIsNoValue DEF Ticket, TicketStatus, TicketRegistration
  <2>. QED  BY <2>1 DEF Commit, Stored, TypeInv, TypeOK
<1>4. /\ op[c].key = None => keys' = keys
      /\ op[c].key # None =>
            /\ keys[op[c].key] = None
            /\ keys' = [keys EXCEPT ![op[c].key] =
                          [hash |-> RequestHash(op[c]), ticket |-> c]]
  BY DEF Commit, KeyIsFree
<1>5. StoredByCreate'
  BY <1>1, <1>2, <1>3 DEF KeyInv, StoredByCreate, Ended, TypeInv, TypeOK
<1>6. KeyNamesTicket'
  <2>1. op[c].key # None => [hash |-> RequestHash(op[c]), ticket |-> c] # None
    BY <1>1, NoneIsNoValue DEF IdempotencyKey, RequestHash, Hash, TicketRegistration
  <2>2. ASSUME NEW t \in Calls, Stored(t)', op'[t].key # None
        PROVE  t \in forgotten \/ Names(keys'[op[t].key], t)
    <3>1. CASE t = c
      BY <1>1, <1>2, <1>4, <2>1, <2>2, <3>1 DEF TypeInv, TypeOK, Names
    <3>2. CASE t # c
      <4>1. /\ Stored(t) /\ op[t].key # None
            /\ t \in forgotten \/ Names(keys[op[t].key], t)
        BY <1>2, <1>3, <2>2, <3>2 DEF KeyInv, KeyNamesTicket
      <4>2. op[t].key \in Keys
        BY <1>2, <1>3, <2>2, <3>2, <4>1 DEF KeyInv, StoredByCreate, TicketRegistration
      <4>3. CASE op[c].key = None \/ op[t].key # op[c].key
        <5>1. keys'[op[t].key] = keys[op[t].key]
          BY <1>1, <1>4, <4>2, <4>3 DEF TypeInv, TypeOK
        <5>. QED  BY <4>1, <5>1
      <4>4. CASE op[c].key # None /\ op[t].key = op[c].key
        BY <1>4, <4>1, <4>4 DEF Names
      <4>. QED  BY <4>3, <4>4
    <3>. QED  BY <3>1, <3>2
  <2>. QED  BY <1>2, <2>2 DEF KeyNamesTicket
<1>7. RowsAllOrNothing'
  BY <1>1, <1>2, <1>3, <1>4
     DEF KeyInv, RowsAllOrNothing, TypeInv, TypeOK, IdempotencyKey, RequestHash
<1>8. CreatedIsDurable' /\ ConflictIsJustified'
  BY <1>2, <1>3 DEF KeyInv, CreatedIsDurable, ConflictIsJustified, Answered, RequestHash
<1>. QED  BY <1>5, <1>6, <1>7, <1>8 DEF KeyInv

\* 201 is sent for the ticket whose rows have just been committed.
LEMMA KeyRespond ==
    ASSUME KeyInv, TypeInv, NEW c \in Calls, Respond(c)
    PROVE  KeyInv'
<1>1. /\ pc[c] = "committed"
      /\ UNCHANGED <<op, tickets, keys, outbox, forgotten>>
      /\ pc' = [pc EXCEPT ![c] = "done"]
      /\ \/ op[c].kind = "create"
            /\ answer' = [answer EXCEPT ![c] = [outcome |-> "Created", ticket |-> c]]
         \/ answer' = [answer EXCEPT ![c] =
                          [outcome |-> "Cancelled", ticket |-> op[c].ticket]]
  BY DEF Respond, AnswerWith, Goto, TablesUnchanged, tables, history
<1>2. StoredByCreate' /\ KeyNamesTicket' /\ RowsAllOrNothing'
  BY <1>1 DEF KeyInv, StoredByCreate, KeyNamesTicket, RowsAllOrNothing, Stored, Ended,
              RequestHash, TypeInv, TypeOK
<1>3. CreatedIsDurable' /\ ConflictIsJustified'
  BY <1>1 DEF KeyInv, StoredByCreate, CreatedIsDurable, ConflictIsJustified, Answered,
              Stored, RequestHash, TypeInv, TypeOK
<1>. QED  BY <1>2, <1>3 DEF KeyInv

\* A call that arrives has sold nothing yet.
LEMMA KeyArrive ==
    ASSUME KeyInv, TypeInv, NEW c \in Calls, Arrive(c)
    PROVE  KeyInv'
<1>1. /\ pc[c] = "idle" /\ op[c] = None
      /\ UNCHANGED <<answer, tickets, keys, outbox, forgotten>>
      /\ \A d \in Calls \ {c} : op'[d] = op[d] /\ pc'[d] = pc[d]
      /\ pc'[c] \notin {"committed", "done", "dead"}
  BY DEF Arrive, Goto, TablesUnchanged, tables, history, TypeInv, TypeOK, Phases, Phase
<1>2. ~ Stored(c) /\ answer[c] = None
  BY <1>1 DEF KeyInv, StoredByCreate, Ended, TypeInv, Phases, Phase
<1>3. StoredByCreate' /\ KeyNamesTicket'
  BY <1>1, <1>2 DEF KeyInv, StoredByCreate, KeyNamesTicket, Stored, Ended
<1>4. RowsAllOrNothing'
  BY <1>1, <1>2 DEF KeyInv, RowsAllOrNothing, Stored, RequestHash, TypeInv, TypeOK,
                    IdempotencyKey
<1>5. CreatedIsDurable' /\ ConflictIsJustified'
  BY <1>1, <1>2 DEF KeyInv, CreatedIsDurable, ConflictIsJustified, Answered, Stored,
                    RequestHash
<1>. QED  BY <1>3, <1>4, <1>5 DEF KeyInv

\* The cleanup takes a key away and remembers whose it was.
LEMMA KeyClean ==
    ASSUME KeyInv, TypeInv, CleanKeys
    PROVE  KeyInv'
<1>1. PICK old \in SUBSET {k \in Keys : keys[k] # None} :
        /\ keys' = [k \in Keys |-> IF k \in old THEN None ELSE keys[k]]
        /\ forgotten' = forgotten \cup {keys[k].ticket : k \in old}
  BY DEF CleanKeys
<1>2. UNCHANGED <<pc, op, answer, tickets, outbox>>
  BY DEF CleanKeys, callVars
<1>3. KeyNamesTicket'
  <2>1. \A t \in Calls : Stored(t) /\ op[t].key # None => op[t].key \in Keys
    BY DEF KeyInv, StoredByCreate, TicketRegistration
  <2>2. ASSUME NEW t \in Calls, Stored(t), op[t].key # None
        PROVE  t \in forgotten' \/ Names(keys'[op[t].key], t)
    <3>1. t \in forgotten \/ Names(keys[op[t].key], t)
      BY <2>2 DEF KeyInv, KeyNamesTicket
    <3>2. CASE op[t].key \in old
      <4>1. keys[op[t].key].ticket \in {keys[k].ticket : k \in old}
        BY <3>2
      <4>. QED  BY <1>1, <3>1, <4>1 DEF Names
    <3>3. CASE op[t].key \notin old
      BY <1>1, <2>1, <2>2, <3>1, <3>3
    <3>. QED  BY <3>2, <3>3
  <2>. QED  BY <1>2, <2>2 DEF KeyNamesTicket, Stored
<1>4. RowsAllOrNothing'
  BY <1>1, <1>2 DEF KeyInv, RowsAllOrNothing, Stored, RequestHash
<1>5. StoredByCreate' /\ CreatedIsDurable' /\ ConflictIsJustified'
  BY <1>2 DEF KeyInv, StoredByCreate, CreatedIsDurable, ConflictIsJustified, Answered,
              Stored, Ended, RequestHash
<1>. QED  BY <1>3, <1>4, <1>5 DEF KeyInv

\* All other steps leave the rows and the answers 201 and 409 alone.
LEMMA KeyOther ==
    ASSUME KeyInv, TypeInv, NEW c \in Calls,
           \/ EventRefused(c) \/ CacheHit(c) \/ CacheMiss(c) \/ SeatsReturn(c)
           \/ SeatsFail(c) \/ RegisterConfirmed(c) \/ RegisterUnlisted(c)
           \/ RegisterRefused(c) \/ RegisterFails(c) \/ CommitClash(c)
           \/ ReadTicket(c) \/ UnregisterReturn(c) \/ UnregisterMissing(c)
           \/ UnregisterFails(c) \/ CommitCancel(c) \/ DatabaseFails(c)
    PROVE  KeyInv'
<1>. DEFINE
       Quiet ==
         /\ UNCHANGED <<op, keys, outbox, forgotten>>
         /\ \A t \in Calls : Stored(t)' <=> Stored(t)
       Moves ==
         \E p \in PC : /\ pc' = [pc EXCEPT ![c] = p]
                       /\ Ended(c) => p \in {"done", "dead"}
                       /\ p = "committed" => op[c].kind # "create"
       Says ==
         \/ UNCHANGED answer
         \/ \E outcome \in Outcome \ {"Created", "IdempotencyConflictError"} :
               answer' = [answer EXCEPT ![c] = [outcome |-> outcome, ticket |-> None]]
<1>1. Quiet
  <2>1. CASE CommitCancel(c)
    <3>1. /\ Stored(op[c].ticket) /\ op[c].ticket \in Calls
          /\ EventOf(c) \in Events
      BY <2>1 DEF CommitCancel, EventOf, TypeInv, TypeOK, Phases, Phase, Unregistration,
                  Stored, Ticket
    <3>2. [event |-> EventOf(c), status |-> "cancelled"] # None
      BY <3>1, NoneIsNoValue DEF Ticket, TicketStatus
    <3>. QED  BY <2>1, <3>1, <3>2 DEF CommitCancel, Await, Stored, TypeInv, TypeOK, history
  <2>2. CASE TablesUnchanged /\ UNCHANGED op
    BY <2>2 DEF TablesUnchanged, tables, history, Stored
  <2>3. (TablesUnchanged /\ UNCHANGED op) \/ CommitCancel(c)
    BY DEF EventRefused, CacheHit, CacheMiss, SeatsReturn, UseSeats, SeatsFail,
           RegisterConfirmed, RegisterUnlisted, RegisterRefused, RegisterFails,
           CommitClash, ReadTicket, UnregisterReturn, UnregisterMissing,
           UnregisterFails, DatabaseFails, Raise, AnswerWith, Await
  <2>. QED  BY <2>1, <2>2, <2>3
<1>2. Moves /\ Says
  <2>1. CASE CacheHit(c) \/ SeatsReturn(c)
    <3>1. pc[c] \in {"event", "seats"} /\ \E l, seats : UseSeats(c, l, seats)
      BY <2>1 DEF CacheHit, EventAccepted, SeatsReturn
    <3>. QED
      BY <3>1 DEF UseSeats, Raise, AnswerWith, Goto, Ended, PC, Running, AwaitsProvider,
                  Outcome, Returned, Handled
  <2>2. CASE \/ EventRefused(c) \/ SeatsFail(c) \/ RegisterUnlisted(c)
             \/ RegisterRefused(c) \/ RegisterFails(c) \/ CommitClash(c)
             \/ UnregisterMissing(c) \/ UnregisterFails(c) \/ DatabaseFails(c)
    <3>1. \E outcome \in Outcome \ {"Created", "IdempotencyConflictError"} :
             AnswerWith(c, outcome, None)
      BY <2>2 DEF EventRefused, SeatsFail, RegisterUnlisted, RegisterRefused,
                  RegisterFails, CommitClash, UnregisterMissing, UnregisterFails,
                  DatabaseFails, Raise, Outcome, Handled, Unhandled
    <3>. QED  BY <3>1 DEF AnswerWith, Goto, PC
  <2>3. CASE CacheMiss(c) \/ RegisterConfirmed(c)
    BY <2>3 DEF CacheMiss, EventAccepted, RegisterConfirmed, Await, Goto, Ended, PC,
                Running, AwaitsProvider, AwaitsDatabase
  <2>4. CASE ReadTicket(c)
    BY <2>4 DEF ReadTicket, Raise, AnswerWith, Await, Goto, Ended, PC, Running,
                AwaitsProvider, Outcome, Handled
  <2>5. CASE UnregisterReturn(c) \/ CommitCancel(c)
    <3>1. op[c].kind # "create"
      BY <2>5 DEF UnregisterReturn, CommitCancel, TypeInv, Phases, Phase, Unregistration
    <3>. QED
      BY <2>5, <3>1 DEF UnregisterReturn, CommitCancel, Await, Goto, Ended, PC, Running,
                        AwaitsDatabase
  <2>. QED  BY <2>1, <2>2, <2>3, <2>4, <2>5
<1>4. \A d \in Calls : /\ Ended(d) => Ended(d)'
                       /\ pc'[d] = "committed" =>
                            pc[d] = "committed" \/ op[d].kind # "create"
  BY <1>2 DEF Ended, TypeInv, TypeOK
<1>5. \A d \in Calls : \/ answer'[d] = answer[d]
                       \/ answer'[d].outcome \notin
                            {"Created", "IdempotencyConflictError"}
  BY <1>2 DEF TypeInv, TypeOK
<1>. QED  BY <1>1, <1>4, <1>5, KeyQuiet DEF Stored, Ended

\* Every step keeps the key invariant.
LEMMA KeyStep == TypeInv /\ KeyInv /\ [Next]_vars => KeyInv'
<1>. SUFFICES ASSUME TypeInv, KeyInv, [Next]_vars
              PROVE  KeyInv'
  OBVIOUS
<1>1. ASSUME NEW c \in Calls, Step(c)  PROVE KeyInv'
  BY <1>1, KeyLookup, KeyCommit, KeyRespond, KeyOther DEF Step
<1>2. ASSUME NEW c \in Calls, Arrive(c)  PROVE KeyInv'
  BY <1>2, KeyArrive
<1>3. CASE CleanKeys
  BY <1>3, KeyClean
<1>4. CASE \/ \E c \in Calls : Provider(c)
           \/ \E e \in Events : EventSynced(e) \/ SeatsExpire(e)
           \/ Crash \/ UNCHANGED vars
  <2>1. /\ UNCHANGED <<op, answer, tickets, keys, outbox, forgotten>>
        /\ pc' = pc \/ Crash
    BY <1>4 DEF Provider, EventSynced, SeatsExpire, Crash, vars, callVars, tables, history
  <2>2. \A c \in Calls : /\ Ended(c) => Ended(c)'
                         /\ pc'[c] = "committed" => pc[c] = "committed"
    BY <2>1 DEF Crash, Ended, Running, AwaitsDatabase, AwaitsProvider
  <2>. QED  BY <2>1, <2>2, KeyQuiet DEF Stored, Ended
<1>. QED  BY <1>1, <1>2, <1>3, <1>4 DEF Next

\* The key invariant holds at all times.
LEMMA KeyInvariant == Spec => []KeyInv
BY KeyInit, KeyStep, TypeInvariant, PTL DEF Spec

\* A registration leaves a ticket, its outbox record and its key, or nothing:
\* README, "Transactional Outbox", step 1.
THEOREM RegistrationIsAtomic == Spec => []RowsAllOrNothing
BY KeyInvariant, PTL DEF KeyInv

\* No interleaving of retries, crashes and cleanup stores two tickets under
\* one live key.
THEOREM KeySellsOnce == Spec => []OneTicketPerKey
<1>1. TypeInv /\ KeyInv => OneTicketPerKey
  BY DEF KeyInv, KeyNamesTicket, OneTicketPerKey, Names
<1>. QED  BY <1>1, KeyInvariant, TypeInvariant, PTL

\* 201 always names a stored ticket sold for the data of the call.
THEOREM CreatedMeansStored == Spec => []CreatedIsDurable
BY KeyInvariant, PTL DEF KeyInv

\* 409 is never the answer to a faithful retry.
THEOREM ConflictMeansReuse == Spec => []ConflictIsJustified
BY KeyInvariant, PTL DEF KeyInv

-----------------------------------------------------------------------------
(* What the errors tell.                                                   *)

\* Why call c may end with this outcome.
Justified(c, outcome) ==
    /\ Stored(c) => outcome \in {"Created", "DBAPIError"}
    /\ outcome = "IntegrityError" =>
          /\ op[c].key # None
          /\ \E t \in Calls \ {c} : Stored(t) /\ op[t].key = op[c].key

\* Steps that give no answer, or one that is justified, keep the property.
LEMMA ErrorsQuiet ==
    ASSUME TypeInv, ErrorsTellStored,
           \A t \in Calls : Stored(t) => Stored(t)' /\ op'[t] = op[t],
           \A d \in Calls :
              \/ answer'[d] = None
              \/ /\ answer'[d] = answer[d] /\ op'[d] = op[d]
                 /\ Stored(d)' => Stored(d)
              \/ /\ op'[d] = op[d]
                 /\ Stored(d)' => Stored(d)
                 /\ op[d].kind = "create" => Justified(d, answer'[d].outcome)
    PROVE  ErrorsTellStored'
<1>. SUFFICES ASSUME NEW d \in Calls, answer'[d] # None, op'[d].kind = "create"
              PROVE  /\ Stored(d)' => answer'[d].outcome \in {"Created", "DBAPIError"}
                     /\ answer'[d].outcome = "IntegrityError" =>
                           /\ op'[d].key # None
                           /\ \E t \in Calls \ {d} : Stored(t)' /\ op'[t].key = op'[d].key
  BY DEF ErrorsTellStored
<1>1. /\ op'[d] = op[d]
      /\ Stored(d)' => Stored(d)
      /\ answer'[d] = answer[d] \/ Justified(d, answer'[d].outcome)
  OBVIOUS
<1>2. answer'[d] = answer[d] => Justified(d, answer'[d].outcome)
  BY <1>1 DEF ErrorsTellStored, Justified
<1>. QED  BY <1>1, <1>2 DEF Justified

\* A key that is taken when the insert of another call meets it belongs to a
\* ticket that is stored.
LEMMA ClashHasWinner ==
    ASSUME TypeInv, KeyInv, NEW c \in Calls, CommitClash(c)
    PROVE  Justified(c, "IntegrityError")
<1>1. /\ pc[c] = "commit" /\ op[c].key \in Keys /\ op[c].key # None
      /\ keys[op[c].key] # None
  BY DEF CommitClash, KeyIsFree, TypeInv, Phases, Phase, TicketRegistration
<1>2. ~ Stored(c)
  BY <1>1 DEF KeyInv, StoredByCreate, Ended
<1>3. /\ keys[op[c].key].ticket \in Calls
      /\ Stored(keys[op[c].key].ticket)
      /\ op[keys[op[c].key].ticket].key = op[c].key
  BY <1>1 DEF KeyInv, RowsAllOrNothing, TypeInv, TypeOK, IdempotencyKey
<1>. QED  BY <1>1, <1>2, <1>3 DEF Justified

\* The answers a call can end with are justified.
LEMMA ErrorsStep ==
    ASSUME TypeInv, KeyInv, ErrorsTellStored, NEW c \in Calls, Step(c)
    PROVE  ErrorsTellStored'
<1>1. UNCHANGED op
  BY DEF Step, LookupKey, EventRefused, CacheHit, CacheMiss, SeatsReturn, SeatsFail,
         RegisterConfirmed, RegisterUnlisted, RegisterRefused, RegisterFails, CommitClash,
         Respond, ReadTicket, UnregisterReturn, UnregisterMissing, UnregisterFails,
         Commit, CommitCancel, DatabaseFails, UseSeats, Raise, AnswerWith, Await
<1>2. CASE Commit(c)
  <2>1. /\ answer[c] = None /\ answer' = answer
        /\ [event |-> op[c].event, status |-> "active"] # None
    BY <1>2, NoneIsNoValue
       DEF Commit, Await, TypeInv, Phases, Phase, Ticket, TicketStatus, TicketRegistration
  <2>2. \A t \in Calls : /\ Stored(t) => Stored(t)'
                         /\ t # c => (Stored(t)' <=> Stored(t))
    BY <1>2, <2>1 DEF Commit, Stored, TypeInv, TypeOK
  <2>. QED  BY <1>1, <2>1, <2>2, ErrorsQuiet
<1>3. CASE CommitCancel(c)
  <2>1. /\ op[c].ticket \in Calls /\ Stored(op[c].ticket) /\ answer' = answer
        /\ EventOf(c) \in Events
    BY <1>3 DEF CommitCancel, Await, EventOf, TypeInv, TypeOK, Phases, Phase,
                Unregistration, Stored, Ticket
  <2>2. [event |-> EventOf(c), status |-> "cancelled"] # None
    BY <2>1, NoneIsNoValue DEF Ticket, TicketStatus
  <2>3. \A t \in Calls : Stored(t)' <=> Stored(t)
    BY <1>3, <2>1, <2>2 DEF CommitCancel, Stored, TypeInv, TypeOK
  <2>. QED  BY <1>1, <2>1, <2>3, ErrorsQuiet
<1>4. CASE ~ Commit(c) /\ ~ CommitCancel(c)
  <2>1. UNCHANGED tickets
    BY <1>4 DEF Step, LookupKey, EventRefused, CacheHit, CacheMiss, SeatsReturn,
         SeatsFail, RegisterConfirmed, RegisterUnlisted, RegisterRefused, RegisterFails,
         CommitClash, Respond, ReadTicket, UnregisterReturn, UnregisterMissing,
         UnregisterFails, DatabaseFails, TablesUnchanged, tables, history
  <2>2. \/ UNCHANGED answer
        \/ \E outcome \in Outcome, t \in Calls \cup {None} :
              /\ answer' = [answer EXCEPT ![c] = [outcome |-> outcome, ticket |-> t]]
              /\ op[c].kind = "create" => Justified(c, outcome)
    <3>1. CASE CommitClash(c)
      BY <3>1, ClashHasWinner DEF CommitClash, Raise, AnswerWith, Outcome, Unhandled
    <3>2. CASE Respond(c)
      <4>1. op[c].kind # "create" => op[c].ticket \in Calls
        BY <3>2 DEF Respond, TypeInv, Phases, Phase, TicketRegistration, Unregistration
      <4>. QED
        BY <3>2, <4>1 DEF Respond, AnswerWith, Outcome, Returned, Justified
    <3>3. CASE DatabaseFails(c)
      <4>1. Justified(c, "DBAPIError")
        BY DEF Justified
      <4>2. answer' = [answer EXCEPT ![c] = [outcome |-> "DBAPIError", ticket |-> None]]
        BY <3>3 DEF DatabaseFails, Raise, AnswerWith
      <4>. QED  BY <4>1, <4>2 DEF Outcome, Unhandled
    <3>4. CASE LookupKey(c) /\ pc'[c] = "done"
      <4>1. /\ pc[c] = "lookup" /\ op[c].key \in Keys
            /\ keys[op[c].key] # None => keys[op[c].key].ticket \in Calls
        BY <3>4 DEF LookupKey, TypeInv, TypeOK, Phases, Phase, TicketRegistration,
                    IdempotencyKey
      <4>2. ~ Stored(c)
        BY <4>1 DEF KeyInv, StoredByCreate, Ended
      <4>. QED
        BY <3>4, <4>1, <4>2
           DEF LookupKey, Await, Raise, AnswerWith, Outcome, Returned, Handled, Justified
    <3>5. CASE \/ EventRefused(c) \/ CacheHit(c) \/ SeatsReturn(c) \/ SeatsFail(c)
               \/ RegisterUnlisted(c) \/ RegisterRefused(c) \/ RegisterFails(c)
               \/ ReadTicket(c) \/ UnregisterMissing(c) \/ UnregisterFails(c)
      <4>1. pc[c] \in {"event", "seats", "register", "ticket", "unregister"}
        BY <3>5 DEF EventRefused, CacheHit, EventAccepted, SeatsReturn, SeatsFail,
             RegisterUnlisted, RegisterRefused, RegisterFails, ReadTicket,
             UnregisterMissing, UnregisterFails
      <4>2. ~ Stored(c)
        BY <4>1 DEF KeyInv, StoredByCreate, Ended
      <4>3. \/ UNCHANGED answer
            \/ \E outcome \in Outcome \ {"IntegrityError"} :
                  answer' = [answer EXCEPT ![c] = [outcome |-> outcome, ticket |-> None]]
        BY <3>5 DEF EventRefused, CacheHit, SeatsReturn, UseSeats, SeatsFail,
             RegisterUnlisted, RegisterRefused, RegisterFails, ReadTicket,
             UnregisterMissing, UnregisterFails, Raise, AnswerWith, Await, Outcome,
             Returned, Handled, Unhandled
      <4>. QED  BY <4>2, <4>3 DEF Justified
    <3>6. CASE LookupKey(c) /\ pc'[c] # "done"
      BY <3>6 DEF LookupKey, Raise, AnswerWith, Await, Goto, TypeInv, TypeOK
    <3>7. CASE CacheMiss(c) \/ RegisterConfirmed(c) \/ UnregisterReturn(c)
      BY <3>7 DEF CacheMiss, RegisterConfirmed, UnregisterReturn, Await
    <3>. QED
      BY <1>4, <3>1, <3>2, <3>3, <3>4, <3>5, <3>6, <3>7 DEF Step
  <2>3. \A d \in Calls : \/ answer'[d] = answer[d]
                         \/ op[d].kind = "create" => Justified(d, answer'[d].outcome)
    BY <2>2 DEF TypeInv, TypeOK
  <2>. QED  BY <1>1, <2>1, <2>3, ErrorsQuiet DEF Stored
<1>. QED  BY <1>2, <1>3, <1>4

\* A registration that ended with an error has stored nothing, except where
\* the confirmation of its commit was lost; and whoever lost a key lost it to
\* a ticket that is stored.
THEOREM ErrorsAreHonest == Spec => []ErrorsTellStored
<1>1. Init => ErrorsTellStored
  BY DEF Init, ErrorsTellStored
<1>2. TypeInv /\ KeyInv /\ ErrorsTellStored /\ [Next]_vars => ErrorsTellStored'
  <2>. SUFFICES ASSUME TypeInv, KeyInv, ErrorsTellStored, [Next]_vars
                PROVE  ErrorsTellStored'
    OBVIOUS
  <2>1. ASSUME NEW c \in Calls, Step(c)  PROVE ErrorsTellStored'
    BY <2>1, ErrorsStep
  <2>2. ASSUME NEW c \in Calls, Arrive(c)  PROVE ErrorsTellStored'
    <3>1. /\ pc[c] = "idle" /\ answer[c] = None /\ UNCHANGED <<answer, tickets>>
          /\ \A d \in Calls : d # c => op'[d] = op[d]
      BY <2>2 DEF Arrive, TablesUnchanged, tables, history, TypeInv, TypeOK, Phases, Phase
    <3>2. ~ Stored(c)
      BY <3>1 DEF KeyInv, StoredByCreate, Ended
    <3>. QED  BY <3>1, <3>2, ErrorsQuiet DEF Stored
  <2>3. CASE \/ \E c \in Calls : Provider(c)
             \/ \E e \in Events : EventSynced(e) \/ SeatsExpire(e)
             \/ CleanKeys \/ Crash \/ UNCHANGED vars
    <3>1. UNCHANGED <<op, answer, tickets>>
      BY <2>3 DEF Provider, EventSynced, SeatsExpire, CleanKeys, Crash, vars, callVars,
                  tables
    <3>. QED  BY <3>1, ErrorsQuiet DEF Stored
  <2>. QED  BY <2>1, <2>2, <2>3 DEF Next
<1>. QED  BY <1>1, <1>2, TypeInvariant, KeyInvariant, PTL DEF Spec
=============================================================================
