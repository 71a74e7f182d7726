------------------------ MODULE TicketProviderProofs ------------------------
(***************************************************************************)
(* Theorems about TicketUsecases that relate its tables and answers to     *)
(* what the Events Provider holds, for any sets of calls, events, seats,   *)
(* persons, keys, payloads and event rows.                                 *)
(***************************************************************************)
EXTENDS TicketUsecasesProofs, SeatsPatternProofs

-----------------------------------------------------------------------------
(* What the wire of a call tells.                                          *)

RegisterStage == {"register_sent", "register_ok", "register_refused"}
UnregisterStage == {"unregister_sent", "unregister_ok", "unregister_missing"}

\* A call has no request out, or one of the kind that it awaits.
WireAt(c) ==
    LET stage == wire[c].stage IN
    /\ pc[c] \in {"idle", "lookup", "event", "ticket"} => stage = "idle"
    /\ pc[c] = "seats" => stage \in {"seats_sent", "seats_ok"}
    /\ pc[c] = "register" => stage \in RegisterStage
    /\ pc[c] = "commit" => stage = "register_ok"
    /\ pc[c] = "unregister" => stage \in UnregisterStage
    /\ pc[c] = "cancel_commit" => stage = "unregister_ok"
    /\ pc[c] = "committed" =>
          stage = IF op[c].kind = "create" THEN "register_ok" ELSE "unregister_ok"

Refusal == {"EventNotFoundError", "TicketNotFoundError", "EventNotAvailableError",
            "InvalidSeatError", "SeatTakenError", "IdempotencyConflictError"}

\* A registration that was refused has no request out and was not confirmed.
RefusedAt(c) ==
    answer[c] # None /\ op[c].kind = "create" /\ answer[c].outcome \in Refusal =>
        wire[c].stage \notin {"register_sent", "register_ok"}

\* The event check lies before every request to register.
CheckedAt(c) ==
    \/ pc[c] = "seats" /\ op[c].kind = "create"
    \/ wire[c].stage \in RegisterStage
    => c \in offered

\* 200 names the ticket of the request.
CancelledAt(c) ==
    Answered(c, "Cancelled") =>
        op[c] \in Unregistration /\ answer[c].ticket = op[c].ticket

CallInv == \A c \in Calls :
              WireAt(c) /\ RefusedAt(c) /\ CheckedAt(c) /\ CancelledAt(c)

\* The codes of a registration that tell the client that it was refused.
LEMMA RefusalCodes ==
    ASSUME NEW outcome \in Outcome,
           StatusCode("create", outcome) \in {400, 404, 409}
    PROVE  outcome \in Refusal
BY DEF Outcome, Returned, Handled, Unhandled, StatusCode, Refusal

\* Nothing was sent or answered yet.
LEMMA CallInit == Init => CallInv
BY NoneIsNoAnswer
   DEF Init, ProviderInit, CallInv, WireAt, RefusedAt, CheckedAt, CancelledAt, Answered,
       RegisterStage

-----------------------------------------------------------------------------
(* What was on sale before the check.                                      *)

\* A call that has not been checked yet and whose seat is on sale now has seen
\* it on sale.
OfferInv ==
    \A c \in Calls :
        /\ pc[c] \in {"lookup", "event"} /\ op[c].kind = "create"
        /\ OnSale(events[op[c].event], op[c].seat)
        => c \in offered

\* No call has arrived.
LEMMA OfferInit == Init => OfferInv
BY DEF Init, OfferInv

\* What was on sale once for a call stays so: history does not shrink.  Only an
\* arrival and a change of a row add to it.
LEMMA OfferGrows ==
    ASSUME [Next]_vars
    PROVE  /\ offered \subseteq offered'
           /\ \/ UNCHANGED <<offered, events>>
              \/ \E c \in Calls : Arrive(c)
              \/ \E e \in Events : EventSynced(e)
<1>1. ASSUME NEW c \in Calls, Step(c)  PROVE UNCHANGED <<offered, events>>
  BY <1>1 DEF Step, LookupKey, EventRefused, CacheHit, CacheMiss, SeatsReturn, SeatsFail,
       RegisterConfirmed, RegisterUnlisted, RegisterRefused, RegisterFails, Commit,
       CommitClash, Respond, ReadTicket, UnregisterReturn, UnregisterMissing,
       UnregisterFails, CommitCancel, DatabaseFails, TablesUnchanged, tables, history
<1>2. ASSUME NEW c \in Calls, Arrive(c)  PROVE offered \subseteq offered'
  BY <1>2 DEF Arrive
<1>3. ASSUME NEW e \in Events, EventSynced(e)  PROVE offered \subseteq offered'
  BY <1>3 DEF EventSynced
<1>4. CASE \/ \E c \in Calls : Provider(c)
           \/ \E e \in Events : SeatsExpire(e)
           \/ CleanKeys \/ Crash \/ UNCHANGED vars
  BY <1>4 DEF Provider, SeatsExpire, CleanKeys, Crash, vars, tables, history
<1>. QED  BY <1>1, <1>2, <1>3, <1>4 DEF Next

\* A row that comes to offer a seat is seen by the calls that are to check it, and
\* a call that arrives sees the row there is.
LEMMA OfferStep == TypeInv /\ OfferInv /\ [Next]_vars => OfferInv'
<1>. SUFFICES ASSUME TypeInv, OfferInv, [Next]_vars, NEW d \in Calls,
                     pc'[d] \in {"lookup", "event"}, op'[d].kind = "create",
                     OnSale(events'[op'[d].event], op'[d].seat)
              PROVE  d \in offered'
  BY DEF OfferInv
<1>1. CASE \E c \in Calls : Arrive(c)
  <2>1. PICK c \in Calls : Arrive(c)
    BY <1>1
  <2>2. PICK o \in Requests :
          /\ op' = [op EXCEPT ![c] = o]
          /\ offered' = IF o.kind = "create" /\ OnSale(events[o.event], o.seat)
                        THEN offered \cup {c} ELSE offered
    BY <2>1 DEF Arrive
  <2>3. UNCHANGED events /\ \A x \in Calls \ {c} : pc'[x] = pc[x]
    BY <2>1 DEF Arrive, Goto, tables, TypeInv, TypeOK
  <2>4. CASE d = c
    BY <2>2, <2>3, <2>4 DEF TypeInv, TypeOK
  <2>5. CASE d # c
    BY <2>2, <2>3, <2>5 DEF OfferInv, TypeInv, TypeOK
  <2>. QED  BY <2>4, <2>5
<1>2. CASE \E e \in Events : EventSynced(e)
  <2>1. PICK e \in Events : EventSynced(e)
    BY <1>2
  <2>2. UNCHANGED <<pc, op>>
    BY <2>1 DEF EventSynced, callVars
  <2>3. PICK row \in EventRows :
          /\ events' = [events EXCEPT ![e] = row]
          /\ offered' = offered \cup
                {c \in Calls : /\ pc[c] \in {"lookup", "event"}
                               /\ op[c].kind = "create" /\ op[c].event = e
                               /\ OnSale(row, op[c].seat)}
    BY <2>1 DEF EventSynced
  <2>4. CASE op[d].event = e
    BY <2>2, <2>3, <2>4 DEF TypeInv, TypeOK
  <2>5. CASE op[d].event # e
    BY <2>2, <2>3, <2>5 DEF OfferInv, TypeInv, TypeOK
  <2>. QED  BY <2>4, <2>5
<1>3. CASE UNCHANGED <<offered, events>> /\ ~ \E c \in Calls : Arrive(c)
  <2>1. UNCHANGED op /\ pc[d] \in {"lookup", "event"}
    <3>1. ASSUME NEW c \in Calls, Step(c)
          PROVE  UNCHANGED op /\ \E p \in PC : /\ pc' = [pc EXCEPT ![c] = p]
                                               /\ p # "lookup"
                                               /\ p = "event" => pc[c] = "lookup"
      BY <3>1 DEF Step, LookupKey, EventRefused, CacheHit, CacheMiss, SeatsReturn, SeatsFail,
           RegisterConfirmed, RegisterUnlisted, RegisterRefused, RegisterFails, Commit,
           CommitClash, Respond, ReadTicket, UnregisterReturn, UnregisterMissing,
           UnregisterFails, CommitCancel, DatabaseFails, UseSeats, Await, Raise,
           AnswerWith, Goto, PC, Running, AwaitsDatabase, AwaitsProvider
    <3>2. CASE \E c \in Calls : Step(c)
      BY <3>1, <3>2 DEF TypeInv, TypeOK
    <3>3. CASE Crash
      BY <3>3 DEF Crash, TypeInv, TypeOK
    <3>4. CASE \/ \E c \in Calls : Provider(c)
               \/ \E e \in Events : EventSynced(e) \/ SeatsExpire(e)
               \/ CleanKeys \/ UNCHANGED vars
      BY <3>4 DEF Provider, EventSynced, SeatsExpire, CleanKeys, vars, callVars
    <3>. QED  BY <1>3, <3>2, <3>3, <3>4 DEF Next
  <2>. QED  BY <1>3, <2>1 DEF OfferInv
<1>. QED  BY <1>1, <1>2, <1>3, OfferGrows

\* It holds at all times.
LEMMA OfferInvariant == Spec => []OfferInv
BY OfferInit, OfferStep, TypeInvariant, PTL DEF Spec

-----------------------------------------------------------------------------
(* The wire, step by step.                                                 *)

\* What holds for a call of its own state is not disturbed by another call.
Own(d) == <<pc[d], op[d], answer[d], wire[d].stage>>

LEMMA CallSame ==
    ASSUME CallInv, NEW d \in Calls, UNCHANGED Own(d), offered \subseteq offered'
    PROVE  (WireAt(d) /\ RefusedAt(d) /\ CheckedAt(d) /\ CancelledAt(d))'
BY DEF CallInv, Own, WireAt, RefusedAt, CheckedAt, CancelledAt, Answered

\* A step of c leaves the other calls' state alone.
OnlyCall(c) == \A d \in Calls \ {c} : UNCHANGED Own(d)

LEMMA CallAlone ==
    ASSUME CallInv, NEW c \in Calls, OnlyCall(c), offered \subseteq offered',
           (WireAt(c) /\ RefusedAt(c) /\ CheckedAt(c) /\ CancelledAt(c))'
    PROVE  CallInv'
BY CallSame DEF CallInv, OnlyCall

\* A call ends with an outcome that its wire bears out.
LEMMA CallAnswer ==
    ASSUME TypeInv, CallInv, NEW c \in Calls,
           pc[c] \notin {"idle", "done", "dead"},
           NEW outcome \in Outcome, NEW t, AnswerWith(c, outcome, t),
           UNCHANGED wire \/ SetStage(c, "idle"), offered \subseteq offered',
           op[c].kind = "create" /\ outcome \in Refusal =>
              wire'[c].stage \notin {"register_sent", "register_ok"},
           outcome = "Cancelled" => op[c] \in Unregistration /\ t = op[c].ticket
    PROVE  CallInv'
<1>1. /\ UNCHANGED op
      /\ pc' = [pc EXCEPT ![c] = "done"]
      /\ answer' = [answer EXCEPT ![c] = [outcome |-> outcome, ticket |-> t]]
  BY DEF AnswerWith, Goto
<1>2. OnlyCall(c)
  BY <1>1 DEF OnlyCall, Own, TypeInv, TypeOK, ProviderTypeOK, SetStage
<1>3. /\ pc'[c] = "done"
      /\ answer'[c].outcome = outcome /\ answer'[c].ticket = t
      /\ wire'[c].stage \in {wire[c].stage, "idle"}
  BY <1>1 DEF TypeInv, TypeOK, ProviderTypeOK, SetStage
<1>4. CheckedAt(c)'
  BY <1>1, <1>3 DEF CallInv, CheckedAt, RegisterStage
<1>5. WireAt(c)' /\ RefusedAt(c)' /\ CancelledAt(c)'
  BY <1>1, <1>3 DEF WireAt, RefusedAt, CancelledAt, Answered
<1>. QED  BY <1>2, <1>4, <1>5, CallAlone

\* The seats are in hand after the event check: the call is answered, or its
\* request to register goes out.
LEMMA CallUseSeats ==
    ASSUME TypeInv, CallInv, NEW c \in Calls, pc[c] \in {"event", "seats"},
           NEW l, NEW seats, UseSeats(c, l, seats), offered \subseteq offered',
           op[c].kind = "create" => c \in offered
    PROVE  CallInv'
<1>1. CASE \E outcome \in {"Listed", "SeatTakenError"} :
              AnswerWith(c, outcome, None) /\ SetStage(c, "idle")
  <2>1. PICK outcome \in {"Listed", "SeatTakenError"} :
          AnswerWith(c, outcome, None) /\ SetStage(c, "idle")
    BY <1>1
  <2>2. wire'[c].stage = "idle"
    BY <2>1 DEF SetStage, TypeInv, TypeOK, ProviderTypeOK
  <2>. QED
    BY <2>1, <2>2, CallAnswer DEF Outcome, Returned, Handled
<1>2. CASE /\ op[c].kind = "create"
           /\ Goto(c, "register")
           /\ UNCHANGED <<op, answer>>
           /\ SetStage(c, "register_sent")
  <2>1. answer[c] = None
    BY DEF TypeInv, Phases, Phase
  <2>2. OnlyCall(c)
    BY <1>2 DEF OnlyCall, Own, TypeInv, TypeOK, ProviderTypeOK, SetStage, Goto
  <2>3. (WireAt(c) /\ RefusedAt(c) /\ CheckedAt(c) /\ CancelledAt(c))'
    BY <1>2, <2>1
       DEF WireAt, RefusedAt, CheckedAt, CancelledAt, Answered, RegisterStage,
           TypeInv, TypeOK, ProviderTypeOK, SetStage, Goto
  <2>. QED  BY <2>2, <2>3, CallAlone
<1>. QED  BY <1>1, <1>2 DEF UseSeats, Raise

\* The event check passes only for a seat that is on sale.
LEMMA AcceptedIsOffered ==
    ASSUME TypeInv, OfferInv, NEW c \in Calls, EventAccepted(c), op[c].kind = "create"
    PROVE  c \in offered
<1>1. op[c] \in TicketRegistration /\ op[c].seat \in Seats
  BY DEF EventAccepted, TypeInv, Phases, Phase, SeatsQuery, TicketRegistration
<1>2. PICK row \in EventRows : row = events[op[c].event]
  BY <1>1 DEF EventAccepted, TypeInv, TypeOK, TicketRegistration
<1>3. /\ row.status = "published" /\ row.deadline # "passed"
      /\ row.pattern # None /\ IsValidSeat(row.pattern, op[c].seat)
  BY <1>2 DEF EventAccepted, NotAvailable, NoSuchSeat
<1>4. row.pattern \in Pattern /\ row.deadline = "ahead"
  BY <1>3, EventRowsAreEvents DEF Event
<1>5. InVenue(row.pattern, op[c].seat)
  BY <1>1, <1>3, <1>4, PatternIsVenue, SeatsAreSeatNames
<1>6. OnSale(events[op[c].event], op[c].seat)
  BY <1>2, <1>3, <1>4, <1>5 DEF OnSale, EventAccepted
<1>. QED  BY <1>6 DEF OfferInv, EventAccepted

\* Refusals and failures come where no request is out that could be confirmed.
LEMMA CallRaise ==
    ASSUME TypeInv, CallInv, NEW c \in Calls, offered \subseteq offered',
           \/ LookupKey(c) /\ ~ Await(c, "event")
           \/ ReadTicket(c) /\ NoTicket(op[c].ticket)
           \/ EventRefused(c) \/ SeatsFail(c) \/ RegisterUnlisted(c)
           \/ RegisterRefused(c) \/ RegisterFails(c) \/ CommitClash(c)
           \/ UnregisterMissing(c) \/ UnregisterFails(c) \/ DatabaseFails(c)
           \/ Respond(c)
    PROVE  CallInv'
<1>1. CASE LookupKey(c) /\ ~ Await(c, "event")
  <2>1. /\ pc[c] = "lookup" /\ UNCHANGED wire
        /\ \E outcome \in {"Created", "IdempotencyConflictError"} :
              \E t : AnswerWith(c, outcome, t)
    BY <1>1 DEF LookupKey, Raise, providerVars
  <2>2. wire'[c].stage = "idle"
    BY <2>1 DEF CallInv, WireAt
  <2>. QED  BY <2>1, <2>2, CallAnswer DEF Outcome, Returned, Handled
<1>2. CASE EventRefused(c)
  <2>1. /\ pc[c] = "event" /\ UNCHANGED wire
        /\ \E outcome \in Handled : AnswerWith(c, outcome, None)
    BY <1>2 DEF EventRefused, Raise, providerVars, Handled
  <2>2. wire'[c].stage = "idle"
    BY <2>1 DEF CallInv, WireAt
  <2>. QED  BY <2>1, <2>2, CallAnswer DEF Outcome, Handled
<1>3. CASE RegisterRefused(c)
  <2>1. /\ pc[c] = "register" /\ UNCHANGED wire
        /\ wire[c].stage = "register_refused"
        /\ AnswerWith(c, "SeatTakenError", None)
    BY <1>3 DEF RegisterRefused, Raise, providerVars
  <2>. QED  BY <2>1, CallAnswer DEF Outcome, Handled
<1>4. CASE (ReadTicket(c) /\ NoTicket(op[c].ticket)) \/ UnregisterMissing(c)
           \/ UnregisterFails(c)
  <2>1. /\ pc[c] \in {"ticket", "unregister"} /\ UNCHANGED wire
        /\ \E outcome \in Outcome \ {"Cancelled"} : AnswerWith(c, outcome, None)
    BY <1>4 DEF ReadTicket, UnregisterMissing, UnregisterFails, Raise, providerVars,
                Outcome, Handled, Unhandled
  <2>2. op[c].kind # "create"
    BY <2>1 DEF TypeInv, Phases, Phase, Unregistration
  <2>. QED  BY <2>1, <2>2, CallAnswer
<1>5. CASE SeatsFail(c) \/ RegisterUnlisted(c) \/ RegisterFails(c) \/ CommitClash(c)
           \/ DatabaseFails(c)
  <2>1. /\ pc[c] \notin {"idle", "done", "dead"}
        /\ UNCHANGED wire \/ SetStage(c, "idle")
        /\ \E outcome \in {"ProviderTemporarilyUnavailableError"} \cup Unhandled :
              AnswerWith(c, outcome, None)
    BY <1>5 DEF SeatsFail, RegisterUnlisted, RegisterFails, CommitClash, DatabaseFails,
                Raise, providerVars, Unhandled, AwaitsDatabase
  <2>. QED  BY <2>1, CallAnswer DEF Outcome, Handled, Unhandled, Refusal
<1>6. CASE Respond(c)
  <2>1. /\ pc[c] = "committed" /\ UNCHANGED wire
        /\ \/ op[c].kind = "create" /\ AnswerWith(c, "Created", c)
           \/ op[c].kind # "create" /\ AnswerWith(c, "Cancelled", op[c].ticket)
    BY <1>6 DEF Respond, providerVars
  <2>2. op[c].kind # "create" => op[c] \in Unregistration
    BY <2>1 DEF TypeInv, Phases, Phase, TicketRegistration
  <2>. QED  BY <2>1, <2>2, CallAnswer DEF Outcome, Returned, Refusal
<1>. QED  BY <1>1, <1>2, <1>3, <1>4, <1>5, <1>6

\* The steps by which a call goes on, and those of the provider.
LEMMA CallMove ==
    ASSUME TypeInv, OfferInv, CallInv, NEW c \in Calls, offered \subseteq offered',
           \/ LookupKey(c) /\ Await(c, "event")
           \/ CacheMiss(c) \/ RegisterConfirmed(c) \/ Commit(c)
           \/ ReadTicket(c) /\ ~ NoTicket(op[c].ticket)
           \/ UnregisterReturn(c) \/ CommitCancel(c) \/ Provider(c)
    PROVE  CallInv'
<1>1. /\ UNCHANGED <<op, answer>>
      /\ OnlyCall(c)
  BY DEF LookupKey, CacheMiss, RegisterConfirmed, Commit, ReadTicket, NoTicket,
         UnregisterReturn, CommitCancel, Provider, ProviderListSeats, ProviderRegister,
         ProviderRefuse, ProviderUnregister, Await, Goto, SetStage, OnlyCall, Own,
         providerVars, callVars, TypeInv, TypeOK, ProviderTypeOK
<1>. USE DEF TypeInv, TypeOK, ProviderTypeOK, Goto, Await, SetStage, providerVars,
             WireAt, RegisterStage, UnregisterStage
<1>2. CASE ~ Provider(c)
  <2>1. answer[c] = None
    BY <1>2 DEF LookupKey, CacheMiss, EventAccepted, RegisterConfirmed, Commit, ReadTicket,
                UnregisterReturn, CommitCancel, Phases, Phase
  <2>2. CheckedAt(c)'
    <3>1. CASE CacheMiss(c)
      <4>1. op[c].kind = "create" => c \in offered
        BY <3>1, AcceptedIsOffered DEF CacheMiss
      <4>. QED  BY <1>1, <3>1, <4>1 DEF CacheMiss, CheckedAt
    <3>2. CASE ~ CacheMiss(c)
      <4>1. /\ pc'[c] # "seats"
            /\ wire'[c].stage \in {wire[c].stage, "unregister_sent"}
        BY <1>2, <3>2 DEF LookupKey, RegisterConfirmed, Commit, ReadTicket, NoTicket,
                          UnregisterReturn, CommitCancel
      <4>. QED  BY <1>1, <4>1 DEF CallInv, CheckedAt
    <3>. QED  BY <3>1, <3>2
  <2>3. WireAt(c)'
    <3>0. WireAt(c)
      BY DEF CallInv
    <3>1. CASE LookupKey(c) /\ Await(c, "event")
      BY <1>1, <3>0, <3>1 DEF LookupKey
    <3>2. CASE CacheMiss(c)
      BY <1>1, <3>2 DEF CacheMiss
    <3>3. CASE RegisterConfirmed(c)
      BY <1>1, <3>3 DEF RegisterConfirmed
    <3>4. CASE Commit(c)
      <4>1. op[c].kind = "create"
        BY <3>4 DEF Commit, Phases, Phase, TicketRegistration
      <4>. QED  BY <1>1, <3>0, <3>4, <4>1 DEF Commit
    <3>5. CASE ReadTicket(c) /\ ~ NoTicket(op[c].ticket)
      BY <1>1, <3>5 DEF ReadTicket
    <3>6. CASE UnregisterReturn(c)
      BY <1>1, <3>6 DEF UnregisterReturn
    <3>7. CASE CommitCancel(c)
      <4>1. op[c].kind # "create"
        BY <3>7 DEF CommitCancel, Phases, Phase, Unregistration
      <4>. QED  BY <1>1, <3>0, <3>7, <4>1 DEF CommitCancel
    <3>. QED  BY <1>2, <3>1, <3>2, <3>3, <3>4, <3>5, <3>6, <3>7
  <2>. QED  BY <1>1, <2>1, <2>2, <2>3, CallAlone DEF RefusedAt, CancelledAt, Answered
<1>3. CASE Provider(c)
  <2>1. /\ UNCHANGED pc
        /\ \/ wire[c].stage = "seats_sent" /\ wire'[c].stage = "seats_ok"
           \/ /\ wire[c].stage = "register_sent"
              /\ wire'[c].stage \in {"register_ok", "register_refused"}
           \/ /\ wire[c].stage = "unregister_sent"
              /\ wire'[c].stage \in {"unregister_ok", "unregister_missing"}
    BY <1>3 DEF Provider, ProviderListSeats, ProviderRegister, ProviderRefuse,
                ProviderUnregister, callVars
  <2>2. WireAt(c)' /\ CheckedAt(c)' /\ RefusedAt(c)' /\ CancelledAt(c)'
    BY <1>1, <2>1 DEF CallInv, CheckedAt, RefusedAt, CancelledAt, Answered
  <2>. QED  BY <1>1, <2>2, CallAlone
<1>. QED  BY <1>2, <1>3

\* A payload arrives, the cached list is used, the seats have come.
LEMMA CallSeats ==
    ASSUME TypeInv, OfferInv, CallInv, NEW c \in Calls, offered \subseteq offered',
           Arrive(c) \/ CacheHit(c) \/ SeatsReturn(c)
    PROVE  CallInv'
<1>1. CASE Arrive(c)
  <2>1. /\ pc[c] = "idle" /\ UNCHANGED <<answer, wire>>
        /\ pc'[c] \in {"ticket", "lookup", "event"}
        /\ \A d \in Calls \ {c} : op'[d] = op[d] /\ pc'[d] = pc[d]
    BY <1>1 DEF Arrive, Goto, providerVars, TypeInv, TypeOK
  <2>2. answer[c] = None /\ wire[c].stage = "idle"
    BY <2>1 DEF TypeInv, Phases, Phase, CallInv, WireAt
  <2>. QED
    BY <2>1, <2>2, CallAlone
       DEF OnlyCall, Own, WireAt, RefusedAt, CheckedAt, CancelledAt, Answered,
           RegisterStage
<1>2. CASE CacheHit(c)
  BY <1>2, AcceptedIsOffered, CallUseSeats DEF CacheHit, EventAccepted
<1>3. CASE SeatsReturn(c)
  BY <1>3, CallUseSeats DEF SeatsReturn, CallInv, CheckedAt
<1>. QED  BY <1>1, <1>2, <1>3

\* Every step keeps what the wire tells.
LEMMA CallNext == TypeInv /\ OfferInv /\ CallInv /\ [Next]_vars => CallInv'
<1>. SUFFICES ASSUME TypeInv, OfferInv, CallInv, [Next]_vars
              PROVE  CallInv'
  OBVIOUS
<1>0. offered \subseteq offered'
  BY OfferGrows
<1>1. ASSUME NEW c \in Calls, Arrive(c) \/ Step(c) \/ Provider(c)  PROVE CallInv'
  BY <1>0, <1>1, CallRaise, CallMove, CallSeats DEF Step
<1>2. CASE Crash
  <2>1. ASSUME NEW d \in Calls
        PROVE  (WireAt(d) /\ RefusedAt(d) /\ CheckedAt(d) /\ CancelledAt(d))'
    <3>1. /\ UNCHANGED <<op, answer>>
          /\ pc'[d] = pc[d] \/ pc'[d] = "dead"
          /\ pc'[d] \notin Running
          /\ \/ wire'[d].stage = wire[d].stage
             \/ wire[d].stage \in {"seats_sent", "seats_ok"} /\ wire'[d].stage = "idle"
      BY <1>2 DEF Crash, ProviderForgetsReads, TypeInv, TypeOK, ProviderTypeOK, Running,
                  AwaitsDatabase, AwaitsProvider
    <3>. QED
      BY <1>0, <3>1 DEF CallInv, WireAt, RefusedAt, CheckedAt, CancelledAt, Answered,
                  RegisterStage, Running, AwaitsDatabase, AwaitsProvider
  <2>. QED  BY <2>1 DEF CallInv
<1>3. CASE \/ \E e \in Events : EventSynced(e) \/ SeatsExpire(e)
           \/ CleanKeys \/ UNCHANGED vars
  <2>1. \A d \in Calls : UNCHANGED Own(d)
    BY <1>3 DEF EventSynced, SeatsExpire, CleanKeys, vars, callVars, providerVars, Own
  <2>. QED  BY <1>0, <2>1, CallSame DEF CallInv
<1>. QED  BY <1>1, <1>2, <1>3 DEF Next

\* What the wire tells holds at all times.
LEMMA CallInvariant == Spec => []CallInv
BY CallInit, CallNext, TypeInvariant, OfferInvariant, PTL DEF Spec

-----------------------------------------------------------------------------
(* What the provider holds, against the tables and the wire.               *)

\* A seat is held by the registration of it that the provider confirmed.
HolderIsConfirmed ==
    \A e \in Events, s \in Seats : booked[e][s] # None =>
        /\ wire[booked[e][s]].stage = "register_ok"
        /\ op[booked[e][s]].event = e
        /\ op[booked[e][s]].seat = s

StoredIsConfirmed ==
    \A t \in Calls : Stored(t) =>
        wire[t].stage = "register_ok" /\ tickets[t].event = op[t].event

\* Call c has had ticket t released.
Releases(c, t) == wire[c].stage = "unregister_ok" /\ op[c].ticket = t

\* A confirmed ticket holds its seat until a cancellation releases it.
ConfirmedHolds ==
    \A t \in Calls : wire[t].stage = "register_ok" =>
        Booked(t) \/ \E c \in Calls : Releases(c, t)

ReleasedIsFree ==
    \A c \in Calls : wire[c].stage = "unregister_ok" => ~ Booked(op[c].ticket)

Cancelled(t) == Stored(t) /\ tickets[t].status = "cancelled"

CancelledIsFree == \A t \in Calls : Cancelled(t) => ~ Booked(t)

\* Call c has committed a cancellation, or has answered that it did.
HasCancelled(c) ==
    \/ pc[c] = "committed" /\ op[c] \in Unregistration
    \/ Answered(c, "Cancelled")

CancelIsStored == \A c \in Calls : HasCancelled(c) => Cancelled(op[c].ticket)

HoldInv ==
    /\ HolderIsConfirmed
    /\ StoredIsConfirmed
    /\ ConfirmedHolds
    /\ ReleasedIsFree
    /\ CancelledIsFree
    /\ CancelIsStored

\* No seat is held and no ticket is stored.
LEMMA HoldInit == Init => HoldInv
BY NoneIsNoAnswer, NoneIsNoValue
   DEF Init, ProviderInit, HoldInv, HolderIsConfirmed, StoredIsConfirmed, ConfirmedHolds,
       ReleasedIsFree, CancelledIsFree, CancelIsStored, Cancelled, HasCancelled, Stored,
       Answered, Releases, Booked, Holds

\* The answers of the provider that last.
Lasting == {"register_ok", "unregister_ok"}

\* Steps that neither store or cancel a ticket nor are the provider's.
LEMMA HoldQuiet ==
    ASSUME TypeInv, HoldInv,
           UNCHANGED <<booked, tickets>>,
           \A d \in Calls :
              /\ \/ wire'[d].stage = wire[d].stage
                 \/ wire[d].stage \notin Lasting /\ wire'[d].stage \notin Lasting
              /\ \/ op'[d] = op[d]
                 \/ wire[d].stage \notin Lasting /\ ~ HasCancelled(d)'
              /\ HasCancelled(d)' => HasCancelled(d)
    PROVE  HoldInv'
<1>1. \A t \in Calls : /\ Stored(t)' <=> Stored(t)
                       /\ Booked(t)' <=> Booked(t)
                       /\ Cancelled(t)' <=> Cancelled(t)
  BY DEF Stored, Booked, Holds, Cancelled
<1>2. \A d \in Calls : wire[d].stage \in Lasting \/ wire'[d].stage \in Lasting =>
                          op'[d] = op[d] /\ wire'[d].stage = wire[d].stage
  OBVIOUS
<1>3. HolderIsConfirmed'
  BY <1>2 DEF HoldInv, HolderIsConfirmed, Lasting, TypeInv, TypeOK, ProviderTypeOK
<1>4. StoredIsConfirmed'
  BY <1>1, <1>2 DEF HoldInv, StoredIsConfirmed, Lasting
<1>5. ConfirmedHolds'
  BY <1>1, <1>2 DEF HoldInv, ConfirmedHolds, Releases, Lasting
<1>6. ReleasedIsFree'
  BY <1>2 DEF HoldInv, ReleasedIsFree, Lasting, Booked, Holds
<1>7. CancelledIsFree'
  BY <1>1 DEF HoldInv, CancelledIsFree
<1>8. CancelIsStored'
  <2>1. \A d \in Calls : HasCancelled(d)' => HasCancelled(d) /\ op'[d] = op[d]
    OBVIOUS
  <2>. QED  BY <2>1 DEF HoldInv, CancelIsStored, Cancelled, Stored
<1>. QED  BY <1>3, <1>4, <1>5, <1>6, <1>7, <1>8 DEF HoldInv


\* A step of call c that is not the provider's and commits nothing.
LEMMA HoldMoves ==
    ASSUME TypeInv, CallInv, HoldInv, NEW c \in Calls,
           Step(c), ~ Commit(c), ~ CommitCancel(c)
    PROVE  HoldInv'
<1>1. UNCHANGED <<booked, tickets, op>>
  BY DEF Step, LookupKey, EventRefused, CacheHit, CacheMiss, SeatsReturn, SeatsFail,
         RegisterConfirmed, RegisterUnlisted, RegisterRefused, RegisterFails, CommitClash,
         Respond, ReadTicket, UnregisterReturn, UnregisterMissing, UnregisterFails,
         DatabaseFails, UseSeats, Raise, AnswerWith, Await, providerVars, TablesUnchanged,
         tables, history
<1>2. \/ UNCHANGED wire
      \/ /\ pc[c] \in {"event", "seats", "ticket"}
         /\ \E stage \in Stage \ Lasting : SetStage(c, stage)
  BY DEF Step, LookupKey, EventRefused, CacheHit, CacheMiss, SeatsReturn, SeatsFail,
         RegisterConfirmed, RegisterUnlisted, RegisterRefused, RegisterFails, CommitClash,
         Respond, ReadTicket, UnregisterReturn, UnregisterMissing, UnregisterFails,
         DatabaseFails, UseSeats, EventAccepted, providerVars, Stage, Lasting
<1>3. \A d \in Calls :
         \/ wire'[d].stage = wire[d].stage
         \/ wire[d].stage \notin Lasting /\ wire'[d].stage \notin Lasting
  BY <1>2 DEF SetStage, TypeInv, TypeOK, ProviderTypeOK, Lasting, CallInv, WireAt
<1>4. /\ \E p \in PC : pc' = [pc EXCEPT ![c] = p] /\ p # "committed"
      /\ \/ UNCHANGED answer
         \/ \E outcome, t : answer' = [answer EXCEPT ![c] = [outcome |-> outcome, ticket |-> t]]
                            /\ (outcome = "Cancelled" => HasCancelled(c))
  <2>1. CASE LookupKey(c) \/ EventRefused(c) \/ SeatsFail(c) \/ RegisterUnlisted(c)
             \/ RegisterRefused(c) \/ RegisterFails(c) \/ CommitClash(c) \/ ReadTicket(c)
             \/ UnregisterMissing(c) \/ UnregisterFails(c) \/ DatabaseFails(c)
    BY <2>1 DEF LookupKey, EventRefused, SeatsFail, RegisterUnlisted, RegisterRefused,
         RegisterFails, CommitClash, ReadTicket, UnregisterMissing, UnregisterFails,
         DatabaseFails, Raise, AnswerWith, Await, Goto, PC, Running, AwaitsDatabase,
         AwaitsProvider
  <2>2. CASE CacheHit(c) \/ CacheMiss(c) \/ SeatsReturn(c) \/ RegisterConfirmed(c)
             \/ UnregisterReturn(c)
    BY <2>2 DEF CacheHit, CacheMiss, SeatsReturn, RegisterConfirmed, UnregisterReturn,
         UseSeats, Raise, AnswerWith, Await, Goto, PC, Running, AwaitsDatabase,
         AwaitsProvider
  <2>3. CASE Respond(c)
    <3>1. op[c].kind # "create" => HasCancelled(c)
      BY <2>3 DEF Respond, HasCancelled, TypeInv, Phases, Phase, TicketRegistration
    <3>. QED  BY <2>3, <3>1 DEF Respond, AnswerWith, Goto, PC
  <2>. QED  BY <2>1, <2>2, <2>3 DEF Step
<1>5. \A d \in Calls : HasCancelled(d)' => HasCancelled(d)
  BY <1>1, <1>4 DEF HasCancelled, Answered, TypeInv, TypeOK
<1>. QED  BY <1>1, <1>3, <1>5, HoldQuiet

\* A ticket is stored where a registration was confirmed and its row is new.
LEMMA HoldCommit ==
    ASSUME TypeInv, CallInv, KeyInv, HoldInv, NEW c \in Calls, Commit(c)
    PROVE  HoldInv'
<1>1. /\ op[c] \in TicketRegistration /\ ~ Stored(c)
      /\ wire[c].stage = "register_ok"
      /\ UNCHANGED <<op, answer, booked, wire>>
      /\ pc' = [pc EXCEPT ![c] = "committed"]
      /\ tickets' = [tickets EXCEPT ![c] =
                       [event |-> op[c].event, status |-> "active"]]
  BY DEF Commit, Await, Goto, providerVars, TypeInv, Phases, Phase, KeyInv,
         StoredByCreate, Ended, CallInv, WireAt
<1>2. \A t \in Calls : t # c => tickets'[t] = tickets[t]
  BY <1>1 DEF TypeInv, TypeOK
<1>3. tickets'[c] = [event |-> op[c].event, status |-> "active"]
  BY <1>1 DEF TypeInv, TypeOK
<1>4. \A t \in Calls : Cancelled(t)' <=> Cancelled(t)
  BY <1>1, <1>2, <1>3 DEF Cancelled, Stored
<1>5. \A t \in Calls : Booked(t)' <=> Booked(t)
  BY <1>1 DEF Booked, Holds
<1>6. \A d \in Calls : HasCancelled(d)' => HasCancelled(d)
  BY <1>1 DEF HasCancelled, Answered, TypeInv, TypeOK, TicketRegistration, Unregistration
<1>7. HolderIsConfirmed' /\ ReleasedIsFree'
  BY <1>1 DEF HoldInv, HolderIsConfirmed, ReleasedIsFree, Booked, Holds
<1>8. StoredIsConfirmed'
  BY <1>1, <1>2, <1>3 DEF HoldInv, StoredIsConfirmed, Stored
<1>9. ConfirmedHolds'
  BY <1>1, <1>5 DEF HoldInv, ConfirmedHolds, Releases
<1>10. CancelledIsFree'
  BY <1>4, <1>5 DEF HoldInv, CancelledIsFree
<1>11. CancelIsStored'
  <2>. SUFFICES ASSUME NEW d \in Calls, HasCancelled(d)'
                PROVE  Cancelled(op[d].ticket)'
    BY <1>1 DEF CancelIsStored
  <2>1. HasCancelled(d) /\ Cancelled(op[d].ticket)
    BY <1>6 DEF HoldInv, CancelIsStored
  <2>2. op[d].ticket \in Calls
    BY <2>1 DEF HasCancelled, CallInv, CancelledAt, Unregistration
  <2>. QED  BY <1>1, <1>4, <2>1, <2>2
<1>. QED  BY <1>7, <1>8, <1>9, <1>10, <1>11 DEF HoldInv

\* A ticket is cancelled where the provider has released it.
LEMMA HoldCancel ==
    ASSUME TypeInv, CallInv, HoldInv, NEW c \in Calls, CommitCancel(c)
    PROVE  HoldInv'
<1>. DEFINE u == op[c].ticket
<1>1. /\ op[c] \in Unregistration /\ u \in Calls /\ Stored(u)
      /\ wire[c].stage = "unregister_ok"
      /\ UNCHANGED <<op, answer, booked, wire>>
      /\ pc' = [pc EXCEPT ![c] = "committed"]
      /\ tickets' = [tickets EXCEPT ![u] =
                       [event |-> tickets[u].event, status |-> "cancelled"]]
  BY DEF CommitCancel, EventOf, Await, Goto, providerVars, TypeInv, Phases, Phase,
         Unregistration, CallInv, WireAt
<1>2. tickets[u].event \in Events
  BY <1>1 DEF Stored, TypeInv, TypeOK, Ticket
<1>3. /\ Cancelled(u)'
      /\ tickets'[u].event = tickets[u].event
      /\ \A t \in Calls : t # u => tickets'[t] = tickets[t]
  <2>1. [event |-> tickets[u].event, status |-> "cancelled"] # None
    BY <1>2, NoneIsNoValue DEF Ticket, TicketStatus
  <2>. QED  BY <1>1, <2>1 DEF Cancelled, Stored, TypeInv, TypeOK
<1>4. \A t \in Calls : Cancelled(t)' <=> Cancelled(t) \/ t = u
  BY <1>1, <1>3 DEF Cancelled, Stored
<1>5. \A t \in Calls : Booked(t)' <=> Booked(t)
  BY <1>1 DEF Booked, Holds
<1>6. \A d \in Calls : HasCancelled(d)' => HasCancelled(d) \/ d = c
  BY <1>1 DEF HasCancelled, Answered, TypeInv, TypeOK
<1>7. HolderIsConfirmed' /\ ReleasedIsFree'
  BY <1>1 DEF HoldInv, HolderIsConfirmed, ReleasedIsFree, Booked, Holds
<1>8. StoredIsConfirmed'
  BY <1>1, <1>3 DEF HoldInv, StoredIsConfirmed, Stored
<1>9. ConfirmedHolds'
  BY <1>1, <1>5 DEF HoldInv, ConfirmedHolds, Releases
<1>10. CancelledIsFree'
  BY <1>1, <1>4, <1>5 DEF HoldInv, CancelledIsFree, ReleasedIsFree
<1>11. CancelIsStored'
  <2>. SUFFICES ASSUME NEW d \in Calls, HasCancelled(d)'
                PROVE  Cancelled(op[d].ticket)'
    BY <1>1 DEF CancelIsStored
  <2>1. CASE d = c
    BY <1>3, <2>1
  <2>2. CASE d # c
    <3>1. HasCancelled(d) /\ Cancelled(op[d].ticket)
      BY <1>6, <2>2 DEF HoldInv, CancelIsStored
    <3>2. op[d].ticket \in Calls
      BY <3>1 DEF HasCancelled, CallInv, CancelledAt, Unregistration
    <3>. QED  BY <1>1, <1>4, <3>1, <3>2
  <2>. QED  BY <2>1, <2>2
<1>. QED  BY <1>7, <1>8, <1>9, <1>10, <1>11 DEF HoldInv

\* The provider gives a free seat to a ticket that is new to it.
LEMMA HoldRegister ==
    ASSUME TypeInv, CallInv, HoldInv, NEW c \in Calls,
           ProviderRegister(c, op[c].event, op[c].seat),
           UNCHANGED <<pc, op, answer, tickets>>
    PROVE  HoldInv'
<1>. DEFINE e == op[c].event
            s == op[c].seat
<1>1. /\ wire[c].stage = "register_sent" /\ op[c] \in TicketRegistration
      /\ e \in Events /\ s \in Seats /\ booked[e][s] = None
      /\ wire'[c].stage = "register_ok"
      /\ \A d \in Calls : d # c => wire'[d] = wire[d]
      /\ booked'[e][s] = c
      /\ \A f \in Events, r \in Seats : f # e \/ r # s => booked'[f][r] = booked[f][r]
  BY DEF ProviderRegister, SetStage, TypeInv, TypeOK, ProviderTypeOK, Phases, WirePhase,
         TicketRegistration
<1>2. /\ ~ Stored(c)
      /\ \A d \in Calls : ~ Releases(d, c)
  <2>1. ~ Stored(c)
    BY <1>1 DEF HoldInv, StoredIsConfirmed
  <2>2. \A d \in Calls : wire[d].stage = "unregister_ok" => Stored(op[d].ticket)
    BY DEF TypeInv, Phases, WirePhase
  <2>. QED  BY <2>1, <2>2 DEF Releases
<1>3. \A t \in Calls : Booked(t)' <=> Booked(t) \/ t = c
  <2>1. ASSUME NEW t \in Calls, t # c
        PROVE  \A f \in Events, r \in Seats : booked'[f][r] = t <=> booked[f][r] = t
    <3>. SUFFICES ASSUME NEW f \in Events, NEW r \in Seats
                  PROVE  booked'[f][r] = t <=> booked[f][r] = t
      OBVIOUS
    <3>1. CASE f = e /\ r = s
      BY <1>1, <2>1, <3>1, NoneIsNoValue
    <3>2. CASE f # e \/ r # s
      BY <1>1, <3>2
    <3>. QED  BY <3>1, <3>2
  <2>2. Booked(c)'
    BY <1>1 DEF Booked, Holds
  <2>. QED  BY <2>1, <2>2 DEF Booked, Holds
<1>4. \A t \in Calls : /\ Stored(t)' <=> Stored(t)
                       /\ Cancelled(t)' <=> Cancelled(t)
                       /\ HasCancelled(t)' <=> HasCancelled(t)
  BY DEF Stored, Cancelled, HasCancelled, Answered
<1>5. HolderIsConfirmed'
  <2>. SUFFICES ASSUME NEW f \in Events, NEW r \in Seats, booked'[f][r] # None
                PROVE  /\ wire'[booked'[f][r]].stage = "register_ok"
                       /\ op[booked'[f][r]].event = f
                       /\ op[booked'[f][r]].seat = r
    BY DEF HolderIsConfirmed
  <2>1. CASE f = e /\ r = s
    BY <1>1, <2>1
  <2>2. CASE f # e \/ r # s
    <3>1. booked'[f][r] = booked[f][r] /\ booked[f][r] \in Calls
      BY <1>1, <2>2 DEF TypeInv, TypeOK, ProviderTypeOK
    <3>. QED  BY <1>1, <3>1 DEF HoldInv, HolderIsConfirmed
  <2>. QED  BY <2>1, <2>2
<1>6. StoredIsConfirmed'
  BY <1>1, <1>2 DEF HoldInv, StoredIsConfirmed, Stored
<1>7. ConfirmedHolds'
  BY <1>1, <1>3 DEF HoldInv, ConfirmedHolds, Releases
<1>8. ReleasedIsFree'
  <2>. SUFFICES ASSUME NEW d \in Calls, wire'[d].stage = "unregister_ok"
                PROVE  ~ Booked(op[d].ticket)'
    BY DEF ReleasedIsFree, Booked, Holds
  <2>1. wire[d].stage = "unregister_ok" /\ op[d].ticket # c
    BY <1>1, <1>2 DEF Releases
  <2>2. op[d].ticket \in Calls
    BY <2>1 DEF TypeInv, Phases, WirePhase, Unregistration
  <2>. QED  BY <1>3, <2>1, <2>2 DEF HoldInv, ReleasedIsFree
<1>9. CancelledIsFree'
  BY <1>2, <1>3, <1>4 DEF HoldInv, CancelledIsFree, Cancelled
<1>10. CancelIsStored'
  BY <1>4 DEF HoldInv, CancelIsStored, Cancelled, Stored
<1>. QED  BY <1>5, <1>6, <1>7, <1>8, <1>9, <1>10 DEF HoldInv

\* The provider frees the seat of a ticket.
LEMMA HoldUnregister ==
    ASSUME TypeInv, CallInv, HoldInv, NEW c \in Calls,
           ProviderUnregister(c, EventOf(c), op[c].ticket),
           wire'[c].stage = "unregister_ok",
           UNCHANGED <<pc, op, answer, tickets>>
    PROVE  HoldInv'
<1>. DEFINE u == op[c].ticket
            e == EventOf(c)
<1>1. /\ wire[c].stage = "unregister_sent"
      /\ op[c] \in Unregistration /\ u \in Calls /\ Stored(u)
      /\ \A d \in Calls : d # c => wire'[d] = wire[d]
      /\ booked' = [booked EXCEPT ![e] =
                      [r \in Seats |-> IF @[r] = u THEN None ELSE @[r]]]
  BY DEF ProviderUnregister, SetStage, TypeInv, TypeOK, ProviderTypeOK, Phases, WirePhase,
         Unregistration
<1>2. e = op[u].event /\ wire[u].stage = "register_ok" /\ u # None
  BY <1>1, NoneIsNoValue DEF HoldInv, StoredIsConfirmed, EventOf
<1>3. \A f \in Events, r \in Seats :
         booked'[f][r] = IF booked[f][r] = u THEN None ELSE booked[f][r]
  <2>1. \A f \in Events, r \in Seats : booked[f][r] = u => f = e
    BY <1>2 DEF HoldInv, HolderIsConfirmed
  <2>. QED  BY <1>1, <2>1 DEF TypeInv, TypeOK, ProviderTypeOK
<1>4. \A t \in Calls : Booked(t)' <=> Booked(t) /\ t # u
  BY <1>2, <1>3, NoneIsNoValue DEF Booked, Holds
<1>5. \A t \in Calls : /\ Stored(t)' <=> Stored(t)
                       /\ Cancelled(t)' <=> Cancelled(t)
                       /\ HasCancelled(t)' <=> HasCancelled(t)
  BY DEF Stored, Cancelled, HasCancelled, Answered
<1>6. HolderIsConfirmed'
  <2>. SUFFICES ASSUME NEW f \in Events, NEW r \in Seats, booked'[f][r] # None
                PROVE  /\ wire'[booked'[f][r]].stage = "register_ok"
                       /\ op[booked'[f][r]].event = f
                       /\ op[booked'[f][r]].seat = r
    BY DEF HolderIsConfirmed
  <2>1. booked'[f][r] = booked[f][r] /\ booked[f][r] \in Calls
    BY <1>3 DEF TypeInv, TypeOK, ProviderTypeOK
  <2>2. wire[booked[f][r]].stage = "register_ok"
    BY <2>1 DEF HoldInv, HolderIsConfirmed
  <2>. QED  BY <1>1, <2>1, <2>2 DEF HoldInv, HolderIsConfirmed
<1>7. StoredIsConfirmed'
  BY <1>1, <1>5 DEF HoldInv, StoredIsConfirmed
<1>8. ConfirmedHolds'
  <2>. SUFFICES ASSUME NEW t \in Calls, wire'[t].stage = "register_ok"
                PROVE  Booked(t)' \/ \E d \in Calls : Releases(d, t)'
    BY DEF ConfirmedHolds, Booked, Holds, Releases
  <2>1. CASE t = u
    BY <2>1 DEF Releases
  <2>2. CASE t # u
    <3>1. Booked(t) \/ \E d \in Calls : Releases(d, t)
      BY <1>1 DEF HoldInv, ConfirmedHolds
    <3>2. \A d \in Calls : Releases(d, t) => Releases(d, t)'
      BY <1>1 DEF Releases
    <3>. QED  BY <1>4, <2>2, <3>1, <3>2
  <2>. QED  BY <2>1, <2>2
<1>9. ReleasedIsFree'
  <2>. SUFFICES ASSUME NEW d \in Calls, wire'[d].stage = "unregister_ok"
                PROVE  ~ Booked(op[d].ticket)'
    BY DEF ReleasedIsFree, Booked, Holds
  <2>1. CASE d = c
    BY <1>1, <1>4, <2>1
  <2>2. CASE d # c
    <3>1. wire[d].stage = "unregister_ok"
      BY <1>1, <2>2
    <3>2. op[d].ticket \in Calls
      BY <3>1 DEF TypeInv, Phases, WirePhase, Unregistration
    <3>. QED  BY <1>4, <3>1, <3>2 DEF HoldInv, ReleasedIsFree
  <2>. QED  BY <2>1, <2>2
<1>10. CancelledIsFree'
  BY <1>4, <1>5 DEF HoldInv, CancelledIsFree
<1>11. CancelIsStored'
  BY <1>5 DEF HoldInv, CancelIsStored, Cancelled, Stored
<1>. QED  BY <1>6, <1>7, <1>8, <1>9, <1>10, <1>11 DEF HoldInv

\* Whatever the provider does with a request.
LEMMA HoldProvider ==
    ASSUME TypeInv, CallInv, HoldInv, NEW c \in Calls, Provider(c)
    PROVE  HoldInv'
<1>1. /\ UNCHANGED <<pc, op, answer, tickets>>
      /\ \A d \in Calls : d # c => wire'[d] = wire[d]
  BY DEF Provider, callVars, tables, ProviderListSeats, ProviderRegister, ProviderRefuse,
         ProviderUnregister, SetStage, TypeInv, TypeOK, ProviderTypeOK
<1>2. CASE ProviderRegister(c, op[c].event, op[c].seat)
  BY <1>1, <1>2, HoldRegister
<1>3. CASE /\ ProviderUnregister(c, EventOf(c), op[c].ticket)
           /\ wire'[c].stage = "unregister_ok"
  BY <1>1, <1>3, HoldUnregister
<1>4. CASE \/ ProviderListSeats(c, op[c].event)
           \/ ProviderRefuse(c)
           \/ /\ ProviderUnregister(c, EventOf(c), op[c].ticket)
              /\ wire'[c].stage # "unregister_ok"
  <2>1. /\ UNCHANGED booked
        /\ wire[c].stage \notin Lasting
        /\ wire'[c].stage \notin Lasting
    BY <1>4 DEF ProviderListSeats, ProviderRefuse, ProviderUnregister, SetStage, TypeInv,
                TypeOK, ProviderTypeOK, Lasting
  <2>2. \A d \in Calls : HasCancelled(d)' <=> HasCancelled(d)
    BY <1>1 DEF HasCancelled, Answered
  <2>. QED  BY <1>1, <2>1, <2>2, HoldQuiet
<1>. QED  BY <1>2, <1>3, <1>4 DEF Provider

\* Every step keeps the tables and the provider in agreement.
LEMMA HoldStep == TypeInv /\ CallInv /\ KeyInv /\ HoldInv /\ [Next]_vars => HoldInv'
<1>. SUFFICES ASSUME TypeInv, CallInv, KeyInv, HoldInv, [Next]_vars
              PROVE  HoldInv'
  OBVIOUS
<1>1. ASSUME NEW c \in Calls, Step(c) \/ Provider(c)  PROVE HoldInv'
  BY <1>1, HoldMoves, HoldCommit, HoldCancel, HoldProvider
<1>2. ASSUME NEW c \in Calls, Arrive(c)  PROVE HoldInv'
  <2>1. /\ UNCHANGED <<booked, tickets, wire, answer>>
        /\ wire[c].stage = "idle" /\ pc[c] = "idle" /\ answer[c] = None
        /\ pc'[c] \in {"ticket", "lookup", "event"}
        /\ \A d \in Calls : d # c => op'[d] = op[d] /\ pc'[d] = pc[d]
    BY <1>2 DEF Arrive, Goto, providerVars, TablesUnchanged, tables, history, TypeInv,
                TypeOK, Phases, Phase, CallInv, WireAt
  <2>. QED  BY <2>1, HoldQuiet DEF HasCancelled, Answered, Lasting
<1>3. CASE \/ \E e \in Events : EventSynced(e) \/ SeatsExpire(e)
           \/ CleanKeys \/ Crash \/ UNCHANGED vars
  <2>1. /\ UNCHANGED <<booked, tickets, op, answer>>
        /\ pc' = pc \/ Crash
        /\ wire' = wire \/ ProviderForgetsReads
    BY <1>3 DEF EventSynced, SeatsExpire, CleanKeys, Crash, vars, callVars, tables,
                providerVars
  <2>2. \A d \in Calls :
           \/ wire'[d].stage = wire[d].stage
           \/ wire[d].stage \notin Lasting /\ wire'[d].stage \notin Lasting
    BY <2>1 DEF ProviderForgetsReads, Lasting
  <2>3. \A d \in Calls : HasCancelled(d)' => HasCancelled(d)
    BY <2>1 DEF HasCancelled, Answered, Crash
  <2>. QED  BY <2>1, <2>2, <2>3, HoldQuiet
<1>. QED  BY <1>1, <1>2, <1>3 DEF Next

\* The agreement holds at all times.
LEMMA HoldInvariant == Spec => []HoldInv
BY HoldInit, HoldStep, TypeInvariant, CallInvariant, KeyInvariant, PTL DEF Spec

-----------------------------------------------------------------------------
(* The properties of TicketUsecases about the provider.                    *)

\* A seat is sold only to a call that asked for it and for which it was on sale
\* before the check: status, deadline and pattern of one row, at one time, although
\* the provider is called long after and with another call's list.
THEOREM SoldWasOffered == Spec => []SoldWhileOffered
<1>1. TypeInv /\ CallInv /\ HoldInv => SoldWhileOffered
  <2>. SUFFICES ASSUME TypeInv, CallInv, HoldInv, NEW e \in Events, NEW s \in Seats,
                       booked[e][s] # None
                PROVE  /\ booked[e][s] \in offered
                       /\ op[booked[e][s]].event = e /\ op[booked[e][s]].seat = s
    BY DEF SoldWhileOffered
  <2>1. /\ booked[e][s] \in Calls
        /\ wire[booked[e][s]].stage = "register_ok"
        /\ op[booked[e][s]].event = e /\ op[booked[e][s]].seat = s
    BY DEF TypeInv, TypeOK, ProviderTypeOK, HoldInv, HolderIsConfirmed
  <2>. QED  BY <2>1 DEF CallInv, CheckedAt, RegisterStage
<1>. QED  BY <1>1, TypeInvariant, CallInvariant, HoldInvariant, PTL

\* A refused registration never holds a seat: answers of the provider that
\* come late cannot turn the refusal into a booking.
THEOREM RefusalsBookNothing == Spec => []RefusedBooksNothing
<1>1. TypeInv /\ CallInv /\ HoldInv => RefusedBooksNothing
  <2>. SUFFICES ASSUME TypeInv, CallInv, HoldInv, NEW c \in Calls,
                       answer[c] # None, op[c].kind = "create",
                       StatusCode("create", answer[c].outcome) \in {400, 404, 409}
                PROVE  ~ Booked(c) /\ wire[c].stage # "register_sent"
    BY DEF RefusedBooksNothing
  <2>1. answer[c].outcome \in Refusal
    BY RefusalCodes DEF TypeInv, TypeOK, Answer
  <2>2. wire[c].stage \notin {"register_sent", "register_ok"}
    BY <2>1 DEF CallInv, RefusedAt
  <2>3. c # None
    BY NoneIsNoValue
  <2>. QED  BY <2>2, <2>3 DEF HoldInv, HolderIsConfirmed, Booked, Holds
<1>. QED  BY <1>1, TypeInvariant, CallInvariant, HoldInvariant, PTL

\* A ticket cancelled here is released there, and a client told 200 has its
\* ticket cancelled.
THEOREM CancellationsRelease == Spec => []CancelledIsReleased
<1>1. CallInv /\ HoldInv => CancelledIsReleased
  <2>. SUFFICES ASSUME CallInv, HoldInv, NEW t \in Calls
                PROVE  /\ Cancelled(t) => ~ Booked(t)
                       /\ \A c \in Calls :
                             Answered(c, "Cancelled") /\ answer[c].ticket = t
                             => Cancelled(t)
    BY DEF CancelledIsReleased, Cancelled
  <2>1. \A c \in Calls : Answered(c, "Cancelled") /\ answer[c].ticket = t => op[c].ticket = t
    BY DEF CallInv, CancelledAt
  <2>. QED  BY <2>1 DEF HoldInv, CancelledIsFree, CancelIsStored, HasCancelled
<1>. QED  BY <1>1, CallInvariant, HoldInvariant, PTL

\* An active ticket without a seat is the work of an unfinished cancellation.
THEOREM DriftIsExplained == Spec => []DriftHasCancel
<1>1. TypeInv /\ HoldInv => DriftHasCancel
  <2>. SUFFICES ASSUME TypeInv, HoldInv, NEW t \in Calls,
                       Stored(t), tickets[t].status = "active", ~ Booked(t)
                PROVE  \E c \in Calls : /\ op[c] # None /\ op[c].kind = "cancel"
                                        /\ op[c].ticket = t
                                        /\ wire[c].stage = "unregister_ok"
                                        /\ ~ Answered(c, "Cancelled")
    BY DEF DriftHasCancel
  <2>1. PICK c \in Calls : Releases(c, t)
    BY DEF HoldInv, StoredIsConfirmed, ConfirmedHolds
  <2>2. op[c] \in Unregistration
    BY <2>1 DEF Releases, TypeInv, Phases, WirePhase
  <2>3. ~ Answered(c, "Cancelled")
    BY <2>1 DEF HoldInv, CancelIsStored, HasCancelled, Cancelled, Releases
  <2>. QED  BY <2>1, <2>2, <2>3, NoneIsNoPayload DEF Releases, Unregistration
<1>. QED  BY <1>1, TypeInvariant, HoldInvariant, PTL

\* A stored ticket is only ever cancelled, and its announcement stays.
THEOREM TicketsAreOnlyCancelled == Spec => TicketLifecycle
<1>. DEFINE Kept == \A t \in Calls : Stored(t) =>
                       /\ tickets'[t] \in {tickets[t],
                                           [tickets[t] EXCEPT !.status = "cancelled"]}
                       /\ t \in outbox'
<1>1. TypeInv /\ KeyInv /\ [Next]_vars => Kept
  <2>. SUFFICES ASSUME TypeInv, KeyInv, [Next]_vars, NEW t \in Calls, Stored(t)
                PROVE  /\ tickets'[t] \in {tickets[t],
                                           [tickets[t] EXCEPT !.status = "cancelled"]}
                       /\ t \in outbox'
    OBVIOUS
  <2>1. t \in outbox /\ tickets[t] \in Ticket
    BY DEF KeyInv, RowsAllOrNothing, TypeInv, TypeOK, Stored
  <2>2. ASSUME NEW c \in Calls, Commit(c)
        PROVE  tickets'[t] = tickets[t] /\ t \in outbox'
    <3>1. t # c
      BY <2>2 DEF Commit, KeyInv, StoredByCreate, Ended
    <3>. QED  BY <2>1, <2>2, <3>1 DEF Commit, TypeInv, TypeOK
  <2>3. ASSUME NEW c \in Calls, CommitCancel(c)
        PROVE  /\ tickets'[t] \in {tickets[t],
                                   [tickets[t] EXCEPT !.status = "cancelled"]}
               /\ t \in outbox'
    <3>1. [event |-> tickets[t].event, status |-> "cancelled"]
             = [tickets[t] EXCEPT !.status = "cancelled"]
      BY <2>1 DEF Ticket
    <3>. QED  BY <2>1, <2>3, <3>1 DEF CommitCancel, EventOf, TypeInv, TypeOK
  <2>4. ASSUME NEW c \in Calls, Step(c), ~ Commit(c), ~ CommitCancel(c)
        PROVE  UNCHANGED <<tickets, outbox>>
    BY <2>4 DEF Step, LookupKey, EventRefused, CacheHit, CacheMiss, SeatsReturn, SeatsFail,
         RegisterConfirmed, RegisterUnlisted, RegisterRefused, RegisterFails, CommitClash,
         Respond, ReadTicket, UnregisterReturn, UnregisterMissing, UnregisterFails,
         DatabaseFails, TablesUnchanged, tables, history
  <2>5. CASE \/ \E c \in Calls : Arrive(c) \/ Provider(c)
             \/ \E e \in Events : EventSynced(e) \/ SeatsExpire(e)
             \/ CleanKeys \/ Crash \/ UNCHANGED vars
    <3>1. UNCHANGED <<tickets, outbox>>
      BY <2>5 DEF Arrive, Provider, EventSynced, SeatsExpire, CleanKeys, Crash, vars,
                  TablesUnchanged, tables, history
    <3>. QED  BY <2>1, <3>1
  <2>. QED  BY <2>1, <2>2, <2>3, <2>4, <2>5 DEF Next
<1>. QED  BY <1>1, TypeInvariant, KeyInvariant, PTL DEF Spec, TicketLifecycle

\* The row of a key is never overwritten; only the cleanup removes it.
THEOREM KeyRowsAreKept == Spec => KeyRowStable
<1>. DEFINE Kept == \A k \in Keys : keys[k] # None =>
                       \/ keys'[k] = keys[k]
                       \/ keys'[k] = None /\ keys[k].ticket \in forgotten'
<1>1. TypeInv /\ [Next]_vars => Kept
  <2>. SUFFICES ASSUME TypeInv, [Next]_vars, NEW k \in Keys, keys[k] # None
                PROVE  \/ keys'[k] = keys[k]
                       \/ keys'[k] = None /\ keys[k].ticket \in forgotten'
    OBVIOUS
  <2>1. ASSUME NEW c \in Calls, Commit(c)  PROVE keys'[k] = keys[k]
    BY <2>1 DEF Commit, KeyIsFree, TypeInv, TypeOK
  <2>2. ASSUME NEW c \in Calls, Step(c), ~ Commit(c)  PROVE UNCHANGED keys
    BY <2>2 DEF Step, LookupKey, EventRefused, CacheHit, CacheMiss, SeatsReturn, SeatsFail,
         RegisterConfirmed, RegisterUnlisted, RegisterRefused, RegisterFails, CommitClash,
         Respond, ReadTicket, UnregisterReturn, UnregisterMissing, UnregisterFails,
         CommitCancel, DatabaseFails, TablesUnchanged, tables, history
  <2>3. CASE CleanKeys
    BY <2>3 DEF CleanKeys
  <2>4. CASE \/ \E c \in Calls : Arrive(c) \/ Provider(c)
             \/ \E e \in Events : EventSynced(e) \/ SeatsExpire(e)
             \/ Crash \/ UNCHANGED vars
    BY <2>4 DEF Arrive, Provider, EventSynced, SeatsExpire, Crash, vars, TablesUnchanged,
                tables, history
  <2>. QED  BY <2>1, <2>2, <2>3, <2>4 DEF Next
<1>. QED  BY <1>1, TypeInvariant, PTL DEF Spec, KeyRowStable
=============================================================================
