---------------------------- MODULE TicketLedger ----------------------------
(***************************************************************************)
(* What the service as a whole promises about tickets, with no calls,      *)
(* caches, tables, workers or failures in it:                              *)
(*                                                                         *)
(*   - a ticket is sold once and may be cancelled, for good;               *)
(*   - a key names the one ticket sold under it, until it is forgotten,    *)
(*     and no other ticket is sold under it before;                        *)
(*   - clients are only told of tickets that were sold;                    *)
(*   - the buyer of a ticket that was sold is notified, at most once.      *)
(***************************************************************************)
EXTENDS Naturals

CONSTANTS Tickets, Keys, None

VARIABLES
    state,      \* ticket -> "none" until it is sold
    under,      \* ticket -> the key it was sold under, or None
    keyed,      \* key -> the ticket it names, or None
    told,       \* the tickets that a client was told it has
    notices     \* ticket -> the notifications its buyer has received

vars == <<state, under, keyed, told, notices>>

Init ==
    /\ state = [t \in Tickets |-> "none"]
    /\ under = [t \in Tickets |-> None]
    /\ keyed = [k \in Keys |-> None]
    /\ told = {}
    /\ notices = [t \in Tickets |-> 0]

Sell(t, k) ==
    /\ state[t] = "none"
    /\ state' = [state EXCEPT ![t] = "active"]
    /\ under' = [under EXCEPT ![t] = k]
    /\ IF k = None THEN UNCHANGED keyed
       ELSE keyed[k] = None /\ keyed' = [keyed EXCEPT ![k] = t]
    /\ UNCHANGED <<told, notices>>

Cancel(t) ==
    /\ state[t] = "active"
    /\ state' = [state EXCEPT ![t] = "cancelled"]
    /\ UNCHANGED <<under, keyed, told, notices>>

Tell(t) ==
    /\ state[t] # "none"
    /\ told' = told \cup {t}
    /\ UNCHANGED <<state, under, keyed, notices>>

Notify(t) ==
    /\ state[t] # "none"
    /\ notices[t] = 0
    /\ notices' = [notices EXCEPT ![t] = 1]
    /\ UNCHANGED <<state, under, keyed, told>>

Forget(old) ==
    /\ keyed' = [k \in Keys |-> IF k \in old THEN None ELSE keyed[k]]
    /\ UNCHANGED <<state, under, told, notices>>

Next ==
    \/ \E t \in Tickets :
          \/ \E k \in Keys \cup {None} : Sell(t, k)
          \/ Cancel(t) \/ Tell(t) \/ Notify(t)
    \/ \E old \in SUBSET Keys : Forget(old)

Spec == Init /\ [][Next]_vars
=============================================================================
