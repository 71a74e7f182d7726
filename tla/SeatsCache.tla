----------------------------- MODULE SeatsCache -----------------------------
(***************************************************************************)
(* src/services/seats_cache.py: the process-wide cache of free seats.      *)
(*                                                                         *)
(* The cache keeps a reference to a Python list, and get() hands out that  *)
(* same reference: every call that hits the entry shares one list object,  *)
(* and a seat removed by one of them is removed for all.  A list object is *)
(* created by the call that parsed the provider's answer, at most one per  *)
(* call, so list objects are named by calls.  The order of the seats in a  *)
(* list plays no part and its contents are a set.                          *)
(***************************************************************************)
EXTENDS Domain

VARIABLES
    store,      \* event -> the list object cached for it, or None
    lists       \* list object -> the seats in it

cacheVars == <<store, lists>>

CacheTypeOK ==
    /\ store \in [Events -> Calls \cup {None}]
    /\ lists \in [Calls -> SUBSET Seats]

CacheInit ==
    /\ store = [e \in Events |-> None]
    /\ lists = [c \in Calls |-> {}]

\* get(): None on a miss.  An entry past its ttl is a miss as well; Expire
\* has turned it into None by then.
CacheGet(e) == store[e]

\* set() of a list parsed from the provider's answer.
CacheNew(e, l, seats) ==
    /\ lists' = [lists EXCEPT ![l] = seats]
    /\ store' = [store EXCEPT ![e] = l]

\* available_seats.remove(seat), then set() of that list, ttl restarted.
CacheSell(e, l, seat) ==
    /\ lists' = [lists EXCEPT ![l] = @ \ {seat}]
    /\ store' = [store EXCEPT ![e] = l]

CacheInvalidate(e) ==
    /\ store' = [store EXCEPT ![e] = None]
    /\ UNCHANGED lists

\* ttl_seconds have gone by since cached_at.  The clock is abstracted: an
\* entry may grow old between any two steps.
CacheExpire(e) ==
    /\ store[e] # None
    /\ CacheInvalidate(e)

\* A new process starts with an empty cache.
CacheLost ==
    /\ store' = [e \in Events |-> None]
    /\ lists' = [c \in Calls |-> {}]
=============================================================================
