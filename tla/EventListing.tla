---------------------------- MODULE EventListing ----------------------------
(***************************************************************************)
(* GET /api/events (src/api/events.py, events_usecases.py and              *)
(* src/repositories/event.py): a client walks through the list of events   *)
(* page by page, following the link next, while synchronisation changes    *)
(* the table.                                                              *)
(*                                                                         *)
(* A request counts the events and then selects its page: two statements,  *)
(* each with a snapshot of its own (READ COMMITTED), with an await between *)
(* them.  Rows come ORDER BY event_time; rows with equal times come in any *)
(* order, another one each time.                                           *)
(***************************************************************************)
EXTENDS Integers, Sequences, FiniteSets

CONSTANTS
    Events,
    PageSize,       \* page_size
    DateFrom,       \* date_from, 1 for none
    MaxTime,        \* bound: the last event_time
    MaxCommits      \* bound: synchronisations during one walk

ASSUME EventsFinite == IsFiniteSet(Events)
ASSUME SizesPositive == PageSize \in Nat \ {0} /\ DateFrom \in Nat \ {0}
ASSUME BoundsNat == MaxTime \in Nat /\ MaxCommits \in Nat

VARIABLES
    time,       \* table events: event -> event_time, 0 for no row
    pc,         \* where the client's request is suspended
    page,       \* the page asked for
    total,      \* what the count returned
    results,    \* the events on the last page received
    listed,     \* history: all results of this walk, in order
    atStart,    \* history: the table when the walk began
    disturbed,  \* history: what happened to the table during the walk
    commits     \* synchronisations during the walk

request == <<pc, page, total, results>>
walk == <<listed, atStart>>
vars == <<time, request, walk, disturbed, commits>>

EventTime == 0 .. MaxTime

\* inserted    an event came into the list or moved to an earlier time
\* postponed   an event moved to a later time
\* left        an event moved out of the list, before date_from
\* torn        the table changed between the two statements of a request
\* tied        two events of the list had the same time
Disturbance == {"inserted", "postponed", "left", "torn", "tied"}

\* WHERE event_time >= date_from
InList(t) == t >= DateFrom

Listing(table) == {e \in Events : InList(table[e])}

Matching == Listing(time)

Tied(table) ==
    \E e, f \in Listing(table) : e # f /\ table[e] = table[f]

TypeOK ==
    /\ time \in [Events -> EventTime]
    /\ pc \in {"idle", "count", "page", "answered", "ended"}
    /\ page \in Nat \ {0}
    /\ total \in 0 .. Cardinality(Events)
    /\ results \in Seq(Events) /\ Len(results) <= PageSize
    /\ listed \in Seq(Events)
    /\ atStart \in [Events -> EventTime]
    /\ disturbed \in SUBSET Disturbance
    /\ commits \in 0 .. MaxCommits

Init ==
    /\ time \in [Events -> EventTime]
    /\ pc = "idle" /\ page = 1 /\ total = 0 /\ results = <<>>
    /\ listed = <<>> /\ atStart = time
    /\ disturbed = {} /\ commits = 0

-----------------------------------------------------------------------------
\* A client asks for page 1, with the walk's page_size and date_from.
Begin ==
    /\ pc \in {"idle", "ended"}
    /\ pc' = "count" /\ page' = 1
    /\ total' = 0 /\ results' = <<>>
    /\ listed' = <<>> /\ atStart' = time
    /\ disturbed' = (IF Tied(time) THEN {"tied"} ELSE {})
    /\ commits' = 0
    /\ UNCHANGED time

Count ==
    /\ pc = "count"
    /\ total' = Cardinality(Matching)
    /\ pc' = "page"
    /\ UNCHANGED <<time, page, results, walk, disturbed, commits>>

Earlier(e) == {f \in Matching : time[f] < time[e]}
NotLater(e) == {f \in Matching : time[f] <= time[e]}

\* Variant: the page number is taken for the offset.
OffsetInPages(p) == p - 1

Offset(p) == (p - 1) * PageSize

\* Variant: one row more than the page holds, to see if there is another.
LimitPlusOne == PageSize + 1

Limit == PageSize

\* Variant: SELECT without ORDER BY.
IsPageUnordered(s, offset) ==
    /\ \A i, j \in DOMAIN s : s[i] = s[j] => i = j
    /\ Len(s) = Limit \/ offset + Len(s) >= Cardinality(Matching)

\* The rows after the first offset ones, in some order by time.
IsPage(s, offset) ==
    /\ \A i, j \in DOMAIN s : s[i] = s[j] => i = j
    /\ \A i \in DOMAIN s :
          /\ Cardinality(Earlier(s[i])) <= offset + i - 1
          /\ offset + i - 1 < Cardinality(NotLater(s[i]))
    /\ Len(s) = Limit \/ offset + Len(s) >= Cardinality(Matching)

Select ==
    /\ pc = "page"
    /\ \E s \in UNION {[1 .. n -> Matching] : n \in 0 .. Limit} :
          /\ IsPage(s, Offset(page))
          /\ results' = s
          /\ listed' = listed \o s
    /\ pc' = "answered"
    /\ UNCHANGED <<time, page, total, atStart, disturbed, commits>>

\* Variant: the last full page has a next one.
HasNextInclusive == page * PageSize <= total

\* Variant: page counted from 0.
HasNextFromZero == (page + 1) * PageSize < total

HasNext == page * PageSize < total

FollowNext ==
    /\ pc = "answered" /\ HasNext
    /\ page' = page + 1
    /\ pc' = "count"
    /\ UNCHANGED <<time, total, results, walk, disturbed, commits>>

LastPage ==
    /\ pc = "answered" /\ ~ HasNext
    /\ pc' = "ended"
    /\ UNCHANGED <<time, page, total, results, walk, disturbed, commits>>

\* A query fails: 500, and the client asks for the same page again.
RequestFails ==
    /\ pc = "page"
    /\ pc' = "count"
    /\ UNCHANGED <<time, page, total, results, walk, disturbed, commits>>

\* Rows are inserted and updated; none is ever deleted.
SyncKeeps(new) == \A e \in Events : time[e] # 0 => new[e] # 0

\* A run of sync_events commits: any number of events at once.
SyncCommits ==
    /\ commits < MaxCommits
    /\ commits' = commits + 1
    /\ \E new \in [Events -> EventTime] :
          /\ new # time
          /\ SyncKeeps(new)
          /\ time' = new
          /\ disturbed' = disturbed \cup
                {d \in Disturbance :
                    \/ d = "inserted" /\ \E e \in Events :
                          InList(new[e]) /\ (~ InList(time[e]) \/ new[e] < time[e])
                    \/ d = "postponed" /\ \E e \in Events :
                          InList(time[e]) /\ new[e] > time[e]
                    \/ d = "left" /\ \E e \in Events :
                          InList(time[e]) /\ ~ InList(new[e])
                    \/ d = "torn" /\ pc = "page"
                    \/ d = "tied" /\ Tied(new)}
    /\ UNCHANGED <<request, walk>>

Next ==
    \/ Begin \/ Count \/ Select \/ FollowNext \/ LastPage
    \/ RequestFails \/ SyncCommits

Spec == Init /\ [][Next]_vars

-----------------------------------------------------------------------------
(* Correctness.                                                            *)

Shown(e) == \E i \in DOMAIN listed : listed[i] = e

\* An event that was in the list when the walk began, and is where it was.
Stayed(e) == InList(atStart[e]) /\ time[e] = atStart[e]

\* A walk that follows next to the end shows every event that has been in the
\* list all along, although the table changes between its requests: whatever
\* is inserted or moves forward only pushes events to later pages.  What can
\* hide an event is another one that leaves or moves back, a change between
\* the count and the page, and equal times.
NothingSkipped ==
    pc = "ended" /\ disturbed \subseteq {"inserted"} =>
        \A e \in Events : Stayed(e) => Shown(e)

\* No event is shown twice, unless one was inserted or moved, or times tie.
NothingRepeated ==
    disturbed \cap {"inserted", "postponed", "tied"} = {} =>
        \A i, j \in DOMAIN listed : listed[i] = listed[j] => i = j

\* The pages of a walk, one after the other, are in the order of event_time:
\* equal times, events that leave and changes between the count and the page
\* do not disturb it, only events that come in or move do.
ListedInOrder ==
    disturbed \cap {"inserted", "postponed"} = {} =>
        \A i, j \in DOMAIN listed :
            /\ i < j
            /\ listed[i] \in Matching /\ listed[j] \in Matching
            => time[listed[i]] <= time[listed[j]]

\* The link next leads to a page with events on it, unless events have left
\* the list: whatever else changes between the two requests.
NextPageHasResults ==
    /\ pc = "answered" /\ page > 1 /\ results = <<>>
    => "left" \in disturbed
=============================================================================
