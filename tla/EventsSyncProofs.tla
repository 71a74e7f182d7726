--------------------------- MODULE EventsSyncProofs ---------------------------
(***************************************************************************)
(* Theorems about EventsSync, for any finite set of events, any runs, page *)
(* size, length of a day, range of times and number of failures.           *)
(*                                                                         *)
(* What is said of one run is said of a position p and a session s, so     *)
(* that a run that does not move keeps it for free.                        *)
(***************************************************************************)
EXTENDS EventsSync, FiniteSetTheorems, SequenceTheorems, TLAPS

-----------------------------------------------------------------------------
(* Days, sets of events, and the buffer as a set.                          *)

\* The day of an instant begins no later than the instant.
LEMMA DayStarts ==
    ASSUME NEW t \in Time
    PROVE  DayStart(t) \in 0 .. t /\ DayStart(t) \in Time /\ DayStart(0) = 0
<1>1. t % DayLength \in Nat /\ t - (t % DayLength) \in 0 .. t
  BY SizesPositive, BoundsNat DEF Time
<1>2. 0 - (0 % DayLength) = 0
  BY SizesPositive
<1>. QED  BY <1>1, <1>2, BoundsNat DEF DayStart, Time

\* Division with remainder.
LEMMA Division ==
    ASSUME NEW t \in Nat, NEW d \in Nat, d > 0,
           NEW q, q = t \div d, NEW m, m = t % d
    PROVE  t = d * q + m
BY SMT

\* A day is made of DayLength instants, and begins with the first of them.
LEMMA Days ==
    ASSUME NEW t \in Time
    PROVE  /\ t \div DayLength \in Nat
           /\ DayStart(t) = DayLength * (t \div DayLength)
           /\ DayStart(t) <= t /\ t < DayStart(t) + DayLength
<1>. DEFINE q == t \div DayLength
            m == t % DayLength
<1>1. m \in 0 .. DayLength - 1 /\ q \in Nat /\ t \in Nat
  BY SizesPositive, BoundsNat, Z3 DEF Time
<1>2. DayStart(t) = t - m
  BY DEF DayStart
<1>3. q = t \div DayLength /\ m = t % DayLength
  OBVIOUS
<1>. HIDE DEF q, m
<1>4. t = DayLength * q + m
  BY <1>1, <1>3, SizesPositive, Division
<1>. QED  BY <1>1, <1>2, <1>3, <1>4, SizesPositive

\* Later instants are in later days, or in the same.
LEMMA DaysAreOrdered ==
    ASSUME NEW t \in Time, NEW u \in Time, t <= u
    PROVE  DayStart(t) <= DayStart(u)
<1>. DEFINE p == t \div DayLength
            q == u \div DayLength
<1>1. /\ t \in Int /\ u \in Int /\ p \in Nat /\ q \in Nat
      /\ DayStart(t) = DayLength * p /\ DayStart(t) <= t
      /\ DayStart(u) = DayLength * q /\ u < DayStart(u) + DayLength
  BY Days, BoundsNat DEF Time
<1>. HIDE DEF p, q
<1>2. CASE p <= q
  <2>1. DayLength * p <= DayLength * q
    BY <1>1, <1>2, SizesPositive
  <2>. QED  BY <1>1, <2>1
<1>3. CASE q < p
  <2>1. DayLength * (q + 1) <= DayLength * p
    BY <1>1, <1>3, SizesPositive
  <2>2. DayLength * (q + 1) = DayLength * q + DayLength
    BY <1>1, SizesPositive
  <2>. QED  BY <1>1, <2>1, <2>2, SizesPositive
<1>. QED  BY <1>1, <1>2, <1>3

\* An instant of a day is no earlier than the beginning of the day.
LEMMA SameDayStarts ==
    ASSUME NEW t \in Time, NEW u \in Time, SameDay(t, u)
    PROVE  DayStart(u) <= t
<1>1. DayStart(u) = DayStart(t)
  BY Days DEF SameDay
<1>. QED  BY <1>1, Days

\* Sets of events can be counted, and smaller ones count less.
LEMMA Counting ==
    ASSUME NEW S \in SUBSET Events
    PROVE  /\ IsFiniteSet(S)
           /\ Cardinality(S) \in Nat
           /\ \A T \in SUBSET S : Cardinality(T) <= Cardinality(S)
<1>1. IsFiniteSet(S)
  BY EventsFinite, FS_Subset
<1>. QED  BY <1>1, FS_CardinalityType, FS_Subset

\* The events of a session that are still to be merged.
Pending(s) == {s.buffer[i] : i \in DOMAIN s.buffer}

\* Merging takes the first one away.
LEMMA PendingSplits ==
    ASSUME NEW s \in Session, NEW u \in Session, s.buffer # <<>>,
           u.buffer = Tail(s.buffer)
    PROVE  /\ Head(s.buffer) \in Events \X Time
           /\ Tail(s.buffer) \in Seq(Events \X Time)
           /\ Pending(s) = {Head(s.buffer)} \cup Pending(u)
<1>. DEFINE b == s.buffer
<1>1. b \in Seq(Events \X Time)
  BY DEF Session
<1>2. /\ Head(b) \in Events \X Time /\ Tail(b) \in Seq(Events \X Time)
      /\ Len(b) \in Nat /\ Len(b) > 0 /\ DOMAIN b = 1 .. Len(b)
      /\ DOMAIN Tail(b) = 1 .. Len(b) - 1
      /\ Head(b) = b[1]
      /\ \A i \in 1 .. Len(b) - 1 : Tail(b)[i] = b[i + 1]
  BY <1>1, HeadTailProperties, LenProperties, EmptySeq
<1>3. ASSUME NEW i \in DOMAIN b, i # 1
      PROVE  i - 1 \in DOMAIN Tail(b) /\ Tail(b)[i - 1] = b[i]
  BY <1>2, <1>3
<1>4. \A i \in DOMAIN Tail(b) : i + 1 \in DOMAIN b /\ Tail(b)[i] = b[i + 1]
  BY <1>2
<1>5. 1 \in DOMAIN b
  BY <1>2
<1>6. Pending(s) \subseteq {Head(b)} \cup Pending(u)
  <2>. SUFFICES ASSUME NEW i \in DOMAIN b  PROVE b[i] \in {Head(b)} \cup Pending(u)
    BY DEF Pending
  <2>1. CASE i = 1
    BY <1>2, <2>1
  <2>2. CASE i # 1
    <3>1. i - 1 \in DOMAIN u.buffer /\ u.buffer[i - 1] = b[i]
      BY <1>3, <2>2
    <3>. QED  BY <3>1 DEF Pending
  <2>. QED  BY <2>1, <2>2
<1>7. Pending(u) \subseteq Pending(s) /\ Head(b) \in Pending(s)
  BY <1>2, <1>4, <1>5 DEF Pending
<1>. QED  BY <1>2, <1>6, <1>7

\* An empty buffer holds nothing, and what a buffer holds is of its type.
LEMMA PendingTypes ==
    ASSUME NEW s \in Session
    PROVE  /\ Pending(s) \subseteq Events \X Time
           /\ s.buffer = <<>> => Pending(s) = {}
<1>1. s.buffer \in Seq(Events \X Time)
  BY DEF Session
<1>. QED  BY <1>1, ElementOfSeq, LenProperties DEF Pending

-----------------------------------------------------------------------------
(* The invariants.                                                         *)

\* The next event the session will write.
Writes(s, e) == e \in s.locked \/ (s.dirty # None /\ s.dirty.event = e)

\* The poll of the session has yet to come to the event.
Ahead(s, e) ==
    /\ feed[e] >= DayStart(s.latest)
    /\ \A x \in Pending(s) : feed[e] >= x[2]
    /\ s.next # None => feed[e] >= s.next

Polling == {"page", "merge", "commit"}

\* What a session holds where its run is suspended.
Phase(p, s) ==
    /\ p \notin Polling \cup {"mark_commit"} => s = NoSession
    /\ p \in Polling \cup {"mark_commit"} => s.loaded # None
    /\ s.loaded # None => s.latest >= s.loaded.last_changed_at
    /\ p = "page" => s.next # None /\ s.buffer = <<>>
    /\ p = "merge" => s.buffer # <<>>
    /\ p \in {"commit", "mark_commit"} => s.buffer = <<>>
    /\ \A e \in s.locked : s.session[e] # 0
    /\ s.dirty # None => s.session[s.dirty.event] # 0

TypeInv == TypeOK /\ \A r \in Runs : Phase(pc[r], run[r])

\* Nothing is newer than the provider, and no two events changed at once.
Known(s) ==
    /\ s.latest <= now
    /\ s.next # None => s.next <= now + 1
    /\ \A e \in Events : s.session[e] <= feed[e]
    /\ \A x \in Pending(s) : 0 < x[2] /\ x[2] <= feed[x[1]]
    /\ \A x, y \in Pending(s) : x[1] = y[1] => x = y

KnownInv ==
    /\ \A e \in Events : feed[e] <= now /\ rows[e] <= feed[e]
    /\ \A e, f \in Events : feed[e] = feed[f] /\ feed[e] # 0 => e = f
    /\ Cursor <= now
    /\ meta = None => \A r \in Runs : run[r].loaded \in {None, NewMeta}
    /\ \A r \in Runs : Known(run[r])

\* An event the provider has is stored, in hand, or still to come, unless it
\* became visible behind the page that was being read.
Reached(p, s) ==
    /\ p \in Polling =>
         \A e \in Events \ behind : feed[e] # 0 =>
             \/ rows[e] # 0 \/ Writes(s, e)
             \/ \E x \in Pending(s) : x[1] = e
             \/ Ahead(s, e)
    /\ \A e \in Events : s.session[e] # 0 => rows[e] # 0 \/ Writes(s, e)

ReachInv == NewEventCovered /\ \A r \in Runs : Reached(pc[r], run[r])

-----------------------------------------------------------------------------
(* Pages of the provider.                                                  *)

\* Of the events changed at t or later, those changed before event e.
Before(t, e) == {f \in Matching(t) : feed[f] < feed[e]}

Rank(t, e) == Cardinality(Before(t, e))

\* Ranks follow the order of the changes.
LEMMA Ranks ==
    ASSUME TypeOK, KnownInv, NEW t, NEW e \in Matching(t)
    PROVE  /\ Rank(t, e) \in Nat /\ Rank(t, e) < Cardinality(Matching(t))
           /\ \A f \in Matching(t) : feed[e] < feed[f] => Rank(t, e) < Rank(t, f)
           /\ \A f \in Matching(t) : Rank(t, e) = Rank(t, f) => e = f
<1>1. /\ Matching(t) \subseteq Events
      /\ \A f \in Matching(t) : feed[f] \in Int /\ feed[f] # 0
  BY BoundsNat DEF Matching, TypeOK, Time
<1>2. \A f \in Matching(t) :
         /\ Rank(t, f) \in Nat
         /\ Rank(t, f) + 1 = Cardinality(Before(t, f) \cup {f})
         /\ Before(t, f) \cup {f} \subseteq Matching(t)
  <2>. TAKE f \in Matching(t)
  <2>1. /\ Before(t, f) \subseteq Events /\ f \notin Before(t, f)
        /\ Before(t, f) \cup {f} \subseteq Matching(t)
    BY <1>1 DEF Before
  <2>2. IsFiniteSet(Before(t, f)) /\ Cardinality(Before(t, f)) \in Nat
    BY <2>1, Counting
  <2>. QED  BY <2>1, <2>2, FS_AddElement DEF Rank
<1>3. \A f \in Matching(t) : Rank(t, f) < Cardinality(Matching(t))
  <2>. TAKE f \in Matching(t)
  <2>1. Cardinality(Before(t, f) \cup {f}) <= Cardinality(Matching(t))
        /\ Cardinality(Matching(t)) \in Nat
    BY <1>1, <1>2, Counting
  <2>. QED  BY <1>2, <2>1
<1>4. \A f, g \in Matching(t) : feed[f] < feed[g] => Rank(t, f) < Rank(t, g)
  <2>. TAKE f, g \in Matching(t)
  <2>. HAVE feed[f] < feed[g]
  <2>1. Before(t, f) \cup {f} \subseteq Before(t, g) /\ Before(t, g) \subseteq Events
    BY <1>1 DEF Before
  <2>2. Cardinality(Before(t, f) \cup {f}) <= Rank(t, g)
    BY <2>1, Counting DEF Rank
  <2>3. /\ Rank(t, f) \in Nat /\ Rank(t, g) \in Nat
        /\ Rank(t, f) + 1 = Cardinality(Before(t, f) \cup {f})
    BY <1>2
  <2>. QED  BY <2>2, <2>3
<1>5. \A f \in Matching(t) : e # f => Rank(t, e) # Rank(t, f)
  <2>. TAKE f \in Matching(t)
  <2>. HAVE e # f
  <2>1. feed[e] < feed[f] \/ feed[f] < feed[e]
    <3>1. e \in Events /\ f \in Events /\ feed[e] # 0
      BY <1>1
    <3>2. feed[e] # feed[f]
      BY <3>1 DEF KnownInv
    <3>. QED  BY <1>1, <3>2
  <2>2. Rank(t, e) < Rank(t, f) \/ Rank(t, f) < Rank(t, e)
    BY <1>4, <2>1
  <2>3. Rank(t, e) \in Nat /\ Rank(t, f) \in Nat
    BY <1>2
  <2>. QED  BY <2>2, <2>3
<1>. QED  BY <1>2, <1>3, <1>4, <1>5

\* A page has events as the provider has them; the events it leaves out are
\* where the link to the next page leads.
LEMMA PageCovers ==
    ASSUME TypeOK, KnownInv, NEW t \in 0 .. MaxTime + 1, NEW page \in Pages(t)
    PROVE  /\ page \in Seq(Events \X Time)
           /\ \A i \in DOMAIN page : /\ page[i][1] \in Matching(t)
                                     /\ page[i][2] = feed[page[i][1]]
           /\ PageAfter(page, t) # None =>
                 /\ PageAfter(page, t) \in 0 .. MaxTime + 1
                 /\ PageAfter(page, t) <= now + 1
           /\ \A e \in Matching(t) :
                 \/ \E i \in DOMAIN page : page[i] = <<e, feed[e]>>
                 \/ /\ PageAfter(page, t) # None => feed[e] >= PageAfter(page, t)
                    /\ \A i \in DOMAIN page : feed[e] >= page[i][2]
<1>. DEFINE next == PageAfter(page, t)
<1>1. PICK n \in 0 .. PageSize : page \in [1 .. n -> Events \X Time]
  BY DEF Pages
<1>2. page \in Seq(Events \X Time) /\ Len(page) = n /\ DOMAIN page = 1 .. n
  BY <1>1, SizesPositive, SeqDef, LenProperties
<1>3. IsPage(page, t)
  BY DEF Pages
<1>4. \A i \in 1 .. n : /\ page[i][1] \in Matching(t)
                        /\ page[i][2] = feed[page[i][1]]
                        /\ Rank(t, page[i][1]) = i - 1
  BY <1>2, <1>3 DEF IsPage, Rank, Before
<1>5. /\ Matching(t) \subseteq Events /\ Cardinality(Matching(t)) \in Nat
      /\ \A e \in Events : feed[e] \in Time /\ feed[e] \in Int
      /\ now \in Int
  BY Counting, BoundsNat DEF Matching, TypeOK, Time
<1>6. ASSUME next # None
      PROVE  n \in 1 .. n /\ next = feed[page[n][1]] + 1 /\ page[n][1] \in Matching(t)
  <2>1. n < Cardinality(Matching(t)) /\ next = page[n][2] + 1
    BY <1>2, <1>6 DEF PageAfter
  <2>2. n = PageSize
    BY <1>2, <1>3, <1>5, <2>1 DEF IsPage
  <2>3. n \in 1 .. n
    BY <2>2, SizesPositive
  <2>. QED  BY <1>4, <2>1, <2>3
<1>7. ASSUME next # None
      PROVE  next \in 0 .. MaxTime + 1 /\ next <= now + 1
  <2>1. /\ page[n][1] \in Events /\ feed[page[n][1]] \in Int
        /\ feed[page[n][1]] \in 0 .. MaxTime /\ feed[page[n][1]] <= now
    BY <1>5, <1>6, <1>7 DEF KnownInv, Time
  <2>. QED  BY <1>5, <1>6, <1>7, <2>1, BoundsNat
<1>8. ASSUME NEW e \in Matching(t)
      PROVE  \/ \E i \in 1 .. n : page[i] = <<e, feed[e]>>
             \/ /\ next # None => feed[e] >= next
                /\ \A i \in 1 .. n : feed[e] >= page[i][2]
  <2>0. Rank(t, e) \in Nat /\ n \in Nat
    BY Ranks, SizesPositive
  <2>1. CASE Rank(t, e) < n
    <3>1. PICK i \in 1 .. n : i - 1 = Rank(t, e)
      <4>1. Rank(t, e) + 1 \in 1 .. n /\ (Rank(t, e) + 1) - 1 = Rank(t, e)
        BY <2>0, <2>1
      <4>. QED  BY <4>1
    <3>2. page[i][1] = e
      BY <1>4, <3>1, Ranks
    <3>3. page[i] \in Events \X Time
      BY <1>1, <3>1
    <3>4. page[i] = <<page[i][1], page[i][2]>>
      BY <3>3
    <3>. QED  BY <1>4, <3>2, <3>4
  <2>2. CASE Rank(t, e) >= n
    <3>1. \A i \in 1 .. n : feed[page[i][1]] < feed[e]
      <4>. SUFFICES ASSUME NEW i \in 1 .. n  PROVE feed[page[i][1]] < feed[e]
        OBVIOUS
      <4>1. /\ page[i][1] \in Matching(t) /\ Rank(t, page[i][1]) = i - 1
            /\ feed[page[i][1]] \in Int /\ feed[e] \in Int
        BY <1>4, <1>5
      <4>2. i - 1 < Rank(t, e)
        BY <2>0, <2>2
      <4>3. page[i][1] # e
        BY <4>1, <4>2, <2>0
      <4>4. ~ feed[e] < feed[page[i][1]]
        BY <4>1, <4>2, <2>0, Ranks
      <4>5. feed[e] # feed[page[i][1]]
        BY <1>5, <4>1, <4>3 DEF KnownInv, Matching
      <4>. QED  BY <4>1, <4>4, <4>5
    <3>2. next # None => feed[e] >= next
      BY <1>5, <1>6, <3>1
    <3>. QED  BY <1>4, <1>5, <3>1, <3>2
  <2>. QED  BY <2>0, <2>1, <2>2
<1>. QED  BY <1>2, <1>4, <1>7, <1>8

-----------------------------------------------------------------------------
(* What the steps of a run do to its position and session.                 *)

\* Run r moves to position p with session u, and no other run moves.
Moves(r, p, u) ==
    /\ pc' \in [Runs -> Working \cup Marking \cup {"idle"}]
    /\ run' \in [Runs -> Session]
    /\ pc'[r] = p /\ run'[r] = u
    /\ \A q \in Runs \ {r} : pc'[q] = pc[q] /\ run'[q] = run[q]

\* Nothing but runs and status requests has changed.
Quiet == UNCHANGED <<provider, tables>>

\* The run gives its session up, or goes on without one.
Drops(r) ==
    \E p \in (Working \cup Marking \cup {"idle"}) \ (Polling \cup {"mark_commit"}) :
        /\ Moves(r, p, NoSession)
        /\ p \in {"insert", "mark_insert"} => meta = None

\* The run has loaded or inserted its row of sync_meta.
Opens(r) ==
    \E row \in SyncMeta, u \in Session, p \in {"page", "mark_commit"} :
        /\ Moves(r, p, u)
        /\ row = IF meta = None THEN NewMeta ELSE meta
        /\ u.loaded = row /\ u.latest = row.last_changed_at
        /\ u.next = IF p = "page" THEN DayStart(row.last_changed_at) ELSE None
        /\ u.buffer = <<>> /\ u.locked = {} /\ u.dirty = None
        /\ u.session = [e \in Events |-> 0]

\* The session of a run that has none, and its values.
LEMMA NoSessionType ==
    /\ NoSession \in Session
    /\ Pending(NoSession) = {}
    /\ NoSession.loaded = None /\ NoSession.latest = 0 /\ NoSession.next = None
    /\ NoSession.locked = {} /\ NoSession.dirty = None
    /\ \A e \in Events : NoSession.session[e] = 0
<1>1. <<>> \in Seq(Events \X Time) /\ 0 \in Time
  BY BoundsNat, EmptySeq DEF Time
<1>2. NoSession \in Session
  BY <1>1 DEF NoSession, Session
<1>. QED  BY <1>2, PendingTypes DEF NoSession

\* A step written with EXCEPT moves one run.
LEMMA Moving ==
    ASSUME TypeOK, NEW r \in Runs, NEW u \in Session,
           NEW p \in Working \cup Marking \cup {"idle"},
           pc' = [pc EXCEPT ![r] = p], run' = [run EXCEPT ![r] = u]
    PROVE  Moves(r, p, u)
BY DEF Moves, TypeOK

\* So does one that leaves the session alone.
LEMMA Staying ==
    ASSUME TypeOK, NEW r \in Runs,
           NEW p \in Working \cup Marking \cup {"idle"},
           pc' = [pc EXCEPT ![r] = p], UNCHANGED run
    PROVE  Moves(r, p, run[r]) /\ run[r] \in Session
BY DEF Moves, TypeOK

\* A session just opened holds the row and nothing else.
LEMMA Opening ==
    ASSUME TypeInv, NEW r \in Runs, pc[r] \notin Polling \cup {"mark_commit"},
           NEW row \in SyncMeta, row = IF meta = None THEN NewMeta ELSE meta,
           NEW inserted \in BOOLEAN, MetaLoaded(r, row, inserted)
    PROVE  Opens(r)
<1>. DEFINE marking == pc[r] \in Marking
            p == IF marking THEN "mark_commit" ELSE "page"
            next == IF marking THEN None ELSE DayStart(row.last_changed_at)
            u == [run[r] EXCEPT !.loaded = row, !.inserted = inserted,
                                !.latest = row.last_changed_at, !.next = next]
<1>1. run[r] = NoSession /\ TypeOK
  BY DEF TypeInv, Phase
<1>2. row.last_changed_at \in Time /\ next \in 0 .. MaxTime + 1 \cup {None}
  <2>1. row.last_changed_at \in Time
    BY DEF SyncMeta
  <2>2. DayStart(row.last_changed_at) \in Time
    BY <2>1, DayStarts
  <2>. QED  BY <2>1, <2>2, BoundsNat DEF Time
<1>3. /\ u \in Session
      /\ u.loaded = row /\ u.latest = row.last_changed_at /\ u.next = next
      /\ u.buffer = <<>> /\ u.locked = {} /\ u.dirty = None
      /\ u.session = [e \in Events |-> 0]
  <2>1. PICK s \in Session : s = NoSession
    BY NoSessionType
  <2>2. /\ s.buffer = <<>> /\ s.locked = {} /\ s.dirty = None
        /\ s.session = [e \in Events |-> 0]
    BY <2>1 DEF NoSession
  <2>. DEFINE w == [s EXCEPT !.loaded = row, !.inserted = inserted,
                             !.latest = row.last_changed_at, !.next = next]
  <2>3. u = w
    BY <1>1, <2>1, Zenon
  <2>. HIDE DEF next, u
  <2>4. w \in Session
    BY <1>2 DEF Session
  <2>5. /\ w.loaded = row /\ w.latest = row.last_changed_at /\ w.next = next
        /\ w.buffer = s.buffer /\ w.locked = s.locked /\ w.dirty = s.dirty
        /\ w.session = s.session
    BY DEF Session
  <2>. QED  BY <2>2, <2>3, <2>4, <2>5
<1>4. Moves(r, p, u)
  <2>1. pc' = [pc EXCEPT ![r] = p] /\ run' = [run EXCEPT ![r] = u]
    BY DEF MetaLoaded, Goto
  <2>2. p \in Working \cup Marking \cup {"idle"}
    BY DEF Working, Marking
  <2>. HIDE DEF p, u
  <2>. QED  BY <1>1, <1>3, <2>1, <2>2, Moving
<1>5. p \in {"page", "mark_commit"}
      /\ next = IF p = "page" THEN DayStart(row.last_changed_at) ELSE None
  OBVIOUS
<1>. HIDE DEF p, u, next
<1>. QED  BY <1>3, <1>4, <1>5 DEF Opens

\* Loading or inserting the row: the session is opened, or there is none.
LEMMA MetaSteps ==
    ASSUME TypeInv, NEW r \in Runs, GetMeta(r) \/ InsertMeta(r)
    PROVE  Drops(r) \/ Opens(r)
<1>1. /\ pc[r] \in {"meta", "mark", "insert", "mark_insert"}
      /\ run[r] = NoSession /\ TypeOK
  BY DEF GetMeta, InsertMeta, TypeInv, Phase, Polling
<1>2. NewMeta \in SyncMeta /\ NewMeta # None /\ NoSession \in Session
  BY BoundsNat, NoneIsNoValue, NoSessionType DEF NewMeta, SyncMeta, SyncStatus, Time
<1>3. ASSUME NEW row \in SyncMeta, NEW inserted \in BOOLEAN,
             row = IF meta = None THEN NewMeta ELSE meta,
             MetaLoaded(r, row, inserted)
      PROVE  Opens(r)
  BY <1>1, <1>3, Opening DEF Polling
<1>4. CASE GetMeta(r)
  <2>1. CASE meta # None
    <3>1. MetaLoaded(r, meta, FALSE) /\ meta \in SyncMeta
      BY <1>1, <1>4, <2>1 DEF GetMeta, TypeOK
    <3>. QED  BY <1>3, <2>1, <3>1
  <2>2. CASE meta = None
    <3>1. PICK p \in {"insert", "mark_insert"} : Goto(r, p) /\ UNCHANGED run
      BY <1>4, <2>2 DEF GetMeta
    <3>2. Moves(r, p, NoSession)
      BY <1>1, <3>1, Staying DEF Goto, Working, Marking
    <3>. QED  BY <2>2, <3>2 DEF Drops, Working, Marking, Polling
  <2>. QED  BY <2>1, <2>2
<1>5. CASE InsertMeta(r)
  <2>1. CASE meta = None /\ MetaLoaded(r, NewMeta, TRUE)
    BY <1>2, <1>3, <2>1
  <2>2. ASSUME NEW p \in {"mark", "idle"}, Goto(r, p), CloseSession(r)
        PROVE  Drops(r)
    <3>1. Moves(r, p, NoSession)
      BY <1>1, <1>2, <2>2, Moving DEF Goto, CloseSession, Working, Marking
    <3>. QED  BY <3>1 DEF Drops, Working, Marking, Polling
  <2>. QED  BY <1>5, <2>1, <2>2 DEF InsertMeta, Fail
<1>. QED  BY <1>4, <1>5

\* Beginning, failing and ending leave no session.
LEMMA DropSteps ==
    ASSUME TypeInv, NEW r \in Runs,
           \/ Begin(r) \/ DeadlockDetected(r) \/ End(r) \/ RunFails(r)
           \/ Goto(r, "mark") /\ CloseSession(r)
           \/ Goto(r, "committed") /\ CloseSession(r)
           \/ Goto(r, "idle") /\ CloseSession(r)
    PROVE  Drops(r)
<1>1. TypeOK /\ NoSession \in Session
  BY NoSessionType DEF TypeInv
<1>2. ASSUME NEW p \in {"mark", "idle", "meta", "committed"},
             Goto(r, p), CloseSession(r) \/ (UNCHANGED run /\ run[r] = NoSession)
      PROVE  Drops(r)
  <2>1. Moves(r, p, NoSession)
    BY <1>1, <1>2, Moving, Staying DEF Goto, CloseSession, Working, Marking
  <2>. QED  BY <2>1 DEF Drops, Working, Marking, Polling
<1>3. CASE Begin(r) \/ End(r)
  <2>1. run[r] = NoSession
    BY <1>3 DEF Begin, End, TypeInv, Phase, Polling
  <2>. QED  BY <1>2, <1>3, <2>1 DEF Begin, End
<1>4. CASE DeadlockDetected(r) \/ RunFails(r)
  BY <1>2, <1>4 DEF DeadlockDetected, RunFails, Fail
<1>. QED  BY <1>2, <1>3, <1>4

\* A fetched page: what is pending is as the provider has it, and what is not
\* pending lies where the link leads.
Fetched(s, u) ==
    /\ u.loaded = s.loaded /\ u.latest = s.latest
    /\ u.session = s.session /\ u.locked = s.locked /\ u.dirty = s.dirty
    /\ u.next # None => u.next <= now + 1
    /\ \A x \in Pending(u) : x[1] \in Matching(s.next) /\ x[2] = feed[x[1]]
    /\ \A e \in Matching(s.next) :
          \/ <<e, feed[e]>> \in Pending(u)
          \/ /\ u.next # None => feed[e] >= u.next
             /\ \A x \in Pending(u) : feed[e] >= x[2]

\* A page goes into the buffer, and its link into next.
LEMMA FetchStep ==
    ASSUME TypeInv, KnownInv, NEW r \in Runs, GetPage(r)
    PROVE  /\ pc[r] = "page" /\ run[r].next \in 0 .. MaxTime + 1 /\ Quiet
           /\ \E p \in {"merge", "commit"}, u \in Session :
                /\ Moves(r, p, u) /\ Fetched(run[r], u)
                /\ p = "merge" <=> u.buffer # <<>>
<1>1. pc[r] = "page" /\ run[r] \in Session /\ TypeOK /\ Quiet
  BY DEF GetPage, TypeInv, TypeOK, Quiet
<1>2. run[r].next \in 0 .. MaxTime + 1
  BY <1>1 DEF TypeInv, Phase, Session
<1>3. PICK page \in Pages(run[r].next) :
        /\ Goto(r, IF page = <<>> THEN "commit" ELSE "merge")
        /\ run' = [run EXCEPT ![r] = [run[r] EXCEPT !.buffer = page,
                                                    !.next = PageAfter(page, run[r].next)]]
  BY DEF GetPage
<1>. DEFINE next == PageAfter(page, run[r].next)
            u == [run[r] EXCEPT !.buffer = page, !.next = next]
            p == IF page = <<>> THEN "commit" ELSE "merge"
<1>4. /\ page \in Seq(Events \X Time) /\ next \in 0 .. MaxTime + 1 \cup {None}
      /\ \A i \in DOMAIN page : /\ page[i][1] \in Matching(run[r].next)
                                /\ page[i][2] = feed[page[i][1]]
      /\ next # None => next <= now + 1
      /\ \A e \in Matching(run[r].next) :
            \/ \E i \in DOMAIN page : page[i] = <<e, feed[e]>>
            \/ /\ next # None => feed[e] >= next
               /\ \A i \in DOMAIN page : feed[e] >= page[i][2]
  BY <1>1, <1>2, PageCovers
<1>. HIDE DEF next
<1>5. /\ u \in Session /\ u.buffer = page /\ u.next = next
      /\ u.loaded = run[r].loaded /\ u.latest = run[r].latest
      /\ u.session = run[r].session /\ u.locked = run[r].locked
      /\ u.dirty = run[r].dirty
  BY <1>1, <1>4 DEF Session
<1>6. pc' = [pc EXCEPT ![r] = p] /\ run' = [run EXCEPT ![r] = u]
  BY <1>3 DEF Goto, next
<1>. HIDE DEF u
<1>7. p \in {"merge", "commit"} /\ (p = "merge" <=> u.buffer # <<>>)
  BY <1>5
<1>. HIDE DEF p
<1>8. Moves(r, p, u)
  BY <1>1, <1>5, <1>6, <1>7, Moving DEF Working
<1>9. Fetched(run[r], u)
  BY <1>4, <1>5 DEF Fetched, Pending
<1>. QED  BY <1>1, <1>2, <1>5, <1>7, <1>8, <1>9

\* What the session has for an event, or the table if it has nothing.
Final(s, e) == IF s.session[e] # 0 THEN s.session[e] ELSE rows[e]

\* An event merged with value v.
Merged(s, u, e, v) ==
    /\ Pending(s) = {<<e, v>>} \cup Pending(u)
    /\ u.loaded = s.loaded /\ u.next = s.next /\ u.locked = s.locked
    /\ u.session = [s.session EXCEPT ![e] = v]
    /\ u.latest = IF v > s.latest THEN v ELSE s.latest
    /\ s.dirty = None
    /\ Final(s, e) = v => u.dirty = None
    /\ Final(s, e) # v => u.dirty # None /\ u.dirty.event = e
    /\ u.dirty # None /\ u.dirty.new => Final(s, e) = 0

\* The session after a merge with buffer b left.
Updated(s, e, v, b, d) ==
    [s EXCEPT !.buffer = b, !.session[e] = v,
              !.latest = IF v > s.latest THEN v ELSE s.latest,
              !.dirty = d]

\* Its fields.
LEMMA UpdatedFields ==
    ASSUME NEW s \in Session, NEW e \in Events, NEW v \in Time,
           NEW b \in Seq(Events \X Time),
           NEW d \in [event : Events, new : BOOLEAN] \cup {None},
           NEW u, u = Updated(s, e, v, b, d)
    PROVE  /\ u \in Session
           /\ u.buffer = b /\ u.dirty = d /\ u.loaded = s.loaded
           /\ u.next = s.next /\ u.locked = s.locked
           /\ u.session = [s.session EXCEPT ![e] = v]
           /\ u.latest = IF v > s.latest THEN v ELSE s.latest
<1>1. u \in Session
  BY DEF Session, Updated
<1>2. /\ u.buffer = b /\ u.dirty = d /\ u.loaded = s.loaded
      /\ u.next = s.next /\ u.locked = s.locked
  BY DEF Session, Updated
<1>3. u.session = [s.session EXCEPT ![e] = v]
  BY DEF Session, Updated
<1>4. u.latest = IF v > s.latest THEN v ELSE s.latest
  BY DEF Session, Updated
<1>. QED  BY <1>1, <1>2, <1>3, <1>4

\* Merging takes an event from the buffer into the session.
LEMMA MergeStep ==
    ASSUME TypeInv, NEW r \in Runs, Merge(r)
    PROVE  /\ pc[r] = "merge" /\ Quiet
           /\ \E p \in Polling, u \in Session, e \in Events, v \in Time :
                /\ Moves(r, p, u) /\ Merged(run[r], u, e, v)
                /\ p = "merge" <=> u.buffer # <<>>
                /\ p = "page" => u.next # None
<1>. DEFINE s == run[r]
            e == Head(s.buffer)[1]
            v == Head(s.buffer)[2]
            b == Tail(s.buffer)
            new == Final(s, e) = 0
            d == IF Final(s, e) = v THEN None ELSE [event |-> e, new |-> new]
            u == Updated(s, e, v, b, d)
            p == IF b = <<>> THEN Continue(s.next) ELSE "merge"
<1>1. /\ pc[r] = "merge" /\ s \in Session /\ TypeOK /\ Quiet
      /\ s.buffer # <<>> /\ s.dirty = None
  BY DEF Merge, TypeInv, TypeOK, Phase, Quiet
<1>2. run' = [run EXCEPT ![r] = u] /\ pc' = [pc EXCEPT ![r] = p]
  BY DEF Merge, Goto, Final, Updated
<1>3. Head(s.buffer) \in Events \X Time /\ b \in Seq(Events \X Time)
  <2>1. s.buffer \in Seq(Events \X Time)
    BY <1>1 DEF Session
  <2>. QED  BY <1>1, <2>1, HeadTailProperties
<1>4. e \in Events /\ v \in Time /\ <<e, v>> = Head(s.buffer)
  BY <1>3
<1>5. /\ d \in [event : Events, new : BOOLEAN] \cup {None}
      /\ Final(s, e) = v => d = None
      /\ Final(s, e) # v => d # None /\ d.event = e
      /\ d # None /\ d.new => Final(s, e) = 0
  <2>1. CASE Final(s, e) = v
    BY <2>1
  <2>2. CASE Final(s, e) # v
    <3>1. d = [event |-> e, new |-> new] /\ new \in BOOLEAN
          /\ (new => Final(s, e) = 0)
      BY <2>2
    <3>. HIDE DEF new
    <3>2. [event |-> e, new |-> new] \in [event : Events, new : BOOLEAN]
      BY <1>4, <3>1
    <3>3. d \in [event : Events, new : BOOLEAN]
      BY <3>1, <3>2
    <3>. HIDE DEF d
    <3>. QED  BY <2>2, <3>1, <3>3, NoneIsNoValue
  <2>. QED  BY <2>1, <2>2
<1>6. p \in Polling /\ (p = "merge" <=> b # <<>>) /\ (p = "page" => s.next # None)
  BY DEF Polling, Continue
<1>. HIDE DEF d, p, e, v, b
<1>7. /\ u \in Session
      /\ u.buffer = b /\ u.dirty = d /\ u.loaded = s.loaded
      /\ u.next = s.next /\ u.locked = s.locked
      /\ u.session = [s.session EXCEPT ![e] = v]
      /\ u.latest = IF v > s.latest THEN v ELSE s.latest
  <2>1. /\ s \in Session /\ e \in Events /\ v \in Time
        /\ b \in Seq(Events \X Time)
        /\ d \in [event : Events, new : BOOLEAN] \cup {None}
    BY <1>1, <1>3, <1>4, <1>5
  <2>2. u = Updated(s, e, v, b, d)
    OBVIOUS
  <2>. HIDE DEF s, u
  <2>. QED  BY <2>1, <2>2, UpdatedFields
<1>. HIDE DEF u
<1>8. Pending(s) = {<<e, v>>} \cup Pending(u)
  BY <1>1, <1>4, <1>7, PendingSplits DEF b
<1>9. Moves(r, p, u)
  BY <1>1, <1>2, <1>6, <1>7, Moving DEF Polling, Working
<1>10. Merged(s, u, e, v)
  BY <1>1, <1>5, <1>7, <1>8 DEF Merged
<1>. QED  BY <1>1, <1>4, <1>6, <1>7, <1>9, <1>10

\* An event flushed.
Flushed(s, u) ==
    /\ s.dirty # None /\ u.dirty = None
    /\ u.locked = s.locked \cup {s.dirty.event}
    /\ u.loaded = s.loaded /\ u.latest = s.latest /\ u.next = s.next
    /\ u.session = s.session /\ u.buffer = s.buffer

\* A flush writes the row, or fails on one inserted meanwhile.
LEMMA FlushStep ==
    ASSUME TypeInv, NEW r \in Runs, Flush(r)
    PROVE  /\ pc[r] \in {"merge", "commit"} /\ Quiet
           /\ \/ Drops(r)
              \/ \E u \in Session : Moves(r, pc[r], u) /\ Flushed(run[r], u)
<1>. DEFINE s == run[r]
            e == s.dirty.event
            u == [s EXCEPT !.dirty = None, !.locked = s.locked \cup {e}]
<1>1. /\ pc[r] \in {"merge", "commit"} /\ s \in Session /\ TypeOK /\ Quiet
      /\ s.dirty # None
  BY DEF Flush, TypeInv, TypeOK, Quiet
<1>2. CASE Fail(r)
  BY <1>1, <1>2, DropSteps DEF Fail
<1>3. CASE run' = [run EXCEPT ![r] = u] /\ UNCHANGED pc
  <2>1. e \in Events
    BY <1>1 DEF Session
  <2>2. /\ u \in Session /\ u.dirty = None /\ u.locked = s.locked \cup {e}
        /\ u.loaded = s.loaded /\ u.latest = s.latest /\ u.next = s.next
        /\ u.session = s.session /\ u.buffer = s.buffer
    BY <1>1, <2>1 DEF Session
  <2>. HIDE DEF u
  <2>3. Moves(r, pc[r], u)
    BY <1>1, <1>3, <2>2 DEF Moves, TypeOK
  <2>. QED  BY <1>1, <2>2, <2>3 DEF Flushed
<1>. QED  BY <1>1, <1>2, <1>3 DEF Flush

\* The row of sync_meta that a session writes: its cursor, or the one of the
\* table if that is the one it loaded.
LEMMA MetaIsWritten ==
    ASSUME TypeInv, NEW r \in Runs, run[r].loaded # None,
           NEW time \in Time, NEW status \in SyncStatus,
           MetaWritten(r, time, status)
    PROVE  /\ meta' \in SyncMeta
           /\ Cursor' = meta'.last_changed_at
           /\ IF meta # None /\ time = run[r].loaded.last_changed_at
              THEN Cursor' = Cursor ELSE Cursor' = time
           /\ IF meta # None /\ status = run[r].loaded.sync_status
              THEN meta'.sync_status = meta.sync_status
              ELSE meta'.sync_status = status
<1>. DEFINE loaded == run[r].loaded
            row == IF meta = None THEN loaded ELSE meta
            t == IF time # loaded.last_changed_at THEN time ELSE row.last_changed_at
            u == IF status # loaded.sync_status THEN status ELSE row.sync_status
<1>1. loaded \in SyncMeta /\ row \in SyncMeta
  BY DEF TypeInv, TypeOK, Session
<1>2. meta' = [last_changed_at |-> t, sync_status |-> u]
  BY DEF MetaWritten
<1>3. t \in Time /\ u \in SyncStatus
  BY <1>1 DEF SyncMeta
<1>4. /\ IF meta # None /\ time = loaded.last_changed_at
         THEN t = meta.last_changed_at ELSE t = time
      /\ IF meta # None /\ status = loaded.sync_status
         THEN u = meta.sync_status ELSE u = status
  OBVIOUS
<1>. HIDE DEF t, u, row
<1>5. /\ meta' \in SyncMeta /\ meta' # None
      /\ meta'.last_changed_at = t /\ meta'.sync_status = u
  BY <1>2, <1>3, NoneIsNoValue DEF SyncMeta
<1>. QED  BY <1>4, <1>5 DEF Cursor

\* The rows a transaction leaves: its copies where it wrote, and no change
\* elsewhere.
LEMMA RowsAreWritten ==
    ASSUME TypeOK, NEW r \in Runs, RowsWritten(r)
    PROVE  /\ rows' \in [Events -> Time]
           /\ \A e \in Events :
                 rows'[e] = IF e \in run[r].locked THEN run[r].session[e] ELSE rows[e]
<1>1. run[r].session \in [Events -> Time]
  BY DEF TypeOK, Session
<1>. QED  BY <1>1 DEF RowsWritten, TypeOK

\* The commit of a run: rows, cursor and status at once.
LEMMA CommitStep ==
    ASSUME TypeInv, NEW r \in Runs, Commit(r)
    PROVE  /\ pc[r] = "commit" /\ pc'[r] = "committed" /\ run[r].dirty = None
           /\ Drops(r) /\ Moves(r, "committed", NoSession)
           /\ UNCHANGED provider
           /\ rows' \in [Events -> Time] /\ meta' \in SyncMeta
           /\ \A e \in Events :
                 rows'[e] = IF e \in run[r].locked THEN run[r].session[e] ELSE rows[e]
           /\ \/ Cursor' = run[r].latest
              \/ /\ meta # None /\ Cursor' = Cursor
                 /\ run[r].latest = run[r].loaded.last_changed_at
           /\ \/ meta'.sync_status = "ok"
              \/ /\ meta # None /\ meta'.sync_status = meta.sync_status
                 /\ run[r].loaded.sync_status = "ok"
<1>1. /\ pc[r] = "commit" /\ run[r].dirty = None /\ UNCHANGED provider
      /\ Goto(r, "committed") /\ CloseSession(r)
      /\ RowsWritten(r) /\ MetaWritten(r, run[r].latest, "ok")
      /\ TypeOK
  BY DEF Commit, TypeInv
<1>2. run[r].loaded # None /\ run[r].latest \in Time /\ "ok" \in SyncStatus
  BY <1>1 DEF TypeInv, Phase, Polling, TypeOK, Session, SyncStatus
<1>3. Moves(r, "committed", NoSession)
  BY <1>1, Moving, NoSessionType DEF Goto, CloseSession, Working
<1>4. Drops(r)
  BY <1>1, DropSteps
<1>5. pc'[r] = "committed"
  BY <1>3 DEF Moves
<1>6. /\ meta' \in SyncMeta
      /\ \/ Cursor' = run[r].latest
         \/ /\ meta # None /\ Cursor' = Cursor
            /\ run[r].latest = run[r].loaded.last_changed_at
      /\ \/ meta'.sync_status = "ok"
         \/ /\ meta # None /\ meta'.sync_status = meta.sync_status
            /\ run[r].loaded.sync_status = "ok"
  BY <1>1, <1>2, MetaIsWritten
<1>. QED  BY <1>1, <1>3, <1>4, <1>5, <1>6, RowsAreWritten

\* Marking a failure writes the status and leaves cursor and rows alone.
LEMMA MarkStep ==
    ASSUME TypeInv, KnownInv, NEW r \in Runs, MarkFailed(r)
    PROVE  /\ Drops(r) /\ UNCHANGED <<provider, rows>>
           /\ meta' \in SyncMeta /\ Cursor' = Cursor
<1>1. /\ pc[r] = "mark_commit" /\ UNCHANGED <<provider, rows>>
      /\ Goto(r, "idle") /\ CloseSession(r)
      /\ MetaWritten(r, run[r].loaded.last_changed_at, "failed")
  BY DEF MarkFailed
<1>2. run[r].loaded \in SyncMeta /\ run[r].loaded # None
  BY <1>1 DEF TypeInv, TypeOK, Phase, Session
<1>3. run[r].loaded.last_changed_at \in Time /\ "failed" \in SyncStatus
  BY <1>2 DEF SyncMeta, SyncStatus
<1>4. /\ meta' \in SyncMeta
      /\ Cursor' = Cursor \/ (meta = None /\ Cursor' = run[r].loaded.last_changed_at)
  BY <1>1, <1>2, <1>3, MetaIsWritten
<1>5. ASSUME meta = None  PROVE run[r].loaded.last_changed_at = 0 /\ Cursor = 0
  BY <1>2, <1>5 DEF KnownInv, NewMeta, Cursor
<1>6. Drops(r)
  BY <1>1, DropSteps
<1>. QED  BY <1>1, <1>4, <1>5, <1>6

\* A page without results ends the paging and leaves the session as it is.
LEMMA EmptyStep ==
    ASSUME TypeInv, NEW r \in Runs, EmptyPage(r)
    PROVE  pc[r] = "page" /\ Quiet /\ Moves(r, "commit", run[r]) /\ run[r] \in Session
BY Staying DEF EmptyPage, TypeInv, Goto, Quiet, Working

\* The provider lists a change, at its place or late.
Publishes(e) == EventChanges(e) \/ LateChange(e)

\* What a step can be, for the invariants.
LEMMA Steps ==
    ASSUME TypeInv, [Next]_vars
    PROVE  \/ \E r \in Runs : \/ Quiet /\ (Drops(r) \/ Opens(r))
                              \/ GetPage(r) \/ EmptyPage(r) \/ Merge(r) \/ Flush(r)
                              \/ Commit(r) \/ MarkFailed(r)
           \/ Quiet /\ UNCHANGED <<pc, run>>
           \/ Crash
           \/ \E e \in Events : Publishes(e)
<1>1. ASSUME NEW r \in Runs, Begin(r) \/ DeadlockDetected(r) \/ End(r) \/ RunFails(r)
      PROVE  Quiet /\ Drops(r)
  BY <1>1, DropSteps DEF Quiet, Begin, DeadlockDetected, End, RunFails
<1>2. ASSUME NEW r \in Runs, GetMeta(r) \/ InsertMeta(r)
      PROVE  Quiet /\ (Drops(r) \/ Opens(r))
  BY <1>2, MetaSteps DEF Quiet, GetMeta, InsertMeta
<1>3. CASE StatusRead \/ StatusFails \/ UNCHANGED vars
  BY <1>3 DEF Quiet, StatusRead, StatusAsked, StatusInserts, StatusAnswered, StatusFails,
              statusUnchanged, tables, vars
<1>. QED  BY <1>1, <1>2, <1>3 DEF Next, Step, Publishes

\* The variables that no session speaks of keep their types, and what once
\* overlapped has overlapped.
LEMMA OtherTypes ==
    ASSUME TypeOK, [Next]_vars
    PROVE  /\ reader' \in {"idle", "insert", "inserted"}
           /\ overlapped' \in BOOLEAN /\ (overlapped => overlapped')
           /\ troubles' \in 0 .. MaxTroubles
<1>0. /\ reader \in {"idle", "insert", "inserted"} /\ overlapped \in BOOLEAN
      /\ troubles \in 0 .. MaxTroubles
  BY DEF TypeOK
<1>1. CASE \E r \in Runs : GetMeta(r) \/ InsertMeta(r) \/ GetPage(r) \/ Merge(r)
                           \/ Flush(r) \/ DeadlockDetected(r) \/ Commit(r)
                           \/ End(r) \/ MarkFailed(r)
  <2>1. UNCHANGED <<reader, overlapped, troubles>>
    BY <1>1 DEF GetMeta, InsertMeta, GetPage, Merge, Flush, DeadlockDetected, Commit,
                End, MarkFailed
  <2>. QED  BY <1>0, <2>1
<1>2. CASE \E r \in Runs : Begin(r)
  <2>1. PICK b \in BOOLEAN : overlapped' = b /\ (overlapped => b)
    BY <1>2, Zenon DEF Begin
  <2>2. UNCHANGED <<reader, troubles>>
    BY <1>2 DEF Begin
  <2>. QED  BY <1>0, <2>1, <2>2
<1>3. CASE \/ Crash \/ StatusFails \/ \E r \in Runs : EmptyPage(r) \/ RunFails(r)
           \/ \E e \in Events : LateChange(e)
  <2>1. UNCHANGED overlapped /\ reader' \in {reader, "idle"} /\ Trouble
    BY <1>3 DEF Crash, StatusFails, EmptyPage, RunFails, LateChange, statusUnchanged
  <2>2. troubles' \in 0 .. MaxTroubles
    BY <1>0, <2>1, BoundsNat DEF Trouble
  <2>. QED  BY <1>0, <2>1, <2>2
<1>4. CASE StatusRead \/ UNCHANGED vars \/ \E e \in Events : EventChanges(e)
  <2>1. /\ UNCHANGED <<overlapped, troubles>>
        /\ reader' \in {reader, "idle", "insert", "inserted"}
    BY <1>4 DEF StatusRead, StatusAsked, StatusInserts, StatusAnswered, statusUnchanged,
                EventChanges, vars
  <2>. QED  BY <1>0, <2>1
<1>. QED  BY <1>1, <1>2, <1>3, <1>4 DEF Next, Step

-----------------------------------------------------------------------------
(* The invariant is kept: first by what a run moves to, then by the rest.  *)

Inv == TypeInv /\ KnownInv /\ ReachInv

\* What the invariants ask of one run.
Fits(p, s) ==
    /\ Phase(p, s) /\ Known(s) /\ Reached(p, s)
    /\ meta = None => s.loaded \in {None, NewMeta}

\* A run without a session fits everywhere.
LEMMA NoSessionFits ==
    ASSUME TypeOK,
           NEW p \in (Working \cup Marking \cup {"idle"}) \ (Polling \cup {"mark_commit"})
    PROVE  Fits(p, NoSession)
<1>1. /\ now \in Int /\ now >= 0 /\ \A e \in Events : feed[e] \in Int /\ feed[e] >= 0
  BY BoundsNat DEF TypeOK, Time
<1>2. Phase(p, NoSession)
  BY NoSessionType DEF Phase, Polling
<1>3. Known(NoSession)
  BY <1>1, NoSessionType DEF Known
<1>. QED  BY <1>2, <1>3, NoSessionType DEF Fits, Reached

\* A step that moves one run keeps the invariant if what it moves to fits.
LEMMA InvMove ==
    ASSUME Inv, [Next]_vars, Quiet, NEW r \in Runs, NEW p, NEW u, Moves(r, p, u),
           Fits(p, u)
    PROVE  Inv'
<1>1. /\ UNCHANGED <<feed, now, late, behind, rows, meta>>
      /\ \A q \in Runs : Fits(pc'[q], run'[q])
  BY DEF Inv, TypeInv, KnownInv, ReachInv, Fits, Moves, Quiet, provider, tables
<1>2. TypeOK'
  BY <1>1, OtherTypes DEF Inv, TypeInv, TypeOK, Moves
<1>3. TypeInv'
  BY <1>1, <1>2 DEF TypeInv, Fits
<1>4. KnownInv'
  BY <1>1 DEF Inv, KnownInv, Fits, Known, Cursor
<1>5. ReachInv'
  BY <1>1 DEF Inv, ReachInv, Fits, Reached, Ahead, NewEventCovered, Covered, Cursor
<1>. QED  BY <1>3, <1>4, <1>5 DEF Inv

\* Numbers that the invariants compare.
LEMMA Numbers ==
    ASSUME TypeOK
    PROVE  /\ now \in Int /\ now >= 0 /\ Cursor \in Time /\ Cursor \in Int
           /\ \A e \in Events : /\ feed[e] \in Int /\ feed[e] >= 0
                                /\ rows[e] \in Int /\ rows[e] >= 0
           /\ DayStart(Cursor) \in Int /\ DayStart(Cursor) <= Cursor
           /\ \A u \in Session :
                 /\ u.latest \in Time /\ u.latest \in Int
                 /\ DayStart(u.latest) \in Int /\ DayStart(u.latest) <= u.latest
                 /\ u.next # None => u.next \in Int
                 /\ \A e \in Events : u.session[e] \in Int /\ u.session[e] >= 0
                 /\ \A x \in Pending(u) : /\ x[1] \in Events /\ x[2] \in Time
                                          /\ x[2] \in Int /\ DayStart(x[2]) \in Int
                                          /\ DayStart(x[2]) <= x[2]
<1>1. /\ Time \subseteq Int
      /\ \A t \in Time : t >= 0 /\ DayStart(t) \in Int /\ DayStart(t) <= t
  BY DayStarts, BoundsNat DEF Time
<1>2. Cursor \in Time
  BY BoundsNat DEF Cursor, TypeOK, SyncMeta, Time
<1>3. ASSUME NEW u \in Session
      PROVE  /\ u.latest \in Time
             /\ u.next # None => u.next \in Int
             /\ \A e \in Events : u.session[e] \in Time
             /\ Pending(u) \subseteq Events \X Time
  BY PendingTypes, BoundsNat DEF Session
<1>4. now \in Time /\ \A e \in Events : feed[e] \in Time /\ rows[e] \in Time
  BY DEF TypeOK
<1>. QED  BY <1>1, <1>2, <1>3, <1>4

\* A session just opened: every event that is not stored is ahead of it.
LEMMA OpensKeeps ==
    ASSUME Inv, [Next]_vars, NEW r \in Runs, Quiet, Opens(r)
    PROVE  Inv'
<1>1. PICK row \in SyncMeta, u \in Session, p \in {"page", "mark_commit"} :
        /\ Moves(r, p, u)
        /\ row = IF meta = None THEN NewMeta ELSE meta
        /\ u.loaded = row /\ u.latest = row.last_changed_at
        /\ u.next = IF p = "page" THEN DayStart(row.last_changed_at) ELSE None
        /\ u.buffer = <<>> /\ u.locked = {} /\ u.dirty = None
        /\ u.session = [e \in Events |-> 0]
  BY DEF Opens
<1>2. row.last_changed_at = Cursor /\ row # None
  BY <1>1, NoneIsNoValue DEF Cursor, NewMeta
<1>3. /\ now \in Int /\ Cursor \in Int /\ DayStart(Cursor) \in Int
      /\ DayStart(Cursor) <= Cursor /\ Cursor \in Time /\ DayStart(Cursor) \in Time
      /\ Cursor <= now
      /\ \A e \in Events : /\ feed[e] \in Int /\ feed[e] >= 0 /\ u.session[e] = 0
      /\ \A e \in Events \ behind :
            rows[e] = 0 /\ feed[e] # 0 => feed[e] >= DayStart(Cursor)
  BY <1>1, Numbers, DayStarts DEF Inv, TypeInv, KnownInv, ReachInv, NewEventCovered, Covered
<1>4. Pending(u) = {}
  BY <1>1, PendingTypes
<1>5. DayStart(Cursor) # None
  BY <1>3, NoneIsNoValue, BoundsNat DEF Time
<1>6. Phase(p, u)
  BY <1>1, <1>2, <1>3, <1>5 DEF Phase, Polling
<1>7. Known(u)
  BY <1>1, <1>2, <1>3, <1>4 DEF Known
<1>8. Reached(p, u)
  BY <1>1, <1>2, <1>3, <1>4 DEF Reached, Ahead
<1>9. Fits(p, u)
  BY <1>1, <1>6, <1>7, <1>8 DEF Fits
<1>. QED  BY <1>1, <1>9, InvMove

\* What was ahead of the old link is on the page or ahead of the new one.
LEMMA FetchAhead ==
    ASSUME NEW s, NEW u, Fetched(s, u), s.next # None,
           NEW e \in Events, Ahead(s, e), feed[e] # 0
    PROVE  <<e, feed[e]>> \in Pending(u) \/ Ahead(u, e)
<1>1. e \in Matching(s.next)
  BY DEF Ahead, Matching
<1>2. CASE <<e, feed[e]>> \in Pending(u)
  BY <1>2
<1>3. CASE /\ u.next # None => feed[e] >= u.next
           /\ \A x \in Pending(u) : feed[e] >= x[2]
  BY <1>3 DEF Ahead, Fetched
<1>. QED  BY <1>1, <1>2, <1>3 DEF Fetched

\* A fetched page keeps every event in hand or ahead.
LEMMA FetchKeeps ==
    ASSUME Inv, [Next]_vars, NEW r \in Runs, GetPage(r)
    PROVE  Inv'
<1>. DEFINE s == run[r]
<1>1. /\ pc[r] = "page" /\ s.next \in 0 .. MaxTime + 1 /\ Quiet /\ s \in Session
      /\ TypeOK /\ Phase(pc[r], s) /\ Known(s) /\ Reached(pc[r], s)
      /\ meta = None => s.loaded \in {None, NewMeta}
  BY FetchStep DEF Inv, TypeInv, TypeOK, KnownInv, ReachInv
<1>2. PICK p \in {"merge", "commit"}, u \in Session :
        Moves(r, p, u) /\ Fetched(s, u) /\ (p = "merge" <=> u.buffer # <<>>)
  BY FetchStep DEF Inv
<1>. HIDE DEF s
<1>3. /\ s.next # None /\ s.next \in Int
      /\ \A e \in Events : feed[e] \in Int /\ feed[e] >= 0
      /\ \A x \in Pending(u) : x[1] \in Events /\ x[2] \in Int
  BY <1>1, Numbers, NoneIsNoValue, BoundsNat
<1>4. Phase(p, u)
  BY <1>1, <1>2 DEF Phase, Fetched, Polling
<1>5. Known(u)
  <2>1. \A x \in Pending(u) : x[1] \in Events /\ feed[x[1]] # 0 /\ x[2] = feed[x[1]]
    BY <1>2 DEF Fetched, Matching
  <2>2. \A x \in Pending(u) : 0 < x[2] /\ x[2] <= feed[x[1]]
    BY <1>3, <2>1
  <2>3. \A x, y \in Pending(u) : x[1] = y[1] => x = y
    <3>1. \A x \in Pending(u) : x = <<x[1], x[2]>>
      BY PendingTypes
    <3>. QED  BY <2>1, <3>1
  <2>. QED  BY <1>1, <1>2, <2>2, <2>3 DEF Known, Fetched
<1>6. Reached(p, u)
  <2>1. ASSUME NEW e \in Events, Ahead(s, e), feed[e] # 0
        PROVE  (\E x \in Pending(u) : x[1] = e) \/ Ahead(u, e)
    <3>1. <<e, feed[e]>> \in Pending(u) \/ Ahead(u, e)
      BY <1>2, <1>3, <2>1, FetchAhead
    <3>. QED  BY <3>1
  <2>2. Pending(s) = {}
    BY <1>1, PendingTypes DEF Phase
  <2>3. \A e \in Events : Writes(s, e) => Writes(u, e)
    BY <1>2 DEF Writes, Fetched
  <2>. QED  BY <1>1, <1>2, <2>1, <2>2, <2>3 DEF Reached, Polling, Fetched
<1>7. Fits(p, u)
  BY <1>1, <1>2, <1>4, <1>5, <1>6 DEF Fits, Fetched
<1>. QED  BY <1>1, <1>2, <1>7, InvMove

\* What is known of run r.
LEMMA RunFacts ==
    ASSUME Inv, NEW r \in Runs
    PROVE  run[r] \in Session /\ TypeOK /\ Fits(pc[r], run[r])
BY DEF Inv, TypeInv, TypeOK, KnownInv, ReachInv, Fits

\* Giving a session up, and ending the paging early, cost nothing.
LEMMA DropKeeps ==
    ASSUME Inv, [Next]_vars, NEW r \in Runs,
           (Quiet /\ Drops(r)) \/ EmptyPage(r)
    PROVE  Inv'
<1>1. CASE Quiet /\ Drops(r)
  BY <1>1, NoSessionFits, InvMove DEF Drops, Inv, TypeInv
<1>2. CASE EmptyPage(r)
  <2>1. pc[r] = "page" /\ Quiet /\ Moves(r, "commit", run[r])
    BY <1>2, EmptyStep DEF Inv
  <2>2. Fits("commit", run[r])
    BY <2>1, RunFacts DEF Fits, Phase, Reached, Polling
  <2>. QED  BY <2>1, <2>2, InvMove
<1>. QED  BY <1>1, <1>2

\* What is merged next is older than what is ahead.
LEMMA MergeAhead ==
    ASSUME TypeOK, NEW s \in Session, NEW u, NEW e \in Events, NEW v \in Time,
           Merged(s, u, e, v), NEW f \in Events, Ahead(s, f)
    PROVE  Ahead(u, f)
<1>1. /\ <<e, v>> \in Pending(s) /\ Pending(u) \subseteq Pending(s)
      /\ u.latest \in {s.latest, v} /\ u.next = s.next
  BY DEF Merged
<1>2. /\ feed[f] \in Int /\ v \in Int /\ DayStart(v) \in Int /\ DayStart(v) <= v
  BY Numbers, DayStarts, BoundsNat DEF Time
<1>3. feed[f] >= v
  BY <1>1 DEF Ahead
<1>4. feed[f] >= DayStart(v)
  BY <1>2, <1>3
<1>. QED  BY <1>1, <1>4 DEF Ahead

\* Merging: the event is in hand as a row to write, or as stored already.
LEMMA MergeKeeps ==
    ASSUME Inv, [Next]_vars, NEW r \in Runs, Merge(r)
    PROVE  Inv'
<1>. DEFINE s == run[r]
<1>1. /\ pc[r] = "merge" /\ Quiet /\ s \in Session
      /\ TypeOK /\ Phase("merge", s) /\ Known(s) /\ Reached("merge", s)
      /\ meta = None => s.loaded \in {None, NewMeta}
  BY MergeStep, RunFacts DEF Inv, Fits
<1>2. PICK p \in Polling, u \in Session, e \in Events, v \in Time :
        /\ Moves(r, p, u) /\ Merged(s, u, e, v)
        /\ p = "merge" <=> u.buffer # <<>>
        /\ p = "page" => u.next # None
  BY MergeStep DEF Inv
<1>. HIDE DEF s
<1>3. /\ v \in Int /\ 0 < v /\ v <= feed[e] /\ <<e, v>> \in Pending(s)
      /\ \A f \in Events : u.session[f] = IF f = e THEN v ELSE s.session[f]
      /\ Pending(u) \subseteq Pending(s)
  <2>1. <<e, v>> \in Pending(s) /\ Pending(u) \subseteq Pending(s)
    BY <1>2 DEF Merged
  <2>2. v \in Int /\ 0 < v /\ v <= feed[e]
    BY <1>1, <2>1, Numbers DEF Known
  <2>3. s.session \in [Events -> Time]
    BY <1>1 DEF Session
  <2>. QED  BY <1>2, <2>1, <2>2, <2>3 DEF Merged
<1>4. /\ now \in Int /\ \A f \in Events : feed[f] \in Int /\ feed[f] <= now
      /\ s.latest \in Int /\ s.latest <= now
      /\ DayStart(s.latest) \in Int /\ DayStart(v) \in Int /\ DayStart(v) <= v
  BY <1>1, <1>3, Numbers, DayStarts DEF Inv, KnownInv, Known
<1>5. Phase(p, u)
  <2>1. s.loaded # None /\ s.loaded.last_changed_at \in Int
    BY <1>1, BoundsNat DEF Phase, Polling, Session, SyncMeta, Time
  <2>2. s.latest >= s.loaded.last_changed_at
    BY <1>1, <2>1 DEF Phase
  <2>3. u.loaded = s.loaded /\ u.latest >= s.loaded.last_changed_at
    BY <1>2, <1>3, <1>4, <2>1, <2>2 DEF Merged
  <2>4. \A f \in u.locked : u.session[f] # 0
    <3>1. u.locked \subseteq Events /\ \A f \in u.locked : s.session[f] # 0
      BY <1>1, <1>2 DEF Phase, Merged, Session
    <3>. QED  BY <1>3, <3>1
  <2>5. u.dirty # None => u.session[u.dirty.event] # 0
    <3>1. u.dirty # None => u.dirty.event = e
      BY <1>2 DEF Merged
    <3>. QED  BY <1>3, <3>1
  <2>6. /\ p = "page" => u.buffer = <<>>
        /\ p = "commit" => u.buffer = <<>>
        /\ p = "merge" => u.buffer # <<>>
        /\ p \in Polling /\ p # "mark_commit"
    BY <1>2 DEF Polling
  <2>. QED  BY <1>2, <2>1, <2>3, <2>4, <2>5, <2>6 DEF Phase
<1>6. Known(u)
  <2>1. u.latest <= now
    BY <1>2, <1>3, <1>4 DEF Merged
  <2>. QED  BY <1>1, <1>2, <1>3, <2>1 DEF Known, Merged
<1>7. Reached(p, u)
  <2>1. \A f \in Events : Ahead(s, f) => Ahead(u, f)
    BY <1>1, <1>2, MergeAhead
  <2>2. \A f \in Events : Writes(s, f) => Writes(u, f)
    BY <1>2 DEF Writes, Merged
  <2>3. rows[e] # 0 \/ Writes(u, e)
    <3>1. CASE Final(s, e) # v
      BY <1>2, <3>1 DEF Merged, Writes
    <3>2. CASE Final(s, e) = v
      BY <1>1, <1>3, <2>2, <3>2 DEF Final, Reached
    <3>. QED  BY <3>1, <3>2
  <2>4. ASSUME NEW f \in Events, f # e
        PROVE  (\E x \in Pending(s) : x[1] = f) => \E x \in Pending(u) : x[1] = f
    BY <1>2, <2>4 DEF Merged
  <2>5. \A f \in Events : u.session[f] # 0 => rows[f] # 0 \/ Writes(u, f)
    BY <1>1, <1>3, <2>2, <2>3 DEF Reached
  <2>6. ASSUME NEW f \in Events \ behind, feed[f] # 0
        PROVE  \/ rows[f] # 0 \/ Writes(u, f)
               \/ \E x \in Pending(u) : x[1] = f
               \/ Ahead(u, f)
    <3>1. CASE f = e
      BY <2>3, <3>1
    <3>2. CASE f # e
      <4>1. \/ rows[f] # 0 \/ Writes(s, f)
            \/ \E x \in Pending(s) : x[1] = f
            \/ Ahead(s, f)
        BY <1>1, <2>6 DEF Reached, Polling
      <4>. QED  BY <2>1, <2>2, <2>4, <3>2, <4>1
    <3>. QED  BY <3>1, <3>2
  <2>. QED  BY <2>5, <2>6 DEF Reached
<1>8. Fits(p, u)
  BY <1>1, <1>2, <1>5, <1>6, <1>7 DEF Fits, Merged
<1>. QED  BY <1>1, <1>2, <1>8, InvMove

\* A flush takes the event from what the session will write to what it wrote.
LEMMA FlushKeeps ==
    ASSUME Inv, [Next]_vars, NEW r \in Runs, Flush(r)
    PROVE  Inv'
<1>1. Quiet /\ pc[r] \in {"merge", "commit"}
  BY FlushStep DEF Inv
<1>2. CASE Drops(r)
  BY <1>1, <1>2, DropKeeps
<1>3. ASSUME NEW u \in Session, Moves(r, pc[r], u), Flushed(run[r], u)
      PROVE  Inv'
  <2>. DEFINE s == run[r]
  <2>1. /\ s \in Session /\ TypeOK /\ Phase(pc[r], s) /\ Known(s) /\ Reached(pc[r], s)
        /\ meta = None => s.loaded \in {None, NewMeta}
    BY RunFacts DEF Fits
  <2>2. Pending(u) = Pending(s)
    BY <1>3 DEF Flushed, Pending
  <2>. HIDE DEF s
  <2>. USE <1>3 DEF s
  <2>3. \A f \in Events : Writes(s, f) => Writes(u, f)
    BY DEF Writes, Flushed
  <2>4. \A f \in Events : Ahead(s, f) => Ahead(u, f)
    BY <2>2 DEF Ahead, Flushed
  <2>5. Phase(pc[r], u)
    BY <1>1, <2>1 DEF Phase, Flushed, Polling
  <2>6. Known(u)
    BY <2>1, <2>2 DEF Known, Flushed
  <2>7. Reached(pc[r], u)
    BY <2>1, <2>2, <2>3, <2>4 DEF Reached, Flushed
  <2>8. Fits(pc[r], u)
    BY <2>1, <2>5, <2>6, <2>7 DEF Fits, Flushed
  <2>. QED  BY <1>1, <2>8, InvMove
<1>. QED  BY <1>2, <1>3, FlushStep DEF Inv

\* The commit of a run publishes a cursor up to which every event is stored.
LEMMA CommitKeeps ==
    ASSUME Inv, [Next]_vars, NEW r \in Runs, Commit(r)
    PROVE  Inv'
<1>. DEFINE s == run[r]
<1>1. /\ pc[r] = "commit" /\ s.dirty = None /\ Moves(r, "committed", NoSession)
      /\ UNCHANGED <<feed, now, late, behind>>
      /\ rows' \in [Events -> Time] /\ meta' \in SyncMeta
      /\ \A e \in Events :
            rows'[e] = IF e \in s.locked THEN s.session[e] ELSE rows[e]
      /\ Cursor' = s.latest \/ Cursor' = Cursor
  BY CommitStep DEF Inv, provider
<1>2. /\ s \in Session /\ TypeOK /\ Phase("commit", s) /\ Known(s)
      /\ Reached("commit", s)
  BY <1>1, RunFacts DEF Fits
<1>. HIDE DEF s
<1>3. meta' # None
  BY <1>1, NoneIsNoValue
<1>4. Pending(s) = {} /\ \A e \in Events : Writes(s, e) => e \in s.locked
  BY <1>1, <1>2, PendingTypes DEF Phase, Writes
<1>5. \A e \in Events : /\ rows[e] # 0 \/ e \in s.locked => rows'[e] # 0
                        /\ rows'[e] <= feed[e]
  BY <1>1, <1>2 DEF Phase, Known, Inv, KnownInv
<1>6. \A e \in Events \ behind :
        rows'[e] = 0 /\ feed[e] # 0 => feed[e] >= DayStart(Cursor')
  <2>. SUFFICES ASSUME NEW e \in Events \ behind, rows'[e] = 0, feed[e] # 0
                PROVE  feed[e] >= DayStart(Cursor')
    OBVIOUS
  <2>1. rows[e] = 0 /\ e \notin s.locked
    BY <1>5
  <2>2. Ahead(s, e)
    BY <1>2, <1>4, <2>1 DEF Reached, Polling
  <2>3. feed[e] >= DayStart(Cursor)
    BY <2>1 DEF Inv, ReachInv, NewEventCovered, Covered
  <2>. QED  BY <1>1, <2>2, <2>3 DEF Ahead
<1>7. \A q \in Runs : Phase(pc'[q], run'[q])
  <2>1. Fits("committed", NoSession)
    BY <1>2, NoSessionFits DEF Working, Polling
  <2>. QED  BY <1>1, <2>1 DEF Moves, Fits, Inv, TypeInv
<1>8. \A q \in Runs : Known(run'[q])
  <2>1. Fits("committed", NoSession)
    BY <1>2, NoSessionFits DEF Working, Polling
  <2>. QED  BY <1>1, <2>1 DEF Moves, Fits, Inv, KnownInv
<1>9. ASSUME NEW q \in Runs  PROVE Reached(pc[q], run[q])'
  <2>1. CASE q = r
    BY <1>1, <2>1, NoSessionType DEF Moves, Reached, Polling
  <2>2. CASE q # r
    <3>1. pc'[q] = pc[q] /\ run'[q] = run[q]
      BY <1>1, <2>2 DEF Moves
    <3>2. Reached(pc[q], run[q])
      BY DEF Inv, ReachInv
    <3>3. \A e \in Events : Ahead(run[q], e)' <=> Ahead(run[q], e)
      BY <1>1, <3>1 DEF Ahead
    <3>. QED  BY <1>1, <1>5, <3>1, <3>2, <3>3 DEF Reached
  <2>. QED  BY <2>1, <2>2
<1>10. TypeInv'
  BY <1>1, <1>2, <1>7, OtherTypes DEF TypeInv, TypeOK, Moves
<1>11. KnownInv'
  <2>1. Cursor' <= now
    BY <1>1, <1>2 DEF Inv, KnownInv, Known
  <2>2. \A q \in Runs : Known(run[q])'
    BY <1>1, <1>8 DEF Known
  <2>. QED  BY <1>1, <1>3, <1>5, <2>1, <2>2 DEF Inv, KnownInv
<1>12. ReachInv'
  BY <1>1, <1>6, <1>9 DEF ReachInv, NewEventCovered, Covered
<1>. QED  BY <1>10, <1>11, <1>12 DEF Inv

\* Marking a failure touches no cursor.
LEMMA MarkKeeps ==
    ASSUME Inv, [Next]_vars, NEW r \in Runs, MarkFailed(r)
    PROVE  Inv'
<1>1. /\ Drops(r) /\ UNCHANGED <<feed, now, late, behind, rows>>
      /\ meta' \in SyncMeta /\ Cursor' = Cursor /\ meta' # None
  BY MarkStep, NoneIsNoValue DEF Inv, provider
<1>2. PICK p \in (Working \cup Marking \cup {"idle"}) \ (Polling \cup {"mark_commit"}) :
        Moves(r, p, NoSession)
  BY <1>1 DEF Drops
<1>3. TypeOK /\ Fits(p, NoSession)
  BY NoSessionFits DEF Inv, TypeInv
<1>4. \A q \in Runs : /\ Phase(pc'[q], run'[q]) /\ Known(run'[q])
                      /\ Reached(pc'[q], run'[q])
  BY <1>2, <1>3 DEF Moves, Fits, Inv, TypeInv, KnownInv, ReachInv
<1>5. TypeInv'
  BY <1>1, <1>2, <1>3, <1>4, OtherTypes DEF TypeInv, TypeOK, Moves
<1>6. KnownInv'
  <2>1. \A q \in Runs : Known(run[q])'
    BY <1>1, <1>4 DEF Known
  <2>. QED  BY <1>1, <2>1 DEF Inv, KnownInv
<1>7. ReachInv'
  <2>1. \A q \in Runs : Reached(pc[q], run[q])'
    BY <1>1, <1>4 DEF Reached, Ahead
  <2>. QED  BY <1>1, <2>1 DEF Inv, ReachInv, NewEventCovered, Covered
<1>. QED  BY <1>5, <1>6, <1>7 DEF Inv

\* A crash leaves no session.
LEMMA CrashKeeps ==
    ASSUME Inv, [Next]_vars, Crash
    PROVE  Inv'
<1>1. /\ UNCHANGED <<feed, now, late, behind, rows, meta>>
      /\ pc' = [r \in Runs |-> "idle"] /\ run' = [r \in Runs |-> NoSession]
  BY DEF Crash, provider, tables
<1>2. TypeOK /\ Fits("idle", NoSession)
  BY NoSessionFits DEF Inv, TypeInv, Polling
<1>3. TypeInv'
  BY <1>1, <1>2, OtherTypes, NoSessionType DEF TypeInv, TypeOK, Fits
<1>4. KnownInv'
  <2>1. \A q \in Runs : Known(run[q])'
    BY <1>1, <1>2 DEF Fits, Known
  <2>. QED  BY <1>1, <2>1, NoSessionType DEF Inv, KnownInv, Cursor
<1>5. ReachInv'
  <2>1. \A q \in Runs : Reached(pc[q], run[q])'
    BY <1>1, NoSessionType DEF Reached, Polling
  <2>. QED  BY <1>1, <2>1 DEF Inv, ReachInv, NewEventCovered, Covered, Cursor
<1>. QED  BY <1>3, <1>4, <1>5 DEF Inv

\* What changes when a change is listed.
LEMMA ChangeEffects ==
    ASSUME Inv, NEW e \in Events, Publishes(e)
    PROVE  /\ TypeOK /\ now' \in Time /\ now' \in Int /\ now <= now'
           /\ feed' \in [Events -> Time]
           /\ feed[e] < feed'[e] /\ feed'[e] <= now' /\ feed'[e] \in Int
           /\ \A f \in Events \ {e} : feed'[f] = feed[f] /\ feed[f] # feed'[e]
           /\ late' \in SUBSET Events /\ behind' \in SUBSET late'
           /\ \A f \in Events \ {e} : /\ f \in late' <=> f \in late
                                      /\ f \in behind' <=> f \in behind
           /\ UNCHANGED <<rows, meta, pc, run>>
           /\ \/ now < feed'[e] /\ e \notin late'
              \/ /\ e \in late'
                 /\ \/ e \in behind'
                    \/ /\ DayStart(now) <= feed'[e]
                       /\ \A q \in Runs : pc[q] \notin Polling
<1>1. /\ TypeOK /\ now \in Time /\ now \in Int /\ feed \in [Events -> Time]
      /\ late \in SUBSET Events /\ behind \in SUBSET late
      /\ \A f \in Events : feed[f] \in Int /\ feed[f] <= now
  BY Numbers DEF Inv, TypeInv, TypeOK, KnownInv
<1>2. CASE EventChanges(e)
  <2>1. /\ now' \in now + 1 .. MaxTime /\ feed' = [feed EXCEPT ![e] = now']
        /\ late' = late \ {e} /\ behind' = behind \ {e}
        /\ UNCHANGED <<rows, meta, pc, run>>
    BY <1>2 DEF EventChanges, tables
  <2>2. now' \in Time /\ now' \in Int /\ now < now'
    BY <1>1, <2>1, BoundsNat DEF Time
  <2>. QED  BY <1>1, <2>1, <2>2
<1>3. CASE LateChange(e)
  <2>1. PICK t \in feed[e] + 1 .. now :
          /\ SameDay(t, now) /\ \A f \in Events : feed[f] # t
          /\ feed' = [feed EXCEPT ![e] = t]
    BY <1>3 DEF LateChange
  <2>2. /\ late' = late \cup {e}
        /\ behind' = IF Reading THEN behind \cup {e} ELSE behind \ {e}
        /\ UNCHANGED <<now, rows, meta, pc, run>>
    BY <1>3 DEF LateChange, tables
  <2>3. t \in Time /\ t \in Int /\ feed[e] < t /\ t <= now
    BY <1>1, <2>1, BoundsNat DEF Time
  <2>4. DayStart(now) <= t
    BY <1>1, <2>1, <2>3, SameDayStarts
  <2>5. e \in behind' \/ \A q \in Runs : pc[q] \notin Polling
    BY <2>2 DEF Reading, Polling
  <2>6. feed'[e] = t /\ \A f \in Events \ {e} : feed'[f] = feed[f]
    BY <1>1, <2>1
  <2>7. feed' \in [Events -> Time]
    BY <1>1, <2>1, <2>3
  <2>8. /\ late' \in SUBSET Events /\ behind' \in SUBSET late' /\ e \in late'
        /\ \A f \in Events \ {e} : /\ f \in late' <=> f \in late
                                   /\ f \in behind' <=> f \in behind
    BY <1>1, <2>2
  <2>9. now' = now
    BY <2>2
  <2>. QED  BY <1>1, <2>1, <2>2, <2>3, <2>4, <2>5, <2>6, <2>7, <2>8, <2>9
<1>. QED  BY <1>2, <1>3 DEF Publishes

\* A change that is the last of the order is ahead of every poll.
LEMMA ChangeAhead ==
    ASSUME Inv, NEW e \in Events, Publishes(e), NEW q \in Runs
    PROVE  /\ now < feed'[e] => Ahead(run[q], e)'
           /\ \A f \in Events \ {e} : Ahead(run[q], f)' <=> Ahead(run[q], f)
<1>. DEFINE s == run[q]
<1>1. /\ TypeOK /\ feed'[e] \in Int
      /\ \A f \in Events \ {e} : feed'[f] = feed[f]
      /\ UNCHANGED run
  BY ChangeEffects
<1>2. /\ now \in Int /\ \A f \in Events : feed[f] \in Int /\ feed[f] <= now
  BY <1>1, Numbers DEF Inv, KnownInv
<1>3. s \in Session /\ Known(s) /\ run'[q] = s
  BY <1>1, RunFacts DEF Fits
<1>. HIDE DEF s
<1>4. /\ s.latest \in Int /\ (s.next # None => s.next \in Int)
      /\ DayStart(s.latest) \in Int /\ DayStart(s.latest) <= s.latest
      /\ \A x \in Pending(s) : x[1] \in Events /\ x[2] \in Int
  BY <1>1, <1>3, Numbers
<1>5. ASSUME now < feed'[e]
      PROVE  /\ feed'[e] >= DayStart(s.latest)
             /\ \A x \in Pending(s) : feed'[e] >= x[2]
             /\ s.next # None => feed'[e] >= s.next
  <2>. DEFINE v == feed'[e]
  <2>1. v \in Int /\ now < v
    BY <1>1, <1>5
  <2>. HIDE DEF v
  <2>2. v >= DayStart(s.latest) /\ (s.next # None => v >= s.next)
    BY <1>2, <1>3, <1>4, <2>1 DEF Known
  <2>3. \A x \in Pending(s) : v >= x[2]
    BY <1>2, <1>3, <1>4, <2>1 DEF Known
  <2>. QED  BY <2>2, <2>3 DEF v
<1>. QED  BY <1>1, <1>3, <1>5 DEF Ahead, s

\* A change that is listed, and not behind a page, is of the cursor's day or of
\* a later one; if it is the last of the order it is later than the cursor.
LEMMA ChangeCovered ==
    ASSUME Inv, NEW e \in Events, Publishes(e)
    PROVE  /\ e \in behind' \/ feed'[e] >= DayStart(Cursor)
           /\ e \in late' \/ feed'[e] >= Cursor
<1>1. /\ Cursor \in Time /\ Cursor \in Int /\ now \in Time /\ now \in Int
      /\ Cursor <= now /\ feed'[e] \in Int
      /\ DayStart(Cursor) \in Int /\ DayStart(Cursor) <= Cursor
      /\ DayStart(now) \in Int
  <2>1. now \in Time /\ TypeOK
    BY DEF Inv, TypeInv, TypeOK
  <2>2. DayStart(now) \in Int
    BY <2>1, DayStarts, BoundsNat DEF Time
  <2>. QED  BY <2>1, <2>2, Numbers, ChangeEffects DEF Inv, KnownInv
<1>2. DayStart(Cursor) <= DayStart(now)
  BY <1>1, DaysAreOrdered
<1>. QED  BY <1>1, <1>2, ChangeEffects

\* A change that is listed is ahead of the cursor too, or of its day.
LEMMA ChangeKeeps ==
    ASSUME Inv, [Next]_vars, NEW e \in Events, Publishes(e)
    PROVE  Inv'
<1>1. /\ TypeOK /\ now' \in Int /\ now <= now' /\ now' \in Time
      /\ feed' \in [Events -> Time]
      /\ feed[e] < feed'[e] /\ feed'[e] <= now' /\ feed'[e] \in Int
      /\ \A f \in Events \ {e} : feed'[f] = feed[f] /\ feed[f] # feed'[e]
      /\ late' \in SUBSET Events /\ behind' \in SUBSET late'
      /\ \A f \in Events \ {e} : f \in behind' <=> f \in behind
      /\ UNCHANGED <<rows, meta, pc, run>>
  BY ChangeEffects
<1>2. /\ now \in Int /\ now >= 0 /\ Cursor <= now /\ Cursor \in Int
      /\ DayStart(Cursor) \in Int /\ DayStart(Cursor) <= Cursor
      /\ \A f \in Events : /\ feed[f] \in Int /\ feed[f] >= 0 /\ feed[f] <= now
                           /\ rows[f] \in Int /\ rows[f] <= feed[f]
                           /\ feed'[f] \in Int /\ feed'[f] >= feed[f]
  BY <1>1, Numbers DEF Inv, KnownInv
<1>3. ASSUME NEW q \in Runs  PROVE Known(run[q])'
  <2>. DEFINE s == run[q]
  <2>1. s \in Session /\ Known(s) /\ run'[q] = s
    BY <1>1, RunFacts DEF Fits
  <2>. HIDE DEF s
  <2>2. /\ s.latest \in Int /\ (s.next # None => s.next \in Int)
        /\ \A f \in Events : s.session[f] \in Int
        /\ \A x \in Pending(s) : x[1] \in Events /\ x[2] \in Int
    BY <1>1, <2>1, Numbers
  <2>3. s.latest <= now' /\ (s.next # None => s.next <= now' + 1)
    BY <1>1, <1>2, <2>1, <2>2 DEF Known
  <2>4. \A f \in Events : s.session[f] <= feed'[f]
    BY <1>2, <2>1, <2>2 DEF Known
  <2>5. \A x \in Pending(s) : 0 < x[2] /\ x[2] <= feed'[x[1]]
    BY <1>2, <2>1, <2>2 DEF Known
  <2>. QED  BY <2>1, <2>3, <2>4, <2>5 DEF Known, s
<1>4. ASSUME NEW q \in Runs  PROVE Reached(pc[q], run[q])'
  <2>1. Reached(pc[q], run[q]) /\ UNCHANGED <<pc, run, rows>>
    BY <1>1, RunFacts DEF Fits
  <2>2. /\ \A f \in Events \ {e} : feed'[f] = feed[f] /\ (f \in behind' <=> f \in behind)
        /\ \A f \in Events \ {e} : Ahead(run[q], f) => Ahead(run[q], f)'
    BY <1>1, ChangeAhead
  <2>3. Ahead(run[q], e)' \/ e \in behind' \/ pc[q] \notin Polling
    BY ChangeEffects, ChangeAhead
  <2>. QED  BY <2>1, <2>2, <2>3 DEF Reached
<1>5. TypeInv'
  BY <1>1, OtherTypes DEF Inv, TypeInv, TypeOK
<1>6. KnownInv'
  <2>1. \A f, g \in Events : feed'[f] = feed'[g] /\ feed'[f] # 0 => f = g
    BY <1>1, <1>2 DEF Inv, KnownInv
  <2>2. \A f \in Events : feed'[f] <= now' /\ rows[f] <= feed'[f]
    BY <1>1, <1>2
  <2>3. Cursor' = Cursor /\ Cursor' <= now'
    BY <1>1, <1>2 DEF Cursor
  <2>. QED  BY <1>1, <1>3, <2>1, <2>2, <2>3 DEF Inv, KnownInv
<1>7. ReachInv'
  <2>1. Cursor' = Cursor /\ (e \in behind' \/ feed'[e] >= DayStart(Cursor))
    BY <1>1, ChangeCovered DEF Cursor
  <2>2. NewEventCovered'
    BY <1>1, <2>1 DEF Inv, ReachInv, NewEventCovered, Covered
  <2>. QED  BY <1>4, <2>2 DEF ReachInv
<1>. QED  BY <1>5, <1>6, <1>7 DEF Inv

\* With nothing stored and nothing at the provider the invariant holds.
LEMMA InvInit == Init => Inv
<1>. SUFFICES ASSUME Init  PROVE Inv
  OBVIOUS
<1>1. TypeOK
  <2>1. 0 \in Time /\ 0 \in 0 .. MaxTroubles
    BY BoundsNat DEF Time
  <2>2. pc \in [Runs -> Working \cup Marking \cup {"idle"}] /\ run \in [Runs -> Session]
    BY NoSessionType DEF Init
  <2>. QED  BY <2>1, <2>2 DEF Init, TypeOK
<1>2. \A r \in Runs : pc[r] = "idle" /\ run[r] = NoSession
  BY DEF Init
<1>3. Fits("idle", NoSession)
  BY <1>1, NoSessionFits DEF Polling
<1>4. /\ now = 0 /\ Cursor = 0
      /\ \A e \in Events : feed[e] = 0 /\ rows[e] = 0
  BY DEF Init, Cursor
<1>. QED
  BY <1>1, <1>2, <1>3, <1>4, NoSessionType
  DEF Inv, TypeInv, KnownInv, ReachInv, Fits, NewEventCovered

\* Every step keeps the invariant.
LEMMA InvStep == Inv /\ [Next]_vars => Inv'
<1>. SUFFICES ASSUME Inv, [Next]_vars  PROVE Inv'
  OBVIOUS
<1>1. CASE Quiet /\ UNCHANGED <<pc, run>>
  <2>1. UNCHANGED <<feed, now, late, behind, rows, meta, pc, run>>
    BY <1>1 DEF Quiet, provider, tables
  <2>2. TypeInv'
    BY <2>1, OtherTypes DEF Inv, TypeInv, TypeOK
  <2>3. KnownInv' /\ ReachInv'
    BY <2>1 DEF Inv, KnownInv, Known, ReachInv, Reached, Ahead, NewEventCovered, Covered,
                Cursor
  <2>. QED  BY <2>2, <2>3 DEF Inv
<1>2. ASSUME NEW r \in Runs,
             \/ Quiet /\ (Drops(r) \/ Opens(r))
             \/ GetPage(r) \/ EmptyPage(r) \/ Merge(r) \/ Flush(r)
             \/ Commit(r) \/ MarkFailed(r)
      PROVE  Inv'
  BY <1>2, DropKeeps, OpensKeeps, FetchKeeps, MergeKeeps, FlushKeeps, CommitKeeps,
     MarkKeeps
<1>. QED  BY <1>1, <1>2, Steps, CrashKeeps, ChangeKeeps DEF Inv

\* The invariant holds at all times.
LEMMA Invariant == Spec => []Inv
BY InvInit, InvStep, PTL DEF Spec

\* Tables, sessions and positions keep their types.
THEOREM TypeCorrect == Spec => []TypeOK
BY Invariant, PTL DEF Inv, TypeInv

\* Whatever runs overlap, fail and race, an event that was never stored is
\* listed by the next poll.
THEOREM NewEventsAreListed == Spec => []NewEventCovered
BY Invariant, PTL DEF Inv, ReachInv

-----------------------------------------------------------------------------
(* Runs that do not overlap.                                               *)

\* The poll has yet to come to the event, which changed no earlier than what
\* the session has merged, or became visible late.
Later(s, e) == Ahead(s, e) /\ (e \notin late => feed[e] >= s.latest)

\* What a run relies on while it is the only one: the row of sync_meta is as
\* it loaded it, and what it has or will have of an event is no older than the
\* table, and as the provider has it or still to come.
Current(p, s) ==
    /\ s.loaded # None => meta \in {s.loaded, None}
    /\ p \in {"insert", "mark_insert"} => meta = None
    /\ \A e \in Events : Final(s, e) >= rows[e]
    /\ \A e \in Events :
          s.session[e] # 0 => s.session[e] = rows[e] \/ Writes(s, e)
    /\ s.dirty # None /\ s.dirty.new => rows[s.dirty.event] = 0
    /\ \A x \in Pending(s) : x[2] >= Final(s, x[1])
    /\ p \in Polling =>
         \A e \in Events \ behind : feed[e] # 0 =>
             \/ Final(s, e) = feed[e]
             \/ <<e, feed[e]>> \in Pending(s)
             \/ Later(s, e)

Alone == \A q, r \in Runs : pc[q] # "idle" /\ pc[r] # "idle" => q = r

AllStored ==
    \A e \in Events \ behind : rows[e] # feed[e] =>
        feed[e] >= DayStart(Cursor) /\ (e \notin late => feed[e] >= Cursor)

SoloInv ==
    ~ overlapped => Alone /\ AllStored /\ \A r \in Runs : Current(pc[r], run[r])

\* Runs that have not overlapped are one at a time.
LEMMA AloneStep ==
    ASSUME TypeOK, Alone, ~ overlapped, [Next]_vars, ~ overlapped'
    PROVE  Alone'
<1>0. pc \in [Runs -> Working \cup Marking \cup {"idle"}]
  BY DEF TypeOK
<1>1. ASSUME NEW r \in Runs, Begin(r)
      PROVE  Alone'
  <2>1. pc' = [pc EXCEPT ![r] = "meta"] /\ \A q \in Runs : pc[q] = "idle"
    BY <1>1 DEF Begin, Goto
  <2>. QED  BY <1>0, <2>1 DEF Alone
<1>2. ASSUME NEW r \in Runs, Step(r) \/ RunFails(r) \/ EmptyPage(r)
      PROVE  Alone'
  <2>1. pc[r] # "idle"
    BY <1>2 DEF Step, RunFails, EmptyPage, GetMeta, InsertMeta, GetPage, Merge, Flush,
                DeadlockDetected, Commit, End, MarkFailed, Working, Marking
  <2>2. \/ UNCHANGED pc
        \/ \E p : pc' = [pc EXCEPT ![r] = p]
    BY <1>2 DEF Step, RunFails, EmptyPage, GetMeta, InsertMeta, GetPage, Merge, Flush,
                DeadlockDetected, Commit, End, MarkFailed, Goto, Fail, MetaLoaded
  <2>. QED  BY <1>0, <2>1, <2>2 DEF Alone
<1>3. CASE StatusRead \/ StatusFails \/ Crash \/ UNCHANGED vars
           \/ \E e \in Events : Publishes(e)
  <2>1. UNCHANGED pc \/ pc' = [r \in Runs |-> "idle"]
    BY <1>3 DEF StatusRead, StatusAsked, StatusInserts, StatusAnswered, StatusFails,
                statusUnchanged, Crash, Publishes, EventChanges, LateChange, vars
  <2>. QED  BY <2>1 DEF Alone
<1>. QED  BY <1>1, <1>2, <1>3 DEF Next, Publishes

\* A run without a session relies on nothing but the table.
LEMMA NoSessionCurrent ==
    ASSUME TypeOK, NEW p, p \notin Polling, p \in {"insert", "mark_insert"} => meta = None
    PROVE  Current(p, NoSession)
BY NoSessionType, Numbers DEF Current, Final

\* What is merged next is older than what is later, too.
LEMMA MergeLater ==
    ASSUME TypeOK, NEW s \in Session, NEW u, NEW e \in Events, NEW v \in Time,
           Merged(s, u, e, v), NEW f \in Events, Later(s, f)
    PROVE  Later(u, f)
<1>1. Ahead(u, f)
  BY MergeAhead DEF Later
<1>2. <<e, v>> \in Pending(s) /\ u.latest \in {s.latest, v}
  BY DEF Merged
<1>3. feed[f] >= v
  BY <1>2 DEF Later, Ahead
<1>. QED  BY <1>1, <1>2, <1>3 DEF Later

\* What is known of run r while runs do not overlap.
LEMMA SoloFacts ==
    ASSUME Inv, SoloInv, ~ overlapped, NEW r \in Runs
    PROVE  /\ run[r] \in Session /\ TypeOK
           /\ Phase(pc[r], run[r]) /\ Known(run[r]) /\ Current(pc[r], run[r])
           /\ \A e \in Events : Final(run[r], e) \in Int /\ Final(run[r], e) <= feed[e]
<1>1. run[r] \in Session /\ TypeOK /\ Fits(pc[r], run[r])
  BY RunFacts
<1>2. \A e \in Events : Final(run[r], e) \in Int /\ Final(run[r], e) <= feed[e]
  BY <1>1, Numbers DEF Final, Fits, Known, Inv, KnownInv
<1>. QED  BY <1>1, <1>2 DEF Fits, SoloInv

\* A step that moves one run keeps what single runs rely on.
LEMMA SoloMove ==
    ASSUME Inv, SoloInv, [Next]_vars, ~ overlapped, ~ overlapped', Quiet,
           NEW r \in Runs, NEW p, NEW u, Moves(r, p, u), Current(p, u)
    PROVE  SoloInv'
<1>1. UNCHANGED <<feed, now, late, behind, rows, meta>>
  BY DEF Quiet, provider, tables
<1>2. Alone'
  BY AloneStep DEF Inv, TypeInv, SoloInv
<1>3. \A q \in Runs : Current(pc'[q], run'[q])
  BY DEF Moves, SoloInv
<1>4. \A q \in Runs : Current(pc[q], run[q])'
  BY <1>1, <1>3 DEF Current, Later, Ahead, Final
<1>. QED  BY <1>1, <1>2, <1>4 DEF SoloInv, AllStored, Cursor

\* Opening a session: what the table lacks is ahead, as the cursor covers it.
LEMMA SoloOpens ==
    ASSUME Inv, SoloInv, [Next]_vars, ~ overlapped, ~ overlapped', NEW r \in Runs,
           Quiet, Opens(r)
    PROVE  SoloInv'
<1>1. PICK row \in SyncMeta, u \in Session, p \in {"page", "mark_commit"} :
        /\ Moves(r, p, u)
        /\ row = IF meta = None THEN NewMeta ELSE meta
        /\ u.loaded = row /\ u.latest = row.last_changed_at
        /\ u.next = IF p = "page" THEN DayStart(row.last_changed_at) ELSE None
        /\ u.buffer = <<>> /\ u.locked = {} /\ u.dirty = None
        /\ u.session = [e \in Events |-> 0]
  BY DEF Opens
<1>2. row.last_changed_at = Cursor
  BY <1>1 DEF Cursor, NewMeta
<1>3. /\ TypeOK /\ Pending(u) = {}
      /\ \A e \in Events : rows[e] \in Int /\ Final(u, e) = rows[e]
  BY <1>1, PendingTypes, Numbers DEF Inv, TypeInv, Final
<1>4. \A e \in Events \ behind :
        \/ rows[e] = feed[e]
        \/ feed[e] >= DayStart(Cursor) /\ (e \notin late => feed[e] >= Cursor)
  BY <1>3, Numbers DEF SoloInv, AllStored
<1>5. Current(p, u)
  BY <1>1, <1>2, <1>3, <1>4 DEF Current, Later, Ahead, Polling
<1>. QED  BY <1>1, <1>5, SoloMove

\* A fetched page brings the events as they are now.
LEMMA SoloFetch ==
    ASSUME Inv, SoloInv, [Next]_vars, ~ overlapped, ~ overlapped', NEW r \in Runs,
           GetPage(r)
    PROVE  SoloInv'
<1>. DEFINE s == run[r]
<1>1. /\ pc[r] = "page" /\ s.next \in 0 .. MaxTime + 1 /\ Quiet /\ s \in Session
      /\ Phase("page", s) /\ Current("page", s) /\ TypeOK
      /\ \A e \in Events : Final(s, e) \in Int /\ Final(s, e) <= feed[e]
  BY FetchStep, SoloFacts DEF Inv
<1>2. PICK p \in {"merge", "commit"}, u \in Session :
        Moves(r, p, u) /\ Fetched(s, u) /\ (p = "merge" <=> u.buffer # <<>>)
  BY FetchStep DEF Inv
<1>. HIDE DEF s
<1>3. s.next # None /\ Pending(s) = {}
  BY <1>1, PendingTypes DEF Phase
<1>4. \A e \in Events : /\ Final(u, e) = Final(s, e)
                        /\ Writes(u, e) <=> Writes(s, e)
  BY <1>2 DEF Final, Writes, Fetched
<1>5. \A x \in Pending(u) : x[2] >= Final(u, x[1])
  BY <1>1, <1>2, <1>4 DEF Fetched, Matching
<1>6. ASSUME NEW e \in Events \ behind, feed[e] # 0
      PROVE  \/ Final(u, e) = feed[e]
             \/ <<e, feed[e]>> \in Pending(u)
             \/ Later(u, e)
  BY <1>1, <1>2, <1>3, <1>4, <1>6, FetchAhead DEF Current, Later, Fetched, Polling
<1>7. Current(p, u)
  BY <1>1, <1>2, <1>4, <1>5, <1>6 DEF Current, Fetched
<1>. QED  BY <1>1, <1>2, <1>7, SoloMove

\* Merging replaces what the session has by something no older.
LEMMA SoloMerge ==
    ASSUME Inv, SoloInv, [Next]_vars, ~ overlapped, ~ overlapped', NEW r \in Runs,
           Merge(r)
    PROVE  SoloInv'
<1>. DEFINE s == run[r]
<1>1. /\ pc[r] = "merge" /\ Quiet /\ s \in Session
      /\ Known(s) /\ Current("merge", s) /\ TypeOK
      /\ \A f \in Events : Final(s, f) \in Int /\ Final(s, f) <= feed[f]
  BY MergeStep, SoloFacts DEF Inv
<1>2. PICK p \in Polling, u \in Session, e \in Events, v \in Time :
        Moves(r, p, u) /\ Merged(s, u, e, v)
  BY MergeStep DEF Inv
<1>. HIDE DEF s
<1>3. /\ <<e, v>> \in Pending(s) /\ Pending(u) \subseteq Pending(s)
      /\ Pending(s) = {<<e, v>>} \cup Pending(u)
  BY <1>2 DEF Merged
<1>4. /\ v \in Int /\ 0 < v /\ v <= feed[e] /\ v >= Final(s, e)
      /\ \A f \in Events : feed[f] \in Int /\ rows[f] \in Int
  BY <1>1, <1>3, Numbers DEF Known, Current
<1>5. \A f \in Events : u.session[f] = IF f = e THEN v ELSE s.session[f]
  <2>1. s.session \in [Events -> Time]
    BY <1>1 DEF Session
  <2>. QED  BY <1>2, <2>1 DEF Merged
<1>6. \A f \in Events : Final(u, f) = IF f = e THEN v ELSE Final(s, f)
  BY <1>4, <1>5 DEF Final
<1>7. \A f \in Events : Writes(s, f) => Writes(u, f)
  BY <1>2 DEF Writes, Merged
<1>8. \A f \in Events : Final(u, f) >= rows[f]
  BY <1>1, <1>4, <1>6 DEF Current
<1>9. ASSUME NEW f \in Events, u.session[f] # 0
      PROVE  u.session[f] = rows[f] \/ Writes(u, f)
  <2>1. CASE f # e
    BY <1>1, <1>5, <1>7, <1>9, <2>1 DEF Current
  <2>2. CASE f = e /\ Final(s, e) # v
    BY <1>2, <2>2 DEF Merged, Writes
  <2>3. CASE f = e /\ Final(s, e) = v
    BY <1>1, <1>5, <1>7, <2>3 DEF Current, Final
  <2>. QED  BY <2>1, <2>2, <2>3
<1>10. ASSUME NEW x \in Pending(u)  PROVE x[2] >= Final(u, x[1])
  <2>1. x \in Pending(s) /\ x[1] \in Events
    BY <1>1, <1>3, PendingTypes
  <2>2. CASE x[1] = e
    <3>1. x = <<e, v>>
      BY <1>1, <1>3, <2>1, <2>2 DEF Known
    <3>. QED  BY <1>4, <1>6, <3>1
  <2>3. CASE x[1] # e
    BY <1>1, <1>6, <2>1, <2>3 DEF Current
  <2>. QED  BY <2>2, <2>3
<1>11. ASSUME NEW f \in Events \ behind, feed[f] # 0
       PROVE  \/ Final(u, f) = feed[f]
              \/ <<f, feed[f]>> \in Pending(u)
              \/ Later(u, f)
  <2>1. CASE Final(s, f) = feed[f]
    BY <1>1, <1>4, <1>6, <2>1
  <2>2. CASE <<f, feed[f]>> \in Pending(s)
    <3>1. <<f, feed[f]>> \in Pending(u) \/ (f = e /\ feed[f] = v)
      BY <1>3, <2>2
    <3>. QED  BY <1>6, <3>1
  <2>3. CASE Later(s, f)
    BY <1>1, <1>2, <2>3, MergeLater
  <2>. QED  BY <1>1, <1>11, <2>1, <2>2, <2>3 DEF Current, Polling
<1>12. Current(p, u)
  <2>1. /\ u.loaded # None => meta \in {u.loaded, None}
        /\ p \notin {"insert", "mark_insert"}
    BY <1>1, <1>2 DEF Current, Merged, Polling
  <2>2. u.dirty # None /\ u.dirty.new => rows[u.dirty.event] = 0
    <3>1. Final(s, e) = 0 => rows[e] = 0
      BY <1>1 DEF Final
    <3>2. u.dirty # None => u.dirty.event = e
      BY <1>2 DEF Merged
    <3>. QED  BY <1>2, <3>1, <3>2 DEF Merged
  <2>. QED  BY <2>1, <2>2, <1>8, <1>9, <1>10, <1>11 DEF Current
<1>. QED  BY <1>1, <1>2, <1>12, SoloMove

\* A flush, an early end of the paging and a session given up change nothing
\* of what the run has or will have.
LEMMA SoloOther ==
    ASSUME Inv, SoloInv, [Next]_vars, ~ overlapped, ~ overlapped', NEW r \in Runs,
           (Quiet /\ Drops(r)) \/ EmptyPage(r) \/ Flush(r)
    PROVE  SoloInv'
<1>1. CASE Quiet /\ Drops(r)
  <2>1. PICK p \in (Working \cup Marking \cup {"idle"}) \ (Polling \cup {"mark_commit"}) :
          Moves(r, p, NoSession) /\ (p \in {"insert", "mark_insert"} => meta = None)
    BY <1>1 DEF Drops
  <2>2. Current(p, NoSession)
    BY <2>1, NoSessionCurrent DEF Inv, TypeInv
  <2>. QED  BY <1>1, <2>1, <2>2, SoloMove
<1>2. CASE EmptyPage(r)
  <2>1. pc[r] = "page" /\ Quiet /\ Moves(r, "commit", run[r])
    BY <1>2, EmptyStep DEF Inv
  <2>2. Current("commit", run[r])
    BY <2>1, SoloFacts DEF Current, Polling
  <2>. QED  BY <2>1, <2>2, SoloMove
<1>3. CASE Flush(r)
  <2>1. Quiet /\ pc[r] \in {"merge", "commit"} /\ Current(pc[r], run[r])
    BY <1>3, FlushStep, SoloFacts DEF Inv
  <2>2. ASSUME NEW u \in Session, Moves(r, pc[r], u), Flushed(run[r], u)
        PROVE  SoloInv'
    <3>1. Pending(u) = Pending(run[r])
      BY <2>2 DEF Flushed, Pending
    <3>2. \A e \in Events : /\ Final(u, e) = Final(run[r], e)
                            /\ Writes(run[r], e) => Writes(u, e)
                            /\ Later(run[r], e) => Later(u, e)
      BY <2>2, <3>1 DEF Final, Writes, Later, Ahead, Flushed
    <3>. DEFINE s == run[r]
    <3>3. /\ TypeOK /\ Current(pc[r], s) /\ pc[r] \in {"merge", "commit"}
          /\ u.loaded = s.loaded /\ u.session = s.session
          /\ Pending(u) = Pending(s)
          /\ \A e \in Events : /\ Final(u, e) = Final(s, e)
                               /\ Writes(s, e) => Writes(u, e)
                               /\ Later(s, e) => Later(u, e)
      BY RunFacts, <2>1, <2>2, <3>1, <3>2 DEF Flushed
    <3>4. Pending(s) \subseteq Events \X Time
      BY RunFacts, PendingTypes
    <3>. HIDE DEF s
    <3>5. /\ u.loaded # None => meta \in {u.loaded, None}
          /\ pc[r] \in {"insert", "mark_insert"} => meta = None
          /\ \A e \in Events : Final(u, e) >= rows[e]
          /\ \A e \in Events :
                u.session[e] # 0 => u.session[e] = rows[e] \/ Writes(u, e)
          /\ u.dirty = None
      BY <2>2, <3>3 DEF Current, Flushed
    <3>6. \A x \in Pending(u) : x[2] >= Final(u, x[1])
      BY <3>3, <3>4 DEF Current
    <3>7. \A e \in Events \ behind : feed[e] # 0 =>
             \/ Final(u, e) = feed[e]
             \/ <<e, feed[e]>> \in Pending(u)
             \/ Later(u, e)
      BY <3>3 DEF Current, Polling
    <3>8. Current(pc[r], u)
      BY <3>5, <3>6, <3>7 DEF Current
    <3>. QED  BY <2>1, <2>2, <3>8, SoloMove
  <2>. QED  BY <1>1, <1>3, <2>1, <2>2, FlushStep DEF Inv
<1>. QED  BY <1>1, <1>2, <1>3

\* The commit of a single run: every row is as the session has it, and the
\* cursor is the latest change it has seen.
LEMMA SoloCommitEffects ==
    ASSUME Inv, SoloInv, [Next]_vars, ~ overlapped, NEW r \in Runs, Commit(r)
    PROVE  /\ UNCHANGED <<feed, now, late, behind>> /\ pc[r] = "commit"
           /\ \A e \in Events : rows'[e] = Final(run[r], e) /\ rows'[e] >= rows[e]
           /\ Cursor' = run[r].latest /\ Cursor' >= Cursor
           /\ meta'.sync_status = "ok"
<1>. DEFINE s == run[r]
<1>1. /\ pc[r] = "commit" /\ s.dirty = None /\ UNCHANGED <<feed, now, late, behind>>
      /\ \A e \in Events :
            rows'[e] = IF e \in s.locked THEN s.session[e] ELSE rows[e]
      /\ \/ Cursor' = s.latest
         \/ meta # None /\ Cursor' = Cursor /\ s.latest = s.loaded.last_changed_at
      /\ \/ meta'.sync_status = "ok"
         \/ /\ meta # None /\ meta'.sync_status = meta.sync_status
            /\ s.loaded.sync_status = "ok"
  BY CommitStep DEF Inv, provider
<1>2. /\ s \in Session /\ TypeOK
      /\ Phase("commit", s) /\ Known(s) /\ Current("commit", s)
  BY <1>1, SoloFacts
<1>. HIDE DEF s
<1>3. s.loaded # None /\ s.latest >= s.loaded.last_changed_at /\ meta \in {s.loaded, None}
  BY <1>2 DEF Phase, Polling, Current
<1>4. \A e \in Events : rows'[e] = Final(s, e) /\ rows'[e] >= rows[e]
  <2>. SUFFICES ASSUME NEW e \in Events
                PROVE  rows'[e] = Final(s, e) /\ Final(s, e) >= rows[e]
    OBVIOUS
  <2>1. Final(s, e) >= rows[e]
    BY <1>2 DEF Current
  <2>2. CASE e \in s.locked
    BY <1>1, <1>2, <2>1, <2>2 DEF Phase, Final
  <2>3. CASE e \notin s.locked
    BY <1>1, <1>2, <2>1, <2>3 DEF Current, Writes, Final
  <2>. QED  BY <2>2, <2>3
<1>5. Cursor' = s.latest /\ Cursor' >= Cursor
  <2>1. CASE meta = None
    BY <1>1, <1>2, <2>1, Numbers, BoundsNat DEF Cursor, Time
  <2>2. CASE meta # None
    <3>1. Cursor = s.loaded.last_changed_at
      BY <1>3, <2>2 DEF Cursor
    <3>. QED  BY <1>1, <1>3, <3>1
  <2>. QED  BY <2>1, <2>2
<1>6. meta'.sync_status = "ok"
  BY <1>1, <1>3
<1>. QED  BY <1>1, <1>4, <1>5, <1>6 DEF s

\* While a run is under way no other has a session.
LEMMA OthersIdle ==
    ASSUME Inv, SoloInv, ~ overlapped, NEW r \in Runs, pc[r] # "idle",
           NEW q \in Runs \ {r}
    PROVE  pc[q] = "idle" /\ run[q] = NoSession
BY RunFacts DEF SoloInv, Alone, Fits, Phase, Polling

\* After its commit the cursor covers what the table does not have.
LEMMA SoloCommit ==
    ASSUME Inv, SoloInv, [Next]_vars, ~ overlapped, ~ overlapped', NEW r \in Runs,
           Commit(r)
    PROVE  SoloInv'
<1>. DEFINE s == run[r]
<1>1. /\ pc[r] = "commit" /\ s.dirty = None /\ UNCHANGED <<feed, now, late, behind>>
      /\ \A e \in Events : rows'[e] = Final(s, e)
      /\ Cursor' = s.latest
      /\ Moves(r, "committed", NoSession)
  BY SoloCommitEffects, CommitStep DEF Inv
<1>2. /\ s \in Session /\ TypeOK /\ Phase("commit", s) /\ Current("commit", s)
      /\ Pending(s) = {}
      /\ \A e \in Events : Final(s, e) \in Int /\ Final(s, e) <= feed[e] /\ Final(s, e) >= 0
  <2>1. /\ s \in Session /\ TypeOK /\ Phase("commit", s) /\ Current("commit", s)
        /\ \A e \in Events : Final(s, e) \in Int /\ Final(s, e) <= feed[e]
    BY <1>1, SoloFacts
  <2>2. \A e \in Events : Final(s, e) >= 0
    BY <2>1, Numbers DEF Final
  <2>. QED  BY <2>1, <2>2, PendingTypes DEF Phase
<1>. HIDE DEF s
<1>3. \A e \in Events \ behind : rows'[e] # feed[e] =>
        feed[e] >= DayStart(Cursor') /\ (e \notin late => feed[e] >= Cursor')
  <2>. SUFFICES ASSUME NEW e \in Events \ behind, Final(s, e) # feed[e]
                PROVE  /\ feed[e] >= DayStart(s.latest)
                       /\ e \notin late => feed[e] >= s.latest
    BY <1>1
  <2>1. feed[e] # 0
    BY <1>2
  <2>. QED  BY <1>2, <2>1 DEF Current, Polling, Later, Ahead
<1>4. AllStored'
  BY <1>1, <1>3 DEF AllStored
<1>5. Alone'
  BY AloneStep DEF Inv, TypeInv, SoloInv
<1>6. TypeOK'
  BY InvStep DEF Inv, TypeInv
<1>7. \A q \in Runs : pc'[q] \in {"idle", "committed"} /\ run'[q] = NoSession
  BY <1>1, OthersIdle DEF Moves
<1>8. \A q \in Runs : Current(pc[q], run[q])'
  <2>. SUFFICES ASSUME NEW q \in Runs  PROVE Current(pc[q], run[q])'
    OBVIOUS
  <2>1. \A e \in Events : rows'[e] \in Int
    BY <1>1, <1>2
  <2>. QED  BY <1>7, <2>1, NoSessionType DEF Current, Final, Polling
<1>. QED  BY <1>4, <1>5, <1>8 DEF SoloInv

\* Nor do marking a failure and a crash move cursor or rows.
LEMMA SoloEnds ==
    ASSUME Inv, SoloInv, [Next]_vars, ~ overlapped, ~ overlapped',
           Crash \/ \E r \in Runs : MarkFailed(r)
    PROVE  SoloInv'
<1>1. /\ UNCHANGED <<feed, now, late, behind, rows>> /\ Cursor' = Cursor
      /\ \A q \in Runs : pc'[q] = "idle" /\ run'[q] = NoSession
  <2>1. CASE Crash
    BY <2>1 DEF Crash, provider, tables, Cursor
  <2>2. ASSUME NEW r \in Runs, MarkFailed(r)
        PROVE  /\ UNCHANGED <<feed, now, late, behind, rows>> /\ Cursor' = Cursor
               /\ \A q \in Runs : pc'[q] = "idle" /\ run'[q] = NoSession
    <3>1. /\ pc[r] # "idle" /\ Cursor' = Cursor
          /\ UNCHANGED <<feed, now, late, behind, rows>>
          /\ pc' = [pc EXCEPT ![r] = "idle"] /\ run' = [run EXCEPT ![r] = NoSession]
      BY <2>2, MarkStep DEF Inv, MarkFailed, provider, Goto, CloseSession
    <3>. QED  BY <3>1, OthersIdle DEF Inv, TypeInv, TypeOK
  <2>. QED  BY <2>1, <2>2
<1>2. Alone'
  BY AloneStep DEF Inv, TypeInv, SoloInv
<1>3. AllStored'
  BY <1>1 DEF SoloInv, AllStored
<1>4. \A e \in Events : rows'[e] \in Int
  BY <1>1, Numbers DEF Inv, TypeInv
<1>5. \A q \in Runs : Current(pc[q], run[q])'
  BY <1>1, <1>4, NoSessionType DEF Current, Final, Polling
<1>. QED  BY <1>2, <1>3, <1>5 DEF SoloInv

\* A change that is listed is ahead of the run and of the cursor, or no run reads.
LEMMA SoloChange ==
    ASSUME Inv, SoloInv, [Next]_vars, ~ overlapped, ~ overlapped',
           NEW e \in Events, Publishes(e)
    PROVE  SoloInv'
<1>1. /\ TypeOK /\ feed'[e] \in Int
      /\ \A f \in Events \ {e} : /\ feed'[f] = feed[f]
                                 /\ f \in late' <=> f \in late
                                 /\ f \in behind' <=> f \in behind
      /\ UNCHANGED <<rows, meta, pc, run>>
  BY ChangeEffects
<1>2. /\ Cursor' = Cursor
      /\ e \in behind' \/ feed'[e] >= DayStart(Cursor)
      /\ e \in late' \/ feed'[e] >= Cursor
  BY <1>1, ChangeCovered DEF Cursor
<1>3. AllStored'
  BY <1>1, <1>2 DEF SoloInv, AllStored
<1>4. Alone'
  BY <1>1 DEF SoloInv, Alone
<1>6. ASSUME NEW q \in Runs  PROVE Current(pc[q], run[q])'
  <2>1. Current(pc[q], run[q])
    BY DEF SoloInv
  <2>2. \A f \in Events : Final(run[q], f)' = Final(run[q], f)
    BY <1>1 DEF Final
  <2>3. /\ \A f \in Events \ {e} : Later(run[q], f) => Later(run[q], f)'
        /\ Later(run[q], e)' \/ e \in behind' \/ pc[q] \notin Polling
    <3>1. /\ \A f \in Events \ {e} : Ahead(run[q], f)' <=> Ahead(run[q], f)
          /\ now < feed'[e] => Ahead(run[q], e)'
      BY ChangeAhead
    <3>2. /\ run[q].latest \in Int /\ run[q].latest <= now /\ now \in Int
          /\ run'[q] = run[q]
      BY <1>1, RunFacts, Numbers DEF Fits, Known
    <3>3. now < feed'[e] \/ e \in behind' \/ pc[q] \notin Polling
      BY ChangeEffects
    <3>. QED  BY <1>1, <3>1, <3>2, <3>3 DEF Later
  <2>4. pc[q] \in Polling => \A f \in Events \ behind' : feed'[f] # 0 =>
           \/ Final(run[q], f) = feed'[f]
           \/ <<f, feed'[f]>> \in Pending(run[q])
           \/ Later(run[q], f)'
    BY <1>1, <2>1, <2>3 DEF Current
  <2>5. Pending(run[q]) \subseteq Events \X Time
    BY RunFacts, PendingTypes
  <2>6. /\ run'[q] = run[q] /\ pc'[q] = pc[q] /\ meta' = meta /\ rows' = rows
        /\ run[q]' = run[q] /\ pc[q]' = pc[q]
    BY <1>1
  <2>7. /\ Pending(run[q])' = Pending(run[q])
        /\ \A f \in Events : Writes(run[q], f)' <=> Writes(run[q], f)
    BY <2>6 DEF Pending, Writes
  <2>8. (\A x \in Pending(run[q]) : x[2] >= Final(run[q], x[1]))'
    BY <2>1, <2>2, <2>5, <2>7 DEF Current
  <2>. QED  BY <2>1, <2>2, <2>4, <2>6, <2>7, <2>8 DEF Current
<1>. QED  BY <1>3, <1>4, <1>6 DEF SoloInv

\* Every step keeps what single runs rely on.
LEMMA SoloStep == Inv /\ SoloInv /\ [Next]_vars => SoloInv'
<1>. SUFFICES ASSUME Inv, SoloInv, [Next]_vars, ~ overlapped'  PROVE SoloInv'
  BY DEF SoloInv
<1>1. ~ overlapped
  BY OtherTypes DEF Inv, TypeInv
<1>2. CASE Quiet /\ UNCHANGED <<pc, run>>
  BY <1>1, <1>2 DEF Quiet, provider, tables, SoloInv, Alone, AllStored, Cursor,
                    Current, Later, Ahead, Final
<1>3. ASSUME NEW r \in Runs,
             \/ Quiet /\ (Drops(r) \/ Opens(r))
             \/ GetPage(r) \/ EmptyPage(r) \/ Merge(r) \/ Flush(r)
             \/ Commit(r) \/ MarkFailed(r)
      PROVE  SoloInv'
  BY <1>1, <1>3, SoloOpens, SoloFetch, SoloMerge, SoloOther, SoloCommit, SoloEnds
<1>4. CASE Crash \/ \E e \in Events : Publishes(e)
  BY <1>1, <1>4, SoloEnds, SoloChange
<1>. QED  BY <1>2, <1>3, <1>4, Steps DEF Inv

\* Nothing runs at first, and table and provider agree.
LEMMA SoloInit == Init => SoloInv
<1>. SUFFICES ASSUME Init  PROVE SoloInv
  OBVIOUS
<1>1. TypeOK
  BY InvInit DEF Inv, TypeInv
<1>2. \A r \in Runs : pc[r] = "idle" /\ run[r] = NoSession /\ Current("idle", NoSession)
  BY <1>1, NoSessionCurrent DEF Init, Polling
<1>3. Alone /\ AllStored
  BY DEF Init, Alone, AllStored
<1>. QED  BY <1>2, <1>3 DEF SoloInv

\* What single runs rely on holds at all times.
LEMMA SoloInvariant == Spec => []SoloInv
BY SoloInit, SoloStep, Invariant, PTL DEF Spec

\* While no two runs overlap, the next poll lists every event of which the
\* table does not have the present data, whatever changes while pages are read
\* and wherever a run fails.
THEOREM CursorNeverAhead == Spec => []CursorCovers
<1>1. Inv /\ SoloInv => CursorCovers
  BY DEF SoloInv, AllStored, CursorCovers, Covered
<1>. QED  BY <1>1, Invariant, SoloInvariant, PTL

\* While no two runs overlap, all that changed before the cursor is stored as
\* the provider has it.
THEOREM CursorMeansStored == Spec => []StoredUpToCursor
<1>1. Inv /\ SoloInv => StoredUpToCursor
  BY DEF Inv, TypeInv, TypeOK, SoloInv, AllStored, StoredUpToCursor
<1>. QED  BY <1>1, Invariant, SoloInvariant, PTL

\* What a commit, a mark and every other step do to the tables.
LEMMA TableSteps ==
    ASSUME Inv, [Next]_vars
    PROVE  \/ \E r \in Runs : Commit(r)
           \/ UNCHANGED rows /\ Cursor' = Cursor
<1>1. CASE Quiet
  BY <1>1 DEF Quiet, tables, Cursor
<1>2. ASSUME NEW r \in Runs, GetPage(r) \/ EmptyPage(r) \/ Merge(r) \/ Flush(r)
      PROVE  Quiet
  BY <1>2 DEF GetPage, EmptyPage, Merge, Flush, Quiet
<1>3. CASE Crash \/ \E e \in Events : Publishes(e)
  BY <1>3 DEF Crash, Publishes, EventChanges, LateChange, tables, Cursor
<1>4. ASSUME NEW r \in Runs, MarkFailed(r)
      PROVE  UNCHANGED rows /\ Cursor' = Cursor
  BY <1>4, MarkStep DEF Inv
<1>. QED  BY <1>1, <1>2, <1>3, <1>4, Steps DEF Inv

\* Only its commit takes a run from commit to committed.
LEMMA CommittedByCommit ==
    ASSUME TypeOK, [Next]_vars, NEW r \in Runs, pc[r] = "commit", pc'[r] = "committed"
    PROVE  Commit(r)
<1>0. pc \in [Runs -> Working \cup Marking \cup {"idle"}]
  BY DEF TypeOK
<1>1. ASSUME NEW q \in Runs, NEW p, pc' = [pc EXCEPT ![q] = p]
      PROVE  q = r /\ p = "committed"
  BY <1>0, <1>1
<1>2. ASSUME NEW q \in Runs,
             \/ Begin(q) \/ GetMeta(q) \/ InsertMeta(q) \/ GetPage(q) \/ EmptyPage(q)
             \/ Merge(q) \/ Flush(q) \/ DeadlockDetected(q) \/ End(q) \/ MarkFailed(q)
             \/ RunFails(q)
      PROVE  FALSE
  <2>1. UNCHANGED pc \/ \E p : p # "committed" /\ pc' = [pc EXCEPT ![q] = p]
    BY <1>2 DEF Begin, GetMeta, InsertMeta, GetPage, EmptyPage, Merge, Flush, Continue,
                DeadlockDetected, End, MarkFailed, RunFails, Goto, Fail, MetaLoaded
  <2>. QED  BY <1>1, <2>1
<1>3. CASE \/ StatusRead \/ StatusFails \/ Crash \/ UNCHANGED vars
           \/ \E e \in Events : Publishes(e)
  <2>1. UNCHANGED pc \/ pc' = [q \in Runs |-> "idle"]
    BY <1>3 DEF StatusRead, StatusAsked, StatusInserts, StatusAnswered, StatusFails,
                statusUnchanged, Crash, Publishes, EventChanges, LateChange, vars
  <2>. QED  BY <2>1
<1>4. ASSUME NEW q \in Runs, Commit(q)  PROVE Commit(r)
  BY <1>1, <1>4 DEF Commit, Goto
<1>. QED  BY <1>2, <1>3, <1>4 DEF Next, Step, Publishes

\* Only its marking, or a failure, takes a run from mark_commit to idle.
LEMMA MarkedByMarking ==
    ASSUME TypeOK, [Next]_vars, NEW r \in Runs, pc[r] = "mark_commit", pc'[r] = "idle"
    PROVE  MarkFailed(r) \/ troubles' # troubles
<1>0. pc \in [Runs -> Working \cup Marking \cup {"idle"}] /\ troubles \in Int
  BY BoundsNat DEF TypeOK
<1>1. ASSUME NEW q \in Runs, NEW p, pc' = [pc EXCEPT ![q] = p]
      PROVE  q = r /\ p = "idle"
  BY <1>0, <1>1
<1>2. ASSUME NEW q \in Runs,
             \/ Begin(q) \/ GetMeta(q) \/ InsertMeta(q) \/ GetPage(q)
             \/ Merge(q) \/ Flush(q) \/ DeadlockDetected(q) \/ Commit(q) \/ End(q)
      PROVE  FALSE
  <2>1. \/ UNCHANGED pc
        \/ \E p : p # "idle" /\ pc' = [pc EXCEPT ![q] = p]
        \/ pc[q] # "mark_commit" /\ pc' = [pc EXCEPT ![q] = "idle"]
    BY <1>2 DEF Begin, GetMeta, InsertMeta, GetPage, Merge, Flush, Continue,
                DeadlockDetected, Commit, End, Goto, Fail, MetaLoaded
  <2>. QED  BY <1>1, <2>1
<1>3. CASE \/ StatusRead \/ UNCHANGED vars
           \/ \E e \in Events : EventChanges(e)
  <2>1. UNCHANGED pc
    BY <1>3 DEF StatusRead, StatusAsked, StatusInserts, StatusAnswered,
                statusUnchanged, EventChanges, vars
  <2>. QED  BY <2>1
<1>4. ASSUME NEW q \in Runs, MarkFailed(q)  PROVE MarkFailed(r)
  BY <1>1, <1>4 DEF MarkFailed, Goto
<1>5. ASSUME \/ StatusFails \/ Crash
             \/ \E q \in Runs : RunFails(q) \/ EmptyPage(q)
             \/ \E e \in Events : LateChange(e)
      PROVE  troubles' # troubles
  BY <1>0, <1>5 DEF StatusFails, Crash, RunFails, EmptyPage, LateChange, Trouble
<1>. QED  BY <1>2, <1>3, <1>4, <1>5 DEF Next, Step

\* A single run that records its failure leaves the status failed.
LEMMA SoloMarks ==
    ASSUME Inv, SoloInv, ~ overlapped, NEW r \in Runs, MarkFailed(r)
    PROVE  meta'.sync_status = "failed"
<1>1. /\ pc[r] = "mark_commit" /\ TypeInv
      /\ MetaWritten(r, run[r].loaded.last_changed_at, "failed")
  BY DEF MarkFailed, Inv
<1>2. run[r].loaded \in SyncMeta /\ run[r].loaded # None
  BY <1>1 DEF TypeInv, TypeOK, Phase, Session
<1>3. meta \in {run[r].loaded, None}
  BY <1>2, SoloFacts DEF Current
<1>4. run[r].loaded.last_changed_at \in Time /\ "failed" \in SyncStatus
  BY <1>2 DEF SyncMeta, SyncStatus
<1>5. IF meta # None /\ "failed" = run[r].loaded.sync_status
      THEN meta'.sync_status = meta.sync_status
      ELSE meta'.sync_status = "failed"
  BY <1>1, <1>2, <1>4, MetaIsWritten
<1>. QED  BY <1>3, <1>5

\* A run that no other overlaps neither clashes nor waits in a circle.
LEMMA NoClash ==
    ASSUME Inv, SoloInv, ~ overlapped, NEW r \in Runs
    PROVE  /\ ~ DeadlockDetected(r)
           /\ ~ (Flush(r) /\ Fail(r))
           /\ pc[r] \in {"insert", "mark_insert"} => meta = None
<1>1. /\ run[r] \in Session /\ TypeOK /\ Current(pc[r], run[r])
      /\ pc \in [Runs -> Working \cup Marking \cup {"idle"}]
  BY SoloFacts DEF TypeOK
<1>2. ASSUME DeadlockDetected(r)  PROVE FALSE
  <2>1. PICK q \in Runs \ {r} : WaitsFor(r, q)
    BY <1>2 DEF DeadlockDetected, WaitsFor
  <2>2. run[q].locked = {}
    BY <1>2, OthersIdle DEF DeadlockDetected, NoSession
  <2>. QED  BY <2>1, <2>2 DEF WaitsFor
<1>3. ASSUME Flush(r), Fail(r)  PROVE FALSE
  <2>1. pc[r] \in {"merge", "commit"} /\ pc'[r] = "mark"
    BY <1>1, <1>3 DEF Flush, Fail, Goto
  <2>2. run[r].dirty # None /\ run[r].dirty.new /\ rows[run[r].dirty.event] # 0
    BY <1>3, <2>1 DEF Flush
  <2>. QED  BY <1>1, <2>2 DEF Current
<1>. QED  BY <1>1, <1>2, <1>3 DEF Current

\* A run that no other overlaps gives up only when something has failed.
LEMMA GivenUp ==
    ASSUME Inv, SoloInv, ~ overlapped, [Next]_vars, NEW r \in Runs, GivesUp(r)
    PROVE  troubles' # troubles
<1>0. pc \in [Runs -> Working \cup Marking \cup {"idle"}] /\ troubles \in Int
  BY BoundsNat DEF Inv, TypeInv, TypeOK
<1>1. /\ pc'[r] \in {"mark", "idle"} /\ pc'[r] # pc[r]
      /\ pc'[r] = "idle" => pc[r] \in {"mark", "mark_insert"}
      /\ pc'[r] = "mark" => pc[r] \in Working
  BY DEF GivesUp, Working, Marking
<1>2. ASSUME NEW q \in Runs, NEW p, pc' = [pc EXCEPT ![q] = p]
      PROVE  q = r /\ p = pc'[r]
  BY <1>0, <1>1, <1>2
<1>3. ASSUME NEW q \in Runs,
             \/ Begin(q) \/ GetMeta(q) \/ GetPage(q) \/ EmptyPage(q)
             \/ Merge(q) \/ Commit(q) \/ End(q) \/ MarkFailed(q)
      PROVE  FALSE
  <2>1. \/ UNCHANGED pc
        \/ \E p : p \notin {"mark", "idle"} /\ pc' = [pc EXCEPT ![q] = p]
        \/ pc[q] \in {"committed", "mark_commit"} /\ pc' = [pc EXCEPT ![q] = "idle"]
    BY <1>3 DEF Begin, GetMeta, GetPage, EmptyPage, Merge, Continue, Commit, End,
                MarkFailed, Goto, MetaLoaded
  <2>. QED  BY <1>1, <1>2, <2>1
<1>4. ASSUME NEW q \in Runs, InsertMeta(q) \/ Flush(q) \/ DeadlockDetected(q)
      PROVE  FALSE
  <2>1. \/ UNCHANGED pc
        \/ \E p : p \notin {"mark", "idle"} /\ pc' = [pc EXCEPT ![q] = p]
    <3>1. CASE InsertMeta(q)
      BY <3>1, NoClash DEF InsertMeta, MetaLoaded, Goto
    <3>2. CASE Flush(q)
      BY <3>2, NoClash DEF Flush
    <3>. QED  BY <1>4, <3>1, <3>2, NoClash
  <2>. QED  BY <1>1, <1>2, <2>1
<1>5. CASE \/ StatusRead \/ UNCHANGED vars
           \/ \E e \in Events : Publishes(e)
  <2>1. UNCHANGED pc
    BY <1>5 DEF StatusRead, StatusAsked, StatusInserts, StatusAnswered,
                statusUnchanged, Publishes, EventChanges, LateChange, vars
  <2>. QED  BY <1>1, <2>1
<1>6. CASE StatusFails \/ Crash \/ \E q \in Runs : RunFails(q)
  BY <1>0, <1>6 DEF StatusFails, Crash, RunFails, Trouble
<1>. QED  BY <1>3, <1>4, <1>5, <1>6 DEF Next, Step, Publishes

\* What one step does while runs do not overlap.
LEMMA SoloActions ==
    ASSUME Inv, SoloInv, [Next]_vars
    PROVE  /\ \A r \in Runs : pc[r] = "commit" /\ pc'[r] = "committed"
                 => overlapped \/ meta'.sync_status = "ok"
           /\ \A r \in Runs : pc[r] = "mark_commit" /\ pc'[r] = "idle"
                 => \/ overlapped \/ troubles' # troubles
                    \/ meta'.sync_status = "failed"
           /\ overlapped' \/ /\ \A e \in Events : rows'[e] >= rows[e]
                             /\ Cursor' >= Cursor
           /\ \A r \in Runs : GivesUp(r) => overlapped \/ troubles' # troubles
<1>0. TypeOK
  BY DEF Inv, TypeInv
<1>1. ASSUME NEW r \in Runs, pc[r] = "commit", pc'[r] = "committed"
      PROVE  overlapped \/ meta'.sync_status = "ok"
  BY <1>0, <1>1, CommittedByCommit, SoloCommitEffects
<1>2. overlapped' \/ ((\A e \in Events : rows'[e] >= rows[e]) /\ Cursor' >= Cursor)
  <2>. SUFFICES ASSUME ~ overlapped'
                PROVE  (\A e \in Events : rows'[e] >= rows[e]) /\ Cursor' >= Cursor
    OBVIOUS
  <2>1. ~ overlapped
    BY <1>0, OtherTypes
  <2>2. ASSUME NEW r \in Runs, Commit(r)
        PROVE  (\A e \in Events : rows'[e] >= rows[e]) /\ Cursor' >= Cursor
    BY <2>1, <2>2, SoloCommitEffects
  <2>3. CASE UNCHANGED rows /\ Cursor' = Cursor
    BY <1>0, <2>3, Numbers
  <2>. QED  BY <2>2, <2>3, TableSteps
<1>3. ASSUME NEW r \in Runs, GivesUp(r)
      PROVE  overlapped \/ troubles' # troubles
  BY <1>3, GivenUp
<1>4. ASSUME NEW r \in Runs, pc[r] = "mark_commit", pc'[r] = "idle"
      PROVE  \/ overlapped \/ troubles' # troubles
             \/ meta'.sync_status = "failed"
  BY <1>0, <1>4, MarkedByMarking, SoloMarks
<1>. QED  BY <1>1, <1>2, <1>3, <1>4

\* A run that commits, and was alone, leaves the status ok, and one that records
\* its failure leaves it failed.
THEOREM OutcomesAreRecorded == Spec => OutcomeRecorded
<1>1. Inv /\ SoloInv /\ [Next]_vars =>
        [\A r \in Runs :
            /\ pc[r] = "commit" /\ pc'[r] = "committed"
                  => overlapped \/ meta'.sync_status = "ok"
            /\ pc[r] = "mark_commit" /\ pc'[r] = "idle"
                  => \/ overlapped \/ troubles' # troubles
                     \/ meta'.sync_status = "failed"]_vars
  BY SoloActions
<1>. QED  BY <1>1, Invariant, SoloInvariant, PTL DEF Spec, OutcomeRecorded

\* Single runs turn neither an event's data nor the cursor back.
THEOREM NothingGoesBack == Spec => NeverGoesBack
BY SoloActions, Invariant, SoloInvariant, PTL DEF Spec, NeverGoesBack

\* A run that no other overlaps fails only when a query, a request or the
\* process does: requests for the status, clashes and deadlocks never end it.
THEOREM LoneRunsSucceed == Spec => LoneRunSucceeds
BY SoloActions, Invariant, SoloInvariant, PTL DEF Spec, LoneRunSucceeds

-----------------------------------------------------------------------------
(* Without the manual trigger the two claims of the README that the code   *)
(* does not keep are kept: overlapping runs are all that stands in their   *)
(* way, not failures, crashes, requests for the status, or changes that    *)
(* come while pages are read or become visible between two runs.           *)

\* The loop never overlaps itself.
LEMMA LoopAlone ==
    ASSUME Runs = {Loop}
    PROVE  Spec => []~ overlapped
<1>1. Init => ~ overlapped
  BY DEF Init
<1>2. ~ overlapped /\ [Next]_vars => ~ overlapped'
  <2>. SUFFICES ASSUME ~ overlapped, [Next]_vars  PROVE ~ overlapped'
    OBVIOUS
  <2>1. ASSUME NEW r \in Runs, Begin(r)  PROVE ~ overlapped'
    BY <2>1 DEF Begin
  <2>2. ASSUME NEW r \in Runs, Step(r) \/ RunFails(r) \/ EmptyPage(r)
        PROVE  ~ overlapped'
    BY <2>2 DEF Step, RunFails, EmptyPage, GetMeta, InsertMeta, GetPage, Merge, Flush,
                DeadlockDetected, Commit, End, MarkFailed
  <2>3. CASE \/ StatusRead \/ StatusFails \/ Crash \/ UNCHANGED vars
             \/ \E e \in Events : Publishes(e)
    BY <2>3 DEF StatusRead, StatusAsked, StatusInserts, StatusAnswered, StatusFails,
                statusUnchanged, Crash, Publishes, EventChanges, LateChange, vars
  <2>. QED  BY <2>1, <2>2, <2>3 DEF Next, Publishes
<1>. QED  BY <1>1, <1>2, PTL DEF Spec

\* With the daily loop alone, the cursor never passes what is not stored.
THEOREM LoopCursorCovers ==
    ASSUME Runs = {Loop}
    PROVE  Spec => []CursorAlwaysCovers
<1>1. ~ overlapped /\ CursorCovers => CursorAlwaysCovers
  BY DEF CursorCovers, CursorAlwaysCovers
<1>. QED  BY <1>1, LoopAlone, CursorNeverAhead, PTL

\* With the daily loop alone, a run that ends well shows as "ok".
THEOREM LoopShowsOk ==
    ASSUME Runs = {Loop}
    PROVE  Spec => SuccessShowsOk
<1>1. Inv /\ SoloInv /\ ~ overlapped /\ [Next]_vars =>
        [\A r \in Runs : pc[r] = "commit" /\ pc'[r] = "committed"
            => meta'.sync_status = "ok"]_vars
  BY SoloActions
<1>. QED  BY <1>1, LoopAlone, Invariant, SoloInvariant, PTL DEF Spec, SuccessShowsOk

=============================================================================
