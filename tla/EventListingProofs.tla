-------------------------- MODULE EventListingProofs --------------------------
(***************************************************************************)
(* Theorems about EventListing, for any finite set of events, page size,   *)
(* date_from, range of times and number of synchronisations.               *)
(***************************************************************************)
EXTENDS EventListing, FiniteSetTheorems, SequenceTheorems, TLAPS

-----------------------------------------------------------------------------
(* Sets of events, and what a commit of the synchronisation may change.    *)

\* Sets of events can be counted, and smaller ones count less.
LEMMA Counting ==
    ASSUME NEW S \in SUBSET Events
    PROVE  /\ IsFiniteSet(S)
           /\ Cardinality(S) \in Nat
           /\ Cardinality(S) <= Cardinality(Events)
           /\ \A T \in SUBSET S : Cardinality(T) <= Cardinality(S)
<1>1. IsFiniteSet(S) /\ Cardinality(S) <= Cardinality(Events)
  BY EventsFinite, FS_Subset
<1>2. Cardinality(S) \in Nat /\ \A T \in SUBSET S : Cardinality(T) <= Cardinality(S)
  BY <1>1, FS_CardinalityType, FS_Subset
<1>. QED  BY <1>1, <1>2

\* A commit of the synchronisation leaves the walk alone and removes no row.
LEMMA CommitEffects ==
    ASSUME TypeOK, SyncCommits
    PROVE  /\ UNCHANGED <<request, walk>>
           /\ time' \in [Events -> EventTime]
           /\ disturbed \subseteq disturbed' /\ disturbed' \subseteq Disturbance
           /\ commits' \in 0 .. MaxCommits
           /\ \A e \in Events : time[e] # 0 => time'[e] # 0
           /\ "inserted" \notin disturbed' =>
                 \A e \in Events : InList(time'[e]) =>
                     InList(time[e]) /\ time'[e] >= time[e]
           /\ "postponed" \notin disturbed' =>
                 \A e \in Events : InList(time[e]) => time'[e] <= time[e]
           /\ "left" \notin disturbed' =>
                 \A e \in Events : InList(time[e]) => InList(time'[e])
           /\ "torn" \notin disturbed' => pc # "page"
           /\ "tied" \notin disturbed' => ~ Tied(time')
<1>1. PICK new \in [Events -> EventTime] :
        /\ SyncKeeps(new)
        /\ time' = new
        /\ disturbed' = disturbed \cup
              {d \in Disturbance :
                  \/ d = "inserted" /\ \E e \in Events :
                        InList(new[e]) /\ (~ InList(time[e]) \/ new[e] < time[e])
                  \/ d = "postponed" /\ \E e \in Events :
                        InList(time[e]) /\ new[e] > time[e]
                  \/ d = "left" /\ \E e \in Events :
                        InList(time[e]) /\ ~ InList(new[e])
                  \/ d = "torn" /\ pc = "page"
                  \/ d = "tied" /\ Tied(new)}
  BY DEF SyncCommits
<1>2. UNCHANGED <<request, walk>> /\ commits' \in 0 .. MaxCommits
  BY BoundsNat DEF SyncCommits, TypeOK
<1>3. \A e \in Events : time[e] \in Int /\ time'[e] \in Int
  BY <1>1, BoundsNat DEF TypeOK, EventTime
<1>4. disturbed \subseteq disturbed' /\ disturbed' \subseteq Disturbance
  BY <1>1 DEF TypeOK
<1>5. \A e \in Events : time[e] # 0 => time'[e] # 0
  BY <1>1 DEF SyncKeeps
<1>6. "inserted" \notin disturbed' =>
         \A e \in Events : InList(time'[e]) => InList(time[e]) /\ time'[e] >= time[e]
  BY <1>1, <1>3 DEF Disturbance
<1>7. /\ "postponed" \notin disturbed' =>
            \A e \in Events : InList(time[e]) => time'[e] <= time[e]
      /\ "left" \notin disturbed' =>
            \A e \in Events : InList(time[e]) => InList(time'[e])
  BY <1>1, <1>3 DEF Disturbance
<1>8. /\ "torn" \notin disturbed' => pc # "page"
      /\ "tied" \notin disturbed' => ~ Tied(time')
  BY <1>1 DEF Disturbance
<1>. QED  BY <1>1, <1>2, <1>4, <1>5, <1>6, <1>7, <1>8

\* A page is a sequence of events of the list.
LEMMA PageRows ==
    ASSUME TypeOK, Select
    PROVE  /\ pc = "page" /\ pc' = "answered"
           /\ results' \in Seq(Matching) /\ results' \in Seq(Events)
           /\ Len(results') \in 0 .. PageSize
           /\ IsPage(results', Offset(page))
           /\ listed' = listed \o results'
           /\ UNCHANGED <<time, page, total, atStart, disturbed, commits>>
<1>1. PICK n \in 0 .. Limit : \E s \in [1 .. n -> Matching] :
        IsPage(s, Offset(page)) /\ results' = s /\ listed' = listed \o s
  BY DEF Select
<1>2. PICK s \in [1 .. n -> Matching] :
        IsPage(s, Offset(page)) /\ results' = s /\ listed' = listed \o s
  BY <1>1
<1>3. n \in Nat /\ n <= PageSize
  BY SizesPositive DEF Limit
<1>4. s \in Seq(Matching) /\ Len(s) = n
  BY <1>3
<1>5. s \in Seq(Events)
  BY <1>4, SeqMonotonic DEF Matching, Listing
<1>. QED  BY <1>2, <1>3, <1>4, <1>5 DEF Select

-----------------------------------------------------------------------------
(* Type correctness.                                                       *)

\* A walk that is about to ask for its first page is well typed.
LEMMA TypeInit == Init => TypeOK
BY EventsFinite, Counting, SizesPositive, BoundsNat, FS_CardinalityType, EmptySeq
   DEF Init, TypeOK

\* Every step keeps the types.
LEMMA TypeStep == TypeOK /\ [Next]_vars => TypeOK'
<1>. SUFFICES ASSUME TypeOK, [Next]_vars PROVE TypeOK'
  OBVIOUS
<1>1. CASE Begin
  <2>1. Cardinality(Events) \in Nat
    BY Counting
  <2>2. <<>> \in Seq(Events) /\ Len(<<>>) = 0
    BY EmptySeq
  <2>3. disturbed' \in SUBSET Disturbance
    BY <1>1 DEF Begin, Disturbance
  <2>. QED
    BY <1>1, <2>1, <2>2, <2>3, SizesPositive, BoundsNat DEF Begin, TypeOK
<1>2. CASE Count
  <2>1. Cardinality(Matching) \in 0 .. Cardinality(Events)
    BY Counting DEF Matching, Listing
  <2>. QED  BY <1>2, <2>1 DEF Count, TypeOK, walk
<1>3. CASE Select
  <2>1. listed' \in Seq(Events)
    <3>1. listed \in Seq(Events) /\ results' \in Seq(Events) /\ listed' = listed \o results'
      BY <1>3, PageRows DEF TypeOK
    <3>. QED  BY <3>1
  <2>. QED  BY <1>3, <2>1, PageRows DEF TypeOK
<1>4. CASE FollowNext \/ LastPage \/ RequestFails
  BY <1>4 DEF FollowNext, LastPage, RequestFails, TypeOK, walk
<1>5. CASE SyncCommits
  BY <1>5, CommitEffects DEF TypeOK, request, walk
<1>6. CASE UNCHANGED vars
  BY <1>6 DEF vars, request, walk, TypeOK
<1>. QED  BY <1>1, <1>2, <1>3, <1>4, <1>5, <1>6 DEF Next

\* The walk, its links and its history keep their types.
THEOREM TypeCorrect == Spec => []TypeOK
BY TypeInit, TypeStep, PTL DEF Spec

-----------------------------------------------------------------------------
(* Sequences that grow.                                                    *)

\* What a longer sequence shows was shown before or is on the new page.
LEMMA Appended ==
    ASSUME NEW s \in Seq(Events), NEW u \in Seq(Events)
    PROVE  /\ \A i \in DOMAIN (s \o u) :
                 \/ i \in DOMAIN s /\ (s \o u)[i] = s[i]
                 \/ /\ i - Len(s) \in DOMAIN u /\ i > Len(s)
                    /\ (s \o u)[i] = u[i - Len(s)]
           /\ \A i \in DOMAIN s : i \in DOMAIN (s \o u) /\ (s \o u)[i] = s[i]
           /\ \A i \in DOMAIN u : /\ i + Len(s) \in DOMAIN (s \o u)
                                  /\ (s \o u)[i + Len(s)] = u[i]
<1>1. /\ s \o u \in Seq(Events) /\ Len(s \o u) = Len(s) + Len(u)
      /\ \A i \in 1 .. Len(s) + Len(u) :
            (s \o u)[i] = IF i <= Len(s) THEN s[i] ELSE u[i - Len(s)]
      /\ Len(s) \in Nat /\ Len(u) \in Nat
  BY ConcatProperties, LenProperties
<1>2. /\ DOMAIN (s \o u) = 1 .. Len(s) + Len(u)
      /\ DOMAIN s = 1 .. Len(s) /\ DOMAIN u = 1 .. Len(u)
  BY <1>1, LenProperties
<1>. QED  BY <1>1, <1>2

-----------------------------------------------------------------------------
(* The link next.                                                          *)

\* While no event leaves the list, what was counted is still there, so the
\* page that next led to begins inside the list.
NextInv ==
    "left" \notin disturbed =>
        /\ total <= Cardinality(Matching)
        /\ pc \in {"count", "page"} /\ page > 1 =>
              Offset(page) < Cardinality(Matching)
        /\ pc = "answered" /\ page > 1 => results # <<>>

\* No link was given yet.
LEMMA NextInit == Init => NextInv
BY Counting DEF Init, NextInv, Matching, Listing

\* Rows are only added, so a page that was promised has rows.
LEMMA NextStep == TypeOK /\ NextInv /\ [Next]_vars => NextInv'
<1>. SUFFICES ASSUME TypeOK, NextInv, [Next]_vars, "left" \notin disturbed'
              PROVE  /\ total' <= Cardinality(Matching')
                     /\ pc' \in {"count", "page"} /\ page' > 1 =>
                           Offset(page)' < Cardinality(Matching')
                     /\ pc' = "answered" /\ page' > 1 => results' # <<>>
  BY DEF NextInv
<1>0. /\ Matching \subseteq Events /\ Cardinality(Matching) \in Nat
      /\ page \in Nat \ {0} /\ total \in Nat
  BY Counting DEF Matching, Listing, TypeOK
<1>1. CASE Begin
  BY <1>0, <1>1 DEF Begin, Matching
<1>2. CASE Count
  BY <1>0, <1>2 DEF Count, NextInv, Matching, Offset, walk
<1>3. CASE Select
  <2>1. /\ pc = "page" /\ pc' = "answered"
        /\ UNCHANGED <<time, page, total, disturbed>>
        /\ IsPage(results', Offset(page))
    BY <1>3, PageRows
  <2>2. ASSUME page > 1  PROVE results' # <<>>
    <3>1. Offset(page) < Cardinality(Matching)
      BY <2>1, <2>2 DEF NextInv
    <3>2. Offset(page) \in Nat
      BY <1>0, SizesPositive DEF Offset
    <3>3. CASE results' = <<>>
      <4>1. Len(results') = 0
        BY <3>3
      <4>2. 0 = PageSize \/ Offset(page) + 0 >= Cardinality(Matching)
        BY <2>1, <4>1 DEF IsPage, Limit
      <4>. QED  BY <1>0, <3>1, <3>2, <4>2, SizesPositive
    <3>. QED  BY <3>3
  <2>. QED  BY <2>1, <2>2 DEF NextInv, Matching
<1>4. CASE FollowNext
  <2>1. /\ page' = page + 1 /\ pc' = "count" /\ page * PageSize < total
        /\ UNCHANGED <<time, total, disturbed>>
    BY <1>4 DEF FollowNext, HasNext
  <2>2. total <= Cardinality(Matching)
    BY <2>1 DEF NextInv
  <2>3. Offset(page)' = page * PageSize /\ page * PageSize \in Nat
    BY <1>0, <2>1, SizesPositive DEF Offset
  <2>. QED  BY <1>0, <2>1, <2>2, <2>3 DEF Matching
<1>5. CASE LastPage \/ RequestFails
  BY <1>5 DEF LastPage, RequestFails, NextInv, Matching, Offset, walk
<1>6. CASE SyncCommits
  <2>1. /\ "left" \notin disturbed
        /\ UNCHANGED <<pc, page, total, results>>
        /\ \A e \in Events : InList(time[e]) => InList(time'[e])
    BY <1>6, CommitEffects DEF request
  <2>2. Matching \subseteq Matching' /\ Matching' \subseteq Events
    BY <2>1 DEF Matching, Listing
  <2>3. Cardinality(Matching) <= Cardinality(Matching') /\ Cardinality(Matching') \in Nat
    BY <2>2, Counting
  <2>4. Offset(page) \in Int
    BY <1>0, SizesPositive DEF Offset
  <2>. QED  BY <1>0, <2>1, <2>3, <2>4 DEF NextInv, Offset
<1>7. CASE UNCHANGED vars
  BY <1>7 DEF vars, request, NextInv, Matching, Offset
<1>. QED  BY <1>1, <1>2, <1>3, <1>4, <1>5, <1>6, <1>7 DEF Next

\* A client that follows next finds events, unless some have left the list
\* since: has_next is exact, and insertions cannot empty a page.
THEOREM NextLeadsToResults == Spec => []NextPageHasResults
<1>1. NextInv => NextPageHasResults
  BY DEF NextInv, NextPageHasResults
<1>. QED  BY <1>1, NextInit, NextStep, TypeCorrect, PTL DEF Spec

-----------------------------------------------------------------------------
(* Ranks.  The rank of an event is the number of those earlier than it; a   *)
(* page is where the ranks from its offset on are.                         *)

Rank(e) == Cardinality(Earlier(e))

\* An event ranks by the events listed before it.
LEMMA Ranks ==
    ASSUME TypeOK, NEW e \in Matching
    PROVE  /\ Rank(e) \in Nat
           /\ Rank(e) < Cardinality(Matching)
<1>1. /\ Earlier(e) \cup {e} \subseteq Matching /\ Matching \subseteq Events
      /\ e \notin Earlier(e)
  BY BoundsNat DEF Earlier, Matching, Listing, TypeOK, EventTime
<1>2. /\ IsFiniteSet(Earlier(e)) /\ Rank(e) \in Nat
      /\ Cardinality(Matching) \in Nat
      /\ Cardinality(Earlier(e) \cup {e}) <= Cardinality(Matching)
  BY <1>1, Counting DEF Rank
<1>3. Cardinality(Earlier(e) \cup {e}) = Rank(e) + 1
  BY <1>1, <1>2, FS_AddElement DEF Rank
<1>. QED  BY <1>2, <1>3

\* Without ties no two events have the same rank, and a row of a page has the
\* rank of its place.
LEMMA DistinctRanks ==
    ASSUME TypeOK, ~ Tied(time), NEW e \in Matching, NEW f \in Matching, e # f
    PROVE  Rank(e) # Rank(f)
<1>1. ASSUME NEW g \in Matching, NEW h \in Matching, time[g] < time[h]
      PROVE  Rank(g) < Rank(h)
  <2>1. /\ Earlier(g) \cup {g} \subseteq Earlier(h) /\ Earlier(h) \subseteq Events
        /\ g \notin Earlier(g) /\ Earlier(g) \subseteq Events
    BY <1>1, BoundsNat DEF Earlier, Matching, Listing, TypeOK, EventTime
  <2>2. /\ IsFiniteSet(Earlier(g)) /\ Rank(g) \in Nat /\ Rank(h) \in Nat
        /\ Cardinality(Earlier(g) \cup {g}) <= Rank(h)
    BY <2>1, Counting DEF Rank
  <2>3. Cardinality(Earlier(g) \cup {g}) = Rank(g) + 1
    BY <2>1, <2>2, FS_AddElement DEF Rank
  <2>. QED  BY <2>2, <2>3
<1>2. time[e] # time[f]
  BY DEF Tied, Matching
<1>3. time[e] \in Int /\ time[f] \in Int
  BY BoundsNat DEF Matching, Listing, TypeOK, EventTime
<1>4. Rank(e) \in Nat /\ Rank(f) \in Nat
  BY Ranks
<1>5. CASE time[e] < time[f]
  BY <1>1, <1>4, <1>5
<1>6. CASE time[f] < time[e]
  BY <1>1, <1>4, <1>6
<1>. QED  BY <1>2, <1>3, <1>5, <1>6

\* The n-th row of a page ranks n-th after the rows the pages before it skip.
LEMMA RowRank ==
    ASSUME TypeOK, ~ Tied(time), NEW s \in Seq(Matching), NEW offset \in Nat,
           IsPage(s, offset), NEW i \in DOMAIN s
    PROVE  s[i] \in Matching /\ Rank(s[i]) = offset + i - 1
<1>. DEFINE e == s[i]
<1>1. e \in Matching /\ i \in Nat \ {0}
  BY ElementOfSeq, LenProperties
<1>2. /\ Earlier(e) \subseteq Events /\ e \notin Earlier(e)
      /\ NotLater(e) = Earlier(e) \cup {e}
  BY <1>1, BoundsNat DEF Earlier, NotLater, Matching, Listing, TypeOK, EventTime, Tied
<1>3. Cardinality(NotLater(e)) = Rank(e) + 1 /\ Rank(e) \in Nat
  BY <1>2, Counting, FS_AddElement DEF Rank
<1>4. Rank(e) <= offset + i - 1 /\ offset + i - 1 < Cardinality(NotLater(e))
  BY DEF IsPage, Rank
<1>. QED  BY <1>1, <1>3, <1>4

\* How many pages the walk has received.
Received == IF pc \in {"answered", "ended"} THEN page ELSE page - 1

\* The pages that precede a page end where it begins.
LEMMA Offsets ==
    ASSUME TypeOK
    PROVE  /\ page \in Nat \ {0} /\ Offset(page) \in Nat
           /\ Offset(page) + PageSize = page * PageSize
           /\ page * PageSize \in Nat
           /\ Received \in Nat /\ Received * PageSize \in Nat
<1>1. page \in Nat \ {0} /\ Received \in Nat /\ PageSize \in Nat
  BY SizesPositive DEF TypeOK, Received
<1>. QED  BY <1>1 DEF Offset

\* Ties are noticed.
TieInv == pc # "idle" /\ "tied" \notin disturbed => ~ Tied(time)

\* Ties appear and disappear only with a commit.
LEMMA TieStep == TypeOK /\ TieInv /\ [Next]_vars => TieInv'
<1>. SUFFICES ASSUME TypeOK, TieInv, [Next]_vars PROVE TieInv'
  OBVIOUS
<1>1. CASE SyncCommits
  BY <1>1, CommitEffects DEF TieInv
<1>2. CASE Begin
  <2>1. UNCHANGED time /\ (Tied(time) => "tied" \in disturbed')
    BY <1>2 DEF Begin
  <2>. QED  BY <2>1 DEF TieInv, Tied, Listing
<1>3. CASE Count \/ Select \/ FollowNext \/ LastPage \/ RequestFails
           \/ UNCHANGED vars
  <2>1. UNCHANGED <<time, disturbed>> /\ (pc' = "idle" <=> pc = "idle")
    BY <1>3 DEF Count, Select, FollowNext, LastPage, RequestFails, vars, request
  <2>. QED  BY <2>1 DEF TieInv, Tied, Listing
<1>. QED  BY <1>1, <1>2, <1>3 DEF Next

\* Events that stay in the list while others only leave it come to rank less.
LEMMA RankFalls ==
    ASSUME TypeOK, SyncCommits, disturbed' \cap {"inserted", "postponed"} = {},
           NEW e \in Matching'
    PROVE  /\ e \in Matching /\ time'[e] = time[e]
           /\ Rank(e)' <= Rank(e) /\ Rank(e)' \in Nat /\ Rank(e) \in Nat
<1>1. \A f \in Matching' : f \in Matching /\ f \in Events /\ time'[f] = time[f]
  <2>1. \A f \in Events : time[f] \in Int /\ time'[f] \in Int
    BY CommitEffects, BoundsNat DEF TypeOK, EventTime
  <2>. QED  BY <2>1, CommitEffects DEF Matching, Listing
<1>. DEFINE Then == {f \in Matching' : time'[f] < time'[e]}
<1>2. Then \subseteq Earlier(e) /\ Earlier(e) \subseteq Events
  BY <1>1 DEF Earlier, Matching, Listing
<1>3. Cardinality(Then) <= Rank(e) /\ Cardinality(Then) \in Nat
  BY <1>2, Counting DEF Rank
<1>4. Rank(e)' = Cardinality(Then)
  BY DEF Rank, Earlier
<1>. QED  BY <1>1, <1>3, <1>4, Ranks

-----------------------------------------------------------------------------
(* Nothing is shown twice.                                                 *)

\* An event on a page received has a rank within those pages, for as long as
\* it is in the list: then no later page begins at it.
OnceInv ==
    /\ pc = "idle" => listed = <<>>
    /\ pc # "idle" /\ disturbed \cap {"inserted", "postponed", "tied"} = {} =>
         /\ \A i, j \in DOMAIN listed : listed[i] = listed[j] => i = j
         /\ \A i \in DOMAIN listed :
               listed[i] \in Matching => Rank(listed[i]) < Received * PageSize

\* A page shows no row that an earlier page of an unchanged list has shown.
LEMMA OnceSelect ==
    ASSUME TypeOK, TieInv, OnceInv, Select
    PROVE  OnceInv'
<1>1. /\ pc = "page" /\ pc' = "answered"
      /\ UNCHANGED <<time, page, disturbed>>
      /\ IsPage(results', Offset(page))
      /\ results' \in Seq(Matching)
      /\ listed \in Seq(Events) /\ results' \in Seq(Events)
      /\ listed' = listed \o results'
      /\ Len(results') \in Nat /\ Len(results') <= PageSize
  BY PageRows DEF TypeOK
<1>. SUFFICES ASSUME disturbed \cap {"inserted", "postponed", "tied"} = {}
              PROVE  /\ \A i, j \in DOMAIN listed' : listed'[i] = listed'[j] => i = j
                     /\ \A i \in DOMAIN listed' :
                           listed'[i] \in Matching' =>
                               Rank(listed[i])' < (Received * PageSize)'
  BY <1>1 DEF OnceInv
<1>2. ~ Tied(time)
  BY <1>1 DEF TieInv
<1>3. /\ \A e \in Events : (e \in Matching)' <=> e \in Matching
      /\ \A e : Rank(e)' = Rank(e)
  BY <1>1 DEF Matching, Rank, Earlier
<1>4. /\ Received * PageSize = Offset(page) /\ (Received * PageSize)' = page * PageSize
      /\ Offset(page) \in Nat /\ Offset(page) + PageSize = page * PageSize
      /\ PageSize \in Nat
  BY <1>1, Offsets, SizesPositive DEF Received, Offset
<1>5. ASSUME NEW i \in DOMAIN results'
      PROVE  /\ results'[i] \in Matching /\ i \in Nat
             /\ Rank(results'[i]) \in Nat
             /\ Offset(page) <= Rank(results'[i])
             /\ Rank(results'[i]) < page * PageSize
  <2>1. results'[i] \in Matching /\ Rank(results'[i]) = Offset(page) + i - 1
    BY <1>1, <1>2, <1>4, RowRank
  <2>2. i \in 1 .. Len(results')
    BY <1>1, LenProperties
  <2>. QED  BY <1>1, <1>4, <2>1, <2>2
<1>6. ASSUME NEW i \in DOMAIN listed
      PROVE  /\ listed[i] \in Events /\ i \in Nat
             /\ listed[i] \in Matching => Rank(listed[i]) < Offset(page)
  <2>1. i \in 1 .. Len(listed) /\ listed[i] \in Events
    BY <1>1, LenProperties, ElementOfSeq
  <2>. QED  BY <1>1, <1>4, <2>1, LenProperties DEF OnceInv
<1>. DEFINE Old(i) == i \in DOMAIN listed /\ listed'[i] = listed[i]
            New(i) == /\ i - Len(listed) \in DOMAIN results' /\ i > Len(listed)
                      /\ listed'[i] = results'[i - Len(listed)]
<1>7. /\ \A i \in DOMAIN listed' : i \in Nat /\ (Old(i) \/ New(i))
      /\ Len(listed) \in Nat
  <2>1. listed' \in Seq(Events) /\ Len(listed) \in Nat
    BY <1>1, ConcatProperties, LenProperties
  <2>2. \A i \in DOMAIN listed' : i \in Nat
    BY <2>1, LenProperties
  <2>. QED  BY <1>1, <2>1, <2>2, Appended
<1>8. ASSUME NEW i \in DOMAIN listed', NEW j \in DOMAIN listed', listed'[i] = listed'[j]
      PROVE  i = j
  <2>1. CASE Old(i) /\ Old(j)
    BY <1>1, <2>1, <1>8 DEF OnceInv
  <2>2. CASE New(i) /\ New(j)
    <3>1. i - Len(listed) = j - Len(listed)
      BY <1>1, <1>8, <2>2 DEF IsPage
    <3>. QED  BY <1>7, <3>1
  <2>3. ASSUME NEW k \in DOMAIN listed', NEW l \in DOMAIN listed', Old(k), New(l)
        PROVE  listed'[k] # listed'[l]
    <3>1. results'[l - Len(listed)] \in Matching
          /\ Offset(page) <= Rank(results'[l - Len(listed)])
          /\ Rank(results'[l - Len(listed)]) \in Nat
      BY <1>5, <2>3
    <3>2. listed[k] \in Matching => Rank(listed[k]) < Offset(page)
      BY <1>6, <2>3
    <3>. QED  BY <1>4, <2>3, <3>1, <3>2
  <2>. QED  BY <1>7, <1>8, <2>1, <2>2, <2>3
<1>9. ASSUME NEW i \in DOMAIN listed', listed'[i] \in Matching'
      PROVE  Rank(listed[i])' < (Received * PageSize)'
  <2>1. CASE Old(i)
    <3>1. listed[i] \in Matching /\ Rank(listed[i]) < Offset(page)
      BY <1>3, <1>6, <1>9, <2>1
    <3>2. Rank(listed[i]) \in Nat
      BY <3>1, Ranks
    <3>. QED  BY <1>3, <1>4, <2>1, <3>1, <3>2
  <2>2. CASE New(i)
    BY <1>3, <1>4, <1>5, <2>2
  <2>. QED  BY <1>7, <2>1, <2>2
<1>. QED  BY <1>8, <1>9

\* Every step keeps a quiet walk free of repetitions.
LEMMA OnceStep == TypeOK /\ TieInv /\ OnceInv /\ [Next]_vars => OnceInv'
<1>. SUFFICES ASSUME TypeOK, TieInv, OnceInv, [Next]_vars PROVE OnceInv'
  OBVIOUS
<1>1. CASE Select
  BY <1>1, OnceSelect
<1>2. CASE Begin
  BY <1>2 DEF Begin, OnceInv
<1>3. CASE Count \/ FollowNext \/ LastPage \/ RequestFails \/ UNCHANGED vars
  <2>1. /\ UNCHANGED <<time, listed, disturbed>>
        /\ pc' = "idle" <=> pc = "idle"
        /\ Received' = Received
    BY <1>3 DEF Count, FollowNext, LastPage, RequestFails, vars, request, walk,
                Received, TypeOK
  <2>. QED  BY <2>1 DEF OnceInv, Matching, Rank, Earlier
<1>4. CASE SyncCommits
  <2>1. /\ UNCHANGED <<pc, page, listed>> /\ disturbed \subseteq disturbed'
        /\ "inserted" \notin disturbed' =>
              \A e \in Events : InList(time'[e]) => InList(time[e]) /\ time'[e] >= time[e]
        /\ "postponed" \notin disturbed' =>
              \A e \in Events : InList(time[e]) => time'[e] <= time[e]
    BY <1>4, CommitEffects DEF request, walk
  <2>. SUFFICES ASSUME pc # "idle",
                       disturbed' \cap {"inserted", "postponed", "tied"} = {},
                       NEW i \in DOMAIN listed, listed[i] \in Matching'
                PROVE  Rank(listed[i])' < Received * PageSize
    BY <2>1 DEF OnceInv, Received
  <2>. DEFINE e == listed[i]
  <2>2. /\ e \in Matching /\ Rank(e) < Received * PageSize
        /\ Rank(e)' <= Rank(e) /\ Rank(e)' \in Nat /\ Rank(e) \in Nat
    BY <1>4, <2>1, RankFalls DEF OnceInv
  <2>3. Rank(listed[i])' = Rank(e)'
    BY <2>1 DEF Rank, Earlier
  <2>. QED  BY <2>2, <2>3, Offsets
<1>. QED  BY <1>1, <1>2, <1>3, <1>4 DEF Next

\* While nothing is inserted or moved and no times tie, events that leave the
\* list, and changes between the count and the page, repeat nothing.
THEOREM NoRepetition == Spec => []NothingRepeated
<1>1. Init => TieInv /\ OnceInv
  BY DEF Init, TieInv, OnceInv
<1>2. OnceInv => NothingRepeated
  BY DEF OnceInv, NothingRepeated
<1>. QED  BY <1>1, <1>2, TieStep, OnceStep, TypeCorrect, PTL DEF Spec

-----------------------------------------------------------------------------
(* The order of the pages.                                                 *)

\* An event that ranks up to q is not later than one that may stand at q.
LEMMA RankOrders ==
    ASSUME TypeOK, NEW e \in Matching, NEW f \in Matching, NEW q \in Nat,
           Rank(e) <= q, q < Cardinality(NotLater(f))
    PROVE  time[e] <= time[f]
<1>. SUFFICES ASSUME time[f] < time[e]  PROVE FALSE
  BY BoundsNat DEF Matching, Listing, TypeOK, EventTime
<1>1. NotLater(f) \subseteq Earlier(e) /\ Earlier(e) \subseteq Events
  BY BoundsNat DEF NotLater, Earlier, Matching, Listing, TypeOK, EventTime
<1>2. /\ Cardinality(NotLater(f)) <= Rank(e)
      /\ Cardinality(NotLater(f)) \in Nat /\ Rank(e) \in Nat
  BY <1>1, Counting DEF Rank
<1>. QED  BY <1>2

\* The events shown that are still in the list are in order, and rank within
\* the pages received: all that later pages can show comes after them.
OrderInv ==
    /\ pc = "idle" => listed = <<>>
    /\ pc # "idle" /\ disturbed \cap {"inserted", "postponed"} = {} =>
         /\ \A i \in DOMAIN listed :
               listed[i] \in Matching => Rank(listed[i]) < Received * PageSize
         /\ \A i, j \in DOMAIN listed :
               /\ i < j
               /\ listed[i] \in Matching /\ listed[j] \in Matching
               => time[listed[i]] <= time[listed[j]]

\* A page continues the order of those before it, and is in order itself.
LEMMA OrderSelect ==
    ASSUME TypeOK, OrderInv, Select
    PROVE  OrderInv'
<1>1. /\ pc = "page" /\ pc' = "answered"
      /\ UNCHANGED <<time, page, disturbed>>
      /\ IsPage(results', Offset(page))
      /\ results' \in Seq(Matching)
      /\ listed \in Seq(Events) /\ results' \in Seq(Events)
      /\ listed' = listed \o results'
      /\ Len(results') \in Nat /\ Len(results') <= PageSize
  BY PageRows DEF TypeOK
<1>. SUFFICES ASSUME disturbed \cap {"inserted", "postponed"} = {}
              PROVE  /\ \A i \in DOMAIN listed' : listed'[i] \in Matching' =>
                            Rank(listed[i])' < (Received * PageSize)'
                     /\ \A i, j \in DOMAIN listed' :
                           /\ i < j
                           /\ listed'[i] \in Matching' /\ listed'[j] \in Matching'
                           => time'[listed'[i]] <= time'[listed'[j]]
  BY <1>1 DEF OrderInv
<1>2. Matching' = Matching /\ \A e : Rank(e)' = Rank(e)
  BY <1>1 DEF Matching, Rank, Earlier
<1>3. /\ Received * PageSize = Offset(page) /\ (Received * PageSize)' = page * PageSize
      /\ Offset(page) \in Nat /\ Offset(page) + PageSize = page * PageSize
      /\ PageSize \in Nat
  BY <1>1, Offsets, SizesPositive DEF Received, Offset
<1>4. ASSUME NEW k \in DOMAIN results'
      PROVE  /\ results'[k] \in Matching /\ k \in Nat
             /\ Rank(results'[k]) \in Nat
             /\ Offset(page) + k - 1 \in Nat
             /\ Rank(results'[k]) <= Offset(page) + k - 1
             /\ Offset(page) + k - 1 < Cardinality(NotLater(results'[k]))
             /\ Offset(page) <= Offset(page) + k - 1
             /\ Offset(page) + k - 1 < page * PageSize
  <2>1. results'[k] \in Matching /\ k \in 1 .. Len(results')
    BY <1>1, ElementOfSeq, LenProperties
  <2>2. /\ Rank(results'[k]) <= Offset(page) + k - 1
        /\ Offset(page) + k - 1 < Cardinality(NotLater(results'[k]))
    BY <1>1 DEF IsPage, Rank
  <2>. QED  BY <1>1, <1>3, <2>1, <2>2, Ranks
<1>. DEFINE Old(i) == i \in DOMAIN listed /\ listed'[i] = listed[i]
            New(i) == /\ i - Len(listed) \in DOMAIN results' /\ i > Len(listed)
                      /\ listed'[i] = results'[i - Len(listed)]
<1>5. /\ \A i \in DOMAIN listed' : i \in Nat /\ (Old(i) \/ New(i))
      /\ Len(listed) \in Nat /\ DOMAIN listed = 1 .. Len(listed)
  <2>1. listed' \in Seq(Events) /\ Len(listed) \in Nat /\ DOMAIN listed = 1 .. Len(listed)
    BY <1>1, ConcatProperties, LenProperties
  <2>2. \A i \in DOMAIN listed' : i \in Nat
    BY <2>1, LenProperties
  <2>. QED  BY <1>1, <2>1, <2>2, Appended
<1>6. ASSUME NEW i \in DOMAIN listed', Old(i), listed'[i] \in Matching
      PROVE  Rank(listed'[i]) < Offset(page) /\ Rank(listed'[i]) \in Nat
  BY <1>1, <1>3, <1>6, Ranks DEF OrderInv
<1>7. ASSUME NEW i \in DOMAIN listed', listed'[i] \in Matching'
      PROVE  Rank(listed[i])' < (Received * PageSize)'
  <2>1. CASE Old(i)
    BY <1>2, <1>3, <1>6, <1>7, <2>1
  <2>2. CASE New(i)
    BY <1>2, <1>3, <1>4, <2>2
  <2>. QED  BY <1>5, <2>1, <2>2
<1>8. ASSUME NEW i \in DOMAIN listed', NEW j \in DOMAIN listed', i < j,
             listed'[i] \in Matching, listed'[j] \in Matching
      PROVE  time[listed'[i]] <= time[listed'[j]]
  <2>1. CASE Old(i) /\ Old(j)
    BY <1>1, <1>8, <2>1 DEF OrderInv
  <2>2. CASE New(j)
    <3>. DEFINE k == j - Len(listed)
                q == Offset(page) + k - 1
    <3>1. /\ listed'[j] = results'[k] /\ q \in Nat /\ Offset(page) <= q
          /\ q < Cardinality(NotLater(results'[k]))
      BY <1>4, <2>2
    <3>2. Rank(listed'[i]) <= q
      <4>1. CASE Old(i)
        BY <1>3, <1>6, <1>8, <3>1, <4>1
      <4>2. CASE New(i)
        <5>1. /\ Rank(listed'[i]) <= Offset(page) + (i - Len(listed)) - 1
              /\ Rank(listed'[i]) \in Nat
          BY <1>4, <4>2
        <5>. QED  BY <1>3, <1>5, <1>8, <3>1, <5>1
      <4>. QED  BY <1>5, <4>1, <4>2
    <3>. QED  BY <1>8, <3>1, <3>2, RankOrders
  <2>3. CASE New(i) /\ Old(j)
    BY <1>5, <1>8, <2>3
  <2>. QED  BY <1>5, <2>1, <2>2, <2>3
<1>. QED  BY <1>1, <1>2, <1>7, <1>8

\* Every step keeps the order.
LEMMA OrderStep == TypeOK /\ OrderInv /\ [Next]_vars => OrderInv'
<1>. SUFFICES ASSUME TypeOK, OrderInv, [Next]_vars PROVE OrderInv'
  OBVIOUS
<1>1. CASE Select
  BY <1>1, OrderSelect
<1>2. CASE Begin
  BY <1>2 DEF Begin, OrderInv
<1>3. CASE Count \/ FollowNext \/ LastPage \/ RequestFails \/ UNCHANGED vars
  <2>1. /\ UNCHANGED <<time, listed, disturbed>>
        /\ pc' = "idle" <=> pc = "idle"
        /\ Received' = Received
    BY <1>3 DEF Count, FollowNext, LastPage, RequestFails, vars, request, walk,
                Received, TypeOK
  <2>. QED  BY <2>1 DEF OrderInv, Matching, Rank, Earlier
<1>4. CASE SyncCommits
  <2>1. UNCHANGED <<pc, page, listed>> /\ disturbed \subseteq disturbed'
    BY <1>4, CommitEffects DEF request, walk
  <2>. SUFFICES ASSUME pc # "idle", disturbed' \cap {"inserted", "postponed"} = {}
                PROVE  /\ \A i \in DOMAIN listed : listed[i] \in Matching' =>
                             Rank(listed[i])' < Received * PageSize
                       /\ \A i, j \in DOMAIN listed :
                             /\ i < j
                             /\ listed[i] \in Matching' /\ listed[j] \in Matching'
                             => time'[listed[i]] <= time'[listed[j]]
    BY <2>1 DEF OrderInv, Received
  <2>2. ASSUME NEW i \in DOMAIN listed, listed[i] \in Matching'
        PROVE  /\ listed[i] \in Matching /\ time'[listed[i]] = time[listed[i]]
               /\ Rank(listed[i])' < Received * PageSize
    <3>. DEFINE e == listed[i]
    <3>1. /\ e \in Matching /\ time'[e] = time[e] /\ Rank(e) < Received * PageSize
          /\ Rank(e)' <= Rank(e) /\ Rank(e)' \in Nat /\ Rank(e) \in Nat
      BY <1>4, <2>1, <2>2, RankFalls DEF OrderInv
    <3>2. Rank(listed[i])' = Rank(e)'
      BY <2>1 DEF Rank, Earlier
    <3>. QED  BY <3>1, <3>2, Offsets
  <2>. QED  BY <2>1, <2>2 DEF OrderInv
<1>. QED  BY <1>1, <1>2, <1>3, <1>4 DEF Next

\* The pages of a walk show events in the order of their times, whatever ties,
\* leaves or changes between a count and its page.
THEOREM PagesInOrder == Spec => []ListedInOrder
<1>1. Init => OrderInv
  BY DEF Init, OrderInv
<1>2. OrderInv => ListedInOrder
  BY DEF OrderInv, ListedInOrder
<1>. QED  BY <1>1, <1>2, OrderStep, TypeCorrect, PTL DEF Spec

-----------------------------------------------------------------------------
(* Nothing is skipped.                                                     *)

\* An event that stayed where it was and was not shown yet is ranked behind
\* the pages received; where next ends there is no such rank.
SkipInv ==
    pc # "idle" /\ disturbed \subseteq {"inserted"} =>
        /\ \A e \in Events : InList(atStart[e]) =>
              InList(time[e]) /\ time[e] <= atStart[e]
        /\ pc = "page" => total = Cardinality(Matching)
        /\ \A e \in Events : Stayed(e) /\ ~ Shown(e) => Received * PageSize <= Rank(e)
        /\ pc = "ended" \/ (pc = "answered" /\ ~ HasNext) =>
              \A e \in Events : Stayed(e) => Shown(e)

\* A page shows the rows whose ranks are next.
LEMMA SkipSelect ==
    ASSUME TypeOK, TieInv, SkipInv, Select
    PROVE  SkipInv'
<1>1. /\ pc = "page" /\ pc' = "answered"
      /\ UNCHANGED <<time, page, total, atStart, disturbed>>
      /\ IsPage(results', Offset(page))
      /\ results' \in Seq(Matching)
      /\ listed \in Seq(Events) /\ results' \in Seq(Events)
      /\ listed' = listed \o results'
      /\ Len(results') \in Nat /\ Len(results') <= PageSize
      /\ Len(results') = PageSize \/ Offset(page) + Len(results') >= Cardinality(Matching)
  BY PageRows DEF TypeOK, IsPage, Limit
<1>. SUFFICES ASSUME disturbed \subseteq {"inserted"}
              PROVE  SkipInv'
  BY <1>1 DEF SkipInv
<1>2. ~ Tied(time) /\ total = Cardinality(Matching)
  BY <1>1 DEF TieInv, SkipInv
<1>3. /\ Received * PageSize = Offset(page) /\ (Received * PageSize)' = page * PageSize
      /\ Offset(page) \in Nat /\ Offset(page) + PageSize = page * PageSize
      /\ PageSize \in Nat
  BY <1>1, Offsets, SizesPositive DEF Received, Offset
<1>4. ASSUME NEW e \in Events, Stayed(e), ~ Shown(e)'
      PROVE  page * PageSize <= Rank(e) /\ Rank(e) < total
  <2>1. e \in Matching
    BY <1>4 DEF Stayed, Matching, Listing
  <2>2. /\ ~ Shown(e)
        /\ \A i \in DOMAIN results' : results'[i] # e
    <3>1. /\ \A i \in DOMAIN listed : i \in DOMAIN listed' /\ listed'[i] = listed[i]
          /\ \A i \in DOMAIN results' : /\ i + Len(listed) \in DOMAIN listed'
                                        /\ listed'[i + Len(listed)] = results'[i]
      BY <1>1, Appended
    <3>. QED  BY <1>4, <3>1 DEF Shown
  <2>3. Offset(page) <= Rank(e)
    BY <1>1, <1>3, <1>4, <2>2 DEF SkipInv
  <2>4. Rank(e) \in Nat /\ Rank(e) < Cardinality(Matching) /\ Cardinality(Matching) \in Nat
    BY <2>1, Ranks, Counting DEF Matching, Listing
  <2>5. Rank(e) >= Offset(page) + Len(results')
    <3>. SUFFICES ASSUME Rank(e) < Offset(page) + Len(results')  PROVE FALSE
      BY <1>1, <1>3, <2>4
    <3>. DEFINE i == Rank(e) - Offset(page) + 1
    <3>1. i \in 1 .. Len(results')
      BY <1>1, <1>3, <2>3, <2>4
    <3>2. i \in DOMAIN results'
      BY <1>1, <3>1, LenProperties
    <3>3. results'[i] \in Matching /\ Rank(results'[i]) = Rank(e)
      BY <1>1, <1>2, <1>3, <2>4, <3>2, RowRank
    <3>. QED  BY <1>2, <2>1, <2>2, <3>2, <3>3, DistinctRanks
  <2>. QED  BY <1>1, <1>2, <1>3, <2>4, <2>5
<1>5. \A e \in Events : Rank(e)' = Rank(e) /\ (Stayed(e)' <=> Stayed(e))
  BY <1>1 DEF Rank, Earlier, Matching, Listing, Stayed
<1>6. HasNext' <=> page * PageSize < total
  BY <1>1 DEF HasNext
<1>7. ASSUME ~ HasNext', NEW e \in Events, Stayed(e)'
      PROVE  Shown(e)'
  <2>. SUFFICES ASSUME ~ Shown(e)'  PROVE FALSE
    OBVIOUS
  <2>1. page * PageSize <= Rank(e) /\ Rank(e) < total
    BY <1>4, <1>5, <1>7
  <2>2. e \in Matching
    BY <1>5, <1>7 DEF Stayed, Matching, Listing
  <2>3. Rank(e) \in Nat
    BY <2>2, Ranks
  <2>. QED  BY <1>3, <1>6, <1>7, <2>1, <2>3, Offsets DEF TypeOK
<1>. QED
  BY <1>1, <1>3, <1>4, <1>5, <1>7 DEF SkipInv, InList

\* Every step keeps what a quiet walk has shown complete.
LEMMA SkipStep == TypeOK /\ TieInv /\ SkipInv /\ [Next]_vars => SkipInv'
<1>. SUFFICES ASSUME TypeOK, TieInv, SkipInv, [Next]_vars PROVE SkipInv'
  OBVIOUS
<1>1. CASE Select
  BY <1>1, SkipSelect
<1>2. CASE Begin
  <2>1. /\ pc' = "count" /\ page' = 1 /\ UNCHANGED time /\ atStart' = time
        /\ time \in [Events -> Nat] /\ PageSize \in Nat
    BY <1>2, BoundsNat, SizesPositive DEF Begin, TypeOK, EventTime
  <2>2. (Received * PageSize)' = 0
    BY <2>1 DEF Received
  <2>3. \A e \in Events : Stayed(e)' => Rank(e)' >= 0
    <3>. SUFFICES ASSUME NEW e \in Events, Stayed(e)'  PROVE Rank(e)' >= 0
      OBVIOUS
    <3>1. e \in Matching
      BY <2>1 DEF Stayed, Matching, Listing, InList
    <3>2. Rank(e)' = Rank(e)
      BY <2>1 DEF Rank, Earlier, Matching, Listing, InList
    <3>. QED  BY <3>1, <3>2, Ranks
  <2>. QED  BY <2>1, <2>2, <2>3 DEF SkipInv
<1>3. CASE Count
  <2>1. /\ pc = "count" /\ pc' = "page" /\ total' = Cardinality(Matching)
        /\ UNCHANGED <<time, page, listed, atStart, disturbed>>
    BY <1>3 DEF Count, walk
  <2>2. (Received * PageSize)' = Received * PageSize /\ Matching' = Matching
    BY <2>1 DEF Received, Matching
  <2>. QED
    BY <2>1, <2>2 DEF SkipInv, Stayed, Shown, Rank, Earlier, InList
<1>4. CASE FollowNext \/ LastPage \/ RequestFails \/ UNCHANGED vars
  <2>1. /\ UNCHANGED <<time, listed, atStart, disturbed, total>>
        /\ Received' = Received
        /\ pc' = "idle" <=> pc = "idle"
        /\ pc' = "page" => pc = "page"
        /\ pc' = "ended" \/ (pc' = "answered" /\ ~ HasNext') =>
              pc = "ended" \/ (pc = "answered" /\ ~ HasNext)
    BY <1>4 DEF FollowNext, LastPage, RequestFails, vars, request, walk,
                Received, TypeOK, HasNext
  <2>. QED
    BY <2>1 DEF SkipInv, Stayed, Shown, Rank, Earlier, Matching, InList
<1>5. CASE SyncCommits
  <2>1. /\ UNCHANGED <<pc, page, total, listed, atStart>>
        /\ disturbed \subseteq disturbed'
        /\ "postponed" \notin disturbed' =>
              \A e \in Events : InList(time[e]) => time'[e] <= time[e]
        /\ "left" \notin disturbed' =>
              \A e \in Events : InList(time[e]) => InList(time'[e])
        /\ "torn" \notin disturbed' => pc # "page"
    BY <1>5, CommitEffects DEF request, walk
  <2>. SUFFICES ASSUME pc # "idle", disturbed' \subseteq {"inserted"}
                PROVE  SkipInv'
    BY <2>1 DEF SkipInv
  <2>2. \A e \in Events : time[e] \in Int /\ time'[e] \in Int /\ atStart[e] \in Int
    BY <1>5, CommitEffects, BoundsNat DEF TypeOK, EventTime
  <2>3. /\ \A e \in Events : InList(time[e]) => InList(time'[e]) /\ time'[e] <= time[e]
        /\ pc # "page"
    BY <2>1
  <2>4. \A e \in Events : InList(atStart[e]) =>
           /\ InList(time[e]) /\ time[e] <= atStart[e]
           /\ InList(time'[e]) /\ time'[e] <= atStart[e]
    BY <2>1, <2>2, <2>3 DEF SkipInv
  <2>5. \A e \in Events : Stayed(e)' => Stayed(e) /\ time'[e] = time[e]
    BY <2>1, <2>2, <2>3, <2>4 DEF Stayed
  <2>6. \A e \in Events : Shown(e)' <=> Shown(e)
    BY <2>1 DEF Shown
  <2>7. ASSUME NEW e \in Events, Stayed(e)', ~ Shown(e)
        PROVE  Received * PageSize <= Rank(e)'
    <3>1. Stayed(e) /\ time'[e] = time[e] /\ Received * PageSize <= Rank(e)
      BY <2>1, <2>5, <2>7 DEF SkipInv
    <3>. DEFINE Then == {f \in Matching' : time'[f] < time'[e]}
    <3>2. Earlier(e) \subseteq Then /\ Then \subseteq Events
      BY <2>2, <2>3, <3>1 DEF Earlier, Matching, Listing
    <3>3. Rank(e) <= Cardinality(Then) /\ Cardinality(Then) \in Nat
      BY <3>2, Counting DEF Rank
    <3>4. e \in Matching
      BY <3>1 DEF Stayed, Matching, Listing
    <3>5. Rank(e)' = Cardinality(Then)
      BY DEF Rank, Earlier
    <3>. QED  BY <3>1, <3>3, <3>4, <3>5, Ranks, Offsets
  <2>8. Received' = Received /\ HasNext' = HasNext
    BY <2>1 DEF Received, HasNext
  <2>9. pc = "ended" \/ (pc = "answered" /\ ~ HasNext) =>
           \A e \in Events : Stayed(e)' => Shown(e)'
    BY <2>1, <2>5, <2>6 DEF SkipInv
  <2>. QED
    BY <2>1, <2>3, <2>4, <2>6, <2>7, <2>8, <2>9 DEF SkipInv, InList
<1>. QED  BY <1>1, <1>2, <1>3, <1>4, <1>5 DEF Next

\* A walk that follows next to its end has shown every event that stayed in
\* the list, however many events synchronisation inserted or moved forward
\* between its requests, and whatever the size of the pages.
THEOREM NoOmission == Spec => []NothingSkipped
<1>1. Init => TieInv /\ SkipInv
  BY DEF Init, TieInv, SkipInv
<1>2. SkipInv => NothingSkipped
  BY DEF SkipInv, NothingSkipped
<1>. QED  BY <1>1, <1>2, TieStep, SkipStep, TypeCorrect, PTL DEF Spec
=============================================================================
