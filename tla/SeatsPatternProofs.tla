-------------------------- MODULE SeatsPatternProofs --------------------------
(***************************************************************************)
(* For every pattern and every seat name, however long the pattern and     *)
(* whatever its chunks: what is_valid_seat answers.                        *)
(***************************************************************************)
EXTENDS SeatsPattern, TLAPS

\* A range admits exactly its places.
LEMMA AdmitsPlaces ==
    ASSUME NEW chunk \in Chunk, NEW seat \in SeatName, chunk.section # None
    PROVE  Admits(chunk, seat) <=> <<seat.section, seat.number>> \in PlacesOf(chunk)
<1>1. seat.number \in Int /\ chunk.start \in Int /\ chunk.end \in Int
  BY DEF Chunk, SeatName
<1> QED
  BY <1>1 DEF Admits, PlacesOf

\* is_valid_seat accepts a name exactly if its place is one of the venue:
\* bounds are inclusive, an empty range, a chunk that is no range and a name
\* that is no seat admit nothing, and overlapping chunks do no harm.
THEOREM PatternIsVenue ==
    ASSUME NEW pattern \in Pattern, NEW seat \in SeatName
    PROVE  IsValidSeat(pattern, seat) <=> InVenue(pattern, seat)
<1>1. \A i \in DOMAIN pattern : pattern[i] \in Chunk
  BY DEF Pattern
<1>2. ASSUME IsValidSeat(pattern, seat) PROVE InVenue(pattern, seat)
  <2>1. PICK i \in DOMAIN pattern : Admits(pattern[i], seat)
    BY <1>2 DEF IsValidSeat
  <2>2. pattern[i].section # None
    BY <2>1 DEF Admits
  <2>3. <<seat.section, seat.number>> \in PlacesOf(pattern[i])
    BY <1>1, <2>1, <2>2, AdmitsPlaces
  <2> QED
    BY <2>2, <2>3 DEF InVenue, VenuePlaces
<1>3. ASSUME InVenue(pattern, seat) PROVE IsValidSeat(pattern, seat)
  <2>1. PICK i \in DOMAIN pattern :
          /\ pattern[i].section # None
          /\ <<seat.section, seat.number>> \in PlacesOf(pattern[i])
    BY <1>3 DEF InVenue, VenuePlaces
  <2>2. Admits(pattern[i], seat)
    BY <1>1, <2>1, AdmitsPlaces
  <2>3. seat.section # None
    BY <2>2 DEF Admits
  <2> QED
    BY <2>2, <2>3 DEF IsValidSeat
<1> QED
  BY <1>2, <1>3
=============================================================================
