---------------------------- MODULE SeatsPattern ----------------------------
(***************************************************************************)
(* src/services/seats_pattern.py: does a venue's seats pattern, such as    *)
(* "A1-20, B1-15", admit a seat, such as "A7"?                             *)
(*                                                                         *)
(* A regular expression splits a name into its parts, or does not match;   *)
(* section is None then.  A pattern is a sequence of chunks, those between *)
(* the commas.  The number of a seat is compared as an integer, so several *)
(* names mean the same place: "A7", "A07", or "A7" and a newline, which $  *)
(* lets pass.  spelling tells such names apart.                            *)
(***************************************************************************)
EXTENDS Integers, Sequences

CONSTANTS
    Sections,   \* section letters
    Spellings,  \* ways to write one and the same number
    None        \* Python's None: no match, no row, no key, no cache entry

ASSUME NoneIsNoSection == None \notin Sections

SeatName == [section : Sections \cup {None}, number : Nat, spelling : Spellings]
Chunk == [section : Sections \cup {None}, start : Nat, end : Nat]
Pattern == Seq(Chunk)

\* Variant: the sections are not compared.
AdmitsAnySection(chunk, seat) ==
    /\ chunk.section # None
    /\ chunk.start <= seat.number /\ seat.number <= chunk.end

\* A chunk that is no range admits nothing.
Admits(chunk, seat) ==
    /\ chunk.section # None
    /\ chunk.section = seat.section
    /\ chunk.start <= seat.number /\ seat.number <= chunk.end

IsValidSeat(pattern, seat) ==
    /\ seat.section # None
    /\ \E i \in DOMAIN pattern : Admits(pattern[i], seat)

-----------------------------------------------------------------------------
(* What a pattern means, independently of how it is searched.              *)

PlacesOf(chunk) == {chunk.section} \X (chunk.start .. chunk.end)

\* The venue's places: those of all chunks that are ranges.
VenuePlaces(pattern) ==
    UNION {PlacesOf(pattern[i]) :
              i \in {j \in DOMAIN pattern : pattern[j].section # None}}

InVenue(pattern, seat) == <<seat.section, seat.number>> \in VenuePlaces(pattern)
=============================================================================
