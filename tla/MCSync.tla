-------------------------------- MODULE MCSync --------------------------------
(***************************************************************************)
(* An instance of EventsSync for TLC: the daily loop and one manual        *)
(* trigger, which may be called again and again.                           *)
(***************************************************************************)
EXTENDS EventsSync, TLC

CONSTANTS a, b, trigger

EventSymmetry == Permutations(Events)
=============================================================================
