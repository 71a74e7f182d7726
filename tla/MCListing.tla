------------------------------ MODULE MCListing ------------------------------
(***************************************************************************)
(* An instance of EventListing for TLC: one client, and pages of two.      *)
(***************************************************************************)
EXTENDS EventListing, TLC

CONSTANTS a, b, c

EventSymmetry == Permutations(Events)
=============================================================================
