------------------------------ MODULE MCOutbox ------------------------------
(***************************************************************************)
(* Instances of OutboxWorker for TLC.                                      *)
(***************************************************************************)
EXTENDS OutboxWorker, TLC

CONSTANTS r1, r2, r3

\* Two registrations began in the same instant, the third one later.
Ages == r1 :> 1 @@ r2 :> 1 @@ r3 :> 2
TwoAges == r1 :> 1 @@ r2 :> 2
=============================================================================
