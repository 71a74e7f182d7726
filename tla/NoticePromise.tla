---------------------------- MODULE NoticePromise ----------------------------
(***************************************************************************)
(* What the transactional outbox promises about each announced purchase,   *)
(* whatever happens between the worker, the database and Capashino:        *)
(*                                                                         *)
(*   - a record is settled once, as sent or as failed, and stays settled;  *)
(*   - it is settled as sent only after the buyer was notified;            *)
(*   - the buyer is notified at most once, possibly after the worker has   *)
(*     given up, when a request it thought lost is handled late;           *)
(*   - every record is eventually settled.                                 *)
(***************************************************************************)
EXTENDS Naturals

CONSTANT Records

VARIABLES
    status,     \* record -> "absent" until it is written, then as in the table
    notices     \* record -> the notifications its buyer has received

vars == <<status, notices>>

Init ==
    /\ status = [r \in Records |-> "absent"]
    /\ notices = [r \in Records |-> 0]

SetStatus(r, s) == status' = [status EXCEPT ![r] = s]

Write(r) ==
    /\ status[r] = "absent"
    /\ SetStatus(r, "pending")
    /\ UNCHANGED notices

Notify(r) ==
    /\ status[r] # "absent"
    /\ notices[r] = 0
    /\ notices' = [notices EXCEPT ![r] = 1]
    /\ UNCHANGED status

Settle(r) ==
    /\ status[r] = "pending"
    /\ \/ notices[r] = 1 /\ SetStatus(r, "sent")
       \/ SetStatus(r, "failed")
    /\ UNCHANGED notices

Next == \E r \in Records : Write(r) \/ Notify(r) \/ Settle(r)

SafeSpec == Init /\ [][Next]_vars
Spec == SafeSpec /\ \A r \in Records : WF_vars(Settle(r))
=============================================================================
