---------------------------- MODULE MCActionOwner ----------------------------
(* Small instances of ActionOwner for TLC: mail rows of one account, each of *)
(* a job of its own, and a calendar row.                                     *)
EXTENDS ActionOwner
MCQueue  == [w \in Works |-> IF w = 3 THEN 1 ELSE 0]
MCJob    == [w \in Works |-> w]
MCHolds  == [w \in Works |-> IF w = 3 THEN {"calendar"} ELSE {"mail"}]
MCBefore == [w \in Works |-> {}]
=============================================================================
