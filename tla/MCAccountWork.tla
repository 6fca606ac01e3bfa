---------------------------- MODULE MCAccountWork ----------------------------
(* Small instances of AccountWork for TLC.                                   *)
EXTENDS AccountWork
CONSTANTS move, restore, sync

MCKind == [t \in Tasks |-> CASE t = sync    -> "Sync"
                             [] t = restore -> "Exclusive"
                             [] OTHER -> "Write"]
(* A transfer and a restore lock both accounts; the others lock the first.   *)
MCNeeds == [t \in Tasks |-> IF t \in {move, restore} THEN Accounts ELSE {1}]
=============================================================================
