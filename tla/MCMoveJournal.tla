---------------------------- MODULE MCMoveJournal ----------------------------
(* Small instances of MoveJournal for TLC: two folders of one account and    *)
(* one of another.                                                           *)
EXTENDS MoveJournal
CONSTANTS inbox, archive, other, work, play

MCAccount == [f \in Folders |-> IF f = other THEN play ELSE work]
=============================================================================
