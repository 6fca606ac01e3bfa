------------------------------ MODULE MCOutbox ------------------------------
(* Small instances of Outbox for TLC.                                       *)
EXTENDS Outbox
CONSTANTS d1, d2, auto, moved, managed, pop

(* "moved" keeps the incoming connection of "auto" and changes the rest.    *)
MCIncoming == [c \in Configs |-> IF c = moved THEN auto ELSE c]
MCPolicy   == [c \in Configs |-> CASE c = managed -> "ServerManaged"
                                    [] c = pop     -> "Pop3"
                                    [] OTHER       -> "Automatic"]
=============================================================================
