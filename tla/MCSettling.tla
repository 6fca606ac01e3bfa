------------------------------ MODULE MCSettling ------------------------------
(***************************************************************************)
(* One instance for what settles in the end: the callers that wait for     *)
(* accounts (AccountWork), the moves that a check finishes (MoveJournal)   *)
(* and the check of a folder (FolderSync).  A behaviour moves the part it  *)
(* chose at the start and leaves the others where they began.              *)
(***************************************************************************)
EXTENDS MCAccountWork, MCMoveJournal

VARIABLES
    part,
    speaks, lane, holds, highest, cached, flags, saved, ledger, clock, write,
    listing, queue, begun, stops, left

folderVars == <<speaks, lane, holds, highest, cached, flags, saved, ledger,
                clock, write, listing, queue, begun, stops, left>>

\* One message in each lane, one write, a check that is stopped or lost.
Folder == INSTANCE FolderSync WITH
    server <- holds, check <- listing,
    Uids <- {1}, Fields <- {"unread"}, Arriving <- {{}}, Carried <- {{}},
    Lanes <- {"inline", "slow", "staged"}, Servers <- {"condstore"},
    Limit <- 9, MaxModseq <- 3, MaxWrites <- 1, MaxStops <- 1

SettlingInit ==
    /\ part \in {"accounts", "moves", "folder"}
    /\ AccountInit /\ Init /\ Folder!CheckInit
    \* The part that stays where it began needs one beginning.
    /\ part # "folder" => saved = 0 /\ cached = {} /\ lane[1] = "inline"
SettlingNext ==
    \/ part = "accounts" /\ AccountNext /\ UNCHANGED <<vars, folderVars, part>>
    \/ part = "moves" /\ Next /\ UNCHANGED <<accountVars, folderVars, part>>
    \/ part = "folder" /\ Folder!CheckNext /\ UNCHANGED <<accountVars, vars, part>>
SettlingSpec ==
    /\ SettlingInit /\ [][SettlingNext]_<<accountVars, vars, folderVars, part>>
    /\ \/ part = "accounts" /\ AccountFairness
       \/ part = "moves" /\ Fairness
       \/ part = "folder" /\ Folder!CheckFairness

(* What CONDSTORE listings tell reaches the cache in the end (FolderSync). *)
ListingConverges == Folder!ListingConverges
=============================================================================
