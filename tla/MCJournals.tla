------------------------------ MODULE MCJournals ------------------------------
(***************************************************************************)
(* One instance for the coordinator of the accounts and for the journals   *)
(* that run under it or beside it: moves, changes of folders, calendar     *)
(* changes and the encryption of the cache.  A behaviour moves the part it *)
(* chose at the start and leaves the others where they began.              *)
(***************************************************************************)
EXTENDS MCAccountWork, MCMoveJournal, FolderWork, CalendarWork, CacheRoot

VARIABLE part

PartsInit ==
    /\ part \in {"accounts", "moves", "folders", "calendar", "cache"}
    /\ AccountInit /\ Init /\ FolderInit /\ CalendarInit /\ CacheInit
    \* The parts that stay where they began need one beginning.
    /\ part # "folders" => imap /\ served["here"] = [l \in Leaves |-> "none"]
    /\ part # "calendar" => service = "caldav" /\ remote = Nothing
    /\ part # "cache" => main = Absent
PartsNext ==
    \/ /\ part = "accounts" /\ AccountNext
       /\ UNCHANGED <<vars, folderVars, calendarVars, cacheVars, part>>
    \/ /\ part = "moves" /\ Next
       /\ UNCHANGED <<accountVars, folderVars, calendarVars, cacheVars, part>>
    \/ /\ part = "folders" /\ FolderNext
       /\ UNCHANGED <<accountVars, vars, calendarVars, cacheVars, part>>
    \/ /\ part = "calendar" /\ CalendarNext
       /\ UNCHANGED <<accountVars, vars, folderVars, cacheVars, part>>
    \/ /\ part = "cache" /\ CacheNext
       /\ UNCHANGED <<accountVars, vars, folderVars, calendarVars, part>>
PartsSpec ==
    /\ PartsInit
    /\ [][PartsNext]_<<accountVars, vars, folderVars, calendarVars, cacheVars, part>>

TypesOK == AccountTypeOK /\ TypeOK /\ FolderTypeOK /\ CalendarTypeOK /\ CacheTypeOK
=============================================================================
