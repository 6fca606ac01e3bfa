------------------------------ MODULE DeviceProofs ------------------------------
(* Theorems about what a device does on its own: the folder of the encrypted  *)
(* cache (CacheRoot) for every set of processes, the journals of changes of   *)
(* folders (FolderWork) for every set of folders, and the schedule of mail    *)
(* checks (SyncSchedule) for any accounts, clicks and changes, all for every  *)
(* bound.                                                                     *)
EXTENDS CacheRoot, FolderWork, SyncSchedule, FiniteSetTheorems, TLAPS

----------------------------------------------------------------------------
(* The encrypted cache *)

LEMMA FileTypes ==
    /\ Absent \in Files
    /\ \A kind \in {"plain", "keyed"}, data \in SUBSET (0 .. MaxSaves), v \in 0 .. CurrentVersion :
          File(kind, data, v) \in Files /\ File(kind, data, v) # Absent
  <1>1. Absent \in Files
    BY DEF Files, Absent, CurrentVersion
  <1>2. ASSUME NEW kind \in {"plain", "keyed"}, NEW data \in SUBSET (0 .. MaxSaves),
               NEW v \in 0 .. CurrentVersion
        PROVE  File(kind, data, v) \in Files /\ File(kind, data, v) # Absent
    <2>1. File(kind, data, v).kind # Absent.kind
      BY DEF File, Absent
    <2>2. QED BY <2>1 DEF Files, File
  <1>3. QED BY <1>1, <1>2

LEMMA OffType == Off \in Openers
  BY FileTypes DEF Off, Openers, OpenerStages

(* A process turns to another stage. *)
LEMMA TurnType ==
    ASSUME opener \in [Processes -> Openers], NEW p \in Processes, NEW to \in OpenerStages,
           Turns(p, to)
    PROVE  opener' \in [Processes -> Openers]
  BY DEF Openers, Turns

LEMMA LockedType ==
    ASSUME opener \in [Processes -> Openers], NEW p \in Processes, NEW to \in OpenerStages,
           NEW g \in {"none", "shared", "exclusive"}, Locked(p, g, to)
    PROVE  opener' \in [Processes -> Openers]
  <1>1. [opener EXCEPT ![p].guard = g] \in [Processes -> Openers]
    BY DEF Openers
  <1>2. QED BY <1>1, ZenonT(60) DEF Openers, Locked

LEMMA KeyedType ==
    ASSUME opener \in [Processes -> Openers], NEW p \in Processes, NEW to \in OpenerStages,
           NEW k \in BOOLEAN
    PROVE  [opener EXCEPT ![p].key = k, ![p].at = to] \in [Processes -> Openers]
  <1>1. [opener EXCEPT ![p].key = k] \in [Processes -> Openers]
    BY DEF Openers
  <1>2. QED BY <1>1, ZenonT(60) DEF Openers

LEMMA StagedType ==
    ASSUME opener \in [Processes -> Openers], NEW p \in Processes, NEW to \in OpenerStages,
           NEW f \in Files
    PROVE  [opener EXCEPT ![p].at = to, ![p].source = f] \in [Processes -> Openers]
  <1>1. [opener EXCEPT ![p].at = to] \in [Processes -> Openers]
    BY DEF Openers
  <1>2. QED BY <1>1, ZenonT(60) DEF Openers

LEMMA SetType ==
    ASSUME opener \in [Processes -> Openers], NEW p \in Processes, NEW o \in Openers
    PROVE  [opener EXCEPT ![p] = o] \in [Processes -> Openers]
  OBVIOUS

(* Another write of the cache is within its bound. *)
LEMMA SavedFits ==
    ASSUME saved \subseteq 0 .. MaxSaves, Cardinality(saved) < MaxSaves
    PROVE  Cardinality(saved) \in 0 .. MaxSaves
  <1>1. MaxSaves \in Nat
    BY CacheAssumption
  <1>2. IsFiniteSet(0 .. MaxSaves)
    BY <1>1, FS_Interval
  <1>3. IsFiniteSet(saved)
    BY <1>2, FS_Subset
  <1>4. QED BY <1>1, <1>3, FS_CardinalityType

----------------------------------------------------------------------------
(* Types. *)

LEMMA CacheInitType == CacheInit => CacheTypeOK
  <1> SUFFICES ASSUME CacheInit PROVE CacheTypeOK
    OBVIOUS
  <1>1. MaxSaves \in Nat /\ MaxFaults \in Nat
    BY CacheAssumption
  <1>2. main \in Files
    BY <1>1, FileTypes DEF CacheInit, CurrentVersion
  <1>3. saved \subseteq 0 .. MaxSaves /\ overlooked \subseteq saved
    BY <1>2 DEF CacheInit, Files
  <1>4. opener \in [Processes -> Openers]
    BY OffType DEF CacheInit
  <1>5. record \in [version : 0 .. CurrentVersion, source : Files]
    BY FileTypes DEF CacheInit, NoRecord, CurrentVersion
  <1>6. candidate \in Files /\ recovery \in Files
    BY FileTypes DEF CacheInit
  <1>7. marker \in BOOLEAN /\ unrecovered \in BOOLEAN /\ faults \in 0 .. MaxFaults
    <2>1. marker = FALSE /\ unrecovered = FALSE /\ faults = 0
      BY DEF CacheInit
    <2>2. 0 \in 0 .. MaxFaults
      BY <1>1
    <2>3. QED BY <2>1, <2>2
  <1>8. QED BY <1>2, <1>3, <1>4, <1>5, <1>6, <1>7 DEF CacheTypeOK

LEMMA OpeningTypes ==
    ASSUME CacheTypeOK, NEW p \in Processes, Opening(p)
    PROVE  CacheTypeOK'
  <1> USE DEF Keep, folder, Doing
  <1>1. /\ opener \in [Processes -> Openers] /\ main \in Files
        /\ saved \subseteq 0 .. MaxSaves
    BY DEF CacheTypeOK
  <1>2. ASSUME NEW migrate \in BOOLEAN, OpenRoot(p, migrate) PROVE CacheTypeOK'
    <2>1. /\ [Off EXCEPT !.at = "marker", !.migrate = migrate, !.guard = "exclusive"] \in Openers
          /\ [Off EXCEPT !.at = "joining"] \in Openers
      BY OffType DEF Openers, OpenerStages
    <2>2. opener' \in [Processes -> Openers]
      <3>1. CASE opener' = [opener EXCEPT ![p] =
                   [Off EXCEPT !.at = "marker", !.migrate = migrate, !.guard = "exclusive"]]
        BY <1>1, <2>1, <3>1, SetType
      <3>2. CASE opener' = [opener EXCEPT ![p] = [Off EXCEPT !.at = "joining"]]
        BY <1>1, <2>1, <3>2, SetType
      <3>3. QED BY <1>2, <3>1, <3>2 DEF OpenRoot
    <2>3. QED BY <1>2, <2>2 DEF OpenRoot, CacheTypeOK
  <1>3. CASE Join(p) \/ ReleaseRoot(p) \/ Share(p)
    <2>1. opener' \in [Processes -> Openers]
      BY <1>1, <1>3, LockedType DEF Join, ReleaseRoot, Share, OpenerStages
    <2>2. QED BY <1>3, <2>1 DEF Join, ReleaseRoot, Share, CacheTypeOK
  <1>4. CASE ReadMarker(p)
    <2>1. marker' \in BOOLEAN
      BY <1>1, <1>4 DEF ReadMarker, CacheTypeOK, Openers
    <2>2. PICK to \in OpenerStages : opener' = [opener EXCEPT ![p].key = marker', ![p].at = to]
      BY <1>4 DEF ReadMarker, OpenerStages
    <2>3. opener' \in [Processes -> Openers]
      BY <1>1, <2>1, <2>2, KeyedType
    <2>4. QED BY <1>4, <2>1, <2>3 DEF ReadMarker, CacheTypeOK
  <1>5. CASE Databases(p)
    <2>1. opener' \in [Processes -> Openers]
      BY <1>1, <1>5, TurnType DEF Databases, OpenerStages
    <2>2. QED BY <1>5, <2>1 DEF Databases, CacheTypeOK
  <1>6. CASE BecomeOwner(p)
    <2>1. opener' \in [Processes -> Openers]
      BY <1>1, <1>6, TurnType DEF BecomeOwner, OpenerStages
    <2>2. main' \in Files
      <3>1. [main EXCEPT !.version = CurrentVersion] \in Files
        BY <1>1 DEF Files, CurrentVersion
      <3>2. \A kind \in {"plain", "keyed"} : File(kind, {}, CurrentVersion) \in Files
        BY FileTypes DEF CurrentVersion
      <3>3. QED BY <1>6, <3>1, <3>2 DEF BecomeOwner
    <2>3. QED BY <1>6, <2>1, <2>2 DEF BecomeOwner, CacheTypeOK
  <1>7. CASE SaveMail(p)
    <2>1. Cardinality(saved) \in 0 .. MaxSaves
      BY <1>1, <1>7, SavedFits DEF SaveMail
    <2>2. main' \in Files
      <3>1. [main EXCEPT !.data = @ \cup {Cardinality(saved)}] \in Files
        BY <1>1, <2>1 DEF Files
      <3>2. QED BY <1>7, <3>1 DEF SaveMail
    <2>3. QED BY <1>7, <2>1, <2>2 DEF SaveMail, CacheTypeOK
  <1>8. CASE CloseRoot(p)
    <2>1. opener' \in [Processes -> Openers]
      BY <1>1, <1>8, OffType, SetType DEF CloseRoot
    <2>2. QED BY <1>8, <2>1 DEF CloseRoot, CacheTypeOK
  <1>9. QED BY <1>2, <1>3, <1>4, <1>5, <1>6, <1>7, <1>8 DEF Opening

LEMMA ReplacingTypes ==
    ASSUME CacheTypeOK, NEW p \in Processes, Replacing(p)
    PROVE  CacheTypeOK'
  <1> USE DEF Keep, folder, Doing
  <1>1. /\ opener \in [Processes -> Openers] /\ {main, candidate, recovery} \subseteq Files
        /\ record \in [version : 0 .. CurrentVersion, source : Files] /\ Off \in Openers
        /\ Absent \in Files /\ MaxFaults \in Nat
    BY OffType, FileTypes, CacheAssumption DEF CacheTypeOK
  <1>2. /\ main.data \in SUBSET (0 .. MaxSaves) /\ main.version \in 0 .. CurrentVersion
        /\ candidate.version \in 0 .. CurrentVersion
    BY <1>1 DEF Files
  <1>3. NoRecord \in [version : 0 .. CurrentVersion, source : Files]
        /\ [version |-> candidate.version, source |-> main] \in
              [version : 0 .. CurrentVersion, source : Files]
    BY <1>1, <1>2 DEF NoRecord, CurrentVersion
  <1>4. CASE Stage(p)
    <2>1. candidate' \in Files
      BY <1>2, <1>4, FileTypes DEF Stage
    <2>2. opener' \in [Processes -> Openers]
      BY <1>1, <1>4, StagedType DEF Stage, OpenerStages
    <2>3. QED BY <1>4, <2>1, <2>2 DEF Stage, CacheTypeOK
  <1>5. CASE CheckSource(p) \/ Verify(p)
    <2>1. opener' \in [Processes -> Openers]
      BY <1>1, <1>5, TurnType DEF CheckSource, Verify, OpenerStages, Publishing, Renaming
    <2>2. QED BY <1>5, <2>1 DEF CheckSource, Verify, CacheTypeOK
  <1>6. CASE WriteJournal(p)
    <2>1. opener' \in [Processes -> Openers]
      BY <1>1, <1>6, TurnType DEF WriteJournal, OpenerStages, Publishing, Renaming
    <2>2. QED BY <1>3, <1>6, <2>1 DEF WriteJournal, CacheTypeOK
  <1>7. CASE JournalFails(p)
    <2>1. opener' \in [Processes -> Openers]
      BY <1>1, <1>7, SetType DEF JournalFails
    <2>2. faults' \in 0 .. MaxFaults
      BY <1>1, <1>7 DEF JournalFails, CacheTypeOK
    <2>3. QED BY <1>1, <1>3, <1>7, <2>1, <2>2 DEF JournalFails, CacheTypeOK
  <1>8. CASE Retire(p) \/ Publish(p) \/ Dispose(p) \/ CloseRecord(p)
    <2>1. opener' \in [Processes -> Openers]
      BY <1>1, <1>8, TurnType
      DEF Retire, Publish, Dispose, CloseRecord, OpenerStages, Publishing, Renaming
    <2>2. QED BY <1>1, <1>3, <1>8, <2>1 DEF Retire, Publish, Dispose, CloseRecord, CacheTypeOK
  <1>9. CASE RecoverFolder(p)
    <2>1. Resumed \in OpenerStages
      BY DEF Resumed, Published, CopyLost, OpenerStages, Publishing, Renaming
    <2>2. opener' \in [Processes -> Openers]
      <3>1. /\ "databases" \in OpenerStages
            /\ [opener EXCEPT ![p].at = Resumed] = [opener EXCEPT ![p] = [@ EXCEPT !.at = Resumed]]
        BY DEF OpenerStages
      <3>2. CASE opener' = [opener EXCEPT ![p].at = "databases"]
        BY <1>1, <3>1, <3>2, TurnType DEF Turns
      <3>3. CASE opener' = [opener EXCEPT ![p].at = Resumed]
        BY <1>1, <2>1, <3>3, TurnType DEF Turns
      <3>4. CASE opener' = [opener EXCEPT ![p] = Off]
        BY <1>1, <3>4, SetType
      <3>5. QED BY <1>9, <3>1, <3>2, <3>3, <3>4 DEF RecoverFolder, Turns
    <2>3. QED BY <1>1, <1>9, <2>2 DEF RecoverFolder, CleanOrphans, CacheTypeOK
  <1>10. CASE Discard(p) \/ Withdraw(p) \/ Restore(p)
    <2>1. opener' \in [Processes -> Openers]
      BY <1>1, <1>10, TurnType
      DEF Discard, Withdraw, Restore, OpenerStages, Publishing, Renaming
    <2>2. QED BY <1>1, <1>10, <2>1 DEF Discard, Withdraw, Restore, CacheTypeOK
  <1>11. QED BY <1>4, <1>5, <1>6, <1>7, <1>8, <1>9, <1>10 DEF Replacing

LEMMA CacheStepType == CacheTypeOK /\ [CacheNext]_cacheVars => CacheTypeOK'
  <1> SUFFICES ASSUME CacheTypeOK, [CacheNext]_cacheVars PROVE CacheTypeOK'
    OBVIOUS
  <1>1. /\ opener \in [Processes -> Openers] /\ {main, candidate} \subseteq Files
        /\ Absent \in Files /\ MaxFaults \in Nat /\ saved \subseteq 0 .. MaxSaves
        /\ faults \in 0 .. MaxFaults
    BY FileTypes, CacheAssumption DEF CacheTypeOK
  <1>2. Fault => faults' \in 0 .. MaxFaults
    BY <1>1 DEF Fault
  <1>3. ASSUME NEW p \in Processes, Fails(p) \/ Stops(p) PROVE CacheTypeOK'
    <2>1. opener' \in [Processes -> Openers]
      BY <1>1, <1>3, OffType, SetType DEF Fails, Stops
    <2>2. faults' \in 0 .. MaxFaults /\ candidate' \in Files
      BY <1>1, <1>2, <1>3 DEF Fails, Stops, folder
    <2>3. QED BY <1>3, <2>1, <2>2 DEF Fails, Stops, folder, CacheTypeOK
  <1>4. CASE Damage
    <2>1. main' \in Files /\ candidate' \in Files
      <3>1. /\ [main EXCEPT !.opens = FALSE] \in Files
            /\ [candidate EXCEPT !.opens = FALSE] \in Files
        BY <1>1 DEF Files
      <3>2. QED BY <1>1, <1>4, <3>1 DEF Damage
    <2>2. QED BY <1>2, <1>4, <2>1 DEF Damage, CacheTypeOK
  <1>5. CASE OlderProgram
    <2>1. Cardinality(saved) \in 0 .. MaxSaves
      BY <1>1, <1>5, SavedFits DEF OlderProgram
    <2>2. main' \in Files
      <3>1. [main EXCEPT !.data = @ \cup {Cardinality(saved)}] \in Files
        BY <1>1, <2>1 DEF Files
      <3>2. QED BY <1>5, <3>1 DEF OlderProgram
    <2>3. QED BY <1>5, <2>1, <2>2 DEF OlderProgram, CacheTypeOK
  <1>6. CASE UNCHANGED cacheVars
    BY <1>6 DEF cacheVars, folder, CacheTypeOK
  <1>7. QED BY <1>3, <1>4, <1>5, <1>6, OpeningTypes, ReplacingTypes DEF CacheNext

----------------------------------------------------------------------------
(* The lock. *)

LEMMA CacheInitInv == CacheInit => CacheIInv
  <1> SUFFICES ASSUME CacheInit PROVE CacheIInv
    OBVIOUS
  <1>1. /\ \A p \in Processes : opener[p].at = "off" /\ opener[p].guard = "none"
        /\ record = NoRecord /\ recovery = Absent /\ saved = main.data
    BY DEF CacheInit, Off
  <1>2. main = Absent \/ (main.kind = "plain" /\ main.opens)
    <2>1. \A v : File("plain", {0}, v).kind = "plain" /\ File("plain", {0}, v).opens
      BY DEF File
    <2>2. QED BY <2>1 DEF CacheInit
  <1>3. LocksExclude
    BY <1>1 DEF LocksExclude, Publishing, Renaming
  <1>4. FolderKnown
    BY <1>1, <1>2 DEF FolderKnown, Whole, HoldsAll, Absent
  <1>5. \A p \in Processes : StageKnown(p)
    BY <1>1 DEF StageKnown, Publishing, Renaming
  <1>6. OnlySaved
    BY <1>1 DEF OnlySaved, CacheInit, NoRecord, Absent
  <1>7. QED BY <1>3, <1>4, <1>5, <1>6, CacheInitType DEF CacheIInv

(* What a step of a process leaves of its place and its lock. *)
Locks(at, guard) ==
    /\ guard = "none" <=> at \in {"off", "joining", "sharing again"}
    /\ at \in {"recover", "staging", "staged"} \cup Publishing => guard = "exclusive"
    /\ at = "owner" => guard = "shared"

LEMMA LocksKept ==
    ASSUME CacheTypeOK, LocksExclude, NEW p \in Processes, NEW o \in Openers,
           opener' = [opener EXCEPT ![p] = o], Locks(o.at, o.guard),
           o.guard \in {"none", opener[p].guard} \/ Available(p, o.guard)
    PROVE  LocksExclude'
  <1>1. /\ opener'[p] = o
        /\ \A q \in Processes : q # p => opener'[q] = opener[q]
    BY DEF CacheTypeOK
  <1>2. ASSUME Available(p, o.guard), NEW q \in Processes, q # p
        PROVE  /\ opener[q].guard # "exclusive"
               /\ o.guard = "exclusive" => opener[q].guard = "none"
    <2>1. opener[q].guard \in {"none", "shared", "exclusive"}
      BY DEF CacheTypeOK, Openers
    <2>2. QED BY <1>2, <2>1 DEF Available, Holding
  <1>3. o.guard \in {"none", "shared", "exclusive"}
    BY DEF Openers
  <1>4. \A q \in Processes : Locks(opener'[q].at, opener'[q].guard)
    BY <1>1 DEF LocksExclude, Locks
  <1>5. \A q \in Processes : q # p =>
           /\ o.guard = "exclusive" => opener[q].guard = "none"
           /\ opener[q].guard = "exclusive" => o.guard = "none"
    <2>1. CASE o.guard = "none"
      BY <2>1
    <2>2. CASE o.guard = opener[p].guard
      BY <2>2 DEF LocksExclude
    <2>3. CASE Available(p, o.guard)
      BY <1>2, <2>3
    <2>4. QED BY <2>1, <2>2, <2>3
  <1>6. ASSUME NEW q \in Processes, NEW r \in Processes, q # r, opener'[q].guard = "exclusive"
        PROVE  opener'[r].guard = "none"
    <2>1. CASE q # p /\ r # p
      BY <1>1, <1>6, <2>1 DEF LocksExclude
    <2>2. CASE q = p \/ r = p
      BY <1>1, <1>5, <1>6, <2>2
    <2>3. QED BY <2>1, <2>2
  <1>7. QED BY <1>4, <1>6 DEF LocksExclude, Locks

(* A process whose opening goes on without the lock changing. *)
LEMMA TurnKeepsLocks ==
    ASSUME CacheTypeOK, LocksExclude, NEW p \in Processes, NEW to \in OpenerStages,
           Turns(p, to), Locks(to, opener[p].guard)
    PROVE  LocksExclude'
  <1> DEFINE o == [opener[p] EXCEPT !.at = to]
  <1>1. o \in Openers /\ o.at = to /\ o.guard = opener[p].guard
    BY DEF CacheTypeOK, Openers
  <1>2. opener' = [opener EXCEPT ![p] = o]
    BY DEF Turns
  <1> HIDE DEF o
  <1>3. QED BY <1>1, <1>2, LocksKept

LEMMA OffKeepsLocks ==
    ASSUME CacheTypeOK, LocksExclude, NEW p \in Processes, opener' = [opener EXCEPT ![p] = Off]
    PROVE  LocksExclude'
  <1>1. Off.at = "off" /\ Off.guard = "none" /\ Locks(Off.at, Off.guard)
    BY DEF Off, Locks, Publishing, Renaming
  <1>2. QED BY <1>1, OffType, LocksKept

LEMMA LocksOfOpening ==
    ASSUME CacheTypeOK, LocksExclude, NEW p \in Processes, Opening(p)
    PROVE  LocksExclude'
  <1> USE DEF Doing
  <1>1. opener[p] \in Openers /\ Locks(opener[p].at, opener[p].guard)
    BY DEF CacheTypeOK, LocksExclude, Locks
  <1>2. ASSUME NEW migrate \in BOOLEAN, OpenRoot(p, migrate) PROVE LocksExclude'
    <2> DEFINE o == [Off EXCEPT !.at = "marker", !.migrate = migrate, !.guard = "exclusive"]
               j == [Off EXCEPT !.at = "joining"]
    <2>1. /\ o \in Openers /\ o.at = "marker" /\ o.guard = "exclusive"
          /\ j \in Openers /\ j.at = "joining" /\ j.guard = "none"
      BY OffType DEF Off, Openers, OpenerStages
    <2>2. \/ Available(p, "exclusive") /\ opener' = [opener EXCEPT ![p] = o]
          \/ opener' = [opener EXCEPT ![p] = j]
      BY <1>2 DEF OpenRoot
    <2>3. Locks(o.at, o.guard) /\ Locks(j.at, j.guard)
      BY <2>1 DEF Locks, Publishing, Renaming
    <2> HIDE DEF o, j
    <2>4. QED BY <2>1, <2>2, <2>3, LocksKept
  <1>3. ASSUME NEW g \in {"none", "shared", "exclusive"}, NEW to \in OpenerStages,
               Locked(p, g, to), Locks(to, g), g = "none" \/ Available(p, g)
        PROVE  LocksExclude'
    <2> DEFINE o == [opener[p] EXCEPT !.guard = g, !.at = to]
    <2>1. o \in Openers /\ o.at = to /\ o.guard = g
      BY <1>1 DEF Openers
    <2>2. opener' = [opener EXCEPT ![p] = o]
      BY <1>3 DEF Locked, CacheTypeOK, Openers
    <2> HIDE DEF o
    <2>3. QED BY <1>3, <2>1, <2>2, LocksKept
  <1>4. CASE Join(p) \/ ReleaseRoot(p) \/ Share(p)
    <2>1. /\ Locks("marker", "shared") /\ Locks("sharing again", "none")
          /\ Locks("sharing", "shared")
          /\ {"marker", "sharing again", "sharing"} \subseteq OpenerStages
      BY DEF Locks, Publishing, Renaming, OpenerStages
    <2>2. QED BY <1>3, <1>4, <2>1 DEF Join, ReleaseRoot, Share
  <1>5. CASE ReadMarker(p)
    <2> DEFINE key == marker \/ opener[p].migrate
               to == IF ~key THEN "sharing"
                     ELSE IF opener[p].guard = "exclusive" THEN "recover" ELSE "databases"
               o == [opener[p] EXCEPT !.key = key, !.at = to]
    <2>1. to \in OpenerStages /\ key \in BOOLEAN
      BY DEF OpenerStages
    <2>2. o \in Openers /\ o.at = to /\ o.guard = opener[p].guard
      BY <1>1, <2>1 DEF Openers
    <2>3. opener' = [opener EXCEPT ![p] = o]
      BY <1>5 DEF ReadMarker, CacheTypeOK, Openers
    <2>4. Locks(to, opener[p].guard)
      BY <1>1, <1>5 DEF ReadMarker, Locks, Publishing, Renaming
    <2> HIDE DEF o, to, key
    <2>5. QED BY <2>2, <2>3, <2>4, LocksKept
  <1>6. CASE Databases(p)
    <2>1. PICK to \in {"sharing", "staging"} :
            Turns(p, to) /\ (to = "staging" => opener[p].guard = "exclusive")
      BY <1>6 DEF Databases
    <2>2. Locks(to, opener[p].guard) /\ to \in OpenerStages
      BY <1>1, <1>6, <2>1 DEF Databases, Locks, Publishing, Renaming, OpenerStages
    <2>3. QED BY <2>1, <2>2, TurnKeepsLocks
  <1>7. CASE BecomeOwner(p)
    <2>1. Locks("owner", opener[p].guard) /\ "owner" \in OpenerStages
      BY <1>7 DEF BecomeOwner, Locks, Publishing, Renaming, OpenerStages
    <2>2. QED BY <1>7, <2>1, TurnKeepsLocks DEF BecomeOwner
  <1>8. CASE SaveMail(p)
    BY <1>8 DEF SaveMail, LocksExclude
  <1>9. CASE CloseRoot(p)
    BY <1>9, OffKeepsLocks DEF CloseRoot
  <1>10. QED BY <1>2, <1>4, <1>5, <1>6, <1>7, <1>8, <1>9 DEF Opening

LEMMA LocksOfReplacing ==
    ASSUME CacheTypeOK, LocksExclude, NEW p \in Processes, Replacing(p)
    PROVE  LocksExclude'
  <1>1. opener[p].guard = "exclusive"
    BY DEF Replacing, Stage, CheckSource, WriteJournal, JournalFails, Retire, Publish, Verify,
           Dispose, CloseRecord, RecoverFolder, Discard, Withdraw, Restore, Doing,
           LocksExclude, Publishing, Renaming
  <1>2. \A to \in Publishing \cup {"staged", "databases"} :
          Locks(to, "exclusive") /\ to \in OpenerStages
    BY DEF Locks, OpenerStages, Publishing, Renaming
  <1>3. ASSUME NEW to \in Publishing \cup {"staged", "databases"}, Turns(p, to)
        PROVE  LocksExclude'
    BY <1>1, <1>2, <1>3, TurnKeepsLocks
  <1>4. CASE Stage(p)
    <2> DEFINE o == [opener[p] EXCEPT !.at = "staged", !.source = main]
    <2>1. o \in Openers /\ o.at = "staged" /\ o.guard = "exclusive"
      BY <1>1 DEF CacheTypeOK, Openers, OpenerStages
    <2>2. opener' = [opener EXCEPT ![p] = o]
      BY <1>4 DEF Stage, CacheTypeOK, Openers
    <2> HIDE DEF o
    <2>3. QED BY <1>1, <1>2, <2>1, <2>2, LocksKept
  <1>5. CASE JournalFails(p)
    BY <1>5, OffKeepsLocks DEF JournalFails
  <1>6. CASE RecoverFolder(p)
    <2>1. Resumed = "off" \/ Resumed \in Publishing
      BY DEF Resumed, Published, CopyLost, Publishing, Renaming
    <2>2. \/ Turns(p, "databases") \/ opener' = [opener EXCEPT ![p] = Off]
          \/ Resumed \in Publishing /\ Turns(p, Resumed)
      BY <1>6, <2>1 DEF RecoverFolder, Turns
    <2>3. QED BY <1>3, <2>2, OffKeepsLocks
  <1>7. CASE \/ CheckSource(p) \/ WriteJournal(p) \/ Retire(p) \/ Publish(p) \/ Verify(p)
             \/ Dispose(p) \/ CloseRecord(p) \/ Discard(p) \/ Withdraw(p) \/ Restore(p)
    <2>1. \E to \in Publishing \cup {"staged", "databases"} : Turns(p, to)
      BY <1>7
      DEF CheckSource, WriteJournal, Retire, Publish, Verify, Dispose, CloseRecord, Discard,
          Withdraw, Restore, Publishing, Renaming
    <2>2. QED BY <1>3, <2>1
  <1>8. QED BY <1>4, <1>5, <1>6, <1>7 DEF Replacing

LEMMA CacheStepLocks ==
    ASSUME CacheTypeOK, LocksExclude, [CacheNext]_cacheVars
    PROVE  LocksExclude'
  <1>1. ASSUME NEW p \in Processes, Fails(p) \/ Stops(p) PROVE LocksExclude'
    BY <1>1, OffKeepsLocks DEF Fails, Stops
  <1>2. CASE Damage \/ OlderProgram \/ UNCHANGED cacheVars
    BY <1>2 DEF Damage, OlderProgram, cacheVars, LocksExclude
  <1>3. QED BY <1>1, <1>2, LocksOfOpening, LocksOfReplacing DEF CacheNext

----------------------------------------------------------------------------
(* The files. *)

LEMMA Kinds ==
    /\ Absent.kind = "absent"
    /\ \A kind, data, v : /\ File(kind, data, v).kind = kind
                          /\ File(kind, data, v).data = data
                          /\ File(kind, data, v).version = v
                          /\ File(kind, data, v).opens
  BY DEF Absent, File

(* The other processes rely on nothing that a step changes: they have no lock *)
(* while one replaces the plaintext, and none replaces it while they are       *)
(* owners.                                                                    *)
LEMMA OthersKnown ==
    ASSUME CacheTypeOK, LocksExclude, NEW p \in Processes, NEW q \in Processes, q # p,
           StageKnown(q), opener'[q] = opener[q],
           \/ opener[p].guard = "exclusive"
           \/ UNCHANGED <<folder, saved, overlooked>>
           \/ /\ opener[q].guard # "exclusive" /\ UNCHANGED record
              /\ main.kind # "absent" => main'.kind = main.kind
    PROVE  StageKnown(q)'
  <1>1. CASE opener[p].guard = "exclusive"
    <2>1. opener[q].guard = "none" /\ opener[q].at \in {"off", "joining", "sharing again"}
      BY <1>1 DEF LocksExclude
    <2>2. QED BY <2>1 DEF StageKnown, Publishing, Renaming
  <1>2. CASE UNCHANGED <<folder, saved, overlooked>>
    BY <1>2 DEF folder, StageKnown, HoldsAll, Verified
  <1>3. CASE /\ opener[q].guard # "exclusive" /\ UNCHANGED record
             /\ main.kind # "absent" => main'.kind = main.kind
    <2>1. opener[q].at \notin {"staging", "staged"} \cup Publishing
      BY <1>3 DEF LocksExclude
    <2>2. QED BY <1>3, <2>1 DEF StageKnown, Publishing, Renaming
  <1>4. QED BY <1>1, <1>2, <1>3

(* A process turns to a stage that asks for nothing. *)
LEMMA IdleKnown ==
    ASSUME CacheTypeOK, NEW p \in Processes,
           opener'[p].at \in {"off", "joining", "marker", "recover", "sharing", "sharing again"}
    PROVE  StageKnown(p)'
  BY DEF StageKnown, Publishing, Renaming

(* FolderKnown and StageKnown say nothing that depends on the marker. *)
LEMMA FolderUntouched ==
    ASSUME FolderKnown, UNCHANGED <<folder, saved, overlooked>>
    PROVE  FolderKnown'
  BY DEF FolderKnown, folder, Whole, HoldsAll, Verified

LEMMA OpeningKnown ==
    ASSUME CacheIInv, NEW p \in Processes, Opening(p), ~unrecovered'
    PROVE  FolderKnown' /\ \A q \in Processes : StageKnown(q)'
  <1> USE DEF Keep
  <1>1. /\ CacheTypeOK /\ LocksExclude /\ ~unrecovered
        /\ FolderKnown /\ \A q \in Processes : StageKnown(q)
    <2>1. BecomeOwner(p) => (unrecovered => unrecovered')
      BY DEF BecomeOwner
    <2>2. ~BecomeOwner(p) => unrecovered' = unrecovered
      BY DEF Opening, OpenRoot, Join, ReleaseRoot, Share, ReadMarker, Databases,
             SaveMail, CloseRoot
    <2>3. QED BY <2>1, <2>2 DEF CacheIInv
  <1>2. /\ opener \in [Processes -> Openers] /\ opener[p] \in Openers /\ main \in Files
        /\ saved \subseteq 0 .. MaxSaves
    BY <1>1 DEF CacheTypeOK
  <1>3. \A q \in Processes : q # p => opener'[q] = opener[q]
    BY <1>2 DEF Opening, OpenRoot, Join, ReleaseRoot, Share, ReadMarker, Databases,
           BecomeOwner, SaveMail, CloseRoot, Turns, Locked
  <1>4. ASSUME UNCHANGED <<folder, saved, overlooked>>, StageKnown(p)'
        PROVE  FolderKnown' /\ \A q \in Processes : StageKnown(q)'
    BY <1>1, <1>3, <1>4, OthersKnown, FolderUntouched
  <1>5. CASE \/ \E migrate \in BOOLEAN : OpenRoot(p, migrate)
             \/ Join(p) \/ ReleaseRoot(p) \/ Share(p) \/ CloseRoot(p)
    <2>1. opener'[p].at \in {"off", "joining", "marker", "recover", "sharing", "sharing again"}
      <3>1. CASE CloseRoot(p)
        BY <1>2, <3>1 DEF CloseRoot, Off
      <3>2. CASE Join(p) \/ ReleaseRoot(p) \/ Share(p)
        BY <1>2, <3>2, ZenonT(60) DEF Join, ReleaseRoot, Share, Locked, Openers
      <3>3. ASSUME NEW migrate \in BOOLEAN, OpenRoot(p, migrate)
            PROVE  opener'[p].at \in {"joining", "marker"}
        BY <1>2, <3>3 DEF OpenRoot, Off
      <3>4. QED BY <1>5, <3>1, <3>2, <3>3
    <2>2. UNCHANGED <<folder, saved, overlooked>>
      BY <1>5 DEF OpenRoot, Join, ReleaseRoot, Share, CloseRoot
    <2>3. QED BY <1>1, <1>4, <2>1, <2>2, IdleKnown
  <1>6. CASE ReadMarker(p)
    <2>1. /\ opener'[p].guard = opener[p].guard
          /\ opener'[p].at \in {"sharing", "recover", "databases"}
          /\ opener'[p].at = "databases" => opener[p].guard # "exclusive"
          /\ UNCHANGED <<folder, saved, overlooked>>
      BY <1>2, <1>6 DEF ReadMarker, Openers
    <2>2. StageKnown(p)'
      BY <2>1 DEF StageKnown, Publishing, Renaming
    <2>3. QED BY <1>4, <2>1, <2>2
  <1>7. CASE Databases(p)
    <2>1. /\ opener[p].at = "databases" /\ opener'[p].at \in {"sharing", "staging"}
          /\ opener'[p].at = "staging" => opener[p].guard = "exclusive"
          /\ UNCHANGED <<folder, saved, overlooked>>
      BY <1>2, <1>7 DEF Databases, Turns, Doing, Openers
    <2>2. StageKnown(p)'
      BY <1>1, <2>1 DEF StageKnown, Publishing, Renaming, folder
    <2>3. QED BY <1>4, <2>1, <2>2
  <1>8. CASE BecomeOwner(p)
    <2>1. /\ opener[p].guard = "shared" /\ record = NoRecord
          /\ Unlocked(p) /\ UNCHANGED <<candidate, recovery, record, saved, overlooked>>
          /\ opener'[p].at = "owner" /\ opener'[p].key = opener[p].key
      BY <1>2, <1>8 DEF BecomeOwner, Turns, Openers
    <2>2. /\ main'.kind = IF opener[p].key THEN "keyed" ELSE "plain"
          /\ main.kind # "absent" => main'.kind = main.kind
          /\ main # Absent => main'.data = main.data /\ main'.opens = main.opens
          /\ main = Absent => main'.data = {} /\ main'.opens
      <3>1. main = Absent \/ main.kind # "absent"
        BY <1>1, <2>1, Kinds DEF FolderKnown, Whole, HoldsAll
      <3>2. CASE main = Absent
        BY <1>8, <3>2, Kinds DEF BecomeOwner
      <3>3. CASE main.kind # "absent"
        <4>1. main' = [main EXCEPT !.version = CurrentVersion] /\ main # Absent
          BY <1>8, <3>3, Kinds DEF BecomeOwner
        <4>2. main.kind \in {"plain", "keyed"}
          BY <1>2, <3>3 DEF Files
        <4>3. QED BY <1>2, <2>1, <3>3, <4>1, <4>2 DEF Files, Unlocked
      <3>4. QED BY <3>1, <3>2, <3>3
    <2>3. FolderKnown'
      BY <1>1, <2>1, <2>2, Kinds DEF FolderKnown, Whole, HoldsAll
    <2>4. StageKnown(p)'
      BY <2>1, <2>2 DEF StageKnown, Publishing, Renaming
    <2>5. ASSUME NEW q \in Processes, q # p PROVE StageKnown(q)'
      <3>1. opener[q].guard # "exclusive"
        BY <1>1, <2>1, <2>5 DEF LocksExclude
      <3>2. QED BY <1>1, <1>3, <2>1, <2>2, <2>5, <3>1, OthersKnown
    <2>6. QED BY <2>3, <2>4, <2>5
  <1>9. CASE SaveMail(p)
    <2>1. /\ opener[p].at = "owner" /\ opener' = opener
          /\ UNCHANGED <<candidate, recovery, record, overlooked>>
          /\ main'.kind = main.kind /\ main'.opens = main.opens
          /\ main'.data = main.data \cup {Cardinality(saved)}
          /\ saved' = saved \cup {Cardinality(saved)}
      BY <1>2, <1>9 DEF SaveMail, Doing, Files
    <2>2. record = NoRecord /\ main.kind # "absent" /\ opener[p].guard = "shared"
      BY <1>1, <2>1 DEF StageKnown, LocksExclude
    <2>3. FolderKnown'
      BY <1>1, <2>1, <2>2, Kinds DEF FolderKnown, Whole, HoldsAll
    <2>4. ASSUME NEW q \in Processes PROVE StageKnown(q)'
      <3>1. opener[q].guard # "exclusive"
        BY <1>1, <2>2, <2>4 DEF LocksExclude
      <3>2. opener[q].at \notin {"staging", "staged"} \cup Publishing
        BY <1>1, <3>1 DEF LocksExclude
      <3>3. QED BY <1>1, <2>1, <3>2 DEF StageKnown, Publishing, Renaming
    <2>5. QED BY <2>3, <2>4
  <1>10. QED BY <1>5, <1>6, <1>7, <1>8, <1>9 DEF Opening

LEMMA FailingKnown ==
    ASSUME CacheIInv, NEW p \in Processes, Fails(p) \/ Stops(p), ~unrecovered'
    PROVE  FolderKnown' /\ \A q \in Processes : StageKnown(q)'
  <1>1. /\ CacheTypeOK /\ LocksExclude /\ opener \in [Processes -> Openers]
        /\ FolderKnown /\ \A q \in Processes : StageKnown(q)
    BY DEF CacheIInv, CacheTypeOK, Fails, Stops
  <1>2. /\ opener'[p].at = "off" /\ \A q \in Processes : q # p => opener'[q] = opener[q]
        /\ UNCHANGED <<main, recovery, record, saved, overlooked>>
    <2>1. opener' = [opener EXCEPT ![p] = Off] /\ Off.at = "off"
      BY DEF Fails, Stops, Off
    <2>2. QED BY <1>1, <2>1 DEF Fails, Stops, folder
  <1>3. candidate' = candidate \/ (candidate' = Absent /\ opener[p].guard = "exclusive"
                                  /\ record = NoRecord)
    BY <1>1 DEF Fails, Stops, folder, LocksExclude, StageKnown, Publishing
  <1>4. FolderKnown'
    BY <1>1, <1>2, <1>3 DEF FolderKnown, Whole, HoldsAll, Verified
  <1>5. ASSUME NEW q \in Processes, q # p PROVE StageKnown(q)'
    BY <1>1, <1>2, <1>3, <1>5, OthersKnown DEF folder
  <1>6. QED BY <1>1, <1>2, <1>4, <1>5, IdleKnown

LEMMA OutsideKnown ==
    ASSUME CacheIInv, Damage \/ OlderProgram \/ UNCHANGED cacheVars, ~unrecovered'
    PROVE  FolderKnown' /\ \A q \in Processes : StageKnown(q)'
  <1>1. /\ CacheTypeOK /\ LocksExclude
        /\ FolderKnown /\ \A q \in Processes : StageKnown(q)
        /\ main \in Files /\ candidate \in Files /\ opener' = opener
    BY DEF CacheIInv, CacheTypeOK, Damage, OlderProgram, cacheVars
  <1>2. CASE Damage
    <2>1. /\ record # NoRecord /\ UNCHANGED <<recovery, record, saved, overlooked>>
          /\ \A q \in Processes : opener[q].guard # "exclusive"
      BY <1>2 DEF Damage, Unattended, Holding
    <2>2. \A q \in Processes : StageKnown(q)'
      <3>1. \A q \in Processes :
               opener[q].at \notin {"staging", "staged", "owner"} \cup Publishing
        BY <1>1, <2>1 DEF LocksExclude, StageKnown
      <3>2. QED BY <1>1, <2>1, <3>1 DEF StageKnown, Publishing, Renaming
    <2>3. FolderKnown'
      <3>1. CASE /\ candidate # Absent /\ UNCHANGED main
                 /\ candidate' \in {Absent, [candidate EXCEPT !.opens = FALSE]}
        <4>1. /\ candidate' # Absent =>
                   candidate'.kind = candidate.kind /\ candidate'.data = candidate.data
          BY <1>1, <3>1 DEF Files
        <4>2. QED BY <1>1, <2>1, <3>1, <4>1 DEF FolderKnown, Whole, HoldsAll, Verified
      <3>2. CASE /\ main.kind = "keyed" /\ recovery # Absent /\ UNCHANGED candidate
                 /\ main' = [main EXCEPT !.opens = FALSE]
        <4>1. main'.kind = "keyed" /\ main'.data = main.data
          BY <1>1, <3>2 DEF Files
        <4>2. QED BY <1>1, <2>1, <3>2, <4>1, Kinds DEF FolderKnown, Whole, HoldsAll, Verified
      <3>3. QED BY <1>2, <3>1, <3>2 DEF Damage
    <2>4. QED BY <2>2, <2>3
  <1>3. CASE OlderProgram
    <2>1. /\ main.kind = "plain" /\ UNCHANGED <<candidate, recovery, record>>
          /\ main'.kind = main.kind /\ main'.opens = main.opens
          /\ main'.data = main.data \cup {Cardinality(saved)}
          /\ saved' = saved \cup {Cardinality(saved)}
          /\ overlooked \subseteq overlooked'
          /\ \A q \in Processes : opener[q].at \in {"journal", "retire"} =>
                 overlooked' = overlooked \cup {Cardinality(saved)}
      BY <1>1, <1>3 DEF OlderProgram, Compared, Files
    <2>2. FolderKnown'
      BY <1>1, <2>1, Kinds DEF FolderKnown, Whole, HoldsAll
    <2>3. ASSUME NEW q \in Processes PROVE StageKnown(q)'
      <3>1. opener[q].at \in {"journal", "retire"} => (HoldsAll(candidate) => HoldsAll(candidate)')
        BY <2>1 DEF HoldsAll
      <3>2. Verified(candidate)' <=> Verified(candidate)
        BY <2>1 DEF Verified
      <3>3. QED BY <1>1, <2>1, <3>1, <3>2, Kinds DEF StageKnown, Publishing, Renaming
    <2>4. QED BY <2>2, <2>3
  <1>4. CASE UNCHANGED cacheVars
    BY <1>1, <1>4, FolderUntouched
    DEF cacheVars, folder, StageKnown, HoldsAll, Verified
  <1>5. QED BY <1>2, <1>3, <1>4

LEMMA ReplacingKnown ==
    ASSUME CacheIInv, NEW p \in Processes, Replacing(p), ~unrecovered'
    PROVE  FolderKnown' /\ \A q \in Processes : StageKnown(q)'
  <1> USE DEF Keep, Doing
  <1>1. /\ CacheTypeOK /\ LocksExclude /\ FolderKnown /\ StageKnown(p) /\ OnlySaved
        /\ opener \in [Processes -> Openers] /\ opener[p] \in Openers
        /\ main \in Files /\ candidate \in Files /\ recovery \in Files
        /\ UNCHANGED saved /\ ~unrecovered
    BY DEF CacheIInv, CacheTypeOK, Replacing, Stage, CheckSource, WriteJournal, JournalFails,
           Retire, Publish, Verify, Dispose, CloseRecord, RecoverFolder, Discard, Withdraw,
           Restore
  <1>2. opener[p].guard = "exclusive"
    BY <1>1
    DEF Replacing, Stage, CheckSource, WriteJournal, JournalFails, Retire, Publish, Verify,
        Dispose, CloseRecord, RecoverFolder, Discard, Withdraw, Restore, LocksExclude,
        Publishing, Renaming
  <1>3. ASSUME FolderKnown', StageKnown(p)'
        PROVE  FolderKnown' /\ \A q \in Processes : StageKnown(q)'
    <2>1. \A q \in Processes : q # p => opener'[q] = opener[q]
      BY <1>1
      DEF Replacing, Stage, CheckSource, WriteJournal, JournalFails, Retire, Publish, Verify,
          Dispose, CloseRecord, RecoverFolder, Discard, Withdraw, Restore, Turns
    <2>2. \A q \in Processes : StageKnown(q)
      BY <1>1 DEF CacheIInv
    <2>3. QED BY <1>1, <1>2, <1>3, <2>1, <2>2, OthersKnown
  <1>4. ASSUME NEW to, Turns(p, to)
        PROVE  /\ opener'[p].at = to /\ opener'[p].source = opener[p].source
               /\ opener'[p].guard = "exclusive"
    BY <1>1, <1>2, <1>4 DEF Turns, Openers
  <1> USE DEF StageKnown, FolderKnown, Publishing, Renaming
  <1>5. CASE Stage(p)
    <2>1. /\ opener'[p].at = "staged" /\ opener'[p].source = main /\ main.kind = "plain"
          /\ candidate' = File("keyed", main.data, main.version) /\ record = NoRecord
          /\ UNCHANGED <<main, recovery, record>> /\ overlooked' \subseteq overlooked
          /\ overlooked \ main.data \subseteq overlooked'
      BY <1>1, <1>5 DEF Stage, Openers
    <2>2. FolderKnown'
      BY <1>1, <2>1 DEF Whole, HoldsAll
    <2>3. StageKnown(p)'
      BY <2>1
    <2>4. QED BY <1>3, <2>2, <2>3
  <1>6. CASE CheckSource(p)
    <2>1. /\ opener[p].at = "staged" /\ opener'[p].at = "journal" /\ UNCHANGED <<folder, overlooked>>
          /\ opener'[p].source = opener[p].source /\ Unchanged(p) /\ main.kind = "plain"
      BY <1>4, <1>6 DEF CheckSource, Publishable
    <2>2. FolderKnown'
      BY <1>1, <2>1, FolderUntouched
    <2>3. StageKnown(p)'
      <3>1. Whole(main) /\ record = NoRecord
        BY <1>1, <2>1, Kinds
      <3>2. candidate = File("keyed", main.data, opener[p].source.version)
        BY <1>1, <2>1 DEF Unchanged
      <3>3. HoldsAll(candidate)
        BY <3>1, <3>2, Kinds DEF Whole, HoldsAll
      <3>4. QED BY <1>1, <2>1, <3>1, <3>3 DEF folder, HoldsAll
    <2>4. QED BY <1>3, <2>2, <2>3
  <1>7. ASSUME WriteJournal(p) \/ JournalFails(p)
        PROVE  /\ record' # NoRecord /\ record'.source = main
               /\ record'.version = candidate.version /\ UNCHANGED <<main, recovery, overlooked>>
               /\ main.kind = "plain" /\ Whole(main) /\ recovery = Absent
               /\ candidate.kind = "keyed" /\ candidate.opens /\ candidate # Absent
               /\ HoldsAll(candidate) /\ main.data \ overlooked \subseteq candidate.data
    <2>1. /\ opener[p].at = "journal" /\ UNCHANGED <<main, recovery, overlooked>>
          /\ record' = [version |-> candidate.version, source |-> main]
      BY <1>7 DEF WriteJournal, JournalFails
    <2>2. /\ record = NoRecord /\ main.kind = "plain" /\ HoldsAll(candidate)
          /\ main.data \subseteq saved
          /\ candidate = File("keyed", opener[p].source.data, opener[p].source.version)
      BY <1>1, <2>1 DEF OnlySaved
    <2>3. record'.source = main /\ record'.version = candidate.version /\ NoRecord.source = Absent
      BY <2>1 DEF NoRecord
    <2>4. candidate.kind = "keyed" /\ candidate.opens /\ candidate # Absent
      BY <2>2, Kinds DEF File
    <2>5. main.data \ overlooked \subseteq candidate.data
      BY <2>2 DEF HoldsAll
    <2>6. QED BY <1>1, <2>1, <2>2, <2>3, <2>4, <2>5, Kinds
  <1>8. CASE WriteJournal(p)
    <2>1. opener'[p].at = "retire" /\ UNCHANGED <<candidate, overlooked>>
      BY <1>4, <1>8 DEF WriteJournal
    <2>2. FolderKnown'
      BY <1>1, <1>7, <1>8, <2>1, Kinds DEF Whole, HoldsAll
    <2>3. StageKnown(p)'
      BY <1>1, <1>7, <1>8, <2>1, Kinds DEF HoldsAll, Verified
    <2>4. QED BY <1>3, <2>2, <2>3
  <1>9. CASE JournalFails(p)
    <2>1. opener'[p].at = "off" /\ candidate' = Absent
      BY <1>1, <1>9 DEF JournalFails, Off
    <2>2. FolderKnown'
      BY <1>1, <1>7, <1>9, <2>1 DEF Whole, HoldsAll
    <2>3. StageKnown(p)'
      BY <2>1
    <2>4. QED BY <1>3, <2>2, <2>3
  <1>10. CASE Retire(p)
    <2>1. /\ opener[p].at = "retire" /\ opener'[p].at = "publish" /\ recovery = Absent
          /\ main' = Absent /\ recovery' = main /\ UNCHANGED <<candidate, record, overlooked>>
      BY <1>4, <1>10 DEF Retire
    <2>2. /\ record # NoRecord /\ main.kind = "plain" /\ Whole(main)
          /\ Verified(candidate) /\ HoldsAll(candidate)
      BY <1>1, <2>1, Kinds
    <2>3. FolderKnown'
      BY <1>1, <2>1, <2>2, Kinds DEF Whole, HoldsAll
    <2>4. StageKnown(p)'
      BY <2>1, <2>2 DEF Verified
    <2>5. QED BY <1>3, <2>3, <2>4
  <1>11. CASE Publish(p)
    <2>1. /\ opener[p].at = "publish" /\ opener'[p].at = "verify" /\ main = Absent
          /\ main' = candidate /\ candidate' = Absent /\ UNCHANGED <<recovery, record, overlooked>>
      BY <1>4, <1>11 DEF Publish
    <2>2. /\ record # NoRecord /\ Verified(candidate) /\ candidate # Absent
          /\ recovery.kind = "plain" /\ Whole(recovery) /\ HoldsAll(candidate)
      BY <1>1, <2>1, Kinds DEF Verified, Whole, HoldsAll
    <2>3. FolderKnown'
      BY <1>1, <2>1, <2>2 DEF Whole, HoldsAll, Verified
    <2>4. StageKnown(p)'
      BY <2>1, <2>2, Kinds DEF Verified, Whole, HoldsAll
    <2>5. QED BY <1>3, <2>3, <2>4
  <1>12. CASE Verify(p)
    <2>1. /\ opener[p].at = "verify" /\ opener'[p].at = "dispose" /\ UNCHANGED <<folder, overlooked>>
      BY <1>4, <1>12 DEF Verify
    <2>2. FolderKnown'
      BY <1>1, <2>1, FolderUntouched
    <2>3. StageKnown(p)'
      BY <1>1, <2>1 DEF folder, Verified
    <2>4. QED BY <1>3, <2>2, <2>3
  <1>13. CASE Dispose(p)
    <2>1. /\ opener[p].at = "dispose" /\ opener'[p].at = "finish" /\ recovery' = Absent
          /\ UNCHANGED <<main, candidate, record, overlooked>>
      BY <1>4, <1>13 DEF Dispose
    <2>2. /\ record # NoRecord /\ Verified(main) /\ main.kind = "keyed" /\ candidate = Absent
          /\ HoldsAll(main)
      BY <1>1, <2>1, Kinds
    <2>3. FolderKnown'
      BY <1>1, <2>1, <2>2 DEF Verified, HoldsAll
    <2>4. StageKnown(p)'
      BY <2>1, <2>2
    <2>5. QED BY <1>3, <2>3, <2>4
  <1>14. CASE CloseRecord(p)
    <2>1. /\ opener[p].at = "finish" /\ opener'[p].at = "databases" /\ record' = NoRecord
          /\ UNCHANGED <<main, candidate, recovery, overlooked>>
      BY <1>4, <1>14 DEF CloseRecord
    <2>2. /\ recovery = Absent /\ Whole(main)
      BY <1>1, <2>1, Kinds DEF Verified, Whole, HoldsAll
    <2>3. FolderKnown'
      BY <1>1, <2>1, <2>2 DEF Whole, HoldsAll
    <2>4. StageKnown(p)'
      BY <2>1
    <2>5. QED BY <1>3, <2>3, <2>4
  <1>15. CASE RecoverFolder(p)
    <2>1. CASE record = NoRecord
      <3>1. /\ candidate' = Absent /\ opener'[p].at = "databases"
            /\ UNCHANGED <<main, recovery, record, overlooked>>
        BY <1>4, <1>15, <2>1 DEF RecoverFolder, CleanOrphans
      <3>2. QED BY <1>1, <1>3, <2>1, <3>1 DEF Whole, HoldsAll
    <2>2. CASE record # NoRecord
      <3>1. /\ UNCHANGED <<folder, overlooked>>
            /\ opener'[p].at \in {"off", Resumed}
        <4>1. \/ opener' = [opener EXCEPT ![p] = Off] /\ Off.at = "off"
              \/ Turns(p, Resumed)
          BY <1>15, <2>2 DEF RecoverFolder, Turns, Off
        <4>2. QED BY <1>1, <1>4, <1>15, <2>2, <4>1 DEF RecoverFolder, folder
      <3>2. FolderKnown'
        BY <1>1, <3>1, FolderUntouched
      <3>3. /\ Resumed \in Publishing \cup {"off"} /\ Resumed # "journal"
            /\ Resumed = "retire" => Continues /\ main.kind = "plain" /\ Whole(main)
            /\ Resumed = "publish" => main = Absent /\ Verified(candidate)
            /\ Resumed # "verify"
            /\ Resumed = "dispose" => Verified(main)
            /\ Resumed \in {"dispose", "withdraw"} => main.kind = "keyed" /\ recovery # Absent
            /\ Resumed = "restore" => main = Absent
            /\ Resumed = "discard" => main.kind # "keyed"
            /\ Resumed = "finish" => candidate = Absent /\ recovery = Absent
        BY <1>1, <2>2, Kinds DEF Resumed, Published, CopyLost, FolderIs
      <3>4. StageKnown(p)'
        <4>1. Resumed = "retire" => HoldsAll(candidate)
          BY <1>1, <2>2, <3>3, Kinds DEF Continues, Verified, Whole, HoldsAll
        <4>2. QED BY <1>1, <2>2, <3>1, <3>3, <4>1 DEF folder, Continues, Verified, HoldsAll
      <3>5. QED BY <1>3, <3>2, <3>4
    <2>3. QED BY <2>1, <2>2
  <1>16. CASE Discard(p)
    <2>1. /\ opener[p].at = "discard" /\ candidate' = Absent
          /\ opener'[p].at = IF main = Absent THEN "restore" ELSE "finish"
          /\ UNCHANGED <<main, recovery, record, overlooked>>
      BY <1>4, <1>16 DEF Discard
    <2>2. FolderKnown'
      BY <1>1, <2>1 DEF Whole, HoldsAll, Verified
    <2>3. StageKnown(p)'
      BY <1>1, <2>1
    <2>4. QED BY <1>3, <2>2, <2>3
  <1>17. CASE Withdraw(p)
    <2>1. /\ opener[p].at = "withdraw" /\ opener'[p].at = "restore"
          /\ candidate' = main /\ main' = Absent /\ UNCHANGED <<recovery, record, overlooked>>
      BY <1>4, <1>17 DEF Withdraw
    <2>2. /\ record # NoRecord /\ main.kind = "keyed" /\ HoldsAll(main)
          /\ recovery.kind = "plain" /\ Whole(recovery)
      BY <1>1, <2>1, Kinds
    <2>3. FolderKnown'
      <3>1. record.source.data \ overlooked \subseteq main.data
        BY <1>1, <2>2 DEF HoldsAll, OnlySaved
      <3>2. QED BY <1>1, <2>1, <2>2, <3>1 DEF Whole, HoldsAll
    <2>4. StageKnown(p)'
      BY <2>1, <2>2
    <2>5. QED BY <1>3, <2>3, <2>4
  <1>18. CASE Restore(p)
    <2>1. /\ opener[p].at = "restore" /\ main = Absent /\ main' = recovery /\ recovery' = Absent
          /\ opener'[p].at = IF candidate # Absent THEN "discard" ELSE "finish"
          /\ UNCHANGED <<candidate, record, overlooked>>
      BY <1>4, <1>18 DEF Restore
    <2>2. /\ record # NoRecord /\ recovery.kind = "plain" /\ Whole(recovery)
      BY <1>1, <2>1, Kinds
    <2>3. FolderKnown'
      BY <1>1, <2>1, <2>2 DEF Whole, HoldsAll
    <2>4. StageKnown(p)'
      BY <2>1, <2>2
    <2>5. QED BY <1>3, <2>3, <2>4
  <1>19. QED
    BY <1>5, <1>6, <1>8, <1>9, <1>10, <1>11, <1>12, <1>13, <1>14, <1>15, <1>16, <1>17, <1>18
    DEF Replacing

(* No file holds anything but writes that were made. *)
LEMMA OnlySavedKept ==
    ASSUME CacheTypeOK, OnlySaved, [CacheNext]_cacheVars
    PROVE  OnlySaved'
  <1> USE DEF Keep, OnlySaved, folder
  <1>1. main \in Files /\ candidate \in Files /\ Absent.data = {}
    BY DEF CacheTypeOK, Absent
  <1>2. ASSUME NEW p \in Processes, Opening(p) PROVE OnlySaved'
    <2>1. CASE SaveMail(p)
      <3>1. main'.data = main.data \cup {Cardinality(saved)}
        BY <1>1, <2>1 DEF SaveMail, Files
      <3>2. QED BY <2>1, <3>1 DEF SaveMail
    <2>2. CASE BecomeOwner(p)
      <3>1. main'.data \in {{}, main.data}
        BY <1>1, <2>2 DEF BecomeOwner, File, Files
      <3>2. QED BY <2>2, <3>1 DEF BecomeOwner
    <2>3. QED BY <1>2, <2>1, <2>2
                 DEF Opening, OpenRoot, Join, ReleaseRoot, Share, ReadMarker, Databases, CloseRoot
  <1>3. ASSUME NEW p \in Processes, Replacing(p) PROVE OnlySaved'
    <2>1. /\ {main', candidate', recovery'} \subseteq
                {main, candidate, recovery, Absent, File("keyed", main.data, main.version)}
          /\ saved' = saved
          /\ record'.source \in {main, record.source, Absent}
      BY <1>3 DEF Replacing, NoRecord, Stage, CheckSource, WriteJournal, JournalFails, Retire, Publish,
                  Verify, Dispose, CloseRecord, RecoverFolder, CleanOrphans, Discard, Withdraw,
                  Restore
    <2>2. File("keyed", main.data, main.version).data = main.data
      BY DEF File
    <2>3. QED BY <1>1, <2>1, <2>2
  <1>4. ASSUME NEW p \in Processes, Fails(p) \/ Stops(p) PROVE OnlySaved'
    BY <1>1, <1>4 DEF Fails, Stops
  <1>5. CASE Damage
    <2>1. main'.data = main.data /\ candidate'.data \in {{}, candidate.data}
      BY <1>1, <1>5 DEF Damage, Files
    <2>2. QED BY <1>5, <2>1 DEF Damage
  <1>6. CASE OlderProgram
    <2>1. main'.data = main.data \cup {Cardinality(saved)}
      BY <1>1, <1>6 DEF OlderProgram, Files
    <2>2. QED BY <1>6, <2>1 DEF OlderProgram
  <1>7. CASE UNCHANGED cacheVars
    BY <1>7 DEF cacheVars
  <1>8. QED BY <1>2, <1>3, <1>4, <1>5, <1>6, <1>7 DEF CacheNext

LEMMA CacheStepInv == CacheIInv /\ [CacheNext]_cacheVars => CacheIInv'
  <1> SUFFICES ASSUME CacheIInv, [CacheNext]_cacheVars PROVE CacheIInv'
    OBVIOUS
  <1>1. CacheTypeOK' /\ LocksExclude'
    BY CacheStepType, CacheStepLocks DEF CacheIInv
  <1>2. ~unrecovered' => FolderKnown' /\ \A q \in Processes : StageKnown(q)'
    BY OpeningKnown, ReplacingKnown, FailingKnown, OutsideKnown DEF CacheNext
  <1>3. OnlySaved'
    BY OnlySavedKept DEF CacheIInv
  <1>4. QED BY <1>1, <1>2, <1>3 DEF CacheIInv

----------------------------------------------------------------------------
(* Theorems. *)

(* The folder of a cache keeps its types, its lock excludes, and every file is *)
(* where some step of a replacement left it, for any number of processes.      *)
THEOREM CacheHolds == CacheSpec => []CacheIInv
  <1>1. QED BY CacheInitInv, CacheStepInv, PTL DEF CacheSpec

THEOREM CacheTypesHold == CacheSpec => []CacheTypeOK
  <1>1. CacheIInv => CacheTypeOK
    BY DEF CacheIInv
  <1>2. QED BY <1>1, CacheHolds, PTL

(* Wherever a process, or all of them, may stop, one file holds every write,    *)
(* owners work on it, and recovery knows how to go on.                         *)
THEOREM CacheStaysWhole == CacheSpec => []CacheIsWhole
  <1>1. CacheIInv => CacheIsWhole
    <2> SUFFICES ASSUME CacheIInv, ~unrecovered
                 PROVE  /\ saved # {} => Whole(main) \/ Whole(recovery) \/ Whole(candidate)
                        /\ \A p \in Processes : Doing(p, "owner") =>
                               /\ Whole(main) \/ saved = {}
                               /\ opener[p].key => main.kind = "keyed" /\ recovery = Absent
                        /\ record # NoRecord => Resumed # "off"
      BY DEF CacheIsWhole
    <2>1. FolderKnown /\ \A p \in Processes : StageKnown(p)
      BY DEF CacheIInv
    <2>2. saved # {} => Whole(main) \/ Whole(recovery) \/ Whole(candidate)
      BY <2>1 DEF FolderKnown, Verified, Whole, HoldsAll
    <2>3. ASSUME NEW p \in Processes, Doing(p, "owner")
          PROVE  /\ Whole(main) \/ saved = {}
                 /\ opener[p].key => main.kind = "keyed" /\ recovery = Absent
      <3>1. StageKnown(p) /\ opener[p].at = "owner"
        BY <2>1, <2>3 DEF Doing
      <3>2. QED BY <2>1, <3>1 DEF FolderKnown, StageKnown
    <2>4. record # NoRecord => Resumed # "off"
      BY <2>1, Kinds DEF FolderKnown, Whole, HoldsAll, Verified, Resumed, Published, CopyLost, FolderIs
    <2>5. QED BY <2>2, <2>3, <2>4
  <1>2. QED BY <1>1, CacheHolds, PTL

----------------------------------------------------------------------------
(* Folder changes and folder creation *)

LEMMA RootIsLeaf == Root \in Leaves
  <1>1. Cardinality(Leaves) \in Nat
    BY LeavesAssumption, FS_CardinalityType
  <1>2. QED BY <1>1, LeavesAssumption DEF Root

(* The neutral values have their types. *)
LEMMA FolderNeutral ==
    /\ NoPlan \in Plans
    /\ NoJob \in [open : BOOLEAN, plan : Plans, step : [Leaves -> Steps]]
    /\ RunnerOff \in [at : {"off", "confirm", "next", "send", "record"}, leaf : Leaves,
                      outcome : FolderOutcomes]
    /\ NoCreation \in [stage : CreationStages, target : BOOLEAN, receipt : BOOLEAN]
    /\ MakerOff \in [at : {"off", "plan", "inspect", "create", "answer", "list"},
                     stale : BOOLEAN, outcome : FolderOutcomes \cup {"unsent"}]
  <1>1. NoPlan \in Plans
    BY DEF NoPlan, Plans, FoundKinds, ListedKinds
  <1>2. QED
    BY <1>1, RootIsLeaf
    DEF NoJob, RunnerOff, NoCreation, MakerOff, Steps, FolderOutcomes, CreationStages

----------------------------------------------------------------------------
(* Types. *)

Jobs == [open : BOOLEAN, plan : Plans, step : [Leaves -> Steps]]
Runners == [at : {"off", "confirm", "next", "send", "record"}, leaf : Leaves,
            outcome : FolderOutcomes]
Creations == [stage : CreationStages, target : BOOLEAN, receipt : BOOLEAN]
Makers == [at : {"off", "plan", "inspect", "create", "answer", "list"},
           stale : BOOLEAN, outcome : FolderOutcomes \cup {"unsent"}]
Placed == [Leaves -> Sides \cup {"gone"}]

LEMMA FolderTypes ==
    FolderTypeOK <=>
        /\ imap \in BOOLEAN /\ mailWork \in BOOLEAN
        /\ served \in Listings /\ catalog \in Listings
        /\ stored \in Placed /\ cached \in Placed
        /\ job \in Jobs /\ folderForm \in Plans /\ runner \in Runners
        /\ creation \in Creations /\ maker \in Makers
        /\ applied \subseteq Leaves /\ made \in BOOLEAN
  BY DEF FolderTypeOK, Jobs, Runners, Creations, Makers, Placed

LEMMA FolderInitType == FolderInit => FolderTypeOK
  <1> SUFFICES ASSUME FolderInit PROVE FolderTypeOK
    OBVIOUS
  <1>1. PICK root \in ListedKinds, below \in [Leaves \ {Root} -> {"none", "mail"}] :
          /\ served = [p \in Sides |-> [l \in Leaves |->
                          CASE p = "there" -> "none"
                            [] p = "here" /\ l = Root -> root
                            [] OTHER -> below[l]]]
          /\ stored = [l \in Leaves |->
                          IF served["here"][l] = "mail" THEN "here" ELSE "gone"]
    BY DEF FolderInit
  <1>2. served \in Listings
    BY <1>1 DEF Listings, ListedKinds, Sides
  <1>3. stored \in Placed
    BY <1>1 DEF Placed, Sides
  <1>4. QED
    BY <1>2, <1>3, FolderNeutral, FolderTypes
    DEF FolderInit, Jobs, Runners, Creations, Makers

(* A step of the reviewed change keeps its plan. *)
LEMMA StepTypes ==
    ASSUME FolderTypeOK
    PROVE  /\ RecoveredSteps(job) \in Jobs
           /\ RecoveredSteps(job).plan = job.plan /\ RecoveredSteps(job).open = job.open
           /\ Retried(job) \in Jobs
           /\ \A l \in Leaves, s \in Steps : [job EXCEPT !.step[l] = s] \in Jobs
           /\ \A j \in Jobs : Closed(j) \in Jobs /\ Closed(j).plan = j.plan
                              /\ Closed(j).step = j.step
           /\ [job EXCEPT !.step = [l \in Leaves |-> Stopped(@[l])]] \in Jobs
  <1>1. job \in Jobs
    BY FolderTypes
  <1>2. RecoveredSteps(job) \in Jobs
    BY <1>1 DEF RecoveredSteps, Jobs, Steps
  <1>3. Retried(job) \in Jobs
    BY <1>1 DEF Retried, Jobs, Steps
  <1>4. \A l \in Leaves, s \in Steps : [job EXCEPT !.step[l] = s] \in Jobs
    BY <1>1 DEF Jobs
  <1>5. \A j \in Jobs : Closed(j) \in Jobs /\ Closed(j).plan = j.plan
                        /\ Closed(j).step = j.step
    BY DEF Closed, Jobs, HasStep
  <1>6. [job EXCEPT !.step = [l \in Leaves |-> Stopped(@[l])]] \in Jobs
    <2>1. \A l \in Leaves : Stopped(job.step[l]) \in Steps
      BY <1>1 DEF Jobs, Steps, Stopped
    <2>2. QED BY <1>1, <2>1 DEF Jobs
  <1>7. QED BY <1>1, <1>2, <1>3, <1>4, <1>5, <1>6 DEF RecoveredSteps, Jobs

LEMMA TreeTypes ==
    ASSUME NEW c \in Listings
    PROVE  /\ \A l \in Leaves, p \in Sides : Node(c, p, l) \in FoundKinds
           /\ TreeKinds(c) \in [Leaves -> FoundKinds]
  BY DEF Listings, Node, TreeKinds, FoundKinds, Sides

LEMMA ChangeTypes ==
    ASSUME FolderTypeOK,
           \/ AdmitMail \/ FinishMail \/ RefreshFolders
           \/ \E action \in {"rename", "delete"} : Review(action)
           \/ StartFolders \/ Take \/ GiveUpTurn \/ ClaimStep \/ RecordStep
           \/ RetryFolders \/ \E accept \in BOOLEAN : StopFolders(accept)
           \/ UNCHANGED folderVars
    PROVE  FolderTypeOK'
  <1> USE DEF folderServer, folderCache, change, asked, folderVars
  <1>1. CASE AdmitMail \/ FinishMail \/ RefreshFolders \/ UNCHANGED folderVars
    BY <1>1, FolderTypes DEF AdmitMail, FinishMail, RefreshFolders, FolderTypeOK
  <1>2. ASSUME NEW action \in {"rename", "delete"}, Review(action) PROVE FolderTypeOK'
    <2>1. Reviewed(action) \in Plans
      BY <1>2, TreeTypes DEF Reviewed, Plans, Nodes, FolderTypeOK
    <2>2. QED BY <1>2, <2>1 DEF Review, FolderTypeOK
  <1>3. CASE StartFolders
    <2>1. job' \in Jobs
      BY <1>3, FolderTypes DEF StartFolders, Jobs, Steps
    <2>2. QED BY <1>3, <2>1, FolderNeutral DEF StartFolders, FolderTypeOK, Jobs
  <1>4. CASE Take
    <2>1. runner' \in Runners
      BY <1>4, FolderTypes, FolderNeutral DEF Take, Runners
    <2>2. QED BY <1>4, <2>1, StepTypes, ZenonT(60) DEF Take, FolderTypeOK, Jobs, Runners
  <1>5. CASE GiveUpTurn
    BY <1>5, FolderNeutral DEF GiveUpTurn, FolderTypeOK
  <1>6. CASE ClaimStep
    <2>1. PICK l \in Leaves :
            /\ job' = [job EXCEPT !.step[l] = "Running"]
            /\ runner' = [leaf |-> l, outcome |-> "applied",
                          at |-> IF imap /\ NeedsCommand(IF imap THEN served ELSE catalog, l)
                                 THEN "send" ELSE "record"]
      BY <1>6 DEF ClaimStep
    <2>2. job' \in Jobs
      BY <2>1, StepTypes DEF Steps
    <2>3. runner' \in Runners
      <3> DEFINE next == IF imap /\ NeedsCommand(IF imap THEN served ELSE catalog, l)
                         THEN "send" ELSE "record"
      <3>1. next \in {"send", "record"}
        OBVIOUS
      <3>2. runner' = [leaf |-> l, outcome |-> "applied", at |-> next]
        BY <2>1
      <3> HIDE DEF next
      <3>3. QED BY <3>1, <3>2 DEF Runners, FolderOutcomes
    <2>4. QED BY <1>6, <2>2, <2>3 DEF ClaimStep, FolderTypeOK, Jobs, Runners
  <1>7. CASE RecordStep
    <2>1. StepAfter(runner.outcome) \in Steps /\ runner.leaf \in Leaves
      BY FolderTypes DEF StepAfter, Steps, Runners, FolderOutcomes
    <2>2. job' \in Jobs
      BY <1>7, <2>1, StepTypes DEF RecordStep
    <2>3. runner' \in Runners
      BY <1>7, FolderNeutral DEF RecordStep, Runners
    <2>4. QED BY <1>7, <2>2, <2>3 DEF RecordStep, FolderTypeOK, Jobs, Runners
  <1>8. CASE RetryFolders
    <2>1. Retried(RecoveredSteps(job)) \in Jobs
      BY StepTypes DEF Retried, Jobs, Steps
    <2>2. job' \in Jobs
      BY <1>8, <2>1, StepTypes DEF RetryFolders
    <2>3. QED BY <1>8, <2>2 DEF RetryFolders, FolderTypeOK, Jobs
  <1>9. ASSUME NEW accept \in BOOLEAN, StopFolders(accept) PROVE FolderTypeOK'
    <2>1. job' \in Jobs
      BY <1>9, StepTypes DEF StopFolders
    <2>2. QED BY <1>9, <2>1 DEF StopFolders, FolderTypeOK, Jobs
  <1>10. QED BY <1>1, <1>2, <1>3, <1>4, <1>5, <1>6, <1>7, <1>8, <1>9

(* What the server and the cache hold of each leaf keeps its type. *)
LEMMA ServerTypes ==
    ASSUME FolderTypeOK,
           \/ SendCommand \/ Confirm \/ Tidy
           \/ \E p \in Sides, l \in Leaves : OthersCreate(p, l) \/ OthersDelete(p, l)
    PROVE  FolderTypeOK'
  <1> USE DEF folderServer, folderCache, change, asked
  <1>1. /\ served \in Listings /\ stored \in Placed /\ catalog \in Listings
        /\ cached \in Placed /\ job \in Jobs /\ runner \in Runners
    BY FolderTypes
  <1>2. CASE SendCommand
    <2>1. runner.leaf \in Leaves
      BY <1>1 DEF Runners
    <2>2. runner' \in Runners
      BY <1>1, <1>2 DEF SendCommand, Runners
    <2>3. ASSUME Removes(runner.leaf) PROVE served' \in Listings /\ stored' \in Placed
      BY <1>1, <2>3 DEF Removes, Listings, Placed, Sides, ListedKinds
    <2>4. /\ served' \in Listings /\ stored' \in Placed
          /\ applied' \subseteq Leaves
      <3>1. Renames => served' \in Listings /\ stored' \in Placed
        BY <1>1 DEF Renames, Listings, Placed, Sides, ListedKinds
      <3>2. QED BY <1>1, <1>2, <2>1, <2>3, <3>1 DEF SendCommand, FolderTypeOK
    <2>5. QED BY <1>2, <2>2, <2>4, ZenonT(60) DEF SendCommand, FolderTypeOK, Runners, Placed
  <1>3. CASE Confirm
    <2>1. PICK l \in Leaves : Commit(l)
      BY <1>3 DEF Confirm
    <2>2. job' \in Jobs
      BY <2>1, StepTypes DEF Commit, Steps
    <2>3. cached' \in Placed
      BY <1>1, <2>1 DEF Commit, Placed, Sides
    <2>4. catalog' \in Listings
      <3>1. \A m \in SUBSET Leaves : Unlisted(m) \in [Leaves -> ListedKinds]
        BY <1>1 DEF Unlisted, Listings, ListedKinds, Sides
      <3>2. Carried(l) \in SUBSET Leaves
        BY <2>1 DEF Carried, Members
      <3>3. Unlisted(Carried(l)) \in [Leaves -> ListedKinds]
        BY <3>1, <3>2
      <3>4. QED BY <1>1, <2>1, <3>3 DEF Commit, Listings, Sides
    <2>5. runner' \in Runners
      BY <1>3, FolderNeutral DEF Confirm, Runners
    <2>6. QED BY <1>3, <2>2, <2>3, <2>4, <2>5 DEF Confirm, FolderTypeOK, Jobs, Runners, Placed
  <1>4. CASE Tidy
    <2>1. served' \in Listings
      BY <1>1, <1>4 DEF Tidy, Listings, ListedKinds
    <2>2. QED BY <1>4, <2>1 DEF Tidy, FolderTypeOK
  <1>5. ASSUME NEW p \in Sides, NEW l \in Leaves, OthersCreate(p, l) \/ OthersDelete(p, l)
        PROVE  FolderTypeOK'
    <2>1. served' \in Listings
      <3>1. \A k \in ListedKinds : [served EXCEPT ![p][l] = k] \in Listings
        BY <1>1 DEF Listings
      <3>2. QED BY <1>5, <3>1 DEF OthersCreate, OthersDelete, ListedKinds
    <2>2. stored' \in Placed
      BY <1>1, <1>5 DEF OthersCreate, OthersDelete, Placed
    <2>3. QED BY <1>5, <2>1, <2>2 DEF OthersCreate, OthersDelete, FolderTypeOK, Placed
  <1>6. QED BY <1>2, <1>3, <1>4, <1>5

(* The request and its executor keep their types. *)
LEMMA SaveTypes ==
    ASSUME FolderTypeOK, NEW next \in Creations,
           NEW at \in {"off", "plan", "inspect", "create", "answer", "list"},
           Saves(next, at)
    PROVE  creation' \in Creations /\ maker' \in Makers
  <1>1. creation \in Creations /\ Failed(creation.stage) \in CreationStages
    BY FolderTypes DEF Failed, Creations, CreationStages
  <1>2. [creation EXCEPT !.stage = Failed(@)] \in Creations
    BY <1>1 DEF Creations
  <1>3. [MakerOff EXCEPT !.at = at] \in Makers
    BY FolderNeutral DEF Makers
  <1>4. QED BY <1>2, <1>3, FolderNeutral DEF Saves, Makers

LEMMA MakerTypes ==
    ASSUME FolderTypeOK,
           \/ AskCreation \/ CancelCreation \/ RetryCreation \/ DismissCreation
           \/ TakeCreation \/ CreateLocally \/ Plan \/ Inspect \/ Create \/ Answer
           \/ List \/ Leave \/ Crash
    PROVE  FolderTypeOK'
  <1> USE DEF folderServer, folderCache, change, asked, RestOfMaker
  <1>1. /\ served \in Listings /\ catalog \in Listings
        /\ creation \in Creations /\ maker \in Makers
    BY FolderTypes
  <1>2. /\ \A stage \in CreationStages : [creation EXCEPT !.stage = stage] \in Creations
        /\ \A stage \in CreationStages :
              [creation EXCEPT !.stage = stage, !.receipt = TRUE] \in Creations
        /\ [creation EXCEPT !.target = TRUE] \in Creations
        /\ Failed(creation.stage) \in CreationStages
    BY <1>1 DEF Creations, CreationStages, Failed
  <1>3. NoCreation \in Creations /\ MakerOff \in Makers /\ RunnerOff \in Runners
    BY FolderNeutral DEF Creations, Makers, Runners
  <1>4. ASSUME NEW stage \in CreationStages, Decide(stage) PROVE FolderTypeOK'
    <2>1. creation' \in Creations
      BY <1>2, <1>4 DEF Decide
    <2>2. maker' \in Makers
      BY <1>1, <1>4 DEF Decide, Makers
    <2>3. QED BY <1>4, <2>1, <2>2 DEF Decide, FolderTypeOK, Creations, Makers
  <1>5. CASE CancelCreation \/ RetryCreation \/ DismissCreation
    BY <1>4, <1>5 DEF CancelCreation, RetryCreation, DismissCreation, CreationStages
  <1>6. CASE AskCreation
    <2>1. creation' \in Creations
      BY <1>3, <1>6 DEF AskCreation, Creations, CreationStages
    <2>2. QED BY <1>6, <2>1 DEF AskCreation, FolderTypeOK, Creations
  <1>7. CASE TakeCreation
    <2>1. maker' \in Makers
      BY <1>3, <1>7 DEF TakeCreation, Makers
    <2>2. QED BY <1>7, <2>1 DEF TakeCreation, FolderTypeOK, Makers
  <1>8. CASE CreateLocally
    <2>1. creation' \in Creations
      <3>1. [stage |-> "succeeded", target |-> TRUE, receipt |-> TRUE] \in Creations
        BY DEF Creations, CreationStages
      <3>2. [creation EXCEPT !.stage = "waiting"] \in Creations
        BY <1>2 DEF CreationStages
      <3>3. QED BY <1>8, <3>1, <3>2 DEF CreateLocally
    <2>2. [catalog EXCEPT !["here"][Made] = "mail"] \in Listings
      BY <1>1 DEF Listings, ListedKinds
    <2>3. QED BY <1>8, <2>1, <2>2 DEF CreateLocally, FolderTypeOK, Creations
  <1>9. CASE Plan
    <2>1. creation' \in Creations /\ maker' \in Makers
      BY <1>2, <1>9, SaveTypes DEF Plan, CreationStages
    <2>2. QED BY <1>9, <2>1 DEF Plan, FolderTypeOK, Creations, Makers
  <1>10. CASE Inspect
    <2>1. creation' \in Creations /\ maker' \in Makers
      BY <1>2, <1>10, SaveTypes DEF Inspect, CreationStages
    <2>2. QED BY <1>10, <2>1 DEF Inspect, FolderTypeOK, Creations, Makers
  <1>11. CASE Create
    <2>1. maker' \in Makers
      BY <1>1, <1>11 DEF Create, Makers
    <2>2. [served EXCEPT !["here"][Made] = "mail"] \in Listings
      BY <1>1 DEF Listings, ListedKinds
    <2>3. QED BY <1>11, <2>1, <2>2 DEF Create, FolderTypeOK, Makers
  <1>12. CASE Answer
    <2>1. maker.outcome \in FolderOutcomes \cup {"unsent"}
      BY <1>1 DEF Makers
    <2>2. creation' \in Creations /\ maker' \in Makers
      BY <1>2, <1>12, <2>1, SaveTypes DEF Answer, CreationStages, FolderOutcomes
    <2>3. QED BY <1>12, <2>2 DEF Answer, FolderTypeOK, Creations, Makers
  <1>13. CASE List
    <2>1. creation' \in Creations
      BY <1>1, <1>2, <1>13 DEF List, CreationStages
    <2>2. QED BY <1>1, <1>3, <1>13, <2>1 DEF List, FolderTypeOK, Creations, Makers
  <1>14. CASE Leave
    <2>1. creation' \in Creations /\ maker' \in Makers
      BY <1>1, <1>2, <1>3, <1>14, SaveTypes DEF Leave, CreationStages
    <2>2. QED BY <1>14, <2>1 DEF Leave, FolderTypeOK, Creations, Makers
  <1>15. CASE Crash
    <2>1. creation' \in Creations
      BY <1>1, <1>2, <1>15 DEF Crash, CreationStages
    <2>2. QED BY <1>3, <1>15, <2>1, FolderNeutral DEF Crash, FolderTypeOK, Creations, Makers, Runners
  <1>16. QED
    BY <1>5, <1>6, <1>7, <1>8, <1>9, <1>10, <1>11, <1>12, <1>13, <1>14, <1>15

LEMMA FolderStepType == FolderTypeOK /\ [FolderNext]_folderVars => FolderTypeOK'
  <1> SUFFICES ASSUME FolderTypeOK, [FolderNext]_folderVars PROVE FolderTypeOK'
    OBVIOUS
  <1>1. QED BY ChangeTypes, ServerTypes, MakerTypes DEF FolderNext

----------------------------------------------------------------------------
(* The folder change and the mail of its folders. *)

RequestIsTrue == creation.stage \in {"queued", "waiting", "rejected", "cancelled"} => ~made

LEMMA FolderInitInv == FolderInit => FolderIInv
  <1> SUFFICES ASSUME FolderInit PROVE FolderIInv
    OBVIOUS
  <1>1. /\ stored = [l \in Leaves |->
                         IF served["here"][l] = "mail" THEN "here" ELSE "gone"]
        /\ cached = stored /\ applied = {} /\ made = FALSE
        /\ job = NoJob /\ runner = RunnerOff /\ creation = NoCreation /\ maker = MakerOff
    BY DEF FolderInit
  <1>2. MailIsListed
    BY <1>1 DEF MailIsListed, Sides
  <1>3. StepsAreTrue /\ RunnerHasStep /\ RenameTakesMembers
    BY <1>1 DEF StepsAreTrue, RunnerHasStep, RenameTakesMembers, NoJob, NoPlan, RunnerOff
  <1>4. MakerHasStage /\ RequestIsTrue
    BY <1>1 DEF MakerHasStage, RequestIsTrue, MakerOff, NoCreation
  <1>5. QED BY <1>2, <1>3, <1>4, FolderInitType DEF FolderIInv, RequestIsTrue

(* What changes neither the steps nor the mail of the server leaves the         *)
(* invariant of the folder change alone.                                      *)
LEMMA StepsUntouched ==
    ASSUME FolderIInv, UNCHANGED <<imap, stored, cached, applied, job, runner>>
    PROVE  StepsAreTrue' /\ RunnerHasStep' /\ RenameTakesMembers'
  BY DEF FolderIInv, StepsAreTrue, RunnerHasStep, RenameTakesMembers, Taken, Members

LEMMA IdleInv ==
    ASSUME FolderIInv,
           \/ AdmitMail \/ FinishMail \/ RefreshFolders
           \/ \E action \in {"rename", "delete"} : Review(action)
           \/ UNCHANGED folderVars
    PROVE  StepsAreTrue' /\ RunnerHasStep' /\ RenameTakesMembers' /\ MailIsListed'
           /\ MakerHasStage' /\ RequestIsTrue'
  <1>1. UNCHANGED <<imap, served, stored, cached, applied, job, runner, creation, maker, made>>
    BY DEF AdmitMail, FinishMail, RefreshFolders, Review, folderVars, folderServer,
           folderCache, change, asked
  <1>2. MailIsListed' /\ MakerHasStage' /\ RequestIsTrue'
    BY <1>1 DEF FolderIInv, MailIsListed, MakerHasStage, RequestIsTrue
  <1>3. QED BY <1>1, <1>2, StepsUntouched

(* The folder change leaves the creation alone. *)
LEMMA RequestUntouched ==
    ASSUME FolderIInv, UNCHANGED <<creation, maker, made>>
    PROVE  MakerHasStage' /\ RequestIsTrue'
  BY DEF FolderIInv, MakerHasStage, RequestIsTrue

LEMMA StartInv ==
    ASSUME FolderIInv, StartFolders
    PROVE  StepsAreTrue' /\ RunnerHasStep' /\ RenameTakesMembers' /\ MailIsListed'
           /\ MakerHasStage' /\ RequestIsTrue'
  <1>1. /\ ~job.open /\ applied' = {}
        /\ job' = [open |-> TRUE, plan |-> folderForm,
                   step |-> [l \in Leaves |->
                           IF l \in StepLeaves(folderForm) THEN "Queued" ELSE "none"]]
        /\ UNCHANGED <<imap, served, stored, cached, runner, creation, maker, made>>
    BY DEF StartFolders, Reviewable, NoFolderJob, folderServer, folderCache, asked
  <1>2. runner'.at = "off"
    BY <1>1 DEF FolderIInv, RunnerHasStep
  <1>3. StepsAreTrue' /\ RunnerHasStep' /\ MailIsListed'
    BY <1>1, <1>2 DEF FolderIInv, StepsAreTrue, RunnerHasStep, MailIsListed
  <1>4. RenameTakesMembers'
    BY <1>1, <1>2, RootIsLeaf DEF RenameTakesMembers, StepLeaves
  <1>5. QED BY <1>1, <1>3, <1>4, RequestUntouched

(* Steps that wait, were refused or were given up move among themselves, and  *)
(* an interrupted one becomes uncertain, or is repeated without a server.      *)
Reworded(j, k) ==
    \A l \in Leaves :
        \/ k.step[l] = j.step[l] /\ j.step[l] # "Running"
        \/ j.step[l] = "Running" /\ k.step[l] = "Uncertain"
        \/ j.step[l] = "Running" /\ ~imap /\ k.step[l] = "Queued"
        \/ j.step[l] = "Uncertain" /\ k.step[l] = "Accepted"
        \/ /\ j.step[l] \in {"Queued", "Rejected"}
           /\ k.step[l] \in {"Queued", "Rejected", "Cancelled"}

LEMMA RewordedInv ==
    ASSUME FolderIInv, Reworded(job, job'), job'.plan = job.plan,
           UNCHANGED <<imap, served, stored, cached, applied>>,
           runner'.at # "off" => job'.open,
           runner'.at \in {"off", "confirm", "next"}
    PROVE  StepsAreTrue' /\ RunnerHasStep' /\ RenameTakesMembers' /\ MailIsListed'
  <1>1. StepsAreTrue'
    BY DEF FolderIInv, StepsAreTrue, Reworded, Taken
  <1>2. RunnerHasStep'
    BY DEF RunnerHasStep
  <1>3. MailIsListed'
    BY DEF FolderIInv, MailIsListed
  <1>4. RenameTakesMembers'
    BY RootIsLeaf DEF FolderIInv, RenameTakesMembers, Reworded, Members
  <1>5. QED BY <1>1, <1>2, <1>3, <1>4

LEMMA DecisionInv ==
    ASSUME FolderIInv,
           \/ Take \/ GiveUpTurn \/ RetryFolders
           \/ \E accept \in BOOLEAN : StopFolders(accept)
    PROVE  StepsAreTrue' /\ RunnerHasStep' /\ RenameTakesMembers' /\ MailIsListed'
           /\ MakerHasStage' /\ RequestIsTrue'
  <1> USE DEF folderServer, folderCache, change, asked
  <1>1. FolderTypeOK /\ job \in Jobs
    BY FolderTypes DEF FolderIInv
  <1>2. UNCHANGED <<imap, served, stored, cached, applied, creation, maker, made>>
    BY DEF Take, GiveUpTurn, RetryFolders, StopFolders
  <1>3. /\ Reworded(job, RecoveredSteps(job))
        /\ RecoveredSteps(job).plan = job.plan /\ RecoveredSteps(job).open = job.open
    BY <1>1 DEF Reworded, RecoveredSteps, Jobs
  <1>4. CASE Take
    <2>1. /\ job.open /\ job' = RecoveredSteps(job)
          /\ runner'.at \in {"off", "confirm", "next"}
      BY <1>4 DEF Take, FoldersFree, RunnerOff
    <2>2. QED BY <1>2, <1>3, <2>1, RewordedInv, RequestUntouched
  <1>5. CASE GiveUpTurn
    <2>1. runner'.at = "off" /\ UNCHANGED job
      BY <1>5 DEF GiveUpTurn, RunnerOff
    <2>2. QED BY <1>2, <2>1, RequestUntouched
      DEF FolderIInv, StepsAreTrue, RunnerHasStep, RenameTakesMembers, MailIsListed, Taken,
          Members
  <1>6. CASE RetryFolders
    <2>1. runner'.at = "off" /\ UNCHANGED runner
      BY <1>6 DEF RetryFolders
    <2>2. CASE job' = RecoveredSteps(job)
      BY <1>2, <1>3, <2>1, <2>2, RewordedInv, RequestUntouched
    <2>3. CASE job' = Retried(RecoveredSteps(job))
      <3>1. Reworded(job, job') /\ job'.plan = job.plan
        BY <1>1, <2>3 DEF Reworded, RecoveredSteps, Retried, Jobs
      <3>2. QED BY <1>2, <2>1, <3>1, RewordedInv, RequestUntouched
    <2>4. QED BY <1>6, <2>2, <2>3 DEF RetryFolders
  <1>7. ASSUME NEW accept \in BOOLEAN, StopFolders(accept)
        PROVE  StepsAreTrue' /\ RunnerHasStep' /\ RenameTakesMembers' /\ MailIsListed'
    <2> DEFINE k == [job EXCEPT !.step = [l \in Leaves |-> Stopped(@[l])]]
    <2>1. /\ runner'.at = "off" /\ job' = Closed(k)
          /\ \A l \in Leaves : job.step[l] \notin {"Running", "Acknowledged"}
      BY <1>7 DEF StopFolders, HasStep
    <2>2. k \in Jobs /\ k.plan = job.plan
          /\ \A l \in Leaves : k.step[l] = Stopped(job.step[l])
      BY <1>1, StepTypes DEF Jobs
    <2> HIDE DEF k
    <2>3. job'.plan = job.plan /\ job'.step = k.step
      BY <1>1, <2>1, <2>2, StepTypes
    <2>4. Reworded(job, job')
      BY <2>1, <2>2, <2>3 DEF Reworded, Stopped
    <2>5. QED BY <1>2, <2>1, <2>3, <2>4, RewordedInv
  <1>8. QED BY <1>2, <1>4, <1>5, <1>6, <1>7, RequestUntouched

----------------------------------------------------------------------------
(* The executor's turn. *)

LEMMA ClaimInv ==
    ASSUME FolderIInv, ClaimStep
    PROVE  StepsAreTrue' /\ RunnerHasStep' /\ RenameTakesMembers' /\ MailIsListed'
           /\ MakerHasStage' /\ RequestIsTrue'
  <1> USE DEF folderServer, folderCache, change, asked
  <1> DEFINE listing == IF imap THEN served ELSE catalog
  <1>1. /\ job \in Jobs /\ served \in Listings /\ stored \in Placed
        /\ UNCHANGED <<imap, served, stored, cached, applied, creation, maker, made>>
    BY FolderTypes DEF FolderIInv, ClaimStep
  <1>2. PICK l \in Leaves :
          /\ Claimable(job, l)
          /\ job' = [job EXCEPT !.step[l] = "Running"]
          /\ runner' = [leaf |-> l, outcome |-> "applied",
                        at |-> IF imap /\ NeedsCommand(listing, l) THEN "send"
                               ELSE "record"]
    BY DEF ClaimStep
  <1>3. Preflight(listing, job) /\ runner.at = "next" /\ job.open
    BY DEF ClaimStep, FolderIInv, RunnerHasStep
  <1>4. job.step[l] = "Queued" /\ l \notin applied
    BY <1>2 DEF Claimable, FolderIInv, StepsAreTrue
  <1>5. /\ job'.step[l] = "Running" /\ job'.plan = job.plan /\ job'.open
        /\ \A m \in Leaves : m # l => job'.step[m] = job.step[m]
    BY <1>1, <1>2, <1>3 DEF Jobs
  <1>6. ASSUME imap, ~NeedsCommand(served, l)
        PROVE  job.plan.action = "delete" /\ job.plan.kinds[l] # "mail" /\ stored[l] # "here"
    <2>1. /\ job.plan.action = "delete"
          /\ job.plan.kinds[l] = "inferred" \/ l \in Missing(served, job)
      BY <1>6 DEF NeedsCommand
    <2>2. /\ \A m \in Remaining(job) \ Missing(served, job) :
                Node(served, "here", m) = job.plan.kinds[m]
          /\ \A m \in Missing(served, job) : job.plan.kinds[m] # "mail"
      BY <1>3, <1>6, <2>1 DEF Preflight
    <2>3. Node(served, "here", l) \in {"none", "inferred"}
      <3>1. CASE l \in Missing(served, job)
        BY <3>1 DEF Missing
      <3>2. CASE l \notin Missing(served, job)
        <4>1. job.plan.kinds[l] = "inferred"
          BY <2>1, <3>2
        <4>2. l \in Remaining(job)
          BY <1>4, <4>1 DEF Remaining, Members, Deleted
        <4>3. QED BY <2>2, <3>2, <4>1, <4>2
      <3>3. QED BY <3>1, <3>2
    <2>4. served["here"][l] # "mail"
      BY <2>3 DEF Node
    <2>5. QED BY <2>1, <2>2, <2>4 DEF FolderIInv, MailIsListed, Sides
  <1>7. StepsAreTrue'
    BY <1>1, <1>4, <1>5 DEF FolderIInv, StepsAreTrue, Taken
  <1>8. RunnerHasStep'
    <2>1. runner'.at \in {"send", "record"} /\ runner'.leaf = l /\ runner'.outcome = "applied"
          /\ (runner'.at = "send" => imap)
      BY <1>2
    <2>2. runner'.at = "record" => Taken(l)'
      <3>1. ASSUME imap, runner'.at = "record" PROVE ~NeedsCommand(served, l)
        BY <1>2, <3>1
      <3>2. QED BY <1>1, <1>5, <1>6, <3>1 DEF Taken
    <2>3. QED BY <1>1, <1>4, <1>5, <2>1, <2>2 DEF RunnerHasStep
  <1>9. MailIsListed'
    BY <1>1 DEF FolderIInv, MailIsListed
  <1>10. RenameTakesMembers'
    <2> SUFFICES ASSUME job.plan.action = "rename" PROVE RenameTakesMembers'
      BY <1>5 DEF RenameTakesMembers
    <2>1. l = Root
      BY <1>4 DEF FolderIInv, RenameTakesMembers
    <2>2. ASSUME runner'.at = "send"
          PROVE  \A m \in Leaves : /\ stored[m] # "there"
                                   /\ stored[m] = "here" => m \in Members(job.plan)
      <3>1. imap
        BY <1>2, <2>2
      <3>2. Plannable(served, "rename") /\ TreeKinds(served) = job.plan.kinds
        BY <1>3, <3>1 DEF Preflight
      <3>3. ASSUME NEW m \in Leaves, stored[m] = "there" PROVE FALSE
        <4>1. served["there"][m] = "mail"
          BY <3>3 DEF FolderIInv, MailIsListed, Sides
        <4>2. Root \in Nodes(served, "there")
          BY <4>1, RootIsLeaf DEF Nodes, Node, Below
        <4>3. QED BY <3>2, <4>2, RootIsLeaf DEF Plannable, Nodes
      <3>4. ASSUME NEW m \in Leaves, stored[m] = "here" PROVE m \in Members(job.plan)
        <4>1. served["here"][m] = "mail"
          BY <3>4 DEF FolderIInv, MailIsListed, Sides
        <4>2. QED BY <3>2, <4>1 DEF TreeKinds, Node, Members
      <3>5. QED BY <3>3, <3>4
    <2>3. QED BY <1>1, <1>4, <1>5, <2>1, <2>2 DEF FolderIInv, RenameTakesMembers
  <1>11. QED BY <1>1, <1>7, <1>8, <1>9, <1>10, RequestUntouched

LEMMA SendInv ==
    ASSUME FolderIInv, SendCommand
    PROVE  StepsAreTrue' /\ RunnerHasStep' /\ RenameTakesMembers' /\ MailIsListed'
           /\ MakerHasStage' /\ RequestIsTrue'
  <1> USE DEF folderServer, folderCache, change, asked
  <1> DEFINE l == runner.leaf
  <1>1. /\ served \in Listings /\ stored \in Placed /\ runner \in Runners
        /\ l \in Leaves /\ applied \subseteq Leaves
    BY FolderTypes DEF FolderIInv, Runners
  <1>2. /\ job.open /\ job.step[l] = "Running" /\ imap /\ l \notin applied
        /\ UNCHANGED <<imap, cached, job, creation, maker, made>>
    BY DEF SendCommand, FolderIInv, RunnerHasStep
  <1>3. PICK outcome \in FolderOutcomes :
          /\ runner' = [runner EXCEPT !.at = "record", !.outcome = outcome]
          /\ \/ /\ outcome # "rejected"
                /\ IF job.plan.action = "rename" THEN Renames ELSE Removes(l)
                /\ applied' = applied \cup {l}
             \/ outcome # "applied" /\ UNCHANGED <<folderServer, applied>>
    BY DEF SendCommand
  <1>4. runner'.at = "record" /\ runner'.outcome = outcome /\ runner'.leaf = l
    BY <1>1, <1>3 DEF Runners
  <1>5. job.plan.action = "rename" => l = Root
    BY <1>1, <1>2 DEF FolderIInv, RenameTakesMembers
  <1>6. CASE /\ outcome # "rejected"
             /\ IF job.plan.action = "rename" THEN Renames ELSE Removes(l)
             /\ applied' = applied \cup {l}
    <2>1. \A m \in Leaves : stored'[m] = "here" => stored[m] = "here"
      BY <1>1, <1>6 DEF Renames, Removes, Placed, Sides
    <2>2. /\ stored'[l] # "here"
          /\ job.plan.action = "rename" => \A m \in Leaves : stored'[m] # "here"
      BY <1>1, <1>6 DEF Renames, Removes, Placed, Sides
    <2>3. StepsAreTrue'
      BY <1>2, <1>6, <2>1 DEF FolderIInv, StepsAreTrue, Taken
    <2>4. RunnerHasStep'
      BY <1>2, <1>4, <1>6 DEF RunnerHasStep, Taken
    <2>5. MailIsListed'
      <3>1. \A m \in Leaves, p \in Sides : stored[m] = p => served[p][m] = "mail"
        BY DEF FolderIInv, MailIsListed
      <3>2. ASSUME Renames, NEW m \in Leaves, NEW p \in Sides, stored'[m] = p
            PROVE  served'[p][m] = "mail"
        <4>1. p = "there" /\ stored[m] \in Sides
          BY <1>1, <3>2 DEF Renames, Placed, Sides
        <4>2. CASE stored[m] = "here"
          BY <1>1, <3>1, <3>2, <4>1, <4>2 DEF Renames, Sides
        <4>3. CASE stored[m] = "there"
          <5>1. served["there"][m] = "mail"
            BY <3>1, <4>3 DEF Sides
          <5>2. QED BY <1>1, <3>2, <4>1, <5>1 DEF Renames, Sides
        <4>4. QED BY <4>1, <4>2, <4>3 DEF Sides
      <3>3. ASSUME Removes(l), NEW m \in Leaves, NEW p \in Sides, stored'[m] = p
            PROVE  served'[p][m] = "mail"
        <4>1. /\ stored[m] = p /\ served[p][m] = "mail"
              /\ m = l => p # "here"
          BY <1>1, <3>1, <3>3 DEF Removes, Placed, Sides
        <4>2. \A k \in ListedKinds : m # l \/ p # "here" =>
                 [served EXCEPT !["here"][l] = k][p][m] = served[p][m]
          BY <1>1 DEF Listings, Sides
        <4>3. QED BY <3>3, <4>1, <4>2 DEF Removes, ListedKinds
      <3>4. \A m \in Leaves, p \in Sides : stored'[m] = p => served'[p][m] = "mail"
        BY <1>6, <3>2, <3>3
      <3>5. \A m \in applied' : stored'[m] # "here"
        BY <1>1, <1>6, <2>1, <2>2 DEF FolderIInv, MailIsListed
      <3>6. QED BY <1>2, <2>1, <3>4, <3>5 DEF FolderIInv, MailIsListed
    <2>6. RenameTakesMembers'
      <3> SUFFICES ASSUME job.plan.action = "rename" PROVE RenameTakesMembers'
        BY <1>2 DEF RenameTakesMembers
      <3>1. ASSUME NEW m \in Leaves, stored'[m] = "there"
            PROVE  m \in Members(job.plan) /\ cached[m] = "here"
        <4>1. stored[m] = "here"
          BY <1>1, <1>6, <3>1 DEF Renames, FolderIInv, RenameTakesMembers, SendCommand,
                                  Placed, Sides
        <4>2. QED BY <1>2, <4>1
          DEF FolderIInv, RenameTakesMembers, MailIsListed, SendCommand
      <3>2. QED BY <1>2, <1>4, <1>5, <2>2, <3>1
        DEF FolderIInv, RenameTakesMembers, Members
    <2>7. QED BY <1>2, <2>3, <2>4, <2>5, <2>6, RequestUntouched
  <1>7. CASE outcome # "applied" /\ UNCHANGED <<folderServer, applied>>
    <2>1. StepsAreTrue' /\ MailIsListed'
      BY <1>2, <1>7 DEF FolderIInv, StepsAreTrue, MailIsListed, Taken
    <2>2. RunnerHasStep'
      BY <1>2, <1>4, <1>7 DEF RunnerHasStep
    <2>3. RenameTakesMembers'
      BY <1>2, <1>4, <1>7 DEF FolderIInv, RenameTakesMembers, Members
    <2>4. QED BY <1>2, <2>1, <2>2, <2>3, RequestUntouched
  <1>8. QED BY <1>3, <1>6, <1>7

LEMMA RecordInv ==
    ASSUME FolderIInv, RecordStep
    PROVE  StepsAreTrue' /\ RunnerHasStep' /\ RenameTakesMembers' /\ MailIsListed'
           /\ MakerHasStage' /\ RequestIsTrue'
  <1> USE DEF folderServer, folderCache, change, asked
  <1> DEFINE l == runner.leaf
  <1>1. job \in Jobs /\ runner \in Runners /\ l \in Leaves
    BY FolderTypes DEF FolderIInv, Runners
  <1>2. /\ job.open /\ job.step[l] = "Running"
        /\ runner.outcome = "rejected" => l \notin applied
        /\ runner.outcome = "applied" => Taken(l)
        /\ UNCHANGED <<imap, served, stored, cached, applied, creation, maker, made>>
    BY DEF RecordStep, FolderIInv, RunnerHasStep
  <1>3. /\ job'.open = job.open /\ job'.plan = job.plan
        /\ job'.step[l] = StepAfter(runner.outcome)
        /\ \A m \in Leaves : m # l => job'.step[m] = job.step[m]
        /\ runner'.at \in {"confirm", "off"}
    BY <1>1 DEF RecordStep, Jobs, RunnerOff
  <1>4. StepsAreTrue'
    BY <1>1, <1>2, <1>3 DEF FolderIInv, StepsAreTrue, Taken, StepAfter, Runners, FolderOutcomes
  <1>5. RunnerHasStep' /\ MailIsListed'
    BY <1>2, <1>3 DEF FolderIInv, RunnerHasStep, MailIsListed
  <1>6. RenameTakesMembers'
    <2>1. job.plan.action = "rename" => l = Root
      BY <1>1, <1>2 DEF FolderIInv, RenameTakesMembers
    <2>2. StepAfter(runner.outcome) \in {"Acknowledged", "Rejected", "Uncertain"}
      BY <1>1 DEF StepAfter, Runners, FolderOutcomes
    <2>3. QED BY <1>1, <1>2, <1>3, <2>1, <2>2 DEF FolderIInv, RenameTakesMembers, Members
  <1>7. QED BY <1>2, <1>4, <1>5, <1>6, RequestUntouched

LEMMA ConfirmInv ==
    ASSUME FolderIInv, Confirm
    PROVE  StepsAreTrue' /\ RunnerHasStep' /\ RenameTakesMembers' /\ MailIsListed'
           /\ MakerHasStage' /\ RequestIsTrue'
  <1> USE DEF folderServer, folderCache, change, asked
  <1>1. /\ FolderTypeOK /\ job \in Jobs /\ stored \in Placed /\ cached \in Placed
        /\ UNCHANGED <<imap, served, stored, applied, creation, maker, made>>
    BY FolderTypes DEF FolderIInv, Confirm
  <1>2. PICK l \in Leaves : job.step[l] = "Acknowledged" /\ Commit(l)
    BY DEF Confirm
  <1>3. /\ job'.plan = job.plan /\ job'.step[l] = "Done"
        /\ \A m \in Leaves : m # l => job'.step[m] = job.step[m]
    <2> DEFINE k == [job EXCEPT !.step[l] = "Done"]
    <2>1. k \in Jobs /\ k.plan = job.plan /\ k.step = [job.step EXCEPT ![l] = "Done"]
      BY <1>1, StepTypes DEF Steps, Jobs
    <2>2. job' = Closed(k)
      BY <1>2 DEF Commit
    <2> HIDE DEF k
    <2>3. job'.plan = k.plan /\ job'.step = k.step
      BY <1>1, <2>1, <2>2, StepTypes
    <2>4. QED BY <1>1, <2>1, <2>3 DEF Jobs
  <1>4. runner'.at \in {"next", "off"} /\ (runner'.at # "off" => job'.open)
    BY DEF Confirm, RunnerOff
  <1>5. Taken(l)
    BY <1>2 DEF FolderIInv, StepsAreTrue
  <1>6. job.plan.action = "rename" => l = Root
    BY <1>2 DEF FolderIInv, RenameTakesMembers
  <1>7. \A m \in Leaves : cached'[m] # cached[m] =>
           m \in Carried(l) /\ cached[m] = "here"
           /\ cached'[m] = IF job.plan.action = "rename" THEN "there" ELSE "gone"
    BY <1>1, <1>2 DEF Commit, Placed
  <1>8. imap => \A m \in Carried(l) : stored[m] # "here"
    BY <1>5, <1>6 DEF Taken, Carried, Members, FolderIInv, MailIsListed, RenameTakesMembers
  <1>9. StepsAreTrue'
    BY <1>1, <1>3, <1>5 DEF FolderIInv, StepsAreTrue, Taken
  <1>10. RunnerHasStep'
    BY <1>4 DEF RunnerHasStep
  <1>11. MailIsListed'
    BY <1>1, <1>7, <1>8 DEF FolderIInv, MailIsListed
  <1>12. RenameTakesMembers'
    <2> SUFFICES ASSUME job.plan.action = "rename" PROVE RenameTakesMembers'
      BY <1>3 DEF RenameTakesMembers
    <2>1. ASSUME imap, NEW m \in Leaves PROVE stored[m] \in {cached'[m], "gone"}
      <3>1. Root \in applied
        BY <1>5, <1>6, <2>1 DEF Taken
      <3>2. stored[m] \in {"there", "gone"}
        BY <1>1, <2>1, <3>1 DEF FolderIInv, RenameTakesMembers, Placed, Sides
      <3>3. stored[m] = "there" => m \in Members(job.plan) /\ cached[m] = "here"
        BY <1>2, <1>6, <2>1, <3>1 DEF FolderIInv, RenameTakesMembers
      <3>4. m \in Members(job.plan) /\ cached[m] = "here" => cached'[m] = "there"
        BY <1>2 DEF Commit, Carried
      <3>5. QED BY <3>2, <3>3, <3>4
    <2>2. QED BY <1>1, <1>3, <1>4, <1>6, <2>1 DEF FolderIInv, RenameTakesMembers
  <1>13. QED BY <1>1, <1>9, <1>10, <1>11, <1>12, RequestUntouched

----------------------------------------------------------------------------
(* The creation, other clients, and the end of the process. *)

(* A write of the creation's executor keeps the request true. *)
LEMMA SaveInv ==
    ASSUME FolderIInv, NEW next \in Creations, NEW at, Saves(next, at),
           at # "plan",
           at = "create" => next.stage = "running" /\ ~made',
           at # "answer",
           next.stage \in {"queued", "waiting", "rejected", "cancelled"} => ~made',
           made' => made
    PROVE  MakerHasStage' /\ RequestIsTrue'
  <1>1. creation \in Creations
    BY FolderTypes DEF FolderIInv
  <1>2. CASE maker.stale
    <2>1. creation'.stage = Failed(creation.stage) /\ maker'.at = "off"
      BY <1>1, <1>2 DEF Saves, Creations, MakerOff
    <2>2. RequestIsTrue'
      BY <2>1 DEF FolderIInv, RequestIsTrue, Failed
    <2>3. QED BY <2>1, <2>2 DEF MakerHasStage
  <1>3. CASE ~maker.stale
    <2>1. creation' = next /\ maker'.at = at
      BY <1>3 DEF Saves, MakerOff
    <2>2. QED BY <2>1 DEF MakerHasStage, RequestIsTrue
  <1>4. QED BY <1>2, <1>3

LEMMA RequestInv ==
    ASSUME FolderIInv,
           \/ AskCreation \/ CancelCreation \/ RetryCreation \/ DismissCreation
           \/ TakeCreation \/ CreateLocally \/ Plan \/ Inspect \/ Create \/ Answer
           \/ List \/ Leave
    PROVE  MakerHasStage' /\ RequestIsTrue'
  <1> USE DEF folderServer, folderCache, change, asked, RestOfMaker
  <1>1. creation \in Creations /\ maker \in Makers
    BY FolderTypes DEF FolderIInv
  <1>2. /\ \A stage : [creation EXCEPT !.stage = stage].stage = stage
        /\ \A stage : [creation EXCEPT !.stage = stage, !.receipt = TRUE].stage = stage
        /\ [creation EXCEPT !.target = TRUE].stage = creation.stage
        /\ \A stage \in CreationStages : [creation EXCEPT !.stage = stage] \in Creations
        /\ \A stage \in CreationStages :
              [creation EXCEPT !.stage = stage, !.receipt = TRUE] \in Creations
        /\ [creation EXCEPT !.target = TRUE] \in Creations
        /\ Failed(creation.stage) \in CreationStages
    BY <1>1 DEF Creations, CreationStages, Failed
  <1>3. MakerHasStage /\ RequestIsTrue
    BY DEF FolderIInv, RequestIsTrue
  <1>4. ASSUME NEW stage, Decide(stage), creation.stage # "running",
               stage \in {"queued", "cancelled"} => ~made,
               stage \notin {"waiting", "rejected"}
        PROVE  MakerHasStage' /\ RequestIsTrue'
    <2>1. /\ creation'.stage = stage /\ maker'.at = maker.at /\ made' = made
          /\ maker'.at # "off" => maker'.stale
      BY <1>1, <1>2, <1>4 DEF Decide, Makers
    <2>2. QED BY <1>3, <1>4, <2>1 DEF MakerHasStage, RequestIsTrue
  <1>5. CASE CancelCreation \/ RetryCreation \/ DismissCreation
    BY <1>3, <1>4, <1>5 DEF CancelCreation, RetryCreation, DismissCreation, RequestIsTrue
  <1>6. CASE AskCreation
    BY <1>6 DEF AskCreation, MakerHasStage, RequestIsTrue
  <1>7. CASE TakeCreation
    <2>1. /\ maker'.at \in {"plan", "list", "inspect"}
          /\ maker'.at = "plan" => creation.stage = "queued"
          /\ creation' = creation /\ made' = made
      BY <1>7 DEF TakeCreation, MakerOff
    <2>2. QED BY <1>3, <2>1 DEF MakerHasStage, RequestIsTrue
  <1>8. CASE CreateLocally
    BY <1>2, <1>3, <1>8 DEF CreateLocally, FoldersFree, MakerHasStage, RequestIsTrue
  <1>9. CASE Plan
    <2>1. \/ Saves([creation EXCEPT !.target = TRUE], "inspect")
          \/ Saves([creation EXCEPT !.stage = "rejected"], "off")
          \/ Saves([creation EXCEPT !.stage = "waiting"], "off")
      BY <1>9 DEF Plan
    <2>2. made' = made /\ maker.at = "plan"
      BY <1>9 DEF Plan, MakerAt
    <2>3. CASE maker.stale
      <3>1. creation' = [creation EXCEPT !.stage = Failed(@)] /\ maker' = MakerOff
        BY <2>1, <2>3 DEF Saves
      <3>2. creation'.stage = Failed(creation.stage) /\ maker'.at = "off"
        BY <1>2, <3>1 DEF MakerOff
      <3>3. QED BY <1>3, <2>2, <3>2 DEF MakerHasStage, RequestIsTrue, Failed
    <2>4. CASE ~maker.stale
      <3>1. ~made
        BY <1>3, <2>2, <2>4 DEF MakerHasStage, RequestIsTrue
      <3>2. maker'.at \in {"inspect", "off"}
        BY <2>1, <2>4 DEF Saves, MakerOff
      <3>3. QED BY <2>2, <3>1, <3>2 DEF MakerHasStage, RequestIsTrue
    <2>5. QED BY <2>3, <2>4
  <1>10. CASE Inspect
    <2>1. made' => made
      BY <1>10 DEF Inspect, FolderIInv, FolderTypeOK
    <2>2. ASSUME Saves([creation EXCEPT !.stage = "repair", !.receipt = TRUE], "list")
          PROVE  MakerHasStage' /\ RequestIsTrue'
      BY <1>2, <2>1, <2>2, SaveInv DEF CreationStages
    <2>3. ASSUME ~made', Saves([creation EXCEPT !.stage = "rejected"], "off")
          PROVE  MakerHasStage' /\ RequestIsTrue'
      BY <1>2, <2>1, <2>3, SaveInv DEF CreationStages
    <2>4. ASSUME ~made', Saves([creation EXCEPT !.stage = "running"], "create")
          PROVE  MakerHasStage' /\ RequestIsTrue'
      BY <1>2, <2>1, <2>4, SaveInv DEF CreationStages
    <2>5. ASSUME made' = made, Saves([creation EXCEPT !.stage = Failed(@)], "off")
          PROVE  MakerHasStage' /\ RequestIsTrue'
      <3>1. Failed(creation.stage) \in {"queued", "waiting", "rejected", "cancelled"} => ~made'
        BY <1>3, <2>5 DEF Failed, RequestIsTrue
      <3>2. QED BY <1>2, <2>1, <2>5, <3>1, SaveInv
    <2>6. QED BY <1>10, <2>2, <2>3, <2>4, <2>5 DEF Inspect
  <1>11. CASE Create
    <2>1. /\ creation' = creation /\ creation.stage = "running" /\ ~made
          /\ maker'.at = "answer"
      BY <1>1, <1>3, <1>11 DEF Create, MakerAt, MakerHasStage, Makers
    <2>2. maker'.outcome \in {"rejected", "unsent"} => made' = made
      BY <1>1, <1>11 DEF Create, Makers
    <2>3. QED BY <2>1, <2>2 DEF MakerHasStage, RequestIsTrue
  <1>12. CASE Answer
    <2>1. made' = made /\ maker.outcome \in FolderOutcomes \cup {"unsent"}
      BY <1>1, <1>12 DEF Answer, Makers
    <2>2. maker.outcome \in {"rejected", "unsent"} => ~made
      BY <1>3, <1>12 DEF Answer, MakerAt, MakerHasStage
    <2>3. CASE maker.outcome = "applied"
      <3>1. Saves([creation EXCEPT !.stage = "repair", !.receipt = TRUE], "list")
        BY <1>12, <2>3 DEF Answer
      <3>2. QED BY <1>2, <2>1, <3>1, SaveInv, ZenonT(60) DEF CreationStages
    <2>4. ASSUME maker.outcome # "applied" PROVE MakerHasStage' /\ RequestIsTrue'
      <3> DEFINE stage == IF maker.outcome = "unsent" THEN "waiting" ELSE maker.outcome
      <3>1. Saves([creation EXCEPT !.stage = stage], "off")
        BY <1>12, <2>4 DEF Answer
      <3>2. stage \in {"waiting", "rejected", "uncertain"}
        BY <2>1, <2>4 DEF FolderOutcomes
      <3>3. stage \in {"waiting", "rejected"} => ~made'
        BY <2>1, <2>2, <2>4 DEF FolderOutcomes
      <3> HIDE DEF stage
      <3>4. QED BY <1>2, <2>1, <3>1, <3>2, <3>3, SaveInv DEF CreationStages
    <2>5. QED BY <2>3, <2>4
  <1>13. CASE List
    <2>1. /\ maker'.at = "off" /\ made' = made
          /\ creation'.stage \in {"succeeded", creation.stage}
      BY <1>2, <1>13 DEF List, MakerOff
    <2>2. QED BY <1>3, <2>1 DEF MakerHasStage, RequestIsTrue
  <1>14. CASE Leave
    <2>1. made' = made
      BY <1>14 DEF Leave
    <2>2. CASE creation' = creation /\ maker' = MakerOff
      BY <1>3, <2>1, <2>2 DEF MakerHasStage, RequestIsTrue, MakerOff
    <2>3. CASE Saves([creation EXCEPT !.stage = "uncertain"], "off")
      BY <1>2, <2>1, <2>3, SaveInv DEF CreationStages
    <2>4. QED BY <1>14, <2>2, <2>3 DEF Leave
  <1>15. QED
    BY <1>5, <1>6, <1>7, <1>8, <1>9, <1>10, <1>11, <1>12, <1>13, <1>14

LEMMA CreationInv ==
    ASSUME FolderIInv,
           \/ AskCreation \/ CancelCreation \/ RetryCreation \/ DismissCreation
           \/ TakeCreation \/ CreateLocally \/ Plan \/ Inspect \/ Create \/ Answer
           \/ List \/ Leave
    PROVE  StepsAreTrue' /\ RunnerHasStep' /\ RenameTakesMembers' /\ MailIsListed'
           /\ MakerHasStage' /\ RequestIsTrue'
  <1> USE DEF folderServer, folderCache, change, asked, RestOfMaker
  <1>1. UNCHANGED <<imap, stored, cached, applied, job, runner>>
    BY DEF AskCreation, CancelCreation, RetryCreation, DismissCreation, Decide, TakeCreation,
           CreateLocally, Plan, Inspect, Create, Answer, List, Leave
  <1>2. served' = served \/ served' = [served EXCEPT !["here"][Made] = "mail"]
    BY DEF AskCreation, CancelCreation, RetryCreation, DismissCreation, Decide, TakeCreation,
           CreateLocally, Plan, Inspect, Create, Answer, List, Leave
  <1>3. served \in Listings
    BY FolderTypes DEF FolderIInv
  <1>4. \A l \in Leaves, p \in Sides : served[p][l] = "mail" => served'[p][l] = "mail"
    BY <1>2, <1>3 DEF Listings, Sides
  <1>5. MailIsListed'
    BY <1>1, <1>4 DEF FolderIInv, MailIsListed
  <1>6. QED BY <1>1, <1>5, StepsUntouched, RequestInv

LEMMA OthersInv ==
    ASSUME FolderIInv,
           \/ Tidy
           \/ \E p \in Sides, l \in Leaves : OthersCreate(p, l) \/ OthersDelete(p, l)
    PROVE  StepsAreTrue' /\ RunnerHasStep' /\ RenameTakesMembers' /\ MailIsListed'
           /\ MakerHasStage' /\ RequestIsTrue'
  <1> USE DEF folderServer, folderCache, change, asked
  <1>1. /\ served \in Listings /\ stored \in Placed
        /\ applied \subseteq Leaves /\ runner.leaf \in Leaves
        /\ UNCHANGED <<imap, cached, applied, job, runner, creation, maker, made>>
    BY FolderTypes DEF FolderIInv, Tidy, OthersCreate, OthersDelete, Runners
  <1>2. \A l \in Leaves : stored'[l] \in {stored[l], "gone"}
    BY <1>1 DEF Tidy, OthersCreate, OthersDelete, Placed
  <1>3. MailIsListed'
    <2>1. ASSUME NEW m \in Leaves, NEW q \in Sides, stored'[m] = q
          PROVE  served'[q][m] = "mail"
      <3>1. served[q][m] = "mail"
        BY <1>2, <2>1 DEF FolderIInv, MailIsListed, Sides
      <3>2. CASE Tidy
        BY <1>1, <3>1, <3>2 DEF Tidy, Listings, Sides
      <3>3. ASSUME NEW p \in Sides, NEW l \in Leaves, OthersCreate(p, l)
            PROVE  served'[q][m] = "mail"
        BY <1>1, <3>1, <3>3 DEF OthersCreate, Listings
      <3>4. ASSUME NEW p \in Sides, NEW l \in Leaves, OthersDelete(p, l)
            PROVE  served'[q][m] = "mail"
        <4>1. ~(q = p /\ m = l)
          BY <1>1, <2>1, <3>4 DEF OthersDelete, Placed, Sides
        <4>2. QED BY <1>1, <3>1, <3>4, <4>1 DEF OthersDelete, Listings
      <3>5. QED BY <3>2, <3>3, <3>4
    <2>2. QED BY <1>1, <1>2, <2>1 DEF FolderIInv, MailIsListed
  <1>4. StepsAreTrue'
    BY <1>1, <1>2 DEF FolderIInv, StepsAreTrue, Taken
  <1>5. RunnerHasStep'
    BY <1>1, <1>2 DEF FolderIInv, RunnerHasStep, Taken
  <1>6. RenameTakesMembers'
    BY <1>1, <1>2 DEF FolderIInv, RenameTakesMembers, Members
  <1>7. QED BY <1>1, <1>3, <1>4, <1>5, <1>6, RequestUntouched

LEMMA CrashInv ==
    ASSUME FolderIInv, Crash
    PROVE  StepsAreTrue' /\ RunnerHasStep' /\ RenameTakesMembers' /\ MailIsListed'
           /\ MakerHasStage' /\ RequestIsTrue'
  <1>1. /\ runner'.at = "off" /\ maker'.at = "off"
        /\ UNCHANGED <<imap, served, stored, cached, applied, job, made>>
    BY DEF Crash, RunnerOff, MakerOff, folderServer, folderCache
  <1>2. creation'.stage \in {creation.stage, "uncertain"}
    BY FolderTypes DEF Crash, FolderIInv, Creations
  <1>3. StepsAreTrue' /\ RunnerHasStep' /\ MailIsListed'
    BY <1>1 DEF FolderIInv, StepsAreTrue, RunnerHasStep, MailIsListed, Taken
  <1>4. RenameTakesMembers'
    BY <1>1 DEF FolderIInv, RenameTakesMembers, Members
  <1>5. MakerHasStage' /\ RequestIsTrue'
    BY <1>1, <1>2 DEF FolderIInv, MakerHasStage, RequestIsTrue
  <1>6. QED BY <1>3, <1>4, <1>5

LEMMA FolderStepInv == FolderIInv /\ [FolderNext]_folderVars => FolderIInv'
  <1> SUFFICES ASSUME FolderIInv, [FolderNext]_folderVars PROVE FolderIInv'
    OBVIOUS
  <1>1. FolderTypeOK'
    BY FolderStepType DEF FolderIInv
  <1>2. /\ StepsAreTrue' /\ RunnerHasStep' /\ RenameTakesMembers' /\ MailIsListed'
        /\ MakerHasStage' /\ RequestIsTrue'
    BY IdleInv, StartInv, DecisionInv, ClaimInv, SendInv, RecordInv, ConfirmInv, CreationInv,
       OthersInv, CrashInv
    DEF FolderNext
  <1>3. QED BY <1>1, <1>2 DEF FolderIInv, RequestIsTrue

----------------------------------------------------------------------------
(* Theorems. *)

(* The journals of an account's folders keep their types and the invariant     *)
(* that explains them, whatever the server, other clients and crashes do.      *)
THEOREM FoldersHold == FolderSpec => []FolderIInv
  <1>1. QED BY FolderInitInv, FolderStepInv, PTL DEF FolderSpec

THEOREM FolderTypesHold == FolderSpec => []FolderTypeOK
  <1>1. FolderIInv => FolderTypeOK
    BY DEF FolderIInv
  <1>2. QED BY <1>1, FoldersHold, PTL

(* A step or a request that says that nothing happened is right, and so is one *)
(* that says it is done.                                                      *)
THEOREM ReportsAreTrue == FolderSpec => []FolderReportsAreTrue
  <1>1. FolderIInv => FolderReportsAreTrue
    BY DEF FolderIInv, StepsAreTrue, Taken, FolderReportsAreTrue
  <1>2. QED BY <1>1, FoldersHold, PTL

(* Mail leaves the cache, or changes its folder there, only after the server   *)
(* has done the same.                                                         *)
LEMMA CacheFollows ==
    ASSUME FolderIInv, [FolderNext]_folderVars, imap, NEW l \in Leaves,
           cached'[l] # cached[l]
    PROVE  IF cached'[l] = "gone" THEN stored[l] # cached[l]
           ELSE stored[l] \in {cached'[l], "gone"}
  <1> USE DEF folderServer, folderCache, change, asked, RestOfMaker
  <1>1. Confirm
    BY DEF FolderNext, folderVars, AdmitMail, FinishMail, RefreshFolders, Review, StartFolders,
           Take, GiveUpTurn, ClaimStep, SendCommand, RecordStep, RetryFolders, StopFolders,
           AskCreation, CancelCreation, RetryCreation, DismissCreation, Decide, TakeCreation,
           CreateLocally, Plan, Inspect, Create, Answer, List, Leave, OthersCreate,
           OthersDelete, Tidy, Crash
  <1>2. PICK s \in Leaves : job.step[s] = "Acknowledged" /\ Commit(s)
    BY <1>1 DEF Confirm
  <1>3. stored \in Placed /\ cached \in Placed
    BY FolderTypes DEF FolderIInv
  <1>4. /\ l \in Carried(s) /\ cached[l] = "here"
        /\ cached'[l] = IF job.plan.action = "rename" THEN "there" ELSE "gone"
    BY <1>2, <1>3 DEF Commit, Placed
  <1>5. stored[l] # "here"
    <2>1. Taken(s)
      BY <1>2 DEF FolderIInv, StepsAreTrue
    <2>2. job.plan.action = "rename" => s = Root
      BY <1>2 DEF FolderIInv, RenameTakesMembers
    <2>3. QED BY <1>4, <2>1, <2>2
      DEF Taken, Carried, FolderIInv, MailIsListed, RenameTakesMembers
  <1>6. QED BY <1>3, <1>4, <1>5 DEF Placed, Sides

THEOREM MailFollows == FolderSpec => MailFollowsFolders
  <1>1. FolderIInv /\ [FolderNext]_folderVars =>
          [imap => \A l \in Leaves : cached'[l] # cached[l] =>
              IF cached'[l] = "gone" THEN stored[l] # cached[l]
              ELSE stored[l] \in {cached'[l], "gone"}]_folderVars
    BY CacheFollows
  <1>2. FolderIInv =>
          (imap /\ job.plan.action = "rename" /\ job.step[Root] = "Done" =>
              \A l \in Leaves : stored[l] \in {cached[l], "gone"})
    BY DEF FolderIInv, RenameTakesMembers
  <1>3. QED BY <1>1, <1>2, FoldersHold, PTL DEF FolderSpec, MailFollowsFolders

----------------------------------------------------------------------------
(* The schedule of mail checks *)

(* The inductive invariant. *)

(* A slot is running exactly when one check of its account is under way. *)
SlotsTellJobs ==
    \A t \in Accounts :
        jobs[t]["Refresh"] + jobs[t]["Background"]
            = IF t \in slots /\ slot[t].running THEN 1 ELSE 0

(* A change waits in the channel or in the slot; without a slot the account  *)
(* is due anyway.                                                            *)
NewsWait ==
    \A t \in news :
        background /\ (t \in slots => t \in pushes \/ slot[t].pushed)

(* What is owed is known from the count of clicks, and what is being checked *)
(* for a click is checked as a Refresh.                                      *)
DebtsAreCounted ==
    \A t \in Accounts :
        /\ t \in slots => slot[t].served <= requests
        /\ owed[t] = "check" =>
              requests > 0 /\ (t \in slots => slot[t].served < requests)
        /\ owed[t] = "checking" => jobs[t]["Refresh"] > 0

IInv == TypeOK /\ SlotsTellJobs /\ NewsWait /\ DebtsAreCounted

-----------------------------------------------------------------------------
(* What a pass does to one account. *)

LEMMA OriginsFacts == "Refresh" \in Origins /\ "Background" \in Origins
  BY DEF Origins

LEMMA KnownFacts ==
    ASSUME TypeOK, NEW t \in Accounts
    PROVE  /\ Known(t) \in Slot
           /\ t \in slots => Known(t) = slot[t]
           /\ t \notin slots => Known(t) = NewSlot
  BY DEF Known, TypeOK, Slot, NewSlot

(* A pass that lists the accounts, seen from one account that it starts ... *)
LEMMA StartedFacts ==
    ASSUME TypeOK, PassStarts, NEW t \in Accounts, t \in Due(requests')
    PROVE  /\ t \in ready /\ t \in slots' /\ t \notin news'
           /\ ~ Known(t).running
           /\ slot'[t] = [running |-> TRUE, served |-> requests', pushed |-> FALSE]
           /\ jobs'[t]["Refresh"] = jobs[t]["Refresh"]
                + IF Manual(t, requests') THEN 1 ELSE 0
           /\ jobs'[t]["Background"] = jobs[t]["Background"]
                + IF Manual(t, requests') THEN 0 ELSE 1
           /\ owed'[t] = IF clicks > 0 \/ owed[t] = "check" THEN "checking"
                         ELSE owed[t]
  <1>1. t \in ready /\ ~ Known(t).running
    BY DEF Due
  <1>2. slots' = Retained /\ news' = news \ Due(requests')
    BY DEF PassStarts, Pass, Start
  <1>3. slot'[t] = Started(requests') /\ owed'[t] = Owes(t, Due(requests'))
    BY DEF PassStarts, Pass, Start
  <1>4. \A o \in Origins : jobs'[t][o] = jobs[t][o]
            + IF o = (IF Manual(t, requests') THEN "Refresh" ELSE "Background")
              THEN 1 ELSE 0
    BY DEF PassStarts, Pass, Start
  <1>5. QED
    BY <1>1, <1>2, <1>3, <1>4, OriginsFacts DEF Retained, Started, Owes

(* ... and from one that it does not. *)
LEMMA SkippedFacts ==
    ASSUME TypeOK, PassStarts, NEW t \in Accounts, t \notin Due(requests')
    PROVE  /\ t \in slots' <=> t \in ready \/ (t \in slots /\ slot[t].running)
           /\ t \in slots' => slot'[t] = Known(t)
           /\ t \in news' <=> t \in news
           /\ jobs'[t]["Refresh"] = jobs[t]["Refresh"]
           /\ jobs'[t]["Background"] = jobs[t]["Background"]
           /\ owed'[t] = IF clicks > 0 THEN "check" ELSE owed[t]
  <1>1. slots' = Retained /\ news' = news \ Due(requests')
    BY DEF PassStarts, Pass, Start
  <1>2. t \in slots' => slot'[t] = Known(t)
    BY DEF PassStarts, Pass, Start, Skipped
  <1>3. \A o \in Origins : jobs'[t][o] = jobs[t][o] + 0
    BY DEF PassStarts, Pass, Start
  <1>4. jobs[t]["Refresh"] \in Nat /\ jobs[t]["Background"] \in Nat
    BY OriginsFacts DEF TypeOK
  <1>5. owed'[t] = Owes(t, Due(requests'))
    BY DEF PassStarts, Pass, Start
  <1>6. QED
    BY <1>1, <1>2, <1>3, <1>4, <1>5, OriginsFacts DEF Retained, Owes

(* A pass that cannot list them. *)
LEMMA SettledFacts ==
    ASSUME TypeOK, PassFails, NEW t \in Accounts
    PROVE  /\ slots' = slots /\ jobs' = jobs /\ news' = news
           /\ slot'[t] = IF t \in slots /\ ~ slot[t].running
                         THEN [slot[t] EXCEPT !.served = requests'] ELSE slot[t]
           /\ owed'[t] = IF t \in slots /\ ~ slot[t].running THEN "nothing"
                         ELSE IF clicks > 0 THEN "check" ELSE owed[t]
  BY DEF PassFails, Pass, Settle, Owes, TypeOK

(* Every pass counts the clicks. *)
LEMMA PassFacts ==
    ASSUME TypeOK, Loop
    PROVE  /\ requests' = requests + clicks /\ requests' \in Nat
           /\ clicks' = 0 /\ pass' = FALSE
           /\ ready' = ready /\ pushes' = pushes /\ closed' = closed
           /\ changes' = changes /\ background' = background
           /\ Tell
  BY DEF Loop, PassStarts, PassFails, PassRests, Pass, TypeOK

-----------------------------------------------------------------------------
(* The type invariant. *)

LEMMA InitTyped == ASSUME Init PROVE TypeOK
  <1>1. slot \in [Accounts -> Slot]
    <2>1. NewSlot \in Slot
      BY DEF NewSlot, Slot
    <2>2. QED BY <2>1 DEF Init
  <1>2. elapsed \in [Accounts -> BOOLEAN]
    BY DEF Init
  <1>3. jobs \in [Accounts -> [Origins -> Nat]]
    BY DEF Init
  <1>4. owed \in [Accounts -> {"nothing", "check", "checking"}]
    BY DEF Init
  <1>5. /\ ready \subseteq Accounts /\ pushes \subseteq Accounts
        /\ slots \subseteq Accounts /\ news \subseteq Accounts
    BY DEF Init
  <1>6. clicks \in Nat /\ requests \in Nat /\ changes \in Nat
    BY DEF Init
  <1>7. background \in BOOLEAN /\ closed \in BOOLEAN /\ pass \in BOOLEAN /\ busy \in BOOLEAN
    BY ScheduleAssumption DEF Init
  <1>8. QED BY <1>1, <1>2, <1>3, <1>4, <1>5, <1>6, <1>7 DEF TypeOK

LEMMA PassTyped == ASSUME TypeOK, Loop PROVE TypeOK'
  <1>1. /\ ready' \subseteq Accounts /\ pushes' \subseteq Accounts
        /\ clicks' \in Nat /\ requests' \in Nat /\ changes' \in Nat
        /\ closed' \in BOOLEAN /\ pass' \in BOOLEAN /\ background' \in BOOLEAN
    <2>1. /\ clicks' = 0 /\ pass' = FALSE /\ requests' \in Nat
          /\ ready' = ready /\ pushes' = pushes /\ closed' = closed
          /\ changes' = changes /\ background' = background
      BY PassFacts
    <2>2. QED BY <2>1 DEF TypeOK
  <1>2. busy' \in BOOLEAN
    BY PassFacts DEF Tell
  <1> SUFFICES
        /\ slots' \subseteq Accounts
        /\ slot' \in [Accounts -> Slot]
        /\ elapsed' \in [Accounts -> BOOLEAN]
        /\ jobs' \in [Accounts -> [Origins -> Nat]]
        /\ owed' \in [Accounts -> {"nothing", "check", "checking"}]
        /\ news' \subseteq Accounts
    BY <1>1, <1>2 DEF TypeOK
  <1>3. CASE PassStarts
    <2>1. slots' \subseteq Accounts /\ news' \subseteq Accounts
      BY <1>3 DEF PassStarts, Pass, Start, Retained, TypeOK
    <2>2. slot' \in [Accounts -> Slot]
      <3>1. \A t \in Accounts : Started(requests') \in Slot
                                /\ Skipped(t, requests') \in Slot /\ NewSlot \in Slot
        BY PassFacts, KnownFacts DEF Started, Skipped, Slot, NewSlot
      <3>2. slot' = [t \in Accounts |->
                       IF t \in Due(requests') THEN Started(requests')
                       ELSE IF t \in slots' THEN Skipped(t, requests') ELSE NewSlot]
        BY <1>3 DEF PassStarts, Pass, Start
      <3>3. QED BY <3>1, <3>2
    <2>3. elapsed' \in [Accounts -> BOOLEAN]
      BY <1>3 DEF PassStarts, Pass, Start, TypeOK
    <2>4. jobs' \in [Accounts -> [Origins -> Nat]]
      BY <1>3 DEF PassStarts, Pass, Start, TypeOK
    <2>5. owed' \in [Accounts -> {"nothing", "check", "checking"}]
      <3>1. \A t \in Accounts : Owes(t, Due(requests')) \in {"nothing", "check", "checking"}
        BY DEF Owes, TypeOK
      <3>2. owed' = [t \in Accounts |-> Owes(t, Due(requests'))]
        BY <1>3 DEF PassStarts, Pass, Start
      <3>3. QED BY <3>1, <3>2
    <2>6. QED BY <2>1, <2>2, <2>3, <2>4, <2>5
  <1>4. CASE PassFails
    <2>1. /\ slots' = slots /\ elapsed' = elapsed /\ jobs' = jobs /\ news' = news
      BY <1>4 DEF PassFails, Pass, Settle
    <2>2. slot' \in [Accounts -> Slot]
      BY <1>4, <1>1 DEF PassFails, Pass, Settle, TypeOK, Slot
    <2>3. owed' \in [Accounts -> {"nothing", "check", "checking"}]
      BY <1>4 DEF PassFails, Pass, Settle, Owes, TypeOK
    <2>4. QED BY <2>1, <2>2, <2>3 DEF TypeOK
  <1>5. CASE PassRests
    BY <1>5 DEF PassRests, Pass, Rest, TypeOK
  <1>6. QED BY <1>3, <1>4, <1>5 DEF Loop

LEMMA WakeTyped == ASSUME TypeOK, Wakes PROVE TypeOK'
  <1>1. ASSUME NEW t \in Accounts, TakePush(t) PROVE TypeOK'
    <2>1. slot' \in [Accounts -> Slot]
      <3>1. slot \in [Accounts -> Slot]
        BY DEF TypeOK
      <3>2. Woken(t) \in Slot
        BY <3>1 DEF Woken, Slot
      <3>3. slot' = slot \/ slot' = [slot EXCEPT ![t] = Woken(t)]
        BY <1>1 DEF TakePush
      <3>4. QED BY <3>1, <3>2, <3>3
    <2>2. QED BY <1>1, <2>1 DEF TakePush, history, TypeOK
  <1>2. ASSUME NEW t \in Accounts, NEW o \in Origins, Finish(t, o) PROVE TypeOK'
    <2>1. slot' \in [Accounts -> Slot]
      BY <1>2 DEF Finish, Finished, TypeOK, Slot
    <2>2. jobs' \in [Accounts -> [Origins -> Nat]]
      BY <1>2 DEF Finish, TypeOK
    <2>3. QED BY <1>2, <2>1, <2>2 DEF Finish, world, TypeOK
  <1>3. ASSUME TakeClick \/ Timer PROVE TypeOK'
    BY <1>3 DEF TakeClick, Timer, world, schedule, history, TypeOK
  <1>4. QED BY <1>1, <1>2, <1>3 DEF Wakes

LEMMA OutsideTyped == ASSUME TypeOK, Outside PROVE TypeOK'
  <1>0. ASSUME Click PROVE TypeOK'
    <2>1. clicks' \in Nat
      BY <1>0 DEF Click, TypeOK
    <2>2. QED BY <1>0, <2>1 DEF Click, schedule, history, TypeOK
  <1>1. ASSUME Close PROVE TypeOK'
    BY <1>1 DEF Close, schedule, history, TypeOK
  <1>2. ASSUME NEW t \in Accounts, Elapse(t) PROVE TypeOK'
    BY <1>2 DEF Elapse, world, history, TypeOK
  <1>3. ASSUME NEW t \in Accounts, Push(t) \/ Change(t) PROVE TypeOK'
    BY <1>3 DEF Push, Change, schedule, TypeOK
  <1>4. QED BY <1>0, <1>1, <1>2, <1>3 DEF Outside

LEMMA Typed == ASSUME TypeOK, [Next]_vars PROVE TypeOK'
  <1>1. CASE UNCHANGED vars
    BY <1>1 DEF vars, world, schedule, history, TypeOK
  <1>2. QED BY <1>1, PassTyped, WakeTyped, OutsideTyped DEF Next

-----------------------------------------------------------------------------
(* Each part of the invariant is kept by every step. *)

LEMMA JobsSum ==
    ASSUME TypeOK, NEW t \in Accounts
    PROVE  jobs[t]["Refresh"] \in Nat /\ jobs[t]["Background"] \in Nat
  BY OriginsFacts DEF TypeOK

LEMMA SlotsTellJobsKept ==
    ASSUME TypeOK, SlotsTellJobs, [Next]_vars PROVE SlotsTellJobs'
  <1> SUFFICES ASSUME NEW t \in Accounts
               PROVE  jobs'[t]["Refresh"] + jobs'[t]["Background"]
                        = IF t \in slots' /\ slot'[t].running THEN 1 ELSE 0
    BY DEF SlotsTellJobs
  <1>0. /\ jobs[t]["Refresh"] + jobs[t]["Background"]
             = IF t \in slots /\ slot[t].running THEN 1 ELSE 0
        /\ jobs[t]["Refresh"] \in Nat /\ jobs[t]["Background"] \in Nat
    BY JobsSum DEF SlotsTellJobs
  <1>1. CASE PassStarts
    <2>1. CASE t \in Due(requests')
      <3>1. t \in slots' /\ slot'[t].running
        BY <1>1, <2>1, StartedFacts
      <3>2. jobs[t]["Refresh"] + jobs[t]["Background"] = 0
        BY <1>0, <1>1, <2>1, StartedFacts, KnownFacts
      <3>3. QED BY <1>0, <1>1, <2>1, <3>1, <3>2, StartedFacts
    <2>2. CASE t \notin Due(requests')
      <3>1. t \in slots' => slot'[t] = Known(t)
        BY <1>1, <2>2, SkippedFacts
      <3>2. (t \in slots' /\ slot'[t].running) <=> (t \in slots /\ slot[t].running)
        BY <1>1, <2>2, <3>1, SkippedFacts, KnownFacts DEF NewSlot
      <3>3. QED BY <1>0, <1>1, <2>2, <3>2, SkippedFacts
    <2>3. QED BY <2>1, <2>2
  <1>2. CASE PassFails
    <2>1. slot'[t].running = slot[t].running
      BY <1>2, SettledFacts DEF TypeOK, Slot
    <2>2. QED BY <1>0, <1>2, <2>1, SettledFacts
  <1>3. CASE PassRests
    BY <1>0, <1>3 DEF PassRests, Pass, Rest
  <1>4. ASSUME NEW u \in Accounts, TakePush(u)
        PROVE  jobs'[t]["Refresh"] + jobs'[t]["Background"]
                 = IF t \in slots' /\ slot'[t].running THEN 1 ELSE 0
    <2>1. slot'[t].running = slot[t].running
      <3>1. slot \in [Accounts -> Slot]
        BY DEF TypeOK
      <3>2. Woken(u).running = slot[u].running
        BY <3>1 DEF Woken, Slot
      <3>3. slot' = slot \/ slot' = [slot EXCEPT ![u] = Woken(u)]
        BY <1>4 DEF TakePush
      <3>4. QED BY <3>1, <3>2, <3>3
    <2>2. QED BY <1>0, <1>4, <2>1 DEF TakePush
  <1>5. ASSUME NEW u \in Accounts, NEW o \in Origins, Finish(u, o)
        PROVE  jobs'[t]["Refresh"] + jobs'[t]["Background"]
                 = IF t \in slots' /\ slot'[t].running THEN 1 ELSE 0
    <2>1. CASE u = t
      <3>1. jobs[t][o] > 0 /\ slots' = slots
        BY <1>5, <2>1 DEF Finish
      <3>2. t \in slots
        BY <1>0, <3>1 DEF Origins
      <3>3. ~ slot'[t].running
        BY <1>5, <2>1, <3>2 DEF Finish, Finished, TypeOK, Slot
      <3>4. jobs' = [jobs EXCEPT ![t][o] = jobs[t][o] - 1]
        BY <1>5, <2>1 DEF Finish
      <3>5. /\ jobs'[t][o] = jobs[t][o] - 1
            /\ \A p \in Origins : p # o => jobs'[t][p] = jobs[t][p]
        BY <3>4 DEF TypeOK
      <3>6. QED BY <1>0, <3>1, <3>3, <3>5 DEF Origins
    <2>2. CASE u # t
      <3>1. jobs'[t] = jobs[t] /\ slot'[t] = slot[t] /\ slots' = slots
        BY <1>5, <2>2 DEF Finish, TypeOK
      <3>2. QED BY <1>0, <3>1
    <2>3. QED BY <2>1, <2>2
  <1>6. CASE TakeClick \/ Timer \/ Click \/ Close
    BY <1>0, <1>6 DEF TakeClick, Timer, Click, Close, schedule
  <1>7. ASSUME NEW u \in Accounts, Elapse(u) \/ Push(u) \/ Change(u)
        PROVE  jobs'[t]["Refresh"] + jobs'[t]["Background"]
                 = IF t \in slots' /\ slot'[t].running THEN 1 ELSE 0
    BY <1>0, <1>7 DEF Elapse, Push, Change, schedule
  <1>8. CASE UNCHANGED vars
    BY <1>0, <1>8 DEF vars, schedule
  <1>9. QED
    BY <1>1, <1>2, <1>3, <1>4, <1>5, <1>6, <1>7, <1>8 DEF Next, Loop, Wakes, Outside

(* Steps that leave alone all that the rest of the invariant speaks of. *)
LEMMA QuietFacts ==
    ASSUME \/ TakeClick \/ Timer \/ Click \/ Close \/ UNCHANGED vars
           \/ \E u \in Accounts : Elapse(u) \/ Change(u)
    PROVE  /\ slots' = slots /\ slot' = slot /\ jobs' = jobs /\ owed' = owed
           /\ news' = news /\ requests' = requests /\ pushes' = pushes
  <1>1. CASE TakeClick
    BY <1>1 DEF TakeClick, world, schedule, history
  <1>2. CASE Timer
    BY <1>2 DEF Timer, world, schedule, history
  <1>3. CASE Click
    BY <1>3 DEF Click, schedule, history
  <1>4. CASE Close
    BY <1>4 DEF Close, schedule, history
  <1>5. CASE UNCHANGED vars
    BY <1>5 DEF vars, world, schedule, history
  <1>6. ASSUME NEW u \in Accounts, Elapse(u) \/ Change(u)
        PROVE  /\ slots' = slots /\ slot' = slot /\ jobs' = jobs /\ owed' = owed
               /\ news' = news /\ requests' = requests /\ pushes' = pushes
    BY <1>6 DEF Elapse, Change, world, schedule, history
  <1>7. QED BY <1>1, <1>2, <1>3, <1>4, <1>5, <1>6

(* A notice taken from the channel, and an ended check, seen from one account. *)
LEMMA TakePushFacts ==
    ASSUME TypeOK, NEW u \in Accounts, TakePush(u), NEW t \in Accounts
    PROVE  /\ pushes' = pushes \ {u} /\ slots' = slots /\ jobs' = jobs
           /\ owed' = owed /\ news' = news /\ requests' = requests
           /\ slot'[t].served = slot[t].served
           /\ slot[t].pushed => slot'[t].pushed
           /\ t = u /\ t \in slots => slot'[t].pushed
  <1>1. slot \in [Accounts -> Slot]
    BY DEF TypeOK
  <1>2. Woken(u).served = slot[u].served /\ Woken(u).pushed
    BY <1>1 DEF Woken, Slot
  <1>3. IF u \in slots THEN slot' = [slot EXCEPT ![u] = Woken(u)] ELSE slot' = slot
    BY DEF TakePush
  <1>4. /\ slot'[t].served = slot[t].served
        /\ slot[t].pushed => slot'[t].pushed
        /\ t = u /\ t \in slots => slot'[t].pushed
    BY <1>1, <1>2, <1>3
  <1>5. QED BY <1>4 DEF TakePush, history

LEMMA FinishFacts ==
    ASSUME TypeOK, NEW u \in Accounts, NEW o \in Origins, Finish(u, o),
           NEW t \in Accounts
    PROVE  /\ pushes' = pushes /\ slots' = slots /\ news' = news
           /\ requests' = requests
           /\ slot'[t].served = slot[t].served
           /\ slot'[t].pushed = slot[t].pushed
           /\ t # u => jobs'[t] = jobs[t] /\ owed'[t] = owed[t]
           /\ t = u => owed'[t] = IF owed[t] = "checking" THEN "nothing" ELSE owed[t]
  <1>1. slot \in [Accounts -> Slot]
    BY DEF TypeOK
  <1>2. /\ Finished(u, o).served = slot[u].served
        /\ Finished(u, o).pushed = slot[u].pushed
    BY <1>1 DEF Finished, Slot
  <1>3. slot' = slot \/ slot' = [slot EXCEPT ![u] = Finished(u, o)]
    BY DEF Finish
  <1>4. slot'[t].served = slot[t].served /\ slot'[t].pushed = slot[t].pushed
    BY <1>1, <1>2, <1>3
  <1>5. /\ t # u => jobs'[t] = jobs[t] /\ owed'[t] = owed[t]
        /\ t = u => owed'[t] = IF owed[t] = "checking" THEN "nothing" ELSE owed[t]
    BY DEF Finish, TypeOK
  <1>6. QED BY <1>4, <1>5 DEF Finish, world

(* A listed account that was not in the schedule is started unless nothing is *)
(* started unasked.                                                           *)
LEMMA NewIsDue ==
    ASSUME TypeOK, background, NEW t \in ready, t \notin slots
    PROVE  t \in Due(requests')
  BY DEF Due, Known, NewSlot, Elapsed

(* A preview stays one. *)
LEMMA SameMode == ASSUME [Next]_vars PROVE background' = background
  <1>1. ASSUME Loop PROVE background' = background
    BY <1>1 DEF Loop, PassStarts, PassFails, PassRests, Pass
  <1>2. ASSUME Wakes PROVE background' = background
    BY <1>2 DEF Wakes, TakePush, Finish, TakeClick, Timer, world
  <1>3. ASSUME Outside PROVE background' = background
    BY <1>3 DEF Outside, Click, Close, Elapse, Push, Change, world
  <1>4. QED BY <1>1, <1>2, <1>3 DEF Next, vars, world

LEMMA NewsWaitKept ==
    ASSUME TypeOK, NewsWait, [Next]_vars PROVE NewsWait'
  <1> SUFFICES ASSUME NEW t \in news'
               PROVE  background /\ (t \in slots' => t \in pushes' \/ slot'[t].pushed)
    BY SameMode DEF NewsWait
  <1> DEFINE Waits_ == background /\ (t \in slots => t \in pushes \/ slot[t].pushed)
  <1>0. t \in Accounts
    BY Typed DEF TypeOK
  <1>00. t \in news => Waits_
    BY DEF NewsWait
  <1>1. CASE PassStarts
    <2>1. t \notin Due(requests') /\ t \in news
      BY <1>0, <1>1, StartedFacts, SkippedFacts
    <2>2. pushes' = pushes
      BY <1>1, PassFacts DEF Loop
    <2>3. CASE t \in slots
      <3>1. t \in slots' => slot'[t] = slot[t]
        BY <1>0, <1>1, <2>1, <2>3, SkippedFacts, KnownFacts
      <3>2. QED BY <1>00, <2>1, <2>2, <2>3, <3>1
    <2>4. CASE t \notin slots
      <3>1. t \notin ready
        BY <1>00, <2>1, <2>4, NewIsDue
      <3>2. t \notin slots'
        BY <1>0, <1>1, <2>1, <2>4, <3>1, SkippedFacts
      <3>3. QED BY <1>00, <2>1, <3>2
    <2>5. QED BY <2>3, <2>4
  <1>2. CASE PassFails
    <2>1. slots' = slots /\ news' = news
      BY <1>0, <1>2, SettledFacts
    <2>2. slot'[t].pushed = slot[t].pushed
      BY <1>0, <1>2, SettledFacts DEF TypeOK, Slot
    <2>3. pushes' = pushes
      BY <1>2, PassFacts DEF Loop
    <2>4. QED BY <1>00, <2>1, <2>2, <2>3
  <1>3. CASE PassRests
    BY <1>00, <1>3 DEF PassRests, Pass, Rest
  <1>4. ASSUME NEW u \in Accounts, TakePush(u)
        PROVE  background /\ (t \in slots' => t \in pushes' \/ slot'[t].pushed)
    BY <1>0, <1>00, <1>4, TakePushFacts
  <1>5. ASSUME NEW u \in Accounts, NEW o \in Origins, Finish(u, o)
        PROVE  background /\ (t \in slots' => t \in pushes' \/ slot'[t].pushed)
    BY <1>0, <1>00, <1>5, FinishFacts
  <1>6. ASSUME NEW u \in Accounts, Push(u)
        PROVE  background /\ (t \in slots' => t \in pushes' \/ slot'[t].pushed)
    BY <1>00, <1>6 DEF Push, schedule
  <1>7. CASE \/ TakeClick \/ Timer \/ Click \/ Close \/ UNCHANGED vars
             \/ \E u \in Accounts : Elapse(u) \/ Change(u)
    BY <1>00, <1>7, QuietFacts
  <1>8. QED
    BY <1>1, <1>2, <1>3, <1>4, <1>5, <1>6, <1>7 DEF Next, Loop, Wakes, Outside

LEMMA DebtsAreCountedKept ==
    ASSUME TypeOK, DebtsAreCounted, [Next]_vars PROVE DebtsAreCounted'
  <1> DEFINE Counted(t) ==
        /\ t \in slots => slot[t].served <= requests
        /\ owed[t] = "check" =>
              requests > 0 /\ (t \in slots => slot[t].served < requests)
        /\ owed[t] = "checking" => jobs[t]["Refresh"] > 0
  <1> SUFFICES ASSUME NEW t \in Accounts PROVE Counted(t)'
    BY DEF DebtsAreCounted
  <1>0. /\ Counted(t) /\ requests \in Nat /\ clicks \in Nat
        /\ jobs[t]["Refresh"] \in Nat
    BY JobsSum DEF DebtsAreCounted, TypeOK
  <1>00. ASSUME Loop PROVE requests' = requests + clicks /\ requests' \in Nat
    BY <1>00, PassFacts
  <1>01. slot[t] \in Slot /\ slot[t].served \in Nat
    BY DEF TypeOK, Slot
  <1>1. CASE PassStarts
    <2>0. requests' = requests + clicks /\ requests' \in Nat
      BY <1>1, <1>00 DEF Loop
    <2>1. Known(t).served <= requests /\ Known(t).served \in Nat
      BY <1>0, <1>01, KnownFacts DEF NewSlot
    <2>2. clicks > 0 \/ owed[t] = "check" => Known(t).served < requests'
      BY <1>0, <1>01, <2>0, <2>1, KnownFacts DEF NewSlot
    <2>3. clicks > 0 \/ owed[t] = "check" => requests' > 0
      BY <1>0, <2>0
    <2>4. CASE t \in Due(requests')
      <3>1. slot'[t].served = requests'
        BY <1>1, <2>4, StartedFacts
      <3>2. owed'[t] # "check"
        BY <1>1, <2>4, StartedFacts
      <3>3. CASE clicks > 0 \/ owed[t] = "check"
        <4>1. Manual(t, requests')
          BY <2>2, <3>3 DEF Manual
        <4>2. jobs'[t]["Refresh"] > 0
          BY <1>0, <1>1, <2>4, <4>1, StartedFacts
        <4>3. QED BY <2>0, <3>1, <3>2, <4>2
      <3>4. CASE ~ (clicks > 0 \/ owed[t] = "check")
        <4>1. owed'[t] = owed[t]
          BY <1>1, <2>4, <3>4, StartedFacts
        <4>2. owed'[t] = "checking" => jobs'[t]["Refresh"] > 0
          BY <1>0, <1>1, <2>4, <4>1, StartedFacts
        <4>3. QED BY <2>0, <3>1, <3>2, <4>2
      <3>5. QED BY <3>3, <3>4
    <2>5. CASE t \notin Due(requests')
      <3>1. t \in slots' => slot'[t].served = Known(t).served
        BY <1>1, <2>5, SkippedFacts
      <3>2. /\ jobs'[t]["Refresh"] = jobs[t]["Refresh"]
            /\ owed'[t] = IF clicks > 0 THEN "check" ELSE owed[t]
        BY <1>1, <2>5, SkippedFacts
      <3>3. owed'[t] = "checking" => jobs'[t]["Refresh"] > 0
        BY <1>0, <3>2
      <3>4. owed'[t] = "check" => clicks > 0 \/ owed[t] = "check"
        BY <3>2
      <3>5. t \in slots' => slot'[t].served <= requests'
        BY <1>0, <2>0, <2>1, <3>1
      <3>6. QED BY <2>2, <2>3, <3>1, <3>3, <3>4, <3>5
    <2>6. QED BY <2>4, <2>5
  <1>2. CASE PassFails
    <2>0. requests' = requests + clicks /\ requests' \in Nat
      BY <1>2, <1>00 DEF Loop
    <2>1. slots' = slots /\ jobs' = jobs
      BY <1>2, SettledFacts
    <2>2. CASE t \in slots /\ ~ slot[t].running
      <3>1. slot'[t] = [slot[t] EXCEPT !.served = requests'] /\ owed'[t] = "nothing"
        BY <1>2, <2>2, SettledFacts
      <3>2. slot'[t].served = requests'
        BY <1>01, <3>1 DEF Slot
      <3>3. QED BY <2>0, <3>1, <3>2
    <2>3. CASE ~ (t \in slots /\ ~ slot[t].running)
      <3>1. /\ slot'[t] = slot[t]
            /\ owed'[t] = IF clicks > 0 THEN "check" ELSE owed[t]
        BY <1>2, <2>3, SettledFacts
      <3>2. QED BY <1>0, <1>01, <2>0, <2>1, <3>1
    <2>4. QED BY <2>2, <2>3
  <1>3. CASE PassRests
    <2>1. clicks = 0
      BY <1>0, <1>3 DEF PassRests, Asked
    <2>2. requests' = requests
      BY <1>0, <1>3, <1>00, <2>1 DEF Loop
    <2>3. slots' = slots /\ slot' = slot /\ jobs' = jobs /\ owed' = owed
      BY <1>3 DEF PassRests, Pass, Rest
    <2>4. QED BY <1>0, <2>2, <2>3
  <1>4. ASSUME NEW u \in Accounts, TakePush(u) PROVE Counted(t)'
    BY <1>0, <1>4, TakePushFacts
  <1>5. ASSUME NEW u \in Accounts, NEW o \in Origins, Finish(u, o) PROVE Counted(t)'
    <2>1. /\ slots' = slots /\ requests' = requests
          /\ slot'[t].served = slot[t].served
          /\ t # u => jobs'[t] = jobs[t] /\ owed'[t] = owed[t]
          /\ t = u => owed'[t] = IF owed[t] = "checking" THEN "nothing" ELSE owed[t]
      BY <1>5, FinishFacts
    <2>2. QED BY <1>0, <2>1
  <1>6. ASSUME NEW u \in Accounts, Push(u) PROVE Counted(t)'
    BY <1>0, <1>6 DEF Push, schedule
  <1>7. CASE \/ TakeClick \/ Timer \/ Click \/ Close \/ UNCHANGED vars
             \/ \E u \in Accounts : Elapse(u) \/ Change(u)
    BY <1>0, <1>7, QuietFacts
  <1>8. QED
    BY <1>1, <1>2, <1>3, <1>4, <1>5, <1>6, <1>7 DEF Next, Loop, Wakes, Outside

-----------------------------------------------------------------------------
(* The theorems. *)

LEMMA InitInvariant == ASSUME Init PROVE IInv
  <1>1. SlotsTellJobs /\ NewsWait
    BY DEF Init, SlotsTellJobs, NewsWait, Origins
  <1>2. DebtsAreCounted
    BY DEF Init, DebtsAreCounted
  <1>3. QED BY <1>1, <1>2, InitTyped DEF IInv

(* The slots of the schedule, the checks under way, the notices in the       *)
(* channel and what clicks are owed agree after every step of the loop.      *)
THEOREM Invariant == Spec => []IInv
  <1>1. Init => IInv
    BY InitInvariant
  <1>2. IInv /\ [Next]_vars => IInv'
    BY Typed, SlotsTellJobsKept, NewsWaitKept, DebtsAreCountedKept DEF IInv
  <1>3. QED BY <1>1, <1>2, PTL DEF Spec

(* Every variable of the loop keeps its type. *)
THEOREM TypeCorrect == Spec => []TypeOK
  <1>1. IInv => TypeOK
    BY DEF IInv
  <1>2. QED BY <1>1, Invariant, PTL

(* No account is checked twice at the same time, whatever accounts come and  *)
(* go: start() skips what runs and retain() keeps its slot.                  *)
THEOREM OneCheck == Spec => []OneCheckAtATime
  <1>1. IInv => OneCheckAtATime
    BY DEF IInv, SlotsTellJobs, OneCheckAtATime
  <1>2. QED BY <1>1, Invariant, PTL

(* After a pass every listed account with a change that wake() has heard of  *)
(* is being checked.                                                         *)
THEOREM Followed == Spec => ChangesAreFollowed
  <1>1. ASSUME IInv, PassStarts, NEW t \in ready \cap news'
        PROVE  t \in pushes \/ \E o \in Origins : jobs'[t][o] > 0
    <2>1. t \in Accounts /\ TypeOK
      BY <1>1 DEF IInv, TypeOK
    <2>2. t \notin Due(requests')
      BY <1>1, <2>1, StartedFacts
    <2>3. t \in news
      BY <1>1, <2>1, <2>2, SkippedFacts
    <2>4. background /\ (t \in slots => t \in pushes \/ slot[t].pushed)
      BY <1>1, <2>3 DEF IInv, NewsWait
    <2>5. t \in slots
      BY <1>1, <2>1, <2>2, <2>4, NewIsDue
    <2>6. CASE slot[t].pushed
      <3>1. slot[t].running
        BY <1>1, <2>1, <2>2, <2>5, <2>6, KnownFacts DEF Due
      <3>2. jobs[t]["Refresh"] + jobs[t]["Background"] = 1
        BY <1>1, <2>1, <2>5, <3>1 DEF IInv, SlotsTellJobs
      <3>3. jobs'[t]["Refresh"] > 0 \/ jobs'[t]["Background"] > 0
        BY <1>1, <2>1, <2>2, <3>2, JobsSum, SkippedFacts
      <3>4. QED BY <3>3, OriginsFacts
    <2>7. QED BY <2>4, <2>5, <2>6
  <1>2. IInv /\ [Next]_vars =>
          [PassStarts => \A t \in ready \cap news' :
               t \in pushes \/ \E o \in Origins : jobs'[t][o] > 0]_vars
    BY <1>1
  <1>3. QED BY <1>2, Invariant, PTL DEF Spec, ChangesAreFollowed

(* The window is told that a refresh is over only when no account in the     *)
(* schedule is owed a check for a click.                                     *)
THEOREM MeansChecked == Spec => RefreshMeansChecked
  <1>1. ASSUME IInv, IInv', [Next]_vars, busy, ~ busy', NEW t \in slots'
        PROVE  owed'[t] = "nothing"
    <2>1. Loop
      <3>1. ASSUME NEW u \in Accounts, TakePush(u) PROVE FALSE
        BY <1>1, <3>1 DEF TakePush
      <3>2. ASSUME NEW u \in Accounts, NEW o \in Origins, Finish(u, o) PROVE FALSE
        BY <1>1, <3>2 DEF Finish
      <3>3. ASSUME TakeClick \/ Timer \/ Click \/ Close PROVE FALSE
        BY <1>1, <3>3 DEF TakeClick, Timer, Click, Close
      <3>4. ASSUME NEW u \in Accounts, Elapse(u) \/ Push(u) \/ Change(u) PROVE FALSE
        BY <1>1, <3>4 DEF Elapse, Push, Change
      <3>5. ASSUME UNCHANGED vars PROVE FALSE
        BY <1>1, <3>5 DEF vars
      <3>6. QED BY <1>1, <3>1, <3>2, <3>3, <3>4, <3>5 DEF Next, Wakes, Outside
    <2>2. Running("Refresh", jobs') = {} /\ Served(slots', slot', requests')
      BY <1>1, <2>1, PassFacts DEF IInv, Tell
    <2>3. t \in Accounts /\ requests' \in Nat
      BY <1>1 DEF IInv, TypeOK
    <2>4. slot'[t].served = requests'
      BY <1>1, <2>2 DEF Served
    <2>5. ~ (jobs'[t]["Refresh"] > 0)
      BY <2>2, <2>3 DEF Running
    <2>6. /\ owed'[t] = "check" => slot'[t].served < requests'
          /\ owed'[t] = "checking" => jobs'[t]["Refresh"] > 0
      BY <1>1, <2>3 DEF IInv, DebtsAreCounted
    <2>7. owed'[t] \in {"nothing", "check", "checking"}
      BY <1>1, <2>3 DEF IInv, TypeOK
    <2>8. QED BY <2>3, <2>4, <2>5, <2>6, <2>7
  <1>2. IInv /\ IInv' /\ [Next]_vars =>
          [busy /\ ~ busy' => \A t \in slots' : owed'[t] = "nothing"]_vars
    BY <1>1
  <1>3. QED BY <1>2, Invariant, PTL DEF Spec, RefreshMeansChecked
=============================================================================
