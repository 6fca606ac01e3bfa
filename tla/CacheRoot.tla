------------------------------- MODULE CacheRoot -------------------------------
(***************************************************************************)
(* The folder of one cache database and the processes that open it: the    *)
(* lock of the folder (ownership), the opening of the root (bootstrap),    *)
(* and the replacement of the plaintext by an encrypted copy with its      *)
(* recovery after a stop at any point (publication, migration).            *)
(*                                                                         *)
(* A file is its kind, the writes it holds, the schema version in it, and  *)
(* whether it opens.  The staged copy is the candidate; the plaintext that *)
(* gave way to it is kept as recovery until the copy in its place was      *)
(* read; record is the journal beside them.  Every rename, removal and     *)
(* write of a file is a step of its own.                                   *)
(***************************************************************************)
EXTENDS Naturals, FiniteSets

CONSTANTS
    Processes,       \* cooperating processes, which take the lock
    MaxSaves,        \* bound: writes to the cache
    MaxFaults        \* bound: damaged or lost copies, failing steps

ASSUME CacheAssumption == IsFiniteSet(Processes) /\ {MaxSaves, MaxFaults} \subseteq Nat

VARIABLES
    main, candidate, recovery, record,
    marker,          \* .cache-root: the folder has a device key
    opener,          \* what each process does
    saved,           \* history: every write that was made
    overlooked,      \* history: writes to the plaintext made after its last comparison
    unrecovered,     \* history: a process opened the cache before recovery
    faults

folder == <<main, candidate, recovery, record>>
cacheVars == <<folder, marker, opener, saved, overlooked, unrecovered, faults>>

Absent == [kind |-> "absent", data |-> {}, version |-> 0, opens |-> FALSE]
File(kind, data, version) == [kind |-> kind, data |-> data, version |-> version, opens |-> TRUE]
NoRecord == [version |-> 0, source |-> Absent]
(* The version of the schema this program writes; an older one has 1. *)
CurrentVersion == 2
Files == [kind : {"absent", "plain", "keyed"}, data : SUBSET (0 .. MaxSaves), version : 0 .. CurrentVersion,
          opens : BOOLEAN]
Off == [at |-> "off", migrate |-> FALSE, guard |-> "none", key |-> FALSE, source |-> Absent]
Renaming == {"retire", "publish", "withdraw", "restore"}
Publishing == {"journal", "verify", "dispose", "finish", "discard"} \cup Renaming
OpenerStages == {"off", "joining", "marker", "recover", "databases", "staging", "staged", "sharing",
           "sharing again", "owner"} \cup Publishing

CacheInit ==
    /\ main \in {Absent} \cup {File("plain", {0}, v) : v \in 1 .. CurrentVersion}
    /\ candidate = Absent /\ recovery = Absent /\ record = NoRecord
    /\ marker = FALSE /\ opener = [p \in Processes |-> Off]
    /\ saved = main.data /\ overlooked = {} /\ unrecovered = FALSE /\ faults = 0

Turns(p, to) == opener' = [opener EXCEPT ![p].at = to]
Keep == UNCHANGED <<saved, overlooked, unrecovered, faults>>
Doing(p, stage) == opener[p].at = stage

----------------------------------------------------------------------------
(* The lock of the folder: Guard.  It ends with its process. *)

Holding(kind) == {p \in Processes : opener[p].guard = kind}
Available(p, kind) ==
    /\ Holding("exclusive") \subseteq {p}
    /\ kind = "exclusive" => Holding("shared") \subseteq {p}

Locked(p, kind, to) == opener' = [opener EXCEPT ![p].guard = kind, ![p].at = to]
(* open_root() takes the folder for itself, or, without a migration, joins. *)
OpenRoot(p, migrate) ==
    /\ Doing(p, "off")
    /\ \/ Available(p, "exclusive")
          /\ opener' = [opener EXCEPT ![p] = [Off EXCEPT !.at = "marker", !.migrate = migrate,
                                                         !.guard = "exclusive"]]
       \/ ~Available(p, "exclusive") /\ ~migrate
          /\ opener' = [opener EXCEPT ![p] = [Off EXCEPT !.at = "joining"]]
    /\ Keep /\ UNCHANGED <<folder, marker>>
Join(p) ==
    /\ Doing(p, "joining") /\ Available(p, "shared") /\ Locked(p, "shared", "marker")
    /\ Keep /\ UNCHANGED <<folder, marker>>
(* share() releases the lock and takes it again. *)
ReleaseRoot(p) ==
    /\ Doing(p, "sharing") /\ opener[p].guard = "exclusive" /\ Locked(p, "none", "sharing again")
    /\ Keep /\ UNCHANGED <<folder, marker>>
Share(p) ==
    /\ Doing(p, "sharing again") /\ Available(p, "shared") /\ Locked(p, "shared", "sharing")
    /\ Keep /\ UNCHANGED <<folder, marker>>

----------------------------------------------------------------------------
(* open_root() *)

ReadMarker(p) ==
    /\ Doing(p, "marker")
    /\ LET key == marker \/ opener[p].migrate IN
        /\ marker' = key
        /\ opener' = [opener EXCEPT
                ![p].key = key,
                ![p].at = IF ~key THEN "sharing"
                          ELSE IF opener[p].guard = "exclusive" THEN "recover" ELSE "databases"]
    /\ Keep /\ UNCHANGED folder

(* What the process does with the database it finds. *)
Databases(p) ==
    /\ Doing(p, "databases")
    /\ \/ main.kind = "absent" /\ Turns(p, "sharing")
       \/ main.kind = "keyed" /\ main.opens /\ Turns(p, "sharing")
       \/ main.kind = "plain" /\ opener[p].guard = "exclusive" /\ Turns(p, "staging")
    /\ Keep /\ UNCHANGED <<folder, marker>>

(* The process is an owner now: the store opens the database or makes one, *)
(* and brings the schema to its version.                                   *)
Unlocked(p) == opener[p].key = (main.kind = "keyed") \/ main.kind = "absent"
BecomeOwner(p) ==
    /\ Doing(p, "sharing") /\ opener[p].guard = "shared"
    /\ marker = opener[p].key /\ Unlocked(p)
    /\ main' = IF main = Absent THEN File(IF opener[p].key THEN "keyed" ELSE "plain", {}, CurrentVersion)
               ELSE [main EXCEPT !.version = CurrentVersion]
    /\ Turns(p, "owner")
    /\ unrecovered' = (unrecovered \/ record # NoRecord)
    /\ UNCHANGED <<candidate, recovery, record, marker, saved, overlooked, faults>>
SaveMail(p) ==
    /\ Doing(p, "owner") /\ Cardinality(saved) < MaxSaves
    /\ saved' = saved \cup {Cardinality(saved)}
    /\ main' = [main EXCEPT !.data = @ \cup {Cardinality(saved)}]
    /\ UNCHANGED <<candidate, recovery, record, marker, opener, overlooked, unrecovered, faults>>
CloseRoot(p) ==
    /\ Doing(p, "owner") /\ opener' = [opener EXCEPT ![p] = Off]
    /\ Keep /\ UNCHANGED <<folder, marker>>

----------------------------------------------------------------------------
(* stage() and publish_with() *)

(* The copy holds every write of its source, so none of those is overlooked. *)
Stage(p) ==
    /\ Doing(p, "staging") /\ main.kind = "plain"
    /\ candidate' = File("keyed", main.data, main.version)
    /\ opener' = [opener EXCEPT ![p].at = "staged", ![p].source = main]
    /\ overlooked' = overlooked \ main.data
    /\ UNCHANGED <<main, recovery, record, marker, saved, unrecovered, faults>>

Unchanged_Assumed(p) == TRUE                                                    \* mutant
Unchanged(p) == main = opener[p].source
Publishable(p) == record = NoRecord /\ recovery = Absent /\ main.kind = "plain" /\ Unchanged(p)
(* The guards of publish_with(): the only comparison with the source.      *)
CheckSource(p) ==
    /\ Doing(p, "staged") /\ Publishable(p) /\ Turns(p, "journal")
    /\ Keep /\ UNCHANGED <<folder, marker>>
(* checkpoint() and journal(), which records the plaintext as it is now.   *)
WriteJournal(p) ==
    /\ Doing(p, "journal")
    /\ record' = [version |-> candidate.version, source |-> main]
    /\ Turns(p, "retire")
    /\ Keep /\ UNCHANGED <<main, candidate, recovery, marker>>
(* The record is in place but not on disk for certain: the copy is given up. *)
JournalFails(p) ==
    /\ Doing(p, "journal") /\ faults < MaxFaults /\ faults' = faults + 1
    /\ record' = [version |-> candidate.version, source |-> main] /\ candidate' = Absent
    /\ opener' = [opener EXCEPT ![p] = Off]
    /\ UNCHANGED <<main, recovery, marker, saved, overlooked, unrecovered>>
Retire(p) ==
    /\ Doing(p, "retire") /\ recovery = Absent
    /\ main' = Absent /\ recovery' = main
    /\ Turns(p, "publish")
    /\ Keep /\ UNCHANGED <<candidate, record, marker>>
Publish(p) ==
    /\ Doing(p, "publish") /\ main = Absent
    /\ main' = candidate /\ candidate' = Absent
    /\ Turns(p, "verify")
    /\ Keep /\ UNCHANGED <<recovery, record, marker>>
Verified(file) == file.kind = "keyed" /\ file.opens /\ file.version = record.version
Verify(p) ==
    /\ Doing(p, "verify") /\ Verified(main) /\ Turns(p, "dispose")
    /\ Keep /\ UNCHANGED <<folder, marker>>
Dispose(p) ==
    /\ Doing(p, "dispose") /\ recovery' = Absent /\ Turns(p, "finish")
    /\ Keep /\ UNCHANGED <<main, candidate, record, marker>>
CloseRecord(p) ==
    /\ Doing(p, "finish") /\ record' = NoRecord /\ Turns(p, "databases")
    /\ Keep /\ UNCHANGED <<main, candidate, recovery, marker>>

----------------------------------------------------------------------------
(* recover() and resume(): the step that follows from the files. *)

FolderIs(kind, copy, kept) ==
    main.kind = kind /\ (candidate # Absent) = copy /\ (recovery # Absent) = kept
Continues == main = record.source /\ Verified(candidate)
Published ==
    IF recovery # Absent THEN IF Verified(main) THEN "dispose" ELSE "withdraw"
    ELSE IF Verified(main) THEN "finish" ELSE "off"
CopyLost == IF main.kind = "plain" THEN "finish" ELSE "restore"
Resumed ==
    CASE FolderIs("plain", TRUE, FALSE) -> IF Continues THEN "retire" ELSE "discard"
      [] FolderIs("absent", TRUE, TRUE) -> IF Verified(candidate) THEN "publish" ELSE "discard"
      [] FolderIs("keyed", FALSE, TRUE) \/ FolderIs("keyed", FALSE, FALSE) -> Published
      [] FolderIs("plain", FALSE, FALSE) \/ FolderIs("absent", FALSE, TRUE) -> CopyLost
      [] OTHER -> "off"
(* Copies that no record names are removed. *)
CleanOrphans == candidate' = Absent
RecoverFolder(p) ==
    /\ Doing(p, "recover")
    /\ IF record # NoRecord
       THEN UNCHANGED candidate /\ opener' = [opener EXCEPT ![p] = IF Resumed = "off" THEN Off
                                                                 ELSE [@ EXCEPT !.at = Resumed]]
       ELSE CleanOrphans /\ Turns(p, "databases")
    /\ Keep /\ UNCHANGED <<main, recovery, record, marker>>
Discard(p) ==
    /\ Doing(p, "discard") /\ candidate' = Absent
    /\ Turns(p, IF main = Absent THEN "restore" ELSE "finish")
    /\ Keep /\ UNCHANGED <<main, recovery, record, marker>>
Withdraw(p) ==
    /\ Doing(p, "withdraw") /\ candidate = Absent
    /\ candidate' = main /\ main' = Absent /\ Turns(p, "restore")
    /\ Keep /\ UNCHANGED <<recovery, record, marker>>
Restore(p) ==
    /\ Doing(p, "restore") /\ main = Absent
    /\ main' = recovery /\ recovery' = Absent
    /\ Turns(p, IF candidate # Absent THEN "discard" ELSE "finish")
    /\ Keep /\ UNCHANGED <<candidate, record, marker>>

----------------------------------------------------------------------------
(* What goes wrong. *)

Fault == faults < MaxFaults /\ faults' = faults + 1
(* A step returns an error: the lock is released, and a candidate that no  *)
(* record names deletes itself.                                            *)
Refuses(p) ==
    \/ Doing(p, "databases") /\ (main.kind = "keyed" => ~main.opens)
       /\ (main.kind = "plain" => opener[p].guard # "exclusive") /\ main.kind # "absent"
    \/ Doing(p, "staged") /\ ~Publishable(p)
    \/ Doing(p, "verify") /\ ~Verified(main)
    \/ Doing(p, "sharing") /\ opener[p].guard = "shared" /\ ~(marker = opener[p].key /\ Unlocked(p))
Fails(p) ==
    /\ ~Doing(p, "off") /\ ~Doing(p, "owner")
    /\ IF Refuses(p) \/ opener[p].at \in {"joining", "sharing again"} THEN UNCHANGED faults ELSE Fault
    /\ opener' = [opener EXCEPT ![p] = Off]
    /\ candidate' = IF opener[p].at \in {"staged", "journal"} THEN Absent ELSE candidate
    /\ UNCHANGED <<main, recovery, record, marker, saved, overlooked, unrecovered>>
(* The process stops. *)
Stops(p) ==
    /\ ~Doing(p, "off") /\ Fault /\ opener' = [opener EXCEPT ![p] = Off]
    /\ UNCHANGED <<folder, marker, saved, overlooked, unrecovered>>

(* While nobody is replacing the plaintext, the copy is lost or damaged. *)
Unattended == Holding("exclusive") = {}
Damage ==
    /\ Unattended /\ record # NoRecord /\ Fault
    /\ \/ candidate # Absent /\ candidate' \in {Absent, [candidate EXCEPT !.opens = FALSE]} /\ UNCHANGED main
       \/ main.kind = "keyed" /\ recovery # Absent /\ main' = [main EXCEPT !.opens = FALSE]
          /\ UNCHANGED candidate
    /\ UNCHANGED <<recovery, record, marker, opener, saved, overlooked, unrecovered>>

(* A program older than the lock opens the plaintext, writes and closes it. *)
(* No comparison sees the write when a process has already compared the     *)
(* file (publish_with, resume) and has not retired it yet.                  *)
Compared == \E p \in Processes : opener[p].at \in {"journal", "retire"}
OlderProgram ==
    /\ main.kind = "plain" /\ Cardinality(saved) < MaxSaves
    /\ saved' = saved \cup {Cardinality(saved)}
    /\ main' = [main EXCEPT !.data = @ \cup {Cardinality(saved)}]
    /\ overlooked' = IF Compared THEN overlooked \cup {Cardinality(saved)} ELSE overlooked
    /\ UNCHANGED <<candidate, recovery, record, marker, opener, unrecovered, faults>>

Opening(p) ==
    \/ \E migrate \in BOOLEAN : OpenRoot(p, migrate)
    \/ Join(p) \/ ReleaseRoot(p) \/ Share(p) \/ ReadMarker(p) \/ Databases(p)
    \/ BecomeOwner(p) \/ SaveMail(p) \/ CloseRoot(p)
Replacing(p) ==
    \/ Stage(p) \/ CheckSource(p) \/ WriteJournal(p) \/ JournalFails(p) \/ Retire(p) \/ Publish(p) \/ Verify(p)
    \/ Dispose(p) \/ CloseRecord(p)
    \/ RecoverFolder(p) \/ Discard(p) \/ Withdraw(p) \/ Restore(p)
CacheNext ==
    \/ \E p \in Processes : Opening(p) \/ Replacing(p) \/ Fails(p) \/ Stops(p)
    \/ Damage \/ OlderProgram
CacheSpec == CacheInit /\ [][CacheNext]_cacheVars

----------------------------------------------------------------------------
Openers == [at : OpenerStages, migrate : BOOLEAN, guard : {"none", "shared", "exclusive"},
            key : BOOLEAN, source : Files]
CacheTypeOK ==
    /\ {main, candidate, recovery} \subseteq Files
    /\ record \in [version : 0 .. CurrentVersion, source : Files]
    /\ marker \in BOOLEAN /\ unrecovered \in BOOLEAN /\ faults \in 0 .. MaxFaults
    /\ saved \subseteq 0 .. MaxSaves /\ overlooked \subseteq saved
    /\ opener \in [Processes -> Openers]

(* At every point where the program may stop, one file of the folder opens *)
(* and holds every write ever made, except those that an older program     *)
(* made between a comparison and the retirement after it: the plaintext is *)
(* not removed before the copy was read in its place, nor replaced by a    *)
(* copy that lacks a write made before the comparison or since an          *)
(* interruption, and what is rolled back was not written to.  Who has      *)
(* opened the cache works on that file, and with a key there is no         *)
(* plaintext left beside it.  An interrupted replacement leaves a folder   *)
(* that recovery knows, also when recovery itself was interrupted: it      *)
(* never gives up.                                                         *)
HoldsAll(file) == saved \ overlooked \subseteq file.data
Whole(file) == file.kind # "absent" /\ file.opens /\ HoldsAll(file)
CacheIsWhole ==
    ~unrecovered =>
        /\ saved # {} => Whole(main) \/ Whole(recovery) \/ Whole(candidate)
        /\ \A p \in Processes : Doing(p, "owner") =>
               /\ Whole(main) \/ saved = {}
               /\ opener[p].key => main.kind = "keyed" /\ recovery = Absent
        /\ record # NoRecord => Resumed # "off"

(* No write is lost: what an older program wrote is still in some file that *)
(* opens.  The code violates it: publish_with compares the plaintext with   *)
(* the one that was copied, and journal() then records whatever it finds,   *)
(* so a write in between is retired and disposed of with the plaintext.     *)
NoWriteIsLost ==
    ~unrecovered =>
        \A w \in saved : \E file \in {main, candidate, recovery} : file.opens /\ w \in file.data

(* No cache is opened before recovery has run.  The code violates it: a    *)
(* process that joins another one's opening gets the lock when that one    *)
(* stops halfway, skips recovery and, where the plaintext had been retired,*)
(* makes an empty cache in its place.                                      *)
RecoveredBeforeOpening == ~unrecovered

----------------------------------------------------------------------------
(* The inductive invariant behind the theorems of DeviceProofs. *)

(* One process replaces the plaintext, and only while nobody else has the lock. *)
LocksExclude ==
    /\ \A p, q \in Processes :
           p # q /\ opener[p].guard = "exclusive" => opener[q].guard = "none"
    /\ \A p \in Processes :
           /\ opener[p].guard = "none" <=> opener[p].at \in {"off", "joining", "sharing again"}
           /\ opener[p].at \in {"recover", "staging", "staged"} \cup Publishing =>
                 opener[p].guard = "exclusive"
           /\ opener[p].at = "owner" => opener[p].guard = "shared"

(* Without a record the cache is the main file.  With one the folder is as some *)
(* step of a replacement left it, before or after the retirement, the          *)
(* publication and the disposal.                                              *)
FolderKnown ==
    IF record = NoRecord
    THEN recovery = Absent /\ (Whole(main) \/ (main = Absent /\ saved = {}))
    ELSE /\ record.source.kind = "plain"
         /\ candidate # Absent =>
               candidate.kind = "keyed" /\ record.source.data \ overlooked \subseteq candidate.data
         /\ \/ main.kind = "plain" /\ Whole(main) /\ recovery = Absent
            \/ /\ main = Absent /\ recovery.kind = "plain" /\ Whole(recovery)
               /\ candidate # Absent => HoldsAll(candidate)
            \/ /\ main.kind = "keyed" /\ candidate = Absent /\ HoldsAll(main)
               /\ \/ recovery.kind = "plain" /\ Whole(recovery)
                  \/ recovery = Absent /\ Verified(main)

(* No file holds anything but writes that were made. *)
OnlySaved == \A file \in {main, candidate, recovery, record.source} : file.data \subseteq saved

(* What each stage of a process relies on. *)
StageKnown(p) ==
    /\ opener[p].at \in {"staging", "staged", "journal", "owner"} => record = NoRecord
    /\ opener[p].at = "databases" /\ opener[p].guard = "exclusive" => record = NoRecord
    /\ opener[p].at \in Publishing \ {"journal"} => record # NoRecord
    /\ opener[p].at = "owner" => main.kind = IF opener[p].key THEN "keyed" ELSE "plain"
    /\ opener[p].at \in {"staged", "journal"} =>
          /\ opener[p].source.kind = "plain"
          /\ candidate = File("keyed", opener[p].source.data, opener[p].source.version)
    /\ opener[p].at \in {"journal", "retire"} => main.kind = "plain" /\ HoldsAll(candidate)
    /\ opener[p].at = "retire" => Verified(candidate)
    /\ opener[p].at = "publish" => main = Absent /\ Verified(candidate)
    /\ opener[p].at \in {"verify", "dispose"} => Verified(main)
    /\ opener[p].at \in {"verify", "dispose", "withdraw"} => main.kind = "keyed" /\ recovery # Absent
    /\ opener[p].at = "restore" => main = Absent
    /\ opener[p].at = "discard" => main.kind # "keyed"
    /\ opener[p].at = "finish" => candidate = Absent /\ recovery = Absent

CacheIInv ==
    /\ CacheTypeOK
    /\ LocksExclude /\ OnlySaved
    /\ ~unrecovered => FolderKnown /\ \A p \in Processes : StageKnown(p)
=============================================================================
