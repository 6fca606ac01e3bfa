----------------------------- MODULE Credentials -----------------------------
(***************************************************************************)
(* The secrets of one account: connecting it, connecting it again, removing *)
(* it, restoring it from a backup, and the cleanup of the secrets that are  *)
(* no longer used.                                                         *)
(*                                                                         *)
(* The database knows keys and the keyring of the device holds secrets; no  *)
(* transaction spans the two.  Each attempt to connect writes its password,  *)
(* or its pair of passwords, under a key of its own, tests it, and takes     *)
(* the key into use together with the settings.  An account of an earlier    *)
(* version, an imported or a restored one uses the key Legacy.  A key that   *)
(* is out of use is written down in credential_cleanup and deleted later.    *)
(***************************************************************************)
EXTENDS Naturals

CONSTANTS
    MaxSetups,      \* bound: attempts to connect the account
    Settings,       \* the connections that the account may have
    Wanted,         \* the one that each attempt asks for
    MaxEvents       \* bound: changes of other fields, removals, restores,
                    \* closes that are begun and crashes, together

ASSUME SetupsAssumption ==
    MaxSetups \in Nat /\ Wanted \in [1 .. MaxSetups -> Settings]

VARIABLES
    entry,       \* what the accounts list says
    slot,        \* the attempt whose key is in use, or Legacy
    attempt,     \* account_setup_attempts
    latestSetup, \* account_setup_current
    removal,     \* the tombstone with its job
    scheduled,   \* credential_cleanup: keys to be deleted
    keyring,     \* the keys under which the device holds a secret
    connecting,  \* the command that connects, for each attempt
    lifecycle,   \* who has connection_lifecycle and the account
    cleaner,     \* the loop that deletes secrets
    verified,    \* history: attempts whose secret both servers accepted
    forgotten,   \* history: keys whose cleanup a restore called off
    events       \* how many of MaxEvents there were

listed         == <<entry, slot, attempt, latestSetup>>
cleaning       == <<lifecycle, cleaner>>
history        == <<verified, forgotten>>
credentialVars == <<listed, removal, scheduled, keyring, connecting, cleaning, history, events>>

Setups == 1 .. MaxSetups
Legacy == 0
Keys   == Setups \cup {Legacy}
Live   == {"Admitted", "Staged", "Checked"}
AttemptStages == Live \cup {"None", "Activated", "Failed", "Interrupted", "Cancelled", "Erased"}
RemovalStages == {"None", "Queued", "Cleanup", "Failed", "Succeeded"}

AccountRows == [connected : BOOLEAN, config : Settings, edit : Nat]
CleanerOff == [todo |-> {}, key |-> Legacy, at |-> "pick", failed |-> FALSE]
NotRemoved == [stage |-> "None", local |-> FALSE]

CredentialInit ==
    /\ entry \in [connected : BOOLEAN, config : Settings, edit : {0}]
    /\ slot = Legacy /\ latestSetup = Legacy
    /\ attempt = [a \in Setups |-> [stage |-> "None", previous |-> entry]]
    /\ removal = NotRemoved
    /\ scheduled = {}
    /\ keyring \in {{}, {Legacy}} /\ (keyring # {} => entry.connected)
    /\ connecting = [a \in Setups |-> "off"]
    /\ lifecycle = "free" /\ cleaner = CleanerOff
    /\ verified = {} /\ forgotten = {}
    /\ events = 0

CredentialEvent == events < MaxEvents /\ events' = events + 1
Reached(a, step) == connecting[a] = step
Go(a, step) == connecting' = [connecting EXCEPT ![a] = step]

(* credential_in_use *)
KeyInUse(k) ==
    IF k = Legacy THEN entry.connected /\ slot = Legacy
    ELSE slot = k \/ (latestSetup = k /\ attempt[k].stage \in Live)

----------------------------------------------------------------------------
(* Admission and the ways in which an attempt ends without being used. *)

(* current: the latest attempt of an account that is as it was. *)
Fresh(a) ==
    removal.stage = "None" /\ latestSetup = a /\ entry = attempt[a].previous

(* A new attempt takes the place of one that has not been activated.  It is   *)
(* admitted under no lock.                                                   *)
AdmitSetup(a) ==
    LET replaced == {b \in Setups : b = latestSetup /\ attempt[b].stage # "Activated"} IN
    /\ attempt[a].stage = "None" /\ \A b \in Setups : b < a => attempt[b].stage # "None"
    /\ removal.stage = "None"
    /\ attempt' = [b \in Setups |->
          IF b = a THEN [stage |-> "Admitted", previous |-> entry]
          ELSE IF b \in replaced THEN [attempt[b] EXCEPT !.stage = "Cancelled"]
          ELSE attempt[b]]
    /\ scheduled' = scheduled \cup replaced
    /\ latestSetup' = a
    /\ Go(a, "asked")
    /\ UNCHANGED <<entry, slot, removal, keyring, cleaning, history, events>>

SetupsEnded(ended, stage) ==
    /\ attempt' = [a \in Setups |->
          IF a \in ended THEN [attempt[a] EXCEPT !.stage = stage] ELSE attempt[a]]
    /\ scheduled' = scheduled \cup ended

(* fail_account_setup *)
FailSetup(a) ==
    SetupsEnded({a} \ {b \in Setups : attempt[b].stage \in
                    {"Activated", "Cancelled", "Interrupted", "Erased"}}, "Failed")
(* interrupt_account_setup(s) *)
InterruptSetups(stopped) ==
    SetupsEnded({a \in stopped : attempt[a].stage \in Live}, "Interrupted")
GiveUpSetup(a) ==
    /\ FailSetup(a) \/ InterruptSetups({a})
    /\ Go(a, "off")

----------------------------------------------------------------------------
(* Connecting. *)

(* Writing and activation hold the lifecycle and the account; the test of the  *)
(* connection holds neither.                                                 *)
BeginStaging(a) ==
    /\ Reached(a, "asked") /\ lifecycle = "free"
    /\ \/ /\ Fresh(a) /\ attempt[a].stage = "Admitted"
          /\ lifecycle' = "setup" /\ Go(a, "write")
          /\ UNCHANGED <<attempt, scheduled>>
       \/ GiveUpSetup(a) /\ UNCHANGED lifecycle
    /\ UNCHANGED <<entry, slot, latestSetup, removal, keyring, cleaner, history, events>>

WriteSecrets(a) ==
    /\ Reached(a, "write")
    /\ \/ /\ keyring' = keyring \cup {a}
          /\ Go(a, "written")
          /\ UNCHANGED <<attempt, scheduled, lifecycle>>
       \/ /\ keyring' \in {keyring, keyring \cup {a}}    \* one of the pair, or none
          /\ FailSetup(a) /\ Go(a, "off")
          /\ lifecycle' = "free"
    /\ UNCHANGED <<entry, slot, latestSetup, removal, cleaner, history, events>>

(* mutant: an attempt that was ended meanwhile goes on *)
Advances_Revives(a, expected, next) ==
    /\ Fresh(a) /\ attempt[a].stage \notin {"None", "Activated"}
    /\ attempt' = [attempt EXCEPT ![a].stage = next]
    /\ UNCHANGED scheduled

(* advance_account_setup *)
Advances(a, expected, next) ==
    /\ Fresh(a) /\ attempt[a].stage = expected
    /\ attempt' = [attempt EXCEPT ![a].stage = next]
    /\ UNCHANGED scheduled

RecordStaged(a) ==
    /\ Reached(a, "written")
    /\ \/ Advances(a, "Admitted", "Staged") /\ Go(a, "check")
       \/ FailSetup(a) /\ Go(a, "off")
    /\ lifecycle' = "free"
    /\ UNCHANGED <<entry, slot, latestSetup, removal, keyring, cleaner, history, events>>

BeginCheck(a) ==
    /\ Reached(a, "check")
    /\ \/ /\ Fresh(a) /\ attempt[a].stage = "Staged" /\ a \in keyring
          /\ Go(a, "testing")
          /\ UNCHANGED <<attempt, scheduled>>
       \/ GiveUpSetup(a)
    /\ UNCHANGED <<entry, slot, latestSetup, removal, keyring, cleaning, history, events>>

EndCheck(a) ==
    /\ Reached(a, "testing")
    /\ \/ /\ verified' = verified \cup {a}
          /\ Advances(a, "Staged", "Checked") /\ Go(a, "ready")
       \/ GiveUpSetup(a) /\ UNCHANGED verified
    /\ UNCHANGED <<entry, slot, latestSetup, removal, keyring, cleaning, forgotten, events>>

(* The settings, the key in use and the cleanup of the former key, together. *)
Replaced(a) ==
    IF slot # Legacy THEN {slot}
    ELSE IF attempt[a].previous.connected THEN {Legacy} ELSE {}
Activate(a) ==
    /\ Reached(a, "ready") /\ lifecycle = "free"
    /\ \/ /\ Fresh(a) /\ attempt[a].stage = "Checked"
          /\ entry' = [entry EXCEPT !.connected = TRUE, !.config = Wanted[a]]
          /\ slot' = a
          /\ attempt' = [attempt EXCEPT ![a].stage = "Activated"]
          /\ scheduled' = scheduled \cup Replaced(a)
          /\ Go(a, "off")
       \/ GiveUpSetup(a) /\ UNCHANGED <<entry, slot>>
    /\ UNCHANGED <<latestSetup, removal, keyring, cleaning, history, events>>

(* A close that was begun interrupts what is not being written. *)
CloseSetups ==
    /\ lifecycle # "setup"
    /\ \E a \in Setups : attempt[a].stage \in Live
    /\ CredentialEvent
    /\ InterruptSetups(Setups)
    /\ UNCHANGED <<entry, slot, latestSetup, removal, keyring, connecting, cleaning, history>>

(* A folder change or a shared profile sets another field of the account. *)
EditFields ==
    /\ entry.connected /\ CredentialEvent
    /\ entry' = [entry EXCEPT !.edit = @ + 1]
    /\ UNCHANGED <<slot, attempt, latestSetup, removal, scheduled, keyring, connecting,
                   cleaning, history>>

----------------------------------------------------------------------------
(* Removal. *)

RemoveAccount ==
    /\ entry.connected /\ removal.stage = "None"
    /\ CredentialEvent
    /\ entry' = [entry EXCEPT !.connected = FALSE]
    /\ removal' = [stage |-> "Queued", local |-> FALSE]
    /\ UNCHANGED <<slot, attempt, latestSetup, scheduled, keyring, connecting, cleaning,
                   history>>

StartRemoval ==
    /\ lifecycle = "free" /\ removal.stage \in {"Queued", "Cleanup"}
    /\ lifecycle' = "removal"
    /\ cleaner' = [CleanerOff EXCEPT !.todo = IF removal.local THEN scheduled ELSE {}]
    /\ UNCHANGED <<listed, removal, scheduled, keyring, connecting, history, events>>

(* account_setup::remove *)
RecordedSetups == {a \in Setups : attempt[a].stage \notin {"None", "Erased"}}
FinishLocally(remains) ==
    /\ lifecycle = "removal" /\ ~removal.local
    /\ scheduled' = scheduled \cup RecordedSetups \cup ({slot} \ {Legacy})
                              \cup (IF remains THEN {} ELSE {Legacy})
    /\ attempt' = [a \in Setups |->
          IF a \in RecordedSetups THEN [attempt[a] EXCEPT !.stage = "Erased"] ELSE attempt[a]]
    /\ latestSetup' = Legacy /\ slot' = Legacy
    /\ IF remains THEN lifecycle' = "free" /\ UNCHANGED <<removal, cleaner>>
       ELSE /\ removal' = [stage |-> "Cleanup", local |-> TRUE]
            /\ cleaner' = [CleanerOff EXCEPT !.todo = scheduled']
            /\ UNCHANGED lifecycle
    /\ UNCHANGED <<entry, keyring, connecting, history, events>>

RetryRemoval ==
    /\ removal.stage = "Failed"
    /\ removal' = [removal EXCEPT !.stage = IF removal.local THEN "Cleanup" ELSE "Queued"]
    /\ UNCHANGED <<listed, scheduled, keyring, connecting, cleaning, history, events>>

----------------------------------------------------------------------------
(* Deletion of secrets, by a removal or on its own. *)

StartCleanup ==
    /\ lifecycle = "free" /\ scheduled # {}
    /\ lifecycle' = "cleanup"
    /\ cleaner' = [CleanerOff EXCEPT !.todo = scheduled]
    /\ UNCHANGED <<listed, removal, scheduled, keyring, connecting, history, events>>

Cleaning ==
    lifecycle = "cleanup" \/ (lifecycle = "removal" /\ removal.local)
PickKey(k) ==
    /\ Cleaning /\ cleaner.at = "pick"
    /\ k \in cleaner.todo /\ \A j \in cleaner.todo : k <= j    \* ORDER BY key
    /\ cleaner' = [cleaner EXCEPT !.key = k, !.todo = @ \ {k},
                                  !.at = IF KeyInUse(k) THEN "finish" ELSE "delete"]
    /\ UNCHANGED <<listed, removal, scheduled, keyring, connecting, lifecycle, history,
                   events>>
DeleteSecret ==
    /\ Cleaning /\ cleaner.at = "delete"
    /\ \/ /\ keyring' = keyring \ {cleaner.key}
          /\ cleaner' = [cleaner EXCEPT !.at = "finish"]
       \/ /\ cleaner' = [cleaner EXCEPT !.key = Legacy, !.at = "pick", !.failed = TRUE]
          /\ UNCHANGED keyring
    /\ UNCHANGED <<listed, removal, scheduled, connecting, lifecycle, history, events>>
(* finish_credential_cleanup *)
FinishKey ==
    /\ Cleaning /\ cleaner.at = "finish"
    /\ scheduled' = scheduled \ {cleaner.key}
    /\ cleaner' = [cleaner EXCEPT !.key = Legacy, !.at = "pick"]
    /\ UNCHANGED <<listed, removal, keyring, connecting, lifecycle, history, events>>

(* What each of the two makes of the removal.  *)
RemovalAfter ==
    IF lifecycle = "removal"
    THEN [removal EXCEPT !.stage = IF cleaner.failed THEN "Failed" ELSE "Succeeded"]
    ELSE IF removal.local /\ scheduled = {} THEN [removal EXCEPT !.stage = "Succeeded"]
    ELSE removal
EndCleanup ==
    /\ Cleaning /\ cleaner.at = "pick" /\ cleaner.todo = {}
    /\ removal' = RemovalAfter
    /\ lifecycle' = "free" /\ cleaner' = CleanerOff
    /\ UNCHANGED <<listed, scheduled, keyring, connecting, history, events>>
(* A failure of the storage ends either of them. *)
AbandonCleanup ==
    /\ lifecycle \in {"cleanup", "removal"}
    /\ removal' = IF lifecycle = "removal" THEN [removal EXCEPT !.stage = "Failed"]
                  ELSE removal
    /\ lifecycle' = "free" /\ cleaner' = CleanerOff
    /\ UNCHANGED <<listed, scheduled, keyring, connecting, history, events>>

----------------------------------------------------------------------------
(* Restoring a backup that has the account, and the end of the process. *)

(* restore_removed runs for each account of the backup, removed or not, and   *)
(* calls off the cleanup of its keys.  Where the settings differ, those here   *)
(* are kept and no password is restored.                                     *)
RestoreAccount ==
    /\ lifecycle = "free"
    /\ removal.stage = "None" \/ removal.local
    /\ CredentialEvent
    /\ removal' = NotRemoved /\ scheduled' = {}
    /\ \E config \in Settings :
          /\ entry' = IF entry.connected THEN entry
                        ELSE [connected |-> TRUE, config |-> config, edit |-> entry.edit]
          /\ lifecycle' = IF config = entry'.config THEN "restore" ELSE "free"
    /\ UNCHANGED <<slot, attempt, latestSetup, keyring, connecting, cleaner, verified>>
    /\ forgotten' = forgotten \cup {k \in scheduled : ~KeyInUse(k)'}

(* restore_missing: a secret under the name of the account, if it is used and  *)
(* there is none.                                                            *)
RestoreSecret ==
    /\ lifecycle = "restore"
    /\ keyring' \in {keyring, keyring \cup ({Legacy} \cap {slot})}
    /\ lifecycle' = "free"
    /\ UNCHANGED <<listed, removal, scheduled, connecting, cleaner, history, events>>

(* The next start interrupts the attempts that were open.  *)
CrashSetups ==
    /\ lifecycle # "free" \/ \E a \in Setups : attempt[a].stage \in Live
    /\ CredentialEvent
    /\ InterruptSetups(Setups)
    /\ connecting' = [a \in Setups |-> "off"]
    /\ lifecycle' = "free" /\ cleaner' = CleanerOff
    /\ UNCHANGED <<entry, slot, latestSetup, removal, keyring, history>>

----------------------------------------------------------------------------
CredentialNext ==
    \/ \E a \in Setups :
          \/ AdmitSetup(a) \/ BeginStaging(a) \/ WriteSecrets(a) \/ RecordStaged(a)
          \/ BeginCheck(a) \/ EndCheck(a) \/ Activate(a)
    \/ CloseSetups \/ EditFields
    \/ RemoveAccount \/ StartRemoval \/ RetryRemoval
    \/ \E remains \in BOOLEAN : FinishLocally(remains)
    \/ StartCleanup \/ \E k \in Keys : PickKey(k)
    \/ DeleteSecret \/ FinishKey \/ EndCleanup \/ AbandonCleanup
    \/ RestoreAccount \/ RestoreSecret \/ CrashSetups

CredentialSpec == CredentialInit /\ [][CredentialNext]_credentialVars

----------------------------------------------------------------------------
(* Properties. *)

CredentialTypeOK ==
    /\ entry \in AccountRows
    /\ slot \in Keys /\ latestSetup \in Keys
    /\ attempt \in [Setups -> [stage : AttemptStages, previous : AccountRows]]
    /\ removal \in [stage : RemovalStages, local : BOOLEAN]
    /\ scheduled \subseteq Keys /\ keyring \subseteq Keys
    /\ connecting \in [Setups -> {"off", "asked", "write", "written", "check",
                                  "testing", "ready"}]
    /\ lifecycle \in {"free", "setup", "cleanup", "removal", "restore"}
    /\ cleaner \in [todo : SUBSET Keys, key : Keys, at : {"pick", "delete", "finish"},
                    failed : BOOLEAN]
    /\ verified \subseteq Setups /\ forgotten \subseteq Keys
    /\ events \in Nat

(* What an account uses is there and was accepted by its servers, with the     *)
(* settings that the account has.                                            *)
UsedIsVerified ==
    entry.connected /\ slot # Legacy =>
        slot \in keyring \cap verified /\ Wanted[slot] = entry.config

(* A secret that nothing uses is known to the cleanup, unless a restore has     *)
(* called that off; the secret of an account that is being removed is, when     *)
(* its data are gone.                                                        *)
UnusedIsScheduled ==
    \A k \in keyring :
        \/ KeyInUse(k) \/ k \in scheduled \cup forgotten
        \/ k = Legacy /\ removal.stage # "None" /\ ~removal.local

(* A finished removal leaves no secret behind. *)
RemovedMeansGone ==
    removal.stage = "Succeeded" => keyring \subseteq forgotten

(* The keyring agrees with the database through every order of attempts,         *)
(* removals, cleanups and restores, each of which holds its lock for a part of   *)
(* its way only; and no step deletes a secret that is in use.                   *)
SecretsMatchTheirUse ==
    /\ [](UsedIsVerified /\ UnusedIsScheduled /\ RemovedMeansGone)
    /\ [][\A k \in keyring : KeyInUse(k) => k \in keyring']_credentialVars

----------------------------------------------------------------------------
(* The inductive invariant behind SecretsMatchTheirUse (DeviceProofs). *)

SetupEnds == {"Activated", "Failed", "Interrupted", "Cancelled", "Erased"}
(* A key that is to be deleted is out of use for good. *)
ScheduledIsUnused ==
    /\ \A a \in Setups : a \in scheduled => attempt[a].stage \in SetupEnds /\ slot # a
    /\ Legacy \in scheduled => slot # Legacy \/ ~entry.connected

(* What the stage of an attempt says of its secret, and of its command. *)
StagesAreTrue ==
    /\ \A a \in Setups :
          /\ connecting[a] # "off" \/ latestSetup = a => attempt[a].stage # "None"
          /\ attempt[a].stage \in {"Staged", "Checked"} => a \in keyring
          /\ attempt[a].stage = "Checked" => a \in verified
    /\ slot # Legacy =>
          /\ attempt[slot].stage = "Activated"
          /\ slot \in keyring \cap verified /\ Wanted[slot] = entry.config

(* One attempt at a time writes its secret; it is the latest, or scheduled. *)
Writing(a) == connecting[a] \in {"write", "written"}
WritersHoldTheLock ==
    \A a \in Setups : Writing(a) =>
        /\ lifecycle = "setup" /\ \A b \in Setups : Writing(b) => b = a
        /\ (latestSetup = a /\ attempt[a].stage = "Admitted") \/ a \in scheduled
        /\ Reached(a, "written") => a \in keyring

(* A removed account is not listed, and nothing of it is left in the tables     *)
(* when its local data are gone.                                             *)
RemovedIsEmpty ==
    /\ removal.stage # "None" => ~entry.connected
    /\ removal.stage = "None" => ~removal.local /\ (~entry.connected => slot = Legacy)
    /\ removal.local =>
          /\ slot = Legacy /\ latestSetup = Legacy
          /\ \A a \in Setups : attempt[a].stage \in {"None", "Erased"}
    /\ removal.stage = "Succeeded" => removal.local /\ scheduled = {}
    /\ lifecycle = "removal" => removal.stage \in {"Queued", "Cleanup"}
    /\ lifecycle = "restore" =>
          entry.connected \/ (removal.stage # "None" /\ ~removal.local)

(* The loop that deletes works through what is scheduled. *)
CleanerIsTrue ==
    /\ ~Cleaning => cleaner = CleanerOff
    /\ cleaner.todo \subseteq scheduled \ (IF cleaner.at = "pick" THEN {} ELSE {cleaner.key})
    /\ cleaner.at # "pick" => cleaner.key \in scheduled
    /\ cleaner.at = "finish" => cleaner.key \notin keyring
    /\ lifecycle = "removal" /\ removal.local /\ ~cleaner.failed =>
          scheduled \subseteq cleaner.todo
                              \cup (IF cleaner.at = "pick" THEN {} ELSE {cleaner.key})

CredentialIInv ==
    /\ CredentialTypeOK /\ ScheduledIsUnused /\ StagesAreTrue /\ WritersHoldTheLock
    /\ RemovedIsEmpty /\ CleanerIsTrue /\ UnusedIsScheduled
=============================================================================
