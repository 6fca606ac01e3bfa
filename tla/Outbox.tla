------------------------------- MODULE Outbox -------------------------------
(***************************************************************************)
(* The delivery journal of one mail account: drafts, the durable outgoing  *)
(* rows, the action owner that submits them, the Outbox recovery commands, *)
(* the Sent copies, and the faults between any two of their steps.         *)
(*                                                                         *)
(* Disk state survives a crash; memory state does not.  One database       *)
(* transaction is one step.  Provider calls (SMTP, IMAP) are steps of      *)
(* their own, between the transactions that precede and follow them.       *)
(***************************************************************************)
EXTENDS Naturals, FiniteSets

CONSTANTS
    Drafts,        \* draft identities
    MaxRevision,   \* bound: highest revision an editor reaches
    MaxAttempts,   \* bound: how many attempt identities are ever drawn
    MaxCopies,     \* bound: confirmed Sent-copy retries of one attempt
    MaxCrashes,    \* bound: how often the process dies
    MaxFailures,   \* bound: how many storage writes fail
    Configs,       \* values the account's settings may take
    FirstConfig,   \* the settings at the start
    Incoming,      \* the part of the settings copy_account compares
    Policy         \* where the settings ask Sent copies to be kept

Policies == {"Automatic", "ServerManaged", "LocalOnly", "Pop3"}

ASSUME BoundsAssumption ==
    /\ MaxRevision \in Nat \ {0}
    /\ MaxAttempts \in Nat
    /\ MaxCopies \in Nat
    /\ MaxCrashes \in Nat
    /\ MaxFailures \in Nat

ASSUME DraftsAssumption == Drafts # {}

ASSUME ConfigAssumption ==
    /\ FirstConfig \in Configs
    /\ Policy \in [Configs -> Policies]
    /\ DOMAIN Incoming = Configs

VARIABLES
    drafts,     \* disk: the saved revision of each draft, 0 when there is none
    draftSent,  \* disk: draft_sent, the highest revision already sent
    row,        \* disk: the outgoing row of each draft
    localSent,  \* disk: attempts whose local Sent message is in the cache
    cachedSent, \* disk: attempts whose server Sent copy is in the cache
    account,    \* disk: the settings, the tombstone, the pending folder job
    sending,    \* memory: the Send command the persistence lane is executing
    preparing,  \* memory: attempts whose frozen draft is being built
    holder,     \* memory: the task that holds the account
    repairing,  \* memory: drafts the start-up repair has yet to visit
    serverSent, \* server: attempts with a copy in the Sent folder
    lastAttempt,\* how many attempt identities were drawn
    faults,     \* how many crashes and storage failures happened
    seen        \* observer: what happened to each attempt outside the cache

disk   == <<drafts, draftSent, row, localSent, cachedSent, account>>
memory == <<sending, preparing, holder, repairing>>
vars   == <<disk, memory, serverSent, lastAttempt, faults, seen>>

Attempts  == 1 .. MaxAttempts
Revisions == 1 .. MaxRevision
Discarded == MaxRevision + 1       \* the i64::MAX revision of a discarded draft

DeliveryStates == {"Preparing", "Queued", "Submitting", "Uncertain",
                   "Rejected", "Accepted", "Complete", "Released"}
SentStates     == {"Pending", "Appending", "Uncertain", "Saved", "LocalOnly"}

Waiting  == {"Preparing", "Queued"}
InReview == {"Submitting", "Uncertain"}     \* needs_delivery_review
Settled  == {"Complete", "Released", "Rejected"}

Row == [attempt  : 0 .. MaxAttempts,
        revision : 0 .. MaxRevision,
        stage    : DeliveryStates \cup {"None"},
        sent     : SentStates,
        config   : Configs,
        frozen   : BOOLEAN,     \* the preparation column
        raw      : BOOLEAN]     \* the exact message bytes
NoRow == [attempt |-> 0, revision |-> 0, stage |-> "None", sent |-> "Pending",
          config |-> FirstConfig, frozen |-> FALSE, raw |-> FALSE]

Goals == {"send", "mark", "found", "keep", "retry", "check", "repair"}
Points == {"free", "claimed", "accepted", "refused", "unknown", "lookup",
           "finish", "copy", "find", "begin", "uploading", "uploaded",
           "unacknowledged", "record"}
Holder == [draft     : Drafts,
           attempt   : 0 .. MaxAttempts,
           at        : Points,
           goal      : Goals,
           confirmed : BOOLEAN,
           sent      : SentStates]   \* info.sent as copy_outgoing read it

Seen == [draft     : Drafts,    \* the draft an attempt in use belongs to
         submits   : Nat,       \* SMTP submissions started
         delivered : BOOLEAN,   \* the SMTP server took the message
         reviewed  : BOOLEAN,   \* the user confirmed a delivery review
         uploads   : Nat,       \* IMAP APPEND commands issued
         confirmed : Nat]       \* Sent-copy retries the user confirmed
AnyDraft == CHOOSE d \in Drafts : TRUE
Unseen == [draft |-> AnyDraft, submits |-> 0, delivered |-> FALSE, reviewed |-> FALSE,
           uploads |-> 0, confirmed |-> 0]

----------------------------------------------------------------------------
(* Checks that several transactions share. *)

Allowed    == ~account.removed          \* connections::allow
FolderIdle == ~account.folderJob        \* folder_actions::idle
Sent(d, r) == draftSent[d] >= r         \* drafts::sent
Free       == holder.at = "free"
LaneIdle   == sending.revision = 0

Hold(d, goal, at) ==
    [draft |-> d, attempt |-> row[d].attempt, at |-> at, goal |-> goal,
     confirmed |-> FALSE, sent |-> row[d].sent]
Goto(at)  == holder' = [holder EXCEPT !.at = at]
Nobody == [draft |-> AnyDraft, attempt |-> 0, at |-> "free", goal |-> "send",
           confirmed |-> FALSE, sent |-> "Pending"]
Release == holder' = Nobody

(* The row of the attempt the holder works for, or an error when the row    *)
(* is no longer that attempt's.                                            *)
Current   == row[holder.draft].attempt = holder.attempt
Stage     == row[holder.draft].stage
SetRow(d, r)    == row' = [row EXCEPT ![d] = r]
SetStage(d, s)  == SetRow(d, [row[d] EXCEPT !.stage = s])

Init ==
    /\ drafts     = [d \in Drafts |-> 0]
    /\ draftSent  = [d \in Drafts |-> 0]
    /\ row        = [d \in Drafts |-> NoRow]
    /\ localSent  = {}
    /\ cachedSent = {}
    /\ account    = [config |-> FirstConfig, removed |-> FALSE, folderJob |-> FALSE]
    /\ sending    = [draft |-> AnyDraft,
                     revision |-> 0, config |-> FirstConfig]
    /\ preparing  = {}
    /\ holder     = Nobody
    /\ repairing  = {}
    /\ serverSent = {}
    /\ lastAttempt = 0
    /\ faults     = [crashes |-> 0, failures |-> 0]
    /\ seen       = [a \in Attempts |-> Unseen]

----------------------------------------------------------------------------
(* Drafts. *)

SavedDraft_Renumbers(d, r) == [drafts EXCEPT ![d] = r + 1]       \* mutant

(* drafts::save: stale and already sent revisions are ignored. *)
SavedDraft(d, r) == IF Sent(d, r) \/ drafts[d] > r THEN drafts ELSE [drafts EXCEPT ![d] = r]

SaveDraft(d, r) ==
    /\ Allowed
    /\ row[d].stage # "Preparing"
    /\ drafts' = SavedDraft(d, r)
    /\ UNCHANGED <<draftSent, row, localSent, cachedSent, account, memory,
                   serverSent, lastAttempt, faults, seen>>

DeleteDraft(d) ==
    /\ LaneIdle
    /\ row[d].stage \notin Waiting \cup InReview \cup {"Accepted"}
    /\ draftSent' = [draftSent EXCEPT ![d] = Discarded]
    /\ drafts' = [drafts EXCEPT ![d] = 0]
    /\ row' = IF row[d].stage \in {"Rejected", "Released"}
              THEN [row EXCEPT ![d] = NoRow] ELSE row
    /\ UNCHANGED <<localSent, cachedSent, account, memory, serverSent,
                   lastAttempt, faults, seen>>

----------------------------------------------------------------------------
(* Admission: the Send command saves the editor's draft, reads the account  *)
(* and only then admits one durable attempt.                               *)

Readmissible_Uncertain(d) ==                                      \* mutant
    row[d].stage \in {"None", "Rejected", "Released", "Uncertain"}

(* Only a refused or returned attempt may be followed by another one. *)
Readmissible(d) == row[d].stage \in {"None", "Rejected", "Released"}

QueueDraft(d, r) ==
    /\ LaneIdle
    /\ FolderIdle
    /\ Readmissible(d)
    /\ Allowed /\ ~Sent(d, r)
    /\ drafts' = SavedDraft(d, r)
    /\ sending' = [draft |-> d, revision |-> r, config |-> account.config]
    /\ UNCHANGED <<draftSent, row, localSent, cachedSent, account, preparing,
                   holder, repairing, serverSent, lastAttempt, faults, seen>>

AdmitChecks_FolderCheckedBefore(d, r) ==                          \* mutant
    Allowed /\ ~Sent(d, r) /\ drafts[d] = r /\ Readmissible(d)

AdmitChecks(d, r) ==
    /\ Allowed /\ FolderIdle
    /\ ~Sent(d, r)
    /\ drafts[d] = r
    /\ Readmissible(d)

AdmitOutgoing ==
    LET d == sending.draft
        r == sending.revision IN
    /\ ~LaneIdle
    /\ sending' = [sending EXCEPT !.revision = 0]
    /\ \/ /\ AdmitChecks(d, r)
          /\ lastAttempt < MaxAttempts
          /\ lastAttempt' = lastAttempt + 1
          /\ SetRow(d, [attempt |-> lastAttempt + 1, revision |-> r,
                        stage |-> "Preparing", sent |-> "Pending",
                        config |-> sending.config, frozen |-> TRUE, raw |-> FALSE])
          /\ seen' = [seen EXCEPT ![lastAttempt + 1].draft = d]
       \/ /\ ~AdmitChecks(d, r)
          /\ UNCHANGED <<row, lastAttempt, seen>>
    /\ UNCHANGED <<drafts, draftSent, localSent, cachedSent, account, preparing,
                   holder, repairing, serverSent, faults>>

----------------------------------------------------------------------------
(* Preparation: the message is built outside the account lock. *)

ReadPreparation(d) ==
    /\ Allowed
    /\ row[d].stage = "Preparing"
    /\ row[d].attempt \notin preparing
    /\ preparing' = preparing \cup {row[d].attempt}
    /\ UNCHANGED <<disk, sending, holder, repairing, serverSent, lastAttempt,
                   faults, seen>>

(* pending_preparation: the row may have been cancelled, replaced or erased *)
(* while the message was built.                                            *)
StillPreparing(d, a) == row[d].attempt = a /\ row[d].stage = "Preparing"

FinishPreparation(a) ==
    /\ a \in preparing
    /\ preparing' = preparing \ {a}
    /\ \/ \E d \in Drafts :
             /\ StillPreparing(d, a)
             /\ \/ /\ Allowed       \* complete_outgoing_preparation
                   /\ SetRow(d, [row[d] EXCEPT !.stage = "Queued",
                                               !.raw = TRUE, !.frozen = FALSE])
                \/ SetRow(d, [row[d] EXCEPT !.stage = "Rejected", !.frozen = FALSE])
       \/ /\ \A d \in Drafts : ~StillPreparing(d, a)
          /\ UNCHANGED row
    /\ UNCHANGED <<drafts, draftSent, localSent, cachedSent, account, sending,
                   holder, repairing, serverSent, lastAttempt, faults, seen>>

----------------------------------------------------------------------------
(* Delivery, under the account lock. *)

Claimable_AfterCrash(d) == row[d].stage \in {"Queued", "Submitting"}  \* mutant
Claimable(d) == row[d].stage = "Queued"

ClaimedStage_Waits(d) ==                                          \* mutant
    IF row[d].config # account.config THEN "Queued" ELSE "Submitting"
ClaimedStage(d) ==
    IF row[d].config # account.config THEN "Rejected" ELSE "Submitting"

(* claim_outgoing: the commit that precedes every SMTP call. *)
ClaimOutgoing(d) ==
    /\ Free
    /\ Allowed /\ FolderIdle
    /\ Claimable(d)
    /\ SetStage(d, ClaimedStage(d))
    /\ holder' = IF ClaimedStage(d) = "Submitting" THEN Hold(d, "send", "claimed")
                                                   ELSE holder
    /\ UNCHANGED <<drafts, draftSent, localSent, cachedSent, account, sending,
                   preparing, repairing, serverSent, lastAttempt, faults, seen>>

(* The SMTP server, with the three answers the provider distinguishes. *)
Submit ==
    LET a == holder.attempt IN
    /\ holder.at = "claimed"
    /\ \E answer \in {"accepted", "refused", "unknown"}, took \in BOOLEAN :
          /\ answer = "accepted" => took
          /\ answer = "refused" => ~took
          /\ Goto(answer)
          /\ seen' = [seen EXCEPT ![a].submits = @ + 1,
                                  ![a].delivered = @ \/ took]
    /\ UNCHANGED <<disk, sending, preparing, repairing, serverSent, lastAttempt,
                   faults>>

(* record_delivery *)
MayRecord(state) == Current /\ (Stage \in InReview \/ Stage = state)

Outcome_TimeoutRejects(answer) ==                                 \* mutant
    IF answer = "accepted" THEN "Accepted" ELSE "Rejected"
Outcome(answer) ==
    CASE answer = "accepted" -> "Accepted"
      [] answer = "refused"  -> "Rejected"
      [] OTHER               -> "Uncertain"

RecordDelivery ==
    LET state == Outcome(holder.at) IN
    /\ holder.at \in {"accepted", "refused", "unknown"}
    /\ \/ /\ MayRecord(state)
          /\ SetStage(holder.draft, state)
          /\ IF state = "Accepted" THEN Goto("finish") ELSE Release
       \/ /\ ~MayRecord(state)
          /\ Release /\ UNCHANGED row
    /\ UNCHANGED <<drafts, draftSent, localSent, cachedSent, account, sending,
                   preparing, repairing, serverSent, lastAttempt, faults, seen>>

(* outgoing_local_sent with drafts::finish: one transaction keeps the local *)
(* Sent message and retires the draft revisions it was built from.         *)
FinishChecks == Current /\ Stage = "Accepted" /\ Allowed /\ FolderIdle

AfterFinish ==
    IF holder.goal \in {"keep", "found"} THEN "record" ELSE "copy"

FinishLocal ==
    LET d == holder.draft
        r == row[d].revision IN
    /\ holder.at = "finish"
    /\ \/ /\ FinishChecks
          /\ localSent' = localSent \cup {holder.attempt}
          /\ draftSent' = [draftSent EXCEPT ![d] = IF @ > r THEN @ ELSE r]
          /\ drafts' = [drafts EXCEPT ![d] = IF @ > r THEN @ ELSE 0]
          /\ IF holder.goal \in {"mark", "repair"} THEN Release ELSE Goto(AfterFinish)
       \/ /\ ~FinishChecks
          /\ Release /\ UNCHANGED <<drafts, draftSent, localSent>>
    /\ UNCHANGED <<row, cachedSent, account, sending, preparing, repairing,
                   serverSent, lastAttempt, faults, seen>>

----------------------------------------------------------------------------
(* The server Sent copy, under the account lock. *)

Reconciled_WhenSaved(local, d, cached) ==                         \* mutant
    IF row'[d].stage = "Complete" /\ row'[d].sent = "Saved"
    THEN local \ {row'[d].attempt} ELSE local

(* reconcile_saved: a cached server copy replaces the local Sent message. *)
Reconciled(local, d, cached) ==
    IF /\ row'[d].stage = "Complete"
       /\ row'[d].sent = "Saved"
       /\ row'[d].attempt \in cached
    THEN local \ {row'[d].attempt} ELSE local

(* record_sent_copy with a state that ends the delivery. *)
MayComplete == Current /\ Stage = "Accepted" /\ holder.attempt \in localSent
Complete(state) ==
    LET d == holder.draft IN
    /\ MayComplete
    /\ SetRow(d, [row[d] EXCEPT !.stage = "Complete", !.sent = state, !.raw = FALSE])
    /\ localSent' = Reconciled(localSent, d, cachedSent)
    /\ Release

CopyFails_Retries ==                                              \* mutant
    LET d == holder.draft IN
    /\ row' = IF Current /\ Stage = "Accepted" /\ row[d].sent = "Appending"
              THEN [row EXCEPT ![d].sent = "Pending"] ELSE row
    /\ Release
    /\ UNCHANGED localSent
(* The error path of copy_outgoing: an upload whose answer was not recorded *)
(* becomes uncertain.                                                      *)
CopyFails ==
    LET d == holder.draft IN
    /\ row' = IF Current /\ Stage = "Accepted" /\ row[d].sent = "Appending"
              THEN [row EXCEPT ![d].sent = "Uncertain"] ELSE row
    /\ Release
    /\ UNCHANGED localSent

(* An error outside that path only ends the task. *)
Abandon == Release /\ UNCHANGED <<row, localSent>>

CopyUnchanged == UNCHANGED <<drafts, draftSent, cachedSent, account, sending,
                             preparing, repairing, lastAttempt, faults>>

SameIncoming(d) == Allowed /\ Incoming[account.config] = Incoming[row[d].config]
CheckOnly == holder.goal = "check"

Unanswered(state) == state \in {"Appending", "Uncertain"}

StartCopy ==
    LET d == holder.draft
        s == row[d].sent
        refused == \/ ~(Current /\ Stage = "Accepted" /\ SameIncoming(d))
                   \/ /\ Policy[account.config] \in {"Automatic", "ServerManaged"}
                      /\ Unanswered(s)
                      /\ ~CheckOnly /\ ~holder.confirmed IN
    /\ holder.at = "copy"
    /\ \/ /\ refused
          /\ Abandon
       \/ /\ ~refused
          /\ Policy[account.config] \in {"Pop3", "LocalOnly"}
          /\ Complete("LocalOnly") \/ (~MayComplete /\ Abandon)
       \/ /\ ~refused
          /\ Policy[account.config] \in {"Automatic", "ServerManaged"}
          /\ holder' = [holder EXCEPT !.at = "find", !.sent = s]
          /\ UNCHANGED <<row, localSent>>
    /\ CopyUnchanged /\ UNCHANGED <<serverSent, seen>>

(* Look for the Message-ID first; an earlier upload is reset to Pending     *)
(* only when the copy is missing and another upload is permitted.          *)
FindCopy ==
    LET d == holder.draft IN
    /\ holder.at = "find"
    /\ \/ CopyFails
       \/ /\ holder.attempt \in serverSent
          /\ Complete("Saved")
       \/ /\ holder.attempt \notin serverSent
          /\ CheckOnly \/ Policy[account.config] = "ServerManaged"
          /\ CopyFails
       \/ /\ holder.attempt \notin serverSent
          /\ ~CheckOnly /\ Policy[account.config] # "ServerManaged"
          /\ Current /\ Stage = "Accepted"
          /\ row' = IF Unanswered(holder.sent)
                    THEN [row EXCEPT ![d].sent = "Pending"] ELSE row
          /\ Goto("begin")
          /\ UNCHANGED localSent
    /\ CopyUnchanged /\ UNCHANGED <<serverSent, seen>>

BeginUpload ==
    LET d == holder.draft IN
    /\ holder.at = "begin"
    /\ \/ /\ Current /\ Stage = "Accepted" /\ row[d].sent = "Pending"
          /\ row' = [row EXCEPT ![d].sent = "Appending"]
          /\ Goto("uploading")
          /\ UNCHANGED localSent
       \/ /\ ~(Current /\ Stage = "Accepted" /\ row[d].sent = "Pending")
          /\ CopyFails
    /\ CopyUnchanged /\ UNCHANGED <<serverSent, seen>>

(* The IMAP APPEND.  Without an answer the copy may or may not be there. *)
Upload ==
    LET a == holder.attempt IN
    /\ holder.at = "uploading"
    /\ seen' = [seen EXCEPT ![a].uploads = @ + 1]
    /\ \/ /\ Goto("uploaded")
          /\ serverSent' = serverSent \cup {a}
       \/ /\ Goto("unacknowledged")
          /\ serverSent' \in {serverSent, serverSent \cup {a}}
    /\ CopyUnchanged /\ UNCHANGED <<row, localSent>>

RecordUpload ==
    /\ \/ /\ holder.at = "uploaded"
          /\ Complete("Saved") \/ (~MayComplete /\ CopyFails)
       \/ /\ holder.at = "unacknowledged"
          /\ CopyFails
    /\ CopyUnchanged /\ UNCHANGED <<serverSent, seen>>

(* KeepLocal and a delivery found in Sent end with one record. *)
RecordCopy ==
    /\ holder.at = "record"
    /\ \/ Complete(IF holder.goal = "keep" THEN "LocalOnly" ELSE "Saved")
       \/ (~MayComplete /\ Abandon)
    /\ CopyUnchanged /\ UNCHANGED <<serverSent, seen>>

----------------------------------------------------------------------------
(* Outbox recovery: the commands of resolve_outgoing. *)

Cancellable(d) == row[d].stage \in Waiting

(* ReturnDraft before submission needs no account lock, but shares the FIFO *)
(* persistence lane with Send.                                             *)
CancelQueued(d) ==
    /\ LaneIdle
    /\ Cancellable(d)
    /\ SetRow(d, [row[d] EXCEPT !.stage = "Released", !.raw = FALSE,
                                !.frozen = FALSE])
    /\ UNCHANGED <<drafts, draftSent, localSent, cachedSent, account, memory,
                   serverSent, lastAttempt, faults, seen>>

ReturnDraft(d, confirmed) ==
    /\ LaneIdle
    /\ Free /\ FolderIdle
    /\ row[d].stage \in InReview \cup {"Rejected"}
    /\ confirmed \/ row[d].stage = "Rejected"
    /\ SetRow(d, [row[d] EXCEPT !.stage = "Released", !.raw = FALSE])
    /\ seen' = IF confirmed THEN [seen EXCEPT ![row[d].attempt].reviewed = TRUE]
                            ELSE seen
    /\ UNCHANGED <<drafts, draftSent, localSent, cachedSent, account, memory,
                   serverSent, lastAttempt, faults>>

MarkSent(d) ==
    /\ Free /\ FolderIdle
    /\ row[d].stage \in InReview
    /\ SetStage(d, "Accepted")
    /\ holder' = Hold(d, "mark", "finish")
    /\ seen' = [seen EXCEPT ![row[d].attempt].reviewed = TRUE]
    /\ UNCHANGED <<drafts, draftSent, localSent, cachedSent, account, sending,
                   preparing, repairing, serverSent, lastAttempt, faults>>

(* KeepLocal, RetryCopy and CheckSent of an accepted message. *)
RecoverCopy(d, goal, confirmed) ==
    LET a == row[d].attempt IN
    /\ Free /\ FolderIdle
    /\ row[d].stage = "Accepted"
    /\ confirmed => goal = "retry" /\ seen[a].confirmed < MaxCopies
    /\ holder' = [Hold(d, goal, "finish") EXCEPT !.confirmed = confirmed]
    /\ seen' = IF confirmed THEN [seen EXCEPT ![a].confirmed = @ + 1] ELSE seen
    /\ UNCHANGED <<disk, sending, preparing, repairing, serverSent, lastAttempt,
                   faults>>

CheckDelivery(d) ==
    /\ Free /\ FolderIdle
    /\ row[d].stage \in InReview
    /\ SameIncoming(d) /\ Policy[account.config] # "Pop3"
    /\ holder' = Hold(d, "found", "lookup")
    /\ UNCHANGED <<disk, sending, preparing, repairing, serverSent, lastAttempt,
                   faults, seen>>

(* A matching copy in Sent proves delivery; its absence proves nothing. *)
LookupDelivery ==
    LET d == holder.draft IN
    /\ holder.at = "lookup"
    /\ \/ /\ holder.attempt \in serverSent
          /\ MayRecord("Accepted")
          /\ SetStage(d, "Accepted")
          /\ Goto("finish")
       \/ /\ holder.attempt \notin serverSent
          /\ MayRecord("Uncertain")
          /\ SetStage(d, "Uncertain")
          /\ Release
       \/ Release /\ UNCHANGED row      \* the server could not be asked
    /\ UNCHANGED <<drafts, draftSent, localSent, cachedSent, account, sending,
                   preparing, repairing, serverSent, lastAttempt, faults, seen>>

NeedsRepair_InReview(d) == row[d].stage \in InReview              \* mutant
NeedsRepair(d) == row[d].stage = "Accepted"

(* repair_outgoing, once after each start. *)
RepairOutgoing(d) ==
    /\ d \in repairing
    /\ repairing' = repairing \ {d}
    /\ \/ /\ Free /\ FolderIdle /\ Allowed
          /\ NeedsRepair(d)
          /\ holder' = Hold(d, "repair", "finish")
       \/ /\ ~NeedsRepair(d) \/ ~Allowed
          /\ UNCHANGED holder
    /\ UNCHANGED <<disk, sending, preparing, serverSent, lastAttempt, faults, seen>>

----------------------------------------------------------------------------
(* The rest of the program and the world. *)

(* Mail sync stores a server copy (upsert_message) and reconciles it. *)
SyncSent(a) ==
    /\ a \in serverSent \ cachedSent
    /\ Allowed /\ FolderIdle
    /\ cachedSent' = cachedSent \cup {a}
    /\ localSent' = IF \E d \in Drafts : /\ row[d].attempt = a
                                         /\ row[d].stage = "Complete"
                                         /\ row[d].sent = "Saved"
                    THEN localSent \ {a} ELSE localSent
    /\ UNCHANGED <<drafts, draftSent, row, account, memory, serverSent,
                   lastAttempt, faults, seen>>

(* The sending server may keep its own copy, at any time after delivery. *)
ServerSavesSent(a) ==
    /\ seen[a].delivered
    /\ a \notin serverSent
    /\ serverSent' = serverSent \cup {a}
    /\ UNCHANGED <<disk, memory, lastAttempt, faults, seen>>

(* Saving account settings holds the account exclusively. *)
SaveAccount(c) ==
    /\ Free /\ Allowed /\ FolderIdle
    /\ c # account.config
    /\ account' = [account EXCEPT !.config = c]
    /\ UNCHANGED <<drafts, draftSent, row, localSent, cachedSent, memory,
                   serverSent, lastAttempt, faults, seen>>

(* start_folder_change: no unsettled delivery, and none admitted until the  *)
(* folder operation closes.                                                *)
StartFolderJob ==
    /\ Allowed /\ FolderIdle
    /\ \A d \in Drafts : row[d].stage \in Settled \cup {"None"}
    /\ account' = [account EXCEPT !.folderJob = TRUE]
    /\ UNCHANGED <<drafts, draftSent, row, localSent, cachedSent, memory,
                   serverSent, lastAttempt, faults, seen>>

CloseFolderJob ==
    /\ account.folderJob
    /\ account' = [account EXCEPT !.folderJob = FALSE]
    /\ UNCHANGED <<drafts, draftSent, row, localSent, cachedSent, memory,
                   serverSent, lastAttempt, faults, seen>>

AdmitRemoval ==
    /\ Allowed
    /\ account' = [account EXCEPT !.removed = TRUE]
    /\ UNCHANGED <<drafts, draftSent, row, localSent, cachedSent, memory,
                   serverSent, lastAttempt, faults, seen>>

Drained_OnAdmission == account.removed                            \* mutant
Drained == account.removed /\ Free

(* finish_connection_removal, after the account's holder has drained. *)
FinishRemoval ==
    /\ Drained
    /\ row' = [d \in Drafts |-> NoRow]
    /\ drafts' = [d \in Drafts |-> 0]
    /\ draftSent' = [d \in Drafts |-> IF row[d] # NoRow \/ drafts[d] > 0
                                      THEN 0 ELSE draftSent[d]]
    /\ localSent' = {} /\ cachedSent' = {}
    /\ account' = [account EXCEPT !.folderJob = FALSE]
    /\ UNCHANGED <<memory, serverSent, lastAttempt, faults, seen>>

(* The process dies; everything in memory goes with it. *)
Crash ==
    /\ faults.crashes < MaxCrashes
    /\ faults' = [faults EXCEPT !.crashes = @ + 1]
    /\ sending' = [sending EXCEPT !.revision = 0]
    /\ preparing' = {}
    /\ Release
    /\ repairing' = Drafts
    /\ UNCHANGED <<disk, serverSent, lastAttempt, seen>>

(* A storage write fails: the task ends and its result is not recorded. *)
StorageFails ==
    /\ faults.failures < MaxFailures
    /\ ~Free
    /\ faults' = [faults EXCEPT !.failures = @ + 1]
    /\ Release
    /\ UNCHANGED <<disk, sending, preparing, repairing, serverSent, lastAttempt, seen>>

----------------------------------------------------------------------------
HolderStep ==
    \/ Submit \/ RecordDelivery \/ FinishLocal
    \/ StartCopy \/ FindCopy \/ BeginUpload \/ Upload \/ RecordUpload
    \/ RecordCopy \/ LookupDelivery

Review(d) ==
    \/ CancelQueued(d) \/ MarkSent(d) \/ CheckDelivery(d)
    \/ \E confirmed \in BOOLEAN : ReturnDraft(d, confirmed)
    \/ \E goal \in {"keep", "retry", "check"}, confirmed \in BOOLEAN :
          RecoverCopy(d, goal, confirmed)

Next ==
    \/ \E d \in Drafts :
          \/ \E r \in Revisions : SaveDraft(d, r) \/ QueueDraft(d, r)
          \/ DeleteDraft(d) \/ ReadPreparation(d) \/ ClaimOutgoing(d)
          \/ Review(d) \/ RepairOutgoing(d)
    \/ AdmitOutgoing
    \/ \E a \in Attempts : FinishPreparation(a) \/ SyncSent(a) \/ ServerSavesSent(a)
    \/ HolderStep
    \/ \E c \in Configs : SaveAccount(c)
    \/ StartFolderJob \/ CloseFolderJob
    \/ AdmitRemoval \/ FinishRemoval
    \/ StorageFails \/ Crash

(* The action owner rescans until nothing is ready, provider calls are      *)
(* bounded by timeouts, and the account coordinator grants waiting writers  *)
(* in order, so a waiting claim or repair is not passed over for ever.     *)
Fairness ==
    /\ WF_vars(AdmitOutgoing)
    /\ WF_vars(HolderStep)
    /\ \A d \in Drafts : WF_vars(ReadPreparation(d))
    /\ \A a \in Attempts : WF_vars(FinishPreparation(a))
    /\ \A d \in Drafts : SF_vars(ClaimOutgoing(d)) /\ SF_vars(RepairOutgoing(d))

Spec     == Init /\ [][Next]_vars
FairSpec == Spec /\ Fairness

----------------------------------------------------------------------------
(* Properties. *)

TypeOK ==
    /\ drafts \in [Drafts -> 0 .. MaxRevision]
    /\ draftSent \in [Drafts -> 0 .. Discarded]
    /\ row \in [Drafts -> Row]
    /\ localSent \subseteq Attempts
    /\ cachedSent \subseteq Attempts
    /\ account \in [config : Configs, removed : BOOLEAN, folderJob : BOOLEAN]
    /\ sending \in [draft : Drafts, revision : 0 .. MaxRevision, config : Configs]
    /\ preparing \subseteq Attempts
    /\ holder \in Holder
    /\ repairing \subseteq Drafts
    /\ serverSent \subseteq Attempts
    /\ lastAttempt \in 0 .. MaxAttempts
    /\ faults \in [crashes : 0 .. MaxCrashes, failures : 0 .. MaxFailures]
    /\ seen \in [Attempts -> Seen]

(* One Send is one delivery.  A later attempt of a draft reaches SMTP after  *)
(* an attempt that the server took only when the user reviewed the earlier  *)
(* one (claim_outgoing, release_outgoing and admit_outgoing together).      *)
NoUnreviewedResend ==
    \A a, b \in Attempts :
        /\ a < b
        /\ seen[a].draft = seen[b].draft
        /\ seen[a].delivered
        /\ seen[b].submits > 0
        => seen[a].reviewed

(* An attempt is handed to SMTP at most once, whatever crashes, retries and  *)
(* scheduler rescans happen (claim_outgoing commits before the call).       *)
SubmittedOnce == \A a \in Attempts : seen[a].submits <= 1

(* What the Outbox says of a message is true of the mail server: accepted    *)
(* means delivered unless the user said so; rejected, or returned to drafts  *)
(* without a review, means not delivered.                                   *)
StatusIsTrue ==
    \A d \in Drafts :
        LET r == row[d]
            o == seen[r.attempt] IN
        /\ r.stage \in {"Accepted", "Complete"} => o.delivered \/ o.reviewed
        /\ r.stage \in Waiting \cup {"Rejected"} => ~o.delivered
        /\ r.stage = "Released" => ~o.delivered \/ o.reviewed

(* At every moment the text of every attempt can be recovered: as an         *)
(* editable draft until delivery is confirmed, and as a Sent message after.  *)
TextIsKept ==
    \A d \in Drafts :
        LET r == row[d] IN
        /\ r.stage = "Preparing" => r.frozen
        /\ r.stage \in {"Queued", "Accepted"} \cup InReview => r.raw
        /\ r.stage \in Waiting \cup InReview \cup {"Rejected", "Released"}
              => drafts[d] >= r.revision
        /\ r.stage = "Accepted"
              => drafts[d] >= r.revision \/ r.attempt \in localSent
        /\ r.stage = "Complete" => r.attempt \in localSent \cup cachedSent

(* The app uploads a Sent copy once, and again only for each retry the user  *)
(* confirmed (copy_outgoing's Pending reset, and a lost APPEND answer).      *)
UploadedOnce == \A a \in Attempts : seen[a].uploads <= 1 + seen[a].confirmed

(* While a provider call is in flight nobody replaces or erases the row that *)
(* will record its result (the account lock, against Send, Delete, Return    *)
(* and the removal of the account).                                         *)
HolderKeepsRow == ~Free => Current

(* A folder operation and an unsettled delivery never coexist, though each   *)
(* is admitted without the account lock.                                    *)
FolderExclusion ==
    account.folderJob =>
        /\ Free
        /\ \A d \in Drafts : row[d].stage \in Settled \cup {"None"}

(* The journal implements what DeliveryPromise promises: every step of every *)
(* actor, and every fault, is a step of the promise or invisible to it.      *)
Phase(r) ==
    CASE r.stage \in Waiting                  -> "waiting"
      [] r.stage \in InReview                 -> "offered"
      [] r.stage \in {"Accepted", "Complete"} -> "sent"
      [] OTHER                                -> "editing"
Promise == INSTANCE DeliveryPromise WITH
    phase  <- [d \in Drafts |-> Phase(row[d])],
    mailed <- {d \in Drafts : /\ row[d].stage \in InReview \cup {"Accepted", "Complete"}
                              /\ seen[row[d].attempt].delivered}
KeepsPromise == Promise!Spec

(* A message waiting to be sent is eventually submitted, rejected or         *)
(* returned, through crashes, unless its account is removed.                *)
WaitingIsResolved ==
    \A d \in Drafts :
        row[d].stage \in Waiting ~> row[d].stage \notin Waiting \/ account.removed

(* After a restart every accepted message gets its local Sent message, and    *)
(* earlier failed writes do not keep it from it; one that fails during the    *)
(* repair ends it until the next start.                                      *)
RestartRepairs ==
    \A d \in Drafts, n \in 0 .. MaxFailures :
        d \in repairing /\ row[d].stage = "Accepted" /\ faults.failures = n
            ~> \/ row[d].attempt \in localSent
               \/ row[d].stage # "Accepted"
               \/ account.removed
               \/ faults.failures # n

----------------------------------------------------------------------------
(* The inductive invariant behind the safety theorems of OutboxProofs: what  *)
(* each row, each attempt and the holder know of one another between steps. *)

(* A row belongs to an attempt that was drawn for its draft. *)
RowsAreDrawn ==
    \A d \in Drafts :
        /\ row[d].attempt <= lastAttempt
        /\ row[d].stage = "None" <=> row[d].attempt = 0
        /\ row[d].attempt # 0 => seen[row[d].attempt].draft = d

(* Nothing has happened to an attempt that was not drawn yet, and nothing   *)
(* is delivered that was not submitted.                                    *)
FreshIsUntouched ==
    \A a \in Attempts :
        /\ a > lastAttempt => seen[a].submits = 0
        /\ seen[a].delivered => seen[a].submits > 0

WaitingIsUnsubmitted ==
    \A d \in Drafts : row[d].stage \in Waiting => seen[row[d].attempt].submits = 0

(* The stage a task finds its row in, at each of its points. *)
StageAt(p) ==
    CASE p \in {"claimed", "accepted", "refused", "unknown"} -> {"Submitting"}
      [] p = "lookup" -> InReview
      [] OTHER -> {"Accepted"}

HolderIsAtItsRow ==
    ~Free =>
        /\ Current /\ holder.attempt # 0
        /\ Stage \in StageAt(holder.at)
        /\ holder.at = "claimed" => seen[holder.attempt].submits = 0
        /\ holder.at = "accepted" => seen[holder.attempt].delivered
        /\ holder.at = "refused" => ~seen[holder.attempt].delivered

ServerCopiesAreSent ==
    \A a \in serverSent : seen[a].delivered \/ seen[a].reviewed

(* A draft's row is its latest attempt. *)
RowIsLatest ==
    \A b \in Attempts : \A d \in Drafts :
        b <= lastAttempt /\ seen[b].draft = d /\ row[d].attempt # 0
            => b <= row[d].attempt

(* A delivered attempt keeps its row until it is reviewed or its account    *)
(* is removed.                                                             *)
DeliveredKeepsRow ==
    \A a \in Attempts :
        seen[a].delivered /\ ~seen[a].reviewed =>
            LET d == seen[a].draft IN
            row[d].attempt = a \/ (account.removed /\ row[d].attempt = 0)

(* The parts hold together after every step: admission, delivery, review,    *)
(* recovery and removal each rely on what the others leave in the rows.      *)
IInv ==
    /\ TypeOK
    /\ RowsAreDrawn
    /\ FreshIsUntouched
    /\ WaitingIsUnsubmitted
    /\ HolderIsAtItsRow
    /\ ServerCopiesAreSent
    /\ RowIsLatest
    /\ DeliveredKeepsRow
    /\ StatusIsTrue
    /\ SubmittedOnce
    /\ NoUnreviewedResend

(* What the journal and the holder know of the uploads of an attempt: while  *)
(* its row is Pending, and while the holder may still upload on the strength *)
(* of a confirmed retry, one more upload is covered.                        *)
Covered(a) == seen[a].uploads <= seen[a].confirmed

UploadsAreCounted ==
    /\ \A a \in Attempts : a > lastAttempt => seen[a].uploads = 0
    /\ \A d \in Drafts : row[d].attempt # 0 /\ row[d].sent = "Pending"
                            => Covered(row[d].attempt)

HolderCountsUploads ==
    /\ holder.at \in {"claimed", "accepted", "refused", "unknown", "lookup"}
          => ~holder.confirmed
    /\ holder.at \in {"finish", "copy", "find"} /\ holder.confirmed
          => Covered(holder.attempt)
    /\ holder.at = "find" /\ Unanswered(holder.sent) => CheckOnly \/ holder.confirmed
    /\ holder.at = "uploading"
          => Covered(holder.attempt) /\ row[holder.draft].sent = "Appending"

(* The parts about folder operations, texts and uploads; each step keeps     *)
(* them where the parts of IInv hold.                                       *)
RecoveryInv ==
    /\ FolderExclusion
    /\ TextIsKept
    /\ UploadedOnce
    /\ UploadsAreCounted
    /\ HolderCountsUploads
=============================================================================
