---------------------------- MODULE OutboxProofs ----------------------------
(* Theorems about Outbox for every set of drafts, settings and bounds.       *)
EXTENDS Outbox, TLAPS

----------------------------------------------------------------------------
(* The neutral values have their types. *)

LEMMA AnyDraftType == AnyDraft \in Drafts
  BY DraftsAssumption DEF AnyDraft

LEMMA NeutralTypes == NoRow \in Row /\ Nobody \in Holder /\ Unseen \in Seen
  <1>1. NoRow \in Row
    BY BoundsAssumption, ConfigAssumption
    DEF NoRow, Row, DeliveryStates, SentStates
  <1>2. Nobody \in Holder
    BY BoundsAssumption, AnyDraftType DEF Nobody, Holder, Points, Goals, SentStates
  <1>3. Unseen \in Seen
    BY AnyDraftType DEF Unseen, Seen
  <1>4. QED BY <1>1, <1>2, <1>3

(* A task that takes the account starts from the row it works on. *)
LEMMA HoldType ==
    ASSUME TypeOK, NEW d \in Drafts, NEW goal \in Goals, NEW at \in Points
    PROVE  Hold(d, goal, at) \in Holder
  BY DEF Hold, Holder, TypeOK, Row

LEMMA InitType == Init => TypeOK
  BY BoundsAssumption, ConfigAssumption, NeutralTypes, AnyDraftType
  DEF Init, TypeOK, Attempts, Discarded

----------------------------------------------------------------------------
(* Every step keeps the types. *)

LEMMA DraftTypes ==
    ASSUME TypeOK,
           NEW d \in Drafts, NEW r \in Revisions,
           SaveDraft(d, r) \/ QueueDraft(d, r) \/ DeleteDraft(d)
    PROVE  TypeOK'
  <1> USE BoundsAssumption DEF TypeOK, SavedDraft, Revisions, Discarded, disk, memory
  <1>1. CASE SaveDraft(d, r)
    BY <1>1 DEF SaveDraft
  <1>2. CASE QueueDraft(d, r)
    BY <1>2 DEF QueueDraft
  <1>3. CASE DeleteDraft(d)
    BY <1>3, NeutralTypes DEF DeleteDraft
  <1>4. QED BY <1>1, <1>2, <1>3

LEMMA AdmitTypes == TypeOK /\ AdmitOutgoing => TypeOK'
  <1> SUFFICES ASSUME TypeOK, AdmitOutgoing PROVE TypeOK'
    OBVIOUS
  <1> DEFINE d == sending.draft
             new == [attempt |-> lastAttempt + 1, revision |-> sending.revision,
                     stage |-> "Preparing", sent |-> "Pending",
                     config |-> sending.config, frozen |-> TRUE, raw |-> FALSE]
  <1>1. /\ sending \in [draft : Drafts, revision : 0 .. MaxRevision, config : Configs]
        /\ row \in [Drafts -> Row]
        /\ seen \in [Attempts -> Seen]
        /\ lastAttempt \in 0 .. MaxAttempts
    BY DEF TypeOK
  <1>2. sending' = [sending EXCEPT !.revision = 0]
    BY DEF AdmitOutgoing
  <1>3. sending' \in [draft : Drafts, revision : 0 .. MaxRevision, config : Configs]
    BY <1>1, <1>2, BoundsAssumption
  <1>4. UNCHANGED <<drafts, draftSent, localSent, cachedSent, account, preparing,
                    holder, repairing, serverSent, faults>>
    BY DEF AdmitOutgoing
  <1>5. CASE UNCHANGED <<row, lastAttempt, seen>>
    BY <1>3, <1>4, <1>5 DEF TypeOK
  <1>6. CASE /\ lastAttempt < MaxAttempts
             /\ lastAttempt' = lastAttempt + 1
             /\ SetRow(d, new)
             /\ seen' = [seen EXCEPT ![lastAttempt + 1].draft = d]
    <2>1. lastAttempt + 1 \in Attempts /\ d \in Drafts
      BY <1>1, <1>6, BoundsAssumption DEF Attempts
    <2>2. new \in Row
      BY <1>1, <2>1 DEF Row, DeliveryStates, SentStates, Attempts
    <2>3. row' \in [Drafts -> Row]
      BY <1>1, <1>6, <2>1, <2>2 DEF SetRow
    <2>4. seen' \in [Attempts -> Seen]
      BY <1>1, <1>6, <2>1 DEF Seen
    <2>5. lastAttempt' \in 0 .. MaxAttempts
      BY <1>6, <2>1 DEF Attempts
    <2>6. QED BY <1>3, <1>4, <2>3, <2>4, <2>5 DEF TypeOK
  <1>7. QED BY <1>5, <1>6 DEF AdmitOutgoing

(* A row in use belongs to an attempt. *)
LEMMA RowAttempt ==
    ASSUME TypeOK, RowsAreDrawn, NEW d \in Drafts, row[d].stage # "None"
    PROVE  row[d].attempt \in Attempts
  BY DEF TypeOK, RowsAreDrawn, Row, Attempts

LEMMA HolderAttempt ==
    ASSUME TypeOK, HolderIsAtItsRow, ~Free
    PROVE  holder.attempt \in Attempts /\ holder.draft \in Drafts
  BY BoundsAssumption DEF TypeOK, Holder, HolderIsAtItsRow, Attempts

LEMMA PreparationTypes ==
    ASSUME TypeOK, RowsAreDrawn,
           \/ \E d \in Drafts : ReadPreparation(d)
           \/ \E a \in Attempts : FinishPreparation(a)
    PROVE  TypeOK'
  <1> USE BoundsAssumption DEF TypeOK, disk
  <1>1. ASSUME NEW d \in Drafts, ReadPreparation(d) PROVE TypeOK'
    <2>1. row[d].attempt \in Attempts
      BY <1>1, RowAttempt DEF ReadPreparation
    <2>2. QED BY <1>1, <2>1 DEF ReadPreparation
  <1>2. ASSUME NEW a \in Attempts, FinishPreparation(a) PROVE TypeOK'
    <2>1. row' \in [Drafts -> Row]
      <3>1. CASE UNCHANGED row
        BY <3>1
      <3>2. ASSUME NEW d \in Drafts,
                   \/ SetRow(d, [row[d] EXCEPT !.stage = "Queued",
                                               !.raw = TRUE, !.frozen = FALSE])
                   \/ SetRow(d, [row[d] EXCEPT !.stage = "Rejected", !.frozen = FALSE])
            PROVE  row' \in [Drafts -> Row]
        <4>1. row[d] \in Row
          OBVIOUS
        <4>2. /\ [row[d] EXCEPT !.stage = "Queued", !.raw = TRUE, !.frozen = FALSE] \in Row
              /\ [row[d] EXCEPT !.stage = "Rejected", !.frozen = FALSE] \in Row
          BY <4>1 DEF Row, DeliveryStates
        <4>3. QED BY <3>2, <4>2 DEF SetRow
      <3>3. QED BY <1>2, <3>1, <3>2 DEF FinishPreparation
    <2>2. QED BY <1>2, <2>1 DEF FinishPreparation
  <1>3. QED BY <1>1, <1>2

LEMMA DeliveryTypes ==
    ASSUME TypeOK, HolderIsAtItsRow,
           \/ \E d \in Drafts : ClaimOutgoing(d)
           \/ Submit
           \/ RecordDelivery
           \/ FinishLocal
    PROVE  TypeOK'
  <1> USE BoundsAssumption DEF TypeOK, disk
  <1>1. ASSUME NEW d \in Drafts, ClaimOutgoing(d) PROVE TypeOK'
    <2>1. Hold(d, "send", "claimed") \in Holder
      BY HoldType DEF Goals, Points
    <2>2. QED
      BY <1>1, <2>1
      DEF ClaimOutgoing, ClaimedStage, SetStage, SetRow, Row, DeliveryStates
  <1>2. CASE Submit
    <2>1. holder' \in Holder
      BY <1>2 DEF Submit, Goto, Holder, Points
    <2>2. seen' \in [Attempts -> Seen]
      <3> DEFINE a == holder.attempt
      <3>1. PICK took \in BOOLEAN :
              seen' = [seen EXCEPT ![a].submits = @ + 1, ![a].delivered = @ \/ took]
        BY <1>2 DEF Submit
      <3>2. a \in Attempts
        BY <1>2, HolderAttempt DEF Submit, Free
      <3>3. seen[a] \in Seen
        BY <3>2
      <3>4. seen[a].submits + 1 \in Nat /\ (seen[a].delivered \/ took) \in BOOLEAN
        BY <3>3 DEF Seen
      <3>5. [seen[a] EXCEPT !.submits = @ + 1, !.delivered = @ \/ took] \in Seen
        BY <3>3, <3>4 DEF Seen
      <3>6. seen' = [seen EXCEPT ![a] =
                       [seen[a] EXCEPT !.submits = @ + 1, !.delivered = @ \/ took]]
        BY <3>1, <3>2
      <3>7. QED BY <3>2, <3>5, <3>6
    <2>3. QED BY <1>2, <2>1, <2>2 DEF Submit
  <1>3. CASE RecordDelivery
    <2>1. holder.draft \in Drafts /\ Outcome(holder.at) \in DeliveryStates
      BY DEF Holder, Outcome, DeliveryStates
    <2>2. [row EXCEPT ![holder.draft].stage = Outcome(holder.at)] \in [Drafts -> Row]
      BY <2>1 DEF Row
    <2>3. row' \in [Drafts -> Row]
      BY <1>3, <2>2 DEF RecordDelivery, SetStage, SetRow
    <2>4. holder' \in Holder
      BY <1>3, NeutralTypes DEF RecordDelivery, Goto, Release, Holder, Points
    <2>5. QED BY <1>3, <2>3, <2>4 DEF RecordDelivery
  <1>4. CASE FinishLocal
    <2>1. holder.attempt \in Attempts /\ holder.draft \in Drafts
      BY <1>4, HolderAttempt DEF FinishLocal, Free
    <2>2. holder' \in Holder
      BY <1>4, NeutralTypes
      DEF FinishLocal, AfterFinish, Goto, Release, Holder, Points
    <2>3. row[holder.draft].revision \in 0 .. MaxRevision
      BY <2>1 DEF Row
    <2>4. drafts' \in [Drafts -> 0 .. MaxRevision]
          /\ draftSent' \in [Drafts -> 0 .. Discarded]
      BY <1>4, <2>1, <2>3 DEF FinishLocal, Discarded
    <2>5. QED BY <1>4, <2>1, <2>2, <2>4 DEF FinishLocal
  <1>5. QED BY <1>1, <1>2, <1>3, <1>4

LEMMA CopyTypes ==
    ASSUME TypeOK,
           \/ StartCopy \/ FindCopy \/ BeginUpload \/ RecordUpload \/ RecordCopy
    PROVE  TypeOK'
  <1> USE BoundsAssumption DEF TypeOK, CopyUnchanged
  <1>1. holder.draft \in Drafts
    BY DEF Holder
  <1>2. ASSUME NEW s \in {"Saved", "LocalOnly"}, Complete(s)
        PROVE  /\ row' \in [Drafts -> Row]
               /\ holder' \in Holder
               /\ localSent' \subseteq Attempts
    <2>1. row[holder.draft] \in Row
      BY <1>1
    <2>2. [row[holder.draft] EXCEPT !.stage = "Complete", !.sent = s, !.raw = FALSE] \in Row
      BY <1>2, <2>1 DEF Row, DeliveryStates, SentStates
    <2>3. row' \in [Drafts -> Row]
      BY <1>1, <1>2, <2>2 DEF Complete, SetRow
    <2>4. localSent' \subseteq Attempts
      BY <1>2 DEF Complete, Reconciled
    <2>5. QED BY <1>2, <2>3, <2>4, NeutralTypes DEF Complete, Release
  <1>3. ASSUME CopyFails \/ Abandon
        PROVE  /\ row' \in [Drafts -> Row]
               /\ holder' \in Holder
               /\ localSent' \subseteq Attempts
    BY <1>1, <1>3, NeutralTypes DEF CopyFails, Abandon, Release, Row, SentStates
  <1>4. CASE StartCopy
    <2>1. row[holder.draft].sent \in SentStates
      BY <1>1 DEF Row
    <2>2. [holder EXCEPT !.at = "find", !.sent = row[holder.draft].sent] \in Holder
      BY <2>1 DEF Holder, Points
    <2>3. QED BY <1>2, <1>3, <1>4, <2>2 DEF StartCopy
  <1>5. CASE FindCopy
    <2>1. [row EXCEPT ![holder.draft].sent = "Pending"] \in [Drafts -> Row]
      BY <1>1 DEF Row, SentStates
    <2>2. [holder EXCEPT !.at = "begin"] \in Holder
      BY DEF Holder, Points
    <2>3. QED BY <1>2, <1>3, <1>5, <2>1, <2>2 DEF FindCopy, Goto
  <1>6. CASE BeginUpload
    <2>1. [row EXCEPT ![holder.draft].sent = "Appending"] \in [Drafts -> Row]
      BY <1>1 DEF Row, SentStates
    <2>2. [holder EXCEPT !.at = "uploading"] \in Holder
      BY DEF Holder, Points
    <2>3. QED BY <1>3, <1>6, <2>1, <2>2 DEF BeginUpload, Goto
  <1>7. CASE RecordUpload
    BY <1>2, <1>3, <1>7 DEF RecordUpload
  <1>8. CASE RecordCopy
    BY <1>2, <1>3, <1>8 DEF RecordCopy
  <1>9. QED BY <1>4, <1>5, <1>6, <1>7, <1>8

LEMMA UploadTypes == TypeOK /\ HolderIsAtItsRow /\ Upload => TypeOK'
  <1> SUFFICES ASSUME TypeOK, HolderIsAtItsRow, Upload PROVE TypeOK'
    OBVIOUS
  <1>1. holder.attempt \in Attempts
    BY HolderAttempt DEF Upload, Free
  <1>2. seen' = [seen EXCEPT ![holder.attempt].uploads = @ + 1]
    BY DEF Upload
  <1>3. seen' \in [Attempts -> Seen]
    BY <1>1, <1>2 DEF TypeOK, Seen
  <1>4. holder' \in Holder
    BY DEF Upload, Goto, TypeOK, Holder, Points
  <1>5. serverSent' \subseteq Attempts
    BY <1>1 DEF Upload, TypeOK
  <1>6. QED BY <1>3, <1>4, <1>5 DEF Upload, CopyUnchanged, TypeOK

(* A review flag or a confirmation count that changes keeps its type. *)
LEMMA SeenTypes ==
    ASSUME TypeOK, NEW a \in Attempts
    PROVE  /\ [seen EXCEPT ![a].reviewed = TRUE] \in [Attempts -> Seen]
           /\ [seen EXCEPT ![a].confirmed = @ + 1] \in [Attempts -> Seen]
  <1>1. seen \in [Attempts -> Seen] /\ seen[a] \in Seen
    BY DEF TypeOK
  <1>2. [seen[a] EXCEPT !.reviewed = TRUE] \in Seen
    BY <1>1 DEF Seen
  <1>3. seen[a].confirmed + 1 \in Nat
    BY <1>1 DEF Seen
  <1>4. [seen[a] EXCEPT !.confirmed = @ + 1] \in Seen
    BY <1>1, <1>3 DEF Seen
  <1>5. QED BY <1>1, <1>2, <1>4

LEMMA ReviewTypes ==
    ASSUME TypeOK, RowsAreDrawn, NEW d \in Drafts,
           Review(d) \/ RepairOutgoing(d)
    PROVE  TypeOK'
  <1> DEFINE r == row[d]
  <1>1. r \in Row /\ row \in [Drafts -> Row]
    BY DEF TypeOK
  <1>2. ASSUME r.stage # "None"
        PROVE  /\ [seen EXCEPT ![r.attempt].reviewed = TRUE] \in [Attempts -> Seen]
               /\ [seen EXCEPT ![r.attempt].confirmed = @ + 1] \in [Attempts -> Seen]
    BY <1>2, RowAttempt, SeenTypes
  <1>3. CASE CancelQueued(d)
    <2>1. [r EXCEPT !.stage = "Released", !.raw = FALSE, !.frozen = FALSE] \in Row
      BY <1>1 DEF Row, DeliveryStates
    <2>2. row' \in [Drafts -> Row]
      BY <1>1, <1>3, <2>1 DEF CancelQueued, SetRow
    <2>3. QED BY <1>3, <2>2 DEF CancelQueued, TypeOK, memory
  <1>4. ASSUME NEW confirmed \in BOOLEAN, ReturnDraft(d, confirmed) PROVE TypeOK'
    <2>1. [r EXCEPT !.stage = "Released", !.raw = FALSE] \in Row
      BY <1>1 DEF Row, DeliveryStates
    <2>2. row' \in [Drafts -> Row]
      BY <1>1, <1>4, <2>1 DEF ReturnDraft, SetRow
    <2>3. r.stage # "None"
      BY <1>4 DEF ReturnDraft, InReview
    <2>4. seen' \in [Attempts -> Seen]
      BY <1>2, <1>4, <2>3 DEF ReturnDraft, TypeOK
    <2>5. QED BY <1>4, <2>2, <2>4 DEF ReturnDraft, TypeOK, memory
  <1>5. CASE MarkSent(d)
    <2>1. [r EXCEPT !.stage = "Accepted"] \in Row
      BY <1>1 DEF Row, DeliveryStates
    <2>2. row' \in [Drafts -> Row]
      BY <1>1, <1>5, <2>1 DEF MarkSent, SetStage, SetRow
    <2>3. r.stage # "None"
      BY <1>5 DEF MarkSent, InReview
    <2>4. Hold(d, "mark", "finish") \in Holder
      BY HoldType DEF Goals, Points
    <2>5. QED BY <1>2, <1>5, <2>2, <2>3, <2>4 DEF MarkSent, TypeOK
  <1>6. ASSUME NEW goal \in {"keep", "retry", "check"}, NEW confirmed \in BOOLEAN,
               RecoverCopy(d, goal, confirmed)
        PROVE  TypeOK'
    <2>1. Hold(d, goal, "finish") \in Holder
      BY HoldType DEF Goals, Points
    <2>2. holder' \in Holder
      BY <1>6, <2>1 DEF RecoverCopy, Holder
    <2>3. r.stage # "None"
      BY <1>6 DEF RecoverCopy
    <2>4. seen' \in [Attempts -> Seen]
      BY <1>2, <1>6, <2>3 DEF RecoverCopy, TypeOK
    <2>5. QED BY <1>6, <2>2, <2>4 DEF RecoverCopy, TypeOK, disk
  <1>7. CASE CheckDelivery(d)
    <2>1. Hold(d, "found", "lookup") \in Holder
      BY HoldType DEF Goals, Points
    <2>2. QED BY <1>7, <2>1 DEF CheckDelivery, TypeOK, disk
  <1>8. CASE RepairOutgoing(d)
    <2>1. Hold(d, "repair", "finish") \in Holder
      BY HoldType DEF Goals, Points
    <2>2. QED BY <1>8, <2>1 DEF RepairOutgoing, TypeOK, disk
  <1>9. QED BY <1>3, <1>4, <1>5, <1>6, <1>7, <1>8 DEF Review

LEMMA LookupTypes == TypeOK /\ LookupDelivery => TypeOK'
  <1> SUFFICES ASSUME TypeOK, LookupDelivery PROVE TypeOK'
    OBVIOUS
  <1>1. ASSUME NEW s \in {"Accepted", "Uncertain"}, SetStage(holder.draft, s)
        PROVE  row' \in [Drafts -> Row]
    <2>1. row \in [Drafts -> Row] /\ holder.draft \in Drafts
      BY DEF TypeOK, Holder
    <2>2. [row[holder.draft] EXCEPT !.stage = s] \in Row
      BY <2>1 DEF Row, DeliveryStates
    <2>3. QED BY <1>1, <2>1, <2>2 DEF SetStage, SetRow
  <1>2. row' \in [Drafts -> Row]
    <2>1. UNCHANGED row \/ \E s \in {"Accepted", "Uncertain"} : SetStage(holder.draft, s)
      BY DEF LookupDelivery
    <2>2. QED BY <1>1, <2>1 DEF TypeOK
  <1>3. holder' \in Holder
    BY NeutralTypes DEF LookupDelivery, Goto, Release, TypeOK, Holder, Points
  <1>4. QED BY <1>2, <1>3 DEF LookupDelivery, TypeOK

LEMMA WorldTypes ==
    ASSUME TypeOK,
           \/ \E a \in Attempts : SyncSent(a) \/ ServerSavesSent(a)
           \/ \E c \in Configs : SaveAccount(c)
           \/ StartFolderJob \/ CloseFolderJob
           \/ AdmitRemoval \/ FinishRemoval
           \/ Crash \/ StorageFails
    PROVE  TypeOK'
  <1> USE DEF TypeOK, disk, memory
  <1>1. ASSUME NEW a \in Attempts, SyncSent(a) \/ ServerSavesSent(a) PROVE TypeOK'
    BY <1>1 DEF SyncSent, ServerSavesSent
  <1>2. ASSUME NEW c \in Configs, SaveAccount(c) PROVE TypeOK'
    BY <1>2 DEF SaveAccount
  <1>3. CASE StartFolderJob \/ CloseFolderJob \/ AdmitRemoval
    BY <1>3 DEF StartFolderJob, CloseFolderJob, AdmitRemoval
  <1>4. CASE FinishRemoval
    <2>1. row' \in [Drafts -> Row]
      BY <1>4, NeutralTypes DEF FinishRemoval
    <2>2. /\ drafts' \in [Drafts -> 0 .. MaxRevision]
          /\ draftSent' \in [Drafts -> 0 .. Discarded]
      BY <1>4, BoundsAssumption DEF FinishRemoval, Discarded
    <2>3. QED BY <1>4, <2>1, <2>2 DEF FinishRemoval
  <1>5. CASE Crash
    <2>1. faults' \in [crashes : 0 .. MaxCrashes, failures : 0 .. MaxFailures]
      BY <1>5, BoundsAssumption DEF Crash
    <2>2. sending' \in [draft : Drafts, revision : 0 .. MaxRevision, config : Configs]
      BY <1>5, BoundsAssumption DEF Crash
    <2>3. QED BY <1>5, <2>1, <2>2, NeutralTypes DEF Crash, Release
  <1>6. CASE StorageFails
    BY <1>6, NeutralTypes, BoundsAssumption DEF StorageFails, Release
  <1>7. QED BY <1>1, <1>2, <1>3, <1>4, <1>5, <1>6

LEMMA NextTypes ==
    ASSUME TypeOK, RowsAreDrawn, HolderIsAtItsRow, [Next]_vars
    PROVE  TypeOK'
  <1>1. CASE UNCHANGED vars
    BY <1>1 DEF TypeOK, vars, disk, memory
  <1>2. CASE HolderStep
    BY <1>2, DeliveryTypes, CopyTypes, UploadTypes, LookupTypes DEF HolderStep
  <1>3. ASSUME NEW d \in Drafts,
               \/ \E r \in Revisions : SaveDraft(d, r) \/ QueueDraft(d, r)
               \/ DeleteDraft(d)
        PROVE  TypeOK'
    <2>1. 1 \in Revisions
      BY BoundsAssumption DEF Revisions
    <2>2. QED BY <1>3, <2>1, DraftTypes
  <1>4. QED
    BY <1>1, <1>2, <1>3, AdmitTypes, PreparationTypes, DeliveryTypes, ReviewTypes,
       WorldTypes
    DEF Next

----------------------------------------------------------------------------
(* The safety part of the invariant.  Most steps change a stage, not which   *)
(* attempt a row belongs to or what the mail server has seen of it.         *)

SafetyParts ==
    /\ RowsAreDrawn
    /\ FreshIsUntouched
    /\ WaitingIsUnsubmitted
    /\ HolderIsAtItsRow
    /\ ServerCopiesAreSent
    /\ RowIsLatest
    /\ DeliveredKeepsRow
    /\ StatusIsTrue
    /\ SubmittedOnce
    /\ NoUnreviewedResend

AttemptsKept ==
    /\ \A d \in Drafts : /\ row'[d].attempt = row[d].attempt
                         /\ row'[d].stage = "None" <=> row[d].stage = "None"
    /\ lastAttempt' = lastAttempt
    /\ account.removed => account'.removed

SeenKept ==
    \A a \in Attempts : /\ seen'[a].draft = seen[a].draft
                        /\ seen'[a].submits = seen[a].submits
                        /\ seen'[a].delivered = seen[a].delivered
                        /\ seen[a].reviewed => seen'[a].reviewed

(* Such a step keeps every part that does not speak of a stage. *)
LEMMA KeptParts ==
    ASSUME IInv, TypeOK', AttemptsKept, SeenKept
    PROVE  /\ RowsAreDrawn'
           /\ FreshIsUntouched'
           /\ RowIsLatest'
           /\ DeliveredKeepsRow'
           /\ SubmittedOnce'
           /\ NoUnreviewedResend'
           /\ serverSent' = serverSent => ServerCopiesAreSent'
  <1>1. ASSUME NEW d \in Drafts
        PROVE  row[d].attempt \in 0 .. MaxAttempts
    BY DEF IInv, TypeOK, Row
  <1>2. ASSUME NEW a \in Attempts
        PROVE  seen[a].draft \in Drafts
    BY DEF IInv, TypeOK, Seen
  <1>3. RowsAreDrawn'
    BY <1>1, BoundsAssumption
    DEF IInv, RowsAreDrawn, AttemptsKept, SeenKept, Attempts
  <1>4. FreshIsUntouched'
    BY DEF IInv, FreshIsUntouched, AttemptsKept, SeenKept
  <1>5. RowIsLatest'
    BY DEF IInv, RowIsLatest, AttemptsKept, SeenKept
  <1>6. DeliveredKeepsRow'
    BY <1>2 DEF IInv, DeliveredKeepsRow, AttemptsKept, SeenKept
  <1>7. SubmittedOnce'
    BY DEF IInv, SubmittedOnce, SeenKept
  <1>8. NoUnreviewedResend'
    BY DEF IInv, NoUnreviewedResend, SeenKept
  <1>9. serverSent' = serverSent => ServerCopiesAreSent'
    BY DEF IInv, TypeOK, ServerCopiesAreSent, SeenKept
  <1>10. QED BY <1>3, <1>4, <1>5, <1>6, <1>7, <1>8, <1>9

(* What a stage says of the attempt a row belongs to. *)
Fits(stage, o) ==
    /\ stage \in Waiting => o.submits = 0
    /\ stage \in {"Accepted", "Complete"} => o.delivered \/ o.reviewed
    /\ stage = "Rejected" => ~o.delivered
    /\ stage = "Released" => ~o.delivered \/ o.reviewed

(* Nothing is delivered that was not submitted, so a waiting message is not. *)
LEMMA UnsubmittedUndelivered ==
    ASSUME TypeOK, FreshIsUntouched, NEW a \in Attempts, seen[a].submits = 0
    PROVE  ~seen[a].delivered
  BY DEF FreshIsUntouched

(* A step whose new stages fit their attempts keeps every part but the one   *)
(* about the holder.                                                        *)
LEMMA StageStep ==
    ASSUME IInv, TypeOK', AttemptsKept, SeenKept, serverSent' = serverSent,
           \A d \in Drafts :
               row'[d].stage = row[d].stage
                   \/ Fits(row'[d].stage, seen'[row[d].attempt]),
           HolderIsAtItsRow'
    PROVE  SafetyParts'
  <1>1. ASSUME NEW d \in Drafts, row[d].stage # "None"
        PROVE  row[d].attempt \in Attempts
    BY <1>1, RowAttempt DEF IInv
  <1>2. WaitingIsUnsubmitted'
    <2> SUFFICES ASSUME NEW d \in Drafts, row'[d].stage \in Waiting
                 PROVE  seen'[row'[d].attempt].submits = 0
      BY DEF WaitingIsUnsubmitted
    <2>1. row'[d].attempt = row[d].attempt /\ row[d].attempt \in Attempts
      BY <1>1 DEF AttemptsKept, Waiting
    <2>2. QED BY <2>1 DEF IInv, WaitingIsUnsubmitted, SeenKept, Fits
  <1>3. StatusIsTrue'
    <2> SUFFICES ASSUME NEW d \in Drafts, row'[d].stage # "None"
                 PROVE  LET st == row'[d].stage
                            o  == seen'[row'[d].attempt] IN
                        /\ st \in {"Accepted", "Complete"} => o.delivered \/ o.reviewed
                        /\ st \in Waiting \cup {"Rejected"} => ~o.delivered
                        /\ st = "Released" => ~o.delivered \/ o.reviewed
      BY DEF StatusIsTrue, Waiting
    <2>1. row'[d].attempt = row[d].attempt /\ row[d].attempt \in Attempts
      BY <1>1 DEF AttemptsKept
    <2>2. CASE row'[d].stage = row[d].stage
      BY <2>1, <2>2 DEF IInv, StatusIsTrue, SeenKept
    <2>3. CASE Fits(row'[d].stage, seen'[row[d].attempt])
      <3>1. row'[d].stage \in Waiting => ~seen'[row[d].attempt].delivered
        BY <2>1, <2>3, UnsubmittedUndelivered DEF Fits, IInv, SeenKept
      <3>2. QED BY <2>1, <2>3, <3>1 DEF Fits
    <2>4. QED BY <2>2, <2>3
  <1>4. QED BY <1>2, <1>3, KeptParts DEF SafetyParts

LEMMA HolderStage ==
    ASSUME HolderIsAtItsRow, ~Free
    PROVE  Stage \in {"Submitting", "Uncertain", "Accepted"}
  BY DEF HolderIsAtItsRow, StageAt, InReview

(* The holder's row is still there when the stage it relies on is.          *)
LEMMA HolderStays ==
    ASSUME IInv, AttemptsKept, SeenKept,
           \/ holder'.at = "free"
           \/ /\ holder' = holder
              /\ \A d \in Drafts :
                    row'[d].stage = row[d].stage
                      \/ row[d].stage \notin {"Submitting", "Uncertain", "Accepted"}
    PROVE  HolderIsAtItsRow'
  <1>1. CASE holder'.at = "free"
    BY <1>1 DEF HolderIsAtItsRow, Free
  <1>2. CASE holder' = holder /\ ~Free /\ holder'.at # "free"
    <2>1. holder.draft \in Drafts /\ holder.attempt \in Attempts
      BY <1>2, HolderAttempt DEF IInv
    <2>2. row[holder.draft].attempt = holder.attempt
      BY <1>2 DEF IInv, HolderIsAtItsRow, Current
    <2>3. row'[holder.draft].stage = row[holder.draft].stage
      BY <1>2, <2>1, HolderStage DEF IInv, Stage, Free
    <2>4. Current' /\ Stage' = Stage
      BY <1>2, <2>1, <2>2, <2>3 DEF Current, Stage, AttemptsKept
    <2>5. /\ seen'[holder.attempt].submits = seen[holder.attempt].submits
          /\ seen'[holder.attempt].delivered = seen[holder.attempt].delivered
      BY <2>1 DEF SeenKept
    <2>6. QED BY <1>2, <2>4, <2>5 DEF IInv, HolderIsAtItsRow
  <1>3. QED BY <1>1, <1>2 DEF Free

LEMMA NobodyIsFree == Nobody.at = "free"
  BY DEF Nobody

----------------------------------------------------------------------------
(* The steps that change neither a stage nor the holder's point. *)

LEMMA QuietSafe ==
    ASSUME IInv, TypeOK',
           \/ \E d \in Drafts, r \in Revisions : SaveDraft(d, r) \/ QueueDraft(d, r)
           \/ \E d \in Drafts : ReadPreparation(d)
           \/ \E a \in Attempts : SyncSent(a)
           \/ \E c \in Configs : SaveAccount(c)
           \/ StartFolderJob \/ CloseFolderJob \/ AdmitRemoval
           \/ Crash \/ StorageFails
           \/ UNCHANGED vars
    PROVE  SafetyParts'
  <1>1. /\ UNCHANGED <<row, lastAttempt, seen, serverSent>>
        /\ holder' = holder \/ holder'.at = "free"
    BY NobodyIsFree
    DEF SaveDraft, QueueDraft, ReadPreparation, SyncSent, SaveAccount, StartFolderJob,
        CloseFolderJob, AdmitRemoval, Crash, StorageFails, Release, vars, disk, memory
  <1>2. account.removed => account'.removed
    BY DEF SaveDraft, QueueDraft, ReadPreparation, SyncSent, SaveAccount, StartFolderJob,
        CloseFolderJob, AdmitRemoval, Crash, StorageFails, Release, vars, disk, memory,
        IInv, TypeOK
  <1>3. AttemptsKept /\ SeenKept
    BY <1>1, <1>2 DEF AttemptsKept, SeenKept
  <1>4. HolderIsAtItsRow'
    BY <1>1, <1>3, HolderStays
  <1>5. QED BY <1>1, <1>3, <1>4, StageStep

----------------------------------------------------------------------------
(* The steps that change a stage or the holder's point. *)

LEMMA PreparationSafe ==
    ASSUME IInv, TypeOK', NEW a \in Attempts, FinishPreparation(a)
    PROVE  SafetyParts'
  <1>1. UNCHANGED <<lastAttempt, seen, serverSent, account, holder>>
    BY DEF FinishPreparation
  <1>2. CASE UNCHANGED row
    <2>1. AttemptsKept /\ SeenKept
      BY <1>1, <1>2 DEF AttemptsKept, SeenKept
    <2>2. HolderIsAtItsRow'
      BY <1>1, <1>2, <2>1, HolderStays
    <2>3. QED BY <1>1, <1>2, <2>1, <2>2, StageStep
  <1>3. ASSUME NEW d \in Drafts, row[d].stage = "Preparing",
               \/ SetRow(d, [row[d] EXCEPT !.stage = "Queued",
                                           !.raw = TRUE, !.frozen = FALSE])
               \/ SetRow(d, [row[d] EXCEPT !.stage = "Rejected", !.frozen = FALSE])
        PROVE  SafetyParts'
    <2>1. /\ \A e \in Drafts : row'[e].attempt = row[e].attempt
          /\ \A e \in Drafts \ {d} : row'[e].stage = row[e].stage
          /\ row'[d].stage \in {"Queued", "Rejected"}
      <3> DEFINE queued   == [row[d] EXCEPT !.stage = "Queued",
                                            !.raw = TRUE, !.frozen = FALSE]
                 rejected == [row[d] EXCEPT !.stage = "Rejected", !.frozen = FALSE]
      <3>1. row \in [Drafts -> Row] /\ row[d] \in Row
        BY DEF IInv, TypeOK
      <3>2. /\ queued.attempt = row[d].attempt /\ queued.stage = "Queued"
            /\ rejected.attempt = row[d].attempt /\ rejected.stage = "Rejected"
        BY <3>1 DEF Row
      <3>3. row' = [row EXCEPT ![d] = queued] \/ row' = [row EXCEPT ![d] = rejected]
        BY <1>3 DEF SetRow
      <3> HIDE DEF queued, rejected
      <3>4. QED BY <3>1, <3>2, <3>3
    <2>2. AttemptsKept /\ SeenKept
      BY <1>1, <1>3, <2>1 DEF AttemptsKept, SeenKept
    <2>3. HolderIsAtItsRow'
      BY <1>1, <1>3, <2>1, <2>2, HolderStays
    <2>4. row[d].attempt \in Attempts /\ seen[row[d].attempt].submits = 0
      BY <1>3, RowAttempt DEF IInv, WaitingIsUnsubmitted, Waiting
    <2>5. Fits(row'[d].stage, seen'[row[d].attempt])
      BY <1>1, <2>1, <2>4, UnsubmittedUndelivered DEF Fits, IInv
    <2>6. QED BY <1>1, <2>1, <2>2, <2>3, <2>5, StageStep
  <1>4. QED BY <1>2, <1>3 DEF FinishPreparation, StillPreparing

LEMMA ClaimSafe ==
    ASSUME IInv, TypeOK', NEW d \in Drafts, ClaimOutgoing(d)
    PROVE  SafetyParts'
  <1>1. /\ UNCHANGED <<lastAttempt, seen, serverSent, account>>
        /\ row[d].stage = "Queued"
        /\ row' = [row EXCEPT ![d].stage = ClaimedStage(d)]
        /\ Free
    BY DEF ClaimOutgoing, Claimable, SetStage, SetRow, IInv, TypeOK
  <1>2. /\ \A e \in Drafts : row'[e].attempt = row[e].attempt
        /\ \A e \in Drafts \ {d} : row'[e].stage = row[e].stage
        /\ row'[d].stage = ClaimedStage(d)
    BY <1>1 DEF IInv, TypeOK, Row
  <1>3. ClaimedStage(d) \in {"Rejected", "Submitting"}
    BY DEF ClaimedStage
  <1>4. AttemptsKept /\ SeenKept
    BY <1>1, <1>2, <1>3 DEF AttemptsKept, SeenKept
  <1>5. row[d].attempt \in Attempts /\ seen[row[d].attempt].submits = 0
    BY <1>1, RowAttempt DEF IInv, WaitingIsUnsubmitted, Waiting
  <1>6. HolderIsAtItsRow'
    <2>1. CASE ClaimedStage(d) = "Submitting"
      <3>1. /\ holder'.at = "claimed" /\ holder'.draft = d
            /\ holder'.attempt = row[d].attempt
        BY <2>1 DEF ClaimOutgoing, Hold
      <3>2. row[d].attempt # 0
        BY <1>5 DEF Attempts
      <3>3. QED
        BY <1>1, <1>2, <1>5, <2>1, <3>1, <3>2
        DEF HolderIsAtItsRow, Current, Stage, StageAt
    <2>2. CASE ClaimedStage(d) # "Submitting"
      BY <1>1, <2>2 DEF ClaimOutgoing, HolderIsAtItsRow, Free
    <2>3. QED BY <2>1, <2>2
  <1>7. Fits(row'[d].stage, seen'[row[d].attempt])
    BY <1>1, <1>2, <1>3, <1>5, UnsubmittedUndelivered DEF Fits, IInv, Waiting
  <1>8. QED BY <1>1, <1>2, <1>4, <1>6, <1>7, StageStep

LEMMA RecordSafe ==
    ASSUME IInv, TypeOK', RecordDelivery
    PROVE  SafetyParts'
  <1> DEFINE d == holder.draft
             a == holder.attempt
  <1>1. /\ UNCHANGED <<lastAttempt, seen, serverSent, account>>
        /\ holder.at \in {"accepted", "refused", "unknown"}
    BY DEF RecordDelivery
  <1>2. /\ d \in Drafts /\ a \in Attempts
        /\ row[d].attempt = a /\ row[d].stage = "Submitting"
        /\ holder.at = "accepted" => seen[a].delivered
        /\ holder.at = "refused" => ~seen[a].delivered
    BY <1>1, HolderAttempt
    DEF IInv, Free, HolderIsAtItsRow, Current, Stage, StageAt
  <1>3. MayRecord(Outcome(holder.at))
    BY <1>2 DEF MayRecord, Current, Stage, InReview
  <1>4. /\ \A e \in Drafts : row'[e].attempt = row[e].attempt
        /\ \A e \in Drafts \ {d} : row'[e].stage = row[e].stage
        /\ row'[d].stage = Outcome(holder.at)
    <2>1. row' = [row EXCEPT ![d].stage = Outcome(holder.at)]
      BY <1>3 DEF RecordDelivery, SetStage, SetRow
    <2>2. row \in [Drafts -> Row]
      BY DEF IInv, TypeOK
    <2>3. QED BY <1>2, <2>1, <2>2 DEF Row
  <1>5. Outcome(holder.at) \in {"Accepted", "Rejected", "Uncertain"}
    BY DEF Outcome
  <1>6. AttemptsKept /\ SeenKept
    BY <1>1, <1>2, <1>4, <1>5 DEF AttemptsKept, SeenKept
  <1>7. Fits(row'[d].stage, seen'[row[d].attempt])
    BY <1>1, <1>2, <1>4 DEF Fits, Outcome, Waiting
  <1>8. HolderIsAtItsRow'
    <2>1. CASE Outcome(holder.at) = "Accepted"
      <3>1. holder' = [holder EXCEPT !.at = "finish"]
        BY <1>3, <2>1 DEF RecordDelivery, Goto
      <3>2. holder'.at = "finish" /\ holder'.draft = d /\ holder'.attempt = a
        BY <3>1 DEF IInv, TypeOK, Holder
      <3>3. a # 0
        BY <1>2 DEF Attempts
      <3>4. QED
        BY <1>2, <1>4, <2>1, <3>2, <3>3 DEF HolderIsAtItsRow, Current, Stage, StageAt
    <2>2. CASE Outcome(holder.at) # "Accepted"
      BY <1>3, <2>2, NobodyIsFree DEF RecordDelivery, Release, HolderIsAtItsRow, Free
    <2>3. QED BY <2>1, <2>2
  <1>9. QED BY <1>1, <1>4, <1>6, <1>7, <1>8, StageStep

(* Finishing and copying an accepted message moves the holder along its      *)
(* points, or ends the delivery.                                           *)
CopyPoints == {"copy", "find", "begin", "uploading", "uploaded",
               "unacknowledged", "record"}

LEMMA MoveSafe ==
    ASSUME IInv, TypeOK', AttemptsKept, SeenKept, serverSent' = serverSent,
           \A d \in Drafts : row'[d].stage = row[d].stage,
           ~Free, Stage = "Accepted",
           \/ holder'.at = "free"
           \/ /\ holder'.at \in CopyPoints
              /\ holder'.draft = holder.draft
              /\ holder'.attempt = holder.attempt
    PROVE  SafetyParts'
  <1>1. HolderIsAtItsRow'
    <2>1. CASE holder'.at = "free"
      BY <2>1 DEF HolderIsAtItsRow, Free
    <2>2. CASE /\ holder'.at \in CopyPoints
               /\ holder'.draft = holder.draft
               /\ holder'.attempt = holder.attempt
      <3>1. holder.attempt \in Attempts /\ holder.draft \in Drafts
        BY HolderAttempt DEF IInv
      <3>2. row[holder.draft].attempt = holder.attempt
        BY DEF IInv, HolderIsAtItsRow, Current
      <3>3. Current' /\ Stage' = "Accepted"
        BY <2>2, <3>1, <3>2 DEF Current, Stage, AttemptsKept
      <3>4. StageAt(holder'.at) = {"Accepted"}
        BY <2>2 DEF StageAt, CopyPoints
      <3>5. holder'.attempt # 0
        BY <2>2, <3>1 DEF Attempts
      <3>6. holder'.at \notin {"claimed", "accepted", "refused"}
        BY <2>2 DEF CopyPoints
      <3>7. QED BY <3>3, <3>4, <3>5, <3>6 DEF HolderIsAtItsRow
    <2>3. QED BY <2>1, <2>2
  <1>2. QED BY <1>1, StageStep

LEMMA FinishSafe ==
    ASSUME IInv, TypeOK', FinishLocal
    PROVE  SafetyParts'
  <1>1. /\ UNCHANGED <<row, lastAttempt, seen, serverSent, account>>
        /\ holder.at = "finish" /\ ~Free
    BY DEF FinishLocal, Free
  <1>2. AttemptsKept /\ SeenKept
    BY <1>1 DEF AttemptsKept, SeenKept
  <1>3. Stage = "Accepted"
    BY <1>1 DEF IInv, HolderIsAtItsRow, StageAt
  <1>4. \/ holder'.at = "free"
        \/ /\ holder'.at \in CopyPoints
           /\ holder'.draft = holder.draft
           /\ holder'.attempt = holder.attempt
    <2>1. holder' = Nobody \/ holder' = [holder EXCEPT !.at = AfterFinish]
      BY DEF FinishLocal, Release, Goto
    <2>2. AfterFinish \in CopyPoints
      BY DEF AfterFinish, CopyPoints
    <2>3. holder \in Holder
      BY DEF IInv, TypeOK
    <2>4. QED BY <2>1, <2>2, <2>3, NobodyIsFree DEF Holder
  <1>5. QED BY <1>1, <1>2, <1>3, <1>4, MoveSafe

(* The three ways a copy step ends: complete, failed, or abandoned. *)
LEMMA CompleteSafe ==
    ASSUME IInv, TypeOK', NEW s, Complete(s), ~Free,
           UNCHANGED <<lastAttempt, seen, serverSent, account>>
    PROVE  SafetyParts'
  <1> DEFINE d == holder.draft
  <1>1. /\ d \in Drafts /\ row[d].stage = "Accepted"
        /\ row \in [Drafts -> Row] /\ row[d].attempt \in Attempts
    <2>1. d \in Drafts /\ row[d].stage = "Accepted"
      BY HolderAttempt DEF Complete, MayComplete, Stage, IInv
    <2>2. QED BY <2>1, RowAttempt DEF IInv, TypeOK
  <1>2. row' = [row EXCEPT ![d] =
                  [row[d] EXCEPT !.stage = "Complete", !.sent = s, !.raw = FALSE]]
    BY DEF Complete, SetRow
  <1>3. /\ \A e \in Drafts : row'[e].attempt = row[e].attempt
        /\ \A e \in Drafts \ {d} : row'[e].stage = row[e].stage
        /\ row'[d].stage = "Complete"
    BY <1>1, <1>2 DEF Row
  <1>4. AttemptsKept /\ SeenKept
    BY <1>1, <1>3 DEF AttemptsKept, SeenKept
  <1>5. Fits(row'[d].stage, seen'[row[d].attempt])
    BY <1>1, <1>3 DEF Fits, Waiting, IInv, StatusIsTrue
  <1>6. HolderIsAtItsRow'
    BY NobodyIsFree DEF Complete, Release, HolderIsAtItsRow, Free
  <1>7. QED BY <1>3, <1>4, <1>5, <1>6, StageStep

LEMMA CopyEndsSafe ==
    ASSUME IInv, TypeOK', CopyFails \/ Abandon,
           UNCHANGED <<lastAttempt, seen, serverSent, account>>
    PROVE  SafetyParts'
  <1>1. \A e \in Drafts : /\ row'[e].attempt = row[e].attempt
                          /\ row'[e].stage = row[e].stage
    <2>1. row \in [Drafts -> Row]
      BY DEF IInv, TypeOK
    <2>2. row' = row \/ row' = [row EXCEPT ![holder.draft].sent = "Uncertain"]
      BY DEF CopyFails, Abandon
    <2>3. QED BY <2>1, <2>2 DEF Row
  <1>2. holder'.at = "free"
    BY NobodyIsFree DEF CopyFails, Abandon, Release
  <1>3. AttemptsKept /\ SeenKept
    BY <1>1 DEF AttemptsKept, SeenKept
  <1>4. HolderIsAtItsRow'
    BY <1>2 DEF HolderIsAtItsRow, Free
  <1>5. QED BY <1>1, <1>3, <1>4, StageStep

(* A copy step that goes on leaves the stage of its row alone. *)
LEMMA CopyGoesOnSafe ==
    ASSUME IInv, TypeOK', ~Free, Stage = "Accepted",
           NEW at \in CopyPoints,
           holder'.at = at, holder'.draft = holder.draft,
           holder'.attempt = holder.attempt,
           \/ row' = row
           \/ \E s \in SentStates : row' = [row EXCEPT ![holder.draft].sent = s],
           UNCHANGED <<lastAttempt, seen, serverSent, account>>
    PROVE  SafetyParts'
  <1>1. \A e \in Drafts : /\ row'[e].attempt = row[e].attempt
                          /\ row'[e].stage = row[e].stage
    <2>1. row \in [Drafts -> Row]
      BY DEF IInv, TypeOK
    <2>2. CASE row' = row
      BY <2>2
    <2>3. ASSUME NEW s \in SentStates, row' = [row EXCEPT ![holder.draft].sent = s]
          PROVE  \A e \in Drafts : /\ row'[e].attempt = row[e].attempt
                                   /\ row'[e].stage = row[e].stage
      BY <2>1, <2>3 DEF Row
    <2>4. QED BY <2>2, <2>3
  <1>2. AttemptsKept /\ SeenKept
    BY <1>1 DEF AttemptsKept, SeenKept
  <1>3. QED BY <1>1, <1>2, MoveSafe

LEMMA CopySafe ==
    ASSUME IInv, TypeOK',
           StartCopy \/ FindCopy \/ BeginUpload \/ RecordUpload \/ RecordCopy
    PROVE  SafetyParts'
  <1>1. UNCHANGED <<lastAttempt, seen, serverSent, account>> /\ ~Free
    BY DEF StartCopy, FindCopy, BeginUpload, RecordUpload, RecordCopy, CopyUnchanged,
           Free
  <1>2. Stage = "Accepted"
    <2>1. holder.at \in CopyPoints
      BY DEF StartCopy, FindCopy, BeginUpload, RecordUpload, RecordCopy, CopyPoints
    <2>2. StageAt(holder.at) = {"Accepted"}
      BY <2>1 DEF StageAt, CopyPoints
    <2>3. QED BY <1>1, <2>2 DEF IInv, HolderIsAtItsRow
  <1>3. holder \in Holder
    BY DEF IInv, TypeOK
  <1>4. ASSUME NEW s, Complete(s) PROVE SafetyParts'
    BY <1>1, <1>4, CompleteSafe
  <1>5. CASE CopyFails \/ Abandon
    BY <1>1, <1>5, CopyEndsSafe
  <1>6. CASE StartCopy
    <2>1. CASE /\ holder' = [holder EXCEPT !.at = "find", !.sent = row[holder.draft].sent]
               /\ UNCHANGED row
      <3>1. /\ holder'.at = "find" /\ holder'.draft = holder.draft
            /\ holder'.attempt = holder.attempt
        BY <1>3, <2>1 DEF Holder
      <3>2. "find" \in CopyPoints
        BY DEF CopyPoints
      <3>3. QED BY <1>1, <1>2, <2>1, <3>1, <3>2, CopyGoesOnSafe
    <2>2. QED BY <1>4, <1>5, <1>6, <2>1 DEF StartCopy
  <1>7. ASSUME NEW at \in {"begin", "uploading"}, Goto(at),
               \/ row' = row
               \/ \E s \in SentStates : row' = [row EXCEPT ![holder.draft].sent = s]
        PROVE  SafetyParts'
    <2>1. /\ holder'.at = at /\ holder'.draft = holder.draft
          /\ holder'.attempt = holder.attempt
      BY <1>3, <1>7 DEF Goto, Holder
    <2>2. at \in CopyPoints
      BY <1>7 DEF CopyPoints
    <2>3. QED BY <1>1, <1>2, <1>7, <2>1, <2>2, CopyGoesOnSafe
  <1>8. CASE FindCopy
    <2>1. "Pending" \in SentStates /\ "begin" \in {"begin", "uploading"}
      BY DEF SentStates
    <2>2. \/ CopyFails
          \/ Complete("Saved")
          \/ /\ Goto("begin")
             /\ row' = row \/ row' = [row EXCEPT ![holder.draft].sent = "Pending"]
      BY <1>8 DEF FindCopy
    <2>3. QED BY <1>4, <1>5, <1>7, <2>1, <2>2
  <1>9. CASE BeginUpload
    <2>1. "Appending" \in SentStates /\ "uploading" \in {"begin", "uploading"}
      BY DEF SentStates
    <2>2. \/ CopyFails
          \/ /\ Goto("uploading")
             /\ row' = [row EXCEPT ![holder.draft].sent = "Appending"]
      BY <1>9 DEF BeginUpload
    <2>3. QED BY <1>5, <1>7, <2>1, <2>2
  <1>10. CASE RecordUpload \/ RecordCopy
    BY <1>4, <1>5, <1>10 DEF RecordUpload, RecordCopy
  <1>11. QED BY <1>6, <1>8, <1>9, <1>10

(* An upload of an accepted message, and the server's own copy of a          *)
(* delivered one, put only sent messages into the Sent folder.              *)
LEMMA ServerCopySafe ==
    ASSUME IInv, TypeOK', Upload \/ \E a \in Attempts : ServerSavesSent(a)
    PROVE  SafetyParts'
  <1>1. UNCHANGED <<row, lastAttempt, account>>
    BY DEF Upload, ServerSavesSent, CopyUnchanged, disk
  <1>2. SeenKept
    BY DEF Upload, ServerSavesSent, SeenKept, IInv, TypeOK, Seen
  <1>3. AttemptsKept
    BY <1>1 DEF AttemptsKept
  <1>4. ServerCopiesAreSent'
    <2>1. \A a \in serverSent : seen'[a].delivered \/ seen'[a].reviewed
      BY <1>2 DEF IInv, TypeOK, ServerCopiesAreSent, SeenKept
    <2>2. CASE Upload
      <3>1. /\ holder.attempt \in Attempts /\ holder.draft \in Drafts
            /\ row[holder.draft].attempt = holder.attempt
            /\ row[holder.draft].stage = "Accepted"
        BY <2>2, HolderAttempt
        DEF Upload, IInv, Free, HolderIsAtItsRow, StageAt, Current, Stage
      <3>2. seen[holder.attempt].delivered \/ seen[holder.attempt].reviewed
        BY <3>1 DEF IInv, StatusIsTrue
      <3>3. seen'[holder.attempt].delivered \/ seen'[holder.attempt].reviewed
        BY <1>2, <3>1, <3>2 DEF SeenKept
      <3>4. serverSent' \subseteq serverSent \cup {holder.attempt}
        BY <2>2 DEF Upload
      <3>5. QED BY <2>1, <3>3, <3>4 DEF ServerCopiesAreSent
    <2>3. ASSUME NEW a \in Attempts, ServerSavesSent(a) PROVE ServerCopiesAreSent'
      BY <2>1, <2>3 DEF ServerSavesSent, ServerCopiesAreSent
    <2>4. QED BY <2>2, <2>3
  <1>5. WaitingIsUnsubmitted'
    BY <1>1, <1>2, RowAttempt DEF IInv, WaitingIsUnsubmitted, SeenKept, Waiting
  <1>6. StatusIsTrue'
    <2> SUFFICES ASSUME NEW d \in Drafts, row[d].stage # "None"
                 PROVE  LET st == row[d].stage
                            o  == seen'[row[d].attempt] IN
                        /\ st \in {"Accepted", "Complete"} => o.delivered \/ o.reviewed
                        /\ st \in Waiting \cup {"Rejected"} => ~o.delivered
                        /\ st = "Released" => ~o.delivered \/ o.reviewed
      BY <1>1 DEF StatusIsTrue, Waiting
    <2>1. row[d].attempt \in Attempts
      BY RowAttempt DEF IInv
    <2>2. QED BY <1>2, <2>1 DEF IInv, StatusIsTrue, SeenKept
  <1>7. HolderIsAtItsRow'
    <2>1. CASE Upload
      <3>1. holder.at = "uploading" /\ ~Free
        BY <2>1 DEF Upload, Free
      <3>2. /\ holder'.draft = holder.draft /\ holder'.attempt = holder.attempt
            /\ holder'.at \in {"uploaded", "unacknowledged"}
        BY <2>1 DEF Upload, Goto, IInv, TypeOK, Holder
      <3>3. Current /\ Stage = "Accepted" /\ holder.attempt # 0
        BY <3>1 DEF IInv, HolderIsAtItsRow, StageAt
      <3>4. Current' /\ Stage' = "Accepted"
        BY <1>1, <3>2, <3>3 DEF Current, Stage
      <3>5. QED BY <3>2, <3>3, <3>4 DEF HolderIsAtItsRow, StageAt
    <2>2. CASE \E a \in Attempts : ServerSavesSent(a)
      <3>1. holder' = holder
        BY <2>2 DEF ServerSavesSent, memory
      <3>2. QED BY <1>1, <1>2, <1>3, <3>1, HolderStays
    <2>3. QED BY <2>1, <2>2
  <1>8. QED BY <1>2, <1>3, <1>4, <1>5, <1>6, <1>7, KeptParts DEF SafetyParts

LEMMA LookupSafe ==
    ASSUME IInv, TypeOK', LookupDelivery
    PROVE  SafetyParts'
  <1> DEFINE d == holder.draft
             a == holder.attempt
  <1>1. UNCHANGED <<lastAttempt, seen, serverSent, account>> /\ ~Free
    BY DEF LookupDelivery, Free
  <1>2. /\ d \in Drafts /\ a \in Attempts /\ a # 0
        /\ row[d].attempt = a /\ row[d].stage \in InReview
    BY <1>1, HolderAttempt
    DEF LookupDelivery, IInv, HolderIsAtItsRow, Current, Stage, StageAt
  <1>3. CASE Release /\ UNCHANGED row
    <2>1. AttemptsKept /\ SeenKept
      BY <1>1, <1>3 DEF AttemptsKept, SeenKept
    <2>2. HolderIsAtItsRow'
      BY <1>3, NobodyIsFree DEF Release, HolderIsAtItsRow, Free
    <2>3. QED BY <1>1, <1>3, <2>1, <2>2, StageStep
  <1>4. ASSUME NEW s \in {"Accepted", "Uncertain"}, SetStage(d, s),
               s = "Accepted" => a \in serverSent /\ Goto("finish"),
               s = "Uncertain" => Release
        PROVE  SafetyParts'
    <2>1. row' = [row EXCEPT ![d].stage = s] /\ row \in [Drafts -> Row]
      BY <1>4 DEF SetStage, SetRow, IInv, TypeOK
    <2>2. /\ \A e \in Drafts : row'[e].attempt = row[e].attempt
          /\ \A e \in Drafts \ {d} : row'[e].stage = row[e].stage
          /\ row'[d].stage = s
      BY <1>2, <2>1 DEF Row
    <2>3. AttemptsKept /\ SeenKept
      BY <1>1, <1>2, <1>4, <2>2 DEF AttemptsKept, SeenKept, InReview
    <2>4. Fits(row'[d].stage, seen'[row[d].attempt])
      BY <1>1, <1>2, <1>4, <2>2 DEF Fits, Waiting, IInv, ServerCopiesAreSent
    <2>5. HolderIsAtItsRow'
      <3>1. CASE s = "Uncertain"
        BY <1>4, <3>1, NobodyIsFree DEF Release, HolderIsAtItsRow, Free
      <3>2. CASE s = "Accepted"
        <4>1. holder'.at = "finish" /\ holder'.draft = d /\ holder'.attempt = a
          BY <1>4, <3>2 DEF Goto, IInv, TypeOK, Holder
        <4>2. QED
          BY <1>2, <2>2, <3>2, <4>1 DEF HolderIsAtItsRow, Current, Stage, StageAt
      <3>3. QED BY <3>1, <3>2
    <2>6. QED BY <1>1, <2>2, <2>3, <2>4, <2>5, StageStep
  <1>5. QED BY <1>3, <1>4 DEF LookupDelivery

(* A task that takes the account finds its row at the stage it needs. *)
LEMMA TakesHolder ==
    ASSUME IInv, TypeOK', NEW d \in Drafts, NEW goal, NEW at \in {"finish", "lookup"},
           holder'.at = at, holder'.draft = d, holder'.attempt = row[d].attempt,
           row[d].stage # "None",
           row'[d].attempt = row[d].attempt,
           row'[d].stage \in StageAt(at)
    PROVE  HolderIsAtItsRow'
  <1>1. row[d].attempt # 0
    BY RowAttempt DEF IInv, Attempts
  <1>2. QED BY <1>1 DEF HolderIsAtItsRow, Current, Stage

LEMMA RecoverSafe ==
    ASSUME IInv, TypeOK', NEW d \in Drafts,
           \/ CheckDelivery(d) \/ RepairOutgoing(d)
           \/ \E goal \in {"keep", "retry", "check"}, confirmed \in BOOLEAN :
                 RecoverCopy(d, goal, confirmed)
    PROVE  SafetyParts'
  <1>1. UNCHANGED <<row, lastAttempt, serverSent, account>>
    BY DEF CheckDelivery, RepairOutgoing, RecoverCopy, disk
  <1>2. SeenKept
    BY DEF CheckDelivery, RepairOutgoing, RecoverCopy, SeenKept, IInv, TypeOK, Seen
  <1>3. AttemptsKept
    BY <1>1 DEF AttemptsKept
  <1>4. HolderIsAtItsRow'
    <2>1. CASE UNCHANGED holder
      BY <1>1, <1>2, <1>3, <2>1, HolderStays
    <2>2. CASE CheckDelivery(d)
      <3>1. /\ holder'.at = "lookup" /\ holder'.draft = d
            /\ holder'.attempt = row[d].attempt /\ row[d].stage \in InReview
        BY <2>2 DEF CheckDelivery, Hold
      <3>2. row[d].stage # "None" /\ row'[d].stage \in StageAt("lookup")
        BY <1>1, <3>1 DEF StageAt, InReview
      <3>3. QED BY <1>1, <3>1, <3>2, TakesHolder
    <2>3. CASE /\ row[d].stage = "Accepted"
               /\ holder'.at = "finish" /\ holder'.draft = d
               /\ holder'.attempt = row[d].attempt
      <3>1. row[d].stage # "None" /\ row'[d].stage \in StageAt("finish")
        BY <1>1, <2>3 DEF StageAt
      <3>2. QED BY <1>1, <2>3, <3>1, TakesHolder
    <2>4. QED
      BY <2>1, <2>2, <2>3 DEF RepairOutgoing, NeedsRepair, RecoverCopy, Hold
  <1>5. QED BY <1>1, <1>2, <1>3, <1>4, StageStep

LEMMA CancelSafe ==
    ASSUME IInv, TypeOK', NEW d \in Drafts, CancelQueued(d)
    PROVE  SafetyParts'
  <1>1. /\ UNCHANGED <<lastAttempt, seen, serverSent, account, holder>>
        /\ row[d].stage \in Waiting
    BY DEF CancelQueued, Cancellable, memory
  <1>2. /\ \A e \in Drafts : row'[e].attempt = row[e].attempt
        /\ \A e \in Drafts \ {d} : row'[e].stage = row[e].stage
        /\ row'[d].stage = "Released"
    <2> DEFINE r == [row[d] EXCEPT !.stage = "Released", !.raw = FALSE, !.frozen = FALSE]
    <2>1. row \in [Drafts -> Row] /\ row[d] \in Row
      BY DEF IInv, TypeOK
    <2>2. r.attempt = row[d].attempt /\ r.stage = "Released"
      BY <2>1 DEF Row
    <2>3. row' = [row EXCEPT ![d] = r]
      BY DEF CancelQueued, SetRow
    <2> HIDE DEF r
    <2>4. QED BY <2>1, <2>2, <2>3
  <1>3. AttemptsKept /\ SeenKept
    BY <1>1, <1>2 DEF AttemptsKept, SeenKept, Waiting
  <1>4. HolderIsAtItsRow'
    BY <1>1, <1>2, <1>3, HolderStays DEF Waiting
  <1>5. row[d].attempt \in Attempts /\ seen[row[d].attempt].submits = 0
    BY <1>1, RowAttempt DEF IInv, WaitingIsUnsubmitted, Waiting
  <1>6. Fits(row'[d].stage, seen'[row[d].attempt])
    BY <1>1, <1>2, <1>5, UnsubmittedUndelivered DEF Fits, IInv, Waiting
  <1>7. QED BY <1>1, <1>2, <1>3, <1>4, <1>6, StageStep

LEMMA MarkSafe ==
    ASSUME IInv, TypeOK', NEW d \in Drafts, MarkSent(d)
    PROVE  SafetyParts'
  <1>1. /\ UNCHANGED <<lastAttempt, serverSent, account>>
        /\ row[d].stage \in InReview
        /\ row' = [row EXCEPT ![d].stage = "Accepted"]
        /\ seen' = [seen EXCEPT ![row[d].attempt].reviewed = TRUE]
        /\ row \in [Drafts -> Row] /\ seen \in [Attempts -> Seen]
    BY DEF MarkSent, SetStage, SetRow, IInv, TypeOK
  <1>2. /\ \A e \in Drafts : row'[e].attempt = row[e].attempt
        /\ \A e \in Drafts \ {d} : row'[e].stage = row[e].stage
        /\ row'[d].stage = "Accepted"
    BY <1>1 DEF Row
  <1>3. row[d].attempt \in Attempts
    BY <1>1, RowAttempt DEF IInv, InReview
  <1>4. SeenKept /\ seen'[row[d].attempt].reviewed
    BY <1>1, <1>3 DEF SeenKept, Seen
  <1>5. AttemptsKept
    BY <1>1, <1>2 DEF AttemptsKept, InReview
  <1>6. HolderIsAtItsRow'
    <2>1. /\ holder'.at = "finish" /\ holder'.draft = d
          /\ holder'.attempt = row[d].attempt
      BY DEF MarkSent, Hold
    <2>2. row[d].stage # "None" /\ row'[d].stage \in StageAt("finish")
      BY <1>1, <1>2 DEF StageAt, InReview
    <2>3. QED BY <1>2, <2>1, <2>2, TakesHolder
  <1>7. Fits(row'[d].stage, seen'[row[d].attempt])
    BY <1>2, <1>4 DEF Fits, Waiting
  <1>8. QED BY <1>1, <1>2, <1>4, <1>5, <1>6, <1>7, StageStep

LEMMA ReturnSafe ==
    ASSUME IInv, TypeOK', NEW d \in Drafts, NEW confirmed \in BOOLEAN,
           ReturnDraft(d, confirmed)
    PROVE  SafetyParts'
  <1>1. /\ UNCHANGED <<lastAttempt, serverSent, account, holder>> /\ Free
        /\ row[d].stage \in InReview \cup {"Rejected"}
        /\ confirmed \/ row[d].stage = "Rejected"
        /\ seen' = IF confirmed THEN [seen EXCEPT ![row[d].attempt].reviewed = TRUE]
                                ELSE seen
        /\ row \in [Drafts -> Row] /\ seen \in [Attempts -> Seen]
    BY DEF ReturnDraft, memory, IInv, TypeOK
  <1>2. /\ \A e \in Drafts : row'[e].attempt = row[e].attempt
        /\ \A e \in Drafts \ {d} : row'[e].stage = row[e].stage
        /\ row'[d].stage = "Released"
    <2> DEFINE r == [row[d] EXCEPT !.stage = "Released", !.raw = FALSE]
    <2>1. row[d] \in Row
      BY <1>1
    <2>2. r.attempt = row[d].attempt /\ r.stage = "Released"
      BY <2>1 DEF Row
    <2>3. row' = [row EXCEPT ![d] = r]
      BY DEF ReturnDraft, SetRow
    <2> HIDE DEF r
    <2>4. QED BY <1>1, <2>2, <2>3
  <1>3. row[d].attempt \in Attempts
    BY <1>1, RowAttempt DEF IInv, InReview
  <1>4. SeenKept /\ (confirmed => seen'[row[d].attempt].reviewed)
    BY <1>1, <1>3 DEF SeenKept, Seen
  <1>5. AttemptsKept
    BY <1>1, <1>2 DEF AttemptsKept, InReview
  <1>6. HolderIsAtItsRow'
    BY <1>1 DEF HolderIsAtItsRow, Free
  <1>7. ~confirmed => ~seen'[row[d].attempt].delivered
    BY <1>1, <1>3 DEF IInv, StatusIsTrue, InReview
  <1>8. Fits(row'[d].stage, seen'[row[d].attempt])
    BY <1>2, <1>4, <1>7 DEF Fits, Waiting
  <1>9. QED BY <1>1, <1>2, <1>4, <1>5, <1>6, <1>8, StageStep

LEMMA ReviewSafe ==
    ASSUME IInv, TypeOK', NEW d \in Drafts, Review(d) \/ RepairOutgoing(d)
    PROVE  SafetyParts'
  BY CancelSafe, MarkSafe, ReturnSafe, RecoverSafe DEF Review

----------------------------------------------------------------------------
(* The steps that change which attempt a row belongs to. *)

(* The row of a draft that may be sent again holds no delivered attempt      *)
(* that was not reviewed.                                                  *)
LEMMA ReadmissibleIsDone ==
    ASSUME IInv, NEW d \in Drafts, Readmissible(d), row[d].stage # "None"
    PROVE  ~seen[row[d].attempt].delivered \/ seen[row[d].attempt].reviewed
  BY DEF IInv, StatusIsTrue, Readmissible

(* A row that is emptied frees its draft; nothing else changes. *)
LEMMA DeleteSafe ==
    ASSUME IInv, TypeOK', NEW d \in Drafts, DeleteDraft(d)
    PROVE  SafetyParts'
  <1>1. /\ UNCHANGED <<lastAttempt, seen, serverSent, account, holder>>
        /\ row \in [Drafts -> Row] /\ seen \in [Attempts -> Seen]
    BY DEF DeleteDraft, memory, IInv, TypeOK
  <1>2. CASE UNCHANGED row
    <2>1. AttemptsKept /\ SeenKept
      BY <1>1, <1>2 DEF AttemptsKept, SeenKept
    <2>2. HolderIsAtItsRow'
      BY <1>1, <1>2, <2>1, HolderStays
    <2>3. QED BY <1>1, <1>2, <2>1, <2>2, StageStep
  <1>3. CASE row[d].stage \in {"Rejected", "Released"} /\ row' = [row EXCEPT ![d] = NoRow]
    <2>1. \A e \in Drafts \ {d} : row'[e] = row[e]
      BY <1>1, <1>3
    <2>2. row'[d].attempt = 0 /\ row'[d].stage = "None"
      BY <1>1, <1>3 DEF NoRow
    <2>3. RowsAreDrawn'
      <3>1. lastAttempt >= 0
        BY DEF IInv, TypeOK
      <3>2. QED BY <1>1, <2>1, <2>2, <3>1 DEF IInv, RowsAreDrawn
    <2>4. FreshIsUntouched' /\ SubmittedOnce' /\ NoUnreviewedResend' /\ ServerCopiesAreSent'
      BY <1>1 DEF IInv, FreshIsUntouched, SubmittedOnce, NoUnreviewedResend,
                  ServerCopiesAreSent
    <2>5. WaitingIsUnsubmitted'
      BY <1>1, <2>1, <2>2 DEF IInv, WaitingIsUnsubmitted, Waiting
    <2>6. StatusIsTrue'
      BY <1>1, <2>1, <2>2 DEF IInv, StatusIsTrue, Waiting
    <2>7. RowIsLatest'
      BY <1>1, <2>1, <2>2 DEF IInv, RowIsLatest
    <2>8. DeliveredKeepsRow'
      <3> SUFFICES ASSUME NEW a \in Attempts, seen[a].delivered, ~seen[a].reviewed
                   PROVE  LET e == seen[a].draft IN
                          row'[e].attempt = a \/ (account.removed /\ row'[e].attempt = 0)
        BY <1>1 DEF DeliveredKeepsRow
      <3>1. seen[a].draft \in Drafts
        BY <1>1 DEF Seen
      <3>2. row[d].attempt # a
        BY <1>3, ReadmissibleIsDone DEF Readmissible
      <3>3. CASE seen[a].draft = d
        BY <2>2, <3>2, <3>3 DEF IInv, DeliveredKeepsRow
      <3>4. CASE seen[a].draft # d
        BY <2>1, <3>1, <3>4 DEF IInv, DeliveredKeepsRow
      <3>5. QED BY <3>3, <3>4
    <2>9. HolderIsAtItsRow'
      <3>1. CASE Free
        BY <1>1, <3>1 DEF HolderIsAtItsRow, Free
      <3>2. CASE ~Free
        <4>1. holder.draft \in Drafts /\ holder.draft # d
          BY <1>3, <3>2, HolderAttempt, HolderStage DEF IInv, Stage
        <4>2. QED
          BY <1>1, <2>1, <3>2, <4>1 DEF IInv, HolderIsAtItsRow, Free, Current, Stage
      <3>3. QED BY <3>1, <3>2
    <2>10. QED BY <2>3, <2>4, <2>5, <2>6, <2>7, <2>8, <2>9 DEF SafetyParts
  <1>4. QED BY <1>2, <1>3 DEF DeleteDraft

LEMMA AdmitSafe ==
    ASSUME IInv, TypeOK', AdmitOutgoing
    PROVE  SafetyParts'
  <1> DEFINE d == sending.draft
             b == lastAttempt + 1
             new == [attempt |-> b, revision |-> sending.revision,
                     stage |-> "Preparing", sent |-> "Pending",
                     config |-> sending.config, frozen |-> TRUE, raw |-> FALSE]
  <1>1. /\ UNCHANGED <<serverSent, account, holder>>
        /\ row \in [Drafts -> Row] /\ seen \in [Attempts -> Seen]
        /\ d \in Drafts /\ lastAttempt \in 0 .. MaxAttempts
    BY DEF AdmitOutgoing, IInv, TypeOK
  <1>2. CASE UNCHANGED <<row, lastAttempt, seen>>
    <2>1. AttemptsKept /\ SeenKept
      BY <1>1, <1>2 DEF AttemptsKept, SeenKept
    <2>2. HolderIsAtItsRow'
      BY <1>1, <1>2, <2>1, HolderStays
    <2>3. QED BY <1>1, <1>2, <2>1, <2>2, StageStep
  <1>3. CASE /\ AdmitChecks(d, sending.revision)
             /\ lastAttempt < MaxAttempts
             /\ lastAttempt' = b
             /\ row' = [row EXCEPT ![d] = new]
             /\ seen' = [seen EXCEPT ![b].draft = d]
    <2>1. b \in Attempts /\ b > lastAttempt /\ b # 0
      BY <1>1, <1>3, BoundsAssumption DEF Attempts
    <2>2. /\ \A e \in Drafts \ {d} : row'[e] = row[e]
          /\ row'[d].attempt = b /\ row'[d].stage = "Preparing"
      BY <1>1, <1>3
    <2>3. /\ \A a \in Attempts : /\ seen'[a].submits = seen[a].submits
                                 /\ seen'[a].delivered = seen[a].delivered
                                 /\ seen'[a].reviewed = seen[a].reviewed
          /\ \A a \in Attempts \ {b} : seen'[a].draft = seen[a].draft
          /\ seen'[b].draft = d
      BY <1>1, <1>3, <2>1 DEF Seen
    <2>4. seen[b].submits = 0 /\ ~seen[b].delivered
      BY <2>1 DEF IInv, FreshIsUntouched
    <2>5. \A e \in Drafts : row[e].attempt \in 0 .. MaxAttempts /\ row[e].attempt < b
      <3> TAKE e \in Drafts
      <3>1. row[e].attempt \in 0 .. MaxAttempts /\ row[e].attempt <= lastAttempt
        BY <1>1 DEF Row, IInv, RowsAreDrawn
      <3>2. QED BY <1>1, <3>1
    <2>6. RowsAreDrawn'
      <3> SUFFICES ASSUME NEW e \in Drafts
                   PROVE  /\ row'[e].attempt <= b
                          /\ row'[e].stage = "None" <=> row'[e].attempt = 0
                          /\ row'[e].attempt # 0 => seen'[row'[e].attempt].draft = e
        BY <1>3 DEF RowsAreDrawn
      <3>1. CASE e = d
        BY <1>1, <2>1, <2>2, <2>3, <3>1
      <3>2. CASE e # d
        <4>1. row'[e] = row[e] /\ row[e].attempt < b
          BY <2>2, <2>5, <3>2
        <4>2. row[e].attempt # 0 => row[e].attempt \in Attempts \ {b}
          BY <2>5, <4>1, BoundsAssumption DEF Attempts
        <4>3. QED BY <1>1, <2>3, <2>5, <4>1, <4>2 DEF IInv, RowsAreDrawn
      <3>3. QED BY <3>1, <3>2
    <2>7. FreshIsUntouched' /\ SubmittedOnce'
      BY <1>1, <1>3, <2>3 DEF IInv, FreshIsUntouched, SubmittedOnce, Attempts
    <2>8. ServerCopiesAreSent'
      BY <1>1, <2>3 DEF IInv, TypeOK, ServerCopiesAreSent
    <2>9. ASSUME NEW e \in Drafts \ {d}, row[e].stage # "None"
          PROVE  row[e].attempt \in Attempts
      BY <2>9, RowAttempt DEF IInv
    <2>10. WaitingIsUnsubmitted'
      BY <2>1, <2>2, <2>3, <2>4, <2>9 DEF IInv, WaitingIsUnsubmitted, Waiting
    <2>11. StatusIsTrue'
      <3> SUFFICES ASSUME NEW e \in Drafts, row'[e].stage # "None"
                   PROVE  LET st == row'[e].stage
                              o  == seen'[row'[e].attempt] IN
                          /\ st \in {"Accepted", "Complete"} => o.delivered \/ o.reviewed
                          /\ st \in Waiting \cup {"Rejected"} => ~o.delivered
                          /\ st = "Released" => ~o.delivered \/ o.reviewed
        BY DEF StatusIsTrue, Waiting
      <3>1. CASE e = d
        BY <2>1, <2>2, <2>3, <2>4, <3>1
      <3>2. CASE e # d
        BY <2>2, <2>3, <2>9, <3>2 DEF IInv, StatusIsTrue
      <3>3. QED BY <3>1, <3>2
    <2>12. RowIsLatest'
      <3> SUFFICES ASSUME NEW c \in Attempts, NEW e \in Drafts,
                          c <= b, seen'[c].draft = e, row'[e].attempt # 0
                   PROVE  c <= row'[e].attempt
        BY <1>3 DEF RowIsLatest
      <3>1. CASE e = d
        BY <2>2, <3>1
      <3>2. CASE e # d
        <4>1. c # b
          BY <2>3, <3>2
        <4>2. c <= lastAttempt
          BY <1>1, <4>1 DEF Attempts
        <4>3. QED BY <2>2, <2>3, <3>2, <4>1, <4>2 DEF IInv, RowIsLatest
      <3>3. QED BY <3>1, <3>2
    <2>13. ASSUME NEW a \in Attempts, seen[a].delivered, ~seen[a].reviewed
           PROVE  a # b /\ seen[a].draft \in Drafts \ {d}
      <3>1. a # b
        BY <2>4, <2>13
      <3>2. seen[a].draft \in Drafts
        BY <1>1 DEF Seen
      <3>3. row[d].attempt # a
        <4>1. CASE row[d].stage = "None"
          BY <1>1, <2>13, <4>1 DEF IInv, RowsAreDrawn, Attempts
        <4>2. CASE row[d].stage # "None"
          BY <1>1, <1>3, <2>13, <4>2, ReadmissibleIsDone DEF AdmitChecks
        <4>3. QED BY <4>1, <4>2
      <3>4. ~account.removed
        BY <1>3 DEF AdmitChecks, Allowed
      <3>5. seen[a].draft # d
        BY <2>13, <3>3, <3>4 DEF IInv, DeliveredKeepsRow
      <3>6. QED BY <3>1, <3>2, <3>5
    <2>14. DeliveredKeepsRow'
      BY <1>1, <2>2, <2>3, <2>13 DEF IInv, DeliveredKeepsRow
    <2>15. NoUnreviewedResend'
      <3> SUFFICES ASSUME NEW a \in Attempts, NEW c \in Attempts, a < c,
                          seen'[a].draft = seen'[c].draft,
                          seen'[a].delivered, seen'[c].submits > 0
                   PROVE  seen'[a].reviewed
        BY DEF NoUnreviewedResend
      <3>1. a # b /\ c # b
        BY <2>3, <2>4
      <3>2. QED BY <2>3, <3>1 DEF IInv, NoUnreviewedResend
    <2>16. HolderIsAtItsRow'
      <3>1. CASE Free
        BY <1>1, <3>1 DEF HolderIsAtItsRow, Free
      <3>2. CASE ~Free
        <4>1. holder.draft \in Drafts /\ holder.attempt \in Attempts
          BY <3>2, HolderAttempt DEF IInv
        <4>2. holder.draft # d
          BY <1>3, <3>2, HolderStage DEF IInv, Stage, AdmitChecks, Readmissible
        <4>3. QED
          BY <1>1, <2>2, <2>3, <3>2, <4>1, <4>2
          DEF IInv, HolderIsAtItsRow, Free, Current, Stage
      <3>3. QED BY <3>1, <3>2
    <2>17. QED
      BY <2>6, <2>7, <2>8, <2>10, <2>11, <2>12, <2>14, <2>15, <2>16 DEF SafetyParts
  <1>4. QED BY <1>2, <1>3 DEF AdmitOutgoing, SetRow

(* The one step that hands a message to the mail server. *)
LEMMA SubmitSafe ==
    ASSUME IInv, TypeOK', Submit
    PROVE  SafetyParts'
  <1> DEFINE a == holder.attempt
             d == holder.draft
  <1>1. /\ UNCHANGED <<row, lastAttempt, serverSent, account>>
        /\ row \in [Drafts -> Row] /\ seen \in [Attempts -> Seen]
        /\ holder \in Holder
        /\ holder.at = "claimed" /\ ~Free
    BY DEF Submit, disk, Free, IInv, TypeOK
  <1>2. /\ a \in Attempts /\ d \in Drafts /\ a # 0
        /\ row[d].attempt = a /\ row[d].stage = "Submitting"
        /\ seen[a].submits = 0
    BY <1>1, HolderAttempt DEF IInv, HolderIsAtItsRow, Current, Stage, StageAt
  <1>3. seen[a].draft = d /\ a <= lastAttempt
    BY <1>2 DEF IInv, RowsAreDrawn
  <1>4. PICK answer \in {"accepted", "refused", "unknown"}, took \in BOOLEAN :
          /\ answer = "accepted" => took
          /\ answer = "refused" => ~took
          /\ holder' = [holder EXCEPT !.at = answer]
          /\ seen' = [seen EXCEPT ![a].submits = @ + 1, ![a].delivered = @ \/ took]
    BY DEF Submit, Goto
  <1>5. ~seen[a].delivered
    BY <1>2, UnsubmittedUndelivered DEF IInv
  <1>6. /\ \A c \in Attempts : /\ seen'[c].draft = seen[c].draft
                               /\ seen'[c].reviewed = seen[c].reviewed
        /\ \A c \in Attempts \ {a} : seen'[c] = seen[c]
        /\ seen'[a].submits = 1
        /\ seen'[a].delivered <=> took
    <2> DEFINE o == [seen[a] EXCEPT !.submits = @ + 1, !.delivered = @ \/ took]
    <2>1. seen' = [seen EXCEPT ![a] = o]
      BY <1>1, <1>2, <1>4
    <2>2. seen[a] \in Seen
      BY <1>1, <1>2
    <2>3. o.draft = seen[a].draft /\ o.reviewed = seen[a].reviewed /\ o.submits = 1
      BY <1>2, <2>2 DEF Seen
    <2>4. o.delivered <=> took
      BY <1>5, <2>2 DEF Seen
    <2> HIDE DEF o
    <2>5. QED BY <1>1, <1>2, <2>1, <2>3, <2>4
  <1>7. ASSUME NEW e \in Drafts, row[e].attempt = a
        PROVE  e = d
    BY <1>2, <1>3, <1>7 DEF IInv, RowsAreDrawn
  <1>8. ASSUME NEW e \in Drafts, row[e].stage \notin {"None", "Submitting"}
        PROVE  /\ row[e].attempt \in Attempts \ {a}
               /\ seen'[row[e].attempt] = seen[row[e].attempt]
    BY <1>2, <1>6, <1>7, <1>8, RowAttempt DEF IInv
  <1>9. RowsAreDrawn' /\ RowIsLatest'
    <2>1. \A e \in Drafts : row[e].attempt # 0 => row[e].attempt \in Attempts
      BY RowAttempt DEF IInv, RowsAreDrawn
    <2>2. QED BY <1>1, <1>6, <2>1 DEF IInv, RowsAreDrawn, RowIsLatest
  <1>10. FreshIsUntouched'
    <2> SUFFICES ASSUME NEW c \in Attempts
                 PROVE  /\ c > lastAttempt => seen'[c].submits = 0
                        /\ seen'[c].delivered => seen'[c].submits > 0
      BY <1>1 DEF FreshIsUntouched
    <2>1. CASE c = a
      <3>1. ~(c > lastAttempt)
        BY <1>2, <1>3, <2>1 DEF IInv, TypeOK, Attempts
      <3>2. QED BY <1>6, <2>1, <3>1
    <2>2. CASE c # a
      BY <1>6, <2>2 DEF IInv, FreshIsUntouched
    <2>3. QED BY <2>1, <2>2
  <1>11. SubmittedOnce'
    BY <1>6 DEF IInv, SubmittedOnce
  <1>12. WaitingIsUnsubmitted' /\ StatusIsTrue'
    BY <1>1, <1>8 DEF IInv, WaitingIsUnsubmitted, StatusIsTrue, Waiting
  <1>13. ServerCopiesAreSent'
    BY <1>1, <1>5, <1>6 DEF IInv, TypeOK, ServerCopiesAreSent
  <1>14. DeliveredKeepsRow'
    <2> SUFFICES ASSUME NEW c \in Attempts, seen'[c].delivered, ~seen'[c].reviewed
                 PROVE  LET e == seen'[c].draft IN
                        row'[e].attempt = c \/ (account'.removed /\ row'[e].attempt = 0)
      BY DEF DeliveredKeepsRow
    <2>1. CASE c = a
      BY <1>1, <1>2, <1>3, <1>6, <2>1
    <2>2. CASE c # a
      BY <1>1, <1>6, <2>2 DEF IInv, DeliveredKeepsRow
    <2>3. QED BY <2>1, <2>2
  <1>15. NoUnreviewedResend'
    <2> SUFFICES ASSUME NEW b \in Attempts, NEW c \in Attempts, b < c,
                        seen[b].draft = seen[c].draft,
                        seen'[b].delivered, seen'[c].submits > 0
                 PROVE  seen'[b].reviewed
      BY <1>6 DEF NoUnreviewedResend
    <2>1. CASE c = a
      (* A later attempt is submitted: the earlier one has lost its row. *)
      <3>1. b # a /\ seen[b].delivered
        BY <1>6, <2>1 DEF Attempts
      <3>2. seen[b].reviewed
        BY <1>2, <1>3, <2>1, <3>1 DEF IInv, DeliveredKeepsRow
      <3>3. QED BY <1>6, <3>2
    <2>2. CASE b = a
      (* An earlier attempt is not submitted after a later one. *)
      <3>1. c # a /\ seen[c].submits > 0
        BY <1>6, <2>2 DEF Attempts
      <3>2. c <= lastAttempt
        BY <3>1 DEF IInv, FreshIsUntouched, TypeOK, Attempts
      <3>3. c <= a
        BY <1>2, <1>3, <2>2, <3>2 DEF IInv, RowIsLatest
      <3>4. QED BY <2>2, <3>3 DEF Attempts
    <2>3. CASE b # a /\ c # a
      BY <1>6, <2>3 DEF IInv, NoUnreviewedResend
    <2>4. QED BY <2>1, <2>2, <2>3
  <1>16. HolderIsAtItsRow'
    <2>1. /\ holder'.draft = d /\ holder'.attempt = a
          /\ holder'.at = answer
      BY <1>1, <1>4 DEF Holder
    <2>2. Current' /\ Stage' = "Submitting"
      BY <1>1, <1>2, <2>1 DEF Current, Stage
    <2>3. StageAt(answer) = {"Submitting"}
      BY DEF StageAt
    <2>4. /\ holder'.at # "claimed"
          /\ holder'.at = "accepted" => seen'[a].delivered
          /\ holder'.at = "refused" => ~seen'[a].delivered
      BY <1>4, <1>6, <2>1
    <2>5. QED BY <1>2, <2>1, <2>2, <2>3, <2>4 DEF HolderIsAtItsRow
  <1>17. QED
    BY <1>9, <1>10, <1>11, <1>12, <1>13, <1>14, <1>15, <1>16 DEF SafetyParts

LEMMA RemovalSafe ==
    ASSUME IInv, TypeOK', FinishRemoval
    PROVE  SafetyParts'
  <1>1. /\ UNCHANGED <<lastAttempt, seen, serverSent, holder>>
        /\ Free /\ account.removed /\ account'.removed
        /\ \A d \in Drafts : row'[d] = NoRow
    BY DEF FinishRemoval, Drained, memory, IInv, TypeOK
  <1>2. \A d \in Drafts : row'[d].attempt = 0 /\ row'[d].stage = "None"
    BY <1>1 DEF NoRow
  <1>3. RowsAreDrawn' /\ RowIsLatest'
    BY <1>1, <1>2 DEF RowsAreDrawn, RowIsLatest, IInv, TypeOK
  <1>4. FreshIsUntouched' /\ SubmittedOnce' /\ NoUnreviewedResend' /\ ServerCopiesAreSent'
    BY <1>1 DEF IInv, FreshIsUntouched, SubmittedOnce, NoUnreviewedResend,
                ServerCopiesAreSent
  <1>5. WaitingIsUnsubmitted' /\ StatusIsTrue'
    BY <1>2 DEF WaitingIsUnsubmitted, StatusIsTrue, Waiting
  <1>6. DeliveredKeepsRow'
    BY <1>1, <1>2 DEF DeliveredKeepsRow, IInv, TypeOK, Seen
  <1>7. HolderIsAtItsRow'
    BY <1>1 DEF HolderIsAtItsRow, Free
  <1>8. QED BY <1>3, <1>4, <1>5, <1>6, <1>7 DEF SafetyParts

----------------------------------------------------------------------------
(* The theorems. *)

LEMMA InitSafe == Init => IInv
  <1> SUFFICES ASSUME Init PROVE IInv
    OBVIOUS
  <1>1. TypeOK
    BY InitType
  <1>2. \A a \in Attempts : seen[a].submits = 0 /\ ~seen[a].delivered
    BY DEF Init, Unseen
  <1>3. \A d \in Drafts : row[d].attempt = 0 /\ row[d].stage = "None"
    BY DEF Init, NoRow
  <1>4. Free
    BY NobodyIsFree DEF Init, Free
  <1>5. serverSent = {} /\ lastAttempt = 0
    BY DEF Init
  <1>6. QED
    BY <1>1, <1>2, <1>3, <1>4, <1>5
    DEF IInv, RowsAreDrawn, FreshIsUntouched, WaitingIsUnsubmitted, HolderIsAtItsRow,
        ServerCopiesAreSent, RowIsLatest, DeliveredKeepsRow, StatusIsTrue,
        SubmittedOnce, NoUnreviewedResend, Waiting

LEMMA NextSafe == IInv /\ [Next]_vars => IInv'
  <1> SUFFICES ASSUME IInv, [Next]_vars PROVE IInv'
    OBVIOUS
  <1>1. TypeOK'
    BY NextTypes DEF IInv
  <1>2. SafetyParts'
    <2>1. CASE HolderStep
      BY <1>1, <2>1, SubmitSafe, RecordSafe, FinishSafe, CopySafe, ServerCopySafe,
         LookupSafe DEF HolderStep
    <2>2. CASE UNCHANGED vars
      BY <1>1, <2>2, QuietSafe
    <2>3. ASSUME NEW d \in Drafts,
                 \/ \E r \in Revisions : SaveDraft(d, r) \/ QueueDraft(d, r)
                 \/ DeleteDraft(d) \/ ReadPreparation(d) \/ ClaimOutgoing(d)
                 \/ Review(d) \/ RepairOutgoing(d)
          PROVE  SafetyParts'
      BY <1>1, <2>3, QuietSafe, DeleteSafe, ClaimSafe, ReviewSafe
    <2>4. ASSUME NEW a \in Attempts,
                 FinishPreparation(a) \/ SyncSent(a) \/ ServerSavesSent(a)
          PROVE  SafetyParts'
      BY <1>1, <2>4, PreparationSafe, QuietSafe, ServerCopySafe
    <2>5. CASE \/ AdmitOutgoing
               \/ \E c \in Configs : SaveAccount(c)
               \/ StartFolderJob \/ CloseFolderJob
               \/ AdmitRemoval \/ FinishRemoval
               \/ Crash \/ StorageFails
      BY <1>1, <2>5, AdmitSafe, RemovalSafe, QuietSafe
    <2>6. QED BY <2>1, <2>2, <2>3, <2>4, <2>5 DEF Next
  <1>3. QED BY <1>1, <1>2 DEF SafetyParts, IInv

(* The inductive invariant holds in every state of the outbox. *)
THEOREM Invariant == Spec => []IInv
  BY InitSafe, NextSafe, PTL DEF Spec

(* The journal, the lock and the server keep their types: in particular no   *)
(* step leaves a row in a state the schema could not hold.                  *)
THEOREM TypeCorrect == Spec => []TypeOK
  <1>1. IInv => TypeOK
    BY DEF IInv
  <1>2. QED BY <1>1, Invariant, PTL

(* One Send is one delivery: no attempt follows a delivered one unreviewed. *)
THEOREM NoResend == Spec => []NoUnreviewedResend
  <1>1. IInv => NoUnreviewedResend
    BY DEF IInv
  <1>2. QED BY <1>1, Invariant, PTL

(* No attempt reaches SMTP twice, whatever crashes and retries happen.      *)
THEOREM Once == Spec => []SubmittedOnce
  <1>1. IInv => SubmittedOnce
    BY DEF IInv
  <1>2. QED BY <1>1, Invariant, PTL

(* The status of every message is true of the mail server.                  *)
THEOREM StatusTrue == Spec => []StatusIsTrue
  <1>1. IInv => StatusIsTrue
    BY DEF IInv
  <1>2. QED BY <1>1, Invariant, PTL

(* The row a task works on stays until the task has recorded its result.    *)
THEOREM HolderKeeps == Spec => []HolderKeepsRow
  <1>1. IInv => HolderKeepsRow
    BY DEF IInv, HolderIsAtItsRow, HolderKeepsRow
  <1>2. QED BY <1>1, Invariant, PTL

----------------------------------------------------------------------------
(* Folder operations, texts and uploads: the parts of RecoveryInv. *)

(* A holder works on an unsettled row, so a folder operation that found      *)
(* every row settled found the account free as well.                       *)
LEMMA SettledIsFree ==
    ASSUME IInv, \A d \in Drafts : row[d].stage \in Settled \cup {"None"}
    PROVE  Free
  <1> SUFFICES ASSUME ~Free PROVE FALSE
    OBVIOUS
  <1>1. holder.draft \in Drafts /\ Stage \in {"Submitting", "Uncertain", "Accepted"}
    BY HolderAttempt, HolderStage DEF IInv
  <1>2. QED BY <1>1 DEF Stage, Settled

LEMMA FolderKept ==
    ASSUME IInv, FolderExclusion, [Next]_vars
    PROVE  FolderExclusion'
  <1> SUFFICES ASSUME account'.folderJob PROVE FolderExclusion'
    BY DEF FolderExclusion
  <1>1. CASE StartFolderJob
    <2>1. Free /\ \A d \in Drafts : row[d].stage \in Settled \cup {"None"}
      BY <1>1, SettledIsFree DEF StartFolderJob
    <2>2. QED BY <1>1, <2>1 DEF StartFolderJob, FolderExclusion, Free, memory
  <1>2. CASE ~StartFolderJob
    <2> DEFINE Idle == Free /\ \A d \in Drafts : row[d].stage \in Settled \cup {"None"}
    <2>1. account \in [config : Configs, removed : BOOLEAN, folderJob : BOOLEAN]
      BY DEF IInv, TypeOK
    <2>2. CASE UNCHANGED vars
      BY <2>2 DEF vars, disk, memory, FolderExclusion, Free
    <2>3. CASE HolderStep
      <3>1. ~Free /\ UNCHANGED account
        BY <2>3 DEF HolderStep, Submit, RecordDelivery, FinishLocal, StartCopy, FindCopy,
           BeginUpload, Upload, RecordUpload, RecordCopy, LookupDelivery, CopyUnchanged,
           disk, Free
      <3>2. QED BY <3>1 DEF FolderExclusion
    <2>4. ASSUME account.folderJob, Idle,
                 holder' = holder \/ holder' = Nobody,
                 \A d \in Drafts : row'[d] \in {row[d], NoRow}
          PROVE  FolderExclusion'
      BY <2>4, NobodyIsFree DEF FolderExclusion, Free, NoRow
    <2>5. ASSUME account.folderJob PROVE Idle
      BY <2>5 DEF FolderExclusion
    <2>6. ASSUME NEW d \in Drafts,
                 \/ \E r \in Revisions : SaveDraft(d, r) \/ QueueDraft(d, r)
                 \/ DeleteDraft(d) \/ ReadPreparation(d) \/ ClaimOutgoing(d)
          PROVE  FolderExclusion'
      BY <2>4, <2>5, <2>6
      DEF SaveDraft, QueueDraft, DeleteDraft, ReadPreparation, ClaimOutgoing, FolderIdle,
          disk, memory, IInv, TypeOK
    <2>7. ASSUME NEW d \in Drafts, Review(d) \/ RepairOutgoing(d)
          PROVE  FolderExclusion'
      BY <2>4, <2>5, <2>7
      DEF Review, CancelQueued, MarkSent, CheckDelivery, ReturnDraft, RecoverCopy,
          RepairOutgoing, Cancellable, FolderIdle, Waiting, Settled, disk, memory
    <2>8. CASE AdmitOutgoing
      BY <2>4, <2>5, <2>8 DEF AdmitOutgoing, AdmitChecks, FolderIdle
    <2>9. ASSUME NEW a \in Attempts, FinishPreparation(a) PROVE FolderExclusion'
      <3>1. account.folderJob /\ UNCHANGED holder
        BY <2>9 DEF FinishPreparation
      <3>2. \A d \in Drafts : row[d].stage # "Preparing"
        BY <2>5, <3>1 DEF Settled
      <3>3. UNCHANGED row
        BY <2>9, <3>2 DEF FinishPreparation, StillPreparing
      <3>4. QED BY <2>4, <2>5, <3>1, <3>3
    <2>10. ASSUME NEW a \in Attempts, SyncSent(a) \/ ServerSavesSent(a)
           PROVE  FolderExclusion'
      BY <2>4, <2>5, <2>10 DEF SyncSent, ServerSavesSent, disk, memory
    <2>11. ASSUME \/ \E c \in Configs : SaveAccount(c)
                  \/ CloseFolderJob \/ AdmitRemoval \/ FinishRemoval
           PROVE  FolderExclusion'
      BY <2>1, <2>4, <2>5, <2>11
      DEF SaveAccount, CloseFolderJob, AdmitRemoval, FinishRemoval, memory
    <2>12. CASE Crash \/ StorageFails
      BY <2>4, <2>5, <2>12 DEF Crash, StorageFails, Release, disk
    <2>13. QED
      BY <1>2, <2>2, <2>3, <2>6, <2>7, <2>8, <2>9, <2>10, <2>11, <2>12 DEF Next
  <1>3. QED BY <1>1, <1>2

----------------------------------------------------------------------------
(* The text of each attempt. *)

TextHeld(d) ==
    LET r == row[d] IN
    /\ r.stage = "Preparing" => r.frozen
    /\ r.stage \in {"Queued", "Accepted"} \cup InReview => r.raw
    /\ r.stage \in Waiting \cup InReview \cup {"Rejected", "Released"}
          => drafts[d] >= r.revision
    /\ r.stage = "Accepted"
          => drafts[d] >= r.revision \/ r.attempt \in localSent
    /\ r.stage = "Complete" => r.attempt \in localSent \cup cachedSent

(* A row that a step leaves alone keeps its text where the copies stay. *)
LEMMA TextStays ==
    ASSUME TypeOK, TypeOK', TextIsKept, NEW d \in Drafts, row'[d] = row[d],
           drafts'[d] >= drafts[d] \/ row[d].stage \in {"None", "Complete"}
              \/ (row[d].stage = "Accepted" /\ row[d].attempt \in localSent'),
           row[d].attempt \in localSent
              => \/ row[d].attempt \in localSent'
                 \/ row[d].stage = "Complete" /\ row[d].attempt \in cachedSent'
                 \/ row[d].stage \notin {"Accepted", "Complete"},
           cachedSent \subseteq cachedSent'
    PROVE  TextHeld(d)'
  <1>1. /\ drafts[d] \in Nat /\ drafts'[d] \in Nat
        /\ row[d].revision \in Nat
    BY BoundsAssumption DEF TypeOK, Row
  <1>2. TextHeld(d)
    BY DEF TextIsKept, TextHeld
  <1>3. QED BY <1>1, <1>2 DEF TextHeld, Waiting, InReview

(* How a row may change when the drafts and the copies do not: the message   *)
(* bytes go with a stage that needs them no more.                          *)
Carries(r, s) ==
    /\ s.attempt = r.attempt /\ s.revision = r.revision
    /\ s.stage \in {"Queued", "Accepted"} \cup InReview => s.raw
    /\ s.stage \in {"Queued", "Rejected", "Released"} \cup InReview
          => r.stage \in Waiting \cup InReview \cup {"Rejected", "Released"}
    /\ s.stage = "Accepted" => r.stage \in {"Accepted"} \cup InReview
    /\ s.stage \notin {"Preparing", "Complete"}

LEMMA TextMoves ==
    ASSUME TypeOK, TypeOK', TextIsKept, UNCHANGED <<drafts, localSent, cachedSent>>,
           NEW d \in Drafts, NEW r, row' = [row EXCEPT ![d] = r], Carries(row[d], r)
    PROVE  TextIsKept'
  <1>1. row'[d] = r /\ \A e \in Drafts \ {d} : row'[e] = row[e]
    BY DEF TypeOK
  <1>2. drafts \in [Drafts -> Nat]
    BY BoundsAssumption DEF TypeOK
  <1>3. \A e \in Drafts \ {d} : TextHeld(e)'
    BY <1>1, <1>2, TextStays
  <1>4. TextHeld(d)
    BY DEF TextIsKept, TextHeld
  <1>5. TextHeld(d)'
    BY <1>1, <1>4 DEF TextHeld, Carries, Waiting, InReview
  <1>6. QED BY <1>3, <1>5 DEF TextIsKept, TextHeld

LEMMA TextQuiet ==
    ASSUME TypeOK, TypeOK', TextIsKept,
           UNCHANGED <<drafts, row, localSent>>, cachedSent \subseteq cachedSent'
    PROVE  TextIsKept'
  <1>1. drafts \in [Drafts -> Nat]
    BY BoundsAssumption DEF TypeOK
  <1>2. \A d \in Drafts : TextHeld(d)'
    BY <1>1, TextStays
  <1>3. QED BY <1>2 DEF TextIsKept, TextHeld

LEMMA TextDrafts ==
    ASSUME IInv, TypeOK', TextIsKept, NEW d \in Drafts, NEW r \in Revisions,
           SaveDraft(d, r) \/ QueueDraft(d, r) \/ DeleteDraft(d)
    PROVE  TextIsKept'
  <1>1. /\ drafts \in [Drafts -> Nat] /\ TypeOK /\ row \in [Drafts -> Row]
        /\ UNCHANGED <<localSent, cachedSent>>
    BY BoundsAssumption
    DEF IInv, TypeOK, SaveDraft, QueueDraft, DeleteDraft
  <1>2. ASSUME NEW e \in Drafts PROVE TextHeld(e)'
    <2>1. CASE SaveDraft(d, r) \/ QueueDraft(d, r)
      <3>1. row' = row /\ drafts' = SavedDraft(d, r)
        BY <2>1 DEF SaveDraft, QueueDraft
      <3>2. drafts'[e] >= drafts[e]
        BY <1>1, <3>1 DEF SavedDraft, Revisions
      <3>3. QED BY <1>1, <3>1, <3>2, TextStays
    <2>2. CASE DeleteDraft(d)
      <3>1. CASE e # d
        BY <1>1, <2>2, <3>1, TextStays DEF DeleteDraft
      <3>2. CASE e = d /\ row'[d] = NoRow
        BY <3>2 DEF TextHeld, NoRow, Waiting, InReview
      <3>3. CASE e = d /\ row' = row
        <4>1. row[d].stage \in {"None", "Complete"}
          BY <1>1, <2>2, <3>3
          DEF DeleteDraft, Waiting, InReview, Row, DeliveryStates, NoRow
        <4>2. QED BY <1>1, <3>3, <4>1, TextStays
      <3>4. QED BY <1>1, <2>2, <3>1, <3>2, <3>3 DEF DeleteDraft
    <2>3. QED BY <2>1, <2>2
  <1>3. QED BY <1>2 DEF TextIsKept, TextHeld

LEMMA TextAdmitted == IInv /\ TypeOK' /\ TextIsKept /\ AdmitOutgoing => TextIsKept'
  <1> SUFFICES ASSUME IInv, TypeOK', TextIsKept, AdmitOutgoing PROVE TextIsKept'
    OBVIOUS
  <1>1. UNCHANGED <<drafts, localSent, cachedSent>> /\ TypeOK
    BY DEF AdmitOutgoing, IInv
  <1>2. PICK d \in Drafts : d = sending.draft
    BY <1>1 DEF TypeOK
  <1> DEFINE new == [attempt |-> lastAttempt + 1, revision |-> sending.revision,
                     stage |-> "Preparing", sent |-> "Pending",
                     config |-> sending.config, frozen |-> TRUE, raw |-> FALSE]
  <1>3. CASE UNCHANGED row
    BY <1>1, <1>3, TextQuiet
  <1>4. CASE drafts[d] = sending.revision /\ row' = [row EXCEPT ![d] = new]
    <2>1. row'[d] = new /\ \A e \in Drafts \ {d} : row'[e] = row[e]
      BY <1>1, <1>4 DEF TypeOK
    <2>2. drafts \in [Drafts -> Nat]
      BY <1>1, BoundsAssumption DEF TypeOK
    <2>3. \A e \in Drafts \ {d} : TextHeld(e)'
      BY <1>1, <2>1, <2>2, TextStays
    <2>4. TextHeld(d)'
      BY <1>1, <1>4, <2>1, <2>2 DEF TextHeld, InReview
    <2>5. QED BY <2>3, <2>4 DEF TextIsKept, TextHeld
  <1>5. QED BY <1>2, <1>3, <1>4 DEF AdmitOutgoing, AdmitChecks, SetRow

LEMMA TextPrepared ==
    ASSUME IInv, TypeOK', TextIsKept, NEW a \in Attempts, FinishPreparation(a)
    PROVE  TextIsKept'
  <1>1. UNCHANGED <<drafts, localSent, cachedSent>> /\ TypeOK
    BY DEF FinishPreparation, IInv
  <1>2. CASE UNCHANGED row
    BY <1>1, <1>2, TextQuiet
  <1>3. ASSUME NEW d \in Drafts, row[d].stage = "Preparing",
               NEW r \in {[row[d] EXCEPT !.stage = "Queued", !.raw = TRUE,
                                         !.frozen = FALSE],
                          [row[d] EXCEPT !.stage = "Rejected", !.frozen = FALSE]},
               row' = [row EXCEPT ![d] = r]
        PROVE  TextIsKept'
    <2>1. row[d] \in Row
      BY <1>1 DEF TypeOK
    <2>2. Carries(row[d], r)
      BY <1>3, <2>1 DEF Carries, Row, Waiting, InReview
    <2>3. QED BY <1>1, <1>3, <2>2, TextMoves
  <1>4. QED BY <1>2, <1>3 DEF FinishPreparation, StillPreparing, SetRow

(* A stage that changes alone. *)
LEMMA TextStaged ==
    ASSUME IInv, TypeOK', TextIsKept, UNCHANGED <<drafts, localSent, cachedSent>>,
           NEW d \in Drafts, NEW s, SetStage(d, s),
           \/ row[d].stage = "Queued" /\ s \in {"Submitting", "Rejected"}
           \/ row[d].stage \in InReview /\ s \in {"Accepted", "Rejected"} \cup InReview
    PROVE  TextIsKept'
  <1>1. TypeOK /\ row[d] \in Row /\ row \in [Drafts -> Row]
    BY DEF IInv, TypeOK
  <1>2. row[d].raw
    BY DEF TextIsKept
  <1>3. Carries(row[d], [row[d] EXCEPT !.stage = s])
    BY <1>1, <1>2 DEF Carries, Row, Waiting, InReview
  <1>4. row' = [row EXCEPT ![d] = [row[d] EXCEPT !.stage = s]]
    BY <1>1 DEF SetStage, SetRow
  <1>5. QED BY <1>1, <1>3, <1>4, TextMoves

LEMMA TextDelivered ==
    ASSUME IInv, TypeOK', TextIsKept,
           (\E d \in Drafts : ClaimOutgoing(d)) \/ RecordDelivery \/ LookupDelivery
    PROVE  TextIsKept'
  <1>1. UNCHANGED <<drafts, localSent, cachedSent>> /\ TypeOK
    BY DEF ClaimOutgoing, RecordDelivery, LookupDelivery, IInv
  <1>2. ASSUME NEW d \in Drafts, ClaimOutgoing(d) PROVE TextIsKept'
    BY <1>1, <1>2, TextStaged DEF ClaimOutgoing, Claimable, ClaimedStage
  <1>3. CASE UNCHANGED row
    BY <1>1, <1>3, TextQuiet
  <1>4. CASE RecordDelivery \/ LookupDelivery
    <2>1. holder.draft \in Drafts /\ row[holder.draft].stage \in InReview
      BY <1>4, HolderAttempt
      DEF RecordDelivery, LookupDelivery, IInv, Free, HolderIsAtItsRow, Stage, StageAt,
          InReview
    <2>2. Outcome(holder.at) \in {"Accepted", "Rejected"} \cup InReview
      BY DEF Outcome, InReview
    <2>3. QED
      BY <1>1, <1>3, <1>4, <2>1, <2>2, TextStaged
      DEF RecordDelivery, LookupDelivery, InReview
  <1>5. QED BY <1>2, <1>4

LEMMA TextFinished == IInv /\ TypeOK' /\ TextIsKept /\ FinishLocal => TextIsKept'
  <1> SUFFICES ASSUME IInv, TypeOK', TextIsKept, FinishLocal PROVE TextIsKept'
    OBVIOUS
  <1>1. UNCHANGED <<row, cachedSent>> /\ TypeOK
    BY DEF FinishLocal, IInv
  <1>2. PICK d \in Drafts : d = holder.draft
    BY <1>1 DEF TypeOK, Holder
  <1>3. row[d].attempt = holder.attempt /\ row[d].stage = "Accepted"
    BY <1>2 DEF FinishLocal, IInv, Free, HolderIsAtItsRow, StageAt, Current, Stage
  <1>4. CASE UNCHANGED <<drafts, localSent>>
    BY <1>1, <1>4, TextQuiet
  <1>5. CASE /\ localSent' = localSent \cup {holder.attempt}
             /\ drafts' = [drafts EXCEPT ![d] = IF @ > row[d].revision THEN @ ELSE 0]
    <2>1. drafts \in [Drafts -> Nat] /\ \A e \in Drafts \ {d} : drafts'[e] = drafts[e]
      BY <1>1, <1>5, BoundsAssumption DEF TypeOK
    <2>2. \A e \in Drafts \ {d} : TextHeld(e)'
      BY <1>1, <1>5, <2>1, TextStays
    <2>3. TextHeld(d)'
      BY <1>1, <1>3, <1>5, TextStays
    <2>4. QED BY <2>2, <2>3 DEF TextIsKept, TextHeld
  <1>6. QED BY <1>2, <1>4, <1>5 DEF FinishLocal

(* Only one row is of an attempt. *)
LEMMA AttemptsDiffer ==
    ASSUME IInv, NEW d \in Drafts, NEW e \in Drafts, row[d].attempt # 0,
           row[e].attempt = row[d].attempt
    PROVE  e = d
  BY DEF IInv, RowsAreDrawn

LEMMA TextCompleted ==
    ASSUME IInv, TypeOK', TextIsKept, ~Free, UNCHANGED <<drafts, cachedSent>>,
           NEW s, Complete(s)
    PROVE  TextIsKept'
  <1>0. PICK d \in Drafts : d = holder.draft
    BY DEF IInv, TypeOK, Holder
  <1>1. /\ TypeOK /\ row[d] \in Row /\ row \in [Drafts -> Row]
        /\ row[d].stage = "Accepted" /\ row[d].attempt = holder.attempt
        /\ holder.attempt \in localSent /\ row[d].attempt # 0
    <2>1. /\ row[d].stage = "Accepted" /\ row[d].attempt = holder.attempt
          /\ holder.attempt \in localSent
      BY <1>0 DEF Complete, MayComplete, Stage, Current
    <2>2. row[d].attempt # 0
      BY <2>1 DEF IInv, RowsAreDrawn
    <2>3. QED BY <2>1, <2>2 DEF IInv, TypeOK
  <1>2. /\ row'[d] = [row[d] EXCEPT !.stage = "Complete", !.sent = s, !.raw = FALSE]
        /\ \A e \in Drafts \ {d} : row'[e] = row[e]
    BY <1>0, <1>1 DEF Complete, SetRow
  <1>3. row'[d].attempt = holder.attempt /\ row'[d].stage = "Complete"
    BY <1>1, <1>2 DEF Row
  <1>4. /\ localSent \ {holder.attempt} \subseteq localSent'
        /\ holder.attempt \in localSent' \cup cachedSent'
    BY <1>0, <1>1, <1>3 DEF Complete, Reconciled
  <1>5. ASSUME NEW e \in Drafts \ {d} PROVE TextHeld(e)'
    <2>1. row[e].attempt # holder.attempt
      BY <1>1, AttemptsDiffer
    <2>2. drafts'[e] >= drafts[e]
      BY <1>1, BoundsAssumption DEF TypeOK
    <2>3. QED BY <1>1, <1>2, <1>4, <2>1, <2>2, TextStays
  <1>6. TextHeld(d)'
    BY <1>3, <1>4 DEF TextHeld, Waiting, InReview
  <1>7. QED BY <1>5, <1>6 DEF TextIsKept, TextHeld

LEMMA TextCopied ==
    ASSUME IInv, TypeOK', TextIsKept,
           StartCopy \/ FindCopy \/ BeginUpload \/ Upload \/ RecordUpload \/ RecordCopy
    PROVE  TextIsKept'
  <1>1. UNCHANGED <<drafts, cachedSent>> /\ ~Free /\ TypeOK
    BY DEF StartCopy, FindCopy, BeginUpload, Upload, RecordUpload, RecordCopy,
           CopyUnchanged, Free, IInv
  <1>2. /\ holder.draft \in Drafts /\ row[holder.draft] \in Row
        /\ row[holder.draft].stage = "Accepted" /\ row \in [Drafts -> Row]
    BY HolderAttempt
    DEF StartCopy, FindCopy, BeginUpload, Upload, RecordUpload, RecordCopy,
        Free, IInv, TypeOK, HolderIsAtItsRow, StageAt, Stage
  <1>3. ASSUME NEW s, row' = [row EXCEPT ![holder.draft].sent = s], UNCHANGED localSent
        PROVE  TextIsKept'
    <2>1. row[holder.draft].raw
      BY <1>2 DEF TextIsKept
    <2>2. Carries(row[holder.draft], [row[holder.draft] EXCEPT !.sent = s])
      BY <1>2, <2>1 DEF Carries, Row, Waiting, InReview
    <2>3. row' = [row EXCEPT ![holder.draft] = [row[holder.draft] EXCEPT !.sent = s]]
      BY <1>2, <1>3
    <2>4. QED BY <1>1, <1>2, <1>3, <2>2, <2>3, TextMoves
  <1>4. CASE UNCHANGED <<row, localSent>>
    BY <1>1, <1>4, TextQuiet
  <1>5. CASE CopyFails \/ Abandon
    BY <1>3, <1>4, <1>5 DEF CopyFails, Abandon
  <1>6. ASSUME NEW s, Complete(s) PROVE TextIsKept'
    BY <1>1, <1>6, TextCompleted
  <1>7. CASE StartCopy
    BY <1>4, <1>5, <1>6, <1>7 DEF StartCopy
  <1>8. CASE FindCopy
    BY <1>3, <1>4, <1>5, <1>6, <1>8 DEF FindCopy
  <1>9. CASE BeginUpload
    BY <1>3, <1>4, <1>5, <1>9 DEF BeginUpload
  <1>10. CASE Upload
    BY <1>4, <1>10 DEF Upload
  <1>11. CASE RecordUpload \/ RecordCopy
    BY <1>5, <1>6, <1>11 DEF RecordUpload, RecordCopy
  <1>12. QED BY <1>7, <1>8, <1>9, <1>10, <1>11

LEMMA TextReviewed ==
    ASSUME IInv, TypeOK', TextIsKept, NEW d \in Drafts, Review(d) \/ RepairOutgoing(d)
    PROVE  TextIsKept'
  <1>1. /\ UNCHANGED <<drafts, localSent, cachedSent>> /\ TypeOK
        /\ row[d] \in Row /\ row \in [Drafts -> Row]
    BY DEF Review, CancelQueued, MarkSent, CheckDelivery, ReturnDraft, RecoverCopy,
           RepairOutgoing, disk, IInv, TypeOK
  <1>2. CASE UNCHANGED row
    BY <1>1, <1>2, TextQuiet
  <1>3. CASE CancelQueued(d)
    <2>1. Carries(row[d], [row[d] EXCEPT !.stage = "Released", !.raw = FALSE,
                                         !.frozen = FALSE])
      BY <1>1, <1>3 DEF CancelQueued, Cancellable, Carries, Row, Waiting, InReview
    <2>2. QED BY <1>1, <1>3, <2>1, TextMoves DEF CancelQueued, SetRow
  <1>4. ASSUME NEW confirmed \in BOOLEAN, ReturnDraft(d, confirmed) PROVE TextIsKept'
    <2>1. Carries(row[d], [row[d] EXCEPT !.stage = "Released", !.raw = FALSE])
      BY <1>1, <1>4 DEF ReturnDraft, Carries, Row, Waiting, InReview
    <2>2. QED BY <1>1, <1>4, <2>1, TextMoves DEF ReturnDraft, SetRow
  <1>5. CASE MarkSent(d)
    BY <1>1, <1>5, TextStaged DEF MarkSent
  <1>6. QED
    BY <1>2, <1>3, <1>4, <1>5
    DEF Review, CheckDelivery, RecoverCopy, RepairOutgoing, disk

LEMMA TextSynced ==
    ASSUME IInv, TypeOK', TextIsKept, NEW a \in Attempts, SyncSent(a)
    PROVE  TextIsKept'
  <1>1. /\ UNCHANGED <<drafts, row>> /\ TypeOK /\ cachedSent' = cachedSent \cup {a}
        /\ drafts \in [Drafts -> Nat]
    BY BoundsAssumption DEF SyncSent, IInv, TypeOK
  <1>2. CASE localSent' = localSent
    BY <1>1, <1>2, TextQuiet
  <1>3. ASSUME localSent' = localSent \ {a},
               NEW c \in Drafts, row[c].attempt = a, row[c].stage = "Complete"
        PROVE  TextIsKept'
    <2>1. ASSUME NEW e \in Drafts PROVE TextHeld(e)'
      <3>1. row[e].attempt = a => row[e].stage = "Complete"
        BY <1>3, AttemptsDiffer DEF Attempts
      <3>2. QED BY <1>1, <1>3, <3>1, TextStays
    <2>2. QED BY <2>1 DEF TextIsKept, TextHeld
  <1>4. QED BY <1>2, <1>3 DEF SyncSent

LEMMA TextKept ==
    ASSUME IInv, TypeOK', TextIsKept, [Next]_vars
    PROVE  TextIsKept'
  <1>1. ASSUME \/ \E d \in Drafts : ReadPreparation(d)
               \/ Submit
               \/ \E a \in Attempts : ServerSavesSent(a)
               \/ \E c \in Configs : SaveAccount(c)
               \/ StartFolderJob \/ CloseFolderJob \/ AdmitRemoval
               \/ Crash \/ StorageFails \/ UNCHANGED vars
        PROVE  TextIsKept'
    <2>1. UNCHANGED <<drafts, row, localSent, cachedSent>>
      BY <1>1
      DEF ReadPreparation, Submit, ServerSavesSent, SaveAccount, StartFolderJob,
          CloseFolderJob, AdmitRemoval, Crash, StorageFails, vars, disk, memory
    <2>2. QED BY <2>1, TextQuiet DEF IInv
  <1>2. CASE FinishRemoval
    BY <1>2 DEF FinishRemoval, TextIsKept, NoRow, Waiting, InReview
  <1>3. ASSUME NEW d \in Drafts,
               \/ \E r \in Revisions : SaveDraft(d, r) \/ QueueDraft(d, r)
               \/ DeleteDraft(d)
        PROVE  TextIsKept'
    <2>1. 1 \in Revisions
      BY BoundsAssumption DEF Revisions
    <2>2. QED BY <1>3, <2>1, TextDrafts
  <1>4. QED
    BY <1>1, <1>2, <1>3, TextAdmitted, TextPrepared, TextDelivered, TextFinished,
       TextCopied, TextReviewed, TextSynced
    DEF Next, HolderStep

----------------------------------------------------------------------------
(* The uploads of each attempt. *)

UploadsKept ==
    /\ \A a \in Attempts : /\ seen'[a].uploads = seen[a].uploads
                           /\ seen'[a].confirmed >= seen[a].confirmed
    /\ lastAttempt' >= lastAttempt

UploadParts == UploadedOnce /\ UploadsAreCounted /\ HolderCountsUploads

LEMMA CoveredStays ==
    ASSUME TypeOK, TypeOK', UploadsKept, NEW a \in Attempts, Covered(a)
    PROVE  Covered(a)'
  <1>1. /\ seen[a].uploads \in Nat /\ seen[a].confirmed \in Nat
        /\ seen'[a].uploads \in Nat /\ seen'[a].confirmed \in Nat
    BY DEF TypeOK, Seen
  <1>2. QED BY <1>1 DEF Covered, UploadsKept

(* A step that uploads nothing, where a row becomes Pending only if one more *)
(* upload is covered.                                                       *)
LEMMA UploadStep ==
    ASSUME IInv, TypeOK', UploadParts, UploadsKept, HolderCountsUploads',
           \A d \in Drafts :
               row'[d].attempt # 0 /\ row'[d].sent = "Pending"
                  => \/ row'[d].attempt = row[d].attempt /\ row[d].sent = "Pending"
                     \/ Covered(row'[d].attempt)
    PROVE  UploadParts'
  <1>1. UploadedOnce'
    <2> SUFFICES ASSUME NEW a \in Attempts
                 PROVE  seen'[a].uploads <= 1 + seen'[a].confirmed
      BY DEF UploadedOnce
    <2>1. /\ seen[a].uploads \in Nat /\ seen[a].confirmed \in Nat
          /\ seen'[a].confirmed \in Nat
      BY DEF IInv, TypeOK, Seen
    <2>2. QED BY <2>1 DEF UploadParts, UploadedOnce, UploadsKept
  <1>2. \A a \in Attempts : a > lastAttempt' => seen'[a].uploads = 0
    <2>1. lastAttempt \in Nat /\ lastAttempt' \in Nat
      BY BoundsAssumption DEF IInv, TypeOK
    <2>2. QED
      BY <2>1 DEF UploadParts, UploadsAreCounted, UploadsKept, Attempts
  <1>3. ASSUME NEW d \in Drafts, row'[d].attempt # 0, row'[d].sent = "Pending"
        PROVE  seen'[row'[d].attempt].uploads <= seen'[row'[d].attempt].confirmed
    <2>1. PICK a \in Attempts : a = row'[d].attempt
      BY <1>3, BoundsAssumption, SMTT(30) DEF TypeOK, Row, Attempts
    <2>2. Covered(a)
      BY <1>3, <2>1 DEF UploadParts, UploadsAreCounted
    <2>3. Covered(a)'
      BY <2>2, CoveredStays DEF IInv
    <2>4. QED BY <2>1, <2>3 DEF Covered
  <1>4. UploadsAreCounted'
    BY <1>2, <1>3 DEF UploadsAreCounted, Covered
  <1>5. QED BY <1>1, <1>4 DEF UploadParts

(* The holder's part after a step that takes it nowhere near an upload. *)
LEMMA HolderCounts ==
    ASSUME IInv, TypeOK', HolderCountsUploads, UploadsKept,
           \/ holder'.at \in {"free", "begin", "uploaded", "unacknowledged", "record"}
           \/ /\ ~holder'.confirmed
              /\ holder'.at \notin {"find", "uploading"}
           \/ /\ holder' = holder
              /\ row'[holder.draft].sent = row[holder.draft].sent
    PROVE  HolderCountsUploads'
  <1>1. CASE holder'.at \in {"free", "begin", "uploaded", "unacknowledged", "record"}
    BY <1>1 DEF HolderCountsUploads
  <1>2. CASE ~holder'.confirmed /\ holder'.at \notin {"find", "uploading"}
    BY <1>2 DEF HolderCountsUploads
  <1>3. CASE /\ ~Free /\ holder' = holder
             /\ row'[holder.draft].sent = row[holder.draft].sent
    <2>1. holder.attempt \in Attempts
      BY <1>3, HolderAttempt DEF IInv
    <2>2. PICK a \in Attempts : a = holder.attempt
      BY <2>1
    <2>3. Covered(a) => Covered(a)'
      BY CoveredStays DEF IInv
    <2>4. Covered(holder.attempt) => Covered(holder.attempt)'
      BY <1>3, <2>2, <2>3 DEF Covered
    <2>5. QED BY <1>3, <2>4 DEF HolderCountsUploads, CheckOnly
  <1>4. QED BY <1>1, <1>2, <1>3 DEF Free

(* Steps that keep what every row says of its attempt and of its copy. *)
LEMMA UploadQuiet ==
    ASSUME IInv, TypeOK', UploadParts, UploadsKept, HolderCountsUploads',
           \A d \in Drafts : /\ row'[d].attempt = row[d].attempt
                             /\ row'[d].sent = row[d].sent
    PROVE  UploadParts'
  BY UploadStep

LEMMA UploadOthers ==
    ASSUME IInv, TypeOK', UploadParts,
           \/ \E d \in Drafts, r \in Revisions : SaveDraft(d, r) \/ QueueDraft(d, r)
           \/ \E d \in Drafts : ReadPreparation(d)
           \/ \E a \in Attempts : SyncSent(a) \/ ServerSavesSent(a)
           \/ \E c \in Configs : SaveAccount(c)
           \/ StartFolderJob \/ CloseFolderJob \/ AdmitRemoval
           \/ Crash \/ StorageFails \/ UNCHANGED vars
    PROVE  UploadParts'
  <1>1. UNCHANGED <<row, seen, lastAttempt>> /\ (holder' = holder \/ holder' = Nobody)
    BY DEF SaveDraft, QueueDraft, ReadPreparation, SyncSent, ServerSavesSent, SaveAccount,
        StartFolderJob, CloseFolderJob, AdmitRemoval, Crash, StorageFails, Release,
        vars, disk, memory
  <1>2. UploadsKept
    <2>1. seen \in [Attempts -> Seen] /\ lastAttempt \in Nat
      BY BoundsAssumption DEF IInv, TypeOK
    <2>2. QED BY <1>1, <2>1 DEF UploadsKept, Seen
  <1>3. HolderCountsUploads'
    BY <1>1, <1>2, NobodyIsFree, HolderCounts DEF UploadParts
  <1>4. QED BY <1>1, <1>2, <1>3, UploadQuiet

(* A row that a step outside the copying changes keeps its attempt and what  *)
(* it says of the copy.                                                     *)
LEMMA UploadRow ==
    ASSUME IInv, TypeOK', UploadParts, UNCHANGED <<seen, lastAttempt>>,
           NEW d \in Drafts, NEW r \in Row, row' = [row EXCEPT ![d] = r],
           r.attempt = row[d].attempt, r.sent = row[d].sent,
           \/ holder' = holder
           \/ ~holder'.confirmed /\ holder'.at \notin {"find", "uploading"}
    PROVE  UploadParts'
  <1>1. row \in [Drafts -> Row] /\ holder.draft \in Drafts
    BY DEF IInv, TypeOK, Holder
  <1>2. \A e \in Drafts : row'[e].attempt = row[e].attempt /\ row'[e].sent = row[e].sent
    BY <1>1
  <1>3. UploadsKept
    <2>1. seen \in [Attempts -> Seen] /\ lastAttempt \in Nat
      BY BoundsAssumption DEF IInv, TypeOK
    <2>2. QED BY <2>1 DEF UploadsKept, Seen
  <1>4. HolderCountsUploads'
    BY <1>1, <1>2, <1>3, HolderCounts DEF UploadParts
  <1>5. QED BY <1>2, <1>3, <1>4, UploadQuiet

LEMMA UploadPrepared ==
    ASSUME IInv, TypeOK', UploadParts,
           \/ \E a \in Attempts : FinishPreparation(a)
           \/ \E d \in Drafts : CancelQueued(d)
    PROVE  UploadParts'
  <1>1. UNCHANGED <<seen, lastAttempt, holder>> /\ row \in [Drafts -> Row]
    BY DEF FinishPreparation, CancelQueued, memory, IInv, TypeOK
  <1>2. CASE UNCHANGED row
    <2>1. UploadsKept
      BY <1>1, BoundsAssumption DEF UploadsKept, IInv, TypeOK, Seen
    <2>2. QED BY <1>1, <1>2, <2>1, HolderCounts, UploadQuiet DEF UploadParts
  <1>3. ASSUME NEW d \in Drafts,
               NEW r \in {[row[d] EXCEPT !.stage = "Queued", !.raw = TRUE,
                                         !.frozen = FALSE],
                          [row[d] EXCEPT !.stage = "Rejected", !.frozen = FALSE],
                          [row[d] EXCEPT !.stage = "Released", !.raw = FALSE,
                                         !.frozen = FALSE]},
               row' = [row EXCEPT ![d] = r]
        PROVE  UploadParts'
    <2>1. row[d] \in Row
      BY <1>1
    <2>2. r \in Row /\ r.attempt = row[d].attempt /\ r.sent = row[d].sent
      BY <2>1, ZenonT(60) DEF Row, DeliveryStates
    <2>3. QED BY <1>1, <1>3, <2>2, UploadRow
  <1>4. QED BY <1>2, <1>3 DEF FinishPreparation, CancelQueued, SetRow

(* A stage that changes alone. *)
LEMMA UploadStaged ==
    ASSUME IInv, TypeOK', UploadParts, UNCHANGED <<seen, lastAttempt>>,
           NEW d \in Drafts, NEW s \in DeliveryStates, SetStage(d, s),
           \/ holder' = holder
           \/ ~holder'.confirmed /\ holder'.at \notin {"find", "uploading"}
    PROVE  UploadParts'
  <1>1. row[d] \in Row
    BY DEF IInv, TypeOK
  <1>2. DEFINE r == [row[d] EXCEPT !.stage = s]
  <1>3. r \in Row /\ r.attempt = row[d].attempt /\ r.sent = row[d].sent
    BY <1>1 DEF Row
  <1>4. row' = [row EXCEPT ![d] = r]
    BY DEF SetStage, SetRow
  <1> HIDE DEF r
  <1>5. QED BY <1>3, <1>4, UploadRow

LEMMA UploadDelivered ==
    ASSUME IInv, TypeOK', UploadParts,
           (\E d \in Drafts : ClaimOutgoing(d)) \/ RecordDelivery \/ LookupDelivery
    PROVE  UploadParts'
  <1>1. UNCHANGED <<seen, lastAttempt>> /\ holder \in Holder
    BY DEF ClaimOutgoing, RecordDelivery, LookupDelivery, IInv, TypeOK
  <1>2. ASSUME NEW d \in Drafts, ClaimOutgoing(d) PROVE UploadParts'
    <2>1. ClaimedStage(d) \in DeliveryStates
      BY DEF ClaimedStage, DeliveryStates
    <2>2. \/ holder' = holder
          \/ ~holder'.confirmed /\ holder'.at \notin {"find", "uploading"}
      BY <1>2 DEF ClaimOutgoing, Hold
    <2>3. QED BY <1>1, <1>2, <2>1, <2>2, UploadStaged DEF ClaimOutgoing
  <1>3. CASE RecordDelivery \/ LookupDelivery
    <2>1. /\ holder.at \in {"accepted", "refused", "unknown", "lookup"}
          /\ ~holder.confirmed /\ holder.draft \in Drafts
      BY <1>1, <1>3
      DEF RecordDelivery, LookupDelivery, UploadParts, HolderCountsUploads, Holder
    <2>2. holder' = Nobody \/ holder' = [holder EXCEPT !.at = "finish"]
      BY <1>3 DEF RecordDelivery, LookupDelivery, Goto, Release
    <2>3. ~holder'.confirmed /\ holder'.at \notin {"find", "uploading"}
      BY <1>1, <2>1, <2>2 DEF Nobody, Holder
    <2>4. Outcome(holder.at) \in DeliveryStates
      BY DEF Outcome, DeliveryStates
    <2>5. CASE UNCHANGED row
      <3>1. UploadsKept
        BY <1>1, BoundsAssumption DEF UploadsKept, IInv, TypeOK, Seen
      <3>2. QED BY <2>3, <2>5, <3>1, HolderCounts, UploadQuiet DEF UploadParts
    <2>6. ASSUME NEW s \in DeliveryStates, SetStage(holder.draft, s)
          PROVE  UploadParts'
      BY <1>1, <2>1, <2>3, <2>6, UploadStaged
    <2>7. QED
      BY <1>3, <2>4, <2>5, <2>6 DEF RecordDelivery, LookupDelivery, DeliveryStates
  <1>4. QED BY <1>2, <1>3

LEMMA UploadSubmitted == IInv /\ TypeOK' /\ UploadParts /\ Submit => UploadParts'
  <1> SUFFICES ASSUME IInv, TypeOK', UploadParts, Submit PROVE UploadParts'
    OBVIOUS
  <1>1. /\ UNCHANGED <<row, lastAttempt>> /\ holder \in Holder
        /\ seen \in [Attempts -> Seen] /\ lastAttempt \in Nat
    BY BoundsAssumption DEF Submit, disk, IInv, TypeOK
  <1>2. UploadsKept
    BY <1>1 DEF Submit, UploadsKept, Seen
  <1>3. ~holder'.confirmed /\ holder'.at \in {"accepted", "refused", "unknown"}
    BY <1>1 DEF Submit, UploadParts, HolderCountsUploads, Goto, Holder
  <1>4. QED BY <1>1, <1>2, <1>3, HolderCounts, UploadQuiet DEF UploadParts

LEMMA UploadFinished == IInv /\ TypeOK' /\ UploadParts /\ FinishLocal => UploadParts'
  <1> SUFFICES ASSUME IInv, TypeOK', UploadParts, FinishLocal PROVE UploadParts'
    OBVIOUS
  <1>1. /\ UNCHANGED <<row, seen, lastAttempt>> /\ holder \in Holder
        /\ holder.at = "finish"
    BY DEF FinishLocal, IInv, TypeOK
  <1>2. UploadsKept
    BY <1>1, BoundsAssumption DEF UploadsKept, IInv, TypeOK, Seen
  <1>3. CASE holder'.at \in {"free", "record"}
    BY <1>1, <1>2, <1>3, HolderCounts, UploadQuiet DEF UploadParts
  <1>4. CASE holder' = [holder EXCEPT !.at = "copy"]
    <2>1. /\ holder'.at = "copy" /\ holder'.confirmed = holder.confirmed
          /\ holder'.attempt = holder.attempt
      BY <1>1, <1>4 DEF Holder
    <2>2. PICK a \in Attempts : a = holder.attempt
      BY <1>1, HolderAttempt DEF IInv, Free
    <2>3. Covered(a) => Covered(a)'
      BY <1>2, CoveredStays DEF IInv
    <2>4. HolderCountsUploads'
      BY <1>1, <2>1, <2>2, <2>3 DEF UploadParts, HolderCountsUploads, Covered
    <2>5. QED BY <1>1, <1>2, <2>4, UploadQuiet
  <1>5. QED
    BY <1>1, <1>3, <1>4, NobodyIsFree DEF FinishLocal, AfterFinish, Goto, Release, Holder

(* The holder's row, as the copying finds it. *)
LEMMA CopyRow ==
    ASSUME IInv, StartCopy \/ FindCopy \/ BeginUpload \/ Upload \/ RecordUpload \/ RecordCopy
    PROVE  /\ holder \in Holder /\ holder.draft \in Drafts /\ holder.attempt \in Attempts
           /\ row \in [Drafts -> Row] /\ row[holder.draft] \in Row
           /\ row[holder.draft].attempt = holder.attempt /\ lastAttempt' = lastAttempt
           /\ ~Free /\ lastAttempt \in Nat /\ seen \in [Attempts -> Seen]
  <1>1. ~Free
    BY DEF StartCopy, FindCopy, BeginUpload, Upload, RecordUpload, RecordCopy, Free
  <1>2. lastAttempt' = lastAttempt
    BY DEF StartCopy, FindCopy, BeginUpload, Upload, RecordUpload, RecordCopy,
           CopyUnchanged
  <1>3. QED
    BY <1>1, <1>2, HolderAttempt, BoundsAssumption
    DEF IInv, TypeOK, HolderIsAtItsRow, Current

(* A copy that ends: the row says so, or that nobody knows, and the task is  *)
(* over.                                                                   *)
LEMMA UploadEnds ==
    ASSUME IInv, TypeOK', UploadParts, UNCHANGED <<seen, lastAttempt>>,
           holder.draft \in Drafts,
           \/ \E s \in {"Saved", "LocalOnly"} : Complete(s)
           \/ CopyFails \/ Abandon
    PROVE  UploadParts'
  <1>1. row \in [Drafts -> Row] /\ row[holder.draft] \in Row
    BY DEF IInv, TypeOK
  <1>2. UploadsKept
    BY BoundsAssumption DEF UploadsKept, IInv, TypeOK, Seen
  <1>3. HolderCountsUploads'
    BY <1>2, NobodyIsFree, HolderCounts
    DEF UploadParts, Complete, CopyFails, Abandon, Release
  <1>4. ASSUME NEW d \in Drafts, row'[d].sent = "Pending"
        PROVE  row'[d].attempt = row[d].attempt /\ row[d].sent = "Pending"
    <2>1. CASE row' = row
      BY <1>4, <2>1
    <2>2. CASE row' = [row EXCEPT ![holder.draft].sent = "Uncertain"]
      BY <1>1, <1>4, <2>2 DEF Row
    <2>3. ASSUME NEW s \in {"Saved", "LocalOnly"}, Complete(s)
          PROVE  row'[d].attempt = row[d].attempt /\ row[d].sent = "Pending"
      <3> DEFINE r == [row[holder.draft] EXCEPT !.stage = "Complete", !.sent = s,
                                                !.raw = FALSE]
      <3>1. row' = [row EXCEPT ![holder.draft] = r]
        BY <2>3 DEF Complete, SetRow
      <3>2. r.sent = s
        BY <1>1 DEF Row
      <3> HIDE DEF r
      <3>3. d # holder.draft
        BY <1>1, <1>4, <2>3, <3>1, <3>2
      <3>4. QED BY <1>1, <1>4, <3>1, <3>3
    <2>4. QED BY <2>1, <2>2, <2>3 DEF CopyFails, Abandon
  <1>5. QED BY <1>2, <1>3, <1>4, UploadStep

LEMMA UploadCopied ==
    ASSUME IInv, TypeOK', UploadParts,
           StartCopy \/ FindCopy \/ BeginUpload \/ RecordUpload \/ RecordCopy
    PROVE  UploadParts'
  <1>1. UNCHANGED seen
    BY DEF StartCopy, FindCopy, BeginUpload, RecordUpload, RecordCopy
  <1>2. UploadsKept
    BY <1>1, CopyRow DEF UploadsKept, Seen
  <1>3. CASE \/ \E s \in {"Saved", "LocalOnly"} : Complete(s)
             \/ CopyFails \/ Abandon
    BY <1>1, <1>3, CopyRow, UploadEnds
  <1>4. PICK a \in Attempts : a = holder.attempt
    BY CopyRow
  <1>5. Covered(a) => Covered(a)'
    BY <1>2, CoveredStays DEF IInv
  <1>6. CASE StartCopy /\ row' = row
    <2>1. CASE holder' = [holder EXCEPT !.at = "find", !.sent = row[holder.draft].sent]
      <3>1. /\ Unanswered(row[holder.draft].sent) => CheckOnly \/ holder.confirmed
            /\ holder.at = "copy"
        BY <1>6, <2>1, CopyRow, NobodyIsFree DEF StartCopy, Abandon, Complete, Release, Holder
      <3>2. /\ holder'.at = "find" /\ holder'.sent = row[holder.draft].sent
            /\ holder'.confirmed = holder.confirmed /\ holder'.goal = holder.goal
            /\ holder'.attempt = a
        BY <1>4, <2>1, CopyRow DEF Holder
      <3>3. holder.confirmed => Covered(a)'
        BY <1>4, <1>5, <3>1 DEF UploadParts, HolderCountsUploads
      <3>4. HolderCountsUploads'
        BY <3>1, <3>2, <3>3 DEF HolderCountsUploads, CheckOnly, Unanswered, Covered
      <3>5. QED BY <1>2, <1>6, <3>4, UploadQuiet
    <2>2. QED BY <1>3, <1>6, <2>1 DEF StartCopy
  <1>7. CASE FindCopy /\ holder' = [holder EXCEPT !.at = "begin"]
    <2>1. HolderCountsUploads'
      BY <1>2, <1>7, CopyRow, HolderCounts DEF UploadParts, Holder
    <2>2. CASE row' = row
      BY <1>2, <2>1, <2>2, UploadQuiet
    <2>3. CASE row' # row
      <3>1. /\ Unanswered(holder.sent) /\ ~CheckOnly /\ holder.at = "find"
            /\ row' = [row EXCEPT ![holder.draft].sent = "Pending"]
        BY <1>7, <2>3, CopyRow, NobodyIsFree
        DEF FindCopy, CopyFails, Complete, Release, Holder
      <3>2. Covered(holder.attempt)
        BY <3>1 DEF UploadParts, HolderCountsUploads
      <3>3. /\ \A d \in Drafts : row'[d].attempt = row[d].attempt
            /\ \A d \in Drafts \ {holder.draft} : row'[d].sent = row[d].sent
        BY <3>1, CopyRow DEF Row
      <3>4. QED BY <1>2, <2>1, <3>2, <3>3, CopyRow, UploadStep
    <2>4. QED BY <2>2, <2>3
  <1>8. CASE BeginUpload /\ holder' = [holder EXCEPT !.at = "uploading"]
    <2>1. /\ row[holder.draft].sent = "Pending"
          /\ row' = [row EXCEPT ![holder.draft].sent = "Appending"]
      BY <1>8, CopyRow, NobodyIsFree DEF BeginUpload, CopyFails, Release, Holder
    <2>2. Covered(a)'
      BY <1>4, <1>5, <2>1, CopyRow DEF UploadParts, UploadsAreCounted, Attempts
    <2>3. /\ holder'.at = "uploading" /\ holder'.attempt = a
          /\ holder'.draft = holder.draft
      BY <1>4, <1>8, CopyRow DEF Holder
    <2>4. row'[holder.draft].sent = "Appending"
      BY <2>1, CopyRow DEF Row
    <2>5. HolderCountsUploads'
      BY <2>2, <2>3, <2>4 DEF HolderCountsUploads, Covered
    <2>6. ASSUME NEW d \in Drafts, row'[d].sent = "Pending"
          PROVE  row'[d].attempt = row[d].attempt /\ row[d].sent = "Pending"
      BY <2>1, <2>6, CopyRow DEF Row
    <2>7. QED BY <1>2, <2>5, <2>6, UploadStep
  <1>9. CASE StartCopy
    BY <1>3, <1>6, <1>9 DEF StartCopy
  <1>10. CASE FindCopy
    BY <1>3, <1>7, <1>10 DEF FindCopy, Goto
  <1>11. CASE BeginUpload
    BY <1>3, <1>8, <1>11 DEF BeginUpload, Goto
  <1>12. CASE RecordUpload \/ RecordCopy
    BY <1>3, <1>12 DEF RecordUpload, RecordCopy
  <1>13. QED BY <1>9, <1>10, <1>11, <1>12

(* The upload itself: its attempt is covered, and the row is Appending. *)
LEMMA UploadMade == IInv /\ TypeOK' /\ UploadParts /\ Upload => UploadParts'
  <1> SUFFICES ASSUME IInv, TypeOK', UploadParts, Upload PROVE UploadParts'
    OBVIOUS
  <1> DEFINE a == holder.attempt
  <1>1. /\ holder.at = "uploading" /\ row' = row /\ lastAttempt' = lastAttempt
        /\ seen' = [seen EXCEPT ![a].uploads = @ + 1]
        /\ holder' = [holder EXCEPT !.at = "uploaded"]
              \/ holder' = [holder EXCEPT !.at = "unacknowledged"]
    BY CopyRow DEF Upload, Goto
  <1>2. Covered(a) /\ row[holder.draft].sent = "Appending"
    BY <1>1 DEF UploadParts, HolderCountsUploads
  <1>3. /\ \A b \in Attempts \ {a} : seen'[b].uploads = seen[b].uploads
        /\ \A b \in Attempts : seen'[b].confirmed = seen[b].confirmed
        /\ seen'[a].uploads = seen[a].uploads + 1
        /\ \A b \in Attempts : seen[b].uploads \in Nat /\ seen[b].confirmed \in Nat
    BY <1>1, CopyRow DEF Seen
  <1>4. UploadedOnce'
    BY <1>2, <1>3 DEF UploadParts, UploadedOnce, Covered
  <1>5. a <= lastAttempt
    BY CopyRow DEF IInv, RowsAreDrawn
  <1>6. \A b \in Attempts : b > lastAttempt' => seen'[b].uploads = 0
    BY <1>1, <1>3, <1>5, CopyRow DEF UploadParts, UploadsAreCounted, Attempts
  <1>7. ASSUME NEW d \in Drafts, row[d].attempt # 0, row[d].sent = "Pending"
        PROVE  seen'[row[d].attempt].uploads <= seen'[row[d].attempt].confirmed
    <2>1. row[d].attempt \in Attempts
      BY <1>7, CopyRow, BoundsAssumption DEF Row, Attempts
    <2>2. row[d].attempt # a
      BY <1>2, <1>7, CopyRow, AttemptsDiffer
    <2>3. QED BY <1>3, <1>7, <2>1, <2>2 DEF UploadParts, UploadsAreCounted, Covered
  <1>8. UploadsAreCounted'
    BY <1>1, <1>6, <1>7 DEF UploadsAreCounted, Covered
  <1>9. HolderCountsUploads'
    BY <1>1, CopyRow DEF HolderCountsUploads, Holder
  <1>10. QED BY <1>4, <1>8, <1>9 DEF UploadParts

LEMMA UploadReviewed ==
    ASSUME IInv, TypeOK', UploadParts, NEW d \in Drafts, Review(d) \/ RepairOutgoing(d)
    PROVE  UploadParts'
  <1>1. /\ row[d] \in Row /\ row \in [Drafts -> Row] /\ lastAttempt' = lastAttempt
        /\ seen \in [Attempts -> Seen] /\ lastAttempt \in Nat
    BY BoundsAssumption
    DEF Review, CancelQueued, MarkSent, CheckDelivery, ReturnDraft, RecoverCopy,
        RepairOutgoing, IInv, TypeOK
  <1>2. UploadsKept
    <2>1. CASE seen' = seen
      BY <1>1, <2>1 DEF UploadsKept, Seen
    <2>2. ASSUME row[d].stage # "None",
                 \/ seen' = [seen EXCEPT ![row[d].attempt].reviewed = TRUE]
                 \/ seen' = [seen EXCEPT ![row[d].attempt].confirmed = @ + 1]
          PROVE  UploadsKept
      BY <1>1, <2>2, RowAttempt DEF IInv, UploadsKept, Seen
    <2>3. QED
      BY <2>1, <2>2
      DEF Review, CancelQueued, MarkSent, CheckDelivery, ReturnDraft, RecoverCopy,
          RepairOutgoing, InReview
  <1>3. \A e \in Drafts : row'[e].attempt = row[e].attempt /\ row'[e].sent = row[e].sent
    <2>1. CASE row' = row
      BY <2>1
    <2>2. CASE row' = [row EXCEPT ![d].stage = "Accepted"]
      BY <1>1, <2>2 DEF Row
    <2>3. ASSUME NEW r \in {[row[d] EXCEPT !.stage = "Released", !.raw = FALSE],
                            [row[d] EXCEPT !.stage = "Released", !.raw = FALSE,
                                           !.frozen = FALSE]},
                 row' = [row EXCEPT ![d] = r]
          PROVE  \A e \in Drafts :
                    row'[e].attempt = row[e].attempt /\ row'[e].sent = row[e].sent
      <3>1. r.attempt = row[d].attempt /\ r.sent = row[d].sent
        BY <1>1, <2>3 DEF Row
      <3>2. QED BY <1>1, <2>3, <3>1
    <2>4. QED
      BY <2>1, <2>2, <2>3
      DEF Review, CancelQueued, MarkSent, CheckDelivery, ReturnDraft, RecoverCopy,
          RepairOutgoing, SetStage, SetRow, disk
  <1>4. CASE holder' = holder
    BY <1>1, <1>2, <1>3, <1>4, HolderCounts, UploadQuiet DEF UploadParts, IInv, TypeOK, Holder
  <1>5. CASE ~holder'.confirmed /\ holder'.at \in {"finish", "lookup"}
    BY <1>2, <1>3, <1>5, HolderCounts, UploadQuiet DEF UploadParts
  <1>6. ASSUME NEW goal \in {"keep", "retry", "check"}, RecoverCopy(d, goal, TRUE)
        PROVE  UploadParts'
    <2> DEFINE a == row[d].attempt
    <2>1. /\ a \in Attempts /\ seen' = [seen EXCEPT ![a].confirmed = @ + 1]
          /\ holder' = [Hold(d, goal, "finish") EXCEPT !.confirmed = TRUE]
      BY <1>6, RowAttempt DEF RecoverCopy, IInv
    <2>2. holder'.at = "finish" /\ holder'.attempt = a
      BY <2>1 DEF Hold
    <2>3. /\ seen'[a].uploads = seen[a].uploads
          /\ seen'[a].confirmed = seen[a].confirmed + 1
          /\ seen[a].uploads \in Nat /\ seen[a].confirmed \in Nat
      BY <1>1, <2>1 DEF Seen
    <2>4. seen'[a].uploads <= seen'[a].confirmed
      BY <2>1, <2>3 DEF UploadParts, UploadedOnce
    <2>5. HolderCountsUploads'
      BY <2>2, <2>4 DEF HolderCountsUploads, Covered
    <2>6. QED BY <1>2, <1>3, <2>5, UploadQuiet
  <1>7. holder' = holder \/ (~holder'.confirmed /\ holder'.at \in {"finish", "lookup"})
        \/ \E goal \in {"keep", "retry", "check"} : RecoverCopy(d, goal, TRUE)
    <2>1. ASSUME CancelQueued(d) \/ \E confirmed \in BOOLEAN : ReturnDraft(d, confirmed)
          PROVE  holder' = holder
      BY <2>1 DEF CancelQueued, ReturnDraft, memory
    <2>2. ASSUME MarkSent(d) \/ CheckDelivery(d)
          PROVE  ~holder'.confirmed /\ holder'.at \in {"finish", "lookup"}
      BY <2>2 DEF MarkSent, CheckDelivery, Hold
    <2>3. ASSUME NEW goal, RecoverCopy(d, goal, FALSE)
          PROVE  ~holder'.confirmed /\ holder'.at = "finish"
      BY <2>3 DEF RecoverCopy, Hold
    <2>4. ASSUME RepairOutgoing(d)
          PROVE  holder' = holder \/ (~holder'.confirmed /\ holder'.at = "finish")
      BY <2>4 DEF RepairOutgoing, Hold
    <2>5. QED BY <2>1, <2>2, <2>3, <2>4 DEF Review
  <1>8. QED BY <1>4, <1>5, <1>6, <1>7

(* The steps that give a row another attempt or none. *)
LEMMA UploadDeleted ==
    ASSUME IInv, TypeOK', UploadParts, (\E d \in Drafts : DeleteDraft(d)) \/ FinishRemoval
    PROVE  UploadParts'
  <1>1. /\ UNCHANGED <<seen, lastAttempt, holder>> /\ row \in [Drafts -> Row]
        /\ seen \in [Attempts -> Seen] /\ lastAttempt \in Nat
    BY BoundsAssumption DEF DeleteDraft, FinishRemoval, memory, IInv, TypeOK
  <1>2. UploadsKept
    BY <1>1 DEF UploadsKept, Seen
  <1>3. \A d \in Drafts : row'[d] = row[d] \/ row'[d].attempt = 0
    BY <1>1 DEF DeleteDraft, FinishRemoval, NoRow
  <1>4. HolderCountsUploads'
    <2>1. CASE Free
      BY <1>1, <1>2, <2>1, HolderCounts DEF UploadParts, Free
    <2>2. CASE ~Free
      <3>1. /\ holder.draft \in Drafts
            /\ row[holder.draft].stage \in {"Submitting", "Uncertain", "Accepted"}
        BY <2>2, HolderAttempt, HolderStage DEF IInv, Stage
      <3>2. row'[holder.draft] = row[holder.draft]
        BY <1>1, <2>2, <3>1 DEF DeleteDraft, FinishRemoval, Drained, Free
      <3>3. QED BY <1>1, <1>2, <3>2, HolderCounts DEF UploadParts
    <2>3. QED BY <2>1, <2>2
  <1>5. QED BY <1>2, <1>3, <1>4, UploadStep

LEMMA UploadAdmitted == IInv /\ TypeOK' /\ UploadParts /\ AdmitOutgoing => UploadParts'
  <1> SUFFICES ASSUME IInv, TypeOK', UploadParts, AdmitOutgoing PROVE UploadParts'
    OBVIOUS
  <1>1. /\ holder' = holder /\ row \in [Drafts -> Row] /\ sending.draft \in Drafts
        /\ seen \in [Attempts -> Seen] /\ lastAttempt \in Nat
    BY BoundsAssumption DEF AdmitOutgoing, IInv, TypeOK
  <1>2. CASE UNCHANGED <<row, lastAttempt, seen>>
    <2>1. UploadsKept
      BY <1>1, <1>2 DEF UploadsKept, Seen
    <2>2. QED BY <1>1, <1>2, <2>1, HolderCounts, UploadQuiet DEF UploadParts
  <1>3. ASSUME NEW d \in Drafts, d = sending.draft, Readmissible(d),
               lastAttempt < MaxAttempts, lastAttempt' = lastAttempt + 1,
               NEW r, r.attempt = lastAttempt + 1, row' = [row EXCEPT ![d] = r],
               seen' = [seen EXCEPT ![lastAttempt + 1].draft = d]
        PROVE  UploadParts'
    <2>1. lastAttempt + 1 \in Attempts
      BY <1>1, <1>3, BoundsAssumption DEF Attempts
    <2>2. UploadsKept
      BY <1>1, <1>3, <2>1 DEF UploadsKept, Seen
    <2>3. Covered(lastAttempt + 1)
      BY <1>1, <2>1 DEF UploadParts, UploadsAreCounted, Covered, Seen
    <2>4. \A e \in Drafts \ {d} : row'[e] = row[e]
      BY <1>1, <1>3
    <2>5. row'[d].attempt = lastAttempt + 1
      BY <1>1, <1>3
    <2>6. HolderCountsUploads'
      <3>1. CASE Free
        BY <1>1, <2>2, <3>1, HolderCounts DEF UploadParts, Free
      <3>2. CASE ~Free
        <4>1. /\ holder.draft \in Drafts
              /\ row[holder.draft].stage \in {"Submitting", "Uncertain", "Accepted"}
          BY <3>2, HolderAttempt, HolderStage DEF IInv, Stage
        <4>2. row'[holder.draft] = row[holder.draft]
          BY <1>3, <2>4, <4>1 DEF Readmissible
        <4>3. QED BY <1>1, <2>2, <4>2, HolderCounts DEF UploadParts
      <3>3. QED BY <3>1, <3>2
    <2>7. QED BY <2>2, <2>3, <2>4, <2>5, <2>6, UploadStep
  <1>4. QED BY <1>1, <1>2, <1>3 DEF AdmitOutgoing, AdmitChecks, SetRow

LEMMA UploadsCounted ==
    ASSUME IInv, TypeOK', UploadParts, [Next]_vars
    PROVE  UploadParts'
  <1>1. ASSUME NEW d \in Drafts,
               \/ \E r \in Revisions : SaveDraft(d, r) \/ QueueDraft(d, r)
               \/ DeleteDraft(d) \/ ReadPreparation(d) \/ ClaimOutgoing(d)
               \/ Review(d) \/ RepairOutgoing(d)
        PROVE  UploadParts'
    BY <1>1, UploadOthers, UploadDeleted, UploadDelivered, UploadReviewed
  <1>2. CASE HolderStep
    BY <1>2, UploadSubmitted, UploadDelivered, UploadFinished, UploadCopied, UploadMade
    DEF HolderStep
  <1>3. QED
    BY <1>1, <1>2, UploadOthers, UploadAdmitted, UploadPrepared, UploadDeleted DEF Next

----------------------------------------------------------------------------
(* RecoveryInv holds beside IInv, which every part of it relies on.          *)
LEMMA InitRecovers == Init => RecoveryInv
  <1> SUFFICES ASSUME Init PROVE RecoveryInv
    OBVIOUS
  <1>1. FolderExclusion
    BY DEF Init, FolderExclusion
  <1>2. TextIsKept
    BY DEF Init, TextIsKept, NoRow, Waiting, InReview
  <1>3. UploadedOnce
    BY DEF Init, UploadedOnce, Unseen
  <1>4. UploadsAreCounted /\ HolderCountsUploads
    BY DEF Init, UploadsAreCounted, HolderCountsUploads, NoRow, Unseen, Nobody
  <1>5. QED BY <1>1, <1>2, <1>3, <1>4 DEF RecoveryInv

THEOREM Recovers == Spec => []RecoveryInv
  <1>1. IInv /\ IInv' /\ RecoveryInv /\ [Next]_vars => RecoveryInv'
    <2> SUFFICES ASSUME IInv, IInv', RecoveryInv, [Next]_vars PROVE RecoveryInv'
      OBVIOUS
    <2>1. FolderExclusion'
      BY FolderKept DEF RecoveryInv
    <2>2. TextIsKept'
      BY TextKept DEF RecoveryInv, IInv
    <2>3. UploadParts'
      BY UploadsCounted DEF RecoveryInv, IInv, UploadParts
    <2>4. QED BY <2>1, <2>2, <2>3 DEF RecoveryInv, UploadParts
  <1>2. QED BY <1>1, InitRecovers, Invariant, PTL DEF Spec

(* A folder operation and an unsettled delivery never coexist, in any number *)
(* of drafts and whatever fails (StartFolderJob, AdmitOutgoing).            *)
THEOREM FoldersExclude == Spec => []FolderExclusion
  <1>1. RecoveryInv => FolderExclusion
    BY DEF RecoveryInv
  <1>2. QED BY <1>1, Recovers, PTL

(* The text of every attempt can be recovered at every moment: as an         *)
(* editable draft, as frozen or exact bytes, or as a Sent message.          *)
THEOREM TextsKept == Spec => []TextIsKept
  <1>1. RecoveryInv => TextIsKept
    BY DEF RecoveryInv
  <1>2. QED BY <1>1, Recovers, PTL

(* The app uploads one Sent copy of an attempt and one more for each retry   *)
(* the user confirmed (StartCopy, FindCopy, BeginUpload, RecoverCopy).      *)
THEOREM UploadsOnce == Spec => []UploadedOnce
  <1>1. RecoveryInv => UploadedOnce
    BY DEF RecoveryInv
  <1>2. QED BY <1>1, Recovers, PTL

----------------------------------------------------------------------------
(* The journal implements DeliveryPromise: every step is a step of the       *)
(* promise about one draft, the forgetting of them all, or a stutter.       *)

PhaseOf(d)  == Phase(row[d])
MailedOf(d) == /\ row[d].stage \in InReview \cup {"Accepted", "Complete"}
               /\ seen[row[d].attempt].delivered

(* What may become of one draft. *)
Moves(d) ==
    \/ PhaseOf(d) = "editing" /\ PhaseOf(d)' = "waiting" /\ (MailedOf(d)' <=> MailedOf(d))
    \/ PhaseOf(d) = "waiting" /\ PhaseOf(d)' \in {"editing", "offered"}
          /\ (MailedOf(d)' <=> MailedOf(d))
    \/ PhaseOf(d) = "offered" /\ ~MailedOf(d) /\ PhaseOf(d)' = "offered" /\ MailedOf(d)'
    \/ PhaseOf(d) = "offered" /\ PhaseOf(d)' = "editing" /\ ~MailedOf(d)'
    \/ PhaseOf(d) = "offered" /\ PhaseOf(d)' = "sent" /\ (MailedOf(d)' <=> MailedOf(d))

Rests(d) == PhaseOf(d)' = PhaseOf(d) /\ (MailedOf(d)' <=> MailedOf(d))

LEMMA PromiseMoves ==
    ASSUME NEW d \in Drafts, \A e \in Drafts \ {d} : Rests(e), Moves(d) \/ Rests(d)
    PROVE  [Promise!Next]_(Promise!promise)
  <1> DEFINE phase  == [e \in Drafts |-> PhaseOf(e)]
             mailed == {e \in Drafts : MailedOf(e)}
  <1>1. /\ [e \in Drafts |-> Phase(row[e])] = phase
        /\ {e \in Drafts : /\ row[e].stage \in InReview \cup {"Accepted", "Complete"}
                           /\ seen[row[e].attempt].delivered} = mailed
        /\ [e \in Drafts |-> Phase(row[e])]' = phase'
        /\ {e \in Drafts : /\ row[e].stage \in InReview \cup {"Accepted", "Complete"}
                           /\ seen[row[e].attempt].delivered}' = mailed'
    BY DEF PhaseOf, MailedOf
  <1>2. /\ phase' = [phase EXCEPT ![d] = PhaseOf(d)']
        /\ mailed' = IF MailedOf(d)' THEN mailed \cup {d} ELSE mailed \ {d}
    BY DEF Rests
  <1>3. phase[d] = PhaseOf(d) /\ (d \in mailed <=> MailedOf(d))
    OBVIOUS
  <1>4. CASE Rests(d)
    <2>1. phase' = phase /\ mailed' = mailed
      BY <1>2, <1>3, <1>4 DEF Rests
    <2>2. QED BY <1>1, <2>1 DEF Promise!promise
  <1>5. CASE Moves(d)
    <2> HIDE DEF phase, mailed
    <2>1. \/ /\ phase[d] = "editing" /\ phase' = [phase EXCEPT ![d] = "waiting"]
             /\ mailed' = mailed
          \/ /\ phase[d] = "waiting" /\ mailed' = mailed
             /\ phase' \in {[phase EXCEPT ![d] = "editing"], [phase EXCEPT ![d] = "offered"]}
          \/ /\ phase[d] = "offered" /\ d \notin mailed /\ phase' = phase
             /\ mailed' = mailed \cup {d}
          \/ /\ phase[d] = "offered" /\ phase' = [phase EXCEPT ![d] = "editing"]
             /\ mailed' = mailed \ {d}
          \/ /\ phase[d] = "offered" /\ phase' = [phase EXCEPT ![d] = "sent"]
             /\ mailed' = mailed
      BY <1>2, <1>3, <1>5 DEF Moves, phase, mailed
    <2>2. \/ Promise!Send(d) \/ Promise!Withdraw(d) \/ Promise!Offer(d) \/ Promise!Take(d)
          \/ Promise!Review(d)
      BY <1>1, <2>1
      DEF Promise!Send, Promise!Withdraw, Promise!Offer, Promise!Take,
          Promise!Review, Promise!Become
    <2>3. QED BY <2>2 DEF Promise!Next
  <1>6. QED BY <1>4, <1>5

DeliveredKept == \A a \in Attempts : seen'[a].delivered = seen[a].delivered

LEMMA PromiseRow ==
    ASSUME IInv, DeliveredKept, NEW d \in Drafts, \A e \in Drafts \ {d} : row'[e] = row[e],
           Moves(d) \/ Rests(d)
    PROVE  [Promise!Next]_(Promise!promise)
  <1>1. ASSUME NEW e \in Drafts \ {d} PROVE Rests(e)
    <2>1. row[e].stage # "None" => row[e].attempt \in Attempts
      BY RowAttempt DEF IInv
    <2>2. QED BY <2>1 DEF Rests, PhaseOf, MailedOf, DeliveredKept, InReview
  <1>2. QED BY <1>1, PromiseMoves

LEMMA PromiseRests ==
    ASSUME IInv, DeliveredKept, row' = row
    PROVE  [Promise!Next]_(Promise!promise)
  <1>1. ASSUME NEW e \in Drafts PROVE Rests(e)
    <2>1. row[e].stage # "None" => row[e].attempt \in Attempts
      BY RowAttempt DEF IInv
    <2>2. QED BY <2>1 DEF Rests, PhaseOf, MailedOf, DeliveredKept, InReview
  <1>2. QED BY <1>1, AnyDraftType, PromiseMoves

(* A row that keeps its attempt moves as its stage does. *)
Follows(r, s, delivered) ==
    \/ Phase(r) = Phase(s)
          /\ ((r.stage \in InReview \cup {"Accepted", "Complete"}
                 <=> s.stage \in InReview \cup {"Accepted", "Complete"}) \/ ~delivered)
    \/ Phase(r) = "waiting" /\ Phase(s) \in {"editing", "offered"} /\ ~delivered
    \/ Phase(r) = "offered" /\ Phase(s) = "sent"
    \/ Phase(r) = "offered" /\ Phase(s) = "editing"

LEMMA PromiseFollows ==
    ASSUME IInv, DeliveredKept, NEW d \in Drafts, NEW s,
           row' = [row EXCEPT ![d] = s], s.attempt = row[d].attempt,
           row[d].stage # "None", s.stage \in DeliveryStates,
           Follows(row[d], s, seen[row[d].attempt].delivered)
    PROVE  [Promise!Next]_(Promise!promise)
  <1>1. row \in [Drafts -> Row] /\ row[d].attempt \in Attempts /\ row[d].stage \in DeliveryStates
    BY RowAttempt DEF IInv, TypeOK, Row
  <1>2. row'[d] = s /\ \A e \in Drafts \ {d} : row'[e] = row[e]
    BY <1>1
  <1>3. /\ PhaseOf(d) = Phase(row[d]) /\ PhaseOf(d)' = Phase(s)
        /\ MailedOf(d) <=> /\ row[d].stage \in InReview \cup {"Accepted", "Complete"}
                           /\ seen[row[d].attempt].delivered
        /\ MailedOf(d)' <=> /\ s.stage \in InReview \cup {"Accepted", "Complete"}
                            /\ seen[row[d].attempt].delivered
    BY <1>1, <1>2 DEF PhaseOf, MailedOf, DeliveredKept
  <1>4. Moves(d) \/ Rests(d)
    BY <1>1, <1>3
    DEF Follows, Moves, Rests, Phase, InReview, Waiting, DeliveryStates
  <1>5. QED BY <1>2, <1>4, PromiseRow

LEMMA PromiseQuiet ==
    ASSUME IInv,
           \/ \E d \in Drafts, r \in Revisions : SaveDraft(d, r) \/ QueueDraft(d, r)
           \/ \E d \in Drafts : ReadPreparation(d) \/ CheckDelivery(d) \/ RepairOutgoing(d)
           \/ \E d \in Drafts : \E goal \in {"keep", "retry", "check"} :
                 \E confirmed \in BOOLEAN : RecoverCopy(d, goal, confirmed)
           \/ \E a \in Attempts : SyncSent(a) \/ ServerSavesSent(a)
           \/ \E c \in Configs : SaveAccount(c)
           \/ FinishLocal \/ Upload
           \/ StartFolderJob \/ CloseFolderJob \/ AdmitRemoval
           \/ Crash \/ StorageFails \/ UNCHANGED vars
    PROVE  [Promise!Next]_(Promise!promise)
  <1>1. row' = row
    BY DEF SaveDraft, QueueDraft, ReadPreparation, CheckDelivery, RepairOutgoing,
        RecoverCopy, SyncSent, ServerSavesSent, SaveAccount, FinishLocal, Upload,
        StartFolderJob, CloseFolderJob, AdmitRemoval, Crash, StorageFails, vars, disk,
        memory
  <1>2. DeliveredKept
    <2>1. seen \in [Attempts -> Seen]
      BY DEF IInv, TypeOK
    <2>2. CASE seen' = seen
      BY <2>2 DEF DeliveredKept
    <2>3. CASE Upload
      BY <2>1, <2>3 DEF Upload, DeliveredKept, Seen
    <2>4. ASSUME NEW d \in Drafts, NEW goal, NEW confirmed, RecoverCopy(d, goal, confirmed)
          PROVE  DeliveredKept
      BY <2>1, <2>2, <2>4 DEF RecoverCopy, DeliveredKept, Seen
    <2>5. QED
      BY <2>2, <2>3, <2>4
      DEF SaveDraft, QueueDraft, ReadPreparation, CheckDelivery, RepairOutgoing,
          SyncSent, ServerSavesSent, SaveAccount, FinishLocal, StartFolderJob,
          CloseFolderJob, AdmitRemoval, Crash, StorageFails, vars, disk, memory
  <1>3. QED BY <1>1, <1>2, PromiseRests

(* A stage that changes alone. *)
LEMMA PromiseStaged ==
    ASSUME IInv, DeliveredKept, NEW d \in Drafts, NEW s \in DeliveryStates, SetStage(d, s),
           \/ row[d].stage = "Queued" /\ s \in {"Submitting", "Rejected"}
           \/ row[d].stage \in InReview /\ s \in {"Accepted", "Rejected", "Uncertain"}
    PROVE  [Promise!Next]_(Promise!promise)
  <1> DEFINE r == [row[d] EXCEPT !.stage = s]
  <1>1. /\ row[d] \in Row /\ row[d].stage # "None"
        /\ row[d].stage = "Queued" => ~seen[row[d].attempt].delivered
    BY DEF IInv, TypeOK, InReview, StatusIsTrue, Waiting
  <1>2. r.stage = s /\ r.attempt = row[d].attempt /\ row' = [row EXCEPT ![d] = r]
    BY <1>1 DEF Row, SetStage, SetRow
  <1> HIDE DEF r
  <1>3. Follows(row[d], r, seen[row[d].attempt].delivered)
    BY <1>1, <1>2 DEF Follows, Phase, Waiting, InReview
  <1>4. QED BY <1>1, <1>2, <1>3, PromiseFollows

LEMMA PromiseDelivered ==
    ASSUME IInv,
           (\E d \in Drafts : ClaimOutgoing(d)) \/ RecordDelivery \/ LookupDelivery
    PROVE  [Promise!Next]_(Promise!promise)
  <1>1. DeliveredKept
    BY DEF ClaimOutgoing, RecordDelivery, LookupDelivery, DeliveredKept
  <1>2. ASSUME NEW d \in Drafts, ClaimOutgoing(d) PROVE [Promise!Next]_(Promise!promise)
    <2>1. ClaimedStage(d) \in {"Submitting", "Rejected"} /\ ClaimedStage(d) \in DeliveryStates
      BY DEF ClaimedStage, DeliveryStates
    <2>2. QED BY <1>1, <1>2, <2>1, PromiseStaged DEF ClaimOutgoing, Claimable
  <1>3. CASE UNCHANGED row
    BY <1>1, <1>3, PromiseRests
  <1>4. CASE RecordDelivery \/ LookupDelivery
    <2>1. holder.draft \in Drafts /\ row[holder.draft].stage \in InReview
      BY <1>4, HolderAttempt
      DEF RecordDelivery, LookupDelivery, IInv, Free, HolderIsAtItsRow, Stage, StageAt,
          InReview
    <2>2. /\ Outcome(holder.at) \in {"Accepted", "Rejected", "Uncertain"}
          /\ {"Accepted", "Rejected", "Uncertain"} \subseteq DeliveryStates
      BY DEF Outcome, DeliveryStates
    <2>3. QED
      BY <1>1, <1>3, <1>4, <2>1, <2>2, PromiseStaged DEF RecordDelivery, LookupDelivery
  <1>5. QED BY <1>2, <1>4

(* The mail server takes a message at most while it is offered. *)
LEMMA PromiseTaken == IInv /\ Submit => [Promise!Next]_(Promise!promise)
  <1> SUFFICES ASSUME IInv, Submit PROVE [Promise!Next]_(Promise!promise)
    OBVIOUS
  <1>1. PICK d \in Drafts : d = holder.draft
    BY DEF IInv, TypeOK, Holder
  <1>2. /\ row[d].attempt = holder.attempt /\ row[d].stage = "Submitting"
        /\ holder.attempt \in Attempts /\ seen[holder.attempt].submits = 0
    BY <1>1, HolderAttempt
    DEF Submit, IInv, Free, HolderIsAtItsRow, Current, Stage, StageAt
  <1>3. ~seen[holder.attempt].delivered
    BY <1>2, UnsubmittedUndelivered DEF IInv
  <1>4. /\ row' = row /\ seen \in [Attempts -> Seen]
        /\ \A a \in Attempts \ {holder.attempt} : seen'[a].delivered = seen[a].delivered
    BY DEF Submit, disk, IInv, TypeOK
  <1>5. ASSUME NEW e \in Drafts \ {d} PROVE Rests(e)
    <2>1. row[e].stage # "None" => row[e].attempt \in Attempts \ {holder.attempt}
      BY <1>2, RowAttempt, AttemptsDiffer DEF IInv, Attempts
    <2>2. QED BY <1>4, <2>1 DEF Rests, PhaseOf, MailedOf, InReview
  <1>6. Moves(d) \/ Rests(d)
    BY <1>2, <1>3, <1>4
    DEF Moves, Rests, PhaseOf, MailedOf, Phase, InReview, Waiting
  <1>7. QED BY <1>5, <1>6, PromiseMoves

LEMMA PromiseCopied ==
    ASSUME IInv, StartCopy \/ FindCopy \/ BeginUpload \/ RecordUpload \/ RecordCopy
    PROVE  [Promise!Next]_(Promise!promise)
  <1>1. PICK d \in Drafts : d = holder.draft
    BY CopyRow
  <1>2. row[d].stage = "Accepted" /\ row[d] \in Row /\ row \in [Drafts -> Row]
    BY <1>1, CopyRow
    DEF StartCopy, FindCopy, BeginUpload, RecordUpload, RecordCopy, IInv,
        HolderIsAtItsRow, StageAt, Stage
  <1>3. DeliveredKept
    BY DEF StartCopy, FindCopy, BeginUpload, RecordUpload, RecordCopy, DeliveredKept
  <1>4. ASSUME NEW s, s.attempt = row[d].attempt, s.stage \in {"Accepted", "Complete"},
               row' = [row EXCEPT ![d] = s]
        PROVE  [Promise!Next]_(Promise!promise)
    <2>1. s.stage \in DeliveryStates /\ row[d].stage # "None"
      BY <1>2, <1>4 DEF DeliveryStates
    <2>2. Follows(row[d], s, seen[row[d].attempt].delivered)
      BY <1>2, <1>4 DEF Follows, Phase, Waiting, InReview
    <2>3. QED BY <1>3, <1>4, <2>1, <2>2, PromiseFollows
  <1>5. CASE row' = row
    BY <1>3, <1>5, PromiseRests
  <1>6. ASSUME NEW sent, row' = [row EXCEPT ![d].sent = sent]
        PROVE  [Promise!Next]_(Promise!promise)
    <2>1. /\ [row[d] EXCEPT !.sent = sent].attempt = row[d].attempt
          /\ [row[d] EXCEPT !.sent = sent].stage = "Accepted"
          /\ row' = [row EXCEPT ![d] = [row[d] EXCEPT !.sent = sent]]
      BY <1>2, <1>6 DEF Row
    <2>2. QED BY <1>4, <2>1
  <1>7. ASSUME NEW s, Complete(s) PROVE [Promise!Next]_(Promise!promise)
    <2> DEFINE r == [row[d] EXCEPT !.stage = "Complete", !.sent = s, !.raw = FALSE]
    <2>1. r.attempt = row[d].attempt /\ r.stage = "Complete"
      BY <1>2 DEF Row
    <2>2. row' = [row EXCEPT ![d] = r]
      BY <1>1, <1>7 DEF Complete, SetRow
    <2> HIDE DEF r
    <2>3. QED BY <1>4, <2>1, <2>2
  <1>8. CASE CopyFails \/ Abandon
    BY <1>1, <1>5, <1>6, <1>8 DEF CopyFails, Abandon
  <1>9. CASE StartCopy \/ RecordUpload \/ RecordCopy
    BY <1>5, <1>7, <1>8, <1>9 DEF StartCopy, RecordUpload, RecordCopy
  <1>10. CASE FindCopy
    BY <1>1, <1>5, <1>6, <1>7, <1>8, <1>10 DEF FindCopy
  <1>11. CASE BeginUpload
    BY <1>1, <1>6, <1>8, <1>11 DEF BeginUpload
  <1>12. QED BY <1>9, <1>10, <1>11

LEMMA PromisePrepared ==
    ASSUME IInv, NEW a \in Attempts, FinishPreparation(a)
    PROVE  [Promise!Next]_(Promise!promise)
  <1>1. DeliveredKept
    BY DEF FinishPreparation, DeliveredKept
  <1>2. CASE UNCHANGED row
    BY <1>1, <1>2, PromiseRests
  <1>3. ASSUME NEW d \in Drafts, row[d].stage = "Preparing",
               NEW r \in {[row[d] EXCEPT !.stage = "Queued", !.raw = TRUE,
                                         !.frozen = FALSE],
                          [row[d] EXCEPT !.stage = "Rejected", !.frozen = FALSE]},
               row' = [row EXCEPT ![d] = r]
        PROVE  [Promise!Next]_(Promise!promise)
    <2>1. row[d] \in Row /\ ~seen[row[d].attempt].delivered
      BY <1>3 DEF IInv, TypeOK, StatusIsTrue, Waiting
    <2>2. r.attempt = row[d].attempt /\ r.stage \in {"Queued", "Rejected"}
      BY <1>3, <2>1 DEF Row
    <2>3. r.stage \in DeliveryStates /\ row[d].stage # "None"
      BY <1>3, <2>2 DEF DeliveryStates
    <2>4. Follows(row[d], r, seen[row[d].attempt].delivered)
      BY <1>3, <2>1, <2>2 DEF Follows, Phase, Waiting, InReview
    <2>5. QED BY <1>1, <1>3, <2>2, <2>3, <2>4, PromiseFollows
  <1>4. QED BY <1>2, <1>3 DEF FinishPreparation, StillPreparing, SetRow

(* Cancelling, returning and marking: the person decides. *)
LEMMA PromiseReviewed ==
    ASSUME IInv, NEW d \in Drafts,
           \/ CancelQueued(d) \/ MarkSent(d)
           \/ \E confirmed \in BOOLEAN : ReturnDraft(d, confirmed)
    PROVE  [Promise!Next]_(Promise!promise)
  <1>1. row[d] \in Row /\ row \in [Drafts -> Row] /\ seen \in [Attempts -> Seen]
    BY DEF IInv, TypeOK
  <1>2. row[d].stage \in Waiting \cup InReview \cup {"Rejected"} /\ row[d].stage # "None"
    BY DEF CancelQueued, Cancellable, MarkSent, ReturnDraft, Waiting, InReview
  <1>3. DeliveredKept
    <2>1. row[d].attempt \in Attempts
      BY <1>2, RowAttempt DEF IInv
    <2>2. seen' = seen \/ seen' = [seen EXCEPT ![row[d].attempt].reviewed = TRUE]
      BY DEF CancelQueued, MarkSent, ReturnDraft
    <2>3. QED BY <1>1, <2>1, <2>2 DEF DeliveredKept, Seen
  <1>4. CASE MarkSent(d)
    BY <1>3, <1>4, PromiseStaged DEF MarkSent, DeliveryStates
  <1>5. ASSUME NEW r \in {[row[d] EXCEPT !.stage = "Released", !.raw = FALSE],
                          [row[d] EXCEPT !.stage = "Released", !.raw = FALSE,
                                         !.frozen = FALSE]},
               row' = [row EXCEPT ![d] = r]
        PROVE  [Promise!Next]_(Promise!promise)
    <2>1. r.attempt = row[d].attempt /\ r.stage = "Released"
      BY <1>1, <1>5 DEF Row
    <2>2. row[d].stage \in Waiting => ~seen[row[d].attempt].delivered
      BY DEF IInv, StatusIsTrue
    <2>3. Follows(row[d], r, seen[row[d].attempt].delivered) /\ r.stage \in DeliveryStates
      BY <1>2, <2>1, <2>2 DEF Follows, Phase, Waiting, InReview, DeliveryStates
    <2>4. QED BY <1>2, <1>3, <1>5, <2>1, <2>3, PromiseFollows
  <1>6. QED BY <1>4, <1>5 DEF CancelQueued, ReturnDraft, SetRow

(* A new attempt, a deleted draft and the removal of the account. *)
LEMMA PromiseAdmitted == IInv /\ AdmitOutgoing => [Promise!Next]_(Promise!promise)
  <1> SUFFICES ASSUME IInv, AdmitOutgoing PROVE [Promise!Next]_(Promise!promise)
    OBVIOUS
  <1>1. /\ row \in [Drafts -> Row] /\ seen \in [Attempts -> Seen] /\ lastAttempt \in Nat
        /\ sending.draft \in Drafts
    BY BoundsAssumption DEF IInv, TypeOK
  <1>2. CASE UNCHANGED <<row, seen>>
    BY <1>2, PromiseRests DEF DeliveredKept
  <1>3. ASSUME NEW d \in Drafts, Readmissible(d),
               NEW r, r.stage = "Preparing", row' = [row EXCEPT ![d] = r],
               seen' = [seen EXCEPT ![lastAttempt + 1].draft = d]
        PROVE  [Promise!Next]_(Promise!promise)
    <2>1. DeliveredKept
      BY <1>1, <1>3 DEF DeliveredKept, Seen
    <2>2. row'[d] = r /\ \A e \in Drafts \ {d} : row'[e] = row[e]
      BY <1>1, <1>3
    <2>3. Moves(d)
      BY <1>3, <2>2
      DEF Readmissible, Moves, PhaseOf, MailedOf, Phase, Waiting, InReview
    <2>4. QED BY <2>1, <2>2, <2>3, PromiseRow
  <1>4. QED BY <1>1, <1>2, <1>3 DEF AdmitOutgoing, AdmitChecks, SetRow

LEMMA PromiseDeleted ==
    ASSUME IInv, NEW d \in Drafts, DeleteDraft(d)
    PROVE  [Promise!Next]_(Promise!promise)
  <1>1. row \in [Drafts -> Row] /\ DeliveredKept
    BY DEF IInv, TypeOK, DeleteDraft, DeliveredKept
  <1>2. CASE row' = row
    BY <1>1, <1>2, PromiseRests
  <1>3. CASE row[d].stage \in {"Rejected", "Released"} /\ row' = [row EXCEPT ![d] = NoRow]
    <2>1. Rests(d)
      BY <1>1, <1>3 DEF Rests, PhaseOf, MailedOf, Phase, NoRow, Waiting, InReview
    <2>2. \A e \in Drafts \ {d} : row'[e] = row[e]
      BY <1>1, <1>3
    <2>3. QED BY <1>1, <2>1, <2>2, PromiseRow
  <1>4. QED BY <1>2, <1>3 DEF DeleteDraft

LEMMA PromiseForgotten == FinishRemoval => [Promise!Next]_(Promise!promise)
  <1> SUFFICES ASSUME FinishRemoval PROVE [Promise!Next]_(Promise!promise)
    OBVIOUS
  <1>1. \A d \in Drafts : row'[d] = NoRow
    BY DEF FinishRemoval
  <1>2. Promise!Forget
    BY <1>1 DEF Promise!Forget, Phase, NoRow, Waiting, InReview
  <1>3. QED BY <1>2 DEF Promise!Next

(* The journal is an implementation of the promise: each draft is offered to *)
(* the mail server again only after a refusal or a review, through every     *)
(* interleaving, crash and storage failure.                                 *)
THEOREM Implements == Spec => KeepsPromise
  <1>1. Init => Promise!Init
    BY DEF Init, Promise!Init, Phase, NoRow, Waiting, InReview
  <1>2. IInv /\ [Next]_vars => [Promise!Next]_(Promise!promise)
    <2> SUFFICES ASSUME IInv, [Next]_vars PROVE [Promise!Next]_(Promise!promise)
      OBVIOUS
    <2>1. ASSUME NEW d \in Drafts, Review(d) PROVE [Promise!Next]_(Promise!promise)
      BY <2>1, PromiseReviewed, PromiseQuiet DEF Review
    <2>2. CASE HolderStep
      BY <2>2, PromiseTaken, PromiseDelivered, PromiseQuiet, PromiseCopied DEF HolderStep
    <2>3. QED
      BY <2>1, <2>2, PromiseQuiet, PromiseDeleted, PromiseDelivered, PromiseAdmitted,
         PromisePrepared, PromiseForgotten
      DEF Next
  <1>3. QED BY <1>1, <1>2, Invariant, PTL DEF Spec, KeepsPromise, Promise!Spec
=============================================================================
