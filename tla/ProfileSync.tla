------------------------------ MODULE ProfileSync ------------------------------
(***************************************************************************)
(* Preferences shared between devices through Google Drive.  Each change   *)
(* is an immutable operation that names the operations it follows.  A      *)
(* device keeps a history of the operations it knows, a saved state that   *)
(* ties each native setting to the shared value it last agreed with, and   *)
(* the copy cursor of its catalog.  A sync pass admits what the user       *)
(* changed, copies the records on Drive into the history, applies what is  *)
(* new to the settings and uploads the operations that Drive lacks.  A     *)
(* conflict is left to the user, who answers it in a review.               *)
(*                                                                         *)
(* The store serves the user between any two steps of a pass; a pass may   *)
(* be stopped, or the program killed, after every step.  One job runs on   *)
(* a device at a time (src/src/engine/profile_sync.rs), so the history     *)
(* changes under nobody's feet.  The operations a device admits are        *)
(* numbered in one sequence, which stands for their UUIDs.                 *)
(***************************************************************************)
EXTENDS Integers, Sequences, FiniteSets, FiniteSetsExt, SequencesExt

CONSTANTS Devices, Settings, SettingValues,
          Initial,      \* the value every setting has when the profile is shared
          MaxEdits,     \* changes the users make
          MaxReviews,   \* reviews the users answer
          MaxInterrupts, \* passes that are stopped or fail half-way
          MaxBusy       \* devices that have a job at the same time

ASSUME ProfileAssumption ==
    /\ Devices # {} /\ IsFiniteSet(Devices)
    /\ Initial \in SettingValues /\ Settings \subseteq Nat \ {0}

VARIABLES
    operations, \* the admitted operations
    history,    \* the history of each device
    drive,      \* the files on Drive
    observed,   \* the records of each catalog, in the order of observation
    copied,     \* how many of them were copied into the history
    native,     \* the settings the user sees
    edits,      \* how often the user, not a sync, changed a setting
    field,      \* the shared value a setting last agreed with
    pending,    \* the change that is being admitted
    deferred,   \* the changes that wait for a review
    requests,   \* the identities a device gave to its changes
    job,        \* what the sync worker of a device is doing
    review,     \* the review on the screen
    carrier,    \* which operation carries the value a setting has, 0: none yet
    made, answered, interrupts

historyVars == <<operations, history>>
driveVars == <<drive, observed, copied>>
storeVars == <<native, edits, field, pending, deferred, requests>>
limits == <<made, answered, interrupts>>
profileVars == <<historyVars, driveVars, storeVars, job, review, carrier, limits>>

None == [setting |-> 0]
NoJob == [at |-> "idle", task |-> "sync", excluded |-> {}, receipt |-> 0]

-----------------------------------------------------------------------------
(* The causal history *)

\* Every operation that came before each one.
Ancestry(ops) ==
    LET before[k \in DOMAIN ops] ==
            ops[k].parents \union UNION {before[p] : p \in ops[k].parents}
    IN before

Touches(ops, k, s) == s \in DOMAIN ops[k].changes
ValueOf(ops, k, s) == ops[k].changes[s]

Waiting(h) == {k \in Range(h.log) : k \notin h.applied}

\* One operation becomes part of the profile: it replaces the versions it
\* has seen and stands beside the others.
Apply(ops, h, k) ==
    [h EXCEPT
        !.applied = @ \union {k},
        !.heads = (@ \ ops[k].parents) \union {k},
        !.versions = [s \in Settings |->
            IF Touches(ops, k, s) THEN (@[s] \ Ancestry(ops)[k]) \union {k} ELSE @[s]],
        !.changed = [s \in Settings |->
            IF Touches(ops, k, s) THEN h.revision + 1 ELSE @[s]],
        !.revision = @ + 1]

\* A record is applied as it comes, whatever it waits for.
ReadyOnArrival(ops, h) == {n \in DOMAIN h.log : h.log[n] \notin h.applied}

\* The positions of the operations whose parents are all applied.
ReadyAt(ops, h) ==
    {n \in DOMAIN h.log :
        h.log[n] \notin h.applied /\ ops[h.log[n]].parents \subseteq h.applied}

ApplyReady(ops, h) ==
    LET after[n \in 0 .. Cardinality(Waiting(h))] ==
            IF n = 0 THEN h
            ELSE LET g == after[n - 1]
                 IN IF ReadyAt(ops, g) = {} THEN g
                    ELSE Apply(ops, g, g.log[Min(ReadyAt(ops, g))])
    IN after[Cardinality(Waiting(h))]

Insert(ops, h, k) ==
    ApplyReady(ops, [h EXCEPT !.log = Append(@, k), !.revision = @ + 1])

ImportRecord(ops, h, k) ==
    IF k \in Range(h.log) THEN ApplyReady(ops, h) ELSE Insert(ops, h, k)

\* The profile is complete: nothing waits for a record that has not come.
Initialized(h) == Waiting(h) = {}

\* Where the log has the operations of the device that Drive has not
\* confirmed; the oldest of them is uploaded next.
ToUpload(d) ==
    {n \in DOMAIN history[d].log :
        /\ operations[history[d].log[n]].device = d
        /\ history[d].log[n] \notin history[d].uploaded}
NextUpload(d) == history[d].log[Min(ToUpload(d))]

-----------------------------------------------------------------------------
ProfileInit ==
    LET author == CHOOSE d \in Devices : TRUE
        first == [device |-> author, request |-> 0, parents |-> {},
                  changes |-> [s \in Settings |-> Initial]]
    IN  /\ operations = <<first>>
        /\ history = [d \in Devices |->
              ApplyReady(<<first>>,
                  [log |-> <<1>>, applied |-> {}, heads |-> {},
                   versions |-> [s \in Settings |-> {}],
                   changed |-> [s \in Settings |-> 0],
                   revision |-> 1, files |-> <<>>, uploaded |-> {1}])]
        /\ drive = {[file |-> 1, operation |-> 1]}
        /\ observed = [d \in Devices |-> <<1>>]
        /\ copied = [d \in Devices |-> 1]
        /\ native = [d \in Devices |-> [s \in Settings |-> Initial]]
        /\ edits = [d \in Devices |-> [s \in Settings |-> 0]]
        /\ field = [d \in Devices |->
              [s \in Settings |-> [local |-> Initial, revision |-> 2, native |-> 0]]]
        /\ pending = [d \in Devices |-> None]
        /\ deferred = [d \in Devices |-> {}]
        /\ requests = [d \in Devices |-> 0]
        /\ job = [d \in Devices |-> NoJob]
        /\ review = [d \in Devices |-> None]
        /\ carrier = [d \in Devices |-> [s \in Settings |-> 1]]
        /\ made = 0 /\ answered = 0 /\ interrupts = 0

-----------------------------------------------------------------------------
(* The user and the store *)

\* The preferences are saved at once, whatever the sync does.
ChangeSetting(d, s, v) ==
    /\ made < MaxEdits /\ native[d][s] # v
    /\ native' = [native EXCEPT ![d][s] = v]
    /\ edits' = [edits EXCEPT ![d][s] = @ + 1]
    /\ carrier' = [carrier EXCEPT ![d][s] = 0]
    /\ made' = made + 1
    /\ UNCHANGED <<historyVars, driveVars, field, pending, deferred, requests,
                   job, review, answered, interrupts>>

\* A setting differs from what was last shared, or was changed and set back.
Unsaved(d, s) ==
    native[d][s] # field[d][s].local \/ edits[d][s] > field[d][s].native

\* A device takes a job; the bound keeps the others waiting.
Free(d) ==
    /\ job[d].at = "idle"
    /\ Cardinality({e \in Devices : job[e].at # "idle"}) < MaxBusy

Goto(d, at) == job' = [job EXCEPT ![d].at = at]
EndsJob(d) == job' = [job EXCEPT ![d] = NoJob]

Deferrable(d) == {p \in deferred[d] : p.setting \notin job[d].excluded}
Capturable(d) ==
    {s \in Settings : /\ Unsaved(d, s) /\ s \notin job[d].excluded
                      /\ \A p \in deferred[d] : p.setting # s}

\* A change is saved with its identity before anybody hears of it.
CaptureChange(d) ==
    \/ /\ pending[d] # None
       /\ UNCHANGED <<pending, deferred, requests>>
    \/ /\ pending[d] = None /\ Deferrable(d) # {}
       /\ LET s == Min({p.setting : p \in Deferrable(d)})
              p == CHOOSE q \in Deferrable(d) : q.setting = s
          IN  /\ pending' = [pending EXCEPT ![d] = p]
              /\ deferred' = [deferred EXCEPT ![d] = @ \ {p}]
       /\ UNCHANGED requests
    \/ /\ pending[d] = None /\ Deferrable(d) = {} /\ Capturable(d) # {}
       /\ LET s == Min(Capturable(d))
          IN pending' = [pending EXCEPT ![d] =
                [setting |-> s, request |-> requests[d] + 1,
                 expected |-> field[d][s].revision, value |-> native[d][s],
                 native |-> edits[d][s], resolutions |-> {}]]
       /\ requests' = [requests EXCEPT ![d] = @ + 1]
       /\ UNCHANGED deferred

NothingToCapture(d) ==
    pending[d] = None /\ Deferrable(d) = {} /\ Capturable(d) = {}

-----------------------------------------------------------------------------
(* Admission *)

StartPass(d) ==
    /\ Free(d)
    /\ Goto(d, "capture")
    /\ UNCHANGED <<historyVars, driveVars, storeVars, review, carrier, limits>>

\* The loop takes one change after another until none is left.
Capture(d) ==
    /\ job[d].at = "capture"
    /\ \/ CaptureChange(d) /\ Goto(d, "admit")
       \/ NothingToCapture(d) /\ Goto(d, "recheck")
          /\ UNCHANGED <<pending, deferred, requests>>
    /\ UNCHANGED <<historyVars, driveVars, native, edits, field, review, carrier, limits>>

\* A change made since the last look is saved, and the pass ends.
Recheck(d) ==
    /\ job[d].at = "recheck"
    /\ \/ CaptureChange(d) /\ EndsJob(d)
       \/ NothingToCapture(d) /\ Goto(d, "discover")
          /\ UNCHANGED <<pending, deferred, requests>>
    /\ UNCHANGED <<historyVars, driveVars, native, edits, field, review, carrier, limits>>

OwnOperation(d, p) ==
    {k \in DOMAIN operations : operations[k].device = d /\ operations[k].request = p.request}

\* The history has moved past what the change was based on.
Outdated(h, p) ==
    \/ h.revision < p.expected
    \/ p.resolutions # {} /\ (Cardinality(h.versions[p.setting]) <= 1
                                \/ h.versions[p.setting] # p.resolutions)
    \/ h.changed[p.setting] > p.expected
    \/ Cardinality(h.versions[p.setting]) > 1 /\ p.resolutions = {}

\* The history, the operations and the operation after an edit request.  A
\* request that was taken before is answered from the record.
Edit(d, p) ==
    LET h == history[d]
        k == Len(operations) + 1
        op == [device |-> d, request |-> p.request, parents |-> h.heads,
               changes |-> [s \in {p.setting} |-> p.value]]
        ops == Append(operations, op)
    IN  IF OwnOperation(d, p) # {}
        THEN [ops |-> operations, history |-> h, operation |-> Min(OwnOperation(d, p))]
        ELSE [ops |-> ops, history |-> Insert(ops, h, k), operation |-> k]

Refused(d, p) ==
    \/ OwnOperation(d, p) = {} /\ Outdated(history[d], p)
    \/ Edit(d, p).history.versions[p.setting] # {Edit(d, p).operation}

\* A history with a gap refuses every edit and the pass fails.  A refused
\* change waits for a review; in a review the refusal is the answer.
AdmitChange(d) ==
    LET p == pending[d]
        edit == Edit(d, p)
    IN  /\ job[d].at = "admit"
        /\ \/ /\ ~Initialized(history[d])
              /\ EndsJob(d)
              /\ UNCHANGED <<historyVars, carrier>>
           \/ /\ Initialized(history[d]) /\ Refused(d, p)
              /\ IF job[d].task = "sync" THEN Goto(d, "defer") ELSE EndsJob(d)
              /\ UNCHANGED <<historyVars, carrier>>
           \/ /\ Initialized(history[d]) /\ ~Refused(d, p)
              /\ operations' = edit.ops
              /\ history' = [history EXCEPT ![d] = edit.history]
              /\ job' = [job EXCEPT ![d].at = "acknowledge",
                                    ![d].receipt = edit.history.revision]
              /\ carrier' = [carrier EXCEPT ![d][p.setting] =
                    IF p.native = edits[d][p.setting] THEN edit.operation ELSE @]
        /\ UNCHANGED <<driveVars, storeVars, review, limits>>

\* The acknowledgment reads the settings back.
AcknowledgeShown(d) ==
    LET s == pending[d].setting
    IN  /\ job[d].at = "acknowledge"
        /\ field' = [field EXCEPT ![d][s] =
              [local |-> native[d][s], revision |-> job[d].receipt, native |-> edits[d][s]]]
        /\ pending' = [pending EXCEPT ![d] = None]
        /\ IF job[d].task = "sync"
             THEN job' = [job EXCEPT ![d].at = "capture", ![d].receipt = 0]
             ELSE EndsJob(d)
        /\ UNCHANGED <<historyVars, driveVars, native, edits, deferred, requests,
                       review, carrier, limits>>

\* The settings may be newer than the change by now; they are not read.
AcknowledgeChange(d) ==
    LET p == pending[d]
    IN  /\ job[d].at = "acknowledge"
        /\ field' = [field EXCEPT ![d][p.setting] =
              [local |-> p.value, revision |-> job[d].receipt, native |-> p.native]]
        /\ pending' = [pending EXCEPT ![d] = None]
        /\ IF job[d].task = "sync"
             THEN job' = [job EXCEPT ![d].at = "capture", ![d].receipt = 0]
             ELSE EndsJob(d)
        /\ UNCHANGED <<historyVars, driveVars, native, edits, deferred, requests,
                       review, carrier, limits>>

DeferChange(d) ==
    LET p == pending[d]
    IN  /\ job[d].at = "defer"
        /\ deferred' = [deferred EXCEPT ![d] = @ \union {p}]
        /\ pending' = [pending EXCEPT ![d] = None]
        /\ job' = [job EXCEPT ![d].at = "capture", ![d].excluded = @ \union {p.setting}]
        /\ UNCHANGED <<historyVars, driveVars, native, edits, field, requests,
                       review, carrier, limits>>

-----------------------------------------------------------------------------
(* The pull *)

\* The catalog follows the change stream; a full listing, which repairs a
\* rejected token, has no order of its own.
Discover(d) ==
    LET fresh == {f.operation : f \in drive} \ Range(observed[d])
    IN  /\ job[d].at = "discover"
        /\ \E order \in SetToSeqs(fresh) :
              observed' = [observed EXCEPT ![d] = @ \o order]
        /\ Goto(d, "copy")
        /\ UNCHANGED <<historyVars, drive, copied, storeVars, review, carrier, limits>>

Import(d) ==
    /\ job[d].at = "copy" /\ copied[d] < Len(observed[d])
    /\ history' = [history EXCEPT ![d] =
          ImportRecord(operations, @, observed[d][copied[d] + 1])]
    /\ Goto(d, "checkpoint")
    /\ UNCHANGED <<operations, driveVars, storeVars, review, carrier, limits>>

Checkpoint(d) ==
    /\ job[d].at = "checkpoint"
    /\ copied' = [copied EXCEPT ![d] = @ + 1]
    /\ Goto(d, "copy")
    /\ UNCHANGED <<historyVars, drive, observed, storeVars, review, carrier, limits>>

Drain(d) ==
    /\ job[d].at = "copy" /\ copied[d] = Len(observed[d])
    /\ IF Initialized(history[d]) THEN Goto(d, "apply") ELSE EndsJob(d)
    /\ UNCHANGED <<historyVars, driveVars, storeVars, review, carrier, limits>>

-----------------------------------------------------------------------------
(* The application *)

\* A conflict is settled by the first version of the list.
AnyVersion(d, s) == history[d].versions[s] # {}

Single(d, s) == Cardinality(history[d].versions[s]) = 1
Version(d, s) == Min(history[d].versions[s])
SharedValue(d, s) == ValueOf(operations, Version(d, s), s)

\* A shared value reaches a setting unless the user has something to say:
\* a change that is on its way, one that waits, or one nobody captured yet.
Takes(d, s) ==
    /\ Single(d, s)
    /\ field[d][s].revision <= history[d].changed[s]
    /\ \A p \in deferred[d] \union {pending[d]} : p.setting # s
    /\ Unsaved(d, s) => native[d][s] = SharedValue(d, s)

ApplyObservation(d) ==
    /\ job[d].at = "apply"
    /\ native' = [native EXCEPT ![d] = [s \in Settings |->
          IF Takes(d, s) THEN SharedValue(d, s) ELSE @[s]]]
    /\ field' = [field EXCEPT ![d] = [s \in Settings |->
          IF Takes(d, s)
          THEN [local |-> SharedValue(d, s), revision |-> history[d].changed[s],
                native |-> edits[d][s]]
          ELSE @[s]]]
    /\ carrier' = [carrier EXCEPT ![d] = [s \in Settings |->
          IF Takes(d, s) THEN Version(d, s) ELSE @[s]]]
    /\ Goto(d, "publish")
    /\ UNCHANGED <<historyVars, driveVars, edits, pending, deferred, requests,
                   review, limits>>

-----------------------------------------------------------------------------
(* The upload *)

\* A file identity is obtained once and kept, so that a retry names the
\* same file.
Reserve(d) ==
    LET k == NextUpload(d)
        fresh == Cardinality(drive \union UNION {Range(history[e].files) : e \in Devices}) + 1
        known == {f \in Range(history[d].files) : f.operation = k}
    IN  /\ job[d].at = "publish" /\ ToUpload(d) # {}
        /\ IF known # {} THEN UNCHANGED history
           ELSE history' = [history EXCEPT
                    ![d].files = Append(@, [file |-> fresh, operation |-> k]),
                    ![d].revision = @ + 1]
        /\ Goto(d, "upload")
        /\ UNCHANGED <<operations, driveVars, storeVars, review, carrier, limits>>

Reservation(d) ==
    CHOOSE f \in Range(history[d].files) : f.operation = NextUpload(d)

\* The file is created, or found where an earlier attempt left it.
Upload(d) ==
    /\ job[d].at = "upload"
    /\ drive' = drive \union {Reservation(d)}
    /\ Goto(d, "confirm")
    /\ UNCHANGED <<historyVars, observed, copied, storeVars, review, carrier, limits>>

Confirm(d) ==
    /\ job[d].at = "confirm"
    /\ history' = [history EXCEPT
          ![d].uploaded = @ \union {NextUpload(d)}, ![d].revision = @ + 1]
    /\ Goto(d, "publish")
    /\ UNCHANGED <<operations, driveVars, storeVars, review, carrier, limits>>

FinishPass(d) ==
    /\ job[d].at = "publish" /\ ToUpload(d) = {}
    /\ EndsJob(d)
    /\ UNCHANGED <<historyVars, driveVars, storeVars, review, carrier, limits>>

\* The user stops the check, a request or its answer is lost, the program
\* ends: what was saved stays, the job is gone.
Interrupt(d) ==
    /\ interrupts < MaxInterrupts /\ job[d].at # "idle"
    /\ EndsJob(d)
    /\ interrupts' = interrupts + 1
    /\ UNCHANGED <<historyVars, driveVars, storeVars, review, carrier, made, answered>>

-----------------------------------------------------------------------------
(* The review *)

Awaiting(d, s) == {p.request : p \in {q \in deferred[d] \union {pending[d]} : q.setting = s}}

\* The screen shows the versions and what the user has.
Prepare(d, s) ==
    /\ job[d].at = "idle" /\ Initialized(history[d]) /\ answered < MaxReviews
    /\ \/ ~Single(d, s)
       \/ Awaiting(d, s) # {}
       \/ Unsaved(d, s) /\ native[d][s] # SharedValue(d, s)
    /\ review' = [review EXCEPT ![d] =
          [setting |-> s, local |-> native[d][s], native |-> edits[d][s],
           awaiting |-> Awaiting(d, s), revision |-> history[d].revision,
           versions |-> history[d].versions[s]]]
    /\ UNCHANGED <<historyVars, driveVars, storeVars, job, carrier, limits>>

\* Neither the history nor the setting has moved since.
Current(d) ==
    LET r == review[d]
    IN  /\ Initialized(history[d])
        /\ history[d].revision = r.revision
        /\ history[d].versions[r.setting] = r.versions
        /\ native[d][r.setting] = r.local /\ edits[d][r.setting] = r.native
        /\ Awaiting(d, r.setting) = r.awaiting
        /\ pending[d] = None \/ pending[d].setting = r.setting

\* The choice becomes the setting and the pending change at once; then it
\* is admitted like any other.
Accept(d, v) ==
    LET r == review[d]
        s == r.setting
        now == edits[d][s] + (IF v = native[d][s] THEN 0 ELSE 1)
    IN  /\ Free(d) /\ review[d] # None
        /\ answered < MaxReviews
        /\ Current(d)
        /\ v \in {r.local} \union {ValueOf(operations, k, s) : k \in r.versions}
        /\ native' = [native EXCEPT ![d][s] = v]
        /\ edits' = [edits EXCEPT ![d][s] = now]
        /\ carrier' = [carrier EXCEPT ![d][s] = IF v = native[d][s] THEN @ ELSE 0]
        /\ pending' = [pending EXCEPT ![d] =
              [setting |-> s, request |-> requests[d] + 1, expected |-> r.revision,
               value |-> v, native |-> now,
               resolutions |-> IF Cardinality(r.versions) > 1 THEN r.versions ELSE {}]]
        /\ deferred' = [deferred EXCEPT ![d] = {p \in @ : p.setting # s}]
        /\ requests' = [requests EXCEPT ![d] = @ + 1]
        /\ review' = [review EXCEPT ![d] = None]
        /\ job' = [job EXCEPT ![d].at = "admit", ![d].task = "review"]
        /\ answered' = answered + 1
        /\ UNCHANGED <<historyVars, driveVars, field, made, interrupts>>

-----------------------------------------------------------------------------
Pass(d) ==
    \/ StartPass(d) \/ Capture(d) \/ Recheck(d) \/ AdmitChange(d) \/ AcknowledgeChange(d) \/ DeferChange(d)
    \/ Discover(d) \/ Import(d) \/ Checkpoint(d) \/ Drain(d) \/ ApplyObservation(d)
    \/ Reserve(d) \/ Upload(d) \/ Confirm(d) \/ FinishPass(d)

ProfileNext == \E d \in Devices :
    \/ Pass(d) \/ Interrupt(d)
    \/ \E s \in Settings : Prepare(d, s) \/ \E v \in SettingValues : ChangeSetting(d, s, v)
    \/ \E v \in SettingValues : Accept(d, v)

\* A pass is started again and again, and every pass ends: no step of it
\* blocks.
ProfileFairness ==
    \A d \in Devices : SF_profileVars(StartPass(d)) /\ []<>(job[d].at = "idle")
ProfileSpec == ProfileInit /\ [][ProfileNext]_profileVars /\ ProfileFairness

-----------------------------------------------------------------------------
(* Properties *)

\* In whatever order the records arrived, the versions of a setting are the
\* applied operations that no applied operation has replaced: two devices
\* that know the same operations show the same versions.
VersionsAreNewest ==
    \A d \in Devices, s \in Settings :
        LET known == {k \in history[d].applied : Touches(operations, k, s)}
        IN history[d].versions[s] =
            {k \in known : \A later \in known : k \notin Ancestry(operations)[later]}

\* A sync replaces what the user sees only by a value whose author had seen
\* it: no change is lost, none that waits, none that was set back.
NothingIsOverwritten ==
    [][\A d \in Devices, s \in Settings :
         native'[d][s] # native[d][s] /\ carrier'[d][s] # 0
            => carrier[d][s] \in Ancestry(operations')[carrier'[d][s]]]_profileVars

\* A setting with nothing to capture, admit or review shows the version of
\* the history it has seen.
UpToDate(d, s) ==
    /\ ~Unsaved(d, s) /\ Awaiting(d, s) = {} /\ Single(d, s)
    /\ field[d][s].revision >= history[d].changed[s]
SettledMeansShared ==
    \A d \in Devices, s \in Settings : UpToDate(d, s) => native[d][s] = SharedValue(d, s)

\* Records whose parents arrive later wait until the parent is imported.
RecordsDrain ==
    \A d \in Devices : ~Initialized(history[d]) ~> Initialized(history[d])

=============================================================================
