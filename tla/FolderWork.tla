------------------------------ MODULE FolderWork ------------------------------
(***************************************************************************)
(* Two journals of one account's folders: a reviewed rename, move or        *)
(* deletion of a folder with everything below it (folder_jobs), and the     *)
(* creation of a folder (folder_creations).                                 *)
(*                                                                         *)
(* A folder is a leaf at a place.  The reviewed folder is Root and the      *)
(* other leaves lie directly below it; a rename or a move takes them from   *)
(* "here" to "there".  On the server other clients create and delete        *)
(* folders at any time.  Each folder that the cache knew at the start has   *)
(* one message, which stands for all its mail.                              *)
(***************************************************************************)
EXTENDS Naturals, FiniteSets

CONSTANTS
    Leaves,       \* 1 .. n, numbered in the order of deletion: the root is last
    Made,         \* the leaf that is asked to be created, "here"
    MaxReviews,   \* bound: folder changes that are started
    MaxRequests,  \* bound: creations that are asked for
    MaxOthers,    \* bound: folders that other clients create or delete
    MaxFolderStops      \* bound: crashes

ASSUME LeavesAssumption ==
    /\ IsFiniteSet(Leaves) /\ Leaves # {} /\ Leaves = 1 .. Cardinality(Leaves)
    /\ Made \in Leaves \ {Cardinality(Leaves)}

VARIABLES
    imap,       \* whether the account has a server, which never changes
    served,     \* what the server lists
    stored,     \* where the server has the mail of each leaf
    catalog,    \* the cached listing
    cached,     \* where the cache has the mail of each leaf
    folderForm, \* the review that waits for its confirmation
    job,        \* the folder change
    runner,     \* the executor of the folder change
    mailWork,   \* whether mail changes of the account are unfinished
    creation,   \* the saved request to create a folder
    maker,      \* the executor of the creation
    applied,    \* history: leaves whose command took effect
    made,       \* history: whether our CREATE took effect, and was not undone
    spent       \* how much of each bound is used

folderServer == <<served, stored>>
folderCache  == <<catalog, cached>>
change       == <<folderForm, job, runner, applied>>
asked        == <<creation, maker, made>>
folderVars   == <<imap, folderServer, folderCache, change, asked, mailWork, spent>>

Root  == Cardinality(Leaves)
Sides == {"here", "there"}
ListedKinds == {"none", "mail", "container"}    \* \NoSelect is a container
Listings    == [Sides -> [Leaves -> ListedKinds]]
FoundKinds  == ListedKinds \cup {"inferred"}     \* above a folder, itself unlisted
Steps == {"none", "Queued", "Running", "Acknowledged", "Done", "Rejected",
          "Uncertain", "Accepted", "Cancelled"}
CreationStages ==
    {"none", "queued", "waiting", "running", "checking", "repair", "succeeded",
     "rejected", "uncertain", "cancelled", "dismissed"}
FolderOutcomes == {"applied", "rejected", "uncertain"}
Budget == [reviews |-> 0, requests |-> 0, others |-> 0, stops |-> 0]

NoPlan     == [action |-> "none", kinds |-> [l \in Leaves |-> "none"], mail |-> {}]
NoJob      == [open |-> FALSE, plan |-> NoPlan, step |-> [l \in Leaves |-> "none"]]
RunnerOff  == [at |-> "off", leaf |-> Root, outcome |-> "applied"]
NoCreation == [stage |-> "none", target |-> FALSE, receipt |-> FALSE]
MakerOff   == [at |-> "off", stale |-> FALSE, outcome |-> "applied"]

FolderInit ==
    /\ imap \in BOOLEAN
    /\ \E root \in ListedKinds, below \in [Leaves \ {Root} -> {"none", "mail"}] :
          /\ served = [p \in Sides |-> [l \in Leaves |->
                          CASE p = "there" -> "none"
                            [] p = "here" /\ l = Root -> root
                            [] OTHER -> below[l]]]
          /\ stored = [l \in Leaves |->
                          IF served["here"][l] = "mail" THEN "here" ELSE "gone"]
    /\ catalog = served /\ cached = stored
    /\ folderForm = NoPlan /\ job = NoJob /\ runner = RunnerOff
    /\ mailWork = FALSE
    /\ creation = NoCreation /\ maker = MakerOff
    /\ applied = {} /\ made = FALSE /\ spent = Budget

Spend(what, limit) == spent[what] < limit /\ spent' = [spent EXCEPT ![what] = @ + 1]

----------------------------------------------------------------------------
(* Trees and plans. *)

Below(c, p) == {l \in Leaves \ {Root} : c[p][l] # "none"}
(* Tree::node: an ancestor of a listed folder is there even if unlisted. *)
Node(c, p, l) ==
    IF c[p][l] = "none" /\ l = Root /\ Below(c, p) # {} THEN "inferred" ELSE c[p][l]
Nodes(c, p) == {l \in Leaves : Node(c, p, l) # "none"}

TreeKinds(c) == [l \in Leaves |-> Node(c, "here", l)]
Members(plan) == {l \in Leaves : plan.kinds[l] # "none"}
(* Plan::new: the root exists, and nothing is in the way of a rename. *)
Plannable(c, action) ==
    /\ Node(c, "here", Root) # "none"
    /\ action = "rename" => Nodes(c, "there") \cap Nodes(c, "here") = {}

(* A rename is one command; folders are deleted one by one, deepest first. *)
StepLeaves(plan) == IF plan.action = "rename" THEN {Root} ELSE Members(plan)

HasStep(j, statuses) == \E l \in Leaves : j.step[l] \in statuses
Deleted(j) == {l \in Leaves : j.step[l] = "Done"}
Remaining(j) == Members(j.plan) \ Deleted(j)

Missing(c, j) == {l \in Remaining(j) : Node(c, "here", l) = "none"}
(* Job::preflight, on a listing taken just before every command. *)
Preflight(c, j) ==
    IF j.plan.action = "rename"
    THEN Plannable(c, "rename") /\ TreeKinds(c) = j.plan.kinds
    ELSE /\ \A l \in Remaining(j) \ Missing(c, j) :
                Node(c, "here", l) = j.plan.kinds[l]
         /\ \A l \in Missing(c, j) : j.plan.kinds[l] # "mail"
         /\ Node(c, "here", Root) # "none" => Nodes(c, "here") \subseteq Remaining(j)

(* confirm_renamed_catalog: the folders are where the server said they are. *)
Confirmed(c, plan) ==
    \A l \in Members(plan) :
        plan.kinds[l] \in {"mail", "container"} =>
            /\ Node(c, "there", l) # "none"
            /\ (Node(c, "there", l) = "mail") <=> (plan.kinds[l] = "mail")

----------------------------------------------------------------------------
(* What may be open together. *)

OpenCreations ==
    {"queued", "waiting", "running", "checking", "repair", "rejected", "uncertain"}
NoFolderJob  == ~job.open
FoldersReady == ~mailWork /\ creation.stage \notin OpenCreations
FoldersFree == runner.at = "off" /\ maker.at = "off"    \* nothing is exclusive

(* Bulk work, a move or an outgoing message of the account is admitted, and   *)
(* ends.                                                                     *)
AdmitMail ==
    /\ NoFolderJob /\ ~mailWork
    /\ mailWork' = TRUE
    /\ UNCHANGED <<imap, folderServer, folderCache, change, asked, spent>>
FinishMail ==
    /\ mailWork /\ FoldersFree
    /\ mailWork' = FALSE
    /\ UNCHANGED <<imap, folderServer, folderCache, change, asked, spent>>

(* A mail check saves the listing that it read. *)
RefreshFolders ==
    /\ imap /\ FoldersFree /\ NoFolderJob
    /\ catalog' = served /\ catalog' # catalog
    /\ UNCHANGED <<imap, folderServer, cached, change, mailWork, asked,
                   spent>>

----------------------------------------------------------------------------
(* A folder change: review, confirmation, execution. *)

Reviewed(action) ==
    [action |-> action, kinds |-> TreeKinds(catalog),
     mail |-> {l \in Nodes(catalog, "here") : cached[l] = "here"}]

(* The destination of a rename must hold no cached mail. *)
Reviewable(action) ==
    /\ NoFolderJob /\ FoldersReady
    /\ Plannable(catalog, action)
    /\ action = "rename" => \A l \in Nodes(catalog, "here") : cached[l] # "there"

Review(action) ==
    /\ Reviewable(action)
    /\ folderForm' = Reviewed(action) /\ folderForm' # folderForm
    /\ UNCHANGED <<imap, folderServer, folderCache, job, runner, mailWork,
                   asked, applied, spent>>

StartFolders ==
    /\ folderForm # NoPlan
    /\ Reviewable(folderForm.action) /\ folderForm = Reviewed(folderForm.action)
    /\ Spend("reviews", MaxReviews)
    /\ job' = [open |-> TRUE, plan |-> folderForm,
               step |-> [l \in Leaves |->
                           IF l \in StepLeaves(folderForm) THEN "Queued" ELSE "none"]]
    /\ folderForm' = NoPlan /\ applied' = {}
    /\ UNCHANGED <<imap, folderServer, folderCache, runner, mailWork, asked>>

RecoveredSteps_Queued(j) ==                                            \* mutant
    [j EXCEPT !.step = [l \in Leaves |->
        IF @[l] = "Running" THEN "Queued" ELSE @[l]]]
RecoveredSteps(j) ==
    [j EXCEPT !.step = [l \in Leaves |->
        IF @[l] = "Running" THEN (IF imap THEN "Uncertain" ELSE "Queued") ELSE @[l]]]

(* Closed as soon as no step is left. *)
Closed(j) ==
    [j EXCEPT !.open = HasStep(j, Steps \ {"none", "Done", "Accepted", "Cancelled"})]

(* The scheduler takes an open job without a step to review, under the       *)
(* account's exclusive access; connecting may fail.                          *)
Take ==
    /\ job.open /\ FoldersFree
    /\ ~HasStep(job, {"Rejected", "Uncertain"})
    /\ job' = RecoveredSteps(job)
    /\ \/ UNCHANGED runner
       \/ /\ ~HasStep(job', {"Uncertain"})
          /\ runner' = [RunnerOff EXCEPT !.at =
                           IF HasStep(job, {"Acknowledged"}) THEN "confirm"
                           ELSE "next"]
    /\ UNCHANGED <<imap, folderServer, folderCache, folderForm, mailWork,
                   asked, applied, spent>>

(* Every listing may fail, and a requested stop is seen before it. *)
GiveUpTurn ==
    /\ runner.at \in {"confirm", "next"}
    /\ runner' = RunnerOff
    /\ UNCHANGED <<imap, folderServer, folderCache, folderForm, job, mailWork,
                   asked, applied, spent>>

Claimable(j, l) ==
    /\ j.open /\ ~HasStep(j, {"Running", "Acknowledged", "Rejected", "Uncertain"})
    /\ j.step[l] = "Queued"
    /\ \A m \in Leaves : j.step[m] = "Queued" => l <= m

(* Only a folder that is listed is deleted by a command. *)
NeedsCommand(c, l) ==
    job.plan.action = "delete" =>
        job.plan.kinds[l] # "inferred" /\ l \notin Missing(c, job)

(* One turn of the loop: a listing, the preflight, the claim.  A container    *)
(* that is not on the server, and every folder of an account without one,    *)
(* needs no command.                                                         *)
ClaimStep ==
    LET listing == IF imap THEN served ELSE catalog IN
    /\ runner.at = "next"
    /\ Preflight(listing, job) /\ FoldersReady
    /\ \E l \in Leaves :
          /\ Claimable(job, l)
          /\ job' = [job EXCEPT !.step[l] = "Running"]
          /\ runner' = [leaf |-> l, outcome |-> "applied",
                        at |-> IF imap /\ NeedsCommand(listing, l) THEN "send"
                               ELSE "record"]
    /\ UNCHANGED <<imap, folderServer, folderCache, folderForm, mailWork,
                   asked, applied, spent>>

(* RENAME takes along what lies below; DELETE of a folder with others below   *)
(* it is refused or leaves a container.                                      *)
Renames ==
    /\ Node(served, "here", Root) # "none"
    /\ \A l \in Leaves : served["here"][l] # "none" => served["there"][l] = "none"
    /\ served["there"][Root] = "none"
    /\ served' = [here  |-> [l \in Leaves |-> "none"],
                  there |-> [l \in Leaves |->
                                IF served["here"][l] # "none"
                                THEN served["here"][l] ELSE served["there"][l]]]
    /\ stored' = [l \in Leaves |-> IF stored[l] = "here" THEN "there" ELSE stored[l]]
Removes(l) ==
    /\ served["here"][l] # "none"
    /\ l = Root /\ Below(served, "here") # {} => served["here"][l] = "mail"
    /\ served' = [served EXCEPT !["here"][l] =
                     IF l = Root /\ Below(served, "here") # {} THEN "container" ELSE "none"]
    /\ stored' = [stored EXCEPT ![l] = IF @ = "here" THEN "gone" ELSE @]

(* The command is carried out or not, and the answer arrives or is lost.     *)
SendCommand ==
    LET l == runner.leaf IN
    /\ runner.at = "send"
    /\ \E outcome \in FolderOutcomes :
          /\ runner' = [runner EXCEPT !.at = "record", !.outcome = outcome]
          /\ \/ /\ outcome # "rejected"
                /\ IF job.plan.action = "rename" THEN Renames ELSE Removes(l)
                /\ applied' = applied \cup {l}
             \/ outcome # "applied" /\ UNCHANGED <<folderServer, applied>>
    /\ UNCHANGED <<imap, folderCache, folderForm, job, mailWork, asked,
                   spent>>

StepAfter(outcome) ==
    CASE outcome = "applied" -> "Acknowledged"
      [] outcome = "rejected" -> "Rejected"
      [] outcome = "uncertain" -> "Uncertain"
RecordStep ==
    /\ runner.at = "record"
    /\ job' = [job EXCEPT !.step[runner.leaf] = StepAfter(runner.outcome)]
    /\ runner' = [RunnerOff EXCEPT !.at =
                     IF runner.outcome = "applied" THEN "confirm" ELSE "off"]
    /\ UNCHANGED <<imap, folderServer, folderCache, folderForm, mailWork,
                   asked, applied, spent>>

(* commit: the mail of the members moves or goes, and so do their entries.   *)
Carried_All(l) == Members(job.plan)                               \* mutant
Carried(l) == IF job.plan.action = "rename" THEN Members(job.plan) ELSE {l}
Unlisted(leaves) ==
    [m \in Leaves |-> IF m \in leaves THEN "none" ELSE catalog["here"][m]]
Commit(l) ==
    LET moved == Carried(l) IN
    /\ IF job.plan.action = "rename"
       THEN /\ cached' = [m \in Leaves |-> IF m \in moved /\ cached[m] = "here"
                                           THEN "there" ELSE cached[m]]
            /\ catalog' = [here  |-> Unlisted(moved),
                           there |-> [m \in Leaves |->
                               catalog[IF m \in moved THEN "here" ELSE "there"][m]]]
       ELSE /\ cached' = [m \in Leaves |-> IF m \in moved /\ cached[m] = "here"
                                           THEN "gone" ELSE cached[m]]
            /\ catalog' = [catalog EXCEPT !["here"] = Unlisted(moved)]
    /\ job' = Closed([job EXCEPT !.step[l] = "Done"])

(* An acknowledged rename reaches the cache when a listing shows it. *)
Confirm ==
    /\ runner.at = "confirm"
    /\ \E l \in Leaves :
          /\ job.step[l] = "Acknowledged"
          /\ (imap /\ job.plan.action = "rename") => Confirmed(served, job.plan)
          /\ Commit(l)
    /\ runner' = [RunnerOff EXCEPT !.at = IF job'.open THEN "next" ELSE "off"]
    /\ UNCHANGED <<imap, folderServer, folderForm, mailWork, asked, applied,
                   spent>>

(* Review of what was refused or is not known.  Both wait for the executor.  *)
Retried(j) ==
    [j EXCEPT !.step = [l \in Leaves |->
        IF @[l] = "Rejected" THEN "Queued" ELSE @[l]]]
RetryFolders ==
    LET known == RecoveredSteps(job) IN
    /\ job.open /\ runner.at = "off"
    /\ job' = IF HasStep(known, {"Uncertain", "Acknowledged"}) THEN known
              ELSE Retried(known)
    /\ job' # job
    /\ UNCHANGED <<imap, folderServer, folderCache, folderForm, runner,
                   mailWork, asked, applied, spent>>

Stopped(status) ==
    CASE status = "Uncertain" -> "Accepted"
      [] status \in {"Queued", "Rejected"} -> "Cancelled"
      [] OTHER -> status
StopFolders(accept) ==
    /\ job.open /\ runner.at = "off"
    /\ ~HasStep(job, {"Running", "Acknowledged"})
    /\ accept \/ ~HasStep(job, {"Uncertain"})
    /\ job' = Closed([job EXCEPT !.step = [l \in Leaves |-> Stopped(@[l])]])
    /\ UNCHANGED <<imap, folderServer, folderCache, folderForm, runner,
                   mailWork, asked, applied, spent>>

----------------------------------------------------------------------------
(* A creation: request, decisions, execution. *)

(* The name is asked for once at a time, and not before an executor that a     *)
(* cancelled request left behind has noticed.                                *)
AskCreation ==
    /\ NoFolderJob /\ maker.at = "off"
    /\ creation.stage \notin OpenCreations
    /\ Spend("requests", MaxRequests)
    /\ creation' = [NoCreation EXCEPT !.stage = "queued"]
    /\ made' = FALSE
    /\ UNCHANGED <<imap, folderServer, folderCache, change, mailWork, maker>>

(* A decision waits for nobody: an executor that read the row before it is    *)
(* refused at its next write, because the row is no longer what it expects.   *)
Decide(stage) ==
    /\ creation' = [creation EXCEPT !.stage = stage]
    /\ maker' = [maker EXCEPT !.stale = maker.at # "off"]
    /\ UNCHANGED <<imap, folderServer, folderCache, change, mailWork, made,
                   spent>>
CancelCreation ==
    creation.stage \in {"queued", "waiting", "rejected"} /\ Decide("cancelled")
RetryCreation ==
    /\ NoFolderJob
    /\ \/ creation.stage \in {"queued", "waiting", "rejected"} /\ Decide("queued")
       \/ creation.stage = "uncertain" /\ ~creation.receipt /\ Decide("checking")
       \/ creation.stage = "repair" /\ Decide("repair")
DismissCreation == creation.stage = "uncertain" /\ Decide("dismissed")

(* The scheduler takes a request under the exclusive access to the account.    *)
TakeCreation ==
    /\ imap /\ FoldersFree
    /\ creation.stage \in {"queued", "checking", "repair"}
    /\ maker' = [MakerOff EXCEPT !.at =
                    CASE creation.stage = "queued" /\ ~creation.target -> "plan"
                      [] creation.stage = "repair" -> "list"
                      [] OTHER -> "inspect"]
    /\ UNCHANGED <<imap, folderServer, folderCache, change, creation, made, mailWork, spent>>

(* Without a server the folder is made in the listing, or cannot be.          *)
CreateLocally ==
    /\ ~imap /\ FoldersFree
    /\ creation.stage = "queued"
    /\ IF catalog["here"][Root] # "none" /\ catalog["here"][Made] # "container"
       THEN /\ catalog' = [catalog EXCEPT !["here"][Made] = "mail"]
            /\ creation' = [stage |-> "succeeded", target |-> TRUE, receipt |-> TRUE]
       ELSE /\ creation' = [creation EXCEPT !.stage = "waiting"]
            /\ UNCHANGED catalog
    /\ UNCHANGED <<imap, folderServer, cached, change, maker, made, mailWork, spent>>

(* Where a failure, or a write that was refused, leaves the request. *)
Failed(stage) ==
    CASE stage \in {"running", "checking"} -> "uncertain"
      [] stage = "queued" -> "waiting"
      [] OTHER -> stage
(* A write of the executor: what it expects to find must still be there.     *)
Saves(next, at) ==
    IF maker.stale
    THEN creation' = [creation EXCEPT !.stage = Failed(@)] /\ maker' = MakerOff
    ELSE creation' = next /\ maker' = [MakerOff EXCEPT !.at = at]
MakerAt(at) == maker.at = at
RestOfMaker == UNCHANGED <<imap, folderServer, cached, change, mailWork, spent>>

(* The parent is asked for; the target is saved before anything is sent.     *)
Plan ==
    /\ MakerAt("plan")
    /\ \/ /\ served["here"][Root] # "none"
          /\ Saves([creation EXCEPT !.target = TRUE], "inspect")
       \/ Saves([creation EXCEPT !.stage = "rejected"], "off")
       \/ Saves([creation EXCEPT !.stage = "waiting"], "off")
    /\ UNCHANGED <<catalog, made>> /\ RestOfMaker

ShownMade == served["here"][Made]
(* A folder that is there needs no command, whoever created it; one that was  *)
(* looked for and is not there may be asked for again.                       *)
Inspect ==
    /\ MakerAt("inspect")
    /\ \/ /\ ShownMade = "mail"
          /\ Saves([creation EXCEPT !.stage = "repair", !.receipt = TRUE], "list")
          /\ UNCHANGED made
       \/ /\ ShownMade = "none"
          /\ IF creation.stage = "checking"
             THEN Saves([creation EXCEPT !.stage = "rejected"], "off")
             ELSE Saves([creation EXCEPT !.stage = "running"], "create")
          /\ made' = FALSE
       \/ /\ Saves([creation EXCEPT !.stage = Failed(@)], "off")
          /\ UNCHANGED made
    /\ UNCHANGED catalog /\ RestOfMaker

(* CREATE; "unsent" is a connection that could not be opened. *)
Create ==
    /\ MakerAt("create")
    /\ \E outcome \in FolderOutcomes \cup {"unsent"} :
          /\ maker' = [maker EXCEPT !.at = "answer", !.outcome = outcome]
          /\ \/ /\ outcome \in {"applied", "uncertain"}
                /\ ShownMade = "none"
                /\ served' = [served EXCEPT !["here"][Made] = "mail"]
                /\ made' = TRUE
             \/ outcome # "applied" /\ UNCHANGED <<served, made>>
    /\ UNCHANGED <<imap, stored, folderCache, change, mailWork, creation,
                   spent>>

Answer ==
    /\ MakerAt("answer")
    /\ CASE maker.outcome = "applied" ->
              Saves([creation EXCEPT !.stage = "repair", !.receipt = TRUE], "list")
         [] OTHER ->
              LET stage == IF maker.outcome = "unsent" THEN "waiting" ELSE maker.outcome
              IN  Saves([creation EXCEPT !.stage = stage], "off")
    /\ UNCHANGED <<catalog, made>> /\ RestOfMaker

(* The receipt reaches the cache with a listing that shows the folder. *)
List ==
    /\ MakerAt("list")
    /\ \/ /\ ShownMade = "mail" /\ ~maker.stale
          /\ catalog' = served
          /\ creation' = [creation EXCEPT !.stage = "succeeded"]
       \/ UNCHANGED <<catalog, creation>>
    /\ maker' = MakerOff
    /\ UNCHANGED made /\ RestOfMaker

(* A requested stop, before anything was sent. *)
Leave ==
    /\ \/ maker.at \in {"plan", "list"} /\ UNCHANGED creation /\ maker' = MakerOff
       \/ /\ MakerAt("inspect")
          /\ IF creation.stage = "checking"
             THEN Saves([creation EXCEPT !.stage = "uncertain"], "off")
             ELSE UNCHANGED creation /\ maker' = MakerOff
    /\ UNCHANGED <<catalog, made>> /\ RestOfMaker

----------------------------------------------------------------------------
(* Other clients, and the end of the process. *)

OthersCreate(p, l) ==
    /\ imap /\ served[p][l] = "none"
    /\ Spend("others", MaxOthers)
    /\ served' = [served EXCEPT ![p][l] = "mail"]
    /\ UNCHANGED <<imap, stored, folderCache, change, mailWork, asked>>
OthersDelete(p, l) ==
    /\ imap /\ served[p][l] # "none"
    /\ l = Root => Below(served, p) = {}
    /\ Spend("others", MaxOthers)
    /\ served' = [served EXCEPT ![p][l] = "none"]
    /\ stored' = [stored EXCEPT ![l] = IF @ = p THEN "gone" ELSE @]
    /\ UNCHANGED <<imap, folderCache, change, mailWork, asked>>
(* "A server may remove an empty NoSelect ancestor." *)
Tidy ==
    /\ imap /\ served["here"][Root] = "container" /\ Below(served, "here") = {}
    /\ served' = [served EXCEPT !["here"][Root] = "none"]
    /\ UNCHANGED <<imap, stored, folderCache, change, mailWork, asked, spent>>

(* Requests that were interrupted are recovered when the store is opened; an  *)
(* interrupted folder change is, when its executor takes it again.           *)
Crash ==
    /\ ~FoldersFree
    /\ Spend("stops", MaxFolderStops)
    /\ folderForm' = NoPlan /\ runner' = RunnerOff /\ maker' = MakerOff
    /\ creation' = IF creation.stage \in {"running", "checking"}
                   THEN [creation EXCEPT !.stage = "uncertain"] ELSE creation
    /\ UNCHANGED <<imap, folderServer, folderCache, job, mailWork, applied,
                   made>>

----------------------------------------------------------------------------
FolderNext ==
    \/ AdmitMail \/ FinishMail \/ RefreshFolders
    \/ \E action \in {"rename", "delete"} : Review(action)
    \/ StartFolders \/ Take \/ GiveUpTurn
    \/ ClaimStep \/ SendCommand \/ RecordStep \/ Confirm
    \/ RetryFolders \/ \E accept \in BOOLEAN : StopFolders(accept)
    \/ AskCreation \/ CancelCreation \/ RetryCreation \/ DismissCreation
    \/ TakeCreation \/ CreateLocally \/ Plan \/ Inspect \/ Create \/ Answer \/ List \/ Leave
    \/ \E p \in Sides, l \in Leaves : OthersCreate(p, l) \/ OthersDelete(p, l)
    \/ Tidy \/ Crash

FolderSpec == FolderInit /\ [][FolderNext]_folderVars

----------------------------------------------------------------------------
(* Properties. *)

Plans == [action : {"none", "rename", "delete"}, kinds : [Leaves -> FoundKinds],
          mail : SUBSET Leaves]

FolderTypeOK ==
    /\ imap \in BOOLEAN /\ mailWork \in BOOLEAN
    /\ served \in Listings /\ catalog \in Listings
    /\ {stored, cached} \subseteq [Leaves -> Sides \cup {"gone"}]
    /\ job \in [open : BOOLEAN, plan : Plans, step : [Leaves -> Steps]]
    /\ folderForm \in Plans
    /\ runner \in [at : {"off", "confirm", "next", "send", "record"}, leaf : Leaves,
                   outcome : FolderOutcomes]
    /\ creation \in [stage : CreationStages, target : BOOLEAN, receipt : BOOLEAN]
    /\ maker \in [at : {"off", "plan", "inspect", "create", "answer", "list"},
                  stale : BOOLEAN, outcome : FolderOutcomes \cup {"unsent"}]
    /\ applied \subseteq Leaves /\ made \in BOOLEAN

(* What the two histories say of the server is true: a step or a request that  *)
(* is queued, refused, waiting or cancelled had no effect, so that it may be    *)
(* retried or forgotten, and a finished step had one unless there was nothing   *)
(* to do; through lost answers, crashes, retries and decisions that race the    *)
(* executor.                                                                  *)
FolderReportsAreTrue ==
    /\ \A l \in Leaves :
          /\ job.step[l] \in {"Queued", "Rejected", "Cancelled"} => l \notin applied
          /\ imap /\ job.step[l] = "Done" =>
                \/ l \in applied
                \/ job.plan.action = "delete" /\ job.plan.kinds[l] # "mail"
    /\ creation.stage \in {"queued", "waiting", "rejected", "cancelled"} => ~made

(* The mail in the cache goes where the mail at the server went: no step takes  *)
(* mail out of the cache that the server still has under the name the cache     *)
(* knows, none takes it to another name than the server did, and a finished     *)
(* rename has left nothing behind.                                            *)
MailFollowsFolders ==
    /\ [][imap => \A l \in Leaves : cached'[l] # cached[l] =>
              IF cached'[l] = "gone" THEN stored[l] # cached[l]
              ELSE stored[l] \in {cached'[l], "gone"}]_folderVars
    /\ [](imap /\ job.plan.action = "rename" /\ job.step[Root] = "Done" =>
              \A l \in Leaves : stored[l] \in {cached[l], "gone"})

----------------------------------------------------------------------------
(* The inductive invariant behind the theorems of FolderWorkProofs. *)

(* A leaf of the plan that the server has no more of, by our command or       *)
(* because there was nothing to do.                                           *)
Taken(l) ==
    imap => \/ l \in applied
            \/ /\ job.plan.action = "delete" /\ job.plan.kinds[l] # "mail"
               /\ stored[l] # "here"

StepsAreTrue ==
    /\ ~imap => applied = {}
    /\ \A l \in Leaves :
          /\ job.step[l] \in {"Queued", "Rejected", "Cancelled"} => l \notin applied
          /\ job.step[l] \in {"Acknowledged", "Done"} => Taken(l)

(* The executor works on the step that it claimed, of an open change. *)
RunnerHasStep ==
    /\ runner.at # "off" => job.open
    /\ runner.at \in {"send", "record"} => job.step[runner.leaf] = "Running"
    /\ runner.at = "send" => imap /\ runner.leaf \notin applied
    /\ runner.at = "record" =>
          /\ runner.outcome = "rejected" => runner.leaf \notin applied
          /\ runner.outcome = "applied" => Taken(runner.leaf)

(* The request stays as the executor expects it, or the executor is stale. *)
MakerHasStage ==
    /\ maker.at = "plan" /\ ~maker.stale => creation.stage = "queued"
    /\ maker.at \in {"create", "answer"} => creation.stage = "running"
    /\ maker.at = "create" => ~made
    /\ maker.at = "answer" /\ maker.outcome \in {"rejected", "unsent"} => ~made

(* Mail is where a folder is; the cache lags behind the server. *)
MailIsListed ==
    /\ \A l \in Leaves, p \in Sides : stored[l] = p => served[p][l] = "mail"
    /\ \A l \in applied : stored[l] # "here"
    /\ imap => \A l \in Leaves : stored[l] = "here" => cached[l] = "here"

(* A rename takes all mail of its members, and of nobody else. *)
RenameTakesMembers ==
    job.plan.action = "rename" =>
        /\ \A l \in Leaves \ {Root} : job.step[l] = "none"
        /\ runner.at = "send" =>
              \A l \in Leaves : /\ stored[l] # "there"
                                /\ stored[l] = "here" => l \in Members(job.plan)
        /\ Root \in applied => \A l \in Leaves : stored[l] # "here"
        /\ Root \in applied /\ job.step[Root] \in {"Running", "Acknowledged"} =>
              \A l \in Leaves : stored[l] = "there" =>
                  l \in Members(job.plan) /\ cached[l] = "here"
        /\ imap /\ job.step[Root] = "Done" =>
              \A l \in Leaves : stored[l] \in {cached[l], "gone"}

FolderIInv ==
    /\ FolderTypeOK
    /\ StepsAreTrue
    /\ RunnerHasStep
    /\ MakerHasStage
    /\ creation.stage \in {"queued", "waiting", "rejected", "cancelled"} => ~made
    /\ MailIsListed
    /\ RenameTakesMembers
=============================================================================
