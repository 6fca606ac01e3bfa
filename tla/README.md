# Shep: a verification project

Shep is a native mail and calendar client. Its promise to a person who types,
moves, deletes and sends is that what the screen says happened is what happened
on the server, that nothing typed is lost, and that nothing is done twice
because a connection dropped at the wrong moment. This directory holds TLA+
models of the parts of the program that keep that promise, the TLC runs that
check them on small instances, and TLAPS proofs of the properties that matter
most for instances of every size.

Paths below are relative to the repository. A definition's comment says what it
models; `PROJECT.json` maps each definition to the lines it stands for.

## The system

The desktop program is one process with three kinds of actors:

- **the window** (iced, `src/ui`): turns events into commands and draws what the
  engine publishes. It keeps no durable state.
- **the engine** (`src/engine*`): a dispatcher (`src/engine/dispatch.rs`) that
  runs commands on four lanes (quick local writes, previews, network commands
  bounded by a semaphore, and one *action owner* that works off durable
  queues), plus periodic sync, push watchers and lifecycle work.
- **the store** (`src/store*`): one SQLite database behind a worker thread.
  Every durable decision is one transaction there.

Mail servers, SMTP, CalDAV, Google and backup targets are outside. They answer,
refuse, or leave the client without an answer; what was asked may have happened
in the last case. Almost every hard property of the program is about that third
answer, or about a process that dies while it waits for one.

### Components

| Component | State it keeps | Operations | What makes it correct |
|---|---|---|---|
| Outbox (`src/store/outgoing*.rs`, `src/engine/outgoing.rs`, `src/store/drafts.rs`) | drafts with revisions; one journal row per sent draft with delivery and Sent-copy states | save, send, prepare, claim, submit, record, file a copy, review, cancel, repair after restart | no second delivery without a review; the text is never lost; the status is true |
| Account coordinator (`src/engine/account_work.rs`) | per account: the running sync, the running write, waiting requests | write, exclusive, sync, abandon, release | exclusion, order, no deadlock, downloads yield |
| Message moves (`src/mail_actions/*`, `src/store/move_journal.rs`, `src/providers/mail/moves.rs`, `src/engine/move_recovery.rs`) | one journal row per message being moved; the cached message it protects | start, copy, finish source, locate, recover, keep local, adopt | one copy when it ends, never zero; no step repeated after it may have happened |
| Local writes and sync (`src/store/write_ledger.rs`, `src/engine/mail_sync.rs`, `src/store/truth.rs`, `shared/mail-core/src/providers/mail/{condstore,qresync,lanes}*`) | writes the server has not confirmed; folder generations and mod-sequences; cached flags | record, confirm, reconcile, full and incremental sync | a sync that started before a write cannot undo it; a lost write is not kept for ever |
| Bulk work and Undo (`src/store/bulk*`, `src/engine/bulk*`, `shared/action-core`) | jobs, items with desired and undo intents, leases | start, claim, complete, fail, undo, redo, repair, schedule | each item reaches its last intent; Undo of a running item is not lost; order within an account |
| Single mail actions (`src/store/mail_actions.rs`, `src/engine/mail_actions.rs`) | queued flag changes and deletions | queue, undo, perform, retry | the last intention wins; a deletion happens once |
| Folder operations (`src/store/folder_actions.rs`, `src/store/folder_creation*`, `shared/mail-core/src/folder_actions*`) | jobs per folder with their children | rename, move, delete, empty, create, recover | no mail lost when a tree changes; account idle while it does |
| Calendar actions (`src/store/calendar_actions.rs`, `src/engine/calendar_actions.rs`, `shared/calendar-core`) | queued event changes with etags | create, update, delete, undo, restore | an event is created once; a conflict is reported and not overwritten |
| Connections (`src/store/connections*`, `src/engine/removals*`, `src/store/account_setup.rs`, `src/engine/account_setup.rs`, `src/credentials/account_setup.rs`) | accounts, removal tombstones, setup journal, credentials | add, change, remove, revive, retry | removal drains the account's work; no credential without an account, no account without one |
| Cache protection (`src/cache_cipher*`) | plain and encrypted cache files, the key, an ownership lock | bootstrap, migrate, publish, recover | one readable cache after any crash |
| Backups (`src/backup*`, `src/engine/backups.rs`, `src/store/restore.rs`) | destinations, a run journal, history | run, upload, prune, restore | a reported backup can be restored; only complete ones are pruned against |
| Database transfer (`src/transfer*`, `src/engine/database_transfers.rs`) | an imported database and its fences | export, inspect, install | uncertain work of the old installation is never repeated by the new |
| Profile synchronisation (`src/profile_sync*`, `src/store/profile_sync*`, `shared/profile-core`) | replicas, operation history, vault, journal of passes | publish, pull, merge, join, review | replicas converge; a credential is never overwritten by an older one |
| Activation (`src/activation*`) | the socket of the running process | claim, hand over | one process owns the database |
| Engine dispatch (`src/engine/dispatch.rs`, `src/engine/lifecycle_work.rs`) | lanes, epochs, lifecycle gate | submit, supersede, shut down | local writes are ordered; shutdown drains what was accepted |
| Window, reader, printing, notifications, tray (`src/ui`, `src/html_render*`, `shared/mail-content`, ...) | presentation | | not about durable state |
| Flutter client, browser client, gateway (`flutter`, `web`, `backend`) | clients of their own | | separate programs |

How they interact: commands of the window and the action owner both reach a
server only while they hold the account's access from the coordinator; journal
rows are written before and after each request; sync reads journal rows and the
write ledger before it changes cached mail; folder work, removal and moves look
for each other's rows inside the transaction that starts them; a restart finds
the rows and the action owner works them off.

### What is hard

- An unanswered request: SMTP `DATA`, `APPEND`, `COPY`, `MOVE`, `PUT`.
- A process that dies between any two transactions, or a transaction that fails.
- Two actors whose checks are in different transactions (admission against
  folder work, removal against submission, sync against moves).
- Answers that arrive late: a sync that began before a write, a preparation
  that ends after its row was cancelled, a receipt of an abandoned request.
- Undo while the thing undone is being done.

Each is listed in `PROJECT.json` under "hazards", at its line, with the
properties that cover it.
## The models

### Outbox (`Outbox.tla`, `DeliveryPromise.tla`, `OutboxProofs.tla`)

One mail account and its drafts. `drafts` is the table of that name (the saved
revision of each), `row` the `outgoing` table with one record per draft
(delivery and Sent-copy state, the revision and settings it was admitted with,
its attempt), `holder` the command that has the account's access and the
place in it it has reached, `serverSent` and `seen` what SMTP and IMAP really
did. Every command of `src/engine/outgoing.rs` is split where the code awaits a
server or commits a transaction, so that a crash, a failed write, a change of
settings, the removal of the account, a folder operation, an edit, or the
server filing the message by itself can happen between any two of them. The
admission transaction is one action with all its checks
(`admit_outgoing`), and so is each of `complete_outgoing_preparation`,
`claim_outgoing`, `record_delivery`, `outgoing_local_sent`, `record_sent_copy`.

`NoUnreviewedResend` is the property the journal exists for: a draft the mail
server may have taken is not handed over again unless a person reviewed it.
`SubmittedOnce` says the same of one attempt across crashes. `StatusIsTrue`
compares the state shown with what the server did. `TextIsKept` says that at
every moment the last text of a draft is in the draft, the row, the local Sent
message or a server copy. `KeepsPromise` is the refinement: seen through a
mapping from rows to four phases, the journal with its crashes and races
implements `DeliveryPromise`, in which a message waits, is offered once, and is
offered again only after a refusal or a review.
`HolderKeepsRow` and `FolderExclusion` are about the account lock, removal and
folder work. `UploadedOnce` counts copies in the Sent folder.
`WaitingIsResolved` and `RestartRepairs` are the liveness properties: the action
owner keeps looking at waiting rows (fairness of its lane, and of the server
answering or the connection timing out), and a restart repairs the local Sent
message of a delivered row.

### Accounts (`AccountWork.tla`, `AccountWorkProofs.tla`)

The coordinator of `src/engine/account_work.rs`. `channel` is its mpsc channel,
`pending` the queue inside it, `syncs` and `mutations` its two maps, `done` the
receipts whose sender was dropped. `Scan` is one turn of the `while` loop over
the queue (so that a caller may give up, or work may end, in the middle of a
pass), `Receive` and `Settle` the two branches of the `select!`. Callers ask for
one account or for several in sorted order, hold what they were granted, may
give up at any time, and let go of everything at once.

`Exclusion` is the lock's promise. `GrantedInOrder` is first come, first served
per account. `ExclusiveIsHeard` says a download in front of exclusive work was
asked to stop. `EveryCallerIsAnswered` is checked with two callers that lock the same two
accounts, a move and a restore; its mutant locks in any order, and TLC finds the ring.
That an exclusive caller is not held up by downloads is `ExclusiveIsHeard`, in the
safety run, which has a download. Fairness is
that of the tokio scheduler for the coordinator's own task, of the channel for
senders, of the finished futures, and that writes end, because every provider
call has a timeout; a download is only assumed to end once it was asked to stop.
The polling order of `select!` (`biased`) is not used: a future that is ready
may still wake after the poll.

`Tickets` are bounded by `MaxTickets`: `NextTicket` takes any number that is not
in use, which is weaker than a counter that never repeats.

### Moves (`MoveJournal.tla`, `MoveJournalProofs.tla`)

One message that is moved between folders of one or several accounts.
`copies`, `nextUid` and `request` are the servers: the message's copies with
their UIDs, and the request a command waits for, which the server may carry
out, refuse, or leave without an answer. `rows` is the `mail_moves` table with
the stages of `src/mail_actions/journal.rs`, `cache` the rows of `messages`
(identity 0 for a copy that is on this device only), `holder` the command and the
place in `src/mail_actions/runner.rs` it has reached, `check` a folder check
between its listing and its application with what the ledger told it meanwhile,
`removed` the accounts with a removal tombstone.

A command is split at every await of a server and every transaction:
`Move`, `Prepare`, `Submit`, `Submitted` are `move_imap` and its journal calls,
`Recover`, `Reprepare` and `Locate` the inspection of both folders after a lost
answer, `RemoveSource`, `Cleaned` and `Resolve` the removal of the source and what
follows, `ReleaseUnapplied`, `UndoLocal`, `KeepCopy`, `UseExisting`, `Retry` and
`Background` what a person or the periodic pass starts. `Interrupt` ends a
command anywhere: it is a crash, a failed write and a lost connection at once.

What it abstracts: every command takes the access of all accounts at once
(the order in which they are taken is AccountWork's subject); several messages
are several independent rows; flags, bulk jobs, folder jobs, UIDVALIDITY changes
and transfers of an older version are left out; Undo of a confirmed move is a
move back; a partial MOVE is a lost answer, since its COPYUID reports the copy.
`Late` names the requests a server may carry out after the client gave up on
them, `Partial` whether a MOVE may copy and then fail to remove. The safety run
allows late uploads and partial moves. A late *expunge* is left out of it: the
message may be moved back in between, and no client can protect it then (the
place is `runner.rs:177`). So is a late MOVE: the retry that finds the source
intact and the destination empty is right to send another, and if both only copy,
one move has made two copies. A row whose source cleanup failed is never retried
by itself, which is why `PendingIsSettled` allows `Copied`.

Fairness: commands and timeouts are weak, since every request has a timeout;
the background pass, the removal owner and the good answers of a server are
strong, because they come back again and again and nothing else can end a
command that is refused each time.

`moves_undo` shows a disagreement with the documents: a retry of a `Local` row
keeps that stage while its MOVE is in flight, so a lost answer leaves "nothing
was applied" on a message that moved. `RemovalFinishes` is stated and not true:
two accounts removed together, each with an unfinished transfer into the other,
refuse each other's cleanup for ever (the hazard at `move_journal.rs:152`; TLC
finds it with two moves and the accounts removed).

### Folder check (`FolderSync.tla`, `FolderSyncProofs.tla`)

One folder of an account whose server speaks CONDSTORE or QRESYNC, with the
user's own writes to it and other clients. `server` and `highest` are the
folder at the server, `cached` and `flags` the rows of `messages`, `saved` the
row of `folder_modseqs`, `ledger` and `clock` the write ledger of
`src/store/write_ledger.rs`. `check` is what a running check remembers of its own
listing, `queue` the channel between the provider and the store.

The check runs in the steps of `sync_imap_session_mode`: `Begin` takes an epoch,
`Read` what the cache knows and the saved state, `Select`, `Resync` (QRESYNC),
`Search`, `FetchChanged` (CONDSTORE), `FetchMetadata`, `FetchBodies`, `Close` and
`FetchSlow`, each with its own view of a server that changes between them.
Everything it sends is applied later, item by item, by `Apply`
(`apply_sync_since`), while the user writes: `AskFlags`, `AskAway`, `AskIn`,
then `Execute` at the server, then the commit that records the write in the
ledger. `Stop` is an interruption, a timeout or an error at any step; what the
channel did not take is lost. `AppCrash` loses the scratch database, with the
ledger in it, and keeps the rest.

The clock counts acknowledged writes where the code uses a tick per record; only
the comparison with an epoch is observable. One folder and one UIDVALIDITY, one
flag per write, a listing answered at one instant. Folder jobs, restored rows,
notifications and messages over the size limit are left out. `Limit` is the
ledger's 256 entries per account: the run keeps it above the number of writes,
because with fewer entries than writes during one check the oldest write loses its
protection (the hazard at `write_ledger.rs:8`, `OnServerMeansKept` fails with
`Limit = 1`). The theorems have the exact condition, `WritesFit`.

`OnServerMeansKept` and `MovedMailStaysAway` are the two sides of a stale
listing: a check may not remove what a move has just brought, and may not bring
back what a move took away. `ListingsYieldToWrites` says the same of flags.
`ChecksKeepTheState` is about the promise of a saved mod-sequence: an item
applied in whatever order with writes never makes that promise false, so a
later check that skips what the promise covers misses nothing.
`ListingConverges` says that with no more changes the cache ends up holding what
the server holds, on a server without QRESYNC: every check lists the UIDs, so a body
that was lost after the folder state was saved is asked for again, and a row that was
kept for a pending move goes. Its fairness is that checks come back at an interval and
every step of one ends (600 seconds at most).

The runs have one message in each lane: these properties speak of one message
at a time, and the items of a check are independent but for the folder state,
which the flags of a single message already exercise. What is not of one message is the
outcome of a QRESYNC refresh, which is trusted when *sizes* agree (`AddsUp`,
`qresync.rs:106`). `OutcomeAccountsForFolder` is the comment of `mail.rs` about it ("A
QRESYNC outcome already accounts for every message in the folder."). It is stated and
not true. TLC violates it with two messages and one flag (`Uids = {1, 2}`,
`Fields = {"unread"}`, `Lanes = {"inline", "slow"}`, `Servers = {"qresync"}`,
`MaxModseq = 3`, `MaxWrites = 1`, `MaxStops = 1`, 715 096 states): the user asks to move
the first message, which another client has deleted, so a listing keeps its row; the
second one is new and large, and the program stops after the check has saved the folder
state and before its body was fetched. Two are cached or counted less one, the server has
one, the sizes agree, and the next check sees the folder as unchanged. With no further
change every later check does the same, so the second message is never downloaded and
the row of the first stays, which is why convergence is stated for CONDSTORE alone.
`sync_state` finds a flag that is wrong although the saved state vouches
for it: an acknowledged write is committed after a check has saved a later
change. `StaleItemsYieldToWrites`, the reading of `write_ledger.rs` that covers
bodies too, does not hold either, and is the hazard at `notifications.rs:145`.

### When folders are checked (`SyncSchedule.tla`, `DeviceProofs.tla`)

The loop `drive` of `src/engine/mail_sync.rs`, over any set of accounts.
`slots` and `slot` are the `Schedule`'s map, `requests` its counter, `clicks` and
`pushes` the two channels, `jobs` the `JoinSet` with the owners of its tasks,
`busy` the `manual_busy` of the loop and what the window shows. `pass` is the
variable of that name. A pass of the loop (`PassStarts`, `PassFails`,
`PassRests`) is one action with everything in it: the clicks that wait are
counted, the accounts listed, `start` or `settle` applied, and the window told. The
branches of the `select!` are `TakePush`, `Finish`, `TakeClick`, `Close` and
`Timer`. `clicks > 0` stands for `pending`: a click taken by the `select!` is
counted by the pass it causes, and nothing between them looks at the counter.
Of `started`, only whether the interval has passed since is kept (`elapsed`).
`owed` and `news` are history: what each account owes to the clicks received, and
the accounts that changed since their last check began. The model ends a check of
either origin in any way; the 600 seconds around it make that fair.

`ChangesAreFollowed` is the comment of `wake` made precise. `RefreshMeansChecked`
and `RefreshEnds` are the two sides of a click: it is not reported as done before a
check that began after it has ended for every account, and it is reported as done,
although accounts come and go, are removed while they run, and cannot be
listed. `OneCheckAtATime` is what keeps the slot of a running check that is no
longer listed; dropping it starts a second check, keeping it for ever leaves the
window refreshing. Fairness: the loop runs, checks and the interval end, listings
succeed again and again; `select!` is biased to ended checks, so they are strong.

`background` is the parameter of that name, false in a preview, which has one account
that never changes. There a click while the only check runs is counted by the
pass that skips it and nothing lists accounts again, so `RefreshEnds` and
`KeepsChecking` are stated for background checks only (`mail_sync.rs:324`). An account that is added
after a refresh has served no click, so its first check is called a Refresh nobody
asked for; its failure is then shown like one a person waits for
(`mail_sync.rs:224`).

### Mail actions and Undo (`BulkWork.tla`, `BulkWorkProofs.tla`)

A decision of the user about the flags of messages is a job with an item for each
message. `jobs` and `items` are the two tables, `owner` and `effects` the
projection the list is drawn from (`bulk/intents.rs`), `cache` and `server` the
flags of each message, `work` the request that is under way. `Admit`, `Claim`,
`Acknowledge`, `Finish`, `RequestUndo`, `Repair`, `Resume` and
`AcceptUncertainty` are one transaction each; `Authorize` and `Serve` are the
request, which a server may carry out, refuse or leave unanswered. A store
write may fail after the request (`AcknowledgeFails`, `FinishFails`), the process
may stop, other clients change flags, a check removes the row.

`HistoryIsTrue` joins the journal with the servers: what failed did nothing,
what is done was done, and nothing is sent twice between two decisions of the
user. `NewestDecisionStands` is about two decisions and their Undo in any order.
`AcknowledgedReachesCache` is the repair of a receipt that was saved while the
cache was not. `WorkEnds` is the liveness.

Left out: pausing a job, transfers between accounts (MoveJournal), the late
execution of a request whose connection was given up, the refusal of moves of
messages that are on the device only. What modelling showed: the repair of an
item whose row a check has removed fails at every retry, so the item never ends
(`WorkEnds` leaves such messages out; `bulk.rs:154`); an error before anything
was sent is reported as uncertain; and a user who accepts an uncertain item
and decides what the cache already shows leaves the server as it is.

### The owner of the queues (`ActionOwner.tla`, `MCActionOwner.tla`)

The loop `run_action_owner` of `src/engine/bulk/scheduler.rs` and the selection
it reads. A pass goes from queue to queue and from page to page, starts what is
eligible under a lease, and rests until a completion, a wake, a delay or a
stop. `WorkIsDone` says that every row ends although wakes are lost at a
full channel, reads and steps fail, and delays end while other work runs. The
fairness is the scheduler's and the clock's; failures are bounded by
`MaxTroubles`, since a database that always fails lets nothing end. It says nothing
while any queue is set aside because it could not be read (the window tells the user to
refresh, and that is a wake). Stated for the row's own queue alone it is not true, which
takes two failures and TLC finds with `MaxTroubles = 2`: a calendar row is admitted
after its queue was read to the end, its wake is dropped because one for a running mail
job waits in the channel, and that one restarts nothing; the mail step then changes
nothing, so its job waits for a delay, and the mail queue cannot be read before the
delay ends. `next_action_backoff` leaves out the queues that are set aside, a row that
is `queued` has no timer, and the calendar row rests until the next wake.

Six queues are two: mail items, read by pages, and calendar actions, whose rows
have a time of their own once a step was put off: a row is `queued` when it is admitted
and `later`, then `waiting`, after a failure that is tried again, and only the last two
have a timer (`Due`, `next_unreserved_calendar_retry`), so a row whose wake was lost is
found by the next pass or by nothing. A calendar row that waits without a time is not
modelled. Left out are the limit of 32 expired delays for each
call and the count for each provider. "Other work is done while one row
always fails" is not a property of the code: a retry without progress does not
restart the pass, so the order of the queues decides what is reached between
two retries (`scheduler.rs:244`).

### Calendar changes (`CalendarWork.tla`, `CalendarWorkProofs.tla`)

The changes of one event on a CalDAV server or at Google. `journal` is
`calendar_actions` with the status of each change, `eventRows` the local event,
`remote` the event at the service with its id and version, `worker` the change
that is being carried out and the step it has reached, `review` the check of an
uncertain change, `form` what the open form shows. A change is admitted from a form that may have been opened
before an earlier change reached the service, so it takes over the id and
version the earlier one leaves. A request is carried out, refused because the
version changed, or left unanswered; then the job looks at the service and
accepts what it finds or asks the person.

`ChangedOnce` is that no change is carried out twice and that one that is
settled was carried out if it says so; it is proved. `SettledIsShown` relates
the cache to the service once everything is settled and refreshed;
`OwnChangesNeverCollide` says that two changes of this device never meet as a
conflict. `calendar_repair` shows that the order of two changes is found by ids,
and Google changes the id between them, so that a late repair of the older one
undoes the newer one in the cache.

Left out: recurring events, the late execution of a request that timed out, the
inspection of an uncertain change, a deleted id that Google refuses to create
again, the removal of the connection, demo mode and the limits of queries; a
retry delay is the field `due` of a change. What modelling showed besides: a refresh between
the record of an answer and its application is overwritten by the older receipt
until the next refresh; a job whose failure to be marked uncertain coincides
with a failing write stays "running" until a restart.

### Folder changes and folder creation (`FolderWork.tla`, `DeviceProofs.tla`)

A folder of one account with others directly below it, on an account with a
server or without one, beside other clients that create and delete folders.
`served` and `stored` are the server: what it lists, and under which name it has
the mail of each folder; `catalog` and `cached` are the same in the database.
`folderForm` is the review on the screen, `job` the rows of `folder_jobs` and
`folder_steps`, `runner` the place in `src/folder_actions/runner.rs`;
`creation` is the row of `folder_creations`, `maker` the place in
`src/engine/folder_creation/durable.rs`. `applied` and `made` are history: which
commands the server carried out.

A change is `Review`, `StartFolders` (which compares the review with a new one),
then `Take`, and for each step `ClaimStep` with its listing and preflight,
`SendCommand`, `RecordStep` and `Confirm`, which brings the mail in the cache to
its new name in one transaction. A rename is one command, a deletion one for each
folder, deepest first. What was refused or is not known waits for a person:
`RetryFolders`, `StopFolders`. A creation is `AskCreation`, then `Plan`,
`Inspect`, `Create`, `Answer` and `List` under the account's exclusive access.
`CancelCreation`, `RetryCreation` and `DismissCreation` do not wait for the
executor; it is refused at its next write, since the row has another revision
(`stale`), and leaves the row as the error path of `execute_creation_work` does.
`AdmitMail` stands for every admission that asks whether the account's folders
are idle, `RefreshFolders` for the listing of a mail check.

`FolderReportsAreTrue` joins both journals with the server: what is called
queued, refused, waiting or cancelled had no effect, and what is called done
had one, through lost answers, crashes, retries, and decisions that race the
executor. `MailFollowsFolders` is about the mail: the cache neither loses mail that
the server still has under the name the cache knows, nor moves it to a name the
server did not, and a finished rename leaves nothing behind.

What modelling showed: a rename that the server acknowledged is finished by a
listing that shows the new names. When another client renames or removes the
destination first, no listing does, `StopFolders` refuses an acknowledged step,
and the account stays without folder refreshes and mail changes until
somebody puts the folder back (the hazard at `folder_actions.rs:172`). A
property that acknowledged steps are finished was tried and does not hold.

Left out: deeper trees, names and their encoding, special-use folders, the
mapping of Sent, the histories and journals that are renamed with a folder, the
count projections of the list, and the creation of a missing destination of a
move. A request is asked for again only after the executor that a
cancelled one left behind has noticed.

### The encrypted cache (`CacheRoot.tla`, `DeviceProofs.tla`)

Several processes open a data folder whose plaintext database is replaced by an
encrypted one. `main`, `recovery`, `candidate` and `record` are the files of the
folder, `marker` says that the folder has a key, `opener` what each process has reached
and, in its field `guard`, how it holds the ownership lock.
Opening is `OpenRoot`, `Join`, `ReleaseRoot`, `Share`, `ReadMarker`, `BecomeOwner`;
publication is `Stage`, `CheckSource`, `WriteJournal`, `Retire`, `Publish`,
`Verify`, `Dispose`, `CloseRecord`, with `Stops` or `Fails` after any of them;
recovery is `RecoverFolder`, whose steps (`Discard`, `Withdraw`, `Restore` and the
publication's own) may stop as well. `Damage` loses a file while no process has
the folder for itself; `OlderProgram` is a version of the program that does not
know the lock: it opens the plaintext, writes and closes it, at any moment.

`CacheIsWhole` says that at every point one file holds all that was ever
saved but for `overlooked`, that an owner works on it, and that no interrupted state is one that
recovery refuses. It is stated for histories without the
flaw that `cache_joins` shows: a process waiting for another one's opening gets
the lock when that one stops between two renames, skips recovery and creates an
empty cache (`unrecovered`).

`overlooked` are the writes that the code loses. `CheckSource` compares the plaintext with
what was copied (`publication.rs:261`), the only comparison of a publication;
`checkpoint` and `journal` then record the plaintext as it is (`:374`), and it is
retired. A write in between is in the retired plaintext alone, which is disposed of.
Recovery compares with the record (`:505`), verifies the copy and retires, with the same
interval. `NoWriteIsLost` says that no write is lost, and `cache_writes` is TLC's
violation of it. What `CacheIsWhole` still says of older programs is that a write before
the comparison, or between a stop and the recovery, is never lost.

One database in the folder, the production policy (`Existing`), and damage that
shows as "does not open". The fingerprint is taken as exact. An older program's write is
one step: that of a connection which is still open when the log is folded makes
`checkpoint` fail (`Fails` at "journal"), and a connection that stays open across the
retirement, like an older program that makes an empty database where the plaintext was
retired, is left out.

### Shared preferences (`ProfileSync.tla`, `ProfileSyncProofs.tla`)

Devices that share preferences through files on Google Drive. `operations` are
the immutable changes with their parents, `drive` the files, and for each device
`history` is its `profile_core` journal (the log, what is applied, heads,
versions and revisions of every target), `observed` and `copied` the catalog and
the copy cursor, `native`, `edits`, `field`, `pending` and `deferred` the store's
preferences and replication state, `job` the pass that runs, `review` the review on
the screen. A pass is `StartPass`, `Capture`, `AdmitChange`, `AcknowledgeChange` or
`DeferChange`, `Recheck`, `Discover`, `Import` and `Checkpoint` for each record,
`Drain`, `ApplyObservation`, `Reserve`, `Upload` and `Confirm` for each operation;
it may be stopped after each (`Interrupt`), and the user changes settings
between any two. `Apply`, `ReadyAt` and `ApplyReady` are the merge.

`VersionsAreNewest` gives the merge its meaning without the order of arrival: the
versions of a setting are the applied operations that no applied operation has
seen, so two devices that have applied the same operations agree. That devices with the
same records have applied the same is proved (`DevicesAgree`).
`NothingIsOverwritten` is about the person at each device: a sync replaces what is on
the screen only by a value whose author had seen it. `carrier`, a history
variable, says which operation carries the value a setting has.
`SettledMeansShared` says that a device with nothing left to capture, admit or
review shows the value its history has; an acknowledgment that reads the settings
back breaks it.
`profile_stuck` shows that `RecordsDrain` does not hold: `run` admits local
changes before it copies, and admission refuses a history with a gap, so a
pass that stops between a record and its parent, followed by a change of the
user, blocks every later pass. Switching the category off defers the change and
is a way out.

Catalog listings come in any order: changes come in order, but the full listing
that repairs a rejected token or a rebuilt profile has none. Left out: accounts and
their removal, joining and leaving a profile, the options, pages and limits
of 32, the transport journal's row (merged with `Reserve`), the inside of the
catalog, and the password vault. Fairness: a pass is started again and again and
each pass ends, because every request has a timeout.

### The secrets of an account (`Credentials.tla`, `AccountWorkProofs.tla`)

A password is in the keyring of the device and the account in the database, and
no transaction spans the two. `entry` is the account's row, `slot` the key it uses,
`attempt` and `latestSetup` the tables of attempts to connect, `removal` the
tombstone, `scheduled` the table `credential_cleanup`, `keyring` the device's
secrets. `connecting` is the place each attempt has reached, `lifecycle` who has
the lifecycle lock and the account, `cleaner` the loop that deletes secrets.

An attempt is `AdmitSetup`, `BeginStaging`, `WriteSecrets`, `RecordStaged`,
`BeginCheck`, `EndCheck` (under no lock) and `Activate`; it may fail, be given up,
be closed with the program (`CloseSetups`) or overtaken by the next one. A removal is
`RemoveAccount`, `StartRemoval`, `FinishLocally` and the cleanup of its keys
(`StartCleanup`, `PickKey`, `DeleteSecret`, `FinishKey`, `EndCleanup`,
`AbandonCleanup`), which also deletes the keys of failed attempts. `RestoreAccount`
and `RestoreSecret` are what a backup does to both sides.

`SecretsMatchTheirUse` says that what an account uses is there and was
accepted by both servers with the settings the account has, that a secret
nothing uses is written down for deletion, that a finished removal leaves none,
and that no step deletes one in use. A restore calls off the cleanup of each account
in the backup (`connections.rs:96`), although the keys of earlier attempts are
not what it restores: they stay on the device for good. The history variable
`forgotten` keeps these apart, so that the property speaks of all others.

Left out: the same steps of the password vault's import, the limit of 128 pending requests, the
fence for an imported database, and the removal of calendars.

### Sums (`MCJournals.tla`, `MCMailWork.tla`, `MCConnections.tla`, `MCSettling.tla`)

Modules that share no variable are checked in one TLC run: `part` chooses at the start
which of them moves, and the others stay where they began. The states of a sum are
the union of the states of its parts, never their product, so nothing is lost
and nothing is added. A part whose names clash with another's, or that needs smaller
bounds for liveness than for safety, comes in by `INSTANCE`, with its bounds in the
`WITH`; its properties are then defined in the sum under their own names.
## The runs

| Run | Question | Bounds and why they are enough |
|---|---|---|
| `connections_safe` | Is a message ever delivered twice, lost, or misreported, does the journal implement `DeliveryPromise`, does the keyring agree with the account, and does a folder's check keep what it must and drop what it must? | *Outbox*: One draft (drafts share only the account's access, taken by one command at a time), two revisions so that an edit can follow a send, two attempts so that a second submission exists, one crash, one failed write, one Sent-copy retry that a person confirmed, two settings with the same incoming connection, so that a Sent copy may go on after a change of the rest. *Secrets*: one account (its keys belong to it alone), two attempts with different settings, so that one overtakes the other, and two of the events that come from outside (a changed field, a removal, a restore, a close, a crash). *Folder*: one message in any lane, two flags (one may be skipped while the other is applied), two writes, one stopped check or crash, three mod-sequences: listed, changed, changed again; CONDSTORE and QRESYNC. |
| `outbox_live` | Is a waiting message always resolved, and a delivered one always repaired? | One revision, two settings that differ in who files the Sent copy, one failed write, two crashes: the second one interrupts the repair of the first. |
| `journals_safe` | Do the lock of the accounts, the moves, the folder changes, the calendar changes and the opening of the cache each keep their promises? | *Accounts*: two callers that need both accounts and a download, a queue of two and a channel of one so that both fill up, three tickets, as many as callers, so that an abandoned one is still out while its successor is served. *Moves*: one message, three folders of two accounts (a move within and between accounts, and a second target), two moves, four UIDs, late uploads and partial moves. *Folders*: a root with two folders below it (so that a deletion has a first, a middle and a last step), one change, one creation, one folder that somebody else creates or deletes, one stop; with and without a server. *Calendar*: two changes of one event, two attempts each, one change by somebody else, one mishap, one stop; both kinds of service. *Cache*: two processes, two saves, three faults (a stop, one in the recovery, one more). |
| `settling_live` | Does a folder's cache converge, is every caller of the accounts answered, and every move settled? | *Folder*: one message in any lane, one flag, one write, one stopped check or crash, on CONDSTORE (QRESYNC does not converge: FolderSync's section). *Accounts*: a move and a restore that need the same two accounts, the smallest ring, and no download, which `journals_safe` has; three tickets, of which two are held and one is asked for. *Moves*: one move within an account, two UIDs; the server's answers are the choice. |
| `moves_undo` | Does "nothing was applied" hold of a `Local` row? No. | One move. |
| `calendar_repair` | Do repairs of two changes of one event reach the cache in order? Not at Google. | Two changes, one failing write. |
| `cache_joins` | Is recovery run before a cache is opened? Not by a process that waited for another one. | Two processes, one stop. |
| `cache_writes` | Is a write of an older program ever lost? One between the comparison and the journal's record is. | Two processes, two saves, no fault. |
| `sync_state` | Does a saved folder state tell the cached flags? Not after a late commit. | One flag, one write. |
| `schedule_safe` | Is no account checked twice, no change forgotten, and a refresh reported exactly when it is over? | Two accounts (one alone cannot hold up another's report), two clicks (one during the check that the other asked for), two changes (removed and added again), a preview and not. |
| `mailwork_safe` | Do decisions stand, is no row forgotten, and do devices agree? | *Bulk*: one message, two jobs and two Undo requests (the Undo of an Undo's rival), one crash, another client of one flag, a row that vanishes. *Owner*: three rows in two queues, pages of one and one place, so that both are full with the second row, a channel of one, one trouble of any kind. *Profile*: two devices, one setting with two values, two changes (concurrent, or set back), one review, one stop; one device has a job at a time. |
| `profile_stuck` | Are records that wait for their parents always applied in the end? No. | Two devices, one setting, three changes: two on the device that publishes a record and its parent, one on the device that stops between them. |

The invariant that the proofs of a module use was checked with TLC before it was
proved. The runs set `CHECK_DEADLOCK FALSE` where a module stops when its bounds
are spent, and in the sums. In the "violation" runs of the safety kind the
counterexample is a finite trace; `profile_stuck` is checked under fairness. The
bounds `Max...` are guards of the environment (edits, clicks, crashes, writes of
other clients) and limits of fresh numbers (attempts, tickets, UIDs): a step that
needs a fresh number stops when there is none, and the program's own decisions
never look at a bound.

Larger instances were checked by hand and found nothing else: the liveness of the outbox with
four settings (1 501 644 states); the accounts with
four tickets (1 551 260 states) and three for liveness (21 184); two messages of one
job in BulkWork (6.5 million); two troubles in ActionOwner (3 968 103); three
calendar changes (404 808) and two mishaps (2.98 million); three saves and three
faults of the cache (279 096); the convergence of two messages on
CONDSTORE, by the inline and the slow lane (1 314 460); two folder changes and two changes by other clients
with one folder below the root (11 672 199); ProfileSync with two passes at once (4 466 735), three
edits and a review without a stop (1 354 215), two settings (142 951) and three
devices (18 907).
## What is proved

`OutboxProofs` proves, for every set of drafts and every bound, that `IInv` is
an invariant, and from it `TypeOK`, `NoUnreviewedResend`, `SubmittedOnce`,
`StatusIsTrue` and `HolderKeepsRow`. None of the safety properties is inductive
alone. What they need: an attempt number is used by one admission only and an
unused one was never submitted (`RowsAreDrawn`, `FreshIsUntouched`); a row that
waits was not submitted (`WaitingIsUnsubmitted`); a command that holds the
account and has reached a place in its code finds the row in the state that
place was reached with (`HolderIsAtItsRow`), because no other action moves that
row while the account is held; and copies on the server belong to submitted
attempts. The proof has one lemma for each action, and under it one step for
each conjunct the action can disturb.

`RecoveryInv` is the second invariant, kept by each step where `IInv` holds. With
it follow `FolderExclusion`, `TextIsKept` and `UploadedOnce`. A text is covered
(`Covered`) by the draft, by a row that still prepares or was not sent, by the local
Sent message or by a server copy, and every action that takes one of them away is
shown to leave another. Uploads are counted twice, by the state of the row and by what
the command that holds it remembers (`UploadsAreCounted`, `HolderCountsUploads`),
because the answer of an upload is recorded later than the upload. `Implements` is
the refinement `KeepsPromise`: the mapping sends the initial states of Outbox to
initial states of `DeliveryPromise`, and each step to the step the comment of the
mapping names, or to a stutter.

`AccountWorkProofs` also proves `SecretsMatchTheirUse` for any attempts, settings and
events, with `CredentialIInv`: a key that is scheduled for deletion is of an attempt
that has ended and is not in use (`ScheduledIsUnused`), the stage of an attempt
tells of its secret (`StagesAreTrue`), a command that writes holds the lock and
its attempt is either the latest or already scheduled (`WritersHoldTheLock`: else
a late write would leave a secret that nobody knows), a removed account has
nothing in the tables (`RemovedIsEmpty`), and the loop that deletes holds only
keys that are scheduled (`CleanerIsTrue`).

`AccountWorkProofs` proves `IInv`, `TypeOK`, `Exclusion`, `ExclusiveIsHeard` and
the action property `GrantedInOrder` for any callers, accounts and limits. The
invariant is about tickets: each is in one place, a caller's ticket is the one
in the map (`HeldIsRecorded`), receipts and requests carry different ones
(`TicketsDiffer`), so that a receipt can only clear its own entry. For the
order of grants, what a pass has left behind it has its account in `blocked`
(`PassedAreBlocked`).

`MoveJournalProofs` proves `TypeOK`, `OriginalIsKept` and `SourceIsGone` for any
folders, accounts, server behaviour (late requests and partial moves of every
kind included) and bounds. `OriginalIsKept` is inductive with `TypeOK`: whatever
removes a cached original finishes or replaces its row in the same transaction.
`SourceIsGone` needs `AckInv`: identities below `nextUid` were issued and one that
was given up never returns (`Issued`), and an "ok" waiting to be read is true of the message it
is about (`Truthful`). It has a lemma for each action that touches a row or an
answer.

`OneCopyPerMove` and the action property `CacheFollowsServers` are proved for servers
that carry out nothing but uploads after the client gave up (`UploadsOnly`, the
servers of the safety run; with the others TLC violates the first). `CopiesInv`,
on which both rest, was checked by TLC before, with and without late uploads and
partial moves. It says that an identity is of one folder wherever it is spoken of
(`OnePlace`), that a move goes elsewhere and a request is its row's
(`Directed`), and that the copy which permits the removal of a source stays where
it was seen (`Backed`), so the last copy is never removed. Copies are
counted by `Paid`: each move pays for one copy, and what it paid is in a copy, in an
upload that may still arrive, in the request a command is about to send, or
is saved. A move within an account that had no visible effect may be sent
again, but only while its destination is empty. So for each such move either its
payment is saved, or a copy at its destination stands for it; what a server does to
one of them, a lost answer and a retry included, moves a payment and never makes one.
`ListingInv` is for the cache: a message that is cached and on the server is in
the listing or was told to the check by the ledger, and a listed message
whose move was resolved since is known to be away.

`FolderSyncProofs` proves `CheckTypeOK` for any messages, flags, lanes and servers, and,
as long as `WritesFit` holds, `MovedMailStaysAway` and the action properties
`OnServerMeansKept`, `ListingsYieldToWrites` and `ChecksKeepTheState`. `WritesFit` says
that no more writes are acknowledged during one check than the ledger holds
(`LIMIT_PER_ACCOUNT`, 256 in the code), in any number of checks. It is the condition
under which the ledger forgets nothing a check may still ask for
(`RecordKeepsLedger`), and not a bound on the user: nothing in the code enforces it, a
check in which it fails is the hazard at `write_ledger.rs:8`, and TLC violates
`OnServerMeansKept` without it. `FewWritesFit` shows that it holds whenever no more
writes are begun at all than the ledger holds, as in the run.
None of the four properties is inductive, since what is applied was read many steps
before. `FolderIInv` says what may be in the queue at each step (`ItemsFollowSteps`), that a
body is of a message the check did not know, and is overtaken only by a move the
ledger remembers (`BodiesAreNew`), and that a listing names every message the server
has, or else a move brought its row after the epoch, and no body of it is ahead of the
listing (`RemovalsAreSafe`). A UID never returns (`UidsNeverReturn`), so what was seen to be
gone may be removed at any later time.
`StateIInv` is about the mod-sequence. `UpToDate` says of each value read that it is still the
server's, or that the message changed after every state that is saved or about to be
(`ItemsAreFresh`, `SeenIsFresh`): a stale value may be applied, because the next
check will ask for that message. `StateIsTold` says of each row that the coming state
covers that it shows the server's flags already, or an item ahead of the state
carries them, or the check has still to list it, or the ledger holds the state back. The
plan of a check is what makes this true at SELECT, where nothing was listed yet: rows
the saved state covered are right, and those it did not are what `Resync`, `Search` and
`FetchChanged` ask for.

`DeviceProofs` proves `TypeOK`, `OneCheckAtATime` and the action properties
`ChangesAreFollowed` and `RefreshMeansChecked` for any accounts, clicks and
changes, with and without background checks. The invariant has three parts: a
slot is running exactly when one check of its account is under way
(`SlotsTellJobs`); a change waits in the channel or in the slot, or its account
has no slot and is due anyway (`NewsWait`); and an account that owes a check to a
click has served fewer clicks than were received, or is being checked as a
Refresh (`DebtsAreCounted`), so that `served()` and the count of manual checks
tell the truth.

`CalendarWorkProofs` proves `CalendarTypeOK`, `ChangedOnce`, `OwnChangesNeverCollide`
and `SettledIsShown` for any contents and
bounds and both kinds of service. The invariant follows a change from its claim
to its answer: a request that is on its way belongs to the one change that was
claimed, a change that was carried out is never in a stage from which it would
be sent again, and every stage that reports success is reached only from an
answer of the service about that change.
`OwnChangesNeverCollide` and `SettledIsShown` need more. `StagesAgree` ties the stages of
the worker and of the check to the status of their change, and
`ChangesInOrder` says that a change starts only when all before it have ended, as
long as each found the one before it (`Chained`, which a Google creation
under repair may break: the finding of `calendar_repair`). `Told` then follows the
version of the event along the journal: the claimed change knows the version on
the server, an answer and a receipt carry it or lack it, and the last
change that reached the server hands it to the next, which rests on the rewriting
of the events of waiting changes (`Naming`). For the cache,
`EventsNamed` says that what came from the server has the server's id, and
`Settling` that the cache differs from the server only while a change
is running, uncertain or under repair and not checked, of which there is at most
one, and that its answer and its receipt say what the server has.

`DeviceProofs` also proves `FolderTypeOK`, `FolderReportsAreTrue` and the action
property `MailFollowsFolders` for any finite set of folders. `FolderIInv` says what
the server did for each recorded step (`StepsAreTrue`), that each executor
is at a place that the row allows or has been overtaken by a decision
(`RunnerHasStep`, `MakerHasStage`), that the cache lags behind the server and
never leads it (`MailIsListed`), and that a rename takes the mail of its members
and of nobody else (`RenameTakesMembers`), without which the mail that arrives at
the new name could be anybody's.

`DeviceProofs` also proves `CacheTypeOK` and `CacheIsWhole` for any processes and
bounds. `CacheIInv` has four parts: the lock (`LocksExclude`), the shapes in which a
folder can be left by a step of a replacement (`FolderKnown`), what a process
relies on at each stage (`StageKnown`), and that a file holds no write that was
never made (`OnlySaved`). `StageKnown` is needed because a publication is
checked in one step and carried out in six, between which other processes come and
go and an older program may write: from the comparison on, the copy holds what the
plaintext holds but for the `overlooked` writes, and the journal's record is of the
plaintext as it then was. A write that follows the comparison is `overlooked`, unless a
later copy takes it up. `FolderKnown` is what recovery is
for: each of its shapes has every write but the overlooked ones in one file, and each
step of a publication or a recovery leads from one shape to another. No theorem says
that `overlooked` stays empty: it does not (`cache_writes`).

`BulkWorkProofs` proves `TypeOK`, `HistoryIsTrue`, `NewestDecisionStands` and the
action property `AcknowledgedReachesCache` for any messages, accounts, decisions and
any number of jobs, Undo requests and crashes. `HistoryInv` says what the status of
an item and the place of its executor tell of its requests (`ItemIsTrue`,
`StepIsTrue`), that an owner was asked for its fields (`OwnersDecide`), and that the
pending values are the projection of the journal (`ProjectionIsShown`): every action
that changes an item refreshes the rows it is about. `NewestDecisionStands` needs
`DecisionInv` as well, which is kept by every step where `HistoryInv` holds. Only the
newest owner of a field asks the server for it, or one before it while that owner
still waits (`AskedByOwner`): two requests about a field never cross, although several
decisions are on their way. The cache is the server but for one answer that waits
to be shown (`CacheAgrees`), so "nothing to change" is found only when the server
has the value. And what the owner was granted is at the server (`OwnerPrevails`), which
carries a decision through its Undo: the values from before are asked for only in
fields the decision still owns. The last two say nothing of a message one of
whose requests was carried out and has an unknown answer (`Lost`), nor of fields
another client changed. The proof has one lemma for each way an item can move (it rests,
asks, is served, acknowledged, finished), to which the actions are led back.

`ProfileSyncProofs` proves `VersionsAreNewest`, `SettledMeansShared` and the action
property `NothingIsOverwritten` for any finite set of devices, any settings and values,
and any number of changes, reviews and stopped passes. `ProfileIInv` has three parts.
`HistoriesOK` says that an operation follows earlier ones only, and of every journal that
what it has applied contains the ancestors of each operation in it and that its versions are
the newest of these. `DriveOK` and `StoreTyped` are the values of the rest. `DeviceOK` is
about the passes, which read in one step what they use in a later one: the operation
that carries a value is applied and wrote it, and a setting without one is unsaved
(`Carried`); a setting up to date with the history agreed with its only version
(`AgreedUpon`); a change on its way is not newer than the screen and is admitted as one
operation, whatever pass repeats it (`Underway`); and the worker finds at each step
what the step before it left, the receipt of an acknowledgment above all
(`WorkerKnows`). Without `WorkerKnows` an acknowledgment could mark a setting as shared
that shows something else; without `Underway` a repeated admission could find another
change under its request.

The merge is computed by two recursive functions, `Ancestry` and the loop of
`ApplyReady`. That they exist, and what they compute, is proved by induction on
numbers, written with sets: a set of numbers has a least one because finite sets are well
founded (`LeastNumber`), from which `SetInduction` and `StrongInduction` follow. So
`AppliedKnown` shows that the loop has rounds enough: a device has applied exactly the
operations whose record and all of whose ancestors it holds (`AppliedIsKnown`), with
`HistoriesDrained` as the invariant. `DevicesAgree` draws the conclusion that merging is for:
two devices with the same records show the same versions of every setting, whatever order the
records came in and wherever their passes were stopped.

The assumptions are those named in the modules (`BoundsAssumption`,
`TasksAssumption`, `MovesAssumption`, `ParametersAssumption`, `ScheduleAssumption`,
`CalendarAssumption`, `LeavesAssumption`, `CacheAssumption`, `SetupsAssumption`,
`BulkAssumption`, `ProfileAssumption`): types of the constants, that the folders, the messages of a folder and the
devices are finite, and nothing about their size.

## Plan

The order is by what goes wrong for a person if the code is wrong.

1. Done: `Outbox` with `DeliveryPromise`, `AccountWork`, `MoveJournal`,
   `FolderSync`, `SyncSchedule`, `BulkWork`, `ActionOwner`, `CalendarWork`,
   `CacheRoot`, `ProfileSync`, `FolderWork`, `Credentials` with the removal of
   accounts, and the proofs above.
2. Next: `BackupUpload`, the upload journal and its resumption; the password vault;
   single flag changes and deletions.

Every safety and action property of a passing run is a theorem but `TypesOK` of MCJournals,
the conjunction of type invariants that are proved one by one. Two groups are theorems under a
condition that their sections name: `OneCopyPerMove` and `CacheFollowsServers` of
MoveJournal for the servers of `UploadsOnly`, and the properties of FolderSync while
`WritesFit` holds.
`ListingConverges` and the other liveness properties stay with TLC too: fairness and
`ENABLED` are out of the provers' reach.

## What is not modelled

`PROJECT.json` lists every component with its status. Of
backups only what a restore does to secrets is modelled, of the password vault
nothing yet. Left out on purpose: presentation (window, reader,
printing, notifications), which keeps no durable state; the store's worker, since
a transaction is one action everywhere; the lanes of the dispatcher, since commands are
concurrent actions everywhere, which allows every order the lanes allow;
protocol parsing and transport (SMTP, IMAP, POP3, OAuth, Drive), of which only the
outcome counts; activation, which the operating system decides; database
transfer, which fences rows by the states Outbox and MoveJournal have; and the
Flutter, browser and gateway programs, which have journals of their own.
## What stays with TLC

Liveness under fairness and anything about ENABLED is model-checked only: the
prover does not reason about them. The library's
induction theorems take an operator, which the installed provers cannot instantiate.
Induction on numbers is proved for sets instead, and is enough for the ancestry and the
merge of ProfileSync, whose recursive functions are over numbers; no module with a theorem
uses a RECURSIVE operator.
