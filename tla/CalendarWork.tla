----------------------------- MODULE CalendarWork -----------------------------
(***************************************************************************)
(* Changes of a calendar event: the journal calendar_actions, the step the *)
(* action owner runs for one change, and what the user can do about a      *)
(* change that failed.  One event of one calendar, the server's copy of    *)
(* it, and the rows the cache has for it.                                  *)
(*                                                                         *)
(* A change names the event by the id, the version (etag) and the address  *)
(* it saw.  An event made here gets its id here; Google gives it another   *)
(* one.  While a change waits for an earlier one to end it cannot know the *)
(* version that one will leave: it is told when that is known (rebind).    *)
(*                                                                         *)
(* The optimistic check of a revision is the flag fresh of the reader: it  *)
(* says that the row was not written since it was read.                    *)
(***************************************************************************)
EXTENDS Naturals, Sequences, FiniteSets

CONSTANTS
    Contents,        \* what the user writes into an event
    Theirs,          \* what another client writes
    MaxChanges,      \* bound: changes admitted
    OpenChanges,     \* CAPACITY: unfinished changes the journal holds
    Attempts,        \* attempts after which only the user retries
    MaxForeign,      \* bound: changes by another client
    MaxMishaps,      \* bound: failures and lost answers
    MaxStops         \* bound: stops of the process

ASSUME CalendarAssumption ==
    /\ Theirs \notin Contents /\ IsFiniteSet(Contents)
    /\ {MaxChanges, OpenChanges, Attempts, MaxForeign, MaxMishaps, MaxStops} \subseteq Nat

VARIABLES
    service,         \* caldav, or google, which gives an event another id
    journal,         \* calendar_actions, in the order of its rowids
    worker,          \* the step under way
    review,          \* the check of one change, asked for by the user
    form,            \* the event as the open form shows it
    remote,          \* the event on the server
    eventRows,       \* the rows of the cache
    latest,          \* the last version the server gave
    effects,         \* history: how often each change reached the server
    collided,        \* history: changes another change of the user overtook
    unread,          \* history: another client changed the event since a refresh
                     \* that no repair was to follow
    foreign, mishaps, stops

calendarCounts == <<foreign, mishaps, stops>>
calendarVars == <<service, journal, worker, review, form, remote, eventRows, latest,
                  effects, collided, unread, calendarCounts>>

Nothing == [id |-> "none", etag |-> 0, url |-> FALSE, content |-> 0]
New == [id |-> "ours", etag |-> 0, url |-> FALSE, content |-> 0]
ServerId == IF service = "google" THEN "theirs" ELSE "ours"
OnServer(version, text) == [id |-> ServerId, etag |-> version, url |-> TRUE, content |-> text]

Ids == {"none", "ours", "theirs"}
Texts == Contents \cup {Theirs, 0}
Events == [id : Ids, etag : Nat, url : BOOLEAN, content : Texts]
Statuses == {"queued", "running", "waiting", "repair", "succeeded", "rejected",
             "uncertain", "cancelled"}
Unfinished == Statuses \ {"succeeded", "cancelled"}
Ended == {"succeeded", "rejected", "cancelled"}
Changes == DOMAIN journal
NoWork == [at |-> "idle", change |-> 0, fresh |-> FALSE, answer |-> "none", event |-> Nothing]
NoReview == [at |-> "none", change |-> 0, fresh |-> FALSE, event |-> Nothing]

CalendarInit ==
    /\ service \in {"caldav", "google"}
    /\ \E text \in {0, Theirs} :
        /\ remote = IF text = 0 THEN Nothing ELSE OnServer(1, text)
        /\ eventRows = {remote} \ {Nothing}
    /\ journal = <<>> /\ worker = NoWork /\ review = NoReview /\ form = Nothing
    /\ latest = 1 /\ effects = <<>> /\ collided = {} /\ unread = FALSE
    /\ foreign = 0 /\ mishaps = 0 /\ stops = 0

Mishap == mishaps < MaxMishaps /\ mishaps' = mishaps + 1 /\ UNCHANGED <<foreign, stops>>
NoMishap == UNCHANGED calendarCounts
Server == <<remote, latest, effects, collided>>
User == <<form, service>>

----------------------------------------------------------------------------
(* The journal: write(), rebind_children() and cache(). *)

(* A reader of change c has an old revision of it. *)
Stale(reader, written) == [reader EXCEPT !.fresh = @ /\ reader.change \notin written]
Written(after) == {c \in Changes : after[c] # journal[c]}
(* Every write of a change gives it a new revision. *)
Write(after) ==
    /\ journal' = after
    /\ review' = Stale(review, Written(after))

Naming(event, receipt) ==
    [event EXCEPT !.id = receipt.id, !.etag = receipt.etag, !.url = receipt.url]
Rebound(after, c) ==
    [k \in Changes |->
        IF after[k].previous = c /\ after[k].status = "queued" /\ after[c].receipt # Nothing
        THEN [after[k] EXCEPT !.event = Naming(@, after[c].receipt)]
        ELSE after[k]]
Cached(event, current) ==
    {row \in eventRows : row.id \notin {event.id, current.id}} \cup ({current} \ {Nothing})

Admissible(c) ==
    LET previous == journal[c].previous IN
    previous # 0 => journal[previous].status \in Ended

----------------------------------------------------------------------------
(* The user: forms, and admit_calendar_action(). *)

Shown(c) == IF journal[c].receipt # Nothing THEN journal[c].receipt ELSE journal[c].event
Visible ==
    eventRows \cup {Shown(c) : c \in {k \in Changes : journal[k].status \in Unfinished /\ ~journal[k].deleting}}
         \cup (IF journal = <<>> /\ remote = Nothing THEN {New} ELSE {})

OpenForm ==
    /\ form = Nothing /\ Len(journal) < MaxChanges
    /\ form' \in Visible
    /\ UNCHANGED <<service, journal, worker, review, Server, eventRows, unread, calendarCounts>>
CloseForm ==
    /\ form # Nothing /\ form' = Nothing
    /\ UNCHANGED <<service, journal, worker, review, Server, eventRows, unread, calendarCounts>>

(* The logical and the physical matches: the latest of them comes before. *)
Matches(event) ==
    {c \in Changes : journal[c].origin = event.id \/ journal[c].event.id = event.id}
Previous(event) ==
    IF Matches(event) = {} THEN 0 ELSE CHOOSE c \in Matches(event) : \A k \in Matches(event) : k <= c

Change(event, deletes, before) ==
    [origin |-> event.id, event |-> event, deleting |-> deletes, status |-> "queued",
     receipt |-> Nothing, applied |-> FALSE, checked |-> FALSE, observed |-> Nothing,
     previous |-> before, attempts |-> 0, due |-> FALSE]
(* A rejected change gives way to the next one. *)
GivenWay(before) ==
    [c \in Changes |-> IF c = before /\ journal[c].status = "rejected"
                       THEN [journal[c] EXCEPT !.status = "cancelled"] ELSE journal[c]]
Admit ==
    /\ form # Nothing /\ Len(journal) < MaxChanges
    /\ Cardinality({c \in Changes : journal[c].status \in Unfinished}) < OpenChanges
    /\ \E text \in Contents, deletes \in BOOLEAN :
        LET event == [form EXCEPT !.content = IF deletes THEN @ ELSE text]
            before == Previous(event) IN
        /\ deletes => text = CHOOSE t \in Contents : TRUE
        /\ journal' = Append(GivenWay(before), Change(event, deletes, before))
        /\ review' = Stale(review, Written(GivenWay(before)))
    /\ effects' = Append(effects, 0)
    /\ form' = Nothing
    /\ UNCHANGED <<service, worker, remote, latest, collided, eventRows, unread, calendarCounts>>

(* retry_calendar_action() *)
RetryChange(c) ==
    /\ journal[c].status = "waiting"
    /\ Write([journal EXCEPT ![c].status = "queued", ![c].attempts = 0, ![c].due = FALSE])
    /\ worker' = Stale(worker, {c})
    /\ UNCHANGED <<User, Server, eventRows, unread, calendarCounts>>

Resolvable_Unchecked(change) == change.status \in {"rejected", "waiting", "uncertain", "repair"} \* mutant
Resolvable(change) ==
    \/ change.status \in {"rejected", "waiting"}
    \/ change.checked /\ change.status \in {"uncertain", "repair"}
(* resolve_calendar_action() *)
Resolved(change) ==
    [change EXCEPT !.status = "cancelled", !.receipt = IF change.checked THEN change.observed ELSE @]
ResolveChange(c) ==
    /\ Resolvable(journal[c])
    /\ LET after == Rebound([journal EXCEPT ![c] = Resolved(@)], c) IN
        Write(after) /\ worker' = Stale(worker, Written(after))
    /\ UNCHANGED <<User, Server, eventRows, unread, calendarCounts>>

----------------------------------------------------------------------------
(* The step of the action owner: execute_calendar_work(). *)

Access == worker.at \notin {"claimed", "answered", "recorded"} /\ review.at # "reading"

Repairs(change) == change.status = "repair" /\ ~change.checked /\ ~change.applied
Dispatchable(change) == change.status = "queued" \/ (change.status = "waiting" /\ change.due)

Pick(c) ==
    /\ worker.at = "idle"
    /\ Repairs(journal[c]) \/ (Dispatchable(journal[c]) /\ Admissible(c))
    /\ worker' = [NoWork EXCEPT !.at = IF journal[c].status = "repair" THEN "repairing" ELSE "picked",
                                !.change = c, !.fresh = TRUE]
    /\ UNCHANGED <<User, journal, review, Server, eventRows, unread, calendarCounts>>

(* What the claim takes over from the change before. *)
Result(before) ==
    IF before.status # "succeeded" /\ ~before.checked THEN Nothing
    ELSE IF before.receipt # Nothing THEN before.receipt ELSE before.observed
Inherited_Own(change) == change.event                                           \* mutant
Inherited(change) ==
    IF change.previous = 0 \/ Result(journal[change.previous]) = Nothing THEN change.event
    ELSE Naming(change.event, Result(journal[change.previous]))
(* claim_calendar_action() *)
Claim ==
    LET c == worker.change IN
    /\ worker.at = "picked" /\ Access
    /\ Dispatchable(journal[c]) /\ Admissible(c)
    /\ Write([journal EXCEPT ![c].status = "running", ![c].event = Inherited(journal[c]),
                             ![c].attempts = @ + 1, ![c].due = FALSE])
    /\ worker' = [worker EXCEPT !.at = "claimed", !.fresh = TRUE]
    /\ UNCHANGED <<User, Server, eventRows, unread, calendarCounts>>
(* The claim is refused, or fails: a change that was not written since it  *)
(* was read is rejected.                                                   *)
ClaimFails ==
    LET c == worker.change IN
    /\ worker.at = "picked" /\ Access
    /\ IF Dispatchable(journal[c]) /\ Admissible(c) THEN Mishap ELSE NoMishap
    /\ IF worker.fresh /\ journal[c].status \in {"queued", "waiting"}
       THEN Write([journal EXCEPT ![c].status = "rejected"]) ELSE UNCHANGED <<journal, review>>
    /\ worker' = NoWork
    /\ UNCHANGED <<User, Server, eventRows, unread>>

----------------------------------------------------------------------------
(* The request: save_event() and delete_event(). *)

Event == journal[worker.change].event
Deleting == journal[worker.change].deleting
Creating == Event.etag = 0 /\ ~Event.url
CalendarAnswers(kind, event) == worker' = [worker EXCEPT !.at = "answered", !.answer = kind, !.event = event]

(* The server has the version the change saw, or nothing where it makes one. *)
Accepts ==
    IF Creating THEN ~Deleting /\ remote = Nothing
    ELSE remote # Nothing /\ Event.etag = remote.etag
Takes ==
    /\ remote' = IF Deleting THEN Nothing ELSE OnServer(latest + 1, Event.content)
    /\ latest' = latest + 1
    /\ effects' = [effects EXCEPT ![worker.change] = @ + 1]
    /\ UNCHANGED collided
(* The answer to a save may lack the version. *)
Receipt(version) == IF Deleting THEN Event ELSE OnServer(version, Event.content)
Accepted ==
    /\ worker.at = "claimed" /\ Accepts /\ Takes
    /\ \/ CalendarAnswers("ok", Receipt(latest + 1)) /\ NoMishap
       \/ ~Deleting /\ CalendarAnswers("ok", Receipt(0)) /\ Mishap
    /\ UNCHANGED <<User, journal, review, eventRows, unread>>
LostAfter ==
    /\ worker.at = "claimed" /\ Accepts /\ Takes
    /\ CalendarAnswers("uncertain", Nothing) /\ Mishap
    /\ UNCHANGED <<User, journal, review, eventRows, unread>>

(* The server has what the change would write already, or nothing to delete. *)
AlreadyThere == ~Deleting /\ remote # Nothing /\ remote.content = Event.content
AlreadyGone == Deleting /\ Event.etag # 0 /\ remote = Nothing
Needless ==
    /\ worker.at = "claimed" /\ ~Accepts
    /\ Creating \/ Event.etag # 0
    /\ \/ AlreadyThere /\ CalendarAnswers("ok", remote)
       \/ AlreadyGone /\ CalendarAnswers("ok", Event)
    /\ UNCHANGED <<User, journal, review, Server, eventRows, unread, calendarCounts>>

(* Every change waits for the one before it. *)
ChainedTo(c) == \A k \in 2 .. c : journal[k].previous = k - 1
(* Everything it waited for succeeded, and nobody else changed the event. *)
Overtaken(c) ==
    /\ foreign = 0 /\ remote # Nothing
    /\ ChainedTo(Len(journal)) /\ \A k \in 1 .. c - 1 : journal[k].status = "succeeded"
(* Another version than the one the change saw, or no version to name. *)
Refused ==
    /\ worker.at = "claimed" /\ ~Accepts
    /\ ~(Creating \/ Event.etag # 0) \/ ~(AlreadyThere \/ AlreadyGone)
    /\ collided' = IF Overtaken(worker.change) THEN collided \cup {worker.change} ELSE collided
    /\ CalendarAnswers("rejected", Nothing)
    /\ UNCHANGED <<User, journal, review, remote, latest, effects, eventRows, unread, calendarCounts>>

(* The request did not reach the server, or its answer does not tell. *)
NotSent ==
    /\ worker.at = "claimed" /\ Mishap
    /\ \E kind \in {"rejected", "offline", "authentication", "uncertain"} : CalendarAnswers(kind, Nothing)
    /\ UNCHANGED <<User, journal, review, Server, eventRows, unread>>
----------------------------------------------------------------------------
(* What is recorded of the answer. *)

(* wait_calendar_action() *)
Postponed(change) ==
    [change EXCEPT !.status = "waiting",
                   !.due = worker.answer = "offline" /\ change.attempts < Attempts]
Recorded(change) ==
    CASE worker.answer = "ok" -> [change EXCEPT !.status = "repair", !.receipt = worker.event]
      [] worker.answer \in {"offline", "authentication"} -> Postponed(change)
      [] OTHER -> [change EXCEPT !.status = worker.answer]
Record ==
    /\ worker.at = "answered"
    /\ Write([journal EXCEPT ![worker.change] = Recorded(@)])
    /\ worker' = IF worker.answer = "ok" THEN [worker EXCEPT !.at = "recorded"] ELSE NoWork
    /\ UNCHANGED <<User, Server, eventRows, unread, calendarCounts>>
(* It could not be recorded: the change is marked uncertain, if that can be. *)
RecordFails ==
    /\ worker.at = "answered" /\ Mishap
    /\ worker' = [worker EXCEPT !.at = "unrecorded"]
    /\ UNCHANGED <<User, journal, review, Server, eventRows, unread>>
Unrecorded_Queued(change) == [change EXCEPT !.status = "queued"]                \* mutant
Unrecorded(change) == [change EXCEPT !.status = "uncertain"]
MarkUncertain ==
    /\ worker.at = "unrecorded"
    /\ \/ Write([journal EXCEPT ![worker.change] = Unrecorded(@)]) /\ NoMishap
       \/ Mishap /\ UNCHANGED <<journal, review>>
    /\ worker' = NoWork
    /\ UNCHANGED <<User, Server, eventRows, unread>>

NeedsCheck(change) == ~change.deleting /\ change.receipt.url /\ change.receipt.etag = 0
Applied(change) ==
    [change EXCEPT !.applied = TRUE, !.status = IF NeedsCheck(change) THEN "repair" ELSE "succeeded"]
(* apply_calendar_receipt(), with rebind_children() *)
Apply ==
    LET change == journal[worker.change] IN
    /\ worker.at = "recorded" \/ (worker.at = "repairing" /\ Access)
    /\ IF Repairs(change)
       THEN /\ eventRows' = Cached(change.event, IF change.deleting THEN Nothing ELSE change.receipt)
            /\ Write(Rebound([journal EXCEPT ![worker.change] = Applied(@)], worker.change))
       ELSE UNCHANGED <<eventRows, journal, review>>
    /\ worker' = NoWork
    /\ UNCHANGED <<User, Server, unread, calendarCounts>>
ApplyFails ==
    /\ worker.at = "recorded" \/ (worker.at = "repairing" /\ Access)
    /\ Mishap /\ worker' = NoWork
    /\ UNCHANGED <<User, journal, review, Server, eventRows, unread>>

----------------------------------------------------------------------------
(* check_calendar_job(): the server is read and shown to the user. *)

CheckBegins(c) ==
    /\ review.at = "none" /\ journal[c].status \in {"uncertain", "repair"}
    /\ review' = [NoReview EXCEPT !.at = "begun", !.change = c, !.fresh = TRUE]
    /\ UNCHANGED <<User, journal, worker, Server, eventRows, unread, calendarCounts>>
CheckReads ==
    /\ review.at = "begun" /\ Access
    /\ review' = [review EXCEPT !.at = "reading", !.event = remote]
    /\ UNCHANGED <<User, journal, worker, Server, eventRows, unread, calendarCounts>>
(* check_calendar_action() *)
CheckSaves ==
    LET c == review.change IN
    /\ review.at = "reading"
    /\ IF review.fresh /\ journal[c].status \in {"uncertain", "repair"}
       THEN /\ eventRows' = Cached(journal[c].event, review.event)
            /\ journal' = [journal EXCEPT ![c].checked = TRUE, ![c].observed = review.event]
            /\ worker' = Stale(worker, {c})
       ELSE UNCHANGED <<eventRows, journal, worker>>
    /\ review' = NoReview
    /\ UNCHANGED <<User, Server, unread, calendarCounts>>
CheckFails ==
    /\ review.at # "none" /\ review' = NoReview
    /\ UNCHANGED <<User, journal, worker, Server, eventRows, unread, calendarCounts>>

(* A refresh of the calendar, under the same access: replace_events(). *)
RefreshEvents ==
    /\ Access
    /\ eventRows' = {remote} \ {Nothing}
    /\ unread' = (unread /\ \E c \in Changes : Repairs(journal[c]))
    /\ UNCHANGED <<User, journal, worker, review, Server, calendarCounts>>

(* Another client changes or deletes the event. *)
OtherClient ==
    /\ foreign < MaxForeign /\ foreign' = foreign + 1
    /\ remote # Nothing
    /\ remote' \in {Nothing, OnServer(latest + 1, Theirs)}
    /\ latest' = latest + 1 /\ unread' = TRUE
    /\ UNCHANGED <<User, journal, worker, review, eventRows, effects, collided, mishaps, stops>>

Recovered_Queued(change) ==                                                   \* mutant
    IF change.status = "running" THEN [change EXCEPT !.status = "queued"] ELSE change
(* after_restart() *)
Recovered(change) ==
    IF change.status = "running" THEN [change EXCEPT !.status = "uncertain"] ELSE change
(* The process stops; recover() runs before anything else does. *)
Restart ==
    /\ stops < MaxStops /\ stops' = stops + 1
    /\ journal' = [c \in Changes |-> Recovered(journal[c])]
    /\ worker' = NoWork /\ review' = NoReview /\ form' = Nothing
    /\ UNCHANGED <<service, Server, eventRows, unread, foreign, mishaps>>

Step == Claim \/ ClaimFails \/ Accepted \/ LostAfter \/ Needless \/ Refused \/ NotSent
        \/ Record \/ RecordFails \/ MarkUncertain \/ Apply \/ ApplyFails
CheckStep == CheckReads \/ CheckSaves \/ CheckFails
CalendarNext ==
    \/ OpenForm \/ CloseForm \/ Admit
    \/ \E c \in Changes : RetryChange(c) \/ ResolveChange(c) \/ Pick(c) \/ CheckBegins(c)
    \/ Step \/ CheckStep
    \/ RefreshEvents \/ OtherClient \/ Restart
CalendarSpec == CalendarInit /\ [][CalendarNext]_calendarVars

----------------------------------------------------------------------------
CalendarTypeOK ==
    /\ service \in {"caldav", "google"}
    /\ \A c \in Changes :
        /\ journal[c] \in [origin : Ids, event : Events, deleting : BOOLEAN, status : Statuses,
                           receipt : Events, applied : BOOLEAN, checked : BOOLEAN,
                           observed : Events, previous : 0 .. c - 1, attempts : Nat, due : BOOLEAN]
    /\ worker.at \in {"idle", "picked", "repairing", "claimed", "answered", "recorded", "unrecorded"}
    /\ worker.change \in {0} \cup Changes /\ worker.fresh \in BOOLEAN /\ worker.event \in Events
    /\ review.at \in {"none", "begun", "reading"} /\ review.change \in {0} \cup Changes
    /\ form \in Events /\ remote \in Events /\ eventRows \subseteq Events
    /\ DOMAIN effects = Changes /\ collided \subseteq Changes /\ unread \in BOOLEAN

(* A change reaches the server at most once, whatever is retried, fails to *)
(* be recorded, or is interrupted: a request whose answer is not known is  *)
(* never made again.                                                       *)
ChangedOnce == \A c \in Changes : effects[c] <= 1

AllEnded == \A c \in Changes : journal[c].status \in Ended
CacheIsTrue == eventRows = {remote} \ {Nothing}
(* When every change has ended, the cache has the event the server has,    *)
(* once and under the id the server gave it, unless another client has     *)
(* changed it since the last refresh: an answer that was lost or not       *)
(* recorded is made good by the check the user must make.  Changes that do *)
(* not wait for each other are left to RepairsStayInOrder.                 *)
SettledIsShown == AllEnded /\ ~unread /\ ChainedTo(Len(journal)) => CacheIsTrue

(* The same without that exception.  The code violates it: the change that *)
(* created an event is found by the id the event had here, not by the one  *)
(* of the receipt, so a deletion admitted under the id Google gave does    *)
(* not wait for it, and its late repair brings the event back.             *)
RepairsStayInOrder == AllEnded /\ ~unread => CacheIsTrue

(* A change is not refused because of the changes of the same user it      *)
(* waited for: it takes over the id and version they left, even when its   *)
(* form was opened before they reached the server.                         *)
OwnChangesNeverCollide == collided = {}

----------------------------------------------------------------------------
(* The inductive invariant behind the theorems of CalendarWorkProofs. *)

Chained == ChainedTo(Len(journal))
EarlierDone(c) == \A k \in 1 .. c - 1 : journal[k].status = "succeeded"

(* A change that was checked, or applied to the cache. *)
WellMarked(change) ==
    /\ change.checked => change.status \in {"uncertain", "repair", "cancelled"}
    /\ change.applied => change.status \in {"repair", "succeeded", "cancelled"}
(* What the worker and the check are at, and the status of their change. *)
StagesAgree ==
    /\ worker.at \in {"claimed", "answered", "unrecorded"} => journal[worker.change].status = "running"
    /\ worker.at = "recorded" => Repairs(journal[worker.change])
    /\ worker.at # "idle" => Admissible(worker.change)
    /\ review.at = "reading" => worker.at \notin {"claimed", "answered", "recorded"}
    /\ \A c \in Changes : WellMarked(journal[c])

(* A change starts when what it waits for has ended. *)
ChangesInOrder ==
    /\ \A c \in Changes : journal[c].status # "queued" => Admissible(c)
    /\ Chained => \A c \in Changes : journal[c].status # "queued" =>
                      \A k \in 1 .. c - 1 : journal[k].status \in Ended

(* Who names the event of the server, and who at least has its address. *)
Knows(event) == event.url /\ event.etag = remote.etag
KnowsBut(event) == event.url /\ event.etag \in {0, remote.etag}
ToldOf(c) ==
    /\ worker.at = "claimed" /\ worker.change = c => Knows(journal[c].event)
    /\ worker.at = "answered" /\ worker.change = c /\ worker.answer = "ok" =>
          ~journal[c].deleting /\ KnowsBut(worker.event)
    /\ Repairs(journal[c]) => ~journal[c].deleting /\ KnowsBut(journal[c].receipt)
    /\ journal[c].status = "succeeded" /\ (\A k \in Changes : k > c => effects[k] = 0) =>
          ~journal[c].deleting /\ Knows(journal[c].receipt)
(* While nobody else changes the event, the change whose turn it is knows the *)
(* version that those before it left, as the first one knows the one it saw.  *)
ToldEmpty == CacheIsTrue /\ (remote # Nothing => form \in {Nothing, remote} /\ remote.url)
ToldFirst == remote # Nothing /\ (\A k \in Changes : effects[k] = 0) => Knows(journal[1].event)
Told ==
    foreign = 0 /\ Chained =>
        IF journal = <<>> THEN ToldEmpty
        ELSE ToldFirst /\ (remote # Nothing => \A c \in Changes : EarlierDone(c) => ToldOf(c))

(* Events that may be on the server are named as the server names them. *)
Named(event) == event.id # "none" /\ (event.url \/ event.etag # 0 => event.id = ServerId)
Served(event) == event = Nothing \/ event.id = ServerId
EventsNamed ==
    /\ remote # Nothing => remote.id = ServerId /\ remote.url /\ remote.etag # 0
    /\ \A row \in eventRows : row.id = ServerId
    /\ form # Nothing => Named(form)
    /\ Served(worker.event) /\ Served(review.event)
    /\ \A c \in Changes :
          Named(journal[c].event) /\ Served(journal[c].receipt) /\ Served(journal[c].observed)

(* A change that leaves the cache behind the server, until its receipt is     *)
(* applied or the user checks it.                                             *)
Unsettled(c) == journal[c].status \in {"running", "uncertain", "repair"} /\ ~journal[c].checked
(* The receipt tells what the server has. *)
Agrees(change, receipt) ==
    IF change.deleting THEN remote = Nothing /\ change.event.id = ServerId
    ELSE remote # Nothing /\ receipt \in {remote, [remote EXCEPT !.etag = 0]}
Refusals == {"rejected", "offline", "authentication"}
Settling ==
    Chained /\ ~unread =>
    /\ CacheIsTrue \/ \E c \in Changes : Unsettled(c)
    /\ worker.at = "claimed" => CacheIsTrue
    /\ worker.at = "answered" /\ worker.answer \in Refusals => CacheIsTrue
    /\ worker.at = "answered" /\ worker.answer = "ok" => Agrees(journal[worker.change], worker.event)
    /\ \A c \in Changes : Repairs(journal[c]) => Agrees(journal[c], journal[c].receipt)
    /\ review.at = "reading" => review.event = remote
    /\ remote = Nothing /\ eventRows # {} => \A c \in Changes : Unsettled(c) => journal[c].event.id = ServerId

============================================================================
