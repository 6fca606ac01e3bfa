----------------------------- MODULE ActionOwner -----------------------------
(***************************************************************************)
(* The action owner: one loop that reads the durable queues (mail items,   *)
(* folder changes, calendar actions, outgoing messages, folder creations,  *)
(* removals), starts what may run, and sleeps until a step ends, a wake    *)
(* arrives or a delay has passed.  What a step does to its own row is in   *)
(* the module of its queue; here it succeeds, fails, or leaves a repair.   *)
(*                                                                         *)
(* A work is one row.  Its number orders it within its queue, as the id    *)
(* of the row does.                                                        *)
(***************************************************************************)
EXTENDS Naturals, FiniteSets

CONSTANTS
    Works,        \* the rows, 1 .. n
    Queue,        \* the queue (domain) of each row, from 0
    JobOf,        \* the job of each row: its lease and its retry delay
    Holds,        \* the accounts each row needs
    Before,       \* the rows that must have ended first
    Queues,       \* how many queues there are
    Mail,         \* the queue whose rows are leased and read by pages
    Calendar,     \* the queue whose rows may wait for a time of their own
    PageSize,     \* keys read of the mail queue at once
    Capacity,     \* NETWORK_CONCURRENCY: steps at once, one more for a repair
    Failing,      \* rows whose steps never succeed
    MaxTroubles   \* bound: failures of the other steps and of the owner's own
                  \* database calls, and closes of the window

Domains == 0 .. Queues - 1
WorkJobs == {JobOf[w] : w \in Works}
DomainOfJob(j) == Queue[CHOOSE w \in Works : JobOf[w] = j]

ASSUME OwnerAssumption ==
    /\ IsFiniteSet(Works) /\ Works = 1 .. Cardinality(Works)
    /\ Queue \in [Works -> Domains] /\ Before \in [Works -> SUBSET Works]
    /\ DOMAIN JobOf = Works /\ DOMAIN Holds = Works
    /\ \A v, w \in Works : JobOf[v] = JobOf[w] => v = w \/ (Queue[v] = Mail /\ Queue[w] = Mail)
    /\ {Queues, PageSize, Capacity} \subseteq Nat \ {0}
    /\ MaxTroubles \in Nat /\ Failing \subseteq Works

VARIABLES
    row,          \* what the database says of each row
    active,       \* the rows whose steps are under way
    outcome,      \* how a step has ended
    backoff,      \* the retry delay of each job
    at,           \* where the loop is, off before it is spawned
    pass,         \* the pass over the queues: repairs first, then the rest
    offset,       \* the queue looked at, counted from first
    first,        \* next_domain
    after,        \* the key each queue was read to
    finished,     \* Sweep: the passes that reached the end of each queue
    blocked,      \* queues that are not read
    pause,        \* storage_backoff: the delay after which one is again
    more,         \* scan_pending: a page was full
    scanning, progressed,
    waking,       \* the channel of wakes, with room for one
    owed,         \* wakes the window has still to send
    stopping,
    troubles

loop == <<at, pass, offset, first, after, finished, blocked, pause, more, scanning, progressed>>
outside == <<row, outcome, waking, owed, stopping>>
ownerVars == <<loop, outside, active, backoff, troubles>>

Delay == {"none", "armed", "elapsed"}
(* A calendar row that failed waits for its retry_at, later; then it is     *)
(* waiting, which a row just admitted is not.                               *)
RowStates == {"absent", "queued", "waiting", "later", "repair", "over"}
Runnable(w) == row[w] \in {"queued", "waiting", "repair"}
AnyJob == 0          \* BulkRun of no job in particular
Passes == {"repair", "normal"}

OwnerInit ==
    /\ row = [w \in Works |-> "absent"] /\ active = {}
    /\ outcome = [w \in Works |-> "none"]
    /\ backoff = [j \in WorkJobs |-> "none"]
    /\ at = "off" /\ pass = "repair" /\ offset = 0 /\ first = 0
    /\ after = [d \in Domains |-> 0]
    /\ finished = [d \in Domains |-> {}]
    /\ blocked = [d \in Domains |-> FALSE]
    /\ pause = [d \in Domains |-> "none"]
    /\ more = FALSE /\ scanning = FALSE /\ progressed = FALSE
    /\ waking = {} /\ owed = {} /\ stopping = FALSE
    /\ troubles = 0

----------------------------------------------------------------------------
(* Reading a queue: scan_action_work(). *)

Running == Cardinality(active)
Occupying == UNION {Holds[w] : w \in active}
Key(w) == IF row[w] = "repair" THEN w ELSE Cardinality(Works) + w
InPass(w, p) == p = "repair" => row[w] = "repair"

Eligible_Busy(w) ==                                               \* mutant
    /\ Runnable(w) /\ w \notin active
    /\ backoff[JobOf[w]] # "armed"
    /\ row[w] = "repair" \/ \A v \in Before[w] : row[v] \in {"absent", "over"}
(* A row that may be started now, in whichever pass. *)
Eligible(w) ==
    /\ Runnable(w) /\ w \notin active
    /\ backoff[JobOf[w]] # "armed"
    /\ Holds[w] \cap Occupying = {}
    /\ row[w] = "repair" \/ \A v \in Before[w] : row[v] \in {"absent", "over"}

Unread(d, p) == {w \in Works : Queue[w] = d /\ Key(w) > after[d] /\ InPass(w, p)}
Least(S) == CHOOSE w \in S : \A v \in S : Key(w) <= Key(v)
(* The mail queue is read by its keys, a page at a time. *)
Listed(d, p) == {w \in Unread(d, p) : Runnable(w)}
Page(d, p) ==
    IF d # Mail THEN Unread(d, p)
    ELSE {w \in Listed(d, p) : Cardinality({v \in Listed(d, p) : Key(v) < Key(w)}) < PageSize}
Found(d, p) == {w \in Page(d, p) : Eligible(w)}
PageIsFull(d, p) == d = Mail /\ Cardinality(Page(d, p)) = PageSize

Candidate(o) == (first + o) % Queues
(* Sweep::exhausted(). *)
Open == {o \in offset .. Queues - 1 :
            ~blocked[Candidate(o)] /\ pass \notin finished[Candidate(o)]}

----------------------------------------------------------------------------
(* One turn of the loop. *)

Trouble == troubles < MaxTroubles /\ troubles' = troubles + 1
BlockAll ==
    /\ blocked' = [d \in Domains |-> TRUE]
    /\ pause' = [d \in Domains |-> "armed"]
Over(d) == pause[d] = "elapsed"
Held(d) == IF Over(d) THEN FALSE ELSE blocked[d] \/ pause[d] = "armed"

Expired == {j \in WorkJobs : backoff[j] = "elapsed"}
Restart(news) == news /\ ~scanning

Spawn ==
    /\ at = "off" /\ at' = "top"
    /\ UNCHANGED <<pass, offset, first, after, finished, blocked, pause, more, scanning,
                   progressed, active, backoff, troubles, outside>>

(* Elapsed pauses end, expired delays are forgotten, and news starts the     *)
(* sweep again, unless one is half done.                                     *)
Top ==
    LET all   == \A d \in Domains : Held(d)
        news  == progressed \/ (~all /\ Expired # {})
        fresh == Restart(news) IN
    /\ at = "top" /\ ~stopping
    /\ at' = "scan" /\ pass' = "repair" /\ offset' = 0 /\ more' = FALSE
    /\ \/ /\ blocked' = [d \in Domains |-> Held(d)]
          /\ pause' = [d \in Domains |-> IF Over(d) THEN "none" ELSE pause[d]]
          /\ backoff' = IF all THEN backoff
                        ELSE [j \in WorkJobs |-> IF j \in Expired THEN "none" ELSE backoff[j]]
          /\ after' = [d \in Domains |-> IF fresh \/ Over(d) THEN 0 ELSE after[d]]
          /\ finished' = [d \in Domains |-> IF fresh \/ Over(d) THEN {} ELSE finished[d]]
          /\ progressed' = (news /\ ~fresh)
          /\ UNCHANGED troubles
       \/ /\ ~all /\ Trouble /\ BlockAll /\ UNCHANGED backoff
          /\ LET again == Restart(progressed) IN
             /\ after' = [d \in Domains |-> IF again \/ Over(d) THEN 0 ELSE after[d]]
             /\ finished' = [d \in Domains |-> IF again \/ Over(d) THEN {} ELSE finished[d]]
             /\ progressed' = (progressed /\ ~again)
    /\ UNCHANGED <<first, scanning, active, outside>>
TopStopped ==
    /\ at = "top" /\ stopping
    /\ at' = "rest" /\ more' = FALSE
    /\ scanning' = (scanning /\ Running >= Capacity)
    /\ UNCHANGED <<pass, offset, first, after, finished, blocked, pause, progressed,
                   active, backoff, troubles, outside>>

ToRest == at' = "rest" /\ scanning' = (more \/ (scanning /\ Running >= Capacity))
(* No queue is left to read in this pass, or no step may start. *)
EndPass ==
    /\ at = "scan" /\ (Open = {} \/ Running > Capacity)
    /\ IF Running < Capacity /\ pass = "repair" /\ ~more
       THEN pass' = "normal" /\ offset' = 0 /\ UNCHANGED <<at, scanning>>
       ELSE ToRest /\ UNCHANGED <<pass, offset>>
    /\ UNCHANGED <<first, after, finished, blocked, pause, more, progressed, active, backoff,
                   troubles, outside>>

Chosen == Candidate(CHOOSE o \in Open : \A q \in Open : o <= q)
Scans == at = "scan" /\ Open # {} /\ Running <= Capacity
Onward ==
    offset' = 1 + CHOOSE o \in Open : \A q \in Open : o <= q

ScanMore ==
    /\ Scans /\ Found(Chosen, pass) = {} /\ PageIsFull(Chosen, pass)
    /\ after' = [after EXCEPT ![Chosen] =
                    Key(CHOOSE w \in Page(Chosen, pass) :
                           \A v \in Page(Chosen, pass) : Key(v) <= Key(w))]
    /\ more' = TRUE /\ Onward
    /\ UNCHANGED <<at, pass, first, finished, blocked, pause, scanning, progressed,
                   active, backoff, troubles, outside>>
ScanDone ==
    /\ Scans /\ Found(Chosen, pass) = {} /\ ~PageIsFull(Chosen, pass)
    /\ finished' = [finished EXCEPT ![Chosen] = @ \cup {pass}]
    /\ Onward
    /\ UNCHANGED <<at, pass, first, after, blocked, pause, more, scanning, progressed,
                   active, backoff, troubles, outside>>
(* The queue cannot be read; it stays so until the user refreshes. *)
ScanFails ==
    /\ Scans /\ Trouble
    /\ blocked' = [blocked EXCEPT ![Chosen] = TRUE]
    /\ Onward
    /\ UNCHANGED <<at, pass, first, after, finished, pause, more, scanning, progressed,
                   active, backoff, outside>>

Leases(j) == \E w \in active : Queue[w] = Mail /\ JobOf[w] = j
(* action_work_progress(): a step without effect makes its job wait. *)
Delayed(j) == backoff' = [backoff EXCEPT ![j] = "armed"] /\ UNCHANGED <<blocked, pause>>
NotDelayed(d) ==
    /\ blocked' = [blocked EXCEPT ![d] = TRUE] /\ pause' = [pause EXCEPT ![d] = "armed"]
    /\ UNCHANGED backoff
Start ==
    LET w == Least(Found(Chosen, pass)) IN
    /\ Scans /\ Found(Chosen, pass) # {}
    /\ after' = [after EXCEPT ![Chosen] = Key(w)]
    /\ first' = (Chosen + 1) % Queues
    /\ pass' = "repair" /\ offset' = 0
    /\ \/ /\ active' = active \cup {w}
          /\ UNCHANGED <<backoff, blocked, pause, troubles>>
       \/ /\ Queue[w] = Mail /\ ~Leases(JobOf[w]) /\ Trouble
          /\ Delayed(JobOf[w]) \/ NotDelayed(Mail)
          /\ UNCHANGED active
    /\ UNCHANGED <<at, finished, more, scanning, progressed, outside>>

----------------------------------------------------------------------------
(* Sleeping, with something to do or without. *)

(* next_unreserved_calendar_retry(): only rows that have failed have a time. *)
Due(w) == row[w] = "waiting" /\ Queue[w] = Calendar /\ Eligible(w)
RetryDue_Calendar ==                                              \* mutant
    Running < Capacity /\ ~blocked[Calendar] /\ \E w \in Works : Due(w)
RetryDue ==
    /\ Running < Capacity
    /\ \/ \E j \in Expired : ~blocked[DomainOfJob(j)]
       \/ ~blocked[Calendar] /\ \E w \in Works : Due(w)
StorageDue == \E d \in Domains : Over(d)

Awake(news) == at = "rest" /\ at' = "top" /\ progressed' = news
Yield ==
    /\ ~stopping /\ (more \/ (progressed /\ ~scanning))
    /\ Awake(progressed)
    /\ UNCHANGED <<pass, offset, first, after, finished, blocked, pause, more, scanning,
                   active, backoff, troubles, outside>>
Timer ==
    /\ ~stopping /\ (RetryDue \/ StorageDue)
    /\ Awake(TRUE)
    /\ UNCHANGED <<pass, offset, first, after, finished, blocked, pause, more, scanning,
                   active, backoff, troubles, outside>>
(* A job with a running step is read again when that step ends. *)
News(j) == j = AnyJob \/ ~Leases(j)
Receive ==
    /\ waking # {} /\ waking' = {}
    /\ Awake(progressed \/ \E j \in waking : News(j))
    /\ blocked' = [d \in Domains |-> FALSE]
    /\ UNCHANGED <<pass, offset, first, after, finished, pause, more, scanning,
                   active, backoff, troubles, row, outcome, owed, stopping>>
Effective(w) == outcome[w] = "changed"
Complete(w) ==
    LET j == JobOf[w] IN
    /\ w \in active /\ outcome[w] # "none"
    /\ active' = active \ {w} /\ outcome' = [outcome EXCEPT ![w] = "none"]
    /\ Awake(progressed \/ Effective(w))
    /\ IF stopping THEN UNCHANGED <<backoff, blocked, pause, troubles>>
       ELSE IF Effective(w)
       THEN /\ backoff' = [backoff EXCEPT ![j] = IF @ = "elapsed" THEN "none" ELSE @]
            /\ UNCHANGED <<blocked, pause, troubles>>
       ELSE \/ Delayed(j) /\ UNCHANGED troubles
            \/ NotDelayed(Queue[w]) /\ Trouble
    /\ UNCHANGED <<pass, offset, first, after, finished, more, scanning,
                   row, waking, owed, stopping>>

----------------------------------------------------------------------------
(* Steps, which advance while the loop sleeps, the window and the clock.     *)

Ends(w, state, changed) ==
    /\ row' = [row EXCEPT ![w] = state]
    /\ outcome' = [outcome EXCEPT ![w] = changed]
Fails(w) ==
    IF w \in Failing THEN UNCHANGED troubles ELSE Trouble
Execute(w) ==
    /\ at = "rest" /\ w \in active /\ outcome[w] = "none"
    /\ \/ /\ w \notin Failing /\ Ends(w, "over", "changed")
          /\ UNCHANGED <<troubles, stopping>>
       \/ stopping /\ Ends(w, row[w], "unchanged") /\ UNCHANGED <<troubles, stopping>>
       \/ /\ Fails(w) /\ Ends(w, row[w], "unchanged")
          /\ stopping' = (stopping /\ Queue[w] # Mail)
       \/ /\ Queue[w] = Mail /\ Fails(w) /\ Ends(w, "repair", "unchanged")
          /\ stopping' = FALSE
       \/ /\ Queue[w] = Calendar /\ Fails(w) /\ row[w] \in {"queued", "waiting"}
          /\ \E s \in {"later", "repair"} : Ends(w, s, "changed")
          /\ UNCHANGED stopping
    /\ UNCHANGED <<loop, active, backoff, waking, owed>>

(* An admission is followed by a wake, which is dropped when one waits.      *)
AdmitWork(w) ==
    /\ row[w] = "absent" /\ row' = [row EXCEPT ![w] = "queued"]
    /\ owed' = owed \cup {JobOf[w]}
    /\ UNCHANGED <<loop, active, backoff, troubles, outcome, waking, stopping>>
Send(j) == waking' = IF waking = {} THEN {j} ELSE waking
Wake(j) ==
    /\ j \in owed /\ owed' = owed \ {j} /\ Send(j)
    /\ UNCHANGED <<loop, active, backoff, troubles, row, outcome, stopping>>
Stop ==
    /\ ~stopping /\ stopping' = TRUE /\ Trouble
    /\ UNCHANGED <<loop, active, backoff, row, outcome, waking, owed>>
(* BulkResume: the close is taken back, and the owner woken. *)
TakeBack ==
    /\ stopping /\ stopping' = FALSE /\ owed' = owed \cup {AnyJob}
    /\ UNCHANGED <<loop, active, backoff, troubles, row, outcome, waking>>

ElapseJob(j) ==
    /\ backoff[j] = "armed" /\ backoff' = [backoff EXCEPT ![j] = "elapsed"]
    /\ UNCHANGED <<loop, active, troubles, outside>>
ElapsePause(d) ==
    /\ pause[d] = "armed" /\ pause' = [pause EXCEPT ![d] = "elapsed"]
    /\ UNCHANGED <<at, pass, offset, first, after, finished, blocked, more, scanning,
                   progressed, active, backoff, troubles, outside>>
ElapseRow(w) ==
    /\ row[w] = "later" /\ row' = [row EXCEPT ![w] = "waiting"]
    /\ UNCHANGED <<loop, active, backoff, troubles, outcome, waking, owed, stopping>>

OwnerStep ==
    \/ Top \/ TopStopped \/ EndPass
    \/ ScanMore \/ ScanDone \/ ScanFails \/ Start
OwnerNext ==
    \/ Spawn \/ OwnerStep \/ Yield \/ Timer \/ Receive
    \/ \E w \in Works : Complete(w) \/ Execute(w) \/ AdmitWork(w) \/ ElapseRow(w)
    \/ \E j \in WorkJobs \cup {AnyJob} : Wake(j)
    \/ \E j \in WorkJobs : ElapseJob(j)
    \/ \E d \in Domains : ElapsePause(d)
    \/ Stop \/ TakeBack

OwnerSpec == OwnerInit /\ [][OwnerNext]_ownerVars

(* The loop runs and takes what is ready, steps end, time passes, and the    *)
(* window sends the wakes it owes.                                           *)
OwnerFairness ==
    /\ WF_ownerVars(OwnerStep) /\ WF_ownerVars(Yield)
    /\ WF_ownerVars(Timer) /\ WF_ownerVars(Receive)
    /\ \A w \in Works : /\ WF_ownerVars(Complete(w)) /\ WF_ownerVars(Execute(w))
                        /\ WF_ownerVars(ElapseRow(w))
    /\ \A j \in WorkJobs \cup {AnyJob} : WF_ownerVars(Wake(j))
    /\ \A j \in WorkJobs : WF_ownerVars(ElapseJob(j))
    /\ \A d \in Domains : WF_ownerVars(ElapsePause(d))
OwnerFair == OwnerSpec /\ OwnerFairness

----------------------------------------------------------------------------
OwnerTypeOK ==
    /\ row \in [Works -> RowStates] /\ active \subseteq Works
    /\ outcome \in [Works -> {"none", "changed", "unchanged"}]
    /\ backoff \in [WorkJobs -> Delay]
    /\ at \in {"off", "top", "scan", "rest"} /\ pass \in Passes /\ offset \in 0 .. Queues
    /\ first \in Domains /\ after \in [Domains -> 0 .. 2 * Cardinality(Works)]
    /\ finished \in [Domains -> SUBSET Passes]
    /\ blocked \in [Domains -> BOOLEAN] /\ pause \in [Domains -> Delay]
    /\ {more, scanning, progressed, stopping} \subseteq BOOLEAN
    /\ waking \subseteq WorkJobs \cup {AnyJob} /\ Cardinality(waking) <= 1 /\ owed \subseteq WorkJobs \cup {AnyJob}
    /\ troubles \in 0 .. MaxTroubles

(* No account or calendar is used by two steps at once, of whatever queues,  *)
(* and only a repair may use the slot beyond the limit.                      *)
OneStepPerAccount ==
    /\ \A v, w \in active : v # w => Holds[v] \cap Holds[w] = {}
    /\ Running <= Capacity + 1

(* Again and again every admitted row has come to an end, whatever failed    *)
(* for a while, unless a queue could not be read or the window is closing.   *)
(* Another queue counts: the delay of a job in a queue that is set aside     *)
(* wakes nobody, and a row whose own wake was dropped may need that delay.   *)
Unfinished(w) ==
    /\ Runnable(w) \/ row[w] = "later"
    /\ at # "off" /\ (\A d \in Domains : ~blocked[d]) /\ ~stopping
WorkIsDone == []<>(\A w \in Works : ~Unfinished(w))
=============================================================================
