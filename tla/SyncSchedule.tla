---------------------------- MODULE SyncSchedule ----------------------------
(***************************************************************************)
(* When accounts are checked for mail: the loop drive() of                 *)
(* engine/mail_sync.rs, which waits for a server push, a finished check, a *)
(* click on Refresh or the interval, and then makes one pass: it takes the *)
(* waiting clicks, lists the accounts and starts the checks that are due.  *)
(* Checks run beside the loop, one for each account.                       *)
(*                                                                         *)
(* Time is an alarm: elapsed[t] says that the interval has passed since    *)
(* the last check of t began.  A pass is one action, since nothing that    *)
(* happens between its parts is looked at before the next one.             *)
(***************************************************************************)
EXTENDS Naturals, FiniteSets

CONSTANTS
    Accounts,       \* mail accounts there can be
    Backgrounds,    \* whether accounts are checked unasked: not in a preview
    MaxClicks,      \* bound: clicks on Refresh
    MaxChanges      \* bound: accounts added or removed

ASSUME ScheduleAssumption ==
    /\ IsFiniteSet(Accounts) /\ Backgrounds \subseteq BOOLEAN
    /\ MaxClicks \in Nat /\ MaxChanges \in Nat

VARIABLES
    background, \* accounts are checked unasked
    ready,      \* accounts that list() answers
    clicks,     \* Command::Sync in the channel
    pushes,     \* accounts with a notice of their watcher in the channel
    closed,     \* the channel of requests was closed
    pass,       \* the loop makes a pass before it waits again
    slots,      \* accounts with a slot in the schedule
    slot,       \* their slots
    elapsed,    \* the interval has passed since the slot's check began
    requests,   \* clicks received
    jobs,       \* checks under way, by account and origin
    busy,       \* manual_busy, and what the window shows of it
    owed,       \* history: what a received click is owed by each account
    news,       \* history: accounts changed since their last check began
    changes     \* counts against MaxChanges

world    == <<background, ready, clicks, pushes, closed>>
schedule == <<slots, slot, elapsed, requests>>
history  == <<owed, news, changes>>
vars     == <<world, pass, schedule, jobs, busy, history>>

Origins == {"Refresh", "Background"}
Slot    == [running : BOOLEAN, served : Nat, pushed : BOOLEAN]
NewSlot == [running |-> FALSE, served |-> 0, pushed |-> FALSE]

-----------------------------------------------------------------------------
(* The schedule. *)

Known(t) == IF t \in slots THEN slot[t] ELSE NewSlot
Retained_Listed == ready                                        \* mutant
Retained_All == ready \cup slots                                \* mutant
(* A running check keeps its slot when its account is not listed. *)
Retained == ready \cup {t \in slots : slot[t].running}
Manual(t, received) == Known(t).served < received
Elapsed(t) == t \in slots => elapsed[t]
(* start(): of the listed accounts, those to check now. *)
Due(received) ==
    {t \in ready : /\ ~ Known(t).running
                   /\ \/ Manual(t, received)
                      \/ background /\ Elapsed(t)
                      \/ Known(t).pushed}
Started_Before(received) ==                                     \* mutant
    [running |-> TRUE, served |-> received - 1, pushed |-> FALSE]
Started(received) == [running |-> TRUE, served |-> received, pushed |-> FALSE]
Skipped_Served(t, received) == [Known(t) EXCEPT !.served = received] \* mutant
(* A running check does not answer the clicks that come after it began. *)
Skipped(t, received) == Known(t)
Woken_Idle(t) == [slot[t] EXCEPT !.pushed = ~ slot[t].running]  \* mutant
(* wake(): a running check gets a follow-up. *)
Woken(t) == [slot[t] EXCEPT !.pushed = TRUE]
Finished_Refresh(t, origin) ==                                  \* mutant
    [slot[t] EXCEPT !.running = origin = "Background"]
Finished(t, origin) == [slot[t] EXCEPT !.running = FALSE]

Running(origin, of) == {t \in Accounts : of[t][origin] > 0}
(* served(), once a pass has cleared `pending`. *)
Served(here, of, received) == \A t \in here : of[t].served = received

-----------------------------------------------------------------------------
(* One pass. *)

(* What a click asks for is due until a check that began later has ended. *)
Owes(t, started) ==
    IF t \in started /\ (clicks > 0 \/ owed[t] = "check") THEN "checking"
    ELSE IF clicks > 0 THEN "check" ELSE owed[t]

(* The accounts are listed and what is due is started. *)
Start ==
    LET received == requests'
        started  == Due(received)
        Origin(t) == IF Manual(t, received) THEN "Refresh" ELSE "Background"
    IN  /\ slots' = Retained
        /\ slot' = [t \in Accounts |->
               IF t \in started THEN Started(received)
               ELSE IF t \in slots' THEN Skipped(t, received) ELSE NewSlot]
        /\ elapsed' = [t \in Accounts |->
               t \in (slots \cap slots') \ started /\ elapsed[t]]
        /\ jobs' = [t \in Accounts |-> [o \in Origins |->
               jobs[t][o] + IF t \in started /\ o = Origin(t) THEN 1 ELSE 0]]
        /\ owed' = [t \in Accounts |-> Owes(t, started)]
        /\ news' = news \ started
(* settle(): the listing failed, and what does not run counts as served. *)
Settle ==
    LET idle == {t \in slots : ~ slot[t].running}
    IN  /\ slot' = [t \in Accounts |->
               IF t \in idle THEN [slot[t] EXCEPT !.served = requests']
               ELSE slot[t]]
        /\ owed' = [t \in Accounts |->
               IF t \in idle THEN "nothing" ELSE Owes(t, {})]
        /\ UNCHANGED <<slots, elapsed, jobs, news>>
(* Unasked in a preview, nothing is listed. *)
Rest == UNCHANGED <<slots, slot, elapsed, jobs, owed, news>>

(* The window is told when the last manual check has ended. *)
Tell ==
    busy' = /\ busy \/ clicks > 0
            /\ ~ /\ Running("Refresh", jobs') = {}
                 /\ Served(slots', slot', requests')

Pass(Listing) ==
    /\ pass /\ ~ closed
    /\ pass' = FALSE /\ clicks' = 0
    /\ requests' = requests + clicks
    /\ Listing
    /\ Tell
    /\ UNCHANGED <<background, ready, pushes, closed, changes>>
Asked       == background \/ clicks > 0
PassStarts  == Asked /\ Pass(Start)
PassFails   == Asked /\ Pass(Settle)
PassRests   == ~ Asked /\ Pass(Rest)

-----------------------------------------------------------------------------
(* What the loop waits for. *)

Waits == ~ pass /\ ~ closed
TakePush(t) ==
    /\ Waits /\ t \in pushes
    /\ pushes' = pushes \ {t}
    /\ IF t \in slots THEN slot' = [slot EXCEPT ![t] = Woken(t)] /\ pass' = TRUE
                      ELSE UNCHANGED <<slot, pass>>
    /\ UNCHANGED <<background, ready, clicks, closed, slots, elapsed, requests,
                   jobs, busy, history>>
(* A check ends in any way, by its timeout of 600 seconds if in no other. *)
Finish(t, origin) ==
    /\ ~ pass \/ closed
    /\ jobs[t][origin] > 0
    /\ jobs' = [jobs EXCEPT ![t][origin] = @ - 1]
    /\ slot' = IF t \in slots THEN [slot EXCEPT ![t] = Finished(t, origin)]
               ELSE slot
    /\ owed' = [owed EXCEPT ![t] = IF @ = "checking" THEN "nothing" ELSE @]
    /\ pass' = TRUE
    /\ UNCHANGED <<world, slots, elapsed, requests, busy, news, changes>>
(* The click itself is counted with the others by the pass that follows. *)
TakeClick ==
    /\ Waits /\ clicks > 0
    /\ busy' = TRUE /\ pass' = TRUE
    /\ UNCHANGED <<world, schedule, jobs, history>>
(* sleep_until(next_due()). *)
Timer ==
    /\ Waits /\ background
    /\ LET idle == {t \in slots : ~ slot[t].running}
       IN  idle = {} \/ \E t \in idle : elapsed[t]
    /\ pass' = TRUE
    /\ UNCHANGED <<world, schedule, jobs, busy, history>>
Close ==
    /\ Waits /\ clicks = 0
    /\ closed' = TRUE
    /\ UNCHANGED <<background, ready, clicks, pushes, pass, schedule, jobs, busy,
                   history>>

-----------------------------------------------------------------------------
(* The rest of the program. *)

(* Once it is closed the loop looks at nothing but ended checks.  An interval *)
(* that passes during a check is noticed when the check has ended.           *)
Elapse(t) ==
    /\ ~ closed /\ t \in slots /\ ~ slot[t].running /\ ~ elapsed[t]
    /\ elapsed' = [elapsed EXCEPT ![t] = TRUE]
    /\ UNCHANGED <<world, pass, slots, slot, requests, jobs, busy, history>>
Click ==
    /\ ~ closed /\ requests + clicks < MaxClicks
    /\ clicks' = clicks + 1
    /\ UNCHANGED <<background, ready, pushes, closed, pass, schedule, jobs, busy,
                   history>>
(* The server tells the watcher of an account of a change. *)
Push(t) ==
    /\ background /\ ~ closed /\ t \in slots
    /\ pushes' = pushes \cup {t}
    /\ news' = news \cup {t}
    /\ UNCHANGED <<background, ready, clicks, closed, pass, schedule, jobs, busy,
                   owed, changes>>
(* A preview has its one account and no other. *)
Change(t) ==
    /\ background /\ ~ closed /\ changes < MaxChanges
    /\ changes' = changes + 1
    /\ ready' = IF t \in ready THEN ready \ {t} ELSE ready \cup {t}
    /\ UNCHANGED <<background, clicks, pushes, closed, pass, schedule, jobs, busy,
                   owed, news>>

Init ==
    /\ background \in Backgrounds
    /\ ready \in SUBSET Accounts /\ (background \/ Cardinality(ready) = 1)
    /\ clicks = 0 /\ pushes = {} /\ closed = FALSE
    /\ pass = TRUE
    /\ slots = {} /\ slot = [t \in Accounts |-> NewSlot]
    /\ elapsed = [t \in Accounts |-> FALSE]
    /\ requests = 0
    /\ jobs = [t \in Accounts |-> [o \in Origins |-> 0]]
    /\ busy = FALSE
    /\ owed = [t \in Accounts |-> "nothing"] /\ news = {} /\ changes = 0

Loop == PassStarts \/ PassFails \/ PassRests
Wakes ==
    \/ \E t \in Accounts : TakePush(t)
    \/ \E t \in Accounts, o \in Origins : Finish(t, o)
    \/ TakeClick \/ Timer
Outside ==
    \/ Click \/ Close
    \/ \E t \in Accounts : Elapse(t) \/ Push(t) \/ Change(t)
Next == Loop \/ Wakes \/ Outside

(* The loop goes on, the clock too, and every check ends; select! is biased  *)
(* towards ended checks over clicks and the interval.  Listings do not fail  *)
(* for ever.                                                                 *)
Fairness ==
    /\ WF_vars(Loop) /\ SF_vars(PassStarts)
    /\ WF_vars(TakeClick) /\ WF_vars(Timer)
    /\ \A t \in Accounts : WF_vars(Elapse(t))
    /\ \A t \in Accounts, o \in Origins : SF_vars(Finish(t, o))

Spec     == Init /\ [][Next]_vars
FairSpec == Spec /\ Fairness

-----------------------------------------------------------------------------
(* Properties. *)

TypeOK ==
    /\ background \in BOOLEAN
    /\ ready \subseteq Accounts /\ pushes \subseteq Accounts
    /\ clicks \in Nat /\ requests \in Nat /\ changes \in Nat
    /\ closed \in BOOLEAN /\ pass \in BOOLEAN /\ busy \in BOOLEAN
    /\ slots \subseteq Accounts
    /\ slot \in [Accounts -> Slot]
    /\ elapsed \in [Accounts -> BOOLEAN]
    /\ jobs \in [Accounts -> [Origins -> Nat]]
    /\ owed \in [Accounts -> {"nothing", "check", "checking"}]
    /\ news \subseteq Accounts

(* No account is checked twice at the same time, not even one that is        *)
(* removed and added again while its check runs.                             *)
OneCheckAtATime ==
    \A t \in Accounts : jobs[t]["Refresh"] + jobs[t]["Background"] <= 1

(* "A running check gets a follow-up so a change during its scan is not      *)
(* lost": when a pass has listed the accounts, none of them rests with a     *)
(* change the loop has heard of.                                             *)
ChangesAreFollowed ==
    [][PassStarts => \A t \in ready \cap news' :
           t \in pushes \/ \E o \in Origins : jobs'[t][o] > 0]_vars

(* The window stops saying that it refreshes only when every account it      *)
(* knows has had a check that began after the last click, or could not be    *)
(* listed.                                                                   *)
RefreshMeansChecked ==
    [][busy /\ ~ busy' => \A t \in slots' : owed'[t] = "nothing"]_vars

(* A refresh ends, whatever accounts come and go or fail meanwhile.  In a     *)
(* preview it may not: a click during the only check is answered by nobody.  *)
RefreshEnds == background /\ busy ~> ~ busy \/ closed

(* An account that stays is checked again and again, unless in a preview. *)
KeepsChecking ==
    \A t \in Accounts :
        background /\ <>[](t \in ready /\ ~ closed)
            => []<>(\E o \in Origins : jobs[t][o] > 0)
=============================================================================
