------------------------------- MODULE BulkWork -------------------------------
(***************************************************************************)
(* Actions on mail.  A decision of the user (move these messages, mark     *)
(* them as read) becomes a durable job with one item per message.  The     *)
(* newest decision owns the fields it is about; an item is claimed, asks   *)
(* what it may still change, asks the server once, and records the answer  *)
(* before the cache shows it.  Undo cancels what was not sent and reverses *)
(* what was.                                                               *)
(*                                                                         *)
(* Jobs are numbered in the order they were admitted, so the number of a   *)
(* job is also the sequence of its admissions.  Where a message is kept is *)
(* one of its fields; how the server is asked to move it is MoveJournal.   *)
(***************************************************************************)
EXTENDS Naturals, FiniteSets, Functions

CONSTANTS
    Messages,     \* the messages
    Account,      \* the account of each message
    Decisions,    \* what the user may decide: a value for some of the fields
    MaxJobs,      \* bound: jobs admitted
    MaxUndos,     \* bound: times the user asks for Undo
    MaxCrashes,   \* bound: stops of the process
    Foreign,      \* the flags another client may change, each once a message
    Vanishing     \* the messages another client may remove

Flags  == {"unread", "starred"}
Fields == Flags \cup {"location"}
Values == UNION {[F -> BOOLEAN] : F \in SUBSET Fields}

ASSUME BulkAssumption ==
    /\ DOMAIN Account = Messages
    /\ Decisions \subseteq Values
    /\ \A d \in Decisions : DOMAIN d = {"location"} \/ DOMAIN d \in (SUBSET Flags) \ {{}}
    /\ MaxJobs \in Nat /\ MaxUndos \in Nat /\ MaxCrashes \in Nat
    /\ Foreign \subseteq Flags /\ Vanishing \subseteq Messages

VARIABLES
    jobs,      \* each job's decision and whether its Undo was asked for
    count,     \* the jobs admitted
    items,     \* each job's item for each message
    owner,     \* the job that owns each field of a message, 0 for none
    effects,   \* the pending display values of each message
    cache,     \* the cached values of each message
    present,   \* the messages that are in the cache
    server,    \* the values at the mail server
    work,      \* the step under way for each message
    sent,      \* requests of each item since it was last decided about
    took,      \* the items whose request the server has carried out
    touched,   \* the fields another client has changed
    undos, crashes

durable == <<jobs, count, items, owner, effects>>
vars == <<durable, cache, present, server, work, sent, took, touched, undos, crashes>>

Jobs     == 1 .. MaxJobs
Pending  == {"queued", "running", "repair"}
Blocking == Pending \cup {"uncertain"}
Statuses == Blocking \cup {"none", "done", "failed", "cancelled"}
Nothing  == [f \in {} |-> TRUE]
Receipt  == [before : Values, after : Values]
Unchanged == [before |-> Nothing, after |-> Nothing]
Item     == [status : Statuses, undo : BOOLEAN, receipt : Receipt, ack : Receipt]
Results  == {"none", "ok", "unchanged", "superseded", "refused", "unknown"}
Step     == [job : Jobs \cup {0}, at : {"idle", "claimed", "sending", "answered", "result"},
             change : Receipt, result : Results]

NoItem == [status |-> "none", undo |-> FALSE, receipt |-> Unchanged, ack |-> Unchanged]
Idle   == [job |-> 0, at |-> "idle", change |-> Unchanged, result |-> "none"]

Init ==
    /\ jobs = [j \in Jobs |-> [decision |-> Nothing, undo |-> FALSE]]
    /\ count = 0
    /\ items = [j \in Jobs |-> [m \in Messages |-> NoItem]]
    /\ owner = [m \in Messages |-> [f \in Fields |-> 0]]
    /\ effects = [m \in Messages |-> Nothing]
    /\ cache = [m \in Messages |-> [f \in Fields |-> f = "unread"]]
    /\ server = cache
    /\ present = Messages
    /\ work = [m \in Messages |-> Idle]
    /\ sent = [j \in Jobs |-> [m \in Messages |-> 0]] /\ took = {}
    /\ touched = [m \in Messages |-> {}]
    /\ undos = 0 /\ crashes = 0

----------------------------------------------------------------------------
(* Ownership of fields and what the window shows. *)

Owns(j, m, f) == owner[m][f] = j
Owned(j, m)   == {f \in Fields : Owns(j, m, f)}

(* refresh_scope(): a field shows the pending value of its owner. *)
Shows(m, f) ==
    LET j == owner[m][f] IN
    /\ j # 0 /\ items[j][m].status \in Pending
    /\ IF items[j][m].undo THEN f \in DOMAIN items[j][m].receipt.before
                           ELSE ~jobs[j].undo
Projection(m) ==
    [f \in {g \in Fields : Shows(m, g)} |->
        LET j == owner[m][f] IN
        IF items[j][m].undo THEN items[j][m].receipt.before[f] ELSE jobs[j].decision[f]]
Refresh(M) ==
    effects' = [m \in Messages |-> IF m \in M THEN Projection(m)' ELSE effects[m]]

Members(j) == {m \in Messages : items[j][m].status # "none"}

(* The step of another item of the account, or the lease of a job elsewhere. *)
Occupied(m) == \E n \in Messages : Account[n] = Account[m] /\ work[n] # Idle
Leased(j)   == \E n \in Messages : work[n].job = j
Orphan_Acked(j, m) ==                                             \* mutant
    items[j][m].status \in {"running", "repair"} /\ work[m].job # j
(* A step that no executor has: running, and not acknowledged. *)
Orphan(j, m) == items[j][m].status = "running" /\ work[m].job # j

Become(j, m, next) == items' = [items EXCEPT ![j][m] = next]
(* An item that is queued again asks the server anew. *)
Renew(j, M) ==
    /\ sent' = [sent EXCEPT ![j] = [m \in Messages |-> IF m \in M THEN 0 ELSE @[m]]]
    /\ took' = took \ ({j} \X M)
Mark(j, m, status) == Become(j, m, [items[j][m] EXCEPT !.status = status])

----------------------------------------------------------------------------
(* The user. *)

(* intents::admit(): a queued item that owns no field any more is cancelled. *)
Admitted(j, S, d) ==
    [k \in Jobs |-> [m \in Messages |->
        IF m \notin S THEN items[k][m]
        ELSE IF k = j THEN [NoItem EXCEPT !.status = "queued"]
        ELSE IF items[k][m].status = "queued" /\ Owned(k, m) \subseteq DOMAIN d
             THEN [items[k][m] EXCEPT !.status = "cancelled"]
        ELSE items[k][m]]]

(* start_bulk() and admit_mail_action(). *)
Admit(S, d) ==
    LET j == count + 1 IN
    /\ count < MaxJobs /\ S # {} /\ S \subseteq present
    /\ count' = j
    /\ jobs' = [jobs EXCEPT ![j].decision = d]
    /\ items' = Admitted(j, S, d)
    /\ owner' = [m \in Messages |-> [f \in Fields |->
                    IF m \in S /\ f \in DOMAIN d THEN j ELSE owner[m][f]]]
    /\ UNCHANGED <<cache, present, server, work, sent, took, touched, undos, crashes>>
    /\ Refresh(S)

(* Undo reverses what was done, and a failed Undo may be tried again. *)
Reversible(i) == i.status = IF i.undo THEN "failed" ELSE "done"
Unsent(j, m, i) == i.status = "queued" /\ (i.undo => Owned(j, m) = {})
(* What request_bulk_undo() makes of an item. *)
Undone(j, m) ==
    LET i    == items[j][m]
        next == IF Reversible(i) THEN [i EXCEPT !.undo = TRUE, !.status = "queued"] ELSE i
    IN  IF Unsent(j, m, next) THEN [next EXCEPT !.status = "cancelled"] ELSE next

RequestUndo(j) ==
    /\ j <= count /\ undos < MaxUndos
    /\ jobs' = [jobs EXCEPT ![j].undo = TRUE]
    /\ items' = [items EXCEPT ![j] = [m \in Messages |-> Undone(j, m)]]
    /\ Renew(j, {m \in Messages : items'[j][m].status = "queued" /\ items[j][m].status # "queued"})
    /\ undos' = undos + 1
    /\ UNCHANGED <<count, owner, cache, present, server, work, touched, crashes>>
    /\ Refresh(Members(j))

(* BulkResolve: the user accepts what an unknown answer left. *)
AcceptUncertainty(j) ==
    /\ ~Leased(j)
    /\ \E m \in Messages : items[j][m].status = "uncertain"
    /\ items' = [items EXCEPT ![j] = [m \in Messages |->
                   IF @[m].status = "uncertain" THEN [@[m] EXCEPT !.status = "cancelled"]
                   ELSE @[m]]]
    /\ UNCHANGED <<jobs, count, owner, cache, present, server, work, sent, took, touched,
                   undos, crashes>>
    /\ Refresh(Members(j))

----------------------------------------------------------------------------
(* The owner of the work. *)

Ready_Itself(j, m) ==                                             \* mutant
    /\ items[j][m].status = "queued"
    /\ \A k \in 1 .. j : items[k][m].status \notin Blocking
    /\ ~Occupied(m)
    /\ \A n \in Messages : Account[n] = Account[m] =>
           items[j][n].status \notin {"running", "repair"}
(* scan_action_work() and claim_bulk_item_inner(): earlier work of the       *)
(* message first, nothing else of its account, and no other item of the job  *)
(* there that waits for its answer.                                          *)
Ready(j, m) ==
    /\ items[j][m].status = "queued"
    /\ \A k \in 1 .. j - 1 : items[k][m].status \notin Blocking
    /\ ~Occupied(m)
    /\ \A n \in Messages : Account[n] = Account[m] =>
           items[j][n].status \notin {"running", "repair"}
(* A new lease resumes the job first. *)
MayLease(j) == Leased(j) \/ \A m \in Messages : ~Orphan(j, m)
(* intents::prepare(): flags are about the row the message has now. *)
Prepared(j, m) ==
    \/ m \in present
    \/ items[j][m].undo /\ DOMAIN items[j][m].receipt.before \cap Flags = {}

Claim(j, m) ==
    /\ Ready(j, m) /\ MayLease(j)
    /\ IF Prepared(j, m)
       THEN /\ Mark(j, m, "running")
            /\ work' = [work EXCEPT ![m] = [Idle EXCEPT !.job = j, !.at = "claimed"]]
       ELSE Mark(j, m, "failed") /\ UNCHANGED work
    /\ UNCHANGED <<jobs, count, owner, cache, present, server, sent, took, touched,
                   undos, crashes>>
    /\ IF Prepared(j, m) THEN UNCHANGED effects ELSE Refresh({m})

Target_All(j, m) ==                                               \* mutant
    IF items[j][m].undo THEN items[j][m].receipt.before ELSE jobs[j].decision
(* What an item asks for, of the fields its decision still owns. *)
Target(j, m) ==
    LET i    == items[j][m]
        want == IF i.undo THEN i.receipt.before ELSE jobs[j].decision IN
    [f \in DOMAIN want \cap Owned(j, m) |-> want[f]]
Newer(j, m) ==
    /\ items[j][m].undo
    /\ \E f \in DOMAIN Target(j, m) : cache[m][f] # items[j][m].receipt.after[f]

Differs(m, want) == {f \in DOMAIN want : cache[m][f] # want[f]}
Change(m, want) ==
    [before |-> [f \in Differs(m, want) |-> cache[m][f]],
     after  |-> [f \in Differs(m, want) |-> want[f]]]

Elsewhere(j, m) == jobs[j].decision # [f \in {"location"} |-> cache[m]["location"]]

(* perform_bulk_job() and perform_bulk_item() up to the request. *)
Outcome(j, m) ==
    LET i == items[j][m] IN
    IF ~i.undo /\ m \notin present THEN "refused"
    ELSE IF i.undo /\ i.receipt = Unchanged THEN "unchanged"
    ELSE IF ~i.undo /\ ~Elsewhere(j, m) THEN "unchanged"
    ELSE IF m \notin present THEN "unknown"
    ELSE IF DOMAIN Target(j, m) = {} THEN "superseded"
    ELSE IF Newer(j, m) THEN "unknown"
    ELSE IF Differs(m, Target(j, m)) = {} THEN "unchanged"
    ELSE "none"

Authorize(m) ==
    LET j == work[m].job IN
    /\ work[m].at = "claimed"
    /\ work' = [work EXCEPT ![m] =
         IF Outcome(j, m) = "none"
         THEN [@ EXCEPT !.at = "sending", !.change = Change(m, Target(j, m))]
         ELSE [@ EXCEPT !.at = "result", !.result = Outcome(j, m)]]
    /\ sent' = IF Outcome(j, m) = "none"
               THEN [sent EXCEPT ![j][m] = IF @ < 2 THEN @ + 1 ELSE @] ELSE sent
    /\ UNCHANGED <<durable, cache, present, server, took, touched, undos, crashes>>

Applied_Only(values, change) == change.after                      \* mutant
Applied(values, change) ==
    [f \in Fields |-> IF f \in DOMAIN change.after THEN change.after[f] ELSE values[f]]

(* The server carries the request out and answers, refuses it, or its answer *)
(* is lost.  A move has changed the cache by the time it is answered.        *)
Serve(m) ==
    LET change == work[m].change
        moves  == "location" \in DOMAIN change.after
        Answer(result) == work' = [work EXCEPT ![m].at = "result", ![m].result = result]
        Apply  == /\ server' = [server EXCEPT ![m] = Applied(@, change)]
                  /\ took' = took \cup {<<work[m].job, m>>} IN
    /\ work[m].at = "sending"
    /\ \/ /\ moves /\ Apply /\ Answer("ok")
          /\ cache' = [cache EXCEPT ![m] = Applied(@, change)]
       \/ /\ ~moves /\ Apply /\ UNCHANGED cache
          /\ work' = [work EXCEPT ![m].at = "answered"]
       \/ ~moves /\ Answer("refused") /\ UNCHANGED <<server, took, cache>>
       \/ Answer("unknown") /\ UNCHANGED cache /\ (Apply \/ UNCHANGED <<server, took>>)
    /\ UNCHANGED <<durable, present, sent, touched, undos, crashes>>

(* acknowledge_bulk_flags(), which may fail. *)
Acknowledge(m) ==
    LET j == work[m].job IN
    /\ work[m].at = "answered"
    /\ Become(j, m, [items[j][m] EXCEPT !.status = "repair", !.ack = work[m].change])
    /\ work' = [work EXCEPT ![m].at = "result", ![m].result = "ok"]
    /\ UNCHANGED <<jobs, count, owner, effects, cache, present, server, sent, took, touched,
                   undos, crashes>>
AcknowledgeFails(m) ==
    /\ work[m].at = "answered"
    /\ work' = [work EXCEPT ![m].at = "result", ![m].result = "unknown"]
    /\ UNCHANGED <<durable, cache, present, server, sent, took, touched, undos, crashes>>

----------------------------------------------------------------------------
(* finish_bulk_item(). *)

Done(j, m, receipt) ==
    LET i == items[j][m] IN
    [i EXCEPT !.ack = Unchanged,
              !.receipt = IF i.undo THEN @ ELSE receipt,
              !.undo = i.undo \/ jobs[j].undo,
              !.status = IF ~i.undo /\ jobs[j].undo THEN "queued" ELSE "done"]
Failed_Known(j, m, unknown) ==                                    \* mutant
    [items[j][m] EXCEPT !.status = IF ~items[j][m].undo /\ jobs[j].undo THEN "cancelled"
                                   ELSE "failed"]
Failed(j, m, unknown) ==
    LET i == items[j][m] IN
    [i EXCEPT !.status = IF unknown THEN "uncertain"
                         ELSE IF ~i.undo /\ jobs[j].undo THEN "cancelled"
                         ELSE "failed"]

(* A receipt that waits is what the item is finished with, whatever happened *)
(* since; the row it is about must be there.                                 *)
FinishAcknowledged(j, m) ==
    /\ m \in present
    /\ Become(j, m, Done(j, m, items[j][m].ack))
    /\ cache' = [cache EXCEPT ![m] = Applied(@, items[j][m].ack)]
FinishResult(j, m, result, change) ==
    /\ UNCHANGED cache
    /\ CASE result = "ok"         -> Become(j, m, Done(j, m, change))
         [] result = "unchanged"  -> Become(j, m, Done(j, m, Unchanged))
         [] result = "superseded" -> Mark(j, m, "cancelled")
         [] result = "refused"    -> Become(j, m, Failed(j, m, FALSE))
         [] result = "unknown"    -> Become(j, m, Failed(j, m, TRUE))
Acked(j, m) == items[j][m].ack # Unchanged
(* The finished step may leave its Undo to be done. *)
Requeued(j, m) == Renew(j, {n \in {m} : items'[j][n].status = "queued"})

Finish(m) ==
    LET j == work[m].job IN
    /\ work[m].at = "result"
    /\ IF Acked(j, m) THEN FinishAcknowledged(j, m)
       ELSE FinishResult(j, m, work[m].result, work[m].change)
    /\ Requeued(j, m)
    /\ work' = [work EXCEPT ![m] = Idle]
    /\ UNCHANGED <<jobs, count, owner, present, server, touched, undos, crashes>>
    /\ Refresh({m})

(* The database cannot take the result, or the acknowledged row is gone. *)
FinishFails(m) ==
    /\ work[m].at = "result"
    /\ work' = [work EXCEPT ![m] = Idle]
    /\ UNCHANGED <<durable, cache, present, server, sent, took, touched, undos, crashes>>

(* An acknowledged item found later is finished without the provider. *)
Repair(j, m) ==
    /\ items[j][m].status = "repair" /\ ~Occupied(m) /\ MayLease(j)
    /\ FinishAcknowledged(j, m)
    /\ Requeued(j, m)
    /\ UNCHANGED <<jobs, count, owner, present, server, work, touched, undos, crashes>>
    /\ Refresh({m})

(* resume_bulk(): a running step without an executor has an unknown answer. *)
Interrupted(j, m) ==
    IF Orphan(j, m) THEN [items[j][m] EXCEPT !.status = "uncertain"] ELSE items[j][m]
Resume(j) ==
    /\ ~Leased(j)
    /\ \E m \in Messages : Orphan(j, m) /\ ~Occupied(m)
    /\ items' = [items EXCEPT ![j] = [m \in Messages |-> Interrupted(j, m)]]
    /\ UNCHANGED <<jobs, count, owner, cache, present, server, work, sent, took, touched,
                   undos, crashes>>
    /\ Refresh(Members(j))

----------------------------------------------------------------------------
(* The environment. *)

Crash ==
    /\ crashes < MaxCrashes
    /\ crashes' = crashes + 1
    /\ work' = [m \in Messages |-> Idle]
    /\ UNCHANGED <<durable, cache, present, server, sent, took, touched, undos>>

ForeignChange(m, f) ==
    /\ f \in Foreign \ touched[m]
    /\ server' = [server EXCEPT ![m][f] = ~@]
    /\ touched' = [touched EXCEPT ![m] = @ \cup {f}]
    /\ UNCHANGED <<durable, cache, present, work, sent, took, undos, crashes>>

(* A folder check shows the server's flags, or that the message is gone. *)
Check(m) ==
    /\ m \in present
    /\ cache' = [cache EXCEPT ![m] = [f \in Fields |->
                   IF f \in Flags THEN server[m][f] ELSE cache[m][f]]]
    /\ cache' # cache
    /\ UNCHANGED <<durable, present, server, work, sent, took, touched, undos, crashes>>
Vanish(m) ==
    /\ m \in Vanishing \cap present
    /\ present' = present \ {m}
    /\ UNCHANGED <<durable, cache, server, work, sent, took, touched, undos, crashes>>

Next ==
    \/ \E S \in SUBSET Messages, d \in Decisions : Admit(S, d)
    \/ \E j \in Jobs : RequestUndo(j) \/ AcceptUncertainty(j) \/ Resume(j)
    \/ \E j \in Jobs, m \in Messages : Claim(j, m) \/ Repair(j, m)
    \/ \E m \in Messages :
          \/ Authorize(m) \/ Serve(m) \/ Acknowledge(m) \/ AcknowledgeFails(m)
          \/ Finish(m) \/ FinishFails(m) \/ Check(m) \/ Vanish(m)
    \/ \E m \in Messages, f \in Flags : ForeignChange(m, f)
    \/ Crash

Spec == Init /\ [][Next]_vars

(* The action owner keeps looking at waiting work (ActionOwner), requests    *)
(* and database work end.                                                    *)
Fairness ==
    /\ \A j \in Jobs : WF_vars(Resume(j))
    /\ \A j \in Jobs, m \in Messages : WF_vars(Claim(j, m)) /\ WF_vars(Repair(j, m))
    /\ \A m \in Messages :
          /\ WF_vars(Authorize(m)) /\ WF_vars(Serve(m))
          /\ WF_vars(Acknowledge(m) \/ AcknowledgeFails(m))
          /\ WF_vars(Finish(m) \/ FinishFails(m))
FairSpec == Spec /\ Fairness

----------------------------------------------------------------------------
TypeOK ==
    /\ jobs \in [Jobs -> [decision : Values, undo : BOOLEAN]]
    /\ count \in 0 .. MaxJobs
    /\ items \in [Jobs -> [Messages -> Item]]
    /\ owner \in [Messages -> [Fields -> Jobs \cup {0}]]
    /\ effects \in [Messages -> Values]
    /\ cache \in [Messages -> [Fields -> BOOLEAN]]
    /\ server \in [Messages -> [Fields -> BOOLEAN]]
    /\ present \subseteq Messages
    /\ work \in [Messages -> Step]
    /\ sent \in [Jobs -> [Messages -> 0 .. 2]] /\ took \subseteq Jobs \X Messages
    /\ touched \in [Messages -> SUBSET Flags]
    /\ undos \in 0 .. MaxUndos /\ crashes \in 0 .. MaxCrashes

(* What the history says of an item is so: one that failed or waits has      *)
(* changed nothing at the server, one with a receipt has.  Between two       *)
(* decisions of the user about an item the server is asked for it at most    *)
(* once, whatever stopped meanwhile (engine/bulk.rs, store/bulk.rs: "A lost  *)
(* process can never silently replay this non-idempotent step").             *)
HistoryIsTrue ==
    \A j \in Jobs, m \in Messages :
        LET i == items[j][m] IN
        /\ sent[j][m] <= 1
        /\ i.status \in {"queued", "failed"} => <<j, m>> \notin took
        /\ \/ i.status = "repair"
           \/ i.status = "done" /\ ~i.undo /\ i.receipt # Unchanged
           => <<j, m>> \in took

Settled(m) == \A k \in Jobs : <<k, m>> \in took => items[k][m].status = "done"
Decided(j, m, f) ==
    LET i == items[j][m] IN
    IF i.undo /\ f \in DOMAIN i.receipt.before THEN i.receipt.before[f]
    ELSE jobs[j].decision[f]
Shown(m, f) == IF f \in DOMAIN effects[m] THEN effects[m][f] ELSE cache[m][f]
Lasts(m, f) ==
    LET j == owner[m][f] IN
    /\ j # 0 /\ f \notin touched[m] /\ Settled(m)
    /\ items[j][m].status = "done"
    => server[m][f] = Decided(j, m, f)
IsShown(m, f) ==
    LET j == owner[m][f] IN
    IF j # 0 /\ items[j][m].status \in Pending /\ ~items[j][m].undo /\ ~jobs[j].undo
    THEN Shown(m, f) = jobs[j].decision[f]
    ELSE (j # 0 => items[j][m].status \notin Pending) => Shown(m, f) = cache[m][f]

(* The window shows a decision from its admission until it is settled, and   *)
(* nothing but the cache when no decision about the field is pending.  And   *)
(* what is done stays the newest decision: when its owner is done and every  *)
(* request that was carried out is, the server has the decided value, or     *)
(* after Undo the one from before, unless another client changed it.         *)
NewestDecisionStands ==
    \A m \in Messages, f \in Fields :
        IsShown(m, f) /\ (m \in present => Lasts(m, f))

(* An acknowledged flag change reaches the cache before its item is done,    *)
(* and is never given up.                                                    *)
AcknowledgedReachesCache ==
    [][\A j \in Jobs, m \in Messages :
          items[j][m].status = "repair" /\ items'[j][m].status # "repair"
          => /\ items'[j][m].status \in {"done", "queued"}
             /\ \A f \in DOMAIN items[j][m].ack.after :
                   cache'[m][f] = items[j][m].ack.after[f]]_vars

(* Again and again every admitted item has come to an end, or waits for the  *)
(* user to look at an earlier unknown answer; only an acknowledged one whose *)
(* row is gone stays.                                                        *)
Stays(j, m) ==
    \/ items[j][m].status \notin Pending \/ m \notin present
    \/ \E k \in 1 .. j - 1 : items[k][m].status = "uncertain"
WorkEnds == []<>(\A j \in Jobs, m \in Messages : Stays(j, m))

----------------------------------------------------------------------------
(* The inductive invariant behind the theorems of BulkWorkProofs. *)

(* What the status of an item says of its requests. *)
ItemIsTrue(j, m) ==
    LET i == items[j][m] IN
    /\ j > count => i.status = "none"
    /\ sent[j][m] <= 1
    /\ i.status \in {"none", "queued"} => sent[j][m] = 0
    /\ i.status \in {"none", "queued", "failed"} => <<j, m>> \notin took
    /\ i.status = "repair" => <<j, m>> \in took
    /\ i.status = "repair" <=> i.ack # Unchanged
    /\ i.status = "done" /\ ~i.undo /\ i.receipt # Unchanged => <<j, m>> \in took

(* What the place of an executor says of its item. *)
StepIsTrue(j, m) ==
    work[m].job = j =>
        /\ work[m].at # "idle"
        /\ items[j][m].status \in {"running", "repair"}
        /\ items[j][m].status = "repair" => work[m].at = "result" /\ work[m].result = "ok"
        /\ work[m].at = "claimed" => sent[j][m] = 0
        /\ work[m].at \in {"sending", "answered"} => work[m].change # Unchanged
        /\ work[m].at \in {"claimed", "sending"} => <<j, m>> \notin took
        /\ work[m].at = "answered" => <<j, m>> \in took
        /\ work[m].at = "result" =>
              /\ work[m].result # "none"
              /\ work[m].result = "ok" => <<j, m>> \in took
              /\ work[m].result \in {"unchanged", "superseded", "refused"} => <<j, m>> \notin took

(* An owner was asked for the field; what is shown is the projection. *)
OwnersDecide ==
    \A m \in Messages, f \in Fields :
        LET j == owner[m][f] IN
        j # 0 => /\ j <= count /\ f \in DOMAIN jobs[j].decision
                 /\ items[j][m].status # "none"
ProjectionIsShown == \A m \in Messages : effects[m] = Projection(m)

HistoryInv ==
    /\ TypeOK
    /\ \A j \in Jobs, m \in Messages : ItemIsTrue(j, m) /\ StepIsTrue(j, m)
    /\ \A m \in Messages : work[m].job = 0 => work[m].at = "idle"
    /\ OwnersDecide
    /\ ProjectionIsShown

(* What an item wants, and the change it has asked the server for. *)
Wanted(j, m) == IF items[j][m].undo THEN items[j][m].receipt.before ELSE jobs[j].decision
AtServer(j, m) ==
    work[m].job = j /\ \/ work[m].at \in {"sending", "answered"}
                       \/ work[m].at = "result" /\ work[m].result = "ok"
Given(j, m) ==
    IF items[j][m].status = "repair" THEN items[j][m].ack
    ELSE IF AtServer(j, m) THEN work[m].change ELSE Unchanged
Asks(j, m, f) == f \in DOMAIN Given(j, m).after
(* The server has it, and the cache does not yet. *)
Lags(j, m, f) ==
    /\ Asks(j, m, f)
    /\ items[j][m].status = "repair" \/ work[m].at = "answered"

(* Only its newest owner asks for a field, or one before it while that owner *)
(* waits, and a change says of each of its fields what it was.               *)
Waits(j, m) == items[j][m].status \in {"queued", "cancelled"} /\ ~items[j][m].undo
AskedByOwner(m) ==
    \A j \in Jobs, f \in Fields : Asks(j, m, f) =>
        /\ f \in DOMAIN Wanted(j, m) /\ Given(j, m).after[f] = Wanted(j, m)[f]
        /\ owner[m][f] >= j /\ (owner[m][f] > j => Waits(owner[m][f], m))
        /\ \A k \in Jobs : Asks(k, m, f) => k = j

(* A request of the message was carried out, and its item will not say so. *)
Unreported(k, m) ==
    /\ <<k, m>> \in took
    /\ \/ items[k][m].status \in {"uncertain", "cancelled"}
       \/ items[k][m].status = "running" /\ ~AtServer(k, m)
Lost(m) == \E k \in Jobs : Unreported(k, m)

(* The cache is the server but for a change that waits for it. *)
CacheAgrees(m, f) ==
    \/ server[m][f] = cache[m][f] /\ \A k \in Jobs : ~Lags(k, m, f)
    \/ \E k \in Jobs : Lags(k, m, f) /\ server[m][f] = Given(k, m).after[f]

(* Asked the server, or found that there is nothing to ask for. *)
Authorised(j, m) ==
    \/ items[j][m].status = "repair" \/ AtServer(j, m)
    \/ work[m].job = j /\ work[m].at = "result" /\ work[m].result = "unchanged"
(* The server has what the owner of a field decided, as far as it got. *)
OwnerHas(j, m, f) ==
    LET i == items[j][m] IN
    /\ i.undo /\ f \notin DOMAIN i.receipt.before => server[m][f] = jobs[j].decision[f]
    /\ i.status = "done" => server[m][f] = Decided(j, m, f)
    /\ /\ Authorised(j, m) /\ f \in DOMAIN Wanted(j, m)
       /\ ~Asks(j, m, f) \/ work[m].at = "result" \/ i.status = "repair"
       => server[m][f] = Wanted(j, m)[f]
OwnerPrevails(m, f) == owner[m][f] # 0 => OwnerHas(owner[m][f], m, f)

Agreed(m) ==
    /\ AskedByOwner(m)
    /\ ~Lost(m) => \A f \in Fields \ touched[m] : CacheAgrees(m, f) /\ OwnerPrevails(m, f)
DecisionInv == \A m \in Messages : Agreed(m)

=============================================================================
