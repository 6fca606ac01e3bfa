----------------------------- MODULE MoveJournal -----------------------------
(***************************************************************************)
(* Moving a message between folders and accounts.  The journal row of a    *)
(* message is written before the server is asked to move it, keeps the     *)
(* cached original until the destination's identity is known, and decides  *)
(* what a later command may do when an answer was lost.                    *)
(*                                                                         *)
(* One message: its copies on the servers have identities (UIDs) that are  *)
(* never used again.  A command works under the access of its accounts;    *)
(* the servers and the periodic check of a folder do not.                  *)
(***************************************************************************)
EXTENDS Naturals, FiniteSets

CONSTANTS
    Folders,      \* mail folders of all accounts
    Account,      \* the account of each folder
    Home,         \* where the message is at first
    Late,         \* the kinds of request that may be carried out after they timed out
    Partial,      \* whether a server may copy and then fail to remove (RFC 6851)
    MaxUid,       \* bound: identities the servers assign
    MaxMoves      \* bound: moves that are asked for

ASSUME MovesAssumption ==
    /\ Home \in Folders
    /\ DOMAIN Account = Folders
    /\ Late \subseteq {"move", "append", "expunge"} /\ Partial \in BOOLEAN
    /\ MaxUid \in Nat \ {0} /\ MaxMoves \in Nat

VARIABLES
    copies,     \* the message's copies on the servers
    nextUid,    \* the next identity a server assigns
    request,    \* the request the command waits for
    late,       \* requests given up that a server may still carry out
    rows,       \* the journal: one row for each identity moved
    cache,      \* the message's copies in the local database, uid 0 for local ones
    holder,     \* the command that has the accounts
    check,      \* the folder check under way
    removed,    \* accounts being taken away
    moves       \* moves asked for so far

server == <<copies, nextUid, request, late>>
local  == <<rows, cache, check>>
vars   == <<server, local, holder, removed, moves>>

Uids     == 1 .. MaxUid
MailAccounts == {Account[f] : f \in Folders}
Stages   == {"none", "Started", "Copied", "Committed", "Located", "Kept", "Local"}
Row      == [from : Folders, dest : Folders, stage : Stages, current : Uids \cup {0}]
Kinds    == {"move", "append", "expunge"}
Replies  == {"none", "ok", "refused", "lost"}
Request  == [kind : Kinds, uid : Uids, to : Folders, reply : Replies, new : Uids \cup {0}]
Given    == [kind : Kinds, uid : Uids, to : Folders]
Places   == {"idle", "preparing", "submitting", "moving", "recovering", "repreparing",
             "locating", "removing", "cleaning", "resolving", "releasing"}
Holder   == [at : Places, uid : Uids, rec : Row, found : Uids \cup {0}, to : Folders]
Check    == [at : {"idle", "listed"}, folder : Folders, live : SUBSET Uids,
             away : SUBSET Uids, in : SUBSET Uids]

NoRow     == [from |-> Home, dest |-> Home, stage |-> "none", current |-> 0]
NoRequest == [kind |-> "move", uid |-> 1, to |-> Home, reply |-> "none", new |-> 0]
Idle      == [at |-> "idle", uid |-> 1, rec |-> NoRow, found |-> 0, to |-> Home]
NoCheck   == [at |-> "idle", folder |-> Home, live |-> {}, away |-> {}, in |-> {}]

At(u, f)    == [uid |-> u, folder |-> f]
In(set, f)  == {m \in set : m.folder = f}
Has(set, u) == \E m \in set : m.uid = u

Init ==
    /\ copies = {At(1, Home)} /\ cache = {At(1, Home)}
    /\ nextUid = 2
    /\ request = NoRequest /\ late = {}
    /\ rows = [u \in Uids |-> NoRow]
    /\ holder = Idle /\ check = NoCheck
    /\ removed = {} /\ moves = 0

----------------------------------------------------------------------------
(* The journal. *)

Unsubmitted(r) == r.stage \in {"Started", "Local"}
Finished(r)    == r.stage \in {"none", "Located", "Kept"}
Transfer(r)    == Account[r.from] # Account[r.dest]
Ends(r)        == {Account[r.from], Account[r.dest]}

Allows(r, next) == r.stage \in {"Started", "Local", "Copied"} /\ next \in {"Copied", "Committed"}

(* `WHERE token=? AND data=?`: only the row the command knows is replaced. *)
Current == rows[holder.uid] = holder.rec

Goto(place) == holder' = [holder EXCEPT !.at = place]
Release     == holder' = Idle
GiveUp     == Release /\ UNCHANGED local
SaveAs(next, place) ==
    /\ rows' = [rows EXCEPT ![holder.uid] = next]
    /\ holder' = [holder EXCEPT !.at = place, !.rec = next]
Save(next) ==
    /\ rows' = [rows EXCEPT ![holder.uid] = next]
    /\ Release

Checkpoint(stage, uid) == [holder.rec EXCEPT !.stage = stage, !.current = uid]
MayCheckpoint(stage, uid) ==
    /\ Current
    /\ Allows(holder.rec, stage)
    /\ holder.rec.current \in {0, uid}

Relocated_Swapped(u, f, v, p) ==                                  \* mutant
    /\ At(u, f) \in cache
    /\ p \in Folders => Account[p] \notin removed
    /\ cache' = (cache \ {At(u, f)}) \cup {At(p, v)}
    /\ check' = [check EXCEPT !.away = @ \cup {u}, !.in = @ \cup ({v} \ {0})]
(* relocate(): the cached original becomes another message, and the ledger   *)
(* tells the check under way.                                                *)
Relocated(u, f, v, p) ==
    /\ At(u, f) \in cache
    /\ p \in Folders => Account[p] \notin removed
    /\ cache' = (cache \ {At(u, f)}) \cup {At(v, p)}
    /\ check' = [check EXCEPT !.away = @ \cup {u}, !.in = @ \cup ({v} \ {0})]

KeepsOriginal(u, r) == Relocated(u, r.from, 0, r.from)
Insertable(r) ==
    /\ rows[holder.uid].stage \in {"none", "Kept"}
    /\ At(holder.uid, r.from) \in cache
    /\ Ends(r) \cap removed = {}

(* A refused move is shown at its destination on this device only. *)
ToLocal(r) ==
    IF Current /\ Unsubmitted(r) /\ ~Transfer(r)
    THEN Save([r EXCEPT !.stage = "Local"]) /\ UNCHANGED <<cache, check>>
    ELSE GiveUp

----------------------------------------------------------------------------
(* The servers. *)

Waits == holder.at \in {"moving", "cleaning"} /\ request.reply = "none"

(* What a server may do with a request: MOVE of a UID that is not there is   *)
(* OK and does nothing; `made` is the new copy's UID.                        *)
Outcomes(c) ==
    LET old   == {m \in copies : m.uid = c.uid}
        moved == [copies |-> (copies \ old) \cup {At(nextUid, c.to)},
                  made |-> nextUid, reply |-> "ok"]
        added == [copies |-> copies \cup {At(nextUid, c.to)},
                  made |-> nextUid, reply |-> "ok"]
        gone  == [copies |-> copies \ old, made |-> 0, reply |-> "ok"] IN
    CASE c.kind = "append"  -> {added}
      [] c.kind = "expunge" \/ (c.kind = "move" /\ old = {}) -> {gone}
      [] OTHER -> {moved} \cup IF Partial THEN {[added EXCEPT !.reply = "lost"]} ELSE {}

Happens(o) ==
    /\ nextUid <= MaxUid
    /\ copies' = o.copies
    /\ nextUid' = IF o.made = 0 THEN nextUid ELSE nextUid + 1

(* The answer may be lost, and need not name the new copy. *)
Execute ==
    /\ Waits
    /\ \E o \in Outcomes(request) : \E reply \in {o.reply, "lost"}, new \in {0, o.made} :
          /\ Happens(o)
          /\ request' = [request EXCEPT !.reply = reply, !.new = IF reply = "ok" THEN new ELSE 0]
    /\ UNCHANGED <<late, local, holder, removed, moves>>

Refuse ==
    /\ Waits
    /\ request' = [request EXCEPT !.reply = "refused"]
    /\ UNCHANGED <<copies, nextUid, late, local, holder, removed, moves>>

GivenUp == [kind |-> request.kind, uid |-> request.uid, to |-> request.to]

(* The connection breaks or the deadline passes; the server may still have   *)
(* the request.                                                              *)
TimeOut ==
    /\ Waits
    /\ request' = [request EXCEPT !.reply = "lost"]
    /\ \/ late' = late
       \/ request.kind \in Late /\ late' = late \cup {GivenUp}
    /\ UNCHANGED <<copies, nextUid, local, holder, removed, moves>>

ExecuteLate(c) ==
    /\ \E o \in Outcomes(c) : Happens(o)
    /\ late' = late \ {c}
    /\ UNCHANGED <<request, local, holder, removed, moves>>

Ask(kind, place) ==
    /\ request' = [kind |-> kind, uid |-> holder.uid, to |-> holder.rec.dest,
                   reply |-> "none", new |-> 0]
    /\ Goto(place)
    /\ UNCHANGED <<copies, nextUid, late, local, removed, moves>>

Answered_Lost(place, reply) ==                                    \* mutant
    /\ holder.at = place
    /\ request.reply = reply \/ {request.reply, reply} = {"ok", "lost"}
Answered(place, reply) == holder.at = place /\ request.reply = reply
Consume == request' = NoRequest /\ UNCHANGED <<copies, nextUid, late, removed, moves>>

(* inspect(): the destination, the source, and the destination once more. *)
Destination(r) == In(copies, r.dest)
Inspections_Uploads(u, r) ==                                      \* mutant
    LET there == Cardinality(Destination(r)) IN
    {"error"} \cup {seen \in {"present"} : there = 1}
              \cup {seen \in {"intact"}  : there = 0 /\ At(u, r.from) \in copies}
Inspections(u, r) ==
    LET there == Cardinality(Destination(r)) IN
    {"error"} \cup {seen \in {"present"}    : there = 1}
              \cup {seen \in {"unresolved"} : there = 0 /\ Transfer(r)}
              \cup {seen \in {"intact"}     : there = 0 /\ ~Transfer(r) /\ At(u, r.from) \in copies}

(* resolve(): the acknowledged copy, or the only copy there is. *)
Found(r) ==
    LET there == {m \in Destination(r) : r.current \in {0, m.uid}} IN
    IF Cardinality(there) = 1 THEN {m.uid : m \in there} ELSE {}

----------------------------------------------------------------------------
(* One command at a time has the accounts. *)

Free(r)   == holder = Idle /\ Ends(r) \cap removed = {}
Start(u, place, r, p) ==
    /\ Free(r)
    /\ holder' = [Idle EXCEPT !.at = place, !.uid = u, !.rec = r, !.to = p]
Quiet == UNCHANGED <<server, removed, moves>>

Move(u, f, p) ==
    LET r   == rows[u]
        new == [from |-> f, dest |-> p, stage |-> "Started", current |-> 0] IN
    /\ moves < MaxMoves
    /\ At(u, f) \in cache /\ u # 0 /\ p # f
    /\ moves' = moves + 1
    /\ \/ /\ r.stage \in {"none", "Kept"}
          /\ Start(u, "preparing", new, p)
       \/ /\ r.stage \notin {"none", "Kept"} /\ r.dest = p
          /\ Start(u, "recovering", r, p)
       \/ /\ r.stage \notin {"none", "Kept"} /\ r.dest # p
          /\ ~Transfer(r) /\ Account[p] \notin removed
          /\ Start(u, "releasing", r, p)
    /\ UNCHANGED <<server, local, removed>>

(* The server's capabilities and the destination folder, then the row. *)
Prepare ==
    LET r == holder.rec IN
    /\ holder.at = "preparing"
    /\ \/ /\ Insertable(r)
          /\ SaveAs(r, "submitting")
          /\ UNCHANGED <<cache, check>>
       \/ /\ ~Transfer(r) /\ Insertable(r)
          /\ Save([r EXCEPT !.stage = "Local"])
          /\ UNCHANGED <<cache, check>>
       \/ GiveUp
    /\ Quiet

Reprepare ==
    /\ holder.at = "repreparing"
    /\ \/ Current /\ Goto("submitting") /\ UNCHANGED local
       \/ ToLocal(holder.rec)
       \/ GiveUp
    /\ Quiet

Submit ==
    /\ holder.at = "submitting"
    /\ Ask(IF Transfer(holder.rec) THEN "append" ELSE "move", "moving")

Submitted ==
    LET r == holder.rec
        stage == IF Transfer(r) THEN "Copied" ELSE "Committed" IN
    /\ \/ /\ Answered("moving", "ok") /\ MayCheckpoint(stage, request.new)
          /\ rows' = [rows EXCEPT ![holder.uid] = Checkpoint(stage, request.new)]
          /\ holder' = [holder EXCEPT
                          !.at = IF Transfer(r) THEN "removing" ELSE "resolving",
                          !.rec = Checkpoint(stage, request.new), !.found = request.new]
          /\ UNCHANGED <<cache, check>>
       \/ /\ Answered("moving", "ok") /\ ~MayCheckpoint(stage, request.new)
          /\ GiveUp
       \/ /\ Answered("moving", "refused") /\ ~Transfer(r)
          /\ ToLocal(r)
       \/ /\ Answered("moving", "refused") /\ Transfer(r)
          /\ IF Current THEN Save(NoRow) /\ UNCHANGED <<cache, check>> ELSE GiveUp
       \/ /\ Answered("moving", "lost")
          /\ GiveUp
    /\ Consume

Recover ==
    LET r == holder.rec IN
    /\ holder.at = "recovering"
    /\ \/ Current /\ ~Unsubmitted(r) /\ ~Finished(r) /\ Goto("locating") /\ UNCHANGED local
       \/ (~Current \/ Finished(r)) /\ GiveUp
       \/ /\ Current /\ Unsubmitted(r)
          /\ \E seen \in Inspections(holder.uid, r) :
                CASE seen = "present" -> Goto("locating") /\ UNCHANGED local
                  [] seen = "intact"  -> Goto("repreparing") /\ UNCHANGED local
                  [] OTHER            -> GiveUp
    /\ Quiet

(* recover_reviewed(): a verified copy at the destination permits the        *)
(* removal of the source; a known copy is looked up again first.             *)
Locate ==
    LET r == holder.rec IN
    /\ holder.at = "locating"
    /\ \/ \E v \in Found(r) :
             /\ Current
             /\ \/ /\ Unsubmitted(r) /\ MayCheckpoint("Copied", v)
                   /\ rows' = [rows EXCEPT ![holder.uid] = Checkpoint("Copied", v)]
                   /\ holder' = [holder EXCEPT !.at = "removing", !.found = v,
                                               !.rec = Checkpoint("Copied", v)]
                \/ /\ ~Unsubmitted(r) /\ ~Finished(r)
                   /\ holder' = [holder EXCEPT !.found = v, !.at =
                                   IF r.stage = "Copied" THEN "removing" ELSE "resolving"]
                   /\ UNCHANGED rows
             /\ UNCHANGED <<cache, check>>
       \/ GiveUp
    /\ Quiet

RemoveSource == holder.at = "removing" /\ Ask("expunge", "cleaning")

Cleaned ==
    LET done == Checkpoint("Committed", holder.rec.current) IN
    /\ \/ /\ Answered("cleaning", "ok") /\ MayCheckpoint("Committed", holder.rec.current)
          /\ SaveAs(done, "resolving")
          /\ UNCHANGED <<cache, check>>
       \/ /\ Answered("cleaning", "ok") /\ ~MayCheckpoint("Committed", holder.rec.current)
          /\ GiveUp
       \/ /\ Answered("cleaning", "refused") \/ Answered("cleaning", "lost")
          /\ GiveUp
    /\ Consume

(* The cached original becomes the destination's message with the row's      *)
(* last checkpoint, in one transaction.                                      *)
Resolve ==
    LET r == holder.rec
        v == holder.found IN
    /\ holder.at = "resolving"
    /\ \/ /\ v # 0 /\ Current /\ r.stage = "Committed"
          /\ Relocated(holder.uid, r.from, v, r.dest)
          /\ Save([r EXCEPT !.stage = "Located", !.current = v])
       \/ GiveUp
    /\ Quiet

(* A newer destination replaces a move that was not applied.                 *)
Replaceable(r, seen) == Unsubmitted(r) /\ seen = "intact"
ReleaseUnapplied ==
    LET r == holder.rec IN
    /\ holder.at = "releasing"
    /\ \E seen \in Inspections(holder.uid, r) :
          \/ /\ Current /\ Replaceable(r, seen)
             /\ rows' = [rows EXCEPT ![holder.uid] = NoRow]
             /\ holder' = [holder EXCEPT !.at = "preparing",
                             !.rec = [r EXCEPT !.dest = holder.to, !.stage = "Started"]]
             /\ UNCHANGED <<cache, check>>
          \/ /\ Current /\ ~Replaceable(r, seen) /\ (Unsubmitted(r) => seen # "error")
             /\ Goto("recovering") /\ UNCHANGED local
          \/ GiveUp
    /\ Quiet

----------------------------------------------------------------------------
(* What a person may ask of a pending move, and the background check.        *)

UndoLocal(u) ==
    /\ holder = Idle /\ rows[u].stage = "Local"
    /\ rows' = [rows EXCEPT ![u] = NoRow]
    /\ UNCHANGED <<server, cache, check, holder, removed, moves>>

KeepCopy(u) ==
    LET r == rows[u] IN
    /\ holder = Idle /\ ~Finished(r)
    /\ KeepsOriginal(u, r)
    /\ rows' = [rows EXCEPT ![u].stage = "Kept"]
    /\ UNCHANGED <<server, holder, removed, moves>>

UseExisting(u) ==
    /\ ~Finished(rows[u])
    /\ Start(u, "locating", rows[u], rows[u].dest)
    /\ UNCHANGED <<server, local, removed, moves>>

Retry(u) ==
    /\ ~Finished(rows[u])
    /\ Start(u, "recovering", rows[u], rows[u].dest)
    /\ UNCHANGED <<server, local, removed, moves>>

Lookups_Unsubmitted == {"Started", "Local"}                         \* mutant
Lookups == {"Started", "Committed", "Local"}
Background(u) ==
    /\ rows[u].stage \in Lookups
    /\ Start(u, "recovering", rows[u], rows[u].dest)
    /\ UNCHANGED <<server, local, removed, moves>>

(* A transaction fails or the program stops; the ledger and the check of a   *)
(* program that stopped are gone.                                            *)
Interrupt ==
    /\ holder # Idle \/ check # NoCheck
    /\ Release /\ request' = NoRequest
    /\ late' = IF Waits /\ request.kind \in Late THEN late \cup {GivenUp} ELSE late
    /\ check' \in {check, NoCheck}
    /\ UNCHANGED <<copies, nextUid, rows, cache, removed, moves>>

----------------------------------------------------------------------------
(* The check of a folder and the removal of an account. *)

ListFolder(f) ==
    /\ check.at = "idle" /\ Account[f] \notin removed
    /\ check' = [NoCheck EXCEPT !.at = "listed", !.folder = f,
                                !.live = {m.uid : m \in In(copies, f)}]
    /\ UNCHANGED <<server, rows, cache, holder, removed, moves>>

Listed == check.at = "listed" /\ Account[check.folder] \notin removed

(* drops_arrival(): moved away since the listing. *)
DropsArrival(v) == v \in check.away

Arrive(v) ==
    /\ Listed /\ v \in check.live /\ ~DropsArrival(v)
    /\ cache' = cache \cup {At(v, check.folder)}
    /\ UNCHANGED <<server, rows, check, holder, removed, moves>>

Protected_Unsubmitted(u) == Unsubmitted(rows[u])                  \* mutant
Protected(u) == ~Finished(rows[u])
KeepsRow_Never(u) == FALSE                                        \* mutant
KeepsRow(u)  == u \in check.in

Reconcile ==
    /\ check.at = "listed"
    /\ cache' = IF ~Listed THEN cache
                ELSE {m \in cache : \/ m.folder # check.folder \/ m.uid = 0
                                    \/ m.uid \in check.live
                                    \/ Protected(m.uid) \/ KeepsRow(m.uid)}
    /\ check' = NoCheck
    /\ UNCHANGED <<server, rows, holder, removed, moves>>

AdmitRemoval(a) ==
    /\ a \notin removed
    /\ removed' = removed \cup {a}
    /\ UNCHANGED <<server, local, holder, moves>>

(* Pending transfers into the account leave their originals as local mail. *)
Orphans(a) == {u \in Uids : /\ ~Finished(rows[u])
                            /\ Account[rows[u].dest] = a /\ Account[rows[u].from] # a}
Purge(a) ==
    LET kept == {At(u, rows[u].from) : u \in Orphans(a)} IN
    /\ a \in removed /\ holder = Idle
    /\ kept \subseteq cache
    /\ \A m \in kept : Account[m.folder] \notin removed
    /\ rows' = [u \in Uids |-> IF a \in Ends(rows[u]) THEN NoRow ELSE rows[u]]
    /\ cache' = {m \in (cache \ kept) \cup {At(0, m.folder) : m \in kept} :
                    Account[m.folder] # a}
    /\ check' = [check EXCEPT !.away = @ \cup Orphans(a)]
    /\ <<rows', cache'>> # <<rows, cache>>
    /\ UNCHANGED <<server, holder, removed, moves>>

----------------------------------------------------------------------------
Command ==
    \/ Prepare \/ Reprepare \/ Submit \/ Submitted \/ Recover \/ Locate
    \/ RemoveSource \/ Cleaned \/ Resolve \/ ReleaseUnapplied
Asked ==
    \/ \E u \in Uids, f, p \in Folders : Move(u, f, p)
    \/ \E u \in Uids : UndoLocal(u) \/ KeepCopy(u) \/ UseExisting(u) \/ Retry(u)
    \/ \E a \in MailAccounts : AdmitRemoval(a)
Periodic ==
    \/ \E u \in Uids : Background(u)
    \/ \E f \in Folders : ListFolder(f)
    \/ \E v \in Uids : Arrive(v)
    \/ Reconcile
    \/ \E a \in MailAccounts : Purge(a)
Servers ==
    \/ Execute \/ Refuse \/ TimeOut
    \/ \E c \in late : ExecuteLate(c)

Next == Command \/ Asked \/ Periodic \/ Servers \/ Interrupt

Goes == holder'.at # "idle"

(* Commands take their next step and requests are answered or time out; the  *)
(* background check and the removal owner come back.  The server is within   *)
(* reach, does not refuse and names what it did again and again, and the     *)
(* database keeps what it is given again and again.                          *)
Fairness ==
    /\ WF_vars(Command) /\ WF_vars(TimeOut) /\ WF_vars(Reconcile)
    /\ \A u \in Uids : SF_vars(Background(u))
    /\ \A a \in MailAccounts : SF_vars(Purge(a))
    /\ SF_vars(Recover /\ Goes) /\ SF_vars(Reprepare /\ Goes) /\ SF_vars(Submit)
    /\ SF_vars(Execute /\ request'.reply = "ok") /\ SF_vars(Submitted)
    /\ SF_vars(Locate /\ Goes) /\ SF_vars(Resolve /\ rows' # rows)

Spec     == Init /\ [][Next]_vars
FairSpec == Spec /\ Fairness

----------------------------------------------------------------------------
(* Properties. *)

TypeOK ==
    /\ copies \subseteq [uid : Uids, folder : Folders]
    /\ nextUid \in 1 .. MaxUid + 1
    /\ request \in Request /\ late \subseteq Given
    /\ rows \in [Uids -> Row]
    /\ cache \subseteq [uid : Uids \cup {0}, folder : Folders]
    /\ holder \in Holder /\ check \in Check
    /\ removed \subseteq MailAccounts /\ moves \in 0 .. MaxMoves

(* Until a move is resolved its original is readable from the local database *)
(* whatever the server, a check of the folder or a removal of the other      *)
(* account does (the cache_id protection of mail_moves).                     *)
OriginalIsKept ==
    \A u \in Uids : ~Finished(rows[u]) => At(u, rows[u].from) \in cache

(* A row says Committed or Located only when the server really removed the   *)
(* source: no lost answer and no retry is taken for an acknowledgement.      *)
SourceIsGone ==
    \A u \in Uids : rows[u].stage \in {"Committed", "Located"} => ~Has(copies, u)

(* However often a move is retried, it makes one copy: an upload or MOVE     *)
(* whose answer was lost is never sent again once it had an effect.  And no  *)
(* retry, lost answer, crash or move back removes the last copy.             *)
OneCopyPerMove == Cardinality(copies) \in 1 .. 1 + moves

(* The cache takes in what a server has or listed.  A listing may be older   *)
(* than moves that were acknowledged since: it neither brings an             *)
(* acknowledged move's source back nor drops a message that the servers have *)
(* (the write ledger).                                                       *)
CacheFollowsServers ==
    [][/\ \A m \in cache' \ cache :
             m.uid # 0 => /\ rows[m.uid].stage \notin {"Committed", "Located"}
                          /\ m \in copies \/ m.uid \in check.live
       /\ check # NoCheck /\ check' = NoCheck => (cache \ cache') \cap copies = {}]_vars

(* A move within an account that was refused, interrupted or confirmed       *)
(* without an identity is finished by the background check, or is left       *)
(* Copied for a person to retry.                                             *)
PendingIsSettled ==
    \A u \in Uids :
        LET s == rows[u].stage IN
        s \in {"Started", "Committed", "Local"} /\ ~Transfer(rows[u])
            ~> s \notin {"Started", "Committed", "Local"}

(* "Nothing was applied on the server" (MoveStage::Local): what Undo of a    *)
(* device-only move takes for granted.                                       *)
LocalIsUnapplied ==
    \A u \in Uids : holder = Idle /\ rows[u].stage = "Local" => At(u, rows[u].from) \in copies

(* A removal whose local cleanup failed ends once it is retried.             *)
RemovalFinishes ==
    \A a \in MailAccounts :
        a \in removed ~> /\ \A m \in cache : Account[m.folder] # a
                         /\ \A u \in Uids : ~Finished(rows[u]) => a \notin Ends(rows[u])

----------------------------------------------------------------------------
(* The inductive invariant behind the theorems of MoveJournalProofs.          *)

(* Wherever an identity is spoken of, it is of the same folder.              *)
Sightings ==
    copies \cup {m \in cache : m.uid # 0}
    \cup {At(u, rows[u].from) : u \in {w \in Uids : rows[w].stage # "none"}}
    \cup {At(u, check.folder) : u \in check.live}
    \cup {m \in {At(holder.uid, holder.rec.from), At(holder.found, holder.rec.dest)} :
               holder.at # "idle" /\ m.uid # 0}
    \cup {m \in {At(request.new, request.to)} : m.uid # 0}
OnePlace == \A m, n \in Sightings : m.uid = n.uid => m = n

(* A move goes elsewhere, and what a command asks for is its row's.          *)
Asks == {"repreparing", "submitting", "moving"}
Directed ==
    /\ \A u \in Uids : rows[u].stage # "none" => rows[u].from # rows[u].dest
    /\ holder.at # "idle" => holder.rec.from # holder.rec.dest
    /\ holder.at = "releasing" => holder.to # holder.rec.from /\ holder.found = 0
    /\ holder.at \in Asks => Current
    /\ holder.at = "moving" => request.to = holder.rec.dest
    /\ \A c \in late : c.kind = "append"

(* The copy that permits the removal of the source, or that replaces it in   *)
(* the cache, stays where it was seen.                                       *)
Cleans == {"removing", "cleaning"}
Uploaded == holder.at = "moving" /\ request.reply = "ok" /\ Transfer(holder.rec)
Backed ==
    /\ holder.at \in Cleans \/ Uploaded => \E m \in copies : m.uid # holder.uid
    /\ holder.at \in Cleans \cup {"resolving"} /\ holder.found # 0 =>
          At(holder.found, holder.rec.dest) \in copies
    /\ request.new # 0 => request.reply = "ok" /\ At(request.new, request.to) \in copies

(* A copy is paid for by the move that made it.  A move within an account    *)
(* that had no effect may be sent again once its destination is empty: it is *)
(* waiting, or a copy at its destination stands for it.                      *)
Sending ==
    \/ holder.at \in {"preparing", "repreparing", "submitting"}
    \/ holder.at = "moving" /\ request.reply = "none"
Repeatable ==
    {u \in Uids : Unsubmitted(rows[u]) /\ ~Transfer(rows[u]) /\ ~(Sending /\ u = holder.uid)}
Stood(waiting, f) == {u \in Repeatable \ waiting : rows[u].dest = f}
Paid ==
    \E waiting \in SUBSET Uids :
        /\ \A f \in Folders : Cardinality(Stood(waiting, f)) <= Cardinality(In(copies, f))
        /\ Cardinality(copies) + Cardinality(waiting) + Cardinality(late)
              + (IF Sending THEN 1 ELSE 0) <= 1 + moves

Counted == IsFiniteSet(copies) /\ IsFiniteSet(late) /\ copies # {}
CopiesInv == OnePlace /\ Directed /\ Backed /\ Counted /\ Paid

(* What the check of a folder may take in or drop.                           *)
ListingInv ==
    check.at = "listed" =>
        /\ \A m \in copies \cap cache : m.folder = check.folder => m.uid \in check.live \cup check.in
        /\ \A v \in check.live : rows[v].stage = "Located" => v \in check.away
=============================================================================
