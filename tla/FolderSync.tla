----------------------------- MODULE FolderSync -----------------------------
(***************************************************************************)
(* One check of one mail folder beside the user's own writes to it:        *)
(* engine/account_sync.rs takes an epoch of the write ledger, reads what   *)
(* the cache holds and the saved CONDSTORE state, and lets                 *)
(* shared/mail-core/src/providers/mail.rs list the server; the listed      *)
(* items are applied one by one, later, by store.rs.  Meanwhile the        *)
(* account's writer sets flags and moves messages on a connection of its   *)
(* own (AccountWork), and other clients change the server.                 *)
(*                                                                         *)
(* What the server holds is external.  A message is its UID; its flags are *)
(* a subset of Fields; UIDs never return.  The write ledger's clock counts *)
(* acknowledged writes: an epoch is the count when a check begins, so an   *)
(* entry outranks the check when its number is above the epoch.            *)
(***************************************************************************)
EXTENDS Integers, Sequences, FiniteSets, SequencesExt

CONSTANTS
    Uids,           \* messages that can be in the folder
    Fields,         \* flags a message carries: unread, starred
    Arriving,       \* flags a message arrives with
    Carried,        \* flags of a row that is moved here
    Lanes,          \* how a body is fetched: lanes::Lane
    Servers,        \* extensions the server may speak
    Limit,          \* LIMIT_PER_ACCOUNT
    MaxModseq,      \* bound: changes made at the server
    MaxWrites,      \* bound: writes the user begins
    MaxStops        \* bound: checks that do not reach their end

ASSUME ParametersAssumption ==
    /\ IsFiniteSet(Uids) /\ Lanes \subseteq {"inline", "slow", "staged"}
    /\ Arriving \subseteq SUBSET Fields /\ Carried \subseteq SUBSET Fields
    /\ Servers \subseteq {"condstore", "qresync"}
    /\ Limit \in Nat /\ MaxModseq \in Nat /\ MaxWrites \in Nat
    /\ MaxStops \in Nat

VARIABLES
    speaks,     \* the extension this account's server speaks
    lane,       \* each message's lane, by its size
    server,     \* per message: where it is, its flags, its mod-sequence
    highest,    \* HIGHESTMODSEQ
    cached,     \* rows of this folder in messages
    flags,      \* their unread and starred columns
    saved,      \* the row of folder_modseqs, 0 when there is none
    ledger,     \* scratch.write_ledger
    clock,      \* scratch.write_clock
    write,      \* the write in hand: its request and how far it got
    check,      \* the running check
    queue,      \* items sent by the provider and not yet applied
    begun,      \* counts against MaxWrites
    stops,      \* counts against MaxStops
    left        \* history: messages the user has moved away

kinds  == <<speaks, lane>>
remote == <<server, highest>>
rows   == <<cached, flags>>
book   == <<ledger, clock>>
checkVars ==
    <<kinds, remote, rows, saved, book, write, check, queue, begun, stops, left>>

-----------------------------------------------------------------------------
(* Types. *)

Places  == {"coming", "here", "gone"}
Entries == [uid : Uids, kind : {"flags", "away", "in"}, ack : Nat]
Plans   == {"full", "unchanged", "changes"}
Steps   == {"idle", "read", "select", "resync", "search", "changed", "fetch",
            "bodies", "close", "slow", "end"}
Checks  == [step : Steps, epoch : Nat,
            known : SUBSET Uids, resume : Nat,           \* read beforehand
            modseq : Nat, there : SUBSET Uids,           \* told by SELECT
            plan : Plans, whole : BOOLEAN,
            live : SUBSET Uids, lost : SUBSET Uids,
            listed : SUBSET Uids, slow : SUBSET Uids,
            seen : [Uids -> SUBSET Fields]]
NoneSeen  == [u \in Uids |-> {}]
Resting == [step |-> "idle", epoch |-> 0, known |-> {}, resume |-> 0,
            modseq |-> 0, there |-> {}, plan |-> "full", whole |-> FALSE,
            live |-> {}, lost |-> {}, listed |-> {}, slow |-> {},
            seen |-> NoneSeen]

NoWrite == [op |-> "none"]
Writes  == [op : {"flags"}, uid : Uids, field : Fields, on : BOOLEAN,
            done : BOOLEAN]
           \cup [op : {"away"}, uid : Uids, done : BOOLEAN]
           \cup [op : {"in"}, uid : Uids, flags : SUBSET Fields,
                 done : BOOLEAN]

Items ==
    [is : {"flags"}, of : SUBSET Uids, flags : [Uids -> SUBSET Fields]]
    \cup [is : {"message"}, uid : Uids, shows : SUBSET Fields]
    \cup [is : {"reconcile", "vanished"}, ids : SUBSET Uids]
    \cup [is : {"state"}, modseq : Nat]

CheckTypeOK ==
    /\ speaks \in Servers /\ lane \in [Uids -> Lanes]
    /\ server \in [Uids -> [is : Places, flags : SUBSET Fields, mod : Nat]]
    /\ highest \in Nat
    /\ cached \subseteq Uids
    /\ flags \in [Uids -> SUBSET Fields]
    /\ saved \in Nat
    /\ ledger \subseteq Entries /\ \A e \in ledger : e.ack <= clock
    /\ clock \in Nat
    /\ write \in Writes \cup {NoWrite}
    /\ check \in Checks
    /\ queue \in Seq(Items)
    /\ begun \in Nat /\ stops \in Nat
    /\ left \subseteq Uids

-----------------------------------------------------------------------------
(* The folder at the server. *)

Inline == {u \in Uids : lane[u] = "inline"}
Staged == {u \in Uids : lane[u] = "staged"}
Here   == {u \in Uids : server[u].is = "here"}
Shown  == [u \in Uids |-> server[u].flags]
Changed(since, place) ==
    {u \in Uids : server[u].is = place /\ server[u].mod > since}

(* Every change takes the next mod-sequence. *)
Change(u, place, shows) ==
    /\ highest < MaxModseq
    /\ highest' = highest + 1
    /\ server' = [server EXCEPT
           ![u] = [is |-> place, flags |-> shows, mod |-> highest + 1]]
Toggle(on, shows, f) == IF on THEN shows \cup {f} ELSE shows \ {f}

(* Other clients: one flag, a deletion, an arrival. *)
OtherClient ==
    /\ \E u \in Uids :
          \/ /\ u \in Here
             /\ \E f \in Fields :
                   Change(u, "here",
                          Toggle(f \notin server[u].flags, server[u].flags, f))
          \/ u \in Here /\ Change(u, "gone", {})
          \/ /\ server[u].is = "coming"
             /\ ~ (write.op = "in" /\ write.uid = u)
             /\ \E shows \in Arriving : Change(u, "here", shows)
    /\ UNCHANGED <<kinds, rows, saved, book, write, check, queue, begun,
                   stops, left>>

-----------------------------------------------------------------------------
(* The write ledger. *)

Outranks(e, epoch) == e.ack > epoch
Outranked(u, kind, epoch) ==
    \E e \in ledger : e.uid = u /\ e.kind = kind /\ Outranks(e, epoch)
HoldsFolderState(epoch) == \E e \in ledger : Outranks(e, epoch)
Bounded(book_) ==
    {e \in book_ : Cardinality({x \in book_ : x.ack > e.ack}) < Limit}
RecordAcknowledged(u, kind) ==
    /\ clock' = clock + 1
    /\ ledger' = Bounded(ledger \cup
                         {[uid |-> u, kind |-> kind, ack |-> clock + 1]})

-----------------------------------------------------------------------------
(* The user's writes, one at a time on the account. *)

Ask(request) ==
    /\ write = NoWrite /\ begun < MaxWrites
    /\ begun' = begun + 1
    /\ write' = request
    /\ UNCHANGED <<kinds, remote, rows, saved, book, check, queue, stops,
                   left>>
AskFlags == \E u \in cached, f \in Fields :
    Ask([op |-> "flags", uid |-> u, field |-> f, on |-> f \notin flags[u],
         done |-> FALSE])
AskAway == \E u \in cached : Ask([op |-> "away", uid |-> u, done |-> FALSE])
(* The flags come with the row of the folder it leaves. *)
AskIn == \E u \in Uids, carried \in Carried :
    /\ server[u].is = "coming"
    /\ Ask([op |-> "in", uid |-> u, flags |-> carried, done |-> FALSE])

(* The server does as asked; its answer is still to be read. *)
Execute ==
    /\ write # NoWrite /\ ~ write.done
    /\ \/ /\ write.op = "flags"
          /\ LET u == write.uid
                 shows == Toggle(write.on, server[u].flags, write.field)
             IN  IF u \in Here /\ shows # server[u].flags
                 THEN Change(u, "here", shows)
                 ELSE UNCHANGED remote
       \/ /\ write.op = "away" /\ write.uid \in Here
          /\ Change(write.uid, "gone", {})
       \/ /\ write.op = "in"
          /\ \E shows \in Arriving : Change(write.uid, "here", shows)
    /\ write' = [write EXCEPT !.done = TRUE]
    /\ UNCHANGED <<kinds, rows, saved, book, check, queue, begun, stops, left>>

(* A refusal; for flags a timeout too, whatever the server did.  A move    *)
(* whose answer is lost keeps its journal row (MoveJournal).               *)
GiveUp ==
    /\ write # NoWrite
    /\ write.done => write.op = "flags"
    /\ write' = NoWrite
    /\ UNCHANGED <<kinds, remote, rows, saved, book, check, queue, begun,
                   stops, left>>

(* patch_flags() after send_flags(): the row may be gone by now. *)
CommitFlags ==
    /\ write.op = "flags" /\ write.done
    /\ write' = NoWrite
    /\ IF write.uid \in cached
       THEN /\ flags' = [flags EXCEPT
                   ![write.uid] = Toggle(write.on, @, write.field)]
            /\ RecordAcknowledged(write.uid, "flags")
       ELSE UNCHANGED <<flags, book>>
    /\ UNCHANGED <<kinds, remote, cached, saved, check, queue, begun, stops,
                   left>>
(* relocate(): this folder is the source ... *)
CommitAway ==
    /\ write.op = "away" /\ write.done /\ write.uid \in cached
    /\ write' = NoWrite
    /\ cached' = cached \ {write.uid}
    /\ flags' = [flags EXCEPT ![write.uid] = {}]
    /\ left' = left \cup {write.uid}
    /\ RecordAcknowledged(write.uid, "away")
    /\ UNCHANGED <<kinds, remote, saved, check, queue, begun, stops>>
(* ... or the destination: a row a check brought first stays as it is. *)
CommitIn ==
    /\ write.op = "in" /\ write.done
    /\ write' = NoWrite
    /\ cached' = cached \cup {write.uid}
    /\ flags' = IF write.uid \in cached THEN flags
                ELSE [flags EXCEPT ![write.uid] = write.flags]
    /\ RecordAcknowledged(write.uid, "in")
    /\ UNCHANGED <<kinds, remote, saved, check, queue, begun, stops, left>>

-----------------------------------------------------------------------------
(* The check: download_account() and sync_imap_session_mode().             *)

Local == <<cached, flags, saved, write, begun, left>>
Step(next) == check' = next
Quiet == UNCHANGED <<kinds, remote, Local, book, stops>>
Send(items) == queue' = queue \o items
Together(Test, item) == IF Test THEN <<item>> ELSE <<>>
FlagItem(of, shows) ==
    Together(of # {}, [is |-> "flags", of |-> of,
                       flags |-> [u \in Uids |-> IF u \in of THEN shows[u]
                                                 ELSE {}]])
BodyItem(u, shows) == [is |-> "message", uid |-> u, shows |-> shows]

(* sync_epoch(): older entries no longer matter, this check listing later. *)
Begin ==
    /\ check.step = "idle"
    /\ Step([Resting EXCEPT !.step = "read", !.epoch = clock])
    /\ Quiet /\ UNCHANGED queue
(* known() and folder_modseqs(). *)
Read ==
    /\ check.step = "read"
    /\ Step([check EXCEPT !.step = "select", !.known = cached,
                          !.resume = saved])
    /\ Quiet /\ UNCHANGED queue

Plan(resume, modseq) ==
    IF resume = 0 \/ modseq = 0 \/ modseq < resume THEN "full"
    ELSE IF modseq = resume THEN "unchanged" ELSE "changes"
Qresync == speaks = "qresync" /\ check.resume # 0
(* qresync::reconcile(): does the outcome add up to the SELECT size? *)
AddsUp(gone, new, there) ==
    Cardinality(check.known) - Cardinality(gone) + Cardinality(new)
        = Cardinality(there)
(* SELECT; a server may say NOMODSEQ of a mailbox, here 0. *)
Select ==
    /\ check.step = "select"
    /\ \E modseq \in {0, highest} :
          LET plan == Plan(check.resume, modseq)
          IN  Step([check EXCEPT
                  !.modseq = modseq, !.there = Here, !.plan = plan,
                  !.step = IF ~ Qresync \/ plan = "full" THEN "search"
                           ELSE IF plan = "changes" THEN "resync"
                           ELSE IF AddsUp({}, {}, Here) THEN "close"
                           ELSE "search"])
    /\ Quiet /\ UNCHANGED queue

(* qresync::changes(): flags and expunges since the saved state, trusted   *)
(* when they add up and the server reports no change meanwhile.            *)
Resync ==
    /\ check.step = "resync"
    /\ LET fetched == Changed(check.resume, "here")
           gone    == check.known \cap Changed(check.resume, "gone")
           new     == fetched \ check.known
       IN  \/ /\ AddsUp(gone, new, check.there)
              /\ Step([check EXCEPT !.step = "fetch", !.lost = gone,
                                    !.listed = new])
              /\ Send(FlagItem(fetched \cap check.known, Shown))
           \/ /\ AddsUp(gone, new, check.there) => Here # check.there
              /\ Step([check EXCEPT !.step = "search", !.listed = fetched,
                                    !.seen = Shown])
              /\ UNCHANGED queue
           \/ /\ Step([check EXCEPT !.step = "search", !.plan = "full"])
              /\ UNCHANGED queue
    /\ Quiet

Unlisted_Unchanged(given) == IF given THEN {} ELSE Here         \* mutant
(* What is still to be listed: of a plan that is not full, what is not     *)
(* known, for a body that was lost when the state was saved.               *)
Unlisted(given) == IF given THEN Here \ check.known ELSE Here
(* UID SEARCH; a resync that did not add up still gave the changed flags.  *)
Search ==
    /\ check.step = "search"
    /\ LET given == check.plan # "full" /\ (Qresync \/ check.plan = "unchanged")
           asks  == check.plan = "changes" /\ ~ Qresync
       IN  /\ Step([check EXCEPT
                  !.step = IF asks THEN "changed" ELSE "fetch",
                  !.whole = TRUE, !.live = Here, !.seen = NoneSeen,
                  !.listed = Unlisted(given)])
           /\ Send(FlagItem(IF given THEN check.listed \cap check.known \cap Here
                            ELSE {}, check.seen))
    /\ Quiet
(* changed_flags(), or every flag when the server rejects the request. *)
FetchChanged ==
    /\ check.step = "changed"
    /\ \/ /\ Step([check EXCEPT !.step = "fetch",
                                !.listed = check.live \ check.known])
          /\ Send(FlagItem(Changed(check.resume, "here")
                              \cap check.known \cap check.live, Shown))
       \/ Step([check EXCEPT !.step = "fetch"]) /\ UNCHANGED queue
    /\ Quiet

(* (UID FLAGS RFC822.SIZE) of what was listed. *)
FetchMetadata ==
    /\ check.step = "fetch"
    /\ LET there == check.listed \cap Here
           new   == there \ check.known
       IN  /\ Step([check EXCEPT
                  !.step = IF new \cap Inline = {} THEN "close" ELSE "bodies",
                  !.listed = new \cap Inline,
                  !.slow = new \ Inline,
                  !.seen = [u \in Uids |-> IF u \in new \cap Staged
                                           THEN server[u].flags ELSE {}]])
           /\ Send(FlagItem(there \cap check.known, Shown))
    /\ Quiet
(* (UID FLAGS BODY.PEEK[]): one that left meanwhile is not answered. *)
FetchBodies ==
    /\ check.step = "bodies"
    /\ Step([check EXCEPT !.step = "close", !.listed = {}])
    /\ Send([i \in 1..Cardinality(check.listed \cap Here) |->
                LET u == SetToSeq(check.listed \cap Here)[i]
                IN  BodyItem(u, server[u].flags)])
    /\ Quiet
(* The listing or the expunges, and last the folder's new state. *)
Close ==
    /\ check.step = "close"
    /\ Step([check EXCEPT !.step = "slow", !.whole = FALSE, !.live = {},
                          !.lost = {}, !.resume = 0, !.modseq = 0,
                          !.plan = "full", !.there = {}])
    /\ Send(Together(check.whole, [is |-> "reconcile", ids |-> check.live])
            \o Together(~ check.whole /\ check.lost # {},
                        [is |-> "vanished", ids |-> check.lost])
            \o Together(check.modseq # check.resume,
                        [is |-> "state", modseq |-> check.modseq]))
    /\ Quiet
(* The provider is done; what it sent is still to be applied. *)
Over == [Resting EXCEPT !.step = "end", !.epoch = check.epoch,
                        !.known = check.known]
(* The slow lane one body at a time, then the staged downloads. *)
FetchSlow ==
    /\ check.step = "slow"
    /\ \E u \in check.slow :
          /\ u \in Staged => check.slow \subseteq Staged
          /\ IF u \in Staged /\ u \notin Here
             THEN Step(Over)
             ELSE Step([check EXCEPT !.slow = @ \ {u}])
          /\ Send(Together(u \in Here, BodyItem(u, IF u \in Staged
                                                  THEN check.seen[u]
                                                  ELSE server[u].flags)))
    /\ Quiet
(* download() is told to stop, times out or fails; what the channel did    *)
(* not take is lost.                                                       *)
Stop ==
    /\ check.step \notin {"idle", "end"} /\ stops < MaxStops
    /\ stops' = stops + 1
    /\ Step(Over)
    /\ \E n \in 0..Len(queue) : queue' = SubSeq(queue, 1, n)
    /\ UNCHANGED <<kinds, remote, Local, book>>
(* sync_finished(), when everything received has been applied. *)
Finish ==
    /\ check.step \in {"slow", "end"} /\ check.slow = {}
    /\ queue = <<>>
    /\ ledger' = {e \in ledger : Outranks(e, check.epoch)}
    /\ check' = Resting
    /\ UNCHANGED <<kinds, remote, Local, clock, queue, stops>>
Crash_KeepsLedger ==                                            \* mutant
    /\ stops < MaxStops
    /\ stops' = stops + 1
    /\ check' = Resting /\ queue' = <<>>
    /\ clock' = 0
    /\ write' = IF write.op = "flags" THEN NoWrite ELSE write
    /\ UNCHANGED <<kinds, remote, rows, saved, ledger, begun, left>>
(* The ledger is in the session's scratch database; a move is journaled. *)
AppCrash ==
    /\ stops < MaxStops
    /\ stops' = stops + 1
    /\ check' = Resting /\ queue' = <<>>
    /\ ledger' = {} /\ clock' = 0
    /\ write' = IF write.op = "flags" THEN NoWrite ELSE write
    /\ UNCHANGED <<kinds, remote, rows, saved, begun, left>>

-----------------------------------------------------------------------------
(* apply_sync_since(). *)

Item == queue[1]
Pending(u) == write.op = "away" /\ write.uid = u
KeepsRow_NotPending(u) == Outranked(u, "in", check.epoch)       \* mutant
KeepsRow_NotMovedIn(u) == Pending(u)                            \* mutant
KeepsRow(u) == Pending(u) \/ Outranked(u, "in", check.epoch)

ApplyFlags_Always ==                                            \* mutant
    /\ Item.is = "flags"
    /\ flags' = [u \in Uids |-> IF u \in Item.of \cap cached
                               THEN Item.flags[u] ELSE flags[u]]
    /\ UNCHANGED <<cached, saved>>
ApplyFlags ==
    /\ Item.is = "flags"
    /\ flags' = [u \in Uids |->
           IF /\ u \in Item.of \cap cached
              /\ ~ Outranked(u, "flags", check.epoch)
           THEN Item.flags[u] ELSE flags[u]]
    /\ UNCHANGED <<cached, saved>>
ApplyMessage_Always ==                                          \* mutant
    /\ Item.is = "message"
    /\ cached' = cached \cup {Item.uid}
    /\ flags' = [flags EXCEPT ![Item.uid] = Item.shows]
    /\ UNCHANGED saved
ApplyMessage ==
    /\ Item.is = "message"
    /\ IF Outranked(Item.uid, "away", check.epoch)
       THEN UNCHANGED rows
       ELSE /\ cached' = cached \cup {Item.uid}
            /\ flags' = [flags EXCEPT ![Item.uid] = Item.shows]
    /\ UNCHANGED saved
ApplyRemoval ==
    /\ Item.is \in {"reconcile", "vanished"}
    /\ LET listed == IF Item.is = "vanished" THEN Item.ids
                     ELSE cached \ Item.ids
       IN  /\ cached' = cached \ {u \in listed : ~ KeepsRow(u)}
           /\ flags' = [u \in Uids |-> IF u \in cached' THEN flags[u] ELSE {}]
    /\ UNCHANGED saved
ApplyState_NotHeld ==                                           \* mutant
    /\ Item.is = "state"
    /\ saved' = Item.modseq
    /\ UNCHANGED rows
ApplyState ==
    /\ Item.is = "state"
    /\ saved' = IF Item.modseq # 0 /\ HoldsFolderState(check.epoch)
                THEN saved ELSE Item.modseq
    /\ UNCHANGED rows
Apply ==
    /\ queue # <<>>
    /\ ApplyFlags \/ ApplyMessage \/ ApplyRemoval \/ ApplyState
    /\ queue' = Tail(queue)
    /\ UNCHANGED <<kinds, remote, book, write, check, begun, stops, left>>

-----------------------------------------------------------------------------

CheckInit ==
    /\ speaks \in Servers /\ lane \in [Uids -> Lanes]
    /\ \E before \in SUBSET Uids :
          /\ server = [u \in Uids |-> [is |-> IF u \in before THEN "here"
                                              ELSE "coming",
                                       flags |-> {}, mod |-> 1]]
          /\ cached = before
    /\ highest = 1
    /\ flags = [u \in Uids |-> {}]
    /\ saved \in {0, 1}
    /\ ledger = {} /\ clock = 0
    /\ write = NoWrite
    /\ check = Resting /\ queue = <<>>
    /\ begun = 0 /\ stops = 0
    /\ left = {}

User   == AskFlags \/ AskAway \/ AskIn
Answer == Execute \/ GiveUp \/ CommitFlags \/ CommitAway \/ CommitIn
Provider ==
    \/ Begin \/ Read \/ Select \/ Resync \/ Search \/ FetchChanged
    \/ FetchMetadata \/ FetchBodies \/ Close \/ FetchSlow \/ Finish
CheckNext == OtherClient \/ User \/ Answer \/ Provider \/ Apply \/ Stop \/ AppCrash

CheckSpec == CheckInit /\ [][CheckNext]_checkVars
(* Checks run at an interval, each step has a timeout, and a request ends. *)
CheckFairness == WF_checkVars(Provider) /\ WF_checkVars(Apply) /\ WF_checkVars(Answer)
CheckFairSpec == CheckSpec /\ CheckFairness

-----------------------------------------------------------------------------
(* Properties. *)

(* A check never removes a message the server still holds, however old its *)
(* listing: neither Reconcile nor Vanished takes the row a move brought.   *)
OnServerMeansKept ==
    [][\A u \in cached : server[u].is = "here" => u \in cached']_checkVars

(* A message the user has moved away never comes back to the folder: not   *)
(* by a body fetched before the move, a slow one, or one after a crash.    *)
MovedMailStaysAway == left \cap cached = {}

(* The row of a move in flight stays until relocate() needs it. *)
PendingRowIsKept == write.op = "away" => write.uid \in cached

(* Until its check ends, no flag listing undoes an acknowledged flag.      *)
WritesStand(u) ==
    Outranked(u, "flags", check.epoch) /\ u \in cached /\ u \in cached'
        => flags'[u] = flags[u]
ListingsYieldToWrites ==
    [][check.step # "idle" /\ write' = write
          => \A u \in check.known : WritesStand(u)]_checkVars
(* The same of every message, as write_ledger.rs says: not for a body      *)
(* fetched before the flag was set, of a row a move brought meanwhile.     *)
StaleItemsYieldToWrites ==
    [][check.step # "idle" /\ write' = write
          => \A u \in Uids : WritesStand(u)]_checkVars

(* folder_modseqs.rs: every cached message shows the server's flags as of  *)
(* the saved state, or changed after it.                                   *)
FlagsTold(u) ==
    u \in cached /\ u \in Here /\ saved # 0 /\ server[u].mod <= saved
        => flags[u] = server[u].flags
StateTellsFlags == \A u \in Uids : FlagsTold(u)
(* No item a check applies, in whatever order with writes, breaks that.    *)
ChecksKeepTheState ==
    [][write' = write => \A u \in Uids : FlagsTold(u) => FlagsTold(u)']_checkVars

(* mail.rs: "A QRESYNC outcome already accounts for every message in the   *)
(* folder."  What is cached and not expunged, and what is new, is what the  *)
(* folder holds.  The code violates it: a size that adds up may stand for  *)
(* a row that is kept for a pending move and a message that was not saved. *)
OutcomeAccountsForFolder ==
    [][check.step \in {"select", "resync"} /\ check'.step \in {"fetch", "close"}
          => (check.known \ check'.lost) \cup check'.listed = Here]_checkVars

(* With no more changes the cache comes to hold what the server holds,     *)
(* whatever bodies were lost after their state was saved.  Only without    *)
(* QRESYNC, whose checks may stop listing (OutcomeAccountsForFolder).      *)
ListingConverges == speaks = "condstore" => <>[](cached = Here)

-----------------------------------------------------------------------------
(* The inductive invariant behind the theorems of FolderSyncProofs.        *)

(* Every acknowledged write has a number of its own.                       *)
WritesAreNumbered ==
    /\ \A e, x \in ledger : e.ack = x.ack => e = x
    /\ \A e \in ledger : 1 <= e.ack
    /\ check.epoch <= clock

(* A message comes once and leaves once.                                   *)
UidsNeverReturn ==
    /\ \A u \in cached : server[u].is # "coming"
    /\ \A u \in left : server[u].is = "gone"
    /\ write.op = "in" =>
          /\ write.uid \notin left
          /\ write.done <=> server[write.uid].is # "coming"
    /\ write.op = "away" /\ write.done => server[write.uid].is = "gone"

(* What the provider has sent when it has come to a step.                  *)
SentIn(n) == {queue[i].uid : i \in {j \in 1..n : queue[j].is = "message"}}
Early     == {"idle", "read", "select", "resync", "search"}
Listing   == {"changed", "fetch", "bodies"}
ItemsFollowSteps ==
    /\ check.step \in Early => queue = <<>>
    /\ check.step \in Listing => \A i \in 1..Len(queue) : queue[i].is = "flags"
    /\ check.step = "close" => \A i \in 1..Len(queue) : queue[i].is \in {"flags", "message"}
    /\ check.step \in Early \cup {"changed", "fetch"} => check.slow = {}
    /\ check.whole => check.step \in Listing \cup {"close"}

(* A body is sent of a message that was not known, and is overtaken only by *)
(* a move that the ledger remembers.                                        *)
BodiesAreNew ==
    /\ \A u \in SentIn(Len(queue)) :
          /\ u \notin check.known /\ server[u].is # "coming"
          /\ u \in left => Outranked(u, "away", check.epoch)
    /\ check.slow \cap check.known = {}
    /\ check.step = "bodies" => check.listed \cap check.known = {}

(* A message the server has is listed, or a move brought its row later.    *)
Accounted(ids, n) ==
    \A u \in Here \ ids :
        u \notin SentIn(n) /\ (u \in cached => Outranked(u, "in", check.epoch))
Gone(ids) == \A u \in ids : server[u].is = "gone"
RemovalsAreSafe ==
    /\ Gone(check.lost)
    /\ check.whole => Accounted(check.live, Len(queue))
    /\ check.whole /\ check.step # "close" => check.listed \subseteq check.live
    /\ \A i \in 1..Len(queue) :
          /\ queue[i].is = "vanished" => Gone(queue[i].ids)
          /\ queue[i].is = "reconcile" => Accounted(queue[i].ids, i)

FolderIInv ==
    /\ WritesAreNumbered /\ UidsNeverReturn /\ ItemsFollowSteps
    /\ BodiesAreNew /\ RemovalsAreSafe

(* A value sent for a message is what the server shows, unless the message *)
(* changed after every state that is saved or about to be.                 *)
UpToDate(u, shows) ==
    \/ shows = server[u].flags
    \/ /\ server[u].mod > saved /\ server[u].mod > check.modseq
       /\ \A i \in 1..Len(queue) :
             queue[i].is = "state" => server[u].mod > queue[i].modseq
ItemsAreFresh ==
    \A i \in 1..Len(queue) :
        /\ queue[i].is = "flags" => \A u \in queue[i].of : UpToDate(u, queue[i].flags[u])
        /\ queue[i].is = "message" => UpToDate(queue[i].uid, queue[i].shows)
SeenIsFresh ==
    /\ check.step \in {"idle", "read", "select", "resync"} => check.listed = {}
    /\ check.step = "search" => \A u \in check.listed : UpToDate(u, check.seen[u])
    /\ \A u \in check.slow \cap Staged : UpToDate(u, check.seen[u])

(* A check has one state, from its SELECT to its last listing.             *)
OneState ==
    /\ saved <= highest /\ check.modseq <= highest
    /\ check.modseq # 0 => check.step \in {"resync", "search", "close"} \cup Listing
    /\ \A i \in 1..Len(queue) : queue[i].is = "state" =>
          /\ check.step \in {"slow", "end"} /\ queue[i].modseq <= highest
          /\ \A j \in 1..Len(queue) : queue[j].is = "state" => j = i
    /\ check.step \in {"select", "resync", "search", "changed"} => check.resume = saved
    /\ check.step \in {"resync", "changed"} => check.plan = "changes"
    /\ check.step \in {"resync", "search", "changed"} =>
          /\ check.plan = "unchanged" => check.modseq = check.resume
          /\ check.plan # "full" => check.resume # 0

(* Every row that the state will vouch for shows the server's flags, is    *)
(* carried by an item ahead of the state, or is still to be listed.        *)
Told(u) ==
    \/ HoldsFolderState(check.epoch)
    \/ flags[u] = server[u].flags
    \/ saved # 0 /\ server[u].mod <= saved
Carries(u, n) == \E i \in 1..n : queue[i].is = "flags" /\ u \in queue[i].of
Awaited(u) ==
    /\ u \in check.known
    /\ \/ check.step = "resync"
       \/ check.step = "search" /\ (check.plan = "changes" /\ Qresync => u \in check.listed)
       \/ check.step = "changed" /\ u \in check.live \cap check.listed
       \/ check.step = "fetch" /\ u \in check.listed
Vouched(m) == {u \in cached \cap Here : m # 0 /\ server[u].mod <= m}
StateIsTold ==
    /\ check.step \in {"select", "resync", "search"} /\ cached \ check.known # {}
          => HoldsFolderState(check.epoch)
    /\ \A u \in Vouched(check.modseq) : Told(u) \/ Carries(u, Len(queue)) \/ Awaited(u)
    /\ \A i \in 1..Len(queue) : queue[i].is = "state" =>
          \A u \in Vouched(queue[i].modseq) : Told(u) \/ Carries(u, i)

StateIInv == ItemsAreFresh /\ SeenIsFresh /\ OneState /\ StateIsTold
=============================================================================
