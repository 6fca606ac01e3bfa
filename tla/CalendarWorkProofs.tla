--------------------------- MODULE CalendarWorkProofs ---------------------------
(* Theorems about CalendarWork for every set of contents and every bound.     *)
EXTENDS CalendarWork, SequenceTheorems, WellFoundedInduction, TLAPS

(* One change of the journal. *)
ChangeType == [origin : Ids, event : Events, deleting : BOOLEAN, status : Statuses,
               receipt : Events, applied : BOOLEAN, checked : BOOLEAN,
               observed : Events, previous : Nat, attempts : Nat, due : BOOLEAN]
WorkerType == [at : {"idle", "picked", "repairing", "claimed", "answered", "recorded", "unrecorded"},
               change : Nat, fresh : BOOLEAN,
               answer : {"none", "ok", "rejected", "offline", "authentication", "uncertain"},
               event : Events]
ReviewType == [at : {"none", "begun", "reading"}, change : Nat, fresh : BOOLEAN, event : Events]

(* The state with its journal as a sequence, which every step extends or      *)
(* keeps in length.                                                           *)
JournalTyped ==
    /\ journal \in Seq(ChangeType) /\ effects \in Seq(Nat) /\ Len(effects) = Len(journal)
    /\ \A c \in 1 .. Len(journal) : journal[c].previous \in 0 .. c - 1
    /\ collided \subseteq 1 .. Len(journal)
ReviewTyped ==
    /\ review \in ReviewType /\ review.change \in 0 .. Len(journal)
    /\ review.at # "none" => review.change # 0
WorkerTyped ==
    /\ worker \in WorkerType /\ worker.change \in 0 .. Len(journal)
    /\ worker.at # "idle" => worker.change # 0
    /\ worker.at = "answered" => worker.answer # "none"
EventsTyped ==
    /\ form \in Events /\ remote \in Events /\ eventRows \in SUBSET Events
    /\ service \in {"caldav", "google"} /\ latest \in Nat /\ unread \in BOOLEAN
Typed == JournalTyped /\ ReviewTyped /\ WorkerTyped /\ EventsTyped

----------------------------------------------------------------------------
(* Sequences that are written as functions. *)

LEMMA AsSequence ==
    ASSUME NEW S, NEW n \in Nat, NEW f \in [1 .. n -> S]
    PROVE  f \in Seq(S) /\ Len(f) = n /\ DOMAIN f = 1 .. n
  OBVIOUS

(* What a step may do to the journal: it keeps the changes and their order. *)
Kept(after) ==
    /\ after \in Seq(ChangeType) /\ Len(after) = Len(journal)
    /\ \A c \in 1 .. Len(journal) : after[c].previous = journal[c].previous

LEMMA KeptExcept ==
    ASSUME journal \in Seq(ChangeType), NEW c \in 1 .. Len(journal), NEW change \in ChangeType,
           change.previous = journal[c].previous
    PROVE  /\ Kept([journal EXCEPT ![c] = change])
           /\ \A k \in 1 .. Len(journal) :
                 [journal EXCEPT ![c] = change][k] = IF k = c THEN change ELSE journal[k]
  <1>1. /\ [journal EXCEPT ![c] = change] \in Seq(ChangeType)
        /\ Len([journal EXCEPT ![c] = change]) = Len(journal)
        /\ \A k \in 1 .. Len(journal) :
              [journal EXCEPT ![c] = change][k] = IF k = c THEN change ELSE journal[k]
    BY ExceptSeq
  <1>2. QED BY <1>1 DEF Kept

LEMMA NamingType ==
    ASSUME NEW e \in Events, NEW r \in Events
    PROVE  Naming(e, r) \in Events
  BY DEF Naming, Events

LEMMA KeptRebound ==
    ASSUME journal \in Seq(ChangeType), NEW after, Kept(after), NEW c \in 1 .. Len(journal)
    PROVE  Kept(Rebound(after, c)) /\ \A k \in 1 .. Len(journal) : Rebound(after, c)[k].status = after[k].status
  <1> DEFINE f == Rebound(after, c)
  <1>1. Changes = 1 .. Len(journal) /\ Len(journal) \in Nat
    BY DEF Changes
  <1>2. ASSUME NEW k \in 1 .. Len(journal)
        PROVE  f[k] \in ChangeType /\ f[k].previous = journal[k].previous /\ f[k].status = after[k].status
    <2>1. after[k] \in ChangeType /\ after[c] \in ChangeType /\ after[k].previous = journal[k].previous
      BY <1>2, ElementOfSeq DEF Kept
    <2>2. Naming(after[k].event, after[c].receipt) \in Events
      BY <2>1, NamingType DEF ChangeType
    <2>3. QED BY <1>1, <2>1, <2>2 DEF Rebound, ChangeType
  <1>3. f \in [1 .. Len(journal) -> ChangeType]
    BY <1>1, <1>2 DEF Rebound
  <1>4. f \in Seq(ChangeType) /\ Len(f) = Len(journal)
    BY <1>1, <1>3, AsSequence
  <1>5. QED BY <1>2, <1>4 DEF Kept

(* The latest of some changes. *)
LEMMA Latest ==
    ASSUME NEW n \in Nat, NEW T, T \subseteq 1 .. n, T # {}
    PROVE  \E c \in T : \A k \in T : k <= c
  <1> DEFINE D == {n - c : c \in T}
  <1>1. D \subseteq Nat /\ D # {}
    <2>1. ASSUME NEW c \in T PROVE n - c \in Nat
      <3>1. c \in 1 .. n
        BY <2>1
      <3>2. QED BY <3>1
    <2>2. PICK c \in T : TRUE
      OBVIOUS
    <2>3. n - c \in D
      OBVIOUS
    <2>4. QED BY <2>1, <2>3
  <1> DEFINE R == OpToRel(<, Nat)
  <1>2. IsWellFoundedOn(R, Nat)
    BY NatLessThanWellFounded
  <1>3. PICK x \in D : \A y \in D : ~ (<<y, x>> \in R)
    <2> HIDE DEF R, D
    <2> QED BY <1>1, <1>2, WFMin
  <1> HIDE DEF R
  <1>4. ASSUME NEW y \in D PROVE ~ (y < x)
    <2>1. x \in Nat /\ y \in Nat /\ <<y, x>> \notin R
      BY <1>1, <1>3, <1>4
    <2>2. y < x => <<y, x>> \in R
      BY <2>1, Zenon DEF R, OpToRel
    <2>3. QED BY <2>1, <2>2
  <1>5. PICK c \in T : x = n - c
    OBVIOUS
  <1>6. ASSUME NEW k \in T PROVE k <= c
    <2>1. n - k \in D
      OBVIOUS
    <2>2. ~ (n - k < x)
      BY <2>1, <1>4
    <2>3. QED BY <2>2, <1>5
  <1>7. QED BY <1>6

LEMMA PreviousType ==
    ASSUME Typed, NEW e
    PROVE  Previous(e) \in 0 .. Len(journal)
  <1>1. Len(journal) \in Nat /\ Changes = 1 .. Len(journal)
    BY DEF Typed, JournalTyped, Changes
  <1>2. Matches(e) \subseteq 1 .. Len(journal)
    BY <1>1 DEF Matches
  <1>3. CASE Matches(e) = {}
    BY <1>1, <1>3 DEF Previous
  <1>4. CASE Matches(e) # {}
    <2>1. \E c \in Matches(e) : \A k \in Matches(e) : k <= c
      BY <1>1, <1>2, <1>4, Latest
    <2>2. Previous(e) \in Matches(e)
      BY <1>4, <2>1 DEF Previous
    <2>3. QED BY <1>1, <1>2, <2>2
  <1>5. QED BY <1>3, <1>4

LEMMA KeptGiven ==
    ASSUME Typed, NEW b
    PROVE  /\ Kept(GivenWay(b))
           /\ \A k \in 1 .. Len(journal) :
                 \/ GivenWay(b)[k].status = journal[k].status
                 \/ GivenWay(b)[k].status = "cancelled"
  <1> DEFINE f == GivenWay(b)
  <1>1. Changes = 1 .. Len(journal) /\ Len(journal) \in Nat
    BY DEF Changes, Typed, JournalTyped
  <1>2. ASSUME NEW k \in 1 .. Len(journal)
        PROVE  /\ f[k] \in ChangeType /\ f[k].previous = journal[k].previous
               /\ f[k].status \in {journal[k].status, "cancelled"}
    <2>1. journal[k] \in ChangeType
      BY <1>2, ElementOfSeq DEF Typed, JournalTyped
    <2>2. QED BY <1>1, <2>1 DEF GivenWay, ChangeType, Statuses
  <1>3. f \in [1 .. Len(journal) -> ChangeType]
    BY <1>1, <1>2 DEF GivenWay
  <1>4. f \in Seq(ChangeType) /\ Len(f) = Len(journal)
    BY <1>1, <1>3, AsSequence
  <1>5. QED BY <1>2, <1>4 DEF Kept

LEMMA KeptRecovered ==
    ASSUME Typed
    PROVE  /\ Kept([c \in Changes |-> Recovered(journal[c])])
           /\ \A k \in 1 .. Len(journal) :
                 [c \in Changes |-> Recovered(journal[c])][k].status \in {journal[k].status, "uncertain"}
  <1> DEFINE f == [c \in Changes |-> Recovered(journal[c])]
  <1>1. Changes = 1 .. Len(journal) /\ Len(journal) \in Nat
    BY DEF Changes, Typed, JournalTyped
  <1>2. ASSUME NEW k \in 1 .. Len(journal)
        PROVE  /\ f[k] \in ChangeType /\ f[k].previous = journal[k].previous
               /\ f[k].status \in {journal[k].status, "uncertain"}
    <2>1. journal[k] \in ChangeType
      BY <1>2, ElementOfSeq DEF Typed, JournalTyped
    <2>2. QED BY <1>1, <2>1 DEF Recovered, ChangeType, Statuses
  <1>3. f \in [1 .. Len(journal) -> ChangeType]
    BY <1>1, <1>2
  <1>4. f \in Seq(ChangeType) /\ Len(f) = Len(journal)
    BY <1>1, <1>3, AsSequence
  <1>5. QED BY <1>2, <1>4 DEF Kept

LEMMA StaleWorker ==
    ASSUME worker \in WorkerType, NEW S
    PROVE  /\ Stale(worker, S) \in WorkerType
           /\ Stale(worker, S).at = worker.at /\ Stale(worker, S).change = worker.change
           /\ Stale(worker, S).answer = worker.answer
  BY DEF Stale, WorkerType
LEMMA StaleReview ==
    ASSUME review \in ReviewType, NEW S
    PROVE  /\ Stale(review, S) \in ReviewType
           /\ Stale(review, S).at = review.at /\ Stale(review, S).change = review.change
  BY DEF Stale, ReviewType

LEMMA WrittenTypes ==
    ASSUME Typed, NEW after, Kept(after), Write(after), UNCHANGED <<effects, collided>>
    PROVE  JournalTyped' /\ ReviewTyped' /\ Len(journal') = Len(journal) /\ journal' = after
  <1>1. journal' = after /\ review' = Stale(review, Written(after))
    BY DEF Write
  <1>2. JournalTyped' /\ Len(journal') = Len(journal)
    BY <1>1 DEF Typed, JournalTyped, Kept
  <1>3. /\ review' \in ReviewType
        /\ review'.at = review.at /\ review'.change = review.change
    BY <1>1, StaleReview DEF Typed, ReviewTyped
  <1>4. ReviewTyped'
    BY <1>2, <1>3 DEF Typed, ReviewTyped
  <1>5. QED BY <1>1, <1>2, <1>4

LEMMA ChangesAre ==
    ASSUME Typed
    PROVE  /\ Changes = 1 .. Len(journal) /\ Len(journal) \in Nat
           /\ \A c \in Changes : journal[c] \in ChangeType /\ c \in 1 .. Len(journal)
           /\ 0 \notin Changes
  BY ElementOfSeq DEF Typed, JournalTyped, Changes

(* The change that applying, or a check that saves, writes back. *)
LEMMA AppliedType ==
    ASSUME NEW change \in ChangeType
    PROVE  /\ Applied(change) \in ChangeType /\ Applied(change).previous = change.previous
           /\ Applied(change).status \in {"repair", "succeeded"}
  <1> DEFINE status == IF NeedsCheck(change) THEN "repair" ELSE "succeeded"
  <1>1. status \in {"repair", "succeeded"}
    OBVIOUS
  <1> HIDE DEF status
  <1>2. status \in Statuses
    BY <1>1 DEF Statuses
  <1> DEFINE r == [change EXCEPT !.applied = TRUE, !.status = status]
  <1>3. r \in ChangeType
    BY <1>2 DEF ChangeType
  <1>4. r.previous = change.previous /\ r.status = status
    BY DEF ChangeType
  <1>5. Applied(change) = r
    BY DEF Applied, status
  <1>6. QED BY <1>1, <1>3, <1>4, <1>5

LEMMA CheckedType ==
    ASSUME NEW change \in ChangeType, NEW event \in Events
    PROVE  /\ [change EXCEPT !.checked = TRUE, !.observed = event] \in ChangeType
           /\ [change EXCEPT !.checked = TRUE, !.observed = event].previous = change.previous
  BY DEF ChangeType

LEMMA VisibleType == Typed => Visible \subseteq Events
  <1> SUFFICES ASSUME Typed PROVE Visible \subseteq Events
    OBVIOUS
  <1>1. New \in Events
    BY DEF New, Events, Ids, Texts
  <1>2. ASSUME NEW c \in Changes PROVE Shown(c) \in Events
    BY <1>2, ChangesAre DEF Shown, ChangeType
  <1>3. eventRows \subseteq Events
    BY DEF Typed, EventsTyped
  <1>4. QED BY <1>1, <1>2, <1>3 DEF Visible

LEMMA CachedType ==
    ASSUME Typed, NEW e \in Events, NEW now \in Events
    PROVE  Cached(e, now) \in SUBSET Events
  BY DEF Typed, EventsTyped, Cached

LEMMA NothingType == Nothing \in Events
  BY DEF Nothing, Events, Ids, Texts

LEMMA OnServerType ==
    ASSUME NEW v \in Nat, NEW t \in Texts
    PROVE  OnServer(v, t) \in Events
  BY DEF OnServer, ServerId, Events, Ids

----------------------------------------------------------------------------
(* Every step keeps the types: the steps of the user. *)

LEMMA FormTypes ==
    ASSUME Typed, OpenForm \/ CloseForm
    PROVE  Typed'
  <1>1. CASE OpenForm
    <2>1. form' \in Events
      BY <1>1, VisibleType DEF OpenForm
    <2>2. QED BY <1>1, <2>1
      DEF OpenForm, Server, calendarCounts, Typed, JournalTyped, ReviewTyped, WorkerTyped, EventsTyped
  <1>2. CASE CloseForm
    BY <1>2, NothingType
    DEF CloseForm, Server, calendarCounts, Typed, JournalTyped, ReviewTyped, WorkerTyped, EventsTyped
  <1>3. QED BY <1>1, <1>2

LEMMA AdmitTypes == ASSUME Typed, Admit PROVE Typed'
  <1>1. PICK text \in Contents, deletes \in BOOLEAN :
            LET event == [form EXCEPT !.content = IF deletes THEN @ ELSE text]
                before == Previous(event) IN
            /\ journal' = Append(GivenWay(before), Change(event, deletes, before))
            /\ review' = Stale(review, Written(GivenWay(before)))
    BY DEF Admit
  <1> DEFINE event == [form EXCEPT !.content = IF deletes THEN @ ELSE text]
             before == Previous(event)
             given == GivenWay(before)
             new == Change(event, deletes, before)
  <1>2. form \in Events
    BY DEF Typed, EventsTyped
  <1>3. event \in Events /\ event.id \in Ids
    BY <1>2 DEF Events, Texts
  <1>4. before \in 0 .. Len(journal) /\ Len(journal) \in Nat
    BY PreviousType, ChangesAre
  <1>5. Kept(given)
    BY KeptGiven
  <1> HIDE DEF event, before, given
  <1>6. new \in ChangeType /\ new.previous = before
    BY <1>3, <1>4, NothingType DEF Change, ChangeType, Statuses
  <1>7. journal' = Append(given, new) /\ review' = Stale(review, Written(given))
    BY <1>1 DEF event, before, given
  <1> HIDE DEF new
  <1>8. /\ journal' \in Seq(ChangeType) /\ Len(journal') = Len(journal) + 1
        /\ \A c \in 1 .. Len(journal) : journal'[c] = given[c]
        /\ journal'[Len(journal) + 1] = new
    BY <1>4, <1>5, <1>6, <1>7, AppendProperties DEF Kept
  <1>9. \A c \in 1 .. Len(journal') : journal'[c].previous \in 0 .. c - 1
    <2> SUFFICES ASSUME NEW c \in 1 .. Len(journal') PROVE journal'[c].previous \in 0 .. c - 1
      OBVIOUS
    <2>1. CASE c = Len(journal) + 1
      BY <1>4, <1>6, <1>8, <2>1
    <2>2. CASE c # Len(journal) + 1
      <3>1. c \in 1 .. Len(journal)
        BY <1>4, <1>8, <2>2
      <3>2. journal'[c].previous = journal[c].previous
        BY <1>5, <1>8, <3>1 DEF Kept
      <3>3. QED BY <3>1, <3>2 DEF Typed, JournalTyped
    <2>3. QED BY <2>1, <2>2
  <1>10. effects' \in Seq(Nat) /\ Len(effects') = Len(journal')
    <2>1. effects \in Seq(Nat) /\ Len(effects) = Len(journal) /\ effects' = Append(effects, 0)
      BY DEF Admit, Typed, JournalTyped
    <2>2. effects' \in Seq(Nat) /\ Len(effects') = Len(effects) + 1
      BY <2>1, AppendProperties
    <2>3. QED BY <1>4, <1>8, <2>1, <2>2
  <1>11. JournalTyped'
    <2>1. collided' = collided /\ collided \subseteq 1 .. Len(journal)
      BY DEF Admit, Typed, JournalTyped
    <2>2. collided' \subseteq 1 .. Len(journal')
      BY <1>4, <1>8, <2>1
    <2>3. QED BY <1>8, <1>9, <1>10, <2>2 DEF JournalTyped
  <1>12. /\ review' \in ReviewType
         /\ review'.at = review.at /\ review'.change = review.change
    BY <1>7, StaleReview DEF Typed, ReviewTyped
  <1>13. ReviewTyped' /\ WorkerTyped'
    <2>1. worker' = worker
      BY DEF Admit
    <2>2. QED BY <1>4, <1>8, <1>12, <2>1 DEF Typed, ReviewTyped, WorkerTyped
  <1>14. EventsTyped'
    <2>1. form' = Nothing /\ UNCHANGED <<service, remote, latest, eventRows, unread>>
      BY DEF Admit
    <2>2. QED BY <2>1, NothingType DEF Typed, EventsTyped
  <1>15. QED BY <1>11, <1>13, <1>14 DEF Typed

LEMMA RetryTypes == ASSUME Typed, NEW c \in Changes, RetryChange(c) PROVE Typed'
  <1> DEFINE change == [journal[c] EXCEPT !.status = "queued", !.attempts = 0, !.due = FALSE]
             after == [journal EXCEPT ![c] = change]
  <1>1. change \in ChangeType /\ change.previous = journal[c].previous
    BY ChangesAre DEF ChangeType, Statuses
  <1>2. Kept(after)
    BY <1>1, ChangesAre, KeptExcept DEF Typed, JournalTyped
  <1>3. Write(after) /\ worker' = Stale(worker, {c}) /\ UNCHANGED <<User, Server, eventRows, unread>>
    BY ChangesAre DEF RetryChange
  <1> HIDE DEF after
  <1>4. JournalTyped' /\ ReviewTyped' /\ Len(journal') = Len(journal)
    BY <1>2, <1>3, WrittenTypes DEF Server
  <1>5. WorkerTyped'
    BY <1>3, <1>4, StaleWorker DEF Typed, WorkerTyped
  <1>6. QED BY <1>3, <1>4, <1>5 DEF Typed, EventsTyped, User, Server

LEMMA ResolveTypes == ASSUME Typed, NEW c \in Changes, ResolveChange(c) PROVE Typed'
  <1> DEFINE first == [journal EXCEPT ![c] = Resolved(journal[c])]
             after == Rebound(first, c)
  <1>1. Resolved(journal[c]) \in ChangeType /\ Resolved(journal[c]).previous = journal[c].previous
    BY ChangesAre DEF Resolved, ChangeType, Statuses
  <1>2. Kept(first)
    BY <1>1, ChangesAre, KeptExcept DEF Typed, JournalTyped
  <1>3. Write(after) /\ worker' = Stale(worker, Written(after)) /\ UNCHANGED <<User, Server, eventRows, unread>>
    BY ChangesAre DEF ResolveChange
  <1> HIDE DEF first
  <1>4. Kept(after)
    BY <1>2, ChangesAre, KeptRebound DEF Typed, JournalTyped
  <1> HIDE DEF after
  <1>5. JournalTyped' /\ ReviewTyped' /\ Len(journal') = Len(journal)
    BY <1>3, <1>4, WrittenTypes DEF Server
  <1>6. WorkerTyped'
    BY <1>3, <1>5, StaleWorker DEF Typed, WorkerTyped
  <1>7. QED BY <1>3, <1>5, <1>6 DEF Typed, EventsTyped, User, Server

----------------------------------------------------------------------------
(* The steps of the action owner. *)

LEMMA NoWorkTyped ==
    /\ NoWork \in WorkerType /\ NoWork.at = "idle" /\ NoWork.change = 0
    /\ NoReview \in ReviewType /\ NoReview.at = "none" /\ NoReview.change = 0
  BY NothingType DEF NoWork, NoReview, WorkerType, ReviewType

(* A step that writes one change, and what it says of the worker. *)
LEMMA OneChange ==
    ASSUME Typed, NEW c \in Changes, NEW change \in ChangeType, change.previous = journal[c].previous,
           Write([journal EXCEPT ![c] = change]), UNCHANGED <<effects, collided>>
    PROVE  JournalTyped' /\ ReviewTyped' /\ Len(journal') = Len(journal)
  BY ChangesAre, KeptExcept, WrittenTypes DEF Typed, JournalTyped

LEMMA PickTypes == ASSUME Typed, NEW c \in Changes, Pick(c) PROVE Typed'
  <1>1. PICK at \in {"repairing", "picked"} :
            worker' = [at |-> at, change |-> c, fresh |-> TRUE, answer |-> "none", event |-> Nothing]
    BY DEF Pick, NoWork
  <1>2. c \in 1 .. Len(journal) /\ Len(journal) \in Nat
    BY ChangesAre
  <1>3. worker' \in WorkerType /\ worker'.change = c /\ worker'.at = at
    BY <1>1, <1>2, NothingType DEF WorkerType
  <1>4. QED BY <1>2, <1>3
    DEF Pick, User, Server, Typed, JournalTyped, ReviewTyped, WorkerTyped, EventsTyped

LEMMA InheritedType == ASSUME Typed, NEW c \in Changes PROVE Inherited(journal[c]) \in Events
  <1>1. journal[c] \in ChangeType /\ c \in 1 .. Len(journal)
    BY ChangesAre
  <1>2. journal[c].previous \in 0 .. c - 1
    BY <1>1 DEF Typed, JournalTyped
  <1>3. CASE journal[c].previous = 0
    BY <1>1, <1>3 DEF Inherited, ChangeType
  <1>4. CASE journal[c].previous # 0
    <2>1. journal[journal[c].previous] \in ChangeType
      BY <1>1, <1>2, <1>4, ChangesAre
    <2>2. Result(journal[journal[c].previous]) \in Events
      BY <2>1, NothingType DEF Result, ChangeType
    <2>3. journal[c].event \in Events
      BY <1>1 DEF ChangeType
    <2>4. QED BY <2>2, <2>3, NamingType DEF Inherited
  <1>5. QED BY <1>3, <1>4

LEMMA ClaimedType ==
    ASSUME NEW change \in ChangeType, NEW e \in Events
    PROVE  LET claimed == [change EXCEPT !.status = "running", !.event = e,
                                         !.attempts = @ + 1, !.due = FALSE] IN
           claimed \in ChangeType /\ claimed.previous = change.previous
  <1> DEFINE n == change.attempts + 1
  <1>1. n \in Nat
    BY DEF ChangeType
  <1>2. "running" \in Statuses
    BY DEF Statuses
  <1> HIDE DEF n
  <1>3. LET claimed == [change EXCEPT !.status = "running", !.event = e, !.attempts = n, !.due = FALSE] IN
        claimed \in ChangeType /\ claimed.previous = change.previous
    BY <1>1, <1>2 DEF ChangeType
  <1>4. QED BY <1>3 DEF n

LEMMA ClaimTypes == ASSUME Typed, Claim \/ ClaimFails PROVE Typed'
  <1> DEFINE c == worker.change
  <1>1. worker.at = "picked" /\ c \in Changes
    BY ChangesAre DEF Claim, ClaimFails, Typed, WorkerTyped
  <1>2. journal[c] \in ChangeType
    BY <1>1, ChangesAre
  <1>3. CASE Claim
    <2> DEFINE inherited == Inherited(journal[c])
               change == [journal[c] EXCEPT !.status = "running", !.event = inherited,
                                            !.attempts = @ + 1, !.due = FALSE]
    <2>0. inherited \in Events
      BY <1>1, InheritedType
    <2> HIDE DEF inherited
    <2>1. change \in ChangeType /\ change.previous = journal[c].previous
      BY <1>2, <2>0, ClaimedType
    <2>2. Write([journal EXCEPT ![c] = change]) /\ UNCHANGED <<User, Server, eventRows, unread>>
      BY <1>3 DEF Claim, inherited
    <2>3. JournalTyped' /\ ReviewTyped' /\ Len(journal') = Len(journal)
      <3> HIDE DEF change
      <3>1. UNCHANGED <<effects, collided>>
        BY <2>2 DEF Server
      <3>2. QED BY <1>1, <2>1, <2>2, <3>1, OneChange
    <2>4. worker' = [worker EXCEPT !.at = "claimed", !.fresh = TRUE]
      BY <1>3 DEF Claim
    <2>5. WorkerTyped'
      BY <1>1, <2>3, <2>4 DEF Typed, WorkerTyped, WorkerType
    <2>6. QED BY <2>2, <2>3, <2>5 DEF Typed, EventsTyped, User, Server
  <1>4. CASE ClaimFails
    <2> DEFINE change == [journal[c] EXCEPT !.status = "rejected"]
    <2>1. change \in ChangeType /\ change.previous = journal[c].previous
      BY <1>2 DEF ChangeType, Statuses
    <2>2. \/ Write([journal EXCEPT ![c] = change])
          \/ UNCHANGED <<journal, review>>
      BY <1>4 DEF ClaimFails
    <2>3. UNCHANGED <<User, Server, eventRows, unread>> /\ worker' = NoWork
      BY <1>4 DEF ClaimFails
    <2>4. JournalTyped' /\ ReviewTyped' /\ Len(journal') = Len(journal)
      <3>1. CASE Write([journal EXCEPT ![c] = change])
        BY <1>1, <2>1, <2>3, <3>1, OneChange DEF Server
      <3>2. CASE UNCHANGED <<journal, review>>
        BY <2>3, <3>2 DEF Server, Typed, JournalTyped, ReviewTyped
      <3>3. QED BY <2>2, <3>1, <3>2
    <2>5. WorkerTyped'
      BY <2>3, <2>4, NoWorkTyped, ChangesAre DEF WorkerTyped
    <2>6. QED BY <2>3, <2>4, <2>5 DEF Typed, EventsTyped, User, Server
  <1>5. QED BY <1>3, <1>4

Asking == Accepted \/ LostAfter \/ Needless \/ Refused \/ NotSent

LEMMA AskingTypes == ASSUME Typed, Asking PROVE Typed'
  <1> DEFINE c == worker.change
  <1>1. worker.at = "claimed" /\ c \in Changes /\ c \in 1 .. Len(journal)
    BY ChangesAre DEF Asking, Accepted, LostAfter, Needless, Refused, NotSent, Typed, WorkerTyped
  <1>2. Event \in Events /\ Event.content \in Texts
    BY <1>1, ChangesAre DEF Event, ChangeType, Events
  <1>3. latest \in Nat /\ remote \in Events
    BY DEF Typed, EventsTyped
  <1>4. /\ OnServer(latest + 1, Event.content) \in Events
        /\ \A v \in {0, latest + 1} : Receipt(v) \in Events
    BY <1>2, <1>3, OnServerType DEF Receipt
  <1>5. /\ UNCHANGED <<User, journal, review, eventRows, unread>>
        /\ \E kind \in {"ok", "rejected", "offline", "authentication", "uncertain"}, e \in Events :
              CalendarAnswers(kind, e)
    BY <1>2, <1>3, <1>4, NothingType
    DEF Asking, Accepted, LostAfter, Needless, Refused, NotSent
  <1>6. /\ remote' \in Events /\ latest' \in Nat
        /\ effects' \in Seq(Nat) /\ Len(effects') = Len(effects)
        /\ collided' \subseteq 1 .. Len(journal)
    <2>1. CASE Accepted \/ LostAfter
      <3>1. Takes
        BY <2>1 DEF Accepted, LostAfter
      <3>2. effects \in Seq(Nat) /\ c \in 1 .. Len(effects) /\ effects[c] + 1 \in Nat
        BY <1>1, ElementOfSeq DEF Typed, JournalTyped
      <3>3. effects' = [effects EXCEPT ![c] = effects[c] + 1]
        BY <3>1 DEF Takes
      <3>4. effects' \in Seq(Nat) /\ Len(effects') = Len(effects)
        BY <3>2, <3>3, ExceptSeq
      <3>5. QED BY <1>3, <1>4, <3>1, <3>4, NothingType DEF Takes, Typed, JournalTyped
    <2>2. CASE Needless \/ NotSent
      BY <1>3, <2>2 DEF Needless, NotSent, Server, Typed, JournalTyped
    <2>3. CASE Refused
      BY <1>1, <1>3, <2>3 DEF Refused, Typed, JournalTyped
    <2>4. QED BY <2>1, <2>2, <2>3 DEF Asking
  <1>7. WorkerTyped'
    BY <1>1, <1>5 DEF CalendarAnswers, Typed, WorkerTyped, WorkerType
  <1>8. JournalTyped' /\ ReviewTyped'
    BY <1>5, <1>6 DEF Typed, JournalTyped, ReviewTyped
  <1>9. QED BY <1>5, <1>6, <1>7, <1>8 DEF Typed, EventsTyped, User

LEMMA RecordedType ==
    ASSUME Typed, NEW change \in ChangeType, worker.at = "answered"
    PROVE  Recorded(change) \in ChangeType /\ Recorded(change).previous = change.previous
  <1>1. /\ worker.answer \in {"ok", "rejected", "offline", "authentication", "uncertain"}
        /\ worker.event \in Events
    BY DEF Typed, WorkerTyped, WorkerType
  <1>2. Postponed(change) \in ChangeType /\ Postponed(change).previous = change.previous
    BY DEF Postponed, ChangeType, Statuses
  <1>3. CASE worker.answer = "ok"
    BY <1>1, <1>3 DEF Recorded, ChangeType, Statuses
  <1>4. CASE worker.answer \in {"offline", "authentication"}
    BY <1>2, <1>4 DEF Recorded
  <1>5. CASE worker.answer \in {"rejected", "uncertain"}
    BY <1>5 DEF Recorded, ChangeType, Statuses
  <1>6. QED BY <1>1, <1>3, <1>4, <1>5

LEMMA RecordTypes == ASSUME Typed, Record \/ RecordFails \/ MarkUncertain PROVE Typed'
  <1> DEFINE c == worker.change
  <1>1. worker.at \in {"answered", "unrecorded"} /\ c \in Changes
    BY ChangesAre DEF Record, RecordFails, MarkUncertain, Typed, WorkerTyped
  <1>2. journal[c] \in ChangeType
    BY <1>1, ChangesAre
  <1>3. UNCHANGED <<User, Server, eventRows, unread>>
    BY DEF Record, RecordFails, MarkUncertain
  <1>4. /\ JournalTyped' /\ ReviewTyped' /\ Len(journal') = Len(journal)
    <2>1. CASE Record
      <3>1. Write([journal EXCEPT ![c] = Recorded(journal[c])]) /\ worker.at = "answered"
        BY <2>1 DEF Record
      <3>2. QED BY <1>1, <1>2, <1>3, <3>1, RecordedType, OneChange DEF Server
    <2>2. CASE RecordFails
      BY <1>3, <2>2 DEF RecordFails, Server, Typed, JournalTyped, ReviewTyped
    <2>3. CASE MarkUncertain
      <3>1. CASE Write([journal EXCEPT ![c] = Unrecorded(journal[c])])
        <4>1. Unrecorded(journal[c]) \in ChangeType /\ Unrecorded(journal[c]).previous = journal[c].previous
          BY <1>2 DEF Unrecorded, ChangeType, Statuses
        <4>2. QED BY <1>1, <1>3, <3>1, <4>1, OneChange DEF Server
      <3>2. CASE UNCHANGED <<journal, review>>
        BY <1>3, <3>2 DEF Server, Typed, JournalTyped, ReviewTyped
      <3>3. QED BY <2>3, <3>1, <3>2 DEF MarkUncertain
    <2>4. QED BY <2>1, <2>2, <2>3
  <1>5. worker' \in {NoWork, [worker EXCEPT !.at = "recorded"], [worker EXCEPT !.at = "unrecorded"]}
    BY DEF Record, RecordFails, MarkUncertain
  <1>6. WorkerTyped'
    BY <1>1, <1>4, <1>5, NoWorkTyped, ChangesAre DEF Typed, WorkerTyped, WorkerType
  <1>7. QED BY <1>3, <1>4, <1>6 DEF Typed, EventsTyped, User, Server

LEMMA ApplyTypes == ASSUME Typed, Apply \/ ApplyFails PROVE Typed'
  <1> DEFINE c == worker.change
             first == [journal EXCEPT ![c] = Applied(journal[c])]
             after == Rebound(first, c)
  <1>1. worker.at # "idle" /\ c \in Changes /\ c \in 1 .. Len(journal)
    BY ChangesAre DEF Apply, ApplyFails, Typed, WorkerTyped
  <1>2. journal[c] \in ChangeType
    BY <1>1, ChangesAre
  <1>3. worker' = NoWork /\ UNCHANGED <<User, Server, unread>>
    BY DEF Apply, ApplyFails
  <1>4. \/ /\ Write(after)
           /\ eventRows' = Cached(journal[c].event, IF journal[c].deleting THEN Nothing ELSE journal[c].receipt)
        \/ UNCHANGED <<eventRows, journal, review>>
    BY DEF Apply, ApplyFails
  <1>5. Kept(after)
    <2>1. Applied(journal[c]) \in ChangeType /\ Applied(journal[c]).previous = journal[c].previous
      BY <1>2, AppliedType
    <2>2. Kept(first)
      BY <1>1, <2>1, KeptExcept DEF Typed, JournalTyped
    <2> HIDE DEF first
    <2>3. QED BY <1>1, <2>2, KeptRebound DEF Typed, JournalTyped
  <1>6. Cached(journal[c].event, IF journal[c].deleting THEN Nothing ELSE journal[c].receipt) \in SUBSET Events
    BY <1>2, CachedType, NothingType DEF ChangeType
  <1> HIDE DEF after
  <1>7. JournalTyped' /\ ReviewTyped' /\ Len(journal') = Len(journal) /\ eventRows' \in SUBSET Events
    <2>1. CASE Write(after)
      <3>1. JournalTyped' /\ ReviewTyped' /\ Len(journal') = Len(journal)
        BY <1>3, <1>5, <2>1, WrittenTypes DEF Server
      <3>2. QED BY <1>4, <1>6, <3>1 DEF Typed, EventsTyped
    <2>2. CASE UNCHANGED <<eventRows, journal, review>>
      BY <1>3, <2>2 DEF Server, Typed, JournalTyped, ReviewTyped, EventsTyped
    <2>3. QED BY <1>4, <2>1, <2>2
  <1>8. WorkerTyped'
    BY <1>3, <1>7, NoWorkTyped, ChangesAre DEF WorkerTyped
  <1>9. QED BY <1>3, <1>7, <1>8 DEF Typed, EventsTyped, User, Server

----------------------------------------------------------------------------
(* The check of a change, the refresh, the other client, the restart. *)

LEMMA CheckTypes ==
    ASSUME Typed, CheckStep \/ (\E c \in Changes : CheckBegins(c))
    PROVE  Typed'
  <1>1. UNCHANGED <<User, Server, unread>>
    BY DEF CheckStep, CheckBegins, CheckReads, CheckSaves, CheckFails
  <1>2. CASE \E c \in Changes : CheckBegins(c)
    <2>1. PICK c \in Changes : CheckBegins(c)
      BY <1>2
    <2>2. review' = [at |-> "begun", change |-> c, fresh |-> TRUE, event |-> Nothing]
      BY <2>1 DEF CheckBegins, NoReview
    <2>3. c \in 1 .. Len(journal) /\ Len(journal) \in Nat
      BY ChangesAre
    <2>4. review' \in ReviewType /\ review'.change = c
      BY <2>2, <2>3, NothingType DEF ReviewType
    <2>5. ReviewTyped'
      <3>1. UNCHANGED journal
        BY <2>1 DEF CheckBegins
      <3>2. c # 0 /\ c \in 0 .. Len(journal)
        BY <2>3
      <3>3. QED BY <2>4, <3>1, <3>2 DEF ReviewTyped
    <2>6. UNCHANGED <<form, service, journal, worker, Server, eventRows, unread>>
      BY <2>1 DEF CheckBegins, User
    <2>7. QED BY <2>5, <2>6 DEF Server, Typed, JournalTyped, WorkerTyped, EventsTyped
  <1>3. CASE CheckReads
    <2>1. ReviewTyped'
      BY <1>3 DEF CheckReads, Typed, ReviewTyped, EventsTyped, ReviewType
    <2>2. QED BY <1>1, <1>3, <2>1 DEF CheckReads, User, Server, Typed, JournalTyped, WorkerTyped, EventsTyped
  <1>4. CASE CheckSaves
    <2> DEFINE c == review.change
               change == [journal[c] EXCEPT !.checked = TRUE, !.observed = review.event]
    <2>1. c \in Changes /\ c \in 1 .. Len(journal) /\ review.event \in Events
      BY <1>4, ChangesAre DEF CheckSaves, Typed, ReviewTyped, ReviewType
    <2>2. journal[c] \in ChangeType
      BY <2>1, ChangesAre
    <2>3. change \in ChangeType /\ change.previous = journal[c].previous
      BY <2>1, <2>2, CheckedType
    <2>4. Kept([journal EXCEPT ![c] = change])
      BY <2>1, <2>3, KeptExcept DEF Typed, JournalTyped
    <2>5. Cached(journal[c].event, review.event) \in SUBSET Events
      BY <2>1, <2>2, CachedType DEF ChangeType
    <2>6. \/ /\ journal' = [journal EXCEPT ![c] = change]
             /\ eventRows' = Cached(journal[c].event, review.event)
             /\ worker' = Stale(worker, {c})
          \/ UNCHANGED <<eventRows, journal, worker>>
      BY <1>4 DEF CheckSaves
    <2> HIDE DEF change
    <2>7. /\ JournalTyped' /\ Len(journal') = Len(journal) /\ eventRows' \in SUBSET Events
          /\ WorkerTyped'
      <3>1. CASE journal' = [journal EXCEPT ![c] = change] /\ worker' = Stale(worker, {c})
                 /\ eventRows' = Cached(journal[c].event, review.event)
        <4>1. JournalTyped' /\ Len(journal') = Len(journal)
          BY <1>1, <2>4, <3>1 DEF Server, Kept, Typed, JournalTyped
        <4>2. WorkerTyped'
          BY <3>1, <4>1, StaleWorker DEF Typed, WorkerTyped
        <4>3. QED BY <2>5, <3>1, <4>1, <4>2
      <3>2. CASE UNCHANGED <<eventRows, journal, worker>>
        BY <1>1, <3>2 DEF Server, Typed, JournalTyped, WorkerTyped, EventsTyped
      <3>3. QED BY <2>6, <3>1, <3>2
    <2>8. ReviewTyped'
      BY <1>4, <2>7, NoWorkTyped, ChangesAre DEF CheckSaves, ReviewTyped
    <2>9. QED BY <1>1, <2>7, <2>8 DEF Typed, EventsTyped, User, Server
  <1>5. CASE CheckFails
    BY <1>5, NoWorkTyped, ChangesAre
    DEF CheckFails, User, Server, Typed, JournalTyped, ReviewTyped, WorkerTyped, EventsTyped
  <1>6. QED BY <1>2, <1>3, <1>4, <1>5 DEF CheckStep

LEMMA OutsideTypes == ASSUME Typed, RefreshEvents \/ OtherClient PROVE Typed'
  <1>1. CASE RefreshEvents
    BY <1>1
    DEF RefreshEvents, User, Server, Typed, JournalTyped, ReviewTyped, WorkerTyped, EventsTyped
  <1>2. CASE OtherClient
    <2>1. latest + 1 \in Nat /\ Theirs \in Texts
      BY DEF Typed, EventsTyped, Texts
    <2>2. remote' \in Events /\ latest' \in Nat /\ unread' \in BOOLEAN
      BY <1>2, <2>1, OnServerType, NothingType DEF OtherClient
    <2>3. QED BY <1>2, <2>2
      DEF OtherClient, User, Typed, JournalTyped, ReviewTyped, WorkerTyped, EventsTyped
  <1>3. QED BY <1>1, <1>2

LEMMA RestartTypes == ASSUME Typed, Restart PROVE Typed'
  <1>1. Kept(journal') /\ UNCHANGED <<service, Server, eventRows, unread>>
    BY KeptRecovered DEF Restart
  <1>2. JournalTyped' /\ Len(journal') = Len(journal)
    BY <1>1 DEF Kept, Server, Typed, JournalTyped
  <1>3. ReviewTyped' /\ WorkerTyped'
    BY <1>2, NoWorkTyped, ChangesAre DEF Restart, ReviewTyped, WorkerTyped
  <1>4. EventsTyped'
    BY <1>1, NothingType DEF Restart, Server, Typed, EventsTyped
  <1>5. QED BY <1>2, <1>3, <1>4 DEF Typed

----------------------------------------------------------------------------
(* Type correctness. *)

LEMMA InitTypes == CalendarInit => Typed
  <1> SUFFICES ASSUME CalendarInit PROVE Typed
    OBVIOUS
  <1>1. /\ journal = <<>> /\ effects = <<>> /\ collided = {} /\ latest = 1 /\ unread = FALSE
        /\ worker = NoWork /\ review = NoReview /\ form = Nothing
        /\ service \in {"caldav", "google"}
    BY DEF CalendarInit
  <1>2. remote \in Events /\ eventRows \in SUBSET Events
    <2>1. PICK text \in {0, Theirs} :
              /\ remote = IF text = 0 THEN Nothing ELSE OnServer(1, text)
              /\ eventRows = {remote} \ {Nothing}
      BY DEF CalendarInit
    <2>2. remote \in Events
      BY <2>1, NothingType, OnServerType DEF Texts
    <2>3. QED BY <2>1, <2>2
  <1>3. JournalTyped
    BY <1>1, EmptySeq DEF JournalTyped
  <1>4. ReviewTyped /\ WorkerTyped
    BY <1>1, NoWorkTyped DEF ReviewTyped, WorkerTyped
  <1>5. EventsTyped
    BY <1>1, <1>2, NothingType DEF EventsTyped
  <1>6. QED BY <1>3, <1>4, <1>5 DEF Typed

LEMMA NextTypes == Typed /\ [CalendarNext]_calendarVars => Typed'
  <1> SUFFICES ASSUME Typed, [CalendarNext]_calendarVars PROVE Typed'
    OBVIOUS
  <1>1. CASE OpenForm \/ CloseForm \/ Admit
    BY <1>1, FormTypes, AdmitTypes
  <1>2. CASE \E c \in Changes : RetryChange(c) \/ ResolveChange(c) \/ Pick(c)
    BY <1>2, RetryTypes, ResolveTypes, PickTypes
  <1>3. CASE Step
    <2>1. CASE Claim \/ ClaimFails
      BY <2>1, ClaimTypes
    <2>2. CASE Asking
      BY <2>2, AskingTypes
    <2>3. CASE Record \/ RecordFails \/ MarkUncertain
      BY <2>3, RecordTypes
    <2>4. CASE Apply \/ ApplyFails
      BY <2>4, ApplyTypes
    <2>5. QED BY <1>3, <2>1, <2>2, <2>3, <2>4 DEF Step, Asking
  <1>4. CASE CheckStep \/ (\E c \in Changes : CheckBegins(c))
    BY <1>4, CheckTypes
  <1>5. CASE RefreshEvents \/ OtherClient \/ Restart
    BY <1>5, OutsideTypes, RestartTypes
  <1>6. CASE UNCHANGED calendarVars
    BY <1>6
    DEF calendarVars, Typed, JournalTyped, ReviewTyped, WorkerTyped, EventsTyped
  <1>7. QED BY <1>1, <1>2, <1>3, <1>4, <1>5, <1>6 DEF CalendarNext

LEMMA AlwaysTyped == CalendarSpec => []Typed
  BY InitTypes, NextTypes, PTL DEF CalendarSpec

----------------------------------------------------------------------------
(* How often a change is asked for: not while it may still be asked for       *)
(* again, and at most once in all.                                            *)
Retriable == {"queued", "waiting"}
NotTaken  == {"offline", "authentication"}
RequestsOnce ==
    /\ \A c \in 1 .. Len(journal) : effects[c] \in {0, 1}
    /\ \A c \in 1 .. Len(journal) : journal[c].status \in Retriable => effects[c] = 0
    /\ worker.at = "claimed" =>
          effects[worker.change] = 0 /\ journal[worker.change].status \notin Retriable
    /\ worker.at = "answered" /\ worker.answer \in NotTaken => effects[worker.change] = 0

(* A step that asks nothing keeps it, when it makes no change retriable that  *)
(* was asked for and leaves the claimed one alone.                            *)
LEMMA AsksNothing ==
    ASSUME Typed, RequestsOnce, effects' = effects, Len(journal') = Len(journal),
           \A c \in 1 .. Len(journal) : journal'[c].status \in Retriable => effects[c] = 0,
           worker'.at = "claimed" =>
               /\ worker.at = "claimed" /\ worker'.change = worker.change
               /\ journal'[worker.change].status \notin Retriable,
           worker'.at = "answered" =>
               /\ worker.at = "answered" /\ worker'.change = worker.change
               /\ worker'.answer = worker.answer
    PROVE  RequestsOnce'
  BY DEF RequestsOnce

LEMMA ClaimedChange ==
    ASSUME Typed, worker.at # "idle"
    PROVE  worker.change \in Changes /\ worker.change \in 1 .. Len(journal)
  BY ChangesAre DEF Typed, WorkerTyped

LEMMA QuietOnce ==
    ASSUME Typed, RequestsOnce,
           UNCHANGED <<journal, effects>>,
           worker' = worker \/ worker'.at \notin {"claimed", "answered"}
    PROVE  RequestsOnce'
  BY DEF RequestsOnce

LEMMA AdmitOnce == ASSUME Typed, RequestsOnce, Admit PROVE RequestsOnce'
  <1>1. PICK b, new : new.status = "queued" /\ journal' = Append(GivenWay(b), new)
    BY DEF Admit, Change
  <1>2. effects' = Append(effects, 0) /\ worker' = worker
    BY DEF Admit
  <1>3. /\ GivenWay(b) \in Seq(ChangeType) /\ Len(GivenWay(b)) = Len(journal) /\ Len(journal) \in Nat
        /\ effects \in Seq(Nat) /\ Len(effects) = Len(journal)
    BY KeptGiven, ChangesAre DEF Kept, Typed, JournalTyped
  <1>4. /\ Len(journal') = Len(journal) + 1
        /\ \A c \in 1 .. Len(journal) : journal'[c] = GivenWay(b)[c]
        /\ journal'[Len(journal) + 1].status = "queued"
    BY <1>1, <1>3
  <1>5. /\ \A c \in 1 .. Len(journal) : effects'[c] = effects[c]
        /\ effects'[Len(journal) + 1] = 0
    BY <1>2, <1>3
  <1>6. \A c \in 1 .. Len(journal) :
           journal'[c].status = journal[c].status \/ journal'[c].status = "cancelled"
    BY <1>4, KeptGiven
  <1>7. \A c \in 1 .. Len(journal') :
           effects'[c] \in {0, 1} /\ (journal'[c].status \in Retriable => effects'[c] = 0)
    <2> SUFFICES ASSUME NEW c \in 1 .. Len(journal')
                 PROVE  effects'[c] \in {0, 1} /\ (journal'[c].status \in Retriable => effects'[c] = 0)
      OBVIOUS
    <2>1. CASE c \in 1 .. Len(journal)
      BY <1>5, <1>6, <2>1 DEF RequestsOnce, Retriable
    <2>2. CASE c = Len(journal) + 1
      BY <1>5, <2>2
    <2>3. QED BY <1>3, <1>4, <2>1, <2>2
  <1>8. worker.at # "idle" =>
            /\ effects'[worker.change] = effects[worker.change]
            /\ journal'[worker.change].status \in {journal[worker.change].status, "cancelled"}
    BY <1>5, <1>6, ClaimedChange
  <1>9. QED BY <1>2, <1>7, <1>8 DEF RequestsOnce, Retriable

LEMMA UserOnce ==
    ASSUME Typed, RequestsOnce, NEW c \in Changes, RetryChange(c) \/ ResolveChange(c)
    PROVE  RequestsOnce'
  <1>1. effects' = effects /\ c \in 1 .. Len(journal)
    BY ChangesAre DEF RetryChange, ResolveChange, Server
  <1>2. worker'.at = worker.at /\ worker'.change = worker.change /\ worker'.answer = worker.answer
    BY StaleWorker DEF RetryChange, ResolveChange, Typed, WorkerTyped
  <1>3. /\ Len(journal') = Len(journal)
        /\ \A k \in 1 .. Len(journal) :
              \/ journal'[k].status = journal[k].status
              \/ k = c /\ journal'[k].status = "cancelled"
              \/ k = c /\ journal[k].status = "waiting"
    <2>1. CASE RetryChange(c)
      BY <1>1, <2>1 DEF RetryChange, Write, Typed, JournalTyped
    <2>2. CASE ResolveChange(c)
      <3> DEFINE first == [journal EXCEPT ![c] = Resolved(journal[c])]
      <3>1. Resolved(journal[c]) \in ChangeType /\ Resolved(journal[c]).previous = journal[c].previous
            /\ Resolved(journal[c]).status = "cancelled"
        BY ChangesAre DEF Resolved, ChangeType, Statuses
      <3>2. Kept(first) /\ \A k \in 1 .. Len(journal) :
                first[k].status = IF k = c THEN "cancelled" ELSE journal[k].status
        <4>1. journal \in Seq(ChangeType)
          BY DEF Typed, JournalTyped
        <4>2. Kept(first) /\ \A k \in 1 .. Len(journal) :
                  first[k] = IF k = c THEN Resolved(journal[c]) ELSE journal[k]
          BY <1>1, <3>1, <4>1, KeptExcept
        <4> HIDE DEF first
        <4>3. QED BY <3>1, <4>2
      <3>3. journal' = Rebound(first, c)
        BY <2>2 DEF ResolveChange, Write
      <3> HIDE DEF first
      <3>4. QED BY <1>1, <3>2, <3>3, KeptRebound DEF Typed, JournalTyped, Kept
    <2>3. QED BY <2>1, <2>2
  <1>4. \A k \in 1 .. Len(journal) : journal'[k].status \in Retriable => effects[k] = 0
    BY <1>3 DEF RequestsOnce, Retriable
  <1>5. worker.at = "claimed" => journal'[worker.change].status \notin Retriable
    BY <1>3, ClaimedChange DEF RequestsOnce, Retriable
  <1>6. QED BY <1>1, <1>2, <1>3, <1>4, <1>5, AsksNothing

LEMMA ClaimOnce == ASSUME Typed, RequestsOnce, Claim \/ ClaimFails PROVE RequestsOnce'
  <1> DEFINE c == worker.change
  <1>1. c \in Changes /\ c \in 1 .. Len(journal) /\ UNCHANGED effects
    BY ClaimedChange DEF Claim, ClaimFails, Server
  <1>2. CASE Claim
    <2>1. /\ Len(journal') = Len(journal)
          /\ journal'[c].status = "running" /\ journal[c].status \in Retriable
          /\ \A k \in 1 .. Len(journal) : k # c => journal'[k] = journal[k]
      BY <1>1, <1>2, SMTT(60) DEF Claim, Write, Dispatchable, Retriable, Typed, JournalTyped
    <2>2. worker'.at = "claimed" /\ worker'.change = c
      BY <1>2 DEF Claim, Typed, WorkerTyped, WorkerType
    <2>3. QED BY <1>1, <2>1, <2>2 DEF RequestsOnce, Retriable
  <1>3. CASE ClaimFails
    <2>1. /\ Len(journal') = Len(journal)
          /\ \A k \in 1 .. Len(journal) : journal'[k].status \in {journal[k].status, "rejected"}
      <3> DEFINE change == [journal[c] EXCEPT !.status = "rejected"]
      <3>1. change \in ChangeType /\ change.previous = journal[c].previous /\ change.status = "rejected"
        BY <1>1, ChangesAre DEF ChangeType, Statuses
      <3>2. journal' = [journal EXCEPT ![c] = change] \/ UNCHANGED journal
        BY <1>3 DEF ClaimFails, Write
      <3> HIDE DEF change
      <3>3. CASE journal' = [journal EXCEPT ![c] = change]
        <4>0. journal \in Seq(ChangeType)
          BY DEF Typed, JournalTyped
        <4> DEFINE after == [journal EXCEPT ![c] = change]
        <4>5. Kept(after) /\ \A k \in 1 .. Len(journal) :
                  after[k] = IF k = c THEN change ELSE journal[k]
          BY <1>1, <3>1, <4>0, KeptExcept
        <4>1. Kept(journal') /\ \A k \in 1 .. Len(journal) :
                  journal'[k] = IF k = c THEN change ELSE journal[k]
          BY <3>3, <4>5
        <4>2. QED BY <3>1, <4>1 DEF Kept
      <3>4. QED BY <3>2, <3>3
    <2>2. worker'.at = "idle"
      BY <1>3, NoWorkTyped DEF ClaimFails
    <2>3. QED BY <1>1, <2>1, <2>2, AsksNothing DEF RequestsOnce, Retriable
  <1>4. QED BY <1>2, <1>3

LEMMA AskingOnce == ASSUME Typed, RequestsOnce, Asking PROVE RequestsOnce'
  <1> DEFINE c == worker.change
  <1>1. worker.at = "claimed" /\ c \in 1 .. Len(journal) /\ UNCHANGED journal
    BY ClaimedChange DEF Asking, Accepted, LostAfter, Needless, Refused, NotSent
  <1>2. \E kind, e : CalendarAnswers(kind, e)
    BY DEF Asking, Accepted, LostAfter, Needless, Refused, NotSent
  <1>3. worker'.at = "answered" /\ worker'.change = c
    BY <1>2 DEF CalendarAnswers, Typed, WorkerTyped, WorkerType
  <1>4. effects \in Seq(Nat) /\ Len(effects) = Len(journal)
    BY DEF Typed, JournalTyped
  <1>5. CASE Accepted \/ LostAfter
    <2>1. effects' = [effects EXCEPT ![c] = effects[c] + 1]
      BY <1>5 DEF Accepted, LostAfter, Takes
    <2>2. effects'[c] = 1 /\ \A k \in 1 .. Len(journal) : k # c => effects'[k] = effects[k]
      BY <1>1, <1>4, <2>1 DEF RequestsOnce
    <2>3. worker'.answer \notin NotTaken
      BY <1>5 DEF Accepted, LostAfter, CalendarAnswers, NotTaken, Typed, WorkerTyped, WorkerType
    <2>4. QED BY <1>1, <1>3, <2>2, <2>3 DEF RequestsOnce
  <1>6. CASE Needless \/ Refused \/ NotSent
    <2>1. UNCHANGED effects
      BY <1>6 DEF Needless, Refused, NotSent, Server
    <2>2. QED BY <1>1, <1>3, <2>1 DEF RequestsOnce
  <1>7. QED BY <1>5, <1>6 DEF Asking

LEMMA RecordOnce == ASSUME Typed, RequestsOnce, Record \/ RecordFails \/ MarkUncertain PROVE RequestsOnce'
  <1> DEFINE c == worker.change
  <1>1. c \in Changes /\ c \in 1 .. Len(journal) /\ UNCHANGED effects
    BY ClaimedChange DEF Record, RecordFails, MarkUncertain, Server
  <1>2. worker'.at \notin {"claimed", "answered"}
    BY NoWorkTyped DEF Record, RecordFails, MarkUncertain, Typed, WorkerTyped, WorkerType
  <1>3. /\ Len(journal') = Len(journal)
        /\ \A k \in 1 .. Len(journal) : journal'[k].status \in Retriable => effects[k] = 0
    <2>1. CASE Record
      <3>1. journal' = [journal EXCEPT ![c] = Recorded(journal[c])] /\ worker.at = "answered"
        BY <2>1 DEF Record, Write
      <3>2. Recorded(journal[c]).status \in Retriable => worker.answer \in NotTaken
        <4>1. journal[c] \in ChangeType
          BY <1>1, ChangesAre
        <4>2. worker.answer \in {"ok", "rejected", "uncertain"} \cup NotTaken
          BY <3>1 DEF Typed, WorkerTyped, WorkerType, NotTaken
        <4>3. QED BY <4>1, <4>2 DEF Recorded, Retriable, NotTaken, ChangeType
      <3>3. QED BY <1>1, <3>1, <3>2 DEF RequestsOnce, Typed, JournalTyped
    <2>2. CASE RecordFails
      BY <2>2 DEF RecordFails, RequestsOnce
    <2>3. CASE MarkUncertain
      <3>1. /\ Len(journal') = Len(journal)
            /\ \A k \in 1 .. Len(journal) : journal'[k].status \in {journal[k].status, "uncertain"}
        <4> DEFINE change == Unrecorded(journal[c])
        <4>1. change \in ChangeType /\ change.previous = journal[c].previous /\ change.status = "uncertain"
          BY <1>1, ChangesAre DEF Unrecorded, ChangeType, Statuses
        <4>2. journal' = [journal EXCEPT ![c] = change] \/ UNCHANGED journal
          BY <2>3 DEF MarkUncertain, Write
        <4> HIDE DEF change
        <4>3. CASE journal' = [journal EXCEPT ![c] = change]
          <5>0. journal \in Seq(ChangeType)
            BY DEF Typed, JournalTyped
          <5> DEFINE after == [journal EXCEPT ![c] = change]
          <5>5. Kept(after) /\ \A k \in 1 .. Len(journal) :
                    after[k] = IF k = c THEN change ELSE journal[k]
            BY <1>1, <4>1, <5>0, KeptExcept
          <5>1. Kept(journal') /\ \A k \in 1 .. Len(journal) :
                    journal'[k] = IF k = c THEN change ELSE journal[k]
            BY <4>3, <5>5
          <5>2. QED BY <4>1, <5>1 DEF Kept
        <4>4. QED BY <4>2, <4>3
      <3>2. QED BY <3>1 DEF RequestsOnce, Retriable
    <2>4. QED BY <2>1, <2>2, <2>3
  <1>4. QED BY <1>1, <1>2, <1>3, AsksNothing

LEMMA ApplyOnce == ASSUME Typed, RequestsOnce, Apply \/ ApplyFails PROVE RequestsOnce'
  <1> DEFINE c == worker.change
             first == [journal EXCEPT ![c] = Applied(journal[c])]
  <1>1. c \in Changes /\ c \in 1 .. Len(journal) /\ UNCHANGED effects
    BY ClaimedChange DEF Apply, ApplyFails, Server
  <1>2. worker'.at = "idle"
    BY NoWorkTyped DEF Apply, ApplyFails
  <1>3. /\ Applied(journal[c]) \in ChangeType /\ Applied(journal[c]).previous = journal[c].previous
        /\ Applied(journal[c]).status \notin Retriable
    <2>1. journal[c] \in ChangeType
      BY <1>1, ChangesAre
    <2>2. QED BY <2>1, AppliedType DEF Retriable
  <1>4. Kept(first) /\ \A k \in 1 .. Len(journal) :
            first[k].status = IF k = c THEN Applied(journal[c]).status ELSE journal[k].status
    <2>1. journal \in Seq(ChangeType)
      BY DEF Typed, JournalTyped
    <2>2. Kept(first) /\ \A k \in 1 .. Len(journal) :
              first[k] = IF k = c THEN Applied(journal[c]) ELSE journal[k]
      BY <1>1, <1>3, <2>1, KeptExcept
    <2> HIDE DEF first
    <2>3. QED BY <2>2
  <1>5. journal' = Rebound(first, c) \/ UNCHANGED journal
    BY DEF Apply, ApplyFails, Write
  <1> HIDE DEF first
  <1>6. /\ Len(journal') = Len(journal)
        /\ \A k \in 1 .. Len(journal) :
              journal'[k].status = journal[k].status \/ journal'[k].status \notin Retriable
    <2>1. CASE journal' = Rebound(first, c)
      <3>1. Kept(journal') /\ \A k \in 1 .. Len(journal) : journal'[k].status = first[k].status
        BY <1>1, <1>4, <2>1, KeptRebound DEF Typed, JournalTyped
      <3>2. QED BY <1>3, <1>4, <3>1 DEF Kept
    <2>2. QED BY <1>5, <2>1
  <1>7. QED BY <1>1, <1>2, <1>6, AsksNothing DEF RequestsOnce

LEMMA CheckOnce ==
    ASSUME Typed, RequestsOnce, CheckStep \/ (\E c \in Changes : CheckBegins(c))
    PROVE  RequestsOnce'
  <1>1. UNCHANGED effects
    BY DEF CheckStep, CheckBegins, CheckReads, CheckSaves, CheckFails, Server
  <1>2. worker'.at = worker.at /\ worker'.change = worker.change /\ worker'.answer = worker.answer
    BY StaleWorker
    DEF CheckStep, CheckBegins, CheckReads, CheckSaves, CheckFails, Typed, WorkerTyped
  <1>3. /\ Len(journal') = Len(journal)
        /\ \A k \in 1 .. Len(journal) : journal'[k].status = journal[k].status
    <2>1. CASE UNCHANGED journal
      BY <2>1
    <2>2. CASE journal' = [journal EXCEPT ![review.change].checked = TRUE,
                                          ![review.change].observed = review.event]
      <3>1. \A k \in 1 .. Len(journal) : journal[k] \in ChangeType
        BY ChangesAre
      <3>2. QED BY <2>2, <3>1 DEF Typed, JournalTyped, ChangeType
    <2>3. QED BY <2>1, <2>2 DEF CheckStep, CheckBegins, CheckReads, CheckSaves, CheckFails
  <1>4. QED BY <1>1, <1>2, <1>3, AsksNothing, ClaimedChange DEF RequestsOnce

LEMMA RestartOnce == ASSUME Typed, RequestsOnce, Restart PROVE RequestsOnce'
  <1>1. UNCHANGED effects /\ worker'.at = "idle"
    BY NoWorkTyped DEF Restart, Server
  <1>2. /\ Len(journal') = Len(journal)
        /\ \A k \in 1 .. Len(journal) : journal'[k].status \in {journal[k].status, "uncertain"}
    BY KeptRecovered DEF Restart, Kept
  <1>3. QED BY <1>1, <1>2, AsksNothing DEF RequestsOnce, Retriable

LEMMA NextOnce == Typed /\ RequestsOnce /\ [CalendarNext]_calendarVars => RequestsOnce'
  <1> SUFFICES ASSUME Typed, RequestsOnce, [CalendarNext]_calendarVars PROVE RequestsOnce'
    OBVIOUS
  <1>1. CASE OpenForm \/ CloseForm \/ RefreshEvents \/ OtherClient \/ UNCHANGED calendarVars
    BY <1>1, QuietOnce
    DEF OpenForm, CloseForm, RefreshEvents, OtherClient, calendarVars, Server
  <1>2. CASE Admit
    BY <1>2, AdmitOnce
  <1>3. CASE \E c \in Changes : RetryChange(c) \/ ResolveChange(c)
    BY <1>3, UserOnce
  <1>4. CASE \E c \in Changes : Pick(c)
    <2>1. worker'.at \notin {"claimed", "answered"} /\ UNCHANGED <<journal, effects>>
      BY <1>4, NoWorkTyped DEF Pick, Server, WorkerType
    <2>2. QED BY <2>1, QuietOnce
  <1>5. CASE Step
    BY <1>5, ClaimOnce, AskingOnce, RecordOnce, ApplyOnce DEF Step, Asking
  <1>6. CASE CheckStep \/ (\E c \in Changes : CheckBegins(c))
    BY <1>6, CheckOnce
  <1>7. CASE Restart
    BY <1>7, RestartOnce
  <1>8. QED BY <1>1, <1>2, <1>3, <1>4, <1>5, <1>6, <1>7 DEF CalendarNext

(* Whatever is retried, interrupted or fails to be recorded, no change of an  *)
(* event reaches the server twice (execute_calendar_work).                    *)
THEOREM ChangesReachTheServerOnce == CalendarSpec => []ChangedOnce
  <1>1. CalendarInit => RequestsOnce
    BY InitTypes, NoWorkTyped DEF CalendarInit, RequestsOnce
  <1>2. Typed /\ RequestsOnce => ChangedOnce
    BY ChangesAre DEF RequestsOnce, ChangedOnce
  <1>3. QED BY <1>1, <1>2, AlwaysTyped, NextOnce, PTL DEF CalendarSpec

(* Every state is well typed; a change comes after the one it waits for.      *)
THEOREM CalendarTypes == CalendarSpec => []CalendarTypeOK
  <1>1. Typed => CalendarTypeOK
    <2> SUFFICES ASSUME Typed PROVE CalendarTypeOK
      OBVIOUS
    <2>1. \A c \in Changes :
             journal[c] \in [origin : Ids, event : Events, deleting : BOOLEAN, status : Statuses,
                             receipt : Events, applied : BOOLEAN, checked : BOOLEAN,
                             observed : Events, previous : 0 .. c - 1, attempts : Nat, due : BOOLEAN]
      <3> SUFFICES ASSUME NEW c \in Changes
                   PROVE  journal[c] \in [origin : Ids, event : Events, deleting : BOOLEAN,
                             status : Statuses, receipt : Events, applied : BOOLEAN,
                             checked : BOOLEAN, observed : Events, previous : 0 .. c - 1,
                             attempts : Nat, due : BOOLEAN]
        OBVIOUS
      <3>1. journal[c] \in ChangeType /\ journal[c].previous \in 0 .. c - 1
        BY ChangesAre DEF Typed, JournalTyped
      <3>2. QED BY <3>1 DEF ChangeType
    <2>2. DOMAIN effects = Changes
      BY ChangesAre DEF Typed, JournalTyped
    <2>3. worker.change \in {0} \cup Changes /\ review.change \in {0} \cup Changes
      BY ChangesAre DEF Typed, WorkerTyped, ReviewTyped
    <2>4. QED BY <2>1, <2>2, <2>3, ChangesAre
      DEF CalendarTypeOK, Typed, JournalTyped, ReviewTyped, WorkerTyped, EventsTyped, WorkerType, ReviewType
  <1>2. QED BY <1>1, AlwaysTyped, PTL

----------------------------------------------------------------------------
(* What each step writes: one change, and the event of those that wait for    *)
(* it to tell them.                                                           *)

SameBut(change, new) ==
    /\ new.status = change.status /\ new.previous = change.previous /\ new.deleting = change.deleting
    /\ new.receipt = change.receipt /\ new.applied = change.applied /\ new.checked = change.checked
    /\ new.observed = change.observed
Rewrites(c, change) ==
    /\ Len(journal') = Len(journal) /\ Changes' = Changes
    /\ change.previous = journal[c].previous
    /\ journal'[c] = change
    /\ \A k \in Changes : k # c =>
          \/ journal'[k] = journal[k]
          \/ /\ journal[k].status = "queued" /\ journal[k].previous = c /\ change.receipt # Nothing
             /\ SameBut(journal[k], journal'[k])
             /\ journal'[k].event = Naming(journal[k].event, change.receipt)

LEMMA RewritesExcept ==
    ASSUME Typed, NEW c \in Changes, NEW change \in ChangeType, change.previous = journal[c].previous,
           journal' = [journal EXCEPT ![c] = change]
    PROVE  Rewrites(c, change)
  <1>1. journal \in Seq(ChangeType) /\ c \in 1 .. Len(journal) /\ Changes = 1 .. Len(journal)
    BY ChangesAre DEF Typed, JournalTyped
  <1> DEFINE after == [journal EXCEPT ![c] = change]
  <1>2. Kept(after) /\ \A k \in 1 .. Len(journal) : after[k] = IF k = c THEN change ELSE journal[k]
    BY <1>1, KeptExcept
  <1>3. after \in Seq(ChangeType) /\ Len(after) = Len(journal)
    BY <1>2 DEF Kept
  <1>4. journal' = after
    OBVIOUS
  <1> HIDE DEF after
  <1>5. Changes' = Changes
    BY <1>1, <1>3, <1>4 DEF Changes
  <1>6. QED BY <1>1, <1>2, <1>3, <1>4, <1>5 DEF Rewrites

LEMMA RewritesRebound ==
    ASSUME Typed, NEW c \in Changes, NEW change \in ChangeType, change.previous = journal[c].previous,
           change.status # "queued",
           journal' = Rebound([journal EXCEPT ![c] = change], c)
    PROVE  Rewrites(c, change)
  <1>1. journal \in Seq(ChangeType) /\ c \in 1 .. Len(journal) /\ Changes = 1 .. Len(journal)
    BY ChangesAre DEF Typed, JournalTyped
  <1> DEFINE after == [journal EXCEPT ![c] = change]
             f == Rebound(after, c)
  <1>2. Kept(after) /\ \A k \in 1 .. Len(journal) : after[k] = IF k = c THEN change ELSE journal[k]
    BY <1>1, KeptExcept
  <1>3. journal' = f
    OBVIOUS
  <1> HIDE DEF after
  <1>4. Kept(f)
    BY <1>1, <1>2, KeptRebound
  <1>5. /\ \A k \in Changes :
              f[k] = IF after[k].previous = c /\ after[k].status = "queued" /\ after[c].receipt # Nothing
                     THEN [after[k] EXCEPT !.event = Naming(after[k].event, after[c].receipt)]
                     ELSE after[k]
    BY DEF Rebound
  <1>6. after[c] = change
    BY <1>1, <1>2
  <1>7. f[c] = change
    BY <1>1, <1>5, <1>6
  <1>8. ASSUME NEW k \in Changes, k # c
        PROVE  \/ f[k] = journal[k]
               \/ /\ journal[k].status = "queued" /\ journal[k].previous = c /\ change.receipt # Nothing
                  /\ SameBut(journal[k], f[k])
                  /\ f[k].event = Naming(journal[k].event, change.receipt)
    <2>1. after[k] = journal[k] /\ journal[k] \in ChangeType
      BY <1>1, <1>2, <1>8, ChangesAre
    <2>2. f[k] = IF journal[k].previous = c /\ journal[k].status = "queued" /\ change.receipt # Nothing
                 THEN [journal[k] EXCEPT !.event = Naming(journal[k].event, change.receipt)]
                 ELSE journal[k]
      BY <1>5, <1>6, <1>8, <2>1
    <2>3. LET new == [journal[k] EXCEPT !.event = Naming(journal[k].event, change.receipt)] IN
          SameBut(journal[k], new) /\ new.event = Naming(journal[k].event, change.receipt)
      BY <2>1 DEF ChangeType, SameBut
    <2>4. QED BY <2>2, <2>3
  <1>9. Len(f) = Len(journal) /\ f \in Seq(ChangeType)
    BY <1>4 DEF Kept
  <1> HIDE DEF f
  <1>10. Changes' = Changes
    BY <1>1, <1>3, <1>9 DEF Changes
  <1>11. QED BY <1>3, <1>7, <1>8, <1>9, <1>10 DEF Rewrites

(* A change that no longer is queued stays as it was unless it is the one.    *)
LEMMA RewritesOthers ==
    ASSUME Typed, NEW c \in Changes, NEW change \in ChangeType, Rewrites(c, change),
           NEW k \in Changes, k # c
    PROVE  SameBut(journal[k], journal'[k])
           /\ (journal[k].status # "queued" \/ journal[k].previous # c => journal'[k] = journal[k])
  BY DEF Rewrites, SameBut

LEMMA RetryWrites ==
    ASSUME Typed, NEW c \in Changes, RetryChange(c)
    PROVE  \E change \in ChangeType :
              /\ Rewrites(c, change)
              /\ change = [journal[c] EXCEPT !.status = "queued", !.attempts = 0, !.due = FALSE]
  <1> DEFINE change == [journal[c] EXCEPT !.status = "queued", !.attempts = 0, !.due = FALSE]
  <1>1. change \in ChangeType /\ change.previous = journal[c].previous
    BY ChangesAre DEF ChangeType, Statuses
  <1>2. journal' = [journal EXCEPT ![c] = change]
    BY ChangesAre DEF RetryChange, Write
  <1>3. QED BY <1>1, <1>2, RewritesExcept

LEMMA ResolveWrites ==
    ASSUME Typed, NEW c \in Changes, ResolveChange(c)
    PROVE  Resolved(journal[c]) \in ChangeType /\ Rewrites(c, Resolved(journal[c]))
  <1>1. /\ Resolved(journal[c]) \in ChangeType /\ Resolved(journal[c]).previous = journal[c].previous
        /\ Resolved(journal[c]).status # "queued"
    BY ChangesAre DEF Resolved, ChangeType, Statuses
  <1>2. journal' = Rebound([journal EXCEPT ![c] = Resolved(journal[c])], c)
    BY DEF ResolveChange, Write
  <1>3. QED BY <1>1, <1>2, RewritesRebound

LEMMA ApplyWrites ==
    ASSUME Typed, Apply
    PROVE  LET c == worker.change IN
           /\ c \in Changes /\ Applied(journal[c]) \in ChangeType
           /\ IF Repairs(journal[c]) THEN Rewrites(c, Applied(journal[c]))
              ELSE UNCHANGED <<journal, eventRows>>
  <1> DEFINE c == worker.change
  <1>1. c \in Changes
    BY ClaimedChange DEF Apply
  <1>2. /\ Applied(journal[c]) \in ChangeType /\ Applied(journal[c]).previous = journal[c].previous
        /\ Applied(journal[c]).status # "queued"
    <2>1. journal[c] \in ChangeType
      BY <1>1, ChangesAre
    <2>2. QED BY <2>1, AppliedType
  <1>3. Repairs(journal[c]) => journal' = Rebound([journal EXCEPT ![c] = Applied(journal[c])], c)
    BY DEF Apply, Write
  <1>4. QED BY <1>1, <1>2, <1>3, RewritesRebound DEF Apply

LEMMA ClaimWrites ==
    ASSUME Typed, Claim
    PROVE  LET c == worker.change IN
           /\ c \in Changes
           /\ \E change \in ChangeType :
                 /\ Rewrites(c, change)
                 /\ change = [journal[c] EXCEPT !.status = "running", !.event = Inherited(journal[c]),
                                                !.attempts = @ + 1, !.due = FALSE]
  <1> DEFINE c == worker.change
             inherited == Inherited(journal[c])
             change == [journal[c] EXCEPT !.status = "running", !.event = inherited,
                                          !.attempts = @ + 1, !.due = FALSE]
  <1>1. c \in Changes
    BY ClaimedChange DEF Claim
  <1>2. inherited \in Events /\ journal[c] \in ChangeType
    BY <1>1, InheritedType, ChangesAre
  <1>3. journal' = [journal EXCEPT ![c] = change]
    BY DEF Claim, Write
  <1> HIDE DEF inherited
  <1>4. change \in ChangeType /\ change.previous = journal[c].previous
    BY <1>2, ClaimedType
  <1> HIDE DEF change
  <1>5. Rewrites(c, change)
    BY <1>1, <1>3, <1>4, RewritesExcept
  <1>6. QED BY <1>1, <1>4, <1>5 DEF change, inherited

LEMMA ClaimFailsWrites ==
    ASSUME Typed, ClaimFails
    PROVE  LET c == worker.change IN
           /\ c \in Changes
           /\ \/ UNCHANGED journal
              \/ /\ [journal[c] EXCEPT !.status = "rejected"] \in ChangeType
                 /\ journal[c].status \in {"queued", "waiting"}
                 /\ Rewrites(c, [journal[c] EXCEPT !.status = "rejected"])
  <1> DEFINE c == worker.change
             change == [journal[c] EXCEPT !.status = "rejected"]
  <1>1. c \in Changes
    BY ClaimedChange DEF ClaimFails
  <1>2. change \in ChangeType /\ change.previous = journal[c].previous
    BY <1>1, ChangesAre DEF ChangeType, Statuses
  <1>3. UNCHANGED journal \/ (journal[c].status \in {"queued", "waiting"} /\ journal' = [journal EXCEPT ![c] = change])
    BY DEF ClaimFails, Write
  <1> HIDE DEF change
  <1>4. journal' = [journal EXCEPT ![c] = change] => Rewrites(c, change)
    BY <1>1, <1>2, RewritesExcept
  <1>5. QED BY <1>1, <1>2, <1>3, <1>4 DEF change

LEMMA RecordWrites ==
    ASSUME Typed, Record
    PROVE  LET c == worker.change IN
           c \in Changes /\ Recorded(journal[c]) \in ChangeType /\ Rewrites(c, Recorded(journal[c]))
  <1> DEFINE c == worker.change
  <1>1. c \in Changes /\ worker.at = "answered"
    BY ClaimedChange DEF Record
  <1>2. Recorded(journal[c]) \in ChangeType /\ Recorded(journal[c]).previous = journal[c].previous
    BY <1>1, ChangesAre, RecordedType
  <1>3. journal' = [journal EXCEPT ![c] = Recorded(journal[c])]
    BY DEF Record, Write
  <1>4. QED BY <1>1, <1>2, <1>3, RewritesExcept

LEMMA MarkWrites ==
    ASSUME Typed, MarkUncertain
    PROVE  LET c == worker.change IN
           /\ c \in Changes /\ Unrecorded(journal[c]) \in ChangeType
           /\ UNCHANGED journal \/ Rewrites(c, Unrecorded(journal[c]))
  <1> DEFINE c == worker.change
  <1>1. c \in Changes
    BY ClaimedChange DEF MarkUncertain
  <1>2. Unrecorded(journal[c]) \in ChangeType /\ Unrecorded(journal[c]).previous = journal[c].previous
    BY <1>1, ChangesAre DEF Unrecorded, ChangeType, Statuses
  <1>3. UNCHANGED journal \/ journal' = [journal EXCEPT ![c] = Unrecorded(journal[c])]
    BY DEF MarkUncertain, Write
  <1>4. QED BY <1>1, <1>2, <1>3, RewritesExcept

LEMMA CheckWrites ==
    ASSUME Typed, CheckSaves
    PROVE  LET c == review.change
               change == [journal[c] EXCEPT !.checked = TRUE, !.observed = review.event] IN
           /\ c \in Changes
           /\ \/ UNCHANGED <<journal, eventRows>>
              \/ /\ change \in ChangeType /\ journal[c].status \in {"uncertain", "repair"}
                 /\ Rewrites(c, change) /\ eventRows' = Cached(journal[c].event, review.event)
  <1> DEFINE c == review.change
             change == [journal[c] EXCEPT !.checked = TRUE, !.observed = review.event]
  <1>1. c \in Changes /\ review.event \in Events
    BY ChangesAre DEF CheckSaves, Typed, ReviewTyped, ReviewType
  <1>2. change \in ChangeType /\ change.previous = journal[c].previous
    BY <1>1, ChangesAre, CheckedType
  <1>3. \/ UNCHANGED <<journal, eventRows>>
        \/ /\ journal' = [journal EXCEPT ![c] = change] /\ journal[c].status \in {"uncertain", "repair"}
           /\ eventRows' = Cached(journal[c].event, review.event)
    BY DEF CheckSaves
  <1> HIDE DEF change
  <1>4. journal' = [journal EXCEPT ![c] = change] => Rewrites(c, change)
    BY <1>1, <1>2, RewritesExcept
  <1>5. QED BY <1>1, <1>2, <1>3, <1>4 DEF change

----------------------------------------------------------------------------
(* The order in which changes start, and what the worker and the check are    *)
(* at.                                                                        *)

LEMMA OrderKept ==
    ASSUME Typed, ChangesInOrder, Changes' = Changes, Len(journal') = Len(journal),
           \A k \in Changes :
              /\ journal'[k].previous = journal[k].previous
              /\ journal[k].status \in Ended => journal'[k].status \in Ended
              /\ journal'[k].status # "queued" => journal[k].status # "queued" \/ Admissible(k)
    PROVE  ChangesInOrder' /\ Chained' = Chained /\ \A k \in Changes : Admissible(k) => Admissible(k)'
  <1>1. Changes = 1 .. Len(journal) /\ Len(journal) \in Nat
    BY ChangesAre
  <1>2. \A k \in Changes : journal[k].previous \in 0 .. k - 1
    BY <1>1 DEF Typed, JournalTyped
  <1>3. ASSUME NEW k \in Changes, Admissible(k)
        PROVE  Admissible(k)'
    <2>1. journal[k].previous # 0 => journal[k].previous \in Changes
      BY <1>1, <1>2
    <2>2. QED BY <1>3, <2>1 DEF Admissible
  <1>4. Chained' = Chained
    <2>1. \A k \in 2 .. Len(journal) : journal'[k].previous = journal[k].previous
      BY <1>1
    <2>2. QED BY <2>1 DEF Chained, ChainedTo
  <1>5. \A k \in Changes : journal'[k].status # "queued" => Admissible(k)'
    BY <1>3 DEF ChangesInOrder
  <1>6. ASSUME Chained, NEW c \in Changes, journal'[c].status # "queued", NEW k \in 1 .. c - 1
        PROVE  journal'[k].status \in Ended
    <2>1. k \in Changes /\ c - 1 \in Changes /\ c \in 2 .. Len(journal)
      BY <1>1, <1>6
    <2>2. CASE journal[c].status # "queued"
      BY <1>6, <2>1, <2>2 DEF ChangesInOrder
    <2>3. CASE Admissible(c)
      <3>1. journal[c].previous = c - 1
        BY <1>6, <2>1 DEF Chained, ChainedTo
      <3>2. journal[c - 1].status \in Ended
        BY <1>1, <2>1, <2>3, <3>1 DEF Admissible
      <3>3. CASE k = c - 1
        BY <2>1, <3>2, <3>3
      <3>4. CASE k # c - 1
        <4>1. k \in 1 .. (c - 1) - 1
          BY <1>1, <2>1, <1>6, <3>4
        <4>2. journal[c - 1].status # "queued"
          BY <3>2 DEF Ended
        <4>3. journal[k].status \in Ended
          BY <1>6, <2>1, <4>1, <4>2 DEF ChangesInOrder
        <4>4. QED BY <2>1, <4>3
      <3>5. QED BY <3>3, <3>4
    <2>4. QED BY <1>6, <2>2, <2>3
  <1>7. QED BY <1>3, <1>4, <1>5, <1>6 DEF ChangesInOrder

LEMMA OrderRewrites ==
    ASSUME Typed, ChangesInOrder, NEW c \in Changes, NEW change \in ChangeType, Rewrites(c, change),
           journal[c].status \in Ended => change.status \in Ended,
           change.status # "queued" => journal[c].status # "queued" \/ Admissible(c)
    PROVE  ChangesInOrder' /\ Chained' = Chained /\ \A k \in Changes : Admissible(k) => Admissible(k)'
  <1>1. ASSUME NEW k \in Changes
        PROVE  /\ journal'[k].previous = journal[k].previous
               /\ journal[k].status \in Ended => journal'[k].status \in Ended
               /\ journal'[k].status # "queued" => journal[k].status # "queued" \/ Admissible(k)
    <2>1. CASE k = c
      BY <2>1 DEF Rewrites
    <2>2. CASE k # c
      BY <2>2, RewritesOthers DEF SameBut
    <2>3. QED BY <2>1, <2>2
  <1>2. Changes' = Changes /\ Len(journal') = Len(journal)
    BY DEF Rewrites
  <1>3. QED BY <1>1, <1>2, OrderKept

LEMMA OrderQuiet ==
    ASSUME Typed, ChangesInOrder, UNCHANGED journal
    PROVE  ChangesInOrder' /\ Chained' = Chained /\ \A k \in Changes : Admissible(k) => Admissible(k)'
  BY DEF ChangesInOrder, Chained, ChainedTo, Admissible, Changes

(* A step that is not the worker's leaves its change alone while it is asked  *)
(* for or its answer is recorded.                                             *)
LEMMA StagesRewrites ==
    ASSUME Typed, StagesAgree, ChangesInOrder, NEW c \in Changes, NEW change \in ChangeType, Rewrites(c, change),
           \A k \in Changes : Admissible(k) => Admissible(k)',
           WellMarked(change),
           worker'.at = worker.at, worker'.change = worker.change,
           review'.at \in {review.at, "none"},
           journal[c].status # "running", worker.at = "recorded" => worker.change # c
    PROVE  StagesAgree'
  <1>1. worker.at # "idle" => worker.change \in Changes
    BY ClaimedChange
  <1>2. \A k \in Changes : k # c => SameBut(journal[k], journal'[k])
    BY RewritesOthers
  <1>3. journal'[c] = change /\ Changes' = Changes
    BY DEF Rewrites
  <1>4. worker.at \in {"claimed", "answered", "unrecorded"} => journal'[worker.change].status = "running"
    BY <1>1, <1>2 DEF SameBut, StagesAgree
  <1>5. worker.at = "recorded" => Repairs(journal'[worker.change])
    BY <1>1, <1>2 DEF SameBut, StagesAgree, Repairs
  <1>6. worker.at # "idle" => Admissible(worker.change)'
    BY <1>1 DEF StagesAgree
  <1>7. \A k \in Changes : WellMarked(journal'[k])
    BY <1>2, <1>3 DEF SameBut, StagesAgree, WellMarked
  <1>8. QED BY <1>3, <1>4, <1>5, <1>6, <1>7 DEF StagesAgree, Admissible

(* A step of the worker, which may end with it. *)
LEMMA StagesWorker ==
    ASSUME Typed, StagesAgree, ChangesInOrder, NEW c \in Changes, NEW change \in ChangeType, Rewrites(c, change),
           \A k \in Changes : Admissible(k) => Admissible(k)',
           WellMarked(change),
           worker'.at # "idle" => worker'.change = c /\ Admissible(c),
           worker'.at \in {"claimed", "answered", "unrecorded"} => change.status = "running",
           worker'.at = "recorded" => Repairs(change),
           review'.at = "reading" => worker'.at \notin {"claimed", "answered", "recorded"}
    PROVE  StagesAgree'
  <1>2. \A k \in Changes : k # c => SameBut(journal[k], journal'[k])
    BY RewritesOthers
  <1>3. journal'[c] = change /\ Changes' = Changes
    BY DEF Rewrites
  <1>7. \A k \in Changes : WellMarked(journal'[k])
    BY <1>2, <1>3 DEF SameBut, StagesAgree, WellMarked
  <1>8. QED BY <1>3, <1>7 DEF StagesAgree, Admissible

LEMMA StagesQuiet ==
    ASSUME Typed, StagesAgree, UNCHANGED journal,
           \/ worker'.at = "idle"
           \/ worker'.at = worker.at /\ worker'.change = worker.change
           \/ /\ worker.at = "claimed" /\ worker'.at = "answered" /\ worker'.change = worker.change
           \/ /\ worker.at = "answered" /\ worker'.at = "unrecorded" /\ worker'.change = worker.change,
           \/ review'.at \in {review.at, "none"}
           \/ review'.at = "begun"
           \/ worker'.at \notin {"claimed", "answered", "recorded"}
    PROVE  StagesAgree'
  BY DEF StagesAgree, Admissible, Repairs, Changes

Ordered == StagesAgree /\ ChangesInOrder

LEMMA StaleKeeps ==
    ASSUME Typed, NEW S
    PROVE  /\ Stale(worker, S).at = worker.at /\ Stale(worker, S).change = worker.change
           /\ Stale(worker, S).answer = worker.answer /\ Stale(worker, S).event = worker.event
           /\ Stale(review, S).at = review.at /\ Stale(review, S).change = review.change
           /\ Stale(review, S).event = review.event
  BY DEF Stale, Typed, WorkerTyped, WorkerType, ReviewTyped, ReviewType

LEMMA RetryOrder == ASSUME Typed, Ordered, NEW c \in Changes, RetryChange(c) PROVE Ordered'
  <1>1. PICK change \in ChangeType :
            /\ Rewrites(c, change)
            /\ change = [journal[c] EXCEPT !.status = "queued", !.attempts = 0, !.due = FALSE]
    BY RetryWrites
  <1>2. /\ change.status = "queued" /\ journal[c].status = "waiting"
        /\ change.checked = journal[c].checked /\ change.applied = journal[c].applied
    BY <1>1, ChangesAre DEF RetryChange, ChangeType
  <1>3. WellMarked(change)
    BY <1>2 DEF Ordered, StagesAgree, WellMarked
  <1>4. worker'.at = worker.at /\ worker'.change = worker.change /\ review'.at = review.at
    BY StaleKeeps DEF RetryChange, Write
  <1>5. worker.at = "recorded" => worker.change # c
    BY <1>2 DEF Ordered, StagesAgree, Repairs
  <1>6. ChangesInOrder' /\ \A k \in Changes : Admissible(k) => Admissible(k)'
    BY <1>1, <1>2, OrderRewrites DEF Ordered, Ended
  <1>7. StagesAgree'
    BY <1>1, <1>2, <1>3, <1>4, <1>5, <1>6, StagesRewrites DEF Ordered
  <1>8. QED BY <1>6, <1>7 DEF Ordered

LEMMA ResolveOrder == ASSUME Typed, Ordered, NEW c \in Changes, ResolveChange(c) PROVE Ordered'
  <1> DEFINE change == Resolved(journal[c])
  <1>1. change \in ChangeType /\ Rewrites(c, change)
    BY ResolveWrites
  <1>2. change.status = "cancelled"
    BY ChangesAre DEF Resolved, ChangeType
  <1>3. /\ journal[c].status \in {"rejected", "waiting", "uncertain", "repair"}
        /\ journal[c].status = "repair" => journal[c].checked
    BY DEF ResolveChange, Resolvable, Ordered, StagesAgree
  <1>4. worker'.at = worker.at /\ worker'.change = worker.change /\ review'.at = review.at
    BY StaleKeeps DEF ResolveChange, Write
  <1>5. worker.at = "recorded" => worker.change # c
    BY <1>3 DEF Ordered, StagesAgree, Repairs
  <1> HIDE DEF change
  <1>6. ChangesInOrder' /\ \A k \in Changes : Admissible(k) => Admissible(k)'
    BY <1>1, <1>2, <1>3, OrderRewrites DEF Ordered, Ended
  <1>9. WellMarked(change)
    BY <1>2 DEF WellMarked
  <1>7. StagesAgree'
    BY <1>9, <1>1, <1>2, <1>3, <1>4, <1>5, <1>6, StagesRewrites DEF Ordered
  <1>8. QED BY <1>6, <1>7 DEF Ordered

LEMMA PickOrder == ASSUME Typed, Ordered, NEW c \in Changes, Pick(c) PROVE Ordered'
  <1>1. UNCHANGED <<journal, review>> /\ worker'.change = c /\ worker'.at \in {"picked", "repairing"}
    BY DEF Pick, NoWork
  <1>2. Admissible(c)
    BY DEF Pick, Repairs, Ordered, ChangesInOrder
  <1>3. ChangesInOrder' /\ \A k \in Changes : Admissible(k) => Admissible(k)'
    BY <1>1, OrderQuiet DEF Ordered
  <1>4. StagesAgree'
    BY <1>1, <1>2, <1>3 DEF Ordered, StagesAgree, Changes, Admissible
  <1>5. QED BY <1>3, <1>4 DEF Ordered

LEMMA ClaimOrder == ASSUME Typed, Ordered, Claim PROVE Ordered'
  <1> DEFINE c == worker.change
  <1>1. PICK change \in ChangeType :
            /\ c \in Changes /\ Rewrites(c, change)
            /\ change = [journal[c] EXCEPT !.status = "running", !.event = Inherited(journal[c]),
                                           !.attempts = @ + 1, !.due = FALSE]
    BY ClaimWrites
  <1>2. /\ change.status = "running"
        /\ change.checked = journal[c].checked /\ change.applied = journal[c].applied
    BY <1>1, ChangesAre DEF ChangeType
  <1>3. journal[c].status \in {"queued", "waiting"} /\ Admissible(c) /\ review.at # "reading"
    BY DEF Claim, Dispatchable, Access
  <1>4. WellMarked(change)
    BY <1>1, <1>2, <1>3 DEF Ordered, StagesAgree, WellMarked
  <1>5. worker'.at = "claimed" /\ worker'.change = c /\ review'.at = review.at
    BY StaleKeeps DEF Claim, Write, Typed, WorkerTyped, WorkerType
  <1>6. ChangesInOrder' /\ \A k \in Changes : Admissible(k) => Admissible(k)'
    BY <1>1, <1>2, <1>3, OrderRewrites DEF Ordered, Ended
  <1>7. StagesAgree'
    BY <1>1, <1>2, <1>3, <1>4, <1>5, <1>6, StagesWorker DEF Ordered
  <1>8. QED BY <1>6, <1>7 DEF Ordered

LEMMA ClaimFailsOrder == ASSUME Typed, Ordered, ClaimFails PROVE Ordered'
  <1> DEFINE c == worker.change
             change == [journal[c] EXCEPT !.status = "rejected"]
  <1>1. c \in Changes /\ worker'.at = "idle" /\ review'.at = review.at
    BY ClaimFailsWrites, NoWorkTyped, StaleKeeps DEF ClaimFails, Write
  <1>2. CASE UNCHANGED journal
    <2>1. ChangesInOrder'
      BY <1>2, OrderQuiet DEF Ordered
    <2>2. StagesAgree'
      BY <1>1, <1>2, StagesQuiet DEF Ordered
    <2>3. QED BY <2>1, <2>2 DEF Ordered
  <1>3. CASE change \in ChangeType /\ journal[c].status \in {"queued", "waiting"} /\ Rewrites(c, change)
    <2>1. /\ change.status = "rejected"
          /\ change.checked = journal[c].checked /\ change.applied = journal[c].applied
      BY <1>1, ChangesAre DEF ChangeType
    <2> HIDE DEF change
    <2>2. Admissible(c) /\ WellMarked(change)
      BY <1>1, <1>3, <2>1 DEF Ordered, StagesAgree, ClaimFails, WellMarked
    <2>3. ChangesInOrder' /\ \A k \in Changes : Admissible(k) => Admissible(k)'
      BY <1>1, <1>3, <2>1, <2>2, OrderRewrites DEF Ordered, Ended
    <2>4. StagesAgree'
      BY <1>1, <1>3, <2>1, <2>2, <2>3, StagesWorker DEF Ordered
    <2>5. QED BY <2>3, <2>4 DEF Ordered
  <1>4. QED BY <1>2, <1>3, ClaimFailsWrites

LEMMA AskingOrder == ASSUME Typed, Ordered, Asking PROVE Ordered'
  <1>1. worker.at = "claimed" /\ UNCHANGED <<journal, review>>
    BY DEF Asking, Accepted, LostAfter, Needless, Refused, NotSent
  <1>2. \E kind, e : CalendarAnswers(kind, e)
    BY DEF Asking, Accepted, LostAfter, Needless, Refused, NotSent
  <1>3. worker'.at = "answered" /\ worker'.change = worker.change
    BY <1>2 DEF CalendarAnswers, Typed, WorkerTyped, WorkerType
  <1>4. ChangesInOrder'
    BY <1>1, OrderQuiet DEF Ordered
  <1>5. StagesAgree'
    BY <1>1, <1>3, StagesQuiet DEF Ordered
  <1>6. QED BY <1>4, <1>5 DEF Ordered

LEMMA RecordedIs ==
    ASSUME Typed, NEW change \in ChangeType, worker.at = "answered"
    PROVE  /\ Recorded(change).status \in {"repair", "waiting", "rejected", "uncertain"}
           /\ Recorded(change).checked = change.checked /\ Recorded(change).applied = change.applied
           /\ Recorded(change).deleting = change.deleting /\ Recorded(change).event = change.event
           /\ IF worker.answer = "ok"
              THEN Recorded(change).status = "repair" /\ Recorded(change).receipt = worker.event
              ELSE Recorded(change).status # "repair" /\ Recorded(change).receipt = change.receipt
  <1>1. worker.answer \in {"ok", "rejected", "offline", "authentication", "uncertain"}
    BY DEF Typed, WorkerTyped, WorkerType
  <1>2. CASE worker.answer = "ok"
    BY <1>2 DEF Recorded, ChangeType
  <1>3. CASE worker.answer \in {"offline", "authentication"}
    BY <1>3 DEF Recorded, Postponed, ChangeType
  <1>4. CASE worker.answer \in {"rejected", "uncertain"}
    BY <1>4 DEF Recorded, ChangeType
  <1>5. QED BY <1>1, <1>2, <1>3, <1>4

LEMMA RecordOrder == ASSUME Typed, Ordered, Record PROVE Ordered'
  <1> DEFINE c == worker.change
             change == Recorded(journal[c])
  <1>1. c \in Changes /\ change \in ChangeType /\ Rewrites(c, change) /\ worker.at = "answered"
    BY RecordWrites DEF Record
  <1>2. journal[c].status = "running" /\ Admissible(c) /\ review.at # "reading" /\ journal[c] \in ChangeType
    BY <1>1, ChangesAre DEF Ordered, StagesAgree
  <1>3. ~journal[c].checked /\ ~journal[c].applied
    BY <1>1, <1>2 DEF Ordered, StagesAgree, WellMarked, ChangeType
  <1>4. /\ change.status \in {"repair", "waiting", "rejected", "uncertain"}
        /\ ~change.checked /\ ~change.applied
        /\ worker.answer = "ok" => change.status = "repair"
    BY <1>1, <1>2, <1>3, RecordedIs
  <1>5. worker' = (IF worker.answer = "ok" THEN [worker EXCEPT !.at = "recorded"] ELSE NoWork)
        /\ review'.at = review.at
    BY StaleKeeps DEF Record, Write
  <1>6. /\ worker'.at # "idle" => worker'.change = c
        /\ worker'.at \in {"idle", "recorded"}
        /\ worker'.at = "recorded" => worker.answer = "ok"
    BY <1>5, NoWorkTyped DEF Typed, WorkerTyped, WorkerType
  <1> HIDE DEF change
  <1>7. ChangesInOrder' /\ \A k \in Changes : Admissible(k) => Admissible(k)'
    BY <1>1, <1>2, OrderRewrites DEF Ordered, Ended
  <1>8. WellMarked(change)
    BY <1>4 DEF WellMarked
  <1>9. worker'.at = "recorded" => Repairs(change)
    BY <1>4, <1>6 DEF Repairs
  <1>10. StagesAgree'
    BY <1>1, <1>2, <1>5, <1>6, <1>7, <1>8, <1>9, StagesWorker DEF Ordered
  <1>11. QED BY <1>7, <1>10 DEF Ordered

LEMMA RecordFailsOrder == ASSUME Typed, Ordered, RecordFails PROVE Ordered'
  <1>1. worker.at = "answered" /\ worker' = [worker EXCEPT !.at = "unrecorded"] /\ UNCHANGED <<journal, review>>
    BY DEF RecordFails
  <1>2. worker'.at = "unrecorded" /\ worker'.change = worker.change
    BY <1>1 DEF Typed, WorkerTyped, WorkerType
  <1>3. ChangesInOrder'
    BY <1>1, OrderQuiet DEF Ordered
  <1>4. StagesAgree'
    BY <1>1, <1>2, StagesQuiet DEF Ordered
  <1>5. QED BY <1>3, <1>4 DEF Ordered

LEMMA MarkOrder == ASSUME Typed, Ordered, MarkUncertain PROVE Ordered'
  <1> DEFINE c == worker.change
             change == Unrecorded(journal[c])
  <1>1. /\ c \in Changes /\ change \in ChangeType
        /\ worker'.at = "idle" /\ review'.at = review.at
    BY MarkWrites, NoWorkTyped, StaleKeeps DEF MarkUncertain, Write
  <1>2. CASE UNCHANGED journal
    <2>1. ChangesInOrder'
      BY <1>2, OrderQuiet DEF Ordered
    <2>2. StagesAgree'
      BY <1>1, <1>2, StagesQuiet DEF Ordered
    <2>3. QED BY <2>1, <2>2 DEF Ordered
  <1>3. CASE Rewrites(c, change)
    <2>1. journal[c].status = "running" /\ Admissible(c) /\ journal[c] \in ChangeType
      BY <1>1, ChangesAre DEF Ordered, StagesAgree, MarkUncertain
    <2>2. change.status = "uncertain" /\ change.checked = journal[c].checked /\ change.applied = journal[c].applied
      BY <2>1 DEF Unrecorded, ChangeType
    <2>3. WellMarked(change)
      BY <1>1, <2>1, <2>2 DEF Ordered, StagesAgree, WellMarked
    <2> HIDE DEF change
    <2>4. ChangesInOrder' /\ \A k \in Changes : Admissible(k) => Admissible(k)'
      BY <1>1, <1>3, <2>1, OrderRewrites DEF Ordered, Ended
    <2>5. StagesAgree'
      BY <1>1, <1>3, <2>3, <2>4, StagesWorker DEF Ordered
    <2>6. QED BY <2>4, <2>5 DEF Ordered
  <1>4. QED BY <1>2, <1>3, MarkWrites

LEMMA AppliedIs ==
    ASSUME NEW change \in ChangeType
    PROVE  /\ Applied(change).status = IF NeedsCheck(change) THEN "repair" ELSE "succeeded"
           /\ Applied(change).applied /\ Applied(change).checked = change.checked
           /\ Applied(change).deleting = change.deleting /\ Applied(change).receipt = change.receipt
           /\ Applied(change).event = change.event
  BY DEF Applied, ChangeType

LEMMA ApplyOrder == ASSUME Typed, Ordered, Apply PROVE Ordered'
  <1> DEFINE c == worker.change
             change == Applied(journal[c])
  <1>1. /\ c \in Changes /\ change \in ChangeType
        /\ worker'.at = "idle"
    BY ApplyWrites, NoWorkTyped DEF Apply
  <1>2. CASE ~Repairs(journal[c])
    <2>1. UNCHANGED <<journal, review>>
      BY <1>2 DEF Apply
    <2>2. ChangesInOrder'
      BY <2>1, OrderQuiet DEF Ordered
    <2>3. StagesAgree'
      BY <1>1, <2>1, StagesQuiet DEF Ordered
    <2>4. QED BY <2>2, <2>3 DEF Ordered
  <1>3. CASE Repairs(journal[c])
    <2>1. Rewrites(c, change)
      BY <1>3, ApplyWrites
    <2>2. journal[c].status = "repair" /\ ~journal[c].checked
      BY <1>3 DEF Repairs
    <2>3. WellMarked(change)
      BY <1>1, <2>2, ChangesAre, AppliedIs DEF WellMarked
    <2> HIDE DEF change
    <2>4. ChangesInOrder' /\ \A k \in Changes : Admissible(k) => Admissible(k)'
      BY <1>1, <2>1, <2>2, OrderRewrites DEF Ordered, Ended
    <2>5. StagesAgree'
      BY <1>1, <2>1, <2>3, <2>4, StagesWorker DEF Ordered
    <2>6. QED BY <2>4, <2>5 DEF Ordered
  <1>4. QED BY <1>2, <1>3

LEMMA ApplyFailsOrder == ASSUME Typed, Ordered, ApplyFails PROVE Ordered'
  <1>1. UNCHANGED <<journal, review>> /\ worker'.at = "idle"
    BY NoWorkTyped DEF ApplyFails
  <1>2. ChangesInOrder'
    BY <1>1, OrderQuiet DEF Ordered
  <1>3. StagesAgree'
    BY <1>1, StagesQuiet DEF Ordered
  <1>4. QED BY <1>2, <1>3 DEF Ordered

LEMMA CheckOrder ==
    ASSUME Typed, Ordered, CheckStep \/ (\E c \in Changes : CheckBegins(c))
    PROVE  Ordered'
  <1>1. CASE UNCHANGED <<journal, worker>> /\ (review'.at \in {review.at, "none", "begun"} \/ Access)
    <2>1. ChangesInOrder'
      BY <1>1, OrderQuiet DEF Ordered
    <2>2. StagesAgree'
      BY <1>1, <2>1, StagesQuiet DEF Ordered, Access
    <2>3. QED BY <2>1, <2>2 DEF Ordered
  <1>2. CASE CheckSaves
    <2> DEFINE c == review.change
               change == [journal[c] EXCEPT !.checked = TRUE, !.observed = review.event]
    <2>1. c \in Changes /\ review'.at = "none" /\ review.at = "reading"
      BY <1>2, CheckWrites, NoWorkTyped DEF CheckSaves
    <2>2. \/ UNCHANGED <<journal, worker>>
          \/ /\ change \in ChangeType /\ journal[c].status \in {"uncertain", "repair"}
             /\ Rewrites(c, change) /\ worker'.at = worker.at /\ worker'.change = worker.change
      <3>1. \/ UNCHANGED <<journal, worker>>
            \/ /\ review.fresh /\ journal[c].status \in {"uncertain", "repair"}
               /\ worker' = Stale(worker, {c}) /\ journal' = [journal EXCEPT ![c] = change]
        BY <1>2 DEF CheckSaves
      <3>2. CASE worker' = Stale(worker, {c}) /\ journal' = [journal EXCEPT ![c] = change]
                 /\ journal[c].status \in {"uncertain", "repair"}
        <4>1. change \in ChangeType /\ change.previous = journal[c].previous
          <5>1. journal[c] \in ChangeType /\ review.event \in Events
            BY <2>1, ChangesAre DEF Typed, ReviewTyped, ReviewType
          <5>2. QED BY <5>1, CheckedType
        <4> HIDE DEF change
        <4>2. QED BY <2>1, <3>2, <4>1, RewritesExcept, StaleKeeps
      <3>3. QED BY <3>1, <3>2
    <2>3. CASE UNCHANGED <<journal, worker>>
      BY <1>1, <2>1, <2>3
    <2>4. CASE /\ change \in ChangeType /\ journal[c].status \in {"uncertain", "repair"}
               /\ Rewrites(c, change) /\ worker'.at = worker.at /\ worker'.change = worker.change
      <3>1. change.status = journal[c].status /\ change.checked /\ change.applied = journal[c].applied
        BY <2>1, ChangesAre DEF ChangeType
      <3>2. WellMarked(change)
        BY <2>1, <2>4, <3>1 DEF Ordered, StagesAgree, WellMarked
      <3>3. worker.at # "recorded"
        BY <2>1 DEF Ordered, StagesAgree
      <3> HIDE DEF change
      <3>4. ChangesInOrder' /\ \A k \in Changes : Admissible(k) => Admissible(k)'
        BY <2>1, <2>4, <3>1, OrderRewrites DEF Ordered
      <3>5. StagesAgree'
        BY <2>1, <2>4, <3>2, <3>3, <3>4, StagesRewrites DEF Ordered
      <3>6. QED BY <3>4, <3>5 DEF Ordered
    <2>5. QED BY <2>2, <2>3, <2>4
  <1>3. CASE CheckReads \/ CheckFails \/ (\E c \in Changes : CheckBegins(c))
    <2>1. UNCHANGED <<journal, worker>> /\ (Access \/ review' = NoReview \/ review'.at = "begun")
      BY <1>3 DEF CheckReads, CheckFails, CheckBegins, NoReview
    <2>2. review'.at \in {review.at, "none", "begun"} \/ Access
      BY <2>1, NoWorkTyped
    <2>3. QED BY <1>1, <2>1, <2>2
  <1>4. QED BY <1>2, <1>3 DEF CheckStep

LEMMA AdmitWrites ==
    ASSUME Typed, Admit
    PROVE  \E text \in Contents, deletes \in BOOLEAN, event \in Events :
              LET n == Len(journal) IN
              /\ event = [form EXCEPT !.content = IF deletes THEN @ ELSE text] /\ form # Nothing
              /\ Len(journal') = n + 1 /\ Changes' = Changes \cup {n + 1} /\ n + 1 \notin Changes
              /\ journal'[n + 1] = Change(event, deletes, Previous(event))
              /\ \A k \in Changes :
                    \/ journal'[k] = journal[k]
                    \/ /\ journal[k].status = "rejected"
                       /\ journal'[k] = [journal[k] EXCEPT !.status = "cancelled"]
  <1>1. PICK text \in Contents, deletes \in BOOLEAN :
            LET event == [form EXCEPT !.content = IF deletes THEN @ ELSE text] IN
            journal' = Append(GivenWay(Previous(event)), Change(event, deletes, Previous(event)))
    BY DEF Admit
  <1> DEFINE event == [form EXCEPT !.content = IF deletes THEN @ ELSE text]
             before == Previous(event)
             given == GivenWay(before)
             new == Change(event, deletes, before)
  <1>2. form \in Events /\ form # Nothing
    BY DEF Admit, Typed, EventsTyped
  <1>3. event \in Events
    BY <1>2 DEF Events, Texts
  <1>4. journal' = Append(given, new)
    BY <1>1
  <1>5. Kept(given) /\ \A k \in Changes :
                          \/ given[k] = journal[k]
                          \/ /\ journal[k].status = "rejected"
                             /\ given[k] = [journal[k] EXCEPT !.status = "cancelled"]
    BY KeptGiven DEF GivenWay
  <1>6. before = Previous(event) /\ event = [form EXCEPT !.content = IF deletes THEN @ ELSE text]
    OBVIOUS
  <1> HIDE DEF event, before, given, new
  <1>7. given \in Seq(ChangeType) /\ Len(given) = Len(journal) /\ Len(journal) \in Nat
        /\ Changes = 1 .. Len(journal)
    BY <1>5, ChangesAre DEF Kept
  <1>8. /\ Len(journal') = Len(journal) + 1
        /\ \A k \in 1 .. Len(journal) : journal'[k] = given[k]
        /\ journal'[Len(journal) + 1] = new
        /\ DOMAIN journal' = 1 .. Len(journal) + 1
    BY <1>4, <1>7
  <1>9. Changes' = Changes \cup {Len(journal) + 1} /\ Len(journal) + 1 \notin Changes
    BY <1>7, <1>8 DEF Changes
  <1>10. journal'[Len(journal) + 1] = Change(event, deletes, Previous(event))
    BY <1>6, <1>8 DEF new
  <1>11. QED BY <1>2, <1>3, <1>5, <1>6, <1>7, <1>8, <1>9, <1>10

LEMMA ChainedAdmit ==
    ASSUME Typed, Len(journal') = Len(journal) + 1,
           \A k \in Changes : journal'[k].previous = journal[k].previous
    PROVE  Chained' <=> Chained /\ (journal # <<>> => journal'[Len(journal) + 1].previous = Len(journal))
  <1>1. Changes = 1 .. Len(journal) /\ Len(journal) \in Nat
    BY ChangesAre
  <1>2. journal # <<>> <=> Len(journal) >= 1
    BY EmptySeq DEF Typed, JournalTyped
  <1>3. ASSUME Chained'
        PROVE  Chained /\ (journal # <<>> => journal'[Len(journal) + 1].previous = Len(journal))
    <2>1. \A k \in 2 .. Len(journal) + 1 : journal'[k].previous = k - 1
      BY <1>3 DEF Chained, ChainedTo
    <2>2. \A k \in 2 .. Len(journal) : journal[k].previous = k - 1
      BY <1>1, <2>1
    <2>3. journal # <<>> => journal'[Len(journal) + 1].previous = Len(journal)
      BY <1>1, <1>2, <2>1
    <2>4. QED BY <2>2, <2>3 DEF Chained, ChainedTo
  <1>4. ASSUME Chained, journal # <<>> => journal'[Len(journal) + 1].previous = Len(journal)
        PROVE  Chained'
    <2>1. \A k \in 2 .. Len(journal) : journal'[k].previous = k - 1
      BY <1>1, <1>4 DEF Chained, ChainedTo
    <2>2. \A k \in 2 .. Len(journal) + 1 : journal'[k].previous = k - 1
      BY <1>1, <1>2, <1>4, <2>1
    <2>3. QED BY <2>2 DEF Chained, ChainedTo
  <1>5. QED BY <1>3, <1>4

LEMMA AdmitOrder == ASSUME Typed, Ordered, Admit PROVE Ordered'
  <1> DEFINE n == Len(journal)
  <1>1. PICK text \in Contents, deletes \in BOOLEAN, event \in Events :
              /\ Len(journal') = n + 1 /\ Changes' = Changes \cup {n + 1} /\ n + 1 \notin Changes
              /\ journal'[n + 1] = Change(event, deletes, Previous(event))
              /\ \A k \in Changes :
                    \/ journal'[k] = journal[k]
                    \/ /\ journal[k].status = "rejected"
                       /\ journal'[k] = [journal[k] EXCEPT !.status = "cancelled"]
    BY AdmitWrites
  <1>2. journal'[n + 1].status = "queued" /\ ~journal'[n + 1].checked /\ ~journal'[n + 1].applied
    BY <1>1 DEF Change
  <1>3. \A k \in Changes : /\ journal'[k].previous = journal[k].previous
                           /\ journal'[k].checked = journal[k].checked
                           /\ journal'[k].applied = journal[k].applied
                           /\ \/ journal'[k].status = journal[k].status
                              \/ journal[k].status = "rejected" /\ journal'[k].status = "cancelled"
    BY <1>1, ChangesAre, ZenonT(60) DEF ChangeType
  <1>4. Changes = 1 .. n /\ n \in Nat /\ \A k \in Changes : journal[k].previous \in 0 .. k - 1
    BY ChangesAre DEF Typed, JournalTyped
  <1>5. ASSUME NEW k \in Changes, Admissible(k)
        PROVE  Admissible(k)'
    <2>1. journal[k].previous # 0 => journal[k].previous \in Changes
      BY <1>4
    <2>2. QED BY <1>3, <1>5, <2>1 DEF Admissible, Ended
  <1>6. Chained' => Chained
    BY <1>1, <1>3, ChainedAdmit
  <1>7. \A k \in Changes' : journal'[k].status # "queued" => Admissible(k)'
    BY <1>1, <1>2, <1>3, <1>5 DEF Ordered, ChangesInOrder
  <1>8. ASSUME Chained', NEW c \in Changes', journal'[c].status # "queued", NEW k \in 1 .. c - 1
        PROVE  journal'[k].status \in Ended
    <2>0. c \in Changes
      BY <1>1, <1>2, <1>8
    <2>1. c \in Changes /\ journal[c].status # "queued" /\ k \in Changes
      <3>1. k \in 1 .. n
        BY <1>4, <1>8, <2>0
      <3>2. QED BY <1>3, <1>4, <1>8, <2>0, <3>1
    <2>2. journal[k].status \in Ended
      BY <1>6, <1>8, <2>1 DEF Ordered, ChangesInOrder
    <2>3. QED BY <1>3, <2>1, <2>2 DEF Ended
  <1>9. ChangesInOrder'
    BY <1>7, <1>8 DEF ChangesInOrder
  <1>10. \A k \in Changes' : WellMarked(journal'[k])
    BY <1>1, <1>2, <1>3 DEF Ordered, StagesAgree, WellMarked
  <1>11. worker' = worker /\ review'.at = review.at
    BY StaleKeeps DEF Admit
  <1>12. worker.at # "idle" => worker.change \in Changes
    BY ClaimedChange
  <1>13. worker.at # "idle" => Admissible(worker.change)'
    <2>1. worker.at # "idle" => Admissible(worker.change)
      BY DEF Ordered, StagesAgree
    <2>2. QED BY <1>5, <1>11, <1>12, <2>1 DEF Admissible
  <1>14. worker.at \in {"claimed", "answered", "unrecorded"} => journal'[worker.change].status = "running"
    BY <1>3, <1>12 DEF Ordered, StagesAgree
  <1>15. worker.at = "recorded" => Repairs(journal'[worker.change])
    BY <1>3, <1>12 DEF Ordered, StagesAgree, Repairs
  <1>16. StagesAgree'
    BY <1>10, <1>11, <1>13, <1>14, <1>15 DEF Ordered, StagesAgree, Admissible
  <1>17. QED BY <1>9, <1>16 DEF Ordered

LEMMA RestartWrites ==
    ASSUME Typed, Restart
    PROVE  /\ Len(journal') = Len(journal) /\ Changes' = Changes
           /\ \A k \in Changes :
                 \/ journal[k].status # "running" /\ journal'[k] = journal[k]
                 \/ /\ journal[k].status = "running"
                    /\ journal'[k] = [journal[k] EXCEPT !.status = "uncertain"]
  <1>1. journal' = [c \in Changes |-> Recovered(journal[c])]
    BY DEF Restart
  <1>2. Len(journal') = Len(journal)
    BY <1>1, KeptRecovered DEF Kept
  <1>3. \A k \in Changes : journal'[k] = Recovered(journal[k])
    BY <1>1
  <1>4. Changes' = Changes
    BY <1>1 DEF Changes
  <1>5. QED BY <1>2, <1>3, <1>4 DEF Recovered

LEMMA RestartOrder == ASSUME Typed, Ordered, Restart PROVE Ordered'
  <1>1. ASSUME NEW k \in Changes
        PROVE  /\ journal'[k].previous = journal[k].previous
               /\ journal'[k].checked = journal[k].checked /\ journal'[k].applied = journal[k].applied
               /\ \/ journal'[k].status = journal[k].status
                  \/ journal[k].status = "running" /\ journal'[k].status = "uncertain"
    BY RestartWrites, ChangesAre DEF ChangeType
  <1>2. ChangesInOrder'
    BY <1>1, RestartWrites, OrderKept DEF Ordered, Ended
  <1>3. \A k \in Changes' : WellMarked(journal'[k])
    BY <1>1, RestartWrites DEF Ordered, StagesAgree, WellMarked
  <1>4. worker'.at = "idle"
    BY NoWorkTyped DEF Restart
  <1>5. StagesAgree'
    BY <1>3, <1>4 DEF StagesAgree
  <1>6. QED BY <1>2, <1>5 DEF Ordered

LEMMA NextOrder == Typed /\ Ordered /\ [CalendarNext]_calendarVars => Ordered'
  <1> SUFFICES ASSUME Typed, Ordered, [CalendarNext]_calendarVars PROVE Ordered'
    OBVIOUS
  <1>1. CASE UNCHANGED <<journal, worker, review>>
    <2>1. ChangesInOrder'
      BY <1>1, OrderQuiet DEF Ordered
    <2>2. StagesAgree'
      BY <1>1, StagesQuiet DEF Ordered
    <2>3. QED BY <2>1, <2>2 DEF Ordered
  <1>2. CASE OpenForm \/ CloseForm \/ RefreshEvents \/ OtherClient \/ UNCHANGED calendarVars
    BY <1>1, <1>2 DEF OpenForm, CloseForm, RefreshEvents, OtherClient, calendarVars
  <1>3. CASE \E c \in Changes : RetryChange(c) \/ ResolveChange(c) \/ Pick(c)
    BY <1>3, RetryOrder, ResolveOrder, PickOrder
  <1>4. CASE Step
    <2>1. CASE Asking
      BY <2>1, AskingOrder
    <2>2. QED BY <1>4, <2>1, ClaimOrder, ClaimFailsOrder, RecordOrder, RecordFailsOrder, MarkOrder,
                 ApplyOrder, ApplyFailsOrder DEF Step, Asking
  <1>5. CASE CheckStep \/ (\E c \in Changes : CheckBegins(c))
    BY <1>5, CheckOrder
  <1>6. QED BY <1>2, <1>3, <1>4, <1>5, AdmitOrder, RestartOrder DEF CalendarNext

----------------------------------------------------------------------------
(* What a change is told of the event, while nobody else changes it. *)

(* The facts about change k that ToldOf rests on stay. *)
Stays(k) ==
    /\ journal'[k].status = "succeeded" => journal[k].status = "succeeded"
    /\ Repairs(journal'[k]) => Repairs(journal[k])
    /\ journal'[k].deleting = journal[k].deleting /\ journal'[k].receipt = journal[k].receipt
    /\ worker'.at = "claimed" /\ worker'.change = k =>
          worker.at = "claimed" /\ worker.change = k /\ journal'[k].event = journal[k].event
    /\ worker'.at = "answered" /\ worker'.change = k =>
          /\ worker.at = "answered" /\ worker.change = k
          /\ worker'.answer = worker.answer /\ worker'.event = worker.event

LEMMA ToldStays ==
    ASSUME Typed, Told, UNCHANGED <<foreign, remote, effects>>,
           Changes' = Changes, Len(journal') = Len(journal), Chained' = Chained,
           journal # <<>>, journal'[1].event = journal[1].event,
           \A k \in Changes : foreign = 0 /\ Chained /\ remote # Nothing /\ EarlierDone(k)' =>
                                 (EarlierDone(k) /\ Stays(k)) \/ ToldOf(k)'
    PROVE  Told'
  <1> SUFFICES ASSUME foreign = 0, Chained
               PROVE  journal' # <<>> /\ ToldFirst' /\ (remote # Nothing => \A k \in Changes : EarlierDone(k)' => ToldOf(k)')
    BY DEF Told
  <1>1. journal' # <<>>
    <2>1. Len(journal) # 0
      BY EmptySeq DEF Typed, JournalTyped
    <2>2. QED BY <2>1
  <1>2. ToldFirst'
    BY DEF Told, ToldFirst, Knows
  <1>3. ASSUME remote # Nothing, NEW k \in Changes, EarlierDone(k)'
        PROVE  ToldOf(k)'
    <2>1. CASE EarlierDone(k) /\ Stays(k)
      <3>1. ToldOf(k)
        BY <1>3, <2>1 DEF Told
      <3>2. QED BY <2>1, <3>1 DEF ToldOf, Stays, Knows, KnowsBut
    <2>2. QED BY <1>3, <2>1
  <1>4. QED BY <1>1, <1>2, <1>3

LEMMA NotEmpty == ASSUME Typed PROVE Changes # {} <=> journal # <<>>
  BY ChangesAre, EmptySeq DEF Typed, JournalTyped

LEMMA ToldRewrites ==
    ASSUME Typed, Ordered, Told, NEW c \in Changes, NEW change \in ChangeType, Rewrites(c, change),
           Chained' = Chained, UNCHANGED <<foreign, remote, effects>>,
           c = 1 => change.event = journal[c].event,
           change.status = "succeeded" => journal[c].status = "repair",
           worker'.at \in {"claimed", "answered"} /\ worker'.change # c =>
              /\ worker'.at = worker.at /\ worker'.change = worker.change
              /\ worker'.answer = worker.answer /\ worker'.event = worker.event,
           foreign = 0 /\ Chained /\ remote # Nothing /\ EarlierDone(c) => ToldOf(c)'
    PROVE  Told'
  <1>1. Changes = 1 .. Len(journal) /\ Len(journal) \in Nat /\ journal # <<>> /\ 1 \in Changes
    BY ChangesAre, NotEmpty
  <1>2. journal'[1].event = journal[1].event
    <2>1. CASE c = 1
      BY <2>1 DEF Rewrites
    <2>2. CASE c # 1
      <3>1. journal[1].previous = 0 /\ c # 0
        BY <1>1 DEF Typed, JournalTyped
      <3>2. QED BY <1>1, <2>2, <3>1, RewritesOthers
    <2>3. QED BY <2>1, <2>2
  <1>3. \A k \in Changes : k # c => SameBut(journal[k], journal'[k]) /\
              (journal[k].status # "queued" => journal'[k] = journal[k])
    BY RewritesOthers
  <1>4. journal'[c] = change /\ Changes' = Changes /\ Len(journal') = Len(journal)
    BY DEF Rewrites
  <1>5. ASSUME NEW k \in Changes, foreign = 0, Chained, remote # Nothing, EarlierDone(k)'
        PROVE  (EarlierDone(k) /\ Stays(k)) \/ ToldOf(k)'
    <2>1. \A i \in 1 .. k - 1 : i \in Changes /\ journal'[i].status = "succeeded"
      BY <1>1, <1>5 DEF EarlierDone
    <2>2. CASE k = c
      <3>1. EarlierDone(c)
        BY <1>1, <1>3, <2>1, <2>2 DEF EarlierDone, SameBut
      <3>2. QED BY <1>5, <2>2, <3>1
    <2>3. CASE k # c
      <3>1. SameBut(journal[k], journal'[k]) /\ (journal[k].status # "queued" => journal'[k] = journal[k])
        BY <1>3, <2>3
      <3>2. worker.at \in {"claimed", "answered"} /\ worker.change = k => journal[k].status = "running"
        BY DEF Ordered, StagesAgree
      <3>3. CASE c \in 1 .. k - 1
        <4>1. journal[c].status = "repair"
          BY <1>4, <2>1, <3>3
        <4>2. journal[k].status = "queued"
          BY <1>1, <1>5, <3>3, <4>1 DEF Ordered, ChangesInOrder, Ended
        <4>3. journal'[k].status = "queued"
          BY <3>1, <4>2 DEF SameBut
        <4>4. ~(worker'.at \in {"claimed", "answered"} /\ worker'.change = k)
          BY <2>3, <3>2, <4>2
        <4>5. QED BY <4>3, <4>4 DEF ToldOf, Repairs
      <3>4. CASE c \notin 1 .. k - 1
        <4>1. EarlierDone(k)
          BY <1>3, <2>1, <3>4 DEF EarlierDone, SameBut
        <4>2. worker'.at \in {"claimed", "answered"} /\ worker'.change = k =>
                 /\ worker'.at = worker.at /\ worker.change = k /\ journal'[k] = journal[k]
                 /\ worker'.answer = worker.answer /\ worker'.event = worker.event
          BY <2>3, <3>1, <3>2
        <4>3. Stays(k)
          BY <3>1, <4>2 DEF Stays, SameBut, Repairs
        <4>4. QED BY <4>1, <4>3
      <3>5. QED BY <3>3, <3>4
    <2>4. QED BY <2>2, <2>3
  <1>6. QED BY <1>1, <1>2, <1>4, <1>5, ToldStays

LEMMA RewrittenTold ==
    ASSUME Typed, Ordered, Told, NEW c \in Changes, RetryChange(c) \/ ResolveChange(c)
    PROVE  Told'
  <1>1. UNCHANGED <<foreign, remote, effects>>
    BY DEF RetryChange, ResolveChange, Server, calendarCounts
  <1>2. worker'.at = worker.at /\ worker'.change = worker.change /\ worker'.answer = worker.answer
        /\ worker'.event = worker.event
    BY StaleKeeps DEF RetryChange, ResolveChange
  <1>3. PICK change \in ChangeType :
            /\ Rewrites(c, change)
            /\ change.event = journal[c].event
            /\ change.status \in {"queued", "cancelled"}
            /\ change.status = "queued" => journal[c].status = "waiting"
    <2>1. CASE RetryChange(c)
      <3>1. PICK change \in ChangeType :
                /\ Rewrites(c, change)
                /\ change = [journal[c] EXCEPT !.status = "queued", !.attempts = 0, !.due = FALSE]
        BY <2>1, RetryWrites
      <3>2. change.event = journal[c].event /\ change.status = "queued"
        BY <3>1, ChangesAre DEF ChangeType
      <3>3. QED BY <2>1, <3>1, <3>2 DEF RetryChange
    <2>2. CASE ResolveChange(c)
      <3>1. Resolved(journal[c]).event = journal[c].event /\ Resolved(journal[c]).status = "cancelled"
        BY ChangesAre DEF Resolved, ChangeType
      <3>2. QED BY <2>2, <3>1, ResolveWrites
    <2>3. QED BY <2>1, <2>2
  <1>4. journal[c].status # "running"
    BY DEF RetryChange, ResolveChange, Resolvable, Ordered, StagesAgree
  <1>5. ~(worker.at \in {"claimed", "answered"} /\ worker.change = c)
    BY <1>4 DEF Ordered, StagesAgree
  <1>6. journal'[c] = change
    BY <1>3 DEF Rewrites
  <1>7. ToldOf(c)'
    BY <1>2, <1>3, <1>5, <1>6 DEF ToldOf, Repairs
  <1>8. Chained' = Chained
    <2>1. journal[c].status \in Ended => change.status \in Ended
      BY <1>3 DEF Ended
    <2>2. change.status # "queued" => journal[c].status # "queued"
      BY DEF RetryChange, ResolveChange, Resolvable, Ordered, StagesAgree
    <2>3. QED BY <1>3, <2>1, <2>2, OrderRewrites DEF Ordered
  <1>9. QED BY <1>1, <1>2, <1>3, <1>7, <1>8, ToldRewrites

(* Those after a change that has not ended have asked the server nothing. *)
LEMMA LaterWait ==
    ASSUME Typed, Ordered, RequestsOnce, Chained, NEW c \in Changes, journal[c].status \notin Ended
    PROVE  \A k \in Changes : k > c => journal[k].status = "queued" /\ effects[k] = 0
  <1> SUFFICES ASSUME NEW k \in Changes, k > c
               PROVE  journal[k].status = "queued" /\ effects[k] = 0
    OBVIOUS
  <1>1. Changes = 1 .. Len(journal) /\ Len(journal) \in Nat
    BY ChangesAre
  <1>2. c \in 1 .. k - 1
    BY <1>1
  <1>3. journal[k].status = "queued"
    BY <1>2 DEF Ordered, ChangesInOrder
  <1>4. QED BY <1>1, <1>3 DEF RequestsOnce, Retriable

LEMMA ClaimTold == ASSUME Typed, Ordered, RequestsOnce, Told, Claim PROVE Told'
  <1> DEFINE c == worker.change
             inherited == Inherited(journal[c])
  <1>1. PICK change \in ChangeType :
            /\ c \in Changes /\ Rewrites(c, change)
            /\ change = [journal[c] EXCEPT !.status = "running", !.event = inherited,
                                           !.attempts = @ + 1, !.due = FALSE]
    BY ClaimWrites
  <1>2. journal[c].status \in Retriable /\ Admissible(c) /\ UNCHANGED <<foreign, remote, effects>>
    BY DEF Claim, Dispatchable, Server, calendarCounts, Retriable
  <1>3. worker'.at = "claimed" /\ worker'.change = c
    BY DEF Claim, Typed, WorkerTyped, WorkerType
  <1>4. Changes = 1 .. Len(journal) /\ Len(journal) \in Nat /\ journal[c] \in ChangeType
    BY <1>1, ChangesAre
  <1>5. change.status = "running" /\ change.event = inherited
    BY <1>1, <1>4 DEF ChangeType
  <1>6. journal[c].previous = 0 => inherited = journal[c].event
    BY DEF Inherited
  <1> HIDE DEF inherited
  <1>7. c = 1 => journal[c].previous = 0
    BY <1>1, <1>4 DEF Typed, JournalTyped
  <1>8. ASSUME foreign = 0, Chained, remote # Nothing, EarlierDone(c)
        PROVE  Knows(inherited)
    <2>1. \A k \in Changes : k >= c => effects[k] = 0
      <3>1. effects[c] = 0
        BY <1>1, <1>2, <1>4 DEF RequestsOnce
      <3>2. \A k \in Changes : k > c => effects[k] = 0
        BY <1>1, <1>2, <1>8, LaterWait DEF Retriable, Ended
      <3>3. QED BY <1>1, <1>4, <3>1, <3>2
    <2>2. journal # <<>>
      BY <1>1, NotEmpty
    <2>3. CASE c = 1
      <3>1. \A k \in Changes : effects[k] = 0
        BY <1>4, <2>1, <2>3
      <3>2. Knows(journal[1].event)
        BY <1>8, <2>2, <3>1 DEF Told, ToldFirst
      <3>3. QED BY <1>6, <1>7, <2>3, <3>2
    <2>4. CASE c # 1
      <3>1. c - 1 \in Changes /\ c \in 2 .. Len(journal) /\ c - 1 \in 1 .. c - 1
        BY <1>1, <1>4, <2>4
      <3> DEFINE p == c - 1
      <3>2. journal[c].previous = p /\ p # 0
        BY <1>8, <3>1 DEF Chained, ChainedTo
      <3>3. journal[p].status = "succeeded" /\ EarlierDone(p)
        <4>1. \A k \in 1 .. p - 1 : k \in 1 .. c - 1
          BY <1>4, <3>1
        <4>2. QED BY <1>8, <3>1, <4>1 DEF EarlierDone
      <3>4. ToldOf(p)
        BY <1>8, <2>2, <3>1, <3>3 DEF Told
      <3>5. \A k \in Changes : k > p => effects[k] = 0
        BY <1>4, <2>1, <3>1
      <3>6. Knows(journal[p].receipt)
        BY <3>3, <3>4, <3>5 DEF ToldOf
      <3>7. journal[p].receipt # Nothing
        BY <3>6 DEF Knows, Nothing
      <3>8. Result(journal[p]) = journal[p].receipt
        BY <3>3, <3>7 DEF Result
      <3>9. inherited = Naming(journal[c].event, journal[p].receipt)
        BY <3>2, <3>7, <3>8 DEF Inherited, inherited
      <3>10. journal[c].event \in Events /\ journal[p].receipt \in Events
        BY <1>4, <3>1, ChangesAre DEF ChangeType
      <3>11. QED BY <3>6, <3>9, <3>10 DEF Naming, Knows, Events
    <2>5. QED BY <2>3, <2>4
  <1>9. journal'[c] = change
    BY <1>1 DEF Rewrites
  <1>10. foreign = 0 /\ Chained /\ remote # Nothing /\ EarlierDone(c) => ToldOf(c)'
    BY <1>2, <1>3, <1>5, <1>8, <1>9 DEF ToldOf, Knows, Repairs
  <1>11. Chained' = Chained
    BY <1>1, <1>2, <1>5, OrderRewrites DEF Ordered, Ended, Retriable
  <1>12. c = 1 => change.event = journal[c].event
    BY <1>5, <1>6, <1>7
  <1>13. QED BY <1>1, <1>2, <1>3, <1>5, <1>10, <1>11, <1>12, ToldRewrites

LEMMA ClaimFailsTold == ASSUME Typed, Ordered, Told, ClaimFails PROVE Told'
  <1>0. PICK c \in Changes : c = worker.change
    BY ClaimFailsWrites
  <1> DEFINE change == [journal[c] EXCEPT !.status = "rejected"]
  <1>1. c \in Changes /\ worker'.at = "idle" /\ UNCHANGED <<foreign, remote, effects>>
    BY <1>0, ClaimFailsWrites, NoWorkTyped DEF ClaimFails, Server, Mishap, NoMishap, calendarCounts
  <1>2. journal # <<>>
    BY <1>0, <1>1, NotEmpty
  <1>3. CASE UNCHANGED journal
    <2>1. Chained' = Chained
      BY <1>0, <1>3 DEF Chained, ChainedTo
    <2>2. \A k \in Changes : EarlierDone(k)' => EarlierDone(k) /\ Stays(k)
      BY <1>0, <1>1, <1>3 DEF EarlierDone, Stays
    <2>3. Changes' = Changes /\ journal'[1].event = journal[1].event /\ Len(journal') = Len(journal)
      BY <1>0, <1>3 DEF Changes
    <2>4. QED BY <1>0, <1>1, <1>2, <2>1, <2>2, <2>3, ToldStays
  <1>4. CASE /\ change \in ChangeType /\ journal[c].status \in {"queued", "waiting"} /\ Rewrites(c, change)
    <2>1. change.status = "rejected" /\ change.event = journal[c].event
      BY <1>0, <1>1, ChangesAre DEF ChangeType
    <2> HIDE DEF change
    <2>2. Admissible(c)
      BY <1>0, <1>1 DEF Ordered, StagesAgree, ClaimFails
    <2>3. Chained' = Chained
      BY <1>0, <1>1, <1>4, <2>1, <2>2, OrderRewrites DEF Ordered, Ended
    <2>4. journal'[c] = change
      BY <1>0, <1>4 DEF Rewrites
    <2>5. ToldOf(c)'
      BY <1>0, <1>1, <2>1, <2>4 DEF ToldOf, Repairs
    <2>6. QED BY <1>0, <1>1, <1>4, <2>1, <2>3, <2>5, ToldRewrites
  <1>5. QED BY <1>0, <1>3, <1>4, ClaimFailsWrites

(* The server has what the change saw when it is its turn. *)
LEMMA TurnIsAccepted ==
    ASSUME Typed, Told, worker.at = "claimed", foreign = 0, Chained, remote # Nothing, EarlierDone(worker.change)
    PROVE  Accepts
  <1>1. worker.change \in Changes /\ journal # <<>>
    BY ClaimedChange, NotEmpty
  <1>2. Knows(Event)
    BY <1>1 DEF Told, ToldOf, Event
  <1>3. QED BY <1>2 DEF Knows, Accepts, Creating

LEMMA NothingTakenTold ==
    ASSUME Typed, Ordered, Told, Needless \/ Refused \/ NotSent
    PROVE  Told' /\ collided' = collided
  <1> DEFINE c == worker.change
  <1>1. worker.at = "claimed" /\ UNCHANGED <<journal, remote, effects, foreign>>
    BY DEF Needless, Refused, NotSent, Server, Mishap, calendarCounts
  <1>2. c \in Changes /\ journal # <<>> /\ Changes = 1 .. Len(journal)
    BY <1>1, ClaimedChange, NotEmpty, ChangesAre
  <1>3. /\ worker'.at = "answered" /\ worker'.change = c
        /\ worker'.answer = "ok" => ~Accepts
    BY DEF Needless, Refused, NotSent, CalendarAnswers, Typed, WorkerTyped, WorkerType
  <1>4. journal[c].status = "running"
    BY <1>1 DEF Ordered, StagesAgree
  <1>5. ASSUME NEW k \in Changes, foreign = 0, Chained, remote # Nothing, EarlierDone(k)'
        PROVE  (EarlierDone(k) /\ Stays(k)) \/ ToldOf(k)'
    <2>1. EarlierDone(k)
      BY <1>1, <1>5 DEF EarlierDone
    <2>2. CASE k = c
      <3>1. worker'.answer # "ok"
        BY <1>1, <1>3, <1>5, <2>1, <2>2, TurnIsAccepted
      <3>2. QED BY <1>1, <1>3, <1>4, <2>2, <3>1 DEF ToldOf, Repairs
    <2>3. CASE k # c
      BY <1>1, <1>3, <2>1, <2>3 DEF Stays
    <2>4. QED BY <2>2, <2>3
  <1>6. Chained' = Chained /\ Changes' = Changes /\ Len(journal') = Len(journal)
        /\ journal'[1].event = journal[1].event
    BY <1>1 DEF Chained, ChainedTo, Changes
  <1>7. Told'
    BY <1>1, <1>2, <1>5, <1>6, ToldStays
  <1>8. collided' = collided
    <2>1. CASE Needless \/ NotSent
      BY <2>1 DEF Needless, NotSent, Server
    <2>2. CASE Refused
      <3>1. ~Accepts /\ worker.at = "claimed"
        BY <2>2 DEF Refused
      <3>2. ~Overtaken(c)
        <4>1. Overtaken(c) => foreign = 0 /\ Chained /\ remote # Nothing /\ EarlierDone(c)
          BY DEF Overtaken, Chained, EarlierDone
        <4>2. QED BY <3>1, <4>1, TurnIsAccepted
      <3>3. QED BY <2>2, <3>2 DEF Refused
    <2>3. QED BY <2>1, <2>2
  <1>9. QED BY <1>7, <1>8

LEMMA TakenTold ==
    ASSUME Typed, Ordered, RequestsOnce, Told, Accepted \/ LostAfter
    PROVE  Told'
  <1> DEFINE c == worker.change
  <1>1. worker.at = "claimed" /\ UNCHANGED <<journal, foreign>> /\ Takes
    BY DEF Accepted, LostAfter, Mishap, NoMishap, calendarCounts
  <1>2. /\ c \in Changes /\ journal # <<>> /\ Changes = 1 .. Len(journal) /\ Len(journal) \in Nat
        /\ latest \in Nat
    BY <1>1, ClaimedChange, NotEmpty, ChangesAre DEF Typed, EventsTyped
  <1>3. journal[c].status = "running" /\ effects[c] = 0
    BY <1>1 DEF Ordered, StagesAgree, RequestsOnce
  <1>4. effects' = [effects EXCEPT ![c] = effects[c] + 1] /\ c \in DOMAIN effects
    BY <1>1, <1>2 DEF Takes, Typed, JournalTyped
  <1>5. effects'[c] = 1
    BY <1>3, <1>4
  <1>6. /\ worker'.at = "answered" /\ worker'.change = c
        /\ worker'.answer = "ok" => \E v \in {0, latest + 1} : worker'.event = Receipt(v)
    BY DEF Accepted, LostAfter, CalendarAnswers, Typed, WorkerTyped, WorkerType
  <1>7. ~Deleting => \A v : Receipt(v) = OnServer(v, Event.content)
    BY DEF Receipt
  <1>8. remote' # Nothing => ~journal[c].deleting /\ remote' = OnServer(latest + 1, Event.content)
    BY <1>1 DEF Takes, Deleting
  <1>9. ASSUME NEW k \in Changes, Chained, remote' # Nothing, EarlierDone(k)
        PROVE  ToldOf(k)'
    <2>1. CASE k = c
      <3>1. worker'.answer = "ok" => ~journal[c].deleting /\ worker'.event.url
                                       /\ worker'.event.etag \in {0, remote'.etag}
        <4>1. remote'.etag = latest + 1
          BY <1>8, <1>9 DEF OnServer
        <4>2. worker'.answer = "ok" => worker'.event.url /\ worker'.event.etag \in {0, latest + 1}
          BY <1>6, <1>7, <1>8, <1>9 DEF OnServer, Deleting
        <4>3. worker'.answer = "ok" => worker'.event.url /\ worker'.event.etag \in {0, remote'.etag}
          BY <4>1, <4>2
        <4>4. QED BY <1>8, <1>9, <4>3
      <3>2. QED BY <1>1, <1>3, <1>6, <2>1, <3>1 DEF ToldOf, Repairs, KnowsBut
    <2>2. CASE k < c
      <3>1. k \in 1 .. c - 1
        BY <1>2, <2>2
      <3>2. journal[k].status \in Ended
        BY <1>2, <1>3, <1>9, <3>1 DEF Ordered, ChangesInOrder
      <3>3. ~(\A i \in Changes : i > k => effects'[i] = 0)
        BY <1>2, <1>5, <2>2
      <3>4. worker'.change # k /\ Changes' = Changes
        BY <1>1, <1>2, <1>6, <2>2 DEF Changes
      <3>5. QED BY <1>1, <3>2, <3>3, <3>4 DEF ToldOf, Repairs, Ended
    <2>3. CASE k > c
      <3>1. c \in 1 .. k - 1
        BY <1>2, <2>3
      <3>2. QED BY <1>3, <1>9, <3>1 DEF EarlierDone
    <2>4. QED BY <1>2, <2>1, <2>2, <2>3
  <1>10. Chained' = Chained /\ Changes' = Changes
    BY <1>1 DEF Chained, ChainedTo, Changes
  <1>11. ToldFirst'
    BY <1>2, <1>5, <1>10 DEF ToldFirst
  <1>12. \A k \in Changes : EarlierDone(k)' = EarlierDone(k)
    BY <1>1 DEF EarlierDone
  <1>13. QED BY <1>1, <1>2, <1>9, <1>10, <1>11, <1>12 DEF Told

LEMMA RecordTold == ASSUME Typed, Ordered, Told, Record PROVE Told'
  <1>0. PICK c \in Changes : c = worker.change
    BY RecordWrites
  <1> DEFINE change == Recorded(journal[c])
  <1>1. c \in Changes /\ change \in ChangeType /\ Rewrites(c, change) /\ worker.at = "answered"
        /\ UNCHANGED <<foreign, remote, effects>>
    BY <1>0, RecordWrites DEF Record, Server, calendarCounts
  <1>2. journal[c].status = "running" /\ Admissible(c) /\ journal[c] \in ChangeType /\ journal # <<>>
    BY <1>0, <1>1, ChangesAre, NotEmpty DEF Ordered, StagesAgree
  <1>3. /\ change.status \in {"repair", "waiting", "rejected", "uncertain"}
        /\ change.deleting = journal[c].deleting /\ change.event = journal[c].event
        /\ IF worker.answer = "ok" THEN change.receipt = worker.event ELSE change.status # "repair"
    BY <1>0, <1>1, <1>2, RecordedIs
  <1>4. worker'.at \in {"idle", "recorded"}
    BY NoWorkTyped DEF Record, Typed, WorkerTyped, WorkerType
  <1> HIDE DEF change
  <1>5. Chained' = Chained
    BY <1>0, <1>1, <1>2, OrderRewrites DEF Ordered, Ended
  <1>6. journal'[c] = change
    BY <1>0, <1>1 DEF Rewrites
  <1>7. ASSUME foreign = 0, Chained, remote # Nothing, EarlierDone(c)
        PROVE  ToldOf(c)'
    <2>1. worker.answer = "ok" => ~journal[c].deleting /\ KnowsBut(worker.event)
      BY <1>0, <1>1, <1>2, <1>7 DEF Told, ToldOf
    <2>2. QED BY <1>0, <1>1, <1>3, <1>4, <1>6, <2>1 DEF ToldOf, Repairs, KnowsBut
  <1>8. QED BY <1>0, <1>1, <1>3, <1>4, <1>5, <1>7, ToldRewrites

LEMMA MarkTold == ASSUME Typed, Ordered, Told, MarkUncertain PROVE Told'
  <1>0. PICK c \in Changes : c = worker.change
    BY MarkWrites
  <1> DEFINE change == Unrecorded(journal[c])
  <1>1. /\ c \in Changes /\ change \in ChangeType /\ worker'.at = "idle"
        /\ UNCHANGED <<foreign, remote, effects>>
    BY <1>0, MarkWrites, NoWorkTyped DEF MarkUncertain, Server, Mishap, NoMishap, calendarCounts
  <1>2. journal # <<>>
    BY <1>0, <1>1, NotEmpty
  <1>3. CASE UNCHANGED journal
    <2>1. Chained' = Chained
      BY <1>0, <1>3 DEF Chained, ChainedTo
    <2>2. \A k \in Changes : EarlierDone(k)' => EarlierDone(k) /\ Stays(k)
      BY <1>0, <1>1, <1>3 DEF EarlierDone, Stays
    <2>3. Changes' = Changes /\ journal'[1].event = journal[1].event /\ Len(journal') = Len(journal)
      BY <1>0, <1>3 DEF Changes
    <2>4. QED BY <1>0, <1>1, <1>2, <2>1, <2>2, <2>3, ToldStays
  <1>4. CASE Rewrites(c, change)
    <2>1. journal[c].status = "running" /\ Admissible(c) /\ journal[c] \in ChangeType
      BY <1>0, <1>1, ChangesAre DEF Ordered, StagesAgree, MarkUncertain
    <2>2. change.status = "uncertain" /\ change.event = journal[c].event
      BY <1>0, <2>1 DEF Unrecorded, ChangeType
    <2> HIDE DEF change
    <2>3. Chained' = Chained
      BY <1>0, <1>1, <1>4, <2>1, OrderRewrites DEF Ordered, Ended
    <2>4. journal'[c] = change
      BY <1>0, <1>4 DEF Rewrites
    <2>5. ToldOf(c)'
      BY <1>0, <1>1, <2>2, <2>4 DEF ToldOf, Repairs
    <2>6. QED BY <1>0, <1>1, <1>4, <2>2, <2>3, <2>5, ToldRewrites
  <1>5. QED BY <1>0, <1>3, <1>4, MarkWrites

LEMMA ApplyTold == ASSUME Typed, Ordered, Told, Apply, Repairs(journal[worker.change]) PROVE Told'
  <1>0. PICK c \in Changes : c = worker.change
    BY ApplyWrites
  <1> DEFINE change == Applied(journal[c])
  <1>1. /\ c \in Changes /\ change \in ChangeType /\ Rewrites(c, change) /\ worker'.at = "idle"
        /\ UNCHANGED <<foreign, remote, effects>>
    BY <1>0, ApplyWrites, NoWorkTyped DEF Apply, Server, calendarCounts
  <1>2. journal[c].status = "repair" /\ journal[c] \in ChangeType /\ journal # <<>>
    BY <1>0, <1>1, ChangesAre, NotEmpty DEF Repairs
  <1>3. /\ change.status = IF NeedsCheck(journal[c]) THEN "repair" ELSE "succeeded"
        /\ change.applied /\ change.deleting = journal[c].deleting /\ change.receipt = journal[c].receipt
        /\ change.event = journal[c].event
    BY <1>0, <1>2, AppliedIs
  <1> HIDE DEF change
  <1>4. Chained' = Chained
    BY <1>0, <1>1, <1>2, OrderRewrites DEF Ordered, Ended
  <1>5. journal'[c] = change
    BY <1>0, <1>1 DEF Rewrites
  <1>6. ASSUME foreign = 0, Chained, remote # Nothing, EarlierDone(c)
        PROVE  ToldOf(c)'
    <2>1. ~journal[c].deleting /\ KnowsBut(journal[c].receipt)
      BY <1>0, <1>1, <1>2, <1>6 DEF Told, ToldOf
    <2>2. change.status = "succeeded" => Knows(journal[c].receipt)
      BY <1>0, <1>3, <2>1 DEF NeedsCheck, Knows, KnowsBut
    <2>3. QED BY <1>0, <1>1, <1>3, <1>5, <2>1, <2>2 DEF ToldOf, Repairs, Knows
  <1>7. QED BY <1>0, <1>1, <1>2, <1>3, <1>4, <1>6, ToldRewrites

LEMMA CheckSavesTold == ASSUME Typed, Ordered, Told, CheckSaves, ~UNCHANGED journal PROVE Told'
  <1>0. PICK c \in Changes : c = review.change
    BY CheckWrites
  <1> DEFINE change == [journal[c] EXCEPT !.checked = TRUE, !.observed = review.event]
  <1>1. /\ c \in Changes /\ change \in ChangeType /\ Rewrites(c, change)
        /\ journal[c].status \in {"uncertain", "repair"}
        /\ UNCHANGED <<foreign, remote, effects>> /\ review.at = "reading"
    BY <1>0, CheckWrites DEF CheckSaves, Server, calendarCounts
  <1>2. worker'.at = worker.at
    BY StaleKeeps DEF CheckSaves
  <1>3. ~(worker.at \in {"claimed", "answered"})
    BY <1>0, <1>1 DEF Ordered, StagesAgree
  <1>4. change.status = journal[c].status /\ change.checked /\ change.event = journal[c].event
    BY <1>0, <1>1, ChangesAre DEF ChangeType
  <1> HIDE DEF change
  <1>5. Chained' = Chained
    BY <1>0, <1>1, <1>4, OrderRewrites DEF Ordered, Ended
  <1>6. journal'[c] = change
    BY <1>0, <1>1 DEF Rewrites
  <1>7. ToldOf(c)'
    BY <1>0, <1>1, <1>2, <1>3, <1>4, <1>6 DEF ToldOf, Repairs
  <1>8. QED BY <1>0, <1>1, <1>2, <1>3, <1>4, <1>5, <1>7, ToldRewrites

LEMMA AdmitTold == ASSUME Typed, Ordered, Told, Admit PROVE Told'
  <1> DEFINE n == Len(journal)
  <1>1. PICK text \in Contents, deletes \in BOOLEAN, event \in Events :
              /\ event = [form EXCEPT !.content = IF deletes THEN @ ELSE text] /\ form # Nothing
              /\ Len(journal') = n + 1 /\ Changes' = Changes \cup {n + 1} /\ n + 1 \notin Changes
              /\ journal'[n + 1] = Change(event, deletes, Previous(event))
              /\ \A k \in Changes :
                    \/ journal'[k] = journal[k]
                    \/ /\ journal[k].status = "rejected"
                       /\ journal'[k] = [journal[k] EXCEPT !.status = "cancelled"]
    BY AdmitWrites
  <1>2. journal'[n + 1].status = "queued" /\ journal'[n + 1].event = event
    BY <1>1 DEF Change
  <1>3. \A k \in Changes : /\ SameBut([journal[k] EXCEPT !.status = journal'[k].status], journal'[k])
                           /\ journal'[k].event = journal[k].event
                           /\ journal'[k].status \in {journal[k].status, "cancelled"}
    BY <1>1, ChangesAre DEF ChangeType, SameBut
  <1>4. /\ Changes = 1 .. n /\ n \in Nat
        /\ \A k \in Changes : /\ journal'[k].previous = journal[k].previous
                              /\ journal'[k].deleting = journal[k].deleting
                              /\ journal'[k].receipt = journal[k].receipt
                              /\ Repairs(journal'[k]) => Repairs(journal[k])
                              /\ journal'[k].status = "succeeded" => journal[k].status = "succeeded"
    BY <1>3, ChangesAre DEF SameBut, ChangeType, Repairs
  <1>5. /\ \A k \in Changes : effects'[k] = effects[k]
        /\ UNCHANGED <<foreign, remote, worker>>
    BY <1>4 DEF Admit, calendarCounts, Typed, JournalTyped
  <1>6. worker.at # "idle" => worker.change \in Changes
    BY ClaimedChange
  <1>7. SUFFICES ASSUME foreign = 0, Chained'
                 PROVE  journal' # <<>> /\ ToldFirst' /\ (remote # Nothing => \A k \in Changes' : EarlierDone(k)' => ToldOf(k)')
    BY <1>5 DEF Told
  <1>8. Chained
    BY <1>1, <1>4, <1>7, ChainedAdmit
  <1>9. journal' # <<>>
    <2>1. Len(journal') # 0
      BY <1>1, <1>4
    <2>2. QED BY <2>1
  <1>10. ASSUME remote # Nothing, NEW k, k = n + 1
         PROVE  ToldOf(k)'
    <2>1. worker.at # "idle" => worker.change # k
      BY <1>1, <1>6, <1>10
    <2>2. journal'[k].status = "queued"
      BY <1>2, <1>10
    <2>3. QED BY <1>5, <2>1, <2>2 DEF ToldOf, Repairs
  <1>11. CASE journal = <<>>
    <2>1. n = 0 /\ Changes = {}
      BY <1>11, NotEmpty
    <2>2. remote # Nothing => event = [remote EXCEPT !.content = IF deletes THEN @ ELSE text] /\ remote.url
      BY <1>1, <1>7, <1>8, <1>11 DEF Told, ToldEmpty
    <2>3. remote # Nothing => Knows(event)
      <3>1. remote \in Events
        BY DEF Typed, EventsTyped
      <3>2. QED BY <2>2, <3>1 DEF Knows, Events
    <2>4. ToldFirst'
      BY <1>2, <1>5, <2>1, <2>3 DEF ToldFirst, Knows
    <2>5. QED BY <1>1, <1>9, <1>10, <2>1, <2>4
  <1>12. CASE journal # <<>>
    <2>1. 1 \in Changes
      BY <1>4, <1>12, NotEmpty
    <2>2. ToldFirst'
      <3>1. ToldFirst
        BY <1>7, <1>8, <1>12 DEF Told
      <3>2. QED BY <1>1, <1>3, <1>5, <2>1, <3>1 DEF ToldFirst, Knows
    <2>3. ASSUME remote # Nothing, NEW k \in Changes, EarlierDone(k)'
          PROVE  ToldOf(k)'
      <3>1. EarlierDone(k)
        BY <1>4, <2>3 DEF EarlierDone
      <3>2. ToldOf(k)
        BY <1>7, <1>8, <1>12, <2>3, <3>1 DEF Told
      <3>3. (\A i \in Changes' : i > k => effects'[i] = 0) => \A i \in Changes : i > k => effects[i] = 0
        BY <1>1, <1>5
      <3>4. QED BY <1>3, <1>4, <1>5, <3>2, <3>3 DEF ToldOf, Knows, KnowsBut
    <2>4. QED BY <1>1, <1>9, <1>10, <2>2, <2>3
  <1>13. QED BY <1>11, <1>12

LEMMA RestartTold == ASSUME Typed, Ordered, Told, Restart PROVE Told'
  <1>1. UNCHANGED <<foreign, remote, effects, eventRows>> /\ worker'.at = "idle" /\ form' = Nothing
    BY NoWorkTyped DEF Restart, Server
  <1>2. /\ Len(journal') = Len(journal) /\ Changes' = Changes
        /\ \A k \in Changes :
              \/ journal[k].status # "running" /\ journal'[k] = journal[k]
              \/ /\ journal[k].status = "running"
                 /\ journal'[k] = [journal[k] EXCEPT !.status = "uncertain"]
    BY RestartWrites
  <1>3. \A k \in Changes : /\ journal'[k].previous = journal[k].previous
                           /\ journal'[k].event = journal[k].event
                           /\ journal'[k].deleting = journal[k].deleting
                           /\ journal'[k].receipt = journal[k].receipt
                           /\ journal'[k].checked = journal[k].checked
                           /\ journal'[k].applied = journal[k].applied
                           /\ journal'[k].status \in {journal[k].status, "uncertain"}
    BY <1>2, ChangesAre, ZenonT(60) DEF ChangeType
  <1>4. Chained' = Chained
    BY <1>2, <1>3, ChangesAre, OrderKept DEF Ordered, Ended, Chained, ChainedTo
  <1>5. Changes = 1 .. Len(journal) /\ Len(journal) \in Nat
    BY ChangesAre
  <1>6. CASE journal = <<>>
    <2>1. journal' = <<>>
      <3>1. journal' = [c \in Changes |-> Recovered(journal[c])] /\ Changes = {}
        BY <1>6, NotEmpty DEF Restart
      <3>2. QED BY <3>1
    <2>2. QED BY <1>1, <1>4, <1>6, <2>1 DEF Told, ToldEmpty, CacheIsTrue
  <1>7. CASE journal # <<>>
    <2>1. \A k \in Changes : EarlierDone(k)' => EarlierDone(k) /\ Stays(k)
      BY <1>1, <1>3, <1>5 DEF EarlierDone, Stays, Repairs
    <2>2. journal'[1].event = journal[1].event
      BY <1>3, <1>5, <1>7, NotEmpty
    <2>3. QED BY <1>1, <1>2, <1>4, <1>7, <2>1, <2>2, ToldStays
  <1>8. QED BY <1>6, <1>7

LEMMA QuietTold ==
    ASSUME Typed, Told, UNCHANGED <<foreign, remote, effects, journal>>,
           worker' = worker \/ worker'.at \notin {"claimed", "answered"},
           journal = <<>> /\ ToldEmpty => ToldEmpty'
    PROVE  Told'
  <1>1. Chained' = Chained /\ Changes' = Changes
    BY DEF Chained, ChainedTo, Changes
  <1>2. CASE journal = <<>>
    BY <1>1, <1>2 DEF Told
  <1>3. CASE journal # <<>>
    <2>1. \A k \in Changes : EarlierDone(k)' => EarlierDone(k) /\ Stays(k)
      BY DEF EarlierDone, Stays
    <2>2. Len(journal') = Len(journal) /\ journal'[1].event = journal[1].event
      OBVIOUS
    <2>3. QED BY <1>1, <1>3, <2>1, <2>2, ToldStays
  <1>4. QED BY <1>2, <1>3

LEMMA FormTold == ASSUME Typed, Told, OpenForm \/ CloseForm PROVE Told'
  <1>1. UNCHANGED <<foreign, remote, effects, journal, worker, eventRows>>
    BY DEF OpenForm, CloseForm, Server, calendarCounts
  <1>2. ASSUME journal = <<>>, ToldEmpty
        PROVE  ToldEmpty'
    <2>1. remote # Nothing => form' \in {Nothing, remote}
      <3>1. CASE OpenForm
        <4>1. Changes = {}
          BY <1>2, NotEmpty
        <4>2. remote # Nothing => Visible = eventRows
          BY <4>1, <1>2 DEF Visible
        <4>3. QED BY <1>2, <3>1, <4>2 DEF OpenForm, ToldEmpty, CacheIsTrue
      <3>2. CASE CloseForm
        BY <3>2 DEF CloseForm
      <3>3. QED BY <3>1, <3>2
    <2>2. QED BY <1>1, <1>2, <2>1 DEF ToldEmpty, CacheIsTrue
  <1>3. QED BY <1>1, <1>2, QuietTold

(* Nobody who waited for the changes before it is refused. *)
Owned == foreign \in Nat /\ Told /\ collided = {}

LEMMA NextOwned ==
    Typed /\ Ordered /\ RequestsOnce /\ Owned /\ [CalendarNext]_calendarVars => Owned'
  <1> SUFFICES ASSUME Typed, Ordered, RequestsOnce, Owned, [CalendarNext]_calendarVars PROVE Owned'
    OBVIOUS
  <1>0. Told /\ foreign \in Nat /\ collided = {}
    BY DEF Owned
  <1>1. CASE OpenForm \/ CloseForm
    BY <1>0, <1>1, FormTold DEF OpenForm, CloseForm, Server, calendarCounts, Owned
  <1>2. CASE RefreshEvents \/ UNCHANGED calendarVars
    <2>1. UNCHANGED <<foreign, remote, effects, journal, worker, collided, form>>
          /\ (eventRows' = eventRows \/ eventRows' = {remote} \ {Nothing})
      BY <1>2 DEF RefreshEvents, calendarVars, Server, User, calendarCounts
    <2>2. ToldEmpty => ToldEmpty'
      BY <2>1 DEF ToldEmpty, CacheIsTrue
    <2>3. QED BY <1>0, <2>1, <2>2, QuietTold DEF Owned
  <1>3. CASE \E c \in Changes : Pick(c) \/ CheckBegins(c)
    <2>1. UNCHANGED <<foreign, remote, effects, journal, collided, form, eventRows>>
          /\ (worker' = worker \/ worker'.at \notin {"claimed", "answered"})
      BY <1>3, NoWorkTyped DEF Pick, CheckBegins, Server, User, calendarCounts, WorkerType
    <2>2. ToldEmpty => ToldEmpty'
      BY <2>1 DEF ToldEmpty, CacheIsTrue
    <2>3. QED BY <1>0, <2>1, <2>2, QuietTold DEF Owned
  <1>4. CASE RecordFails \/ ApplyFails
    <2>1. UNCHANGED <<foreign, remote, effects, journal, collided, form, eventRows>>
          /\ worker'.at \notin {"claimed", "answered"}
      BY <1>4, NoWorkTyped DEF RecordFails, ApplyFails, Mishap, Server, User, Typed, WorkerTyped, WorkerType
    <2>2. ToldEmpty => ToldEmpty'
      BY <2>1 DEF ToldEmpty, CacheIsTrue
    <2>3. QED BY <1>0, <2>1, <2>2, QuietTold DEF Owned
  <1>5. CASE CheckStep
    <2>1. UNCHANGED <<foreign, remote, effects, collided, form>>
      BY <1>5 DEF CheckStep, CheckReads, CheckSaves, CheckFails, Server, User, calendarCounts
    <2>2. CASE CheckSaves /\ ~UNCHANGED journal
      BY <1>0, <2>1, <2>2, CheckSavesTold DEF Owned
    <2>3. CASE UNCHANGED <<journal, eventRows, worker>>
      <3>1. ToldEmpty => ToldEmpty'
        BY <2>1, <2>3 DEF ToldEmpty, CacheIsTrue
      <3>2. QED BY <1>0, <2>1, <2>3, <3>1, QuietTold DEF Owned
    <2>4. CASE CheckSaves /\ UNCHANGED journal
      <3>1. journal # <<>>
        BY <2>4, CheckWrites, NotEmpty
      <3>2. worker' = worker \/ worker' = Stale(worker, {review.change})
        BY <2>4 DEF CheckSaves
      <3>3. review.at = "reading" => worker.at \notin {"claimed", "answered"}
        BY DEF Ordered, StagesAgree
      <3>4. worker' = worker \/ worker'.at \notin {"claimed", "answered"}
        BY <2>4, <3>2, <3>3, StaleKeeps DEF CheckSaves
      <3>5. QED BY <1>0, <2>1, <2>4, <3>1, <3>4, QuietTold DEF Owned
    <2>5. QED BY <1>5, <2>2, <2>3, <2>4 DEF CheckStep, CheckReads, CheckFails
  <1>6. CASE \E c \in Changes : RetryChange(c) \/ ResolveChange(c)
    <2>1. UNCHANGED <<foreign, collided>>
      BY <1>6 DEF RetryChange, ResolveChange, Server, calendarCounts
    <2>2. QED BY <1>0, <1>6, <2>1, RewrittenTold DEF Owned
  <1>7. CASE Needless \/ Refused \/ NotSent
    <2>1. UNCHANGED foreign
      BY <1>7 DEF Needless, Refused, NotSent, Mishap, calendarCounts
    <2>2. QED BY <1>0, <1>7, <2>1, NothingTakenTold DEF Owned
  <1>8. CASE Accepted \/ LostAfter
    <2>1. UNCHANGED <<foreign, collided>>
      BY <1>8 DEF Accepted, LostAfter, Takes, Mishap, NoMishap, calendarCounts
    <2>2. QED BY <1>0, <1>8, <2>1, TakenTold DEF Owned
  <1>9. CASE Claim \/ ClaimFails \/ Record \/ MarkUncertain
    <2>1. UNCHANGED <<foreign, collided>>
      BY <1>9 DEF Claim, ClaimFails, Record, MarkUncertain, Server, Mishap, NoMishap, calendarCounts
    <2>2. QED BY <1>0, <1>9, <2>1, ClaimTold, ClaimFailsTold, RecordTold, MarkTold DEF Owned
  <1>10. CASE Apply
    <2>1. UNCHANGED <<foreign, collided, remote, effects, form>> /\ worker'.at = "idle"
      BY <1>10, NoWorkTyped DEF Apply, Server, User, calendarCounts
    <2>2. CASE Repairs(journal[worker.change])
      BY <1>0, <1>10, <2>1, <2>2, ApplyTold DEF Owned
    <2>3. CASE ~Repairs(journal[worker.change])
      <3>1. UNCHANGED <<journal, eventRows>>
        BY <1>10, <2>3 DEF Apply
      <3>2. ToldEmpty => ToldEmpty'
        BY <2>1, <3>1 DEF ToldEmpty, CacheIsTrue
      <3>3. QED BY <1>0, <2>1, <3>1, <3>2, QuietTold DEF Owned
    <2>4. QED BY <2>2, <2>3
  <1>11. CASE Admit \/ Restart
    <2>1. UNCHANGED <<foreign, collided>>
      BY <1>11 DEF Admit, Restart, Server, calendarCounts
    <2>2. QED BY <1>0, <1>11, <2>1, AdmitTold, RestartTold DEF Owned
  <1>12. CASE OtherClient
    <2>1. foreign' = foreign + 1 /\ collided' = collided
      BY <1>12 DEF OtherClient
    <2>2. QED BY <1>0, <2>1 DEF Owned, Told
  <1>13. QED BY <1>1, <1>2, <1>3, <1>4, <1>5, <1>6, <1>7, <1>8, <1>9, <1>10, <1>11, <1>12
    DEF CalendarNext, Step

LEMMA InitOwned == CalendarInit => Ordered /\ Owned
  <1> SUFFICES ASSUME CalendarInit PROVE Ordered /\ Owned
    OBVIOUS
  <1>1. journal = <<>> /\ worker.at = "idle" /\ review.at = "none" /\ form = Nothing /\ foreign = 0 /\ collided = {}
    BY NoWorkTyped DEF CalendarInit
  <1>2. Changes = {}
    BY <1>1 DEF Changes
  <1>3. Ordered
    BY <1>1, <1>2 DEF Ordered, StagesAgree, ChangesInOrder
  <1>4. CacheIsTrue /\ (remote # Nothing => remote.url)
    BY DEF CalendarInit, CacheIsTrue, OnServer
  <1>5. Owned
    BY <1>1, <1>4 DEF Owned, Told, ToldEmpty
  <1>6. QED BY <1>3, <1>5

(* A change is not refused because of the changes of the same user it waited  *)
(* for: it takes over the id and the version they left (claim_calendar_action *)
(* and rebind_children).                                                      *)
THEOREM OwnChangesAgree == CalendarSpec => []OwnChangesNeverCollide
  <1>1. CalendarInit => RequestsOnce
    BY InitTypes, NoWorkTyped DEF CalendarInit, RequestsOnce
  <1>2. Owned => OwnChangesNeverCollide
    BY DEF Owned, OwnChangesNeverCollide
  <1>3. QED BY <1>1, <1>2, InitOwned, AlwaysTyped, NextOnce, NextOrder, NextOwned, PTL DEF CalendarSpec

----------------------------------------------------------------------------
(* The names of events. *)

JournalNamed ==
    \A c \in Changes :
        Named(journal[c].event) /\ Served(journal[c].receipt) /\ Served(journal[c].observed)

LEMMA ServerIds == ServerId # "none" /\ Nothing.id = "none" /\ Nothing.url = FALSE /\ Nothing.etag = 0
  BY DEF ServerId, Nothing

LEMMA NamingNamed ==
    ASSUME NEW e \in Events, NEW r \in Events, Served(r), r # Nothing
    PROVE  Named(Naming(e, r)) /\ Naming(e, r).id = ServerId
  <1>1. Naming(e, r).id = ServerId
    BY DEF Naming, Served, Events
  <1>2. QED BY <1>1, ServerIds DEF Named

LEMMA NamedRewrites ==
    ASSUME Typed, EventsNamed, NEW c \in Changes, NEW change \in ChangeType, Rewrites(c, change),
           Named(change.event), Served(change.receipt), Served(change.observed), service' = service
    PROVE  JournalNamed'
  <1>1. Changes' = Changes /\ journal'[c] = change /\ ServerId' = ServerId
    BY DEF Rewrites, ServerId
  <1>2. ASSUME NEW k \in Changes
        PROVE  Named(journal'[k].event) /\ Served(journal'[k].receipt) /\ Served(journal'[k].observed)
    <2>1. CASE k = c
      BY <1>1, <2>1
    <2>2. CASE k # c
      <3>1. Named(journal[k].event) /\ Served(journal[k].receipt) /\ Served(journal[k].observed)
        BY DEF EventsNamed
      <3>2. journal'[k].receipt = journal[k].receipt /\ journal'[k].observed = journal[k].observed
        BY <2>2, RewritesOthers DEF SameBut
      <3>3. \/ journal'[k].event = journal[k].event
            \/ change.receipt # Nothing /\ journal'[k].event = Naming(journal[k].event, change.receipt)
        BY <2>2 DEF Rewrites
      <3>4. journal[k].event \in Events /\ change.receipt \in Events
        BY ChangesAre DEF ChangeType
      <3>5. QED BY <3>1, <3>2, <3>3, <3>4, NamingNamed
    <2>3. QED BY <2>1, <2>2
  <1>3. QED BY <1>1, <1>2 DEF JournalNamed, Named, Served

LEMMA CachedNamed ==
    ASSUME EventsNamed, NEW e, NEW now, Served(now)
    PROVE  \A row \in Cached(e, now) : row.id = ServerId
  BY DEF EventsNamed, Cached, Served

(* A step that leaves the server and its names alone. *)
LEMMA NamedKept ==
    ASSUME Typed, EventsNamed, UNCHANGED <<service, remote>>,
           \A row \in eventRows' : row.id = ServerId,
           form' \in {form, Nothing} \/ Named(form'),
           worker'.event \in {worker.event, Nothing} \/ Served(worker'.event),
           review'.event \in {review.event, remote, Nothing},
           JournalNamed' \/ UNCHANGED journal
    PROVE  EventsNamed'
  <1>1. ServerId' = ServerId
    BY DEF ServerId
  <1>2. JournalNamed'
    BY <1>1 DEF EventsNamed, JournalNamed, Changes, Named, Served
  <1>3. Served(worker'.event) /\ Served(review'.event) /\ (form' # Nothing => Named(form'))
    BY DEF EventsNamed, Served
  <1>4. QED BY <1>1, <1>2, <1>3 DEF EventsNamed, JournalNamed, Named, Served

LEMMA UserNamed ==
    ASSUME Typed, EventsNamed, NEW c \in Changes, RetryChange(c) \/ ResolveChange(c) \/ Pick(c) \/ CheckBegins(c)
    PROVE  EventsNamed'
  <1>1. UNCHANGED <<service, remote, eventRows, form>>
    BY DEF RetryChange, ResolveChange, Pick, CheckBegins, User, Server
  <1>2. worker'.event \in {worker.event, Nothing} /\ review'.event \in {review.event, Nothing}
    BY StaleKeeps DEF RetryChange, ResolveChange, Pick, CheckBegins, Write, NoWork, NoReview
  <1>3. JournalNamed' \/ UNCHANGED journal
    <2>1. CASE RetryChange(c)
      <3>1. PICK change \in ChangeType :
                /\ Rewrites(c, change)
                /\ change = [journal[c] EXCEPT !.status = "queued", !.attempts = 0, !.due = FALSE]
        BY <2>1, RetryWrites
      <3>2. change.event = journal[c].event /\ change.receipt = journal[c].receipt
            /\ change.observed = journal[c].observed
        BY <3>1, ChangesAre DEF ChangeType
      <3>3. QED BY <1>1, <3>1, <3>2, NamedRewrites DEF EventsNamed
    <2>2. CASE ResolveChange(c)
      <3>1. /\ Resolved(journal[c]).event = journal[c].event
            /\ Resolved(journal[c]).observed = journal[c].observed
            /\ Resolved(journal[c]).receipt \in {journal[c].receipt, journal[c].observed}
        BY ChangesAre DEF Resolved, ChangeType
      <3>2. Resolved(journal[c]) \in ChangeType /\ Rewrites(c, Resolved(journal[c]))
        BY <2>2, ResolveWrites
      <3> DEFINE change == Resolved(journal[c])
      <3>3. Named(change.event) /\ Served(change.receipt) /\ Served(change.observed)
        BY <3>1 DEF EventsNamed
      <3> HIDE DEF change
      <3>4. QED BY <1>1, <3>2, <3>3, NamedRewrites DEF change
    <2>3. CASE Pick(c) \/ CheckBegins(c)
      BY <2>3 DEF Pick, CheckBegins
    <2>4. QED BY <2>1, <2>2, <2>3
  <1>4. \A row \in eventRows' : row.id = ServerId
    BY <1>1 DEF EventsNamed
  <1>5. QED BY <1>1, <1>2, <1>3, <1>4, NamedKept

LEMMA InheritedNamed ==
    ASSUME Typed, EventsNamed, NEW c \in Changes
    PROVE  Named(Inherited(journal[c]))
  <1>1. journal[c] \in ChangeType /\ Named(journal[c].event) /\ c \in 1 .. Len(journal)
    BY ChangesAre DEF EventsNamed
  <1> DEFINE p == journal[c].previous
  <1>2. CASE p = 0 \/ Result(journal[p]) = Nothing
    BY <1>1, <1>2 DEF Inherited
  <1>3. CASE p # 0 /\ Result(journal[p]) # Nothing
    <2>1. p \in Changes
      BY <1>1, <1>3, ChangesAre DEF Typed, JournalTyped
    <2>2. Served(Result(journal[p])) /\ Result(journal[p]) \in Events
      BY <1>3, <2>1, ChangesAre, NothingType DEF Result, EventsNamed, ChangeType
    <2>3. QED BY <1>1, <1>3, <2>2, NamingNamed DEF Inherited, ChangeType
  <1>4. QED BY <1>2, <1>3

LEMMA WorkNamed ==
    ASSUME Typed, EventsNamed, Claim \/ ClaimFails \/ Record \/ RecordFails \/ MarkUncertain
    PROVE  EventsNamed'
  <1> DEFINE c == worker.change
  <1>1. UNCHANGED <<service, remote, eventRows, form>> /\ c \in Changes
    BY ClaimedChange DEF Claim, ClaimFails, Record, RecordFails, MarkUncertain, User, Server
  <1>2. worker'.event \in {worker.event, Nothing} /\ review'.event = review.event
    <2>1. worker' \in {NoWork, [worker EXCEPT !.at = "claimed", !.fresh = TRUE],
                       [worker EXCEPT !.at = "recorded"], [worker EXCEPT !.at = "unrecorded"]}
      BY DEF Claim, ClaimFails, Record, RecordFails, MarkUncertain
    <2>2. worker'.event \in {worker.event, Nothing}
      <3>1. worker \in WorkerType
        BY DEF Typed, WorkerTyped
      <3>2. /\ [worker EXCEPT !.at = "claimed", !.fresh = TRUE].event = worker.event
            /\ [worker EXCEPT !.at = "recorded"].event = worker.event
            /\ [worker EXCEPT !.at = "unrecorded"].event = worker.event
        BY <3>1 DEF WorkerType
      <3>3. NoWork.event = Nothing
        BY DEF NoWork
      <3>4. QED BY <2>1, <3>2, <3>3
    <2>3. review' = review \/ \E S : review' = Stale(review, S)
      BY DEF Claim, ClaimFails, Record, RecordFails, MarkUncertain, Write
    <2>4. QED BY <2>2, <2>3, StaleKeeps
  <1>3. journal[c] \in ChangeType /\ Named(journal[c].event) /\ Served(journal[c].receipt)
        /\ Served(journal[c].observed) /\ Served(worker.event)
    BY <1>1, ChangesAre DEF EventsNamed
  <1>4. JournalNamed' \/ UNCHANGED journal
    <2>1. CASE Claim
      <3> DEFINE inherited == Inherited(journal[c])
      <3>1. PICK change \in ChangeType :
                /\ Rewrites(c, change)
                /\ change = [journal[c] EXCEPT !.status = "running", !.event = inherited,
                                               !.attempts = @ + 1, !.due = FALSE]
        BY <2>1, ClaimWrites
      <3>2. Named(inherited)
        BY <1>1, InheritedNamed
      <3> HIDE DEF inherited
      <3>3. change.event = inherited /\ change.receipt = journal[c].receipt
            /\ change.observed = journal[c].observed
        BY <1>3, <3>1 DEF ChangeType
      <3>4. QED BY <1>1, <1>3, <3>1, <3>2, <3>3, NamedRewrites
    <2>2. CASE ClaimFails
      <3> DEFINE change == [journal[c] EXCEPT !.status = "rejected"]
      <3>1. change.event = journal[c].event /\ change.receipt = journal[c].receipt
            /\ change.observed = journal[c].observed
        BY <1>3 DEF ChangeType
      <3>2. UNCHANGED journal \/ (change \in ChangeType /\ Rewrites(c, change))
        BY <2>2, ClaimFailsWrites
      <3> HIDE DEF change
      <3>3. QED BY <1>1, <1>3, <3>1, <3>2, NamedRewrites
    <2>3. CASE Record
      <3> DEFINE change == Recorded(journal[c])
      <3>1. change \in ChangeType /\ Rewrites(c, change) /\ worker.at = "answered"
        BY <2>3, RecordWrites DEF Record
      <3>2. change.event = journal[c].event /\ change.receipt \in {journal[c].receipt, worker.event}
        BY <1>3, <3>1, RecordedIs
      <3>3. change.observed = journal[c].observed
        BY <1>3, <3>1 DEF Recorded, Postponed, ChangeType, Typed, WorkerTyped, WorkerType
      <3> HIDE DEF change
      <3>4. QED BY <1>1, <1>3, <3>1, <3>2, <3>3, NamedRewrites
    <2>4. CASE RecordFails
      BY <2>4 DEF RecordFails
    <2>5. CASE MarkUncertain
      <3> DEFINE change == Unrecorded(journal[c])
      <3>1. change.event = journal[c].event /\ change.receipt = journal[c].receipt
            /\ change.observed = journal[c].observed
        BY <1>3 DEF ChangeType, Unrecorded
      <3>2. UNCHANGED journal \/ (change \in ChangeType /\ Rewrites(c, change))
        BY <2>5, MarkWrites
      <3> HIDE DEF change
      <3>3. QED BY <1>1, <1>3, <3>1, <3>2, NamedRewrites
    <2>6. QED BY <2>1, <2>2, <2>3, <2>4, <2>5
  <1>5. \A row \in eventRows' : row.id = ServerId
    BY <1>1 DEF EventsNamed
  <1>6. QED BY <1>1, <1>2, <1>4, <1>5, NamedKept

LEMMA ApplyNamed == ASSUME Typed, EventsNamed, Apply \/ ApplyFails PROVE EventsNamed'
  <1> DEFINE c == worker.change
             change == Applied(journal[c])
  <1>1. UNCHANGED <<service, remote, form>> /\ c \in Changes /\ worker'.event = Nothing
    BY ClaimedChange DEF Apply, ApplyFails, User, Server, NoWork
  <1>2. review'.event = review.event
    BY StaleKeeps DEF Apply, ApplyFails, Write
  <1>3. CASE UNCHANGED <<journal, eventRows>>
    <2>1. \A row \in eventRows' : row.id = ServerId
      BY <1>3 DEF EventsNamed
    <2>2. QED BY <1>1, <1>2, <1>3, <2>1, NamedKept
  <1>4. CASE Apply /\ Repairs(journal[c])
    <2>1. journal[c] \in ChangeType /\ Named(journal[c].event) /\ Served(journal[c].receipt)
          /\ Served(journal[c].observed)
      BY <1>1, ChangesAre DEF EventsNamed
    <2>2. change \in ChangeType /\ Rewrites(c, change)
      BY <1>4, ApplyWrites
    <2>3. change.event = journal[c].event /\ change.receipt = journal[c].receipt
          /\ change.observed = journal[c].observed
      BY <2>1 DEF Applied, ChangeType
    <2>4. eventRows' = Cached(journal[c].event, IF journal[c].deleting THEN Nothing ELSE journal[c].receipt)
      BY <1>4 DEF Apply
    <2> HIDE DEF change
    <2>5. JournalNamed'
      BY <1>1, <2>1, <2>2, <2>3, NamedRewrites
    <2>6. \A row \in eventRows' : row.id = ServerId
      BY <2>1, <2>4, CachedNamed DEF Served
    <2>7. QED BY <1>1, <1>2, <2>5, <2>6, NamedKept
  <1>5. QED BY <1>3, <1>4 DEF Apply, ApplyFails

LEMMA CheckNamed == ASSUME Typed, EventsNamed, CheckStep \/ RefreshEvents PROVE EventsNamed'
  <1>1. UNCHANGED <<service, remote, form>>
    BY DEF CheckStep, CheckReads, CheckSaves, CheckFails, RefreshEvents, User, Server
  <1>2. worker'.event = worker.event /\ review'.event \in {review.event, remote, Nothing}
    <2>1. worker' = worker \/ worker' = Stale(worker, {review.change})
      BY DEF CheckStep, CheckReads, CheckSaves, CheckFails, RefreshEvents
    <2>2. review' \in {review, NoReview, [review EXCEPT !.at = "reading", !.event = remote]}
      BY DEF CheckStep, CheckReads, CheckSaves, CheckFails, RefreshEvents
    <2>3. review'.event \in {review.event, remote, Nothing}
      <3>1. review \in ReviewType
        BY DEF Typed, ReviewTyped
      <3>2. [review EXCEPT !.at = "reading", !.event = remote].event = remote
        BY <3>1 DEF ReviewType
      <3>3. NoReview.event = Nothing
        BY DEF NoReview
      <3>4. QED BY <2>2, <3>2, <3>3
    <2>4. QED BY <2>1, <2>3, StaleKeeps
  <1>3. CASE UNCHANGED <<journal, eventRows>>
    <2>1. \A row \in eventRows' : row.id = ServerId
      BY <1>3 DEF EventsNamed
    <2>2. QED BY <1>1, <1>2, <1>3, <2>1, NamedKept
  <1>4. CASE CheckSaves /\ ~UNCHANGED <<journal, eventRows>>
    <2> DEFINE c == review.change
               change == [journal[c] EXCEPT !.checked = TRUE, !.observed = review.event]
    <2>1. c \in Changes /\ change \in ChangeType /\ Rewrites(c, change)
          /\ eventRows' = Cached(journal[c].event, review.event)
      BY <1>4, CheckWrites
    <2>2. Named(journal[c].event) /\ Served(journal[c].receipt) /\ Served(review.event)
      BY <2>1 DEF EventsNamed
    <2>3. change.event = journal[c].event /\ change.receipt = journal[c].receipt
          /\ change.observed = review.event
      BY <2>1, ChangesAre DEF ChangeType
    <2> HIDE DEF change
    <2>4. JournalNamed'
      BY <1>1, <2>1, <2>2, <2>3, NamedRewrites
    <2>5. \A row \in eventRows' : row.id = ServerId
      BY <2>1, <2>2, CachedNamed
    <2>6. QED BY <1>1, <1>2, <2>4, <2>5, NamedKept
  <1>5. CASE RefreshEvents
    <2>1. \A row \in eventRows' : row.id = ServerId
      BY <1>5 DEF RefreshEvents, EventsNamed
    <2>2. UNCHANGED journal
      BY <1>5 DEF RefreshEvents
    <2>3. QED BY <1>1, <1>2, <2>1, <2>2, NamedKept
  <1>6. QED BY <1>3, <1>4, <1>5 DEF CheckStep, CheckReads, CheckFails

LEMMA FormNamed == ASSUME Typed, EventsNamed, OpenForm \/ CloseForm PROVE EventsNamed'
  <1>1. UNCHANGED <<service, remote, eventRows, worker, review, journal>>
    BY DEF OpenForm, CloseForm, Server
  <1>2. form' \in {form, Nothing} \/ Named(form')
    <2>1. CASE CloseForm
      BY <2>1 DEF CloseForm
    <2>2. CASE OpenForm
      <3>1. \A row \in eventRows : Named(row)
        BY ServerIds DEF EventsNamed, Named
      <3>2. \A c \in Changes : Named(Shown(c))
        BY ServerIds DEF EventsNamed, Shown, Named, Served
      <3>3. Named(New)
        BY DEF New, Named
      <3>4. QED BY <2>2, <3>1, <3>2, <3>3 DEF OpenForm, Visible
    <2>3. QED BY <2>1, <2>2
  <1>3. \A row \in eventRows' : row.id = ServerId
    BY <1>1 DEF EventsNamed
  <1>4. QED BY <1>1, <1>2, <1>3, NamedKept

LEMMA AdmitNamed == ASSUME Typed, EventsNamed, Admit PROVE EventsNamed'
  <1> DEFINE n == Len(journal)
  <1>1. PICK text \in Contents, deletes \in BOOLEAN, event \in Events :
              /\ event = [form EXCEPT !.content = IF deletes THEN @ ELSE text] /\ form # Nothing
              /\ Len(journal') = n + 1 /\ Changes' = Changes \cup {n + 1} /\ n + 1 \notin Changes
              /\ journal'[n + 1] = Change(event, deletes, Previous(event))
              /\ \A k \in Changes :
                    \/ journal'[k] = journal[k]
                    \/ /\ journal[k].status = "rejected"
                       /\ journal'[k] = [journal[k] EXCEPT !.status = "cancelled"]
    BY AdmitWrites
  <1>2. UNCHANGED <<service, remote, eventRows, worker>> /\ form' = Nothing /\ review'.event = review.event
    BY StaleKeeps DEF Admit
  <1>3. ServerId' = ServerId
    BY <1>2 DEF ServerId
  <1>4. Named(event)
    <2>1. form \in Events /\ Named(form)
      BY <1>1 DEF Typed, EventsTyped, EventsNamed
    <2>2. event.id = form.id /\ event.etag = form.etag /\ event.url = form.url
      BY <1>1, <2>1 DEF Events
    <2>3. QED BY <2>1, <2>2 DEF Named
  <1>5. \A k \in Changes : /\ journal'[k].event = journal[k].event
                           /\ journal'[k].receipt = journal[k].receipt
                           /\ journal'[k].observed = journal[k].observed
    BY <1>1, ChangesAre DEF ChangeType
  <1>6. JournalNamed'
    <2>1. ASSUME NEW k \in Changes'
          PROVE  Named(journal'[k].event) /\ Served(journal'[k].receipt) /\ Served(journal'[k].observed)
      <3>1. CASE k \in Changes
        BY <1>5, <3>1 DEF EventsNamed
      <3>2. CASE k = n + 1
        BY <1>1, <1>4, <3>2 DEF Change, Served
      <3>3. QED BY <1>1, <2>1, <3>1, <3>2
    <2>2. QED BY <1>3, <2>1 DEF JournalNamed, Named, Served
  <1>7. \A row \in eventRows' : row.id = ServerId
    BY <1>2 DEF EventsNamed
  <1>8. QED BY <1>2, <1>6, <1>7, NamedKept

(* An event that names a version is known by the id of the server. *)
LEMMA DeletedIsNamed ==
    ASSUME Typed, EventsNamed, worker.at = "claimed", Deleting, Accepts
    PROVE  Event.id = ServerId
  <1>1. worker.change \in Changes
    BY ClaimedChange
  <1>2. remote # Nothing /\ Event.etag = remote.etag
    BY DEF Accepts
  <1>3. remote.etag # 0 /\ Named(Event)
    BY <1>1, <1>2 DEF EventsNamed, Event
  <1>4. QED BY <1>2, <1>3 DEF Named

LEMMA AskingNamed == ASSUME Typed, EventsNamed, Asking PROVE EventsNamed'
  <1>1. worker.at = "claimed" /\ UNCHANGED <<service, form, journal, review, eventRows>>
    BY DEF Asking, Accepted, LostAfter, Needless, Refused, NotSent, User
  <1>2. worker.change \in Changes /\ ServerId' = ServerId /\ latest \in Nat
    BY <1>1, ClaimedChange DEF ServerId, Typed, EventsTyped
  <1>3. Named(Event) /\ Served(remote) /\ Served(Nothing)
    BY <1>2 DEF EventsNamed, Served, Event
  <1>4. \A v : Served(OnServer(v, Event.content))
    BY DEF OnServer, Served
  <1>5. Served(worker'.event)
    <2>1. CASE Accepted
      <3>1. Accepts /\ \E v : worker'.event = Receipt(v)
        BY <2>1 DEF Accepted, CalendarAnswers, Typed, WorkerTyped, WorkerType
      <3>2. \A v : Served(Receipt(v))
        BY <1>1, <1>4, <3>1, DeletedIsNamed DEF Receipt, Served
      <3>3. QED BY <3>1, <3>2
    <2>2. CASE LostAfter \/ Refused \/ NotSent
      <3>1. worker'.event = Nothing
        BY <2>2 DEF LostAfter, Refused, NotSent, CalendarAnswers, Typed, WorkerTyped, WorkerType
      <3>2. QED BY <1>3, <3>1
    <2>3. CASE Needless
      <3>1. worker'.event = remote \/ (worker'.event = Event /\ Event.etag # 0)
        BY <2>3 DEF Needless, AlreadyGone, CalendarAnswers, Typed, WorkerTyped, WorkerType
      <3>2. QED BY <1>3, <3>1 DEF Named, Served
    <2>4. QED BY <2>1, <2>2, <2>3 DEF Asking
  <1>6. remote' # Nothing => remote'.id = ServerId /\ remote'.url /\ remote'.etag # 0
    <2>1. CASE Takes
      BY <1>2, <2>1 DEF Takes, OnServer
    <2>2. CASE remote' = remote
      BY <2>2 DEF EventsNamed
    <2>3. QED BY <2>1, <2>2 DEF Asking, Accepted, LostAfter, Needless, Refused, NotSent, Server
  <1>7. QED BY <1>1, <1>2, <1>5, <1>6 DEF EventsNamed, Named, Served, Changes

LEMMA OutsideNamed == ASSUME Typed, EventsNamed, OtherClient \/ Restart PROVE EventsNamed'
  <1>1. CASE OtherClient
    <2>1. UNCHANGED <<service, form, journal, worker, review, eventRows>> /\ latest \in Nat
      BY <1>1 DEF OtherClient, User, Typed, EventsTyped
    <2>2. remote' # Nothing => remote'.id = ServerId /\ remote'.url /\ remote'.etag # 0
      BY <1>1, <2>1 DEF OtherClient, OnServer
    <2>3. ServerId' = ServerId
      BY <2>1 DEF ServerId
    <2>4. QED BY <2>1, <2>2, <2>3 DEF EventsNamed, Named, Served, Changes
  <1>2. CASE Restart
    <2>1. UNCHANGED <<service, remote, eventRows>> /\ form' = Nothing
          /\ worker'.event = Nothing /\ review'.event = Nothing
      BY <1>2 DEF Restart, Server, NoWork, NoReview
    <2>2. Changes' = Changes /\ ServerId' = ServerId
      BY <1>2, <2>1, RestartWrites DEF ServerId
    <2>3. \A k \in Changes : /\ journal'[k].event = journal[k].event
                             /\ journal'[k].receipt = journal[k].receipt
                             /\ journal'[k].observed = journal[k].observed
      BY <1>2, RestartWrites, ChangesAre DEF ChangeType
    <2>4. JournalNamed'
      BY <2>2, <2>3 DEF EventsNamed, JournalNamed, Named, Served
    <2>5. \A row \in eventRows' : row.id = ServerId
      BY <2>1 DEF EventsNamed
    <2>6. QED BY <2>1, <2>4, <2>5, NamedKept
  <1>3. QED BY <1>1, <1>2

LEMMA NextNamed == Typed /\ EventsNamed /\ [CalendarNext]_calendarVars => EventsNamed'
  <1> SUFFICES ASSUME Typed, EventsNamed, [CalendarNext]_calendarVars PROVE EventsNamed'
    OBVIOUS
  <1>1. CASE UNCHANGED calendarVars
    BY <1>1 DEF calendarVars, EventsNamed, Named, Served, Changes, ServerId
  <1>2. CASE Step
    <2>1. CASE Asking
      BY <2>1, AskingNamed
    <2>2. QED BY <1>2, <2>1, WorkNamed, ApplyNamed DEF Step, Asking
  <1>3. QED BY <1>1, <1>2, FormNamed, AdmitNamed, UserNamed, CheckNamed, OutsideNamed DEF CalendarNext

----------------------------------------------------------------------------
(* What the cache lacks of the server is to be repaired or checked. *)

(* A step that writes at most one change, and leaves the server alone.        *)
LEMMA SettlingRewrites ==
    ASSUME Typed, Settling, NEW c \in Changes, NEW change \in ChangeType, Rewrites(c, change),
           Chained' = Chained, UNCHANGED <<remote, unread, service>>,
           eventRows' \subseteq eventRows \/ remote # Nothing,
           review'.at = "reading" => review.at = "reading" /\ review'.event = review.event,
           Chained /\ ~unread =>
              /\ CacheIsTrue' \/ \E k \in Changes : Unsettled(k)'
              /\ Unsettled(c)' => CacheIsTrue \/ (Unsettled(c) /\ change.event = journal[c].event)
              /\ Repairs(change) => Agrees(change, change.receipt)
              /\ worker'.at = "claimed" => CacheIsTrue'
              /\ worker'.at = "answered" /\ worker'.answer \in Refusals => CacheIsTrue'
              /\ worker'.at = "answered" /\ worker'.answer = "ok" =>
                    /\ worker.at = "answered" /\ worker.answer = "ok" /\ worker'.event = worker.event
                    /\ worker'.change = worker.change /\ worker.change \in Changes \ {c}
                    /\ journal[worker.change].status # "queued"
    PROVE  Settling'
  <1> SUFFICES ASSUME Chained, ~unread
               PROVE  /\ CacheIsTrue' \/ \E k \in Changes' : Unsettled(k)'
                      /\ worker'.at = "claimed" => CacheIsTrue'
                      /\ worker'.at = "answered" /\ worker'.answer \in Refusals => CacheIsTrue'
                      /\ worker'.at = "answered" /\ worker'.answer = "ok" =>
                            Agrees(journal[worker.change], worker.event)'
                      /\ \A k \in Changes' : Repairs(journal'[k]) => Agrees(journal[k], journal[k].receipt)'
                      /\ review'.at = "reading" => review'.event = remote
                      /\ remote = Nothing /\ eventRows' # {} =>
                            \A k \in Changes' : Unsettled(k)' => journal'[k].event.id = ServerId
    BY DEF Settling, ServerId
  <1>1. Changes' = Changes /\ journal'[c] = change /\ ServerId' = ServerId
    BY DEF Rewrites, ServerId
  <1>2. \A k \in Changes : k # c => SameBut(journal[k], journal'[k]) /\
              (journal[k].status # "queued" => journal'[k] = journal[k])
    BY RewritesOthers
  <1>3. worker'.at = "answered" /\ worker'.answer = "ok" => Agrees(journal[worker.change], worker.event)'
    <2> SUFFICES ASSUME worker'.at = "answered", worker'.answer = "ok"
                 PROVE  Agrees(journal[worker.change], worker.event)'
      OBVIOUS
    <2>1. Agrees(journal[worker.change], worker.event)
      BY DEF Settling
    <2>2. journal'[worker'.change] = journal[worker.change] /\ worker'.event = worker.event
      BY <1>2
    <2>3. QED BY <1>1, <2>1, <2>2 DEF Agrees
  <1>4. ASSUME NEW k \in Changes, Repairs(journal'[k])
        PROVE  Agrees(journal[k], journal[k].receipt)'
    <2>1. CASE k = c
      BY <1>1, <1>4, <2>1 DEF Agrees
    <2>2. CASE k # c
      <3>1. SameBut(journal[k], journal'[k]) /\ (journal[k].status # "queued" => journal'[k] = journal[k])
        BY <1>2, <2>2
      <3>2. Repairs(journal[k]) /\ journal'[k] = journal[k]
        BY <1>4, <3>1 DEF SameBut, Repairs
      <3>3. Agrees(journal[k], journal[k].receipt)
        BY <3>2 DEF Settling
      <3>4. QED BY <1>1, <3>2, <3>3 DEF Agrees
    <2>3. QED BY <2>1, <2>2
  <1>5. review'.at = "reading" => review'.event = remote
    BY DEF Settling
  <1>6. ASSUME remote = Nothing, eventRows' # {}, NEW k \in Changes, Unsettled(k)'
        PROVE  journal'[k].event.id = ServerId
    <2>1. eventRows # {} /\ ~CacheIsTrue
      BY <1>6 DEF CacheIsTrue
    <2>2. CASE k = c
      BY <1>1, <1>6, <2>1, <2>2 DEF Settling
    <2>3. CASE k # c
      <3>1. Unsettled(k) /\ journal'[k] = journal[k]
        BY <1>2, <1>6, <2>3 DEF Unsettled, SameBut
      <3>2. QED BY <1>6, <2>1, <3>1 DEF Settling
    <2>4. QED BY <2>2, <2>3
  <1>7. QED BY <1>1, <1>3, <1>4, <1>5, <1>6

(* The other changes stay unsettled, and settled. *)
LEMMA OthersUnsettled ==
    ASSUME Typed, NEW c \in Changes, NEW change \in ChangeType, Rewrites(c, change)
    PROVE  /\ \A k \in Changes : k # c => Unsettled(k)' = Unsettled(k)
           /\ Unsettled(c)' = (change.status \in {"running", "uncertain", "repair"} /\ ~change.checked)
  <1>1. \A k \in Changes : k # c => SameBut(journal[k], journal'[k])
    BY RewritesOthers
  <1>2. journal'[c] = change
    BY DEF Rewrites
  <1>3. QED BY <1>1, <1>2 DEF Unsettled, SameBut

(* The worker has the only unsettled change, while it asks the server. *)
LEMMA OnlyTheRunning ==
    ASSUME Typed, Ordered, RequestsOnce, Chained, NEW c \in Changes, journal[c].status \in Retriable \cup {"running"},
           c = worker.change, worker.at # "idle"
    PROVE  \A k \in Changes : k # c => ~Unsettled(k) /\ ~Repairs(journal[k])
  <1>1. Changes = 1 .. Len(journal) /\ Len(journal) \in Nat
    BY ChangesAre
  <1>2. journal[c].status \notin Ended
    BY DEF Retriable, Ended
  <1>3. ASSUME NEW k \in Changes, k > c
        PROVE  journal[k].status = "queued"
    BY <1>2, <1>3, LaterWait
  <1>4. ASSUME NEW k \in Changes, k < c
        PROVE  journal[k].status \in Ended
    <2>1. Admissible(c)
      BY DEF Ordered, StagesAgree
    <2>2. c \in 2 .. Len(journal) /\ c - 1 \in Changes /\ k \in 1 .. c - 1
      BY <1>1, <1>4
    <2>3. journal[c].previous = c - 1
      BY <2>2 DEF Chained, ChainedTo
    <2>4. journal[c - 1].status \in Ended
      BY <1>1, <2>1, <2>2, <2>3 DEF Admissible
    <2>5. CASE k = c - 1
      BY <2>4, <2>5
    <2>6. CASE k # c - 1
      <3>1. k \in 1 .. (c - 1) - 1 /\ journal[c - 1].status # "queued"
        BY <1>1, <1>4, <2>4, <2>6 DEF Ended
      <3>2. QED BY <2>2, <3>1 DEF Ordered, ChangesInOrder
    <2>7. QED BY <2>5, <2>6
  <1>5. QED BY <1>1, <1>3, <1>4 DEF Unsettled, Repairs, Ended

LEMMA UserSettling ==
    ASSUME Typed, Ordered, Settling, NEW c \in Changes, RetryChange(c) \/ ResolveChange(c)
    PROVE  Settling'
  <1>1. UNCHANGED <<remote, unread, service, eventRows>>
    BY DEF RetryChange, ResolveChange, User, Server
  <1>2. worker'.at = worker.at /\ worker'.change = worker.change /\ worker'.answer = worker.answer
        /\ worker'.event = worker.event /\ review'.at = review.at /\ review'.event = review.event
    BY StaleKeeps DEF RetryChange, ResolveChange, Write
  <1>3. PICK change \in ChangeType :
            /\ Rewrites(c, change)
            /\ change.status \in {"queued", "cancelled"}
            /\ change.status = "queued" => journal[c].status = "waiting"
    <2>1. CASE RetryChange(c)
      <3>1. PICK change \in ChangeType :
                /\ Rewrites(c, change)
                /\ change = [journal[c] EXCEPT !.status = "queued", !.attempts = 0, !.due = FALSE]
        BY <2>1, RetryWrites
      <3>2. change.status = "queued"
        BY <3>1, ChangesAre DEF ChangeType
      <3>3. QED BY <2>1, <3>1, <3>2 DEF RetryChange
    <2>2. CASE ResolveChange(c)
      <3>1. Resolved(journal[c]).status = "cancelled"
        BY ChangesAre DEF Resolved, ChangeType
      <3>2. QED BY <2>2, <3>1, ResolveWrites
    <2>3. QED BY <2>1, <2>2
  <1>4. journal[c].status \notin {"running", "queued"} /\ ~Unsettled(c)
    BY DEF RetryChange, ResolveChange, Resolvable, Ordered, StagesAgree, Unsettled
  <1>5. worker.at \in {"claimed", "answered"} => worker.change \in Changes \ {c} /\ journal[worker.change].status = "running"
    BY <1>4, ClaimedChange DEF Ordered, StagesAgree
  <1>6. Chained' = Chained
    BY <1>3, <1>4, OrderRewrites DEF Ordered, Ended
  <1>7. CacheIsTrue' = CacheIsTrue
    BY <1>1 DEF CacheIsTrue
  <1>8. Chained /\ ~unread => CacheIsTrue' \/ \E k \in Changes : Unsettled(k)'
    BY <1>3, <1>4, <1>7, OthersUnsettled DEF Settling
  <1>9. ~Unsettled(c)' /\ ~Repairs(change)
    BY <1>3, OthersUnsettled DEF Repairs
  <1>10. Chained /\ ~unread =>
           /\ worker'.at = "claimed" => CacheIsTrue'
           /\ worker'.at = "answered" /\ worker'.answer \in Refusals => CacheIsTrue'
    BY <1>2, <1>7 DEF Settling
  <1>11. QED BY <1>1, <1>2, <1>3, <1>5, <1>6, <1>8, <1>9, <1>10, SettlingRewrites

LEMMA ClaimSettling == ASSUME Typed, Ordered, RequestsOnce, Settling, Claim PROVE Settling'
  <1> DEFINE c == worker.change
  <1>1. PICK change \in ChangeType :
            /\ c \in Changes /\ Rewrites(c, change)
            /\ change = [journal[c] EXCEPT !.status = "running", !.event = Inherited(journal[c]),
                                           !.attempts = @ + 1, !.due = FALSE]
    BY ClaimWrites
  <1>2. change.status = "running"
    BY <1>1, ChangesAre DEF ChangeType
  <1>3. /\ journal[c].status \in Retriable /\ Admissible(c) /\ worker.at # "idle"
        /\ UNCHANGED <<remote, unread, service, eventRows>>
    BY DEF Claim, Dispatchable, Server, User, Retriable
  <1>4. worker'.at = "claimed" /\ worker'.change = c /\ review'.at = review.at /\ review'.event = review.event
    BY StaleKeeps DEF Claim, Write, Typed, WorkerTyped, WorkerType
  <1>5. CacheIsTrue' = CacheIsTrue
    BY <1>3 DEF CacheIsTrue
  <1>6. Chained /\ ~unread => CacheIsTrue
    <2>1. ~Unsettled(c)
      BY <1>3 DEF Unsettled, Retriable
    <2>2. QED BY <1>1, <1>3, <2>1, OnlyTheRunning DEF Settling
  <1>7. Chained' = Chained
    BY <1>1, <1>2, <1>3, OrderRewrites DEF Ordered, Ended, Retriable
  <1>8. ~Repairs(change)
    BY <1>2 DEF Repairs
  <1>9. QED BY <1>1, <1>3, <1>4, <1>5, <1>6, <1>7, <1>8, SettlingRewrites

LEMMA SettlingQuiet ==
    ASSUME Settling, UNCHANGED <<journal, remote, service, eventRows, unread>>,
           worker' = worker \/ worker'.at \notin {"claimed", "answered"},
           review'.at = "reading" => review'.event = remote \/ review' = review
    PROVE  Settling'
  <1>1. /\ Chained' = Chained /\ Changes' = Changes /\ ServerId' = ServerId /\ CacheIsTrue' = CacheIsTrue
        /\ \A k \in Changes : Unsettled(k)' = Unsettled(k)
        /\ \A k \in Changes : Agrees(journal[k], journal[k].receipt)' = Agrees(journal[k], journal[k].receipt)
    BY DEF Chained, ChainedTo, Changes, ServerId, CacheIsTrue, Unsettled, Agrees
  <1>2. worker' = worker => Agrees(journal[worker.change], worker.event)' = Agrees(journal[worker.change], worker.event)
    BY <1>1 DEF Agrees
  <1>3. QED BY <1>1, <1>2 DEF Settling

LEMMA ClaimFailsSettling == ASSUME Typed, Ordered, Settling, ClaimFails PROVE Settling'
  <1>0. PICK c \in Changes : c = worker.change
    BY ClaimFailsWrites
  <1> DEFINE change == [journal[c] EXCEPT !.status = "rejected"]
  <1>1. worker'.at = "idle" /\ UNCHANGED <<remote, unread, service, eventRows>>
    BY NoWorkTyped DEF ClaimFails, User, Server
  <1>2. review'.at = review.at /\ review'.event = review.event
    BY StaleKeeps DEF ClaimFails, Write
  <1>3. CASE UNCHANGED journal
    <2>1. review' = review \/ review'.at # "reading" \/ review'.event = review.event
      BY <1>2
    <2>2. CASE Chained /\ ~unread
      <3>1. review'.at = "reading" => review'.event = remote
        BY <1>2, <2>2 DEF Settling
      <3>2. QED BY <1>1, <1>3, <3>1, SettlingQuiet
    <2>3. CASE ~(Chained /\ ~unread)
      BY <1>1, <1>3, <2>3 DEF Settling, Chained, ChainedTo
    <2>4. QED BY <2>2, <2>3
  <1>4. CASE /\ change \in ChangeType /\ journal[c].status \in {"queued", "waiting"} /\ Rewrites(c, change)
    <2>1. change.status = "rejected"
      BY <1>0, ChangesAre DEF ChangeType
    <2> HIDE DEF change
    <2>2. Admissible(c) /\ ~Unsettled(c)
      BY <1>0, <1>4 DEF Ordered, StagesAgree, ClaimFails, Unsettled
    <2>3. Chained' = Chained
      BY <1>4, <2>1, <2>2, OrderRewrites DEF Ordered, Ended
    <2>4. CacheIsTrue' = CacheIsTrue
      BY <1>1 DEF CacheIsTrue
    <2>5. Chained /\ ~unread => CacheIsTrue' \/ \E k \in Changes : Unsettled(k)'
      BY <1>4, <2>2, <2>4, OthersUnsettled DEF Settling
    <2>6. ~Unsettled(c)' /\ ~Repairs(change)
      BY <1>4, <2>1, OthersUnsettled DEF Repairs
    <2>7. QED BY <1>1, <1>2, <1>4, <2>3, <2>5, <2>6, SettlingRewrites
  <1>5. QED BY <1>0, <1>3, <1>4, ClaimFailsWrites

LEMMA RecordSettling == ASSUME Typed, Ordered, RequestsOnce, Settling, Record PROVE Settling'
  <1>0. PICK c \in Changes : c = worker.change
    BY RecordWrites
  <1> DEFINE change == Recorded(journal[c])
  <1>1. /\ change \in ChangeType /\ Rewrites(c, change) /\ worker.at = "answered"
        /\ UNCHANGED <<remote, unread, service, eventRows>>
    BY <1>0, RecordWrites DEF Record, Server, User
  <1>2. journal[c].status = "running" /\ Admissible(c) /\ journal[c] \in ChangeType /\ ~journal[c].checked
    BY <1>0, <1>1, ChangesAre DEF Ordered, StagesAgree, WellMarked
  <1>3. /\ change.status \in {"repair", "waiting", "rejected", "uncertain"}
        /\ change.checked = journal[c].checked
        /\ change.deleting = journal[c].deleting /\ change.event = journal[c].event
        /\ IF worker.answer = "ok" THEN change.receipt = worker.event ELSE change.status # "repair"
    BY <1>1, <1>2, RecordedIs
  <1>4. worker.answer \in {"ok", "uncertain"} \cup Refusals
        /\ (worker.answer \in {"ok", "uncertain"} => change.status \in {"repair", "uncertain"})
    BY <1>1, <1>2 DEF Recorded, ChangeType, Refusals, Typed, WorkerTyped, WorkerType
  <1>5. worker'.at \in {"idle", "recorded"}
    BY NoWorkTyped DEF Record, Typed, WorkerTyped, WorkerType
  <1>6. review'.at = review.at /\ review'.event = review.event
    BY StaleKeeps DEF Record, Write
  <1> HIDE DEF change
  <1>7. Chained' = Chained
    BY <1>1, <1>2, OrderRewrites DEF Ordered, Ended
  <1>8. CacheIsTrue' = CacheIsTrue
    BY <1>1 DEF CacheIsTrue
  <1>9. Chained /\ ~unread => CacheIsTrue' \/ \E k \in Changes : Unsettled(k)'
    <2>1. CASE worker.answer \in {"ok", "uncertain"}
      <3>1. Unsettled(c)'
        BY <1>1, <1>2, <1>3, <1>4, <2>1, OthersUnsettled
      <3>2. QED BY <3>1
    <2>2. CASE worker.answer \in Refusals
      BY <1>1, <1>8, <2>2 DEF Settling
    <2>3. QED BY <1>4, <2>1, <2>2
  <1>10. Unsettled(c)
    BY <1>2 DEF Unsettled
  <1>11. Chained /\ ~unread /\ Repairs(change) => Agrees(change, change.receipt)
    <2> SUFFICES ASSUME Chained, ~unread, Repairs(change)
                 PROVE  Agrees(change, change.receipt)
      OBVIOUS
    <2>1. worker.answer = "ok" /\ change.receipt = worker.event
      BY <1>3 DEF Repairs
    <2>2. Agrees(journal[c], worker.event)
      BY <1>0, <1>1, <2>1 DEF Settling
    <2>3. QED BY <1>3, <2>1, <2>2 DEF Agrees
  <1>12. QED BY <1>1, <1>3, <1>5, <1>6, <1>7, <1>9, <1>10, <1>11, SettlingRewrites

LEMMA MarkSettling == ASSUME Typed, Ordered, Settling, MarkUncertain PROVE Settling'
  <1>0. PICK c \in Changes : c = worker.change
    BY MarkWrites
  <1> DEFINE change == Unrecorded(journal[c])
  <1>1. /\ worker'.at = "idle" /\ UNCHANGED <<remote, unread, service, eventRows>>
        /\ change \in ChangeType
    BY <1>0, MarkWrites, NoWorkTyped DEF MarkUncertain, User, Server
  <1>2. review'.at = review.at /\ review'.event = review.event
    BY StaleKeeps DEF MarkUncertain, Write
  <1>3. CASE UNCHANGED journal
    <2>1. CASE Chained /\ ~unread
      <3>1. review'.at = "reading" => review'.event = remote
        BY <1>2, <2>1 DEF Settling
      <3>2. QED BY <1>1, <1>3, <3>1, SettlingQuiet
    <2>2. CASE ~(Chained /\ ~unread)
      BY <1>1, <1>3, <2>2 DEF Settling, Chained, ChainedTo
    <2>3. QED BY <2>1, <2>2
  <1>4. CASE Rewrites(c, change)
    <2>1. journal[c].status = "running" /\ Admissible(c) /\ journal[c] \in ChangeType /\ ~journal[c].checked
      BY <1>0, ChangesAre DEF Ordered, StagesAgree, WellMarked, MarkUncertain
    <2>2. change.status = "uncertain" /\ change.event = journal[c].event /\ ~change.checked
      BY <2>1 DEF Unrecorded, ChangeType
    <2> HIDE DEF change
    <2>3. Chained' = Chained
      BY <1>1, <1>4, <2>1, OrderRewrites DEF Ordered, Ended
    <2>4. Unsettled(c)' /\ Unsettled(c) /\ ~Repairs(change)
      BY <1>1, <1>4, <2>1, <2>2, OthersUnsettled DEF Unsettled, Repairs
    <2>5. QED BY <1>1, <1>2, <1>4, <2>2, <2>3, <2>4, SettlingRewrites
  <1>5. QED BY <1>0, <1>3, <1>4, MarkWrites

(* The receipt takes the place of every row of the event. *)
LEMMA CachedReceipt ==
    ASSUME Typed, EventsNamed, NEW e, NEW now, Served(now), now # Nothing \/ e.id = ServerId
    PROVE  Cached(e, now) = {now} \ {Nothing}
  <1>1. \A row \in eventRows : row.id = ServerId
    BY DEF EventsNamed
  <1>2. now # Nothing => now.id = ServerId
    BY DEF Served
  <1>3. \A row \in eventRows : row.id \in {e.id, now.id}
    BY <1>1, <1>2
  <1>4. QED BY <1>3 DEF Cached

LEMMA ApplySettling ==
    ASSUME Typed, Ordered, EventsNamed, Settling, Apply, Repairs(journal[worker.change])
    PROVE  Settling'
  <1>0. PICK c \in Changes : c = worker.change
    BY ApplyWrites
  <1> DEFINE change == Applied(journal[c])
             now == IF journal[c].deleting THEN Nothing ELSE journal[c].receipt
  <1>1. /\ change \in ChangeType /\ Rewrites(c, change) /\ worker'.at = "idle"
        /\ UNCHANGED <<remote, unread, service>>
        /\ eventRows' = Cached(journal[c].event, now)
    BY <1>0, ApplyWrites, NoWorkTyped DEF Apply, Server, User
  <1>2. journal[c].status = "repair" /\ journal[c] \in ChangeType /\ ~journal[c].checked
    BY <1>0, ChangesAre DEF Repairs
  <1>3. /\ change.status = IF NeedsCheck(journal[c]) THEN "repair" ELSE "succeeded"
        /\ change.applied /\ change.checked = journal[c].checked /\ change.event = journal[c].event
    BY <1>2, AppliedIs
  <1>4. review'.at = review.at /\ review'.event = review.event
    BY StaleKeeps DEF Apply, Write
  <1> HIDE DEF change
  <1>5. Chained' = Chained
    BY <1>1, <1>2, OrderRewrites DEF Ordered, Ended
  <1>6. Unsettled(c) /\ ~Repairs(change)
    BY <1>2, <1>3 DEF Unsettled, Repairs
  <1>7. ASSUME Chained, ~unread
        PROVE  /\ CacheIsTrue' \/ \E k \in Changes : Unsettled(k)'
               /\ eventRows' \subseteq eventRows \/ remote # Nothing
    <2>1. Agrees(journal[c], journal[c].receipt)
      BY <1>0, <1>7 DEF Settling
    <2>2. Served(journal[c].receipt)
      BY DEF EventsNamed
    <2>3. CASE journal[c].deleting
      <3>1. now = Nothing /\ remote = Nothing /\ journal[c].event.id = ServerId
        BY <2>1, <2>3 DEF Agrees
      <3>2. eventRows' = {}
        BY <1>1, <3>1, CachedReceipt DEF Served
      <3>3. QED BY <1>1, <3>1, <3>2 DEF CacheIsTrue
    <2>4. CASE ~journal[c].deleting
      <3>1. now = journal[c].receipt /\ remote # Nothing /\ now \in {remote, [remote EXCEPT !.etag = 0]}
        BY <2>1, <2>4 DEF Agrees
      <3>2. remote \in Events /\ remote.id = ServerId
        BY <3>1 DEF Typed, EventsTyped, EventsNamed
      <3>3. now.id = ServerId /\ now # Nothing
        BY <3>1, <3>2, ServerIds DEF Events
      <3>4. eventRows' = {now}
        BY <1>1, <2>2, <3>1, <3>3, CachedReceipt
      <3>5. CASE now = remote
        BY <1>1, <3>1, <3>4, <3>5 DEF CacheIsTrue
      <3>6. CASE now # remote
        <4>1. now.etag = 0
          BY <3>1, <3>2, <3>6 DEF Events
        <4>2. now.url = remote.url
          BY <3>1, <3>2, <3>6 DEF Events
        <4>3. remote.url
          BY <3>1 DEF EventsNamed
        <4>4. NeedsCheck(journal[c])
          BY <2>4, <3>1, <4>1, <4>2, <4>3 DEF NeedsCheck
        <4>5. Unsettled(c)'
          BY <1>1, <1>2, <1>3, <4>4, OthersUnsettled
        <4>6. QED BY <3>1, <4>5
      <3>7. QED BY <3>1, <3>5, <3>6
    <2>5. QED BY <2>3, <2>4
  <1>8. CASE Chained /\ ~unread
    BY <1>1, <1>3, <1>4, <1>5, <1>6, <1>7, <1>8, SettlingRewrites
  <1>9. CASE ~(Chained /\ ~unread)
    BY <1>1, <1>5, <1>9 DEF Settling
  <1>10. QED BY <1>8, <1>9

LEMMA CheckSavesSettling ==
    ASSUME Typed, Ordered, EventsNamed, Settling, CheckSaves
    PROVE  Settling'
  <1>0. PICK c \in Changes : c = review.change
    BY CheckWrites
  <1> DEFINE change == [journal[c] EXCEPT !.checked = TRUE, !.observed = review.event]
  <1>1. UNCHANGED <<remote, unread, service>> /\ review'.at = "none" /\ review.at = "reading"
    BY NoWorkTyped DEF CheckSaves, Server, User
  <1>2. worker'.at \notin {"claimed", "answered"}
    <2>1. worker.at \notin {"claimed", "answered"}
      BY <1>1 DEF Ordered, StagesAgree
    <2>2. worker' = worker \/ worker' = Stale(worker, {review.change})
      BY DEF CheckSaves
    <2>3. QED BY <2>1, <2>2, StaleKeeps
  <1>3. CASE UNCHANGED <<journal, eventRows>>
    BY <1>1, <1>2, <1>3, SettlingQuiet
  <1>4. CASE /\ change \in ChangeType /\ journal[c].status \in {"uncertain", "repair"}
             /\ Rewrites(c, change) /\ eventRows' = Cached(journal[c].event, review.event)
    <2>1. change.status = journal[c].status /\ change.checked /\ change.event = journal[c].event
      BY <1>4, ChangesAre DEF ChangeType
    <2> HIDE DEF change
    <2>2. Chained' = Chained
      BY <1>4, <2>1, OrderRewrites DEF Ordered, Ended
    <2>3. ~Unsettled(c)' /\ ~Repairs(change)
      BY <1>4, <2>1, OthersUnsettled DEF Repairs
    <2>4. CASE ~(Chained /\ ~unread)
      BY <1>1, <2>2, <2>4 DEF Settling
    <2>5. CASE Chained /\ ~unread
      <3>1. review.event = remote /\ Served(remote)
        BY <1>1, <2>5 DEF Settling, EventsNamed
      <3>2. eventRows' = Cached(journal[c].event, remote)
        BY <1>4, <3>1
      <3>3. remote = Nothing => eventRows' \subseteq eventRows
        BY <3>2 DEF Cached
      <3>4. CacheIsTrue' \/ \E k \in Changes : Unsettled(k)'
        <4>1. CASE remote # Nothing \/ journal[c].event.id = ServerId
          <5>1. eventRows' = {remote} \ {Nothing}
            BY <3>1, <3>2, <4>1, CachedReceipt
          <5>2. QED BY <1>1, <5>1 DEF CacheIsTrue
        <4>2. CASE remote = Nothing /\ journal[c].event.id # ServerId
          <5>1. CASE eventRows = {}
            BY <1>1, <3>3, <4>2, <5>1 DEF CacheIsTrue
          <5>2. CASE eventRows # {}
            <6>1. ~CacheIsTrue /\ ~Unsettled(c)
              BY <2>5, <4>2, <5>2 DEF CacheIsTrue, Settling
            <6>2. PICK k \in Changes : Unsettled(k)
              BY <2>5, <6>1 DEF Settling
            <6>3. Unsettled(k)'
              BY <1>4, <6>1, <6>2, OthersUnsettled
            <6>4. QED BY <6>3
          <5>3. QED BY <5>1, <5>2
        <4>3. QED BY <4>1, <4>2
      <3>5. QED BY <1>1, <1>2, <1>4, <2>2, <2>3, <3>3, <3>4, SettlingRewrites
    <2>6. QED BY <2>4, <2>5
  <1>5. QED BY <1>0, <1>3, <1>4, CheckWrites

LEMMA CheckSettling ==
    ASSUME Typed, Ordered, EventsNamed, Settling, CheckStep \/ (\E c \in Changes : CheckBegins(c))
    PROVE  Settling'
  <1>1. CASE CheckReads \/ CheckFails \/ (\E c \in Changes : CheckBegins(c))
    <2>1. UNCHANGED <<journal, remote, service, eventRows, unread, worker>>
      BY <1>1 DEF CheckReads, CheckFails, CheckBegins, Server, User
    <2>2. review' = [review EXCEPT !.at = "reading", !.event = remote] \/ review'.at # "reading"
      BY <1>1, NoWorkTyped DEF CheckReads, CheckFails, CheckBegins, NoReview
    <2>3. review'.at = "reading" => review'.event = remote
      BY <2>2 DEF Typed, ReviewTyped, ReviewType
    <2>4. QED BY <2>1, <2>3, SettlingQuiet
  <1>2. QED BY <1>1, CheckSavesSettling DEF CheckStep

(* An object without its version is the object with the version zero. *)
LEMMA Unversioned ==
    ASSUME NEW v, NEW t
    PROVE  OnServer(0, t) = [OnServer(v, t) EXCEPT !.etag = 0]
  <1>1. \A i, u : [[id |-> i, etag |-> v, url |-> u, content |-> t] EXCEPT !.etag = 0]
                      = [id |-> i, etag |-> 0, url |-> u, content |-> t]
    OBVIOUS
  <1>2. QED BY <1>1 DEF OnServer

LEMMA TakenSettling ==
    ASSUME Typed, Ordered, RequestsOnce, EventsNamed, Settling, Accepted \/ LostAfter
    PROVE  Settling'
  <1>0. PICK c \in Changes : c = worker.change
    BY ClaimedChange DEF Accepted, LostAfter
  <1>1. worker.at = "claimed" /\ UNCHANGED <<journal, review, eventRows, unread, service>> /\ Takes /\ Accepts
    BY DEF Accepted, LostAfter, User
  <1>2. /\ worker'.at = "answered" /\ worker'.change = c /\ worker'.answer \in {"ok", "uncertain"}
        /\ worker'.answer = "ok" => \E v \in {0, latest + 1} : worker'.event = Receipt(v)
    BY <1>0 DEF Accepted, LostAfter, CalendarAnswers, Typed, WorkerTyped, WorkerType
  <1>3. journal[c].status = "running" /\ ~journal[c].checked /\ review.at # "reading"
    BY <1>0, <1>1 DEF Ordered, StagesAgree, WellMarked
  <1>4. Unsettled(c)' /\ ~Repairs(journal[c]) /\ Changes' = Changes /\ ServerId' = ServerId
    BY <1>1, <1>3 DEF Unsettled, Repairs, Changes, ServerId
  <1> SUFFICES ASSUME Chained, ~unread PROVE Settling'
    BY <1>1 DEF Settling, Chained, ChainedTo
  <1>5. \A k \in Changes : k # c => ~Unsettled(k) /\ ~Repairs(journal[k])
    BY <1>0, <1>1, <1>3, OnlyTheRunning
  <1>6. Event = journal[c].event /\ Deleting = journal[c].deleting
    BY <1>0 DEF Event, Deleting
  <1>7. Deleting => journal[c].event.id = ServerId /\ remote' = Nothing
    BY <1>1, <1>6, DeletedIsNamed DEF Takes
  <1>8. worker'.answer = "ok" => Agrees(journal[c], worker.event)'
    <2>1. CASE Deleting
      BY <1>1, <1>4, <1>6, <1>7, <2>1 DEF Agrees
    <2>2. CASE ~Deleting
      <3>1. remote' = OnServer(latest + 1, Event.content)
        BY <1>1, <2>2 DEF Takes
      <3>2. remote' # Nothing
        BY <3>1 DEF OnServer, Nothing
      <3>3. worker'.answer = "ok" => worker'.event \in {OnServer(latest + 1, Event.content), OnServer(0, Event.content)}
        BY <1>2, <2>2 DEF Receipt
      <3>4. OnServer(0, Event.content) = [remote' EXCEPT !.etag = 0]
        <4>1. PICK v : v = latest + 1
          OBVIOUS
        <4>2. PICK t : t = Event.content
          OBVIOUS
        <4>3. remote' = OnServer(v, t)
          BY <3>1, <4>1, <4>2
        <4>4. QED BY <4>2, <4>3, Unversioned
      <3>5. journal'[c].deleting = FALSE
        <4>1. journal[c].deleting \in BOOLEAN
          BY ChangesAre DEF ChangeType
        <4>2. QED BY <1>1, <1>6, <2>2, <4>1
      <3>6. QED BY <3>1, <3>2, <3>3, <3>4, <3>5 DEF Agrees
    <2>3. QED BY <2>1, <2>2
  <1>9. remote' = Nothing => \A k \in Changes : Unsettled(k)' => journal'[k].event.id = ServerId'
    <2>1. remote' = Nothing => Deleting
      BY <1>1 DEF Takes, OnServer, Nothing
    <2>2. \A k \in Changes : Unsettled(k)' => k = c
      BY <1>1, <1>5 DEF Unsettled
    <2>3. QED BY <1>1, <1>4, <1>7, <2>1, <2>2
  <1>10. QED BY <1>1, <1>2, <1>3, <1>4, <1>5, <1>8, <1>9 DEF Settling, Refusals, Repairs, Agrees

LEMMA NothingTakenSettling ==
    ASSUME Typed, Ordered, EventsNamed, Settling, Needless \/ Refused \/ NotSent
    PROVE  Settling'
  <1>0. PICK c \in Changes : c = worker.change
    BY ClaimedChange DEF Needless, Refused, NotSent
  <1>1. worker.at = "claimed" /\ UNCHANGED <<journal, review, remote, eventRows, unread, service>>
    BY DEF Needless, Refused, NotSent, Server, User
  <1>2. worker'.at = "answered" /\ worker'.change = c
    BY <1>0 DEF Needless, Refused, NotSent, CalendarAnswers, Typed, WorkerTyped, WorkerType
  <1>3. /\ Chained' = Chained /\ Changes' = Changes /\ ServerId' = ServerId /\ CacheIsTrue' = CacheIsTrue
        /\ \A k \in Changes : Unsettled(k)' = Unsettled(k)
    BY <1>1 DEF Chained, ChainedTo, Changes, ServerId, CacheIsTrue, Unsettled
  <1>4. worker'.answer = "ok" => Agrees(journal[c], worker.event)'
    <2> SUFFICES ASSUME worker'.answer = "ok" PROVE Agrees(journal[c], worker.event)'
      OBVIOUS
    <2>1. Event = journal[c].event /\ Deleting = journal[c].deleting /\ journal[c].deleting \in BOOLEAN
      BY <1>0, ChangesAre DEF Event, Deleting, ChangeType
    <2>2. \/ AlreadyThere /\ worker'.event = remote
          \/ AlreadyGone
      BY DEF Needless, Refused, NotSent, CalendarAnswers, Typed, WorkerTyped, WorkerType
    <2>3. Named(journal[c].event)
      BY DEF EventsNamed
    <2>4. QED BY <1>1, <1>3, <2>1, <2>2, <2>3 DEF Agrees, AlreadyThere, AlreadyGone, Named
  <1>5. \A k \in Changes : Agrees(journal[k], journal[k].receipt)' = Agrees(journal[k], journal[k].receipt)
    BY <1>1, <1>3 DEF Agrees
  <1>6. QED BY <1>1, <1>2, <1>3, <1>4, <1>5 DEF Settling, Agrees, Repairs

LEMMA AdmitSettling == ASSUME Typed, Ordered, Settling, Admit PROVE Settling'
  <1> DEFINE n == Len(journal)
  <1>1. PICK text \in Contents, deletes \in BOOLEAN, event \in Events :
              /\ event = [form EXCEPT !.content = IF deletes THEN @ ELSE text] /\ form # Nothing
              /\ Len(journal') = n + 1 /\ Changes' = Changes \cup {n + 1} /\ n + 1 \notin Changes
              /\ journal'[n + 1] = Change(event, deletes, Previous(event))
              /\ \A k \in Changes :
                    \/ journal'[k] = journal[k]
                    \/ /\ journal[k].status = "rejected"
                       /\ journal'[k] = [journal[k] EXCEPT !.status = "cancelled"]
    BY AdmitWrites
  <1>2. UNCHANGED <<service, remote, eventRows, worker, unread>>
        /\ review'.event = review.event /\ review'.at = review.at
    BY StaleKeeps DEF Admit
  <1>3. journal'[n + 1].status = "queued"
    BY <1>1 DEF Change
  <1>4. \A k \in Changes : /\ journal'[k].previous = journal[k].previous
                           /\ journal'[k].event = journal[k].event
                           /\ journal'[k].receipt = journal[k].receipt
                           /\ journal'[k].deleting = journal[k].deleting
                           /\ Unsettled(k)' = Unsettled(k)
                           /\ Repairs(journal'[k]) = Repairs(journal[k])
    <2>1. ASSUME NEW k \in Changes
          PROVE  /\ journal'[k].previous = journal[k].previous
                 /\ journal'[k].event = journal[k].event
                 /\ journal'[k].receipt = journal[k].receipt
                 /\ journal'[k].deleting = journal[k].deleting
                 /\ journal'[k].checked = journal[k].checked
                 /\ \/ journal'[k] = journal[k]
                    \/ journal[k].status = "rejected" /\ journal'[k].status = "cancelled"
      BY <1>1, ChangesAre DEF ChangeType
    <2>2. QED BY <2>1 DEF Unsettled, Repairs
  <1>5. Chained' => Chained
    BY <1>1, <1>4, ChainedAdmit
  <1>6. ServerId' = ServerId /\ CacheIsTrue' = CacheIsTrue
    BY <1>2 DEF ServerId, CacheIsTrue
  <1>7. \A k \in Changes' : k \in Changes \/ journal'[k].status = "queued"
    BY <1>1, <1>3
  <1>8. worker.at = "answered" => worker.change \in Changes
    BY ClaimedChange
  <1>9. ASSUME Settling, Chained', ~unread
        PROVE  Settling'
    <2>1. worker.at = "answered" /\ worker.answer = "ok" => Agrees(journal[worker.change], worker.event)'
      BY <1>2, <1>4, <1>5, <1>6, <1>8, <1>9 DEF Settling, Agrees
    <2>2. \A k \in Changes' : Repairs(journal'[k]) => Agrees(journal[k], journal[k].receipt)'
      BY <1>2, <1>4, <1>5, <1>6, <1>7, <1>9 DEF Settling, Agrees, Repairs
    <2>3. CacheIsTrue' \/ \E k \in Changes' : Unsettled(k)'
      BY <1>1, <1>4, <1>5, <1>6, <1>9 DEF Settling
    <2>4. remote = Nothing /\ eventRows # {} =>
             \A k \in Changes' : Unsettled(k)' => journal'[k].event.id = ServerId
      <3>1. \A k \in Changes' : Unsettled(k)' => k \in Changes
        BY <1>7 DEF Unsettled
      <3>2. QED BY <1>4, <1>5, <1>9, <3>1 DEF Settling
    <2>5. review'.at = "reading" => review'.event = remote
      BY <1>2, <1>5, <1>9 DEF Settling
    <2>6. (worker.at = "claimed" => CacheIsTrue')
          /\ (worker.at = "answered" /\ worker.answer \in Refusals => CacheIsTrue')
      BY <1>5, <1>6, <1>9 DEF Settling
    <2>7. QED BY <1>2, <1>6, <2>1, <2>2, <2>3, <2>4, <2>5, <2>6 DEF Settling
  <1>10. QED BY <1>2, <1>9 DEF Settling

LEMMA RestartSettling == ASSUME Typed, Ordered, Settling, Restart PROVE Settling'
  <1>1. UNCHANGED <<service, remote, eventRows, unread>> /\ worker'.at = "idle" /\ review'.at = "none"
    BY NoWorkTyped DEF Restart, Server
  <1>2. /\ Len(journal') = Len(journal) /\ Changes' = Changes
        /\ \A k \in Changes :
              \/ journal[k].status # "running" /\ journal'[k] = journal[k]
              \/ /\ journal[k].status = "running"
                 /\ journal'[k] = [journal[k] EXCEPT !.status = "uncertain"]
    BY RestartWrites
  <1>3. ASSUME NEW k \in Changes
        PROVE  /\ journal'[k].previous = journal[k].previous
               /\ journal'[k].event = journal[k].event
               /\ journal'[k].receipt = journal[k].receipt
               /\ journal'[k].deleting = journal[k].deleting
               /\ journal'[k].checked = journal[k].checked
               /\ \/ journal'[k] = journal[k]
                  \/ journal[k].status = "running" /\ journal'[k].status = "uncertain"
    BY <1>2, ChangesAre DEF ChangeType
  <1>4. \A k \in Changes : Unsettled(k)' = Unsettled(k) /\ Repairs(journal'[k]) = Repairs(journal[k])
    BY <1>3 DEF Unsettled, Repairs
  <1>5. Chained' = Chained
    BY <1>2, <1>3, ChangesAre DEF Chained, ChainedTo
  <1>6. ServerId' = ServerId /\ CacheIsTrue' = CacheIsTrue
    BY <1>1 DEF ServerId, CacheIsTrue
  <1>7. CASE ~(Chained /\ ~unread)
    BY <1>1, <1>5, <1>7 DEF Settling
  <1>8. CASE Chained /\ ~unread
    <2>1. \A k \in Changes : Repairs(journal'[k]) => Agrees(journal[k], journal[k].receipt)'
      BY <1>1, <1>3, <1>4, <1>6, <1>8 DEF Settling, Agrees
    <2>2. CacheIsTrue' \/ \E k \in Changes : Unsettled(k)'
      BY <1>4, <1>6, <1>8 DEF Settling
    <2>3. remote = Nothing /\ eventRows # {} =>
             \A k \in Changes : Unsettled(k)' => journal'[k].event.id = ServerId
      BY <1>3, <1>4, <1>8 DEF Settling
    <2>4. QED BY <1>1, <1>2, <1>6, <2>1, <2>2, <2>3 DEF Settling
  <1>9. QED BY <1>7, <1>8

LEMMA RefreshSettling == ASSUME Typed, Settling, RefreshEvents PROVE Settling'
  <1>1. /\ UNCHANGED <<journal, worker, review, remote, service>> /\ Access
        /\ eventRows' = {remote} \ {Nothing}
        /\ unread' = (unread /\ \E c \in Changes : Repairs(journal[c]))
    BY DEF RefreshEvents, User, Server
  <1>2. /\ Chained' = Chained /\ Changes' = Changes /\ ServerId' = ServerId /\ CacheIsTrue'
        /\ \A k \in Changes : Agrees(journal[k], journal[k].receipt)' = Agrees(journal[k], journal[k].receipt)
    BY <1>1 DEF Chained, ChainedTo, Changes, ServerId, CacheIsTrue, Agrees
  <1>3. ASSUME Chained, ~unread', NEW c \in Changes, Repairs(journal[c])
        PROVE  Agrees(journal[c], journal[c].receipt)
    <2>1. ~unread
      BY <1>1, <1>3
    <2>2. QED BY <1>3, <2>1 DEF Settling
  <1>4. remote = Nothing => eventRows' = {}
    BY <1>1
  <1>5. QED BY <1>1, <1>2, <1>3, <1>4 DEF Settling, Access

LEMMA InitSettling == CalendarInit => EventsNamed /\ Settling
  <1> SUFFICES ASSUME CalendarInit PROVE EventsNamed /\ Settling
    OBVIOUS
  <1>1. journal = <<>> /\ worker = NoWork /\ review = NoReview /\ form = Nothing
    BY DEF CalendarInit
  <1>2. Changes = {}
    BY <1>1 DEF Changes
  <1>3. remote # Nothing => remote.id = ServerId /\ remote.url /\ remote.etag # 0
    BY DEF CalendarInit, OnServer
  <1>4. CacheIsTrue
    BY DEF CalendarInit, CacheIsTrue
  <1>5. worker.event = Nothing /\ review.event = Nothing /\ worker.at = "idle" /\ review.at = "none"
    BY <1>1 DEF NoWork, NoReview
  <1>6. EventsNamed
    BY <1>1, <1>2, <1>3, <1>4, <1>5 DEF EventsNamed, Served, CacheIsTrue
  <1>7. Settling
    BY <1>2, <1>4, <1>5 DEF Settling
  <1>8. QED BY <1>6, <1>7

LEMMA NextSettling ==
    Typed /\ Ordered /\ RequestsOnce /\ EventsNamed /\ Settling /\ [CalendarNext]_calendarVars => Settling'
  <1> SUFFICES ASSUME Typed, Ordered, RequestsOnce, EventsNamed, Settling, [CalendarNext]_calendarVars
               PROVE  Settling'
    OBVIOUS
  <1>1. CASE OpenForm \/ CloseForm \/ (\E c \in Changes : Pick(c)) \/ RecordFails \/ ApplyFails
             \/ UNCHANGED calendarVars
    <2>1. UNCHANGED <<journal, remote, service, eventRows, unread, review>>
      BY <1>1 DEF OpenForm, CloseForm, Pick, RecordFails, ApplyFails, calendarVars, Server, User
    <2>2. worker' = worker \/ worker'.at \notin {"claimed", "answered"}
      BY <1>1, NoWorkTyped
      DEF OpenForm, CloseForm, Pick, RecordFails, ApplyFails, calendarVars, Typed, WorkerTyped, WorkerType
    <2>3. QED BY <2>1, <2>2, SettlingQuiet
  <1>2. CASE Apply
    <2>1. CASE Repairs(journal[worker.change])
      BY <1>2, <2>1, ApplySettling
    <2>2. CASE ~Repairs(journal[worker.change])
      <3>1. UNCHANGED <<journal, remote, service, eventRows, unread, review>> /\ worker'.at = "idle"
        BY <1>2, <2>2, NoWorkTyped DEF Apply, Server, User
      <3>2. QED BY <3>1, SettlingQuiet
    <2>3. QED BY <2>1, <2>2
  <1>3. CASE Step
    BY <1>1, <1>2, <1>3, ClaimSettling, ClaimFailsSettling, TakenSettling, NothingTakenSettling,
       RecordSettling, MarkSettling DEF Step
  <1>4. CASE OtherClient
    BY <1>4 DEF OtherClient, Settling
  <1>5. CASE \E c \in Changes : RetryChange(c) \/ ResolveChange(c)
    BY <1>5, UserSettling
  <1>6. QED BY <1>1, <1>3, <1>4, <1>5, CheckSettling, AdmitSettling, RestartSettling, RefreshSettling
    DEF CalendarNext

(* When every change of an event has ended, each after the one before it, the *)
(* cache has the event the server has, once and under the server's id, unless *)
(* another client changed it since the last refresh: a lost answer is made    *)
(* good by the check, and a late receipt is not applied over a later change   *)
(* (apply_calendar_receipt, check_calendar_action, replace_events).           *)
THEOREM SettledShows == CalendarSpec => []SettledIsShown
  <1>1. CalendarInit => RequestsOnce
    BY InitTypes, NoWorkTyped DEF CalendarInit, RequestsOnce
  <1>2. Settling => SettledIsShown
    BY DEF Settling, SettledIsShown, AllEnded, Unsettled, Ended, Chained
  <1>3. QED BY <1>1, <1>2, InitOwned, InitSettling, AlwaysTyped, NextOnce, NextOrder, NextNamed,
               NextSettling, PTL DEF CalendarSpec

=============================================================================
