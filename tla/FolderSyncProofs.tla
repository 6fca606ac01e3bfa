------------------------- MODULE FolderSyncProofs -------------------------
(***************************************************************************)
(* Theorems about FolderSync, for every set of messages and flags, every   *)
(* server extension, and any number of changes, writes and lost checks.    *)
(* FolderCheckTypes is unconditional; the others assume WritesFit, that no *)
(* check is overtaken by more writes than the ledger holds: past that the  *)
(* code forgets the writes it is asked about.                              *)
(*                                                                         *)
(* The argument has two parts.  FolderIInv relates what a check has sent   *)
(* and not yet applied to what the ledger and the server hold: a body is   *)
(* of a message that was not known, a listing names what the server has or *)
(* a move brought its row since.  StateIInv says what a mod-sequence       *)
(* vouches for: every value in the queue is the server's, or of a message  *)
(* that changed after every state saved or about to be; every row a state  *)
(* covers is told by an item ahead of it.                                  *)
(***************************************************************************)
EXTENDS FolderSync, FiniteSetTheorems, SequenceTheorems, TLAPS

----------------------------------------------------------------------------
(* Types. *)

(* What rests is of the types.                                               *)
LEMMA FolderKinds ==
    /\ Resting \in Checks /\ NoWrite.op = "none"
    /\ NoneSeen \in [Uids -> SUBSET Fields]
  <1>1. NoneSeen \in [Uids -> SUBSET Fields]
    BY DEF NoneSeen
  <1>2. Resting \in Checks
    BY <1>1, SMT DEF Resting, Checks, Steps, Plans
  <1>3. NoWrite.op = "none"
    BY DEF NoWrite
  <1>4. QED BY <1>1, <1>2, <1>3

(* The items a check sends. *)
LEMMA FlagItemType ==
    ASSUME NEW of \in SUBSET Uids, NEW shows \in [Uids -> SUBSET Fields]
    PROVE  /\ FlagItem(of, shows) \in Seq(Items)
           /\ \A i \in 1..Len(FlagItem(of, shows)) : FlagItem(of, shows)[i].is = "flags"
  <1> DEFINE item == [is |-> "flags", of |-> of,
                      flags |-> [u \in Uids |-> IF u \in of THEN shows[u] ELSE {}]]
  <1>1. item \in Items /\ item.is = "flags"
    BY DEF Items
  <1>2. FlagItem(of, shows) = <<item>> \/ FlagItem(of, shows) = <<>>
    BY DEF FlagItem, Together
  <1> HIDE DEF item
  <1>3. <<item>> \in Seq(Items) /\ Len(<<item>>) = 1 /\ <<item>>[1] = item
    BY <1>1
  <1>4. <<>> \in Seq(Items) /\ Len(<<>>) = 0
    OBVIOUS
  <1>5. CASE FlagItem(of, shows) = <<item>>
    <2>1. \A i \in 1..Len(FlagItem(of, shows)) : i = 1
      BY <1>3, <1>5
    <2>2. QED BY <1>1, <1>3, <1>5, <2>1
  <1>6. CASE FlagItem(of, shows) = <<>>
    <2>1. \A i \in 1..Len(FlagItem(of, shows)) : FALSE
      BY <1>4, <1>6
    <2>2. QED BY <1>4, <1>6, <2>1
  <1>7. QED BY <1>2, <1>5, <1>6

LEMMA BodyItemType ==
    ASSUME NEW u \in Uids, NEW shows \in SUBSET Fields
    PROVE  /\ BodyItem(u, shows) \in Items /\ BodyItem(u, shows).is = "message"
           /\ BodyItem(u, shows).uid = u /\ BodyItem(u, shows).shows = shows
  BY DEF BodyItem, Items

LEMMA ItemTypes ==
    /\ \A ids \in SUBSET Uids : [is |-> "reconcile", ids |-> ids] \in Items
                                /\ [is |-> "vanished", ids |-> ids] \in Items
    /\ \A m \in Nat : [is |-> "state", modseq |-> m] \in Items
  BY DEF Items

(* The members of a finite set in some order. *)
LEMMA OrderedMembers ==
    ASSUME NEW S, IsFiniteSet(S)
    PROVE  SetToSeq(S) \in [1..Cardinality(S) -> S]
  <1>1. PICK f \in Bijection(1..Cardinality(S), S) : TRUE
    BY FS_CardinalityType DEF ExistsBijection
  <1>2. f \in [1..Cardinality(S) -> S] /\ IsInjective(f)
    BY <1>1 DEF Bijection, Injection, IsInjective
  <1>3. QED BY <1>2 DEF SetToSeq

(* A step adds items to the queue, or takes the first one. *)
LEMMA SentItems ==
    ASSUME NEW q \in Seq(Items), NEW t \in Seq(Items)
    PROVE  /\ q \o t \in Seq(Items) /\ Len(q \o t) = Len(q) + Len(t)
           /\ \A i \in 1..Len(q) : (q \o t)[i] = q[i]
           /\ \A i \in 1..Len(q \o t) : i \in 1..Len(q) \/ \E k \in 1..Len(t) : (q \o t)[i] = t[k] /\ i = Len(q) + k
  <1>1. /\ q \o t \in Seq(Items) /\ Len(q \o t) = Len(q) + Len(t)
        /\ \A i \in 1..Len(q) + Len(t) : (q \o t)[i] = IF i <= Len(q) THEN q[i] ELSE t[i - Len(q)]
    BY ConcatProperties
  <1>2. Len(q) \in Nat /\ Len(t) \in Nat
    BY LenProperties
  <1>3. ASSUME NEW i \in 1..Len(q) + Len(t), i \notin 1..Len(q)
        PROVE  i - Len(q) \in 1..Len(t) /\ (q \o t)[i] = t[i - Len(q)] /\ i = Len(q) + (i - Len(q))
    BY <1>1, <1>2, <1>3
  <1>4. QED BY <1>1, <1>2, <1>3

(* The first item, and what is left of the queue.                            *)
LEMMA AppliedItem ==
    ASSUME NEW q \in Seq(Items), q # <<>>
    PROVE  /\ q[1] \in Items /\ Tail(q) \in Seq(Items) /\ Len(Tail(q)) = Len(q) - 1
           /\ Len(q) >= 1 /\ Len(q) \in Nat
           /\ \A i \in 1..Len(Tail(q)) : Tail(q)[i] = q[i + 1] /\ i + 1 \in 1..Len(q)
  <1>1. Len(q) \in Nat /\ Len(q) # 0
    BY LenProperties, EmptySeq
  <1>2. Tail(q) \in Seq(Items) /\ Len(Tail(q)) = Len(q) - 1 /\ \A i \in 1..Len(Tail(q)) : Tail(q)[i] = q[i + 1]
    BY HeadTailProperties
  <1>3. QED BY <1>1, <1>2, ElementOfSeq

LEMMA CheckFields ==
    ASSUME CheckTypeOK
    PROVE  /\ check.step \in Steps /\ check.epoch \in Nat /\ check.known \in SUBSET Uids
           /\ check.resume \in Nat /\ check.modseq \in Nat /\ check.there \in SUBSET Uids
           /\ check.plan \in Plans /\ check.whole \in BOOLEAN
           /\ check.live \in SUBSET Uids /\ check.lost \in SUBSET Uids
           /\ check.listed \in SUBSET Uids /\ check.slow \in SUBSET Uids
           /\ check.seen \in [Uids -> SUBSET Fields]
  BY DEF CheckTypeOK, Checks

LEMMA ServerFields ==
    ASSUME CheckTypeOK
    PROVE  /\ Shown \in [Uids -> SUBSET Fields] /\ Here \in SUBSET Uids /\ Inline \in SUBSET Uids
           /\ \A u \in Uids : server[u].is \in Places /\ server[u].flags \in SUBSET Fields
           /\ \A since, place : Changed(since, place) \in SUBSET Uids
           /\ \A since, place : \A u \in Changed(since, place) : server[u].is = place
  BY DEF CheckTypeOK, Shown, Here, Inline, Changed

(* A change at the server. *)
LEMMA ChangedServer ==
    ASSUME CheckTypeOK, NEW u \in Uids, NEW place \in Places, NEW shows \in SUBSET Fields,
           Change(u, place, shows)
    PROVE  /\ server' \in [Uids -> [is : Places, flags : SUBSET Fields, mod : Nat]]
           /\ highest' \in Nat /\ highest' = highest + 1
           /\ server'[u].is = place /\ server'[u].mod = highest + 1
           /\ \A w \in Uids : w # u => server'[w] = server[w]
  BY DEF CheckTypeOK, Change

(* A request has a message of the folder.                                    *)
LEMMA WriteFields ==
    ASSUME CheckTypeOK, write # NoWrite
    PROVE  /\ write.uid \in Uids /\ write.done \in BOOLEAN /\ write.op \in {"flags", "away", "in"}
           /\ write.op = "flags" => write.field \in Fields /\ write.on \in BOOLEAN
           /\ write.op = "in" => write.flags \in SUBSET Fields
  BY DEF CheckTypeOK, Writes

LEMMA ToggleType ==
    ASSUME NEW on, NEW shows \in SUBSET Fields, NEW f \in Fields
    PROVE  Toggle(on, shows, f) \in SUBSET Fields
  BY DEF Toggle

(* Each action keeps the types.                                              *)
LEMMA OtherType == CheckTypeOK /\ OtherClient => CheckTypeOK'
  <1> SUFFICES ASSUME CheckTypeOK, OtherClient PROVE CheckTypeOK'
    OBVIOUS
  <1>1. PICK u \in Uids, place \in Places, shows \in SUBSET Fields : Change(u, place, shows)
    <2>1. \A u \in Uids : server[u].flags \in SUBSET Fields
      BY ServerFields
    <2>2. {} \in SUBSET Fields /\ Arriving \subseteq SUBSET Fields
      BY ParametersAssumption
    <2>3. {"here", "gone"} \subseteq Places
      BY DEF Places
    <2>4. QED BY <2>1, <2>2, <2>3, ToggleType DEF OtherClient
  <1>2. /\ server' \in [Uids -> [is : Places, flags : SUBSET Fields, mod : Nat]]
        /\ highest' \in Nat
    BY <1>1, ChangedServer
  <1>3. QED BY <1>2 DEF OtherClient, CheckTypeOK, kinds, rows, book

LEMMA UserType == CheckTypeOK /\ User => CheckTypeOK'
  <1> SUFFICES ASSUME CheckTypeOK, User PROVE CheckTypeOK'
    OBVIOUS
  <1>1. ASSUME NEW r \in Writes, Ask(r) PROVE CheckTypeOK'
    BY <1>1 DEF Ask, CheckTypeOK, kinds, remote, rows, book
  <1>2. ASSUME NEW u \in cached, NEW f \in Fields
        PROVE  [op |-> "flags", uid |-> u, field |-> f, on |-> f \notin flags[u], done |-> FALSE] \in Writes
    BY DEF Writes, CheckTypeOK
  <1>3. ASSUME NEW u \in cached PROVE [op |-> "away", uid |-> u, done |-> FALSE] \in Writes
    BY DEF Writes, CheckTypeOK
  <1>4. ASSUME NEW u \in Uids, NEW carried \in Carried
        PROVE  [op |-> "in", uid |-> u, flags |-> carried, done |-> FALSE] \in Writes
    BY ParametersAssumption DEF Writes
  <1>5. QED BY <1>1, <1>2, <1>3, <1>4 DEF User, AskFlags, AskAway, AskIn

(* What the server does with a write. *)
LEMMA ExecuteServer ==
    ASSUME CheckTypeOK, Execute
    PROVE  \/ UNCHANGED remote /\ write.op = "flags"
           \/ \E place \in Places, shows \in SUBSET Fields :
                 /\ Change(write.uid, place, shows)
                 /\ \/ write.op = "flags" /\ place = "here" /\ write.uid \in Here
                    \/ write.op = "away" /\ place = "gone" /\ write.uid \in Here
                    \/ write.op = "in" /\ place = "here"
  <1>1. write # NoWrite
    BY DEF Execute
  <1>2. {"here", "gone"} \subseteq Places /\ {} \in SUBSET Fields /\ Arriving \subseteq SUBSET Fields
    BY ParametersAssumption DEF Places
  <1>3. server[write.uid].flags \in SUBSET Fields
    BY <1>1, WriteFields, ServerFields
  <1>4. CASE write.op = "flags"
    <2>1. Toggle(write.on, server[write.uid].flags, write.field) \in SUBSET Fields
      BY <1>1, <1>3, <1>4, WriteFields, ToggleType
    <2>2. QED BY <1>2, <1>4, <2>1 DEF Execute
  <1>5. CASE write.op = "away"
    BY <1>2, <1>5 DEF Execute
  <1>6. CASE write.op = "in"
    BY <1>2, <1>6 DEF Execute
  <1>7. QED BY <1>1, <1>4, <1>5, <1>6, WriteFields

LEMMA DoneWrite ==
    ASSUME CheckTypeOK, write # NoWrite, write' = [write EXCEPT !.done = TRUE]
    PROVE  /\ write' \in Writes /\ write'.op = write.op /\ write'.uid = write.uid /\ write'.done
           /\ write' # NoWrite
  BY DEF CheckTypeOK, Writes, NoWrite

LEMMA BookType ==
    ASSUME CheckTypeOK, NEW u \in Uids, NEW kind \in {"flags", "away", "in"}, RecordAcknowledged(u, kind)
    PROVE  ledger' \subseteq Entries /\ (\A e \in ledger' : e.ack <= clock') /\ clock' \in Nat
  <1>1. [uid |-> u, kind |-> kind, ack |-> clock + 1] \in Entries
    BY DEF Entries, CheckTypeOK
  <1>2. PICK n : n = [uid |-> u, kind |-> kind, ack |-> clock + 1]
    OBVIOUS
  <1>3. n \in Entries /\ n.ack = clock + 1 /\ ledger' \subseteq ledger \cup {n} /\ clock' = clock + 1
    BY <1>1, <1>2 DEF RecordAcknowledged, Bounded
  <1>4. clock \in Nat /\ ledger \subseteq Entries /\ \A e \in ledger : e.ack <= clock
    BY DEF CheckTypeOK
  <1>5. \A e \in ledger : e.ack <= clock + 1
    BY <1>4 DEF Entries
  <1>6. QED BY <1>3, <1>4, <1>5

LEMMA AnswerType == CheckTypeOK /\ Answer => CheckTypeOK'
  <1> SUFFICES ASSUME CheckTypeOK, Answer PROVE CheckTypeOK'
    OBVIOUS
  <1>0. NoWrite.op = "none"
    BY FolderKinds
  <1>1. CASE Execute
    <2>1. write' \in Writes
      BY <1>1, DoneWrite DEF Execute
    <2>2. /\ server' \in [Uids -> [is : Places, flags : SUBSET Fields, mod : Nat]]
          /\ highest' \in Nat
      <3>1. CASE UNCHANGED remote
        BY <3>1 DEF remote, CheckTypeOK
      <3>2. write.uid \in Uids
        BY <1>1, WriteFields DEF Execute
      <3>3. QED BY <1>1, <3>1, <3>2, ExecuteServer, ChangedServer
    <2>3. QED BY <1>1, <2>1, <2>2 DEF Execute, CheckTypeOK, kinds, rows, book
  <1>2. CASE GiveUp
    BY <1>2 DEF GiveUp, CheckTypeOK, kinds, remote, rows, book
  <1>3. CASE CommitFlags
    <2>1. write # NoWrite /\ write.uid \in Uids
      BY <1>0, <1>3, WriteFields DEF CommitFlags
    <2>2. Toggle(write.on, flags[write.uid], write.field) \in SUBSET Fields
      BY <1>3, <2>1, WriteFields, ToggleType DEF CommitFlags, CheckTypeOK
    <2>3. flags' \in [Uids -> SUBSET Fields]
      BY <1>3, <2>2 DEF CommitFlags, CheckTypeOK
    <2>4. ledger' \subseteq Entries /\ (\A e \in ledger' : e.ack <= clock') /\ clock' \in Nat
      <3>1. CASE UNCHANGED book
        BY <3>1 DEF book, CheckTypeOK
      <3>2. QED BY <1>3, <2>1, <3>1, BookType DEF CommitFlags
    <2>5. QED BY <1>3, <2>3, <2>4 DEF CommitFlags, CheckTypeOK, kinds, remote
  <1>4. CASE CommitAway
    <2>1. write # NoWrite /\ write.uid \in Uids
      BY <1>0, <1>4, WriteFields DEF CommitAway
    <2>2. ledger' \subseteq Entries /\ (\A e \in ledger' : e.ack <= clock') /\ clock' \in Nat
      BY <1>4, <2>1, BookType DEF CommitAway
    <2>3. flags' \in [Uids -> SUBSET Fields]
      BY <1>4 DEF CommitAway, CheckTypeOK
    <2>4. QED BY <1>4, <2>1, <2>2, <2>3 DEF CommitAway, CheckTypeOK, kinds, remote
  <1>5. CASE CommitIn
    <2>1. write # NoWrite /\ write.uid \in Uids /\ write.flags \in SUBSET Fields
      BY <1>0, <1>5, WriteFields DEF CommitIn
    <2>2. ledger' \subseteq Entries /\ (\A e \in ledger' : e.ack <= clock') /\ clock' \in Nat
      BY <1>5, <2>1, BookType DEF CommitIn
    <2>3. flags' \in [Uids -> SUBSET Fields]
      BY <1>5, <2>1 DEF CommitIn, CheckTypeOK
    <2>4. QED BY <1>5, <2>1, <2>2, <2>3 DEF CommitIn, CheckTypeOK, kinds, remote
  <1>6. QED BY <1>1, <1>2, <1>3, <1>4, <1>5 DEF Answer

(* A step of the provider: the check goes on and items are sent. *)
LEMMA ProviderStepType ==
    ASSUME CheckTypeOK, Quiet, check' \in Checks, queue' \in Seq(Items)
    PROVE  CheckTypeOK'
  BY DEF CheckTypeOK, Quiet, kinds, remote, Local, book

----------------------------------------------------------------------------
(* The steps of a check, and what they send. *)

(* What a step keeps of the check. *)
Keeps == check'.epoch = check.epoch /\ check'.known = check.known
Listed(step, whole, live, lost, listed, slow) ==
    /\ check'.step = step /\ check'.whole = whole /\ check'.live = live
    /\ check'.lost = lost /\ check'.listed = listed /\ check'.slow = slow
Sends(kind) ==
    \E t \in Seq(Items) : queue' = queue \o t /\ \A i \in 1..Len(t) : t[i].is = kind

LEMMA SendsNothing == CheckTypeOK /\ UNCHANGED queue => Sends("flags")
  <1> SUFFICES ASSUME CheckTypeOK, UNCHANGED queue PROVE Sends("flags")
    OBVIOUS
  <1>1. <<>> \in Seq(Items) /\ Len(<<>>) = 0 /\ queue \o <<>> = queue
    BY ConcatEmptySeq DEF CheckTypeOK
  <1>2. \A i \in 1..Len(<<>>) : <<>>[i].is = "flags"
    BY <1>1
  <1>3. QED BY <1>1, <1>2 DEF Sends

LEMMA SendsFlags ==
    ASSUME CheckTypeOK, NEW of \in SUBSET Uids, NEW shows \in [Uids -> SUBSET Fields],
           Send(FlagItem(of, shows))
    PROVE  Sends("flags")
  BY FlagItemType DEF Send, Sends

LEMMA SendsType == ASSUME CheckTypeOK, NEW kind, Sends(kind) PROVE queue' \in Seq(Items)
  BY SentItems DEF Sends, CheckTypeOK

(* What each step leaves of the check and puts in the queue.                 *)
LEMMA BeginShape ==
    ASSUME CheckTypeOK, Begin
    PROVE  /\ check' \in Checks /\ check'.epoch = clock /\ check'.known = {}
           /\ Listed("read", FALSE, {}, {}, {}, {}) /\ UNCHANGED queue /\ check.step = "idle"
  <1>1. check' = [Resting EXCEPT !.step = "read", !.epoch = clock] /\ clock \in Nat
    BY DEF Begin, Step, CheckTypeOK
  <1>2. Resting \in Checks /\ "read" \in Steps
    BY FolderKinds DEF Steps
  <1>3. check' \in Checks
    BY <1>1, <1>2 DEF Checks
  <1>4. QED BY <1>1, <1>3 DEF Begin, Listed, Resting

LEMMA ReadShape ==
    ASSUME CheckTypeOK, Read
    PROVE  /\ check' \in Checks /\ check'.epoch = check.epoch /\ check'.known = cached
           /\ Listed("select", check.whole, check.live, check.lost, check.listed, check.slow)
           /\ UNCHANGED queue /\ check.step = "read"
  <1>1. check' = [check EXCEPT !.step = "select", !.known = cached, !.resume = saved]
    BY DEF Read, Step
  <1>2. "select" \in Steps /\ cached \in SUBSET Uids /\ saved \in Nat /\ check \in Checks
    BY DEF CheckTypeOK, Steps
  <1>3. check' \in Checks
    BY <1>1, <1>2 DEF Checks
  <1>4. QED BY <1>1, <1>2, <1>3 DEF Read, Listed, Checks

LEMMA SelectShape ==
    ASSUME CheckTypeOK, Select
    PROVE  /\ check' \in Checks /\ Keeps /\ UNCHANGED queue /\ check.step = "select"
           /\ \E step \in {"search", "resync", "close"} :
                 Listed(step, check.whole, check.live, check.lost, check.listed, check.slow)
  <1>1. PICK modseq \in {0, highest}, plan \in Plans, step \in {"search", "resync", "close"} :
            check' = [check EXCEPT !.modseq = modseq, !.there = Here, !.plan = plan, !.step = step]
    <2>1. \A r, m : Plan(r, m) \in Plans
      BY DEF Plan, Plans
    <2>2. QED BY <2>1 DEF Select, Step
  <1>2. modseq \in Nat /\ Here \in SUBSET Uids /\ step \in Steps /\ check \in Checks
    BY ServerFields DEF CheckTypeOK, Steps
  <1>3. check' \in Checks
    BY <1>1, <1>2 DEF Checks
  <1>4. QED BY <1>1, <1>2, <1>3 DEF Select, Listed, Keeps, Checks

LEMMA ResyncShape ==
    ASSUME CheckTypeOK, Resync
    PROVE  /\ check' \in Checks /\ Keeps /\ check.step = "resync"
           /\ \/ /\ Sends("flags")
                 /\ \E gone, new \in SUBSET Uids :
                       /\ \A u \in gone : server[u].is = "gone"
                       /\ Listed("fetch", check.whole, check.live, gone, new, check.slow)
              \/ /\ UNCHANGED queue
                 /\ \E listed \in SUBSET Uids :
                       Listed("search", check.whole, check.live, check.lost, listed, check.slow)
  <1> DEFINE fetched == Changed(check.resume, "here")
             gone    == check.known \cap Changed(check.resume, "gone")
             new     == fetched \ check.known
  <1>1. /\ fetched \in SUBSET Uids /\ gone \in SUBSET Uids /\ new \in SUBSET Uids
        /\ fetched \cap check.known \in SUBSET Uids
        /\ \A u \in gone : server[u].is = "gone"
    BY ServerFields
  <1>2. {"fetch", "search"} \subseteq Steps /\ "full" \in Plans /\ check \in Checks
        /\ Shown \in [Uids -> SUBSET Fields]
    BY ServerFields DEF CheckTypeOK, Steps, Plans
  <1>3. CASE /\ check' = [check EXCEPT !.step = "fetch", !.lost = gone, !.listed = new]
             /\ Send(FlagItem(fetched \cap check.known, Shown))
    <2>1. Sends("flags")
      BY <1>1, <1>2, <1>3, SendsFlags
    <2> HIDE DEF fetched, gone, new
    <2>2. check' \in Checks /\ Keeps
          /\ Listed("fetch", check.whole, check.live, gone, new, check.slow)
      BY <1>1, <1>2, <1>3 DEF Checks, Keeps, Listed
    <2>3. QED BY <1>1, <2>1, <2>2 DEF Resync
  <1>4. CASE /\ check' = [check EXCEPT !.step = "search", !.listed = fetched, !.seen = Shown]
             /\ UNCHANGED queue
    <2> HIDE DEF fetched, gone, new
    <2>2. check' \in Checks /\ Keeps
          /\ Listed("search", check.whole, check.live, check.lost, fetched, check.slow)
      BY <1>1, <1>2, <1>4 DEF Checks, Keeps, Listed
    <2>3. QED BY <1>1, <1>4, <2>2 DEF Resync
  <1>5. CASE /\ check' = [check EXCEPT !.step = "search", !.plan = "full"]
             /\ UNCHANGED queue
    <2>2. check' \in Checks /\ Keeps
          /\ Listed("search", check.whole, check.live, check.lost, check.listed, check.slow)
      BY <1>2, <1>5 DEF Checks, Keeps, Listed
    <2>3. check.listed \in SUBSET Uids
      BY CheckFields
    <2>4. QED BY <1>5, <2>2, <2>3 DEF Resync
  <1>6. QED BY <1>3, <1>4, <1>5 DEF Resync, Step

LEMMA SearchShape ==
    ASSUME CheckTypeOK, Search
    PROVE  /\ check' \in Checks /\ Keeps /\ Sends("flags") /\ check.step = "search"
           /\ \E step \in {"changed", "fetch"}, listed \in SUBSET Here :
                 Listed(step, TRUE, Here, check.lost, listed, check.slow)
  <1> DEFINE given == check.plan # "full" /\ (Qresync \/ check.plan = "unchanged")
             asks  == check.plan = "changes" /\ ~ Qresync
             of    == IF given THEN check.listed \cap check.known \cap Here ELSE {}
  <1>1. PICK step \in {"changed", "fetch"}, listed \in SUBSET Here :
           check' = [check EXCEPT !.step = step, !.whole = TRUE, !.live = Here,
                                  !.seen = NoneSeen, !.listed = listed]
    <2>1. (IF given THEN Here \ check.known ELSE Here) \in SUBSET Here
      OBVIOUS
    <2>2. (IF asks THEN "changed" ELSE "fetch") \in {"changed", "fetch"}
      OBVIOUS
    <2>3. QED BY <2>1, <2>2 DEF Search, Step, Unlisted
  <1>2. Here \in SUBSET Uids /\ step \in Steps /\ check \in Checks /\ NoneSeen \in [Uids -> SUBSET Fields]
    BY ServerFields, FolderKinds DEF CheckTypeOK, Steps
  <1>3. check' \in Checks
    BY <1>1, <1>2 DEF Checks
  <1>4. Keeps /\ Listed(step, TRUE, Here, check.lost, listed, check.slow)
    BY <1>1, <1>2 DEF Checks, Keeps, Listed
  <1>5. of \in SUBSET Uids /\ check.seen \in [Uids -> SUBSET Fields]
    BY CheckFields
  <1>6. Send(FlagItem(of, check.seen))
    BY DEF Search
  <1> HIDE DEF of
  <1>7. Sends("flags")
    BY <1>5, <1>6, SendsFlags
  <1>8. QED BY <1>3, <1>4, <1>7 DEF Search

LEMMA ChangedShape ==
    ASSUME CheckTypeOK, FetchChanged
    PROVE  /\ check' \in Checks /\ Keeps /\ Sends("flags") /\ check.step = "changed"
           /\ \E listed \in SUBSET Uids :
                 /\ listed \subseteq check.live \/ listed = check.listed
                 /\ Listed("fetch", check.whole, check.live, check.lost, listed, check.slow)
  <1> DEFINE of == Changed(check.resume, "here") \cap check.known \cap check.live
  <1>1. "fetch" \in Steps /\ check \in Checks /\ check.live \ check.known \in SUBSET Uids
        /\ of \in SUBSET Uids /\ Shown \in [Uids -> SUBSET Fields] /\ check.listed \in SUBSET Uids
    BY CheckFields, ServerFields DEF CheckTypeOK, Steps
  <1> HIDE DEF of
  <1>2. CASE /\ check' = [check EXCEPT !.step = "fetch", !.listed = check.live \ check.known]
             /\ Send(FlagItem(of, Shown))
    <2>1. Sends("flags")
      BY <1>1, <1>2, SendsFlags
    <2>2. check' \in Checks /\ Keeps
          /\ Listed("fetch", check.whole, check.live, check.lost, check.live \ check.known, check.slow)
      BY <1>1, <1>2 DEF Checks, Keeps, Listed
    <2>3. QED BY <1>1, <2>1, <2>2 DEF FetchChanged
  <1>3. CASE check' = [check EXCEPT !.step = "fetch"] /\ UNCHANGED queue
    <2>1. Sends("flags")
      BY <1>3, SendsNothing
    <2>2. check' \in Checks /\ Keeps
          /\ Listed("fetch", check.whole, check.live, check.lost, check.listed, check.slow)
      BY <1>1, <1>3 DEF Checks, Keeps, Listed
    <2>3. QED BY <1>1, <2>1, <2>2 DEF FetchChanged
  <1>4. QED BY <1>2, <1>3 DEF FetchChanged, Step, of

LEMMA MetadataShape ==
    ASSUME CheckTypeOK, FetchMetadata
    PROVE  /\ check' \in Checks /\ Keeps /\ Sends("flags") /\ check.step = "fetch"
           /\ \E step \in {"close", "bodies"}, listed, slow \in SUBSET check.listed :
                 /\ \A u \in listed \cup slow : u \notin check.known
                 /\ Listed(step, check.whole, check.live, check.lost, listed, slow)
  <1> DEFINE there == check.listed \cap Here
             new   == there \ check.known
             sizes == [u \in Uids |-> IF u \in new \cap Staged THEN server[u].flags ELSE {}]
             of    == there \cap check.known
  <1>1. /\ check \in Checks /\ {"close", "bodies"} \subseteq Steps /\ of \in SUBSET Uids
        /\ Shown \in [Uids -> SUBSET Fields] /\ check.listed \in SUBSET Uids
        /\ new \in SUBSET check.listed /\ new \cap check.known = {}
        /\ sizes \in [Uids -> SUBSET Fields]
    BY CheckFields, ServerFields DEF CheckTypeOK, Steps
  <1>2. PICK step \in {"close", "bodies"} :
          /\ check' = [check EXCEPT !.step = step, !.listed = new \cap Inline,
                                    !.slow = new \ Inline, !.seen = sizes]
          /\ Send(FlagItem(of, Shown))
    <2>1. (IF new \cap Inline = {} THEN "close" ELSE "bodies") \in {"close", "bodies"}
      OBVIOUS
    <2>2. QED BY <2>1 DEF FetchMetadata, Step
  <1> HIDE DEF of, sizes, new
  <1>3. Sends("flags")
    BY <1>1, <1>2, SendsFlags
  <1>4. check' \in Checks /\ Keeps
        /\ Listed(step, check.whole, check.live, check.lost, new \cap Inline, new \ Inline)
    BY <1>1, <1>2 DEF Checks, Keeps, Listed
  <1>5. /\ new \cap Inline \in SUBSET check.listed /\ new \ Inline \in SUBSET check.listed
        /\ \A u \in (new \cap Inline) \cup (new \ Inline) : u \notin check.known
    BY <1>1
  <1>6. QED BY <1>3, <1>4, <1>5 DEF FetchMetadata

(* Bodies of messages that are in the folder. *)
SendsBodies(of) ==
    \E t \in Seq(Items) :
        /\ queue' = queue \o t
        /\ \A i \in 1..Len(t) :
              /\ t[i].is = "message" /\ t[i].uid \in of \cap Here
              /\ \/ t[i].shows = server[t[i].uid].flags
                 \/ t[i].uid \in Staged \cap check.slow /\ t[i].shows = check.seen[t[i].uid]

LEMMA BodiesShape ==
    ASSUME CheckTypeOK, FetchBodies
    PROVE  /\ check' \in Checks /\ Keeps /\ SendsBodies(check.listed) /\ check.step = "bodies"
           /\ Listed("close", check.whole, check.live, check.lost, {}, check.slow)
  <1> DEFINE S == check.listed \cap Here
             t == [i \in 1..Cardinality(S) |->
                     LET u == SetToSeq(S)[i] IN BodyItem(u, server[u].flags)]
  <1>1. check \in Checks /\ "close" \in Steps /\ S \in SUBSET Uids
    BY CheckFields DEF CheckTypeOK, Steps
  <1>2. check' = [check EXCEPT !.step = "close", !.listed = {}] /\ queue' = queue \o t
    BY DEF FetchBodies, Step, Send
  <1>3. check' \in Checks /\ Keeps /\ Listed("close", check.whole, check.live, check.lost, {}, check.slow)
    BY <1>1, <1>2 DEF Checks, Keeps, Listed
  <1>4. IsFiniteSet(S) /\ Cardinality(S) \in Nat
    BY <1>1, ParametersAssumption, FS_Subset, FS_CardinalityType
  <1>5. SetToSeq(S) \in [1..Cardinality(S) -> S]
    BY <1>4, OrderedMembers
  <1>6. \A i \in 1..Cardinality(S) : /\ t[i] \in Items /\ t[i].is = "message" /\ t[i].uid \in S
                                      /\ t[i].shows = server[t[i].uid].flags
    <2> SUFFICES ASSUME NEW i \in 1..Cardinality(S)
                 PROVE  /\ t[i] \in Items /\ t[i].is = "message" /\ t[i].uid \in S
                                      /\ t[i].shows = server[t[i].uid].flags
      OBVIOUS
    <2>1. PICK u \in S : u = SetToSeq(S)[i]
      BY <1>5
    <2>2. u \in Uids /\ server[u].flags \in SUBSET Fields
      BY <1>1, <2>1, ServerFields
    <2>3. t[i] = BodyItem(u, server[u].flags)
      BY <2>1
    <2>4. PICK b : b = BodyItem(u, server[u].flags)
      OBVIOUS
    <2>5. b \in Items /\ b.is = "message" /\ b.uid = u /\ b.shows = server[u].flags
      BY <2>2, <2>4, BodyItemType
    <2>6. QED BY <2>1, <2>3, <2>4, <2>5
  <1>7. t \in [1..Cardinality(S) -> Items]
    BY <1>6
  <1> HIDE DEF t
  <1>8. t \in Seq(Items) /\ Len(t) = Cardinality(S)
    <2>1. t \in Seq(Items)
      BY <1>4, <1>7, SeqDef
    <2>2. Len(t) \in Nat /\ 1..Len(t) = 1..Cardinality(S)
      BY <1>7, <2>1, LenProperties
    <2>3. QED BY <1>4, <2>1, <2>2
  <1>9. SendsBodies(check.listed)
    BY <1>2, <1>6, <1>8 DEF SendsBodies
  <1>10. QED BY <1>3, <1>9 DEF FetchBodies

(* The listing or the expunges, and the state. *)
Closes(t) ==
    /\ queue' = queue \o t
    /\ \A i \in 1..Len(t) :
          \/ t[i].is = "state" /\ t[i].modseq = check.modseq /\ i = Len(t)
          \/ i = 1 /\ check.whole /\ t[i].is = "reconcile" /\ t[i].ids = check.live
          \/ ~check.whole /\ t[i].is = "vanished" /\ t[i].ids = check.lost

LEMMA TogetherFacts ==
    ASSUME NEW Test, NEW item \in Items
    PROVE  /\ Together(Test, item) \in Seq(Items)
           /\ Len(Together(Test, item)) = IF Test THEN 1 ELSE 0
           /\ Test => Together(Test, item)[1] = item
  <1>1. <<item>> \in Seq(Items) /\ Len(<<item>>) = 1 /\ <<item>>[1] = item
    OBVIOUS
  <1>2. <<>> \in Seq(Items) /\ Len(<<>>) = 0
    OBVIOUS
  <1>3. QED BY <1>1, <1>2 DEF Together

LEMMA CloseShape ==
    ASSUME CheckTypeOK, Close
    PROVE  /\ check' \in Checks /\ Keeps /\ check.step = "close"
           /\ \E t \in Seq(Items) : Closes(t)
           /\ Listed("slow", FALSE, {}, {}, check.listed, check.slow)
  <1>1. check' = [check EXCEPT !.step = "slow", !.whole = FALSE, !.live = {}, !.lost = {},
                               !.resume = 0, !.modseq = 0, !.plan = "full", !.there = {}]
    BY DEF Close, Step
  <1>2. check \in Checks /\ "slow" \in Steps /\ "full" \in Plans
    BY DEF CheckTypeOK, Steps, Plans
  <1>3. check' \in Checks /\ Keeps /\ Listed("slow", FALSE, {}, {}, check.listed, check.slow)
    BY <1>1, <1>2 DEF Checks, Keeps, Listed
  <1>4. PICK l, v, s : /\ l = [is |-> "reconcile", ids |-> check.live]
                       /\ v = [is |-> "vanished", ids |-> check.lost]
                       /\ s = [is |-> "state", modseq |-> check.modseq]
    OBVIOUS
  <1>5. /\ l \in Items /\ v \in Items /\ s \in Items
        /\ l.is = "reconcile" /\ l.ids = check.live /\ v.is = "vanished" /\ v.ids = check.lost
        /\ s.is = "state" /\ s.modseq = check.modseq
    BY <1>4, CheckFields, ItemTypes
  <1>6. PICK a, b, c : /\ a = Together(check.whole, l)
                       /\ b = Together(~check.whole /\ check.lost # {}, v)
                       /\ c = Together(check.modseq # check.resume, s)
    OBVIOUS
  <1>7. /\ a \in Seq(Items) /\ b \in Seq(Items) /\ c \in Seq(Items)
        /\ Len(a) = (IF check.whole THEN 1 ELSE 0) /\ (check.whole => a[1] = l)
        /\ Len(b) \in {0, 1} /\ (Len(b) # 0 => b[1] = v /\ ~check.whole)
        /\ Len(c) \in {0, 1} /\ (Len(c) # 0 => c[1] = s)
    BY <1>5, <1>6, TogetherFacts
  <1>8. queue' = queue \o ((a \o b) \o c)
    BY <1>4, <1>6 DEF Close, Send
  <1>9. /\ a \o b \in Seq(Items) /\ (a \o b) \o c \in Seq(Items)
        /\ \A i \in 1..Len(a \o b) : i \in 1..Len(a) \/ \E k \in 1..Len(b) : (a \o b)[i] = b[k]
        /\ \A i \in 1..Len(a) : (a \o b)[i] = a[i]
        /\ \A i \in 1..Len((a \o b) \o c) :
              \/ i \in 1..Len(a \o b) /\ ((a \o b) \o c)[i] = (a \o b)[i]
              \/ \E k \in 1..Len(c) : ((a \o b) \o c)[i] = c[k] /\ i = Len(a \o b) + k
        /\ Len((a \o b) \o c) = Len(a \o b) + Len(c)
    <2>0. a \in Seq(Items) /\ b \in Seq(Items)
      BY <1>7
    <2>1. PICK d : d = a \o b
      OBVIOUS
    <2>2. /\ d \in Seq(Items)
          /\ \A i \in 1..Len(d) : i \in 1..Len(a) \/ \E k \in 1..Len(b) : d[i] = b[k]
          /\ \A i \in 1..Len(a) : d[i] = a[i]
      <3>1. /\ a \o b \in Seq(Items)
            /\ \A i \in 1..Len(a) : (a \o b)[i] = a[i]
            /\ \A i \in 1..Len(a \o b) : i \in 1..Len(a)
                  \/ \E k \in 1..Len(b) : (a \o b)[i] = b[k] /\ i = Len(a) + k
        BY <2>0, SentItems
      <3>2. QED BY <2>1, <3>1
    <2>3. /\ d \o c \in Seq(Items)
          /\ Len(d \o c) = Len(d) + Len(c)
          /\ \A i \in 1..Len(d \o c) :
                i \in 1..Len(d) \/ \E k \in 1..Len(c) : (d \o c)[i] = c[k] /\ i = Len(d) + k
          /\ \A i \in 1..Len(d) : (d \o c)[i] = d[i]
      BY <1>7, <2>2, SentItems
    <2>4. QED BY <2>1, <2>2, <2>3
  <1>10. /\ \A i \in 1..Len(a) : i = 1 /\ check.whole /\ a[i] = l
         /\ \A i \in 1..Len(b) : ~check.whole /\ b[i] = v
         /\ \A i \in 1..Len(c) : c[i] = s /\ i = Len(c)
    <2>1. Len(a) \in {0, 1} /\ Len(b) \in {0, 1} /\ Len(c) \in {0, 1}
      BY <1>7
    <2>2. /\ \A i \in 1..Len(a) : i = 1 /\ Len(a) # 0
          /\ \A i \in 1..Len(b) : i = 1 /\ Len(b) # 0
          /\ \A i \in 1..Len(c) : i = 1 /\ Len(c) = i
      <3>1. \A n \in {0, 1} : \A i \in 1..n : i = 1 /\ n # 0 /\ n = i
        OBVIOUS
      <3>2. QED BY <2>1, <3>1, Zenon
    <2>3. \A i \in 1..Len(a) : i = 1 /\ check.whole /\ a[i] = l
      BY <1>7, <2>2
    <2>4. \A i \in 1..Len(b) : ~check.whole /\ b[i] = v
      BY <1>7, <2>2
    <2>5. \A i \in 1..Len(c) : c[i] = s /\ i = Len(c)
      BY <1>7, <2>2
    <2>6. QED BY <2>3, <2>4, <2>5
  <1>11. \A i \in 1..Len((a \o b) \o c) :
            \/ ((a \o b) \o c)[i] = s /\ i = Len((a \o b) \o c)
            \/ i = 1 /\ check.whole /\ ((a \o b) \o c)[i] = l
            \/ ~check.whole /\ ((a \o b) \o c)[i] = v
    BY <1>9, <1>10
  <1>12. Closes((a \o b) \o c)
    BY <1>5, <1>8, <1>11 DEF Closes
  <1>13. QED BY <1>3, <1>9, <1>12 DEF Close

LEMMA OverShape ==
    ASSUME CheckTypeOK, check' = Over
    PROVE  check' \in Checks /\ Keeps /\ Listed("end", FALSE, {}, {}, {}, {})
  <1>1. Resting \in Checks /\ "end" \in Steps /\ check.epoch \in Nat /\ check.known \in SUBSET Uids
    BY FolderKinds, CheckFields DEF Steps
  <1>2. check' \in Checks
    BY <1>1 DEF Over, Checks
  <1>3. QED BY <1>2 DEF Over, Keeps, Listed, Resting

LEMMA SlowShape ==
    ASSUME CheckTypeOK, FetchSlow
    PROVE  /\ check' \in Checks /\ Keeps /\ check.step = "slow" /\ SendsBodies(check.slow)
           /\ \/ Listed("end", FALSE, {}, {}, {}, {})
              \/ \E slow \in SUBSET check.slow :
                    Listed("slow", check.whole, check.live, check.lost, check.listed, slow)
  <1>1. PICK u \in check.slow :
          /\ IF u \in Staged /\ u \notin Here THEN Step(Over) ELSE Step([check EXCEPT !.slow = @ \ {u}])
          /\ Send(Together(u \in Here, BodyItem(u, IF u \in Staged THEN check.seen[u] ELSE server[u].flags)))
    BY DEF FetchSlow
  <1>2. u \in Uids /\ check.seen[u] \in SUBSET Fields /\ server[u].flags \in SUBSET Fields
    BY CheckFields, ServerFields
  <1>3. PICK b : b = BodyItem(u, IF u \in Staged THEN check.seen[u] ELSE server[u].flags)
    OBVIOUS
  <1>4. b \in Items /\ b.is = "message" /\ b.uid = u
    BY <1>2, <1>3, BodyItemType
  <1>5. SendsBodies(check.slow)
    <2>1. PICK t : t = Together(u \in Here, b)
      OBVIOUS
    <2>2. t \in Seq(Items) /\ Len(t) = (IF u \in Here THEN 1 ELSE 0) /\ (u \in Here => t[1] = b)
      BY <1>4, <2>1, TogetherFacts
    <2>3. \A i \in 1..Len(t) : u \in Here /\ t[i] = b
      BY <2>2
    <2>6. b.shows = server[b.uid].flags \/ (b.uid \in Staged \cap check.slow /\ b.shows = check.seen[b.uid])
      BY <1>2, <1>3, <1>4, BodyItemType
    <2>4. queue' = queue \o t
      BY <1>1, <1>3, <2>1 DEF Send
    <2>7. QED BY <1>4, <2>2, <2>3, <2>4, <2>6 DEF SendsBodies
  <1>6. CASE check' = Over
    BY <1>5, <1>6, OverShape DEF FetchSlow
  <1>7. CASE check' = [check EXCEPT !.slow = @ \ {u}]
    <2>1. check \in Checks /\ check.slow \ {u} \in SUBSET check.slow /\ check.step = "slow"
      BY DEF CheckTypeOK, FetchSlow
    <2>2. check' \in Checks /\ Keeps
          /\ Listed("slow", check.whole, check.live, check.lost, check.listed, check.slow \ {u})
      BY <1>7, <2>1 DEF Checks, Keeps, Listed
    <2>3. QED BY <1>5, <2>1, <2>2
  <1>8. QED BY <1>1, <1>6, <1>7 DEF Step

LEMMA StopShape ==
    ASSUME CheckTypeOK, Stop
    PROVE  /\ check' \in Checks /\ Keeps /\ Listed("end", FALSE, {}, {}, {}, {})
           /\ queue' \in Seq(Items) /\ Len(queue') <= Len(queue)
           /\ \A i \in 1..Len(queue') : queue'[i] = queue[i]
  <1>1. check' = Over
    BY DEF Stop, Step
  <1>2. PICK n \in 0..Len(queue) : queue' = SubSeq(queue, 1, n)
    BY DEF Stop
  <1>3. queue \in Seq(Items) /\ Len(queue) \in Nat
    BY LenProperties DEF CheckTypeOK
  <1>4. /\ SubSeq(queue, 1, n) \in Seq(Items) /\ Len(SubSeq(queue, 1, n)) = n
        /\ \A i \in 1..n : SubSeq(queue, 1, n)[i] = queue[i]
    BY <1>3, SubSeqProperties
  <1>5. queue' \in Seq(Items) /\ Len(queue') = n /\ (\A i \in 1..n : queue'[i] = queue[i])
        /\ n <= Len(queue)
    BY <1>2, <1>3, <1>4
  <1>6. QED BY <1>1, <1>5, OverShape

LEMMA ItemFields ==
    ASSUME NEW item \in Items
    PROVE  /\ item.is \in {"flags", "message", "reconcile", "vanished", "state"}
           /\ item.is = "flags" => item.of \in SUBSET Uids /\ item.flags \in [Uids -> SUBSET Fields]
           /\ item.is = "message" => item.uid \in Uids /\ item.shows \in SUBSET Fields
           /\ item.is \in {"reconcile", "vanished"} => item.ids \in SUBSET Uids
           /\ item.is = "state" => item.modseq \in Nat
  BY DEF Items

LEMMA ApplyType == CheckTypeOK /\ Apply => CheckTypeOK'
  <1> SUFFICES ASSUME CheckTypeOK, Apply PROVE CheckTypeOK'
    OBVIOUS
  <1>1. queue' \in Seq(Items) /\ Item \in Items
    BY AppliedItem DEF CheckTypeOK, Apply, Item
  <1>2. cached' \subseteq Uids
    BY <1>1, ItemFields DEF Apply, ApplyFlags, ApplyMessage, ApplyRemoval, ApplyState, CheckTypeOK, rows
  <1>3. flags' \in [Uids -> SUBSET Fields]
    <2>1. flags \in [Uids -> SUBSET Fields]
      BY DEF CheckTypeOK
    <2>2. CASE ApplyFlags
      <3>1. Item.flags \in [Uids -> SUBSET Fields]
        BY <1>1, <2>2, ItemFields DEF ApplyFlags
      <3>2. QED BY <2>1, <2>2, <3>1 DEF ApplyFlags
    <2>3. CASE ApplyMessage
      BY <1>1, <2>1, <2>3, ItemFields DEF ApplyMessage, rows
    <2>4. CASE ApplyRemoval
      BY <2>1, <2>4 DEF ApplyRemoval
    <2>5. CASE ApplyState
      BY <2>1, <2>5 DEF ApplyState, rows
    <2>6. QED BY <2>2, <2>3, <2>4, <2>5 DEF Apply
  <1>4. saved' \in Nat
    BY <1>1, ItemFields DEF Apply, ApplyFlags, ApplyMessage, ApplyRemoval, ApplyState, CheckTypeOK
  <1>5. QED BY <1>1, <1>2, <1>3, <1>4 DEF Apply, CheckTypeOK, kinds, remote, book

LEMMA ProviderType == CheckTypeOK /\ Provider => CheckTypeOK'
  <1> SUFFICES ASSUME CheckTypeOK, Provider PROVE CheckTypeOK'
    OBVIOUS
  <1>0. queue \in Seq(Items)
    BY DEF CheckTypeOK
  <1>1. ASSUME NEW of, SendsBodies(of) PROVE queue' \in Seq(Items)
    BY <1>0, <1>1, SentItems DEF SendsBodies
  <1>2. CASE Begin \/ Read \/ Select
    BY <1>0, <1>2, BeginShape, ReadShape, SelectShape, ProviderStepType DEF Begin, Read, Select
  <1>3. CASE Resync \/ Search \/ FetchChanged \/ FetchMetadata
    <2>1. check' \in Checks /\ (Sends("flags") \/ UNCHANGED queue) /\ Quiet
      BY <1>3, ResyncShape, SearchShape, ChangedShape, MetadataShape
         DEF Resync, Search, FetchChanged, FetchMetadata
    <2>2. queue' \in Seq(Items)
      BY <1>0, <2>1, SendsType
    <2>3. QED BY <2>1, <2>2, ProviderStepType
  <1>4. CASE FetchBodies \/ FetchSlow
    BY <1>1, <1>4, BodiesShape, SlowShape, ProviderStepType DEF FetchBodies, FetchSlow
  <1>5. CASE Close
    <2>1. queue' \in Seq(Items)
      BY <1>0, <1>5, CloseShape, SentItems DEF Closes
    <2>2. QED BY <1>5, <2>1, CloseShape, ProviderStepType DEF Close
  <1>6. CASE Finish
    BY <1>6, FolderKinds DEF Finish, CheckTypeOK, kinds, remote, Local
  <1>7. QED BY <1>2, <1>3, <1>4, <1>5, <1>6 DEF Provider

LEMMA NextFolderType == CheckTypeOK /\ [CheckNext]_checkVars => CheckTypeOK'
  <1> SUFFICES ASSUME CheckTypeOK, [CheckNext]_checkVars PROVE CheckTypeOK'
    OBVIOUS
  <1>1. CASE Stop
    <2>1. /\ check' \in Checks /\ queue' \in Seq(Items) /\ stops' = stops + 1
          /\ UNCHANGED <<kinds, remote, Local, book>>
      BY <1>1, StopShape DEF Stop
    <2>2. QED BY <2>1 DEF CheckTypeOK, kinds, remote, Local, book
  <1>2. CASE AppCrash
    <2>1. <<>> \in Seq(Items)
      OBVIOUS
    <2>2. write' \in Writes \cup {NoWrite}
      BY <1>2 DEF AppCrash, CheckTypeOK
    <2>3. QED BY <1>2, <2>1, <2>2, FolderKinds DEF AppCrash, CheckTypeOK, kinds, remote, rows
  <1>3. CASE UNCHANGED checkVars
    BY <1>3 DEF checkVars, CheckTypeOK, kinds, remote, rows, book
  <1>4. QED BY <1>1, <1>2, <1>3, OtherType, UserType, AnswerType, ProviderType, ApplyType DEF CheckNext

LEMMA InitFolderType == CheckInit => CheckTypeOK
  <1> SUFFICES ASSUME CheckInit PROVE CheckTypeOK
    OBVIOUS
  <1>1. server \in [Uids -> [is : Places, flags : SUBSET Fields, mod : Nat]] /\ cached \subseteq Uids
    BY DEF CheckInit, Places
  <1>2. <<>> \in Seq(Items)
    OBVIOUS
  <1>3. QED BY <1>1, <1>2, FolderKinds DEF CheckInit, CheckTypeOK

(* Every reachable state of a check and the folder is well typed. *)
THEOREM FolderCheckTypes == CheckSpec => []CheckTypeOK
  BY InitFolderType, NextFolderType, PTL DEF CheckSpec

----------------------------------------------------------------------------
(* The ledger forgets nothing of the check under way. *)

(* No more writes are acknowledged during one check than the ledger holds:    *)
(* LIMIT_PER_ACCOUNT of write_ledger.rs, in any number of checks.             *)
WritesFit == check.step # "idle" => clock - check.epoch <= Limit

(* What the ledger drops is older than everything the check may ask for.     *)
LEMMA BoundedForgetsOld ==
    ASSUME NEW B, NEW clk \in Nat, NEW epoch \in Nat, clk + 1 - epoch <= Limit,
           \A e \in B : e.ack \in 1..clk + 1,
           \A e, x \in B : e.ack = x.ack => e = x
    PROVE  \A e \in B : Outranks(e, epoch) => e \in Bounded(B)
  <1>0. Limit \in Nat
    BY ParametersAssumption
  <1>1. ASSUME NEW e \in B, Outranks(e, epoch)
        PROVE  Cardinality({x \in B : x.ack > e.ack}) < Limit
    <2> DEFINE S == {x \in B : x.ack > e.ack}
               f == [x \in S |-> x.ack]
    <2>0. PICK low \in Int, high \in Int : low = epoch + 2 /\ high = clk + 1
      OBVIOUS
    <2>1. f \in [S -> low..high]
      <3>1. \A x \in S : x.ack \in 1..clk + 1 /\ e.ack \in 1..clk + 1 /\ x.ack > e.ack
        OBVIOUS
      <3>2. e.ack > epoch
        BY <1>1 DEF Outranks
      <3>3. \A x \in S : x.ack \in low..high
        BY <2>0, <3>1, <3>2
      <3>4. QED BY <3>3
    <2>2. f \in Injection(S, low..high)
      BY <2>1 DEF Injection, IsInjective
    <2>3. e.ack \in 1..clk + 1 /\ e.ack > epoch
      BY <1>1 DEF Outranks
    <2> HIDE DEF S, f
    <2>4. IsFiniteSet(low..high) /\ Cardinality(low..high) = IF low > high THEN 0 ELSE high - low + 1
      BY <2>0, FS_Interval
    <2>5. IsFiniteSet(S) /\ Cardinality(S) <= Cardinality(low..high)
      BY <2>2, <2>4, FS_Injection
    <2>6. Cardinality(S) \in Nat
      BY <2>5, FS_CardinalityType
    <2>7. Cardinality(low..high) <= clk - epoch /\ Cardinality(low..high) \in Nat
      BY <2>0, <2>3, <2>4
    <2>8. Cardinality(S) < Limit
      BY <1>0, <2>5, <2>6, <2>7
    <2>9. QED BY <2>8 DEF S
  <1>2. QED BY <1>1 DEF Bounded

(* What an acknowledged write does to the ledger: what the check must yield   *)
(* to, the new entry too, is in it.                                           *)
LEMMA RecordKeepsLedger ==
    ASSUME CheckTypeOK, WritesAreNumbered, NEW u \in Uids, NEW kind, RecordAcknowledged(u, kind),
           UNCHANGED check
    PROVE  /\ WritesAreNumbered'
           /\ WritesFit' /\ check.step # "idle" =>
                 /\ \A e \in ledger : Outranks(e, check.epoch) => e \in ledger'
                 /\ \E e \in ledger' : e.uid = u /\ e.kind = kind /\ Outranks(e, check.epoch)
  <1>1. PICK n : n = [uid |-> u, kind |-> kind, ack |-> clock + 1]
    OBVIOUS
  <1>2. /\ clock' = clock + 1 /\ clock \in Nat /\ n.ack = clock + 1 /\ n.uid = u /\ n.kind = kind
        /\ check.epoch \in Nat /\ check.epoch <= clock
    BY <1>1, CheckFields DEF CheckTypeOK, RecordAcknowledged, WritesAreNumbered
  <1>3. PICK B : B = ledger \cup {n}
    OBVIOUS
  <1>4. ledger' = Bounded(B)
    BY <1>1, <1>3 DEF RecordAcknowledged
  <1>5. \A e \in ledger : e.ack \in Nat /\ 1 <= e.ack /\ e.ack <= clock
    BY DEF CheckTypeOK, Entries, WritesAreNumbered
  <1>6. \A e \in B : e.ack \in 1..clock + 1
    BY <1>2, <1>3, <1>5
  <1>7. \A e, x \in B : e.ack = x.ack => e = x
    BY <1>2, <1>3, <1>5 DEF WritesAreNumbered
  <1>8. ledger' \subseteq B
    BY <1>4 DEF Bounded
  <1>9. WritesAreNumbered'
    <2>1. \A e, x \in ledger' : e.ack = x.ack => e = x
      BY <1>7, <1>8
    <2>2. \A e \in ledger' : 1 <= e.ack
      BY <1>6, <1>8
    <2>3. check'.epoch <= clock'
      BY <1>2
    <2>4. QED BY <2>1, <2>2, <2>3 DEF WritesAreNumbered
  <1>10. ASSUME WritesFit', check.step # "idle"
         PROVE  \A e \in B : Outranks(e, check.epoch) => e \in ledger'
    <2>1. clock + 1 - check.epoch <= Limit
      BY <1>2, <1>10 DEF WritesFit
    <2>2. QED BY <1>2, <1>4, <1>6, <1>7, <2>1, BoundedForgetsOld
  <1>11. Outranks(n, check.epoch) /\ n \in B
    BY <1>2, <1>3 DEF Outranks
  <1>12. QED BY <1>2, <1>3, <1>9, <1>10, <1>11

(* An unchanged ledger outranks what it did.                                 *)
LEMMA SameLedger ==
    ASSUME WritesAreNumbered, UNCHANGED <<ledger, clock>>, check'.epoch = check.epoch
    PROVE  WritesAreNumbered'
  BY DEF WritesAreNumbered

(* A step beside the check. *)
Grown ==
    \A u \in Uids : /\ server[u].is # "coming" => server'[u].is # "coming"
                    /\ server[u].is = "gone" => server'[u].is = "gone"

(* With an empty queue nothing is promised about what was sent. *)
LEMMA NothingSent ==
    ASSUME queue' = <<>>, check'.slow = {}, ~check'.whole, check'.step # "bodies", Gone(check.lost)'
    PROVE  BodiesAreNew' /\ RemovalsAreSafe'
  <1>1. Len(queue') = 0 /\ \A i \in 1..0 : FALSE
    OBVIOUS
  <1>2. {queue'[i].uid : i \in {j \in 1..Len(queue') : queue'[j].is = "message"}} = {}
    BY <1>1
  <1>3. QED BY <1>1, <1>2 DEF BodiesAreNew, RemovalsAreSafe, SentIn

(* A step beside the check: what it must give for FolderIInv.                *)
LEMMA BesideTheCheck ==
    ASSUME CheckTypeOK, CheckTypeOK', UidsNeverReturn, ItemsFollowSteps, BodiesAreNew, RemovalsAreSafe,
           UNCHANGED <<check, queue>>, Grown,
           check.step # "idle" =>
              /\ \A e \in ledger : Outranks(e, check.epoch) => e \in ledger'
              /\ \A u \in cached' : u \in cached \/ Outranked(u, "in", check.epoch)'
              /\ \A u \in left' : u \in left \/ Outranked(u, "away", check.epoch)'
    PROVE  ItemsFollowSteps' /\ BodiesAreNew' /\ RemovalsAreSafe'
  <1>1. CASE check.step = "idle"
    <2>1. queue = <<>> /\ check.slow = {} /\ ~check.whole /\ Gone(check.lost) /\ check.lost \in SUBSET Uids
      BY <1>1, CheckFields DEF ItemsFollowSteps, Early, Listing, RemovalsAreSafe
    <2>2. Gone(check.lost)'
      BY <2>1 DEF Gone, Grown
    <2>3. BodiesAreNew' /\ RemovalsAreSafe'
      BY <1>1, <2>1, <2>2, NothingSent
    <2>4. ItemsFollowSteps'
      BY DEF ItemsFollowSteps
    <2>5. QED BY <2>3, <2>4
  <1>2. CASE check.step # "idle"
    <2>0. \A u, kind : Outranked(u, kind, check.epoch) => Outranked(u, kind, check.epoch)'
      BY <1>2 DEF Outranked, Outranks
    <2> USE <1>2
    <2>1. ItemsFollowSteps'
      BY DEF ItemsFollowSteps
    <2>2. \A n : SentIn(n)' = SentIn(n)
      BY DEF SentIn
    <2>3. \A u \in SentIn(Len(queue)) : u \in Uids
      BY ItemFields, LenProperties, ElementOfSeq DEF SentIn, CheckTypeOK
    <2>4. BodiesAreNew'
      BY <2>0, <2>2, <2>3 DEF BodiesAreNew, Grown
    <2>5. \A n \in 1..Len(queue) : SentIn(n) \subseteq SentIn(Len(queue))
      BY LenProperties DEF SentIn, CheckTypeOK
    <2>6. ASSUME NEW ids, NEW n, SentIn(n) \subseteq SentIn(Len(queue)), Accounted(ids, n)
          PROVE  Accounted(ids, n)'
      <3> SUFFICES ASSUME NEW u \in Here' \ ids
                   PROVE  u \notin SentIn(n) /\ (u \in cached' => Outranked(u, "in", check.epoch)')
        BY <2>2 DEF Accounted
      <3>1. u \in Uids /\ server'[u].is = "here"
        BY DEF Here
      <3>2. server[u].is \in {"here", "coming"}
        BY <3>1, ServerFields DEF Grown, Places
      <3>3. CASE server[u].is = "here"
        BY <2>0, <2>6, <3>1, <3>3 DEF Accounted, Here
      <3>4. CASE server[u].is = "coming"
        BY <2>6, <3>1, <3>4 DEF BodiesAreNew, UidsNeverReturn
      <3>5. QED BY <3>2, <3>3, <3>4
    <2>7. ASSUME NEW ids \in SUBSET Uids, Gone(ids) PROVE Gone(ids)'
      BY <2>7 DEF Gone, Grown
    <2>8. \A i \in 1..Len(queue) : queue[i].is \in {"reconcile", "vanished"} => queue[i].ids \in SUBSET Uids
      BY ItemFields, LenProperties, ElementOfSeq DEF CheckTypeOK
    <2>9. check.lost \in SUBSET Uids /\ SentIn(Len(queue)) \subseteq SentIn(Len(queue))
      BY CheckFields
    <2>10. RemovalsAreSafe'
      BY <2>5, <2>6, <2>7, <2>8, <2>9 DEF RemovalsAreSafe
    <2>11. QED BY <2>1, <2>4, <2>10
  <1>3. QED BY <1>1, <1>2

----------------------------------------------------------------------------
(* Other clients and the user beside the check. *)

(* A change at the server takes nothing back.                                *)
LEMMA ChangeGrows ==
    ASSUME CheckTypeOK, NEW u \in Uids, NEW place \in Places, NEW shows \in SUBSET Fields,
           Change(u, place, shows),
           \/ place = "here" /\ server[u].is # "gone"
           \/ place = "gone" /\ server[u].is = "here"
    PROVE  Grown
  <1>1. server'[u].is = place /\ \A w \in Uids : w # u => server'[w] = server[w]
    BY ChangedServer
  <1>2. QED BY <1>1 DEF Grown

LEMMA SameServerGrows == UNCHANGED server => Grown
  BY DEF Grown

LEMMA OtherInv == CheckTypeOK /\ FolderIInv /\ OtherClient => FolderIInv'
  <1> SUFFICES ASSUME CheckTypeOK, FolderIInv, OtherClient PROVE FolderIInv'
    OBVIOUS
  <1>0. CheckTypeOK'
    BY OtherType
  <1>1. UNCHANGED <<cached, ledger, clock, write, check, queue, begun, left>>
    BY DEF OtherClient, rows, book
  <1>2. PICK u \in Uids, place \in Places, shows \in SUBSET Fields :
           /\ Change(u, place, shows)
           /\ \/ place \in {"here", "gone"} /\ server[u].is = "here"
              \/ place = "here" /\ server[u].is = "coming" /\ ~(write.op = "in" /\ write.uid = u)
    <2>1. \A u \in Uids : server[u].flags \in SUBSET Fields
      BY ServerFields
    <2>2. {} \in SUBSET Fields /\ Arriving \subseteq SUBSET Fields /\ {"here", "gone"} \subseteq Places
      BY ParametersAssumption DEF Places
    <2>3. QED BY <2>1, <2>2, ToggleType DEF OtherClient, Here
  <1>3. Grown
    BY <1>2, ChangeGrows
  <1>4. UidsNeverReturn'
    <2>1. server'[u].is = place /\ \A w \in Uids : w # u => server'[w] = server[w]
      BY <1>2, ChangedServer
    <2>2. cached \subseteq Uids /\ left \subseteq Uids
      BY DEF CheckTypeOK
    <2>3. write.op \in {"in", "away"} => write.uid \in Uids
      BY WriteFields, FolderKinds
    <2>4. /\ \A w \in cached' : server'[w].is # "coming"
          /\ \A w \in left' : server'[w].is = "gone"
      BY <1>1, <1>3, <2>2 DEF Grown, FolderIInv, UidsNeverReturn
    <2>5. write'.op = "in" => /\ write'.uid \notin left'
                              /\ write'.done <=> server'[write'.uid].is # "coming"
      BY <1>1, <1>2, <2>1, <2>3 DEF FolderIInv, UidsNeverReturn
    <2>6. write'.op = "away" /\ write'.done => server'[write'.uid].is = "gone"
      BY <1>1, <1>3, <2>3 DEF Grown, FolderIInv, UidsNeverReturn
    <2>7. QED BY <2>4, <2>5, <2>6 DEF UidsNeverReturn
  <1>5. WritesAreNumbered'
    BY <1>1, SameLedger DEF FolderIInv
  <1>6. QED BY <1>0, <1>1, <1>3, <1>4, <1>5, BesideTheCheck DEF FolderIInv

LEMMA UserInv == CheckTypeOK /\ FolderIInv /\ User => FolderIInv'
  <1> SUFFICES ASSUME CheckTypeOK, FolderIInv, User PROVE FolderIInv'
    OBVIOUS
  <1>0. CheckTypeOK'
    BY UserType
  <1>1. /\ UNCHANGED <<server, cached, ledger, clock, check, queue, left>>
        /\ write = NoWrite /\ begun < MaxWrites /\ begun' = begun + 1
    BY DEF User, AskFlags, AskAway, AskIn, Ask, remote, rows, book
  <1>2. Grown
    BY <1>1, SameServerGrows
  <1>3. ~write'.done /\ (write'.op = "in" => server[write'.uid].is = "coming" /\ write'.uid \in Uids)
    BY DEF User, AskFlags, AskAway, AskIn, Ask
  <1>4. UidsNeverReturn'
    BY <1>1, <1>3 DEF FolderIInv, UidsNeverReturn
  <1>5. WritesAreNumbered'
    BY <1>1, SameLedger DEF FolderIInv
  <1>6. QED BY <1>0, <1>1, <1>2, <1>4, <1>5, BesideTheCheck DEF FolderIInv

LEMMA ExecuteInv == CheckTypeOK /\ FolderIInv /\ Execute => FolderIInv'
  <1> SUFFICES ASSUME CheckTypeOK, FolderIInv, Execute PROVE FolderIInv'
    OBVIOUS
  <1>0. CheckTypeOK'
    BY AnswerType DEF Answer
  <1>1. /\ UNCHANGED <<cached, ledger, clock, check, queue, begun, left>>
        /\ write # NoWrite /\ ~write.done
    BY DEF Execute, rows, book
  <1>2. /\ write'.op = write.op /\ write'.uid = write.uid /\ write'.done /\ write' # NoWrite
        /\ write.uid \in Uids /\ write.op \in {"flags", "away", "in"}
    BY <1>1, DoneWrite, WriteFields DEF Execute
  <1>3. \/ UNCHANGED server /\ write.op = "flags"
        \/ \E place \in Places, shows \in SUBSET Fields :
              /\ Change(write.uid, place, shows)
              /\ \/ write.op = "flags" /\ place = "here" /\ server[write.uid].is = "here"
                 \/ write.op = "away" /\ place = "gone" /\ server[write.uid].is = "here"
                 \/ write.op = "in" /\ place = "here" /\ server[write.uid].is = "coming"
    <2>1. write.op = "in" => server[write.uid].is = "coming"
      BY <1>1 DEF FolderIInv, UidsNeverReturn
    <2>2. QED BY <2>1, ExecuteServer DEF Here, remote
  <1>4. Grown /\ (write.op = "away" => server'[write.uid].is = "gone")
              /\ (write.op = "in" => server'[write.uid].is = "here")
    BY <1>2, <1>3, ChangeGrows, ChangedServer, SameServerGrows
  <1>5. UidsNeverReturn'
    <2>1. cached \subseteq Uids /\ left \subseteq Uids
      BY DEF CheckTypeOK
    <2>2. QED BY <1>1, <1>2, <1>4, <2>1 DEF Grown, FolderIInv, UidsNeverReturn
  <1>6. WritesAreNumbered'
    BY <1>1, <1>2, SameLedger DEF FolderIInv
  <1>7. QED BY <1>0, <1>1, <1>4, <1>5, <1>6, BesideTheCheck DEF FolderIInv

LEMMA AnswerInv == CheckTypeOK /\ FolderIInv /\ WritesFit' /\ Answer => FolderIInv'
  <1> SUFFICES ASSUME CheckTypeOK, FolderIInv, WritesFit', Answer PROVE FolderIInv'
    OBVIOUS
  <1>0. CheckTypeOK' /\ NoWrite.op = "none"
    BY AnswerType, FolderKinds
  <1>1. CASE GiveUp
    <2>1. UNCHANGED <<server, cached, ledger, clock, check, queue, begun, left>> /\ write' = NoWrite
      BY <1>1 DEF GiveUp, remote, rows, book
    <2>2. UidsNeverReturn'
      BY <1>0, <2>1 DEF FolderIInv, UidsNeverReturn
    <2>3. WritesAreNumbered'
      BY <2>1, SameLedger DEF FolderIInv
    <2>4. QED BY <1>0, <2>1, <2>2, <2>3, SameServerGrows, BesideTheCheck DEF FolderIInv
  <1>2. CASE CommitFlags \/ CommitAway \/ CommitIn
    <2>1. /\ UNCHANGED <<server, check, queue, begun>> /\ write' = NoWrite /\ write # NoWrite
          /\ write.uid \in Uids /\ cached \subseteq Uids
      BY <1>0, <1>2, WriteFields DEF CommitFlags, CommitAway, CommitIn, remote, CheckTypeOK
    <2>2. \/ UNCHANGED <<ledger, clock, cached, left>>
          \/ /\ RecordAcknowledged(write.uid, "flags") /\ UNCHANGED <<cached, left>>
          \/ /\ RecordAcknowledged(write.uid, "away") /\ write.op = "away" /\ write.done
             /\ cached' = cached \ {write.uid} /\ left' = left \cup {write.uid}
          \/ /\ RecordAcknowledged(write.uid, "in") /\ write.op = "in" /\ write.done
             /\ cached' = cached \cup {write.uid} /\ UNCHANGED left
      BY <1>2 DEF CommitFlags, CommitAway, CommitIn, book
    <2>3. UidsNeverReturn'
      BY <1>0, <2>1, <2>2 DEF FolderIInv, UidsNeverReturn
    <2>4. PICK w \in Uids : w = write.uid
      BY <2>1
    <2>5. ASSUME NEW kind, RecordAcknowledged(write.uid, kind)
          PROVE  /\ WritesAreNumbered'
                 /\ check.step # "idle" => /\ \A e \in ledger : Outranks(e, check.epoch) => e \in ledger'
                                           /\ Outranked(w, kind, check.epoch)'
      <3>1. RecordAcknowledged(w, kind) /\ UNCHANGED check
        BY <2>1, <2>4, <2>5
      <3>2. /\ WritesAreNumbered'
            /\ check.step # "idle" =>
                 /\ \A e \in ledger : Outranks(e, check.epoch) => e \in ledger'
                 /\ \E e \in ledger' : e.uid = w /\ e.kind = kind /\ Outranks(e, check.epoch)
        BY <3>1, RecordKeepsLedger DEF FolderIInv
      <3>3. QED BY <2>1, <3>2 DEF Outranked, Outranks
    <2>6. CASE UNCHANGED <<ledger, clock, cached, left>>
      BY <1>0, <2>1, <2>3, <2>6, SameLedger, SameServerGrows, BesideTheCheck DEF FolderIInv
    <2>7. \/ /\ WritesAreNumbered'
             /\ check.step # "idle" =>
                  /\ \A e \in ledger : Outranks(e, check.epoch) => e \in ledger'
                  /\ \A u \in cached' : u \in cached \/ Outranked(u, "in", check.epoch)'
                  /\ \A u \in left' : u \in left \/ Outranked(u, "away", check.epoch)'
          \/ UNCHANGED <<ledger, clock, cached, left>>
      <3>1. CASE RecordAcknowledged(write.uid, "flags") /\ UNCHANGED <<cached, left>>
        BY <2>5, <3>1
      <3>2. CASE /\ RecordAcknowledged(write.uid, "away")
                 /\ cached' = cached \ {write.uid} /\ left' = left \cup {write.uid}
        BY <2>4, <2>5, <3>2
      <3>3. CASE /\ RecordAcknowledged(write.uid, "in")
                 /\ cached' = cached \cup {write.uid} /\ UNCHANGED left
        BY <2>4, <2>5, <3>3
      <3>4. QED BY <2>2, <3>1, <3>2, <3>3
    <2>8. QED BY <1>0, <2>1, <2>3, <2>6, <2>7, SameServerGrows, BesideTheCheck DEF FolderIInv
  <1>3. QED BY <1>1, <1>2, ExecuteInv DEF Answer

----------------------------------------------------------------------------
(* The check goes on. *)

(* The bodies that are in the queue. *)
LEMMA SentMore ==
    ASSUME CheckTypeOK, NEW t \in Seq(Items), queue' = queue \o t
    PROVE  /\ Len(queue) \in Nat /\ Len(queue') \in Nat /\ Len(queue) <= Len(queue')
           /\ \A n \in 0..Len(queue) : SentIn(n)' = SentIn(n)
           /\ \A u \in SentIn(Len(queue))' :
                 u \in SentIn(Len(queue)) \/ \E k \in 1..Len(t) : t[k].is = "message" /\ u = t[k].uid
           /\ \A i \in 1..Len(queue') :
                 \/ i \in 1..Len(queue) /\ queue'[i] = queue[i]
                 \/ \E k \in 1..Len(t) : queue'[i] = t[k] /\ i = Len(queue) + k
  <1>0. queue \in Seq(Items) /\ Len(queue) \in Nat /\ Len(t) \in Nat
    BY LenProperties DEF CheckTypeOK
  <1>1. /\ Len(queue') = Len(queue) + Len(t)
        /\ \A i \in 1..Len(queue) : queue'[i] = queue[i]
        /\ \A i \in 1..Len(queue') : i \in 1..Len(queue)
              \/ \E k \in 1..Len(t) : queue'[i] = t[k] /\ i = Len(queue) + k
    BY <1>0, SentItems, SMTT(60), ZenonT(60)
  <1>2. ASSUME NEW n \in 0..Len(queue)
        PROVE  {queue'[i].uid : i \in {j \in 1..n : queue'[j].is = "message"}}
                 = {queue[i].uid : i \in {j \in 1..n : queue[j].is = "message"}}
    <2>1. \A i \in 1..n : queue'[i] = queue[i]
      BY <1>0, <1>1
    <2>2. QED BY <2>1
  <1>3. \A n \in 0..Len(queue) : SentIn(n)' = SentIn(n)
    BY <1>2 DEF SentIn
  <1>4. ASSUME NEW u \in SentIn(Len(queue))'
        PROVE  u \in SentIn(Len(queue)) \/ \E k \in 1..Len(t) : t[k].is = "message" /\ u = t[k].uid
    <2>1. PICK i \in 1..Len(queue') : queue'[i].is = "message" /\ u = queue'[i].uid
      BY <1>4 DEF SentIn
    <2>2. CASE i \in 1..Len(queue)
      BY <1>1, <2>1, <2>2 DEF SentIn
    <2>3. QED BY <1>1, <2>1, <2>2
  <1>5. Len(queue') \in Nat /\ Len(queue) <= Len(queue')
    BY <1>0, <1>1
  <1>6. QED BY <1>0, <1>1, <1>3, <1>4, <1>5

(* What a step may send: bodies of messages that are there, were not known    *)
(* and are listed; removals of what is gone, or of what is accounted for.     *)
MaySend(t) ==
    \A k \in 1..Len(t) :
        /\ t[k].is = "message" => t[k].uid \in Here \ check.known
        /\ t[k].is = "vanished" => Gone(t[k].ids)
        /\ t[k].is = "reconcile" => k = 1 /\ Accounted(t[k].ids, Len(queue))

(* A step of the provider: what it must give for FolderIInv.                 *)
LEMMA CheckGoesOn ==
    ASSUME CheckTypeOK, FolderIInv, UNCHANGED <<server, cached, ledger, left>>, Keeps,
           NEW t \in Seq(Items), queue' = queue \o t, MaySend(t),
           NEW step, NEW whole, NEW live, NEW lost, NEW listed, NEW slow,
           Listed(step, whole, live, lost, listed, slow),
           slow \cap check.known = {}, step = "bodies" => listed \cap check.known = {},
           Gone(lost),
           whole => Accounted(live, Len(queue)),
           whole /\ step # "close" => listed \subseteq live,
           whole => \A k \in 1..Len(t) : t[k].is = "message" => t[k].uid \in live
    PROVE  BodiesAreNew' /\ RemovalsAreSafe'
  <1>0. /\ \A u, kind : Outranked(u, kind, check.epoch)' <=> Outranked(u, kind, check.epoch)
        /\ Here' = Here /\ \A ids : Gone(ids)' <=> Gone(ids)
    BY DEF Keeps, Outranked, Outranks, Here, Gone
  <1>1. /\ check'.known = check.known /\ check'.step = step /\ check'.whole = whole
        /\ check'.live = live /\ check'.lost = lost /\ check'.listed = listed /\ check'.slow = slow
    BY DEF Keeps, Listed
  <1>2. /\ Len(queue) \in Nat /\ Len(queue') \in Nat /\ Len(queue) <= Len(queue')
        /\ \A n \in 0..Len(queue) : SentIn(n)' = SentIn(n)
        /\ \A u \in SentIn(Len(queue))' :
              u \in SentIn(Len(queue)) \/ \E k \in 1..Len(t) : t[k].is = "message" /\ u = t[k].uid
        /\ \A i \in 1..Len(queue') :
              \/ i \in 1..Len(queue) /\ queue'[i] = queue[i]
              \/ \E k \in 1..Len(t) : queue'[i] = t[k] /\ i = Len(queue) + k
    BY SentMore
  <1>3. BodiesAreNew'
    <2>1. ASSUME NEW u \in SentIn(Len(queue))'
          PROVE  /\ u \notin check.known /\ server[u].is # "coming"
                 /\ u \in left => Outranked(u, "away", check.epoch)
      <3>1. CASE u \in SentIn(Len(queue))
        BY <3>1 DEF FolderIInv, BodiesAreNew
      <3>2. CASE \E k \in 1..Len(t) : t[k].is = "message" /\ u = t[k].uid
        BY <3>2 DEF MaySend, Here, FolderIInv, UidsNeverReturn
      <3>3. QED BY <1>2, <3>1, <3>2
    <2>2. QED BY <1>0, <1>1, <2>1 DEF BodiesAreNew
  <1>4. ASSUME whole PROVE Accounted(check.live, Len(queue))'
    <2>1. ASSUME NEW u \in Here \ live
          PROVE  u \notin SentIn(Len(queue))' /\ (u \in cached => Outranked(u, "in", check.epoch))
      BY <1>2, <1>4, <2>1 DEF Accounted
    <2>2. QED BY <1>0, <1>1, <2>1 DEF Accounted
  <1>5. ASSUME NEW i \in 1..Len(queue'), queue'[i].is = "reconcile"
        PROVE  Accounted(queue[i].ids, i)'
    <2>1. PICK ids : ids = queue'[i].ids
      OBVIOUS
    <2>2. ASSUME NEW n \in 0..Len(queue), Accounted(ids, n), SentIn(i)' = SentIn(n)
          PROVE  \A u \in Here \ ids : u \notin SentIn(i)' /\ (u \in cached => Outranked(u, "in", check.epoch))
      BY <2>2 DEF Accounted
    <2>3. \E n \in 0..Len(queue) : Accounted(ids, n) /\ SentIn(i)' = SentIn(n)
      <3>1. CASE i \in 1..Len(queue) /\ queue'[i] = queue[i]
        <4>1. Accounted(ids, i)
          BY <1>5, <2>1, <3>1 DEF FolderIInv, RemovalsAreSafe
        <4>2. QED BY <1>2, <3>1, <4>1
      <3>2. ASSUME NEW k \in 1..Len(t), queue'[i] = t[k], i = Len(queue) + k
            PROVE  Accounted(ids, Len(queue)) /\ SentIn(i)' = SentIn(Len(queue))
        <4>1. k = 1 /\ Accounted(ids, Len(queue))
          BY <1>5, <2>1, <3>2 DEF MaySend
        <4>2. \A j \in 1..i : j \in 1..Len(queue) \/ queue'[j].is # "message"
          BY <1>2, <1>5, <3>2, <4>1
        <4>3. /\ \A j \in 1..Len(queue) : queue'[j] = queue[j] /\ j \in 1..i
          BY <1>2, <3>2, <4>1
        <4>4. {queue'[j].uid : j \in {j \in 1..i : queue'[j].is = "message"}}
                = {queue[j].uid : j \in {j \in 1..Len(queue) : queue[j].is = "message"}}
          BY <4>2, <4>3
        <4>5. QED BY <4>1, <4>4 DEF SentIn
      <3>3. QED BY <1>2, <3>1, <3>2
    <2>4. QED BY <1>0, <2>1, <2>2, <2>3 DEF Accounted
  <1>6. \A i \in 1..Len(queue') : queue'[i].is = "vanished" => Gone(queue'[i].ids)
    BY <1>2 DEF MaySend, FolderIInv, RemovalsAreSafe
  <1>7. RemovalsAreSafe'
    BY <1>0, <1>1, <1>4, <1>5, <1>6 DEF RemovalsAreSafe
  <1>8. QED BY <1>3, <1>7

LEMMA QuietInv ==
    ASSUME CheckTypeOK, FolderIInv, Quiet, check'.epoch = check.epoch
    PROVE  WritesAreNumbered' /\ UidsNeverReturn' /\ UNCHANGED <<server, cached, ledger, left>>
  <1>1. UNCHANGED <<server, cached, ledger, clock, write, begun, left>>
    BY DEF Quiet, remote, Local, book
  <1>2. WritesAreNumbered'
    BY <1>1, SameLedger DEF FolderIInv
  <1>3. QED BY <1>1, <1>2 DEF FolderIInv, UidsNeverReturn

(* A step that sends flags only. *)
LEMMA FlagsGoOn ==
    ASSUME CheckTypeOK, FolderIInv, UNCHANGED <<server, cached, ledger, left>>, Keeps, Sends("flags"),
           NEW step, NEW whole, NEW live, NEW lost, NEW listed, NEW slow,
           Listed(step, whole, live, lost, listed, slow),
           slow \cap check.known = {}, step = "bodies" => listed \cap check.known = {},
           Gone(lost), whole => Accounted(live, Len(queue)),
           whole /\ step # "close" => listed \subseteq live
    PROVE  BodiesAreNew' /\ RemovalsAreSafe'
  <1>1. PICK t \in Seq(Items) : queue' = queue \o t /\ \A i \in 1..Len(t) : t[i].is = "flags"
    BY DEF Sends
  <1>2. MaySend(t)
    BY <1>1 DEF MaySend
  <1>3. whole => \A k \in 1..Len(t) : t[k].is = "message" => t[k].uid \in live
    BY <1>1
  <1>4. QED BY <1>1, <1>2, <1>3, CheckGoesOn

(* The kinds of the items in the queue. *)
LEMMA KindsInQueue ==
    ASSUME CheckTypeOK, NEW K, NEW t \in Seq(Items), queue' = queue \o t,
           \A i \in 1..Len(queue) : queue[i].is \in K, \A i \in 1..Len(t) : t[i].is \in K
    PROVE  \A i \in 1..Len(queue') : queue'[i].is \in K
  BY SentMore

(* Before its listings a check has sent nothing.                             *)
LEMMA EarlyQueue ==
    ASSUME FolderIInv, check.step \in Early
    PROVE  /\ queue = <<>> /\ check.slow = {} /\ ~check.whole
           /\ \A K : \A i \in 1..Len(queue) : queue[i].is \in K
  <1>1. queue = <<>> /\ check.slow = {} /\ ~check.whole
    BY DEF FolderIInv, ItemsFollowSteps, Early, Listing
  <1>2. Len(queue) = 0
    BY <1>1
  <1>3. QED BY <1>1, <1>2

LEMMA EarlyInv == CheckTypeOK /\ FolderIInv /\ (Begin \/ Read \/ Select) => FolderIInv'
  <1> SUFFICES ASSUME CheckTypeOK, FolderIInv, Begin \/ Read \/ Select PROVE FolderIInv'
    OBVIOUS
  <1>0. /\ check.step \in {"idle", "read", "select"} /\ UNCHANGED queue /\ Quiet
    BY DEF Begin, Read, Select
  <1>1. queue = <<>> /\ check.slow = {} /\ ~check.whole
    BY <1>0, EarlyQueue DEF Early
  <1>2. Gone(check.lost) /\ UNCHANGED server
    BY <1>0 DEF Quiet, remote, FolderIInv, RemovalsAreSafe
  <1>3. /\ check'.step \in {"read", "select", "search", "resync", "close"}
        /\ check'.slow = {} /\ ~check'.whole /\ (check'.lost = {} \/ check'.lost = check.lost)
        /\ check'.epoch = check.epoch \/ check'.epoch = clock
    BY <1>1, BeginShape, ReadShape, SelectShape DEF Listed, Keeps
  <1>4. Gone(check.lost)'
    BY <1>2, <1>3 DEF Gone
  <1>5. BodiesAreNew' /\ RemovalsAreSafe'
    BY <1>0, <1>1, <1>3, <1>4, NothingSent
  <1>6. ItemsFollowSteps'
    <2>1. Len(queue') = 0
      BY <1>0, <1>1
    <2>2. QED BY <1>0, <1>1, <1>3, <2>1 DEF ItemsFollowSteps, Early, Listing
  <1>7. WritesAreNumbered' /\ UidsNeverReturn'
    <2>1. UNCHANGED <<server, cached, ledger, clock, write, begun, left>>
      BY <1>0 DEF Quiet, remote, Local, book
    <2>2. check'.epoch <= clock
      BY <1>3 DEF FolderIInv, WritesAreNumbered, CheckTypeOK
    <2>3. QED BY <2>1, <2>2 DEF FolderIInv, WritesAreNumbered, UidsNeverReturn
  <1>8. QED BY <1>5, <1>6, <1>7 DEF FolderIInv

(* A listing just read names every message the server has.                   *)
LEMMA HereIsAccounted ==
    ASSUME CheckTypeOK
    PROVE  \A n : Accounted(Here, n)
  BY DEF Accounted

LEMMA ListingInv ==
    CheckTypeOK /\ FolderIInv /\ (Resync \/ Search \/ FetchChanged \/ FetchMetadata) => FolderIInv'
  <1> SUFFICES ASSUME CheckTypeOK, FolderIInv, Resync \/ Search \/ FetchChanged \/ FetchMetadata
               PROVE  FolderIInv'
    OBVIOUS
  <1>0. /\ Quiet /\ Keeps /\ check.step \in {"resync", "search", "changed", "fetch"}
    BY ResyncShape, SearchShape, ChangedShape, MetadataShape
       DEF Resync, Search, FetchChanged, FetchMetadata
  <1>1. WritesAreNumbered' /\ UidsNeverReturn' /\ UNCHANGED <<server, cached, ledger, left>>
    BY <1>0, QuietInv DEF Keeps
  <1>2. /\ Gone(check.lost) /\ (check.whole => Accounted(check.live, Len(queue)))
        /\ check.whole /\ check.step # "close" => check.listed \subseteq check.live
        /\ check.slow = {}
    BY <1>0 DEF FolderIInv, RemovalsAreSafe, ItemsFollowSteps, Early
  <1>3. /\ check.step \in {"resync", "search"} => queue = <<>> /\ ~check.whole
        /\ \A i \in 1..Len(queue) : queue[i].is \in {"flags"}
    <2>1. CASE check.step \in Early
      BY <2>1, EarlyQueue
    <2>2. QED BY <1>0, <2>1 DEF FolderIInv, ItemsFollowSteps, Listing, Early
  <1>4. Sends("flags") => \A i \in 1..Len(queue') : queue'[i].is \in {"flags"}
    BY <1>3, KindsInQueue DEF Sends
  <1>5. ASSUME Resync, UNCHANGED queue, NEW listed \in SUBSET Uids,
               Listed("search", check.whole, check.live, check.lost, listed, check.slow)
        PROVE  FolderIInv'
    <2>1. Listed("search", check.whole, check.live, check.lost, listed, check.slow)
      BY <1>5
    <2>2. Sends("flags")
      BY <1>5, SendsNothing
    <2>3. BodiesAreNew' /\ RemovalsAreSafe'
      BY <1>0, <1>1, <1>2, <1>3, <1>5, <2>1, <2>2, FlagsGoOn DEF Resync
    <2>4. ItemsFollowSteps'
      BY <1>2, <1>3, <1>5, <2>1 DEF ItemsFollowSteps, Listed, Early, Listing, Resync
    <2>5. QED BY <1>1, <2>3, <2>4 DEF FolderIInv
  <1>6. ASSUME Sends("flags"), NEW step \in {"changed", "fetch", "bodies", "close"},
               NEW whole \in BOOLEAN, NEW live, NEW lost, NEW listed, NEW slow,
               Listed(step, whole, live, lost, listed, slow),
               slow = {} \/ (step \in {"bodies", "close"} /\ slow \cap check.known = {}),
               step = "bodies" => listed \cap check.known = {},
               Gone(lost), whole => Accounted(live, Len(queue)),
               whole /\ step # "close" => listed \subseteq live
        PROVE  FolderIInv'
    <2>1. BodiesAreNew' /\ RemovalsAreSafe'
      <3>1. slow \cap check.known = {}
        BY <1>6
      <3>2. QED BY <1>0, <1>1, <1>6, <3>1, FlagsGoOn
    <2>2. ItemsFollowSteps'
      BY <1>4, <1>6 DEF ItemsFollowSteps, Listed, Early, Listing
    <2>3. QED BY <1>1, <2>1, <2>2 DEF FolderIInv
  <1>7. CASE Resync
    <2>1. ASSUME Sends("flags"), NEW gone \in SUBSET Uids, NEW new \in SUBSET Uids,
                 \A u \in gone : server[u].is = "gone",
                 Listed("fetch", check.whole, check.live, gone, new, check.slow)
          PROVE  FolderIInv'
      <3>1. Gone(gone) /\ ~check.whole /\ check.slow = {} /\ check.whole \in BOOLEAN
        BY <1>2, <1>3, <1>7, <2>1, ResyncShape, CheckFields DEF Gone
      <3>2. PICK step, slow : step = "fetch" /\ slow = check.slow
        OBVIOUS
      <3>3. Listed(step, check.whole, check.live, gone, new, slow)
        BY <2>1, <3>2
      <3>4. QED BY <1>6, <2>1, <3>1, <3>2, <3>3
    <2>2. QED BY <1>5, <1>7, <2>1, ResyncShape
  <1>8. CASE Search
    <2>1. PICK step \in {"changed", "fetch"}, listed \in SUBSET Here :
             Listed(step, TRUE, Here, check.lost, listed, check.slow) /\ Sends("flags")
      BY <1>8, SearchShape
    <2>2. QED BY <1>2, <1>6, <2>1, HereIsAccounted
  <1>9. CASE FetchChanged
    <2>1. PICK listed \in SUBSET Uids :
             /\ listed \subseteq check.live \/ listed = check.listed
             /\ Listed("fetch", check.whole, check.live, check.lost, listed, check.slow)
             /\ Sends("flags") /\ check.step = "changed" /\ check.whole \in BOOLEAN
      BY <1>9, ChangedShape, CheckFields
    <2>2. check.whole => listed \subseteq check.live
      BY <1>2, <2>1
    <2>3. QED BY <1>2, <1>6, <2>1, <2>2
  <1>10. CASE FetchMetadata
    <2>1. PICK step \in {"close", "bodies"}, listed, slow \in SUBSET check.listed :
             /\ \A u \in listed \cup slow : u \notin check.known
             /\ Listed(step, check.whole, check.live, check.lost, listed, slow)
             /\ Sends("flags") /\ check.step = "fetch" /\ check.whole \in BOOLEAN
      BY <1>10, MetadataShape, CheckFields
    <2>2. /\ check.whole => listed \subseteq check.live
          /\ listed \cap check.known = {} /\ slow \cap check.known = {}
      BY <1>2, <2>1
    <2>3. QED BY <1>2, <1>6, <2>1, <2>2
  <1>11. QED BY <1>7, <1>8, <1>9, <1>10

LEMMA BodiesInv == CheckTypeOK /\ FolderIInv /\ FetchBodies => FolderIInv'
  <1> SUFFICES ASSUME CheckTypeOK, FolderIInv, FetchBodies PROVE FolderIInv'
    OBVIOUS
  <1>0. /\ Quiet /\ Keeps /\ check.step = "bodies" /\ SendsBodies(check.listed)
        /\ Listed("close", check.whole, check.live, check.lost, {}, check.slow)
    BY BodiesShape DEF FetchBodies
  <1>1. WritesAreNumbered' /\ UidsNeverReturn' /\ UNCHANGED <<server, cached, ledger, left>>
    BY <1>0, QuietInv DEF Keeps
  <1>2. /\ Gone(check.lost) /\ (check.whole => Accounted(check.live, Len(queue)))
        /\ check.whole => check.listed \subseteq check.live
        /\ check.listed \cap check.known = {} /\ check.slow \cap check.known = {}
        /\ \A i \in 1..Len(queue) : queue[i].is = "flags"
    BY <1>0 DEF FolderIInv, RemovalsAreSafe, BodiesAreNew, ItemsFollowSteps, Listing
  <1>3. PICK t \in Seq(Items) :
          /\ queue' = queue \o t
          /\ \A i \in 1..Len(t) : t[i].is = "message" /\ t[i].uid \in check.listed \cap Here
    BY <1>0 DEF SendsBodies
  <1>4. MaySend(t)
    BY <1>2, <1>3 DEF MaySend
  <1>5. check.whole => \A k \in 1..Len(t) : t[k].is = "message" => t[k].uid \in check.live
    BY <1>2, <1>3
  <1>6. BodiesAreNew' /\ RemovalsAreSafe'
    <2>1. PICK step, listed : step = "close" /\ listed = {}
      OBVIOUS
    <2>2. Listed(step, check.whole, check.live, check.lost, listed, check.slow)
      BY <1>0, <2>1
    <2>3. QED BY <1>0, <1>1, <1>2, <1>3, <1>4, <1>5, <2>1, <2>2, CheckGoesOn, SMTT(30)
  <1>7. \A i \in 1..Len(queue') : queue'[i].is \in {"flags", "message"}
    BY <1>2, <1>3, KindsInQueue
  <1>8. ItemsFollowSteps'
    BY <1>0, <1>7 DEF ItemsFollowSteps, Listed, Early, Listing
  <1>9. QED BY <1>1, <1>6, <1>8 DEF FolderIInv

LEMMA CloseInv == CheckTypeOK /\ FolderIInv /\ Close => FolderIInv'
  <1> SUFFICES ASSUME CheckTypeOK, FolderIInv, Close PROVE FolderIInv'
    OBVIOUS
  <1>0. /\ Quiet /\ Keeps /\ check.step = "close"
        /\ Listed("slow", FALSE, {}, {}, check.listed, check.slow)
    BY CloseShape DEF Close
  <1>1. WritesAreNumbered' /\ UidsNeverReturn' /\ UNCHANGED <<server, cached, ledger, left>>
    BY <1>0, QuietInv DEF Keeps
  <1>2. /\ Gone(check.lost) /\ (check.whole => Accounted(check.live, Len(queue)))
        /\ check.slow \cap check.known = {}
    BY <1>0 DEF FolderIInv, RemovalsAreSafe, BodiesAreNew
  <1>3. PICK t \in Seq(Items) : Closes(t)
    BY CloseShape
  <1>4. MaySend(t)
    BY <1>2, <1>3 DEF MaySend, Closes
  <1>5. queue' = queue \o t /\ Gone({})
    BY <1>3 DEF Closes, Gone
  <1>6. BodiesAreNew' /\ RemovalsAreSafe'
    <2>1. PICK step, whole : step = "slow" /\ whole = FALSE
      OBVIOUS
    <2>2. Listed(step, whole, {}, {}, check.listed, check.slow)
      BY <1>0, <2>1
    <2>3. QED BY <1>0, <1>1, <1>2, <1>4, <1>5, <2>1, <2>2, CheckGoesOn
  <1>7. ItemsFollowSteps'
    BY <1>0 DEF ItemsFollowSteps, Listed, Early, Listing
  <1>8. QED BY <1>1, <1>6, <1>7 DEF FolderIInv

LEMMA SlowInv == CheckTypeOK /\ FolderIInv /\ FetchSlow => FolderIInv'
  <1> SUFFICES ASSUME CheckTypeOK, FolderIInv, FetchSlow PROVE FolderIInv'
    OBVIOUS
  <1>0. /\ Quiet /\ Keeps /\ check.step = "slow" /\ SendsBodies(check.slow)
    BY SlowShape DEF FetchSlow
  <1>1. WritesAreNumbered' /\ UidsNeverReturn' /\ UNCHANGED <<server, cached, ledger, left>>
    BY <1>0, QuietInv DEF Keeps
  <1>2. Gone(check.lost) /\ ~check.whole /\ check.slow \cap check.known = {} /\ Gone({})
    BY <1>0 DEF FolderIInv, RemovalsAreSafe, BodiesAreNew, ItemsFollowSteps, Listing, Gone
  <1>3. PICK t \in Seq(Items) :
          /\ queue' = queue \o t
          /\ \A i \in 1..Len(t) : t[i].is = "message" /\ t[i].uid \in check.slow \cap Here
    BY <1>0 DEF SendsBodies
  <1>4. MaySend(t)
    BY <1>2, <1>3 DEF MaySend
  <1>5. PICK step \in {"slow", "end"}, slow \in SUBSET check.slow,
             live \in SUBSET Uids, lost \in SUBSET Uids, listed \in SUBSET Uids :
          Listed(step, FALSE, live, lost, listed, slow) /\ Gone(lost)
    <2>1. CASE Listed("end", FALSE, {}, {}, {}, {})
      BY <1>2, <2>1
    <2>2. CASE \E slow \in SUBSET check.slow :
                  Listed("slow", check.whole, check.live, check.lost, check.listed, slow)
      <3>1. check.whole = FALSE
        BY <1>2, CheckFields
      <3>2. PICK slow \in SUBSET check.slow :
               Listed("slow", check.whole, check.live, check.lost, check.listed, slow)
        BY <2>2
      <3>3. Listed("slow", FALSE, check.live, check.lost, check.listed, slow)
        BY <3>1, <3>2
      <3>4. QED BY <1>2, <3>3, CheckFields
    <2>3. QED BY <2>1, <2>2, SlowShape
  <1>6. BodiesAreNew' /\ RemovalsAreSafe'
    <2>1. PICK whole : whole = FALSE
      OBVIOUS
    <2>2. Listed(step, whole, live, lost, listed, slow) /\ slow \cap check.known = {}
      BY <1>2, <1>5, <2>1
    <2>3. step # "bodies"
      BY <1>5
    <2>4. QED BY <1>0, <1>1, <1>3, <1>4, <1>5, <2>1, <2>2, <2>3, CheckGoesOn
  <1>7. ItemsFollowSteps'
    BY <1>5 DEF ItemsFollowSteps, Listed, Early, Listing
  <1>8. QED BY <1>1, <1>6, <1>7 DEF FolderIInv

----------------------------------------------------------------------------
(* The end of a check, and a crash. *)

LEMMA RestingFields ==
    /\ Resting.step = "idle" /\ Resting.epoch = 0 /\ Resting.known = {} /\ ~Resting.whole
    /\ Resting.slow = {} /\ Resting.lost = {}
  BY DEF Resting

LEMMA AtRest ==
    ASSUME check' = Resting, queue' = <<>>
    PROVE  ItemsFollowSteps' /\ BodiesAreNew' /\ RemovalsAreSafe'
  <1>1. Gone(check.lost)' /\ check'.slow = {} /\ ~check'.whole /\ check'.step = "idle"
    BY RestingFields DEF Gone
  <1>2. BodiesAreNew' /\ RemovalsAreSafe'
    BY <1>1, NothingSent
  <1>3. ItemsFollowSteps'
    BY <1>1 DEF ItemsFollowSteps, Early, Listing
  <1>4. QED BY <1>2, <1>3

LEMMA FinishInv == CheckTypeOK /\ FolderIInv /\ Finish => FolderIInv'
  <1> SUFFICES ASSUME CheckTypeOK, FolderIInv, Finish PROVE FolderIInv'
    OBVIOUS
  <1>1. /\ UNCHANGED <<server, cached, clock, write, begun, left>> /\ ledger' \subseteq ledger
        /\ check' = Resting /\ queue' = <<>>
    BY DEF Finish, remote, Local
  <1>2. WritesAreNumbered'
    <2>1. check'.epoch <= clock
      BY <1>1, RestingFields DEF CheckTypeOK
    <2>2. QED BY <1>1, <2>1 DEF FolderIInv, WritesAreNumbered
  <1>3. QED BY <1>1, <1>2, AtRest DEF FolderIInv, UidsNeverReturn

LEMMA CrashInv == CheckTypeOK /\ FolderIInv /\ AppCrash => FolderIInv'
  <1> SUFFICES ASSUME CheckTypeOK, FolderIInv, AppCrash PROVE FolderIInv'
    OBVIOUS
  <1>1. /\ UNCHANGED <<server, cached, begun, left>> /\ ledger' = {} /\ clock' = 0
        /\ check' = Resting /\ queue' = <<>> /\ (write' = write \/ write' = NoWrite)
    BY DEF AppCrash, remote, rows
  <1>2. WritesAreNumbered'
    <2>1. check'.epoch <= clock'
      BY <1>1, RestingFields
    <2>2. QED BY <1>1, <2>1 DEF WritesAreNumbered
  <1>3. UidsNeverReturn'
    BY <1>1, FolderKinds DEF FolderIInv, UidsNeverReturn
  <1>4. QED BY <1>1, <1>2, <1>3, AtRest DEF FolderIInv

LEMMA StopInv == CheckTypeOK /\ FolderIInv /\ Stop => FolderIInv'
  <1> SUFFICES ASSUME CheckTypeOK, FolderIInv, Stop PROVE FolderIInv'
    OBVIOUS
  <1>0. /\ UNCHANGED <<server, cached, ledger, clock, write, begun, left>>
        /\ check'.step = "end" /\ ~check'.whole /\ check'.lost = {} /\ check'.slow = {}
        /\ check'.epoch = check.epoch /\ check'.known = check.known
        /\ Len(queue') <= Len(queue) /\ Len(queue) \in Nat /\ Len(queue') \in Nat
        /\ \A i \in 1..Len(queue') : queue'[i] = queue[i] /\ i \in 1..Len(queue)
    <2>1. Len(queue) \in Nat /\ Len(queue') \in Nat
      BY StopShape, LenProperties DEF CheckTypeOK
    <2>2. /\ Listed("end", FALSE, {}, {}, {}, {}) /\ Keeps /\ Len(queue') <= Len(queue)
          /\ \A i \in 1..Len(queue') : queue'[i] = queue[i]
      BY StopShape
    <2>3. \A i \in 1..Len(queue') : i \in 1..Len(queue)
      BY <2>1, <2>2
    <2>4. UNCHANGED <<server, cached, ledger, clock, write, begun, left>>
      BY DEF Stop, remote, Local, book
    <2>5. check'.step = "end" /\ ~check'.whole /\ check'.lost = {} /\ check'.slow = {}
          /\ check'.epoch = check.epoch /\ check'.known = check.known
      BY <2>2 DEF Listed, Keeps
    <2>6. QED BY <2>1, <2>2, <2>3, <2>4, <2>5
  <1>1. WritesAreNumbered' /\ UidsNeverReturn'
    BY <1>0, SameLedger DEF FolderIInv, UidsNeverReturn
  <1>2. ASSUME NEW n \in 0..Len(queue') PROVE SentIn(n)' = SentIn(n) /\ SentIn(n) \subseteq SentIn(Len(queue))
    <2>1. \A i \in 1..n : queue'[i] = queue[i] /\ i \in 1..Len(queue)
      BY <1>0
    <2>2. {queue'[i].uid : i \in {j \in 1..n : queue'[j].is = "message"}}
            = {queue[i].uid : i \in {j \in 1..n : queue[j].is = "message"}}
      BY <2>1
    <2>3. QED BY <2>1, <2>2 DEF SentIn
  <1>3. BodiesAreNew'
    <2>1. SentIn(Len(queue))' \subseteq SentIn(Len(queue))
      BY <1>0, <1>2
    <2>2. QED BY <1>0, <2>1 DEF FolderIInv, BodiesAreNew, Outranked, Outranks
  <1>4. RemovalsAreSafe'
    <2>1. ASSUME NEW i \in 1..Len(queue'), queue'[i].is = "reconcile"
          PROVE  Accounted(queue[i].ids, i)'
      <3>1. PICK ids : ids = queue'[i].ids
        OBVIOUS
      <3>2. Accounted(ids, i) /\ SentIn(i)' = SentIn(i)
        BY <1>0, <1>2, <2>1, <3>1 DEF FolderIInv, RemovalsAreSafe
      <3>3. \A u \in Here' \ ids : u \notin SentIn(i)' /\ (u \in cached' => Outranked(u, "in", check.epoch)')
        BY <1>0, <3>2 DEF Accounted, Here, Outranked, Outranks
      <3>4. QED BY <3>1, <3>3 DEF Accounted
    <2>2. \A i \in 1..Len(queue') : queue'[i].is = "vanished" => Gone(queue[i].ids)'
      BY <1>0 DEF FolderIInv, RemovalsAreSafe, Gone
    <2>3. Gone(check.lost)'
      BY <1>0 DEF Gone
    <2>4. QED BY <1>0, <2>1, <2>2, <2>3 DEF RemovalsAreSafe
  <1>5. ItemsFollowSteps'
    BY <1>0 DEF ItemsFollowSteps, Early, Listing
  <1>6. QED BY <1>1, <1>3, <1>4, <1>5 DEF FolderIInv

(* Nothing has been sent at first.                                           *)
LEMMA FolderInitInv == CheckInit => FolderIInv
  <1> SUFFICES ASSUME CheckInit PROVE FolderIInv
    OBVIOUS
  <1>1. WritesAreNumbered
    BY RestingFields, ParametersAssumption DEF CheckInit, WritesAreNumbered
  <1>2. UidsNeverReturn
    BY FolderKinds DEF CheckInit, UidsNeverReturn
  <1>3. Len(queue) = 0 /\ SentIn(Len(queue)) = {} /\ \A i \in 1..0 : FALSE
    BY DEF CheckInit, SentIn
  <1>4. ItemsFollowSteps /\ BodiesAreNew /\ RemovalsAreSafe
    BY <1>3, RestingFields
       DEF CheckInit, ItemsFollowSteps, BodiesAreNew, RemovalsAreSafe, Gone, Early, Listing
  <1>5. QED BY <1>1, <1>2, <1>4 DEF FolderIInv

----------------------------------------------------------------------------
(* An item is applied. *)

(* What applying an item does to the rows.                                    *)
LEMMA ApplyRows ==
    ASSUME CheckTypeOK, Apply
    PROVE  /\ UNCHANGED <<server, ledger, clock, write, check, begun, left>>
           /\ queue # <<>> /\ queue' = Tail(queue)
           /\ \/ cached' \subseteq cached
              \/ /\ queue[1].is = "message" /\ cached' = cached \cup {queue[1].uid}
                 /\ ~Outranked(queue[1].uid, "away", check.epoch)
  BY DEF Apply, ApplyFlags, ApplyMessage, ApplyRemoval, ApplyState, Item, remote, book, rows

(* What is still sent when the first item is gone.                           *)
LEMMA TailSent ==
    ASSUME CheckTypeOK, queue # <<>>, queue' = Tail(queue), NEW n \in 0..Len(queue')
    PROVE  /\ n + 1 \in 1..Len(queue) /\ SentIn(n)' \subseteq SentIn(n + 1)
           /\ SentIn(n + 1) \subseteq SentIn(Len(queue))
           /\ queue[1].is = "message" => queue[1].uid \in SentIn(n + 1)
  <1>1. /\ Len(queue') = Len(queue) - 1 /\ Len(queue) >= 1 /\ Len(queue) \in Nat
        /\ \A i \in 1..Len(queue') : queue'[i] = queue[i + 1] /\ i + 1 \in 1..Len(queue)
    BY AppliedItem DEF CheckTypeOK
  <1>2. n + 1 \in 1..Len(queue)
    BY <1>1
  <1>3. ASSUME NEW u \in SentIn(n)' PROVE u \in SentIn(n + 1)
    <2>1. PICK i \in 1..n : queue'[i].is = "message" /\ u = queue'[i].uid
      BY <1>3 DEF SentIn
    <2>2. i \in 1..Len(queue') /\ i + 1 \in 1..n + 1
      BY <1>1
    <2>3. QED BY <1>1, <2>1, <2>2 DEF SentIn
  <1>4. \A i \in 1..n + 1 : i \in 1..Len(queue)
    BY <1>2
  <1>5. 1 \in 1..n + 1
    BY <1>1
  <1>6. QED BY <1>2, <1>3, <1>4, <1>5 DEF SentIn

LEMMA ApplyInv == CheckTypeOK /\ FolderIInv /\ Apply => FolderIInv'
  <1> SUFFICES ASSUME CheckTypeOK, FolderIInv, Apply PROVE FolderIInv'
    OBVIOUS
  <1>0. /\ UNCHANGED <<server, ledger, clock, write, check, begun, left>>
        /\ queue # <<>> /\ queue' = Tail(queue)
        /\ \/ cached' \subseteq cached
           \/ /\ queue[1].is = "message" /\ cached' = cached \cup {queue[1].uid}
              /\ ~Outranked(queue[1].uid, "away", check.epoch)
    BY ApplyRows
  <1>1. /\ Len(queue') = Len(queue) - 1 /\ Len(queue) >= 1 /\ Len(queue) \in Nat
        /\ \A i \in 1..Len(queue') : queue'[i] = queue[i + 1] /\ i + 1 \in 1..Len(queue)
    BY <1>0, AppliedItem DEF CheckTypeOK
  <1>2. \A n \in 0..Len(queue') : /\ SentIn(n)' \subseteq SentIn(n + 1)
                                  /\ SentIn(n + 1) \subseteq SentIn(Len(queue))
                                  /\ queue[1].is = "message" => queue[1].uid \in SentIn(n + 1)
    BY <1>0, TailSent
  <1>3. Len(queue') \in 0..Len(queue') /\ Len(queue') + 1 = Len(queue)
    BY <1>1
  <1>4. WritesAreNumbered'
    BY <1>0, SameLedger DEF FolderIInv
  <1>5. UidsNeverReturn'
    <2>1. queue[1].is = "message" => server[queue[1].uid].is # "coming"
      BY <1>2, <1>3 DEF FolderIInv, BodiesAreNew
    <2>2. \A u \in cached' : server[u].is # "coming"
      BY <1>0, <2>1 DEF FolderIInv, UidsNeverReturn
    <2>3. QED BY <1>0, <2>2 DEF FolderIInv, UidsNeverReturn
  <1>6. ItemsFollowSteps'
    BY <1>0, <1>1 DEF FolderIInv, ItemsFollowSteps
  <1>7. BodiesAreNew'
    <2>1. SentIn(Len(queue))' \subseteq SentIn(Len(queue))
      BY <1>2, <1>3
    <2>2. QED BY <1>0, <2>1 DEF FolderIInv, BodiesAreNew, Outranked, Outranks
  <1>8. ASSUME NEW ids, NEW n \in 0..Len(queue'), Accounted(ids, n + 1)
        PROVE  Accounted(ids, n)'
    <2>1. ASSUME NEW u \in Here \ ids
          PROVE  u \notin SentIn(n)' /\ (u \in cached' => Outranked(u, "in", check.epoch))
      BY <1>0, <1>2, <1>8, <2>1 DEF Accounted
    <2>2. QED BY <1>0, <2>1 DEF Accounted, Here, Outranked, Outranks
  <1>9. RemovalsAreSafe'
    <2>1. ASSUME NEW i \in 1..Len(queue'), queue'[i].is = "reconcile"
          PROVE  Accounted(queue[i].ids, i)'
      <3>1. PICK ids : ids = queue'[i].ids
        OBVIOUS
      <3>2. Accounted(ids, i + 1) /\ i \in 0..Len(queue')
        BY <1>1, <2>1, <3>1 DEF FolderIInv, RemovalsAreSafe
      <3>3. Accounted(ids, i)'
        BY <1>8, <3>2
      <3>4. QED BY <3>1, <3>3 DEF Accounted
    <2>2. \A i \in 1..Len(queue') : queue'[i].is = "vanished" => Gone(queue[i].ids)'
      BY <1>0, <1>1 DEF FolderIInv, RemovalsAreSafe, Gone
    <2>3. check'.whole => Accounted(check.live, Len(queue))'
      <3>1. ASSUME check.whole PROVE Accounted(check.live, Len(queue))'
        <4>1. Accounted(check.live, Len(queue') + 1)
          BY <1>3, <3>1 DEF FolderIInv, RemovalsAreSafe
        <4>2. PICK ids, n : ids = check.live /\ n = Len(queue')
          OBVIOUS
        <4>3. Accounted(ids, n)'
          BY <1>3, <1>8, <4>1, <4>2
        <4>4. ids = check'.live /\ n = Len(queue')
          BY <1>0, <4>2
        <4>5. QED BY <4>3, <4>4
      <3>2. QED BY <1>0, <3>1
    <2>4. Gone(check.lost)'
      BY <1>0 DEF FolderIInv, RemovalsAreSafe, Gone
    <2>5. QED BY <1>0, <2>1, <2>2, <2>3, <2>4 DEF FolderIInv, RemovalsAreSafe
  <1>10. QED BY <1>4, <1>5, <1>6, <1>7, <1>9 DEF FolderIInv

----------------------------------------------------------------------------
(* The theorems. *)

(* FolderIInv is inductive, as long as the ledger holds what a check needs.  *)
LEMMA NextFolderInv == CheckTypeOK /\ FolderIInv /\ WritesFit' /\ [CheckNext]_checkVars => FolderIInv'
  <1> SUFFICES ASSUME CheckTypeOK, FolderIInv, WritesFit', [CheckNext]_checkVars PROVE FolderIInv'
    OBVIOUS
  <1>1. CASE UNCHANGED checkVars
    <2>1. UNCHANGED <<server, cached, ledger, clock, write, check, queue, left>>
      BY <1>1 DEF checkVars, remote, rows, book
    <2>2. CheckTypeOK'
      BY NextFolderType
    <2>3. UidsNeverReturn'
      BY <2>1 DEF FolderIInv, UidsNeverReturn
    <2>4. QED BY <2>1, <2>2, <2>3, SameLedger, SameServerGrows, BesideTheCheck DEF FolderIInv
  <1>2. CASE Provider
    BY <1>2, EarlyInv, ListingInv, BodiesInv, CloseInv, SlowInv, FinishInv DEF Provider
  <1>3. QED BY <1>1, <1>2, OtherInv, UserInv, AnswerInv, ApplyInv, StopInv, CrashInv DEF CheckNext

(* A message the user has moved away is gone from the server, and no item of  *)
(* a check brings its row back: a body that was fetched before the move is    *)
(* refused by the ledger, and none is fetched after it.                       *)
Moved == CheckTypeOK /\ FolderIInv /\ MovedMailStaysAway

(* A body sent before a move finds the move in the ledger.                   *)
LEMMA NextMoved == Moved /\ WritesFit' /\ [CheckNext]_checkVars => Moved'
  <1> SUFFICES ASSUME Moved, WritesFit', [CheckNext]_checkVars PROVE Moved'
    OBVIOUS
  <1>0. CheckTypeOK /\ FolderIInv /\ left \cap cached = {}
    BY DEF Moved, MovedMailStaysAway
  <1>1. CheckTypeOK' /\ FolderIInv'
    BY <1>0, NextFolderType, NextFolderInv
  <1>2. CASE Apply
    <2>1. \/ cached' \subseteq cached
          \/ /\ queue[1].is = "message" /\ cached' = cached \cup {queue[1].uid}
             /\ ~Outranked(queue[1].uid, "away", check.epoch)
      BY <1>0, <1>2, ApplyRows
    <2>2. /\ Len(queue') \in 0..Len(queue') /\ Len(queue') + 1 = Len(queue)
          /\ queue # <<>> /\ queue' = Tail(queue) /\ UNCHANGED left
      BY <1>0, <1>2, ApplyRows, AppliedItem DEF CheckTypeOK
    <2>3. queue[1].is = "message" => queue[1].uid \in SentIn(Len(queue))
      BY <1>0, <2>2, TailSent
    <2>4. QED BY <1>0, <1>1, <2>1, <2>2, <2>3 DEF Moved, MovedMailStaysAway, FolderIInv, BodiesAreNew
  <1>3. CASE Answer
    <2>1. \/ UNCHANGED <<cached, left>>
          \/ cached' = cached \ {write.uid} /\ left' = left \cup {write.uid}
          \/ /\ write.op = "in" /\ cached' = cached \cup {write.uid} /\ UNCHANGED left
      BY <1>3 DEF Answer, Execute, GiveUp, CommitFlags, CommitAway, CommitIn, rows
    <2>2. QED BY <1>0, <1>1, <2>1 DEF Moved, MovedMailStaysAway, FolderIInv, UidsNeverReturn
  <1>4. CASE Provider
    <2>1. UNCHANGED <<cached, left>>
      BY <1>4 DEF Provider, Begin, Read, Select, Resync, Search, FetchChanged, FetchMetadata,
                  FetchBodies, Close, FetchSlow, Finish, Quiet, Local
    <2>2. QED BY <1>0, <1>1, <2>1 DEF Moved, MovedMailStaysAway
  <1>5. CASE OtherClient \/ User \/ Stop \/ AppCrash \/ UNCHANGED checkVars
    <2>1. UNCHANGED <<cached, left>>
      BY <1>5 DEF OtherClient, User, AskFlags, AskAway, AskIn, Ask, Stop, AppCrash, checkVars, rows, Local
    <2>2. QED BY <1>0, <1>1, <2>1 DEF Moved, MovedMailStaysAway
  <1>6. QED BY <1>2, <1>3, <1>4, <1>5 DEF CheckNext

(* Moved mail stays away, for every number of messages, writes and checks, as *)
(* long as no check spans more writes than the ledger holds.                  *)
THEOREM MovedMailNeverReturns == CheckSpec /\ []WritesFit => []MovedMailStaysAway
  <1>1. CheckInit => Moved
    BY InitFolderType, FolderInitInv DEF CheckInit, Moved, MovedMailStaysAway
  <1>2. Moved => MovedMailStaysAway
    BY DEF Moved
  <1>3. QED BY <1>1, <1>2, NextMoved, PTL DEF CheckSpec

(* No step removes the row of a message the server still has: neither an      *)
(* older listing, nor expunges, nor the end of a move.                        *)
LEMMA KeptStep == CheckTypeOK /\ FolderIInv /\ [CheckNext]_checkVars
                     => [\A u \in cached : server[u].is = "here" => u \in cached']_checkVars
  <1> SUFFICES ASSUME CheckTypeOK, FolderIInv, CheckNext, NEW u \in cached, server[u].is = "here"
               PROVE  u \in cached'
    OBVIOUS
  <1>1. CASE Apply
    <2>1. CASE ApplyRemoval
      <3>1. queue # <<>> /\ queue[1] \in Items /\ 1 \in 1..Len(queue) /\ u \in Uids
        BY <1>1, AppliedItem DEF Apply, CheckTypeOK
      <3>2. CASE queue[1].is = "vanished"
        <4>1. u \notin queue[1].ids
          BY <3>1, <3>2 DEF FolderIInv, RemovalsAreSafe, Gone
        <4>2. QED BY <2>1, <3>2, <4>1 DEF ApplyRemoval, Item
      <3>3. CASE queue[1].is = "reconcile"
        <4>1. u \in queue[1].ids \/ Outranked(u, "in", check.epoch)
          BY <3>1, <3>3 DEF FolderIInv, RemovalsAreSafe, Accounted, Here
        <4>2. QED BY <2>1, <3>3, <4>1 DEF ApplyRemoval, Item, KeepsRow
      <3>4. QED BY <2>1, <3>2, <3>3 DEF ApplyRemoval, Item
    <2>2. CASE ~ApplyRemoval
      BY <1>1, <2>2 DEF Apply, ApplyFlags, ApplyMessage, ApplyState, rows
    <2>3. QED BY <2>1, <2>2
  <1>2. CASE Answer
    <2>1. \/ cached \subseteq cached'
          \/ write.op = "away" /\ write.done /\ cached' = cached \ {write.uid}
      BY <1>2 DEF Answer, Execute, GiveUp, CommitFlags, CommitAway, CommitIn, rows
    <2>2. QED BY <2>1 DEF FolderIInv, UidsNeverReturn
  <1>3. CASE Provider
    BY <1>3 DEF Provider, Begin, Read, Select, Resync, Search, FetchChanged, FetchMetadata,
                FetchBodies, Close, FetchSlow, Finish, Quiet, Local
  <1>4. CASE OtherClient \/ User \/ Stop \/ AppCrash
    BY <1>4 DEF OtherClient, User, AskFlags, AskAway, AskIn, Ask, Stop, AppCrash, rows, Local
  <1>5. QED BY <1>1, <1>2, <1>3, <1>4 DEF CheckNext

Kept == CheckTypeOK /\ FolderIInv

(* What the server has stays in the cache, whatever a check listed and when.  *)
THEOREM ServerMailIsKept == CheckSpec /\ []WritesFit => OnServerMeansKept
  <1>1. CheckInit => Kept
    BY InitFolderType, FolderInitInv DEF Kept
  <1>2. Kept /\ WritesFit' /\ [CheckNext]_checkVars => Kept'
    BY NextFolderType, NextFolderInv DEF Kept
  <1>3. Kept /\ [CheckNext]_checkVars => [\A u \in cached : server[u].is = "here" => u \in cached']_checkVars
    BY KeptStep DEF Kept
  <1>4. QED BY <1>1, <1>2, <1>3, PTL DEF CheckSpec, OnServerMeansKept

(* Flags that were acknowledged during a check are not set back by it: a      *)
(* listing yields to the ledger, and a body is never of a message that was    *)
(* known when the check began.                                                *)
LEMMA YieldStep ==
    CheckTypeOK /\ FolderIInv /\ [CheckNext]_checkVars
       => [check.step # "idle" /\ write' = write => \A u \in check.known : WritesStand(u)]_checkVars
  <1> SUFFICES ASSUME CheckTypeOK, FolderIInv, CheckNext, check.step # "idle", write' = write,
                      NEW u \in check.known, Outranked(u, "flags", check.epoch),
                      u \in cached, u \in cached'
               PROVE  flags'[u] = flags[u]
    BY DEF WritesStand
  <1>0. u \in Uids /\ flags \in [Uids -> SUBSET Fields]
    BY DEF CheckTypeOK
  <1>1. CASE Apply
    <2>1. CASE ApplyFlags
      BY <1>0, <2>1 DEF ApplyFlags
    <2>2. CASE ApplyMessage
      <3>1. /\ Len(queue') \in 0..Len(queue') /\ Len(queue') + 1 = Len(queue)
            /\ queue # <<>> /\ queue' = Tail(queue)
        BY <1>1, ApplyRows, AppliedItem DEF CheckTypeOK
      <3>2. queue[1].uid \in SentIn(Len(queue))
        BY <2>2, <3>1, TailSent DEF ApplyMessage, Item
      <3>3. queue[1].uid # u
        BY <3>2 DEF FolderIInv, BodiesAreNew
      <3>4. QED BY <1>0, <2>2, <3>3 DEF ApplyMessage, Item, rows
    <2>3. CASE ApplyRemoval
      BY <1>0, <2>3 DEF ApplyRemoval
    <2>4. CASE ApplyState
      BY <2>4 DEF ApplyState, rows
    <2>5. QED BY <1>1, <2>1, <2>2, <2>3, <2>4 DEF Apply
  <1>2. CASE Answer
    <2>1. CASE CommitFlags \/ CommitAway \/ CommitIn
      BY <2>1, FolderKinds DEF CommitFlags, CommitAway, CommitIn
    <2>2. CASE Execute \/ GiveUp
      BY <2>2 DEF Execute, GiveUp, rows
    <2>3. QED BY <1>2, <2>1, <2>2 DEF Answer
  <1>3. CASE Provider
    BY <1>3 DEF Provider, Begin, Read, Select, Resync, Search, FetchChanged, FetchMetadata,
                FetchBodies, Close, FetchSlow, Finish, Quiet, Local
  <1>4. CASE OtherClient \/ User \/ Stop \/ AppCrash
    BY <1>4 DEF OtherClient, User, AskFlags, AskAway, AskIn, Ask, Stop, AppCrash, rows, Local
  <1>5. QED BY <1>1, <1>2, <1>3, <1>4 DEF CheckNext

(* No listing undoes an acknowledged flag until its check has ended.          *)
THEOREM ListingsYield == CheckSpec /\ []WritesFit => ListingsYieldToWrites
  <1>1. CheckInit => Kept
    BY InitFolderType, FolderInitInv DEF Kept
  <1>2. Kept /\ WritesFit' /\ [CheckNext]_checkVars => Kept'
    BY NextFolderType, NextFolderInv DEF Kept
  <1>3. Kept /\ [CheckNext]_checkVars
           => [check.step # "idle" /\ write' = write => \A u \in check.known : WritesStand(u)]_checkVars
    BY YieldStep DEF Kept
  <1>4. QED BY <1>1, <1>2, <1>3, PTL DEF CheckSpec, ListingsYieldToWrites

----------------------------------------------------------------------------
(* The saved state and what a check says of the flags. *)

FlagList(t, of, shows) ==
    /\ t \in Seq(Items)
    /\ \A i \in 1..Len(t) : /\ t[i].is = "flags" /\ t[i].of = of
                            /\ \A u \in of : t[i].flags[u] = shows[u]
    /\ of # {} => 1 \in 1..Len(t)

(* What a flag item carries.                                                 *)
LEMMA FlagItemHas ==
    ASSUME NEW of \in SUBSET Uids, NEW shows \in [Uids -> SUBSET Fields]
    PROVE  FlagList(FlagItem(of, shows), of, shows)
  <1> DEFINE item == [is |-> "flags", of |-> of,
                      flags |-> [u \in Uids |-> IF u \in of THEN shows[u] ELSE {}]]
  <1>1. item \in Items /\ item.is = "flags" /\ item.of = of /\ \A u \in of : item.flags[u] = shows[u]
    BY DEF Items
  <1>2. FlagItem(of, shows) = IF of # {} THEN <<item>> ELSE <<>>
    BY DEF FlagItem, Together
  <1> HIDE DEF item
  <1>3. <<item>> \in Seq(Items) /\ Len(<<item>>) = 1 /\ <<item>>[1] = item
    BY <1>1
  <1>4. <<>> \in Seq(Items) /\ Len(<<>>) = 0 /\ \A i \in 1..0 : FALSE
    OBVIOUS
  <1>5. CASE of # {}
    <2>1. FlagItem(of, shows) = <<item>>
      BY <1>2, <1>5
    <2>2. PICK t : t = <<item>>
      OBVIOUS
    <2>3. t \in Seq(Items) /\ Len(t) = 1 /\ t[1] = item /\ t = FlagItem(of, shows)
      BY <1>3, <2>1, <2>2
    <2>4. \A i \in 1..Len(t) : t[i] = item
      BY <2>3
    <2>5. FlagList(t, of, shows)
      BY <1>1, <2>3, <2>4 DEF FlagList
    <2>6. QED BY <2>3, <2>5
  <1>6. CASE of = {}
    BY <1>2, <1>4, <1>6 DEF FlagList
  <1>7. QED BY <1>5, <1>6

(* With an empty queue and no state in hand nothing is promised. *)
LEMMA NoState ==
    ASSUME queue' = <<>>, check'.modseq = 0, check'.slow = {},
           check'.step \in {"idle", "read"} \/ (check'.step = "select" /\ cached' \subseteq check'.known),
           check'.listed = {}, saved' <= highest', 0 <= highest',
           check'.step = "select" => check'.resume = saved'
    PROVE  StateIInv'
  <1>1. Len(queue') = 0 /\ \A i \in 1..0 : FALSE
    OBVIOUS
  <1>2. ItemsAreFresh' /\ SeenIsFresh'
    BY <1>1 DEF ItemsAreFresh, SeenIsFresh
  <1>3. OneState'
    BY <1>1 DEF OneState
  <1>4. StateIsTold'
    BY <1>1 DEF StateIsTold, Vouched
  <1>5. QED BY <1>2, <1>3, <1>4 DEF StateIInv

(* Items are added, and none of them is a state. *)
LEMMA QueueGrows ==
    ASSUME CheckTypeOK, NEW t \in Seq(Items), queue' = queue \o t,
           \A k \in 1..Len(t) : t[k].is # "state",
           UNCHANGED <<server, saved>>, check'.modseq = check.modseq
    PROVE  /\ Len(queue) \in Nat /\ Len(queue') \in Nat /\ Len(queue) <= Len(queue')
           /\ \A i \in 1..Len(queue) : i \in 1..Len(queue') /\ queue'[i] = queue[i]
           /\ \A i \in 1..Len(queue') : queue'[i].is = "state" => i \in 1..Len(queue) /\ queue'[i] = queue[i]
           /\ \A u, shows : UpToDate(u, shows) => UpToDate(u, shows)'
  <1>1. /\ Len(queue) \in Nat /\ Len(queue') \in Nat /\ Len(queue) <= Len(queue')
        /\ \A i \in 1..Len(queue') :
              \/ i \in 1..Len(queue) /\ queue'[i] = queue[i]
              \/ \E k \in 1..Len(t) : queue'[i] = t[k] /\ i = Len(queue) + k
    BY SentMore
  <1>2. \A i \in 1..Len(queue) : i \in 1..Len(queue') /\ queue'[i] = queue[i]
    BY <1>1, SentItems DEF CheckTypeOK
  <1>3. \A i \in 1..Len(queue') : queue'[i].is = "state" => i \in 1..Len(queue) /\ queue'[i] = queue[i]
    BY <1>1
  <1>4. \A u, shows : UpToDate(u, shows) => UpToDate(u, shows)'
    BY <1>3 DEF UpToDate
  <1>5. QED BY <1>1, <1>2, <1>3, <1>4

(* The check goes on and sends items that are fresh.                          *)
LEMMA StateGoesOn ==
    ASSUME CheckTypeOK, StateIInv, UNCHANGED <<server, highest, cached, flags, saved, ledger>>, Keeps,
           NEW t \in Seq(Items), queue' = queue \o t,
           \A k \in 1..Len(t) :
               /\ t[k].is \in {"flags", "message"}
               /\ t[k].is = "flags" => \A u \in t[k].of : UpToDate(u, t[k].flags[u])
               /\ t[k].is = "message" => UpToDate(t[k].uid, t[k].shows),
           check'.modseq = check.modseq,
           check'.step \in {"select", "resync", "search"} => check.step \in {"select", "resync", "search"},
           \A u \in Vouched(check.modseq) :
               Awaited(u) => Told(u) \/ Awaited(u)' \/ \E k \in 1..Len(t) : t[k].is = "flags" /\ u \in t[k].of
    PROVE  ItemsAreFresh' /\ StateIsTold'
  <1>1. /\ Len(queue) \in Nat /\ Len(queue') \in Nat /\ Len(queue) <= Len(queue')
        /\ \A i \in 1..Len(queue) : i \in 1..Len(queue') /\ queue'[i] = queue[i]
        /\ \A i \in 1..Len(queue') : queue'[i].is = "state" => i \in 1..Len(queue) /\ queue'[i] = queue[i]
        /\ \A u, shows : UpToDate(u, shows) => UpToDate(u, shows)'
    BY QueueGrows
  <1>2. /\ \A i \in 1..Len(queue') :
              \/ i \in 1..Len(queue) /\ queue'[i] = queue[i]
              \/ \E k \in 1..Len(t) : queue'[i] = t[k] /\ i = Len(queue) + k
        /\ \A k \in 1..Len(t) : Len(queue) + k \in 1..Len(queue') /\ queue'[Len(queue) + k] = t[k]
    <2>1. queue \in Seq(Items) /\ Len(t) \in Nat
      BY LenProperties DEF CheckTypeOK
    <2>2. /\ Len(queue \o t) = Len(queue) + Len(t)
          /\ \A i \in 1..Len(queue) + Len(t) : (queue \o t)[i] = IF i <= Len(queue) THEN queue[i] ELSE t[i - Len(queue)]
      BY <2>1, ConcatProperties
    <2>3. ASSUME NEW k \in 1..Len(t)
          PROVE  Len(queue) + k \in 1..Len(queue') /\ queue'[Len(queue) + k] = t[k]
      <3>1. PICK i \in 1..Len(queue) + Len(t) : i = Len(queue) + k
        BY <1>1, <2>1
      <3>2. ~(i <= Len(queue)) /\ i - Len(queue) = k
        BY <1>1, <2>1, <3>1
      <3>3. QED BY <2>2, <3>1, <3>2
    <2>4. QED BY <2>3, SentMore
  <1>3. ItemsAreFresh'
    <2>1. ASSUME NEW i \in 1..Len(queue'), NEW item, item = queue'[i]
          PROVE  /\ item.is = "flags" => \A u \in item.of : UpToDate(u, item.flags[u])
                 /\ item.is = "message" => UpToDate(item.uid, item.shows)
      BY <1>2, <2>1, SMTT(60), ZenonT(60) DEF StateIInv, ItemsAreFresh
    <2>2. ASSUME NEW i \in 1..Len(queue'), NEW item, item = queue'[i]
          PROVE  /\ item.is = "flags" => \A u \in item.of : UpToDate(u, item.flags[u])'
                 /\ item.is = "message" => UpToDate(item.uid, item.shows)'
      BY <1>1, <2>1, <2>2
    <2>3. QED BY <2>2 DEF ItemsAreFresh, UpToDate
  <1>4. /\ \A u : Told(u) <=> Told(u)'
        /\ HoldsFolderState(check.epoch)' <=> HoldsFolderState(check.epoch)
        /\ \A m : Vouched(m)' = Vouched(m)
    BY DEF Told, HoldsFolderState, Outranks, Vouched, Keeps, Here
  <1>5. \A u : Carries(u, Len(queue)) => Carries(u, Len(queue))'
    BY <1>1 DEF Carries
  <1>6. \A u : (\E k \in 1..Len(t) : t[k].is = "flags" /\ u \in t[k].of) => Carries(u, Len(queue))'
    BY <1>2, SMTT(60), ZenonT(60) DEF Carries
  <1>7. \A i \in 1..Len(queue) : \A u : Carries(u, i) => Carries(u, i)'
    BY <1>1 DEF Carries
  <1>8. StateIsTold'
    <2>1. check'.step \in {"select", "resync", "search"} /\ cached' \ check'.known # {}
              => HoldsFolderState(check.epoch)'
      BY <1>4 DEF StateIInv, StateIsTold, Keeps
    <2>2. \A u \in Vouched(check.modseq) : Told(u)' \/ Carries(u, Len(queue))' \/ Awaited(u)'
      BY <1>4, <1>5, <1>6 DEF StateIInv, StateIsTold
    <2>3. ASSUME NEW i \in 1..Len(queue'), queue'[i].is = "state", NEW u \in Vouched(queue'[i].modseq)
          PROVE  Told(u)' \/ Carries(u, i)'
      <3>1. i \in 1..Len(queue) /\ queue'[i] = queue[i]
        BY <1>1, <2>3
      <3>2. Told(u) \/ Carries(u, i)
        BY <2>3, <3>1 DEF StateIInv, StateIsTold
      <3>3. QED BY <1>4, <1>7, <3>1, <3>2
    <2>4. \A u \in Vouched(check.modseq)' : Told(u)' \/ Carries(u, Len(queue))' \/ Awaited(u)'
      BY <2>2 DEF Vouched, Here
    <2>5. \A i \in 1..Len(queue') : queue'[i].is = "state" =>
             \A u \in Vouched(queue[i].modseq)' : Told(u)' \/ Carries(u, i)'
      BY <2>3 DEF Vouched, Here
    <2>6. QED BY <2>1, <2>4, <2>5 DEF StateIsTold
  <1>9. QED BY <1>3, <1>8

(* A step beside the check: a message stays as it is at the server, or has    *)
(* its newest change.                                                         *)
Newest ==
    /\ highest <= highest' /\ highest' \in Nat
    /\ \A u \in Uids : server'[u] = server[u] \/ server'[u].mod > highest

(* Every change takes the next mod-sequence.                                 *)
LEMMA ChangeIsNewest ==
    ASSUME CheckTypeOK, NEW u \in Uids, NEW place \in Places, NEW shows \in SUBSET Fields,
           Change(u, place, shows)
    PROVE  Newest
  <1>1. highest \in Nat /\ highest' \in Nat /\ highest' = highest + 1 /\ server'[u].mod = highest + 1
        /\ \A w \in Uids : w # u => server'[w] = server[w]
    BY ChangedServer DEF CheckTypeOK
  <1>2. QED BY <1>1 DEF Newest

LEMMA SameIsNewest == CheckTypeOK /\ UNCHANGED remote => Newest
  BY DEF CheckTypeOK, Newest, remote

(* What it must give for StateIInv.                                          *)
LEMMA StateBeside ==
    ASSUME CheckTypeOK, CheckTypeOK', FolderIInv, StateIInv, UNCHANGED <<check, queue, saved, speaks, lane>>, Newest,
           check.step # "idle" =>
              /\ \A e \in ledger : Outranks(e, check.epoch) => e \in ledger'
              /\ \A u \in cached' : (u \in cached /\ flags'[u] = flags[u])
                                      \/ HoldsFolderState(check.epoch)'
    PROVE  StateIInv'
  <1>0. /\ saved \in Nat /\ highest \in Nat /\ check.modseq \in Nat
        /\ \A i \in 1..Len(queue) : queue[i].is = "state" => queue[i].modseq \in Nat /\ queue[i].modseq <= highest
        /\ saved <= highest /\ check.modseq <= highest
        /\ \A u \in Uids : server[u].mod \in Nat /\ server'[u].mod \in Nat
    <2>1. \A i \in 1..Len(queue) : queue[i] \in Items
      BY LenProperties, ElementOfSeq DEF CheckTypeOK
    <2>2. QED BY <2>1, CheckFields, ItemFields DEF CheckTypeOK, StateIInv, OneState
  <1>1. ASSUME NEW u \in Uids, NEW shows, UpToDate(u, shows) PROVE UpToDate(u, shows)'
    <2>1. CASE server'[u] = server[u]
      BY <1>1, <2>1 DEF UpToDate
    <2>2. CASE server'[u].mod > highest
      <3>1. /\ server'[u].mod > saved /\ server'[u].mod > check.modseq
            /\ \A i \in 1..Len(queue) : queue[i].is = "state" => server'[u].mod > queue[i].modseq
        BY <1>0, <2>2
      <3>2. QED BY <3>1 DEF UpToDate
    <2>3. QED BY <2>1, <2>2 DEF Newest
  <1>2. ItemsAreFresh'
    <2>1. ASSUME NEW i \in 1..Len(queue), NEW item, item = queue[i]
          PROVE  /\ item.is = "flags" => item.of \in SUBSET Uids /\ \A u \in item.of : UpToDate(u, item.flags[u])
                 /\ item.is = "message" => item.uid \in Uids /\ UpToDate(item.uid, item.shows)
      <3>1. item \in Items
        BY <2>1, LenProperties, ElementOfSeq DEF CheckTypeOK
      <3>2. QED BY <2>1, <3>1, ItemFields DEF StateIInv, ItemsAreFresh
    <2>2. ASSUME NEW i \in 1..Len(queue), NEW item, item = queue[i]
          PROVE  /\ item.is = "flags" => \A u \in item.of : UpToDate(u, item.flags[u])'
                 /\ item.is = "message" => UpToDate(item.uid, item.shows)'
      BY <1>1, <2>1, <2>2
    <2>3. QED BY <2>2 DEF ItemsAreFresh, UpToDate
  <1>3. SeenIsFresh'
    <2>1. check.listed \in SUBSET Uids /\ check.slow \in SUBSET Uids
      BY CheckFields
    <2>2. /\ check.step = "search" => \A u \in check.listed : UpToDate(u, check.seen[u])
          /\ \A u \in check.slow \cap Staged : UpToDate(u, check.seen[u])
          /\ check.step \in {"idle", "read", "select", "resync"} => check.listed = {}
      BY DEF StateIInv, SeenIsFresh
    <2>3. \A u \in Uids : \A shows : UpToDate(u, shows) => UpToDate(u, shows)'
      BY <1>1
    <2>4. PICK seen : seen = check.seen
      OBVIOUS
    <2>5. /\ check.step = "search" => \A u \in check.listed : UpToDate(u, seen[u])'
          /\ \A u \in check.slow \cap Staged : UpToDate(u, seen[u])'
      BY <2>1, <2>2, <2>3, <2>4
    <2>6. QED BY <2>2, <2>4, <2>5 DEF SeenIsFresh, Staged, UpToDate
  <1>4. OneState'
    BY <1>0 DEF StateIInv, OneState, Newest
  <1>5. StateIsTold'
    <2>1. CASE check.step = "idle"
      <3>1. queue = <<>> /\ check.modseq = 0
        BY <2>1 DEF FolderIInv, ItemsFollowSteps, Early, StateIInv, OneState, Listing
      <3>2. Len(queue') = 0 /\ \A i \in 1..0 : FALSE
        BY <3>1
      <3>3. QED BY <2>1, <3>1, <3>2 DEF StateIsTold, Vouched
    <2>2. CASE check.step # "idle"
      <3>1. HoldsFolderState(check.epoch) => HoldsFolderState(check.epoch)'
        BY <2>2 DEF HoldsFolderState, Outranks
      <3>2. ASSUME NEW m \in Nat, m <= highest, NEW u \in Vouched(m)'
            PROVE  HoldsFolderState(check.epoch)' \/ (u \in Vouched(m) /\ (Told(u) => Told(u)'))
        <4>1. u \in Uids /\ u \in cached' /\ server'[u].is = "here" /\ m # 0 /\ server'[u].mod <= m
          BY <3>2 DEF Vouched, Here
        <4>2. server'[u] = server[u]
          BY <1>0, <3>2, <4>1 DEF Newest
        <4>3. CASE u \in cached /\ flags'[u] = flags[u]
          BY <3>1, <4>1, <4>2, <4>3 DEF Vouched, Told, Here
        <4>4. QED BY <2>2, <4>1, <4>3
      <3>3. \A u : (Awaited(u) => Awaited(u)') /\ \A n : Carries(u, n) => Carries(u, n)'
        BY DEF Awaited, Carries, Qresync
      <3>4. check'.step \in {"select", "resync", "search"} /\ cached' \ check'.known # {}
               => HoldsFolderState(check.epoch)'
        BY <2>2, <3>1 DEF StateIInv, StateIsTold
      <3>5. PICK m \in Nat : m = check.modseq
        BY <1>0
      <3>6. \A u \in Vouched(m)' : Told(u)' \/ Carries(u, Len(queue))' \/ Awaited(u)'
        <4>1. \A u \in Vouched(m) : Told(u) \/ Carries(u, Len(queue)) \/ Awaited(u)
          BY <3>5 DEF StateIInv, StateIsTold
        <4>2. PICK n : n = Len(queue)
          OBVIOUS
        <4>3. \A u \in Vouched(m)' : Told(u)' \/ Carries(u, n)' \/ Awaited(u)'
          BY <1>0, <3>2, <3>3, <3>5, <4>1, <4>2 DEF Told
        <4>4. QED BY <4>2, <4>3 DEF Carries
      <3>7. ASSUME NEW i \in 1..Len(queue), queue[i].is = "state"
            PROVE  \A u \in Vouched(queue[i].modseq)' : Told(u)' \/ Carries(u, i)'
        <4>1. PICK k \in Nat : k = queue[i].modseq
          BY <1>0, <3>7
        <4>2. \A u \in Vouched(k) : Told(u) \/ Carries(u, i)
          BY <3>7, <4>1 DEF StateIInv, StateIsTold
        <4>3. \A u \in Vouched(k)' : Told(u)' \/ Carries(u, i)'
          BY <1>0, <3>2, <3>3, <3>7, <4>1, <4>2 DEF Told
        <4>4. QED BY <4>1, <4>3 DEF Vouched
      <3>8. QED BY <3>4, <3>5, <3>6, <3>7 DEF StateIsTold, Vouched
    <2>3. QED BY <2>1, <2>2
  <1>6. QED BY <1>2, <1>3, <1>4, <1>5 DEF StateIInv

(* Each action keeps StateIInv.                                              *)
LEMMA OtherState == CheckTypeOK /\ FolderIInv /\ StateIInv /\ OtherClient => StateIInv'
  <1> SUFFICES ASSUME CheckTypeOK, FolderIInv, StateIInv, OtherClient PROVE StateIInv'
    OBVIOUS
  <1>1. UNCHANGED <<cached, flags, saved, ledger, check, queue, speaks, lane>>
    BY DEF OtherClient, rows, book, kinds
  <1>2. Newest
    <2>1. \A u \in Uids : server[u].flags \in SUBSET Fields
      BY ServerFields
    <2>2. {} \in SUBSET Fields /\ Arriving \subseteq SUBSET Fields /\ {"here", "gone"} \subseteq Places
      BY ParametersAssumption DEF Places
    <2>3. QED BY <2>1, <2>2, ToggleType, ChangeIsNewest DEF OtherClient, Here
  <1>3. CheckTypeOK'
    BY OtherType
  <1>4. QED BY <1>1, <1>2, <1>3, StateBeside

LEMMA UserState == CheckTypeOK /\ FolderIInv /\ StateIInv /\ User => StateIInv'
  <1> SUFFICES ASSUME CheckTypeOK, FolderIInv, StateIInv, User PROVE StateIInv'
    OBVIOUS
  <1>1. UNCHANGED <<remote, cached, flags, saved, ledger, check, queue, speaks, lane>>
    BY DEF User, AskFlags, AskAway, AskIn, Ask, rows, book, kinds
  <1>2. CheckTypeOK'
    BY UserType
  <1>3. QED BY <1>1, <1>2, SameIsNewest, StateBeside

LEMMA AnswerState == CheckTypeOK /\ FolderIInv /\ StateIInv /\ WritesFit' /\ Answer => StateIInv'
  <1> SUFFICES ASSUME CheckTypeOK, FolderIInv, StateIInv, WritesFit', Answer PROVE StateIInv'
    OBVIOUS
  <1>0. CheckTypeOK' /\ NoWrite.op = "none"
    BY AnswerType, FolderKinds
  <1>1. CASE Execute
    <2>1. UNCHANGED <<cached, flags, saved, ledger, check, queue, speaks, lane>>
      BY <1>1 DEF Execute, rows, book, kinds
    <2>2. write.uid \in Uids
      BY <1>1, WriteFields DEF Execute
    <2>3. Newest
      BY <1>1, <2>2, ExecuteServer, SameIsNewest, ChangeIsNewest
    <2>4. QED BY <1>0, <2>1, <2>3, StateBeside
  <1>2. CASE GiveUp
    <2>1. UNCHANGED <<remote, cached, flags, saved, ledger, check, queue, speaks, lane>>
      BY <1>2 DEF GiveUp, rows, book, kinds
    <2>2. QED BY <1>0, <2>1, SameIsNewest, StateBeside
  <1>3. CASE CommitFlags \/ CommitAway \/ CommitIn
    <2>1. /\ UNCHANGED <<remote, saved, check, queue, speaks, lane>> /\ write # NoWrite
          /\ write.uid \in Uids
      BY <1>0, <1>3, WriteFields DEF CommitFlags, CommitAway, CommitIn, kinds
    <2>2. CASE UNCHANGED <<cached, flags, ledger>>
      BY <1>0, <2>1, <2>2, SameIsNewest, StateBeside
    <2>3. CASE \E kind : RecordAcknowledged(write.uid, kind)
      <3>0. PICK kind : RecordAcknowledged(write.uid, kind)
        BY <2>3
      <3>1. PICK u \in Uids : RecordAcknowledged(u, kind)
        BY <2>1, <3>0
      <3>2. check.step # "idle" =>
               /\ \A e \in ledger : Outranks(e, check.epoch) => e \in ledger'
               /\ \E e \in ledger' : Outranks(e, check.epoch)
        BY <2>1, <3>1, RecordKeepsLedger DEF FolderIInv
      <3>3. check.step # "idle" => HoldsFolderState(check.epoch)'
        BY <2>1, <3>2 DEF HoldsFolderState, Outranks
      <3>4. QED BY <1>0, <2>1, <3>2, <3>3, SameIsNewest, StateBeside
    <2>4. QED BY <1>3, <2>2, <2>3 DEF CommitFlags, CommitAway, CommitIn, book
  <1>4. QED BY <1>1, <1>2, <1>3 DEF Answer

(* A check begins, ends, or is lost. *)
LEMMA RestingState == Resting.modseq = 0 /\ Resting.listed = {} /\ Resting.slow = {} /\ Resting.step = "idle"
  BY DEF Resting

LEMMA BeginState == CheckTypeOK /\ FolderIInv /\ StateIInv /\ (Begin \/ Read) => StateIInv'
  <1> SUFFICES ASSUME CheckTypeOK, FolderIInv, StateIInv, Begin \/ Read PROVE StateIInv'
    OBVIOUS
  <1>1. /\ UNCHANGED <<cached, saved, highest, queue>> /\ check.step \in {"idle", "read"}
        /\ saved <= highest /\ highest \in Nat
    BY DEF Begin, Read, Quiet, Local, remote, CheckTypeOK, StateIInv, OneState
  <1>2. queue = <<>> /\ check.listed = {} /\ check.slow = {} /\ check.modseq = 0 /\ check \in Checks
    BY <1>1, EarlyQueue, CheckFields DEF Early, StateIInv, SeenIsFresh, OneState, CheckTypeOK, Listing
  <1>3. CASE Begin
    <2>1. check' = [Resting EXCEPT !.step = "read", !.epoch = clock] /\ Resting \in Checks
      BY <1>3, FolderKinds DEF Begin, Step
    <2>2. check'.step = "read" /\ check'.modseq = 0 /\ check'.listed = {} /\ check'.slow = {}
      BY <2>1 DEF Resting
    <2>3. QED BY <1>1, <1>2, <2>2, NoState
  <1>4. CASE Read
    <2>1. check' = [check EXCEPT !.step = "select", !.known = cached, !.resume = saved]
      BY <1>4 DEF Read, Step
    <2>2. /\ check'.step = "select" /\ check'.known = cached /\ check'.resume = saved
          /\ check'.modseq = 0 /\ check'.listed = {} /\ check'.slow = {}
      BY <1>2, <2>1 DEF Checks
    <2>3. QED BY <1>1, <1>2, <2>2, NoState
  <1>5. QED BY <1>3, <1>4

LEMMA EndState == CheckTypeOK /\ FolderIInv /\ StateIInv /\ (Finish \/ AppCrash) => StateIInv'
  <1> SUFFICES ASSUME CheckTypeOK, FolderIInv, StateIInv, Finish \/ AppCrash PROVE StateIInv'
    OBVIOUS
  <1>1. UNCHANGED <<saved, highest>> /\ check' = Resting /\ queue' = <<>>
    BY DEF Finish, AppCrash, Local, remote
  <1>2. saved <= highest /\ highest \in Nat
    BY DEF CheckTypeOK, StateIInv, OneState
  <1>3. QED BY <1>1, <1>2, RestingState, NoState

LEMMA InitState == CheckInit => StateIInv
  <1> SUFFICES ASSUME CheckInit PROVE StateIInv
    OBVIOUS
  <1>1. /\ queue = <<>> /\ check.modseq = 0 /\ check.slow = {} /\ check.listed = {} /\ check.step = "idle"
        /\ saved <= highest
    BY RestingState DEF CheckInit
  <1>2. Len(queue) = 0 /\ \A i \in 1..0 : FALSE
    BY <1>1
  <1>3. QED BY <1>1, <1>2 DEF StateIInv, ItemsAreFresh, SeenIsFresh, OneState, StateIsTold, Vouched, CheckInit

(* How the saved state and the one SELECT told decide the plan.              *)
LEMMA PlanFacts ==
    ASSUME NEW resume \in Nat, NEW modseq \in Nat
    PROVE  /\ Plan(resume, modseq) \in Plans
           /\ Plan(resume, modseq) # "full" => resume # 0
           /\ Plan(resume, modseq) = "unchanged" => modseq = resume
  BY DEF Plan, Plans

LEMMA SelectState == CheckTypeOK /\ FolderIInv /\ StateIInv /\ Select => StateIInv'
  <1> SUFFICES ASSUME CheckTypeOK, FolderIInv, StateIInv, Select PROVE StateIInv'
    OBVIOUS
  <1>1. /\ UNCHANGED <<server, highest, cached, flags, saved, ledger, queue, speaks>> /\ check.step = "select"
        /\ check \in Checks
    BY DEF Select, Quiet, Local, remote, book, kinds, CheckTypeOK
  <1>2. queue = <<>> /\ check.listed = {} /\ check.slow = {} /\ check.resume = saved
    BY <1>1, EarlyQueue DEF Early, StateIInv, SeenIsFresh, OneState
  <1>3. PICK modseq \in {0, highest}, plan \in {Plan(check.resume, 0), Plan(check.resume, highest)},
             step \in {"search", "resync", "close"} :
          /\ plan = Plan(check.resume, modseq)
          /\ step = IF ~ Qresync \/ plan = "full" THEN "search"
                    ELSE IF plan = "changes" THEN "resync"
                    ELSE IF AddsUp({}, {}, Here) THEN "close" ELSE "search"
          /\ check' = [check EXCEPT !.modseq = modseq, !.there = Here, !.plan = plan, !.step = step]
    BY DEF Select, Step
  <1>4. /\ modseq \in Nat /\ modseq <= highest /\ plan \in Plans
        /\ plan # "full" => check.resume # 0
        /\ plan = "unchanged" => modseq = check.resume
    BY <1>3, CheckFields, PlanFacts DEF CheckTypeOK
  <1>5. /\ step \in {"search", "resync", "close"}
        /\ step = "resync" => plan = "changes"
        /\ step = "search" => ~(plan = "changes" /\ Qresync)
        /\ step = "close" => plan = "unchanged"
    BY <1>3, <1>4 DEF Plans
  <1>6. /\ check'.step = step /\ check'.modseq = modseq /\ check'.plan = plan /\ check'.resume = check.resume
        /\ check'.known = check.known /\ check'.listed = {} /\ check'.slow = {}
        /\ check'.epoch = check.epoch
    BY <1>1, <1>2, <1>3 DEF Checks
  <1>7. Len(queue') = 0 /\ \A i \in 1..0 : FALSE
    BY <1>1, <1>2
  <1>8. ItemsAreFresh' /\ SeenIsFresh'
    BY <1>6, <1>7 DEF ItemsAreFresh, SeenIsFresh
  <1>9. OneState'
    BY <1>1, <1>2, <1>4, <1>5, <1>6, <1>7 DEF StateIInv, OneState
  <1>10. StateIsTold'
    <2>1. HoldsFolderState(check.epoch)' <=> HoldsFolderState(check.epoch)
      BY <1>1, <1>6 DEF HoldsFolderState, Outranks
    <2>2. cached \ check.known # {} => HoldsFolderState(check.epoch)
      BY <1>1 DEF StateIInv, StateIsTold
    <2>3. ASSUME NEW u \in Vouched(modseq) PROVE Told(u)' \/ Awaited(u)'
      <3>1. u \in cached /\ server[u].mod <= modseq /\ modseq # 0
        BY <2>3 DEF Vouched
      <3>2. CASE u \notin check.known
        BY <2>1, <2>2, <3>1, <3>2 DEF Told
      <3>3. CASE u \in check.known /\ step = "close"
        BY <1>1, <1>2, <1>4, <1>5, <3>1, <3>3 DEF Told
      <3>4. CASE u \in check.known /\ step # "close"
        <4>1. Qresync' <=> Qresync
          BY <1>1, <1>6 DEF Qresync
        <4>2. QED BY <1>5, <1>6, <3>4, <4>1 DEF Awaited
      <3>5. QED BY <3>2, <3>3, <3>4
    <2>4. \A u \in Vouched(check.modseq)' : Told(u)' \/ Awaited(u)'
      BY <1>1, <1>6, <2>3 DEF Vouched, Here
    <2>5. QED BY <1>1, <1>6, <1>7, <2>1, <2>2, <2>4 DEF StateIsTold
  <1>11. QED BY <1>8, <1>9, <1>10 DEF StateIInv

(* What a step of the provider leaves as it was.                              *)
LEMMA QuietState ==
    ASSUME CheckTypeOK, Quiet
    PROVE  /\ UNCHANGED <<server, highest, cached, flags, saved, ledger, speaks, lane>>
           /\ check \in Checks /\ highest \in Nat
  BY DEF Quiet, Local, remote, book, kinds, CheckTypeOK

(* A step that sends flags it has just read.                                  *)
LEMMA FlagsAreTold ==
    ASSUME CheckTypeOK, StateIInv, Quiet, Keeps, check'.modseq = check.modseq,
           NEW of \in SUBSET Uids, NEW shows \in [Uids -> SUBSET Fields],
           \A u \in of : UpToDate(u, shows[u]),
           Send(FlagItem(of, shows)),
           check'.step \in {"select", "resync", "search"} => check.step \in {"select", "resync", "search"},
           \A u \in Vouched(check.modseq) : Awaited(u) => Told(u) \/ Awaited(u)' \/ u \in of
    PROVE  /\ ItemsAreFresh' /\ StateIsTold'
           /\ \A u, v : UpToDate(u, v) => UpToDate(u, v)'
           /\ \A i \in 1..Len(queue') : queue'[i].is = "state" => i \in 1..Len(queue) /\ queue'[i] = queue[i]
  <1>1. PICK t : t = FlagItem(of, shows)
    OBVIOUS
  <1>0. /\ t \in Seq(Items)
        /\ \A i \in 1..Len(t) : /\ t[i].is = "flags" /\ t[i].of = of
                                /\ \A u \in of : t[i].flags[u] = shows[u]
        /\ of # {} => 1 \in 1..Len(t)
    <2>1. FlagList(t, of, shows)
      BY <1>1, FlagItemHas
    <2>2. QED BY <2>1 DEF FlagList
  <1>2. queue' = queue \o t
    BY <1>1 DEF Send
  <1>3. \A u \in of : \E k \in 1..Len(t) : t[k].is = "flags" /\ u \in t[k].of
    BY <1>0
  <1>4. UNCHANGED <<server, highest, cached, flags, saved, ledger>>
    BY QuietState
  <1>5. ItemsAreFresh' /\ StateIsTold'
    BY <1>0, <1>2, <1>3, <1>4, StateGoesOn
  <1>6. \A k \in 1..Len(t) : t[k].is # "state"
    BY <1>0
  <1>7. QED BY <1>0, <1>2, <1>4, <1>5, <1>6, QueueGrows

(* The same without an item.                                                  *)
LEMMA NothingIsTold ==
    ASSUME CheckTypeOK, StateIInv, Quiet, Keeps, check'.modseq = check.modseq, UNCHANGED queue,
           check'.step \in {"select", "resync", "search"} => check.step \in {"select", "resync", "search"},
           \A u \in Vouched(check.modseq) : Awaited(u) => Told(u) \/ Awaited(u)'
    PROVE  ItemsAreFresh' /\ StateIsTold' /\ \A u, v : UpToDate(u, v) => UpToDate(u, v)'
  <1>1. PICK t : t = <<>>
    OBVIOUS
  <1>2. t \in Seq(Items) /\ Len(t) = 0 /\ queue' = queue \o t /\ \A k \in 1..0 : FALSE
    BY <1>1, ConcatEmptySeq DEF CheckTypeOK
  <1>3. UNCHANGED <<server, highest, cached, flags, saved, ledger>>
    BY QuietState
  <1>4. ItemsAreFresh' /\ StateIsTold'
    BY <1>2, <1>3, StateGoesOn
  <1>5. QED BY <1>2, <1>3, <1>4, QueueGrows

(* What is read now is fresh.                                                *)
LEMMA ShownIsFresh == \A u \in Uids : UpToDate(u, Shown[u]) /\ UpToDate(u, server[u].flags)
  BY DEF UpToDate, Shown

LEMMA ResyncState == CheckTypeOK /\ FolderIInv /\ StateIInv /\ Resync => StateIInv'
  <1> SUFFICES ASSUME CheckTypeOK, FolderIInv, StateIInv, Resync PROVE StateIInv'
    OBVIOUS
  <1> DEFINE fetched == Changed(check.resume, "here")
             gone    == check.known \cap Changed(check.resume, "gone")
             new     == fetched \ check.known
             of      == fetched \cap check.known
  <1>1. /\ UNCHANGED <<server, highest, cached, flags, saved, ledger, speaks, lane>> /\ Quiet
        /\ check \in Checks /\ check.step = "resync"
    BY QuietState DEF Resync
  <1>2. /\ queue = <<>> /\ check.listed = {} /\ check.slow = {} /\ check.resume = saved /\ saved # 0
        /\ saved <= highest /\ check.modseq <= highest /\ check.plan = "changes"
    BY <1>1, EarlyQueue DEF Early, StateIInv, SeenIsFresh, OneState
  <1>3. /\ fetched \in SUBSET Uids /\ of \in SUBSET Uids /\ Shown \in [Uids -> SUBSET Fields]
        /\ \A u \in Uids : UpToDate(u, Shown[u])
    BY ServerFields, ShownIsFresh
  <1>4. \A u \in Vouched(check.modseq) : Awaited(u) => Told(u) \/ (u \in fetched /\ u \in check.known)
    <2>1. saved \in Nat /\ \A u \in Uids : server[u].mod \in Nat
      BY DEF CheckTypeOK
    <2>2. QED BY <1>2, <2>1 DEF Vouched, Here, Told, Changed, Awaited
  <1>5. Len(queue) = 0
    BY <1>2
  <1>6. CASE /\ check' = [check EXCEPT !.step = "fetch", !.lost = gone, !.listed = new]
             /\ Send(FlagItem(of, Shown))
    <2> HIDE DEF fetched, gone, new
    <2>1. /\ check'.step = "fetch" /\ check'.modseq = check.modseq /\ check'.resume = check.resume
          /\ check'.slow = {} /\ Keeps
      BY <1>1, <1>2, <1>6 DEF Checks, Keeps
    <2>2. \A u \in of : UpToDate(u, Shown[u])
      BY <1>3
    <2>3. \A u \in Vouched(check.modseq) : Awaited(u) => Told(u) \/ u \in of
      BY <1>4
    <2> HIDE DEF of
    <2>4. /\ ItemsAreFresh' /\ StateIsTold'
          /\ \A i \in 1..Len(queue') : queue'[i].is = "state" => i \in 1..Len(queue)
      BY <1>1, <1>3, <1>6, <2>1, <2>2, <2>3, FlagsAreTold
    <2>5. SeenIsFresh' /\ OneState'
      BY <1>1, <1>2, <1>5, <2>1, <2>4 DEF SeenIsFresh, OneState, Listing
    <2>6. QED BY <2>4, <2>5 DEF StateIInv
  <1>7. CASE /\ UNCHANGED queue
             /\ \/ check' = [check EXCEPT !.step = "search", !.listed = fetched, !.seen = Shown]
                \/ check' = [check EXCEPT !.step = "search", !.plan = "full"]
    <2>1. /\ check'.step = "search" /\ check'.modseq = check.modseq /\ check'.resume = check.resume
          /\ check'.slow = {} /\ Keeps
          /\ \/ check'.listed = fetched /\ check'.seen = Shown /\ check'.plan = "changes"
             \/ check'.listed = {} /\ check'.plan = "full"
      <3> HIDE DEF fetched
      <3>1. QED BY <1>1, <1>2, <1>7, ZenonT(60) DEF Checks, Keeps
    <2>2. \A u \in Vouched(check.modseq) : Awaited(u) => Told(u) \/ Awaited(u)'
      BY <1>4, <2>1 DEF Awaited, Keeps
    <2>3. ItemsAreFresh' /\ StateIsTold' /\ \A u, v : UpToDate(u, v) => UpToDate(u, v)'
      BY <1>1, <1>7, <2>1, <2>2, NothingIsTold
    <2>4. SeenIsFresh'
      <3>1. \A u \in check'.listed : u \in Uids /\ check'.seen[u] = Shown[u] /\ UpToDate(u, Shown[u])'
        <4>1. PICK shown : shown = Shown
          OBVIOUS
        <4>2. \A u \in Uids : UpToDate(u, shown[u])'
          BY <1>3, <2>3, <4>1
        <4>3. Shown' = Shown
          BY <1>1 DEF Shown
        <4>4. \A u \in Uids : UpToDate(u, Shown[u])'
          BY <4>1, <4>2, <4>3
        <4>5. QED BY <1>3, <2>1, <4>4
      <3>2. QED BY <1>1, <2>1, <3>1 DEF SeenIsFresh, UpToDate, Shown
    <2>5. OneState'
      BY <1>1, <1>2, <1>5, <1>7, <2>1 DEF OneState
    <2>6. QED BY <2>3, <2>4, <2>5 DEF StateIInv
  <1>8. QED BY <1>6, <1>7 DEF Resync, Step

LEMMA SearchState == CheckTypeOK /\ FolderIInv /\ StateIInv /\ Search => StateIInv'
  <1> SUFFICES ASSUME CheckTypeOK, FolderIInv, StateIInv, Search PROVE StateIInv'
    OBVIOUS
  <1>1. /\ UNCHANGED <<server, highest, cached, flags, saved, ledger, speaks, lane>> /\ Quiet
        /\ check \in Checks /\ check.step = "search"
    BY QuietState DEF Search
  <1>2. /\ queue = <<>> /\ check.slow = {} /\ check.resume = saved
        /\ saved <= highest /\ check.modseq <= highest
        /\ check.plan = "unchanged" => check.modseq = check.resume
        /\ check.plan # "full" => check.resume # 0
        /\ check.plan \in Plans
    BY <1>1, EarlyQueue, CheckFields DEF Early, StateIInv, OneState
  <1>3. PICK given, asks :
          /\ given = (check.plan # "full" /\ (Qresync \/ check.plan = "unchanged"))
          /\ asks = (check.plan = "changes" /\ ~Qresync)
    OBVIOUS
  <1>4. PICK of : of = IF given THEN check.listed \cap check.known \cap Here ELSE {}
    OBVIOUS
  <1>5. /\ check' = [check EXCEPT !.step = IF asks THEN "changed" ELSE "fetch",
                        !.whole = TRUE, !.live = Here, !.seen = NoneSeen,
                        !.listed = IF given THEN Here \ check.known ELSE Here]
        /\ Send(FlagItem(of, check.seen))
    BY <1>3, <1>4, Zenon DEF Search, Step, Unlisted
  <1>6. /\ check'.step = (IF asks THEN "changed" ELSE "fetch") /\ check'.live = Here
        /\ check'.listed = (IF given THEN Here \ check.known ELSE Here)
        /\ check'.modseq = check.modseq /\ check'.resume = check.resume /\ check'.plan = check.plan
        /\ check'.slow = {} /\ Keeps
    BY <1>1, <1>2, <1>5 DEF Checks, Keeps
  <1>7. of \in SUBSET Uids /\ check.seen \in [Uids -> SUBSET Fields] /\ \A u \in of : UpToDate(u, check.seen[u])
    BY <1>1, <1>4, CheckFields DEF StateIInv, SeenIsFresh
  <1>8. ASSUME NEW u \in Vouched(check.modseq), Awaited(u)
        PROVE  Told(u) \/ Awaited(u)' \/ u \in of
    <2>1. u \in check.known /\ u \in Here /\ server[u].mod <= check.modseq
          /\ (check.plan = "changes" /\ Qresync => u \in check.listed)
      BY <1>1, <1>8 DEF Vouched, Awaited
    <2>2. CASE check.plan = "unchanged"
      BY <1>2, <2>1, <2>2 DEF Told
    <2>3. CASE check.plan = "changes" /\ Qresync
      BY <1>3, <1>4, <2>1, <2>3
    <2>4. CASE check.plan = "changes" /\ ~Qresync
      BY <1>3, <1>6, <2>1, <2>4 DEF Awaited, Keeps
    <2>5. CASE check.plan = "full"
      BY <1>3, <1>6, <2>1, <2>5 DEF Awaited, Keeps
    <2>6. QED BY <1>2, <2>2, <2>3, <2>4, <2>5 DEF Plans
  <1>9. check'.step \in {"changed", "fetch"}
    BY <1>6
  <1>10. /\ ItemsAreFresh' /\ StateIsTold'
         /\ \A i \in 1..Len(queue') : queue'[i].is = "state" => i \in 1..Len(queue)
    BY <1>1, <1>5, <1>6, <1>7, <1>8, <1>9, FlagsAreTold
  <1>11. Len(queue) = 0 /\ \A i \in 1..0 : FALSE
    BY <1>2
  <1>12. SeenIsFresh' /\ OneState'
    BY <1>1, <1>2, <1>3, <1>6, <1>9, <1>10, <1>11 DEF SeenIsFresh, OneState, Listing
  <1>13. QED BY <1>10, <1>12 DEF StateIInv

LEMMA ChangedState == CheckTypeOK /\ FolderIInv /\ StateIInv /\ FetchChanged => StateIInv'
  <1> SUFFICES ASSUME CheckTypeOK, FolderIInv, StateIInv, FetchChanged PROVE StateIInv'
    OBVIOUS
  <1> DEFINE of == Changed(check.resume, "here") \cap check.known \cap check.live
  <1>1. /\ UNCHANGED <<server, highest, cached, flags, saved, ledger, speaks, lane>> /\ Quiet
        /\ check \in Checks /\ check.step = "changed"
    BY QuietState DEF FetchChanged
  <1>2. /\ check.resume = saved /\ saved # 0 /\ saved <= highest /\ check.modseq <= highest
        /\ check.slow = {} /\ \A i \in 1..Len(queue) : queue[i].is # "state"
    BY <1>1 DEF StateIInv, OneState, FolderIInv, ItemsFollowSteps
  <1>3. of \in SUBSET Uids /\ Shown \in [Uids -> SUBSET Fields] /\ \A u \in of : UpToDate(u, Shown[u])
    BY ServerFields, ShownIsFresh
  <1>4. \A u \in Vouched(check.modseq) : Awaited(u) => Told(u) \/ u \in of
    <2>1. saved \in Nat /\ \A u \in Uids : server[u].mod \in Nat
      BY DEF CheckTypeOK
    <2>2. QED BY <1>1, <1>2, <2>1 DEF Vouched, Here, Told, Changed, Awaited
  <1> HIDE DEF of
  <1>5. CASE /\ check' = [check EXCEPT !.step = "fetch", !.listed = check.live \ check.known]
             /\ Send(FlagItem(of, Shown))
    <2>1. /\ check'.step = "fetch" /\ check'.modseq = check.modseq /\ check'.slow = {} /\ Keeps
      BY <1>1, <1>2, <1>5 DEF Checks, Keeps
    <2>2. /\ ItemsAreFresh' /\ StateIsTold'
          /\ \A i \in 1..Len(queue') : queue'[i].is = "state" => i \in 1..Len(queue) /\ queue'[i] = queue[i]
      BY <1>1, <1>3, <1>4, <1>5, <2>1, FlagsAreTold
    <2>3. SeenIsFresh' /\ OneState'
      BY <1>1, <1>2, <2>1, <2>2 DEF SeenIsFresh, OneState, Listing
    <2>4. QED BY <2>2, <2>3 DEF StateIInv
  <1>6. CASE check' = [check EXCEPT !.step = "fetch"] /\ UNCHANGED queue
    <2>1. /\ check'.step = "fetch" /\ check'.modseq = check.modseq /\ check'.slow = {} /\ Keeps
          /\ check'.listed = check.listed
      BY <1>1, <1>2, <1>6 DEF Checks, Keeps
    <2>2. \A u \in Vouched(check.modseq) : Awaited(u) => Told(u) \/ Awaited(u)'
      BY <1>1, <2>1 DEF Awaited, Keeps
    <2>3. ItemsAreFresh' /\ StateIsTold'
      BY <1>1, <1>6, <2>1, <2>2, NothingIsTold
    <2>4. SeenIsFresh' /\ OneState'
      BY <1>1, <1>2, <1>6, <2>1 DEF SeenIsFresh, OneState, Listing
    <2>5. QED BY <2>3, <2>4 DEF StateIInv
  <1>7. QED BY <1>5, <1>6 DEF FetchChanged, Step, of

LEMMA MetadataState == CheckTypeOK /\ FolderIInv /\ StateIInv /\ FetchMetadata => StateIInv'
  <1> SUFFICES ASSUME CheckTypeOK, FolderIInv, StateIInv, FetchMetadata PROVE StateIInv'
    OBVIOUS
  <1>1. /\ UNCHANGED <<server, highest, cached, flags, saved, ledger, speaks, lane>> /\ Quiet
        /\ check \in Checks /\ check.step = "fetch"
    BY QuietState DEF FetchMetadata
  <1>2. /\ saved <= highest /\ check.modseq <= highest
        /\ check.slow = {} /\ \A i \in 1..Len(queue) : queue[i].is # "state"
    BY <1>1 DEF StateIInv, OneState, FolderIInv, ItemsFollowSteps
  <1>3. PICK new, of, sizes :
          /\ new = (check.listed \cap Here) \ check.known
          /\ of = (check.listed \cap Here) \cap check.known
          /\ sizes = [u \in Uids |-> IF u \in new \cap Staged THEN server[u].flags ELSE {}]
    OBVIOUS
  <1>4. /\ check' = [check EXCEPT !.step = IF new \cap Inline = {} THEN "close" ELSE "bodies",
                        !.listed = new \cap Inline, !.slow = new \ Inline, !.seen = sizes]
        /\ Send(FlagItem(of, Shown))
    BY <1>3 DEF FetchMetadata, Step
  <1>5. /\ check'.step \in {"close", "bodies"} /\ check'.modseq = check.modseq /\ Keeps
        /\ check'.slow = new \ Inline /\ check'.seen = sizes
    BY <1>1, <1>4 DEF Checks, Keeps
  <1>6. of \in SUBSET Uids /\ Shown \in [Uids -> SUBSET Fields] /\ \A u \in of : UpToDate(u, Shown[u])
    BY <1>3, ServerFields, ShownIsFresh
  <1>7. \A u \in Vouched(check.modseq) : Awaited(u) => Told(u) \/ u \in of
    BY <1>1, <1>3 DEF Vouched, Awaited
  <1>8. /\ ItemsAreFresh' /\ StateIsTold'
        /\ \A u, v : UpToDate(u, v) => UpToDate(u, v)'
        /\ \A i \in 1..Len(queue') : queue'[i].is = "state" => i \in 1..Len(queue) /\ queue'[i] = queue[i]
    BY <1>1, <1>4, <1>5, <1>6, <1>7, FlagsAreTold
  <1>9. SeenIsFresh'
    <2>1. ASSUME NEW u \in check'.slow \cap Staged PROVE check'.seen[u] = server'[u].flags
      <3>1. u \in Uids /\ u \in new \cap Staged
        BY <1>3, <1>5, <2>1, ServerFields
      <3>2. sizes[u] = server[u].flags
        BY <1>3, <3>1
      <3>3. QED BY <1>1, <1>5, <3>2
    <2>2. Staged' = Staged
      BY <1>1 DEF Staged
    <2>3. QED BY <1>5, <2>1, <2>2 DEF SeenIsFresh, UpToDate
  <1>10. OneState'
    BY <1>1, <1>2, <1>5, <1>8 DEF OneState, Listing
  <1>11. QED BY <1>8, <1>9, <1>10 DEF StateIInv

LEMMA BodiesState == CheckTypeOK /\ FolderIInv /\ StateIInv /\ (FetchBodies \/ FetchSlow) => StateIInv'
  <1> SUFFICES ASSUME CheckTypeOK, FolderIInv, StateIInv, FetchBodies \/ FetchSlow PROVE StateIInv'
    OBVIOUS
  <1>1. /\ UNCHANGED <<server, highest, cached, flags, saved, ledger, speaks, lane>> /\ Quiet /\ Keeps
        /\ check \in Checks /\ check.step \in {"bodies", "slow"}
    BY QuietState, BodiesShape, SlowShape DEF FetchBodies, FetchSlow
  <1>2. PICK of \in {check.listed, check.slow} : SendsBodies(of)
    BY BodiesShape, SlowShape
  <1>3. PICK t \in Seq(Items) :
          /\ queue' = queue \o t
          /\ \A i \in 1..Len(t) :
                /\ t[i].is = "message" /\ t[i].uid \in of \cap Here
                /\ \/ t[i].shows = server[t[i].uid].flags
                   \/ t[i].uid \in Staged \cap check.slow /\ t[i].shows = check.seen[t[i].uid]
    BY <1>2 DEF SendsBodies
  <1>4. \A i \in 1..Len(t) : t[i].is = "message" /\ UpToDate(t[i].uid, t[i].shows)
    BY <1>3 DEF StateIInv, SeenIsFresh, UpToDate
  <1>5. /\ saved <= highest /\ check.modseq <= highest /\ (check.step = "slow" => check.modseq = 0)
    BY DEF StateIInv, OneState, Listing
  <1>6. /\ check'.modseq = check.modseq /\ check'.slow \subseteq check.slow
        /\ check'.seen = check.seen \/ check'.slow = {}
        /\ \/ check'.step = "close" /\ check.step = "bodies"
           \/ check'.step \in {"slow", "end"} /\ check.step = "slow"
    <2>1. CASE FetchBodies
      <3>1. check' = [check EXCEPT !.step = "close", !.listed = {}] /\ check.step = "bodies"
        BY <2>1 DEF FetchBodies, Step
      <3>2. QED BY <1>1, <3>1 DEF Checks
    <2>2. CASE FetchSlow
      <3>1. PICK u : check' = Over \/ check' = [check EXCEPT !.slow = @ \ {u}]
        BY <2>2 DEF FetchSlow, Step
      <3>2. check.step = "slow" /\ check.modseq = 0
        BY <1>5, <2>2 DEF FetchSlow
      <3>3. CASE check' = Over
        BY <3>2, <3>3 DEF Over, Resting
      <3>4. CASE check' = [check EXCEPT !.slow = @ \ {u}]
        BY <1>1, <3>2, <3>4 DEF Checks
      <3>5. QED BY <3>1, <3>3, <3>4
    <2>3. QED BY <2>1, <2>2
  <1>7. /\ \A i \in 1..Len(queue') : queue'[i].is = "state" => i \in 1..Len(queue) /\ queue'[i] = queue[i]
        /\ \A u, v : UpToDate(u, v) => UpToDate(u, v)'
        /\ \A i \in 1..Len(queue) : i \in 1..Len(queue') /\ queue'[i] = queue[i]
    BY <1>1, <1>3, <1>4, <1>6, QueueGrows
  <1>8. \A u : ~Awaited(u)
    BY <1>1 DEF Awaited
  <1>9. ItemsAreFresh' /\ StateIsTold'
    <2>1. check'.step \notin {"select", "resync", "search"}
      BY <1>6
    <2>2. QED BY <1>1, <1>3, <1>4, <1>6, <1>8, <2>1, StateGoesOn
  <1>10. SeenIsFresh'
    <2>1. PICK seen, slow : seen = check.seen /\ slow = check'.slow
      OBVIOUS
    <2>2. \A u \in check.slow \cap Staged : UpToDate(u, seen[u])'
      BY <1>7, <2>1 DEF StateIInv, SeenIsFresh
    <2>3. Staged' = Staged
      BY <1>1 DEF Staged
    <2>4. check'.step \notin {"idle", "read", "select", "resync", "search"}
      BY <1>6
    <2>5. QED BY <1>6, <2>1, <2>2, <2>3, <2>4 DEF SeenIsFresh, UpToDate
  <1>11. OneState'
    <2>1. \A i \in 1..Len(queue) : queue[i].is = "state" =>
             /\ check.step = "slow" /\ queue[i].modseq <= highest
             /\ \A j \in 1..Len(queue) : queue[j].is = "state" => j = i
      BY <1>1 DEF StateIInv, OneState
    <2>2. QED BY <1>1, <1>5, <1>6, <1>7, <2>1 DEF OneState
  <1>12. QED BY <1>9, <1>10, <1>11 DEF StateIInv

LEMMA CloseState == CheckTypeOK /\ FolderIInv /\ StateIInv /\ Close => StateIInv'
  <1> SUFFICES ASSUME CheckTypeOK, FolderIInv, StateIInv, Close PROVE StateIInv'
    OBVIOUS
  <1>1. /\ UNCHANGED <<server, highest, cached, flags, saved, ledger, speaks, lane>> /\ Quiet /\ Keeps
        /\ check \in Checks /\ check.step = "close"
    BY QuietState, CloseShape DEF Close
  <1>2. check' = [check EXCEPT !.step = "slow", !.whole = FALSE, !.live = {}, !.lost = {},
                               !.resume = 0, !.modseq = 0, !.plan = "full", !.there = {}]
    BY DEF Close, Step
  <1>3. check'.step = "slow" /\ check'.modseq = 0 /\ check'.slow = check.slow /\ check'.seen = check.seen
    BY <1>1, <1>2 DEF Checks
  <1>4. PICK t \in Seq(Items) : Closes(t)
    BY CloseShape
  <1>5. /\ queue' = queue \o t
        /\ \A k \in 1..Len(t) : /\ t[k].is \in {"state", "reconcile", "vanished"}
                                /\ t[k].is = "state" => k = Len(t) /\ t[k].modseq = check.modseq
    BY <1>4 DEF Closes
  <1>6. \A i \in 1..Len(queue) : queue[i].is \in {"flags", "message"}
    BY <1>1 DEF FolderIInv, ItemsFollowSteps
  <1>7. /\ Len(queue) \in Nat /\ Len(t) \in Nat
        /\ \A i \in 1..Len(queue) : i \in 1..Len(queue') /\ queue'[i] = queue[i]
        /\ \A i \in 1..Len(queue') :
              \/ i \in 1..Len(queue) /\ queue'[i] = queue[i]
              \/ \E k \in 1..Len(t) : queue'[i] = t[k] /\ i = Len(queue) + k
    <2>1. Len(queue) \in Nat /\ Len(t) \in Nat /\ queue \in Seq(Items)
      BY LenProperties DEF CheckTypeOK
    <2>2. QED BY <1>5, <2>1, SentItems
  <1>8. \A i \in 1..Len(queue') :
           queue'[i].is = "state" => i = Len(queue) + Len(t) /\ queue'[i].modseq = check.modseq
    <2>1. ASSUME NEW i \in 1..Len(queue'), queue'[i].is = "state"
          PROVE  i = Len(queue) + Len(t) /\ queue'[i].modseq = check.modseq
      <3>1. CASE i \in 1..Len(queue) /\ queue'[i] = queue[i]
        BY <1>6, <2>1, <3>1
      <3>2. ASSUME NEW k \in 1..Len(t), queue'[i] = t[k], i = Len(queue) + k
            PROVE  i = Len(queue) + Len(t) /\ queue'[i].modseq = check.modseq
        BY <1>5, <2>1, <3>2
      <3>3. QED BY <1>7, <3>1, <3>2
    <2>2. QED BY <2>1
  <1>9. /\ saved <= highest /\ check.modseq <= highest /\ saved \in Nat /\ highest \in Nat
        /\ \A u \in Uids : server[u].mod \in Nat
    BY DEF CheckTypeOK, StateIInv, OneState
  <1>10. \A u \in Uids : \A v : UpToDate(u, v) => UpToDate(u, v)'
    BY <1>1, <1>3, <1>8, <1>9 DEF UpToDate
  <1>11. ItemsAreFresh'
    <2>1. ASSUME NEW i \in 1..Len(queue'), queue'[i].is \in {"flags", "message"}
          PROVE  i \in 1..Len(queue) /\ queue'[i] = queue[i]
      BY <1>5, <1>7, <2>1
    <2>2. ASSUME NEW i \in 1..Len(queue), NEW item, item = queue[i]
          PROVE  /\ item.is = "flags" => item.of \in SUBSET Uids /\ \A u \in item.of : UpToDate(u, item.flags[u])
                 /\ item.is = "message" => item.uid \in Uids /\ UpToDate(item.uid, item.shows)
      <3>1. item \in Items
        BY <2>2, LenProperties, ElementOfSeq DEF CheckTypeOK
      <3>2. QED BY <2>2, <3>1, ItemFields DEF StateIInv, ItemsAreFresh
    <2>3. ASSUME NEW i \in 1..Len(queue'), NEW item, item = queue'[i]
          PROVE  /\ item.is = "flags" => \A u \in item.of : UpToDate(u, item.flags[u])'
                 /\ item.is = "message" => UpToDate(item.uid, item.shows)'
      BY <1>10, <2>1, <2>2, <2>3
    <2>4. QED BY <2>3 DEF ItemsAreFresh, UpToDate
  <1>12. SeenIsFresh'
    <2>1. PICK seen : seen = check.seen
      OBVIOUS
    <2>2. \A u \in check.slow \cap Staged : UpToDate(u, seen[u])'
      BY <1>10, <2>1, CheckFields DEF StateIInv, SeenIsFresh
    <2>3. Staged' = Staged
      BY <1>1 DEF Staged
    <2>4. QED BY <1>3, <2>1, <2>2, <2>3 DEF SeenIsFresh, UpToDate
  <1>13. OneState'
    BY <1>1, <1>3, <1>8, <1>9 DEF OneState
  <1>14. StateIsTold'
    <2>1. \A u : Told(u) <=> Told(u)'
      BY <1>1 DEF Told, HoldsFolderState, Outranks, Keeps
    <2>2. \A u \in Vouched(check.modseq) : Told(u) \/ Carries(u, Len(queue))
      BY <1>1 DEF StateIInv, StateIsTold, Awaited
    <2>3. ASSUME NEW i \in 1..Len(queue'), queue'[i].is = "state", NEW u \in Vouched(queue'[i].modseq)
          PROVE  Told(u)' \/ Carries(u, i)'
      <3>1. i = Len(queue) + Len(t) /\ u \in Vouched(check.modseq)
        BY <1>8, <2>3
      <3>2. Carries(u, Len(queue)) => Carries(u, i)'
        BY <1>7, <3>1 DEF Carries
      <3>3. QED BY <2>1, <2>2, <3>1, <3>2
    <2>4. \A i \in 1..Len(queue') : queue'[i].is = "state" =>
             \A u \in Vouched(queue[i].modseq)' : Told(u)' \/ Carries(u, i)'
      BY <1>1, <2>3 DEF Vouched, Here
    <2>5. QED BY <1>3, <2>4 DEF StateIsTold, Vouched
  <1>15. QED BY <1>11, <1>12, <1>13, <1>14 DEF StateIInv

LEMMA StopState == CheckTypeOK /\ FolderIInv /\ StateIInv /\ Stop => StateIInv'
  <1> SUFFICES ASSUME CheckTypeOK, FolderIInv, StateIInv, Stop PROVE StateIInv'
    OBVIOUS
  <1>1. UNCHANGED <<server, highest, cached, flags, saved, ledger>>
    BY DEF Stop, remote, Local, book
  <1>2. /\ check'.step = "end" /\ check'.modseq = 0 /\ check'.slow = {} /\ check'.epoch = check.epoch
    BY DEF Stop, Step, Over, Resting
  <1>3. /\ Len(queue) \in Nat /\ Len(queue') \in Nat /\ Len(queue') <= Len(queue)
        /\ \A i \in 1..Len(queue') : queue'[i] = queue[i] /\ i \in 1..Len(queue)
    <2>1. Len(queue) \in Nat /\ Len(queue') \in Nat
      BY StopShape, LenProperties DEF CheckTypeOK
    <2>2. Len(queue') <= Len(queue) /\ \A i \in 1..Len(queue') : queue'[i] = queue[i]
      BY StopShape
    <2>3. QED BY <2>1, <2>2
  <1>4. /\ saved <= highest /\ saved \in Nat /\ \A u \in Uids : server[u].mod \in Nat
        /\ highest \in Nat
    BY DEF CheckTypeOK, StateIInv, OneState
  <1>5. \A u \in Uids : \A v : UpToDate(u, v) => UpToDate(u, v)'
    BY <1>1, <1>2, <1>3, <1>4 DEF UpToDate
  <1>6. ItemsAreFresh'
    <2>1. ASSUME NEW i \in 1..Len(queue), NEW item, item = queue[i]
          PROVE  /\ item.is = "flags" => item.of \in SUBSET Uids /\ \A u \in item.of : UpToDate(u, item.flags[u])
                 /\ item.is = "message" => item.uid \in Uids /\ UpToDate(item.uid, item.shows)
      <3>1. item \in Items
        BY <2>1, LenProperties, ElementOfSeq DEF CheckTypeOK
      <3>2. QED BY <2>1, <3>1, ItemFields DEF StateIInv, ItemsAreFresh
    <2>2. ASSUME NEW i \in 1..Len(queue'), NEW item, item = queue'[i]
          PROVE  /\ item.is = "flags" => \A u \in item.of : UpToDate(u, item.flags[u])'
                 /\ item.is = "message" => UpToDate(item.uid, item.shows)'
      BY <1>3, <1>5, <2>1, <2>2
    <2>3. QED BY <2>2 DEF ItemsAreFresh, UpToDate
  <1>7. SeenIsFresh' /\ OneState'
    BY <1>1, <1>2, <1>3, <1>4 DEF SeenIsFresh, OneState, StateIInv
  <1>8. StateIsTold'
    <2>1. \A u : Told(u) <=> Told(u)'
      BY <1>1, <1>2 DEF Told, HoldsFolderState, Outranks
    <2>2. ASSUME NEW i \in 1..Len(queue'), queue'[i].is = "state", NEW u \in Vouched(queue'[i].modseq)
          PROVE  Told(u)' \/ Carries(u, i)'
      <3>1. Told(u) \/ Carries(u, i)
        BY <1>3, <2>2 DEF StateIInv, StateIsTold
      <3>2. Carries(u, i) => Carries(u, i)'
        BY <1>3 DEF Carries
      <3>3. QED BY <2>1, <3>1, <3>2
    <2>3. \A i \in 1..Len(queue') : queue'[i].is = "state" =>
             \A u \in Vouched(queue[i].modseq)' : Told(u)' \/ Carries(u, i)'
      BY <1>1, <2>2 DEF Vouched, Here
    <2>4. QED BY <1>2, <2>3 DEF StateIsTold, Vouched
  <1>9. QED BY <1>6, <1>7, <1>8 DEF StateIInv

(* What applying the first item does to the flags of a row.                   *)
LEMMA AppliedFlags ==
    ASSUME CheckTypeOK, FolderIInv, StateIInv, Apply
    PROVE  /\ UNCHANGED <<server, highest, ledger, check, speaks, lane>>
           /\ queue # <<>> /\ queue' = Tail(queue)
           /\ queue[1].is # "state" => saved' = saved
           /\ queue[1].is = "state" =>
                 /\ UNCHANGED <<cached, flags>>
                 /\ \/ saved' = queue[1].modseq /\ (saved' # 0 => ~HoldsFolderState(check.epoch))
                    \/ saved' = saved /\ HoldsFolderState(check.epoch)
           /\ \A u \in cached' :
                 \/ UpToDate(u, flags'[u])
                 \/ /\ u \in cached /\ flags'[u] = flags[u]
                    /\ queue[1].is = "flags" /\ u \in queue[1].of => HoldsFolderState(check.epoch)
  <1>1. /\ UNCHANGED <<server, highest, ledger, check, speaks, lane>> /\ queue # <<>> /\ queue' = Tail(queue)
        /\ Item = queue[1]
    BY DEF Apply, Item, remote, book, kinds
  <1>2. queue[1] \in Items /\ 1 \in 1..Len(queue)
    BY <1>1, AppliedItem DEF CheckTypeOK
  <1>3. flags \in [Uids -> SUBSET Fields] /\ cached \subseteq Uids
    BY DEF CheckTypeOK
  <1>4. \A u, kind : Outranked(u, kind, check.epoch) => HoldsFolderState(check.epoch)
    BY DEF Outranked, HoldsFolderState
  <1>5. /\ queue[1].is # "state" => saved' = saved
        /\ queue[1].is = "state" =>
              /\ UNCHANGED <<cached, flags>>
              /\ \/ saved' = queue[1].modseq /\ (saved' # 0 => ~HoldsFolderState(check.epoch))
                 \/ saved' = saved /\ HoldsFolderState(check.epoch)
    BY <1>1 DEF Apply, ApplyFlags, ApplyMessage, ApplyRemoval, ApplyState, rows
  <1>6. ASSUME NEW u \in cached'
        PROVE  \/ UpToDate(u, flags'[u])
               \/ /\ u \in cached /\ flags'[u] = flags[u]
                  /\ queue[1].is = "flags" /\ u \in queue[1].of => HoldsFolderState(check.epoch)
    <2>1. CASE ApplyFlags
      <3>1. u \in cached /\ u \in Uids
        BY <1>3, <1>6, <2>1 DEF ApplyFlags
      <3>2. CASE u \in queue[1].of /\ ~Outranked(u, "flags", check.epoch)
        <4>1. flags'[u] = queue[1].flags[u]
          BY <1>1, <2>1, <3>1, <3>2 DEF ApplyFlags
        <4>2. UpToDate(u, queue[1].flags[u])
          BY <1>1, <1>2, <2>1, <3>2 DEF ApplyFlags, StateIInv, ItemsAreFresh
        <4>3. QED BY <4>1, <4>2
      <3>3. CASE ~(u \in queue[1].of /\ ~Outranked(u, "flags", check.epoch))
        <4>1. flags'[u] = flags[u]
          BY <1>1, <2>1, <3>1, <3>3 DEF ApplyFlags
        <4>2. QED BY <1>4, <3>1, <3>3, <4>1
      <3>4. QED BY <3>2, <3>3
    <2>2. CASE ApplyMessage
      <3>1. queue[1].is = "message" /\ UpToDate(queue[1].uid, queue[1].shows)
        BY <1>1, <1>2, <2>2 DEF ApplyMessage, StateIInv, ItemsAreFresh
      <3>2. queue[1].uid \in Uids
        BY <1>2, <3>1, ItemFields
      <3>3. CASE UNCHANGED rows
        BY <1>6, <3>1, <3>3 DEF rows
      <3>4. CASE /\ cached' = cached \cup {Item.uid}
                 /\ flags' = [flags EXCEPT ![Item.uid] = Item.shows]
        <4>1. CASE u = queue[1].uid
          <5>1. flags'[u] = queue[1].shows
            BY <1>1, <1>3, <3>2, <3>4, <4>1
          <5>2. QED BY <3>1, <4>1, <5>1
        <4>2. CASE u # queue[1].uid
          BY <1>1, <1>3, <1>6, <3>1, <3>4, <4>2
        <4>3. QED BY <4>1, <4>2
      <3>5. QED BY <2>2, <3>3, <3>4 DEF ApplyMessage
    <2>3. CASE ApplyRemoval
      <3>1. u \in cached /\ flags'[u] = flags[u] /\ queue[1].is # "flags"
        BY <1>1, <1>3, <1>6, <2>3 DEF ApplyRemoval
      <3>2. QED BY <3>1
    <2>4. CASE ApplyState
      BY <1>1, <1>6, <2>4 DEF ApplyState, rows
    <2>5. QED BY <2>1, <2>2, <2>3, <2>4 DEF Apply
  <1>7. QED BY <1>1, <1>5, <1>6

LEMMA ApplyStateInv == CheckTypeOK /\ FolderIInv /\ StateIInv /\ Apply => StateIInv'
  <1> SUFFICES ASSUME CheckTypeOK, FolderIInv, StateIInv, Apply PROVE StateIInv'
    OBVIOUS
  <1>1. /\ UNCHANGED <<server, highest, ledger, check, speaks, lane>>
        /\ queue # <<>> /\ queue' = Tail(queue)
        /\ queue[1].is # "state" => saved' = saved
        /\ queue[1].is = "state" =>
              /\ UNCHANGED <<cached, flags>>
              /\ \/ saved' = queue[1].modseq /\ (saved' # 0 => ~HoldsFolderState(check.epoch))
                 \/ saved' = saved /\ HoldsFolderState(check.epoch)
        /\ \A u \in cached' :
              \/ UpToDate(u, flags'[u])
              \/ /\ u \in cached /\ flags'[u] = flags[u]
                 /\ queue[1].is = "flags" /\ u \in queue[1].of => HoldsFolderState(check.epoch)
    BY AppliedFlags
  <1>2. /\ Len(queue') = Len(queue) - 1 /\ Len(queue) >= 1 /\ Len(queue) \in Nat /\ 1 \in 1..Len(queue)
        /\ \A i \in 1..Len(queue') : queue'[i] = queue[i + 1] /\ i + 1 \in 1..Len(queue)
    BY <1>1, AppliedItem DEF CheckTypeOK
  <1>3. /\ saved \in Nat /\ highest \in Nat /\ saved <= highest /\ check.modseq <= highest
        /\ \A u \in Uids : server[u].mod \in Nat
        /\ cached \subseteq Uids /\ cached' \subseteq Uids
    BY ApplyType DEF CheckTypeOK, StateIInv, OneState
  <1>4. check.step \notin Early
    BY <1>1 DEF FolderIInv, ItemsFollowSteps
  <1>5. queue[1].is = "state" =>
           /\ check.step \in {"slow", "end"} /\ check.modseq = 0 /\ queue[1].modseq <= highest
           /\ \A j \in 1..Len(queue) : queue[j].is = "state" => j = 1
    BY <1>2, CheckFields DEF StateIInv, OneState, Listing
  <1>6. \A u, v : UpToDate(u, v) => UpToDate(u, v)'
    BY <1>1, <1>2 DEF UpToDate
  <1>7. ItemsAreFresh'
    <2>1. ASSUME NEW i \in 1..Len(queue'), NEW item, item = queue'[i]
          PROVE  /\ item.is = "flags" => \A u \in item.of : UpToDate(u, item.flags[u])
                 /\ item.is = "message" => UpToDate(item.uid, item.shows)
      BY <1>2, <2>1 DEF StateIInv, ItemsAreFresh
    <2>2. ASSUME NEW i \in 1..Len(queue'), NEW item, item = queue'[i]
          PROVE  /\ item.is = "flags" => \A u \in item.of : UpToDate(u, item.flags[u])'
                 /\ item.is = "message" => UpToDate(item.uid, item.shows)'
      BY <1>6, <2>1, <2>2
    <2>3. QED BY <2>2 DEF ItemsAreFresh, UpToDate
  <1>8. SeenIsFresh'
    <2>1. PICK seen : seen = check.seen
      OBVIOUS
    <2>2. \A u \in check.slow \cap Staged : UpToDate(u, seen[u])'
      BY <1>6, <2>1 DEF StateIInv, SeenIsFresh
    <2>3. Staged' = Staged
      BY <1>1 DEF Staged
    <2>4. QED BY <1>1, <1>4, <2>1, <2>2, <2>3 DEF SeenIsFresh, UpToDate, Early
  <1>9. OneState'
    <2>1. ASSUME NEW i \in 1..Len(queue'), queue'[i].is = "state"
          PROVE  /\ check.step \in {"slow", "end"} /\ queue'[i].modseq <= highest
                 /\ \A j \in 1..Len(queue') : queue'[j].is = "state" => j = i
      <3>1. /\ check.step \in {"slow", "end"} /\ queue[i + 1].modseq <= highest /\ i \in Nat
            /\ \A j \in 1..Len(queue) : queue[j].is = "state" => j = i + 1
        BY <1>2, <2>1 DEF StateIInv, OneState
      <3>2. \A j \in 1..Len(queue') : queue'[j].is = "state" => j + 1 = i + 1 /\ j \in Nat
        BY <1>2, <3>1, SMTT(30)
      <3>3. QED BY <1>2, <2>1, <3>1, <3>2
    <2>2. check.step = "changed" => saved' = saved
      BY <1>1, <1>5
    <2>3. saved' <= highest
      BY <1>1, <1>3, <1>5
    <2>4. QED BY <1>1, <1>3, <1>4, <2>1, <2>2, <2>3 DEF OneState, StateIInv, Early
  <1>10. StateIsTold'
    <2>0. HoldsFolderState(check.epoch)' <=> HoldsFolderState(check.epoch)
      BY <1>1 DEF HoldsFolderState, Outranks
    <2>1. ASSUME NEW m \in Nat, queue[1].is # "state", NEW u \in Vouched(m)',
                 m = check.modseq \/ \E i \in 1..Len(queue) : queue[i].is = "state" /\ m = queue[i].modseq
          PROVE  \/ Told(u)'
                 \/ /\ u \in Vouched(m) /\ (Told(u) => Told(u)')
                    /\ queue[1].is = "flags" => u \notin queue[1].of
      <3>1. u \in Uids /\ u \in cached' /\ server[u].is = "here" /\ m # 0 /\ server[u].mod <= m
        BY <1>1, <2>1 DEF Vouched, Here
      <3>2. CASE UpToDate(u, flags'[u])
        <4>1. ~(server[u].mod > m)
          BY <1>3, <3>1
        <4>2. flags'[u] = server[u].flags
          BY <2>1, <3>2, <4>1 DEF UpToDate
        <4>3. QED BY <1>1, <4>2 DEF Told
      <3>3. CASE HoldsFolderState(check.epoch)
        BY <2>0, <3>3 DEF Told
      <3>4. CASE /\ u \in cached /\ flags'[u] = flags[u]
                 /\ queue[1].is = "flags" => u \notin queue[1].of
        BY <1>1, <2>0, <2>1, <3>1, <3>4 DEF Vouched, Told, Here
      <3>5. QED BY <1>1, <3>1, <3>2, <3>3, <3>4
    <2>2. ASSUME NEW n \in 0..Len(queue'), NEW u, Carries(u, n + 1),
                 queue[1].is = "flags" => u \notin queue[1].of
          PROVE  Carries(u, n)'
      <3>1. PICK i \in 1..n + 1 : queue[i].is = "flags" /\ u \in queue[i].of
        BY <2>2 DEF Carries
      <3>2. i # 1 /\ i - 1 \in 1..n /\ (i - 1) + 1 = i /\ i - 1 \in 1..Len(queue')
        BY <1>2, <2>2, <3>1
      <3>3. queue'[i - 1] = queue[i]
        BY <1>2, <3>2
      <3>4. QED BY <3>1, <3>2, <3>3 DEF Carries
    <2>3. \A u \in Vouched(check.modseq)' : Told(u)' \/ Carries(u, Len(queue))' \/ Awaited(u)'
      <3>1. CASE queue[1].is = "state"
        BY <1>1, <1>5, <3>1 DEF Vouched
      <3>2. CASE queue[1].is # "state"
        <4>1. PICK m \in Nat, n \in 0..Len(queue') : m = check.modseq /\ n = Len(queue') /\ n + 1 = Len(queue)
          BY <1>2, CheckFields
        <4>2. \A u \in Vouched(m) : Told(u) \/ Carries(u, n + 1) \/ Awaited(u)
          BY <4>1 DEF StateIInv, StateIsTold
        <4>3. \A u : Awaited(u) => Awaited(u)'
          BY <1>1 DEF Awaited, Qresync
        <4>4. ASSUME NEW u \in Vouched(m)' PROVE Told(u)' \/ Carries(u, n)' \/ Awaited(u)'
          BY <2>1, <2>2, <3>2, <4>1, <4>2, <4>3, <4>4
        <4>5. m = check'.modseq /\ n = Len(queue')
          BY <1>1, <4>1
        <4>6. QED BY <4>4, <4>5 DEF Carries, Vouched
      <3>3. QED BY <3>1, <3>2
    <2>4. ASSUME NEW i \in 1..Len(queue'), queue'[i].is = "state"
          PROVE  \A u \in Vouched(queue[i].modseq)' : Told(u)' \/ Carries(u, i)'
      <3>1. queue[i + 1].is = "state" /\ i + 1 \in 1..Len(queue) /\ queue'[i] = queue[i + 1] /\ i \in 0..Len(queue')
            /\ i + 1 # 1
        BY <1>2, <2>4
      <3>2. queue[1].is # "state"
        BY <1>5, <3>1
      <3>3. PICK m \in Nat : m = queue[i + 1].modseq
        <4>1. queue[i + 1] \in Items
          BY <3>1, LenProperties, ElementOfSeq DEF CheckTypeOK
        <4>2. QED BY <3>1, <4>1, ItemFields
      <3>4. \A u \in Vouched(m) : Told(u) \/ Carries(u, i + 1)
        BY <3>1, <3>3 DEF StateIInv, StateIsTold
      <3>5. ASSUME NEW u \in Vouched(m)' PROVE Told(u)' \/ Carries(u, i)'
        BY <2>1, <2>2, <3>1, <3>2, <3>3, <3>4, <3>5
      <3>6. m = queue'[i].modseq
        BY <3>1, <3>3
      <3>7. QED BY <3>5, <3>6 DEF Vouched
    <2>5. QED BY <1>1, <1>4, <2>3, <2>4 DEF StateIsTold, Early
  <1>11. QED BY <1>7, <1>8, <1>9, <1>10 DEF StateIInv

(* StateIInv is inductive with it.                                           *)
LEMMA NextStateInv == CheckTypeOK /\ FolderIInv /\ StateIInv /\ WritesFit' /\ [CheckNext]_checkVars => StateIInv'
  <1> SUFFICES ASSUME CheckTypeOK, FolderIInv, StateIInv, WritesFit', [CheckNext]_checkVars PROVE StateIInv'
    OBVIOUS
  <1>1. CASE Provider
    BY <1>1, BeginState, SelectState, ResyncState, SearchState, ChangedState, MetadataState,
       BodiesState, CloseState, EndState DEF Provider
  <1>2. CASE UNCHANGED checkVars
    <2>1. UNCHANGED <<remote, cached, flags, saved, ledger, check, queue, speaks, lane>>
      BY <1>2 DEF checkVars, rows, book, kinds
    <2>2. CheckTypeOK'
      BY <1>2, NextFolderType
    <2>3. QED BY <2>1, <2>2, SameIsNewest, StateBeside
  <1>3. QED
    BY <1>1, <1>2, OtherState, UserState, AnswerState, ApplyStateInv, StopState, EndState DEF CheckNext

(* A request begins, is carried out, or ends: none of these is a step of a    *)
(* check.                                                                     *)
LEMMA WriteMoves == CheckTypeOK /\ (User \/ Answer) => write' # write
  <1> SUFFICES ASSUME CheckTypeOK, User \/ Answer PROVE write' # write
    OBVIOUS
  <1>1. NoWrite.op = "none"
    BY FolderKinds
  <1>2. CASE User
    <2>1. write = NoWrite /\ write'.op \in {"flags", "away", "in"}
      BY <1>2 DEF User, AskFlags, AskAway, AskIn, Ask
    <2>2. QED BY <1>1, <2>1
  <1>3. CASE Execute
    <2>1. write \in Writes /\ ~write.done /\ write' = [write EXCEPT !.done = TRUE]
      BY <1>3 DEF Execute, CheckTypeOK
    <2>2. write'.done
      BY <2>1 DEF Writes
    <2>3. QED BY <2>1, <2>2
  <1>4. CASE GiveUp
    BY <1>4 DEF GiveUp
  <1>5. CASE CommitFlags \/ CommitAway \/ CommitIn
    BY <1>1, <1>5 DEF CommitFlags, CommitAway, CommitIn
  <1>6. QED BY <1>2, <1>3, <1>4, <1>5 DEF Answer

(* What another client changes is newer than every saved state.               *)
LEMMA OtherKeepsState ==
    ASSUME CheckTypeOK, StateIInv, OtherClient, NEW u \in Uids, FlagsTold(u)
    PROVE  FlagsTold(u)'
  <1>1. UNCHANGED <<cached, flags, saved>>
    BY DEF OtherClient, rows
  <1>2. saved \in Nat /\ highest \in Nat /\ saved <= highest /\ server[u].mod \in Nat
    BY ServerFields DEF CheckTypeOK, StateIInv, OneState
  <1>3. Newest
    <2>1. \A w \in Uids : server[w].flags \in SUBSET Fields
      BY ServerFields
    <2>2. {} \in SUBSET Fields /\ Arriving \subseteq SUBSET Fields /\ {"here", "gone"} \subseteq Places
      BY ParametersAssumption DEF Places
    <2>3. QED BY <2>1, <2>2, ToggleType, ChangeIsNewest DEF OtherClient, Here
  <1>4. CASE server'[u] = server[u]
    BY <1>1, <1>4 DEF FlagsTold, Here
  <1>5. CASE server'[u].mod > highest
    <2>1. CheckTypeOK'
      BY OtherType
    <2>2. server'[u].mod \in Nat
      BY <2>1 DEF CheckTypeOK
    <2>3. ~(server'[u].mod <= saved')
      BY <1>1, <1>2, <1>5, <2>2
    <2>4. QED BY <2>3 DEF FlagsTold
  <1>6. QED BY <1>3, <1>4, <1>5 DEF Newest

(* An item shows what the server shows; a state is saved only when the row    *)
(* was told, by an item ahead of it or by an earlier state.                   *)
LEMMA ApplyKeepsState ==
    ASSUME CheckTypeOK, FolderIInv, StateIInv, Apply, NEW u \in Uids, FlagsTold(u)
    PROVE  FlagsTold(u)'
  <1>1. UNCHANGED server /\ queue # <<>> /\ 1 \in 1..Len(queue) /\ queue[1] \in Items
    BY AppliedFlags, AppliedItem DEF CheckTypeOK
  <1>2. server[u].mod \in Nat /\ saved \in Nat
    BY ServerFields DEF CheckTypeOK
  <1>3. CASE queue[1].is # "state"
    <2>1. saved' = saved
      BY <1>3, AppliedFlags
    <2>2. SUFFICES ASSUME u \in cached', u \in Here, saved # 0, server[u].mod <= saved
                   PROVE  flags'[u] = server[u].flags
      BY <1>1, <2>1 DEF FlagsTold, Here
    <2>3. UpToDate(u, flags'[u]) \/ (u \in cached /\ flags'[u] = flags[u])
      BY <2>2, AppliedFlags
    <2>4. ~(server[u].mod > saved)
      BY <1>2, <2>2
    <2>5. QED BY <2>2, <2>3, <2>4 DEF UpToDate, FlagsTold
  <1>4. CASE queue[1].is = "state"
    <2>1. UNCHANGED <<cached, flags>>
      BY <1>4, AppliedFlags
    <2>2. CASE saved' = saved
      BY <1>1, <2>1, <2>2 DEF FlagsTold, Here
    <2>3. CASE saved' = queue[1].modseq /\ (saved' # 0 => ~HoldsFolderState(check.epoch))
      <3>1. SUFFICES ASSUME u \in cached, u \in Here, saved' # 0, server[u].mod <= saved'
                     PROVE  flags[u] = server[u].flags
        BY <1>1, <2>1 DEF FlagsTold, Here
      <3>2. u \in Vouched(queue[1].modseq)
        BY <2>3, <3>1 DEF Vouched
      <3>3. Told(u) \/ Carries(u, 1)
        BY <1>1, <1>4, <3>2 DEF StateIInv, StateIsTold
      <3>4. ~Carries(u, 1)
        BY <1>4 DEF Carries
      <3>5. QED BY <2>3, <3>1, <3>3, <3>4 DEF Told, FlagsTold
    <2>4. QED BY <1>4, <2>2, <2>3, AppliedFlags
  <1>5. QED BY <1>3, <1>4

(* No step but a request's own breaks what the state vouches for.            *)
LEMMA KeepStep ==
    CheckTypeOK /\ FolderIInv /\ StateIInv /\ [CheckNext]_checkVars
       => [write' = write => \A u \in Uids : FlagsTold(u) => FlagsTold(u)']_checkVars
  <1> SUFFICES ASSUME CheckTypeOK, FolderIInv, StateIInv, CheckNext, write' = write, NEW u \in Uids, FlagsTold(u)
               PROVE  FlagsTold(u)'
    OBVIOUS
  <1>1. CASE Provider \/ Stop \/ AppCrash
    <2>1. UNCHANGED <<server, cached, flags, saved>>
      BY <1>1 DEF Provider, Begin, Read, Select, Resync, Search, FetchChanged, FetchMetadata,
                  FetchBodies, Close, FetchSlow, Finish, Stop, AppCrash, Quiet, Local, remote, rows
    <2>2. QED BY <2>1 DEF FlagsTold, Here
  <1>2. QED BY <1>1, WriteMoves, OtherKeepsState, ApplyKeepsState DEF CheckNext

Trusted == CheckTypeOK /\ FolderIInv /\ StateIInv

(* The saved state stays true of the rows it vouches for: no check, in        *)
(* whatever order its items meet the user's writes and other clients, saves a *)
(* state or applies a flag that would hide a later change from the next one.  *)
THEOREM ChecksKeepState == CheckSpec /\ []WritesFit => ChecksKeepTheState
  <1>1. CheckInit => Trusted
    BY InitFolderType, FolderInitInv, InitState DEF Trusted
  <1>2. Trusted /\ WritesFit' /\ [CheckNext]_checkVars => Trusted'
    BY NextFolderType, NextFolderInv, NextStateInv DEF Trusted
  <1>3. Trusted /\ [CheckNext]_checkVars => [write' = write => \A u \in Uids : FlagsTold(u) => FlagsTold(u)']_checkVars
    BY KeepStep DEF Trusted
  <1>4. QED BY <1>1, <1>2, <1>3, PTL DEF CheckSpec, ChecksKeepTheState

----------------------------------------------------------------------------
(* When the hypothesis holds. *)

(* Each acknowledged write was begun, and the one in hand is not yet one.     *)
WritesAreBegun == begun <= MaxWrites /\ clock + (IF write = NoWrite THEN 0 ELSE 1) <= begun

LEMMA NextBegun == CheckTypeOK /\ WritesAreBegun /\ [CheckNext]_checkVars => WritesAreBegun'
  <1> SUFFICES ASSUME CheckTypeOK, WritesAreBegun, [CheckNext]_checkVars PROVE WritesAreBegun'
    OBVIOUS
  <1>0. clock \in Nat /\ begun \in Nat /\ MaxWrites \in Nat /\ NoWrite.op = "none"
    BY ParametersAssumption, FolderKinds DEF CheckTypeOK
  <1>1. CASE User
    <2>1. write = NoWrite /\ begun < MaxWrites /\ begun' = begun + 1 /\ clock' = clock
      BY <1>1 DEF User, AskFlags, AskAway, AskIn, Ask, book
    <2>2. QED BY <1>0, <2>1 DEF WritesAreBegun
  <1>2. CASE Execute
    <2>1. write # NoWrite /\ write' # NoWrite /\ UNCHANGED <<clock, begun>>
      BY <1>2, DoneWrite DEF Execute, book
    <2>2. QED BY <1>0, <2>1 DEF WritesAreBegun
  <1>3. CASE GiveUp \/ CommitFlags \/ CommitAway \/ CommitIn
    <2>1. write # NoWrite /\ write' = NoWrite /\ begun' = begun /\ (clock' = clock \/ clock' = clock + 1)
      BY <1>0, <1>3 DEF GiveUp, CommitFlags, CommitAway, CommitIn, RecordAcknowledged, book
    <2>2. clock + 1 <= begun /\ begun <= MaxWrites
      BY <2>1 DEF WritesAreBegun
    <2>3. begun' <= MaxWrites /\ clock' <= begun' /\ clock' \in Int
      BY <1>0, <2>1, <2>2
    <2>4. QED BY <2>1, <2>3 DEF WritesAreBegun
  <1>4. CASE AppCrash
    <2>1. clock' = 0 /\ begun' = begun /\ (write' = write \/ write' = NoWrite)
      BY <1>4 DEF AppCrash
    <2>2. QED BY <1>0, <2>1 DEF WritesAreBegun
  <1>5. CASE OtherClient \/ Provider \/ Apply \/ Stop \/ UNCHANGED checkVars
    <2>1. UNCHANGED <<clock, begun, write>>
      BY <1>5 DEF OtherClient, Provider, Begin, Read, Select, Resync, Search, FetchChanged, FetchMetadata,
                  FetchBodies, Close, FetchSlow, Finish, Apply, Stop, Quiet, Local, book, checkVars
    <2>2. QED BY <2>1 DEF WritesAreBegun
  <1>6. QED BY <1>1, <1>2, <1>3, <1>4, <1>5 DEF CheckNext, Answer

(* WritesFit holds of every behaviour in which no more writes are begun than  *)
(* LIMIT_PER_ACCOUNT: the theorems above then need no hypothesis.             *)
THEOREM FewWritesFit == ASSUME MaxWrites <= Limit PROVE CheckSpec => []WritesFit
  <1>1. CheckInit => CheckTypeOK /\ WritesAreBegun
    <2>1. CheckInit => begun = 0 /\ clock = 0 /\ write = NoWrite
      BY DEF CheckInit
    <2>2. MaxWrites \in Nat
      BY ParametersAssumption
    <2>3. CheckInit => WritesAreBegun
      BY <2>1, <2>2 DEF WritesAreBegun
    <2>4. QED BY <2>3, InitFolderType
  <1>2. CheckTypeOK /\ WritesAreBegun /\ [CheckNext]_checkVars => (CheckTypeOK /\ WritesAreBegun)'
    BY NextFolderType, NextBegun
  <1>3. CheckTypeOK /\ WritesAreBegun => WritesFit
    <2>1. SUFFICES ASSUME CheckTypeOK, WritesAreBegun PROVE clock - check.epoch <= Limit
      BY DEF WritesFit
    <2>2. clock \in Nat /\ begun \in Nat /\ MaxWrites \in Nat /\ Limit \in Nat /\ check.epoch \in Nat
      BY <2>1, ParametersAssumption, CheckFields DEF CheckTypeOK
    <2>3. clock <= begun /\ begun <= MaxWrites
      BY <2>1, <2>2 DEF WritesAreBegun
    <2>4. QED BY <2>1, <2>2, <2>3
  <1>4. QED BY <1>1, <1>2, <1>3, PTL DEF CheckSpec
=============================================================================
