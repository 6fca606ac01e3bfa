-------------------------- MODULE MoveJournalProofs --------------------------
(* Theorems about MoveJournal for every set of folders and accounts, every    *)
(* kind of server and every bound.                                            *)
EXTENDS MoveJournal, FiniteSetTheorems, TLAPS

USE MovesAssumption

----------------------------------------------------------------------------
(* Types. *)

LEMMA Constants ==
    /\ 1 \in Uids /\ 0 \notin Uids /\ Uids \subseteq Nat
    /\ NoRow \in Row /\ NoRequest \in Request /\ Idle \in Holder /\ NoCheck \in Check
  BY DEF Uids, NoRow, Row, Stages, NoRequest, Request, Kinds, Replies, Idle, Holder, Places,
         NoCheck, Check

LEMMA InitType == Init => TypeOK
  <1>1. Init => /\ copies \subseteq [uid : Uids, folder : Folders]
                /\ cache \subseteq [uid : Uids \cup {0}, folder : Folders]
    BY Constants DEF Init, At
  <1>2. Init => nextUid \in 1 .. MaxUid + 1 /\ moves \in 0 .. MaxMoves
    BY DEF Init
  <1>3. QED BY <1>1, <1>2, Constants DEF Init, TypeOK

(* A command's own row, its place and its checkpoint. *)
LEMMA CommandFacts ==
    ASSUME TypeOK
    PROVE  /\ holder.uid \in Uids /\ holder.rec \in Row /\ holder.to \in Folders
           /\ holder.found \in Uids \cup {0}
           /\ \A s \in Stages, v \in Uids \cup {0} : Checkpoint(s, v) \in Row
           /\ \A p \in Places : [holder EXCEPT !.at = p] \in Holder
           /\ \A r \in Row : [rows EXCEPT ![holder.uid] = r] \in [Uids -> Row]
  <1>1. holder \in Holder /\ rows \in [Uids -> Row]
    BY DEF TypeOK
  <1>2. /\ holder.uid \in Uids /\ holder.rec \in Row /\ holder.to \in Folders
        /\ holder.found \in Uids \cup {0}
    BY <1>1 DEF Holder
  <1>3. \A s \in Stages, v \in Uids \cup {0} : Checkpoint(s, v) \in Row
    BY <1>2 DEF Checkpoint, Row
  <1>4. \A p \in Places : [holder EXCEPT !.at = p] \in Holder
    BY <1>1 DEF Holder
  <1>5. QED BY <1>1, <1>2, <1>3, <1>4

LEMMA StageFacts ==
    ASSUME NEW r \in Row, NEW s \in Stages
    PROVE  [r EXCEPT !.stage = s] \in Row
  BY DEF Row

LEMMA LocalType ==
    ASSUME TypeOK, NEW r \in Row, ToLocal(r)
    PROVE  rows' \in [Uids -> Row] /\ holder' \in Holder /\ UNCHANGED <<cache, check>>
  <1>1. [r EXCEPT !.stage = "Local"] \in Row
    BY StageFacts DEF Stages
  <1>2. CASE Current /\ Unsubmitted(r) /\ ~Transfer(r)
    BY <1>1, <1>2, CommandFacts, Constants DEF ToLocal, Save, Release
  <1>3. CASE ~(Current /\ Unsubmitted(r) /\ ~Transfer(r))
    BY <1>3, Constants DEF ToLocal, GiveUp, Release, local, TypeOK
  <1>4. QED BY <1>2, <1>3

LEMMA HappensType ==
    ASSUME TypeOK, NEW c, c.to \in Folders, NEW o \in Outcomes(c), Happens(o)
    PROVE  /\ copies' \subseteq [uid : Uids, folder : Folders]
           /\ nextUid' \in 1 .. MaxUid + 1
           /\ o.made \in Uids \cup {0} /\ o.reply \in {"ok", "lost"}
  <1>1. nextUid \in Uids
    BY DEF Happens, TypeOK, Uids
  <1>2. At(nextUid, c.to) \in [uid : Uids, folder : Folders]
    BY <1>1 DEF At
  <1>3. /\ o.copies \subseteq copies \cup {At(nextUid, c.to)}
        /\ o.made \in {0, nextUid} /\ o.reply \in {"ok", "lost"}
    BY DEF Outcomes
  <1>4. copies' \subseteq [uid : Uids, folder : Folders]
    BY <1>2, <1>3 DEF Happens, TypeOK
  <1>5. QED BY <1>1, <1>3, <1>4 DEF Happens, TypeOK, Uids

LEMMA ServersType == TypeOK /\ Servers => TypeOK'
  <1> SUFFICES ASSUME TypeOK, Servers PROVE TypeOK'
    OBVIOUS
  <1>0. request \in Request /\ late \subseteq Given /\ GivenUp \in Given
    BY DEF TypeOK, GivenUp, Given, Request
  <1>1. CASE Execute
    <2>1. PICK o \in Outcomes(request) :
            \E reply \in {o.reply, "lost"}, new \in {0, o.made} :
               /\ Happens(o)
               /\ request' = [request EXCEPT !.reply = reply,
                                             !.new = IF reply = "ok" THEN new ELSE 0]
      BY <1>1 DEF Execute
    <2> PICK reply \in {o.reply, "lost"}, new \in {0, o.made} :
               /\ Happens(o)
               /\ request' = [request EXCEPT !.reply = reply,
                                             !.new = IF reply = "ok" THEN new ELSE 0]
      BY <2>1
    <2>2. request.to \in Folders
      BY <1>0 DEF Request
    <2>3. /\ copies' \subseteq [uid : Uids, folder : Folders]
          /\ nextUid' \in 1 .. MaxUid + 1 /\ o.made \in Uids \cup {0}
          /\ o.reply \in {"ok", "lost"}
      BY <2>2, HappensType
    <2>4. new \in Uids \cup {0}
      BY <2>3
    <2>5. request' \in Request
      BY <1>0, <2>3, <2>4 DEF Request, Replies
    <2>6. QED BY <1>1, <2>3, <2>5 DEF Execute, TypeOK, local
  <1>2. CASE Refuse
    <2>1. request' \in Request
      BY <1>0, <1>2 DEF Refuse, Request, Replies
    <2>2. QED BY <1>2, <2>1 DEF Refuse, TypeOK, local
  <1>3. CASE TimeOut
    <2>1. request' \in Request /\ late' \subseteq Given
      BY <1>0, <1>3 DEF TimeOut, Request, Replies
    <2>2. QED BY <1>3, <2>1 DEF TimeOut, TypeOK, local
  <1>4. ASSUME NEW c \in late, ExecuteLate(c) PROVE TypeOK'
    <2>1. PICK o \in Outcomes(c) : Happens(o)
      BY <1>4 DEF ExecuteLate
    <2>2. c.to \in Folders
      BY <1>0 DEF Given
    <2>3. copies' \subseteq [uid : Uids, folder : Folders] /\ nextUid' \in 1 .. MaxUid + 1
      BY <2>1, <2>2, HappensType
    <2>4. QED BY <1>4, <2>3 DEF ExecuteLate, TypeOK, local
  <1>5. QED BY <1>1, <1>2, <1>3, <1>4 DEF Servers

LEMMA AskType ==
    ASSUME TypeOK, NEW kind \in Kinds, NEW place \in Places, Ask(kind, place)
    PROVE  TypeOK'
  <1>1. holder.uid \in Uids /\ holder.rec.dest \in Folders
    BY CommandFacts DEF Row
  <1>2. request' \in Request
    BY <1>1 DEF Ask, Request, Replies
  <1>3. holder' \in Holder
    BY CommandFacts DEF Ask, Goto
  <1>4. QED BY <1>2, <1>3 DEF Ask, TypeOK, local

(* The steps that end with the server's answer or without one. *)
LEMMA AnsweredType ==
    ASSUME TypeOK, rows' \in [Uids -> Row], holder' \in Holder, UNCHANGED <<cache, check>>,
           Consume \/ Quiet
    PROVE  TypeOK'
  BY Constants DEF Consume, Quiet, server, TypeOK

LEMMA GiveUpType ==
    ASSUME TypeOK, GiveUp
    PROVE  rows' \in [Uids -> Row] /\ holder' \in Holder /\ UNCHANGED <<cache, check>>
  BY Constants DEF GiveUp, Release, local, TypeOK

LEMMA GotoType ==
    ASSUME TypeOK, NEW p \in Places, Goto(p), UNCHANGED rows
    PROVE  rows' \in [Uids -> Row] /\ holder' \in Holder
  BY CommandFacts DEF Goto, TypeOK

LEMMA SaveType ==
    ASSUME TypeOK, NEW r \in Row, NEW p \in Places, Save(r) \/ SaveAs(r, p)
    PROVE  rows' \in [Uids -> Row] /\ holder' \in Holder
  <1>1. [holder EXCEPT !.at = p, !.rec = r] \in Holder
    BY DEF TypeOK, Holder
  <1>2. QED BY <1>1, CommandFacts, Constants DEF Save, SaveAs, Release

LEMMA PrepareType == TypeOK /\ Prepare => TypeOK'
  <1> SUFFICES ASSUME TypeOK, Prepare PROVE TypeOK'
    OBVIOUS
  <1>1. holder.rec \in Row /\ [holder.rec EXCEPT !.stage = "Local"] \in Row
    BY CommandFacts, StageFacts DEF Stages
  <1>2. rows' \in [Uids -> Row] /\ holder' \in Holder /\ UNCHANGED <<cache, check>>
    <2>1. CASE GiveUp
      BY <2>1, GiveUpType
    <2>2. CASE SaveAs(holder.rec, "submitting") /\ UNCHANGED <<cache, check>>
      BY <1>1, <2>2, SaveType DEF Places
    <2>3. CASE Save([holder.rec EXCEPT !.stage = "Local"]) /\ UNCHANGED <<cache, check>>
      BY <1>1, <2>3, SaveType DEF Places
    <2>4. QED BY <2>1, <2>2, <2>3 DEF Prepare
  <1>3. QED BY <1>2, AnsweredType DEF Prepare

LEMMA ReprepareType == TypeOK /\ Reprepare => TypeOK'
  <1> SUFFICES ASSUME TypeOK, Reprepare PROVE TypeOK'
    OBVIOUS
  <1>1. rows' \in [Uids -> Row] /\ holder' \in Holder /\ UNCHANGED <<cache, check>>
    <2>1. CASE GiveUp
      BY <2>1, GiveUpType
    <2>2. CASE Goto("submitting") /\ UNCHANGED local
      BY <2>2, GotoType DEF Places, local
    <2>3. CASE ToLocal(holder.rec)
      BY <2>3, CommandFacts, LocalType
    <2>4. QED BY <2>1, <2>2, <2>3 DEF Reprepare
  <1>2. QED BY <1>1, AnsweredType DEF Reprepare

LEMMA SubmittedType == TypeOK /\ Submitted => TypeOK'
  <1> SUFFICES ASSUME TypeOK, Submitted PROVE TypeOK'
    OBVIOUS
  <1> DEFINE stage == IF Transfer(holder.rec) THEN "Copied" ELSE "Committed"
             place == IF Transfer(holder.rec) THEN "removing" ELSE "resolving"
             next == Checkpoint(stage, request.new)
  <1>1. request.new \in Uids \cup {0} /\ stage \in Stages /\ place \in Places
    BY DEF TypeOK, Request, Stages, Places
  <1>2. next \in Row
    BY <1>1, CommandFacts
  <1>3. rows' \in [Uids -> Row] /\ holder' \in Holder /\ UNCHANGED <<cache, check>>
    <2>1. CASE GiveUp
      BY <2>1, GiveUpType
    <2>2. CASE ToLocal(holder.rec)
      BY <2>2, CommandFacts, LocalType
    <2>3. CASE Save(NoRow) /\ UNCHANGED <<cache, check>>
      BY <2>3, SaveType, Constants DEF Places
    <2>4. CASE /\ rows' = [rows EXCEPT ![holder.uid] = next]
               /\ holder' = [holder EXCEPT !.at = place, !.rec = next, !.found = request.new]
               /\ UNCHANGED <<cache, check>>
      <3>1. rows' \in [Uids -> Row]
        BY <1>2, <2>4, CommandFacts
      <3> HIDE DEF next, place
      <3>2. holder' \in Holder
        BY <1>1, <1>2, <2>4 DEF TypeOK, Holder
      <3>3. QED BY <2>4, <3>1, <3>2
    <2>5. QED BY <2>1, <2>2, <2>3, <2>4 DEF Submitted
  <1>4. QED BY <1>3, AnsweredType DEF Submitted

LEMMA RecoverType == TypeOK /\ Recover => TypeOK'
  <1> SUFFICES ASSUME TypeOK, Recover PROVE TypeOK'
    OBVIOUS
  <1>1. rows' \in [Uids -> Row] /\ holder' \in Holder /\ UNCHANGED <<cache, check>>
    <2>1. CASE GiveUp
      BY <2>1, GiveUpType
    <2>2. CASE (Goto("locating") \/ Goto("repreparing")) /\ UNCHANGED local
      BY <2>2, GotoType DEF Places, local
    <2>3. QED BY <2>1, <2>2 DEF Recover
  <1>2. QED BY <1>1, AnsweredType DEF Recover

LEMMA FoundFacts ==
    ASSUME TypeOK, NEW r, NEW v \in Found(r)
    PROVE  v \in Uids /\ \E m \in copies : m.uid = v
  BY DEF TypeOK, Found, Destination, In

LEMMA LocateType == TypeOK /\ Locate => TypeOK'
  <1> SUFFICES ASSUME TypeOK, Locate PROVE TypeOK'
    OBVIOUS
  <1>1. rows' \in [Uids -> Row] /\ holder' \in Holder /\ UNCHANGED <<cache, check>>
    <2>1. CASE GiveUp
      BY <2>1, GiveUpType
    <2>2. ASSUME NEW v \in Found(holder.rec),
                 rows' = [rows EXCEPT ![holder.uid] = Checkpoint("Copied", v)],
                 holder' = [holder EXCEPT !.at = "removing", !.found = v,
                                          !.rec = Checkpoint("Copied", v)]
          PROVE  rows' \in [Uids -> Row] /\ holder' \in Holder
      <3>1. v \in Uids
        BY FoundFacts
      <3>2. Checkpoint("Copied", v) \in Row
        BY <3>1, CommandFacts DEF Stages
      <3>3. rows' \in [Uids -> Row]
        BY <2>2, <3>2, CommandFacts
      <3>4. holder' \in Holder
        BY <2>2, <3>1, <3>2 DEF TypeOK, Holder, Places
      <3>5. QED BY <3>3, <3>4
    <2>3. ASSUME NEW v \in Found(holder.rec), UNCHANGED rows,
                 holder' = [holder EXCEPT !.found = v, !.at =
                              IF holder.rec.stage = "Copied" THEN "removing" ELSE "resolving"]
          PROVE  rows' \in [Uids -> Row] /\ holder' \in Holder
      <3>1. v \in Uids
        BY FoundFacts
      <3>2. QED BY <2>3, <3>1 DEF TypeOK, Holder, Places
    <2>4. QED BY <2>1, <2>2, <2>3 DEF Locate
  <1>2. QED BY <1>1, AnsweredType DEF Locate

LEMMA CleanedType == TypeOK /\ Cleaned => TypeOK'
  <1> SUFFICES ASSUME TypeOK, Cleaned PROVE TypeOK'
    OBVIOUS
  <1>1. Checkpoint("Committed", holder.rec.current) \in Row
    BY CommandFacts DEF Row, Stages
  <1>2. rows' \in [Uids -> Row] /\ holder' \in Holder /\ UNCHANGED <<cache, check>>
    <2>1. CASE GiveUp
      BY <2>1, GiveUpType
    <2>2. CASE /\ SaveAs(Checkpoint("Committed", holder.rec.current), "resolving")
               /\ UNCHANGED <<cache, check>>
      BY <1>1, <2>2, SaveType DEF Places
    <2>3. QED BY <2>1, <2>2 DEF Cleaned
  <1>3. QED BY <1>2, AnsweredType DEF Cleaned

(* What relocation leaves of the cache and of the check. *)
LEMMA RelocatedType ==
    ASSUME TypeOK, NEW u \in Uids, NEW f \in Folders, NEW v \in Uids \cup {0},
           NEW p \in Folders, Relocated(u, f, v, p)
    PROVE  cache' \subseteq [uid : Uids \cup {0}, folder : Folders] /\ check' \in Check
  <1>1. At(v, p) \in [uid : Uids \cup {0}, folder : Folders]
    BY DEF At
  <1>2. check' \in Check
    BY DEF Relocated, TypeOK, Check
  <1>3. QED BY <1>1, <1>2 DEF Relocated, TypeOK

LEMMA ResolveType == TypeOK /\ Resolve => TypeOK'
  <1> SUFFICES ASSUME TypeOK, Resolve PROVE TypeOK'
    OBVIOUS
  <1>1. CASE GiveUp
    <2>1. rows' \in [Uids -> Row] /\ holder' \in Holder /\ UNCHANGED <<cache, check>>
      BY <1>1, GiveUpType
    <2>2. QED BY <1>1, <2>1, AnsweredType DEF Resolve
  <1>2. CASE ~GiveUp
    <2> DEFINE v == holder.found
               r == holder.rec
               next == [r EXCEPT !.stage = "Located", !.current = v]
    <2>1. Relocated(holder.uid, r.from, v, r.dest) /\ Save(next) /\ Quiet
      BY <1>2 DEF Resolve
    <2>2. r \in Row /\ v \in Uids \cup {0} /\ r.from \in Folders /\ r.dest \in Folders
      BY CommandFacts DEF Row
    <2>3. next \in Row
      BY <2>2 DEF Row, Stages
    <2>4. rows' \in [Uids -> Row] /\ holder' \in Holder
      BY <2>1, <2>3, SaveType DEF Places
    <2>5. cache' \subseteq [uid : Uids \cup {0}, folder : Folders] /\ check' \in Check
      BY <2>1, <2>2, CommandFacts, RelocatedType
    <2>6. QED BY <2>1, <2>4, <2>5 DEF Quiet, server, TypeOK
  <1>3. QED BY <1>1, <1>2

LEMMA ReleaseType == TypeOK /\ ReleaseUnapplied => TypeOK'
  <1> SUFFICES ASSUME TypeOK, ReleaseUnapplied PROVE TypeOK'
    OBVIOUS
  <1> DEFINE next == [holder.rec EXCEPT !.dest = holder.to, !.stage = "Started"]
  <1>1. next \in Row
    BY CommandFacts DEF Row, Stages
  <1>2. rows' \in [Uids -> Row] /\ holder' \in Holder /\ UNCHANGED <<cache, check>>
    <2>1. CASE GiveUp
      BY <2>1, GiveUpType
    <2>2. CASE /\ rows' = [rows EXCEPT ![holder.uid] = NoRow]
               /\ holder' = [holder EXCEPT !.at = "preparing", !.rec = next]
               /\ UNCHANGED <<cache, check>>
      <3> HIDE DEF next
      <3>1. rows' \in [Uids -> Row]
        BY <2>2, CommandFacts, Constants
      <3>2. holder' \in Holder
        BY <1>1, <2>2 DEF TypeOK, Holder, Places
      <3>3. QED BY <2>2, <3>1, <3>2
    <2>3. CASE Goto("recovering") /\ UNCHANGED local
      BY <2>3, GotoType DEF Places, local
    <2>4. QED BY <2>1, <2>2, <2>3 DEF ReleaseUnapplied
  <1>3. QED BY <1>2, AnsweredType DEF ReleaseUnapplied

LEMMA CommandType == TypeOK /\ Command => TypeOK'
  <1> SUFFICES ASSUME TypeOK, Command PROVE TypeOK'
    OBVIOUS
  <1>1. CASE Submit
    <2>1. (IF Transfer(holder.rec) THEN "append" ELSE "move") \in Kinds
      BY DEF Kinds
    <2>2. QED BY <1>1, <2>1, AskType DEF Submit, Places
  <1>2. CASE RemoveSource
    BY <1>2, AskType DEF RemoveSource, Kinds, Places
  <1>3. QED BY <1>1, <1>2, PrepareType, ReprepareType, SubmittedType, RecoverType, LocateType,
               CleanedType, ResolveType, ReleaseType DEF Command

LEMMA StartType ==
    ASSUME TypeOK, NEW u \in Uids, NEW place \in Places, NEW r \in Row, NEW p \in Folders,
           Start(u, place, r, p)
    PROVE  holder' \in Holder
  BY Constants DEF Start, Holder

LEMMA RowFacts ==
    ASSUME TypeOK, NEW u \in Uids
    PROVE  /\ rows[u] \in Row /\ rows[u].from \in Folders /\ rows[u].dest \in Folders
           /\ rows[u].stage \in Stages
  BY DEF TypeOK, Row

LEMMA AskedType == TypeOK /\ Asked => TypeOK'
  <1> SUFFICES ASSUME TypeOK, Asked PROVE TypeOK'
    OBVIOUS
  <1>1. ASSUME NEW u \in Uids, NEW f \in Folders, NEW p \in Folders, Move(u, f, p)
        PROVE  TypeOK'
    <2> DEFINE new == [from |-> f, dest |-> p, stage |-> "Started", current |-> 0]
    <2>1. new \in Row /\ rows[u] \in Row
      BY RowFacts DEF Row, Stages
    <2>2. Start(u, "preparing", new, p) \/ Start(u, "recovering", rows[u], p)
            \/ Start(u, "releasing", rows[u], p)
      BY <1>1 DEF Move
    <2>3. holder' \in Holder
      BY <2>1, <2>2, StartType DEF Places
    <2>4. moves' \in 0 .. MaxMoves
      BY <1>1 DEF Move, TypeOK
    <2>5. QED BY <1>1, <2>3, <2>4 DEF Move, TypeOK, server, local
  <1>2. ASSUME NEW u \in Uids, UndoLocal(u) PROVE TypeOK'
    BY <1>2, Constants DEF UndoLocal, TypeOK, server
  <1>3. ASSUME NEW u \in Uids, KeepCopy(u) PROVE TypeOK'
    <2>1. Relocated(u, rows[u].from, 0, rows[u].from)
      BY <1>3 DEF KeepCopy, KeepsOriginal
    <2>2. cache' \subseteq [uid : Uids \cup {0}, folder : Folders] /\ check' \in Check
      BY <2>1, RowFacts, RelocatedType
    <2>3. [rows[u] EXCEPT !.stage = "Kept"] \in Row
      BY RowFacts, StageFacts DEF Stages
    <2>4. rows' \in [Uids -> Row]
      BY <1>3, <2>3 DEF KeepCopy, TypeOK
    <2>5. QED BY <1>3, <2>2, <2>4 DEF KeepCopy, TypeOK, server
  <1>4. ASSUME NEW u \in Uids, UseExisting(u) \/ Retry(u) PROVE TypeOK'
    <2>1. holder' \in Holder
      BY <1>4, RowFacts, StartType DEF UseExisting, Retry, Places
    <2>2. QED BY <1>4, <2>1 DEF UseExisting, Retry, TypeOK, server, local
  <1>5. ASSUME NEW a \in MailAccounts, AdmitRemoval(a) PROVE TypeOK'
    BY <1>5 DEF AdmitRemoval, TypeOK, server, local
  <1>6. QED BY <1>1, <1>2, <1>3, <1>4, <1>5 DEF Asked

LEMMA PeriodicType == TypeOK /\ Periodic => TypeOK'
  <1> SUFFICES ASSUME TypeOK, Periodic PROVE TypeOK'
    OBVIOUS
  <1>1. ASSUME NEW u \in Uids, Background(u) PROVE TypeOK'
    <2>1. holder' \in Holder
      BY <1>1, RowFacts, StartType DEF Background, Places
    <2>2. QED BY <1>1, <2>1 DEF Background, TypeOK, server, local
  <1>2. ASSUME NEW f \in Folders, ListFolder(f) PROVE TypeOK'
    <2>1. {m.uid : m \in In(copies, f)} \subseteq Uids
      BY DEF TypeOK, In
    <2>2. check' \in Check
      BY <1>2, <2>1, Constants DEF ListFolder, Check
    <2>3. QED BY <1>2, <2>2 DEF ListFolder, TypeOK, server
  <1>3. ASSUME NEW v \in Uids, Arrive(v) PROVE TypeOK'
    <2>1. At(v, check.folder) \in [uid : Uids \cup {0}, folder : Folders]
      BY DEF At, TypeOK, Check
    <2>2. QED BY <1>3, <2>1 DEF Arrive, TypeOK, server
  <1>4. CASE Reconcile
    <2>1. cache' \subseteq cache
      BY <1>4 DEF Reconcile
    <2>2. QED BY <1>4, <2>1, Constants DEF Reconcile, TypeOK, server
  <1>5. ASSUME NEW a \in MailAccounts, Purge(a) PROVE TypeOK'
    <2> DEFINE kept == {At(u, rows[u].from) : u \in Orphans(a)}
    <2>1. \A m \in kept : At(0, m.folder) \in [uid : Uids \cup {0}, folder : Folders]
      BY RowFacts DEF Orphans, At
    <2>2. cache' \subseteq cache \cup {At(0, m.folder) : m \in kept}
      BY <1>5 DEF Purge
    <2>3. cache' \subseteq [uid : Uids \cup {0}, folder : Folders]
      BY <2>1, <2>2 DEF TypeOK
    <2>4. rows' \in [Uids -> Row]
      BY <1>5, RowFacts, Constants DEF Purge
    <2>5. check' \in Check
      BY <1>5 DEF Purge, Orphans, TypeOK, Check
    <2>6. QED BY <1>5, <2>3, <2>4, <2>5 DEF Purge, TypeOK, server
  <1>6. QED BY <1>1, <1>2, <1>3, <1>4, <1>5 DEF Periodic

LEMMA NextType == TypeOK /\ [Next]_vars => TypeOK'
  <1> SUFFICES ASSUME TypeOK, [Next]_vars PROVE TypeOK'
    OBVIOUS
  <1>1. CASE Interrupt
    <2>1. Waits => GivenUp \in Given
      BY DEF GivenUp, Given, TypeOK, Request
    <2>2. holder' \in Holder /\ request' \in Request /\ late' \subseteq Given /\ check' \in Check
      BY <1>1, <2>1, Constants DEF Interrupt, Release, TypeOK
    <2>3. QED BY <1>1, <2>2 DEF Interrupt, TypeOK
  <1>2. CASE UNCHANGED vars
    BY <1>2 DEF vars, server, local, TypeOK
  <1>3. QED BY <1>1, <1>2, CommandType, AskedType, PeriodicType, ServersType DEF Next

(* TypeOK holds in every reachable state. *)
THEOREM TypeCorrect == Spec => []TypeOK
  BY InitType, NextType, PTL DEF Spec

----------------------------------------------------------------------------
(* The cached originals of pending moves. *)

LEMMA AtFacts ==
    ASSUME NEW u, NEW f, NEW v, NEW p
    PROVE  /\ At(u, f) = At(v, p) <=> u = v /\ f = p
           /\ At(u, f).uid = u /\ At(u, f).folder = f
  BY DEF At

(* A row that a command replaces protects the original it protected before,  *)
(* whatever its new stage.                                                   *)
LEMMA ReplacedKeeps ==
    ASSUME TypeOK, OriginalIsKept, UNCHANGED cache, NEW r,
           rows' = [rows EXCEPT ![holder.uid] = r],
           Finished(r) \/ At(holder.uid, r.from) \in cache
    PROVE  OriginalIsKept'
  <1> SUFFICES ASSUME NEW u \in Uids, ~Finished(rows'[u])
               PROVE  At(u, rows'[u].from) \in cache'
    BY DEF OriginalIsKept
  <1>1. CASE u = holder.uid
    <2>1. rows'[u] = r
      BY <1>1 DEF TypeOK
    <2>2. QED BY <1>1, <2>1
  <1>2. CASE u # holder.uid
    <2>1. rows'[u] = rows[u]
      BY <1>2 DEF TypeOK
    <2>2. QED BY <2>1 DEF OriginalIsKept
  <1>3. QED BY <1>1, <1>2

(* The row a command knows: its original is there while it is pending.       *)
LEMMA CurrentKeeps ==
    ASSUME TypeOK, OriginalIsKept, Current, ~Finished(holder.rec)
    PROVE  At(holder.uid, holder.rec.from) \in cache
  <1>1. holder.uid \in Uids
    BY CommandFacts
  <1>2. QED BY <1>1 DEF OriginalIsKept, Current

LEMMA UntouchedKeeps == OriginalIsKept /\ UNCHANGED <<rows, cache>> => OriginalIsKept'
  BY DEF OriginalIsKept

LEMMA LocalKeeps ==
    ASSUME TypeOK, OriginalIsKept, ToLocal(holder.rec)
    PROVE  OriginalIsKept'
  <1> DEFINE r == holder.rec
             next == [r EXCEPT !.stage = "Local"]
  <1>1. CASE Current /\ Unsubmitted(r) /\ ~Transfer(r)
    <2>1. r \in Row /\ next.from = r.from /\ ~Finished(r)
      BY <1>1, CommandFacts DEF Row, Unsubmitted, Finished
    <2>2. At(holder.uid, next.from) \in cache
      BY <1>1, <2>1, CurrentKeeps
    <2>3. rows' = [rows EXCEPT ![holder.uid] = next] /\ UNCHANGED cache
      BY <1>1 DEF ToLocal, Save
    <2>4. QED BY <2>2, <2>3, ReplacedKeeps
  <1>2. CASE ~(Current /\ Unsubmitted(r) /\ ~Transfer(r))
    BY <1>2, UntouchedKeeps DEF ToLocal, GiveUp, local
  <1>3. QED BY <1>1, <1>2

(* A checkpoint keeps the folder the message came from. *)
LEMMA CheckpointKeeps ==
    ASSUME TypeOK, OriginalIsKept, UNCHANGED cache, NEW s \in Stages, NEW v \in Uids \cup {0},
           Current, ~Finished(holder.rec),
           rows' = [rows EXCEPT ![holder.uid] = Checkpoint(s, v)]
    PROVE  OriginalIsKept'
  <1>1. Checkpoint(s, v).from = holder.rec.from
    BY CommandFacts DEF Checkpoint, Row
  <1>2. At(holder.uid, Checkpoint(s, v).from) \in cache
    BY <1>1, CurrentKeeps
  <1>3. QED BY <1>2, ReplacedKeeps

LEMMA NoRowFinished == Finished(NoRow)
  BY DEF Finished, NoRow

LEMMA PrepareKeeps == TypeOK /\ OriginalIsKept /\ Prepare => OriginalIsKept'
  <1> SUFFICES ASSUME TypeOK, OriginalIsKept, Prepare PROVE OriginalIsKept'
    OBVIOUS
  <1> DEFINE r == holder.rec
             next == [r EXCEPT !.stage = "Local"]
  <1>1. CASE GiveUp
    BY <1>1, UntouchedKeeps DEF GiveUp, local
  <1>2. CASE Insertable(r) /\ SaveAs(r, "submitting") /\ UNCHANGED cache
    <2>1. At(holder.uid, r.from) \in cache
      BY <1>2 DEF Insertable
    <2>2. rows' = [rows EXCEPT ![holder.uid] = r]
      BY <1>2 DEF SaveAs
    <2>3. QED BY <1>2, <2>1, <2>2, ReplacedKeeps
  <1>3. CASE Insertable(r) /\ Save(next) /\ UNCHANGED cache
    <2>1. next.from = r.from
      BY CommandFacts DEF Row
    <2>2. At(holder.uid, next.from) \in cache
      BY <1>3, <2>1 DEF Insertable
    <2>3. rows' = [rows EXCEPT ![holder.uid] = next]
      BY <1>3 DEF Save
    <2>4. QED BY <1>3, <2>2, <2>3, ReplacedKeeps
  <1>4. QED BY <1>1, <1>2, <1>3 DEF Prepare

LEMMA AllowsPending ==
    ASSUME NEW s, NEW v, MayCheckpoint(s, v)
    PROVE  Current /\ ~Finished(holder.rec)
  BY DEF MayCheckpoint, Allows, Finished

LEMMA SubmittedKeeps == TypeOK /\ OriginalIsKept /\ Submitted => OriginalIsKept'
  <1> SUFFICES ASSUME TypeOK, OriginalIsKept, Submitted PROVE OriginalIsKept'
    OBVIOUS
  <1> DEFINE stage == IF Transfer(holder.rec) THEN "Copied" ELSE "Committed"
  <1>1. CASE GiveUp
    BY <1>1, UntouchedKeeps DEF GiveUp, local
  <1>2. CASE ToLocal(holder.rec)
    BY <1>2, LocalKeeps
  <1>3. CASE Save(NoRow) /\ UNCHANGED cache
    BY <1>3, NoRowFinished, ReplacedKeeps DEF Save
  <1>4. CASE /\ MayCheckpoint(stage, request.new)
             /\ rows' = [rows EXCEPT ![holder.uid] = Checkpoint(stage, request.new)]
             /\ UNCHANGED cache
    <2>1. stage \in Stages /\ request.new \in Uids \cup {0}
      BY DEF TypeOK, Request, Stages
    <2> HIDE DEF stage
    <2>2. QED BY <1>4, <2>1, AllowsPending, CheckpointKeeps
  <1>5. QED BY <1>1, <1>2, <1>3, <1>4 DEF Submitted

LEMMA LocateKeeps == TypeOK /\ OriginalIsKept /\ Locate => OriginalIsKept'
  <1> SUFFICES ASSUME TypeOK, OriginalIsKept, Locate PROVE OriginalIsKept'
    OBVIOUS
  <1>1. CASE UNCHANGED <<rows, cache>>
    BY <1>1, UntouchedKeeps
  <1>2. ASSUME NEW v \in Found(holder.rec), MayCheckpoint("Copied", v), UNCHANGED cache,
               rows' = [rows EXCEPT ![holder.uid] = Checkpoint("Copied", v)]
        PROVE  OriginalIsKept'
    <2>1. v \in Uids /\ "Copied" \in Stages
      BY FoundFacts DEF Stages
    <2>2. QED BY <1>2, <2>1, AllowsPending, CheckpointKeeps
  <1>3. QED BY <1>1, <1>2 DEF Locate, GiveUp, local

LEMMA CleanedKeeps == TypeOK /\ OriginalIsKept /\ Cleaned => OriginalIsKept'
  <1> SUFFICES ASSUME TypeOK, OriginalIsKept, Cleaned PROVE OriginalIsKept'
    OBVIOUS
  <1>1. CASE UNCHANGED <<rows, cache>>
    BY <1>1, UntouchedKeeps
  <1>2. CASE /\ MayCheckpoint("Committed", holder.rec.current)
             /\ SaveAs(Checkpoint("Committed", holder.rec.current), "resolving")
             /\ UNCHANGED cache
    <2>1. holder.rec.current \in Uids \cup {0} /\ "Committed" \in Stages
      BY CommandFacts DEF Row, Stages
    <2>2. QED BY <1>2, <2>1, AllowsPending, CheckpointKeeps DEF SaveAs
  <1>3. QED BY <1>1, <1>2 DEF Cleaned, GiveUp, local

(* Only the original itself leaves the cache when it is relocated.           *)
LEMMA RelocatedKeeps ==
    ASSUME TypeOK, OriginalIsKept, NEW u \in Uids, NEW f, NEW v, NEW p, Relocated(u, f, v, p),
           NEW r, Finished(r), rows' = [rows EXCEPT ![u] = r]
    PROVE  OriginalIsKept'
  <1> SUFFICES ASSUME NEW w \in Uids, ~Finished(rows'[w])
               PROVE  At(w, rows'[w].from) \in cache'
    BY DEF OriginalIsKept
  <1>1. w # u
    BY DEF TypeOK
  <1>2. rows'[w] = rows[w]
    BY <1>1 DEF TypeOK
  <1>3. At(w, rows[w].from) \in cache
    BY <1>2 DEF OriginalIsKept
  <1>4. At(w, rows[w].from) # At(u, f)
    BY <1>1, AtFacts
  <1>5. QED BY <1>2, <1>3, <1>4 DEF Relocated

LEMMA ResolveKeeps == TypeOK /\ OriginalIsKept /\ Resolve => OriginalIsKept'
  <1> SUFFICES ASSUME TypeOK, OriginalIsKept, Resolve PROVE OriginalIsKept'
    OBVIOUS
  <1> DEFINE next == [holder.rec EXCEPT !.stage = "Located", !.current = holder.found]
  <1>1. CASE GiveUp
    BY <1>1, UntouchedKeeps DEF GiveUp, local
  <1>2. CASE /\ Relocated(holder.uid, holder.rec.from, holder.found, holder.rec.dest)
             /\ Save(next)
    <2>1. Finished(next)
      BY CommandFacts DEF Row, Finished
    <2>2. rows' = [rows EXCEPT ![holder.uid] = next]
      BY <1>2 DEF Save
    <2>3. QED BY <1>2, <2>1, <2>2, CommandFacts, RelocatedKeeps
  <1>3. QED BY <1>1, <1>2 DEF Resolve

LEMMA ReleaseKeeps == TypeOK /\ OriginalIsKept /\ ReleaseUnapplied => OriginalIsKept'
  <1> SUFFICES ASSUME TypeOK, OriginalIsKept, ReleaseUnapplied PROVE OriginalIsKept'
    OBVIOUS
  <1>1. CASE UNCHANGED <<rows, cache>>
    BY <1>1, UntouchedKeeps
  <1>2. CASE rows' = [rows EXCEPT ![holder.uid] = NoRow] /\ UNCHANGED cache
    BY <1>2, NoRowFinished, ReplacedKeeps
  <1>3. QED BY <1>1, <1>2 DEF ReleaseUnapplied, GiveUp, local

LEMMA CommandKeeps == TypeOK /\ OriginalIsKept /\ Command => OriginalIsKept'
  <1> SUFFICES ASSUME TypeOK, OriginalIsKept, Command PROVE OriginalIsKept'
    OBVIOUS
  <1>1. CASE Submit \/ RemoveSource \/ Recover
    <2>1. UNCHANGED <<rows, cache>>
      BY <1>1 DEF Submit, RemoveSource, Ask, Recover, GiveUp, local
    <2>2. QED BY <2>1, UntouchedKeeps
  <1>2. CASE Reprepare
    <2>1. UNCHANGED <<rows, cache>> \/ ToLocal(holder.rec)
      BY <1>2 DEF Reprepare, GiveUp, local
    <2>2. QED BY <2>1, UntouchedKeeps, LocalKeeps
  <1>3. QED BY <1>1, <1>2, PrepareKeeps, SubmittedKeeps, LocateKeeps, CleanedKeeps, ResolveKeeps,
               ReleaseKeeps DEF Command

(* Removing an account drops the rows of its folders with their originals.   *)
LEMMA PurgeKeeps ==
    ASSUME TypeOK, OriginalIsKept, NEW a \in MailAccounts, Purge(a)
    PROVE  OriginalIsKept'
  <1> SUFFICES ASSUME NEW u \in Uids, ~Finished(rows'[u])
               PROVE  At(u, rows'[u].from) \in cache'
    BY DEF OriginalIsKept
  <1> DEFINE kept == {At(w, rows[w].from) : w \in Orphans(a)}
  <1>1. rows'[u] = rows[u] /\ a \notin Ends(rows[u])
    <2>1. rows'[u] = IF a \in Ends(rows[u]) THEN NoRow ELSE rows[u]
      BY DEF Purge
    <2>2. QED BY <2>1, NoRowFinished
  <1>2. At(u, rows[u].from) \in cache /\ Account[rows[u].from] # a
    BY <1>1 DEF OriginalIsKept, Ends
  <1>3. u \notin Orphans(a)
    BY <1>1 DEF Orphans, Ends
  <1>4. At(u, rows[u].from) \notin kept
    BY <1>3, AtFacts
  <1>5. At(u, rows[u].from).folder = rows[u].from
    BY AtFacts
  <1>6. QED BY <1>1, <1>2, <1>4, <1>5 DEF Purge

LEMMA PeriodicKeeps == TypeOK /\ OriginalIsKept /\ Periodic => OriginalIsKept'
  <1> SUFFICES ASSUME TypeOK, OriginalIsKept, Periodic PROVE OriginalIsKept'
    OBVIOUS
  <1>1. ASSUME NEW u \in Uids, Background(u) PROVE OriginalIsKept'
    BY <1>1, UntouchedKeeps DEF Background, local
  <1>2. ASSUME NEW f \in Folders, ListFolder(f) PROVE OriginalIsKept'
    BY <1>2, UntouchedKeeps DEF ListFolder
  <1>3. ASSUME NEW v \in Uids, Arrive(v) PROVE OriginalIsKept'
    BY <1>3 DEF Arrive, OriginalIsKept
  <1>4. CASE Reconcile
    <2> SUFFICES ASSUME NEW u \in Uids, ~Finished(rows[u])
                 PROVE  At(u, rows[u].from) \in cache'
      BY <1>4 DEF Reconcile, OriginalIsKept
    <2>1. At(u, rows[u].from) \in cache /\ Protected(u)
      BY DEF OriginalIsKept, Protected
    <2>2. At(u, rows[u].from).uid = u
      BY AtFacts
    <2>3. QED BY <1>4, <2>1, <2>2 DEF Reconcile
  <1>5. QED BY <1>1, <1>2, <1>3, <1>4, PurgeKeeps DEF Periodic

LEMMA AskedKeeps == TypeOK /\ OriginalIsKept /\ Asked => OriginalIsKept'
  <1> SUFFICES ASSUME TypeOK, OriginalIsKept, Asked PROVE OriginalIsKept'
    OBVIOUS
  <1>1. CASE UNCHANGED <<rows, cache>>
    BY <1>1, UntouchedKeeps
  <1>2. ASSUME NEW u \in Uids, UndoLocal(u) PROVE OriginalIsKept'
    BY <1>2, NoRowFinished DEF UndoLocal, OriginalIsKept, TypeOK
  <1>3. ASSUME NEW u \in Uids, KeepCopy(u) PROVE OriginalIsKept'
    <2>1. Finished([rows[u] EXCEPT !.stage = "Kept"])
      BY RowFacts DEF Row, Finished
    <2>2. QED BY <1>3, <2>1, RelocatedKeeps DEF KeepCopy, KeepsOriginal
  <1>4. QED BY <1>1, <1>2, <1>3 DEF Asked, Move, UseExisting, Retry, AdmitRemoval, local

LEMMA NextKeeps == TypeOK /\ OriginalIsKept /\ [Next]_vars => OriginalIsKept'
  <1> SUFFICES ASSUME TypeOK, OriginalIsKept, [Next]_vars PROVE OriginalIsKept'
    OBVIOUS
  <1>1. CASE Servers \/ Interrupt \/ UNCHANGED vars
    <2>1. UNCHANGED <<rows, cache>>
      BY <1>1 DEF Servers, Execute, Refuse, TimeOut, ExecuteLate, Interrupt, vars, local
    <2>2. QED BY <2>1, UntouchedKeeps
  <1>2. QED BY <1>1, CommandKeeps, AskedKeeps, PeriodicKeeps DEF Next

LEMMA InitKeeps == Init => OriginalIsKept
  BY NoRowFinished DEF Init, OriginalIsKept

(* The original of a pending move is always readable, for any number of      *)
(* folders, accounts and moves, any loss of answers and any removal.         *)
THEOREM OriginalsAreKept == Spec => []OriginalIsKept
  BY InitKeeps, NextKeeps, TypeCorrect, PTL DEF Spec

----------------------------------------------------------------------------
(* Acknowledged moves. *)

(* Every identity in use was assigned before. *)
Issued ==
    /\ \A m \in copies \cup cache : m.uid < nextUid
    /\ \A u \in check.live : u < nextUid
    /\ \A u \in Uids : rows[u].stage # "none" => u < nextUid
    /\ holder.uid < nextUid /\ holder.found < nextUid
    /\ request.uid < nextUid /\ request.new < nextUid

(* An acknowledged removal happened, and the command that waits for it is    *)
(* about the message that was removed.                                       *)
Truthful ==
    /\ request.reply = "ok" /\ request.kind # "append" => ~Has(copies, request.uid)
    /\ holder.at = "moving" =>
          /\ request.uid = holder.uid
          /\ request.kind = IF Transfer(holder.rec) THEN "append" ELSE "move"
    /\ holder.at = "cleaning" => request.uid = holder.uid /\ request.kind = "expunge"
    /\ holder.at = "preparing" => holder.rec.stage = "Started"

AckInv == Issued /\ Truthful /\ SourceIsGone

LEMMA InitAck == Init => AckInv
  <1> SUFFICES ASSUME Init PROVE AckInv
    OBVIOUS
  <1>1. Issued
    BY DEF Init, Issued, At, NoRow, NoCheck, Idle, NoRequest
  <1>2. Truthful
    BY DEF Init, Truthful, Idle, NoRequest
  <1>3. SourceIsGone
    BY DEF Init, SourceIsGone, NoRow
  <1>4. QED BY <1>1, <1>2, <1>3 DEF AckInv

(* What a step of a command leaves alone. *)
Shape ==
    /\ UNCHANGED <<copies, nextUid>>
    /\ \A w \in Uids : w # holder.uid => rows'[w] = rows[w]
    /\ holder'.uid \in {holder.uid, 1}
    /\ holder'.found \in {0, holder.found, request.new} \cup {m.uid : m \in copies}
    /\ \A m \in cache' : m \in cache \/ m.uid = holder.found
    /\ check'.live = check.live

Moves(p) == holder'.at = p /\ holder'.uid = holder.uid /\ holder'.found = holder.found

LEMMA GotoShape ==
    ASSUME TypeOK, NEW p, Goto(p)
    PROVE  Moves(p) /\ holder'.rec = holder.rec
  BY DEF TypeOK, Holder, Goto, Moves

LEMMA SaveAsShape ==
    ASSUME TypeOK, NEW r, NEW p, SaveAs(r, p)
    PROVE  Moves(p) /\ holder'.rec = r /\ rows'[holder.uid] = r
           /\ \A w \in Uids : w # holder.uid => rows'[w] = rows[w]
  <1>1. holder.uid \in Uids
    BY CommandFacts
  <1>2. QED BY <1>1 DEF TypeOK, Holder, SaveAs, Moves

LEMMA IdleShape ==
    ASSUME Release
    PROVE  holder'.at = "idle" /\ holder'.uid = 1 /\ holder'.found = 0
  BY DEF Release, Idle

LEMMA SaveShape ==
    ASSUME TypeOK, NEW r, Save(r)
    PROVE  /\ holder'.at = "idle" /\ holder'.uid = 1 /\ holder'.found = 0
           /\ rows'[holder.uid] = r
           /\ \A w \in Uids : w # holder.uid => rows'[w] = rows[w]
  <1>1. holder.uid \in Uids
    BY CommandFacts
  <1>2. QED BY <1>1, IdleShape DEF TypeOK, Save

(* What has to be shown of a step of a command. *)
Step ==
    /\ Shape
    /\ holder'.at = "preparing" => holder'.rec.stage = "Started"
    /\ \/ UNCHANGED rows
       \/ rows'[holder.uid].stage \in {"Committed", "Located"} => ~Has(copies, holder.uid)
    /\ request' = NoRequest \/ UNCHANGED request
    /\ holder'.at \notin {"moving", "cleaning"}

LEMMA GiveUpStep ==
    ASSUME TypeOK, GiveUp, Quiet \/ Consume
    PROVE  Step
  BY IdleShape DEF GiveUp, Quiet, Consume, Step, Shape, local, server

LEMMA SaveStep ==
    ASSUME TypeOK, NEW r, Save(r), UNCHANGED <<cache, check>>, Quiet \/ Consume,
           r.stage \in {"Committed", "Located"} => ~Has(copies, holder.uid)
    PROVE  Step
  BY SaveShape DEF Quiet, Consume, Step, Shape, server

LEMMA GotoStep ==
    ASSUME TypeOK, NEW p, Goto(p), UNCHANGED local, Quiet,
           p \notin {"moving", "cleaning", "preparing"}
    PROVE  Step
  BY GotoShape DEF Moves, Quiet, Step, Shape, local, server

LEMMA SaveAsStep ==
    ASSUME TypeOK, NEW r, NEW p, SaveAs(r, p), UNCHANGED <<cache, check>>, Quiet \/ Consume,
           p \notin {"moving", "cleaning", "preparing"},
           r.stage \in {"Committed", "Located"} => ~Has(copies, holder.uid)
    PROVE  Step
  BY SaveAsShape DEF Moves, Quiet, Consume, Step, Shape, server

LEMMA ToLocalStep ==
    ASSUME TypeOK, NEW r \in Row, ToLocal(r), Quiet \/ Consume
    PROVE  Step
  <1> DEFINE next == [r EXCEPT !.stage = "Local"]
  <1>1. next.stage = "Local"
    BY DEF Row
  <1>2. CASE Save(next) /\ UNCHANGED <<cache, check>>
    <2> HIDE DEF next
    <2>1. QED BY <1>1, <1>2, SaveStep
  <1>3. QED BY <1>2, GiveUpStep DEF ToLocal

LEMMA PrepareStep == TypeOK /\ Truthful /\ Prepare => Step
  <1> SUFFICES ASSUME TypeOK, Truthful, Prepare PROVE Step
    OBVIOUS
  <1> DEFINE next == [holder.rec EXCEPT !.stage = "Local"]
  <1>1. holder.rec.stage = "Started" /\ next.stage = "Local" /\ Quiet
    BY CommandFacts DEF Prepare, Truthful, Row
  <1>2. CASE GiveUp
    BY <1>1, <1>2, GiveUpStep
  <1>3. CASE SaveAs(holder.rec, "submitting") /\ UNCHANGED <<cache, check>>
    BY <1>1, <1>3, SaveAsStep
  <1>4. CASE Save(next) /\ UNCHANGED <<cache, check>>
    <2> HIDE DEF next
    <2>1. QED BY <1>1, <1>4, SaveStep
  <1>5. QED BY <1>2, <1>3, <1>4 DEF Prepare

LEMMA ReprepareStep == TypeOK /\ Reprepare => Step
  <1> SUFFICES ASSUME TypeOK, Reprepare PROVE Step
    OBVIOUS
  <1>1. CASE Goto("submitting") /\ UNCHANGED local
    BY <1>1, GotoStep DEF Reprepare
  <1>2. CASE ToLocal(holder.rec)
    BY <1>2, CommandFacts, ToLocalStep DEF Reprepare
  <1>3. QED BY <1>1, <1>2, GiveUpStep DEF Reprepare

LEMMA RecoverStep == TypeOK /\ Recover => Step
  <1> SUFFICES ASSUME TypeOK, Recover PROVE Step
    OBVIOUS
  <1>1. CASE Goto("locating") /\ UNCHANGED local
    BY <1>1, GotoStep DEF Recover
  <1>2. CASE Goto("repreparing") /\ UNCHANGED local
    BY <1>2, GotoStep DEF Recover
  <1>3. CASE GiveUp
    BY <1>3, GiveUpStep DEF Recover
  <1>4. QED BY <1>1, <1>2, <1>3 DEF Recover

LEMMA SubmittedStep == TypeOK /\ Truthful /\ Submitted => Step
  <1> SUFFICES ASSUME TypeOK, Truthful, Submitted PROVE Step
    OBVIOUS
  <1> DEFINE stage == IF Transfer(holder.rec) THEN "Copied" ELSE "Committed"
             place == IF Transfer(holder.rec) THEN "removing" ELSE "resolving"
             next == Checkpoint(stage, request.new)
  <1>1. CASE GiveUp
    BY <1>1, GiveUpStep DEF Submitted
  <1>2. CASE ToLocal(holder.rec)
    BY <1>2, CommandFacts, ToLocalStep DEF Submitted
  <1>3. CASE Save(NoRow) /\ UNCHANGED <<cache, check>>
    BY <1>3, SaveStep DEF Submitted, NoRow
  <1>4. CASE /\ Answered("moving", "ok")
             /\ rows' = [rows EXCEPT ![holder.uid] = next]
             /\ holder' = [holder EXCEPT !.at = place, !.rec = next, !.found = request.new]
             /\ UNCHANGED <<cache, check>>
    <2>1. next.stage = stage
      BY CommandFacts DEF Checkpoint, Row
    <2>2. stage = "Committed" => ~Has(copies, holder.uid)
      BY <1>4 DEF Answered, Truthful
    <2>3. stage \in {"Copied", "Committed"} /\ place \in {"removing", "resolving"}
      OBVIOUS
    <2> HIDE DEF stage, place, next
    <2>4. holder'.at = place /\ holder'.uid = holder.uid /\ holder'.found = request.new
      BY <1>4 DEF TypeOK, Holder
    <2>5. /\ rows'[holder.uid] = next
          /\ \A w \in Uids : w # holder.uid => rows'[w] = rows[w]
      BY <1>4, CommandFacts DEF TypeOK
    <2>6. Shape
      BY <1>4, <2>4, <2>5 DEF Shape, Submitted, Consume
    <2>7. QED BY <2>1, <2>2, <2>3, <2>4, <2>5, <2>6 DEF Step, Submitted, Consume
  <1>5. QED BY <1>1, <1>2, <1>3, <1>4 DEF Submitted

LEMMA LocateStep == TypeOK /\ Locate => Step
  <1> SUFFICES ASSUME TypeOK, Locate PROVE Step
    OBVIOUS
  <1>1. CASE GiveUp
    BY <1>1, GiveUpStep DEF Locate
  <1>2. ASSUME NEW v \in Found(holder.rec), UNCHANGED <<cache, check>>,
               rows' = [rows EXCEPT ![holder.uid] = Checkpoint("Copied", v)],
               holder' = [holder EXCEPT !.at = "removing", !.found = v,
                                        !.rec = Checkpoint("Copied", v)]
        PROVE  Step
    <2>1. Checkpoint("Copied", v).stage = "Copied"
      BY CommandFacts DEF Checkpoint, Row
    <2>2. holder'.at = "removing" /\ holder'.uid = holder.uid /\ holder'.found = v
      BY <1>2 DEF TypeOK, Holder
    <2>3. /\ rows'[holder.uid] = Checkpoint("Copied", v)
          /\ \A w \in Uids : w # holder.uid => rows'[w] = rows[w]
      BY <1>2, CommandFacts DEF TypeOK
    <2>4. v \in {m.uid : m \in copies}
      BY FoundFacts
    <2>5. Quiet
      BY DEF Locate
    <2>6. Shape
      BY <1>2, <2>2, <2>3, <2>4, <2>5 DEF Shape, Quiet, server
    <2>7. QED BY <2>1, <2>2, <2>3, <2>5, <2>6 DEF Step, Quiet, server
  <1>3. ASSUME NEW v \in Found(holder.rec), UNCHANGED <<rows, cache, check>>,
               holder' = [holder EXCEPT !.found = v, !.at =
                            IF holder.rec.stage = "Copied" THEN "removing" ELSE "resolving"]
        PROVE  Step
    <2>1. /\ holder'.at \in {"removing", "resolving"}
          /\ holder'.uid = holder.uid /\ holder'.found = v
      BY <1>3 DEF TypeOK, Holder
    <2>2. v \in {m.uid : m \in copies}
      BY FoundFacts
    <2>3. Quiet
      BY DEF Locate
    <2>4. Shape
      BY <1>3, <2>1, <2>2, <2>3 DEF Shape, Quiet, server
    <2>5. QED BY <1>3, <2>1, <2>3, <2>4 DEF Step, Quiet, server
  <1>4. QED BY <1>1, <1>2, <1>3 DEF Locate

LEMMA CleanedStep == TypeOK /\ Truthful /\ Cleaned => Step
  <1> SUFFICES ASSUME TypeOK, Truthful, Cleaned PROVE Step
    OBVIOUS
  <1>1. CASE GiveUp
    BY <1>1, GiveUpStep DEF Cleaned
  <1>2. CASE /\ Answered("cleaning", "ok")
             /\ SaveAs(Checkpoint("Committed", holder.rec.current), "resolving")
             /\ UNCHANGED <<cache, check>>
    <2>1. ~Has(copies, holder.uid)
      BY <1>2 DEF Answered, Truthful
    <2>2. QED BY <1>2, <2>1, SaveAsStep DEF Cleaned
  <1>3. QED BY <1>1, <1>2 DEF Cleaned

LEMMA ResolveStep == TypeOK /\ SourceIsGone /\ Resolve => Step
  <1> SUFFICES ASSUME TypeOK, SourceIsGone, Resolve PROVE Step
    OBVIOUS
  <1> DEFINE next == [holder.rec EXCEPT !.stage = "Located", !.current = holder.found]
  <1>1. CASE GiveUp
    BY <1>1, GiveUpStep DEF Resolve
  <1>2. CASE /\ Current /\ holder.rec.stage = "Committed"
             /\ Relocated(holder.uid, holder.rec.from, holder.found, holder.rec.dest)
             /\ Save(next)
    <2>1. ~Has(copies, holder.uid)
      BY <1>2, CommandFacts DEF Current, SourceIsGone
    <2>2. \A m \in cache' : m \in cache \/ m.uid = holder.found
      BY <1>2, AtFacts DEF Relocated
    <2>3. check'.live = check.live
      BY <1>2 DEF Relocated, TypeOK, Check
    <2> HIDE DEF next
    <2>4. QED BY <1>2, <2>1, <2>2, <2>3, SaveShape DEF Step, Shape, Resolve, Quiet, server
  <1>3. QED BY <1>1, <1>2 DEF Resolve

LEMMA ReleaseStep == TypeOK /\ ReleaseUnapplied => Step
  <1> SUFFICES ASSUME TypeOK, ReleaseUnapplied PROVE Step
    OBVIOUS
  <1> DEFINE next == [holder.rec EXCEPT !.dest = holder.to, !.stage = "Started"]
  <1>1. CASE GiveUp
    BY <1>1, GiveUpStep DEF ReleaseUnapplied
  <1>2. CASE Goto("recovering") /\ UNCHANGED local
    BY <1>2, GotoStep DEF ReleaseUnapplied
  <1>3. CASE /\ rows' = [rows EXCEPT ![holder.uid] = NoRow]
             /\ holder' = [holder EXCEPT !.at = "preparing", !.rec = next]
             /\ UNCHANGED <<cache, check>>
    <2>1. next.stage = "Started"
      BY CommandFacts DEF Row
    <2> HIDE DEF next
    <2>2. holder'.at = "preparing" /\ holder'.rec = next /\ holder'.uid = holder.uid
            /\ holder'.found = holder.found
      BY <1>3 DEF TypeOK, Holder
    <2>3. /\ rows'[holder.uid] = NoRow
          /\ \A w \in Uids : w # holder.uid => rows'[w] = rows[w]
      BY <1>3, CommandFacts DEF TypeOK
    <2>4. QED BY <1>3, <2>1, <2>2, <2>3 DEF Step, Shape, ReleaseUnapplied, Quiet, server, NoRow
  <1>4. QED BY <1>1, <1>2, <1>3 DEF ReleaseUnapplied

(* A step of a command that does not ask a server for anything.              *)
LEMMA StepAck ==
    ASSUME TypeOK, AckInv, Step
    PROVE  AckInv'
  <1>1. nextUid \in Nat /\ 1 < nextUid /\ 0 < nextUid
    <2>1. holder.uid \in Uids /\ holder.uid < nextUid /\ nextUid \in Nat
      BY CommandFacts DEF AckInv, Issued, TypeOK
    <2>2. QED BY <2>1 DEF Uids
  <1>2. request'.uid < nextUid /\ request'.new < nextUid
    BY <1>1 DEF Step, NoRequest, AckInv, Issued
  <1>3. holder'.uid < nextUid /\ holder'.found < nextUid
    BY <1>1 DEF Step, Shape, AckInv, Issued
  <1>4. ASSUME NEW w \in Uids, rows'[w].stage # "none" PROVE w < nextUid
    BY <1>4 DEF Step, Shape, AckInv, Issued
  <1>5. ASSUME NEW m \in copies' \cup cache' PROVE m.uid < nextUid
    BY DEF Step, Shape, AckInv, Issued
  <1>6. Issued'
    BY <1>2, <1>3, <1>4, <1>5 DEF Step, Shape, AckInv, Issued
  <1>7. Truthful'
    <2>1. request'.reply = "ok" => UNCHANGED request
      BY DEF Step, NoRequest
    <2>2. QED BY <2>1 DEF Step, Shape, AckInv, Truthful, Has
  <1>8. SourceIsGone'
    <2> SUFFICES ASSUME NEW w \in Uids, rows'[w].stage \in {"Committed", "Located"}
                 PROVE  ~Has(copies, w)
      BY DEF Step, Shape, SourceIsGone, Has
    <2>1. CASE rows'[w] = rows[w]
      BY <2>1 DEF AckInv, SourceIsGone
    <2>2. CASE rows'[w] # rows[w]
      <3>1. w = holder.uid
        BY <2>2 DEF Step, Shape
      <3>2. QED BY <2>2, <3>1 DEF Step
    <2>3. QED BY <2>1, <2>2
  <1>9. QED BY <1>6, <1>7, <1>8 DEF AckInv

LEMMA SameAck == AckInv /\ UNCHANGED <<server, rows, cache, check, holder>> => AckInv'
  BY DEF AckInv, Issued, Truthful, SourceIsGone, Has, server

(* Asking a server: the request is about the command's own message.          *)
LEMMA AskAck ==
    ASSUME TypeOK, AckInv, NEW kind, NEW place, Ask(kind, place),
           \/ place = "moving" /\ kind = (IF Transfer(holder.rec) THEN "append" ELSE "move")
           \/ place = "cleaning" /\ kind = "expunge"
    PROVE  AckInv'
  <1>1. Moves(place) /\ holder'.rec = holder.rec
    BY GotoShape DEF Ask
  <1>2. /\ request'.uid = holder.uid /\ request'.new = 0 /\ request'.kind = kind
        /\ request'.reply = "none"
    BY DEF Ask
  <1>3. 0 < nextUid
    BY CommandFacts DEF AckInv, Issued, Uids, TypeOK
  <1>4. Issued'
    BY <1>1, <1>2, <1>3 DEF Ask, Moves, AckInv, Issued, local
  <1>5. Truthful'
    BY <1>1, <1>2 DEF Moves, Truthful, Transfer
  <1>6. SourceIsGone'
    BY DEF Ask, AckInv, SourceIsGone, Has, local
  <1>7. QED BY <1>4, <1>5, <1>6 DEF AckInv

LEMMA CommandAck == TypeOK /\ AckInv /\ Command => AckInv'
  <1> SUFFICES ASSUME TypeOK, AckInv, Command PROVE AckInv'
    OBVIOUS
  <1>1. CASE Submit
    BY <1>1, AskAck DEF Submit
  <1>2. CASE RemoveSource
    BY <1>2, AskAck DEF RemoveSource
  <1>3. CASE ~Submit /\ ~RemoveSource
    <2>1. Truthful /\ SourceIsGone
      BY DEF AckInv
    <2>2. Step
      BY <1>3, <2>1, PrepareStep, ReprepareStep, RecoverStep, SubmittedStep, LocateStep,
         CleanedStep, ResolveStep, ReleaseStep DEF Command
    <2>3. QED BY <2>2, StepAck
  <1>4. QED BY <1>1, <1>2, <1>3

(* Servers make copies only under identities nobody has used.                *)
LEMMA ServerAck ==
    ASSUME TypeOK, AckInv, UNCHANGED <<local, holder>>, nextUid' \in Nat, nextUid <= nextUid',
           \A m \in copies' : m \in copies \/ (m.uid = nextUid /\ nextUid < nextUid'),
           UNCHANGED <<request.kind, request.uid>>, request'.new < nextUid',
           request'.reply = "ok" /\ request.kind # "append" =>
               request.reply = "ok" \/ ~Has(copies', request.uid)
    PROVE  AckInv'
  <1>0. nextUid \in Nat /\ \A u \in Uids : u \in Nat
    BY DEF TypeOK, Uids
  <1>1. ASSUME NEW u, u < nextUid, ~Has(copies, u) PROVE ~Has(copies', u)
    BY <1>0, <1>1 DEF Has
  <1>2. Issued'
    <2>1. ASSUME NEW i \in Nat, i < nextUid PROVE i < nextUid'
      BY <1>0, <2>1
    <2>2. /\ holder.uid \in Nat /\ holder.found \in Nat /\ request.uid \in Nat
          /\ \A m \in copies \cup cache : m.uid \in Nat
          /\ \A u \in check.live : u \in Nat
      BY <1>0, CommandFacts DEF TypeOK, Request, Check
    <2>3. /\ holder'.uid < nextUid' /\ holder'.found < nextUid' /\ request'.uid < nextUid'
      BY <2>1, <2>2 DEF AckInv, Issued
    <2>4. \A m \in copies' \cup cache' : m.uid < nextUid'
      BY <1>0, <2>1, <2>2 DEF AckInv, Issued, local
    <2>5. \A u \in check'.live : u < nextUid'
      BY <2>1, <2>2 DEF AckInv, Issued, local
    <2>6. \A u \in Uids : rows'[u].stage # "none" => u < nextUid'
      BY <1>0, <2>1 DEF AckInv, Issued, local
    <2>7. QED BY <2>3, <2>4, <2>5, <2>6 DEF Issued
  <1>3. Truthful'
    <2>1. request'.reply = "ok" /\ request'.kind # "append" => ~Has(copies', request'.uid)
      BY <1>1 DEF AckInv, Issued, Truthful
    <2>2. QED BY <2>1 DEF AckInv, Truthful, Transfer
  <1>4. SourceIsGone'
    BY <1>1 DEF AckInv, Issued, SourceIsGone, local
  <1>5. QED BY <1>2, <1>3, <1>4 DEF AckInv

(* An outcome that is reported removed the message, unless it was uploaded.  *)
LEMMA OutcomeFacts ==
    ASSUME TypeOK, NEW c, NEW o \in Outcomes(c), Happens(o)
    PROVE  /\ nextUid' \in Nat /\ nextUid <= nextUid'
           /\ o.made < nextUid' /\ o.made \in {0, nextUid}
           /\ \A m \in copies' : m \in copies \/ (m.uid = nextUid /\ nextUid < nextUid')
           /\ (c.uid < nextUid /\ c.uid \in Nat /\ c.kind # "append" /\ o.reply = "ok")
                 => ~Has(copies', c.uid)
  <1>1. nextUid \in 1 .. MaxUid + 1
    BY DEF TypeOK
  <1> DEFINE old == {m \in copies : m.uid = c.uid}
  <1>2. \/ o.made = nextUid /\ o.copies = (copies \ old) \cup {At(nextUid, c.to)}
        \/ /\ o.made = nextUid /\ o.copies = copies \cup {At(nextUid, c.to)}
           /\ c.kind = "append" \/ o.reply = "lost"
        \/ o.made = 0 /\ o.copies = copies \ old
    BY DEF Outcomes
  <1>3. At(nextUid, c.to).uid = nextUid
    BY AtFacts
  <1>4. QED BY <1>1, <1>2, <1>3 DEF Happens, Has

LEMMA ServersAck == TypeOK /\ AckInv /\ Servers => AckInv'
  <1> SUFFICES ASSUME TypeOK, AckInv, Servers PROVE AckInv'
    OBVIOUS
  <1>0. /\ request \in Request /\ nextUid \in Nat /\ request.uid \in Nat
        /\ request.uid < nextUid /\ request.new < nextUid /\ 0 < nextUid
    BY DEF TypeOK, Request, Uids, AckInv, Issued
  <1>1. CASE Execute
    <2>1. PICK o \in Outcomes(request) :
            \E reply \in {o.reply, "lost"}, new \in {0, o.made} :
               /\ Happens(o)
               /\ request' = [request EXCEPT !.reply = reply,
                                             !.new = IF reply = "ok" THEN new ELSE 0]
      BY <1>1 DEF Execute
    <2> PICK reply \in {o.reply, "lost"}, new \in {0, o.made} :
               /\ Happens(o)
               /\ request' = [request EXCEPT !.reply = reply,
                                             !.new = IF reply = "ok" THEN new ELSE 0]
      BY <2>1
    <2>2. /\ nextUid' \in Nat /\ nextUid <= nextUid' /\ o.made < nextUid'
          /\ \A m \in copies' : m \in copies \/ (m.uid = nextUid /\ nextUid < nextUid')
          /\ request.kind # "append" /\ o.reply = "ok" => ~Has(copies', request.uid)
      BY <1>0, OutcomeFacts
    <2>3. /\ request'.kind = request.kind /\ request'.uid = request.uid
          /\ request'.reply = reply /\ request'.new \in {0, o.made}
      BY <1>0 DEF Request
    <2>4. request'.new < nextUid'
      BY <1>0, <2>2, <2>3
    <2>5. UNCHANGED <<local, holder>>
      BY <1>1 DEF Execute
    <2>6. QED BY <2>2, <2>3, <2>4, <2>5, ServerAck
  <1>2. CASE Refuse
    <2>1. /\ request'.kind = request.kind /\ request'.uid = request.uid
          /\ request'.reply = "refused" /\ request'.new = request.new
      BY <1>0, <1>2 DEF Refuse, Request
    <2>2. QED BY <1>0, <1>2, <2>1, ServerAck DEF Refuse
  <1>3. CASE TimeOut
    <2>1. /\ request'.kind = request.kind /\ request'.uid = request.uid
          /\ request'.reply = "lost" /\ request'.new = request.new
      BY <1>0, <1>3 DEF TimeOut, Request
    <2>2. QED BY <1>0, <1>3, <2>1, ServerAck DEF TimeOut
  <1>4. ASSUME NEW c \in late, ExecuteLate(c) PROVE AckInv'
    <2>1. PICK o \in Outcomes(c) : Happens(o)
      BY <1>4 DEF ExecuteLate
    <2>2. /\ nextUid' \in Nat /\ nextUid <= nextUid'
          /\ \A m \in copies' : m \in copies \/ (m.uid = nextUid /\ nextUid < nextUid')
      BY <2>1, OutcomeFacts
    <2>3. request'.new < nextUid'
      BY <1>0, <1>4, <2>2 DEF ExecuteLate, TypeOK, Request, Uids
    <2>4. QED BY <1>4, <2>2, <2>3, ServerAck DEF ExecuteLate
  <1>5. QED BY <1>1, <1>2, <1>3, <1>4 DEF Servers

(* A command begins with a message somebody holds.                           *)
LEMMA StartAck ==
    ASSUME TypeOK, AckInv, NEW u \in Uids, NEW place, NEW r, NEW p, Start(u, place, r, p),
           UNCHANGED <<server, local>>, u < nextUid,
           place \notin {"moving", "cleaning"}, place = "preparing" => r.stage = "Started"
    PROVE  AckInv'
  <1>1. /\ holder'.at = place /\ holder'.uid = u /\ holder'.rec = r /\ holder'.found = 0
    BY DEF Start, Idle
  <1>2. 0 < nextUid
    BY CommandFacts DEF AckInv, Issued, Uids, TypeOK
  <1>3. Issued'
    BY <1>1, <1>2 DEF AckInv, Issued, server, local
  <1>4. Truthful'
    BY <1>1 DEF AckInv, Truthful, Has, server
  <1>5. SourceIsGone'
    BY DEF AckInv, SourceIsGone, Has, server, local
  <1>6. QED BY <1>3, <1>4, <1>5 DEF AckInv

(* Steps on the local database alone.                                        *)
LEMMA LocalAck ==
    ASSUME TypeOK, AckInv, UNCHANGED <<server, holder>>,
           \A m \in cache' : m \in cache \/ m.uid = 0 \/ m.uid \in check.live,
           \A u \in check'.live : u \in check.live \/ Has(copies, u),
           \A u \in Uids :
              \/ rows'[u] = rows[u]
              \/ /\ rows'[u].stage \notin {"Committed", "Located"}
                 /\ rows'[u].stage # "none" => rows[u].stage # "none"
    PROVE  AckInv'
  <1>1. 0 < nextUid
    BY CommandFacts DEF AckInv, Issued, Uids, TypeOK
  <1>2. \A m \in copies' \cup cache' : m.uid < nextUid
    BY <1>1 DEF AckInv, Issued, server
  <1>3. \A u \in check'.live : u < nextUid
    BY DEF AckInv, Issued, Has
  <1>4. \A u \in Uids : rows'[u].stage # "none" => u < nextUid
    BY DEF AckInv, Issued
  <1>5. Issued'
    BY <1>2, <1>3, <1>4 DEF AckInv, Issued, server
  <1>6. Truthful'
    BY DEF AckInv, Truthful, Has, server
  <1>7. SourceIsGone'
    BY DEF AckInv, SourceIsGone, Has, server
  <1>8. QED BY <1>5, <1>6, <1>7 DEF AckInv

LEMMA PendingIssued ==
    ASSUME AckInv, NEW u \in Uids, rows[u].stage # "none"
    PROVE  u < nextUid
  BY DEF AckInv, Issued

LEMMA AskedAck == TypeOK /\ AckInv /\ Asked => AckInv'
  <1> SUFFICES ASSUME TypeOK, AckInv, Asked PROVE AckInv'
    OBVIOUS
  <1>1. ASSUME NEW u \in Uids, NEW f \in Folders, NEW p \in Folders, Move(u, f, p)
        PROVE  AckInv'
    <2> DEFINE new == [from |-> f, dest |-> p, stage |-> "Started", current |-> 0]
    <2>1. At(u, f) \in cache /\ UNCHANGED <<server, local>>
      BY <1>1 DEF Move
    <2>2. u < nextUid
      BY <2>1, AtFacts DEF AckInv, Issued
    <2>3. CASE Start(u, "preparing", new, p)
      BY <2>1, <2>2, <2>3, StartAck
    <2>4. CASE Start(u, "recovering", rows[u], p)
      BY <2>1, <2>2, <2>4, StartAck
    <2>5. CASE Start(u, "releasing", rows[u], p)
      BY <2>1, <2>2, <2>5, StartAck
    <2>6. QED BY <1>1, <2>3, <2>4, <2>5 DEF Move
  <1>2. ASSUME NEW u \in Uids, UndoLocal(u) PROVE AckInv'
    <2>1. \A w \in Uids : rows'[w] = rows[w] \/ rows'[w].stage = "none"
      BY <1>2 DEF UndoLocal, TypeOK, NoRow
    <2>2. QED BY <1>2, <2>1, LocalAck DEF UndoLocal
  <1>3. ASSUME NEW u \in Uids, KeepCopy(u) PROVE AckInv'
    <2>0. /\ rows' = [rows EXCEPT ![u] = [rows[u] EXCEPT !.stage = "Kept"]]
          /\ [rows[u] EXCEPT !.stage = "Kept"].stage = "Kept" /\ rows[u].stage # "none"
      BY <1>3, RowFacts DEF KeepCopy, Finished, Row
    <2>1. \A w \in Uids : \/ rows'[w] = rows[w]
                          \/ rows'[w].stage = "Kept" /\ rows[w].stage # "none"
      BY <2>0 DEF TypeOK
    <2>2. \A m \in cache' : m \in cache \/ m.uid = 0
      BY <1>3, AtFacts DEF KeepCopy, KeepsOriginal, Relocated
    <2>3. check'.live = check.live
      BY <1>3 DEF KeepCopy, KeepsOriginal, Relocated, TypeOK, Check
    <2>4. QED BY <1>3, <2>1, <2>2, <2>3, LocalAck DEF KeepCopy
  <1>4. ASSUME NEW u \in Uids, UseExisting(u) \/ Retry(u) PROVE AckInv'
    <2>1. u < nextUid
      BY <1>4, PendingIssued DEF UseExisting, Retry, Finished
    <2>2. CASE UseExisting(u)
      BY <2>1, <2>2, StartAck DEF UseExisting
    <2>3. CASE Retry(u)
      BY <2>1, <2>3, StartAck DEF Retry
    <2>4. QED BY <1>4, <2>2, <2>3
  <1>5. ASSUME NEW a \in MailAccounts, AdmitRemoval(a) PROVE AckInv'
    BY <1>5, SameAck DEF AdmitRemoval, local
  <1>6. QED BY <1>1, <1>2, <1>3, <1>4, <1>5 DEF Asked

LEMMA PeriodicAck == TypeOK /\ AckInv /\ Periodic => AckInv'
  <1> SUFFICES ASSUME TypeOK, AckInv, Periodic PROVE AckInv'
    OBVIOUS
  <1>1. ASSUME NEW u \in Uids, Background(u) PROVE AckInv'
    <2>1. u < nextUid
      BY <1>1, PendingIssued DEF Background, Lookups
    <2>2. QED BY <1>1, <2>1, StartAck DEF Background
  <1>2. ASSUME NEW f \in Folders, ListFolder(f) PROVE AckInv'
    <2>1. check'.live = {m.uid : m \in In(copies, f)}
      BY <1>2 DEF ListFolder, NoCheck
    <2>2. \A u \in check'.live : Has(copies, u)
      BY <2>1 DEF In, Has
    <2>3. QED BY <1>2, <2>2, LocalAck DEF ListFolder
  <1>3. ASSUME NEW v \in Uids, Arrive(v) PROVE AckInv'
    <2>1. \A m \in cache' : m \in cache \/ m.uid \in check.live
      BY <1>3, AtFacts DEF Arrive
    <2>2. QED BY <1>3, <2>1, LocalAck DEF Arrive
  <1>4. CASE Reconcile
    <2>1. \A m \in cache' : m \in cache
      BY <1>4 DEF Reconcile
    <2>2. check'.live = {}
      BY <1>4 DEF Reconcile, NoCheck
    <2>3. QED BY <1>4, <2>1, <2>2, LocalAck DEF Reconcile
  <1>5. ASSUME NEW a \in MailAccounts, Purge(a) PROVE AckInv'
    <2>1. \A w \in Uids : rows'[w] = rows[w] \/ rows'[w].stage = "none"
      BY <1>5 DEF Purge, NoRow
    <2>2. \A m \in cache' : m \in cache \/ m.uid = 0
      BY <1>5, AtFacts DEF Purge
    <2>3. check'.live = check.live
      BY <1>5 DEF Purge, TypeOK, Check
    <2>4. QED BY <1>5, <2>1, <2>2, <2>3, LocalAck DEF Purge
  <1>6. QED BY <1>1, <1>2, <1>3, <1>4, <1>5 DEF Periodic

(* A stopped program forgets its command, its request and its check.         *)
LEMMA InterruptAck == TypeOK /\ AckInv /\ Interrupt => AckInv'
  <1> SUFFICES ASSUME TypeOK, AckInv, Interrupt PROVE AckInv'
    OBVIOUS
  <1>1. nextUid \in Nat /\ 1 < nextUid /\ 0 < nextUid
    BY CommandFacts DEF AckInv, Issued, Uids, TypeOK
  <1>2. /\ holder'.at = "idle" /\ holder'.uid = 1 /\ holder'.found = 0
        /\ request'.reply = "none" /\ request'.uid = 1 /\ request'.new = 0
    BY IdleShape DEF Interrupt, NoRequest
  <1>3. \A u \in check'.live : u \in check.live
    BY DEF Interrupt, NoCheck
  <1>4. Issued'
    BY <1>1, <1>2, <1>3 DEF Interrupt, AckInv, Issued
  <1>5. Truthful'
    BY <1>2 DEF Truthful
  <1>6. SourceIsGone'
    BY DEF Interrupt, AckInv, SourceIsGone, Has
  <1>7. QED BY <1>4, <1>5, <1>6 DEF AckInv

LEMMA NextAck == TypeOK /\ AckInv /\ [Next]_vars => AckInv'
  BY CommandAck, AskedAck, PeriodicAck, ServersAck, InterruptAck, SameAck DEF Next, vars, local

(* A row says Committed or Located only of a message whose source is gone,   *)
(* even when servers copy without removing and carry out abandoned requests. *)
THEOREM SourcesAreGone == Spec => []SourceIsGone
  <1>1. AckInv => SourceIsGone
    BY DEF AckInv
  <1>2. QED BY <1>1, InitAck, NextAck, TypeCorrect, PTL DEF Spec

----------------------------------------------------------------------------
(* Copies that stand for the moves which may be sent again.                   *)

Of(rs, set, f) == {u \in set : rs[u].dest = f}
Covered(rs, set, held) ==
    \A f \in Folders : Cardinality(Of(rs, set, f)) <= Cardinality(In(held, f))

LEMMA UidsFinite ==
    ASSUME NEW S \in SUBSET Uids
    PROVE  IsFiniteSet(S) /\ Cardinality(S) \in Nat
  <1>1. IsFiniteSet(Uids)
    <2>1. 1 \in Int /\ MaxUid \in Int
      OBVIOUS
    <2>2. QED BY <2>1, FS_Interval DEF Uids
  <1>2. IsFiniteSet(S)
    BY <1>1, FS_Subset
  <1>3. QED BY <1>2, FS_CardinalityType

LEMMA InFinite ==
    ASSUME NEW S, IsFiniteSet(S), NEW f
    PROVE  IsFiniteSet(In(S, f)) /\ Cardinality(In(S, f)) \in Nat
  <1>1. In(S, f) \in SUBSET S
    BY DEF In
  <1>2. IsFiniteSet(In(S, f))
    BY <1>1, FS_Subset
  <1>3. QED BY <1>2, FS_CardinalityType

LEMMA CoveredLess ==
    ASSUME NEW rs, NEW rt, NEW S \in SUBSET Uids, NEW T \in SUBSET S,
           NEW C, NEW D, IsFiniteSet(D), C \subseteq D,
           \A u \in T : rt[u].dest = rs[u].dest, Covered(rs, S, C)
    PROVE  Covered(rt, T, D)
  <1> SUFFICES ASSUME NEW f \in Folders
               PROVE  Cardinality(Of(rt, T, f)) <= Cardinality(In(D, f))
    BY DEF Covered
  <1>1. IsFiniteSet(C)
    BY FS_Subset
  <1>2. Of(rs, S, f) \in SUBSET Uids /\ Of(rt, T, f) \in SUBSET Of(rs, S, f)
    BY DEF Of
  <1>3. Cardinality(Of(rt, T, f)) <= Cardinality(Of(rs, S, f))
    BY <1>2, UidsFinite, FS_Subset
  <1>4. In(C, f) \in SUBSET In(D, f)
    BY DEF In
  <1>5. Cardinality(In(C, f)) <= Cardinality(In(D, f))
    BY <1>4, InFinite, FS_Subset
  <1>6. Of(rt, T, f) \in SUBSET Uids
    BY <1>2
  <1>7. /\ Cardinality(Of(rt, T, f)) \in Nat /\ Cardinality(Of(rs, S, f)) \in Nat
        /\ Cardinality(In(C, f)) \in Nat /\ Cardinality(In(D, f)) \in Nat
    BY <1>1, <1>2, <1>6, UidsFinite, InFinite
  <1>8. Cardinality(Of(rs, S, f)) <= Cardinality(In(C, f))
    BY DEF Covered
  <1>9. QED BY <1>3, <1>5, <1>7, <1>8

(* A new copy stands for the move that made it.                              *)
LEMMA CoveredAdd ==
    ASSUME NEW rs, NEW S \in SUBSET Uids, NEW T \in SUBSET Uids, NEW u, T \subseteq S \cup {u},
           NEW C, IsFiniteSet(C), NEW m, m \notin C,
           u \in T => m.folder = rs[u].dest, Covered(rs, S, C)
    PROVE  Covered(rs, T, C \cup {m})
  <1> SUFFICES ASSUME NEW f \in Folders
               PROVE  Cardinality(Of(rs, T, f)) <= Cardinality(In(C \cup {m}, f))
    BY DEF Covered
  <1>1. /\ IsFiniteSet(Of(rs, S, f)) /\ Cardinality(Of(rs, S, f)) \in Nat
        /\ IsFiniteSet(Of(rs, T, f)) /\ Cardinality(Of(rs, T, f)) \in Nat
    <2>1. Of(rs, S, f) \in SUBSET Uids /\ Of(rs, T, f) \in SUBSET Uids
      BY DEF Of
    <2>2. QED BY <2>1, UidsFinite
  <1>2. IsFiniteSet(C \cup {m})
    BY FS_AddElement
  <1>3. /\ Cardinality(In(C, f)) \in Nat /\ Cardinality(In(C \cup {m}, f)) \in Nat
        /\ IsFiniteSet(In(C, f)) /\ IsFiniteSet(In(C \cup {m}, f))
    BY <1>2, InFinite
  <1>4. Cardinality(Of(rs, S, f)) <= Cardinality(In(C, f))
    BY DEF Covered
  <1>5. CASE m.folder = f
    <2>1. In(C \cup {m}, f) = In(C, f) \cup {m} /\ m \notin In(C, f)
      BY <1>5 DEF In
    <2>2. Cardinality(In(C \cup {m}, f)) = Cardinality(In(C, f)) + 1
      BY <1>3, <2>1, FS_AddElement
    <2>3. Of(rs, T, f) \in SUBSET (Of(rs, S, f) \cup {u})
      BY DEF Of
    <2>4. /\ IsFiniteSet(Of(rs, S, f) \cup {u})
          /\ Cardinality(Of(rs, S, f) \cup {u}) \in {Cardinality(Of(rs, S, f)), Cardinality(Of(rs, S, f)) + 1}
      BY <1>1, FS_AddElement
    <2>5. Cardinality(Of(rs, T, f)) <= Cardinality(Of(rs, S, f) \cup {u})
      BY <2>3, <2>4, FS_Subset
    <2>6. QED BY <1>1, <1>3, <1>4, <2>2, <2>4, <2>5
  <1>6. CASE m.folder # f
    <2>1. In(C \cup {m}, f) = In(C, f)
      BY <1>6 DEF In
    <2>2. Of(rs, T, f) \in SUBSET Of(rs, S, f)
      BY <1>6 DEF Of
    <2>3. Cardinality(Of(rs, T, f)) <= Cardinality(Of(rs, S, f))
      BY <1>1, <2>2, FS_Subset
    <2>4. QED BY <1>1, <1>3, <1>4, <2>1, <2>3
  <1>7. QED BY <1>5, <1>6

(* When a copy goes, the move it stood for waits again.                      *)
LEMMA CoveredRemove ==
    ASSUME NEW rs, NEW S \in SUBSET Uids, NEW C, IsFiniteSet(C), NEW m, Covered(rs, S, C)
    PROVE  \E X \in SUBSET S : /\ Cardinality(X) <= 1 /\ Covered(rs, S \ X, C \ {m})
  <1>1. IsFiniteSet(C \ {m})
    BY FS_RemoveElement
  <1>2. ASSUME NEW X \in SUBSET S, NEW f \in Folders, m.folder # f
        PROVE  Cardinality(Of(rs, S \ X, f)) <= Cardinality(In(C \ {m}, f))
    <2>1. In(C \ {m}, f) = In(C, f)
      BY <1>2 DEF In
    <2>2. Of(rs, S \ X, f) \in SUBSET Of(rs, S, f) /\ Of(rs, S, f) \in SUBSET Uids
      BY DEF Of
    <2>3. Of(rs, S \ X, f) \in SUBSET Uids
      BY <2>2
    <2>4. Cardinality(Of(rs, S \ X, f)) <= Cardinality(Of(rs, S, f))
      BY <2>2, UidsFinite, FS_Subset
    <2>5. Cardinality(Of(rs, S, f)) <= Cardinality(In(C, f))
      BY DEF Covered
    <2>6. /\ Cardinality(Of(rs, S, f)) \in Nat /\ Cardinality(Of(rs, S \ X, f)) \in Nat
          /\ Cardinality(In(C, f)) \in Nat
      BY <2>2, <2>3, UidsFinite, InFinite
    <2>7. QED BY <2>1, <2>4, <2>5, <2>6
  <1>3. CASE m.folder \in Folders /\ Of(rs, S, m.folder) # {}
    <2>1. PICK u \in S : rs[u].dest = m.folder
      BY <1>3 DEF Of
    <2> DEFINE f == m.folder
    <2>2. Of(rs, S \ {u}, f) = Of(rs, S, f) \ {u} /\ u \in Of(rs, S, f)
      BY <2>1 DEF Of
    <2>3. Of(rs, S, f) \in SUBSET Uids
      BY DEF Of
    <2>4. /\ Cardinality(Of(rs, S \ {u}, f)) = Cardinality(Of(rs, S, f)) - 1
          /\ Cardinality(Of(rs, S, f)) \in Nat
      <3>1. IsFiniteSet(Of(rs, S, f)) /\ Cardinality(Of(rs, S, f)) \in Nat
        BY <2>3, UidsFinite
      <3>2. Cardinality(Of(rs, S, f) \ {u}) = Cardinality(Of(rs, S, f)) - 1
        BY <2>2, <3>1, FS_RemoveElement
      <3>3. QED BY <2>2, <3>1, <3>2
    <2>5. /\ Cardinality(In(C \ {m}, f)) \in {Cardinality(In(C, f)), Cardinality(In(C, f)) - 1}
          /\ Cardinality(In(C, f)) \in Nat
      <3>1. In(C \ {m}, f) = In(C, f) \ {m}
        BY DEF In
      <3>2. QED BY <3>1, InFinite, FS_RemoveElement
    <2>6. Cardinality(Of(rs, S, f)) <= Cardinality(In(C, f))
      BY <1>3 DEF Covered
    <2>7. Cardinality(Of(rs, S \ {u}, f)) <= Cardinality(In(C \ {m}, f))
      BY <2>4, <2>5, <2>6
    <2>8. Covered(rs, S \ {u}, C \ {m})
      BY <1>2, <2>1, <2>7 DEF Covered
    <2>9. Cardinality({u}) <= 1 /\ {u} \in SUBSET S
      <3>1. Cardinality({u}) = 1
        BY FS_Singleton
      <3>2. QED BY <2>1, <3>1
    <2>10. QED BY <2>8, <2>9
  <1>4. CASE ~(m.folder \in Folders /\ Of(rs, S, m.folder) # {})
    <2>1. Cardinality({}) = 0
      BY FS_EmptySet
    <2>2. S \ {} = S
      OBVIOUS
    <2>3. ASSUME NEW f \in Folders, m.folder = f
          PROVE  Cardinality(Of(rs, S, f)) <= Cardinality(In(C \ {m}, f))
      <3>1. Of(rs, S, f) = {}
        BY <1>4, <2>3
      <3>2. Cardinality(In(C \ {m}, f)) \in Nat
        BY <1>1, InFinite
      <3>3. QED BY <2>1, <3>1, <3>2
    <2>4. Covered(rs, S \ {}, C \ {m})
      <3>1. ASSUME NEW f \in Folders
            PROVE  Cardinality(Of(rs, S \ {}, f)) <= Cardinality(In(C \ {m}, f))
        BY <1>2, <2>2, <2>3
      <3>2. QED BY <3>1 DEF Covered
    <2>5. QED BY <2>1, <2>4
  <1>5. QED BY <1>3, <1>4

(* No copy at the destination: whoever goes there waits.                     *)
LEMMA CoveredNone ==
    ASSUME NEW rs, NEW S \in SUBSET Uids, NEW C, Covered(rs, S, C), NEW f \in Folders,
           Cardinality(In(C, f)) = 0
    PROVE  \A u \in S : rs[u].dest # f
  <1>1. Of(rs, S, f) \in SUBSET Uids
    BY DEF Of
  <1>2. Cardinality(Of(rs, S, f)) \in Nat /\ IsFiniteSet(Of(rs, S, f))
    BY <1>1, UidsFinite
  <1>3. Cardinality(Of(rs, S, f)) = 0
    BY <1>2 DEF Covered
  <1>4. Of(rs, S, f) = {}
    BY <1>2, <1>3, FS_EmptySet
  <1>5. QED BY <1>4 DEF Of

----------------------------------------------------------------------------
(* What the copies cost and the moves pay.                                    *)

Cost(waiting) ==
    Cardinality(copies) + Cardinality(waiting) + Cardinality(late) + (IF Sending THEN 1 ELSE 0)
Payment(waiting) ==
    /\ waiting \in SUBSET Uids
    /\ Covered(rows, Repeatable \ waiting, copies)
    /\ Cost(waiting) <= 1 + moves

LEMMA PaidMeans == Paid <=> \E waiting \in SUBSET Uids : Payment(waiting)
  BY DEF Paid, Stood, Covered, Of, Cost, Payment

LEMMA PaidNext ==
    ASSUME NEW waiting, Payment(waiting)'
    PROVE  Paid'
  <1>1. waiting \in SUBSET Uids /\ Cost(waiting)' <= 1 + moves'
    BY DEF Payment, Uids
  <1>2. \A f \in Folders : Cardinality(Stood(waiting, f))' <= Cardinality(In(copies, f))'
    BY DEF Payment, Stood, Covered, Of
  <1>3. QED BY <1>1, <1>2 DEF Paid, Cost

LEMMA Sizes ==
    ASSUME TypeOK, Counted, NEW waiting \in SUBSET Uids
    PROVE  /\ Cardinality(copies) \in Nat /\ Cardinality(late) \in Nat
           /\ Cardinality(waiting) \in Nat /\ moves \in Nat
           /\ Repeatable \in SUBSET Uids /\ (Repeatable \ waiting) \in SUBSET Uids
  BY UidsFinite, FS_CardinalityType DEF Counted, TypeOK, Repeatable

(* The moves that may be sent again keep their destinations. *)
Stays(u) == rows'[u].dest = rows[u].dest

LEMMA PaidSame ==
    ASSUME TypeOK, CopiesInv, UNCHANGED <<copies, late>>,
           moves' \in Nat, moves <= moves', Sending' => Sending \/ moves' = moves + 1,
           \A u \in Repeatable' : u \in Repeatable /\ Stays(u)
    PROVE  Paid'
  <1>1. PICK w \in SUBSET Uids : Payment(w)
    BY PaidMeans DEF CopiesInv
  <1>2. /\ Cardinality(copies) \in Nat /\ Cardinality(late) \in Nat
        /\ Cardinality(w) \in Nat /\ moves \in Nat /\ (Repeatable \ w) \in SUBSET Uids
        /\ IsFiniteSet(copies)
    BY Sizes DEF CopiesInv, Counted
  <1>3. Covered(rows, Repeatable \ w, copies) /\ Cost(w) <= 1 + moves
    BY <1>1 DEF Payment
  <1>4. Covered(rows', Repeatable' \ w, copies)
    <2>1. (Repeatable' \ w) \in SUBSET (Repeatable \ w)
      OBVIOUS
    <2>2. \A u \in Repeatable' \ w : rows'[u].dest = rows[u].dest
      BY DEF Stays
    <2>3. QED BY <1>2, <1>3, <2>1, <2>2, CoveredLess
  <1>5. Cost(w)' <= 1 + moves'
    BY <1>2, <1>3 DEF Cost
  <1>6. Payment(w)'
    BY <1>4, <1>5 DEF Payment, Covered
  <1>7. QED BY <1>6, PaidNext

(* A request that had no effect: its move waits.                             *)
LEMMA PaidReturn ==
    ASSUME TypeOK, CopiesInv, UNCHANGED <<copies, late, moves>>, Sending, ~Sending',
           \A u \in Repeatable' : u = holder.uid \/ (u \in Repeatable /\ Stays(u))
    PROVE  Paid'
  <1>1. PICK w \in SUBSET Uids : Payment(w)
    BY PaidMeans DEF CopiesInv
  <1>2. /\ Cardinality(copies) \in Nat /\ Cardinality(late) \in Nat
        /\ Cardinality(w) \in Nat /\ moves \in Nat /\ (Repeatable \ w) \in SUBSET Uids
        /\ IsFiniteSet(copies) /\ IsFiniteSet(w)
    BY Sizes, UidsFinite DEF CopiesInv, Counted
  <1>3. Covered(rows, Repeatable \ w, copies) /\ Cost(w) <= 1 + moves
    BY <1>1 DEF Payment
  <1>4. PICK x : x = w \cup {holder.uid}
    OBVIOUS
  <1>5. x \in SUBSET Uids /\ Cardinality(x) \in {Cardinality(w), Cardinality(w) + 1}
    BY <1>2, <1>4, FS_AddElement, CommandFacts
  <1>6. Covered(rows', Repeatable' \ x, copies)
    <2>1. (Repeatable' \ x) \in SUBSET (Repeatable \ w)
      BY <1>4
    <2>2. \A u \in Repeatable' \ x : rows'[u].dest = rows[u].dest
      BY <1>4 DEF Stays
    <2>3. QED BY <1>2, <1>3, <2>1, <2>2, CoveredLess
  <1>7. Cost(x)' <= 1 + moves'
    BY <1>2, <1>3, <1>5 DEF Cost
  <1>8. Payment(x)'
    BY <1>5, <1>6, <1>7 DEF Payment, Covered
  <1>9. QED BY <1>8, PaidNext

(* An upload that is given up may still be carried out.                      *)
LEMMA PaidLate ==
    ASSUME TypeOK, CopiesInv, UNCHANGED <<copies, moves>>, Sending, ~Sending',
           NEW c, late' = late \cup {c},
           \A u \in Repeatable' : u \in Repeatable /\ Stays(u)
    PROVE  Paid' /\ IsFiniteSet(late')
  <1>1. PICK w \in SUBSET Uids : Payment(w)
    BY PaidMeans DEF CopiesInv
  <1>2. /\ Cardinality(copies) \in Nat /\ Cardinality(late) \in Nat
        /\ Cardinality(w) \in Nat /\ moves \in Nat /\ (Repeatable \ w) \in SUBSET Uids
        /\ IsFiniteSet(copies) /\ IsFiniteSet(late)
    BY Sizes DEF CopiesInv, Counted
  <1>3. Covered(rows, Repeatable \ w, copies) /\ Cost(w) <= 1 + moves
    BY <1>1 DEF Payment
  <1>4. IsFiniteSet(late') /\ Cardinality(late') \in {Cardinality(late), Cardinality(late) + 1}
    BY <1>2, FS_AddElement
  <1>5. Covered(rows', Repeatable' \ w, copies)
    <2>1. (Repeatable' \ w) \in SUBSET (Repeatable \ w)
      OBVIOUS
    <2>2. \A u \in Repeatable' \ w : rows'[u].dest = rows[u].dest
      BY DEF Stays
    <2>3. QED BY <1>2, <1>3, <2>1, <2>2, CoveredLess
  <1>6. Cost(w)' <= 1 + moves'
    BY <1>2, <1>3, <1>4 DEF Cost
  <1>7. Payment(w)'
    BY <1>5, <1>6 DEF Payment, Covered
  <1>8. QED BY <1>4, <1>7, PaidNext

LEMMA OneLess ==
    ASSUME NEW S, IsFiniteSet(S), NEW x \in S
    PROVE  Cardinality(S \ {x}) = Cardinality(S) - 1
  BY FS_RemoveElement

(* A move that waits is sent again: nothing is at its destination.           *)
LEMMA PaidAgain ==
    ASSUME TypeOK, CopiesInv, UNCHANGED <<copies, late, moves>>, ~Sending,
           holder.uid \in Repeatable, Destination(rows[holder.uid]) = {},
           \A u \in Repeatable' : u # holder.uid /\ u \in Repeatable /\ Stays(u)
    PROVE  Paid'
  <1>1. PICK w \in SUBSET Uids : Payment(w)
    BY PaidMeans DEF CopiesInv
  <1>2. /\ Cardinality(copies) \in Nat /\ Cardinality(late) \in Nat
        /\ Cardinality(w) \in Nat /\ moves \in Nat /\ (Repeatable \ w) \in SUBSET Uids
        /\ IsFiniteSet(copies) /\ IsFiniteSet(w)
    BY Sizes, UidsFinite DEF CopiesInv, Counted
  <1>3. Covered(rows, Repeatable \ w, copies) /\ Cost(w) <= 1 + moves
    BY <1>1 DEF Payment
  <1>4. holder.uid \in w
    <2>1. PICK f : f = rows[holder.uid].dest
      OBVIOUS
    <2>2. f \in Folders
      BY <2>1, CommandFacts, RowFacts
    <2>3. Cardinality(In(copies, f)) = 0
      BY <2>1, FS_EmptySet DEF Destination
    <2>4. \A u \in Repeatable \ w : rows[u].dest # f
      BY <1>2, <1>3, <2>2, <2>3, CoveredNone
    <2>5. QED BY <2>1, <2>4
  <1>5. PICK x : x = w \ {holder.uid}
    OBVIOUS
  <1>6. x \in SUBSET Uids /\ Cardinality(x) = Cardinality(w) - 1
    <2>1. Cardinality(w \ {holder.uid}) = Cardinality(w) - 1
      BY <1>2, <1>4, OneLess
    <2>2. QED BY <1>5, <2>1
  <1>7. Covered(rows', Repeatable' \ x, copies)
    <2>1. (Repeatable' \ x) \in SUBSET (Repeatable \ w)
      BY <1>5
    <2>2. \A u \in Repeatable' \ x : rows'[u].dest = rows[u].dest
      BY DEF Stays
    <2>3. QED BY <1>2, <1>3, <2>1, <2>2, CoveredLess
  <1>8. Cost(x)' <= 1 + moves'
    BY <1>2, <1>3, <1>6 DEF Cost
  <1>9. Payment(x)'
    BY <1>6, <1>7, <1>8 DEF Payment, Covered
  <1>10. QED BY <1>9, PaidNext

(* The same payment when a copy goes. *)
LEMMA PaymentRemove ==
    ASSUME TypeOK, Counted, NEW w, Payment(w), NEW o \in copies
    PROVE  \E x \in SUBSET Uids :
             /\ Cardinality(x) <= Cardinality(w) + 1 /\ w \subseteq x
             /\ Covered(rows, Repeatable \ x, copies \ {o})
  <1>1. /\ w \in SUBSET Uids /\ (Repeatable \ w) \in SUBSET Uids /\ IsFiniteSet(w)
        /\ IsFiniteSet(copies) /\ Cardinality(w) \in Nat
    BY Sizes, UidsFinite DEF Payment, Counted
  <1>2. Covered(rows, Repeatable \ w, copies)
    BY DEF Payment
  <1>3. PICK X \in SUBSET (Repeatable \ w) :
              /\ Cardinality(X) <= 1
              /\ Covered(rows, (Repeatable \ w) \ X, copies \ {o})
    BY <1>1, <1>2, CoveredRemove
  <1>4. X \in SUBSET Uids
    BY <1>1, <1>3
  <1>5. IsFiniteSet(X) /\ Cardinality(X) \in Nat
    BY <1>4, UidsFinite
  <1>6. (w \cap X) \in SUBSET Uids
    BY <1>4
  <1>7. Cardinality(w \cap X) \in Nat
    BY <1>6, UidsFinite
  <1>8. Cardinality(w \cup X) = Cardinality(w) + Cardinality(X) - Cardinality(w \cap X)
    BY <1>1, <1>5, FS_Union
  <1>9. Cardinality(w \cup X) <= Cardinality(w) + 1
    BY <1>1, <1>3, <1>5, <1>7, <1>8
  <1>10. (Repeatable \ w) \ X = Repeatable \ (w \cup X)
    OBVIOUS
  <1>11. (w \cup X) \in SUBSET Uids /\ w \subseteq w \cup X
    BY <1>1, <1>4
  <1>12. QED BY <1>3, <1>9, <1>10, <1>11

(* A request that makes a copy: the copy stands for its move.                *)
Makes(m) ==
    /\ m \notin copies /\ rows' = rows /\ moves' = moves
    /\ Sending /\ ~Sending' /\ late' = late
    /\ Repeatable' \subseteq Repeatable \cup {holder.uid}
    /\ holder.uid \in Repeatable' => m.folder = rows[holder.uid].dest

LEMMA PaidMade ==
    ASSUME TypeOK, CopiesInv, NEW m, Makes(m), copies' = copies \cup {m}
    PROVE  Paid'
  <1>1. PICK w \in SUBSET Uids : Payment(w)
    BY PaidMeans DEF CopiesInv
  <1>2. /\ Cardinality(copies) \in Nat /\ Cardinality(late) \in Nat
        /\ Cardinality(w) \in Nat /\ moves \in Nat /\ (Repeatable \ w) \in SUBSET Uids
        /\ IsFiniteSet(copies)
    BY Sizes DEF CopiesInv, Counted
  <1>3. Covered(rows, Repeatable \ w, copies) /\ Cost(w) <= 1 + moves
    BY <1>1 DEF Payment
  <1>4. (Repeatable' \ w) \in SUBSET Uids
    BY DEF Repeatable, Uids
  <1>5. Covered(rows, Repeatable' \ w, copies \cup {m})
    <2>1. (Repeatable' \ w) \subseteq (Repeatable \ w) \cup {holder.uid}
      BY DEF Makes
    <2>2. holder.uid \in Repeatable' \ w => m.folder = rows[holder.uid].dest
      BY DEF Makes
    <2>3. m \notin copies
      BY DEF Makes
    <2>4. QED BY <1>2, <1>3, <1>4, <2>1, <2>2, <2>3, CoveredAdd
  <1>6. Cardinality(copies') = Cardinality(copies) + 1
    BY <1>2, FS_AddElement DEF Makes
  <1>7. Cost(w)' <= 1 + moves'
    BY <1>2, <1>3, <1>6 DEF Cost, Makes
  <1>8. Covered(rows', Repeatable' \ w, copies')
    BY <1>5 DEF Makes
  <1>9. Payment(w)'
    BY <1>7, <1>8 DEF Payment, Covered
  <1>10. QED BY <1>9, PaidNext

LEMMA PaidMoved ==
    ASSUME TypeOK, CopiesInv, NEW m, Makes(m), NEW o \in copies,
           copies' = (copies \ {o}) \cup {m}
    PROVE  Paid'
  <1>1. PICK w \in SUBSET Uids : Payment(w)
    BY PaidMeans DEF CopiesInv
  <1>2. /\ Cardinality(copies) \in Nat /\ Cardinality(late) \in Nat
        /\ Cardinality(w) \in Nat /\ moves \in Nat
        /\ IsFiniteSet(copies)
    BY Sizes DEF CopiesInv, Counted
  <1>3. Cost(w) <= 1 + moves
    BY <1>1 DEF Payment
  <1>4. PICK x \in SUBSET Uids :
              /\ Cardinality(x) <= Cardinality(w) + 1 /\ w \subseteq x
              /\ Covered(rows, Repeatable \ x, copies \ {o})
    BY <1>1, PaymentRemove DEF CopiesInv
  <1>5. (Repeatable' \ x) \in SUBSET Uids /\ (Repeatable \ x) \in SUBSET Uids
    BY DEF Repeatable, Uids
  <1>6. IsFiniteSet(copies \ {o}) /\ Cardinality(copies \ {o}) = Cardinality(copies) - 1
    BY <1>2, FS_RemoveElement
  <1>7. m \notin copies \ {o}
    BY DEF Makes
  <1>8. Covered(rows, Repeatable' \ x, (copies \ {o}) \cup {m})
    <2>1. (Repeatable' \ x) \subseteq (Repeatable \ x) \cup {holder.uid}
      BY DEF Makes
    <2>2. holder.uid \in Repeatable' \ x => m.folder = rows[holder.uid].dest
      BY DEF Makes
    <2>3. Covered(rows, Repeatable \ x, copies \ {o})
      BY <1>4
    <2>4. QED BY <1>5, <1>6, <1>7, <2>1, <2>2, <2>3, CoveredAdd
  <1>9. Cardinality(copies') = Cardinality(copies)
    <2>1. Cardinality((copies \ {o}) \cup {m}) = Cardinality(copies \ {o}) + 1
      BY <1>6, <1>7, FS_AddElement
    <2>2. QED BY <1>2, <1>6, <2>1
  <1>10. Cardinality(x) \in Nat
    BY UidsFinite
  <1>11. Cost(x)' <= 1 + moves'
    BY <1>2, <1>3, <1>4, <1>9, <1>10 DEF Cost, Makes
  <1>12. Covered(rows', Repeatable' \ x, copies')
    BY <1>8 DEF Makes
  <1>13. Payment(x)'
    BY <1>11, <1>12 DEF Payment, Covered
  <1>14. QED BY <1>13, PaidNext

(* The source of a copied message is removed.                                *)
LEMMA PaidGone ==
    ASSUME TypeOK, CopiesInv, NEW o \in copies, copies' = copies \ {o},
           UNCHANGED <<rows, late, moves>>, ~Sending, ~Sending', Repeatable' = Repeatable
    PROVE  Paid'
  <1>1. PICK w \in SUBSET Uids : Payment(w)
    BY PaidMeans DEF CopiesInv
  <1>2. /\ Cardinality(copies) \in Nat /\ Cardinality(late) \in Nat
        /\ Cardinality(w) \in Nat /\ moves \in Nat
        /\ IsFiniteSet(copies)
    BY Sizes DEF CopiesInv, Counted
  <1>3. Cost(w) <= 1 + moves
    BY <1>1 DEF Payment
  <1>4. PICK x \in SUBSET Uids :
              /\ Cardinality(x) <= Cardinality(w) + 1 /\ w \subseteq x
              /\ Covered(rows, Repeatable \ x, copies \ {o})
    BY <1>1, PaymentRemove DEF CopiesInv
  <1>5. Cardinality(copies') = Cardinality(copies) - 1
    BY <1>2, FS_RemoveElement
  <1>6. Cardinality(x) \in Nat
    BY UidsFinite
  <1>7. Cost(x)' <= 1 + moves'
    BY <1>2, <1>3, <1>4, <1>5, <1>6 DEF Cost
  <1>8. Payment(x)'
    BY <1>4, <1>7 DEF Payment, Covered
  <1>9. QED BY <1>8, PaidNext

(* An upload that was given up is carried out after all.                     *)
LEMMA PaidLateMade ==
    ASSUME TypeOK, CopiesInv, NEW m, m \notin copies, copies' = copies \cup {m},
           NEW c \in late, late' = late \ {c},
           UNCHANGED <<rows, moves>>, Sending' = Sending, Repeatable' = Repeatable
    PROVE  Paid' /\ IsFiniteSet(late')
  <1>1. PICK w \in SUBSET Uids : Payment(w)
    BY PaidMeans DEF CopiesInv
  <1>2. /\ Cardinality(copies) \in Nat /\ Cardinality(late) \in Nat
        /\ Cardinality(w) \in Nat /\ moves \in Nat /\ (Repeatable \ w) \in SUBSET Uids
        /\ IsFiniteSet(copies) /\ IsFiniteSet(late)
    BY Sizes DEF CopiesInv, Counted
  <1>3. Covered(rows, Repeatable \ w, copies) /\ Cost(w) <= 1 + moves
    BY <1>1 DEF Payment
  <1>4. IsFiniteSet(late') /\ Cardinality(late') = Cardinality(late) - 1
    BY <1>2, FS_RemoveElement
  <1>5. IsFiniteSet(copies \cup {m}) /\ Cardinality(copies') = Cardinality(copies) + 1
    BY <1>2, FS_AddElement
  <1>6. Covered(rows, Repeatable \ w, copies \cup {m})
    <2>1. (Repeatable \ w) \in SUBSET (Repeatable \ w) /\ copies \subseteq copies \cup {m}
      OBVIOUS
    <2>2. \A u \in Repeatable \ w : rows[u].dest = rows[u].dest
      OBVIOUS
    <2>3. QED BY <1>2, <1>3, <1>5, <2>1, <2>2, CoveredLess
  <1>7. Cost(w)' <= 1 + moves'
    BY <1>2, <1>3, <1>4, <1>5 DEF Cost
  <1>8. Payment(w)'
    BY <1>6, <1>7 DEF Payment, Covered
  <1>9. QED BY <1>4, <1>8, PaidNext

----------------------------------------------------------------------------
(* Where identities are spoken of.                                            *)

LEMMA Sighted ==
    /\ copies \subseteq Sightings
    /\ \A m \in cache : m.uid # 0 => m \in Sightings
    /\ \A u \in Uids : rows[u].stage # "none" => At(u, rows[u].from) \in Sightings
    /\ \A u \in check.live : At(u, check.folder) \in Sightings
    /\ holder.at # "idle" /\ holder.uid # 0 => At(holder.uid, holder.rec.from) \in Sightings
    /\ holder.at # "idle" /\ holder.found # 0 => At(holder.found, holder.rec.dest) \in Sightings
    /\ request.new # 0 => At(request.new, request.to) \in Sightings
  BY AtFacts DEF Sightings

LEMMA SightingsIn ==
    ASSUME NEW S,
           copies' \subseteq S,
           \A m \in cache' : m.uid # 0 => m \in S,
           \A u \in Uids : rows'[u].stage # "none" => At(u, rows'[u].from) \in S,
           \A u \in check'.live : At(u, check'.folder) \in S,
           holder'.at # "idle" => At(holder'.uid, holder'.rec.from) \in S,
           holder'.at # "idle" /\ holder'.found # 0 => At(holder'.found, holder'.rec.dest) \in S,
           request'.new # 0 => At(request'.new, request'.to) \in S
    PROVE  Sightings' \subseteq S
  <1> SUFFICES ASSUME NEW m \in Sightings' PROVE m \in S
    OBVIOUS
  <1>1. CASE m \in copies' \/ (m \in cache' /\ m.uid # 0)
    BY <1>1
  <1>2. CASE \E u \in Uids : rows'[u].stage # "none" /\ m = At(u, rows'[u].from)
    BY <1>2
  <1>3. CASE \E u \in check'.live : m = At(u, check'.folder)
    BY <1>3
  <1>4. CASE /\ m \in {At(holder'.uid, holder'.rec.from), At(holder'.found, holder'.rec.dest)}
             /\ holder'.at # "idle" /\ m.uid # 0
    BY <1>4, AtFacts
  <1>5. CASE m = At(request'.new, request'.to) /\ m.uid # 0
    BY <1>5, AtFacts
  <1>6. QED BY <1>1, <1>2, <1>3, <1>4, <1>5 DEF Sightings, At, Uids

LEMMA PlaceSame ==
    ASSUME OnePlace, Sightings' \subseteq Sightings
    PROVE  OnePlace'
  BY DEF OnePlace

LEMMA SightingsIssued ==
    ASSUME TypeOK, AckInv, NEW m \in Sightings
    PROVE  m.uid < nextUid
  <1>1. Issued
    BY DEF AckInv
  <1>2. CASE m \in copies \/ m \in cache
    BY <1>1, <1>2 DEF Issued
  <1>3. CASE \E u \in Uids : rows[u].stage # "none" /\ m = At(u, rows[u].from)
    BY <1>1, <1>3, AtFacts DEF Issued
  <1>4. CASE \E u \in check.live : m = At(u, check.folder)
    BY <1>1, <1>4, AtFacts DEF Issued
  <1>5. CASE m \in {At(holder.uid, holder.rec.from), At(holder.found, holder.rec.dest),
                    At(request.new, request.to)}
    BY <1>1, <1>5, AtFacts DEF Issued
  <1>6. QED BY <1>2, <1>3, <1>4, <1>5 DEF Sightings

LEMMA PlaceNew ==
    ASSUME TypeOK, AckInv, OnePlace, NEW f, Sightings' \subseteq Sightings \cup {At(nextUid, f)}
    PROVE  OnePlace'
  <1>1. At(nextUid, f).uid = nextUid /\ nextUid \in Nat
    BY AtFacts DEF TypeOK
  <1>2. \A m \in Sightings : m.uid # nextUid
    <2>1. \A m \in Sightings : m.uid < nextUid
      BY SightingsIssued
    <2>2. QED BY <1>1, <2>1
  <1>3. QED BY <1>1, <1>2 DEF OnePlace

(* What a step of a command does with the accounts it has. *)
RowHandled ==
    \/ rows'[holder.uid] = rows[holder.uid]
    \/ rows'[holder.uid].stage = "none"
    \/ /\ rows'[holder.uid].from = holder.rec.from /\ rows'[holder.uid].dest = holder.rec.dest
       /\ \/ ~Unsubmitted(rows'[holder.uid])
          \/ Sending
          \/ rows[holder.uid] = holder.rec /\ Unsubmitted(holder.rec)
Continues ==
    /\ holder'.at \notin {"idle", "releasing", "moving", "cleaning"}
    /\ holder'.uid = holder.uid /\ holder'.rec.from = holder.rec.from
    /\ holder'.rec.dest # holder.rec.from
    /\ holder'.found # 0 => At(holder'.found, holder'.rec.dest) \in Sightings
    /\ holder'.at \in Asks => rows'[holder.uid] = holder'.rec
    /\ holder'.at = "removing" => \E m \in copies : m.uid # holder.uid
    /\ holder'.at \in {"removing", "resolving"} /\ holder'.found # 0 =>
          At(holder'.found, holder'.rec.dest) \in copies
    /\ Sending' /\ ~Sending => holder.uid \in Repeatable /\ Destination(rows[holder.uid]) = {}
Handles ==
    /\ holder.at # "idle"
    /\ UNCHANGED <<copies, late, moves>>
    /\ request' = NoRequest \/ UNCHANGED request
    /\ \A m \in cache' : m \in cache \/ m.uid = 0 \/ m \in copies
    /\ check'.live = check.live /\ check'.folder = check.folder
    /\ \A w \in Uids : w # holder.uid => rows'[w] = rows[w]
    /\ RowHandled
    /\ holder'.at = "idle" \/ Continues

LEMMA HandlesPlace ==
    ASSUME TypeOK, OnePlace, Handles
    PROVE  OnePlace'
  <1>0. holder.uid \in Uids /\ holder.uid # 0 /\ holder.at # "idle"
    BY CommandFacts, Constants DEF Handles
  <1>1. copies' \subseteq Sightings
    BY Sighted DEF Handles
  <1>2. \A m \in cache' : m.uid # 0 => m \in Sightings
    BY Sighted DEF Handles
  <1>3. At(holder.uid, holder.rec.from) \in Sightings
    BY <1>0, Sighted
  <1>4. ASSUME NEW u \in Uids, rows'[u].stage # "none" PROVE At(u, rows'[u].from) \in Sightings
    <2>1. CASE rows'[u] = rows[u]
      BY <1>4, <2>1, Sighted
    <2>2. CASE rows'[u] # rows[u]
      <3>1. u = holder.uid
        BY <2>2 DEF Handles
      <3>2. rows'[u].from = holder.rec.from
        BY <1>4, <2>2, <3>1 DEF Handles, RowHandled
      <3>3. QED BY <1>3, <3>1, <3>2
    <2>3. QED BY <2>1, <2>2
  <1>5. \A u \in check'.live : At(u, check'.folder) \in Sightings
    BY Sighted DEF Handles
  <1>6. holder'.at # "idle" => At(holder'.uid, holder'.rec.from) \in Sightings
    BY <1>3 DEF Handles, Continues
  <1>7. holder'.at # "idle" /\ holder'.found # 0 => At(holder'.found, holder'.rec.dest) \in Sightings
    BY DEF Handles, Continues
  <1>8. request'.new # 0 => At(request'.new, request'.to) \in Sightings
    <2>1. NoRequest.new = 0
      BY DEF NoRequest
    <2>2. QED BY <2>1, Sighted DEF Handles
  <1>9. Sightings' \subseteq Sightings
    BY <1>1, <1>2, <1>4, <1>5, <1>6, <1>7, <1>8, SightingsIn
  <1>10. QED BY <1>9, PlaceSame

LEMMA HandlesDirected ==
    ASSUME TypeOK, Directed, Handles
    PROVE  Directed'
  <1>1. holder.uid \in Uids
    BY CommandFacts
  <1>2. ASSUME NEW u \in Uids, rows'[u].stage # "none" PROVE rows'[u].from # rows'[u].dest
    <2>1. CASE rows'[u] = rows[u]
      BY <1>2, <2>1 DEF Directed
    <2>2. CASE rows'[u] # rows[u]
      <3>1. u = holder.uid
        BY <2>2 DEF Handles
      <3>2. rows'[u].from = holder.rec.from /\ rows'[u].dest = holder.rec.dest
        BY <1>2, <2>2, <3>1 DEF Handles, RowHandled
      <3>3. QED BY <3>2 DEF Directed, Handles
    <2>3. QED BY <2>1, <2>2
  <1>3. holder'.at \in Asks => Current'
    BY DEF Handles, Continues, Asks, Current
  <1>4. QED BY <1>2, <1>3 DEF Directed, Handles, Continues

LEMMA HandlesBacked ==
    ASSUME Backed, Handles
    PROVE  Backed'
  <1>1. NoRequest.new = 0
    BY DEF NoRequest
  <1>2. request'.new # 0 => request'.reply = "ok" /\ At(request'.new, request'.to) \in copies'
    BY <1>1 DEF Backed, Handles
  <1>3. /\ holder'.at \in Cleans \/ Uploaded' => \E m \in copies' : m.uid # holder'.uid
        /\ holder'.at \in Cleans \cup {"resolving"} /\ holder'.found # 0 =>
              At(holder'.found, holder'.rec.dest) \in copies'
    BY DEF Handles, Continues, Cleans, Uploaded
  <1>4. QED BY <1>2, <1>3 DEF Backed

LEMMA HandlesPaid ==
    ASSUME TypeOK, CopiesInv, Handles
    PROVE  Paid'
  <1>0. holder.uid \in Uids
    BY CommandFacts
  <1>1. ASSUME NEW u \in Repeatable', u # holder.uid PROVE u \in Repeatable /\ Stays(u)
    <2>1. u \in Uids /\ rows'[u] = rows[u]
      BY <1>1 DEF Handles, Repeatable, Uids
    <2>2. Unsubmitted(rows[u]) /\ ~Transfer(rows[u])
      BY <2>1 DEF Repeatable
    <2>3. QED BY <1>1, <2>1, <2>2 DEF Repeatable, Stays
  <1>2. CASE Sending /\ ~Sending'
    BY <1>1, <1>2, PaidReturn DEF Handles
  <1>3. CASE Sending /\ Sending'
    <2>1. holder'.uid = holder.uid
      BY <1>3 DEF Handles, Continues, Sending
    <2>2. holder.uid \notin Repeatable'
      BY <1>3, <2>1 DEF Repeatable
    <2>3. moves \in Nat /\ moves' = moves
      BY DEF Handles, TypeOK
    <2>4. QED BY <1>1, <1>3, <2>2, <2>3, PaidSame DEF Handles
  <1>4. CASE ~Sending /\ Sending'
    <2>1. Continues
      BY <1>4 DEF Handles, Sending
    <2>2. holder.uid \notin Repeatable'
      BY <1>4, <2>1 DEF Repeatable, Continues
    <2>3. QED BY <1>1, <1>4, <2>1, <2>2, PaidAgain DEF Handles, Continues
  <1>5. CASE ~Sending /\ ~Sending'
    <2>1. holder.uid \in Repeatable' => holder.uid \in Repeatable /\ Stays(holder.uid)
      <3> SUFFICES ASSUME holder.uid \in Repeatable'
                   PROVE  holder.uid \in Repeatable /\ Stays(holder.uid)
        OBVIOUS
      <3>1. Unsubmitted(rows'[holder.uid]) /\ ~Transfer(rows'[holder.uid])
        BY DEF Repeatable
      <3>2. rows'[holder.uid].stage # "none"
        BY <3>1 DEF Unsubmitted
      <3>3. CASE rows'[holder.uid] = rows[holder.uid]
        BY <1>0, <1>5, <3>1, <3>3 DEF Repeatable, Stays
      <3>4. CASE rows'[holder.uid] # rows[holder.uid]
        <4>1. /\ rows'[holder.uid].from = holder.rec.from /\ rows'[holder.uid].dest = holder.rec.dest
              /\ rows[holder.uid] = holder.rec /\ Unsubmitted(holder.rec)
          BY <1>5, <3>1, <3>2, <3>4 DEF Handles, RowHandled
        <4>2. ~Transfer(rows[holder.uid])
          BY <3>1, <4>1 DEF Transfer
        <4>3. QED BY <1>0, <1>5, <4>1, <4>2 DEF Repeatable, Stays
      <3>5. QED BY <3>3, <3>4
    <2>2. moves \in Nat /\ moves' = moves
      BY DEF Handles, TypeOK
    <2>3. QED BY <1>1, <1>5, <2>1, <2>2, PaidSame DEF Handles
  <1>6. QED BY <1>2, <1>3, <1>4, <1>5

LEMMA HandlesCopies ==
    ASSUME TypeOK, CopiesInv, Handles
    PROVE  CopiesInv'
  <1>1. Counted'
    BY DEF CopiesInv, Counted, Handles
  <1>2. OnePlace' /\ Directed' /\ Backed' /\ Paid'
    BY HandlesPlace, HandlesDirected, HandlesBacked, HandlesPaid DEF CopiesInv
  <1>3. QED BY <1>1, <1>2 DEF CopiesInv

LEMMA GiveUpHandles ==
    ASSUME TypeOK, holder.at # "idle", GiveUp, Quiet \/ Consume
    PROVE  Handles
  BY IdleShape DEF GiveUp, Quiet, Consume, Handles, RowHandled, local, server

(* The row a command writes is its own. *)
Writes(r) ==
    \/ r.stage = "none"
    \/ /\ r.from = holder.rec.from /\ r.dest = holder.rec.dest
       /\ ~Unsubmitted(r) \/ Sending \/ (Current /\ Unsubmitted(holder.rec))

LEMMA SaveHandles ==
    ASSUME TypeOK, holder.at # "idle", NEW r, Save(r), Writes(r), Quiet \/ Consume,
           \A m \in cache' : m \in cache \/ m.uid = 0 \/ m \in copies,
           check'.live = check.live /\ check'.folder = check.folder
    PROVE  Handles
  <1>1. RowHandled
    BY SaveShape DEF Writes, RowHandled, Current
  <1>2. QED BY <1>1, SaveShape DEF Quiet, Consume, Handles, server

MayGo(p) ==
    \/ p \in {"locating", "recovering"}
    \/ /\ p \in {"repreparing", "submitting"} /\ Current
       /\ Sending \/ (holder.uid \in Repeatable /\ Destination(rows[holder.uid]) = {})

LEMMA GotoHandles ==
    ASSUME TypeOK, Directed, holder.at # "idle", NEW p, Goto(p), UNCHANGED local, Quiet,
           MayGo(p)
    PROVE  Handles
  <1>1. /\ holder'.at = p /\ holder'.uid = holder.uid /\ holder'.found = holder.found
        /\ holder'.rec = holder.rec
    BY GotoShape DEF Moves
  <1>2. holder.found # 0 => At(holder.found, holder.rec.dest) \in Sightings
    BY Sighted
  <1>3. Sending' /\ ~Sending => holder.uid \in Repeatable /\ Destination(rows[holder.uid]) = {}
    BY <1>1 DEF Sending, MayGo
  <1>4. holder'.at \in Asks => rows'[holder.uid] = holder'.rec
    BY <1>1 DEF Asks, local, Current, MayGo
  <1>5. holder.rec.from # holder.rec.dest
    BY DEF Directed
  <1>6. Continues
    BY <1>1, <1>2, <1>3, <1>4, <1>5 DEF Continues, MayGo
  <1>7. QED BY <1>6 DEF Quiet, Handles, RowHandled, local, server

LEMMA ToLocalHandles ==
    ASSUME TypeOK, holder.at # "idle", ToLocal(holder.rec), Quiet \/ Consume
    PROVE  Handles
  <1> DEFINE next == [holder.rec EXCEPT !.stage = "Local"]
  <1>1. next.stage = "Local" /\ next.from = holder.rec.from /\ next.dest = holder.rec.dest
    BY CommandFacts DEF Row
  <1>2. CASE /\ Current /\ Unsubmitted(holder.rec)
             /\ Save(next) /\ UNCHANGED <<cache, check>>
    <2> HIDE DEF next
    <2>1. Writes(next)
      BY <1>1, <1>2 DEF Writes
    <2>2. QED BY <1>2, <2>1, SaveHandles
  <1>3. QED BY <1>2, GiveUpHandles DEF ToLocal

LEMMA PrepareHandles == TypeOK /\ Directed /\ Prepare => Handles
  <1> SUFFICES ASSUME TypeOK, Directed, Prepare PROVE Handles
    OBVIOUS
  <1> DEFINE next == [holder.rec EXCEPT !.stage = "Local"]
  <1>1. Quiet /\ holder.at = "preparing" /\ Sending
    BY DEF Prepare, Sending
  <1>2. CASE GiveUp
    BY <1>1, <1>2, GiveUpHandles
  <1>3. CASE SaveAs(holder.rec, "submitting") /\ UNCHANGED <<cache, check>>
    <2>1. /\ holder'.at = "submitting" /\ holder'.uid = holder.uid /\ holder'.found = holder.found
          /\ holder'.rec = holder.rec /\ rows'[holder.uid] = holder.rec
          /\ \A w \in Uids : w # holder.uid => rows'[w] = rows[w]
      BY <1>3, SaveAsShape DEF Moves
    <2>2. holder.rec.from # holder.rec.dest
      BY <1>1 DEF Directed
    <2>3. Continues
      BY <1>1, <2>1, <2>2, Sighted DEF Continues
    <2>4. RowHandled
      BY <1>1, <2>1 DEF RowHandled
    <2>5. QED BY <1>1, <1>3, <2>1, <2>3, <2>4 DEF Quiet, Handles, server
  <1>4. CASE Save(next) /\ UNCHANGED <<cache, check>>
    <2>1. next.from = holder.rec.from /\ next.dest = holder.rec.dest
      BY CommandFacts DEF Row
    <2> HIDE DEF next
    <2>2. Writes(next)
      BY <1>1, <2>1 DEF Writes
    <2>3. QED BY <1>1, <1>4, <2>2, SaveHandles
  <1>5. QED BY <1>2, <1>3, <1>4 DEF Prepare

LEMMA ReprepareHandles == TypeOK /\ Directed /\ Reprepare => Handles
  <1> SUFFICES ASSUME TypeOK, Directed, Reprepare PROVE Handles
    OBVIOUS
  <1>1. Quiet /\ holder.at = "repreparing" /\ Sending
    BY DEF Reprepare, Sending
  <1>2. CASE Current /\ Goto("submitting") /\ UNCHANGED local
    <2>1. MayGo("submitting")
      BY <1>1, <1>2 DEF MayGo
    <2>2. QED BY <1>1, <1>2, <2>1, GotoHandles
  <1>3. CASE ToLocal(holder.rec)
    BY <1>1, <1>3, ToLocalHandles
  <1>4. QED BY <1>1, <1>2, <1>3, GiveUpHandles DEF Reprepare

(* A row found intact by an inspection may be sent again.                    *)
LEMMA IntactRepeatable ==
    ASSUME TypeOK, Counted, Current, Unsubmitted(holder.rec), ~Sending,
           "intact" \in Inspections(holder.uid, holder.rec)
    PROVE  holder.uid \in Repeatable /\ Destination(rows[holder.uid]) = {}
  <1>1. holder.uid \in Uids /\ rows[holder.uid] = holder.rec
    BY CommandFacts DEF Current
  <1>2. Cardinality(Destination(holder.rec)) \in Nat /\ IsFiniteSet(Destination(holder.rec))
    BY InFinite DEF Destination, Counted
  <1>3. Cardinality(Destination(holder.rec)) = 0 /\ ~Transfer(holder.rec)
    BY DEF Inspections
  <1>4. Destination(holder.rec) = {}
    BY <1>2, <1>3, FS_EmptySet
  <1>5. QED BY <1>1, <1>3, <1>4 DEF Repeatable

LEMMA RecoverHandles == TypeOK /\ Directed /\ Counted /\ Recover => Handles
  <1> SUFFICES ASSUME TypeOK, Directed, Counted, Recover PROVE Handles
    OBVIOUS
  <1>1. Quiet /\ holder.at = "recovering" /\ ~Sending
    BY DEF Recover, Sending
  <1>2. CASE Goto("locating") /\ UNCHANGED local
    <2>1. MayGo("locating")
      BY DEF MayGo
    <2>2. QED BY <1>1, <1>2, <2>1, GotoHandles
  <1>3. CASE /\ Current /\ Unsubmitted(holder.rec) /\ Goto("repreparing") /\ UNCHANGED local
             /\ "intact" \in Inspections(holder.uid, holder.rec)
    <2>1. MayGo("repreparing")
      BY <1>1, <1>3, IntactRepeatable DEF MayGo
    <2>2. QED BY <1>1, <1>3, <2>1, GotoHandles
  <1>4. CASE GiveUp
    BY <1>1, <1>4, GiveUpHandles
  <1>5. QED BY <1>2, <1>3, <1>4 DEF Recover

LEMMA SubmittedHandles == TypeOK /\ Directed /\ Backed /\ Submitted => Handles
  <1> SUFFICES ASSUME TypeOK, Directed, Backed, Submitted PROVE Handles
    OBVIOUS
  <1> DEFINE stage == IF Transfer(holder.rec) THEN "Copied" ELSE "Committed"
             place == IF Transfer(holder.rec) THEN "removing" ELSE "resolving"
             next == Checkpoint(stage, request.new)
  <1>1. holder.at = "moving" /\ Consume
    BY DEF Submitted, Answered
  <1>2. CASE GiveUp
    BY <1>1, <1>2, GiveUpHandles
  <1>3. CASE ToLocal(holder.rec)
    BY <1>1, <1>3, ToLocalHandles
  <1>4. CASE Save(NoRow) /\ UNCHANGED <<cache, check>>
    <2>1. Writes(NoRow)
      BY DEF Writes, NoRow
    <2>2. QED BY <1>1, <1>4, <2>1, SaveHandles
  <1>5. CASE /\ Answered("moving", "ok")
             /\ rows' = [rows EXCEPT ![holder.uid] = next]
             /\ holder' = [holder EXCEPT !.at = place, !.rec = next, !.found = request.new]
             /\ UNCHANGED <<cache, check>>
    <2>1. next.from = holder.rec.from /\ next.dest = holder.rec.dest /\ next.stage = stage
      BY CommandFacts DEF Checkpoint, Row
    <2>2. stage \in {"Copied", "Committed"} /\ place \in {"removing", "resolving"}
          /\ (place = "removing" => Transfer(holder.rec))
      OBVIOUS
    <2> HIDE DEF stage, place, next
    <2>3. /\ holder'.at = place /\ holder'.uid = holder.uid /\ holder'.found = request.new
          /\ holder'.rec = next
      BY <1>5 DEF TypeOK, Holder
    <2>4. /\ rows'[holder.uid] = next
          /\ \A w \in Uids : w # holder.uid => rows'[w] = rows[w]
      BY <1>5, CommandFacts DEF TypeOK
    <2>5. request.new # 0 => At(request.new, holder.rec.dest) \in copies
      BY <1>1 DEF Backed, Directed
    <2>6. holder'.at = "removing" => \E m \in copies : m.uid # holder.uid
      BY <1>5, <2>2, <2>3 DEF Answered, Backed, Uploaded
    <2>7. holder.rec.from # holder.rec.dest
      BY <1>1 DEF Directed
    <2>8. Continues
      BY <2>1, <2>2, <2>3, <2>5, <2>6, <2>7, Sighted DEF Continues, Asks, Sending
    <2>9. RowHandled
      BY <2>1, <2>2, <2>4 DEF RowHandled, Unsubmitted
    <2>10. QED BY <1>1, <1>5, <2>4, <2>8, <2>9 DEF Handles, Consume
  <1>6. QED BY <1>2, <1>3, <1>4, <1>5 DEF Submitted

(* The copy found at the destination is another one than the source.         *)
LEMMA FoundCopy ==
    ASSUME TypeOK, OnePlace, Directed, holder.at # "idle", NEW v \in Found(holder.rec)
    PROVE  At(v, holder.rec.dest) \in copies /\ v # holder.uid
  <1>1. PICK m \in copies : m.uid = v /\ m.folder = holder.rec.dest
    BY DEF Found, Destination, In
  <1>2. m = At(v, holder.rec.dest)
    BY <1>1 DEF TypeOK, At
  <1>3. holder.uid \in Uids /\ holder.uid # 0
    BY CommandFacts, Constants
  <1>4. At(holder.uid, holder.rec.from) \in Sightings /\ m \in Sightings
    BY <1>3, Sighted
  <1>5. holder.rec.from # holder.rec.dest
    BY DEF Directed
  <1>6. QED BY <1>1, <1>2, <1>4, <1>5, AtFacts DEF OnePlace

LEMMA LocateHandles == TypeOK /\ OnePlace /\ Directed /\ Locate => Handles
  <1> SUFFICES ASSUME TypeOK, OnePlace, Directed, Locate PROVE Handles
    OBVIOUS
  <1>1. holder.at = "locating" /\ Quiet /\ holder.rec.from # holder.rec.dest
    BY DEF Locate, Directed
  <1>2. CASE GiveUp
    BY <1>1, <1>2, GiveUpHandles
  <1>3. ASSUME NEW v \in Found(holder.rec), UNCHANGED <<cache, check>>,
               rows' = [rows EXCEPT ![holder.uid] = Checkpoint("Copied", v)],
               holder' = [holder EXCEPT !.at = "removing", !.found = v,
                                        !.rec = Checkpoint("Copied", v)]
        PROVE  Handles
    <2> DEFINE next == Checkpoint("Copied", v)
    <2>1. next.from = holder.rec.from /\ next.dest = holder.rec.dest /\ next.stage = "Copied"
      BY CommandFacts DEF Checkpoint, Row
    <2> HIDE DEF next
    <2>2. /\ holder'.at = "removing" /\ holder'.uid = holder.uid /\ holder'.found = v
          /\ holder'.rec = next
      BY <1>3 DEF TypeOK, Holder, next
    <2>3. /\ rows'[holder.uid] = next
          /\ \A w \in Uids : w # holder.uid => rows'[w] = rows[w]
      BY <1>3, CommandFacts DEF TypeOK, next
    <2>4. At(v, holder.rec.dest) \in copies /\ v # holder.uid
      BY <1>1, FoundCopy
    <2>5. \E m \in copies : m.uid # holder.uid
      BY <2>4, AtFacts
    <2>6. Continues
      BY <1>1, <2>1, <2>2, <2>4, <2>5, Sighted DEF Continues, Asks, Sending
    <2>7. RowHandled
      BY <2>1, <2>3 DEF RowHandled, Unsubmitted
    <2>8. QED BY <1>1, <1>3, <2>3, <2>6, <2>7 DEF Handles, Quiet, server
  <1>4. ASSUME NEW v \in Found(holder.rec), UNCHANGED <<rows, cache, check>>,
               holder' = [holder EXCEPT !.found = v, !.at =
                            IF holder.rec.stage = "Copied" THEN "removing" ELSE "resolving"]
        PROVE  Handles
    <2>1. /\ holder'.at \in {"removing", "resolving"} /\ holder'.rec = holder.rec
          /\ holder'.uid = holder.uid /\ holder'.found = v
      BY <1>4 DEF TypeOK, Holder
    <2>2. At(v, holder.rec.dest) \in copies /\ v # holder.uid
      BY <1>1, FoundCopy
    <2>3. \E m \in copies : m.uid # holder.uid
      BY <2>2, AtFacts
    <2>4. Continues
      BY <1>1, <2>1, <2>2, <2>3, Sighted DEF Continues, Asks, Sending
    <2>5. QED BY <1>1, <1>4, <2>4 DEF Handles, RowHandled, Quiet, server
  <1>5. QED BY <1>2, <1>3, <1>4 DEF Locate

LEMMA CleanedHandles == TypeOK /\ Directed /\ Backed /\ Cleaned => Handles
  <1> SUFFICES ASSUME TypeOK, Directed, Backed, Cleaned PROVE Handles
    OBVIOUS
  <1> DEFINE next == Checkpoint("Committed", holder.rec.current)
  <1>1. holder.at = "cleaning" /\ Consume /\ holder.rec.from # holder.rec.dest
    BY DEF Cleaned, Answered, Directed
  <1>2. CASE GiveUp
    BY <1>1, <1>2, GiveUpHandles
  <1>3. CASE SaveAs(next, "resolving") /\ UNCHANGED <<cache, check>>
    <2>1. next.from = holder.rec.from /\ next.dest = holder.rec.dest /\ next.stage = "Committed"
      BY CommandFacts DEF Checkpoint, Row
    <2> HIDE DEF next
    <2>2. /\ holder'.at = "resolving" /\ holder'.uid = holder.uid /\ holder'.found = holder.found
          /\ holder'.rec = next /\ rows'[holder.uid] = next
          /\ \A w \in Uids : w # holder.uid => rows'[w] = rows[w]
      BY <1>3, SaveAsShape DEF Moves
    <2>3. holder.found # 0 => At(holder.found, holder.rec.dest) \in copies
      BY <1>1 DEF Backed, Cleans
    <2>4. Continues
      BY <1>1, <2>1, <2>2, <2>3, Sighted DEF Continues, Asks, Sending
    <2>5. RowHandled
      BY <2>1, <2>2 DEF RowHandled, Unsubmitted
    <2>6. QED BY <1>1, <1>3, <2>2, <2>4, <2>5 DEF Handles, Consume
  <1>4. QED BY <1>2, <1>3 DEF Cleaned

LEMMA ResolveHandles == TypeOK /\ Backed /\ Resolve => Handles
  <1> SUFFICES ASSUME TypeOK, Backed, Resolve PROVE Handles
    OBVIOUS
  <1> DEFINE next == [holder.rec EXCEPT !.stage = "Located", !.current = holder.found]
  <1>1. holder.at = "resolving" /\ Quiet
    BY DEF Resolve
  <1>2. CASE GiveUp
    BY <1>1, <1>2, GiveUpHandles
  <1>3. CASE /\ holder.found # 0
             /\ Relocated(holder.uid, holder.rec.from, holder.found, holder.rec.dest)
             /\ Save(next)
    <2>1. next.from = holder.rec.from /\ next.dest = holder.rec.dest /\ next.stage = "Located"
      BY CommandFacts DEF Row
    <2> HIDE DEF next
    <2>2. At(holder.found, holder.rec.dest) \in copies
      BY <1>1, <1>3 DEF Backed
    <2>3. \A m \in cache' : m \in cache \/ m \in copies
      BY <1>3, <2>2 DEF Relocated
    <2>4. check'.live = check.live /\ check'.folder = check.folder
      BY <1>3 DEF Relocated, TypeOK, Check
    <2>5. Writes(next)
      BY <2>1 DEF Writes, Unsubmitted
    <2>6. QED BY <1>1, <1>3, <2>3, <2>4, <2>5, SaveHandles
  <1>4. QED BY <1>2, <1>3 DEF Resolve

LEMMA ReleaseHandles == TypeOK /\ Directed /\ Counted /\ ReleaseUnapplied => Handles
  <1> SUFFICES ASSUME TypeOK, Directed, Counted, ReleaseUnapplied PROVE Handles
    OBVIOUS
  <1> DEFINE next == [holder.rec EXCEPT !.dest = holder.to, !.stage = "Started"]
  <1>1. /\ holder.at = "releasing" /\ Quiet /\ ~Sending
        /\ holder.to # holder.rec.from /\ holder.found = 0
    BY DEF ReleaseUnapplied, Sending, Directed
  <1>2. CASE GiveUp
    BY <1>1, <1>2, GiveUpHandles
  <1>3. CASE Goto("recovering") /\ UNCHANGED local
    <2>1. MayGo("recovering")
      BY DEF MayGo
    <2>2. QED BY <1>1, <1>3, <2>1, GotoHandles
  <1>4. CASE /\ Current /\ Unsubmitted(holder.rec)
             /\ "intact" \in Inspections(holder.uid, holder.rec)
             /\ rows' = [rows EXCEPT ![holder.uid] = NoRow]
             /\ holder' = [holder EXCEPT !.at = "preparing", !.rec = next]
             /\ UNCHANGED <<cache, check>>
    <2>1. next.from = holder.rec.from /\ next.dest = holder.to
      BY CommandFacts DEF Row
    <2> HIDE DEF next
    <2>2. /\ holder'.at = "preparing" /\ holder'.uid = holder.uid /\ holder'.found = 0
          /\ holder'.rec = next
      BY <1>1, <1>4 DEF TypeOK, Holder
    <2>3. /\ rows'[holder.uid] = NoRow
          /\ \A w \in Uids : w # holder.uid => rows'[w] = rows[w]
      BY <1>4, CommandFacts DEF TypeOK
    <2>4. holder.uid \in Repeatable /\ Destination(rows[holder.uid]) = {}
      BY <1>1, <1>4, IntactRepeatable
    <2>5. Continues
      BY <1>1, <2>1, <2>2, <2>4 DEF Continues, Asks
    <2>6. RowHandled
      BY <2>3 DEF RowHandled, NoRow
    <2>7. QED BY <1>1, <1>4, <2>3, <2>5, <2>6 DEF Handles, Quiet, server
  <1>5. QED BY <1>2, <1>3, <1>4 DEF ReleaseUnapplied, Replaceable

LEMMA AskCopies ==
    ASSUME TypeOK, CopiesInv, NEW kind, NEW place, Ask(kind, place),
           \/ place = "moving" /\ holder.at = "submitting"
           \/ place = "cleaning" /\ holder.at = "removing"
    PROVE  CopiesInv'
  <1>1. /\ holder'.at = place /\ holder'.uid = holder.uid /\ holder'.found = holder.found
        /\ holder'.rec = holder.rec
    BY GotoShape DEF Ask, Moves
  <1>2. /\ request'.new = 0 /\ request'.to = holder.rec.dest /\ request'.reply = "none"
        /\ UNCHANGED <<copies, nextUid, late, rows, cache, check, moves>>
    BY DEF Ask, local
  <1>3. holder.uid \in Uids /\ holder.uid # 0 /\ holder.at # "idle"
    BY CommandFacts, Constants
  <1>4. OnePlace'
    <2>1. Sightings' \subseteq Sightings
      <3>1. /\ copies' \subseteq Sightings /\ \A m \in cache' : m.uid # 0 => m \in Sightings
            /\ \A u \in Uids : rows'[u].stage # "none" => At(u, rows'[u].from) \in Sightings
            /\ \A u \in check'.live : At(u, check'.folder) \in Sightings
        BY <1>2, Sighted
      <3>2. /\ At(holder'.uid, holder'.rec.from) \in Sightings
            /\ holder'.found # 0 => At(holder'.found, holder'.rec.dest) \in Sightings
        BY <1>1, <1>3, Sighted
      <3>3. QED BY <1>2, <3>1, <3>2, SightingsIn
    <2>2. QED BY <2>1, PlaceSame DEF CopiesInv
  <1>5. Directed'
    <2>1. Directed
      BY DEF CopiesInv
    <2>2. holder'.at \in Asks => Current'
      BY <1>1, <1>2, <2>1 DEF Directed, Asks, Current
    <2>3. QED BY <1>1, <1>2, <1>3, <2>1, <2>2 DEF Directed
  <1>6. Backed'
    BY <1>1, <1>2 DEF CopiesInv, Backed, Cleans, Uploaded
  <1>7. Paid'
    <2>1. Sending' = Sending
      BY <1>1, <1>2 DEF Sending
    <2>2. \A u \in Repeatable' : u \in Repeatable /\ Stays(u)
      BY <1>1, <1>2, <2>1 DEF Repeatable, Stays
    <2>3. moves' \in Nat /\ moves <= moves'
      BY <1>2 DEF TypeOK
    <2>4. QED BY <1>2, <2>1, <2>2, <2>3, PaidSame
  <1>8. Counted'
    BY <1>2 DEF CopiesInv, Counted
  <1>9. QED BY <1>4, <1>5, <1>6, <1>7, <1>8 DEF CopiesInv

LEMMA CommandCopies == TypeOK /\ CopiesInv /\ Command => CopiesInv'
  <1> SUFFICES ASSUME TypeOK, CopiesInv, Command PROVE CopiesInv'
    OBVIOUS
  <1>1. CASE Submit
    BY <1>1, AskCopies DEF Submit
  <1>2. CASE RemoveSource
    BY <1>2, AskCopies DEF RemoveSource
  <1>3. CASE ~Submit /\ ~RemoveSource
    <2>1. OnePlace /\ Directed /\ Backed /\ Counted
      BY DEF CopiesInv
    <2>2. Handles
      BY <1>3, <2>1, PrepareHandles, ReprepareHandles, SubmittedHandles, RecoverHandles,
         LocateHandles, CleanedHandles, ResolveHandles, ReleaseHandles DEF Command
    <2>3. QED BY <2>2, HandlesCopies
  <1>4. QED BY <1>1, <1>2, <1>3

(* A command begins with a message somebody holds.                           *)
LEMMA StartCopies ==
    ASSUME TypeOK, CopiesInv, NEW u \in Uids, NEW place, NEW r, NEW p, Start(u, place, r, p),
           UNCHANGED <<server, local>>,
           At(u, r.from) \in Sightings, r.from # r.dest,
           place \in {"preparing", "recovering", "releasing", "locating"},
           place = "releasing" => p # r.from,
           moves' \in Nat, moves <= moves', place = "preparing" => moves' = moves + 1
    PROVE  CopiesInv'
  <1>1. /\ holder'.at = place /\ holder'.uid = u /\ holder'.rec = r /\ holder'.found = 0
        /\ holder'.to = p /\ holder.at = "idle"
    BY DEF Start, Free, Idle
  <1>2. UNCHANGED <<copies, nextUid, late, request, rows, cache, check>>
    BY DEF server, local
  <1>3. OnePlace'
    <2>1. /\ copies' \subseteq Sightings /\ \A m \in cache' : m.uid # 0 => m \in Sightings
          /\ \A w \in Uids : rows'[w].stage # "none" => At(w, rows'[w].from) \in Sightings
          /\ \A w \in check'.live : At(w, check'.folder) \in Sightings
          /\ request'.new # 0 => At(request'.new, request'.to) \in Sightings
      BY <1>2, Sighted
    <2>2. Sightings' \subseteq Sightings
      BY <1>1, <2>1, SightingsIn
    <2>3. QED BY <2>2, PlaceSame DEF CopiesInv
  <1>4. Directed'
    BY <1>1, <1>2 DEF CopiesInv, Directed, Asks
  <1>5. Backed'
    BY <1>1, <1>2 DEF CopiesInv, Backed, Cleans, Uploaded
  <1>6. Paid'
    <2>1. ~Sending /\ (Sending' => moves' = moves + 1)
      BY <1>1 DEF Sending
    <2>2. \A w \in Repeatable' : w \in Repeatable /\ Stays(w)
      BY <1>2, <2>1 DEF Repeatable, Stays
    <2>3. QED BY <1>2, <2>1, <2>2, PaidSame
  <1>7. Counted'
    BY <1>2 DEF CopiesInv, Counted
  <1>8. QED BY <1>3, <1>4, <1>5, <1>6, <1>7 DEF CopiesInv

(* Steps on the local database alone.                                        *)
LEMMA LocalCopies ==
    ASSUME TypeOK, CopiesInv, UNCHANGED <<server, holder, moves>>,
           \A m \in cache' : m \in cache \/ m.uid = 0 \/ m \in Sightings,
           \A u \in check'.live : At(u, check'.folder) \in Sightings,
           UNCHANGED rows \/ holder.at = "idle",
           \A u \in Uids :
              \/ rows'[u] = rows[u]
              \/ rows'[u].stage = "none"
              \/ /\ rows[u].stage # "none" /\ ~Unsubmitted(rows'[u])
                 /\ rows'[u].from = rows[u].from /\ rows'[u].dest = rows[u].dest
    PROVE  CopiesInv'
  <1>1. UNCHANGED <<copies, nextUid, late, request, holder>>
    BY DEF server
  <1>2. OnePlace'
    <2>1. /\ copies' \subseteq Sightings /\ \A m \in cache' : m.uid # 0 => m \in Sightings
          /\ request'.new # 0 => At(request'.new, request'.to) \in Sightings
      BY <1>1, Sighted
    <2>2. \A u \in Uids : rows'[u].stage # "none" => At(u, rows'[u].from) \in Sightings
      BY Sighted
    <2>3. holder.uid # 0
      BY CommandFacts, Constants
    <2>4. /\ holder'.at # "idle" => At(holder'.uid, holder'.rec.from) \in Sightings
          /\ holder'.at # "idle" /\ holder'.found # 0 => At(holder'.found, holder'.rec.dest) \in Sightings
      BY <1>1, <2>3, Sighted
    <2>5. Sightings' \subseteq Sightings
      BY <2>1, <2>2, <2>4, SightingsIn
    <2>6. QED BY <2>5, PlaceSame DEF CopiesInv
  <1>3. Directed'
    <2>1. \A u \in Uids : rows'[u].stage # "none" => rows'[u].from # rows'[u].dest
      BY DEF CopiesInv, Directed
    <2>2. holder'.at \in Asks => Current'
      BY <1>1 DEF CopiesInv, Directed, Asks, Current
    <2>3. QED BY <1>1, <2>1, <2>2 DEF CopiesInv, Directed
  <1>4. Backed'
    BY <1>1 DEF CopiesInv, Backed, Uploaded, Transfer
  <1>5. Paid'
    <2>1. Sending' = Sending
      BY <1>1 DEF Sending
    <2>2. ASSUME NEW u \in Repeatable' PROVE u \in Repeatable /\ Stays(u)
      <3>1. u \in Uids /\ Unsubmitted(rows'[u]) /\ ~Transfer(rows'[u]) /\ ~(Sending /\ u = holder.uid)
        BY <1>1, <2>1 DEF Repeatable, Uids
      <3>2. rows'[u] = rows[u]
        BY <3>1 DEF Unsubmitted
      <3>3. QED BY <3>1, <3>2 DEF Repeatable, Stays
    <2>3. moves' \in Nat /\ moves <= moves'
      BY DEF TypeOK
    <2>4. QED BY <1>1, <2>1, <2>2, <2>3, PaidSame
  <1>6. Counted'
    BY <1>1 DEF CopiesInv, Counted
  <1>7. QED BY <1>2, <1>3, <1>4, <1>5, <1>6 DEF CopiesInv

LEMMA SameCopies ==
    CopiesInv /\ UNCHANGED <<server, rows, cache, check, holder, moves>> => CopiesInv'
  BY DEF CopiesInv, OnePlace, Sightings, Directed, Current, Backed, Uploaded, Transfer, Counted,
         Paid, Stood, Repeatable, Sending, server

LEMMA AskedCopies == TypeOK /\ CopiesInv /\ Asked => CopiesInv'
  <1> SUFFICES ASSUME TypeOK, CopiesInv, Asked PROVE CopiesInv'
    OBVIOUS
  <1>0. moves \in Nat /\ moves + 1 \in Nat /\ moves <= moves + 1 /\ moves <= moves
    BY DEF TypeOK
  <1>1. ASSUME NEW u \in Uids, NEW f \in Folders, NEW p \in Folders, Move(u, f, p)
        PROVE  CopiesInv'
    <2> DEFINE new == [from |-> f, dest |-> p, stage |-> "Started", current |-> 0]
    <2>1. /\ At(u, f) \in cache /\ u # 0 /\ p # f /\ moves' = moves + 1
          /\ UNCHANGED <<server, local>>
      BY <1>1 DEF Move
    <2>2. At(u, f) \in Sightings
      BY <2>1, Sighted, AtFacts
    <2>3. new.from = f /\ new.dest = p
      OBVIOUS
    <2>4. rows[u].stage # "none" =>
              rows[u].from = f /\ At(u, rows[u].from) \in Sightings /\ rows[u].from # rows[u].dest
      <3>1. rows[u].stage # "none" => At(u, rows[u].from) \in Sightings
        BY Sighted
      <3>2. QED BY <2>2, <3>1, AtFacts DEF CopiesInv, OnePlace, Directed
    <2>5. CASE Start(u, "preparing", new, p)
      <3> HIDE DEF new
      <3>1. QED BY <1>0, <2>1, <2>2, <2>3, <2>5, StartCopies
    <2>6. CASE Start(u, "recovering", rows[u], p) /\ rows[u].stage # "none"
      BY <1>0, <2>1, <2>4, <2>6, StartCopies
    <2>7. CASE Start(u, "releasing", rows[u], p) /\ rows[u].stage # "none"
      BY <1>0, <2>1, <2>4, <2>7, StartCopies
    <2>8. QED BY <1>1, <2>5, <2>6, <2>7 DEF Move
  <1>2. ASSUME NEW u \in Uids, UndoLocal(u) PROVE CopiesInv'
    <2>1. \A w \in Uids : rows'[w] = rows[w] \/ rows'[w].stage = "none"
      BY <1>2 DEF UndoLocal, TypeOK, NoRow
    <2>2. holder.at = "idle" /\ UNCHANGED <<server, holder, moves, cache, check>>
      BY <1>2 DEF UndoLocal, Idle
    <2>3. QED BY <2>1, <2>2, Sighted, LocalCopies
  <1>3. ASSUME NEW u \in Uids, KeepCopy(u) PROVE CopiesInv'
    <2>1. /\ rows' = [rows EXCEPT ![u] = [rows[u] EXCEPT !.stage = "Kept"]]
          /\ rows[u].stage # "none"
      BY <1>3 DEF KeepCopy, Finished
    <2>2. PICK k : k = [rows[u] EXCEPT !.stage = "Kept"]
      OBVIOUS
    <2>3. k.stage = "Kept" /\ k.from = rows[u].from /\ k.dest = rows[u].dest
      BY <2>2, RowFacts DEF Row
    <2>4. \A w \in Uids : rows'[w] = IF w = u THEN k ELSE rows[w]
      BY <2>1, <2>2 DEF TypeOK
    <2>5. \A w \in Uids :
              \/ rows'[w] = rows[w]
              \/ /\ rows[w].stage # "none" /\ ~Unsubmitted(rows'[w])
                 /\ rows'[w].from = rows[w].from /\ rows'[w].dest = rows[w].dest
      BY <2>1, <2>3, <2>4 DEF Unsubmitted
    <2>6. \A m \in cache' : m \in cache \/ m.uid = 0
      BY <1>3, AtFacts DEF KeepCopy, KeepsOriginal, Relocated
    <2>7. check'.live = check.live /\ check'.folder = check.folder
      BY <1>3 DEF KeepCopy, KeepsOriginal, Relocated, TypeOK, Check
    <2>8. holder.at = "idle" /\ UNCHANGED <<server, holder, moves>>
      BY <1>3 DEF KeepCopy, Idle
    <2>9. \A w \in check'.live : At(w, check'.folder) \in Sightings
      BY <2>7, Sighted
    <2>10. QED BY <2>5, <2>6, <2>8, <2>9, LocalCopies
  <1>4. ASSUME NEW u \in Uids, UseExisting(u) \/ Retry(u) PROVE CopiesInv'
    <2>1. rows[u].stage # "none" /\ UNCHANGED <<server, local, moves>>
      BY <1>4 DEF UseExisting, Retry, Finished
    <2>2. At(u, rows[u].from) \in Sightings /\ rows[u].from # rows[u].dest
      BY <2>1, Sighted DEF CopiesInv, Directed
    <2>3. CASE UseExisting(u)
      BY <1>0, <2>1, <2>2, <2>3, StartCopies DEF UseExisting
    <2>4. CASE Retry(u)
      BY <1>0, <2>1, <2>2, <2>4, StartCopies DEF Retry
    <2>5. QED BY <1>4, <2>3, <2>4
  <1>5. ASSUME NEW a \in MailAccounts, AdmitRemoval(a) PROVE CopiesInv'
    BY <1>5, SameCopies DEF AdmitRemoval, local
  <1>6. QED BY <1>1, <1>2, <1>3, <1>4, <1>5 DEF Asked

LEMMA PeriodicCopies == TypeOK /\ CopiesInv /\ Periodic => CopiesInv'
  <1> SUFFICES ASSUME TypeOK, CopiesInv, Periodic PROVE CopiesInv'
    OBVIOUS
  <1>0. moves \in Nat /\ moves <= moves
    BY DEF TypeOK
  <1>1. ASSUME NEW u \in Uids, Background(u) PROVE CopiesInv'
    <2>1. rows[u].stage # "none" /\ UNCHANGED <<server, local, moves>>
      BY <1>1 DEF Background, Lookups
    <2>2. At(u, rows[u].from) \in Sightings /\ rows[u].from # rows[u].dest
      BY <2>1, Sighted DEF CopiesInv, Directed
    <2>3. QED BY <1>0, <1>1, <2>1, <2>2, StartCopies DEF Background
  <1>2. ASSUME NEW f \in Folders, ListFolder(f) PROVE CopiesInv'
    <2>1. check'.live = {m.uid : m \in In(copies, f)} /\ check'.folder = f
      BY <1>2 DEF ListFolder, NoCheck
    <2>2. ASSUME NEW u \in check'.live PROVE At(u, check'.folder) \in Sightings
      <3>1. PICK m \in copies : m.folder = f /\ m.uid = u
        BY <2>1, <2>2 DEF In
      <3>2. m = At(u, f)
        BY <3>1 DEF TypeOK, At
      <3>3. QED BY <2>1, <3>2, Sighted
    <2>3. UNCHANGED <<server, holder, moves, rows, cache>>
      BY <1>2 DEF ListFolder
    <2>4. QED BY <2>2, <2>3, LocalCopies
  <1>3. ASSUME NEW v \in Uids, Arrive(v) PROVE CopiesInv'
    <2>1. \A m \in cache' : m \in cache \/ m \in Sightings
      BY <1>3, Sighted DEF Arrive
    <2>2. UNCHANGED <<server, holder, moves, rows, check>>
      BY <1>3 DEF Arrive
    <2>3. QED BY <2>1, <2>2, Sighted, LocalCopies
  <1>4. CASE Reconcile
    <2>1. \A m \in cache' : m \in cache
      BY <1>4 DEF Reconcile
    <2>2. check'.live = {} /\ UNCHANGED <<server, holder, moves, rows>>
      BY <1>4 DEF Reconcile, NoCheck
    <2>3. QED BY <2>1, <2>2, LocalCopies
  <1>5. ASSUME NEW a \in MailAccounts, Purge(a) PROVE CopiesInv'
    <2>1. \A w \in Uids : rows'[w] = rows[w] \/ rows'[w].stage = "none"
      BY <1>5 DEF Purge, NoRow
    <2>2. \A m \in cache' : m \in cache \/ m.uid = 0
      BY <1>5, AtFacts DEF Purge
    <2>3. check'.live = check.live /\ check'.folder = check.folder
      BY <1>5 DEF Purge, TypeOK, Check
    <2>4. holder.at = "idle" /\ UNCHANGED <<server, holder, moves>>
      BY <1>5 DEF Purge, Idle
    <2>5. \A w \in check'.live : At(w, check'.folder) \in Sightings
      BY <2>3, Sighted
    <2>6. QED BY <2>1, <2>2, <2>4, <2>5, LocalCopies
  <1>6. QED BY <1>1, <1>2, <1>3, <1>4, <1>5 DEF Periodic

(* The only requests that are carried out after they were given up.          *)
UploadsOnly == Late \subseteq {"append"}

LEMMA OutcomeKinds ==
    ASSUME TypeOK, OnePlace, NEW c, c.kind \in Kinds, NEW o \in Outcomes(c)
    PROVE  \/ /\ o.made = nextUid /\ c.kind # "expunge"
              /\ o.copies = copies \cup {At(nextUid, c.to)}
           \/ /\ o.made = nextUid /\ c.kind = "move"
              /\ \E x \in copies : o.copies = (copies \ {x}) \cup {At(nextUid, c.to)}
           \/ o.made = 0 /\ c.kind = "move" /\ o.copies = copies
           \/ /\ o.made = 0 /\ c.kind = "expunge"
              /\ o.copies = copies \/ \E x \in copies : x.uid = c.uid /\ o.copies = copies \ {x}
  <1> DEFINE old == {m \in copies : m.uid = c.uid}
  <1>1. \/ c.kind = "append" /\ o.made = nextUid /\ o.copies = copies \cup {At(nextUid, c.to)}
        \/ /\ c.kind = "expunge" \/ (c.kind = "move" /\ old = {})
           /\ o.made = 0 /\ o.copies = copies \ old
        \/ /\ c.kind = "move" /\ old # {} /\ o.made = nextUid
           /\ \/ o.copies = (copies \ old) \cup {At(nextUid, c.to)}
              \/ o.copies = copies \cup {At(nextUid, c.to)}
    BY DEF Outcomes, Kinds
  <1>2. old # {} => \E x \in copies : x.uid = c.uid /\ old = {x}
    <2> SUFFICES ASSUME old # {} PROVE \E x \in copies : x.uid = c.uid /\ old = {x}
      OBVIOUS
    <2>1. PICK x \in copies : x.uid = c.uid
      OBVIOUS
    <2>2. \A m \in old : m = x
      BY <2>1, Sighted DEF OnePlace
    <2>3. old = {x}
      BY <2>1, <2>2
    <2>4. QED BY <2>1, <2>3
  <1>3. old = {} => copies \ old = copies
    OBVIOUS
  <1> HIDE DEF old
  <1>4. QED BY <1>1, <1>2, <1>3

(* The copy a server makes is a new one.                                     *)
LEMMA NewCopy ==
    ASSUME TypeOK, AckInv, NEW f
    PROVE  /\ At(nextUid, f) \notin copies /\ At(nextUid, f).uid = nextUid
           /\ At(nextUid, f).folder = f /\ holder.uid # nextUid
  <1>1. At(nextUid, f).uid = nextUid /\ At(nextUid, f).folder = f /\ nextUid \in Nat
    BY AtFacts DEF TypeOK
  <1>2. \A m \in copies : m.uid < nextUid
    BY DEF AckInv, Issued
  <1>3. holder.uid < nextUid
    BY DEF AckInv, Issued
  <1>4. QED BY <1>1, <1>2, <1>3

(* What an answer, good or bad, leaves alone.                                *)
Answers ==
    /\ holder.at \in {"moving", "cleaning"} /\ request.reply = "none"
    /\ UNCHANGED <<rows, cache, check, holder, removed, moves>>
    /\ request'.kind = request.kind /\ request'.to = request.to
    /\ request'.reply # "none"

LEMMA AnswersDirected ==
    ASSUME Directed, Answers, \A c \in late' : c.kind = "append"
    PROVE  Directed'
  BY DEF Directed, Answers, Current

LEMMA AnswersRepeatable ==
    ASSUME TypeOK, Answers
    PROVE  /\ Repeatable' \subseteq Repeatable \cup {holder.uid} /\ ~Sending'
           /\ Sending <=> holder.at = "moving"
           /\ ~Sending => Repeatable' = Repeatable
           /\ \A u \in Uids : Stays(u)
  <1>1. /\ ~Sending' /\ (Sending <=> holder.at = "moving")
    BY DEF Answers, Sending
  <1>2. \A u \in Uids : rows'[u] = rows[u]
    BY DEF Answers
  <1>3. QED BY <1>1, <1>2 DEF Repeatable, Stays, Answers

LEMMA AnswersPlace ==
    ASSUME TypeOK, AckInv, OnePlace, Answers, NEW f,
           copies' \subseteq copies \cup {At(nextUid, f)},
           request'.new # 0 => request'.new = nextUid /\ request'.to = f
    PROVE  OnePlace'
  <1> DEFINE S == Sightings \cup {At(nextUid, f)}
  <1>0. holder.uid # 0
    BY CommandFacts, Constants
  <1>1. /\ copies' \subseteq S /\ \A m \in cache' : m.uid # 0 => m \in S
        /\ \A w \in Uids : rows'[w].stage # "none" => At(w, rows'[w].from) \in S
        /\ \A w \in check'.live : At(w, check'.folder) \in S
    BY Sighted DEF Answers
  <1>2. /\ holder'.at # "idle" => At(holder'.uid, holder'.rec.from) \in S
        /\ holder'.at # "idle" /\ holder'.found # 0 => At(holder'.found, holder'.rec.dest) \in S
    BY <1>0, Sighted DEF Answers
  <1>3. request'.new # 0 => At(request'.new, request'.to) \in S
    OBVIOUS
  <1> HIDE DEF S
  <1>4. Sightings' \subseteq S
    BY <1>1, <1>2, <1>3, SightingsIn
  <1>5. QED BY <1>4, PlaceNew DEF S

(* A copy that permits the removal of a source is not the source.            *)
LEMMA BackedByOther ==
    ASSUME TypeOK, OnePlace, Directed, holder.at # "idle", holder.found # 0
    PROVE  At(holder.found, holder.rec.dest).uid # holder.uid
  <1>1. holder.uid # 0
    BY CommandFacts, Constants
  <1>2. /\ At(holder.found, holder.rec.dest) \in Sightings
        /\ At(holder.uid, holder.rec.from) \in Sightings
    BY <1>1, Sighted
  <1>3. holder.rec.from # holder.rec.dest
    BY DEF Directed
  <1>4. QED BY <1>2, <1>3, AtFacts DEF OnePlace

LEMMA ExecuteCopies == TypeOK /\ AckInv /\ CopiesInv /\ Execute => CopiesInv'
  <1> SUFFICES ASSUME TypeOK, AckInv, CopiesInv, Execute PROVE CopiesInv'
    OBVIOUS
  <1>0. request \in Request /\ request.kind \in Kinds
    BY DEF TypeOK, Request
  <1>1. PICK o \in Outcomes(request) :
            \E reply \in {o.reply, "lost"}, new \in {0, o.made} :
               /\ Happens(o)
               /\ request' = [request EXCEPT !.reply = reply,
                                             !.new = IF reply = "ok" THEN new ELSE 0]
    BY DEF Execute
  <1> PICK reply \in {o.reply, "lost"}, new \in {0, o.made} :
               /\ Happens(o)
               /\ request' = [request EXCEPT !.reply = reply,
                                             !.new = IF reply = "ok" THEN new ELSE 0]
    BY <1>1
  <1>2. reply \in {"ok", "lost"}
    BY DEF Outcomes
  <1>3. /\ request'.kind = request.kind /\ request'.to = request.to /\ request'.reply = reply
        /\ request'.new = IF reply = "ok" THEN new ELSE 0
    BY <1>0 DEF Request
  <1>4. Answers /\ late' = late /\ copies' = o.copies
    BY <1>2, <1>3 DEF Answers, Execute, Waits, local, Happens
  <1>5. /\ OnePlace /\ Directed /\ Backed /\ Counted /\ Truthful
        /\ holder.at = "cleaning" => request.uid = holder.uid /\ request.kind = "expunge"
        /\ holder.at = "moving" => request.kind = IF Transfer(holder.rec) THEN "append" ELSE "move"
    BY DEF CopiesInv, AckInv, Truthful
  <1> DEFINE made == At(nextUid, request.to)
  <1>6. /\ made \notin copies /\ made.uid = nextUid /\ made.folder = request.to
        /\ holder.uid # nextUid /\ nextUid # 0
    <2>1. nextUid # 0
      BY DEF TypeOK
    <2>2. QED BY <2>1, NewCopy
  <1>7. \/ /\ o.made = nextUid /\ request.kind # "expunge" /\ copies' = copies \cup {made}
        \/ /\ o.made = nextUid /\ request.kind = "move"
           /\ \E x \in copies : copies' = (copies \ {x}) \cup {made}
        \/ o.made = 0 /\ request.kind = "move" /\ copies' = copies
        \/ /\ o.made = 0 /\ request.kind = "expunge"
           /\ copies' = copies \/ \E x \in copies : x.uid = request.uid /\ copies' = copies \ {x}
    BY <1>0, <1>4, <1>5, OutcomeKinds
  <1> HIDE DEF made
  <1>8. OnePlace'
    <2>1. copies' \subseteq copies \cup {made}
      BY <1>7
    <2>2. request'.new # 0 => request'.new = nextUid /\ request'.to = request.to
      BY <1>3, <1>7
    <2>3. QED BY <1>4, <1>5, <2>1, <2>2, AnswersPlace DEF made
  <1>9. Directed'
    BY <1>4, <1>5, AnswersDirected DEF Directed
  <1>10. /\ holder.at = "cleaning" => \E m \in copies' : m.uid # holder.uid
         /\ holder.at = "cleaning" /\ holder.found # 0 => At(holder.found, holder.rec.dest) \in copies'
    <2> SUFFICES ASSUME holder.at = "cleaning"
                 PROVE  /\ \E m \in copies' : m.uid # holder.uid
                        /\ holder.found # 0 => At(holder.found, holder.rec.dest) \in copies'
      OBVIOUS
    <2>1. \A m \in copies : m.uid # holder.uid => m \in copies'
      BY <1>5, <1>7
    <2>2. \E m \in copies : m.uid # holder.uid
      BY <1>5 DEF Backed, Cleans
    <2>3. holder.found # 0 => At(holder.found, holder.rec.dest) \in copies
      BY <1>5 DEF Backed, Cleans
    <2>4. holder.found # 0 => At(holder.found, holder.rec.dest).uid # holder.uid
      BY <1>5, BackedByOther
    <2>5. QED BY <2>1, <2>2, <2>3, <2>4
  <1>11. Backed'
    <2>1. Uploaded' => \E m \in copies' : m.uid # holder'.uid
      <3> SUFFICES ASSUME Uploaded' PROVE \E m \in copies' : m.uid # holder'.uid
        OBVIOUS
      <3>1. holder.at = "moving" /\ Transfer(holder.rec) /\ holder' = holder
        BY <1>4 DEF Uploaded, Answers, Transfer
      <3>2. made \in copies'
        BY <1>5, <1>7, <3>1
      <3>3. QED BY <1>6, <3>1, <3>2
    <2>2. request'.new # 0 => request'.reply = "ok" /\ made \in copies' /\ request'.new = nextUid
      BY <1>3, <1>7
    <2>3. request'.new # 0 => request'.reply = "ok" /\ At(request'.new, request'.to) \in copies'
      BY <1>3, <2>2 DEF made
    <2>4. holder' = holder /\ holder.at \in {"moving", "cleaning"}
      BY <1>4 DEF Answers
    <2>5. QED BY <1>10, <2>1, <2>3, <2>4 DEF Backed, Cleans
  <1>12. Counted'
    <2>1. copies' # {}
      <3>1. CASE holder.at = "cleaning"
        BY <1>10, <3>1
      <3>2. CASE holder.at = "moving"
        BY <1>5, <1>7, <3>2 DEF Counted
      <3>3. QED BY <1>4, <3>1, <3>2 DEF Answers
    <2>2. IsFiniteSet(copies)
      BY <1>5 DEF Counted
    <2>3. IsFiniteSet(copies \cup {made}) /\ \A x : IsFiniteSet((copies \ {x}) \cup {made})
          /\ \A y : IsFiniteSet(copies \ {y})
      BY <2>2, FS_AddElement, FS_RemoveElement
    <2>4. IsFiniteSet(copies')
      BY <1>7, <2>2, <2>3
    <2>5. QED BY <1>4, <1>5, <2>1, <2>4 DEF Counted
  <1>13. Paid'
    <2>0. /\ Repeatable' \subseteq Repeatable \cup {holder.uid} /\ ~Sending'
          /\ Sending <=> holder.at = "moving"
          /\ ~Sending => Repeatable' = Repeatable
          /\ \A u \in Uids : Stays(u)
          /\ UNCHANGED <<rows, late, moves>>
          /\ moves \in Nat /\ moves <= moves'
      BY <1>4, AnswersRepeatable DEF Answers, TypeOK
    <2>1. CASE holder.at = "moving"
      <3>1. rows[holder.uid].dest = request.to
        BY <1>5, <2>1 DEF Directed, Asks, Current
      <3>2. Makes(made)
        BY <1>6, <2>0, <2>1, <3>1 DEF Makes
      <3>3. CASE copies' = copies \cup {made}
        BY <3>2, <3>3, PaidMade
      <3>4. CASE \E x \in copies : copies' = (copies \ {x}) \cup {made}
        BY <3>2, <3>4, PaidMoved
      <3>5. CASE copies' = copies
        <4>1. \A u \in Repeatable' : u = holder.uid \/ (u \in Repeatable /\ Stays(u))
          BY <2>0 DEF Repeatable
        <4>2. QED BY <2>0, <2>1, <3>5, <4>1, PaidReturn
      <3>6. QED BY <1>5, <1>7, <2>1, <3>3, <3>4, <3>5
    <2>2. CASE holder.at = "cleaning"
      <3>1. ~Sending /\ ~Sending' /\ Repeatable' = Repeatable
        BY <2>0, <2>2
      <3>2. CASE copies' = copies
        <4>1. \A u \in Repeatable' : u \in Repeatable /\ Stays(u)
          BY <2>0, <3>1 DEF Repeatable
        <4>2. QED BY <2>0, <3>1, <3>2, <4>1, PaidSame
      <3>3. ASSUME NEW x \in copies, copies' = copies \ {x} PROVE Paid'
        BY <2>0, <3>1, <3>3, PaidGone
      <3>4. QED BY <1>5, <1>7, <2>2, <3>2, <3>3
    <2>3. QED BY <1>4, <2>1, <2>2 DEF Answers
  <1>14. QED BY <1>8, <1>9, <1>11, <1>12, <1>13 DEF CopiesInv

(* An answer without an effect.                                              *)
LEMMA NoEffectCopies ==
    ASSUME TypeOK, AckInv, CopiesInv, Answers, copies' = copies, request'.new = 0,
           request'.reply # "ok", late' = late
    PROVE  CopiesInv'
  <1>0. OnePlace /\ Directed /\ Backed /\ Counted
    BY DEF CopiesInv
  <1>1. OnePlace'
    BY <1>0, AnswersPlace
  <1>2. Directed'
    BY <1>0, AnswersDirected DEF Directed
  <1>3. Backed'
    BY <1>0 DEF Answers, Backed, Uploaded, Cleans
  <1>4. Counted'
    BY <1>0 DEF Counted
  <1>5. /\ Repeatable' \subseteq Repeatable \cup {holder.uid} /\ ~Sending'
        /\ ~Sending => Repeatable' = Repeatable
        /\ \A u \in Uids : Stays(u)
        /\ moves' = moves /\ moves \in Nat /\ moves <= moves'
    BY AnswersRepeatable DEF Answers, TypeOK
  <1>6. Paid'
    <2>1. CASE Sending
      <3>1. \A u \in Repeatable' : u = holder.uid \/ (u \in Repeatable /\ Stays(u))
        BY <1>5 DEF Repeatable
      <3>2. QED BY <1>5, <2>1, <3>1, PaidReturn
    <2>2. CASE ~Sending
      <3>1. \A u \in Repeatable' : u \in Repeatable /\ Stays(u)
        BY <1>5, <2>2 DEF Repeatable
      <3>2. QED BY <1>5, <2>2, <3>1, PaidSame
    <2>3. QED BY <2>1, <2>2
  <1>7. QED BY <1>1, <1>2, <1>3, <1>4, <1>6 DEF CopiesInv

(* The upload a command gives up is not one that it sends again.             *)
LEMMA GivenUpUpload ==
    ASSUME TypeOK, AckInv, Directed, Waits, request.kind \in Late, UploadsOnly
    PROVE  /\ Sending /\ GivenUp.kind = "append" /\ holder.at = "moving"
           /\ Transfer(rows[holder.uid])
  <1>1. request.kind = "append"
    BY DEF UploadsOnly
  <1>2. holder.at = "moving" /\ request.reply = "none"
    BY <1>1 DEF Waits, AckInv, Truthful
  <1>3. Transfer(holder.rec)
    BY <1>1, <1>2 DEF AckInv, Truthful
  <1>4. rows[holder.uid] = holder.rec
    BY <1>2 DEF Directed, Asks, Current
  <1>5. QED BY <1>1, <1>2, <1>3, <1>4 DEF Sending, GivenUp

LEMMA TimeOutCopies == TypeOK /\ AckInv /\ CopiesInv /\ UploadsOnly /\ TimeOut => CopiesInv'
  <1> SUFFICES ASSUME TypeOK, AckInv, CopiesInv, UploadsOnly, TimeOut PROVE CopiesInv'
    OBVIOUS
  <1>0. OnePlace /\ Directed /\ Backed /\ Counted
    BY DEF CopiesInv
  <1>1. /\ request'.kind = request.kind /\ request'.to = request.to
        /\ request'.reply = "lost" /\ request'.new = request.new
    BY DEF TimeOut, TypeOK, Request
  <1>2. Waits /\ request.new = 0
    BY <1>0 DEF TimeOut, Waits, Backed
  <1>3. Answers /\ copies' = copies
    BY <1>1, <1>2 DEF Answers, Waits, TimeOut, local
  <1>4. CASE late' = late
    BY <1>1, <1>2, <1>3, <1>4, NoEffectCopies
  <1>5. CASE late' = late \cup {GivenUp} /\ request.kind \in Late
    <2>1. Sending /\ GivenUp.kind = "append" /\ Transfer(rows[holder.uid])
      BY <1>0, <1>2, <1>5, GivenUpUpload
    <2>2. OnePlace'
      BY <1>0, <1>1, <1>2, <1>3, AnswersPlace
    <2>3. Directed'
      BY <1>0, <1>3, <1>5, <2>1, AnswersDirected DEF Directed
    <2>4. Backed'
      BY <1>0, <1>1, <1>2, <1>3 DEF Answers, Backed, Uploaded, Cleans
    <2>5. /\ Repeatable' \subseteq Repeatable \cup {holder.uid} /\ ~Sending'
          /\ \A u \in Uids : Stays(u)
      BY <1>3, AnswersRepeatable
    <2>6. holder.uid \notin Repeatable'
      BY <1>3, <2>1 DEF Repeatable, Answers
    <2>7. \A u \in Repeatable' : u \in Repeatable /\ Stays(u)
      BY <2>5, <2>6 DEF Repeatable
    <2>8. Paid' /\ IsFiniteSet(late')
      BY <1>3, <1>5, <2>1, <2>5, <2>7, PaidLate DEF Answers
    <2>9. Counted'
      BY <1>0, <1>3, <2>8 DEF Counted
    <2>10. QED BY <2>2, <2>3, <2>4, <2>8, <2>9 DEF CopiesInv
  <1>6. QED BY <1>4, <1>5 DEF TimeOut

(* An upload nobody waits for any more adds a copy.                          *)
LEMMA LateCopies ==
    ASSUME TypeOK, AckInv, CopiesInv, NEW c \in late, ExecuteLate(c)
    PROVE  CopiesInv'
  <1>0. OnePlace /\ Directed /\ Backed /\ Counted /\ c.kind = "append"
    BY DEF CopiesInv, Directed
  <1> DEFINE made == At(nextUid, c.to)
  <1>1. made \notin copies
    BY NewCopy
  <1>2. copies' = copies \cup {made}
    <2>1. PICK o \in Outcomes(c) : Happens(o)
      BY DEF ExecuteLate
    <2>2. o.copies = copies \cup {made}
      BY <1>0, <2>1, OutcomeKinds DEF Kinds
    <2>3. QED BY <2>1, <2>2 DEF Happens
  <1>3. late' = late \ {c} /\ UNCHANGED <<request, rows, cache, check, holder, removed, moves>>
    BY DEF ExecuteLate, local
  <1>4. OnePlace'
    <2> DEFINE S == Sightings \cup {At(nextUid, c.to)}
    <2>0. holder.uid # 0
      BY CommandFacts, Constants
    <2>1. /\ copies' \subseteq S /\ \A m \in cache' : m.uid # 0 => m \in S
          /\ \A w \in Uids : rows'[w].stage # "none" => At(w, rows'[w].from) \in S
          /\ \A w \in check'.live : At(w, check'.folder) \in S
          /\ request'.new # 0 => At(request'.new, request'.to) \in S
      BY <1>2, <1>3, Sighted
    <2>2. /\ holder'.at # "idle" => At(holder'.uid, holder'.rec.from) \in S
          /\ holder'.at # "idle" /\ holder'.found # 0 => At(holder'.found, holder'.rec.dest) \in S
      BY <1>3, <2>0, Sighted
    <2> HIDE DEF S
    <2>3. Sightings' \subseteq S
      BY <2>1, <2>2, SightingsIn
    <2>4. QED BY <1>0, <2>3, PlaceNew DEF S
  <1> HIDE DEF made
  <1>5. Directed'
    BY <1>0, <1>3 DEF Directed, Current
  <1>6. Backed'
    BY <1>0, <1>2, <1>3 DEF Backed, Uploaded, Transfer
  <1>7. Paid' /\ IsFiniteSet(late')
    <2>1. Sending' = Sending
      BY <1>3 DEF Sending
    <2>2. Repeatable' = Repeatable
      BY <1>3, <2>1 DEF Repeatable
    <2>3. QED BY <1>1, <1>2, <1>3, <2>1, <2>2, PaidLateMade
  <1>8. Counted'
    <2>1. IsFiniteSet(copies')
      BY <1>0, <1>2, FS_AddElement DEF Counted
    <2>2. QED BY <1>2, <1>7, <2>1 DEF Counted
  <1>9. QED BY <1>4, <1>5, <1>6, <1>7, <1>8 DEF CopiesInv

LEMMA ServersCopies == TypeOK /\ AckInv /\ CopiesInv /\ UploadsOnly /\ Servers => CopiesInv'
  <1> SUFFICES ASSUME TypeOK, AckInv, CopiesInv, UploadsOnly, Servers PROVE CopiesInv'
    OBVIOUS
  <1>1. CASE Refuse
    <2>1. /\ request'.kind = request.kind /\ request'.to = request.to
          /\ request'.reply = "refused" /\ request'.new = request.new
      BY <1>1 DEF Refuse, TypeOK, Request
    <2>2. request.new = 0
      BY <1>1 DEF Refuse, Waits, CopiesInv, Backed
    <2>3. Answers /\ copies' = copies /\ late' = late
      BY <1>1, <2>1 DEF Answers, Waits, Refuse, local
    <2>4. QED BY <2>1, <2>2, <2>3, NoEffectCopies
  <1>2. QED BY <1>1, ExecuteCopies, TimeOutCopies, LateCopies DEF Servers

LEMMA InterruptCopies == TypeOK /\ AckInv /\ CopiesInv /\ UploadsOnly /\ Interrupt => CopiesInv'
  <1> SUFFICES ASSUME TypeOK, AckInv, CopiesInv, UploadsOnly, Interrupt PROVE CopiesInv'
    OBVIOUS
  <1>0. OnePlace /\ Directed /\ Backed /\ Counted
    BY DEF CopiesInv
  <1>1. /\ holder'.at = "idle" /\ request'.new = 0 /\ request'.reply = "none"
        /\ UNCHANGED <<copies, nextUid, rows, cache, removed, moves>>
    BY IdleShape DEF Interrupt, NoRequest
  <1>2. check'.live = {} \/ check' = check
    BY DEF Interrupt, NoCheck
  <1>3. OnePlace'
    <2>1. /\ copies' \subseteq Sightings /\ \A m \in cache' : m.uid # 0 => m \in Sightings
          /\ \A u \in Uids : rows'[u].stage # "none" => At(u, rows'[u].from) \in Sightings
          /\ \A u \in check'.live : At(u, check'.folder) \in Sightings
      BY <1>1, <1>2, Sighted
    <2>2. Sightings' \subseteq Sightings
      BY <1>1, <2>1, SightingsIn
    <2>3. QED BY <1>0, <2>2, PlaceSame
  <1>4. Backed'
    BY <1>1 DEF Backed, Uploaded, Cleans
  <1>5. \A u \in Uids : Stays(u) /\ (~Sending => (u \in Repeatable' => u \in Repeatable))
    BY <1>1 DEF Stays, Repeatable
  <1>6. ~Sending' /\ moves \in Nat /\ moves <= moves'
    BY <1>1 DEF Sending, TypeOK
  <1>7. CASE late' = late
    <2>1. Directed' /\ Counted'
      BY <1>0, <1>1, <1>7 DEF Directed, Asks, Counted
    <2>2. Paid'
      <3>1. CASE Sending
        <4>1. \A u \in Repeatable' : u = holder.uid \/ (u \in Repeatable /\ Stays(u))
          BY <1>1, <1>5 DEF Repeatable
        <4>2. QED BY <1>1, <1>6, <1>7, <3>1, <4>1, PaidReturn
      <3>2. CASE ~Sending
        <4>1. \A u \in Repeatable' : u \in Repeatable /\ Stays(u)
          BY <1>5, <3>2 DEF Repeatable
        <4>2. QED BY <1>1, <1>6, <1>7, <3>2, <4>1, PaidSame
      <3>3. QED BY <3>1, <3>2
    <2>3. QED BY <1>3, <1>4, <2>1, <2>2 DEF CopiesInv
  <1>8. CASE late' = late \cup {GivenUp} /\ Waits /\ request.kind \in Late
    <2>1. Sending /\ GivenUp.kind = "append" /\ Transfer(rows[holder.uid])
      BY <1>0, <1>8, GivenUpUpload
    <2>2. Directed'
      BY <1>0, <1>1, <1>8, <2>1 DEF Directed, Asks
    <2>3. holder.uid \notin Repeatable'
      BY <1>1, <2>1 DEF Repeatable
    <2>4. \A u \in Repeatable' : u \in Repeatable /\ Stays(u)
      BY <1>1, <1>5, <2>3 DEF Repeatable
    <2>5. Paid' /\ IsFiniteSet(late')
      BY <1>1, <1>6, <1>8, <2>1, <2>4, PaidLate
    <2>6. Counted'
      BY <1>0, <1>1, <2>5 DEF Counted
    <2>7. QED BY <1>3, <1>4, <2>2, <2>5, <2>6 DEF CopiesInv
  <1>9. QED BY <1>7, <1>8 DEF Interrupt

LEMMA InitCopies == Init => CopiesInv
  <1> SUFFICES ASSUME Init PROVE CopiesInv
    OBVIOUS
  <1>0. /\ copies = {At(1, Home)} /\ cache = {At(1, Home)} /\ late = {} /\ moves = 0
        /\ holder.at = "idle" /\ request.new = 0 /\ request.reply = "none" /\ check.live = {}
        /\ \A u \in Uids : rows[u].stage = "none"
    BY DEF Init, Idle, NoRequest, NoCheck, NoRow
  <1>1. OnePlace
    BY <1>0, AtFacts DEF OnePlace, Sightings
  <1>2. Directed /\ Backed
    BY <1>0 DEF Directed, Backed, Asks, Cleans, Uploaded
  <1>3. Counted
    BY <1>0, FS_Singleton, FS_EmptySet DEF Counted
  <1>4. Paid
    <2>1. Repeatable = {} /\ ~Sending
      BY <1>0 DEF Repeatable, Unsubmitted, Sending
    <2>2. \A f \in Folders : Cardinality(Stood({}, f)) <= Cardinality(In(copies, f))
      <3> SUFFICES ASSUME NEW f \in Folders
                   PROVE  Cardinality(Stood({}, f)) <= Cardinality(In(copies, f))
        OBVIOUS
      <3>1. Stood({}, f) = {}
        BY <2>1 DEF Stood
      <3>2. Cardinality(In(copies, f)) \in Nat
        BY <1>3, InFinite DEF Counted
      <3>3. QED BY <3>1, <3>2, FS_EmptySet
    <2>3. Cardinality(copies) = 1 /\ Cardinality({}) = 0 /\ Cardinality(late) = 0
      BY <1>0, FS_Singleton, FS_EmptySet
    <2>4. Cardinality(copies) + Cardinality({}) + Cardinality(late) + (IF Sending THEN 1 ELSE 0) <= 1 + moves
      BY <1>0, <2>1, <2>3
    <2>5. {} \in SUBSET Uids
      OBVIOUS
    <2>6. QED BY <2>2, <2>4, <2>5 DEF Paid
  <1>5. QED BY <1>1, <1>2, <1>3, <1>4 DEF CopiesInv

LEMMA NextCopies == TypeOK /\ AckInv /\ CopiesInv /\ UploadsOnly /\ [Next]_vars => CopiesInv'
  BY CommandCopies, AskedCopies, PeriodicCopies, ServersCopies, InterruptCopies, SameCopies
     DEF Next, vars, local

LEMMA CopiesCounted == TypeOK /\ CopiesInv => OneCopyPerMove
  <1> SUFFICES ASSUME TypeOK, CopiesInv PROVE OneCopyPerMove
    OBVIOUS
  <1>1. PICK w \in SUBSET Uids : Payment(w)
    BY PaidMeans DEF CopiesInv
  <1>2. /\ Cardinality(copies) \in Nat /\ Cardinality(late) \in Nat
        /\ Cardinality(w) \in Nat /\ moves \in Nat
    BY Sizes DEF CopiesInv
  <1>3. Cost(w) <= 1 + moves
    BY <1>1 DEF Payment
  <1>4. Cardinality(copies) <= 1 + moves
    BY <1>2, <1>3 DEF Cost
  <1>5. Cardinality(copies) # 0
    BY FS_EmptySet DEF CopiesInv, Counted
  <1>6. QED BY <1>2, <1>4, <1>5 DEF OneCopyPerMove

(* However often a move is retried it makes one copy, and the last copy is   *)
(* never removed, where only uploads are carried out after they were given   *)
(* up.  Without that the message may be moved back before its late removal.  *)
THEOREM CopiesAreCounted ==
    ASSUME UploadsOnly
    PROVE  Spec => []OneCopyPerMove
  <1>1. TypeOK /\ AckInv /\ CopiesInv /\ [Next]_vars => CopiesInv'
    BY NextCopies
  <1>2. QED BY <1>1, InitCopies, InitAck, NextAck, CopiesCounted, TypeCorrect, PTL DEF Spec

----------------------------------------------------------------------------
(* The listing of a folder and the cache.                                     *)

(* What a step leaves of the listing it found. *)
Overlooks ==
    check'.at = "listed" =>
        /\ check.at = "listed" /\ check'.folder = check.folder /\ check'.live = check.live
        /\ check.away \subseteq check'.away /\ check.in \subseteq check'.in
        /\ \A m \in copies' \cap cache' :
               m.folder = check.folder => m \in copies \cap cache \/ m.uid \in check.live \cup check'.in
        /\ \A v \in check.live :
               rows'[v].stage = "Located" => rows[v].stage = "Located" \/ v \in check'.away

LEMMA OverlooksListing == ListingInv /\ Overlooks => ListingInv'
  BY DEF ListingInv, Overlooks

(* A step that neither reads a message into the cache nor resolves a move.    *)
LEMMA PlainOverlooks ==
    ASSUME UNCHANGED check, cache' \subseteq cache, \A m \in copies' \cap cache : m \in copies,
           \A v \in check.live : rows'[v].stage = "Located" => rows[v].stage = "Located"
    PROVE  Overlooks
  BY DEF Overlooks

LEMMA LiveAreUids == TypeOK => check.live \subseteq Uids
  BY DEF TypeOK, Check

(* Only the resolution of a move puts another message into the cache.        *)
LEMMA CommandRows ==
    ASSUME TypeOK, Truthful, Command, ~Resolve
    PROVE  /\ UNCHANGED <<copies, cache, check>>
           /\ \A v \in Uids : rows'[v].stage = "Located" => rows[v].stage = "Located"
  <1>0. holder.uid \in Uids /\ rows \in [Uids -> Row]
    BY CommandFacts DEF TypeOK
  <1>1. ASSUME NEW r, rows' = [rows EXCEPT ![holder.uid] = r], r.stage # "Located"
        PROVE  \A v \in Uids : rows'[v].stage = "Located" => rows[v].stage = "Located"
    BY <1>0, <1>1
  <1>2. holder.rec \in Row
    BY CommandFacts
  <1>3. ASSUME NEW s \in Stages, NEW v PROVE Checkpoint(s, v).stage = s
    BY <1>2 DEF Checkpoint, Row
  <1>4. NoRow.stage # "Located"
    BY DEF NoRow
  <1>5. ASSUME ToLocal(holder.rec)
        PROVE  /\ UNCHANGED <<cache, check>>
               /\ \A v \in Uids : rows'[v].stage = "Located" => rows[v].stage = "Located"
    <2>1. PICK k : k = [holder.rec EXCEPT !.stage = "Local"]
      OBVIOUS
    <2>2. k.stage # "Located"
      BY <1>2, <2>1 DEF Row
    <2>3. UNCHANGED rows \/ rows' = [rows EXCEPT ![holder.uid] = k]
      BY <1>5, <2>1 DEF ToLocal, Save, GiveUp, local
    <2>4. UNCHANGED <<cache, check>>
      BY <1>5 DEF ToLocal, GiveUp, local
    <2>5. QED BY <1>1, <2>2, <2>3, <2>4
  <1>6. CASE Prepare
    <2>1. PICK k : k = [holder.rec EXCEPT !.stage = "Local"]
      OBVIOUS
    <2>2. k.stage # "Located" /\ holder.rec.stage = "Started"
      BY <1>2, <1>6, <2>1 DEF Row, Prepare, Truthful
    <2>3. \/ UNCHANGED rows
          \/ rows' = [rows EXCEPT ![holder.uid] = k]
          \/ rows' = [rows EXCEPT ![holder.uid] = holder.rec]
      BY <1>6, <2>1 DEF Prepare, Save, SaveAs, GiveUp, local
    <2>4. UNCHANGED <<copies, cache, check>>
      BY <1>6 DEF Prepare, GiveUp, local, Quiet, server
    <2>5. QED BY <1>1, <2>2, <2>3, <2>4
  <1>7. CASE Reprepare
    BY <1>5, <1>7 DEF Reprepare, GiveUp, local, Quiet, server
  <1>8. CASE Submit \/ RemoveSource
    BY <1>8 DEF Submit, RemoveSource, Ask, local
  <1>9. CASE Submitted
    <2> DEFINE stage == IF Transfer(holder.rec) THEN "Copied" ELSE "Committed"
    <2>1. PICK k : k = Checkpoint(stage, request.new)
      OBVIOUS
    <2>2. k.stage # "Located"
      BY <1>3, <2>1 DEF Stages
    <2>3. \/ UNCHANGED <<rows, cache, check>> \/ ToLocal(holder.rec)
          \/ rows' = [rows EXCEPT ![holder.uid] = k] /\ UNCHANGED <<cache, check>>
          \/ rows' = [rows EXCEPT ![holder.uid] = NoRow] /\ UNCHANGED <<cache, check>>
      BY <1>9, <2>1 DEF Submitted, Save, GiveUp, local
    <2>4. UNCHANGED copies
      BY <1>9 DEF Submitted, Consume
    <2>5. QED BY <1>1, <1>4, <1>5, <2>2, <2>3, <2>4
  <1>10. CASE Recover
    BY <1>10 DEF Recover, GiveUp, local, Quiet, server
  <1>11. CASE Locate
    <2>1. UNCHANGED rows \/ \E v : rows' = [rows EXCEPT ![holder.uid] = Checkpoint("Copied", v)]
      BY <1>11 DEF Locate, GiveUp, local
    <2>2. UNCHANGED <<copies, cache, check>>
      BY <1>11 DEF Locate, GiveUp, local, Quiet, server
    <2>3. \A v : Checkpoint("Copied", v).stage # "Located"
      BY <1>3 DEF Stages
    <2>4. QED BY <1>1, <2>1, <2>2, <2>3
  <1>12. CASE Cleaned
    <2>1. \/ UNCHANGED rows
          \/ rows' = [rows EXCEPT ![holder.uid] = Checkpoint("Committed", holder.rec.current)]
      BY <1>12 DEF Cleaned, SaveAs, GiveUp, local
    <2>2. UNCHANGED <<copies, cache, check>>
      BY <1>12 DEF Cleaned, GiveUp, local, Consume
    <2>3. Checkpoint("Committed", holder.rec.current).stage # "Located"
      BY <1>3 DEF Stages
    <2>4. QED BY <1>1, <2>1, <2>2, <2>3
  <1>13. CASE ReleaseUnapplied
    <2>1. UNCHANGED rows \/ rows' = [rows EXCEPT ![holder.uid] = NoRow]
      BY <1>13 DEF ReleaseUnapplied, GiveUp, local
    <2>2. UNCHANGED <<copies, cache, check>>
      BY <1>13 DEF ReleaseUnapplied, GiveUp, local, Quiet, server
    <2>3. QED BY <1>1, <1>4, <2>1, <2>2
  <1>14. QED BY <1>6, <1>7, <1>8, <1>9, <1>10, <1>11, <1>12, <1>13 DEF Command

(* A resolved move: the message of the destination, which is there.          *)
LEMMA ResolveListing ==
    ASSUME TypeOK, AckInv, Backed, Resolve
    PROVE  \/ UNCHANGED <<copies, rows, cache, check>>
           \/ /\ UNCHANGED copies /\ holder.uid \in Uids /\ ~Has(copies, holder.uid)
              /\ At(holder.found, holder.rec.dest) \in copies
              /\ cache' = (cache \ {At(holder.uid, holder.rec.from)}) \cup {At(holder.found, holder.rec.dest)}
              /\ check' = [check EXCEPT !.away = @ \cup {holder.uid}, !.in = @ \cup ({holder.found} \ {0})]
              /\ \A w \in Uids : w # holder.uid => rows'[w] = rows[w]
  <1>1. UNCHANGED copies /\ holder.at = "resolving" /\ holder.uid \in Uids
    BY CommandFacts DEF Resolve, Quiet, server
  <1>2. CASE GiveUp
    BY <1>1, <1>2 DEF GiveUp, local
  <1>3. CASE /\ holder.found # 0 /\ Current /\ holder.rec.stage = "Committed"
             /\ Relocated(holder.uid, holder.rec.from, holder.found, holder.rec.dest)
             /\ Save([holder.rec EXCEPT !.stage = "Located", !.current = holder.found])
    <2>1. ~Has(copies, holder.uid)
      BY <1>1, <1>3 DEF Current, AckInv, SourceIsGone
    <2>2. At(holder.found, holder.rec.dest) \in copies
      BY <1>1, <1>3 DEF Backed
    <2>3. \A w \in Uids : w # holder.uid => rows'[w] = rows[w]
      BY <1>3, SaveShape
    <2>4. QED BY <1>1, <1>3, <2>1, <2>2, <2>3 DEF Relocated
  <1>4. QED BY <1>2, <1>3 DEF Resolve

LEMMA CommandListing ==
    ASSUME TypeOK, AckInv, Backed, Command
    PROVE  Overlooks
  <1>1. check.live \subseteq Uids /\ Truthful
    BY LiveAreUids DEF AckInv
  <1>2. CASE ~Resolve
    <2>1. /\ UNCHANGED <<copies, cache, check>>
          /\ \A v \in Uids : rows'[v].stage = "Located" => rows[v].stage = "Located"
      BY <1>1, <1>2, CommandRows
    <2>2. QED BY <1>1, <2>1, PlainOverlooks
  <1>3. CASE Resolve
    <2>1. CASE UNCHANGED <<copies, rows, cache, check>>
      BY <2>1, PlainOverlooks
    <2>2. CASE /\ UNCHANGED copies /\ At(holder.found, holder.rec.dest) \in copies
               /\ cache' = (cache \ {At(holder.uid, holder.rec.from)}) \cup {At(holder.found, holder.rec.dest)}
               /\ check' = [check EXCEPT !.away = @ \cup {holder.uid}, !.in = @ \cup ({holder.found} \ {0})]
               /\ \A w \in Uids : w # holder.uid => rows'[w] = rows[w]
      <3>1. /\ check'.at = check.at /\ check'.folder = check.folder /\ check'.live = check.live
            /\ check'.away = check.away \cup {holder.uid}
            /\ check'.in = check.in \cup ({holder.found} \ {0})
        BY <2>2 DEF TypeOK, Check
      <3>2. At(holder.found, holder.rec.dest).uid = holder.found /\ holder.found # 0
        BY <2>2, AtFacts DEF TypeOK, Uids
      <3>3. \A m \in copies' \cap cache' : m \in copies \cap cache \/ m.uid \in check'.in
        BY <2>2, <3>1, <3>2
      <3>4. \A v \in check.live : rows'[v].stage = "Located" =>
                                      rows[v].stage = "Located" \/ v \in check'.away
        BY <1>1, <2>2, <3>1
      <3>5. QED BY <3>1, <3>3, <3>4 DEF Overlooks
    <2>3. QED BY <1>3, <2>1, <2>2, ResolveListing
  <1>4. QED BY <1>2, <1>3

LEMMA AskedListing ==
    ASSUME TypeOK, Asked
    PROVE  Overlooks
  <1>0. check.live \subseteq Uids
    BY LiveAreUids
  <1>1. ASSUME NEW u \in Uids, NEW f \in Folders, NEW p \in Folders, Move(u, f, p)
        PROVE  Overlooks
    BY <1>1, PlainOverlooks DEF Move, server, local
  <1>2. ASSUME NEW u \in Uids, UndoLocal(u) PROVE Overlooks
    <2>1. \A w \in Uids : rows'[w].stage = "Located" => rows[w].stage = "Located"
      BY <1>2 DEF UndoLocal, TypeOK, NoRow
    <2>2. QED BY <1>0, <1>2, <2>1, PlainOverlooks DEF UndoLocal, server
  <1>3. ASSUME NEW u \in Uids, KeepCopy(u) PROVE Overlooks
    <2>1. rows' = [rows EXCEPT ![u] = [rows[u] EXCEPT !.stage = "Kept"]]
      BY <1>3 DEF KeepCopy
    <2>2. PICK k : k = [rows[u] EXCEPT !.stage = "Kept"]
      OBVIOUS
    <2>3. k.stage = "Kept"
      BY <2>2, RowFacts DEF Row
    <2>4. \A w \in Uids : rows'[w].stage = "Located" => rows[w].stage = "Located"
      BY <2>1, <2>2, <2>3 DEF TypeOK
    <2>5. /\ cache' \subseteq cache \cup {At(0, rows[u].from)} /\ UNCHANGED copies
          /\ check' = [check EXCEPT !.away = @ \cup {u}, !.in = @ \cup ({0} \ {0})]
      BY <1>3 DEF KeepCopy, KeepsOriginal, Relocated, server
    <2>6. At(0, rows[u].from) \notin copies
      BY AtFacts DEF TypeOK, Uids
    <2>7. /\ check'.at = check.at /\ check'.folder = check.folder /\ check'.live = check.live
          /\ check.away \subseteq check'.away /\ check.in \subseteq check'.in
      BY <2>5 DEF TypeOK, Check
    <2>8. QED BY <1>0, <2>4, <2>5, <2>6, <2>7 DEF Overlooks
  <1>4. ASSUME NEW u \in Uids, UseExisting(u) \/ Retry(u) PROVE Overlooks
    BY <1>4, PlainOverlooks DEF UseExisting, Retry, server, local
  <1>5. ASSUME NEW a \in MailAccounts, AdmitRemoval(a) PROVE Overlooks
    BY <1>5, PlainOverlooks DEF AdmitRemoval, server, local
  <1>6. QED BY <1>1, <1>2, <1>3, <1>4, <1>5 DEF Asked

LEMMA PeriodicListing ==
    ASSUME TypeOK, AckInv, ListingInv, Periodic
    PROVE  ListingInv'
  <1>0. check.live \subseteq Uids
    BY LiveAreUids
  <1>1. ASSUME NEW u \in Uids, Background(u) PROVE ListingInv'
    BY <1>1, PlainOverlooks, OverlooksListing DEF Background, server, local
  <1>2. ASSUME NEW f \in Folders, ListFolder(f) PROVE ListingInv'
    <2>1. /\ check'.live = {m.uid : m \in In(copies, f)} /\ check'.folder = f
          /\ UNCHANGED <<copies, rows, cache>>
      BY <1>2 DEF ListFolder, NoCheck, server
    <2>2. \A m \in copies' \cap cache' : m.folder = check'.folder => m.uid \in check'.live
      BY <2>1 DEF In
    <2>3. \A v \in check'.live : Has(copies, v) /\ v \in Uids
      BY <2>1 DEF In, Has, TypeOK
    <2>4. \A v \in check'.live : rows'[v].stage # "Located"
      BY <2>1, <2>3 DEF AckInv, SourceIsGone
    <2>5. QED BY <2>2, <2>4 DEF ListingInv
  <1>3. ASSUME NEW v \in Uids, Arrive(v) PROVE ListingInv'
    <2>1. \A m \in copies' \cap cache' : m \in copies \cap cache \/ m.uid \in check.live
      BY <1>3, AtFacts DEF Arrive, server
    <2>2. UNCHANGED <<check, rows>>
      BY <1>3 DEF Arrive
    <2>3. Overlooks
      BY <2>1, <2>2 DEF Overlooks
    <2>4. QED BY <2>3, OverlooksListing
  <1>4. CASE Reconcile
    BY <1>4 DEF Reconcile, NoCheck, ListingInv
  <1>5. ASSUME NEW a \in MailAccounts, Purge(a) PROVE ListingInv'
    <2>1. \A w \in Uids : rows'[w] = rows[w] \/ rows'[w].stage = "none"
      BY <1>5 DEF Purge, NoRow
    <2>2. \A m \in cache' : m \in cache \/ m.uid = 0
      BY <1>5, AtFacts DEF Purge
    <2>3. /\ check'.at = check.at /\ check'.live = check.live /\ check'.folder = check.folder
          /\ check.away \subseteq check'.away /\ check'.in = check.in
      BY <1>5 DEF Purge, TypeOK, Check
    <2>4. UNCHANGED copies /\ \A m \in copies : m.uid # 0
      BY <1>5 DEF Purge, server, TypeOK, Uids
    <2>5. Overlooks
      BY <1>0, <2>1, <2>2, <2>3, <2>4 DEF Overlooks
    <2>6. QED BY <2>5, OverlooksListing
  <1>6. QED BY <1>1, <1>2, <1>3, <1>4, <1>5 DEF Periodic

LEMMA ServersListing ==
    ASSUME TypeOK, AckInv, Servers
    PROVE  Overlooks
  <1>1. UNCHANGED <<rows, cache, check>>
    BY DEF Servers, Execute, Refuse, TimeOut, ExecuteLate, local
  <1>2. ASSUME NEW c, NEW o \in Outcomes(c), Happens(o)
        PROVE  \A m \in copies' \cap cache : m \in copies
    <2>1. \A m \in copies' : m \in copies \/ m.uid = nextUid
      BY <1>2, OutcomeFacts
    <2>2. \A m \in cache : m.uid < nextUid /\ nextUid \in Nat
      BY DEF AckInv, Issued, TypeOK
    <2>3. QED BY <2>1, <2>2
  <1>3. \A m \in copies' \cap cache : m \in copies
    BY <1>2 DEF Servers, Execute, Refuse, TimeOut, ExecuteLate
  <1>4. QED BY <1>1, <1>3, PlainOverlooks

LEMMA InterruptListing ==
    ASSUME Interrupt, ListingInv
    PROVE  ListingInv'
  <1>1. check' = check \/ check'.at # "listed"
    BY DEF Interrupt, NoCheck
  <1>2. QED BY <1>1 DEF Interrupt, ListingInv

LEMMA NextListing == TypeOK /\ AckInv /\ Backed /\ ListingInv /\ [Next]_vars => ListingInv'
  <1>1. UNCHANGED vars => Overlooks
    BY PlainOverlooks DEF vars, server, local
  <1>2. QED BY <1>1, OverlooksListing, CommandListing, AskedListing, PeriodicListing,
               ServersListing, InterruptListing DEF Next

LEMMA InitListing == Init => ListingInv
  BY DEF Init, NoCheck, ListingInv

----------------------------------------------------------------------------
(* The cache follows the servers. *)

LEMMA ThereNotMoved ==
    ASSUME TypeOK, AckInv, NEW m \in copies
    PROVE  m.uid \in Uids /\ rows[m.uid].stage \notin {"Committed", "Located"}
  BY DEF TypeOK, AckInv, SourceIsGone, Has

(* What a check of a folder takes in is not the source of an acknowledged    *)
(* move: the original of such a move is still in the cache, or the ledger    *)
(* has told the check.                                                       *)
LEMMA ArrivalIsNew ==
    ASSUME TypeOK, OriginalIsKept, OnePlace, ListingInv, NEW v \in Uids, Arrive(v),
           At(v, check.folder) \notin cache
    PROVE  rows[v].stage \notin {"Committed", "Located"}
  <1>0. check.at = "listed" /\ v \in check.live /\ v \notin check.away
    BY DEF Arrive, Listed, DropsArrival
  <1>1. rows[v].stage # "Located"
    BY <1>0 DEF ListingInv
  <1>2. ASSUME rows[v].stage = "Committed" PROVE FALSE
    <2>1. At(v, rows[v].from) \in cache
      BY <1>2 DEF OriginalIsKept, Finished
    <2>2. /\ At(v, rows[v].from) \in Sightings /\ At(v, check.folder) \in Sightings
      BY <1>0, <1>2 DEF Sightings
    <2>3. At(v, rows[v].from) = At(v, check.folder)
      BY <2>2, AtFacts DEF OnePlace
    <2>4. QED BY <2>1, <2>3
  <1>3. QED BY <1>1, <1>2

LEMMA NewcomersAreTrue ==
    ASSUME TypeOK, AckInv, OriginalIsKept, CopiesInv, ListingInv, Next,
           NEW m \in cache' \ cache, m.uid # 0
    PROVE  /\ rows[m.uid].stage \notin {"Committed", "Located"}
           /\ m \in copies \/ m.uid \in check.live
  <1>1. CASE Command
    <2>1. Resolve
      BY <1>1, CommandRows DEF AckInv
    <2>2. m \in copies
      BY <2>1, ResolveListing DEF CopiesInv
    <2>3. QED BY <2>2, ThereNotMoved
  <1>2. ASSUME NEW u \in Uids, KeepCopy(u) PROVE FALSE
    <2>1. m = At(0, rows[u].from)
      BY <1>2 DEF KeepCopy, KeepsOriginal, Relocated
    <2>2. QED BY <2>1, AtFacts
  <1>3. CASE Asked
    BY <1>2, <1>3 DEF Asked, Move, UndoLocal, UseExisting, Retry, AdmitRemoval, local
  <1>4. ASSUME NEW v \in Uids, Arrive(v)
        PROVE  /\ rows[m.uid].stage \notin {"Committed", "Located"}
               /\ m.uid \in check.live
    <2>1. m = At(v, check.folder) /\ v \in check.live
      BY <1>4 DEF Arrive
    <2>2. m.uid = v
      BY <2>1, AtFacts
    <2>3. QED BY <1>4, <2>1, <2>2, ArrivalIsNew DEF CopiesInv
  <1>5. ASSUME NEW a \in MailAccounts, Purge(a) PROVE FALSE
    <2>1. PICK n : m = At(0, n.folder)
      BY <1>5 DEF Purge
    <2>2. QED BY <2>1, AtFacts
  <1>6. CASE Periodic
    <2>1. CASE Reconcile
      BY <2>1 DEF Reconcile
    <2>2. QED BY <1>4, <1>5, <1>6, <2>1 DEF Periodic, Background, ListFolder, local
  <1>7. CASE Servers \/ Interrupt
    BY <1>7 DEF Servers, Execute, Refuse, TimeOut, ExecuteLate, Interrupt, local
  <1>8. QED BY <1>1, <1>3, <1>6, <1>7 DEF Next

(* Only the end of a check drops what the servers no longer have.            *)
LEMMA EndedCheckDropsNothing ==
    ASSUME TypeOK, AckInv, CopiesInv, ListingInv, Next, check # NoCheck, check' = NoCheck
    PROVE  (cache \ cache') \cap copies = {}
  <1>0. NoCheck.away = {}
    BY DEF NoCheck
  <1>1. CASE Command
    <2>1. CASE ~Resolve
      BY <1>1, <2>1, CommandRows DEF AckInv
    <2>2. CASE Resolve
      <3>1. check' = [check EXCEPT !.away = @ \cup {holder.uid}, !.in = @ \cup ({holder.found} \ {0})]
            => holder.uid \in check'.away
        BY DEF TypeOK, Check
      <3>2. QED BY <1>0, <2>2, <3>1, ResolveListing DEF CopiesInv
    <2>3. QED BY <2>1, <2>2
  <1>2. ASSUME NEW u \in Uids, KeepCopy(u) PROVE FALSE
    <2>1. check' = [check EXCEPT !.away = @ \cup {u}, !.in = @ \cup ({0} \ {0})]
      BY <1>2 DEF KeepCopy, KeepsOriginal, Relocated
    <2>2. u \in check'.away
      BY <2>1 DEF TypeOK, Check
    <2>3. QED BY <1>0, <2>2
  <1>3. CASE Asked
    BY <1>2, <1>3 DEF Asked, Move, UndoLocal, UseExisting, Retry, AdmitRemoval, local
  <1>4. ASSUME NEW a \in MailAccounts, Purge(a) PROVE FALSE
    <2>1. /\ check'.at = check.at /\ check'.live = check.live /\ check'.folder = check.folder
          /\ check'.away = check.away \cup Orphans(a) /\ check'.in = check.in
      BY <1>4 DEF Purge, TypeOK, Check
    <2>2. check = [at |-> check.at, folder |-> check.folder, live |-> check.live,
                   away |-> check.away, in |-> check.in]
      BY DEF TypeOK, Check
    <2>3. /\ check.at = "idle" /\ check.folder = Home /\ check.live = {}
          /\ check.away = {} /\ check.in = {}
      BY <2>1 DEF NoCheck
    <2>4. QED BY <2>2, <2>3 DEF NoCheck
  <1>5. CASE Reconcile
    <2> SUFFICES ASSUME NEW m \in (cache \ cache') \cap copies PROVE FALSE
      OBVIOUS
    <2>1. /\ check.at = "listed" /\ m.folder = check.folder
          /\ m.uid \notin check.live /\ m.uid \notin check.in
      BY <1>5 DEF Reconcile, KeepsRow
    <2>2. QED BY <2>1 DEF ListingInv
  <1>6. CASE Periodic
    BY <1>4, <1>5, <1>6 DEF Periodic, Background, ListFolder, Arrive, local, NoCheck
  <1>7. CASE Servers \/ Interrupt
    BY <1>7 DEF Servers, Execute, Refuse, TimeOut, ExecuteLate, Interrupt, local
  <1>8. QED BY <1>1, <1>3, <1>6, <1>7 DEF Next

LEMMA StepFollows ==
    TypeOK /\ AckInv /\ OriginalIsKept /\ CopiesInv /\ ListingInv /\ [Next]_vars =>
       [/\ \A m \in cache' \ cache :
              m.uid # 0 => /\ rows[m.uid].stage \notin {"Committed", "Located"}
                           /\ m \in copies \/ m.uid \in check.live
        /\ check # NoCheck /\ check' = NoCheck => (cache \ cache') \cap copies = {}]_vars
  BY NewcomersAreTrue, EndedCheckDropsNothing

(* A listing that moves have overtaken neither brings the source of an       *)
(* acknowledged move back into the cache nor drops a message that the        *)
(* servers have (the write ledger), for any number of folders and moves.     *)
THEOREM CacheFollows == ASSUME UploadsOnly PROVE Spec => CacheFollowsServers
  <1>1. Init => TypeOK /\ AckInv /\ OriginalIsKept /\ CopiesInv /\ ListingInv
    BY InitType, InitAck, InitKeeps, InitCopies, InitListing
  <1>2. TypeOK /\ AckInv /\ OriginalIsKept /\ CopiesInv /\ ListingInv /\ [Next]_vars
        => TypeOK' /\ AckInv' /\ OriginalIsKept' /\ CopiesInv' /\ ListingInv'
    BY NextType, NextAck, NextKeeps, NextCopies, NextListing DEF CopiesInv
  <1>3. QED BY <1>1, <1>2, StepFollows, PTL DEF Spec, CacheFollowsServers
=============================================================================
