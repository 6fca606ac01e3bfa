--------------------------- MODULE ProfileSyncProofs --------------------------
(* Theorems about ProfileSync for any finite set of devices, any settings and *)
(* values, and every number of changes, reviews and interrupted passes.       *)
EXTENDS ProfileSync, FiniteSetTheorems, WellFoundedInduction, SequenceTheorems, TLAPS

----------------------------------------------------------------------------
(* The inductive invariant. *)

(* The values of the variables. *)
OperationType == [device : Devices, request : Nat, parents : SUBSET Nat,
                  changes : UNION {[D -> SettingValues] : D \in SUBSET Settings}]
FileType == [file : Nat, operation : Nat]
HistoryType == [log : Seq(Nat), applied : SUBSET Nat, heads : SUBSET Nat,
                versions : [Settings -> SUBSET Nat], changed : [Settings -> Nat],
                revision : Nat, files : Seq(FileType), uploaded : SUBSET Nat]
FieldType == [local : SettingValues, revision : Nat, native : Nat]
PendingType == [setting : Settings, request : Nat, expected : Nat, value : SettingValues,
                native : Nat, resolutions : SUBSET Nat]
ProfileReviewType == [setting : Settings, local : SettingValues, native : Nat,
                      awaiting : SUBSET Nat, revision : Nat, versions : SUBSET Nat]
JobType == [at : {"idle", "capture", "admit", "defer", "recheck", "acknowledge", "discover", "copy",
                  "checkpoint", "apply", "publish", "upload", "confirm"},
            task : {"sync", "review"}, excluded : SUBSET Settings, receipt : Nat]

(* Every operation follows earlier ones only. *)
InOrder(ops) ==
    /\ ops \in Seq(OperationType)
    /\ \A k \in DOMAIN ops : ops[k].parents \subseteq 1 .. k - 1

(* The versions of a setting, by what is applied. *)
Knows(ops, applied, s) == {k \in applied : Touches(ops, k, s)}
Newest(ops, applied, s) ==
    {k \in Knows(ops, applied, s) : \A later \in Knows(ops, applied, s) : k \notin Ancestry(ops)[later]}

HistoryOK(ops, h) ==
    /\ h \in HistoryType
    /\ Range(h.log) \subseteq 1 .. Len(ops) /\ h.applied \subseteq 1 .. Len(ops)
    /\ \A k \in h.applied : Ancestry(ops)[k] \subseteq h.applied
    /\ h.heads \subseteq h.applied
    /\ \A s \in Settings : h.versions[s] = Newest(ops, h.applied, s) /\ h.changed[s] <= h.revision
    /\ \A n \in DOMAIN h.files : h.files[n].operation \in 1 .. Len(ops)

HistoriesOK ==
    /\ InOrder(operations)
    /\ history \in [Devices -> HistoryType]
    /\ \A d \in Devices : HistoryOK(operations, history[d])

DriveOK ==
    /\ drive \subseteq FileType /\ IsFiniteSet(drive)
    /\ \A f \in drive : f.operation \in 1 .. Len(operations)
    /\ observed \in [Devices -> Seq(Nat)] /\ copied \in [Devices -> Nat]
    /\ \A d \in Devices : \A n \in DOMAIN observed[d] : observed[d][n] \in 1 .. Len(operations)

StoreTyped ==
    /\ native \in [Devices -> [Settings -> SettingValues]]
    /\ edits \in [Devices -> [Settings -> Nat]]
    /\ field \in [Devices -> [Settings -> FieldType]]
    /\ pending \in [Devices -> PendingType \union {None}]
    /\ deferred \in [Devices -> SUBSET PendingType]
    /\ requests \in [Devices -> Nat]
    /\ job \in [Devices -> JobType]
    /\ review \in [Devices -> ProfileReviewType \union {None}]
    /\ carrier \in [Devices -> [Settings -> Nat]]

(* The operation that carries a value was applied here and wrote it; a setting *)
(* without one has something to say.                                           *)
Carried(d, s) ==
    /\ carrier[d][s] # 0 =>
          /\ carrier[d][s] \in history[d].applied /\ Touches(operations, carrier[d][s], s)
          /\ ValueOf(operations, carrier[d][s], s) = native[d][s]
    /\ ~Unsaved(d, s) => carrier[d][s] # 0

(* What a setting last agreed with. *)
AgreedUpon(d, s) ==
    /\ field[d][s].native <= edits[d][s] /\ field[d][s].revision <= history[d].revision
    /\ field[d][s].revision >= history[d].changed[s] =>
          \E k \in history[d].applied :
             /\ history[d].versions[s] = {k}
             /\ ValueOf(operations, k, s) = field[d][s].local

(* The changes that are on their way. *)
OnTheWay(d) == {p \in deferred[d] \union {pending[d]} : p # None}
ChangesOf(p) == [s \in {p.setting} |-> p.value]
Underway(d) ==
    /\ \A p \in OnTheWay(d) :
          /\ p.native <= edits[d][p.setting]
          /\ p.native = edits[d][p.setting] => p.value = native[d][p.setting]
          /\ p.request \in 1 .. requests[d]
          /\ \A k \in OwnOperation(d, p) : operations[k].changes = ChangesOf(p)
    /\ \A p, q \in OnTheWay(d) : p.request = q.request => p = q
    /\ \A k \in DOMAIN operations : operations[k].device = d => operations[k].request <= requests[d]

(* What the worker of a device relies on between two steps. *)
WorkerKnows(d) ==
    /\ job[d].at \in {"admit", "defer", "acknowledge"} => pending[d] # None
    /\ job[d].at = "acknowledge" =>
          /\ job[d].receipt = history[d].revision
          /\ \E k \in history[d].applied :
                /\ history[d].versions[pending[d].setting] = {k}
                /\ ValueOf(operations, k, pending[d].setting) = pending[d].value
          /\ pending[d].native = edits[d][pending[d].setting] => carrier[d][pending[d].setting] # 0
    /\ job[d].at \in {"upload", "confirm"} => ToUpload(d) # {}
    /\ job[d].at = "upload" => \E f \in Range(history[d].files) : f.operation = NextUpload(d)

DeviceOK(d) ==
    /\ Underway(d) /\ WorkerKnows(d)
    /\ \A s \in Settings : Carried(d, s) /\ AgreedUpon(d, s)

ProfileIInv ==
    /\ HistoriesOK /\ DriveOK /\ StoreTyped
    /\ \A d \in Devices : DeviceOK(d)

----------------------------------------------------------------------------
(* Induction over sets of numbers. *)

(* A set of numbers that is not empty has a least one: the intervals from 0   *)
(* are well founded as finite sets.                                           *)
LEMMA LeastNumber ==
    ASSUME NEW T \in SUBSET Nat, T # {}
    PROVE  \E m \in T : \A k \in T : m <= k
  <1> DEFINE below == {0 .. n : n \in T}
  <1>1. below \subseteq FiniteSubsetsOf(Nat)
    <2>1. ASSUME NEW n \in T PROVE 0 .. n \in SUBSET Nat /\ IsFiniteSet(0 .. n)
      BY FS_Interval
    <2>2. QED BY <2>1 DEF FiniteSubsetsOf
  <1>2. below # {}
    OBVIOUS
  <1>3. PICK x \in below : \A y \in below : <<y, x>> \notin StrictSubsetOrdering(Nat)
    <2> HIDE DEF below
    <2>1. QED BY <1>1, <1>2, FS_StrictSubsetOrderingWellFounded, WFMin
  <1>4. PICK m \in T : x = 0 .. m
    BY <1>3
  <1>5. ASSUME NEW k \in T, ~(m <= k) PROVE FALSE
    <2>1. m \in Nat /\ k \in Nat /\ k < m
      BY <1>5
    <2>2. 0 .. k \subseteq 0 .. m /\ 0 .. k # 0 .. m
      <3>1. m \in 0 .. m /\ m \notin 0 .. k
        BY <2>1
      <3>2. \A i \in 0 .. k : i \in 0 .. m
        BY <2>1
      <3>3. QED BY <3>1, <3>2
    <2>3. 0 .. k \in SUBSET Nat /\ 0 .. m \in SUBSET Nat
      BY <2>1
    <2>4. <<0 .. k, 0 .. m>> \in StrictSubsetOrdering(Nat)
      BY <2>2, <2>3 DEF StrictSubsetOrdering
    <2>5. QED BY <1>3, <1>4, <2>4
  <1>6. QED BY <1>4, <1>5

(* Min of the community modules is that number. *)
LEMMA MinIsLeast ==
    ASSUME NEW T \in SUBSET Nat, T # {}
    PROVE  Min(T) \in T /\ \A k \in T : Min(T) <= k
  BY LeastNumber DEF Min

(* What is true of 0 and of each number after one it is true of. *)
LEMMA SetInduction ==
    ASSUME NEW T, 0 \in T, \A n \in Nat : n \in T => n + 1 \in T
    PROVE  Nat \subseteq T
  <1>1. SUFFICES ASSUME Nat \ T # {} PROVE FALSE
    OBVIOUS
  <1>2. PICK m \in Nat \ T : \A k \in Nat \ T : m <= k
    BY <1>1, LeastNumber
  <1>3. m # 0 /\ m - 1 \in Nat /\ m - 1 \notin Nat \ T
    BY <1>2
  <1>4. (m - 1) + 1 = m
    BY <1>2
  <1>5. QED BY <1>2, <1>3, <1>4

(* ... or of each number if it is true of all below. *)
LEMMA StrongInduction ==
    ASSUME NEW T, \A n \in Nat : (\A k \in 0 .. n - 1 : k \in T) => n \in T
    PROVE  Nat \subseteq T
  <1>1. SUFFICES ASSUME Nat \ T # {} PROVE FALSE
    OBVIOUS
  <1>2. PICK m \in Nat \ T : \A k \in Nat \ T : m <= k
    BY <1>1, LeastNumber
  <1>3. \A k \in 0 .. m - 1 : k \in T
    BY <1>2
  <1>4. QED BY <1>2, <1>3

----------------------------------------------------------------------------
(* Ancestry *)

LEMMA InOrderFacts ==
    ASSUME NEW ops, InOrder(ops)
    PROVE  /\ Len(ops) \in Nat /\ DOMAIN ops = 1 .. Len(ops)
           /\ \A k \in 1 .. Len(ops) : ops[k] \in OperationType /\ ops[k].parents \subseteq 1 .. k - 1
  BY LenProperties, ElementOfSeq DEF InOrder

(* The first n values of the function Ancestry is defined by. *)
AncestryTo(ops, n, f) ==
    f = [k \in 1 .. n |-> ops[k].parents \union UNION {f[p] : p \in ops[k].parents}]

LEMMA AncestryIs == ASSUME NEW ops PROVE Ancestry(ops) = CHOOSE f :
    f = [k \in DOMAIN ops |-> ops[k].parents \union UNION {f[p] : p \in ops[k].parents}]
  BY Zenon DEF Ancestry

LEMMA AncestryExists ==
    ASSUME NEW ops, InOrder(ops)
    PROVE  \E f : AncestryTo(ops, Len(ops), f)
  <1>0. Len(ops) \in Nat /\ \A k \in 1 .. Len(ops) : ops[k].parents \subseteq 1 .. k - 1
    BY InOrderFacts
  <1> DEFINE T == {n \in Nat : n <= Len(ops) => \E f : AncestryTo(ops, n, f)}
  <1>1. 0 \in T
    <2>1. AncestryTo(ops, 0, [k \in 1 .. 0 |-> {}])
      BY DEF AncestryTo
    <2>2. QED BY <2>1
  <1>2. ASSUME NEW n \in Nat, n \in T PROVE n + 1 \in T
    <2>1. SUFFICES ASSUME n + 1 <= Len(ops) PROVE \E f : AncestryTo(ops, n + 1, f)
      OBVIOUS
    <2>2. PICK f : AncestryTo(ops, n, f)
      BY <1>0, <1>2, <2>1
    <2> DEFINE g == [k \in 1 .. n + 1 |-> ops[k].parents \union UNION {f[p] : p \in ops[k].parents}]
    <2>3. \A k \in 1 .. n + 1 : ops[k].parents \subseteq 1 .. n
      BY <1>0, <2>1
    <2>4. \A p \in 1 .. n : g[p] = f[p]
      <3>1. \A p \in 1 .. n : f[p] = ops[p].parents \union UNION {f[q] : q \in ops[p].parents}
        BY <2>2 DEF AncestryTo
      <3>2. \A p \in 1 .. n : p \in 1 .. n + 1
        OBVIOUS
      <3>3. QED BY <3>1, <3>2
    <2> HIDE DEF g
    <2>5. \A k \in 1 .. n + 1 : {f[p] : p \in ops[k].parents} = {g[p] : p \in ops[k].parents}
      BY <2>3, <2>4
    <2>6. g = [k \in 1 .. n + 1 |-> ops[k].parents \union UNION {g[p] : p \in ops[k].parents}]
      BY <2>5 DEF g
    <2>7. QED BY <2>6 DEF AncestryTo
  <1> HIDE DEF T
  <1>3. Len(ops) \in T
    BY <1>0, <1>1, <1>2, SetInduction
  <1>4. QED BY <1>0, <1>3 DEF T

(* What comes before an operation. *)
LEMMA AncestryDef ==
    ASSUME NEW ops, InOrder(ops)
    PROVE  \A k \in 1 .. Len(ops) :
              Ancestry(ops)[k] = ops[k].parents \union UNION {Ancestry(ops)[p] : p \in ops[k].parents}
  <1>1. DOMAIN ops = 1 .. Len(ops)
    BY InOrderFacts
  <1>2. \E f : f = [k \in DOMAIN ops |-> ops[k].parents \union UNION {f[p] : p \in ops[k].parents}]
    BY <1>1, AncestryExists DEF AncestryTo
  <1>3. Ancestry(ops) = [k \in DOMAIN ops |->
            ops[k].parents \union UNION {Ancestry(ops)[p] : p \in ops[k].parents}]
    BY <1>2, AncestryIs
  <1>4. QED BY <1>1, <1>3

(* An operation comes after its ancestors. *)
LEMMA AncestorsAreOlder ==
    ASSUME NEW ops, InOrder(ops)
    PROVE  \A k \in 1 .. Len(ops) : Ancestry(ops)[k] \subseteq 1 .. k - 1
  <1>0. Len(ops) \in Nat /\ \A k \in 1 .. Len(ops) : ops[k].parents \subseteq 1 .. k - 1
    BY InOrderFacts
  <1> DEFINE T == {n \in Nat : n \in 1 .. Len(ops) => Ancestry(ops)[n] \subseteq 1 .. n - 1}
  <1>1. ASSUME NEW n \in Nat, \A k \in 0 .. n - 1 : k \in T PROVE n \in T
    <2>1. SUFFICES ASSUME n \in 1 .. Len(ops), NEW a \in Ancestry(ops)[n] PROVE a \in 1 .. n - 1
      OBVIOUS
    <2>2. CASE a \in ops[n].parents
      BY <1>0, <2>1, <2>2
    <2>3. CASE \E p \in ops[n].parents : a \in Ancestry(ops)[p]
      <3>1. PICK p \in ops[n].parents : a \in Ancestry(ops)[p]
        BY <2>3
      <3>2. p \in 1 .. n - 1
        BY <1>0, <2>1
      <3>3. p \in T /\ p \in 1 .. Len(ops)
        BY <1>0, <1>1, <2>1, <3>2
      <3>4. a \in 1 .. p - 1
        BY <3>1, <3>3
      <3>5. QED BY <3>2, <3>4
    <2>4. QED BY <2>1, <2>2, <2>3, AncestryDef
  <1> HIDE DEF T
  <1>2. Nat \subseteq T
    BY <1>1, StrongInduction
  <1>3. QED BY <1>0, <1>2 DEF T

(* What comes before an ancestor comes before the operation. *)
LEMMA AncestryIsTransitive ==
    ASSUME NEW ops, InOrder(ops)
    PROVE  \A k \in 1 .. Len(ops) : \A a \in Ancestry(ops)[k] : Ancestry(ops)[a] \subseteq Ancestry(ops)[k]
  <1>0. Len(ops) \in Nat /\ \A k \in 1 .. Len(ops) : ops[k].parents \subseteq 1 .. k - 1
    BY InOrderFacts
  <1> DEFINE T == {n \in Nat : n \in 1 .. Len(ops) =>
                      \A a \in Ancestry(ops)[n] : Ancestry(ops)[a] \subseteq Ancestry(ops)[n]}
  <1>1. ASSUME NEW n \in Nat, \A k \in 0 .. n - 1 : k \in T PROVE n \in T
    <2>1. SUFFICES ASSUME n \in 1 .. Len(ops), NEW a \in Ancestry(ops)[n]
                   PROVE  Ancestry(ops)[a] \subseteq Ancestry(ops)[n]
      OBVIOUS
    <2>2. CASE a \in ops[n].parents
      BY <2>1, <2>2, AncestryDef
    <2>3. CASE \E p \in ops[n].parents : a \in Ancestry(ops)[p]
      <3>1. PICK p \in ops[n].parents : a \in Ancestry(ops)[p]
        BY <2>3
      <3>2. p \in 1 .. n - 1
        BY <1>0, <2>1
      <3>3. p \in T /\ p \in 1 .. Len(ops)
        BY <1>0, <1>1, <2>1, <3>2
      <3>4. Ancestry(ops)[a] \subseteq Ancestry(ops)[p]
        BY <3>1, <3>3
      <3>5. Ancestry(ops)[p] \subseteq Ancestry(ops)[n]
        BY <2>1, <3>1, AncestryDef
      <3>6. QED BY <3>4, <3>5
    <2>4. QED BY <2>1, <2>2, <2>3, AncestryDef
  <1> HIDE DEF T
  <1>2. Nat \subseteq T
    BY <1>1, StrongInduction
  <1>3. QED BY <1>0, <1>2 DEF T

(* An operation more: nothing changes for those before it. *)
Extends(more, ops) ==
    /\ InOrder(more) /\ Len(ops) <= Len(more)
    /\ \A k \in 1 .. Len(ops) : more[k] = ops[k]

LEMMA AncestryOfMore ==
    ASSUME NEW ops, NEW more, InOrder(ops), Extends(more, ops)
    PROVE  \A k \in 1 .. Len(ops) : Ancestry(more)[k] = Ancestry(ops)[k]
  <1>0. /\ Len(ops) \in Nat /\ \A k \in 1 .. Len(ops) : ops[k].parents \subseteq 1 .. k - 1
        /\ Len(more) \in Nat
    BY InOrderFacts DEF Extends
  <1> DEFINE T == {n \in Nat : n \in 1 .. Len(ops) => Ancestry(more)[n] = Ancestry(ops)[n]}
  <1>1. ASSUME NEW n \in Nat, \A k \in 0 .. n - 1 : k \in T PROVE n \in T
    <2>1. SUFFICES ASSUME n \in 1 .. Len(ops) PROVE Ancestry(more)[n] = Ancestry(ops)[n]
      OBVIOUS
    <2>2. \A p \in ops[n].parents : Ancestry(more)[p] = Ancestry(ops)[p]
      <3>1. ASSUME NEW p \in ops[n].parents PROVE Ancestry(more)[p] = Ancestry(ops)[p]
        <4>1. p \in 1 .. n - 1
          BY <1>0, <2>1
        <4>2. p \in T /\ p \in 1 .. Len(ops)
          BY <1>0, <1>1, <2>1, <4>1
        <4>3. QED BY <4>2
      <3>2. QED BY <3>1
    <2>3. more[n] = ops[n] /\ n \in 1 .. Len(more)
      BY <1>0, <2>1 DEF Extends
    <2>4. {Ancestry(more)[p] : p \in ops[n].parents} = {Ancestry(ops)[p] : p \in ops[n].parents}
      BY <2>2
    <2>5. Ancestry(more)[n] = ops[n].parents \union UNION {Ancestry(more)[p] : p \in ops[n].parents}
      BY <2>3, AncestryDef DEF Extends
    <2>6. QED BY <2>1, <2>4, <2>5, AncestryDef
  <1> HIDE DEF T
  <1>2. Nat \subseteq T
    BY <1>1, StrongInduction
  <1>3. QED BY <1>0, <1>2 DEF T

LEMMA AppendExtends ==
    ASSUME NEW ops, InOrder(ops), NEW op \in OperationType, op.parents \subseteq 1 .. Len(ops)
    PROVE  /\ Extends(Append(ops, op), ops) /\ Len(Append(ops, op)) = Len(ops) + 1
           /\ Append(ops, op)[Len(ops) + 1] = op
  <1> DEFINE more == Append(ops, op)
  <1>1. ops \in Seq(OperationType)
    BY DEF InOrder
  <1>2. more \in Seq(OperationType) /\ Len(ops) \in Nat
    BY <1>1
  <1>3. Len(more) = Len(ops) + 1 /\ more[Len(ops) + 1] = op /\ \A k \in 1 .. Len(ops) : more[k] = ops[k]
    BY <1>1
  <1> HIDE DEF more
  <1>4. DOMAIN more = 1 .. Len(ops) + 1
    BY <1>2, <1>3
  <1>5. \A k \in 1 .. Len(ops) : ops[k].parents \subseteq 1 .. k - 1
    BY InOrderFacts
  <1>6. \A k \in DOMAIN more : more[k].parents \subseteq 1 .. k - 1
    <2>1. ASSUME NEW k \in DOMAIN more PROVE more[k].parents \subseteq 1 .. k - 1
      <3>1. CASE k = Len(ops) + 1
        BY <1>2, <1>3, <3>1
      <3>2. CASE k \in 1 .. Len(ops)
        BY <1>3, <1>5, <3>2
      <3>3. QED BY <1>2, <1>4, <2>1, <3>1, <3>2
    <2>2. QED BY <2>1
  <1>7. InOrder(more)
    BY <1>2, <1>6 DEF InOrder
  <1>8. QED BY <1>2, <1>3, <1>7 DEF Extends, more

----------------------------------------------------------------------------
(* What applying operations does to a history. *)

(* Nothing that was applied goes, and a setting whose versions are others was *)
(* changed after the history had the revision it had.                         *)
Grows(h, g) ==
    /\ h.applied \subseteq g.applied /\ h.revision <= g.revision
    /\ \A s \in Settings :
          \/ g.versions[s] = h.versions[s] /\ g.changed[s] = h.changed[s]
          \/ g.changed[s] > h.revision
SameRecords(h, g) == g.log = h.log /\ g.files = h.files /\ g.uploaded = h.uploaded

LEMMA GrowsOn ==
    ASSUME NEW h \in HistoryType, NEW g \in HistoryType, NEW i \in HistoryType, Grows(h, g), Grows(g, i)
    PROVE  Grows(h, i)
  <1>1. /\ h.revision \in Nat /\ g.revision \in Nat /\ i.revision \in Nat
        /\ \A s \in Settings : g.changed[s] \in Nat /\ i.changed[s] \in Nat
    BY DEF HistoryType
  <1>2. h.applied \subseteq i.applied /\ h.revision <= i.revision
    BY <1>1 DEF Grows
  <1>3. ASSUME NEW s \in Settings
        PROVE  \/ i.versions[s] = h.versions[s] /\ i.changed[s] = h.changed[s]
               \/ i.changed[s] > h.revision
    <2>1. /\ \/ g.versions[s] = h.versions[s] /\ g.changed[s] = h.changed[s]
             \/ g.changed[s] > h.revision
          /\ \/ i.versions[s] = g.versions[s] /\ i.changed[s] = g.changed[s]
             \/ i.changed[s] > g.revision
      BY <1>3 DEF Grows
    <2>2. g.revision >= h.revision
      BY <1>1 DEF Grows
    <2>3. QED BY <1>1, <1>3, <2>1, <2>2
  <1>4. QED BY <1>2, <1>3 DEF Grows

(* An operation that follows applied ones only is newer than all of them. *)
LEMMA NewestOfMore ==
    ASSUME NEW ops, InOrder(ops), NEW A \in SUBSET (1 .. Len(ops)),
           \A a \in A : Ancestry(ops)[a] \subseteq A,
           NEW k \in 1 .. Len(ops), k \notin A, NEW s
    PROVE  Newest(ops, A \union {k}, s) =
              IF Touches(ops, k, s) THEN (Newest(ops, A, s) \ Ancestry(ops)[k]) \union {k}
              ELSE Newest(ops, A, s)
  <1>1. k \notin Ancestry(ops)[k] /\ \A a \in A : k \notin Ancestry(ops)[a]
    <2>1. k \in Nat /\ k \notin 1 .. k - 1 /\ A \subseteq 1 .. Len(ops) /\ Len(ops) \in Nat
      BY InOrderFacts
    <2>2. Ancestry(ops)[k] \subseteq 1 .. k - 1
      BY AncestorsAreOlder
    <2>3. ASSUME NEW a \in A, k \in Ancestry(ops)[a] PROVE FALSE
      <3>1. k \in 1 .. a - 1 /\ a \in 1 .. Len(ops)
        BY <2>1, <2>3, AncestorsAreOlder
      <3>2. Ancestry(ops)[a] \subseteq A
        BY <2>3
      <3>3. QED BY <2>3, <3>2
    <2>4. QED BY <2>1, <2>2, <2>3
  <1>2. CASE Touches(ops, k, s)
    <2>1. Knows(ops, A \union {k}, s) = Knows(ops, A, s) \union {k} /\ k \notin Knows(ops, A, s)
      BY <1>2 DEF Knows
    <2>2. \A a \in Knows(ops, A, s) : k \notin Ancestry(ops)[a]
      BY <1>1 DEF Knows
    <2>3. QED BY <1>1, <1>2, <2>1, <2>2 DEF Newest
  <1>3. CASE ~Touches(ops, k, s)
    <2>1. Knows(ops, A \union {k}, s) = Knows(ops, A, s)
      BY <1>3 DEF Knows
    <2>2. QED BY <1>3, <2>1 DEF Newest
  <1>4. QED BY <1>2, <1>3

(* The history g that h becomes with one operation more. *)
Becomes(ops, h, k, g) ==
    /\ g \in HistoryType /\ g.log = h.log /\ g.files = h.files /\ g.uploaded = h.uploaded
    /\ g.applied = h.applied \union {k} /\ g.heads = (h.heads \ ops[k].parents) \union {k}
    /\ g.revision = h.revision + 1
    /\ \A s \in Settings :
          /\ g.versions[s] = IF Touches(ops, k, s) THEN (h.versions[s] \ Ancestry(ops)[k]) \union {k}
                             ELSE h.versions[s]
          /\ g.changed[s] = IF Touches(ops, k, s) THEN h.revision + 1 ELSE h.changed[s]

LEMMA ApplyFields ==
    ASSUME NEW ops, NEW h \in HistoryType, NEW k \in Nat, NEW g, g = Apply(ops, h, k)
    PROVE  Becomes(ops, h, k, g)
  <1> DEFINE heads == (h.heads \ ops[k].parents) \union {k}
             versions == [s \in Settings |->
                 IF Touches(ops, k, s) THEN (h.versions[s] \ Ancestry(ops)[k]) \union {k} ELSE h.versions[s]]
             changed == [s \in Settings |-> IF Touches(ops, k, s) THEN h.revision + 1 ELSE h.changed[s]]
             applied == h.applied \union {k}
             r == [h EXCEPT !.applied = applied, !.heads = heads, !.versions = versions,
                            !.changed = changed, !.revision = h.revision + 1]
  <1>1. /\ applied \in SUBSET Nat /\ heads \in SUBSET Nat
        /\ versions \in [Settings -> SUBSET Nat] /\ changed \in [Settings -> Nat]
        /\ h.revision + 1 \in Nat
    BY DEF HistoryType
  <1>2. g = r
    BY DEF Apply
  <1>3. \A s \in Settings :
           /\ versions[s] = IF Touches(ops, k, s) THEN (h.versions[s] \ Ancestry(ops)[k]) \union {k}
                            ELSE h.versions[s]
           /\ changed[s] = IF Touches(ops, k, s) THEN h.revision + 1 ELSE h.changed[s]
    OBVIOUS
  <1> HIDE DEF heads, versions, changed, applied
  <1>4. /\ r \in HistoryType /\ r.log = h.log /\ r.files = h.files /\ r.uploaded = h.uploaded
        /\ r.applied = applied /\ r.heads = heads /\ r.versions = versions /\ r.changed = changed
        /\ r.revision = h.revision + 1
    BY <1>1 DEF HistoryType
  <1> HIDE DEF r
  <1>5. QED BY <1>2, <1>3, <1>4 DEF heads, applied, Becomes

(* An operation whose parents are applied. *)
LEMMA ApplyKeeps ==
    ASSUME NEW ops, InOrder(ops), NEW h, HistoryOK(ops, h),
           NEW k \in Range(h.log), k \notin h.applied, ops[k].parents \subseteq h.applied
    PROVE  /\ HistoryOK(ops, Apply(ops, h, k)) /\ Grows(h, Apply(ops, h, k))
           /\ SameRecords(h, Apply(ops, h, k))
  <1>1. /\ h \in HistoryType /\ k \in 1 .. Len(ops) /\ Len(ops) \in Nat /\ k \in Nat
        /\ h.applied \subseteq 1 .. Len(ops)
        /\ \A a \in h.applied : Ancestry(ops)[a] \subseteq h.applied
        /\ h.revision \in Nat /\ \A s \in Settings : h.changed[s] \in Nat
    BY InOrderFacts DEF HistoryOK, HistoryType
  <1>2. PICK g : g = Apply(ops, h, k)
    OBVIOUS
  <1>3. /\ g \in HistoryType /\ g.log = h.log /\ g.files = h.files /\ g.uploaded = h.uploaded
        /\ g.applied = h.applied \union {k} /\ g.heads = (h.heads \ ops[k].parents) \union {k}
        /\ g.revision = h.revision + 1
        /\ \A s \in Settings :
              /\ g.versions[s] = IF Touches(ops, k, s) THEN (h.versions[s] \ Ancestry(ops)[k]) \union {k}
                                 ELSE h.versions[s]
              /\ g.changed[s] = IF Touches(ops, k, s) THEN h.revision + 1 ELSE h.changed[s]
    <2>1. Becomes(ops, h, k, g)
      BY <1>1, <1>2, ApplyFields
    <2>2. QED BY <2>1 DEF Becomes
  <1>4. Ancestry(ops)[k] \subseteq g.applied
    BY <1>1, <1>3, AncestryDef
  <1>5. ASSUME NEW s \in Settings
        PROVE  g.versions[s] = Newest(ops, g.applied, s) /\ g.changed[s] <= g.revision
    <2>1. h.versions[s] = Newest(ops, h.applied, s) /\ h.changed[s] <= h.revision
      BY <1>5 DEF HistoryOK
    <2>2. Newest(ops, h.applied \union {k}, s) =
             IF Touches(ops, k, s) THEN (h.versions[s] \ Ancestry(ops)[k]) \union {k} ELSE h.versions[s]
      BY <1>1, <2>1, NewestOfMore
    <2>3. g.versions[s] = Newest(ops, g.applied, s)
      BY <1>3, <2>2
    <2>4. g.changed[s] = h.revision + 1 \/ g.changed[s] = h.changed[s]
      BY <1>3, <1>5
    <2>5. g.changed[s] <= h.revision + 1
      BY <1>1, <1>5, <2>1, <2>4
    <2>6. QED BY <1>3, <2>3, <2>5
  <1>6. HistoryOK(ops, g)
    BY <1>1, <1>3, <1>4, <1>5 DEF HistoryOK
  <1>7. Grows(h, g)
    <2>1. ASSUME NEW s \in Settings
          PROVE  g.changed[s] = h.revision + 1 \/ (g.versions[s] = h.versions[s] /\ g.changed[s] = h.changed[s])
      <3>1. /\ g.changed[s] = IF Touches(ops, k, s) THEN h.revision + 1 ELSE h.changed[s]
            /\ ~Touches(ops, k, s) => g.versions[s] = h.versions[s]
        BY <1>3, <2>1
      <3>2. QED BY <3>1 DEF Touches
    <2>2. h.revision + 1 > h.revision
      BY <1>1
    <2>3. h.applied \subseteq g.applied /\ h.revision <= g.revision
      BY <1>1, <1>3
    <2>4. QED BY <2>1, <2>2, <2>3 DEF Grows
  <1>8. QED BY <1>2, <1>3, <1>6, <1>7 DEF SameRecords

(* The first n rounds of ApplyReady. *)
Round(ops, g) ==
    IF ReadyAt(ops, g) = {} THEN g ELSE Apply(ops, g, g.log[Min(ReadyAt(ops, g))])
AfterTo(ops, h, n, f) ==
    f = [i \in 0 .. n |-> IF i = 0 THEN h ELSE Round(ops, f[i - 1])]

LEMMA RoundKeeps ==
    ASSUME NEW ops, InOrder(ops), NEW h, HistoryOK(ops, h)
    PROVE  /\ HistoryOK(ops, Round(ops, h)) /\ Grows(h, Round(ops, h))
           /\ SameRecords(h, Round(ops, h))
  <1>1. CASE ReadyAt(ops, h) = {}
    <2>1. h.revision \in Nat
      BY DEF HistoryOK, HistoryType
    <2>2. QED BY <1>1, <2>1 DEF Round, Grows, SameRecords
  <1>2. CASE ReadyAt(ops, h) # {}
    <2>1. DOMAIN h.log \subseteq Nat
      BY LenProperties DEF HistoryOK, HistoryType
    <2>2. PICK n \in ReadyAt(ops, h) : n = Min(ReadyAt(ops, h))
      BY <1>2, <2>1, MinIsLeast DEF ReadyAt
    <2>3. /\ h.log[n] \in Range(h.log) /\ h.log[n] \notin h.applied
          /\ ops[h.log[n]].parents \subseteq h.applied
      BY <2>2 DEF ReadyAt, Range
    <2>4. Round(ops, h) = Apply(ops, h, h.log[n])
      BY <1>2, <2>2 DEF Round
    <2>5. QED BY <2>3, <2>4, ApplyKeeps
  <1>3. QED BY <1>1, <1>2

LEMMA AfterExists ==
    ASSUME NEW ops, NEW h, NEW m \in Nat
    PROVE  \E f : AfterTo(ops, h, m, f)
  <1> DEFINE T == {n \in Nat : \E f : AfterTo(ops, h, n, f)}
  <1>1. 0 \in T
    <2>1. AfterTo(ops, h, 0, [i \in 0 .. 0 |-> h])
      BY DEF AfterTo
    <2>2. QED BY <2>1
  <1>2. ASSUME NEW n \in Nat, n \in T PROVE n + 1 \in T
    <2>1. PICK f : AfterTo(ops, h, n, f)
      BY <1>2
    <2> DEFINE g == [i \in 0 .. n + 1 |-> IF i = 0 THEN h ELSE Round(ops, f[i - 1])]
    <2>2. \A i \in 0 .. n : g[i] = f[i]
      BY <2>1 DEF AfterTo
    <2>3. \A i \in 0 .. n + 1 : g[i] = IF i = 0 THEN h ELSE Round(ops, f[i - 1])
      OBVIOUS
    <2>4. DOMAIN g = 0 .. n + 1 /\ g = [i \in 0 .. n + 1 |-> g[i]]
      OBVIOUS
    <2> HIDE DEF g
    <2>5. \A i \in 0 .. n + 1 : i # 0 => i - 1 \in 0 .. n
      OBVIOUS
    <2>6. \A i \in 0 .. n + 1 : g[i] = IF i = 0 THEN h ELSE Round(ops, g[i - 1])
      BY <2>2, <2>3, <2>5
    <2>7. g = [i \in 0 .. n + 1 |-> IF i = 0 THEN h ELSE Round(ops, g[i - 1])]
      BY <2>4, <2>6
    <2>8. QED BY <2>7 DEF AfterTo
  <1> HIDE DEF T
  <1>3. QED BY <1>1, <1>2, SetInduction DEF T

LEMMA ApplyReadyIs ==
    ASSUME NEW ops, NEW h, NEW m \in Nat, m = Cardinality(Waiting(h))
    PROVE  \E f : AfterTo(ops, h, m, f) /\ ApplyReady(ops, h) = f[m]
  <1>1. ApplyReady(ops, h) = (CHOOSE f : AfterTo(ops, h, m, f))[m]
    BY Zenon DEF ApplyReady, AfterTo, Round
  <1>2. QED BY <1>1, AfterExists

(* The history g is what h became by applying operations. *)
Moved(ops, h, g) == HistoryOK(ops, g) /\ Grows(h, g) /\ SameRecords(h, g)

LEMMA MovedTwice ==
    ASSUME NEW ops, NEW h \in HistoryType, NEW g, NEW i, Moved(ops, h, g), Moved(ops, g, i)
    PROVE  Moved(ops, h, i)
  <1>1. g \in HistoryType /\ i \in HistoryType
    BY DEF Moved, HistoryOK
  <1>2. Grows(h, i)
    BY <1>1, GrowsOn DEF Moved
  <1>3. QED BY <1>2 DEF Moved, SameRecords

LEMMA ApplyReadyKeeps ==
    ASSUME NEW ops, InOrder(ops), NEW h, HistoryOK(ops, h)
    PROVE  Moved(ops, h, ApplyReady(ops, h))
  <1>1. h \in HistoryType /\ Len(h.log) \in Nat /\ DOMAIN h.log = 1 .. Len(h.log)
    BY LenProperties DEF HistoryOK, HistoryType
  <1>2. PICK m \in Nat : m = Cardinality(Waiting(h))
    <2>1. Waiting(h) \subseteq 1 .. Len(ops) /\ Len(ops) \in Nat
      BY InOrderFacts DEF Waiting, HistoryOK
    <2>2. IsFiniteSet(1 .. Len(ops))
      BY <2>1, FS_Interval
    <2>3. IsFiniteSet(Waiting(h))
      BY <2>1, <2>2, FS_Subset
    <2>4. QED BY <2>3, FS_CardinalityType
  <1>3. PICK f : AfterTo(ops, h, m, f) /\ ApplyReady(ops, h) = f[m]
    BY <1>2, ApplyReadyIs
  <1> DEFINE T == {n \in Nat : n <= m => Moved(ops, h, f[n])}
  <1>4. 0 \in T
    <2>1. f[0] = h
      BY <1>3 DEF AfterTo
    <2>2. Moved(ops, h, h)
      BY <1>1 DEF Moved, Grows, SameRecords, HistoryType
    <2>3. QED BY <2>1, <2>2
  <1>5. ASSUME NEW n \in Nat, n \in T PROVE n + 1 \in T
    <2>1. SUFFICES ASSUME n + 1 <= m PROVE Moved(ops, h, f[n + 1])
      OBVIOUS
    <2>2. Moved(ops, h, f[n])
      BY <1>2, <1>5, <2>1
    <2>3. f[n + 1] = Round(ops, f[n])
      <3>1. n + 1 \in 0 .. m /\ n + 1 # 0 /\ (n + 1) - 1 = n
        BY <1>2, <2>1
      <3>2. QED BY <1>3, <3>1 DEF AfterTo
    <2>4. Moved(ops, f[n], f[n + 1])
      <3>1. HistoryOK(ops, f[n])
        BY <2>2 DEF Moved
      <3>2. QED BY <2>3, <3>1, RoundKeeps DEF Moved
    <2>5. QED BY <1>1, <2>2, <2>4, MovedTwice
  <1> HIDE DEF T
  <1>6. m \in T
    BY <1>2, <1>4, <1>5, SetInduction
  <1>7. QED BY <1>2, <1>3, <1>6 DEF T

(* A record more in the log. *)
WithRecord(h, k) == [h EXCEPT !.log = Append(@, k), !.revision = @ + 1]

LEMMA LogTakes ==
    ASSUME NEW ops, InOrder(ops), NEW h, HistoryOK(ops, h), NEW k \in 1 .. Len(ops),
           NEW g, g = WithRecord(h, k)
    PROVE  /\ HistoryOK(ops, g) /\ Grows(h, g) /\ g.applied = h.applied
           /\ g.log = Append(h.log, k)
           /\ g.files = h.files /\ g.uploaded = h.uploaded
  <1> DEFINE q == Append(h.log, k)
             i == [h EXCEPT !.log = q, !.revision = h.revision + 1]
  <1>1. /\ h \in HistoryType /\ h.revision \in Nat /\ h.log \in Seq(Nat) /\ k \in Nat
        /\ \A s \in Settings : h.changed[s] \in Nat
    BY DEF HistoryOK, HistoryType
  <1>2. q \in Seq(Nat) /\ Range(q) = Range(h.log) \union {k}
    <2>1. /\ q \in Seq(Nat) /\ Len(q) = Len(h.log) + 1 /\ Len(h.log) \in Nat
          /\ q[Len(h.log) + 1] = k /\ \A n \in 1 .. Len(h.log) : q[n] = h.log[n]
      BY <1>1
    <2> HIDE DEF q
    <2>2. DOMAIN q = 1 .. Len(h.log) + 1 /\ DOMAIN h.log = 1 .. Len(h.log)
      BY <1>1, <2>1
    <2>3. 1 .. Len(h.log) + 1 = 1 .. Len(h.log) \union {Len(h.log) + 1}
      BY <2>1
    <2>4. Range(q) = {q[n] : n \in 1 .. Len(h.log)} \union {q[Len(h.log) + 1]}
      BY <2>2, <2>3 DEF Range
    <2>5. {q[n] : n \in 1 .. Len(h.log)} = {h.log[n] : n \in 1 .. Len(h.log)}
      BY <2>1
    <2>6. QED BY <2>1, <2>2, <2>4, <2>5 DEF Range
  <1> HIDE DEF q
  <1>3. /\ i \in HistoryType /\ i.log = q /\ i.revision = h.revision + 1
        /\ i.applied = h.applied /\ i.heads = h.heads /\ i.versions = h.versions /\ i.changed = h.changed
        /\ i.files = h.files /\ i.uploaded = h.uploaded
    <2>1. h.revision + 1 \in Nat /\ q \in Seq(Nat)
      BY <1>1, <1>2
    <2>2. i \in HistoryType
      BY <1>1, <2>1 DEF HistoryType
    <2>3. QED BY <1>1, <2>2 DEF HistoryType
  <1>4. HistoryOK(ops, i) /\ Grows(h, i)
    <2> HIDE DEF i
    <2>1. \A s \in Settings : h.changed[s] <= h.revision + 1
      BY <1>1 DEF HistoryOK
    <2>2. HistoryOK(ops, i)
      BY <1>2, <1>3, <2>1 DEF HistoryOK
    <2>3. QED BY <1>1, <1>3, <2>2 DEF Grows
  <1>5. g = i
    BY DEF i, q, WithRecord
  <1> HIDE DEF i
  <1>6. QED BY <1>2, <1>3, <1>4, <1>5 DEF q

LEMMA InsertKeeps ==
    ASSUME NEW ops, InOrder(ops), NEW h, HistoryOK(ops, h), NEW k \in 1 .. Len(ops), NEW g, g = Insert(ops, h, k)
    PROVE  /\ HistoryOK(ops, g) /\ Grows(h, g)
           /\ g.log = Append(h.log, k) /\ g.files = h.files /\ g.uploaded = h.uploaded
  <1>1. PICK i : i = WithRecord(h, k)
    OBVIOUS
  <1>2. /\ HistoryOK(ops, i) /\ Grows(h, i)
        /\ i.log = Append(h.log, k) /\ i.files = h.files /\ i.uploaded = h.uploaded
    BY <1>1, LogTakes
  <1>3. Moved(ops, i, g)
    BY <1>1, <1>2, ApplyReadyKeeps DEF Insert, WithRecord
  <1>4. Grows(h, g)
    <2>1. h \in HistoryType /\ i \in HistoryType /\ g \in HistoryType
      BY <1>2, <1>3 DEF Moved, HistoryOK
    <2>2. QED BY <1>2, <1>3, <2>1, GrowsOn DEF Moved
  <1>5. QED BY <1>2, <1>3, <1>4 DEF Moved, SameRecords

(* A record that comes from Drive. *)
LEMMA ImportKeeps ==
    ASSUME NEW ops, InOrder(ops), NEW h, HistoryOK(ops, h), NEW k \in 1 .. Len(ops), NEW g, g = ImportRecord(ops, h, k)
    PROVE  HistoryOK(ops, g) /\ Grows(h, g)
  <1>1. CASE k \in Range(h.log)
    BY <1>1, ApplyReadyKeeps DEF ImportRecord, Moved
  <1>2. CASE k \notin Range(h.log)
    BY <1>2, InsertKeeps DEF ImportRecord
  <1>3. QED BY <1>1, <1>2

(* An operation that another device admits changes nothing in a history. *)
LEMMA NewestStays ==
    ASSUME NEW ops, NEW more, InOrder(ops), Extends(more, ops), NEW A \in SUBSET (1 .. Len(ops)), NEW s
    PROVE  Newest(more, A, s) = Newest(ops, A, s)
  <1>1. \A k \in A : more[k] = ops[k] /\ Ancestry(more)[k] = Ancestry(ops)[k]
    BY AncestryOfMore DEF Extends
  <1>2. Knows(more, A, s) = Knows(ops, A, s) /\ Knows(ops, A, s) \subseteq A
    BY <1>1 DEF Knows, Touches
  <1>3. QED BY <1>1, <1>2 DEF Newest

LEMMA HistoryStays ==
    ASSUME NEW ops, NEW more, InOrder(ops), Extends(more, ops), NEW h, HistoryOK(ops, h)
    PROVE  HistoryOK(more, h)
  <1>1. /\ Len(ops) \in Nat /\ Len(more) \in Nat /\ Len(ops) <= Len(more)
        /\ \A k \in 1 .. Len(ops) : k \in 1 .. Len(more)
    BY InOrderFacts DEF Extends
  <1>2. h.applied \in SUBSET (1 .. Len(ops))
    BY DEF HistoryOK
  <1>3. \A k \in h.applied : Ancestry(more)[k] \subseteq h.applied
    BY <1>2, AncestryOfMore DEF HistoryOK
  <1>4. \A s \in Settings : h.versions[s] = Newest(more, h.applied, s)
    BY <1>2, NewestStays DEF HistoryOK
  <1>5. QED BY <1>1, <1>2, <1>3, <1>4 DEF HistoryOK

(* The version of a setting that has one only comes after every other change. *)
LEMMA OnlyVersionIsLast ==
    ASSUME NEW ops, InOrder(ops), NEW A \in SUBSET (1 .. Len(ops)),
           \A a \in A : Ancestry(ops)[a] \subseteq A,
           NEW s, NEW v, Newest(ops, A, s) = {v},
           NEW c \in A, Touches(ops, c, s), c # v
    PROVE  c \in Ancestry(ops)[v]
  <1> DEFINE K == {k \in Knows(ops, A, s) : c \in Ancestry(ops)[k]}
             B == {Len(ops) - k : k \in K}
  <1>0. Len(ops) \in Nat /\ K \subseteq 1 .. Len(ops) /\ c \in Knows(ops, A, s)
    BY InOrderFacts DEF Knows
  <1>1. K # {}
    <2>1. c \notin Newest(ops, A, s)
      OBVIOUS
    <2>2. QED BY <1>0, <2>1 DEF Newest
  <1>2. PICK m \in K : \A k \in K : k <= m
    <2>1. B \in SUBSET Nat /\ B # {}
      BY <1>0, <1>1
    <2>2. PICK b \in B : \A x \in B : b <= x
      BY <2>1, LeastNumber
    <2>3. PICK m \in K : b = Len(ops) - m
      BY <2>2
    <2>4. ASSUME NEW k \in K PROVE k <= m
      <3>1. Len(ops) - k \in B
        BY <2>4
      <3>2. Len(ops) - m <= Len(ops) - k
        BY <2>2, <2>3, <3>1
      <3>3. QED BY <1>0, <3>2
    <2>5. QED BY <2>4
  <1>3. ASSUME NEW later \in Knows(ops, A, s), m \in Ancestry(ops)[later] PROVE FALSE
    <2>1. later \in 1 .. Len(ops) /\ m \in 1 .. Len(ops)
      BY <1>0 DEF Knows
    <2>2. c \in Ancestry(ops)[later]
      BY <1>2, <1>3, <2>1, AncestryIsTransitive
    <2>3. later \in K
      BY <2>2
    <2>4. m \in 1 .. later - 1
      BY <1>3, <2>1, AncestorsAreOlder
    <2>5. later <= m
      BY <1>2, <2>3
    <2>6. QED BY <2>1, <2>4, <2>5
  <1>4. m \in Newest(ops, A, s)
    BY <1>2, <1>3 DEF Newest
  <1>5. QED BY <1>2, <1>4

----------------------------------------------------------------------------
(* What a step of one device leaves alone. *)

(* Everything DeviceOK(e) speaks of, but for the operations. *)
View(e) == <<history[e], native[e], edits[e], field[e], pending[e], deferred[e], requests[e],
             job[e], carrier[e]>>
MovesOnly(d) ==
    /\ \A e \in Devices \ {d} : View(e)' = View(e)
    /\ \/ operations' = operations
       \/ /\ Extends(operations', operations) /\ Len(operations') = Len(operations) + 1
          /\ operations'[Len(operations) + 1].device = d

LEMMA DomainsOf ==
    ASSUME HistoriesOK
    PROVE  /\ InOrder(operations) /\ Len(operations) \in Nat /\ DOMAIN operations = 1 .. Len(operations)
           /\ \A k \in DOMAIN operations : operations[k] \in OperationType
           /\ \A d \in Devices :
                 /\ history[d] \in HistoryType /\ HistoryOK(operations, history[d])
                 /\ history[d].applied \subseteq 1 .. Len(operations)
                 /\ Range(history[d].log) \subseteq 1 .. Len(operations)
                 /\ history[d].revision \in Nat /\ \A s \in Settings : history[d].changed[s] \in Nat
  BY InOrderFacts DEF HistoriesOK, HistoryOK, HistoryType

LEMMA OtherStays ==
    ASSUME HistoriesOK, NEW d \in Devices, MovesOnly(d), NEW e \in Devices, e # d, DeviceOK(e)
    PROVE  DeviceOK(e)'
  <1>1. /\ history'[e] = history[e] /\ native'[e] = native[e] /\ edits'[e] = edits[e] /\ field'[e] = field[e]
        /\ pending'[e] = pending[e] /\ deferred'[e] = deferred[e] /\ requests'[e] = requests[e]
        /\ job'[e] = job[e] /\ carrier'[e] = carrier[e]
    BY DEF MovesOnly, View
  <1>2. /\ \A k \in DOMAIN operations : k \in DOMAIN operations' /\ operations'[k] = operations[k]
        /\ \A k \in DOMAIN operations' : operations'[k].device = e => k \in DOMAIN operations
    <2>1. CASE operations' = operations
      BY <2>1
    <2>2. CASE /\ Extends(operations', operations) /\ Len(operations') = Len(operations) + 1
               /\ operations'[Len(operations) + 1].device = d
      <3>1. /\ Len(operations) \in Nat /\ DOMAIN operations = 1 .. Len(operations)
            /\ DOMAIN operations' = 1 .. Len(operations) + 1
        BY <2>2, DomainsOf, InOrderFacts DEF Extends
      <3>2. QED BY <2>2, <3>1 DEF Extends
    <2>3. QED BY <2>1, <2>2 DEF MovesOnly
  <1>3. \A k \in history[e].applied : k \in DOMAIN operations /\ operations'[k] = operations[k]
    BY <1>2, DomainsOf
  <1>4. Underway(e)'
    <2>1. OnTheWay(e)' = OnTheWay(e)
      BY <1>1 DEF OnTheWay
    <2>2. \A p : OwnOperation(e, p)' = OwnOperation(e, p)
      BY <1>2 DEF OwnOperation
    <2>3. \A p : \A k \in OwnOperation(e, p) : operations'[k] = operations[k]
      BY <1>2 DEF OwnOperation
    <2>4. \A k \in DOMAIN operations' : operations'[k].device = e => operations'[k].request <= requests[e]
      BY <1>2 DEF DeviceOK, Underway
    <2>5. \A p \in OnTheWay(e) : OwnOperation(e, p)' = OwnOperation(e, p) /\
             \A k \in OwnOperation(e, p) : operations'[k].changes = ChangesOf(p)
      BY <2>2, <2>3 DEF DeviceOK, Underway
    <2>6. QED BY <1>1, <2>1, <2>4, <2>5 DEF DeviceOK, Underway
  <1>5. WorkerKnows(e)'
    <2>1. \A n \in DOMAIN history[e].log : history[e].log[n] \in DOMAIN operations
      BY DomainsOf DEF Range
    <2>2. ToUpload(e)' = ToUpload(e)
      BY <1>1, <1>2, <2>1 DEF ToUpload
    <2>3. NextUpload(e)' = NextUpload(e)
      BY <1>1, <2>2 DEF NextUpload
    <2>4. \A k \in history[e].applied : ValueOf(operations, k, pending[e].setting)' = ValueOf(operations, k, pending[e].setting)
      BY <1>1, <1>3 DEF ValueOf
    <2>5. QED BY <1>1, <2>2, <2>3, <2>4 DEF DeviceOK, WorkerKnows
  <1>6. ASSUME NEW s \in Settings PROVE Carried(e, s)' /\ AgreedUpon(e, s)'
    <2>1. Unsaved(e, s)' <=> Unsaved(e, s)
      BY <1>1 DEF Unsaved
    <2>2. \A k \in history[e].applied : /\ Touches(operations, k, s)' <=> Touches(operations, k, s)
                                        /\ ValueOf(operations, k, s)' = ValueOf(operations, k, s)
      BY <1>3 DEF Touches, ValueOf
    <2>3. Carried(e, s) /\ AgreedUpon(e, s)
      BY <1>6 DEF DeviceOK
    <2>4. Carried(e, s)'
      BY <1>1, <2>1, <2>2, <2>3 DEF Carried
    <2>5. AgreedUpon(e, s)'
      BY <1>1, <2>2, <2>3 DEF AgreedUpon
    <2>6. QED BY <2>4, <2>5
  <1>7. QED BY <1>4, <1>5, <1>6 DEF DeviceOK

LEMMA DeviceSteps ==
    ASSUME ProfileIInv, NEW d \in Devices, MovesOnly(d), HistoriesOK', DriveOK', StoreTyped', DeviceOK(d)'
    PROVE  ProfileIInv'
  <1>1. \A e \in Devices : DeviceOK(e)'
    BY OtherStays DEF ProfileIInv
  <1>2. QED BY <1>1 DEF ProfileIInv

(* The parts of DeviceOK, where nothing they speak of changes. *)
LEMMA UnderwayStays ==
    ASSUME NEW d, Underway(d), UNCHANGED operations, OnTheWay(d)' \subseteq OnTheWay(d),
           edits'[d] = edits[d], native'[d] = native[d], requests'[d] = requests[d]
    PROVE  Underway(d)'
  <1>1. \A p : OwnOperation(d, p)' = OwnOperation(d, p)
    BY DEF OwnOperation
  <1>2. QED BY <1>1 DEF Underway

LEMMA SettingStays ==
    ASSUME NEW d, NEW s, UNCHANGED operations, Carried(d, s), AgreedUpon(d, s),
           history[d].applied \subseteq history'[d].applied,
           carrier'[d][s] = carrier[d][s], native'[d][s] = native[d][s], edits'[d][s] = edits[d][s],
           field'[d][s] = field[d][s],
           history'[d].versions[s] = history[d].versions[s], history'[d].changed[s] = history[d].changed[s],
           history'[d].revision \in Nat, history[d].revision \in Nat, history[d].revision <= history'[d].revision,
           field[d][s].revision \in Nat
    PROVE  Carried(d, s)' /\ AgreedUpon(d, s)'
  <1>1. Unsaved(d, s)' <=> Unsaved(d, s)
    BY DEF Unsaved
  <1>2. Carried(d, s)'
    BY <1>1 DEF Carried, Touches, ValueOf
  <1>3. field'[d][s].revision <= history'[d].revision
    BY DEF AgreedUpon
  <1>4. AgreedUpon(d, s)'
    BY <1>3 DEF AgreedUpon, ValueOf
  <1>5. QED BY <1>2, <1>4

(* A step that moves the worker, and nothing else DeviceOK speaks of. *)
Guarded == {"admit", "defer", "acknowledge", "upload", "confirm"}
LEMMA JobMoves ==
    ASSUME ProfileIInv, NEW d \in Devices, UNCHANGED <<operations, history, native, edits, field, carrier>>,
           OnTheWay(d)' \subseteq OnTheWay(d), requests'[d] = requests[d], job'[d].at \notin Guarded
    PROVE  DeviceOK(d)'
  <1>1. Underway(d) /\ \A s \in Settings : Carried(d, s) /\ AgreedUpon(d, s)
    BY DEF ProfileIInv, DeviceOK
  <1>2. Underway(d)'
    BY <1>1, UnderwayStays
  <1>3. WorkerKnows(d)'
    BY DEF WorkerKnows, Guarded
  <1>4. \A s \in Settings : Carried(d, s)' /\ AgreedUpon(d, s)'
    <2>1. ASSUME NEW s \in Settings PROVE Carried(d, s)' /\ AgreedUpon(d, s)'
      <3>1. Carried(d, s) /\ AgreedUpon(d, s) /\ (Unsaved(d, s)' <=> Unsaved(d, s))
        BY <1>1, <2>1 DEF Unsaved
      <3>2. QED BY <3>1 DEF Carried, AgreedUpon, Touches, ValueOf
    <2>2. QED BY <2>1
  <1>5. QED BY <1>2, <1>3, <1>4 DEF DeviceOK

LEMMA StoreOf ==
    ASSUME StoreTyped, NEW d \in Devices
    PROVE  /\ native[d] \in [Settings -> SettingValues] /\ edits[d] \in [Settings -> Nat]
           /\ field[d] \in [Settings -> FieldType] /\ pending[d] \in PendingType \union {None}
           /\ deferred[d] \in SUBSET PendingType /\ requests[d] \in Nat /\ job[d] \in JobType
           /\ review[d] \in ProfileReviewType \union {None} /\ carrier[d] \in [Settings -> Nat]
  BY DEF StoreTyped

LEMMA OnTheWayType ==
    ASSUME StoreTyped, NEW d \in Devices
    PROVE  OnTheWay(d) \subseteq PendingType /\ None \notin PendingType
  BY StoreOf, ProfileAssumption DEF OnTheWay, PendingType, None

(* The user changes a setting. *)
LEMMA ChangeKeeps ==
    ASSUME ProfileIInv, NEW d \in Devices, NEW s \in Settings, NEW v \in SettingValues, ChangeSetting(d, s, v)
    PROVE  ProfileIInv'
  <1>0. /\ UNCHANGED <<operations, history, drive, observed, copied, field, pending, deferred, requests, job, review>>
        /\ native' = [native EXCEPT ![d][s] = v] /\ edits' = [edits EXCEPT ![d][s] = @ + 1]
        /\ carrier' = [carrier EXCEPT ![d][s] = 0]
    BY DEF ChangeSetting, historyVars, driveVars
  <1>1. StoreTyped
    BY DEF ProfileIInv
  <1>2. StoreTyped'
    BY <1>0, <1>1 DEF StoreTyped
  <1>3. /\ \A e \in Devices : e # d => native'[e] = native[e] /\ edits'[e] = edits[e] /\ carrier'[e] = carrier[e]
        /\ \A x \in Settings : x # s => /\ native'[d][x] = native[d][x] /\ edits'[d][x] = edits[d][x]
                                        /\ carrier'[d][x] = carrier[d][x]
        /\ native'[d][s] = v /\ edits'[d][s] = edits[d][s] + 1 /\ carrier'[d][s] = 0
    BY <1>0, <1>1 DEF StoreTyped
  <1>4. \A x \in Settings : edits[d][x] \in Nat /\ field[d][x].native \in Nat /\ field[d][x].revision \in Nat
    BY <1>1, StoreOf DEF FieldType
  <1>5. HistoriesOK' /\ DriveOK'
    BY <1>0 DEF ProfileIInv, HistoriesOK, DriveOK
  <1>6. MovesOnly(d)
    BY <1>0, <1>3 DEF MovesOnly, View
  <1>7. DeviceOK(d)'
    <2>1. Underway(d)'
      <3>1. OnTheWay(d)' = OnTheWay(d) /\ \A p : OwnOperation(d, p)' = OwnOperation(d, p)
        BY <1>0 DEF OnTheWay, OwnOperation
      <3>2. ASSUME NEW p \in OnTheWay(d)
            PROVE  /\ p.native <= edits'[d][p.setting]
                   /\ p.native = edits'[d][p.setting] => p.value = native'[d][p.setting]
        <4>1. p \in PendingType
          BY <1>1, <3>2, OnTheWayType
        <4>2. p.setting \in Settings /\ p.native \in Nat
          BY <4>1 DEF PendingType
        <4>3. /\ p.native <= edits[d][p.setting]
              /\ p.native = edits[d][p.setting] => p.value = native[d][p.setting]
          BY <3>2 DEF ProfileIInv, DeviceOK, Underway
        <4>4. CASE p.setting = s
          BY <1>3, <1>4, <4>2, <4>3, <4>4
        <4>5. CASE p.setting # s
          BY <1>3, <4>2, <4>3, <4>5
        <4>6. QED BY <4>4, <4>5
      <3>3. QED BY <1>0, <3>1, <3>2 DEF ProfileIInv, DeviceOK, Underway
    <2>2. WorkerKnows(d)'
      <3>1. ToUpload(d)' = ToUpload(d) /\ NextUpload(d)' = NextUpload(d)
        BY <1>0 DEF ToUpload, NextUpload
      <3>2. ASSUME job[d].at = "acknowledge", pending[d].native = edits'[d][pending[d].setting]
            PROVE  carrier'[d][pending[d].setting] # 0
        <4>1. pending[d] \in OnTheWay(d)
          BY <3>2 DEF ProfileIInv, DeviceOK, WorkerKnows, OnTheWay
        <4>2. PICK p \in OnTheWay(d) : p = pending[d]
          BY <4>1
        <4>3. p \in PendingType
          BY <1>1, <4>2, OnTheWayType
        <4>4. p.setting \in Settings /\ p.native \in Nat
          BY <4>3 DEF PendingType
        <4>5. p.native <= edits[d][p.setting]
          BY <4>2 DEF ProfileIInv, DeviceOK, Underway
        <4>6. p.setting # s
          BY <1>3, <1>4, <3>2, <4>2, <4>4, <4>5
        <4>7. QED BY <1>3, <3>2, <4>2, <4>4, <4>6 DEF ProfileIInv, DeviceOK, WorkerKnows
      <3>3. QED BY <1>0, <3>1, <3>2 DEF ProfileIInv, DeviceOK, WorkerKnows, ValueOf
    <2>3. ASSUME NEW x \in Settings PROVE Carried(d, x)' /\ AgreedUpon(d, x)'
      <3>0. Carried(d, x) /\ AgreedUpon(d, x)
        BY <2>3 DEF ProfileIInv, DeviceOK
      <3>1. CASE x # s
        <4>1. history[d].revision \in Nat
          BY DomainsOf DEF ProfileIInv
        <4>2. QED BY <1>0, <1>3, <1>4, <2>3, <3>0, <3>1, <4>1, SettingStays
      <3>2. CASE x = s
        <4>1. Unsaved(d, s)'
          BY <1>0, <1>3, <1>4, <3>0, <3>2 DEF AgreedUpon, Unsaved
        <4>2. Carried(d, s)'
          BY <1>3, <4>1 DEF Carried
        <4>3. AgreedUpon(d, s)'
          BY <1>0, <1>3, <1>4, <3>0, <3>2 DEF AgreedUpon, ValueOf
        <4>4. QED BY <3>2, <4>2, <4>3
      <3>3. QED BY <3>1, <3>2
    <2>4. QED BY <2>1, <2>2, <2>3 DEF DeviceOK
  <1>8. QED BY <1>2, <1>5, <1>6, <1>7, DeviceSteps

(* A step that moves only the worker, or what no other step relies on. *)
LEMMA QuietKeeps ==
    ASSUME ProfileIInv, NEW d \in Devices,
           UNCHANGED <<operations, history, native, edits, field, pending, deferred, requests, carrier>>,
           DriveOK', StoreTyped', job' = [job EXCEPT ![d] = job'[d]], job'[d].at \notin Guarded
    PROVE  ProfileIInv'
  <1>1. HistoriesOK'
    BY DEF ProfileIInv, HistoriesOK
  <1>2. \A e \in Devices : e # d => job'[e] = job[e]
    BY DEF ProfileIInv, StoreTyped
  <1>3. MovesOnly(d)
    BY <1>2 DEF MovesOnly, View
  <1>4. DeviceOK(d)'
    BY JobMoves DEF OnTheWay
  <1>5. QED BY <1>1, <1>3, <1>4, DeviceSteps

LEMMA GoesTo ==
    ASSUME StoreTyped, NEW d \in Devices, NEW at, Goto(d, at)
    PROVE  /\ job' = [job EXCEPT ![d] = job'[d]] /\ job'[d].at = at /\ job'[d].task = job[d].task
           /\ job'[d].excluded = job[d].excluded /\ job'[d].receipt = job[d].receipt
           /\ at \in {"idle", "capture", "admit", "defer", "recheck", "acknowledge", "discover", "copy",
                      "checkpoint", "apply", "publish", "upload", "confirm"} => job' \in [Devices -> JobType]
  <1>1. job \in [Devices -> JobType] /\ job[d] \in JobType
    BY DEF StoreTyped
  <1> DEFINE r == [job[d] EXCEPT !.at = at]
  <1>2. job' = [job EXCEPT ![d] = r] /\ job'[d] = r
    BY <1>1 DEF Goto
  <1>3. /\ r.at = at /\ r.task = job[d].task /\ r.excluded = job[d].excluded /\ r.receipt = job[d].receipt
        /\ at \in {"idle", "capture", "admit", "defer", "recheck", "acknowledge", "discover", "copy",
                  "checkpoint", "apply", "publish", "upload", "confirm"} => r \in JobType
    BY <1>1 DEF JobType
  <1> HIDE DEF r
  <1>4. QED BY <1>1, <1>2, <1>3

LEMMA Ends ==
    ASSUME StoreTyped, NEW d \in Devices, EndsJob(d)
    PROVE  /\ job' = [job EXCEPT ![d] = job'[d]] /\ job'[d].at = "idle" /\ job' \in [Devices -> JobType]
  BY DEF StoreTyped, EndsJob, JobType, NoJob

LEMMA QuietSteps ==
    ASSUME ProfileIInv, NEW d \in Devices,
           StartPass(d) \/ Checkpoint(d) \/ Drain(d) \/ FinishPass(d) \/ Interrupt(d)
    PROVE  ProfileIInv'
  <1>1. StoreTyped /\ DriveOK
    BY DEF ProfileIInv
  <1>2. /\ UNCHANGED <<operations, history, drive, observed, native, edits, field, pending, deferred, requests,
                       carrier, review>>
        /\ copied' = copied \/ copied' = [copied EXCEPT ![d] = @ + 1]
        /\ (\E at \in {"capture", "copy", "apply"} : Goto(d, at)) \/ EndsJob(d)
    <2>1. CASE StartPass(d)
      BY <2>1 DEF StartPass, historyVars, driveVars, storeVars
    <2>2. CASE Checkpoint(d)
      BY <2>2 DEF Checkpoint, historyVars, storeVars
    <2>3. CASE Drain(d)
      BY <2>3 DEF Drain, historyVars, driveVars, storeVars
    <2>4. CASE FinishPass(d)
      BY <2>4 DEF FinishPass, historyVars, driveVars, storeVars
    <2>5. CASE Interrupt(d)
      BY <2>5 DEF Interrupt, historyVars, driveVars, storeVars
    <2>6. QED BY <2>1, <2>2, <2>3, <2>4, <2>5
  <1>3. /\ job' = [job EXCEPT ![d] = job'[d]] /\ job'[d].at \in {"idle", "capture", "copy", "apply"}
        /\ job' \in [Devices -> JobType]
    BY <1>1, <1>2, GoesTo, Ends
  <1>4. DriveOK'
    <2>1. copied' \in [Devices -> Nat]
      <3>1. copied \in [Devices -> Nat] /\ copied[d] + 1 \in Nat
        BY <1>1 DEF DriveOK
      <3>2. [copied EXCEPT ![d] = @ + 1] \in [Devices -> Nat]
        BY <3>1
      <3>3. QED BY <1>2, <3>1, <3>2
    <2>2. QED BY <1>1, <1>2, <2>1 DEF DriveOK
  <1>5. StoreTyped'
    BY <1>1, <1>2, <1>3 DEF StoreTyped
  <1>6. QED BY <1>2, <1>3, <1>4, <1>5, QuietKeeps DEF Guarded

(* The change that is being admitted. *)
LEMMA PendingIs ==
    ASSUME ProfileIInv, NEW d \in Devices, job[d].at \in {"admit", "defer", "acknowledge"}
    PROVE  pending[d] \in PendingType /\ pending[d] \in OnTheWay(d) /\ pending[d].setting \in Settings
  <1>1. pending[d] # None
    BY DEF ProfileIInv, DeviceOK, WorkerKnows
  <1>2. pending[d] \in PendingType
    BY <1>1, StoreOf DEF ProfileIInv
  <1>3. QED BY <1>1, <1>2 DEF OnTheWay, PendingType

(* A change is taken up. *)
LEMMA CaptureKeeps ==
    ASSUME ProfileIInv, NEW d \in Devices, CaptureChange(d),
           UNCHANGED <<operations, history, drive, observed, copied, native, edits, field, review, carrier>>,
           Goto(d, "admit") \/ EndsJob(d)
    PROVE  ProfileIInv'
  <1>1. StoreTyped /\ HistoriesOK' /\ DriveOK'
    BY DEF ProfileIInv, HistoriesOK, DriveOK
  <1>2. /\ job' = [job EXCEPT ![d] = job'[d]] /\ job'[d].at \in {"admit", "idle"}
        /\ job' \in [Devices -> JobType]
    BY <1>1, GoesTo, Ends
  <1>3. /\ edits[d] \in [Settings -> Nat] /\ native[d] \in [Settings -> SettingValues] /\ requests[d] \in Nat
        /\ field[d] \in [Settings -> FieldType] /\ deferred[d] \subseteq PendingType
        /\ pending[d] \in PendingType \union {None} /\ None \notin PendingType
    BY <1>1, StoreOf, OnTheWayType
  <1> DEFINE Result == /\ \A e \in Devices : e # d => /\ pending'[e] = pending[e] /\ deferred'[e] = deferred[e]
                                                    /\ requests'[e] = requests[e]
                       /\ pending' \in [Devices -> PendingType \union {None}]
                       /\ deferred' \in [Devices -> SUBSET PendingType] /\ requests' \in [Devices -> Nat]
                       /\ pending'[d] # None /\ Underway(d)'
  <1>4. Underway(d) /\ OnTheWay(d) \subseteq PendingType
    BY <1>1, OnTheWayType DEF ProfileIInv, DeviceOK
  <1>5. ASSUME pending[d] # None, UNCHANGED <<pending, deferred, requests>>
        PROVE  Result
    <2>1. Underway(d)'
      BY <1>4, <1>5, UnderwayStays DEF OnTheWay
    <2>2. QED BY <1>1, <1>5, <2>1 DEF StoreTyped
  <1>6. ASSUME pending[d] = None, UNCHANGED requests,
               \E p \in deferred[d] : /\ pending' = [pending EXCEPT ![d] = p]
                                      /\ deferred' = [deferred EXCEPT ![d] = @ \ {p}]
        PROVE  Result
    <2>1. PICK p \in deferred[d] : /\ pending' = [pending EXCEPT ![d] = p]
                                   /\ deferred' = [deferred EXCEPT ![d] = @ \ {p}]
      BY <1>6
    <2>2. pending'[d] = p /\ deferred'[d] = deferred[d] \ {p} /\ p \in PendingType /\ p # None
      BY <1>1, <1>3, <2>1 DEF StoreTyped
    <2>3. OnTheWay(d)' = OnTheWay(d)
      BY <1>6, <2>2 DEF OnTheWay
    <2>4. Underway(d)'
      BY <1>4, <1>6, <2>3, UnderwayStays
    <2>5. QED BY <1>1, <1>6, <2>1, <2>2, <2>4 DEF StoreTyped
  <1>7. ASSUME pending[d] = None,
               \E s \in Settings : pending' = [pending EXCEPT ![d] =
                    [setting |-> s, request |-> requests[d] + 1, expected |-> field[d][s].revision,
                     value |-> native[d][s], native |-> edits[d][s], resolutions |-> {}]],
               requests' = [requests EXCEPT ![d] = @ + 1], UNCHANGED deferred
        PROVE  Result
    <2>1. PICK s, p : /\ s \in Settings /\ pending' = [pending EXCEPT ![d] = p]
                      /\ p = [setting |-> s, request |-> requests[d] + 1, expected |-> field[d][s].revision,
                            value |-> native[d][s], native |-> edits[d][s], resolutions |-> {}]
      BY <1>7
    <2>2. p \in PendingType /\ field[d][s] \in FieldType
      BY <1>3, <2>1 DEF PendingType, FieldType
    <2>3. /\ pending'[d] = p /\ p # None /\ requests'[d] = requests[d] + 1
          /\ p.request = requests[d] + 1 /\ p.setting = s /\ p.value = native[d][s] /\ p.native = edits[d][s]
      BY <1>1, <1>3, <1>7, <2>1, <2>2 DEF StoreTyped
    <2>4. OnTheWay(d)' = OnTheWay(d) \union {p}
      BY <1>7, <2>3 DEF OnTheWay
    <2>5. \A k \in DOMAIN operations : operations[k].device = d => operations[k].request <= requests[d]
      BY <1>4 DEF Underway
    <2>6. \A k \in DOMAIN operations : operations[k].request \in Nat
      BY DomainsOf DEF ProfileIInv, OperationType
    <2>7. OwnOperation(d, p) = {}
      BY <1>3, <2>3, <2>5, <2>6 DEF OwnOperation
    <2>8. \A q : OwnOperation(d, q)' = OwnOperation(d, q)
      BY DEF OwnOperation
    <2>9. \A q \in OnTheWay(d) : q.request \in Nat /\ q.request <= requests[d] /\ q.request \in 1 .. requests[d]
      <3>1. \A q \in OnTheWay(d) : q.request \in 1 .. requests[d]
        BY <1>4 DEF Underway
      <3>2. \A n \in 1 .. requests[d] : n \in Nat /\ n <= requests[d]
        BY <1>3
      <3>3. QED BY <3>1, <3>2
    <2>10. \A q, r \in OnTheWay(d)' : q.request = r.request => q = r
      <3>1. \A q \in OnTheWay(d) : q.request # p.request
        BY <1>3, <2>3, <2>9
      <3>2. QED BY <1>4, <2>4, <3>1 DEF Underway
    <2>11. \A q \in OnTheWay(d)' :
             /\ q.native <= edits'[d][q.setting]
             /\ q.native = edits'[d][q.setting] => q.value = native'[d][q.setting]
             /\ q.request \in 1 .. requests'[d]
             /\ \A k \in OwnOperation(d, q) : operations[k].changes = ChangesOf(q)
      <3>1. ASSUME NEW q \in OnTheWay(d)
            PROVE  /\ q.native <= edits[d][q.setting]
                   /\ q.native = edits[d][q.setting] => q.value = native[d][q.setting]
                   /\ q.request \in 1 .. requests[d] + 1
                   /\ \A k \in OwnOperation(d, q) : operations[k].changes = ChangesOf(q)
        <4>1. q.request \in 1 .. requests[d] + 1
          BY <1>3, <2>9, <3>1
        <4>2. QED BY <1>4, <3>1, <4>1 DEF Underway
      <3>2. edits[d][s] \in Nat /\ p.request \in 1 .. requests[d] + 1
        BY <1>3, <2>1, <2>3
      <3>3. edits' = edits /\ native' = native
        OBVIOUS
      <3>4. p.native <= edits[d][p.setting] /\ p.value = native[d][p.setting]
        BY <2>3, <3>2
      <3>5. QED BY <2>3, <2>4, <2>7, <3>1, <3>2, <3>3, <3>4
    <2>12. \A k \in DOMAIN operations : operations[k].device = d => operations[k].request <= requests'[d]
      BY <1>3, <2>3, <2>5, <2>6
    <2>13. Underway(d)'
      BY <2>8, <2>10, <2>11, <2>12 DEF Underway
    <2>14. QED BY <1>1, <1>7, <2>1, <2>2, <2>3, <2>13 DEF StoreTyped
  <1>8. Result
    <2>1. ASSUME pending[d] = None, Deferrable(d) # {}
          PROVE  LET s == Min({p.setting : p \in Deferrable(d)}) IN
                 (CHOOSE q \in Deferrable(d) : q.setting = s) \in deferred[d]
      <3>1. {p.setting : p \in Deferrable(d)} \in SUBSET Nat /\ {p.setting : p \in Deferrable(d)} # {}
        <4>1. \A p \in Deferrable(d) : p.setting \in Settings
          BY <1>3 DEF Deferrable, PendingType
        <4>2. QED BY <2>1, <4>1, ProfileAssumption
      <3>2. Min({p.setting : p \in Deferrable(d)}) \in {p.setting : p \in Deferrable(d)}
        BY <3>1, MinIsLeast
      <3>3. QED BY <3>2 DEF Deferrable
    <2>2. ASSUME Capturable(d) # {} PROVE Min(Capturable(d)) \in Settings
      <3>1. Capturable(d) \in SUBSET Nat
        BY ProfileAssumption DEF Capturable
      <3>2. QED BY <2>2, <3>1, MinIsLeast DEF Capturable
    <2> HIDE DEF Result
    <2>3. QED BY <1>5, <1>6, <1>7, <2>1, <2>2 DEF CaptureChange
  <1>9. MovesOnly(d)
    BY <1>2, <1>8 DEF MovesOnly, View, ProfileIInv, StoreTyped
  <1>10. StoreTyped'
    BY <1>1, <1>2, <1>8 DEF StoreTyped
  <1>11. WorkerKnows(d)'
    BY <1>2, <1>8 DEF WorkerKnows
  <1>12. \A s \in Settings : Carried(d, s)' /\ AgreedUpon(d, s)'
    <2>1. ASSUME NEW s \in Settings PROVE Carried(d, s)' /\ AgreedUpon(d, s)'
      <3>1. Carried(d, s) /\ AgreedUpon(d, s) /\ (Unsaved(d, s)' <=> Unsaved(d, s))
        BY <2>1 DEF Unsaved, ProfileIInv, DeviceOK
      <3>2. QED BY <3>1 DEF Carried, AgreedUpon, Touches, ValueOf
    <2>2. QED BY <2>1
  <1>13. QED BY <1>1, <1>8, <1>9, <1>10, <1>11, <1>12, DeviceSteps DEF DeviceOK

LEMMA CaptureSteps ==
    ASSUME ProfileIInv, NEW d \in Devices, Capture(d) \/ Recheck(d)
    PROVE  ProfileIInv'
  <1>1. UNCHANGED <<operations, history, drive, observed, copied, native, edits, field, review, carrier>>
    BY DEF Capture, Recheck, historyVars, driveVars
  <1>2. CASE CaptureChange(d) /\ (Goto(d, "admit") \/ EndsJob(d))
    BY <1>1, <1>2, CaptureKeeps
  <1>3. CASE (\E at \in {"recheck", "discover"} : Goto(d, at)) /\ UNCHANGED <<pending, deferred, requests>>
    <2>1. StoreTyped /\ DriveOK'
      BY <1>1 DEF ProfileIInv, DriveOK
    <2>2. /\ job' = [job EXCEPT ![d] = job'[d]] /\ job'[d].at \notin Guarded /\ job' \in [Devices -> JobType]
      BY <1>3, <2>1, GoesTo DEF Guarded
    <2>3. StoreTyped'
      BY <1>1, <1>3, <2>1, <2>2 DEF StoreTyped
    <2>4. QED BY <1>1, <1>3, <2>1, <2>2, <2>3, QuietKeeps
  <1>4. QED BY <1>2, <1>3 DEF Capture, Recheck

(* What a setting agreed with still holds when the history grows. *)
LEMMA AgreementMoves ==
    ASSUME ProfileIInv, NEW d \in Devices, NEW s \in Settings,
           history'[d] \in HistoryType, Grows(history[d], history'[d]),
           \A k \in 1 .. Len(operations) : operations'[k] = operations[k],
           edits'[d][s] = edits[d][s], field'[d][s] = field[d][s]
    PROVE  AgreedUpon(d, s)'
  <1>1. /\ history[d].applied \subseteq 1 .. Len(operations) /\ history[d].revision \in Nat
        /\ history[d].changed[s] \in Nat /\ field[d][s].revision \in Nat
    BY DomainsOf, StoreOf DEF ProfileIInv, FieldType
  <1>2. \A k \in history[d].applied : k \in history'[d].applied /\ operations'[k] = operations[k]
    BY <1>1 DEF Grows
  <1>3. AgreedUpon(d, s)
    BY DEF ProfileIInv, DeviceOK
  <1>4. /\ history[d].revision <= history'[d].revision /\ history'[d].revision \in Nat
        /\ history'[d].changed[s] \in Nat
        /\ \/ history'[d].versions[s] = history[d].versions[s] /\ history'[d].changed[s] = history[d].changed[s]
           \/ history'[d].changed[s] > history[d].revision
    BY DEF Grows, HistoryType
  <1>5. field[d][s].native <= edits[d][s] /\ field[d][s].revision <= history[d].revision
    BY <1>3 DEF AgreedUpon
  <1>6. field[d][s].revision <= history'[d].revision
    BY <1>1, <1>4, <1>5
  <1>7. ASSUME field[d][s].revision >= history'[d].changed[s]
        PROVE  \E k \in history'[d].applied :
                  history'[d].versions[s] = {k} /\ ValueOf(operations', k, s) = field[d][s].local
    <2>1. history'[d].versions[s] = history[d].versions[s] /\ history'[d].changed[s] = history[d].changed[s]
      BY <1>1, <1>4, <1>5, <1>7
    <2>2. PICK k \in history[d].applied :
             history[d].versions[s] = {k} /\ ValueOf(operations, k, s) = field[d][s].local
      BY <1>3, <1>7, <2>1 DEF AgreedUpon
    <2>3. QED BY <1>2, <2>1, <2>2 DEF ValueOf
  <1>8. QED BY <1>5, <1>6, <1>7 DEF AgreedUpon

(* ... and so does the operation that carries its value. *)
LEMMA SettingMoves ==
    ASSUME ProfileIInv, NEW d \in Devices, NEW s \in Settings,
           history'[d] \in HistoryType, Grows(history[d], history'[d]),
           \A k \in 1 .. Len(operations) : operations'[k] = operations[k],
           carrier'[d][s] = carrier[d][s], native'[d][s] = native[d][s], edits'[d][s] = edits[d][s],
           field'[d][s] = field[d][s]
    PROVE  Carried(d, s)' /\ AgreedUpon(d, s)'
  <1>1. \A k \in history[d].applied : k \in history'[d].applied /\ operations'[k] = operations[k]
    BY DomainsOf DEF ProfileIInv, Grows
  <1>2. Carried(d, s) /\ (Unsaved(d, s)' <=> Unsaved(d, s))
    BY DEF ProfileIInv, DeviceOK, Unsaved
  <1>3. Carried(d, s)'
    BY <1>1, <1>2 DEF Carried, Touches, ValueOf
  <1>4. QED BY <1>3, AgreementMoves

(* What an edit request answers. *)
Answers(d, p, ops, g, k) ==
    /\ InOrder(ops) /\ g \in HistoryType /\ HistoryOK(ops, g) /\ Grows(history[d], g)
    /\ k \in 1 .. Len(ops) /\ ops[k].changes = ChangesOf(p)
    /\ \/ ops = operations
       \/ /\ Extends(ops, operations) /\ Len(ops) = Len(operations) + 1 /\ k = Len(ops)
          /\ ops[k].device = d /\ ops[k].request = p.request

LEMMA EditAnswers ==
    ASSUME ProfileIInv, NEW d \in Devices, NEW p \in OnTheWay(d)
    PROVE  Answers(d, p, Edit(d, p).ops, Edit(d, p).history, Edit(d, p).operation)
  <1>0. /\ InOrder(operations) /\ Len(operations) \in Nat /\ DOMAIN operations = 1 .. Len(operations)
        /\ history[d] \in HistoryType /\ HistoryOK(operations, history[d]) /\ history[d].revision \in Nat
    BY DomainsOf DEF ProfileIInv
  <1>1. CASE OwnOperation(d, p) # {}
    <2>1. OwnOperation(d, p) \in SUBSET Nat /\ OwnOperation(d, p) \subseteq 1 .. Len(operations)
      BY <1>0 DEF OwnOperation
    <2>2. PICK k \in OwnOperation(d, p) : k = Min(OwnOperation(d, p))
      BY <1>1, <2>1, MinIsLeast
    <2>3. Edit(d, p) = [ops |-> operations, history |-> history[d], operation |-> k]
      BY <1>1, <2>2 DEF Edit
    <2>4. operations[k].changes = ChangesOf(p)
      BY <2>2 DEF ProfileIInv, DeviceOK, Underway
    <2>5. Grows(history[d], history[d])
      BY <1>0 DEF Grows
    <2>6. QED BY <1>0, <2>1, <2>3, <2>4, <2>5 DEF Answers
  <1>2. CASE OwnOperation(d, p) = {}
    <2> DEFINE op == [device |-> d, request |-> p.request, parents |-> history[d].heads,
                      changes |-> [s \in {p.setting} |-> p.value]]
               ops == Append(operations, op)
               k == Len(operations) + 1
               g == Insert(ops, history[d], k)
    <2>1. /\ p \in PendingType /\ p.setting \in Settings /\ p.value \in SettingValues /\ p.request \in Nat
      BY OnTheWayType DEF ProfileIInv, PendingType
    <2>2. history[d].heads \subseteq 1 .. Len(operations) /\ history[d].heads \in SUBSET Nat
      BY <1>0 DEF HistoryOK
    <2>3. op \in OperationType
      <3>1. [s \in {p.setting} |-> p.value] \in UNION {[D -> SettingValues] : D \in SUBSET Settings}
        <4>1. PICK D \in SUBSET Settings : D = {p.setting}
          BY <2>1
        <4>2. [s \in {p.setting} |-> p.value] \in [D -> SettingValues]
          BY <2>1, <4>1
        <4>3. QED BY <4>1, <4>2
      <3>2. QED BY <2>1, <2>2, <3>1 DEF OperationType
    <2>4. /\ op.device = d /\ op.request = p.request /\ op.parents = history[d].heads
          /\ op.changes = ChangesOf(p)
      BY DEF ChangesOf
    <2>5. Edit(d, p) = [ops |-> ops, history |-> g, operation |-> k]
      BY <1>2 DEF Edit
    <2> HIDE DEF op
    <2>6. Extends(ops, operations) /\ Len(ops) = k /\ ops[k] = op
      BY <1>0, <2>2, <2>3, <2>4, AppendExtends
    <2> HIDE DEF ops
    <2>7. InOrder(ops) /\ HistoryOK(ops, history[d])
      BY <1>0, <2>6, HistoryStays DEF Extends
    <2>8. k \in 1 .. Len(ops)
      BY <1>0, <2>6
    <2>9. HistoryOK(ops, g) /\ Grows(history[d], g)
      BY <2>7, <2>8, InsertKeeps
    <2> HIDE DEF g
    <2>10. g \in HistoryType
      BY <2>9 DEF HistoryOK
    <2> HIDE DEF k
    <2>11. Answers(d, p, ops, g, k)
      BY <2>4, <2>6, <2>7, <2>8, <2>9, <2>10 DEF Answers, k
    <2>12. QED BY <2>5, <2>11
  <1>3. QED BY <1>1, <1>2

(* A change is admitted. *)
LEMMA AdmissionKeeps ==
    ASSUME ProfileIInv, NEW d \in Devices, NEW p, p = pending[d], NEW e, e = Edit(d, p),
           job[d].at = "admit", ~Refused(d, p),
           operations' = e.ops, history' = [history EXCEPT ![d] = e.history],
           job' = [job EXCEPT ![d].at = "acknowledge", ![d].receipt = e.history.revision],
           carrier' = [carrier EXCEPT ![d][p.setting] =
               IF p.native = edits[d][p.setting] THEN e.operation ELSE @],
           UNCHANGED <<drive, observed, copied, native, edits, field, pending, deferred, requests, review>>
    PROVE  ProfileIInv'
  <1>0. /\ InOrder(operations) /\ Len(operations) \in Nat /\ DOMAIN operations = 1 .. Len(operations)
        /\ history \in [Devices -> HistoryType] /\ StoreTyped
    BY DomainsOf DEF ProfileIInv, HistoriesOK
  <1>1. /\ p \in PendingType /\ p \in OnTheWay(d) /\ p.setting \in Settings /\ p # None
        /\ p.native \in Nat /\ p.request \in Nat
    BY PendingIs DEF OnTheWay, PendingType
  <1>2. PICK ops, g, k : /\ ops = e.ops /\ g = e.history /\ k = e.operation /\ Answers(d, p, ops, g, k)
                         /\ g.versions[p.setting] = {k}
    <2>1. Answers(d, p, e.ops, e.history, e.operation)
      BY <1>1, EditAnswers
    <2>2. e.history.versions[p.setting] = {e.operation}
      BY DEF Refused
    <2>3. QED BY <2>1, <2>2
  <1>3. PICK s \in Settings : s = p.setting
    BY <1>1
  <1>4. /\ operations' = ops /\ history' = [history EXCEPT ![d] = g] /\ history'[d] = g
        /\ InOrder(ops) /\ g \in HistoryType /\ HistoryOK(ops, g) /\ Grows(history[d], g)
        /\ k \in 1 .. Len(ops) /\ ops[k].changes = ChangesOf(p) /\ g.versions[s] = {k}
        /\ g.revision \in Nat /\ Len(ops) \in Nat /\ DOMAIN ops = 1 .. Len(ops)
    BY <1>0, <1>2, <1>3, InOrderFacts DEF Answers, HistoryType
  <1>5. /\ Len(operations) <= Len(ops) /\ \A n \in 1 .. Len(operations) : ops[n] = operations[n]
        /\ \A n \in 1 .. Len(ops) : n \in 1 .. Len(operations) \/
              (n = k /\ ops[n].device = d /\ ops[n].request = p.request)
        /\ ops = operations \/ Extends(ops, operations)
    <2>1. CASE ops = operations
      BY <1>0, <2>1
    <2>2. CASE /\ Extends(ops, operations) /\ Len(ops) = Len(operations) + 1 /\ k = Len(ops)
               /\ ops[k].device = d /\ ops[k].request = p.request
      BY <1>0, <2>2 DEF Extends
    <2>3. QED BY <1>2, <2>1, <2>2 DEF Answers
  <1>6. /\ \A x \in Devices : x # d => history'[x] = history[x] /\ job'[x] = job[x]
        /\ job'[d].at = "acknowledge" /\ job'[d].receipt = g.revision /\ job' \in [Devices -> JobType]
    <2>1. job \in [Devices -> JobType] /\ job[d] \in JobType
      BY <1>0 DEF StoreTyped
    <2> DEFINE r == [job[d] EXCEPT !.at = "acknowledge", !.receipt = g.revision]
    <2>2. r \in JobType /\ r.at = "acknowledge" /\ r.receipt = g.revision
      BY <1>4, <2>1 DEF JobType
    <2>3. job' = [job EXCEPT ![d] = r]
      BY <1>2, <2>1
    <2> HIDE DEF r
    <2>4. \A x \in Devices : x # d => history'[x] = history[x]
      BY <1>0, <1>4
    <2>5. QED BY <2>1, <2>2, <2>3, <2>4
  <1>7. /\ carrier'[d][s] = IF p.native = edits[d][s] THEN k ELSE carrier[d][s]
        /\ \A x \in Settings : x # s => carrier'[d][x] = carrier[d][x]
        /\ carrier' \in [Devices -> [Settings -> Nat]] /\ \A x \in Devices : x # d => carrier'[x] = carrier[x]
    <2>1. carrier \in [Devices -> [Settings -> Nat]] /\ k \in Nat
      BY <1>0, <1>4 DEF StoreTyped
    <2>2. PICK c \in Nat : c = IF p.native = edits[d][s] THEN k ELSE carrier[d][s]
      BY <2>1
    <2>3. PICK r \in [Settings -> Nat] : r = [carrier[d] EXCEPT ![s] = c]
      BY <2>1, <2>2
    <2>4. carrier' = [carrier EXCEPT ![d] = r]
      BY <1>2, <1>3, <2>1, <2>2, <2>3
    <2>5. r[s] = c /\ \A x \in Settings : x # s => r[x] = carrier[d][x]
      BY <2>1, <2>3
    <2>6. carrier'[d] = r /\ \A x \in Devices : x # d => carrier'[x] = carrier[x]
      BY <2>1, <2>4
    <2>7. carrier' \in [Devices -> [Settings -> Nat]]
      BY <2>1, <2>4
    <2>8. QED BY <2>2, <2>5, <2>6, <2>7
  <1>8. StoreTyped'
    BY <1>0, <1>6, <1>7 DEF StoreTyped
  <1>9. HistoriesOK'
    <2>1. \A x \in Devices : HistoryOK(ops, history'[x])
      <3>1. ASSUME NEW x \in Devices, x # d PROVE HistoryOK(ops, history[x])
        <4>1. HistoryOK(operations, history[x])
          BY DEF ProfileIInv, HistoriesOK
        <4>2. QED BY <1>0, <1>5, <4>1, HistoryStays
      <3>2. QED BY <1>4, <1>6, <3>1
    <2>2. QED BY <1>0, <1>4, <2>1 DEF HistoriesOK
  <1>10. DriveOK'
    <2>1. \A n \in 1 .. Len(operations) : n \in 1 .. Len(ops)
      BY <1>0, <1>4, <1>5
    <2>2. QED BY <1>4, <2>1 DEF ProfileIInv, DriveOK
  <1>11. MovesOnly(d)
    <2>1. \/ ops = operations
          \/ /\ Extends(ops, operations) /\ Len(ops) = Len(operations) + 1
             /\ ops[Len(operations) + 1].device = d
      BY <1>2 DEF Answers
    <2>2. QED BY <1>4, <1>6, <1>7, <2>1 DEF MovesOnly, View
  <1>12. k \in g.applied /\ Touches(ops, k, s) /\ ValueOf(ops, k, s) = p.value
    <2>1. k \in Newest(ops, g.applied, s)
      BY <1>4 DEF HistoryOK
    <2>2. QED BY <1>3, <1>4, <2>1 DEF Newest, Knows, Touches, ValueOf, ChangesOf
  <1>13. Underway(d) /\ OnTheWay(d)' = OnTheWay(d)
    BY DEF OnTheWay, ProfileIInv, DeviceOK
  <1>14. Underway(d)'
    <2>0. /\ \A q \in OnTheWay(d) : \A n \in OwnOperation(d, q) : operations[n].changes = ChangesOf(q)
          /\ \A q \in OnTheWay(d) : /\ q.native <= edits[d][q.setting]
                                    /\ q.native = edits[d][q.setting] => q.value = native[d][q.setting]
                                    /\ q.request \in 1 .. requests[d]
          /\ \A q, r \in OnTheWay(d) : q.request = r.request => q = r
      BY <1>13 DEF Underway
    <2>1. \A q \in OnTheWay(d) : \A n \in OwnOperation(d, q)' : ops[n].changes = ChangesOf(q)
      <3>1. ASSUME NEW q \in OnTheWay(d), NEW n \in OwnOperation(d, q)'
            PROVE  ops[n].changes = ChangesOf(q)
        <4>1. n \in 1 .. Len(ops) /\ ops[n].device = d /\ ops[n].request = q.request
          BY <1>4, <3>1 DEF OwnOperation
        <4>2. CASE n \in 1 .. Len(operations)
          <5>1. n \in OwnOperation(d, q)
            BY <1>0, <1>5, <4>1, <4>2 DEF OwnOperation
          <5>2. QED BY <1>5, <2>0, <3>1, <4>2, <5>1
        <4>3. CASE n = k /\ ops[n].request = p.request
          <5>1. q = p
            BY <1>1, <1>13, <3>1, <4>1, <4>3 DEF Underway
          <5>2. QED BY <1>3, <1>4, <4>3, <5>1
        <4>4. QED BY <1>5, <4>1, <4>2, <4>3
      <3>2. QED BY <3>1
    <2>2. \A n \in DOMAIN ops : ops[n].device = d => ops[n].request <= requests[d]
      <3>1. ASSUME NEW n \in 1 .. Len(ops), ops[n].device = d PROVE ops[n].request <= requests[d]
        <4>1. CASE n \in 1 .. Len(operations)
          BY <1>0, <1>5, <1>13, <3>1, <4>1 DEF Underway
        <4>2. CASE ops[n].request = p.request
          <5>1. p.request \in 1 .. requests[d] /\ requests[d] \in Nat
            BY <1>0, <1>1, <1>13, StoreOf DEF Underway
          <5>2. QED BY <4>2, <5>1
        <4>3. QED BY <1>5, <3>1, <4>1, <4>2
      <3>2. QED BY <1>4, <3>1
    <2>3. QED BY <1>4, <1>13, <2>0, <2>1, <2>2 DEF Underway
  <1>15. WorkerKnows(d)'
    <2>1. pending'[d] = p /\ edits'[d] = edits[d]
      OBVIOUS
    <2>2. k # 0
      BY <1>4
    <2>3. pending'[d] # None /\ job'[d].at = "acknowledge" /\ job'[d].receipt = history'[d].revision
      BY <1>1, <1>4, <1>6, <2>1
    <2>4. /\ k \in history'[d].applied /\ history'[d].versions[pending'[d].setting] = {k}
          /\ ValueOf(operations', k, pending'[d].setting) = pending'[d].value
      BY <1>3, <1>4, <1>12, <2>1
    <2>5. pending'[d].native = edits'[d][pending'[d].setting] => carrier'[d][pending'[d].setting] # 0
      BY <1>3, <1>7, <2>1, <2>2
    <2>6. QED BY <2>3, <2>4, <2>5 DEF WorkerKnows, ValueOf
  <1>16. ASSUME NEW x \in Settings PROVE Carried(d, x)' /\ AgreedUpon(d, x)'
    <2>0. \A n \in 1 .. Len(operations) : operations'[n] = operations[n]
      BY <1>4, <1>5
    <2>1. CASE carrier'[d][x] = carrier[d][x]
      BY <1>4, <1>16, <2>0, <2>1, SettingMoves
    <2>2. CASE x = s /\ carrier'[d][s] = k /\ p.native = edits[d][s]
      <3>1. carrier'[d][s] # 0 /\ carrier'[d][s] \in g.applied /\ native[d][s] = p.value
        <4>1. p.native = edits[d][p.setting] => p.value = native[d][p.setting]
          BY <1>1, <1>13 DEF Underway
        <4>2. k # 0
          BY <1>4
        <4>3. QED BY <1>3, <1>12, <2>2, <4>1, <4>2
      <3>2. Carried(d, s)'
        BY <1>4, <1>12, <2>2, <3>1 DEF Carried
      <3>3. AgreedUpon(d, s)'
        BY <1>4, <2>0, AgreementMoves
      <3>4. QED BY <2>2, <3>2, <3>3
    <2>3. QED BY <1>7, <2>1, <2>2
  <1>17. QED BY <1>8, <1>9, <1>10, <1>11, <1>14, <1>15, <1>16, DeviceSteps DEF DeviceOK

LEMMA AdmitSteps ==
    ASSUME ProfileIInv, NEW d \in Devices, AdmitChange(d)
    PROVE  ProfileIInv'
  <1>1. UNCHANGED <<drive, observed, copied, native, edits, field, pending, deferred, requests, review>> /\ job[d].at = "admit"
    BY DEF AdmitChange, driveVars, storeVars
  <1>2. CASE ~Refused(d, pending[d]) /\ Initialized(history[d])
    <2>1. PICK p, e : p = pending[d] /\ e = Edit(d, p)
      OBVIOUS
    <2>2. /\ ~Refused(d, p) /\ operations' = e.ops /\ history' = [history EXCEPT ![d] = e.history]
          /\ job' = [job EXCEPT ![d].at = "acknowledge", ![d].receipt = e.history.revision]
          /\ carrier' = [carrier EXCEPT ![d][p.setting] =
               IF p.native = edits[d][p.setting] THEN e.operation ELSE @]
      BY <1>2, <2>1 DEF AdmitChange
    <2>3. QED BY <1>1, <2>1, <2>2, AdmissionKeeps
  <1>3. CASE (Goto(d, "defer") \/ EndsJob(d)) /\ UNCHANGED <<operations, history, carrier>>
    <2>1. StoreTyped /\ DriveOK' /\ HistoriesOK'
      BY <1>1, <1>3 DEF ProfileIInv, DriveOK, HistoriesOK
    <2>2. /\ job' = [job EXCEPT ![d] = job'[d]] /\ job'[d].at \in {"defer", "idle"} /\ job' \in [Devices -> JobType]
      BY <1>3, <2>1, GoesTo, Ends
    <2>3. StoreTyped'
      BY <1>1, <1>3, <2>1, <2>2 DEF StoreTyped
    <2>4. MovesOnly(d)
      BY <1>1, <1>3, <2>1, <2>2 DEF MovesOnly, View, StoreTyped
    <2>5. pending[d] # None
      BY <1>1 DEF ProfileIInv, DeviceOK, WorkerKnows
    <2>6. WorkerKnows(d)'
      BY <1>1, <2>2, <2>5 DEF WorkerKnows
    <2>7. Underway(d)'
      BY <1>1, <1>3, UnderwayStays DEF OnTheWay, ProfileIInv, DeviceOK
    <2>8. ASSUME NEW s \in Settings PROVE Carried(d, s)' /\ AgreedUpon(d, s)'
      <3>1. history[d] \in HistoryType /\ Grows(history[d], history[d])
        <4>1. history[d] \in HistoryType /\ history[d].revision \in Nat
          BY DomainsOf DEF ProfileIInv
        <4>2. QED BY <4>1 DEF Grows
      <3>2. QED BY <1>1, <1>3, <2>8, <3>1, SettingMoves
    <2>9. QED BY <2>1, <2>3, <2>4, <2>6, <2>7, <2>8, DeviceSteps DEF DeviceOK
  <1>4. QED BY <1>2, <1>3 DEF AdmitChange, historyVars

(* The acknowledgment of what was admitted. *)
LEMMA ReceiptKeeps ==
    ASSUME ProfileIInv, NEW d \in Devices, AcknowledgeChange(d)
    PROVE  ProfileIInv'
  <1>0. /\ UNCHANGED <<operations, history, drive, observed, copied, native, edits, deferred, requests, review, carrier>>
        /\ job[d].at = "acknowledge"
    BY DEF AcknowledgeChange, historyVars, driveVars
  <1>1. StoreTyped /\ HistoriesOK' /\ DriveOK'
    BY <1>0 DEF ProfileIInv, HistoriesOK, DriveOK
  <1>2. PICK p : p = pending[d] /\ p \in PendingType /\ p \in OnTheWay(d) /\ p.setting \in Settings
    BY <1>0, PendingIs
  <1>3. PICK s \in Settings : s = p.setting
    BY <1>2
  <1>4. p.value \in SettingValues /\ p.native \in Nat /\ job[d].receipt \in Nat
    BY <1>1, <1>2, StoreOf DEF PendingType, JobType
  <1>5. /\ field'[d][s] = [local |-> p.value, revision |-> job[d].receipt, native |-> p.native]
        /\ \A x \in Settings : x # s => field'[d][x] = field[d][x]
        /\ \A e \in Devices : e # d => field'[e] = field[e]
        /\ field' \in [Devices -> [Settings -> FieldType]]
    <2>1. PICK f \in FieldType : f = [local |-> p.value, revision |-> job[d].receipt, native |-> p.native]
      BY <1>4 DEF FieldType
    <2>2. field \in [Devices -> [Settings -> FieldType]]
      BY <1>1 DEF StoreTyped
    <2>3. PICK r \in [Settings -> FieldType] : r = [field[d] EXCEPT ![s] = f]
      BY <2>2
    <2>4. field' = [field EXCEPT ![d] = r]
      BY <1>2, <1>3, <2>1, <2>2, <2>3 DEF AcknowledgeChange
    <2>5. r[s] = f /\ \A x \in Settings : x # s => r[x] = field[d][x]
      BY <2>2, <2>3
    <2>6. field'[d] = r /\ \A e \in Devices : e # d => field'[e] = field[e]
      BY <2>2, <2>4
    <2>7. field' \in [Devices -> [Settings -> FieldType]]
      BY <2>2, <2>4
    <2>8. QED BY <2>1, <2>5, <2>6, <2>7
  <1>6. /\ pending' = [pending EXCEPT ![d] = None] /\ pending'[d] = None
        /\ pending' \in [Devices -> PendingType \union {None}]
        /\ \A e \in Devices : e # d => pending'[e] = pending[e]
    BY <1>1 DEF AcknowledgeChange, StoreTyped
  <1>7. /\ \A e \in Devices : e # d => job'[e] = job[e]
        /\ job'[d].at \in {"capture", "idle"} /\ job' \in [Devices -> JobType]
    <2>1. job \in [Devices -> JobType] /\ job[d] \in JobType
      BY <1>1 DEF StoreTyped
    <2>2. CASE EndsJob(d)
      BY <1>1, <2>1, <2>2, Ends
    <2>3. CASE job' = [job EXCEPT ![d].at = "capture", ![d].receipt = 0]
      <3> DEFINE r == [job[d] EXCEPT !.at = "capture", !.receipt = 0]
      <3>1. r \in JobType /\ r.at = "capture"
        BY <2>1 DEF JobType
      <3> HIDE DEF r
      <3>2. job' = [job EXCEPT ![d] = r]
        BY <2>1, <2>3 DEF r
      <3>3. QED BY <2>1, <3>1, <3>2
    <2>4. QED BY <2>2, <2>3 DEF AcknowledgeChange
  <1>8. StoreTyped'
    BY <1>0, <1>1, <1>5, <1>6, <1>7 DEF StoreTyped
  <1>9. MovesOnly(d)
    BY <1>0, <1>5, <1>6, <1>7 DEF MovesOnly, View
  <1>10. Underway(d)'
    <2>1. OnTheWay(d)' \subseteq OnTheWay(d)
      BY <1>0, <1>6 DEF OnTheWay
    <2>2. QED BY <1>0, <2>1, UnderwayStays DEF ProfileIInv, DeviceOK
  <1>11. WorkerKnows(d)'
    BY <1>7 DEF WorkerKnows
  <1>12. ASSUME NEW x \in Settings PROVE Carried(d, x)' /\ AgreedUpon(d, x)'
    <2>1. CASE x # s
      <3>1. history[d].revision \in Nat /\ field[d][x].revision \in Nat
        BY <1>1, <1>12, DomainsOf, StoreOf DEF ProfileIInv, FieldType
      <3>2. QED BY <1>0, <1>5, <1>12, <2>1, <3>1, SettingStays DEF ProfileIInv, DeviceOK
    <2>2. CASE x = s
      <3>1. /\ job[d].receipt = history[d].revision
            /\ \E k \in history[d].applied : history[d].versions[s] = {k} /\ ValueOf(operations, k, s) = p.value
            /\ p.native = edits[d][s] => carrier[d][s] # 0
        BY <1>0, <1>2, <1>3 DEF ProfileIInv, DeviceOK, WorkerKnows
      <3>2. p.native <= edits[d][s]
        BY <1>2, <1>3 DEF ProfileIInv, DeviceOK, Underway
      <3>3. /\ field'[d][s].local = p.value /\ field'[d][s].revision = history[d].revision
            /\ field'[d][s].native = p.native
        BY <1>5, <3>1
      <3>4. history[d].revision \in Nat /\ edits[d][s] \in Nat
        BY <1>1, DomainsOf, StoreOf DEF ProfileIInv
      <3>5. AgreedUpon(d, s)'
        BY <1>0, <3>1, <3>2, <3>3, <3>4 DEF AgreedUpon, ValueOf
      <3>6. ~Unsaved(d, s)' => carrier[d][s] # 0
        BY <1>0, <1>4, <3>1, <3>2, <3>3, <3>4 DEF Unsaved
      <3>7. Carried(d, s)
        BY DEF ProfileIInv, DeviceOK
      <3>8. Carried(d, s)'
        BY <1>0, <3>6, <3>7 DEF Carried, Touches, ValueOf
      <3>9. QED BY <2>2, <3>5, <3>8
    <2>3. QED BY <2>1, <2>2
  <1>13. QED BY <1>1, <1>8, <1>9, <1>10, <1>11, <1>12, DeviceSteps DEF DeviceOK

(* A change that was refused waits for a review. *)
LEMMA DeferKeeps ==
    ASSUME ProfileIInv, NEW d \in Devices, DeferChange(d)
    PROVE  ProfileIInv'
  <1>0. /\ UNCHANGED <<operations, history, drive, observed, copied, native, edits, field, requests, review, carrier>>
        /\ job[d].at = "defer"
    BY DEF DeferChange, historyVars, driveVars
  <1>1. StoreTyped /\ HistoriesOK' /\ DriveOK'
    BY <1>0 DEF ProfileIInv, HistoriesOK, DriveOK
  <1>2. PICK p : p = pending[d] /\ p \in PendingType /\ p \in OnTheWay(d) /\ p.setting \in Settings
    BY <1>0, PendingIs
  <1>3. /\ pending'[d] = None /\ deferred'[d] = deferred[d] \union {p}
        /\ pending' \in [Devices -> PendingType \union {None}] /\ deferred' \in [Devices -> SUBSET PendingType]
        /\ \A e \in Devices : e # d => pending'[e] = pending[e] /\ deferred'[e] = deferred[e]
    <2>1. /\ pending' = [pending EXCEPT ![d] = None] /\ deferred' = [deferred EXCEPT ![d] = @ \union {p}]
      BY <1>2 DEF DeferChange
    <2>2. QED BY <1>1, <1>2, <2>1 DEF StoreTyped
  <1>4. /\ \A e \in Devices : e # d => job'[e] = job[e]
        /\ job'[d].at = "capture" /\ job' \in [Devices -> JobType]
    <2>1. job \in [Devices -> JobType] /\ job[d] \in JobType
      BY <1>1 DEF StoreTyped
    <2>2. PICK x \in SUBSET Settings : x = job[d].excluded \union {p.setting}
      BY <1>2, <2>1 DEF JobType
    <2> DEFINE r == [job[d] EXCEPT !.at = "capture", !.excluded = x]
    <2>3. r \in JobType /\ r.at = "capture"
      BY <2>1 DEF JobType
    <2>4. job' = [job EXCEPT ![d] = r]
      BY <1>2, <2>1, <2>2 DEF DeferChange
    <2> HIDE DEF r
    <2>5. QED BY <2>1, <2>3, <2>4
  <1>5. StoreTyped'
    BY <1>0, <1>1, <1>3, <1>4 DEF StoreTyped
  <1>6. MovesOnly(d)
    BY <1>0, <1>3, <1>4 DEF MovesOnly, View
  <1>7. OnTheWay(d)' \subseteq OnTheWay(d)
    BY <1>2, <1>3 DEF OnTheWay
  <1>8. DeviceOK(d)'
    BY <1>0, <1>4, <1>7, JobMoves DEF Guarded
  <1>9. QED BY <1>1, <1>5, <1>6, <1>8, DeviceSteps

(* The catalog takes up what Drive has. *)
LEMMA DiscoverKeeps ==
    ASSUME ProfileIInv, NEW d \in Devices, Discover(d)
    PROVE  ProfileIInv'
  <1>1. UNCHANGED <<operations, history, drive, copied, native, edits, field, pending, deferred, requests,
                    review, carrier>> /\ Goto(d, "copy")
    BY DEF Discover, historyVars, storeVars
  <1>2. StoreTyped /\ DriveOK /\ Len(operations) \in Nat
    BY DomainsOf DEF ProfileIInv
  <1>3. PICK fresh, order : /\ fresh \subseteq {f.operation : f \in drive}
                            /\ order \in SetToSeqs(fresh) /\ observed' = [observed EXCEPT ![d] = @ \o order]
    BY DEF Discover
  <1>4. fresh \subseteq 1 .. Len(operations)
    BY <1>2, <1>3 DEF DriveOK
  <1>5. order \in Seq(1 .. Len(operations))
    <2>1. IsFiniteSet(1 .. Len(operations))
      BY <1>2, FS_Interval
    <2>2. Cardinality(fresh) \in Nat
      BY <1>4, <2>1, FS_Subset, FS_CardinalityType
    <2>3. order \in [1 .. Cardinality(fresh) -> fresh]
      BY <1>3 DEF SetToSeqs
    <2>4. order \in [1 .. Cardinality(fresh) -> 1 .. Len(operations)]
      BY <1>4, <2>3
    <2>5. QED BY <2>2, <2>4
  <1>6. observed[d] \in Seq(1 .. Len(operations))
    <2>1. observed[d] \in Seq(Nat) /\ \A n \in DOMAIN observed[d] : observed[d][n] \in 1 .. Len(operations)
      BY <1>2 DEF DriveOK
    <2>2. PICK q : q = observed[d]
      OBVIOUS
    <2>3. Len(q) \in Nat /\ DOMAIN q = 1 .. Len(q) /\ q \in [1 .. Len(q) -> Nat]
      BY <2>1, <2>2, LenProperties
    <2>4. q \in [1 .. Len(q) -> 1 .. Len(operations)]
      BY <2>1, <2>2, <2>3
    <2>5. QED BY <2>2, <2>3, <2>4
  <1>7. PICK q \in Seq(1 .. Len(operations)) : q = observed[d] \o order
    <2>1. PICK seen : seen = observed[d]
      OBVIOUS
    <2>2. seen \in Seq(1 .. Len(operations))
      BY <1>6, <2>1
    <2>3. seen \o order \in Seq(1 .. Len(operations))
      BY <1>5, <2>2, ConcatProperties
    <2>4. QED BY <2>1, <2>3
  <1>8. q \in Seq(Nat) /\ \A n \in DOMAIN q : q[n] \in 1 .. Len(operations)
    <2>1. Len(q) \in Nat /\ DOMAIN q = 1 .. Len(q) /\ \A n \in 1 .. Len(q) : q[n] \in 1 .. Len(operations)
      BY LenProperties, ElementOfSeq
    <2>2. q \in [1 .. Len(q) -> Nat]
      BY <1>2, <2>1
    <2>3. QED BY <2>1, <2>2
  <1>9. DriveOK'
    <2>1. observed' = [observed EXCEPT ![d] = q]
      BY <1>3, <1>7
    <2>2. QED BY <1>1, <1>2, <1>8, <2>1 DEF DriveOK
  <1>10. job' = [job EXCEPT ![d] = job'[d]] /\ job'[d].at = "copy" /\ job' \in [Devices -> JobType]
    BY <1>1, <1>2, GoesTo
  <1>11. StoreTyped'
    BY <1>1, <1>2, <1>10 DEF StoreTyped
  <1>12. QED BY <1>1, <1>9, <1>10, <1>11, QuietKeeps DEF Guarded

(* A step that gives one device another history, over the same operations. *)
LEMMA HistoryKeeps ==
    ASSUME ProfileIInv, NEW d \in Devices, NEW g, HistoryOK(operations, g), Grows(history[d], g),
           history' = [history EXCEPT ![d] = g], job' = [job EXCEPT ![d] = job'[d]], job'[d] \in JobType,
           UNCHANGED <<operations, drive, observed, copied, native, edits, field, pending, deferred, requests,
                       review, carrier>>,
           WorkerKnows(d)'
    PROVE  ProfileIInv'
  <1>1. history \in [Devices -> HistoryType] /\ g \in HistoryType /\ StoreTyped
    BY DEF ProfileIInv, HistoriesOK, HistoryOK
  <1>2. history'[d] = g /\ \A e \in Devices : e # d => history'[e] = history[e] /\ job'[e] = job[e]
    BY <1>1 DEF StoreTyped
  <1>3. HistoriesOK'
    BY <1>1, <1>2 DEF ProfileIInv, HistoriesOK
  <1>4. DriveOK' /\ StoreTyped'
    BY <1>1 DEF ProfileIInv, DriveOK, StoreTyped
  <1>5. MovesOnly(d)
    BY <1>2 DEF MovesOnly, View
  <1>6. Underway(d)'
    BY UnderwayStays DEF OnTheWay, ProfileIInv, DeviceOK
  <1>7. ASSUME NEW s \in Settings PROVE Carried(d, s)' /\ AgreedUpon(d, s)'
    BY <1>1, <1>2, <1>7, SettingMoves
  <1>8. QED BY <1>3, <1>4, <1>5, <1>6, <1>7, DeviceSteps DEF DeviceOK

(* A record is imported. *)
LEMMA ImportStep ==
    ASSUME ProfileIInv, NEW d \in Devices, Import(d)
    PROVE  ProfileIInv'
  <1>1. /\ UNCHANGED <<operations, drive, observed, copied, native, edits, field, pending, deferred, requests,
                       review, carrier>>
        /\ Goto(d, "checkpoint") /\ copied[d] < Len(observed[d])
    BY DEF Import, driveVars, storeVars
  <1>2. StoreTyped /\ DriveOK /\ InOrder(operations) /\ HistoryOK(operations, history[d])
        /\ history \in [Devices -> HistoryType]
    BY DEF ProfileIInv, HistoriesOK
  <1>3. PICK k \in 1 .. Len(operations) : k = observed[d][copied[d] + 1]
    <2>1. observed[d] \in Seq(Nat) /\ copied[d] \in Nat /\ Len(observed[d]) \in Nat
      BY <1>2 DEF DriveOK
    <2>2. copied[d] + 1 \in DOMAIN observed[d]
      BY <1>1, <2>1
    <2>3. QED BY <1>2, <2>2 DEF DriveOK
  <1>4. PICK g : g = ImportRecord(operations, history[d], k)
    OBVIOUS
  <1>5. HistoryOK(operations, g) /\ Grows(history[d], g)
    BY <1>2, <1>4, ImportKeeps
  <1>6. history' = [history EXCEPT ![d] = g]
    BY <1>2, <1>3, <1>4 DEF Import
  <1>7. job' = [job EXCEPT ![d] = job'[d]] /\ job'[d].at = "checkpoint" /\ job' \in [Devices -> JobType]
    BY <1>1, <1>2, GoesTo
  <1>8. WorkerKnows(d)'
    BY <1>7 DEF WorkerKnows
  <1>9. QED BY <1>1, <1>5, <1>6, <1>7, <1>8, HistoryKeeps

(* What a history shows of a setting. *)
LEMMA SharedIs ==
    ASSUME ProfileIInv, NEW d \in Devices, NEW s \in Settings, Single(d, s)
    PROVE  /\ Version(d, s) \in history[d].applied /\ history[d].versions[s] = {Version(d, s)}
           /\ Version(d, s) \in Nat \ {0} /\ Touches(operations, Version(d, s), s)
           /\ SharedValue(d, s) = ValueOf(operations, Version(d, s), s)
           /\ SharedValue(d, s) \in SettingValues
  <1>1. /\ history[d].versions[s] = Newest(operations, history[d].applied, s) /\ Len(operations) \in Nat
        /\ history[d].applied \subseteq 1 .. Len(operations)
        /\ \A k \in 1 .. Len(operations) : operations[k] \in OperationType
    BY DomainsOf DEF ProfileIInv, HistoryOK
  <1>2. history[d].versions[s] \subseteq history[d].applied
    BY <1>1 DEF Newest, Knows
  <1>3. IsFiniteSet(history[d].versions[s])
    <2>1. IsFiniteSet(1 .. Len(operations)) /\ history[d].versions[s] \subseteq 1 .. Len(operations)
      BY <1>1, <1>2, FS_Interval
    <2>2. QED BY <2>1, FS_Subset
  <1>4. PICK v : history[d].versions[s] = {v}
    BY <1>3, FS_Singleton DEF Single
  <1>5. v \in history[d].applied /\ v \in 1 .. Len(operations) /\ v \in Nat \ {0}
    BY <1>1, <1>2, <1>4
  <1>6. Version(d, s) = v
    <2>1. {v} \in SUBSET Nat
      BY <1>5
    <2>2. QED BY <1>4, <2>1, MinIsLeast DEF Version
  <1>7. Touches(operations, v, s)
    BY <1>1, <1>4 DEF Newest, Knows
  <1>8. ValueOf(operations, v, s) \in SettingValues
    BY <1>1, <1>5, <1>7 DEF OperationType, Touches, ValueOf
  <1>9. QED BY <1>4, <1>5, <1>6, <1>7, <1>8 DEF SharedValue

(* The shared values reach the settings. *)
LEMMA ApplyObservationKeeps ==
    ASSUME ProfileIInv, NEW d \in Devices, ApplyObservation(d)
    PROVE  ProfileIInv'
  <1>1. UNCHANGED <<operations, history, drive, observed, copied, edits, pending, deferred, requests, review>>
        /\ Goto(d, "publish")
    BY DEF ApplyObservation, historyVars, driveVars
  <1>2. StoreTyped /\ HistoriesOK' /\ DriveOK'
    BY <1>1 DEF ProfileIInv, HistoriesOK, DriveOK
  <1>3. job' = [job EXCEPT ![d] = job'[d]] /\ job'[d].at = "publish" /\ job' \in [Devices -> JobType]
    BY <1>1, <1>2, GoesTo
  <1> DEFINE values == [s \in Settings |-> IF Takes(d, s) THEN SharedValue(d, s) ELSE native[d][s]]
             fields == [s \in Settings |->
                 IF Takes(d, s)
                 THEN [local |-> SharedValue(d, s), revision |-> history[d].changed[s], native |-> edits[d][s]]
                 ELSE field[d][s]]
             carriers == [s \in Settings |-> IF Takes(d, s) THEN Version(d, s) ELSE carrier[d][s]]
  <1>4. /\ native' = [native EXCEPT ![d] = values] /\ field' = [field EXCEPT ![d] = fields]
        /\ carrier' = [carrier EXCEPT ![d] = carriers]
    BY <1>2 DEF ApplyObservation, StoreTyped
  <1>5. \A s \in Settings : Takes(d, s) =>
           /\ values[s] = SharedValue(d, s) /\ carriers[s] = Version(d, s)
           /\ fields[s] = [local |-> SharedValue(d, s), revision |-> history[d].changed[s], native |-> edits[d][s]]
    OBVIOUS
  <1>6. \A s \in Settings : ~Takes(d, s) =>
           values[s] = native[d][s] /\ carriers[s] = carrier[d][s] /\ fields[s] = field[d][s]
    BY DEF Takes
  <1>7. \A s \in Settings : Takes(d, s) =>
           /\ Version(d, s) \in history[d].applied /\ history[d].versions[s] = {Version(d, s)}
           /\ Version(d, s) \in Nat \ {0} /\ Touches(operations, Version(d, s), s)
           /\ SharedValue(d, s) = ValueOf(operations, Version(d, s), s) /\ SharedValue(d, s) \in SettingValues
    BY SharedIs DEF Takes
  <1>8. /\ values \in [Settings -> SettingValues] /\ fields \in [Settings -> FieldType]
        /\ carriers \in [Settings -> Nat]
    <2>1. ASSUME NEW s \in Settings
          PROVE  values[s] \in SettingValues /\ fields[s] \in FieldType /\ carriers[s] \in Nat
      <3>1. CASE Takes(d, s)
        <4>1. history[d].changed[s] \in Nat /\ edits[d][s] \in Nat
          BY <1>2, <2>1, DomainsOf, StoreOf DEF ProfileIInv
        <4>2. QED BY <1>5, <1>7, <2>1, <3>1, <4>1 DEF FieldType
      <3>2. CASE ~Takes(d, s)
        BY <1>2, <1>6, <2>1, <3>2, StoreOf
      <3>3. QED BY <3>1, <3>2
    <2>2. QED BY <2>1
  <1> HIDE DEF values, fields, carriers
  <1>9. /\ native'[d] = values /\ field'[d] = fields /\ carrier'[d] = carriers
        /\ \A e \in Devices : e # d => native'[e] = native[e] /\ field'[e] = field[e] /\ carrier'[e] = carrier[e]
    BY <1>2, <1>4 DEF StoreTyped
  <1>10. StoreTyped'
    BY <1>1, <1>2, <1>3, <1>4, <1>8 DEF StoreTyped
  <1>11. MovesOnly(d)
    BY <1>1, <1>2, <1>3, <1>9 DEF MovesOnly, View, StoreTyped
  <1>12. Underway(d)'
    <2>1. Underway(d) /\ OnTheWay(d)' = OnTheWay(d) /\ \A p : OwnOperation(d, p)' = OwnOperation(d, p)
      BY <1>1 DEF ProfileIInv, DeviceOK, OnTheWay, OwnOperation
    <2>2. \A p \in OnTheWay(d) : native'[d][p.setting] = native[d][p.setting]
      <3>1. ASSUME NEW p \in OnTheWay(d) PROVE native'[d][p.setting] = native[d][p.setting]
        <4>1. p.setting \in Settings /\ p \in deferred[d] \union {pending[d]}
          BY <1>2, <3>1, OnTheWayType DEF OnTheWay, PendingType
        <4>2. ~Takes(d, p.setting)
          BY <4>1 DEF Takes
        <4>3. QED BY <1>6, <1>9, <4>1, <4>2
      <3>2. QED BY <3>1
    <2>3. QED BY <1>1, <2>1, <2>2 DEF Underway
  <1>13. WorkerKnows(d)'
    BY <1>3 DEF WorkerKnows
  <1>14. ASSUME NEW s \in Settings PROVE Carried(d, s)' /\ AgreedUpon(d, s)'
    <2>0. history[d].revision \in Nat /\ field[d][s].revision \in Nat /\ edits[d][s] \in Nat
      BY <1>2, <1>14, DomainsOf, StoreOf DEF ProfileIInv, FieldType
    <2>1. CASE ~Takes(d, s)
      BY <1>1, <1>6, <1>9, <1>14, <2>0, <2>1, SettingStays DEF ProfileIInv, DeviceOK
    <2>2. CASE Takes(d, s)
      <3>1. PICK v \in history[d].applied : /\ v = Version(d, s) /\ history[d].versions[s] = {v} /\ v # 0
                                            /\ Touches(operations, v, s)
                                            /\ SharedValue(d, s) = ValueOf(operations, v, s)
        BY <1>7, <1>14, <2>2
      <3>2. /\ native'[d][s] = ValueOf(operations, v, s) /\ carrier'[d][s] = v
            /\ field'[d][s].local = ValueOf(operations, v, s) /\ field'[d][s].revision = history[d].changed[s]
            /\ field'[d][s].native = edits[d][s]
        <4>1. /\ values[s] = SharedValue(d, s) /\ carriers[s] = Version(d, s)
              /\ fields[s] = [local |-> SharedValue(d, s), revision |-> history[d].changed[s], native |-> edits[d][s]]
          BY <1>5, <1>14, <2>2
        <4>2. native'[d][s] = values[s] /\ field'[d][s] = fields[s] /\ carrier'[d][s] = carriers[s]
          BY <1>9
        <4>3. /\ fields[s].local = SharedValue(d, s) /\ fields[s].revision = history[d].changed[s]
              /\ fields[s].native = edits[d][s]
          BY <4>1
        <4>4. QED BY <3>1, <4>1, <4>2, <4>3
      <3>3. Carried(d, s)'
        BY <1>1, <3>1, <3>2 DEF Carried
      <3>4. history[d].changed[s] <= history[d].revision
        BY <1>14 DEF ProfileIInv, HistoriesOK, HistoryOK
      <3>5. AgreedUpon(d, s)'
        BY <1>1, <2>0, <3>1, <3>2, <3>4 DEF AgreedUpon
      <3>6. QED BY <3>3, <3>5
    <2>3. QED BY <2>1, <2>2
  <1>15. QED BY <1>2, <1>10, <1>11, <1>12, <1>13, <1>14, DeviceSteps DEF DeviceOK

(* A file that is reserved next is one more than there are. *)
LEMMA RangeIsFinite ==
    ASSUME NEW T, NEW q \in Seq(T)
    PROVE  IsFiniteSet(Range(q))
  <1>1. Len(q) \in Nat /\ DOMAIN q = 1 .. Len(q) /\ q \in [1 .. Len(q) -> T]
    BY LenProperties
  <1>2. q \in Surjection(1 .. Len(q), Range(q))
    BY <1>1 DEF Surjection, Range
  <1>3. IsFiniteSet(1 .. Len(q))
    BY <1>1, FS_Interval
  <1>4. QED BY <1>2, <1>3, FS_Surjection

LEMMA FreshIsNumber ==
    ASSUME ProfileIInv
    PROVE  Cardinality(drive \union UNION {Range(history[e].files) : e \in Devices}) + 1 \in Nat
  <1> DEFINE all == {Range(history[e].files) : e \in Devices}
             files == [e \in Devices |-> Range(history[e].files)]
  <1>1. IsFiniteSet(all)
    <2>1. files \in Surjection(Devices, all)
      BY DEF Surjection
    <2> HIDE DEF files, all
    <2>2. QED BY <2>1, FS_Surjection, ProfileAssumption
  <1>2. \A T \in all : IsFiniteSet(T)
    <2>1. ASSUME NEW e \in Devices PROVE IsFiniteSet(Range(history[e].files))
      <3>1. history[e].files \in Seq(FileType)
        BY <2>1 DEF ProfileIInv, HistoriesOK, HistoryType
      <3>2. QED BY <3>1, RangeIsFinite
    <2>2. QED BY <2>1
  <1> HIDE DEF all
  <1>3. IsFiniteSet(drive) /\ IsFiniteSet(UNION all)
    BY <1>1, <1>2, FS_UNION DEF ProfileIInv, DriveOK
  <1>4. IsFiniteSet(drive \union UNION all)
    BY <1>3, FS_Union
  <1>5. Cardinality(drive \union UNION all) \in Nat
    BY <1>4, FS_CardinalityType
  <1>6. QED BY <1>5 DEF all

(* The operation that is uploaded next. *)
LEMMA NextIs ==
    ASSUME ProfileIInv, NEW d \in Devices, ToUpload(d) # {}
    PROVE  NextUpload(d) \in 1 .. Len(operations) /\ NextUpload(d) \in Nat
  <1>1. history[d].log \in Seq(Nat) /\ Range(history[d].log) \subseteq 1 .. Len(operations)
        /\ Len(operations) \in Nat
    BY DomainsOf DEF ProfileIInv, HistoryType
  <1>2. DOMAIN history[d].log \subseteq Nat
    BY <1>1, LenProperties
  <1>3. ToUpload(d) \in SUBSET Nat
    BY <1>2 DEF ToUpload
  <1>4. Min(ToUpload(d)) \in DOMAIN history[d].log
    BY <1>3, MinIsLeast DEF ToUpload
  <1>5. QED BY <1>1, <1>4 DEF NextUpload, Range

(* A file is reserved. *)
LEMMA ReserveKeeps ==
    ASSUME ProfileIInv, NEW d \in Devices, Reserve(d)
    PROVE  ProfileIInv'
  <1>1. /\ UNCHANGED <<operations, drive, observed, copied, native, edits, field, pending, deferred, requests,
                       review, carrier>>
        /\ Goto(d, "upload") /\ job[d].at = "publish" /\ ToUpload(d) # {}
    BY DEF Reserve, driveVars, storeVars
  <1>2. StoreTyped /\ InOrder(operations) /\ HistoryOK(operations, history[d]) /\ history[d] \in HistoryType
        /\ history \in [Devices -> HistoryType] /\ history[d].revision \in Nat
    BY DomainsOf DEF ProfileIInv, HistoriesOK
  <1>3. PICK k \in 1 .. Len(operations) : k = NextUpload(d) /\ k \in Nat
    BY <1>1, NextIs
  <1>4. PICK fresh \in Nat :
            fresh = Cardinality(drive \union UNION {Range(history[e].files) : e \in Devices}) + 1
    BY FreshIsNumber
  <1>5. job' = [job EXCEPT ![d] = job'[d]] /\ job'[d].at = "upload" /\ job' \in [Devices -> JobType]
    BY <1>1, <1>2, GoesTo
  <1>6. ASSUME NEW g, history' = [history EXCEPT ![d] = g], HistoryOK(operations, g), Grows(history[d], g),
               g.log = history[d].log, g.uploaded = history[d].uploaded,
               \E f \in Range(g.files) : f.operation = k
        PROVE  ProfileIInv'
    <2>1. history'[d] = g
      BY <1>2, <1>6
    <2>2. ToUpload(d)' = ToUpload(d)
      BY <1>1, <1>6, <2>1 DEF ToUpload
    <2>3. NextUpload(d)' = NextUpload(d)
      BY <1>6, <2>1, <2>2 DEF NextUpload
    <2>4. WorkerKnows(d)'
      BY <1>1, <1>3, <1>5, <1>6, <2>1, <2>2, <2>3 DEF WorkerKnows
    <2>5. QED BY <1>1, <1>5, <1>6, <2>4, HistoryKeeps
  <1>7. CASE {f \in Range(history[d].files) : f.operation = k} # {}
    <2>1. history' = [history EXCEPT ![d] = history[d]]
      BY <1>2, <1>3, <1>7 DEF Reserve
    <2>2. Grows(history[d], history[d])
      BY <1>2 DEF Grows
    <2>3. \E f \in Range(history[d].files) : f.operation = k
      BY <1>7
    <2>4. QED BY <1>2, <1>6, <2>1, <2>2, <2>3
  <1>8. CASE {f \in Range(history[d].files) : f.operation = k} = {}
    <2> DEFINE f == [file |-> fresh, operation |-> k]
               q == Append(history[d].files, f)
               g == [history[d] EXCEPT !.files = q, !.revision = history[d].revision + 1]
    <2>1. history' = [history EXCEPT ![d] = g]
      <3>1. history' = [history EXCEPT ![d].files = Append(@, f), ![d].revision = @ + 1]
        BY <1>3, <1>4, <1>8 DEF Reserve
      <3>2. QED BY <1>2, <3>1
    <2>2. f \in FileType /\ f.operation = k
      BY <1>3, <1>4 DEF FileType
    <2>3. history[d].files \in Seq(FileType)
      BY <1>2 DEF HistoryType
    <2> HIDE DEF f
    <2>4. /\ q \in Seq(FileType) /\ Len(history[d].files) \in Nat
          /\ DOMAIN q = 1 .. Len(history[d].files) + 1 /\ DOMAIN history[d].files = 1 .. Len(history[d].files)
          /\ q[Len(history[d].files) + 1] = f
          /\ \A n \in DOMAIN history[d].files : q[n] = history[d].files[n]
      <3>1. PICK p : p = history[d].files
        OBVIOUS
      <3>2. p \in Seq(FileType) /\ q = Append(p, f)
        BY <2>3, <3>1
      <3>3. /\ q \in Seq(FileType) /\ Len(p) \in Nat /\ DOMAIN q = 1 .. Len(p) + 1 /\ DOMAIN p = 1 .. Len(p)
            /\ q[Len(p) + 1] = f /\ \A n \in 1 .. Len(p) : q[n] = p[n]
        BY <2>2, <3>2
      <3>4. QED BY <3>1, <3>3
    <2> HIDE DEF q
    <2>5. /\ g \in HistoryType /\ g.log = history[d].log /\ g.files = q /\ g.uploaded = history[d].uploaded
          /\ g.applied = history[d].applied /\ g.heads = history[d].heads
          /\ g.versions = history[d].versions /\ g.changed = history[d].changed
          /\ g.revision = history[d].revision + 1
      <3>1. history[d].revision + 1 \in Nat
        BY <1>2
      <3>2. g \in HistoryType
        BY <1>2, <2>4, <3>1 DEF HistoryType
      <3>3. QED BY <1>2, <3>2 DEF HistoryType
    <2> HIDE DEF g
    <2>6. \A n \in DOMAIN q : q[n].operation \in 1 .. Len(operations)
      <3>1. ASSUME NEW n \in DOMAIN q PROVE q[n].operation \in 1 .. Len(operations)
        <4>1. n = Len(history[d].files) + 1 \/ n \in DOMAIN history[d].files
          BY <2>4, <3>1
        <4>2. \A m \in DOMAIN history[d].files : history[d].files[m].operation \in 1 .. Len(operations)
          BY <1>2 DEF HistoryOK
        <4>3. QED BY <1>3, <2>2, <2>4, <4>1, <4>2
      <3>2. QED BY <3>1
    <2>7. \A s \in Settings : history[d].changed[s] \in Nat /\ history[d].changed[s] <= history[d].revision + 1
      BY <1>2 DEF HistoryOK, HistoryType
    <2>8. HistoryOK(operations, g)
      BY <1>2, <2>5, <2>6, <2>7 DEF HistoryOK
    <2>9. Grows(history[d], g)
      BY <1>2, <2>5 DEF Grows
    <2>10. \E x \in Range(g.files) : x.operation = k
      <3>1. f \in Range(q)
        BY <2>4 DEF Range
      <3>2. QED BY <2>2, <2>5, <3>1
    <2>11. QED BY <1>6, <2>1, <2>5, <2>8, <2>9, <2>10
  <1>9. QED BY <1>7, <1>8

(* The file is created. *)
LEMMA UploadKeeps ==
    ASSUME ProfileIInv, NEW d \in Devices, Upload(d)
    PROVE  ProfileIInv'
  <1>1. /\ UNCHANGED <<operations, history, observed, copied, native, edits, field, pending, deferred, requests,
                       review, carrier>>
        /\ Goto(d, "confirm") /\ job[d].at = "upload" /\ drive' = drive \union {Reservation(d)}
    BY DEF Upload, historyVars, storeVars
  <1>2. StoreTyped /\ DriveOK /\ HistoriesOK'
    BY <1>1 DEF ProfileIInv, HistoriesOK
  <1>3. \E f \in Range(history[d].files) : f.operation = NextUpload(d)
    BY <1>1 DEF ProfileIInv, DeviceOK, WorkerKnows
  <1>4. Reservation(d) \in Range(history[d].files)
    BY <1>3 DEF Reservation
  <1>5. Reservation(d) \in FileType /\ Reservation(d).operation \in 1 .. Len(operations)
    <2>1. history[d].files \in Seq(FileType)
          /\ \A n \in DOMAIN history[d].files : history[d].files[n].operation \in 1 .. Len(operations)
      BY DomainsOf DEF ProfileIInv, HistoryOK, HistoryType
    <2>2. PICK q : q = history[d].files
      OBVIOUS
    <2>3. PICK n \in DOMAIN q : Reservation(d) = q[n]
      BY <1>4, <2>2 DEF Range
    <2>4. q[n] \in FileType
      BY <2>1, <2>2, <2>3
    <2>5. QED BY <2>1, <2>2, <2>3, <2>4
  <1>6. DriveOK'
    <2>1. IsFiniteSet(drive \union {Reservation(d)})
      BY <1>2, FS_AddElement DEF DriveOK
    <2>2. QED BY <1>1, <1>2, <1>5, <2>1 DEF DriveOK
  <1>7. job' = [job EXCEPT ![d] = job'[d]] /\ job'[d].at = "confirm" /\ job' \in [Devices -> JobType]
    BY <1>1, <1>2, GoesTo
  <1>8. StoreTyped'
    BY <1>1, <1>2, <1>7 DEF StoreTyped
  <1>9. MovesOnly(d)
    BY <1>1, <1>2, <1>7 DEF MovesOnly, View, StoreTyped
  <1>10. ToUpload(d)' = ToUpload(d) /\ ToUpload(d) # {}
    BY <1>1 DEF ToUpload, ProfileIInv, DeviceOK, WorkerKnows
  <1>11. Underway(d)'
    BY <1>1, UnderwayStays DEF OnTheWay, ProfileIInv, DeviceOK
  <1>12. WorkerKnows(d)'
    BY <1>7, <1>10 DEF WorkerKnows
  <1>13. \A s \in Settings : Carried(d, s)' /\ AgreedUpon(d, s)'
    <2>1. ASSUME NEW s \in Settings PROVE Carried(d, s)' /\ AgreedUpon(d, s)'
      <3>1. Carried(d, s) /\ AgreedUpon(d, s) /\ (Unsaved(d, s)' <=> Unsaved(d, s))
        BY <1>1, <2>1 DEF Unsaved, ProfileIInv, DeviceOK
      <3>2. QED BY <1>1, <3>1 DEF Carried, AgreedUpon, Touches, ValueOf
    <2>2. QED BY <2>1
  <1>14. QED BY <1>2, <1>6, <1>8, <1>9, <1>11, <1>12, <1>13, DeviceSteps DEF DeviceOK

(* Drive has the operation. *)
LEMMA ConfirmKeeps ==
    ASSUME ProfileIInv, NEW d \in Devices, Confirm(d)
    PROVE  ProfileIInv'
  <1>1. /\ UNCHANGED <<operations, drive, observed, copied, native, edits, field, pending, deferred, requests,
                       review, carrier>>
        /\ Goto(d, "publish") /\ job[d].at = "confirm"
    BY DEF Confirm, driveVars, storeVars
  <1>2. StoreTyped /\ InOrder(operations) /\ HistoryOK(operations, history[d]) /\ history[d] \in HistoryType
        /\ history \in [Devices -> HistoryType] /\ history[d].revision \in Nat
    BY DomainsOf DEF ProfileIInv, HistoriesOK
  <1>3. NextUpload(d) \in Nat
    BY <1>1, NextIs DEF ProfileIInv, DeviceOK, WorkerKnows
  <1> DEFINE done == history[d].uploaded \union {NextUpload(d)}
             g == [history[d] EXCEPT !.uploaded = done, !.revision = history[d].revision + 1]
  <1>4. history' = [history EXCEPT ![d] = g]
    BY <1>2 DEF Confirm
  <1>5. done \in SUBSET Nat
    BY <1>2, <1>3 DEF HistoryType
  <1> HIDE DEF done
  <1>6. /\ g \in HistoryType /\ g.log = history[d].log /\ g.files = history[d].files
        /\ g.applied = history[d].applied /\ g.heads = history[d].heads
        /\ g.versions = history[d].versions /\ g.changed = history[d].changed
        /\ g.revision = history[d].revision + 1
    <2>1. history[d].revision + 1 \in Nat
      BY <1>2
    <2>2. g \in HistoryType
      BY <1>2, <1>5, <2>1 DEF HistoryType
    <2>3. QED BY <1>2, <2>2 DEF HistoryType
  <1> HIDE DEF g
  <1>7. \A s \in Settings : history[d].changed[s] \in Nat /\ history[d].changed[s] <= history[d].revision + 1
    BY <1>2 DEF HistoryOK, HistoryType
  <1>8. HistoryOK(operations, g)
    BY <1>2, <1>6, <1>7 DEF HistoryOK
  <1>9. Grows(history[d], g)
    BY <1>2, <1>6 DEF Grows
  <1>10. job' = [job EXCEPT ![d] = job'[d]] /\ job'[d].at = "publish" /\ job' \in [Devices -> JobType]
    BY <1>1, <1>2, GoesTo
  <1>11. WorkerKnows(d)'
    BY <1>10 DEF WorkerKnows
  <1>12. QED BY <1>1, <1>4, <1>8, <1>9, <1>10, <1>11, HistoryKeeps

(* A review is prepared. *)
LEMMA PrepareKeeps ==
    ASSUME ProfileIInv, NEW d \in Devices, NEW s \in Settings, Prepare(d, s)
    PROVE  ProfileIInv'
  <1>1. UNCHANGED <<operations, history, drive, observed, copied, native, edits, field, pending, deferred,
                    requests, job, carrier>>
    BY DEF Prepare, historyVars, driveVars, storeVars
  <1>2. StoreTyped /\ DriveOK' /\ HistoriesOK'
    BY <1>1 DEF ProfileIInv, DriveOK, HistoriesOK
  <1>3. /\ native[d][s] \in SettingValues /\ edits[d][s] \in Nat
        /\ history[d].revision \in Nat /\ history[d].versions[s] \in SUBSET Nat
    BY <1>2, StoreOf, DomainsOf DEF ProfileIInv, HistoryType
  <1>4. Awaiting(d, s) \in SUBSET Nat
    <2>1. deferred[d] \in SUBSET PendingType /\ pending[d] \in PendingType \union {None}
      BY <1>2, StoreOf
    <2>2. None.setting \notin Settings
      BY ProfileAssumption DEF None
    <2>3. \A q \in deferred[d] \union {pending[d]} : q.setting = s => q \in PendingType
      BY <2>1, <2>2
    <2>4. QED BY <2>3 DEF Awaiting, PendingType
  <1>5. StoreTyped'
    <2> DEFINE r == [setting |-> s, local |-> native[d][s], native |-> edits[d][s],
                     awaiting |-> Awaiting(d, s), revision |-> history[d].revision,
                     versions |-> history[d].versions[s]]
    <2>1. r \in ProfileReviewType /\ review' = [review EXCEPT ![d] = r]
      BY <1>3, <1>4 DEF ProfileReviewType, Prepare
    <2> HIDE DEF r
    <2>2. QED BY <1>1, <1>2, <2>1 DEF StoreTyped
  <1>6. ASSUME NEW e \in Devices PROVE DeviceOK(e)'
    <2>1. DeviceOK(e)
      BY DEF ProfileIInv
    <2>2. Underway(e)'
      BY <1>1, <2>1, UnderwayStays DEF OnTheWay, DeviceOK
    <2>3. ToUpload(e)' = ToUpload(e) /\ NextUpload(e)' = NextUpload(e)
      BY <1>1 DEF ToUpload, NextUpload
    <2>4. WorkerKnows(e)'
      BY <1>1, <2>1, <2>3 DEF WorkerKnows, DeviceOK, ValueOf
    <2>5. \A x \in Settings : Carried(e, x)' /\ AgreedUpon(e, x)'
      <3>1. ASSUME NEW x \in Settings PROVE Carried(e, x)' /\ AgreedUpon(e, x)'
        <4>1. Carried(e, x) /\ AgreedUpon(e, x) /\ (Unsaved(e, x)' <=> Unsaved(e, x))
          BY <1>1, <2>1, <3>1 DEF Unsaved, DeviceOK
        <4>2. QED BY <1>1, <4>1 DEF Carried, AgreedUpon, Touches, ValueOf
      <3>2. QED BY <3>1
    <2>6. QED BY <2>2, <2>4, <2>5 DEF DeviceOK
  <1>7. QED BY <1>2, <1>5, <1>6 DEF ProfileIInv

(* The choice of a review becomes the setting and the pending change. *)
LEMMA ChoiceKeeps ==
    ASSUME ProfileIInv, NEW d \in Devices, NEW v \in SettingValues, Accept(d, v)
    PROVE  ProfileIInv'
  <1>0. /\ UNCHANGED <<operations, history, drive, observed, copied, field>> /\ review[d] # None
    BY DEF Accept, historyVars, driveVars
  <1>1. StoreTyped /\ HistoriesOK' /\ DriveOK'
    BY <1>0 DEF ProfileIInv, HistoriesOK, DriveOK
  <1>2. PICK r \in ProfileReviewType : r = review[d]
    BY <1>0, <1>1, StoreOf
  <1>3. PICK s \in Settings : s = r.setting
    BY <1>2 DEF ProfileReviewType
  <1>4. /\ edits[d] \in [Settings -> Nat] /\ native[d] \in [Settings -> SettingValues] /\ requests[d] \in Nat
        /\ field[d] \in [Settings -> FieldType] /\ deferred[d] \subseteq PendingType
        /\ None \notin PendingType /\ carrier[d] \in [Settings -> Nat]
    BY <1>1, StoreOf, OnTheWayType
  <1>5. PICK now \in Nat : now = edits[d][s] + (IF v = native[d][s] THEN 0 ELSE 1)
    BY <1>4
  <1>6. PICK p : p = [setting |-> s, request |-> requests[d] + 1, expected |-> r.revision,
                      value |-> v, native |-> now,
                      resolutions |-> IF Cardinality(r.versions) > 1 THEN r.versions ELSE {}]
    OBVIOUS
  <1>7. p \in PendingType
    BY <1>2, <1>3, <1>4, <1>5, <1>6 DEF PendingType, ProfileReviewType
  <1>8. /\ p.setting = s /\ p.request = requests[d] + 1 /\ p.value = v /\ p.native = now
    BY <1>6
  <1>9. PICK c \in Nat : c = (IF v = native[d][s] THEN carrier[d][s] ELSE 0)
    BY <1>4
  <1>10. /\ native' = [native EXCEPT ![d][s] = v] /\ edits' = [edits EXCEPT ![d][s] = now]
         /\ carrier' = [carrier EXCEPT ![d][s] = c] /\ pending' = [pending EXCEPT ![d] = p]
         /\ deferred' = [deferred EXCEPT ![d] = {q \in deferred[d] : q.setting # s}]
         /\ requests' = [requests EXCEPT ![d] = requests[d] + 1] /\ review' = [review EXCEPT ![d] = None]
         /\ job' = [job EXCEPT ![d].at = "admit", ![d].task = "review"]
    BY <1>1, <1>2, <1>3, <1>5, <1>6, <1>9 DEF Accept, StoreTyped
  <1>11. /\ \A e \in Devices : e # d =>
               /\ native'[e] = native[e] /\ edits'[e] = edits[e] /\ carrier'[e] = carrier[e]
               /\ pending'[e] = pending[e] /\ deferred'[e] = deferred[e] /\ requests'[e] = requests[e]
               /\ job'[e] = job[e]
         /\ \A x \in Settings : x # s =>
               /\ native'[d][x] = native[d][x] /\ edits'[d][x] = edits[d][x] /\ carrier'[d][x] = carrier[d][x]
         /\ native'[d][s] = v /\ edits'[d][s] = now /\ carrier'[d][s] = c
         /\ pending'[d] = p /\ deferred'[d] = {q \in deferred[d] : q.setting # s}
         /\ requests'[d] = requests[d] + 1 /\ job'[d].at = "admit"
    <2>1. /\ native' = [native EXCEPT ![d] = [native[d] EXCEPT ![s] = v]]
          /\ edits' = [edits EXCEPT ![d] = [edits[d] EXCEPT ![s] = now]]
          /\ carrier' = [carrier EXCEPT ![d] = [carrier[d] EXCEPT ![s] = c]]
          /\ job' = [job EXCEPT ![d] = [job[d] EXCEPT !.at = "admit", !.task = "review"]]
      BY <1>1, <1>10 DEF StoreTyped
    <2>2. /\ native'[d] = [native[d] EXCEPT ![s] = v] /\ edits'[d] = [edits[d] EXCEPT ![s] = now]
          /\ carrier'[d] = [carrier[d] EXCEPT ![s] = c]
          /\ job'[d] = [job[d] EXCEPT !.at = "admit", !.task = "review"] /\ job[d] \in JobType
      BY <1>1, <2>1 DEF StoreTyped
    <2>3. /\ \A x \in Settings : x # s =>
               /\ native'[d][x] = native[d][x] /\ edits'[d][x] = edits[d][x] /\ carrier'[d][x] = carrier[d][x]
          /\ native'[d][s] = v /\ edits'[d][s] = now /\ carrier'[d][s] = c
      BY <1>4, <2>2
    <2>4. job'[d].at = "admit"
      BY <2>2 DEF JobType
    <2>5. \A e \in Devices : e # d =>
               /\ native'[e] = native[e] /\ edits'[e] = edits[e] /\ carrier'[e] = carrier[e]
               /\ pending'[e] = pending[e] /\ deferred'[e] = deferred[e] /\ requests'[e] = requests[e]
               /\ job'[e] = job[e]
      BY <1>1, <1>10, <2>1 DEF StoreTyped
    <2>6. /\ pending'[d] = p /\ deferred'[d] = {q \in deferred[d] : q.setting # s}
          /\ requests'[d] = requests[d] + 1
      BY <1>1, <1>10 DEF StoreTyped
    <2>7. QED BY <2>3, <2>4, <2>5, <2>6
  <1>12. StoreTyped'
    <2>1. job' \in [Devices -> JobType]
      <3> DEFINE j == [job[d] EXCEPT !.at = "admit", !.task = "review"]
      <3>1. job[d] \in JobType
        BY <1>1 DEF StoreTyped
      <3>2. j \in JobType
        BY <3>1 DEF JobType
      <3>3. job' = [job EXCEPT ![d] = j]
        BY <1>1, <1>10 DEF StoreTyped
      <3> HIDE DEF j
      <3>4. QED BY <1>1, <3>2, <3>3 DEF StoreTyped
    <2>2. /\ native' \in [Devices -> [Settings -> SettingValues]] /\ edits' \in [Devices -> [Settings -> Nat]]
          /\ carrier' \in [Devices -> [Settings -> Nat]]
      BY <1>1, <1>10 DEF StoreTyped
    <2>3. /\ pending' \in [Devices -> PendingType \union {None}] /\ requests' \in [Devices -> Nat]
          /\ deferred' \in [Devices -> SUBSET PendingType]
          /\ review' \in [Devices -> ProfileReviewType \union {None}]
      BY <1>1, <1>4, <1>7, <1>10 DEF StoreTyped
    <2>4. QED BY <1>0, <1>1, <2>1, <2>2, <2>3 DEF StoreTyped
  <1>13. MovesOnly(d)
    BY <1>0, <1>11 DEF MovesOnly, View
  <1>14. /\ OnTheWay(d)' = {q \in deferred[d] : q.setting # s} \union {p}
         /\ {q \in deferred[d] : q.setting # s} \subseteq OnTheWay(d)
    BY <1>4, <1>7, <1>11 DEF OnTheWay
  <1>15. \A q : OwnOperation(d, q)' = OwnOperation(d, q)
    BY <1>0 DEF OwnOperation
  <1>16. Underway(d)'
    <2>1. Underway(d)
      BY DEF ProfileIInv, DeviceOK
    <2>2. \A k \in DOMAIN operations : operations[k] \in OperationType /\ operations[k].request \in Nat
      BY DomainsOf DEF ProfileIInv, OperationType
    <2>3. \A k \in DOMAIN operations : operations[k].device = d => operations[k].request <= requests[d]
      BY <2>1 DEF Underway
    <2>4. OwnOperation(d, p) = {}
      BY <1>4, <1>8, <2>2, <2>3 DEF OwnOperation
    <2>5. ASSUME NEW q \in OnTheWay(d)', q # p
          PROVE  /\ q \in OnTheWay(d) /\ q.setting # s /\ q.setting \in Settings
                 /\ q.request \in 1 .. requests[d]
      <3>1. q \in OnTheWay(d) /\ q.setting # s /\ q \in PendingType
        BY <1>4, <1>14, <2>5
      <3>2. QED BY <2>1, <3>1 DEF Underway, PendingType
    <2>6. ASSUME NEW q \in OnTheWay(d)'
          PROVE  /\ q.native <= edits'[d][q.setting]
                 /\ q.native = edits'[d][q.setting] => q.value = native'[d][q.setting]
                 /\ q.request \in 1 .. requests[d] + 1
                 /\ \A k \in OwnOperation(d, q) : operations[k].changes = ChangesOf(q)
      <3>1. CASE q = p
        BY <1>4, <1>5, <1>8, <1>11, <2>4, <3>1
      <3>2. CASE q # p
        <4>1. q \in OnTheWay(d) /\ q.setting # s /\ q.setting \in Settings /\ q.request \in 1 .. requests[d]
          BY <2>5, <2>6, <3>2
        <4>2. /\ q.native <= edits[d][q.setting]
              /\ q.native = edits[d][q.setting] => q.value = native[d][q.setting]
              /\ \A k \in OwnOperation(d, q) : operations[k].changes = ChangesOf(q)
          BY <2>1, <4>1 DEF Underway
        <4>3. edits'[d][q.setting] = edits[d][q.setting] /\ native'[d][q.setting] = native[d][q.setting]
          BY <1>11, <4>1
        <4>4. QED BY <1>4, <4>1, <4>2, <4>3
      <3>3. QED BY <3>1, <3>2
    <2>7. ASSUME NEW q \in OnTheWay(d)', NEW x \in OnTheWay(d)', q.request = x.request
          PROVE  q = x
      <3>1. CASE q # p /\ x # p
        <4>1. q \in OnTheWay(d) /\ x \in OnTheWay(d)
          BY <2>5, <2>7, <3>1
        <4>2. QED BY <2>1, <2>7, <4>1 DEF Underway
      <3>2. CASE q = p /\ x # p
        BY <1>4, <1>8, <2>5, <2>7, <3>2
      <3>3. CASE q # p /\ x = p
        BY <1>4, <1>8, <2>5, <2>7, <3>3
      <3>4. QED BY <3>1, <3>2, <3>3
    <2>8. \A k \in DOMAIN operations : operations[k].device = d => operations[k].request <= requests[d] + 1
      BY <1>4, <2>2, <2>3
    <2>9. QED BY <1>0, <1>11, <1>15, <2>6, <2>7, <2>8 DEF Underway
  <1>17. WorkerKnows(d)'
    BY <1>4, <1>7, <1>11 DEF WorkerKnows
  <1>18. ASSUME NEW x \in Settings PROVE Carried(d, x)' /\ AgreedUpon(d, x)'
    <2>1. /\ Carried(d, x) /\ AgreedUpon(d, x) /\ field[d][x].native \in Nat /\ edits[d][x] \in Nat
          /\ field[d][x].revision \in Nat /\ history[d].revision \in Nat
      BY <1>4, <1>18, DomainsOf DEF ProfileIInv, DeviceOK, FieldType
    <2>2. CASE x # s \/ v = native[d][s]
      <3>1. native'[d][x] = native[d][x] /\ edits'[d][x] = edits[d][x] /\ carrier'[d][x] = carrier[d][x]
        BY <1>4, <1>5, <1>9, <1>11, <1>18, <2>2
      <3>2. Unsaved(d, x)' <=> Unsaved(d, x)
        BY <1>0, <3>1 DEF Unsaved
      <3>3. QED BY <1>0, <2>1, <3>1, <3>2 DEF Carried, AgreedUpon, Touches, ValueOf
    <2>3. CASE x = s /\ v # native[d][s]
      <3>1. carrier'[d][x] = 0 /\ edits'[d][x] = edits[d][x] + 1
        BY <1>5, <1>9, <1>11, <2>3
      <3>2. field[d][x].native <= edits[d][x]
        BY <2>1 DEF AgreedUpon
      <3>3. Unsaved(d, x)'
        BY <1>0, <2>1, <3>1, <3>2 DEF Unsaved
      <3>4. Carried(d, x)'
        BY <3>1, <3>3 DEF Carried
      <3>5. AgreedUpon(d, x)'
        BY <1>0, <2>1, <3>1, <3>2 DEF AgreedUpon, ValueOf
      <3>6. QED BY <3>4, <3>5
    <2>4. QED BY <2>2, <2>3
  <1>19. QED BY <1>1, <1>12, <1>13, <1>16, <1>17, <1>18, DeviceSteps DEF DeviceOK

(* The shared profile every device begins with. *)
LEMMA ProfileStarts ==
    ASSUME ProfileInit
    PROVE  ProfileIInv
  <1>1. PICK author \in Devices : author = CHOOSE d \in Devices : TRUE
    BY ProfileAssumption
  <1>2. PICK given : given = [s \in Settings |-> Initial]
    OBVIOUS
  <1>3. given \in [Settings -> SettingValues] /\ DOMAIN given = Settings
    BY <1>2, ProfileAssumption
  <1>4. PICK first : first = [device |-> author, request |-> 0, parents |-> {}, changes |-> given]
    OBVIOUS
  <1>5. /\ first \in OperationType /\ first.device = author /\ first.request = 0 /\ first.parents = {}
        /\ first.changes = given
    <2>1. given \in UNION {[D -> SettingValues] : D \in SUBSET Settings}
      BY <1>3
    <2>2. QED BY <1>4, <2>1 DEF OperationType
  <1>6. operations = <<first>>
    BY <1>1, <1>2, <1>4 DEF ProfileInit
  <1>7. /\ operations \in Seq(OperationType) /\ Len(operations) = 1 /\ DOMAIN operations = {1}
        /\ operations[1] = first
    BY <1>5, <1>6
  <1>8. InOrder(operations)
    BY <1>5, <1>7 DEF InOrder
  <1>9. PICK h : h = [log |-> <<1>>, applied |-> {}, heads |-> {}, versions |-> [s \in Settings |-> {}],
                      changed |-> [s \in Settings |-> 0], revision |-> 1, files |-> <<>>, uploaded |-> {1}]
    OBVIOUS
  <1>10. /\ h \in HistoryType /\ h.log = <<1>> /\ h.applied = {} /\ h.heads = {} /\ h.revision = 1
         /\ h.files = <<>>
         /\ \A s \in Settings : h.versions[s] = {} /\ h.changed[s] = 0
    BY <1>9 DEF HistoryType
  <1>11. Range(h.log) = {1} /\ h.log[1] = 1 /\ DOMAIN h.log = {1} /\ DOMAIN h.files = {}
    BY <1>10 DEF Range
  <1>12. HistoryOK(operations, h)
    BY <1>7, <1>10, <1>11 DEF HistoryOK, Newest, Knows
  <1>13. PICK g : g = Apply(operations, h, 1)
    OBVIOUS
  <1>14. HistoryOK(operations, g)
    BY <1>5, <1>7, <1>8, <1>10, <1>11, <1>12, <1>13, ApplyKeeps
  <1>15. /\ g \in HistoryType /\ g.applied = {1} /\ g.revision = 2
         /\ \A s \in Settings : g.versions[s] = {1} /\ g.changed[s] = 2
    <2>1. Becomes(operations, h, 1, g)
      BY <1>10, <1>13, ApplyFields
    <2>2. \A s \in Settings : Touches(operations, 1, s)
      BY <1>3, <1>5, <1>7 DEF Touches
    <2>3. /\ g \in HistoryType /\ g.applied = h.applied \union {1} /\ g.revision = h.revision + 1
          /\ \A s \in Settings : /\ g.versions[s] = (h.versions[s] \ Ancestry(operations)[1]) \union {1}
                               /\ g.changed[s] = h.revision + 1
      BY <2>1, <2>2 DEF Becomes
    <2>4. \A s \in Settings : g.versions[s] = {1} /\ g.changed[s] = 2
      BY <1>10, <2>3
    <2>5. QED BY <1>10, <2>3, <2>4
  <1>16. ApplyReady(operations, h) = g
    <2>1. Waiting(h) = {1}
      BY <1>10, <1>11 DEF Waiting
    <2>2. Cardinality(Waiting(h)) = 1
      BY <2>1, FS_Singleton
    <2>3. PICK f : AfterTo(operations, h, 1, f) /\ ApplyReady(operations, h) = f[1]
      BY <2>2, ApplyReadyIs
    <2>4. f[1] = Round(operations, h)
      BY <2>3 DEF AfterTo
    <2>5. ReadyAt(operations, h) = {1}
      BY <1>5, <1>7, <1>10, <1>11 DEF ReadyAt
    <2>6. Min(ReadyAt(operations, h)) = 1
      <3>1. {1} \in SUBSET Nat
        OBVIOUS
      <3>2. Min({1}) \in {1}
        BY <3>1, MinIsLeast
      <3>3. QED BY <2>5, <3>2
    <2>7. QED BY <1>11, <1>13, <2>3, <2>4, <2>5, <2>6 DEF Round
  <1>17. history = [d \in Devices |-> g]
    BY <1>1, <1>2, <1>4, <1>9, <1>16 DEF ProfileInit
  <1>18. HistoriesOK
    BY <1>8, <1>14, <1>15, <1>17 DEF HistoriesOK
  <1>19. DriveOK
    <2>1. /\ drive = {[file |-> 1, operation |-> 1]} /\ observed = [d \in Devices |-> <<1>>]
          /\ copied = [d \in Devices |-> 1]
      BY DEF ProfileInit
    <2>2. IsFiniteSet(drive) /\ drive \subseteq FileType /\ \A f \in drive : f.operation \in 1 .. Len(operations)
      <3>1. PICK f : f = [file |-> 1, operation |-> 1]
        OBVIOUS
      <3>2. f \in FileType /\ f.operation = 1 /\ drive = {f}
        BY <2>1, <3>1 DEF FileType
      <3>3. IsFiniteSet({f})
        BY FS_Singleton
      <3>4. QED BY <1>7, <3>2, <3>3
    <2>3. <<1>> \in Seq(Nat) /\ \A n \in DOMAIN <<1>> : <<1>>[n] \in 1 .. Len(operations)
      BY <1>7
    <2>4. QED BY <2>1, <2>2, <2>3 DEF DriveOK
  <1>20. /\ native = [d \in Devices |-> given] /\ edits = [d \in Devices |-> [s \in Settings |-> 0]]
         /\ field = [d \in Devices |-> [s \in Settings |-> [local |-> Initial, revision |-> 2, native |-> 0]]]
         /\ pending = [d \in Devices |-> None] /\ deferred = [d \in Devices |-> {}]
         /\ requests = [d \in Devices |-> 0] /\ job = [d \in Devices |-> NoJob]
         /\ review = [d \in Devices |-> None] /\ carrier = [d \in Devices |-> [s \in Settings |-> 1]]
    BY <1>2 DEF ProfileInit
  <1>21. StoreTyped
    <2>1. [local |-> Initial, revision |-> 2, native |-> 0] \in FieldType /\ NoJob \in JobType
      BY ProfileAssumption DEF FieldType, NoJob, JobType
    <2>2. QED BY <1>3, <1>20, <2>1 DEF StoreTyped
  <1>22. ASSUME NEW d \in Devices PROVE DeviceOK(d)
    <2>1. OnTheWay(d) = {}
      BY <1>20 DEF OnTheWay
    <2>2. Underway(d)
      BY <1>5, <1>7, <1>20, <2>1 DEF Underway
    <2>3. WorkerKnows(d)
      BY <1>20 DEF WorkerKnows, NoJob
    <2>4. ASSUME NEW s \in Settings PROVE Carried(d, s) /\ AgreedUpon(d, s)
      <3>1. /\ history[d] = g /\ native[d][s] = Initial /\ edits[d][s] = 0 /\ carrier[d][s] = 1
            /\ field[d][s].local = Initial /\ field[d][s].revision = 2 /\ field[d][s].native = 0
        BY <1>2, <1>17, <1>20, <2>4
      <3>2. Touches(operations, 1, s) /\ ValueOf(operations, 1, s) = Initial
        BY <1>2, <1>3, <1>5, <1>7, <2>4 DEF Touches, ValueOf
      <3>3. QED BY <1>15, <2>4, <3>1, <3>2 DEF Carried, AgreedUpon
    <2>5. QED BY <2>2, <2>3, <2>4 DEF DeviceOK
  <1>23. QED BY <1>18, <1>19, <1>21, <1>22 DEF ProfileIInv

(* Every step. *)
LEMMA ProfileKeeps ==
    ASSUME ProfileIInv, ProfileNext
    PROVE  ProfileIInv'
  <1>1. PICK d \in Devices : \/ Pass(d) \/ Interrupt(d)
                             \/ \E s \in Settings : Prepare(d, s) \/ \E v \in SettingValues : ChangeSetting(d, s, v)
                             \/ \E v \in SettingValues : Accept(d, v)
    BY DEF ProfileNext
  <1>2. CASE Pass(d)
    BY <1>2, QuietSteps, CaptureSteps, AdmitSteps, ReceiptKeeps, DeferKeeps, DiscoverKeeps, ImportStep,
       ApplyObservationKeeps, ReserveKeeps, UploadKeeps, ConfirmKeeps DEF Pass
  <1>3. CASE Interrupt(d)
    BY <1>3, QuietSteps
  <1>4. CASE \E s \in Settings : Prepare(d, s) \/ \E v \in SettingValues : ChangeSetting(d, s, v)
    BY <1>4, PrepareKeeps, ChangeKeeps
  <1>5. CASE \E v \in SettingValues : Accept(d, v)
    BY <1>5, ChoiceKeeps
  <1>6. QED BY <1>1, <1>2, <1>3, <1>4, <1>5

LEMMA ProfileStutters ==
    ASSUME ProfileIInv, UNCHANGED profileVars
    PROVE  ProfileIInv'
  <1>1. UNCHANGED <<operations, history, drive, observed, copied, native, edits, field, pending, deferred,
                    requests, job, review, carrier>>
    BY DEF profileVars, historyVars, driveVars, storeVars
  <1>2. HistoriesOK' /\ DriveOK' /\ StoreTyped'
    BY <1>1 DEF ProfileIInv, HistoriesOK, DriveOK, StoreTyped
  <1>3. PICK d \in Devices : TRUE
    BY ProfileAssumption
  <1>4. MovesOnly(d)
    BY <1>1 DEF MovesOnly, View
  <1>5. ASSUME NEW e \in Devices PROVE DeviceOK(e)'
    <2>1. DeviceOK(e)
      BY DEF ProfileIInv
    <2>2. Underway(e)'
      BY <1>1, <2>1, UnderwayStays DEF OnTheWay, DeviceOK
    <2>3. ToUpload(e)' = ToUpload(e) /\ NextUpload(e)' = NextUpload(e)
      BY <1>1 DEF ToUpload, NextUpload
    <2>4. WorkerKnows(e)'
      BY <1>1, <2>1, <2>3 DEF WorkerKnows, DeviceOK, ValueOf
    <2>5. \A x \in Settings : Carried(e, x)' /\ AgreedUpon(e, x)'
      <3>1. ASSUME NEW x \in Settings PROVE Carried(e, x)' /\ AgreedUpon(e, x)'
        <4>1. Carried(e, x) /\ AgreedUpon(e, x) /\ (Unsaved(e, x)' <=> Unsaved(e, x))
          BY <1>1, <2>1, <3>1 DEF Unsaved, DeviceOK
        <4>2. QED BY <1>1, <4>1 DEF Carried, AgreedUpon, Touches, ValueOf
      <3>2. QED BY <3>1
    <2>6. QED BY <2>2, <2>4, <2>5 DEF DeviceOK
  <1>6. QED BY <1>2, <1>5 DEF ProfileIInv

(* The inductive invariant of the shared profile: every history is what its    *)
(* applied operations make it, whatever order they came in; what a setting     *)
(* shows, what it last agreed with and what is on its way fit each other; and   *)
(* a worker finds at each step what the step before it left.                   *)
THEOREM ProfileHolds == ProfileSpec => []ProfileIInv
  <1>1. ProfileInit => ProfileIInv
    BY ProfileStarts
  <1>2. ProfileIInv /\ [ProfileNext]_profileVars => ProfileIInv'
    BY ProfileKeeps, ProfileStutters
  <1>3. QED BY <1>1, <1>2, PTL DEF ProfileSpec

(* In whatever order the records arrive, the versions of a setting are the      *)
(* applied operations that no applied operation has replaced: for any number   *)
(* of devices, settings, operations, interrupted passes and reviews.           *)
THEOREM VersionsNewest == ProfileSpec => []VersionsAreNewest
  <1>1. ProfileIInv => VersionsAreNewest
    BY DomainsOf DEF ProfileIInv, HistoryOK, VersionsAreNewest, Newest, Knows
  <1>2. QED BY <1>1, ProfileHolds, PTL

(* A setting with nothing to capture, admit or review shows the version of the *)
(* history it has seen.                                                        *)
THEOREM SettledShared == ProfileSpec => []SettledMeansShared
  <1>1. ASSUME ProfileIInv, NEW d \in Devices, NEW s \in Settings, UpToDate(d, s)
        PROVE  native[d][s] = SharedValue(d, s)
    <2>1. native[d][s] = field[d][s].local
      BY <1>1 DEF UpToDate, Unsaved
    <2>2. PICK k \in history[d].applied : /\ history[d].versions[s] = {k}
                                          /\ ValueOf(operations, k, s) = field[d][s].local
      BY <1>1 DEF UpToDate, ProfileIInv, DeviceOK, AgreedUpon
    <2>3. history[d].versions[s] = {Version(d, s)} /\ SharedValue(d, s) = ValueOf(operations, Version(d, s), s)
      BY <1>1, SharedIs DEF UpToDate
    <2>4. Version(d, s) = k
      BY <2>2, <2>3
    <2>5. QED BY <2>1, <2>2, <2>3, <2>4
  <1>2. ProfileIInv => SettledMeansShared
    BY <1>1 DEF SettledMeansShared
  <1>3. QED BY <1>2, ProfileHolds, PTL

LEMMA OverwritesSeen ==
    ASSUME ProfileIInv, ProfileNext, NEW d \in Devices, NEW s \in Settings,
           native'[d][s] # native[d][s], carrier'[d][s] # 0
    PROVE  carrier[d][s] \in Ancestry(operations')[carrier'[d][s]]
  <1>0. StoreTyped
    BY DEF ProfileIInv
  <1>1. PICK e \in Devices : \/ Pass(e) \/ Interrupt(e)
                             \/ \E x \in Settings : Prepare(e, x) \/ \E v \in SettingValues : ChangeSetting(e, x, v)
                             \/ \E v \in SettingValues : Accept(e, v)
    BY DEF ProfileNext
  <1>2. ApplyObservation(e)
    <2>1. ASSUME NEW x \in Settings, NEW v \in SettingValues, ChangeSetting(e, x, v) PROVE FALSE
      <3>1. native' = [native EXCEPT ![e][x] = v] /\ carrier' = [carrier EXCEPT ![e][x] = 0]
        BY <2>1 DEF ChangeSetting
      <3>2. e = d /\ x = s
        BY <1>0, <3>1 DEF StoreTyped
      <3>3. carrier'[d][s] = 0
        BY <1>0, <3>1, <3>2 DEF StoreTyped
      <3>4. QED BY <3>3
    <2>2. ASSUME NEW v \in SettingValues, Accept(e, v) PROVE FALSE
      <3>1. PICK x : x = review[e].setting
        OBVIOUS
      <3>2. /\ native' = [native EXCEPT ![e][x] = v]
            /\ carrier' = [carrier EXCEPT ![e][x] = IF v = native[e][x] THEN carrier[e][x] ELSE 0]
        BY <1>0, <2>2, <3>1 DEF Accept, StoreTyped
      <3>3. e = d /\ x = s /\ v # native[e][x]
        BY <1>0, <3>2 DEF StoreTyped
      <3>4. carrier'[d][s] = 0
        BY <1>0, <3>2, <3>3 DEF StoreTyped
      <3>5. QED BY <3>4
    <2>3. native' # native
      OBVIOUS
    <2>4. QED BY <1>1, <2>1, <2>2, <2>3 DEF Pass, StartPass, Capture, Recheck, AdmitChange, AcknowledgeChange,
                    DeferChange, Discover, Import, Checkpoint, Drain, Reserve, Upload, Confirm, FinishPass,
                    Interrupt, Prepare, storeVars
  <1>3. /\ e = d /\ Takes(d, s) /\ native'[d][s] = SharedValue(d, s) /\ carrier'[d][s] = Version(d, s)
        /\ operations' = operations
    <2>1. /\ native' = [native EXCEPT ![e] = [x \in Settings |->
                 IF Takes(e, x) THEN SharedValue(e, x) ELSE native[e][x]]]
          /\ carrier' = [carrier EXCEPT ![e] = [x \in Settings |->
                 IF Takes(e, x) THEN Version(e, x) ELSE carrier[e][x]]]
          /\ operations' = operations
      BY <1>0, <1>2 DEF ApplyObservation, StoreTyped, historyVars
    <2>2. e = d
      BY <1>0, <2>1 DEF StoreTyped
    <2>3. native'[d][s] = IF Takes(d, s) THEN SharedValue(d, s) ELSE native[d][s]
      BY <1>0, <2>1, <2>2 DEF StoreTyped
    <2>4. carrier'[d][s] = IF Takes(d, s) THEN Version(d, s) ELSE carrier[d][s]
      BY <1>0, <2>1, <2>2 DEF StoreTyped
    <2>5. Takes(d, s)
      BY <2>3 DEF Takes
    <2>6. QED BY <2>1, <2>2, <2>3, <2>4, <2>5
  <1>4. ~Unsaved(d, s)
    BY <1>3 DEF Takes
  <1>5. PICK c : c = carrier[d][s]
    OBVIOUS
  <1>6. c # 0 /\ c \in history[d].applied /\ Touches(operations, c, s) /\ ValueOf(operations, c, s) = native[d][s]
    BY <1>4, <1>5 DEF ProfileIInv, DeviceOK, Carried
  <1>7. PICK v : v = Version(d, s)
    OBVIOUS
  <1>8. history[d].versions[s] = {v} /\ SharedValue(d, s) = ValueOf(operations, v, s)
    BY <1>3, <1>7, SharedIs DEF Takes
  <1>9. c # v
    BY <1>3, <1>6, <1>8
  <1>10. /\ InOrder(operations) /\ history[d].applied \in SUBSET (1 .. Len(operations))
         /\ \A a \in history[d].applied : Ancestry(operations)[a] \subseteq history[d].applied
         /\ Newest(operations, history[d].applied, s) = {v}
    BY <1>8, DomainsOf DEF ProfileIInv, HistoryOK
  <1>11. c \in Ancestry(operations)[v]
    BY <1>6, <1>9, <1>10, OnlyVersionIsLast
  <1>12. QED BY <1>3, <1>5, <1>7, <1>11

(* A sync replaces what the user sees only by a value whose author had seen it: *)
(* no change is lost, none that waits, none that was set back.                 *)
THEOREM NothingOverwritten == ProfileSpec => NothingIsOverwritten
  <1>1. ProfileIInv /\ [ProfileNext]_profileVars =>
           [\A d \in Devices, s \in Settings :
              native'[d][s] # native[d][s] /\ carrier'[d][s] # 0
                 => carrier[d][s] \in Ancestry(operations')[carrier'[d][s]]]_profileVars
    BY OverwritesSeen
  <1>2. QED BY <1>1, ProfileHolds, PTL DEF ProfileSpec, NothingIsOverwritten

----------------------------------------------------------------------------
(* What a history knows decides what it shows. *)

(* The records of a log that have all their ancestors there. *)
KnownTo(ops, log) == {k \in Range(log) : Ancestry(ops)[k] \subseteq Range(log)}
Drained(ops, h) == h.applied \subseteq Range(h.log) /\ ReadyAt(ops, h) = {}
HistoriesDrained == \A d \in Devices : Drained(operations, history[d])

LEMMA DrainedIsKnown ==
    ASSUME NEW ops, InOrder(ops), NEW h, HistoryOK(ops, h), Drained(ops, h)
    PROVE  h.applied = KnownTo(ops, h.log)
  <1>0. /\ Len(ops) \in Nat /\ \A k \in 1 .. Len(ops) : ops[k].parents \subseteq 1 .. k - 1
        /\ Range(h.log) \subseteq 1 .. Len(ops)
    BY InOrderFacts DEF HistoryOK
  <1>1. h.applied \subseteq KnownTo(ops, h.log)
    BY DEF HistoryOK, Drained, KnownTo
  <1> DEFINE T == {n \in Nat : n \in KnownTo(ops, h.log) => n \in h.applied}
  <1>2. ASSUME NEW n \in Nat, \A k \in 0 .. n - 1 : k \in T PROVE n \in T
    <2>1. SUFFICES ASSUME n \in KnownTo(ops, h.log), n \notin h.applied PROVE FALSE
      OBVIOUS
    <2>2. n \in Range(h.log) /\ n \in 1 .. Len(ops) /\ Ancestry(ops)[n] \subseteq Range(h.log)
      BY <1>0, <2>1 DEF KnownTo
    <2>3. ASSUME NEW a \in ops[n].parents PROVE a \in h.applied
      <3>1. a \in 1 .. n - 1 /\ a \in 1 .. Len(ops) /\ a \in 0 .. n - 1
        BY <1>0, <2>2, <2>3
      <3>2. a \in Ancestry(ops)[n]
        BY <2>2, <2>3, AncestryDef
      <3>3. Ancestry(ops)[a] \subseteq Ancestry(ops)[n]
        BY <2>2, <3>2, AncestryIsTransitive
      <3>4. a \in KnownTo(ops, h.log)
        BY <2>2, <3>2, <3>3 DEF KnownTo
      <3>5. QED BY <1>2, <3>1, <3>4
    <2>4. PICK m \in DOMAIN h.log : h.log[m] = n
      BY <2>2 DEF Range
    <2>5. m \in ReadyAt(ops, h)
      BY <2>1, <2>3, <2>4 DEF ReadyAt
    <2>6. QED BY <2>5 DEF Drained
  <1> HIDE DEF T
  <1>3. Nat \subseteq T
    BY <1>2, StrongInduction
  <1>4. KnownTo(ops, h.log) \subseteq Nat
    BY <1>0 DEF KnownTo
  <1>5. QED BY <1>1, <1>3, <1>4 DEF T

(* One round applies one operation that waits, or nothing is ready. *)
LEMMA RoundApplies ==
    ASSUME NEW ops, InOrder(ops), NEW h, HistoryOK(ops, h), h.applied \subseteq Range(h.log),
           NEW g, g = Round(ops, h)
    PROVE  /\ g.applied \subseteq Range(h.log)
           /\ \/ ReadyAt(ops, h) = {} /\ g = h
              \/ \E k \in Waiting(h) : Waiting(g) = Waiting(h) \ {k}
  <1>1. CASE ReadyAt(ops, h) = {}
    BY <1>1 DEF Round
  <1>2. CASE ReadyAt(ops, h) # {}
    <2>1. DOMAIN h.log \subseteq Nat /\ h \in HistoryType
      BY LenProperties DEF HistoryOK, HistoryType
    <2>2. PICK n \in ReadyAt(ops, h) : n = Min(ReadyAt(ops, h))
      BY <1>2, <2>1, MinIsLeast DEF ReadyAt
    <2>3. PICK k : k = h.log[n]
      OBVIOUS
    <2>4. k \in Range(h.log) /\ k \notin h.applied /\ k \in Nat
      <3>1. n \in DOMAIN h.log /\ k \notin h.applied
        BY <2>2, <2>3 DEF ReadyAt
      <3>2. k \in Range(h.log)
        BY <2>3, <3>1 DEF Range
      <3>3. Range(h.log) \subseteq 1 .. Len(ops) /\ Len(ops) \in Nat
        BY InOrderFacts DEF HistoryOK
      <3>4. QED BY <3>1, <3>2, <3>3
    <2>5. g = Apply(ops, h, k)
      BY <1>2, <2>2, <2>3 DEF Round
    <2>6. g.applied = h.applied \union {k} /\ g.log = h.log
      <3>1. Becomes(ops, h, k, g)
        BY <2>1, <2>4, <2>5, ApplyFields
      <3>2. QED BY <3>1 DEF Becomes
    <2>7. k \in Waiting(h) /\ Waiting(g) = Waiting(h) \ {k}
      BY <2>4, <2>6 DEF Waiting
    <2>8. QED BY <2>4, <2>6, <2>7
  <1>3. QED BY <1>1, <1>2

(* ... so there are rounds enough: nothing that could be applied is left. *)
LEMMA ApplyReadyDrains ==
    ASSUME NEW ops, InOrder(ops), NEW h, HistoryOK(ops, h), h.applied \subseteq Range(h.log)
    PROVE  Drained(ops, ApplyReady(ops, h))
  <1>1. h \in HistoryType /\ DOMAIN h.log = 1 .. Len(h.log)
    BY LenProperties DEF HistoryOK, HistoryType
  <1>2. IsFiniteSet(Waiting(h))
    <2>1. Waiting(h) \subseteq 1 .. Len(ops) /\ Len(ops) \in Nat
      BY InOrderFacts DEF Waiting, HistoryOK
    <2>2. IsFiniteSet(1 .. Len(ops))
      BY <2>1, FS_Interval
    <2>3. QED BY <2>1, <2>2, FS_Subset
  <1>3. PICK m \in Nat : m = Cardinality(Waiting(h))
    BY <1>2, FS_CardinalityType
  <1>4. PICK f : AfterTo(ops, h, m, f) /\ ApplyReady(ops, h) = f[m]
    BY <1>3, ApplyReadyIs
  <1> DEFINE Left(n) == /\ IsFiniteSet(Waiting(f[n])) /\ Cardinality(Waiting(f[n])) \in Nat
                        /\ Cardinality(Waiting(f[n])) + n <= m
             Good(n) == /\ Moved(ops, h, f[n]) /\ f[n].applied \subseteq Range(h.log)
                        /\ ReadyAt(ops, f[n]) = {} \/ Left(n)
             T == {n \in Nat : n <= m => Good(n)}
  <1>5. 0 \in T
    <2>1. f[0] = h
      BY <1>4 DEF AfterTo
    <2>2. Moved(ops, h, h)
      BY <1>1 DEF Moved, Grows, SameRecords, HistoryType
    <2>3. QED BY <1>2, <1>3, <2>1, <2>2
  <1>6. ASSUME NEW n \in Nat, n \in T PROVE n + 1 \in T
    <2>1. SUFFICES ASSUME n + 1 <= m PROVE Good(n + 1)
      OBVIOUS
    <2>2. Good(n)
      BY <1>3, <1>6, <2>1
    <2>3. f[n + 1] = Round(ops, f[n])
      <3>1. n + 1 \in 0 .. m /\ n + 1 # 0 /\ (n + 1) - 1 = n
        BY <1>3, <2>1
      <3>2. QED BY <1>4, <3>1 DEF AfterTo
    <2>4. PICK i, g : i = f[n] /\ g = f[n + 1]
      OBVIOUS
    <2>5. HistoryOK(ops, i) /\ i.log = h.log /\ Moved(ops, h, i) /\ i.applied \subseteq Range(i.log)
      BY <2>2, <2>4 DEF Moved, SameRecords
    <2>6. g = Round(ops, i)
      BY <2>3, <2>4
    <2>7. Moved(ops, h, g)
      <3>1. Moved(ops, i, g)
        BY <2>5, <2>6, RoundKeeps DEF Moved
      <3>2. QED BY <1>1, <2>5, <3>1, MovedTwice
    <2>8. /\ g.applied \subseteq Range(h.log)
          /\ \/ ReadyAt(ops, i) = {} /\ g = i
             \/ \E k \in Waiting(i) : Waiting(g) = Waiting(i) \ {k}
      BY <2>5, <2>6, RoundApplies
    <2>9. ReadyAt(ops, g) = {} \/ Left(n + 1)
      <3>1. CASE ReadyAt(ops, i) # {} /\ \E k \in Waiting(i) : Waiting(g) = Waiting(i) \ {k}
        <4>1. PICK k \in Waiting(i) : Waiting(g) = Waiting(i) \ {k}
          BY <3>1
        <4>2. Left(n)
          BY <2>2, <2>4, <3>1
        <4>3. /\ IsFiniteSet(Waiting(i)) /\ Cardinality(Waiting(i)) \in Nat
              /\ Cardinality(Waiting(i)) + n <= m
          BY <2>4, <4>2
        <4>4. IsFiniteSet(Waiting(g)) /\ Cardinality(Waiting(g)) = Cardinality(Waiting(i)) - 1
          BY <4>1, <4>3, FS_RemoveElement
        <4>5. Cardinality(Waiting(g)) \in Nat
          BY <4>4, FS_CardinalityType
        <4>6. Cardinality(Waiting(g)) + (n + 1) <= m
          BY <1>3, <4>3, <4>4, <4>5
        <4>7. QED BY <2>4, <4>4, <4>5, <4>6
      <3>2. CASE ReadyAt(ops, i) = {}
        <4>1. g = i
          BY <2>6, <3>2 DEF Round
        <4>2. QED BY <2>4, <3>2, <4>1
      <3>3. QED BY <2>8, <3>1, <3>2
    <2>10. QED BY <2>4, <2>7, <2>8, <2>9
  <1> HIDE DEF T
  <1>7. m \in T
    BY <1>3, <1>5, <1>6, SetInduction
  <1>8. Good(m)
    BY <1>3, <1>7 DEF T
  <1>9. PICK g : g = f[m]
    OBVIOUS
  <1>10. g.log = h.log /\ g.applied \subseteq Range(g.log)
    BY <1>8, <1>9 DEF Moved, SameRecords
  <1>11. ReadyAt(ops, g) = {}
    <2>1. CASE Left(m)
      <3>1. /\ IsFiniteSet(Waiting(g)) /\ Cardinality(Waiting(g)) \in Nat
            /\ Cardinality(Waiting(g)) + m <= m
        BY <1>9, <2>1
      <3>2. Cardinality(Waiting(g)) = 0
        BY <1>3, <3>1
      <3>3. Waiting(g) = {}
        BY <3>1, <3>2, FS_EmptySet
      <3>4. QED BY <3>3 DEF Waiting, ReadyAt, Range
    <2>2. QED BY <1>8, <1>9, <2>1
  <1>12. QED BY <1>4, <1>9, <1>10, <1>11 DEF Drained

LEMMA InsertDrains ==
    ASSUME NEW ops, InOrder(ops), NEW h, HistoryOK(ops, h), h.applied \subseteq Range(h.log), NEW k \in 1 .. Len(ops)
    PROVE  Drained(ops, Insert(ops, h, k))
  <1>1. PICK i : i = WithRecord(h, k)
    OBVIOUS
  <1>2. HistoryOK(ops, i) /\ i.applied = h.applied /\ Range(h.log) \subseteq Range(i.log)
    <2>1. HistoryOK(ops, i) /\ i.applied = h.applied /\ i.log = Append(h.log, k)
      BY <1>1, LogTakes
    <2>2. PICK q : q = h.log
      OBVIOUS
    <2>3. q \in Seq(Nat) /\ k \in Nat
      BY <2>2, InOrderFacts DEF HistoryOK, HistoryType
    <2>4. DOMAIN q \subseteq DOMAIN Append(q, k) /\ \A n \in DOMAIN q : Append(q, k)[n] = q[n]
      BY <2>3
    <2>5. Range(q) \subseteq Range(Append(q, k))
      BY <2>4 DEF Range
    <2>6. QED BY <2>1, <2>2, <2>5
  <1>3. i.applied \subseteq Range(i.log)
    BY <1>2
  <1>4. QED BY <1>1, <1>2, <1>3, ApplyReadyDrains DEF Insert, WithRecord

(* A history that does not take part stays drained. *)
LEMMA DrainedStays ==
    ASSUME NEW ops, NEW more, InOrder(ops), Extends(more, ops), NEW h, HistoryOK(ops, h), Drained(ops, h)
    PROVE  Drained(more, h)
  <1>1. \A n \in DOMAIN h.log : more[h.log[n]] = ops[h.log[n]]
    BY DEF HistoryOK, Range, Extends
  <1>2. ReadyAt(more, h) = ReadyAt(ops, h)
    BY <1>1 DEF ReadyAt
  <1>3. QED BY <1>2 DEF Drained

(* A device whose log and applied operations stay. *)
LEMMA DrainKept ==
    ASSUME HistoriesDrained, NEW d \in Devices, NEW g, g.log = history[d].log, g.applied = history[d].applied
    PROVE  Drained(operations, g)
  BY DEF HistoriesDrained, Drained, ReadyAt

LEMMA DrainSteps ==
    ASSUME ProfileIInv, HistoriesDrained, ProfileNext
    PROVE  HistoriesDrained'
  <1>0. /\ InOrder(operations) /\ history \in [Devices -> HistoryType] /\ StoreTyped
        /\ \A d \in Devices : HistoryOK(operations, history[d]) /\ history[d].applied \subseteq Range(history[d].log)
    BY DomainsOf DEF ProfileIInv, HistoriesOK, HistoriesDrained, Drained
  <1>1. PICK d \in Devices : \/ Pass(d) \/ Interrupt(d)
                             \/ \E s \in Settings : Prepare(d, s) \/ \E v \in SettingValues : ChangeSetting(d, s, v)
                             \/ \E v \in SettingValues : Accept(d, v)
    BY DEF ProfileNext
  <1>2. CASE UNCHANGED <<operations, history>>
    BY <1>2 DEF HistoriesDrained
  <1>3. ASSUME NEW g, history' = [history EXCEPT ![d] = g], Drained(operations, g), UNCHANGED operations
        PROVE  HistoriesDrained'
    <2>1. \A x \in Devices : history'[x] = IF x = d THEN g ELSE history[x]
      BY <1>0, <1>3
    <2>2. QED BY <1>3, <2>1 DEF HistoriesDrained
  <1>4. CASE Import(d)
    <2>1. PICK k \in 1 .. Len(operations) : k = observed[d][copied[d] + 1]
      <3>1. observed[d] \in Seq(Nat) /\ copied[d] \in Nat /\ Len(observed[d]) \in Nat
        BY DEF ProfileIInv, DriveOK
      <3>2. copied[d] + 1 \in DOMAIN observed[d]
        BY <1>4, <3>1 DEF Import
      <3>3. QED BY <3>2 DEF ProfileIInv, DriveOK
    <2>2. Drained(operations, ImportRecord(operations, history[d], k))
      BY <1>0, ApplyReadyDrains, InsertDrains DEF ImportRecord
    <2>3. history' = [history EXCEPT ![d] = ImportRecord(operations, history[d], k)] /\ UNCHANGED operations
      BY <1>0, <1>4, <2>1 DEF Import
    <2>4. QED BY <1>3, <2>2, <2>3
  <1>5. CASE AdmitChange(d) /\ ~UNCHANGED <<operations, history>>
    <2>1. job[d].at = "admit" /\ operations' = Edit(d, pending[d]).ops
          /\ history' = [history EXCEPT ![d] = Edit(d, pending[d]).history]
      BY <1>5 DEF AdmitChange, historyVars
    <2>2. PICK p \in OnTheWay(d) : p = pending[d]
      BY <2>1, PendingIs
    <2>3. CASE OwnOperation(d, p) # {}
      <3>1. Edit(d, p).ops = operations /\ Edit(d, p).history = history[d]
        BY <2>3 DEF Edit
      <3>2. QED BY <1>0, <1>5, <2>1, <2>2, <3>1
    <2>4. CASE OwnOperation(d, p) = {}
      <3>1. PICK ops, g, k : /\ ops = Edit(d, p).ops /\ g = Edit(d, p).history
                             /\ k = Edit(d, p).operation /\ Answers(d, p, ops, g, k)
        BY EditAnswers
      <3>2. g = Insert(ops, history[d], k) /\ k = Len(operations) + 1 /\ Len(ops) = Len(operations) + 1
        <4>1. PICK op : op = [device |-> d, request |-> p.request, parents |-> history[d].heads,
                              changes |-> [s \in {p.setting} |-> p.value]]
          OBVIOUS
        <4>2. Edit(d, p) = [ops |-> Append(operations, op),
                            history |-> Insert(Append(operations, op), history[d], Len(operations) + 1),
                            operation |-> Len(operations) + 1]
          BY <2>4, <4>1 DEF Edit
        <4>3. Len(Append(operations, op)) = Len(operations) + 1
          BY <1>0 DEF InOrder
        <4>4. QED BY <3>1, <4>2, <4>3
      <3>3. Extends(ops, operations) /\ InOrder(ops) /\ k \in 1 .. Len(ops)
        BY <1>0, <3>1, <3>2, InOrderFacts DEF Answers
      <3>4. Drained(ops, g)
        <4>1. HistoryOK(ops, history[d])
          BY <1>0, <3>3, HistoryStays
        <4>2. QED BY <1>0, <3>2, <3>3, <4>1, InsertDrains
      <3>5. \A x \in Devices : Drained(ops, history[x])
        BY <1>0, <3>3, DrainedStays DEF HistoriesDrained
      <3>6. operations' = ops /\ \A x \in Devices : history'[x] = IF x = d THEN g ELSE history[x]
        BY <1>0, <2>1, <2>2, <3>1
      <3>7. QED BY <3>4, <3>5, <3>6 DEF HistoriesDrained
    <2>5. QED BY <2>3, <2>4
  <1>6. CASE (Reserve(d) \/ Confirm(d)) /\ ~UNCHANGED <<operations, history>>
    <2>1. UNCHANGED operations
      BY <1>6 DEF Reserve, Confirm
    <2>2. PICK g : history' = [history EXCEPT ![d] = g] /\ g.log = history[d].log /\ g.applied = history[d].applied
      <3>0. history[d] \in HistoryType
        BY <1>0
      <3>1. CASE Reserve(d)
        <4>1. PICK f : history' = [history EXCEPT ![d].files = Append(@, f), ![d].revision = @ + 1]
          BY <1>6, <3>1 DEF Reserve
        <4>2. history' = [history EXCEPT ![d] = [history[d] EXCEPT !.files = Append(history[d].files, f),
                                                                !.revision = history[d].revision + 1]]
          BY <1>0, <4>1
        <4>3. PICK g : g = [history[d] EXCEPT !.files = Append(history[d].files, f),
                                              !.revision = history[d].revision + 1]
          OBVIOUS
        <4>4. g.log = history[d].log /\ g.applied = history[d].applied
          BY <3>0, <4>3 DEF HistoryType
        <4>5. QED BY <4>2, <4>3, <4>4
      <3>2. CASE Confirm(d)
        <4>1. PICK g : g = [history[d] EXCEPT !.uploaded = history[d].uploaded \union {NextUpload(d)},
                                              !.revision = history[d].revision + 1]
          OBVIOUS
        <4>2. history' = [history EXCEPT ![d] = g]
          BY <1>0, <3>2, <4>1 DEF Confirm
        <4>3. g.log = history[d].log /\ g.applied = history[d].applied
          BY <3>0, <4>1 DEF HistoryType
        <4>4. QED BY <4>2, <4>3
      <3>3. QED BY <1>6, <3>1, <3>2
    <2>3. QED BY <1>3, <2>1, <2>2, DrainKept
  <1>7. \/ UNCHANGED <<operations, history>> \/ Import(d)
        \/ AdmitChange(d) \/ Reserve(d) \/ Confirm(d)
    BY <1>1 DEF Pass, StartPass, Capture, Recheck, AcknowledgeChange, DeferChange, Discover, Checkpoint, Drain,
                ApplyObservation, Upload, FinishPass, Interrupt, Prepare, ChangeSetting, Accept, historyVars
  <1>8. QED BY <1>2, <1>4, <1>5, <1>6, <1>7

LEMMA DrainStarts ==
    ASSUME ProfileInit
    PROVE  HistoriesDrained
  <1>1. ProfileIInv
    BY ProfileStarts
  <1>2. PICK ops, h : /\ ops = operations
                      /\ h = [log |-> <<1>>, applied |-> {}, heads |-> {}, versions |-> [s \in Settings |-> {}],
                              changed |-> [s \in Settings |-> 0], revision |-> 1, files |-> <<>>, uploaded |-> {1}]
    OBVIOUS
  <1>3. history = [d \in Devices |-> ApplyReady(ops, h)] /\ Len(ops) = 1
    BY <1>2 DEF ProfileInit
  <1>4. InOrder(ops) /\ h.applied = {}
    BY <1>1, <1>2 DEF ProfileIInv, HistoriesOK
  <1>5. HistoryOK(ops, h)
    <2>1. /\ h \in HistoryType /\ h.log = <<1>> /\ h.heads = {} /\ h.revision = 1 /\ h.files = <<>>
          /\ \A s \in Settings : h.versions[s] = {} /\ h.changed[s] = 0
      BY <1>2 DEF HistoryType
    <2>2. Range(h.log) = {1} /\ DOMAIN h.files = {}
      BY <2>1 DEF Range
    <2>3. QED BY <1>3, <1>4, <2>1, <2>2 DEF HistoryOK, Newest, Knows
  <1>6. QED BY <1>2, <1>3, <1>4, <1>5, ApplyReadyDrains DEF HistoriesDrained

(* The records of a device decide what it has applied: an operation is applied *)
(* exactly when the log has it and everything it follows, so nothing waits     *)
(* that could be applied, whatever order the records came in and wherever a    *)
(* pass was stopped.                                                           *)
AppliedIsKnown ==
    \A d \in Devices : history[d].applied = KnownTo(operations, history[d].log)

(* Two devices with the same records have applied the same operations and      *)
(* show the same versions of every setting.                                    *)
SameRecordsSameVersions ==
    \A d, e \in Devices : Range(history[d].log) = Range(history[e].log) =>
        /\ history[d].applied = history[e].applied
        /\ \A s \in Settings : history[d].versions[s] = history[e].versions[s]

LEMMA DrainHolds == ProfileSpec => [](ProfileIInv /\ HistoriesDrained)
  <1>1. ProfileInit => ProfileIInv /\ HistoriesDrained
    BY ProfileStarts, DrainStarts
  <1>2. UNCHANGED profileVars => UNCHANGED <<operations, history>>
    BY DEF profileVars, historyVars
  <1>3. HistoriesDrained /\ UNCHANGED <<operations, history>> => HistoriesDrained'
    BY DEF HistoriesDrained
  <1>4. ProfileIInv /\ HistoriesDrained /\ [ProfileNext]_profileVars => ProfileIInv' /\ HistoriesDrained'
    BY <1>2, <1>3, ProfileKeeps, ProfileStutters, DrainSteps
  <1>5. QED BY <1>1, <1>4, PTL DEF ProfileSpec

(* On every device, in every run, an operation is applied exactly when the log  *)
(* has it and everything it follows: however records arrive, ApplyReady leaves   *)
(* none behind.                                                                 *)
THEOREM AppliedKnown == ProfileSpec => []AppliedIsKnown
  <1>1. ProfileIInv /\ HistoriesDrained => AppliedIsKnown
    BY DomainsOf, DrainedIsKnown DEF ProfileIInv, HistoriesDrained, AppliedIsKnown
  <1>2. QED BY <1>1, DrainHolds, PTL

(* Devices that hold the same records show the same versions: merging depends    *)
(* on what is known, never on the order it came in.                             *)
THEOREM DevicesAgree == ProfileSpec => []SameRecordsSameVersions
  <1>1. ASSUME ProfileIInv, AppliedIsKnown, NEW d \in Devices, NEW e \in Devices,
               Range(history[d].log) = Range(history[e].log)
        PROVE  /\ history[d].applied = history[e].applied
               /\ \A s \in Settings : history[d].versions[s] = history[e].versions[s]
    <2>1. history[d].applied = history[e].applied
      BY <1>1 DEF AppliedIsKnown, KnownTo
    <2>2. \A x \in Devices, s \in Settings :
             history[x].versions[s] = Newest(operations, history[x].applied, s)
      BY <1>1, DomainsOf DEF ProfileIInv, HistoryOK
    <2>3. QED BY <2>1, <2>2
  <1>2. ProfileIInv /\ AppliedIsKnown => SameRecordsSameVersions
    BY <1>1 DEF SameRecordsSameVersions
  <1>3. QED BY <1>2, ProfileHolds, AppliedKnown, PTL
=============================================================================
