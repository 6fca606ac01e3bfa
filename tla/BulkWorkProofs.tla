--------------------------- MODULE BulkWorkProofs ---------------------------
(* Theorems about BulkWork for any messages, accounts and decisions, and for  *)
(* every number of jobs, Undo requests and crashes.                           *)
EXTENDS BulkWork, TLAPS

(* Values, receipts and items *)

LEMMA ValuesAre ==
    /\ \A v \in Values : DOMAIN v \subseteq Fields /\ \A f \in DOMAIN v : v[f] \in BOOLEAN
    /\ \A F \in SUBSET Fields : [F -> BOOLEAN] \subseteq Values
    /\ Nothing \in Values /\ DOMAIN Nothing = {}
    /\ Unchanged \in Receipt
    /\ Unchanged.before = Nothing /\ Unchanged.after = Nothing
BY DEF Values, Nothing, Receipt, Unchanged

LEMMA NoItemIs ==
    /\ NoItem \in Item /\ [NoItem EXCEPT !.status = "queued"] \in Item
    /\ Idle \in Step
    /\ Idle.job = 0 /\ Idle.at = "idle"
BY ValuesAre DEF NoItem, Item, Idle, Step, Statuses, Blocking, Pending, Results

(* An item is changed, and no other. *)
LEMMA BecomeTurns ==
    ASSUME items \in [Jobs -> [Messages -> Item]], NEW j \in Jobs, NEW m \in Messages,
           NEW next \in Item, Become(j, m, next)
    PROVE  /\ items' \in [Jobs -> [Messages -> Item]]
           /\ items'[j][m] = next
           /\ \A k \in Jobs, n \in Messages : k # j \/ n # m => items'[k][n] = items[k][n]
BY DEF Become

LEMMA RenewIs ==
    ASSUME sent \in [Jobs -> [Messages -> 0 .. 2]], took \subseteq Jobs \X Messages,
           NEW j \in Jobs, NEW M, Renew(j, M)
    PROVE  /\ sent' \in [Jobs -> [Messages -> 0 .. 2]]
           /\ took' \subseteq Jobs \X Messages
           /\ \A k \in Jobs, n \in Messages :
                 /\ sent'[k][n] = IF k = j /\ n \in M THEN 0 ELSE sent[k][n]
                 /\ <<k, n>> \in took' <=> <<k, n>> \in took /\ ~(k = j /\ n \in M)
BY DEF Renew

(* What is shown *)

LEMMA ProjectionTyped ==
    ASSUME jobs' \in [Jobs -> [decision : Values, undo : BOOLEAN]],
           items' \in [Jobs -> [Messages -> Item]],
           owner' \in [Messages -> [Fields -> Jobs \cup {0}]],
           OwnersDecide', NEW m \in Messages
    PROVE  Projection(m)' \in Values
<1> DEFINE shown == {g \in Fields : Shows(m, g)'}
<1> DEFINE value(f) == LET j == owner'[m][f] IN
                       IF items'[j][m].undo THEN items'[j][m].receipt.before[f]
                       ELSE jobs'[j].decision[f]
<1>1. Projection(m)' = [f \in shown |-> value(f)] BY DEF Projection
<1>2. ASSUME NEW f \in shown PROVE value(f) \in BOOLEAN
  <2> DEFINE j == owner'[m][f]
  <2>1. j \in Jobs /\ items'[j][m] \in Item /\ jobs'[j].decision \in Values
    BY DEF Shows
  <2>2. items'[j][m].receipt.before \in Values BY <2>1 DEF Item, Receipt
  <2>3. items'[j][m].undo => f \in DOMAIN items'[j][m].receipt.before BY DEF Shows
  <2>4. f \in DOMAIN jobs'[j].decision BY <2>1 DEF OwnersDecide, Shows
  <2>5. QED BY <2>1, <2>2, <2>3, <2>4, ValuesAre
<1>3. shown \in SUBSET Fields OBVIOUS
<1>4. [f \in shown |-> value(f)] \in [shown -> BOOLEAN] BY <1>2
<1> HIDE DEF shown, value
<1>5. QED BY <1>1, <1>3, <1>4, ValuesAre

LEMMA RefreshTypes ==
    ASSUME jobs' \in [Jobs -> [decision : Values, undo : BOOLEAN]],
           items' \in [Jobs -> [Messages -> Item]],
           owner' \in [Messages -> [Fields -> Jobs \cup {0}]],
           OwnersDecide', effects \in [Messages -> Values], NEW M, Refresh(M)
    PROVE  effects' \in [Messages -> Values]
<1>1. \A m \in Messages : Projection(m)' \in Values BY ProjectionTyped
<1>2. QED BY <1>1 DEF Refresh

(* What the projection of a message looks at stays as it is. *)
Shown_Kept(m) ==
    \A f \in Fields :
        LET j == owner[m][f] IN
        /\ owner'[m][f] = j
        /\ j # 0 =>
              /\ jobs'[j] = jobs[j]
              /\ items'[j][m].undo = items[j][m].undo
              /\ items'[j][m].receipt = items[j][m].receipt
              /\ items'[j][m].status \in Pending <=> items[j][m].status \in Pending

LEMMA ProjectionKept ==
    ASSUME NEW m \in Messages, Shown_Kept(m)
    PROVE  Projection(m)' = Projection(m)
<1>1. \A f \in Fields : Shows(m, f)' <=> Shows(m, f) BY DEF Shows, Shown_Kept
<1> DEFINE V(f) == LET j == owner[m][f] IN
                   IF items[j][m].undo THEN items[j][m].receipt.before[f] ELSE jobs[j].decision[f]
<1> DEFINE W(f) == LET j == owner'[m][f] IN
                   IF items'[j][m].undo THEN items'[j][m].receipt.before[f] ELSE jobs'[j].decision[f]
<1>2. ASSUME NEW f \in Fields, Shows(m, f) PROVE W(f) = V(f) BY <1>2 DEF Shows, Shown_Kept
<1>3. {g \in Fields : Shows(m, g)'} = {g \in Fields : Shows(m, g)} BY <1>1
<1>4. Projection(m) = [f \in {g \in Fields : Shows(m, g)} |-> V(f)] BY DEF Projection
<1>5. Projection(m)' = [f \in {g \in Fields : Shows(m, g)'} |-> W(f)] BY DEF Projection
<1> HIDE DEF V, W
<1>6. QED BY <1>2, <1>3, <1>4, <1>5

LEMMA RefreshShows ==
    ASSUME effects \in [Messages -> Values], ProjectionIsShown, NEW M, Refresh(M),
           \A m \in Messages \ M : Shown_Kept(m)
    PROVE  ProjectionIsShown'
<1>1. \A m \in Messages \ M : Projection(m)' = Projection(m) BY ProjectionKept
<1>2. ASSUME NEW m \in Messages PROVE effects'[m] = Projection(m)'
  BY <1>1 DEF Refresh, ProjectionIsShown
<1>3. QED BY <1>2 DEF ProjectionIsShown

LEMMA KeptShows ==
    ASSUME ProjectionIsShown, UNCHANGED effects, \A m \in Messages : Shown_Kept(m)
    PROVE  ProjectionIsShown'
<1>1. \A m \in Messages : Projection(m)' = Projection(m) BY ProjectionKept
<1>2. ASSUME NEW m \in Messages PROVE effects'[m] = Projection(m)'
  BY <1>1 DEF ProjectionIsShown
<1>3. QED BY <1>2 DEF ProjectionIsShown

(* Items and steps that nothing happened to *)

LEMMA ItemKept ==
    ASSUME NEW k \in Jobs, NEW n \in Messages, ItemIsTrue(k, n),
           k > count' => k > count,
           items'[k][n] = items[k][n], sent'[k][n] = sent[k][n],
           <<k, n>> \in took' <=> <<k, n>> \in took
    PROVE  ItemIsTrue(k, n)'
BY DEF ItemIsTrue

LEMMA StepKept ==
    ASSUME NEW k \in Jobs, NEW n \in Messages, StepIsTrue(k, n),
           work'[n] = work[n],
           items'[k][n] = items[k][n], sent'[k][n] = sent[k][n],
           <<k, n>> \in took' <=> <<k, n>> \in took
    PROVE  StepIsTrue(k, n)'
BY DEF StepIsTrue

LEMMA OwnersKept ==
    ASSUME OwnersDecide, owner \in [Messages -> [Fields -> Jobs \cup {0}]],
           UNCHANGED owner, count' = count,
           \A k \in Jobs : jobs'[k].decision = jobs[k].decision,
           \A k \in Jobs, n \in Messages :
               items[k][n].status # "none" => items'[k][n].status # "none"
    PROVE  OwnersDecide'
BY DEF OwnersDecide

(* A step that leaves items, requests and executors alone *)
LEMMA DurableKept ==
    ASSUME HistoryInv, UNCHANGED <<durable, sent, took, work>>, TypeOK'
    PROVE  HistoryInv'
<1>1. \A j \in Jobs, m \in Messages : ItemIsTrue(j, m)' /\ StepIsTrue(j, m)'
  BY ItemKept, StepKept DEF HistoryInv, durable
<1>2. \A m \in Messages : work'[m].job = 0 => work'[m].at = "idle" BY DEF HistoryInv
<1>3. OwnersDecide' BY DEF HistoryInv, OwnersDecide, durable
<1>4. \A m \in Messages : Shown_Kept(m) BY DEF Shown_Kept, durable
<1>5. ProjectionIsShown' BY <1>4, KeptShows DEF HistoryInv, durable
<1>6. QED BY <1>1, <1>2, <1>3, <1>5 DEF HistoryInv

(* A step that changes one item, and at most the executor of its message *)
LEMMA OneItemHolds ==
    ASSUME HistoryInv, NEW j \in Jobs, NEW m \in Messages, NEW next \in Item,
           Become(j, m, next), next.status # "none",
           UNCHANGED <<jobs, count, owner, present, server, touched, undos, crashes>>,
           cache' \in [Messages -> [Fields -> BOOLEAN]],
           sent' \in [Jobs -> [Messages -> 0 .. 2]], took' \subseteq Jobs \X Messages,
           work' \in [Messages -> Step],
           \A k \in Jobs, n \in Messages : k # j \/ n # m =>
               sent'[k][n] = sent[k][n] /\ (<<k, n>> \in took' <=> <<k, n>> \in took),
           \A n \in Messages \ {m} : work'[n] = work[n],
           work'[m].job \in {0, j}, work'[m].job = 0 => work'[m].at = "idle",
           ItemIsTrue(j, m)', StepIsTrue(j, m)',
           \/ Refresh({m})
           \/ /\ UNCHANGED effects
              /\ next.undo = items[j][m].undo /\ next.receipt = items[j][m].receipt
              /\ next.status \in Pending <=> items[j][m].status \in Pending
    PROVE  HistoryInv'
<1>1. /\ items' \in [Jobs -> [Messages -> Item]]
      /\ items'[j][m] = next
      /\ \A k \in Jobs, n \in Messages : k # j \/ n # m => items'[k][n] = items[k][n]
  BY BecomeTurns DEF HistoryInv, TypeOK
<1>2. OwnersDecide' BY <1>1, OwnersKept DEF HistoryInv, TypeOK
<1>3. effects' \in [Messages -> Values]
  BY <1>1, <1>2, RefreshTypes DEF HistoryInv, TypeOK
<1>4. TypeOK' BY <1>1, <1>3 DEF HistoryInv, TypeOK
<1>5. ASSUME NEW k \in Jobs, NEW n \in Messages PROVE ItemIsTrue(k, n)' /\ StepIsTrue(k, n)'
  <2>1. CASE k = j /\ n = m BY <2>1
  <2>2. CASE k # j \/ n # m
    <3>0. /\ items'[k][n] = items[k][n] /\ sent'[k][n] = sent[k][n]
          /\ <<k, n>> \in took' <=> <<k, n>> \in took
          /\ ItemIsTrue(k, n) /\ StepIsTrue(k, n) /\ count' = count
      BY <1>1, <2>2 DEF HistoryInv
    <3>1. ItemIsTrue(k, n)' BY <3>0, ItemKept
    <3>2. CASE n = m
      <4>1. work'[n].job # k BY <2>2, <3>2 DEF Jobs
      <4>2. QED BY <3>1, <4>1 DEF StepIsTrue
    <3>3. CASE n # m
      BY <3>0, <3>1, <3>3, StepKept
    <3>4. QED BY <3>2, <3>3
  <2>3. QED BY <2>1, <2>2
<1>6. \A n \in Messages : work'[n].job = 0 => work'[n].at = "idle" BY DEF HistoryInv
<1>7. \A n \in Messages \ {m} : Shown_Kept(n)
  BY <1>1 DEF Shown_Kept, HistoryInv, TypeOK
<1>8. ProjectionIsShown'
  <2>1. CASE Refresh({m}) BY <2>1, <1>7, RefreshShows DEF HistoryInv, TypeOK
  <2>2. CASE ~Refresh({m})
    <3>1. Shown_Kept(m) BY <1>1, <2>2, SMTT(30) DEF Shown_Kept, HistoryInv, TypeOK
    <3>2. QED BY <1>7, <2>2, <3>1, KeptShows DEF HistoryInv
  <2>3. QED BY <2>1, <2>2
<1>9. QED BY <1>2, <1>4, <1>5, <1>6, <1>8 DEF HistoryInv

(* A step that changes the executor of one message *)
LEMMA OneStepHolds ==
    ASSUME HistoryInv, NEW j \in Jobs, NEW m \in Messages, work[m].job = j,
           UNCHANGED <<durable, present, touched, undos, crashes>>,
           cache' \in [Messages -> [Fields -> BOOLEAN]],
           server' \in [Messages -> [Fields -> BOOLEAN]],
           sent' \in [Jobs -> [Messages -> 0 .. 2]], took' \subseteq Jobs \X Messages,
           work' \in [Messages -> Step],
           \A k \in Jobs, n \in Messages : k # j \/ n # m =>
               sent'[k][n] = sent[k][n] /\ (<<k, n>> \in took' <=> <<k, n>> \in took),
           \A n \in Messages \ {m} : work'[n] = work[n],
           work'[m].job \in {0, j}, work'[m].job = 0 => work'[m].at = "idle",
           ItemIsTrue(j, m)', StepIsTrue(j, m)'
    PROVE  HistoryInv'
<1>1. TypeOK' BY DEF HistoryInv, TypeOK, durable
<1>2. ASSUME NEW k \in Jobs, NEW n \in Messages PROVE ItemIsTrue(k, n)' /\ StepIsTrue(k, n)'
  <2>0. UNCHANGED <<items, count>> BY DEF durable
  <2>1. CASE k = j /\ n = m BY <2>1
  <2>2. CASE k # j \/ n # m
    <3>1. ItemIsTrue(k, n)' BY <2>0, <2>2, ItemKept DEF HistoryInv
    <3>2. CASE n = m
      <4>1. work'[n].job # k BY <2>2, <3>2 DEF Jobs
      <4>2. QED BY <3>1, <4>1 DEF StepIsTrue
    <3>3. CASE n # m
      BY <2>0, <2>2, <3>1, <3>3, StepKept DEF HistoryInv
    <3>4. QED BY <3>2, <3>3
  <2>3. QED BY <2>1, <2>2
<1>3. \A n \in Messages : work'[n].job = 0 => work'[n].at = "idle" BY DEF HistoryInv
<1>4. OwnersDecide' BY DEF HistoryInv, OwnersDecide, durable
<1>5. \A n \in Messages : Shown_Kept(n) BY DEF Shown_Kept, durable
<1>6. ProjectionIsShown' BY <1>5, KeptShows DEF HistoryInv, durable
<1>7. QED BY <1>1, <1>2, <1>3, <1>4, <1>6 DEF HistoryInv

(* The places of an executor *)
LEMMA WorkerIs ==
    ASSUME HistoryInv, NEW m \in Messages, work[m].at # "idle"
    PROVE  work[m].job \in Jobs /\ work[m] \in Step
BY DEF HistoryInv, TypeOK, Step

LEMMA ClaimKeeps ==
    ASSUME HistoryInv, NEW j \in Jobs, NEW m \in Messages, Claim(j, m)
    PROVE  HistoryInv'
<1> DEFINE i == items[j][m]
<1>1. /\ i \in Item /\ i.status = "queued" /\ work[m] = Idle
  BY DEF Claim, Ready, Occupied, HistoryInv, TypeOK
<1>2. ItemIsTrue(j, m) BY DEF HistoryInv
<1>3. CASE Prepared(j, m)
  <2> DEFINE next == [i EXCEPT !.status = "running"]
  <2>1. next \in Item /\ Become(j, m, next) BY <1>1, <1>3 DEF Claim, Mark, Item, Statuses, Blocking, Pending
  <2>a. [Idle EXCEPT !.job = j, !.at = "claimed"] \in Step BY NoItemIs DEF Step
  <2>2. /\ work'[m] = [Idle EXCEPT !.job = j, !.at = "claimed"]
        /\ \A n \in Messages \ {m} : work'[n] = work[n]
        /\ work' \in [Messages -> Step]
    BY <1>3, <2>a DEF Claim, HistoryInv, TypeOK
  <2>3. work'[m].job = j /\ work'[m].at = "claimed" BY <2>2 DEF Idle
  <2>4. items'[j][m] = next BY <2>1, BecomeTurns DEF HistoryInv, TypeOK
  <2>5. next.status = "running" /\ next.undo = i.undo /\ next.receipt = i.receipt /\ next.ack = i.ack
    BY <1>1 DEF Item
  <2> HIDE DEF next, i
  <2>6. ItemIsTrue(j, m)' BY <1>1, <1>2, <2>4, <2>5 DEF ItemIsTrue, Claim, i
  <2>7. StepIsTrue(j, m)' BY <1>1, <1>2, <2>3, <2>4, <2>5 DEF StepIsTrue, ItemIsTrue, Claim, i
  <2>8. /\ UNCHANGED <<jobs, count, owner, cache, present, server, sent, took, touched, undos, crashes>>
        /\ UNCHANGED effects
    BY <1>3 DEF Claim
  <2>9. /\ UNCHANGED effects
        /\ next.undo = items[j][m].undo /\ next.receipt = items[j][m].receipt
        /\ next.status \in Pending <=> items[j][m].status \in Pending
    BY <1>1, <2>5, <2>8 DEF Pending, i
  <2>10. next.status # "none" /\ work'[m].job \in {0, j} /\ work'[m].job # 0
    BY <2>3, <2>5 DEF Jobs
  <2>11. /\ cache' \in [Messages -> [Fields -> BOOLEAN]]
         /\ sent' \in [Jobs -> [Messages -> 0 .. 2]] /\ took' \subseteq Jobs \X Messages
    BY <2>8 DEF HistoryInv, TypeOK
  <2>12. QED
    BY <2>1, <2>2, <2>6, <2>7, <2>8, <2>9, <2>10, <2>11, OneItemHolds
<1>4. CASE ~Prepared(j, m)
  <2> DEFINE next == [i EXCEPT !.status = "failed"]
  <2>1. next \in Item /\ Become(j, m, next) BY <1>1, <1>4 DEF Claim, Mark, Item, Statuses, Blocking, Pending
  <2>2. UNCHANGED work /\ work[m].job = 0 /\ work[m].at = "idle" BY <1>1, <1>4, NoItemIs DEF Claim
  <2>4. items'[j][m] = next BY <2>1, BecomeTurns DEF HistoryInv, TypeOK
  <2>5. next.status = "failed" /\ next.undo = i.undo /\ next.receipt = i.receipt /\ next.ack = i.ack
    BY <1>1 DEF Item
  <2> HIDE DEF next, i
  <2>6. ItemIsTrue(j, m)' BY <1>1, <1>2, <2>4, <2>5 DEF ItemIsTrue, Claim, i
  <2>7. StepIsTrue(j, m)' BY <2>2 DEF StepIsTrue, Jobs
  <2>8. /\ UNCHANGED <<jobs, count, owner, cache, present, server, sent, took, touched, undos, crashes>>
        /\ Refresh({m})
    BY <1>4 DEF Claim
  <2>10. QED
    BY <2>1, <2>2, <2>5, <2>6, <2>7, <2>8, OneItemHolds DEF HistoryInv, TypeOK
<1>5. QED BY <1>3, <1>4

(* What an admission does to the items and owners. *)
Admits(S, d, j) ==
    /\ j \in Jobs /\ count' = j /\ d \in Values
    /\ \A n \in Messages : ItemIsTrue(j, n) /\ items[j][n].status = "none"
    /\ UNCHANGED <<cache, present, server, work, sent, took, touched, undos, crashes>>
    /\ jobs' \in [Jobs -> [decision : Values, undo : BOOLEAN]]
    /\ \A k \in Jobs \ {j} : jobs'[k] = jobs[k]
    /\ jobs'[j].decision = d
    /\ \A k \in Jobs, n \in Messages :
          \/ items'[k][n] = items[k][n] /\ ~(k = j /\ n \in S)
          \/ k = j /\ n \in S /\ items'[k][n] = [NoItem EXCEPT !.status = "queued"]
          \/ /\ k # j /\ n \in S /\ items[k][n].status = "queued"
             /\ items'[k][n] = [items[k][n] EXCEPT !.status = "cancelled"]
    /\ items' \in [Jobs -> [Messages -> Item]]
    /\ owner' \in [Messages -> [Fields -> Jobs \cup {0}]]
    /\ \A m \in Messages, f \in Fields :
          owner'[m][f] = IF m \in S /\ f \in DOMAIN d THEN j ELSE owner[m][f]

LEMMA AdmitIs ==
    ASSUME HistoryInv, NEW S \in SUBSET Messages, NEW d \in Decisions, Admit(S, d),
           NEW j, j = count + 1
    PROVE  Admits(S, d, j)
<1>1. j \in Jobs /\ count' = j /\ d \in Values
  BY BulkAssumption DEF Admit, Jobs, HistoryInv, TypeOK
<1>2. \A n \in Messages : ItemIsTrue(j, n) /\ items[j][n].status = "none"
  <2>1. \A n \in Messages : ItemIsTrue(j, n) BY <1>1 DEF HistoryInv
  <2>2. j > count BY DEF HistoryInv, TypeOK
  <2>3. QED BY <2>1, <2>2 DEF ItemIsTrue
<1>3. /\ UNCHANGED <<cache, present, server, work, sent, took, touched, undos, crashes>>
      /\ jobs' \in [Jobs -> [decision : Values, undo : BOOLEAN]]
      /\ \A k \in Jobs \ {j} : jobs'[k] = jobs[k]
      /\ jobs'[j].decision = d
  BY <1>1 DEF Admit, HistoryInv, TypeOK
<1>4. \A k \in Jobs, n \in Messages : items'[k][n] =
          IF n \notin S THEN items[k][n]
          ELSE IF k = j THEN [NoItem EXCEPT !.status = "queued"]
          ELSE IF items[k][n].status = "queued" /\ Owned(k, n) \subseteq DOMAIN d
               THEN [items[k][n] EXCEPT !.status = "cancelled"]
          ELSE items[k][n]
  BY <1>1 DEF Admit, Admitted
<1>5. ASSUME NEW k \in Jobs, NEW n \in Messages
      PROVE  /\ items'[k][n] \in Item
             /\ \/ items'[k][n] = items[k][n] /\ ~(k = j /\ n \in S)
                \/ k = j /\ n \in S /\ items'[k][n] = [NoItem EXCEPT !.status = "queued"]
                \/ /\ k # j /\ n \in S /\ items[k][n].status = "queued"
                   /\ items'[k][n] = [items[k][n] EXCEPT !.status = "cancelled"]
  <2>1. items[k][n] \in Item BY DEF HistoryInv, TypeOK
  <2>2. [items[k][n] EXCEPT !.status = "cancelled"] \in Item BY <2>1 DEF Item, Statuses
  <2>3. QED BY <1>4, <2>1, <2>2, NoItemIs
<1>6. items' \in [Jobs -> [Messages -> Item]]
  <2>1. items' = [k \in Jobs |-> [n \in Messages |-> items'[k][n]]]
    BY DEF Admit, Admitted
  <2>2. [k \in Jobs |-> [n \in Messages |-> items'[k][n]]] \in [Jobs -> [Messages -> Item]]
    BY <1>5
  <2>3. QED BY <2>1, <2>2
<1>7. /\ owner' \in [Messages -> [Fields -> Jobs \cup {0}]]
      /\ \A m \in Messages, f \in Fields :
            owner'[m][f] = IF m \in S /\ f \in DOMAIN d THEN j ELSE owner[m][f]
  BY <1>1 DEF Admit, HistoryInv, TypeOK
<1>8. QED BY <1>1, <1>2, <1>3, <1>5, <1>6, <1>7 DEF Admits

LEMMA AdmitKeeps ==
    ASSUME HistoryInv, NEW S \in SUBSET Messages, NEW d \in Decisions, Admit(S, d)
    PROVE  HistoryInv'
<1>0. PICK j : j = count + 1 OBVIOUS
<1>a. Admits(S, d, j) BY <1>0, AdmitIs
<1>1. j \in Jobs /\ count' = j /\ d \in Values BY <1>a DEF Admits
<1>2. \A n \in Messages : ItemIsTrue(j, n) /\ items[j][n].status = "none" BY <1>a DEF Admits
<1>3. /\ UNCHANGED <<cache, present, server, work, sent, took, touched, undos, crashes>>
      /\ jobs' \in [Jobs -> [decision : Values, undo : BOOLEAN]]
      /\ \A k \in Jobs \ {j} : jobs'[k] = jobs[k]
      /\ jobs'[j].decision = d
  BY <1>a DEF Admits
<1>5. \A k \in Jobs, n \in Messages :
          \/ items'[k][n] = items[k][n] /\ ~(k = j /\ n \in S)
          \/ k = j /\ n \in S /\ items'[k][n] = [NoItem EXCEPT !.status = "queued"]
          \/ /\ k # j /\ n \in S /\ items[k][n].status = "queued"
             /\ items'[k][n] = [items[k][n] EXCEPT !.status = "cancelled"]
  BY <1>a DEF Admits
<1>6. items' \in [Jobs -> [Messages -> Item]] BY <1>a DEF Admits
<1>7. /\ owner' \in [Messages -> [Fields -> Jobs \cup {0}]]
      /\ \A m \in Messages, f \in Fields :
            owner'[m][f] = IF m \in S /\ f \in DOMAIN d THEN j ELSE owner[m][f]
  BY <1>a DEF Admits
<1>8. OwnersDecide'
  <2> SUFFICES ASSUME NEW m \in Messages, NEW f \in Fields, owner'[m][f] # 0
               PROVE  LET k == owner'[m][f] IN
                      /\ k <= count' /\ f \in DOMAIN jobs'[k].decision
                      /\ items'[k][m].status # "none"
    BY DEF OwnersDecide
  <2>1. CASE m \in S /\ f \in DOMAIN d
    <3>1. items'[j][m] = [NoItem EXCEPT !.status = "queued"] BY <1>1, <1>5, <2>1
    <3>2. items'[j][m].status = "queued" BY <3>1 DEF NoItem
    <3>3. owner'[m][f] = j BY <1>7, <2>1
    <3>4. j <= j BY <1>1 DEF Jobs
    <3>5. QED BY <1>1, <1>3, <2>1, <3>2, <3>3, <3>4
  <2>2. CASE ~(m \in S /\ f \in DOMAIN d)
    <3>1. owner'[m][f] = owner[m][f] BY <1>7, <2>2
    <3>2. PICK k \in Jobs : k = owner[m][f] BY <3>1 DEF HistoryInv, TypeOK
    <3>3. /\ k <= count /\ f \in DOMAIN jobs[k].decision /\ items[k][m].status # "none"
      BY <3>1, <3>2 DEF HistoryInv, OwnersDecide, Jobs
    <3>4. k # j /\ k <= j BY <1>0, <3>3 DEF HistoryInv, TypeOK, Jobs
    <3>5. items[k][m] \in Item BY DEF HistoryInv, TypeOK
    <3>6. items'[k][m].status # "none"
      <4>1. [items[k][m] EXCEPT !.status = "cancelled"].status = "cancelled" BY <3>5 DEF Item
      <4>2. QED BY <1>5, <3>3, <3>4, <4>1
    <3>7. QED BY <1>1, <1>3, <3>1, <3>2, <3>3, <3>4, <3>6
  <2>3. QED BY <2>1, <2>2
<1>9. effects' \in [Messages -> Values]
  BY <1>3, <1>6, <1>7, <1>8, RefreshTypes DEF Admit, HistoryInv, TypeOK
<1>10. TypeOK' BY <1>0, <1>1, <1>3, <1>6, <1>7, <1>9 DEF HistoryInv, TypeOK, Jobs
<1>11. ASSUME NEW k \in Jobs, NEW n \in Messages PROVE ItemIsTrue(k, n)' /\ StepIsTrue(k, n)'
  <2>0. ItemIsTrue(k, n) /\ StepIsTrue(k, n) /\ items[k][n] \in Item BY DEF HistoryInv, TypeOK
  <2>a. k > count' => k > count BY <1>0, <1>1 DEF HistoryInv, TypeOK, Jobs
  <2>1. CASE items'[k][n] = items[k][n]
    BY <1>3, <2>0, <2>a, <2>1, ItemKept, StepKept
  <2>2. CASE k = j /\ items'[k][n] = [NoItem EXCEPT !.status = "queued"]
    <3>1. /\ items'[k][n].status = "queued" /\ ~items'[k][n].undo
          /\ items'[k][n].ack = Unchanged
      BY <2>2 DEF NoItem
    <3>2. sent'[k][n] = 0 /\ <<k, n>> \notin took' BY <1>2, <1>3, <2>2 DEF ItemIsTrue
    <3>3. ~(k > count') BY <1>1, <2>2 DEF Jobs
    <3>4. ItemIsTrue(k, n)' BY <3>1, <3>2, <3>3 DEF ItemIsTrue
    <3>5. items[k][n].status = "none" BY <1>2, <2>2
    <3>6. work'[n].job # k BY <1>3, <2>0, <3>5 DEF StepIsTrue
    <3>7. QED BY <3>4, <3>6 DEF StepIsTrue
  <2>3. CASE /\ items[k][n].status = "queued"
             /\ items'[k][n] = [items[k][n] EXCEPT !.status = "cancelled"]
    <3>1. items'[k][n].status = "cancelled" /\ items'[k][n].ack = items[k][n].ack
      BY <2>0, <2>3 DEF Item
    <3>2. ItemIsTrue(k, n)' BY <1>3, <2>0, <2>a, <2>3, <3>1 DEF ItemIsTrue
    <3>3. work'[n].job # k BY <1>3, <2>0, <2>3 DEF StepIsTrue
    <3>4. QED BY <3>2, <3>3 DEF StepIsTrue
  <2>4. QED BY <1>5, <2>1, <2>2, <2>3
<1>12. \A n \in Messages : work'[n].job = 0 => work'[n].at = "idle" BY <1>3 DEF HistoryInv
<1>13. ASSUME NEW m \in Messages \ S PROVE Shown_Kept(m)
  <2> SUFFICES ASSUME NEW f \in Fields
               PROVE  LET k == owner[m][f] IN
                      /\ owner'[m][f] = k
                      /\ k # 0 => /\ jobs'[k] = jobs[k] /\ items'[k][m] = items[k][m]
    BY DEF Shown_Kept
  <2>1. owner'[m][f] = owner[m][f] BY <1>7
  <2>2. CASE owner[m][f] # 0
    <3>1. PICK k \in Jobs : k = owner[m][f] BY <2>2 DEF HistoryInv, TypeOK
    <3>2. k <= count BY <2>2, <3>1 DEF HistoryInv, OwnersDecide
    <3>3. k # j BY <1>0, <3>2 DEF HistoryInv, TypeOK, Jobs
    <3>4. items'[k][m] = items[k][m] BY <1>5
    <3>5. QED BY <1>3, <2>1, <3>1, <3>3, <3>4
  <2>3. QED BY <2>1, <2>2
<1>14. ProjectionIsShown' BY <1>13, RefreshShows DEF Admit, HistoryInv, TypeOK
<1>15. QED BY <1>8, <1>10, <1>11, <1>12, <1>14 DEF HistoryInv

(* A decision about all items of a job *)
LEMMA RowHolds ==
    ASSUME HistoryInv, NEW j \in Jobs,
           jobs' \in [Jobs -> [decision : Values, undo : BOOLEAN]],
           \A k \in Jobs : jobs'[k].decision = jobs[k].decision,
           \A k \in Jobs \ {j} : jobs'[k] = jobs[k],
           items' \in [Jobs -> [Messages -> Item]],
           \A k \in Jobs \ {j}, n \in Messages : items'[k][n] = items[k][n],
           \A n \in Messages :
               items[j][n].status = "none" => items'[j][n].status = "none",
           \A n \in Messages :
               items[j][n].status # "none" => items'[j][n].status # "none",
           \A n \in Messages : ItemIsTrue(j, n)' /\ StepIsTrue(j, n)',
           sent' \in [Jobs -> [Messages -> 0 .. 2]], took' \subseteq Jobs \X Messages,
           \A k \in Jobs \ {j}, n \in Messages :
               sent'[k][n] = sent[k][n] /\ (<<k, n>> \in took' <=> <<k, n>> \in took),
           UNCHANGED <<count, owner, cache, present, server, work, touched, crashes>>,
           undos' \in 0 .. MaxUndos, Refresh(Members(j))
    PROVE  HistoryInv'
<1>1. OwnersDecide'
  <2>1. \A k \in Jobs, n \in Messages :
            items[k][n].status # "none" => items'[k][n].status # "none"
    OBVIOUS
  <2>2. QED BY <2>1, OwnersKept DEF HistoryInv, TypeOK
<1>2. effects' \in [Messages -> Values] BY <1>1, RefreshTypes DEF HistoryInv, TypeOK
<1>3. TypeOK' BY <1>2 DEF HistoryInv, TypeOK
<1>4. ASSUME NEW k \in Jobs, NEW n \in Messages PROVE ItemIsTrue(k, n)' /\ StepIsTrue(k, n)'
  <2>1. CASE k = j BY <2>1
  <2>2. CASE k # j
    <3>1. /\ items'[k][n] = items[k][n] /\ sent'[k][n] = sent[k][n] /\ work'[n] = work[n]
          /\ <<k, n>> \in took' <=> <<k, n>> \in took
          /\ ItemIsTrue(k, n) /\ StepIsTrue(k, n) /\ count' = count
      BY <2>2 DEF HistoryInv
    <3>2. QED BY <3>1, ItemKept, StepKept
  <2>3. QED BY <2>1, <2>2
<1>5. \A n \in Messages : work'[n].job = 0 => work'[n].at = "idle" BY DEF HistoryInv
<1>6. ASSUME NEW m \in Messages \ Members(j) PROVE Shown_Kept(m)
  <2>1. items[j][m].status = "none" BY DEF Members
  <2> SUFFICES ASSUME NEW f \in Fields, owner[m][f] # 0
               PROVE  LET k == owner[m][f] IN
                      jobs'[k] = jobs[k] /\ items'[k][m] = items[k][m]
    BY DEF Shown_Kept
  <2>2. PICK k \in Jobs : k = owner[m][f] BY DEF HistoryInv, TypeOK
  <2>3. k # j BY <2>1, <2>2 DEF HistoryInv, OwnersDecide
  <2>4. QED BY <2>2, <2>3
<1>7. ProjectionIsShown' BY <1>6, RefreshShows DEF HistoryInv, TypeOK
<1>8. QED BY <1>1, <1>3, <1>4, <1>5, <1>7 DEF HistoryInv

LEMMA UndoneIs ==
    ASSUME HistoryInv, NEW j \in Jobs, NEW n \in Messages
    PROVE  LET i == items[j][n]
               k == Undone(j, n) IN
           /\ k \in Item
           /\ \/ k = i
              \/ /\ Reversible(i) /\ i.status \in {"done", "failed"}
                 /\ k.status \in {"queued", "cancelled"} /\ k.undo
                 /\ k.receipt = i.receipt /\ k.ack = i.ack
                 /\ k.status = "cancelled" => Owned(j, n) = {}
              \/ /\ i.status = "queued" /\ k.status = "cancelled" /\ k.undo = i.undo
                 /\ k.receipt = i.receipt /\ k.ack = i.ack
                 /\ i.undo => Owned(j, n) = {}
<1> DEFINE i == items[j][n]
           next == IF Reversible(i) THEN [i EXCEPT !.undo = TRUE, !.status = "queued"] ELSE i
           last == [next EXCEPT !.status = "cancelled"]
<1>1. i \in Item BY DEF HistoryInv, TypeOK
<1>2. next \in Item /\ last \in Item BY <1>1 DEF Item, Statuses, Blocking, Pending
<1>3. Undone(j, n) = IF Unsent(j, n, next) THEN last ELSE next BY DEF Undone
<1>4. CASE Reversible(i)
  <2>1. next.status = "queued" /\ next.ack = i.ack /\ next.undo /\ next.receipt = i.receipt
    BY <1>1, <1>4 DEF Item
  <2>2. i.status \in {"done", "failed"} BY <1>4 DEF Reversible
  <2>3. Unsent(j, n, next) => Owned(j, n) = {} BY <2>1 DEF Unsent
  <2> HIDE DEF next
  <2>4. last.status = "cancelled" /\ last.ack = next.ack /\ last.undo = next.undo
        /\ last.receipt = next.receipt
    BY <1>2 DEF Item
  <2> HIDE DEF last
  <2>5. QED BY <1>2, <1>3, <1>4, <2>1, <2>2, <2>3, <2>4
<1>5. CASE ~Reversible(i)
  <2>1. next = i BY <1>5
  <2>2. last.status = "cancelled" /\ last.ack = i.ack /\ last.undo = i.undo
        /\ last.receipt = i.receipt
    BY <1>1, <2>1 DEF Item
  <2>3. Unsent(j, n, next) => i.status = "queued" /\ (i.undo => Owned(j, n) = {})
    BY <2>1 DEF Unsent
  <2> HIDE DEF next, last
  <2>4. QED BY <1>2, <1>3, <2>1, <2>2, <2>3
<1>6. QED BY <1>4, <1>5

LEMMA RequestUndoKeeps ==
    ASSUME HistoryInv, NEW j \in Jobs, RequestUndo(j)
    PROVE  HistoryInv'
<1> DEFINE M == {m \in Messages : items'[j][m].status = "queued" /\ items[j][m].status # "queued"}
<1>1. /\ jobs' \in [Jobs -> [decision : Values, undo : BOOLEAN]]
      /\ \A k \in Jobs : jobs'[k].decision = jobs[k].decision
      /\ \A k \in Jobs \ {j} : jobs'[k] = jobs[k]
      /\ UNCHANGED <<count, owner, cache, present, server, work, touched, crashes>>
      /\ undos' \in 0 .. MaxUndos
      /\ Refresh(Members(j)) /\ Renew(j, M)
  <2>1. jobs' = [jobs EXCEPT ![j].undo = TRUE] BY DEF RequestUndo
  <2>2. /\ jobs' \in [Jobs -> [decision : Values, undo : BOOLEAN]]
        /\ \A k \in Jobs : jobs'[k].decision = jobs[k].decision
        /\ \A k \in Jobs \ {j} : jobs'[k] = jobs[k]
    BY <2>1 DEF HistoryInv, TypeOK
  <2>3. undos' \in 0 .. MaxUndos BY BulkAssumption DEF RequestUndo, HistoryInv, TypeOK
  <2>4. QED BY <2>2, <2>3 DEF RequestUndo
<1>2. /\ sent' \in [Jobs -> [Messages -> 0 .. 2]] /\ took' \subseteq Jobs \X Messages
      /\ \A k \in Jobs, n \in Messages :
            /\ sent'[k][n] = IF k = j /\ n \in M THEN 0 ELSE sent[k][n]
            /\ <<k, n>> \in took' <=> <<k, n>> \in took /\ ~(k = j /\ n \in M)
  <2> HIDE DEF M
  <2>1. QED BY <1>1, RenewIs DEF HistoryInv, TypeOK
<1>3. /\ \A k \in Jobs \ {j}, n \in Messages : items'[k][n] = items[k][n]
      /\ \A n \in Messages : items'[j][n] = Undone(j, n)
  BY DEF RequestUndo, HistoryInv, TypeOK
<1>4. ASSUME NEW n \in Messages
      PROVE  LET i == items[j][n]
                 k == items'[j][n] IN
             /\ k \in Item
             /\ \/ k = i
                \/ /\ i.status \in {"queued", "done", "failed"}
                   /\ k.status \in {"queued", "cancelled"}
                   /\ i.status = "queued" => k.status = "cancelled"
                   /\ k.ack = i.ack
  BY <1>3, UndoneIs
<1>5. items' \in [Jobs -> [Messages -> Item]]
  <2>1. items' = [items EXCEPT ![j] = [m \in Messages |-> Undone(j, m)]] BY DEF RequestUndo
  <2>2. [m \in Messages |-> Undone(j, m)] \in [Messages -> Item] BY <1>3, <1>4
  <2>3. QED BY <2>1, <2>2 DEF HistoryInv, TypeOK
<1>6. ASSUME NEW n \in Messages PROVE ItemIsTrue(j, n)' /\ StepIsTrue(j, n)'
  <2>0. ItemIsTrue(j, n) /\ StepIsTrue(j, n) BY DEF HistoryInv
  <2>1. CASE items'[j][n] = items[j][n]
    <3>1. n \notin M BY <2>1
    <3> HIDE DEF M
    <3>2. QED BY <1>1, <1>2, <2>0, <2>1, <3>1, ItemKept, StepKept
  <2>2. CASE items'[j][n] # items[j][n]
    <3>1. ItemIsTrue(j, n)' BY <1>1, <1>2, <1>4, <2>0, <2>2 DEF ItemIsTrue
    <3>2. work'[n].job # j BY <1>1, <1>4, <2>0, <2>2 DEF StepIsTrue
    <3>3. QED BY <3>1, <3>2 DEF StepIsTrue
  <2>3. QED BY <2>1, <2>2
<1>7. /\ \A n \in Messages : items[j][n].status = "none" => items'[j][n].status = "none"
      /\ \A n \in Messages : items[j][n].status # "none" => items'[j][n].status # "none"
  BY <1>4
<1> HIDE DEF M
<1>8. \A k \in Jobs \ {j}, n \in Messages :
          sent'[k][n] = sent[k][n] /\ (<<k, n>> \in took' <=> <<k, n>> \in took)
  BY <1>2
<1>9. QED BY <1>1, <1>2, <1>3, <1>5, <1>6, <1>7, <1>8, RowHolds

(* Steps that end the wait for an answer *)
LEMMA EndedRow ==
    ASSUME HistoryInv, NEW j \in Jobs,
           items' = [items EXCEPT ![j] = [m \in Messages |-> items'[j][m]]],
           \A n \in Messages :
               \/ items'[j][n] = items[j][n]
               \/ /\ items[j][n].status \in {"running", "uncertain"} /\ work[n].job # j
                  /\ \E status \in {"uncertain", "cancelled"} :
                        items'[j][n] = [items[j][n] EXCEPT !.status = status],
           UNCHANGED <<jobs, count, owner, cache, present, server, work, sent, took, touched,
                       undos, crashes>>,
           Refresh(Members(j))
    PROVE  HistoryInv'
<1>1. ASSUME NEW n \in Messages
      PROVE  /\ items'[j][n] \in Item
             /\ \/ items'[j][n] = items[j][n]
                \/ /\ items[j][n].status \in {"running", "uncertain"} /\ work[n].job # j
                   /\ items'[j][n].status \in {"uncertain", "cancelled"}
                   /\ items'[j][n].ack = items[j][n].ack
  <2>1. items[j][n] \in Item BY DEF HistoryInv, TypeOK
  <2>2. \A status \in {"uncertain", "cancelled"} :
            LET k == [items[j][n] EXCEPT !.status = status] IN
            k \in Item /\ k.status = status /\ k.ack = items[j][n].ack
    BY <2>1 DEF Item, Statuses, Blocking
  <2>3. QED BY <2>1, <2>2
<1>2. items' \in [Jobs -> [Messages -> Item]] BY <1>1, ZenonT(60) DEF HistoryInv, TypeOK
<1>3. \A k \in Jobs \ {j}, n \in Messages : items'[k][n] = items[k][n]
  BY DEF HistoryInv, TypeOK
<1>4. ASSUME NEW n \in Messages PROVE ItemIsTrue(j, n)' /\ StepIsTrue(j, n)'
  <2>0. ItemIsTrue(j, n) /\ StepIsTrue(j, n) BY DEF HistoryInv
  <2>1. CASE items'[j][n] = items[j][n] BY <2>0, <2>1, ItemKept, StepKept
  <2>2. CASE items'[j][n] # items[j][n]
    <3>1. ItemIsTrue(j, n)' BY <1>1, <2>0, <2>2 DEF ItemIsTrue
    <3>2. work'[n].job # j BY <1>1, <2>2
    <3>3. QED BY <3>1, <3>2 DEF StepIsTrue
  <2>3. QED BY <2>1, <2>2
<1>5. QED BY <1>1, <1>2, <1>3, <1>4, RowHolds DEF HistoryInv, TypeOK

LEMMA AcceptKeeps ==
    ASSUME HistoryInv, NEW j \in Jobs, AcceptUncertainty(j)
    PROVE  HistoryInv'
<1>1. /\ UNCHANGED <<jobs, count, owner, cache, present, server, work, sent, took, touched,
                     undos, crashes>>
      /\ Refresh(Members(j))
  BY DEF AcceptUncertainty
<1>2. items' = [items EXCEPT ![j] = [m \in Messages |->
                   IF items[j][m].status = "uncertain"
                   THEN [items[j][m] EXCEPT !.status = "cancelled"] ELSE items[j][m]]]
  BY DEF AcceptUncertainty, HistoryInv, TypeOK
<1>3. \A m \in Messages : items'[j][m] =
          IF items[j][m].status = "uncertain"
          THEN [items[j][m] EXCEPT !.status = "cancelled"] ELSE items[j][m]
  BY <1>2 DEF HistoryInv, TypeOK
<1>4. items' = [items EXCEPT ![j] = [m \in Messages |-> items'[j][m]]] BY <1>2, <1>3
<1>5. \A n \in Messages : work[n].job # j BY DEF AcceptUncertainty, Leased
<1>6. QED BY <1>1, <1>3, <1>4, <1>5, EndedRow

LEMMA ResumeKeeps ==
    ASSUME HistoryInv, NEW j \in Jobs, Resume(j)
    PROVE  HistoryInv'
<1>1. /\ UNCHANGED <<jobs, count, owner, cache, present, server, work, sent, took, touched,
                     undos, crashes>>
      /\ Refresh(Members(j))
  BY DEF Resume
<1>2. items' = [items EXCEPT ![j] = [m \in Messages |-> Interrupted(j, m)]] BY DEF Resume
<1>3. \A m \in Messages : items'[j][m] = Interrupted(j, m) BY <1>2 DEF HistoryInv, TypeOK
<1>4. items' = [items EXCEPT ![j] = [m \in Messages |-> items'[j][m]]] BY <1>2, <1>3
<1>5. QED BY <1>1, <1>3, <1>4, EndedRow DEF Interrupted, Orphan

(* The request and its answer *)

LEMMA TargetIs ==
    ASSUME HistoryInv, NEW j \in Jobs, NEW m \in Messages
    PROVE  /\ Wanted(j, m) \in Values
           /\ Target(j, m) \in Values
           /\ DOMAIN Target(j, m) = DOMAIN Wanted(j, m) \cap Owned(j, m)
           /\ \A f \in DOMAIN Target(j, m) : Target(j, m)[f] = Wanted(j, m)[f]
<1>1. items[j][m] \in Item /\ jobs[j].decision \in Values BY DEF HistoryInv, TypeOK
<1>2. Wanted(j, m) \in Values BY <1>1 DEF Wanted, Item, Receipt
<1>3. Target(j, m) = [f \in DOMAIN Wanted(j, m) \cap Owned(j, m) |-> Wanted(j, m)[f]]
  BY DEF Target, Wanted
<1>4. DOMAIN Wanted(j, m) \cap Owned(j, m) \in SUBSET Fields BY DEF Owned
<1>5. Target(j, m) \in [DOMAIN Wanted(j, m) \cap Owned(j, m) -> BOOLEAN]
  BY <1>2, <1>3, ValuesAre
<1>6. QED BY <1>2, <1>3, <1>4, <1>5, ValuesAre

LEMMA ChangeIs ==
    ASSUME HistoryInv, NEW m \in Messages, NEW want \in Values
    PROVE  /\ Change(m, want) \in Receipt
           /\ DOMAIN Change(m, want).before = Differs(m, want)
           /\ DOMAIN Change(m, want).after = Differs(m, want)
           /\ \A f \in Differs(m, want) :
                 /\ f \in DOMAIN want
                 /\ Change(m, want).before[f] = cache[m][f]
                 /\ Change(m, want).after[f] = want[f]
           /\ Differs(m, want) # {} => Change(m, want) # Unchanged
<1>1. Differs(m, want) \in SUBSET Fields BY ValuesAre DEF Differs
<1>2. /\ \A f \in Fields : cache[m][f] \in BOOLEAN
      /\ \A f \in Differs(m, want) : want[f] \in BOOLEAN
  BY ValuesAre DEF HistoryInv, TypeOK, Differs
<1>3. /\ [f \in Differs(m, want) |-> cache[m][f]] \in [Differs(m, want) -> BOOLEAN]
      /\ [f \in Differs(m, want) |-> want[f]] \in [Differs(m, want) -> BOOLEAN]
  BY <1>1, <1>2
<1>4. /\ [f \in Differs(m, want) |-> cache[m][f]] \in Values
      /\ [f \in Differs(m, want) |-> want[f]] \in Values
  BY <1>1, <1>3, ValuesAre
<1>5. Change(m, want) \in Receipt BY <1>4 DEF Change, Receipt
<1>6. /\ DOMAIN Change(m, want).before = Differs(m, want)
      /\ DOMAIN Change(m, want).after = Differs(m, want)
      /\ \A f \in Differs(m, want) : f \in DOMAIN want
            /\ Change(m, want).before[f] = cache[m][f] /\ Change(m, want).after[f] = want[f]
  BY DEF Change, Differs
<1>7. Differs(m, want) # {} => Change(m, want) # Unchanged BY <1>6, ValuesAre
<1>8. QED BY <1>5, <1>6, <1>7

LEMMA AppliedIs ==
    ASSUME NEW values \in [Fields -> BOOLEAN], NEW change \in Receipt
    PROVE  /\ Applied(values, change) \in [Fields -> BOOLEAN]
           /\ \A f \in Fields : Applied(values, change)[f] =
                 IF f \in DOMAIN change.after THEN change.after[f] ELSE values[f]
BY ValuesAre DEF Applied, Receipt

LEMMA AuthorizeKeeps ==
    ASSUME HistoryInv, NEW m \in Messages, Authorize(m)
    PROVE  HistoryInv'
<1>1. PICK j \in Jobs : j = work[m].job BY WorkerIs DEF Authorize
<1>2. /\ StepIsTrue(j, m) /\ ItemIsTrue(j, m) /\ items[j][m] \in Item
      /\ work[m].at = "claimed" /\ work[m] \in Step
  BY <1>1 DEF HistoryInv, Authorize, TypeOK
<1>3. UNCHANGED <<durable, cache, present, server, took, touched, undos, crashes>>
  BY DEF Authorize
<1>4. CASE Outcome(j, m) = "none"
  <2> DEFINE change == Change(m, Target(j, m))
             next == [work[m] EXCEPT !.at = "sending", !.change = change]
  <2>1. change \in Receipt /\ change # Unchanged
    <3>1. Differs(m, Target(j, m)) # {} BY <1>4 DEF Outcome
    <3>2. QED BY <3>1, TargetIs, ChangeIs
  <2>2. next \in Step /\ next.at = "sending" /\ next.change = change /\ next.job = j
    BY <1>1, <1>2, <2>1 DEF Step
  <2>3. /\ work' = [work EXCEPT ![m] = next]
        /\ sent' = [sent EXCEPT ![j][m] = IF sent[j][m] < 2 THEN sent[j][m] + 1 ELSE sent[j][m]]
    BY <1>1, <1>4 DEF Authorize, HistoryInv, TypeOK
  <2> HIDE DEF next, change
  <2>4. /\ work' \in [Messages -> Step] /\ work'[m] = next
        /\ \A n \in Messages \ {m} : work'[n] = work[n]
    BY <2>2, <2>3 DEF HistoryInv, TypeOK
  <2>5. sent[j][m] = 0 BY <1>1, <1>2 DEF StepIsTrue
  <2>6. /\ sent' \in [Jobs -> [Messages -> 0 .. 2]] /\ sent'[j][m] = 1
        /\ \A k \in Jobs, n \in Messages : k # j \/ n # m => sent'[k][n] = sent[k][n]
    BY <2>3, <2>5 DEF HistoryInv, TypeOK
  <2>7. items[j][m].status = "running" BY <1>1, <1>2 DEF StepIsTrue
  <2>8. ItemIsTrue(j, m)' BY <1>2, <1>3, <2>6, <2>7 DEF ItemIsTrue, durable
  <2>9. StepIsTrue(j, m)' BY <1>1, <1>2, <1>3, <2>1, <2>2, <2>4, <2>7 DEF StepIsTrue, durable
  <2>10. /\ cache' \in [Messages -> [Fields -> BOOLEAN]]
         /\ server' \in [Messages -> [Fields -> BOOLEAN]] /\ took' \subseteq Jobs \X Messages
         /\ UNCHANGED <<durable, present, touched, undos, crashes>>
    BY <1>3 DEF HistoryInv, TypeOK
  <2>11. work'[m].job = j /\ j # 0 BY <2>2, <2>4 DEF Jobs
  <2>12. QED BY <1>1, <1>3, <2>4, <2>6, <2>8, <2>9, <2>10, <2>11, OneStepHolds
<1>5. CASE Outcome(j, m) # "none"
  <2> DEFINE next == [work[m] EXCEPT !.at = "result", !.result = Outcome(j, m)]
  <2>1. Outcome(j, m) \in {"refused", "unchanged", "unknown", "superseded"} BY <1>5 DEF Outcome
  <2>2. next \in Step /\ next.at = "result" /\ next.result = Outcome(j, m) /\ next.job = j
    BY <1>1, <1>2, <2>1 DEF Step, Results
  <2>3. work' = [work EXCEPT ![m] = next] /\ sent' = sent
    BY <1>1, <1>5 DEF Authorize, HistoryInv, TypeOK
  <2> HIDE DEF next
  <2>4. /\ work' \in [Messages -> Step] /\ work'[m] = next
        /\ \A n \in Messages \ {m} : work'[n] = work[n]
    BY <2>2, <2>3 DEF HistoryInv, TypeOK
  <2>7. items[j][m].status = "running" BY <1>1, <1>2 DEF StepIsTrue
  <2>8. ItemIsTrue(j, m)' BY <1>2, <1>3, <2>3 DEF ItemIsTrue, durable
  <2>9. StepIsTrue(j, m)' BY <1>1, <1>2, <1>3, <2>1, <2>2, <2>4, <2>7 DEF StepIsTrue, durable
  <2>10. /\ cache' \in [Messages -> [Fields -> BOOLEAN]]
         /\ server' \in [Messages -> [Fields -> BOOLEAN]] /\ took' \subseteq Jobs \X Messages
         /\ sent' \in [Jobs -> [Messages -> 0 .. 2]]
         /\ UNCHANGED <<durable, present, touched, undos, crashes>>
    BY <1>3, <2>3 DEF HistoryInv, TypeOK
  <2>11. work'[m].job = j /\ j # 0 BY <2>2, <2>4 DEF Jobs
  <2>12. QED BY <1>1, <1>3, <2>3, <2>4, <2>8, <2>9, <2>10, <2>11, OneStepHolds
<1>6. QED BY <1>4, <1>5

(* The request is carried out or not, and answered or not. *)
LEMMA ServeIs ==
    ASSUME HistoryInv, NEW m \in Messages, Serve(m)
    PROVE  LET change == work[m].change
               apply == /\ server' = [server EXCEPT ![m] = Applied(@, change)]
                        /\ took' = took \cup {<<work[m].job, m>>}
               leave == UNCHANGED <<server, took>> IN
           /\ work[m].at = "sending" /\ change \in Receipt
           /\ UNCHANGED <<durable, present, sent, touched, undos, crashes>>
           /\ work' \in [Messages -> Step]
           /\ \A n \in Messages \ {m} : work'[n] = work[n]
           /\ work'[m].job = work[m].job /\ work'[m].change = change
           /\ \/ /\ apply /\ work'[m].at = "result" /\ work'[m].result = "ok"
                 /\ "location" \in DOMAIN change.after
                 /\ cache' = [cache EXCEPT ![m] = Applied(@, change)]
              \/ apply /\ work'[m].at = "answered" /\ UNCHANGED cache
              \/ leave /\ work'[m].at = "result" /\ work'[m].result = "refused" /\ UNCHANGED cache
              \/ (apply \/ leave) /\ UNCHANGED cache
                 /\ work'[m].at = "result" /\ work'[m].result = "unknown"
<1>1. work[m] \in Step /\ work \in [Messages -> Step] BY DEF HistoryInv, TypeOK
<1>2. \A r \in {"ok", "refused", "unknown"} :
          LET w == [work EXCEPT ![m].at = "result", ![m].result = r] IN
          /\ w \in [Messages -> Step]
          /\ \A n \in Messages \ {m} : w[n] = work[n]
          /\ w[m].job = work[m].job /\ w[m].change = work[m].change
          /\ w[m].at = "result" /\ w[m].result = r
  <2> TAKE r \in {"ok", "refused", "unknown"}
  <2>1. [work[m] EXCEPT !.at = "result", !.result = r] \in Step BY <1>1 DEF Step, Results
  <2>2. [work EXCEPT ![m].at = "result", ![m].result = r]
           = [work EXCEPT ![m] = [work[m] EXCEPT !.at = "result", !.result = r]]
    BY <1>1
  <2>3. QED BY <1>1, <2>1, <2>2 DEF Step
<1>3. LET w == [work EXCEPT ![m].at = "answered"] IN
          /\ w \in [Messages -> Step]
          /\ \A n \in Messages \ {m} : w[n] = work[n]
          /\ w[m].job = work[m].job /\ w[m].change = work[m].change
          /\ w[m].at = "answered"
  <2>1. [work[m] EXCEPT !.at = "answered"] \in Step BY <1>1 DEF Step
  <2>2. [work EXCEPT ![m].at = "answered"]
           = [work EXCEPT ![m] = [work[m] EXCEPT !.at = "answered"]]
    BY <1>1
  <2>3. QED BY <1>1, <2>1, <2>2 DEF Step
<1>4. work[m].change \in Receipt BY <1>1 DEF Step
<1>5. QED BY <1>2, <1>3, <1>4, ZenonT(60) DEF Serve

LEMMA ServerIs ==
    ASSUME HistoryInv, NEW m \in Messages, NEW change \in Receipt, NEW w, NEW v,
           w \in [Messages -> [Fields -> BOOLEAN]],
           v = [w EXCEPT ![m] = Applied(w[m], change)]
    PROVE  /\ v \in [Messages -> [Fields -> BOOLEAN]]
           /\ \A n \in Messages, f \in Fields : v[n][f] =
                 IF n = m /\ f \in DOMAIN change.after THEN change.after[f] ELSE w[n][f]
BY AppliedIs

LEMMA ServeKeeps ==
    ASSUME HistoryInv, NEW m \in Messages, Serve(m)
    PROVE  HistoryInv'
<1>1. PICK j \in Jobs : j = work[m].job BY WorkerIs DEF Serve
<1>2. StepIsTrue(j, m) /\ ItemIsTrue(j, m) /\ items[j][m] \in Item BY DEF HistoryInv, TypeOK
<1>3. items[j][m].status = "running" /\ work[m].change # Unchanged
  BY <1>1, <1>2, ServeIs DEF StepIsTrue
<1>4. <<j, m>> \notin took BY <1>1, <1>2, ServeIs DEF StepIsTrue
<1>5. /\ server' \in [Messages -> [Fields -> BOOLEAN]]
      /\ cache' \in [Messages -> [Fields -> BOOLEAN]]
      /\ took' \subseteq Jobs \X Messages
      /\ \A k \in Jobs, n \in Messages : k # j \/ n # m =>
             (<<k, n>> \in took' <=> <<k, n>> \in took)
  <2>1. work[m].change \in Receipt BY ServeIs
  <2>2. \/ UNCHANGED server \/ server' = [server EXCEPT ![m] = Applied(@, work[m].change)]
    BY ServeIs
  <2>3. \/ UNCHANGED cache \/ cache' = [cache EXCEPT ![m] = Applied(@, work[m].change)]
    BY ServeIs
  <2>4. UNCHANGED took \/ took' = took \cup {<<j, m>>} BY <1>1, ServeIs
  <2>5. server' \in [Messages -> [Fields -> BOOLEAN]]
    BY <2>1, <2>2, ServerIs DEF HistoryInv, TypeOK
  <2>6. cache' \in [Messages -> [Fields -> BOOLEAN]]
    BY <2>1, <2>3, ServerIs DEF HistoryInv, TypeOK
  <2>7. QED BY <2>4, <2>5, <2>6 DEF HistoryInv, TypeOK
<1>6. UNCHANGED <<durable, present, sent, touched, undos, crashes>> BY ServeIs
<1>7. ItemIsTrue(j, m)' BY <1>2, <1>3, <1>6 DEF ItemIsTrue, durable
<1>8. StepIsTrue(j, m)'
  <2>1. items'[j][m].status = "running" BY <1>3, <1>6 DEF durable
  <2>2. /\ work'[m].at \in {"answered", "result"} /\ work'[m].change = work[m].change
        /\ work'[m].at = "answered" => <<j, m>> \in took'
        /\ work'[m].at = "result" =>
              /\ work'[m].result \in {"ok", "refused", "unknown"}
              /\ work'[m].result = "ok" => <<j, m>> \in took'
              /\ work'[m].result = "refused" => <<j, m>> \notin took'
    BY <1>1, <1>4, ServeIs
  <2>3. QED BY <1>3, <2>1, <2>2 DEF StepIsTrue
<1>9. /\ work' \in [Messages -> Step] /\ work'[m].job = j /\ j # 0
      /\ \A n \in Messages \ {m} : work'[n] = work[n]
  BY <1>1, ServeIs DEF Jobs
<1>10. sent' \in [Jobs -> [Messages -> 0 .. 2]] /\ UNCHANGED sent
  BY <1>6 DEF HistoryInv, TypeOK
<1>11. QED BY <1>1, <1>5, <1>6, <1>7, <1>8, <1>9, <1>10, OneStepHolds

(* The executor of one message reaches another place. *)
LEMMA PlaceIs ==
    ASSUME HistoryInv, NEW m \in Messages, NEW next \in Step, work' = [work EXCEPT ![m] = next]
    PROVE  /\ work' \in [Messages -> Step] /\ work'[m] = next
           /\ \A n \in Messages \ {m} : work'[n] = work[n]
BY DEF HistoryInv, TypeOK

LEMMA AnswerIs ==
    ASSUME HistoryInv, NEW m \in Messages, NEW r \in {"ok", "unknown"},
           work' = [work EXCEPT ![m].at = "result", ![m].result = r]
    PROVE  /\ work' \in [Messages -> Step]
           /\ \A n \in Messages \ {m} : work'[n] = work[n]
           /\ work'[m].job = work[m].job /\ work'[m].change = work[m].change
           /\ work'[m].at = "result" /\ work'[m].result = r
<1> DEFINE next == [work[m] EXCEPT !.at = "result", !.result = r]
<1>1. work[m] \in Step BY DEF HistoryInv, TypeOK
<1>2. /\ next \in Step /\ next.job = work[m].job /\ next.change = work[m].change
      /\ next.at = "result" /\ next.result = r
  BY <1>1 DEF Step, Results
<1>3. work' = [work EXCEPT ![m] = next] BY DEF HistoryInv, TypeOK
<1> HIDE DEF next
<1>4. QED BY <1>2, <1>3, PlaceIs

LEMMA AcknowledgeKeeps ==
    ASSUME HistoryInv, NEW m \in Messages, Acknowledge(m)
    PROVE  HistoryInv'
<1>1. PICK j \in Jobs : j = work[m].job BY WorkerIs DEF Acknowledge
<1>2. /\ StepIsTrue(j, m) /\ ItemIsTrue(j, m) /\ items[j][m] \in Item
      /\ work[m].at = "answered" /\ work[m].change \in Receipt
  BY <1>1 DEF HistoryInv, TypeOK, Acknowledge, Step
<1>3. /\ items[j][m].status = "running" /\ work[m].change # Unchanged /\ <<j, m>> \in took
  BY <1>1, <1>2 DEF StepIsTrue
<1> DEFINE next == [items[j][m] EXCEPT !.status = "repair", !.ack = work[m].change]
<1>4. /\ next \in Item /\ next.status = "repair" /\ next.ack = work[m].change
      /\ next.undo = items[j][m].undo /\ next.receipt = items[j][m].receipt
  BY <1>2 DEF Item, Statuses, Blocking, Pending
<1>5. Become(j, m, next) BY <1>1 DEF Acknowledge
<1> HIDE DEF next
<1>6. items'[j][m] = next BY <1>4, <1>5, BecomeTurns DEF HistoryInv, TypeOK
<1>7. /\ work' \in [Messages -> Step] /\ work'[m].job = j /\ j # 0
      /\ \A n \in Messages \ {m} : work'[n] = work[n]
      /\ work'[m].at = "result" /\ work'[m].result = "ok"
  <2>1. work' = [work EXCEPT ![m].at = "result", ![m].result = "ok"] BY DEF Acknowledge
  <2>2. "ok" \in {"ok", "unknown"} OBVIOUS
  <2>3. /\ work' \in [Messages -> Step]
        /\ \A n \in Messages \ {m} : work'[n] = work[n]
        /\ work'[m].job = work[m].job
        /\ work'[m].at = "result" /\ work'[m].result = "ok"
    BY <2>1, <2>2, AnswerIs
  <2>4. j # 0 BY DEF Jobs
  <2>5. QED BY <1>1, <2>3, <2>4
<1>8. UNCHANGED <<jobs, count, owner, effects, cache, present, server, sent, took, touched,
                  undos, crashes>>
  BY DEF Acknowledge
<1>9. ItemIsTrue(j, m)' BY <1>2, <1>3, <1>4, <1>6, <1>8 DEF ItemIsTrue
<1>10. StepIsTrue(j, m)' BY <1>3, <1>4, <1>6, <1>7, <1>8 DEF StepIsTrue
<1>11. /\ cache' \in [Messages -> [Fields -> BOOLEAN]] /\ next.status # "none"
       /\ sent' \in [Jobs -> [Messages -> 0 .. 2]] /\ took' \subseteq Jobs \X Messages
       /\ next.status \in Pending <=> items[j][m].status \in Pending
  BY <1>3, <1>4, <1>8 DEF HistoryInv, TypeOK, Pending
<1>12. QED BY <1>4, <1>5, <1>7, <1>8, <1>9, <1>10, <1>11, OneItemHolds

LEMMA AcknowledgeFailsKeeps ==
    ASSUME HistoryInv, NEW m \in Messages, AcknowledgeFails(m)
    PROVE  HistoryInv'
<1>1. PICK j \in Jobs : j = work[m].job BY WorkerIs DEF AcknowledgeFails
<1>2. /\ StepIsTrue(j, m) /\ ItemIsTrue(j, m) /\ work[m].at = "answered"
      /\ UNCHANGED <<durable, cache, present, server, sent, took, touched, undos, crashes>>
  BY <1>1 DEF HistoryInv, AcknowledgeFails
<1>3. /\ items[j][m].status = "running" /\ <<j, m>> \in took
  BY <1>1, <1>2 DEF StepIsTrue
<1>4. /\ work' \in [Messages -> Step] /\ work'[m].job = j /\ j # 0
      /\ \A n \in Messages \ {m} : work'[n] = work[n]
      /\ work'[m].at = "result" /\ work'[m].result = "unknown"
  <2>1. work' = [work EXCEPT ![m].at = "result", ![m].result = "unknown"]
    BY DEF AcknowledgeFails
  <2>2. "unknown" \in {"ok", "unknown"} OBVIOUS
  <2>3. /\ work' \in [Messages -> Step]
        /\ \A n \in Messages \ {m} : work'[n] = work[n]
        /\ work'[m].job = work[m].job
        /\ work'[m].at = "result" /\ work'[m].result = "unknown"
    BY <2>1, <2>2, AnswerIs
  <2>4. j # 0 BY DEF Jobs
  <2>5. QED BY <1>1, <2>3, <2>4
<1>5. ItemIsTrue(j, m)' BY <1>2 DEF ItemIsTrue, durable
<1>6. StepIsTrue(j, m)' BY <1>2, <1>3, <1>4 DEF StepIsTrue, durable
<1>7. /\ cache' \in [Messages -> [Fields -> BOOLEAN]]
      /\ server' \in [Messages -> [Fields -> BOOLEAN]] /\ took' \subseteq Jobs \X Messages
      /\ sent' \in [Jobs -> [Messages -> 0 .. 2]]
  BY <1>2 DEF HistoryInv, TypeOK
<1>8. QED BY <1>1, <1>2, <1>4, <1>5, <1>6, <1>7, OneStepHolds

LEMMA FinishFailsKeeps ==
    ASSUME HistoryInv, NEW m \in Messages, FinishFails(m)
    PROVE  HistoryInv'
<1>1. PICK j \in Jobs : j = work[m].job BY WorkerIs DEF FinishFails
<1>2. /\ ItemIsTrue(j, m)
      /\ UNCHANGED <<durable, cache, present, server, sent, took, touched, undos, crashes>>
      /\ work' = [work EXCEPT ![m] = Idle]
  BY DEF HistoryInv, FinishFails
<1>3. /\ work' \in [Messages -> Step] /\ work'[m].job = 0 /\ work'[m].at = "idle"
      /\ \A n \in Messages \ {m} : work'[n] = work[n]
  BY <1>2, NoItemIs, PlaceIs
<1>4. ItemIsTrue(j, m)' BY <1>2 DEF ItemIsTrue, durable
<1>5. StepIsTrue(j, m)' BY <1>3 DEF StepIsTrue, Jobs
<1>6. /\ cache' \in [Messages -> [Fields -> BOOLEAN]]
      /\ server' \in [Messages -> [Fields -> BOOLEAN]] /\ took' \subseteq Jobs \X Messages
      /\ sent' \in [Jobs -> [Messages -> 0 .. 2]]
  BY <1>2 DEF HistoryInv, TypeOK
<1>7. QED BY <1>1, <1>2, <1>3, <1>4, <1>5, <1>6, OneStepHolds

(* What finishing makes of an item *)
LEMMA DoneIs ==
    ASSUME HistoryInv, NEW j \in Jobs, NEW m \in Messages, NEW receipt \in Receipt
    PROVE  LET i == items[j][m]
               k == Done(j, m, receipt) IN
           /\ k \in Item /\ k.ack = Unchanged
           /\ k.receipt = IF i.undo THEN i.receipt ELSE receipt
           /\ k.undo = (i.undo \/ jobs[j].undo)
           /\ k.undo \/ k.receipt = receipt
           /\ k.status = IF ~i.undo /\ jobs[j].undo THEN "queued" ELSE "done"
<1>1. items[j][m] \in Item /\ jobs[j].undo \in BOOLEAN BY DEF HistoryInv, TypeOK
<1>2. items[j][m].undo \in BOOLEAN BY <1>1 DEF Item
<1>3. (items[j][m].undo \/ jobs[j].undo) \in BOOLEAN BY <1>1, <1>2
<1>4. QED BY <1>1, <1>2, <1>3, ValuesAre DEF Done, Item, Statuses, Blocking, Pending

LEMMA FailedIs ==
    ASSUME HistoryInv, NEW j \in Jobs, NEW m \in Messages, NEW unknown \in BOOLEAN
    PROVE  LET i == items[j][m]
               k == Failed(j, m, unknown) IN
           /\ k \in Item /\ k.ack = i.ack /\ k.receipt = i.receipt /\ k.undo = i.undo
           /\ k.status = IF unknown THEN "uncertain"
                         ELSE IF ~i.undo /\ jobs[j].undo THEN "cancelled" ELSE "failed"
<1>1. items[j][m] \in Item /\ jobs[j].undo \in BOOLEAN BY DEF HistoryInv, TypeOK
<1>2. QED BY <1>1 DEF Failed, Item, Statuses, Blocking, Pending

(* The ways in which a step is finished *)
Confirms(j, m) ==
    /\ items[j][m].status = "repair" /\ m \in present
    /\ items'[j][m] = Done(j, m, items[j][m].ack)
    /\ cache' = [cache EXCEPT ![m] = Applied(@, items[j][m].ack)]
Reports(j, m) ==
    /\ items[j][m].status = "running" /\ UNCHANGED cache
    /\ \/ work[m].result = "ok" /\ items'[j][m] = Done(j, m, work[m].change)
       \/ work[m].result = "unchanged" /\ items'[j][m] = Done(j, m, Unchanged)
       \/ /\ work[m].result = "superseded"
          /\ items'[j][m] = [items[j][m] EXCEPT !.status = "cancelled"]
       \/ work[m].result = "refused" /\ items'[j][m] = Failed(j, m, FALSE)
       \/ work[m].result = "unknown" /\ items'[j][m] = Failed(j, m, TRUE)

LEMMA FinishIs ==
    ASSUME HistoryInv, NEW m \in Messages, NEW j \in Jobs, j = work[m].job, Finish(m)
    PROVE  /\ items'[j][m] \in Item /\ Become(j, m, items'[j][m])
           /\ Confirms(j, m) \/ Reports(j, m)
<1>1. /\ items[j][m] \in Item /\ StepIsTrue(j, m) /\ ItemIsTrue(j, m)
      /\ work[m].at = "result" /\ work[m] \in Step
  BY DEF HistoryInv, TypeOK, Finish
<1>2. items[j][m].ack \in Receipt /\ work[m].change \in Receipt BY <1>1 DEF Item, Step
<1>3. CASE Acked(j, m)
  <2>1. items[j][m].status = "repair" BY <1>1, <1>3 DEF Acked, ItemIsTrue
  <2>2. FinishAcknowledged(j, m) BY <1>3 DEF Finish
  <2>3. Done(j, m, items[j][m].ack) \in Item BY <1>2, DoneIs
  <2>4. Become(j, m, Done(j, m, items[j][m].ack)) BY <2>2 DEF FinishAcknowledged
  <2>5. items'[j][m] = Done(j, m, items[j][m].ack)
    BY <2>3, <2>4, BecomeTurns DEF HistoryInv, TypeOK
  <2>6. QED BY <2>1, <2>2, <2>3, <2>4, <2>5 DEF Confirms, FinishAcknowledged
<1>4. CASE ~Acked(j, m)
  <2>1. items[j][m].status = "running" BY <1>1, <1>4 DEF Acked, ItemIsTrue, StepIsTrue
  <2>2. FinishResult(j, m, work[m].result, work[m].change) BY <1>4 DEF Finish
  <2>3. work[m].result \in {"ok", "unchanged", "superseded", "refused", "unknown"}
    BY <1>1 DEF StepIsTrue, Step, Results
  <2>4. UNCHANGED cache BY <2>2 DEF FinishResult
  <2>5. ASSUME NEW next \in Item, Become(j, m, next)
        PROVE  items'[j][m] = next
    BY <2>5, BecomeTurns DEF HistoryInv, TypeOK
  <2>6. CASE work[m].result = "ok"
    <3>1. Become(j, m, Done(j, m, work[m].change)) BY <2>2, <2>6 DEF FinishResult
    <3>2. Done(j, m, work[m].change) \in Item BY <1>2, DoneIs
    <3>3. QED BY <2>1, <2>4, <2>5, <2>6, <3>1, <3>2 DEF Reports
  <2>7. CASE work[m].result = "unchanged"
    <3>1. Become(j, m, Done(j, m, Unchanged)) BY <2>2, <2>7 DEF FinishResult
    <3>2. Done(j, m, Unchanged) \in Item BY ValuesAre, DoneIs
    <3>3. QED BY <2>1, <2>4, <2>5, <2>7, <3>1, <3>2 DEF Reports
  <2>8. CASE work[m].result = "superseded"
    <3>1. Become(j, m, [items[j][m] EXCEPT !.status = "cancelled"])
      BY <2>2, <2>8 DEF FinishResult, Mark
    <3>2. [items[j][m] EXCEPT !.status = "cancelled"] \in Item BY <1>1 DEF Item, Statuses
    <3>3. QED BY <2>1, <2>4, <2>5, <2>8, <3>1, <3>2 DEF Reports
  <2>9. CASE work[m].result = "refused"
    <3>1. Become(j, m, Failed(j, m, FALSE)) BY <2>2, <2>9 DEF FinishResult
    <3>2. Failed(j, m, FALSE) \in Item BY FailedIs
    <3>3. QED BY <2>1, <2>4, <2>5, <2>9, <3>1, <3>2 DEF Reports
  <2>10. CASE work[m].result = "unknown"
    <3>1. Become(j, m, Failed(j, m, TRUE)) BY <2>2, <2>10 DEF FinishResult
    <3>2. Failed(j, m, TRUE) \in Item BY FailedIs
    <3>3. QED BY <2>1, <2>4, <2>5, <2>10, <3>1, <3>2 DEF Reports
  <2>11. QED BY <2>3, <2>6, <2>7, <2>8, <2>9, <2>10
<1>5. QED BY <1>3, <1>4

LEMMA ReportedIs ==
    ASSUME HistoryInv, NEW m \in Messages, NEW j \in Jobs,
           \/ Confirms(j, m)
           \/ Reports(j, m) /\ j = work[m].job /\ work[m].at = "result"
    PROVE  LET k == items'[j][m] IN
           /\ k.ack = Unchanged
           /\ k.status \in {"queued", "done", "cancelled", "failed", "uncertain"}
           /\ k.status = "failed" => <<j, m>> \notin took
           /\ k.status = "done" /\ ~k.undo /\ k.receipt # Unchanged => <<j, m>> \in took
           /\ cache' \in [Messages -> [Fields -> BOOLEAN]]
<1>1. /\ items[j][m] \in Item /\ StepIsTrue(j, m) /\ ItemIsTrue(j, m) /\ work[m] \in Step
      /\ cache \in [Messages -> [Fields -> BOOLEAN]]
  BY DEF HistoryInv, TypeOK
<1>2. items[j][m].ack \in Receipt /\ work[m].change \in Receipt BY <1>1 DEF Item, Step
<1>3. CASE Confirms(j, m)
  <2>1. <<j, m>> \in took BY <1>1, <1>3 DEF Confirms, ItemIsTrue
  <2>2. cache' \in [Messages -> [Fields -> BOOLEAN]] BY <1>1, <1>2, <1>3, ServerIs DEF Confirms
  <2>3. QED BY <1>2, <1>3, <2>1, <2>2, DoneIs DEF Confirms
<1>4. CASE Reports(j, m) /\ j = work[m].job /\ work[m].at = "result"
  <2>1. items[j][m].ack = Unchanged BY <1>1, <1>4 DEF Reports, ItemIsTrue
  <2>2. /\ work[m].result = "ok" => <<j, m>> \in took
        /\ work[m].result = "refused" => <<j, m>> \notin took
    BY <1>1, <1>4 DEF StepIsTrue
  <2>3. UNCHANGED cache BY <1>4 DEF Reports
  <2>4. CASE work[m].result = "ok" /\ items'[j][m] = Done(j, m, work[m].change)
    <3>1. PICK r \in Receipt : r = work[m].change BY <1>2
    <3>2. QED BY <1>1, <2>2, <2>3, <2>4, <3>1, DoneIs
  <2>5. CASE work[m].result = "unchanged" /\ items'[j][m] = Done(j, m, Unchanged)
    <3>1. Unchanged \in Receipt BY ValuesAre
    <3>2. Done(j, m, Unchanged).undo \/ Done(j, m, Unchanged).receipt = Unchanged
      BY <3>1, DoneIs
    <3>3. /\ Done(j, m, Unchanged).ack = Unchanged
          /\ Done(j, m, Unchanged).status \in {"queued", "done"}
      BY <3>1, DoneIs
    <3>4. QED BY <1>1, <2>3, <2>5, <3>2, <3>3
  <2>6. CASE items'[j][m] = [items[j][m] EXCEPT !.status = "cancelled"]
    BY <1>1, <2>1, <2>3, <2>6 DEF Item
  <2>7. CASE work[m].result = "refused" /\ items'[j][m] = Failed(j, m, FALSE)
    <3>1. /\ items'[j][m].ack = items[j][m].ack
          /\ items'[j][m].status \in {"cancelled", "failed"}
      BY <1>1, <2>7 DEF Failed, Item
    <3>2. QED BY <1>1, <2>1, <2>2, <2>3, <2>7, <3>1
  <2>8. CASE items'[j][m] = Failed(j, m, TRUE)
    <3>1. /\ items'[j][m].ack = items[j][m].ack
          /\ items'[j][m].status = "uncertain"
      BY <1>1, <2>8 DEF Failed, Item
    <3>2. QED BY <1>1, <2>1, <2>3, <3>1
  <2>9. QED BY <1>4, <2>4, <2>5, <2>6, <2>7, <2>8 DEF Reports
<1>5. QED BY <1>3, <1>4

(* The item that is finished asks anew if its Undo is left to be done. *)
LEMMA RequeuedIs ==
    ASSUME HistoryInv, NEW m \in Messages, NEW j \in Jobs, Requeued(j, m)
    PROVE  /\ sent' \in [Jobs -> [Messages -> 0 .. 2]] /\ took' \subseteq Jobs \X Messages
           /\ \A k \in Jobs, n \in Messages : k # j \/ n # m =>
                 sent'[k][n] = sent[k][n] /\ (<<k, n>> \in took' <=> <<k, n>> \in took)
           /\ items'[j][m].status = "queued" => sent'[j][m] = 0 /\ <<j, m>> \notin took'
           /\ items'[j][m].status # "queued" =>
                 sent'[j][m] = sent[j][m] /\ (<<j, m>> \in took' <=> <<j, m>> \in took)
<1> DEFINE M == {n \in {m} : items'[j][n].status = "queued"}
<1>1. Renew(j, M) BY DEF Requeued
<1>2. /\ \A n \in Messages : n # m => n \notin M
      /\ m \in M <=> items'[j][m].status = "queued"
  OBVIOUS
<1> HIDE DEF M
<1>3. QED BY <1>1, <1>2, RenewIs DEF HistoryInv, TypeOK

LEMMA FinishedHolds ==
    ASSUME HistoryInv, NEW m \in Messages, NEW j \in Jobs,
           \/ Confirms(j, m)
           \/ Reports(j, m) /\ j = work[m].job /\ work[m].at = "result",
           items'[j][m] \in Item, Become(j, m, items'[j][m]), Requeued(j, m), Refresh({m}),
           work' \in [Messages -> Step], work'[m].job = 0, work'[m].at = "idle",
           \A n \in Messages \ {m} : work'[n] = work[n],
           UNCHANGED <<jobs, count, owner, present, server, touched, undos, crashes>>
    PROVE  HistoryInv'
<1>1. ItemIsTrue(j, m) BY DEF HistoryInv
<1>2. items[j][m].status \in {"repair", "running"} BY DEF Confirms, Reports
<1>3. ItemIsTrue(j, m)'
  <2>1. /\ items'[j][m].ack = Unchanged
        /\ items'[j][m].status \in {"queued", "done", "cancelled", "failed", "uncertain"}
        /\ items'[j][m].status = "failed" => <<j, m>> \notin took
        /\ items'[j][m].status = "done" /\ ~items'[j][m].undo /\ items'[j][m].receipt # Unchanged
              => <<j, m>> \in took
    BY ReportedIs
  <2>2. /\ items'[j][m].status = "queued" => sent'[j][m] = 0 /\ <<j, m>> \notin took'
        /\ items'[j][m].status # "queued" =>
              sent'[j][m] = sent[j][m] /\ (<<j, m>> \in took' <=> <<j, m>> \in took)
    BY RequeuedIs
  <2>3. j <= count /\ sent[j][m] <= 1 /\ count \in Nat /\ j \in Nat
    BY <1>1, <1>2 DEF ItemIsTrue, HistoryInv, TypeOK, Jobs
  <2>4. QED BY <2>1, <2>2, <2>3 DEF ItemIsTrue
<1>4. StepIsTrue(j, m)' BY DEF StepIsTrue, Jobs
<1>5. items'[j][m].status # "none" BY ReportedIs
<1>6. cache' \in [Messages -> [Fields -> BOOLEAN]] BY ReportedIs
<1>7. QED BY <1>3, <1>4, <1>5, <1>6, RequeuedIs, OneItemHolds

LEMMA FinishKeeps ==
    ASSUME HistoryInv, NEW m \in Messages, Finish(m)
    PROVE  HistoryInv'
<1>1. PICK j \in Jobs : j = work[m].job BY WorkerIs DEF Finish
<1>2. /\ items'[j][m] \in Item /\ Become(j, m, items'[j][m])
      /\ \/ Confirms(j, m)
         \/ Reports(j, m) /\ j = work[m].job /\ work[m].at = "result"
  BY <1>1, FinishIs DEF Finish
<1>3. /\ work' \in [Messages -> Step] /\ work'[m].job = 0 /\ work'[m].at = "idle"
      /\ \A n \in Messages \ {m} : work'[n] = work[n]
  BY NoItemIs, PlaceIs DEF Finish
<1>4. /\ Requeued(j, m) /\ Refresh({m})
      /\ UNCHANGED <<jobs, count, owner, present, server, touched, undos, crashes>>
  BY <1>1 DEF Finish
<1>5. QED BY <1>2, <1>3, <1>4, FinishedHolds

LEMMA RepairIs ==
    ASSUME HistoryInv, NEW j \in Jobs, NEW m \in Messages, Repair(j, m)
    PROVE  /\ items'[j][m] \in Item /\ Become(j, m, items'[j][m])
           /\ Confirms(j, m) /\ work[m] = Idle
<1>1. items[j][m] \in Item /\ items[j][m].status = "repair" BY DEF HistoryInv, TypeOK, Repair
<1>2. items[j][m].ack \in Receipt BY <1>1 DEF Item
<1>3. FinishAcknowledged(j, m) /\ work[m] = Idle BY DEF Repair, Occupied
<1>4. Done(j, m, items[j][m].ack) \in Item BY <1>2, DoneIs
<1>5. Become(j, m, Done(j, m, items[j][m].ack)) BY <1>3 DEF FinishAcknowledged
<1>6. items'[j][m] = Done(j, m, items[j][m].ack)
  BY <1>4, <1>5, BecomeTurns DEF HistoryInv, TypeOK
<1>7. QED BY <1>1, <1>3, <1>4, <1>5, <1>6 DEF Confirms, FinishAcknowledged

LEMMA RepairKeeps ==
    ASSUME HistoryInv, NEW j \in Jobs, NEW m \in Messages, Repair(j, m)
    PROVE  HistoryInv'
<1>1. /\ UNCHANGED <<jobs, count, owner, present, server, work, touched, undos, crashes>>
      /\ Requeued(j, m) /\ Refresh({m})
  BY DEF Repair
<1>2. /\ work' \in [Messages -> Step] /\ work'[m].job = 0 /\ work'[m].at = "idle"
      /\ \A n \in Messages \ {m} : work'[n] = work[n]
  BY <1>1, RepairIs, NoItemIs DEF HistoryInv, TypeOK
<1>3. QED BY <1>1, <1>2, RepairIs, FinishedHolds

(* The environment *)

LEMMA CrashKeeps ==
    ASSUME HistoryInv, Crash
    PROVE  HistoryInv'
<1>1. UNCHANGED <<durable, cache, present, server, sent, took, touched, undos>> BY DEF Crash
<1>2. \A n \in Messages : work'[n].job = 0 /\ work'[n].at = "idle" BY NoItemIs DEF Crash
<1>3. work' \in [Messages -> Step] BY NoItemIs DEF Crash
<1>4. crashes' \in 0 .. MaxCrashes BY BulkAssumption DEF Crash, HistoryInv, TypeOK
<1>5. TypeOK' BY <1>1, <1>3, <1>4 DEF HistoryInv, TypeOK, durable
<1>6. ASSUME NEW k \in Jobs, NEW n \in Messages PROVE ItemIsTrue(k, n)' /\ StepIsTrue(k, n)'
  <2>1. ItemIsTrue(k, n)' BY <1>1, ItemKept DEF HistoryInv, durable
  <2>2. StepIsTrue(k, n)' BY <1>2 DEF StepIsTrue, Jobs
  <2>3. QED BY <2>1, <2>2
<1>7. OwnersDecide' BY <1>1 DEF HistoryInv, OwnersDecide, durable
<1>8. \A m \in Messages : Shown_Kept(m) BY <1>1 DEF Shown_Kept, durable
<1>9. ProjectionIsShown' BY <1>1, <1>8, KeptShows DEF HistoryInv, durable
<1>10. QED BY <1>2, <1>5, <1>6, <1>7, <1>9 DEF HistoryInv

LEMMA OutsideKeeps ==
    ASSUME HistoryInv, NEW m \in Messages,
           Check(m) \/ Vanish(m) \/ \E f \in Flags : ForeignChange(m, f)
    PROVE  HistoryInv'
<1>1. UNCHANGED <<durable, sent, took, work, undos, crashes>>
  BY DEF Check, Vanish, ForeignChange
<1>2. CASE Check(m)
  <2>1. cache' \in [Messages -> [Fields -> BOOLEAN]]
    BY <1>2 DEF Check, HistoryInv, TypeOK, Fields
  <2>2. UNCHANGED <<present, server, touched>> BY <1>2 DEF Check
  <2>3. QED BY <1>1, <2>1, <2>2, DurableKept DEF HistoryInv, TypeOK, durable
<1>3. CASE Vanish(m)
  <2>1. UNCHANGED <<cache, server, touched>> /\ present' \subseteq Messages
    BY <1>3 DEF Vanish, HistoryInv, TypeOK
  <2>2. QED BY <1>1, <2>1, DurableKept DEF HistoryInv, TypeOK, durable
<1>4. CASE \E f \in Flags : ForeignChange(m, f)
  <2>1. PICK f \in Flags : ForeignChange(m, f) BY <1>4
  <2>2. /\ server' \in [Messages -> [Fields -> BOOLEAN]] /\ touched' \in [Messages -> SUBSET Flags]
    BY <2>1, ZenonT(60) DEF ForeignChange, HistoryInv, TypeOK, Fields
  <2>3. UNCHANGED <<cache, present>> BY <2>1 DEF ForeignChange
  <2>4. QED BY <1>1, <2>2, <2>3, DurableKept DEF HistoryInv, TypeOK, durable
<1>5. QED BY <1>2, <1>3, <1>4

(* Every step *)

LEMMA HistoryBegins == Init => HistoryInv
<1> SUFFICES ASSUME Init PROVE HistoryInv OBVIOUS
<1>1. \A j \in Jobs, m \in Messages : items[j][m] = NoItem BY DEF Init
<1>2. \A m \in Messages : work[m] = Idle BY DEF Init
<1>3. \A m \in Messages, f \in Fields : owner[m][f] = 0 BY DEF Init
<1>4. TypeOK
  <2>1. jobs \in [Jobs -> [decision : Values, undo : BOOLEAN]] BY ValuesAre DEF Init
  <2>2. /\ items \in [Jobs -> [Messages -> Item]] /\ effects \in [Messages -> Values]
        /\ work \in [Messages -> Step]
    BY NoItemIs, ValuesAre DEF Init
  <2>3. /\ owner \in [Messages -> [Fields -> Jobs \cup {0}]]
        /\ cache \in [Messages -> [Fields -> BOOLEAN]] /\ server = cache
        /\ sent \in [Jobs -> [Messages -> 0 .. 2]] /\ took = {}
        /\ touched \in [Messages -> SUBSET Flags]
    BY DEF Init
  <2>4. count \in 0 .. MaxJobs /\ undos \in 0 .. MaxUndos /\ crashes \in 0 .. MaxCrashes
    BY BulkAssumption DEF Init
  <2>5. QED BY <2>1, <2>2, <2>3, <2>4 DEF TypeOK, Init
<1>5. ASSUME NEW j \in Jobs, NEW m \in Messages PROVE ItemIsTrue(j, m) /\ StepIsTrue(j, m)
  <2>1. items[j][m].status = "none" /\ items[j][m].ack = Unchanged BY <1>1 DEF NoItem
  <2>2. sent[j][m] = 0 /\ took = {} BY DEF Init
  <2>3. work[m].job # j BY <1>2, NoItemIs DEF Jobs
  <2>4. QED BY <2>1, <2>2, <2>3 DEF ItemIsTrue, StepIsTrue
<1>6. OwnersDecide BY <1>3 DEF OwnersDecide
<1>7. ASSUME NEW m \in Messages PROVE effects[m] = Projection(m)
  <2>1. \A f \in Fields : ~Shows(m, f) BY <1>3 DEF Shows
  <2>2. DOMAIN Projection(m) = {} BY <2>1 DEF Projection
  <2>3. Projection(m) = Nothing BY <2>1 DEF Projection, Nothing
  <2>4. QED BY <2>3 DEF Init
<1>8. QED BY <1>2, <1>4, <1>5, <1>6, <1>7, NoItemIs DEF HistoryInv, ProjectionIsShown

LEMMA HistoryStep == HistoryInv /\ [Next]_vars => HistoryInv'
<1> SUFFICES ASSUME HistoryInv, [Next]_vars PROVE HistoryInv' OBVIOUS
<1>1. CASE \E S \in SUBSET Messages, d \in Decisions : Admit(S, d) BY <1>1, AdmitKeeps
<1>2. CASE \E j \in Jobs : RequestUndo(j) \/ AcceptUncertainty(j) \/ Resume(j)
  BY <1>2, RequestUndoKeeps, AcceptKeeps, ResumeKeeps
<1>3. CASE \E j \in Jobs, m \in Messages : Claim(j, m) \/ Repair(j, m)
  BY <1>3, ClaimKeeps, RepairKeeps
<1>4. CASE \E m \in Messages : Authorize(m) \/ Serve(m) \/ Acknowledge(m) \/ AcknowledgeFails(m)
                               \/ Finish(m) \/ FinishFails(m)
  BY <1>4, AuthorizeKeeps, ServeKeeps, AcknowledgeKeeps, AcknowledgeFailsKeeps, FinishKeeps,
     FinishFailsKeeps
<1>5. CASE \E m \in Messages :
              Check(m) \/ Vanish(m) \/ \E f \in Flags : ForeignChange(m, f)
  BY <1>5, OutsideKeeps
<1>6. CASE Crash BY <1>6, CrashKeeps
<1>7. CASE UNCHANGED vars
  <2>1. TypeOK' BY <1>7 DEF HistoryInv, TypeOK, vars, durable
  <2>2. QED BY <1>7, <2>1, DurableKept DEF vars, durable
<1>8. QED BY <1>1, <1>2, <1>3, <1>4, <1>5, <1>6, <1>7 DEF Next

(* The inductive invariant of the journal of mail actions: what the status of  *)
(* every item and the place of every executor say of the requests that were    *)
(* sent and carried out, and what the window shows.                            *)
THEOREM HistoryHolds == Spec => []HistoryInv
BY HistoryBegins, HistoryStep, PTL DEF Spec

(* Type correctness, for any messages, accounts, decisions and bounds. *)
THEOREM BulkTypes == Spec => []TypeOK
<1>1. HistoryInv => TypeOK BY DEF HistoryInv
<1>2. QED BY <1>1, HistoryHolds, PTL

(* What the history says happened at the server happened, what it says failed  *)
(* or waits did not, and nothing is sent twice between two decisions.          *)
THEOREM HistoryTrue == Spec => []HistoryIsTrue
<1>1. HistoryInv => HistoryIsTrue
  BY DEF HistoryInv, HistoryIsTrue, ItemIsTrue
<1>2. QED BY <1>1, HistoryHolds, PTL

----------------------------------------------------------------------------
(* The newest decision *)

(* Of message m, a step is about item j at most. *)
Only(j, m) ==
    /\ \A k \in Jobs \ {j} :
          items'[k][m] = items[k][m] /\ (<<k, m>> \in took' <=> <<k, m>> \in took)
    /\ \A k \in Jobs : jobs'[k].decision = jobs[k].decision
    /\ owner'[m] = owner[m] /\ touched[m] \subseteq touched'[m]
    /\ \/ work'[m] = work[m]
       \/ work[m].job \in {0, j} /\ work'[m].job \in {0, j}

LEMMA OthersAsk ==
    ASSUME NEW j \in Jobs, NEW m \in Messages, Only(j, m), NEW k \in Jobs, k # j
    PROVE  /\ Given(k, m)' = Given(k, m) /\ Wanted(k, m)' = Wanted(k, m)
           /\ \A f : /\ Asks(k, m, f)' <=> Asks(k, m, f)
                     /\ Lags(k, m, f)' <=> Lags(k, m, f)
           /\ Authorised(k, m)' <=> Authorised(k, m)
           /\ Unreported(k, m)' <=> Unreported(k, m)
<1>1. /\ items'[k][m] = items[k][m] /\ (<<k, m>> \in took' <=> <<k, m>> \in took)
      /\ jobs'[k].decision = jobs[k].decision
  BY DEF Only
<1>a. k # 0 BY DEF Jobs
<1>2. work'[m] = work[m] \/ (work[m].job # k /\ work'[m].job # k) BY <1>a DEF Only
<1>3. AtServer(k, m)' <=> AtServer(k, m) BY <1>2 DEF AtServer
<1>4. Given(k, m)' = Given(k, m) BY <1>1, <1>2, <1>3 DEF Given, AtServer
<1>5. Wanted(k, m)' = Wanted(k, m) BY <1>1 DEF Wanted
<1>6. ASSUME NEW f PROVE Asks(k, m, f)' <=> Asks(k, m, f) BY <1>4 DEF Asks
<1>7. ASSUME NEW f PROVE Lags(k, m, f)' <=> Lags(k, m, f)
  <2>1. CASE work'[m] = work[m] BY <1>1, <1>6, <2>1 DEF Lags
  <2>2. CASE work[m].job # k /\ work'[m].job # k
    <3>1. Asks(k, m, f) => items[k][m].status = "repair"
      BY <2>2, ValuesAre DEF Asks, Given, AtServer
    <3>2. QED BY <1>1, <1>6, <3>1 DEF Lags
  <2>3. QED BY <1>2, <2>1, <2>2
<1>8. Authorised(k, m)' <=> Authorised(k, m) BY <1>1, <1>2, <1>3 DEF Authorised
<1>9. Unreported(k, m)' <=> Unreported(k, m) BY <1>1, <1>3 DEF Unreported
<1>10. QED BY <1>4, <1>5, <1>6, <1>7, <1>8, <1>9

LEMMA LostStays ==
    ASSUME NEW j \in Jobs, NEW m \in Messages, Only(j, m), Unreported(j, m) => Unreported(j, m)'
    PROVE  Lost(m) => Lost(m)'
<1> SUFFICES ASSUME NEW k \in Jobs, Unreported(k, m) PROVE Unreported(k, m)' BY DEF Lost
<1>1. CASE k = j BY <1>1
<1>2. CASE k # j BY <1>2, OthersAsk
<1>3. QED BY <1>1, <1>2

LEMMA AskedKept ==
    ASSUME HistoryInv, NEW j \in Jobs, NEW m \in Messages, Only(j, m), AskedByOwner(m),
           \A f \in Fields : Asks(j, m, f)' =>
               /\ Asks(j, m, f) /\ Given(j, m)'.after[f] = Given(j, m).after[f]
               /\ f \in DOMAIN Wanted(j, m)' /\ Wanted(j, m)'[f] = Wanted(j, m)[f],
           \/ Waits(j, m) => Waits(j, m)'
           \/ \A k \in Jobs, f \in Fields : k < j /\ Asks(k, m, f) => owner[m][f] # j
    PROVE  AskedByOwner(m)'
<1> SUFFICES ASSUME NEW k \in Jobs, NEW f \in Fields, Asks(k, m, f)'
             PROVE  /\ f \in DOMAIN Wanted(k, m)' /\ Given(k, m)'.after[f] = Wanted(k, m)'[f]
                    /\ owner[m][f] >= k
                    /\ owner[m][f] > k => Waits(owner[m][f], m)'
                    /\ \A l \in Jobs : Asks(l, m, f)' => l = k
  BY DEF AskedByOwner, Only, Waits
<1>1. \A l \in Jobs : Asks(l, m, f)' => Asks(l, m, f) BY OthersAsk
<1>2. /\ f \in DOMAIN Wanted(k, m) /\ Given(k, m).after[f] = Wanted(k, m)[f]
      /\ owner[m][f] >= k /\ (owner[m][f] > k => Waits(owner[m][f], m))
      /\ \A l \in Jobs : Asks(l, m, f) => l = k
  BY <1>1 DEF AskedByOwner
<1>3. f \in DOMAIN Wanted(k, m)' /\ Given(k, m)'.after[f] = Wanted(k, m)'[f]
  <2>1. CASE k = j BY <1>2, <2>1
  <2>2. CASE k # j BY <1>2, <2>2, OthersAsk
  <2>3. QED BY <2>1, <2>2
<1>4. owner[m][f] > k => Waits(owner[m][f], m)'
  <2>1. PICK o : o = owner[m][f] OBVIOUS
  <2> SUFFICES ASSUME o > k PROVE items'[o][m].status \in {"queued", "cancelled"} /\ ~items'[o][m].undo
    BY <2>1 DEF Waits, Only
  <2>2. o \in Jobs /\ Waits(o, m) BY <1>2, <2>1 DEF HistoryInv, TypeOK, Jobs
  <2>3. CASE o = j BY <1>1, <2>1, <2>2, <2>3 DEF Waits
  <2>4. CASE o # j BY <2>2, <2>4 DEF Only, Waits
  <2>5. QED BY <2>3, <2>4
<1>5. QED BY <1>1, <1>2, <1>3, <1>4

LEMMA PrevailsKept ==
    ASSUME HistoryInv, NEW j \in Jobs, NEW m \in Messages, NEW f \in Fields, Only(j, m),
           owner[m][f] # j, server'[m][f] = server[m][f], OwnerPrevails(m, f)
    PROVE  OwnerPrevails(m, f)'
<1>1. owner'[m][f] = owner[m][f] BY DEF Only
<1>2. CASE owner[m][f] = 0 BY <1>1, <1>2 DEF OwnerPrevails
<1>3. CASE owner[m][f] # 0
  <2>1. PICK o \in Jobs : o = owner[m][f] BY <1>3 DEF HistoryInv, TypeOK
  <2>2. OwnerHas(o, m, f) /\ o # j BY <1>3, <2>1 DEF OwnerPrevails
  <2>3. items'[o][m] = items[o][m] /\ jobs'[o].decision = jobs[o].decision BY <2>2 DEF Only
  <2>4. Decided(o, m, f)' = Decided(o, m, f) BY <2>3 DEF Decided
  <2>5. /\ Wanted(o, m)' = Wanted(o, m) /\ (Authorised(o, m)' <=> Authorised(o, m))
        /\ Asks(o, m, f)' <=> Asks(o, m, f)
    BY <2>2, OthersAsk
  <2>6. work'[m] = work[m] \/ (Authorised(o, m) => items[o][m].status = "repair")
    BY <2>2 DEF Only, Authorised, AtServer, Jobs
  <2>7. OwnerHas(o, m, f)' BY <2>2, <2>3, <2>4, <2>5, <2>6 DEF OwnerHas
  <2>8. QED BY <1>1, <2>1, <2>7 DEF OwnerPrevails
<1>4. QED BY <1>2, <1>3

LEMMA CacheKept ==
    ASSUME NEW j \in Jobs, NEW m \in Messages, NEW f \in Fields, Only(j, m),
           server'[m][f] = server[m][f], cache'[m][f] = cache[m][f],
           Lags(j, m, f)' <=> Lags(j, m, f),
           Lags(j, m, f) => Given(j, m)'.after[f] = Given(j, m).after[f],
           CacheAgrees(m, f)
    PROVE  CacheAgrees(m, f)'
<1>1. \A k \in Jobs : /\ Lags(k, m, f)' <=> Lags(k, m, f)
                      /\ Lags(k, m, f) => Given(k, m)'.after[f] = Given(k, m).after[f]
  BY OthersAsk
<1>2. QED BY <1>1 DEF CacheAgrees

(* No item of the message takes a step. *)
Same(m) ==
    /\ \A k \in Jobs :
          /\ items'[k][m] = items[k][m] /\ (<<k, m>> \in took' <=> <<k, m>> \in took)
          /\ jobs'[k].decision = jobs[k].decision
    /\ owner'[m] = owner[m] /\ touched[m] \subseteq touched'[m]
    /\ \A f \in Fields \ touched'[m] :
          server'[m][f] = server[m][f] /\ cache'[m][f] \in {cache[m][f], server[m][f]}
    /\ work'[m] = work[m] \/ (work[m].job = 0 /\ work'[m].job = 0)

LEMMA SameAgrees ==
    ASSUME HistoryInv, NEW m \in Messages, Agreed(m), Same(m)
    PROVE  Agreed(m)'
<1> USE DEF Same
<1>1. ASSUME NEW k \in Jobs PROVE Only(k, m)
  BY DEF Only
<1>2. ASSUME NEW k \in Jobs
      PROVE  /\ Given(k, m)' = Given(k, m) /\ Wanted(k, m)' = Wanted(k, m)
             /\ \A f : /\ Asks(k, m, f)' <=> Asks(k, m, f)
                       /\ Lags(k, m, f)' <=> Lags(k, m, f)
             /\ Unreported(k, m)' <=> Unreported(k, m)
  <2>1. k # 0 BY DEF Jobs
  <2>2. AtServer(k, m)' <=> AtServer(k, m) BY <2>1 DEF AtServer
  <2>3. Given(k, m)' = Given(k, m) BY <2>1, <2>2 DEF Given, AtServer
  <2>4. Wanted(k, m)' = Wanted(k, m) BY DEF Wanted
  <2>5. \A f : Asks(k, m, f)' <=> Asks(k, m, f) BY <2>3 DEF Asks
  <2>6. \A f : Lags(k, m, f)' <=> Lags(k, m, f)
    <3>1. CASE work'[m] = work[m] BY <2>5, <3>1 DEF Lags
    <3>2. CASE work[m].job = 0 /\ work'[m].job = 0
      <4>1. \A f : Asks(k, m, f) => items[k][m].status = "repair"
        BY <2>1, <3>2, ValuesAre DEF Asks, Given, AtServer
      <4>2. QED BY <2>5, <4>1 DEF Lags
    <3>3. QED BY <3>1, <3>2
  <2>7. QED BY <2>2, <2>3, <2>4, <2>5, <2>6 DEF Unreported
<1>3. AskedByOwner(m)'
  <2>1. CASE Jobs = {} BY <2>1 DEF AskedByOwner
  <2>2. CASE Jobs # {}
    <3>1. PICK j \in Jobs : TRUE BY <2>2
    <3>2. \A f \in Fields : Asks(j, m, f)' =>
               /\ Asks(j, m, f) /\ Given(j, m)'.after[f] = Given(j, m).after[f]
               /\ f \in DOMAIN Wanted(j, m)' /\ Wanted(j, m)'[f] = Wanted(j, m)[f]
      BY <1>2 DEF Agreed, AskedByOwner
    <3>3. Waits(j, m) => Waits(j, m)' BY DEF Waits
    <3>4. QED BY <1>1, <3>2, <3>3, AskedKept DEF Agreed
  <2>3. QED BY <2>1, <2>2
<1>4. Lost(m) => Lost(m)' BY <1>2 DEF Lost
<1>5. ASSUME ~Lost(m)', NEW f \in Fields \ touched'[m]
      PROVE  (CacheAgrees(m, f) /\ OwnerPrevails(m, f))'
  <2>1. CacheAgrees(m, f) /\ OwnerPrevails(m, f) BY <1>4, <1>5 DEF Agreed
  <2>2. CacheAgrees(m, f)' BY <1>2, <2>1 DEF CacheAgrees
  <2>3. OwnerPrevails(m, f)'
    <3>1. CASE owner[m][f] = 0 BY <3>1 DEF OwnerPrevails
    <3>2. CASE owner[m][f] # 0
      <4>1. PICK o \in Jobs : o = owner[m][f] BY <3>2 DEF HistoryInv, TypeOK
      <4>2. OwnerHas(o, m, f) BY <2>1, <3>2, <4>1 DEF OwnerPrevails
      <4>3. Decided(o, m, f)' = Decided(o, m, f) BY DEF Decided
      <4>4. o # 0 BY DEF Jobs
      <4>5. Authorised(o, m)' <=> Authorised(o, m) BY <4>4 DEF Authorised, AtServer
      <4>6. work'[m] = work[m] \/ (Authorised(o, m) => items[o][m].status = "repair")
        BY <4>4 DEF Authorised, AtServer
      <4>7. OwnerHas(o, m, f)' BY <1>2, <4>2, <4>3, <4>5, <4>6 DEF OwnerHas
      <4>8. QED BY <4>1, <4>7 DEF OwnerPrevails
    <3>3. QED BY <3>1, <3>2
  <2>4. QED BY <2>2, <2>3
<1>6. QED BY <1>3, <1>5 DEF Agreed

(* An item is left, or waits: it asks for nothing and is not done. *)
LEMMA RestingAgrees ==
    ASSUME HistoryInv, NEW j \in Jobs, NEW m \in Messages, Only(j, m), Agreed(m),
           Given(j, m)' = Unchanged, ~Authorised(j, m)', items'[j][m].status # "done",
           \/ Waits(j, m) => Waits(j, m)'
           \/ \A k \in Jobs, f \in Fields : k < j /\ Asks(k, m, f) => owner[m][f] # j,
           Unreported(j, m) => Unreported(j, m)',
           \/ Lost(m)'
           \/ /\ UNCHANGED <<server[m], cache[m]>>
              /\ \A f \in Fields : ~Lags(j, m, f)
              /\ \A f \in Fields \ touched[m] :
                    /\ owner[m][f] = j /\ OwnerHas(j, m, f)
                    /\ items'[j][m].undo /\ f \notin DOMAIN items'[j][m].receipt.before
                    => server[m][f] = jobs[j].decision[f]
    PROVE  Agreed(m)'
<1>1. ASSUME NEW f \in Fields PROVE ~Asks(j, m, f)' /\ ~Lags(j, m, f)'
  BY ValuesAre DEF Asks, Lags
<1>2. AskedByOwner(m)' BY <1>1, AskedKept DEF Agreed
<1>3. Lost(m) => Lost(m)' BY LostStays
<1>4. ASSUME ~Lost(m)', NEW f \in Fields \ touched'[m]
      PROVE  (CacheAgrees(m, f) /\ OwnerPrevails(m, f))'
  <2>1. f \in Fields \ touched[m] BY <1>4 DEF Only
  <2>2. CacheAgrees(m, f) /\ OwnerPrevails(m, f) BY <1>3, <1>4, <2>1 DEF Agreed
  <2>3. ~Lags(j, m, f) /\ server'[m][f] = server[m][f] /\ cache'[m][f] = cache[m][f]
    BY <1>4
  <2>4. CacheAgrees(m, f)' BY <1>1, <2>2, <2>3, CacheKept
  <2>5. CASE owner[m][f] # j
    BY <2>2, <2>3, <2>4, <2>5, PrevailsKept
  <2>6. CASE owner[m][f] = j
    <3>1. OwnerHas(j, m, f) BY <2>2, <2>6 DEF OwnerPrevails, Jobs
    <3>2. jobs'[j].decision = jobs[j].decision /\ owner'[m][f] = j BY <2>6 DEF Only
    <3>3. OwnerHas(j, m, f)' BY <1>4, <2>1, <2>3, <2>6, <3>1, <3>2 DEF OwnerHas
    <3>4. QED BY <2>4, <3>2, <3>3 DEF OwnerPrevails
  <2>7. QED BY <2>5, <2>6
<1>5. QED BY <1>2, <1>4 DEF Agreed

(* An acknowledged item is left alone. *)
LEMMA AckAgrees ==
    ASSUME HistoryInv, NEW j \in Jobs, NEW m \in Messages, Only(j, m), Agreed(m),
           items[j][m].status = "repair", items'[j][m] = items[j][m],
           <<j, m>> \in took' <=> <<j, m>> \in took,
           UNCHANGED <<server[m], cache[m], touched[m]>>
    PROVE  Agreed(m)'
<1>1. Given(j, m)' = Given(j, m) BY DEF Given
<1>2. Wanted(j, m)' = Wanted(j, m) BY DEF Wanted, Only
<1>3. \A f : /\ Asks(j, m, f)' <=> Asks(j, m, f)
             /\ Lags(j, m, f)' <=> Lags(j, m, f)
  BY <1>1 DEF Asks, Lags
<1>4. AskedByOwner(m)'
  <2>1. \A f \in Fields : Asks(j, m, f)' =>
               /\ Asks(j, m, f) /\ Given(j, m)'.after[f] = Given(j, m).after[f]
               /\ f \in DOMAIN Wanted(j, m)' /\ Wanted(j, m)'[f] = Wanted(j, m)[f]
    BY <1>1, <1>2, <1>3 DEF Agreed, AskedByOwner
  <2>2. Waits(j, m) => Waits(j, m)' BY DEF Waits
  <2>3. QED BY <2>1, <2>2, AskedKept DEF Agreed
<1>5. Lost(m) => Lost(m)'
  <2>1. Unreported(j, m) => Unreported(j, m)' BY DEF Unreported
  <2>2. QED BY <2>1, LostStays
<1>6. ASSUME ~Lost(m)', NEW f \in Fields \ touched'[m]
      PROVE  (CacheAgrees(m, f) /\ OwnerPrevails(m, f))'
  <2>1. CacheAgrees(m, f) /\ OwnerPrevails(m, f) BY <1>5, <1>6 DEF Agreed
  <2>2. CacheAgrees(m, f)' BY <1>1, <1>3, <2>1, CacheKept
  <2>3. CASE owner[m][f] # j BY <2>1, <2>2, <2>3, PrevailsKept
  <2>4. CASE owner[m][f] = j
    <3>1. OwnerHas(j, m, f) BY <2>1, <2>4 DEF OwnerPrevails, Jobs
    <3>2. jobs'[j].decision = jobs[j].decision /\ owner'[m][f] = j BY <2>4 DEF Only
    <3>3. OwnerHas(j, m, f)' BY <1>2, <3>1, <3>2 DEF OwnerHas, Authorised
    <3>4. QED BY <2>2, <3>2, <3>3 DEF OwnerPrevails
  <2>5. QED BY <2>3, <2>4
<1>7. QED BY <1>4, <1>6 DEF Agreed

(* An item whose request is done with, or needed none, is finished. *)
LEMMA FinishedAgrees ==
    ASSUME HistoryInv, NEW j \in Jobs, NEW m \in Messages, Only(j, m), Agreed(m),
           Given(j, m)' = Unchanged, ~Authorised(j, m)', ~Waits(j, m), ~Unreported(j, m),
           Authorised(j, m), work[m].at = "result" \/ items[j][m].status = "repair",
           UNCHANGED <<server[m], touched[m]>>,
           \A f \in Fields :
               cache'[m][f] = IF Lags(j, m, f) THEN Given(j, m).after[f] ELSE cache[m][f],
           items'[j][m].status = "done" => (items'[j][m].undo <=> items[j][m].undo),
           items[j][m].undo =>
               items'[j][m].undo /\ items'[j][m].receipt = items[j][m].receipt
    PROVE  Agreed(m)'
<1>1. ASSUME NEW f \in Fields PROVE ~Asks(j, m, f)' /\ ~Lags(j, m, f)'
  BY ValuesAre DEF Asks, Lags
<1>2. AskedByOwner(m)' BY <1>1, AskedKept DEF Agreed
<1>3. Lost(m) => Lost(m)' BY LostStays
<1>4. ASSUME ~Lost(m)', NEW f \in Fields \ touched'[m]
      PROVE  (CacheAgrees(m, f) /\ OwnerPrevails(m, f))'
  <2>1. CacheAgrees(m, f) /\ OwnerPrevails(m, f) BY <1>3, <1>4 DEF Agreed
  <2>2. CacheAgrees(m, f)'
    <3>1. CASE Lags(j, m, f)
      <4>1. Asks(j, m, f) BY <3>1 DEF Lags
      <4>2. \A k \in Jobs : Asks(k, m, f) => k = j BY <4>1 DEF Agreed, AskedByOwner
      <4>3. \A k \in Jobs : Lags(k, m, f) => k = j BY <4>2 DEF Lags
      <4>4. server[m][f] = Given(j, m).after[f] BY <2>1, <3>1, <4>3 DEF CacheAgrees
      <4>5. \A k \in Jobs : ~Lags(k, m, f)' BY <1>1, <4>3, OthersAsk
      <4>6. cache'[m][f] = server'[m][f] BY <3>1, <4>4
      <4>7. QED BY <4>5, <4>6 DEF CacheAgrees
    <3>2. CASE ~Lags(j, m, f) BY <1>1, <2>1, <3>2, CacheKept
    <3>3. QED BY <3>1, <3>2
  <2>3. CASE owner[m][f] # j BY <2>1, <2>2, <2>3, PrevailsKept
  <2>4. CASE owner[m][f] = j
    <3>1. OwnerHas(j, m, f) BY <2>1, <2>4 DEF OwnerPrevails, Jobs
    <3>2. jobs'[j].decision = jobs[j].decision /\ owner'[m][f] = j BY <2>4 DEF Only
    <3>3. f \in DOMAIN Wanted(j, m) => server[m][f] = Wanted(j, m)[f]
      BY <3>1 DEF OwnerHas
    <3>4. ASSUME items[j][m].undo PROVE OwnerHas(j, m, f)'
      BY <3>1, <3>2, <3>3, <3>4 DEF OwnerHas, Wanted, Decided
    <3>5. ASSUME ~items[j][m].undo PROVE OwnerHas(j, m, f)'
      <4>1. f \in DOMAIN jobs[j].decision BY <2>4 DEF HistoryInv, OwnersDecide, Jobs
      <4>2. server[m][f] = jobs[j].decision[f] BY <3>3, <3>5, <4>1 DEF Wanted
      <4>3. QED BY <3>2, <3>5, <4>2 DEF OwnerHas, Decided
    <3>6. OwnerHas(j, m, f)' BY <3>4, <3>5
    <3>7. QED BY <2>2, <3>2, <3>6 DEF OwnerPrevails
  <2>5. QED BY <2>3, <2>4
<1>5. QED BY <1>2, <1>4 DEF Agreed

(* The server carries the change of an item out, and the cache follows or lags. *)
LEMMA ServedAgrees ==
    ASSUME HistoryInv, NEW j \in Jobs, NEW m \in Messages, Only(j, m), Agreed(m),
           work[m].job = j, work[m].at = "sending", <<j, m>> \notin took,
           UNCHANGED <<items[j][m], touched[m]>>, items[j][m].status = "running",
           Given(j, m)' = Given(j, m),
           \A f \in Fields :
               server'[m][f] = IF Asks(j, m, f) THEN Given(j, m).after[f] ELSE server[m][f],
           \/ /\ work'[m].at = "answered" /\ UNCHANGED cache[m]
           \/ /\ work'[m].at = "result"
              /\ \A f \in Fields :
                    cache'[m][f] = IF Asks(j, m, f) THEN Given(j, m).after[f] ELSE cache[m][f]
    PROVE  Agreed(m)'
<1>1. ASSUME NEW f \in Fields
      PROVE  /\ Asks(j, m, f)' <=> Asks(j, m, f)
             /\ ~Lags(j, m, f)
             /\ Lags(j, m, f)' <=> Asks(j, m, f) /\ work'[m].at = "answered"
  BY DEF Asks, Lags
<1>2. Wanted(j, m)' = Wanted(j, m) BY DEF Wanted, Only
<1>3. AskedByOwner(m)'
  <2>1. \A f \in Fields : Asks(j, m, f)' =>
               /\ Asks(j, m, f) /\ Given(j, m)'.after[f] = Given(j, m).after[f]
               /\ f \in DOMAIN Wanted(j, m)' /\ Wanted(j, m)'[f] = Wanted(j, m)[f]
    BY <1>1, <1>2 DEF Agreed, AskedByOwner
  <2>2. Waits(j, m) => Waits(j, m)' BY DEF Waits
  <2>3. QED BY <2>1, <2>2, AskedKept DEF Agreed
<1>4. Lost(m) => Lost(m)'
  <2>1. ~Unreported(j, m) BY DEF Unreported
  <2>2. QED BY <2>1, LostStays
<1>5. ASSUME ~Lost(m)', NEW f \in Fields \ touched'[m]
      PROVE  (CacheAgrees(m, f) /\ OwnerPrevails(m, f))'
  <2>1. CacheAgrees(m, f) /\ OwnerPrevails(m, f) BY <1>4, <1>5 DEF Agreed
  <2>2. CASE ~Asks(j, m, f)
    <3>1. server'[m][f] = server[m][f] /\ cache'[m][f] = cache[m][f] BY <2>2
    <3>2. CacheAgrees(m, f)' BY <1>1, <2>1, <2>2, <3>1, CacheKept
    <3>3. CASE owner[m][f] # j BY <2>1, <3>1, <3>2, <3>3, PrevailsKept
    <3>4. CASE owner[m][f] = j
      <4>1. OwnerHas(j, m, f) BY <2>1, <3>4 DEF OwnerPrevails, Jobs
      <4>2. jobs'[j].decision = jobs[j].decision /\ owner'[m][f] = j BY <3>4 DEF Only
      <4>3. Authorised(j, m) BY DEF Authorised, AtServer
      <4>4. f \in DOMAIN Wanted(j, m) => server[m][f] = Wanted(j, m)[f]
        BY <2>2, <4>1, <4>3 DEF OwnerHas
      <4>5. OwnerHas(j, m, f)' BY <1>2, <3>1, <4>1, <4>2, <4>4 DEF OwnerHas
      <4>6. QED BY <3>2, <4>2, <4>5 DEF OwnerPrevails
    <3>5. QED BY <3>3, <3>4
  <2>3. CASE Asks(j, m, f)
    <3>1. /\ f \in DOMAIN Wanted(j, m) /\ Given(j, m).after[f] = Wanted(j, m)[f]
          /\ owner[m][f] >= j /\ (owner[m][f] > j => Waits(owner[m][f], m))
          /\ \A k \in Jobs : Asks(k, m, f) => k = j
      BY <2>3 DEF Agreed, AskedByOwner
    <3>2. server'[m][f] = Given(j, m).after[f] BY <2>3
    <3>3. CacheAgrees(m, f)'
      <4>1. CASE work'[m].at = "answered"
        <5>1. Lags(j, m, f)' BY <1>1, <2>3, <4>1
        <5>2. QED BY <3>2, <5>1 DEF CacheAgrees
      <4>2. CASE work'[m].at = "result"
        <5>1. cache'[m][f] = server'[m][f] BY <2>3, <3>2, <4>2
        <5>2. \A k \in Jobs : Lags(k, m, f) => k = j BY <3>1 DEF Lags
        <5>3. \A k \in Jobs : ~Lags(k, m, f)' BY <1>1, <4>2, <5>2, OthersAsk
        <5>4. QED BY <5>1, <5>3 DEF CacheAgrees
      <4>3. QED BY <4>1, <4>2
    <3>4. OwnerPrevails(m, f)'
      <4>0. owner[m][f] \in Jobs \cup {0} /\ f \in Fields BY DEF HistoryInv, TypeOK
      <4>1. PICK o \in Jobs : o = owner[m][f] BY <3>1, <4>0 DEF Jobs
      <4>2. owner'[m][f] = o /\ jobs'[o].decision = jobs[o].decision BY <4>1 DEF Only
      <4>3. CASE o = j
        <5>1. items[j][m].undo => f \in DOMAIN items[j][m].receipt.before
          BY <3>1 DEF Wanted
        <5>2. server'[m][f] = Wanted(j, m)'[f] BY <1>2, <3>1, <3>2
        <5>3. OwnerHas(j, m, f)' BY <5>1, <5>2 DEF OwnerHas
        <5>4. QED BY <4>2, <4>3, <5>3 DEF OwnerPrevails
      <4>4. CASE o # j
        <5>1. Waits(o, m) BY <3>1, <4>1, <4>4 DEF Jobs
        <5>2. items'[o][m] = items[o][m] BY <4>4 DEF Only
        <5>3. ~Authorised(o, m)
          BY <4>4, <5>1 DEF Authorised, AtServer, Waits
        <5>4. ~Authorised(o, m)' BY <4>4, <5>3, OthersAsk
        <5>5. OwnerHas(o, m, f)' BY <5>1, <5>2, <5>4 DEF OwnerHas, Waits
        <5>6. QED BY <4>2, <5>5 DEF OwnerPrevails
      <4>5. QED BY <4>3, <4>4
    <3>5. QED BY <3>3, <3>4
  <2>4. QED BY <2>2, <2>3
<1>6. QED BY <1>3, <1>5 DEF Agreed

(* The answer is recorded with the item, before the cache shows it. *)
LEMMA AcknowledgedAgrees ==
    ASSUME HistoryInv, NEW j \in Jobs, NEW m \in Messages, Only(j, m), Agreed(m),
           work[m].job = j, work[m].at = "answered", items[j][m].status = "running",
           items'[j][m].status = "repair", items'[j][m].ack = work[m].change,
           items'[j][m].undo = items[j][m].undo, items'[j][m].receipt = items[j][m].receipt,
           UNCHANGED <<server[m], cache[m], touched[m]>>
    PROVE  Agreed(m)'
<1>1. Given(j, m)' = Given(j, m) BY DEF Given, AtServer
<1>2. Wanted(j, m)' = Wanted(j, m) BY DEF Wanted, Only
<1>3. \A f : /\ Asks(j, m, f)' <=> Asks(j, m, f)
             /\ Lags(j, m, f) <=> Asks(j, m, f)
             /\ Lags(j, m, f)' <=> Asks(j, m, f)
  BY <1>1 DEF Asks, Lags
<1>4. AskedByOwner(m)'
  <2>1. \A f \in Fields : Asks(j, m, f)' =>
               /\ Asks(j, m, f) /\ Given(j, m)'.after[f] = Given(j, m).after[f]
               /\ f \in DOMAIN Wanted(j, m)' /\ Wanted(j, m)'[f] = Wanted(j, m)[f]
    BY <1>1, <1>2, <1>3 DEF Agreed, AskedByOwner
  <2>2. Waits(j, m) => Waits(j, m)' BY DEF Waits
  <2>3. QED BY <2>1, <2>2, AskedKept DEF Agreed
<1>5. Lost(m) => Lost(m)'
  <2>1. ~Unreported(j, m) BY DEF Unreported, AtServer
  <2>2. QED BY <2>1, LostStays
<1>6. ASSUME ~Lost(m)', NEW f \in Fields \ touched'[m]
      PROVE  (CacheAgrees(m, f) /\ OwnerPrevails(m, f))'
  <2>1. CacheAgrees(m, f) /\ OwnerPrevails(m, f) BY <1>5, <1>6 DEF Agreed
  <2>2. CacheAgrees(m, f)' BY <1>1, <1>3, <2>1, CacheKept
  <2>3. CASE owner[m][f] # j BY <2>1, <2>2, <2>3, PrevailsKept
  <2>4. CASE owner[m][f] = j
    <3>1. OwnerHas(j, m, f) BY <2>1, <2>4 DEF OwnerPrevails, Jobs
    <3>2. jobs'[j].decision = jobs[j].decision /\ owner'[m][f] = j BY <2>4 DEF Only
    <3>3. f \in DOMAIN Wanted(j, m) => server[m][f] = Wanted(j, m)[f]
      <4>1. CASE Asks(j, m, f)
        <5>1. /\ Given(j, m).after[f] = Wanted(j, m)[f]
              /\ \A k \in Jobs : Asks(k, m, f) => k = j
          BY <4>1 DEF Agreed, AskedByOwner
        <5>2. \A k \in Jobs : Lags(k, m, f) => k = j BY <5>1 DEF Lags
        <5>3. Lags(j, m, f) BY <1>3, <4>1
        <5>4. server[m][f] = Given(j, m).after[f] BY <2>1, <5>2, <5>3 DEF CacheAgrees
        <5>5. QED BY <5>1, <5>4
      <4>2. CASE ~Asks(j, m, f)
        <5>1. Authorised(j, m) BY DEF Authorised, AtServer
        <5>2. QED BY <3>1, <4>2, <5>1 DEF OwnerHas
      <4>3. QED BY <4>1, <4>2
    <3>4. OwnerHas(j, m, f)' BY <1>2, <3>1, <3>2, <3>3 DEF OwnerHas
    <3>5. QED BY <2>2, <3>2, <3>4 DEF OwnerPrevails
  <2>5. QED BY <2>3, <2>4
<1>7. QED BY <1>4, <1>6 DEF Agreed

LEMMA WantedIs ==
    ASSUME HistoryInv, NEW j \in Jobs, NEW m \in Messages
    PROVE  /\ \A f \in Fields :
                 /\ f \in DOMAIN Target(j, m) <=> (f \in DOMAIN Wanted(j, m) /\ owner[m][f] = j)
                 /\ f \in DOMAIN Target(j, m) => Target(j, m)[f] = Wanted(j, m)[f]
           /\ \A f \in Fields :
                 /\ f \in DOMAIN Change(m, Target(j, m)).after
                       <=> (f \in DOMAIN Target(j, m) /\ cache[m][f] # Target(j, m)[f])
                 /\ f \in DOMAIN Change(m, Target(j, m)).after
                       => Change(m, Target(j, m)).after[f] = Target(j, m)[f]
<1>1. Target(j, m) = [f \in DOMAIN Wanted(j, m) \cap Owned(j, m) |-> Wanted(j, m)[f]]
  BY DEF Target, Wanted
<1>2. \A f \in Fields : f \in Owned(j, m) <=> owner[m][f] = j BY DEF Owned, Owns
<1> DEFINE want == Target(j, m)
<1>3. Change(m, want).after = [f \in {g \in DOMAIN want : cache[m][g] # want[g]} |-> want[f]]
  BY DEF Change, Differs
<1>4. \A f \in Fields :
          /\ f \in DOMAIN want <=> (f \in DOMAIN Wanted(j, m) /\ owner[m][f] = j)
          /\ f \in DOMAIN want => want[f] = Wanted(j, m)[f]
  BY <1>1, <1>2
<1> HIDE DEF want
<1>5. \A f \in Fields :
          /\ f \in DOMAIN Change(m, want).after
                <=> (f \in DOMAIN want /\ cache[m][f] # want[f])
          /\ f \in DOMAIN Change(m, want).after => Change(m, want).after[f] = want[f]
  BY <1>3
<1>6. QED BY <1>4, <1>5 DEF want

(* An item asks the server for what it still owns, or finds that all is so. *)
LEMMA AskingAgrees ==
    ASSUME HistoryInv, NEW j \in Jobs, NEW m \in Messages, Only(j, m), Agreed(m),
           work[m].job = j, work[m].at = "claimed", <<j, m>> \notin took,
           UNCHANGED <<items[j][m], server[m], cache[m], touched[m]>>,
           items[j][m].status = "running", work'[m].job = j,
           \/ work'[m].at = "sending" /\ work'[m].change = Change(m, Target(j, m))
           \/ /\ work'[m].at = "result" /\ work'[m].result = "unchanged"
              /\ \A f \in DOMAIN Target(j, m) : cache[m][f] = Target(j, m)[f]
    PROVE  Agreed(m)'
<1>1. \A f : ~Asks(j, m, f) BY ValuesAre DEF Asks, Given, AtServer
<1>2. Wanted(j, m)' = Wanted(j, m) BY DEF Wanted, Only
<1>3. ASSUME NEW f \in Fields, NEW k \in Jobs, owner[m][f] = j PROVE ~Asks(k, m, f)
  <2>1. ~Waits(j, m) BY DEF Waits
  <2>2. CASE k = j BY <1>1, <2>2
  <2>3. CASE k # j BY <1>3, <2>1, <2>3 DEF Agreed, AskedByOwner, Jobs
  <2>4. QED BY <2>2, <2>3
<1>4. \A f \in Fields : Asks(j, m, f)' =>
          /\ owner[m][f] = j /\ f \in DOMAIN Wanted(j, m)
          /\ Given(j, m)'.after[f] = Wanted(j, m)[f]
          /\ work'[m].at = "sending"
  <2>1. CASE work'[m].at = "sending" /\ work'[m].change = Change(m, Target(j, m))
    <3>1. Given(j, m)' = Change(m, Target(j, m)) BY <2>1 DEF Given, AtServer
    <3>2. \A f \in Fields :
              Asks(j, m, f)' <=> f \in DOMAIN Change(m, Target(j, m)).after
      BY <3>1 DEF Asks
    <3>3. QED BY <2>1, <3>1, <3>2, WantedIs
  <2>2. CASE work'[m].at = "result" /\ work'[m].result = "unchanged"
    BY <2>2, ValuesAre DEF Asks, Given, AtServer
  <2>3. QED BY <2>1, <2>2
<1>5. ASSUME NEW f \in Fields, owner[m][f] = j, f \in DOMAIN Wanted(j, m), ~Asks(j, m, f)'
      PROVE  cache[m][f] = Wanted(j, m)[f]
  <2>1. f \in DOMAIN Target(j, m) /\ Target(j, m)[f] = Wanted(j, m)[f] BY <1>5, WantedIs
  <2>2. CASE work'[m].at = "sending" /\ work'[m].change = Change(m, Target(j, m))
    <3>1. Given(j, m)' = Change(m, Target(j, m)) BY <2>2 DEF Given, AtServer
    <3>2. f \notin DOMAIN Change(m, Target(j, m)).after BY <1>5, <3>1 DEF Asks
    <3>3. QED BY <2>1, <3>2, WantedIs
  <2>3. QED BY <2>1, <2>2
<1>6. AskedByOwner(m)'
  <2> SUFFICES ASSUME NEW k \in Jobs, NEW f \in Fields, Asks(k, m, f)'
               PROVE  /\ f \in DOMAIN Wanted(k, m)' /\ Given(k, m)'.after[f] = Wanted(k, m)'[f]
                      /\ owner[m][f] >= k
                      /\ owner[m][f] > k => Waits(owner[m][f], m)'
                      /\ \A l \in Jobs : Asks(l, m, f)' => l = k
    BY DEF AskedByOwner, Only, Waits
  <2>1. CASE k = j
    <3>1. owner[m][f] = j BY <1>4, <2>1
    <3>2. \A l \in Jobs : Asks(l, m, f)' => l = j BY <1>3, <3>1, OthersAsk
    <3>3. QED BY <1>2, <1>4, <2>1, <3>1, <3>2 DEF Jobs
  <2>2. CASE k # j
    <3>1. Asks(k, m, f) BY <2>2, OthersAsk
    <3>2. owner[m][f] # j BY <1>3, <3>1
    <3>3. \A l \in Jobs : Asks(l, m, f)' => Asks(l, m, f) BY <1>4, <3>2, OthersAsk
    <3>4. /\ f \in DOMAIN Wanted(k, m) /\ Given(k, m).after[f] = Wanted(k, m)[f]
          /\ owner[m][f] >= k /\ (owner[m][f] > k => Waits(owner[m][f], m))
          /\ \A l \in Jobs : Asks(l, m, f) => l = k
      BY <3>1 DEF Agreed, AskedByOwner
    <3>5. owner[m][f] > k => Waits(owner[m][f], m)'
      <4>0. owner[m][f] \in Jobs \cup {0} BY DEF HistoryInv, TypeOK
      <4> SUFFICES ASSUME owner[m][f] > k PROVE Waits(owner[m][f], m)' OBVIOUS
      <4>1. PICK o \in Jobs : o = owner[m][f] BY <4>0 DEF Jobs
      <4>2. Waits(o, m) /\ items'[o][m] = items[o][m] BY <3>2, <3>4, <4>1 DEF Only
      <4>3. QED BY <4>1, <4>2 DEF Waits, Only
    <3>6. QED BY <2>2, <3>3, <3>4, <3>5, OthersAsk
  <2>3. QED BY <2>1, <2>2
<1>7. Lost(m) => Lost(m)'
  <2>1. ~Unreported(j, m) BY DEF Unreported
  <2>2. QED BY <2>1, LostStays
<1>8. ASSUME ~Lost(m)', NEW f \in Fields \ touched'[m]
      PROVE  (CacheAgrees(m, f) /\ OwnerPrevails(m, f))'
  <2>1. CacheAgrees(m, f) /\ OwnerPrevails(m, f) BY <1>7, <1>8 DEF Agreed
  <2>a. ~Lags(j, m, f) /\ ~Lags(j, m, f)' BY <1>1, <1>4 DEF Lags
  <2>2. CacheAgrees(m, f)' BY <2>1, <2>a, CacheKept
  <2>3. CASE owner[m][f] # j BY <2>1, <2>2, <2>3, PrevailsKept
  <2>4. CASE owner[m][f] = j
    <3>1. OwnerHas(j, m, f) BY <2>1, <2>4 DEF OwnerPrevails, Jobs
    <3>2. jobs'[j].decision = jobs[j].decision /\ owner'[m][f] = j BY <2>4 DEF Only
    <3>3. \A k \in Jobs : ~Lags(k, m, f) BY <1>3, <2>4 DEF Lags
    <3>4. server[m][f] = cache[m][f] BY <2>1, <3>3 DEF CacheAgrees
    <3>5. /\ f \in DOMAIN Wanted(j, m)'
          /\ ~Asks(j, m, f)' \/ work'[m].at = "result"
          => server[m][f] = Wanted(j, m)'[f]
      BY <1>2, <1>4, <1>5, <2>4, <3>4
    <3>6. OwnerHas(j, m, f)' BY <3>1, <3>2, <3>5 DEF OwnerHas
    <3>7. QED BY <2>2, <3>2, <3>6 DEF OwnerPrevails
  <2>5. QED BY <2>3, <2>4
<1>9. QED BY <1>6, <1>8 DEF Agreed

(* A new decision is admitted. *)
LEMMA AdmitAgrees ==
    ASSUME HistoryInv, DecisionInv, NEW S \in SUBSET Messages, NEW d \in Decisions, Admit(S, d),
           NEW m \in Messages
    PROVE  Agreed(m)'
<1>0. PICK j : j = count + 1 OBVIOUS
<1>a. Admits(S, d, j) BY <1>0, AdmitIs
<1>b. j \in Jobs /\ Agreed(m) BY <1>a DEF Admits, DecisionInv
<1>c. UNCHANGED <<cache, server, work, took, touched>> BY <1>a DEF Admits
<1>d. \A k \in Jobs \ {j} : jobs'[k] = jobs[k] BY <1>a DEF Admits
<1>e. items[j][m].status = "none" /\ ItemIsTrue(j, m) BY <1>a DEF Admits
<1>f. \A k \in Jobs, n \in Messages :
          \/ items'[k][n] = items[k][n] /\ ~(k = j /\ n \in S)
          \/ k = j /\ n \in S /\ items'[k][n] = [NoItem EXCEPT !.status = "queued"]
          \/ /\ k # j /\ n \in S /\ items[k][n].status = "queued"
             /\ items'[k][n] = [items[k][n] EXCEPT !.status = "cancelled"]
  BY <1>a DEF Admits
<1>g. m \in S => items'[j][m].status = "queued" /\ ~items'[j][m].undo
  BY <1>b, <1>f, ZenonT(60) DEF NoItem
<1>1. ASSUME NEW k \in Jobs
      PROVE  \/ items'[k][m] = items[k][m]
             \/ k = j /\ items'[k][m].status = "queued" /\ ~items'[k][m].undo
             \/ /\ k # j /\ items[k][m].status = "queued" /\ items'[k][m].status = "cancelled"
                /\ items'[k][m].undo = items[k][m].undo
                /\ items'[k][m].receipt = items[k][m].receipt
  <2>1. \/ items'[k][m] = items[k][m]
        \/ k = j /\ items'[k][m] = [NoItem EXCEPT !.status = "queued"]
        \/ /\ k # j /\ items[k][m].status = "queued"
           /\ items'[k][m] = [items[k][m] EXCEPT !.status = "cancelled"]
    BY <1>f
  <2>2. items[k][m] \in Item BY DEF HistoryInv, TypeOK
  <2>3. QED BY <2>1, <2>2 DEF NoItem, Item
<1>2. ASSUME NEW k \in Jobs
      PROVE  /\ AtServer(k, m)' <=> AtServer(k, m)
             /\ items'[k][m] # items[k][m] =>
                   ~AtServer(k, m) /\ work[m].job # k /\ <<k, m>> \notin took
  <2>1. AtServer(k, m)' <=> AtServer(k, m) BY <1>c DEF AtServer
  <2>2. StepIsTrue(k, m) /\ ItemIsTrue(k, m) BY DEF HistoryInv
  <2>3. items'[k][m] # items[k][m] => items[k][m].status \in {"none", "queued"}
    BY <1>1, <1>e
  <2>4. QED BY <2>1, <2>2, <2>3 DEF AtServer, StepIsTrue, ItemIsTrue
<1>3. ASSUME NEW k \in Jobs
      PROVE  /\ Given(k, m)' = Given(k, m)
             /\ \A f : Asks(k, m, f)' <=> Asks(k, m, f)
             /\ \A f : Lags(k, m, f)' <=> Lags(k, m, f)
             /\ Unreported(k, m) <=> Unreported(k, m)'
             /\ Authorised(k, m) <=> Authorised(k, m)'
  <2>1. \/ items'[k][m] = items[k][m]
        \/ items'[k][m].status # "repair" /\ items[k][m].status # "repair"
    BY <1>1, <1>e
  <2>2. Given(k, m)' = Given(k, m) BY <1>2, <1>c, <2>1 DEF Given
  <2>3. \A f : Asks(k, m, f)' <=> Asks(k, m, f) BY <2>2 DEF Asks
  <2>4. \A f : Lags(k, m, f)' <=> Lags(k, m, f) BY <1>c, <2>1, <2>3 DEF Lags
  <2>5. Unreported(k, m) <=> Unreported(k, m)' BY <1>2, <1>c DEF Unreported
  <2>6. Authorised(k, m) <=> Authorised(k, m)' BY <1>2, <1>c, <2>1 DEF Authorised
  <2>7. QED BY <2>2, <2>3, <2>4, <2>5, <2>6
<1>4. ASSUME NEW k \in Jobs, NEW f, Asks(k, m, f) PROVE k < j
  <2>1. items[k][m].status = "repair" \/ AtServer(k, m) BY <1>4, ValuesAre DEF Asks, Given
  <2>2. items[k][m].status # "none" BY <2>1 DEF HistoryInv, StepIsTrue, AtServer
  <2>3. ~(k > count) BY <2>2 DEF HistoryInv, ItemIsTrue
  <2>4. QED BY <1>0, <2>3 DEF HistoryInv, TypeOK, Jobs
<1>5. ASSUME NEW k \in Jobs, k # j
      PROVE  /\ Waits(k, m) => Waits(k, m)'
             /\ items'[k][m].undo = items[k][m].undo
             /\ items'[k][m].receipt = items[k][m].receipt
             /\ Wanted(k, m)' = Wanted(k, m)
             /\ items'[k][m].status # items[k][m].status => items'[k][m].status = "cancelled"
  BY <1>1, <1>5, <1>d DEF Waits, Wanted
<1>6. \A f \in Fields : (owner'[m][f] = j /\ m \in S) \/ owner'[m][f] = owner[m][f]
  BY <1>a DEF Admits
<1>7. ASSUME NEW f \in Fields PROVE owner[m][f] \in Jobs \cup {0} /\ owner[m][f] # j
  <2>1. owner[m][f] \in Jobs \cup {0} BY DEF HistoryInv, TypeOK
  <2>2. owner[m][f] # j BY <1>b, <1>e DEF HistoryInv, OwnersDecide, Jobs
  <2>3. QED BY <2>1, <2>2
<1>8. AskedByOwner(m)'
  <2> SUFFICES ASSUME NEW k \in Jobs, NEW f \in Fields, Asks(k, m, f)'
               PROVE  /\ f \in DOMAIN Wanted(k, m)' /\ Given(k, m)'.after[f] = Wanted(k, m)'[f]
                      /\ owner'[m][f] >= k
                      /\ owner'[m][f] > k => Waits(owner[m][f], m)' \/ owner'[m][f] = j
                      /\ \A l \in Jobs : Asks(l, m, f)' => l = k
    <3>1. \A f \in Fields : owner'[m][f] = j => Waits(j, m)'
      BY <1>6, <1>7, <1>g DEF Waits
    <3>2. QED BY <1>6, <3>1 DEF AskedByOwner, Waits
  <2>1. Asks(k, m, f) /\ k < j /\ k # j BY <1>3, <1>4, <1>0 DEF Jobs, HistoryInv, TypeOK
  <2>2. /\ f \in DOMAIN Wanted(k, m) /\ Given(k, m).after[f] = Wanted(k, m)[f]
        /\ owner[m][f] >= k /\ (owner[m][f] > k => Waits(owner[m][f], m))
        /\ \A l \in Jobs : Asks(l, m, f) => l = k
    BY <1>b, <2>1 DEF Agreed, AskedByOwner
  <2>3. owner'[m][f] >= k
    BY <1>6, <1>b, <2>1, <2>2 DEF Jobs
  <2>4. owner'[m][f] > k => Waits(owner[m][f], m)' \/ owner'[m][f] = j
    <3>1. CASE owner'[m][f] = j BY <3>1
    <3>2. CASE owner'[m][f] # j
      <4>1. owner'[m][f] = owner[m][f] BY <1>6, <3>2
      <4>2. PICK o : o = owner[m][f] OBVIOUS
      <4>3. o > k => o \in Jobs /\ o # j BY <1>7, <4>2 DEF Jobs
      <4>4. o > k => Waits(o, m)' BY <1>5, <2>2, <4>2, <4>3
      <4>5. owner'[m][f] = o BY <4>1, <4>2
      <4>6. QED BY <4>4, <4>5 DEF Waits
    <3>3. QED BY <3>1, <3>2
  <2>5. QED BY <1>3, <1>5, <2>1, <2>2, <2>3, <2>4
<1>9. Lost(m) <=> Lost(m)' BY <1>3 DEF Lost
<1>10. ASSUME ~Lost(m)', NEW f \in Fields \ touched'[m]
       PROVE  (CacheAgrees(m, f) /\ OwnerPrevails(m, f))'
  <2>1. CacheAgrees(m, f) /\ OwnerPrevails(m, f) BY <1>9, <1>10, <1>b, <1>c DEF Agreed
  <2>2. CacheAgrees(m, f)' BY <1>3, <1>c, <2>1 DEF CacheAgrees
  <2>3. CASE owner'[m][f] = j
    <3>1. items'[j][m].status = "queued" /\ ~items'[j][m].undo
      BY <1>6, <1>7, <1>g, <2>3
    <3>2. ~Authorised(j, m)
      BY <1>b, <1>e DEF Authorised, AtServer, HistoryInv, StepIsTrue
    <3>3. OwnerHas(j, m, f)' BY <1>3, <1>b, <3>1, <3>2 DEF OwnerHas
    <3>4. QED BY <2>2, <2>3, <3>3 DEF OwnerPrevails
  <2>4. CASE owner'[m][f] = owner[m][f] /\ owner[m][f] # 0
    <3>1. PICK o \in Jobs : o = owner[m][f] /\ o # j BY <1>7, <2>4
    <3>2. OwnerHas(o, m, f) BY <2>1, <2>4, <3>1 DEF OwnerPrevails
    <3>3. Decided(o, m, f)' = Decided(o, m, f) BY <1>5, <1>d, <3>1 DEF Decided
    <3>4. /\ items'[o][m].undo = items[o][m].undo /\ items'[o][m].receipt = items[o][m].receipt
          /\ Wanted(o, m)' = Wanted(o, m) /\ jobs'[o].decision = jobs[o].decision
          /\ items'[o][m].status \in {"done", "repair"} => items'[o][m].status = items[o][m].status
      BY <1>5, <1>d, <3>1
    <3>5. OwnerHas(o, m, f)' BY <1>3, <1>c, <3>1, <3>2, <3>3, <3>4 DEF OwnerHas
    <3>6. QED BY <2>2, <2>4, <3>1, <3>5 DEF OwnerPrevails
  <2>5. CASE owner'[m][f] = 0 BY <2>2, <2>5 DEF OwnerPrevails
  <2>6. QED BY <1>6, <2>3, <2>4, <2>5
<1>11. QED BY <1>8, <1>10 DEF Agreed

LEMMA OneMessage ==
    ASSUME HistoryInv, DecisionInv, NEW m \in Messages, Agreed(m)',
           \A n \in Messages \ {m} : Same(n)
    PROVE  DecisionInv'
BY SameAgrees DEF DecisionInv

LEMMA UndoAgrees ==
    ASSUME HistoryInv, DecisionInv, NEW j \in Jobs, RequestUndo(j), NEW m \in Messages
    PROVE  Agreed(m)'
<1> DEFINE M == {n \in Messages : items'[j][n].status = "queued" /\ items[j][n].status # "queued"}
<1>1. /\ \A k \in Jobs : jobs'[k].decision = jobs[k].decision
      /\ UNCHANGED <<owner, cache, server, work, touched>> /\ Renew(j, M)
  BY DEF RequestUndo, HistoryInv, TypeOK
<1>2. m \in M <=> items'[j][m].status = "queued" /\ items[j][m].status # "queued" OBVIOUS
<1> HIDE DEF M
<1>3. \A k \in Jobs : <<k, m>> \in took' <=> <<k, m>> \in took /\ ~(k = j /\ m \in M)
  BY <1>1, RenewIs DEF HistoryInv, TypeOK
<1>4. /\ \A k \in Jobs \ {j} : items'[k][m] = items[k][m]
      /\ items'[j][m] = Undone(j, m)
  BY DEF RequestUndo, HistoryInv, TypeOK
<1>5. Only(j, m) BY <1>1, <1>3, <1>4 DEF Only
<1>6. Agreed(m) /\ ItemIsTrue(j, m) /\ StepIsTrue(j, m) BY DEF DecisionInv, HistoryInv
<1>7. CASE items'[j][m] = items[j][m]
  <2>1. Same(m) BY <1>1, <1>2, <1>3, <1>4, <1>7 DEF Same
  <2>2. QED BY <1>6, <2>1, SameAgrees
<1>8. CASE items'[j][m] # items[j][m]
  <2> DEFINE i == items[j][m]
             k == items'[j][m]
  <2>1. \/ /\ Reversible(i) /\ i.status \in {"done", "failed"}
           /\ k.status \in {"queued", "cancelled"} /\ k.undo /\ k.receipt = i.receipt
           /\ k.status = "cancelled" => Owned(j, m) = {}
        \/ /\ i.status = "queued" /\ k.status = "cancelled" /\ k.undo = i.undo
           /\ k.receipt = i.receipt
    BY <1>4, <1>8, UndoneIs
  <2>2. i.status \in {"queued", "done", "failed"} /\ k.status \in {"queued", "cancelled"} BY <2>1
  <2>3. work[m].job # j /\ work'[m].job # j BY <1>1, <1>6, <2>2 DEF StepIsTrue
  <2>4. Given(j, m) = Unchanged /\ Given(j, m)' = Unchanged BY <2>2, <2>3 DEF Given, AtServer
  <2>5. ~Authorised(j, m)' /\ k.status # "done" BY <2>2, <2>3 DEF Authorised, AtServer
  <2>6. Waits(j, m) => Waits(j, m)' BY <2>1 DEF Waits
  <2>7. ~Unreported(j, m) BY <2>2 DEF Unreported
  <2>8. \A f \in Fields : ~Lags(j, m, f) BY <2>4, ValuesAre DEF Lags, Asks
  <2>9. ASSUME NEW f \in Fields, OwnerHas(j, m, f), k.undo, f \notin DOMAIN k.receipt.before
        PROVE  server[m][f] = jobs[j].decision[f]
    <3>1. CASE i.undo BY <2>1, <2>9, <3>1 DEF OwnerHas
    <3>2. CASE ~i.undo
      <4>1. i.status = "done" BY <2>1, <2>9, <3>2 DEF Reversible
      <4>2. QED BY <2>9, <3>2, <4>1 DEF OwnerHas, Decided
    <3>3. QED BY <3>1, <3>2
  <2>10. UNCHANGED <<server[m], cache[m]>> BY <1>1
  <2>11. QED BY <1>5, <1>6, <2>4, <2>5, <2>6, <2>7, <2>8, <2>9, <2>10, RestingAgrees
<1>9. QED BY <1>7, <1>8

(* A wait for an answer ends without one. *)
LEMMA EndedAgrees ==
    ASSUME HistoryInv, NEW j \in Jobs, NEW m \in Messages, Agreed(m),
           \A k \in Jobs \ {j} : items'[k][m] = items[k][m],
           \/ items'[j][m] = items[j][m]
           \/ /\ items[j][m].status \in {"running", "uncertain"} /\ work[m].job # j
              /\ \E status \in {"uncertain", "cancelled"} :
                    items'[j][m] = [items[j][m] EXCEPT !.status = status],
           UNCHANGED <<jobs, owner, cache, server, work, took, touched>>
    PROVE  Agreed(m)'
<1>1. CASE items'[j][m] = items[j][m]
  <2>1. Same(m) BY <1>1 DEF Same
  <2>2. QED BY <2>1, SameAgrees
<1>2. CASE items'[j][m] # items[j][m]
  <2>1. PICK status \in {"uncertain", "cancelled"} :
            items'[j][m] = [items[j][m] EXCEPT !.status = status]
    BY <1>2
  <2>2. items[j][m] \in Item BY DEF HistoryInv, TypeOK
  <2>3. /\ items'[j][m].status \in {"uncertain", "cancelled"}
        /\ items'[j][m].undo = items[j][m].undo /\ items'[j][m].receipt = items[j][m].receipt
    BY <2>1, <2>2 DEF Item
  <2>4. /\ items[j][m].status \in {"running", "uncertain"}
        /\ work[m].job # j /\ work'[m].job # j
    BY <1>2
  <2>5. Only(j, m) BY DEF Only
  <2>6. Given(j, m) = Unchanged /\ Given(j, m)' = Unchanged BY <2>3, <2>4 DEF Given, AtServer
  <2>7. /\ ~Authorised(j, m)' /\ items'[j][m].status # "done" /\ ~Waits(j, m)
        /\ Unreported(j, m) => Unreported(j, m)'
    BY <2>3, <2>4 DEF Authorised, AtServer, Waits, Unreported
  <2>8. \A f \in Fields : ~Lags(j, m, f) BY <2>6, ValuesAre DEF Lags, Asks
  <2>9. \A f \in Fields : OwnerHas(j, m, f) /\ items'[j][m].undo
              /\ f \notin DOMAIN items'[j][m].receipt.before
            => server[m][f] = jobs[j].decision[f]
    BY <2>3 DEF OwnerHas
  <2>10. UNCHANGED <<server[m], cache[m]>> OBVIOUS
  <2>11. QED BY <2>5, <2>6, <2>7, <2>8, <2>9, <2>10, RestingAgrees
<1>3. QED BY <1>1, <1>2

LEMMA AcceptAgrees ==
    ASSUME HistoryInv, DecisionInv, NEW j \in Jobs, AcceptUncertainty(j) \/ Resume(j),
           NEW m \in Messages
    PROVE  Agreed(m)'
<1>1. UNCHANGED <<jobs, owner, cache, server, work, took, touched>>
  BY DEF AcceptUncertainty, Resume
<1>2. \A k \in Jobs \ {j} : items'[k][m] = items[k][m]
  BY DEF AcceptUncertainty, Resume, HistoryInv, TypeOK
<1>3. \/ items'[j][m] = items[j][m]
      \/ /\ items[j][m].status \in {"running", "uncertain"} /\ work[m].job # j
         /\ \E status \in {"uncertain", "cancelled"} :
               items'[j][m] = [items[j][m] EXCEPT !.status = status]
  <2>1. CASE AcceptUncertainty(j)
    <3>1. items'[j][m] = IF items[j][m].status = "uncertain"
                         THEN [items[j][m] EXCEPT !.status = "cancelled"] ELSE items[j][m]
      BY <2>1 DEF AcceptUncertainty, HistoryInv, TypeOK
    <3>2. work[m].job # j BY <2>1 DEF AcceptUncertainty, Leased
    <3>3. QED BY <3>1, <3>2
  <2>2. CASE Resume(j)
    <3>1. items'[j][m] = Interrupted(j, m) BY <2>2 DEF Resume, HistoryInv, TypeOK
    <3>2. QED BY <3>1 DEF Interrupted, Orphan
  <2>3. QED BY <2>1, <2>2
<1>4. Agreed(m) BY DEF DecisionInv
<1>5. QED BY <1>1, <1>2, <1>3, <1>4, EndedAgrees

LEMMA ClaimAgrees ==
    ASSUME HistoryInv, DecisionInv, NEW j \in Jobs, NEW m \in Messages, Claim(j, m)
    PROVE  DecisionInv'
<1>1. /\ UNCHANGED <<jobs, count, owner, cache, present, server, sent, took, touched>>
      /\ items[j][m].status = "queued" /\ work[m] = Idle
      /\ \A k \in 1 .. j - 1 : items[k][m].status \notin Blocking
  BY DEF Claim, Ready, Occupied
<1>2. items[j][m] \in Item /\ Agreed(m) /\ work[m].job = 0 /\ ItemIsTrue(j, m)
  BY <1>1, NoItemIs DEF HistoryInv, TypeOK, DecisionInv
<1>3. PICK status \in {"running", "failed"} : Mark(j, m, status) BY DEF Claim
<1>4. [items[j][m] EXCEPT !.status = status] \in Item
  BY <1>2 DEF Item, Statuses, Blocking, Pending
<1>5. /\ items'[j][m] = [items[j][m] EXCEPT !.status = status]
      /\ \A k \in Jobs, n \in Messages : k # j \/ n # m => items'[k][n] = items[k][n]
  BY <1>3, <1>4, BecomeTurns DEF Mark, HistoryInv, TypeOK
<1>6. /\ items'[j][m].status = status /\ items'[j][m].undo = items[j][m].undo
      /\ items'[j][m].receipt = items[j][m].receipt
  BY <1>2, <1>5 DEF Item
<1>7. /\ \A n \in Messages \ {m} : work'[n] = work[n]
      /\ work'[m].job = 0 \/ (work'[m].job = j /\ work'[m].at = "claimed")
  <2>1. CASE UNCHANGED work BY <1>2, <2>1
  <2>2. CASE ~UNCHANGED work
    <3>1. work' = [work EXCEPT ![m] = [Idle EXCEPT !.job = j, !.at = "claimed"]]
      BY <2>2 DEF Claim
    <3>2. QED BY <3>1 DEF HistoryInv, TypeOK, Idle
  <2>3. QED BY <2>1, <2>2
<1>8. Only(j, m) BY <1>1, <1>2, <1>5, <1>7 DEF Only
<1>9. ~AtServer(j, m) /\ ~AtServer(j, m)' BY <1>2, <1>7 DEF AtServer, Jobs
<1>10. Given(j, m) = Unchanged /\ Given(j, m)' = Unchanged
  BY <1>1, <1>6, <1>9 DEF Given
<1>11. /\ ~Authorised(j, m)' /\ items'[j][m].status # "done"
       /\ ~Unreported(j, m)
  BY <1>1, <1>2, <1>6, <1>7, <1>9 DEF Authorised, Unreported, ItemIsTrue, Jobs
<1>12. ASSUME NEW k \in Jobs, NEW f \in Fields, k < j PROVE ~Asks(k, m, f)
  <2>1. k \in 1 .. j - 1 BY <1>12 DEF Jobs
  <2>2. items[k][m].status # "repair" BY <1>1, <2>1 DEF Blocking, Pending
  <2>3. ~AtServer(k, m) BY <1>2 DEF AtServer, Jobs
  <2>4. QED BY <2>2, <2>3, ValuesAre DEF Asks, Given
<1>13. \A f \in Fields : ~Lags(j, m, f) BY <1>10, ValuesAre DEF Lags, Asks
<1>14. \A f \in Fields : OwnerHas(j, m, f) /\ items'[j][m].undo
             /\ f \notin DOMAIN items'[j][m].receipt.before
           => server[m][f] = jobs[j].decision[f]
  BY <1>6 DEF OwnerHas
<1>15. Agreed(m)'
  <2>1. UNCHANGED <<server[m], cache[m]>> BY <1>1
  <2>2. QED BY <1>2, <1>8, <1>10, <1>11, <1>12, <1>13, <1>14, <2>1, RestingAgrees
<1>16. \A n \in Messages \ {m} : Same(n) BY <1>1, <1>5, <1>7 DEF Same
<1>17. QED BY <1>15, <1>16, OneMessage

LEMMA AuthorizeAgrees ==
    ASSUME HistoryInv, DecisionInv, NEW m \in Messages, Authorize(m)
    PROVE  DecisionInv'
<1>1. PICK j \in Jobs : j = work[m].job BY WorkerIs DEF Authorize
<1>2. /\ work[m] \in Step /\ work[m].at = "claimed" /\ StepIsTrue(j, m) /\ Agreed(m)
      /\ UNCHANGED <<durable, cache, server, took, touched>>
  BY DEF Authorize, HistoryInv, TypeOK, DecisionInv
<1>3. items[j][m].status = "running" /\ <<j, m>> \notin took BY <1>1, <1>2 DEF StepIsTrue
<1>4. /\ \A n \in Messages \ {m} : work'[n] = work[n]
      /\ work'[m].job = j
      /\ \/ /\ Outcome(j, m) = "none" /\ work'[m].at = "sending"
            /\ work'[m].change = Change(m, Target(j, m))
         \/ /\ Outcome(j, m) # "none" /\ work'[m].at = "result"
            /\ work'[m].result = Outcome(j, m)
  BY <1>1, <1>2 DEF Authorize, Step, HistoryInv, TypeOK
<1>5. Only(j, m) BY <1>1, <1>2, <1>4 DEF Only, durable
<1>6. \A n \in Messages \ {m} : Same(n) BY <1>2, <1>4 DEF Same, durable
<1>7. UNCHANGED <<items[j][m], server[m], cache[m], touched[m]>> BY <1>2 DEF durable
<1>8. Agreed(m)'
  <2>1. CASE Outcome(j, m) = "none"
    <3>1. work'[m].at = "sending" /\ work'[m].change = Change(m, Target(j, m))
      BY <1>4, <2>1
    <3>2. QED BY <1>1, <1>2, <1>3, <1>4, <1>5, <1>7, <3>1, AskingAgrees
  <2>2. CASE Outcome(j, m) = "unchanged"
    <3>1. work'[m].at = "result" /\ work'[m].result = "unchanged" BY <1>4, <2>2
    <3>2. \A f \in DOMAIN Target(j, m) : cache[m][f] = Target(j, m)[f]
      <4>0. /\ DOMAIN Target(j, m) = DOMAIN Wanted(j, m) \cap Owned(j, m)
            /\ \A f \in DOMAIN Target(j, m) : Target(j, m)[f] = Wanted(j, m)[f]
        BY TargetIs
      <4>1. CASE items[j][m].undo /\ items[j][m].receipt = Unchanged
        <5>1. DOMAIN Wanted(j, m) = {} BY <4>1, ValuesAre DEF Wanted
        <5>2. QED BY <4>0, <5>1
      <4>2. CASE ~items[j][m].undo /\ ~Elsewhere(j, m)
        <5>1. Wanted(j, m) = [f \in {"location"} |-> cache[m]["location"]]
          BY <4>2 DEF Wanted, Elsewhere
        <5>2. QED BY <4>0, <5>1
      <4>3. CASE Differs(m, Target(j, m)) = {} BY <4>3 DEF Differs
      <4>4. QED BY <2>2, <4>1, <4>2, <4>3 DEF Outcome
    <3>3. QED BY <1>1, <1>2, <1>3, <1>4, <1>5, <1>7, <3>1, <3>2, AskingAgrees
  <2>3. CASE Outcome(j, m) \notin {"none", "unchanged"}
    <3>1. /\ work'[m].at = "result" /\ work'[m].result # "unchanged" /\ work'[m].result # "ok"
      BY <1>4, <2>3 DEF Outcome
    <3>2. items'[j][m] = items[j][m] BY <1>2 DEF durable
    <3>3. ~AtServer(j, m)' /\ ~AtServer(j, m) BY <1>2, <3>1 DEF AtServer
    <3>4. Given(j, m) = Unchanged /\ Given(j, m)' = Unchanged
      BY <1>3, <3>2, <3>3 DEF Given
    <3>5. /\ ~Authorised(j, m)' /\ items'[j][m].status # "done" /\ ~Waits(j, m)
          /\ ~Unreported(j, m)
      BY <1>3, <3>1, <3>2, <3>3 DEF Authorised, Waits, Unreported
    <3>6. \A f \in Fields : ~Lags(j, m, f) BY <3>4, ValuesAre DEF Lags, Asks
    <3>7. \A f \in Fields : OwnerHas(j, m, f) /\ items'[j][m].undo
                /\ f \notin DOMAIN items'[j][m].receipt.before
              => server[m][f] = jobs[j].decision[f]
      BY <3>2 DEF OwnerHas
    <3>8. QED BY <1>2, <1>5, <1>7, <3>4, <3>5, <3>6, <3>7, RestingAgrees
  <2>4. QED BY <2>1, <2>2, <2>3
<1>9. QED BY <1>6, <1>8, OneMessage

LEMMA ServeAgrees ==
    ASSUME HistoryInv, DecisionInv, NEW m \in Messages, Serve(m)
    PROVE  DecisionInv'
<1> DEFINE change == work[m].change
           apply == /\ server' = [server EXCEPT ![m] = Applied(@, change)]
                    /\ took' = took \cup {<<work[m].job, m>>}
           leave == UNCHANGED <<server, took>>
<1>1. PICK j \in Jobs : j = work[m].job BY WorkerIs DEF Serve
<1>2. /\ work[m].at = "sending" /\ change \in Receipt
      /\ UNCHANGED <<durable, touched>>
      /\ \A n \in Messages \ {m} : work'[n] = work[n]
      /\ work'[m].job = j /\ work'[m].change = change
  BY <1>1, ServeIs
<1>3. /\ StepIsTrue(j, m) /\ Agreed(m) BY DEF HistoryInv, DecisionInv
<1>4. items[j][m].status = "running" /\ <<j, m>> \notin took
  BY <1>1, <1>2, <1>3 DEF StepIsTrue
<1>5. \/ /\ apply /\ work'[m].at = "result" /\ work'[m].result = "ok"
         /\ cache' = [cache EXCEPT ![m] = Applied(@, change)]
      \/ apply /\ work'[m].at = "answered" /\ UNCHANGED cache
      \/ leave /\ work'[m].at = "result" /\ work'[m].result = "refused" /\ UNCHANGED cache
      \/ (apply \/ leave) /\ UNCHANGED cache
         /\ work'[m].at = "result" /\ work'[m].result = "unknown"
  BY ServeIs
<1>6. ASSUME apply
      PROVE  /\ \A n \in Messages, f \in Fields : server'[n][f] =
                   IF n = m /\ f \in DOMAIN change.after THEN change.after[f] ELSE server[n][f]
             /\ \A k \in Jobs, n \in Messages : k # j \/ n # m =>
                   (<<k, n>> \in took' <=> <<k, n>> \in took)
             /\ <<j, m>> \in took'
  <2>1. server \in [Messages -> [Fields -> BOOLEAN]] BY DEF HistoryInv, TypeOK
  <2>2. server' = [server EXCEPT ![m] = Applied(server[m], change)] BY <1>6
  <2>3. change \in Receipt BY <1>2
  <2>4. took' = took \cup {<<j, m>>} BY <1>1, <1>6
  <2> HIDE DEF change, apply
  <2>5. \A n \in Messages, f \in Fields : server'[n][f] =
            IF n = m /\ f \in DOMAIN change.after THEN change.after[f] ELSE server[n][f]
    BY <2>1, <2>2, <2>3, ServerIs
  <2>6. QED BY <2>4, <2>5
<1>7. ASSUME cache' = [cache EXCEPT ![m] = Applied(@, change)]
      PROVE  \A n \in Messages, f \in Fields : cache'[n][f] =
                IF n = m /\ f \in DOMAIN change.after THEN change.after[f] ELSE cache[n][f]
  <2>1. cache \in [Messages -> [Fields -> BOOLEAN]] BY DEF HistoryInv, TypeOK
  <2>2. cache' = [cache EXCEPT ![m] = Applied(cache[m], change)] BY <1>7
  <2>3. change \in Receipt BY <1>2
  <2> HIDE DEF change
  <2>4. QED BY <2>1, <2>2, <2>3, ServerIs
<1>a. UNCHANGED <<jobs, items, owner, touched>> BY <1>2 DEF durable
<1>b. apply \/ leave BY <1>5
<1>c. UNCHANGED cache \/ cache' = [cache EXCEPT ![m] = Applied(@, change)] BY <1>5
<1> HIDE DEF apply
<1>8. Only(j, m)
  <2>1. \A k \in Jobs \ {j} : <<k, m>> \in took' <=> <<k, m>> \in took BY <1>b, <1>6
  <2>2. QED BY <1>1, <1>2, <1>a, <2>1 DEF Only
<1>9. ASSUME NEW n \in Messages \ {m} PROVE Same(n)
  <2>1. \A k \in Jobs : <<k, n>> \in took' <=> <<k, n>> \in took BY <1>b, <1>6
  <2>2. \A f \in Fields : server'[n][f] = server[n][f] /\ cache'[n][f] = cache[n][f]
    BY <1>b, <1>c, <1>6, <1>7
  <2>3. QED BY <1>2, <1>a, <2>1, <2>2 DEF Same
<1>10. Given(j, m) = change BY <1>1, <1>2, <1>4 DEF Given, AtServer
<1>11. \A f : Asks(j, m, f) <=> f \in DOMAIN change.after BY <1>10 DEF Asks
<1>12. Agreed(m)'
  <2>1. CASE apply /\ (work'[m].at = "answered" \/ (work'[m].at = "result" /\ work'[m].result = "ok"))
    <3>1. items'[j][m] = items[j][m] BY <1>a
    <3>2. AtServer(j, m)' BY <1>2, <2>1 DEF AtServer
    <3>3. Given(j, m)' = Given(j, m) BY <1>2, <1>4, <1>10, <3>1, <3>2 DEF Given
    <3>4. \A f \in Fields :
              server'[m][f] = IF Asks(j, m, f) THEN Given(j, m).after[f] ELSE server[m][f]
      BY <1>6, <1>10, <1>11, <2>1
    <3>5. \/ work'[m].at = "answered" /\ UNCHANGED cache[m]
          \/ /\ work'[m].at = "result"
             /\ \A f \in Fields :
                   cache'[m][f] = IF Asks(j, m, f) THEN Given(j, m).after[f] ELSE cache[m][f]
      BY <1>5, <1>7, <1>10, <1>11, <2>1
    <3>6. UNCHANGED <<items[j][m], touched[m]>> BY <1>a
    <3> HIDE DEF change
    <3>7. QED BY <1>1, <1>2, <1>3, <1>4, <1>8, <3>3, <3>4, <3>5, <3>6, ServedAgrees
  <2>2. CASE /\ UNCHANGED cache /\ work'[m].at = "result"
             /\ work'[m].result \in {"refused", "unknown"}
    <3>1. items'[j][m] = items[j][m] BY <1>a
    <3>2. ~AtServer(j, m)' BY <2>2 DEF AtServer
    <3>3. Given(j, m)' = Unchanged BY <1>4, <3>1, <3>2 DEF Given
    <3>4. /\ ~Authorised(j, m)' /\ items'[j][m].status # "done" /\ ~Waits(j, m)
          /\ ~Unreported(j, m)
      BY <1>4, <2>2, <3>1, <3>2 DEF Authorised, Waits, Unreported
    <3>5. \A f \in Fields : ~Lags(j, m, f) BY <1>2, <1>4 DEF Lags
    <3>6. \A f \in Fields : OwnerHas(j, m, f) /\ items'[j][m].undo
                /\ f \notin DOMAIN items'[j][m].receipt.before
              => server[m][f] = jobs[j].decision[f]
      BY <3>1 DEF OwnerHas
    <3>7. apply => Lost(m)'
      BY <1>4, <1>6, <3>1, <3>2 DEF Lost, Unreported
    <3>8. leave => UNCHANGED <<server[m], cache[m]>> BY <2>2
    <3>9. QED
      BY <1>3, <1>8, <1>b, <3>3, <3>4, <3>5, <3>6, <3>7, <3>8, RestingAgrees
  <2>3. QED BY <1>5, <2>1, <2>2
<1>13. QED BY <1>9, <1>12, OneMessage

LEMMA AcknowledgeAgrees ==
    ASSUME HistoryInv, DecisionInv, NEW m \in Messages, Acknowledge(m)
    PROVE  DecisionInv'
<1>1. PICK j \in Jobs : j = work[m].job BY WorkerIs DEF Acknowledge
<1>2. /\ StepIsTrue(j, m) /\ items[j][m] \in Item /\ Agreed(m)
      /\ work[m].at = "answered" /\ work[m].change \in Receipt
      /\ UNCHANGED <<jobs, owner, cache, server, took, touched>>
  BY <1>1 DEF HistoryInv, TypeOK, Acknowledge, Step, DecisionInv
<1>3. items[j][m].status = "running" BY <1>1, <1>2 DEF StepIsTrue
<1> DEFINE next == [items[j][m] EXCEPT !.status = "repair", !.ack = work[m].change]
<1>4. /\ next \in Item /\ next.status = "repair" /\ next.ack = work[m].change
      /\ next.undo = items[j][m].undo /\ next.receipt = items[j][m].receipt
  BY <1>2 DEF Item, Statuses, Blocking, Pending
<1>5. Become(j, m, next) BY <1>1 DEF Acknowledge
<1> HIDE DEF next
<1>6. /\ items'[j][m] = next
      /\ \A k \in Jobs, n \in Messages : k # j \/ n # m => items'[k][n] = items[k][n]
  BY <1>4, <1>5, BecomeTurns DEF HistoryInv, TypeOK
<1>7. /\ \A n \in Messages \ {m} : work'[n] = work[n]
      /\ work'[m].job = j
  <2>1. work' = [work EXCEPT ![m].at = "result", ![m].result = "ok"] BY DEF Acknowledge
  <2>2. "ok" \in {"ok", "unknown"} OBVIOUS
  <2>3. QED BY <1>1, <2>1, <2>2, AnswerIs
<1>8. Only(j, m) BY <1>1, <1>2, <1>6, <1>7 DEF Only
<1>9. \A n \in Messages \ {m} : Same(n) BY <1>2, <1>6, <1>7 DEF Same
<1>10. /\ items'[j][m].status = "repair" /\ items'[j][m].ack = work[m].change
       /\ items'[j][m].undo = items[j][m].undo /\ items'[j][m].receipt = items[j][m].receipt
       /\ UNCHANGED <<server[m], cache[m], touched[m]>>
  BY <1>2, <1>4, <1>6
<1>11. Agreed(m)' BY <1>1, <1>2, <1>3, <1>8, <1>10, AcknowledgedAgrees
<1>12. QED BY <1>9, <1>11, OneMessage

(* An executor stops, or has no answer to record: its item is left as it is. *)
LEMMA StopAgrees ==
    ASSUME HistoryInv, NEW m \in Messages, Agreed(m),
           UNCHANGED <<jobs, items, owner, cache, server, took, touched>>,
           \/ work'[m].job = 0
           \/ /\ work[m].job # 0 /\ work[m].at = "answered" /\ work'[m].job = work[m].job
              /\ work'[m].at = "result" /\ work'[m].result = "unknown"
    PROVE  Agreed(m)'
<1>1. CASE work[m].job = 0
  <2>1. Same(m) BY <1>1 DEF Same
  <2>2. QED BY <2>1, SameAgrees
<1>2. CASE work[m].job # 0
  <2>1. PICK j \in Jobs : j = work[m].job BY <1>2 DEF HistoryInv, TypeOK, Step
  <2>2. StepIsTrue(j, m) BY DEF HistoryInv
  <2>3. Only(j, m) BY <2>1 DEF Only
  <2>4. UNCHANGED <<server[m], cache[m], touched[m]>> OBVIOUS
  <2>5. CASE items[j][m].status = "repair"
    BY <2>3, <2>4, <2>5, AckAgrees
  <2>6. CASE items[j][m].status # "repair"
    <3>1. items[j][m].status = "running" BY <2>1, <2>2, <2>6 DEF StepIsTrue
    <3>2. ~AtServer(j, m)' /\ ~Authorised(j, m)'
      BY <2>1, <3>1 DEF AtServer, Authorised, Jobs
    <3>3. Given(j, m)' = Unchanged BY <3>1, <3>2 DEF Given
    <3>4. ~Waits(j, m) /\ items'[j][m].status # "done" BY <3>1 DEF Waits
    <3>5. Unreported(j, m) => Unreported(j, m)' BY <3>1, <3>2 DEF Unreported
    <3>6. CASE <<j, m>> \in took
      <4>1. Unreported(j, m)' BY <3>1, <3>2, <3>6 DEF Unreported
      <4>2. Lost(m)' BY <4>1 DEF Lost
      <4>3. QED BY <2>3, <3>2, <3>3, <3>4, <3>5, <4>2, RestingAgrees
    <3>7. CASE <<j, m>> \notin took
      <4>1. \A f \in Fields : ~Lags(j, m, f)
        BY <2>1, <2>2, <3>1, <3>7 DEF Lags, StepIsTrue
      <4>2. \A f \in Fields : OwnerHas(j, m, f) /\ items'[j][m].undo
                  /\ f \notin DOMAIN items'[j][m].receipt.before
                => server[m][f] = jobs[j].decision[f]
        BY DEF OwnerHas
      <4>3. QED BY <2>3, <2>4, <3>2, <3>3, <3>4, <3>5, <4>1, <4>2, RestingAgrees
    <3>8. QED BY <3>6, <3>7
  <2>7. QED BY <2>5, <2>6
<1>3. QED BY <1>1, <1>2

LEMMA StopsAgree ==
    ASSUME HistoryInv, DecisionInv,
           Crash \/ \E m \in Messages : AcknowledgeFails(m) \/ FinishFails(m)
    PROVE  DecisionInv'
<1>1. UNCHANGED <<jobs, items, owner, cache, server, took, touched>>
  BY DEF Crash, AcknowledgeFails, FinishFails, durable
<1>2. CASE Crash
  <2>1. \A n \in Messages : work'[n].job = 0 BY <1>2, NoItemIs DEF Crash
  <2>2. QED BY <1>1, <2>1, StopAgrees DEF DecisionInv
<1>3. CASE \E m \in Messages : AcknowledgeFails(m) \/ FinishFails(m)
  <2>1. PICK m \in Messages : AcknowledgeFails(m) \/ FinishFails(m) BY <1>3
  <2>2. /\ \A n \in Messages \ {m} : work'[n] = work[n]
        /\ \/ work'[m].job = 0
           \/ /\ work[m].job # 0 /\ work[m].at = "answered" /\ work'[m].job = work[m].job
              /\ work'[m].at = "result" /\ work'[m].result = "unknown"
    <3>1. CASE AcknowledgeFails(m)
      <4>1. work' = [work EXCEPT ![m].at = "result", ![m].result = "unknown"]
            /\ work[m].at = "answered"
        BY <3>1 DEF AcknowledgeFails
      <4>2. "unknown" \in {"ok", "unknown"} OBVIOUS
      <4>3. work[m].job # 0 BY <4>1, WorkerIs DEF Jobs
      <4>4. QED BY <4>1, <4>2, <4>3, AnswerIs
    <3>2. CASE FinishFails(m)
      BY <3>2, NoItemIs, PlaceIs DEF FinishFails
    <3>3. QED BY <2>1, <3>1, <3>2
  <2>3. \A n \in Messages \ {m} : Same(n) BY <1>1, <2>2 DEF Same
  <2>4. Agreed(m)' BY <1>1, <2>2, StopAgrees DEF DecisionInv
  <2>5. QED BY <2>3, <2>4, OneMessage
<1>4. QED BY <1>2, <1>3

(* What a finished step leaves of its item: the change reaches the cache, and *)
(* the item is done or has its Undo left; or it ends in another way.          *)
LEMMA ReportAgrees ==
    ASSUME HistoryInv, NEW j \in Jobs, NEW m \in Messages, Only(j, m), Agreed(m),
           Reports(j, m), work[m].job = j, work[m].at = "result", work'[m].job = 0,
           items'[j][m].status # "queued" => (<<j, m>> \in took' <=> <<j, m>> \in took),
           UNCHANGED <<server[m], touched[m]>>
    PROVE  Agreed(m)'
<1>1. /\ items[j][m] \in Item /\ StepIsTrue(j, m) /\ work[m] \in Step
      /\ work[m].change \in Receipt /\ Unchanged \in Receipt
  BY ValuesAre DEF HistoryInv, TypeOK, Step
<1>2. items[j][m].status = "running" /\ cache' = cache BY DEF Reports
<1>3. items'[j][m].status \in {"queued", "done", "cancelled", "failed", "uncertain"}
  BY ReportedIs
<1>4. ~AtServer(j, m)' /\ ~Authorised(j, m)' BY <1>3 DEF AtServer, Authorised, Jobs
<1>5. Given(j, m)' = Unchanged BY <1>3, <1>4 DEF Given
<1>6. ~Waits(j, m) BY <1>2 DEF Waits
<1>7. \A f \in Fields : ~Lags(j, m, f) BY <1>2 DEF Lags
<1>8. UNCHANGED <<server[m], cache[m], touched[m]>> BY <1>2
<1>9. CASE work[m].result \in {"ok", "unchanged"}
  <2>1. PICK r \in Receipt : items'[j][m] = Done(j, m, r)
    <3>1. CASE items'[j][m] = Done(j, m, work[m].change)
      <4>1. PICK r \in Receipt : r = work[m].change BY <1>1
      <4>2. QED BY <3>1, <4>1
    <3>2. CASE items'[j][m] = Done(j, m, Unchanged) BY <1>1, <3>2
    <3>3. QED BY <1>9, <3>1, <3>2 DEF Reports
  <2>2. /\ items'[j][m].status = "done" => (items'[j][m].undo <=> items[j][m].undo)
        /\ items[j][m].undo =>
              items'[j][m].undo /\ items'[j][m].receipt = items[j][m].receipt
    BY <1>1, <2>1, DoneIs DEF Item
  <2>3. Authorised(j, m) /\ ~Unreported(j, m)
    BY <1>1, <1>2, <1>9 DEF Authorised, AtServer, Unreported, StepIsTrue
  <2>4. \A f \in Fields :
            cache'[m][f] = IF Lags(j, m, f) THEN Given(j, m).after[f] ELSE cache[m][f]
    BY <1>7, <1>8
  <2>5. QED BY <1>4, <1>5, <1>6, <1>8, <2>2, <2>3, <2>4, FinishedAgrees
<1>10. CASE work[m].result \notin {"ok", "unchanged"}
  <2>1. /\ items'[j][m].status \in {"cancelled", "failed", "uncertain"}
        /\ items'[j][m].undo = items[j][m].undo /\ items'[j][m].receipt = items[j][m].receipt
        /\ items'[j][m].status = "failed" => work[m].result = "refused"
    <3>1. CASE items'[j][m] = [items[j][m] EXCEPT !.status = "cancelled"]
      BY <1>1, <3>1 DEF Item
    <3>2. CASE items'[j][m] = Failed(j, m, FALSE) /\ work[m].result = "refused"
      BY <1>1, <3>2 DEF Failed, Item
    <3>3. CASE items'[j][m] = Failed(j, m, TRUE)
      BY <1>1, <3>3 DEF Failed, Item
    <3>4. QED BY <1>10, <3>1, <3>2, <3>3 DEF Reports
  <2>2. Unreported(j, m) => Unreported(j, m)'
    BY <1>1, <2>1 DEF Unreported, StepIsTrue
  <2>3. \A f \in Fields : OwnerHas(j, m, f) /\ items'[j][m].undo
              /\ f \notin DOMAIN items'[j][m].receipt.before
            => server[m][f] = jobs[j].decision[f]
    BY <2>1 DEF OwnerHas
  <2>4. items'[j][m].status # "done" BY <2>1
  <2>5. QED BY <1>4, <1>5, <1>6, <1>7, <1>8, <2>2, <2>3, <2>4, RestingAgrees
<1>11. QED BY <1>9, <1>10

LEMMA ConfirmAgrees ==
    ASSUME HistoryInv, NEW j \in Jobs, NEW m \in Messages, Only(j, m), Agreed(m),
           Confirms(j, m), work'[m].job = 0, UNCHANGED <<server[m], touched[m]>>
    PROVE  Agreed(m)'
<1>1. /\ items[j][m] \in Item /\ items[j][m].status = "repair"
      /\ cache \in [Messages -> [Fields -> BOOLEAN]]
  BY DEF HistoryInv, TypeOK, Confirms
<1>2. PICK r \in Receipt : r = items[j][m].ack BY <1>1 DEF Item
<1>3. items'[j][m] = Done(j, m, r) /\ cache' = [cache EXCEPT ![m] = Applied(cache[m], r)]
  BY <1>2 DEF Confirms
<1>4. /\ items'[j][m].status \in {"queued", "done"}
      /\ items'[j][m].status = "done" => (items'[j][m].undo <=> items[j][m].undo)
      /\ items[j][m].undo =>
            items'[j][m].undo /\ items'[j][m].receipt = items[j][m].receipt
  BY <1>1, <1>3, DoneIs DEF Item
<1>5. ~AtServer(j, m)' /\ ~Authorised(j, m)' BY <1>4 DEF AtServer, Authorised, Jobs
<1>6. Given(j, m)' = Unchanged BY <1>4, <1>5 DEF Given
<1>7. ~Waits(j, m) /\ ~Unreported(j, m) /\ Authorised(j, m)
  BY <1>1 DEF Waits, Unreported, Authorised
<1>8. Given(j, m) = r BY <1>1, <1>2 DEF Given
<1>9. \A f \in Fields : Lags(j, m, f) <=> f \in DOMAIN r.after BY <1>1, <1>8 DEF Lags, Asks
<1>10. \A f \in Fields :
           cache'[m][f] = IF Lags(j, m, f) THEN Given(j, m).after[f] ELSE cache[m][f]
  <2>1. \A f \in Fields : cache'[m][f] = IF f \in DOMAIN r.after THEN r.after[f] ELSE cache[m][f]
    BY <1>1, <1>3, ServerIs
  <2>2. QED BY <1>8, <1>9, <2>1
<1>11. QED BY <1>1, <1>4, <1>5, <1>6, <1>7, <1>10, FinishedAgrees

LEMMA EndAgrees ==
    ASSUME HistoryInv, DecisionInv, NEW m \in Messages, NEW j \in Jobs,
           \/ Confirms(j, m)
           \/ Reports(j, m) /\ work[m].job = j /\ work[m].at = "result",
           items'[j][m] \in Item, Become(j, m, items'[j][m]), Requeued(j, m),
           work[m].job \in {0, j}, work'[m].job = 0, \A n \in Messages \ {m} : work'[n] = work[n],
           UNCHANGED <<jobs, owner, server, touched>>
    PROVE  DecisionInv'
<1>1. \A k \in Jobs, n \in Messages : k # j \/ n # m =>
          items'[k][n] = items[k][n] /\ (<<k, n>> \in took' <=> <<k, n>> \in took)
  <2>1. items \in [Jobs -> [Messages -> Item]] BY DEF HistoryInv, TypeOK
  <2>2. PICK next \in Item : next = items'[j][m] OBVIOUS
  <2>3. Become(j, m, next) BY <2>2
  <2>4. \A k \in Jobs, n \in Messages : k # j \/ n # m => items'[k][n] = items[k][n]
    BY <2>1, <2>3, BecomeTurns
  <2>5. \A k \in Jobs, n \in Messages : k # j \/ n # m =>
            (<<k, n>> \in took' <=> <<k, n>> \in took)
    BY RequeuedIs
  <2>6. QED BY <2>4, <2>5
<1>2. items'[j][m].status # "queued" => (<<j, m>> \in took' <=> <<j, m>> \in took)
  BY RequeuedIs
<1>3. Only(j, m) BY <1>1 DEF Only
<1>4. ASSUME NEW n \in Messages \ {m} PROVE Same(n)
  <2>1. cache'[n] = cache[n] BY DEF Confirms, Reports, HistoryInv, TypeOK
  <2>2. QED BY <1>1, <2>1 DEF Same
<1>5. Agreed(m) BY DEF DecisionInv
<1>6. Agreed(m)'
  <2>1. CASE Confirms(j, m) BY <1>3, <1>5, <2>1, ConfirmAgrees
  <2>2. CASE Reports(j, m) /\ work[m].job = j /\ work[m].at = "result"
    BY <1>2, <1>3, <1>5, <2>2, ReportAgrees
  <2>3. QED BY <2>1, <2>2
<1>7. QED BY <1>4, <1>6, OneMessage

LEMMA FinishAgrees ==
    ASSUME HistoryInv, DecisionInv, NEW m \in Messages, Finish(m)
    PROVE  DecisionInv'
<1>1. PICK j \in Jobs : j = work[m].job BY WorkerIs DEF Finish
<1>2. /\ items'[j][m] \in Item /\ Become(j, m, items'[j][m])
      /\ Confirms(j, m) \/ Reports(j, m)
  BY <1>1, FinishIs
<1>3. /\ work[m].at = "result" /\ Requeued(j, m) /\ UNCHANGED <<jobs, owner, server, touched>>
      /\ work' = [work EXCEPT ![m] = Idle]
  BY <1>1 DEF Finish
<1>4. work'[m].job = 0 /\ \A n \in Messages \ {m} : work'[n] = work[n]
  BY <1>3, NoItemIs, PlaceIs
<1>5. QED BY <1>1, <1>2, <1>3, <1>4, EndAgrees

LEMMA RepairAgrees ==
    ASSUME HistoryInv, DecisionInv, NEW j \in Jobs, NEW m \in Messages, Repair(j, m)
    PROVE  DecisionInv'
<1>1. /\ items'[j][m] \in Item /\ Become(j, m, items'[j][m])
      /\ Confirms(j, m) /\ work[m] = Idle
  BY RepairIs
<1>2. Requeued(j, m) /\ UNCHANGED <<jobs, owner, server, work, touched>> BY DEF Repair
<1>3. work[m].job = 0 /\ work'[m].job = 0 /\ \A n \in Messages \ {m} : work'[n] = work[n]
  BY <1>1, <1>2, NoItemIs
<1>4. QED BY <1>1, <1>2, <1>3, EndAgrees

(* Another client, and a check that shows what it did *)
LEMMA OutsideAgrees ==
    ASSUME HistoryInv, DecisionInv, NEW m \in Messages,
           Check(m) \/ Vanish(m) \/ \E f \in Flags : ForeignChange(m, f)
    PROVE  DecisionInv'
<1>1. UNCHANGED <<jobs, items, owner, took, work>>
  BY DEF Check, Vanish, ForeignChange, durable
<1>2. ASSUME NEW n \in Messages
      PROVE  /\ touched[n] \subseteq touched'[n]
             /\ \A g \in Fields \ touched'[n] :
                   server'[n][g] = server[n][g] /\ cache'[n][g] \in {cache[n][g], server[n][g]}
  <2>1. CASE Check(m)
    <3>1. UNCHANGED <<server, touched>> BY <2>1 DEF Check
    <3>2. \A g \in Fields : cache'[n][g] \in {cache[n][g], server[n][g]}
      BY <2>1 DEF Check, HistoryInv, TypeOK
    <3>3. QED BY <3>1, <3>2
  <2>2. CASE Vanish(m) BY <2>2 DEF Vanish
  <2>3. CASE \E f \in Flags : ForeignChange(m, f)
    <3>1. PICK f \in Flags : ForeignChange(m, f) BY <2>3
    <3>2. /\ UNCHANGED cache
          /\ touched' = [touched EXCEPT ![m] = touched[m] \cup {f}]
          /\ server' = [server EXCEPT ![m][f] = ~server[m][f]]
      BY <3>1 DEF ForeignChange
    <3>3. /\ touched[n] \subseteq touched'[n]
          /\ n = m => f \in touched'[n]
      BY <3>2 DEF HistoryInv, TypeOK
    <3>4. \A g \in Fields : n # m \/ g # f => server'[n][g] = server[n][g]
      BY <3>2 DEF HistoryInv, TypeOK
    <3>5. QED BY <3>2, <3>3, <3>4
  <2>4. QED BY <2>1, <2>2, <2>3
<1>3. \A n \in Messages : Same(n) BY <1>1, <1>2 DEF Same
<1>4. QED BY <1>3, SameAgrees DEF DecisionInv

LEMMA DecisionBegins == Init => DecisionInv
<1> SUFFICES ASSUME Init, NEW m \in Messages PROVE Agreed(m) BY DEF DecisionInv
<1>1. \A j \in Jobs : items[j][m].status = "none" BY DEF Init, NoItem
<1>2. /\ work[m].job = 0 /\ server[m] = cache[m]
      /\ \A f \in Fields : owner[m][f] = 0
  BY DEF Init, Idle
<1>3. ASSUME NEW j \in Jobs, NEW f \in Fields PROVE ~Asks(j, m, f)
  BY <1>1, <1>2, ValuesAre DEF Asks, Given, AtServer, Jobs
<1>4. QED BY <1>2, <1>3 DEF Agreed, AskedByOwner, CacheAgrees, Lags, OwnerPrevails

LEMMA DecisionStep == HistoryInv /\ DecisionInv /\ [Next]_vars => DecisionInv'
<1> SUFFICES ASSUME HistoryInv, DecisionInv, [Next]_vars PROVE DecisionInv' OBVIOUS
<1>1. CASE \E S \in SUBSET Messages, d \in Decisions : Admit(S, d)
  BY <1>1, AdmitAgrees DEF DecisionInv
<1>2. CASE \E j \in Jobs : RequestUndo(j) \/ AcceptUncertainty(j) \/ Resume(j)
  BY <1>2, UndoAgrees, AcceptAgrees DEF DecisionInv
<1>3. CASE \E j \in Jobs, m \in Messages : Claim(j, m) \/ Repair(j, m)
  BY <1>3, ClaimAgrees, RepairAgrees
<1>4. CASE \E m \in Messages : Authorize(m) \/ Serve(m) \/ Acknowledge(m) \/ Finish(m)
  BY <1>4, AuthorizeAgrees, ServeAgrees, AcknowledgeAgrees, FinishAgrees
<1>5. CASE Crash \/ \E m \in Messages : AcknowledgeFails(m) \/ FinishFails(m)
  BY <1>5, StopsAgree
<1>6. CASE \E m \in Messages :
              Check(m) \/ Vanish(m) \/ \E f \in Flags : ForeignChange(m, f)
  BY <1>6, OutsideAgrees
<1>7. CASE UNCHANGED vars
  <2>1. \A m \in Messages : Same(m) BY <1>7 DEF Same, vars, durable
  <2>2. QED BY <2>1, SameAgrees DEF DecisionInv
<1>8. QED BY <1>1, <1>2, <1>3, <1>4, <1>5, <1>6, <1>7 DEF Next

(* The inductive invariant of decisions: only the newest owner of a field asks *)
(* the server for it, the cache is the server but for an answer that waits,    *)
(* and what an owner was granted is there - for as long as no request that was *)
(* carried out has an unknown answer.                                          *)
THEOREM DecisionsHold == Spec => [](HistoryInv /\ DecisionInv)
<1>1. Init => HistoryInv /\ DecisionInv BY HistoryBegins, DecisionBegins
<1>2. HistoryInv /\ DecisionInv /\ [Next]_vars => (HistoryInv /\ DecisionInv)'
  BY HistoryStep, DecisionStep
<1>3. QED BY <1>1, <1>2, PTL DEF Spec

LEMMA SettledLasts ==
    ASSUME HistoryInv, DecisionInv, NEW m \in Messages, NEW f \in Fields
    PROVE  Lasts(m, f)
<1> SUFFICES ASSUME owner[m][f] # 0, f \notin touched[m], Settled(m),
                    items[owner[m][f]][m].status = "done"
             PROVE  server[m][f] = Decided(owner[m][f], m, f)
  BY DEF Lasts
<1>1. ~Lost(m) BY DEF Settled, Lost, Unreported
<1>2. OwnerPrevails(m, f) BY <1>1 DEF DecisionInv, Agreed
<1>3. QED BY <1>2 DEF OwnerPrevails, OwnerHas

LEMMA PendingIsShown ==
    ASSUME HistoryInv, NEW m \in Messages, NEW f \in Fields
    PROVE  IsShown(m, f)
<1> DEFINE j == owner[m][f]
<1>1. effects[m] = Projection(m) BY DEF HistoryInv, ProjectionIsShown
<1>2. /\ f \in DOMAIN effects[m] <=> Shows(m, f)
      /\ Shows(m, f) => effects[m][f] = IF items[j][m].undo THEN items[j][m].receipt.before[f]
                                        ELSE jobs[j].decision[f]
  BY <1>1 DEF Projection
<1>3. QED BY <1>2 DEF IsShown, Shown, Shows

(* The newest decision about a field is what the window shows until it is      *)
(* settled, and what the server has once it is, or what was there before when  *)
(* it was undone: for any messages, decisions, accounts and number of jobs.    *)
THEOREM NewestStands == Spec => []NewestDecisionStands
<1>1. HistoryInv /\ DecisionInv => NewestDecisionStands
  BY SettledLasts, PendingIsShown DEF NewestDecisionStands
<1>2. QED BY <1>1, DecisionsHold, PTL

(* An acknowledged item *)

Kept(j, m) == items'[j][m].status = "repair"
Reached(j, m) ==
    /\ items'[j][m].status \in {"done", "queued"}
    /\ \A f \in DOMAIN items[j][m].ack.after : cache'[m][f] = items[j][m].ack.after[f]

LEMMA ConfirmReaches ==
    ASSUME HistoryInv, NEW j \in Jobs, NEW m \in Messages, Confirms(j, m)
    PROVE  Reached(j, m)
<1>1. items[j][m] \in Item /\ cache \in [Messages -> [Fields -> BOOLEAN]]
  BY DEF HistoryInv, TypeOK
<1>2. PICK r \in Receipt : r = items[j][m].ack BY <1>1 DEF Item
<1>3. items'[j][m] = Done(j, m, r) /\ cache' = [cache EXCEPT ![m] = Applied(cache[m], r)]
  BY <1>2 DEF Confirms
<1>4. items'[j][m].status \in {"queued", "done"} BY <1>1, <1>3, DoneIs
<1>5. \A f \in Fields : f \in DOMAIN r.after => cache'[m][f] = r.after[f]
  BY <1>1, <1>3, ServerIs
<1>6. DOMAIN r.after \subseteq Fields BY ValuesAre DEF Receipt
<1>7. QED BY <1>2, <1>4, <1>5, <1>6 DEF Reached

(* A step about one item leaves the others as they are. *)
LEMMA BecomeKeeps ==
    ASSUME HistoryInv, NEW k \in Jobs, NEW n \in Messages, NEW next \in Item, Become(k, n, next),
           NEW j \in Jobs, NEW m \in Messages, items[j][m].status = "repair",
           k # j \/ n # m \/ Confirms(j, m) \/ next.status = "repair"
    PROVE  Kept(j, m) \/ Reached(j, m)
<1>1. items \in [Jobs -> [Messages -> Item]] BY DEF HistoryInv, TypeOK
<1>2. items'[k][n] = next BY <1>1, BecomeTurns
<1>3. CASE k # j \/ n # m
  <2>1. items'[j][m] = items[j][m] BY <1>1, <1>3, BecomeTurns
  <2>2. QED BY <2>1 DEF Kept
<1>4. CASE Confirms(j, m) BY <1>4, ConfirmReaches
<1>5. CASE k = j /\ n = m /\ next.status = "repair" BY <1>2, <1>5 DEF Kept
<1>6. QED BY <1>3, <1>4, <1>5

LEMMA UserKeeps ==
    ASSUME HistoryInv, NEW j \in Jobs, NEW m \in Messages, items[j][m].status = "repair",
           \/ \E S \in SUBSET Messages, d \in Decisions : Admit(S, d)
           \/ \E k \in Jobs : RequestUndo(k) \/ AcceptUncertainty(k) \/ Resume(k)
    PROVE  Kept(j, m)
<1>1. CASE \E S \in SUBSET Messages, d \in Decisions : Admit(S, d)
  <2>1. PICK S \in SUBSET Messages, d \in Decisions : Admit(S, d) BY <1>1
  <2>2. PICK new : new = count + 1 OBVIOUS
  <2>3. Admits(S, d, new) BY <2>1, <2>2, AdmitIs
  <2>4. items[new][m].status = "none" BY <2>3 DEF Admits
  <2>5. items'[j][m] = items[j][m] BY <2>3, <2>4 DEF Admits
  <2>6. QED BY <2>5 DEF Kept
<1>2. ASSUME NEW k \in Jobs, RequestUndo(k) PROVE Kept(j, m)
  <2>1. /\ k # j => items'[j][m] = items[j][m]
        /\ k = j => items'[j][m] = Undone(j, m)
    BY <1>2 DEF RequestUndo, HistoryInv, TypeOK
  <2>2. Undone(j, m) = items[j][m] BY UndoneIs
  <2>3. QED BY <2>1, <2>2 DEF Kept
<1>3. ASSUME NEW k \in Jobs, AcceptUncertainty(k) PROVE Kept(j, m)
  BY <1>3 DEF AcceptUncertainty, Kept, HistoryInv, TypeOK
<1>4. ASSUME NEW k \in Jobs, Resume(k) PROVE Kept(j, m)
  <2>1. items'[j][m] = items[j][m]
    BY <1>4 DEF Resume, Interrupted, Orphan, HistoryInv, TypeOK
  <2>2. QED BY <2>1 DEF Kept
<1>5. QED BY <1>1, <1>2, <1>3, <1>4

LEMMA WorkReaches ==
    ASSUME HistoryInv, NEW j \in Jobs, NEW m \in Messages, items[j][m].status = "repair",
           NEW n \in Messages,
           \/ \E k \in Jobs : Claim(k, n) \/ Repair(k, n)
           \/ Acknowledge(n) \/ Finish(n)
    PROVE  Kept(j, m) \/ Reached(j, m)
<1>1. ASSUME NEW k \in Jobs, Claim(k, n) PROVE Kept(j, m) \/ Reached(j, m)
  <2>1. PICK status \in {"running", "failed"} : Mark(k, n, status) BY <1>1 DEF Claim
  <2>2. items[k][n] \in Item /\ items[k][n].status = "queued"
    BY <1>1, ZenonT(60) DEF Claim, Ready, HistoryInv, TypeOK
  <2>3. PICK next \in Item : next = [items[k][n] EXCEPT !.status = status]
    BY <2>2 DEF Item, Statuses, Blocking, Pending
  <2>4. Become(k, n, next) BY <2>1, <2>3 DEF Mark
  <2>5. k # j \/ n # m BY <2>2
  <2>6. QED BY <2>4, <2>5, BecomeKeeps
<1>2. ASSUME NEW k \in Jobs, Repair(k, n) PROVE Kept(j, m) \/ Reached(j, m)
  <2>1. /\ items'[k][n] \in Item /\ Become(k, n, items'[k][n])
        /\ Confirms(k, n)
    BY <1>2, RepairIs
  <2>2. PICK next \in Item : next = items'[k][n] BY <2>1
  <2>3. Become(k, n, next) BY <2>1, <2>2
  <2>4. QED BY <2>1, <2>3, BecomeKeeps
<1>3. CASE Acknowledge(n)
  <2>1. PICK k \in Jobs : k = work[n].job BY <1>3, WorkerIs DEF Acknowledge
  <2>2. items[k][n] \in Item /\ work[n].change \in Receipt
    BY <1>3, <2>1, WorkerIs DEF Acknowledge, HistoryInv, TypeOK, Step
  <2>3. PICK next \in Item : /\ next.status = "repair"
                             /\ next = [items[k][n] EXCEPT !.status = "repair",
                                                           !.ack = work[n].change]
    BY <2>2 DEF Item, Statuses, Blocking, Pending
  <2>4. Become(k, n, next) BY <1>3, <2>1, <2>3 DEF Acknowledge
  <2>5. next.status = "repair" BY <2>3
  <2>6. QED BY <2>4, <2>5, BecomeKeeps
<1>4. CASE Finish(n)
  <2>1. PICK k \in Jobs : k = work[n].job BY <1>4, WorkerIs DEF Finish
  <2>2. /\ items'[k][n] \in Item /\ Become(k, n, items'[k][n])
        /\ Confirms(k, n) \/ Reports(k, n)
    BY <1>4, <2>1, FinishIs
  <2>3. PICK next \in Item : next = items'[k][n] BY <2>2
  <2>4. Become(k, n, next) BY <2>2, <2>3
  <2>5. k # j \/ n # m \/ Confirms(j, m) BY <2>2 DEF Reports
  <2>6. QED BY <2>4, <2>5, BecomeKeeps
<1>5. QED BY <1>1, <1>2, <1>3, <1>4

(* An acknowledged change is never given up: its item stays until the cache has *)
(* every value the server confirmed, however often the process stops, whatever  *)
(* the user decides meanwhile and whatever another client does.                 *)
THEOREM AcknowledgedReaches == Spec => AcknowledgedReachesCache
<1> DEFINE A == \A j \in Jobs, m \in Messages :
          items[j][m].status = "repair" /\ items'[j][m].status # "repair"
          => /\ items'[j][m].status \in {"done", "queued"}
             /\ \A f \in DOMAIN items[j][m].ack.after :
                   cache'[m][f] = items[j][m].ack.after[f]
<1>1. ASSUME HistoryInv, [Next]_vars, NEW j \in Jobs, NEW m \in Messages,
             items[j][m].status = "repair"
      PROVE  Kept(j, m) \/ Reached(j, m)
  <2>1. CASE \/ \E S \in SUBSET Messages, d \in Decisions : Admit(S, d)
             \/ \E k \in Jobs : RequestUndo(k) \/ AcceptUncertainty(k) \/ Resume(k)
    BY <1>1, <2>1, UserKeeps
  <2>2. CASE \E n \in Messages : \/ \E k \in Jobs : Claim(k, n) \/ Repair(k, n)
                                 \/ Acknowledge(n) \/ Finish(n)
    BY <1>1, <2>2, WorkReaches
  <2>3. CASE \/ Crash \/ UNCHANGED vars
             \/ \E n \in Messages : \/ Authorize(n) \/ Serve(n) \/ AcknowledgeFails(n)
                                    \/ FinishFails(n) \/ Check(n) \/ Vanish(n)
                                    \/ \E f \in Flags : ForeignChange(n, f)
    <3>1. items' = items
      BY <2>3 DEF Crash, vars, Authorize, Serve, AcknowledgeFails, FinishFails, Check, Vanish,
                  ForeignChange, durable
    <3>2. QED BY <1>1, <3>1 DEF Kept
  <2>4. QED BY <1>1, <2>1, <2>2, <2>3 DEF Next
<1>2. HistoryInv /\ [Next]_vars => [A]_vars BY <1>1 DEF Kept, Reached
<1> HIDE DEF A
<1>3. Spec => [][A]_vars BY <1>2, HistoryHolds, PTL DEF Spec
<1>4. QED BY <1>3 DEF A, AcknowledgedReachesCache
=============================================================================
