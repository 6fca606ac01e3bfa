-------------------------- MODULE AccountWorkProofs --------------------------
(* Theorems about the work on the accounts (AccountWork) for every set of      *)
(* callers, accounts and limits, and about the secrets of an account           *)
(* (Credentials) for every number of attempts.                                 *)
EXTENDS AccountWork, Credentials, FiniteSetTheorems, SequenceTheorems, TLAPS

----------------------------------------------------------------------------
(* Queues. *)

(* Removing one element keeps the others, in their order. *)
LEMMA RemoveAtFacts ==
    ASSUME NEW S, NEW s \in Seq(S), NEW n \in DOMAIN s
    PROVE  /\ RemoveAt(s, n) \in Seq(S)
           /\ DOMAIN RemoveAt(s, n) = 1 .. Len(s) - 1
           /\ \A i \in DOMAIN RemoveAt(s, n) :
                 RemoveAt(s, n)[i] = IF i < n THEN s[i] ELSE s[i + 1]
  <1>1. n \in 1 .. Len(s) /\ Len(s) \in Nat
    OBVIOUS
  <1>2. /\ SubSeq(s, 1, n - 1) \in Seq(S)
        /\ Len(SubSeq(s, 1, n - 1)) = n - 1
        /\ \A i \in 1 .. n - 1 : SubSeq(s, 1, n - 1)[i] = s[i]
    BY <1>1
  <1>3. /\ SubSeq(s, n + 1, Len(s)) \in Seq(S)
        /\ Len(SubSeq(s, n + 1, Len(s))) = Len(s) - n
        /\ \A i \in 1 .. Len(s) - n : SubSeq(s, n + 1, Len(s))[i] = s[n + i]
    BY <1>1
  <1> DEFINE front == SubSeq(s, 1, n - 1)
             back == SubSeq(s, n + 1, Len(s))
  <1>4. RemoveAt(s, n) = front \o back
    BY DEF RemoveAt
  <1>5. front \in Seq(S) /\ back \in Seq(S) /\ Len(front) = n - 1 /\ Len(back) = Len(s) - n
    BY <1>2, <1>3
  <1> HIDE DEF front, back
  <1>6. /\ front \o back \in Seq(S)
        /\ Len(front \o back) = Len(s) - 1
        /\ \A i \in 1 .. Len(s) - 1 :
              (front \o back)[i] = IF i <= n - 1 THEN front[i] ELSE back[i - (n - 1)]
    <2>1. Len(front) + Len(back) = Len(s) - 1
      BY <1>1, <1>5
    <2>2. QED BY <1>5, <2>1, ConcatProperties, SMTT(60)
  <1>7. ASSUME NEW i \in 1 .. Len(s) - 1
        PROVE  RemoveAt(s, n)[i] = IF i < n THEN s[i] ELSE s[i + 1]
    <2>1. CASE i < n
      <3>1. i \in 1 .. n - 1 /\ i <= n - 1
        BY <1>1, <1>7, <2>1
      <3>2. (front \o back)[i] = front[i]
        BY <1>6, <1>7, <3>1
      <3>3. front[i] = s[i]
        BY <1>2, <3>1 DEF front
      <3>4. QED BY <1>4, <2>1, <3>2, <3>3
    <2>2. CASE ~(i < n)
      <3>1. i - (n - 1) \in 1 .. Len(s) - n /\ n + (i - (n - 1)) = i + 1
        BY <1>1, <1>7, <2>2
      <3>2. (front \o back)[i] = back[i - (n - 1)]
        BY <1>1, <1>6, <1>7, <2>2
      <3>3. QED BY <1>3, <1>4, <2>2, <3>1, <3>2 DEF back
    <2>3. QED BY <2>1, <2>2
  <1>8. QED BY <1>1, <1>4, <1>6, <1>7

LEMMA ToSetFacts ==
    ASSUME NEW S, NEW s \in Seq(S)
    PROVE  /\ \A x : x \in ToSet(s) <=> \E i \in DOMAIN s : s[i] = x
           /\ ToSet(s) \subseteq S
  BY DEF ToSet

----------------------------------------------------------------------------
(* Types. *)

LEMMA InitType == AccountInit => AccountTypeOK
  BY TasksAssumption
  DEF AccountInit, AccountTypeOK, States, Sync, Mutation, NoSync, NoMutation, Receipts

LEMMA DroppedType ==
    ASSUME AccountTypeOK, NEW t \in Tasks
    PROVE  Dropped(t) \subseteq Receipts
  BY DEF AccountTypeOK, Dropped, Holds, Receipts

LEMMA AskedType ==
    ASSUME AccountTypeOK, NEW t \in Tasks
    PROVE  AskedFor(t) \subseteq Receipts
  <1>1. ToSet(pending) \subseteq Waiting
    BY ToSetFacts DEF AccountTypeOK
  <1>2. QED BY <1>1 DEF AskedFor, Receipts, Waiting

(* Closing a caller's requests changes nothing but their open flag. *)
LEMMA CloseFacts ==
    ASSUME AccountTypeOK, NEW t \in Tasks
    PROVE  /\ Close(channel, t) \in Seq(Sent)
           /\ Close(pending, t) \in Seq(Waiting)
           /\ DOMAIN Close(pending, t) = DOMAIN pending
           /\ \A i \in DOMAIN pending :
                 LET q == Close(pending, t)[i] IN
                 /\ q.ticket = pending[i].ticket
                 /\ q.task = pending[i].task
                 /\ q.account = pending[i].account
                 /\ q.open <=> pending[i].open /\ pending[i].task # t
  <1>1. /\ channel \in Seq(Sent) /\ pending \in Seq(Waiting)
        /\ Len(channel) \in Nat /\ DOMAIN channel = 1 .. Len(channel)
        /\ Len(pending) \in Nat /\ DOMAIN pending = 1 .. Len(pending)
    BY DEF AccountTypeOK
  <1>2. ASSUME NEW q \in Sent PROVE [q EXCEPT !.open = FALSE] \in Sent
    BY DEF Sent
  <1>3. ASSUME NEW q \in Waiting
        PROVE  /\ [q EXCEPT !.open = FALSE] \in Waiting
               /\ [q EXCEPT !.open = FALSE].ticket = q.ticket
               /\ [q EXCEPT !.open = FALSE].task = q.task
               /\ [q EXCEPT !.open = FALSE].account = q.account
               /\ [q EXCEPT !.open = FALSE].open = FALSE
    BY DEF Waiting
  <1>4. \A i \in DOMAIN channel : channel[i] \in Sent
    BY <1>1, ElementOfSeq
  <1>5. \A i \in DOMAIN pending : pending[i] \in Waiting
    BY <1>1, ElementOfSeq
  <1>6. Close(channel, t) \in [1 .. Len(channel) -> Sent]
    BY <1>1, <1>2, <1>4 DEF Close
  <1>7. Close(pending, t) \in [1 .. Len(pending) -> Waiting]
    BY <1>1, <1>3, <1>5 DEF Close
  <1>8. Close(channel, t) \in Seq(Sent) /\ Close(pending, t) \in Seq(Waiting)
    <2>1. ASSUME NEW S, NEW n \in Nat, NEW f \in [1 .. n -> S]
          PROVE  f \in Seq(S)
      BY <2>1, SeqDef
    <2>2. QED BY <1>1, <1>6, <1>7, <2>1
  <1>9. QED BY <1>1, <1>3, <1>5, <1>7, <1>8 DEF Close

LEMMA CallerTypes ==
    ASSUME AccountTypeOK, NEW t \in Tasks,
           Begin(t) \/ Send(t) \/ Finish(t) \/ Cancel(t) \/ OwnerCloses(t)
    PROVE  AccountTypeOK'
  <1>1. CASE Begin(t) \/ OwnerCloses(t)
    BY <1>1 DEF Begin, OwnerCloses, AccountTypeOK, States, coordinator
  <1>2. CASE Send(t)
    <2>1. PICK a \in Lacks(t) :
            channel' = Append(channel, [task |-> t, account |-> a, open |-> TRUE])
      BY <1>2 DEF Send
    <2>2. a \in Accounts
      BY <2>1, TasksAssumption DEF Lacks
    <2>3. [task |-> t, account |-> a, open |-> TRUE] \in Sent
      BY <2>2 DEF Sent
    <2>4. channel' \in Seq(Sent)
      BY <2>1, <2>3, AppendProperties DEF AccountTypeOK
    <2>5. QED BY <1>2, <2>4 DEF Send, AccountTypeOK, States, coordinator
  <1>3. CASE Finish(t)
    <2>1. done' \subseteq Receipts
      BY <1>3, DroppedType DEF Finish, AccountTypeOK
    <2>2. QED BY <1>3, <2>1 DEF Finish, LetGo, AccountTypeOK, States, coordinator
  <1>4. CASE Cancel(t)
    <2>1. done' \subseteq Receipts
      BY <1>4, DroppedType, AskedType DEF Cancel, AccountTypeOK
    <2>2. channel' \in Seq(Sent) /\ pending' \in Seq(Waiting)
      BY <1>4, CloseFacts DEF Cancel
    <2>3. QED BY <1>4, <2>1, <2>2 DEF Cancel, LetGo, AccountTypeOK, States, coordinator
  <1>5. QED BY <1>1, <1>2, <1>3, <1>4

LEMMA PendingFacts ==
    ASSUME AccountTypeOK
    PROVE  /\ Len(pending) \in Nat /\ DOMAIN pending = 1 .. Len(pending)
           /\ \A i \in DOMAIN pending : pending[i] \in Waiting
           /\ position <= Len(pending) => position \in DOMAIN pending
  BY ElementOfSeq DEF AccountTypeOK

LEMMA ScanTypes == AccountTypeOK /\ Scan => AccountTypeOK'
  <1> SUFFICES ASSUME AccountTypeOK, Scan PROVE AccountTypeOK'
    OBVIOUS
  <1> DEFINE q == pending[position]
  <1>1. position \in DOMAIN pending /\ q \in Waiting
    BY PendingFacts DEF Scan
  <1>2. q.ticket \in Tickets /\ q.task \in Tasks /\ q.account \in Accounts
    BY <1>1 DEF Waiting
  <1>3. RemoveAt(pending, position) \in Seq(Waiting)
    BY <1>1, RemoveAtFacts DEF AccountTypeOK
  <1>4. UNCHANGED <<stop, channel>>
    BY DEF Scan
  <1> HIDE DEF q
  <1>5. CASE /\ pending' = RemoveAt(pending, position)
             /\ \/ /\ LetGo(q.task)
                   /\ done' = done \cup Dropped(q.task)
                                \cup {[ticket |-> q.ticket, account |-> q.account]}
                \/ UNCHANGED <<state, held, done>>
             /\ UNCHANGED coordinator
    <2>1. done' \subseteq Receipts
      BY <1>2, <1>5, DroppedType DEF AccountTypeOK, Receipts
    <2>2. state' \in [Tasks -> States] /\ held' \in [Tasks -> [Accounts -> Tickets \cup {0}]]
      <3>1. CASE LetGo(q.task)
        BY <1>2, <3>1 DEF LetGo, AccountTypeOK, States
      <3>2. CASE UNCHANGED <<state, held, done>>
        BY <3>2 DEF AccountTypeOK
      <3>3. QED BY <1>5, <3>1, <3>2
    <2>3. QED BY <1>3, <1>4, <1>5, <2>1, <2>2 DEF AccountTypeOK, coordinator
  <1>6. CASE /\ pending' = RemoveAt(pending, position)
             /\ Granted(q)
             /\ UNCHANGED <<done, position, blocked>>
    <2>1. held' \in [Tasks -> [Accounts -> Tickets \cup {0}]]
      BY <1>2, <1>6 DEF Granted, AccountTypeOK
    <2>2. state' \in [Tasks -> States]
      BY <1>2, <1>6 DEF Granted, AccountTypeOK, States
    <2>3. /\ [ticket |-> q.ticket, interrupted |-> FALSE] \in Sync
          /\ [ticket |-> q.ticket, exclusive |-> IsExclusive(q)] \in Mutation
      BY <1>2 DEF Sync, Mutation, IsExclusive
    <2>4. syncs' \in [Accounts -> Sync] /\ mutations' \in [Accounts -> Mutation]
      BY <1>2, <1>6, <2>3 DEF Granted, AccountTypeOK
    <2>5. QED BY <1>3, <1>4, <1>6, <2>1, <2>2, <2>4 DEF AccountTypeOK
  <1>7. CASE /\ blocked' = BlockedBy(q)
             /\ position' = position + 1
             /\ UNCHANGED <<state, held, pending, syncs, mutations, done>>
    BY <1>2, <1>4, <1>7 DEF AccountTypeOK, BlockedBy
  <1>8. QED BY <1>5, <1>6, <1>7 DEF Scan, q

LEMMA FreshTicket ==
    ASSUME Tickets \ InUse # {}
    PROVE  NextTicket \in Tickets /\ NextTicket \notin InUse
  BY DEF NextTicket

LEMMA WithoutFacts ==
    ASSUME AccountTypeOK, NEW n
    PROVE  /\ Without(n) \in Seq(Waiting)
           /\ \/ Without(n) = pending
              \/ \E i \in DOMAIN pending : Without(n) = RemoveAt(pending, i)
  <1>1. pending \in Seq(Waiting)
    BY DEF AccountTypeOK
  <1>2. ASSUME NEW i \in DOMAIN pending PROVE RemoveAt(pending, i) \in Seq(Waiting)
    BY <1>1, <1>2, RemoveAtFacts
  <1>3. QED BY <1>1, <1>2 DEF Without

LEMMA ReceiveTypes == AccountTypeOK /\ Receive => AccountTypeOK'
  <1> SUFFICES ASSUME AccountTypeOK, Receive PROVE AccountTypeOK'
    OBVIOUS
  <1> DEFINE r == Head(channel)
             new == [ticket |-> NextTicket, task |-> r.task,
                     account |-> r.account, open |-> TRUE]
  <1>1. channel \in Seq(Sent) /\ channel # << >>
    BY DEF Receive, AccountTypeOK
  <1>2. r \in Sent /\ channel' \in Seq(Sent)
    BY <1>1, HeadTailProperties DEF Receive
  <1>3. r.task \in Tasks /\ r.account \in Accounts
    BY <1>2 DEF Sent
  <1>4. UNCHANGED <<state, held, mutations, done>> /\ position' = 1 /\ blocked' = {}
    BY DEF Receive, Rescan
  <1>5. CASE UNCHANGED <<pending, syncs, stop>>
    BY <1>2, <1>4, <1>5 DEF AccountTypeOK
  <1>6. CASE /\ Tickets \ InUse # {}
             /\ pending' = Append(pending, new)
             /\ \/ UNCHANGED <<syncs, stop>>
                \/ /\ syncs' = [syncs EXCEPT ![r.account].interrupted = TRUE]
                   /\ stop' = stop \cup Interrupted(r.account)
    <2>1. new \in Waiting
      BY <1>3, <1>6, FreshTicket DEF Waiting
    <2>2. pending' \in Seq(Waiting)
      BY <1>6, <2>1, AppendProperties DEF AccountTypeOK
    <2>3. syncs' \in [Accounts -> Sync]
      BY <1>3, <1>6, ZenonT(60) DEF AccountTypeOK, Sync
    <2>4. stop' \subseteq Tasks
      BY <1>6 DEF AccountTypeOK, Interrupted
    <2>5. QED BY <1>2, <1>4, <2>2, <2>3, <2>4 DEF AccountTypeOK
  <1>7. QED BY <1>5, <1>6 DEF Receive

LEMMA SettleTypes ==
    ASSUME AccountTypeOK, NEW d \in Receipts, Settle(d)
    PROVE  AccountTypeOK'
  <1>1. pending' \in Seq(Waiting)
    BY WithoutFacts DEF Settle
  <1>2. syncs' \in [Accounts -> Sync] /\ mutations' \in [Accounts -> Mutation]
    BY DEF Settle, AccountTypeOK, Receipts, NoSync, NoMutation, Sync, Mutation
  <1>3. QED BY <1>1, <1>2 DEF Settle, Rescan, AccountTypeOK, callers

LEMMA NextType == AccountTypeOK /\ [AccountNext]_accountVars => AccountTypeOK'
  <1>1. CASE UNCHANGED accountVars
    BY <1>1 DEF AccountTypeOK, accountVars, callers, coordinator
  <1>2. QED
    BY <1>1, CallerTypes, ScanTypes, ReceiveTypes, SettleTypes DEF AccountNext

----------------------------------------------------------------------------
(* The invariant, one lemma for each kind of step. *)

Rest ==
    /\ HeldIsRecorded
    /\ TicketsDiffer
    /\ ExclusiveIsAlone
    /\ InterruptsArrive
    /\ ExclusiveIsHeard
    /\ IdleHoldsNothing
    /\ PassedAreBlocked

LEMMA BeginSafe ==
    ASSUME IInv, AccountTypeOK', NEW t \in Tasks, Begin(t) \/ Send(t) \/ OwnerCloses(t)
    PROVE  Rest'
  <1>1. /\ UNCHANGED <<held, pending, coordinator, done>>
        /\ \A u \in Tasks : state'[u] = "idle" => state[u] = "idle"
        /\ \A u \in Tasks : u \in stop /\ state[u] # "idle" => u \in stop'
    BY DEF Begin, Send, OwnerCloses, IInv, AccountTypeOK
  <1>2. \A a \in Accounts : Interrupted(a)' = Interrupted(a)
    BY <1>1 DEF Interrupted, Holds, coordinator
  <1>3. \A a \in Accounts : Interrupted(a) \subseteq stop => Interrupted(a)' \subseteq stop'
    BY <1>1, <1>2 DEF Interrupted, IInv, IdleHoldsNothing
  <1>4. \A i \in DOMAIN pending : pending[i].account \in Accounts
    BY PendingFacts DEF IInv, Waiting
  <1>5. HeldIsRecorded' /\ TicketsDiffer' /\ ExclusiveIsAlone'
    BY <1>1 DEF IInv, HeldIsRecorded, TicketsDiffer, ExclusiveIsAlone, Holds, coordinator
  <1>6. InterruptsArrive'
    BY <1>1, <1>3 DEF IInv, InterruptsArrive, coordinator
  <1>7. ExclusiveIsHeard'
    BY <1>1, <1>3, <1>4 DEF IInv, ExclusiveIsHeard, IsExclusive
  <1>8. IdleHoldsNothing' /\ PassedAreBlocked'
    BY <1>1 DEF IInv, IdleHoldsNothing, PassedAreBlocked, Holds, IsSync, coordinator
  <1>9. QED BY <1>5, <1>6, <1>7, <1>8 DEF Rest

(* Taking one request out of the queue leaves the others in their places. *)
LEMMA Removed ==
    ASSUME IInv, NEW n \in DOMAIN pending, pending' = RemoveAt(pending, n)
    PROVE  /\ DOMAIN pending' \subseteq DOMAIN pending
           /\ \A i \in DOMAIN pending' :
                 \E k \in DOMAIN pending :
                    /\ k # n /\ pending'[i] = pending[k]
                    /\ i < n => k = i
                    /\ i >= n => k = i + 1
           /\ \A i, j \in DOMAIN pending' : i # j => pending'[i].ticket # pending'[j].ticket
           /\ \A i \in DOMAIN pending' : pending'[i].ticket # pending[n].ticket
  <1>1. /\ DOMAIN pending = 1 .. Len(pending) /\ Len(pending) \in Nat
        /\ DOMAIN pending' = 1 .. Len(pending) - 1
        /\ \A i \in DOMAIN pending' :
              pending'[i] = IF i < n THEN pending[i] ELSE pending[i + 1]
    BY PendingFacts, RemoveAtFacts DEF IInv, AccountTypeOK
  <1> DEFINE old(i) == IF i < n THEN i ELSE i + 1
  <1>2. \A i \in DOMAIN pending' :
           /\ old(i) \in DOMAIN pending /\ old(i) # n
           /\ pending'[i] = pending[old(i)]
    BY <1>1
  <1>3. \A i, j \in DOMAIN pending' : i # j => old(i) # old(j)
    BY <1>1
  <1>4. \A i, j \in DOMAIN pending' : i # j => pending'[i].ticket # pending'[j].ticket
    BY <1>2, <1>3 DEF IInv, TicketsDiffer
  <1>5. \A i \in DOMAIN pending' : pending'[i].ticket # pending[n].ticket
    BY <1>2 DEF IInv, TicketsDiffer
  <1>6. QED BY <1>1, <1>2, <1>4, <1>5

(* A caller that lets go keeps nothing; its tickets become receipts. *)
LEMMA LetGoSafe ==
    ASSUME IInv, AccountTypeOK', NEW t \in Tasks, LetGo(t),
           UNCHANGED <<stop, coordinator>>,
           \A i \in DOMAIN pending' : \E k \in DOMAIN pending :
               /\ pending'[i].ticket = pending[k].ticket
               /\ pending'[i].task = pending[k].task
               /\ pending'[i].account = pending[k].account
               /\ pending'[i].open => pending[k].open
               /\ i < position => k = i,
           \A i, j \in DOMAIN pending' : i # j => pending'[i].ticket # pending'[j].ticket,
           \A d \in done' \ done :
               \/ d \in Dropped(t)
               \/ /\ \E k \in DOMAIN pending : pending[k].ticket = d.ticket
                  /\ \A i \in DOMAIN pending' : pending'[i].open => pending'[i].ticket # d.ticket
    PROVE  Rest'
  <1>1. \A u \in Tasks, a \in Accounts : held'[u][a] = IF u = t THEN 0 ELSE held[u][a]
    BY DEF LetGo, IInv, AccountTypeOK
  <1>2. \A u \in Tasks : u # t => state'[u] = state[u]
    BY DEF LetGo, IInv, AccountTypeOK
  <1>3. \A i \in DOMAIN pending : pending[i] \in Waiting
    BY PendingFacts DEF IInv
  <1>4. HeldIsRecorded'
    BY <1>1 DEF IInv, HeldIsRecorded, Holds, coordinator
  <1>5. \A a \in Accounts : Interrupted(a)' \subseteq Interrupted(a)
    BY <1>1 DEF Interrupted, Holds, coordinator
  <1>6. ExclusiveIsAlone' /\ InterruptsArrive'
    BY <1>5 DEF IInv, ExclusiveIsAlone, InterruptsArrive, coordinator
  <1>7. ExclusiveIsHeard'
    <2>1. ASSUME NEW i \in DOMAIN pending', IsExclusive(pending'[i])
          PROVE  \A a \in Accounts : a = pending'[i].account => Interrupted(a)' \subseteq stop
      <3>1. PICK k \in DOMAIN pending : /\ pending'[i].task = pending[k].task
                                        /\ pending'[i].account = pending[k].account
        OBVIOUS
      <3>2. Interrupted(pending[k].account) \subseteq stop
        BY <2>1, <3>1 DEF IInv, ExclusiveIsHeard, IsExclusive
      <3>3. QED BY <1>5, <3>1, <3>2
    <2>2. \A i \in DOMAIN pending' : pending'[i].account \in Accounts
      BY <1>3 DEF Waiting
    <2>3. QED BY <2>1, <2>2 DEF ExclusiveIsHeard, IsExclusive
  <1>8. IdleHoldsNothing'
    BY <1>1, <1>2 DEF IInv, IdleHoldsNothing, Holds
  <1>9. PassedAreBlocked'
    BY DEF IInv, PassedAreBlocked, IsSync, coordinator
  <1>10. \A d \in Dropped(t) : \E a \in Accounts : Holds(t, a) /\ held[t][a] = d.ticket
    BY DEF Dropped
  <1>11. TicketsDiffer'
    <2>2. ASSUME NEW u \in Tasks, NEW a \in Accounts, NEW i \in DOMAIN pending'
          PROVE  held'[u][a] # pending'[i].ticket
      <3>1. PICK k \in DOMAIN pending : pending'[i].ticket = pending[k].ticket
        OBVIOUS
      <3>2. pending[k].ticket # 0
        BY <1>3 DEF Waiting, Tickets
      <3>3. QED BY <1>1, <3>1, <3>2 DEF IInv, TicketsDiffer
    <2>3. ASSUME NEW u \in Tasks, NEW a \in Accounts, NEW d \in done'
          PROVE  held'[u][a] # d.ticket
      <3>1. d.ticket # 0
        BY DEF AccountTypeOK, Receipts, Tickets
      <3>2. CASE u = t
        BY <1>1, <3>1, <3>2
      <3>3. CASE u # t /\ d \in done
        BY <1>1, <3>3 DEF IInv, TicketsDiffer
      <3>4. CASE u # t /\ d \in Dropped(t)
        BY <1>1, <1>10, <3>4 DEF IInv, TicketsDiffer
      <3>5. CASE u # t /\ \E i \in DOMAIN pending : pending[i].ticket = d.ticket
        BY <1>1, <3>5 DEF IInv, TicketsDiffer
      <3>6. QED BY <3>2, <3>3, <3>4, <3>5
    <2>4. ASSUME NEW u \in Tasks, NEW a \in Accounts,
                 NEW v \in Tasks, NEW b \in Accounts,
                 held'[u][a] # 0, held'[v][b] = held'[u][a]
          PROVE  u = v /\ a = b
      BY <1>1, <2>4 DEF IInv, TicketsDiffer, Holds
    <2>5. ASSUME NEW i \in DOMAIN pending', NEW d \in done', pending'[i].open
          PROVE  pending'[i].ticket # d.ticket
      <3>1. PICK k \in DOMAIN pending : /\ pending'[i].ticket = pending[k].ticket
                                        /\ pending[k].open
        BY <2>5
      <3>2. CASE d \in done
        BY <3>1, <3>2 DEF IInv, TicketsDiffer
      <3>3. CASE d \in Dropped(t)
        BY <1>10, <3>1, <3>3 DEF IInv, TicketsDiffer
      <3>4. CASE d \in done' \ done /\ d \notin Dropped(t)
        BY <2>5, <3>4
      <3>5. QED BY <3>2, <3>3, <3>4
    <2>6. QED BY <2>2, <2>3, <2>4, <2>5 DEF TicketsDiffer, Holds
  <1>12. QED BY <1>4, <1>6, <1>7, <1>8, <1>9, <1>11 DEF Rest

LEMMA FinishSafe ==
    ASSUME IInv, AccountTypeOK', NEW t \in Tasks, Finish(t)
    PROVE  Rest'
  <1>1. LetGo(t) /\ UNCHANGED <<stop, coordinator, pending>> /\ done' = done \cup Dropped(t)
    BY DEF Finish
  <1>2. \A i, j \in DOMAIN pending' : i # j => pending'[i].ticket # pending'[j].ticket
    BY <1>1 DEF IInv, TicketsDiffer
  <1>3. QED BY <1>1, <1>2, LetGoSafe

LEMMA CancelSafe ==
    ASSUME IInv, AccountTypeOK', NEW t \in Tasks, Cancel(t)
    PROVE  Rest'
  <1>1. /\ DOMAIN pending' = DOMAIN pending
        /\ \A i \in DOMAIN pending :
              /\ pending'[i].ticket = pending[i].ticket
              /\ pending'[i].task = pending[i].task
              /\ pending'[i].account = pending[i].account
              /\ pending'[i].open <=> pending[i].open /\ pending[i].task # t
    BY CloseFacts DEF Cancel, IInv
  <1>2. \A q \in ToSet(pending) : \E i \in DOMAIN pending : pending[i] = q
    BY ToSetFacts DEF IInv, AccountTypeOK
  <1>3. \A i, j \in DOMAIN pending' : i # j => pending'[i].ticket # pending'[j].ticket
    BY <1>1 DEF IInv, TicketsDiffer
  <1>4. ASSUME NEW d \in AskedFor(t)
        PROVE  /\ \E k \in DOMAIN pending : pending[k].ticket = d.ticket
               /\ \A i \in DOMAIN pending' :
                     pending'[i].open => pending'[i].ticket # d.ticket
    <2>1. PICK k \in DOMAIN pending : pending[k].ticket = d.ticket /\ pending[k].task = t
      BY <1>2 DEF AskedFor
    <2>2. QED BY <1>1, <1>3, <2>1
  <1>5. \A d \in done' \ done :
           \/ d \in Dropped(t)
           \/ /\ \E k \in DOMAIN pending : pending[k].ticket = d.ticket
              /\ \A i \in DOMAIN pending' : pending'[i].open => pending'[i].ticket # d.ticket
    BY <1>4 DEF Cancel
  <1>6. LetGo(t) /\ UNCHANGED <<stop, coordinator>>
    BY DEF Cancel
  <1>7. \A i \in DOMAIN pending' : \E k \in DOMAIN pending :
           /\ pending'[i].ticket = pending[k].ticket
           /\ pending'[i].task = pending[k].task
           /\ pending'[i].account = pending[k].account
           /\ pending'[i].open => pending[k].open
           /\ i < position => k = i
    BY <1>1
  <1>8. QED BY <1>3, <1>5, <1>6, <1>7, LetGoSafe

(* A request that leaves the queue alone, whoever else stays in it. *)
LEMMA ShortenedSafe ==
    ASSUME IInv, AccountTypeOK',
           UNCHANGED <<state, held, stop, done, coordinator>>,
           \A i \in DOMAIN pending' : \E k \in DOMAIN pending :
               pending'[i] = pending[k] /\ (i < position => k = i),
           \A i, j \in DOMAIN pending' : i # j => pending'[i].ticket # pending'[j].ticket
    PROVE  Rest'
  <1>1. \A i \in DOMAIN pending : pending[i] \in Waiting
    BY PendingFacts DEF IInv
  <1>4. HeldIsRecorded' /\ ExclusiveIsAlone'
    BY DEF IInv, HeldIsRecorded, ExclusiveIsAlone, Holds, coordinator
  <1>5. \A a \in Accounts : Interrupted(a)' = Interrupted(a)
    BY DEF Interrupted, Holds, coordinator
  <1>6. InterruptsArrive'
    BY <1>5 DEF IInv, InterruptsArrive, coordinator
  <1>7. ExclusiveIsHeard'
    BY <1>1, <1>5 DEF IInv, ExclusiveIsHeard, IsExclusive, Waiting
  <1>8. IdleHoldsNothing'
    BY DEF IInv, IdleHoldsNothing, Holds
  <1>9. PassedAreBlocked'
    BY DEF IInv, PassedAreBlocked, IsSync, coordinator
  <1>11. TicketsDiffer'
    BY DEF IInv, TicketsDiffer, Holds
  <1>12. QED BY <1>4, <1>6, <1>7, <1>8, <1>9, <1>11 DEF Rest

(* The pass over the queue: refuse, grant, or leave in place. *)
LEMMA RefuseSafe ==
    ASSUME IInv, AccountTypeOK', position \in DOMAIN pending,
           pending' = RemoveAt(pending, position),
           \/ /\ LetGo(pending[position].task)
              /\ done' = done \cup Dropped(pending[position].task)
                           \cup {[ticket |-> pending[position].ticket,
                                  account |-> pending[position].account]}
           \/ UNCHANGED <<state, held, done>>,
           UNCHANGED <<stop, coordinator>>
    PROVE  Rest'
  <1> DEFINE q == pending[position]
  <1>1. \A i \in DOMAIN pending : pending[i] \in Waiting
    BY PendingFacts DEF IInv
  <1>2. q.task \in Tasks
    BY <1>1 DEF Waiting
  <1>3. /\ \A i \in DOMAIN pending' :
              \E k \in DOMAIN pending :
                 k # position /\ pending'[i] = pending[k] /\ (i < position => k = i)
        /\ \A i, j \in DOMAIN pending' : i # j => pending'[i].ticket # pending'[j].ticket
        /\ \A i \in DOMAIN pending' : pending'[i].ticket # q.ticket
    BY Removed
  <1>4. CASE /\ LetGo(q.task)
             /\ done' = done \cup Dropped(q.task)
                          \cup {[ticket |-> q.ticket, account |-> q.account]}
    <2>1. \A d \in done' \ done :
             \/ d \in Dropped(q.task)
             \/ /\ \E k \in DOMAIN pending : pending[k].ticket = d.ticket
                /\ \A i \in DOMAIN pending' : pending'[i].open => pending'[i].ticket # d.ticket
      BY <1>3, <1>4
    <2>2. \A i \in DOMAIN pending' : \E k \in DOMAIN pending :
             /\ pending'[i].ticket = pending[k].ticket
             /\ pending'[i].task = pending[k].task
             /\ pending'[i].account = pending[k].account
             /\ pending'[i].open => pending[k].open
             /\ i < position => k = i
      BY <1>3
    <2> HIDE DEF q
    <2>3. QED BY <1>2, <1>3, <1>4, <2>1, <2>2, LetGoSafe
  <1>5. CASE UNCHANGED <<state, held, done>>
    BY <1>3, <1>5, ShortenedSafe
  <1>6. QED BY <1>4, <1>5

LEMMA GrantSafe ==
    ASSUME IInv, AccountTypeOK', position \in DOMAIN pending,
           pending' = RemoveAt(pending, position),
           ~Skipped(pending[position]), Ready(pending[position]),
           Granted(pending[position]),
           UNCHANGED <<done, stop, position, blocked>>
    PROVE  Rest'
  <1> DEFINE q == pending[position]
             t == q.task
             b == q.account
  <1>1. \A i \in DOMAIN pending : pending[i] \in Waiting
    BY PendingFacts DEF IInv
  <1>2. /\ q.ticket \in Tickets /\ q.ticket # 0 /\ t \in Tasks /\ b \in Accounts /\ q.open
        /\ Kind[t] \in WorkKinds
    BY <1>1, TasksAssumption DEF Skipped, Waiting, Tickets
  <1>3. /\ \A i \in DOMAIN pending' :
              \E k \in DOMAIN pending :
                 k # position /\ pending'[i] = pending[k] /\ (i < position => k = i)
        /\ \A i, j \in DOMAIN pending' : i # j => pending'[i].ticket # pending'[j].ticket
        /\ \A i \in DOMAIN pending' : pending'[i].ticket # q.ticket
    BY Removed
  <1>4. \A u \in Tasks, a \in Accounts :
           held'[u][a] = IF u = t /\ a = b THEN q.ticket ELSE held[u][a]
    BY <1>2 DEF Granted, IInv, AccountTypeOK
  <1>5. \A a \in Accounts :
           /\ syncs'[a] = IF IsSync(q) /\ a = b
                          THEN [ticket |-> q.ticket, interrupted |-> FALSE] ELSE syncs[a]
           /\ mutations'[a] = IF ~IsSync(q) /\ a = b
                              THEN [ticket |-> q.ticket, exclusive |-> IsExclusive(q)]
                              ELSE mutations[a]
    BY <1>2 DEF Granted, IInv, AccountTypeOK
  <1>6. /\ IsSync(q) => syncs[b].ticket = 0 /\ ~ExclusiveWaiting(b)
        /\ ~IsSync(q) => mutations[b].ticket = 0
        /\ IsExclusive(q) => syncs[b].ticket = 0
    BY <1>2 DEF Skipped, Ready, IsSync, IsExclusive
  <1>7. HeldIsRecorded'
    <2> SUFFICES ASSUME NEW u \in Tasks, NEW a \in Accounts, held'[u][a] # 0
                 PROVE  IF Kind[u] = "Sync"
                        THEN syncs'[a].ticket = held'[u][a]
                        ELSE /\ mutations'[a].ticket = held'[u][a]
                             /\ mutations'[a].exclusive <=> Kind[u] = "Exclusive"
      BY DEF HeldIsRecorded, Holds
    <2>1. CASE u = t /\ a = b
      <3>1. held'[u][a] = q.ticket /\ (IsSync(q) <=> Kind[u] = "Sync")
            /\ (IsExclusive(q) <=> Kind[u] = "Exclusive")
        BY <1>4, <2>1 DEF IsSync, IsExclusive
      <3>2. IsSync(q) => syncs'[a].ticket = q.ticket
        BY <1>5, <2>1
      <3>3. ~IsSync(q) => /\ mutations'[a].ticket = q.ticket
                          /\ mutations'[a].exclusive = IsExclusive(q)
        BY <1>5, <2>1
      <3>4. QED BY <3>1, <3>2, <3>3
    <2>2. CASE ~(u = t /\ a = b)
      <3>1. IF Kind[u] = "Sync" THEN syncs[a].ticket = held[u][a]
            ELSE /\ mutations[a].ticket = held[u][a]
                 /\ mutations[a].exclusive <=> Kind[u] = "Exclusive"
        BY <1>4, <2>2 DEF IInv, HeldIsRecorded, Holds
      <3>2. held'[u][a] = held[u][a] /\ held[u][a] # 0
        BY <1>4, <2>2
      <3>3. CASE a = b /\ IsSync(q)
        BY <1>5, <1>6, <3>1, <3>2, <3>3
      <3>4. CASE a = b /\ ~IsSync(q)
        BY <1>5, <1>6, <3>1, <3>2, <3>4
      <3>5. CASE a # b
        BY <1>5, <3>1, <3>2, <3>5
      <3>6. QED BY <3>3, <3>4, <3>5
    <2>3. QED BY <2>1, <2>2
  <1>8. ExclusiveIsAlone'
    <2> SUFFICES ASSUME NEW a \in Accounts, mutations'[a].exclusive
                 PROVE  syncs'[a].ticket = 0
      BY DEF ExclusiveIsAlone
    <2>1. CASE a = b /\ IsSync(q)
      BY <1>5, <1>6, <2>1 DEF ExclusiveWaiting
    <2>2. CASE a = b /\ ~IsSync(q)
      BY <1>5, <1>6, <2>2
    <2>3. CASE a # b
      BY <1>5, <2>3 DEF IInv, ExclusiveIsAlone
    <2>4. QED BY <2>1, <2>2, <2>3
  <1>9. ASSUME NEW a \in Accounts, a # b \/ ~IsSync(q)
        PROVE  Interrupted(a)' \subseteq Interrupted(a) /\ syncs'[a] = syncs[a]
    BY <1>4, <1>5, <1>9 DEF Interrupted, Holds, IsSync
  <1>10. InterruptsArrive'
    <2> SUFFICES ASSUME NEW a \in Accounts, syncs'[a].ticket # 0, syncs'[a].interrupted
                 PROVE  Interrupted(a)' \subseteq stop
      BY DEF InterruptsArrive
    <2>1. a # b \/ ~IsSync(q)
      BY <1>5
    <2>2. QED BY <1>9, <2>1 DEF IInv, InterruptsArrive
  <1>11. ExclusiveIsHeard'
    <2>1. ASSUME NEW i \in DOMAIN pending', IsExclusive(pending'[i])
          PROVE  \A a \in Accounts : a = pending'[i].account => Interrupted(a)' \subseteq stop
      <3>1. PICK k \in DOMAIN pending : pending'[i] = pending[k]
        BY <1>3
      <3>2. pending[k].account \in Accounts /\ pending[k] \in ToSet(pending)
        BY <1>1, ToSetFacts DEF Waiting, IInv, AccountTypeOK
      <3>3. IsExclusive(pending[k])
        BY <2>1, <3>1
      <3>4. pending[k].account # b \/ ~IsSync(q)
        BY <1>6, <3>2, <3>3 DEF ExclusiveWaiting
      <3>5. Interrupted(pending[k].account) \subseteq stop
        BY <3>3 DEF IInv, ExclusiveIsHeard
      <3>6. QED BY <1>9, <3>1, <3>2, <3>4, <3>5
    <2>2. \A i \in DOMAIN pending' : pending'[i].account \in Accounts
      BY <1>1, <1>3 DEF Waiting
    <2>3. QED BY <2>1, <2>2 DEF ExclusiveIsHeard, IsExclusive
  <1>12. IdleHoldsNothing'
    <2>1. \A u \in Tasks : state'[u] = "idle" => u # t /\ state[u] = "idle"
      BY <1>2 DEF Granted, IInv, AccountTypeOK
    <2>2. QED BY <1>4, <2>1 DEF IInv, IdleHoldsNothing, Holds
  <1>13. PassedAreBlocked'
    BY <1>3 DEF IInv, PassedAreBlocked, IsSync
  <1>14. TicketsDiffer'
    <2>1. ASSUME NEW u \in Tasks, NEW a \in Accounts
          PROVE  /\ \A i \in DOMAIN pending' : held'[u][a] # pending'[i].ticket
                 /\ \A d \in done : held'[u][a] # d.ticket
      BY <1>2, <1>3, <1>4 DEF IInv, TicketsDiffer
    <2>2. ASSUME NEW u \in Tasks, NEW a \in Accounts, NEW v \in Tasks, NEW c \in Accounts,
                 held'[u][a] # 0, held'[v][c] = held'[u][a]
          PROVE  u = v /\ a = c
      <3>1. \A w \in Tasks, e \in Accounts : held[w][e] # q.ticket
        BY DEF IInv, TicketsDiffer
      <3>2. QED BY <1>4, <2>2, <3>1 DEF IInv, TicketsDiffer, Holds
    <2>3. \A i \in DOMAIN pending' : \A d \in done :
             pending'[i].open => pending'[i].ticket # d.ticket
      BY <1>3 DEF IInv, TicketsDiffer
    <2>4. QED BY <1>3, <2>1, <2>2, <2>3 DEF TicketsDiffer, Holds
  <1>15. QED BY <1>7, <1>8, <1>10, <1>11, <1>12, <1>13, <1>14 DEF Rest

LEMMA ScanSafe == IInv /\ AccountTypeOK' /\ Scan => Rest'
  <1> SUFFICES ASSUME IInv, AccountTypeOK', Scan PROVE Rest'
    OBVIOUS
  <1> DEFINE q == pending[position]
  <1>1. position \in DOMAIN pending /\ UNCHANGED <<stop, channel>>
    BY PendingFacts DEF Scan, IInv
  <1>2. CASE /\ Skipped(q)
             /\ pending' = RemoveAt(pending, position)
             /\ \/ /\ q.open
                   /\ LetGo(q.task)
                   /\ done' = done \cup Dropped(q.task)
                                \cup {[ticket |-> q.ticket, account |-> q.account]}
                \/ ~q.open /\ UNCHANGED <<state, held, done>>
             /\ UNCHANGED coordinator
    BY <1>1, <1>2, RefuseSafe
  <1>3. CASE /\ ~Skipped(q) /\ Ready(q)
             /\ pending' = RemoveAt(pending, position)
             /\ Granted(q)
             /\ UNCHANGED <<done, position, blocked>>
    BY <1>1, <1>3, GrantSafe
  <1>4. CASE /\ blocked' = BlockedBy(q)
             /\ position' = position + 1
             /\ UNCHANGED <<state, held, pending, syncs, mutations, done>>
    <2>1. \A a \in Accounts : Interrupted(a)' = Interrupted(a)
      BY <1>4 DEF Interrupted, Holds
    <2>2. \A i \in DOMAIN pending : pending[i].account \in Accounts
      BY PendingFacts DEF IInv, Waiting
    <2>3. HeldIsRecorded' /\ TicketsDiffer' /\ ExclusiveIsAlone' /\ IdleHoldsNothing'
      BY <1>4
      DEF IInv, HeldIsRecorded, TicketsDiffer, ExclusiveIsAlone, IdleHoldsNothing, Holds
    <2>4. InterruptsArrive'
      BY <1>1, <1>4, <2>1 DEF IInv, InterruptsArrive
    <2>5. ExclusiveIsHeard'
      BY <1>1, <1>4, <2>1, <2>2 DEF IInv, ExclusiveIsHeard, IsExclusive
    <2>6. PassedAreBlocked'
      <3>1. ASSUME NEW i \in DOMAIN pending, i < position + 1, ~IsSync(pending[i])
            PROVE  pending[i].account \in BlockedBy(q)
        <4>1. i < position \/ i = position
          BY <1>1, <3>1, PendingFacts DEF IInv, AccountTypeOK
        <4>2. QED BY <3>1, <4>1 DEF IInv, PassedAreBlocked, BlockedBy
      <3>2. QED BY <1>4, <3>1 DEF PassedAreBlocked, IsSync
    <2>7. QED BY <2>3, <2>4, <2>5, <2>6 DEF Rest
  <1>5. QED BY <1>2, <1>3, <1>4 DEF Scan

(* A new request gets a ticket that is nowhere else. *)
LEMMA ReceiveSafe == IInv /\ AccountTypeOK' /\ Receive => Rest'
  <1> SUFFICES ASSUME IInv, AccountTypeOK', Receive PROVE Rest'
    OBVIOUS
  <1> DEFINE r == Head(channel)
             b == r.account
             new == [ticket |-> NextTicket, task |-> r.task, account |-> b, open |-> TRUE]
  <1>1. channel \in Seq(Sent) /\ channel # << >>
    BY DEF Receive, IInv, AccountTypeOK
  <1>2. r \in Sent
    BY <1>1, HeadTailProperties
  <1>3. r.task \in Tasks /\ b \in Accounts
    BY <1>2 DEF Sent
  <1>4. UNCHANGED <<state, held, mutations, done>> /\ position' = 1 /\ blocked' = {}
    BY DEF Receive, Rescan
  <1>5. PassedAreBlocked'
    <2>1. \A i \in DOMAIN pending' : ~(i < 1)
      BY DEF AccountTypeOK
    <2>2. QED BY <1>4, <2>1 DEF PassedAreBlocked
  <1>6. IdleHoldsNothing'
    BY <1>4 DEF IInv, IdleHoldsNothing, Holds
  <1>7. \A i \in DOMAIN pending : pending[i] \in Waiting
    BY PendingFacts DEF IInv
  <1>8. CASE UNCHANGED <<pending, syncs, stop>>
    <2>1. \A a \in Accounts : Interrupted(a)' = Interrupted(a)
      BY <1>4, <1>8 DEF Interrupted, Holds
    <2>2. HeldIsRecorded' /\ TicketsDiffer' /\ ExclusiveIsAlone'
      BY <1>4, <1>8 DEF IInv, HeldIsRecorded, TicketsDiffer, ExclusiveIsAlone, Holds
    <2>3. InterruptsArrive'
      BY <1>8, <2>1 DEF IInv, InterruptsArrive
    <2>4. ExclusiveIsHeard'
      BY <1>7, <1>8, <2>1 DEF IInv, ExclusiveIsHeard, IsExclusive, Waiting
    <2>5. QED BY <1>5, <1>6, <2>2, <2>3, <2>4 DEF Rest
  <1>9. CASE /\ Tickets \ InUse # {}
             /\ pending' = Append(pending, new)
             /\ IF IsExclusive(r) /\ syncs[b].ticket # 0 /\ ~syncs[b].interrupted
                THEN /\ syncs' = [syncs EXCEPT ![b].interrupted = TRUE]
                     /\ stop' = stop \cup Interrupted(b)
                ELSE UNCHANGED <<syncs, stop>>
    <2>1. NextTicket \in Tickets /\ NextTicket \notin InUse
      BY <1>9, FreshTicket
    <2>2. /\ \A i \in DOMAIN pending : pending[i].ticket # NextTicket
          /\ \A d \in done : d.ticket # NextTicket
          /\ \A t \in Tasks, a \in Accounts : held[t][a] # NextTicket
      <3>1. \A i \in DOMAIN pending : pending[i] \in ToSet(pending)
        BY ToSetFacts DEF IInv, AccountTypeOK
      <3>2. QED BY <2>1, <3>1 DEF InUse
    <2>3. /\ DOMAIN pending' = 1 .. Len(pending) + 1
          /\ DOMAIN pending = 1 .. Len(pending) /\ Len(pending) \in Nat
          /\ \A i \in DOMAIN pending : pending'[i] = pending[i]
          /\ pending'[Len(pending) + 1] = new
      <3>1. new \in Waiting
        BY <1>3, <2>1 DEF Waiting
      <3>2. QED BY <1>9, <3>1, AppendProperties, PendingFacts DEF IInv, AccountTypeOK
    <2>4. \A a \in Accounts :
             /\ syncs'[a].ticket = syncs[a].ticket
             /\ syncs'[a].interrupted => syncs[a].interrupted
                                         \/ Interrupted(a) \subseteq stop'
      <3>1. CASE UNCHANGED <<syncs, stop>>
        BY <3>1
      <3>2. CASE /\ syncs' = [syncs EXCEPT ![b].interrupted = TRUE]
                 /\ stop' = stop \cup Interrupted(b)
        <4>1. ASSUME NEW a \in Accounts
              PROVE  /\ syncs'[a].ticket = syncs[a].ticket
                     /\ a # b => syncs'[a].interrupted = syncs[a].interrupted
          BY <1>3, <3>2 DEF IInv, AccountTypeOK, Sync
        <4>2. QED BY <3>2, <4>1
      <3>3. QED BY <1>9, <3>1, <3>2
    <2>5. stop \subseteq stop'
      BY <1>9
    <2>6. \A a \in Accounts : Interrupted(a)' = Interrupted(a)
      BY <1>4, <2>4 DEF Interrupted, Holds
    <2>7. HeldIsRecorded' /\ ExclusiveIsAlone'
      BY <1>4, <2>4 DEF IInv, HeldIsRecorded, ExclusiveIsAlone, Holds
    <2>8. InterruptsArrive'
      BY <2>4, <2>5, <2>6 DEF IInv, InterruptsArrive
    <2>9. ExclusiveIsHeard'
      <3>1. ASSUME NEW i \in DOMAIN pending, IsExclusive(pending[i]),
                   NEW a \in Accounts, a = pending[i].account
            PROVE  Interrupted(a)' \subseteq stop'
        <4>1. Interrupted(a) \subseteq stop
          BY <3>1 DEF IInv, ExclusiveIsHeard
        <4>2. QED BY <2>5, <2>6, <4>1
      <3>2. ASSUME IsExclusive(new), NEW a \in Accounts, a = b
            PROVE  Interrupted(a)' \subseteq stop'
        <4>1. IsExclusive(r)
          BY <3>2 DEF IsExclusive
        <4>2. CASE syncs[a].ticket = 0
          <5>1. Interrupted(a) = {}
            BY <4>2 DEF Interrupted, Holds
          <5>2. QED BY <2>6, <5>1
        <4>3. CASE syncs[a].ticket # 0 /\ syncs[a].interrupted
          <5>1. Interrupted(a) \subseteq stop
            BY <4>3 DEF IInv, InterruptsArrive
          <5>2. QED BY <2>5, <2>6, <5>1
        <4>4. CASE syncs[a].ticket # 0 /\ ~syncs[a].interrupted
          <5>1. stop' = stop \cup Interrupted(a)
            BY <1>9, <3>2, <4>1, <4>4
          <5>2. QED BY <2>6, <5>1
        <4>5. QED BY <4>2, <4>3, <4>4
      <3>3. ASSUME NEW i \in DOMAIN pending', IsExclusive(pending'[i])
            PROVE  \A a \in Accounts : a = pending'[i].account => Interrupted(a)' \subseteq stop'
        <4>1. CASE i \in DOMAIN pending
          <5>1. IsExclusive(pending[i]) /\ pending'[i].account = pending[i].account
            BY <2>3, <3>3, <4>1
          <5>2. QED BY <3>1, <4>1, <5>1
        <4>2. CASE i = Len(pending) + 1
          <5>1. pending'[i] = new
            BY <2>3, <4>2
          <5>2. IsExclusive(new) /\ new.account = b
            BY <3>3, <5>1
          <5>3. QED BY <3>2, <5>1, <5>2
        <4>3. QED BY <2>3, <4>1, <4>2
      <3>4. \A i \in DOMAIN pending' : pending'[i].account \in Accounts
        BY <1>3, <1>7, <2>3 DEF Waiting
      <3>5. QED BY <3>3, <3>4 DEF ExclusiveIsHeard, IsExclusive
    <2>10. TicketsDiffer'
      <3>1. \A i, j \in DOMAIN pending' : i # j => pending'[i].ticket # pending'[j].ticket
        <4>1. ASSUME NEW i \in DOMAIN pending', NEW j \in DOMAIN pending', i # j
              PROVE  pending'[i].ticket # pending'[j].ticket
          <5>1. CASE i \in DOMAIN pending /\ j \in DOMAIN pending
            BY <2>3, <4>1, <5>1 DEF IInv, TicketsDiffer
          <5>2. CASE i \in DOMAIN pending /\ j = Len(pending) + 1
            BY <2>2, <2>3, <5>2
          <5>3. CASE i = Len(pending) + 1 /\ j \in DOMAIN pending
            BY <2>2, <2>3, <5>3
          <5>4. QED BY <2>3, <4>1, <5>1, <5>2, <5>3
        <4>2. QED BY <4>1
      <3>2. \A t \in Tasks, a \in Accounts :
               \A i \in DOMAIN pending' : held[t][a] # pending'[i].ticket
        <4>1. ASSUME NEW t \in Tasks, NEW a \in Accounts, NEW i \in DOMAIN pending'
              PROVE  held[t][a] # pending'[i].ticket
          <5>1. CASE i \in DOMAIN pending
            BY <2>3, <5>1 DEF IInv, TicketsDiffer
          <5>2. CASE i = Len(pending) + 1
            BY <2>2, <2>3, <5>2
          <5>3. QED BY <2>3, <5>1, <5>2
        <4>2. QED BY <4>1
      <3>3. \A i \in DOMAIN pending' : \A d \in done :
               pending'[i].open => pending'[i].ticket # d.ticket
        <4>1. ASSUME NEW i \in DOMAIN pending', NEW d \in done, pending'[i].open
              PROVE  pending'[i].ticket # d.ticket
          <5>1. CASE i \in DOMAIN pending
            BY <2>3, <4>1, <5>1 DEF IInv, TicketsDiffer
          <5>2. CASE i = Len(pending) + 1
            BY <2>2, <2>3, <5>2
          <5>3. QED BY <2>3, <5>1, <5>2
        <4>2. QED BY <4>1
      <3>4. QED BY <1>4, <3>1, <3>2, <3>3 DEF IInv, TicketsDiffer, Holds
    <2>11. QED BY <1>5, <1>6, <2>7, <2>8, <2>9, <2>10 DEF Rest
  <1>10. QED BY <1>8, <1>9 DEF Receive

(* A receipt clears its own ticket and no other. *)
LEMMA SettleSafe ==
    ASSUME IInv, AccountTypeOK', NEW d \in Receipts, Settle(d)
    PROVE  Rest'
  <1>1. /\ UNCHANGED <<state, held, stop, channel>> /\ d \in done /\ done' = done \ {d}
        /\ position' = 1 /\ blocked' = {}
    BY DEF Settle, Rescan, callers
  <1>2. /\ d.account \in Accounts /\ d.ticket \in Tickets /\ d.ticket # 0
        /\ \A t \in Tasks, a \in Accounts : held[t][a] # d.ticket
    BY <1>1 DEF Receipts, Tickets, IInv, TicketsDiffer
  <1>3. \A a \in Accounts :
           /\ syncs'[a] = IF a = d.account /\ syncs[a].ticket = d.ticket
                          THEN NoSync ELSE syncs[a]
           /\ mutations'[a] = IF a = d.account /\ mutations[a].ticket = d.ticket
                              THEN NoMutation ELSE mutations[a]
    BY <1>2 DEF Settle, Settles, IInv, AccountTypeOK
  <1>4. \A i \in DOMAIN pending : pending[i] \in Waiting
    BY PendingFacts DEF IInv
  <1>5. /\ \A i \in DOMAIN pending' : \E k \in DOMAIN pending : pending'[i] = pending[k]
        /\ \A i, j \in DOMAIN pending' : i # j => pending'[i].ticket # pending'[j].ticket
    <2>1. CASE pending' = pending
      BY <2>1 DEF IInv, TicketsDiffer
    <2>2. CASE \E i \in DOMAIN pending : pending' = RemoveAt(pending, i)
      BY <2>2, Removed
    <2>3. QED BY <2>1, <2>2, WithoutFacts DEF Settle, IInv
  <1>6. \A a \in Accounts : Interrupted(a)' \subseteq Interrupted(a)
    BY <1>1, <1>2, <1>3 DEF Interrupted, Holds, NoSync
  <1>7. HeldIsRecorded'
    <2> SUFFICES ASSUME NEW t \in Tasks, NEW a \in Accounts, held[t][a] # 0
                 PROVE  IF Kind[t] = "Sync"
                        THEN syncs'[a].ticket = held[t][a]
                        ELSE /\ mutations'[a].ticket = held[t][a]
                             /\ mutations'[a].exclusive <=> Kind[t] = "Exclusive"
      BY <1>1 DEF HeldIsRecorded, Holds
    <2>1. IF Kind[t] = "Sync" THEN syncs[a].ticket = held[t][a]
          ELSE /\ mutations[a].ticket = held[t][a]
               /\ mutations[a].exclusive <=> Kind[t] = "Exclusive"
      BY DEF IInv, HeldIsRecorded, Holds
    <2>2. held[t][a] # d.ticket
      BY <1>2
    <2>3. CASE Kind[t] = "Sync"
      BY <1>3, <2>1, <2>2, <2>3
    <2>4. CASE Kind[t] # "Sync"
      BY <1>3, <2>1, <2>2, <2>4
    <2>5. QED BY <2>3, <2>4
  <1>8. ExclusiveIsAlone'
    BY <1>3 DEF IInv, ExclusiveIsAlone, NoSync, NoMutation
  <1>9. InterruptsArrive'
    BY <1>1, <1>3, <1>6 DEF IInv, InterruptsArrive, NoSync
  <1>10. ExclusiveIsHeard'
    <2>1. ASSUME NEW i \in DOMAIN pending', IsExclusive(pending'[i])
          PROVE  \A a \in Accounts : a = pending'[i].account => Interrupted(a)' \subseteq stop
      <3>1. PICK k \in DOMAIN pending : pending'[i] = pending[k]
        BY <1>5
      <3>2. Interrupted(pending[k].account) \subseteq stop
        BY <2>1, <3>1 DEF IInv, ExclusiveIsHeard
      <3>3. QED BY <1>6, <3>1, <3>2
    <2>2. \A i \in DOMAIN pending' : pending'[i].account \in Accounts
      BY <1>4, <1>5 DEF Waiting
    <2>3. QED BY <1>1, <2>1, <2>2 DEF ExclusiveIsHeard, IsExclusive
  <1>11. IdleHoldsNothing'
    BY <1>1 DEF IInv, IdleHoldsNothing, Holds
  <1>12. PassedAreBlocked'
    <2>1. \A i \in DOMAIN pending' : ~(i < 1)
      BY DEF AccountTypeOK
    <2>2. QED BY <1>1, <2>1 DEF PassedAreBlocked
  <1>13. TicketsDiffer'
    <2>1. \A t \in Tasks, a \in Accounts : \A i \in DOMAIN pending' : held[t][a] # pending'[i].ticket
      BY <1>5 DEF IInv, TicketsDiffer
    <2>2. \A i \in DOMAIN pending' : \A e \in done' :
             pending'[i].open => pending'[i].ticket # e.ticket
      BY <1>1, <1>5 DEF IInv, TicketsDiffer
    <2>3. QED BY <1>1, <1>5, <2>1, <2>2 DEF IInv, TicketsDiffer, Holds
  <1>14. QED BY <1>7, <1>8, <1>9, <1>10, <1>11, <1>12, <1>13 DEF Rest

LEMMA InitSafe == AccountInit => IInv
  <1> SUFFICES ASSUME AccountInit PROVE IInv
    OBVIOUS
  <1>1. AccountTypeOK
    BY InitType
  <1>2. pending = << >> /\ DOMAIN pending = {} /\ done = {} /\ stop = {}
    BY DEF AccountInit
  <1>3. \A t \in Tasks, a \in Accounts : held[t][a] = 0
    BY DEF AccountInit
  <1>4. \A a \in Accounts : ~mutations[a].exclusive /\ syncs[a].ticket = 0
    BY DEF AccountInit, NoMutation, NoSync
  <1>5. QED
    BY <1>1, <1>2, <1>3, <1>4
    DEF IInv, HeldIsRecorded, TicketsDiffer, ExclusiveIsAlone, InterruptsArrive,
        ExclusiveIsHeard, IdleHoldsNothing, PassedAreBlocked, Holds

LEMMA NextSafe == IInv /\ [AccountNext]_accountVars => IInv'
  <1> SUFFICES ASSUME IInv, [AccountNext]_accountVars PROVE IInv'
    OBVIOUS
  <1>1. AccountTypeOK'
    BY NextType DEF IInv
  <1>2. Rest'
    <2>1. CASE UNCHANGED accountVars
      <3>1. UNCHANGED <<state, held, stop, done, coordinator>> /\ pending' = pending
        BY <2>1 DEF accountVars, callers
      <3>2. \A i, j \in DOMAIN pending' : i # j => pending'[i].ticket # pending'[j].ticket
        BY <3>1 DEF IInv, TicketsDiffer
      <3>3. QED BY <1>1, <3>1, <3>2, ShortenedSafe
    <2>2. CASE \E t \in Tasks : Begin(t) \/ Send(t) \/ Finish(t) \/ Cancel(t) \/ OwnerCloses(t)
      BY <1>1, <2>2, BeginSafe, FinishSafe, CancelSafe
    <2>3. CASE Scan \/ Receive
      BY <1>1, <2>3, ScanSafe, ReceiveSafe
    <2>4. CASE \E d \in Receipts : Settle(d)
      BY <1>1, <2>4, SettleSafe
    <2>5. QED BY <2>1, <2>2, <2>3, <2>4 DEF AccountNext
  <1>3. QED BY <1>1, <1>2 DEF Rest, IInv

----------------------------------------------------------------------------
(* The theorems. *)

(* The agreement of tickets, maps and queue is kept by every step.          *)
THEOREM Invariant == AccountSpec => []IInv
  BY InitSafe, NextSafe, PTL DEF AccountSpec

(* The variables keep their types.                                          *)
THEOREM TypeCorrect == AccountSpec => []AccountTypeOK
  <1>1. IInv => AccountTypeOK
    BY DEF IInv
  <1>2. QED BY <1>1, Invariant, PTL

(* No two callers work in one account, except a write beside a download.    *)
THEOREM Excludes == AccountSpec => []Exclusion
  <1>1. IInv => Exclusion
    <2> SUFFICES ASSUME IInv, NEW a \in Accounts, NEW t \in Tasks, NEW u \in Tasks,
                        t # u, Holds(t, a), Holds(u, a)
                 PROVE  {Kind[t], Kind[u]} = {"Write", "Sync"}
      BY DEF Exclusion
    <2>1. held[t][a] # held[u][a]
      BY DEF IInv, TicketsDiffer
    <2>2. Kind[t] \in WorkKinds /\ Kind[u] \in WorkKinds
      BY TasksAssumption
    <2>3. /\ IF Kind[t] = "Sync" THEN syncs[a].ticket = held[t][a]
             ELSE /\ mutations[a].ticket = held[t][a]
                  /\ mutations[a].exclusive <=> Kind[t] = "Exclusive"
          /\ IF Kind[u] = "Sync" THEN syncs[a].ticket = held[u][a]
             ELSE /\ mutations[a].ticket = held[u][a]
                  /\ mutations[a].exclusive <=> Kind[u] = "Exclusive"
      BY DEF IInv, HeldIsRecorded
    <2>4. mutations[a].exclusive => syncs[a].ticket = 0
      BY DEF IInv, ExclusiveIsAlone
    <2>5. held[t][a] # 0 /\ held[u][a] # 0
      BY DEF Holds
    <2>6. \/ Kind[t] = "Write" /\ Kind[u] = "Sync"
          \/ Kind[t] = "Sync" /\ Kind[u] = "Write"
      <3>1. CASE Kind[t] = "Sync"
        <4>1. Kind[u] # "Sync" /\ ~mutations[a].exclusive
          BY <2>1, <2>3, <2>4, <2>5, <3>1
        <4>2. QED BY <2>2, <2>3, <3>1, <4>1 DEF WorkKinds
      <3>2. CASE Kind[t] # "Sync"
        <4>1. Kind[u] = "Sync" /\ ~mutations[a].exclusive
          BY <2>1, <2>3, <2>4, <2>5, <3>2
        <4>2. Kind[t] # "Exclusive"
          BY <2>3, <3>2, <4>1
        <4>3. Kind[t] = "Write"
          BY <2>2, <3>2, <4>2 DEF WorkKinds
        <4>4. Kind[u] = "Sync"
          BY <4>1
        <4>5. QED BY <4>3, <4>4
      <3>3. QED BY <3>1, <3>2
    <2>7. QED BY <2>6
  <1>2. QED BY <1>1, Invariant, PTL

(* Waiting exclusive work has asked the download in front of it to stop.    *)
THEOREM Heard == AccountSpec => []ExclusiveIsHeard
  <1>1. IInv => ExclusiveIsHeard
    BY DEF IInv
  <1>2. QED BY <1>1, Invariant, PTL

(* No request of an account overtakes an earlier one that still waits.      *)
THEOREM Ordered == AccountSpec => GrantedInOrder
  <1> DEFINE Kept ==
        \A i, j \in DOMAIN pending :
           LET first == pending[i]
               later == pending[j] IN
           /\ i < j
           /\ first.account = later.account
           /\ ~IsSync(first) /\ ~IsSync(later)
           => held'[later.task][later.account] # later.ticket
  <1>1. IInv /\ [AccountNext]_accountVars => [Kept]_accountVars
    <2> SUFFICES ASSUME IInv, AccountNext, NEW i \in DOMAIN pending, NEW j \in DOMAIN pending,
                        i < j, pending[i].account = pending[j].account,
                        ~IsSync(pending[i]), ~IsSync(pending[j]),
                        held'[pending[j].task][pending[j].account] = pending[j].ticket
                 PROVE  FALSE
      BY DEF Kept
    <2>1. \A k \in DOMAIN pending : pending[k] \in Waiting
      BY PendingFacts DEF IInv
    <2>2. /\ pending[j].task \in Tasks /\ pending[j].account \in Accounts
          /\ pending[j].ticket # 0
      BY <2>1 DEF Waiting, Tickets
    <2>3. held[pending[j].task][pending[j].account] # pending[j].ticket
      BY <2>2 DEF IInv, TicketsDiffer
    <2>4. held' # held
      BY <2>2, <2>3
    <2>5. \A t \in Tasks : ~LetGo(t)
      <3>1. ASSUME NEW t \in Tasks, LetGo(t)
            PROVE  \A u \in Tasks, a \in Accounts : held'[u][a] \in {0, held[u][a]}
        BY <3>1 DEF LetGo, IInv, AccountTypeOK
      <3>2. QED BY <2>2, <2>3, <3>1
    <2>6. Scan
      BY <2>4, <2>5
      DEF AccountNext, Begin, Send, Finish, Cancel, OwnerCloses, Receive, Settle, callers
    <2> DEFINE q == pending[position]
    <2>7. position \in DOMAIN pending /\ q.task \in Tasks /\ q.account \in Accounts
      BY <2>1, <2>6, PendingFacts DEF Scan, IInv, Waiting
    <2>8. ~Skipped(q) /\ Ready(q) /\ Granted(q)
      BY <2>4, <2>5, <2>6, <2>7 DEF Scan
    <2>9. \A u \in Tasks, a \in Accounts :
             held'[u][a] = IF u = q.task /\ a = q.account THEN q.ticket ELSE held[u][a]
      BY <2>7, <2>8 DEF Granted, IInv, AccountTypeOK
    <2>10. q.ticket = pending[j].ticket
      BY <2>2, <2>3, <2>9
    <2>11. position = j
      BY <2>7, <2>10 DEF IInv, TicketsDiffer
    <2>12. pending[i].account \in blocked
      BY <2>11 DEF IInv, PassedAreBlocked
    <2>13. QED BY <2>8, <2>11, <2>12 DEF Ready
  <1>2. QED BY <1>1, Invariant, PTL DEF AccountSpec, GrantedInOrder, Kept

----------------------------------------------------------------------------
(* The secrets of an account *)

LEMMA LegacyIsNoSetup ==
    Legacy \notin Setups /\ Keys = Setups \cup {Legacy} /\ Setups \subseteq Nat /\ Legacy \in Nat
  BY SetupsAssumption DEF Legacy, Setups, Keys

AttemptType == [stage : AttemptStages, previous : AccountRows]
CleanerType == [todo : SUBSET Keys, key : Keys, at : {"pick", "delete", "finish"},
                failed : BOOLEAN]
(* What a failure, an interruption or a close does: some attempts that were   *)
(* not activated end, and their keys are scheduled.                           *)
OnlyEnded ==
    /\ attempt' \in [Setups -> AttemptType]
    /\ scheduled \subseteq scheduled' /\ scheduled' \subseteq Keys
    /\ Legacy \in scheduled' => Legacy \in scheduled
    /\ \A b \in Setups :
          \/ attempt'[b] = attempt[b] /\ (b \in scheduled' => b \in scheduled)
          \/ /\ b \in scheduled' /\ attempt'[b].stage \in {"Failed", "Interrupted"}
             /\ attempt[b].stage \in Live \cup {"Failed"}

LEMMA EndedSetups ==
    ASSUME CredentialTypeOK, NEW ended \in SUBSET Setups, NEW stage \in {"Failed", "Interrupted"},
           SetupsEnded(ended, stage), \A b \in ended : attempt[b].stage \in Live \cup {"Failed"}
    PROVE  OnlyEnded
  <1>1. attempt \in [Setups -> AttemptType] /\ scheduled \subseteq Keys
    BY DEF CredentialTypeOK, AttemptType
  <1>2. \A b \in Setups : [attempt[b] EXCEPT !.stage = stage] \in AttemptType
                          /\ [attempt[b] EXCEPT !.stage = stage].stage = stage
    BY <1>1 DEF AttemptType, AttemptStages
  <1>3. /\ attempt' = [b \in Setups |->
              IF b \in ended THEN [attempt[b] EXCEPT !.stage = stage] ELSE attempt[b]]
        /\ scheduled' = scheduled \cup ended
    BY DEF SetupsEnded
  <1>4. attempt' \in [Setups -> AttemptType]
    BY <1>1, <1>2, <1>3
  <1>5. \A b \in Setups :
          \/ attempt'[b] = attempt[b] /\ (b \in scheduled' => b \in scheduled)
          \/ /\ b \in scheduled' /\ attempt'[b].stage \in {"Failed", "Interrupted"}
             /\ attempt[b].stage \in Live \cup {"Failed"}
    BY <1>1, <1>2, <1>3
  <1> QED BY <1>1, <1>3, <1>4, <1>5, LegacyIsNoSetup DEF OnlyEnded

LEMMA InterruptedSetups ==
    ASSUME CredentialTypeOK, NEW stopped \in SUBSET Setups, InterruptSetups(stopped)
    PROVE  OnlyEnded
  BY EndedSetups DEF InterruptSetups

LEMMA FailedSetup ==
    ASSUME CredentialTypeOK, NEW a \in Setups, FailSetup(a), attempt[a].stage # "None"
    PROVE  /\ OnlyEnded
           /\ attempt[a].stage \notin {"Activated", "Cancelled", "Interrupted", "Erased"} =>
                 a \in scheduled'
  <1>1. attempt[a].stage \in AttemptStages
    BY DEF CredentialTypeOK
  <1>2. \A b \in {a} \ {b \in Setups : attempt[b].stage \in
                    {"Activated", "Cancelled", "Interrupted", "Erased"}} :
           attempt[b].stage \in Live \cup {"Failed"}
    BY <1>1 DEF AttemptStages, Live
  <1>3. OnlyEnded
    BY <1>2, EndedSetups DEF FailSetup
  <1> QED BY <1>3 DEF FailSetup, SetupsEnded

LEMMA GivenUpSetup ==
    ASSUME CredentialTypeOK, StagesAreTrue, NEW a \in Setups, connecting[a] # "off",
           GiveUpSetup(a)
    PROVE  OnlyEnded /\ Go(a, "off")
  BY FailedSetup, InterruptedSetups DEF GiveUpSetup, StagesAreTrue

(* Such an end keeps the invariant, whatever the command does next: it stops,  *)
(* or goes on where it was; it lets go of the lock, or keeps it; a key that it *)
(* has written is scheduled.                                                   *)
Untouched ==
    /\ UNCHANGED <<entry, slot, latestSetup, removal, forgotten>>
    /\ keyring \subseteq keyring' /\ verified \subseteq verified'
    /\ \A k \in keyring' : k \in keyring \/ k \in scheduled'
    /\ lifecycle = "setup" \/ keyring' = keyring
Proceeding ==
    /\ \A b \in Setups : connecting'[b] # "off" => connecting[b] # "off"
    /\ \A b \in Setups : connecting'[b] \in {"write", "written"} =>
          connecting[b] = connecting'[b] /\ lifecycle' = lifecycle
    /\ \/ lifecycle' = lifecycle /\ cleaner' = cleaner
       \/ lifecycle = "setup" /\ lifecycle' = "free" /\ cleaner' = cleaner
       \/ lifecycle' = "free" /\ cleaner' = CleanerOff

LEMMA EndedKeeps ==
    ASSUME CredentialIInv, OnlyEnded, Untouched, Proceeding
    PROVE  /\ ScheduledIsUnused' /\ StagesAreTrue' /\ WritersHoldTheLock'
           /\ RemovedIsEmpty' /\ CleanerIsTrue' /\ UnusedIsScheduled'
  <1>1. CredentialTypeOK /\ ScheduledIsUnused /\ StagesAreTrue /\ WritersHoldTheLock
        /\ RemovedIsEmpty /\ CleanerIsTrue /\ UnusedIsScheduled
    BY DEF CredentialIInv
  <1>2. /\ attempt \in [Setups -> AttemptType] /\ attempt' \in [Setups -> AttemptType]
        /\ slot \in Keys /\ latestSetup \in Keys
    BY <1>1 DEF CredentialTypeOK, AttemptType, OnlyEnded
  <1>3. ScheduledIsUnused'
    BY <1>1, <1>2, LegacyIsNoSetup
       DEF ScheduledIsUnused, StagesAreTrue, OnlyEnded, Untouched, Live, SetupEnds
  <1>4. StagesAreTrue'
    <2>1. \A b \in Setups :
             /\ attempt'[b].stage \in {"Staged", "Checked"} => attempt'[b] = attempt[b]
             /\ attempt[b].stage = "Activated" => attempt'[b] = attempt[b]
             /\ attempt'[b].stage = "None" => attempt'[b] = attempt[b]
      BY DEF OnlyEnded, Live
    <2> QED BY <1>1, <1>2, <2>1, LegacyIsNoSetup DEF StagesAreTrue, Untouched, Proceeding
  <1>5. WritersHoldTheLock'
    BY <1>1, <1>2 DEF WritersHoldTheLock, Writing, Reached, OnlyEnded, Untouched, Proceeding
  <1>6. removal.local => attempt' = attempt /\ scheduled' = scheduled
    <2>1. removal.local => \A b \in Setups : attempt[b].stage \in {"None", "Erased"}
      BY <1>1 DEF RemovedIsEmpty
    <2>2. removal.local => \A b \in Setups : attempt'[b] = attempt[b] /\ (b \in scheduled' => b \in scheduled)
      BY <2>1 DEF OnlyEnded, Live
    <2>3. removal.local => attempt' = attempt
      BY <1>2, <2>2
    <2>4. removal.local => scheduled' = scheduled
      <3>1. /\ scheduled \subseteq scheduled' /\ scheduled' \subseteq Setups \cup {Legacy}
            /\ Legacy \in scheduled' => Legacy \in scheduled
        BY LegacyIsNoSetup DEF OnlyEnded
      <3> QED BY <2>2, <3>1
    <2> QED BY <2>3, <2>4
  <1>7. RemovedIsEmpty'
    BY <1>1, <1>6 DEF RemovedIsEmpty, Untouched, Proceeding
  <1>8. CleanerIsTrue'
    <2>1. lifecycle = "setup" => cleaner = CleanerOff
      BY <1>1 DEF CleanerIsTrue, Cleaning
    <2> QED BY <1>1, <1>6, <2>1 DEF CleanerIsTrue, Cleaning, CleanerOff, OnlyEnded, Untouched, Proceeding
  <1>9. UnusedIsScheduled'
    BY <1>1, <1>2, LegacyIsNoSetup
       DEF UnusedIsScheduled, KeyInUse, OnlyEnded, Untouched, Live, CredentialTypeOK
  <1> QED BY <1>3, <1>4, <1>5, <1>7, <1>8, <1>9

(* Types: what the commands and the loop set beside the attempts. *)
LEMMA EndedTypes ==
    ASSUME CredentialTypeOK, OnlyEnded,
           UNCHANGED <<entry, slot, latestSetup, removal, forgotten>>,
           keyring' \subseteq Keys, verified' \subseteq Setups, events' \in Nat,
           connecting' = connecting \/ (\E a \in Setups : Go(a, "off"))
               \/ connecting' = [b \in Setups |-> "off"],
           lifecycle' \in {lifecycle, "free"}, cleaner' \in {cleaner, CleanerOff}
    PROVE  CredentialTypeOK'
  <1>1. CleanerOff \in CleanerType
    BY LegacyIsNoSetup DEF CleanerOff, CleanerType
  <1> QED BY <1>1 DEF CleanerType, CredentialTypeOK, OnlyEnded, AttemptType, Go

(* A newer attempt cancels and schedules the latest one, and nothing else of it. *)
LEMMA AdmitSetupKeeps ==
    ASSUME CredentialIInv, NEW a \in Setups, AdmitSetup(a)
    PROVE  CredentialIInv'
  <1>1. CredentialTypeOK'
    <2>1. entry' \in AccountRows
      BY DEF CredentialIInv, CredentialTypeOK, AdmitSetup, AccountRows, Go,
          listed, cleaning, history
    <2>2. attempt' \in [Setups -> AttemptType]
      BY DEF CredentialIInv, CredentialTypeOK, AdmitSetup, AttemptType,
          AttemptStages, Live, Go, listed, cleaning, history
    <2>3. removal' \in [stage : RemovalStages, local : BOOLEAN]
      BY DEF CredentialIInv, CredentialTypeOK, AdmitSetup, RemovalStages, Go,
          listed, cleaning, history
    <2>4. cleaner' \in CleanerType
      BY LegacyIsNoSetup DEF CredentialIInv, CredentialTypeOK, AdmitSetup,
          CleanerType, CleanerOff, Go, listed, cleaning, history
    <2> QED BY <2>1, <2>2, <2>3, <2>4, LegacyIsNoSetup DEF CredentialIInv,
        CredentialTypeOK, AttemptType, CleanerType, AdmitSetup, Go, listed,
        cleaning, history
  <1>2. ScheduledIsUnused'
    BY LegacyIsNoSetup DEF CredentialIInv, CredentialTypeOK,
        ScheduledIsUnused, StagesAreTrue, RemovedIsEmpty, WritersHoldTheLock,
        SetupEnds, Writing, Reached, AdmitSetup, Go, listed, cleaning, history
  <1>3. StagesAreTrue'
    BY LegacyIsNoSetup DEF CredentialIInv, CredentialTypeOK, StagesAreTrue,
        ScheduledIsUnused, RemovedIsEmpty, WritersHoldTheLock, CleanerIsTrue,
        SetupEnds, Writing, Reached, Cleaning, CleanerOff, AdmitSetup, Go,
        listed, cleaning, history
  <1>4. WritersHoldTheLock'
    BY LegacyIsNoSetup DEF CredentialIInv, CredentialTypeOK,
        WritersHoldTheLock, RemovedIsEmpty, Writing, Reached, AdmitSetup, Go,
        listed, cleaning, history
  <1>5. RemovedIsEmpty'
    BY LegacyIsNoSetup DEF CredentialIInv, CredentialTypeOK, RemovedIsEmpty,
        StagesAreTrue, CleanerIsTrue, WritersHoldTheLock, Cleaning,
        CleanerOff, Writing, Reached, AdmitSetup, Go, listed, cleaning,
        history
  <1>6. CleanerIsTrue'
    BY LegacyIsNoSetup DEF CredentialIInv, CredentialTypeOK, CleanerIsTrue,
        RemovedIsEmpty, WritersHoldTheLock, ScheduledIsUnused, StagesAreTrue,
        Cleaning, CleanerOff, Writing, Reached, SetupEnds, AdmitSetup, Go,
        listed, cleaning, history
  <1>7. UnusedIsScheduled'
    BY LegacyIsNoSetup DEF CredentialIInv, CredentialTypeOK,
        UnusedIsScheduled, StagesAreTrue, RemovedIsEmpty, WritersHoldTheLock,
        ScheduledIsUnused, CleanerIsTrue, KeyInUse, Live, Writing, Reached,
        SetupEnds, Cleaning, CleanerOff, AdmitSetup, Go, listed, cleaning,
        history
  <1> QED BY <1>1, <1>2, <1>3, <1>4, <1>5, <1>6, <1>7 DEF CredentialIInv

(* The lock is taken for an attempt that is the latest. *)
LEMMA BeginStagingKeeps ==
    ASSUME CredentialIInv, NEW a \in Setups, BeginStaging(a)
    PROVE  CredentialIInv'
  <1>1. CASE GiveUpSetup(a) /\ UNCHANGED lifecycle
    <2>1. OnlyEnded
      BY <1>1, GivenUpSetup DEF CredentialIInv, BeginStaging, Reached
    <2>2. CredentialTypeOK'
      BY <1>1, <2>1, EndedTypes DEF CredentialIInv, CredentialTypeOK,
         GiveUpSetup, Go, BeginStaging, Reached, listed, cleaning, history
    <2>3. Untouched
      BY <1>1 DEF BeginStaging, Untouched, Reached, listed, cleaning, history
    <2>4. Proceeding
      BY <1>1 DEF BeginStaging, Proceeding, CredentialIInv, CredentialTypeOK,
         WritersHoldTheLock, Writing, Reached, GiveUpSetup, Go, listed,
         cleaning, history
    <2> QED BY <2>1, <2>2, <2>3, <2>4, EndedKeeps DEF CredentialIInv
  <1>2. CASE Fresh(a) /\ attempt[a].stage = "Admitted" /\ lifecycle' = "setup"
             /\ Go(a, "write") /\ UNCHANGED <<attempt, scheduled>>
    <2>1. CredentialTypeOK'
      <3>1. attempt' \in [Setups -> AttemptType]
        BY <1>2, LegacyIsNoSetup DEF CredentialIInv, CredentialTypeOK,
           AttemptType, AttemptStages, Live, BeginStaging, Fresh, Go, Reached,
           listed, cleaning, history
      <3>2. entry' \in AccountRows
        BY <1>2, SetupsAssumption DEF CredentialIInv, CredentialTypeOK,
           AccountRows, Setups, BeginStaging, Fresh, Go, Reached, listed,
           cleaning, history
      <3> QED BY <3>1, <3>2, <1>2, LegacyIsNoSetup, SetupsAssumption DEF CredentialIInv,
         CredentialTypeOK, AttemptType, BeginStaging, Fresh, Go, Reached,
         listed, cleaning, history
    <2>2. ScheduledIsUnused'
      BY <1>2, LegacyIsNoSetup DEF CredentialIInv, CredentialTypeOK,
         ScheduledIsUnused, StagesAreTrue, RemovedIsEmpty, WritersHoldTheLock,
         SetupEnds, Writing, Reached, BeginStaging, Fresh, Go, listed, cleaning,
         history
    <2>3. StagesAreTrue'
      BY <1>2, LegacyIsNoSetup DEF CredentialIInv, CredentialTypeOK,
         StagesAreTrue, ScheduledIsUnused, RemovedIsEmpty, WritersHoldTheLock,
         CleanerIsTrue, SetupEnds, Writing, Reached, Cleaning, CleanerOff,
         BeginStaging, Fresh, Go, listed, cleaning, history
    <2>4. WritersHoldTheLock'
      BY <1>2, LegacyIsNoSetup DEF CredentialIInv, CredentialTypeOK,
         WritersHoldTheLock, RemovedIsEmpty, Writing, Reached, BeginStaging,
         Fresh, Go, listed, cleaning, history
    <2>5. RemovedIsEmpty'
      BY <1>2, LegacyIsNoSetup DEF CredentialIInv, CredentialTypeOK,
         RemovedIsEmpty, StagesAreTrue, CleanerIsTrue, WritersHoldTheLock,
         Cleaning, CleanerOff, Writing, Reached, BeginStaging, Fresh, Go,
         listed, cleaning, history
    <2>6. CleanerIsTrue'
      BY <1>2, LegacyIsNoSetup DEF CredentialIInv, CredentialTypeOK,
         CleanerIsTrue, RemovedIsEmpty, WritersHoldTheLock, ScheduledIsUnused,
         StagesAreTrue, Cleaning, CleanerOff, Writing, Reached, SetupEnds,
         BeginStaging, Fresh, Go, listed, cleaning, history
    <2>7. UnusedIsScheduled'
      BY <1>2, LegacyIsNoSetup DEF CredentialIInv, CredentialTypeOK,
         UnusedIsScheduled, StagesAreTrue, RemovedIsEmpty, WritersHoldTheLock,
         ScheduledIsUnused, CleanerIsTrue, KeyInUse, Live, Writing, Reached,
         SetupEnds, Cleaning, CleanerOff, BeginStaging, Fresh, Go, listed,
         cleaning, history
    <2> QED BY <2>1, <2>2, <2>3, <2>4, <2>5, <2>6, <2>7 DEF CredentialIInv
  <1> QED BY <1>1, <1>2 DEF BeginStaging

(* What is written belongs to the latest attempt or is scheduled. *)
LEMMA WriteSecretsKeeps ==
    ASSUME CredentialIInv, NEW a \in Setups, WriteSecrets(a)
    PROVE  CredentialIInv'
  <1>1. CASE keyring' \in {keyring, keyring \cup {a}} /\ FailSetup(a) /\ Go(a, "off")
             /\ lifecycle' = "free"
    <2>1. OnlyEnded
      BY <1>1, FailedSetup DEF CredentialIInv, WriteSecrets, StagesAreTrue,
         Reached
    <2>2. CredentialTypeOK'
      BY <1>1, <2>1, EndedTypes, LegacyIsNoSetup DEF CredentialIInv,
         CredentialTypeOK, GiveUpSetup, Go, WriteSecrets, StagesAreTrue,
         Reached, listed, cleaning, history
    <2>3. Untouched
      <3>1. a \in scheduled'
        BY <1>1, <2>1, FailedSetup
           DEF CredentialIInv, WritersHoldTheLock, StagesAreTrue, WriteSecrets, Writing, Reached, OnlyEnded
      <3> QED BY <1>1, <3>1
         DEF WriteSecrets, Untouched, CredentialIInv, WritersHoldTheLock, Writing, Reached, history
    <2>4. Proceeding
      BY <1>1 DEF WriteSecrets, Proceeding, CredentialIInv, CredentialTypeOK,
         WritersHoldTheLock, Writing, Reached, GiveUpSetup, Go, StagesAreTrue,
         listed, cleaning, history
    <2> QED BY <2>1, <2>2, <2>3, <2>4, EndedKeeps DEF CredentialIInv
  <1>2. CASE keyring' = keyring \cup {a} /\ Go(a, "written")
             /\ UNCHANGED <<attempt, scheduled, lifecycle>>
    <2>1. CredentialTypeOK'
      <3>1. attempt' \in [Setups -> AttemptType]
        BY <1>2, LegacyIsNoSetup DEF CredentialIInv, CredentialTypeOK,
           AttemptType, AttemptStages, Live, WriteSecrets, Go, Reached, listed,
           cleaning, history
      <3>2. entry' \in AccountRows
        BY <1>2, SetupsAssumption DEF CredentialIInv, CredentialTypeOK,
           AccountRows, Setups, WriteSecrets, Go, Reached, listed, cleaning,
           history
      <3> QED BY <3>1, <3>2, <1>2, LegacyIsNoSetup, SetupsAssumption DEF CredentialIInv,
         CredentialTypeOK, AttemptType, WriteSecrets, Go, Reached, listed,
         cleaning, history
    <2>2. ScheduledIsUnused'
      BY <1>2, LegacyIsNoSetup DEF CredentialIInv, CredentialTypeOK,
         ScheduledIsUnused, StagesAreTrue, RemovedIsEmpty, WritersHoldTheLock,
         SetupEnds, Writing, Reached, WriteSecrets, Go, listed, cleaning,
         history
    <2>3. StagesAreTrue'
      BY <1>2, LegacyIsNoSetup DEF CredentialIInv, CredentialTypeOK,
         StagesAreTrue, ScheduledIsUnused, RemovedIsEmpty, WritersHoldTheLock,
         CleanerIsTrue, SetupEnds, Writing, Reached, Cleaning, CleanerOff,
         WriteSecrets, Go, listed, cleaning, history
    <2>4. WritersHoldTheLock'
      BY <1>2, LegacyIsNoSetup DEF CredentialIInv, CredentialTypeOK,
         WritersHoldTheLock, RemovedIsEmpty, Writing, Reached, WriteSecrets, Go,
         listed, cleaning, history
    <2>5. RemovedIsEmpty'
      BY <1>2, LegacyIsNoSetup DEF CredentialIInv, CredentialTypeOK,
         RemovedIsEmpty, StagesAreTrue, CleanerIsTrue, WritersHoldTheLock,
         Cleaning, CleanerOff, Writing, Reached, WriteSecrets, Go, listed,
         cleaning, history
    <2>6. CleanerIsTrue'
      BY <1>2, LegacyIsNoSetup DEF CredentialIInv, CredentialTypeOK,
         CleanerIsTrue, RemovedIsEmpty, WritersHoldTheLock, ScheduledIsUnused,
         StagesAreTrue, Cleaning, CleanerOff, Writing, Reached, SetupEnds,
         WriteSecrets, Go, listed, cleaning, history
    <2>7. UnusedIsScheduled'
      BY <1>2, LegacyIsNoSetup DEF CredentialIInv, CredentialTypeOK,
         UnusedIsScheduled, StagesAreTrue, RemovedIsEmpty, WritersHoldTheLock,
         ScheduledIsUnused, CleanerIsTrue, KeyInUse, Live, Writing, Reached,
         SetupEnds, Cleaning, CleanerOff, WriteSecrets, Go, listed, cleaning,
         history
    <2> QED BY <2>1, <2>2, <2>3, <2>4, <2>5, <2>6, <2>7 DEF CredentialIInv
  <1> QED BY <1>1, <1>2 DEF WriteSecrets

(* Staged means written. *)
LEMMA RecordStagedKeeps ==
    ASSUME CredentialIInv, NEW a \in Setups, RecordStaged(a)
    PROVE  CredentialIInv'
  <1>1. CASE FailSetup(a) /\ Go(a, "off") /\ lifecycle' = "free"
    <2>1. OnlyEnded
      BY <1>1, FailedSetup DEF CredentialIInv, RecordStaged, StagesAreTrue,
         Reached
    <2>2. CredentialTypeOK'
      BY <1>1, <2>1, EndedTypes DEF CredentialIInv, CredentialTypeOK,
         GiveUpSetup, Go, RecordStaged, StagesAreTrue, Reached, listed,
         cleaning, history
    <2>3. Untouched
      BY <1>1 DEF RecordStaged, Untouched, StagesAreTrue, Reached, listed,
         cleaning, history
    <2>4. Proceeding
      BY <1>1 DEF RecordStaged, Proceeding, CredentialIInv, CredentialTypeOK,
         WritersHoldTheLock, Writing, Reached, GiveUpSetup, Go, StagesAreTrue,
         listed, cleaning, history
    <2> QED BY <2>1, <2>2, <2>3, <2>4, EndedKeeps DEF CredentialIInv
  <1>2. CASE Advances(a, "Admitted", "Staged") /\ Go(a, "check") /\ lifecycle' = "free"
    <2>1. CredentialTypeOK'
      <3>1. attempt' \in [Setups -> AttemptType]
        BY <1>2, LegacyIsNoSetup DEF CredentialIInv, CredentialTypeOK,
           AttemptType, AttemptStages, Live, RecordStaged, Advances, Fresh, Go,
           Reached, listed, cleaning, history
      <3>2. entry' \in AccountRows
        BY <1>2, SetupsAssumption DEF CredentialIInv, CredentialTypeOK,
           AccountRows, Setups, RecordStaged, Advances, Fresh, Go, Reached,
           listed, cleaning, history
      <3> QED BY <3>1, <3>2, <1>2, LegacyIsNoSetup, SetupsAssumption DEF CredentialIInv,
         CredentialTypeOK, AttemptType, RecordStaged, Advances, Fresh, Go,
         Reached, listed, cleaning, history
    <2>2. ScheduledIsUnused'
      BY <1>2, LegacyIsNoSetup DEF CredentialIInv, CredentialTypeOK,
         ScheduledIsUnused, StagesAreTrue, RemovedIsEmpty, WritersHoldTheLock,
         SetupEnds, Writing, Reached, RecordStaged, Advances, Fresh, Go, listed,
         cleaning, history
    <2>3. StagesAreTrue'
      BY <1>2, LegacyIsNoSetup DEF CredentialIInv, CredentialTypeOK,
         StagesAreTrue, ScheduledIsUnused, RemovedIsEmpty, WritersHoldTheLock,
         CleanerIsTrue, SetupEnds, Writing, Reached, Cleaning, CleanerOff,
         RecordStaged, Advances, Fresh, Go, listed, cleaning, history
    <2>4. WritersHoldTheLock'
      BY <1>2, LegacyIsNoSetup DEF CredentialIInv, CredentialTypeOK,
         WritersHoldTheLock, RemovedIsEmpty, Writing, Reached, RecordStaged,
         Advances, Fresh, Go, listed, cleaning, history
    <2>5. RemovedIsEmpty'
      BY <1>2, LegacyIsNoSetup DEF CredentialIInv, CredentialTypeOK,
         RemovedIsEmpty, StagesAreTrue, CleanerIsTrue, WritersHoldTheLock,
         Cleaning, CleanerOff, Writing, Reached, RecordStaged, Advances, Fresh,
         Go, listed, cleaning, history
    <2>6. CleanerIsTrue'
      BY <1>2, LegacyIsNoSetup DEF CredentialIInv, CredentialTypeOK,
         CleanerIsTrue, RemovedIsEmpty, WritersHoldTheLock, ScheduledIsUnused,
         StagesAreTrue, Cleaning, CleanerOff, Writing, Reached, SetupEnds,
         RecordStaged, Advances, Fresh, Go, listed, cleaning, history
    <2>7. UnusedIsScheduled'
      BY <1>2, LegacyIsNoSetup DEF CredentialIInv, CredentialTypeOK,
         UnusedIsScheduled, StagesAreTrue, RemovedIsEmpty, WritersHoldTheLock,
         ScheduledIsUnused, CleanerIsTrue, KeyInUse, Live, Writing, Reached,
         SetupEnds, Cleaning, CleanerOff, RecordStaged, Advances, Fresh, Go,
         listed, cleaning, history
    <2> QED BY <2>1, <2>2, <2>3, <2>4, <2>5, <2>6, <2>7 DEF CredentialIInv
  <1> QED BY <1>1, <1>2 DEF RecordStaged


LEMMA BeginCheckKeeps ==
    ASSUME CredentialIInv, NEW a \in Setups, BeginCheck(a)
    PROVE  CredentialIInv'
  <1>1. CASE GiveUpSetup(a)
    <2>1. OnlyEnded
      BY <1>1, GivenUpSetup DEF CredentialIInv, BeginCheck, Reached
    <2>2. CredentialTypeOK'
      BY <1>1, <2>1, EndedTypes DEF CredentialIInv, CredentialTypeOK,
         GiveUpSetup, Go, BeginCheck, Reached, listed, cleaning, history
    <2>3. Untouched
      BY <1>1 DEF BeginCheck, Untouched, Reached, listed, cleaning, history
    <2>4. Proceeding
      BY <1>1 DEF BeginCheck, Proceeding, CredentialIInv, CredentialTypeOK,
         WritersHoldTheLock, Writing, Reached, GiveUpSetup, Go, listed,
         cleaning, history
    <2> QED BY <2>1, <2>2, <2>3, <2>4, EndedKeeps DEF CredentialIInv
  <1>2. CASE Fresh(a) /\ attempt[a].stage = "Staged" /\ Go(a, "testing")
             /\ UNCHANGED <<attempt, scheduled>>
    <2>1. CredentialTypeOK'
      <3>1. attempt' \in [Setups -> AttemptType]
        BY <1>2, LegacyIsNoSetup DEF CredentialIInv, CredentialTypeOK,
           AttemptType, AttemptStages, Live, BeginCheck, Fresh, Go, Reached,
           listed, cleaning, history
      <3>2. entry' \in AccountRows
        BY <1>2, SetupsAssumption DEF CredentialIInv, CredentialTypeOK,
           AccountRows, Setups, BeginCheck, Fresh, Go, Reached, listed,
           cleaning, history
      <3> QED BY <3>1, <3>2, <1>2, LegacyIsNoSetup, SetupsAssumption DEF CredentialIInv,
         CredentialTypeOK, AttemptType, BeginCheck, Fresh, Go, Reached, listed,
         cleaning, history
    <2>2. ScheduledIsUnused'
      BY <1>2, LegacyIsNoSetup DEF CredentialIInv, CredentialTypeOK,
         ScheduledIsUnused, StagesAreTrue, RemovedIsEmpty, WritersHoldTheLock,
         SetupEnds, Writing, Reached, BeginCheck, Fresh, Go, listed, cleaning,
         history
    <2>3. StagesAreTrue'
      BY <1>2, LegacyIsNoSetup DEF CredentialIInv, CredentialTypeOK,
         StagesAreTrue, ScheduledIsUnused, RemovedIsEmpty, WritersHoldTheLock,
         CleanerIsTrue, SetupEnds, Writing, Reached, Cleaning, CleanerOff,
         BeginCheck, Fresh, Go, listed, cleaning, history
    <2>4. WritersHoldTheLock'
      BY <1>2, LegacyIsNoSetup DEF CredentialIInv, CredentialTypeOK,
         WritersHoldTheLock, RemovedIsEmpty, Writing, Reached, BeginCheck,
         Fresh, Go, listed, cleaning, history
    <2>5. RemovedIsEmpty'
      BY <1>2, LegacyIsNoSetup DEF CredentialIInv, CredentialTypeOK,
         RemovedIsEmpty, StagesAreTrue, CleanerIsTrue, WritersHoldTheLock,
         Cleaning, CleanerOff, Writing, Reached, BeginCheck, Fresh, Go, listed,
         cleaning, history
    <2>6. CleanerIsTrue'
      BY <1>2, LegacyIsNoSetup DEF CredentialIInv, CredentialTypeOK,
         CleanerIsTrue, RemovedIsEmpty, WritersHoldTheLock, ScheduledIsUnused,
         StagesAreTrue, Cleaning, CleanerOff, Writing, Reached, SetupEnds,
         BeginCheck, Fresh, Go, listed, cleaning, history
    <2>7. UnusedIsScheduled'
      BY <1>2, LegacyIsNoSetup DEF CredentialIInv, CredentialTypeOK,
         UnusedIsScheduled, StagesAreTrue, RemovedIsEmpty, WritersHoldTheLock,
         ScheduledIsUnused, CleanerIsTrue, KeyInUse, Live, Writing, Reached,
         SetupEnds, Cleaning, CleanerOff, BeginCheck, Fresh, Go, listed,
         cleaning, history
    <2> QED BY <2>1, <2>2, <2>3, <2>4, <2>5, <2>6, <2>7 DEF CredentialIInv
  <1> QED BY <1>1, <1>2 DEF BeginCheck

(* Checked means accepted by the servers. *)
LEMMA EndCheckKeeps ==
    ASSUME CredentialIInv, NEW a \in Setups, EndCheck(a)
    PROVE  CredentialIInv'
  <1>1. CASE GiveUpSetup(a) /\ UNCHANGED verified
    <2>1. OnlyEnded
      BY <1>1, GivenUpSetup DEF CredentialIInv, EndCheck, Reached
    <2>2. CredentialTypeOK'
      BY <1>1, <2>1, EndedTypes DEF CredentialIInv, CredentialTypeOK,
         GiveUpSetup, Go, EndCheck, Reached, listed, cleaning, history
    <2>3. Untouched
      BY <1>1 DEF EndCheck, Untouched, Reached, listed, cleaning, history
    <2>4. Proceeding
      BY <1>1 DEF EndCheck, Proceeding, CredentialIInv, CredentialTypeOK,
         WritersHoldTheLock, Writing, Reached, GiveUpSetup, Go, listed,
         cleaning, history
    <2> QED BY <2>1, <2>2, <2>3, <2>4, EndedKeeps DEF CredentialIInv
  <1>2. CASE verified' = verified \cup {a} /\ Advances(a, "Staged", "Checked") /\ Go(a, "ready")
    <2>1. CredentialTypeOK'
      <3>1. attempt' \in [Setups -> AttemptType]
        BY <1>2, LegacyIsNoSetup DEF CredentialIInv, CredentialTypeOK,
           AttemptType, AttemptStages, Live, EndCheck, Advances, Fresh, Go,
           Reached, listed, cleaning, history
      <3>2. entry' \in AccountRows
        BY <1>2, SetupsAssumption DEF CredentialIInv, CredentialTypeOK,
           AccountRows, Setups, EndCheck, Advances, Fresh, Go, Reached, listed,
           cleaning, history
      <3> QED BY <3>1, <3>2, <1>2, LegacyIsNoSetup, SetupsAssumption DEF CredentialIInv,
         CredentialTypeOK, AttemptType, EndCheck, Advances, Fresh, Go, Reached,
         listed, cleaning, history
    <2>2. ScheduledIsUnused'
      BY <1>2, LegacyIsNoSetup DEF CredentialIInv, CredentialTypeOK,
         ScheduledIsUnused, StagesAreTrue, RemovedIsEmpty, WritersHoldTheLock,
         SetupEnds, Writing, Reached, EndCheck, Advances, Fresh, Go, listed,
         cleaning, history
    <2>3. StagesAreTrue'
      BY <1>2, LegacyIsNoSetup DEF CredentialIInv, CredentialTypeOK,
         StagesAreTrue, ScheduledIsUnused, RemovedIsEmpty, WritersHoldTheLock,
         CleanerIsTrue, SetupEnds, Writing, Reached, Cleaning, CleanerOff,
         EndCheck, Advances, Fresh, Go, listed, cleaning, history
    <2>4. WritersHoldTheLock'
      BY <1>2, LegacyIsNoSetup DEF CredentialIInv, CredentialTypeOK,
         WritersHoldTheLock, RemovedIsEmpty, Writing, Reached, EndCheck,
         Advances, Fresh, Go, listed, cleaning, history
    <2>5. RemovedIsEmpty'
      BY <1>2, LegacyIsNoSetup DEF CredentialIInv, CredentialTypeOK,
         RemovedIsEmpty, StagesAreTrue, CleanerIsTrue, WritersHoldTheLock,
         Cleaning, CleanerOff, Writing, Reached, EndCheck, Advances, Fresh, Go,
         listed, cleaning, history
    <2>6. CleanerIsTrue'
      BY <1>2, LegacyIsNoSetup DEF CredentialIInv, CredentialTypeOK,
         CleanerIsTrue, RemovedIsEmpty, WritersHoldTheLock, ScheduledIsUnused,
         StagesAreTrue, Cleaning, CleanerOff, Writing, Reached, SetupEnds,
         EndCheck, Advances, Fresh, Go, listed, cleaning, history
    <2>7. UnusedIsScheduled'
      BY <1>2, LegacyIsNoSetup DEF CredentialIInv, CredentialTypeOK,
         UnusedIsScheduled, StagesAreTrue, RemovedIsEmpty, WritersHoldTheLock,
         ScheduledIsUnused, CleanerIsTrue, KeyInUse, Live, Writing, Reached,
         SetupEnds, Cleaning, CleanerOff, EndCheck, Advances, Fresh, Go, listed,
         cleaning, history
    <2> QED BY <2>1, <2>2, <2>3, <2>4, <2>5, <2>6, <2>7 DEF CredentialIInv
  <1> QED BY <1>1, <1>2 DEF EndCheck

(* The former key is out of use and scheduled, the new one is checked. *)
LEMMA ActivateKeeps ==
    ASSUME CredentialIInv, NEW a \in Setups, Activate(a)
    PROVE  CredentialIInv'
  <1>1. CASE GiveUpSetup(a) /\ UNCHANGED <<entry, slot>>
    <2>1. OnlyEnded
      BY <1>1, GivenUpSetup DEF CredentialIInv, Activate, Reached
    <2>2. CredentialTypeOK'
      BY <1>1, <2>1, EndedTypes DEF CredentialIInv, CredentialTypeOK,
         GiveUpSetup, Go, Activate, Reached, listed, cleaning, history
    <2>3. Untouched
      BY <1>1 DEF Activate, Untouched, Reached, listed, cleaning, history
    <2>4. Proceeding
      BY <1>1 DEF Activate, Proceeding, CredentialIInv, CredentialTypeOK,
         WritersHoldTheLock, Writing, Reached, GiveUpSetup, Go, listed,
         cleaning, history
    <2> QED BY <2>1, <2>2, <2>3, <2>4, EndedKeeps DEF CredentialIInv
  <1>2. CASE /\ Fresh(a) /\ attempt[a].stage = "Checked"
             /\ entry' = [entry EXCEPT !.connected = TRUE, !.config = Wanted[a]]
             /\ slot' = a
             /\ attempt' = [attempt EXCEPT ![a].stage = "Activated"]
             /\ scheduled' = scheduled \cup Replaced(a)
             /\ Go(a, "off")
    <2>1. CredentialTypeOK'
      <3>1. attempt' \in [Setups -> AttemptType]
        BY <1>2, LegacyIsNoSetup DEF CredentialIInv, CredentialTypeOK,
           AttemptType, AttemptStages, Live, Activate, Replaced, Fresh, Go,
           Reached, listed, cleaning, history
      <3>2. entry' \in AccountRows
        BY <1>2, SetupsAssumption DEF CredentialIInv, CredentialTypeOK,
           AccountRows, Setups, Activate, Replaced, Fresh, Go, Reached, listed,
           cleaning, history
      <3> QED BY <3>1, <3>2, <1>2, LegacyIsNoSetup, SetupsAssumption DEF CredentialIInv,
         CredentialTypeOK, AttemptType, Activate, Replaced, Fresh, Go, Reached,
         listed, cleaning, history
    <2>2. ScheduledIsUnused'
      BY <1>2, LegacyIsNoSetup DEF CredentialIInv, CredentialTypeOK,
         ScheduledIsUnused, StagesAreTrue, RemovedIsEmpty, WritersHoldTheLock,
         SetupEnds, Writing, Reached, Activate, Replaced, Fresh, Go, listed,
         cleaning, history
    <2>3. StagesAreTrue'
      BY <1>2, LegacyIsNoSetup DEF CredentialIInv, CredentialTypeOK,
         StagesAreTrue, ScheduledIsUnused, RemovedIsEmpty, WritersHoldTheLock,
         CleanerIsTrue, SetupEnds, Writing, Reached, Cleaning, CleanerOff,
         Activate, Replaced, Fresh, Go, listed, cleaning, history
    <2>4. WritersHoldTheLock'
      BY <1>2, LegacyIsNoSetup DEF CredentialIInv, CredentialTypeOK,
         WritersHoldTheLock, RemovedIsEmpty, Writing, Reached, Activate,
         Replaced, Fresh, Go, listed, cleaning, history
    <2>5. RemovedIsEmpty'
      BY <1>2, LegacyIsNoSetup DEF CredentialIInv, CredentialTypeOK,
         RemovedIsEmpty, StagesAreTrue, CleanerIsTrue, WritersHoldTheLock,
         Cleaning, CleanerOff, Writing, Reached, Activate, Replaced, Fresh, Go,
         listed, cleaning, history
    <2>6. CleanerIsTrue'
      BY <1>2, LegacyIsNoSetup DEF CredentialIInv, CredentialTypeOK,
         CleanerIsTrue, RemovedIsEmpty, WritersHoldTheLock, ScheduledIsUnused,
         StagesAreTrue, Cleaning, CleanerOff, Writing, Reached, SetupEnds,
         Activate, Replaced, Fresh, Go, listed, cleaning, history
    <2>7. UnusedIsScheduled'
      BY <1>2, LegacyIsNoSetup DEF CredentialIInv, CredentialTypeOK,
         UnusedIsScheduled, StagesAreTrue, RemovedIsEmpty, WritersHoldTheLock,
         ScheduledIsUnused, CleanerIsTrue, KeyInUse, Live, Writing, Reached,
         SetupEnds, Cleaning, CleanerOff, Activate, Replaced, Fresh, Go, listed,
         cleaning, history
    <2> QED BY <2>1, <2>2, <2>3, <2>4, <2>5, <2>6, <2>7 DEF CredentialIInv
  <1> QED BY <1>1, <1>2 DEF Activate


LEMMA CloseSetupsKeeps ==
    ASSUME CredentialIInv, CloseSetups
    PROVE  CredentialIInv'
  <1>1. OnlyEnded
    BY InterruptedSetups DEF CredentialIInv, CloseSetups, CredentialEvent
  <1>2. CredentialTypeOK'
    BY <1>1, EndedTypes DEF CredentialIInv, CredentialTypeOK, GiveUpSetup,
       Go, CloseSetups, CredentialEvent, listed, cleaning, history
  <1>3. Untouched
    BY DEF CloseSetups, Untouched, CredentialEvent, listed, cleaning, history
  <1>4. Proceeding
    BY DEF CloseSetups, Proceeding, CredentialIInv, CredentialTypeOK,
       WritersHoldTheLock, Writing, Reached, GiveUpSetup, Go, CredentialEvent,
       listed, cleaning, history
  <1> QED BY <1>1, <1>2, <1>3, <1>4, EndedKeeps DEF CredentialIInv


LEMMA EditFieldsKeeps ==
    ASSUME CredentialIInv, EditFields
    PROVE  CredentialIInv'
  <1>1. CredentialTypeOK'
    <2>1. entry' \in AccountRows
      BY DEF CredentialIInv, CredentialTypeOK, EditFields, AccountRows,
          CredentialEvent, listed, cleaning, history
    <2>2. attempt' \in [Setups -> AttemptType]
      BY DEF CredentialIInv, CredentialTypeOK, EditFields, AttemptType,
          AttemptStages, Live, CredentialEvent, listed, cleaning, history
    <2>3. removal' \in [stage : RemovalStages, local : BOOLEAN]
      BY DEF CredentialIInv, CredentialTypeOK, EditFields, RemovalStages,
          CredentialEvent, listed, cleaning, history
    <2>4. cleaner' \in CleanerType
      BY LegacyIsNoSetup DEF CredentialIInv, CredentialTypeOK, EditFields,
          CleanerType, CleanerOff, CredentialEvent, listed, cleaning, history
    <2> QED BY <2>1, <2>2, <2>3, <2>4, LegacyIsNoSetup DEF CredentialIInv,
        CredentialTypeOK, AttemptType, CleanerType, EditFields,
        CredentialEvent, listed, cleaning, history
  <1>2. ScheduledIsUnused'
    BY LegacyIsNoSetup DEF CredentialIInv, CredentialTypeOK,
        ScheduledIsUnused, StagesAreTrue, RemovedIsEmpty, WritersHoldTheLock,
        SetupEnds, Writing, Reached, EditFields, CredentialEvent, listed,
        cleaning, history
  <1>3. StagesAreTrue'
    BY LegacyIsNoSetup DEF CredentialIInv, CredentialTypeOK, StagesAreTrue,
        ScheduledIsUnused, RemovedIsEmpty, WritersHoldTheLock, CleanerIsTrue,
        SetupEnds, Writing, Reached, Cleaning, CleanerOff, EditFields,
        CredentialEvent, listed, cleaning, history
  <1>4. WritersHoldTheLock'
    BY LegacyIsNoSetup DEF CredentialIInv, CredentialTypeOK,
        WritersHoldTheLock, RemovedIsEmpty, Writing, Reached, EditFields,
        CredentialEvent, listed, cleaning, history
  <1>5. RemovedIsEmpty'
    BY LegacyIsNoSetup DEF CredentialIInv, CredentialTypeOK, RemovedIsEmpty,
        StagesAreTrue, CleanerIsTrue, WritersHoldTheLock, Cleaning,
        CleanerOff, Writing, Reached, EditFields, CredentialEvent, listed,
        cleaning, history
  <1>6. CleanerIsTrue'
    BY LegacyIsNoSetup DEF CredentialIInv, CredentialTypeOK, CleanerIsTrue,
        RemovedIsEmpty, WritersHoldTheLock, ScheduledIsUnused, StagesAreTrue,
        Cleaning, CleanerOff, Writing, Reached, SetupEnds, EditFields,
        CredentialEvent, listed, cleaning, history
  <1>7. UnusedIsScheduled'
    BY LegacyIsNoSetup DEF CredentialIInv, CredentialTypeOK,
        UnusedIsScheduled, StagesAreTrue, RemovedIsEmpty, WritersHoldTheLock,
        ScheduledIsUnused, CleanerIsTrue, KeyInUse, Live, Writing, Reached,
        SetupEnds, Cleaning, CleanerOff, EditFields, CredentialEvent, listed,
        cleaning, history
  <1> QED BY <1>1, <1>2, <1>3, <1>4, <1>5, <1>6, <1>7 DEF CredentialIInv


LEMMA RemoveAccountKeeps ==
    ASSUME CredentialIInv, RemoveAccount
    PROVE  CredentialIInv'
  <1>1. CredentialTypeOK'
    <2>1. entry' \in AccountRows
      BY DEF CredentialIInv, CredentialTypeOK, RemoveAccount, AccountRows,
          CredentialEvent, listed, cleaning, history
    <2>2. attempt' \in [Setups -> AttemptType]
      BY DEF CredentialIInv, CredentialTypeOK, RemoveAccount, AttemptType,
          AttemptStages, Live, CredentialEvent, listed, cleaning, history
    <2>3. removal' \in [stage : RemovalStages, local : BOOLEAN]
      BY DEF CredentialIInv, CredentialTypeOK, RemoveAccount, RemovalStages,
          CredentialEvent, listed, cleaning, history
    <2>4. cleaner' \in CleanerType
      BY LegacyIsNoSetup DEF CredentialIInv, CredentialTypeOK, RemoveAccount,
          CleanerType, CleanerOff, CredentialEvent, listed, cleaning, history
    <2> QED BY <2>1, <2>2, <2>3, <2>4, LegacyIsNoSetup DEF CredentialIInv,
        CredentialTypeOK, AttemptType, CleanerType, RemoveAccount,
        CredentialEvent, listed, cleaning, history
  <1>2. ScheduledIsUnused'
    BY LegacyIsNoSetup DEF CredentialIInv, CredentialTypeOK,
        ScheduledIsUnused, StagesAreTrue, RemovedIsEmpty, WritersHoldTheLock,
        SetupEnds, Writing, Reached, RemoveAccount, CredentialEvent, listed,
        cleaning, history
  <1>3. StagesAreTrue'
    BY LegacyIsNoSetup DEF CredentialIInv, CredentialTypeOK, StagesAreTrue,
        ScheduledIsUnused, RemovedIsEmpty, WritersHoldTheLock, CleanerIsTrue,
        SetupEnds, Writing, Reached, Cleaning, CleanerOff, RemoveAccount,
        CredentialEvent, listed, cleaning, history
  <1>4. WritersHoldTheLock'
    BY LegacyIsNoSetup DEF CredentialIInv, CredentialTypeOK,
        WritersHoldTheLock, RemovedIsEmpty, Writing, Reached, RemoveAccount,
        CredentialEvent, listed, cleaning, history
  <1>5. RemovedIsEmpty'
    BY LegacyIsNoSetup DEF CredentialIInv, CredentialTypeOK, RemovedIsEmpty,
        StagesAreTrue, CleanerIsTrue, WritersHoldTheLock, Cleaning,
        CleanerOff, Writing, Reached, RemoveAccount, CredentialEvent, listed,
        cleaning, history
  <1>6. CleanerIsTrue'
    BY LegacyIsNoSetup DEF CredentialIInv, CredentialTypeOK, CleanerIsTrue,
        RemovedIsEmpty, WritersHoldTheLock, ScheduledIsUnused, StagesAreTrue,
        Cleaning, CleanerOff, Writing, Reached, SetupEnds, RemoveAccount,
        CredentialEvent, listed, cleaning, history
  <1>7. UnusedIsScheduled'
    BY LegacyIsNoSetup DEF CredentialIInv, CredentialTypeOK,
        UnusedIsScheduled, StagesAreTrue, RemovedIsEmpty, WritersHoldTheLock,
        ScheduledIsUnused, CleanerIsTrue, KeyInUse, Live, Writing, Reached,
        SetupEnds, Cleaning, CleanerOff, RemoveAccount, CredentialEvent,
        listed, cleaning, history
  <1> QED BY <1>1, <1>2, <1>3, <1>4, <1>5, <1>6, <1>7 DEF CredentialIInv


LEMMA StartRemovalKeeps ==
    ASSUME CredentialIInv, StartRemoval
    PROVE  CredentialIInv'
  <1>1. CredentialTypeOK'
    <2>1. entry' \in AccountRows
      BY DEF CredentialIInv, CredentialTypeOK, StartRemoval, AccountRows,
          listed, cleaning, history
    <2>2. attempt' \in [Setups -> AttemptType]
      BY DEF CredentialIInv, CredentialTypeOK, StartRemoval, AttemptType,
          AttemptStages, Live, listed, cleaning, history
    <2>3. removal' \in [stage : RemovalStages, local : BOOLEAN]
      BY DEF CredentialIInv, CredentialTypeOK, StartRemoval, RemovalStages,
          listed, cleaning, history
    <2>4. cleaner' \in CleanerType
      BY LegacyIsNoSetup DEF CredentialIInv, CredentialTypeOK, StartRemoval,
          CleanerType, CleanerOff, listed, cleaning, history
    <2> QED BY <2>1, <2>2, <2>3, <2>4, LegacyIsNoSetup DEF CredentialIInv,
        CredentialTypeOK, AttemptType, CleanerType, StartRemoval, listed,
        cleaning, history
  <1>2. ScheduledIsUnused'
    BY LegacyIsNoSetup DEF CredentialIInv, CredentialTypeOK,
        ScheduledIsUnused, StagesAreTrue, RemovedIsEmpty, WritersHoldTheLock,
        SetupEnds, Writing, Reached, StartRemoval, listed, cleaning, history
  <1>3. StagesAreTrue'
    BY LegacyIsNoSetup DEF CredentialIInv, CredentialTypeOK, StagesAreTrue,
        ScheduledIsUnused, RemovedIsEmpty, WritersHoldTheLock, CleanerIsTrue,
        SetupEnds, Writing, Reached, Cleaning, CleanerOff, StartRemoval,
        listed, cleaning, history
  <1>4. WritersHoldTheLock'
    BY LegacyIsNoSetup DEF CredentialIInv, CredentialTypeOK,
        WritersHoldTheLock, RemovedIsEmpty, Writing, Reached, StartRemoval,
        listed, cleaning, history
  <1>5. RemovedIsEmpty'
    BY LegacyIsNoSetup DEF CredentialIInv, CredentialTypeOK, RemovedIsEmpty,
        StagesAreTrue, CleanerIsTrue, WritersHoldTheLock, Cleaning,
        CleanerOff, Writing, Reached, StartRemoval, listed, cleaning, history
  <1>6. CleanerIsTrue'
    BY LegacyIsNoSetup DEF CredentialIInv, CredentialTypeOK, CleanerIsTrue,
        RemovedIsEmpty, WritersHoldTheLock, ScheduledIsUnused, StagesAreTrue,
        Cleaning, CleanerOff, Writing, Reached, SetupEnds, StartRemoval,
        listed, cleaning, history
  <1>7. UnusedIsScheduled'
    BY LegacyIsNoSetup DEF CredentialIInv, CredentialTypeOK,
        UnusedIsScheduled, StagesAreTrue, RemovedIsEmpty, WritersHoldTheLock,
        ScheduledIsUnused, CleanerIsTrue, KeyInUse, Live, Writing, Reached,
        SetupEnds, Cleaning, CleanerOff, StartRemoval, listed, cleaning,
        history
  <1> QED BY <1>1, <1>2, <1>3, <1>4, <1>5, <1>6, <1>7 DEF CredentialIInv


LEMMA RetryRemovalKeeps ==
    ASSUME CredentialIInv, RetryRemoval
    PROVE  CredentialIInv'
  <1>1. CredentialTypeOK'
    <2>1. entry' \in AccountRows
      BY DEF CredentialIInv, CredentialTypeOK, RetryRemoval, AccountRows,
          listed, cleaning, history
    <2>2. attempt' \in [Setups -> AttemptType]
      BY DEF CredentialIInv, CredentialTypeOK, RetryRemoval, AttemptType,
          AttemptStages, Live, listed, cleaning, history
    <2>3. removal' \in [stage : RemovalStages, local : BOOLEAN]
      BY DEF CredentialIInv, CredentialTypeOK, RetryRemoval, RemovalStages,
          listed, cleaning, history
    <2>4. cleaner' \in CleanerType
      BY LegacyIsNoSetup DEF CredentialIInv, CredentialTypeOK, RetryRemoval,
          CleanerType, CleanerOff, listed, cleaning, history
    <2> QED BY <2>1, <2>2, <2>3, <2>4, LegacyIsNoSetup DEF CredentialIInv,
        CredentialTypeOK, AttemptType, CleanerType, RetryRemoval, listed,
        cleaning, history
  <1>2. ScheduledIsUnused'
    BY LegacyIsNoSetup DEF CredentialIInv, CredentialTypeOK,
        ScheduledIsUnused, StagesAreTrue, RemovedIsEmpty, WritersHoldTheLock,
        SetupEnds, Writing, Reached, RetryRemoval, listed, cleaning, history
  <1>3. StagesAreTrue'
    BY LegacyIsNoSetup DEF CredentialIInv, CredentialTypeOK, StagesAreTrue,
        ScheduledIsUnused, RemovedIsEmpty, WritersHoldTheLock, CleanerIsTrue,
        SetupEnds, Writing, Reached, Cleaning, CleanerOff, RetryRemoval,
        listed, cleaning, history
  <1>4. WritersHoldTheLock'
    BY LegacyIsNoSetup DEF CredentialIInv, CredentialTypeOK,
        WritersHoldTheLock, RemovedIsEmpty, Writing, Reached, RetryRemoval,
        listed, cleaning, history
  <1>5. RemovedIsEmpty'
    BY LegacyIsNoSetup DEF CredentialIInv, CredentialTypeOK, RemovedIsEmpty,
        StagesAreTrue, CleanerIsTrue, WritersHoldTheLock, Cleaning,
        CleanerOff, Writing, Reached, RetryRemoval, listed, cleaning, history
  <1>6. CleanerIsTrue'
    BY LegacyIsNoSetup DEF CredentialIInv, CredentialTypeOK, CleanerIsTrue,
        RemovedIsEmpty, WritersHoldTheLock, ScheduledIsUnused, StagesAreTrue,
        Cleaning, CleanerOff, Writing, Reached, SetupEnds, RetryRemoval,
        listed, cleaning, history
  <1>7. UnusedIsScheduled'
    BY LegacyIsNoSetup DEF CredentialIInv, CredentialTypeOK,
        UnusedIsScheduled, StagesAreTrue, RemovedIsEmpty, WritersHoldTheLock,
        ScheduledIsUnused, CleanerIsTrue, KeyInUse, Live, Writing, Reached,
        SetupEnds, Cleaning, CleanerOff, RetryRemoval, listed, cleaning,
        history
  <1> QED BY <1>1, <1>2, <1>3, <1>4, <1>5, <1>6, <1>7 DEF CredentialIInv

(* All keys of the account are scheduled before nothing names them. *)
LEMMA FinishLocallyKeeps ==
    ASSUME CredentialIInv, NEW remains \in BOOLEAN, FinishLocally(remains)
    PROVE  CredentialIInv'
  <1>1. CredentialTypeOK'
    <2>1. entry' \in AccountRows
      BY DEF CredentialIInv, CredentialTypeOK, FinishLocally, AccountRows,
          RecordedSetups, listed, cleaning, history
    <2>2. attempt' \in [Setups -> AttemptType]
      BY DEF CredentialIInv, CredentialTypeOK, FinishLocally, AttemptType,
          AttemptStages, Live, RecordedSetups, listed, cleaning, history
    <2>3. removal' \in [stage : RemovalStages, local : BOOLEAN]
      <3>1. CASE remains BY <3>1 DEF CredentialIInv, CredentialTypeOK, FinishLocally
      <3>2. CASE ~remains
        <4>1. removal' = [stage |-> "Cleanup", local |-> TRUE] BY <3>2 DEF FinishLocally
        <4> QED BY <4>1 DEF RemovalStages
      <3> QED BY <3>1, <3>2
    <2>4. cleaner' \in CleanerType
      <3>1. scheduled' \subseteq Keys
        BY LegacyIsNoSetup DEF CredentialIInv, CredentialTypeOK, RecordedSetups, FinishLocally
      <3>2. CASE remains
        <4>1. cleaner' = cleaner BY <3>2 DEF FinishLocally
        <4> QED BY <4>1 DEF CredentialIInv, CredentialTypeOK, CleanerType
      <3>3. CASE ~remains BY <3>1, <3>3, LegacyIsNoSetup DEF CleanerType, CleanerOff, FinishLocally
      <3> QED BY <3>2, <3>3
    <2> QED BY <2>1, <2>2, <2>3, <2>4, LegacyIsNoSetup DEF CredentialIInv,
        CredentialTypeOK, AttemptType, CleanerType, FinishLocally,
        RecordedSetups, listed, cleaning, history
  <1>2. ScheduledIsUnused'
    BY LegacyIsNoSetup DEF CredentialIInv, CredentialTypeOK,
        ScheduledIsUnused, StagesAreTrue, RemovedIsEmpty, WritersHoldTheLock,
        SetupEnds, Writing, Reached, FinishLocally, RecordedSetups, listed,
        cleaning, history
  <1>3. StagesAreTrue'
    BY LegacyIsNoSetup DEF CredentialIInv, CredentialTypeOK, StagesAreTrue,
        ScheduledIsUnused, RemovedIsEmpty, WritersHoldTheLock, CleanerIsTrue,
        SetupEnds, Writing, Reached, Cleaning, CleanerOff, FinishLocally,
        RecordedSetups, listed, cleaning, history
  <1>4. WritersHoldTheLock'
    BY LegacyIsNoSetup DEF CredentialIInv, CredentialTypeOK,
        WritersHoldTheLock, RemovedIsEmpty, Writing, Reached, FinishLocally,
        RecordedSetups, listed, cleaning, history
  <1>5. RemovedIsEmpty'
    BY LegacyIsNoSetup DEF CredentialIInv, CredentialTypeOK, RemovedIsEmpty,
        StagesAreTrue, CleanerIsTrue, WritersHoldTheLock, Cleaning,
        CleanerOff, Writing, Reached, FinishLocally, RecordedSetups, listed,
        cleaning, history
  <1>6. CleanerIsTrue'
    BY LegacyIsNoSetup DEF CredentialIInv, CredentialTypeOK, CleanerIsTrue,
        RemovedIsEmpty, WritersHoldTheLock, ScheduledIsUnused, StagesAreTrue,
        Cleaning, CleanerOff, Writing, Reached, SetupEnds, FinishLocally,
        RecordedSetups, listed, cleaning, history
  <1>7. UnusedIsScheduled'
    BY LegacyIsNoSetup DEF CredentialIInv, CredentialTypeOK,
        UnusedIsScheduled, StagesAreTrue, RemovedIsEmpty, WritersHoldTheLock,
        ScheduledIsUnused, CleanerIsTrue, KeyInUse, Live, Writing, Reached,
        SetupEnds, Cleaning, CleanerOff, FinishLocally, RecordedSetups,
        listed, cleaning, history
  <1> QED BY <1>1, <1>2, <1>3, <1>4, <1>5, <1>6, <1>7 DEF CredentialIInv


LEMMA StartCleanupKeeps ==
    ASSUME CredentialIInv, StartCleanup
    PROVE  CredentialIInv'
  <1>1. CredentialTypeOK'
    <2>1. entry' \in AccountRows
      BY DEF CredentialIInv, CredentialTypeOK, StartCleanup, AccountRows,
          listed, cleaning, history
    <2>2. attempt' \in [Setups -> AttemptType]
      BY DEF CredentialIInv, CredentialTypeOK, StartCleanup, AttemptType,
          AttemptStages, Live, listed, cleaning, history
    <2>3. removal' \in [stage : RemovalStages, local : BOOLEAN]
      BY DEF CredentialIInv, CredentialTypeOK, StartCleanup, RemovalStages,
          listed, cleaning, history
    <2>4. cleaner' \in CleanerType
      BY LegacyIsNoSetup DEF CredentialIInv, CredentialTypeOK, StartCleanup,
          CleanerType, CleanerOff, listed, cleaning, history
    <2> QED BY <2>1, <2>2, <2>3, <2>4, LegacyIsNoSetup DEF CredentialIInv,
        CredentialTypeOK, AttemptType, CleanerType, StartCleanup, listed,
        cleaning, history
  <1>2. ScheduledIsUnused'
    BY LegacyIsNoSetup DEF CredentialIInv, CredentialTypeOK,
        ScheduledIsUnused, StagesAreTrue, RemovedIsEmpty, WritersHoldTheLock,
        SetupEnds, Writing, Reached, StartCleanup, listed, cleaning, history
  <1>3. StagesAreTrue'
    BY LegacyIsNoSetup DEF CredentialIInv, CredentialTypeOK, StagesAreTrue,
        ScheduledIsUnused, RemovedIsEmpty, WritersHoldTheLock, CleanerIsTrue,
        SetupEnds, Writing, Reached, Cleaning, CleanerOff, StartCleanup,
        listed, cleaning, history
  <1>4. WritersHoldTheLock'
    BY LegacyIsNoSetup DEF CredentialIInv, CredentialTypeOK,
        WritersHoldTheLock, RemovedIsEmpty, Writing, Reached, StartCleanup,
        listed, cleaning, history
  <1>5. RemovedIsEmpty'
    BY LegacyIsNoSetup DEF CredentialIInv, CredentialTypeOK, RemovedIsEmpty,
        StagesAreTrue, CleanerIsTrue, WritersHoldTheLock, Cleaning,
        CleanerOff, Writing, Reached, StartCleanup, listed, cleaning, history
  <1>6. CleanerIsTrue'
    BY LegacyIsNoSetup DEF CredentialIInv, CredentialTypeOK, CleanerIsTrue,
        RemovedIsEmpty, WritersHoldTheLock, ScheduledIsUnused, StagesAreTrue,
        Cleaning, CleanerOff, Writing, Reached, SetupEnds, StartCleanup,
        listed, cleaning, history
  <1>7. UnusedIsScheduled'
    BY LegacyIsNoSetup DEF CredentialIInv, CredentialTypeOK,
        UnusedIsScheduled, StagesAreTrue, RemovedIsEmpty, WritersHoldTheLock,
        ScheduledIsUnused, CleanerIsTrue, KeyInUse, Live, Writing, Reached,
        SetupEnds, Cleaning, CleanerOff, StartCleanup, listed, cleaning,
        history
  <1> QED BY <1>1, <1>2, <1>3, <1>4, <1>5, <1>6, <1>7 DEF CredentialIInv


LEMMA PickKeyKeeps ==
    ASSUME CredentialIInv, NEW k \in Keys, PickKey(k)
    PROVE  CredentialIInv'
  <1>1. CredentialTypeOK'
    <2>1. entry' \in AccountRows
      BY DEF CredentialIInv, CredentialTypeOK, PickKey, AccountRows, KeyInUse,
          Live, SetupEnds, ScheduledIsUnused, listed, cleaning, history
    <2>2. attempt' \in [Setups -> AttemptType]
      BY DEF CredentialIInv, CredentialTypeOK, PickKey, AttemptType,
          AttemptStages, Live, KeyInUse, SetupEnds, ScheduledIsUnused, listed,
          cleaning, history
    <2>3. removal' \in [stage : RemovalStages, local : BOOLEAN]
      BY DEF CredentialIInv, CredentialTypeOK, PickKey, RemovalStages,
          KeyInUse, Live, SetupEnds, ScheduledIsUnused, listed, cleaning,
          history
    <2>4. cleaner' \in CleanerType
      BY LegacyIsNoSetup DEF CredentialIInv, CredentialTypeOK, PickKey,
          CleanerType, CleanerOff, KeyInUse, Live, SetupEnds,
          ScheduledIsUnused, listed, cleaning, history
    <2> QED BY <2>1, <2>2, <2>3, <2>4, LegacyIsNoSetup DEF CredentialIInv,
        CredentialTypeOK, AttemptType, CleanerType, PickKey, KeyInUse, Live,
        SetupEnds, ScheduledIsUnused, listed, cleaning, history
  <1>2. ScheduledIsUnused'
    BY LegacyIsNoSetup DEF CredentialIInv, CredentialTypeOK,
        ScheduledIsUnused, StagesAreTrue, RemovedIsEmpty, WritersHoldTheLock,
        SetupEnds, Writing, Reached, PickKey, KeyInUse, Live, listed,
        cleaning, history
  <1>3. StagesAreTrue'
    BY LegacyIsNoSetup DEF CredentialIInv, CredentialTypeOK, StagesAreTrue,
        ScheduledIsUnused, RemovedIsEmpty, WritersHoldTheLock, CleanerIsTrue,
        SetupEnds, Writing, Reached, Cleaning, CleanerOff, PickKey, KeyInUse,
        Live, listed, cleaning, history
  <1>4. WritersHoldTheLock'
    BY LegacyIsNoSetup DEF CredentialIInv, CredentialTypeOK,
        WritersHoldTheLock, RemovedIsEmpty, Writing, Reached, PickKey,
        KeyInUse, Live, SetupEnds, ScheduledIsUnused, listed, cleaning,
        history
  <1>5. RemovedIsEmpty'
    BY LegacyIsNoSetup DEF CredentialIInv, CredentialTypeOK, RemovedIsEmpty,
        StagesAreTrue, CleanerIsTrue, WritersHoldTheLock, Cleaning,
        CleanerOff, Writing, Reached, PickKey, KeyInUse, Live, SetupEnds,
        ScheduledIsUnused, listed, cleaning, history
  <1>6. CleanerIsTrue'
    BY LegacyIsNoSetup DEF CredentialIInv, CredentialTypeOK, CleanerIsTrue,
        RemovedIsEmpty, WritersHoldTheLock, ScheduledIsUnused, StagesAreTrue,
        Cleaning, CleanerOff, Writing, Reached, SetupEnds, PickKey, KeyInUse,
        Live, listed, cleaning, history
  <1>7. UnusedIsScheduled'
    BY LegacyIsNoSetup DEF CredentialIInv, CredentialTypeOK,
        UnusedIsScheduled, StagesAreTrue, RemovedIsEmpty, WritersHoldTheLock,
        ScheduledIsUnused, CleanerIsTrue, KeyInUse, Live, Writing, Reached,
        SetupEnds, Cleaning, CleanerOff, PickKey, listed, cleaning, history
  <1> QED BY <1>1, <1>2, <1>3, <1>4, <1>5, <1>6, <1>7 DEF CredentialIInv

(* Only a key that is out of use for good is deleted. *)
LEMMA DeleteSecretKeeps ==
    ASSUME CredentialIInv, DeleteSecret
    PROVE  CredentialIInv'
  <1>1. CredentialTypeOK'
    <2>1. entry' \in AccountRows
      BY DEF CredentialIInv, CredentialTypeOK, DeleteSecret, AccountRows,
          Cleaning, listed, cleaning, history
    <2>2. attempt' \in [Setups -> AttemptType]
      BY DEF CredentialIInv, CredentialTypeOK, DeleteSecret, AttemptType,
          AttemptStages, Live, Cleaning, listed, cleaning, history
    <2>3. removal' \in [stage : RemovalStages, local : BOOLEAN]
      BY DEF CredentialIInv, CredentialTypeOK, DeleteSecret, RemovalStages,
          Cleaning, listed, cleaning, history
    <2>4. cleaner' \in CleanerType
      BY LegacyIsNoSetup, ZenonT(60) DEF CredentialIInv, CredentialTypeOK, DeleteSecret,
          CleanerType, CleanerOff, Cleaning, listed, cleaning, history
    <2> QED BY <2>1, <2>2, <2>3, <2>4, LegacyIsNoSetup DEF CredentialIInv,
        CredentialTypeOK, AttemptType, CleanerType, DeleteSecret, Cleaning,
        listed, cleaning, history
  <1>2. ScheduledIsUnused'
    BY LegacyIsNoSetup DEF CredentialIInv, CredentialTypeOK,
        ScheduledIsUnused, StagesAreTrue, RemovedIsEmpty, WritersHoldTheLock,
        SetupEnds, Writing, Reached, DeleteSecret, Cleaning, listed, cleaning,
        history
  <1>3. StagesAreTrue'
    BY LegacyIsNoSetup DEF CredentialIInv, CredentialTypeOK, StagesAreTrue,
        ScheduledIsUnused, RemovedIsEmpty, WritersHoldTheLock, CleanerIsTrue,
        SetupEnds, Writing, Reached, Cleaning, CleanerOff, DeleteSecret,
        listed, cleaning, history
  <1>4. WritersHoldTheLock'
    BY LegacyIsNoSetup DEF CredentialIInv, CredentialTypeOK,
        WritersHoldTheLock, RemovedIsEmpty, Writing, Reached, DeleteSecret,
        Cleaning, listed, cleaning, history
  <1>5. RemovedIsEmpty'
    BY LegacyIsNoSetup DEF CredentialIInv, CredentialTypeOK, RemovedIsEmpty,
        StagesAreTrue, CleanerIsTrue, WritersHoldTheLock, Cleaning,
        CleanerOff, Writing, Reached, DeleteSecret, listed, cleaning, history
  <1>6. CleanerIsTrue'
    BY LegacyIsNoSetup, ZenonT(60) DEF CredentialIInv, CredentialTypeOK, CleanerIsTrue,
        RemovedIsEmpty, WritersHoldTheLock, ScheduledIsUnused, StagesAreTrue,
        Cleaning, CleanerOff, Writing, Reached, SetupEnds, DeleteSecret,
        listed, cleaning, history
  <1>7. UnusedIsScheduled'
    BY LegacyIsNoSetup DEF CredentialIInv, CredentialTypeOK,
        UnusedIsScheduled, StagesAreTrue, RemovedIsEmpty, WritersHoldTheLock,
        ScheduledIsUnused, CleanerIsTrue, KeyInUse, Live, Writing, Reached,
        SetupEnds, Cleaning, CleanerOff, DeleteSecret, listed, cleaning,
        history
  <1> QED BY <1>1, <1>2, <1>3, <1>4, <1>5, <1>6, <1>7 DEF CredentialIInv


LEMMA FinishKeyKeeps ==
    ASSUME CredentialIInv, FinishKey
    PROVE  CredentialIInv'
  <1>1. CredentialTypeOK'
    <2>1. entry' \in AccountRows
      BY DEF CredentialIInv, CredentialTypeOK, FinishKey, AccountRows,
          Cleaning, listed, cleaning, history
    <2>2. attempt' \in [Setups -> AttemptType]
      BY DEF CredentialIInv, CredentialTypeOK, FinishKey, AttemptType,
          AttemptStages, Live, Cleaning, listed, cleaning, history
    <2>3. removal' \in [stage : RemovalStages, local : BOOLEAN]
      BY DEF CredentialIInv, CredentialTypeOK, FinishKey, RemovalStages,
          Cleaning, listed, cleaning, history
    <2>4. cleaner' \in CleanerType
      BY LegacyIsNoSetup DEF CredentialIInv, CredentialTypeOK, FinishKey,
          CleanerType, CleanerOff, Cleaning, listed, cleaning, history
    <2> QED BY <2>1, <2>2, <2>3, <2>4, LegacyIsNoSetup DEF CredentialIInv,
        CredentialTypeOK, AttemptType, CleanerType, FinishKey, Cleaning,
        listed, cleaning, history
  <1>2. ScheduledIsUnused'
    BY LegacyIsNoSetup DEF CredentialIInv, CredentialTypeOK,
        ScheduledIsUnused, StagesAreTrue, RemovedIsEmpty, WritersHoldTheLock,
        SetupEnds, Writing, Reached, FinishKey, Cleaning, listed, cleaning,
        history
  <1>3. StagesAreTrue'
    BY LegacyIsNoSetup DEF CredentialIInv, CredentialTypeOK, StagesAreTrue,
        ScheduledIsUnused, RemovedIsEmpty, WritersHoldTheLock, CleanerIsTrue,
        SetupEnds, Writing, Reached, Cleaning, CleanerOff, FinishKey, listed,
        cleaning, history
  <1>4. WritersHoldTheLock'
    BY LegacyIsNoSetup DEF CredentialIInv, CredentialTypeOK,
        WritersHoldTheLock, RemovedIsEmpty, Writing, Reached, FinishKey,
        Cleaning, listed, cleaning, history
  <1>5. RemovedIsEmpty'
    BY LegacyIsNoSetup DEF CredentialIInv, CredentialTypeOK, RemovedIsEmpty,
        StagesAreTrue, CleanerIsTrue, WritersHoldTheLock, Cleaning,
        CleanerOff, Writing, Reached, FinishKey, listed, cleaning, history
  <1>6. CleanerIsTrue'
    BY LegacyIsNoSetup DEF CredentialIInv, CredentialTypeOK, CleanerIsTrue,
        RemovedIsEmpty, WritersHoldTheLock, ScheduledIsUnused, StagesAreTrue,
        Cleaning, CleanerOff, Writing, Reached, SetupEnds, FinishKey, listed,
        cleaning, history
  <1>7. UnusedIsScheduled'
    BY LegacyIsNoSetup DEF CredentialIInv, CredentialTypeOK,
        UnusedIsScheduled, StagesAreTrue, RemovedIsEmpty, WritersHoldTheLock,
        ScheduledIsUnused, CleanerIsTrue, KeyInUse, Live, Writing, Reached,
        SetupEnds, Cleaning, CleanerOff, FinishKey, listed, cleaning, history
  <1> QED BY <1>1, <1>2, <1>3, <1>4, <1>5, <1>6, <1>7 DEF CredentialIInv


LEMMA EndCleanupKeeps ==
    ASSUME CredentialIInv, EndCleanup
    PROVE  CredentialIInv'
  <1>1. CredentialTypeOK'
    <2>1. entry' \in AccountRows
      BY DEF CredentialIInv, CredentialTypeOK, EndCleanup, AccountRows,
          RemovalAfter, Cleaning, listed, cleaning, history
    <2>2. attempt' \in [Setups -> AttemptType]
      BY DEF CredentialIInv, CredentialTypeOK, EndCleanup, AttemptType,
          AttemptStages, Live, RemovalAfter, Cleaning, listed, cleaning,
          history
    <2>3. removal' \in [stage : RemovalStages, local : BOOLEAN]
      BY DEF CredentialIInv, CredentialTypeOK, EndCleanup, RemovalStages,
          RemovalAfter, Cleaning, listed, cleaning, history
    <2>4. cleaner' \in CleanerType
      BY LegacyIsNoSetup DEF CredentialIInv, CredentialTypeOK, EndCleanup,
          CleanerType, CleanerOff, RemovalAfter, Cleaning, listed, cleaning,
          history
    <2> QED BY <2>1, <2>2, <2>3, <2>4, LegacyIsNoSetup DEF CredentialIInv,
        CredentialTypeOK, AttemptType, CleanerType, EndCleanup, RemovalAfter,
        Cleaning, listed, cleaning, history
  <1>2. ScheduledIsUnused'
    BY LegacyIsNoSetup DEF CredentialIInv, CredentialTypeOK,
        ScheduledIsUnused, StagesAreTrue, RemovedIsEmpty, WritersHoldTheLock,
        SetupEnds, Writing, Reached, EndCleanup, RemovalAfter, Cleaning,
        listed, cleaning, history
  <1>3. StagesAreTrue'
    BY LegacyIsNoSetup DEF CredentialIInv, CredentialTypeOK, StagesAreTrue,
        ScheduledIsUnused, RemovedIsEmpty, WritersHoldTheLock, CleanerIsTrue,
        SetupEnds, Writing, Reached, Cleaning, CleanerOff, EndCleanup,
        RemovalAfter, listed, cleaning, history
  <1>4. WritersHoldTheLock'
    BY LegacyIsNoSetup DEF CredentialIInv, CredentialTypeOK,
        WritersHoldTheLock, RemovedIsEmpty, Writing, Reached, EndCleanup,
        RemovalAfter, Cleaning, listed, cleaning, history
  <1>5. RemovedIsEmpty'
    BY LegacyIsNoSetup DEF CredentialIInv, CredentialTypeOK, RemovedIsEmpty,
        StagesAreTrue, CleanerIsTrue, WritersHoldTheLock, Cleaning,
        CleanerOff, Writing, Reached, EndCleanup, RemovalAfter, listed,
        cleaning, history
  <1>6. CleanerIsTrue'
    BY LegacyIsNoSetup DEF CredentialIInv, CredentialTypeOK, CleanerIsTrue,
        RemovedIsEmpty, WritersHoldTheLock, ScheduledIsUnused, StagesAreTrue,
        Cleaning, CleanerOff, Writing, Reached, SetupEnds, EndCleanup,
        RemovalAfter, listed, cleaning, history
  <1>7. UnusedIsScheduled'
    BY LegacyIsNoSetup DEF CredentialIInv, CredentialTypeOK,
        UnusedIsScheduled, StagesAreTrue, RemovedIsEmpty, WritersHoldTheLock,
        ScheduledIsUnused, CleanerIsTrue, KeyInUse, Live, Writing, Reached,
        SetupEnds, Cleaning, CleanerOff, EndCleanup, RemovalAfter, listed,
        cleaning, history
  <1> QED BY <1>1, <1>2, <1>3, <1>4, <1>5, <1>6, <1>7 DEF CredentialIInv


LEMMA AbandonCleanupKeeps ==
    ASSUME CredentialIInv, AbandonCleanup
    PROVE  CredentialIInv'
  <1>1. CredentialTypeOK'
    <2>1. entry' \in AccountRows
      BY DEF CredentialIInv, CredentialTypeOK, AbandonCleanup, AccountRows,
          listed, cleaning, history
    <2>2. attempt' \in [Setups -> AttemptType]
      BY DEF CredentialIInv, CredentialTypeOK, AbandonCleanup, AttemptType,
          AttemptStages, Live, listed, cleaning, history
    <2>3. removal' \in [stage : RemovalStages, local : BOOLEAN]
      BY DEF CredentialIInv, CredentialTypeOK, AbandonCleanup, RemovalStages,
          listed, cleaning, history
    <2>4. cleaner' \in CleanerType
      BY LegacyIsNoSetup DEF CredentialIInv, CredentialTypeOK, AbandonCleanup,
          CleanerType, CleanerOff, listed, cleaning, history
    <2> QED BY <2>1, <2>2, <2>3, <2>4, LegacyIsNoSetup DEF CredentialIInv,
        CredentialTypeOK, AttemptType, CleanerType, AbandonCleanup, listed,
        cleaning, history
  <1>2. ScheduledIsUnused'
    BY LegacyIsNoSetup DEF CredentialIInv, CredentialTypeOK,
        ScheduledIsUnused, StagesAreTrue, RemovedIsEmpty, WritersHoldTheLock,
        SetupEnds, Writing, Reached, AbandonCleanup, listed, cleaning, history
  <1>3. StagesAreTrue'
    BY LegacyIsNoSetup DEF CredentialIInv, CredentialTypeOK, StagesAreTrue,
        ScheduledIsUnused, RemovedIsEmpty, WritersHoldTheLock, CleanerIsTrue,
        SetupEnds, Writing, Reached, Cleaning, CleanerOff, AbandonCleanup,
        listed, cleaning, history
  <1>4. WritersHoldTheLock'
    BY LegacyIsNoSetup DEF CredentialIInv, CredentialTypeOK,
        WritersHoldTheLock, RemovedIsEmpty, Writing, Reached, AbandonCleanup,
        listed, cleaning, history
  <1>5. RemovedIsEmpty'
    BY LegacyIsNoSetup DEF CredentialIInv, CredentialTypeOK, RemovedIsEmpty,
        StagesAreTrue, CleanerIsTrue, WritersHoldTheLock, Cleaning,
        CleanerOff, Writing, Reached, AbandonCleanup, listed, cleaning,
        history
  <1>6. CleanerIsTrue'
    BY LegacyIsNoSetup DEF CredentialIInv, CredentialTypeOK, CleanerIsTrue,
        RemovedIsEmpty, WritersHoldTheLock, ScheduledIsUnused, StagesAreTrue,
        Cleaning, CleanerOff, Writing, Reached, SetupEnds, AbandonCleanup,
        listed, cleaning, history
  <1>7. UnusedIsScheduled'
    BY LegacyIsNoSetup DEF CredentialIInv, CredentialTypeOK,
        UnusedIsScheduled, StagesAreTrue, RemovedIsEmpty, WritersHoldTheLock,
        ScheduledIsUnused, CleanerIsTrue, KeyInUse, Live, Writing, Reached,
        SetupEnds, Cleaning, CleanerOff, AbandonCleanup, listed, cleaning,
        history
  <1> QED BY <1>1, <1>2, <1>3, <1>4, <1>5, <1>6, <1>7 DEF CredentialIInv


LEMMA RestoreAccountKeeps ==
    ASSUME CredentialIInv, RestoreAccount
    PROVE  CredentialIInv'
  <1>1. CredentialTypeOK'
    <2>1. entry' \in AccountRows
      BY DEF CredentialIInv, CredentialTypeOK, RestoreAccount, AccountRows,
          CredentialEvent, NotRemoved, listed, cleaning, history
    <2>2. attempt' \in [Setups -> AttemptType]
      BY DEF CredentialIInv, CredentialTypeOK, RestoreAccount, AttemptType,
          AttemptStages, Live, CredentialEvent, NotRemoved, listed, cleaning,
          history
    <2>3. removal' \in [stage : RemovalStages, local : BOOLEAN]
      BY DEF CredentialIInv, CredentialTypeOK, RestoreAccount, RemovalStages,
          CredentialEvent, NotRemoved, listed, cleaning, history
    <2>4. cleaner' \in CleanerType
      BY LegacyIsNoSetup DEF CredentialIInv, CredentialTypeOK, RestoreAccount,
          CleanerType, CleanerOff, CredentialEvent, NotRemoved, listed,
          cleaning, history
    <2> QED BY <2>1, <2>2, <2>3, <2>4, LegacyIsNoSetup DEF CredentialIInv,
        CredentialTypeOK, AttemptType, CleanerType, RestoreAccount,
        CredentialEvent, NotRemoved, listed, cleaning, history
  <1>2. ScheduledIsUnused'
    BY LegacyIsNoSetup DEF CredentialIInv, CredentialTypeOK,
        ScheduledIsUnused, StagesAreTrue, RemovedIsEmpty, WritersHoldTheLock,
        SetupEnds, Writing, Reached, RestoreAccount, CredentialEvent,
        NotRemoved, listed, cleaning, history
  <1>3. StagesAreTrue'
    BY LegacyIsNoSetup DEF CredentialIInv, CredentialTypeOK, StagesAreTrue,
        ScheduledIsUnused, RemovedIsEmpty, WritersHoldTheLock, CleanerIsTrue,
        SetupEnds, Writing, Reached, Cleaning, CleanerOff, RestoreAccount,
        CredentialEvent, NotRemoved, listed, cleaning, history
  <1>4. WritersHoldTheLock'
    BY LegacyIsNoSetup DEF CredentialIInv, CredentialTypeOK,
        WritersHoldTheLock, RemovedIsEmpty, Writing, Reached, RestoreAccount,
        CredentialEvent, NotRemoved, listed, cleaning, history
  <1>5. RemovedIsEmpty'
    BY LegacyIsNoSetup DEF CredentialIInv, CredentialTypeOK, RemovedIsEmpty,
        StagesAreTrue, CleanerIsTrue, WritersHoldTheLock, Cleaning,
        CleanerOff, Writing, Reached, RestoreAccount, CredentialEvent,
        NotRemoved, listed, cleaning, history
  <1>6. CleanerIsTrue'
    BY LegacyIsNoSetup DEF CredentialIInv, CredentialTypeOK, CleanerIsTrue,
        RemovedIsEmpty, WritersHoldTheLock, ScheduledIsUnused, StagesAreTrue,
        Cleaning, CleanerOff, Writing, Reached, SetupEnds, RestoreAccount,
        CredentialEvent, NotRemoved, listed, cleaning, history
  <1>7. UnusedIsScheduled'
    BY LegacyIsNoSetup DEF CredentialIInv, CredentialTypeOK,
        UnusedIsScheduled, StagesAreTrue, RemovedIsEmpty, WritersHoldTheLock,
        ScheduledIsUnused, CleanerIsTrue, KeyInUse, Live, Writing, Reached,
        SetupEnds, Cleaning, CleanerOff, RestoreAccount, CredentialEvent,
        NotRemoved, listed, cleaning, history
  <1> QED BY <1>1, <1>2, <1>3, <1>4, <1>5, <1>6, <1>7 DEF CredentialIInv


LEMMA RestoreSecretKeeps ==
    ASSUME CredentialIInv, RestoreSecret
    PROVE  CredentialIInv'
  <1>1. CredentialTypeOK'
    <2>1. entry' \in AccountRows
      BY DEF CredentialIInv, CredentialTypeOK, RestoreSecret, AccountRows,
          listed, cleaning, history
    <2>2. attempt' \in [Setups -> AttemptType]
      BY DEF CredentialIInv, CredentialTypeOK, RestoreSecret, AttemptType,
          AttemptStages, Live, listed, cleaning, history
    <2>3. removal' \in [stage : RemovalStages, local : BOOLEAN]
      BY DEF CredentialIInv, CredentialTypeOK, RestoreSecret, RemovalStages,
          listed, cleaning, history
    <2>4. cleaner' \in CleanerType
      BY LegacyIsNoSetup DEF CredentialIInv, CredentialTypeOK, RestoreSecret,
          CleanerType, CleanerOff, listed, cleaning, history
    <2> QED BY <2>1, <2>2, <2>3, <2>4, LegacyIsNoSetup DEF CredentialIInv,
        CredentialTypeOK, AttemptType, CleanerType, RestoreSecret, listed,
        cleaning, history
  <1>2. ScheduledIsUnused'
    BY LegacyIsNoSetup DEF CredentialIInv, CredentialTypeOK,
        ScheduledIsUnused, StagesAreTrue, RemovedIsEmpty, WritersHoldTheLock,
        SetupEnds, Writing, Reached, RestoreSecret, listed, cleaning, history
  <1>3. StagesAreTrue'
    BY LegacyIsNoSetup DEF CredentialIInv, CredentialTypeOK, StagesAreTrue,
        ScheduledIsUnused, RemovedIsEmpty, WritersHoldTheLock, CleanerIsTrue,
        SetupEnds, Writing, Reached, Cleaning, CleanerOff, RestoreSecret,
        listed, cleaning, history
  <1>4. WritersHoldTheLock'
    BY LegacyIsNoSetup DEF CredentialIInv, CredentialTypeOK,
        WritersHoldTheLock, RemovedIsEmpty, Writing, Reached, RestoreSecret,
        listed, cleaning, history
  <1>5. RemovedIsEmpty'
    BY LegacyIsNoSetup DEF CredentialIInv, CredentialTypeOK, RemovedIsEmpty,
        StagesAreTrue, CleanerIsTrue, WritersHoldTheLock, Cleaning,
        CleanerOff, Writing, Reached, RestoreSecret, listed, cleaning, history
  <1>6. CleanerIsTrue'
    BY LegacyIsNoSetup DEF CredentialIInv, CredentialTypeOK, CleanerIsTrue,
        RemovedIsEmpty, WritersHoldTheLock, ScheduledIsUnused, StagesAreTrue,
        Cleaning, CleanerOff, Writing, Reached, SetupEnds, RestoreSecret,
        listed, cleaning, history
  <1>7. UnusedIsScheduled'
    BY LegacyIsNoSetup DEF CredentialIInv, CredentialTypeOK,
        UnusedIsScheduled, StagesAreTrue, RemovedIsEmpty, WritersHoldTheLock,
        ScheduledIsUnused, CleanerIsTrue, KeyInUse, Live, Writing, Reached,
        SetupEnds, Cleaning, CleanerOff, RestoreSecret, listed, cleaning,
        history
  <1> QED BY <1>1, <1>2, <1>3, <1>4, <1>5, <1>6, <1>7 DEF CredentialIInv


LEMMA CrashSetupsKeeps ==
    ASSUME CredentialIInv, CrashSetups
    PROVE  CredentialIInv'
  <1>1. OnlyEnded
    BY InterruptedSetups DEF CredentialIInv, CrashSetups, CredentialEvent
  <1>2. CredentialTypeOK'
    BY <1>1, EndedTypes DEF CredentialIInv, CredentialTypeOK, GiveUpSetup,
       Go, CrashSetups, CredentialEvent, listed, cleaning, history
  <1>3. Untouched
    BY DEF CrashSetups, Untouched, CredentialEvent, listed, cleaning, history
  <1>4. Proceeding
    BY DEF CrashSetups, Proceeding, CredentialIInv, CredentialTypeOK,
       WritersHoldTheLock, Writing, Reached, GiveUpSetup, Go, CredentialEvent,
       listed, cleaning, history
  <1> QED BY <1>1, <1>2, <1>3, <1>4, EndedKeeps DEF CredentialIInv

LEMMA BeginningHolds == CredentialInit => CredentialIInv
  BY LegacyIsNoSetup, SetupsAssumption DEF CredentialInit, CredentialIInv, CredentialTypeOK,
     ScheduledIsUnused, StagesAreTrue, WritersHoldTheLock, RemovedIsEmpty, CleanerIsTrue,
     UnusedIsScheduled, AccountRows, AttemptStages, RemovalStages, Live, Reached, Writing, Cleaning,
     CleanerOff, NotRemoved, KeyInUse

LEMMA StutterHolds ==
    ASSUME CredentialIInv, UNCHANGED credentialVars
    PROVE  CredentialIInv'
  BY DEF credentialVars, listed, cleaning, history, CredentialIInv, CredentialTypeOK,
     ScheduledIsUnused, StagesAreTrue, WritersHoldTheLock, RemovedIsEmpty, CleanerIsTrue,
     UnusedIsScheduled, Reached, Writing, Cleaning, KeyInUse

LEMMA StepHolds ==
    ASSUME CredentialIInv, [CredentialNext]_credentialVars
    PROVE  CredentialIInv'
  <1>1. CASE UNCHANGED credentialVars
    BY <1>1, StutterHolds
  <1>2. CASE CredentialNext
    BY <1>2, LegacyIsNoSetup, AdmitSetupKeeps, BeginStagingKeeps, WriteSecretsKeeps, RecordStagedKeeps, BeginCheckKeeps, EndCheckKeeps, ActivateKeeps, CloseSetupsKeeps, EditFieldsKeeps, RemoveAccountKeeps, StartRemovalKeeps, RetryRemovalKeeps, FinishLocallyKeeps, StartCleanupKeeps, PickKeyKeeps, DeleteSecretKeeps, FinishKeyKeeps, EndCleanupKeeps, AbandonCleanupKeeps, RestoreAccountKeeps, RestoreSecretKeeps, CrashSetupsKeeps DEF CredentialNext
  <1> QED BY <1>1, <1>2

(* The invariant of connecting, removing, cleaning up and restoring holds for *)
(* any number of attempts (CredentialNext).                                   *)
THEOREM SecretsAreKnown == CredentialSpec => []CredentialIInv
  <1>1. CredentialInit => CredentialIInv
    BY BeginningHolds
  <1>2. CredentialIInv /\ [CredentialNext]_credentialVars => CredentialIInv'
    BY StepHolds
  <1> QED BY <1>1, <1>2, PTL DEF CredentialSpec

(* A key that is to be deleted is not in use, when it is deleted as when it was  *)
(* scheduled.                                                                 *)
LEMMA UsedIsKept ==
    ASSUME CredentialIInv, [CredentialNext]_credentialVars
    PROVE  \A k \in keyring : KeyInUse(k) => k \in keyring'
  <1> SUFFICES ASSUME NEW k \in keyring, KeyInUse(k), k \notin keyring'
               PROVE  FALSE
    OBVIOUS
  <1>1. k \in Keys
    BY DEF CredentialIInv, CredentialTypeOK
  <1>2. DeleteSecret
    BY DEF CredentialNext, credentialVars, listed, cleaning, history, AdmitSetup,
       BeginStaging, WriteSecrets, RecordStaged, BeginCheck, EndCheck, Activate,
       CloseSetups, EditFields, RemoveAccount, StartRemoval, RetryRemoval, FinishLocally,
       StartCleanup, PickKey, FinishKey, EndCleanup, AbandonCleanup, RestoreAccount,
       RestoreSecret, CrashSetups
  <1>3. k \in scheduled
    BY <1>2 DEF DeleteSecret, CredentialIInv, CleanerIsTrue
  <1> QED BY <1>1, <1>3, LegacyIsNoSetup
     DEF CredentialIInv, CredentialTypeOK, ScheduledIsUnused, KeyInUse, SetupEnds, Live

LEMMA KnownMeansTrue ==
    CredentialIInv => UsedIsVerified /\ UnusedIsScheduled /\ RemovedMeansGone
  BY LegacyIsNoSetup DEF CredentialIInv, CredentialTypeOK, StagesAreTrue, RemovedIsEmpty,
     UnusedIsScheduled, UsedIsVerified, RemovedMeansGone, KeyInUse, Live

(* The keyring agrees with the database through every order of the steps      *)
(* (SecretsMatchTheirUse): what is used is there and was accepted by its        *)
(* servers, what is not used is known to the cleanup, a finished removal left   *)
(* nothing behind, and nothing in use is deleted.                              *)
THEOREM KeyringAgrees == CredentialSpec => SecretsMatchTheirUse
  <1>1. CredentialIInv /\ [CredentialNext]_credentialVars =>
           [\A k \in keyring : KeyInUse(k) => k \in keyring']_credentialVars
    BY UsedIsKept
  <1> QED BY <1>1, KnownMeansTrue, SecretsAreKnown, PTL
     DEF CredentialSpec, SecretsMatchTheirUse
=============================================================================
