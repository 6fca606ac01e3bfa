----------------------------- MODULE AccountWork -----------------------------
(***************************************************************************)
(* The coordinator that hands out the accounts: one task owns the maps and *)
(* the queue, callers hold the sending half of a channel whose closing is  *)
(* the release.  A write is granted beside a read-only sync; exclusive     *)
(* work interrupts the sync and waits; a sync never waits.                 *)
(*                                                                         *)
(* Callers that need several accounts take them one after the other, in    *)
(* the order of their identities, and keep those they have.                *)
(***************************************************************************)
EXTENDS Naturals, SequencesExt

CONSTANTS
    Tasks,         \* the callers
    Accounts,      \* account identities, ordered
    Kind,          \* what each caller asks for
    Needs,         \* the accounts each caller locks together
    QueueLimit,    \* how many requests wait inside the coordinator
    ChannelLimit,  \* how many wait in its channel
    MaxTickets     \* bound: tickets in use at once

WorkKinds == {"Write", "Exclusive", "Sync"}

ASSUME TasksAssumption ==
    /\ Accounts \subseteq Nat
    /\ Kind \in [Tasks -> WorkKinds]
    /\ Needs \in [Tasks -> (SUBSET Accounts) \ {{}}]
    /\ QueueLimit \in Nat /\ ChannelLimit \in Nat /\ MaxTickets \in Nat

VARIABLES
    state,      \* what each caller is doing
    held,       \* the ticket of each account a caller holds, 0 for none
    stop,       \* the callers that were asked to stop
    channel,    \* requests sent and not yet received
    pending,    \* requests received and not yet granted
    syncs,      \* the sync running in each account
    mutations,  \* the write or exclusive work running in each account
    done,       \* tickets whose holder let go, not yet settled
    position,   \* where the coordinator's pass over pending has come to
    blocked     \* accounts whose order this pass must keep

callers     == <<state, held, stop>>
coordinator == <<syncs, mutations, position, blocked>>
accountVars        == <<callers, channel, pending, coordinator, done>>

States  == {"idle", "sending", "waiting", "working"}
Tickets == 1 .. MaxTickets
Sent    == [task : Tasks, account : Accounts, open : BOOLEAN]
Waiting == [ticket : Tickets, task : Tasks, account : Accounts, open : BOOLEAN]
Sync     == [ticket : Tickets \cup {0}, interrupted : BOOLEAN]
Mutation == [ticket : Tickets \cup {0}, exclusive : BOOLEAN]
Receipts == [ticket : Tickets, account : Accounts]
NoSync     == [ticket |-> 0, interrupted |-> FALSE]
NoMutation == [ticket |-> 0, exclusive |-> FALSE]

AccountInit ==
    /\ state     = [t \in Tasks |-> "idle"]
    /\ held      = [t \in Tasks |-> [a \in Accounts |-> 0]]
    /\ stop      = {}
    /\ channel   = << >>
    /\ pending   = << >>
    /\ syncs     = [a \in Accounts |-> NoSync]
    /\ mutations = [a \in Accounts |-> NoMutation]
    /\ done      = {}
    /\ position  = 1
    /\ blocked   = {}

----------------------------------------------------------------------------
(* The callers. *)

Holds(t, a) == held[t][a] # 0
Lacks(t)    == {a \in Needs[t] : ~Holds(t, a)}

InAnyOrder(t, a) == TRUE                                          \* mutant
(* ids.sort(): the next account is the first one still missing. *)
InOrder(t, a) == \A b \in Lacks(t) : a <= b

Dropped_Whole(t) ==                                               \* mutant
    {[ticket |-> held[t][a], account |-> a] : a \in Accounts}
Dropped(t) == {[ticket |-> held[t][a], account |-> a] : a \in {b \in Accounts : Holds(t, b)}}

Begin(t) ==
    /\ state[t] = "idle"
    /\ state' = [state EXCEPT ![t] = "sending"]
    /\ stop' = stop \ {t}
    /\ UNCHANGED <<held, channel, pending, coordinator, done>>

Send(t) ==
    /\ state[t] = "sending"
    /\ Len(channel) < ChannelLimit
    /\ \E a \in Lacks(t) :
          /\ InOrder(t, a)
          /\ channel' = Append(channel, [task |-> t, account |-> a, open |-> TRUE])
    /\ state' = [state EXCEPT ![t] = "waiting"]
    /\ UNCHANGED <<held, stop, pending, coordinator, done>>

(* Work ends, or its future is dropped: every Access it owns goes with it. *)
LetGo(t) ==
    /\ state' = [state EXCEPT ![t] = "idle"]
    /\ held' = [held EXCEPT ![t] = [a \in Accounts |-> 0]]

Finish(t) ==
    /\ state[t] = "working"
    /\ LetGo(t)
    /\ done' = done \cup Dropped(t)
    /\ UNCHANGED <<stop, channel, pending, coordinator>>

(* A timeout, a closed owner or a superseded command gives up waiting. *)
Close(queue, t) ==
    [i \in DOMAIN queue |-> IF queue[i].task = t THEN [queue[i] EXCEPT !.open = FALSE]
                                                 ELSE queue[i]]
AskedFor(t) == {[ticket |-> q.ticket, account |-> q.account] :
                q \in {r \in ToSet(pending) : r.task = t /\ r.open}}

Cancel(t) ==
    /\ state[t] \in {"sending", "waiting"}
    /\ LetGo(t)
    /\ channel' = Close(channel, t)
    /\ pending' = Close(pending, t)
    /\ done' = done \cup Dropped(t) \cup AskedFor(t)
    /\ UNCHANGED <<stop, coordinator>>

(* The deadline of a sync cycle, or shutdown, asks the download to stop. *)
OwnerCloses(t) ==
    /\ Kind[t] = "Sync" /\ state[t] = "working"
    /\ t \notin stop
    /\ stop' = stop \cup {t}
    /\ UNCHANGED <<state, held, channel, pending, coordinator, done>>

----------------------------------------------------------------------------
(* The coordinator. *)

IsSync(q)      == Kind[q.task] = "Sync"
IsExclusive(q) == Kind[q.task] = "Exclusive"

ExclusiveWaiting_ActiveOnly(a) == mutations[a].exclusive          \* mutant
ExclusiveWaiting(a) ==
    \/ mutations[a].exclusive
    \/ \E q \in ToSet(pending) : q.account = a /\ IsExclusive(q)

Skipped(q) ==
    \/ ~q.open
    \/ IsSync(q) /\ (syncs[q.account].ticket # 0 \/ ExclusiveWaiting(q.account))

Ready(q) ==
    \/ IsSync(q)
    \/ /\ mutations[q.account].ticket = 0
       /\ q.account \notin blocked
       /\ IsExclusive(q) => syncs[q.account].ticket = 0

BlockedBy_Writes(q) ==                                            \* mutant
    IF IsExclusive(q) THEN blocked ELSE blocked \cup {q.account}
BlockedBy(q) == blocked \cup {q.account}

(* What is left of a caller's work once it holds one more account. *)
Granted(q) ==
    /\ held' = [held EXCEPT ![q.task][q.account] = q.ticket]
    /\ state' = [state EXCEPT ![q.task] =
                    IF Lacks(q.task) = {q.account} THEN "working" ELSE "sending"]
    /\ IF IsSync(q)
       THEN /\ syncs' = [syncs EXCEPT ![q.account] =
                            [ticket |-> q.ticket, interrupted |-> FALSE]]
            /\ UNCHANGED mutations
       ELSE /\ mutations' = [mutations EXCEPT ![q.account] =
                                [ticket |-> q.ticket, exclusive |-> IsExclusive(q)]]
            /\ UNCHANGED syncs

(* One request of the pass: refused, which ends the caller's work, granted,   *)
(* or left in its place.                                                     *)
Scan ==
    LET q == pending[position] IN
    /\ position <= Len(pending)
    /\ \/ /\ Skipped(q)
          /\ pending' = RemoveAt(pending, position)
          /\ \/ /\ q.open
                /\ LetGo(q.task)
                /\ done' = done \cup Dropped(q.task)
                             \cup {[ticket |-> q.ticket, account |-> q.account]}
             \/ ~q.open /\ UNCHANGED <<state, held, done>>
          /\ UNCHANGED coordinator
       \/ /\ ~Skipped(q) /\ Ready(q)
          /\ pending' = RemoveAt(pending, position)
          /\ Granted(q)
          /\ UNCHANGED <<done, position, blocked>>
       \/ /\ ~Skipped(q) /\ ~Ready(q)
          /\ blocked' = BlockedBy(q)
          /\ position' = position + 1
          /\ UNCHANGED <<state, held, pending, syncs, mutations, done>>
    /\ UNCHANGED <<stop, channel>>

Passed == position > Len(pending)
Rescan == position' = 1 /\ blocked' = {}

(* The ticket counter never repeats; any number not in use stands for it. *)
InUse ==
    {q.ticket : q \in ToSet(pending)} \cup {d.ticket : d \in done}
        \cup {held[t][a] : t \in Tasks, a \in Accounts}
        \cup {syncs[a].ticket : a \in Accounts}
        \cup {mutations[a].ticket : a \in Accounts}
NextTicket == CHOOSE n \in Tickets : n \notin InUse

Interrupted(a) == {t \in Tasks : Kind[t] = "Sync" /\ Holds(t, a)
                                 /\ held[t][a] = syncs[a].ticket}

Receive ==
    LET request == Head(channel)
        a == request.account IN
    /\ Passed
    /\ Len(pending) < QueueLimit
    /\ channel # << >>
    /\ channel' = Tail(channel)
    /\ \/ /\ ~request.open
          /\ UNCHANGED <<pending, syncs, stop>>
       \/ /\ request.open
          /\ Tickets \ InUse # {}
          /\ pending' = Append(pending, [ticket |-> NextTicket, task |-> request.task,
                                         account |-> a, open |-> TRUE])
          /\ IF IsExclusive(request) /\ syncs[a].ticket # 0 /\ ~syncs[a].interrupted
             THEN /\ syncs' = [syncs EXCEPT ![a].interrupted = TRUE]
                  /\ stop' = stop \cup Interrupted(a)
             ELSE UNCHANGED <<syncs, stop>>
    /\ Rescan
    /\ UNCHANGED <<state, held, mutations, done>>

Settles_AnyTicket(active, d) == active.ticket # 0                 \* mutant
Settles(active, d) == active.ticket = d.ticket

(* retain: the one request with the ticket, if it still waits. *)
Without(ticket) ==
    LET at == {i \in DOMAIN pending : pending[i].ticket = ticket} IN
    IF at = {} THEN pending ELSE RemoveAt(pending, CHOOSE i \in at : TRUE)

Settle(d) ==
    /\ Passed
    /\ d \in done
    /\ done' = done \ {d}
    /\ syncs' = IF Settles(syncs[d.account], d)
                THEN [syncs EXCEPT ![d.account] = NoSync] ELSE syncs
    /\ mutations' = IF Settles(mutations[d.account], d)
                    THEN [mutations EXCEPT ![d.account] = NoMutation] ELSE mutations
    /\ pending' = Without(d.ticket)
    /\ Rescan
    /\ UNCHANGED <<callers, channel>>

----------------------------------------------------------------------------
AccountNext ==
    \/ \E t \in Tasks : Begin(t) \/ Send(t) \/ Finish(t) \/ Cancel(t) \/ OwnerCloses(t)
    \/ Scan \/ Receive
    \/ \E d \in Receipts : Settle(d)

(* The coordinator's task keeps running.  Its select polls finished work     *)
(* first, of which there is never more than it has received, so a request   *)
(* is received in the end; the finished futures are polled in the order in   *)
(* which they woke, and senders waiting for room in the channel are served   *)
(* in order.  Writes and exclusive work end (their provider calls time out); *)
(* a download need not end before it is asked to stop.                      *)
AccountFairness ==
    /\ WF_accountVars(Scan) /\ SF_accountVars(Receive)
    /\ \A d \in Receipts : SF_accountVars(Settle(d))
    /\ \A t \in Tasks :
          /\ SF_accountVars(Send(t))
          /\ WF_accountVars((Kind[t] # "Sync" \/ t \in stop) /\ Finish(t))

AccountSpec     == AccountInit /\ [][AccountNext]_accountVars
AccountFairSpec == AccountSpec /\ AccountFairness

----------------------------------------------------------------------------
(* Properties. *)

AccountTypeOK ==
    /\ state \in [Tasks -> States]
    /\ held \in [Tasks -> [Accounts -> Tickets \cup {0}]]
    /\ stop \subseteq Tasks
    /\ channel \in Seq(Sent)
    /\ pending \in Seq(Waiting)
    /\ syncs \in [Accounts -> Sync]
    /\ mutations \in [Accounts -> Mutation]
    /\ done \subseteq Receipts
    /\ position \in Nat \ {0}
    /\ blocked \subseteq Accounts

(* Two callers never work in one account together, except a write beside a   *)
(* download: not even when an abandoned request and its successor are       *)
(* released in any order (the ticket comparison in the finished branch).    *)
Exclusion ==
    \A a \in Accounts : \A t, u \in Tasks :
        t # u /\ Holds(t, a) /\ Holds(u, a) => {Kind[t], Kind[u]} = {"Write", "Sync"}

(* Exclusive work never waits for a download that was not asked to stop:     *)
(* no download starts in front of it after the one it interrupted.          *)
ExclusiveIsHeard ==
    \A i \in DOMAIN pending :
        IsExclusive(pending[i]) => Interrupted(pending[i].account) \subseteq stop

(* Writes and exclusive work of one account are granted in the order in      *)
(* which the coordinator received them, whatever was abandoned meanwhile.    *)
GrantedInOrder ==
    [][\A i, j \in DOMAIN pending :
          LET first == pending[i]
              later == pending[j] IN
          /\ i < j
          /\ first.account = later.account
          /\ ~IsSync(first) /\ ~IsSync(later)
          => held'[later.task][later.account] # later.ticket]_accountVars

(* Every caller that goes on waiting is answered, those that hold one        *)
(* account while they wait for another included: no ring of transfers, no    *)
(* restore and no stream of downloads can hold it up for ever.              *)
EveryCallerIsAnswered ==
    \A t \in Tasks :
        state[t] \in {"sending", "waiting"} ~> state[t] \in {"working", "idle"}

----------------------------------------------------------------------------
(* The inductive invariant of AccountWorkProofs: which ticket may be where.  *)

HeldIsRecorded ==
    \A t \in Tasks, a \in Accounts :
        Holds(t, a) =>
            IF Kind[t] = "Sync"
            THEN syncs[a].ticket = held[t][a]
            ELSE /\ mutations[a].ticket = held[t][a]
                 /\ mutations[a].exclusive <=> Kind[t] = "Exclusive"

TicketsDiffer ==
    /\ \A i, j \in DOMAIN pending : i # j => pending[i].ticket # pending[j].ticket
    /\ \A t \in Tasks, a \in Accounts :
          /\ \A i \in DOMAIN pending : held[t][a] # pending[i].ticket
          /\ \A d \in done : held[t][a] # d.ticket
          /\ \A u \in Tasks, b \in Accounts :
                Holds(t, a) /\ held[u][b] = held[t][a] => t = u /\ a = b
    /\ \A i \in DOMAIN pending : \A d \in done :
          pending[i].open => pending[i].ticket # d.ticket

ExclusiveIsAlone == \A a \in Accounts : mutations[a].exclusive => syncs[a].ticket = 0

InterruptsArrive ==
    \A a \in Accounts :
        syncs[a].ticket # 0 /\ syncs[a].interrupted => Interrupted(a) \subseteq stop

IdleHoldsNothing ==
    \A t \in Tasks, a \in Accounts : state[t] = "idle" => ~Holds(t, a)

(* What the pass has left behind it keeps its place. *)
PassedAreBlocked ==
    \A i \in DOMAIN pending :
        i < position /\ ~IsSync(pending[i]) => pending[i].account \in blocked

(* A ticket is in one place at a time, and the maps, the queue and the        *)
(* receipts agree about it whichever of them a step touches.                *)
IInv ==
    /\ AccountTypeOK
    /\ HeldIsRecorded
    /\ TicketsDiffer
    /\ ExclusiveIsAlone
    /\ InterruptsArrive
    /\ ExclusiveIsHeard
    /\ IdleHoldsNothing
    /\ PassedAreBlocked
=============================================================================
