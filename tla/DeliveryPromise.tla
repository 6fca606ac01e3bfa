--------------------------- MODULE DeliveryPromise ---------------------------
(***************************************************************************)
(* What the Outbox promises about one draft, with no journal, lock or      *)
(* crash in sight: a message waits, is offered to the mail server once,    *)
(* and is offered again only after the server refused it or after a person *)
(* reviewed an answer nobody knows.                                        *)
(***************************************************************************)
EXTENDS Naturals

CONSTANT Drafts

VARIABLES
    phase,    \* what the person sees of each draft
    mailed    \* the drafts whose current offer the mail server took

promise == <<phase, mailed>>

Phases == {"editing", "waiting", "offered", "sent"}

TypeOK ==
    /\ phase \in [Drafts -> Phases]
    /\ mailed \subseteq Drafts

Init ==
    /\ phase = [d \in Drafts |-> "editing"]
    /\ mailed = {}

Become(d, p) == phase' = [phase EXCEPT ![d] = p]

Send(d) == phase[d] = "editing" /\ Become(d, "waiting") /\ UNCHANGED mailed

Withdraw(d) == phase[d] = "waiting" /\ Become(d, "editing") /\ UNCHANGED mailed

Offer(d) == phase[d] = "waiting" /\ Become(d, "offered") /\ UNCHANGED mailed

Take(d) ==
    /\ phase[d] = "offered" /\ d \notin mailed
    /\ mailed' = mailed \cup {d}
    /\ UNCHANGED phase

Refuse(d) ==
    /\ phase[d] = "offered" /\ d \notin mailed
    /\ Become(d, "editing")
    /\ UNCHANGED mailed

Confirm(d) ==
    /\ phase[d] = "offered" /\ d \in mailed
    /\ Become(d, "sent")
    /\ UNCHANGED mailed

(* The person decides what an unknown answer meant. *)
Review(d) ==
    /\ phase[d] = "offered"
    /\ \/ Become(d, "sent") /\ UNCHANGED mailed
       \/ Become(d, "editing") /\ mailed' = mailed \ {d}

(* Removing the account forgets everything it was sending. *)
Forget == phase' = [d \in Drafts |-> "editing"] /\ mailed' = {}

Next ==
    \/ \E d \in Drafts : Send(d) \/ Withdraw(d) \/ Offer(d) \/ Take(d)
                         \/ Refuse(d) \/ Confirm(d) \/ Review(d)
    \/ Forget

Spec == Init /\ [][Next]_promise
=============================================================================
