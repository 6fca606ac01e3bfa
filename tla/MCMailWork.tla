------------------------------ MODULE MCMailWork ------------------------------
(***************************************************************************)
(* One instance for three modules: what a mail action does (BulkWork), the *)
(* loop that decides when it runs (ActionOwner), and the preferences that  *)
(* devices share (ProfileSync).  A behaviour moves the part it chose at    *)
(* the start and leaves the others where they began, where nothing that is *)
(* fair is enabled.                                                        *)
(***************************************************************************)
EXTENDS BulkWork, MCActionOwner, ProfileSync

VARIABLE part

AccountOf == [m \in Messages |-> m]
DecisionSets ==
    {[f \in {"location"} |-> TRUE],
     [f \in {"unread"} |-> FALSE],
     [f \in {"unread", "starred"} |-> f = "starred"]}

PartsInit ==
    part \in {"bulk", "owner", "profile"} /\ Init /\ OwnerInit /\ ProfileInit
PartsNext ==
    \/ part = "bulk" /\ Next /\ UNCHANGED <<ownerVars, profileVars, part>>
    \/ part = "owner" /\ OwnerNext /\ UNCHANGED <<vars, profileVars, part>>
    \/ part = "profile" /\ ProfileNext /\ UNCHANGED <<vars, ownerVars, part>>
PartsSpec ==
    /\ PartsInit /\ [][PartsNext]_<<vars, ownerVars, profileVars, part>>
    /\ Fairness /\ OwnerFairness

=============================================================================
