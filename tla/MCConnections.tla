---------------------------- MODULE MCConnections ----------------------------
(***************************************************************************)
(* One instance for what an account does with its servers: the journal of  *)
(* its deliveries (Outbox), the secrets it uses (Credentials) and the      *)
(* check of one folder beside the user's writes (FolderSync).  A behaviour *)
(* moves the part it chose at the start and leaves the others where they   *)
(* began.                                                                  *)
(***************************************************************************)
EXTENDS MCOutbox, Credentials, MCFolderSync

VARIABLE part

MCWanted == <<1, 2>>

(* The part that stays where it began needs one beginning. *)
PartsInit ==
    /\ part \in {"outbox", "credentials", "folder"}
    /\ Init /\ CredentialInit /\ CheckInit /\ entry.config = 1
    /\ part # "credentials" => ~entry.connected
    /\ part # "folder" => /\ speaks = "qresync" /\ lane = [u \in Uids |-> "inline"]
                          /\ saved = 0 /\ cached = {}
PartsNext ==
    \/ part = "outbox" /\ Next /\ UNCHANGED <<credentialVars, checkVars, part>>
    \/ part = "credentials" /\ CredentialNext /\ UNCHANGED <<vars, checkVars, part>>
    \/ part = "folder" /\ CheckNext /\ UNCHANGED <<vars, credentialVars, part>>
PartsSpec ==
    PartsInit /\ [][PartsNext]_<<vars, credentialVars, checkVars, part>>
=============================================================================
