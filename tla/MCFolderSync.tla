---------------------------- MODULE MCFolderSync ----------------------------
(* Instances of FolderSync for TLC. *)
EXTENDS FolderSync

OneFlagOrNone == {{}, {"unread"}}
NoFlag == {{}}
=============================================================================
