---------------------------- MODULE MCSyncSchedule ----------------------------
(* Small instances of SyncSchedule for TLC.                                    *)
EXTENDS SyncSchedule
CONSTANTS a, b
=============================================================================
