------------------------------- MODULE Mirror -------------------------------
(***************************************************************************)
(* What an incremental backup promises: after each backup the repository   *)
(* holds exactly what the drive holds, as a full backup would, and between *)
(* backups it does not change.                                             *)
(***************************************************************************)
VARIABLES
  drive,  \* what the drive holds
  mirror  \* what the latest backup holds

Init == mirror = {}

Change ==
  /\ drive' # drive
  /\ UNCHANGED mirror

Backup ==
  /\ mirror' = drive
  /\ UNCHANGED drive

Next == Change \/ Backup

Spec == Init /\ [][Next]_<<drive, mirror>>
=============================================================================
