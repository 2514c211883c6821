------------------------------- MODULE CatchUp -------------------------------
(***************************************************************************)
(* What a backup promises where the source may change while it is read: if *)
(* nothing disturbed it, the backup holds exactly what the source holds,   *)
(* whatever happened during earlier ones; and nothing but a backup changes *)
(* what is stored.                                                         *)
(***************************************************************************)
VARIABLES
  source,    \* what there is to back up
  mirror,    \* what the latest backup holds
  disturbed  \* the source has changed since the backup began, or there is none

Init == mirror = {} /\ disturbed = TRUE

Change ==
  /\ source' # source
  /\ disturbed' = TRUE
  /\ UNCHANGED mirror

(* A backup begins, fails, or is disturbed by what leaves the source as is.*)
Begin ==
  /\ disturbed' \in BOOLEAN
  /\ UNCHANGED <<source, mirror>>

Backup ==
  /\ ~disturbed => mirror' = source
  /\ disturbed' = TRUE
  /\ UNCHANGED source

Next == Change \/ Begin \/ Backup

Spec == Init /\ [][Next]_<<source, mirror, disturbed>>
=============================================================================
