---------------------------- MODULE MCBackupRepo ----------------------------
EXTENDS BackupRepo, TLC

(* Reasons, and backups that start from nothing, are interchangeable.      *)
Symmetry == Permutations(Backups \ Legacy) \cup Permutations(Reasons)
=============================================================================
