-------------------------- MODULE MCBackupSchedule --------------------------
(* Instances of BackupSchedule for TLC. *)
EXTENDS BackupSchedule, TLC

CONSTANTS n1, n2, n3

NodeSymmetry == Permutations(Nodes)
=============================================================================
