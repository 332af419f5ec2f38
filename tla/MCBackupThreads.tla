-------------------------- MODULE MCBackupThreads ----------------------------
(***************************************************************************)
(* Instances of BackupThreads for TLC.                                     *)
(***************************************************************************)
EXTENDS BackupThreads, TLC

MCThreads == Permutations(Threads)
=============================================================================
