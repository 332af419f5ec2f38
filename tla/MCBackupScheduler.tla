------------------------- MODULE MCBackupScheduler --------------------------
(***************************************************************************)
(* Instances of BackupScheduler for TLC.                                   *)
(***************************************************************************)
EXTENDS BackupScheduler, TLC

MCPolicy == [days |-> 1, sessions |-> 1]
MCCliPolicy == [days |-> 1, sessions |-> 0]
=============================================================================
