----------------------------- MODULE MCBackupDb -----------------------------
(***************************************************************************)
(* Instances of BackupDb for TLC.                                          *)
(***************************************************************************)
EXTENDS BackupDb, TLC

MCPolicies == [days: {0, 1}, sessions: 0..2]
MCSessionPolicies == {[days |-> 0, sessions |-> 1]}
=============================================================================
