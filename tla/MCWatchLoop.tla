---------------------------- MODULE MCWatchLoop ------------------------------
(***************************************************************************)
(* Instances of WatchLoop for TLC.                                         *)
(***************************************************************************)
EXTENDS WatchLoop, TLC
=============================================================================
