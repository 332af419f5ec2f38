------------------------ MODULE MCDashboardRefresh ---------------------------
(***************************************************************************)
(* Instances of DashboardRefresh for TLC.                                  *)
(***************************************************************************)
EXTENDS DashboardRefresh, TLC
=============================================================================
