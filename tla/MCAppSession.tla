---------------------------- MODULE MCAppSession -----------------------------
(* Instance of AppSession for TLC. *)
EXTENDS AppSession, TLC
=============================================================================
