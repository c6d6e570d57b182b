---------------------------- MODULE MCDevSessions ----------------------------
(***************************************************************************)
(* Instances of DevSessions for TLC.                                       *)
(***************************************************************************)
EXTENDS DevSessions
=============================================================================
