---------------------------- MODULE MCSessionLog ----------------------------
(* SessionLog for TLC: the writer of a session and a client that follows it, *)
(* with one disturbance.                                                     *)
EXTENDS SessionLog
=============================================================================
