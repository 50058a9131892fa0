---------------------------- MODULE MCEventSender ----------------------------
(* EventSender for TLC. *)
EXTENDS EventSender
=============================================================================
