------------------------------ MODULE MCChatPane ------------------------------
(* Two actors, an old and a new session, two entries, one session request at a time. *)
EXTENDS ChatPane
=============================================================================
