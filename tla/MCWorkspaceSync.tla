--------------------------- MODULE MCWorkspaceSync ---------------------------
(* Two actors, one of whom may review; an actor is left and entered again. *)
EXTENDS WorkspaceSync
=============================================================================
