------------------------- MODULE MCConversationRuns -------------------------
(* A small instance of ConversationRuns: one request that is repeated at will, *)
(* one process exit and one deletion of its session.                          *)
EXTENDS ConversationRuns

CONSTANTS q1
=============================================================================
