--------------------------- MODULE MCAgentRuntime ---------------------------
(* Small instances of AgentRuntime: two signatures of calls, one or two process  *)
(* exits.                                                                        *)
EXTENDS AgentRuntime

CONSTANTS a, b
=============================================================================
