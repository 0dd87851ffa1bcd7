---------------------------- MODULE MCStreamClient ----------------------------
(* One call with up to four attempts on a run of up to five events. *)
EXTENDS StreamClient
=============================================================================
