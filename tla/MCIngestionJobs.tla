-------------------------- MODULE MCIngestionJobs --------------------------
(* A small instance of IngestionJobs: two uploads out of a long transcript   *)
(* of two chunks, a short document and a workbook, one item or row each, two *)
(* retries at a time, one process exit.                                      *)
EXTENDS IngestionJobs

CONSTANTS s1, s2, s3, c1, c2
=============================================================================
