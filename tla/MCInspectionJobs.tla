-------------------------- MODULE MCInspectionJobs --------------------------
(* A small instance of InspectionJobs: two worker incarnations, two events, *)
(* one manual request and two attempts.                                     *)
EXTENDS InspectionJobs

CONSTANTS w1, w2, p1, q1

MCShapes == {[action |-> "ingestion_job_completed", project |-> p1, relevant |-> TRUE],
             [action |-> "work_item_updated", project |-> p1, relevant |-> FALSE]}
=============================================================================
