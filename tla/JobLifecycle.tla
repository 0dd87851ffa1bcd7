---------------------------- MODULE JobLifecycle ----------------------------
(***************************************************************************)
(* What a durable job queue of this system promises, whatever table keeps  *)
(* it: at most one job per idempotency key; a job is leased to a run, runs *)
(* at most MaxAttempts times, and once it is completed or failed it stays  *)
(* so.  A run can be lost (its process died, its lease ran out), which     *)
(* puts the job back in the queue with the attempt spent.                  *)
(*                                                                         *)
(* InspectionJobs implements this specification when one worker polls the  *)
(* queue (theorem ImplementsLifecycle of InspectionJobs_proofs).           *)
(***************************************************************************)
EXTENDS Integers

CONSTANTS Keys,         \* idempotency keys a job may be submitted under
          MaxAttempts   \* runs a job may be given

VARIABLES status,       \* [Keys -> Statuses]
          attempts      \* [Keys -> 0 .. MaxAttempts]

lvars == <<status, attempts>>

Statuses == {"absent", "queued", "running", "completed", "failed"}
Settled  == {"completed", "failed"}

LInit == /\ status = [k \in Keys |-> "absent"]
         /\ attempts = [k \in Keys |-> 0]

\* A key is submitted for the first time.
Submit(k) == /\ status[k] = "absent"
             /\ status' = [status EXCEPT ![k] = "queued"]
             /\ UNCHANGED attempts

\* The runs of the keys in Lost are given up, their jobs are queued again.
Requeue(Lost) ==
    /\ \A l \in Lost : status[l] = "running"
    /\ status' = [l \in Keys |-> IF l \in Lost THEN "queued" ELSE status[l]]
    /\ UNCHANGED attempts

\* The same, and the queued job of k gets a run.
Lease(Lost, k) ==
    /\ \A l \in Lost : status[l] = "running"
    /\ status[k] = "queued" \/ k \in Lost
    /\ attempts[k] < MaxAttempts
    /\ status' = [l \in Keys |-> IF l = k THEN "running"
                                 ELSE IF l \in Lost THEN "queued" ELSE status[l]]
    /\ attempts' = [attempts EXCEPT ![k] = @ + 1]

\* The run of k succeeded.
Finish(k) == /\ status[k] = "running"
             /\ status' = [status EXCEPT ![k] = "completed"]
             /\ UNCHANGED attempts

\* The run of k failed: the last attempt settles the job.
GiveUp(k) ==
    /\ status[k] = "running"
    /\ status' = [status EXCEPT ![k] =
                     IF attempts[k] >= MaxAttempts THEN "failed" ELSE "queued"]
    /\ UNCHANGED attempts

LNext == \/ \E k \in Keys : Submit(k) \/ Finish(k) \/ GiveUp(k)
         \/ \E Lost \in SUBSET Keys : Requeue(Lost) \/ \E k \in Keys : Lease(Lost, k)

LSpec == LInit /\ [][LNext]_lvars
=============================================================================
