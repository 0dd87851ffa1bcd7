---------------------------- MODULE IngestionJobs ----------------------------
(***************************************************************************)
(* The ingestion queue: an uploaded source becomes a row of ingestion_jobs *)
(* that the worker thread claims.  A transcript or a document is cut into  *)
(* chunks, mapped chunk by chunk, and the items extracted from it are      *)
(* consolidated into the project's memory; the rows of a workbook are      *)
(* imported as they stand, without any chunk.                              *)
(*                                                                         *)
(*   store/sqlite_store.py          the ingestion_jobs and _chunks tables  *)
(*   agent/ingestion_worker.py      IngestionWorker                        *)
(*   agent/source_ingestion.py      SourceIngestionService                 *)
(*   agent/meeting_ingestion.py     MeetingIngestionService                *)
(*   agent/structured_ingestion.py  StructuredIngestionService             *)
(*   skills/meeting_minutes/runner.py   the chunk loop                     *)
(*                                                                         *)
(* One SQLite transaction is one step.  The retry endpoint runs in server  *)
(* threads beside the worker.  Rows are kept in the order of created_at,   *)
(* which is the order they are claimed in.                                 *)
(***************************************************************************)
EXTENDS Integers, Sequences, FiniteSets, FiniteSetsExt

CONSTANTS Sources,     \* (source, content, processor version) triples
          Long,        \* those that are transcripts long enough to be mapped
          Workbooks,   \* those that are structured workbooks
          NumChunks,   \* chunks of a long transcript
          NumItems,    \* items extracted from a source, rows of a workbook
          MaxAttempts, \* max_attempts of a row
          Clients,     \* server threads that serve a retry
          NoJob,
          MaxJobs,     \* bound: uploaded sources
          MaxCrashes   \* bound: process exits

ASSUME IngestionConstants ==
    /\ Long \subseteq Sources /\ Workbooks \subseteq Sources
    /\ Long \cap Workbooks = {}
    /\ NumChunks \in Nat \ {0}
    /\ NumItems \in Nat
    /\ MaxAttempts \in Nat \ {0}
    /\ NoJob \notin Nat
    /\ MaxJobs \in Nat /\ MaxCrashes \in Nat

VARIABLES jobs,     \* rows of ingestion_jobs, with their chunks
          pc,       \* where the worker thread is
          job,      \* the job it claimed
          left,     \* chunks it still has to map
          items,    \* items it still has to consolidate, rows to import
          retry,    \* the retry each client has checked and not written
          crashes

worker == <<pc, job, left, items>>
vars   == <<jobs, pc, job, left, items, retry, crashes>>

Settled == {"completed", "failed", "archived"}

\* filed: how often each item was consolidated or row imported.  announced: the events of kind
\* ingestion_job_completed, which the inspection queue is fed from.
NewRow(s) == [source |-> s, status |-> "queued", attempts |-> 0, error |-> "none",
              chunks |-> << >>, filed |-> [i \in 1 .. NumItems |-> 0], announced |-> 0]

Cut(s) == [c \in 1 .. (IF s \in Long THEN NumChunks ELSE 1) |-> "queued"]

Init == /\ jobs = << >>
        /\ pc = "down"
        /\ job = NoJob
        /\ left = {}
        /\ items = {}
        /\ retry = [c \in Clients |-> NoJob]
        /\ crashes = 0

-----------------------------------------------------------------------------
\* The rest of the program.

Known(s) == \E i \in DOMAIN jobs : jobs[i].source = s

\* enqueue_ingestion_job: insert or ignore.
Enqueue(s) == /\ Known(s) \/ Len(jobs) < MaxJobs
              /\ jobs' = IF Known(s) THEN jobs ELSE Append(jobs, NewRow(s))
              /\ UNCHANGED <<worker, retry, crashes>>

\* archive_project_workspace, whatever the jobs are doing.
Archive == /\ \E i \in DOMAIN jobs : jobs[i].status # "archived"
           /\ jobs' = [i \in DOMAIN jobs |-> [jobs[i] EXCEPT !.status = "archived"]]
           /\ UNCHANGED <<worker, retry, crashes>>

\* retry_ingestion_job reads the row ...
RetryCheck(c, i) ==
    /\ retry[c] = NoJob
    /\ jobs[i].status = "failed" /\ jobs[i].attempts < MaxAttempts
    /\ retry' = [retry EXCEPT ![c] = i]
    /\ UNCHANGED <<jobs, worker, crashes>>

\* ... and writes it in another transaction.
RetryWrite(c) ==
    /\ retry[c] # NoJob
    /\ jobs' = [jobs EXCEPT ![retry[c]].status = "queued", ![retry[c]].error = "none"]
    /\ retry' = [retry EXCEPT ![c] = NoJob]
    /\ UNCHANGED <<worker, crashes>>

-----------------------------------------------------------------------------
\* The worker thread.

Goto(from, to) == pc = from /\ pc' = to

\* Mutant: failed rows are put back as well.
StartAll ==
    /\ Goto("down", "poll")
    /\ jobs' = [i \in DOMAIN jobs |->
                   IF jobs[i].status \in {"running", "failed"}
                   THEN [jobs[i] EXCEPT !.status = "queued", !.error = "restarted"]
                   ELSE jobs[i]]
    /\ UNCHANGED <<job, left, items, retry, crashes>>

\* start: every row that says running is put back, with the attempt spent.
Start ==
    /\ Goto("down", "poll")
    /\ jobs' = [i \in DOMAIN jobs |->
                   IF jobs[i].status = "running"
                   THEN [jobs[i] EXCEPT !.status = "queued", !.error = "restarted"]
                   ELSE jobs[i]]
    /\ UNCHANGED <<job, left, items, retry, crashes>>

\* The process dies, with the retries it was serving.
Crash ==
    /\ pc # "down" /\ crashes < MaxCrashes
    /\ pc' = "down" /\ job' = NoJob /\ left' = {} /\ items' = {}
    /\ retry' = [c \in Clients |-> NoJob]
    /\ crashes' = crashes + 1
    /\ UNCHANGED jobs

Claimable == {i \in DOMAIN jobs : jobs[i].status = "queued" /\ jobs[i].attempts < MaxAttempts}

Claim ==
    /\ Goto("poll", "open")
    /\ Claimable # {}
    /\ job' = Min(Claimable)
    /\ jobs' = [jobs EXCEPT ![job'].status = "running", ![job'].error = "none",
                            ![job'].attempts = @ + 1]
    /\ UNCHANGED <<left, items, retry, crashes>>

Done(row) == {c \in DOMAIN row.chunks : row.chunks[c] = "completed"}

\* Mutant: an earlier attempt's chunks are always cut again.
OpenAfresh ==
    LET row == jobs[job] IN
    /\ pc = "open" /\ row.source \notin Workbooks
    /\ row.status = "running"
    /\ pc' = "map"
    /\ jobs' = [jobs EXCEPT ![job].chunks = Cut(row.source)]
    /\ left' = DOMAIN Cut(row.source)
    /\ UNCHANGED <<job, items, retry, crashes>>

\* process_job of what is not a workbook: the row must still be running.  The
\* chunks are cut once; those of a long transcript that an earlier attempt
\* completed are resumed.
Open ==
    LET row == jobs[job] IN
    /\ pc = "open" /\ row.source \notin Workbooks
    /\ row.status = "running"
    /\ pc' = "map"
    /\ jobs' = IF row.chunks = << >> THEN [jobs EXCEPT ![job].chunks = Cut(row.source)]
               ELSE jobs
    /\ left' = DOMAIN Cut(row.source) \ IF row.source \in Long THEN Done(row) ELSE {}
    /\ UNCHANGED <<job, items, retry, crashes>>

\* process_job of a workbook: its rows are read and all of them imported, in
\* every attempt from the first.
OpenWorkbook ==
    /\ Goto("open", "file")
    /\ jobs[job].source \in Workbooks
    /\ jobs[job].status = "running"
    /\ items' = 1 .. NumItems
    /\ left' = {}
    /\ UNCHANGED <<jobs, job, retry, crashes>>

OpenRefused == /\ pc = "open" /\ jobs[job].status # "running"
               /\ pc' = "fail"
               /\ UNCHANGED <<jobs, job, left, items, retry, crashes>>

StartChunk ==
    /\ Goto("map", "mapping")
    /\ jobs[job].source \in Long /\ left # {}
    /\ jobs' = [jobs EXCEPT ![job].chunks[Min(left)] = "running"]
    /\ UNCHANGED <<job, left, items, retry, crashes>>

\* The chunk of a short transcript or of uploaded minutes is completed without
\* having been started.
FinishChunk ==
    /\ left # {}
    /\ Goto(IF jobs[job].source \in Long THEN "mapping" ELSE "map", "map")
    /\ jobs' = [jobs EXCEPT ![job].chunks[Min(left)] = "completed"]
    /\ left' = left \ {Min(left)}
    /\ UNCHANGED <<job, items, retry, crashes>>

\* Mutant: items are extracted before the last chunk is mapped.
ExtractEarly ==
    /\ Goto("map", "file")
    /\ items' = 1 .. NumItems
    /\ left' = {}
    /\ UNCHANGED <<jobs, job, retry, crashes>>

\* The minutes are written, the source saved, the items extracted from them.
Extract ==
    /\ left = {}
    /\ Goto("map", "file")
    /\ items' = 1 .. NumItems
    /\ UNCHANGED <<jobs, job, left, retry, crashes>>

\* _consolidate_item, or the import of a row; what becomes of the item in its
\* thread, or of the work items of the row, is not modelled.
Consolidate ==
    /\ pc = "file" /\ items # {}
    /\ jobs' = [jobs EXCEPT ![job].filed[Min(items)] = @ + 1]
    /\ items' = items \ {Min(items)}
    /\ UNCHANGED <<pc, job, left, retry, crashes>>

\* complete_ingestion_job updates the row, whatever its status is by now ...
Complete ==
    /\ items = {}
    /\ Goto("file", "announce")
    /\ jobs' = [jobs EXCEPT ![job].status = "completed", ![job].error = "none"]
    /\ UNCHANGED <<job, left, items, retry, crashes>>

\* ... and appends the event in another transaction.
Announce ==
    /\ Goto("announce", "poll")
    /\ jobs' = [jobs EXCEPT ![job].announced = @ + 1]
    /\ job' = NoJob
    /\ UNCHANGED <<left, items, retry, crashes>>

\* The input, the model, a chunk that does not match, an item or a row raises.
Raise == /\ pc \in {"open", "map", "mapping", "file"}
         /\ pc' = "fail"
         /\ UNCHANGED <<jobs, job, left, items, retry, crashes>>

\* Mutant: the failure is not recorded.
FailUnrecorded ==
    /\ Goto("fail", "poll")
    /\ job' = NoJob /\ left' = {} /\ items' = {}
    /\ UNCHANGED <<jobs, retry, crashes>>

\* fail_ingestion_job, whatever the row's status is by now.
Fail ==
    /\ Goto("fail", "poll")
    /\ jobs' = [jobs EXCEPT ![job].status = "failed", ![job].error = "run failed"]
    /\ job' = NoJob /\ left' = {} /\ items' = {}
    /\ UNCHANGED <<retry, crashes>>

Work == \/ Claim \/ Open \/ OpenWorkbook \/ OpenRefused \/ StartChunk \/ FinishChunk \/ Extract
        \/ Consolidate \/ Complete \/ Announce \/ Raise \/ Fail

Next == \/ Work \/ Start \/ Crash \/ Archive
        \/ \E s \in Sources : Enqueue(s)
        \/ \E c \in Clients : RetryWrite(c) \/ \E i \in DOMAIN jobs : RetryCheck(c, i)

Spec == Init /\ [][Next]_vars

\* The worker thread works on; nobody promises that it is started again.
FairSpec == Spec /\ WF_vars(Work)

-----------------------------------------------------------------------------
\* Properties.

\* Every variable keeps its form and stays within its bounds.
TypeOK ==
    /\ jobs \in Seq([source    : Sources,
                     status    : {"queued", "running"} \cup Settled,
                     attempts  : 0 .. MaxAttempts,
                     error     : {"none", "restarted", "run failed"},
                     chunks    : Seq({"queued", "running", "completed"}),
                     filed     : [1 .. NumItems -> Nat],
                     announced : Nat])
    /\ pc \in {"down", "poll", "open", "map", "mapping", "file", "announce", "fail"}
    /\ job \in (DOMAIN jobs) \cup {NoJob}
    /\ left \subseteq 1 .. NumChunks
    /\ items \subseteq 1 .. NumItems
    /\ retry \in [Clients -> (DOMAIN jobs) \cup {NoJob}]
    /\ crashes \in 0 .. MaxCrashes

Checked(i) == \E c \in Clients : retry[c] = i

\* A chunk of a long transcript that was mapped once is never mapped again, over
\* failures, retries, restarts and repeated uploads.
MappedChunksStay ==
    [][\A i \in DOMAIN jobs : jobs[i].source \in Long =>
          \A c \in Done(jobs[i]) :
             c \in DOMAIN jobs'[i].chunks /\ jobs'[i].chunks[c] = "completed"]_vars

\* A completed job is complete: every chunk mapped and every item consolidated, or
\* for a workbook, which never has a chunk, every row imported.  Consolidation and
\* import are not resumed but repeated, at most once per attempt.  The event
\* that asks for an inspection is missing only if the process died between the two
\* transactions of complete_ingestion_job.
CompletedIsComplete ==
    /\ TypeOK
    /\ \A i \in DOMAIN jobs, k \in 1 .. NumItems : jobs[i].filed[k] <= jobs[i].attempts
    /\ \A i \in DOMAIN jobs : jobs[i].status = "completed" =>
          /\ jobs[i].chunks = << >> <=> jobs[i].source \in Workbooks
          /\ Done(jobs[i]) = DOMAIN jobs[i].chunks
          /\ \A k \in 1 .. NumItems : jobs[i].filed[k] > 0
          /\ jobs[i].announced > 0 \/ (pc = "announce" /\ job = i) \/ crashes > 0

\* A settled job changes its status for one of four reasons: a retry of a failed
\* one, the archive, the worker that was at work on it when it was archived or
\* retried, or a retry whose check is out of date.  And a job whose attempts are
\* used up is left in the queue, where it is neither claimed nor may be retried,
\* only by a restart or by such a retry.
Reopened(i) == jobs[i].status \in Settled /\ jobs'[i].status # jobs[i].status
Stranded(i) == /\ jobs'[i].status = "queued" /\ jobs'[i].attempts >= MaxAttempts
               /\ i \in DOMAIN jobs => jobs[i].status # "queued"
SettledJobsStay ==
    [][/\ \A i \in DOMAIN jobs : Reopened(i) =>
             \/ jobs'[i].status = "archived"
             \/ jobs'[i].status = "queued" /\ Checked(i)
             \/ jobs'[i].status \in {"completed", "failed"} /\ job = i
       /\ \A i \in DOMAIN jobs' : Stranded(i) =>
             jobs'[i].error = "restarted" \/ Checked(i)]_vars

\* A job that may be claimed is settled in the end, or left in the queue with its
\* attempts used up, if the worker stays up.
JobsSettle ==
    <>[](pc # "down") =>
        \A s \in Sources :
            (\E i \in Claimable : jobs[i].source = s)
            ~> (\E i \in DOMAIN jobs :
                   /\ jobs[i].source = s
                   /\ \/ jobs[i].status \in Settled
                      \/ jobs[i].status = "queued" /\ jobs[i].attempts >= MaxAttempts)
=============================================================================
