--------------------------- MODULE InspectionJobs ---------------------------
(***************************************************************************)
(* The inspection queue: project events and API calls become rows of       *)
(* inspection_jobs, and InspectionWorker threads (one per process, each    *)
(* with its own worker_id) dispatch the event log, lease a row and run it. *)
(*                                                                         *)
(*   agent/inspection_jobs.py         InspectionDispatcher, InspectionWorker *)
(*   store/inspection_repository.py   InspectionJobRepository              *)
(*                                                                         *)
(* Every statement that runs in one SQLite transaction is one step; two    *)
(* transactions of one call are two steps, and a worker may crash between  *)
(* them.  Rows are kept in the order they were inserted, which is the      *)
(* order claim_next takes them in.                                         *)
(***************************************************************************)
EXTENDS Integers, Sequences, FiniteSets

CONSTANTS Workers,      \* worker incarnations polling this store
          Projects,     \* project ids that events and API calls may name
          NoProject,    \* a payload without a project id
          NoWorker,     \* an empty lease_owner
          EventShapes,  \* the events the rest of the program may append
          Requests,     \* request ids of manual inspections, dates of the cron
          MaxAttempts,  \* max_attempts of a row
          BatchLimit,   \* events fetched by one dispatch
          MaxEvents,    \* bound: length of the event log
          MaxInputs     \* bound: events and requested rows together

EventActions == {"ingestion_job_completed", "work_item_updated",
                 "deliverable_updated", "other"}

\* relevant: a completed ingestion names its source, the updated work item is
\* done, the updated deliverable is still there.
AllEvents == [action   : EventActions,
              project  : Projects \cup {NoProject},
              relevant : BOOLEAN]

ASSUME ConstantsAssumption ==
    /\ MaxAttempts \in Nat \ {0}
    /\ BatchLimit \in Nat \ {0}
    /\ MaxEvents \in Nat
    /\ EventShapes \subseteq AllEvents
    /\ NoProject \notin Projects
    /\ NoWorker \notin Workers

VARIABLES projects,   \* rows of the projects table
          events,     \* the append-only event log; the index is the rowid
          cursor,     \* inspection_dispatch_state['project_events']
          jobs,       \* rows of inspection_jobs
          pc,         \* where each worker is in process_once
          next,       \* rowid of the next event of the fetched batch
          last,       \* rowid of the last event of the fetched batch
          job,        \* the row the worker claimed, 0 for none
          attempt,    \* its attempts column as claimed: names the run
          terminal    \* what fail() concluded from the row it read

table == <<projects, events, cursor, jobs>>
local == <<pc, next, last, job, attempt, terminal>>
vars  == <<projects, events, cursor, jobs, pc, next, last, job, attempt, terminal>>

EventKey(r)      == <<"event", r>>
RequestKey(p, q) == <<"request", p, q>>

Keys == {EventKey(r) : r \in 1 .. MaxEvents}
          \cup {RequestKey(p, q) : p \in Projects, q \in Requests}

JobRows == [key      : Keys,
            status   : {"queued", "running", "completed", "failed"},
            attempts : 0 .. MaxAttempts,
            owner    : Workers \cup {NoWorker},
            lease    : {"none", "live", "expired"},
            error    : {"none", "lease expired", "run failed"},
            result   : 0 .. MaxAttempts]     \* the run whose report is stored

NewRow(k) == [key |-> k, status |-> "queued", attempts |-> 0, owner |-> NoWorker,
              lease |-> "none", error |-> "none", result |-> 0]

-----------------------------------------------------------------------------
\* InspectionJobRepository.

HasKey(js, k) == \E i \in DOMAIN js : js[i].key = k

\* Mutant: enqueue without the idempotency lookup.
EnqueuedAgain(js, k) == Append(js, NewRow(k))

\* The table after enqueue(idempotency_key = k).
Enqueued(js, k) == IF HasKey(js, k) THEN js ELSE Append(js, NewRow(k))

\* Mutants: expired leases are never taken back, or give the attempt back too.
NothingRecovered(js) == js

RecoveredRefunded(js) ==
    [i \in DOMAIN js |->
        IF js[i].status = "running" /\ js[i].lease = "expired"
        THEN [js[i] EXCEPT !.status = "queued", !.attempts = @ - 1, !.owner = NoWorker,
                           !.lease = "none", !.error = "lease expired"]
        ELSE js[i]]

\* The table after claim_next has taken back every expired lease.
Recovered(js) ==
    [i \in DOMAIN js |->
        IF js[i].status = "running" /\ js[i].lease = "expired"
        THEN [js[i] EXCEPT !.status = "queued", !.owner = NoWorker,
                           !.lease = "none", !.error = "lease expired"]
        ELSE js[i]]

\* Mutant: settled rows are not left out.
ClaimableSettled(js) ==
    {i \in DOMAIN js : js[i].status # "running" /\ js[i].attempts < MaxAttempts}

Claimable(js) ==
    {i \in DOMAIN js : js[i].status = "queued" /\ js[i].attempts < MaxAttempts}

\* Mutant: the claim does not count the attempt.
LeasedUncounted(row, w) == [row EXCEPT !.status = "running", !.owner = w,
                                       !.lease = "live", !.error = "none"]

Leased(row, w) == [row EXCEPT !.status = "running", !.attempts = @ + 1,
                              !.owner = w, !.lease = "live", !.error = "none"]

Completed(row, run) == [row EXCEPT !.status = "completed", !.result = run,
                                   !.error = "none", !.owner = NoWorker,
                                   !.lease = "none"]

Failed(row, final) ==
    [row EXCEPT !.status = IF final THEN "failed" ELSE "queued",
                !.error = "run failed", !.owner = NoWorker, !.lease = "none"]

-----------------------------------------------------------------------------
\* The rest of the program: the project table, the event log, the API and cron.

Init == /\ projects = {}
        /\ events = << >>
        /\ cursor = 0
        /\ jobs = << >>
        /\ pc = [w \in Workers |-> "down"]
        /\ next = [w \in Workers |-> 1]
        /\ last = [w \in Workers |-> 0]
        /\ job = [w \in Workers |-> 0]
        /\ attempt = [w \in Workers |-> 0]
        /\ terminal = [w \in Workers |-> FALSE]

UpsertProject(p) == /\ p \notin projects
                    /\ projects' = projects \cup {p}
                    /\ UNCHANGED <<events, cursor, jobs, local>>

\* Bounded by MaxInputs.
Inputs == Len(events) + Cardinality({i \in DOMAIN jobs : jobs[i].key[1] = "request"})

AppendEvent(e) == /\ Len(events) < MaxEvents
                  /\ Inputs < MaxInputs
                  /\ events' = Append(events, e)
                  /\ UNCHANGED <<projects, cursor, jobs, local>>

\* enqueue_manual (the API, the agent's tool) and enqueue_scheduled (the cron):
\* an unknown project raises; a repeated request id or date is answered with the
\* row it already has.
EnqueueRequest(p, q) == /\ p \in projects
                        /\ Inputs < MaxInputs \/ HasKey(jobs, RequestKey(p, q))
                        /\ jobs' = Enqueued(jobs, RequestKey(p, q))
                        /\ UNCHANGED <<projects, events, cursor, local>>

LeaseExpires(i) == /\ jobs[i].status = "running"
                   /\ jobs[i].lease = "live"
                   /\ jobs' = [jobs EXCEPT ![i].lease = "expired"]
                   /\ UNCHANGED <<projects, events, cursor, local>>

-----------------------------------------------------------------------------
\* The worker.

Goto(w, from, to) == pc[w] = from /\ pc' = [pc EXCEPT ![w] = to]

\* dispatch_new_events returns or raises: its batch goes out of scope.
DropBatch(w) == /\ next' = [next EXCEPT ![w] = 1]
                /\ last' = [last EXCEPT ![w] = 0]

\* process_once returns: the claimed row goes out of scope.
DropJob(w) == /\ job' = [job EXCEPT ![w] = 0]
              /\ attempt' = [attempt EXCEPT ![w] = 0]
              /\ terminal' = [terminal EXCEPT ![w] = FALSE]

Start(w) == /\ Goto(w, "down", "poll")
            /\ UNCHANGED <<table, next, last, job, attempt, terminal>>

\* The process dies: what its thread held in memory is gone, its lease is not.
Crash(w) == /\ pc[w] # "down"
            /\ pc' = [pc EXCEPT ![w] = "down"]
            /\ DropBatch(w)
            /\ DropJob(w)
            /\ UNCHANGED table

\* dispatch_new_events reads the cursor and then the events after it.  Only a
\* worker moves the cursor and events are only appended, so that reading both at
\* once loses no more than a batch that starts earlier, which an older read gives.
Fetch(w) ==
    /\ Goto(w, "poll", "dispatch")
    /\ next' = [next EXCEPT ![w] = cursor + 1]
    /\ last' = [last EXCEPT ![w] = IF cursor + BatchLimit < Len(events)
                                   THEN cursor + BatchLimit ELSE Len(events)]
    /\ UNCHANGED <<table, job, attempt, terminal>>

\* _job_for_event: the event asks for an inspection of its project.
Wanted(e) == e.action # "other" /\ e.relevant /\ e.project # NoProject

EnqueueForEvent(w) ==
    /\ next[w] <= last[w]
    /\ Wanted(events[next[w]])
    /\ events[next[w]].project \in projects
    /\ Goto(w, "dispatch", "advance")
    /\ jobs' = Enqueued(jobs, EventKey(next[w]))
    /\ UNCHANGED <<projects, events, cursor, next, last, job, attempt, terminal>>

IgnoreEvent(w) ==
    /\ next[w] <= last[w]
    /\ ~Wanted(events[next[w]])
    /\ Goto(w, "dispatch", "advance")
    /\ UNCHANGED <<table, next, last, job, attempt, terminal>>

\* Mutant: the exception is swallowed per event and the cursor moves on.
DispatchShrugs(w) ==
    /\ next[w] <= last[w]
    /\ Wanted(events[next[w]])
    /\ events[next[w]].project \notin projects
    /\ Goto(w, "dispatch", "advance")
    /\ UNCHANGED <<table, next, last, job, attempt, terminal>>

\* _project raises KeyError: process_once answers dispatch_failed, claims nothing.
DispatchFails(w) ==
    /\ next[w] <= last[w]
    /\ Wanted(events[next[w]])
    /\ events[next[w]].project \notin projects
    /\ Goto(w, "dispatch", "poll")
    /\ DropBatch(w)
    /\ UNCHANGED <<table, job, attempt, terminal>>

\* set_dispatch_cursor, a transaction after the enqueue's.
AdvanceCursor(w) ==
    /\ Goto(w, "advance", "dispatch")
    /\ cursor' = next[w]
    /\ next' = [next EXCEPT ![w] = @ + 1]
    /\ UNCHANGED <<projects, events, jobs, last, job, attempt, terminal>>

ClaimNone(w) ==
    /\ next[w] > last[w]
    /\ Claimable(Recovered(jobs)) = {}
    /\ Goto(w, "dispatch", "poll")
    /\ jobs' = Recovered(jobs)
    /\ DropBatch(w)
    /\ UNCHANGED <<projects, events, cursor, job, attempt, terminal>>

Claim(w) ==
    /\ next[w] > last[w]
    /\ \E i \in Claimable(Recovered(jobs)) :
          /\ \A k \in Claimable(Recovered(jobs)) : i <= k
          /\ jobs' = [Recovered(jobs) EXCEPT ![i] = Leased(@, w)]
          /\ job' = [job EXCEPT ![w] = i]
          /\ attempt' = [attempt EXCEPT ![w] = jobs[i].attempts + 1]
    /\ Goto(w, "dispatch", "run")
    /\ DropBatch(w)
    /\ UNCHANGED <<projects, events, cursor, terminal>>

\* The inspection run completed: complete() writes its report, whoever holds
\* the row by now.
Complete(w) ==
    /\ Goto(w, "run", "poll")
    /\ jobs' = [jobs EXCEPT ![job[w]] = Completed(@, attempt[w])]
    /\ DropJob(w)
    /\ UNCHANGED <<projects, events, cursor, next, last>>

\* The run raised or stopped short: fail() reads the row ...
FailRead(w) ==
    /\ Goto(w, "run", "fail")
    /\ terminal' = [terminal EXCEPT ![w] = jobs[job[w]].attempts >= MaxAttempts]
    /\ UNCHANGED <<table, next, last, job, attempt>>

\* ... and writes what it concluded, in another transaction.
FailWrite(w) ==
    /\ Goto(w, "fail", "poll")
    /\ jobs' = [jobs EXCEPT ![job[w]] = Failed(@, terminal[w])]
    /\ DropJob(w)
    /\ UNCHANGED <<projects, events, cursor, next, last>>

Poll(w) == \/ Fetch(w)
           \/ EnqueueForEvent(w) \/ IgnoreEvent(w) \/ DispatchFails(w)
           \/ AdvanceCursor(w) \/ ClaimNone(w) \/ Claim(w)
           \/ Complete(w) \/ FailRead(w) \/ FailWrite(w)

Environment == \/ \E p \in Projects : UpsertProject(p)
               \/ \E e \in EventShapes : AppendEvent(e)
               \/ \E p \in Projects, q \in Requests : EnqueueRequest(p, q)
               \/ \E i \in DOMAIN jobs : LeaseExpires(i)

Next == \/ Environment
        \/ \E w \in Workers : Start(w) \/ Crash(w) \/ Poll(w)

Spec == Init /\ [][Next]_vars

\* A worker thread that is up keeps polling, and time passes.
Fairness == /\ \A w \in Workers : WF_vars(Poll(w))
            /\ WF_vars(\E i \in DOMAIN jobs : LeaseExpires(i))

FairSpec == Spec /\ Fairness

-----------------------------------------------------------------------------
\* Properties.

\* Every variable keeps its form and stays within its bounds.
TypeOK ==
    /\ projects \subseteq Projects
    /\ events \in Seq(EventShapes)
    /\ Len(events) <= MaxEvents
    /\ cursor \in 0 .. Len(events)
    /\ jobs \in Seq(JobRows)
    /\ pc \in [Workers -> {"down", "poll", "dispatch", "advance",
                           "run", "fail"}]
    /\ next \in [Workers -> 1 .. MaxEvents + 1]
    /\ last \in [Workers -> 0 .. MaxEvents]
    /\ job \in [Workers -> Nat]
    /\ attempt \in [Workers -> 0 .. MaxAttempts]
    /\ terminal \in [Workers -> BOOLEAN]

\* However often an event is dispatched again (a crash before the cursor is
\* saved, two workers on one batch) and a request repeated, a key has one row.
OneJobPerKey ==
    \A i, k \in DOMAIN jobs : jobs[i].key = jobs[k].key => i = k

\* The cursor never moves past an event that asked for an inspection and has
\* none: enqueue and cursor are separate transactions, in the right order.
NoEventSkipped ==
    \A r \in 1 .. cursor : Wanted(events[r]) => HasKey(jobs, EventKey(r))

Executing(w) == pc[w] \in {"run", "fail"}

\* The lease: two workers may run one row (the first one's lease ran out), but
\* only one of them is on the row's current attempt.
CurrentRunUnique ==
    \A v, w \in Workers :
        /\ Executing(v) /\ Executing(w) /\ v # w /\ job[v] = job[w]
        => attempt[v] # attempt[w]

\* A run that holds an outdated attempt of its row.
Stale(w) == Executing(w) /\ attempt[w] < jobs[job[w]].attempts

Terminal(row) == row.status \in {"completed", "failed"}

\* complete() and fail() do not look at the row's owner, so a run that outlived
\* its lease writes over whatever its successor did.  Only such a run can: the
\* report of a row's newest run is replaced or reopened by no other step.  And a
\* row whose attempts are used up is left in the queue, where no worker takes it,
\* only by the recovery of its last lease or by such a run's fail().
ReportUndone(i) == /\ jobs[i].status = "completed" /\ jobs[i].result = jobs[i].attempts
                   /\ jobs'[i] # jobs[i]
Stranded(i) == /\ jobs'[i].status = "queued" /\ jobs'[i].attempts >= MaxAttempts
               /\ i \in DOMAIN jobs => jobs[i].status # "queued"
OnlyLostRunsUndo ==
    [][/\ \A i \in DOMAIN jobs :
             ReportUndone(i) => \E w \in Workers : Stale(w) /\ job[w] = i
       /\ \A i \in DOMAIN jobs' :
             Stranded(i) => \/ jobs'[i].error = "lease expired"
                            \/ \E w \in Workers : job[w] = i /\ attempt[w] < jobs'[i].attempts]_vars

\* The queue as JobLifecycle sees it.
RowOf(js, k) == CHOOSE i \in DOMAIN js : js[i].key = k

StatusOf(js) ==
    [k \in Keys |-> IF HasKey(js, k) THEN js[RowOf(js, k)].status ELSE "absent"]

AttemptsOf(js) ==
    [k \in Keys |-> IF HasKey(js, k) THEN js[RowOf(js, k)].attempts ELSE 0]

Lifecycle == INSTANCE JobLifecycle WITH
    status <- StatusOf(jobs), attempts <- AttemptsOf(jobs)

\* A run whose row has been taken back: its lease ran out while it was at work.
Superseded(w) == Executing(w) /\ \/ jobs[job[w]].status # "running"
                                 \/ jobs[job[w]].attempts # attempt[w]

\* As long as no run outlives its lease the queue implements JobLifecycle, over
\* crashes, lost leases, repeated requests and re-dispatched events: settled jobs
\* stay settled and no attempt is lost or given twice.
FollowsLifecycle ==
    [][(\A w \in Workers : ~Superseded(w)) => [Lifecycle!LNext]_(Lifecycle!lvars)]_vars

Settled(k) == \E i \in DOMAIN jobs :
                 /\ jobs[i].key = k
                 /\ \/ Terminal(jobs[i])
                    \/ jobs[i].status = "queued" /\ jobs[i].attempts >= MaxAttempts

\* An event that asks for an inspection gets one, run to its end or until its
\* attempts are used up, if some worker stays up and no event of the log names
\* a project nobody creates (one such event stops the dispatch and the claims).
EventsSettle ==
    (\E w \in Workers : <>[](pc[w] # "down")) /\ <>[](projects = Projects)
    => \A r \in 1 .. MaxEvents :
          (r <= Len(events) /\ Wanted(events[r])) ~> Settled(EventKey(r))
=============================================================================
