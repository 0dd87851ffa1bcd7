------------------------ MODULE InspectionJobs_proofs ------------------------
(***************************************************************************)
(* What holds of InspectionJobs for every number of workers, projects,     *)
(* events and attempts.                                                    *)
(***************************************************************************)
EXTENDS InspectionJobs, TLAPS

-----------------------------------------------------------------------------
\* The table operations, as lemmas.

LEMMA RowType ==
  ASSUME NEW row \in JobRows
  PROVE  row.attempts \in 0 .. MaxAttempts /\ row.attempts \in Int
  <1>1. row.attempts \in 0 .. MaxAttempts
    BY DEF JobRows
  <1> QED BY <1>1

LEMMA TableType ==
  ASSUME NEW js \in Seq(JobRows)
  PROVE  \A i \in DOMAIN js : /\ js[i] \in JobRows
                              /\ js[i].attempts \in 0 .. MaxAttempts
                              /\ js[i].attempts \in Int
  <1>1. \A i \in DOMAIN js : js[i] \in JobRows
    OBVIOUS
  <1> QED BY <1>1, RowType

LEMMA NewRowType == \A k \in Keys : NewRow(k) \in JobRows
  BY ConstantsAssumption DEF NewRow, JobRows

\* Enqueueing keeps the rows there are, adds at most one, and gives the key a row.
LEMMA EnqueuedFacts ==
  ASSUME NEW js \in Seq(JobRows), NEW k \in Keys
  PROVE  /\ Enqueued(js, k) \in Seq(JobRows)
         /\ \A i \in DOMAIN js : i \in DOMAIN Enqueued(js, k) /\ Enqueued(js, k)[i] = js[i]
         /\ \A i \in DOMAIN Enqueued(js, k) : i \notin DOMAIN js =>
               /\ ~HasKey(js, k) /\ i = Len(js) + 1
               /\ Enqueued(js, k)[i] = NewRow(k)
         /\ HasKey(Enqueued(js, k), k)
  <1>1. CASE HasKey(js, k)
    BY <1>1 DEF Enqueued
  <1>2. CASE ~HasKey(js, k)
    <2>1. Enqueued(js, k) = Append(js, NewRow(k))
      BY <1>2 DEF Enqueued
    <2>2. Append(js, NewRow(k))[Len(js) + 1] = NewRow(k)
      BY NewRowType
    <2>3. /\ Append(js, NewRow(k)) \in Seq(JobRows)
          /\ DOMAIN js = 1 .. Len(js)
          /\ DOMAIN Append(js, NewRow(k)) = 1 .. Len(js) + 1
          /\ \A i \in DOMAIN js : Append(js, NewRow(k))[i] = js[i]
      BY NewRowType
    <2>4. NewRow(k).key = k
      BY DEF NewRow
    <2> QED BY <1>2, <2>1, <2>2, <2>3, <2>4 DEF HasKey
  <1> QED BY <1>1, <1>2

\* Replacing rows by rows keeps the table a table.
LEMMA SameRows ==
  ASSUME NEW js \in Seq(JobRows), NEW ks, DOMAIN ks = DOMAIN js,
         ks = [i \in DOMAIN js |-> ks[i]],
         \A i \in DOMAIN js : ks[i] \in JobRows
  PROVE  ks \in Seq(JobRows) /\ Len(ks) = Len(js)
  <1>1. Len(js) \in Nat /\ DOMAIN js = 1 .. Len(js)
    OBVIOUS
  <1>2. ks \in [1 .. Len(js) -> JobRows]
    BY <1>1
  <1> QED BY <1>1, <1>2

\* Recovery changes no key, no attempts, no report, and only expired leases.
LEMMA RecoveredFacts ==
  ASSUME NEW js \in Seq(JobRows)
  PROVE  /\ Recovered(js) \in Seq(JobRows)
         /\ DOMAIN Recovered(js) = DOMAIN js
         /\ \A i \in DOMAIN js : /\ Recovered(js)[i].key = js[i].key
                                 /\ Recovered(js)[i].attempts = js[i].attempts
                                 /\ js[i].status # "running" => Recovered(js)[i] = js[i]
  <1>1. \A i \in DOMAIN js : js[i] \in JobRows
    OBVIOUS
  <1>2. \A i \in DOMAIN js : /\ Recovered(js)[i] \in JobRows
                             /\ Recovered(js)[i].key = js[i].key
                             /\ Recovered(js)[i].attempts = js[i].attempts
                             /\ js[i].status # "running" => Recovered(js)[i] = js[i]
    BY <1>1 DEF Recovered, JobRows
  <1>3. DOMAIN Recovered(js) = DOMAIN js /\ Recovered(js) = [i \in DOMAIN js |-> Recovered(js)[i]]
    BY DEF Recovered
  <1> QED BY <1>2, <1>3, SameRows

LEMMA LeasedFacts ==
  ASSUME NEW row \in JobRows, NEW w \in Workers, row.attempts < MaxAttempts
  PROVE  /\ Leased(row, w) \in JobRows
         /\ Leased(row, w).key = row.key
         /\ Leased(row, w).attempts = row.attempts + 1
  <1>1. row.attempts + 1 \in 0 .. MaxAttempts
    <2>1. MaxAttempts \in Nat
      BY ConstantsAssumption
    <2>2. row.attempts \in 0 .. MaxAttempts
      BY DEF JobRows
    <2> QED BY <2>1, <2>2
  <1>2. /\ Leased(row, w).attempts = row.attempts + 1
        /\ Leased(row, w).key = row.key
    BY DEF Leased, JobRows
  <1>3. Leased(row, w) \in JobRows
    BY <1>1 DEF Leased, JobRows
  <1> QED BY <1>2, <1>3

LEMMA CompletedFacts ==
  ASSUME NEW row \in JobRows, NEW run \in 0 .. MaxAttempts
  PROVE  /\ Completed(row, run) \in JobRows
         /\ Completed(row, run).key = row.key
         /\ Completed(row, run).attempts = row.attempts
  BY DEF Completed, JobRows

LEMMA FailedFacts ==
  ASSUME NEW row \in JobRows, NEW final \in BOOLEAN
  PROVE  /\ Failed(row, final) \in JobRows
         /\ Failed(row, final).key = row.key
         /\ Failed(row, final).attempts = row.attempts
  BY DEF Failed, JobRows

-----------------------------------------------------------------------------
\* The inductive invariant.

\* The events NoEventSkipped has nothing to say against.
Dispatched == {r \in 1 .. Len(events) : Wanted(events[r]) => HasKey(jobs, EventKey(r))}

\* A worker's batch starts where the log is dispatched up to, and the event
\* before a pending cursor write has its row.
Batch(w) == /\ last[w] <= Len(events)
            /\ pc[w] \in {"dispatch", "advance"} => 1 .. next[w] - 1 \subseteq Dispatched
            /\ pc[w] = "advance" => next[w] <= last[w] /\ next[w] \in Dispatched

BatchInv == \A w \in Workers : Batch(w)

\* A run holds a row, on an attempt the row has been given.
HeldInv ==
    \A w \in Workers : Executing(w) =>
        /\ job[w] \in DOMAIN jobs
        /\ attempt[w] <= jobs[job[w]].attempts

\* What fail() read still decides the row, unless a later claim has taken it.
TerminalInv ==
    \A w \in Workers :
        /\ pc[w] = "fail"
        /\ attempt[w] = jobs[job[w]].attempts
        => (terminal[w] <=> attempt[w] >= MaxAttempts)

IInv == /\ TypeOK
        /\ OneJobPerKey
        /\ NoEventSkipped
        /\ BatchInv
        /\ HeldInv
        /\ CurrentRunUnique
        /\ TerminalInv

\* Whatever a step does to the table: rows are never removed, never change their
\* key nor lose an attempt, and a new row's key had none.
JobsStep ==
    /\ jobs' \in Seq(JobRows)
    /\ \A i \in DOMAIN jobs : /\ i \in DOMAIN jobs'
                              /\ jobs'[i].key = jobs[i].key
                              /\ jobs'[i].attempts >= jobs[i].attempts
    /\ \A i \in DOMAIN jobs' : i \notin DOMAIN jobs =>
          i = Len(jobs) + 1 /\ ~HasKey(jobs, jobs'[i].key)

LEMMA EnqueueStep ==
  ASSUME TypeOK, NEW k \in Keys, jobs' = Enqueued(jobs, k)
  PROVE  JobsStep
  <1>1. jobs \in Seq(JobRows)
    BY DEF TypeOK
  <1>2. \A i \in DOMAIN jobs : jobs[i] \in JobRows /\ jobs[i].attempts \in Int
    BY <1>1, TableType
  <1>3. NewRow(k).key = k
    BY DEF NewRow
  <1> QED BY <1>1, <1>2, <1>3, EnqueuedFacts DEF JobsStep

LEMMA SameTableStep ==
  ASSUME TypeOK, NEW ks, jobs' = ks, DOMAIN ks = DOMAIN jobs,
         ks = [i \in DOMAIN jobs |-> ks[i]],
         \A i \in DOMAIN jobs : /\ ks[i] \in JobRows
                                /\ ks[i].key = jobs[i].key
                                /\ ks[i].attempts >= jobs[i].attempts
  PROVE  JobsStep
  <1>1. jobs \in Seq(JobRows)
    BY DEF TypeOK
  <1>2. jobs' \in Seq(JobRows)
    BY <1>1, SameRows
  <1> QED BY <1>2 DEF JobsStep

LEMMA RecoverStep ==
  ASSUME TypeOK, jobs' = Recovered(jobs)
  PROVE  JobsStep
  <1>1. jobs \in Seq(JobRows)
    BY DEF TypeOK
  <1>2. \A i \in DOMAIN jobs : jobs[i].attempts \in Int
    BY <1>1, TableType
  <1> QED BY <1>1, <1>2, RecoveredFacts DEF JobsStep

LEMMA ClaimStep ==
  ASSUME TypeOK, NEW w \in Workers, Claim(w)
  PROVE  /\ JobsStep
         /\ job[w]' \in DOMAIN jobs
         /\ DOMAIN jobs' = DOMAIN jobs
         /\ attempt[w]' = jobs[job[w]'].attempts + 1
         /\ jobs'[job[w]'].attempts = attempt[w]'
         /\ attempt[w]' \in 0 .. MaxAttempts
         /\ job' = [job EXCEPT ![w] = job'[w]]
         /\ attempt' = [attempt EXCEPT ![w] = attempt'[w]]
  <1>1. jobs \in Seq(JobRows) /\ job \in [Workers -> Nat] /\ attempt \in [Workers -> 0 .. MaxAttempts]
    BY DEF TypeOK
  <1> DEFINE R == Recovered(jobs)
  <1>2. /\ R \in Seq(JobRows)
        /\ DOMAIN R = DOMAIN jobs
        /\ \A i \in DOMAIN jobs : R[i].key = jobs[i].key /\ R[i].attempts = jobs[i].attempts
    BY <1>1, RecoveredFacts
  <1>3. PICK i \in Claimable(R) : /\ jobs' = [R EXCEPT ![i] = Leased(@, w)]
                                  /\ job' = [job EXCEPT ![w] = i]
                                  /\ attempt' = [attempt EXCEPT ![w] = jobs[i].attempts + 1]
    BY DEF Claim
  <1>4. i \in DOMAIN jobs /\ R[i] \in JobRows /\ R[i].attempts < MaxAttempts
    BY <1>2, <1>3 DEF Claimable
  <1>5. /\ Leased(R[i], w) \in JobRows
        /\ Leased(R[i], w).key = jobs[i].key
        /\ Leased(R[i], w).attempts = jobs[i].attempts + 1
    BY <1>2, <1>4, LeasedFacts
  <1>6. \A k \in DOMAIN jobs : R[k] \in JobRows /\ jobs[k].attempts \in 0 .. MaxAttempts
    BY <1>1, <1>2, TableType
  <1>7. /\ DOMAIN jobs' = DOMAIN jobs
        /\ jobs'[i] = Leased(R[i], w)
        /\ \A k \in DOMAIN jobs : k # i => jobs'[k] = R[k]
    BY <1>2, <1>3, <1>4
  <1>8. JobsStep
    <2>1. jobs' = [k \in DOMAIN jobs |-> jobs'[k]]
      BY <1>2, <1>3, <1>7
    <2>2. \A k \in DOMAIN jobs : /\ jobs'[k] \in JobRows
                                 /\ jobs'[k].key = jobs[k].key
                                 /\ jobs'[k].attempts >= jobs[k].attempts
      BY <1>2, <1>5, <1>6, <1>7
    <2> QED BY <1>7, <2>1, <2>2, SameTableStep
  <1>9. MaxAttempts \in Nat /\ jobs[i].attempts \in 0 .. MaxAttempts /\ jobs[i].attempts < MaxAttempts
    BY <1>2, <1>4, <1>6, ConstantsAssumption
  <1>10. job'[w] = i /\ attempt'[w] = jobs[i].attempts + 1
    BY <1>1, <1>3
  <1>11. /\ job' = [job EXCEPT ![w] = job'[w]]
         /\ attempt' = [attempt EXCEPT ![w] = attempt'[w]]
    BY <1>3, <1>10
  <1>12. attempt'[w] \in 0 .. MaxAttempts
    BY <1>9, <1>10
  <1>13. jobs'[job'[w]].attempts = attempt'[w]
    BY <1>4, <1>5, <1>7, <1>10
  <1> QED BY <1>4, <1>7, <1>8, <1>10, <1>11, <1>12, <1>13

LEMMA RowStep ==
  ASSUME TypeOK, NEW i \in DOMAIN jobs, NEW row \in JobRows,
         row.key = jobs[i].key, row.attempts = jobs[i].attempts,
         jobs' = [jobs EXCEPT ![i] = row]
  PROVE  JobsStep
  <1>1. jobs \in Seq(JobRows)
    BY DEF TypeOK
  <1>2. \A k \in DOMAIN jobs : jobs[k] \in JobRows /\ jobs[k].attempts \in Int
    BY <1>1, TableType
  <1>3. /\ DOMAIN jobs' = DOMAIN jobs
        /\ jobs' = [k \in DOMAIN jobs |-> jobs'[k]]
        /\ \A k \in DOMAIN jobs : jobs'[k] = IF k = i THEN row ELSE jobs[k]
    BY <1>1
  <1>4. \A k \in DOMAIN jobs : /\ jobs'[k] \in JobRows
                               /\ jobs'[k].key = jobs[k].key
                               /\ jobs'[k].attempts >= jobs[k].attempts
    BY <1>2, <1>3
  <1> QED BY <1>3, <1>4, SameTableStep

LEMMA ExpireStep ==
  ASSUME TypeOK, NEW i \in DOMAIN jobs, LeaseExpires(i)
  PROVE  JobsStep
  <1>1. jobs[i] \in JobRows
    BY DEF TypeOK
  <1> DEFINE row == [jobs[i] EXCEPT !.lease = "expired"]
  <1>2. row \in JobRows /\ row.key = jobs[i].key /\ row.attempts = jobs[i].attempts
    BY <1>1 DEF JobRows
  <1>3. jobs' = [jobs EXCEPT ![i] = row]
    BY DEF LeaseExpires
  <1> HIDE DEF row
  <1> QED BY <1>2, <1>3, RowStep

LEMMA CompleteStep ==
  ASSUME TypeOK, HeldInv, NEW w \in Workers, Complete(w)
  PROVE  JobsStep
  <1>1. job[w] \in DOMAIN jobs
    BY DEF HeldInv, Complete, Goto, Executing
  <1>2. jobs[job[w]] \in JobRows /\ attempt[w] \in 0 .. MaxAttempts
    BY <1>1 DEF TypeOK
  <1> QED BY <1>1, <1>2, CompletedFacts, RowStep DEF Complete

LEMMA FailStep ==
  ASSUME TypeOK, HeldInv, NEW w \in Workers, FailWrite(w)
  PROVE  JobsStep
  <1>1. job[w] \in DOMAIN jobs
    BY DEF HeldInv, FailWrite, Goto, Executing
  <1>2. jobs[job[w]] \in JobRows /\ terminal[w] \in BOOLEAN
    BY <1>1 DEF TypeOK
  <1> QED BY <1>1, <1>2, FailedFacts, RowStep DEF FailWrite

LEMMA NextJobsStep ==
  ASSUME TypeOK, HeldInv, [Next]_vars
  PROVE  JobsStep
  <1>0. ASSUME UNCHANGED jobs PROVE JobsStep
    <2>1. jobs \in Seq(JobRows)
      BY DEF TypeOK
    <2> QED BY <1>0, <2>1, TableType DEF JobsStep
  <1>1. ASSUME NEW p \in Projects, NEW q \in Requests, EnqueueRequest(p, q)
        PROVE  JobsStep
    BY <1>1, EnqueueStep DEF EnqueueRequest, Keys
  <1>2. ASSUME NEW w \in Workers, EnqueueForEvent(w)
        PROVE  JobsStep
    <2>1. next[w] \in 1 .. MaxEvents
      BY <1>2, ConstantsAssumption DEF EnqueueForEvent, TypeOK
    <2>2. EventKey(next[w]) \in Keys
      BY <2>1 DEF Keys
    <2> QED BY <1>2, <2>2, EnqueueStep DEF EnqueueForEvent
  <1>3. CASE UNCHANGED vars
    BY <1>0, <1>3 DEF vars
  <1>4. CASE Environment
    BY <1>0, <1>1, <1>4, ExpireStep DEF Environment, UpsertProject, AppendEvent
  <1>5. ASSUME NEW w \in Workers, Start(w) \/ Crash(w)
        PROVE  JobsStep
    BY <1>0, <1>5 DEF Start, Crash, table
  <1>6. ASSUME NEW w \in Workers, Poll(w)
        PROVE  JobsStep
    <2>1. CASE Fetch(w) \/ IgnoreEvent(w) \/ DispatchFails(w) \/ AdvanceCursor(w) \/ FailRead(w)
      BY <1>0, <2>1 DEF Fetch, IgnoreEvent, DispatchFails, AdvanceCursor, FailRead, table
    <2>2. CASE ClaimNone(w)
      BY <2>2, RecoverStep DEF ClaimNone
    <2>3. CASE Claim(w)
      BY <2>3, ClaimStep
    <2>4. CASE Complete(w)
      BY <2>4, CompleteStep
    <2>5. CASE FailWrite(w)
      BY <2>5, FailStep
    <2> QED BY <1>2, <1>6, <2>1, <2>2, <2>3, <2>4, <2>5 DEF Poll
  <1> QED BY <1>3, <1>4, <1>5, <1>6 DEF Next

\* The event log is only appended to.
LEMMA EventsGrow ==
  ASSUME TypeOK, [Next]_vars
  PROVE  /\ events' \in Seq(EventShapes)
         /\ Len(events) \in Nat /\ Len(events') \in Nat
         /\ Len(events) <= Len(events') /\ Len(events') <= MaxEvents
         /\ \A r \in 1 .. Len(events) : events'[r] = events[r]
  <1>1. events \in Seq(EventShapes) /\ Len(events) <= MaxEvents
    BY DEF TypeOK
  <1>2. ASSUME NEW e \in EventShapes, AppendEvent(e)
        PROVE  /\ events' = Append(events, e)
               /\ Len(events') <= MaxEvents
    BY <1>1, <1>2, ConstantsAssumption DEF AppendEvent
  <1>3. UNCHANGED events \/ \E e \in EventShapes : AppendEvent(e)
    BY DEF Next, vars, table, Environment, UpsertProject, EnqueueRequest, LeaseExpires,
           Start, Crash, Poll, Fetch, EnqueueForEvent, IgnoreEvent, DispatchFails,
           AdvanceCursor, ClaimNone, Claim, Complete, FailRead, FailWrite
  <1> QED BY <1>1, <1>2, <1>3

LEMMA DispatchedStays ==
  ASSUME TypeOK, HeldInv, [Next]_vars
  PROVE  Dispatched \subseteq Dispatched'
  <1>1. SUFFICES ASSUME NEW r \in Dispatched PROVE r \in Dispatched'
    OBVIOUS
  <1>2. r \in 1 .. Len(events) /\ r \in 1 .. Len(events') /\ events'[r] = events[r]
    BY EventsGrow DEF Dispatched
  <1>3. HasKey(jobs, EventKey(r)) => HasKey(jobs', EventKey(r))
    BY NextJobsStep DEF JobsStep, HasKey
  <1> QED BY <1>2, <1>3 DEF Dispatched, EventKey

LEMMA TypeStep ==
  ASSUME TypeOK, HeldInv, BatchInv, [Next]_vars
  PROVE  TypeOK'
  <1>1. /\ jobs' \in Seq(JobRows)
        /\ events' \in Seq(EventShapes)
        /\ Len(events') <= MaxEvents
        /\ Len(events) \in Nat /\ Len(events') \in Nat /\ Len(events) <= Len(events')
    BY NextJobsStep, EventsGrow DEF JobsStep
  <1>2. projects' \subseteq Projects
    BY DEF TypeOK, Next, vars, table, Environment, UpsertProject, AppendEvent, EnqueueRequest,
           LeaseExpires, Start, Crash, Poll, Fetch, EnqueueForEvent, IgnoreEvent, DispatchFails,
           AdvanceCursor, ClaimNone, Claim, Complete, FailRead, FailWrite
  <1>3. cursor' \in 0 .. Len(events')
    <2>1. ASSUME NEW w \in Workers, AdvanceCursor(w)
          PROVE  cursor' \in 0 .. Len(events)
      BY <2>1 DEF AdvanceCursor, Goto, BatchInv, Batch, TypeOK
    <2>2. UNCHANGED cursor \/ \E w \in Workers : AdvanceCursor(w)
      BY DEF Next, vars, table, Environment, UpsertProject, AppendEvent, EnqueueRequest,
             LeaseExpires, Start, Crash, Poll, Fetch, EnqueueForEvent, IgnoreEvent,
             DispatchFails, ClaimNone, Claim, Complete, FailRead, FailWrite
    <2>3. cursor \in 0 .. Len(events)
      BY DEF TypeOK
    <2> QED BY <1>1, <2>1, <2>2, <2>3
  <1> DEFINE L == /\ pc \in [Workers -> {"down", "poll", "dispatch", "advance", "run", "fail"}]
                  /\ next \in [Workers -> 1 .. MaxEvents + 1]
                  /\ last \in [Workers -> 0 .. MaxEvents]
                  /\ job \in [Workers -> Nat]
                  /\ attempt \in [Workers -> 0 .. MaxAttempts]
                  /\ terminal \in [Workers -> BOOLEAN]
  <1>4. L /\ MaxEvents \in Nat /\ MaxAttempts \in Nat /\ BatchLimit \in Nat
    BY ConstantsAssumption DEF TypeOK
  <1>5. CASE UNCHANGED vars \/ Environment
    <2>1. UNCHANGED local
      BY <1>5 DEF vars, local, Environment, UpsertProject, AppendEvent, EnqueueRequest, LeaseExpires
    <2> QED BY <1>1, <1>2, <1>3, <1>4, <2>1 DEF local, TypeOK
  <1>6. ASSUME NEW w \in Workers, Start(w) \/ Crash(w)
        PROVE  L'
    <2>1. CASE Start(w)
      BY <1>4, <2>1 DEF Start, Goto
    <2>2. CASE Crash(w)
      <3>1. /\ pc' \in [Workers -> {"down", "poll", "dispatch", "advance", "run", "fail"}]
            /\ next' \in [Workers -> 1 .. MaxEvents + 1]
            /\ last' \in [Workers -> 0 .. MaxEvents]
        BY <1>4, <2>2 DEF Crash, DropBatch
      <3>2. /\ job' \in [Workers -> Nat]
            /\ attempt' \in [Workers -> 0 .. MaxAttempts]
            /\ terminal' \in [Workers -> BOOLEAN]
        BY <1>4, <2>2 DEF Crash, DropJob
      <3> QED BY <3>1, <3>2
    <2> QED BY <1>6, <2>1, <2>2
  <1>7. ASSUME NEW w \in Workers, Poll(w)
        PROVE  L'
    <2>1. CASE Fetch(w)
      <3>1. cursor \in Nat /\ cursor <= Len(events) /\ Len(events) <= MaxEvents /\ Len(events) \in Nat
        BY <1>1 DEF TypeOK
      <3> QED BY <1>4, <2>1, <3>1 DEF Fetch, Goto
    <2>2. CASE EnqueueForEvent(w) \/ IgnoreEvent(w) \/ DispatchFails(w) \/ ClaimNone(w)
      BY <1>4, <2>2 DEF EnqueueForEvent, IgnoreEvent, DispatchFails, ClaimNone, Goto, DropBatch
    <2>3. CASE AdvanceCursor(w)
      <3>1. next[w] \in 1 .. MaxEvents
        BY <1>4, <2>3 DEF AdvanceCursor, Goto, BatchInv, Batch
      <3> QED BY <1>4, <2>3, <3>1 DEF AdvanceCursor, Goto
    <2>4. CASE Claim(w)
      <3>1. /\ job'[w] \in Nat /\ attempt'[w] \in 0 .. MaxAttempts
            /\ job' = [job EXCEPT ![w] = job'[w]]
            /\ attempt' = [attempt EXCEPT ![w] = attempt'[w]]
        <4>1. DOMAIN jobs \subseteq Nat
          BY DEF TypeOK
        <4> QED BY <2>4, <4>1, ClaimStep
      <3>2. job' \in [Workers -> Nat] /\ attempt' \in [Workers -> 0 .. MaxAttempts]
        BY <1>4, <3>1
      <3> QED BY <1>4, <2>4, <3>2 DEF Claim, Goto, DropBatch
    <2>5. CASE Complete(w) \/ FailWrite(w)
      <3>1. /\ job' \in [Workers -> Nat]
            /\ attempt' \in [Workers -> 0 .. MaxAttempts]
            /\ terminal' \in [Workers -> BOOLEAN]
        <4>1. DropJob(w)
          BY <2>5 DEF Complete, FailWrite
        <4> QED BY <1>4, <4>1 DEF DropJob
      <3> QED BY <1>4, <2>5, <3>1 DEF Complete, FailWrite, Goto
    <2>6. CASE FailRead(w)
      <3> DEFINE b == jobs[job[w]].attempts >= MaxAttempts
      <3>1. b \in BOOLEAN
        <4>1. (b = TRUE) \/ (b = FALSE)
          OBVIOUS
        <4> QED BY <4>1, Zenon
      <3>2. terminal' = [terminal EXCEPT ![w] = b]
        BY <2>6, Zenon DEF FailRead
      <3> HIDE DEF b
      <3>3. terminal' \in [Workers -> BOOLEAN]
        BY <1>4, <3>1, <3>2
      <3> QED BY <1>4, <2>6, <3>3 DEF FailRead, Goto
    <2> QED BY <1>7, <2>1, <2>2, <2>3, <2>4, <2>5, <2>6 DEF Poll
  <1>8. CASE Next
    <2>1. CASE Environment
      BY <2>1, <1>5
    <2>2. CASE \E w \in Workers : Start(w) \/ Crash(w) \/ Poll(w)
      BY <2>2, <1>1, <1>2, <1>3, <1>6, <1>7 DEF TypeOK
    <2> QED BY <1>8, <2>1, <2>2 DEF Next
  <1> QED BY <1>5, <1>8

LEMMA UniqueStep ==
  ASSUME TypeOK, OneJobPerKey, JobsStep
  PROVE  OneJobPerKey'
  <1>1. jobs \in Seq(JobRows)
    BY DEF TypeOK
  <1>2. SUFFICES ASSUME NEW i \in DOMAIN jobs', NEW k \in DOMAIN jobs',
                        jobs'[i].key = jobs'[k].key
                 PROVE  i = k
    BY DEF OneJobPerKey
  <1>3. CASE i \in DOMAIN jobs /\ k \in DOMAIN jobs
    BY <1>2, <1>3 DEF OneJobPerKey, JobsStep
  <1>4. CASE i \notin DOMAIN jobs /\ k \notin DOMAIN jobs
    BY <1>4 DEF JobsStep
  <1>5. CASE i \in DOMAIN jobs /\ k \notin DOMAIN jobs
    BY <1>2, <1>5 DEF JobsStep, HasKey
  <1>6. CASE i \notin DOMAIN jobs /\ k \in DOMAIN jobs
    BY <1>2, <1>6 DEF JobsStep, HasKey
  <1> QED BY <1>3, <1>4, <1>5, <1>6

LEMMA SkippedMeansUndispatched ==
  ASSUME TypeOK
  PROVE  NoEventSkipped <=> 1 .. cursor \subseteq Dispatched
  BY DEF TypeOK, NoEventSkipped, Dispatched

LEMMA CursorStep ==
  ASSUME IInv, [Next]_vars
  PROVE  1 .. cursor' \subseteq Dispatched'
  <1>1. TypeOK /\ HeldInv /\ BatchInv /\ NoEventSkipped
    BY DEF IInv
  <1>2. 1 .. cursor \subseteq Dispatched' /\ Dispatched \subseteq Dispatched'
    BY <1>1, SkippedMeansUndispatched, DispatchedStays
  <1>3. ASSUME NEW w \in Workers, AdvanceCursor(w)
        PROVE  1 .. cursor' \subseteq Dispatched
    <2>1. /\ 1 .. next[w] - 1 \subseteq Dispatched
          /\ next[w] \in Dispatched /\ next[w] \in Int
          /\ cursor' = next[w]
      BY <1>1, <1>3 DEF AdvanceCursor, Goto, BatchInv, Batch, TypeOK
    <2>2. 1 .. next[w] = (1 .. next[w] - 1) \cup ({next[w]} \cap 1 .. next[w])
      BY <2>1
    <2> QED BY <2>1, <2>2
  <1>4. UNCHANGED cursor \/ \E w \in Workers : AdvanceCursor(w)
    BY DEF Next, vars, table, Environment, UpsertProject, AppendEvent, EnqueueRequest,
           LeaseExpires, Start, Crash, Poll, Fetch, EnqueueForEvent, IgnoreEvent,
           DispatchFails, ClaimNone, Claim, Complete, FailRead, FailWrite
  <1> QED BY <1>2, <1>3, <1>4

LEMMA BatchStep ==
  ASSUME IInv, [Next]_vars
  PROVE  BatchInv'
  <1>1. TypeOK /\ HeldInv /\ BatchInv /\ NoEventSkipped
    BY DEF IInv
  <1>2. /\ Len(events) \in Nat /\ Len(events') \in Nat /\ Len(events) <= Len(events')
        /\ cursor \in 0 .. Len(events)
        /\ pc \in [Workers -> {"down", "poll", "dispatch", "advance", "run", "fail"}]
        /\ next \in [Workers -> 1 .. MaxEvents + 1]
        /\ last \in [Workers -> 0 .. MaxEvents]
        /\ MaxEvents \in Nat /\ BatchLimit \in Nat \ {0}
    BY <1>1, EventsGrow, ConstantsAssumption DEF TypeOK
  <1>3. Dispatched \subseteq Dispatched' /\ 1 .. cursor \subseteq Dispatched
    BY <1>1, DispatchedStays, SkippedMeansUndispatched
  <1>4. ASSUME NEW v \in Workers, UNCHANGED <<pc[v], next[v], last[v]>>
        PROVE  Batch(v)'
    <2>1. Batch(v)
      BY <1>1 DEF BatchInv
    <2>2. last[v] <= Len(events')
      BY <1>2, <2>1 DEF Batch
    <2> QED BY <1>3, <1>4, <2>1, <2>2 DEF Batch
  \* A worker outside the dispatch, or at its end.
  <1>5. ASSUME NEW v \in Workers, pc'[v] \notin {"dispatch", "advance"},
               last'[v] = 0 \/ last'[v] = last[v]
        PROVE  Batch(v)'
    <2>1. last'[v] <= Len(events')
      BY <1>1, <1>2, <1>5 DEF BatchInv, Batch
    <2> QED BY <1>5, <2>1 DEF Batch
  <1>6. CASE UNCHANGED vars \/ Environment
    BY <1>4, <1>6 DEF BatchInv, vars, local, Environment, UpsertProject, AppendEvent,
                      EnqueueRequest, LeaseExpires
  <1>7. ASSUME NEW w \in Workers, Start(w) \/ Crash(w) \/ Poll(w)
        PROVE  BatchInv'
    <2>1. SUFFICES Batch(w)'
      <3>1. ASSUME NEW v \in Workers, v # w
            PROVE  UNCHANGED <<pc[v], next[v], last[v]>>
        BY <1>2, <1>7, <3>1 DEF Start, Crash, Poll, Fetch, EnqueueForEvent, IgnoreEvent,
             DispatchFails, AdvanceCursor, ClaimNone, Claim, Complete, FailRead, FailWrite,
             Goto, DropBatch
      <3> QED BY <1>4, <3>1 DEF BatchInv
    <2>2. CASE Start(w) \/ Crash(w) \/ DispatchFails(w) \/ ClaimNone(w) \/ Claim(w)
                 \/ Complete(w) \/ FailRead(w) \/ FailWrite(w)
      BY <1>2, <1>5, <2>2 DEF Start, Crash, DispatchFails, ClaimNone, Claim, Complete,
           FailRead, FailWrite, Goto, DropBatch
    <2>3. CASE Fetch(w)
      <3>1. /\ pc'[w] = "dispatch" /\ next'[w] = cursor + 1 /\ last'[w] <= Len(events)
            /\ last'[w] \in Int
        BY <1>2, <2>3 DEF Fetch, Goto
      <3>2. next'[w] - 1 = cursor /\ last'[w] <= Len(events')
        BY <1>2, <3>1
      <3> QED BY <1>3, <3>1, <3>2 DEF Batch
    <2>4. CASE EnqueueForEvent(w) \/ IgnoreEvent(w)
      <3>1. /\ pc[w] = "dispatch" /\ pc'[w] = "advance" /\ next[w] <= last[w]
            /\ next' = next /\ last' = last /\ events' = events
        BY <1>2, <2>4 DEF EnqueueForEvent, IgnoreEvent, Goto, table
      <3>2. next[w] \in 1 .. Len(events) /\ 1 .. next[w] - 1 \subseteq Dispatched
        BY <1>1, <1>2, <3>1 DEF BatchInv, Batch
      <3>3. next[w] \in Dispatched'
        <4>1. CASE EnqueueForEvent(w)
          <5>1. jobs' = Enqueued(jobs, EventKey(next[w])) /\ jobs \in Seq(JobRows)
            BY <1>1, <4>1 DEF EnqueueForEvent, TypeOK
          <5>2. EventKey(next[w]) \in Keys
            <6>1. next[w] \in 1 .. MaxEvents
              BY <1>1, <1>2, <3>2 DEF TypeOK
            <6> QED BY <6>1 DEF Keys
          <5>3. HasKey(jobs', EventKey(next[w]))
            BY <5>1, <5>2, EnqueuedFacts
          <5> QED BY <3>1, <3>2, <5>3 DEF Dispatched, EventKey
        <4>2. CASE IgnoreEvent(w)
          BY <3>1, <3>2, <4>2 DEF IgnoreEvent, Dispatched
        <4> QED BY <2>4, <4>1, <4>2
      <3> QED BY <1>1, <1>3, <3>1, <3>2, <3>3 DEF Batch, BatchInv
    <2>5. CASE AdvanceCursor(w)
      <3>1. /\ pc[w] = "advance" /\ pc'[w] = "dispatch" /\ next'[w] = next[w] + 1
            /\ last' = last /\ events' = events
        BY <1>2, <2>5 DEF AdvanceCursor, Goto
      <3>2. /\ 1 .. next[w] - 1 \subseteq Dispatched /\ next[w] \in Dispatched
            /\ last[w] <= Len(events)
        BY <1>1, <3>1 DEF BatchInv, Batch
      <3>3. next'[w] - 1 = next[w] /\ next[w] \in Int
        BY <1>2, <3>1
      <3>4. 1 .. next[w] \subseteq Dispatched
        <4>1. 1 .. next[w] = (1 .. next[w] - 1) \cup ({next[w]} \cap 1 .. next[w])
          BY <3>3
        <4> QED BY <3>2, <4>1
      <3> QED BY <1>3, <3>1, <3>2, <3>3, <3>4 DEF Batch
    <2> QED BY <1>7, <2>2, <2>3, <2>4, <2>5 DEF Poll
  <1> QED BY <1>6, <1>7 DEF Next

LEMMA HeldStep ==
  ASSUME IInv, [Next]_vars
  PROVE  HeldInv' /\ CurrentRunUnique'
  <1>1. TypeOK /\ HeldInv /\ CurrentRunUnique /\ JobsStep /\ jobs \in Seq(JobRows)
    BY NextJobsStep DEF IInv, TypeOK
  <1>2. /\ pc \in [Workers -> {"down", "poll", "dispatch", "advance", "run", "fail"}]
        /\ job \in [Workers -> Nat]
        /\ attempt \in [Workers -> 0 .. MaxAttempts]
        /\ MaxAttempts \in Nat
    BY <1>1, ConstantsAssumption DEF TypeOK
  <1>3. \A i \in DOMAIN jobs : jobs[i].attempts \in Int /\ jobs'[i].attempts \in Int
    BY <1>1, TableType DEF JobsStep
  \* Every step but a claim: who executes, executed the same run before.
  <1>4. ASSUME \A v \in Workers : Executing(v)' =>
                  Executing(v) /\ job'[v] = job[v] /\ attempt'[v] = attempt[v]
        PROVE  HeldInv' /\ CurrentRunUnique'
    <2>1. HeldInv'
      <3>1. SUFFICES ASSUME NEW v \in Workers, Executing(v)'
                     PROVE  job'[v] \in DOMAIN jobs' /\ attempt'[v] <= jobs'[job'[v]].attempts
        BY DEF HeldInv
      <3>2. /\ job'[v] = job[v] /\ attempt'[v] = attempt[v]
            /\ job[v] \in DOMAIN jobs /\ attempt[v] <= jobs[job[v]].attempts
            /\ attempt[v] \in Int
        BY <1>1, <1>2, <1>4, <3>1 DEF HeldInv
      <3> QED BY <1>1, <1>3, <3>2 DEF JobsStep
    <2>2. CurrentRunUnique'
      BY <1>1, <1>4 DEF CurrentRunUnique
    <2> QED BY <2>1, <2>2
  <1>5. ASSUME NEW w \in Workers, Claim(w)
        PROVE  HeldInv' /\ CurrentRunUnique'
    <2>1. /\ job'[w] \in DOMAIN jobs /\ DOMAIN jobs' = DOMAIN jobs
          /\ attempt'[w] = jobs[job'[w]].attempts + 1
          /\ jobs'[job'[w]].attempts = attempt'[w]
          /\ attempt'[w] \in Int
          /\ \A v \in Workers : v # w => job'[v] = job[v] /\ attempt'[v] = attempt[v]
      BY <1>1, <1>2, <1>5, ClaimStep
    <2>2. \A v \in Workers : v # w => (Executing(v)' <=> Executing(v))
      BY <1>2, <1>5 DEF Claim, Goto, Executing
    <2>3. ASSUME NEW v \in Workers, v # w, Executing(v)
          PROVE  /\ job[v] \in DOMAIN jobs /\ attempt[v] <= jobs[job[v]].attempts
                 /\ attempt[v] \in Int /\ jobs[job[v]].attempts \in Int
                 /\ jobs'[job[v]].attempts \in Int
                 /\ jobs[job[v]].attempts <= jobs'[job[v]].attempts
      BY <1>1, <1>2, <1>3, <2>3 DEF HeldInv, JobsStep
    <2>4. HeldInv'
      <3>1. SUFFICES ASSUME NEW v \in Workers, Executing(v)'
                     PROVE  job'[v] \in DOMAIN jobs' /\ attempt'[v] <= jobs'[job'[v]].attempts
        BY DEF HeldInv
      <3>2. CASE v = w
        BY <2>1, <3>2
      <3>3. CASE v # w
        BY <2>1, <2>2, <2>3, <3>1, <3>3
      <3> QED BY <3>2, <3>3
    <2>5. CurrentRunUnique'
      <3>1. ASSUME NEW v \in Workers, v # w, Executing(v)', job'[v] = job'[w]
            PROVE  attempt'[v] # attempt'[w]
        BY <2>1, <2>2, <2>3, <3>1
      <3>2. ASSUME NEW v \in Workers, NEW u \in Workers, v # w, u # w, u # v,
                   Executing(v)', Executing(u)', job'[v] = job'[u]
            PROVE  attempt'[v] # attempt'[u]
        BY <1>1, <2>1, <2>2, <3>2 DEF CurrentRunUnique
      <3> QED BY <3>1, <3>2 DEF CurrentRunUnique
    <2> QED BY <2>4, <2>5
  <1>6. CASE UNCHANGED vars \/ Environment
    BY <1>4, <1>6 DEF vars, local, Environment, UpsertProject, AppendEvent, EnqueueRequest,
                      LeaseExpires, Executing
  <1>7. ASSUME NEW w \in Workers, Start(w) \/ Crash(w) \/ (Poll(w) /\ ~Claim(w))
        PROVE  HeldInv' /\ CurrentRunUnique'
    <2>1. SUFFICES ASSUME NEW v \in Workers, Executing(v)'
                   PROVE  Executing(v) /\ job'[v] = job[v] /\ attempt'[v] = attempt[v]
      BY <1>4
    <2>2. CASE v = w
      BY <1>2, <1>7, <2>1, <2>2 DEF Start, Crash, Poll, Fetch, EnqueueForEvent, IgnoreEvent,
             DispatchFails, AdvanceCursor, ClaimNone, Complete, FailRead, FailWrite,
             Goto, Executing
    <2>3. CASE v # w
      BY <1>2, <1>7, <2>1, <2>3 DEF Start, Crash, Poll, Fetch, EnqueueForEvent, IgnoreEvent,
             DispatchFails, AdvanceCursor, ClaimNone, Complete, FailRead, FailWrite,
             Goto, DropJob, Executing
    <2> QED BY <2>2, <2>3
  <1> QED BY <1>5, <1>6, <1>7 DEF Next

LEMMA TerminalStep ==
  ASSUME IInv, [Next]_vars
  PROVE  TerminalInv'
  <1>1. TypeOK /\ HeldInv /\ TerminalInv /\ JobsStep
    BY NextJobsStep DEF IInv
  <1>2. /\ pc \in [Workers -> {"down", "poll", "dispatch", "advance", "run", "fail"}]
        /\ job \in [Workers -> Nat]
        /\ attempt \in [Workers -> 0 .. MaxAttempts]
        /\ terminal \in [Workers -> BOOLEAN]
        /\ MaxAttempts \in Nat
    BY <1>1, ConstantsAssumption DEF TypeOK
  <1>3. \A i \in DOMAIN jobs : jobs[i].attempts \in Int /\ jobs'[i].attempts \in Int
    BY <1>1, TableType DEF JobsStep, TypeOK
  <1>4. ASSUME NEW v \in Workers, pc'[v] = "fail", pc[v] = "fail",
               UNCHANGED <<job[v], attempt[v], terminal[v]>>,
               attempt'[v] = jobs'[job'[v]].attempts
        PROVE  terminal'[v] <=> attempt'[v] >= MaxAttempts
    <2>1. /\ job[v] \in DOMAIN jobs /\ attempt[v] <= jobs[job[v]].attempts
          /\ jobs[job[v]].attempts <= jobs'[job[v]].attempts
      BY <1>1, <1>4 DEF HeldInv, Executing, JobsStep
    <2>2. attempt[v] = jobs[job[v]].attempts
      BY <1>2, <1>3, <1>4, <2>1
    <2> QED BY <1>1, <1>4, <2>2 DEF TerminalInv
  <1>5. ASSUME NEW v \in Workers, pc'[v] = "fail"
        PROVE  \/ pc[v] = "fail" /\ UNCHANGED <<job[v], attempt[v], terminal[v]>>
               \/ FailRead(v)
    <2>1. CASE UNCHANGED vars \/ Environment
      BY <1>5, <2>1 DEF vars, local, Environment, UpsertProject, AppendEvent, EnqueueRequest,
                        LeaseExpires
    <2>2. ASSUME NEW w \in Workers, w # v, Start(w) \/ Crash(w) \/ Poll(w)
          PROVE  pc[v] = "fail" /\ UNCHANGED <<job[v], attempt[v], terminal[v]>>
      BY <1>2, <1>5, <2>2 DEF Start, Crash, Poll, Fetch, EnqueueForEvent, IgnoreEvent,
             DispatchFails, AdvanceCursor, ClaimNone, Claim, Complete, FailRead, FailWrite,
             Goto, DropJob
    <2>3. CASE Start(v) \/ Crash(v) \/ Poll(v)
      BY <1>2, <1>5, <2>3 DEF Start, Crash, Poll, Fetch, EnqueueForEvent, IgnoreEvent,
             DispatchFails, AdvanceCursor, ClaimNone, Claim, Complete, FailWrite, Goto
    <2> QED BY <2>1, <2>2, <2>3 DEF Next
  <1>6. ASSUME NEW v \in Workers, FailRead(v), attempt'[v] = jobs'[job'[v]].attempts
        PROVE  terminal'[v] <=> attempt'[v] >= MaxAttempts
    <2>1. /\ UNCHANGED <<jobs, job, attempt>>
          /\ terminal' = [terminal EXCEPT ![v] = jobs[job[v]].attempts >= MaxAttempts]
      BY <1>6 DEF FailRead, table
    <2>2. terminal'[v] <=> jobs[job[v]].attempts >= MaxAttempts
      BY <1>2, <2>1, Zenon
    <2> QED BY <1>6, <2>1, <2>2
  <1> QED BY <1>4, <1>5, <1>6 DEF TerminalInv

LEMMA InitInv == Init => IInv
  <1> SUFFICES ASSUME Init PROVE IInv
    OBVIOUS
  <1>1. TypeOK
    BY ConstantsAssumption DEF Init, TypeOK
  <1>2. OneJobPerKey /\ NoEventSkipped
    BY DEF Init, OneJobPerKey, NoEventSkipped
  <1>3. BatchInv /\ HeldInv /\ CurrentRunUnique /\ TerminalInv
    BY DEF Init, BatchInv, Batch, HeldInv, CurrentRunUnique, TerminalInv, Executing
  <1> QED BY <1>1, <1>2, <1>3 DEF IInv

LEMMA NextInv == IInv /\ [Next]_vars => IInv'
  <1> SUFFICES ASSUME IInv, [Next]_vars PROVE IInv'
    OBVIOUS
  <1>1. TypeOK'
    BY TypeStep DEF IInv
  <1>2. OneJobPerKey'
    BY NextJobsStep, UniqueStep DEF IInv
  <1>3. NoEventSkipped'
    <2>1. NoEventSkipped' <=> 1 .. cursor' \subseteq Dispatched'
      BY <1>1 DEF TypeOK, NoEventSkipped, Dispatched
    <2> QED BY <2>1, CursorStep
  <1> QED BY <1>1, <1>2, <1>3, BatchStep, HeldStep, TerminalStep DEF IInv

-----------------------------------------------------------------------------
\* The theorems.

THEOREM Invariance == Spec => []IInv
  <1>1. Init => IInv
    BY InitInv
  <1>2. IInv /\ [Next]_vars => IInv'
    BY NextInv
  <1> QED BY <1>1, <1>2, PTL DEF Spec

\* Every column, cursor and local variable keeps its type; in particular no row
\* is ever given more than MaxAttempts runs.
THEOREM TypeCorrect == Spec => []TypeOK
  BY Invariance, PTL DEF IInv

\* Enqueueing is idempotent whatever the interleaving, retries and crashes.
THEOREM JobsAreUnique == Spec => []OneJobPerKey
  BY Invariance, PTL DEF IInv

\* The cursor passes no event that asked for an inspection and has none.
THEOREM DispatchIsComplete == Spec => []NoEventSkipped
  BY Invariance, PTL DEF IInv

\* Two runs of a row are never on the same attempt.
THEOREM RunsAreDistinct == Spec => []CurrentRunUnique
  BY Invariance, PTL DEF IInv

-----------------------------------------------------------------------------
\* What a step does to one row, and whose report it holds.

\* The row changes its hands, but keeps its report, which was not final.
Moved(i) == /\ jobs[i].status # "completed"
            /\ jobs'[i].result = jobs[i].result
            /\ jobs'[i].status = "running" \/ jobs'[i].error = "lease expired"

LEMMA RowFate ==
  ASSUME TypeOK, HeldInv, [Next]_vars, NEW i \in DOMAIN jobs
  PROVE  \/ jobs'[i] = jobs[i]
         \/ Moved(i)
         \/ \E w \in Workers : /\ Complete(w) /\ job[w] = i
                               /\ jobs'[i] = Completed(jobs[i], attempt[w])
         \/ \E w \in Workers : /\ FailWrite(w) /\ job[w] = i
                               /\ jobs'[i] = Failed(jobs[i], terminal[w])
  <1>1. jobs \in Seq(JobRows) /\ jobs[i] \in JobRows
    BY DEF TypeOK
  <1>2. ASSUME NEW k \in Keys, jobs' = Enqueued(jobs, k) PROVE jobs'[i] = jobs[i]
    BY <1>1, <1>2, EnqueuedFacts
  <1>3. \/ Recovered(jobs)[i] = jobs[i]
        \/ /\ jobs[i].status = "running"
           /\ Recovered(jobs)[i].result = jobs[i].result
           /\ Recovered(jobs)[i].error = "lease expired"
    BY <1>1 DEF Recovered, JobRows
  <1>4. CASE UNCHANGED jobs
    BY <1>4
  <1>5. ASSUME NEW k \in DOMAIN jobs, LeaseExpires(k) PROVE jobs'[i] = jobs[i] \/ Moved(i)
    BY <1>1, <1>5 DEF LeaseExpires, Moved, JobRows
  <1>6. ASSUME NEW p \in Projects, NEW q \in Requests, EnqueueRequest(p, q)
        PROVE  jobs'[i] = jobs[i]
    BY <1>2, <1>6 DEF EnqueueRequest, Keys
  <1>7. ASSUME NEW w \in Workers, EnqueueForEvent(w) PROVE jobs'[i] = jobs[i]
    <2>1. next[w] \in 1 .. MaxEvents
      BY <1>7, ConstantsAssumption DEF EnqueueForEvent, TypeOK
    <2>2. EventKey(next[w]) \in Keys
      BY <2>1 DEF Keys
    <2> QED BY <1>2, <1>7, <2>2 DEF EnqueueForEvent
  <1>8. ASSUME NEW w \in Workers, ClaimNone(w) PROVE jobs'[i] = jobs[i] \/ Moved(i)
    BY <1>3, <1>8 DEF ClaimNone, Moved
  <1>9. ASSUME NEW w \in Workers, Claim(w) PROVE jobs'[i] = jobs[i] \/ Moved(i)
    <2> DEFINE R == Recovered(jobs)
    <2>1. /\ R \in Seq(JobRows) /\ DOMAIN R = DOMAIN jobs
          /\ jobs[i].status # "running" => R[i] = jobs[i]
      BY <1>1, RecoveredFacts
    <2>2. PICK k \in Claimable(R) : jobs' = [R EXCEPT ![k] = Leased(R[k], w)]
      BY <1>9 DEF Claim
    <2>3. k \in DOMAIN R /\ R[k].status = "queued" /\ R[i] \in JobRows
      BY <2>1, <2>2 DEF Claimable
    <2>4. CASE k # i
      <3>1. jobs'[i] = R[i]
        BY <2>1, <2>2, <2>3, <2>4
      <3> QED BY <1>3, <3>1 DEF Moved
    <2>5. CASE k = i
      <3>1. jobs'[i] = Leased(R[i], w)
        BY <2>1, <2>2, <2>3, <2>5
      <3>2. jobs'[i].status = "running" /\ jobs'[i].result = R[i].result
        BY <2>3, <3>1 DEF Leased, JobRows
      <3>3. jobs[i].status # "completed" /\ R[i].result = jobs[i].result
        BY <1>3, <2>3, <2>5
      <3> QED BY <3>2, <3>3 DEF Moved
    <2> QED BY <2>4, <2>5
  <1>10. ASSUME NEW w \in Workers, Complete(w)
         PROVE  \/ jobs'[i] = jobs[i]
                \/ job[w] = i /\ jobs'[i] = Completed(jobs[i], attempt[w])
    <2>1. jobs' = [jobs EXCEPT ![job[w]] = Completed(jobs[job[w]], attempt[w])]
      BY <1>10 DEF Complete
    <2> QED BY <1>1, <2>1
  <1>11. ASSUME NEW w \in Workers, FailWrite(w)
         PROVE  \/ jobs'[i] = jobs[i]
                \/ job[w] = i /\ jobs'[i] = Failed(jobs[i], terminal[w])
    <2>1. jobs' = [jobs EXCEPT ![job[w]] = Failed(jobs[job[w]], terminal[w])]
      BY <1>11 DEF FailWrite
    <2> QED BY <1>1, <2>1
  <1>12. CASE Environment
    BY <1>4, <1>5, <1>6, <1>12 DEF Environment, UpsertProject, AppendEvent
  <1>13. ASSUME NEW w \in Workers, Start(w) \/ Crash(w) \/ Poll(w)
         PROVE  \/ UNCHANGED jobs \/ EnqueueForEvent(w) \/ ClaimNone(w) \/ Claim(w)
                \/ Complete(w) \/ FailWrite(w)
    BY <1>13 DEF Start, Crash, Poll, Fetch, IgnoreEvent, DispatchFails, AdvanceCursor,
                 FailRead, table
  <1> QED BY <1>4, <1>7, <1>8, <1>9, <1>10, <1>11, <1>12, <1>13 DEF Next, vars

\* A row that was not there has been enqueued.
LEMMA NewRowFate ==
  ASSUME TypeOK, HeldInv, [Next]_vars, NEW i \in DOMAIN jobs', i \notin DOMAIN jobs
  PROVE  jobs'[i].attempts = 0 /\ jobs'[i].result = 0
  <1>1. jobs \in Seq(JobRows)
    BY DEF TypeOK
  <1>2. ASSUME NEW k \in Keys, jobs' = Enqueued(jobs, k)
        PROVE  jobs'[i].attempts = 0 /\ jobs'[i].result = 0
    BY <1>1, <1>2, EnqueuedFacts DEF NewRow
  <1>3. ASSUME NEW p \in Projects, NEW q \in Requests, EnqueueRequest(p, q)
        PROVE  jobs'[i].attempts = 0 /\ jobs'[i].result = 0
    BY <1>2, <1>3 DEF EnqueueRequest, Keys
  <1>4. ASSUME NEW w \in Workers, EnqueueForEvent(w)
        PROVE  jobs'[i].attempts = 0 /\ jobs'[i].result = 0
    <2>1. next[w] \in 1 .. MaxEvents
      BY <1>4, ConstantsAssumption DEF EnqueueForEvent, TypeOK
    <2>2. EventKey(next[w]) \in Keys
      BY <2>1 DEF Keys
    <2> QED BY <1>2, <1>4, <2>2 DEF EnqueueForEvent
  <1>5. ASSUME NEW k \in DOMAIN jobs, LeaseExpires(k) PROVE DOMAIN jobs' = DOMAIN jobs
    BY <1>1, <1>5 DEF LeaseExpires
  <1>6. ASSUME NEW w \in Workers, ClaimNone(w) \/ Claim(w) \/ Complete(w) \/ FailWrite(w)
        PROVE  DOMAIN jobs' = DOMAIN jobs
    <2>1. CASE ClaimNone(w)
      BY <1>1, <2>1, RecoveredFacts DEF ClaimNone
    <2>2. CASE Claim(w)
      BY <2>2, ClaimStep
    <2>3. CASE Complete(w) \/ FailWrite(w)
      BY <1>1, <2>3 DEF Complete, FailWrite
    <2> QED BY <1>6, <2>1, <2>2, <2>3
  <1>7. CASE Environment
    BY <1>3, <1>5, <1>7 DEF Environment, UpsertProject, AppendEvent
  <1>8. ASSUME NEW w \in Workers, Start(w) \/ Crash(w) \/ Poll(w)
        PROVE  \/ UNCHANGED jobs \/ EnqueueForEvent(w) \/ ClaimNone(w) \/ Claim(w)
               \/ Complete(w) \/ FailWrite(w)
    BY <1>8 DEF Start, Crash, Poll, Fetch, IgnoreEvent, DispatchFails, AdvanceCursor,
                FailRead, table
  <1> QED BY <1>4, <1>6, <1>7, <1>8 DEF Next, vars

\* The report of a row is that of a run it has had, and no longer at work.
ResultInv ==
    /\ \A i \in DOMAIN jobs : jobs[i].result <= jobs[i].attempts
    /\ \A w \in Workers : Executing(w) => jobs[job[w]].result # attempt[w]

LEMMA Executes ==
  ASSUME TypeOK, [Next]_vars, NEW v \in Workers, Executing(v)'
  PROVE  \/ Claim(v)
         \/ Executing(v) /\ ~Complete(v) /\ job'[v] = job[v] /\ attempt'[v] = attempt[v]
  <1>1. /\ pc \in [Workers -> {"down", "poll", "dispatch", "advance", "run", "fail"}]
        /\ job \in [Workers -> Nat]
        /\ attempt \in [Workers -> 0 .. MaxAttempts]
    BY DEF TypeOK
  <1>2. ~Complete(v)
    BY <1>1 DEF Complete, Goto, Executing
  <1>3. CASE UNCHANGED vars \/ Environment
    BY <1>2, <1>3 DEF vars, local, Environment, UpsertProject, AppendEvent, EnqueueRequest,
                      LeaseExpires, Executing
  <1>4. ASSUME NEW w \in Workers, w # v, Start(w) \/ Crash(w) \/ Poll(w)
        PROVE  Executing(v) /\ job'[v] = job[v] /\ attempt'[v] = attempt[v]
    BY <1>1, <1>4 DEF Start, Crash, Poll, Fetch, EnqueueForEvent, IgnoreEvent,
           DispatchFails, AdvanceCursor, ClaimNone, Claim, Complete, FailRead, FailWrite,
           Goto, DropJob, Executing
  <1>5. CASE Start(v) \/ Crash(v) \/ Poll(v)
    BY <1>1, <1>2, <1>5 DEF Start, Crash, Poll, Fetch, EnqueueForEvent, IgnoreEvent,
           DispatchFails, AdvanceCursor, ClaimNone, Complete, FailRead, FailWrite,
           Goto, Executing
  <1> QED BY <1>2, <1>3, <1>4, <1>5 DEF Next

LEMMA Numbers ==
  ASSUME TypeOK, HeldInv, [Next]_vars
  PROVE  /\ \A i \in DOMAIN jobs : /\ jobs[i].attempts \in Int /\ jobs[i].result \in Int
                                   /\ i \in DOMAIN jobs' /\ jobs'[i].attempts \in Int
                                   /\ jobs[i].attempts <= jobs'[i].attempts
         /\ \A w \in Workers : attempt[w] \in Int
  <1>1. jobs \in Seq(JobRows) /\ jobs' \in Seq(JobRows)
    BY NextJobsStep DEF TypeOK, JobsStep
  <1>2. \A row \in JobRows : row.attempts \in 0 .. MaxAttempts /\ row.result \in 0 .. MaxAttempts
    BY DEF JobRows
  <1>3. \A n \in 0 .. MaxAttempts : n \in Int
    BY ConstantsAssumption
  <1>4. \A i \in DOMAIN jobs : /\ i \in DOMAIN jobs' /\ jobs[i] \in JobRows /\ jobs'[i] \in JobRows
                               /\ jobs'[i].attempts >= jobs[i].attempts
    BY <1>1, NextJobsStep DEF JobsStep
  <1>5. \A w \in Workers : attempt[w] \in 0 .. MaxAttempts
    BY DEF TypeOK
  <1> QED BY <1>2, <1>3, <1>4, <1>5

LEMMA ResultStep ==
  ASSUME IInv, ResultInv, [Next]_vars
  PROVE  ResultInv'
  <1>1. TypeOK /\ HeldInv /\ CurrentRunUnique
    BY DEF IInv
  <1>2. /\ \A i \in DOMAIN jobs : /\ jobs[i].attempts \in Int /\ jobs[i].result \in Int
                                  /\ i \in DOMAIN jobs' /\ jobs'[i].attempts \in Int
                                  /\ jobs[i].attempts <= jobs'[i].attempts
        /\ \A w \in Workers : attempt[w] \in Int
    BY <1>1, Numbers
  <1>3. ASSUME NEW i \in DOMAIN jobs
        PROVE  \/ jobs'[i].result = jobs[i].result
               \/ \E w \in Workers : /\ Complete(w) /\ Executing(w) /\ job[w] = i
                                     /\ jobs'[i].result = attempt[w]
                                     /\ attempt[w] <= jobs[i].attempts
    <2>1. jobs[i] \in JobRows
      BY <1>1 DEF TypeOK
    <2>2. ASSUME NEW w \in Workers, Complete(w), job[w] = i,
                 jobs'[i] = Completed(jobs[i], attempt[w])
          PROVE  /\ Executing(w) /\ jobs'[i].result = attempt[w]
                 /\ attempt[w] <= jobs[i].attempts
      BY <1>1, <2>1, <2>2 DEF Complete, Goto, Executing, HeldInv, Completed, JobRows
    <2>3. ASSUME NEW w \in Workers, jobs'[i] = Failed(jobs[i], terminal[w])
          PROVE  jobs'[i].result = jobs[i].result
      BY <2>1, <2>3 DEF Failed, JobRows
    <2> QED BY <1>1, <2>2, <2>3, RowFate DEF Moved
  <1>4. ASSUME NEW i \in DOMAIN jobs
        PROVE  jobs'[i].result <= jobs[i].attempts /\ jobs'[i].result \in Int
    BY <1>2, <1>3 DEF ResultInv
  <1>5. ASSUME NEW i \in DOMAIN jobs' PROVE jobs'[i].result <= jobs'[i].attempts
    <2>1. CASE i \in DOMAIN jobs
      BY <1>2, <1>4, <2>1
    <2>2. CASE i \notin DOMAIN jobs
      BY <1>1, <2>2, NewRowFate
    <2> QED BY <2>1, <2>2
  <1>6. ASSUME NEW v \in Workers, Executing(v)' PROVE jobs'[job'[v]].result # attempt'[v]
    <2>1. CASE Claim(v)
      <3>1. job'[v] \in DOMAIN jobs /\ attempt'[v] = jobs[job'[v]].attempts + 1
        BY <1>1, <2>1, ClaimStep
      <3> QED BY <1>2, <1>4, <3>1
    <2>2. CASE Executing(v) /\ ~Complete(v) /\ job'[v] = job[v] /\ attempt'[v] = attempt[v]
      <3>1. job[v] \in DOMAIN jobs /\ jobs[job[v]].result # attempt[v]
        BY <1>1, <2>2 DEF HeldInv, ResultInv
      <3>2. ASSUME NEW w \in Workers, Complete(w), Executing(w), job[w] = job[v]
            PROVE  attempt[w] # attempt[v]
        BY <1>1, <2>2, <3>2 DEF CurrentRunUnique
      <3> QED BY <1>3, <2>2, <3>1, <3>2
    <2> QED BY <1>1, <1>6, <2>1, <2>2, Executes
  <1> QED BY <1>5, <1>6 DEF ResultInv

\* No report is that of a run still at work, which is why its own run replaces none.
LEMMA ResultsSound == Spec => []ResultInv
  <1>1. Init => ResultInv
    BY DEF Init, ResultInv, Executing
  <1>2. IInv /\ ResultInv /\ [Next]_vars => ResultInv'
    BY ResultStep
  <1> QED BY <1>1, <1>2, Invariance, PTL DEF Spec

LEMMA UndoneStep ==
  ASSUME IInv, ResultInv, [Next]_vars
  PROVE  /\ \A i \in DOMAIN jobs :
               ReportUndone(i) => \E w \in Workers : Stale(w) /\ job[w] = i
         /\ \A i \in DOMAIN jobs' :
               Stranded(i) => \/ jobs'[i].error = "lease expired"
                              \/ \E w \in Workers : job[w] = i /\ attempt[w] < jobs'[i].attempts
  <1>1. TypeOK /\ HeldInv /\ TerminalInv
    BY DEF IInv
  <1>2. /\ \A i \in DOMAIN jobs : /\ jobs[i].attempts \in Int /\ jobs[i].result \in Int
                                  /\ i \in DOMAIN jobs' /\ jobs'[i].attempts \in Int
                                  /\ jobs[i].attempts <= jobs'[i].attempts
        /\ \A w \in Workers : attempt[w] \in Int
    BY <1>1, Numbers
  <1>3. ASSUME NEW i \in DOMAIN jobs, ReportUndone(i)
        PROVE  \E w \in Workers : Stale(w) /\ job[w] = i
    <2>1. PICK w \in Workers : Executing(w) /\ job[w] = i
      <3>1. PICK w \in Workers : (Complete(w) \/ FailWrite(w)) /\ job[w] = i
        BY <1>1, <1>3, RowFate DEF ReportUndone, Moved
      <3> QED BY <3>1 DEF Complete, FailWrite, Goto, Executing
    <2>2. attempt[w] <= jobs[i].attempts /\ jobs[i].attempts # attempt[w]
      BY <1>1, <1>3, <2>1 DEF HeldInv, ResultInv, ReportUndone
    <2> QED BY <1>2, <2>1, <2>2 DEF Stale
  <1>4. ASSUME NEW i \in DOMAIN jobs', Stranded(i)
        PROVE  \/ jobs'[i].error = "lease expired"
               \/ \E w \in Workers : job[w] = i /\ attempt[w] < jobs'[i].attempts
    <2>1. i \in DOMAIN jobs /\ jobs[i].status # "queued"
      <3>1. ~(0 >= MaxAttempts)
        BY ConstantsAssumption
      <3>2. i \notin DOMAIN jobs => jobs'[i].attempts = 0
        BY <1>1, NewRowFate
      <3> QED BY <1>4, <3>1, <3>2 DEF Stranded
    <2>2. jobs[i] \in JobRows
      BY <1>1, <2>1 DEF TypeOK
    <2>3. CASE Moved(i)
      BY <1>4, <2>3 DEF Moved, Stranded
    <2>4. ASSUME NEW w \in Workers, jobs'[i] = Completed(jobs[i], attempt[w]) PROVE FALSE
      BY <1>4, <2>2, <2>4 DEF Completed, Stranded, JobRows
    <2>5. ASSUME NEW w \in Workers, FailWrite(w), job[w] = i,
                 jobs'[i] = Failed(jobs[i], terminal[w])
          PROVE  attempt[w] < jobs'[i].attempts
      <3>1. pc[w] = "fail" /\ Executing(w)
        BY <2>5 DEF FailWrite, Goto, Executing
      <3>2. jobs'[i].attempts = jobs[i].attempts /\ ~terminal[w]
        BY <1>4, <2>2, <2>5 DEF Failed, Stranded, JobRows
      <3>3. jobs[i].attempts >= MaxAttempts /\ attempt[w] <= jobs[i].attempts
        BY <1>1, <1>4, <2>5, <3>1, <3>2 DEF Stranded, HeldInv
      <3>4. attempt[w] # jobs[i].attempts
        BY <1>1, <2>5, <3>1, <3>2, <3>3 DEF TerminalInv
      <3> QED BY <1>2, <2>1, <3>2, <3>3, <3>4
    <2>6. jobs'[i] # jobs[i]
      BY <1>4, <2>1 DEF Stranded
    <2> QED BY <1>1, <2>1, <2>3, <2>4, <2>5, <2>6, RowFate
  <1> QED BY <1>3, <1>4

\* Only a run that has outlived its lease replaces or reopens the report of the
\* newest run, or leaves a row without attempts in the queue.
THEOREM OnlyStaleRunsUndo == Spec => OnlyLostRunsUndo
  <1>1. IInv /\ ResultInv /\ [Next]_vars =>
           [/\ \A i \in DOMAIN jobs :
                  ReportUndone(i) => \E w \in Workers : Stale(w) /\ job[w] = i
            /\ \A i \in DOMAIN jobs' :
                  Stranded(i) => \/ jobs'[i].error = "lease expired"
                                 \/ \E w \in Workers : job[w] = i
                                                       /\ attempt[w] < jobs'[i].attempts]_vars
    BY UndoneStep
  <1> QED BY <1>1, Invariance, ResultsSound, PTL DEF Spec, OnlyLostRunsUndo

-----------------------------------------------------------------------------
\* InspectionJobs implements JobLifecycle while no run is superseded.

Unique(js) == \A i, k \in DOMAIN js : js[i].key = js[k].key => i = k

LEMMA StatusFacts ==
  ASSUME NEW js, Unique(js), NEW i \in DOMAIN js, js[i].key \in Keys
  PROVE  /\ HasKey(js, js[i].key)
         /\ StatusOf(js)[js[i].key] = js[i].status
         /\ AttemptsOf(js)[js[i].key] = js[i].attempts
  <1>1. HasKey(js, js[i].key)
    BY DEF HasKey
  <1>2. RowOf(js, js[i].key) = i
    BY DEF RowOf, Unique
  <1> QED BY <1>1, <1>2 DEF StatusOf, AttemptsOf

\* Two tables with the same rows but for what the rows hold show every key the
\* same row.
LEMMA SameKeys ==
  ASSUME NEW js, NEW ks, Unique(js), DOMAIN ks = DOMAIN js,
         \A i \in DOMAIN js : ks[i].key = js[i].key,
         NEW k \in Keys
  PROVE  \/ /\ \A i \in DOMAIN js : js[i].key # k
            /\ StatusOf(js)[k] = "absent" /\ StatusOf(ks)[k] = "absent"
            /\ AttemptsOf(js)[k] = 0 /\ AttemptsOf(ks)[k] = 0
         \/ \E i \in DOMAIN js :
               /\ js[i].key = k
               /\ StatusOf(js)[k] = js[i].status /\ StatusOf(ks)[k] = ks[i].status
               /\ AttemptsOf(js)[k] = js[i].attempts /\ AttemptsOf(ks)[k] = ks[i].attempts
  <1>1. CASE HasKey(js, k)
    <2>1. PICK i \in DOMAIN js : js[i].key = k
      BY <1>1 DEF HasKey
    <2>2. Unique(ks)
      BY DEF Unique
    <2> QED BY <2>1, <2>2, StatusFacts
  <1>2. CASE ~HasKey(js, k)
    BY <1>2 DEF HasKey, StatusOf, AttemptsOf
  <1> QED BY <1>1, <1>2

\* A step that changes one row's status and no attempts changes one key.
LEMMA OneRow ==
  ASSUME NEW js, NEW ks, Unique(js), DOMAIN ks = DOMAIN js,
         \A i \in DOMAIN js : js[i].key \in Keys /\ ks[i].key = js[i].key
                                              /\ ks[i].attempts = js[i].attempts,
         NEW r \in DOMAIN js,
         \A i \in DOMAIN js : i # r => ks[i].status = js[i].status
  PROVE  /\ StatusOf(ks) = [StatusOf(js) EXCEPT ![js[r].key] = ks[r].status]
         /\ AttemptsOf(ks) = AttemptsOf(js)
  <1> DEFINE S == [StatusOf(js) EXCEPT ![js[r].key] = ks[r].status]
  <1>1. /\ DOMAIN StatusOf(ks) = Keys /\ StatusOf(ks) = [k \in Keys |-> StatusOf(ks)[k]]
        /\ DOMAIN S = Keys /\ S = [k \in Keys |-> S[k]]
        /\ AttemptsOf(ks) = [k \in Keys |-> AttemptsOf(ks)[k]]
        /\ AttemptsOf(js) = [k \in Keys |-> AttemptsOf(js)[k]]
    BY DEF StatusOf, AttemptsOf
  <1>2. ASSUME NEW k \in Keys
        PROVE  StatusOf(ks)[k] = S[k] /\ AttemptsOf(ks)[k] = AttemptsOf(js)[k]
    <2>1. S[k] = IF k = js[r].key THEN ks[r].status ELSE StatusOf(js)[k]
      BY DEF StatusOf
    <2> HIDE DEF S
    <2> QED BY <2>1, SameKeys DEF Unique
  <1> HIDE DEF S
  <1>3. StatusOf(ks) = S /\ AttemptsOf(ks) = AttemptsOf(js)
    BY <1>1, <1>2
  <1> QED BY <1>3 DEF S

LEMMA EnqueueRefines ==
  ASSUME TypeOK, OneJobPerKey, NEW k \in Keys, jobs' = Enqueued(jobs, k)
  PROVE  [Lifecycle!LNext]_(Lifecycle!lvars)
  <1>1. jobs \in Seq(JobRows)
    BY DEF TypeOK
  <1>2. CASE HasKey(jobs, k)
    BY <1>2 DEF Enqueued, Lifecycle!lvars
  <1>3. CASE ~HasKey(jobs, k)
    <2>1. /\ DOMAIN jobs = 1 .. Len(jobs) /\ DOMAIN jobs' = 1 .. Len(jobs) + 1
          /\ Len(jobs) \in Nat
          /\ \A i \in DOMAIN jobs : jobs'[i] = jobs[i]
          /\ jobs'[Len(jobs) + 1] = NewRow(k)
      <3>1. jobs' = Append(jobs, NewRow(k))
        BY <1>3 DEF Enqueued
      <3> QED BY <1>1, <3>1, NewRowType
    <2>2. Unique(jobs)
      BY DEF OneJobPerKey, Unique
    <2>3. Unique(jobs')
      <3>1. \A i \in DOMAIN jobs : jobs'[i].key # k
        BY <1>3, <2>1 DEF HasKey
      <3>2. jobs'[Len(jobs) + 1].key = k
        BY <2>1 DEF NewRow
      <3> QED BY <2>1, <2>2, <3>1, <3>2 DEF Unique
    <2>4. ASSUME NEW l \in Keys
          PROVE  /\ StatusOf(jobs')[l] = IF l = k THEN "queued" ELSE StatusOf(jobs)[l]
                 /\ AttemptsOf(jobs')[l] = AttemptsOf(jobs)[l]
      <3>1. CASE l = k
        <4>1. /\ StatusOf(jobs')[k] = "queued" /\ AttemptsOf(jobs')[k] = 0
          <5>1. Len(jobs) + 1 \in DOMAIN jobs'
            BY <2>1
          <5> QED BY <2>1, <2>3, <5>1, StatusFacts DEF NewRow
        <4>2. AttemptsOf(jobs)[k] = 0
          BY <1>3 DEF AttemptsOf
        <4> QED BY <3>1, <4>1, <4>2
      <3>2. CASE l # k /\ HasKey(jobs, l)
        <4>1. PICK i \in DOMAIN jobs : jobs[i].key = l
          BY <3>2 DEF HasKey
        <4>2. i \in DOMAIN jobs' /\ jobs'[i] = jobs[i]
          BY <2>1
        <4> QED BY <2>2, <2>3, <3>2, <4>1, <4>2, StatusFacts
      <3>3. CASE l # k /\ ~HasKey(jobs, l)
        <4>1. ~HasKey(jobs', l)
          BY <2>1, <3>3 DEF HasKey, NewRow
        <4> QED BY <3>3, <4>1 DEF StatusOf, AttemptsOf
      <3> QED BY <3>1, <3>2, <3>3
    <2>5. /\ StatusOf(jobs)[k] = "absent"
          /\ StatusOf(jobs') = [StatusOf(jobs) EXCEPT ![k] = "queued"]
          /\ AttemptsOf(jobs') = AttemptsOf(jobs)
      BY <1>3, <2>4 DEF StatusOf, AttemptsOf
    <2>6. Lifecycle!Submit(k)
      BY <2>5 DEF Lifecycle!Submit
    <2> QED BY <2>6 DEF Lifecycle!LNext
  <1> QED BY <1>2, <1>3

LEMMA KeysOfRows ==
  ASSUME TypeOK, OneJobPerKey
  PROVE  /\ jobs \in Seq(JobRows) /\ Unique(jobs)
         /\ \A i \in DOMAIN jobs : jobs[i] \in JobRows /\ jobs[i].key \in Keys
  <1>1. jobs \in Seq(JobRows) /\ Unique(jobs)
    BY DEF TypeOK, OneJobPerKey, Unique
  <1>2. \A i \in DOMAIN jobs : jobs[i] \in JobRows
    BY <1>1
  <1>3. \A i \in DOMAIN jobs : jobs[i].key \in Keys
    BY <1>2 DEF JobRows
  <1> QED BY <1>1, <1>2, <1>3

\* The recovery of the expired leases takes the keys of their rows back.
LostKeys == {jobs[i].key : i \in {l \in DOMAIN jobs :
                                     jobs[l].status = "running" /\ jobs[l].lease = "expired"}}

LEMMA LostKeysFacts ==
  ASSUME TypeOK, OneJobPerKey
  PROVE  /\ LostKeys \in SUBSET Keys
         /\ \A l \in LostKeys : StatusOf(jobs)[l] = "running"
         /\ \A i \in DOMAIN jobs :
               /\ Recovered(jobs)[i].status =
                     IF jobs[i].key \in LostKeys THEN "queued" ELSE jobs[i].status
               /\ Recovered(jobs)[i].key = jobs[i].key
               /\ Recovered(jobs)[i].attempts = jobs[i].attempts
  <1>1. /\ jobs \in Seq(JobRows) /\ Unique(jobs)
        /\ \A i \in DOMAIN jobs : jobs[i] \in JobRows /\ jobs[i].key \in Keys
    BY KeysOfRows
  <1>2. LostKeys \in SUBSET Keys
    BY <1>1 DEF LostKeys
  <1>3. \A l \in LostKeys : StatusOf(jobs)[l] = "running"
    BY <1>1, StatusFacts DEF LostKeys
  <1>4. ASSUME NEW i \in DOMAIN jobs
        PROVE  Recovered(jobs)[i].status =
                     IF jobs[i].key \in LostKeys THEN "queued" ELSE jobs[i].status
    <2>1. jobs[i].key \in LostKeys <=> jobs[i].status = "running" /\ jobs[i].lease = "expired"
      BY <1>1 DEF LostKeys, Unique
    <2>2. jobs[i] \in JobRows
      BY <1>1
    <2>3. [jobs[i] EXCEPT !.status = "queued", !.owner = NoWorker,
                          !.lease = "none", !.error = "lease expired"].status = "queued"
      BY <2>2 DEF JobRows
    <2> QED BY <2>1, <2>3 DEF Recovered
  <1> QED BY <1>1, <1>2, <1>3, <1>4, RecoveredFacts

LEMMA ClaimNoneRefines ==
  ASSUME TypeOK, OneJobPerKey, jobs' = Recovered(jobs)
  PROVE  Lifecycle!LNext
  <1>1. /\ jobs \in Seq(JobRows) /\ Unique(jobs) /\ DOMAIN jobs' = DOMAIN jobs
        /\ \A i \in DOMAIN jobs : jobs'[i].key = jobs[i].key
    BY KeysOfRows, RecoveredFacts
  <1>2. ASSUME NEW k \in Keys
        PROVE  /\ StatusOf(jobs')[k] = IF k \in LostKeys THEN "queued" ELSE StatusOf(jobs)[k]
               /\ AttemptsOf(jobs')[k] = AttemptsOf(jobs)[k]
    <2>1. CASE \A i \in DOMAIN jobs : jobs[i].key # k
      <3>1. k \notin LostKeys
        BY <2>1 DEF LostKeys
      <3> QED BY <1>1, <2>1, <3>1, SameKeys
    <2>2. CASE \E i \in DOMAIN jobs : jobs[i].key = k
      BY <1>1, <2>2, SameKeys, LostKeysFacts DEF Unique
    <2> QED BY <2>1, <2>2
  <1>3. /\ StatusOf(jobs') = [l \in Keys |-> IF l \in LostKeys THEN "queued"
                                             ELSE StatusOf(jobs)[l]]
        /\ AttemptsOf(jobs') = AttemptsOf(jobs)
    BY <1>2 DEF StatusOf, AttemptsOf
  <1>4. Lifecycle!Requeue(LostKeys)
    BY <1>3, LostKeysFacts DEF Lifecycle!Requeue
  <1> QED BY <1>4, LostKeysFacts DEF Lifecycle!LNext

LEMMA ClaimRefines ==
  ASSUME TypeOK, OneJobPerKey, NEW w \in Workers, Claim(w)
  PROVE  Lifecycle!LNext
  <1>1. /\ jobs \in Seq(JobRows) /\ Unique(jobs)
        /\ \A i \in DOMAIN jobs : jobs[i] \in JobRows /\ jobs[i].key \in Keys
    BY KeysOfRows
  <1> DEFINE R == Recovered(jobs)
  <1>2. PICK r \in Claimable(R) : jobs' = [R EXCEPT ![r] = Leased(@, w)]
    BY DEF Claim
  <1>3. /\ R \in Seq(JobRows) /\ DOMAIN R = DOMAIN jobs
        /\ r \in DOMAIN jobs /\ R[r].status = "queued" /\ R[r].attempts < MaxAttempts
        /\ R[r] \in JobRows
    BY <1>1, <1>2, RecoveredFacts DEF Claimable
  <1> DEFINE k == jobs[r].key
  <1>4. /\ Leased(R[r], w).status = "running" /\ Leased(R[r], w).key = k
        /\ Leased(R[r], w).attempts = jobs[r].attempts + 1
    <2>1. Leased(R[r], w).status = "running"
      BY <1>3 DEF Leased, JobRows
    <2> QED BY <1>1, <1>3, <2>1, LeasedFacts, RecoveredFacts
  <1>5. /\ DOMAIN jobs' = DOMAIN jobs /\ jobs'[r] = Leased(R[r], w)
        /\ \A i \in DOMAIN jobs : i # r => jobs'[i] = R[i]
    BY <1>2, <1>3
  <1>6. \A i \in DOMAIN jobs : jobs'[i].key = jobs[i].key
    BY <1>1, <1>4, <1>5, RecoveredFacts
  <1> HIDE DEF R
  <1>7. ASSUME NEW l \in Keys
        PROVE  /\ StatusOf(jobs')[l] = IF l = k THEN "running"
                                       ELSE IF l \in LostKeys THEN "queued"
                                       ELSE StatusOf(jobs)[l]
               /\ AttemptsOf(jobs')[l] = IF l = k THEN AttemptsOf(jobs)[l] + 1
                                         ELSE AttemptsOf(jobs)[l]
    <2>1. CASE \A i \in DOMAIN jobs : jobs[i].key # l
      <3>1. l \notin LostKeys /\ l # k
        BY <1>3, <2>1 DEF LostKeys
      <3> QED BY <1>1, <1>5, <1>6, <2>1, <3>1, SameKeys
    <2>2. CASE \E i \in DOMAIN jobs : jobs[i].key = l
      <3>1. PICK i \in DOMAIN jobs :
               /\ jobs[i].key = l
               /\ StatusOf(jobs)[l] = jobs[i].status /\ StatusOf(jobs')[l] = jobs'[i].status
               /\ AttemptsOf(jobs)[l] = jobs[i].attempts
               /\ AttemptsOf(jobs')[l] = jobs'[i].attempts
        <4>1. PICK n \in DOMAIN jobs : jobs[n].key = l
          BY <2>2
        <4>2. /\ Unique(jobs)
              /\ StatusOf(jobs')[l] = jobs'[n].status
              /\ AttemptsOf(jobs')[l] = jobs'[n].attempts
              /\ StatusOf(jobs)[l] = jobs[n].status
              /\ AttemptsOf(jobs)[l] = jobs[n].attempts
          <5>1. Unique(jobs')
            BY <1>1, <1>5, <1>6 DEF Unique
          <5> QED BY <1>1, <1>5, <1>6, <4>1, <5>1, StatusFacts
        <4> QED BY <4>1, <4>2
      <3>2. l = k <=> i = r
        BY <1>1, <1>3, <3>1 DEF Unique
      <3>3. CASE i = r
        <4>1. l = k /\ jobs'[i].status = "running" /\ jobs'[i].attempts = jobs[i].attempts + 1
          BY <1>4, <1>5, <3>2, <3>3 DEF R
        <4> QED BY <3>1, <4>1
      <3>4. CASE i # r
        <4>1. /\ jobs'[i] = R[i] /\ R[i].attempts = jobs[i].attempts
              /\ R[i].status = IF l \in LostKeys THEN "queued" ELSE jobs[i].status
          BY <1>5, <3>1, <3>4, LostKeysFacts DEF R
        <4> QED BY <3>1, <3>2, <3>4, <4>1
      <3> QED BY <3>3, <3>4
    <2> QED BY <2>1, <2>2
  <1>8. /\ StatusOf(jobs') = [l \in Keys |-> IF l = k THEN "running"
                                             ELSE IF l \in LostKeys THEN "queued"
                                             ELSE StatusOf(jobs)[l]]
        /\ AttemptsOf(jobs') = [AttemptsOf(jobs) EXCEPT ![k] = @ + 1]
    BY <1>7 DEF StatusOf, AttemptsOf
  <1>9. /\ k \in Keys
        /\ StatusOf(jobs)[k] = "queued" \/ k \in LostKeys
        /\ AttemptsOf(jobs)[k] < MaxAttempts
    <2>1. /\ StatusOf(jobs)[k] = jobs[r].status /\ AttemptsOf(jobs)[k] = jobs[r].attempts
          /\ k \in Keys
      BY <1>1, <1>3, StatusFacts
    <2>2. /\ R[r].status = IF k \in LostKeys THEN "queued" ELSE jobs[r].status
          /\ R[r].attempts = jobs[r].attempts
      BY <1>3, LostKeysFacts DEF R
    <2> QED BY <1>3, <2>1, <2>2
  <1>10. Lifecycle!Lease(LostKeys, k)
    BY <1>8, <1>9, LostKeysFacts DEF Lifecycle!Lease
  <1> QED BY <1>9, <1>10, LostKeysFacts DEF Lifecycle!LNext

\* A step that writes one row, keeping its key and attempts.
LEMMA RowWriteRefines ==
  ASSUME TypeOK, OneJobPerKey, NEW r \in DOMAIN jobs, NEW row,
         row.key = jobs[r].key, row.attempts = jobs[r].attempts,
         jobs' = [jobs EXCEPT ![r] = row]
  PROVE  /\ jobs[r].key \in Keys
         /\ StatusOf(jobs)[jobs[r].key] = jobs[r].status
         /\ AttemptsOf(jobs)[jobs[r].key] = jobs[r].attempts
         /\ StatusOf(jobs') = [StatusOf(jobs) EXCEPT ![jobs[r].key] = row.status]
         /\ AttemptsOf(jobs') = AttemptsOf(jobs)
  <1>1. /\ Unique(jobs) /\ \A i \in DOMAIN jobs : jobs[i].key \in Keys
        /\ DOMAIN jobs' = DOMAIN jobs /\ jobs'[r] = row
        /\ \A i \in DOMAIN jobs : i # r => jobs'[i] = jobs[i]
    BY KeysOfRows
  <1>2. /\ Unique(jobs) /\ DOMAIN jobs' = DOMAIN jobs
        /\ \A i \in DOMAIN jobs : jobs[i].key \in Keys /\ jobs'[i].key = jobs[i].key
                                              /\ jobs'[i].attempts = jobs[i].attempts
        /\ \A i \in DOMAIN jobs : i # r => jobs'[i].status = jobs[i].status
    BY <1>1
  <1> HIDE DEF Unique
  <1>3. /\ StatusOf(jobs') = [StatusOf(jobs) EXCEPT ![jobs[r].key] = jobs'[r].status]
        /\ AttemptsOf(jobs') = AttemptsOf(jobs)
    BY ONLY <1>2, OneRow, r \in DOMAIN jobs
  <1> QED BY <1>1, <1>3, StatusFacts

LEMMA ExpireRefines ==
  ASSUME TypeOK, OneJobPerKey, NEW i \in DOMAIN jobs, LeaseExpires(i)
  PROVE  UNCHANGED Lifecycle!lvars
  <1> DEFINE row == [jobs[i] EXCEPT !.lease = "expired"]
  <1>1. jobs[i] \in JobRows
    BY KeysOfRows
  <1>2. row.key = jobs[i].key /\ row.attempts = jobs[i].attempts /\ row.status = jobs[i].status
    BY <1>1 DEF JobRows
  <1>3. jobs' = [jobs EXCEPT ![i] = row]
    BY DEF LeaseExpires
  <1> HIDE DEF row
  <1>4. /\ StatusOf(jobs') = [StatusOf(jobs) EXCEPT ![jobs[i].key] = jobs[i].status]
        /\ StatusOf(jobs)[jobs[i].key] = jobs[i].status
        /\ AttemptsOf(jobs') = AttemptsOf(jobs)
    <2>1. /\ StatusOf(jobs') = [StatusOf(jobs) EXCEPT ![jobs[i].key] = row.status]
          /\ StatusOf(jobs)[jobs[i].key] = jobs[i].status
          /\ AttemptsOf(jobs') = AttemptsOf(jobs)
      BY ONLY TypeOK, OneJobPerKey, i \in DOMAIN jobs, <1>2, <1>3, RowWriteRefines
    <2> QED BY <1>2, <2>1
  <1>5. StatusOf(jobs') = StatusOf(jobs)
    BY <1>4 DEF StatusOf
  <1> QED BY <1>4, <1>5 DEF Lifecycle!lvars

LEMMA CompleteRefines ==
  ASSUME IInv, NEW w \in Workers, Complete(w), ~Superseded(w)
  PROVE  Lifecycle!LNext
  <1>1. /\ job[w] \in DOMAIN jobs /\ jobs[job[w]].status = "running"
        /\ jobs' = [jobs EXCEPT ![job[w]] = Completed(jobs[job[w]], attempt[w])]
        /\ attempt[w] \in 0 .. MaxAttempts
    <2>1. pc[w] = "run" /\ Executing(w)
      BY DEF Complete, Goto, Executing
    <2>2. job[w] \in DOMAIN jobs /\ jobs[job[w]].status = "running"
      BY <2>1 DEF IInv, HeldInv, Superseded
    <2> QED BY <2>2 DEF IInv, TypeOK, Complete
  <1> DEFINE row == Completed(jobs[job[w]], attempt[w])
             k == jobs[job[w]].key
  <1>2. jobs[job[w]] \in JobRows /\ TypeOK /\ OneJobPerKey
    BY <1>1, KeysOfRows DEF IInv
  <1>3. row.status = "completed"
    BY <1>2 DEF Completed, JobRows
  <1>4. row.key = k /\ row.attempts = jobs[job[w]].attempts
    BY <1>1, <1>2, CompletedFacts
  <1> HIDE DEF row
  <1>5. /\ StatusOf(jobs') = [StatusOf(jobs) EXCEPT ![k] = "completed"]
        /\ StatusOf(jobs)[k] = "running" /\ k \in Keys
        /\ AttemptsOf(jobs') = AttemptsOf(jobs)
    <2>1. jobs' = [jobs EXCEPT ![job[w]] = row] /\ job[w] \in DOMAIN jobs
      BY <1>1 DEF row
    <2>2. /\ k \in Keys /\ StatusOf(jobs)[k] = jobs[job[w]].status
          /\ StatusOf(jobs') = [StatusOf(jobs) EXCEPT ![k] = row.status]
          /\ AttemptsOf(jobs') = AttemptsOf(jobs)
      BY ONLY <1>2, <1>4, <2>1, RowWriteRefines
    <2> QED BY <1>1, <1>3, <2>2
  <1>6. Lifecycle!Finish(k)
    BY <1>5 DEF Lifecycle!Finish
  <1> QED BY <1>5, <1>6 DEF Lifecycle!LNext

LEMMA FailRefines ==
  ASSUME IInv, NEW w \in Workers, FailWrite(w), ~Superseded(w)
  PROVE  Lifecycle!LNext
  <1>1. /\ job[w] \in DOMAIN jobs /\ jobs[job[w]].status = "running"
        /\ jobs' = [jobs EXCEPT ![job[w]] = Failed(jobs[job[w]], terminal[w])]
        /\ terminal[w] \in BOOLEAN
        /\ terminal[w] <=> jobs[job[w]].attempts >= MaxAttempts
    <2>1. pc[w] = "fail" /\ Executing(w)
      BY DEF FailWrite, Goto, Executing
    <2>2. /\ job[w] \in DOMAIN jobs /\ jobs[job[w]].status = "running"
          /\ jobs[job[w]].attempts = attempt[w]
      BY <2>1 DEF IInv, HeldInv, Superseded
    <2>3. terminal[w] <=> jobs[job[w]].attempts >= MaxAttempts
      BY <2>1, <2>2 DEF IInv, TerminalInv
    <2> QED BY <2>2, <2>3 DEF IInv, TypeOK, FailWrite
  <1> DEFINE row == Failed(jobs[job[w]], terminal[w])
             k == jobs[job[w]].key
  <1>2. jobs[job[w]] \in JobRows /\ TypeOK /\ OneJobPerKey
    BY <1>1, KeysOfRows DEF IInv
  <1>3. row.status = IF jobs[job[w]].attempts >= MaxAttempts THEN "failed" ELSE "queued"
    <2>1. row.status = IF terminal[w] THEN "failed" ELSE "queued"
      BY <1>2 DEF Failed, JobRows
    <2> QED BY <1>1, <2>1
  <1>4. row.key = k /\ row.attempts = jobs[job[w]].attempts
    BY <1>1, <1>2, FailedFacts
  <1> HIDE DEF row
  <1>5. /\ StatusOf(jobs') = [StatusOf(jobs) EXCEPT ![k] = row.status]
        /\ StatusOf(jobs)[k] = "running" /\ k \in Keys
        /\ AttemptsOf(jobs)[k] = jobs[job[w]].attempts
        /\ AttemptsOf(jobs') = AttemptsOf(jobs)
    <2>1. jobs' = [jobs EXCEPT ![job[w]] = row] /\ job[w] \in DOMAIN jobs
      BY <1>1 DEF row
    <2>2. /\ k \in Keys /\ StatusOf(jobs)[k] = jobs[job[w]].status
          /\ AttemptsOf(jobs)[k] = jobs[job[w]].attempts
          /\ StatusOf(jobs') = [StatusOf(jobs) EXCEPT ![k] = row.status]
          /\ AttemptsOf(jobs') = AttemptsOf(jobs)
      BY ONLY <1>2, <1>4, <2>1, RowWriteRefines
    <2> QED BY <1>1, <2>2
  <1>6. Lifecycle!GiveUp(k)
    BY <1>3, <1>5 DEF Lifecycle!GiveUp
  <1> QED BY <1>5, <1>6 DEF Lifecycle!LNext

LEMMA StepRefines ==
  ASSUME IInv, [Next]_vars, \A w \in Workers : ~Superseded(w)
  PROVE  [Lifecycle!LNext]_(Lifecycle!lvars)
  <1>1. TypeOK /\ OneJobPerKey
    BY DEF IInv
  <1>2. ASSUME UNCHANGED jobs PROVE UNCHANGED Lifecycle!lvars
    BY <1>2 DEF Lifecycle!lvars, StatusOf, AttemptsOf, HasKey, RowOf
  <1>3. CASE UNCHANGED vars
    BY <1>2, <1>3 DEF vars
  <1>4. CASE Environment
    <2>1. ASSUME NEW p \in Projects, NEW q \in Requests, EnqueueRequest(p, q)
          PROVE  [Lifecycle!LNext]_(Lifecycle!lvars)
      BY <1>1, <2>1, EnqueueRefines DEF EnqueueRequest, Keys
    <2> QED BY <1>1, <1>2, <1>4, <2>1, ExpireRefines DEF Environment, UpsertProject, AppendEvent
  <1>5. ASSUME NEW w \in Workers, Start(w) \/ Crash(w)
        PROVE  [Lifecycle!LNext]_(Lifecycle!lvars)
    BY <1>2, <1>5 DEF Start, Crash, table
  <1>6. ASSUME NEW w \in Workers, Poll(w)
        PROVE  [Lifecycle!LNext]_(Lifecycle!lvars)
    <2>1. CASE Fetch(w) \/ IgnoreEvent(w) \/ DispatchFails(w) \/ AdvanceCursor(w) \/ FailRead(w)
      BY <1>2, <2>1 DEF Fetch, IgnoreEvent, DispatchFails, AdvanceCursor, FailRead, table
    <2>2. CASE EnqueueForEvent(w)
      <3>1. next[w] \in 1 .. MaxEvents
        BY <1>1, <2>2, ConstantsAssumption DEF EnqueueForEvent, TypeOK
      <3>2. EventKey(next[w]) \in Keys
        BY <3>1 DEF Keys
      <3> QED BY <1>1, <2>2, <3>2, EnqueueRefines DEF EnqueueForEvent
    <2>3. CASE ClaimNone(w)
      BY <1>1, <2>3, ClaimNoneRefines DEF ClaimNone
    <2>4. CASE Claim(w)
      BY <1>1, <2>4, ClaimRefines
    <2>5. CASE Complete(w)
      BY <2>5, CompleteRefines
    <2>6. CASE FailWrite(w)
      BY <2>6, FailRefines
    <2> QED BY <1>6, <2>1, <2>2, <2>3, <2>4, <2>5, <2>6 DEF Poll
  <1> QED BY <1>3, <1>4, <1>5, <1>6 DEF Next

\* Every step taken while no run is superseded is a step of JobLifecycle.
THEOREM StepsFollowLifecycle == Spec => FollowsLifecycle
  <1>1. IInv /\ [Next]_vars =>
           [(\A w \in Workers : ~Superseded(w)) => [Lifecycle!LNext]_(Lifecycle!lvars)]_vars
    BY StepRefines
  <1> QED BY <1>1, Invariance, PTL DEF Spec, FollowsLifecycle

-----------------------------------------------------------------------------
\* With one worker, as the backend is deployed, no run is ever superseded.

RunHoldsRow == \A w \in Workers : ~Superseded(w)

LEMMA OneWorkerStep ==
  ASSUME \A v, w \in Workers : v = w, IInv, RunHoldsRow, [Next]_vars
  PROVE  RunHoldsRow'
  <1>1. /\ TypeOK /\ HeldInv /\ OneJobPerKey /\ jobs \in Seq(JobRows)
        /\ pc \in [Workers -> {"down", "poll", "dispatch", "advance", "run", "fail"}]
        /\ job \in [Workers -> Nat]
        /\ attempt \in [Workers -> 0 .. MaxAttempts]
    BY DEF IInv, TypeOK
  <1>2. SUFFICES ASSUME NEW v \in Workers, Executing(v)'
                 PROVE  jobs'[job'[v]].status = "running" /\ jobs'[job'[v]].attempts = attempt'[v]
    BY DEF RunHoldsRow, Superseded
  \* A step that leaves the run and its row alone.
  <1>3. ASSUME Executing(v), UNCHANGED <<job[v], attempt[v]>>,
               \A i \in DOMAIN jobs : /\ jobs'[i].status = jobs[i].status
                                      /\ jobs'[i].attempts = jobs[i].attempts
        PROVE  jobs'[job'[v]].status = "running" /\ jobs'[job'[v]].attempts = attempt'[v]
    BY <1>1, <1>3 DEF RunHoldsRow, Superseded, HeldInv
  <1>4. ASSUME NEW k \in Keys, jobs' = Enqueued(jobs, k), UNCHANGED local
        PROVE  jobs'[job'[v]].status = "running" /\ jobs'[job'[v]].attempts = attempt'[v]
    <2>1. \A i \in DOMAIN jobs : jobs'[i] = jobs[i]
      BY <1>1, <1>4, EnqueuedFacts
    <2> QED BY <1>2, <1>3, <1>4, <2>1 DEF local, Executing
  <1>5. ASSUME NEW i \in DOMAIN jobs, LeaseExpires(i)
        PROVE  jobs'[job'[v]].status = "running" /\ jobs'[job'[v]].attempts = attempt'[v]
    <2>1. \A k \in DOMAIN jobs : jobs[k] \in JobRows
      BY <1>1
    <2>2. \A k \in DOMAIN jobs : /\ jobs'[k].status = jobs[k].status
                                 /\ jobs'[k].attempts = jobs[k].attempts
      BY <1>5, <2>1 DEF LeaseExpires, JobRows
    <2> QED BY <1>2, <1>3, <1>5, <2>2 DEF LeaseExpires, local, Executing
  <1>6. CASE UNCHANGED vars
    BY <1>2, <1>3, <1>6 DEF vars, Executing
  <1>7. CASE Environment
    <2>1. ASSUME NEW p \in Projects, NEW q \in Requests, EnqueueRequest(p, q)
          PROVE  jobs'[job'[v]].status = "running" /\ jobs'[job'[v]].attempts = attempt'[v]
      BY <1>4, <2>1 DEF EnqueueRequest, Keys
    <2> QED BY <1>2, <1>3, <1>5, <1>7, <2>1
            DEF Environment, UpsertProject, AppendEvent, local, Executing
  <1>8. ASSUME NEW w \in Workers, Start(w) \/ Crash(w) \/ Poll(w)
        PROVE  jobs'[job'[v]].status = "running" /\ jobs'[job'[v]].attempts = attempt'[v]
    <2>1. w = v
      OBVIOUS
    <2>2. FailRead(v) \/ Claim(v)
      BY <1>1, <1>2, <1>8, <2>1 DEF Start, Crash, Poll, Fetch, EnqueueForEvent, IgnoreEvent,
             DispatchFails, AdvanceCursor, ClaimNone, Complete, FailWrite, Goto, Executing
    <2>3. CASE FailRead(v)
      BY <1>3, <2>3 DEF FailRead, Goto, table, Executing
    <2>4. CASE Claim(v)
      <3>1. jobs'[job'[v]].attempts = attempt'[v] /\ job'[v] \in DOMAIN jobs
        BY <1>1, <2>4, ClaimStep
      <3>2. PICK i \in Claimable(Recovered(jobs)) :
                /\ jobs' = [Recovered(jobs) EXCEPT ![i] = Leased(@, v)]
                /\ job' = [job EXCEPT ![v] = i]
        BY <2>4 DEF Claim
      <3>3. i \in DOMAIN Recovered(jobs) /\ Recovered(jobs)[i] \in JobRows /\ job'[v] = i
        BY <1>1, <3>2, RecoveredFacts DEF Claimable
      <3>4. Leased(Recovered(jobs)[i], v).status = "running"
        BY <3>3 DEF Leased, JobRows
      <3> QED BY <3>1, <3>2, <3>3, <3>4
    <2> QED BY <2>2, <2>3, <2>4
  <1> QED BY <1>6, <1>7, <1>8 DEF Next

\* The queue with a single worker, its crashes and restarts included, implements
\* JobLifecycle: a settled inspection is never run, changed or reopened again.
THEOREM ImplementsLifecycle ==
  ASSUME \A v, w \in Workers : v = w
  PROVE  Spec => Lifecycle!LSpec
  <1>1. Init => RunHoldsRow
    BY DEF Init, RunHoldsRow, Superseded, Executing
  <1>2. IInv /\ RunHoldsRow /\ [Next]_vars => RunHoldsRow'
    BY OneWorkerStep
  <1>3. Init => Lifecycle!LInit
    BY DEF Init, Lifecycle!LInit, StatusOf, AttemptsOf, HasKey
  <1>4. IInv /\ RunHoldsRow /\ [Next]_vars => [Lifecycle!LNext]_(Lifecycle!lvars)
    BY StepRefines DEF RunHoldsRow
  <1> QED BY <1>1, <1>2, <1>3, <1>4, Invariance, PTL DEF Spec, Lifecycle!LSpec
=============================================================================
